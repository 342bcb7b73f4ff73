------------------------------ MODULE MCLongTexts ------------------------------
EXTENDS TextSurvival

CONSTANTS en, fr, de

\* Sentences of one, three and six bytes, another one without words.
short == [len |-> 1, words |-> TRUE]
medium == [len |-> 3, words |-> TRUE]
long == [len |-> 6, words |-> TRUE]
dots == [len |-> 3, words |-> FALSE]

\* With a ceiling of 5: an empty paragraph, two that fit, one of them without
\* words, one to be cut, one whose single sentence is too long, two with sentences
\* to be skipped.
MCParagraphs == {<<>>, <<short>>, <<dots>>, <<medium, short, medium>>, <<long>>,
                 <<dots, short, dots>>, <<dots, dots, dots>>}
two == <<<<medium, short, medium>>>>
three == <<<<medium, medium>>, <<>>, <<short>>>>
one == <<<<short>>>>
none == <<<<>>>>

Cuttable == UNION {[1 .. n -> MCParagraphs] : n \in 1 .. 3}
MCTexts == Cuttable \cup {one, two, three, none}

MCJobs ==
  [texts : {<<t>> : t \in Cuttable}, targets : {<<fr>>}, hint : {en, fr}]
    \cup [texts : {<<one, three>>, <<two, none, one>>}, targets : {<<fr>>, <<de, fr>>},
          hint : {NoLanguage}]
    \cup [texts : {<<two, one>>}, targets : {<<fr, fr>>, <<fr, de, en>>}, hint : {en}]
=============================================================================
