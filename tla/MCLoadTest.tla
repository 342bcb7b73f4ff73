------------------------------ MODULE MCLoadTest ------------------------------
(* A small instance of LoadTest for TLC: a scenario of translations, and one    *)
(* request each for /health and for /detect-language by other clients.          *)
EXTENDS LoadTest

MCScenarios == <<"translate">>
MCOthers == {<<0, 1>>, <<0, 2>>}
MCRequests == Own \cup Others
MCRoute ==
  [r \in Requests |->
     IF r \in Own THEN Scenarios[r[1]] ELSE IF r[2] = 1 THEN "static" ELSE "detect"]
=============================================================================
