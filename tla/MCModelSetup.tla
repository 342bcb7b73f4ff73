----------------------------- MODULE MCModelSetup -----------------------------
(* Small instances of ModelSetup for TLC. *)
EXTENDS ModelSetup

CONSTANTS short, long

\* One of the files is longer than the other, so that a rest of it would show.
MCSize == [u \in {short, long} |-> IF u = short THEN 1 ELSE 3]
=============================================================================
