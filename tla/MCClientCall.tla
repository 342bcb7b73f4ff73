----------------------------- MODULE MCClientCall -----------------------------
(* Small instances of ClientCall for TLC. *)
EXTENDS ClientCall

Ask(stream, n, langs, all, known) ==
  [stream |-> stream, texts |-> n, langs |-> langs, all |-> all, known |-> known]

\* Acceptable requests of both routes, and one for each reason to refuse.
AllRequests ==
  {Ask(TRUE, 1, 1, FALSE, TRUE), Ask(TRUE, 2, 2, FALSE, TRUE),
   Ask(FALSE, 2, 2, FALSE, TRUE), Ask(FALSE, 1, 1, TRUE, TRUE),
   Ask(FALSE, 0, 1, FALSE, TRUE), Ask(FALSE, 3, 1, FALSE, TRUE),
   Ask(TRUE, 2, 1, TRUE, TRUE), Ask(TRUE, 1, 1, FALSE, FALSE)}
===============================================================================
