----------------------------- MODULE MCAskQueue -----------------------------
(* AskQueue for TLC, with one session. *)
EXTENDS AskQueue

CONSTANTS m1, m2, s1

OneSession == [r \in Reqs |-> s1]
=============================================================================
