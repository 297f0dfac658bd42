------------------------------ MODULE MCReads ------------------------------
(* What the phone reads, for TLC: the session list, and the rows of a session from the recall cache. *)
(* They share no state, so each behaviour is one of them at work.                                    *)
(*                                                                                                   *)
(* The list changes once under two requests.  The session of the recall cache is cleared twice, two  *)
(* followers may be at work for it, and a read or a process fails once.                              *)
EXTENDS SessionList

CONSTANTS Followers, TailRows, NRows, NConvs, MaxEvents, MaxFaults

VARIABLES scene, conv, log, cache, fol, loop, faults

Rows == INSTANCE Recall

ASSUME Assumptions == SessionListAssumption /\ Rows!RecallAssumption

rowVars == <<conv, log, cache, fol, loop, faults>>

Listing(A) == scene = "list" /\ A
Reading(A) == scene = "recall" /\ A

AllInit == scene \in {"list", "recall"} /\ Init /\ Rows!Init

AllNext ==
    /\ UNCHANGED scene
    /\ \/ Listing(Next) /\ UNCHANGED rowVars
       \/ Reading(Rows!Next) /\ UNCHANGED vars

\* The fairness of both modules.
AllFairness ==
    /\ \A r \in Requests : WF_vars(Listing(Serves(r)))
    /\ \A b \in Builds : WF_vars(Listing(BuildStep(b)))
    /\ WF_rowVars(Reading(Rows!Ask)) /\ \A f \in Followers : WF_rowVars(Reading(Rows!Proceeds(f)))

AllSpec == AllInit /\ [][AllNext]_<<scene, vars, rowVars>> /\ AllFairness

\* The liveness of SessionList, stated there, for one request that stands for all: nothing tells them
\* apart.  So does one follower below.
ListIsServed == IsServed(CHOOSE r \in Requests : TRUE)

\* The properties of Recall, stated and commented there, in its scene.
RowsKept == scene = "recall" => Rows!TypeOK /\ Rows!NothingLost
RowsFollow == (scene = "recall" => Rows!NeverStale) /\ Rows!SlotComesBack(CHOOSE f \in Followers : TRUE)
=============================================================================
