------------------------------ MODULE OneShot ------------------------------
(***************************************************************************)
(* What every secret handed out by the daemon promises: it may be used at  *)
(* most once, and once used or dead it never comes back.  Enrol codes,     *)
(* pairing grants, pairing offers and run challenges implement it (modules *)
(* PasskeyEnrol, Pairing and TowerRun): they are looked at, held and spent *)
(* in several critical sections by concurrent requests, which this         *)
(* specification hides.                                                    *)
(***************************************************************************)
CONSTANTS
    Secrets,   \* what is handed out
    Products   \* what using one yields (a credential, a device token)

VARIABLES
    stage,   \* secret -> "new", "live", "used" or "dead"
    yielded  \* the pairs [proof, product] produced so far

Stages == {"new", "live", "used", "dead"}

\* The moves one step may make with a secret; several may move at once (a restart kills all).
Moves == {<<"new", "live">>, <<"new", "dead">>, <<"live", "used">>, <<"live", "dead">>}

Init ==
    /\ stage = [s \in Secrets |-> "new"]
    /\ yielded = {}

Yield(s) == {y \in yielded : y.proof = s}

Next ==
    /\ stage' \in [Secrets -> Stages]
    /\ yielded' \in SUBSET [proof : Secrets, product : Products]
    /\ \A s \in Secrets :
        \/ /\ stage'[s] = stage[s] \/ <<stage[s], stage'[s]>> \in Moves \ {<<"live", "used">>}
           /\ {y \in yielded' : y.proof = s} = Yield(s)
        \/ /\ stage[s] = "live" /\ stage'[s] = "used"
           /\ \E p \in Products : {y \in yielded' : y.proof = s} = {[proof |-> s, product |-> p]}

Spec == Init /\ [][Next]_<<stage, yielded>>

\* No secret yields two products.
AtMostOnce == \A a, b \in yielded : a.proof = b.proof => a = b
=============================================================================
