----------------------------- MODULE MCTowerRun -----------------------------
(* TowerRun for TLC with liveness: 1 a ro line; 2 a prog step whose runner needs the Vault arm.  *)
(* The mutating line is in MCPasskeyEnrol.                                                       *)
EXTENDS TowerRun, TLC

CONSTANT full \* a phone with every run:* cap

MCCaps == full :> {"run:ro", "run:mut", "run:prog"}

ProgSha == <<"a", "b">>
ProgPar == <<"p", "p">>
ProgClass == <<"ro", "prog">>

\* No revoke, no expired challenge, no request with a sheet that is older than the ask.
Calm ==
    /\ tokens' = tokens
    /\ \A c \in Chals : chals'[c] = None \/ ~chals'[c].expired
    /\ \A r \in Requests : req'[r] # req[r] /\ req[r].pc = "idle" => req'[r].sha = Sha[cur]

CalmNext == Next /\ Calm

\* Calm holds up no step that Fairness asks for.
CalmSpec == Init /\ [][CalmNext]_vars /\ Fairness
=============================================================================
