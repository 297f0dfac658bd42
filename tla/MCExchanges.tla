---------------------------- MODULE MCExchanges ----------------------------
(* Three exchanges in which an answer must find its own question, for TLC: a message to a Claude   *)
(* session on its way through agent-deck, the gates of a runner, and the requests of a Codex       *)
(* session.  They share no state here, so each behaviour is one of them.                           *)
EXTENDS AskQueue

CONSTANTS c1, l1, Posts, NGates, MaxFaults, Requests, Slashes, TypeCap, MaxAborts, MaxReboots

VARIABLES
    scene,
    gate, raised, elev, dup, post, poller, view, vgate, shown, gateKey, buttons, ending, faults, answered,
    late,
    twins, phase, result, queue, typist, composer, inbox, turn, busy, aborts, rollout, pending, reboots,
    replied, dropped

ToOne == [m \in Reqs |-> c1]

Runner == INSTANCE RunnerGate WITH poll <- poller, key <- gateKey
Codex == INSTANCE CodexRequests WITH
    worker <- typist, QueueCap <- TypeCap, MaxRestarts <- MaxReboots, restarts <- reboots

ASSUME Assumptions == QueueAssumption /\ Runner!GatesAssumption /\ Codex!RequestsAssumption

gateVars == <<gate, raised, elev, dup, post, poller, view, vgate, shown, gateKey, buttons, ending, faults,
              answered, late>>
codexVars == <<twins, phase, result, queue, typist, composer, inbox, turn, busy, aborts, rollout,
               pending, reboots, replied, dropped>>
allVars == <<scene, vars, gateVars, codexVars>>

AllInit ==
    /\ scene \in {"claude", "gates", "codex"}
    /\ Init /\ Runner!Init /\ Codex!Init
    /\ scene # "codex" => twins = {}

\* Which poll loop runs is all one: another than l1 starts only beside it.
FirstPoller == \A p \in Pollers : poll'[p].pc # "off" => poll'[l1].pc # "off" \/ poll[p].pc # "off"

In(scn, A) == scene = scn /\ A

AllNext ==
    /\ UNCHANGED scene
    /\ \/ In("claude", Next) /\ FirstPoller /\ UNCHANGED <<gateVars, codexVars>>
       \/ In("gates", Runner!Next) /\ UNCHANGED <<vars, codexVars>>
       \/ In("codex", Codex!Next) /\ UNCHANGED <<vars, gateVars>>

\* The fairness of the three modules, with an agent-deck that settles every send ("a 30m delivery
\* budget").
AllFairness ==
    /\ \A s \in Sessions : WF_vars(In("claude", Worker(s)))
    /\ \A p \in Pollers : WF_vars(In("claude", Poller(p))) /\ SF_vars(In("claude", PollStatus(p, TRUE)))
    /\ \A r \in Reqs : /\ WF_vars(In("claude", PublishSent(r))) /\ WF_vars(In("claude", Ages(r)))
                       /\ WF_vars(In("claude", DeckStep(r)))
    /\ WF_gateVars(In("gates", Runner!Poll)) /\ \A p \in Posts : WF_gateVars(In("gates", Runner!Proceeds(p)))
    /\ \A r \in Requests : WF_codexVars(In("codex", Codex!Answer(r)))
    /\ WF_codexVars(In("codex", Codex!WorkerStep)) /\ WF_codexVars(In("codex", Codex!Take))
    /\ WF_codexVars(In("codex", Codex!EndTurn(TRUE)))
    /\ WF_codexVars(In("codex", Codex!Reconcile(Len(rollout))))

AllSpec == AllInit /\ [][AllNext]_allVars /\ AllFairness

\* The properties of RunnerGate and CodexRequests, stated and commented there, each in its scene.
GatesSound == scene = "gates" => Runner!GatesSound
GatesFollowed == Runner!GatesFollowed
RequestsApart == scene = "codex" => Codex!RequestsApart
ReplyComes == Codex!ReplyComes
=============================================================================
