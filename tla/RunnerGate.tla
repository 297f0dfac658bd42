----------------------------- MODULE RunnerGate -----------------------------
(***************************************************************************)
(* Runner mode on the phone after its start (src/web/runner.js: Poller,    *)
(* loop, render, drawGate, end, finish) and the handlers it talks to       *)
(* (src/tower_runner.go: gate poll, gate decision, end).                   *)
(*                                                                         *)
(* The runner (external) stops at gates 1, 2, ..., each with a nonce of    *)
(* its own, for retries of one and the same step.  The phone polls the     *)
(* gate and then the ask, draws what it saw, and posts a decision with the *)
(* gate's nonce; posts overtake polls, answers get lost, and the laptop    *)
(* may answer the gate or end the elevation at any time.                   *)
(***************************************************************************)
EXTENDS Integers

CONSTANTS
    Posts,    \* slots for decisions in flight
    NGates,   \* bound: gates
    MaxFaults \* bound: requests and answers lost, processes killed, restarts of the daemon

GatesAssumption == NGates \in Nat /\ MaxFaults \in Nat

VARIABLES
    gate,     \* external: the gate that is pending; 0: none
    raised,   \* external: the last gate
    elev,     \* external: the elevation is "on", "over", or over with its ask "closed"
    dup,      \* nonces with a mark of towerDup
    post,     \* the decisions in flight
    poll,     \* the poller: where it is, the gate it last read, failures in a row
    view,     \* the elevated view: "live" or "over"
    vgate,    \* v.gate, from which a decision takes its nonce
    shown,    \* the gate whose text and buttons are on the screen
    key,      \* v.gateKey
    buttons,  \* they are enabled
    ending,   \* POST runner/end: "no", "sent", "done" (at the server)
    faults,
    answered, \* history: [nonce, seen]: decisions accepted, with what was on the screen
    late      \* history: End was answered while a poll was out

runnerVars == <<gate, raised, elev>>
viewVars == <<view, vgate, shown, key, buttons>>
histVars == <<answered, late>>
vars == <<runnerVars, dup, post, poll, viewVars, ending, faults, histVars>>

Gates == 1..NGates
Some == 0..NGates
NoPost == [pc |-> "idle", nonce |-> 0, seen |-> 0, waits |-> FALSE, ok |-> FALSE]

TypeOK ==
    /\ gate \in {0, raised} /\ raised \in Some /\ elev \in {"on", "over", "closed"}
    /\ (elev # "on" => gate = 0)
    /\ dup \subseteq Gates
    /\ \A p \in Posts :
        /\ post[p].pc \in {"idle", "sent", "exec", "reply"}
        /\ {post[p].nonce, post[p].seen} \subseteq 0..raised
        /\ (post[p].pc = "exec" => post[p].nonce # 0)
    /\ poll.pc \in {"wait", "verify", "off"} /\ poll.gate \in 0..raised /\ poll.fails \in 0..MaxFaults
    /\ view \in {"live", "over"} /\ {vgate, shown, key} \subseteq 0..raised
    /\ (view = "live" => shown = key) /\ (shown = 0 => ~buttons)
    /\ ending \in {"no", "sent", "done"}
    /\ (poll.pc = "off" => view = "over")

Init ==
    /\ gate = 0 /\ raised = 0 /\ elev = "on"
    /\ dup = {} /\ post = [p \in Posts |-> NoPost]
    /\ poll = [pc |-> "wait", gate |-> 0, fails |-> 0]
    /\ view = "live" /\ vgate = 0 /\ shown = 0 /\ key = 0 /\ buttons = FALSE
    /\ ending = "no" /\ faults = 0 /\ answered = {} /\ late = FALSE

Fault == faults < MaxFaults /\ faults' = faults + 1

-----------------------------------------------------------------------------
(* The runner and the laptop.                                              *)

Raise ==
    /\ elev = "on" /\ gate = 0 /\ raised < NGates
    /\ gate' = raised + 1 /\ raised' = raised + 1
    /\ UNCHANGED <<elev, dup, post, poll, viewVars, ending, faults, histVars>>

LaptopAnswers ==
    /\ gate # 0 /\ gate' = 0
    /\ UNCHANGED <<raised, elev, dup, post, poll, viewVars, ending, faults, histVars>>

\* The last step has run, the loop has ended, time is up; or the ask is closed.
ElevationEnds ==
    /\ elev = "on" /\ elev' \in {"over", "closed"} /\ gate' = 0
    /\ UNCHANGED <<raised, dup, post, poll, viewVars, ending, faults, histVars>>

-----------------------------------------------------------------------------
(* The poll.                                                               *)

\* Mutant: a gate is known by its step and kind.
KeyBlind(g) == IF g = 0 THEN 0 ELSE 1

\* The gate's nonce, kind and step; the steps and kinds are all the same.
Key(g) == g

\* finish, for the first that calls it: the buttons give way to a note, the timer is cleared.
Finish == view' = "over" /\ shown' = 0 /\ buttons' = FALSE

\* drawGate: nothing is redrawn for the same key.
Draws(g) ==
    /\ vgate' = g
    /\ IF Key(g) = Key(key) THEN UNCHANGED <<shown, key, buttons>>
       ELSE shown' = g /\ key' = g /\ buttons' = (g # 0)

\* render, and loop after it: a poll that was out when the view ended still draws, and is the last.
Renders(g, over) ==
    IF over THEN /\ vgate' = g /\ UNCHANGED key
                 /\ (IF view = "live" THEN Finish ELSE UNCHANGED <<view, shown, buttons>>)
    ELSE Draws(g) /\ UNCHANGED view

\* loop: the next tick, unless the view is over.
PollsNext(g, fails, over) ==
    poll' = [pc |-> IF over \/ view = "over" THEN "off" ELSE "wait", gate |-> g, fails |-> fails]

\* A network error, a 5xx or a restarting daemon: try again, 30 s later at most.
PollFails ==
    /\ poll.pc # "off" /\ Fault
    /\ Renders(poll.gate, FALSE)
    /\ PollsNext(poll.gate, poll.fails + 1, FALSE)
    /\ UNCHANGED <<runnerVars, dup, post, ending, histVars>>

\* GET runner/gate.  An elevation that is over is refused with 403, and verify is read for the reason.
PollGate ==
    /\ poll.pc = "wait"
    /\ IF elev = "on"
       THEN poll' = [poll EXCEPT !.pc = "verify", !.gate = gate] /\ UNCHANGED viewVars
       ELSE Renders(poll.gate, TRUE) /\ PollsNext(poll.gate, poll.fails, TRUE)
    /\ UNCHANGED <<runnerVars, dup, post, ending, faults, histVars>>

\* GET run/verify: 404 when the ask is closed.
PollVerify ==
    /\ poll.pc = "verify"
    /\ Renders(poll.gate, elev # "on")
    /\ PollsNext(poll.gate, 0, elev # "on")
    /\ UNCHANGED <<runnerVars, dup, post, ending, faults, histVars>>

Poll == PollGate \/ PollVerify

-----------------------------------------------------------------------------
(* A decision.                                                             *)

\* Mutant: the poller's newest gate.
NonceFresh == poll.gate

\* decisionBody
Nonce == vgate

Tap(p) ==
    /\ shown # 0 /\ buttons /\ Nonce # 0 /\ post[p].pc = "idle"
    /\ post' = [post EXCEPT ![p] =
                   [NoPost EXCEPT !.pc = "sent", !.nonce = Nonce, !.seen = shown, !.waits = TRUE]]
    /\ buttons' = FALSE
    /\ UNCHANGED <<runnerVars, dup, poll, view, vgate, shown, key, ending, faults, histVars>>

\* handleRunnerGate up to the mutex: a second tap within 10 s is answered with 429.
Arrive(p) ==
    /\ post[p].pc = "sent"
    /\ post' = [post EXCEPT ![p].pc = IF post[p].nonce \in dup THEN "reply" ELSE "exec"]
    /\ dup' = dup \cup {post[p].nonce}
    /\ UNCHANGED <<runnerVars, poll, viewVars, ending, faults, histVars>>

Unmarked(n) == dup \ {n}

\* Under towerActMu.  The runner takes a nonce once, and refuses a word that is wrong; a process that
\* is killed may have handed its decision over.
Exec(p, takes, rc0) ==
    /\ post[p].pc = "exec" /\ (rc0 => takes)
    /\ IF takes THEN /\ post[p].nonce = gate /\ gate' = 0
                     /\ answered' = answered \cup {[nonce |-> gate, seen |-> post[p].seen]}
       ELSE UNCHANGED <<gate, answered>>
    /\ IF takes /\ ~rc0 THEN Fault ELSE UNCHANGED faults
    /\ dup' = IF rc0 THEN dup ELSE Unmarked(post[p].nonce)
    /\ post' = [post EXCEPT ![p].pc = "reply", ![p].ok = rc0]
    /\ UNCHANGED <<raised, elev, poll, viewVars, ending, late>>

\* The row of the tap is on the screen still, and its decision failed.
Enables(p, ok) == shown # 0 /\ shown = post[p].seen /\ ~ok

Answers(p, ok) ==
    buttons' = (buttons \/ (post[p].waits /\ Enables(p, ok)))

Reply(p) ==
    /\ post[p].pc = "reply"
    /\ Answers(p, post[p].ok)
    /\ post' = [post EXCEPT ![p] = NoPost]
    /\ UNCHANGED <<runnerVars, dup, poll, view, vgate, shown, key, ending, faults, histVars>>

\* The phone gives up; the request may never come to the server, or be worked on.
Lost(p) ==
    /\ post[p].waits /\ Fault
    /\ Answers(p, FALSE)
    /\ \/ post' = [post EXCEPT ![p] = NoPost] /\ post[p].pc \in {"sent", "reply"}
       \/ post' = [post EXCEPT ![p].waits = FALSE] /\ post[p].pc \in {"sent", "exec"}
    /\ UNCHANGED <<runnerVars, dup, poll, view, vgate, shown, key, ending, histVars>>

\* towerDedupFor, for the mark of a decision that is answered or still with the runner
Lapse(n) ==
    /\ n \in dup /\ dup' = dup \ {n}
    /\ UNCHANGED <<runnerVars, post, poll, viewVars, ending, faults, histVars>>

-----------------------------------------------------------------------------
(* The end.                                                                *)

EndTap ==
    /\ view = "live" /\ ending = "no" /\ ending' = "sent"
    /\ UNCHANGED <<runnerVars, dup, post, poll, viewVars, faults, histVars>>

\* handleRunnerEnd; refused when the elevation is over already.
EndServer ==
    /\ ending = "sent"
    /\ IF elev = "on" THEN elev' = "over" /\ gate' = 0 /\ ending' = "done"
       ELSE ending' = "no" /\ UNCHANGED <<elev, gate>>
    /\ UNCHANGED <<raised, dup, post, poll, viewVars, faults, histVars>>

EndReply ==
    /\ ending = "done" /\ ending' = "no"
    /\ IF view = "live" THEN Finish ELSE UNCHANGED <<view, shown, buttons>>
    /\ late' = (late \/ poll.pc = "verify")
    /\ poll' = [poll EXCEPT !.pc = IF @ = "wait" THEN "off" ELSE @]
    /\ UNCHANGED <<runnerVars, dup, post, vgate, key, faults, answered>>

EndLost ==
    /\ ending # "no" /\ Fault /\ ending' = "no"
    /\ UNCHANGED <<runnerVars, dup, post, poll, viewVars, histVars>>

\* deck-remote starts anew: marks and requests are gone.
Restart ==
    /\ Fault
    /\ dup' = {} /\ ending' = "no"
    /\ post' = [p \in Posts |-> NoPost]
    /\ buttons' = (buttons \/ \E p \in Posts : post[p].waits /\ Enables(p, FALSE))
    /\ UNCHANGED <<runnerVars, poll, view, vgate, shown, key, histVars>>

Proceeds(p) == Arrive(p) \/ Reply(p) \/ \E takes, rc0 \in BOOLEAN : Exec(p, takes, rc0)

Next ==
    \/ Raise \/ LaptopAnswers \/ ElevationEnds
    \/ Poll \/ PollFails
    \/ \E p \in Posts : Tap(p) \/ Proceeds(p) \/ Lost(p)
    \/ \E n \in Gates : Lapse(n)
    \/ EndTap \/ EndServer \/ EndReply \/ EndLost \/ Restart

\* The timer of the poll fires, requests come through or fail.
Fairness ==
    WF_vars(Poll) /\ \A p \in Posts : WF_vars(Proceeds(p))

Spec == Init /\ [][Next]_vars /\ Fairness

-----------------------------------------------------------------------------
\* What the runner accepts is an answer to the gate that was on the screen, though gates follow one
\* another while polls and posts are out; and no gate is answered twice.
DecisionOnGateSeen ==
    \A a \in answered : a.nonce = a.seen /\ \A b \in answered : a.nonce = b.nonce => a = b

\* A mark means that the gate was answered, or that the decision is on its way: a refused word may be
\* typed again at once.
MarkMeansAnswered ==
    \A n \in dup : n # gate \/ \E p \in Posts : post[p].pc = "exec" /\ post[p].nonce = n

\* While a gate waits, the buttons on the screen answer it unless a decision of theirs is on its way.
NoDeadButtons ==
    gate # 0 /\ shown = gate => buttons \/ \E p \in Posts : post[p].waits /\ post[p].nonce = gate

\* The view ends only when the elevation has: a dropped connection or a restart is not a result.
OverIsTrue == view = "over" => elev # "on"

\* Once the view is over no gate is offered, unless End was answered while a poll was out.
OverOffersNothing == view = "over" /\ ~late => shown = 0

\* A gate that stays is shown.
GateShown == \A n \in Gates : gate = n ~> shown = n \/ gate # n

\* The end of the elevation is seen.
OverShown == elev # "on" ~> view = "over"

\* Phone, daemon and runner agree on the gate: what is answered was seen, what is marked was answered,
\* what waits can be answered, and the view ends with the elevation and no sooner.
GatesSound ==
    TypeOK /\ DecisionOnGateSeen /\ MarkMeansAnswered /\ NoDeadButtons /\ OverIsTrue /\ OverOffersNothing

\* The phone keeps up with the runner, through lost answers and restarts.
GatesFollowed == GateShown /\ OverShown
=============================================================================
