-------------------------- MODULE ExchangesProofs --------------------------
(* What the phone decides at a runner's gate answers the gate it was shown, and the view of an *)
(* elevation ends with it, for any number of gates, decisions in flight and faults; and the    *)
(* requests of a Codex session stay apart from the composer to the reply, for any number of    *)
(* requests, channel size and interrupted turns.                                               *)
EXTENDS MCExchanges, WellFoundedInduction, TLAPS

PostRecords == [pc : {"idle", "sent", "exec", "reply"}, nonce : 0..NGates, seen : 0..NGates,
                waits : BOOLEAN, ok : BOOLEAN]

\* What the proofs need of the types.
PostShape == post \in [Posts -> PostRecords]
PollShape == poller \in [pc : {"wait", "verify", "off"}, gate : 0..raised, fails : 0..faults]
GateShape ==
    /\ raised \in 0..NGates /\ gate \in {0, raised}
    /\ elev \in {"on", "over", "closed"}
    /\ dup \subseteq 1..raised
    /\ view \in {"live", "over"} /\ vgate \in 0..raised /\ shown \in 0..raised /\ gateKey \in 0..raised
    /\ ending \in {"no", "sent", "done"} /\ faults \in 0..MaxFaults

\* An elevation that is over has no gate, and only such a one ends the view.
Over ==
    /\ elev # "on" => gate = 0
    /\ view = "over" \/ ending = "done" => elev # "on"

\* The poll that is out when the view ends is the last.
LastPoll ==
    /\ view = "live" => poller.pc # "off"
    /\ view = "over" => poller.pc # "wait"
    /\ view = "over" /\ poller.pc = "verify" => late
    /\ view = "over" /\ (poller.pc = "verify" \/ ~late) => shown = 0

\* The row on the screen is the gate that a decision would name.
Row ==
    /\ view = "live" => shown = gateKey
    /\ shown # 0 => shown = vgate
    /\ shown = 0 => ~buttons

\* A decision names the gate that was on the screen.  One that was accepted has ended its gate.
Decisions ==
    /\ \A p \in Posts :
        /\ post[p].nonce = post[p].seen /\ post[p].nonce <= raised
        /\ post[p].pc # "idle" => post[p].nonce # 0
        /\ post[p].waits => post[p].pc # "idle"
        /\ post[p].ok => post[p].pc = "reply" /\ post[p].nonce # gate
    /\ \A a \in answered : a = [nonce |-> a.nonce, seen |-> a.nonce]

GatesInv ==
    /\ GateShape /\ PostShape /\ PollShape /\ Over /\ LastPoll /\ Row /\ Decisions
    /\ Runner!MarkMeansAnswered /\ Runner!NoDeadButtons

\* The invariant says what RunnerGate promises.
LEMMA GatesInvSound == ASSUME Assumptions, GatesInv PROVE Runner!GatesSound
  <1>1. Runner!TypeOK
    BY DEF GatesInv, GateShape, PostShape, PollShape, Over, LastPoll, Row, Decisions, PostRecords, Assumptions,
           Runner!TypeOK, Runner!Some, Runner!Gates, Runner!GatesAssumption
  <1>2. Runner!DecisionOnGateSeen
    BY DEF GatesInv, Decisions, Runner!DecisionOnGateSeen
  <1>3. Runner!OverIsTrue /\ Runner!OverOffersNothing
    BY DEF GatesInv, Over, LastPoll, Runner!OverIsTrue, Runner!OverOffersNothing
  <1> QED
    BY <1>1, <1>2, <1>3 DEF GatesInv, Runner!GatesSound

\* An idle post.
LEMMA NoPostIs ==
  ASSUME Assumptions
  PROVE  Runner!NoPost \in PostRecords /\ ~Runner!NoPost.ok
  BY DEF Runner!NoPost, PostRecords, Assumptions, Runner!GatesAssumption

\* No gate is up and no post is out at the start.
LEMMA InitGates == ASSUME Assumptions, Runner!Init PROVE GatesInv
  <1>1. PostShape
    BY DEF Runner!Init, Runner!NoPost, PostRecords, PostShape, Assumptions, Runner!GatesAssumption
  <1>2. Decisions
    BY DEF Runner!Init, Runner!NoPost, Decisions
  <1>3. GateShape
    BY DEF Runner!Init, GateShape, Assumptions, Runner!GatesAssumption
  <1>5. PollShape
    BY DEF Runner!Init, PollShape
  <1>4. Over /\ LastPoll /\ Row /\ Runner!MarkMeansAnswered /\ Runner!NoDeadButtons
    BY DEF Runner!Init, Over, LastPoll, Row, Runner!MarkMeansAnswered, Runner!NoDeadButtons
  <1> QED
    BY <1>1, <1>2, <1>3, <1>4, <1>5 DEF GatesInv

\* The runner and the laptop.
LEMMA RunnerSteps ==
  ASSUME Assumptions, GatesInv, Runner!Raise \/ Runner!LaptopAnswers \/ Runner!ElevationEnds
  PROVE  GatesInv'
  <1> USE
     DEF GatesInv, Runner!Raise, Runner!LaptopAnswers, Runner!ElevationEnds, Runner!viewVars, Runner!histVars
  <1>1. GateShape'
    BY DEF GateShape, Decisions, Runner!GatesAssumption
  <1>2. PostShape'
    BY DEF PostShape
  <1>3. PollShape'
    BY DEF PollShape, GateShape
  <1>4. Over'
    BY DEF Over
  <1>5. LastPoll'
    BY DEF LastPoll
  <1>6. Row'
    BY DEF Row
  <1>7. Decisions'
    BY DEF Decisions, GateShape, PostShape, PostRecords
  <1>8. Runner!MarkMeansAnswered'
    BY DEF Runner!MarkMeansAnswered, GateShape
  <1>9. Runner!NoDeadButtons'
    BY DEF Runner!NoDeadButtons, GateShape
  <1> QED
    BY <1>1, <1>2, <1>3, <1>4, <1>5, <1>6, <1>7, <1>8, <1>9

\* The poll and what it draws.
LEMMA PollSteps ==
  ASSUME Assumptions, GatesInv, Runner!Poll \/ Runner!PollFails
  PROVE  GatesInv'
  <1> USE
     DEF GatesInv, Runner!Poll, Runner!PollFails, Runner!PollGate, Runner!PollVerify, Runner!Renders,
         Runner!Draws, Runner!PollsNext, Runner!Finish, Runner!Key, Runner!Fault, Runner!viewVars,
         Runner!runnerVars, Runner!histVars
  <1>1. GateShape'
    BY DEF GateShape, PollShape, Runner!GatesAssumption
  <1>2. PostShape'
    BY DEF PostShape
  <1>3. PollShape'
    <2>1. CASE Runner!PollGate
      <3>1. CASE elev = "on"
        <4>1. /\ poller' = [poller EXCEPT !.pc = "verify", !.gate = gate]
              /\ UNCHANGED <<raised, faults, view, shown, late>>
          BY <2>1, <3>1
        <4>2. poller' = [pc |-> "verify", gate |-> gate, fails |-> poller.fails]
          BY <4>1 DEF PollShape
        <4> QED
          BY <2>1, <3>1, <4>1, <4>2 DEF PollShape, GateShape
      <3> QED
        BY <2>1, <3>1 DEF PollShape
    <2>2. CASE Runner!PollVerify
      BY <2>2 DEF PollShape, GateShape
    <2>3. CASE Runner!PollFails
      BY <2>3 DEF PollShape, GateShape
    <2> QED
      BY <2>1, <2>2, <2>3
  <1>4. Over'
    BY DEF Over
  <1>5. LastPoll'
    <2>1. CASE Runner!PollGate
      <3>1. CASE elev = "on"
        <4>1. /\ poller' = [poller EXCEPT !.pc = "verify", !.gate = gate]
              /\ UNCHANGED <<raised, faults, view, shown, late>>
          BY <2>1, <3>1
        <4>2. poller' = [pc |-> "verify", gate |-> gate, fails |-> poller.fails]
          BY <4>1 DEF PollShape
        <4> QED
          BY <2>1, <3>1, <4>1, <4>2 DEF LastPoll
      <3> QED
        BY <2>1, <3>1 DEF LastPoll
    <2>2. CASE Runner!PollVerify
      BY <2>2 DEF LastPoll
    <2>3. CASE Runner!PollFails
      BY <2>3 DEF LastPoll, PollShape
    <2> QED
      BY <2>1, <2>2, <2>3
  <1>6. Row'
    BY DEF Row, GateShape, LastPoll, PollShape
  <1>7. Decisions'
    BY DEF Decisions
  <1>8. Runner!MarkMeansAnswered'
    BY DEF Runner!MarkMeansAnswered
  <1>9. Runner!NoDeadButtons'
    BY DEF Runner!NoDeadButtons
  <1> QED
    BY <1>1, <1>2, <1>3, <1>4, <1>5, <1>6, <1>7, <1>8, <1>9

\* A tap on the row of the gate.
LEMMA TapStep ==
  ASSUME Assumptions, GatesInv, NEW p \in Posts, Runner!Tap(p)
  PROVE  GatesInv'
  <1> USE DEF GatesInv, Runner!Tap, Runner!Nonce, Runner!runnerVars, Runner!histVars
  <1>1. GateShape'
    BY DEF GateShape
  <1>2. PostShape'
    <2>1. PICK new \in PostRecords : post' = [post EXCEPT ![p] = new]
      <3>1. vgate \in 0..NGates /\ shown \in 0..NGates
        BY DEF GateShape, Runner!GatesAssumption
      <3> DEFINE new == [Runner!NoPost EXCEPT !.pc = "sent", !.nonce = vgate, !.seen = shown, !.waits = TRUE]
      <3>2. new \in PostRecords
        BY <3>1, NoPostIs DEF PostRecords
      <3>3. post' = [post EXCEPT ![p] = new]
        OBVIOUS
      <3> HIDE DEF new
      <3> QED
        BY <3>2, <3>3
    <2> QED
      BY <2>1 DEF PostShape
  <1>3. PollShape'
    BY DEF PollShape
  <1>4. Over'
    BY DEF Over
  <1>5. LastPoll'
    BY DEF LastPoll
  <1>6. Row'
    BY DEF Row
  <1>7. Decisions'
    BY NoPostIs DEF Decisions, GateShape, Row
  <1>8. Runner!MarkMeansAnswered'
    BY NoPostIs DEF Runner!MarkMeansAnswered
  <1>9. Runner!NoDeadButtons'
    BY NoPostIs DEF Runner!NoDeadButtons, Row, PostShape
  <1> QED
    BY <1>1, <1>2, <1>3, <1>4, <1>5, <1>6, <1>7, <1>8, <1>9

\* A decision arrives.
LEMMA ArriveStep ==
  ASSUME Assumptions, GatesInv, NEW p \in Posts, Runner!Arrive(p)
  PROVE  GatesInv'
  <1> USE DEF GatesInv, Runner!Arrive, Runner!viewVars, Runner!runnerVars, Runner!histVars
  <1>1. GateShape'
    BY DEF GateShape, Decisions, PostShape, PostRecords
  <1>2. PostShape'
    BY DEF PostShape, PostRecords
  <1>3. PollShape'
    BY DEF PollShape
  <1>4. Over'
    BY DEF Over
  <1>5. LastPoll'
    BY DEF LastPoll
  <1>6. Row'
    BY DEF Row
  <1>7. Decisions'
    <2>1. PICK pc \in {"reply", "exec"} : post' = [post EXCEPT ![p].pc = pc]
      OBVIOUS
    <2>2. /\ post[p].pc = "sent" /\ ~post[p].ok
      BY DEF Decisions
    <2> QED
      BY <2>1, <2>2 DEF Decisions
  <1>8. Runner!MarkMeansAnswered'
    BY DEF Runner!MarkMeansAnswered, PostShape
  <1>9. Runner!NoDeadButtons'
    BY DEF Runner!NoDeadButtons
  <1> QED
    BY <1>1, <1>2, <1>3, <1>4, <1>5, <1>6, <1>7, <1>8, <1>9

\* A decision is handed to the runner.
LEMMA ExecStep ==
  ASSUME Assumptions, GatesInv, NEW p \in Posts, NEW takes \in BOOLEAN, NEW rc0 \in BOOLEAN,
         Runner!Exec(p, takes, rc0)
  PROVE  GatesInv'
  <1> USE DEF GatesInv, Runner!Exec, Runner!Fault, Runner!Unmarked, Runner!viewVars
  <1>1. GateShape'
    BY DEF GateShape, Runner!GatesAssumption
  <1>2. PostShape'
    BY DEF PostShape, PostRecords
  <1>3. PollShape'
    BY DEF PollShape, GateShape
  <1>4. Over'
    BY DEF Over
  <1>5. LastPoll'
    BY DEF LastPoll
  <1>6. Row'
    BY DEF Row
  <1>7. Decisions'
    BY DEF Decisions, PostShape
  <1>8. Runner!MarkMeansAnswered'
    BY DEF Runner!MarkMeansAnswered, GateShape, PostShape
  <1>9. Runner!NoDeadButtons'
    BY DEF Runner!NoDeadButtons, PostShape
  <1> QED
    BY <1>1, <1>2, <1>3, <1>4, <1>5, <1>6, <1>7, <1>8, <1>9

\* Its answer comes, or gets lost.
LEMMA ReplySteps ==
  ASSUME Assumptions, GatesInv, NEW p \in Posts, Runner!Reply(p) \/ Runner!Lost(p)
  PROVE  GatesInv'
  <1> USE
     DEF GatesInv, Runner!Reply, Runner!Lost, Runner!Answers, Runner!Enables, Runner!NoPost, Runner!Fault,
         Runner!runnerVars, Runner!histVars
  <1>1. GateShape'
    BY DEF GateShape, Runner!GatesAssumption
  <1>2. PostShape'
    <2>1. CASE post' = [post EXCEPT ![p] = Runner!NoPost]
      BY <2>1, NoPostIs DEF PostShape
    <2>2. CASE post' = [post EXCEPT ![p].waits = FALSE]
      BY <2>2 DEF PostShape, PostRecords
    <2> QED
      BY <2>1, <2>2
  <1>3. PollShape'
    BY DEF PollShape, GateShape
  <1>4. Over'
    BY DEF Over
  <1>5. LastPoll'
    BY DEF LastPoll
  <1>6. Row'
    BY DEF Row
  <1>7. Decisions'
    BY DEF Decisions, GateShape, PostShape, PostRecords
  <1>8. Runner!MarkMeansAnswered'
    BY DEF Runner!MarkMeansAnswered, PostShape, PostRecords
  <1>9. Runner!NoDeadButtons'
    <2> DEFINE Decided(q) == post[q].waits /\ post[q].nonce = gate
    <2>1. SUFFICES ASSUME gate # 0, shown = gate, ~buttons'
                   PROVE  \E q \in Posts : Decided(q)'
      BY DEF Runner!NoDeadButtons
    <2>2. ~buttons /\ ~(post[p].waits /\ ~post[p].ok /\ shown = post[p].seen)
      BY <2>1 DEF Decisions
    <2>3. ~Decided(p)
      BY <2>1, <2>2 DEF Decisions
    <2>4. PICK q \in Posts : Decided(q)
      BY <2>1, <2>2 DEF Runner!NoDeadButtons
    <2>5. post'[q] = post[q]
      BY <2>3, <2>4 DEF PostShape
    <2> QED
      BY <2>4, <2>5
  <1> QED
    BY <1>1, <1>2, <1>3, <1>4, <1>5, <1>6, <1>7, <1>8, <1>9

\* The end of the elevation, from the phone.
LEMMA EndSteps ==
  ASSUME Assumptions, GatesInv, Runner!EndTap \/ Runner!EndServer \/ Runner!EndReply \/ Runner!EndLost
  PROVE  GatesInv'
  <1> USE
     DEF GatesInv, Runner!EndTap, Runner!EndServer, Runner!EndReply, Runner!EndLost, Runner!Finish,
         Runner!Fault, Runner!viewVars, Runner!runnerVars, Runner!histVars
  <1>1. GateShape'
    BY DEF GateShape, Runner!GatesAssumption
  <1>2. PostShape'
    BY DEF PostShape
  <1>3. PollShape'
    BY DEF PollShape, GateShape
  <1>4. Over'
    BY DEF Over
  <1>5. LastPoll'
    BY DEF LastPoll, PollShape
  <1>6. Row'
    BY DEF Row
  <1>7. Decisions'
    BY DEF Decisions
  <1>8. Runner!MarkMeansAnswered'
    BY DEF Runner!MarkMeansAnswered, GateShape
  <1>9. Runner!NoDeadButtons'
    BY DEF Runner!NoDeadButtons
  <1> QED
    BY <1>1, <1>2, <1>3, <1>4, <1>5, <1>6, <1>7, <1>8, <1>9

\* The daemon starts anew.
LEMMA RestartStep ==
  ASSUME Assumptions, GatesInv, Runner!Restart
  PROVE  GatesInv'
  <1> USE
     DEF GatesInv, Runner!Restart, Runner!Enables, Runner!NoPost, Runner!Fault, Runner!runnerVars,
         Runner!histVars
  <1>1. GateShape'
    BY DEF GateShape, Runner!GatesAssumption
  <1>2. PostShape'
    BY DEF PostShape, PostRecords, Runner!GatesAssumption
  <1>3. PollShape'
    BY DEF PollShape, GateShape
  <1>4. Over'
    BY DEF Over
  <1>5. LastPoll'
    BY DEF LastPoll
  <1>6. Row'
    BY DEF Row
  <1>7. Decisions'
    BY DEF Decisions, GateShape
  <1>8. Runner!MarkMeansAnswered'
    BY DEF Runner!MarkMeansAnswered
  <1>9. Runner!NoDeadButtons'
    BY DEF Runner!NoDeadButtons, Decisions
  <1> QED
    BY <1>1, <1>2, <1>3, <1>4, <1>5, <1>6, <1>7, <1>8, <1>9

\* A mark lapses.
LEMMA LapseStep ==
  ASSUME Assumptions, GatesInv, NEW n \in Runner!Gates, Runner!Lapse(n)
  PROVE  GatesInv'
  <1> USE DEF GatesInv, Runner!Lapse, Runner!viewVars, Runner!runnerVars, Runner!histVars
  <1>1. GateShape'
    BY DEF GateShape
  <1>2. PostShape'
    BY DEF PostShape
  <1>3. PollShape'
    BY DEF PollShape
  <1>4. Over'
    BY DEF Over
  <1>5. LastPoll'
    BY DEF LastPoll
  <1>6. Row'
    BY DEF Row
  <1>7. Decisions'
    BY DEF Decisions
  <1>8. Runner!MarkMeansAnswered'
    BY DEF Runner!MarkMeansAnswered
  <1>9. Runner!NoDeadButtons'
    BY DEF Runner!NoDeadButtons
  <1> QED
    BY <1>1, <1>2, <1>3, <1>4, <1>5, <1>6, <1>7, <1>8, <1>9

\* Phone, daemon and runner agree on the gate: what is answered was seen, what is marked was answered,
\* what waits can be answered, and the view ends with the elevation and no sooner.
THEOREM GatesThm == AllSpec => []GatesSound
  <1>0. Assumptions
    BY Assumptions
  <1>1. AllInit => GatesInv
    BY <1>0, InitGates DEF AllInit
  <1>2. GatesInv /\ [AllNext]_allVars => GatesInv'
    <2> SUFFICES ASSUME GatesInv, [AllNext]_allVars PROVE GatesInv'
      OBVIOUS
    <2>1. CASE UNCHANGED gateVars
      BY <2>1
         DEF gateVars, GatesInv, GateShape, PostShape, PollShape, Over, LastPoll, Row, Decisions,
             Runner!MarkMeansAnswered, Runner!NoDeadButtons
    <2>2. CASE Runner!Next
      BY <1>0, <2>2, RunnerSteps, PollSteps, TapStep, ArriveStep, ExecStep, ReplySteps, EndSteps, RestartStep,
         LapseStep DEF Runner!Next, Runner!Proceeds
    <2> QED
      BY <2>1, <2>2 DEF AllNext, In, allVars
  <1>3. GatesInv => GatesSound
    BY <1>0, GatesInvSound DEF GatesSound
  <1> QED
    BY <1>1, <1>2, <1>3, PTL DEF AllSpec

-----------------------------------------------------------------------------
(***************************************************************************)
(* The requests of a Codex session.                                        *)
(***************************************************************************)

\* What the proofs need of the types.
Typist == [pc : {"rest", "snapped", "typed"}, req : Requests \cup {None}, base : Nat, key : {"Enter", "Tab"}]
Outcome == [ok : BOOLEAN, base : Nat]
Mail == [text : {<<r>> : r \in Requests}, queued : BOOLEAN]
Event == [role : {"user", "reply"}, text : Seq(Requests), turn : Nat]
Filed == [req : Requests \ Slashes, base : Nat, user : Nat]

HandlerShape ==
    /\ phase \in [Requests -> {"new", "waits", "told", "accepted", "refused", "gone"}]
    /\ result \in [Requests -> Outcome] /\ \A r \in Requests : result[r].base <= Len(rollout)
    /\ queue \in Seq(Requests) /\ Len(queue) <= TypeCap
    /\ typist \in Typist /\ typist.base <= Len(rollout)

CliShape ==
    /\ composer \in {<<>>} \cup {<<r>> : r \in Requests}
    /\ inbox \in Seq(Mail)
    /\ turn \in Nat /\ busy \in BOOLEAN /\ (busy => turn >= 1)
    /\ rollout \in Seq(Event)
    /\ \A i \in 1..Len(rollout) :
        /\ rollout[i].turn \in 1..turn
        /\ rollout[i].role = "user" => rollout[i].text \in {<<r>> : r \in Requests}
        /\ rollout[i].role = "reply" => rollout[i].text = <<>>

\* A request that waits for the worker, or that the worker is at.
Waits(r) == (\E i \in 1..Len(queue) : queue[i] = r) \/ (typist.pc # "rest" /\ typist.req = r)

\* A request that was submitted to Codex.
Submitted(r) ==
    \/ \E i \in 1..Len(inbox) : inbox[i].text = <<r>>
    \/ \E i \in 1..Len(rollout) : rollout[i].text = <<r>>

\* A request is in one place of the queue, or with the worker, or was submitted in one message.
InOnePlace ==
    /\ \A i, j \in 1..Len(queue) : queue[i] = queue[j] => i = j
    /\ typist.pc # "rest" => typist.req \in Requests /\ \A i \in 1..Len(queue) : queue[i] # typist.req
    /\ typist.pc = "typed" => composer = <<typist.req>>
    /\ \A i, j \in 1..Len(inbox) : inbox[i].text = inbox[j].text => i = j
    /\ \A i, j \in 1..Len(rollout) : rollout[i].text = rollout[j].text => i = j \/ rollout[i].text = <<>>
    /\ \A i \in 1..Len(inbox), j \in 1..Len(rollout) : inbox[i].text # rollout[j].text

\* ... and which of them its handler says.
Stages ==
    \A r \in Requests :
        /\ Waits(r) => phase[r] \in {"waits", "gone"} /\ ~Submitted(r)
        /\ phase[r] = "new" => ~Submitted(r)
        /\ phase[r] = "accepted" \/ (phase[r] = "told" /\ result[r].ok) => Submitted(r)

\* A request on file is bound to a message with its text, and no two to the same.
BoundWell(p) ==
    p.user > 0 =>
        /\ p.user \in 1..Len(rollout) /\ p.user > p.base
        /\ rollout[p.user].role = "user" /\ Codex!SameTypedText(rollout[p.user].text[1], p.req)

Filing ==
    /\ pending \in Seq(Filed)
    /\ \A i \in 1..Len(pending) : phase[pending[i].req] = "accepted" /\ BoundWell(pending[i])
    /\ \A i, j \in 1..Len(pending) : i # j /\ pending[i].user > 0 => pending[i].user # pending[j].user

\* The turns a request's message went into.
Turns(r) == {rollout[i].turn : i \in {j \in 1..Len(rollout) : rollout[j].role = "user" /\ rollout[j].text = <<r>>}}

Replying ==
    /\ twins \subseteq Requests
    /\ replied \in [Requests -> SUBSET (1..turn)]
    /\ \A r \in Requests \ twins : replied[r] \subseteq Turns(r)

CodexInv == HandlerShape /\ CliShape /\ InOnePlace /\ Stages /\ Filing /\ Replying

\* What a restart may take off the list is something that was filed.
Losing == reboots \in 0..MaxReboots /\ dropped \in SUBSET (Requests \ Slashes)

\* Nothing was asked.
LEMMA InitCodex == ASSUME Assumptions, Codex!Init PROVE CodexInv
  <1>0. TypeCap \in Nat
    BY DEF Assumptions, Codex!RequestsAssumption
  <1>1. /\ phase = [r \in Requests |-> "new"] /\ result = [r \in Requests |-> Codex!NoResult]
        /\ queue = <<>> /\ typist = Codex!Resting /\ composer = <<>> /\ inbox = <<>> /\ turn = 0 /\ busy = FALSE
        /\ rollout = <<>> /\ pending = <<>> /\ replied = [r \in Requests |-> {}] /\ twins \subseteq Requests
    BY DEF Codex!Init
  <1>2. Codex!NoResult \in Outcome /\ Codex!NoResult.base = 0
    BY DEF Codex!NoResult, Outcome
  <1>3. Codex!Resting \in Typist /\ Codex!Resting.pc = "rest" /\ Codex!Resting.base = 0
    BY DEF Codex!Resting, Typist
  <1>4. HandlerShape
    BY <1>0, <1>1, <1>2, <1>3 DEF HandlerShape
  <1>5. CliShape
    <2>1. inbox \in Seq(Mail) /\ rollout \in Seq(Event) /\ Len(rollout) = 0
      BY <1>1
    <2>2. turn \in Nat /\ busy \in BOOLEAN /\ ~busy
      BY <1>1
    <2> QED
      BY <1>1, <2>1, <2>2 DEF CliShape
  <1>6. InOnePlace /\ Stages
    BY <1>1, <1>3 DEF InOnePlace, Stages, Waits, Submitted
  <1>7. Filing /\ Replying
    BY <1>1 DEF Filing, Replying, Turns
  <1> QED
    BY <1>4, <1>5, <1>6, <1>7 DEF CodexInv

\* The invariant says what CodexRequests promises.
LEMMA CodexInvSound == ASSUME CodexInv, Losing PROVE Codex!RequestsApart
  <1>0. HandlerShape /\ CliShape /\ InOnePlace /\ Stages /\ Filing /\ Replying
    BY DEF CodexInv
  <1>1. Len(rollout) \in Nat /\ Len(inbox) \in Nat /\ Len(pending) \in Nat /\ turn \in Nat
    BY <1>0 DEF CliShape, Filing
  <1>2. DOMAIN rollout = 1..Len(rollout) /\ DOMAIN inbox = 1..Len(inbox) /\ DOMAIN pending = 1..Len(pending)
    BY <1>0 DEF CliShape, Filing
  <1>3. Codex!TypeOK
    <2>1. result \in [Requests -> [ok : BOOLEAN, base : 0..Len(rollout)]]
      BY <1>0, <1>1 DEF HandlerShape, Outcome
    <2>2. typist \in [pc : {"rest", "snapped", "typed"}, req : Requests \cup {None},
                      base : 0..Len(rollout), key : {"Enter", "Tab"}]
      BY <1>0, <1>1 DEF HandlerShape, Typist
    <2>3. composer \in Seq(Requests)
      <3>1. composer = <<>> \/ \E r \in Requests : composer = <<r>>
        BY <1>0 DEF CliShape
      <3>2. ASSUME NEW r \in Requests, composer = <<r>> PROVE composer \in Seq(Requests)
        BY <3>2
      <3>3. <<>> \in Seq(Requests)
        OBVIOUS
      <3> QED
        BY <3>1, <3>2, <3>3
    <2>4. \A i \in DOMAIN rollout : rollout[i].role \in {"user", "reply"} /\ rollout[i].turn \in 1..turn
      <3> SUFFICES ASSUME NEW i \in 1..Len(rollout)
                   PROVE  rollout[i].role \in {"user", "reply"} /\ rollout[i].turn \in 1..turn
        BY <1>2
      <3>1. rollout[i] \in Event
        BY <1>0 DEF CliShape
      <3>2. rollout[i].turn \in 1..turn
        BY <1>0 DEF CliShape
      <3> QED
        BY <3>1, <3>2 DEF Event
    <2>5. \A i \in DOMAIN pending :
            /\ pending[i].req \in Requests \ Slashes /\ phase[pending[i].req] = "accepted"
            /\ pending[i].user \in 0..Len(rollout) /\ (pending[i].user > 0 => pending[i].user > pending[i].base)
      <3> SUFFICES ASSUME NEW i \in 1..Len(pending)
                   PROVE  /\ pending[i].req \in Requests \ Slashes /\ phase[pending[i].req] = "accepted"
                          /\ pending[i].user \in 0..Len(rollout)
                          /\ pending[i].user > 0 => pending[i].user > pending[i].base
        BY <1>2
      <3>1. pending[i] \in Filed
        BY <1>0 DEF Filing
      <3> QED
        BY <1>0, <1>1, <3>1 DEF Filing, Filed, BoundWell
    <2> QED
      BY <1>0, <2>1, <2>2, <2>3, <2>4, <2>5 DEF HandlerShape, Replying, Losing, Codex!TypeOK
  <1>4. Codex!BoundApart
    BY <1>0, <1>2 DEF Filing, Codex!BoundApart
  <1>5. Codex!ReplyIsOwn
    BY <1>0, <1>2 DEF Replying, Turns, Codex!ReplyIsOwn, Codex!TurnsOf
  <1>6. Codex!AcceptedOnceAlone
    <2>1. \A i \in 1..Len(inbox) : Len(inbox[i].text) = 1
      <3> SUFFICES ASSUME NEW i \in 1..Len(inbox) PROVE Len(inbox[i].text) = 1
        OBVIOUS
      <3>1. inbox[i] \in Mail
        BY <1>0 DEF CliShape
      <3> QED
        BY <3>1 DEF Mail
    <2>2. \A i \in 1..Len(rollout) : rollout[i].role = "user" => Len(rollout[i].text) = 1
      BY <1>0 DEF CliShape
    <2>3. ASSUME NEW r \in Requests, phase[r] = "accepted"
          PROVE  LET At == ({"inbox"} \X {i \in 1..Len(inbox) : inbox[i].text = <<r>>})
                           \cup ({"rollout"} \X {i \in 1..Len(rollout) : rollout[i].text = <<r>>})
                 IN  \E place \in At : At = {place}
      <3> DEFINE A == {i \in 1..Len(inbox) : inbox[i].text = <<r>>}
                 B == {i \in 1..Len(rollout) : rollout[i].text = <<r>>}
      <3>1. Submitted(r)
        BY <1>0, <2>3 DEF Stages
      <3>2. \A i, j \in A : i = j
        BY <1>0 DEF InOnePlace
      <3>3. \A i, j \in B : i = j
        <4>1. <<r>> # <<>>
          OBVIOUS
        <4>2. \A i \in B : i \in 1..Len(rollout) /\ rollout[i].text # <<>>
          BY <4>1
        <4> QED
          BY <1>0, <4>2 DEF InOnePlace
      <3>4. A = {} \/ B = {}
        BY <1>0 DEF InOnePlace
      <3>5. A # {} \/ B # {}
        BY <3>1 DEF Submitted
      <3> HIDE DEF A, B
      <3>6. CASE A # {}
        <4>1. PICK i \in A : A = {i}
          BY <3>2, <3>6
        <4>2. ({"inbox"} \X A) \cup ({"rollout"} \X B) = {<<"inbox", i>>}
          BY <3>4, <4>1
        <4> QED
          BY <4>2 DEF A, B
      <3>7. CASE B # {}
        <4>1. PICK i \in B : B = {i}
          BY <3>3, <3>7
        <4>2. ({"inbox"} \X A) \cup ({"rollout"} \X B) = {<<"rollout", i>>}
          BY <3>4, <4>1
        <4> QED
          BY <4>2 DEF A, B
      <3> QED
        BY <3>5, <3>6, <3>7
    <2> QED
      BY <1>2, <2>1, <2>2, <2>3 DEF Codex!AcceptedOnceAlone
  <1> QED
    BY <1>3, <1>4, <1>5, <1>6 DEF Codex!RequestsApart

\* What is on file stays so while the rollout grows and nobody takes an acceptance back.
LEMMA FilingStays ==
  ASSUME Filing, UNCHANGED <<pending, twins>>, Len(rollout) \in Nat, Len(rollout)' \in Nat,
         Len(rollout) <= Len(rollout)', \A i \in 1..Len(rollout) : rollout'[i] = rollout[i],
         \A r \in Requests : phase[r] = "accepted" => phase'[r] = "accepted"
  PROVE  Filing'
  <1>1. pending \in Seq(Filed)
    BY DEF Filing
  <1>2. ASSUME NEW p, BoundWell(p) PROVE BoundWell(p)'
    <2>1. CASE p.user > 0
      <3>1. /\ p.user \in 1..Len(rollout) /\ p.user > p.base
            /\ rollout[p.user].role = "user" /\ Codex!SameTypedText(rollout[p.user].text[1], p.req)
        BY <1>2, <2>1 DEF BoundWell
      <3>2. p.user \in 1..Len(rollout)' /\ rollout'[p.user] = rollout[p.user]
        BY <3>1
      <3> QED
        BY <3>1, <3>2 DEF BoundWell, Codex!SameTypedText
    <2>2. CASE ~(p.user > 0)
      BY <2>2 DEF BoundWell
    <2> QED
      BY <2>1, <2>2
  <1>4. ASSUME NEW i \in 1..Len(pending) PROVE phase'[pending[i].req] = "accepted" /\ BoundWell(pending[i])'
    <2>1. pending[i] \in Filed
      BY <1>1
    <2>2. pending[i].req \in Requests
      BY <2>1 DEF Filed
    <2>3. phase[pending[i].req] = "accepted" /\ BoundWell(pending[i])
      BY DEF Filing
    <2>4. PICK p : p = pending[i]
      OBVIOUS
    <2>5. BoundWell(p)' /\ p = pending'[i]
      BY <1>2, <2>3, <2>4
    <2> QED
      BY <2>2, <2>3, <2>4, <2>5
  <1>3. \A i, j \in 1..Len(pending) : i # j /\ pending[i].user > 0 => pending[i].user # pending[j].user
    BY DEF Filing
  <1> QED
    BY <1>1, <1>3, <1>4 DEF Filing

\* So do the replies.
LEMMA ReplyingStays ==
  ASSUME Replying, UNCHANGED <<replied, twins>>, turn \in Nat, turn' \in Nat, turn <= turn',
         Len(rollout) \in Nat, Len(rollout)' \in Nat,
         Len(rollout) <= Len(rollout)', \A i \in 1..Len(rollout) : rollout'[i] = rollout[i]
  PROVE  Replying'
  <1>1. 1..turn \subseteq 1..turn' /\ 1..Len(rollout) \subseteq 1..Len(rollout)'
    OBVIOUS
  <1>2. \A r : Turns(r) \subseteq Turns(r)'
    BY <1>1 DEF Turns
  <1>3. replied' \in [Requests -> SUBSET (1..turn')]
    BY <1>1 DEF Replying
  <1>4. \A r \in Requests \ twins : replied[r] \subseteq Turns(r)
    BY DEF Replying
  <1> QED
    BY <1>2, <1>3, <1>4 DEF Replying

\* What Codex shows stays as it is.
LEMMA CliStays ==
  ASSUME CliShape, UNCHANGED <<composer, inbox, turn, busy, rollout>>
  PROVE  CliShape'
  BY DEF CliShape

\* A step of the handlers or the worker that leaves the rollout, the file and the replies alone.
LEMMA HandlerStep ==
  ASSUME CodexInv, UNCHANGED <<turn, rollout, pending, twins, replied>>,
         HandlerShape', CliShape', InOnePlace', Stages',
         \A r \in Requests : phase[r] = "accepted" => phase'[r] = "accepted"
  PROVE  CodexInv'
  <1>1. Len(rollout) \in Nat /\ turn \in Nat
    BY DEF CodexInv, CliShape
  <1>2. Filing'
    BY <1>1, FilingStays DEF CodexInv
  <1>3. Replying'
    BY <1>1, ReplyingStays DEF CodexInv
  <1> QED
    BY <1>2, <1>3 DEF CodexInv

\* A message arrives.
LEMMA AskStep == ASSUME CodexInv, NEW r \in Requests, Codex!Ask(r) PROVE CodexInv'
  <1>0. HandlerShape /\ CliShape /\ InOnePlace /\ Stages
    BY DEF CodexInv
  <1>1. /\ phase[r] = "new" /\ UNCHANGED <<twins, result, typist, composer, inbox, turn, busy, aborts, rollout, pending, replied>>
        /\ \/ Len(queue) < TypeCap /\ queue' = Append(queue, r) /\ phase' = [phase EXCEPT ![r] = "waits"]
           \/ phase' = [phase EXCEPT ![r] = "refused"] /\ UNCHANGED queue
    BY DEF Codex!Ask, Codex!codexVars, Codex!restVars
  <1>2. CliShape'
    BY <1>0, <1>1, CliStays
  <1>3. \A q \in Requests : phase[q] = "accepted" => phase'[q] = "accepted"
    BY <1>0, <1>1 DEF HandlerShape
  <1>4. ~Waits(r) /\ ~Submitted(r)
    BY <1>0, <1>1 DEF Stages
  <1>5. \A q : Submitted(q)' <=> Submitted(q)
    BY <1>1 DEF Submitted
  <1>6. CASE Len(queue) < TypeCap /\ queue' = Append(queue, r) /\ phase' = [phase EXCEPT ![r] = "waits"]
    <2>1. queue \in Seq(Requests) /\ Len(queue) \in Nat
      BY <1>0 DEF HandlerShape
    <2>2. /\ queue' \in Seq(Requests) /\ Len(queue') = Len(queue) + 1 /\ queue'[Len(queue) + 1] = r
          /\ \A i \in 1..Len(queue) : queue'[i] = queue[i]
      BY <1>6, <2>1
    <2>3. Len(queue') <= TypeCap
      BY Assumptions, <1>6, <2>1, <2>2 DEF Assumptions, Codex!RequestsAssumption
    <2>4. HandlerShape'
      BY <1>0, <1>1, <1>6, <2>2, <2>3 DEF HandlerShape
    <2>5. \A q \in Requests : Waits(q)' => Waits(q) \/ q = r
      BY <1>1, <2>1, <2>2 DEF Waits
    <2>6. Stages'
      BY <1>0, <1>1, <1>4, <1>5, <1>6, <2>5 DEF Stages, HandlerShape
    <2>7. \A i \in 1..Len(queue) : queue[i] # r
      BY <1>4 DEF Waits
    <2>8. typist.pc # "rest" => typist.req # r
      BY <1>4 DEF Waits
    <2>9. \A i, j \in 1..Len(queue') : queue'[i] = queue'[j] => i = j
      <3>1. \A i \in 1..Len(queue') : i \in 1..Len(queue) \/ i = Len(queue) + 1
        BY <2>1, <2>2
      <3> QED
        BY <1>0, <2>2, <2>7, <3>1 DEF InOnePlace
    <2>10. typist.pc # "rest" => \A i \in 1..Len(queue') : queue'[i] # typist.req
      <3>1. \A i \in 1..Len(queue') : i \in 1..Len(queue) \/ i = Len(queue) + 1
        BY <2>1, <2>2
      <3> QED
        BY <1>0, <2>2, <2>8, <3>1 DEF InOnePlace
    <2>11. InOnePlace'
      BY <1>0, <1>1, <2>9, <2>10 DEF InOnePlace
    <2> QED
      BY <1>1, <1>2, <1>3, <2>4, <2>6, <2>11, HandlerStep
  <1>7. CASE phase' = [phase EXCEPT ![r] = "refused"] /\ UNCHANGED queue
    <2>1. HandlerShape'
      BY <1>0, <1>1, <1>7 DEF HandlerShape
    <2>2. InOnePlace'
      BY <1>0, <1>1, <1>7 DEF InOnePlace
    <2>3. \A q : Waits(q)' <=> Waits(q)
      BY <1>1, <1>7 DEF Waits
    <2>4. Stages'
      BY <1>0, <1>1, <1>4, <1>5, <1>7, <2>3 DEF Stages, HandlerShape
    <2> QED
      BY <1>1, <1>2, <1>3, <2>1, <2>2, <2>4, HandlerStep
  <1> QED
    BY <1>1, <1>6, <1>7

\* The phone hangs up.
LEMMA HangUpStep == ASSUME CodexInv, NEW r \in Requests, Codex!HangUp(r) PROVE CodexInv'
  <1>0. HandlerShape /\ CliShape /\ InOnePlace /\ Stages
    BY DEF CodexInv
  <1>1. /\ phase[r] \in {"waits", "told"} /\ phase' = [phase EXCEPT ![r] = "gone"]
        /\ result' = [result EXCEPT ![r] = Codex!NoResult]
        /\ UNCHANGED <<twins, queue, typist, composer, inbox, turn, busy, aborts, rollout, pending, replied>>
    BY DEF Codex!HangUp, Codex!codexVars, Codex!restVars
  <1>2. Codex!NoResult \in Outcome /\ Codex!NoResult.base = 0 /\ ~Codex!NoResult.ok
    BY DEF Codex!NoResult, Outcome
  <1>3. CliShape'
    BY <1>0, <1>1, CliStays
  <1>4. \A q \in Requests : phase[q] = "accepted" => phase'[q] = "accepted"
    BY <1>0, <1>1 DEF HandlerShape
  <1>5. \A q : (Submitted(q)' <=> Submitted(q)) /\ (Waits(q)' <=> Waits(q))
    BY <1>1 DEF Submitted, Waits
  <1>6. HandlerShape'
    <2>1. Len(rollout) \in Nat
      BY <1>0 DEF CliShape
    <2> QED
      BY <1>0, <1>1, <1>2, <2>1 DEF HandlerShape
  <1>7. InOnePlace'
    BY <1>0, <1>1 DEF InOnePlace
  <1>8. Stages'
    BY <1>0, <1>1, <1>2, <1>5 DEF Stages, HandlerShape
  <1> QED
    BY <1>1, <1>3, <1>4, <1>6, <1>7, <1>8, HandlerStep

\* The handler answers and files the request.
LEMMA AnswerStep == ASSUME CodexInv, NEW r \in Requests, Codex!Answer(r) PROVE CodexInv'
  <1>0. HandlerShape /\ CliShape /\ InOnePlace /\ Stages /\ Filing /\ Replying
    BY DEF CodexInv
  <1>1. /\ phase[r] = "told" /\ phase' = [phase EXCEPT ![r] = IF result[r].ok THEN "accepted" ELSE "refused"]
        /\ result' = [result EXCEPT ![r] = Codex!NoResult]
        /\ UNCHANGED <<twins, queue, typist, composer, inbox, turn, busy, aborts, rollout, replied>>
    BY DEF Codex!Answer, Codex!codexVars, Codex!restVars
  <1>2. Codex!NoResult \in Outcome /\ Codex!NoResult.base = 0 /\ ~Codex!NoResult.ok
    BY DEF Codex!NoResult, Outcome
  <1>3. CliShape'
    BY <1>0, <1>1, CliStays
  <1>4. \A q \in Requests : phase[q] = "accepted" => phase'[q] = "accepted"
    BY <1>0, <1>1 DEF HandlerShape
  <1>5. \A q : (Submitted(q)' <=> Submitted(q)) /\ (Waits(q)' <=> Waits(q))
    BY <1>1 DEF Submitted, Waits
  <1>n. Len(rollout) \in Nat /\ turn \in Nat
    BY <1>0 DEF CliShape
  <1>6. HandlerShape'
    BY <1>0, <1>1, <1>2, <1>n DEF HandlerShape
  <1>7. InOnePlace'
    BY <1>0, <1>1 DEF InOnePlace
  <1>8. Stages'
    BY <1>0, <1>1, <1>2, <1>5 DEF Stages, HandlerShape
  <1>9. Replying'
    BY <1>0, <1>1, <1>n, ReplyingStays
  <1>10. CASE result[r].ok /\ r \notin Slashes
    <2> DEFINE p == [req |-> r, base |-> result[r].base, user |-> 0]
    <2>1. pending' = Append(pending, p)
      BY <1>10 DEF Codex!Answer
    <2>2. p \in Filed /\ p.user = 0 /\ p.req = r
      BY <1>0, <1>10 DEF Filed, HandlerShape, Outcome
    <2>3. pending \in Seq(Filed) /\ Len(pending) \in Nat
      BY <1>0 DEF Filing
    <2> HIDE DEF p
    <2>4. /\ pending' \in Seq(Filed) /\ Len(pending') = Len(pending) + 1 /\ pending'[Len(pending) + 1] = p
          /\ \A i \in 1..Len(pending) : pending'[i] = pending[i]
      BY <2>1, <2>2, <2>3
    <2>5. \A i \in 1..Len(pending') : i \in 1..Len(pending) \/ i = Len(pending) + 1
      BY <2>3, <2>4
    <2>6. ASSUME NEW i \in 1..Len(pending')
          PROVE  phase'[pending'[i].req] = "accepted" /\ BoundWell(pending'[i])
      <3>1. CASE i \in 1..Len(pending)
        <4>1. pending'[i] = pending[i]
          BY <2>4, <3>1
        <4>2. pending[i] \in Filed
          BY <2>3, <3>1
        <4>3. phase[pending[i].req] = "accepted" /\ BoundWell(pending[i])
          BY <1>0, <3>1 DEF Filing
        <4>4. phase'[pending[i].req] = "accepted"
          BY <1>4, <4>2, <4>3 DEF Filed
        <4> QED
          BY <4>1, <4>3, <4>4
      <3>2. CASE i = Len(pending) + 1
        <4>1. pending'[i] = p
          BY <2>4, <3>2
        <4>2. phase'[r] = "accepted"
          BY <1>0, <1>1, <1>10 DEF HandlerShape
        <4> QED
          BY <2>2, <4>1, <4>2 DEF BoundWell
      <3> QED
        BY <2>5, <3>1, <3>2
    <2>7. ASSUME NEW i \in 1..Len(pending'), NEW j \in 1..Len(pending'), i # j, pending'[i].user > 0
          PROVE  pending'[i].user # pending'[j].user
      <3>1. i \in 1..Len(pending) /\ pending'[i] = pending[i]
        BY <2>2, <2>4, <2>5, <2>7
      <3>2. CASE j \in 1..Len(pending)
        BY <1>0, <2>4, <2>7, <3>1, <3>2 DEF Filing
      <3>3. CASE j = Len(pending) + 1
        BY <2>2, <2>4, <2>7, <3>3
      <3> QED
        BY <2>5, <3>2, <3>3
    <2>8. Filing'
      <3>1. \A q : BoundWell(q) => BoundWell(q)'
        BY <1>1 DEF BoundWell, Codex!SameTypedText
      <3>2. \A i \in 1..Len(pending') : phase'[pending'[i].req] = "accepted" /\ BoundWell(pending[i])'
        <4> SUFFICES ASSUME NEW i \in 1..Len(pending')
                     PROVE  phase'[pending'[i].req] = "accepted" /\ BoundWell(pending[i])'
          OBVIOUS
        <4>1. PICK q : q = pending'[i]
          OBVIOUS
        <4>2. BoundWell(q) /\ phase'[pending'[i].req] = "accepted"
          BY <2>6, <4>1
        <4>3. BoundWell(q)'
          BY <3>1, <4>2
        <4> QED
          BY <4>1, <4>2, <4>3
      <3> QED
        BY <2>4, <2>7, <3>2 DEF Filing
    <2> QED
      BY <1>3, <1>6, <1>7, <1>8, <1>9, <2>8 DEF CodexInv
  <1>11. CASE ~(result[r].ok /\ r \notin Slashes)
    <2>1. pending' = pending
      BY <1>11 DEF Codex!Answer
    <2>2. Filing'
      BY <1>0, <1>1, <1>4, <1>n, <2>1, FilingStays
    <2> QED
      BY <1>3, <1>6, <1>7, <1>8, <1>9, <2>2 DEF CodexInv
  <1> QED
    BY <1>10, <1>11

\* What the worker's outcome changes: its own request is told, unless its handler is gone.
LEMMA TellsOne ==
  ASSUME CodexInv, NEW ok \in BOOLEAN, typist.pc # "rest", Codex!Tells(ok), UNCHANGED <<queue, rollout>>
  PROVE  /\ HandlerShape' /\ typist'.pc = "rest"
         /\ \A r \in Requests : phase[r] = "accepted" => phase'[r] = "accepted"
         /\ \A r \in Requests : r # typist.req => phase'[r] = phase[r] /\ result'[r] = result[r]
         /\ phase'[typist.req] \in {"gone", "told"}
         /\ phase'[typist.req] = "told" => result'[typist.req].ok = ok
  <1>0. HandlerShape /\ CliShape /\ InOnePlace /\ Stages
    BY DEF CodexInv
  <1>n. Len(rollout) \in Nat
    BY <1>0 DEF CliShape
  <1>1. typist.req \in Requests /\ Waits(typist.req)
    BY <1>0 DEF InOnePlace, Waits
  <1>2. phase[typist.req] \in {"waits", "gone"}
    BY <1>0, <1>1 DEF Stages
  <1>3. PICK o : o = [ok |-> ok, base |-> IF ok THEN typist.base ELSE 0]
    OBVIOUS
  <1>4. typist.base \in Nat /\ typist.base <= Len(rollout)
    BY <1>0 DEF HandlerShape, Typist
  <1>5. o \in Outcome /\ o.base <= Len(rollout) /\ o.ok = ok
    BY <1>3, <1>4, <1>n DEF Outcome
  <1>6. /\ typist' = Codex!Resting
        /\ \/ phase[typist.req] = "gone" /\ UNCHANGED <<phase, result>>
           \/ /\ phase' = [phase EXCEPT ![typist.req] = "told"]
              /\ result' = [result EXCEPT ![typist.req] = o]
    BY <1>3 DEF Codex!Tells, Codex!Cancelled, Codex!Current
  <1>7. typist' \in Typist /\ typist'.pc = "rest" /\ typist'.base = 0
    BY <1>6 DEF Codex!Resting, Typist
  <1>8. HandlerShape'
    BY <1>0, <1>1, <1>5, <1>6, <1>7, <1>n DEF HandlerShape
  <1> QED
    BY <1>0, <1>1, <1>2, <1>5, <1>6, <1>7, <1>8 DEF HandlerShape

\* The worker takes the next request.
LEMMA SnapshotStep == ASSUME CodexInv, Codex!Snapshot PROVE CodexInv'
  <1>0. HandlerShape /\ CliShape /\ InOnePlace /\ Stages
    BY DEF CodexInv
  <1>n. Len(rollout) \in Nat /\ queue \in Seq(Requests) /\ Len(queue) \in Nat
    BY <1>0 DEF CliShape, HandlerShape
  <1>1. /\ typist.pc = "rest" /\ queue # <<>> /\ queue' = Tail(queue)
        /\ typist' = [Codex!Resting EXCEPT !.pc = "snapped", !.req = Head(queue), !.base = Len(rollout)]
        /\ UNCHANGED <<twins, phase, result, composer, inbox, turn, busy, aborts, rollout, pending, replied>>
    BY DEF Codex!Snapshot, Codex!codexVars, Codex!restVars
  <1>2. /\ queue' \in Seq(Requests) /\ Len(queue') = Len(queue) - 1 /\ Len(queue) >= 1
        /\ \A i \in 1..Len(queue') : queue'[i] = queue[i + 1]
    BY <1>1, <1>n
  <1>f. \A i \in 1..Len(queue') : i + 1 \in 1..Len(queue)
    BY <1>2, <1>n
  <1>3. queue[1] \in Requests /\ Head(queue) = queue[1]
    BY <1>2, <1>n
  <1>4. /\ typist' \in Typist /\ typist'.pc = "snapped" /\ typist'.req = queue[1] /\ typist'.base = Len(rollout)
    BY <1>1, <1>3, <1>n DEF Codex!Resting, Typist
  <1>5. HandlerShape'
    <2>1. Len(queue') <= TypeCap
      BY <1>0, <1>2, <1>n, Assumptions DEF HandlerShape, Assumptions, Codex!RequestsAssumption
    <2> QED
      BY <1>0, <1>1, <1>2, <1>4, <1>n, <2>1 DEF HandlerShape
  <1>6. CliShape'
    BY <1>0, <1>1, CliStays
  <1>7. \A q : (Submitted(q)' <=> Submitted(q)) /\ (Waits(q)' => Waits(q))
    <2>1. \A q : Submitted(q)' <=> Submitted(q)
      BY <1>1 DEF Submitted
    <2>3. ASSUME NEW q, Waits(q)' PROVE Waits(q)
      <3>1. (\E i \in 1..Len(queue') : queue'[i] = q) \/ queue[1] = q
        BY <1>4, <2>3 DEF Waits
      <3>2. \E i \in 1..Len(queue) : queue[i] = q
        BY <1>2, <1>f, <1>n, <3>1
      <3> QED
        BY <3>2 DEF Waits
    <2> QED
      BY <2>1, <2>3
  <1>8. Stages'
    BY <1>0, <1>1, <1>7 DEF Stages
  <1>9. InOnePlace'
    <2>1. \A i, j \in 1..Len(queue) : queue[i] = queue[j] => i = j
      BY <1>0 DEF InOnePlace
    <2>2. \A i, j \in 1..Len(queue') : queue'[i] = queue'[j] => i = j
      <3> SUFFICES ASSUME NEW i \in 1..Len(queue'), NEW j \in 1..Len(queue'), queue'[i] = queue'[j] PROVE i = j
        OBVIOUS
      <3>1. i + 1 \in 1..Len(queue) /\ j + 1 \in 1..Len(queue) /\ queue[i + 1] = queue[j + 1]
        <4>1. queue'[i] = queue[i + 1] /\ queue'[j] = queue[j + 1]
          BY <1>2
        <4>2. i + 1 \in 1..Len(queue) /\ j + 1 \in 1..Len(queue)
          BY <1>f
        <4> QED
          BY <4>1, <4>2
      <3>2. i + 1 = j + 1
        BY <2>1, <3>1
      <3> QED
        BY <1>2, <1>n, <3>2
    <2>3. \A i \in 1..Len(queue') : queue'[i] # queue[1]
      <3> SUFFICES ASSUME NEW i \in 1..Len(queue'), queue'[i] = queue[1] PROVE FALSE
        OBVIOUS
      <3>1. i + 1 \in 1..Len(queue) /\ 1 \in 1..Len(queue) /\ queue[i + 1] = queue[1]
        <4>1. queue'[i] = queue[i + 1]
          BY <1>2
        <4>2. i + 1 \in 1..Len(queue) /\ 1 \in 1..Len(queue)
          BY <1>2, <1>n, <1>f
        <4> QED
          BY <4>1, <4>2
      <3>2. i + 1 = 1
        BY <2>1, <3>1
      <3> QED
        BY <1>2, <1>n, <3>2
    <2> QED
      BY <1>0, <1>1, <1>3, <1>4, <2>2, <2>3 DEF InOnePlace
  <1> QED
    BY <1>1, <1>5, <1>6, <1>8, <1>9, HandlerStep

\* The worker types, or fails to.
LEMMA TypeStep ==
  ASSUME CodexInv, NEW fails \in BOOLEAN, NEW keysOut \in BOOLEAN, Codex!Type(fails, keysOut) PROVE CodexInv'
  <1>0. HandlerShape /\ CliShape /\ InOnePlace /\ Stages
    BY DEF CodexInv
  <1>1. /\ typist.pc = "snapped" /\ (composer # <<>> => fails /\ ~keysOut)
        /\ composer' = IF ~fails \/ keysOut THEN Append(composer, typist.req) ELSE composer
        /\ UNCHANGED <<twins, queue, inbox, turn, busy, aborts, rollout, pending, replied>>
    BY DEF Codex!Type, Codex!Draft, Codex!Current, Codex!restVars
  <1>2. typist.req \in Requests
    BY <1>0, <1>1 DEF InOnePlace
  <1>3. composer' = composer \/ composer' = <<typist.req>>
    <2>1. CASE composer = <<>>
      BY <1>1, <2>1
    <2>2. CASE composer # <<>>
      BY <1>1, <2>2
    <2> QED
      BY <2>1, <2>2
  <1>4. CliShape'
    BY <1>0, <1>1, <1>2, <1>3 DEF CliShape
  <1>5. \A q : Submitted(q)' <=> Submitted(q)
    BY <1>1 DEF Submitted
  <1>6. CASE fails
    <2>1. Codex!Tells(FALSE)
      BY <1>6 DEF Codex!Type
    <2>2. /\ HandlerShape' /\ typist'.pc = "rest"
          /\ \A r \in Requests : phase[r] = "accepted" => phase'[r] = "accepted"
          /\ \A r \in Requests : r # typist.req => phase'[r] = phase[r] /\ result'[r] = result[r]
          /\ phase'[typist.req] \in {"gone", "told"}
          /\ phase'[typist.req] = "told" => result'[typist.req].ok = FALSE
      BY <1>1, <2>1, TellsOne
    <2>3. \A q \in Requests : Waits(q)' => Waits(q) /\ q # typist.req
      BY <1>0, <1>1, <2>2 DEF Waits, InOnePlace
    <2>4. InOnePlace'
      BY <1>0, <1>1, <2>2 DEF InOnePlace
    <2>5. Stages'
      <3> SUFFICES ASSUME NEW r \in Requests
                   PROVE  /\ Waits(r)' => phase'[r] \in {"waits", "gone"} /\ ~Submitted(r)'
                          /\ phase'[r] = "new" => ~Submitted(r)'
                          /\ phase'[r] = "accepted" \/ (phase'[r] = "told" /\ result'[r].ok) => Submitted(r)'
        BY DEF Stages
      <3>1. CASE r = typist.req
        BY <2>2, <2>3, <3>1
      <3>2. CASE r # typist.req
        BY <1>0, <1>5, <2>2, <2>3, <3>2 DEF Stages
      <3> QED
        BY <3>1, <3>2
    <2> QED
      BY <1>1, <1>4, <2>2, <2>4, <2>5, HandlerStep
  <1>7. CASE ~fails
    <2>1. PICK k \in {"Enter", "Tab"} : typist' = [typist EXCEPT !.pc = "typed", !.key = k]
      BY <1>7 DEF Codex!Type
    <2>2. /\ typist' \in Typist /\ typist'.pc = "typed" /\ typist'.req = typist.req /\ typist'.base = typist.base
          /\ UNCHANGED <<phase, result>> /\ composer' = <<typist.req>>
      <3>1. typist \in Typist /\ composer = <<>> /\ UNCHANGED <<phase, result>>
        BY <1>0, <1>1, <1>7 DEF HandlerShape, Codex!Type
      <3>2. composer' = <<typist.req>>
        BY <1>1, <1>7, <3>1
      <3> QED
        BY <2>1, <3>1, <3>2 DEF Typist
    <2>3. HandlerShape'
      BY <1>0, <1>1, <2>2 DEF HandlerShape
    <2>4. InOnePlace'
      BY <1>0, <1>1, <2>2 DEF InOnePlace
    <2>5. \A q : Waits(q)' => Waits(q)
      BY <1>1, <2>2 DEF Waits
    <2>6. Stages'
      BY <1>0, <1>5, <2>2, <2>5 DEF Stages
    <2> QED
      BY <1>1, <1>4, <2>2, <2>3, <2>4, <2>6, HandlerStep
  <1> QED
    BY <1>6, <1>7

\* The worker submits what it typed, or fails to.
LEMMA KeyStep ==
  ASSUME CodexInv, NEW fails \in BOOLEAN, NEW keysOut \in BOOLEAN, Codex!Key(fails, keysOut) PROVE CodexInv'
  <1>0. HandlerShape /\ CliShape /\ InOnePlace /\ Stages
    BY DEF CodexInv
  <1>1. /\ typist.pc = "typed" /\ Codex!Tells(~fails)
        /\ \/ /\ composer' = <<>>
              /\ inbox' = Append(inbox, [text |-> composer, queued |-> typist.key = "Tab"])
           \/ fails /\ UNCHANGED <<composer, inbox>>
        /\ UNCHANGED <<twins, queue, turn, busy, aborts, rollout, pending, replied>>
    BY DEF Codex!Key, Codex!KeyOutcome, Codex!restVars
  <1>2. typist.req \in Requests /\ composer = <<typist.req>> /\ Waits(typist.req)
    BY <1>0, <1>1 DEF InOnePlace, Waits
  <1>3. /\ HandlerShape' /\ typist'.pc = "rest"
        /\ \A r \in Requests : phase[r] = "accepted" => phase'[r] = "accepted"
        /\ \A r \in Requests : r # typist.req => phase'[r] = phase[r] /\ result'[r] = result[r]
        /\ phase'[typist.req] \in {"gone", "told"}
        /\ phase'[typist.req] = "told" => result'[typist.req].ok = ~fails
    BY <1>1, TellsOne
  <1>4. \A q \in Requests : Waits(q)' => Waits(q) /\ q # typist.req
    BY <1>0, <1>1, <1>3 DEF Waits, InOnePlace
  <1>5. ~Submitted(typist.req)
    BY <1>0, <1>2 DEF Stages
  <1>n. inbox \in Seq(Mail) /\ Len(inbox) \in Nat /\ Len(rollout) \in Nat
    BY <1>0 DEF CliShape
  <1>6. CASE composer' = <<>> /\ inbox' = Append(inbox, [text |-> composer, queued |-> typist.key = "Tab"])
    <2>1. PICK m : m = [text |-> composer, queued |-> typist.key = "Tab"]
      OBVIOUS
    <2>2. m \in Mail /\ m.text = <<typist.req>>
      BY <1>2, <2>1 DEF Mail
    <2>3. /\ inbox' \in Seq(Mail) /\ Len(inbox') = Len(inbox) + 1 /\ inbox'[Len(inbox) + 1] = m
          /\ \A i \in 1..Len(inbox) : inbox'[i] = inbox[i]
      BY <1>6, <1>n, <2>1, <2>2
    <2>4. \A i \in 1..Len(inbox') : i \in 1..Len(inbox) \/ i = Len(inbox) + 1
      BY <1>n, <2>3
    <2>5. CliShape'
      BY <1>0, <1>1, <1>6, <2>3 DEF CliShape
    <2>6. \A i \in 1..Len(inbox) : inbox[i].text # <<typist.req>>
      BY <1>5 DEF Submitted
    <2>7. \A i \in 1..Len(rollout) : rollout[i].text # <<typist.req>>
      BY <1>5 DEF Submitted
    <2>8. InOnePlace'
      <3>1. \A i, j \in 1..Len(inbox') : inbox'[i].text = inbox'[j].text => i = j
        BY <1>0, <2>2, <2>3, <2>4, <2>6 DEF InOnePlace
      <3>2. \A i \in 1..Len(inbox'), j \in 1..Len(rollout) : inbox'[i].text # rollout[j].text
        BY <1>0, <2>2, <2>3, <2>4, <2>7 DEF InOnePlace
      <3> QED
        BY <1>0, <1>1, <1>3, <3>1, <3>2 DEF InOnePlace
    <2>9. \A q \in Requests : Submitted(q)' <=> Submitted(q) \/ q = typist.req
      <3>1. 1..Len(inbox) \subseteq 1..Len(inbox') /\ Len(inbox) + 1 \in 1..Len(inbox')
        BY <1>n, <2>3
      <3>2. \A q \in Requests : (\E i \in 1..Len(inbox') : inbox'[i].text = <<q>>)
                <=> (\E i \in 1..Len(inbox) : inbox[i].text = <<q>>) \/ q = typist.req
        <4> SUFFICES ASSUME NEW q \in Requests
                     PROVE  (\E i \in 1..Len(inbox') : inbox'[i].text = <<q>>)
                               <=> (\E i \in 1..Len(inbox) : inbox[i].text = <<q>>) \/ q = typist.req
          OBVIOUS
        <4>1. <<q>> = <<typist.req>> <=> q = typist.req
          BY <1>2
        <4> QED
          BY <2>2, <2>3, <2>4, <3>1, <4>1
      <3> QED
        BY <1>1, <3>2 DEF Submitted
    <2>10. Stages'
      <3> SUFFICES ASSUME NEW r \in Requests
                   PROVE  /\ Waits(r)' => phase'[r] \in {"waits", "gone"} /\ ~Submitted(r)'
                          /\ phase'[r] = "new" => ~Submitted(r)'
                          /\ phase'[r] = "accepted" \/ (phase'[r] = "told" /\ result'[r].ok) => Submitted(r)'
        BY DEF Stages
      <3>1. CASE r = typist.req
        BY <1>3, <1>4, <2>9, <3>1
      <3>2. CASE r # typist.req
        BY <1>0, <1>3, <1>4, <2>9, <3>2 DEF Stages
      <3> QED
        BY <3>1, <3>2
    <2> QED
      BY <1>1, <1>3, <2>5, <2>8, <2>10, HandlerStep
  <1>7. CASE fails /\ UNCHANGED <<composer, inbox>>
    <2>1. CliShape'
      BY <1>0, <1>1, <1>7, CliStays
    <2>2. InOnePlace'
      BY <1>0, <1>1, <1>3, <1>7 DEF InOnePlace
    <2>3. \A q : Submitted(q)' <=> Submitted(q)
      BY <1>1, <1>7 DEF Submitted
    <2>4. Stages'
      <3> SUFFICES ASSUME NEW r \in Requests
                   PROVE  /\ Waits(r)' => phase'[r] \in {"waits", "gone"} /\ ~Submitted(r)'
                          /\ phase'[r] = "new" => ~Submitted(r)'
                          /\ phase'[r] = "accepted" \/ (phase'[r] = "told" /\ result'[r].ok) => Submitted(r)'
        BY DEF Stages
      <3>1. CASE r = typist.req
        BY <1>3, <1>4, <1>7, <3>1
      <3>2. CASE r # typist.req
        BY <1>0, <1>3, <1>4, <2>3, <3>2 DEF Stages
      <3> QED
        BY <3>1, <3>2
    <2> QED
      BY <1>1, <1>3, <2>1, <2>2, <2>4, HandlerStep
  <1> QED
    BY <1>1, <1>6, <1>7

\* The operator clears a draft.
LEMMA ClearStep == ASSUME CodexInv, Codex!ClearDraft PROVE CodexInv'
  <1>0. HandlerShape /\ CliShape /\ InOnePlace /\ Stages
    BY DEF CodexInv
  <1>1. /\ typist.pc = "rest" /\ composer' = <<>>
        /\ UNCHANGED <<twins, phase, result, queue, typist, inbox, turn, busy, aborts, rollout, pending, replied>>
    BY DEF Codex!ClearDraft, Codex!restVars
  <1>2. HandlerShape' /\ CliShape' /\ InOnePlace'
    BY <1>0, <1>1 DEF HandlerShape, CliShape, InOnePlace
  <1>3. \A q : (Submitted(q)' <=> Submitted(q)) /\ (Waits(q)' <=> Waits(q))
    BY <1>1 DEF Submitted, Waits
  <1>4. Stages'
    BY <1>0, <1>1, <1>3 DEF Stages
  <1> QED
    BY <1>1, <1>2, <1>4, HandlerStep

\* A step of Codex that leaves the handlers, the worker and the file alone, and only adds to the rollout.
LEMMA CliStep ==
  ASSUME CodexInv, UNCHANGED <<twins, phase, result, queue, typist, composer, pending, replied>>,
         CliShape', InOnePlace', \A r \in Requests : Submitted(r)' <=> Submitted(r), turn <= turn',
         Len(rollout) <= Len(rollout)', \A i \in 1..Len(rollout) : rollout'[i] = rollout[i]
  PROVE  CodexInv'
  <1>0. HandlerShape /\ CliShape /\ InOnePlace /\ Stages /\ Filing /\ Replying
    BY DEF CodexInv
  <1>1. Len(rollout) \in Nat /\ turn \in Nat /\ Len(rollout)' \in Nat /\ turn' \in Nat
    BY <1>0 DEF CliShape
  <1>2. HandlerShape'
    <2>1. \A r \in Requests : result[r].base \in Nat
      BY <1>0 DEF HandlerShape, Outcome
    <2>2. typist.base \in Nat
      BY <1>0 DEF HandlerShape, Typist
    <2> QED
      BY <1>0, <1>1, <2>1, <2>2 DEF HandlerShape
  <1>3. \A q : Waits(q)' <=> Waits(q)
    BY DEF Waits
  <1>4. Stages'
    BY <1>0, <1>3 DEF Stages
  <1>5. Filing'
    BY <1>0, <1>1, FilingStays
  <1>6. Replying'
    BY <1>0, <1>1, ReplyingStays
  <1> QED
    BY <1>2, <1>4, <1>5, <1>6 DEF CodexInv

\* A turn ends.
LEMMA EndTurnStep == ASSUME CodexInv, NEW answer \in BOOLEAN, Codex!EndTurn(answer) PROVE CodexInv'
  <1>0. CliShape /\ InOnePlace
    BY DEF CodexInv
  <1>n. Len(rollout) \in Nat /\ rollout \in Seq(Event) /\ turn \in Nat /\ busy \in BOOLEAN
    BY <1>0 DEF CliShape
  <1>1. /\ busy /\ busy' = FALSE
        /\ \/ UNCHANGED rollout
           \/ rollout' = Append(rollout, [role |-> "reply", text |-> <<>>, turn |-> turn])
        /\ UNCHANGED <<twins, phase, result, queue, typist, composer, inbox, turn, pending, replied>>
    BY DEF Codex!EndTurn, Codex!restVars
  <1>2. CASE UNCHANGED rollout
    <2>1. CliShape' /\ InOnePlace' /\ (\A r \in Requests : Submitted(r)' <=> Submitted(r))
      BY <1>0, <1>1, <1>2 DEF CliShape, InOnePlace, Submitted
    <2> QED
      BY <1>1, <1>2, <1>n, <2>1, CliStep
  <1>3. CASE rollout' = Append(rollout, [role |-> "reply", text |-> <<>>, turn |-> turn])
    <2>1. PICK e : e = [role |-> "reply", text |-> <<>>, turn |-> turn]
      OBVIOUS
    <2>2. e \in Event /\ e.role = "reply" /\ e.text = <<>> /\ e.turn \in 1..turn
      <3>1. turn >= 1
        BY <1>0, <1>1 DEF CliShape
      <3>2. <<>> \in Seq(Requests)
        OBVIOUS
      <3> QED
        BY <1>n, <2>1, <3>1, <3>2 DEF Event
    <2>3. /\ rollout' \in Seq(Event) /\ Len(rollout') = Len(rollout) + 1 /\ rollout'[Len(rollout) + 1] = e
          /\ \A i \in 1..Len(rollout) : rollout'[i] = rollout[i]
      BY <1>3, <1>n, <2>1, <2>2
    <2>4. \A i \in 1..Len(rollout') : i \in 1..Len(rollout) \/ i = Len(rollout) + 1
      BY <1>n, <2>3
    <2>5. \A r : e.text # <<r>>
      BY <2>2
    <2>6. CliShape'
      <3>1. \A i \in 1..Len(rollout') :
                /\ rollout'[i].turn \in 1..turn
                /\ rollout'[i].role = "user" => rollout'[i].text \in {<<r>> : r \in Requests}
                /\ rollout'[i].role = "reply" => rollout'[i].text = <<>>
        <4> SUFFICES ASSUME NEW i \in 1..Len(rollout')
                     PROVE  /\ rollout'[i].turn \in 1..turn
                            /\ rollout'[i].role = "user" => rollout'[i].text \in {<<r>> : r \in Requests}
                            /\ rollout'[i].role = "reply" => rollout'[i].text = <<>>
          OBVIOUS
        <4>1. CASE i \in 1..Len(rollout)
          BY <1>0, <2>3, <4>1 DEF CliShape
        <4>2. CASE i = Len(rollout) + 1
          BY <2>2, <2>3, <4>2
        <4> QED
          BY <2>4, <4>1, <4>2
      <3> QED
        BY <1>0, <1>1, <2>3, <3>1 DEF CliShape
    <2>7. \A i \in 1..Len(inbox) : inbox[i].text # <<>>
      <3> SUFFICES ASSUME NEW i \in 1..Len(inbox) PROVE inbox[i].text # <<>>
        OBVIOUS
      <3>1. inbox[i] \in Mail
        BY <1>0 DEF CliShape
      <3>2. PICK r \in Requests : inbox[i].text = <<r>>
        BY <3>1 DEF Mail
      <3> QED
        BY <3>2
    <2>8. InOnePlace'
      <3>1. \A i, j \in 1..Len(rollout') : rollout'[i].text = rollout'[j].text => i = j \/ rollout'[i].text = <<>>
        BY <1>0, <2>2, <2>3, <2>4 DEF InOnePlace
      <3>2. \A i \in 1..Len(inbox), j \in 1..Len(rollout') : inbox[i].text # rollout'[j].text
        BY <1>0, <2>2, <2>3, <2>4, <2>7 DEF InOnePlace
      <3> QED
        BY <1>0, <1>1, <3>1, <3>2 DEF InOnePlace
    <2>9. \A r \in Requests : Submitted(r)' <=> Submitted(r)
      <3> SUFFICES ASSUME NEW r \in Requests
                   PROVE  (\E i \in 1..Len(rollout') : rollout'[i].text = <<r>>)
                             <=> (\E i \in 1..Len(rollout) : rollout[i].text = <<r>>)
        BY <1>1 DEF Submitted
      <3>1. 1..Len(rollout) \subseteq 1..Len(rollout')
        BY <1>n, <2>3
      <3> QED
        BY <2>3, <2>4, <2>5, <3>1
    <2> QED
      BY <1>1, <1>n, <2>3, <2>6, <2>8, <2>9, CliStep
  <1> QED
    BY <1>1, <1>2, <1>3

\* A sequence without one of its elements.
LEMMA RemoveIs ==
  ASSUME NEW S, NEW s \in Seq(S), NEW i \in 1..Len(s)
  PROVE  LET t == Codex!RemoveAt(s, i) IN
         /\ t \in Seq(S) /\ Len(t) = Len(s) - 1
         /\ \A j \in 1..Len(t) : t[j] = s[IF j < i THEN j ELSE j + 1]
  <1> DEFINE a == SubSeq(s, 1, i - 1)
             b == SubSeq(s, i + 1, Len(s))
             t == a \o b
  <1>n. Len(s) \in Nat /\ i \in Nat /\ i >= 1 /\ i <= Len(s)
    OBVIOUS
  <1>1. /\ a \in Seq(S) /\ Len(a) = i - 1
        /\ \A j \in 1..(i - 1) : a[j] = s[j]
    BY <1>n
  <1>2. /\ b \in Seq(S) /\ Len(b) = Len(s) - i
        /\ \A j \in 1..(Len(s) - i) : b[j] = s[i + j]
    BY <1>n
  <1> HIDE DEF a, b
  <1>3. /\ t \in Seq(S) /\ Len(t) = Len(a) + Len(b)
        /\ \A j \in 1..Len(t) : t[j] = IF j <= Len(a) THEN a[j] ELSE b[j - Len(a)]
    <2>1. a \in Seq(S) /\ b \in Seq(S)
      BY <1>1, <1>2
    <2>2. t \in Seq(S) /\ Len(t) = Len(a) + Len(b)
      BY <2>1
    <2>3. \A j \in 1..(Len(a) + Len(b)) : t[j] = IF j <= Len(a) THEN a[j] ELSE b[j - Len(a)]
      BY <2>1
    <2> HIDE DEF t
    <2> QED
      BY <2>2, <2>3
  <1> HIDE DEF t
  <1>4. Len(t) = Len(s) - 1
    BY <1>1, <1>2, <1>3, <1>n
  <1>5. \A j \in 1..Len(t) : t[j] = s[IF j < i THEN j ELSE j + 1]
    <2> SUFFICES ASSUME NEW j \in 1..Len(t) PROVE t[j] = s[IF j < i THEN j ELSE j + 1]
      OBVIOUS
    <2>1. CASE j < i
      BY <1>1, <1>3, <1>n, <2>1
    <2>2. CASE ~(j < i)
      <3>1. j - (i - 1) \in 1..(Len(s) - i) /\ i + (j - (i - 1)) = j + 1
        BY <1>4, <1>n, <2>2
      <3>2. t[j] = b[j - (i - 1)]
        BY <1>1, <1>3, <1>n, <2>2
      <3> QED
        BY <1>2, <2>2, <3>1, <3>2
    <2> QED
      BY <2>1, <2>2
  <1> QED
    BY <1>3, <1>4, <1>5 DEF t, a, b, Codex!RemoveAt

\* Codex takes a message into a turn.
LEMMA TakeStep == ASSUME CodexInv, Codex!Take PROVE CodexInv'
  <1>0. CliShape /\ InOnePlace
    BY DEF CodexInv
  <1>n. /\ Len(rollout) \in Nat /\ rollout \in Seq(Event) /\ turn \in Nat /\ busy \in BOOLEAN
        /\ (busy => turn >= 1) /\ inbox \in Seq(Mail) /\ Len(inbox) \in Nat
    BY <1>0 DEF CliShape
  <1>1. PICK i \in 1..Len(inbox) :
           /\ inbox' = Codex!RemoveAt(inbox, i)
           /\ turn' = IF busy THEN turn ELSE turn + 1
           /\ rollout' = Append(rollout, [role |-> "user", text |-> inbox[i].text, turn |-> turn'])
    <2>1. DOMAIN inbox = 1..Len(inbox)
      BY <1>n
    <2> QED
      BY <2>1 DEF Codex!Take
  <1>2. busy' = TRUE /\ UNCHANGED <<twins, phase, result, queue, typist, composer, aborts, pending, replied>>
    BY DEF Codex!Take, Codex!restVars
  <1>3. turn' \in Nat /\ turn' >= 1 /\ turn <= turn'
    BY <1>1, <1>n
  <1>4. PICK e : e = [role |-> "user", text |-> inbox[i].text, turn |-> turn']
    OBVIOUS
  <1>5. PICK r \in Requests : inbox[i].text = <<r>>
    <2>1. inbox[i] \in Mail
      BY <1>n
    <2> QED
      BY <2>1 DEF Mail
  <1>6. e \in Event /\ e.role = "user" /\ e.text = <<r>> /\ e.turn \in 1..turn' /\ e.text # <<>>
    <2>1. <<r>> \in Seq(Requests) /\ <<r>> # <<>>
      OBVIOUS
    <2> QED
      BY <1>3, <1>4, <1>5, <2>1 DEF Event
  <1>7. /\ rollout' \in Seq(Event) /\ Len(rollout') = Len(rollout) + 1 /\ rollout'[Len(rollout) + 1] = e
        /\ \A k \in 1..Len(rollout) : rollout'[k] = rollout[k]
    BY <1>1, <1>4, <1>6, <1>n
  <1>8. \A k \in 1..Len(rollout') : k \in 1..Len(rollout) \/ k = Len(rollout) + 1
    BY <1>7, <1>n
  <1>9. /\ inbox' \in Seq(Mail) /\ Len(inbox') = Len(inbox) - 1
        /\ \A j \in 1..Len(inbox') : inbox'[j] = inbox[IF j < i THEN j ELSE j + 1]
    BY <1>1, <1>n, RemoveIs
  <1> DEFINE From(j) == IF j < i THEN j ELSE j + 1
  <1>10. \A j \in 1..Len(inbox') : From(j) \in 1..Len(inbox) /\ From(j) # i /\ inbox'[j] = inbox[From(j)]
    BY <1>9, <1>n
  <1>11. \A j, k \in 1..Len(inbox') : From(j) = From(k) => j = k
    BY <1>9, <1>n
  <1>12. \A k \in 1..Len(inbox) : k # i => \E j \in 1..Len(inbox') : From(j) = k
    <2> SUFFICES ASSUME NEW k \in 1..Len(inbox), k # i PROVE \E j \in 1..Len(inbox') : From(j) = k
      OBVIOUS
    <2>1. CASE k < i
      <3>1. k \in 1..Len(inbox') /\ From(k) = k
        BY <1>9, <1>n, <2>1
      <3> QED
        BY <3>1
    <2>2. CASE k > i
      <3>1. k - 1 \in 1..Len(inbox') /\ From(k - 1) = k
        BY <1>9, <1>n, <2>2
      <3> QED
        BY <3>1
    <2> QED
      BY <1>n, <2>1, <2>2
  <1> HIDE DEF From
  <1>13. CliShape'
    <2>1. \A k \in 1..Len(rollout') :
              /\ rollout'[k].turn \in 1..turn'
              /\ rollout'[k].role = "user" => rollout'[k].text \in {<<q>> : q \in Requests}
              /\ rollout'[k].role = "reply" => rollout'[k].text = <<>>
      <3> SUFFICES ASSUME NEW k \in 1..Len(rollout')
                   PROVE  /\ rollout'[k].turn \in 1..turn'
                          /\ rollout'[k].role = "user" => rollout'[k].text \in {<<q>> : q \in Requests}
                          /\ rollout'[k].role = "reply" => rollout'[k].text = <<>>
        OBVIOUS
      <3>1. CASE k \in 1..Len(rollout)
        <4>1. 1..turn \subseteq 1..turn'
          BY <1>3, <1>n
        <4> QED
          BY <1>0, <1>7, <3>1, <4>1 DEF CliShape
      <3>2. CASE k = Len(rollout) + 1
        BY <1>6, <1>7, <3>2
      <3> QED
        BY <1>8, <3>1, <3>2
    <2>2. turn' \in Nat /\ busy' \in BOOLEAN /\ (busy' => turn' >= 1)
      BY <1>2, <1>3
    <2>3. composer' \in {<<>>} \cup {<<q>> : q \in Requests}
      BY <1>0, <1>2 DEF CliShape
    <2> QED
      BY <1>7, <1>9, <2>1, <2>2, <2>3 DEF CliShape
  <1>14. InOnePlace'
    <2>1. \A j, k \in 1..Len(inbox') : inbox'[j].text = inbox'[k].text => j = k
      BY <1>0, <1>10, <1>11 DEF InOnePlace
    <2>2. \A k \in 1..Len(rollout) : rollout[k].text # e.text
      BY <1>0, <1>5, <1>6 DEF InOnePlace
    <2>3. \A j, k \in 1..Len(rollout') : rollout'[j].text = rollout'[k].text => j = k \/ rollout'[j].text = <<>>
      BY <1>0, <1>7, <1>8, <2>2 DEF InOnePlace
    <2>4. \A j \in 1..Len(inbox') : inbox'[j].text # e.text
      BY <1>0, <1>5, <1>6, <1>10 DEF InOnePlace
    <2>5. ASSUME NEW j \in 1..Len(inbox'), NEW k \in 1..Len(rollout') PROVE inbox'[j].text # rollout'[k].text
      <3>1. CASE k \in 1..Len(rollout)
        <4>1. From(j) \in 1..Len(inbox) /\ inbox'[j] = inbox[From(j)] /\ rollout'[k] = rollout[k]
          BY <1>7, <1>10, <3>1
        <4> QED
          BY <1>0, <3>1, <4>1 DEF InOnePlace
      <3>2. CASE k = Len(rollout) + 1
        BY <1>7, <2>4, <3>2
      <3> QED
        BY <1>8, <3>1, <3>2
    <2> QED
      BY <1>0, <1>2, <2>1, <2>3, <2>5 DEF InOnePlace
  <1>15. \A q \in Requests : Submitted(q)' <=> Submitted(q)
    <2> SUFFICES ASSUME NEW q \in Requests
                 PROVE  ((\E j \in 1..Len(inbox') : inbox'[j].text = <<q>>)
                            \/ (\E j \in 1..Len(rollout') : rollout'[j].text = <<q>>))
                        <=> ((\E j \in 1..Len(inbox) : inbox[j].text = <<q>>)
                            \/ (\E j \in 1..Len(rollout) : rollout[j].text = <<q>>))
      BY DEF Submitted
    <2>1. 1..Len(rollout) \subseteq 1..Len(rollout') /\ Len(rollout) + 1 \in 1..Len(rollout')
      BY <1>7, <1>n
    <2>2. ASSUME NEW j \in 1..Len(inbox'), inbox'[j].text = <<q>>
          PROVE  \E k \in 1..Len(inbox) : inbox[k].text = <<q>>
      BY <1>10, <2>2
    <2>3. ASSUME NEW j \in 1..Len(rollout'), rollout'[j].text = <<q>>
          PROVE  (\E k \in 1..Len(inbox) : inbox[k].text = <<q>>)
                    \/ (\E k \in 1..Len(rollout) : rollout[k].text = <<q>>)
      BY <1>5, <1>6, <1>7, <1>8, <2>3
    <2>4. ASSUME NEW k \in 1..Len(inbox), inbox[k].text = <<q>>
          PROVE  (\E j \in 1..Len(inbox') : inbox'[j].text = <<q>>)
                    \/ (\E j \in 1..Len(rollout') : rollout'[j].text = <<q>>)
      <3>1. CASE k = i
        BY <1>5, <1>6, <1>7, <2>1, <2>4, <3>1
      <3>2. CASE k # i
        <4>1. PICK j \in 1..Len(inbox') : From(j) = k
          BY <1>12, <3>2
        <4>2. inbox'[j] = inbox[k]
          BY <1>10, <4>1
        <4> QED
          BY <2>4, <4>2
      <3> QED
        BY <3>1, <3>2
    <2>5. ASSUME NEW k \in 1..Len(rollout), rollout[k].text = <<q>>
          PROVE  \E j \in 1..Len(rollout') : rollout'[j].text = <<q>>
      BY <1>7, <2>1, <2>5
    <2> QED
      BY <2>2, <2>3, <2>4, <2>5
  <1>16. Len(rollout) <= Len(rollout)'
    BY <1>7, <1>n
  <1> QED
    BY <1>2, <1>3, <1>7, <1>13, <1>14, <1>15, <1>16, CliStep

\* A set of natural numbers has a least one.
LEMMA MinIs ==
  ASSUME NEW T, T \subseteq Nat, T # {}
  PROVE  Codex!Min(T) \in T /\ \A n \in T : Codex!Min(T) <= n
  <1> DEFINE R == {e \in Nat \X Nat : e[1] < e[2]}
  <1>1. IsWellFoundedOn(R, Nat)
    BY NatLessThanWellFounded DEF OpToRel
  <1>2. PICK n \in T : \A k \in T : ~ (<<k, n>> \in R)
    <2> HIDE DEF R
    <2> QED
      BY <1>1, WFMin
  <1>3. \A k \in T : ~ (k < n)
    BY <1>2
  <1>4. \A k \in T : n <= k
    <2> HIDE DEF R
    <2> QED
      BY <1>3
  <1> QED
    BY <1>4 DEF Codex!Min

\* A set with 0 and the successor of each of its numbers has them all.
LEMMA Induction ==
  ASSUME NEW T, 0 \in T, \A n \in Nat : n \in T => n + 1 \in T
  PROVE  \A n \in Nat : n \in T
  <1> DEFINE out == {n \in Nat : n \notin T}
  <1> SUFFICES ASSUME out # {} PROVE FALSE
    OBVIOUS
  <1>1. PICK n \in out : \A k \in out : n <= k
    BY MinIs
  <1>2. n # 0 /\ n - 1 \in Nat /\ n = (n - 1) + 1
    BY <1>1
  <1>3. n - 1 \in T
    BY <1>1, <1>2
  <1> QED
    BY <1>1, <1>2, <1>3

\* The requests on file, the first m of them bound anew: each well bound, and apart from all others.
Bindings(list, m) ==
    /\ list \in Seq(Filed) /\ Len(list) = m
    /\ \A k \in 1..m : list[k].req = pending[k].req /\ BoundWell(list[k])
    /\ \A i, j \in 1..m : i # j /\ list[i].user > 0 => list[i].user # list[j].user
    /\ \A i \in 1..m, j \in (m + 1)..Len(pending) : list[i].user > 0 => list[i].user # pending[j].user

\* One request more.
LEMMA BindingsMore ==
  ASSUME Filing, NEW list, NEW m \in Nat, m < Len(pending), Bindings(list, m), NEW q \in Filed,
         q.req = pending[m + 1].req, BoundWell(q),
         \/ q = pending[m + 1]
         \/ /\ \A k \in 1..m : list[k].user # q.user
            /\ \A k \in 1..Len(pending) : pending[k].user # q.user
  PROVE  Bindings(Append(list, q), m + 1)
  <1>1. list \in Seq(Filed) /\ Len(list) = m /\ pending \in Seq(Filed) /\ Len(pending) \in Nat
    BY DEF Bindings, Filing
  <1> DEFINE new == Append(list, q)
  <1>2. /\ new \in Seq(Filed) /\ Len(new) = m + 1 /\ new[m + 1] = q
        /\ \A k \in 1..m : new[k] = list[k]
    BY <1>1
  <1> HIDE DEF new
  <1>3. \A k \in 1..(m + 1) : k \in 1..m \/ k = m + 1
    OBVIOUS
  <1>4. \A k \in 1..m : k \in Nat /\ k # m + 1
    OBVIOUS
  <1>5. m + 1 \in 1..Len(pending) /\ (m + 2)..Len(pending) \subseteq 1..Len(pending)
    BY <1>1
  <1>6. \A k \in 1..(m + 1) : new[k].req = pending[k].req /\ BoundWell(new[k])
    BY <1>2, <1>3 DEF Bindings
  <1>7. \A k \in 1..m : list[k].user > 0 => list[k].user # q.user
    <2> SUFFICES ASSUME NEW k \in 1..m, list[k].user > 0 PROVE list[k].user # q.user
      OBVIOUS
    <2>1. m + 1 \in (m + 1)..Len(pending)
      BY <1>1
    <2> QED
      BY <2>1 DEF Bindings
  <1>8. \A k \in 1..m : q.user > 0 => q.user # list[k].user
    <2> SUFFICES ASSUME NEW k \in 1..m, q.user > 0, q.user = list[k].user PROVE FALSE
      OBVIOUS
    <2> QED
      BY <1>7
  <1>9. \A i, j \in 1..(m + 1) : i # j /\ new[i].user > 0 => new[i].user # new[j].user
    <2> SUFFICES ASSUME NEW i \in 1..(m + 1), NEW j \in 1..(m + 1), i # j, new[i].user > 0
                 PROVE  new[i].user # new[j].user
      OBVIOUS
    <2>1. CASE i \in 1..m /\ j \in 1..m
      BY <1>2, <2>1 DEF Bindings
    <2>2. CASE i \in 1..m /\ j = m + 1
      BY <1>2, <1>7, <2>2
    <2>3. CASE i = m + 1 /\ j \in 1..m
      BY <1>2, <1>8, <2>3
    <2> QED
      BY <1>3, <2>1, <2>2, <2>3
  <1>10. \A i \in 1..(m + 1), j \in (m + 2)..Len(pending) : new[i].user > 0 => new[i].user # pending[j].user
    <2> SUFFICES ASSUME NEW i \in 1..(m + 1), NEW j \in (m + 2)..Len(pending), new[i].user > 0
                 PROVE  new[i].user # pending[j].user
      OBVIOUS
    <2>1. j \in (m + 1)..Len(pending) /\ j \in 1..Len(pending) /\ j # m + 1
      BY <1>1
    <2>2. CASE i \in 1..m
      BY <1>2, <2>1, <2>2 DEF Bindings
    <2>3. CASE i = m + 1
      <3>1. CASE q = pending[m + 1]
        BY <1>2, <1>5, <2>1, <2>3, <3>1 DEF Filing
      <3>2. CASE q # pending[m + 1]
        BY <1>2, <2>1, <2>3, <3>2
      <3> QED
        BY <3>1, <3>2
    <2> QED
      BY <1>3, <2>2, <2>3
  <1>11. (m + 1) + 1 = m + 2
    OBVIOUS
  <1> QED
    BY <1>2, <1>6, <1>9, <1>10, <1>11 DEF Bindings, new

\* The first pass binds well, and apart.
LEMMA BoundIs ==
  ASSUME CliShape, Filing, NEW snap \in 0..Len(rollout)
  PROVE  Bindings(Codex!Bound(snap), Len(pending))
  <1> DEFINE Free(list, p) ==
                {i \in 1..snap : Codex!Matches(p, i, {q.user : q \in Codex!Range(list) \cup Codex!Range(pending)})}
             Bind(list, p) == Append(list, IF p.user > 0 \/ Free(list, p) = {} THEN p
                                           ELSE [p EXCEPT !.user = Codex!Min(Free(list, p))])
             L == Len(pending)
             Body(f, n) == IF n = 0 THEN <<>> ELSE Bind(f[n - 1], pending[n])
             up == CHOOSE f : f = [n \in 0..L |-> Body(f, n)]
             T == {m \in Nat : \E f : f = [n \in 0..m |-> Body(f, n)]}
             U == {m \in Nat : m <= L => Bindings(up[m], m)}
  <1>n. L \in Nat /\ pending \in Seq(Filed) /\ Len(rollout) \in Nat
    BY DEF Filing, CliShape
  <1>1. Codex!Bound(snap) = up[L]
    BY DEF Codex!Bound
  <1>r. ASSUME NEW list, Bindings(list, Len(list)), NEW p \in Filed, NEW i \in Free(list, p), p \in Codex!Range(pending)
        PROVE  /\ i \in 1..snap /\ i > p.base /\ rollout[i].role = "user"
               /\ Codex!SameTypedText(rollout[i].text[1], p.req)
               /\ \A k \in 1..Len(list) : list[k].user # i
               /\ \A k \in 1..L : pending[k].user # i
    <2>1. list \in Seq(Filed)
      BY <1>r DEF Bindings
    <2>2. \A k \in 1..Len(list) : list[k] \in Codex!Range(list)
      BY <2>1 DEF Codex!Range
    <2>3. \A k \in 1..L : pending[k] \in Codex!Range(pending)
      BY <1>n DEF Codex!Range
    <2> QED
      BY <2>2, <2>3 DEF Codex!Matches
  <1> HIDE DEF Free
  <1>s. ASSUME NEW list, Bindings(list, Len(list)), NEW n \in 1..L, n = Len(list) + 1
        PROVE  Bindings(Bind(list, pending[n]), n)
    <2>1. Len(list) \in Nat /\ Len(list) < Len(pending) /\ list \in Seq(Filed)
      BY <1>n, <1>s DEF Bindings
    <2>2. PICK p \in Filed : p = pending[n]
      BY <1>n
    <2>3. BoundWell(p) /\ p \in Codex!Range(pending)
      BY <1>n, <2>2 DEF Filing, Codex!Range
    <2>4. CASE p.user > 0 \/ Free(list, p) = {}
      <3>1. Bind(list, pending[n]) = Append(list, p)
        BY <2>2, <2>4
      <3>2. Bindings(Append(list, p), n)
        BY <1>s, <2>1, <2>2, <2>3, BindingsMore
      <3> QED
        BY <3>1, <3>2
    <2>5. CASE ~(p.user > 0) /\ Free(list, p) # {}
      <3>1. Free(list, p) \subseteq Nat
        BY <1>n, <1>r, <1>s, <2>3
      <3>2. PICK i : i = Codex!Min(Free(list, p))
        OBVIOUS
      <3>3. i \in Free(list, p)
        BY <2>5, <3>1, <3>2, MinIs
      <3>4. /\ i \in 1..snap /\ i > p.base /\ rollout[i].role = "user"
            /\ Codex!SameTypedText(rollout[i].text[1], p.req)
            /\ \A k \in 1..Len(list) : list[k].user # i
            /\ \A k \in 1..L : pending[k].user # i
        BY <1>r, <1>s, <2>3, <3>3
      <3>5. PICK q : q = [p EXCEPT !.user = i]
        OBVIOUS
      <3>6. q \in Filed /\ q.user = i /\ q.req = p.req /\ q.base = p.base
        <4>1. i \in Nat
          BY <1>n, <3>4
        <4>2. p \in [req : Requests \ Slashes, base : Nat, user : Nat]
          BY DEF Filed
        <4>3. q \in [req : Requests \ Slashes, base : Nat, user : Nat]
          BY <3>5, <4>1, <4>2
        <4>4. q.user = i /\ q.req = p.req /\ q.base = p.base
          BY <3>5, <4>2
        <4> QED
          BY <4>3, <4>4 DEF Filed
      <3>7. BoundWell(q)
        BY <1>n, <3>4, <3>6 DEF BoundWell
      <3>8. Bind(list, pending[n]) = Append(list, q)
        BY <2>2, <2>5, <3>2, <3>5
      <3>9. Bindings(Append(list, q), n)
        BY <1>s, <2>1, <2>2, <3>4, <3>6, <3>7, BindingsMore
      <3> QED
        BY <3>8, <3>9
    <2> QED
      BY <2>4, <2>5
  <1> HIDE DEF Bind
  <1>2. \A f, g, n : (n # 0 => f[n - 1] = g[n - 1]) => Body(f, n) = Body(g, n)
    OBVIOUS
  <1>3. \A f : Body(f, 0) = <<>>
    OBVIOUS
  <1>4. ASSUME NEW f, NEW n, n # 0 PROVE Body(f, n) = Bind(f[n - 1], pending[n])
    BY <1>4
  <1> HIDE DEF Body
  <1>6. \A m \in Nat : m \in T
    <2>1. 0 \in T
      <3> DEFINE f == [n \in 0..0 |-> <<>>]
      <3>1. \A n \in 0..0 : <<>> = Body(f, n)
        BY <1>3
      <3>2. f = [n \in 0..0 |-> Body(f, n)]
        BY <3>1
      <3> QED
        BY <3>2
    <2>2. ASSUME NEW m \in Nat, m \in T PROVE m + 1 \in T
      <3>1. PICK f : f = [n \in 0..m |-> Body(f, n)]
        BY <2>2
      <3> DEFINE g == [n \in 0..(m + 1) |-> IF n = m + 1 THEN Body(f, m + 1) ELSE f[n]]
      <3>2. \A n \in 0..m : g[n] = f[n]
        OBVIOUS
      <3>3. \A n \in 0..m : f[n] = Body(f, n)
        BY <3>1
      <3>4. g[m + 1] = Body(f, m + 1)
        OBVIOUS
      <3> HIDE DEF g
      <3>5. \A n \in 0..(m + 1) : g[n] = Body(g, n)
        <4> SUFFICES ASSUME NEW n \in 0..(m + 1) PROVE g[n] = Body(g, n)
          OBVIOUS
        <4>1. n # 0 => n - 1 \in 0..m
          OBVIOUS
        <4>2. Body(f, n) = Body(g, n)
          BY <1>2, <3>2, <4>1
        <4>3. n = m + 1 \/ n \in 0..m
          OBVIOUS
        <4> QED
          BY <3>2, <3>3, <3>4, <4>2, <4>3
      <3>6. g = [n \in 0..(m + 1) |-> g[n]]
        BY DEF g
      <3>7. g = [n \in 0..(m + 1) |-> Body(g, n)]
        BY <3>5, <3>6
      <3> QED
        BY <3>7
    <2> HIDE DEF T
    <2> QED
      BY <2>1, <2>2, Induction
  <1>7. \A n \in 0..L : up[n] = Body(up, n)
    <2>1. L \in T
      BY <1>6
    <2>2. \E f : f = [n \in 0..L |-> Body(f, n)]
      BY <2>1
    <2>3. up = [n \in 0..L |-> Body(up, n)]
      BY <2>2
    <2> HIDE DEF up
    <2> QED
      BY <2>3
  <1> HIDE DEF up
  <1>8. \A m \in Nat : m \in U
    <2>1. 0 \in U
      <3>1. up[0] = <<>>
        BY <1>3, <1>7, <1>n
      <3>2. Bindings(<<>>, 0)
        BY DEF Bindings
      <3>3. 0 <= L => Bindings(up[0], 0)
        BY <3>1, <3>2
      <3> QED
        BY <3>3
    <2>2. ASSUME NEW m \in Nat, m \in U PROVE m + 1 \in U
      <3> SUFFICES ASSUME m + 1 <= L PROVE Bindings(up[m + 1], m + 1)
        OBVIOUS
      <3>1. Bindings(up[m], m)
        BY <1>n, <2>2
      <3>2. up[m + 1] = Body(up, m + 1) /\ m + 1 # 0 /\ m + 1 - 1 = m /\ m + 1 \in 1..L
        BY <1>7, <1>n
      <3>3. up[m + 1] = Bind(up[m], pending[m + 1])
        BY <1>4, <3>2
      <3>4. Len(up[m]) = m
        BY <3>1 DEF Bindings
      <3> QED
        BY <1>s, <3>1, <3>2, <3>3, <3>4
    <2> HIDE DEF U
    <2> QED
      BY <2>1, <2>2, Induction
  <1>9. L \in U
    BY <1>8, <1>n
  <1> QED
    BY <1>1, <1>9, <1>n

\* A list without some of its places: what is left is in its order, two of them from two places.
LeftOver(w, list, m) ==
    /\ \A i \in 1..Len(w) : \E a \in 1..m : w[i] = list[a]
    /\ \A i, j \in 1..Len(w) : i # j => \E a, b \in 1..m : a # b /\ w[i] = list[a] /\ w[j] = list[b]

\* The second pass keeps the order, and takes no place twice.
LEMMA WithoutIs ==
  ASSUME NEW S, NEW list \in Seq(S), NEW gone
  PROVE  Codex!Without(list, gone) \in Seq(S) /\ LeftOver(Codex!Without(list, gone), list, Len(list))
  <1> DEFINE L == Len(list)
             Body(f, n) == IF n = 0 THEN <<>> ELSE IF n \in gone THEN f[n - 1] ELSE Append(f[n - 1], list[n])
             up == CHOOSE f : f = [n \in 0..L |-> Body(f, n)]
             T == {m \in Nat : \E f : f = [n \in 0..m |-> Body(f, n)]}
             U == {m \in Nat : m <= L => up[m] \in Seq(S) /\ LeftOver(up[m], list, m)}
  <1>n. L \in Nat
    OBVIOUS
  <1>1. Codex!Without(list, gone) = up[L]
    BY DEF Codex!Without
  <1>s. ASSUME NEW w \in Seq(S), NEW m \in Nat, m + 1 <= L, LeftOver(w, list, m)
        PROVE  LeftOver(w, list, m + 1) /\ LeftOver(Append(w, list[m + 1]), list, m + 1)
               /\ Append(w, list[m + 1]) \in Seq(S)
    <2>1. 1..m \subseteq 1..(m + 1) /\ m + 1 \in 1..(m + 1) /\ m + 1 \notin 1..m /\ list[m + 1] \in S
      BY <1>n, <1>s
    <2>2. LeftOver(w, list, m + 1)
      BY <1>s, <2>1 DEF LeftOver
    <2> DEFINE new == Append(w, list[m + 1])
    <2>3. /\ new \in Seq(S) /\ Len(new) = Len(w) + 1 /\ new[Len(w) + 1] = list[m + 1]
          /\ \A k \in 1..Len(w) : new[k] = w[k]
      BY <2>1
    <2> HIDE DEF new
    <2>4. \A k \in 1..Len(new) : k \in 1..Len(w) \/ k = Len(w) + 1
      BY <2>3
    <2>5. ASSUME NEW i \in 1..Len(new) PROVE \E a \in 1..(m + 1) : new[i] = list[a]
      <3>1. CASE i \in 1..Len(w)
        BY <2>2, <2>3, <3>1 DEF LeftOver
      <3>2. CASE i = Len(w) + 1
        BY <2>1, <2>3, <3>2
      <3> QED
        BY <2>4, <3>1, <3>2
    <2>6. ASSUME NEW i \in 1..Len(new), NEW j \in 1..Len(new), i # j
          PROVE  \E a, b \in 1..(m + 1) : a # b /\ new[i] = list[a] /\ new[j] = list[b]
      <3>1. CASE i \in 1..Len(w) /\ j \in 1..Len(w)
        <4>1. PICK a \in 1..(m + 1), b \in 1..(m + 1) : a # b /\ w[i] = list[a] /\ w[j] = list[b]
          BY <2>2, <2>6, <3>1, Zenon DEF LeftOver
        <4>2. new[i] = w[i] /\ new[j] = w[j]
          BY <2>3, <3>1
        <4> QED
          BY <4>1, <4>2, Zenon
      <3>2. CASE i \in 1..Len(w) /\ j = Len(w) + 1
        <4>1. PICK a \in 1..m : w[i] = list[a]
          BY <1>s, <3>2 DEF LeftOver
        <4> QED
          BY <2>1, <2>3, <3>2, <4>1
      <3>3. CASE i = Len(w) + 1 /\ j \in 1..Len(w)
        <4>1. PICK a \in 1..m : w[j] = list[a]
          BY <1>s, <3>3 DEF LeftOver
        <4> QED
          BY <2>1, <2>3, <3>3, <4>1
      <3> QED
        BY <2>4, <2>6, <3>1, <3>2, <3>3
    <2>7. LeftOver(new, list, m + 1)
      BY <2>5, <2>6 DEF LeftOver
    <2> QED
      BY <2>2, <2>3, <2>7 DEF new
  <1>2. \A f, g, n : (n # 0 => f[n - 1] = g[n - 1]) => Body(f, n) = Body(g, n)
    OBVIOUS
  <1>3. \A f : Body(f, 0) = <<>>
    OBVIOUS
  <1>4. ASSUME NEW f, NEW n, n # 0
        PROVE  Body(f, n) = f[n - 1] \/ Body(f, n) = Append(f[n - 1], list[n])
    BY <1>4
  <1> HIDE DEF Body
  <1>6. \A m \in Nat : m \in T
    <2>1. 0 \in T
      <3> DEFINE f == [n \in 0..0 |-> <<>>]
      <3>1. \A n \in 0..0 : <<>> = Body(f, n)
        BY <1>3
      <3>2. f = [n \in 0..0 |-> Body(f, n)]
        BY <3>1
      <3> QED
        BY <3>2
    <2>2. ASSUME NEW m \in Nat, m \in T PROVE m + 1 \in T
      <3>1. PICK f : f = [n \in 0..m |-> Body(f, n)]
        BY <2>2
      <3> DEFINE g == [n \in 0..(m + 1) |-> IF n = m + 1 THEN Body(f, m + 1) ELSE f[n]]
      <3>2. \A n \in 0..m : g[n] = f[n]
        OBVIOUS
      <3>3. \A n \in 0..m : f[n] = Body(f, n)
        BY <3>1
      <3>4. g[m + 1] = Body(f, m + 1)
        OBVIOUS
      <3> HIDE DEF g
      <3>5. \A n \in 0..(m + 1) : g[n] = Body(g, n)
        <4> SUFFICES ASSUME NEW n \in 0..(m + 1) PROVE g[n] = Body(g, n)
          OBVIOUS
        <4>1. n # 0 => n - 1 \in 0..m
          OBVIOUS
        <4>2. Body(f, n) = Body(g, n)
          BY <1>2, <3>2, <4>1
        <4>3. n = m + 1 \/ n \in 0..m
          OBVIOUS
        <4> QED
          BY <3>2, <3>3, <3>4, <4>2, <4>3
      <3>6. g = [n \in 0..(m + 1) |-> g[n]]
        BY DEF g
      <3>7. g = [n \in 0..(m + 1) |-> Body(g, n)]
        BY <3>5, <3>6
      <3> QED
        BY <3>7
    <2> HIDE DEF T
    <2> QED
      BY <2>1, <2>2, Induction
  <1>7. \A n \in 0..L : up[n] = Body(up, n)
    <2>1. L \in T
      BY <1>6
    <2>2. \E f : f = [n \in 0..L |-> Body(f, n)]
      BY <2>1
    <2>3. up = [n \in 0..L |-> Body(up, n)]
      BY <2>2
    <2> HIDE DEF up
    <2> QED
      BY <2>3
  <1> HIDE DEF up
  <1>8. \A m \in Nat : m \in U
    <2>1. 0 \in U
      <3>1. up[0] = <<>>
        BY <1>3, <1>7, <1>n
      <3>2. <<>> \in Seq(S) /\ LeftOver(<<>>, list, 0)
        BY DEF LeftOver
      <3>3. 0 <= L => up[0] \in Seq(S) /\ LeftOver(up[0], list, 0)
        BY <3>1, <3>2
      <3> QED
        BY <3>3
    <2>2. ASSUME NEW m \in Nat, m \in U PROVE m + 1 \in U
      <3> SUFFICES ASSUME m + 1 <= L PROVE up[m + 1] \in Seq(S) /\ LeftOver(up[m + 1], list, m + 1)
        OBVIOUS
      <3>1. up[m] \in Seq(S) /\ LeftOver(up[m], list, m)
        BY <1>n, <2>2
      <3>2. up[m + 1] = Body(up, m + 1) /\ m + 1 # 0 /\ m + 1 - 1 = m
        BY <1>7, <1>n
      <3>3. up[m + 1] = up[m] \/ up[m + 1] = Append(up[m], list[m + 1])
        BY <1>4, <3>2
      <3> QED
        BY <1>s, <3>1, <3>3
    <2> HIDE DEF U
    <2> QED
      BY <2>1, <2>2, Induction
  <1>9. L \in U
    BY <1>8, <1>n
  <1> QED
    BY <1>1, <1>9, <1>n

\* The sweep publishes replies that are there and drops what they answer.
LEMMA ReconcileStep == ASSUME CodexInv, NEW snap \in 0..Len(rollout), Codex!Reconcile(snap) PROVE CodexInv'
  <1>0. HandlerShape /\ CliShape /\ InOnePlace /\ Stages /\ Filing /\ Replying
    BY DEF CodexInv
  <1>n. /\ Len(rollout) \in Nat /\ pending \in Seq(Filed) /\ Len(pending) \in Nat /\ turn \in Nat
        /\ twins \subseteq Requests
    BY <1>0 DEF CliShape, Filing, Replying
  <1> DEFINE list == Codex!Bound(snap)
             drops == {n \in DOMAIN list : Codex!Replies(list[n], snap) # {}}
             Done(r) == {q \in Codex!Range(list) : q.req = r /\ Codex!Replies(q, snap) # {}}
             New(r) == {rollout[Codex!Min(Codex!Replies(p, snap))].turn : p \in Done(r)}
  <1>1. /\ pending' = Codex!Without(list, drops)
        /\ replied' = [r \in Requests |-> replied[r] \cup New(r)]
        /\ UNCHANGED <<twins, phase, result, queue, typist, composer, inbox, turn, busy, aborts, rollout>>
    BY DEF Codex!Reconcile, Codex!Keeps, Codex!codexVars
  <1>2. Bindings(list, Len(pending))
    BY <1>0, BoundIs
  <1> HIDE DEF list, drops
  <1>3. list \in Seq(Filed) /\ Len(list) = Len(pending)
    BY <1>2 DEF Bindings
  <1>4. pending' \in Seq(Filed) /\ LeftOver(pending', list, Len(pending))
    BY <1>1, <1>3, WithoutIs
  <1>5. \A a \in 1..Len(pending) : list[a] \in Filed /\ phase[list[a].req] = "accepted" /\ BoundWell(list[a])
    BY <1>0, <1>2, <1>3 DEF Bindings, Filing
  <1>6. Filing'
    <2>1. \A q : BoundWell(q) => BoundWell(q)'
      BY <1>1 DEF BoundWell, Codex!SameTypedText
    <2>2. ASSUME NEW i \in 1..Len(pending')
          PROVE  phase'[pending'[i].req] = "accepted" /\ BoundWell(pending[i])'
      <3>1. PICK a \in 1..Len(pending) : pending'[i] = list[a]
        BY <1>4 DEF LeftOver
      <3>2. PICK q : q = pending'[i]
        OBVIOUS
      <3>3. BoundWell(q) /\ phase[q.req] = "accepted"
        BY <1>5, <3>1, <3>2
      <3>4. BoundWell(q)'
        BY <2>1, <3>3
      <3> QED
        BY <1>1, <3>2, <3>3, <3>4
    <2>3. ASSUME NEW i \in 1..Len(pending'), NEW j \in 1..Len(pending'), i # j, pending'[i].user > 0
          PROVE  pending'[i].user # pending'[j].user
      <3>1. PICK a \in 1..Len(pending), b \in 1..Len(pending) :
                a # b /\ pending'[i] = list[a] /\ pending'[j] = list[b]
        BY <1>4, <2>3 DEF LeftOver
      <3> QED
        BY <1>2, <2>3, <3>1 DEF Bindings
    <2> QED
      BY <1>4, <2>2, <2>3 DEF Filing
  <1>7. ASSUME NEW r \in Requests, NEW t \in New(r) PROVE t \in 1..turn /\ (r \notin twins => t \in Turns(r))
    <2>1. PICK p \in Codex!Range(list) :
             p.req = r /\ Codex!Replies(p, snap) # {} /\ t = rollout[Codex!Min(Codex!Replies(p, snap))].turn
      BY <1>7
    <2>2. PICK a \in 1..Len(pending) : p = list[a]
      BY <1>3 DEF Codex!Range
    <2>3. p \in Filed /\ BoundWell(p)
      BY <1>5, <2>2
    <2>4. p.user # 0 /\ Codex!Replies(p, snap) = {i \in 1..snap : Codex!Answers(i, p)}
      BY <2>1 DEF Codex!Replies
    <2>5. p.user > 0
      BY <2>3, <2>4 DEF Filed
    <2>6. PICK i : i = Codex!Min(Codex!Replies(p, snap))
      OBVIOUS
    <2>7. i \in Codex!Replies(p, snap)
      <3>1. Codex!Replies(p, snap) \subseteq Nat
        BY <1>n, <2>4
      <3> QED
        BY <2>1, <2>6, <3>1, MinIs
    <2>8. i \in 1..Len(rollout) /\ rollout[i].turn = rollout[p.user].turn /\ t = rollout[i].turn
      BY <1>n, <2>1, <2>4, <2>6, <2>7 DEF Codex!Answers
    <2>9. t \in 1..turn
      BY <1>0, <2>8 DEF CliShape
    <2>10. /\ p.user \in 1..Len(rollout) /\ rollout[p.user].role = "user"
           /\ Codex!SameTypedText(rollout[p.user].text[1], r)
      BY <2>1, <2>3, <2>5 DEF BoundWell
    <2>11. PICK q \in Requests : rollout[p.user].text = <<q>>
      BY <1>0, <2>10 DEF CliShape
    <2>12. ASSUME r \notin twins PROVE t \in Turns(r)
      <3>1. rollout[p.user].text[1] = q
        BY <2>11
      <3>2. q = r
        BY <2>10, <2>12, <3>1 DEF Codex!SameTypedText
      <3> QED
        BY <2>8, <2>10, <2>11, <3>2 DEF Turns
    <2> QED
      BY <2>9, <2>12
  <1> HIDE DEF New
  <1>8. Replying'
    <2>1. \A r : Turns(r)' = Turns(r)
      BY <1>1 DEF Turns
    <2>2. \A r \in Requests : replied[r] \subseteq 1..turn
      BY <1>0 DEF Replying
    <2>3. \A r \in Requests : replied[r] \cup New(r) \in SUBSET (1..turn)
      BY <1>7, <2>2
    <2>4. replied' \in [Requests -> SUBSET (1..turn')]
      BY <1>1, <2>3
    <2>5. \A r \in Requests \ twins : replied'[r] \subseteq Turns(r)
      BY <1>0, <1>1, <1>7 DEF Replying
    <2> QED
      BY <1>1, <1>n, <2>1, <2>4, <2>5 DEF Replying
  <1>9. HandlerShape' /\ InOnePlace'
    BY <1>0, <1>1 DEF HandlerShape, InOnePlace
  <1>10. CliShape'
    BY <1>0, <1>1, CliStays
  <1>11. Stages'
    <2>1. \A q : (Submitted(q)' <=> Submitted(q)) /\ (Waits(q)' <=> Waits(q))
      BY <1>1 DEF Submitted, Waits
    <2> QED
      BY <1>0, <1>1, <2>1 DEF Stages
  <1> QED
    BY <1>6, <1>8, <1>9, <1>10, <1>11 DEF CodexInv

\* The daemon starts anew: what Codex was given stays, and nothing is on file.
LEMMA RebootStep == ASSUME CodexInv, Codex!Restart PROVE CodexInv'
  <1>0. HandlerShape /\ CliShape /\ InOnePlace /\ Stages /\ Filing /\ Replying
    BY DEF CodexInv
  <1>1. /\ phase' = [r \in Requests |-> IF phase[r] \in {"waits", "told"} THEN "gone" ELSE phase[r]]
        /\ result' = [r \in Requests |-> Codex!NoResult]
        /\ queue' = <<>> /\ typist' = Codex!Resting /\ pending' = <<>>
        /\ UNCHANGED <<twins, composer, inbox, turn, busy, aborts, rollout, replied>>
    BY DEF Codex!Restart, Codex!codexVars
  <1>2. Codex!NoResult \in Outcome /\ Codex!NoResult.base = 0 /\ ~Codex!NoResult.ok
    BY DEF Codex!NoResult, Outcome
  <1>3. Codex!Resting \in Typist /\ Codex!Resting.pc = "rest" /\ Codex!Resting.base = 0
    BY DEF Codex!Resting, Typist
  <1>4. TypeCap \in Nat /\ Len(rollout) \in Nat /\ turn \in Nat
    BY <1>0, Assumptions DEF CliShape, Assumptions, Codex!RequestsAssumption
  <1>5. queue' \in Seq(Requests) /\ Len(queue') = 0
    BY <1>1
  <1>6. HandlerShape'
    BY <1>0, <1>1, <1>2, <1>3, <1>4, <1>5 DEF HandlerShape
  <1>7. CliShape' /\ InOnePlace'
    BY <1>0, <1>1, <1>3, <1>5, CliStays DEF InOnePlace
  <1>8. Stages'
    <2>1. \A q : (Submitted(q)' <=> Submitted(q)) /\ ~Waits(q)'
      BY <1>1, <1>3, <1>5 DEF Submitted, Waits
    <2> QED
      BY <1>0, <1>1, <1>2, <2>1 DEF Stages, HandlerShape
  <1>9. Filing'
    <2>1. pending' \in Seq(Filed) /\ Len(pending') = 0
      BY <1>1
    <2> QED
      BY <2>1 DEF Filing
  <1>10. Replying'
    BY <1>0, <1>1, <1>4, ReplyingStays
  <1> QED
    BY <1>6, <1>7, <1>8, <1>9, <1>10 DEF CodexInv

\* Only a restart takes a request off the list unanswered.
LEMMA StepLosing == ASSUME CodexInv, Losing, [Codex!Next]_codexVars PROVE Losing'
  <1>1. ASSUME UNCHANGED <<reboots, dropped>> PROVE Losing'
    BY <1>1 DEF Losing
  <1>2. ASSUME Codex!Restart PROVE Losing'
    <2>1. reboots < MaxReboots /\ reboots' = reboots + 1 /\ MaxReboots \in Nat
      BY <1>2, Assumptions DEF Codex!Restart, Assumptions, Codex!RequestsAssumption
    <2>2. dropped' = dropped \cup {p.req : p \in Codex!Range(pending)}
      BY <1>2 DEF Codex!Restart
    <2>3. \A p \in Codex!Range(pending) : p.req \in Requests \ Slashes
      <3>1. pending \in Seq(Filed)
        BY DEF CodexInv, Filing
      <3>2. \A i \in 1..Len(pending) : pending[i] \in Filed
        BY <3>1
      <3>3. \A p \in Codex!Range(pending) : p \in Filed
        BY <3>1, <3>2 DEF Codex!Range
      <3> QED
        BY <3>3 DEF Filed
    <2>4. reboots' \in 0..MaxReboots
      BY <2>1 DEF Losing
    <2> QED
      BY <2>2, <2>3, <2>4 DEF Losing
  <1>3. ASSUME NEW r \in Requests, Codex!Ask(r) \/ Codex!HangUp(r) \/ Codex!Answer(r)
        PROVE  UNCHANGED <<reboots, dropped>>
    BY <1>3 DEF Codex!Ask, Codex!HangUp, Codex!Answer, Codex!restVars
  <1>4. ASSUME Codex!WorkerStep PROVE UNCHANGED <<reboots, dropped>>
    BY <1>4 DEF Codex!WorkerStep, Codex!Snapshot, Codex!Type, Codex!Key, Codex!restVars
  <1>5. ASSUME Codex!Take \/ (\E answer \in BOOLEAN : Codex!EndTurn(answer)) \/ Codex!ClearDraft
        PROVE  UNCHANGED <<reboots, dropped>>
    BY <1>5 DEF Codex!Take, Codex!EndTurn, Codex!ClearDraft, Codex!restVars
  <1>6. ASSUME NEW snap, Codex!Reconcile(snap) PROVE UNCHANGED <<reboots, dropped>>
    BY <1>6 DEF Codex!Reconcile
  <1>7. ASSUME UNCHANGED codexVars PROVE UNCHANGED <<reboots, dropped>>
    BY <1>7 DEF codexVars
  <1> QED
    BY <1>1, <1>2, <1>3, <1>4, <1>5, <1>6, <1>7 DEF Codex!Next

\* Every step of a Codex session keeps the invariant.
LEMMA StepCodex == CodexInv /\ [Codex!Next]_codexVars => CodexInv'
  <1> SUFFICES ASSUME CodexInv, [Codex!Next]_codexVars PROVE CodexInv'
    OBVIOUS
  <1>1. CASE UNCHANGED codexVars
    <2>1. UNCHANGED <<twins, phase, result, queue, typist, composer, inbox, turn, busy, aborts, rollout,
                      pending, replied>>
      BY <1>1 DEF codexVars
    <2>2. HandlerShape' /\ CliShape' /\ InOnePlace' /\ Stages'
      BY <2>1 DEF CodexInv, HandlerShape, CliShape, InOnePlace, Stages, Waits, Submitted
    <2> QED
      BY <2>1, <2>2, HandlerStep
  <1>2. CASE \E r \in Requests : Codex!Ask(r) \/ Codex!HangUp(r) \/ Codex!Answer(r)
    BY <1>2, AskStep, HangUpStep, AnswerStep
  <1>3. CASE Codex!Snapshot
    BY <1>3, SnapshotStep
  <1>4. CASE \E fails, keysOut \in BOOLEAN : Codex!Type(fails, keysOut)
    BY <1>4, TypeStep
  <1>5. CASE \E fails, keysOut \in BOOLEAN : Codex!Key(fails, keysOut)
    BY <1>5, KeyStep
  <1>6. CASE Codex!Take
    BY <1>6, TakeStep
  <1>7. CASE \E answer \in BOOLEAN : Codex!EndTurn(answer)
    BY <1>7, EndTurnStep
  <1>8. CASE Codex!ClearDraft
    BY <1>8, ClearStep
  <1>9. CASE \E snap \in 0..Len(rollout) : Codex!Reconcile(snap)
    BY <1>9, ReconcileStep
  <1>10. CASE Codex!Restart
    BY <1>10, RebootStep
  <1> QED
    BY <1>1, <1>2, <1>3, <1>4, <1>5, <1>6, <1>7, <1>8, <1>9, <1>10 DEF Codex!Next, Codex!WorkerStep

\* In a behaviour of the three exchanges that is a Codex session's, the requests stay apart from the
\* composer to the reply: what the phone was told is delivered was submitted once and alone, no two
\* requests on file are bound to one message, and the reply published for a request whose text nobody
\* else sent answers the turn its own message went into (handleCodexAsk, src/ask.go; Deliver,
\* src/harness_codex.go; reconcile, src/codex_requests.go).
THEOREM RequestsThm == AllSpec => []RequestsApart
  <1> DEFINE Inv == scene = "codex" => CodexInv /\ Losing
  <1>1. AllInit => Inv
    <2>1. Codex!Init => Losing
      BY Assumptions DEF Codex!Init, Losing, Assumptions, Codex!RequestsAssumption
    <2> QED
      BY <2>1, Assumptions, InitCodex DEF AllInit
  <1>2. Inv /\ [AllNext]_allVars => Inv'
    <2> SUFFICES ASSUME Inv, [AllNext]_allVars, scene' = "codex" PROVE CodexInv' /\ Losing'
      OBVIOUS
    <2>1. scene = "codex" /\ ([Codex!Next]_codexVars)
      BY DEF AllNext, In, allVars, codexVars
    <2> QED
      BY <2>1, StepCodex, StepLosing
  <1>3. Inv => RequestsApart
    BY CodexInvSound DEF RequestsApart
  <1> QED
    BY <1>1, <1>2, <1>3, PTL DEF AllSpec
=============================================================================
