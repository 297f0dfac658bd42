--------------------------- MODULE CodexRequests ---------------------------
(***************************************************************************)
(* A phone message to a Codex session: handleCodexAsk (src/ask.go) waits   *)
(* for the session's worker to type it (Deliver, src/harness_codex.go) and *)
(* then files the request; the sweep correlates filed requests with the    *)
(* rollout (src/codex_requests.go) and publishes their replies.            *)
(*                                                                         *)
(* The handler may be gone, and its context with it, before the worker is  *)
(* half done; two requests may carry the same text, and their handlers may *)
(* file them in another order than the worker typed them.  Codex itself    *)
(* (composer, input queue, turns, rollout) is external.  Nobody types at   *)
(* the terminal but to clear a draft between two deliveries.               *)
(*                                                                         *)
(* The daemon may die and start again at any step.  Nothing of this is     *)
(* kept on disk: handlers, queue, worker and tracker start anew, and Codex *)
(* goes on.                                                                *)
(***************************************************************************)
EXTENDS Integers, Sequences, SequencesExt, FiniteSetsExt

CONSTANTS
    Requests,
    Slashes,   \* slash commands: delivered, never filed
    QueueCap,  \* of the session's channel
    MaxAborts, \* bound: turns interrupted
    MaxRestarts, \* bound: restarts of the daemon
    None

RequestsAssumption ==
    Slashes \subseteq Requests /\ None \notin Requests
        /\ QueueCap \in Nat /\ MaxAborts \in Nat /\ MaxRestarts \in Nat

VARIABLES
    twins,    \* requests that carry one and the same text; all others differ
    phase,    \* request -> "new", "waits", "told" (outcome in the channel), "accepted", "refused", "gone"
    result,   \* request -> the outcome in its channel: delivered or not, and the baseline
    queue,    \* the worker's channel
    worker,   \* what the worker is at
    composer, \* external: the requests typed and not yet submitted
    inbox,    \* external: what was submitted and Codex has not taken yet
    turn, busy, aborts,
    rollout,  \* external: its events, [role, text (requests), turn]
    pending,  \* the tracker's list: [req, base, user (0: unbound)]
    restarts,
    replied,  \* history: request -> the turns of the replies published for it
    dropped   \* history: accepted requests that a restart took off the tracker's list

codexVars == <<composer, inbox, turn, busy, aborts, rollout>>
restVars == <<restarts, replied, dropped>>
vars == <<twins, phase, result, queue, worker, codexVars, pending, restVars>>

SameTypedText(a, b) == a = b \/ {a, b} \subseteq twins

NoResult == [ok |-> FALSE, base |-> 0]
Resting == [pc |-> "rest", req |-> None, base |-> 0, key |-> "Enter"]

TypeOK ==
    /\ twins \subseteq Requests
    /\ phase \in [Requests -> {"new", "waits", "told", "accepted", "refused", "gone"}]
    /\ result \in [Requests -> [ok : BOOLEAN, base : 0..Len(rollout)]]
    /\ queue \in Seq(Requests) /\ Len(queue) <= QueueCap
    /\ worker \in [pc : {"rest", "snapped", "typed"}, req : Requests \cup {None},
                   base : 0..Len(rollout), key : {"Enter", "Tab"}]
    /\ composer \in Seq(Requests)
    /\ \A i \in DOMAIN rollout : rollout[i].role \in {"user", "reply"} /\ rollout[i].turn \in 1..turn
    /\ \A i \in DOMAIN pending :
        /\ pending[i].req \in Requests \ Slashes /\ phase[pending[i].req] = "accepted"
        /\ pending[i].user \in 0..Len(rollout) /\ (pending[i].user > 0 => pending[i].user > pending[i].base)
    /\ restarts \in 0..MaxRestarts
    /\ replied \in [Requests -> SUBSET (1..turn)] /\ dropped \in SUBSET (Requests \ Slashes)

Init ==
    /\ twins \in {t \in SUBSET Requests : Cardinality(t) # 1}
    /\ phase = [r \in Requests |-> "new"] /\ result = [r \in Requests |-> NoResult]
    /\ queue = <<>> /\ worker = Resting
    /\ composer = <<>> /\ inbox = <<>> /\ turn = 0 /\ busy = FALSE /\ aborts = 0 /\ rollout = <<>>
    /\ pending = <<>>
    /\ restarts = 0 /\ replied = [r \in Requests |-> {}] /\ dropped = {}

-----------------------------------------------------------------------------
(* The handler.                                                            *)

\* queue.submit: a full channel is refused with 429.
Ask(r) ==
    /\ phase[r] = "new"
    /\ IF Len(queue) < QueueCap
       THEN queue' = Append(queue, r) /\ phase' = [phase EXCEPT ![r] = "waits"]
       ELSE phase' = [phase EXCEPT ![r] = "refused"] /\ UNCHANGED queue
    /\ UNCHANGED <<twins, result, worker, codexVars, pending, restVars>>

\* The phone hangs up: 408, and the deferred cancel ends the delivery's context.
HangUp(r) ==
    /\ phase[r] \in {"waits", "told"}
    /\ phase' = [phase EXCEPT ![r] = "gone"] /\ result' = [result EXCEPT ![r] = NoResult]
    /\ UNCHANGED <<twins, queue, worker, codexVars, pending, restVars>>

\* 409 or 202; what was accepted and is no slash command is filed.
Answer(r) ==
    /\ phase[r] = "told"
    /\ phase' = [phase EXCEPT ![r] = IF result[r].ok THEN "accepted" ELSE "refused"]
    /\ pending' = IF result[r].ok /\ r \notin Slashes
                  THEN Append(pending, [req |-> r, base |-> result[r].base, user |-> 0]) ELSE pending
    /\ result' = [result EXCEPT ![r] = NoResult]
    /\ UNCHANGED <<twins, queue, worker, codexVars, restVars>>

-----------------------------------------------------------------------------
(* The worker.  Any of its steps may fail; under a cancelled context it    *)
(* must, and a CLI call that fails may have pressed its keys.              *)

Current == worker.req
Cancelled == phase[Current] = "gone"

Tells(ok) ==
    /\ IF Cancelled THEN UNCHANGED <<phase, result>>
       ELSE /\ phase' = [phase EXCEPT ![Current] = "told"]
            /\ result' = [result EXCEPT ![Current] = [ok |-> ok, base |-> IF ok THEN worker.base ELSE 0]]
    /\ worker' = Resting

\* The snapshot whose Sequence is the baseline.  One that fails is told at once.
Snapshot ==
    /\ worker.pc = "rest" /\ queue # <<>>
    /\ queue' = Tail(queue)
    /\ worker' = [Resting EXCEPT !.pc = "snapped", !.req = Head(queue), !.base = Len(rollout)]
    /\ UNCHANGED <<twins, phase, result, codexVars, pending, restVars>>

\* codexComposerHasDraft
Draft == composer # <<>>

\* sessionPane and the first half of Deliver.
Type(fails, keysOut) ==
    /\ worker.pc = "snapped"
    /\ IF Draft THEN fails /\ ~keysOut ELSE Cancelled => fails
    /\ composer' = IF ~fails \/ keysOut THEN Append(composer, Current) ELSE composer
    /\ IF fails THEN Tells(FALSE)
       ELSE /\ \E steer \in BOOLEAN :
                worker' = [worker EXCEPT !.pc = "typed", !.key = IF busy /\ ~steer THEN "Tab" ELSE "Enter"]
            /\ UNCHANGED <<phase, result>>
    /\ UNCHANGED <<twins, queue, inbox, turn, busy, aborts, rollout, pending, restVars>>

KeyOutcome(fails) == ~fails

\* The second half: Enter steers or starts a turn, Tab queues.
Key(fails, keysOut) ==
    /\ worker.pc = "typed" /\ (Cancelled => fails)
    /\ IF ~fails \/ keysOut
       THEN /\ composer' = <<>>
            /\ inbox' = Append(inbox, [text |-> composer, queued |-> worker.key = "Tab"])
       ELSE UNCHANGED <<composer, inbox>>
    /\ Tells(KeyOutcome(fails))
    /\ UNCHANGED <<twins, queue, turn, busy, aborts, rollout, pending, restVars>>

WorkerStep == Snapshot \/ \E fails, keysOut \in BOOLEAN : Type(fails, keysOut) \/ Key(fails, keysOut)

-----------------------------------------------------------------------------
(* Codex.                                                                  *)

\* A message is taken into the turn that runs, or starts one; a queued one waits for the turn's end.
Take ==
    /\ \E i \in DOMAIN inbox :
        /\ IF busy THEN ~inbox[i].queued /\ \A j \in 1..(i - 1) : inbox[j].queued ELSE i = 1
        /\ inbox' = RemoveAt(inbox, i)
        /\ turn' = IF busy THEN turn ELSE turn + 1
        /\ rollout' = Append(rollout, [role |-> "user", text |-> inbox[i].text, turn |-> turn'])
    /\ busy' = TRUE
    /\ UNCHANGED <<twins, phase, result, queue, worker, composer, aborts, pending, restVars>>

EndTurn(answered) ==
    /\ busy /\ (~answered => aborts < MaxAborts)
    /\ busy' = FALSE /\ aborts' = IF answered THEN aborts ELSE aborts + 1
    /\ rollout' = IF ~answered THEN rollout
                  ELSE Append(rollout, [role |-> "reply", text |-> <<>>, turn |-> turn])
    /\ UNCHANGED <<twins, phase, result, queue, worker, composer, inbox, turn, pending, restVars>>

\* The operator clears a draft, between two deliveries.
ClearDraft ==
    /\ worker.pc = "rest" /\ Draft
    /\ composer' = <<>>
    /\ UNCHANGED <<twins, phase, result, queue, worker, inbox, turn, busy, aborts, rollout, pending, restVars>>

-----------------------------------------------------------------------------
(* The sweep.                                                              *)

\* Mutant: a user event may serve two requests.
MatchesShared(p, i, used) ==
    rollout[i].role = "user" /\ i > p.base /\ \E r \in Range(rollout[i].text) : SameTypedText(r, p.req)

\* The user events a request may be bound to.
Matches(p, i, used) ==
    /\ rollout[i].role = "user" /\ i > p.base /\ i \notin used
    /\ Len(rollout[i].text) = 1 /\ SameTypedText(rollout[i].text[1], p.req)

\* The first pass of reconcile: in the list's order, each to the first event that is free.
Bound(snap) ==
    LET Free(list, p) == {i \in 1..snap : Matches(p, i, {q.user : q \in Range(list) \cup Range(pending)})}
        Bind(list, p) == Append(list,
            IF p.user > 0 \/ Free(list, p) = {} THEN p ELSE [p EXCEPT !.user = Min(Free(list, p))])
        upTo[n \in 0..Len(pending)] == IF n = 0 THEN <<>> ELSE Bind(upTo[n - 1], pending[n])
    IN  upTo[Len(pending)]

Answers(i, p) == rollout[i].role = "reply" /\ i > p.user /\ rollout[i].turn = rollout[p.user].turn

Replies(p, snap) == IF p.user = 0 THEN {} ELSE {i \in 1..snap : Answers(i, p)}

\* The second pass: the list without those that are done with.
Without(list, gone) ==
    LET upTo[n \in 0..Len(list)] ==
            IF n = 0 THEN <<>> ELSE IF n \in gone THEN upTo[n - 1] ELSE Append(upTo[n - 1], list[n])
    IN  upTo[Len(list)]

\* Mutant: whatever was bound is done with.
KeepsUnbound(list, snap) == Without(list, {n \in DOMAIN list : list[n].user > 0})

Keeps(list, snap) == Without(list, {n \in DOMAIN list : Replies(list[n], snap) # {}})

\* reconcile, on a snapshot of the rollout read before: what has its reply is published and dropped.
Reconcile(snap) ==
    /\ pending # <<>>
    /\ pending' = Keeps(Bound(snap), snap)
    /\ replied' = [r \in Requests |-> replied[r] \cup
            {rollout[Min(Replies(p, snap))].turn :
                p \in {q \in Range(Bound(snap)) : q.req = r /\ Replies(q, snap) # {}}}]
    /\ UNCHANGED <<twins, phase, result, queue, worker, codexVars, restarts, dropped>>

\* The daemon dies: phones that wait see their request fail, those that were answered keep a request
\* nobody follows any more (newCodexRequestTracker).
Restart ==
    /\ restarts < MaxRestarts
    /\ restarts' = restarts + 1
    /\ phase' = [r \in Requests |-> IF phase[r] \in {"waits", "told"} THEN "gone" ELSE phase[r]]
    /\ result' = [r \in Requests |-> NoResult]
    /\ queue' = <<>> /\ worker' = Resting
    /\ pending' = <<>>
    /\ dropped' = dropped \cup {p.req : p \in Range(pending)}
    /\ UNCHANGED <<twins, codexVars, replied>>

Next ==
    \/ \E r \in Requests : Ask(r) \/ HangUp(r) \/ Answer(r)
    \/ WorkerStep
    \/ Take \/ (\E answered \in BOOLEAN : EndTurn(answered)) \/ ClearDraft
    \/ \E snap \in 0..Len(rollout) : Reconcile(snap)
    \/ Restart

\* Codex takes and answers what it is given, the sweep and the handlers run.
Fairness ==
    /\ \A r \in Requests : WF_vars(Answer(r))
    /\ WF_vars(WorkerStep) /\ WF_vars(Take) /\ WF_vars(EndTurn(TRUE))
    /\ WF_vars(Reconcile(Len(rollout)))

Spec == Init /\ [][Next]_vars /\ Fairness

-----------------------------------------------------------------------------
\* Deliveries cut off half way never run into one another: what the phone was told is delivered was
\* submitted once, and alone, though an earlier text may have been left in the composer.
AcceptedOnceAlone ==
    LET Submitted(r) == ({"inbox"} \X {i \in DOMAIN inbox : inbox[i].text = <<r>>})
                        \cup ({"rollout"} \X {i \in DOMAIN rollout : rollout[i].text = <<r>>})
    IN  /\ \A i \in DOMAIN inbox : Len(inbox[i].text) = 1
        /\ \A i \in DOMAIN rollout : rollout[i].role = "user" => Len(rollout[i].text) = 1
        /\ \A r \in Requests : phase[r] = "accepted" => \E place \in Submitted(r) : Submitted(r) = {place}

\* Requests of the same text that are on file together are bound to messages of their own.
BoundApart ==
    \A i, j \in DOMAIN pending : i # j /\ pending[i].user > 0 => pending[i].user # pending[j].user

\* The turns a request's message went into.
TurnsOf(r) ==
    LET Own == {i \in DOMAIN rollout : rollout[i].role = "user" /\ rollout[i].text = <<r>>} IN
    {rollout[i].turn : i \in Own}

\* The reply published for a request answers the turn its own message went into, whoever else is
\* filed and however late, provided nobody else sent that text.
ReplyIsOwn == \A r \in Requests \ twins : replied[r] \subseteq TurnsOf(r)

\* ... whatever others sent.
ReplyIsOwnAlways == \A r \in Requests : replied[r] \subseteq TurnsOf(r)

\* "a "reply" event (matching requestId) follows when the turn completes" (handleAsk): every accepted
\* message gets one, with two exceptions of the code's own making: a turn was interrupted, or the
\* daemon was restarted while the request was on file, for the list is in memory only.
ReplyComes ==
    \A r \in Requests \ Slashes :
        phase[r] = "accepted" ~> replied[r] # {} \/ aborts > 0 \/ r \in dropped

\* From the composer to the reply a request stays apart from all others.
RequestsApart == TypeOK /\ AcceptedOnceAlone /\ BoundApart /\ ReplyIsOwn
=============================================================================
