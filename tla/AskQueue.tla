------------------------------ MODULE AskQueue ------------------------------
(***************************************************************************)
(* A phone message to a Claude session, from POST /api/rc/ask to the state *)
(* its bubble shows (src/ask.go, src/askqueue.go, and applyAskState of     *)
(* src/web/thread.js).                                                     *)
(*                                                                         *)
(* The handler puts the message on its session's channel; the session's    *)
(* one worker hands it to agent-deck's durable queue with a CLI call and   *)
(* registers it with the send tracker; a single poller follows every       *)
(* tracked send and drops it when its state is final.  Each change is      *)
(* published as an ask-state event, after the tracker's lock is released.  *)
(* On the phone a message is a bubble from the start; it bears no request  *)
(* id until the POST is answered, or an event claims it.                   *)
(*                                                                         *)
(* Outside this program: agent-deck, which delivers its queue whether or   *)
(* not the daemon runs.  The daemon may die and start again at any step.   *)
(***************************************************************************)
EXTENDS Integers, Sequences, FiniteSetsExt

CONSTANTS
    Sessions,
    Reqs,        \* messages (request ids)
    Of,          \* message -> its session
    QueueCap,    \* capacity of a session's channel
    Pollers,     \* poll loops that could run; one is enough for the code as it is
    MaxRestarts, \* bound on restarts of the daemon
    MaxCut,      \* bound on answers lost on the way to the phone, but for those a restart cuts off
    None

VARIABLES
    phone,     \* message -> "unsent", "accepted" (its "sent" event still due), "told" (the answer to
               \* its POST still due), "done", "refused"
    chan,      \* session -> messages waiting for its worker
    worker,    \* session -> what its worker is doing, for which message
    deck,      \* message -> its record in agent-deck's queue
    ids,       \* the send ids, in the order agent-deck gave them out
    items,     \* the sends the tracker follows
    file,      \* the open set on disk
    running,   \* the tracker's "a poller runs"
    key,       \* message -> state and position last published
    poll,      \* the poll loops
    old,       \* messages older than sendTrackMax
    conv,      \* session -> the messages in the order of their bubbles
    bubble,    \* message -> the state its bubble shows
    tag,       \* message -> the request id its bubble bears
    restarts,
    lossy,     \* history: the last save failed
    forgotten, \* history: sends the tracker followed and does not know since a restart
    killed,    \* history: messages whose CLI was killed after it had queued them
    cut        \* history: messages whose POST was accepted and seemed to the phone to fail

deckVars == <<deck, ids>>
trackVars == <<items, file, running, key, lossy>>
pageVars == <<conv, bubble, tag, cut>>
restVars == <<old, restarts, forgotten, killed>>
vars == <<phone, chan, worker, deckVars, trackVars, poll, pageVars, restVars>>

\* agent-deck's states; the two settled ones are "typed" and "submitted" with settled set.
DeckMoves == {<<"queued", "typing">>, <<"queued", "failed">>, <<"typing", "typed">>,
              <<"typing", "typedSettled">>, <<"typed", "typedSettled">>, <<"typed", "submitted">>,
              <<"submitted", "submittedSettled">>, <<"submitted", "landed">>}
DeckStates == UNION {{m[1], m[2]} : m \in DeckMoves}
Settled == {"landed", "failed", "typedSettled", "submittedSettled"}

\* Mutant: an unproven submit is offered for a resend.
UiUnprovenFails(rec) ==
    CASE rec \in {"landed", "submittedSettled"} -> "delivered"
      [] rec \in {"failed", "typedSettled"} -> "failed"
      [] rec \in {"typing", "typed", "submitted"} -> "delivering"
      [] OTHER -> "queued"

\* mapSendState
Ui(rec) ==
    CASE rec \in {"landed", "submittedSettled"} -> "delivered"
      [] rec = "failed" -> "failed"
      [] rec = "typedSettled" -> "unconfirmed"
      [] rec \in {"typing", "typed", "submitted"} -> "delivering"
      [] OTHER -> "queued"

FinalUi == {"delivered", "failed", "unconfirmed"}
UiStates == {"sent", "queued", "delivering"} \cup FinalUi

\* None stands for what is not there.
QueueAssumption ==
    /\ QueueCap \in Nat \ {0} /\ MaxRestarts \in Nat /\ MaxCut \in Nat
    /\ Of \in [Reqs -> Sessions]
    /\ None \notin Reqs \cup DeckStates \cup UiStates

IdleWorker == [pc |-> "idle", req |-> None, ev |-> None]
OffPoll == [pc |-> "off", todo |-> {}, req |-> None, rec |-> None, ev |-> None]
Sleeping == [OffPoll EXCEPT !.pc = "sleep"]

TypeOK ==
    /\ phone \in [Reqs -> {"unsent", "accepted", "told", "done", "refused"}]
    /\ \A s \in Sessions : chan[s] \in Seq(Reqs) /\ Len(chan[s]) <= QueueCap
    /\ worker \in [Sessions -> [pc : {"idle", "enqueue", "fail", "track", "observe", "publish", "start"},
                                req : Reqs \cup {None}, ev : UiStates \cup {None}]]
    /\ deck \in [Reqs -> DeckStates \cup {None}]
    /\ ids \in Seq(Reqs) /\ IsInjective(ids)
    /\ items \in SUBSET Reqs /\ file \in SUBSET Reqs /\ running \in BOOLEAN
    /\ key \in [Reqs -> {None} \cup (UiStates \X (0..Len(ids)))]
    /\ \A p \in Pollers :
        /\ poll[p].pc \in {"off", "sleep", "status", "observe", "publish", "end"}
        /\ poll[p].todo \subseteq Reqs /\ poll[p].req \in Reqs \cup {None}
        /\ poll[p].rec \in DeckStates \cup {None} /\ poll[p].ev \in UiStates \cup {None}
    /\ \A s \in Sessions : conv[s] \in Seq(Reqs)
    /\ bubble \in [Reqs -> UiStates \cup {None}] /\ tag \in [Reqs -> Reqs \cup {None}]
    /\ old \in SUBSET Reqs /\ restarts \in 0..MaxRestarts
    /\ lossy \in BOOLEAN
    /\ forgotten \in SUBSET Reqs /\ killed \in SUBSET Reqs /\ cut \in SUBSET Reqs

Init ==
    /\ phone = [r \in Reqs |-> "unsent"]
    /\ chan = [s \in Sessions |-> <<>>]
    /\ worker = [s \in Sessions |-> IdleWorker]
    /\ deck = [r \in Reqs |-> None] /\ ids = <<>>
    /\ items = {} /\ file = {} /\ running = FALSE /\ key = [r \in Reqs |-> None]
    /\ poll = [p \in Pollers |-> OffPoll]
    /\ conv = [s \in Sessions |-> <<>>]
    /\ bubble = [r \in Reqs |-> None] /\ tag = [r \in Reqs |-> None]
    /\ old = {} /\ restarts = 0 /\ lossy = FALSE /\ forgotten = {} /\ killed = {} /\ cut = {}

-----------------------------------------------------------------------------
\* The bubble an event of request r is for: the last that bears r, or else the first without an id that
\* is still "sent" - r's own, or that of another message sent before it.
Target(r) ==
    LET page == conv[Of[r]]
        bearers == {i \in DOMAIN page : tag[page[i]] = r}
        unnamed == {i \in DOMAIN page : tag[page[i]] = None /\ bubble[page[i]] = "sent"}
    IN IF bearers # {} THEN page[Max(bearers)]
       ELSE IF unnamed # {} THEN page[Min(unnamed)] ELSE None

\* applyAskState: a delivered bubble is never taken back, every other state is overwritten.
Show(r, state) ==
    LET b == Target(r) IN
    /\ UNCHANGED <<conv, cut>>
    /\ IF b = None THEN UNCHANGED <<bubble, tag>>
       ELSE /\ tag' = [tag EXCEPT ![b] = r]
            /\ bubble' = IF bubble[b] = "delivered" THEN bubble ELSE [bubble EXCEPT ![b] = state]

\* saveLocked only logs a failed write.
Save(saved) ==
    /\ file' = IF saved THEN items' ELSE file
    /\ lossy' = ~saved

\* positionLocked: place among the session's unfinished sends, by send id.
Before(a, b) == \E i, j \in 1..Len(ids) : i < j /\ ids[i] = a /\ ids[j] = b
Position(r) == 1 + Cardinality({o \in items : Of[o] = Of[r] /\ Before(o, r)})

KeyOf(r, rec) == <<Ui(rec), IF Ui(rec) = "queued" THEN Position(r) ELSE 0>>

\* The critical section of observeSend; what it publishes comes later.
Observe(r, rec, saved) ==
    /\ key' = [key EXCEPT ![r] = KeyOf(r, rec)]
    /\ IF Ui(rec) \in FinalUi
       THEN items' = items \ {r} /\ Save(saved)
       ELSE saved /\ UNCHANGED <<items, file, lossy>>

Changed(r, rec) == key[r] # KeyOf(r, rec)

\* startSendPoller
StartPoller ==
    IF running \/ items = {} THEN UNCHANGED <<running, poll>>
    ELSE /\ running' = TRUE
         /\ \E p \in Pollers : poll[p].pc = "off" /\ poll' = [poll EXCEPT ![p] = Sleeping]

-----------------------------------------------------------------------------
(* The handler: accepted or refused at once; its "sent" event, then the answer, follow the hand-over. *)

\* submit: a non-blocking send on the session's channel; full, the request is answered "busy".
Ask(r) ==
    /\ phone[r] = "unsent"
    /\ conv' = [conv EXCEPT ![Of[r]] = Append(@, r)]
    /\ IF Len(chan[Of[r]]) < QueueCap
       THEN /\ phone' = [phone EXCEPT ![r] = "accepted"]
            /\ chan' = [chan EXCEPT ![Of[r]] = Append(@, r)]
            /\ bubble' = [bubble EXCEPT ![r] = "sent"]
       ELSE /\ phone' = [phone EXCEPT ![r] = "refused"]
            /\ bubble' = [bubble EXCEPT ![r] = "failed"]
            /\ UNCHANGED chan
    /\ UNCHANGED <<worker, deckVars, trackVars, poll, tag, cut, restVars>>

PublishSent(r) ==
    /\ phone[r] = "accepted"
    /\ phone' = [phone EXCEPT ![r] = "told"]
    /\ Show(r, "sent")
    /\ UNCHANGED <<chan, worker, deckVars, trackVars, poll, restVars>>

\* The answer to the POST (doSend): it names the bubble, unless an event has.
Answered(r) ==
    /\ phone[r] = "told"
    /\ phone' = [phone EXCEPT ![r] = "done"]
    /\ tag' = [tag EXCEPT ![r] = IF @ = None THEN r ELSE @]
    /\ UNCHANGED <<chan, worker, deckVars, trackVars, poll, conv, bubble, cut, restVars>>

\* The answer is lost on its way: doSend shows any error of the POST as a failed send.
Lost(r) ==
    /\ phone[r] = "told"
    /\ Cardinality(cut) < MaxCut
    /\ phone' = [phone EXCEPT ![r] = "done"]
    /\ cut' = cut \cup {r}
    /\ bubble' = [bubble EXCEPT ![r] = "failed"]
    /\ UNCHANGED <<chan, worker, deckVars, trackVars, poll, conv, tag, restVars>>

-----------------------------------------------------------------------------
(* The session's worker: runTurn, one message at a time. *)

Take(s) ==
    /\ worker[s].pc = "idle" /\ chan[s] # <<>>
    /\ worker' = [worker EXCEPT ![s] = [pc |-> "enqueue", req |-> Head(chan[s]), ev |-> None]]
    /\ chan' = [chan EXCEPT ![s] = Tail(@)]
    /\ UNCHANGED <<phone, deckVars, trackVars, poll, pageVars, restVars>>

\* enqueueSend: queued; rejected at once; or the call is killed by its 30 s context after
\* agent-deck had queued the message, which reads as an error all the same.
Enqueue(s, outcome) ==
    LET r == worker[s].req IN
    /\ worker[s].pc = "enqueue"
    /\ IF outcome = "rejected" THEN UNCHANGED deckVars
       ELSE deck' = [deck EXCEPT ![r] = "queued"] /\ ids' = Append(ids, r)
    /\ worker' = [worker EXCEPT ![s].pc = IF outcome = "queued" THEN "track" ELSE "fail"]
    /\ killed' = IF outcome = "killed" THEN killed \cup {r} ELSE killed
    /\ UNCHANGED <<phone, chan, trackVars, poll, pageVars, old, restarts, forgotten>>

\* publishAskFailed, always retryable.
EnqueueFailed(s) ==
    /\ worker[s].pc = "fail"
    /\ Show(worker[s].req, "failed")
    /\ worker' = [worker EXCEPT ![s] = IdleWorker]
    /\ UNCHANGED <<phone, chan, deckVars, trackVars, poll, restVars>>

\* Mutant: registers without saving.
TrackUnsaved(s, saved) ==
    /\ worker[s].pc = "track"
    /\ items' = items \cup {worker[s].req}
    /\ worker' = [worker EXCEPT ![s].pc = "observe"]
    /\ UNCHANGED <<phone, chan, deckVars, file, lossy, running, key, poll, pageVars, restVars>>

\* trackSend: register and save, observe the record just returned, start the poller.
Track(s, saved) ==
    /\ worker[s].pc = "track"
    /\ items' = items \cup {worker[s].req}
    /\ Save(saved)
    /\ worker' = [worker EXCEPT ![s].pc = "observe"]
    /\ UNCHANGED <<phone, chan, deckVars, running, key, poll, pageVars, restVars>>

TrackObserve(s) ==
    LET r == worker[s].req IN
    /\ worker[s].pc = "observe"
    /\ Observe(r, "queued", TRUE)
    /\ worker' = [worker EXCEPT ![s].pc = IF Changed(r, "queued") THEN "publish" ELSE "start",
                                ![s].ev = "queued"]
    /\ UNCHANGED <<phone, chan, deckVars, running, poll, pageVars, restVars>>

TrackPublish(s) ==
    /\ worker[s].pc = "publish"
    /\ Show(worker[s].req, worker[s].ev)
    /\ worker' = [worker EXCEPT ![s].pc = "start"]
    /\ UNCHANGED <<phone, chan, deckVars, trackVars, poll, restVars>>

TrackStart(s) ==
    /\ worker[s].pc = "start"
    /\ StartPoller
    /\ worker' = [worker EXCEPT ![s] = IdleWorker]
    /\ UNCHANGED <<phone, chan, deckVars, items, file, key, lossy, pageVars, restVars>>

-----------------------------------------------------------------------------
(* The poll loop: pollSendsOnce every sendPollEvery. *)

\* The send with the smallest id.
Oldest(open) == ids[Min({i \in DOMAIN ids : ids[i] \in open})]

\* On to the sends that are left, or to the emptiness check.
Goes(p, left) ==
    poll' = [poll EXCEPT ![p] =
        [pc |-> IF left = {} THEN "end" ELSE "status", todo |-> left, req |-> None, rec |-> None, ev |-> None]]

\* The open set.
PollSnapshot(p) ==
    /\ poll[p].pc = "sleep"
    /\ Goes(p, items)
    /\ UNCHANGED <<phone, chan, worker, deckVars, trackVars, pageVars, restVars>>

\* What the poll was told of a send.
Told(p, r, rec) ==
    poll' = [poll EXCEPT ![p] =
        [pc |-> "observe", todo |-> poll[p].todo \ {r}, req |-> r, rec |-> rec, ev |-> None]]

\* Mutant: any error of send-status settles the send.
PollStatusHasty(p, answered) ==
    LET r == Oldest(poll[p].todo) IN
    /\ poll[p].pc = "status"
    /\ Told(p, r, IF answered THEN deck[r] ELSE "typedSettled")
    /\ UNCHANGED <<phone, chan, worker, deckVars, trackVars, pageVars, restVars>>

\* send-status, a CLI call, for the oldest send first: the record as it is now, or an error; an old
\* send's error settles it.
PollStatus(p, answered) ==
    LET r == Oldest(poll[p].todo) IN
    /\ poll[p].pc = "status"
    /\ IF answered THEN Told(p, r, deck[r])
       ELSE IF r \in old THEN Told(p, r, "typedSettled") ELSE Goes(p, poll[p].todo \ {r})
    /\ UNCHANGED <<phone, chan, worker, deckVars, trackVars, pageVars, restVars>>

PollObserve(p, saved) ==
    LET r == poll[p].req rec == poll[p].rec IN
    /\ poll[p].pc = "observe"
    /\ Observe(r, rec, saved)
    /\ IF Changed(r, rec)
       THEN poll' = [poll EXCEPT ![p].pc = "publish", ![p].ev = Ui(rec)]
       ELSE Goes(p, poll[p].todo)
    /\ UNCHANGED <<phone, chan, worker, deckVars, running, pageVars, restVars>>

PollPublish(p) ==
    /\ poll[p].pc = "publish"
    /\ Show(poll[p].req, poll[p].ev)
    /\ Goes(p, poll[p].todo)
    /\ UNCHANGED <<phone, chan, worker, deckVars, trackVars, restVars>>

\* Mutant: the loop stops without clearing the flag.
PollEndForgets(p) ==
    /\ poll[p].pc = "end"
    /\ poll' = [poll EXCEPT ![p] = IF items = {} THEN OffPoll ELSE Sleeping]
    /\ UNCHANGED <<phone, chan, worker, deckVars, trackVars, pageVars, restVars>>

\* Emptiness and the flag under one lock: a send tracked before is seen, one tracked later starts
\* a new loop.
PollEnd(p) ==
    /\ poll[p].pc = "end"
    /\ running' = (items # {})
    /\ poll' = [poll EXCEPT ![p] = IF items = {} THEN OffPoll ELSE Sleeping]
    /\ UNCHANGED <<phone, chan, worker, deckVars, items, file, key, lossy, pageVars, restVars>>

-----------------------------------------------------------------------------
(* agent-deck, time, restarts. *)

DeckStep(r) ==
    /\ \E m \in DeckMoves : deck[r] = m[1] /\ deck' = [deck EXCEPT ![r] = m[2]]
    /\ UNCHANGED <<phone, chan, worker, ids, trackVars, poll, pageVars, restVars>>

Ages(r) ==
    /\ r \in items \ old
    /\ old' = old \cup {r}
    /\ UNCHANGED <<phone, chan, worker, deckVars, trackVars, poll, pageVars, restarts, forgotten, killed>>

\* Everything in memory is lost, and what was still to be answered seems to the phone to fail.
\* newSendTracker, load and resumeSends run before the listener; a file that cannot be read or parsed
\* is no error to load: the tracker starts empty, and its next save replaces the file.
Restart(readable) ==
    LET cutOff == {r \in Reqs : phone[r] \in {"accepted", "told"}} IN
    /\ restarts < MaxRestarts
    /\ restarts' = restarts + 1
    /\ phone' = [r \in Reqs |-> IF r \in cutOff THEN "done" ELSE phone[r]]
    /\ cut' = cut \cup cutOff
    /\ bubble' = [r \in Reqs |-> IF r \in cutOff THEN "failed" ELSE bubble[r]]
    /\ chan' = [s \in Sessions |-> <<>>]
    /\ worker' = [s \in Sessions |-> IdleWorker]
    /\ items' = IF readable THEN file ELSE {}
    /\ forgotten' = (forgotten \cup items) \ items'
    /\ lossy' = (lossy /\ ~readable)
    /\ running' = (items' # {})
    /\ key' = [r \in Reqs |-> None]
    /\ \E first \in Pollers : poll' = [p \in Pollers |->
            IF p = first /\ items' # {} THEN Sleeping ELSE OffPoll]
    /\ UNCHANGED <<deckVars, file, conv, tag, old, killed>>

-----------------------------------------------------------------------------
Worker(s) ==
    \/ Take(s)
    \/ \E outcome \in {"queued", "rejected", "killed"} : Enqueue(s, outcome)
    \/ EnqueueFailed(s)
    \/ \E saved \in BOOLEAN : Track(s, saved)
    \/ TrackObserve(s) \/ TrackPublish(s) \/ TrackStart(s)

Poller(p) ==
    \/ PollSnapshot(p)
    \/ \E answered \in BOOLEAN : PollStatus(p, answered)
    \/ \E saved \in BOOLEAN : PollObserve(p, saved)
    \/ PollPublish(p) \/ PollEnd(p)

Next ==
    \/ \E r \in Reqs : Ask(r) \/ PublishSent(r) \/ Answered(r) \/ Lost(r) \/ DeckStep(r) \/ Ages(r)
    \/ \E s \in Sessions : Worker(s)
    \/ \E p \in Pollers : Poller(p)
    \/ \E readable \in BOOLEAN : Restart(readable)

\* Goroutines run on, time passes, and send-status does not fail for ever on a send it could answer.
Fairness ==
    /\ \A s \in Sessions : WF_vars(Worker(s))
    /\ \A p \in Pollers : WF_vars(Poller(p)) /\ SF_vars(PollStatus(p, TRUE))
    /\ \A r \in Reqs : WF_vars(PublishSent(r)) /\ WF_vars(Ages(r))

Spec == Init /\ [][Next]_vars /\ Fairness

-----------------------------------------------------------------------------
(* Properties. *)

\* No tracked send is left without a poller: the loop clears its flag under the lock that showed
\* it an empty set, so whoever tracks a send either was seen by the loop or starts a new one.
PollerFollows ==
    items # {} => \/ \E p \in Pollers : poll[p].pc # "off"
                  \/ \E s \in Sessions : worker[s].pc \in {"observe", "publish", "start"}

\* One poll loop at most, and the flag says whether it runs.
OnePoller ==
    LET on == {p \in Pollers : poll[p].pc # "off"} IN
    Cardinality(on) <= 1 /\ (running <=> on # {})

\* The open set survives a restart: unless a write failed, the file holds what the tracker follows, and
\* beside that only sends that a start which could not read it has forgotten.
FileIsTracker == lossy \/ (items \subseteq file /\ file \subseteq items \cup forgotten)

\* The tracker's three parts are one: its flag, its loop and its file say the same of the sends on
\* their way, though worker, poller and restart change them in separate critical sections.
TrackerSound == OnePoller /\ PollerFollows /\ FileIsTracker

\* The tracker forgets a send only when agent-deck has settled it, or when it is older than
\* sendTrackMax and its status cannot be read: a passing send-status error never ends the follow-up.
\* A restart forgets a send in two ways that the code accepts: the last write of the file failed, or
\* the file could not be read, and then all are forgotten.
ForgetsOnlySettled ==
    [][\A r \in items \ items' :
        \/ deck[r] \in Settled \/ r \in old
        \/ restarts' # restarts /\ (lossy \/ items' = {})]_vars

\* "failed: nothing was typed; resending is safe" (mapSendState): a bubble that offers Retry is of a
\* message agent-deck rejected or gave up before typing.  The exceptions are three ways the code takes
\* to offer it all the same: after a killed CLI call, which FailedMeansNothingQueued is about; when the
\* POST itself seemed to fail; and on a bubble that an event of another message has claimed.
RetryIsSafe ==
    \A r \in Reqs \ (killed \cup cut) :
        bubble[r] = "failed" /\ tag[r] \in {None, r} => deck[r] \in {None, "failed"}

\* Every tracked send is followed to its end: the tracker comes to a final state for it and drops it,
\* whatever polls, restarts and concurrent messages do meanwhile, unless a restart forgot it.
FollowedToTheEnd ==
    \A r \in Reqs :
        r \in items ~> r \notin items /\ (r \in forgotten \/ key[r] \in FinalUi \X {0})

\* A send leaves the tracker in the end, and never before its fate is known.
SendSettles == ForgetsOnlySettled /\ FollowedToTheEnd

\* thread.js: a bubble "walks sent -> queued (n) -> delivering -> delivered, or failed /
\* unconfirmed": no event takes a final state back to one in flight.
BubbleNeverWalksBack ==
    [][\A r \in Reqs : bubble[r] \in FinalUi => bubble'[r] \in FinalUi]_vars

\* askqueue.go: "A failure here means nothing was typed (agent-deck rejected the send at once ...),
\* so it is safe to retry."
FailedMeansNothingQueued == \A r \in Reqs : bubble[r] = "failed" => deck[r] \in {None, "failed"}

=============================================================================
