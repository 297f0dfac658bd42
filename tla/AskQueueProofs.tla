-------------------------- MODULE AskQueueProofs --------------------------
(* One poller follows the tracked sends and the file is the tracker; what a phone is told to retry was *)
(* never typed; a send is forgotten only when its fate is known. For any sessions and messages.        *)
EXTENDS AskQueue, SequenceTheorems, FiniteSetTheorems, WellFoundedInduction, TLAPS

Working == [pc : {"idle", "enqueue", "fail", "track", "observe", "publish", "start"},
            req : Reqs \cup {None}, ev : UiStates \cup {None}]

\* What the proofs need of the types.
Shape ==
    /\ chan \in [Sessions -> Seq(Reqs)]
    /\ worker \in [Sessions -> Working]
    /\ poll = [p \in Pollers |-> poll[p]]

On(p) == poll[p].pc # "off"
Starts(s) == worker[s].pc \in {"observe", "publish", "start"}

\* OnePoller without a cardinality.
Single ==
    /\ \A p, q \in Pollers : On(p) /\ On(q) => p = q
    /\ running <=> \E p \in Pollers : On(p)

Tracking == Shape /\ Single /\ PollerFollows

\* The three records the module names.
LEMMA Records ==
  /\ IdleWorker \in Working /\ IdleWorker.pc = "idle"
  /\ OffPoll.pc = "off" /\ Sleeping.pc = "sleep"
  BY DEF IdleWorker, Working, OffPoll, Sleeping

\* Going on to what is left.
LEMMA GoesIs ==
  ASSUME NEW p \in Pollers, NEW left, Goes(p, left)
  PROVE  \E x : /\ poll' = [poll EXCEPT ![p] = x]
               /\ x = [pc |-> IF left = {} THEN "end" ELSE "status", todo |-> left, req |-> None,
                       rec |-> None, ev |-> None]
               /\ x.pc \in {"end", "status"}
  <1> DEFINE x == [pc |-> IF left = {} THEN "end" ELSE "status", todo |-> left, req |-> None,
                   rec |-> None, ev |-> None]
  <1>1. x.pc \in {"end", "status"}
    OBVIOUS
  <1>2. poll' = [poll EXCEPT ![p] = x]
    BY Zenon DEF Goes
  <1> QED
    BY <1>1, <1>2, Zenon

\* Nothing is tracked at the start.
LEMMA InitTracking == Init => Tracking
  <1> SUFFICES ASSUME Init PROVE Tracking
    OBVIOUS
  <1>1. chan \in [Sessions -> Seq(Reqs)]
    BY DEF Init
  <1>2. worker \in [Sessions -> Working]
    BY Records DEF Init
  <1>3. poll = [p \in Pollers |-> poll[p]] /\ \A p \in Pollers : ~On(p)
    BY Records DEF Init, On
  <1> QED
    BY <1>1, <1>2, <1>3 DEF Init, Tracking, Shape, Single, PollerFollows

\* A step of a worker moves it alone.
LEMMA WorkerShape ==
  ASSUME QueueAssumption, Shape, NEW s \in Sessions, Worker(s)
  PROVE  Shape'
  <1> USE DEF Shape
  <1>1. CASE Take(s)
    <2>1. Head(chan[s]) \in Reqs /\ Tail(chan[s]) \in Seq(Reqs)
      BY <1>1, HeadTailProperties DEF Take
    <2>2. [pc |-> "enqueue", req |-> Head(chan[s]), ev |-> None] \in Working
      BY <2>1, Zenon DEF Working
    <2> QED
      BY <1>1, <2>1, <2>2 DEF Take
  <1>2. ASSUME NEW outcome, Enqueue(s, outcome) PROVE Shape'
    <2>1. PICK pc \in {"track", "fail"} : worker' = [worker EXCEPT ![s].pc = pc]
      BY <1>2 DEF Enqueue
    <2>2. UNCHANGED <<chan, poll>>
      BY <1>2 DEF Enqueue
    <2> QED
      BY <2>1, <2>2 DEF Working
  <1>3. CASE EnqueueFailed(s)
    BY <1>3, Records DEF EnqueueFailed
  <1>4. ASSUME NEW saved, Track(s, saved) PROVE Shape'
    BY <1>4 DEF Track, Working
  <1>5. CASE TrackObserve(s)
    <2>1. PICK pc \in {"publish", "start"} : worker' = [worker EXCEPT ![s].pc = pc, ![s].ev = "queued"]
      BY <1>5 DEF TrackObserve
    <2>2. UNCHANGED <<chan, poll>>
      BY <1>5 DEF TrackObserve
    <2> QED
      BY <2>1, <2>2 DEF Working, UiStates
  <1>6. CASE TrackPublish(s)
    BY <1>6 DEF TrackPublish, Working
  <1>7. CASE TrackStart(s)
    <2>1. poll' = [p \in Pollers |-> poll'[p]]
      BY <1>7 DEF TrackStart, StartPoller
    <2>2. worker' \in [Sessions -> Working] /\ UNCHANGED chan
      BY <1>7, Records DEF TrackStart
    <2> QED
      BY <2>1, <2>2
  <1> QED
    BY <1>1, <1>2, <1>3, <1>4, <1>5, <1>6, <1>7 DEF Worker

\* A step of a poller, of the phone, of agent-deck.
LEMMA OtherShape ==
  ASSUME Shape, NEW p \in Pollers, Poller(p)
  PROVE  Shape'
  BY DEF Shape, Poller, PollSnapshot, PollStatus, PollObserve, PollPublish, PollEnd, Told, Goes

\* Who is on and who starts pollers, after a step that touches neither flag nor pollers: nobody
\* leaves the three steps from the tracking of a send to the start.
LEMMA CalmTracking ==
  ASSUME Tracking, Shape', UNCHANGED <<poll, running>>, items' \subseteq items \/ \E s \in Sessions : Starts(s)',
         \A s \in Sessions : Starts(s) => Starts(s)'
  PROVE  Tracking'
  BY DEF Tracking, Single, PollerFollows, On, Starts

\* Every step keeps one poller, and one for what is tracked.
LEMMA StepTracking == ASSUME QueueAssumption, Tracking, [Next]_vars PROVE Tracking'
  <1> USE DEF Tracking
  <1>1. CASE UNCHANGED <<chan, worker, poll, running, items>>
    BY <1>1, CalmTracking DEF Shape, Starts
  <1>2. ASSUME NEW r \in Reqs, Ask(r) PROVE Tracking'
    <2>1. chan' \in [Sessions -> Seq(Reqs)] /\ UNCHANGED <<worker, poll, running, items>>
      <3>1. Of[r] \in Sessions /\ Append(chan[Of[r]], r) \in Seq(Reqs)
        BY AppendProperties DEF Shape, QueueAssumption
      <3>2. chan' = chan \/ chan' = [chan EXCEPT ![Of[r]] = Append(chan[Of[r]], r)]
        BY <1>2 DEF Ask
      <3> QED
        BY <1>2, <3>1, <3>2 DEF Ask, Shape, trackVars
    <2> QED
      BY <2>1, CalmTracking DEF Shape, Starts
  <1>3. ASSUME NEW s \in Sessions, Take(s) PROVE Tracking'
    <2>1. UNCHANGED <<running, items, poll>> /\ worker[s].pc = "idle" /\ \A q \in Sessions \ {s} : worker'[q] = worker[q]
      BY <1>3 DEF Take, Shape, trackVars
    <2> QED
      BY <1>3, <2>1, WorkerShape, CalmTracking DEF Starts, Worker
  <1>4. ASSUME NEW s \in Sessions, NEW outcome \in {"queued", "rejected", "killed"}, Enqueue(s, outcome)
        PROVE  Tracking'
    <2>1. UNCHANGED <<running, items, poll>> /\ worker[s].pc = "enqueue" /\ \A q \in Sessions \ {s} : worker'[q] = worker[q]
      BY <1>4 DEF Enqueue, Shape, trackVars
    <2> QED
      BY <1>4, <2>1, WorkerShape, CalmTracking DEF Starts, Worker
  <1>5. ASSUME NEW s \in Sessions, EnqueueFailed(s) PROVE Tracking'
    <2>1. UNCHANGED <<running, items, poll>> /\ worker[s].pc = "fail" /\ \A q \in Sessions \ {s} : worker'[q] = worker[q]
      BY <1>5 DEF EnqueueFailed, Shape, trackVars
    <2> QED
      BY <1>5, <2>1, WorkerShape, CalmTracking DEF Starts, Worker
  <1>6. ASSUME NEW s \in Sessions, NEW saved \in BOOLEAN, Track(s, saved) PROVE Tracking'
    <2>1. UNCHANGED <<running, poll>> /\ worker' = [worker EXCEPT ![s].pc = "observe"]
      BY <1>6 DEF Track
    <2>2. Starts(s)' /\ \A q \in Sessions : Starts(q) => Starts(q)'
      BY <2>1 DEF Shape, Starts, Working
    <2> QED
      BY <1>6, <2>1, <2>2, WorkerShape, CalmTracking DEF Worker
  <1>7. ASSUME NEW s \in Sessions, TrackObserve(s) PROVE Tracking'
    <2>1. UNCHANGED <<running, poll>> /\ items' \subseteq items /\ worker'[s].pc \in {"publish", "start"}
          /\ \A q \in Sessions \ {s} : worker'[q] = worker[q]
      BY <1>7 DEF TrackObserve, Observe, Shape, Working
    <2> QED
      BY <1>7, <2>1, WorkerShape, CalmTracking DEF Starts, Worker
  <1>8. ASSUME NEW s \in Sessions, TrackPublish(s) PROVE Tracking'
    <2>1. UNCHANGED <<running, poll, items>> /\ worker' = [worker EXCEPT ![s].pc = "start"]
      BY <1>8 DEF TrackPublish, trackVars
    <2>2. \A q \in Sessions : Starts(q) => Starts(q)'
      BY <2>1 DEF Shape, Starts, Working
    <2> QED
      BY <1>8, <2>1, <2>2, WorkerShape, CalmTracking DEF Worker
  <1>9. ASSUME NEW s \in Sessions, TrackStart(s) PROVE Tracking'
    <2>1. Shape' /\ UNCHANGED items
      BY <1>9, WorkerShape DEF Worker, TrackStart
    <2>2. CASE running \/ items = {}
      <3>1. UNCHANGED <<running, poll>>
        BY <1>9, <2>2 DEF TrackStart, StartPoller
      <3>2. Single' /\ (running => \E p \in Pollers : On(p)')
        BY <3>1 DEF Single, On
      <3> QED
        BY <2>1, <2>2, <3>1, <3>2 DEF PollerFollows, On
    <2>3. CASE ~running /\ items # {}
      <3>1. PICK p \in Pollers : running' = TRUE /\ poll' = [poll EXCEPT ![p] = Sleeping]
        BY <1>9, <2>3 DEF TrackStart, StartPoller
      <3>2. \A q \in Pollers : On(q)' <=> q = p
        BY <2>3, <3>1, Records DEF Shape, Single, On
      <3> QED
        BY <2>1, <3>1, <3>2 DEF Single, PollerFollows, On
    <2> QED
      BY <2>2, <2>3
  <1>10. ASSUME NEW p \in Pollers, PollEnd(p) PROVE Tracking'
    <2>1. CASE items = {}
      <3>1. running' = FALSE /\ poll' = [poll EXCEPT ![p] = OffPoll] /\ items' = {} /\ On(p)
        BY <1>10, <2>1 DEF PollEnd, On
      <3>2. \A q \in Pollers : ~On(q)'
        BY <3>1, Records DEF Shape, Single, On
      <3> QED
        BY <1>10, <3>1, <3>2, OtherShape DEF Single, PollerFollows, Poller, On
    <2>2. CASE items # {}
      <3>1. running' = TRUE /\ poll' = [poll EXCEPT ![p] = Sleeping] /\ On(p)
        BY <1>10, <2>2 DEF PollEnd, On
      <3>2. \A q \in Pollers : On(q)' <=> On(q)
        BY <3>1, Records DEF Shape, On
      <3> QED
        BY <1>10, <3>1, <3>2, OtherShape DEF Single, PollerFollows, Poller, On
    <2> QED
      BY <2>1, <2>2
  <1>11. ASSUME NEW p \in Pollers, UNCHANGED running, Poller(p), NEW new, poll' = [poll EXCEPT ![p] = new],
                On(p), new.pc # "off"
         PROVE  Tracking'
    <2>1. \A q \in Pollers : On(q)' <=> On(q)
      BY <1>11 DEF Shape, On
    <2> QED
      BY <1>11, <2>1, OtherShape DEF Single, PollerFollows, On
  <1>12. ASSUME NEW p \in Pollers, UNCHANGED running, Poller(p), On(p), NEW left, Goes(p, left) PROVE Tracking'
    <2>1. PICK x : poll' = [poll EXCEPT ![p] = x] /\ x.pc \in {"end", "status"}
      BY <1>12, GoesIs
    <2> QED
      BY <1>11, <1>12, <2>1
  <1>13. ASSUME NEW p \in Pollers, NEW answered \in BOOLEAN, PollStatus(p, answered) PROVE Tracking'
    <2>1. On(p) /\ Poller(p) /\ UNCHANGED running
      BY <1>13 DEF PollStatus, Poller, On, trackVars
    <2>2. (\E r, rec : Told(p, r, rec)) \/ \E left : Goes(p, left)
      BY <1>13 DEF PollStatus
    <2>3. ASSUME NEW r, NEW rec, Told(p, r, rec) PROVE Tracking'
      <3> DEFINE x == [pc |-> "observe", todo |-> poll[p].todo \ {r}, req |-> r, rec |-> rec, ev |-> None]
      <3>1. poll' = [poll EXCEPT ![p] = x] /\ x.pc # "off"
        BY <2>3 DEF Told
      <3> HIDE DEF x
      <3> QED
        BY <1>11, <2>1, <3>1
    <2> QED
      BY <1>12, <2>1, <2>2, <2>3
  <1>14. ASSUME NEW p \in Pollers, NEW saved \in BOOLEAN, PollObserve(p, saved) PROVE Tracking'
    <2>1. On(p) /\ Poller(p) /\ UNCHANGED running
      BY <1>14 DEF PollObserve, Poller, On
    <2>2. \/ \E x : poll' = [poll EXCEPT ![p] = x] /\ x.pc = "publish"
          \/ Goes(p, poll[p].todo)
      <3> DEFINE x == [poll[p] EXCEPT !.pc = "publish", !.ev = Ui(poll[p].rec)]
      <3>1. poll[p].pc = "observe" /\ (Goes(p, poll[p].todo) \/ poll' = [poll EXCEPT ![p] = x])
        BY <1>14 DEF PollObserve
      <3>2. x.pc = "publish"
        BY <3>1
      <3> HIDE DEF x
      <3> QED
        BY <3>1, <3>2
    <2> QED
      BY <1>11, <1>12, <2>1, <2>2
  <1>15. ASSUME NEW p \in Pollers, PollSnapshot(p) \/ PollPublish(p) PROVE Tracking'
    <2>1. On(p) /\ Poller(p) /\ UNCHANGED running /\ \E left : Goes(p, left)
      BY <1>15 DEF PollSnapshot, PollPublish, Poller, On, trackVars
    <2> QED
      BY <1>12, <2>1
  <1>16. ASSUME NEW readable \in BOOLEAN, Restart(readable) PROVE Tracking'
    <2>1. chan' \in [Sessions -> Seq(Reqs)]
      BY <1>16 DEF Restart
    <2>2. worker' \in [Sessions -> Working]
      BY <1>16, Records DEF Restart
    <2>3. PICK first \in Pollers :
            poll' = [p \in Pollers |-> IF p = first /\ items' # {} THEN Sleeping ELSE OffPoll]
      BY <1>16 DEF Restart
    <2>4. \A p \in Pollers : On(p)' <=> p = first /\ items' # {}
      BY <2>3, Records DEF On
    <2> QED
      BY <1>16, <2>1, <2>2, <2>3, <2>4 DEF Restart, Shape, Single, PollerFollows, On
  <1>17. ASSUME NEW r \in Reqs, PublishSent(r) \/ Answered(r) \/ Lost(r) \/ DeckStep(r) \/ Ages(r) PROVE Tracking'
    BY <1>1, <1>17 DEF PublishSent, Answered, Lost, DeckStep, Ages, trackVars
  <1> QED
    BY <1>1, <1>2, <1>3, <1>4, <1>5, <1>6, <1>7, <1>8, <1>9, <1>10, <1>13, <1>14, <1>15, <1>16, <1>17
       DEF Next, Worker, Poller, vars, trackVars

\* One loop is one by its cardinality, too.
LEMMA TrackedOnce == ASSUME Tracking PROVE OnePoller
  <1> SUFFICES ASSUME Single PROVE OnePoller
    BY DEF Tracking
  <1> DEFINE on == {p \in Pollers : poll[p].pc # "off"}
  <1>1. CASE on = {}
    BY <1>1, FS_EmptySet DEF Single, On, OnePoller
  <1>2. ASSUME NEW p \in on PROVE OnePoller
    <2>1. on = {p}
      BY DEF Single, On
    <2>2. Cardinality(on) = 1
      BY <2>1, FS_Singleton
    <2> QED
      BY <2>1, <2>2 DEF Single, On, OnePoller
  <1> QED
    BY <1>1, <1>2

\* One poll loop at most, and the flag says whether it runs.
THEOREM OnePollerThm == ASSUME QueueAssumption PROVE Spec => []OnePoller
  <1> QED
    BY InitTracking, StepTracking, TrackedOnce, PTL DEF Spec

\* No tracked send is left without a poller, or a worker about to start one.
THEOREM PollerFollowsThm == ASSUME QueueAssumption PROVE Spec => []PollerFollows
  <1>1. Tracking => PollerFollows
    BY DEF Tracking
  <1> QED
    BY InitTracking, StepTracking, <1>1, PTL DEF Spec

\* Whatever changes the open set writes it.
LEMMA FileStep == ASSUME FileIsTracker, [Next]_vars PROVE FileIsTracker'
  <1> USE DEF FileIsTracker
  <1>1. CASE UNCHANGED <<items, file, lossy, forgotten>>
    BY <1>1
  <1>2. ASSUME NEW s \in Sessions, NEW saved \in BOOLEAN, Track(s, saved) PROVE FileIsTracker'
    BY <1>2 DEF Track, Save, restVars
  <1>3. ASSUME NEW r, NEW rec, NEW saved \in BOOLEAN, Observe(r, rec, saved), UNCHANGED forgotten PROVE FileIsTracker'
    BY <1>3 DEF Observe, Save
  <1>4. ASSUME NEW s \in Sessions, TrackObserve(s) PROVE FileIsTracker'
    BY <1>3, <1>4 DEF TrackObserve, restVars
  <1>5. ASSUME NEW p \in Pollers, NEW saved \in BOOLEAN, PollObserve(p, saved) PROVE FileIsTracker'
    BY <1>3, <1>5 DEF PollObserve, restVars
  <1>6. ASSUME NEW readable \in BOOLEAN, Restart(readable) PROVE FileIsTracker'
    BY <1>6 DEF Restart
  <1>7. ASSUME NEW s \in Sessions,
               \/ Take(s) \/ EnqueueFailed(s) \/ TrackPublish(s) \/ TrackStart(s)
               \/ \E outcome \in {"queued", "rejected", "killed"} : Enqueue(s, outcome)
        PROVE  FileIsTracker'
    BY <1>1, <1>7 DEF Take, EnqueueFailed, TrackPublish, TrackStart, Enqueue, trackVars, restVars
  <1>8. ASSUME NEW p \in Pollers,
               PollSnapshot(p) \/ PollPublish(p) \/ PollEnd(p) \/ \E answered \in BOOLEAN : PollStatus(p, answered)
        PROVE  FileIsTracker'
    BY <1>1, <1>8 DEF PollSnapshot, PollPublish, PollEnd, PollStatus, trackVars, restVars
  <1>9. ASSUME NEW r \in Reqs, Ask(r) \/ PublishSent(r) \/ Answered(r) \/ Lost(r) \/ DeckStep(r) \/ Ages(r) PROVE FileIsTracker'
    BY <1>1, <1>9 DEF Ask, PublishSent, Answered, Lost, DeckStep, Ages, trackVars, restVars
  <1> QED
    BY <1>1, <1>2, <1>4, <1>5, <1>6, <1>7, <1>8, <1>9 DEF Next, Worker, Poller, vars, trackVars, restVars

\* Unless a write failed, the open set on disk is the tracker's, and what a start could not read.
THEOREM FileIsTrackerThm == Spec => []FileIsTracker
  <1>1. Init => FileIsTracker
    BY DEF Init, FileIsTracker
  <1> QED
    BY <1>1, FileStep, PTL DEF Spec

\* The tracker's flag, loop and file agree on the sends it follows.
THEOREM TrackerThm == ASSUME QueueAssumption PROVE Spec => []TrackerSound
  <1>1. OnePoller /\ PollerFollows /\ FileIsTracker => TrackerSound
    BY DEF TrackerSound
  <1> QED
    BY OnePollerThm, PollerFollowsThm, FileIsTrackerThm, <1>1, PTL
-----------------------------------------------------------------------------
(* What a phone is told to retry was never typed, and no send is forgotten before its fate is known. *)

(* A send that the tracker, the file, a worker or the poll loop holds has an id, so the loop always    *)
(* finds the oldest of those it has left, and the place of a send is among the ids.                    *)
Handed == {"track", "observe", "publish", "start"}

Polled(x) ==
    /\ x.pc \in {"off", "sleep", "status", "observe", "publish", "end"}
    /\ x.todo \subseteq Range(ids) /\ (x.pc = "status" => x.todo # {})
    /\ x.req \in Reqs \cup {None} /\ (x.pc \in {"observe", "publish"} => x.req \in Range(ids))
    /\ x.rec \in DeckStates \cup {None} /\ x.ev \in UiStates \cup {None}

Listing ==
    /\ ids \in Seq(Reqs) /\ IsInjective(ids)
    /\ \A r \in Range(ids) : deck[r] # None
    /\ items \subseteq Range(ids) /\ file \subseteq Range(ids)
    /\ \A s \in Sessions : worker[s].pc \in Handed => worker[s].req \in Range(ids)
    /\ \A p \in Pollers : Polled(poll[p])

Tables ==
    /\ Shape
    /\ phone \in [Reqs -> {"unsent", "accepted", "told", "done", "refused"}]
    /\ deck \in [Reqs -> DeckStates \cup {None}]
    /\ conv \in [Sessions -> Seq(Reqs)]
    /\ bubble = [r \in Reqs |-> bubble[r]] /\ tag = [r \in Reqs |-> tag[r]]
    /\ items \in SUBSET Reqs /\ file \in SUBSET Reqs /\ restarts \in Nat

InChan(r) == \E i \in DOMAIN chan[Of[r]] : chan[Of[r]][i] = r
InWork(r, step) == worker[Of[r]].pc = step /\ worker[Of[r]].req = r
Waits(r) == InChan(r) \/ InWork(r, "enqueue")
NotSent(r) == phone[r] \in {"unsent", "refused"}

\* A message stays with its session, in one place.
Placed ==
    /\ \A s \in Sessions : /\ \A i \in DOMAIN chan[s] : Of[chan[s][i]] = s
                           /\ worker[s].pc # "idle" => worker[s].req \in Reqs /\ Of[worker[s].req] = s
                           /\ worker[s].pc = "publish" => worker[s].ev = "queued"
                           /\ \A i, j \in DOMAIN chan[s] : chan[s][i] = chan[s][j] => i = j
    /\ \A r \in Reqs : ~(InChan(r) /\ InWork(r, "enqueue"))
    /\ \A r \in Reqs : NotSent(r) => ~Waits(r)

\* What has not been handed to agent-deck is not in its queue.
NotYet ==
    /\ \A r \in Reqs : NotSent(r) \/ Waits(r) => deck[r] = None /\ ~InWork(r, "fail")
    /\ \A r \in Reqs \ killed : InWork(r, "fail") => deck[r] = None

\* A poll loop that was told a final state was told what is still so, or the send is old.
Truthful ==
    \A p \in Pollers :
        LET r == poll[p].req IN
        /\ poll[p].pc \in {"observe", "publish"} /\ r \in Reqs =>
             /\ poll[p].rec = "failed" => deck[r] = "failed"
             /\ poll[p].rec \in Settled => deck[r] \in Settled \/ r \in old
        /\ poll[p].pc = "publish" => poll[p].ev = Ui(poll[p].rec)

\* agent-deck never had it and never will, or gave it up before typing.
Gone(r) == deck[r] \in {None, "failed"} /\ ~Waits(r) /\ phone[r] # "unsent"

\* A bubble that failed is of a message that was refused, or shows the fate of the one it bears the id of.
Justly(b) ==
    \/ tag[b] = None /\ phone[b] = "refused"
    \/ \E t \in Reqs : tag[b] = t /\ (t \in killed \/ Gone(t))

Pages ==
    /\ tag \in [Reqs -> Reqs \cup {None}]
    /\ \A s \in Sessions : \A i \in DOMAIN conv[s] : phone[conv[s][i]] # "unsent"
    /\ \A b \in Reqs : phone[b] = "unsent" => tag[b] = None
    /\ \A b \in Reqs \ cut : bubble[b] = "failed" => Justly(b)

Retrying == Tables /\ Placed /\ NotYet /\ Listing /\ Truthful /\ Pages

\* agent-deck's states, and which of them are final.
LEMMA DeckTerminal ==
  /\ Settled \subseteq DeckStates
  /\ \A m \in DeckMoves : m[1] \notin Settled /\ m[1] # "failed" /\ m[1] \in DeckStates /\ m[2] \in DeckStates
  /\ "queued" \in DeckStates /\ "failed" \in Settled /\ "typedSettled" \in Settled
  BY DEF Settled, DeckStates, DeckMoves

\* What the phone is shown of a state that is final.
LEMMA UiFacts ==
  ASSUME NEW rec
  PROVE  /\ Ui(rec) = "failed" => rec = "failed"
         /\ Ui(rec) \in FinalUi => rec \in Settled
  BY DEF Ui, FinalUi, Settled

\* A set of natural numbers has a least one.
LEMMA MinIs ==
  ASSUME NEW T, T \subseteq Nat, T # {}
  PROVE  Min(T) \in T /\ \A n \in T : Min(T) <= n
  <1> DEFINE R == {e \in Nat \X Nat : e[1] < e[2]}
  <1>1. IsWellFoundedOn(R, Nat)
    BY NatLessThanWellFounded DEF OpToRel
  <1>2. PICK n \in T : \A k \in T : ~ (<<k, n>> \in R)
    <2> HIDE DEF R
    <2> QED
      BY <1>1, WFMin
  <1>3. \A k \in T : ~ (k < n)
    BY <1>2
  <1>4. \A k \in T : n <= k
    <2> HIDE DEF R
    <2> QED
      BY <1>3
  <1> QED
    BY <1>4 DEF Min

\* A set of places has a last one.
LEMMA MaxIs ==
  ASSUME NEW n \in Nat, NEW T, T \subseteq 1..n, T # {}
  PROVE  Max(T) \in T
  <1> DEFINE U == {n - i : i \in T}
  <1>1. U \subseteq Nat /\ U # {}
    <2>1. \A i \in T : n - i \in Nat
      OBVIOUS
    <2> QED
      BY <2>1
  <1>2. Min(U) \in U /\ \A k \in U : Min(U) <= k
    BY <1>1, MinIs
  <1>3. PICK m \in T : Min(U) = n - m
    BY <1>2
  <1>4. \A i \in T : n - m <= n - i
    BY <1>2, <1>3
  <1>5. \A i \in T : m >= i
    BY <1>4
  <1> QED
    BY <1>5 DEF Max

\* An event touches bubbles and their ids, nothing else on the page.
LEMMA ShowShape ==
  ASSUME Tables, NEW r, NEW state, Show(r, state)
  PROVE  /\ bubble' = [q \in Reqs |-> bubble'[q]] /\ tag' = [q \in Reqs |-> tag'[q]]
         /\ UNCHANGED <<conv, cut>>
  BY DEF Tables, Show

\* The bubble an event is for bears its id, or bears none and still says "sent".
LEMMA TargetIs ==
  ASSUME QueueAssumption, Tables, Pages, NEW r \in Reqs, Target(r) # None
  PROVE  \E b \in Reqs : b = Target(r) /\ phone[b] # "unsent" /\ (tag[b] = r \/ tag[b] = None)
  <1> DEFINE page == conv[Of[r]]
             bearers == {i \in DOMAIN page : tag[page[i]] = r}
             unnamed == {i \in DOMAIN page : tag[page[i]] = None /\ bubble[page[i]] = "sent"}
  <1>1. page \in Seq(Reqs) /\ \A i \in DOMAIN page : phone[page[i]] # "unsent"
    BY DEF QueueAssumption, Tables, Pages
  <1> HIDE DEF page
  <1>2. DOMAIN page = 1..Len(page) /\ Len(page) \in Nat /\ \A i \in DOMAIN page : page[i] \in Reqs
    BY <1>1
  <1>3. Target(r) = IF bearers # {} THEN page[Max(bearers)]
                    ELSE IF unnamed # {} THEN page[Min(unnamed)] ELSE None
    BY DEF Target, page
  <1>4. CASE bearers # {}
    <2>1. Max(bearers) \in bearers
      BY <1>2, <1>4, MaxIs
    <2> QED
      BY <1>1, <1>2, <1>3, <1>4, <2>1
  <1>5. CASE bearers = {}
    <2>1. unnamed # {} /\ unnamed \subseteq Nat
      BY <1>2, <1>3, <1>5
    <2>2. Min(unnamed) \in unnamed
      BY <2>1, MinIs
    <2> QED
      BY <1>1, <1>2, <1>3, <1>5, <2>1, <2>2
  <1> QED
    BY <1>4, <1>5

\* One event changes one bubble, and names it.
LEMMA ShowIs ==
  ASSUME QueueAssumption, Tables, Pages, NEW r \in Reqs, NEW state, Show(r, state), NEW q \in Reqs
  PROVE  \/ tag'[q] = tag[q] /\ bubble'[q] = bubble[q]
         \/ /\ tag'[q] = r /\ phone[q] # "unsent"
            /\ (bubble'[q] = state \/ bubble'[q] = "delivered")
  <1>1. CASE Target(r) = None
    BY <1>1 DEF Show
  <1>2. CASE Target(r) # None
    <2>1. PICK b \in Reqs : b = Target(r) /\ phone[b] # "unsent"
      BY <1>2, TargetIs
    <2>2. /\ tag' = [tag EXCEPT ![b] = r]
          /\ bubble' = IF bubble[b] = "delivered" THEN bubble ELSE [bubble EXCEPT ![b] = state]
      BY <1>2, <2>1 DEF Show
    <2> QED
      BY <2>1, <2>2 DEF Tables
  <1> QED
    BY <1>1, <1>2

\* The tables keep their shape.
LEMMA TablesStep ==
  ASSUME QueueAssumption, Tables, Placed, Shape', [Next]_vars
  PROVE  Tables'
  <1> DEFINE Good == /\ phone' \in [Reqs -> {"unsent", "accepted", "told", "done", "refused"}]
                     /\ deck' \in [Reqs -> DeckStates \cup {None}]
                     /\ conv' \in [Sessions -> Seq(Reqs)]
                     /\ bubble' = [r \in Reqs |-> bubble'[r]] /\ tag' = [r \in Reqs |-> tag'[r]]
                     /\ items' \in SUBSET Reqs /\ file' \in SUBSET Reqs /\ restarts' \in Nat
  <1>1. ASSUME NEW r \in Reqs, Ask(r) PROVE Good
    <2>1. Of[r] \in Sessions /\ conv[Of[r]] \in Seq(Reqs)
      BY DEF QueueAssumption, Tables
    <2>2. conv' \in [Sessions -> Seq(Reqs)]
      BY <1>1, <2>1, AppendProperties DEF Ask, Tables
    <2> QED
      BY <1>1, <2>2 DEF Ask, Tables, deckVars, trackVars, restVars
  <1>2. ASSUME NEW r \in Reqs, PublishSent(r) PROVE Good
    BY <1>2, ShowShape DEF PublishSent, Tables, deckVars, trackVars, restVars
  <1>16. ASSUME NEW r \in Reqs, Answered(r) \/ Lost(r) \/ Ages(r) PROVE Good
    BY <1>16 DEF Answered, Lost, Ages, Tables, deckVars, trackVars, restVars, pageVars
  <1>3. ASSUME NEW r \in Reqs, DeckStep(r) PROVE Good
    BY <1>3, DeckTerminal DEF DeckStep, Tables, trackVars, restVars, pageVars
  <1>4. ASSUME NEW s \in Sessions, Take(s) \/ TrackStart(s) PROVE Good
    BY <1>4 DEF Take, TrackStart, Tables, deckVars, trackVars, restVars, pageVars
  <1>5. ASSUME NEW s \in Sessions, NEW outcome, Enqueue(s, outcome) PROVE Good
    <2>1. /\ deck' = deck \/ deck' = [deck EXCEPT ![worker[s].req] = "queued"]
          /\ UNCHANGED <<phone, conv, bubble, tag, items, file, restarts>>
      BY <1>5 DEF Enqueue, deckVars, trackVars, pageVars
    <2>2. deck' \in [Reqs -> DeckStates \cup {None}]
      BY <2>1, DeckTerminal DEF Tables
    <2> QED
      BY <2>1, <2>2 DEF Tables
  <1>6. ASSUME NEW s \in Sessions, EnqueueFailed(s) \/ TrackPublish(s) PROVE Good
    BY <1>6, ShowShape DEF EnqueueFailed, TrackPublish, Tables, deckVars, trackVars, restVars
  <1>7. ASSUME NEW s \in Sessions, NEW saved \in BOOLEAN, Track(s, saved) PROVE Good
    BY <1>7 DEF Track, Save, Tables, Placed, deckVars, restVars, pageVars
  <1>8. ASSUME NEW r, NEW rec, NEW saved \in BOOLEAN, Observe(r, rec, saved)
        PROVE  items' \in SUBSET Reqs /\ file' \in SUBSET Reqs
    BY <1>8 DEF Observe, Save, Tables
  <1>9. ASSUME NEW s \in Sessions, TrackObserve(s) PROVE Good
    BY <1>8, <1>9 DEF TrackObserve, Tables, deckVars, restVars, pageVars
  <1>10. ASSUME NEW p \in Pollers, NEW saved \in BOOLEAN, PollObserve(p, saved) PROVE Good
    BY <1>8, <1>10 DEF PollObserve, Tables, deckVars, restVars, pageVars
  <1>11. ASSUME NEW p \in Pollers, PollPublish(p) PROVE Good
    BY <1>11, ShowShape DEF PollPublish, Tables, deckVars, trackVars, restVars
  <1>12. ASSUME NEW p \in Pollers,
                PollSnapshot(p) \/ PollEnd(p) \/ \E answered \in BOOLEAN : PollStatus(p, answered)
         PROVE  Good
    BY <1>12 DEF PollSnapshot, PollEnd, PollStatus, Tables, deckVars, trackVars, restVars, pageVars
  <1>13. ASSUME NEW readable \in BOOLEAN, Restart(readable) PROVE Good
    BY <1>13 DEF Restart, Tables, deckVars
  <1>14. ASSUME UNCHANGED vars PROVE Good
    BY <1>14 DEF vars, Tables, deckVars, trackVars, restVars, pageVars
  <1>15. Good
    BY <1>1, <1>2, <1>16, <1>3, <1>4, <1>5, <1>6, <1>7, <1>9, <1>10, <1>11, <1>12, <1>13, <1>14 DEF Next, Worker, Poller
  <1> QED
    BY <1>15 DEF Tables

\* Where the messages are after a step.
LEMMA Whereabouts ==
  ASSUME QueueAssumption, Tables, Placed, Shape', [Next]_vars
  PROVE  /\ Placed'
         /\ \A q \in Reqs :
              /\ (phone'[q] = "unsent" => phone[q] = "unsent") /\ (NotSent(q)' => NotSent(q))
              /\ Waits(q)' => Waits(q) \/ phone[q] = "unsent"
              /\ InWork(q, "fail")' => \/ InWork(q, "fail")
                                      \/ \E s \in Sessions, outcome \in {"queued", "rejected", "killed"} :
                                            Enqueue(s, outcome) /\ q = worker[s].req
  <1> DEFINE Good == /\ Placed'
                     /\ \A q \in Reqs :
                          /\ (phone'[q] = "unsent" => phone[q] = "unsent") /\ (NotSent(q)' => NotSent(q))
                          /\ Waits(q)' => Waits(q) \/ phone[q] = "unsent"
                          /\ InWork(q, "fail")' =>
                               \/ InWork(q, "fail")
                               \/ \E s \in Sessions, outcome \in {"queued", "rejected", "killed"} :
                                     Enqueue(s, outcome) /\ q = worker[s].req
  <1>0. /\ chan \in [Sessions -> Seq(Reqs)] /\ worker \in [Sessions -> Working]
        /\ \A r \in Reqs : Of[r] \in Sessions
        /\ chan' \in [Sessions -> Seq(Reqs)] /\ worker' \in [Sessions -> Working]
    BY DEF Tables, Shape, QueueAssumption
  <1>1. ASSUME UNCHANGED <<chan, worker>>,
               \A q \in Reqs : (phone'[q] = "unsent" => phone[q] = "unsent") /\ (NotSent(q)' => NotSent(q))
        PROVE  Good
    BY <1>1 DEF Placed, Waits, InChan, InWork
  <1>2. ASSUME NEW r \in Reqs, Ask(r), UNCHANGED chan PROVE Good
    BY <1>1, <1>2 DEF Ask, Tables, NotSent
  <1>3. ASSUME NEW r \in Reqs, Ask(r), chan' # chan PROVE Good
    <2> DEFINE s == Of[r]
    <2>1. /\ chan' = [chan EXCEPT ![s] = Append(chan[s], r)] /\ worker' = worker
          /\ phone[r] = "unsent" /\ phone' = [phone EXCEPT ![r] = "accepted"]
      BY <1>3 DEF Ask
    <2>2. /\ DOMAIN chan'[s] = DOMAIN chan[s] \cup {Len(chan[s]) + 1}
          /\ \A i \in DOMAIN chan[s] : chan'[s][i] = chan[s][i]
          /\ chan'[s][Len(chan[s]) + 1] = r
          /\ \A x \in Sessions \ {s} : chan'[x] = chan[x]
      BY <1>0, <2>1
    <2>3. ~InChan(r) /\ ~InWork(r, "enqueue")
      BY <2>1 DEF Placed, Waits, NotSent
    <2>4. \A q \in Reqs : /\ InChan(q)' => InChan(q) \/ q = r
                          /\ \A step : InWork(q, step)' <=> InWork(q, step)
      BY <1>0, <2>1, <2>2 DEF InChan, InWork
    <2>5. \A q \in Reqs : /\ phone'[q] = "unsent" => phone[q] = "unsent"
                          /\ NotSent(q)' => NotSent(q) /\ q # r
      BY <2>1 DEF Tables, NotSent
    <2>6. \A x \in Sessions : /\ \A i \in DOMAIN chan'[x] : Of[chan'[x][i]] = x
                              /\ \A i, j \in DOMAIN chan'[x] : chan'[x][i] = chan'[x][j] => i = j
      <3>1. \A i \in DOMAIN chan[s] : chan[s][i] # r
        BY <2>3 DEF InChan
      <3> QED
        BY <2>2, <3>1 DEF Placed
    <2> QED
      BY <2>1, <2>3, <2>4, <2>5, <2>6 DEF Placed, Waits
  <1>4. ASSUME NEW s \in Sessions, Take(s) PROVE Good
    <2> DEFINE r == Head(chan[s])
               w == [pc |-> "enqueue", req |-> Head(chan[s]), ev |-> None]
    <2>1. /\ chan' = [chan EXCEPT ![s] = Tail(chan[s])] /\ worker' = [worker EXCEPT ![s] = w]
          /\ phone' = phone /\ chan[s] # <<>> /\ worker[s].pc = "idle"
      BY <1>4 DEF Take
    <2>2. /\ r \in Reqs /\ r = chan[s][1] /\ 1 \in DOMAIN chan[s] /\ Len(chan[s]) \in Nat
          /\ DOMAIN chan'[s] = 1..(Len(chan[s]) - 1) /\ DOMAIN chan[s] = 1..Len(chan[s])
          /\ \A i \in DOMAIN chan'[s] : chan'[s][i] = chan[s][i + 1]
          /\ \A x \in Sessions \ {s} : chan'[x] = chan[x]
      BY <1>0, <2>1, HeadTailProperties
    <2>3. /\ worker'[s].pc = "enqueue" /\ worker'[s].req = r
          /\ \A x \in Sessions \ {s} : worker'[x] = worker[x]
      BY <1>0, <2>1
    <2> HIDE DEF r, w
    <2>4. Of[r] = s
      BY <2>2 DEF Placed
    <2>5. \A q \in Reqs : /\ InChan(q)' => InChan(q) /\ q # r
                          /\ InWork(q, "enqueue")' => InWork(q, "enqueue") \/ q = r
                          /\ InWork(q, "fail")' => InWork(q, "fail")
      <3>1. SUFFICES ASSUME NEW q \in Reqs
                     PROVE  /\ InChan(q)' => InChan(q) /\ q # r
                            /\ InWork(q, "enqueue")' => InWork(q, "enqueue") \/ q = r
                            /\ InWork(q, "fail")' => InWork(q, "fail")
        OBVIOUS
      <3>2. CASE Of[q] # s
        BY <1>0, <2>2, <2>3, <2>4, <3>2 DEF InChan, InWork
      <3>3. CASE Of[q] = s
        <4>1. ASSUME InChan(q)' PROVE InChan(q) /\ q # r
          <5>1. PICK i \in DOMAIN chan'[s] : chan'[s][i] = q
            BY <3>3, <4>1 DEF InChan
          <5>2. i + 1 \in DOMAIN chan[s] /\ chan[s][i + 1] = q /\ i + 1 # 1
            BY <2>2, <5>1
          <5> QED
            BY <2>2, <3>3, <5>2 DEF InChan, Placed
        <4> QED
          BY <2>3, <3>3, <4>1 DEF InWork
      <3> QED
        BY <3>2, <3>3
    <2>6. InChan(r)
      BY <2>2, <2>4 DEF InChan
    <2>7. \A x \in Sessions : /\ \A i \in DOMAIN chan'[x] : Of[chan'[x][i]] = x
                              /\ \A i, j \in DOMAIN chan'[x] : chan'[x][i] = chan'[x][j] => i = j
      <3>1. \A i \in DOMAIN chan'[s] : i + 1 \in DOMAIN chan[s] /\ i \in Nat /\ chan'[s][i] = chan[s][i + 1]
        BY <2>2
      <3>2. \A i \in DOMAIN chan'[s] : Of[chan'[s][i]] = s
        BY <3>1 DEF Placed
      <3>3. \A i, j \in DOMAIN chan'[s] : chan'[s][i] = chan'[s][j] => i = j
        <4> SUFFICES ASSUME NEW i \in DOMAIN chan'[s], NEW j \in DOMAIN chan'[s], chan'[s][i] = chan'[s][j]
                     PROVE  i = j
          OBVIOUS
        <4>1. i + 1 = j + 1
          BY <3>1 DEF Placed
        <4> QED
          BY <3>1, <4>1
      <3> QED
        BY <2>2, <3>2, <3>3 DEF Placed
    <2>8. \A x \in Sessions : /\ worker'[x].pc # "idle" => worker'[x].req \in Reqs /\ Of[worker'[x].req] = x
                              /\ worker'[x].pc = "publish" => worker'[x].ev = "queued"
      BY <2>2, <2>3, <2>4 DEF Placed
    <2>9. \A q \in Reqs : ~(InChan(q)' /\ InWork(q, "enqueue")') /\ (NotSent(q)' => ~Waits(q)')
      BY <2>1, <2>5, <2>6 DEF Placed, Waits, NotSent
    <2> QED
      BY <2>1, <2>5, <2>6, <2>7, <2>8, <2>9 DEF Placed, Waits, NotSent
  <1>5. ASSUME NEW s \in Sessions, UNCHANGED <<chan, phone>>, worker[s].pc # "idle",
               \A x \in Sessions \ {s} : worker'[x] = worker[x],
               \/ worker'[s] = IdleWorker
               \/ /\ worker'[s].req = worker[s].req /\ worker'[s].pc \notin {"enqueue", "fail"}
                  /\ worker'[s].pc = "publish" => worker'[s].ev = "queued"
               \/ /\ worker'[s].req = worker[s].req /\ worker'[s].pc = "fail"
                  /\ \E outcome \in {"queued", "rejected", "killed"} : Enqueue(s, outcome)
        PROVE  Good
    <2>1. \A q \in Reqs : /\ InChan(q)' <=> InChan(q)
                          /\ InWork(q, "enqueue")' => InWork(q, "enqueue")
                          /\ InWork(q, "fail")' => \/ InWork(q, "fail")
                                                  \/ \E outcome \in {"queued", "rejected", "killed"} :
                                                        Enqueue(s, outcome) /\ q = worker[s].req
      BY <1>0, <1>5, Records DEF InChan, InWork
    <2>2. \A x \in Sessions : /\ worker'[x].pc # "idle" => worker'[x].req \in Reqs /\ Of[worker'[x].req] = x
                              /\ worker'[x].pc = "publish" => worker'[x].ev = "queued"
      BY <1>5, Records DEF Placed
    <2> QED
      BY <1>5, <2>1, <2>2 DEF Placed, Waits, NotSent
  <1>6. ASSUME NEW s \in Sessions, NEW outcome \in {"queued", "rejected", "killed"}, Enqueue(s, outcome) PROVE Good
    <2>1. /\ worker'[s].req = worker[s].req /\ worker'[s].pc \in {"track", "fail"} /\ worker[s].pc = "enqueue"
          /\ \A x \in Sessions \ {s} : worker'[x] = worker[x]
      BY <1>0, <1>6 DEF Enqueue, Working
    <2> QED
      BY <1>5, <1>6, <2>1 DEF Enqueue
  <1>7. ASSUME NEW s \in Sessions,
               \/ EnqueueFailed(s) \/ (\E saved \in BOOLEAN : Track(s, saved)) \/ TrackObserve(s)
               \/ TrackPublish(s) \/ TrackStart(s)
        PROVE  Good
    <2>1. /\ UNCHANGED <<chan, phone>> /\ worker[s].pc # "idle"
          /\ \A x \in Sessions \ {s} : worker'[x] = worker[x]
      BY <1>0, <1>7 DEF EnqueueFailed, Track, TrackObserve, TrackPublish, TrackStart
    <2>2. \/ worker'[s] = IdleWorker
          \/ /\ worker'[s].req = worker[s].req /\ worker'[s].pc \notin {"enqueue", "fail"}
             /\ worker'[s].pc = "publish" => worker'[s].ev = "queued"
      <3>1. CASE EnqueueFailed(s) \/ TrackStart(s)
        BY <1>0, <3>1 DEF EnqueueFailed, TrackStart
      <3>2. CASE (\E saved \in BOOLEAN : Track(s, saved)) \/ TrackPublish(s)
        <4>1. PICK pc \in {"observe", "start"} : worker' = [worker EXCEPT ![s].pc = pc]
          BY <3>2 DEF Track, TrackPublish
        <4> QED
          BY <1>0, <4>1 DEF Working
      <3>3. CASE TrackObserve(s)
        <4>1. PICK pc \in {"publish", "start"} : worker' = [worker EXCEPT ![s].pc = pc, ![s].ev = "queued"]
          BY <3>3 DEF TrackObserve
        <4> QED
          BY <1>0, <4>1 DEF Working
      <3> QED
        BY <1>7, <3>1, <3>2, <3>3
    <2> QED
      BY <1>5, <2>1, <2>2
  <1>8. ASSUME NEW readable \in BOOLEAN, Restart(readable) PROVE Good
    <2>1. /\ \A x \in Sessions : chan'[x] = <<>> /\ worker'[x] = IdleWorker
          /\ \A q \in Reqs : (phone'[q] = "unsent" => phone[q] = "unsent") /\ (NotSent(q)' => NotSent(q))
      BY <1>8 DEF Restart, NotSent
    <2>2. \A q \in Reqs : ~InChan(q)' /\ ~InWork(q, "enqueue")' /\ ~InWork(q, "fail")'
      BY <1>0, <2>1, Records DEF InChan, InWork
    <2> QED
      BY <2>1, <2>2, Records DEF Placed, Waits
  <1>9. ASSUME NEW r \in Reqs, PublishSent(r) \/ Answered(r) \/ Lost(r) \/ DeckStep(r) \/ Ages(r) PROVE Good
    BY <1>1, <1>9 DEF PublishSent, Answered, Lost, DeckStep, Ages, Tables, NotSent
  <1>10. ASSUME NEW p \in Pollers, Poller(p) PROVE Good
    BY <1>1, <1>10 DEF Poller, PollSnapshot, PollStatus, PollObserve, PollPublish, PollEnd, NotSent
  <1>11. ASSUME UNCHANGED vars PROVE Good
    BY <1>1, <1>11 DEF vars, NotSent
  <1> HIDE DEF Good
  <1>12. Good
    BY <1>2, <1>3, <1>4, <1>6, <1>7, <1>8, <1>9, <1>10, <1>11 DEF Next, Worker
  <1> QED
    BY <1>12 DEF Good

\* A message that a worker hands over was waiting, and no longer waits.
LEMMA HandOver ==
  ASSUME QueueAssumption, Tables, Placed, Shape', NEW s \in Sessions,
         NEW outcome \in {"queued", "rejected", "killed"}, Enqueue(s, outcome)
  PROVE  /\ worker[s].req \in Reqs
         /\ \A r \in Reqs : r = worker[s].req =>
              /\ Waits(r) /\ ~Waits(r)' /\ ~NotSent(r)' /\ ~InWork(r, "fail")
              /\ deck' = deck \/ (outcome # "rejected" /\ deck' = [deck EXCEPT ![r] = "queued"])
              /\ outcome = "killed" => r \in killed'
              /\ outcome = "queued" => ~InWork(r, "fail")'
  <1>0. worker[s].req \in Reqs
    BY DEF Enqueue, Placed
  <1> SUFFICES ASSUME NEW r \in Reqs, r = worker[s].req
               PROVE  /\ Waits(r) /\ ~Waits(r)' /\ ~NotSent(r)' /\ ~InWork(r, "fail")
                      /\ deck' = deck \/ (outcome # "rejected" /\ deck' = [deck EXCEPT ![r] = "queued"])
                      /\ outcome = "killed" => r \in killed'
                      /\ outcome = "queued" => ~InWork(r, "fail")'
    BY <1>0
  <1>1. Of[r] = s /\ worker[s].pc = "enqueue"
    BY DEF Enqueue, Placed
  <1>2. /\ chan' = chan /\ phone' = phone
        /\ worker'[s].req = r /\ worker'[s].pc = IF outcome = "queued" THEN "track" ELSE "fail"
    BY DEF Enqueue, Tables, Shape, Working
  <1>3. Waits(r) /\ ~InChan(r) /\ ~NotSent(r) /\ ~InWork(r, "fail")
    BY <1>1 DEF Waits, InWork, Placed
  <1>4. ~Waits(r)' /\ (outcome = "queued" => ~InWork(r, "fail")')
    BY <1>1, <1>2, <1>3 DEF Waits, InWork, InChan
  <1>5. /\ deck' = deck \/ (outcome # "rejected" /\ deck' = [deck EXCEPT ![r] = "queued"])
        /\ outcome = "killed" => r \in killed'
    BY DEF Enqueue, deckVars
  <1> QED
    BY <1>3, <1>4, <1>5, <1>2 DEF NotSent

\* What may change in agent-deck's queue.
LEMMA DeckChange ==
  ASSUME QueueAssumption, Tables, Placed, Shape', [Next]_vars, NEW q \in Reqs
  PROVE  /\ \/ deck'[q] = deck[q]
            \/ deck[q] \in DeckStates \ Settled /\ deck[q] # "failed"
            \/ \E s \in Sessions, outcome \in {"queued", "killed"} : Enqueue(s, outcome) /\ q = worker[s].req
         /\ killed \subseteq killed' /\ old \subseteq old'
  <1> DEFINE Good == /\ \/ deck'[q] = deck[q]
                        \/ deck[q] \in DeckStates \ Settled /\ deck[q] # "failed"
                        \/ \E s \in Sessions, outcome \in {"queued", "killed"} :
                              Enqueue(s, outcome) /\ q = worker[s].req
                     /\ killed \subseteq killed' /\ old \subseteq old'
  <1>1. ASSUME NEW r \in Reqs, DeckStep(r) PROVE Good
    BY <1>1, DeckTerminal DEF DeckStep, Tables, restVars
  <1>2. ASSUME NEW s \in Sessions, NEW outcome \in {"queued", "rejected", "killed"}, Enqueue(s, outcome) PROVE Good
    <2>1. deck' = deck \/ (outcome # "rejected" /\ deck' = [deck EXCEPT ![worker[s].req] = "queued"])
      BY <1>2, HandOver
    <2>2. killed \subseteq killed' /\ old \subseteq old'
      BY <1>2 DEF Enqueue
    <2>3. CASE deck'[q] = deck[q]
      BY <2>2, <2>3
    <2>4. CASE deck'[q] # deck[q]
      <3>1. q = worker[s].req /\ outcome \in {"queued", "killed"}
        BY <2>1, <2>4 DEF Tables
      <3> QED
        BY <1>2, <2>2, <3>1
    <2> QED
      BY <2>3, <2>4
  <1>3. ASSUME UNCHANGED <<deck, killed>>, old \subseteq old' PROVE Good
    BY <1>3
  <1>4. ASSUME NEW r \in Reqs, Ask(r) \/ PublishSent(r) \/ Answered(r) \/ Lost(r) \/ Ages(r) PROVE Good
    BY <1>3, <1>4 DEF Ask, PublishSent, Answered, Lost, Ages, deckVars, restVars
  <1>5. ASSUME NEW s \in Sessions,
               \/ Take(s) \/ EnqueueFailed(s) \/ (\E saved \in BOOLEAN : Track(s, saved)) \/ TrackObserve(s)
               \/ TrackPublish(s) \/ TrackStart(s)
        PROVE  Good
    BY <1>3, <1>5 DEF Take, EnqueueFailed, Track, TrackObserve, TrackPublish, TrackStart, deckVars, restVars
  <1>6. ASSUME NEW p \in Pollers, Poller(p) PROVE Good
    BY <1>3, <1>6 DEF Poller, PollSnapshot, PollStatus, PollObserve, PollPublish, PollEnd, deckVars, restVars
  <1>7. ASSUME (\E readable \in BOOLEAN : Restart(readable)) \/ UNCHANGED vars PROVE Good
    BY <1>3, <1>7 DEF Restart, vars, deckVars, restVars
  <1> HIDE DEF Good
  <1>8. Good
    BY <1>1, <1>2, <1>4, <1>5, <1>6, <1>7 DEF Next, Worker
  <1> QED
    BY <1>8 DEF Good

\* What was not handed over stays out of the queue.
LEMMA NotYetStep ==
  ASSUME QueueAssumption, Tables, Placed, NotYet, Shape', [Next]_vars
  PROVE  NotYet'
  <1>0. None \notin DeckStates
    BY DEF QueueAssumption
  <1>1. ASSUME NEW s \in Sessions, NEW outcome \in {"queued", "rejected", "killed"}, Enqueue(s, outcome)
        PROVE  \A q \in Reqs : q = worker[s].req =>
                 /\ deck[q] = None
                 /\ ~Waits(q)' /\ ~NotSent(q)' /\ ~InWork(q, "fail")
                 /\ outcome = "killed" => q \in killed'
                 /\ outcome = "queued" => ~InWork(q, "fail")'
                 /\ outcome = "rejected" => deck' = deck
    BY <1>1, HandOver DEF NotYet
  <1>2. ASSUME NEW q \in Reqs, NotSent(q)' \/ Waits(q)'
        PROVE  deck'[q] = None /\ ~InWork(q, "fail")'
    <2>1. NotSent(q) \/ Waits(q)
      BY <1>2, Whereabouts DEF NotSent
    <2>2. deck[q] = None /\ ~InWork(q, "fail")
      BY <2>1 DEF NotYet
    <2>3. \A s \in Sessions, outcome \in {"queued", "rejected", "killed"} : Enqueue(s, outcome) => q # worker[s].req
      BY <1>1, <1>2
    <2>4. deck'[q] = None
      BY <1>0, <2>2, <2>3, DeckChange
    <2>5. ~InWork(q, "fail")'
      BY <2>2, <2>3, Whereabouts
    <2> QED
      BY <2>4, <2>5
  <1>3. ASSUME NEW q \in Reqs \ killed', InWork(q, "fail")' PROVE deck'[q] = None
    <2>0. q \notin killed
      BY DeckChange
    <2>1. CASE InWork(q, "fail")
      <3>1. deck[q] = None
        BY <2>0, <2>1 DEF NotYet
      <3>2. \A s \in Sessions, outcome \in {"queued", "rejected", "killed"} : Enqueue(s, outcome) => q # worker[s].req
        BY <1>1, <2>1
      <3> QED
        BY <1>0, <3>1, <3>2, DeckChange
    <2>2. ASSUME NEW s \in Sessions, NEW outcome \in {"queued", "rejected", "killed"}, Enqueue(s, outcome),
                 q = worker[s].req
          PROVE  deck'[q] = None
      BY <1>1, <1>3, <2>2
    <2> QED
      BY <1>3, <2>1, <2>2, Whereabouts
  <1> QED
    BY <1>2, <1>3 DEF NotYet

\* The oldest of some sends with ids is one of them.
LEMMA OldestIs ==
  ASSUME ids \in Seq(Reqs), NEW open, open \subseteq Range(ids), open # {}
  PROVE  Oldest(open) \in open
  <1> DEFINE places == {i \in DOMAIN ids : ids[i] \in open}
  <1>1. places \subseteq Nat /\ places # {}
    BY DEF Range
  <1>2. Min(places) \in places
    BY <1>1, MinIs
  <1> QED
    BY <1>2 DEF Oldest

\* A place is counted among the ids.
LEMMA PlaceIs ==
  ASSUME ids \in Seq(Reqs), IsInjective(ids), NEW r \in Range(ids)
  PROVE  Position(r) \in 0..Len(ids)
  <1> DEFINE before == {o \in items : Of[o] = Of[r] /\ Before(o, r)}
  <1>1. before \subseteq Range(ids) /\ r \notin before
    BY DEF Before, Range, IsInjective
  <1>2. IsFiniteSet(Range(ids)) /\ Cardinality(Range(ids)) <= Len(ids)
    <2>1. ids \in Surjection(1..Len(ids), Range(ids))
      BY DEF Surjection, Range
    <2>2. IsFiniteSet(1..Len(ids)) /\ Cardinality(1..Len(ids)) = Len(ids)
      <3>1. Len(ids) \in Int /\ Len(ids) >= 0
        OBVIOUS
      <3> HIDE DEF before
      <3> QED
        BY <3>1, FS_Interval
    <2> QED
      BY <2>1, <2>2, FS_Surjection
  <1>3. IsFiniteSet(before) /\ Cardinality(before) \in Nat
    BY <1>1, <1>2, FS_Subset, FS_CardinalityType
  <1>4. Cardinality(before \cup {r}) = Cardinality(before) + 1
    BY <1>1, <1>3, FS_AddElement
  <1>5. Cardinality(before \cup {r}) <= Cardinality(Range(ids))
    BY <1>1, <1>2, FS_Subset
  <1>6. Cardinality(Range(ids)) \in Nat /\ Len(ids) \in Nat
    BY <1>2, FS_CardinalityType
  <1> HIDE DEF before
  <1>7. 1 + Cardinality(before) \in 0..Len(ids)
    BY <1>2, <1>3, <1>4, <1>5, <1>6
  <1> QED
    BY <1>7 DEF Position, before

\* The ids after a step: a message is given one once.
LEMMA IdsStep ==
  ASSUME QueueAssumption, Tables, Placed, NotYet, Listing, Shape', [Next]_vars
  PROVE  /\ ids' \in Seq(Reqs) /\ IsInjective(ids)' /\ Len(ids) <= Len(ids)'
         /\ Range(ids) \subseteq Range(ids)'
         /\ \A r \in Range(ids)' : deck'[r] # None
  <1> USE DEF Listing
  <1>1. Range(ids) \subseteq Reqs
    BY DEF Range
  <1>2. ASSUME NEW s \in Sessions, NEW outcome \in {"queued", "rejected", "killed"}, Enqueue(s, outcome),
               outcome # "rejected"
        PROVE  /\ worker[s].req \in Reqs /\ deck[worker[s].req] = None
               /\ deck' = [deck EXCEPT ![worker[s].req] = "queued"] /\ ids' = Append(ids, worker[s].req)
    BY <1>2, HandOver DEF NotYet, Enqueue
  <1>3. ASSUME ids' = ids, \A r \in Reqs : deck[r] # None => deck'[r] # None
        PROVE  /\ ids' \in Seq(Reqs) /\ IsInjective(ids)' /\ Len(ids) <= Len(ids)'
               /\ Range(ids) \subseteq Range(ids)'
               /\ \A r \in Range(ids)' : deck'[r] # None
    BY <1>1, <1>3 DEF Range, IsInjective
  <1>4. ASSUME NEW s \in Sessions, NEW outcome \in {"queued", "rejected", "killed"}, Enqueue(s, outcome),
               outcome # "rejected"
        PROVE  /\ ids' \in Seq(Reqs) /\ IsInjective(ids)' /\ Len(ids) <= Len(ids)'
               /\ Range(ids) \subseteq Range(ids)'
               /\ \A r \in Range(ids)' : deck'[r] # None
    <2> DEFINE r == worker[s].req
    <2>1. r \in Reqs /\ deck[r] = None /\ deck' = [deck EXCEPT ![r] = "queued"] /\ ids' = Append(ids, r)
      BY <1>2, <1>4
    <2> HIDE DEF r
    <2>2. /\ ids' \in Seq(Reqs) /\ Len(ids') = Len(ids) + 1
          /\ \A i \in 1..Len(ids) : ids'[i] = ids[i]
          /\ ids'[Len(ids) + 1] = r
      BY <2>1, AppendProperties
    <2>3. r \notin Range(ids)
      BY <2>1
    <2>4. IsInjective(ids)'
      BY <2>2, <2>3 DEF IsInjective, Range
    <2>5. Range(ids)' = Range(ids) \cup {r}
      BY <2>2 DEF Range
    <2>6. "queued" # None
      BY DeckTerminal DEF QueueAssumption
    <2> QED
      BY <1>1, <2>1, <2>2, <2>4, <2>5, <2>6 DEF Tables
  <1>5. ASSUME NEW s \in Sessions, Enqueue(s, "rejected") PROVE UNCHANGED <<ids, deck>>
    BY <1>5 DEF Enqueue, deckVars
  <1>6. ASSUME NEW r \in Reqs, DeckStep(r)
        PROVE  ids' = ids /\ \A q \in Reqs : deck[q] # None => deck'[q] # None
    <2>1. \A m \in DeckMoves : m[2] # None
      BY DeckTerminal DEF QueueAssumption
    <2> QED
      BY <1>6, <2>1 DEF DeckStep, Tables
  <1>7. ASSUME NEW r \in Reqs, Ask(r) \/ PublishSent(r) \/ Answered(r) \/ Lost(r) \/ Ages(r) PROVE UNCHANGED <<ids, deck>>
    BY <1>7 DEF Ask, PublishSent, Answered, Lost, Ages, deckVars
  <1>8. ASSUME NEW s \in Sessions,
               \/ Take(s) \/ EnqueueFailed(s) \/ (\E saved \in BOOLEAN : Track(s, saved))
               \/ TrackObserve(s) \/ TrackPublish(s) \/ TrackStart(s)
        PROVE  UNCHANGED <<ids, deck>>
    BY <1>8 DEF Take, EnqueueFailed, Track, TrackObserve, TrackPublish, TrackStart, deckVars
  <1>9. ASSUME NEW p \in Pollers, Poller(p) PROVE UNCHANGED <<ids, deck>>
    BY <1>9 DEF Poller, PollSnapshot, PollStatus, PollObserve, PollPublish, PollEnd, deckVars
  <1>10. ASSUME (\E readable \in BOOLEAN : Restart(readable)) \/ UNCHANGED vars PROVE UNCHANGED <<ids, deck>>
    BY <1>10 DEF Restart, vars, deckVars
  <1> HIDE DEF Listing
  <1> QED
    BY <1>3, <1>4, <1>5, <1>6, <1>7, <1>8, <1>9, <1>10 DEF Next, Worker

\* A tracked send, one on file, and one at the worker has an id.
LEMMA HandedStep ==
  ASSUME QueueAssumption, Tables, Placed, NotYet, Listing, Shape', [Next]_vars
  PROVE  /\ items' \subseteq Range(ids)' /\ file' \subseteq Range(ids)'
         /\ \A s \in Sessions : worker'[s].pc \in Handed => worker'[s].req \in Range(ids)'
  <1> DEFINE Sent == items' \subseteq Range(ids)' /\ file' \subseteq Range(ids)'
             AtWork == \A s \in Sessions : worker'[s].pc \in Handed => worker'[s].req \in Range(ids)'
  <1> USE DEF Listing
  <1>1. Range(ids) \subseteq Range(ids)'
    BY IdsStep
  <1>2. ASSUME UNCHANGED <<items, file>> PROVE Sent
    BY <1>1, <1>2
  <1>3. ASSUME UNCHANGED worker PROVE AtWork
    BY <1>1, <1>3
  <1>4. ASSUME NEW s \in Sessions, NEW x, worker' = [worker EXCEPT ![s] = x],
               x.pc \in Handed => x.req \in Range(ids)'
        PROVE  AtWork
    BY <1>1, <1>4 DEF Tables, Shape
  <1>5. ASSUME NEW r, NEW rec, NEW saved \in BOOLEAN, Observe(r, rec, saved) PROVE Sent
    BY <1>1, <1>5 DEF Observe, Save
  <1>6. ASSUME NEW s \in Sessions, Take(s) PROVE Sent /\ AtWork
    <2> DEFINE x == [pc |-> "enqueue", req |-> Head(chan[s]), ev |-> None]
    <2>1. worker' = [worker EXCEPT ![s] = x] /\ x.pc \notin Handed /\ UNCHANGED <<items, file>>
      BY <1>6 DEF Take, trackVars, Handed
    <2> HIDE DEF x, Sent, AtWork
    <2> QED
      BY <1>2, <1>4, <2>1
  <1>7. ASSUME NEW s \in Sessions, EnqueueFailed(s) \/ TrackStart(s) PROVE Sent /\ AtWork
    <2>1. worker' = [worker EXCEPT ![s] = IdleWorker] /\ UNCHANGED <<items, file>>
      BY <1>7 DEF EnqueueFailed, TrackStart, trackVars
    <2>2. IdleWorker.pc \notin Handed
      BY Records DEF Handed
    <2> HIDE DEF Sent, AtWork
    <2> QED
      BY <1>2, <1>4, <2>1, <2>2
  <1>8. ASSUME NEW s \in Sessions, NEW outcome \in {"queued", "rejected", "killed"}, Enqueue(s, outcome)
        PROVE  Sent /\ AtWork
    <2> DEFINE pc == IF outcome = "queued" THEN "track" ELSE "fail"
               x == [worker[s] EXCEPT !.pc = pc]
    <2>1. worker' = [worker EXCEPT ![s] = x] /\ UNCHANGED <<items, file>>
      BY <1>8 DEF Enqueue, trackVars
    <2>2. x.pc = pc /\ x.req = worker[s].req
      BY DEF Tables, Shape, Working
    <2>3. CASE outcome = "queued"
      <3>1. worker[s].req \in Reqs /\ ids' = Append(ids, worker[s].req)
        BY <1>8, <2>3, HandOver DEF Enqueue
      <3>2. ids'[Len(ids) + 1] = worker[s].req /\ Len(ids) + 1 \in DOMAIN ids'
        BY <3>1, AppendProperties
      <3>3. worker[s].req \in Range(ids)'
        BY <3>2 DEF Range
      <3> HIDE DEF x, Sent, AtWork
      <3> QED
        BY <1>2, <1>4, <2>1, <2>2, <3>3
    <2>4. CASE outcome # "queued"
      <3>1. x.pc \notin Handed
        BY <2>2, <2>4 DEF Handed
      <3> HIDE DEF x, Sent, AtWork
      <3> QED
        BY <1>2, <1>4, <2>1, <3>1
    <2> QED
      BY <2>3, <2>4
  <1>9. ASSUME NEW s \in Sessions, worker[s].pc \in Handed, NEW x, worker' = [worker EXCEPT ![s] = x],
               x.req = worker[s].req
        PROVE  AtWork
    BY <1>1, <1>4, <1>9
  <1>10. ASSUME NEW s \in Sessions, NEW saved \in BOOLEAN, Track(s, saved) PROVE Sent /\ AtWork
    <2> DEFINE x == [worker[s] EXCEPT !.pc = "observe"]
    <2>1. worker' = [worker EXCEPT ![s] = x] /\ worker[s].pc \in Handed /\ Sent
      BY <1>1, <1>10 DEF Track, Save, Handed
    <2>2. x.req = worker[s].req
      BY DEF Tables, Shape, Working
    <2> HIDE DEF x, AtWork
    <2> QED
      BY <1>9, <2>1, <2>2
  <1>11. ASSUME NEW s \in Sessions, TrackObserve(s) PROVE Sent /\ AtWork
    <2>1. PICK pc \in {"publish", "start"} : worker' = [worker EXCEPT ![s] = [worker[s] EXCEPT !.pc = pc, !.ev = "queued"]]
      <3>1. worker' = [worker EXCEPT ![s] = [worker[s] EXCEPT !.pc = IF Changed(worker[s].req, "queued") THEN "publish" ELSE "start",
                                                            !.ev = "queued"]]
        BY <1>11, Zenon DEF TrackObserve
      <3> QED
        BY <3>1
    <2> DEFINE x == [worker[s] EXCEPT !.pc = pc, !.ev = "queued"]
    <2>2. x.req = worker[s].req
      BY DEF Tables, Shape, Working
    <2>3. worker' = [worker EXCEPT ![s] = x] /\ worker[s].pc \in Handed /\ Sent
      BY <1>5, <1>11, <2>1 DEF TrackObserve, Handed
    <2> HIDE DEF x, AtWork
    <2> QED
      BY <1>9, <2>2, <2>3
  <1>12. ASSUME NEW s \in Sessions, TrackPublish(s) PROVE Sent /\ AtWork
    <2> DEFINE x == [worker[s] EXCEPT !.pc = "start"]
    <2>1. worker' = [worker EXCEPT ![s] = x] /\ worker[s].pc \in Handed /\ Sent
      BY <1>2, <1>12 DEF TrackPublish, Handed, trackVars
    <2>2. x.req = worker[s].req
      BY DEF Tables, Shape, Working
    <2> HIDE DEF x, AtWork
    <2> QED
      BY <1>9, <2>1, <2>2
  <1>13. ASSUME NEW p \in Pollers, Poller(p) PROVE Sent /\ AtWork
    <2>1. UNCHANGED worker /\ (UNCHANGED <<items, file>> \/ \E saved \in BOOLEAN : \E r, rec : Observe(r, rec, saved))
      BY <1>13 DEF Poller, PollSnapshot, PollStatus, PollObserve, PollPublish, PollEnd, trackVars
    <2> HIDE DEF Sent, AtWork
    <2> QED
      BY <1>2, <1>3, <1>5, <2>1
  <1>14. ASSUME NEW r \in Reqs, Ask(r) \/ PublishSent(r) \/ Answered(r) \/ Lost(r) \/ DeckStep(r) \/ Ages(r) PROVE Sent /\ AtWork
    <2>1. UNCHANGED <<worker, items, file>>
      BY <1>14 DEF Ask, PublishSent, Answered, Lost, DeckStep, Ages, trackVars
    <2> QED
      BY <1>2, <1>3, <2>1
  <1>15. ASSUME NEW readable \in BOOLEAN, Restart(readable) PROVE Sent /\ AtWork
    <2>1. items' \subseteq file /\ file' = file /\ \A s \in Sessions : worker'[s].pc = "idle"
      BY <1>15, Records DEF Restart
    <2> QED
      BY <1>1, <2>1 DEF Handed
  <1>16. ASSUME UNCHANGED vars PROVE Sent /\ AtWork
    BY <1>2, <1>3, <1>16 DEF vars, trackVars
  <1> HIDE DEF Sent, AtWork
  <1>17. Sent /\ AtWork
    BY <1>6, <1>7, <1>8, <1>10, <1>11, <1>12, <1>13, <1>14, <1>15, <1>16 DEF Next, Worker
  <1> QED
    BY <1>17 DEF Sent, AtWork

\* A poll loop works on sends with ids.
LEMMA PolledStep ==
  ASSUME QueueAssumption, Tables, Placed, NotYet, Listing, Shape', [Next]_vars
  PROVE  \A p \in Pollers : Polled(poll[p])'
  <1> DEFINE Good(x) ==
        /\ x.pc \in {"off", "sleep", "status", "observe", "publish", "end"}
        /\ x.todo \subseteq Range(ids)' /\ (x.pc = "status" => x.todo # {})
        /\ x.req \in Reqs \cup {None} /\ (x.pc \in {"observe", "publish"} => x.req \in Range(ids)')
        /\ x.rec \in DeckStates \cup {None} /\ x.ev \in UiStates \cup {None}
  <1>1. Range(ids) \subseteq Range(ids)' /\ Range(ids) \subseteq Reqs
    BY IdsStep DEF Listing, Range
  <1>2. \A p \in Pollers : Polled(poll[p]) /\ Good(poll[p])
    BY <1>1 DEF Listing, Polled
  <1>3. Good(OffPoll) /\ Good(Sleeping)
    BY DEF OffPoll, Sleeping
  <1>4. SUFFICES \A p \in Pollers : Good(poll'[p])
    BY DEF Polled
  <1>5. ASSUME UNCHANGED poll PROVE \A p \in Pollers : Good(poll'[p])
    BY <1>2, <1>5
  <1>6. ASSUME NEW p \in Pollers, NEW x, poll' = [poll EXCEPT ![p] = x], Good(x)
        PROVE  \A q \in Pollers : Good(poll'[q])
    <2> HIDE DEF Good
    <2> QED
      BY <1>2, <1>6 DEF Tables, Shape
  <1>7. ASSUME NEW p \in Pollers, NEW left, Goes(p, left), left \subseteq Range(ids)
        PROVE  \A q \in Pollers : Good(poll'[q])
    <2> DEFINE x == [pc |-> IF left = {} THEN "end" ELSE "status", todo |-> left, req |-> None,
                     rec |-> None, ev |-> None]
    <2>1. poll' = [poll EXCEPT ![p] = x]
      BY <1>7, Zenon DEF Goes
    <2>2. Good(x)
      BY <1>1, <1>7
    <2> HIDE DEF x, Good
    <2> QED
      BY <1>6, <2>1, <2>2
  <1>8. ASSUME NEW p \in Pollers, NEW r \in Range(ids), NEW rec \in DeckStates \cup {None}, Told(p, r, rec)
        PROVE  \A q \in Pollers : Good(poll'[q])
    <2> DEFINE x == [pc |-> "observe", todo |-> poll[p].todo \ {r}, req |-> r, rec |-> rec, ev |-> None]
    <2>1. poll' = [poll EXCEPT ![p] = x]
      BY <1>8, Zenon DEF Told
    <2>2. Good(x)
      BY <1>1, <1>2, <1>8
    <2> HIDE DEF x, Good
    <2> QED
      BY <1>6, <2>1, <2>2
  <1>9. ASSUME NEW p \in Pollers, PollSnapshot(p) PROVE \A q \in Pollers : Good(poll'[q])
    BY <1>7, <1>9 DEF PollSnapshot, Listing
  <1>10. ASSUME NEW p \in Pollers, NEW answered \in BOOLEAN, PollStatus(p, answered)
         PROVE  \A q \in Pollers : Good(poll'[q])
    <2> DEFINE r == Oldest(poll[p].todo)
    <2>1. poll[p].todo \subseteq Range(ids) /\ poll[p].todo # {}
      BY <1>2, <1>10 DEF PollStatus, Polled
    <2>2. r \in Range(ids)
      BY <2>1, OldestIs DEF Listing
    <2>3. Told(p, r, deck[r]) \/ Told(p, r, "typedSettled") \/ Goes(p, poll[p].todo \ {r})
      BY <1>10 DEF PollStatus
    <2>4. deck[r] \in DeckStates \cup {None} /\ "typedSettled" \in DeckStates
      BY <1>1, <2>2, DeckTerminal DEF Tables
    <2> HIDE DEF r, Good
    <2> QED
      BY <1>7, <1>8, <2>1, <2>2, <2>3, <2>4
  <1>11. ASSUME NEW p \in Pollers, NEW saved \in BOOLEAN, PollObserve(p, saved)
         PROVE  \A q \in Pollers : Good(poll'[q])
    <2> DEFINE x == [poll[p] EXCEPT !.pc = "publish", !.ev = Ui(poll[p].rec)]
    <2>1. Goes(p, poll[p].todo) \/ poll' = [poll EXCEPT ![p] = x]
      BY <1>11 DEF PollObserve
    <2>2. poll[p].pc = "observe" /\ Good(poll[p]) /\ poll[p].todo \subseteq Range(ids)
      BY <1>2, <1>11 DEF PollObserve, Polled
    <2>3. Ui(poll[p].rec) \in UiStates
      BY DEF Ui, UiStates, FinalUi
    <2>4. CASE poll' = [poll EXCEPT ![p] = x]
      <3>1. \A q \in Pollers \ {p} : poll'[q] = poll[q]
        BY <2>4 DEF Tables, Shape
      <3>2. /\ poll'[p].pc = "publish" \/ poll'[p].pc = poll[p].pc
            /\ poll'[p].ev = Ui(poll[p].rec) \/ poll'[p].ev = poll[p].ev
            /\ poll'[p].todo = poll[p].todo /\ poll'[p].req = poll[p].req /\ poll'[p].rec = poll[p].rec
        <4>1. poll'[p] = [[poll[p] EXCEPT !.pc = "publish"] EXCEPT !.ev = Ui(poll[p].rec)]
          BY <2>4 DEF Tables, Shape
        <4>2. PICK y : y = [poll[p] EXCEPT !.pc = "publish"]
          OBVIOUS
        <4>3. /\ y.pc = "publish" \/ y.pc = poll[p].pc
              /\ y.ev = poll[p].ev /\ y.todo = poll[p].todo /\ y.req = poll[p].req /\ y.rec = poll[p].rec
          BY <4>2
        <4>4. PICK ui : ui = Ui(poll[p].rec)
          OBVIOUS
        <4>5. poll'[p] = [y EXCEPT !.ev = ui]
          BY <4>1, <4>2, <4>4
        <4> QED
          BY <4>3, <4>4, <4>5
      <3>3. Good(poll'[p])
        BY <2>2, <2>3, <3>2
      <3> HIDE DEF Good
      <3> QED
        BY <1>2, <3>1, <3>3
    <2> HIDE DEF x, Good
    <2> QED
      BY <1>7, <2>1, <2>2, <2>4
  <1>12. ASSUME NEW p \in Pollers, PollPublish(p) PROVE \A q \in Pollers : Good(poll'[q])
    <2>1. poll[p].todo \subseteq Range(ids)
      BY <1>2 DEF Polled
    <2> HIDE DEF Good
    <2> QED
      BY <1>7, <1>12, <2>1 DEF PollPublish
  <1>13. ASSUME NEW p \in Pollers, PollEnd(p) PROVE \A q \in Pollers : Good(poll'[q])
    <2> HIDE DEF Good
    <2> QED
      BY <1>3, <1>6, <1>13 DEF PollEnd
  <1>14. ASSUME NEW s \in Sessions, TrackStart(s) PROVE \A q \in Pollers : Good(poll'[q])
    <2> HIDE DEF Good
    <2> QED
      BY <1>3, <1>5, <1>6, <1>14 DEF TrackStart, StartPoller
  <1>15. ASSUME NEW readable \in BOOLEAN, Restart(readable) PROVE \A q \in Pollers : Good(poll'[q])
    <2>1. \A q \in Pollers : poll'[q] \in {Sleeping, OffPoll}
      BY <1>15 DEF Restart
    <2> HIDE DEF Good
    <2> QED
      BY <1>3, <2>1
  <1>16. ASSUME NEW s \in Sessions,
                \/ Take(s) \/ (\E outcome \in {"queued", "rejected", "killed"} : Enqueue(s, outcome))
                \/ EnqueueFailed(s) \/ (\E saved \in BOOLEAN : Track(s, saved)) \/ TrackObserve(s)
                \/ TrackPublish(s)
         PROVE  UNCHANGED poll
    BY <1>16 DEF Take, Enqueue, EnqueueFailed, Track, TrackObserve, TrackPublish
  <1>17. ASSUME NEW r \in Reqs, Ask(r) \/ PublishSent(r) \/ Answered(r) \/ Lost(r) \/ DeckStep(r) \/ Ages(r) PROVE UNCHANGED poll
    BY <1>17 DEF Ask, PublishSent, Answered, Lost, DeckStep, Ages
  <1>18. ASSUME UNCHANGED vars PROVE UNCHANGED poll
    BY <1>18 DEF vars
  <1> HIDE DEF Good
  <1> QED
    BY <1>5, <1>9, <1>10, <1>11, <1>12, <1>13, <1>14, <1>15, <1>16, <1>17, <1>18 DEF Next, Worker, Poller

\* What is gone stays gone.
LEMMA GoneStays ==
  ASSUME QueueAssumption, Tables, Placed, NotYet, Shape', [Next]_vars, NEW t \in Reqs, Gone(t)
  PROVE  Gone(t)'
  <1>1. \A s \in Sessions, outcome \in {"queued", "killed"} : Enqueue(s, outcome) => t # worker[s].req
    BY HandOver DEF Gone
  <1>2. ~(deck[t] \in DeckStates \ Settled /\ deck[t] # "failed")
    BY DEF Gone, QueueAssumption
  <1>3. deck'[t] = deck[t]
    BY <1>1, <1>2, DeckChange
  <1> QED
    BY <1>3, Whereabouts DEF Gone

\* Who tells a phone that its message failed tells it of one that is gone, or of one whose call was killed.
LEMMA ShowsFailed ==
  ASSUME QueueAssumption, Tables, Placed, NotYet, Listing, Truthful, NEW r, NEW state, Show(r, state),
         \/ \E q \in Reqs : PublishSent(q) /\ r = q /\ state = "sent"
         \/ \E s \in Sessions : /\ r = worker[s].req /\ state = "failed" /\ EnqueueFailed(s)
         \/ \E s \in Sessions : /\ r = worker[s].req /\ state = worker[s].ev /\ TrackPublish(s)
         \/ \E p \in Pollers : /\ r = poll[p].req /\ state = poll[p].ev /\ PollPublish(p)
  PROVE  r \in Reqs /\ (state = "failed" => r \in killed \/ Gone(r))
  <1>1. ASSUME NEW s \in Sessions, r = worker[s].req, EnqueueFailed(s) PROVE r \in Reqs /\ (r \in killed \/ Gone(r))
    <2>1. r \in Reqs /\ InWork(r, "fail")
      BY <1>1 DEF EnqueueFailed, Placed, InWork
    <2>2. ~NotSent(r) /\ ~Waits(r) /\ (r \notin killed => deck[r] = None)
      BY <2>1 DEF NotYet
    <2> QED
      BY <2>1, <2>2 DEF Gone, NotSent
  <1>2. ASSUME NEW s \in Sessions, r = worker[s].req, state = worker[s].ev, TrackPublish(s)
        PROVE  r \in Reqs /\ state # "failed"
    BY <1>2 DEF TrackPublish, Placed
  <1>3. ASSUME NEW p \in Pollers, r = poll[p].req, state = poll[p].ev, PollPublish(p)
        PROVE  r \in Reqs /\ (state = "failed" => Gone(r))
    <2>1. poll[p].pc = "publish"
      BY <1>3 DEF PollPublish
    <2>2. r \in Range(ids)
      BY <1>3, <2>1 DEF Listing, Polled
    <2>3. r \in Reqs
      BY <2>2 DEF Listing, Range
    <2>4. ASSUME state = "failed" PROVE Gone(r)
      <3>1. poll[p].ev = Ui(poll[p].rec)
        BY <2>1, Zenon DEF Truthful
      <3>2. poll[p].rec = "failed"
        BY <1>3, <2>4, <3>1, UiFacts
      <3>3. deck[r] = "failed"
        BY <1>3, <2>1, <2>3, <3>2, Zenon DEF Truthful
      <3>4. "failed" # None
        BY DEF QueueAssumption, UiStates, FinalUi
      <3> QED
        BY <2>3, <3>3, <3>4 DEF NotYet, Gone, NotSent
    <2> QED
      BY <2>3, <2>4
  <1> QED
    BY <1>1, <1>2, <1>3 DEF PublishSent

\* A bubble that failed keeps saying so of a message that is gone.
LEMMA PagesStep ==
  ASSUME QueueAssumption, Tables, Placed, NotYet, Listing, Truthful, Pages, Shape', [Next]_vars
  PROVE  Pages'
  <1> DEFINE Good == /\ tag' \in [Reqs -> Reqs \cup {None}]
                     /\ \A s \in Sessions : \A i \in DOMAIN conv'[s] : phone'[conv'[s][i]] # "unsent"
                     /\ \A b \in Reqs : phone'[b] = "unsent" => tag'[b] = None
                     /\ \A b \in Reqs \ cut' : bubble'[b] = "failed" => Justly(b)'
  <1>0. \A b \in Reqs : phone'[b] = "unsent" => phone[b] = "unsent"
    BY Whereabouts
  <1>1. \A t \in Reqs : t \in killed \/ Gone(t) => t \in killed' \/ Gone(t)'
    BY GoneStays, DeckChange
  <1>2. \A b \in Reqs \ cut : bubble[b] = "failed" =>
          \/ tag[b] = None /\ phone[b] = "refused"
          \/ \E t \in Reqs : tag[b] = t /\ (t \in killed' \/ Gone(t)')
    BY <1>1 DEF Pages, Justly
  <1>3. ASSUME UNCHANGED <<conv, tag>>, \A b \in Reqs : phone[b] = "refused" => phone'[b] = "refused",
               \A b \in Reqs \ cut' : b \notin cut /\ (bubble'[b] = "failed" => bubble[b] = "failed")
        PROVE  Good
    <2>1. \A b \in Reqs \ cut' : bubble'[b] = "failed" => Justly(b)'
      BY <1>2, <1>3 DEF Justly
    <2> QED
      BY <1>0, <1>3, <2>1 DEF Pages, Tables
  <1>4. ASSUME NEW r, NEW state, Show(r, state), \A b \in Reqs : phone[b] = "refused" => phone'[b] = "refused",
               \/ \E q \in Reqs : PublishSent(q) /\ r = q /\ state = "sent"
               \/ \E s \in Sessions : /\ r = worker[s].req /\ state = "failed" /\ EnqueueFailed(s)
               \/ \E s \in Sessions : /\ r = worker[s].req /\ state = worker[s].ev /\ TrackPublish(s)
               \/ \E p \in Pollers : /\ r = poll[p].req /\ state = poll[p].ev /\ PollPublish(p)
        PROVE  Good
    <2>1. r \in Reqs /\ (state = "failed" => r \in killed \/ Gone(r))
      BY <1>4, ShowsFailed
    <2>2. \A q \in Reqs : \/ tag'[q] = tag[q] /\ bubble'[q] = bubble[q]
                          \/ /\ tag'[q] = r /\ phone[q] # "unsent"
                             /\ (bubble'[q] = state \/ bubble'[q] = "delivered")
      BY <1>4, <2>1, ShowIs
    <2>3. UNCHANGED <<conv, cut>> /\ tag' = [q \in Reqs |-> tag'[q]]
      BY <1>4, ShowShape
    <2>4. state = "failed" => r \in killed' \/ Gone(r)'
      BY <1>1, <2>1
    <2>5. ASSUME NEW b \in Reqs \ cut', bubble'[b] = "failed" PROVE Justly(b)'
      <3>1. CASE tag'[b] = tag[b] /\ bubble'[b] = bubble[b]
        BY <1>2, <1>4, <2>3, <2>5, <3>1 DEF Justly
      <3>2. CASE tag'[b] = r /\ bubble'[b] = state
        BY <2>1, <2>4, <2>5, <3>2 DEF Justly
      <3> QED
        BY <2>2, <2>5, <3>1, <3>2
    <2>6. tag' \in [Reqs -> Reqs \cup {None}]
      BY <2>1, <2>2, <2>3 DEF Pages
    <2>7. \A b \in Reqs : phone'[b] = "unsent" => tag'[b] = None
      BY <1>0, <2>2 DEF Pages
    <2>8. \A s \in Sessions : \A i \in DOMAIN conv'[s] : phone'[conv'[s][i]] # "unsent"
      BY <1>0, <2>3 DEF Pages, Tables
    <2> QED
      BY <2>5, <2>6, <2>7, <2>8
  <1>5. ASSUME NEW r \in Reqs, Ask(r) PROVE Good
    <2>1. /\ phone[r] = "unsent" /\ phone'[r] \in {"accepted", "refused"} /\ UNCHANGED <<tag, cut>>
          /\ conv' = [conv EXCEPT ![Of[r]] = Append(conv[Of[r]], r)]
          /\ \A b \in Reqs \ {r} : bubble'[b] = bubble[b] /\ phone'[b] = phone[b]
          /\ bubble'[r] = "failed" => phone'[r] = "refused"
      BY <1>5 DEF Ask, Tables
    <2>2. tag[r] = None
      BY <2>1 DEF Pages
    <2>3. ASSUME NEW b \in Reqs \ cut', bubble'[b] = "failed" PROVE Justly(b)'
      BY <1>2, <2>1, <2>2, <2>3 DEF Justly
    <2>4. \A s \in Sessions : \A i \in DOMAIN conv'[s] : phone'[conv'[s][i]] # "unsent"
      <3>1. Of[r] \in Sessions /\ conv[Of[r]] \in Seq(Reqs)
        BY DEF QueueAssumption, Tables
      <3>2. \A s \in Sessions \ {Of[r]} : conv'[s] = conv[s]
        BY <2>1 DEF Tables
      <3>3. conv'[Of[r]] = Append(conv[Of[r]], r)
        BY <2>1, <3>1 DEF Tables
      <3>4. \A i \in DOMAIN conv'[Of[r]] : conv'[Of[r]][i] = r \/ (i \in DOMAIN conv[Of[r]] /\ conv'[Of[r]][i] = conv[Of[r]][i])
        BY <3>1, <3>3
      <3>5. \A s \in Sessions : \A i \in DOMAIN conv[s] : conv[s][i] \in Reqs /\ phone'[conv[s][i]] # "unsent"
        BY <1>0 DEF Pages, Tables
      <3> QED
        BY <2>1, <3>2, <3>4, <3>5
    <2>5. tag' \in [Reqs -> Reqs \cup {None}] /\ \A b \in Reqs : phone'[b] = "unsent" => tag'[b] = None
      BY <1>0, <2>1 DEF Pages
    <2> QED
      BY <2>3, <2>4, <2>5
  <1>6. ASSUME NEW r \in Reqs, Answered(r) PROVE Good
    <2>1. /\ phone[r] = "told" /\ phone' = [phone EXCEPT ![r] = "done"] /\ UNCHANGED <<conv, bubble, cut>>
          /\ tag' = [tag EXCEPT ![r] = IF tag[r] = None THEN r ELSE tag[r]]
      BY <1>6 DEF Answered
    <2>2. tag' \in [Reqs -> Reqs \cup {None}]
      BY <2>1 DEF Pages
    <2>3. ASSUME NEW b \in Reqs \ cut', bubble'[b] = "failed" PROVE Justly(b)'
      <3>1. \/ tag[b] = None /\ phone[b] = "refused"
            \/ \E t \in Reqs : tag[b] = t /\ (t \in killed' \/ Gone(t)')
        BY <1>2, <2>1, <2>3
      <3>2. tag'[b] = tag[b] /\ (phone[b] = "refused" => phone'[b] = "refused")
        <4>1. b = r => tag[b] # None
          BY <2>1, <3>1 DEF QueueAssumption
        <4> QED
          BY <2>1, <4>1 DEF Pages, Tables
      <3> QED
        BY <3>1, <3>2 DEF Justly
    <2>4. \A b \in Reqs : phone'[b] = "unsent" => tag'[b] = None
      BY <1>0, <2>1 DEF Pages, Tables
    <2>5. \A s \in Sessions : \A i \in DOMAIN conv'[s] : phone'[conv'[s][i]] # "unsent"
      BY <1>0, <2>1 DEF Pages, Tables
    <2> QED
      BY <2>2, <2>3, <2>4, <2>5
  <1>7. ASSUME NEW r \in Reqs, Lost(r) PROVE Good
    <2>1. /\ UNCHANGED <<conv, tag>> /\ \A b \in Reqs : phone[b] = "refused" => phone'[b] = "refused"
          /\ \A b \in Reqs \ cut' : b \notin cut /\ bubble'[b] = bubble[b]
      BY <1>7 DEF Lost, Tables
    <2> HIDE DEF Good
    <2> QED
      BY <1>3, <2>1
  <1>8. ASSUME NEW readable \in BOOLEAN, Restart(readable) PROVE Good
    <2>1. /\ UNCHANGED <<conv, tag>> /\ \A b \in Reqs : phone[b] = "refused" => phone'[b] = "refused"
          /\ \A b \in Reqs \ cut' : b \notin cut /\ bubble'[b] = bubble[b]
      BY <1>8 DEF Restart, Tables
    <2> HIDE DEF Good
    <2> QED
      BY <1>3, <2>1
  <1>9. ASSUME UNCHANGED <<conv, tag, bubble, cut, phone>> PROVE Good
    <2> HIDE DEF Good
    <2> QED
      BY <1>3, <1>9
  <1>10. ASSUME NEW r \in Reqs, PublishSent(r) PROVE Good
    <2>1. Show(r, "sent") /\ \A b \in Reqs : phone[b] = "refused" => phone'[b] = "refused"
      BY <1>10 DEF PublishSent, Tables
    <2> HIDE DEF Good
    <2> QED
      BY <1>4, <1>10, <2>1
  <1>11. ASSUME NEW s \in Sessions, EnqueueFailed(s) PROVE Good
    <2>1. Show(worker[s].req, "failed") /\ UNCHANGED phone
      BY <1>11 DEF EnqueueFailed
    <2> HIDE DEF Good
    <2> QED
      BY <1>4, <1>11, <2>1
  <1>12. ASSUME NEW s \in Sessions, TrackPublish(s) PROVE Good
    <2>1. Show(worker[s].req, worker[s].ev) /\ UNCHANGED phone
      BY <1>12 DEF TrackPublish
    <2> HIDE DEF Good
    <2> QED
      BY <1>4, <1>12, <2>1
  <1>13. ASSUME NEW p \in Pollers, PollPublish(p) PROVE Good
    <2>1. Show(poll[p].req, poll[p].ev) /\ UNCHANGED phone
      BY <1>13 DEF PollPublish
    <2> HIDE DEF Good
    <2> QED
      BY <1>4, <1>13, <2>1
  <1>14. ASSUME NEW r \in Reqs, DeckStep(r) \/ Ages(r) PROVE UNCHANGED <<conv, tag, bubble, cut, phone>>
    BY <1>14 DEF DeckStep, Ages, pageVars
  <1>15. ASSUME NEW s \in Sessions,
                \/ Take(s) \/ (\E outcome \in {"queued", "rejected", "killed"} : Enqueue(s, outcome))
                \/ (\E saved \in BOOLEAN : Track(s, saved)) \/ TrackObserve(s) \/ TrackStart(s)
         PROVE  UNCHANGED <<conv, tag, bubble, cut, phone>>
    BY <1>15 DEF Take, Enqueue, Track, TrackObserve, TrackStart, pageVars
  <1>16. ASSUME NEW p \in Pollers,
                \/ PollSnapshot(p) \/ PollEnd(p) \/ (\E answered \in BOOLEAN : PollStatus(p, answered))
                \/ \E saved \in BOOLEAN : PollObserve(p, saved)
         PROVE  UNCHANGED <<conv, tag, bubble, cut, phone>>
    BY <1>16 DEF PollSnapshot, PollEnd, PollStatus, PollObserve, pageVars
  <1>17. ASSUME UNCHANGED vars PROVE UNCHANGED <<conv, tag, bubble, cut, phone>>
    BY <1>17 DEF vars, pageVars
  <1> HIDE DEF Good
  <1>18. Good
    BY <1>5, <1>6, <1>7, <1>8, <1>9, <1>10, <1>11, <1>12, <1>13, <1>14, <1>15, <1>16, <1>17 DEF Next, Worker, Poller
  <1> QED
    BY <1>18 DEF Good, Pages

\* A bubble that offers Retry under its own id, or under none, is of a message that is gone.
LEMMA PagesSafe == ASSUME QueueAssumption, NotYet, Pages PROVE RetryIsSafe
  BY DEF Pages, NotYet, NotSent, Justly, Gone, RetryIsSafe, QueueAssumption

\* A poll loop tells what agent-deck said last of a send; final states stay.
LEMMA TruthfulStep ==
  ASSUME QueueAssumption, Retrying, Shape', [Next]_vars
  PROVE  Truthful'
  <1> USE DEF Retrying
  <1> DEFINE Told1(rec, r) == /\ rec = "failed" => deck[r] = "failed"
                              /\ rec \in Settled => deck[r] \in Settled \/ r \in old
  <1>0. \A r \in Reqs : /\ deck[r] = "failed" => deck'[r] = "failed"
                        /\ deck[r] \in Settled => deck'[r] = deck[r]
                        /\ r \in old => r \in old'
    <2>1. SUFFICES ASSUME NEW r \in Reqs
                   PROVE  /\ deck[r] = "failed" => deck'[r] = "failed"
                          /\ deck[r] \in Settled => deck'[r] = deck[r]
                          /\ r \in old => r \in old'
      OBVIOUS
    <2>2. ASSUME NEW s \in Sessions, NEW outcome \in {"queued", "killed"}, Enqueue(s, outcome), r = worker[s].req
          PROVE  deck[r] = None
      BY <2>2, HandOver DEF NotYet
    <2>3. None \notin Settled /\ "failed" \in Settled
      BY DeckTerminal DEF QueueAssumption
    <2> QED
      BY <2>2, <2>3, DeckChange
  <1> DEFINE Honest(x) ==
        /\ x.pc \in {"observe", "publish"} /\ x.req \in Reqs =>
             /\ x.rec = "failed" => deck'[x.req] = "failed"
             /\ x.rec \in Settled => deck'[x.req] \in Settled \/ x.req \in old'
        /\ x.pc = "publish" => x.ev = Ui(x.rec)
  <1>1. ASSUME NEW p \in Pollers PROVE Honest(poll[p])
    <2>1. poll[p].pc = "publish" => poll[p].ev = Ui(poll[p].rec)
      BY Zenon DEF Truthful
    <2>2. ASSUME poll[p].pc \in {"observe", "publish"}, NEW r \in Reqs, r = poll[p].req
          PROVE  /\ poll[p].rec = "failed" => deck'[r] = "failed"
                 /\ poll[p].rec \in Settled => deck'[r] \in Settled \/ r \in old'
      <3>1. /\ poll[p].rec = "failed" => deck[r] = "failed"
            /\ poll[p].rec \in Settled => deck[r] \in Settled \/ r \in old
        BY <2>2, Zenon DEF Truthful
      <3> QED
        BY <1>0, <3>1
    <2> QED
      BY <2>1, <2>2
  <1>2. \A x : x.pc \notin {"observe", "publish"} => Honest(x)
    OBVIOUS
  <1>3. ASSUME NEW p \in Pollers, NEW x, poll' = [poll EXCEPT ![p] = x], Honest(x) PROVE Truthful'
    <2>1. \A q \in Pollers : Honest(poll'[q])
      <3> HIDE DEF Honest
      <3> QED
        BY <1>1, <1>3 DEF Tables, Shape
    <2> QED
      BY <2>1 DEF Truthful
  <1>4. ASSUME \A q \in Pollers : poll'[q] = poll[q] \/ poll'[q].pc \notin {"observe", "publish"} PROVE Truthful'
    <2>1. \A q \in Pollers : Honest(poll'[q])
      <3> HIDE DEF Honest
      <3> QED
        BY <1>1, <1>2, <1>4
    <2> QED
      BY <2>1 DEF Truthful
  <1>5. ASSUME NEW p \in Pollers, NEW left, Goes(p, left) PROVE Truthful'
    <2>1. PICK x : poll' = [poll EXCEPT ![p] = x] /\ x.pc \in {"end", "status"}
      BY <1>5, GoesIs
    <2> QED
      BY <1>4, <2>1 DEF Tables, Shape
  <1>6. ASSUME NEW p \in Pollers, NEW answered \in BOOLEAN, PollStatus(p, answered) PROVE Truthful'
    <2>1. UNCHANGED <<deck, old>>
      BY <1>6 DEF PollStatus, deckVars, restVars
    <2>2. ASSUME NEW r, NEW rec, Told(p, r, rec), r \in Reqs => Told1(rec, r)
          PROVE  Truthful'
      <3> DEFINE x == [pc |-> "observe", todo |-> poll[p].todo \ {r}, req |-> r, rec |-> rec, ev |-> None]
      <3>1. poll' = [poll EXCEPT ![p] = x]
        BY <2>2 DEF Told
      <3>2. Honest(x)
        BY <2>1, <2>2
      <3> HIDE DEF x, Honest
      <3> QED
        BY <1>3, <3>1, <3>2
    <2> DEFINE r == Oldest(poll[p].todo)
    <2>3. \/ Told(p, r, deck[r])
          \/ r \in old /\ Told(p, r, "typedSettled")
          \/ \E left : Goes(p, left)
      BY <1>6 DEF PollStatus
    <2>4. Told1(deck[r], r)
      OBVIOUS
    <2>5. r \in old => Told1("typedSettled", r)
      OBVIOUS
    <2> HIDE DEF Told1, r
    <2> QED
      BY <1>5, <2>2, <2>3, <2>4, <2>5
  <1>7. ASSUME NEW p \in Pollers, NEW saved \in BOOLEAN, PollObserve(p, saved) PROVE Truthful'
    <2> DEFINE x == [poll[p] EXCEPT !.pc = "publish", !.ev = Ui(poll[p].rec)]
    <2>1. Goes(p, poll[p].todo) \/ poll' = [poll EXCEPT ![p] = x]
      BY <1>7 DEF PollObserve
    <2>2. Honest(x)
      <3>1. Honest(poll[p]) /\ poll[p].pc = "observe"
        BY <1>1, <1>7 DEF PollObserve
      <3>2. x.pc = "publish" /\ x.ev = Ui(x.rec) /\ x.req = poll[p].req /\ x.rec = poll[p].rec
        BY <3>1 DEF Tables, Shape
      <3> HIDE DEF x
      <3> QED
        BY <3>1, <3>2
    <2> HIDE DEF x, Honest
    <2> QED
      BY <1>3, <1>5, <2>1, <2>2
  <1>8. ASSUME NEW p \in Pollers, PollPublish(p) PROVE Truthful'
    BY <1>5, <1>8 DEF PollPublish
  <1>9. ASSUME NEW p \in Pollers, PollSnapshot(p) PROVE Truthful'
    BY <1>5, <1>9 DEF PollSnapshot
  <1>10. ASSUME NEW p \in Pollers, PollEnd(p) PROVE Truthful'
    BY <1>4, <1>10, Records DEF PollEnd, Tables, Shape
  <1>11. ASSUME NEW s \in Sessions, TrackStart(s) PROVE Truthful'
    BY <1>4, <1>11, Records DEF TrackStart, StartPoller, Tables, Shape
  <1>12. ASSUME NEW readable \in BOOLEAN, Restart(readable) PROVE Truthful'
    <2>1. \A p \in Pollers : poll'[p] \in {Sleeping, OffPoll}
      BY <1>12 DEF Restart
    <2> QED
      BY <1>4, <2>1, Records
  <1>13. ASSUME NEW s \in Sessions,
                \/ Take(s) \/ (\E outcome \in {"queued", "rejected", "killed"} : Enqueue(s, outcome))
                \/ EnqueueFailed(s) \/ (\E saved \in BOOLEAN : Track(s, saved)) \/ TrackObserve(s)
                \/ TrackPublish(s)
         PROVE  Truthful'
    BY <1>4, <1>13 DEF Take, Enqueue, EnqueueFailed, Track, TrackObserve, TrackPublish
  <1>14. ASSUME NEW r \in Reqs, Ask(r) \/ PublishSent(r) \/ Answered(r) \/ Lost(r) \/ DeckStep(r) \/ Ages(r) PROVE Truthful'
    BY <1>4, <1>14 DEF Ask, PublishSent, Answered, Lost, DeckStep, Ages
  <1>15. ASSUME UNCHANGED vars PROVE Truthful'
    BY <1>4, <1>15 DEF vars
  <1> QED
    BY <1>6, <1>7, <1>8, <1>9, <1>10, <1>11, <1>12, <1>13, <1>14, <1>15 DEF Next, Worker, Poller

\* No message is on its way at the start.
LEMMA InitRetrying == ASSUME QueueAssumption PROVE Init => Retrying
  <1> SUFFICES ASSUME Init PROVE Retrying
    OBVIOUS
  <1>0. Of \in [Reqs -> Sessions] /\ "failed" # None
    BY DEF QueueAssumption, UiStates, FinalUi
  <1>1. \A s \in Sessions : chan[s] = <<>> /\ worker[s].pc = "idle"
    BY Records DEF Init
  <1>2. \A r \in Reqs : ~InChan(r) /\ ~InWork(r, "enqueue") /\ ~InWork(r, "fail")
    BY <1>0, <1>1 DEF InChan, InWork
  <1>3. Tables
    BY InitTracking DEF Init, Tables, Tracking
  <1>4. Placed
    BY <1>1, <1>2 DEF Placed, Waits
  <1>5. NotYet
    BY <1>0, <1>2 DEF Init, NotYet
  <1>6. Truthful
    BY Records DEF Init, Truthful
  <1>7. Range(ids) = {} /\ ids \in Seq(Reqs) /\ IsInjective(ids)
    BY DEF Init, Range, IsInjective
  <1>8. \A p \in Pollers : Polled(poll[p])
    BY DEF Init, OffPoll, Polled
  <1>9. Listing
    BY <1>1, <1>7, <1>8 DEF Init, Listing, Handed
  <1>10. Pages
    <2>1. \A s \in Sessions : DOMAIN conv[s] = {}
      BY DEF Init
    <2> QED
      BY <1>0, <2>1 DEF Init, Pages
  <1> QED
    BY <1>3, <1>4, <1>5, <1>6, <1>9, <1>10 DEF Retrying

\* Every step keeps what RetryIsSafe rests on.
LEMMA StepRetrying == ASSUME QueueAssumption, Tracking, Retrying, [Next]_vars PROVE Retrying'
  <1>1. Shape'
    BY StepTracking DEF Tracking
  <1>2. Tables' /\ Placed' /\ NotYet'
    BY <1>1, TablesStep, Whereabouts, NotYetStep DEF Retrying
  <1>3. Listing'
    BY <1>1, IdsStep, HandedStep, PolledStep DEF Retrying, Listing
  <1>4. Pages'
    BY <1>1, PagesStep DEF Retrying
  <1> QED
    BY <1>1, <1>2, <1>3, <1>4, TruthfulStep DEF Retrying

\* A bubble that offers Retry is of a message that agent-deck never had, or gave up before typing -
\* whatever polls, restarts and other messages do meanwhile - unless its CLI call was killed, its POST
\* seemed to fail, or another message's event claimed it.
THEOREM RetryThm == ASSUME QueueAssumption PROVE Spec => []RetryIsSafe
  <1>1. Init => Tracking /\ Retrying
    BY InitTracking, InitRetrying
  <1>2. Tracking /\ Retrying /\ [Next]_vars => (Tracking /\ Retrying)'
    BY StepTracking, StepRetrying
  <1>3. Retrying => RetryIsSafe
    BY PagesSafe DEF Retrying
  <1> QED
    BY <1>1, <1>2, <1>3, PTL DEF Spec

\* A send leaves the tracker when agent-deck has settled it, or when it is old and its status
\* cannot be read; a restart forgets one if its record was not saved, or all if it cannot read the file.
THEOREM ForgetsThm == ASSUME QueueAssumption PROVE Spec => ForgetsOnlySettled
  <1> DEFINE Known(r) == \/ deck[r] \in Settled \/ r \in old
                         \/ restarts' # restarts /\ (lossy \/ items' = {})
  <1>1. ASSUME Tracking, Retrying, FileIsTracker, [Next]_vars
        PROVE  [\A r \in items \ items' : Known(r)]_vars
    <2>0. items \subseteq Reqs
      BY <1>1 DEF Retrying, Tables
    <2>1. SUFFICES ASSUME NEW r \in items \ items' PROVE Known(r)
      OBVIOUS
    <2>2. ASSUME NEW s \in Sessions, NEW saved \in BOOLEAN, Track(s, saved) PROVE FALSE
      BY <2>1, <2>2 DEF Track
    <2>3. ASSUME NEW s \in Sessions, TrackObserve(s) PROVE FALSE
      <3>1. Ui("queued") \notin FinalUi
        BY DEF Ui, FinalUi
      <3> QED
        BY <2>1, <2>3, <3>1 DEF TrackObserve, Observe
    <2>4. ASSUME NEW p \in Pollers, NEW saved \in BOOLEAN, PollObserve(p, saved) PROVE Known(r)
      <3>1. poll[p].pc = "observe" /\ Observe(poll[p].req, poll[p].rec, saved)
        BY <2>4 DEF PollObserve
      <3>2. r = poll[p].req /\ Ui(poll[p].rec) \in FinalUi
        BY <2>1, <3>1 DEF Observe
      <3>3. poll[p].rec \in Settled
        BY <3>2, UiFacts
      <3>4. poll[p].req \in Reqs
        BY <2>0, <2>1, <3>2
      <3>5. poll[p].rec \in Settled => deck[poll[p].req] \in Settled \/ poll[p].req \in old
        BY <1>1, <3>1, <3>4, Zenon DEF Retrying, Truthful
      <3> QED
        BY <3>2, <3>3, <3>5
    <2>5. ASSUME NEW readable \in BOOLEAN, Restart(readable) PROVE Known(r)
      <3>1. restarts' = restarts + 1 /\ restarts \in Nat /\ items' = IF readable THEN file ELSE {}
        BY <1>1, <2>5 DEF Restart, Retrying, Tables
      <3>2. restarts' # restarts
        BY <3>1
      <3>3. readable => r \notin file
        BY <2>1, <3>1
      <3> QED
        BY <1>1, <2>1, <3>1, <3>2, <3>3 DEF FileIsTracker
    <2>6. ASSUME NEW s \in Sessions,
                 \/ Take(s) \/ EnqueueFailed(s) \/ TrackPublish(s) \/ TrackStart(s)
                 \/ \E outcome \in {"queued", "rejected", "killed"} : Enqueue(s, outcome)
          PROVE  FALSE
      BY <2>1, <2>6 DEF Take, EnqueueFailed, TrackPublish, TrackStart, Enqueue, trackVars
    <2>7. ASSUME NEW p \in Pollers,
                 PollSnapshot(p) \/ PollPublish(p) \/ PollEnd(p) \/ \E answered \in BOOLEAN : PollStatus(p, answered)
          PROVE  FALSE
      BY <2>1, <2>7 DEF PollSnapshot, PollPublish, PollEnd, PollStatus, trackVars
    <2>8. ASSUME NEW q \in Reqs, Ask(q) \/ PublishSent(q) \/ Answered(q) \/ Lost(q) \/ DeckStep(q) \/ Ages(q) PROVE FALSE
      BY <2>1, <2>8 DEF Ask, PublishSent, Answered, Lost, DeckStep, Ages, trackVars
    <2>9. CASE UNCHANGED vars
      BY <2>1, <2>9 DEF vars, trackVars
    <2> HIDE DEF Known
    <2> QED
      BY <1>1, <2>2, <2>3, <2>4, <2>5, <2>6, <2>7, <2>8, <2>9 DEF Next, Worker, Poller
  <1>2. Init => Tracking /\ Retrying
    BY InitTracking, InitRetrying
  <1>3. Tracking /\ Retrying /\ [Next]_vars => (Tracking /\ Retrying)'
    BY StepTracking, StepRetrying
  <1> QED
    BY <1>1, <1>2, <1>3, FileIsTrackerThm, PTL DEF Spec, ForgetsOnlySettled

-----------------------------------------------------------------------------
(* Types. *)

Others ==
    /\ \A s \in Sessions : Len(chan[s]) <= QueueCap
    /\ running \in BOOLEAN
    /\ key \in [Reqs -> {None} \cup (UiStates \X (0..Len(ids)))]
    /\ bubble \in [Reqs -> UiStates \cup {None}]
    /\ old \in SUBSET Reqs /\ restarts \in 0..MaxRestarts
    /\ lossy \in BOOLEAN /\ killed \in SUBSET Reqs
    /\ forgotten \in SUBSET Reqs /\ cut \in SUBSET Reqs

\* The other variables keep their types.
LEMMA OthersStep ==
  ASSUME QueueAssumption, Tables, Placed, NotYet, Truthful, Listing, Others, Shape', [Next]_vars
  PROVE  Others'
  <1> DEFINE Chans == \A s \in Sessions : Len(chan'[s]) <= QueueCap
             Keys == key' \in [Reqs -> {None} \cup (UiStates \X (0..Len(ids)'))]
             Bubbles == bubble' \in [Reqs -> UiStates \cup {None}]
             Flags == running' \in BOOLEAN /\ lossy' \in BOOLEAN
             History == /\ old' \in SUBSET Reqs /\ restarts' \in 0..MaxRestarts /\ killed' \in SUBSET Reqs
                        /\ forgotten' \in SUBSET Reqs /\ cut' \in SUBSET Reqs
             Good == Chans /\ Keys /\ Bubbles /\ Flags /\ History
  <1> USE DEF Others
  <1>1. Len(ids) <= Len(ids)' /\ Len(ids) \in Nat /\ Len(ids)' \in Nat
    BY IdsStep DEF Listing
  <1>2. ASSUME UNCHANGED key PROVE Keys
    <2>1. 0..Len(ids) \subseteq 0..Len(ids)'
      BY <1>1
    <2> QED
      BY <1>2, <2>1
  <1>3. ASSUME UNCHANGED chan PROVE Chans
    BY <1>3
  <1>4. ASSUME UNCHANGED bubble PROVE Bubbles
    BY <1>4
  <1>5. ASSUME UNCHANGED <<running, lossy>> PROVE Flags
    BY <1>5
  <1>6. ASSUME UNCHANGED <<restVars, cut>> PROVE History
    BY <1>6 DEF restVars
  <1>7. ASSUME NEW r, NEW state \in UiStates, Show(r, state) PROVE Bubbles /\ UNCHANGED cut
    BY <1>7 DEF Show
  <1>8. ASSUME NEW r \in Range(ids), NEW rec, NEW saved \in BOOLEAN, Observe(r, rec, saved), UNCHANGED <<ids, running>>
        PROVE  Keys /\ Flags
    <2>1. Ui(rec) \in UiStates
      BY DEF Ui, UiStates, FinalUi
    <2>2. Position(r) \in 0..Len(ids) /\ 0 \in 0..Len(ids)
      BY <1>1, PlaceIs DEF Listing
    <2>3. KeyOf(r, rec) \in UiStates \X (0..Len(ids))
      BY <2>1, <2>2 DEF KeyOf
    <2>4. key' = [key EXCEPT ![r] = KeyOf(r, rec)]
      BY <1>8 DEF Observe
    <2>5. Keys
      BY <1>8, <2>3, <2>4
    <2>6. Flags
      BY <1>8 DEF Observe, Save
    <2> QED
      BY <2>5, <2>6
  <1>9. ASSUME NEW r \in Reqs, Ask(r) PROVE Good
    <2>1. /\ UNCHANGED <<key, running, lossy, restVars, cut>>
          /\ bubble' = [bubble EXCEPT ![r] = "sent"] \/ bubble' = [bubble EXCEPT ![r] = "failed"]
          /\ chan' = chan \/ (Len(chan[Of[r]]) < QueueCap /\ chan' = [chan EXCEPT ![Of[r]] = Append(chan[Of[r]], r)])
      BY <1>9 DEF Ask, trackVars, pageVars
    <2>2. Chans
      <3>1. Of[r] \in Sessions /\ chan \in [Sessions -> Seq(Reqs)] /\ QueueCap \in Nat
        BY DEF Tables, Shape, QueueAssumption
      <3>2. chan[Of[r]] \in Seq(Reqs)
        BY <3>1
      <3>3. Len(Append(chan[Of[r]], r)) = Len(chan[Of[r]]) + 1 /\ Len(chan[Of[r]]) \in Nat
        BY <3>2, AppendProperties
      <3>4. Len(chan[Of[r]]) < QueueCap => Len(Append(chan[Of[r]], r)) <= QueueCap
        BY <3>1, <3>3
      <3> QED
        BY <2>1, <3>1, <3>4
    <2>3. Bubbles
      BY <2>1 DEF UiStates, FinalUi
    <2> HIDE DEF Chans, Keys, Bubbles, Flags, History
    <2> QED
      BY <1>2, <1>5, <1>6, <2>1, <2>2, <2>3
  <1>10. ASSUME NEW s \in Sessions, Take(s) PROVE Good
    <2>1. UNCHANGED <<key, bubble, running, lossy, restVars, cut>> /\ chan[s] # <<>> /\ chan' = [chan EXCEPT ![s] = Tail(chan[s])]
      BY <1>10 DEF Take, trackVars, pageVars
    <2>2. Len(Tail(chan[s])) <= QueueCap
      BY <2>1, HeadTailProperties DEF Tables, Shape, QueueAssumption
    <2>3. Chans
      BY <2>1, <2>2 DEF Tables, Shape
    <2> HIDE DEF Chans, Keys, Bubbles, Flags, History
    <2> QED
      BY <1>2, <1>4, <1>5, <1>6, <2>1, <2>3
  <1>11. ASSUME NEW r \in Reqs, PublishSent(r) PROVE Good
    <2>1. UNCHANGED <<key, chan, running, lossy, restVars>> /\ Show(r, "sent") /\ "sent" \in UiStates
      BY <1>11 DEF PublishSent, trackVars, UiStates
    <2> HIDE DEF Chans, Keys, Bubbles, Flags, History
    <2> QED
      BY <1>2, <1>3, <1>5, <1>6, <1>7, <2>1
  <1>25. ASSUME NEW r \in Reqs, Lost(r) PROVE Good
    <2>1. UNCHANGED <<key, chan, running, lossy>>
      BY <1>25 DEF Lost, trackVars
    <2>2. History
      BY <1>25 DEF Lost, restVars
    <2>3. Bubbles
      BY <1>25 DEF Lost, UiStates, FinalUi
    <2> HIDE DEF Chans, Keys, Bubbles, Flags, History
    <2> QED
      BY <1>2, <1>3, <1>5, <2>1, <2>2, <2>3
  <1>12. ASSUME NEW r \in Reqs, Answered(r) \/ DeckStep(r) \/ Ages(r) PROVE Good
    <2>1. UNCHANGED <<key, chan, running, lossy, bubble>>
      BY <1>12 DEF Answered, DeckStep, Ages, trackVars, pageVars
    <2>2. History
      BY <1>12 DEF Answered, DeckStep, Ages, restVars, pageVars
    <2> HIDE DEF Chans, Keys, Bubbles, Flags, History
    <2> QED
      BY <1>2, <1>3, <1>4, <1>5, <2>1, <2>2
  <1>13. ASSUME NEW s \in Sessions, NEW outcome \in {"queued", "rejected", "killed"}, Enqueue(s, outcome) PROVE Good
    <2>1. UNCHANGED <<key, chan, running, lossy, bubble>>
      BY <1>13 DEF Enqueue, trackVars, pageVars
    <2>2. History
      BY <1>13, HandOver DEF Enqueue, pageVars
    <2> HIDE DEF Chans, Keys, Bubbles, Flags, History
    <2> QED
      BY <1>2, <1>3, <1>4, <1>5, <2>1, <2>2
  <1>14. ASSUME NEW s \in Sessions, EnqueueFailed(s) \/ TrackPublish(s) PROVE Good
    <2>1. UNCHANGED <<key, chan, running, lossy, restVars>>
      BY <1>14 DEF EnqueueFailed, TrackPublish, trackVars
    <2>2. Show(worker[s].req, "failed") \/ Show(worker[s].req, "queued")
      BY <1>14 DEF EnqueueFailed, TrackPublish, Placed
    <2>3. "failed" \in UiStates /\ "queued" \in UiStates
      BY DEF UiStates, FinalUi
    <2> HIDE DEF Chans, Keys, Bubbles, Flags, History
    <2> QED
      BY <1>2, <1>3, <1>5, <1>6, <1>7, <2>1, <2>2, <2>3
  <1>15. ASSUME NEW s \in Sessions, NEW saved \in BOOLEAN, Track(s, saved) PROVE Good
    <2>1. UNCHANGED <<key, chan, bubble, restVars, cut>>
      BY <1>15 DEF Track, pageVars
    <2>2. Flags
      BY <1>15 DEF Track, Save
    <2> HIDE DEF Chans, Keys, Bubbles, Flags, History
    <2> QED
      BY <1>2, <1>3, <1>4, <1>6, <2>1, <2>2
  <1>16. ASSUME NEW s \in Sessions, TrackObserve(s) PROVE Good
    <2>1. /\ UNCHANGED <<chan, bubble, restVars, cut, ids, running>> /\ Observe(worker[s].req, "queued", TRUE)
          /\ worker[s].pc \in Handed
      BY <1>16 DEF TrackObserve, deckVars, Handed, pageVars
    <2>2. worker[s].req \in Range(ids)
      BY <2>1 DEF Listing
    <2> HIDE DEF Chans, Keys, Bubbles, Flags, History
    <2> QED
      BY <1>3, <1>4, <1>6, <1>8, <2>1, <2>2
  <1>17. ASSUME NEW s \in Sessions, TrackStart(s) PROVE Good
    <2>1. UNCHANGED <<key, chan, bubble, restVars, cut>>
      BY <1>17 DEF TrackStart, pageVars
    <2>2. Flags
      BY <1>17 DEF TrackStart, StartPoller
    <2> HIDE DEF Chans, Keys, Bubbles, Flags, History
    <2> QED
      BY <1>2, <1>3, <1>4, <1>6, <2>1, <2>2
  <1>18. ASSUME NEW p \in Pollers, PollSnapshot(p) \/ \E answered \in BOOLEAN : PollStatus(p, answered) PROVE Good
    <2>1. UNCHANGED <<key, chan, bubble, restVars, cut, running, lossy>>
      BY <1>18 DEF PollSnapshot, PollStatus, trackVars, pageVars
    <2> HIDE DEF Chans, Keys, Bubbles, Flags, History
    <2> QED
      BY <1>2, <1>3, <1>4, <1>5, <1>6, <2>1
  <1>19. ASSUME NEW p \in Pollers, NEW saved \in BOOLEAN, PollObserve(p, saved) PROVE Good
    <2>1. /\ UNCHANGED <<chan, bubble, restVars, cut, ids, running>> /\ Observe(poll[p].req, poll[p].rec, saved)
          /\ poll[p].pc = "observe"
      BY <1>19 DEF PollObserve, deckVars, pageVars
    <2>2. poll[p].req \in Range(ids)
      BY <2>1 DEF Listing, Polled
    <2> HIDE DEF Chans, Keys, Bubbles, Flags, History
    <2> QED
      BY <1>3, <1>4, <1>6, <1>8, <2>1, <2>2
  <1>20. ASSUME NEW p \in Pollers, PollPublish(p) PROVE Good
    <2>1. UNCHANGED <<key, chan, restVars, running, lossy>> /\ Show(poll[p].req, poll[p].ev)
      BY <1>20 DEF PollPublish, trackVars
    <2>2. poll[p].ev = Ui(poll[p].rec)
      BY <1>20, Zenon DEF Truthful, PollPublish
    <2>3. poll[p].ev \in UiStates
      BY <2>2 DEF Ui, UiStates, FinalUi
    <2> HIDE DEF Chans, Keys, Bubbles, Flags, History
    <2> QED
      BY <1>2, <1>3, <1>5, <1>6, <1>7, <2>1, <2>3
  <1>21. ASSUME NEW p \in Pollers, PollEnd(p) PROVE Good
    <2>1. UNCHANGED <<key, chan, bubble, restVars, cut>>
      BY <1>21 DEF PollEnd, pageVars
    <2>2. Flags
      BY <1>21 DEF PollEnd
    <2> HIDE DEF Chans, Keys, Bubbles, Flags, History
    <2> QED
      BY <1>2, <1>3, <1>4, <1>6, <2>1, <2>2
  <1>22. ASSUME NEW readable \in BOOLEAN, Restart(readable) PROVE Good
    <2>1. Bubbles /\ key' = [r \in Reqs |-> None]
      BY <1>22 DEF Restart, UiStates, FinalUi
    <2>2. Flags
      BY <1>22 DEF Restart
    <2>3. History
      <3>1. restarts' \in 0..MaxRestarts
        BY <1>22 DEF Restart, QueueAssumption
      <3> QED
        BY <1>22, <3>1 DEF Restart, Tables
    <2>4. Chans
      <3>1. \A s \in Sessions : chan'[s] = <<>>
        BY <1>22 DEF Restart
      <3>2. QueueCap >= 0 /\ Len(<<>>) = 0
        BY DEF QueueAssumption
      <3> QED
        BY <3>1, <3>2
    <2>5. Keys
      BY <2>1
    <2> HIDE DEF Chans, Keys, Bubbles, Flags, History
    <2> QED
      BY <2>1, <2>2, <2>3, <2>4, <2>5
  <1>23. ASSUME UNCHANGED vars PROVE Good
    <2>1. UNCHANGED <<key, chan, bubble, restVars, cut, running, lossy>>
      BY <1>23 DEF vars, trackVars, restVars, pageVars
    <2> HIDE DEF Chans, Keys, Bubbles, Flags, History
    <2> QED
      BY <1>2, <1>3, <1>4, <1>5, <1>6, <2>1
  <1> HIDE DEF Good
  <1>24. Good
    BY <1>9, <1>10, <1>11, <1>12, <1>25, <1>13, <1>14, <1>15, <1>16, <1>17, <1>18, <1>19, <1>20, <1>21, <1>22, <1>23
       DEF Next, Worker, Poller
  <1> QED
    BY <1>24 DEF Good

Typing == Tracking /\ Retrying /\ Others

\* Nothing has an id at the start.
LEMMA InitTyping == ASSUME QueueAssumption PROVE Init => Typing
  <1> SUFFICES ASSUME Init PROVE Typing
    OBVIOUS
  <1>5. \A s \in Sessions : Len(chan[s]) <= QueueCap
    <2>1. \A s \in Sessions : chan[s] = <<>>
      BY DEF Init
    <2>2. QueueCap >= 0 /\ Len(<<>>) = 0
      BY DEF QueueAssumption
    <2> QED
      BY <2>1, <2>2
  <1>6. Others
    <2>1. key \in [Reqs -> {None} \cup (UiStates \X (0..Len(ids)))] /\ bubble \in [Reqs -> UiStates \cup {None}]
      BY DEF Init
    <2>2. restarts \in 0..MaxRestarts
      BY DEF Init, QueueAssumption
    <2>3. running \in BOOLEAN /\ lossy \in BOOLEAN /\ old \in SUBSET Reqs /\ killed \in SUBSET Reqs
          /\ forgotten \in SUBSET Reqs /\ cut \in SUBSET Reqs
      BY DEF Init
    <2> QED
      BY <1>5, <2>1, <2>2, <2>3 DEF Others
  <1> QED
    BY <1>6, InitTracking, InitRetrying DEF Typing

\* Every step keeps what the types rest on.
LEMMA StepTyping == ASSUME QueueAssumption, Typing, [Next]_vars PROVE Typing'
  <1>1. Tracking' /\ Retrying' /\ Shape'
    BY StepTracking, StepRetrying DEF Typing, Tracking
  <1>2. Tables /\ Placed /\ NotYet /\ Truthful /\ Listing /\ Others
    BY DEF Typing, Retrying
  <1>3. Others'
    BY <1>1, <1>2, OthersStep
  <1> QED
    BY <1>1, <1>3 DEF Typing

\* The parts of the types are where the proof found them.
LEMMA TypedIs == ASSUME Typing PROVE TypeOK
  <1>1. Range(ids) \subseteq Reqs
    BY DEF Typing, Retrying, Listing, Range
  <1>2. chan \in [Sessions -> Seq(Reqs)] /\ worker \in [Sessions -> Working]
    BY DEF Typing, Tracking, Shape
  <1>3. /\ phone \in [Reqs -> {"unsent", "accepted", "told", "done", "refused"}]
        /\ deck \in [Reqs -> DeckStates \cup {None}]
        /\ conv \in [Sessions -> Seq(Reqs)] /\ tag \in [Reqs -> Reqs \cup {None}]
        /\ items \in SUBSET Reqs /\ file \in SUBSET Reqs
    BY DEF Typing, Retrying, Tables, Pages
  <1>4. \A p \in Pollers :
          /\ poll[p].pc \in {"off", "sleep", "status", "observe", "publish", "end"}
          /\ poll[p].todo \subseteq Reqs /\ poll[p].req \in Reqs \cup {None}
          /\ poll[p].rec \in DeckStates \cup {None} /\ poll[p].ev \in UiStates \cup {None}
    BY <1>1 DEF Typing, Retrying, Listing, Polled
  <1>5. ids \in Seq(Reqs) /\ IsInjective(ids)
    BY DEF Typing, Retrying, Listing
  <1>6. /\ \A s \in Sessions : chan[s] \in Seq(Reqs) /\ Len(chan[s]) <= QueueCap
        /\ \A s \in Sessions : conv[s] \in Seq(Reqs)
    BY <1>2, <1>3 DEF Typing, Others
  <1> QED
    BY <1>2, <1>3, <1>4, <1>5, <1>6 DEF Typing, Others, Working, TypeOK

\* Type correctness of the messages, the tracker and its loops: among others, a send that is tracked,
\* on file or with a loop has the one id that agent-deck gave it.
THEOREM MessagesTyped == ASSUME QueueAssumption PROVE Spec => []TypeOK
  <1> QED
    BY InitTyping, StepTyping, TypedIs, PTL DEF Spec

=============================================================================
