--------------------------- MODULE WatcherProofs ---------------------------
(* One push per dialog, reply and stall, for any sessions, dialogs, replies, labels and faults. *)
EXTENDS Watcher, TLAPS

Screens == [dlg : Dialogs \cup {None}, reply : Replies, label : Labels \cup {None}]

\* What the proofs need of the types.
TermShape == tool \in [Sessions -> {"claude", "codex"}] /\ term \in [Sessions -> Screens]
IsJob(j) == DOMAIN j = {"pc", "ok", "dlg", "label", "att", "reply", "stalled", "long"}
JobShape ==
    /\ job = [s \in Sessions |-> job[s]]
    /\ \A s \in Sessions :
        /\ IsJob(job[s]) /\ job[s].pc \in {"off", "capture", "snap", "notify"}
        /\ job[s].dlg \in Dialogs \cup {None}
CacheShape ==
    /\ sw = [s \in Sessions |-> sw[s]] /\ attn \in [Sessions -> Dialogs \cup {None}]
    /\ acts = [s \in Sessions |-> acts[s]]
    /\ \A s \in Sessions : acts[s].count \in 0..StallThreshold
HistShape ==
    /\ pushes \in [Sessions -> 0..2] /\ alerts \in [Sessions -> 0..2]
    /\ unseen = [s \in Sessions |-> unseen[s]] /\ known = [s \in Sessions |-> known[s]]
Shape == TermShape /\ JobShape /\ CacheShape /\ HistShape

\* A session without latches has those of a new one; a stall is of a run of some length.
Fresh(s) == s \notin seen => sw[s] = NewWatch
Stalls(s) == acts[s].stalled => acts[s].working /\ acts[s].last # NoKey /\ acts[s].count = StallThreshold

\* A job has a pane when it has read one, and what Claude's job found is on it.
FromPane(s) ==
    /\ job[s].pc = "capture" => ~job[s].ok
    /\ job[s].pc = "notify" /\ Claude(s) => job[s].att = IF job[s].ok THEN job[s].dlg ELSE None

\* A dialog that was pushed and is still up, with no unreadable pane since.
Pushed(s) == pushes[s] > 0 /\ term[s].dlg \notin unseen[s] \cup {None}

\* The latch of the dialog that is up.
Latch(s) == IF Claude(s) /\ term[s].dlg \in Approvals THEN sw[s].permNotified
            ELSE sw[s].attentionID = term[s].dlg

\* A job under way will see the dialog that is up, or leave its latch alone.
Agrees(s) ==
    /\ job[s].pc \in {"snap", "notify"} =>
         IF job[s].ok THEN job[s].dlg = term[s].dlg ELSE Claude(s) /\ s \in seen
    /\ job[s].pc = "notify" /\ ~Claude(s) => job[s].att = term[s].dlg

Latched(s) == Pushed(s) => (s \in seen => Latch(s)) /\ Agrees(s)
DialogOnce(s) == pushes[s] > 1 => term[s].dlg \in unseen[s] \cup {None}

\* The reply last pushed is the one the latches hold.
ReplyKnown(s) == s \in seen => known[s] = sw[s].notifiedHash

\* A run whose stall was pushed or known at first sight is latched until it ends; nobody pushes the
\* stall of a run that is over.
StallLatched(s) ==
    /\ alerts[s] > 0 => /\ s \in seen /\ sw[s].stallNotified /\ acts[s].stalled
                        /\ job[s].pc = "notify" => job[s].stalled
    /\ job[s].pc = "notify" /\ job[s].stalled /\ s \in frozen => acts[s].stalled
    /\ alerts[s] < 2

Good(s) == /\ Fresh(s) /\ Stalls(s) /\ FromPane(s) /\ Latched(s) /\ DialogOnce(s)
           /\ ReplyKnown(s) /\ StallLatched(s)

WInv == Shape /\ repeated = {} /\ \A s \in Sessions : Good(s)

\* The invariant says what the watcher promises.
LEMMA WInvOnce == ASSUME WatcherAssumption, WInv PROVE PushesOnce
  <1>1. TypeOK
    BY DEF WInv, Good, Shape, TermShape, JobShape, CacheShape, Screens, Fresh, Stalls, TypeOK
  <1>2. PushedOnce /\ StallPushedOnce /\ ReplyPushedOnce
    BY DEF WInv, Good, DialogOnce, StallLatched, PushedOnce, StallPushedOnce, ReplyPushedOnce
  <1> QED
    BY <1>1, <1>2 DEF PushesOnce

\* An idle job and an idle session.
LEMMA Idle ==
         /\ OffJob.pc = "off" /\ OffJob.dlg = None /\ IsJob(OffJob)
         /\ NoActivity.count = 0 /\ ~NoActivity.stalled /\ ~OffJob.ok
  BY DEF OffJob, NoActivity, IsJob

\* Nothing was seen or pushed at the start.
LEMMA InitWatch == ASSUME WatcherAssumption, Init PROVE WInv
  <1>1. TermShape
    BY DEF Init, TermShape, Screens
  <1>2. JobShape
    BY Idle DEF Init, JobShape
  <1>5. HistShape
    BY DEF Init, HistShape
  <1>4. CacheShape
    <2>1. \A s \in Sessions : acts[s] = NoActivity
      BY DEF Init
    <2>2. StallThreshold \in Nat
      BY DEF WatcherAssumption
    <2>3. \A s \in Sessions : acts[s].count \in 0..StallThreshold
      BY <2>1, <2>2, Idle
    <2> QED
      BY <2>3 DEF Init, CacheShape
  <1>3. ASSUME NEW s \in Sessions PROVE Good(s)
    <2>1. job[s].pc = "off" /\ sw[s] = NewWatch /\ s \notin seen /\ pushes[s] = 0 /\ alerts[s] = 0
      BY Idle DEF Init
    <2>2. ~acts[s].stalled
      BY Idle DEF Init
    <2>3. FromPane(s)
      BY <2>1 DEF FromPane
    <2>4. StallLatched(s)
      BY <2>1 DEF StallLatched
    <2>5. Fresh(s) /\ ReplyKnown(s)
      BY <2>1, <2>2 DEF Fresh, ReplyKnown
    <2>6. Stalls(s) /\ Latched(s) /\ DialogOnce(s)
      BY <2>1, <2>2 DEF Stalls, Latched, Pushed, DialogOnce
    <2> QED
      BY <2>3, <2>4, <2>5, <2>6 DEF Good
  <1> QED
    BY <1>1, <1>2, <1>3, <1>4, <1>5 DEF Init, WInv, Shape

\* What a step leaves of a session.
Still(s) ==
    /\ tool'[s] = tool[s] /\ term'[s].dlg = term[s].dlg
    /\ pushes'[s] = pushes[s] /\ unseen'[s] = unseen[s]
    /\ s \in seen' <=> s \in seen
    /\ sw'[s] = sw[s] /\ known'[s] = known[s]
StillRuns(s) == acts'[s] = acts[s] /\ alerts'[s] = alerts[s] /\ (s \in frozen' => s \in frozen)

\* What holds of a session holds while nothing happens to it, or while its job ends.
LEMMA Frame ==
  ASSUME NEW s \in Sessions, Good(s), Still(s), StillRuns(s), job'[s] = job[s] \/ job'[s].pc = "off"
  PROVE  Good(s)'
  <1> USE DEF Still, StillRuns, Good
  <1>1. Stalls(s)'
    BY DEF Stalls
  <1>5. Fresh(s)' /\ ReplyKnown(s)'
    BY DEF Fresh, ReplyKnown
  <1>6. DialogOnce(s)'
    BY DEF DialogOnce
  <1>2. FromPane(s)'
    BY DEF FromPane, Claude
  <1>3. Latched(s)'
    BY DEF Latched, Pushed, Latch, Agrees, Claude
  <1>4. StallLatched(s)'
    BY DEF StallLatched
  <1> QED
    BY <1>1, <1>2, <1>3, <1>4, <1>5, <1>6

\* The step of the activity cache: a stalled run that goes on is stalled, and a run that ends takes
\* its clock and its push with it.
LEMMA UpdateIs ==
  ASSUME WatcherAssumption, WInv, NEW s \in Sessions, NEW working \in BOOLEAN, NEW label, NEW looks,
         Update(s, working, label, looks)
  PROVE  /\ acts' = [q \in Sessions |-> acts'[q]]
         /\ acts'[s].count \in 0..StallThreshold
         /\ Stalls(s)'
         /\ alerts' \in [Sessions -> 0..2]
         /\ alerts'[s] > 0 => alerts'[s] = alerts[s] /\ (acts[s].stalled => acts'[s].stalled)
         /\ s \in frozen' => s \in frozen /\ (acts[s].stalled => acts'[s].stalled)
         /\ alerts'[s] <= alerts[s]
         /\ \A q \in Sessions \ {s} : StillRuns(q)
  <1>0. StallThreshold \in Nat \ {0} /\ acts[s].count \in 0..StallThreshold /\ Stalls(s)
    BY DEF WatcherAssumption, WInv, Shape, CacheShape, Good
  <1>1. acts' = [acts EXCEPT ![s] = StepStall(acts[s], working, label)]
    BY DEF Update
  <1>2. acts'[s] = StepStall(acts[s], working, label) /\ acts' = [q \in Sessions |-> acts'[q]]
        /\ \A q \in Sessions \ {s} : acts'[q] = acts[q]
    BY <1>1 DEF WInv, Shape, CacheShape
  <1>3. /\ acts'[s].count \in 0..StallThreshold
        /\ Stalls(s)'
        /\ SameRun(acts[s], working, label) /\ acts[s].stalled => acts'[s].stalled
    <2>1. CASE ~working
      BY <1>0, <1>2, <2>1, Idle DEF StepStall, SameRun, Stalls
    <2>2. CASE working
      <3> DEFINE count == IF ~SameRun(acts[s], working, label) THEN 1
                          ELSE IF acts[s].count < StallThreshold THEN acts[s].count + 1 ELSE StallThreshold
      <3>1. count \in 1..StallThreshold
        BY <1>0
      <3>2. SameRun(acts[s], working, label) /\ acts[s].stalled => count = StallThreshold
        BY <1>0 DEF Stalls
      <3> HIDE DEF count
      <3> DEFINE stuck == label # NoKey /\ count >= StallThreshold
      <3>3. acts'[s] = [working |-> TRUE, last |-> label, count |-> count, stalled |-> stuck]
        BY <1>2, <2>2 DEF StepStall, count
      <3> HIDE DEF stuck
      <3>4. acts'[s].working /\ acts'[s].last = label /\ acts'[s].count = count /\ acts'[s].stalled = stuck
        BY <3>3
      <3>5. acts'[s].stalled <=> label # NoKey /\ count >= StallThreshold
        BY <3>4 DEF stuck
      <3> QED
        BY <1>0, <3>1, <3>2, <3>4, <3>5 DEF SameRun, Stalls
    <2> QED
      BY <2>1, <2>2
  <1>4. CASE SameRun(acts[s], working, label)
    <2>1. UNCHANGED <<frozen, alerts>>
      BY <1>4 DEF Update
    <2>2. alerts \in [Sessions -> 0..2]
      BY DEF WInv, Shape, HistShape
    <2> QED
      BY <1>2, <1>3, <1>4, <2>1, <2>2 DEF StillRuns
  <1>5. CASE ~SameRun(acts[s], working, label)
    <2>1. frozen' = frozen \ {s} /\ alerts' = [alerts EXCEPT ![s] = 0]
      BY <1>5 DEF Update
    <2>2. alerts' \in [Sessions -> 0..2] /\ alerts'[s] = 0 /\ 0 <= alerts[s]
          /\ \A q \in Sessions \ {s} : alerts'[q] = alerts[q]
      BY <2>1 DEF WInv, Shape, HistShape
    <2>3. s \notin frozen' /\ frozen' \subseteq frozen
      BY <2>1
    <2> QED
      BY <1>2, <1>3, <2>2, <2>3 DEF StillRuns
  <1> QED
    BY <1>4, <1>5

\* Of the actions that touch one session only, the others stay good.
LEMMA OneStep ==
  ASSUME WInv, Shape', NEW s \in Sessions, Good(s)', repeated' = {},
         \A q \in Sessions \ {s} : Still(q) /\ StillRuns(q) /\ job'[q] = job[q]
  PROVE  WInv'
  BY Frame DEF WInv

\* The world around a session.
LEMMA WorldSteps ==
  ASSUME WatcherAssumption, WInv, NEW s \in Sessions, World(s)
  PROVE  WInv'
  <1> USE DEF World, vars, termVars, seenVars, histVars
  <1>0. Shape /\ Good(s)
    BY DEF WInv
  <1>1. UNCHANGED <<tool, job, sw, attn, acts, known, alerts, seen, frozen, repeated>>
    BY DEF ShowDialog, DialogGone, Speaks, Spins
  <1>2. /\ term' \in [Sessions -> Screens]
        /\ \A q \in Sessions \ {s} : term'[q] = term[q] /\ pushes'[q] = pushes[q] /\ unseen'[q] = unseen[q]
        /\ pushes' \in [Sessions -> 0..2] /\ unseen' = [q \in Sessions |-> unseen'[q]]
        /\ \/ pushes'[s] = 0
           \/ pushes'[s] = pushes[s] /\ unseen'[s] = unseen[s] /\ term'[s].dlg \in {term[s].dlg, None}
    <2>1. CASE ShowDialog(s)
      <3>1. PICK d \in Dialogs : term' = [term EXCEPT ![s].dlg = d]
        BY <2>1 DEF ShowDialog
      <3>2. term' \in [Sessions -> Screens] /\ \A q \in Sessions \ {s} : term'[q] = term[q]
        BY <1>0, <3>1 DEF Shape, TermShape, Screens
      <3>3. pushes' = [pushes EXCEPT ![s] = 0] /\ unseen' = [unseen EXCEPT ![s] = {}]
        BY <2>1 DEF ShowDialog
      <3>4. /\ pushes' \in [Sessions -> 0..2] /\ unseen' = [q \in Sessions |-> unseen'[q]]
            /\ pushes'[s] = 0 /\ \A q \in Sessions \ {s} : pushes'[q] = pushes[q] /\ unseen'[q] = unseen[q]
        BY <1>0, <3>3 DEF Shape, HistShape
      <3> QED
        BY <3>2, <3>4
    <2>2. CASE DialogGone(s)
      BY <1>0, <2>2 DEF DialogGone, Shape, TermShape, HistShape, Screens
    <2>3. CASE Speaks(s)
      BY <1>0, <2>3 DEF Speaks, Shape, TermShape, HistShape, Screens
    <2>4. CASE Spins(s)
      <3>1. PICK l \in Labels \cup {None} : term' = [term EXCEPT ![s].label = l]
        BY <2>4 DEF Spins
      <3>2. /\ term' \in [Sessions -> Screens] /\ \A q \in Sessions \ {s} : term'[q] = term[q]
            /\ term'[s].dlg = term[s].dlg
        BY <1>0, <3>1 DEF Shape, TermShape, Screens
      <3> QED
        BY <1>0, <2>4, <3>2 DEF Spins, Shape, HistShape
    <2> QED
      BY <2>1, <2>2, <2>3, <2>4
  <1>3. Shape'
    BY <1>0, <1>1, <1>2 DEF Shape, TermShape, JobShape, CacheShape, HistShape
  <1>4. Good(s)'
    <2>1. Fresh(s)' /\ Stalls(s)' /\ ReplyKnown(s)'
      BY <1>0, <1>1 DEF Good, Fresh, Stalls, ReplyKnown
    <2>2. FromPane(s)'
      BY <1>0, <1>1 DEF Good, FromPane, Claude
    <2>3. StallLatched(s)'
      BY <1>0, <1>1 DEF Good, StallLatched
    <2>4. DialogOnce(s)'
      BY <1>0, <1>2 DEF Good, DialogOnce
    <2>5. Latched(s)'
      BY <1>0, <1>1, <1>2 DEF Good, Latched, Pushed, Latch, Agrees, Claude
    <2> QED
      BY <2>1, <2>2, <2>3, <2>4, <2>5 DEF Good
  <1>5. \A q \in Sessions \ {s} : Still(q) /\ StillRuns(q) /\ job'[q] = job[q]
    BY <1>1, <1>2 DEF Still, StillRuns
  <1> QED
    BY <1>1, <1>3, <1>4, <1>5, OneStep DEF WInv

\* Steps that change nothing the invariant speaks of, and the clocks.
LEMMA CalmSteps ==
  ASSUME WatcherAssumption, WInv,
         UNCHANGED <<tool, term, job, seen, sw, attn, acts, pushes, unseen, known, repeated, alerts>>,
         \A s \in Sessions : s \in frozen' => s \in frozen \/ job[s].pc = "off"
  PROVE  WInv'
  <1>1. Shape'
    BY DEF WInv, Shape, TermShape, JobShape, CacheShape, HistShape
  <1>2. ASSUME NEW s \in Sessions PROVE Good(s)'
    <2>0. Good(s)
      BY DEF WInv
    <2>1. Still(s) /\ job'[s] = job[s]
      BY DEF Still
    <2>2. CASE job[s].pc # "off"
      BY <2>0, <2>1, <2>2, Frame DEF StillRuns
    <2>3. CASE job[s].pc = "off"
      <3>1. StallLatched(s)'
        BY <2>0, <2>3 DEF Good, StallLatched
      <3>2. Fresh(s)' /\ Stalls(s)' /\ ReplyKnown(s)' /\ DialogOnce(s)' /\ FromPane(s)'
        BY <2>0, <2>3 DEF Good, Fresh, Stalls, ReplyKnown, DialogOnce, FromPane
      <3>3. Latched(s)'
        BY <2>0, <2>3 DEF Good, Latched, Pushed, Latch, Agrees, Claude
      <3> QED
        BY <3>1, <3>2, <3>3 DEF Good
    <2> QED
      BY <2>2, <2>3
  <1> QED
    BY <1>1, <1>2 DEF WInv

\* The clocks of a session, and a capture for the phone.
LEMMA ClockSteps ==
  ASSUME WatcherAssumption, WInv, NEW s \in Sessions, Clocks(s) \/ PollCaptures(s)
  PROVE  WInv'
  <1> USE DEF termVars, seenVars, histVars
  <1>1. CASE SettleAges(s)
    BY <1>1, CalmSteps DEF SettleAges
  <1>2. CASE FreezeAges(s)
    BY <1>2, CalmSteps DEF FreezeAges, Quiet
  <1>3. CASE PollCaptures(s)
    BY <1>3, CalmSteps DEF PollCaptures
  <1> QED
    BY <1>1, <1>2, <1>3 DEF Clocks

\* The phone's activity poll.
LEMMA PollStoreStep ==
  ASSUME WatcherAssumption, WInv, NEW s \in Sessions, PollStores(s)
  PROVE  WInv'
  <1> USE DEF termVars, seenVars
  <1>0. Shape /\ Good(s)
    BY DEF WInv
  <1>1. UNCHANGED <<tool, term, job, seen, sw, attn, pushes, unseen, known, repeated>>
    BY DEF PollStores
  <1>2. PICK working \in BOOLEAN : \E label : Update(s, working, label, FALSE)
    BY DEF PollStores
  <1>3. Shape'
    <2>1. /\ acts' = [q \in Sessions |-> acts'[q]]
          /\ acts'[s].count \in 0..StallThreshold /\ alerts' \in [Sessions -> 0..2]
          /\ \A q \in Sessions \ {s} : acts'[q] = acts[q]
      BY <1>2, UpdateIs DEF StillRuns
    <2> QED
      BY <1>0, <1>1, <2>1 DEF Shape, TermShape, JobShape, CacheShape, HistShape
  <1>4. Good(s)'
    <2>1. Fresh(s)' /\ ReplyKnown(s)' /\ DialogOnce(s)'
      BY <1>0, <1>1 DEF Good, Fresh, ReplyKnown, DialogOnce
    <2>2. FromPane(s)'
      BY <1>0, <1>1 DEF Good, FromPane, Claude
    <2>3. Latched(s)'
      BY <1>0, <1>1 DEF Good, Latched, Pushed, Latch, Agrees, Claude
    <2>4. Stalls(s)'
      BY <1>2, UpdateIs
    <2>5. /\ alerts'[s] > 0 => alerts'[s] = alerts[s] /\ (acts[s].stalled => acts'[s].stalled)
          /\ s \in frozen' => s \in frozen /\ (acts[s].stalled => acts'[s].stalled)
          /\ alerts'[s] <= alerts[s] /\ alerts[s] \in 0..2 /\ alerts'[s] \in 0..2
      BY <1>0, <1>2, UpdateIs DEF Shape, HistShape
    <2>6. StallLatched(s)'
      BY <1>0, <1>1, <2>5 DEF Good, StallLatched
    <2> QED
      BY <2>1, <2>2, <2>3, <2>4, <2>6 DEF Good
  <1>5. \A q \in Sessions \ {s} : Still(q) /\ StillRuns(q) /\ job'[q] = job[q]
    BY <1>1, <1>2, UpdateIs DEF Still
  <1> QED
    BY <1>1, <1>3, <1>4, <1>5, OneStep DEF WInv

\* The steps of a job change nothing of the session, and of the others nothing at all.
LEMMA JobFrame ==
  ASSUME WatcherAssumption, WInv, NEW s \in Sessions,
         UNCHANGED <<tool, term, acts, alerts, frozen, seen, sw, known, pushes, repeated>>,
         attn' \in [Sessions -> Dialogs \cup {None}],
         unseen' = unseen \/ \E u : unseen' = [unseen EXCEPT ![s] = u],
         \E j : /\ job' = [job EXCEPT ![s] = j]
               /\ IsJob(j) /\ j.pc \in {"off", "capture", "snap", "notify"} /\ j.dlg \in Dialogs \cup {None},
         Good(s)'
  PROVE  WInv'
  <1>1. Shape'
    <2>1. TermShape' /\ CacheShape' /\ HistShape'
      BY DEF WInv, Shape, TermShape, CacheShape, HistShape
    <2>2. JobShape'
      BY DEF WInv, Shape, JobShape
    <2> QED
      BY <2>1, <2>2 DEF Shape
  <1>2. \A q \in Sessions \ {s} : Still(q) /\ StillRuns(q) /\ job'[q] = job[q]
    BY DEF Still, StillRuns, WInv, Shape, HistShape, JobShape
  <1> QED
    BY <1>1, <1>2, OneStep DEF WInv

\* The capture of the pane, and its failures.
LEMMA CaptureSteps ==
  ASSUME WatcherAssumption, WInv, NEW s \in Sessions,
         Capture(s) \/ CaptureFails(s) \/ CaptureRefused(s) \/ SnapFails(s)
  PROVE  WInv'
  <1> USE DEF termVars, seenVars, histVars
  <1>0. Shape /\ Good(s) /\ term[s].dlg \in Dialogs \cup {None}
    BY DEF WInv, Shape, TermShape, Screens
  <1>1. CASE Capture(s)
    <2>1. job[s].pc = "capture"
      BY <1>1 DEF Capture
    <2> DEFINE j == [job[s] EXCEPT !.pc = "snap", !.ok = TRUE, !.dlg = term[s].dlg, !.label = term[s].label]
    <2>2. /\ job' = [job EXCEPT ![s] = j]
          /\ IsJob(j)
          /\ j.pc = "snap" /\ j.ok /\ j.dlg = term[s].dlg
      BY <1>0, <1>1 DEF Capture, Shape, JobShape, IsJob
    <2> HIDE DEF j
    <2>3. job'[s] = j
      BY <1>0, <2>2 DEF Shape, JobShape
    <2>4. Good(s)'
      <3>1. Fresh(s)' /\ Stalls(s)' /\ ReplyKnown(s)' /\ DialogOnce(s)' /\ StallLatched(s)'
        BY <1>0, <1>1, <2>2, <2>3 DEF Capture, Good, Fresh, Stalls, ReplyKnown, DialogOnce, StallLatched
      <3>2. FromPane(s)' /\ Latched(s)'
        BY <1>0, <1>1, <2>2, <2>3 DEF Capture, Good, FromPane, Latched, Pushed, Latch, Agrees, Claude
      <3> QED
        BY <3>1, <3>2 DEF Good
    <2> QED
      BY <1>0, <1>1, <2>2, <2>4, JobFrame DEF Capture, Shape, CacheShape, WInv
  <1>2. CASE CaptureFails(s)
    <2> DEFINE j == [job[s] EXCEPT !.pc = "snap"]
    <2>2. /\ job' = [job EXCEPT ![s] = j]
          /\ IsJob(j)
          /\ j.pc = "snap" /\ j.ok = job[s].ok /\ j.dlg \in Dialogs \cup {None}
      BY <1>0, <1>2 DEF CaptureFails, Shape, JobShape, IsJob
    <2> HIDE DEF j
    <2>3. job'[s] = j /\ ~job[s].ok
      BY <1>0, <1>2, <2>2 DEF CaptureFails, Shape, JobShape, Good, FromPane
    <2>4. \/ Claude(s) /\ s \in seen /\ unseen' = unseen
          \/ unseen' = [unseen EXCEPT ![s] = @ \cup {term[s].dlg}] /\ term'[s].dlg \in unseen'[s]
      BY <1>0, <1>2 DEF CaptureFails, Shape, HistShape
    <2>5. Good(s)'
      <3>1. Fresh(s)' /\ Stalls(s)' /\ ReplyKnown(s)' /\ StallLatched(s)' /\ FromPane(s)'
        BY <1>0, <1>2, <2>2, <2>3
           DEF CaptureFails, Good, Fresh, Stalls, ReplyKnown, StallLatched, FromPane, Claude
      <3>2. DialogOnce(s)'
        BY <1>0, <1>2, <2>4 DEF CaptureFails, Good, DialogOnce
      <3>3. Latched(s)'
        BY <1>0, <1>2, <2>2, <2>3, <2>4 DEF CaptureFails, Good, Latched, Pushed, Latch, Agrees, Claude
      <3> QED
        BY <3>1, <3>2, <3>3 DEF Good
    <2> QED
      BY <1>0, <1>2, <2>2, <2>4, <2>5, JobFrame DEF CaptureFails, Shape, CacheShape, WInv
  <1>3. CASE CaptureRefused(s) \/ SnapFails(s)
    <2>1. /\ job' = [job EXCEPT ![s] = OffJob] /\ unseen' = unseen /\ attn' \in [Sessions -> Dialogs \cup {None}]
          /\ UNCHANGED <<tool, term, acts, alerts, frozen, seen, sw, known, pushes, repeated>>
      BY <1>0, <1>3 DEF CaptureRefused, SnapFails, Shape, CacheShape
    <2>2. job'[s].pc = "off"
      BY <1>0, <2>1, Idle DEF Shape, JobShape
    <2>3. Still(s) /\ StillRuns(s)
      BY <2>1 DEF Still, StillRuns
    <2>4. Good(s)'
      BY <1>0, <2>2, <2>3, Frame
    <2> QED
      BY <2>1, <2>4, Idle, JobFrame
  <1> QED
    BY <1>1, <1>2, <1>3

\* Steps that empty every job.
LEMMA Sweeps ==
  ASSUME WatcherAssumption, WInv, StartSweep \/ Restart
  PROVE  WInv'
  <1> USE DEF termVars, seenVars, histVars
  <1> DEFINE j == [OffJob EXCEPT !.pc = "capture"]
  <1>0. /\ j.pc = "capture" /\ ~j.ok /\ j.dlg = None
        /\ IsJob(j)
    BY DEF OffJob, IsJob
  <1> HIDE DEF j
  <1>1. CASE StartSweep
    <2>1. job' = [s \in Sessions |-> j]
      BY <1>1 DEF StartSweep, j
    <2>2. Shape'
      <3>1. JobShape'
        BY <1>0, <2>1 DEF JobShape
      <3> QED
        BY <1>1, <3>1 DEF StartSweep, WInv, Shape, TermShape, CacheShape, HistShape
    <2>3. ASSUME NEW s \in Sessions PROVE Good(s)'
      <3>1. Good(s) /\ job'[s] = j
        BY <2>1 DEF WInv
      <3>2. Fresh(s)' /\ Stalls(s)' /\ ReplyKnown(s)' /\ DialogOnce(s)' /\ StallLatched(s)'
        BY <1>0, <1>1, <3>1 DEF StartSweep, Good, Fresh, Stalls, ReplyKnown, DialogOnce, StallLatched
      <3>3. FromPane(s)' /\ Latched(s)'
        BY <1>0, <1>1, <3>1 DEF StartSweep, Good, FromPane, Latched, Pushed, Latch, Agrees, Claude
      <3> QED
        BY <3>2, <3>3 DEF Good
    <2> QED
      BY <1>1, <2>2, <2>3 DEF StartSweep, WInv
  <1>2. CASE Restart
    <2>1. Shape'
      <3>1. JobShape'
        BY <1>2, Idle DEF Restart, JobShape
      <3>2. CacheShape'
        <4>1. StallThreshold \in Nat
          BY DEF WatcherAssumption
        <4>2. \A s \in Sessions : acts'[s] = NoActivity
          BY <1>2 DEF Restart
        <4>3. \A s \in Sessions : acts'[s].count \in 0..StallThreshold
          BY <4>1, <4>2, Idle
        <4> QED
          BY <1>2, <4>3 DEF Restart, CacheShape
      <3> QED
        BY <1>2, <3>1, <3>2 DEF Restart, WInv, Shape, TermShape, HistShape
    <2>2. ASSUME NEW s \in Sessions PROVE Good(s)'
      <3>1. Good(s) /\ job'[s].pc = "off" /\ s \notin seen' /\ sw'[s] = NewWatch /\ ~acts'[s].stalled
            /\ alerts'[s] = 0
        BY <1>2, Idle DEF Restart, WInv
      <3>2. Fresh(s)' /\ ReplyKnown(s)' /\ StallLatched(s)' /\ FromPane(s)'
        BY <3>1 DEF Fresh, ReplyKnown, StallLatched, FromPane
      <3>3. Stalls(s)'
        BY <3>1 DEF Stalls
      <3>4. DialogOnce(s)' /\ Latched(s)'
        BY <1>2, <3>1 DEF Restart, Good, DialogOnce, Latched, Pushed, Agrees
      <3> QED
        BY <3>2, <3>3, <3>4 DEF Good
    <2> QED
      BY <1>2, <2>1, <2>2 DEF Restart, WInv
  <1> QED
    BY <1>1, <1>2

\* What the job found is on the pane it read, and a pushed dialog that is still up is found again.
LEMMA AttentionIs ==
  ASSUME WatcherAssumption, WInv, NEW s \in Sessions, job[s].pc = "snap"
  PROVE  /\ Attention(s) \in Dialogs \cup {None}
         /\ Claude(s) => Attention(s) = IF job[s].ok THEN job[s].dlg ELSE None
         /\ Pushed(s) /\ ~Claude(s) => Attention(s) = term[s].dlg
  <1>1. term[s].dlg \in Dialogs \cup {None} /\ job[s].dlg \in Dialogs \cup {None}
    BY DEF WInv, Shape, TermShape, JobShape, Screens
  <1>2. Pushed(s) => term[s].dlg # None /\ Agrees(s)
    BY DEF WInv, Good, Latched, Pushed
  <1>3. Questions \subseteq Dialogs
    BY DEF WatcherAssumption
  <1> QED
    BY <1>1, <1>2, <1>3 DEF Attention, Approvals, Agrees

\* The snapshot after the capture.
LEMMA SnapStep ==
  ASSUME WatcherAssumption, WInv, NEW s \in Sessions, Snap(s)
  PROVE  WInv'
  <1> USE DEF termVars, seenVars
  <1>0. Shape /\ Good(s) /\ job[s].pc = "snap"
    BY DEF WInv, Snap
  <1>1. /\ UNCHANGED <<tool, term, seen, sw, pushes, unseen, known, repeated>>
        /\ attn' = [attn EXCEPT ![s] = Attention(s)]
    BY DEF Snap, NoteAttention
  <1>2. /\ acts' = [q \in Sessions |-> acts'[q]]
        /\ acts'[s].count \in 0..StallThreshold
        /\ Stalls(s)'
        /\ alerts' \in [Sessions -> 0..2]
        /\ alerts'[s] > 0 => alerts'[s] = alerts[s] /\ (acts[s].stalled => acts'[s].stalled)
        /\ \A q \in Sessions \ {s} : StillRuns(q)
    <2>1. CASE UNCHANGED <<acts, frozen, alerts>>
      BY <1>0, <2>1 DEF Shape, CacheShape, HistShape, Good, Stalls, StillRuns
    <2>2. CASE ~UNCHANGED <<acts, frozen, alerts>>
      <3>1. Update(s, term[s].label # None, KeyOf(term[s].label), notify)
            \/ Update(s, Working(s), StallKey(s), notify)
        BY <2>2 DEF Snap
      <3>2. PICK working \in BOOLEAN : \E label : Update(s, working, label, notify)
        <4>1. (term[s].label # None) \in BOOLEAN /\ Working(s) \in BOOLEAN
          BY DEF Working
        <4> QED
          BY <3>1, <4>1, Zenon
      <3> QED
        BY <3>2, UpdateIs
    <2> QED
      BY <2>1, <2>2
  <1>3. /\ job' = [job EXCEPT ![s] = job'[s]] /\ IsJob(job'[s]) /\ job'[s].dlg \in Dialogs \cup {None}
        /\ \/ job'[s].pc = "off"
           \/ /\ job'[s].pc = "notify" /\ job'[s].ok = job[s].ok /\ job'[s].dlg = job[s].dlg
              /\ job'[s].att = Attention(s) /\ job'[s].stalled = acts'[s].stalled
    <2>1. CASE notify
      <3> DEFINE j == [job[s] EXCEPT !.pc = "notify", !.att = Attention(s), !.reply = term[s].reply,
                                     !.stalled = acts'[s].stalled, !.long = s \in frozen']
      <3>1. job' = [job EXCEPT ![s] = j]
        BY <2>1 DEF Snap
      <3>2. /\ IsJob(j) /\ j.pc = "notify" /\ j.ok = job[s].ok /\ j.dlg = job[s].dlg
            /\ j.att = Attention(s) /\ j.stalled = acts'[s].stalled
        BY <1>0 DEF Shape, JobShape, IsJob
      <3> HIDE DEF j
      <3>3. job'[s] = j
        BY <1>0, <3>1 DEF Shape, JobShape
      <3> QED
        BY <1>0, <3>1, <3>2, <3>3 DEF Shape, JobShape
    <2>2. CASE ~notify
      BY <1>0, <2>2, Idle DEF Snap, Shape, JobShape
    <2> QED
      BY <2>1, <2>2
  <1>4. Shape'
    <2>1. JobShape'
      BY <1>0, <1>3 DEF Shape, JobShape
    <2>2. CacheShape'
      BY <1>0, <1>1, <1>2, AttentionIs DEF WInv, Shape, CacheShape, StillRuns
    <2> QED
      BY <1>0, <1>1, <1>2, <2>1, <2>2 DEF Shape, TermShape, HistShape
  <1>5. Good(s)'
    <2>1. Fresh(s)' /\ ReplyKnown(s)' /\ DialogOnce(s)'
      BY <1>0, <1>1 DEF Good, Fresh, ReplyKnown, DialogOnce
    <2>2. FromPane(s)'
      BY <1>0, <1>1, <1>3, AttentionIs DEF FromPane, Claude
    <2>3. Latched(s)'
      <3>1. Pushed(s)' => Pushed(s)
        BY <1>1 DEF Pushed
      <3>2. ASSUME Pushed(s) PROVE (s \in seen' => Latch(s)') /\ Agrees(s)'
        <4>1. (s \in seen => Latch(s)) /\ Agrees(s)
          BY <1>0, <3>2 DEF Good, Latched
        <4>2. Latch(s)' <=> Latch(s)
          BY <1>1 DEF Latch, Claude
        <4>3. Agrees(s)'
          BY <1>0, <1>1, <1>3, <3>2, <4>1, AttentionIs DEF Agrees, Claude
        <4> QED
          BY <1>1, <4>1, <4>2, <4>3
      <3> QED
        BY <3>1, <3>2 DEF Latched
    <2>4. StallLatched(s)'
      <3>1. alerts'[s] \in 0..2 /\ alerts[s] < 2
        BY <1>0, <1>2 DEF Good, StallLatched
      <3> QED
        BY <1>0, <1>1, <1>2, <1>3, <3>1 DEF Good, StallLatched
    <2> QED
      BY <1>2, <2>1, <2>2, <2>3, <2>4 DEF Good
  <1>6. \A q \in Sessions \ {s} : Still(q) /\ StillRuns(q) /\ job'[q] = job[q]
    BY <1>0, <1>1, <1>2, <1>3 DEF Still, Shape, JobShape
  <1> QED
    BY <1>1, <1>4, <1>5, <1>6, OneStep DEF WInv

\* A job that pushes the dialog that is up has found it on the pane, and its latch was open.
LEMMA PushIs ==
  ASSUME WatcherAssumption, WInv, NEW s \in Sessions, job[s].pc = "notify",
         PushesPrompt(s) \/ PushesAttention(s), Dialog(s) = term[s].dlg
  PROVE  /\ s \in seen /\ ~Latch(s) /\ term[s].dlg # None
         /\ job[s].att = term[s].dlg
         /\ Claude(s) => job[s].ok /\ job[s].dlg = term[s].dlg
  <1>0. FromPane(s) /\ Questions \subseteq Dialogs /\ None \notin Dialogs
    BY DEF WInv, Good, WatcherAssumption
  <1>1. CASE PushesPrompt(s)
    BY <1>0, <1>1 DEF PushesPrompt, ReadsPrompt, Prompt, IsNew, Dialog, Latch, FromPane, Approvals
  <1>2. CASE PushesAttention(s)
    BY <1>0, <1>2 DEF PushesAttention, ReadsAttention, IsNew, Dialog, Latch, FromPane, Approvals
  <1> QED
    BY <1>1, <1>2

\* The latches the job leaves close on the dialog it pushed, and on one pushed before that is still up.
LEMMA NotifyLatches ==
  ASSUME WatcherAssumption, WInv, NEW s \in Sessions, job[s].pc = "notify", NEW r,
         \/ Pushed(s)
         \/ (PushesPrompt(s) \/ PushesAttention(s)) /\ Dialog(s) = term[s].dlg
  PROVE  IF Claude(s) /\ term[s].dlg \in Approvals THEN PromptLatch(s)
         ELSE (IF ReadsAttention(s) THEN job[s].att ELSE sw[s].attentionID) = term[s].dlg
  <1>0. /\ FromPane(s) /\ Questions \subseteq Dialogs /\ None \notin Dialogs
        /\ term[s].dlg \in Dialogs \cup {None}
    BY DEF WInv, Good, WatcherAssumption, Shape, TermShape, Screens
  <1>1. CASE Pushed(s)
    <2>1. (s \in seen => Latch(s)) /\ Agrees(s) /\ term[s].dlg # None
      BY <1>1 DEF WInv, Good, Latched, Pushed
    <2> QED
      BY <1>0, <2>1 DEF Latch, Agrees, FromPane, PromptLatch, ReadsPrompt, Prompt, ReadsAttention, Approvals
  <1>2. CASE (PushesPrompt(s) \/ PushesAttention(s)) /\ Dialog(s) = term[s].dlg
    BY <1>0, <1>2, PushIs DEF PromptLatch, ReadsPrompt, Prompt, ReadsAttention, Approvals
  <1> QED
    BY <1>1, <1>2

\* The pushes and the latches they leave.
LEMMA NotifyStep ==
  ASSUME WatcherAssumption, WInv, NEW s \in Sessions, Notify(s)
  PROVE  WInv'
  <1> USE DEF termVars, seenVars
  <1>0. Shape /\ Good(s) /\ job[s].pc = "notify"
    BY DEF WInv, Notify
  <1>1. /\ UNCHANGED <<tool, term, attn, acts, frozen, unseen>>
        /\ seen' = seen \cup {s} /\ job' = [job EXCEPT ![s] = OffJob]
    BY DEF Notify
  <1>2. PICK r : sw' = [sw EXCEPT ![s] = Latches(s, r)] /\ Remembers(s, r)
    BY DEF Notify
  <1>3. /\ sw'[s].replyHash = IF r = None THEN sw[s].replyHash ELSE r
        /\ sw'[s].notifiedHash = IF r # None /\ (IsNew(s) \/ PushesReply(s, r)) THEN r ELSE sw[s].notifiedHash
        /\ sw'[s].permNotified = PromptLatch(s) /\ sw'[s].stallNotified = StallLatch(s)
        /\ sw'[s].attentionID = IF ReadsAttention(s) THEN job[s].att ELSE sw[s].attentionID
    <2>1. sw'[s] = Latches(s, r)
      BY <1>0, <1>2 DEF Shape, CacheShape
    <2> QED
      BY <2>1 DEF Latches
  <1>4. job'[s].pc = "off"
    BY <1>0, <1>1, Idle DEF Shape, JobShape
  <1>5. /\ pushes' \in [Sessions -> 0..2]
        /\ \A q \in Sessions \ {s} : pushes'[q] = pushes[q]
        /\ \/ pushes'[s] = pushes[s]
           \/ /\ (PushesPrompt(s) \/ PushesAttention(s)) /\ Dialog(s) = term[s].dlg
              /\ pushes'[s] = UpTo2(pushes[s])
    BY <1>0, <1>2 DEF Remembers, Shape, HistShape, UpTo2
  <1>6. /\ alerts' \in [Sessions -> 0..2]
        /\ \A q \in Sessions \ {s} : alerts'[q] = alerts[q]
        /\ \/ alerts'[s] = alerts[s]
           \/ PushesStall(s) /\ s \in frozen /\ alerts'[s] = UpTo2(alerts[s])
           \/ IsNew(s) /\ job[s].stalled /\ acts[s].stalled /\ alerts'[s] = 1
    BY <1>0, <1>2 DEF Remembers, Shape, HistShape, UpTo2
  <1>7. /\ known' = [q \in Sessions |-> known'[q]] /\ \A q \in Sessions \ {s} : known'[q] = known[q]
        /\ known'[s] = IF IsNew(s) \/ PushesReply(s, r) THEN r ELSE known[s]
    BY <1>0, <1>2 DEF Remembers, Shape, HistShape
  <1>8. Shape'
    <2>1. JobShape'
      BY <1>0, <1>1, Idle DEF Shape, JobShape
    <2>2. CacheShape'
      BY <1>0, <1>1, <1>2 DEF Shape, CacheShape
    <2> QED
      BY <1>0, <1>1, <1>5, <1>6, <1>7, <2>1, <2>2 DEF Shape, TermShape, HistShape
  <1>9. Good(s)'
    <2>1. Fresh(s)' /\ Stalls(s)' /\ FromPane(s)'
      BY <1>0, <1>1, <1>4 DEF Good, Fresh, Stalls, FromPane
    <2>2. ReplyKnown(s)'
      <3>1. IsNew(s) => sw[s].notifiedHash = None
        BY <1>0 DEF Good, Fresh, IsNew, NewWatch
      <3> QED
        BY <1>0, <1>3, <1>7, <3>1 DEF Good, ReplyKnown, IsNew, PushesReply
    <2>3. DialogOnce(s)'
      <3>1. pushes[s] \in 0..2
        BY <1>0 DEF Shape, HistShape
      <3>2. Pushed(s) /\ s \in seen => Latch(s)
        BY <1>0 DEF Good, Latched
      <3> QED
        BY <1>0, <1>1, <1>5, <3>1, <3>2, PushIs DEF Good, DialogOnce, Pushed, UpTo2
    <2>4. Latched(s)'
      <3>1. ASSUME Pushed(s)' PROVE Latch(s)'
        <4>1. \/ Pushed(s)
              \/ (PushesPrompt(s) \/ PushesAttention(s)) /\ Dialog(s) = term[s].dlg
          BY <1>1, <1>5, <3>1 DEF Pushed
        <4>2. IF Claude(s) /\ term[s].dlg \in Approvals THEN PromptLatch(s)
              ELSE (IF ReadsAttention(s) THEN job[s].att ELSE sw[s].attentionID) = term[s].dlg
          BY <1>0, <4>1, NotifyLatches
        <4> QED
          BY <1>1, <1>3, <4>2 DEF Latch, Claude
      <3>2. Agrees(s)'
        BY <1>4 DEF Agrees
      <3> QED
        BY <3>1, <3>2 DEF Latched
    <2>5. StallLatched(s)'
      <3>1. alerts[s] \in 0..2 /\ StallLatched(s)
        BY <1>0 DEF Shape, HistShape, Good
      <3>2. alerts[s] > 0 \/ PushesStall(s) \/ (IsNew(s) /\ job[s].stalled) => StallLatch(s)
        BY <1>0, <3>1 DEF StallLatched, PushesStall, StallLatch, IsNew
      <3>3. alerts'[s] > 0 => StallLatch(s) /\ acts[s].stalled
        BY <1>0, <1>6, <3>1, <3>2 DEF StallLatched, PushesStall
      <3>4. PushesStall(s) => alerts[s] = 0
        BY <3>1 DEF StallLatched, PushesStall
      <3>5. alerts'[s] < 2
        BY <1>6, <3>1, <3>4 DEF StallLatched, UpTo2
      <3> QED
        BY <1>1, <1>3, <1>4, <3>3, <3>5 DEF StallLatched
    <2> QED
      BY <2>1, <2>2, <2>3, <2>4, <2>5 DEF Good
  <1>10. repeated' = {}
    <2>1. PushesReply(s, r) => r # known[s]
      BY <1>0 DEF PushesReply, IsNew, Good, ReplyKnown
    <2> QED
      BY <1>2, <2>1 DEF Remembers, WInv
  <1>11. \A q \in Sessions \ {s} : Still(q) /\ StillRuns(q) /\ job'[q] = job[q]
    BY <1>0, <1>1, <1>2, <1>5, <1>6, <1>7 DEF Still, StillRuns, Shape, JobShape, CacheShape
  <1> QED
    BY <1>8, <1>9, <1>10, <1>11, OneStep

\* Every step keeps the invariant.
LEMMA StepWatch == ASSUME WatcherAssumption, WInv, [Next]_vars PROVE WInv'
  <1>1. CASE StartSweep \/ Restart
    BY <1>1, Sweeps
  <1>2. CASE Subscribes
    <2>1. UNCHANGED <<tool, term, job, seen, sw, attn, acts, frozen,
                      pushes, unseen, known, repeated, alerts>>
      BY <1>2 DEF Subscribes, seenVars, histVars
    <2> QED
      BY <2>1, CalmSteps
  <1>3. CASE \E s \in Sessions : World(s)
    BY <1>3, WorldSteps
  <1>4. CASE \E s \in Sessions : Job(s)
    BY <1>4, CaptureSteps, SnapStep, NotifyStep DEF Job
  <1>5. CASE \E s \in Sessions : Clocks(s) \/ PollCaptures(s)
    BY <1>5, ClockSteps
  <1>6. CASE \E s \in Sessions : PollStores(s)
    BY <1>6, PollStoreStep
  <1>7. CASE UNCHANGED vars
    BY <1>7, CalmSteps DEF vars, termVars, seenVars, histVars
  <1> QED
    BY <1>1, <1>2, <1>3, <1>4, <1>5, <1>6, <1>7 DEF Next

\* However sweeps are cut short, delayed or restarted and whatever the sessions show between their
\* steps, the watcher (src/watcher.go) pushes a dialog that is up once, unless a job could not read
\* the pane while it was up; no reply twice in a row; and the stall of a run once.
THEOREM OnceThm == Spec => []PushesOnce
  <1>1. Init => WInv
    BY WatcherAssumption, InitWatch
  <1>2. WInv /\ [Next]_vars => WInv'
    BY WatcherAssumption, StepWatch
  <1>3. WInv => PushesOnce
    BY WatcherAssumption, WInvOnce
  <1> QED
    BY <1>1, <1>2, <1>3, PTL DEF Spec

=============================================================================
