------------------------------ MODULE Watcher ------------------------------
(***************************************************************************)
(* The watcher's sweep (src/watcher.go) with the two caches it feeds: the  *)
(* live activity (src/activitycache.go) and the pending attention          *)
(* (src/attention.go).                                                     *)
(*                                                                         *)
(* Every sweep starts one job per session.  A job captures the pane, takes *)
(* the harness's snapshot and, when somebody is subscribed, compares what  *)
(* it saw with the session's latches and hands the new events to           *)
(* push.send.  The session goes on between the steps of its job, and the   *)
(* phone's activity poll writes to the same activity cache.                *)
(*                                                                         *)
(* Time is two flags, set some time after the clock they belong to started *)
(* and cleared with it: a reply unchanged for replySettle, a label         *)
(* unchanged for stallNotifyAfter.                                         *)
(***************************************************************************)
EXTENDS Integers, FiniteSets

CONSTANTS
    Sessions,
    Dialogs,        \* texts of approval dialogs and question menus
    Questions,      \* those of Dialogs that are question menus
    Replies,
    Labels,         \* spinner labels
    StallThreshold, \* --stall-polls
    MaxShows,       \* bound on dialogs shown per session
    MaxFaults,      \* bound on failed reads, refused captures, restarts and (un)subscribing
    None

\* What a run without a spinner label is known by.
NoKey == ""

ASSUME WatcherAssumption ==
    /\ Questions \subseteq Dialogs
    /\ StallThreshold \in Nat \ {0} /\ MaxShows \in Nat /\ MaxFaults \in Nat
    /\ None \notin Dialogs \cup Replies \cup Labels /\ NoKey \notin Labels

VARIABLES
    tool,      \* session -> its harness
    term,      \* session -> what it shows: dialog, last reply, spinner label (None: not working)
    shows,     \* session -> dialogs shown so far
    subs,      \* some device is subscribed
    notify,    \* what hasSubs said when the sweep began
    job,       \* session -> where its job is in this sweep, with what it has read
    seen,      \* sessions that have latches
    sw,        \* session -> sessWatch
    attn,      \* session -> the pending dialog in the attention cache
    acts,      \* session -> its entry in the activity cache
    poll,      \* session -> the label an activity poll has captured and not yet stored
    settled,   \* sessions whose changedAt is replySettle ago
    frozen,    \* sessions whose lastChangeAt is stallNotifyAfter ago
    pushes,    \* history: session -> pushes of the dialog it shows now, up to 2
    unseen,    \* history: dialogs on the screen while a job could not read the pane
    met,       \* history: sessions whose dialog a notifying job has seen
    excused,   \* history: those of met whose job could not tell the dialog from one it knew
    saw,       \* history: session -> the dialog its last notifying job saw
    question,  \* history: session -> the last question menu such a job saw
    known,     \* history: session -> the reply last pushed or taken as a baseline
    repeated,  \* history: sessions with two pushes in a row for one reply
    alerts,    \* history: session -> stall pushes of its cached run, up to 2; 1 if known at first sight
    unnoticed, \* history: sessions whose cached run began with no look at the latches after it
    faults

seenVars == <<seen, sw, settled>>
histVars == <<pushes, unseen, met, excused, saw, question, known, repeated, alerts, unnoticed>>
termVars == <<tool, term, shows, subs>>
vars == <<termVars, notify, job, seenVars, attn, acts, poll, frozen, histVars, faults>>

OffJob == [pc |-> "off", ok |-> FALSE, dlg |-> None, label |-> None, att |-> None,
           reply |-> None, stalled |-> FALSE, long |-> FALSE]
NewWatch == [replyHash |-> None, changed |-> FALSE, notifiedHash |-> None,
             permNotified |-> FALSE, stallNotified |-> FALSE, attentionID |-> None]
NoActivity == [working |-> FALSE, last |-> NoKey, count |-> 0, stalled |-> FALSE]

Claude(s) == tool[s] = "claude"
Approvals == Dialogs \ Questions

TypeOK ==
    /\ tool \in [Sessions -> {"claude", "codex"}]
    /\ term \in [Sessions -> [dlg : Dialogs \cup {None}, reply : Replies, label : Labels \cup {None}]]
    /\ \A s \in Sessions : job[s].pc \in {"off", "capture", "snap", "notify"}
    /\ \A s \in Sessions \ seen : sw[s] = NewWatch
    /\ \A s \in Sessions : attn[s] \in Dialogs \cup {None} /\ acts[s].count \in 0..StallThreshold
    /\ \A s \in Sessions : acts[s].stalled => acts[s].working /\ acts[s].last # NoKey

Init ==
    /\ tool \in [Sessions -> {"claude", "codex"}]
    /\ term \in [Sessions -> [dlg : {None}, reply : Replies, label : {None}]]
    /\ shows = [s \in Sessions |-> 0] /\ subs \in BOOLEAN /\ notify = FALSE
    /\ job = [s \in Sessions |-> OffJob]
    /\ seen = {} /\ sw = [s \in Sessions |-> NewWatch] /\ settled = {}
    /\ attn = [s \in Sessions |-> None]
    /\ acts = [s \in Sessions |-> NoActivity] /\ frozen = {}
    /\ poll = [s \in Sessions |-> None]
    /\ pushes = [s \in Sessions |-> 0]
    /\ unseen = [s \in Sessions |-> {}] /\ met = {} /\ excused = {}
    /\ saw = [s \in Sessions |-> None] /\ question = [s \in Sessions |-> None]
    /\ known = [s \in Sessions |-> None]
    /\ repeated = {} /\ alerts = [s \in Sessions |-> 0] /\ unnoticed = {}
    /\ faults = 0

Fault == faults < MaxFaults /\ faults' = faults + 1

-----------------------------------------------------------------------------
(* The session, seen from outside. *)

ShowDialog(s) ==
    /\ shows[s] < MaxShows
    /\ \E d \in Dialogs \ {term[s].dlg} : term' = [term EXCEPT ![s].dlg = d]
    /\ shows' = [shows EXCEPT ![s] = @ + 1]
    /\ pushes' = [pushes EXCEPT ![s] = 0]
    /\ unseen' = [unseen EXCEPT ![s] = {}] /\ met' = met \ {s} /\ excused' = excused \ {s}
    /\ UNCHANGED <<tool, subs, notify, job, seenVars, attn, acts, poll, frozen,
                   saw, question, known, repeated, alerts, unnoticed, faults>>

DialogGone(s) ==
    /\ term[s].dlg # None
    /\ term' = [term EXCEPT ![s].dlg = None]
    /\ UNCHANGED <<tool, shows, subs, notify, job, seenVars, attn, acts, poll, frozen, histVars, faults>>

Speaks(s) ==
    /\ \E r \in Replies \ {term[s].reply} : term' = [term EXCEPT ![s].reply = r]
    /\ UNCHANGED <<tool, shows, subs, notify, job, seenVars, attn, acts, poll, frozen, histVars, faults>>

Spins(s) ==
    /\ \E l \in (Labels \cup {None}) \ {term[s].label} : term' = [term EXCEPT ![s].label = l]
    /\ UNCHANGED <<tool, shows, subs, notify, job, seenVars, attn, acts, poll, frozen, histVars, faults>>

Subscribes ==
    /\ Fault /\ subs' = ~subs
    /\ UNCHANGED <<tool, term, shows, notify, job, seenVars, attn, acts, poll, frozen, histVars>>

-----------------------------------------------------------------------------
(* The activity cache. *)

SameRun(prev, working, key) == working /\ key # NoKey /\ key = prev.last

\* stepStall; its count goes no further than the threshold.
StepStall(prev, working, key) ==
    LET count == IF ~SameRun(prev, working, key) THEN 1
                 ELSE IF prev.count < StallThreshold THEN prev.count + 1 ELSE StallThreshold
    IN  IF ~working THEN NoActivity
        ELSE [working |-> TRUE, last |-> key, count |-> count,
              stalled |-> key # NoKey /\ count >= StallThreshold]

\* activityCache.update: what it stores, and the clock of the run.
Update(s, working, key, looks) ==
    LET same == SameRun(acts[s], working, key)
    IN  /\ acts' = [acts EXCEPT ![s] = StepStall(acts[s], working, key)]
        /\ frozen' = IF same THEN frozen ELSE frozen \ {s}
        /\ alerts' = IF same THEN alerts ELSE [alerts EXCEPT ![s] = 0]
        /\ unnoticed' = IF same THEN unnoticed
                        ELSE IF looks THEN unnoticed \ {s} ELSE unnoticed \cup {s}

KeyOf(label) == IF label = None THEN NoKey ELSE label

\* handleActivity with an entry older than activityFreshFor, which takes skipped sweeps (a fault).
\* liveActivity captures the pane and parses it; other requests and the sweep may go between.
PollCaptures(s) ==
    /\ Claude(s) /\ poll[s] = None /\ Fault
    /\ poll' = [poll EXCEPT ![s] = <<term[s].label>>]
    /\ UNCHANGED <<termVars, notify, job, seenVars, attn, acts, frozen, histVars>>

PollStores(s) ==
    /\ poll[s] # None
    /\ Update(s, poll[s][1] # None, KeyOf(poll[s][1]), FALSE)
    /\ poll' = [poll EXCEPT ![s] = None]
    /\ UNCHANGED <<termVars, notify, job, seenVars, attn,
                   pushes, unseen, met, excused, saw, question, known, repeated, faults>>

-----------------------------------------------------------------------------
(* One sweep. *)

Quiet == \A s \in Sessions : job[s].pc = "off"

\* No sweep lasts as long as either clock runs, so the flags change between sweeps.
SettleAges(s) ==
    /\ Quiet /\ sw[s].changed /\ s \notin settled
    /\ settled' = settled \cup {s}
    /\ UNCHANGED <<termVars, notify, job, seen, sw, attn, acts, poll, frozen, histVars, faults>>

FreezeAges(s) ==
    /\ Quiet /\ acts[s].working /\ s \notin frozen
    /\ frozen' = frozen \cup {s}
    /\ UNCHANGED <<termVars, notify, job, seenVars, attn, acts, poll, histVars, faults>>

\* runWatcher's tick.  A sweep whose listSessions fails is no sweep.
StartSweep ==
    /\ Quiet
    /\ notify' = subs
    /\ job' = [s \in Sessions |-> [OffJob EXCEPT !.pc = "capture"]]
    /\ UNCHANGED <<termVars, seenVars, attn, acts, poll, frozen, histVars, faults>>

Capture(s) ==
    /\ job[s].pc = "capture"
    /\ job' = [job EXCEPT ![s] = [@ EXCEPT !.pc = "snap", !.ok = TRUE,
                                          !.dlg = term[s].dlg, !.label = term[s].label]]
    /\ UNCHANGED <<termVars, notify, seenVars, attn, acts, poll, frozen, histVars, faults>>

\* paneFor fails: tmux does not answer, or does not list the session.  Every harness but Claude
\* then has no approval to show; for Claude it matters when the session has no latches yet.
CaptureFails(s) ==
    /\ job[s].pc = "capture" /\ Fault
    /\ job' = [job EXCEPT ![s].pc = "snap"]
    /\ unseen' = IF Claude(s) /\ s \in seen THEN unseen
                 ELSE [unseen EXCEPT ![s] = @ \cup {term[s].dlg}]
    /\ UNCHANGED <<termVars, notify, seenVars, attn, acts, poll, frozen,
                   pushes, met, excused, saw, question, known, repeated, alerts, unnoticed>>

\* Over the tmux budget: the job leaves everything as it is.
CaptureRefused(s) ==
    /\ job[s].pc = "capture" /\ Fault
    /\ job' = [job EXCEPT ![s] = OffJob]
    /\ UNCHANGED <<termVars, notify, seenVars, attn, acts, poll, frozen, histVars>>

\* claudeAdapter.Snapshot and codexAdapter.Snapshot: the attention they find.  An approval is read
\* off the pane; Codex's questions are in its rollout.
Attention(s) ==
    IF ~Claude(s) /\ term[s].dlg \in Questions THEN term[s].dlg
    ELSE IF job[s].ok /\ (Claude(s) \/ job[s].dlg \in Approvals) THEN job[s].dlg
    ELSE None

\* A Codex approval covers the progress line, and without a pane there is none.
StallKey(s) == IF job[s].ok /\ (Claude(s) \/ Attention(s) = None) THEN KeyOf(job[s].label) ELSE NoKey

Working(s) == (IF Claude(s) THEN job[s].label ELSE term[s].label) # None

\* noteAttention; the event for the open phones says the same.
NoteAttention(s) == attn' = [attn EXCEPT ![s] = Attention(s)]

\* From adapter.Snapshot to noteAttention.  With no pane, Claude's cached activity stands, or an
\* old entry is refreshed by a second capture.
Snap(s) ==
    /\ job[s].pc = "snap"
    /\ IF Claude(s) /\ ~job[s].ok
       THEN \/ UNCHANGED <<acts, frozen, alerts, unnoticed>>
            \/ Update(s, term[s].label # None, KeyOf(term[s].label), notify)
       ELSE Update(s, Working(s), StallKey(s), notify)
    /\ NoteAttention(s)
    /\ job' = [job EXCEPT ![s] =
                 IF notify
                 THEN [@ EXCEPT !.pc = "notify", !.att = Attention(s), !.reply = term[s].reply,
                                !.stalled = acts'[s].stalled, !.long = s \in frozen']
                 ELSE OffJob]
    /\ UNCHANGED <<termVars, notify, seenVars, poll,
                   pushes, unseen, met, excused, saw, question, known, repeated, faults>>

\* The snapshot fails or is degraded.
SnapFails(s) ==
    /\ job[s].pc = "snap" /\ ~Claude(s) /\ Fault
    /\ attn' = [attn EXCEPT ![s] = None]
    /\ job' = [job EXCEPT ![s] = OffJob]
    /\ UNCHANGED <<termVars, notify, seenVars, acts, poll, frozen, histVars>>

IsNew(s) == s \notin seen

\* watchReply and watchSnapshotReply; r is None when there is no reply or no reading it.
ReplyMoved(s, r) == r # None /\ ~IsNew(s) /\ r # sw[s].replyHash

\* Mutant: what was pushed is forgotten.
PushesReplyAgain(s, r) ==
    r # None /\ ~IsNew(s) /\ (Claude(s) => r = sw[s].replyHash /\ sw[s].changed /\ s \in settled)

PushesReply(s, r) ==
    /\ r # None /\ ~IsNew(s) /\ r # sw[s].notifiedHash
    /\ Claude(s) => r = sw[s].replyHash /\ sw[s].changed /\ s \in settled

\* watchPermissionPane
Prompt(s) == job[s].dlg \in Approvals
ReadsPrompt(s) == Claude(s) /\ job[s].ok

PushesPrompt(s) == ReadsPrompt(s) /\ Prompt(s) /\ ~sw[s].permNotified /\ ~IsNew(s)

\* watchAttention with stepAttentionNotification: Claude's approvals do not come through here, nor
\* do its readings without a dialog.
ReadsAttention(s) == ~Claude(s) \/ job[s].att \in Questions
PushesAttention(s) ==
    ReadsAttention(s) /\ job[s].att # None /\ sw[s].attentionID # job[s].att /\ ~IsNew(s)

\* stallShouldNotify
PushesStall(s) == job[s].stalled /\ ~IsNew(s) /\ ~sw[s].stallNotified /\ job[s].long

\* Mutant: the prompt's latch outlives the prompt.
PromptLatchSticks(s) == sw[s].permNotified \/ (ReadsPrompt(s) /\ Prompt(s))

PromptLatch(s) == IF ReadsPrompt(s) THEN Prompt(s) ELSE sw[s].permNotified

StallLatch(s) == job[s].stalled /\ (IsNew(s) \/ sw[s].stallNotified \/ job[s].long)

\* What the four watch functions leave in sessWatch.
Latches(s, r) ==
    [replyHash |-> IF r = None THEN sw[s].replyHash ELSE r,
     changed |-> Claude(s) /\ (sw[s].changed \/ ReplyMoved(s, r)),
     notifiedHash |-> IF r # None /\ (IsNew(s) \/ PushesReply(s, r)) THEN r ELSE sw[s].notifiedHash,
     permNotified |-> PromptLatch(s),
     stallNotified |-> StallLatch(s),
     attentionID |-> IF ReadsAttention(s) THEN job[s].att ELSE sw[s].attentionID]

UpTo2(n) == IF n < 2 THEN n + 1 ELSE 2

\* What the job saw; for Claude only when it has read the pane.
Dialog(s) == IF Claude(s) THEN job[s].dlg ELSE job[s].att
SawDialog(s) == ~Claude(s) \/ job[s].ok

\* A dialog that was up at first sight, or that replaced one it looks like to the watcher with no
\* reading in between: any approval for a Claude approval, the last menu for a Claude menu, the
\* same text for the others.
LooksKnown(s) ==
    \/ IsNew(s)
    \/ IF ~Claude(s) THEN saw[s] = Dialog(s)
       ELSE IF Dialog(s) \in Approvals THEN saw[s] \in Approvals ELSE question[s] = Dialog(s)

\* The job is the first to see the dialog that is up.
Meets(s) == SawDialog(s) /\ Dialog(s) = term[s].dlg /\ s \notin met

Remembers(s, r) ==
    /\ pushes' = IF (PushesPrompt(s) \/ PushesAttention(s)) /\ Dialog(s) = term[s].dlg
                 THEN [pushes EXCEPT ![s] = UpTo2(@)] ELSE pushes
    /\ met' = IF Meets(s) THEN met \cup {s} ELSE met
    /\ excused' = IF Meets(s) /\ LooksKnown(s) THEN excused \cup {s} ELSE excused
    /\ saw' = IF SawDialog(s) THEN [saw EXCEPT ![s] = Dialog(s)] ELSE saw
    /\ question' = IF Dialog(s) \in Questions THEN [question EXCEPT ![s] = Dialog(s)] ELSE question
    /\ repeated' = IF PushesReply(s, r) /\ r = known[s] THEN repeated \cup {s} ELSE repeated
    /\ known' = IF IsNew(s) \/ PushesReply(s, r) THEN [known EXCEPT ![s] = r] ELSE known
    /\ alerts' = IF PushesStall(s) /\ s \in frozen THEN [alerts EXCEPT ![s] = UpTo2(@)]
                 ELSE IF IsNew(s) /\ job[s].stalled /\ acts[s].stalled THEN [alerts EXCEPT ![s] = 1]
                 ELSE alerts

\* The rest of the job, when somebody is subscribed.  Claude's reply is read again here, which may
\* fail; the others use the snapshot's.
Notify(s) ==
    /\ job[s].pc = "notify"
    /\ \E r \in {job[s].reply, term[s].reply, None} :
        /\ \/ r = (IF Claude(s) THEN term[s].reply ELSE job[s].reply) /\ UNCHANGED faults
           \/ r = None /\ Claude(s) /\ Fault
        /\ sw' = [sw EXCEPT ![s] = Latches(s, r)]
        /\ settled' = IF Claude(s) /\ ReplyMoved(s, r) THEN settled \ {s} ELSE settled
        /\ Remembers(s, r)
    /\ seen' = seen \cup {s}
    /\ job' = [job EXCEPT ![s] = OffJob]
    /\ UNCHANGED <<termVars, notify, attn, acts, poll, frozen, unseen, unnoticed>>

Restart ==
    /\ Fault
    /\ job' = [s \in Sessions |-> OffJob] /\ notify' = FALSE
    /\ seen' = {} /\ sw' = [s \in Sessions |-> NewWatch] /\ settled' = {}
    /\ attn' = [s \in Sessions |-> None]
    /\ acts' = [s \in Sessions |-> NoActivity] /\ frozen' = {}
    /\ poll' = [s \in Sessions |-> None]
    /\ saw' = [s \in Sessions |-> None] /\ question' = [s \in Sessions |-> None]
    /\ alerts' = [s \in Sessions |-> 0] /\ unnoticed' = {}
    /\ UNCHANGED <<termVars, pushes, unseen, met, excused, known, repeated>>

-----------------------------------------------------------------------------
World(s) == ShowDialog(s) \/ DialogGone(s) \/ Speaks(s) \/ Spins(s)
Job(s) == Capture(s) \/ CaptureFails(s) \/ CaptureRefused(s) \/ Snap(s) \/ SnapFails(s) \/ Notify(s)
Clocks(s) == SettleAges(s) \/ FreezeAges(s)

Next ==
    \/ StartSweep \/ Subscribes \/ Restart
    \/ \E s \in Sessions : World(s) \/ Job(s) \/ Clocks(s) \/ PollCaptures(s) \/ PollStores(s)

\* The ticker fires, each job's calls have timeouts, and time passes.
Fairness ==
    /\ WF_vars(StartSweep)
    /\ \A s \in Sessions : WF_vars(Job(s)) /\ SF_vars(SettleAges(s)) /\ SF_vars(FreezeAges(s))

Spec == Init /\ [][Next]_vars /\ Fairness

-----------------------------------------------------------------------------
\* One dialog, one push (the latches of sessWatch).  The exception is a dialog on the screen while a
\* job could not read the pane: that clears the latch of every harness but Claude, and after a
\* restart it uses up the first sight.
PushedOnce == \A s \in Sessions : pushes[s] > 1 => term[s].dlg \in unseen[s] \cup {None}

\* The same reply is not pushed twice in a row, nor one that was there at first sight, unless the
\* first look failed.
ReplyPushedOnce == repeated = {}

\* A frozen run is pushed once, however often the cache is refreshed.
StallPushedOnce == \A s \in Sessions : alerts[s] < 2

\* Somebody subscribed, a dialog that stays up is pushed, unless the watcher took it for one it knew.
DialogPushed ==
    \A s \in Sessions, d \in Dialogs :
        (term[s].dlg = d /\ subs) ~> (pushes[s] > 0 \/ s \in excused \/ term[s].dlg # d \/ ~subs)

\* A dialog that stays up gets its card on the open phones, subscribed or not: the sweep keeps the
\* caches up for everybody.
CardFollows ==
    \A s \in Sessions, d \in Dialogs : (term[s].dlg = d) ~> (attn[s] = d \/ term[s].dlg # d)

\* A reply that stays is pushed or was known.
ReplyPushed ==
    \A s \in Sessions, r \in Replies :
        (term[s].reply = r /\ subs) ~> (known[s] = r \/ term[s].reply # r \/ ~subs)

\* A label that stays frozen is pushed, unless its run began in an activity poll or in a sweep with
\* nobody subscribed: the latch of the run before is cleared only by a job that looks at the latches
\* and finds no stall.
StallPushed ==
    \A s \in Sessions, l \in Labels :
        (term[s].label = l /\ subs)
            ~> (alerts[s] > 0 \/ s \in unnoticed \/ term[s].label # l \/ ~subs)

\* One push per dialog, reply and stall, however sweeps are cut short.
PushesOnce == TypeOK /\ PushedOnce /\ ReplyPushedOnce /\ StallPushedOnce

\* And none is lost.
EventsPushed == DialogPushed /\ CardFollows /\ ReplyPushed /\ StallPushed
=============================================================================
