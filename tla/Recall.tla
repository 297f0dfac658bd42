------------------------------- MODULE Recall -------------------------------
(***************************************************************************)
(* The rows of one Claude session as agent-deck's recall gives them        *)
(* (src/recall.go, src/recall_follow.go): historyWindow, which reads a     *)
(* tail, a delta or an older page, and the follower, whose process streams *)
(* the same events one by one into the same cache.                         *)
(*                                                                         *)
(* historyWindow holds the session's mutex over its reads, the follower    *)
(* takes it for each frame and each step of its life, so a follower that   *)
(* was stopped may still have a step to do, and a poll may have applied    *)
(* what the follower's process streams later.                              *)
(*                                                                         *)
(* agent-deck (external) answers for the conversation the session is in,   *)
(* whatever the cursor was of, and a follow process is bound to the one    *)
(* the session was in when it started.  A cursor is a position; that of    *)
(* another conversation reads as the same position in this one.            *)
(*                                                                         *)
(* A row is at version 0 (not there), 1 or 2 (updated).  The order of the  *)
(* rows and time (recallMinInterval, back-offs) are left out: a call that  *)
(* comes too early changes nothing.                                        *)
(***************************************************************************)
EXTENDS Integers, Sequences, FiniteSetsExt

CONSTANTS
    Followers, \* slots of nFollowers that this session may get
    TailRows,      \* rows of a tail read and of a page
    NRows,     \* bound: rows of a conversation
    NConvs,    \* bound: conversations
    MaxEvents, \* bound: events of all conversations
    MaxFaults, \* bound: reads that fail, processes that end by themselves
    None

RecallAssumption ==
    /\ TailRows \in Nat \ {0} /\ NRows \in Nat /\ NConvs \in Nat \ {0}
    /\ MaxEvents \in Nat /\ MaxFaults \in Nat /\ None \notin Followers

VARIABLES
    conv,   \* external: the conversation the session is in
    log,    \* external: conversation -> its events, each a row and its version
    cache,  \* recallSess: native, rows (conversation -> row -> version), through, and before: older
            \* rows than that are not in it
    fol,    \* sv.fol
    loop,   \* the followLoops
    faults

source == <<conv, log>>
vars == <<source, cache, fol, loop, faults>>

Rows == 1..NRows
Convs == 1..NConvs
NoRows == [c \in Convs |-> [i \in Rows |-> 0]]
Closed == [native |-> 0, rows |-> NoRows, through |-> 0, before |-> 1]
Off == [pc |-> "off", stopped |-> FALSE, live |-> FALSE, conv |-> 0, at |-> 0, resync |-> FALSE]

\* Cursors count from 1, 0 is the empty one: through = n + 1 after n events.
TypeOK ==
    /\ conv \in Convs /\ \A c \in Convs : Len(log[c]) <= MaxEvents
    /\ cache.native \in 0..conv /\ cache.rows \in [Convs -> [Rows -> 0..2]]
    /\ cache.through \in 0..(MaxEvents + 1) /\ cache.before \in 1..(NRows + 1)
    /\ fol \in Followers \cup {None}
    /\ \A f \in Followers :
        /\ loop[f].pc \in {"off", "begin", "spawn", "run", "wait", "drop", "exit"}
        /\ (fol = f => ~loop[f].stopped /\ loop[f].pc # "off")
        /\ (loop[f].live => loop[f].pc \in {"run", "wait"})
    /\ faults \in 0..MaxFaults

Init ==
    /\ conv = 1 /\ log = [c \in Convs |-> <<>>]
    /\ cache = Closed /\ fol = None /\ loop = [f \in Followers |-> Off]
    /\ faults = 0

Fault == faults < MaxFaults /\ faults' = faults + 1

-----------------------------------------------------------------------------
(* The session and agent-deck.                                             *)

\* Row i of conversation c after its first n events.
At(c, n, i) ==
    LET es == {k \in 1..n : log[c][k].row = i}
    IN  IF es = {} THEN 0 ELSE log[c][Max(es)].version

End(c) == Len(log[c])
Now(c, i) == At(c, End(c), i)

Events == {e \in Convs \X (1..MaxEvents) : e[2] <= End(e[1])}

\* A row is new, is updated (its output, its delivery), or is taken back.
Happens(i, v) ==
    /\ Cardinality(Events) < MaxEvents
    /\ LET old == Now(conv, i)
           next == {j \in Rows : \A k \in 1..End(conv) : log[conv][k].row # j}
       IN  IF v = 1 THEN next # {} /\ i = Min(next) ELSE old # 0 /\ old # v
    /\ log' = [log EXCEPT ![conv] = Append(@, [row |-> i, version |-> v])]
    /\ UNCHANGED <<conv, cache, fol, loop, faults>>

\* /clear
Clear ==
    /\ conv < NConvs /\ conv' = conv + 1
    /\ UNCHANGED <<log, cache, fol, loop, faults>>

\* The newest rows below b, as many as TailRows.
Newest(b) ==
    LET there == {i \in Rows : i < b /\ Now(conv, i) # 0}
    IN  {i \in there : Cardinality({j \in there : j > i}) < TailRows}

\* The cursor for what is older than those.
Before(b) ==
    IF \E i \in Rows : i < b /\ Now(conv, i) # 0 /\ i \notin Newest(b) THEN Min(Newest(b)) ELSE 1

-----------------------------------------------------------------------------
(* The cache.                                                              *)

Opened ==
    [native |-> conv, through |-> End(conv) + 1, before |-> Before(NRows + 1),
     rows |-> [NoRows EXCEPT ![conv] = [i \in Rows |-> IF i \in Newest(NRows + 1) THEN Now(conv, i) ELSE 0]]]

\* apply, of one event: an update to a row that is not kept is ignored.
Applied(rows, e) == IF e.version = 2 /\ rows[e.row] = 0 THEN rows ELSE [rows EXCEPT ![e.row] = e.version]

\* apply, of a delta: agent-deck sends the new rows, the updated and the removed ones as they are now.
Merged ==
    LET since == {k \in 1..End(conv) : k >= cache.through}
        new == {log[conv][k].row : k \in {j \in since : log[conv][j].version = 1}}
        touched == {log[conv][k].row : k \in since}
    IN  [cache EXCEPT
            !.rows[conv] = [i \in Rows |-> IF i \in new \/ (i \in touched /\ @[i] # 0) THEN Now(conv, i) ELSE @[i]],
            !.through = End(conv) + 1]

\* A page is not asked which conversation it is of.
Paged ==
    [cache EXCEPT !.rows[conv] = [i \in Rows |-> IF i \in Newest(cache.before) THEN Now(conv, i) ELSE @[i]],
                  !.before = Before(cache.before)]

\* stopFollow
Stopped == IF fol = None THEN loop ELSE [loop EXCEPT ![fol].stopped = TRUE]

\* ensureFollow: a follower if there is none and a slot is free; not for 2 minutes after quick exits.
EnsureFollow(f, loops) ==
    \/ fol' = f /\ loop' = loops
    \/ /\ f = None
       /\ \E g \in Followers : /\ loop[g].pc = "off" /\ fol' = g
                               /\ loop' = [loops EXCEPT ![g] = [Off EXCEPT !.pc = "begin"]]

-----------------------------------------------------------------------------
(* historyWindow.                                                          *)

\* The conversations that the session list, which may be behind, names; 0: none.
Known == 0..conv

Healthy == fol # None /\ loop[fol].live
Cleared(knows) == cache.native # 0 /\ knows # 0 /\ knows # cache.native
Closes(knows) == cache.through = 0 \/ Cleared(knows)

\* Mutant: a healthy follower is trusted.
PollsUnhealthy(due) == ~Healthy

\* A healthy follower's rows are checked all the same, when recallSafetyEvery is over.
Polls(due) == ~Healthy \/ due

AskOpens(due) ==
    /\ {k \in Known : Closes(k) \/ (Polls(due) /\ cache.native # 0 /\ cache.native # conv)} # {}
    /\ UNCHANGED <<source, faults>>
    /\ EnsureFollow(None, Stopped)
    /\ cache' = Opened

AskPolls(due) ==
    /\ {k \in Known : ~Closes(k)} # {} /\ cache.native \in {0, conv} /\ Polls(due)
    /\ UNCHANGED <<source, faults>>
    /\ EnsureFollow(fol, loop)
    /\ cache' = Merged

\* Rows come by stream, or were polled just now; an older page may be wanted.
AskRests(page) ==
    /\ {k \in Known : ~Closes(k)} # {}
    /\ IF page THEN cache.before # 1 /\ cache' = Paged ELSE UNCHANGED cache
    /\ EnsureFollow(fol, loop)
    /\ UNCHANGED <<source, faults>>

AskFails ==
    /\ Fault
    /\ cache' = Closed /\ fol' = None /\ loop' = Stopped
    /\ UNCHANGED <<source>>

\* The sheet asks, and recallSafetyEvery is over.
Ask == AskPolls(TRUE) \/ AskOpens(TRUE)

-----------------------------------------------------------------------------
(* followLoop and runFollow.                                               *)

\* A follower that has no process is nowhere in the stream.
Goes(f, pc) == [loop EXCEPT ![f] = [@ EXCEPT !.pc = pc, !.conv = 0, !.at = 0]]

Begin(f) ==
    /\ loop[f].pc = "begin"
    /\ loop' = IF loop[f].stopped \/ cache.through = 0 THEN Goes(f, "exit")
               ELSE [loop EXCEPT ![f].pc = "spawn", ![f].at = cache.through]
    /\ UNCHANGED <<source, cache, fol, faults>>

Spawn(f) ==
    /\ loop[f].pc = "spawn"
    /\ \/ loop[f].stopped /\ loop' = Goes(f, "wait")
       \/ loop' = [loop EXCEPT ![f].pc = "run", ![f].live = TRUE, ![f].conv = conv]
    /\ UNCHANGED <<source, cache, fol, faults>>

\* Mutant: the frames of a follower that was replaced are taken.
StaleNever(f) == FALSE

Stale(f) == fol # f

\* applyFrame, unless the follower was replaced or stopped.
Frame(f) ==
    /\ loop[f].pc = "run" /\ loop[f].at <= End(loop[f].conv)
    /\ IF Stale(f) THEN loop' = Goes(f, "wait") /\ UNCHANGED cache
       ELSE /\ cache' = [cache EXCEPT !.rows[loop[f].conv] = Applied(@, log[loop[f].conv][loop[f].at]),
                                      !.through = loop[f].at + 1]
            /\ loop' = [loop EXCEPT ![f].at = @ + 1]
    /\ UNCHANGED <<source, fol, faults>>

\* The process says that its transcript is not the session's any more, or that the cursor was of
\* another; once in a while that the transcript was rewritten.
Resync(f) ==
    /\ loop[f].pc = "run"
    /\ IF loop[f].conv # conv \/ cache.native \notin {0, conv} THEN UNCHANGED faults ELSE Fault
    /\ loop' = [Goes(f, "wait") EXCEPT ![f].resync = ~Stale(f)]
    /\ UNCHANGED <<source, cache, fol>>

ProcessEnds(f) ==
    /\ loop[f].pc = "run"
    /\ IF loop[f].stopped THEN UNCHANGED faults ELSE Fault
    /\ loop' = Goes(f, "wait")
    /\ UNCHANGED <<source, cache, fol>>

\* The process was waited for.  After a back-off the loop begins anew, or gives up: recall is off, or
\* the exits were too quick.
Judge(f) ==
    /\ loop[f].pc = "wait"
    /\ \E pc \in IF loop[f].stopped THEN {"exit"} ELSE IF loop[f].resync THEN {"drop"} ELSE {"begin", "exit"} :
        loop' = [Goes(f, pc) EXCEPT ![f].live = FALSE, ![f].resync = FALSE]
    /\ UNCHANGED <<source, cache, fol, faults>>

Drop(f) ==
    /\ loop[f].pc = "drop"
    /\ cache' = Closed /\ loop' = Goes(f, "exit")
    /\ UNCHANGED <<source, fol, faults>>

\* The deferred calls.
Exit(f) ==
    /\ loop[f].pc = "exit"
    /\ loop' = [loop EXCEPT ![f] = Off] /\ fol' = IF fol = f THEN None ELSE fol
    /\ UNCHANGED <<source, cache, faults>>

\* Nobody has asked for recallFollowIdle.
Idle(f) ==
    /\ loop[f].pc \in {"run", "wait"} /\ ~loop[f].stopped
    /\ loop' = [loop EXCEPT ![f].stopped = TRUE] /\ fol' = IF fol = f THEN None ELSE fol
    /\ UNCHANGED <<source, cache, faults>>

Proceeds(f) ==
    Begin(f) \/ Spawn(f) \/ Judge(f) \/ Drop(f) \/ Exit(f)
        \/ (loop[f].stopped /\ ProcessEnds(f))

Next ==
    \/ \E i \in Rows, v \in 0..2 : Happens(i, v)
    \/ Clear \/ AskFails
    \/ \E due \in BOOLEAN : AskOpens(due) \/ AskPolls(due)
    \/ \E page \in BOOLEAN : AskRests(page)
    \/ \E f \in Followers : Proceeds(f) \/ Frame(f) \/ Resync(f) \/ ProcessEnds(f) \/ Idle(f)

\* The open sheet asks again and again; a follower runs on, and a killed process ends.  A process
\* that lives may be silent for ever.
Fairness == WF_vars(Ask) /\ \A f \in Followers : WF_vars(Proceeds(f))

Spec == Init /\ [][Next]_vars /\ Fairness

-----------------------------------------------------------------------------
\* Nothing is lost between the poll and the stream: a cache of the session's conversation has, from
\* the oldest row it holds, every row as it was at its cursor or later, though frames repeat what a
\* poll has read, and no row of another conversation.
NothingLost ==
    cache.native = conv =>
        /\ cache.through \in 1..(End(conv) + 1)
        /\ \A i \in Rows : i >= cache.before =>
            \E n \in (cache.through - 1)..End(conv) : cache.rows[conv][i] = At(conv, n, i)
        /\ \A c \in Convs \ {conv} : cache.rows[c] = NoRows[c]

\* A frame was taken into a cache that a follower before had dropped: it has a cursor but no
\* conversation, so no /clear is noticed, and the rows before that frame are not read again.
Torn == cache.native = 0 /\ cache.through # 0
UpToDate == cache.through = End(conv) + 1

\* The thread never goes stale while its sheet is open, whatever the follower does: time and again it
\* is that of the session's conversation, up to the newest event.  The exception: a cache that is torn
\* for good, which keeps up with the newest event and lacks the older ones.
NeverStale == []<>(cache.native = conv /\ UpToDate) \/ (<>[]Torn /\ []<>UpToDate)

\* A follower that was stopped gives its slot back.
SlotComesBack(f) == loop[f].pc # "off" /\ fol # f ~> loop[f].pc = "off"
=============================================================================
