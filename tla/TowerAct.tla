------------------------------ MODULE TowerAct ------------------------------
(***************************************************************************)
(* Acting on the tower from the phone (src/tower_actions.go): the cached   *)
(* model, its validation, and the journal records of one action, written   *)
(* by one journal.py process after the other.                              *)
(*                                                                         *)
(* handleTowerAct holds towerActMu from the model to the last record;      *)
(* towerModelJSON, which GET /model calls without that mutex, holds the    *)
(* cache's lock m.mu while its script runs, but stamps the files before.   *)
(* Tower and its TUI write both files at any time (external).              *)
(*                                                                         *)
(* Items are what an action settles for good: suggestions (pick, dismiss), *)
(* asks and requests (close, which has the shape of dismiss).  Tasks are   *)
(* rows of the backlog (start, defer and drop have one shape).  A file's   *)
(* stamp is the number of writes to it.                                    *)
(***************************************************************************)
EXTENDS Integers, Sequences

CONSTANTS
    Items, Tasks,
    Requests,  \* slots for requests in flight
    MaxWrites, \* bound: writes to the two files
    MaxFaults, \* bound: scripts that fail, steps that fail, restarts
    None

TowerAssumption ==
    /\ Items \cap Tasks = {} /\ MaxWrites \in Nat /\ MaxFaults \in Nat
    /\ None \notin Requests /\ None \notin Nat \X Nat

VARIABLES
    journal,   \* journal.jsonl: writes, the items settled, what has an open request record
    overview,  \* overview.json: writes, the rows of the backlog, the requests shown as open
    cache,     \* towerModel: the stamps it was stored under (None: no model) and the model
    mu,        \* who holds m.mu
    actMu,     \* who holds towerActMu
    recent,    \* recentBacklog: tasks acted on within towerBacklogRecent
    req,       \* the requests in flight
    faults,
    mine,      \* history: tasks whose action this daemon answered with 200 within that time
    acts,      \* history: item -> times the phone settled it, up to 2
    picked     \* history: items a pick of the phone settled

fileVars == <<journal, overview>>
daemonVars == <<cache, mu, actMu, recent, req>>
histVars == <<mine, acts, picked>>
vars == <<fileVars, daemonVars, faults, histVars>>

Ops == {"look", "fold", "pick", "dismiss", "backlog"}
NoView == [items |-> {}, rows |-> {}, open |-> {}]
NoReq == [pc |-> "idle", op |-> "look", on |-> None, key |-> None, view |-> NoView, step |-> 0, known |-> {}]

Views == [items : SUBSET Items, rows : SUBSET Tasks, open : SUBSET Tasks]

TypeOK ==
    /\ journal.ver \in 0..MaxWrites /\ journal.settled \subseteq Items
    /\ journal.queued \subseteq Items \cup Tasks
    /\ overview.ver \in 0..MaxWrites /\ overview.rows \subseteq Tasks /\ overview.open \subseteq Tasks
    /\ cache.view \in Views
    /\ mu \in Requests \cup {None} /\ actMu \in Requests \cup {None} /\ recent \subseteq Tasks
    /\ \A r \in Requests :
        /\ req[r].pc \in {"idle", "stamped", "script", "steps", "ends", "fails"}
        /\ req[r].op \in Ops /\ req[r].view \in Views
        /\ (mu = r <=> req[r].pc = "script")
        /\ (actMu = r <=> req[r].pc # "idle" /\ req[r].op # "look")
    /\ acts \in [Items -> 0..2]

Init ==
    /\ journal = [ver |-> 0, settled |-> {}, queued |-> {}]
    /\ overview = [ver |-> 0, rows |-> Tasks, open |-> {}]
    /\ cache = [key |-> None, view |-> NoView] /\ mu = None /\ actMu = None /\ recent = {}
    /\ req = [r \in Requests |-> NoReq] /\ faults = 0
    /\ mine = {} /\ acts = [i \in Items |-> 0] /\ picked = {}

MayWrite == journal.ver + overview.ver < MaxWrites

Fault(ok) == (ok \/ faults < MaxFaults) /\ faults' = IF ok THEN faults ELSE faults + 1

-----------------------------------------------------------------------------
(* The model.                                                              *)

Stamps == <<overview.ver, journal.ver>>

\* What tower_model.py makes of the two files: a suggestion is gone as soon as the journal settles
\* it, a request is open once tower has it in the overview.
View == [items |-> Items \ journal.settled, rows |-> overview.rows, open |-> overview.open]

Free(op) == op = "look" \/ actMu = None

\* A request comes, takes towerActMu if it acts, and stamps the files.
Begin(r, op, on) ==
    /\ req[r].pc = "idle" /\ Free(op)
    /\ req' = [req EXCEPT ![r] = [NoReq EXCEPT !.pc = "stamped", !.op = op, !.on = on, !.key = Stamps,
                                    !.known = journal.queued \cap overview.open]]
    /\ actMu' = IF op = "look" THEN actMu ELSE r
    /\ UNCHANGED <<fileVars, cache, mu, recent, faults, histVars>>

Released(r) == IF actMu = r THEN None ELSE actMu

\* Mutant: only the overview is asked.
QueuedByOverview(t, view) == t \in view.open

\* backlogReqIDs: one of the task's requests is open, or was written from here not long ago.
Queued(t, view) == t \in view.open \cup recent

Allowed(op, on, view) ==
    IF op = "backlog" THEN on \in view.rows /\ ~Queued(on, view) ELSE on \in view.items

\* Answered with the model, refused (404, 409), or accepted.
Judge(r, view) ==
    IF req[r].op # "look" /\ Allowed(req[r].op, req[r].on, view)
    THEN /\ req' = [req EXCEPT ![r] = [@ EXCEPT !.pc = "steps", !.step = 1, !.key = None, !.view = NoView]]
         /\ UNCHANGED actMu
    ELSE req' = [req EXCEPT ![r] = NoReq] /\ actMu' = Released(r)

Hit(r) == cache.key # None /\ cache.key = req[r].key

\* Under m.mu: the cached model, or the script, for which the lock is kept.
Enter(r) ==
    /\ req[r].pc = "stamped" /\ mu = None
    /\ IF Hit(r) THEN Judge(r, cache.view) /\ UNCHANGED mu
       ELSE /\ req' = [req EXCEPT ![r] = [@ EXCEPT !.pc = "script", !.view = View]]
            /\ mu' = r /\ UNCHANGED actMu
    /\ UNCHANGED <<fileVars, cache, recent, faults, histVars>>

StoreKey(r) == req[r].key

\* A script that fails, takes 30 s or loses its phone: 502, and the cache stays.
ScriptEnds(r, ok) ==
    /\ req[r].pc = "script" /\ Fault(ok)
    /\ mu' = None
    /\ IF ok THEN cache' = [key |-> StoreKey(r), view |-> req[r].view] /\ Judge(r, req[r].view)
       ELSE req' = [req EXCEPT ![r] = NoReq] /\ actMu' = Released(r) /\ UNCHANGED cache
    /\ UNCHANGED <<fileVars, recent, histVars>>

-----------------------------------------------------------------------------
(* The action.                                                             *)

\* pickArgvs, argvDismiss and argvClose, argvFold, backlogArgvs
Steps(op) ==
    CASE op = "pick" -> <<"request", "settle", "wake">>
      [] op = "dismiss" -> <<"settle">>
      [] op = "fold" -> <<"fold">>
      [] OTHER -> <<"request", "wake">>

Step(r) == Steps(req[r].op)[req[r].step]
Last(r) == req[r].step = Len(Steps(req[r].op))

\* A record of journal.py.
Write(r) ==
    LET on == req[r].on
    IN  /\ MayWrite
        /\ journal' = [ver |-> journal.ver + 1,
                       settled |-> IF Step(r) = "settle" THEN journal.settled \cup {on} ELSE journal.settled,
                       queued |-> IF Step(r) = "request" THEN journal.queued \cup {on} ELSE journal.queued]
        /\ IF Step(r) = "settle"
           THEN /\ acts' = [acts EXCEPT ![on] = IF @ < 2 THEN @ + 1 ELSE 2]
                /\ picked' = IF req[r].op = "pick" THEN picked \cup {on} ELSE picked
           ELSE UNCHANGED <<acts, picked>>

\* One step.  A process that fails may have written its record; a wake that fails fails nothing.
TakeStep(r, ok, wrote) ==
    /\ req[r].pc = "steps" /\ Fault(ok)
    /\ IF Step(r) # "wake" /\ wrote THEN Write(r) ELSE UNCHANGED <<journal, acts, picked>>
    /\ req' = [req EXCEPT ![r] =
            IF ~ok /\ Step(r) # "wake" THEN [@ EXCEPT !.pc = "fails"]
            ELSE IF Last(r) THEN [@ EXCEPT !.pc = "ends"] ELSE [@ EXCEPT !.step = req[r].step + 1]]
    /\ UNCHANGED <<overview, cache, mu, actMu, recent, mine>>

\* invalidate, and the task is remembered unless the action failed.
End(r) ==
    /\ req[r].pc \in {"ends", "fails"} /\ mu = None
    /\ cache' = [key |-> None, view |-> NoView]
    /\ IF req[r].op = "backlog" /\ req[r].pc = "ends"
       THEN recent' = recent \cup {req[r].on} /\ mine' = mine \cup {req[r].on}
       ELSE UNCHANGED <<recent, mine>>
    /\ req' = [req EXCEPT ![r] = NoReq] /\ actMu' = Released(r)
    /\ UNCHANGED <<fileVars, mu, faults, acts, picked>>

\* 15 minutes after the action
Lapse(t) ==
    /\ t \in recent
    /\ recent' = recent \ {t} /\ mine' = mine \ {t}
    /\ UNCHANGED <<fileVars, cache, mu, actMu, req, faults, acts, picked>>

Restart ==
    /\ Fault(FALSE)
    /\ cache' = [key |-> None, view |-> NoView] /\ mu' = None /\ actMu' = None /\ recent' = {}
    /\ req' = [r \in Requests |-> NoReq] /\ mine' = {}
    /\ UNCHANGED <<fileVars, acts, picked>>

-----------------------------------------------------------------------------
(* Tower and its TUI.                                                      *)

\* The operator settles an item at the laptop, or tower is done with what was queued.
JournalMoves(settles, done) ==
    /\ MayWrite
    /\ journal' = [ver |-> journal.ver + 1, settled |-> journal.settled \cup settles,
                   queued |-> journal.queued \ done]
    /\ UNCHANGED <<overview, daemonVars, faults, histVars>>

Regenerate ==
    /\ MayWrite
    /\ overview' = [ver |-> overview.ver + 1, rows |-> Tasks, open |-> journal.queued \cap Tasks]
    /\ UNCHANGED <<journal, daemonVars, faults, histVars>>

Next ==
    \/ \E r \in Requests :
        \/ Begin(r, "look", None)
        \/ \E op \in {"fold", "pick", "dismiss"}, i \in Items : Begin(r, op, i)
        \/ \E t \in Tasks : Begin(r, "backlog", t)
        \/ Enter(r) \/ End(r)
        \/ \E ok \in BOOLEAN : ScriptEnds(r, ok) \/ \E wrote \in {ok, TRUE} : TakeStep(r, ok, wrote)
    \/ \E t \in Tasks : Lapse(t) \/ JournalMoves({}, {t})
    \/ \E i \in Items : JournalMoves({i}, {})
    \/ Regenerate \/ Restart

Spec == Init /\ [][Next]_vars

-----------------------------------------------------------------------------
\* A cached model that would be served is the model of the files as they are, though the files may
\* change while the script runs and requests wait for one another with older stamps.
CacheIsCurrent == cache.key = Stamps => cache.view = View

\* Whatever fails, is killed after it wrote, or comes twice: the phone settles an item once.
ActOnce == \A i \in Items : acts[i] < 2

\* A suggestion the phone picked has its request record: one that is gone from the phone without tower
\* knowing would be lost.
PickedMeansQueued == picked \subseteq journal.queued

\* Two actions on one task are not queued together: the first is still queued, and shown as such or
\* answered by this daemon within 15 minutes, when the second comes.
BacklogOnce ==
    \A r \in Requests :
        req[r].pc = "steps" /\ req[r].op = "backlog" /\ req[r].step = 1
            => req[r].on \notin journal.queued \cap (req[r].known \cup mine)

\* The files, the model made of them and what the phone did never contradict one another.
ActionsTrue == TypeOK /\ CacheIsCurrent /\ ActOnce /\ PickedMeansQueued /\ BacklogOnce
=============================================================================
