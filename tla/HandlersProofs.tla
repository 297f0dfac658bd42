--------------------------- MODULE HandlersProofs ---------------------------
(* What the handlers of MCHandlers promise, each in its scene and for any values of the constants: the *)
(* pacing gate of tmux, actions on the tower, approvals, pushes, walks through a question menu,        *)
(* terminal tickets, the queue of the sends and the reads of a transcript.                             *)
EXTENDS MCHandlers, TLAPS

\* Nobody sleeps past its slot.
OnTime == \A c \in Callers : Sleeps(c) => now <= slot[c]

\* The sweep lane's next slot is an Interval after every slot that was given out.
NextAhead == ran + Interval <= next /\ \A c \in Sweepers : Sleeps(c) => slot[c] + Interval <= next

\* The operator lane's next slot is an OpInterval after the last.
OpNextAhead == opNext = opLast + OpInterval

IInv ==
    /\ TypeOK /\ OnTime /\ NextAhead /\ OpNextAhead
    /\ Paced /\ BackoffHolds /\ LaneNeverJams /\ OperatorFirst

USE BudgetAssumption DEF Sleeps

\* A slot is not before the clock, the end of the back-off or the lane's next.
LEMMA SlotFacts ==
  ASSUME TypeOK, NEW c \in Callers
  PROVE  /\ Slot(c) \in Nat /\ Slot(c) >= now /\ Slot(c) >= until
         /\ c \notin Operators => Slot(c) >= next
  BY DEF TypeOK, Slot, LaneSlot, Later

\* Back-offs have a length within their bounds.
LEMMA DoubledFacts == ASSUME TypeOK PROVE Doubled \in Nat /\ Doubled <= BackoffMax
  BY DEF TypeOK, Doubled, Earlier

\* The gate is idle at the start.
LEMMA InitIInv == Init => IInv
  <1> SUFFICES ASSUME Init PROVE IInv
    OBVIOUS
  <1>1. TypeOK
    <2>1. now \in Nat /\ next \in Nat /\ opNext \in Nat /\ until \in Nat /\ backoff \in 0..BackoffMax
      BY DEF Init
    <2>2. pc \in [Callers -> {"idle", "sleep", "run"}] /\ slot \in [Callers -> Nat] /\ due \in [Callers -> Nat]
      BY DEF Init
    <2>3. blind \in [Callers -> BOOLEAN]
      BY Zenon DEF Init
    <2>4. ran \in Int /\ opLast \in Int
      BY DEF Init
    <2> QED
      BY <2>1, <2>2, <2>3, <2>4 DEF TypeOK
  <1>2. \A c \in Callers : pc[c] # "sleep"
    BY DEF Init
  <1>3. OnTime /\ Paced /\ BackoffHolds /\ OperatorFirst
    BY <1>2 DEF OnTime, Sweepers, Paced, BackoffHolds, OperatorFirst
  <1>4. next = 0 /\ until = 0 /\ now = 0 /\ ran = -Interval /\ opNext = 0 /\ opLast = -OpInterval
    BY DEF Init
  <1>5. NextAhead /\ OpNextAhead
    BY <1>2, <1>4 DEF NextAhead, OpNextAhead, Sweepers
  <1>6. LaneNeverJams
    BY <1>4 DEF LaneNeverJams, Later
  <1> QED
    BY <1>1, <1>3, <1>5, <1>6 DEF IInv

-----------------------------------------------------------------------------
\* A slot given out keeps its distance from those before, and every promise of the gate.
LEMMA AcquireIInv == ASSUME IInv, NEW c \in Callers, Acquire(c) PROVE IInv'
  <1> USE DEF IInv
  <1> DEFINE s == Slot(c)
  <1>1. /\ s \in Nat /\ s >= now /\ s >= until
        /\ c \notin Operators => s >= next
    BY SlotFacts
  <1>2. /\ pc[c] = "idle" /\ pc' = [pc EXCEPT ![c] = "sleep"] /\ slot' = [slot EXCEPT ![c] = s]
        /\ UNCHANGED <<now, until, backoff, blind, ran>>
    BY DEF Acquire
  <1>3. CASE c \in Operators
    <2>1. /\ opNext' = s + OpInterval /\ opLast' = s /\ UNCHANGED next
          /\ due' = [due EXCEPT ![c] = Later(now, Later(until, opLast + OpInterval))]
      BY <1>3 DEF Acquire
    <2>2. s = Later(now, Later(until, opLast + OpInterval))
      BY <1>3 DEF TypeOK, OpNextAhead, Slot, LaneSlot, Later
    <2> HIDE DEF s
    <2>3. TypeOK'
      BY <1>1, <1>2, <2>1, <2>2 DEF TypeOK
    <2>4. OnTime' /\ BackoffHolds' /\ OpNextAhead'
      BY <1>1, <1>2, <2>1 DEF TypeOK, OnTime, BackoffHolds, OpNextAhead
    <2>5. NextAhead' /\ Paced' /\ LaneNeverJams'
      BY <1>2, <1>3, <2>1 DEF TypeOK, NextAhead, Paced, LaneNeverJams, Sweepers
    <2>6. OperatorFirst'
      BY <1>2, <2>1, <2>2 DEF TypeOK, OperatorFirst
    <2> QED
      BY <2>3, <2>4, <2>5, <2>6
  <1>4. CASE c \notin Operators
    <2>1. next' = s + Interval /\ UNCHANGED <<opNext, opLast, due>>
      BY <1>4 DEF Acquire
    <2>2. s <= now + MaxWait
      <3>1. PICK p \in Patience : s <= Earlier(now + MaxWait, now + p)
        BY <1>4 DEF Acquire, Limit
      <3> HIDE DEF s
      <3> QED
        BY <1>1, <3>1 DEF Earlier, TypeOK
    <2> HIDE DEF s
    <2>3. TypeOK'
      BY <1>1, <1>2, <2>1 DEF TypeOK
    <2>4. OnTime' /\ BackoffHolds' /\ OpNextAhead'
      BY <1>1, <1>2, <2>1 DEF TypeOK, OnTime, BackoffHolds, OpNextAhead
    <2>5. NextAhead' /\ Paced'
      BY <1>1, <1>2, <1>4, <2>1 DEF TypeOK, NextAhead, Paced, Sweepers
    <2>6. LaneNeverJams'
      BY <1>1, <1>2, <2>1, <2>2 DEF TypeOK, LaneNeverJams, Later
    <2>7. OperatorFirst'
      BY <1>2, <1>4, <2>1 DEF TypeOK, OperatorFirst
    <2> QED
      BY <2>3, <2>4, <2>5, <2>6, <2>7
  <1> QED
    BY <1>3, <1>4

\* Who wakes, to run or because it gave up, leaves the slots of the others as they are.
LEMMA WakesIInv ==
  ASSUME IInv, NEW c \in Callers, NEW state \in {"idle", "run"}, WakesAs(c, state),
         \/ UNCHANGED ran
         \/ c \notin Operators /\ now >= slot[c] /\ ran' = slot[c]
  PROVE  IInv'
  <1> USE DEF IInv
  <1>1. /\ pc' = [pc EXCEPT ![c] = state] /\ slot' = [slot EXCEPT ![c] = 0]
        /\ due' = [due EXCEPT ![c] = 0] /\ blind' = [blind EXCEPT ![c] = FALSE]
        /\ UNCHANGED <<now, next, opNext, until, backoff, opLast>> /\ pc[c] = "sleep"
    BY DEF WakesAs, gateVars
  <1>2. TypeOK'
    BY <1>1 DEF TypeOK
  <1>3. OnTime' /\ BackoffHolds' /\ OpNextAhead' /\ LaneNeverJams' /\ OperatorFirst'
    BY <1>1 DEF TypeOK, OnTime, BackoffHolds, OpNextAhead, LaneNeverJams, OperatorFirst
  <1>4. NextAhead' /\ Paced'
    BY <1>1 DEF TypeOK, OnTime, NextAhead, Paced, Sweepers
  <1> QED
    BY <1>2, <1>3, <1>4

\* A command that returns frees no slot; a fault starts a back-off for who comes after it.
LEMMA ReturnsIInv ==
  ASSUME IInv, NEW c \in Callers, Faults(c) \/ Answers(c) \/ CutOff(c)
  PROVE  IInv'
  <1> USE DEF IInv
  <1>1. /\ pc[c] = "run" /\ pc' = [pc EXCEPT ![c] = "idle"]
        /\ UNCHANGED <<now, next, opNext, slot, due, ran, opLast>>
    BY DEF Faults, Answers, CutOff, Returns
  <1>2. /\ until' \in Nat /\ backoff' \in 0..BackoffMax /\ blind' \in [Callers -> BOOLEAN]
        /\ until' <= now + BackoffMax \/ until' = until
    <2>1. CASE Faults(c)
      BY <2>1, DoubledFacts DEF TypeOK, Faults
    <2>2. CASE Answers(c) \/ CutOff(c)
      BY <2>2 DEF TypeOK, Answers, CutOff
    <2> QED
      BY <2>1, <2>2
  <1>3. TypeOK'
    BY <1>1, <1>2 DEF TypeOK
  <1>4. OnTime' /\ OpNextAhead' /\ OperatorFirst' /\ NextAhead' /\ Paced'
    BY <1>1 DEF TypeOK, OnTime, OpNextAhead, OperatorFirst, NextAhead, Paced, Sweepers
  <1>5. LaneNeverJams'
    BY <1>1, <1>2 DEF TypeOK, LaneNeverJams, Later
  <1>6. BackoffHolds'
    <2>1. CASE Faults(c)
      BY <1>1, <2>1 DEF TypeOK, BackoffHolds, Faults
    <2>2. CASE Answers(c) \/ CutOff(c)
      BY <1>1, <2>2 DEF TypeOK, BackoffHolds, Answers, CutOff
    <2> QED
      BY <2>1, <2>2
  <1> QED
    BY <1>3, <1>4, <1>5, <1>6

\* Time passes.
LEMMA TickIInv == ASSUME IInv, Tick PROVE IInv'
  <1> USE DEF IInv
  <1>1. now' = now + 1 /\ UNCHANGED <<next, opNext, until, backoff, pc, slot, due, blind, ran, opLast>>
    BY DEF Tick, gateVars, histVars
  <1>2. TypeOK' /\ OpNextAhead' /\ NextAhead' /\ Paced'
    BY <1>1 DEF TypeOK, OpNextAhead, NextAhead, Paced, Sweepers
  <1>3. OnTime'
    BY <1>1 DEF TypeOK, OnTime, Tick
  <1>4. BackoffHolds' /\ OperatorFirst' /\ LaneNeverJams'
    BY <1>1 DEF TypeOK, BackoffHolds, OperatorFirst, LaneNeverJams, Later
  <1> QED
    BY <1>2, <1>3, <1>4

\* Every step of the gate keeps the invariant.
LEMMA StepIInv == IInv /\ [Next]_vars => IInv'
  <1> SUFFICES ASSUME IInv, [Next]_vars PROVE IInv'
    OBVIOUS
  <1>1. CASE UNCHANGED vars
    BY <1>1 DEF vars, gateVars, histVars, IInv, TypeOK, OnTime, NextAhead, OpNextAhead, Sweepers, Paced,
                BackoffHolds, LaneNeverJams, Later, OperatorFirst
  <1>2. ASSUME NEW c \in Callers, GivesUp(c) PROVE IInv'
    BY <1>2, WakesIInv DEF GivesUp
  <1>3. ASSUME NEW c \in Callers, Starts(c) PROVE IInv'
    BY <1>3, WakesIInv DEF Starts
  <1> QED
    BY <1>1, <1>2, <1>3, TickIInv, AcquireIInv, ReturnsIInv DEF Next

-----------------------------------------------------------------------------
\* The gate is of one type throughout; the back-off never grows beyond BackoffMax.
THEOREM BudgetTyped == Spec => []TypeOK
  <1>1. IInv => TypeOK
    BY DEF IInv
  <1> QED
    BY InitIInv, StepIInv, <1>1, PTL DEF Spec

\* The sweep's commands are an Interval apart, whoever gives up in between.
THEOREM PacedThm == Spec => []Paced
  <1>1. IInv => Paced
    BY DEF IInv
  <1> QED
    BY InitIInv, StepIInv, <1>1, PTL DEF Spec

\* What is asked for after a fault waits until the back-off is over.
THEOREM BackoffThm == Spec => []BackoffHolds
  <1>1. IInv => BackoffHolds
    BY DEF IInv
  <1> QED
    BY InitIInv, StepIInv, <1>1, PTL DEF Spec

\* Slots nobody uses never put the next one out of a patient caller's reach.
THEOREM NeverJamsThm == Spec => []LaneNeverJams
  <1>1. IInv => LaneNeverJams
    BY DEF IInv
  <1> QED
    BY InitIInv, StepIInv, <1>1, PTL DEF Spec

\* All that the gate promises.
THEOREM BudgetThm == Spec => []BudgetKept
  <1>1. IInv => BudgetKept
    BY DEF IInv, BudgetKept
  <1> QED
    BY InitIInv, StepIInv, <1>1, PTL DEF Spec

\* The sweep never delays the operator.
THEOREM OperatorFirstThm == Spec => []OperatorFirst
  <1>1. IInv => OperatorFirst
    BY DEF IInv
  <1> QED
    BY InitIInv, StepIInv, <1>1, PTL DEF Spec

-----------------------------------------------------------------------------
(* Acting on the tower. *)

Keys == (Nat \X Nat) \cup {None}
Posts == [pc : {"idle", "stamped", "script", "steps", "ends", "fails"}, op : Act!Ops,
          on : Items \cup Tasks \cup {None}, key : Keys, view : Act!Views, step : 0..3, known : SUBSET Tasks]

TowerShape ==
    /\ journal \in [ver : 0..MaxWrites, settled : SUBSET Items, queued : SUBSET (Items \cup Tasks)]
    /\ overview \in [ver : 0..MaxWrites, rows : SUBSET Tasks, open : SUBSET Tasks]
    /\ cache \in [key : Keys, view : Act!Views]
    /\ posts \in [Requests -> Posts]
    /\ mu \in Requests \cup {None} /\ actMu \in Requests \cup {None}
    /\ recent \in SUBSET Tasks /\ mine = recent
    /\ acts \in [Items -> 0..2] /\ picked \in SUBSET Items

\* Both mutexes are held by whom they say; a look takes no step.
Locks ==
    \A r \in Requests :
        /\ (mu = r <=> posts[r].pc = "script")
        /\ (actMu = r <=> posts[r].pc # "idle" /\ posts[r].op # "look")
        /\ posts[r].pc \in {"steps", "ends", "fails"} => posts[r].op # "look"

\* What an action is on, and how far it is.
Aims(r) ==
    /\ posts[r].pc # "idle" /\ posts[r].op \in {"pick", "dismiss", "fold"} => posts[r].on \in Items
    /\ posts[r].pc # "idle" /\ posts[r].op = "backlog" => posts[r].on \in Tasks
    /\ posts[r].pc = "steps" => posts[r].step \in 1..Len(Act!Steps(posts[r].op))

Reading(r) == posts[r].pc \in {"stamped", "script"}
Acting(r) == Reading(r) /\ posts[r].op # "look"

\* Stamps are of the past, and a model under a stamp that still holds is what the file says now.
Past(k) == k \in Nat \X Nat /\ k[1] <= overview.ver /\ k[2] <= journal.ver
AsOf(k, view) ==
    /\ k[1] = overview.ver => view.rows = overview.rows /\ view.open = overview.open
    /\ k[2] = journal.ver => view.items = Items \ journal.settled

Stamped ==
    /\ \A r \in Requests : Reading(r) => Past(posts[r].key)
    /\ \A r \in Requests : posts[r].pc = "script" => AsOf(posts[r].key, posts[r].view)
    /\ cache.key # None => Past(cache.key) /\ AsOf(cache.key, cache.view)

\* A model no older than the stamps of an action that holds towerActMu shows what was done before.
Shows(p, k, view) ==
    /\ k[2] >= p.key[2] => \A i \in view.items : acts[i] = 0
    /\ k[1] >= p.key[1] => p.known \cap journal.queued \subseteq view.open

Informed ==
    \A r \in Requests : Acting(r) =>
        /\ posts[r].known \cap journal.queued \subseteq overview.open
        /\ cache.key # None => Shows(posts[r], cache.key, cache.view)
        /\ \A q \in Requests : posts[q].pc = "script" => Shows(posts[r], posts[q].key, posts[q].view)

\* What an accepted action has yet to do was not done before it.
Judged(r) ==
    posts[r].pc = "steps" =>
        /\ posts[r].op = "dismiss" \/ (posts[r].op = "pick" /\ posts[r].step < 3) => acts[posts[r].on] = 0
        /\ posts[r].op = "pick" /\ posts[r].step > 1 => posts[r].on \in journal.queued
        /\ posts[r].op = "backlog" /\ posts[r].step = 1
               => posts[r].on \notin journal.queued \cap (posts[r].known \cup mine)

TowerInv ==
    /\ TowerShape /\ Locks /\ Stamped /\ Informed
    /\ \A r \in Requests : Aims(r) /\ Judged(r)
    /\ \A i \in Items : acts[i] > 0 => i \in journal.settled
    /\ Act!ActOnce /\ Act!PickedMeansQueued

\* The records of each action, one by one.
LEMMA StepsAre ==
  LET pick == Act!Steps("pick") dismiss == Act!Steps("dismiss")
      fold == Act!Steps("fold") backlog == Act!Steps("backlog")
  IN  /\ Len(pick) = 3 /\ pick[1] = "request" /\ pick[2] = "settle" /\ pick[3] = "wake"
      /\ Len(dismiss) = 1 /\ dismiss[1] = "settle"
      /\ Len(fold) = 1 /\ fold[1] = "fold"
      /\ Len(backlog) = 2 /\ backlog[1] = "request" /\ backlog[2] = "wake"
  BY DEF Act!Steps

\* An idle request and an empty model.
LEMMA NothingIs ==
         /\ Act!NoView \in Act!Views /\ Act!NoReq \in Posts
         /\ Act!NoReq.pc = "idle" /\ Act!NoReq.op = "look"
  BY DEF Act!NoView, Act!Views, Act!NoReq, Act!Ops, Posts, Keys

\* A step sets some fields of a request, and leaves the others.
Accepted(p) == [p EXCEPT !.pc = "steps", !.step = 1, !.key = None, !.view = Act!NoView]
Reads(p, v) == [p EXCEPT !.pc = "script", !.view = v]
Over(p, c) == [p EXCEPT !.pc = c]
Further(p) == [p EXCEPT !.step = p.step + 1]

\* An accepted action begins with its first step.
LEMMA AcceptedIs ==
  ASSUME NEW p \in Posts
  PROVE  LET new == Accepted(p)
         IN  /\ new \in Posts /\ new.pc = "steps" /\ new.step = 1
             /\ new.op = p.op /\ new.on = p.on /\ new.known = p.known
  <1>1. None \in Keys /\ Act!NoView \in Act!Views
    BY NothingIs DEF Keys
  <1>2. DOMAIN p = {"pc", "op", "on", "key", "view", "step", "known"}
    BY DEF Posts
  <1>3. Accepted(p).pc = "steps" /\ Accepted(p).step = 1 /\ Accepted(p).op = p.op
    BY <1>2 DEF Accepted
  <1>4. Accepted(p).on = p.on /\ Accepted(p).known = p.known
    BY <1>2 DEF Accepted
  <1>5. Accepted(p) \in Posts
    <2>1. PICK n \in 0..3 : n = 1
      OBVIOUS
    <2>2. [p EXCEPT !.pc = "steps", !.step = n, !.key = None, !.view = Act!NoView] \in Posts
      BY <1>1 DEF Posts
    <2> QED
      BY <2>1, <2>2 DEF Accepted
  <1> QED
    BY <1>3, <1>4, <1>5

\* A script that starts has read the files.
LEMMA ReadsIs ==
  ASSUME NEW p \in Posts, NEW v \in Act!Views
  PROVE  LET new == Reads(p, v)
         IN  /\ new \in Posts /\ new.pc = "script" /\ new.view = v
             /\ new.op = p.op /\ new.on = p.on /\ new.known = p.known /\ new.key = p.key
  BY DEF Posts, Reads

\* An action that is done or has failed.
LEMMA OverIs ==
  ASSUME NEW p \in Posts, NEW c \in {"ends", "fails"}
  PROVE  LET new == Over(p, c)
         IN  new \in Posts /\ new.pc = c /\ new.op = p.op /\ new.on = p.on /\ new.known = p.known
  BY DEF Posts, Over

\* An action that goes on.
LEMMA FurtherIs ==
  ASSUME NEW p \in Posts, p.step < 3
  PROVE  LET new == Further(p)
         IN  /\ new \in Posts /\ new.pc = p.pc /\ new.step = p.step + 1
             /\ new.op = p.op /\ new.on = p.on /\ new.known = p.known
  BY DEF Posts, Further

\* No request is under way at the start.
LEMMA InitTower == ASSUME Act!TowerAssumption, Act!Init PROVE TowerInv
  <1>1. \A r \in Requests : posts[r].pc = "idle" /\ posts[r].op = "look"
    BY NothingIs DEF Act!Init
  <1>2. TowerShape
    BY NothingIs DEF Act!Init, Act!TowerAssumption, TowerShape, Keys
  <1>3. cache.key = None /\ \A i \in Items : acts[i] = 0
    BY DEF Act!Init
  <1> QED
    BY <1>1, <1>2, <1>3
       DEF Act!Init, Act!TowerAssumption, TowerInv, Locks, Stamped, Informed, Aims, Judged, Reading, Acting,
           Act!ActOnce, Act!PickedMeansQueued

\* One action at a time.
LEMMA Alone ==
  ASSUME Act!TowerAssumption, TowerInv, NEW r \in Requests, NEW q \in Requests,
         posts[r].pc # "idle", posts[r].op # "look", posts[q].pc # "idle", posts[q].op # "look"
  PROVE  q = r
  BY DEF TowerInv, Locks

\* A model that was taken under the stamps of a script, the cache, or none.
Stored(r) ==
    \/ cache' = cache
    \/ posts[r].pc = "script" /\ cache' = [key |-> posts[r].key, view |-> posts[r].view]
    \/ cache' = [key |-> None, view |-> Act!NoView]

\* What is stored is as good as what was cached.
LEMMA StoredIs ==
  ASSUME Act!TowerAssumption, TowerInv, NEW r \in Requests, Stored(r), UNCHANGED <<journal, overview, acts>>
  PROVE  /\ cache' \in [key : Keys, view : Act!Views]
         /\ (cache.key # None => Past(cache.key) /\ AsOf(cache.key, cache.view))'
         /\ \A q \in Requests : Acting(q) /\ cache'.key # None => Shows(posts[q], cache'.key, cache'.view)
  <1>1. posts[r].key \in Keys /\ posts[r].view \in Act!Views /\ Act!NoView \in Act!Views
    BY NothingIs DEF TowerInv, TowerShape, Posts
  <1>2. CASE cache' = cache
    <2>1. cache'.key = cache.key /\ cache'.view = cache.view /\ cache' \in [key : Keys, view : Act!Views]
      BY <1>2 DEF TowerInv, TowerShape
    <2>2. cache.key # None => Past(cache.key) /\ AsOf(cache.key, cache.view)
      BY DEF TowerInv, Stamped
    <2>3. \A q \in Requests : Acting(q) /\ cache.key # None => Shows(posts[q], cache.key, cache.view)
      BY DEF TowerInv, Informed
    <2> QED
      BY <2>1, <2>2, <2>3 DEF Past, AsOf
  <1>3. CASE posts[r].pc = "script" /\ cache' = [key |-> posts[r].key, view |-> posts[r].view]
    <2>1. cache'.key = posts[r].key /\ cache'.view = posts[r].view /\ cache' \in [key : Keys, view : Act!Views]
      BY <1>1, <1>3
    <2>2. Past(posts[r].key) /\ AsOf(posts[r].key, posts[r].view)
      BY <1>3 DEF TowerInv, Stamped, Reading
    <2>3. \A q \in Requests : Acting(q) => Shows(posts[q], posts[r].key, posts[r].view)
      BY <1>3 DEF TowerInv, Informed
    <2> QED
      BY <2>1, <2>2, <2>3 DEF Past, AsOf
  <1>4. CASE cache' = [key |-> None, view |-> Act!NoView]
    BY <1>1, <1>4 DEF Keys
  <1> QED
    BY <1>2, <1>3, <1>4 DEF Stored

\* A request is over.
LEMMA Dropped ==
  ASSUME Act!TowerAssumption, TowerInv, NEW r \in Requests, Stored(r),
         posts' = [posts EXCEPT ![r] = Act!NoReq], actMu' = Act!Released(r),
         mu' = IF mu = r THEN None ELSE mu,
         UNCHANGED <<journal, overview, acts, picked>>,
         recent' \in SUBSET Tasks, mine' = recent', mine' \subseteq mine \/ posts[r].pc \in {"ends", "fails"}
  PROVE  TowerInv'
  <1> USE DEF TowerInv
  <1>1. /\ posts' \in [Requests -> Posts] /\ posts'[r].pc = "idle" /\ posts'[r].op = "look"
        /\ \A q \in Requests \ {r} : posts'[q] = posts[q]
    BY NothingIs DEF TowerShape
  <1>2. TowerShape'
    BY <1>1, StoredIs DEF TowerShape, Act!Released
  <1>3. Locks'
    BY <1>1 DEF Locks, Act!Released, Act!TowerAssumption
  <1>4. Stamped'
    <2>1. \A q \in Requests : Reading(q)' => Reading(q) /\ posts'[q] = posts[q]
      BY <1>1 DEF Reading
    <2>2. (\A q \in Requests : Reading(q) => Past(posts[q].key))'
      BY <2>1 DEF Stamped, Past
    <2>3. (\A q \in Requests : posts[q].pc = "script" => AsOf(posts[q].key, posts[q].view))'
      BY <2>1 DEF Stamped, AsOf, Reading
    <2>4. (cache.key # None => Past(cache.key) /\ AsOf(cache.key, cache.view))'
      BY StoredIs
    <2> QED
      BY <2>2, <2>3, <2>4 DEF Stamped
  <1>5. Informed'
    BY <1>1, StoredIs DEF Informed, Acting, Reading, Shows
  <1>6. ASSUME NEW q \in Requests PROVE Aims(q)' /\ Judged(q)'
    <2>1. CASE q = r
      BY <1>1, <2>1 DEF Aims, Judged
    <2>2. CASE q # r
      <3>1. posts[q].pc = "steps" => mine' \subseteq mine
        BY <2>2, Alone DEF Locks
      <3> QED
        BY <1>1, <2>2, <3>1 DEF Aims, Judged
    <2> QED
      BY <2>1, <2>2
  <1>7. (\A i \in Items : acts[i] > 0 => i \in journal.settled)' /\ Act!ActOnce' /\ Act!PickedMeansQueued'
    BY DEF Act!ActOnce, Act!PickedMeansQueued
  <1> QED
    BY <1>2, <1>3, <1>4, <1>5, <1>6, <1>7

\* A request that read a model no older than its stamps is answered, refused or accepted.
LEMMA Judges ==
  ASSUME Act!TowerAssumption, TowerInv, NEW r \in Requests, Reading(r), Stored(r),
         NEW view \in Act!Views, Acting(r) => Shows(posts[r], posts[r].key, view), Act!Judge(r, view),
         mu' = IF mu = r THEN None ELSE mu,
         UNCHANGED <<journal, overview, acts, picked, recent, mine>>
  PROVE  TowerInv'
  <1> USE DEF TowerInv
  <1>1. CASE ~(posts[r].op # "look" /\ Act!Allowed(posts[r].op, posts[r].on, view))
    BY <1>1, Dropped DEF Act!Judge, TowerShape
  <1>2. CASE posts[r].op # "look" /\ Act!Allowed(posts[r].op, posts[r].on, view)
    <2>0. Acting(r) /\ posts[r] \in Posts
      BY <1>2 DEF Acting, TowerShape
    <2>1. /\ posts' = [posts EXCEPT ![r] = [@ EXCEPT !.pc = "steps", !.step = 1, !.key = None,
                                                    !.view = Act!NoView]]
          /\ UNCHANGED actMu
      BY <1>2 DEF Act!Judge
    <2>2. /\ posts' \in [Requests -> Posts] /\ \A q \in Requests \ {r} : posts'[q] = posts[q]
          /\ posts'[r].pc = "steps" /\ posts'[r].step = 1 /\ posts'[r].op = posts[r].op
          /\ posts'[r].on = posts[r].on /\ posts'[r].known = posts[r].known
      <3>1. posts' = [posts EXCEPT ![r] = Accepted(posts[r])]
        BY <2>1 DEF Accepted
      <3> QED
        BY <2>0, <3>1, AcceptedIs DEF TowerShape
    <2>3. TowerShape'
      BY <2>1, <2>2, StoredIs DEF TowerShape
    <2>4. Locks'
      BY <2>0, <2>1, <2>2 DEF Locks, Act!TowerAssumption, Acting, Reading
    <2>5. Stamped'
      <3>1. \A q \in Requests : Reading(q)' => Reading(q) /\ posts'[q] = posts[q]
        BY <2>2 DEF Reading
      <3>2. (\A q \in Requests : Reading(q) => Past(posts[q].key))'
        BY <3>1 DEF Stamped, Past
      <3>3. (\A q \in Requests : posts[q].pc = "script" => AsOf(posts[q].key, posts[q].view))'
        BY <3>1 DEF Stamped, AsOf, Reading
      <3>4. (cache.key # None => Past(cache.key) /\ AsOf(cache.key, cache.view))'
        BY StoredIs
      <3> QED
        BY <3>2, <3>3, <3>4 DEF Stamped
    <2>6. Informed'
      BY <2>2, StoredIs DEF Informed, Acting, Reading, Shows
    <2>7. ASSUME NEW q \in Requests PROVE Aims(q)' /\ Judged(q)'
      <3>1. CASE q = r
        <4>1. Aims(r)'
          BY <2>0, <2>2, StepsAre DEF Aims, Acting, Reading, Posts, Act!Ops
        <4>2. posts[r].op \in {"pick", "dismiss"} => acts[posts[r].on] = 0
          BY <1>2, <2>0 DEF Shows, Act!Allowed, TowerShape, Stamped, Past, Acting
        <4>3. posts[r].op = "backlog" => posts[r].on \notin journal.queued \cap (posts[r].known \cup mine)
          BY <1>2, <2>0 DEF Shows, Act!Allowed, Act!Queued, TowerShape, Stamped, Past, Acting
        <4>4. Judged(r)'
          BY <2>2, <4>2, <4>3 DEF Judged
        <4> QED
          BY <3>1, <4>1, <4>4
      <3>2. CASE q # r
        BY <2>2, <3>2 DEF Aims, Judged
      <3> QED
        BY <3>1, <3>2
    <2>8. (\A i \in Items : acts[i] > 0 => i \in journal.settled)' /\ Act!ActOnce' /\ Act!PickedMeansQueued'
      BY DEF Act!ActOnce, Act!PickedMeansQueued
    <2> QED
      BY <2>3, <2>4, <2>5, <2>6, <2>7, <2>8
  <1> QED
    BY <1>1, <1>2

\* What a request may be about.
Aim(op, on) ==
    \/ op = "look" /\ on = None
    \/ op \in {"fold", "pick", "dismiss"} /\ on \in Items
    \/ op = "backlog" /\ on \in Tasks

\* A request that comes has seen no more than what the stores show now.
LEMMA Begins ==
  ASSUME Act!TowerAssumption, TowerInv, NEW r \in Requests, NEW op, NEW on, Aim(op, on), Act!Begin(r, op, on)
  PROVE  TowerInv'
  <1> USE DEF TowerInv
  <1> DEFINE post == [Act!NoReq EXCEPT !.pc = "stamped", !.op = op, !.on = on, !.key = Act!Stamps,
                                       !.known = journal.queued \cap overview.open]
  <1>1. /\ journal.queued \cap overview.open \in SUBSET Tasks /\ Act!Stamps \in Keys /\ Past(Act!Stamps)
        /\ Act!Stamps # None /\ Act!Stamps[1] = overview.ver /\ Act!Stamps[2] = journal.ver
    BY DEF TowerShape, Act!Stamps, Keys, Past, Act!TowerAssumption
  <1>2. on \in Items \cup Tasks \cup {None} /\ op \in Act!Ops
    BY DEF Act!Ops, Aim
  <1>3. /\ post.pc = "stamped" /\ post.op = op /\ post.on = on /\ post.key = Act!Stamps
        /\ post.known = journal.queued \cap overview.open
    BY DEF Act!NoReq
  <1>4. post \in Posts
    BY <1>1, <1>2, NothingIs DEF Posts
  <1>5. posts' = [posts EXCEPT ![r] = post] /\ posts[r].pc = "idle" /\ Act!Free(op)
    BY DEF Act!Begin
  <1>6. /\ actMu' = (IF op = "look" THEN actMu ELSE r)
        /\ UNCHANGED <<journal, overview, cache, mu, recent, mine, acts, picked>>
    BY DEF Act!Begin, Act!fileVars, Act!histVars
  <1> HIDE DEF post
  <1>7. posts' \in [Requests -> Posts] /\ posts'[r] = post /\ \A q \in Requests \ {r} : posts'[q] = posts[q]
    BY <1>4, <1>5 DEF TowerShape
  <1>8. TowerShape'
    BY <1>6, <1>7 DEF TowerShape
  <1>9. Locks'
    BY <1>3, <1>5, <1>6, <1>7 DEF Locks, Act!Free, Act!TowerAssumption
  <1>10. Stamped'
    <2>1. (\A q \in Requests : Reading(q) => Past(posts[q].key))'
      BY <1>1, <1>3, <1>6, <1>7 DEF Stamped, Past, Reading
    <2>2. (\A q \in Requests : posts[q].pc = "script" => AsOf(posts[q].key, posts[q].view))'
      BY <1>3, <1>6, <1>7 DEF Stamped, AsOf
    <2>3. (cache.key # None => Past(cache.key) /\ AsOf(cache.key, cache.view))'
      BY <1>6 DEF Stamped, Past, AsOf
    <2> QED
      BY <2>1, <2>2, <2>3 DEF Stamped
  <1>11. \A k, view : Past(k) /\ AsOf(k, view) => Shows(post, k, view)
    BY <1>1, <1>3 DEF Past, AsOf, Shows, TowerShape
  <1>12. Informed'
    <2>1. ASSUME NEW q \in Requests, Acting(q)'
          PROVE  (/\ posts[q].known \cap journal.queued \subseteq overview.open
                  /\ cache.key # None => Shows(posts[q], cache.key, cache.view)
                  /\ \A p \in Requests : posts[p].pc = "script" => Shows(posts[q], posts[p].key, posts[p].view))'
      <3>1. CASE q = r
        <4>1. cache.key # None => Shows(post, cache.key, cache.view)
          BY <1>11 DEF Stamped
        <4>2. \A p \in Requests : posts[p].pc = "script" => Shows(post, posts[p].key, posts[p].view)
          BY <1>11 DEF Stamped, Reading
        <4>3. \A p \in Requests : posts'[p].pc = "script" => p # r
          BY <1>3, <1>7
        <4>4. (\A p \in Requests : posts[p].pc = "script" => Shows(posts[r], posts[p].key, posts[p].view))'
          BY <1>6, <1>7, <4>2, <4>3 DEF Shows
        <4> QED
          BY <1>3, <1>6, <1>7, <3>1, <4>1, <4>4 DEF Shows
      <3>2. CASE q # r
        BY <1>3, <1>6, <1>7, <2>1, <3>2 DEF Informed, Acting, Reading, Shows
      <3> QED
        BY <3>1, <3>2
    <2> QED
      BY <2>1 DEF Informed
  <1>13. ASSUME NEW q \in Requests PROVE Aims(q)' /\ Judged(q)'
    <2>1. CASE q = r
      BY <1>3, <1>7, <2>1 DEF Aims, Judged, Aim
    <2>2. CASE q # r
      BY <1>6, <1>7, <2>2 DEF Aims, Judged
    <2> QED
      BY <2>1, <2>2
  <1>14. (\A i \in Items : acts[i] > 0 => i \in journal.settled)' /\ Act!ActOnce' /\ Act!PickedMeansQueued'
    BY <1>6 DEF Act!ActOnce, Act!PickedMeansQueued
  <1> QED
    BY <1>8, <1>9, <1>10, <1>12, <1>13, <1>14

\* Under the cache's lock: the cached model serves, or a script starts.
LEMMA Enters == ASSUME Act!TowerAssumption, TowerInv, NEW r \in Requests, Act!Enter(r) PROVE TowerInv'
  <1> USE DEF TowerInv
  <1>1. /\ posts[r].pc = "stamped" /\ mu = None /\ posts[r] \in Posts
        /\ UNCHANGED <<journal, overview, cache, recent, mine, acts, picked>>
    BY DEF Act!Enter, Act!fileVars, Act!histVars, TowerShape
  <1>2. CASE Act!Hit(r)
    <2>1. Act!Judge(r, cache.view) /\ UNCHANGED mu
      BY <1>2 DEF Act!Enter
    <2>2. cache.view \in Act!Views /\ Reading(r) /\ Stored(r) /\ mu' = IF mu = r THEN None ELSE mu
      BY <1>1, <2>1 DEF TowerShape, Reading, Stored
    <2>3. Acting(r) => Shows(posts[r], posts[r].key, cache.view)
      BY <1>2 DEF Act!Hit, Informed
    <2> QED
      BY <1>1, <2>1, <2>2, <2>3, Judges
  <1>3. CASE ~Act!Hit(r)
    <2>1. posts' = [posts EXCEPT ![r] = Reads(posts[r], Act!View)] /\ mu' = r /\ UNCHANGED actMu
      BY <1>3 DEF Act!Enter, Reads
    <2>2. Act!View \in Act!Views
      BY DEF Act!View, Act!Views, TowerShape
    <2>3. LET new == Reads(posts[r], Act!View)
          IN  /\ new \in Posts /\ new.pc = "script" /\ new.view = Act!View
              /\ new.op = posts[r].op /\ new.on = posts[r].on
              /\ new.known = posts[r].known /\ new.key = posts[r].key
      BY <1>1, <2>2, ReadsIs
    <2>4. /\ posts' \in [Requests -> Posts] /\ posts'[r].pc = "script" /\ posts'[r].view = Act!View
          /\ \A q \in Requests : q # r => posts'[q] = posts[q]
          /\ \A q \in Requests : /\ posts'[q].op = posts[q].op /\ posts'[q].on = posts[q].on
                                 /\ posts'[q].known = posts[q].known /\ posts'[q].key = posts[q].key
      BY <2>1, <2>3 DEF TowerShape
    <2>5. \A q \in Requests : /\ Reading(q)' = Reading(q) /\ Acting(q)' = Acting(q)
                              /\ posts'[q].pc = "script" => q = r \/ posts[q].pc = "script"
      BY <1>1, <2>4 DEF Acting, Reading
    <2>6. TowerShape'
      BY <1>1, <2>1, <2>4 DEF TowerShape
    <2>7. Locks'
      BY <1>1, <2>1, <2>4 DEF Locks, Act!TowerAssumption
    <2>8. Stamped'
      <3>1. (\A q \in Requests : Reading(q) => Past(posts[q].key))'
        BY <1>1, <2>4, <2>5 DEF Stamped, Past
      <3>2. (\A q \in Requests : posts[q].pc = "script" => AsOf(posts[q].key, posts[q].view))'
        BY <1>1, <2>4 DEF Stamped, AsOf, Act!View
      <3>3. (cache.key # None => Past(cache.key) /\ AsOf(cache.key, cache.view))'
        BY <1>1 DEF Stamped, Past, AsOf
      <3> QED
        BY <3>1, <3>2, <3>3 DEF Stamped
    <2>9. Informed'
      <3>1. ASSUME NEW q \in Requests, Acting(q) PROVE Shows(posts[q], posts[r].key, Act!View)
        BY <3>1 DEF Informed, Shows, Act!View, TowerShape
      <3>2. ASSUME NEW q \in Requests, Acting(q), NEW p \in Requests, posts'[p].pc = "script"
            PROVE  Shows(posts[q], posts'[p].key, posts'[p].view)
        BY <2>4, <3>1, <3>2 DEF Informed
      <3> QED
        BY <1>1, <2>4, <2>5, <3>2 DEF Informed, Shows
    <2>10. ASSUME NEW q \in Requests PROVE Aims(q)' /\ Judged(q)'
      BY <1>1, <2>4 DEF Aims, Judged
    <2>11. (\A i \in Items : acts[i] > 0 => i \in journal.settled)' /\ Act!ActOnce' /\ Act!PickedMeansQueued'
      BY <1>1 DEF Act!ActOnce, Act!PickedMeansQueued
    <2> QED
      BY <2>6, <2>7, <2>8, <2>9, <2>10, <2>11
  <1> QED
    BY <1>2, <1>3

\* The script ends: what it read is stored and judged, or the request is over.
LEMMA Finishes ==
  ASSUME Act!TowerAssumption, TowerInv, NEW r \in Requests, NEW ok \in BOOLEAN, Act!ScriptEnds(r, ok)
  PROVE  TowerInv'
  <1> USE DEF TowerInv
  <1>1. /\ posts[r].pc = "script" /\ mu' = None /\ mu = r /\ posts[r] \in Posts /\ mine = recent
        /\ UNCHANGED <<journal, overview, recent, mine, acts, picked>> /\ recent \in SUBSET Tasks
    BY DEF Act!ScriptEnds, Act!fileVars, Act!histVars, TowerShape, Locks
  <1>2. CASE ok
    <2>1. cache' = [key |-> posts[r].key, view |-> posts[r].view] /\ Act!Judge(r, posts[r].view)
      BY <1>2 DEF Act!ScriptEnds, Act!StoreKey
    <2>2. posts[r].view \in Act!Views /\ Reading(r) /\ Stored(r)
      BY <1>1, <2>1 DEF Posts, Reading, Stored
    <2>3. Acting(r) => Shows(posts[r], posts[r].key, posts[r].view)
      BY <1>1 DEF Informed
    <2> QED
      BY <1>1, <2>1, <2>2, <2>3, Judges
  <1>3. CASE ~ok
    <2>1. posts' = [posts EXCEPT ![r] = Act!NoReq] /\ actMu' = Act!Released(r) /\ Stored(r)
      BY <1>3 DEF Act!ScriptEnds, Stored
    <2> QED
      BY <1>1, <2>1, Dropped
  <1> QED
    BY <1>2, <1>3

\* The action is over: the cached model goes, and a task that was started is remembered.
LEMMA Ends == ASSUME Act!TowerAssumption, TowerInv, NEW r \in Requests, Act!End(r) PROVE TowerInv'
  <1> USE DEF TowerInv
  <1>1. /\ posts[r].pc \in {"ends", "fails"} /\ mu = None /\ mu' = mu /\ Stored(r)
        /\ posts' = [posts EXCEPT ![r] = Act!NoReq] /\ actMu' = Act!Released(r)
        /\ UNCHANGED <<journal, overview, acts, picked>>
    BY DEF Act!End, Act!fileVars, Stored
  <1>2. recent' \in SUBSET Tasks /\ mine' = recent'
    <2>1. mine = recent /\ recent \in SUBSET Tasks
      BY DEF TowerShape
    <2>2. posts[r].op = "backlog" => posts[r].on \in Tasks
      BY <1>1 DEF Aims
    <2> QED
      BY <2>1, <2>2 DEF Act!End
  <1> QED
    BY <1>1, <1>2, Dropped

\* A write of either file leaves every stamp in the past.
LEMMA Grows ==
  ASSUME Act!TowerAssumption, TowerInv, UNCHANGED cache,
         \A q \in Requests : Reading(q)' => Reading(q) /\ posts'[q] = posts[q],
         journal' = journal \/ journal'.ver = journal.ver + 1,
         overview' = overview \/ overview'.ver = overview.ver + 1
  PROVE  Stamped'
  <1>1. journal.ver \in Nat /\ overview.ver \in Nat
    BY DEF TowerInv, TowerShape, Act!TowerAssumption
  <1>2. \A k : Past(k) => Past(k)'
    BY <1>1 DEF Past
  <1>3. \A k, view : Past(k) /\ AsOf(k, view) => AsOf(k, view)'
    BY <1>1 DEF Past, AsOf
  <1>4. (\A q \in Requests : Reading(q) => Past(posts[q].key))'
    BY <1>2 DEF TowerInv, Stamped, Past
  <1>5. (\A q \in Requests : posts[q].pc = "script" => AsOf(posts[q].key, posts[q].view))'
    BY <1>3 DEF TowerInv, Stamped, AsOf, Reading
  <1>6. (cache.key # None => Past(cache.key) /\ AsOf(cache.key, cache.view))'
    BY <1>2, <1>3 DEF TowerInv, Stamped, Past, AsOf
  <1> QED
    BY <1>4, <1>5, <1>6 DEF Stamped

\* Tower writes its journal: what it is done with is no longer queued.
LEMMA JournalGrows ==
  ASSUME Act!TowerAssumption, TowerInv, NEW settles \in SUBSET Items, NEW dones \in SUBSET Tasks,
         Act!JournalMoves(settles, dones)
  PROVE  TowerInv'
  <1> USE DEF TowerInv
  <1>1. /\ journal'.ver = journal.ver + 1 /\ journal'.settled = journal.settled \cup settles
        /\ journal'.queued = journal.queued \ dones /\ journal.ver + overview.ver < MaxWrites
        /\ UNCHANGED <<overview, cache, mu, actMu, recent, posts, mine, acts, picked>>
    BY DEF Act!JournalMoves, Act!MayWrite, Act!daemonVars, Act!histVars
  <1>2. journal' \in [ver : 0..MaxWrites, settled : SUBSET Items, queued : SUBSET (Items \cup Tasks)]
    BY <1>1 DEF Act!JournalMoves, TowerShape, Act!TowerAssumption
  <1>3. TowerShape' /\ Locks'
    BY <1>1, <1>2 DEF TowerShape, Locks
  <1>4. Stamped'
    BY <1>1, Grows DEF Reading
  <1>5. Informed'
    BY <1>1 DEF Informed, Acting, Reading, Shows
  <1>6. ASSUME NEW q \in Requests PROVE Aims(q)' /\ Judged(q)'
    <2>1. posts[q].pc = "steps" /\ posts[q].op = "pick" => posts[q].on \notin dones
      BY DEF Aims, Act!TowerAssumption
    <2> QED
      BY <1>1, <2>1 DEF Aims, Judged
  <1>7. (\A i \in Items : acts[i] > 0 => i \in journal.settled)' /\ Act!ActOnce' /\ Act!PickedMeansQueued'
    BY <1>1 DEF Act!ActOnce, Act!PickedMeansQueued, TowerShape, Act!TowerAssumption
  <1> QED
    BY <1>3, <1>4, <1>5, <1>6, <1>7

\* Tower writes its overview: what is queued is open in it.
LEMMA OverviewGrows == ASSUME Act!TowerAssumption, TowerInv, Act!Regenerate PROVE TowerInv'
  <1> USE DEF TowerInv
  <1>1. /\ overview'.ver = overview.ver + 1 /\ overview'.open = journal.queued \cap Tasks
        /\ journal.ver + overview.ver < MaxWrites
        /\ UNCHANGED <<journal, cache, mu, actMu, recent, posts, mine, acts, picked>>
    BY DEF Act!Regenerate, Act!MayWrite, Act!daemonVars, Act!histVars
  <1>2. overview' \in [ver : 0..MaxWrites, rows : SUBSET Tasks, open : SUBSET Tasks]
    BY <1>1 DEF Act!Regenerate, TowerShape, Act!TowerAssumption
  <1>3. TowerShape' /\ Locks'
    BY <1>1, <1>2 DEF TowerShape, Locks
  <1>4. Stamped'
    BY <1>1, Grows DEF Reading
  <1>5. Informed'
    BY <1>1 DEF Informed, Acting, Reading, Shows, TowerShape, Posts
  <1>6. ASSUME NEW q \in Requests PROVE Aims(q)' /\ Judged(q)'
    BY <1>1 DEF Aims, Judged
  <1>7. (\A i \in Items : acts[i] > 0 => i \in journal.settled)' /\ Act!ActOnce' /\ Act!PickedMeansQueued'
    BY <1>1 DEF Act!ActOnce, Act!PickedMeansQueued
  <1> QED
    BY <1>3, <1>4, <1>5, <1>6, <1>7

\* The 15 minutes of a task are over, or the daemon starts again.
LEMMA Forgets ==
  ASSUME Act!TowerAssumption, TowerInv, Act!Restart \/ \E t \in Tasks : Act!Lapse(t) PROVE TowerInv'
  <1> USE DEF TowerInv
  <1>1. CASE Act!Restart
    <2>1. /\ posts' = [r \in Requests |-> Act!NoReq] /\ mu' = None /\ actMu' = None
          /\ recent' = {} /\ mine' = {}
          /\ cache' = [key |-> None, view |-> Act!NoView] /\ UNCHANGED <<journal, overview, acts, picked>>
      BY <1>1 DEF Act!Restart, Act!fileVars
    <2>2. /\ posts' \in [Requests -> Posts] /\ cache' \in [key : Keys, view : Act!Views] /\ cache'.key = None
          /\ \A q \in Requests : posts'[q].pc = "idle" /\ posts'[q].op = "look"
      BY <2>1, NothingIs DEF Keys
    <2>3. TowerShape'
      BY <2>1, <2>2 DEF TowerShape
    <2>4. Locks' /\ Stamped' /\ Informed'
      BY <2>1, <2>2 DEF Locks, Stamped, Informed, Acting, Reading, Act!TowerAssumption
    <2>5. ASSUME NEW q \in Requests PROVE Aims(q)' /\ Judged(q)'
      BY <2>2 DEF Aims, Judged
    <2>6. (\A i \in Items : acts[i] > 0 => i \in journal.settled)' /\ Act!ActOnce' /\ Act!PickedMeansQueued'
      BY <2>1 DEF Act!ActOnce, Act!PickedMeansQueued
    <2> QED
      BY <2>3, <2>4, <2>5, <2>6
  <1>2. ASSUME NEW t \in Tasks, Act!Lapse(t) PROVE TowerInv'
    <2>1. /\ recent' = recent \ {t} /\ mine' = mine \ {t}
          /\ UNCHANGED <<journal, overview, cache, mu, actMu, posts, acts, picked>>
      BY <1>2 DEF Act!Lapse, Act!fileVars
    <2>2. TowerShape' /\ Locks'
      BY <2>1 DEF TowerShape, Locks
    <2>3. Stamped'
      BY <2>1, Grows DEF Reading
    <2>4. Informed'
      BY <2>1 DEF Informed, Acting, Reading, Shows
    <2>5. ASSUME NEW q \in Requests PROVE Aims(q)' /\ Judged(q)'
      BY <2>1 DEF Aims, Judged
    <2>6. (\A i \in Items : acts[i] > 0 => i \in journal.settled)' /\ Act!ActOnce' /\ Act!PickedMeansQueued'
      BY <2>1 DEF Act!ActOnce, Act!PickedMeansQueued
    <2> QED
      BY <2>2, <2>3, <2>4, <2>5, <2>6
  <1> QED
    BY <1>1, <1>2

\* Which record or call the next step of an action is.
LEMMA StepIs ==
  ASSUME TowerInv, NEW r \in Requests, posts[r].pc = "steps"
  PROVE  \/ posts[r].op = "pick" /\ posts[r].step = 1 /\ Act!Step(r) = "request" /\ ~Act!Last(r)
         \/ posts[r].op = "pick" /\ posts[r].step = 2 /\ Act!Step(r) = "settle" /\ ~Act!Last(r)
         \/ posts[r].op = "pick" /\ posts[r].step = 3 /\ Act!Step(r) = "wake" /\ Act!Last(r)
         \/ posts[r].op = "dismiss" /\ posts[r].step = 1 /\ Act!Step(r) = "settle" /\ Act!Last(r)
         \/ posts[r].op = "fold" /\ posts[r].step = 1 /\ Act!Step(r) = "fold" /\ Act!Last(r)
         \/ posts[r].op = "backlog" /\ posts[r].step = 1 /\ Act!Step(r) = "request" /\ ~Act!Last(r)
         \/ posts[r].op = "backlog" /\ posts[r].step = 2 /\ Act!Step(r) = "wake" /\ Act!Last(r)
  <1>1. /\ posts[r].op \in {"pick", "dismiss", "fold", "backlog"}
        /\ posts[r].step \in 1..Len(Act!Steps(posts[r].op))
    BY DEF TowerInv, TowerShape, Posts, Act!Ops, Locks, Aims
  <1>2. CASE posts[r].op = "pick"
    <2>1. posts[r].step \in 1..3
      BY <1>1, <1>2, StepsAre
    <2>2. Act!Step(r) = Act!Steps("pick")[posts[r].step] /\ (Act!Last(r) <=> posts[r].step = 3)
      BY <1>2, StepsAre DEF Act!Step, Act!Last
    <2> QED
      BY <1>2, <2>1, <2>2, StepsAre
  <1>3. CASE posts[r].op = "dismiss"
    <2>1. posts[r].step \in 1..1
      BY <1>1, <1>3, StepsAre
    <2>2. Act!Step(r) = Act!Steps("dismiss")[posts[r].step] /\ (Act!Last(r) <=> posts[r].step = 1)
      BY <1>3, StepsAre DEF Act!Step, Act!Last
    <2> QED
      BY <1>3, <2>1, <2>2, StepsAre
  <1>4. CASE posts[r].op = "fold"
    <2>1. posts[r].step \in 1..1
      BY <1>1, <1>4, StepsAre
    <2>2. Act!Step(r) = Act!Steps("fold")[posts[r].step] /\ (Act!Last(r) <=> posts[r].step = 1)
      BY <1>4, StepsAre DEF Act!Step, Act!Last
    <2> QED
      BY <1>4, <2>1, <2>2, StepsAre
  <1>5. CASE posts[r].op = "backlog"
    <2>1. posts[r].step \in 1..2
      BY <1>1, <1>5, StepsAre
    <2>2. Act!Step(r) = Act!Steps("backlog")[posts[r].step] /\ (Act!Last(r) <=> posts[r].step = 2)
      BY <1>5, StepsAre DEF Act!Step, Act!Last
    <2> QED
      BY <1>5, <2>1, <2>2, StepsAre
  <1> QED
    BY <1>1, <1>2, <1>3, <1>4, <1>5

\* What a record adds to the journal.
LEMMA Writes ==
  ASSUME Act!TowerAssumption, TowerInv, NEW r \in Requests, posts[r].pc = "steps", Act!Write(r)
  PROVE  /\ journal' \in [ver : 0..MaxWrites, settled : SUBSET Items, queued : SUBSET (Items \cup Tasks)]
         /\ journal'.ver = journal.ver + 1
         /\ journal'.settled = journal.settled \cup (IF Act!Step(r) = "settle" THEN {posts[r].on} ELSE {})
         /\ journal'.queued = journal.queued \cup (IF Act!Step(r) = "request" THEN {posts[r].on} ELSE {})
         /\ Act!Step(r) # "settle" => UNCHANGED <<acts, picked>>
         /\ Act!Step(r) = "settle" =>
              /\ posts[r].on \in Items /\ acts[posts[r].on] = 0
              /\ acts' = [acts EXCEPT ![posts[r].on] = 1] /\ acts' \in [Items -> 0..2]
              /\ picked' = IF posts[r].op = "pick" THEN picked \cup {posts[r].on} ELSE picked
  <1> USE DEF TowerInv
  <1>1. /\ posts[r].on \in Items \cup Tasks
        /\ Act!Step(r) = "settle" => posts[r].on \in Items /\ acts[posts[r].on] = 0
    BY StepIs DEF Aims, Judged
  <1>2. /\ journal' = [ver |-> journal.ver + 1,
                       settled |-> IF Act!Step(r) = "settle" THEN journal.settled \cup {posts[r].on}
                                   ELSE journal.settled,
                       queued |-> IF Act!Step(r) = "request" THEN journal.queued \cup {posts[r].on}
                                  ELSE journal.queued]
        /\ journal.ver + overview.ver < MaxWrites
    BY DEF Act!Write, Act!MayWrite
  <1>3. /\ journal'.ver = journal.ver + 1
        /\ journal'.settled = journal.settled \cup (IF Act!Step(r) = "settle" THEN {posts[r].on} ELSE {})
        /\ journal'.queued = journal.queued \cup (IF Act!Step(r) = "request" THEN {posts[r].on} ELSE {})
    BY <1>2
  <1>4. journal' \in [ver : 0..MaxWrites, settled : SUBSET Items, queued : SUBSET (Items \cup Tasks)]
    BY <1>1, <1>2 DEF TowerShape, Act!TowerAssumption
  <1>5. Act!Step(r) # "settle" => UNCHANGED <<acts, picked>>
    BY DEF Act!Write
  <1>6. ASSUME Act!Step(r) = "settle"
        PROVE  /\ posts[r].on \in Items /\ acts[posts[r].on] = 0
               /\ acts' = [acts EXCEPT ![posts[r].on] = 1] /\ acts' \in [Items -> 0..2]
               /\ picked' = IF posts[r].op = "pick" THEN picked \cup {posts[r].on} ELSE picked
    <2>1. /\ acts' = [acts EXCEPT ![posts[r].on] = IF acts[posts[r].on] < 2 THEN acts[posts[r].on] + 1 ELSE 2]
          /\ picked' = IF posts[r].op = "pick" THEN picked \cup {posts[r].on} ELSE picked
      BY <1>6 DEF Act!Write
    <2>2. (IF acts[posts[r].on] < 2 THEN acts[posts[r].on] + 1 ELSE 2) = 1
      BY <1>1, <1>6
    <2>3. acts' = [acts EXCEPT ![posts[r].on] = 1]
      BY <2>1, <2>2
    <2>4. acts' \in [Items -> 0..2]
      BY <1>1, <1>6, <2>3 DEF TowerShape
    <2> QED
      BY <1>1, <1>6, <2>1, <2>3, <2>4
  <1> QED
    BY <1>3, <1>4, <1>5, <1>6

\* A step of an action: its record, if it was written, comes after everything the action rests on.
LEMMA Steps ==
  ASSUME Act!TowerAssumption, TowerInv, NEW r \in Requests, NEW ok \in BOOLEAN, NEW wrote \in {ok, TRUE},
         Act!TakeStep(r, ok, wrote)
  PROVE  TowerInv'
  <1> USE DEF TowerInv
  <1>1. /\ posts[r].pc = "steps" /\ UNCHANGED <<overview, cache, mu, actMu, recent, mine>>
        /\ posts[r] \in Posts /\ posts[r].op # "look"
    BY DEF Act!TakeStep, TowerShape, Locks
  <1>2. \/ Act!Step(r) # "wake" /\ Act!Write(r)
        \/ UNCHANGED <<journal, acts, picked>> /\ ~(Act!Step(r) # "wake" /\ wrote)
    BY DEF Act!TakeStep
  <1>3. ~Act!Last(r) => posts[r].step < 3
    BY <1>1, StepIs
  <1>4. \/ /\ ~ok /\ Act!Step(r) # "wake" /\ posts' = [posts EXCEPT ![r] = Over(posts[r], "fails")]
        \/ /\ Act!Last(r) /\ posts' = [posts EXCEPT ![r] = Over(posts[r], "ends")]
        \/ /\ ~Act!Last(r) /\ (ok \/ Act!Step(r) = "wake") /\ posts' = [posts EXCEPT ![r] = Further(posts[r])]
    <2>1. posts' = [posts EXCEPT ![r] = IF ~ok /\ Act!Step(r) # "wake" THEN Over(posts[r], "fails")
                                        ELSE IF Act!Last(r) THEN Over(posts[r], "ends") ELSE Further(posts[r])]
      BY DEF Act!TakeStep, Over, Further
    <2> QED
      BY <2>1
  <1>5. /\ posts' \in [Requests -> Posts] /\ \A q \in Requests : q # r => posts'[q] = posts[q]
        /\ posts'[r].op = posts[r].op /\ posts'[r].on = posts[r].on /\ posts'[r].known = posts[r].known
        /\ \/ posts'[r].pc \in {"fails", "ends"}
           \/ /\ posts'[r].pc = "steps" /\ posts'[r].step = posts[r].step + 1
              /\ ~Act!Last(r) /\ (ok \/ Act!Step(r) = "wake")
    <2>1. ASSUME NEW c \in {"ends", "fails"}, posts' = [posts EXCEPT ![r] = Over(posts[r], c)]
          PROVE  /\ posts' \in [Requests -> Posts] /\ \A q \in Requests : q # r => posts'[q] = posts[q]
                 /\ posts'[r].op = posts[r].op /\ posts'[r].on = posts[r].on
                 /\ posts'[r].known = posts[r].known /\ posts'[r].pc = c
      BY <1>1, <2>1, OverIs DEF TowerShape
    <2>2. ASSUME ~Act!Last(r), posts' = [posts EXCEPT ![r] = Further(posts[r])]
          PROVE  /\ posts' \in [Requests -> Posts] /\ \A q \in Requests : q # r => posts'[q] = posts[q]
                 /\ posts'[r].op = posts[r].op /\ posts'[r].on = posts[r].on
                 /\ posts'[r].known = posts[r].known /\ posts'[r].pc = "steps"
                 /\ posts'[r].step = posts[r].step + 1
      BY <1>1, <1>3, <2>2, FurtherIs DEF TowerShape
    <2> QED
      BY <1>4, <2>1, <2>2
  <1>6. /\ journal' \in [ver : 0..MaxWrites, settled : SUBSET Items, queued : SUBSET (Items \cup Tasks)]
        /\ acts' \in [Items -> 0..2] /\ picked' \in SUBSET Items
        /\ journal' = journal \/ journal'.ver = journal.ver + 1
        /\ journal.settled \subseteq journal'.settled /\ journal.queued \subseteq journal'.queued
    BY <1>1, <1>2, Writes DEF TowerShape
  <1>7. TowerShape'
    BY <1>1, <1>5, <1>6 DEF TowerShape
  <1>8. Locks'
    BY <1>1, <1>5 DEF Locks
  <1>9. \A q \in Requests : (Reading(q)' => Reading(q) /\ posts'[q] = posts[q]) /\ ~Acting(q)'
    <2>1. ASSUME NEW q \in Requests PROVE (Reading(q)' => Reading(q) /\ posts'[q] = posts[q]) /\ ~Acting(q)'
      <3>1. CASE q = r
        BY <1>5, <3>1 DEF Reading, Acting
      <3>2. CASE q # r
        <4>1. ~Acting(q)
          BY <1>1, <3>2, Alone DEF Acting, Reading
        <4> QED
          BY <1>5, <3>2, <4>1 DEF Reading, Acting
      <3> QED
        BY <3>1, <3>2
    <2> QED
      BY <2>1
  <1>10. Stamped' /\ Informed'
    BY <1>1, <1>6, <1>9, Grows DEF Informed
  <1>11. ASSUME NEW q \in Requests, q # r PROVE Aims(q)' /\ Judged(q)'
    <2>1. posts[q].pc # "steps"
      BY <1>1, <1>11, Alone DEF Locks
    <2> QED
      BY <1>5, <1>11, <2>1 DEF Aims, Judged
  <1>12. Aims(r)' /\ Judged(r)'
    <2>1. CASE posts'[r].pc \in {"fails", "ends"}
      BY <1>1, <1>5, <2>1 DEF Aims, Judged
    <2>2. CASE /\ posts'[r].pc = "steps" /\ posts'[r].step = posts[r].step + 1
               /\ ~Act!Last(r) /\ (ok \/ Act!Step(r) = "wake")
      <3>1. Act!Step(r) # "wake" /\ Act!Write(r)
        BY <1>1, <1>2, <2>2, StepIs
      <3>2. \/ posts[r].op = "pick" /\ posts[r].step = 1 /\ Act!Step(r) = "request"
            \/ posts[r].op = "pick" /\ posts[r].step = 2 /\ Act!Step(r) = "settle"
            \/ posts[r].op = "backlog" /\ posts[r].step = 1 /\ Act!Step(r) = "request"
        BY <1>1, <2>2, StepIs
      <3>3. posts[r].op = "pick" => posts[r].on \in journal'.queued
        <4>1. CASE Act!Step(r) = "request"
          BY <1>1, <3>1, <4>1, Writes
        <4>2. CASE posts[r].op = "pick" /\ posts[r].step = 2
          BY <1>1, <1>6, <4>2 DEF Judged
        <4> QED
          BY <3>2, <4>1, <4>2
      <3>4. posts[r].op = "pick" /\ posts[r].step = 1 => acts'[posts[r].on] = 0
        BY <1>1, <3>1, <3>2, Writes DEF Judged
      <3>5. Aims(r)'
        BY <1>1, <1>5, <2>2, <3>2, StepsAre DEF Aims
      <3>6. Judged(r)'
        BY <1>5, <2>2, <3>2, <3>3, <3>4 DEF Judged
      <3> QED
        BY <3>5, <3>6
    <2> QED
      BY <1>5, <2>1, <2>2
  <1>13. (\A i \in Items : acts[i] > 0 => i \in journal.settled)' /\ Act!ActOnce' /\ Act!PickedMeansQueued'
    <2>1. CASE UNCHANGED <<journal, acts, picked>>
      BY <2>1 DEF Act!ActOnce, Act!PickedMeansQueued
    <2>2. CASE Act!Write(r) /\ Act!Step(r) # "settle"
      BY <1>1, <1>6, <2>2, Writes DEF Act!ActOnce, Act!PickedMeansQueued
    <2>3. CASE Act!Write(r) /\ Act!Step(r) = "settle"
      <3>1. /\ posts[r].on \in Items /\ acts' = [acts EXCEPT ![posts[r].on] = 1]
            /\ picked' = IF posts[r].op = "pick" THEN picked \cup {posts[r].on} ELSE picked
            /\ posts[r].on \in journal'.settled
        BY <1>1, <2>3, Writes
      <3>2. posts[r].op = "pick" => posts[r].on \in journal.queued
        BY <1>1, <2>3, StepIs DEF Judged
      <3>3. \A i \in Items : acts'[i] = IF i = posts[r].on THEN 1 ELSE acts[i]
        BY <3>1 DEF TowerShape
      <3> QED
        BY <1>6, <3>1, <3>2, <3>3 DEF Act!ActOnce, Act!PickedMeansQueued
    <2> QED
      BY <1>2, <2>1, <2>2, <2>3
  <1> QED
    BY <1>7, <1>8, <1>10, <1>11, <1>12, <1>13

\* Every step of the tower scene keeps the invariant.
LEMMA StepTower ==
  ASSUME Act!TowerAssumption, TowerInv, Act!Next \/ UNCHANGED towerVars PROVE TowerInv'
  <1>1. CASE UNCHANGED towerVars
    <2> USE DEF TowerInv
    <2>1. UNCHANGED <<journal, overview, cache, mu, actMu, recent, posts, mine, acts, picked>>
      BY <1>1 DEF towerVars
    <2>2. TowerShape' /\ Locks' /\ Stamped' /\ Informed'
      BY <2>1, Grows DEF TowerShape, Locks, Informed, Acting, Reading, Shows
    <2>3. ASSUME NEW q \in Requests PROVE Aims(q)' /\ Judged(q)'
      BY <2>1 DEF Aims, Judged
    <2>4. (\A i \in Items : acts[i] > 0 => i \in journal.settled)' /\ Act!ActOnce' /\ Act!PickedMeansQueued'
      BY <2>1 DEF Act!ActOnce, Act!PickedMeansQueued
    <2> QED
      BY <2>2, <2>3, <2>4
  <1>2. ASSUME NEW r \in Requests,
               \/ Act!Begin(r, "look", None)
               \/ \E op \in {"fold", "pick", "dismiss"}, i \in Items : Act!Begin(r, op, i)
               \/ \E t \in Tasks : Act!Begin(r, "backlog", t)
        PROVE  TowerInv'
    <2>1. PICK op, on : Aim(op, on) /\ Act!Begin(r, op, on)
      BY <1>2 DEF Aim
    <2> QED
      BY <2>1, Begins
  <1>3. CASE \E r \in Requests : Act!Enter(r) \/ Act!End(r)
    BY <1>3, Enters, Ends
  <1>4. ASSUME NEW r \in Requests, NEW ok \in BOOLEAN, Act!ScriptEnds(r, ok) PROVE TowerInv'
    BY <1>4, Finishes
  <1>5. ASSUME NEW r \in Requests, NEW ok \in BOOLEAN, NEW wrote \in {ok, TRUE}, Act!TakeStep(r, ok, wrote)
        PROVE  TowerInv'
    BY <1>5, Steps
  <1>6. ASSUME NEW t \in Tasks, Act!JournalMoves({}, {t}) PROVE TowerInv'
    BY <1>6, JournalGrows
  <1>7. ASSUME NEW i \in Items, Act!JournalMoves({i}, {}) PROVE TowerInv'
    BY <1>7, JournalGrows
  <1> QED
    BY <1>1, <1>2, <1>3, <1>4, <1>5, <1>6, <1>7, OverviewGrows, Forgets DEF Act!Next

\* The shape of the invariant says what the module promises.
LEMMA TowerKept == ASSUME Act!TowerAssumption, TowerInv PROVE Act!ActionsTrue
  <1> USE DEF TowerInv
  <1>1. Act!TypeOK
    <2>1. /\ journal.ver \in 0..MaxWrites /\ journal.settled \subseteq Items
          /\ journal.queued \subseteq Items \cup Tasks
          /\ overview.ver \in 0..MaxWrites /\ overview.rows \subseteq Tasks /\ overview.open \subseteq Tasks
          /\ cache.view \in Act!Views
          /\ mu \in Requests \cup {None} /\ actMu \in Requests \cup {None} /\ recent \subseteq Tasks
          /\ acts \in [Items -> 0..2]
      BY DEF TowerShape
    <2>2. \A r \in Requests :
            /\ posts[r].pc \in {"idle", "stamped", "script", "steps", "ends", "fails"}
            /\ posts[r].op \in Act!Ops /\ posts[r].view \in Act!Views
      BY DEF TowerShape, Posts
    <2> QED
      BY <2>1, <2>2 DEF Act!TypeOK, Locks
  <1>2. Act!CacheIsCurrent
    <2>1. ASSUME cache.key = Act!Stamps PROVE cache.view = Act!View
      <3>1. cache.key # None /\ cache.key[1] = overview.ver /\ cache.key[2] = journal.ver
        <4>1. overview.ver \in Nat /\ journal.ver \in Nat /\ None \notin Nat \X Nat
          BY DEF Act!TowerAssumption, TowerShape
        <4>2. Act!Stamps = <<overview.ver, journal.ver>> /\ Act!Stamps \in Nat \X Nat
          BY <4>1 DEF Act!Stamps
        <4> QED
          BY <2>1, <4>1, <4>2
      <3>2. /\ cache.view.rows = overview.rows /\ cache.view.open = overview.open
            /\ cache.view.items = Items \ journal.settled
        BY <3>1 DEF Stamped, AsOf
      <3> QED
        BY <3>2 DEF Act!View, Act!Views, TowerShape
    <2> QED
      BY <2>1 DEF Act!CacheIsCurrent
  <1>3. Act!BacklogOnce
    BY DEF Act!BacklogOnce, Judged
  <1> QED
    BY <1>1, <1>2, <1>3 DEF Act!ActionsTrue

\* Actions on the tower: the model that is served is that of the files as they are, an item is settled
\* once, a picked suggestion has its request, and no task is queued twice, whatever fails or restarts.
THEOREM ActionsThm == AllSpec => []ActionsTrue
  <1>1. Act!TowerAssumption
    BY Assumptions DEF Assumptions
  <1>2. AllInit => TowerInv
    BY <1>1, InitTower DEF AllInit
  <1>3. TowerInv /\ [AllNext]_allVars => TowerInv'
    <2>1. ASSUME [AllNext]_allVars PROVE Act!Next \/ UNCHANGED towerVars
      BY <2>1 DEF AllNext, allVars
    <2> QED
      BY <1>1, <2>1, StepTower
  <1>4. TowerInv => ActionsTrue
    BY <1>1, TowerKept DEF ActionsTrue
  <1> QED
    BY <1>2, <1>3, <1>4, PTL DEF AllSpec

-----------------------------------------------------------------------------
(* Approvals. *)

Taps == [pc : {"idle", "looks", "checks", "presses", "confirms", "polls", "done"},
         phone : Phones \cup {"none"}, text : Ap!Panes, seen : Nat, landed : Nat, cleared : BOOLEAN]

\* The pane shows nothing without a dialog, and what it shows of one is on record.
PaneShape ==
    /\ tool \in {"claude", "codex"} /\ raised \in 0..NDialogs /\ dialog \in {0, raised}
    /\ pane \in Ap!Panes
    /\ IF dialog = 0 THEN pane = "none" ELSE <<dialog, pane>> \in showed
    /\ touches \in 0..MaxTouches /\ readFaults \in 0..MaxFaults
    /\ card \in [Phones -> Ap!Panes]
    /\ approvals \in [Requests -> Taps]
    /\ showed \in SUBSET (Ap!Dialogs \X Ap!Panes)
    /\ accepted \in SUBSET [dialog : Ap!Dialogs, shown : Excerpts, seen : Ap!Dialogs]

\* A request has the excerpt of its card, and before it presses a key it saw that of some dialog; no
\* key of it was taken before, and one at most after.  What is reported as cleared is off the pane or
\* was out of sight.
Tapped(r) ==
    LET t == approvals[r] IN
    /\ t.seen <= raised
    /\ t.pc # "idle" => t.phone \in Phones /\ t.text \in Excerpts
    /\ t.pc \in {"presses", "confirms", "polls", "done"} => t.seen > 0
    /\ t.pc \in {"presses", "confirms"} => <<t.seen, t.text>> \in showed
    /\ t.pc = "confirms" => tool = "claude"
    /\ t.landed <= 1 /\ (t.pc \notin {"polls", "done"} => t.landed = 0)
    /\ t.cleared => t.pc = "done" /\ (dialog # t.seen \/ <<dialog, "none">> \in showed)

ApproveInv == PaneShape /\ (\A r \in Requests : Tapped(r)) /\ Ap!ShownOrLate

\* An idle request.
LEMMA NoTapIs ==
  LET none == Ap!NoReq
  IN  none \in Taps /\ none.pc = "idle" /\ none.seen = 0 /\ none.landed = 0 /\ ~none.cleared
  BY DEF Ap!NoReq, Taps, Ap!Panes

\* Nothing was raised or tapped at the start.
LEMMA InitApprove == ASSUME Ap!ApproveAssumption, Ap!Init PROVE ApproveInv
  <1>1. approvals = [r \in Requests |-> Ap!NoReq] /\ raised = 0
    BY DEF Ap!Init
  <1>2. PaneShape
    BY <1>1, NoTapIs DEF Ap!Init, Ap!ApproveAssumption, PaneShape, Ap!Panes
  <1>3. ASSUME NEW r \in Requests PROVE Tapped(r)
    <2> DEFINE none == Ap!NoReq
    <2>1. approvals[r] = none /\ none.pc = "idle" /\ none.seen = 0 /\ none.landed = 0 /\ ~none.cleared
      BY <1>1, NoTapIs
    <2> HIDE DEF none
    <2> QED
      BY <1>1, <2>1 DEF Tapped
  <1> QED
    BY <1>2, <1>3 DEF Ap!Init, ApproveInv, Ap!ShownOrLate

\* A read or a press that fails is counted.
LEMMA Counted ==
  ASSUME Ap!ApproveAssumption, ApproveInv, NEW ok, Ap!Outcome(ok) PROVE readFaults' \in 0..MaxFaults
  BY DEF Ap!Outcome, ApproveInv, PaneShape, Ap!ApproveAssumption

\* The pane moves on: what it has shown stays on record, and no dialog comes back.
LEMMA PaneMoves ==
  ASSUME Ap!ApproveAssumption, ApproveInv,
         Ap!Raise \/ Ap!Touch \/ Ap!Redraw \/ \E p \in Phones : Ap!Show(p)
  PROVE  ApproveInv'
  <1> USE DEF ApproveInv
  <1>1. /\ raised' \in 0..NDialogs /\ raised <= raised' /\ dialog' \in {0, raised'}
        /\ touches' \in 0..MaxTouches /\ pane' \in Ap!Panes /\ card' \in [Phones -> Ap!Panes]
        /\ dialog' = dialog \/ dialog' = 0 \/ dialog' = raised + 1
        /\ UNCHANGED <<tool, readFaults, approvals, accepted>>
    BY DEF Ap!Raise, Ap!Touch, Ap!Redraw, Ap!Show, Ap!pageVars, PaneShape, Ap!ApproveAssumption, Ap!Dialogs, Ap!Panes
  <1>2. /\ showed \subseteq showed' /\ showed' \in SUBSET (Ap!Dialogs \X Ap!Panes)
        /\ IF dialog' = 0 THEN pane' = "none" ELSE <<dialog', pane'>> \in showed'
    <2>1. CASE Ap!Raise
      BY <2>1 DEF Ap!Raise, PaneShape, Ap!Panes, Ap!Dialogs, Ap!ApproveAssumption
    <2>2. CASE Ap!Touch
      BY <2>2 DEF Ap!Touch, PaneShape
    <2>3. CASE Ap!Redraw
      BY <2>3 DEF Ap!Redraw, PaneShape, Ap!Dialogs, Ap!ApproveAssumption
    <2>4. CASE \E p \in Phones : Ap!Show(p)
      BY <2>4 DEF Ap!Show, Ap!pageVars, PaneShape
    <2> QED
      BY <2>1, <2>2, <2>3, <2>4
  <1>3. PaneShape'
    BY <1>1, <1>2 DEF PaneShape
  <1>4. ASSUME NEW r \in Requests PROVE Tapped(r)'
    <2>1. PICK t \in Taps : t = approvals[r] /\ t = approvals'[r]
      BY <1>1 DEF PaneShape
    <2>2. t.seen \in Nat /\ raised \in Nat /\ raised' \in Nat /\ t.seen <= raised'
      <3>1. raised \in Nat /\ raised' \in Nat /\ raised <= raised'
        BY <1>1 DEF PaneShape, Ap!ApproveAssumption
      <3>2. t.seen \in Nat
        BY DEF Taps
      <3>3. t.seen <= raised
        BY <2>1 DEF Tapped
      <3> QED
        BY <3>1, <3>2, <3>3
    <2>3. t.cleared => dialog' # t.seen \/ <<dialog', "none">> \in showed'
      <3>1. t.cleared => t.seen > 0 /\ t.seen <= raised /\ (dialog # t.seen \/ <<dialog, "none">> \in showed)
        BY <2>1 DEF Tapped
      <3> QED
        BY <1>1, <1>2, <2>2, <3>1
    <2> QED
      BY <1>1, <1>2, <2>1, <2>2, <2>3 DEF Tapped
  <1> QED
    BY <1>1, <1>2, <1>3, <1>4 DEF Ap!ShownOrLate

\* A request that may take the place of another.
GoodTap(new) ==
    /\ new.seen <= raised
    /\ new.pc # "idle" => new.phone \in Phones /\ new.text \in Excerpts
    /\ new.pc \in {"presses", "confirms", "polls", "done"} => new.seen > 0
    /\ new.pc \in {"presses", "confirms"} => <<new.seen, new.text>> \in showed
    /\ new.pc = "confirms" => tool = "claude"
    /\ new.landed <= 1 /\ (new.pc \notin {"polls", "done"} => new.landed = 0)

\* A request moves on, or is over, and the pane stays or a key is taken.
LEMMA TapMoves ==
  ASSUME Ap!ApproveAssumption, ApproveInv, NEW r \in Requests, NEW new \in Taps,
         approvals' = [approvals EXCEPT ![r] = new],
         UNCHANGED <<tool, raised, touches, showed>>, readFaults' \in 0..MaxFaults,
         card' \in [Phones -> Ap!Panes],
         GoodTap(new),
         new.cleared => new.pc = "done" /\ (dialog' # new.seen \/ <<dialog', "none">> \in showed),
         \/ UNCHANGED <<dialog, pane, accepted>>
         \/ approvals[r].pc \in {"presses", "confirms"} /\ Ap!Accept(r)
  PROVE  ApproveInv'
  <1> USE DEF ApproveInv
  <1>1. /\ approvals' \in [Requests -> Taps] /\ approvals'[r] = new
        /\ \A q \in Requests \ {r} : approvals'[q] = approvals[q]
    BY DEF PaneShape
  <1>2. /\ dialog' \in {0, dialog} /\ pane' \in Ap!Panes
        /\ IF dialog' = 0 THEN pane' = "none" ELSE <<dialog', pane'>> \in showed
    BY DEF PaneShape, Ap!Accept, Ap!Panes
  <1>3. /\ accepted' \in SUBSET [dialog : Ap!Dialogs, shown : Excerpts, seen : Ap!Dialogs]
        /\ Ap!ShownOrLate'
    <2>1. CASE UNCHANGED <<dialog, pane, accepted>>
      BY <2>1 DEF PaneShape, Ap!ShownOrLate
    <2>2. CASE dialog = 0 /\ Ap!Accept(r)
      BY <2>2 DEF Ap!Accept, PaneShape, Ap!ShownOrLate
    <2>3. CASE dialog # 0 /\ approvals[r].pc \in {"presses", "confirms"} /\ Ap!Accept(r)
      <3>1. PICK t \in Taps : t = approvals[r]
        BY DEF PaneShape
      <3>2. /\ t.seen > 0 /\ t.seen <= raised /\ <<t.seen, t.text>> \in showed /\ t.text \in Excerpts
            /\ t.seen \in Nat /\ raised \in Nat /\ dialog = raised
        BY <2>3, <3>1 DEF Tapped, PaneShape, Taps
      <3>3. dialog \in Ap!Dialogs /\ t.seen \in Ap!Dialogs /\ (dialog = t.seen \/ dialog > t.seen)
        BY <2>3, <3>2 DEF PaneShape, Ap!Dialogs, Ap!ApproveAssumption
      <3>4. PICK a : a = [dialog |-> dialog, shown |-> t.text, seen |-> t.seen]
        OBVIOUS
      <3>5. accepted' = accepted \cup {a}
        BY <2>3, <3>1, <3>4 DEF Ap!Accept
      <3>6. /\ a \in [dialog : Ap!Dialogs, shown : Excerpts, seen : Ap!Dialogs]
            /\ a.dialog = dialog /\ a.shown = t.text /\ a.seen = t.seen
        BY <3>2, <3>3, <3>4
      <3>7. <<a.dialog, a.shown>> \in showed \/ a.dialog > a.seen
        BY <3>2, <3>3, <3>6
      <3> QED
        BY <3>5, <3>6, <3>7 DEF PaneShape, Ap!ShownOrLate
    <2> QED
      BY <2>1, <2>2, <2>3
  <1>4. PaneShape'
    BY <1>1, <1>2, <1>3 DEF PaneShape
  <1>5. ASSUME NEW q \in Requests PROVE Tapped(q)'
    <2>1. CASE q = r
      <3>1. approvals'[q] = new
        BY <1>1, <2>1
      <3> QED
        BY <3>1 DEF Tapped, GoodTap
    <2>2. CASE q # r
      <3>1. PICK t \in Taps : t = approvals[q] /\ t = approvals'[q]
        BY <1>1, <2>2 DEF PaneShape
      <3>2. t.cleared => t.seen > 0 /\ (dialog # t.seen \/ <<dialog, "none">> \in showed)
        BY <3>1 DEF Tapped
      <3>3. t.cleared => dialog' # t.seen \/ <<dialog', "none">> \in showed
        BY <1>2, <3>2
      <3>4. raised' = raised /\ showed' = showed /\ tool' = tool
        OBVIOUS
      <3> QED
        BY ONLY <3>1, <3>3, <3>4, Tapped(q) DEF Tapped
    <2> QED
      BY <2>1, <2>2
  <1> QED
    BY <1>3, <1>4, <1>5

\* A request that moves on with the same card.
Like(new, t, stage) == new \in Taps /\ new.pc = stage /\ new.phone = t.phone /\ new.text = t.text

\* Every step of a request, by the request it leaves.
LEMMA StepTap ==
  ASSUME Ap!ApproveAssumption, ApproveInv, NEW r \in Requests,
         \/ (\E p \in Phones : Ap!Tap(p, r)) \/ Ap!Answered(r)
         \/ \E ok \in BOOLEAN :
              \/ Ap!Look(r, ok) \/ Ap!PressOne(r, ok) \/ Ap!Poll(r, ok)
              \/ \E lost \in BOOLEAN : Ap!PressEnter(r, ok, lost) \/ Ap!ApproveOption(r, ok, lost)
  PROVE  ApproveInv'
  <1> USE DEF ApproveInv
  <1>1. PICK t \in Taps : t = approvals[r]
    BY DEF PaneShape
  <1>2. /\ t.seen \in Nat /\ t.landed \in Nat /\ t.seen <= raised
        /\ t.pc # "idle" => t.phone \in Phones /\ t.text \in Excerpts
        /\ t.pc \in {"presses", "confirms", "polls", "done"} => t.seen > 0
        /\ t.pc \in {"presses", "confirms"} => <<t.seen, t.text>> \in showed
        /\ t.landed <= 1 /\ (t.pc \notin {"polls", "done"} => t.landed = 0)
        /\ t.pc # "done" => t.cleared = FALSE
    BY <1>1 DEF Taps, Tapped
  <1>3. /\ raised \in Nat /\ dialog \in Nat /\ dialog <= raised /\ card \in [Phones -> Ap!Panes]
        /\ readFaults \in 0..MaxFaults
    BY DEF PaneShape, Ap!ApproveAssumption
  <1>4. ASSUME UNCHANGED <<tool, raised, touches, showed>>, readFaults' \in 0..MaxFaults,
               card' \in [Phones -> Ap!Panes], approvals' = [approvals EXCEPT ![r] = Ap!NoReq],
               \/ UNCHANGED <<dialog, pane, accepted>>
               \/ t.pc \in {"presses", "confirms"} /\ Ap!Accept(r)
        PROVE  ApproveInv'
    <2>1. PICK new : new = Ap!NoReq
      OBVIOUS
    <2>2. new \in Taps /\ new.pc = "idle" /\ new.seen = 0 /\ new.landed = 0 /\ ~new.cleared
      BY <2>1, NoTapIs
    <2>3. GoodTap(new)
      BY <1>3, <2>2 DEF GoodTap
    <2>4. \/ UNCHANGED <<dialog, pane, accepted>>
          \/ approvals[r].pc \in {"presses", "confirms"} /\ Ap!Accept(r)
      <3>1. CASE UNCHANGED <<dialog, pane, accepted>>
        BY <3>1
      <3>2. CASE t.pc \in {"presses", "confirms"} /\ Ap!Accept(r)
        BY ONLY <1>1, <3>2
      <3> QED
        BY ONLY <1>4, <3>1, <3>2
    <2>5. approvals' = [approvals EXCEPT ![r] = new]
      BY <1>4, <2>1
    <2> QED
      BY <1>4, <2>2, <2>3, <2>4, <2>5, TapMoves
  <1>5. ASSUME NEW p \in Phones, Ap!Tap(p, r) PROVE ApproveInv'
    <2>1. PICK new : new = [Ap!NoReq EXCEPT !.pc = "looks", !.phone = p, !.text = card[p]]
      OBVIOUS
    <2>2. /\ approvals' = [approvals EXCEPT ![r] = new] /\ card[p] # "none"
          /\ UNCHANGED <<tool, dialog, raised, pane, touches, readFaults, card, showed, accepted>>
      BY <1>5, <2>1 DEF Ap!Tap, Ap!pageVars
    <2>3. card[p] \in Excerpts
      BY <1>3, <2>2 DEF Ap!Panes
    <2>4. new \in Taps /\ new.pc = "looks" /\ new.phone = p /\ new.text = card[p] /\ new.seen = 0
          /\ new.landed = 0 /\ ~new.cleared
      BY <2>1, <2>3 DEF Ap!NoReq, Taps, Ap!Panes
    <2>5. GoodTap(new)
      BY <1>3, <2>3, <2>4 DEF GoodTap
    <2> QED
      BY <1>3, <2>2, <2>4, <2>5, TapMoves
  <1>6. CASE Ap!Answered(r)
    <2>1. card' \in [Phones -> Ap!Panes]
      BY <1>3, <1>6 DEF Ap!Answered, Ap!Panes
    <2> QED
      BY <1>3, <1>4, <1>6, <2>1 DEF Ap!Answered, Ap!pageVars
  <1>7. ASSUME NEW ok \in BOOLEAN, Ap!Look(r, ok) PROVE ApproveInv'
    <2>1. /\ readFaults' \in 0..MaxFaults /\ t.pc \in {"looks", "checks"}
          /\ UNCHANGED <<tool, dialog, raised, pane, touches, card, showed, accepted>>
      BY <1>1, <1>7, Counted DEF Ap!Look
    <2>2. \/ approvals' = [approvals EXCEPT ![r] = Ap!NoReq]
          \/ /\ pane = t.text
             /\ \E c \in {"checks", "presses"} :
                    approvals' = [approvals EXCEPT ![r] = [t EXCEPT !.seen = dialog, !.pc = c]]
      BY <1>1, <1>7 DEF Ap!Look, Ap!StillThere
    <2>3. ASSUME pane = t.text, NEW c \in {"checks", "presses"},
                 approvals' = [approvals EXCEPT ![r] = [t EXCEPT !.seen = dialog, !.pc = c]]
          PROVE  ApproveInv'
      <3>1. PICK new : new = [t EXCEPT !.seen = dialog, !.pc = c]
        OBVIOUS
      <3>2. Like(new, t, c) /\ new.seen = dialog /\ new.landed = t.landed /\ new.cleared = t.cleared
        BY <1>3, <3>1 DEF Taps, Like
      <3>3. t.text \in Excerpts /\ t.phone \in Phones /\ t.landed = 0 /\ ~t.cleared
        BY <1>2, <2>1
      <3>4. dialog # 0 /\ <<dialog, t.text>> \in showed
        BY <2>3, <3>3 DEF PaneShape, Ap!ApproveAssumption
      <3>5. approvals' = [approvals EXCEPT ![r] = new]
        BY <2>3, <3>1
      <3>6. new \in Taps /\ GoodTap(new) /\ ~new.cleared
        BY <1>3, <3>2, <3>3, <3>4 DEF Like, GoodTap
      <3> QED
        BY <1>3, <2>1, <3>5, <3>6, TapMoves
    <2> QED
      BY <1>3, <1>4, <2>1, <2>2, <2>3
  <1>8. ASSUME NEW ok \in BOOLEAN, Ap!PressOne(r, ok) PROVE ApproveInv'
    <2>1. /\ readFaults' \in 0..MaxFaults /\ t.pc = "presses" /\ tool = "claude"
          /\ UNCHANGED <<tool, dialog, raised, pane, touches, card, showed, accepted>>
      BY <1>1, <1>8, Counted DEF Ap!PressOne
    <2>2. PICK new : new = [t EXCEPT !.pc = "confirms"]
      OBVIOUS
    <2>3. approvals' \in {[approvals EXCEPT ![r] = Ap!NoReq], [approvals EXCEPT ![r] = new]}
      BY <1>1, <1>8, <2>2 DEF Ap!PressOne, Ap!Moves
    <2>4. Like(new, t, "confirms") /\ new.seen = t.seen /\ new.landed = t.landed /\ new.cleared = t.cleared
      BY <2>2 DEF Taps, Like
    <2>5. ASSUME approvals' = [approvals EXCEPT ![r] = new] PROVE ApproveInv'
      <3>1. new \in Taps /\ GoodTap(new) /\ ~new.cleared
        BY <1>2, <2>1, <2>4 DEF Like, GoodTap
      <3> QED
        BY <1>3, <2>1, <2>5, <3>1, TapMoves
    <2> QED
      BY <1>3, <1>4, <2>1, <2>3, <2>5
  <1>9. ASSUME NEW ok \in BOOLEAN, NEW lost \in BOOLEAN, Ap!PressEnter(r, ok, lost) PROVE ApproveInv'
    <2>1. /\ readFaults' \in 0..MaxFaults /\ t.pc = "confirms" /\ UNCHANGED <<tool, raised, touches, card, showed>>
          /\ Ap!Accept(r) \/ UNCHANGED <<dialog, pane, accepted>>
      BY <1>1, <1>9, Counted DEF Ap!PressEnter
    <2>2. PICK n \in {0, 1} :
              \/ approvals' = [approvals EXCEPT ![r] = Ap!NoReq]
              \/ approvals' = [approvals EXCEPT ![r] = [[t EXCEPT !.landed = n] EXCEPT !.pc = "polls"]]
      <3>1. t.landed = 0 /\ t = [t EXCEPT !.landed = 0]
        BY <1>2, <2>1 DEF Taps
      <3>2. Ap!Pressed(r) = [t EXCEPT !.landed = IF dialog = 0 THEN 0 ELSE 1]
        BY <1>1, <3>1 DEF Ap!Pressed
      <3>3. CASE ~ok
        BY <1>9, <3>3 DEF Ap!PressEnter
      <3>4. CASE ok /\ lost
        BY <1>1, <1>9, <3>1, <3>4 DEF Ap!PressEnter
      <3>5. CASE ok /\ ~lost
        BY <1>9, <3>2, <3>5 DEF Ap!PressEnter
      <3> QED
        BY <3>3, <3>4, <3>5
    <2> PICK one : one = [t EXCEPT !.landed = n]
      OBVIOUS
    <2>3. PICK new : new = [one EXCEPT !.pc = "polls"]
      OBVIOUS
    <2>6. one \in Taps /\ one.phone = t.phone /\ one.text = t.text /\ one.seen = t.seen /\ one.landed = n
          /\ one.cleared = t.cleared
      BY DEF Taps
    <2>4. Like(new, t, "polls") /\ new.seen = t.seen /\ new.landed = n /\ new.cleared = t.cleared
      BY <2>3, <2>6 DEF Taps, Like
    <2>5. ASSUME approvals' = [approvals EXCEPT ![r] = new] PROVE ApproveInv'
      <3>1. new \in Taps /\ GoodTap(new) /\ ~new.cleared
        BY <1>2, <2>1, <2>4 DEF Like, GoodTap
      <3>2. \/ UNCHANGED <<dialog, pane, accepted>>
            \/ approvals[r].pc \in {"presses", "confirms"} /\ Ap!Accept(r)
        <4>1. approvals[r].pc = "confirms"
          BY ONLY <1>1, <2>1
        <4>2. approvals[r].pc \in {"presses", "confirms"}
          BY ONLY <4>1
        <4> QED
          BY ONLY <2>1, <4>2
      <3> QED
        BY <1>3, <2>1, <2>5, <3>1, <3>2, TapMoves
    <2> QED
      BY <1>3, <1>4, <2>1, <2>2, <2>3, <2>5
  <1>10. ASSUME NEW ok \in BOOLEAN, NEW lost \in BOOLEAN, Ap!ApproveOption(r, ok, lost) PROVE ApproveInv'
    <2>1. readFaults' \in 0..MaxFaults /\ t.pc = "presses" /\ UNCHANGED <<tool, raised, touches, card, showed>>
      BY <1>1, <1>10, Counted DEF Ap!ApproveOption
    <2>2. CASE lost \/ dialog = 0
      <3>1. UNCHANGED <<dialog, pane, accepted>>
        BY <1>10, <2>2 DEF Ap!ApproveOption
      <3>2. PICK new : new = [t EXCEPT !.pc = "done"]
        OBVIOUS
      <3>3. approvals' \in {[approvals EXCEPT ![r] = Ap!NoReq], [approvals EXCEPT ![r] = new]}
        BY <1>1, <1>10, <2>2, <3>2 DEF Ap!ApproveOption, Ap!Moves
      <3>4. Like(new, t, "done") /\ new.seen = t.seen /\ new.landed = t.landed /\ new.cleared = t.cleared
        BY <3>2 DEF Taps, Like
      <3>5. ASSUME approvals' = [approvals EXCEPT ![r] = new] PROVE ApproveInv'
        <4>1. new \in Taps /\ GoodTap(new) /\ ~new.cleared
          BY <1>2, <2>1, <3>4 DEF Like, GoodTap
        <4> QED
          BY <1>3, <2>1, <3>1, <3>5, <4>1, TapMoves
      <3> QED
        BY <1>3, <1>4, <2>1, <3>1, <3>3, <3>5
    <2>3. CASE ~lost /\ dialog # 0
      <3>1. Ap!Accept(r) /\ dialog' = 0
        BY <1>10, <2>3 DEF Ap!ApproveOption, Ap!Accept
      <3>2. Ap!Pressed(r) = [t EXCEPT !.landed = 1]
        BY <1>1, <1>2, <2>1, <2>3 DEF Ap!Pressed
      <3> PICK one : one = [t EXCEPT !.landed = 1]
        OBVIOUS
      <3>3. PICK new : new = [one EXCEPT !.pc = "done", !.cleared = TRUE]
        OBVIOUS
      <3>4. approvals' \in {[approvals EXCEPT ![r] = Ap!NoReq], [approvals EXCEPT ![r] = new]}
        BY <1>10, <2>3, <3>2, <3>3 DEF Ap!ApproveOption
      <3>7. one \in Taps /\ one.phone = t.phone /\ one.text = t.text /\ one.seen = t.seen /\ one.landed = 1
        BY DEF Taps
      <3>5. Like(new, t, "done") /\ new.seen = t.seen /\ new.landed = 1
        BY <3>3, <3>7 DEF Taps, Like
      <3>6. ASSUME approvals' = [approvals EXCEPT ![r] = new] PROVE ApproveInv'
        <4>1. new \in Taps /\ GoodTap(new) /\ dialog' # new.seen
          BY <1>2, <2>1, <3>1, <3>5 DEF Like, GoodTap
        <4>2. new.pc = "done" /\ approvals[r].pc \in {"presses", "confirms"} /\ Ap!Accept(r)
          BY <1>1, <2>1, <3>1, <3>5 DEF Like
        <4> QED
          BY <1>3, <2>1, <3>6, <4>1, <4>2, TapMoves
      <3> QED
        BY <1>3, <1>4, <2>1, <3>1, <3>4, <3>6
    <2> QED
      BY <2>2, <2>3
  <1>11. ASSUME NEW ok \in BOOLEAN, Ap!Poll(r, ok) PROVE ApproveInv'
    <2>1. /\ readFaults' \in 0..MaxFaults /\ t.pc = "polls"
          /\ UNCHANGED <<tool, dialog, raised, pane, touches, card, showed, accepted>>
      BY <1>1, <1>11, Counted DEF Ap!Poll
    <2>2. PICK gone \in BOOLEAN : gone = Ap!SeenGone(ok)
      BY DEF Ap!SeenGone
    <2>3. PICK new : new = [t EXCEPT !.pc = "done", !.cleared = gone]
      OBVIOUS
    <2>4. approvals' = [approvals EXCEPT ![r] = new]
      BY <1>1, <1>11, <2>2, <2>3 DEF Ap!Poll, PaneShape
    <2>5. Like(new, t, "done") /\ new.seen = t.seen /\ new.landed = t.landed /\ new.cleared = gone
      BY <2>3 DEF Taps, Like
    <2>6. gone => dialog # t.seen \/ <<dialog, "none">> \in showed
      <3>1. IF dialog = 0 THEN pane = "none" ELSE <<dialog, pane>> \in showed
        BY DEF PaneShape
      <3>2. gone => pane = "none"
        BY ONLY <2>2 DEF Ap!SeenGone
      <3>3. t.seen > 0 /\ t.seen \in Nat
        BY ONLY <1>2, <2>1
      <3> QED
        BY ONLY <3>1, <3>2, <3>3
    <2>7. new \in Taps /\ GoodTap(new) /\ new.pc = "done" /\ new.seen = t.seen /\ new.cleared = gone
      BY <1>2, <2>1, <2>5 DEF Like, GoodTap
    <2> QED
      BY <1>3, <2>1, <2>4, <2>6, <2>7, TapMoves
  <1> QED
    BY <1>5, <1>6, <1>7, <1>8, <1>9, <1>10, <1>11

\* Every step of the approve scene keeps the invariant.
LEMMA StepApprove ==
  ASSUME Ap!ApproveAssumption, ApproveInv, Ap!Next \/ UNCHANGED approveVars PROVE ApproveInv'
  <1>1. CASE UNCHANGED approveVars
    <2>1. UNCHANGED <<tool, dialog, raised, pane, touches, readFaults, card, approvals, showed, accepted>>
      BY <1>1 DEF approveVars
    <2>2. PaneShape' /\ Ap!ShownOrLate'
      BY <2>1 DEF ApproveInv, PaneShape, Ap!ShownOrLate
    <2>3. \A r \in Requests : Tapped(r)'
      BY <2>1 DEF ApproveInv, Tapped
    <2> QED
      BY <2>2, <2>3 DEF ApproveInv
  <1>2. CASE Ap!Next
    <2>1. \/ Ap!Raise \/ Ap!Touch \/ Ap!Redraw \/ \E p \in Phones : Ap!Show(p)
          \/ \E r \in Requests :
              \/ (\E p \in Phones : Ap!Tap(p, r)) \/ Ap!Answered(r)
              \/ \E ok \in BOOLEAN :
                  \/ Ap!Look(r, ok) \/ Ap!PressOne(r, ok) \/ Ap!Poll(r, ok)
                  \/ \E lost \in BOOLEAN : Ap!PressEnter(r, ok, lost) \/ Ap!ApproveOption(r, ok, lost)
      BY <1>2 DEF Ap!Next
    <2> QED
      BY <2>1, PaneMoves, StepTap
  <1> QED
    BY <1>1, <1>2

\* The invariant says what Approve promises.
LEMMA ApproveKept == ASSUME Ap!ApproveAssumption, ApproveInv PROVE Ap!ApprovalsTrue
  <1> USE DEF ApproveInv
  <1>1. /\ tool \in {"claude", "codex"} /\ dialog \in Ap!Some /\ raised \in Ap!Some /\ dialog \in {0, raised}
        /\ pane \in Ap!Panes /\ (dialog = 0 => pane = "none")
        /\ touches \in 0..MaxTouches /\ readFaults \in 0..MaxFaults
        /\ card \in [Phones -> Ap!Panes] /\ showed \subseteq Ap!Dialogs \X Ap!Panes
        /\ accepted \subseteq [dialog : Ap!Dialogs, shown : Excerpts, seen : Ap!Dialogs]
    BY DEF PaneShape, Ap!Some, Ap!ApproveAssumption
  <1>2. ASSUME NEW r \in Requests
        PROVE  /\ approvals[r].pc \in {"idle", "looks", "checks", "presses", "confirms", "polls", "done"}
               /\ approvals[r].seen \in 0..raised /\ approvals[r].landed \in Ap!Some
               /\ approvals[r].cleared \in BOOLEAN
               /\ approvals[r].phone \in Phones \cup {"none"} /\ approvals[r].text \in Ap!Panes
               /\ (approvals[r].pc = "confirms" => tool = "claude")
    <2>1. PICK t \in Taps : t = approvals[r]
      BY DEF PaneShape
    <2>2. t.seen <= raised /\ t.landed <= 1 /\ (t.landed # 0 => t.seen > 0) /\ (t.pc = "confirms" => tool = "claude")
      BY <2>1 DEF Tapped, Taps
    <2>3. raised \in Nat /\ raised <= NDialogs /\ NDialogs \in Nat
      BY DEF PaneShape, Ap!ApproveAssumption
    <2>4. t.landed \in 0..NDialogs /\ t.seen \in 0..raised
      BY <2>2, <2>3 DEF Taps
    <2> QED
      BY <2>1, <2>2, <2>4 DEF Taps, Ap!Some
  <1>3. Ap!TypeOK
    BY <1>1, <1>2 DEF Ap!TypeOK
  <1>4. Ap!ClearedIsTrue /\ Ap!OneTapOneDialog
    BY DEF Ap!ClearedIsTrue, Ap!OneTapOneDialog, Tapped
  <1> QED
    BY <1>3, <1>4 DEF Ap!ApprovalsTrue

\* Approvals: one tap accepts one dialog at most, which has shown what the card showed or came up after
\* the last read, and "cleared" is said only of a dialog that is off the pane or was out of sight,
\* whoever answers in between and whatever fails.
THEOREM ApprovalsThm == AllSpec => []ApprovalsTrue
  <1>1. Ap!ApproveAssumption
    BY Assumptions DEF Assumptions
  <1>2. AllInit => ApproveInv
    BY <1>1, InitApprove DEF AllInit
  <1>3. ApproveInv /\ [AllNext]_allVars => ApproveInv'
    <2>1. ASSUME [AllNext]_allVars PROVE Ap!Next \/ UNCHANGED approveVars
      BY <2>1 DEF AllNext, allVars
    <2> QED
      BY <1>1, <2>1, StepApprove
  <1>4. ApproveInv => ApprovalsTrue
    BY <1>1, ApproveKept DEF ApprovalsTrue
  <1> QED
    BY <1>2, <1>3, <1>4, PTL DEF AllSpec

-----------------------------------------------------------------------------
(* Pushes. *)

Sends == [pc : {"idle", "record", "look", "take", "post", "prune"}, id : Nat,
          todo : SUBSET Endpoints, dead : SUBSET Endpoints]

PushShape ==
    /\ prefs \in Pu!Prefs /\ prefsFile \in Pu!Prefs
    /\ minute \in 0..DayMinutes - 1 /\ focus \in BOOLEAN /\ last \in Nat
    /\ subs \subseteq Endpoints /\ subsFile \subseteq Endpoints /\ enrolled \subseteq Endpoints
    /\ made \in Nat \ {0} /\ vapid \in 1..made /\ vapidFile \in 0..made /\ device \in [Endpoints -> -1..made]
    /\ call \in [Sweepers -> Sends]

Ids(list) == Pu!Range(list)

\* What may be the inbox: no entry twice, and no more of them than are kept.
Filed(list) ==
    list \in Seq(Nat) /\ Pu!IsInjective(list) /\ Len(list) <= NotifKeep /\ Ids(list) \subseteq 1..last

\* The list is the newest of all, or all of them.
IsNewest(list, all) ==
    /\ Len(list) <= Len(all) /\ (Len(list) = Len(all) \/ Len(list) = NotifKeep)
    /\ \A i \in 1..Len(list) : list[i] = all[Len(all) - Len(list) + i]

Entries ==
    /\ Filed(inbox) /\ Filed(inboxFile)
    /\ arrivals \in Seq(Nat) /\ Ids(arrivals) \subseteq 1..last /\ delivered \subseteq Ids(arrivals)
    /\ "inbox" \notin lossy => inboxFile = inbox /\ IsNewest(inbox, arrivals)

\* The id of an entry to be recorded is in no list, and one that goes out was recorded.
NotYetRecorded(c) ==
    /\ call[c].id > 0 /\ call[c].id \notin Ids(inbox) \cup Ids(inboxFile) \cup Ids(arrivals)
    /\ \A d \in Sweepers \ {c} : call[d].pc = "record" => call[d].id # call[c].id

InFlight(c) ==
    /\ call[c].id <= last
    /\ call[c].pc = "idle" => call[c].id = 0
    /\ call[c].pc = "record" => NotYetRecorded(c)
    /\ call[c].pc # "record" /\ call[c].id > 0 => call[c].id \in Ids(arrivals)
    /\ \A e \in call[c].dead : device[e] = -1

\* Memory and file agree while no write or read was lost, and hold who subscribed and was not given up.
Subscribed ==
    /\ "subs" \notin lossy => subsFile = subs /\ \A e \in enrolled : device[e] > 0 => e \in subs
    /\ "vapid" \notin lossy => vapidFile = vapid /\ \A e \in Endpoints : device[e] > 0 => device[e] = vapid

PushInv == PushShape /\ Entries /\ (\A c \in Sweepers : InFlight(c)) /\ Subscribed

\* A caller with nothing to do.
LEMMA IdleCallIs ==
  LET none == Pu!IdleCall
  IN  none \in Sends /\ none.pc = "idle" /\ none.id = 0 /\ none.todo = {} /\ none.dead = {}
  BY DEF Pu!IdleCall, Sends

\* The entries of a part of a list.
LEMMA PartIs ==
  ASSUME NEW list \in Seq(Nat), NEW from \in Nat \ {0}, NEW to \in Nat, to <= Len(list),
         NEW i \in 1..(to - from) + 1
  PROVE  SubSeq(list, from, to)[i] = list[(from + i) - 1]
  OBVIOUS

\* A new entry is put at the end, and the oldest one leaves when there are enough.
LEMMA RecordIs ==
  ASSUME Pu!PushAssumption, NEW list \in Seq(Nat), Len(list) <= NotifKeep, Pu!IsInjective(list),
         NEW all \in Seq(Nat), NEW id \in Nat, id \notin Ids(list)
  PROVE  LET new == Pu!Newest(Append(list, id))
             more == Append(all, id)
         IN  /\ new \in Seq(Nat) /\ Len(new) <= NotifKeep /\ Pu!IsInjective(new)
             /\ Ids(new) \subseteq Ids(list) \cup {id}
             /\ more \in Seq(Nat) /\ Ids(more) = Ids(all) \cup {id}
             /\ IsNewest(list, all) => IsNewest(new, more)
  <1> DEFINE long == Append(list, id)
             new == Pu!Newest(long)
             more == Append(all, id)
             n == Len(list)
             a == Len(all)
             k == NotifKeep
             d == IF n + 1 > k THEN n + 1 - k ELSE 0
  <1>1. n \in Nat /\ a \in Nat /\ k \in Nat \ {0} /\ n <= k /\ d \in {0, 1} /\ (d = 1 <=> n = k) /\ d <= n + 1
    BY DEF Pu!PushAssumption
  <1>2. /\ long \in Seq(Nat) /\ Len(long) = n + 1 /\ long[n + 1] = id /\ (\A i \in 1..n : long[i] = list[i])
        /\ more \in Seq(Nat) /\ Len(more) = a + 1 /\ more[a + 1] = id /\ (\A i \in 1..a : more[i] = all[i])
        /\ DOMAIN list = 1..n /\ DOMAIN all = 1..a /\ DOMAIN more = 1..a + 1
    OBVIOUS
  <1>3. Pu!Max({1, Len(long) - k + 1}) = d + 1
    <2> DEFINE x == Len(long) - k + 1
    <2>1. x \in Int /\ x <= d + 1 /\ (d + 1 = 1 \/ d + 1 = x) /\ d + 1 \in Int /\ d + 1 >= 1
      <3>1. Len(long) = n + 1
        BY <1>2
      <3> HIDE DEF long, n
      <3>2. x = n + 1 - k + 1
        BY <1>1, <3>1
      <3> QED
        BY <1>1, <3>2
    <2> HIDE DEF x
    <2>2. d + 1 \in {1, x} /\ \A y \in {1, x} : d + 1 >= y
      BY <2>1
    <2>3. \A z \in {1, x} : (\A y \in {1, x} : z >= y) => z = d + 1
      BY <2>1
    <2>4. Pu!Max({1, x}) = d + 1
      BY <2>2, <2>3 DEF Pu!Max
    <2> QED
      BY <2>4 DEF x
  <1>4. new = SubSeq(long, d + 1, n + 1)
    <2>1. new = SubSeq(long, Pu!Max({1, Len(long) - k + 1}), Len(long))
      BY DEF Pu!Newest
    <2> HIDE DEF long, new, d
    <2> QED
      BY <1>2, <1>3, <2>1
  <1>5. new \in Seq(Nat) /\ Len(new) = n + 1 - d /\ DOMAIN new = 1..n + 1 - d
        /\ \A i \in 1..n + 1 - d : new[i] = long[d + i]
    <2> HIDE DEF long, new, d, n
    <2>1. \A i \in d + 1..n + 1 : i \in 1..n + 1
      BY <1>1
    <2>2. d + 1 \in Nat /\ n + 1 \in Nat /\ d + 1 >= 1 /\ n + 1 - (d + 1) + 1 = n + 1 - d /\ n + 1 - d \in Nat
      BY <1>1
    <2>3. long \in Seq(Nat) /\ Len(long) = n + 1
      BY <1>2
    <2>4. new \in Seq(Nat) /\ Len(new) = n + 1 - d
      <3>1. \A i \in d + 1..n + 1 : long[i] \in Nat
        BY <2>1, <2>3
      <3>2. new \in Seq(Nat)
        BY <1>4, <2>2, <3>1
      <3>3. Len(new) = n + 1 - d
        BY <1>1, <1>4, <2>2
      <3> QED
        BY <3>2, <3>3
    <2>5. ASSUME NEW i \in 1..n + 1 - d PROVE new[i] = long[d + i]
      <3>1. ((d + 1) + i) - 1 = d + i /\ i \in 1..((n + 1) - (d + 1)) + 1
        BY <1>1
      <3> DEFINE from == d + 1
                 to == n + 1
      <3>2. from \in Nat \ {0} /\ to \in Nat /\ to <= Len(long)
        BY <2>2, <2>3
      <3>3. i \in 1..(to - from) + 1
        BY <3>1
      <3> HIDE DEF from, to
      <3>4. SubSeq(long, from, to)[i] = long[(from + i) - 1]
        BY <2>3, <3>2, <3>3, PartIs
      <3>5. SubSeq(long, d + 1, n + 1)[i] = long[((d + 1) + i) - 1]
        BY <3>4 DEF from, to
      <3> QED
        BY <1>4, <3>1, <3>5
    <2> QED
      BY <2>4, <2>5
  <1> HIDE DEF long, new, more, n, a, d
  <1>6. \A i \in 1..n + 1 - d : new[i] = (IF d + i = n + 1 THEN id ELSE list[d + i])
                                /\ d + i \in 1..n + 1 /\ (d + i # n + 1 => d + i \in 1..n)
    BY <1>1, <1>2, <1>5
  <1>7. Len(new) <= NotifKeep /\ Pu!IsInjective(new) /\ Ids(new) \subseteq Ids(list) \cup {id}
    <2>1. Len(new) <= NotifKeep
      BY <1>1, <1>5
    <2>2. Ids(new) \subseteq Ids(list) \cup {id}
      BY <1>2, <1>5, <1>6 DEF Ids, Pu!Range
    <2>3. ASSUME NEW i \in 1..n + 1 - d, NEW j \in 1..n + 1 - d, new[i] = new[j] PROVE i = j
      <3>1. \A x \in 1..n : list[x] # id
        BY <1>2 DEF Ids, Pu!Range
      <3>2. \A x, y \in 1..n : list[x] = list[y] => x = y
        BY <1>2 DEF Pu!IsInjective
      <3> DEFINE x == d + i
                 y == d + j
      <3>3. /\ new[i] = (IF x = n + 1 THEN id ELSE list[x]) /\ (x # n + 1 => x \in 1..n)
            /\ new[j] = (IF y = n + 1 THEN id ELSE list[y]) /\ (y # n + 1 => y \in 1..n)
        BY <1>6
      <3> HIDE DEF x, y
      <3>4. x = y
        BY <2>3, <3>1, <3>2, <3>3
      <3>5. d + i = d + j
        BY <3>4 DEF x, y
      <3>6. i \in Int /\ j \in Int /\ d \in Int
        BY <1>1
      <3> QED
        BY <3>5, <3>6
    <2> QED
      BY <1>5, <2>1, <2>2, <2>3 DEF Pu!IsInjective
  <1>8. Ids(more) = Ids(all) \cup {id}
    <2>1. \A i \in 1..a + 1 : i \in 1..a \/ i = a + 1
      BY <1>1
    <2>2. (\A i \in 1..a : i \in 1..a + 1) /\ a + 1 \in 1..a + 1
      BY <1>1
    <2> QED
      BY <1>2, <2>1, <2>2 DEF Ids, Pu!Range
  <1>9. ASSUME IsNewest(list, all) PROVE IsNewest(new, more)
    <2>1. n <= a /\ (n = a \/ n = k) /\ \A i \in 1..n : list[i] = all[a - n + i]
      BY <1>9 DEF IsNewest, n, a
    <2>2. ASSUME NEW i \in 1..n + 1 - d PROVE new[i] = more[a + 1 - (n + 1 - d) + i]
      <3>1. a + 1 - (n + 1 - d) + i = a - n + (d + i)
        BY <1>1
      <3>2. CASE d + i = n + 1
        <4>1. a - n + (d + i) = a + 1
          BY <1>1, <3>2
        <4> QED
          BY <1>2, <1>6, <3>1, <3>2, <4>1
      <3>3. CASE d + i # n + 1
        <4>1. d + i \in 1..n
          BY <1>6, <3>3
        <4>2. a - n + (d + i) \in 1..a
          BY <1>1, <2>1, <4>1
        <4> QED
          BY <1>2, <1>6, <2>1, <3>1, <3>3, <4>1, <4>2
      <3> QED
        BY <3>2, <3>3
    <2>3. n + 1 - d <= a + 1 /\ (n + 1 - d = a + 1 \/ n + 1 - d = k)
      BY <1>1, <2>1
    <2>4. Len(new) = n + 1 - d /\ Len(more) = a + 1
      BY <1>2, <1>5
    <2>5. Len(new) <= Len(more) /\ (Len(new) = Len(more) \/ Len(new) = k)
      BY <2>3, <2>4
    <2>6. ASSUME NEW i \in 1..Len(new) PROVE new[i] = more[Len(more) - Len(new) + i]
      <3>1. i \in 1..n + 1 - d /\ Len(more) - Len(new) + i = a + 1 - (n + 1 - d) + i
        BY <1>1, <2>4
      <3> QED
        BY <2>2, <3>1
    <2> QED
      BY <2>5, <2>6 DEF IsNewest
  <1> QED
    BY <1>2, <1>5, <1>7, <1>8, <1>9 DEF long, new, more

\* At the start nothing was recorded, and nobody subscribed.
LEMMA InitPush == ASSUME Pu!PushAssumption, Pu!Init PROVE PushInv
  <1>1. /\ inbox = <<>> /\ inboxFile = <<>> /\ arrivals = <<>> /\ last = 0 /\ delivered = {}
        /\ call = [c \in Sweepers |-> Pu!IdleCall] /\ enrolled = {} /\ subs = {} /\ subsFile = {}
        /\ vapid = 1 /\ made = 1 /\ vapidFile \in {0, 1} /\ lossy = (IF vapidFile = 0 THEN {"vapid"} ELSE {})
        /\ device = [e \in Endpoints |-> 0]
    BY DEF Pu!Init
  <1>2. prefs = Pu!DefaultPrefs /\ prefsFile = Pu!DefaultPrefs /\ minute = 0 /\ focus = FALSE
    BY DEF Pu!Init
  <1>3. Pu!DefaultPrefs \in Pu!Prefs
    BY DEF Pu!DefaultPrefs, Pu!Prefs, Pu!Toggles, Pu!Times, Pu!PushAssumption
  <1>4. PushShape
    <2>1. device \in [Endpoints -> -1..made] /\ made \in Nat \ {0} /\ vapid \in 1..made /\ vapidFile \in 0..made
      BY <1>1
    <2>2. call \in [Sweepers -> Sends]
      BY <1>1, IdleCallIs
    <2>3. minute \in 0..DayMinutes - 1 /\ last \in Nat
      BY <1>1, <1>2 DEF Pu!PushAssumption
    <2>4. prefs \in Pu!Prefs /\ prefsFile \in Pu!Prefs /\ focus \in BOOLEAN
      BY <1>2, <1>3
    <2> QED
      BY <1>1, <2>1, <2>2, <2>3, <2>4 DEF PushShape
  <1>5. Ids(<<>>) = {} /\ <<>> \in Seq(Nat) /\ Len(<<>>) = 0
    BY DEF Ids, Pu!Range
  <1>6. Entries
    BY <1>1, <1>5 DEF Entries, Filed, IsNewest, Pu!IsInjective, Pu!PushAssumption
  <1>7. ASSUME NEW c \in Sweepers PROVE InFlight(c)
    BY <1>1, IdleCallIs DEF InFlight
  <1>8. Subscribed
    BY <1>1 DEF Subscribed
  <1> QED
    BY <1>4, <1>6, <1>7, <1>8 DEF PushInv

\* A step that records nothing leaves the entries as they are.
LEMMA SameEntries ==
  ASSUME Entries, UNCHANGED <<inbox, inboxFile, arrivals>>, last \in Nat, last' \in Nat, last <= last',
         delivered' \subseteq Ids(arrivals), "inbox" \notin lossy' => "inbox" \notin lossy
  PROVE  Entries'
  <1>1. 1..last \subseteq 1..last'
    OBVIOUS
  <1>2. Filed(inbox)' /\ Filed(inboxFile)'
    BY <1>1 DEF Entries, Filed, Ids
  <1>3. IsNewest(inbox, arrivals) => IsNewest(inbox, arrivals)'
    BY DEF IsNewest
  <1> QED
    BY <1>1, <1>2, <1>3 DEF Entries, Ids

\* A call moves on, and records nothing.
LEMMA SendMoves ==
  ASSUME PushInv, NEW c \in Sweepers, NEW new \in Sends, call' = [call EXCEPT ![c] = new],
         UNCHANGED <<inbox, inboxFile, arrivals, last>>,
         \A e \in Endpoints : device[e] = -1 => device'[e] = -1,
         new.pc # "record", new.id <= last, new.pc = "idle" => new.id = 0,
         new.id > 0 => new.id \in Ids(arrivals), \A e \in new.dead : device'[e] = -1
  PROVE  call' \in [Sweepers -> Sends] /\ \A d \in Sweepers : InFlight(d)'
  <1>1. call \in [Sweepers -> Sends] /\ call' \in [Sweepers -> Sends] /\ call'[c] = new
        /\ \A d \in Sweepers \ {c} : call'[d] = call[d]
    BY DEF PushInv, PushShape
  <1>2. InFlight(c)'
    BY <1>1 DEF InFlight, Ids
  <1>3. ASSUME NEW d \in Sweepers \ {c} PROVE InFlight(d)'
    <2>1. call'[d] = call[d] /\ InFlight(d) /\ call[d].dead \subseteq Endpoints
      BY <1>1 DEF PushInv, Sends
    <2>2. NotYetRecorded(d) => NotYetRecorded(d)'
      BY <1>1, <2>1 DEF NotYetRecorded, Ids
    <2> QED
      BY <2>1, <2>2 DEF InFlight, Ids
  <1> QED
    BY <1>1, <1>2, <1>3

\* The calls stay where they are, and so do the entries.
LEMMA SendsStay ==
  ASSUME PushInv, UNCHANGED <<inbox, inboxFile, arrivals, last, call>>,
         \A e \in Endpoints : device[e] = -1 => device'[e] = -1
  PROVE  \A d \in Sweepers : InFlight(d)'
  <1> SUFFICES ASSUME NEW d \in Sweepers PROVE InFlight(d)'
    OBVIOUS
  <1>1. InFlight(d) /\ call[d].dead \subseteq Endpoints
    BY DEF PushInv, PushShape, Sends
  <1>2. NotYetRecorded(d) => NotYetRecorded(d)'
    BY DEF NotYetRecorded, Ids
  <1> QED
    BY <1>1, <1>2 DEF InFlight, Ids

\* Preferences, the clock and the focus touch nothing else.
LEMMA SettingsStep ==
  ASSUME Pu!PushAssumption, PushInv, Pu!SetPrefs \/ Pu!Tick \/ Pu!Presence PROVE PushInv'
  <1> USE DEF PushInv
  <1>1. /\ UNCHANGED <<inbox, inboxFile, last, subs, subsFile, vapid, made, vapidFile, device, call, delivered,
                       arrivals, enrolled>>
        /\ lossy' \in {lossy, lossy \cup {"prefs"}}
    BY DEF Pu!SetPrefs, Pu!Tick, Pu!Presence, Pu!Save, Pu!prefVars, Pu!inboxVars, Pu!subVars, Pu!keyVars
  <1>2. prefs' \in Pu!Prefs /\ prefsFile' \in Pu!Prefs
    <2>1. Pu!DefaultPrefs \in Pu!Prefs
      BY DEF Pu!DefaultPrefs, Pu!Prefs, Pu!Toggles, Pu!Times, Pu!PushAssumption
    <2> QED
      BY <2>1 DEF Pu!SetPrefs, Pu!Tick, Pu!Presence, Pu!Save, Pu!prefVars, PushShape
  <1>3. minute' \in 0..DayMinutes - 1 /\ focus' \in BOOLEAN
    <2>1. minute' = minute \/ minute' = (minute + 1) % DayMinutes
      BY DEF Pu!SetPrefs, Pu!Tick, Pu!Presence
    <2>2. minute' \in 0..DayMinutes - 1
      BY <2>1 DEF PushShape, Pu!PushAssumption
    <2>3. focus' \in BOOLEAN
      BY DEF Pu!SetPrefs, Pu!Tick, Pu!Presence, PushShape
    <2> QED
      BY <2>2, <2>3
  <1>4. PushShape'
    BY <1>1, <1>2, <1>3 DEF PushShape
  <1>5. Entries'
    <2>1. last \in Nat /\ delivered \subseteq Ids(arrivals)
      BY DEF PushShape, Entries
    <2> QED
      BY <1>1, <2>1, SameEntries
  <1>6. \A d \in Sweepers : InFlight(d)'
    BY <1>1, SendsStay
  <1>7. Subscribed'
    BY <1>1 DEF Subscribed
  <1> QED
    BY <1>4, <1>5, <1>6, <1>7

\* A device subscribes with the key it was given, or is given up by its service.
LEMMA DeviceStep ==
  ASSUME Pu!PushAssumption, PushInv, NEW e \in Endpoints, Pu!Subscribe(e) \/ Pu!Dropped(e) PROVE PushInv'
  <1> USE DEF PushInv
  <1>1. UNCHANGED <<prefs, prefsFile, minute, focus, inbox, inboxFile, last, vapid, made, vapidFile, call, delivered,
                    arrivals>>
    BY DEF Pu!Subscribe, Pu!Dropped, Pu!prefVars, Pu!inboxVars, Pu!subVars, Pu!keyVars
  <1>2. /\ made \in Nat /\ vapid \in 1..made /\ device \in [Endpoints -> -1..made] /\ subs \subseteq Endpoints
        /\ subsFile \subseteq Endpoints /\ enrolled \subseteq Endpoints
    BY DEF PushShape
  <1>3. \/ /\ device[e] = 0 /\ device' = [device EXCEPT ![e] = vapid] /\ subs' = subs \cup {e}
           /\ enrolled' \in {enrolled, enrolled \cup {e}}
           /\ \/ subsFile' = subs' /\ lossy' = lossy
              \/ subsFile' \in {subsFile, {}} /\ lossy' = lossy \cup {"subs"}
        \/ /\ device[e] > 0 /\ device' = [device EXCEPT ![e] = -1]
           /\ UNCHANGED <<subs, subsFile, enrolled, lossy>>
    BY DEF Pu!Subscribe, Pu!Dropped, Pu!Save, Pu!subVars, Pu!keyVars
  <1>4. device' \in [Endpoints -> -1..made] /\ \A d \in Endpoints : device[d] = -1 => device'[d] = -1
    BY <1>2, <1>3
  <1>5. PushShape'
    BY <1>1, <1>2, <1>3, <1>4 DEF PushShape
  <1>6. Entries'
    <2>1. last \in Nat /\ delivered \subseteq Ids(arrivals)
      BY DEF PushShape, Entries
    <2>2. "inbox" \notin lossy' => "inbox" \notin lossy
      BY <1>3
    <2> QED
      BY <1>1, <2>1, <2>2, SameEntries
  <1>7. \A d \in Sweepers : InFlight(d)'
    BY <1>1, <1>4, SendsStay
  <1>8. Subscribed'
    <2>1. CASE device[e] = 0 /\ device' = [device EXCEPT ![e] = vapid] /\ subs' = subs \cup {e}
               /\ enrolled' \in {enrolled, enrolled \cup {e}}
               /\ \/ subsFile' = subs' /\ lossy' = lossy
                  \/ subsFile' \in {subsFile, {}} /\ lossy' = lossy \cup {"subs"}
      <3>1. \A d \in Endpoints : device'[d] = (IF d = e THEN vapid ELSE device[d])
        BY <1>2, <2>1
      <3> QED
        BY <1>1, <1>2, <2>1, <3>1 DEF Subscribed
    <2>2. CASE device' = [device EXCEPT ![e] = -1] /\ UNCHANGED <<subs, subsFile, enrolled, lossy>>
      <3>1. \A d \in Endpoints : device'[d] = (IF d = e THEN -1 ELSE device[d])
        BY <1>2, <2>2
      <3> QED
        BY <1>1, <1>2, <2>2, <3>1 DEF Subscribed
    <2> QED
      BY <1>3, <2>1, <2>2
  <1> QED
    BY <1>5, <1>6, <1>7, <1>8

\* A send begins, with an id that was never given out.
LEMMA SendStep ==
  ASSUME Pu!PushAssumption, PushInv, NEW c \in Sweepers, Pu!Send(c) PROVE PushInv'
  <1> USE DEF PushInv
  <1> DEFINE new == [Pu!IdleCall EXCEPT !.pc = "record", !.id = last + 1]
  <1>1. /\ UNCHANGED <<prefs, prefsFile, minute, focus, inbox, inboxFile, subs, subsFile, vapid, made, vapidFile,
                       device, delivered, arrivals, enrolled, lossy>>
        /\ last' = last + 1 /\ call' = [call EXCEPT ![c] = new]
    BY DEF Pu!Send, Pu!prefVars, Pu!subVars, Pu!keyVars
  <1>2. last \in Nat /\ call \in [Sweepers -> Sends] /\ delivered \subseteq Ids(arrivals)
    BY DEF PushShape, Entries
  <1>3. new \in Sends /\ new.pc = "record" /\ new.id = last + 1 /\ new.dead = {}
    <2> DEFINE none == Pu!IdleCall
    <2>1. none \in Sends /\ none.dead = {} /\ new = [none EXCEPT !.pc = "record", !.id = last + 1]
      BY IdleCallIs
    <2> HIDE DEF none, new
    <2>2. last + 1 \in Nat
      BY <1>2
    <2> QED
      BY <2>1, <2>2 DEF Sends
  <1> HIDE DEF new
  <1>4. call' \in [Sweepers -> Sends] /\ call'[c] = new /\ \A d \in Sweepers \ {c} : call'[d] = call[d]
    BY <1>1, <1>2, <1>3
  <1>5. PushShape'
    BY <1>1, <1>2, <1>4 DEF PushShape
  <1>6. Entries'
    <2>1. last' \in Nat /\ last <= last'
      BY <1>1, <1>2
    <2> QED
      BY <1>1, <1>2, <2>1, SameEntries
  <1>7. \A i \in Ids(inbox) \cup Ids(inboxFile) \cup Ids(arrivals) : i \in 1..last
    BY DEF Entries, Filed
  <1>8. \A d \in Sweepers : call[d].id \in Nat /\ call[d].id <= last
    BY <1>2 DEF InFlight, Sends
  <1>9. InFlight(c)'
    <2>1. last + 1 > 0 /\ last + 1 \notin Ids(inbox) \cup Ids(inboxFile) \cup Ids(arrivals)
      BY <1>2, <1>7
    <2>2. \A d \in Sweepers \ {c} : call'[d].id # last + 1
      BY <1>2, <1>4, <1>8
    <2>3. NotYetRecorded(c)'
      BY <1>1, <1>3, <1>4, <2>1, <2>2 DEF NotYetRecorded, Ids
    <2> QED
      BY <1>1, <1>2, <1>3, <1>4, <2>3 DEF InFlight
  <1>10. ASSUME NEW d \in Sweepers \ {c} PROVE InFlight(d)'
    <2>1. call'[d] = call[d] /\ call'[c].id = last + 1 /\ call[d].id # last + 1
      BY <1>2, <1>3, <1>4, <1>8
    <2>2. NotYetRecorded(d) => NotYetRecorded(d)'
      BY <1>1, <1>4, <2>1 DEF NotYetRecorded, Ids
    <2>3. call[d].id <= last'
      BY <1>1, <1>2, <1>8
    <2>4. InFlight(d)
      OBVIOUS
    <2> QED
      BY <1>1, <2>1, <2>2, <2>3, <2>4 DEF InFlight, Ids
  <1>11. Subscribed'
    BY <1>1 DEF Subscribed
  <1> QED
    BY <1>5, <1>6, <1>9, <1>10, <1>11

\* The entry is recorded, whether or not the file takes it.
LEMMA RecordStep ==
  ASSUME Pu!PushAssumption, PushInv, NEW c \in Sweepers, Pu!Record(c) PROVE PushInv'
  <1> USE DEF PushInv
  <1> DEFINE id == call[c].id
             new == Pu!Newest(Append(inbox, id))
             more == Append(arrivals, id)
             moved == [call[c] EXCEPT !.pc = "look"]
  <1>1. /\ UNCHANGED <<prefs, prefsFile, minute, focus, last, subs, subsFile, vapid, made, vapidFile, device,
                       delivered, enrolled>>
        /\ call[c].pc = "record" /\ inbox' = new /\ arrivals' = more
        /\ \/ inboxFile' = inbox' /\ lossy' = lossy
           \/ inboxFile' = inboxFile /\ lossy' = lossy \cup {"inbox"}
    BY DEF Pu!Record, Pu!Save, Pu!prefVars, Pu!subVars, Pu!keyVars
  <1>2. call' = [call EXCEPT ![c] = moved]
    BY DEF Pu!Record, Pu!Moves
  <1>3. call \in [Sweepers -> Sends] /\ call[c] \in Sends /\ id \in Nat /\ id <= last /\ id > 0 /\ last \in Nat
        /\ id \notin Ids(inbox) /\ id \notin Ids(inboxFile) /\ id \notin Ids(arrivals)
        /\ \A d \in Sweepers \ {c} : call[d].pc = "record" => call[d].id # id
    BY <1>1 DEF PushShape, InFlight, NotYetRecorded, Sends
  <1>4. moved \in Sends /\ moved.pc = "look" /\ moved.id = id /\ moved.dead = call[c].dead
    BY <1>3 DEF Sends
  <1>5. /\ inbox \in Seq(Nat) /\ Len(inbox) <= NotifKeep /\ Pu!IsInjective(inbox) /\ arrivals \in Seq(Nat)
        /\ Ids(inbox) \subseteq 1..last /\ Ids(arrivals) \subseteq 1..last /\ delivered \subseteq Ids(arrivals)
    BY DEF Entries, Filed
  <1>6. /\ new \in Seq(Nat) /\ Len(new) <= NotifKeep /\ Pu!IsInjective(new)
        /\ Ids(new) \subseteq Ids(inbox) \cup {id}
        /\ more \in Seq(Nat) /\ Ids(more) = Ids(arrivals) \cup {id}
        /\ IsNewest(inbox, arrivals) => IsNewest(new, more)
    BY <1>3, <1>5, RecordIs
  <1> HIDE DEF new, more, moved, id
  <1>7. call' \in [Sweepers -> Sends] /\ call'[c] = moved /\ \A d \in Sweepers \ {c} : call'[d] = call[d]
    BY <1>2, <1>3, <1>4
  <1>8. PushShape'
    BY <1>1, <1>7 DEF PushShape
  <1>9. Entries'
    <2>1. id \in 1..last
      BY <1>3
    <2>2. Filed(inbox)'
      BY <1>1, <1>5, <1>6, <2>1 DEF Filed, Ids
    <2>3. Filed(inboxFile)'
      <3>1. CASE inboxFile' = inbox'
        BY <2>2, <3>1 DEF Filed, Ids
      <3>2. CASE inboxFile' = inboxFile
        BY <1>1, <3>2 DEF Entries, Filed, Ids
      <3> QED
        BY <1>1, <3>1, <3>2
    <2>4. Ids(arrivals)' = Ids(more) /\ Ids(more) \subseteq 1..last /\ delivered' \subseteq Ids(more)
      BY <1>1, <1>5, <1>6, <2>1 DEF Ids
    <2>5. "inbox" \notin lossy' => inboxFile' = inbox' /\ IsNewest(inbox, arrivals)'
      <3>1. IsNewest(new, more) => IsNewest(inbox, arrivals)'
        BY <1>1 DEF IsNewest
      <3> QED
        BY <1>1, <1>6, <3>1 DEF Entries
    <2> QED
      BY <1>1, <1>6, <2>2, <2>3, <2>4, <2>5 DEF Entries
  <1>10. Ids(inbox)' \subseteq Ids(inbox) \cup {id} /\ Ids(inboxFile)' \subseteq Ids(inbox) \cup Ids(inboxFile) \cup {id}
         /\ Ids(arrivals)' = Ids(arrivals) \cup {id}
    BY <1>1, <1>6 DEF Ids
  <1>11. InFlight(c)'
    BY <1>1, <1>3, <1>4, <1>7, <1>10 DEF InFlight
  <1>12. ASSUME NEW d \in Sweepers \ {c} PROVE InFlight(d)'
    <2>1. call'[d] = call[d] /\ InFlight(d)
      BY <1>7
    <2>2. call[d].pc = "record" => NotYetRecorded(d)'
      <3> SUFFICES ASSUME call[d].pc = "record" PROVE NotYetRecorded(d)'
        OBVIOUS
      <3>1. NotYetRecorded(d) /\ call[d].id # id
        BY <1>3, <2>1 DEF InFlight
      <3>2. call[d].id > 0 /\ call[d].id \notin Ids(inbox)' \cup Ids(inboxFile)' \cup Ids(arrivals)'
        BY <1>10, <3>1 DEF NotYetRecorded
      <3>3. \A e \in Sweepers \ {d} : call'[e].pc = "record" => call'[e].id # call[d].id
        BY <1>4, <1>7, <3>1 DEF NotYetRecorded
      <3> QED
        BY <2>1, <3>2, <3>3 DEF NotYetRecorded
    <2> QED
      BY <1>1, <1>10, <2>1, <2>2 DEF InFlight
  <1>13. Subscribed'
    BY <1>1 DEF Subscribed
  <1> QED
    BY <1>8, <1>9, <1>11, <1>12, <1>13

\* The steps of a send that write nothing.
LEMMA SendingStep ==
  ASSUME Pu!PushAssumption, PushInv, NEW c \in Sweepers,
         Pu!Look(c) \/ Pu!Test(c) \/ Pu!Take(c) \/ Pu!Post(c)
  PROVE  PushInv'
  <1> USE DEF PushInv
  <1>1. /\ UNCHANGED <<prefs, prefsFile, minute, focus, inbox, inboxFile, last, subs, subsFile, vapid,
                       made, vapidFile, device, arrivals, enrolled, lossy>>
        /\ call[c].pc # "record"
    BY DEF Pu!Look, Pu!Test, Pu!Take, Pu!Post, Pu!prefVars, Pu!inboxVars, Pu!subVars, Pu!keyVars
  <1>2. call \in [Sweepers -> Sends] /\ call[c] \in Sends /\ subs \subseteq Endpoints /\ last \in Nat
    BY DEF PushShape
  <1>3. /\ call[c].id <= last /\ (call[c].id > 0 => call[c].id \in Ids(arrivals))
        /\ \A e \in call[c].dead : device[e] = -1
    BY <1>1 DEF InFlight
  <1>4. PICK new \in Sends :
            /\ call' = [call EXCEPT ![c] = new] /\ new.pc # "record" /\ (new.pc = "idle" => new.id = 0)
            /\ new.id \in {0, call[c].id} /\ \A e \in new.dead : device[e] = -1
    <2>1. CASE Pu!Look(c)
      <3> DEFINE new == IF focus THEN Pu!IdleCall ELSE [call[c] EXCEPT !.pc = "take"]
      <3>1. call' = [call EXCEPT ![c] = new]
        BY <2>1 DEF Pu!Look, Pu!Moves
      <3>2. new \in Sends /\ new.pc # "record" /\ (new.pc = "idle" => new.id = 0) /\ new.id \in {0, call[c].id}
            /\ \A e \in new.dead : device[e] = -1
        BY <1>2, <1>3, IdleCallIs DEF Sends
      <3> HIDE DEF new
      <3> QED
        BY <3>1, <3>2
    <2>2. CASE Pu!Test(c)
      <3> DEFINE new == [call[c] EXCEPT !.pc = "take"]
      <3>1. call' = [call EXCEPT ![c] = new]
        BY <2>2 DEF Pu!Test, Pu!Moves
      <3>2. new \in Sends /\ new.pc = "take" /\ new.id = call[c].id /\ new.dead = call[c].dead
        BY <1>2 DEF Sends
      <3> HIDE DEF new
      <3> QED
        BY <1>3, <3>1, <3>2
    <2>3. CASE Pu!Take(c)
      <3> DEFINE new == [call[c] EXCEPT !.pc = "post", !.todo = subs]
      <3>1. call' = [call EXCEPT ![c] = new]
        BY <2>3 DEF Pu!Take
      <3>2. new \in Sends /\ new.pc = "post" /\ new.id = call[c].id /\ new.dead = call[c].dead
        BY <1>2 DEF Sends
      <3> HIDE DEF new
      <3> QED
        BY <1>3, <3>1, <3>2
    <2>4. CASE Pu!Post(c) /\ call[c].todo = {}
      <3> DEFINE new == [call[c] EXCEPT !.pc = "prune"]
      <3>1. call' = [call EXCEPT ![c] = new]
        BY <2>4 DEF Pu!Post, Pu!Moves
      <3>2. new \in Sends /\ new.pc = "prune" /\ new.id = call[c].id /\ new.dead = call[c].dead
        BY <1>2 DEF Sends
      <3> HIDE DEF new
      <3> QED
        BY <1>3, <3>1, <3>2
    <2>5. CASE Pu!Post(c) /\ call[c].todo # {}
      <3>1. PICK e \in call[c].todo :
                call' = [call EXCEPT ![c].todo = @ \ {e},
                            ![c].dead = IF device[e] = -1 THEN @ \cup {e} ELSE @]
        BY <2>5 DEF Pu!Post, Pu!IsDead
      <3> DEFINE dead == IF device[e] = -1 THEN call[c].dead \cup {e} ELSE call[c].dead
                 new == [call[c] EXCEPT !.todo = call[c].todo \ {e}, !.dead = dead]
      <3>2. e \in Endpoints /\ dead \in SUBSET Endpoints /\ \A x \in dead : device[x] = -1
        BY <1>2, <1>3 DEF Sends
      <3>3. call' = [call EXCEPT ![c] = new]
        BY <3>1
      <3> HIDE DEF dead
      <3>4. new \in Sends /\ new.pc = call[c].pc /\ new.id = call[c].id /\ new.dead = dead
        BY <1>2, <3>2 DEF Sends
      <3>5. call[c].pc = "post"
        BY <2>5 DEF Pu!Post
      <3> HIDE DEF new
      <3> QED
        BY <3>2, <3>3, <3>4, <3>5
    <2> QED
      BY <2>1, <2>2, <2>3, <2>4, <2>5
  <1>5. new.id <= last /\ (new.id > 0 => new.id \in Ids(arrivals))
    BY <1>2, <1>3, <1>4
  <1>6. call' \in [Sweepers -> Sends] /\ \A d \in Sweepers : InFlight(d)'
    BY <1>1, <1>4, <1>5, SendMoves
  <1>7. PushShape'
    BY <1>1, <1>6 DEF PushShape
  <1>8. Entries'
    <2>1. delivered' = delivered \/ (call[c].id > 0 /\ delivered' = delivered \cup {call[c].id})
      <3>1. CASE Pu!Post(c)
        BY <3>1 DEF Pu!Post
      <3>2. CASE Pu!Look(c) \/ Pu!Test(c) \/ Pu!Take(c)
        BY <3>2 DEF Pu!Look, Pu!Test, Pu!Take
      <3> QED
        BY <3>1, <3>2
    <2>2. delivered' \subseteq Ids(arrivals)
      BY <1>2, <1>3, <2>1 DEF Entries, Sends
    <2> QED
      BY <1>1, <1>2, <2>2, SameEntries
  <1>9. Subscribed'
    BY <1>1 DEF Subscribed
  <1> QED
    BY <1>6, <1>7, <1>8, <1>9

\* Subscriptions that were given up are removed.
LEMMA PruneStep ==
  ASSUME Pu!PushAssumption, PushInv, NEW c \in Sweepers, Pu!Prune(c) PROVE PushInv'
  <1> USE DEF PushInv
  <1>1. /\ UNCHANGED <<prefs, prefsFile, minute, focus, inbox, inboxFile, last, vapid, made, vapidFile, device,
                       delivered, arrivals, enrolled>>
        /\ subs' = subs \ call[c].dead /\ call' = [call EXCEPT ![c] = Pu!IdleCall]
        /\ \/ call[c].dead = {} /\ UNCHANGED <<subsFile, lossy>>
           \/ subsFile' = subs' /\ lossy' = lossy
           \/ subsFile' \in {subsFile, {}} /\ lossy' = lossy \cup {"subs"}
    BY DEF Pu!Prune, Pu!Pruned, Pu!Save, Pu!prefVars, Pu!inboxVars, Pu!keyVars
  <1>2. subs \subseteq Endpoints /\ subsFile \subseteq Endpoints /\ last \in Nat
        /\ delivered \subseteq Ids(arrivals) /\ \A e \in call[c].dead : device[e] = -1
    BY DEF PushShape, Entries, InFlight
  <1>3. call' \in [Sweepers -> Sends] /\ \A d \in Sweepers : InFlight(d)'
    <2> DEFINE new == Pu!IdleCall
    <2>1. new \in Sends /\ new.pc # "record" /\ new.id <= last /\ (new.pc = "idle" => new.id = 0)
          /\ (new.id > 0 => new.id \in Ids(arrivals)) /\ \A e \in new.dead : device'[e] = -1
      BY <1>2, IdleCallIs
    <2>2. call' = [call EXCEPT ![c] = new]
      BY <1>1
    <2> HIDE DEF new
    <2> QED
      BY <1>1, <2>1, <2>2, SendMoves
  <1>4. PushShape'
    BY <1>1, <1>2, <1>3 DEF PushShape
  <1>5. Entries'
    BY <1>1, <1>2, SameEntries
  <1>6. Subscribed'
    <2>1. "vapid" \in lossy' <=> "vapid" \in lossy
      BY <1>1
    <2>2. ASSUME "subs" \notin lossy' PROVE subsFile' = subs' /\ \A e \in enrolled : device[e] > 0 => e \in subs'
      <3>1. "subs" \notin lossy /\ subsFile' = subs'
        BY <1>1, <2>2 DEF Subscribed
      <3>2. \A e \in call[c].dead : ~(device[e] > 0)
        BY <1>2
      <3> QED
        BY <1>1, <3>1, <3>2 DEF Subscribed
    <2> QED
      BY <1>1, <2>1, <2>2 DEF Subscribed
  <1> QED
    BY <1>3, <1>4, <1>5, <1>6

\* A restart reads the files it can, and makes a key when it finds none.
LEMMA StartStep ==
  ASSUME Pu!PushAssumption, PushInv, NEW unread \in SUBSET Pu!Files, Pu!Start(unread) PROVE PushInv'
  <1> USE DEF PushInv
  <1>1. /\ UNCHANGED <<prefsFile, minute, inboxFile, last, subsFile, device, delivered, arrivals, enrolled>>
        /\ prefs' \in {prefsFile, Pu!DefaultPrefs} /\ inbox' \in {inboxFile, <<>>} /\ subs' \in {subsFile, {}}
        /\ focus' = FALSE /\ call' = [c \in Sweepers |-> Pu!IdleCall] /\ lossy' = lossy \cup unread
    BY DEF Pu!Start
  <1>2. /\ made \in Nat \ {0} /\ vapid \in 1..made /\ vapidFile \in 0..made /\ device \in [Endpoints -> -1..made]
        /\ subsFile \subseteq Endpoints
    BY DEF PushShape
  <1>3. \/ /\ vapidFile = 0 \/ "vapid" \in unread
           /\ made' = made + 1 /\ vapid' = made + 1 /\ vapidFile' \in {made + 1, vapidFile}
        \/ vapidFile # 0 /\ vapid' = vapidFile /\ made' = made /\ vapidFile' = vapidFile
    BY DEF Pu!Start
  <1>4. made' \in Nat \ {0} /\ vapid' \in 1..made' /\ vapidFile' \in 0..made' /\ made <= made'
    BY <1>2, <1>3
  <1>5. device' \in [Endpoints -> -1..made']
    BY <1>1, <1>2, <1>4
  <1>6. call' \in [Sweepers -> Sends] /\ \A d \in Sweepers : call'[d] = Pu!IdleCall
    BY <1>1, IdleCallIs
  <1>7. PushShape'
    <2>1. Pu!DefaultPrefs \in Pu!Prefs
      BY DEF Pu!DefaultPrefs, Pu!Prefs, Pu!Toggles, Pu!Times, Pu!PushAssumption
    <2> QED
      BY <1>1, <1>2, <1>4, <1>5, <1>6, <2>1 DEF PushShape
  <1>8. Entries'
    <2>1. Filed(inboxFile)'
      BY <1>1 DEF Entries, Filed, Ids
    <2>2. Filed(inbox)'
      <3>1. CASE inbox' = inboxFile
        BY <1>1, <3>1 DEF Entries, Filed, Ids
      <3>2. CASE inbox' = <<>>
        <4> DEFINE empty == inbox'
        <4>1. empty \in Seq(Nat) /\ Len(empty) = 0 /\ DOMAIN empty = {}
          BY <3>2
        <4> HIDE DEF empty
        <4>2. Ids(empty) = {} /\ Pu!IsInjective(empty)
          BY <4>1 DEF Ids, Pu!Range, Pu!IsInjective
        <4> QED
          BY <4>1, <4>2 DEF empty, Filed, Ids, Pu!PushAssumption
      <3> QED
        BY <1>1, <3>1, <3>2
    <2>3. ASSUME "inbox" \notin lossy' PROVE inboxFile' = inbox' /\ IsNewest(inbox, arrivals)'
      <3>1. inbox' = inboxFile /\ "inbox" \notin lossy
        BY <1>1, <2>3 DEF Pu!Start
      <3>2. inboxFile = inbox /\ IsNewest(inbox, arrivals)
        BY <3>1 DEF Entries
      <3> QED
        BY <1>1, <3>1, <3>2 DEF IsNewest
    <2> QED
      BY <1>1, <2>1, <2>2, <2>3 DEF Entries, Ids
  <1>9. ASSUME NEW d \in Sweepers PROVE InFlight(d)'
    BY <1>1, <1>6, IdleCallIs DEF InFlight, PushShape
  <1>10. Subscribed'
    <2>1. ASSUME "subs" \notin lossy'
          PROVE  subsFile' = subs' /\ \A e \in enrolled' : device'[e] > 0 => e \in subs'
      <3>1. subs' = subsFile /\ "subs" \notin lossy
        BY <1>1, <2>1 DEF Pu!Start
      <3> QED
        BY <1>1, <3>1 DEF Subscribed
    <2>2. ASSUME "vapid" \notin lossy'
          PROVE  vapidFile' = vapid' /\ \A e \in Endpoints : device'[e] > 0 => device'[e] = vapid'
      <3>1. "vapid" \notin lossy /\ "vapid" \notin unread
        BY <1>1, <2>2
      <3> QED
        BY <1>1, <1>2, <1>3, <3>1 DEF Subscribed
    <2> QED
      BY <2>1, <2>2 DEF Subscribed
  <1> QED
    BY <1>7, <1>8, <1>9, <1>10

\* Every step of the pushes keeps the invariant.
LEMMA StepPush ==
  ASSUME Pu!PushAssumption, PushInv, Pu!Next \/ UNCHANGED pushVars PROVE PushInv'
  <1>1. CASE UNCHANGED pushVars
    <2>1. UNCHANGED <<prefs, prefsFile, minute, focus, inbox, inboxFile, last, subs, subsFile, vapid, made,
                      vapidFile, device, call, delivered, arrivals, enrolled, lossy>>
      BY <1>1 DEF pushVars
    <2>2. PushShape'
      BY <2>1 DEF PushInv, PushShape
    <2>3. Entries'
      BY <2>1, SameEntries DEF PushInv, PushShape, Entries
    <2>4. \A d \in Sweepers : InFlight(d)'
      BY <2>1, SendsStay
    <2>5. Subscribed'
      BY <2>1 DEF PushInv, Subscribed
    <2> QED
      BY <2>2, <2>3, <2>4, <2>5 DEF PushInv
  <1>2. CASE Pu!Next
    <2>1. \/ Pu!SetPrefs \/ Pu!Tick \/ Pu!Presence \/ (\E unread \in SUBSET Pu!Files : Pu!Start(unread))
          \/ \E e \in Endpoints : Pu!Subscribe(e) \/ Pu!Dropped(e)
          \/ \E c \in Sweepers : \/ Pu!Send(c) \/ Pu!Record(c) \/ Pu!Prune(c)
                                 \/ Pu!Look(c) \/ Pu!Test(c) \/ Pu!Take(c) \/ Pu!Post(c)
      BY <1>2 DEF Pu!Next, Pu!Schedule, Pu!Delivery
    <2> QED
      BY <2>1, SettingsStep, DeviceStep, SendStep, RecordStep, SendingStep, PruneStep, StartStep
  <1> QED
    BY <1>1, <1>2

\* A difference of two minutes of a day, going forward.
LEMMA MinutesBetween ==
  ASSUME NEW day \in Nat \ {0}, NEW x \in 0..day - 1, NEW y \in 0..day - 1
  PROVE  (x - y) % day = IF x >= y THEN x - y ELSE x - y + day
  <1>1. CASE x >= y
    BY <1>1
  <1>2. CASE x < y
    BY <1>2
  <1> QED
    BY <1>1, <1>2

\* The two branches of inQuiet are one window that goes forward from its start.
LEMMA QuietIs == ASSUME Pu!PushAssumption, PushInv PROVE Pu!QuietIsWindow
  <1>1. ASSUME NEW cur \in 0..DayMinutes - 1
        PROVE  Pu!InQuiet(prefs, cur) <=>
                   /\ prefs.quietOn /\ -1 \notin {prefs.quietStart, prefs.quietEnd}
                   /\ (cur - prefs.quietStart) % DayMinutes < (prefs.quietEnd - prefs.quietStart) % DayMinutes
    <2> DEFINE from == prefs.quietStart
               to == prefs.quietEnd
    <2>1. from \in -1..DayMinutes - 1 /\ to \in -1..DayMinutes - 1 /\ DayMinutes \in Nat \ {0}
      BY DEF PushInv, PushShape, Pu!Prefs, Pu!Times, Pu!PushAssumption
    <2>2. CASE from = -1 \/ to = -1
      BY <2>1, <2>2 DEF Pu!InQuiet
    <2>3. CASE from # -1 /\ to # -1
      <3>1. from \in 0..DayMinutes - 1 /\ to \in 0..DayMinutes - 1
        BY <2>1, <2>3
      <3>2. /\ (cur - from) % DayMinutes = IF cur >= from THEN cur - from ELSE cur - from + DayMinutes
            /\ (to - from) % DayMinutes = IF to >= from THEN to - from ELSE to - from + DayMinutes
        BY <2>1, <3>1, MinutesBetween
      <3> QED
        BY <2>1, <3>1, <3>2 DEF Pu!InQuiet
    <2> QED
      BY <2>2, <2>3
  <1> QED
    BY <1>1 DEF Pu!QuietIsWindow

\* The invariant says what Push promises.
LEMMA PushKept == ASSUME Pu!PushAssumption, PushInv PROVE Pu!DeliveryKept
  <1> USE DEF PushInv
  <1>1. Pu!TypeOK
    <2>1. ASSUME NEW c \in Sweepers
          PROVE  /\ call[c].pc \in {"idle", "record", "look", "take", "post", "prune"}
                 /\ call[c].id \in 0..last /\ call[c].dead \cup call[c].todo \subseteq Endpoints
      BY DEF PushShape, Sends, InFlight
    <2> QED
      BY <2>1 DEF Pu!TypeOK, PushShape, Entries, Filed, Ids
  <1>2. Pu!TapFindsEntry
    <2> SUFFICES ASSUME "inbox" \notin lossy, NEW id \in delivered
                 PROVE  id \in Pu!Range(inbox) \/ Pu!Trimmed(id)
      BY DEF Pu!TapFindsEntry
    <2> DEFINE n == Len(inbox)
               a == Len(arrivals)
    <2>1. inbox \in Seq(Nat) /\ arrivals \in Seq(Nat) /\ n \in Nat /\ a \in Nat /\ DOMAIN arrivals = 1..a
      BY DEF Entries, Filed
    <2>2. IsNewest(inbox, arrivals) /\ id \in Ids(arrivals)
      BY DEF Entries
    <2>3. PICK i \in 1..a : arrivals[i] = id
      BY <2>1, <2>2 DEF Ids, Pu!Range
    <2>4. n <= a /\ (n = a \/ n = NotifKeep) /\ \A j \in 1..n : inbox[j] = arrivals[a - n + j]
      BY <2>2 DEF IsNewest
    <2> HIDE DEF n, a
    <2>5. CASE i <= a - NotifKeep
      <3>1. i \in 1..a - NotifKeep
        BY <2>1, <2>5 DEF Pu!PushAssumption
      <3> QED
        BY <2>3, <3>1 DEF Pu!Trimmed, a
    <2>6. CASE ~(i <= a - NotifKeep)
      <3>1. i - (a - n) \in 1..n /\ a - n + (i - (a - n)) = i
        BY <2>1, <2>3, <2>4, <2>6 DEF Pu!PushAssumption
      <3>2. inbox[i - (a - n)] = id
        BY <2>3, <2>4, <3>1
      <3> QED
        BY <3>1, <3>2 DEF Pu!Range, n
    <2> QED
      BY <2>5, <2>6
  <1>3. Pu!SubsKept
    BY DEF Pu!SubsKept, Subscribed, PushShape
  <1> QED
    BY <1>1, <1>2, <1>3 DEF Pu!DeliveryKept

\* Pushes: a tap finds its entry, who subscribed stays subscribed while its service keeps it, and the
\* quiet window is what the phone set, whatever interleaves, fails or restarts.
THEOREM PushThm == AllSpec => []PushSound
  <1>1. Pu!PushAssumption
    BY Assumptions DEF Assumptions
  <1>2. AllInit => PushInv
    BY <1>1, InitPush DEF AllInit
  <1>3. PushInv /\ [AllNext]_allVars => PushInv'
    <2>1. ASSUME [AllNext]_allVars PROVE Pu!Next \/ UNCHANGED pushVars
      BY <2>1 DEF AllNext, allVars, Pu!Next
    <2> QED
      BY <1>1, <2>1, StepPush
  <1>4. PushInv => PushSound
    BY <1>1, PushKept, QuietIs DEF PushSound, Pu!DeliveryKept
  <1> QED
    BY <1>2, <1>3, <1>4, PTL DEF AllSpec

-----------------------------------------------------------------------------
(***************************************************************************)
(* The walk through a question menu.                                       *)
(*                                                                         *)
(* The menu is submitted by a key that may land long after it was sent.    *)
(* So the invariant speaks of the key while it is on its way: one that was *)
(* sent on a sure look is the next to land, the menu still is what the     *)
(* walk saw, and there the key is Lawful - wherever it leads, it leaves    *)
(* the phone's answers behind.  What makes the walk's keys lawful is what  *)
(* its last look showed (Saw).                                             *)
(***************************************************************************)

\* A menu is of questions, and has one.
FormOK == form \in Seq({"pick", "multi"}) \ {<<>>}

KeyNames == {"1", "2", "3", "Up", "Down", "Left", "Right", "Wipe", "text", "Enter", "Esc"}
WireKeys == [key : KeyNames, by : {"walk", "terminal"}, picks : Menu!Picks, sure : BOOLEAN]
IsPage(p) == DOMAIN p = {"focus", "answered", "checked", "row", "editing", "review"}

\* Only a question has a field to type into.
IsMenu(m) ==
    /\ m = [focus |-> m.focus, ans |-> m.ans, free |-> m.free, field |-> m.field, editing |-> m.editing]
    /\ m.focus \in 1..Menu!Gone /\ m.ans \in [1..Menu!N -> SUBSET (Menu!Rows \cup {"3"})]
    /\ m.free \in [1..Menu!N -> Menu!Texts] /\ m.field \in Menu!Texts
    /\ m.editing \in BOOLEAN /\ (m.editing => m.focus # Menu!Review)

\* The other questions keep their answers.
Elsewhere(m, e) == \A j \in 1..Menu!N : j # m.focus => e.ans[j] = m.ans[j] /\ e.free[j] = m.free[j]

\* What leaves a question behind, and its answer then.
Leaves(m, k, e) ==
    \/ /\ m.editing /\ k = "Enter" /\ ~Menu!Multi(m.focus) /\ m.field # ""
       /\ e.ans[m.focus] = {"3"} /\ e.free[m.focus] = m.field
    \/ /\ ~m.editing
       /\ \/ ~Menu!Multi(m.focus) /\ k \in Menu!Rows /\ e.ans[m.focus] = {k}
          \/ ~Menu!Multi(m.focus) /\ k = "3" /\ m.free[m.focus] # ""
          \/ k = "Right" /\ e.ans = m.ans /\ e.free = m.free

\* Where a key at a question leads, and what it leaves in the field.
Moves(m, k, e) ==
    \/ e.focus = m.focus
    \/ e.focus = m.focus - 1 /\ k = "Left"
    \/ e.focus = (IF Menu!Single THEN Menu!Gone ELSE m.focus + 1) /\ Leaves(m, k, e)
Fills(m, k, e) ==
    /\ m.editing /\ k = "Wipe" => e.field = ""
    /\ m.editing /\ k = "text" /\ m.field = "" => e.field = "text"
    /\ ~m.editing /\ k = "3" /\ ~Menu!Multi(m.focus) /\ m.free[m.focus] = "" => e.field = ""

\* A key at the review, or after it.
Beyond(m, k, e) ==
    /\ e.ans = m.ans /\ e.free = m.free
    /\ e.focus = m.focus \/ (k = "Left" /\ e.focus = Menu!N) \/ (k \in {"1", "Esc"} /\ e.focus = Menu!Gone)

IsWalk(w) ==
    /\ w = [pc |-> w.pc, i |-> w.i, exp |-> w.exp, sure |-> w.sure]
    /\ w.pc \in Menu!WalkSteps /\ w.i \in 0..Menu!Review /\ w.sure \in BOOLEAN
    /\ IsPage(w.exp)

MenuShape ==
    /\ form \in Forms /\ FormOK /\ calm \in BOOLEAN
    /\ IsMenu(menu)
    /\ wire \in Seq(WireKeys) /\ (calm => wire = <<>>)
    /\ IsWalk(walk)
    /\ answers \in Menu!Picks /\ done \in 0..Menu!N
    /\ walks \in 0..MaxWalks /\ keys \in 0..MaxKeys /\ cuts \in 0..MaxCuts

\* Question i holds the phone's answer.
Right(m, picks, i) == Menu!Answer(m, i) = Menu!Want(picks, i)

\* A key that leaves a question, or the review, leaves the phone's answers behind.
Lawful(m, k, picks) ==
    /\ k # "Esc"
    /\ m.focus <= Menu!N /\ Menu!Apply(m, k).focus > m.focus => Right(Menu!Apply(m, k), picks, m.focus)
    /\ m.focus = Menu!Review /\ k = "1" => \A i \in 1..Menu!N : Right(m, picks, i)

\* The question the walk is at.
QuestionAt(w) ==
    /\ w.pc \in Menu!WalkSteps \ {"idle", "first", "verify", "submit", "clear"} => w.i \in 1..Menu!N
    /\ w.pc \in {"multi", "multiKey", "multiWait"} => Menu!Multi(w.i) /\ w.exp.focus = w.i
    /\ w.pc \in {"press", "reach", "wipe", "open", "type", "shown", "enter"} => ~Menu!Multi(w.i)
    /\ w.pc \in {"reach", "wipe", "open", "type", "shown", "enter"} => answers[w.i].rows = {}
AtQuestion == QuestionAt(walk)

\* What the walk saw when it looked last, before it sends a key.
SawAt(w) ==
    LET at == menu.focus = w.i
        typing == at /\ menu.editing
    IN /\ w.pc = "press" => at /\ ~menu.editing /\ w.exp = Menu!Now
       /\ w.pc \in {"wipe", "type"} => typing
       /\ w.pc = "enter" => typing /\ Menu!Now.row = answers[w.i].text
       /\ w.pc = "multiKey" => w.exp = Menu!Now
       /\ w.pc = "submit" => menu.focus = Menu!Review /\ \A i \in 1..Menu!N : Right(menu, answers, i)
Saw == SawAt(walk)

\* A key that was sent at a sure look is the next to land.
WireSure ==
    \A j \in DOMAIN wire : wire[j].sure =>
        j = 1 /\ wire[j].by = "walk" /\ Lawful(menu, wire[j].key, wire[j].picks)

\* With nobody else at the terminal every look is sure, what the menu is past is right, and so is what
\* the walk entered.
FieldAt(m, w) ==
    /\ w.pc \in {"open", "type"} => m.field = ""
    /\ w.pc \in {"shown", "enter"} => m.field = answers[w.i].text
CalmAt(m, w, d) ==
    /\ w.sure = TRUE
    /\ d < m.focus /\ (w.pc \in {"first", "left", "leftWait"} => d = 0)
    /\ \A i \in 1..Menu!N : i < m.focus => Right(m, answers, i)
    /\ FieldAt(m, w)
Calm == CalmAt(menu, walk, done)

MenuInv ==
    /\ MenuShape /\ AtQuestion
    /\ walk.sure /\ wire = <<>> => Saw
    /\ WireSure
    /\ calm => Calm
    /\ Menu!SubmitsOnlyPicks

\* A menu has questions, and a lone one has no multi-select.
LEMMA FormIs ==
  ASSUME FormOK
  PROVE  /\ Menu!N \in Nat \ {0} /\ Menu!Review = Menu!N + 1 /\ Menu!Gone = Menu!N + 2
         /\ Menu!Single => Menu!N = 1 /\ ~Menu!Multi(1)
  <1>1. form \in Seq({"pick", "multi"}) /\ form # <<>>
    BY DEF FormOK
  <1>2. Len(form) \in Nat /\ Len(form) # 0
    BY <1>1
  <1>3. Len(<<"pick">>) = 1 /\ <<"pick">>[1] = "pick"
    OBVIOUS
  <1> QED
    BY <1>2, <1>3 DEF Menu!N, Menu!Review, Menu!Gone, Menu!Single, Menu!Multi

\* Text typed into the field of a question changes its own answer at most.
LEMMA TypedIs ==
  ASSUME FormOK, NEW m, IsMenu(m), m.focus <= Menu!N, NEW t \in Menu!Texts, NEW e, e = Menu!Typed(m, t)
  PROVE  IsMenu(e) /\ e.focus = m.focus /\ e.field = t /\ Elsewhere(m, e)
  <1>0. Menu!N \in Nat \ {0} /\ Menu!Review = Menu!N + 1 /\ m.focus \in 1..Menu!N
    BY FormIs DEF IsMenu
  <1>1. m.ans \in [1..Menu!N -> SUBSET (Menu!Rows \cup {"3"})] /\ m.free \in [1..Menu!N -> Menu!Texts]
    BY DEF IsMenu
  <1>2. m = [focus |-> m.focus, ans |-> m.ans, free |-> m.free, field |-> m.field, editing |-> m.editing]
    BY DEF IsMenu
  <1> DEFINE a == [m.ans EXCEPT ![m.focus] = (m.ans[m.focus] \ {"3"}) \cup (IF t = "" THEN {} ELSE {"3"})]
             f == [m.free EXCEPT ![m.focus] = t]
  <1>3. a \in [1..Menu!N -> SUBSET (Menu!Rows \cup {"3"})] /\ f \in [1..Menu!N -> Menu!Texts]
    BY <1>0, <1>1
  <1>4. \A j \in 1..Menu!N : j # m.focus => a[j] = m.ans[j] /\ f[j] = m.free[j]
    BY <1>1
  <1>5. CASE Menu!Multi(m.focus)
    <2>1. e = [m EXCEPT !.field = t, !.free = f, !.ans = a]
      BY <1>0, <1>5 DEF Menu!Typed
    <2> HIDE DEF a, f
    <2>2. e = [focus |-> m.focus, ans |-> a, free |-> f, field |-> t, editing |-> m.editing]
      BY <1>2, <2>1
    <2> QED
      BY <1>0, <1>3, <1>4, <2>2 DEF IsMenu, Elsewhere
  <1>6. CASE ~Menu!Multi(m.focus)
    <2>1. e = [m EXCEPT !.field = t]
      BY <1>6 DEF Menu!Typed
    <2> QED
      BY <1>0, <1>1, <2>1 DEF IsMenu, Elsewhere
  <1> QED
    BY <1>5, <1>6

\* Keys in the free-text field change the question they are in, and only Enter leaves it.
LEMMA EditIs ==
  ASSUME FormOK, NEW m, IsMenu(m), m.editing, m.focus <= Menu!N, NEW k, NEW e, e = Menu!EditKey(m, k)
  PROVE  IsMenu(e) /\ Elsewhere(m, e) /\ Moves(m, k, e) /\ Fills(m, k, e)
  <1>0. /\ Menu!N \in Nat \ {0} /\ Menu!Review = Menu!N + 1 /\ Menu!Gone = Menu!N + 2
        /\ m.focus \in 1..Menu!N /\ (Menu!Single => Menu!N = 1)
    BY FormIs DEF IsMenu
  <1>1. /\ m.ans \in [1..Menu!N -> SUBSET (Menu!Rows \cup {"3"})] /\ m.free \in [1..Menu!N -> Menu!Texts]
        /\ m.field \in Menu!Texts
    BY DEF IsMenu
  <1>2. m = [focus |-> m.focus, ans |-> m.ans, free |-> m.free, field |-> m.field, editing |-> m.editing]
    BY DEF IsMenu
  <1>3. CASE k \in Menu!Rows \cup {"3", "text"}
    <2>1. Menu!EditKey(m, k) = Menu!Typed(m, IF m.field = "" /\ k = "text" THEN k ELSE "junk")
      BY <1>3 DEF Menu!EditKey, Menu!Rows
    <2> PICK t \in Menu!Texts : t = IF m.field = "" /\ k = "text" THEN k ELSE "junk"
      BY DEF Menu!Texts
    <2>2. e = Menu!Typed(m, t)
      BY <2>1
    <2>3. /\ IsMenu(e) /\ e.focus = m.focus /\ e.field = t
          /\ Elsewhere(m, e)
      BY ONLY <2>2, TypedIs, FormOK, IsMenu(m), m.focus <= Menu!N, t \in Menu!Texts, SMT
    <2>4. k # "Wipe" /\ (k = "text" /\ m.field = "" => t = "text")
      BY <1>3 DEF Menu!Rows
    <2> QED
      BY <1>3, <2>3, <2>4 DEF Moves, Fills
  <1>4. CASE k = "Wipe"
    <2>1. e = Menu!Typed(m, "") /\ "" \in Menu!Texts
      BY <1>4 DEF Menu!EditKey, Menu!Rows, Menu!Texts
    <2>2. /\ IsMenu(e) /\ e.focus = m.focus /\ e.field = ""
          /\ Elsewhere(m, e)
      BY ONLY <2>1, TypedIs, FormOK, IsMenu(m), m.focus <= Menu!N, Zenon
    <2> QED
      BY <1>4, <2>2 DEF Moves, Fills
  <1>5. CASE k = "Up"
    <2>1. e = [m EXCEPT !.editing = FALSE]
      BY <1>5 DEF Menu!EditKey, Menu!Rows
    <2>2. IsMenu(e) /\ Elsewhere(m, e) /\ e.focus = m.focus
      BY <1>0, <1>1, <2>1 DEF IsMenu, Elsewhere
    <2> QED
      BY <1>5, <2>2 DEF Moves, Fills
  <1>6. CASE k = "Enter" /\ Menu!Multi(m.focus)
    <2> DEFINE a == [m.ans EXCEPT ![m.focus] = Menu!SymDiff(m.ans[m.focus], {"3"})]
    <2>1. e = [m EXCEPT !.ans = a]
      BY <1>6 DEF Menu!EditKey, Menu!Rows
    <2>2. a \in [1..Menu!N -> SUBSET (Menu!Rows \cup {"3"})]
      BY <1>0, <1>1 DEF Menu!SymDiff
    <2>3. \A j \in 1..Menu!N : j # m.focus => a[j] = m.ans[j]
      BY <1>1
    <2> HIDE DEF a
    <2>4. e = [focus |-> m.focus, ans |-> a, free |-> m.free, field |-> m.field, editing |-> m.editing]
      BY <1>2, <2>1
    <2>5. IsMenu(e) /\ Elsewhere(m, e) /\ e.focus = m.focus
      BY <1>0, <1>1, <2>2, <2>3, <2>4 DEF IsMenu, Elsewhere
    <2> QED
      BY <1>6, <2>5 DEF Moves, Fills
  <1>7. CASE k = "Enter" /\ ~Menu!Multi(m.focus) /\ m.field # ""
    <2> DEFINE a == [m.ans EXCEPT ![m.focus] = {"3"}]
               f == [m.free EXCEPT ![m.focus] = m.field]
               g == IF Menu!Single THEN Menu!Gone ELSE m.focus + 1
    <2>1. e = [m EXCEPT !.free = f, !.ans = a, !.focus = g, !.editing = FALSE]
      BY <1>0, <1>7 DEF Menu!EditKey, Menu!Advance, Menu!Rows
    <2>2. a \in [1..Menu!N -> SUBSET (Menu!Rows \cup {"3"})] /\ f \in [1..Menu!N -> Menu!Texts]
      BY <1>0, <1>1
    <2>3. g \in 1..Menu!Gone
      BY <1>0
    <2>4. /\ \A j \in 1..Menu!N : j # m.focus => a[j] = m.ans[j] /\ f[j] = m.free[j]
          /\ a[m.focus] = {"3"} /\ f[m.focus] = m.field
      BY <1>0, <1>1
    <2> HIDE DEF a, f
    <2>6. e = [focus |-> g, ans |-> a, free |-> f, field |-> m.field, editing |-> FALSE]
      BY <1>2, <2>1
    <2>7. IsMenu(e) /\ e.focus = g /\ e.ans = a /\ e.free = f
      BY <1>1, <2>2, <2>3, <2>6 DEF IsMenu, Elsewhere
    <2>8. Elsewhere(m, e)
      BY <2>4, <2>7 DEF Elsewhere
    <2> QED
      BY <1>7, <2>4, <2>7, <2>8 DEF Moves, Fills, Leaves
  <1>8. CASE /\ k \notin Menu!Rows \cup {"3", "text"} /\ k # "Wipe" /\ k # "Up"
             /\ ~(k = "Enter" /\ Menu!Multi(m.focus))
             /\ ~(k = "Enter" /\ ~Menu!Multi(m.focus) /\ m.field # "")
    <2>1. e = m
      BY <1>8 DEF Menu!EditKey
    <2> QED
      BY <1>8, <2>1 DEF Elsewhere, Moves, Fills
  <1> QED
    BY <1>3, <1>4, <1>5, <1>6, <1>7, <1>8

\* Keys on a question change its answer at most; a row of one choice leaves it, and so does Right.
LEMMA QuestionIs ==
  ASSUME FormOK, NEW m, IsMenu(m), ~m.editing, m.focus <= Menu!N, NEW k, NEW e, e = Menu!QuestionKey(m, k)
  PROVE  IsMenu(e) /\ Elsewhere(m, e) /\ Moves(m, k, e) /\ Fills(m, k, e)
  <1>0. /\ Menu!N \in Nat \ {0} /\ Menu!Review = Menu!N + 1 /\ Menu!Gone = Menu!N + 2
        /\ m.focus \in 1..Menu!N /\ (Menu!Single => Menu!N = 1)
    BY FormIs DEF IsMenu
  <1>1. /\ m.ans \in [1..Menu!N -> SUBSET (Menu!Rows \cup {"3"})] /\ m.free \in [1..Menu!N -> Menu!Texts]
        /\ m.field \in Menu!Texts
    BY DEF IsMenu
  <1>2. m = [focus |-> m.focus, ans |-> m.ans, free |-> m.free, field |-> m.field, editing |-> m.editing]
    BY DEF IsMenu
  <1> DEFINE g == IF Menu!Single THEN Menu!Gone ELSE m.focus + 1
  <1>3. g \in 1..Menu!Gone
    BY <1>0
  <1>4. CASE k \in Menu!Rows \cup {"3"} /\ Menu!Multi(m.focus)
    <2> DEFINE a == [m.ans EXCEPT ![m.focus] = Menu!SymDiff(m.ans[m.focus], {k})]
    <2>1. e = [m EXCEPT !.ans = a]
      BY <1>4 DEF Menu!QuestionKey
    <2>2. a \in [1..Menu!N -> SUBSET (Menu!Rows \cup {"3"})]
      BY <1>0, <1>1, <1>4 DEF Menu!SymDiff
    <2>3. \A j \in 1..Menu!N : j # m.focus => a[j] = m.ans[j]
      BY <1>1
    <2> HIDE DEF a
    <2>4. e = [focus |-> m.focus, ans |-> a, free |-> m.free, field |-> m.field, editing |-> m.editing]
      BY <1>2, <2>1
    <2>5. IsMenu(e) /\ Elsewhere(m, e) /\ e.focus = m.focus
      BY <1>0, <1>1, <2>2, <2>3, <2>4 DEF IsMenu, Elsewhere
    <2> QED
      BY <1>4, <2>5 DEF Moves, Fills
  <1>5. ASSUME ~Menu!Multi(m.focus), NEW r \in Menu!Rows \cup {"3"}, k = r, r = "3" => m.free[m.focus] # "",
               e = Menu!Advance([m EXCEPT !.ans[m.focus] = {r}])
        PROVE  /\ IsMenu(e) /\ Elsewhere(m, e) /\ e.focus = g /\ e.ans[m.focus] = {r}
    <2> DEFINE a == [m.ans EXCEPT ![m.focus] = {r}]
    <2>1. e = [m EXCEPT !.ans = a, !.focus = g, !.editing = FALSE]
      BY <1>0, <1>5 DEF Menu!Advance
    <2>2. a \in [1..Menu!N -> SUBSET (Menu!Rows \cup {"3"})] /\ a[m.focus] = {r}
      BY <1>0, <1>1, <1>5
    <2>3. \A j \in 1..Menu!N : j # m.focus => a[j] = m.ans[j]
      BY <1>1
    <2> HIDE DEF a
    <2>4. e = [focus |-> g, ans |-> a, free |-> m.free, field |-> m.field, editing |-> FALSE]
      BY <1>2, <2>1
    <2> HIDE DEF g
    <2> QED
      BY <1>1, <1>3, <2>2, <2>3, <2>4 DEF IsMenu, Elsewhere
  <1>6. CASE ~Menu!Multi(m.focus) /\ k \in Menu!Rows
    <2>1. e = Menu!Advance([m EXCEPT !.ans[m.focus] = {k}]) /\ k # "3"
      BY <1>6 DEF Menu!QuestionKey, Menu!Rows
    <2>2. IsMenu(e) /\ Elsewhere(m, e) /\ e.focus = g /\ e.ans[m.focus] = {k}
      BY <1>5, <1>6, <2>1
    <2> QED
      BY <1>6, <2>1, <2>2 DEF Moves, Fills, Leaves
  <1>7. CASE ~Menu!Multi(m.focus) /\ k = "3" /\ m.free[m.focus] # ""
    <2>1. e = Menu!Advance([m EXCEPT !.ans[m.focus] = {"3"}])
      BY <1>7 DEF Menu!QuestionKey, Menu!Rows
    <2>2. IsMenu(e) /\ Elsewhere(m, e) /\ e.focus = g
      BY <1>5, <1>7, <2>1
    <2> QED
      BY <1>7, <2>2 DEF Moves, Fills, Leaves
  <1>13. ASSUME NEW z \in Menu!Texts, e = [m EXCEPT !.editing = TRUE, !.field = z]
         PROVE  IsMenu(e) /\ e.focus = m.focus /\ e.ans = m.ans /\ e.free = m.free /\ e.field = z
    <2>1. e = [focus |-> m.focus, ans |-> m.ans, free |-> m.free, field |-> z, editing |-> TRUE]
      BY <1>2, <1>13
    <2>2. m.focus # Menu!Review /\ m.focus \in 1..Menu!Gone
      BY <1>0
    <2> QED
      BY <1>1, <2>1, <2>2 DEF IsMenu
  <1>8. CASE ~Menu!Multi(m.focus) /\ k = "3" /\ m.free[m.focus] = ""
    <2>1. e = [m EXCEPT !.editing = TRUE, !.field = ""] /\ "" \in Menu!Texts
      BY <1>8 DEF Menu!QuestionKey, Menu!Rows, Menu!Texts
    <2>2. IsMenu(e) /\ e.focus = m.focus /\ e.ans = m.ans /\ e.free = m.free /\ e.field = ""
      BY <1>13, <2>1
    <2> QED
      BY <1>8, <2>2 DEF Moves, Fills, Elsewhere
  <1>9. CASE k = "Down"
    <2>1. e = [m EXCEPT !.editing = TRUE, !.field = m.free[m.focus]] /\ m.free[m.focus] \in Menu!Texts
      BY <1>0, <1>1, <1>9 DEF Menu!QuestionKey, Menu!Rows
    <2>2. IsMenu(e) /\ e.focus = m.focus /\ e.ans = m.ans /\ e.free = m.free
      BY <1>13, <2>1
    <2> QED
      BY <1>9, <2>2 DEF Moves, Fills, Elsewhere
  <1>10. CASE k = "Left" /\ m.focus > 1
    <2>1. e = [m EXCEPT !.focus = m.focus - 1]
      BY <1>10 DEF Menu!QuestionKey, Menu!Rows
    <2>2. e = [focus |-> m.focus - 1, ans |-> m.ans, free |-> m.free, field |-> m.field, editing |-> m.editing]
      BY <1>2, <2>1
    <2>3. IsMenu(e) /\ Elsewhere(m, e) /\ e.focus = m.focus - 1
      BY <1>0, <1>1, <1>10, <2>2 DEF IsMenu, Elsewhere
    <2> QED
      BY <1>10, <2>3 DEF Moves, Fills
  <1>11. CASE k = "Right" /\ ~Menu!Single
    <2>1. e = [m EXCEPT !.focus = m.focus + 1, !.editing = FALSE]
      BY <1>0, <1>11 DEF Menu!QuestionKey, Menu!Rows, Menu!Advance
    <2>2. e = [focus |-> m.focus + 1, ans |-> m.ans, free |-> m.free, field |-> m.field, editing |-> FALSE]
      BY <1>2, <2>1
    <2>3. m.focus + 1 \in 1..Menu!Gone /\ g = m.focus + 1
      BY <1>0, <1>11
    <2>4. IsMenu(e) /\ e.focus = g /\ e.ans = m.ans /\ e.free = m.free
      BY <1>1, <2>2, <2>3 DEF IsMenu
    <2> QED
      BY <1>11, <2>4 DEF Moves, Fills, Leaves, Elsewhere
  <1>12. CASE /\ k \notin Menu!Rows \cup {"3", "Down"} /\ ~(k = "Left" /\ m.focus > 1)
              /\ ~(k = "Right" /\ ~Menu!Single)
    <2>1. e = m
      BY <1>12 DEF Menu!QuestionKey
    <2> QED
      BY <1>12, <2>1 DEF Elsewhere, Moves, Fills
  <1> QED
    BY <1>4, <1>6, <1>7, <1>8, <1>9, <1>10, <1>11, <1>12

\* What a key does to the menu, wherever it stands.
LEMMA ApplyIs ==
  ASSUME FormOK, NEW m, IsMenu(m), NEW k, NEW e, e = Menu!Apply(m, k)
  PROVE  /\ IsMenu(e) /\ Elsewhere(m, e)
         /\ m.focus <= Menu!N /\ k # "Esc" => Moves(m, k, e) /\ Fills(m, k, e)
         /\ m.focus > Menu!N => Beyond(m, k, e)
  <1>0. /\ Menu!N \in Nat \ {0} /\ Menu!Review = Menu!N + 1 /\ Menu!Gone = Menu!N + 2
        /\ m.focus \in 1..Menu!Gone /\ m.ans \in [1..Menu!N -> SUBSET (Menu!Rows \cup {"3"})]
        /\ m.free \in [1..Menu!N -> Menu!Texts] /\ m.field \in Menu!Texts /\ m.editing \in BOOLEAN
    BY FormIs DEF IsMenu
  <1>1. m = [focus |-> m.focus, ans |-> m.ans, free |-> m.free, field |-> m.field, editing |-> m.editing]
    BY DEF IsMenu
  <1>2. CASE m.focus = Menu!Gone
    <2>1. e = m
      BY <1>2 DEF Menu!Apply
    <2> QED
      BY <1>0, <1>2, <2>1 DEF Elsewhere, Beyond
  <1>3. CASE m.focus # Menu!Gone /\ (k = "Esc" \/ (m.focus = Menu!Review /\ k = "1"))
    <2>1. e = [m EXCEPT !.focus = Menu!Gone]
      BY <1>3 DEF Menu!Apply
    <2>2. e = [focus |-> Menu!Gone, ans |-> m.ans, free |-> m.free, field |-> m.field, editing |-> m.editing]
      BY <1>1, <2>1
    <2>3. IsMenu(e) /\ Elsewhere(m, e)
      BY <1>0, <2>2 DEF IsMenu, Elsewhere
    <2> QED
      BY <1>0, <1>3, <2>2, <2>3 DEF Beyond
  <1>4. CASE m.focus = Menu!Review /\ k # "Esc" /\ k # "1"
    <2> PICK f \in {Menu!Review, Menu!N} : f = IF k = "Left" THEN Menu!N ELSE m.focus
      BY <1>4
    <2>1. e = [m EXCEPT !.focus = f]
      BY <1>0, <1>4 DEF Menu!Apply
    <2>2. e = [focus |-> f, ans |-> m.ans, free |-> m.free, field |-> m.field, editing |-> m.editing]
                 /\ ~m.editing
      BY <1>1, <1>4, <2>1 DEF IsMenu
    <2>3. IsMenu(e) /\ Elsewhere(m, e)
      BY <1>0, <2>2 DEF IsMenu, Elsewhere
    <2> QED
      BY <1>0, <1>4, <2>2, <2>3 DEF Beyond
  <1>5. CASE m.focus <= Menu!N /\ k # "Esc" /\ m.editing
    <2>1. e = Menu!EditKey(m, k)
      BY <1>0, <1>5 DEF Menu!Apply
    <2> QED
      BY <1>0, <1>5, <2>1, EditIs
  <1>6. CASE m.focus <= Menu!N /\ k # "Esc" /\ ~m.editing
    <2>1. e = Menu!QuestionKey(m, k)
      BY <1>0, <1>6 DEF Menu!Apply
    <2> QED
      BY <1>0, <1>6, <2>1, QuestionIs
  <1> QED
    BY <1>0, <1>2, <1>3, <1>4, <1>5, <1>6

\* An answer is of its question.
LEMMA RightIs ==
  ASSUME NEW m, NEW e, NEW picks, NEW j, e.ans[j] = m.ans[j], e.free[j] = m.free[j]
  PROVE  Right(e, picks, j) <=> Right(m, picks, j)
  BY DEF Right, Menu!Answer

\* A lawful key that ends the menu leaves the phone's answers in it.
LEMMA LawfulEnds ==
  ASSUME FormOK, NEW m, IsMenu(m), NEW k, NEW picks, Lawful(m, k, picks), NEW e, e = Menu!Apply(m, k),
         m.focus # Menu!Gone, e.focus = Menu!Gone
  PROVE  \A i \in 1..Menu!N : Right(e, picks, i)
  <1>0. /\ Menu!N \in Nat \ {0} /\ Menu!Review = Menu!N + 1 /\ Menu!Gone = Menu!N + 2
        /\ m.focus \in 1..Menu!Gone /\ (Menu!Single => Menu!N = 1) /\ k # "Esc"
    BY FormIs DEF IsMenu, Lawful
  <1>1. CASE m.focus <= Menu!N
    <2>1. Moves(m, k, e)
      BY <1>0, <1>1, ApplyIs
    <2>2. Menu!Single
      BY <1>0, <1>1, <2>1 DEF Moves
    <2>3. Right(e, picks, m.focus)
      BY <1>0, <1>1 DEF Lawful
    <2> QED
      BY <1>0, <1>1, <2>2, <2>3
  <1>2. CASE m.focus > Menu!N
    <2>1. Beyond(m, k, e)
      BY <1>2, ApplyIs
    <2>2. m.focus = Menu!Review /\ k = "1" /\ e.ans = m.ans /\ e.free = m.free
      BY <1>0, <1>2, <2>1 DEF Beyond
    <2>3. \A i \in 1..Menu!N : Right(m, picks, i)
      BY <2>2 DEF Lawful
    <2> QED
      BY <2>2, <2>3, RightIs
  <1> QED
    BY <1>0, <1>1, <1>2

\* A lawful key keeps what the menu is past right, and only Left goes back.
LEMMA LawfulKeeps ==
  ASSUME FormOK, NEW m, IsMenu(m), NEW k, NEW picks, Lawful(m, k, picks), NEW e, e = Menu!Apply(m, k),
         \A i \in 1..Menu!N : i < m.focus => Right(m, picks, i)
  PROVE  /\ \A i \in 1..Menu!N : i < e.focus => Right(e, picks, i)
         /\ k # "Left" => e.focus >= m.focus
  <1>0. /\ Menu!N \in Nat \ {0} /\ Menu!Review = Menu!N + 1 /\ Menu!Gone = Menu!N + 2
        /\ m.focus \in 1..Menu!Gone /\ (Menu!Single => Menu!N = 1) /\ k # "Esc"
    BY FormIs DEF IsMenu, Lawful
  <1>1. CASE m.focus <= Menu!N
    <2>1. Moves(m, k, e) /\ Elsewhere(m, e)
      BY <1>0, <1>1, ApplyIs
    <2>2. /\ e.focus = m.focus \/ (e.focus = m.focus - 1 /\ k = "Left") \/ e.focus = m.focus + 1
             \/ (e.focus = Menu!Gone /\ Menu!N = 1)
      BY <1>0, <2>1 DEF Moves
    <2>3. e.focus > m.focus => Right(e, picks, m.focus)
      BY <1>0, <1>1 DEF Lawful
    <2>4. \A i \in 1..Menu!N : i # m.focus => (Right(e, picks, i) <=> Right(m, picks, i))
      BY <2>1, RightIs DEF Elsewhere
    <2>5. ASSUME NEW i \in 1..Menu!N, i < e.focus PROVE Right(e, picks, i)
      BY <1>0, <1>1, <2>2, <2>3, <2>4, <2>5
    <2> QED
      BY <1>0, <2>2, <2>5
  <1>2. CASE m.focus > Menu!N
    <2>1. Beyond(m, k, e)
      BY <1>2, ApplyIs
    <2>2. \A i \in 1..Menu!N : Right(e, picks, i)
      BY <1>0, <1>2, <2>1, RightIs DEF Beyond
    <2> QED
      BY <1>0, <2>1, <2>2 DEF Beyond
  <1> QED
    BY <1>0, <1>1, <1>2

\* What the walk sees of a menu.
LEMMA PageIs ==
  ASSUME FormOK, NEW m, IsMenu(m), NEW p, p = Menu!Page(m)
  PROVE  /\ IsPage(p) /\ (m.focus = Menu!Gone => p.focus = 0 /\ p = Menu!NoPage)
         /\ m.focus # Menu!Gone =>
              /\ p.focus = m.focus /\ p.editing = m.editing
              /\ m.focus <= Menu!N => p.row = IF m.editing /\ m.field # "" THEN m.field ELSE m.free[m.focus]
              /\ m.focus <= Menu!N /\ Menu!Multi(m.focus) => p.checked = m.ans[m.focus]
              /\ m.focus = Menu!Review => \A i \in 1..Menu!N : p.review[i] = Menu!Answer(m, i)
  <1>0. /\ Menu!N \in Nat \ {0} /\ Menu!Review = Menu!N + 1 /\ Menu!Gone = Menu!N + 2
        /\ m.focus \in 1..Menu!Gone
    BY FormIs DEF IsMenu
  <1>1. CASE m.focus = Menu!Gone
    BY <1>1 DEF Menu!Page, Menu!NoPage, IsPage
  <1>2. CASE m.focus # Menu!Gone
    <2> DEFINE checked == IF m.focus <= Menu!N /\ Menu!Multi(m.focus) THEN m.ans[m.focus] ELSE {}
               row == IF m.focus > Menu!N THEN ""
                      ELSE IF m.editing /\ m.field # "" THEN m.field ELSE m.free[m.focus]
               review == IF m.focus = Menu!Review THEN [i \in 1..Menu!N |-> Menu!Answer(m, i)] ELSE <<>>
               answered == {i \in 1..Menu!N : m.ans[i] # {}}
    <2>1. p = [focus |-> m.focus, answered |-> answered, checked |-> checked, row |-> row,
               editing |-> m.editing, review |-> review]
      BY <1>2 DEF Menu!Page
    <2>2. m.focus <= Menu!N => row = IF m.editing /\ m.field # "" THEN m.field ELSE m.free[m.focus]
      <3>1. m.focus <= Menu!N => ~(m.focus > Menu!N)
        BY <1>0
      <3> QED
        BY <3>1, Zenon
    <2>5. m.focus <= Menu!N /\ Menu!Multi(m.focus) => checked = m.ans[m.focus]
      BY Zenon
    <2>4. m.focus = Menu!Review => \A i \in 1..Menu!N : review[i] = Menu!Answer(m, i)
      BY Zenon
    <2> HIDE DEF checked, row, review, answered
    <2>3. IsPage(p) /\ p.focus = m.focus /\ p.editing = m.editing /\ p.row = row /\ p.checked = checked
             /\ p.review = review
      BY <2>1 DEF IsPage
    <2> QED
      BY <1>2, <2>2, <2>3, <2>4, <2>5
  <1> QED
    BY <1>1, <1>2

\* A pick, by its fields.
LEMMA PickHas == ASSUME NEW p, NEW r, NEW t, p = [rows |-> r, text |-> t] PROVE p.rows = r /\ p.text = t
  OBVIOUS

\* What the phone may have picked.
LEMMA PickIs ==
  ASSUME MenuShape, NEW i \in 1..Menu!N, NEW p, p = answers[i]
  PROVE  /\ ~Menu!Multi(i) => \/ p.text = "" /\ \E r \in Menu!Rows : p.rows = {r}
                              \/ p.rows = {} /\ p.text = "text"
         /\ Menu!Multi(i) => \/ p.rows = {"1"} /\ p.text = ""
                             \/ p.rows = {"2"} /\ p.text = "text"
  <1>1. p \in Menu!Pick(form[i])
    BY DEF MenuShape, Menu!Picks
  <1>2. form[i] \in {"pick", "multi"}
    BY DEF MenuShape, FormOK, Menu!N
  <1>3. CASE Menu!Multi(i)
    <2>1. p \in {[rows |-> {"1"}, text |-> ""], [rows |-> {"2"}, text |-> "text"]}
      BY <1>1, <1>3 DEF Menu!Pick, Menu!Multi
    <2>2. CASE p = [rows |-> {"1"}, text |-> ""]
      <3>1. p.rows = {"1"} /\ p.text = ""
        BY ONLY <2>2, PickHas, Zenon
      <3> QED
        BY <1>3, <3>1
    <2>3. CASE p = [rows |-> {"2"}, text |-> "text"]
      <3>1. p.rows = {"2"} /\ p.text = "text"
        BY ONLY <2>3, PickHas, Zenon
      <3> QED
        BY <1>3, <3>1
    <2> QED
      BY <2>1, <2>2, <2>3
  <1>4. CASE ~Menu!Multi(i)
    <2>1. p \in {[rows |-> {r}, text |-> ""] : r \in Menu!Rows} \cup {[rows |-> {}, text |-> "text"]}
      BY <1>1, <1>2, <1>4 DEF Menu!Pick, Menu!Multi
    <2>2. ASSUME NEW r \in Menu!Rows, p = [rows |-> {r}, text |-> ""]
          PROVE  p.text = "" /\ p.rows = {r}
      BY ONLY <2>2, PickHas, Zenon
    <2>3. p = [rows |-> {}, text |-> "text"] => p.rows = {} /\ p.text = "text"
      BY ONLY PickHas, Zenon
    <2> QED
      BY <1>4, <2>1, <2>2, <2>3
  <1> QED
    BY <1>3, <1>4

\* A key that leaves no question, and does not submit, is lawful anywhere.
LEMMA StaysLawful ==
  ASSUME FormOK, NEW m, IsMenu(m), NEW k, k \notin {"Esc", "1"}, NEW picks,
         m.focus <= Menu!N => ~Leaves(m, k, Menu!Apply(m, k))
  PROVE  Lawful(m, k, picks)
  <1>0. /\ Menu!N \in Nat \ {0} /\ Menu!Review = Menu!N + 1 /\ Menu!Gone = Menu!N + 2
        /\ m.focus \in 1..Menu!Gone
    BY FormIs DEF IsMenu
  <1>1. m.focus <= Menu!N => ~(Menu!Apply(m, k).focus > m.focus)
    <2> SUFFICES ASSUME m.focus <= Menu!N PROVE ~(Menu!Apply(m, k).focus > m.focus)
      OBVIOUS
    <2>1. Moves(m, k, Menu!Apply(m, k))
      BY ApplyIs
    <2> QED
      BY <1>0, <2>1 DEF Moves
  <1> QED
    BY <1>1 DEF Lawful

\* A key of the walk on a question that is left behind by it.
LEMMA AnswerLawful ==
  ASSUME FormOK, NEW m, IsMenu(m), m.focus <= Menu!N, NEW k, k # "Esc", NEW picks,
         Leaves(m, k, Menu!Apply(m, k)) => Right(Menu!Apply(m, k), picks, m.focus)
  PROVE  Lawful(m, k, picks)
  <1>0. /\ Menu!N \in Nat \ {0} /\ Menu!Review = Menu!N + 1 /\ Menu!Gone = Menu!N + 2 /\ m.focus \in 1..Menu!N
    BY FormIs DEF IsMenu
  <1>1. Moves(m, k, Menu!Apply(m, k))
    BY ApplyIs
  <1>2. Menu!Apply(m, k).focus > m.focus => Leaves(m, k, Menu!Apply(m, k))
    BY <1>0, <1>1 DEF Moves
  <1> QED
    BY <1>0, <1>2 DEF Lawful

\* The question the walk looks at, and what it looks like.
LEMMA LooksAt ==
  ASSUME MenuShape, menu.focus = walk.i, walk.i \in 1..Menu!N
  PROVE  /\ menu.focus <= Menu!N /\ menu.focus # Menu!Gone /\ menu.focus \in 1..Menu!N
         /\ Menu!Now.focus = walk.i /\ Menu!Now.editing = menu.editing
         /\ Menu!Now.row = IF menu.editing /\ menu.field # "" THEN menu.field ELSE menu.free[walk.i]
         /\ Menu!Multi(walk.i) => Menu!Now.checked = menu.ans[walk.i]
         /\ menu.ans[walk.i] \subseteq Menu!Rows \cup {"3"} /\ menu.free[walk.i] \in Menu!Texts
  <1>1. FormOK /\ IsMenu(menu) /\ Menu!N \in Nat /\ Menu!Gone = Menu!N + 2
    BY FormIs DEF MenuShape
  <1>2. menu.focus <= Menu!N /\ menu.focus # Menu!Gone
    BY <1>1
  <1>3. menu.ans[walk.i] \subseteq Menu!Rows \cup {"3"} /\ menu.free[walk.i] \in Menu!Texts
    BY <1>1 DEF IsMenu
  <1>4. /\ Menu!Now.focus = menu.focus /\ Menu!Now.editing = menu.editing
        /\ Menu!Now.row = IF menu.editing /\ menu.field # "" THEN menu.field ELSE menu.free[menu.focus]
        /\ Menu!Multi(menu.focus) => Menu!Now.checked = menu.ans[menu.focus]
    BY <1>1, <1>2, PageIs DEF Menu!Now
  <1> QED
    BY <1>2, <1>3, <1>4

\* The selection of an option.
LEMMA PressLawful ==
  ASSUME MenuShape, AtQuestion, Saw, walk.pc = "press", NEW r \in Menu!MyPick.rows
  PROVE  Lawful(menu, r, answers)
  <1> DEFINE e == Menu!Apply(menu, r)
  <1>1. walk.i \in 1..Menu!N /\ ~Menu!Multi(walk.i) /\ menu.focus = walk.i /\ ~menu.editing
    BY DEF AtQuestion, QuestionAt, Saw, SawAt, Menu!WalkSteps, Menu!MyPick
  <1>2. Menu!MyPick.text = "" /\ Menu!MyPick.rows = {r} /\ r \in Menu!Rows
    <2>1. Menu!MyPick.text = "" /\ \E q \in Menu!Rows : Menu!MyPick.rows = {q}
      BY <1>1, PickIs DEF Menu!MyPick
    <2> PICK q \in Menu!Rows : Menu!MyPick.rows = {q}
      BY <2>1, Zenon
    <2>2. q = r
      OBVIOUS
    <2> QED
      BY <2>1, <2>2
  <1>3. r # "Esc" /\ r # "3" /\ r # "Right"
    BY <1>2 DEF Menu!Rows
  <1>4. FormOK /\ IsMenu(menu) /\ menu.focus <= Menu!N
    BY <1>1, LooksAt DEF MenuShape
  <1>5. ASSUME Leaves(menu, r, e) PROVE Right(e, answers, menu.focus)
    <2>1. e.ans[menu.focus] = {r}
      BY <1>1, <1>3, <1>5 DEF Leaves
    <2> HIDE DEF e
    <2>2. Menu!Answer(e, menu.focus) = {r}
      BY <1>2, <1>3, <2>1 DEF Menu!Answer, Menu!Label
    <2>3. Menu!Want(answers, menu.focus) = {r}
      BY <1>1, <1>2 DEF Menu!Want, Menu!Label, Menu!MyPick
    <2> QED
      BY <2>2, <2>3 DEF Right
  <1> QED
    BY <1>3, <1>4, <1>5, AnswerLawful

\* The opening of the free text: a fresh row by its digit, one that holds text by going there.
LEMMA OpenLawful ==
  ASSUME MenuShape, AtQuestion, Saw, walk.pc = "press"
  PROVE  /\ walk.exp.row = "" => Lawful(menu, "3", answers) /\ Menu!Apply(menu, "3").field = ""
         /\ Lawful(menu, "Down", answers)
  <1>1. walk.i \in 1..Menu!N /\ ~Menu!Multi(walk.i) /\ menu.focus = walk.i /\ ~menu.editing
               /\ walk.exp = Menu!Now
    BY DEF AtQuestion, QuestionAt, Saw, SawAt, Menu!WalkSteps, Menu!MyPick
  <1>2. FormOK /\ IsMenu(menu) /\ menu.focus <= Menu!N
    BY <1>1, LooksAt DEF MenuShape
  <1>3. "3" \notin Menu!Rows /\ "Down" \notin Menu!Rows
    BY DEF Menu!Rows
  <1>4. walk.exp.row = "" => menu.free[menu.focus] = ""
    BY <1>1, LooksAt
  <1>5. ~Leaves(menu, "Down", Menu!Apply(menu, "Down"))
    BY <1>1, <1>3 DEF Leaves
  <1>6. walk.exp.row = "" => ~Leaves(menu, "3", Menu!Apply(menu, "3"))
    BY <1>1, <1>3, <1>4 DEF Leaves
  <1>7. walk.exp.row = "" => Menu!Apply(menu, "3").field = ""
    BY <1>1, <1>2, <1>4, ApplyIs DEF Fills
  <1>8. Lawful(menu, "Down", answers)
    BY <1>2, <1>5, StaysLawful
  <1>9. walk.exp.row = "" => Lawful(menu, "3", answers)
    BY <1>2, <1>6, StaysLawful
  <1> QED
    BY <1>7, <1>8, <1>9

\* The text is wiped and typed.
LEMMA TypeLawful ==
  ASSUME MenuShape, AtQuestion, Saw
  PROVE  /\ walk.pc = "wipe" => Lawful(menu, "Wipe", answers) /\ Menu!Apply(menu, "Wipe").field = ""
         /\ walk.pc = "type" => /\ Menu!MyPick.text = "text" /\ Lawful(menu, "text", answers)
                                /\ menu.field = "" => Menu!Apply(menu, "text").field = "text"
  <1> SUFFICES ASSUME walk.pc \in {"wipe", "type"}
               PROVE  /\ Menu!MyPick.text = "text" /\ Lawful(menu, "text", answers)
                            /\ Lawful(menu, "Wipe", answers)
                      /\ Menu!Apply(menu, "Wipe").field = ""
                      /\ menu.field = "" => Menu!Apply(menu, "text").field = "text"
    OBVIOUS
  <1>1. /\ walk.i \in 1..Menu!N /\ ~Menu!Multi(walk.i) /\ menu.focus = walk.i /\ menu.editing
        /\ Menu!MyPick.rows = {}
    BY DEF AtQuestion, QuestionAt, Saw, SawAt, Menu!WalkSteps, Menu!MyPick
  <1>2. FormOK /\ IsMenu(menu) /\ menu.focus <= Menu!N
    BY <1>1, LooksAt DEF MenuShape
  <1>3. Menu!MyPick.text = "text"
    BY <1>1, PickIs DEF Menu!MyPick
  <1>4. ~Leaves(menu, "text", Menu!Apply(menu, "text")) /\ ~Leaves(menu, "Wipe", Menu!Apply(menu, "Wipe"))
    BY <1>1 DEF Leaves
  <1>5. Lawful(menu, "text", answers) /\ Lawful(menu, "Wipe", answers)
    BY <1>2, <1>4, StaysLawful
  <1>6. Fills(menu, "Wipe", Menu!Apply(menu, "Wipe")) /\ Fills(menu, "text", Menu!Apply(menu, "text"))
    BY <1>2, ApplyIs
  <1> QED
    BY <1>1, <1>3, <1>5, <1>6 DEF Fills

\* The text that is shown is entered.
LEMMA EnterLawful ==
  ASSUME MenuShape, AtQuestion, Saw, walk.pc = "enter"
  PROVE  Lawful(menu, "Enter", answers)
  <1> DEFINE e == Menu!Apply(menu, "Enter")
  <1>1. /\ walk.i \in 1..Menu!N /\ ~Menu!Multi(walk.i) /\ menu.focus = walk.i /\ menu.editing
        /\ Menu!MyPick.rows = {} /\ Menu!Now.row = Menu!MyPick.text
    BY DEF AtQuestion, QuestionAt, Saw, SawAt, Menu!WalkSteps, Menu!MyPick
  <1>2. FormOK /\ IsMenu(menu) /\ menu.focus <= Menu!N
    BY <1>1, LooksAt DEF MenuShape
  <1>3. ASSUME Leaves(menu, "Enter", e) PROVE Right(e, answers, menu.focus)
    <2>1. e.ans[menu.focus] = {"3"} /\ e.free[menu.focus] = menu.field /\ menu.field # ""
      BY <1>1, <1>3 DEF Leaves
    <2>2. menu.field = Menu!MyPick.text
      BY <1>1, <2>1, LooksAt
    <2> HIDE DEF e
    <2>3. Menu!Answer(e, menu.focus) = {menu.field}
      BY <2>1 DEF Menu!Answer, Menu!Label, Menu!Rows
    <2>4. Menu!Want(answers, menu.focus) = {menu.field}
      BY <1>1, <2>1, <2>2 DEF Menu!Want, Menu!Label, Menu!MyPick
    <2> QED
      BY <2>3, <2>4 DEF Right
  <1> QED
    BY <1>2, <1>3, AnswerLawful

\* A multi-select is left when it holds the phone's answer.
LEMMA MultiLawful ==
  ASSUME MenuShape, AtQuestion, Saw, walk.pc = "multiKey", NEW k, k = Menu!Next1(walk.exp, Menu!MyPick)
  PROVE  /\ Lawful(menu, k, answers) /\ k \in KeyNames /\ k # "Left" /\ walk.i \in 1..Menu!N
         /\ menu.focus = walk.i /\ (k = "Right" => ~menu.editing)
  <1> DEFINE e == Menu!Apply(menu, k)
             pick == Menu!MyPick
             seen == Menu!Now
  <1>1. walk.i \in 1..Menu!N /\ Menu!Multi(walk.i) /\ walk.exp = seen /\ seen.focus = walk.i
    BY DEF AtQuestion, QuestionAt, Saw, SawAt, Menu!WalkSteps, Menu!MyPick
  <1>2. menu.focus = walk.i
    <2>1. FormOK /\ IsMenu(menu) /\ Menu!N \in Nat
      BY FormIs DEF MenuShape
    <2>2. (menu.focus = Menu!Gone => seen.focus = 0) /\ (menu.focus # Menu!Gone => seen.focus = menu.focus)
      BY <2>1, PageIs DEF Menu!Now
    <2> QED
      BY <1>1, <2>1, <2>2
  <1>3. /\ FormOK /\ IsMenu(menu) /\ menu.focus <= Menu!N /\ seen.editing = menu.editing
        /\ seen.row = IF menu.editing /\ menu.field # "" THEN menu.field ELSE menu.free[walk.i]
        /\ seen.checked = menu.ans[walk.i] /\ menu.ans[walk.i] \subseteq Menu!Rows \cup {"3"}
    BY <1>1, <1>2, LooksAt DEF MenuShape
  <1>4. (pick.rows = {"1"} /\ pick.text = "") \/ (pick.rows = {"2"} /\ pick.text = "text")
    BY <1>1, PickIs DEF Menu!MyPick
  <1> DEFINE wrong == {r \in Menu!Rows : (r \in seen.checked) # (r \in pick.rows)}
             retype == pick.text # "" /\ seen.row # pick.text
             edit == IF seen.row = pick.text THEN "Up" ELSE IF seen.row # "" THEN "Wipe" ELSE pick.text
             rest == IF "1" \in wrong THEN "1" ELSE IF "2" \in wrong THEN "2"
                     ELSE IF ~retype /\ ("3" \in seen.checked) # (pick.text # "") THEN "3"
                     ELSE IF retype THEN "Down" ELSE "Right"
  <1>5. k = IF seen.editing THEN edit ELSE rest
    BY <1>1, Zenon DEF Menu!Next1
  <1> HIDE DEF pick, seen
  <1>6. edit \in {"Up", "Wipe", "text"}
    BY <1>4
  <1>7. rest \in {"1", "2", "3", "Down", "Right"}
    OBVIOUS
  <1>8. rest = "Right" => /\ "1" \notin wrong /\ "2" \notin wrong /\ ~retype
                          /\ ("3" \in seen.checked) = (pick.text # "")
    OBVIOUS
  <1> HIDE DEF edit, rest
  <1>9. k \in {"Up", "Wipe", "text", "1", "2", "3", "Down", "Right"}
               /\ (k = "Right" => ~menu.editing /\ rest = "Right")
    BY <1>3, <1>5, <1>6, <1>7
  <1>10. ASSUME Leaves(menu, k, e) PROVE Right(e, answers, menu.focus)
    <2>1. k = "Right" /\ ~menu.editing /\ e.ans = menu.ans /\ e.free = menu.free
      BY <1>1, <1>2, <1>10 DEF Leaves
    <2> HIDE DEF e
    <2>2. "1" \notin wrong /\ "2" \notin wrong /\ ~retype /\ ("3" \in seen.checked) = (pick.text # "")
      BY <1>8, <1>9, <2>1
    <2>3. \A r \in Menu!Rows : r \in menu.ans[walk.i] <=> r \in pick.rows
      BY <1>3, <2>2 DEF Menu!Rows
    <2>4. menu.ans[walk.i] \cap Menu!Rows = pick.rows \cap Menu!Rows
      BY <2>3
    <2>5. seen.row = menu.free[walk.i]
      BY <1>3, <2>1
    <2>6. (IF "3" \in menu.ans[walk.i] THEN menu.free[walk.i] ELSE "") = pick.text
      BY <1>3, <2>2, <2>5
    <2>7. Menu!Answer(e, walk.i) = Menu!Label(pick.rows, pick.text)
      BY <2>1, <2>4, <2>6 DEF Menu!Answer, Menu!Label
    <2> QED
      BY <1>2, <2>7 DEF Right, Menu!Want, pick, Menu!MyPick
  <1>11. k # "Esc" /\ k # "Left" /\ k \in KeyNames
    BY <1>9 DEF KeyNames
  <1> HIDE DEF e, wrong, retype
  <1>12. Lawful(menu, k, answers)
    BY <1>3, <1>10, <1>11, AnswerLawful DEF e
  <1> QED
    BY <1>1, <1>2, <1>9, <1>11, <1>12

\* What is submitted is the review that was seen to match, and going back submits nothing.
LEMMA SubmitLawful ==
  ASSUME MenuShape
  PROVE  /\ walk.pc = "submit" /\ Saw => Lawful(menu, "1", answers)
         /\ Lawful(menu, "Left", answers)
  <1>1. FormOK /\ IsMenu(menu) /\ Menu!N \in Nat /\ Menu!Review = Menu!N + 1
    BY FormIs DEF MenuShape
  <1>2. ASSUME walk.pc = "submit", Saw PROVE Lawful(menu, "1", answers)
    <2>1. menu.focus = Menu!Review /\ \A i \in 1..Menu!N : Right(menu, answers, i)
      BY <1>2 DEF Saw, SawAt
    <2> QED
      BY <1>1, <2>1 DEF Lawful
  <1>3. ~Leaves(menu, "Left", Menu!Apply(menu, "Left"))
    BY DEF Leaves, Menu!Rows
  <1>4. Lawful(menu, "Left", answers)
    BY <1>1, <1>3, StaysLawful
  <1> QED
    BY <1>2, <1>4

\* The form stays, so that what is said of a menu stays said of it.
LEMMA FormStays ==
  ASSUME form' = form, NEW m, NEW k, NEW picks, NEW i
  PROVE  /\ IsMenu(m)' <=> IsMenu(m)
         /\ Menu!Apply(m, k)' = Menu!Apply(m, k)
         /\ Right(m, picks, i)' <=> Right(m, picks, i)
         /\ Lawful(m, k, picks)' <=> Lawful(m, k, picks)
  <1>1. IsMenu(m)' <=> IsMenu(m)
    BY DEF IsMenu, Menu!Gone, Menu!N, Menu!Review, Menu!Rows, Menu!Texts
  <1>2. Menu!Apply(m, k)' = Menu!Apply(m, k)
    BY DEF Menu!Apply, Menu!EditKey, Menu!QuestionKey, Menu!Typed, Menu!Advance, Menu!Multi, Menu!Single,
           Menu!Gone, Menu!Review, Menu!N, Menu!Rows
  <1>3. Right(m, picks, i)' <=> Right(m, picks, i)
    BY DEF Right, Menu!Answer, Menu!Want, Menu!Label, Menu!Rows
  <1>4. Lawful(m, k, picks)' <=> Lawful(m, k, picks)
    BY <1>2 DEF Lawful, Right, Menu!Answer, Menu!Want, Menu!Label, Menu!Rows, Menu!N, Menu!Review
  <1> QED
    BY <1>1, <1>2, <1>3, <1>4

\* What the form alone decides.
LEMMA FormKeeps ==
  ASSUME form' = form
  PROVE  /\ Menu!N' = Menu!N /\ Menu!Review' = Menu!Review /\ Menu!Gone' = Menu!Gone
               /\ Menu!Picks' = Menu!Picks
         /\ WireKeys' = WireKeys /\ Menu!Rows' = Menu!Rows
         /\ \A i : Menu!Multi(i)' <=> Menu!Multi(i)
         /\ \A w : IsWalk(w)' <=> IsWalk(w)
         /\ \A picks, i : Menu!Want(picks, i)' = Menu!Want(picks, i)
  BY DEF Menu!N, Menu!Review, Menu!Gone, Menu!Picks, Menu!Pick, Menu!Rows, WireKeys, KeyNames,
         Menu!Multi, IsWalk, Menu!WalkSteps, IsPage, Menu!Want, Menu!Label

\* The shape of the state, next.
LEMMA ShapeKeeps ==
  ASSUME MenuShape, UNCHANGED <<form, calm>>, answers' \in Menu!Picks, walks' \in 0..MaxWalks,
         keys' \in 0..MaxKeys,
         cuts' \in 0..MaxCuts, IsMenu(menu'), wire' \in Seq(WireKeys), calm => wire' = <<>>, IsWalk(walk'),
         done' \in 0..Menu!N
  PROVE  MenuShape'
  <1>1. IsMenu(menu)' /\ IsWalk(walk)'
    BY FormKeeps, FormStays
  <1>2. wire' \in Seq(WireKeys')
    BY FormKeeps
  <1>3. answers' \in Menu!Picks' /\ done' \in 0..Menu!N'
    BY FormKeeps
  <1>4. (form \in Forms /\ FormOK /\ calm \in BOOLEAN)'
    BY DEF MenuShape, FormOK
  <1>5. (calm => wire = <<>>)'
    OBVIOUS
  <1> QED
    BY <1>1, <1>2, <1>3, <1>4, <1>5 DEF MenuShape

\* A step of the walk alone: the menu stays as it is, and so do the keys on their way.
LEMMA Walks ==
  ASSUME MenuInv, UNCHANGED <<form, calm, menu, wire, answers, final, walks, keys>>,
         cuts' \in 0..MaxCuts, done' \in 0..Menu!N, NEW w, walk' = w, IsWalk(w), QuestionAt(w),
         w.sure /\ wire = <<>> => SawAt(w), calm => CalmAt(menu, w, done')
  PROVE  MenuInv'
  <1> USE FormKeeps, FormStays
  <1>1. MenuShape'
    BY ShapeKeeps DEF MenuInv, MenuShape
  <1>2. AtQuestion'
    BY DEF AtQuestion, QuestionAt, Menu!WalkSteps
  <1>3. Menu!Now' = Menu!Now
    BY DEF Menu!Now, Menu!Page, Menu!NoPage, Menu!Answer, Menu!Label
  <1>5. (walk.sure /\ wire = <<>> => Saw)'
    BY <1>3 DEF Saw, SawAt, Right, Menu!Answer, Menu!Want, Menu!Label
  <1>6. WireSure'
    BY DEF MenuInv, WireSure
  <1>7. (calm => Calm)'
    BY DEF Calm, CalmAt, FieldAt, Right, Menu!Answer, Menu!Want, Menu!Label
  <1>8. Menu!SubmitsOnlyPicks'
    BY DEF MenuInv, Menu!SubmitsOnlyPicks, Menu!Want, Menu!Label
  <1> QED
    BY <1>1, <1>2, <1>5, <1>6, <1>7, <1>8 DEF MenuInv

\* What the history says of the key that ends the menu.
LEMMA EndsRight ==
  ASSUME FormOK, IsMenu(menu), form' = form, Menu!SubmitsOnlyPicks, NEW k, NEW e,
         e.by = "walk" /\ e.sure => Lawful(menu, k, e.picks), menu' = Menu!Apply(menu, k),
         Menu!Ending(e, menu')
  PROVE  Menu!SubmitsOnlyPicks'
  <1>1. CASE final' = final
    BY <1>1, FormKeeps DEF Menu!SubmitsOnlyPicks, Menu!Want, Menu!Label
  <1>2. CASE menu.focus # Menu!Gone /\ menu'.focus = Menu!Gone
    <2> DEFINE a == [i \in 1..Menu!N |-> Menu!Answer(menu', i)]
               h == [by |-> e.by, picks |-> e.picks, sure |-> e.sure, ans |-> a]
    <2>1. final' = <<h>>
      BY <1>2 DEF Menu!Ending
    <2>2. e.by = "walk" /\ e.sure => \A i \in 1..Menu!N : Right(menu', e.picks, i)
      <3> SUFFICES ASSUME e.by = "walk", e.sure PROVE \A i \in 1..Menu!N : Right(menu', e.picks, i)
        OBVIOUS
      <3>1. Lawful(menu, k, e.picks)
        OBVIOUS
      <3> QED
        BY <1>2, <3>1, LawfulEnds
    <2>3. h.by = e.by /\ h.picks = e.picks /\ h.sure = e.sure /\ h.ans = a
      OBVIOUS
    <2>4. \A i \in 1..Menu!N : a[i] = Menu!Answer(menu', i)
      OBVIOUS
    <2> HIDE DEF h, a
    <2>5. final'[1] = h
      BY <2>1
    <2>6. Menu!N' = Menu!N /\ \A picks, i : Menu!Want(picks, i)' = Menu!Want(picks, i)
      BY FormKeeps
    <2>7. h.by = "walk" /\ h.sure => \A i \in 1..Menu!N : h.ans[i] = Menu!Want(h.picks, i)
      BY <2>2, <2>3, <2>4 DEF Right
    <2> QED
      BY <2>5, <2>6, <2>7 DEF Menu!SubmitsOnlyPicks
  <1> QED
    BY <1>1, <1>2 DEF Menu!Ending

\* The steps at which the walk waits for what it sent.
Waits == {"wait", "clear", "open", "reach", "shown", "multiWait", "leftWait"}

\* A key that is sent: alone with the menu it lands at once, otherwise it is on its way.
LEMMA SendKeeps ==
  ASSUME MenuInv, UNCHANGED <<form, calm, answers, walks, keys, cuts>>, done' \in 0..Menu!N,
         NEW k \in KeyNames, NEW w, Menu!Send(k, w), IsWalk(w), QuestionAt(w), w.pc \in Waits,
         walk.sure /\ wire = <<>> => Lawful(menu, k, answers), calm => CalmAt(Menu!Apply(menu, k), w, done')
  PROVE  MenuInv'
  <1>0. FormOK /\ IsMenu(menu) /\ MenuShape /\ answers \in Menu!Picks
    BY DEF MenuInv, MenuShape
  <1>1. walk' = w
    BY DEF Menu!Send
  <1>2. AtQuestion'
    BY <1>1, FormKeeps DEF AtQuestion, QuestionAt, Menu!WalkSteps
  <1>3. ~Saw' => FALSE
    BY <1>1 DEF Saw, SawAt, Waits
  <1>4. Menu!Entry(k) \in WireKeys /\ Menu!Entry(k).by = "walk" /\ Menu!Entry(k).picks = answers
           /\ Menu!Entry(k).key = k /\ (Menu!Entry(k).sure <=> walk.sure /\ wire = <<>>)
    BY <1>0 DEF Menu!Entry, WireKeys, MenuShape, IsWalk
  <1>5. CASE calm
    <2>1. /\ menu' = Menu!Apply(menu, k) /\ Menu!Ending(Menu!Entry(k), menu') /\ wire' = wire
          /\ wire = <<>> /\ calm'
      BY <1>0, <1>5 DEF Menu!Send, MenuShape
    <2>2. IsMenu(menu')
      BY <1>0, <2>1, ApplyIs
    <2>3. MenuShape'
      BY <1>0, <1>1, <2>1, <2>2, ShapeKeeps DEF MenuShape
    <2>4. WireSure'
      BY <2>1 DEF WireSure
    <2>5. CalmAt(menu', w, done')
      BY <1>5, <2>1
    <2>6. Calm'
      BY <1>1, <2>5, FormKeeps, FormStays DEF Calm, CalmAt, FieldAt
    <2>7. Menu!SubmitsOnlyPicks'
      <3>1. Menu!SubmitsOnlyPicks
        BY DEF MenuInv
      <3>2. Menu!Entry(k).by = "walk" /\ Menu!Entry(k).sure => Lawful(menu, k, Menu!Entry(k).picks)
        BY <1>4
      <3> QED
        BY <1>0, <2>1, <3>1, <3>2, EndsRight
    <2> QED
      BY <1>2, <1>3, <2>3, <2>4, <2>6, <2>7 DEF MenuInv
  <1>6. CASE ~calm
    <2>1. wire' = Append(wire, Menu!Entry(k)) /\ menu' = menu /\ final' = final /\ calm' = calm
      BY <1>6 DEF Menu!Send
    <2>2. wire \in Seq(WireKeys)
      BY <1>0 DEF MenuShape
    <2>3. wire' \in Seq(WireKeys)
      BY <1>4, <2>1, <2>2
    <2>4. MenuShape'
      BY <1>0, <1>1, <1>6, <2>1, <2>3, ShapeKeeps DEF MenuShape
    <2>5. WireSure'
      <3> SUFFICES ASSUME NEW j \in DOMAIN wire', wire'[j].sure
                   PROVE  j = 1 /\ wire'[j].by = "walk" /\ Lawful(menu, wire'[j].key, wire'[j].picks)
        BY <2>1, FormStays DEF WireSure
      <3>1. CASE j = Len(wire) + 1
        <4>1. wire'[j] = Menu!Entry(k)
          BY <2>1, <2>2, <3>1
        <4>2. wire = <<>> /\ walk.sure
          BY <1>4, <4>1
        <4>3. j = 1
          BY <3>1, <4>2
        <4> QED
          BY <1>4, <4>1, <4>2, <4>3
      <3>2. CASE j # Len(wire) + 1
        <4>1. j \in DOMAIN wire /\ wire'[j] = wire[j]
          BY <2>1, <2>2, <3>2
        <4> QED
          BY <4>1 DEF MenuInv, WireSure
      <3> QED
        BY <3>1, <3>2
    <2>6. Menu!SubmitsOnlyPicks'
      BY <2>1, FormKeeps DEF MenuInv, Menu!SubmitsOnlyPicks
    <2> QED
      BY <1>2, <1>3, <1>6, <2>1, <2>4, <2>5, <2>6 DEF MenuInv
  <1> QED
    BY <1>5, <1>6

\* Alone with the menu, a lawful key of the walk leaves what it was sent for.
LEMMA CalmSends ==
  ASSUME MenuInv, calm, NEW k, Lawful(menu, k, answers), NEW w, w.sure = TRUE, w.pc \in Waits,
         FieldAt(Menu!Apply(menu, k), w), NEW d \in 0..Menu!N,
         d < menu.focus \/ d < Menu!Apply(menu, k).focus, k = "Left" \/ w.pc = "leftWait" => d = 0
  PROVE  CalmAt(Menu!Apply(menu, k), w, d)
  <1> DEFINE e == Menu!Apply(menu, k)
  <1>1. FormOK /\ IsMenu(menu) /\ \A i \in 1..Menu!N : i < menu.focus => Right(menu, answers, i)
    BY DEF MenuInv, MenuShape, Calm, CalmAt
  <1>2. IsMenu(e)
    BY <1>1, ApplyIs
  <1>3. /\ \A i \in 1..Menu!N : i < e.focus => Right(e, answers, i)
        /\ k # "Left" => e.focus >= menu.focus
    BY <1>1, LawfulKeeps
  <1>4. menu.focus \in 1..Menu!Gone /\ e.focus \in 1..Menu!Gone /\ Menu!Gone \in Nat /\ Menu!N \in Nat
    BY <1>1, <1>2, FormIs DEF IsMenu
  <1> HIDE DEF e
  <1>5. d < e.focus
    BY <1>3, <1>4 DEF e
  <1> QED
    BY <1>3, <1>5 DEF CalmAt, Waits, e

\* The keys that finish a question.
Finishing(m, k) ==
    \/ ~m.editing /\ ~Menu!Multi(m.focus) /\ k \in Menu!Rows
    \/ ~m.editing /\ Menu!Multi(m.focus) /\ k = "Right"
    \/ m.editing /\ ~Menu!Multi(m.focus) /\ k = "Enter" /\ m.field # ""

\* They move on.
LEMMA Advances ==
  ASSUME FormOK, NEW m, IsMenu(m), m.focus <= Menu!N, NEW k, Finishing(m, k)
  PROVE  Menu!Apply(m, k).focus > m.focus
  <1>0. /\ Menu!N \in Nat \ {0} /\ Menu!Review = Menu!N + 1 /\ Menu!Gone = Menu!N + 2
        /\ m.focus \in 1..Menu!N /\ (Menu!Single => Menu!N = 1 /\ ~Menu!Multi(1))
    BY FormIs DEF IsMenu
  <1>1. m = [focus |-> m.focus, ans |-> m.ans, free |-> m.free, field |-> m.field, editing |-> m.editing]
    BY DEF IsMenu
  <1>2. m.focus # Menu!Gone /\ m.focus # Menu!Review
    BY <1>0
  <1>3. k # "Esc" /\ (k \in Menu!Rows => k # "3")
    BY DEF Menu!Rows, Finishing
  <1>4. Menu!Apply(m, k) = IF m.editing THEN Menu!EditKey(m, k) ELSE Menu!QuestionKey(m, k)
    BY ONLY <1>2, <1>3, Zenon DEF Menu!Apply
  <1> DEFINE g == IF Menu!Single THEN Menu!Gone ELSE m.focus + 1
  <1>5. ASSUME NEW a, NEW f, NEW r,
               r = [focus |-> m.focus, ans |-> a, free |-> f, field |-> m.field, editing |-> m.editing],
               Menu!Apply(m, k) = Menu!Advance(r)
        PROVE  Menu!Apply(m, k).focus > m.focus
    <2>1. Menu!Apply(m, k) = [focus |-> g, ans |-> a, free |-> f, field |-> m.field, editing |-> FALSE]
      BY ONLY <1>5 DEF Menu!Advance
    <2>2. Menu!Apply(m, k).focus = g
      BY ONLY <2>1
    <2>3. g > m.focus
      BY <1>0
    <2> QED
      BY ONLY <2>2, <2>3, Zenon
  <1>6. CASE ~m.editing /\ ~Menu!Multi(m.focus) /\ k \in Menu!Rows
    <2> DEFINE a == [m.ans EXCEPT ![m.focus] = {k}]
    <2>1. Menu!Apply(m, k) = Menu!Advance([m EXCEPT !.ans = a])
      BY <1>3, <1>4, <1>6 DEF Menu!QuestionKey, Menu!Rows
    <2> HIDE DEF a
    <2>2. [m EXCEPT !.ans = a] = [focus |-> m.focus, ans |-> a, free |-> m.free, field |-> m.field, editing |-> m.editing]
      BY ONLY <1>1
    <2> QED
      BY ONLY <1>5, <2>1, <2>2, Zenon
  <1>7. CASE ~m.editing /\ Menu!Multi(m.focus) /\ k = "Right"
    <2>1. ~Menu!Single
      BY <1>0, <1>7
    <2>2. Menu!Apply(m, k) = Menu!Advance(m)
      BY <1>4, <1>7, <2>1 DEF Menu!QuestionKey, Menu!Rows
    <2> QED
      BY ONLY <1>1, <1>5, <2>2, Zenon
  <1>8. CASE m.editing /\ ~Menu!Multi(m.focus) /\ k = "Enter" /\ m.field # ""
    <2> DEFINE a == [m.ans EXCEPT ![m.focus] = {"3"}]
               f == [m.free EXCEPT ![m.focus] = m.field]
    <2>1. Menu!Apply(m, k) = Menu!EditKey(m, k)
      BY <1>4, <1>8
    <2>2. Menu!EditKey(m, k) = Menu!Advance([m EXCEPT !.free = f, !.ans = a])
      BY <1>8 DEF Menu!EditKey, Menu!Rows
    <2> HIDE DEF a, f
    <2> PICK r : r = [m EXCEPT !.free = f, !.ans = a]
      OBVIOUS
    <2>3. r = [focus |-> m.focus, ans |-> a, free |-> f, field |-> m.field, editing |-> m.editing]
      BY <1>1
    <2> QED
      BY ONLY <1>5, <2>1, <2>2, <2>3, r = [m EXCEPT !.free = f, !.ans = a], Zenon
  <1> QED
    BY <1>6, <1>7, <1>8 DEF Finishing

\* A key of the walk, by what it is sent for: it keeps the page and the question of the walk.
LEMMA Sending ==
  ASSUME MenuInv, UNCHANGED <<form, calm, answers, walks, keys, cuts>>, done' \in 0..Menu!N,
         NEW k \in KeyNames, NEW at \in Waits, NEW x, IsPage(x),
         NEW w, w = [pc |-> at, i |-> walk.i, exp |-> x, sure |-> walk.sure],
         Menu!Send(k, w), QuestionAt(w), walk.sure /\ wire = <<>> => Lawful(menu, k, answers),
         calm => /\ FieldAt(Menu!Apply(menu, k), w)
                 /\ done' < menu.focus \/ done' < Menu!Apply(menu, k).focus
                 /\ k = "Left" \/ at = "leftWait" => done' = 0
  PROVE  MenuInv'
  <1>1. w.pc = at /\ w.i = walk.i /\ w.exp = x /\ w.sure = walk.sure
    OBVIOUS
  <1>2. IsWalk(w)
    BY <1>1 DEF MenuInv, MenuShape, IsWalk, Waits, Menu!WalkSteps
  <1>3. calm => CalmAt(Menu!Apply(menu, k), w, done')
    <2> SUFFICES ASSUME calm PROVE CalmAt(Menu!Apply(menu, k), w, done')
      OBVIOUS
    <2>1. walk.sure = TRUE /\ wire = <<>>
      BY DEF MenuInv, MenuShape, Calm, CalmAt
    <2>2. Lawful(menu, k, answers)
      BY <2>1
    <2> QED
      BY <1>1, <2>1, <2>2, CalmSends
  <1> QED
    BY <1>1, <1>2, <1>3, SendKeeps

\* What the walk can read off the screen.
LEMMA NowIs ==
  ASSUME MenuShape
  PROVE  /\ IsPage(Menu!Now) /\ IsPage(Menu!NoPage)
         /\ Menu!N \in Nat \ {0} /\ Menu!Review = Menu!N + 1 /\ Menu!Gone = Menu!N + 2
         /\ menu.focus \in 1..Menu!Gone
         /\ menu.focus = Menu!Gone => Menu!Now = Menu!NoPage /\ Menu!Now.focus = 0
         /\ menu.focus # Menu!Gone => Menu!Now.focus = menu.focus /\ (Menu!Now.editing = menu.editing)
  <1>1. FormOK /\ IsMenu(menu)
    BY DEF MenuShape
  <1>2. IsPage(Menu!NoPage)
    BY DEF IsPage, Menu!NoPage
  <1>3. menu.focus \in 1..Menu!Gone
    BY <1>1 DEF IsMenu
  <1> QED
    BY <1>1, <1>2, <1>3, FormIs, PageIs DEF Menu!Now

\* A read of the screen.
LEMMA Seeing ==
  ASSUME MenuInv, UNCHANGED <<form, calm, menu, wire, answers, final, walks, keys, cuts>>,
         done' \in 0..Menu!N,
         NEW at \in Menu!WalkSteps, NEW i \in 0..Menu!Review, NEW p, IsPage(p),
         NEW w, w = Menu!Seen(at, i, p), walk' = w, QuestionAt(w), SawAt(w),
         calm => done' < menu.focus /\ (at \in {"first", "left", "leftWait"} => done' = 0) /\ FieldAt(menu, w)
  PROVE  MenuInv'
  <1>1. w.pc = at /\ w.i = i /\ w.exp = p /\ w.sure = (wire = <<>>) /\ IsWalk(w)
    BY DEF Menu!Seen, IsWalk
  <1>2. calm => CalmAt(menu, w, done')
    BY <1>1 DEF MenuInv, MenuShape, Calm, CalmAt
  <1>3. cuts' \in 0..MaxCuts
    BY DEF MenuInv, MenuShape
  <1> QED
    BY <1>1, <1>2, <1>3, Walks

\* The walk ends, on its own or cut off; what it entered stays.
LEMMA Stops ==
  ASSUME MenuInv, UNCHANGED <<form, calm, menu, wire, answers, done, final, walks, keys>>, cuts' \in 0..MaxCuts,
         walk' = Menu!IdleWalk
  PROVE  MenuInv'
  <1> DEFINE w == Menu!IdleWalk
  <1>1. w.pc = "idle" /\ w.i = 0 /\ w.exp = Menu!NoPage /\ w.sure = TRUE
             /\ w = [pc |-> w.pc, i |-> w.i, exp |-> w.exp, sure |-> w.sure]
    BY DEF Menu!IdleWalk
  <1> HIDE DEF w
  <1>2. IsWalk(w)
    <2>1. MenuShape
      BY DEF MenuInv
    <2>2. IsPage(Menu!NoPage) /\ 0 \in 0..Menu!Review
      BY <2>1, NowIs
    <2>3. "idle" \in Menu!WalkSteps
      BY DEF Menu!WalkSteps
    <2> QED
      BY <1>1, <2>2, <2>3 DEF IsWalk
  <1>3. QuestionAt(w) /\ SawAt(w)
    BY <1>1 DEF QuestionAt, SawAt
  <1>4. calm => CalmAt(menu, w, done)
    BY <1>1 DEF MenuInv, Calm, CalmAt, FieldAt
  <1>5. walk' = w /\ done' = done /\ done \in 0..Menu!N
    BY DEF w, MenuInv, MenuShape
  <1> QED
    BY <1>2, <1>3, <1>4, <1>5, Walks

\* A tap of Send: alone with the menu it is the same answers again.
LEMMA TapKeeps ==
  ASSUME MenuInv, NEW picks \in Menu!Picks, Menu!Tap(picks)
  PROVE  MenuInv'
  <1>0. MenuShape
    BY DEF MenuInv
  <1> DEFINE x == IF "multi" \in Menu!Range(form) THEN Menu!Now ELSE Menu!NoPage
             w == [pc |-> "first", i |-> 0, exp |-> x, sure |-> TRUE]
  <1>1. /\ walk' = w /\ answers' = picks /\ (calm => answers' = answers) /\ done' = 0
        /\ walks' \in 0..MaxWalks
        /\ UNCHANGED <<form, calm, menu, wire, final, keys, cuts>>
    <2>1. walk' = [Menu!IdleWalk EXCEPT !.pc = "first", !.exp = x]
      BY DEF Menu!Tap
    <2>2. walk' = w
      BY <2>1 DEF Menu!IdleWalk
    <2>3. walks' \in 0..MaxWalks
      BY <1>0, Assumptions DEF Menu!Tap, MenuShape, Assumptions, Menu!BoundsAssumption
    <2> QED
      BY <2>2, <2>3 DEF Menu!Tap
  <1>2. IsPage(x)
    BY <1>0, NowIs
  <1> HIDE DEF x
  <1>3. w.pc = "first" /\ w.i = 0 /\ w.exp = x /\ w.sure = TRUE
             /\ w = [pc |-> w.pc, i |-> w.i, exp |-> w.exp, sure |-> w.sure]
    OBVIOUS
  <1> HIDE DEF w
  <1>4. IsWalk(walk')
    <2>1. 0 \in 0..Menu!Review /\ "first" \in Menu!WalkSteps
      BY <1>0, NowIs DEF Menu!WalkSteps
    <2> QED
      BY <1>1, <1>2, <1>3, <2>1 DEF IsWalk
  <1>5. MenuShape'
    <2>1. 0 \in 0..Menu!N /\ keys' \in 0..MaxKeys /\ cuts' \in 0..MaxCuts /\ IsMenu(menu')
                 /\ wire' \in Seq(WireKeys)
             /\ (calm => wire' = <<>>) /\ UNCHANGED <<form, calm>>
      BY <1>0, <1>1, NowIs DEF MenuShape
    <2> QED
      BY <1>0, <1>1, <1>4, <2>1, ShapeKeeps
  <1>6. AtQuestion' /\ (~Saw' => FALSE)
    BY <1>1, <1>3 DEF AtQuestion, QuestionAt, Saw, SawAt
  <1>7. WireSure'
    BY <1>1, FormStays DEF MenuInv, WireSure
  <1>8. (calm => Calm)'
    <2> SUFFICES ASSUME calm PROVE Calm'
      BY <1>1
    <2>1. \A i \in 1..Menu!N : i < menu.focus => Right(menu, answers, i)
      BY DEF MenuInv, Calm, CalmAt
    <2>2. (\A i \in 1..Menu!N : i < menu.focus => Right(menu, answers, i))'
      BY <1>1, <2>1, FormKeeps, FormStays
    <2>3. (0 < menu.focus)'
      BY <1>0, <1>1, NowIs
    <2> QED
      BY <1>1, <1>3, <2>2, <2>3 DEF Calm, CalmAt, FieldAt
  <1>9. Menu!SubmitsOnlyPicks'
    BY <1>1, FormKeeps DEF MenuInv, Menu!SubmitsOnlyPicks
  <1> QED
    BY <1>5, <1>6, <1>7, <1>8, <1>9 DEF MenuInv

\* The first look at the menu: refused, back to the first question, or on from where it stands.
LEMMA FirstKeeps ==
  ASSUME MenuInv, Menu!FirstRead
  PROVE  MenuInv'
  <1>0. MenuShape /\ walk.pc = "first" /\ (calm => done = 0) /\ done \in 0..Menu!N
    BY DEF MenuInv, MenuShape, Menu!FirstRead, Calm, CalmAt
  <1>1. CASE Menu!Stop
    BY <1>1, Stops DEF Menu!Stop, MenuInv, MenuShape
  <1>2. CASE Menu!Now # Menu!NoPage /\ Menu!Start(Menu!Now) # Menu!Now.focus
                /\ Menu!Goes(Menu!Seen("left", Menu!Now.focus - 1, Menu!Now))
    <2>1. Menu!Now.focus = menu.focus /\ menu.focus # 1 /\ menu.focus # Menu!Gone
      BY <1>0, <1>2, NowIs DEF Menu!Start
    <2>2. Menu!Now.focus - 1 \in 1..Menu!N /\ Menu!Now.focus - 1 \in 0..Menu!Review /\ IsPage(Menu!Now)
             /\ "left" \in Menu!WalkSteps
      BY <1>0, <2>1, NowIs DEF Menu!WalkSteps
    <2> PICK w : w = Menu!Seen("left", Menu!Now.focus - 1, Menu!Now)
      OBVIOUS
    <2>3. w.pc = "left" /\ w.i = Menu!Now.focus - 1
      BY DEF Menu!Seen
    <2>4. QuestionAt(w) /\ SawAt(w)
      BY <2>2, <2>3 DEF QuestionAt, SawAt
    <2>5. FieldAt(menu, w)
      BY <2>3 DEF FieldAt
    <2>7. calm => done' < menu.focus /\ done' = 0
      BY <1>0, <1>2, NowIs DEF Menu!Goes
    <2>6. walk' = w /\ UNCHANGED <<form, calm, menu, wire, answers, final, walks, keys, cuts>>
             /\ done' \in 0..Menu!N
      BY <1>0, <1>2 DEF Menu!Goes
    <2> QED
      BY <2>2, <2>4, <2>5, <2>6, <2>7, Seeing
  <1>3. CASE Menu!Now # Menu!NoPage /\ walk' = Menu!AskOrVerify(Menu!Now.focus, Menu!Now)
               /\ done' = Menu!Now.focus - 1
                /\ UNCHANGED <<form, calm, menu, wire, answers, final, walks, keys, cuts>>
    <2>1. Menu!Now.focus = menu.focus /\ menu.focus # Menu!Gone
      BY <1>0, <1>3, NowIs
    <2> PICK at \in {"verify", "ask"} : at = IF menu.focus > Menu!N THEN "verify" ELSE "ask"
      OBVIOUS
    <2> PICK w : w = Menu!Seen(at, menu.focus, Menu!Now)
      OBVIOUS
    <2>2. w.pc = at /\ w.i = menu.focus /\ walk' = w
      BY <1>3, <2>1 DEF Menu!Seen, Menu!AskOrVerify
    <2>3. menu.focus \in 0..Menu!Review /\ IsPage(Menu!Now) /\ at \in Menu!WalkSteps /\ done' \in 0..Menu!N
             /\ done' < menu.focus /\ (at = "ask" => menu.focus \in 1..Menu!N)
      BY <1>0, <1>3, <2>1, NowIs DEF Menu!WalkSteps
    <2>4. QuestionAt(w) /\ SawAt(w)
      BY <2>2, <2>3 DEF QuestionAt, SawAt
    <2>5. FieldAt(menu, w) /\ at \notin {"first", "left", "leftWait"}
      BY <2>2 DEF FieldAt
    <2> QED
      BY <1>3, <2>2, <2>3, <2>4, <2>5, Seeing
  <1> QED
    BY <1>1, <1>2, <1>3 DEF Menu!FirstRead

\* A read of the screen that the walk goes on from.
LEMMA Looking ==
  ASSUME MenuInv, NEW at \in Menu!WalkSteps \ {"first"}, NEW i \in 0..Menu!Review, NEW p, IsPage(p),
         NEW w, w = Menu!Seen(at, i, p), Menu!Goes(w), QuestionAt(w), SawAt(w), calm => FieldAt(menu, w),
         at \in {"left", "leftWait"} => walk.pc \in {"left", "leftWait"}
  PROVE  MenuInv'
  <1>1. calm => done < menu.focus /\ (at \in {"first", "left", "leftWait"} => done = 0)
    BY DEF MenuInv, Calm, CalmAt
  <1>2. done \in 0..Menu!N
    BY DEF MenuInv, MenuShape
  <1> QED
    BY <1>1, <1>2, Seeing DEF Menu!Goes

\* Back to the first question, a tab at a time.
LEMMA LeftKeeps ==
  ASSUME MenuInv, Menu!LeftRead \/ Menu!LeftDone
  PROVE  MenuInv'
  <1>0. MenuShape /\ walk.i \in 1..Menu!N
    BY DEF MenuInv, AtQuestion, QuestionAt, Menu!WalkSteps, Menu!LeftRead, Menu!LeftDone
  <1>1. CASE Menu!Stop
    BY <1>1, Stops DEF Menu!Stop, MenuInv, MenuShape
  <1>2. ASSUME NEW at \in {"left", "leftWait", "ask"}, NEW i \in 1..Menu!N, NEW p, IsPage(p),
               Menu!Goes(Menu!Seen(at, i, p)),
               walk.pc \in {"left", "leftWait"}
        PROVE  MenuInv'
    <2> PICK w : w = Menu!Seen(at, i, p)
      OBVIOUS
    <2>1. w.pc = at /\ w.i = i
      BY DEF Menu!Seen
    <2>2. QuestionAt(w) /\ SawAt(w)
      BY <2>1 DEF QuestionAt, SawAt
    <2>3. FieldAt(menu, w)
      BY <2>1 DEF FieldAt
    <2>4. at \in Menu!WalkSteps \ {"first"} /\ i \in 0..Menu!Review /\ Menu!Goes(w)
      BY <1>0, <1>2, NowIs DEF Menu!WalkSteps
    <2> QED
      BY <1>2, <2>2, <2>3, <2>4, Looking
  <1>3. CASE walk.pc = "left" /\ Menu!Goes(Menu!Seen("leftWait", walk.i, Menu!NoPage))
    BY <1>0, <1>2, <1>3, NowIs
  <1>4. CASE walk.pc = "leftWait" /\ walk.i = 1 /\ Menu!Goes(Menu!Seen("ask", 1, Menu!Now))
    BY <1>0, <1>2, <1>4, NowIs
  <1>5. CASE walk.pc = "leftWait" /\ walk.i # 1 /\ Menu!Goes(Menu!Seen("left", walk.i - 1, Menu!Now))
    <2>1. walk.i - 1 \in 1..Menu!N
      BY <1>0, <1>5, NowIs
    <2> QED
      BY <1>0, <1>2, <1>5, <2>1, NowIs
  <1> QED
    BY <1>1, <1>3, <1>4, <1>5 DEF Menu!LeftRead, Menu!LeftDone

\* The question is the one expected, and its keys are next.
LEMMA AskKeeps ==
  ASSUME MenuInv, Menu!AskRead
  PROVE  MenuInv'
  <1>0. MenuShape /\ walk.pc = "ask" /\ walk.i \in 1..Menu!N
    BY DEF MenuInv, AtQuestion, QuestionAt, Menu!WalkSteps, Menu!AskRead
  <1>1. CASE Menu!Stop
    BY <1>1, Stops DEF Menu!Stop, MenuInv, MenuShape
  <1>2. CASE /\ Menu!Now = walk.exp /\ ~Menu!Now.editing /\ Menu!Now.focus = walk.i
             /\ Menu!Goes(Menu!Seen(IF Menu!Multi(walk.i) THEN "multi" ELSE "press", walk.i, Menu!Now))
    <2> PICK at \in {"multi", "press"} : at = IF Menu!Multi(walk.i) THEN "multi" ELSE "press"
      OBVIOUS
    <2> PICK w : w = Menu!Seen(at, walk.i, Menu!Now)
      OBVIOUS
    <2>1. w.pc = at /\ w.i = walk.i /\ w.exp = Menu!Now
      BY DEF Menu!Seen
    <2>2. menu.focus = walk.i /\ ~menu.editing
      BY <1>0, <1>2, NowIs
    <2>3. QuestionAt(w)
      BY <1>0, <1>2, <2>1 DEF QuestionAt
    <2>4. SawAt(w)
      BY <2>1, <2>2 DEF SawAt
    <2>5. FieldAt(menu, w)
      BY <2>1 DEF FieldAt
    <2>6. at \in Menu!WalkSteps \ {"first"} /\ walk.i \in 0..Menu!Review /\ Menu!Goes(w) /\ IsPage(Menu!Now)
      BY <1>0, <1>2, NowIs DEF Menu!WalkSteps
    <2> QED
      BY <2>3, <2>4, <2>5, <2>6, Looking
  <1> QED
    BY <1>0, <1>1, <1>2 DEF Menu!AskRead

\* The free-text field opens, empties and fills.
LEMMA TextKeeps ==
  ASSUME MenuInv, Menu!ReachText \/ Menu!TextOpened \/ Menu!TextShown
  PROVE  MenuInv'
  <1>0. /\ MenuShape /\ walk.i \in 1..Menu!N /\ ~Menu!Multi(walk.i) /\ answers[walk.i].rows = {}
        /\ walk.pc \in {"reach", "open", "shown"}
        /\ Menu!Now.editing /\ Menu!Now.focus = walk.i
        /\ walk.pc = "shown" => Menu!Now.row = answers[walk.i].text
    BY DEF MenuInv, AtQuestion, QuestionAt, Menu!WalkSteps, Menu!ReachText, Menu!TextOpened, Menu!TextShown,
           Menu!Editing, Menu!MyPick
  <1> PICK at \in {"wipe", "type", "enter"} :
           at = IF walk.pc = "reach" THEN "wipe" ELSE IF walk.pc = "open" THEN "type" ELSE "enter"
    OBVIOUS
  <1> PICK w : w = Menu!Seen(at, walk.i, Menu!Now)
    OBVIOUS
  <1>1. w.pc = at /\ w.i = walk.i /\ w.exp = Menu!Now
    BY DEF Menu!Seen
  <1>2. Menu!Goes(w)
    BY DEF Menu!ReachText, Menu!TextOpened, Menu!TextShown
  <1>3. menu.focus = walk.i /\ menu.editing
    <2>1. MenuShape /\ walk.i \in 1..Menu!N /\ Menu!Now.focus = walk.i
      BY <1>0, Zenon
    <2>2. menu.focus = walk.i /\ menu.focus # Menu!Gone
      BY ONLY <2>1, NowIs
    <2>3. Menu!Now.editing = menu.editing
      BY <1>0, <2>2, NowIs
    <2> QED
      BY <1>0, <2>2, <2>3, Zenon
  <1>4. QuestionAt(w)
    BY <1>0, <1>1 DEF QuestionAt
  <1>5. SawAt(w)
    BY <1>0, <1>1, <1>3 DEF SawAt
  <1>6. calm => FieldAt(menu, w)
    <2>1. calm => FieldAt(menu, walk)
      BY DEF MenuInv, Calm, CalmAt
    <2>2. (at = "type" => walk.pc = "open") /\ (at = "enter" => walk.pc = "shown")
      BY <1>0
    <2> QED
      BY <1>1, <2>1, <2>2 DEF FieldAt
  <1>7. at \in Menu!WalkSteps \ {"first"} /\ walk.i \in 0..Menu!Review /\ IsPage(Menu!Now)
             /\ at \notin {"left", "leftWait"}
    BY <1>0, NowIs DEF Menu!WalkSteps
  <1> QED
    BY <1>2, <1>4, <1>5, <1>6, <1>7, Looking

\* A multi-select shows what the key before had to show.
LEMMA MultiKeeps ==
  ASSUME MenuInv, Menu!MultiRead \/ Menu!MultiShown
  PROVE  MenuInv'
  <1>0. /\ MenuShape /\ walk.i \in 1..Menu!N /\ Menu!Multi(walk.i) /\ walk.exp.focus = walk.i
        /\ walk.pc \in {"multi", "multiWait"}
    BY DEF MenuInv, AtQuestion, QuestionAt, Menu!WalkSteps, Menu!MultiRead, Menu!MultiShown
  <1>1. CASE Menu!Stop
    BY <1>1, Stops DEF Menu!Stop, MenuInv, MenuShape
  <1>2. ASSUME NEW at \in {"multi", "multiKey"}, Menu!Goes(Menu!Seen(at, walk.i, Menu!Now)),
               Menu!Now = walk.exp
        PROVE  MenuInv'
    <2> PICK w : w = Menu!Seen(at, walk.i, Menu!Now)
      OBVIOUS
    <2>1. w.pc = at /\ w.i = walk.i /\ w.exp = Menu!Now
      BY DEF Menu!Seen
    <2>2. QuestionAt(w) /\ SawAt(w)
      BY <1>0, <1>2, <2>1 DEF QuestionAt, SawAt
    <2>3. FieldAt(menu, w)
      BY <2>1 DEF FieldAt
    <2>4. at \in Menu!WalkSteps \ {"first"} /\ walk.i \in 0..Menu!Review /\ Menu!Goes(w) /\ IsPage(Menu!Now)
      BY <1>0, <1>2, NowIs DEF Menu!WalkSteps
    <2> QED
      BY <2>2, <2>3, <2>4, Looking
  <1> QED
    BY <1>1, <1>2 DEF Menu!MultiRead, Menu!MultiShown

\* The question was left, and the next one, or the review, is up.
LEMMA AdvancedKeeps ==
  ASSUME MenuInv, Menu!Advanced
  PROVE  MenuInv'
  <1>0. MenuShape /\ walk.i \in 1..Menu!N
    BY DEF MenuInv, AtQuestion, QuestionAt, Menu!WalkSteps, Menu!Advanced
  <1>1. walk.i + 1 \in 0..Menu!Review /\ (~(walk.i + 1 > Menu!N) => walk.i + 1 \in 1..Menu!N)
               /\ IsPage(Menu!Now)
    BY <1>0, NowIs
  <1> PICK at \in {"verify", "ask"} : at = IF walk.i + 1 > Menu!N THEN "verify" ELSE "ask"
    OBVIOUS
  <1> PICK w : w = Menu!Seen(at, walk.i + 1, Menu!Now)
    OBVIOUS
  <1>2. w.pc = at /\ w.i = walk.i + 1 /\ Menu!Goes(w)
    BY DEF Menu!Seen, Menu!Advanced, Menu!AskOrVerify
  <1>3. QuestionAt(w) /\ SawAt(w)
    BY <1>1, <1>2 DEF QuestionAt, SawAt
  <1>4. FieldAt(menu, w)
    BY <1>2 DEF FieldAt
  <1>5. at \in Menu!WalkSteps \ {"first"} /\ at \notin {"left", "leftWait"}
    BY DEF Menu!WalkSteps
  <1> QED
    BY <1>1, <1>2, <1>3, <1>4, <1>5, Looking

\* The review shows the phone's answers: they are in the menu.
LEMMA VerifyKeeps ==
  ASSUME MenuInv, Menu!Verify
  PROVE  MenuInv'
  <1>0. MenuShape /\ FormOK /\ IsMenu(menu)
    BY DEF MenuInv, MenuShape
  <1>1. CASE Menu!Stop
    BY <1>1, Stops DEF Menu!Stop, MenuInv, MenuShape
  <1>2. CASE Menu!Now.focus = Menu!Review /\ Menu!ReviewMatches(Menu!Now)
                /\ Menu!Goes(Menu!Seen("submit", Menu!Review, Menu!Now))
    <2> PICK w : w = Menu!Seen("submit", Menu!Review, Menu!Now)
      OBVIOUS
    <2>1. w.pc = "submit" /\ w.i = Menu!Review
      BY DEF Menu!Seen
    <2>2. menu.focus = Menu!Review /\ menu.focus # Menu!Gone
      BY <1>0, <1>2, NowIs
    <2>3. \A i \in 1..Menu!N : Menu!Now.review[i] = Menu!Answer(menu, i)
      BY <1>0, <2>2, PageIs DEF Menu!Now
    <2>4. \A i \in 1..Menu!N : Right(menu, answers, i)
      BY <1>2, <2>3 DEF Menu!ReviewMatches, Right
    <2>5. QuestionAt(w) /\ SawAt(w)
      BY <2>1, <2>2, <2>4 DEF QuestionAt, SawAt
    <2>6. FieldAt(menu, w)
      BY <2>1 DEF FieldAt
    <2>7. "submit" \in Menu!WalkSteps \ {"first"} /\ Menu!Review \in 0..Menu!Review /\ IsPage(Menu!Now)
      BY <1>0, NowIs DEF Menu!WalkSteps
    <2> QED
      BY <1>2, <2>5, <2>6, <2>7, Looking
  <1> QED
    BY <1>1, <1>2 DEF Menu!Verify

\* A step to the left: nothing is entered yet.
LEMMA LeftKeyKeeps ==
  ASSUME MenuInv, Menu!LeftKey
  PROVE  MenuInv'
  <1>0. MenuShape /\ IsWalk(walk) /\ walk.pc = "leftWait" /\ walk.i \in 1..Menu!N
    BY DEF MenuInv, MenuShape, AtQuestion, QuestionAt, Menu!WalkSteps, Menu!LeftKey
  <1> DEFINE x == [Menu!NoPage EXCEPT !.focus = walk.i]
             w == [pc |-> "leftWait", i |-> walk.i, exp |-> x, sure |-> walk.sure]
  <1>1. IsPage(x)
    BY DEF IsPage, Menu!NoPage
  <1>2. Menu!Send("Left", [walk EXCEPT !.exp = x])
    BY DEF Menu!LeftKey
  <1>3. UNCHANGED <<form, calm, answers, done, walks, keys, cuts>>
    BY DEF Menu!LeftKey
  <1> HIDE DEF x
  <1>4. [walk EXCEPT !.exp = x] = w
    BY <1>0 DEF IsWalk
  <1>5. w.pc = "leftWait" /\ w.i = walk.i
    OBVIOUS
  <1>6. QuestionAt(w)
    BY <1>0, <1>5 DEF QuestionAt
  <1>7. FieldAt(Menu!Apply(menu, "Left"), w)
    BY <1>5 DEF FieldAt
  <1>8. Lawful(menu, "Left", answers)
    BY <1>0, SubmitLawful
  <1>9. "Left" \in KeyNames /\ "leftWait" \in Waits
    BY DEF KeyNames, Waits
  <1>10. done' \in 0..Menu!N /\ (calm => done' = 0 /\ done' < menu.focus)
    BY <1>0, <1>3 DEF MenuInv, MenuShape, Calm, CalmAt
  <1>11. Menu!Send("Left", w)
    BY <1>2, <1>4
  <1> HIDE DEF w
  <1>12. w = [pc |-> "leftWait", i |-> walk.i, exp |-> x, sure |-> walk.sure]
    BY DEF w
  <1> QED
    BY <1>1, <1>3, <1>6, <1>7, <1>8, <1>9, <1>10, <1>11, <1>12, Sending

\* A key that the walk then waits for: it keeps what the walk goes by.
LEMMA SendsOn ==
  ASSUME MenuInv, NEW k \in KeyNames \ {"Left"}, NEW at \in Waits \ {"leftWait"},
         Menu!Send(k, [walk EXCEPT !.pc = at]),
         UNCHANGED <<form, calm, answers, done, walks, keys, cuts>>,
         at # "clear" => walk.i \in 1..Menu!N,
         at \in {"open", "reach", "shown"} => ~Menu!Multi(walk.i) /\ answers[walk.i].rows = {},
         at # "multiWait",
         walk.sure /\ wire = <<>> => Lawful(menu, k, answers),
         calm /\ at = "open" => Menu!Apply(menu, k).field = "",
         calm /\ at = "shown" => Menu!Apply(menu, k).field = answers[walk.i].text
  PROVE  MenuInv'
  <1> DEFINE w == [pc |-> at, i |-> walk.i, exp |-> walk.exp, sure |-> walk.sure]
  <1>1. IsWalk(walk) /\ IsPage(walk.exp) /\ done \in 0..Menu!N
    BY DEF MenuInv, MenuShape, IsWalk
  <1>2. [walk EXCEPT !.pc = at] = w
    <2>1. walk = [pc |-> walk.pc, i |-> walk.i, exp |-> walk.exp, sure |-> walk.sure]
      BY <1>1 DEF IsWalk
    <2> QED
      BY ONLY <2>1
  <1>3. w.pc = at /\ w.i = walk.i /\ w.exp = walk.exp
               /\ w = [pc |-> at, i |-> walk.i, exp |-> walk.exp, sure |-> walk.sure]
    OBVIOUS
  <1>4. Menu!Send(k, w)
    BY <1>2
  <1> HIDE DEF w
  <1>5. QuestionAt(w)
    BY <1>3 DEF QuestionAt, Waits
  <1>6. calm => FieldAt(Menu!Apply(menu, k), w)
    BY <1>3 DEF FieldAt, Waits
  <1>7. calm => done < menu.focus
    BY DEF MenuInv, Calm, CalmAt
  <1> QED
    BY <1>1, <1>3, <1>4, <1>5, <1>6, <1>7, Sending

\* The key a question is entered with: it leaves the question behind, right.
LEMMA EnteredKeeps ==
  ASSUME MenuInv, NEW k \in KeyNames \ {"Left"}, Menu!Entered(k), walk.i \in 1..Menu!N,
         walk.sure /\ wire = <<>> => Lawful(menu, k, answers) /\ menu.focus = walk.i,
         calm => Finishing(menu, k)
  PROVE  MenuInv'
  <1> PICK at \in {"clear", "wait"} : at = IF Menu!Single THEN "clear" ELSE "wait"
    OBVIOUS
  <1> DEFINE w == [pc |-> at, i |-> walk.i, exp |-> walk.exp, sure |-> walk.sure]
  <1>1. MenuShape /\ IsWalk(walk) /\ IsPage(walk.exp)
    BY DEF MenuInv, MenuShape, IsWalk
  <1>2. [walk EXCEPT !.pc = at] = w
    <2>1. walk = [pc |-> walk.pc, i |-> walk.i, exp |-> walk.exp, sure |-> walk.sure]
      BY <1>1 DEF IsWalk
    <2> QED
      BY ONLY <2>1
  <1>3. w.pc = at /\ w.i = walk.i /\ w.exp = walk.exp
               /\ w = [pc |-> at, i |-> walk.i, exp |-> walk.exp, sure |-> walk.sure]
    OBVIOUS
  <1>4. Menu!Send(k, w) /\ done' = walk.i /\ UNCHANGED <<form, calm, answers, walks, keys, cuts>>
    BY <1>2 DEF Menu!Entered
  <1> HIDE DEF w
  <1>5. QuestionAt(w) /\ FieldAt(Menu!Apply(menu, k), w)
    BY <1>3 DEF QuestionAt, FieldAt
  <1>6. calm => done' < Menu!Apply(menu, k).focus
    <2> SUFFICES ASSUME calm PROVE walk.i < Menu!Apply(menu, k).focus
      BY <1>4
    <2>1. walk.sure /\ wire = <<>>
      BY DEF MenuInv, MenuShape, Calm, CalmAt
    <2>2. menu.focus = walk.i /\ Finishing(menu, k)
      BY <2>1
    <2>3. FormOK /\ IsMenu(menu) /\ Menu!N \in Nat
      BY <1>1, FormIs DEF MenuShape
    <2>4. menu.focus <= Menu!N
      BY <2>2, <2>3
    <2>5. Menu!Apply(menu, k).focus > menu.focus
      BY ONLY <2>2, <2>3, <2>4, Advances, Zenon
    <2>6. IsMenu(Menu!Apply(menu, k))
      BY <2>3, ApplyIs
    <2>7. Menu!Apply(menu, k).focus \in Int
      BY <2>3, <2>6, FormIs DEF IsMenu
    <2> QED
      BY <2>2, <2>5, <2>7
  <1>7. k # "Left" /\ at \in Waits \ {"leftWait"} /\ done' \in 0..Menu!N
    BY <1>1, <1>4, NowIs DEF Waits
  <1> QED
    BY <1>1, <1>3, <1>4, <1>5, <1>6, <1>7, Sending

\* The keys of a one-choice question.
LEMMA PickKeeps ==
  ASSUME MenuInv, Menu!PressOption \/ Menu!OpenText \/ Menu!WipeText \/ Menu!TypeText \/ Menu!EnterText
  PROVE  MenuInv'
  <1>0. /\ MenuShape /\ AtQuestion /\ walk.pc \in {"press", "wipe", "type", "enter"}
        /\ walk.i \in 1..Menu!N /\ ~Menu!Multi(walk.i)
        /\ walk.sure /\ wire = <<>> => Saw
    BY DEF MenuInv, AtQuestion, QuestionAt, Menu!WalkSteps, Menu!PressOption, Menu!OpenText, Menu!WipeText,
           Menu!TypeText, Menu!EnterText
  <1>6. calm => walk.sure /\ wire = <<>>
    BY DEF MenuInv, MenuShape, Calm, CalmAt
  <1>1. CASE Menu!PressOption
    <2> PICK r \in Menu!MyPick.rows : Menu!Entered(r)
      BY <1>1 DEF Menu!PressOption
    <2>1. r \in Menu!Rows
      <3>1. \/ \E q \in Menu!Rows : Menu!MyPick.rows = {q}
            \/ Menu!MyPick.rows = {}
        BY <1>0, PickIs DEF Menu!MyPick
      <3> QED
        BY <3>1
    <2>2. r \in KeyNames \ {"Left"}
      BY <2>1 DEF KeyNames, Menu!Rows
    <2>3. walk.sure /\ wire = <<>> => Lawful(menu, r, answers) /\ menu.focus = walk.i /\ Finishing(menu, r)
      <3> SUFFICES ASSUME walk.sure, wire = <<>>
                   PROVE  Lawful(menu, r, answers) /\ menu.focus = walk.i /\ Finishing(menu, r)
        OBVIOUS
      <3>1. Saw /\ walk.pc = "press"
        BY <1>0, <1>1 DEF Menu!PressOption
      <3>2. menu.focus = walk.i /\ ~menu.editing
        BY <3>1 DEF Saw, SawAt
      <3>3. Finishing(menu, r)
        BY <1>0, <2>1, <3>2 DEF Finishing
      <3> QED
        BY <1>0, <3>1, <3>2, <3>3, PressLawful
    <2> QED
      BY <1>0, <1>6, <2>2, <2>3, EnteredKeeps
  <1>2. CASE Menu!OpenText
    <2>1. walk.pc = "press" /\ answers[walk.i].rows = {}
                 /\ UNCHANGED <<form, calm, answers, done, walks, keys, cuts>>
      BY <1>2 DEF Menu!OpenText, Menu!Sends, Menu!MyPick
    <2>2. walk.sure /\ wire = <<>> =>
            /\ walk.exp.row = "" => Lawful(menu, "3", answers) /\ Menu!Apply(menu, "3").field = ""
            /\ Lawful(menu, "Down", answers)
      BY <1>0, <2>1, OpenLawful
    <2>3. "3" \in KeyNames \ {"Left"} /\ "Down" \in KeyNames \ {"Left"} /\ "open" \in Waits \ {"leftWait"}
             /\ "reach" \in Waits \ {"leftWait"}
      BY DEF KeyNames, Waits
    <2>4. CASE walk.exp.row = "" /\ Menu!Send("3", [walk EXCEPT !.pc = "open"])
      BY <1>0, <1>6, <2>1, <2>2, <2>3, <2>4, SendsOn
    <2>5. CASE Menu!Send("Down", [walk EXCEPT !.pc = "reach"])
      BY <1>0, <2>1, <2>2, <2>3, <2>5, SendsOn
    <2> QED
      BY <1>2, <2>4, <2>5 DEF Menu!OpenText, Menu!Sends
  <1>3. CASE Menu!WipeText
    <2>1. /\ walk.pc = "wipe" /\ answers[walk.i].rows = {}
          /\ UNCHANGED <<form, calm, answers, done, walks, keys, cuts>>
          /\ Menu!Send("Wipe", [walk EXCEPT !.pc = "open"])
      BY <1>0, <1>3 DEF Menu!WipeText, Menu!Sends, AtQuestion, QuestionAt
    <2>2. walk.sure /\ wire = <<>> => Lawful(menu, "Wipe", answers) /\ Menu!Apply(menu, "Wipe").field = ""
      BY <1>0, <2>1, TypeLawful
    <2>3. "Wipe" \in KeyNames \ {"Left"} /\ "open" \in Waits \ {"leftWait"}
      BY DEF KeyNames, Waits
    <2> QED
      BY <1>0, <1>6, <2>1, <2>2, <2>3, SendsOn
  <1>4. CASE Menu!TypeText
    <2>1. /\ walk.pc = "type" /\ answers[walk.i].rows = {}
          /\ UNCHANGED <<form, calm, answers, done, walks, keys, cuts>>
          /\ Menu!Send(Menu!MyPick.text, [walk EXCEPT !.pc = "shown"])
      BY <1>0, <1>4 DEF Menu!TypeText, Menu!Sends, AtQuestion, QuestionAt
    <2>2. Menu!MyPick.text = "text" /\ answers[walk.i].text = "text"
      BY <1>0, <2>1, PickIs DEF Menu!MyPick
    <2>3. walk.sure /\ wire = <<>> => /\ Lawful(menu, "text", answers)
                                      /\ menu.field = "" => Menu!Apply(menu, "text").field = "text"
      BY <1>0, <2>1, TypeLawful
    <2>4. calm => menu.field = ""
      BY <2>1 DEF MenuInv, Calm, CalmAt, FieldAt
    <2>5. "text" \in KeyNames \ {"Left"} /\ "shown" \in Waits \ {"leftWait"}
      BY DEF KeyNames, Waits
    <2> QED
      BY <1>0, <1>6, <2>1, <2>2, <2>3, <2>4, <2>5, SendsOn
  <1>5. CASE Menu!EnterText
    <2>1. walk.pc = "enter" /\ Menu!Entered("Enter") /\ answers[walk.i].rows = {}
      BY <1>0, <1>5 DEF Menu!EnterText, AtQuestion, QuestionAt
    <2>2. walk.sure /\ wire = <<>> => Lawful(menu, "Enter", answers) /\ menu.focus = walk.i /\ menu.editing
      <3>1. Saw => menu.focus = walk.i /\ menu.editing
        BY <2>1 DEF Saw, SawAt
      <3>2. Saw => Lawful(menu, "Enter", answers)
        BY <1>0, <2>1, EnterLawful
      <3> QED
        BY <1>0, <3>1, <3>2
    <2>3. calm => menu.field = "text"
      <3>1. answers[walk.i].text = "text"
        BY <1>0, <2>1, PickIs DEF Menu!MyPick
      <3> QED
        BY <2>1, <3>1 DEF MenuInv, Calm, CalmAt, FieldAt
    <2>4. calm => Finishing(menu, "Enter")
      BY <1>0, <1>6, <2>2, <2>3 DEF Finishing
    <2>5. "Enter" \in KeyNames \ {"Left"}
      BY DEF KeyNames
    <2> QED
      BY <1>0, <2>1, <2>2, <2>4, <2>5, EnteredKeeps
  <1> QED
    BY <1>1, <1>2, <1>3, <1>4, <1>5

\* The next key of a multi-select, and the page it has to show.
LEMMA NextIs ==
  ASSUME MenuShape, NEW i \in 1..Menu!N, Menu!Multi(i), NEW p, NEW k, k = Menu!Next1(p, answers[i])
  PROVE  k \in KeyNames \ {"Left"}
  <1> DEFINE pick == answers[i]
             wrong == {r \in Menu!Rows : (r \in p.checked) # (r \in pick.rows)}
             retype == pick.text # "" /\ p.row # pick.text
             edit == IF p.row = pick.text THEN "Up" ELSE IF p.row # "" THEN "Wipe" ELSE pick.text
             rest == IF "1" \in wrong THEN "1" ELSE IF "2" \in wrong THEN "2"
                     ELSE IF ~retype /\ ("3" \in p.checked) # (pick.text # "") THEN "3"
                     ELSE IF retype THEN "Down" ELSE "Right"
  <1>1. k = IF p.editing THEN edit ELSE rest
    BY Zenon DEF Menu!Next1
  <1>2. pick.text = "" \/ pick.text = "text"
    BY PickIs
  <1> HIDE DEF pick
  <1>3. edit \in {"Up", "Wipe", "text"}
    BY <1>2
  <1>4. rest \in {"1", "2", "3", "Down", "Right"}
    OBVIOUS
  <1> HIDE DEF edit, rest
  <1> QED
    BY <1>1, <1>3, <1>4 DEF KeyNames

\* A key of a multi-select leaves a page of the menu, with the same question in front.
LEMMA AfterIs ==
  ASSUME NEW p, IsPage(p), NEW k
  PROVE  IsPage(Menu!After(p, k)) /\ Menu!After(p, k).focus = p.focus
  <1> DEFINE checked == IF k \in Menu!Rows \cup {"3"} THEN Menu!SymDiff(p.checked, {k})
                        ELSE IF k = "Wipe" THEN p.checked \ {"3"}
                        ELSE IF k = "text" THEN p.checked \cup {"3"} ELSE p.checked
             answered == IF checked = {} THEN p.answered \ {p.focus} ELSE p.answered \cup {p.focus}
             row == IF k = "Wipe" THEN "" ELSE IF k = "text" THEN k ELSE p.row
             editing == IF k = "Down" THEN TRUE ELSE IF k = "Up" THEN FALSE ELSE p.editing
  <1>1. Menu!After(p, k) = [p EXCEPT !.checked = checked, !.answered = answered, !.row = row, !.editing = editing]
    BY DEF Menu!After
  <1> HIDE DEF checked, answered, row, editing
  <1> QED
    BY <1>1 DEF IsPage

\* A key in a multi-select.
LEMMA MultiKeyKeeps ==
  ASSUME MenuInv, Menu!MultiKey
  PROVE  MenuInv'
  <1> DEFINE k == Menu!Next1(walk.exp, Menu!MyPick)
  <1>0. /\ MenuShape /\ AtQuestion /\ walk.pc = "multiKey" /\ walk.i \in 1..Menu!N /\ Menu!Multi(walk.i)
        /\ walk.exp.focus = walk.i /\ IsWalk(walk) /\ IsPage(walk.exp)
        /\ walk.sure /\ wire = <<>> => Saw
    BY DEF MenuInv, MenuShape, IsWalk, AtQuestion, QuestionAt, Menu!WalkSteps, Menu!MultiKey
  <1>1. k \in KeyNames \ {"Left"}
    BY <1>0, NextIs DEF Menu!MyPick
  <1>2. walk.sure /\ wire = <<>> =>
            Lawful(menu, k, answers) /\ menu.focus = walk.i /\ (k = "Right" => ~menu.editing)
    BY <1>0, MultiLawful
  <1>3. calm => walk.sure /\ wire = <<>>
    BY DEF MenuInv, MenuShape, Calm, CalmAt
  <1>4. CASE k = "Right" /\ Menu!Entered(k)
    <2>1. calm => Finishing(menu, k)
      BY <1>0, <1>2, <1>3, <1>4 DEF Finishing
    <2> HIDE DEF k
    <2> QED
      BY <1>0, <1>1, <1>2, <1>4, <2>1, EnteredKeeps
  <1>5. CASE /\ Menu!Send(k, [walk EXCEPT !.pc = "multiWait", !.exp = Menu!After(walk.exp, k)])
             /\ UNCHANGED <<form, calm, answers, done, walks, keys, cuts>>
    <2> DEFINE x == Menu!After(walk.exp, k)
               w == [pc |-> "multiWait", i |-> walk.i, exp |-> x, sure |-> walk.sure]
    <2> HIDE DEF k
    <2>1. IsPage(x) /\ x.focus = walk.i
      BY <1>0, AfterIs
    <2> HIDE DEF x
    <2>2. [walk EXCEPT !.pc = "multiWait", !.exp = x] = w
      <3> PICK r : r = [walk EXCEPT !.pc = "multiWait"]
        OBVIOUS
      <3>1. walk = [pc |-> walk.pc, i |-> walk.i, exp |-> walk.exp, sure |-> walk.sure]
        BY <1>0 DEF IsWalk
      <3>2. r = [pc |-> "multiWait", i |-> walk.i, exp |-> walk.exp, sure |-> walk.sure]
        BY ONLY <3>1, r = [walk EXCEPT !.pc = "multiWait"]
      <3>3. [r EXCEPT !.exp = x] = w
        BY ONLY <3>2
      <3> QED
        BY ONLY <3>3, r = [walk EXCEPT !.pc = "multiWait"], Zenon
    <2>3. Menu!Send(k, w)
      BY <1>5, <2>2 DEF x
    <2>4. w.pc = "multiWait" /\ w.i = walk.i /\ w.exp = x
             /\ w = [pc |-> "multiWait", i |-> walk.i, exp |-> x, sure |-> walk.sure]
      OBVIOUS
    <2> HIDE DEF w
    <2>5. QuestionAt(w) /\ FieldAt(Menu!Apply(menu, k), w)
      BY <1>0, <2>1, <2>4 DEF QuestionAt, FieldAt
    <2>6. done' \in 0..Menu!N /\ (calm => done' < menu.focus)
      BY <1>0, <1>5 DEF MenuInv, MenuShape, Calm, CalmAt
    <2>7. "multiWait" \in Waits /\ UNCHANGED <<form, calm, answers, walks, keys, cuts>>
      BY <1>5 DEF Waits
    <2> QED
      BY <1>1, <1>2, <2>1, <2>3, <2>4, <2>5, <2>6, <2>7, Sending
  <1> QED
    BY <1>4, <1>5 DEF Menu!MultiKey

\* The review is submitted.
LEMMA SubmitKeeps ==
  ASSUME MenuInv, Menu!Submit
  PROVE  MenuInv'
  <1>1. /\ MenuShape /\ walk.pc = "submit" /\ (walk.sure /\ wire = <<>> => Saw)
        /\ Menu!Send("1", [walk EXCEPT !.pc = "clear"])
        /\ UNCHANGED <<form, calm, answers, done, walks, keys, cuts>>
    BY DEF MenuInv, Menu!Submit, Menu!Sends
  <1>2. walk.sure /\ wire = <<>> => Lawful(menu, "1", answers)
    BY <1>1, SubmitLawful
  <1>3. "1" \in KeyNames \ {"Left"} /\ "clear" \in Waits \ {"leftWait"}
    BY DEF KeyNames, Waits
  <1> QED
    BY <1>1, <1>2, <1>3, SendsOn

\* A key lands: the first on its way.
LEMMA LandsKeeps ==
  ASSUME MenuInv, Menu!Lands
  PROVE  MenuInv'
  <1> DEFINE k == Head(wire).key
             e == Head(wire)
  <1>0. /\ MenuShape /\ FormOK /\ IsMenu(menu) /\ wire \in Seq(WireKeys) /\ wire # <<>> /\ ~calm
        /\ IsWalk(walk)
        /\ UNCHANGED <<form, calm, answers, done, walks, keys, cuts>>
        /\ menu' = Menu!Apply(menu, k) /\ Menu!Ending(e, menu') /\ wire' = Tail(wire)
        /\ walk' = [walk EXCEPT !.sure = walk.pc = "idle"]
    BY DEF MenuInv, MenuShape, Menu!Lands
  <1>1. e = wire[1] /\ 1 \in DOMAIN wire /\ wire' \in Seq(WireKeys)
    BY <1>0
  <1>2. e.sure => Lawful(menu, e.key, e.picks)
    BY <1>1 DEF MenuInv, WireSure
  <1>3. Menu!SubmitsOnlyPicks'
    <2>1. Menu!SubmitsOnlyPicks
      BY DEF MenuInv
    <2> HIDE DEF e
    <2> QED
      BY <1>0, <1>2, <2>1, EndsRight DEF e
  <1>4. IsMenu(menu')
    BY <1>0, ApplyIs
  <1> HIDE DEF k, e
  <1>5. WireSure'
    <2> SUFFICES ASSUME NEW j \in DOMAIN wire', wire'[j].sure PROVE FALSE
      BY DEF WireSure
    <2>1. j \in 1..(Len(wire) - 1) /\ wire'[j] = wire[j + 1] /\ j + 1 \in DOMAIN wire /\ j + 1 # 1
      BY <1>0
    <2>2. wire[j + 1].sure
      BY <2>1
    <2> QED
      BY <2>1, <2>2 DEF MenuInv, WireSure
  <1> PICK b \in BOOLEAN : b = (walk.pc = "idle")
    OBVIOUS
  <1> DEFINE w == [pc |-> walk.pc, i |-> walk.i, exp |-> walk.exp, sure |-> b]
  <1>6. walk' = w
    <2>1. walk = [pc |-> walk.pc, i |-> walk.i, exp |-> walk.exp, sure |-> walk.sure]
      BY <1>0 DEF IsWalk
    <2>2. walk' = [walk EXCEPT !.sure = b]
      BY <1>0
    <2> QED
      BY ONLY <2>1, <2>2
  <1>7. w.pc = walk.pc /\ w.i = walk.i /\ w.exp = walk.exp /\ w.sure = b
             /\ w = [pc |-> w.pc, i |-> w.i, exp |-> w.exp, sure |-> w.sure]
    OBVIOUS
  <1> HIDE DEF w
  <1>8. IsWalk(w)
    BY <1>0, <1>7 DEF IsWalk
  <1>9. MenuShape'
    <2>1. answers' \in Menu!Picks /\ done' \in 0..Menu!N /\ walks' \in 0..MaxWalks /\ keys' \in 0..MaxKeys
             /\ cuts' \in 0..MaxCuts
      BY <1>0 DEF MenuShape
    <2> QED
      BY <1>0, <1>1, <1>4, <1>6, <1>8, <2>1, ShapeKeeps
  <1>10. AtQuestion'
    <2>1. QuestionAt(w)
      BY <1>7 DEF MenuInv, AtQuestion, QuestionAt
    <2> QED
      BY <1>0, <1>6, <2>1, FormKeeps DEF AtQuestion, QuestionAt, Menu!WalkSteps
  <1>11. (walk.sure /\ wire = <<>> => Saw)'
    <2>1. b => w.pc = "idle"
      BY <1>7
    <2> QED
      BY <1>6, <1>7, <2>1 DEF Saw, SawAt
  <1>12. ~calm'
    BY <1>0
  <1> QED
    BY <1>3, <1>5, <1>9, <1>10, <1>11, <1>12 DEF MenuInv

\* The operator types: what was on its way stays ahead.
LEMMA TouchKeeps ==
  ASSUME MenuInv, NEW k \in Menu!OperatorKeys, Menu!Touch(k)
  PROVE  MenuInv'
  <1>0. /\ MenuShape /\ ~calm /\ wire \in Seq(WireKeys) /\ wire' = Append(wire, Menu!Typing(k))
        /\ UNCHANGED <<form, calm, menu, walk, answers, done, final, walks, cuts>>
        /\ keys' \in 0..MaxKeys
    BY Assumptions DEF MenuInv, MenuShape, Menu!Touch, Assumptions, Menu!BoundsAssumption
  <1>1. Menu!Typing(k) \in WireKeys /\ ~Menu!Typing(k).sure
    BY <1>0 DEF Menu!Typing, WireKeys, KeyNames, Menu!OperatorKeys, MenuShape
  <1>2. wire' \in Seq(WireKeys) /\ wire' # <<>>
    BY <1>0, <1>1
  <1>3. MenuShape'
    <2>1. /\ answers' \in Menu!Picks /\ done' \in 0..Menu!N /\ walks' \in 0..MaxWalks /\ cuts' \in 0..MaxCuts
          /\ IsMenu(menu') /\ IsWalk(walk') /\ UNCHANGED <<form, calm>>
      BY <1>0 DEF MenuShape
    <2> QED
      BY <1>0, <1>2, <2>1, ShapeKeeps
  <1>4. AtQuestion'
    BY <1>0, FormKeeps DEF MenuInv, AtQuestion, QuestionAt, Menu!WalkSteps
  <1>5. WireSure'
    <2> SUFFICES ASSUME NEW j \in DOMAIN wire', wire'[j].sure
                 PROVE  j = 1 /\ wire'[j].by = "walk" /\ Lawful(menu, wire'[j].key, wire'[j].picks)
      BY <1>0, FormStays DEF WireSure
    <2>1. j # Len(wire) + 1
      BY <1>0, <1>1
    <2>2. j \in DOMAIN wire /\ wire'[j] = wire[j]
      BY <1>0, <2>1
    <2> QED
      BY <2>2 DEF MenuInv, WireSure
  <1>6. Menu!SubmitsOnlyPicks'
    BY <1>0, FormKeeps DEF MenuInv, Menu!SubmitsOnlyPicks
  <1>7. ~calm'
    BY <1>0
  <1> QED
    BY <1>2, <1>3, <1>4, <1>5, <1>6, <1>7 DEF MenuInv

\* The menu opens at its first question.
LEMMA InitMenu == AllInit => MenuInv
  <1> SUFFICES ASSUME AllInit PROVE MenuInv
    OBVIOUS
  <1>1. /\ form \in Forms /\ calm \in BOOLEAN /\ wire = <<>> /\ walk = Menu!IdleWalk
        /\ answers \in Menu!Picks
        /\ done = 0 /\ final = <<>> /\ walks = 0 /\ keys = 0 /\ cuts = 0
    BY DEF AllInit, Menu!Init
  <1>2. FormOK
    BY <1>1, Assumptions DEF Assumptions, Menu!BoundsAssumption, FormOK
  <1>3. Menu!N \in Nat \ {0} /\ Menu!Review = Menu!N + 1 /\ Menu!Gone = Menu!N + 2
    BY <1>2, FormIs
  <1> DEFINE a == [i \in 1..Menu!N |-> {}]
             f == [i \in 1..Menu!N |-> ""]
  <1>4. menu = [focus |-> 1, ans |-> a, free |-> f, field |-> "", editing |-> FALSE]
    BY DEF AllInit, Menu!Init
  <1>5. a \in [1..Menu!N -> SUBSET (Menu!Rows \cup {"3"})] /\ f \in [1..Menu!N -> Menu!Texts]
               /\ "" \in Menu!Texts
    BY DEF Menu!Texts
  <1> HIDE DEF a, f
  <1>6. IsMenu(menu) /\ menu.focus = 1
    <2> PICK z \in Menu!Texts : menu = [focus |-> 1, ans |-> a, free |-> f, field |-> z, editing |-> FALSE]
      BY <1>4, <1>5
    <2>1. /\ menu.focus = 1 /\ menu.ans = a /\ menu.free = f /\ menu.field = z /\ menu.editing = FALSE
          /\ menu = [focus |-> menu.focus, ans |-> menu.ans, free |-> menu.free, field |-> menu.field,
                     editing |-> menu.editing]
      BY ONLY menu = [focus |-> 1, ans |-> a, free |-> f, field |-> z, editing |-> FALSE]
    <2>2. 1 \in 1..Menu!Gone
      BY <1>3
    <2> QED
      BY ONLY <1>5, <2>1, <2>2, z \in Menu!Texts, Zenon DEF IsMenu
  <1>7. walk.pc = "idle" /\ walk.i = 0 /\ walk.exp = Menu!NoPage /\ walk.sure = TRUE
             /\ walk = [pc |-> walk.pc, i |-> walk.i, exp |-> walk.exp, sure |-> walk.sure]
    BY <1>1 DEF Menu!IdleWalk
  <1>8. IsWalk(walk)
    <2>1. IsPage(Menu!NoPage) /\ "idle" \in Menu!WalkSteps
      BY DEF IsPage, Menu!NoPage, Menu!WalkSteps
    <2>2. 0 \in 0..Menu!Review
      BY <1>3
    <2> QED
      BY <1>7, <2>1, <2>2 DEF IsWalk
  <1>9. MenuShape
    <2>1. 0 \in 0..Menu!N /\ 0 \in 0..MaxWalks /\ 0 \in 0..MaxKeys /\ 0 \in 0..MaxCuts
      BY <1>3, Assumptions DEF Assumptions, Menu!BoundsAssumption
    <2>2. wire \in Seq(WireKeys)
      BY <1>1
    <2> QED
      BY <1>1, <1>2, <1>6, <1>8, <2>1, <2>2 DEF MenuShape
  <1>10. AtQuestion /\ Saw
    BY <1>7 DEF AtQuestion, QuestionAt, Saw, SawAt
  <1>11. WireSure
    BY <1>1 DEF WireSure
  <1>12. Calm
    <2>1. done < menu.focus /\ \A i \in 1..Menu!N : ~(i < menu.focus)
      BY <1>1, <1>3, <1>6
    <2>2. FieldAt(menu, walk)
      BY <1>7 DEF FieldAt
    <2> QED
      BY <1>1, <1>7, <2>1, <2>2 DEF Calm, CalmAt
  <1>13. Menu!SubmitsOnlyPicks
    BY <1>1 DEF Menu!SubmitsOnlyPicks
  <1> QED
    BY <1>9, <1>10, <1>11, <1>12, <1>13 DEF MenuInv

\* Nothing of the walk changes.
LEMMA RestKeeps == MenuInv /\ UNCHANGED menuVars => MenuInv'
  <1> SUFFICES ASSUME MenuInv, UNCHANGED menuVars PROVE MenuInv'
    OBVIOUS
  <1>1. UNCHANGED <<form, calm, menu, wire, answers, final, walks, keys>> /\ walk' = walk
               /\ done' = done /\ cuts' = cuts
    BY DEF menuVars
  <1>2. IsWalk(walk) /\ done \in 0..Menu!N /\ cuts \in 0..MaxCuts
    BY DEF MenuInv, MenuShape
  <1>3. QuestionAt(walk) /\ (walk.sure /\ wire = <<>> => SawAt(walk)) /\ (calm => CalmAt(menu, walk, done))
    BY DEF MenuInv, AtQuestion, Saw, Calm
  <1> QED
    BY <1>1, <1>2, <1>3, Walks

\* One step of the walk, the wire or the operator.
LEMMA StepMenu == MenuInv /\ Menu!Next => MenuInv'
  <1> SUFFICES ASSUME MenuInv, Menu!Next PROVE MenuInv'
    OBVIOUS
  <1>1. CASE \E picks \in Menu!Picks : Menu!Tap(picks)
    BY <1>1, TapKeeps
  <1>2. CASE Menu!WalkStep
    <2>1. CASE Menu!FirstRead
      BY <2>1, FirstKeeps
    <2>2. CASE Menu!LeftRead \/ Menu!LeftDone
      BY <2>2, LeftKeeps
    <2>3. CASE Menu!LeftKey
      BY <2>3, LeftKeyKeeps
    <2>4. CASE Menu!AskRead
      BY <2>4, AskKeeps
    <2>5. CASE Menu!PressOption \/ Menu!OpenText \/ Menu!WipeText \/ Menu!TypeText \/ Menu!EnterText
      BY <2>5, PickKeeps
    <2>6. CASE Menu!ReachText \/ Menu!TextOpened \/ Menu!TextShown
      BY <2>6, TextKeeps
    <2>7. CASE Menu!MultiRead \/ Menu!MultiShown
      BY <2>7, MultiKeeps
    <2>8. CASE Menu!MultiKey
      BY <2>8, MultiKeyKeeps
    <2>9. CASE Menu!Advanced
      BY <2>9, AdvancedKeeps
    <2>10. CASE Menu!Verify
      BY <2>10, VerifyKeeps
    <2>11. CASE Menu!Submit
      BY <2>11, SubmitKeeps
    <2>12. CASE Menu!Cleared
      BY <2>12, Stops DEF Menu!Cleared, Menu!Stop, MenuInv, MenuShape
    <2> QED
      BY <1>2, <2>1, <2>2, <2>3, <2>4, <2>5, <2>6, <2>7, <2>8, <2>9, <2>10, <2>11, <2>12 DEF Menu!WalkStep
  <1>3. CASE Menu!GivesUp
    BY <1>3, Stops DEF Menu!GivesUp, Menu!Stop, MenuInv, MenuShape
  <1>4. CASE Menu!CutOff
    <2>1. cuts' \in 0..MaxCuts
      <3>1. MaxCuts \in Nat
        BY Assumptions DEF Assumptions, Menu!BoundsAssumption
      <3>2. cuts \in 0..MaxCuts /\ cuts < MaxCuts /\ cuts' = cuts + 1
        BY <1>4 DEF Menu!CutOff, MenuInv, MenuShape
      <3> QED
        BY <3>1, <3>2
    <2> QED
      BY <1>4, <2>1, Stops DEF Menu!CutOff
  <1>5. CASE Menu!Lands
    BY <1>5, LandsKeeps
  <1>6. CASE \E k \in Menu!OperatorKeys : Menu!Touch(k)
    BY <1>6, TouchKeeps
  <1> QED
    BY <1>1, <1>2, <1>3, <1>4, <1>5, <1>6 DEF Menu!Next

\* The walk through a menu, in any scene: elsewhere it stands still.
LEMMA MenuInductive ==
  /\ AllInit => MenuInv
  /\ MenuInv /\ [AllNext]_allVars => MenuInv'
  <1>1. MenuInv /\ [AllNext]_allVars => MenuInv'
    <2> SUFFICES ASSUME MenuInv, [AllNext]_allVars PROVE MenuInv'
      OBVIOUS
    <2>1. Menu!Next \/ UNCHANGED menuVars
      BY DEF AllNext, allVars
    <2> QED
      BY <2>1, StepMenu, RestKeeps
  <1> QED
    BY <1>1, InitMenu

\* A menu that a walk ends on a sure look holds exactly the phone's answers, whatever was typed at the
\* terminal before, whenever the keys showed, and whatever earlier walks left in it.
THEOREM MenuThm == AllSpec => []MenuSound
  <1>1. MenuInv => MenuSound
    <2> SUFFICES ASSUME MenuInv PROVE Menu!TypeOK /\ Menu!SubmitsOnlyPicks
      BY DEF MenuSound
    <2>1. MenuShape /\ IsMenu(menu) /\ IsWalk(walk) /\ wire \in Seq(WireKeys)
      BY DEF MenuInv, MenuShape
    <2>2. \A j \in DOMAIN wire : wire[j].by \in {"walk", "terminal"} /\ wire[j].picks \in Menu!Picks
      <3> SUFFICES ASSUME NEW j \in DOMAIN wire PROVE wire[j].by \in {"walk", "terminal"}
                   /\ wire[j].picks \in Menu!Picks
        OBVIOUS
      <3>1. wire[j] \in WireKeys
        BY <2>1
      <3> QED
        BY <3>1 DEF WireKeys
    <2>3. /\ menu.focus \in 1..Menu!Gone /\ menu.editing \in BOOLEAN /\ menu.field \in Menu!Texts
          /\ menu.ans \in [1..Menu!N -> SUBSET (Menu!Rows \cup {"3"})]
          /\ menu.free \in [1..Menu!N -> Menu!Texts]
      BY <2>1 DEF IsMenu
    <2>4. walk.pc \in Menu!WalkSteps /\ walk.i \in 0..Menu!Review
      BY <2>1 DEF IsWalk
    <2>5. Menu!TypeOK
      BY <2>1, <2>2, <2>3, <2>4 DEF MenuShape, Menu!TypeOK
    <2> QED
      BY <2>5 DEF MenuInv
  <1> QED
    BY <1>1, MenuInductive, PTL DEF AllSpec

\* With nobody else at the terminal, what a walk reports as entered is in the menu, wherever it was cut
\* off: done runs behind the tab that is open, and every question before that tab holds its answer.
THEOREM DoneThm == AllSpec => []DoneIsTrue
  <1>1. MenuInv => DoneIsTrue
    <2> SUFFICES ASSUME MenuInv, calm, NEW i \in 1..done
                 PROVE  Menu!Answer(menu, i) = Menu!Want(answers, i)
      BY DEF DoneIsTrue, Menu!DoneIsTrue
    <2>1. FormOK /\ IsMenu(menu) /\ done \in 0..Menu!N
      BY DEF MenuInv, MenuShape
    <2>2. done < menu.focus /\ \A j \in 1..Menu!N : j < menu.focus => Right(menu, answers, j)
      BY DEF MenuInv, Calm, CalmAt
    <2>3. Menu!N \in Nat /\ menu.focus \in Int
      BY <2>1, FormIs DEF IsMenu
    <2>4. i \in 1..Menu!N /\ i < menu.focus
      BY <2>1, <2>2, <2>3
    <2> QED
      BY <2>2, <2>4 DEF Right
  <1> QED
    BY <1>1, MenuInductive, PTL DEF AllSpec

-----------------------------------------------------------------------------
(* Terminal tickets: what WsTicketProofs proves of the tickets alone. *)

Wp == INSTANCE WsTicketProofs WITH req <- opens

\* The instance of MCHandlers and the one with the proofs are the same specification.
LEMMA SameTickets ==
  /\ Ws!TicketsAssumption <=> Wp!TicketsAssumption
  /\ Ws!Init <=> Wp!Init
  /\ Ws!Next <=> Wp!Next
  /\ Ws!TypeOK <=> Wp!TypeOK
  /\ Ws!RevokedOpensNothing <=> Wp!RevokedOpensNothing
  <1>1. Ws!TicketsAssumption <=> Wp!TicketsAssumption
    BY DEF Ws!TicketsAssumption, Wp!TicketsAssumption
  <1>2. Ws!Init <=> Wp!Init
    BY DEF Ws!Init, Wp!Init, Ws!TokInit, Wp!TokInit, Ws!Idle, Wp!Idle
  <1>3. Ws!TypeOK <=> Wp!TypeOK
    BY DEF Ws!TypeOK, Wp!TypeOK, Ws!TokTypeOK, Wp!TokTypeOK, Ws!Entries, Wp!Entries
  <1>4. Ws!Next <=> Wp!Next
    BY DEF Ws!Next, Wp!Next, Ws!TicketAsk, Wp!TicketAsk, Ws!Issue, Wp!Issue, Ws!Redeem, Wp!Redeem,
           Ws!Check, Wp!Check, Ws!Open, Wp!Open, Ws!Lapse, Wp!Lapse, Ws!Restart, Wp!Restart,
           Ws!Mint, Wp!Mint, Ws!RevokeToken, Wp!RevokeToken, Ws!SaveTokens, Wp!SaveTokens,
           Ws!MaySave, Wp!MaySave, Ws!LoadTokens, Wp!LoadTokens, Ws!Spent, Wp!Spent, Ws!Idle, Wp!Idle,
           Ws!TokenStands, Wp!TokenStands, Ws!tokVars, Wp!tokVars, Ws!wsVars, Wp!wsVars
  <1>5. Ws!RevokedOpensNothing <=> Wp!RevokedOpensNothing
    BY DEF Ws!RevokedOpensNothing, Wp!RevokedOpensNothing
  <1> QED
    BY <1>1, <1>2, <1>3, <1>4, <1>5

\* A step of any scene is a step of the tickets, or none of theirs.
LEMMA StepTickets == [AllNext]_allVars => [Wp!Next]_Wp!vars
  <1> SUFFICES ASSUME [AllNext]_allVars PROVE [Wp!Next]_Wp!vars
    OBVIOUS
  <1>1. Ws!Next \/ UNCHANGED <<tokVars, wsVars>>
    BY DEF AllNext, allVars
  <1>2. UNCHANGED <<tokVars, wsVars>> => UNCHANGED Wp!vars
    BY DEF tokVars, wsVars, Wp!vars, Wp!tokVars, Wp!wsVars
  <1> QED
    BY <1>1, <1>2, SameTickets

\* A ticket presented after its token was revoked opens nothing, in whatever order requests, revocations
\* and restarts come.
THEOREM TicketsThm == AllSpec => []TicketsSound
  <1>1. AllInit => Wp!Revocation
    BY SameTickets, Wp!InitRevocation DEF AllInit
  <1>2. Wp!Revocation /\ [AllNext]_allVars => Wp!Revocation'
    BY StepTickets, Wp!StepRevocation
  <1>3. Wp!Revocation => TicketsSound
    BY SameTickets DEF Wp!Revocation, Wp!CutIsGone, Wp!RevokedOpensNothing, TicketsSound
  <1> QED
    BY <1>1, <1>2, <1>3, PTL DEF AllSpec

\* A ticket opens at most one terminal, and none once it was refused or lost.
THEOREM OneShotThm == AllSpec => TicketIsOneShot
  <1>1. Wp!Spec => Wp!TicketIsOneShot
    BY SameTickets, Assumptions, Wp!TicketOneShot DEF Assumptions
  <1>2. AllInit => Wp!Init
    BY SameTickets DEF AllInit
  <1>3. AllSpec => Wp!Spec
    BY <1>2, StepTickets, PTL DEF AllSpec, Wp!Spec
  <1>4. Wp!TicketIsOneShot <=> TicketIsOneShot
    <2>1. Wp!T!Init <=> Ws!T!Init
      BY DEF Wp!T!Init, Ws!T!Init, Wp!Stage, Ws!Stage, Wp!Held, Ws!Held
    <2>2. [Wp!T!Next]_<<[t \in Tickets |-> Wp!Stage(t)], opened>>
             <=> [Ws!T!Next]_<<[t \in Tickets |-> Ws!Stage(t)], opened>>
      BY DEF Wp!T!Next, Ws!T!Next, Wp!Stage, Ws!Stage, Wp!Held, Ws!Held, Wp!T!Stages, Ws!T!Stages,
             Wp!T!Moves, Ws!T!Moves, Wp!T!Yield, Ws!T!Yield
    <2> QED
      BY <2>1, <2>2, PTL DEF Wp!TicketIsOneShot, TicketIsOneShot, Ws!TicketIsOneShot, Wp!T!Spec, Ws!T!Spec
  <1> QED
    BY <1>1, <1>3, <1>4

-----------------------------------------------------------------------------
(* The queue of the sends: what AskQueueProofs proves of it alone. *)

Qp == INSTANCE AskQueueProofs WITH
    Reqs <- Messages, Sessions <- {c1, c2}, Of <- ChatOf, MaxRestarts <- 0, MaxCut <- 0, poll <- loops, lossy <- loose

\* The instance of MCHandlers and the one with the proofs are the same specification.
LEMMA SameSends ==
  /\ Ask!QueueAssumption <=> Qp!QueueAssumption
  /\ Ask!Init <=> Qp!Init
  /\ Ask!Next <=> Qp!Next
  /\ Ask!TypeOK <=> Qp!TypeOK
  /\ Ask!TrackerSound <=> Qp!TrackerSound
  <1>1. Ask!QueueAssumption <=> Qp!QueueAssumption
    BY DEF Ask!QueueAssumption, Qp!QueueAssumption, Ask!DeckStates, Qp!DeckStates, Ask!DeckMoves, Qp!DeckMoves,
           Ask!UiStates, Qp!UiStates, Ask!FinalUi, Qp!FinalUi
  <1>2. Ask!Init <=> Qp!Init
    BY DEF Ask!Init, Qp!Init, Ask!IdleWorker, Qp!IdleWorker, Ask!OffPoll, Qp!OffPoll
  <1>3. Ask!TypeOK <=> Qp!TypeOK
    BY DEF Ask!TypeOK, Qp!TypeOK, Ask!DeckStates, Qp!DeckStates, Ask!DeckMoves, Qp!DeckMoves,
           Ask!UiStates, Qp!UiStates, Ask!FinalUi, Qp!FinalUi, Ask!IsInjective, Qp!IsInjective
  <1>4. Ask!TrackerSound <=> Qp!TrackerSound
    BY DEF Ask!TrackerSound, Qp!TrackerSound, Ask!OnePoller, Qp!OnePoller, Ask!PollerFollows, Qp!PollerFollows,
           Ask!FileIsTracker, Qp!FileIsTracker, Ask!Cardinality, Qp!Cardinality
  <1>5. Ask!Next <=> Qp!Next
    BY DEF Ask!Next, Qp!Next, Ask!Ask, Qp!Ask, Ask!PublishSent, Qp!PublishSent, Ask!Answered, Qp!Answered,
           Ask!Lost, Qp!Lost, Ask!DeckStep, Qp!DeckStep,
           Ask!Ages, Qp!Ages, Ask!Restart, Qp!Restart, Ask!Worker, Qp!Worker, Ask!Poller, Qp!Poller,
           Ask!Take, Qp!Take, Ask!Enqueue, Qp!Enqueue, Ask!EnqueueFailed, Qp!EnqueueFailed, Ask!Track, Qp!Track,
           Ask!TrackObserve, Qp!TrackObserve, Ask!TrackPublish, Qp!TrackPublish, Ask!TrackStart, Qp!TrackStart,
           Ask!PollSnapshot, Qp!PollSnapshot, Ask!PollStatus, Qp!PollStatus, Ask!PollObserve, Qp!PollObserve,
           Ask!PollPublish, Qp!PollPublish, Ask!PollEnd, Qp!PollEnd, Ask!Goes, Qp!Goes, Ask!Told, Qp!Told,
           Ask!Oldest, Qp!Oldest, Ask!StartPoller, Qp!StartPoller, Ask!Observe, Qp!Observe, Ask!Changed, Qp!Changed,
           Ask!KeyOf, Qp!KeyOf, Ask!Position, Qp!Position, Ask!Before, Qp!Before, Ask!Save, Qp!Save,
           Ask!Show, Qp!Show, Ask!Ui, Qp!Ui, Ask!FinalUi, Qp!FinalUi, Ask!DeckMoves, Qp!DeckMoves,
           Ask!IdleWorker, Qp!IdleWorker, Ask!OffPoll, Qp!OffPoll, Ask!Sleeping, Qp!Sleeping,
           Ask!Target, Qp!Target, Ask!Max, Qp!Max, Ask!pageVars, Qp!pageVars,
           Ask!deckVars, Qp!deckVars, Ask!trackVars, Qp!trackVars, Ask!restVars, Qp!restVars,
           Ask!Cardinality, Qp!Cardinality, Ask!Min, Qp!Min
  <1> QED
    BY <1>1, <1>2, <1>3, <1>4, <1>5

\* A step of any scene is a step of the sends, or none of theirs.
LEMMA StepSends == [AllNext]_allVars => [Qp!Next]_Qp!vars
  <1> SUFFICES ASSUME [AllNext]_allVars PROVE [Qp!Next]_Qp!vars
    OBVIOUS
  <1>1. Ask!Next \/ UNCHANGED askVars
    BY DEF AllNext, allVars
  <1>2. UNCHANGED askVars => UNCHANGED Qp!vars
    BY DEF askVars, Qp!vars, Qp!deckVars, Qp!trackVars, Qp!pageVars, Qp!restVars
  <1> QED
    BY <1>1, <1>2, SameSends

\* The sends keep their types and the tracker's flag, loop and file agree, in whatever order several
\* messages to several sessions are handed over, polled and settled.
THEOREM SendsThm == AllSpec => []SendsSound
  <1>0. Qp!QueueAssumption
    BY Assumptions, SameSends DEF Assumptions
  <1>1. AllInit => Qp!Typing /\ Qp!FileIsTracker
    BY <1>0, SameSends, Qp!InitTyping DEF AllInit, Qp!Init, Qp!FileIsTracker
  <1>2. Qp!Typing /\ Qp!FileIsTracker /\ [AllNext]_allVars => (Qp!Typing /\ Qp!FileIsTracker)'
    BY <1>0, StepSends, Qp!StepTyping, Qp!FileStep
  <1>3. Qp!Typing /\ Qp!FileIsTracker => SendsSound
    BY SameSends, Qp!TypedIs, Qp!TrackedOnce DEF Qp!Typing, Qp!Tracking, Qp!TrackerSound, SendsSound
  <1> QED
    BY <1>1, <1>2, <1>3, PTL DEF AllSpec

-----------------------------------------------------------------------------
(***************************************************************************)
(* The reads of a transcript.                                              *)
(*                                                                         *)
(* Some messages hold the lines after a up to b, each once and in order;   *)
(* an offset stands after line k.  That is true of the cache and of every  *)
(* call under way, with a k the file has; a size tells how many lines the  *)
(* file had when it was taken, and they are among the first k.             *)
(***************************************************************************)

\* The line the n-th message ends with.
Edge(ms, a, n) == IF n = 0 THEN a ELSE ms[n][Len(ms[n])]

Holds(ms, a, b) ==
    /\ ms \in Seq(Seq(Nat)) /\ a \in Nat /\ b \in Nat
    /\ \A n \in 1..Len(ms) :
        Len(ms[n]) >= 1 /\ \A i \in 1..Len(ms[n]) : ms[n][i] = Edge(ms, a, n - 1) + i
    /\ Edge(ms, a, Len(ms)) = b

\* A set of naturals with 0 and each successor has them all.
LEMMA Induction ==
  ASSUME NEW T, 0 \in T, \A n \in Nat : n \in T => n + 1 \in T
  PROVE  \A n \in Nat : n \in T
  <1> DEFINE out == {n \in Nat : n \notin T}
  <1> SUFFICES ASSUME out # {} PROVE FALSE
    OBVIOUS
  <1>1. PICK n \in out : \A k \in out : n <= k
    BY Qp!MinIs
  <1>2. n # 0 /\ n - 1 \in Nat /\ n = (n - 1) + 1
    BY <1>1
  <1>3. n - 1 \in T
    BY <1>1, <1>2
  <1> QED
    BY <1>1, <1>2, <1>3

\* One more message of one line.
LEMMA HoldsAppend ==
  ASSUME NEW ms, NEW a, NEW b, Holds(ms, a, b)
  PROVE  Holds(Append(ms, <<b + 1>>), a, b + 1)
  <1> DEFINE new == Append(ms, <<b + 1>>)
             L == Len(ms)
  <1>1. ms \in Seq(Seq(Nat)) /\ a \in Nat /\ b \in Nat /\ L \in Nat
    BY DEF Holds
  <1>2. <<b + 1>> \in Seq(Nat) /\ Len(<<b + 1>>) = 1 /\ <<b + 1>>[1] = b + 1
    BY <1>1
  <1>3. /\ new \in Seq(Seq(Nat)) /\ Len(new) = L + 1 /\ new[L + 1] = <<b + 1>>
        /\ \A n \in 1..L : new[n] = ms[n]
    BY <1>1, <1>2
  <1> HIDE DEF new, L
  <1>4. \A n \in 0..L : Edge(new, a, n) = Edge(ms, a, n)
    BY <1>1, <1>3 DEF Edge
  <1>5. Edge(ms, a, L) = b
    BY DEF Holds, L
  <1>6. ASSUME NEW n \in 1..Len(new), n # L + 1
        PROVE  Len(new[n]) >= 1 /\ \A i \in 1..Len(new[n]) : new[n][i] = Edge(new, a, n - 1) + i
    <2>1. n \in 1..L /\ n - 1 \in 0..L
      BY <1>1, <1>3, <1>6
    <2>2. Len(ms[n]) >= 1 /\ \A i \in 1..Len(ms[n]) : ms[n][i] = Edge(ms, a, n - 1) + i
      BY <2>1 DEF Holds, L
    <2> QED
      BY <1>3, <1>4, <2>1, <2>2
  <1>7. Len(new[L + 1]) = 1 /\ \A i \in 1..1 : new[L + 1][i] = Edge(new, a, L) + i
    BY <1>1, <1>2, <1>3, <1>4, <1>5
  <1>8. Edge(new, a, L + 1) = b + 1
    <2>1. L + 1 # 0 /\ new[L + 1][Len(new[L + 1])] = b + 1
      BY <1>1, <1>2, <1>3
    <2> QED
      BY <2>1 DEF Edge
  <1>9. \A n \in 1..Len(new) :
          Len(new[n]) >= 1 /\ \A i \in 1..Len(new[n]) : new[n][i] = Edge(new, a, n - 1) + i
    <2> SUFFICES ASSUME NEW n \in 1..Len(new)
                 PROVE  Len(new[n]) >= 1 /\ \A i \in 1..Len(new[n]) : new[n][i] = Edge(new, a, n - 1) + i
      OBVIOUS
    <2>1. CASE n = L + 1
      BY <1>1, <1>7, <2>1
    <2> QED
      BY <1>6, <2>1
  <1>10. Edge(new, a, Len(new)) = b + 1 /\ b + 1 \in Nat
    BY <1>1, <1>3, <1>8
  <1>11. Holds(new, a, b + 1)
    BY <1>1, <1>3, <1>9, <1>10 DEF Holds
  <1> QED
    BY <1>11 DEF new

\* The last message with one line more.
LEMMA HoldsFold ==
  ASSUME NEW ms, NEW a, NEW b, Holds(ms, a, b), ms # <<>>
  PROVE  Holds([ms EXCEPT ![Len(ms)] = Append(ms[Len(ms)], b + 1)], a, b + 1)
  <1> DEFINE L == Len(ms)
             one == Append(ms[L], b + 1)
             new == [ms EXCEPT ![L] = one]
  <1>1. ms \in Seq(Seq(Nat)) /\ a \in Nat /\ b \in Nat /\ L \in Nat /\ L >= 1 /\ ms[L] \in Seq(Nat)
    BY DEF Holds
  <1>2. /\ one \in Seq(Nat) /\ Len(one) = Len(ms[L]) + 1 /\ one[Len(ms[L]) + 1] = b + 1
        /\ \A i \in 1..Len(ms[L]) : one[i] = ms[L][i]
    BY <1>1
  <1>n. L \in Nat /\ L >= 1 /\ L - 1 \in Nat
    BY <1>1
  <1>d. DOMAIN ms = 1..L
    BY <1>1
  <1> HIDE DEF one, L
  <1>3. new \in Seq(Seq(Nat)) /\ Len(new) = L /\ new[L] = one /\ \A n \in 1..(L - 1) : new[n] = ms[n]
    <2>1. L \in DOMAIN ms
      BY <1>d, <1>n
    <2>2. new \in Seq(Seq(Nat)) /\ DOMAIN new = 1..L
      BY <1>1, <1>2, <1>d, <2>1
    <2>3. Len(new) = L
      BY <1>n, <2>2
    <2>4. new[L] = one
      BY <2>1
    <2>5. \A n \in 1..(L - 1) : n \in DOMAIN ms /\ n # L
      BY <1>n, <1>d
    <2> QED
      BY <2>2, <2>3, <2>4, <2>5
  <1> HIDE DEF new
  <1>4. \A n \in 0..(L - 1) : Edge(new, a, n) = Edge(ms, a, n)
    <2> SUFFICES ASSUME NEW n \in 0..(L - 1) PROVE Edge(new, a, n) = Edge(ms, a, n)
      OBVIOUS
    <2>1. n = 0 \/ n \in 1..(L - 1)
      BY <1>n
    <2> QED
      BY <1>3, <2>1 DEF Edge
  <1>5. Len(ms[L]) >= 1 /\ (\A i \in 1..Len(ms[L]) : ms[L][i] = Edge(ms, a, L - 1) + i) /\ Len(ms[L]) \in Nat
    BY <1>1, <1>n DEF Holds, L
  <1>6. b = Edge(ms, a, L - 1) + Len(ms[L])
    <2>1. Edge(ms, a, L) = b /\ Len(ms[L]) \in 1..Len(ms[L])
      BY <1>5 DEF Holds, L
    <2>2. Edge(ms, a, L) = ms[L][Len(ms[L])]
      BY <1>n DEF Edge
    <2> QED
      BY <1>5, <2>1, <2>2
  <1>7. Len(new[L]) >= 1 /\ \A i \in 1..Len(new[L]) : new[L][i] = Edge(new, a, L - 1) + i
    <2>1. Edge(new, a, L - 1) = Edge(ms, a, L - 1) /\ Edge(ms, a, L - 1) \in Int
      <3>1. Edge(new, a, L - 1) = Edge(ms, a, L - 1)
        BY <1>n, <1>4
      <3>2. CASE L - 1 = 0
        BY <1>1, <3>1, <3>2 DEF Edge
      <3>3. CASE L - 1 # 0
        <4>1. L - 1 \in 1..L /\ ms[L - 1] \in Seq(Nat)
          BY <1>1, <1>n, <1>d, <3>3
        <4>2. Len(ms[L - 1]) >= 1
          BY <4>1 DEF Holds, L
        <4>3. Len(ms[L - 1]) \in 1..Len(ms[L - 1])
          BY <4>1, <4>2
        <4>4. ms[L - 1][Len(ms[L - 1])] \in Nat
          BY <4>1, <4>3
        <4> QED
          BY <3>1, <3>3, <4>4 DEF Edge
      <3> QED
        BY <3>2, <3>3
    <2>2. ASSUME NEW i \in 1..(Len(ms[L]) + 1) PROVE one[i] = Edge(ms, a, L - 1) + i
      <3>1. CASE i \in 1..Len(ms[L])
        BY <1>2, <1>5, <3>1
      <3>2. CASE i = Len(ms[L]) + 1
        <4>1. one[i] = b + 1
          BY <1>2, <3>2
        <4> QED
          BY <1>5, <1>6, <2>1, <3>2, <4>1
      <3> QED
        BY <1>5, <3>1, <3>2
    <2>3. Len(new[L]) = Len(ms[L]) + 1 /\ Len(new[L]) >= 1
      BY <1>2, <1>3, <1>5
    <2> QED
      BY <1>3, <2>1, <2>2, <2>3
  <1>8. ASSUME NEW n \in 1..(L - 1)
        PROVE  Len(new[n]) >= 1 /\ \A i \in 1..Len(new[n]) : new[n][i] = Edge(new, a, n - 1) + i
    <2>1. n \in 1..L /\ n - 1 \in 0..(L - 1)
      BY <1>n
    <2>2. Len(ms[n]) >= 1 /\ \A i \in 1..Len(ms[n]) : ms[n][i] = Edge(ms, a, n - 1) + i
      BY <2>1 DEF Holds, L
    <2> QED
      BY <1>3, <1>4, <2>1, <2>2
  <1>9. Edge(new, a, L) = b + 1
    <2>1. L # 0 /\ new[L][Len(new[L])] = b + 1
      BY <1>1, <1>2, <1>3, <1>n
    <2> QED
      BY <2>1 DEF Edge
  <1>10. \A n \in 1..Len(new) :
          Len(new[n]) >= 1 /\ \A i \in 1..Len(new[n]) : new[n][i] = Edge(new, a, n - 1) + i
    <2> SUFFICES ASSUME NEW n \in 1..Len(new)
                 PROVE  Len(new[n]) >= 1 /\ \A i \in 1..Len(new[n]) : new[n][i] = Edge(new, a, n - 1) + i
      OBVIOUS
    <2>1. n = L \/ n \in 1..(L - 1)
      BY <1>n, <1>3
    <2> QED
      BY <1>7, <1>8, <2>1
  <1>11. Holds(new, a, b + 1)
    BY <1>1, <1>3, <1>9, <1>10 DEF Holds
  <1> QED
    BY <1>11 DEF new, one, L

\* The messages of a later part of the file after those of an earlier one.
LEMMA HoldsConcat ==
  ASSUME NEW x, NEW y, NEW a, NEW b, Holds(x, 0, a), Holds(y, a, b)
  PROVE  Holds(x \o y, 0, b)
  <1> DEFINE z == x \o y
             K == Len(x)
             L == Len(y)
  <1>1. x \in Seq(Seq(Nat)) /\ y \in Seq(Seq(Nat)) /\ a \in Nat /\ b \in Nat /\ K \in Nat /\ L \in Nat
    BY DEF Holds
  <1>2. /\ z \in Seq(Seq(Nat)) /\ Len(z) = K + L
        /\ \A n \in 1..K : z[n] = x[n]
        /\ \A n \in 1..L : z[K + n] = y[n]
    BY <1>1
  <1> HIDE DEF z, K, L
  <1>3. Edge(x, 0, K) = a /\ Edge(y, a, L) = b
    BY DEF Holds, K, L
  <1>4. \A n \in 0..K : Edge(z, 0, n) = Edge(x, 0, n)
    BY <1>1, <1>2 DEF Edge
  <1>5. \A n \in 0..L : Edge(z, 0, K + n) = Edge(y, a, n)
    <2> SUFFICES ASSUME NEW n \in 0..L PROVE Edge(z, 0, K + n) = Edge(y, a, n)
      OBVIOUS
    <2>1. CASE n = 0
      <3>1. Edge(z, 0, K) = Edge(x, 0, K) /\ K + n = K
        BY <1>1, <1>4, <2>1
      <3> QED
        BY <1>3, <2>1, <3>1 DEF Edge
    <2>2. CASE n # 0
      BY <1>1, <1>2, <2>2 DEF Edge
    <2> QED
      BY <2>1, <2>2
  <1>6. ASSUME NEW n \in 1..K
        PROVE  Len(z[n]) >= 1 /\ \A i \in 1..Len(z[n]) : z[n][i] = Edge(z, 0, n - 1) + i
    <2>1. n - 1 \in 0..K
      BY <1>1
    <2>2. Len(x[n]) >= 1 /\ \A i \in 1..Len(x[n]) : x[n][i] = Edge(x, 0, n - 1) + i
      BY DEF Holds, K
    <2> QED
      BY <1>2, <1>4, <2>1, <2>2
  <1>7. ASSUME NEW n \in 1..L
        PROVE  Len(z[K + n]) >= 1 /\ \A i \in 1..Len(z[K + n]) : z[K + n][i] = Edge(z, 0, K + n - 1) + i
    <2>1. n - 1 \in 0..L /\ K + n - 1 = K + (n - 1)
      BY <1>1
    <2>2. Len(y[n]) >= 1 /\ \A i \in 1..Len(y[n]) : y[n][i] = Edge(y, a, n - 1) + i
      BY DEF Holds, L
    <2> QED
      BY <1>2, <1>5, <2>1, <2>2
  <1>8. \A n \in 1..Len(z) : Len(z[n]) >= 1 /\ \A i \in 1..Len(z[n]) : z[n][i] = Edge(z, 0, n - 1) + i
    <2> SUFFICES ASSUME NEW n \in 1..Len(z)
                 PROVE  Len(z[n]) >= 1 /\ \A i \in 1..Len(z[n]) : z[n][i] = Edge(z, 0, n - 1) + i
      OBVIOUS
    <2>1. CASE n <= K
      BY <1>1, <1>6, <2>1
    <2>2. CASE ~ (n <= K)
      <3>1. n - K \in 1..L /\ K + (n - K) = n
        BY <1>1, <1>2, <2>2
      <3> DEFINE j == n - K
      <3>2. j \in 1..L /\ K + j = n
        BY <3>1
      <3> HIDE DEF j
      <3>3. Len(z[K + j]) >= 1 /\ \A i \in 1..Len(z[K + j]) : z[K + j][i] = Edge(z, 0, K + j - 1) + i
        BY <1>7, <3>2
      <3>4. z[K + j] = z[n]
        BY <3>2, Zenon
      <3>5. K + j - 1 = n - 1
        BY <1>1, <3>2
      <3> QED
        BY <3>3, <3>4, <3>5
    <2> QED
      BY <2>1, <2>2
  <1>9. Edge(z, 0, Len(z)) = b
    BY <1>1, <1>2, <1>3, <1>5
  <1>10. Holds(z, 0, b)
    BY <1>1, <1>2, <1>8, <1>9 DEF Holds
  <1> QED
    BY <1>10 DEF z

\* What the answer asks of the messages.
LEMMA HoldsInOrder ==
  ASSUME NEW ms, NEW b, Holds(ms, 0, b)
  PROVE  Tr!InOrder(ms) /\ Tr!LastOf(ms) = b
  <1>1. ms \in Seq(Seq(Nat)) /\ Len(ms) \in Nat /\ DOMAIN ms = 1..Len(ms)
    BY DEF Holds
  <1>2. Tr!LastOf(ms) = b
    <2>1. CASE ms = <<>>
      BY <2>1 DEF Holds, Edge, Tr!LastOf
    <2>2. CASE ms # <<>>
      BY <1>1, <2>2 DEF Holds, Edge, Tr!LastOf, Tr!LastLine
    <2> QED
      BY <2>1, <2>2
  <1>3. \A n \in 1..Len(ms) : Edge(ms, 0, n - 1) = Tr!LineBefore(ms, n)
    BY <1>1 DEF Edge, Tr!LineBefore, Tr!LastLine
  <1>4. \A n \in 1..Len(ms) : ms[n] \in Seq(Nat) /\ DOMAIN ms[n] = 1..Len(ms[n])
    BY <1>1
  <1>5. Tr!InOrder(ms)
    BY <1>1, <1>3, <1>4 DEF Holds, Tr!InOrder
  <1> QED
    BY <1>2, <1>5

\* A line more is an element of the last message or a message of its own.
LEMMA HoldsAdded ==
  ASSUME NEW ms, NEW a, NEW b, Holds(ms, a, b)
  PROVE  Holds(Tr!Added(ms, b + 1), a, b + 1)
  <1>1. Holds(Append(ms, <<b + 1>>), a, b + 1)
    BY HoldsAppend
  <1>2. ASSUME ms # <<>> PROVE Holds([ms EXCEPT ![Len(ms)] = Append(ms[Len(ms)], b + 1)], a, b + 1)
    BY HoldsFold, <1>2
  <1>3. Len(ms) # 0 <=> ms # <<>>
    BY DEF Holds
  <1> DEFINE folds == /\ transcript[b + 1] = "out" /\ Len(ms) # 0
                      /\ transcript[ms[Len(ms)][1]] = "in" /\ Len(ms[Len(ms)]) = 1
  <1>4. Tr!Added(ms, b + 1) = IF folds THEN [ms EXCEPT ![Len(ms)] = Append(ms[Len(ms)], b + 1)]
                              ELSE Append(ms, <<b + 1>>)
    BY DEF Tr!Added
  <1>5. folds => ms # <<>>
    BY <1>3
  <1> HIDE DEF folds
  <1> QED
    BY <1>1, <1>2, <1>4, <1>5

\* The lines from an offset after line k on, read in one pass.
LEMMA ParsedIs ==
  ASSUME NEW from, NEW k \in Nat, Tr!Lines \in Nat, k <= Tr!Lines,
         \A n \in 1..Tr!Lines : Tr!Written(n) >= from <=> n > k
  PROVE  Holds(Tr!Parsed(from), k, Tr!Lines)
  <1> DEFINE L == Tr!Lines
             Body(f, n) == IF n = 0 THEN <<>> ELSE IF Tr!Written(n) >= from THEN Tr!Added(f[n - 1], n) ELSE f[n - 1]
             up == CHOOSE f : f = [n \in 0..L |-> Body(f, n)]
             T == {m \in Nat : \E f : f = [n \in 0..m |-> Body(f, n)]}
             U == {m \in Nat : m <= L => Holds(up[m], k, IF m > k THEN m ELSE k)}
  <1>1. Tr!Parsed(from) = up[L]
    BY DEF Tr!Parsed
  <1>2. \A f, g, n : (n # 0 => f[n - 1] = g[n - 1]) => Body(f, n) = Body(g, n)
    OBVIOUS
  <1>3. \A f : Body(f, 0) = <<>>
    OBVIOUS
  <1>4. ASSUME NEW f, NEW n, n # 0, Tr!Written(n) >= from PROVE Body(f, n) = Tr!Added(f[n - 1], n)
    BY <1>4
  <1>5. ASSUME NEW f, NEW n, n # 0, ~(Tr!Written(n) >= from) PROVE Body(f, n) = f[n - 1]
    BY <1>5
  <1> HIDE DEF Body
  <1>6. \A m \in Nat : m \in T
    <2>1. 0 \in T
      <3> DEFINE f == [n \in 0..0 |-> <<>>]
      <3>1. \A n \in 0..0 : <<>> = Body(f, n)
        BY <1>3
      <3>2. f = [n \in 0..0 |-> Body(f, n)]
        BY <3>1
      <3> QED
        BY <3>2
    <2>2. ASSUME NEW m \in Nat, m \in T PROVE m + 1 \in T
      <3>1. PICK f : f = [n \in 0..m |-> Body(f, n)]
        BY <2>2
      <3> DEFINE g == [n \in 0..(m + 1) |-> IF n = m + 1 THEN Body(f, m + 1) ELSE f[n]]
      <3>2. \A n \in 0..m : g[n] = f[n]
        OBVIOUS
      <3>3. \A n \in 0..m : f[n] = Body(f, n)
        BY <3>1
      <3>4. g[m + 1] = Body(f, m + 1)
        OBVIOUS
      <3> HIDE DEF g
      <3>5. \A n \in 0..(m + 1) : g[n] = Body(g, n)
        <4> SUFFICES ASSUME NEW n \in 0..(m + 1) PROVE g[n] = Body(g, n)
          OBVIOUS
        <4>1. n # 0 => n - 1 \in 0..m
          OBVIOUS
        <4>2. Body(f, n) = Body(g, n)
          BY <1>2, <3>2, <4>1
        <4>3. n = m + 1 \/ n \in 0..m
          OBVIOUS
        <4> QED
          BY <3>2, <3>3, <3>4, <4>2, <4>3
      <3>6. g = [n \in 0..(m + 1) |-> g[n]]
        BY DEF g
      <3>7. g = [n \in 0..(m + 1) |-> Body(g, n)]
        BY <3>5, <3>6
      <3> QED
        BY <3>7
    <2> HIDE DEF T
    <2> QED
      BY <2>1, <2>2, Induction
  <1>7. \A n \in 0..L : up[n] = Body(up, n)
    <2>1. L \in T
      BY <1>6
    <2>2. \E f : f = [n \in 0..L |-> Body(f, n)]
      BY <2>1
    <2>3. up = [n \in 0..L |-> Body(up, n)]
      BY <2>2
    <2> HIDE DEF up
    <2> QED
      BY <2>3
  <1> HIDE DEF up
  <1>8. \A m \in Nat : m \in U
    <2>1. 0 \in U
      <3>1. up[0] = <<>>
        BY <1>3, <1>7
      <3>2. Holds(<<>>, k, k)
        BY DEF Holds, Edge
      <3>3. 0 <= L => Holds(up[0], k, IF 0 > k THEN 0 ELSE k)
        BY <3>1, <3>2
      <3> QED
        BY <3>3
    <2>2. ASSUME NEW m \in Nat, m \in U PROVE m + 1 \in U
      <3> SUFFICES ASSUME m + 1 <= L PROVE Holds(up[m + 1], k, IF m + 1 > k THEN m + 1 ELSE k)
        OBVIOUS
      <3>1. Holds(up[m], k, IF m > k THEN m ELSE k)
        BY <2>2
      <3>2. up[m + 1] = Body(up, m + 1) /\ m + 1 # 0 /\ m + 1 - 1 = m /\ m + 1 \in 1..L
        BY <1>7
      <3>3. CASE m + 1 > k
        <4>1. (IF m > k THEN m ELSE k) = m /\ (IF m + 1 > k THEN m + 1 ELSE k) = m + 1
          BY <3>3
        <4>2. Tr!Written(m + 1) >= from
          BY <3>2, <3>3
        <4>3. Body(up, m + 1) = Tr!Added(up[m + 1 - 1], m + 1)
          BY <1>4, <3>2, <4>2
        <4>4. up[m + 1] = Tr!Added(up[m], m + 1)
          BY <3>2, <4>3
        <4>5. Holds(Tr!Added(up[m], m + 1), k, m + 1)
          BY HoldsAdded, <3>1, <4>1
        <4> QED
          BY <4>1, <4>4, <4>5
      <3>4. CASE ~(m + 1 > k)
        <4>1. (IF m > k THEN m ELSE k) = k /\ (IF m + 1 > k THEN m + 1 ELSE k) = k
          BY <3>4
        <4>2. ~(Tr!Written(m + 1) >= from)
          BY <3>2, <3>4
        <4>3. Body(up, m + 1) = up[m + 1 - 1]
          BY <1>5, <3>2, <4>2
        <4>4. up[m + 1] = up[m]
          BY <3>2, <4>3
        <4> QED
          BY <3>1, <4>1, <4>4
      <3> QED
        BY <3>3, <3>4
    <2> HIDE DEF U
    <2> QED
      BY <2>1, <2>2, Induction
  <1>9. L \in U
    BY <1>8
  <1>10. L \in Nat /\ (IF L > k THEN L ELSE k) = L
    OBVIOUS
  <1>11. Holds(up[L], k, IF L > k THEN L ELSE k)
    BY <1>9, <1>10
  <1>12. Holds(up[L], k, L)
    BY <1>10, <1>11
  <1> QED
    BY <1>1, <1>12

\* A file of a size has n lines a reader finds.
Lin(size, n) == n \in Nat /\ 3 * n <= size + 1 /\ size + 1 < 3 * (n + 1)

\* The messages hold the first k lines of the file, and the offset is after line k.
Parse(ms, off, k) ==
    /\ k \in Nat /\ off \in Nat /\ k <= Tr!Lines /\ off <= Tr!Size
    /\ IF k = 0 THEN off = 0 ELSE off \in {3 * k - 1, 3 * k}
    /\ Holds(ms, 0, k)

FileShape ==
    /\ transcript \in Seq({"in", "out"}) /\ Len(transcript) <= MaxLines
    /\ units \in 1..3 /\ (transcript = <<>> => units = 3)

CacheHolds(p) ==
    p = None \/ /\ p \in [size : Nat, off : Nat, msgs : Seq(Seq(Nat))] /\ p.size <= Tr!Size
                /\ \E k \in Nat : Parse(p.msgs, p.off, k) /\ \E n \in 0..k : Lin(p.size, n)

CallType == [pc : {"idle", "get", "read", "put"}, size : Nat, floor : Nat, base : Seq(Seq(Nat)),
             from : Nat, off : Nat, msgs : Seq(Seq(Nat))]

CallHolds(p) ==
    /\ p \in CallType
    /\ p.size <= Tr!Size /\ Lin(p.size, p.floor)
    /\ p.pc # "put" => \E k \in Nat : Parse(p.base, p.from, k)
    /\ p.pc = "put" => p.from = 0 /\ \E k \in Nat : Parse(p.msgs, p.off, k) /\ p.floor <= k

TranscriptInv ==
    /\ FileShape /\ short = FALSE
    /\ CacheHolds(parsed)
    /\ DOMAIN parses = Requests /\ \A c \in Requests : CallHolds(parses[c])

\* What the file's shape says of its size and its lines.
LEMMA SizeIs ==
  ASSUME FileShape
  PROVE  /\ Tr!Size \in Nat /\ Tr!Lines \in Nat /\ Len(transcript) \in Nat
         /\ Lin(Tr!Size, Tr!Lines) /\ Tr!Size <= 3 * Len(transcript) /\ Tr!Lines <= Len(transcript)
         /\ Tr!Offset \in Nat /\ Tr!Offset <= Tr!Size
         /\ IF Tr!Lines = 0 THEN Tr!Offset = 0 ELSE Tr!Offset \in {3 * Tr!Lines - 1, 3 * Tr!Lines}
  <1>1. Len(transcript) \in Nat /\ (transcript = <<>> <=> Len(transcript) = 0)
    BY DEF FileShape
  <1>2. units \in 1..3 /\ (transcript = <<>> => units = 3)
    BY DEF FileShape
  <1>3. CASE transcript = <<>>
    <2>1. Tr!Size = 0 /\ Tr!Lines = 0 /\ Tr!Offset = 0
      BY <1>1, <1>3 DEF Tr!Size, Tr!Lines, Tr!Offset
    <2> QED
      BY <1>1, <2>1 DEF Lin
  <1>4. CASE transcript # <<>>
    <2> DEFINE F == Len(transcript)
    <2>1. F \in Nat /\ F >= 1
      BY <1>1, <1>4
    <2>2. Tr!Size = 3 * (F - 1) + units
      BY <1>4 DEF Tr!Size, Tr!Written
    <2>3. Tr!Lines = IF units = 1 THEN F - 1 ELSE F
      BY <1>4 DEF Tr!Lines
    <2>4. Tr!Offset = IF Tr!Lines = 0 THEN 0 ELSE IF Tr!Lines = F THEN Tr!Size ELSE Tr!Written(Tr!Lines + 1)
      BY DEF Tr!Offset
    <2> HIDE DEF F
    <2>5. Tr!Size \in Nat /\ Tr!Lines \in Nat /\ Lin(Tr!Size, Tr!Lines) /\ Tr!Size <= 3 * F /\ Tr!Lines <= F
      BY <1>2, <2>1, <2>2, <2>3 DEF Lin
    <2>6. /\ Tr!Offset \in Nat /\ Tr!Offset <= Tr!Size
          /\ IF Tr!Lines = 0 THEN Tr!Offset = 0 ELSE Tr!Offset \in {3 * Tr!Lines - 1, 3 * Tr!Lines}
      <3>1. CASE units = 1
        BY <2>1, <2>2, <2>3, <2>4, <3>1 DEF Tr!Written
      <3>2. CASE units # 1
        BY <1>2, <2>1, <2>2, <2>3, <2>4, <3>2 DEF Tr!Written
      <3> QED
        BY <3>1, <3>2
    <2> QED
      BY <2>1, <2>5, <2>6 DEF F
  <1> QED
    BY <1>3, <1>4

\* An earlier size had no more lines.
LEMMA LinMono ==
  ASSUME NEW s \in Nat, NEW t \in Nat, s <= t, NEW m, NEW n, Lin(s, m), Lin(t, n)
  PROVE  m <= n /\ (s = t => m = n)
  BY DEF Lin

\* A pass that begins after line k adds the lines there are.
LEMMA ReadHolds ==
  ASSUME FileShape, NEW ms, NEW off, NEW k, Parse(ms, off, k)
  PROVE  Parse(ms \o Tr!Parsed(off), IF Tr!Offset > off THEN Tr!Offset ELSE off, Tr!Lines)
  <1>1. k \in Nat /\ off \in Nat /\ k <= Tr!Lines /\ off <= Tr!Size /\ Holds(ms, 0, k)
    BY DEF Parse
  <1>2. IF k = 0 THEN off = 0 ELSE off \in {3 * k - 1, 3 * k}
    BY DEF Parse
  <1>3. \A n \in 1..Tr!Lines : Tr!Written(n) >= off <=> n > k
    <2>1. Tr!Lines \in Nat
      BY SizeIs
    <2>2. CASE k = 0
      BY <1>2, <2>1, <2>2 DEF Tr!Written
    <2>3. CASE k # 0
      BY <1>1, <1>2, <2>1, <2>3 DEF Tr!Written
    <2> QED
      BY <2>2, <2>3
  <1>4. Holds(Tr!Parsed(off), k, Tr!Lines)
    BY <1>1, <1>3, SizeIs, ParsedIs
  <1>5. Holds(ms \o Tr!Parsed(off), 0, Tr!Lines)
    BY <1>1, <1>4, HoldsConcat
  <1> DEFINE o == IF Tr!Offset > off THEN Tr!Offset ELSE off
  <1>6. o \in Nat /\ o <= Tr!Size /\ IF Tr!Lines = 0 THEN o = 0 ELSE o \in {3 * Tr!Lines - 1, 3 * Tr!Lines}
    <2>1. /\ Tr!Lines \in Nat /\ Tr!Size \in Nat /\ Tr!Offset \in Nat /\ Tr!Offset <= Tr!Size
          /\ IF Tr!Lines = 0 THEN Tr!Offset = 0 ELSE Tr!Offset \in {3 * Tr!Lines - 1, 3 * Tr!Lines}
      BY SizeIs
    <2>2. CASE k = Tr!Lines
      BY <1>1, <1>2, <2>1, <2>2
    <2>3. CASE k # Tr!Lines
      <3>1. Tr!Offset > off
        BY <1>1, <1>2, <2>1, <2>3
      <3> QED
        BY <2>1, <3>1
    <2> QED
      BY <2>2, <2>3
  <1>7. Tr!Lines \in Nat /\ Tr!Lines <= Tr!Lines
    BY SizeIs
  <1> HIDE DEF o
  <1>8. Parse(ms \o Tr!Parsed(off), o, Tr!Lines)
    BY <1>5, <1>6, <1>7 DEF Parse
  <1> QED
    BY <1>8 DEF o

\* What the agent writes leaves every line where it is, and adds to them.
LEMMA FileGrows ==
  ASSUME FileShape, (\E kind \in {"in", "out"} : Tr!Append1(kind)) \/ Tr!Continue
  PROVE  FileShape' /\ Tr!Size <= Tr!Size' /\ Tr!Lines <= Tr!Lines'
  <1>1. Len(transcript) \in Nat /\ (transcript = <<>> <=> Len(transcript) = 0) /\ MaxLines \in Nat
    BY Assumptions DEF FileShape, Assumptions, Tr!TranscriptAssumption
  <1>2. units \in 1..3 /\ (transcript = <<>> => units = 3) /\ transcript \in Seq({"in", "out"})
    BY DEF FileShape
  <1>3. CASE \E kind \in {"in", "out"} : Tr!Append1(kind)
    <2>1. PICK kind \in {"in", "out"} : Tr!Append1(kind)
      BY <1>3
    <2>2. /\ units = 3 /\ Len(transcript) < MaxLines /\ units' \in 1..3
          /\ transcript' = Append(transcript, kind)
      BY <2>1 DEF Tr!Append1
    <2>3. transcript' \in Seq({"in", "out"}) /\ Len(transcript') = Len(transcript) + 1 /\ transcript' # <<>>
      BY <1>2, <2>2
    <2>4. FileShape'
      BY <1>1, <2>2, <2>3 DEF FileShape
    <2>5. Tr!Size' = 3 * Len(transcript) + units' /\ Tr!Lines' >= Len(transcript)
      BY <1>1, <2>3 DEF Tr!Size, Tr!Written, Tr!Lines
    <2>6. Tr!Size = 3 * Len(transcript) /\ Tr!Lines = Len(transcript)
      BY <1>1, <2>2 DEF Tr!Size, Tr!Written, Tr!Lines
    <2> QED
      BY <1>1, <2>2, <2>4, <2>5, <2>6
  <1>4. CASE Tr!Continue
    <2>1. units < 3 /\ units' \in (units + 1)..3 /\ transcript' = transcript
      BY <1>4 DEF Tr!Continue
    <2>2. FileShape'
      BY <1>2, <2>1 DEF FileShape
    <2>3. transcript # <<>>
      BY <1>2, <2>1
    <2>4. Tr!Size = 3 * (Len(transcript) - 1) + units /\ Tr!Size' = 3 * (Len(transcript) - 1) + units'
      BY <2>1, <2>3 DEF Tr!Size, Tr!Written
    <2>5. Tr!Lines' = Len(transcript)
      BY <1>1, <1>2, <2>1, <2>3 DEF Tr!Lines
    <2>6. Tr!Lines <= Len(transcript)
      BY SizeIs
    <2> QED
      BY <1>1, <1>2, <2>1, <2>2, <2>4, <2>5, <2>6
  <1> QED
    BY <1>3, <1>4

\* What holds of the cache and of a call still does when the file has grown or is as it was.
LEMMA HoldsStill ==
  ASSUME FileShape, FileShape', Tr!Size <= Tr!Size', Tr!Lines <= Tr!Lines', NEW p
  PROVE  /\ CacheHolds(p) => CacheHolds(p)'
         /\ CallHolds(p) => CallHolds(p)'
  <1>1. Tr!Size \in Nat /\ Tr!Lines \in Nat /\ Tr!Size' \in Nat /\ Tr!Lines' \in Nat
    <2>1. FileShape => Tr!Size \in Nat /\ Tr!Lines \in Nat
      BY SizeIs
    <2>2. (FileShape => Tr!Size \in Nat /\ Tr!Lines \in Nat)'
      BY SizeIs, PTL
    <2> QED
      BY <2>1, <2>2
  <1>2. \A ms, off, k : Parse(ms, off, k) => Parse(ms, off, k)'
    BY <1>1 DEF Parse, Holds, Edge
  <1>3. ASSUME NEW s \in Nat, s <= Tr!Size PROVE s <= Tr!Size'
    BY <1>1, <1>3
  <1>4. \A s, n : Lin(s, n) => Lin(s, n)'
    BY DEF Lin
  <1>5. CacheHolds(p) => CacheHolds(p)'
    BY <1>2, <1>3, <1>4 DEF CacheHolds
  <1>6. CallHolds(p) => CallHolds(p)'
    BY <1>2, <1>3, <1>4 DEF CallHolds, CallType
  <1> QED
    BY <1>5, <1>6

\* What the answer asks for.
LEMMA AnswerHolds ==
  ASSUME NEW c, NEW ms, NEW k, Holds(ms, 0, k), k \in Nat, parses[c].floor \in Nat, parses[c].floor <= k,
         short = FALSE, Tr!Answer(c, ms)
  PROVE  short' = FALSE
  <1>1. Tr!InOrder(ms) /\ Tr!LastOf(ms) = k
    BY HoldsInOrder
  <1>2. ~(Tr!LastOf(ms) < parses[c].floor)
    BY <1>1
  <1> QED
    BY <1>1, <1>2 DEF Tr!Answer

\* A slot no call uses.
LEMMA IdleIs ==
  /\ Tr!Idle \in CallType
  /\ Tr!Idle.pc = "idle" /\ Tr!Idle.size = 0 /\ Tr!Idle.floor = 0 /\ Tr!Idle.base = <<>> /\ Tr!Idle.from = 0
  BY DEF Tr!Idle, CallType

\* Before anything is written or read.
LEMMA InitTranscript == Tr!Init => TranscriptInv
  <1> SUFFICES ASSUME Tr!Init PROVE TranscriptInv
    OBVIOUS
  <1>0. MaxLines \in Nat
    BY Assumptions DEF Assumptions, Tr!TranscriptAssumption
  <1>1. FileShape
    BY <1>0 DEF FileShape, Tr!Init
  <1>2. Parse(<<>>, 0, 0)
    BY SizeIs, <1>1 DEF Parse, Holds, Edge
  <1>3. CallHolds(Tr!Idle)
    <2> DEFINE p == Tr!Idle
    <2>1. /\ p \in CallType
          /\ p.pc = "idle" /\ p.size = 0 /\ p.floor = 0 /\ p.base = <<>> /\ p.from = 0
      BY IdleIs
    <2> HIDE DEF p
    <2>2. p.size <= Tr!Size /\ Lin(p.size, p.floor)
      BY SizeIs, <1>1, <2>1 DEF Lin
    <2>3. \E k \in Nat : Parse(p.base, p.from, k)
      BY <1>2, <2>1
    <2>4. CallHolds(p)
      BY <2>1, <2>2, <2>3 DEF CallHolds, CallType
    <2> QED
      BY <2>4 DEF p
  <1> QED
    BY <1>1, <1>3 DEF TranscriptInv, CacheHolds, Tr!Init

\* Whatever the agent writes, and whichever call goes on.
LEMMA StepTranscript == TranscriptInv /\ [Tr!Next]_transcriptVars => TranscriptInv'
  <1> SUFFICES ASSUME TranscriptInv, [Tr!Next]_transcriptVars PROVE TranscriptInv'
    OBVIOUS
  <1>1. /\ FileShape /\ short = FALSE /\ CacheHolds(parsed)
        /\ DOMAIN parses = Requests /\ \A c \in Requests : CallHolds(parses[c])
    BY DEF TranscriptInv
  <1>2. Tr!Size \in Nat /\ Tr!Lines \in Nat /\ Lin(Tr!Size, Tr!Lines)
    BY <1>1, SizeIs
  <1>3. CallHolds(Tr!Idle) /\ Parse(<<>>, 0, 0)
    <2>1. Parse(<<>>, 0, 0)
      BY <1>2 DEF Parse, Holds, Edge
    <2> DEFINE p == Tr!Idle
    <2>2. /\ p \in CallType
          /\ p.pc = "idle" /\ p.size = 0 /\ p.floor = 0 /\ p.base = <<>> /\ p.from = 0
      BY IdleIs
    <2> HIDE DEF p
    <2>3. p.size <= Tr!Size /\ Lin(p.size, p.floor)
      BY <1>2, <2>2 DEF Lin
    <2>4. CallHolds(p)
      BY <2>1, <2>2, <2>3 DEF CallHolds, CallType
    <2> QED
      BY <2>1, <2>4 DEF p
  \* Steps that leave the file alone.
  <1>4. ASSUME UNCHANGED <<transcript, units>>
        PROVE  /\ FileShape'
               /\ \A p : (CacheHolds(p) => CacheHolds(p)') /\ (CallHolds(p) => CallHolds(p)')
    <2>1. Tr!Size' = Tr!Size /\ Tr!Lines' = Tr!Lines
      BY <1>4 DEF Tr!Size, Tr!Written, Tr!Lines
    <2>2. FileShape'
      BY <1>1, <1>4 DEF FileShape
    <2> QED
      BY <1>1, <1>2, <2>1, <2>2, HoldsStill
  <1>5. CASE UNCHANGED transcriptVars
    BY <1>1, <1>4, <1>5 DEF TranscriptInv, transcriptVars
  <1>6. CASE (\E kind \in {"in", "out"} : Tr!Append1(kind)) \/ Tr!Continue
    <2>1. FileShape' /\ Tr!Size <= Tr!Size' /\ Tr!Lines <= Tr!Lines'
      BY <1>1, <1>6, FileGrows
    <2>2. UNCHANGED <<parsed, parses, short>>
      BY <1>6 DEF Tr!Append1, Tr!Continue
    <2>3. \A p : (CacheHolds(p) => CacheHolds(p)') /\ (CallHolds(p) => CallHolds(p)')
      BY <1>1, <2>1, HoldsStill
    <2> QED
      BY <1>1, <2>1, <2>2, <2>3 DEF TranscriptInv
  <1>7. CASE Tr!Forget
    <2>1. parsed' = None /\ UNCHANGED <<transcript, units, parses, short>>
      BY <1>7 DEF Tr!Forget
    <2> QED
      BY <1>1, <1>4, <2>1 DEF TranscriptInv, CacheHolds
  \* One call goes on, and the file stays.
  <1>8. ASSUME NEW c \in Requests, NEW q, NEW s, CallHolds(q), CacheHolds(s), UNCHANGED <<transcript, units>>,
               parses' = [parses EXCEPT ![c] = q], parsed' = s, short' = FALSE
        PROVE  TranscriptInv'
    <2>1. DOMAIN parses' = Requests /\ \A d \in Requests : CallHolds(parses'[d])
      BY <1>1, <1>8
    <2>2. FileShape'
      BY <1>4, <1>8
    <2>3. (CacheHolds(s) => CacheHolds(s)') /\ CacheHolds(parsed)' = CacheHolds(s)'
      BY <1>4, <1>8
    <2>4. \A d \in Requests : CallHolds(parses[d])'
      <3> SUFFICES ASSUME NEW d \in Requests PROVE CallHolds(parses[d])'
        OBVIOUS
      <3>1. PICK p : p = parses'[d]
        OBVIOUS
      <3>2. CallHolds(p)
        BY <2>1, <3>1
      <3>3. CallHolds(p)'
        BY <1>4, <1>8, <3>2
      <3> QED
        BY <3>1, <3>3
    <2> QED
      BY <1>8, <2>1, <2>2, <2>3, <2>4 DEF TranscriptInv
  <1>9. ASSUME NEW c \in Requests, Tr!Stat(c) PROVE TranscriptInv'
    <2> DEFINE q == [Tr!Idle EXCEPT !.pc = "get", !.size = Tr!Size, !.floor = Tr!Lines]
    <2>1. /\ q \in CallType
          /\ q.pc = "get" /\ q.size = Tr!Size /\ q.floor = Tr!Lines /\ q.base = <<>> /\ q.from = 0
      <3>1. PICK p : p = Tr!Idle
        OBVIOUS
      <3>2. p \in CallType /\ p.base = <<>> /\ p.from = 0
        BY <3>1, IdleIs
      <3>3. q = [p EXCEPT !.pc = "get", !.size = Tr!Size, !.floor = Tr!Lines]
        BY <3>1
      <3> HIDE DEF q
      <3> QED
        BY <1>2, <3>2, <3>3 DEF CallType
    <2>2. parses' = [parses EXCEPT ![c] = q] /\ UNCHANGED <<transcript, units, parsed, short>>
      BY <1>9 DEF Tr!Stat
    <2> HIDE DEF q
    <2>3. CallHolds(q)
      <3>1. \E k \in Nat : Parse(q.base, q.from, k)
        BY <1>3, <2>1
      <3> QED
        BY <1>2, <2>1, <3>1 DEF CallHolds, CallType
    <2> QED
      BY <1>1, <1>8, <2>2, <2>3
  <1>10. ASSUME NEW c \in Requests, Tr!Get(c) PROVE TranscriptInv'
    <2>1. CallHolds(parses[c]) /\ parses[c].pc = "get" /\ UNCHANGED <<transcript, units, parsed>>
      BY <1>1, <1>10 DEF Tr!Get
    <2>2. PICK p : p = parses[c]
      OBVIOUS
    <2>3. CASE parsed # None /\ parsed.size = p.size
      <3>1. parses' = [parses EXCEPT ![c] = Tr!Idle] /\ Tr!Answer(c, parsed.msgs)
        BY <1>10, <2>2, <2>3 DEF Tr!Get
      <3>2. PICK k \in Nat : Parse(parsed.msgs, parsed.off, k) /\ \E n \in 0..k : Lin(parsed.size, n)
        BY <1>1, <2>3 DEF CacheHolds
      <3>3. PICK n \in 0..k : Lin(parsed.size, n)
        BY <3>2
      <3>4. p.floor \in Nat /\ p.size \in Nat /\ Lin(p.size, p.floor)
        BY <2>1, <2>2 DEF CallHolds, CallType
      <3>5. p.floor <= k
        BY <2>3, <3>3, <3>4 DEF Lin
      <3>6. Holds(parsed.msgs, 0, k)
        BY <3>2 DEF Parse
      <3>7. short' = FALSE
        BY <1>1, <2>2, <3>1, <3>4, <3>5, <3>6, AnswerHolds
      <3> QED
        BY <1>1, <1>3, <1>8, <2>1, <3>1, <3>7
    <2>4. CASE ~(parsed # None /\ parsed.size = p.size)
      <3>1. short' = FALSE
        BY <1>1, <1>10, <2>2, <2>4 DEF Tr!Get
      <3>2. CASE parsed # None /\ p.size > parsed.size /\ parsed.off > 0 /\ parsed.off <= p.size
        <4> DEFINE q == [p EXCEPT !.pc = "read", !.base = parsed.msgs, !.from = parsed.off]
        <4>1. parses' = [parses EXCEPT ![c].pc = "read", ![c].base = parsed.msgs, ![c].from = parsed.off]
          BY <1>10, <2>2, <2>4, <3>2 DEF Tr!Get
        <4>2. parses' = [parses EXCEPT ![c] = q]
          BY <1>1, <2>2, <4>1
        <4>3. /\ parsed.msgs \in Seq(Seq(Nat)) /\ parsed.off \in Nat
              /\ \E k \in Nat : Parse(parsed.msgs, parsed.off, k)
          BY <1>1, <3>2 DEF CacheHolds
        <4>4. /\ q \in CallType
              /\ q.pc = "read" /\ q.size = p.size /\ q.floor = p.floor /\ q.base = parsed.msgs
              /\ q.from = parsed.off
          BY <2>1, <2>2, <4>3 DEF CallHolds, CallType
        <4>5. p.size <= Tr!Size /\ Lin(p.size, p.floor)
          BY <2>1, <2>2 DEF CallHolds, CallType
        <4> HIDE DEF q
        <4>6. CallHolds(q)
          BY <4>3, <4>4, <4>5 DEF CallHolds, CallType
        <4> QED
          BY <1>1, <1>8, <2>1, <3>1, <4>2, <4>6
      <3>3. CASE ~(parsed # None /\ p.size > parsed.size /\ parsed.off > 0 /\ parsed.off <= p.size)
        <4> DEFINE q == [p EXCEPT !.pc = "read"]
        <4>1. parses' = [parses EXCEPT ![c].pc = "read"]
          BY <1>10, <2>2, <2>4, <3>3 DEF Tr!Get
        <4>2. parses' = [parses EXCEPT ![c] = q]
          BY <1>1, <2>2, <4>1
        <4>3. /\ q \in CallType
              /\ q.pc = "read" /\ q.size = p.size /\ q.floor = p.floor /\ q.base = p.base /\ q.from = p.from
          BY <2>1, <2>2 DEF CallHolds, CallType
        <4>4. p.size <= Tr!Size /\ Lin(p.size, p.floor) /\ \E k \in Nat : Parse(p.base, p.from, k)
          BY <2>1, <2>2 DEF CallHolds, CallType
        <4> HIDE DEF q
        <4>5. CallHolds(q)
          BY <4>3, <4>4 DEF CallHolds, CallType
        <4> QED
          BY <1>1, <1>8, <2>1, <3>1, <4>2, <4>5
      <3> QED
        BY <3>2, <3>3
    <2> QED
      BY <2>3, <2>4
  <1>11. ASSUME NEW c \in Requests, Tr!Read(c) PROVE TranscriptInv'
    <2>1. CallHolds(parses[c]) /\ parses[c].pc = "read" /\ UNCHANGED <<transcript, units, parsed, short>>
      BY <1>1, <1>11 DEF Tr!Read
    <2>2. PICK p : p = parses[c]
      OBVIOUS
    <2>3. PICK k \in Nat : Parse(p.base, p.from, k)
      BY <2>1, <2>2 DEF CallHolds, CallType
    <2> DEFINE ms == p.base \o Tr!Parsed(p.from)
               o == IF Tr!Offset > p.from THEN Tr!Offset ELSE p.from
               q == [p EXCEPT !.pc = "put", !.msgs = ms, !.base = <<>>, !.from = 0, !.off = o]
    <2>4. Parse(ms, o, Tr!Lines)
      BY <1>1, <2>3, ReadHolds
    <2>5. parses' = [parses EXCEPT ![c].pc = "put", ![c].msgs = ms, ![c].base = <<>>, ![c].from = 0, ![c].off = o]
      BY <1>11, <2>2 DEF Tr!Read
    <2>6. parses' = [parses EXCEPT ![c] = q]
      BY <1>1, <2>2, <2>5
    <2>7. ms \in Seq(Seq(Nat)) /\ o \in Nat
      BY <2>4 DEF Parse, Holds
    <2>8. /\ p \in CallType
          /\ p.size <= Tr!Size /\ Lin(p.size, p.floor)
      BY <2>1, <2>2 DEF CallHolds, CallType
    <2> HIDE DEF ms, o
    <2>9. /\ q \in CallType
          /\ q.pc = "put" /\ q.size = p.size /\ q.floor = p.floor /\ q.from = 0 /\ q.msgs = ms /\ q.off = o
      <3>0. <<>> \in Seq(Seq(Nat))
        OBVIOUS
      <3>1. PICK w \in Seq(Seq(Nat)) : w = <<>>
        BY <3>0, Zenon
      <3>2. q = [p EXCEPT !.pc = "put", !.msgs = ms, !.base = w, !.from = 0, !.off = o]
        BY <3>1
      <3>3. p \in CallType
        BY <2>8
      <3> HIDE DEF q
      <3> QED
        BY <2>7, <3>2, <3>3 DEF CallType
    <2> HIDE DEF q
    <2>10. p.floor <= Tr!Lines
      <3>1. p.size \in Nat
        BY <2>8 DEF CallType
      <3> QED
        BY <1>2, <2>8, <3>1 DEF Lin
    <2>11. \E n \in Nat : Parse(q.msgs, q.off, n) /\ q.floor <= n
      BY <1>2, <2>4, <2>9, <2>10
    <2>12. CallHolds(q)
      BY <2>8, <2>9, <2>11 DEF CallHolds, CallType
    <2> QED
      BY <1>1, <1>8, <2>1, <2>6, <2>12
  <1>12. ASSUME NEW c \in Requests, Tr!Put(c) PROVE TranscriptInv'
    <2>1. CallHolds(parses[c]) /\ parses[c].pc = "put" /\ UNCHANGED <<transcript, units>>
      BY <1>1, <1>12 DEF Tr!Put
    <2>2. PICK p : p = parses[c]
      OBVIOUS
    <2>3. PICK k \in Nat : Parse(p.msgs, p.off, k) /\ p.floor <= k
      BY <2>1, <2>2 DEF CallHolds, CallType
    <2> DEFINE s == [size |-> p.size, off |-> p.off, msgs |-> p.msgs]
    <2>4. /\ parsed' = s /\ parses' = [parses EXCEPT ![c] = Tr!Idle] /\ Tr!Answer(c, p.msgs)
      BY <1>12, <2>2 DEF Tr!Put, Tr!SizeOf
    <2>5. /\ p \in CallType
          /\ p.size <= Tr!Size /\ Lin(p.size, p.floor)
      BY <2>1, <2>2 DEF CallHolds, CallType
    <2>6. /\ s \in [size : Nat, off : Nat, msgs : Seq(Seq(Nat))]
          /\ s.size = p.size /\ s.off = p.off /\ s.msgs = p.msgs
      BY <2>5 DEF CallType
    <2> HIDE DEF s
    <2>7. p.floor \in 0..k
      BY <2>3, <2>5 DEF Lin
    <2>8. CacheHolds(s)
      BY <2>3, <2>5, <2>6, <2>7 DEF CacheHolds
    <2>9. short' = FALSE
      <3>1. Holds(p.msgs, 0, k) /\ p.floor \in Nat
        BY <2>3, <2>5 DEF Parse, Lin
      <3> QED
        BY <1>1, <2>2, <2>3, <2>4, <3>1, AnswerHolds
    <2> QED
      BY <1>3, <1>8, <2>1, <2>4, <2>8, <2>9
  <1> QED
    BY <1>5, <1>6, <1>7, <1>9, <1>10, <1>11, <1>12 DEF Tr!Next

\* A call answers every line that was there when it began, once each and in order, for a file of any
\* length and any number of calls at once.
THEOREM EveryLineThm == AllSpec => []EveryLineOnce
  <1>1. AllInit => TranscriptInv
    BY InitTranscript DEF AllInit
  <1>2. TranscriptInv /\ [AllNext]_allVars => TranscriptInv'
    <2>1. [AllNext]_allVars => [Tr!Next]_transcriptVars
      BY DEF AllNext, allVars
    <2> QED
      BY <2>1, StepTranscript
  <1>3. TranscriptInv => EveryLineOnce
    <2> SUFFICES ASSUME TranscriptInv PROVE EveryLineOnce
      OBVIOUS
    <2>1. FileShape /\ short = FALSE /\ CacheHolds(parsed) /\ \A c \in Requests : CallHolds(parses[c])
      BY DEF TranscriptInv
    <2>2. Tr!Size \in Nat /\ Len(transcript) \in Nat /\ Tr!Size <= 3 * Len(transcript)
      BY <2>1, SizeIs
    <2>3. parsed = None \/ (parsed.off <= 3 * Len(transcript) /\ parsed.size <= Tr!Size)
      <3> SUFFICES ASSUME parsed # None PROVE parsed.off <= 3 * Len(transcript) /\ parsed.size <= Tr!Size
        OBVIOUS
      <3>1. parsed.off \in Nat /\ parsed.off <= Tr!Size /\ parsed.size <= Tr!Size
        BY <2>1 DEF CacheHolds, Parse
      <3> QED
        BY <2>2, <3>1
    <2>4. \A c \in Requests : parses[c].pc \in {"idle", "get", "read", "put"} /\ parses[c].from <= Tr!Size
      <3> SUFFICES ASSUME NEW c \in Requests
                   PROVE  parses[c].pc \in {"idle", "get", "read", "put"} /\ parses[c].from <= Tr!Size
        OBVIOUS
      <3>1. CallHolds(parses[c])
        BY <2>1
      <3>2. CASE parses[c].pc = "put"
        BY <2>2, <3>1, <3>2 DEF CallHolds, CallType
      <3>3. CASE parses[c].pc # "put"
        BY <3>1, <3>3 DEF CallHolds, CallType, Parse
      <3> QED
        BY <3>2, <3>3
    <2>5. Tr!TypeOK
      <3>1. Len(transcript) <= MaxLines /\ units \in 0..3
        BY <2>1 DEF FileShape
      <3>2. short \in BOOLEAN
        BY <2>1
      <3> QED
        BY <2>3, <2>4, <3>1, <3>2 DEF Tr!TypeOK
    <2> QED
      BY <2>1, <2>5 DEF EveryLineOnce, Tr!EveryLineOnce
  <1> QED
    BY <1>1, <1>2, <1>3, PTL DEF AllSpec
=============================================================================
