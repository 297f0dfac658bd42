------------------------ MODULE SessionListProofs ------------------------
(* What the phone reads, for any number of requests, builds, followers, rows and conversations: the *)
(* session list never goes back, and the cache of the rows of a session loses none.                 *)
EXTENDS MCReads, Sequences, FiniteSetTheorems, WellFoundedInduction, TLAPS

\* What a request is answered with is at least what was shown before, since one build at a time
\* stores, and it has listed after the one before it stored.
IInv == TypeOK /\ OneBuild /\ NewestStored /\ FloorShown /\ ListNeverGoesBack

\* Nothing was served at the start.
LEMMA InitIInv == ASSUME SessionListAssumption, Init PROVE IInv
  <1> USE DEF SessionListAssumption, Init, NoBody, Off, Idle
  <1>1. now \in 1..(MaxChanges + 1) /\ shown \in 0..now /\ flight \in Builds \cup {None}
    OBVIOUS
  <1>2. back \in BOOLEAN /\ ~back
    OBVIOUS
  <1>3. body \in [v : 0..now, age : {"none", "fresh", "stale", "old"}]
    OBVIOUS
  <1>4. build \in [Builds -> [pc : {"off", "list", "store", "unlist", "close"}, v : 0..now]]
    OBVIOUS
  <1>5. req \in [Requests -> [pc : {"idle", "refresh", "wait", "answer"}, cold : BOOLEAN,
                            chan : Builds \cup {None}, floor : 0..now]]
    OBVIOUS
  <1>6. OneBuild /\ NewestStored /\ FloorShown
    BY DEF OneBuild, NewestStored, FloorShown
  <1> QED BY <1>1, <1>2, <1>3, <1>4, <1>5, <1>6 DEF IInv, TypeOK, ListNeverGoesBack

Requesting == [pc : {"idle", "refresh", "wait", "answer"}, cold : BOOLEAN,
               chan : Builds \cup {None}, floor : 0..now]

\* A request that goes on waits for a build or for none.
LEMMA TurnsIs ==
  ASSUME NEW r \in Requests, NEW pc \in {"idle", "refresh", "wait", "answer"}, NEW b \in Builds \cup {None},
         req \in [Requests -> Requesting], req' = [req EXCEPT ![r].pc = pc, ![r].chan = b]
  PROVE  req' \in [Requests -> Requesting] /\ \A q \in Requests : req'[q].floor = req[q].floor
  <1> DEFINE new == [req[r] EXCEPT !.pc = pc, !.chan = b]
  <1>1. new \in Requesting /\ new.floor = req[r].floor
    BY DEF Requesting
  <1>2. req' = [req EXCEPT ![r] = new]
    OBVIOUS
  <1> HIDE DEF new
  <1> QED BY <1>1, <1>2

\* A step that only moves requests, to a floor they had or to what is shown.
LEMMA ReqStep ==
  ASSUME IInv, UNCHANGED <<now, body, history>>, req' \in [Requests -> Requesting],
         \A r \in Requests : req'[r].floor = req[r].floor \/ req'[r].floor = shown \/ req'[r].floor = 0,
         TypeOK => flight' \in Builds \cup {None},
         TypeOK => build' \in [Builds -> [pc : {"off", "list", "store", "unlist", "close"}, v : 0..now]],
         OneBuild', NewestStored'
  PROVE  IInv'
  <1>1. TypeOK'
    BY DEF IInv, TypeOK, history, Requesting
  <1>2. FloorShown'
    BY DEF IInv, TypeOK, history, FloorShown
  <1>3. ListNeverGoesBack'
    BY DEF IInv, history, ListNeverGoesBack
  <1> QED BY <1>1, <1>2, <1>3 DEF IInv

\* Every step keeps the invariant.
LEMMA StepIInv == ASSUME SessionListAssumption, IInv, [Next]_vars PROVE IInv'
  <1> USE DEF SessionListAssumption, IInv, history
  <1>1. CASE Changes
    BY <1>1 DEF Changes, TypeOK, OneBuild, NewestStored, FloorShown, ListNeverGoesBack
  <1>2. CASE Ages
    BY <1>2 DEF Ages, TypeOK, OneBuild, NewestStored, FloorShown, ListNeverGoesBack
  <1>3. CASE Warm
    BY <1>3 DEF Warm, TypeOK, OneBuild, NewestStored, FloorShown, ListNeverGoesBack
  <1>4. ASSUME NEW r \in Requests, Look(r) PROVE IInv'
    <2> DEFINE pc == IF body.age = "fresh" THEN "answer" ELSE "refresh"
               cold == body.age \in {"none", "old"}
               new == [pc |-> pc, cold |-> cold, chan |-> None, floor |-> shown]
    <2>1. req' = [req EXCEPT ![r] = new] /\ new.floor = shown
      BY <1>4 DEF Look
    <2>2. req' \in [Requests -> Requesting]
      <3>1. pc \in {"idle", "refresh", "wait", "answer"} /\ shown \in 0..now /\ None \in Builds \cup {None}
        BY DEF TypeOK
      <3>2. cold \in BOOLEAN
        OBVIOUS
      <3> HIDE DEF pc, cold
      <3>3. new \in Requesting
        BY <3>1, <3>2, Zenon DEF Requesting
      <3>4. req \in [Requests -> Requesting]
        BY DEF TypeOK, Requesting
      <3> HIDE DEF new
      <3> QED BY <2>1, <3>3, <3>4
    <2> HIDE DEF new
    <2>3. \A q \in Requests : req'[q].floor = req[q].floor \/ req'[q].floor = shown
      BY <2>1 DEF TypeOK
    <2>4. UNCHANGED <<now, body, flight, build, history>> /\ OneBuild' /\ NewestStored'
      BY <1>4 DEF Look, OneBuild, NewestStored
    <2> QED BY <2>2, <2>3, <2>4, ReqStep DEF TypeOK
  <1>5. ASSUME NEW r \in Requests, Refresh(r) PROVE IInv'
    <2>1. PICK b \in Builds : req' = [req EXCEPT ![r].pc = "wait", ![r].chan = b]
      BY <1>5 DEF Refresh, Joins, TypeOK
    <2>2. req' \in [Requests -> Requesting] /\ \A q \in Requests : req'[q].floor = req[q].floor
      BY <2>1, TurnsIs DEF TypeOK, Requesting
    <2>3. CASE flight # None
      BY <1>5, <2>2, <2>3, ReqStep DEF Refresh, Joins, TypeOK, OneBuild, NewestStored
    <2>4. CASE flight = None
      <3>1. PICK c \in Builds : flight' = c /\ build' = [build EXCEPT ![c].pc = "list"]
        BY <1>5, <2>4 DEF Refresh, Joins
      <3>2. build' \in [Builds -> [pc : {"off", "list", "store", "unlist", "close"}, v : 0..now]]
        BY <3>1 DEF TypeOK
      <3>3. UNCHANGED <<now, body, history>>
        BY <1>5 DEF Refresh
      <3>4. OneBuild' /\ NewestStored'
        BY <2>4, <3>1, <3>3 DEF TypeOK, OneBuild, NewestStored
      <3> QED BY <2>2, <3>1, <3>2, <3>3, <3>4, ReqStep
    <2> QED BY <2>3, <2>4
  <1>6. ASSUME NEW r \in Requests, Grace(r) PROVE IInv'
    <2>1. req' \in [Requests -> Requesting] /\ \A q \in Requests : req'[q].floor = req[q].floor
      BY <1>6, TurnsIs DEF Grace, TypeOK, Requesting
    <2>2. UNCHANGED <<now, body, flight, build, history>> /\ OneBuild' /\ NewestStored'
      BY <1>6 DEF Grace, OneBuild, NewestStored
    <2> QED BY <2>1, <2>2, ReqStep DEF TypeOK
  <1>13. ASSUME NEW r \in Requests, Cancelled(r) PROVE IInv'
    <2>1. Idle \in Requesting /\ Idle.floor = 0
      BY DEF Idle, Requesting, TypeOK
    <2>2. req' = [req EXCEPT ![r] = Idle] /\ req \in [Requests -> Requesting]
      BY <1>13 DEF Cancelled, TypeOK, Requesting
    <2>3. req' \in [Requests -> Requesting]
      BY <2>1, <2>2
    <2>4. \A q \in Requests : req'[q].floor = req[q].floor \/ req'[q].floor = 0
      BY <2>1, <2>2
    <2>5. UNCHANGED <<now, body, flight, build, history>> /\ OneBuild' /\ NewestStored'
      BY <1>13 DEF Cancelled, OneBuild, NewestStored
    <2> QED BY <2>3, <2>4, <2>5, ReqStep DEF TypeOK
  <1>7. ASSUME NEW r \in Requests, Answer(r) PROVE IInv'
    BY <1>7 DEF Answer, Idle, TypeOK, OneBuild, NewestStored, FloorShown, ListNeverGoesBack
  <1>8. ASSUME NEW b \in Builds, List(b) PROVE IInv'
    BY <1>8 DEF List, TypeOK, OneBuild, NewestStored, FloorShown, ListNeverGoesBack
  <1>9. ASSUME NEW b \in Builds, Store(b) PROVE IInv'
    BY <1>9 DEF Store, TypeOK, OneBuild, NewestStored, FloorShown, ListNeverGoesBack
  <1>10. ASSUME NEW b \in Builds, Unlist(b) PROVE IInv'
    BY <1>10 DEF Unlist, Unlisted, TypeOK, OneBuild, NewestStored, FloorShown, ListNeverGoesBack
  <1>11. ASSUME NEW b \in Builds, Close(b) PROVE IInv'
    <2>1. ASSUME NEW q \in Requests PROVE req'[q] \in Requesting /\ req'[q].floor = req[q].floor
      <3> DEFINE new == [req[q] EXCEPT !.pc = "answer", !.chan = None]
      <3>1. req[q] \in Requesting
        BY DEF TypeOK, Requesting
      <3>2. new \in Requesting /\ new.floor = req[q].floor
        BY <3>1 DEF Requesting
      <3>3. req'[q] = IF req[q].chan = b THEN new ELSE req[q]
        BY <1>11 DEF Close
      <3> HIDE DEF new
      <3> QED BY <3>1, <3>2, <3>3
    <2>2. req' \in [Requests -> Requesting]
      BY <1>11, <2>1, Zenon DEF Close
    <2>3. build' \in [Builds -> [pc : {"off", "list", "store", "unlist", "close"}, v : 0..now]]
      <3>1. build' = [build EXCEPT ![b] = Off]
        BY <1>11 DEF Close
      <3> QED BY <3>1 DEF Off, TypeOK
    <2>4. UNCHANGED <<now, body, flight, history>>
      BY <1>11 DEF Close
    <2>5. OneBuild' /\ NewestStored'
      BY <1>11 DEF Close, Off, TypeOK, OneBuild, NewestStored
    <2> QED BY <2>1, <2>2, <2>3, <2>4, <2>5, ReqStep DEF TypeOK
  <1>12. CASE UNCHANGED vars
    BY <1>12 DEF vars, TypeOK, OneBuild, NewestStored, FloorShown, ListNeverGoesBack
  <1> QED BY <1>1, <1>2, <1>3, <1>4, <1>5, <1>6, <1>7, <1>8, <1>9, <1>10, <1>11, <1>12, <1>13
          DEF Next, Serves, BuildStep

\* The list is of one type throughout.
THEOREM ListTyped == ASSUME SessionListAssumption PROVE Spec => []TypeOK
  <1>1. IInv => TypeOK BY DEF IInv
  <1> QED BY InitIInv, StepIInv, <1>1, PTL DEF Spec

\* A request is answered with nothing older than what was shown before it came.
THEOREM NeverBackThm == ASSUME SessionListAssumption PROVE Spec => []ListNeverGoesBack
  <1>1. IInv => ListNeverGoesBack BY DEF IInv
  <1> QED BY InitIInv, StepIInv, <1>1, PTL DEF Spec

-----------------------------------------------------------------------------
(* Least and greatest numbers. *)

\* A set of numbers has a least.
LEMMA LeastIs ==
  ASSUME NEW T \in SUBSET Nat, T # {} PROVE \E x \in T : \A y \in T : x <= y
  <1> DEFINE Less == {p \in Nat \X Nat : p[1] < p[2]}
  <1>1. IsWellFoundedOn(Less, Nat)
    BY NatLessThanWellFounded DEF OpToRel
  <1>2. \E x \in T : \A y \in T : ~ (<<y, x>> \in Less)
    <2> HIDE DEF Less
    <2> QED
      BY <1>1, WFMin
  <1>3. PICK x \in T : \A y \in T : ~ (<<y, x>> \in Less)
    BY <1>2
  <1>4. \A y \in T : x <= y
    <2> SUFFICES ASSUME NEW y \in T, y < x PROVE FALSE
      OBVIOUS
    <2>1. <<y, x>> \in Nat \X Nat /\ <<y, x>>[1] < <<y, x>>[2]
      OBVIOUS
    <2> QED
      BY <1>3, <2>1
  <1> QED
    BY <1>4

\* So it has a least in the sense of the model.
LEMMA MinIs ==
  ASSUME NEW T \in SUBSET Nat, T # {} PROVE Rows!Min(T) \in T /\ \A y \in T : Rows!Min(T) <= y
  BY LeastIs DEF Rows!Min

\* A bounded set of numbers has a greatest.
LEMMA MaxIs ==
  ASSUME NEW n \in Nat, NEW T \in SUBSET (0..n), T # {}
  PROVE  Rows!Max(T) \in T /\ \A y \in T : y <= Rows!Max(T)
  <1> DEFINE U == {n - y : y \in T}
  <1>1. \A y \in T : y \in Nat /\ y <= n /\ n - y \in Nat
    OBVIOUS
  <1>2. U \in SUBSET Nat /\ U # {}
    BY <1>1
  <1>3. PICK u \in U : \A v \in U : u <= v
    BY <1>2, LeastIs
  <1>4. PICK x \in T : u = n - x
    OBVIOUS
  <1>5. \A y \in T : y <= x
    <2> SUFFICES ASSUME NEW y \in T PROVE y <= x
      OBVIOUS
    <2>1. n - x <= n - y
      BY <1>3, <1>4
    <2> QED
      BY <1>1, <2>1
  <1>6. \E z \in T : \A y \in T : z >= y
    BY <1>1, <1>5
  <1> QED
    BY <1>1, <1>6 DEF Rows!Max

-----------------------------------------------------------------------------
(* The events of a conversation. *)

Events == [row : Rows!Rows, version : 0..2]

LogShape ==
    /\ conv \in Rows!Convs /\ log \in [Rows!Convs -> Seq(Events)]
    /\ \A c \in Rows!Convs : Len(log[c]) <= MaxEvents

\* A row begins once, after all rows before it; an update is of a row that began, and nothing follows
\* its removal.
Proper(c) ==
    \A k \in 1..Len(log[c]) :
        /\ log[c][k].version = 1 =>
            /\ \A j \in 1..k - 1 : log[c][j].row # log[c][k].row
            /\ \A r \in Rows!Rows : r < log[c][k].row => \E j \in 1..k - 1 : log[c][j].row = r
        /\ log[c][k].version # 1 =>
            /\ \E j \in 1..k - 1 : log[c][j].row = log[c][k].row /\ log[c][j].version = 1
            /\ \A j \in 1..k - 1 : log[c][j].row = log[c][k].row => log[c][j].version # 0

\* Row i began before the cursor t.
Began(c, t, i) == \E k \in 1..t - 1 : k <= Len(log[c]) /\ log[c][k].row = i /\ log[c][k].version = 1

\* A row as it was after n events is as the last of its events says.
LEMMA AtIs ==
  ASSUME LogShape, NEW c \in Rows!Convs, NEW n \in 0..Len(log[c]), NEW i \in Rows!Rows
  PROVE  /\ Rows!At(c, n, i) \in 0..2
         /\ \/ (\A k \in 1..n : log[c][k].row # i) /\ Rows!At(c, n, i) = 0
            \/ \E k \in 1..n : /\ log[c][k].row = i /\ Rows!At(c, n, i) = log[c][k].version
                               /\ \A j \in 1..n : log[c][j].row = i => j <= k
  <1> DEFINE es == {k \in 1..n : log[c][k].row = i}
  <1>1. Len(log[c]) \in Nat /\ log[c] \in Seq(Events)
    BY DEF LogShape
  <1>2. CASE es = {}
    <2>1. Rows!At(c, n, i) = 0
      BY <1>2 DEF Rows!At
    <2> QED
      BY <1>2, <2>1
  <1>3. CASE es # {}
    <2> DEFINE m == Rows!Max(es)
    <2>1. es \in SUBSET (0..n) /\ n \in Nat
      BY <1>1
    <2> HIDE DEF es
    <2>2. m \in es /\ \A y \in es : y <= m
      BY <1>3, <2>1, MaxIs
    <2>3. Rows!At(c, n, i) = log[c][m].version
      BY <1>3 DEF Rows!At, es
    <2> HIDE DEF m
    <2>4. m \in 1..n /\ log[c][m].row = i /\ \A j \in 1..n : log[c][j].row = i => j <= m
      BY <2>2 DEF es
    <2>5. log[c][m] \in Events
      BY <1>1, <2>4
    <2>6. log[c][m].version \in 0..2
      BY <2>5 DEF Events
    <2> QED
      BY <2>3, <2>4, <2>6
  <1> QED
    BY <1>2, <1>3

\* A row of which nothing is said stays as it was.
LEMMA AtStays ==
  ASSUME LogShape, NEW c \in Rows!Convs, NEW m \in 0..Len(log[c]), NEW n \in 0..m, NEW i \in Rows!Rows,
         \A k \in n + 1..m : log[c][k].row # i
  PROVE  Rows!At(c, n, i) = Rows!At(c, m, i)
  <1>1. m \in Nat /\ n \in Nat /\ n <= m
    BY DEF LogShape
  <1>2. {k \in 1..n : log[c][k].row = i} = {k \in 1..m : log[c][k].row = i}
    BY <1>1
  <1> QED
    BY <1>2 DEF Rows!At

\* A row that was not there comes only by its beginning.
LEMMA ZeroStays ==
  ASSUME LogShape, NEW c \in Rows!Convs, Proper(c), NEW m \in 0..Len(log[c]), NEW n \in 0..m,
         NEW i \in Rows!Rows, Rows!At(c, n, i) = 0,
         \A k \in n + 1..m : log[c][k].row = i => log[c][k].version # 1
  PROVE  Rows!At(c, m, i) = 0
  <1>1. m \in Nat /\ n \in Nat /\ n <= m /\ m <= Len(log[c]) /\ Len(log[c]) \in Nat
    BY DEF LogShape
  <1>2. ASSUME NEW k \in n + 1..m, log[c][k].row = i PROVE FALSE
    <2>0. k \in 1..Len(log[c])
      BY <1>1
    <2>1. log[c][k].version # 1
      BY <1>2
    <2>2. PICK j \in 1..k - 1 : log[c][j].row = i /\ log[c][j].version = 1
      <3>1. \E j \in 1..k - 1 : log[c][j].row = log[c][k].row /\ log[c][j].version = 1
        BY <2>0, <2>1 DEF Proper
      <3> QED
        BY <1>2, <3>1
    <2>3. j \in 1..n
      BY <1>1, <2>0, <2>2
    <2>4. PICK z \in 1..n : log[c][z].row = i /\ log[c][z].version = 0
      BY <1>1, <2>2, <2>3, AtIs
    <2>5. z \in 1..k - 1
      BY <1>1, <2>4
    <2> QED
      BY <1>2, <2>0, <2>1, <2>4, <2>5 DEF Proper
  <1>3. Rows!At(c, n, i) = Rows!At(c, m, i)
    BY <1>1, <1>2, AtStays
  <1> QED
    BY <1>3

\* A row that is there began.
LEMMA ThereBegan ==
  ASSUME LogShape, NEW c \in Rows!Convs, Proper(c), NEW n \in 0..Len(log[c]), NEW i \in Rows!Rows,
         Rows!At(c, n, i) # 0
  PROVE  Began(c, n + 1, i)
  <1>1. n \in Nat /\ n <= Len(log[c]) /\ Len(log[c]) \in Nat
    BY DEF LogShape
  <1>2. PICK k \in 1..n : log[c][k].row = i
    BY AtIs
  <1>3. CASE log[c][k].version = 1
    BY <1>1, <1>2, <1>3 DEF Began
  <1>4. CASE log[c][k].version # 1
    <2>1. PICK j \in 1..k - 1 : log[c][j].row = i /\ log[c][j].version = 1
      BY <1>1, <1>2, <1>4 DEF Proper
    <2>2. j \in 1..(n + 1) - 1 /\ j <= Len(log[c])
      BY <1>1, <1>2, <2>1
    <2> QED
      BY <2>1, <2>2 DEF Began
  <1> QED
    BY <1>3, <1>4

\* Rows begin in their order.
LEMMA InOrder ==
  ASSUME LogShape, NEW c \in Rows!Convs, Proper(c), NEW b \in Rows!Rows, NEW t \in Nat, Began(c, t, b),
         NEW k \in 1..Len(log[c]), t <= k, log[c][k].version = 1
  PROVE  b < log[c][k].row
  <1>1. Len(log[c]) \in Nat /\ log[c] \in Seq(Events)
    BY DEF LogShape
  <1>2. PICK j \in 1..t - 1 : j <= Len(log[c]) /\ log[c][j].row = b /\ log[c][j].version = 1
    BY DEF Began
  <1>3. log[c][k].row \in Rows!Rows
    <2>1. log[c][k] \in Events
      BY <1>1
    <2> QED
      BY <2>1 DEF Events
  <1>4. j \in 1..k - 1 /\ j \in 1..Len(log[c])
    BY <1>1, <1>2
  <1>5. log[c][k].row # b
    BY <1>2, <1>4 DEF Proper
  <1>6. ~(log[c][k].row < b)
    <2> SUFFICES ASSUME log[c][k].row < b PROVE FALSE
      OBVIOUS
    <2>0. \A r \in Rows!Rows : r < log[c][j].row => \E z \in 1..j - 1 : log[c][z].row = r
      BY <1>2, <1>4 DEF Proper
    <2>1. PICK z \in 1..j - 1 : log[c][z].row = log[c][k].row
      BY <1>2, <1>3, <2>0
    <2>2. z \in 1..k - 1
      BY <1>4, <2>1
    <2> QED
      BY <2>1, <2>2 DEF Proper
  <1> QED
    BY <1>3, <1>5, <1>6 DEF Rows!Rows

-----------------------------------------------------------------------------
(* The cache. *)

Caches == [native : Nat, rows : [Rows!Convs -> [Rows!Rows -> 0..2]], through : Nat, before : Nat]

CacheShape ==
    /\ cache \in Caches
    /\ cache.native <= conv /\ cache.through <= MaxEvents + 1 /\ cache.before \in 1..NRows + 1

\* Every row from the oldest one kept is as it was at the cursor or later; what is older, or of another
\* conversation, is not there.
Kept ==
    /\ cache.through # 0 /\ cache.through <= Len(log[conv]) + 1
    /\ \A i \in Rows!Rows : i < cache.before => cache.rows[conv][i] = 0
    /\ \A i \in Rows!Rows : i >= cache.before =>
        \E n \in cache.through - 1..Len(log[conv]) : cache.rows[conv][i] = Rows!At(conv, n, i)
    /\ cache.before # 1 => cache.before \in Rows!Rows /\ Began(conv, cache.through, cache.before)
    /\ \A c \in Rows!Convs \ {conv} : cache.rows[c] = Rows!NoRows[c]

\* Only the rows of one conversation are changed.
LEMMA LaidIs ==
  ASSUME CacheShape, conv \in Rows!Convs, NEW r \in [Rows!Rows -> 0..2]
  PROVE  LET laid == [cache.rows EXCEPT ![conv] = r]
         IN  /\ laid \in [Rows!Convs -> [Rows!Rows -> 0..2]] /\ laid[conv] = r
             /\ \A c \in Rows!Convs \ {conv} : laid[c] = cache.rows[c]
  BY DEF CacheShape, Caches

\* Recall counts its rows with its own copy of Cardinality.
LEMMA SameSize == \A T : Rows!Cardinality(T) = Cardinality(T)
  BY DEF Rows!Cardinality, Cardinality, Rows!IsFiniteSet, IsFiniteSet

\* The newest rows leave no gap between them and the cursor for what is older.
LEMMA NewestIs ==
  ASSUME Rows!RecallAssumption, LogShape, NEW b \in 1..NRows + 1
  PROVE  LET Here(i) == i < b /\ Rows!Now(conv, i) # 0
         IN  /\ Rows!Before(b) \in 1..NRows + 1
             /\ Rows!Before(b) # 1 => Rows!Before(b) \in Rows!Newest(b)
             /\ Rows!Newest(b) \subseteq {i \in Rows!Rows : Here(i)}
             /\ \A i \in Rows!Newest(b) : Rows!Before(b) <= i
             /\ \A i \in Rows!Rows : Here(i) /\ Rows!Before(b) <= i => i \in Rows!Newest(b)
  <1> DEFINE Here(i) == i < b /\ Rows!Now(conv, i) # 0
             there == {i \in Rows!Rows : Here(i)}
             Above(i) == {j \in there : j > i}
  <1>0. SUFFICES /\ Rows!Before(b) \in 1..NRows + 1
                 /\ (Rows!Before(b) # 1 => Rows!Before(b) \in Rows!Newest(b))
                 /\ Rows!Newest(b) \subseteq there
                 /\ (\A i \in Rows!Newest(b) : Rows!Before(b) <= i)
                 /\ (\A i \in there : Rows!Before(b) <= i => i \in Rows!Newest(b))
    OBVIOUS
  <1>1. NRows \in Nat /\ TailRows \in Nat \ {0} /\ there \subseteq 1..NRows /\ there \in SUBSET (0..NRows)
        /\ there \in SUBSET Nat
    BY DEF Rows!RecallAssumption, Rows!Rows
  <1>2. Rows!Newest(b) = {i \in there : Cardinality(Above(i)) < TailRows}
    BY SameSize DEF Rows!Newest
  <1>4. \A i, j \in there : j \in Above(i) <=> j > i
    OBVIOUS
  <1>5. \A i \in there : Above(i) \subseteq there
    OBVIOUS
  <1>6. Rows!Before(b) = IF \E i \in there : i \notin Rows!Newest(b) THEN Rows!Min(Rows!Newest(b)) ELSE 1
    BY DEF Rows!Before
  <1> HIDE DEF Here, there, Above
  <1>7. CASE \A i \in there : i \in Rows!Newest(b)
    <2>1. Rows!Before(b) = 1
      BY <1>6, <1>7
    <2>2. \A i \in there : 1 <= i
      BY <1>1
    <2>3. 1 \in 1..NRows + 1
      BY <1>1
    <2>4. Rows!Newest(b) \subseteq there
      BY <1>2
    <2>5. /\ Rows!Before(b) \in 1..NRows + 1 /\ ~(Rows!Before(b) # 1)
          /\ \A i \in Rows!Newest(b) : Rows!Before(b) <= i
      BY <2>1, <2>2, <2>3, <2>4
    <2> QED
      BY <1>7, <2>4, <2>5
  <1>8. CASE \E i \in there : i \notin Rows!Newest(b)
    <2>1. there # {} /\ IsFiniteSet(there)
      <3>1. 1 \in Int /\ NRows \in Int
        BY <1>1
      <3>2. IsFiniteSet(1..NRows)
        BY <3>1, FS_Interval
      <3>3. IsFiniteSet(there)
        BY <1>1, <3>2, FS_Subset
      <3> QED
        BY <1>8, <3>3
    <2> DEFINE top == Rows!Max(there)
               min == Rows!Min(Rows!Newest(b))
    <2>2. top \in there /\ \A j \in there : j <= top
      BY <1>1, <2>1, MaxIs
    <2>3. Above(top) = {}
      <3>1. ASSUME NEW j \in there PROVE ~(j > top)
        <4>1. j \in Nat /\ top \in Nat /\ j <= top
          BY <1>1, <2>2
        <4> HIDE DEF top
        <4> QED
          BY <4>1
      <3> QED
        BY <3>1 DEF Above
    <2>4. top \in Rows!Newest(b)
      BY <1>1, <1>2, <2>2, <2>3, FS_EmptySet
    <2>5. Rows!Newest(b) \in SUBSET Nat /\ Rows!Newest(b) # {}
      BY <1>1, <1>2, <2>4
    <2>6. min \in Rows!Newest(b) /\ \A j \in Rows!Newest(b) : min <= j
      BY <2>5, MinIs
    <2>7. Rows!Before(b) = min
      BY <1>6, <1>8
    <2> HIDE DEF min, top
    <2>8. min \in there /\ Cardinality(Above(min)) < TailRows
      BY <1>2, <2>6
    <2>9. ASSUME NEW i \in there, min <= i PROVE i \in Rows!Newest(b)
      <3>1. Above(i) \subseteq Above(min)
        <4>1. \A j \in there : j > i => j > min
          BY <1>1, <2>8, <2>9
        <4> QED
          BY <4>1 DEF Above
      <3>2. IsFiniteSet(Above(min))
        BY <1>5, <2>1, <2>8, FS_Subset
      <3>3. /\ Cardinality(Above(i)) <= Cardinality(Above(min))
            /\ Cardinality(Above(i)) \in Nat /\ Cardinality(Above(min)) \in Nat
        BY <3>1, <3>2, FS_Subset, FS_CardinalityType
      <3>4. Cardinality(Above(i)) < TailRows
        BY <1>1, <2>8, <3>3
      <3> QED
        BY <1>2, <3>4
    <2>10. min \in 1..NRows + 1
      BY <1>1, <2>8
    <2>11. Rows!Newest(b) \subseteq there
      BY <1>2
    <2>12. /\ Rows!Before(b) \in 1..NRows + 1 /\ Rows!Before(b) \in Rows!Newest(b)
           /\ \A i \in Rows!Newest(b) : Rows!Before(b) <= i
           /\ \A i \in there : Rows!Before(b) <= i => i \in Rows!Newest(b)
      BY <2>6, <2>7, <2>9, <2>10
    <2> QED
      BY <2>11, <2>12
  <1> QED
    BY <1>7, <1>8

\* The cache after a tail read.
LEMMA OpenedIs ==
  ASSUME Rows!RecallAssumption, LogShape, Proper(conv), cache' = Rows!Opened, UNCHANGED <<conv, log>>
  PROVE  CacheShape' /\ Kept' /\ cache'.native = conv
  <1> DEFINE b == NRows + 1
             fresh == [i \in Rows!Rows |-> IF i \in Rows!Newest(b) THEN Rows!Now(conv, i) ELSE 0]
             laid == [Rows!NoRows EXCEPT ![conv] = fresh]
             end == Len(log[conv])
  <1>1. /\ NRows \in Nat /\ MaxEvents \in Nat /\ conv \in Nat \ {0} /\ conv \in Rows!Convs
        /\ end \in Nat /\ end <= MaxEvents /\ b \in 1..NRows + 1 /\ \A i \in Rows!Rows : i < b /\ i \in Nat
    BY DEF Rows!RecallAssumption, LogShape, Rows!Convs, Rows!Rows
  <1>2. cache' = [native |-> conv, rows |-> laid, through |-> end + 1, before |-> Rows!Before(b)]
    BY DEF Rows!Opened, Rows!End
  <1>3. /\ Rows!Before(b) \in 1..NRows + 1
        /\ (Rows!Before(b) # 1 => Rows!Before(b) \in Rows!Newest(b))
        /\ Rows!Newest(b) \subseteq {i \in Rows!Rows : i < b /\ Rows!Now(conv, i) # 0}
        /\ \A i \in Rows!Newest(b) : Rows!Before(b) <= i
        /\ \A i \in Rows!Rows : i < b /\ Rows!Now(conv, i) # 0 /\ Rows!Before(b) <= i => i \in Rows!Newest(b)
    BY <1>1, NewestIs
  <1>4. \A i \in Rows!Rows : Rows!Now(conv, i) = Rows!At(conv, end, i) /\ Rows!Now(conv, i) \in 0..2
    BY <1>1, AtIs DEF Rows!Now, Rows!End
  <1>5. Rows!Before(b) # 1 => Rows!Before(b) \in Rows!Rows /\ Began(conv, end + 1, Rows!Before(b))
    <2> SUFFICES ASSUME Rows!Before(b) # 1
                 PROVE  Rows!Before(b) \in Rows!Rows /\ Began(conv, end + 1, Rows!Before(b))
      OBVIOUS
    <2>1. Rows!Before(b) \in Rows!Rows /\ Rows!At(conv, end, Rows!Before(b)) # 0
      BY <1>3, <1>4
    <2> QED
      BY <1>1, <2>1, ThereBegan
  <1>6. fresh \in [Rows!Rows -> 0..2]
    BY <1>4
  <1>7. \A i \in Rows!Rows : fresh[i] = IF i \in Rows!Newest(b) THEN Rows!Now(conv, i) ELSE 0
    OBVIOUS
  <1> HIDE DEF fresh
  <1>16. /\ laid \in [Rows!Convs -> [Rows!Rows -> 0..2]] /\ laid[conv] = fresh
         /\ \A c \in Rows!Convs \ {conv} : laid[c] = Rows!NoRows[c]
    <2>1. Rows!NoRows \in [Rows!Convs -> [Rows!Rows -> 0..2]]
      BY DEF Rows!NoRows
    <2> QED
      BY <1>1, <1>6, <2>1
  <1> HIDE DEF laid, end, b
  <1>8. \A i \in Rows!Rows : i < Rows!Before(b) => fresh[i] = 0
    BY <1>1, <1>3, <1>7
  <1>9. \A i \in Rows!Rows : i >= Rows!Before(b) => fresh[i] = Rows!At(conv, end, i)
    BY <1>1, <1>3, <1>4, <1>7
  <1>10. /\ cache'.native = conv /\ cache'.rows = laid /\ cache'.through = end + 1
         /\ cache'.before = Rows!Before(b) /\ cache' \in Caches
    BY <1>1, <1>2, <1>3, <1>16 DEF Caches
  <1>11. CacheShape'
    BY <1>1, <1>3, <1>10 DEF CacheShape, Caches
  <1>13. Began(conv, end + 1, Rows!Before(b)) => Began(conv, cache.through, cache.before)'
    BY <1>10 DEF Began
  <1>14. \A n \in Nat, i \in Rows!Rows : Rows!At(conv, n, i)' = Rows!At(conv, n, i)
    BY <1>10 DEF Rows!At
  <1>15. end \in end + 1 - 1..end
    BY <1>1
  <1> QED
    <2>1. \A c \in Rows!Convs \ {conv} : cache'.rows[c] = Rows!NoRows[c]
      BY <1>10, <1>16
    <2>2. cache'.rows[conv] = fresh
      BY <1>10, <1>16
    <2>3. end + 1 # 0 /\ end + 1 <= end + 1
      BY <1>1
    <2> QED
      BY <1>1, <1>5, <1>8, <1>9, <1>10, <1>11, <1>13, <1>14, <1>15, <2>1, <2>2, <2>3 DEF Kept, end

\* The older rows began before.
LEMMA BeginsBelow ==
  ASSUME LogShape, NEW c \in Rows!Convs, Proper(c), NEW t \in Nat, NEW b \in Rows!Rows, Began(c, t, b),
         NEW r \in Rows!Rows, r < b
  PROVE  Began(c, t, r)
  <1>1. Len(log[c]) \in Nat /\ log[c] \in Seq(Events)
    BY DEF LogShape
  <1>2. PICK k \in 1..t - 1 : k <= Len(log[c]) /\ log[c][k].row = b /\ log[c][k].version = 1
    BY DEF Began
  <1>3. k \in 1..Len(log[c])
    BY <1>1, <1>2
  <1>4. PICK j \in 1..k - 1 : log[c][j].row = r
    BY <1>2, <1>3 DEF Proper
  <1>5. j \in 1..t - 1 /\ j \in 1..Len(log[c]) /\ j <= Len(log[c])
    BY <1>2, <1>3, <1>4, <1>1
  <1>6. CASE log[c][j].version = 1
    BY <1>4, <1>5, <1>6 DEF Began
  <1>7. CASE log[c][j].version # 1
    <2>1. PICK z \in 1..j - 1 : log[c][z].row = r /\ log[c][z].version = 1
      BY <1>4, <1>5, <1>7 DEF Proper
    <2>2. z \in 1..t - 1 /\ z <= Len(log[c])
      BY <1>1, <1>5, <2>1
    <2> QED
      BY <2>1, <2>2 DEF Began
  <1> QED
    BY <1>6, <1>7

\* What began before a cursor began before a later one.
LEMMA BeganEarlier ==
  ASSUME NEW c, NEW s \in Nat, NEW t \in Nat, s <= t, NEW i, Began(c, s, i)
  PROVE  Began(c, t, i)
  BY DEF Began

\* The cache after a delta.
LEMMA MergedIs ==
  ASSUME Rows!RecallAssumption, LogShape, Proper(conv), CacheShape, Kept, cache.native = conv,
         cache' = Rows!Merged, UNCHANGED <<conv, log>>
  PROVE  /\ CacheShape' /\ Kept'
         /\ cache'.through >= cache.through /\ cache'.native = cache.native /\ cache'.before = cache.before
  <1> DEFINE t == cache.through
             b == cache.before
             end == Len(log[conv])
             since == {k \in 1..end : k >= t}
             new == {log[conv][k].row : k \in {j \in since : log[conv][j].version = 1}}
             touched == {log[conv][k].row : k \in since}
             mine == cache.rows[conv]
             merged == [i \in Rows!Rows |-> IF i \in new \/ (i \in touched /\ mine[i] # 0)
                                            THEN Rows!Now(conv, i) ELSE mine[i]]
             laid == [cache.rows EXCEPT ![conv] = merged]
  <1>1. /\ MaxEvents \in Nat /\ conv \in Nat \ {0} /\ conv \in Rows!Convs
        /\ end \in Nat /\ end <= MaxEvents /\ t \in Nat \ {0} /\ t <= end + 1
        /\ \A i \in Rows!Rows : i \in Nat
    <2>1. MaxEvents \in Nat /\ conv \in Rows!Convs /\ end \in Nat /\ end <= MaxEvents
      BY DEF Rows!RecallAssumption, LogShape
    <2>2. conv \in Nat \ {0} /\ \A i \in Rows!Rows : i \in Nat
      BY <2>1 DEF Rows!Convs, Rows!Rows
    <2>3. t \in Nat
      BY DEF CacheShape, Caches
    <2>4. t # 0 /\ t <= end + 1
      BY DEF Kept
    <2> QED
      BY <2>1, <2>2, <2>3, <2>4
  <1>2. cache' = [cache EXCEPT !.rows = laid, !.through = end + 1]
    BY DEF Rows!Merged, Rows!End
  <1>3. \A i \in Rows!Rows : Rows!Now(conv, i) = Rows!At(conv, end, i) /\ Rows!Now(conv, i) \in 0..2
    BY <1>1, AtIs DEF Rows!Now, Rows!End
  <1>4. merged \in [Rows!Rows -> 0..2]
    <2>1. mine \in [Rows!Rows -> 0..2]
      BY <1>1 DEF CacheShape, Caches
    <2> HIDE DEF mine
    <2> QED
      BY <1>3, <2>1
  <1>5. \A i \in Rows!Rows : merged[i] = IF i \in new \/ (i \in touched /\ mine[i] # 0)
                                         THEN Rows!Now(conv, i) ELSE mine[i]
    OBVIOUS
  <1>6. \A i : i \notin new <=> \A k \in 1..end : k >= t /\ log[conv][k].row = i => log[conv][k].version # 1
    OBVIOUS
  <1>7. \A i : i \notin touched <=> \A k \in 1..end : k >= t => log[conv][k].row # i
    OBVIOUS
  <1> HIDE DEF merged
  <1>17. /\ laid \in [Rows!Convs -> [Rows!Rows -> 0..2]] /\ laid[conv] = merged
         /\ \A c \in Rows!Convs \ {conv} : laid[c] = cache.rows[c]
    BY <1>1, <1>4, LaidIs
  <1> HIDE DEF since, new, touched, laid, mine
  <1>8. ASSUME NEW i \in Rows!Rows, i >= b PROVE merged[i] = Rows!At(conv, end, i)
    <2>1. PICK n \in t - 1..end : mine[i] = Rows!At(conv, n, i)
      BY <1>8 DEF Kept, mine
    <2>2. n \in Nat /\ n \in 0..end /\ end \in 0..Len(log[conv]) /\ n <= end
      BY <1>1, <2>1
    <2>3. CASE i \in new \/ (i \in touched /\ mine[i] # 0)
      BY <1>3, <1>5, <2>3
    <2>4. CASE i \notin touched
      <3>0. i \notin new
        BY <1>6, <1>7, <2>4
      <3>1. \A k \in n + 1..end : log[conv][k].row # i
        BY <1>1, <1>7, <2>1, <2>4
      <3>2. Rows!At(conv, n, i) = Rows!At(conv, end, i)
        BY <1>1, <2>2, <3>1, AtStays
      <3> QED
        BY <1>5, <2>1, <2>4, <3>0, <3>2
    <2>5. CASE i \notin new /\ mine[i] = 0
      <3>1. \A k \in n + 1..end : k \in 1..end /\ k >= t
        BY <1>1, <2>1
      <3>2. \A k \in n + 1..end : log[conv][k].row = i => log[conv][k].version # 1
        BY <1>6, <2>5, <3>1
      <3>3. Rows!At(conv, n, i) = 0 /\ n \in 0..end /\ end \in 0..Len(log[conv]) /\ conv \in Rows!Convs
        BY <1>1, <2>1, <2>2, <2>5
      <3> HIDE DEF end
      <3>4. Rows!At(conv, end, i) = 0
        BY <3>2, <3>3, ZeroStays
      <3> QED
        BY <1>5, <2>5, <3>4
    <2> QED
      BY <2>3, <2>4, <2>5
  <1>9. ASSUME NEW i \in Rows!Rows, i < b PROVE merged[i] = 0
    <2>1. b # 1 /\ b \in Rows!Rows /\ Began(conv, t, b)
      BY <1>1, <1>9 DEF Kept, Rows!Rows
    <2>2. i \notin new
      <3> SUFFICES ASSUME NEW k \in 1..end, k >= t, log[conv][k].row = i, log[conv][k].version = 1
                   PROVE  FALSE
        BY <1>6
      <3>1. b < log[conv][k].row
        BY <1>1, <2>1, InOrder
      <3> QED
        BY <1>1, <1>9, <2>1, <3>1
    <2>3. mine[i] = 0
      BY <1>9 DEF Kept, mine
    <2> QED
      BY <1>5, <2>2, <2>3
  <1>10. /\ cache'.native = conv /\ cache'.rows = laid /\ cache'.through = end + 1 /\ cache'.before = b
         /\ cache' \in Caches
    <2> DEFINE m == end + 1
    <2>1. m \in Nat /\ cache \in Caches /\ cache' = [cache EXCEPT !.rows = laid, !.through = m]
      BY <1>1, <1>2 DEF CacheShape
    <2> HIDE DEF m
    <2>2. /\ cache'.native = cache.native /\ cache'.rows = laid /\ cache'.through = m /\ cache'.before = b
          /\ cache' \in Caches
      BY <1>17, <2>1 DEF Caches
    <2> QED
      BY <2>2 DEF m
  <1>11. CacheShape'
    BY <1>1, <1>10 DEF CacheShape
  <1>12. \A n \in Nat, i \in Rows!Rows : Rows!At(conv, n, i)' = Rows!At(conv, n, i)
    BY <1>10 DEF Rows!At
  <1>13. b # 1 => b \in Rows!Rows /\ Began(conv, end + 1, b)
    BY <1>1, BeganEarlier DEF Kept
  <1>14. Began(conv, end + 1, b) => Began(conv, cache.through, cache.before)'
    BY <1>10 DEF Began
  <1>15. end \in end + 1 - 1..end
    BY <1>1
  <1> HIDE DEF end, b, t
  <1>16. Kept'
    <2>1. \A c \in Rows!Convs \ {conv} : cache'.rows[c] = Rows!NoRows[c]
      BY <1>10, <1>17 DEF Kept
    <2>2. cache'.rows[conv] = merged
      BY <1>10, <1>17
    <2>3. end + 1 # 0 /\ end + 1 <= end + 1
      BY <1>1
    <2> QED
      BY <1>1, <1>8, <1>9, <1>10, <1>12, <1>13, <1>14, <1>15, <2>1, <2>2, <2>3 DEF Kept, end
  <1> QED
    BY <1>1, <1>10, <1>11, <1>16 DEF t, b

\* The cache after an older page: what a follower knows of its oldest row holds of the new oldest row.
LEMMA PagedIs ==
  ASSUME Rows!RecallAssumption, LogShape, Proper(conv), CacheShape, Kept, cache.before # 1, cache.native = conv,
         cache' = Rows!Paged, UNCHANGED <<conv, log>>
  PROVE  /\ CacheShape' /\ Kept'
         /\ cache'.through = cache.through /\ cache'.native = cache.native
         /\ cache'.before # 1 => \A t \in Nat : Began(conv, t, cache.before) => Began(conv, t, cache'.before)
  <1> DEFINE b == cache.before
             d == Rows!Before(b)
             end == Len(log[conv])
             mine == cache.rows[conv]
             paged == [i \in Rows!Rows |-> IF i \in Rows!Newest(b) THEN Rows!Now(conv, i) ELSE mine[i]]
             laid == [cache.rows EXCEPT ![conv] = paged]
  <1>1. /\ conv \in Nat \ {0} /\ conv \in Rows!Convs /\ end \in Nat /\ b \in 1..NRows + 1
        /\ cache.through \in Nat /\ cache.through <= end + 1 /\ b \in Rows!Rows
        /\ Began(conv, cache.through, b) /\ NRows \in Nat
        /\ \A i \in Rows!Rows : i \in Nat
    <2>1. conv \in Nat \ {0} /\ conv \in Rows!Convs /\ NRows \in Nat /\ end \in Nat
      BY DEF Rows!RecallAssumption, LogShape, Rows!Convs
    <2>2. cache.through \in Nat /\ b \in 1..NRows + 1
      BY DEF CacheShape, Caches
    <2>3. cache.through <= end + 1 /\ b \in Rows!Rows /\ Began(conv, cache.through, b)
      BY DEF Kept
    <2>4. \A i \in Rows!Rows : i \in Nat
      BY DEF Rows!Rows
    <2> QED
      BY <2>1, <2>2, <2>3, <2>4
  <1>2. cache' = [cache EXCEPT !.rows = laid, !.before = d]
    BY DEF Rows!Paged
  <1>3. \A i \in Rows!Rows : Rows!Now(conv, i) = Rows!At(conv, end, i) /\ Rows!Now(conv, i) \in 0..2
    BY <1>1, AtIs DEF Rows!Now, Rows!End
  <1>4. /\ d \in 1..NRows + 1
        /\ (d # 1 => d \in Rows!Newest(b))
        /\ Rows!Newest(b) \subseteq {i \in Rows!Rows : i < b /\ Rows!Now(conv, i) # 0}
        /\ \A i \in Rows!Newest(b) : d <= i
        /\ \A i \in Rows!Rows : i < b /\ Rows!Now(conv, i) # 0 /\ d <= i => i \in Rows!Newest(b)
    BY <1>1, NewestIs
  <1>5. paged \in [Rows!Rows -> 0..2]
    <2>1. mine \in [Rows!Rows -> 0..2]
      BY <1>1 DEF CacheShape, Caches
    <2> HIDE DEF mine
    <2> QED
      BY <1>3, <2>1
  <1>6. \A i \in Rows!Rows : paged[i] = IF i \in Rows!Newest(b) THEN Rows!Now(conv, i) ELSE mine[i]
    OBVIOUS
  <1> HIDE DEF paged
  <1>18. /\ laid \in [Rows!Convs -> [Rows!Rows -> 0..2]] /\ laid[conv] = paged
         /\ \A c \in Rows!Convs \ {conv} : laid[c] = cache.rows[c]
    BY <1>1, <1>5, LaidIs
  <1> HIDE DEF d, end, laid, mine
  <1>7. d # 1 => d \in Rows!Rows /\ d < b
    BY <1>4
  <1>8. d # 1 => \A t \in Nat : Began(conv, t, b) => Began(conv, t, d)
    BY <1>1, <1>7, BeginsBelow
  <1>9. ASSUME NEW i \in Rows!Rows, i >= d
        PROVE  \E n \in cache.through - 1..end : paged[i] = Rows!At(conv, n, i)
    <2>1. end \in cache.through - 1..end
      BY <1>1
    <2>2. CASE i \in Rows!Newest(b)
      BY <1>3, <1>6, <2>1, <2>2
    <2>3. CASE i >= b
      <3>1. i \notin Rows!Newest(b)
        BY <1>1, <1>4, <2>3
      <3>2. \E n \in cache.through - 1..end : mine[i] = Rows!At(conv, n, i)
        BY <2>3 DEF Kept, end, mine
      <3> QED
        BY <1>6, <3>1, <3>2
    <2>4. CASE i < b /\ i \notin Rows!Newest(b)
      <3>1. d <= i
        BY <1>1, <1>4, <1>9
      <3>2. Rows!At(conv, end, i) = 0
        BY <1>3, <1>4, <2>4, <3>1
      <3>3. mine[i] = 0
        BY <2>4 DEF Kept, mine
      <3> QED
        BY <1>6, <2>1, <2>4, <3>2, <3>3
    <2>5. i < b \/ i >= b
      BY <1>1
    <2> QED
      BY <2>2, <2>3, <2>4, <2>5
  <1>10. ASSUME NEW i \in Rows!Rows, i < d PROVE paged[i] = 0
    <2>1. d # 1 /\ i < b
      BY <1>1, <1>4, <1>7, <1>10 DEF Rows!Rows
    <2>2. i \notin Rows!Newest(b)
      BY <1>1, <1>4, <1>10
    <2>3. mine[i] = 0
      BY <2>1 DEF Kept, mine
    <2> QED
      BY <1>6, <2>2, <2>3
  <1>11. /\ cache'.native = conv /\ cache'.rows = laid /\ cache'.through = cache.through /\ cache'.before = d
         /\ cache' \in Caches
    <2>1. d \in Nat /\ cache \in Caches
      BY <1>1, <1>4 DEF CacheShape
    <2> QED
      BY <1>2, <1>18, <2>1 DEF Caches
  <1>12. CacheShape'
    BY <1>1, <1>4, <1>11 DEF CacheShape
  <1>14. d # 1 => Began(conv, cache.through, d)
    BY <1>1, <1>8
  <1>15. Began(conv, cache.through, d) => Began(conv, cache.through, cache.before)'
    BY <1>11 DEF Began
  <1>16. \A n \in cache.through - 1..end : n \in Int
    BY <1>1
  <1> HIDE DEF b
  <1>17. Kept'
    <2>1. ASSUME NEW i \in Rows!Rows, i >= d
          PROVE  \E n \in cache'.through - 1..end : cache'.rows[conv][i] = Rows!At(conv, n, i)'
      <3>1. PICK n \in cache.through - 1..end : paged[i] = Rows!At(conv, n, i)
        BY <1>9, <2>1
      <3>2. Rows!At(conv, n, i)' = Rows!At(conv, n, i)
        BY DEF Rows!At
      <3> QED
        BY <1>11, <1>18, <3>1, <3>2
    <2>2. \A c \in Rows!Convs \ {conv} : cache'.rows[c] = Rows!NoRows[c]
      BY <1>11, <1>18 DEF Kept
    <2>3. cache'.rows[conv] = paged /\ cache'.through # 0
      BY <1>11, <1>18 DEF Kept
    <2> QED
      BY <1>1, <1>7, <1>10, <1>11, <1>14, <1>15, <2>1, <2>2, <2>3 DEF Kept, end
  <1> QED
    BY <1>8, <1>11, <1>12, <1>17 DEF b

\* The cache after a frame: one that repeats what a poll has read takes the cursor back.
LEMMA FrameIs ==
  ASSUME Rows!RecallAssumption, LogShape, NEW c \in Rows!Convs, Proper(c), CacheShape, Kept, c = conv,
         NEW k \in 1..Len(log[c]), k <= cache.through, cache.before # 1 => Began(c, k, cache.before),
         cache' = [cache EXCEPT !.rows[c] = Rows!Applied(@, log[c][k]), !.through = k + 1],
         UNCHANGED <<conv, log>>
  PROVE  /\ CacheShape' /\ Kept'
         /\ cache'.through = k + 1 /\ cache'.native = cache.native /\ cache'.before = cache.before
  <1> DEFINE b == cache.before
             e == log[c][k]
             r == e.row
             mine == cache.rows[conv]
             next == Rows!Applied(mine, e)
             laid == [cache.rows EXCEPT ![conv] = next]
             end == Len(log[c])
  <1>1. /\ MaxEvents \in Nat /\ end \in Nat /\ end <= MaxEvents /\ k \in Nat \ {0} /\ k <= end
        /\ cache.through \in Nat /\ cache.through <= end + 1 /\ k - 1 \in 0..end /\ k \in 0..end
        /\ \A i \in Rows!Rows : i \in Nat
    <2>1. MaxEvents \in Nat /\ end \in Nat /\ end <= MaxEvents
      BY DEF Rows!RecallAssumption, LogShape
    <2> HIDE DEF end
    <2>2. k \in Nat \ {0} /\ k <= end /\ k - 1 \in 0..end /\ k \in 0..end
      BY <2>1 DEF end
    <2>3. cache.through \in Nat /\ cache.through <= end + 1
      BY DEF CacheShape, Caches, Kept, end
    <2>4. \A i \in Rows!Rows : i \in Nat
      BY DEF Rows!Rows
    <2> QED
      BY <2>1, <2>2, <2>3, <2>4
  <1>2. e \in Events /\ r \in Rows!Rows /\ e.version \in 0..2
    <2>1. log[c] \in Seq(Events)
      BY DEF LogShape
    <2>2. e \in Events
      BY <2>1
    <2> HIDE DEF e
    <2> QED
      BY <2>2 DEF Events
  <1>3. mine \in [Rows!Rows -> 0..2] /\ conv \in Rows!Convs
    BY DEF CacheShape, Caches, LogShape
  <1>4. /\ next \in [Rows!Rows -> 0..2]
        /\ \A i \in Rows!Rows : i # r => next[i] = mine[i]
        /\ next[r] = IF e.version = 2 /\ mine[r] = 0 THEN 0 ELSE e.version
    <2> HIDE DEF e, mine
    <2> QED
      BY <1>2, <1>3 DEF Rows!Applied
  <1>11. cache' = [cache EXCEPT !.rows = laid, !.through = k + 1]
    OBVIOUS
  <1> HIDE DEF e, next
  <1>12. /\ laid \in [Rows!Convs -> [Rows!Rows -> 0..2]] /\ laid[conv] = next
         /\ \A d \in Rows!Convs \ {conv} : laid[d] = cache.rows[d]
    BY <1>3, <1>4, LaidIs
  <1> HIDE DEF end, laid, mine
  <1>5. ASSUME NEW i \in Rows!Rows, i >= b
        PROVE  \E n \in k..end : next[i] = Rows!At(c, n, i)
    <2>1. PICK n \in cache.through - 1..end : mine[i] = Rows!At(c, n, i)
      BY <1>5 DEF Kept, end, mine
    <2>2. n \in Nat /\ (n >= k \/ n = k - 1) /\ n <= end /\ k \in k..end
      BY <1>1, <2>1
    <2>3. CASE i # r
      <3>1. CASE n >= k
        BY <1>1, <1>4, <2>1, <2>2, <2>3, <3>1
      <3>2. CASE n = k - 1
        <4>1. \A j \in (k - 1) + 1..k : log[c][j].row # i
          BY <1>1, <2>3 DEF e
        <4>2. Rows!At(c, k - 1, i) = Rows!At(c, k, i)
          <5>1. k \in 0..Len(log[c]) /\ k - 1 \in 0..k
            BY <1>1 DEF end
          <5> QED
            BY <4>1, <5>1, AtStays
        <4> QED
          BY <1>4, <2>1, <2>2, <2>3, <3>2, <4>2
      <3> QED
        BY <2>2, <3>1, <3>2
    <2>4. CASE i = r /\ ~(e.version = 2 /\ mine[r] = 0)
      <3>1. k \in 0..Len(log[c])
        BY <1>1 DEF end
      <3>2. PICK j \in 1..k : /\ log[c][j].row = i /\ Rows!At(c, k, i) = log[c][j].version
                              /\ \A x \in 1..k : log[c][x].row = i => x <= j
        <4>1. k \in 1..k /\ log[c][k].row = i
          BY <1>1, <2>4 DEF e
        <4>2. /\ Rows!At(c, k, i) \in 0..2
              /\ \/ (\A x \in 1..k : log[c][x].row # i) /\ Rows!At(c, k, i) = 0
                 \/ \E j \in 1..k : /\ log[c][j].row = i /\ Rows!At(c, k, i) = log[c][j].version
                                    /\ \A x \in 1..k : log[c][x].row = i => x <= j
          BY <3>1, AtIs
        <4> QED
          BY <4>1, <4>2
      <3>3. j = k
        <4>1. k \in 1..k /\ log[c][k].row = i
          BY <1>1, <2>4 DEF e
        <4>2. k <= j
          BY <3>2, <4>1
        <4> QED
          BY <1>1, <4>2
      <3>4. next[i] = Rows!At(c, k, i)
        BY <1>4, <2>4, <3>2, <3>3 DEF e
      <3> QED
        BY <2>2, <3>4
    <2>5. CASE i = r /\ e.version = 2 /\ mine[r] = 0
      <3>1. CASE n >= k
        BY <1>1, <1>4, <2>1, <2>2, <2>5, <3>1
      <3>2. CASE n = k - 1
        <4>1. k \in 1..Len(log[c]) /\ k - 1 \in 0..Len(log[c])
          BY <1>1 DEF end
        <4>2. /\ \E j \in 1..k - 1 : log[c][j].row = i /\ log[c][j].version = 1
              /\ \A j \in 1..k - 1 : log[c][j].row = i => log[c][j].version # 0
          <5>1. log[c][k].version # 1 /\ log[c][k].row = i
            BY ONLY <2>5 DEF e
          <5> QED
            BY ONLY Proper(c), <4>1, <5>1 DEF Proper
        <4>3. Rows!At(c, k - 1, i) # 0
          <5>1. \/ \A j \in 1..k - 1 : log[c][j].row # i
                \/ \E j \in 1..k - 1 : log[c][j].row = i /\ Rows!At(c, k - 1, i) = log[c][j].version
            BY <4>1, AtIs
          <5> QED
            BY <4>2, <5>1
        <4> QED
          BY <2>1, <2>5, <3>2, <4>3
      <3> QED
        BY <2>2, <3>1, <3>2
    <2> QED
      BY <2>3, <2>4, <2>5
  <1>6. ASSUME NEW i \in Rows!Rows, i < b PROVE next[i] = 0
    <2>1. mine[i] = 0
      BY <1>6 DEF Kept, mine
    <2>2. CASE i # r \/ e.version \in {0, 2}
      BY <1>2, <1>4, <2>1, <2>2
    <2>3. CASE i = r /\ e.version = 1
      <3>1. b # 1 /\ b \in Rows!Rows /\ Began(c, k, b)
        BY <1>1, <1>6 DEF Kept, Rows!Rows
      <3>2. k \in Nat /\ k <= k /\ log[c][k].version = 1
        BY <1>1, <2>3 DEF e
      <3>3. b < log[c][k].row
        BY <3>1, <3>2, InOrder
      <3> QED
        BY <1>1, <1>6, <2>3, <3>1, <3>3 DEF e
    <2> QED
      BY <1>2, <2>2, <2>3
  <1>7. /\ cache'.native = cache.native /\ cache'.rows = laid /\ cache'.through = k + 1 /\ cache'.before = b
        /\ cache' \in Caches
    <2> DEFINE m == k + 1
    <2>1. m \in Nat /\ cache \in Caches /\ cache' = [cache EXCEPT !.rows = laid, !.through = m]
      BY <1>1, <1>11 DEF CacheShape
    <2> HIDE DEF m
    <2>2. /\ cache'.native = cache.native /\ cache'.rows = laid /\ cache'.through = m /\ cache'.before = b
          /\ cache' \in Caches
      BY <1>12, <2>1 DEF Caches
    <2> QED
      BY <2>2 DEF m
  <1>8. CacheShape'
    <2>1. k + 1 <= MaxEvents + 1
      BY <1>1
    <2> QED
      BY <1>7, <2>1 DEF CacheShape
  <1>9. b # 1 => b \in Rows!Rows /\ Began(conv, cache.through, cache.before)'
    <2>1. b # 1 => b \in Rows!Rows /\ Began(c, k + 1, b)
      BY <1>1, BeganEarlier DEF Kept
    <2>2. Began(c, k + 1, b) => Began(conv, cache.through, cache.before)'
      BY <1>7 DEF Began
    <2> QED
      BY <2>1, <2>2
  <1> HIDE DEF b
  <1>10. Kept'
    <2>1. ASSUME NEW i \in Rows!Rows, i >= b
          PROVE  \E n \in cache'.through - 1..end : cache'.rows[conv][i] = Rows!At(conv, n, i)'
      <3>1. PICK n \in k..end : next[i] = Rows!At(c, n, i)
        BY <1>5, <2>1
      <3>2. Rows!At(conv, n, i)' = Rows!At(c, n, i)
        BY DEF Rows!At
      <3>3. n \in k + 1 - 1..end
        BY <1>1, <3>1
      <3> QED
        BY <1>7, <1>12, <3>1, <3>2, <3>3
    <2>2. cache'.through # 0 /\ cache'.through <= end + 1
      BY <1>1, <1>7
    <2>3. \A d \in Rows!Convs \ {conv} : cache'.rows[d] = Rows!NoRows[d]
      BY <1>7, <1>12 DEF Kept
    <2>4. cache'.rows[conv] = next
      BY <1>7, <1>12
    <2> QED
      BY <1>6, <1>7, <1>9, <2>1, <2>2, <2>3, <2>4 DEF Kept, end
  <1> QED
    BY <1>7, <1>8, <1>10 DEF b

-----------------------------------------------------------------------------
(* A new event. *)

\* While there are fewer events than the bound, so are those of one conversation.
LEMMA FewerEvents ==
  ASSUME Rows!RecallAssumption, LogShape, Cardinality(Rows!Events) < MaxEvents
  PROVE  Len(log[conv]) < MaxEvents
  <1> DEFINE end == Len(log[conv])
             mine == {conv} \X (1..end)
             all == Rows!Convs \X (1..MaxEvents)
  <1>1. /\ MaxEvents \in Nat /\ NConvs \in Nat /\ conv \in Rows!Convs /\ end \in Nat /\ end <= MaxEvents
        /\ Rows!Convs = 1..NConvs
    BY DEF Rows!RecallAssumption, LogShape, Rows!Convs
  <1>2. IsFiniteSet(1..NConvs) /\ IsFiniteSet(1..MaxEvents) /\ IsFiniteSet(1..end) /\ Cardinality(1..end) = end
    <2>1. 1 \in Int /\ NConvs \in Int /\ MaxEvents \in Int /\ end \in Int
      BY <1>1
    <2> HIDE DEF end
    <2>2. Cardinality(1..end) = end
      BY <1>1, <2>1, FS_Interval
    <2> QED
      BY <2>1, <2>2, FS_Interval
  <1>3. Rows!Events \subseteq all /\ \A e \in mine : e \in all /\ e[2] <= Len(log[e[1]])
    BY <1>1 DEF Rows!Events
  <1>4. mine \subseteq Rows!Events
    BY <1>3 DEF Rows!Events, Rows!End
  <1>5. IsFiniteSet({conv}) /\ Cardinality({conv}) = 1
    BY FS_Singleton
  <1> HIDE DEF end
  <1>6. IsFiniteSet(all)
    BY <1>1, <1>2, FS_Product
  <1>7. Cardinality(mine) = end
    <2> DEFINE one == {conv}
               many == 1..end
    <2>1. IsFiniteSet(one) /\ Cardinality(one) = 1 /\ IsFiniteSet(many) /\ Cardinality(many) = end
      BY <1>2, <1>5
    <2>2. mine = one \X many
      OBVIOUS
    <2> HIDE DEF one, many
    <2>3. Cardinality(one \X many) = 1 * end
      BY <2>1, FS_Product
    <2> HIDE DEF mine
    <2> QED
      BY <1>1, <2>2, <2>3
  <1> HIDE DEF all, mine
  <1>8. IsFiniteSet(Rows!Events)
    BY <1>3, <1>6, FS_Subset
  <1>9. Cardinality(mine) <= Cardinality(Rows!Events) /\ Cardinality(Rows!Events) \in Nat
    BY <1>4, <1>8, FS_Subset, FS_CardinalityType
  <1>10. end < MaxEvents
    BY <1>1, <1>7, <1>9
  <1> QED
    BY <1>10 DEF end

\* What happens is put at the end of the log, and is as proper as what it follows.
LEMMA HappensIs ==
  ASSUME Rows!RecallAssumption, LogShape, \A c \in Rows!Convs : Proper(c), NEW i \in Rows!Rows, NEW v \in 0..2,
         Rows!Happens(i, v)
  PROVE  /\ LogShape' /\ \A c \in Rows!Convs : Proper(c)'
         /\ \A c \in Rows!Convs : /\ Len(log[c]) <= Len(log'[c])
                                  /\ \A k \in 1..Len(log[c]) : log'[c][k] = log[c][k]
  <1> DEFINE end == Len(log[conv])
             e == [row |-> i, version |-> v]
             next == {j \in Rows!Rows : \A k \in 1..end : log[conv][k].row # j}
  <1>1. /\ conv \in Rows!Convs /\ end \in Nat /\ log[conv] \in Seq(Events) /\ end < MaxEvents /\ MaxEvents \in Nat
        /\ log \in [Rows!Convs -> Seq(Events)]
    <2>1. end < MaxEvents
      BY FewerEvents, SameSize DEF Rows!Happens
    <2> QED
      BY <2>1 DEF LogShape, Rows!RecallAssumption
  <1>2. e \in Events
    BY DEF Events
  <1>3. log' = [log EXCEPT ![conv] = Append(log[conv], e)] /\ conv' = conv
    BY DEF Rows!Happens
  <1>4. v = 1 => next # {} /\ i = Rows!Min(next)
    BY DEF Rows!Happens, Rows!End
  <1>5. v # 1 => Rows!At(conv, end, i) # 0 /\ Rows!At(conv, end, i) # v
    BY DEF Rows!Happens, Rows!Now, Rows!End
  <1> DEFINE longer == Append(log[conv], e)
  <1>6. /\ longer \in Seq(Events) /\ Len(longer) = end + 1 /\ longer[end + 1] = e
        /\ \A k \in 1..end : longer[k] = log[conv][k]
    <2> HIDE DEF e
    <2> QED
      BY <1>1, <1>2
  <1> HIDE DEF longer
  <1>7. /\ log' \in [Rows!Convs -> Seq(Events)] /\ log'[conv] = longer
        /\ \A c \in Rows!Convs : c # conv => log'[c] = log[c]
    BY <1>1, <1>3, <1>6 DEF longer
  <1>8. LogShape'
    <2>1. \A c \in Rows!Convs : Len(log'[c]) <= MaxEvents
      BY <1>1, <1>6, <1>7 DEF LogShape
    <2> QED
      BY <1>1, <1>3, <1>7, <2>1 DEF LogShape
  <1>9. \A c \in Rows!Convs : /\ Len(log[c]) <= Len(log'[c])
                              /\ \A k \in 1..Len(log[c]) : log'[c][k] = log[c][k]
    <2> SUFFICES ASSUME NEW c \in Rows!Convs
                 PROVE  Len(log[c]) <= Len(log'[c]) /\ \A k \in 1..Len(log[c]) : log'[c][k] = log[c][k]
      OBVIOUS
    <2>1. CASE c = conv
      BY <1>1, <1>6, <1>7, <2>1
    <2>2. CASE c # conv
      <3>1. Len(log[c]) \in Nat
        BY DEF LogShape
      <3> QED
        BY <1>7, <2>2, <3>1
    <2> QED
      BY <2>1, <2>2
  <1>10. v = 1 => /\ \A j \in 1..end : log[conv][j].row # i
                  /\ \A r \in Rows!Rows : r < i => \E j \in 1..end : log[conv][j].row = r
    <2> SUFFICES ASSUME v = 1
                 PROVE  /\ \A j \in 1..end : log[conv][j].row # i
                        /\ \A r \in Rows!Rows : r < i => \E j \in 1..end : log[conv][j].row = r
      OBVIOUS
    <2>0. next \subseteq Rows!Rows /\ \A j \in Rows!Rows : j \in Nat
      BY DEF Rows!Rows
    <2>1. next \in SUBSET Nat /\ next # {} /\ i = Rows!Min(next)
      <3> HIDE DEF next
      <3> QED
        BY <1>4, <2>0
    <2>2. i \in next /\ \A r \in next : i <= r
      <3> HIDE DEF next
      <3> QED
        BY <2>1, MinIs
    <2>3. ASSUME NEW r \in Rows!Rows, r < i PROVE r \notin next
      BY <2>2, <2>3 DEF Rows!Rows
    <2> QED
      BY <2>2, <2>3
  <1>11. v # 1 => /\ \E j \in 1..end : log[conv][j].row = i /\ log[conv][j].version = 1
                  /\ \A j \in 1..end : log[conv][j].row = i => log[conv][j].version # 0
    <2> SUFFICES ASSUME v # 1
                 PROVE  /\ \E j \in 1..end : log[conv][j].row = i /\ log[conv][j].version = 1
                        /\ \A j \in 1..end : log[conv][j].row = i => log[conv][j].version # 0
      OBVIOUS
    <2>1. Rows!At(conv, end, i) # 0 /\ end \in 0..Len(log[conv])
      BY <1>1, <1>5
    <2>2. \E j \in 1..end : log[conv][j].row = i /\ log[conv][j].version = 1
      <3>1. Began(conv, end + 1, i)
        BY <1>1, <2>1, ThereBegan
      <3> HIDE DEF end
      <3> QED
        BY <1>1, <3>1 DEF Began
    <2>3. PICK k \in 1..end : /\ log[conv][k].row = i /\ log[conv][k].version # 0
                              /\ \A j \in 1..end : log[conv][j].row = i => j <= k
      BY <1>1, <2>1, AtIs
    <2>4. ASSUME NEW j \in 1..end, log[conv][j].row = i, log[conv][j].version = 0 PROVE FALSE
      <3>1. j <= k /\ j # k
        BY <2>3, <2>4
      <3>2. j \in 1..k - 1 /\ k \in 1..Len(log[conv])
        BY <1>1, <3>1
      <3> QED
        BY <1>1, <2>3, <2>4, <3>2 DEF Proper
    <2> QED
      BY <2>2, <2>4
  <1>12. ASSUME NEW c \in Rows!Convs PROVE Proper(c)'
    <2>1. CASE c # conv
      <3>1. log'[c] = log[c] /\ Proper(c)
        BY <1>7, <2>1
      <3> QED
        BY <3>1 DEF Proper
    <2>2. CASE c = conv
      <3> DEFINE P(s, k) == /\ s[k].version = 1 =>
                                /\ \A j \in 1..k - 1 : s[j].row # s[k].row
                                /\ \A r \in Rows!Rows : r < s[k].row => \E j \in 1..k - 1 : s[j].row = r
                            /\ s[k].version # 1 =>
                                /\ \E j \in 1..k - 1 : s[j].row = s[k].row /\ s[j].version = 1
                                /\ \A j \in 1..k - 1 : s[j].row = s[k].row => s[j].version # 0
      <3>1. ASSUME NEW k \in 1..end PROVE P(longer, k)
        <4>1. P(log[conv], k)
          BY <1>1 DEF Proper
        <4>2. longer[k] = log[conv][k] /\ \A j \in 1..k - 1 : longer[j] = log[conv][j]
          <5>1. \A j \in 1..k - 1 : j \in 1..end
            BY <1>1
          <5> HIDE DEF end
          <5> QED
            BY <1>6, <5>1
        <4> QED
          BY <4>1, <4>2
      <3>2. P(longer, end + 1)
        <4>1. longer[end + 1].row = i /\ longer[end + 1].version = v
          BY <1>6
        <4>2. (end + 1) - 1 = end
          BY <1>1
        <4> HIDE DEF end, e
        <4> QED
          BY <1>6, <1>10, <1>11, <4>1, <4>2
      <3> HIDE DEF P
      <3>3. \A k \in 1..Len(longer) : P(longer, k)
        <4>1. \A k \in 1..end + 1 : k \in 1..end \/ k = end + 1
          BY <1>1
        <4> QED
          BY <1>6, <3>1, <3>2, <4>1
      <3>4. \A k \in 1..Len(log'[c]) : P(log'[c], k)
        BY <1>7, <2>2, <3>3
      <3> QED
        BY <3>4 DEF Proper, P
    <2> QED
      BY <2>1, <2>2
  <1> QED
    BY <1>8, <1>9, <1>12

\* A log that grows keeps what was said of its past.
LEMMA LongerIs ==
  ASSUME LogShape, LogShape', NEW c \in Rows!Convs, Len(log[c]) <= Len(log'[c]),
         \A k \in 1..Len(log[c]) : log'[c][k] = log[c][k]
  PROVE  /\ \A n \in 0..Len(log[c]), i \in Rows!Rows : Rows!At(c, n, i)' = Rows!At(c, n, i)
         /\ \A t \in Nat, i \in Rows!Rows : Began(c, t, i) => Began(c, t, i)'
  <1>1. Len(log[c]) \in Nat /\ Len(log'[c]) \in Nat
    BY DEF LogShape
  <1>2. ASSUME NEW n \in 0..Len(log[c]), NEW i \in Rows!Rows PROVE Rows!At(c, n, i)' = Rows!At(c, n, i)
    <2> DEFINE es == {k \in 1..n : log[c][k].row = i}
               fs == {k \in 1..n : log'[c][k].row = i}
    <2>0. \A k \in 1..n : log'[c][k] = log[c][k]
      BY <1>1
    <2>1. es = fs
      BY <2>0
    <2>2. Rows!At(c, n, i) = IF es = {} THEN 0 ELSE log[c][Rows!Max(es)].version
      BY DEF Rows!At
    <2>3. Rows!At(c, n, i)' = IF fs = {} THEN 0 ELSE log'[c][Rows!Max(fs)].version
      BY DEF Rows!At
    <2>4. es # {} => Rows!Max(es) \in 1..n
      <3>1. es \in SUBSET (0..n) /\ n \in Nat /\ es \subseteq 1..n
        BY <1>1
      <3> HIDE DEF es
      <3> QED
        BY <3>1, MaxIs
    <2> HIDE DEF es, fs
    <2> QED
      BY <2>0, <2>1, <2>2, <2>3, <2>4
  <1>3. ASSUME NEW t \in Nat, NEW i \in Rows!Rows, Began(c, t, i) PROVE Began(c, t, i)'
    BY <1>1, <1>3 DEF Began
  <1> QED
    BY <1>2, <1>3

-----------------------------------------------------------------------------
(* The cache keeps its shape, whatever was kept in it. *)

\* A delta.
LEMMA MergedShape ==
  ASSUME Rows!RecallAssumption, LogShape, CacheShape, cache' = Rows!Merged, UNCHANGED <<conv, log>>
  PROVE  CacheShape' /\ cache'.native = cache.native
  <1> DEFINE end == Len(log[conv])
             cursor == end + 1
  <1>1. /\ MaxEvents \in Nat /\ end \in Nat /\ end <= MaxEvents /\ conv \in Rows!Convs
        /\ cursor \in Nat /\ cursor <= MaxEvents + 1
    BY DEF Rows!RecallAssumption, LogShape
  <1>2. \A i \in Rows!Rows : Rows!Now(conv, i) \in 0..2
    <2>1. end \in 0..Len(log[conv]) /\ conv \in Rows!Convs
      BY <1>1
    <2>2. \A i \in Rows!Rows : Rows!At(conv, end, i) \in 0..2
      BY <2>1, AtIs
    <2> QED
      BY <2>2 DEF Rows!Now, Rows!End
  <1> HIDE DEF cursor, end
  <1>3. \E r \in [Rows!Rows -> 0..2] :
            cache' = [cache EXCEPT !.rows = [cache.rows EXCEPT ![conv] = r], !.through = cursor]
    <2> DEFINE mine == cache.rows[conv]
               Touched(i) == \/ i \in {log[conv][k].row : k \in {j \in {k \in 1..end : k >= cache.through} :
                                                                log[conv][j].version = 1}}
                             \/ /\ i \in {log[conv][k].row : k \in {k \in 1..end : k >= cache.through}}
                                /\ mine[i] # 0
               r == [i \in Rows!Rows |-> IF Touched(i) THEN Rows!Now(conv, i) ELSE mine[i]]
    <2>1. mine \in [Rows!Rows -> 0..2]
      BY <1>1 DEF CacheShape, Caches
    <2>2. cache' = [cache EXCEPT !.rows = [cache.rows EXCEPT ![conv] = r], !.through = cursor]
      BY DEF Rows!Merged, Rows!End, cursor, end
    <2> HIDE DEF mine, Touched
    <2>3. r \in [Rows!Rows -> 0..2]
      BY <1>2, <2>1
    <2> HIDE DEF r
    <2> QED
      BY <2>2, <2>3
  <1>4. PICK r \in [Rows!Rows -> 0..2] :
            cache' = [cache EXCEPT !.rows = [cache.rows EXCEPT ![conv] = r], !.through = cursor]
    BY <1>3
  <1> DEFINE laid == [cache.rows EXCEPT ![conv] = r]
  <1>5. laid \in [Rows!Convs -> [Rows!Rows -> 0..2]]
    BY <1>1, LaidIs
  <1>6. cache' = [cache EXCEPT !.rows = laid, !.through = cursor]
    BY <1>4
  <1> HIDE DEF laid
  <1>7. /\ cache' \in Caches /\ cache'.native = cache.native /\ cache'.through = cursor
        /\ cache'.before = cache.before
    <2>1. cursor \in Nat /\ cache \in Caches
      BY <1>1 DEF CacheShape
    <2> QED
      BY <1>5, <1>6, <2>1 DEF Caches
  <1> QED
    BY <1>1, <1>7 DEF CacheShape

\* An older page.
LEMMA PagedShape ==
  ASSUME Rows!RecallAssumption, LogShape, CacheShape, cache' = Rows!Paged, UNCHANGED <<conv, log>>
  PROVE  CacheShape' /\ cache'.native = cache.native
  <1> DEFINE d == Rows!Before(cache.before)
  <1>1. /\ conv \in Rows!Convs /\ Len(log[conv]) \in 0..Len(log[conv]) /\ NRows \in Nat
        /\ cache.before \in 1..NRows + 1
    BY DEF Rows!RecallAssumption, LogShape, CacheShape
  <1>2. \A i \in Rows!Rows : Rows!Now(conv, i) \in 0..2
    BY <1>1, AtIs DEF Rows!Now, Rows!End
  <1>3. d \in 1..NRows + 1
    BY <1>1, NewestIs
  <1>4. \E r \in [Rows!Rows -> 0..2] :
            cache' = [cache EXCEPT !.rows = [cache.rows EXCEPT ![conv] = r], !.before = d]
    <2> DEFINE mine == cache.rows[conv]
               r == [i \in Rows!Rows |-> IF i \in Rows!Newest(cache.before) THEN Rows!Now(conv, i) ELSE mine[i]]
    <2>1. mine \in [Rows!Rows -> 0..2]
      BY <1>1 DEF CacheShape, Caches
    <2>2. cache' = [cache EXCEPT !.rows = [cache.rows EXCEPT ![conv] = r], !.before = d]
      BY DEF Rows!Paged
    <2> HIDE DEF mine
    <2>3. r \in [Rows!Rows -> 0..2]
      BY <1>2, <2>1
    <2> HIDE DEF r
    <2> QED
      BY <2>2, <2>3
  <1> HIDE DEF d
  <1>5. PICK r \in [Rows!Rows -> 0..2] :
            cache' = [cache EXCEPT !.rows = [cache.rows EXCEPT ![conv] = r], !.before = d]
    BY <1>4
  <1> DEFINE laid == [cache.rows EXCEPT ![conv] = r]
  <1>6. laid \in [Rows!Convs -> [Rows!Rows -> 0..2]]
    BY <1>1, LaidIs
  <1>7. cache' = [cache EXCEPT !.rows = laid, !.before = d]
    BY <1>5
  <1> HIDE DEF laid
  <1>8. /\ cache' \in Caches /\ cache'.native = cache.native /\ cache'.through = cache.through
        /\ cache'.before = d
    <2>1. d \in Nat /\ cache \in Caches
      BY <1>1, <1>3 DEF CacheShape
    <2> QED
      BY <1>6, <1>7, <2>1 DEF Caches
  <1> QED
    BY <1>3, <1>8 DEF CacheShape

\* A frame.
LEMMA FrameShape ==
  ASSUME Rows!RecallAssumption, LogShape, CacheShape, NEW c \in Rows!Convs, NEW k \in 1..Len(log[c]),
         cache' = [cache EXCEPT !.rows[c] = Rows!Applied(@, log[c][k]), !.through = k + 1],
         UNCHANGED <<conv, log>>
  PROVE  CacheShape' /\ cache'.native = cache.native
  <1> DEFINE cursor == k + 1
             e == log[c][k]
             mine == cache.rows[c]
             rows == Rows!Applied(mine, e)
             laid == [cache.rows EXCEPT ![c] = rows]
  <1>1. cursor \in Nat /\ cursor <= MaxEvents + 1
    BY DEF LogShape, Rows!RecallAssumption
  <1>2. e \in Events
    BY DEF LogShape
  <1>3. mine \in [Rows!Rows -> 0..2]
    BY DEF CacheShape, Caches
  <1>4. cache' = [cache EXCEPT !.rows = laid, !.through = cursor]
    OBVIOUS
  <1> HIDE DEF e, mine
  <1>5. rows \in [Rows!Rows -> 0..2]
    <2>1. e.row \in Rows!Rows /\ e.version \in 0..2
      BY <1>2 DEF Events
    <2> QED
      BY <1>3, <2>1 DEF Rows!Applied
  <1> HIDE DEF rows
  <1>6. laid \in [Rows!Convs -> [Rows!Rows -> 0..2]]
    <2>1. cache.rows \in [Rows!Convs -> [Rows!Rows -> 0..2]]
      BY DEF CacheShape, Caches
    <2> QED
      BY <1>5, <2>1
  <1> HIDE DEF cursor, laid
  <1>7. /\ cache' \in Caches /\ cache'.native = cache.native /\ cache'.through = cursor
        /\ cache'.before = cache.before
    BY <1>1, <1>4, <1>6 DEF CacheShape, Caches
  <1> QED
    BY <1>1, <1>7 DEF CacheShape

\* A cache that is closed.
LEMMA ClosedShape ==
  ASSUME Rows!RecallAssumption, LogShape, cache' = Rows!Closed, UNCHANGED <<conv, log>>
  PROVE  CacheShape' /\ cache'.through = 0 /\ cache'.native = 0
  <1>1. conv \in Nat /\ MaxEvents \in Nat /\ NRows \in Nat
    BY DEF Rows!RecallAssumption, LogShape, Rows!Convs
  <1>2. Rows!NoRows \in [Rows!Convs -> [Rows!Rows -> 0..2]]
    BY DEF Rows!NoRows
  <1>3. /\ cache' = [native |-> 0, rows |-> Rows!NoRows, through |-> 0, before |-> 1]
        /\ conv' = conv
    BY DEF Rows!Closed
  <1> QED
    BY <1>1, <1>2, <1>3 DEF CacheShape, Caches

-----------------------------------------------------------------------------
(* The followers. *)

States == {"off", "begin", "spawn", "run", "wait", "drop", "exit"}
Loops == [pc : States, stopped : BOOLEAN, live : BOOLEAN, conv : 0..NConvs, at : Nat, resync : BOOLEAN]

\* A follower in its place in the life of a process: the session's own is not stopped.
InPlace(g, loops, f) ==
    /\ g = f => ~loops[f].stopped /\ loops[f].pc # "off"
    /\ loops[f].live => loops[f].pc \in {"run", "wait"}
    /\ loops[f].pc \in {"spawn", "run"} => loops[f].at # 0
    /\ loops[f].pc = "run" => loops[f].conv \in Rows!Convs

Lives(g, loops) ==
    /\ loops \in [Followers -> Loops] /\ g \in Followers \cup {None}
    /\ \A f \in Followers : InPlace(g, loops, f)

LoopShape == Lives(fol, loop)

\* The session's follower streams the conversation that is kept, from no later than the cursor, and
\* after the oldest row that is kept began.
Follows(f) ==
    /\ loop[f].pc \in {"spawn", "run"} =>
        /\ loop[f].at <= cache.through
        /\ cache.before # 1 => Began(conv, loop[f].at, cache.before)
    /\ loop[f].pc = "run" => loop[f].conv = conv

Sync == cache.native = conv => Kept /\ \A f \in Followers : fol = f => Follows(f)

RowInv ==
    /\ LogShape /\ (\A c \in Rows!Convs : Proper(c)) /\ CacheShape /\ LoopShape /\ Sync
    /\ faults \in 0..MaxFaults

\* A follower that is put in its place leaves the others in theirs.
LEMMA PutIs ==
  ASSUME None \notin Followers, LoopShape, NEW f \in Followers, NEW p \in Loops, NEW g \in {fol, None},
         g = f => ~p.stopped /\ p.pc # "off", p.live => p.pc \in {"run", "wait"},
         p.pc \in {"spawn", "run"} => p.at # 0, p.pc = "run" => p.conv \in Rows!Convs
  PROVE  Lives(g, [loop EXCEPT ![f] = p])
  <1> DEFINE loops == [loop EXCEPT ![f] = p]
  <1>1. loops \in [Followers -> Loops] /\ loops[f] = p /\ \A h \in Followers : h # f => loops[h] = loop[h]
    BY DEF LoopShape, Lives
  <1> HIDE DEF loops
  <1>2. ASSUME NEW h \in Followers PROVE InPlace(g, loops, h)
    <2>1. CASE h = f
      BY <1>1, <2>1 DEF InPlace
    <2>2. CASE h # f
      <3>1. InPlace(fol, loop, h) /\ loops[h] = loop[h] /\ (g = h => fol = h)
        BY <1>1, <2>2 DEF LoopShape, Lives
      <3> QED
        BY <3>1 DEF InPlace
    <2> QED
      BY <2>1, <2>2
  <1>3. g \in Followers \cup {None}
    BY DEF LoopShape, Lives
  <1>4. Lives(g, loops)
    BY <1>1, <1>2, <1>3 DEF Lives
  <1> QED
    BY <1>4 DEF loops

\* A session whose follower was stopped has none.
LEMMA StoppedIs ==
  ASSUME None \notin Followers, LoopShape PROVE Lives(None, Rows!Stopped)
  <1>1. CASE fol = None
    BY <1>1 DEF Rows!Stopped, LoopShape
  <1>2. CASE fol # None
    <2> DEFINE p == [loop[fol] EXCEPT !.stopped = TRUE]
    <2>1. fol \in Followers /\ loop[fol] \in Loops /\ InPlace(fol, loop, fol)
      BY <1>2 DEF LoopShape, Lives
    <2>2. p \in Loops /\ p.pc = loop[fol].pc /\ p.live = loop[fol].live /\ p.conv = loop[fol].conv
          /\ p.at = loop[fol].at
      BY <2>1 DEF Loops
    <2>3. Rows!Stopped = [loop EXCEPT ![fol] = p]
      BY <1>2, <2>1 DEF Rows!Stopped, LoopShape, Lives
    <2> HIDE DEF p
    <2> DEFINE loops == [loop EXCEPT ![fol] = p]
    <2>4. loops \in [Followers -> Loops] /\ loops[fol] = p /\ \A h \in Followers : h # fol => loops[h] = loop[h]
      BY <2>1, <2>2 DEF LoopShape, Lives
    <2> HIDE DEF loops
    <2>5. ASSUME NEW h \in Followers PROVE InPlace(None, loops, h)
      <3>1. InPlace(fol, loop, h) /\ None # h
        BY DEF LoopShape, Lives
      <3>2. CASE h = fol
        BY <2>1, <2>2, <2>4, <3>1, <3>2 DEF InPlace
      <3>3. CASE h # fol
        BY <2>4, <3>1, <3>3 DEF InPlace
      <3> QED
        BY <3>2, <3>3
    <2>6. Lives(None, loops)
      BY <2>4, <2>5 DEF Lives
    <2> QED
      BY <2>3, <2>6 DEF loops
  <1> QED
    BY <1>1, <1>2

\* A request leaves the follower as it is or makes one that begins.
LEMMA EnsureIs ==
  ASSUME None \notin Followers, NConvs \in Nat, NEW g, NEW loops, Lives(g, loops), Rows!EnsureFollow(g, loops)
  PROVE  /\ LoopShape'
         /\ \A f \in Followers : fol' = f => (g = f /\ loop'[f] = loops[f]) \/ loop'[f].pc = "begin"
  <1>1. CASE fol' = g /\ loop' = loops
    BY <1>1 DEF LoopShape, Lives, InPlace
  <1>2. ASSUME g = None, NEW f \in Followers, fol' = f,
               loop' = [loops EXCEPT ![f] = [Rows!Off EXCEPT !.pc = "begin"]]
        PROVE  LoopShape' /\ loop'[f].pc = "begin"
    <2> DEFINE p == [Rows!Off EXCEPT !.pc = "begin"]
    <2>1. Rows!Off \in Loops /\ ~Rows!Off.stopped /\ ~Rows!Off.live
      <3>1. "off" \in States /\ 0 \in 0..NConvs
        BY DEF States
      <3> QED
        BY <3>1 DEF Rows!Off, Loops
    <2>2. /\ p \in Loops /\ p.pc = "begin" /\ ~p.stopped /\ ~p.live
      <3>1. "begin" \in States
        BY DEF States
      <3> QED
        BY <2>1, <3>1 DEF Loops
    <2> HIDE DEF p
    <2>3. loop' = [loops EXCEPT ![f] = p]
      BY <1>2 DEF p
    <2>4. /\ loop' \in [Followers -> Loops] /\ loop'[f] = p
          /\ \A h \in Followers : h # f => loop'[h] = loops[h]
      BY <2>2, <2>3 DEF Lives
    <2>5. ASSUME NEW h \in Followers PROVE InPlace(f, loop', h)
      <3>1. CASE h = f
        BY <2>2, <2>4, <3>1 DEF InPlace
      <3>2. CASE h # f
        <4>1. InPlace(None, loops, h) /\ loop'[h] = loops[h]
          BY <1>2, <2>4, <3>2 DEF Lives
        <4> QED
          BY <3>2, <4>1 DEF InPlace
      <3> QED
        BY <3>1, <3>2
    <2>6. Lives(f, loop')
      BY <2>4, <2>5 DEF Lives
    <2>7. LoopShape'
      BY <1>2, <2>6 DEF LoopShape, Lives, InPlace
    <2> QED
      BY <2>2, <2>4, <2>7
  <1>3. \/ fol' = g /\ loop' = loops
        \/ /\ g = None
           /\ \E f \in Followers : /\ fol' = f
                                   /\ loop' = [loops EXCEPT ![f] = [Rows!Off EXCEPT !.pc = "begin"]]
    BY DEF Rows!EnsureFollow
  <1> QED
    BY <1>1, <1>2, <1>3

\* A follower that goes on without a process.
LEMMA GoesIs ==
  ASSUME None \notin Followers, NConvs \in Nat, LoopShape, NEW f \in Followers,
         NEW pc \in States \ {"off", "spawn", "run"},
         loop[f].live => pc = "wait", loop[f].pc # "off", loop' = Rows!Goes(f, pc), UNCHANGED fol
  PROVE  LoopShape' /\ loop'[f].pc = pc /\ \A h \in Followers : h # f => loop'[h] = loop[h]
  <1> DEFINE p == [loop[f] EXCEPT !.pc = pc, !.conv = 0, !.at = 0]
  <1>1. loop[f] \in Loops /\ InPlace(fol, loop, f)
    BY DEF LoopShape, Lives
  <1>2. loop' = [loop EXCEPT ![f] = p]
    BY DEF Rows!Goes
  <1>3. p \in Loops /\ p.pc = pc /\ p.live = loop[f].live /\ p.stopped = loop[f].stopped
    <2>1. PICK z \in 0..NConvs : z = 0
      OBVIOUS
    <2>2. p = [loop[f] EXCEPT !.pc = pc, !.conv = z, !.at = z] /\ z \in Nat
      BY <2>1
    <2> HIDE DEF p
    <2> QED
      BY <1>1, <2>2 DEF Loops
  <1> HIDE DEF p
  <1>4. Lives(fol, [loop EXCEPT ![f] = p])
    <2>1. fol = f => ~p.stopped /\ p.pc # "off"
      BY <1>1, <1>3 DEF InPlace
    <2>2. p.live => p.pc \in {"run", "wait"}
      BY <1>3
    <2>3. p.pc \notin {"spawn", "run"} /\ fol \in {fol, None}
      BY <1>3
    <2> QED
      BY <1>3, <2>1, <2>2, <2>3, PutIs
  <1>5. LoopShape'
    BY <1>2, <1>4 DEF LoopShape, Lives, InPlace
  <1> QED
    BY <1>2, <1>3, <1>5 DEF LoopShape, Lives

\* Who streams on streams the same, and who begins to stream streams the session's conversation.
LEMMA StillFollows ==
  ASSUME Sync, UNCHANGED <<conv, log, cache>>,
         \A f \in Followers : fol' = f /\ loop'[f].pc \in {"spawn", "run"} =>
            /\ fol = f /\ loop[f].pc \in {"spawn", "run"} /\ loop'[f].at = loop[f].at
            /\ loop'[f].pc = "run" => \/ loop'[f].conv = conv
                                      \/ loop[f].pc = "run" /\ loop'[f].conv = loop[f].conv
  PROVE  Sync'
  <1> SUFFICES ASSUME cache.native = conv PROVE Kept' /\ \A f \in Followers : fol' = f => Follows(f)'
    BY DEF Sync
  <1>0. conv' = conv /\ log' = log /\ cache' = cache
    OBVIOUS
  <1>1. Kept'
    <2>1. \A n, i : Rows!At(conv, n, i)' = Rows!At(conv, n, i)
      BY <1>0 DEF Rows!At
    <2>2. Began(conv, cache.through, cache.before) => Began(conv, cache.through, cache.before)'
      BY <1>0 DEF Began
    <2>3. \A c : Rows!NoRows[c]' = Rows!NoRows[c]
      BY DEF Rows!NoRows
    <2>4. Kept
      BY DEF Sync
    <2> QED
      BY <1>0, <2>1, <2>2, <2>3, <2>4 DEF Kept
  <1>2. ASSUME NEW f \in Followers, fol' = f PROVE Follows(f)'
    <2> SUFFICES ASSUME loop'[f].pc \in {"spawn", "run"} PROVE Follows(f)'
      BY DEF Follows
    <2>1. /\ fol = f /\ loop[f].pc \in {"spawn", "run"} /\ loop'[f].at = loop[f].at
          /\ loop'[f].pc = "run" => \/ loop'[f].conv = conv
                                    \/ loop[f].pc = "run" /\ loop'[f].conv = loop[f].conv
      BY <1>2
    <2>2. /\ loop[f].at <= cache.through
          /\ (cache.before # 1 => Began(conv, loop[f].at, cache.before))
          /\ (loop[f].pc = "run" => loop[f].conv = conv)
      BY <2>1 DEF Sync, Follows
    <2>3. Began(conv, loop[f].at, cache.before) => Began(conv, loop[f].at, cache.before)'
      BY <1>0, <2>1 DEF Began
    <2> QED
      BY <1>0, <2>1, <2>2, <2>3 DEF Follows
  <1> QED
    BY <1>1, <1>2

-----------------------------------------------------------------------------
(* The steps. *)

\* At the start nothing was said and nothing is kept.
LEMMA RowsStart == ASSUME Rows!RecallAssumption, Rows!Init PROVE RowInv
  <1>1. /\ NRows \in Nat /\ NConvs \in Nat \ {0} /\ MaxEvents \in Nat /\ MaxFaults \in Nat
        /\ None \notin Followers
    BY DEF Rows!RecallAssumption
  <1>2. /\ conv = 1 /\ log = [c \in Rows!Convs |-> << >>] /\ fol = None /\ loop = [f \in Followers |-> Rows!Off]
        /\ cache = [native |-> 0, rows |-> Rows!NoRows, through |-> 0, before |-> 1] /\ faults = 0
    BY DEF Rows!Init, Rows!Closed
  <1>3. LogShape /\ \A c \in Rows!Convs : Proper(c)
    <2>1. << >> \in Seq(Events) /\ Len(<< >>) = 0 /\ 1 \in Rows!Convs
      BY <1>1 DEF Rows!Convs
    <2>2. \A c \in Rows!Convs : log[c] = << >>
      BY <1>2
    <2>3. log \in [Rows!Convs -> Seq(Events)]
      BY <1>2, <2>1
    <2>4. \A c \in Rows!Convs : Len(log[c]) = 0
      BY <2>1, <2>2
    <2>5. \A c \in Rows!Convs : Proper(c)
      BY <2>4 DEF Proper
    <2> QED
      BY <1>1, <1>2, <2>1, <2>3, <2>4, <2>5 DEF LogShape
  <1>4. CacheShape /\ cache.native # conv
    <2>1. Rows!NoRows \in [Rows!Convs -> [Rows!Rows -> 0..2]]
      BY DEF Rows!NoRows
    <2> QED
      BY <1>1, <1>2, <2>1 DEF CacheShape, Caches
  <1>5. LoopShape
    <2>1. Rows!Off \in Loops /\ Rows!Off.pc = "off" /\ ~Rows!Off.live
      <3>1. "off" \in States /\ 0 \in 0..NConvs
        BY <1>1 DEF States
      <3> QED
        BY <3>1 DEF Rows!Off, Loops
    <2>2. loop \in [Followers -> Loops] /\ \A f \in Followers : loop[f] = Rows!Off
      BY <1>2, <2>1
    <2>3. ASSUME NEW f \in Followers PROVE InPlace(fol, loop, f)
      BY <1>1, <1>2, <2>1, <2>2 DEF InPlace
    <2> QED
      BY <1>2, <2>2, <2>3 DEF LoopShape, Lives
  <1>6. Sync
    BY <1>4 DEF Sync
  <1>7. faults \in 0..MaxFaults
    BY <1>1, <1>2
  <1> QED
    BY <1>3, <1>4, <1>5, <1>6, <1>7 DEF RowInv

\* What happens in the session.
LEMMA HappensStep ==
  ASSUME Rows!RecallAssumption, RowInv, NEW i \in Rows!Rows, NEW v \in 0..2, Rows!Happens(i, v) PROVE RowInv'
  <1>1. conv' = conv /\ cache' = cache /\ fol' = fol /\ loop' = loop /\ faults' = faults
    BY DEF Rows!Happens
  <1>2. /\ LogShape' /\ (\A c \in Rows!Convs : Proper(c)')
        /\ \A c \in Rows!Convs : /\ Len(log[c]) <= Len(log'[c])
                                 /\ \A k \in 1..Len(log[c]) : log'[c][k] = log[c][k]
    BY HappensIs DEF RowInv
  <1>3. CacheShape' /\ LoopShape' /\ faults' \in 0..MaxFaults
    BY <1>1 DEF RowInv, CacheShape, LoopShape, Lives, InPlace
  <1>4. Sync'
    <2> SUFFICES ASSUME cache.native = conv PROVE Kept' /\ \A f \in Followers : fol = f => Follows(f)'
      BY <1>1 DEF Sync
    <2>1. Kept /\ \A f \in Followers : fol = f => Follows(f)
      BY DEF RowInv, Sync
    <2>2. PICK c \in Rows!Convs : c = conv
      BY DEF RowInv, LogShape
    <2>3. /\ cache.through \in Nat /\ Len(log[c]) \in Nat /\ Len(log'[c]) \in Nat /\ Len(log[c]) <= Len(log'[c])
          /\ \A k \in 1..Len(log[c]) : log'[c][k] = log[c][k]
      BY <1>2 DEF RowInv, CacheShape, Caches, LogShape
    <2>4. /\ \A n \in 0..Len(log[c]), j \in Rows!Rows : Rows!At(c, n, j)' = Rows!At(c, n, j)
          /\ \A t \in Nat, j \in Rows!Rows : Began(c, t, j) => Began(c, t, j)'
      <3>1. LogShape
        BY DEF RowInv
      <3> QED
        BY <1>2, <2>3, <3>1, LongerIs
    <2>5. ASSUME NEW j \in Rows!Rows, j >= cache.before
          PROVE  \E n \in cache.through - 1..Len(log'[c]) : cache.rows[c][j] = Rows!At(c, n, j)'
      <3>1. PICK n \in cache.through - 1..Len(log[c]) : cache.rows[c][j] = Rows!At(c, n, j)
        BY <2>1, <2>2, <2>5 DEF Kept
      <3>2. cache.through # 0
        BY <2>1 DEF Kept
      <3>3. n \in cache.through - 1..Len(log'[c]) /\ n \in 0..Len(log[c])
        BY <2>3, <3>1, <3>2
      <3> QED
        BY <2>4, <3>1, <3>3
    <2>6. ASSUME NEW t \in Nat, NEW j \in Rows!Rows, Began(conv, t, j) PROVE Began(conv, t, j)'
      <3>1. Began(c, t, j)
        BY <2>2, <2>6
      <3>2. Began(c, t, j)'
        BY <2>4, <3>1
      <3> QED
        BY <1>1, <2>2, <3>2 DEF Began
    <2>7. Kept'
      <3>1. cache.through # 0 /\ cache.through <= Len(log'[c]) + 1
        BY <2>1, <2>2, <2>3 DEF Kept
      <3>2. cache.before # 1 => cache.before \in Rows!Rows /\ Began(conv, cache.through, cache.before)'
        <4>1. cache.before # 1 => cache.before \in Rows!Rows /\ Began(conv, cache.through, cache.before)
          BY <2>1 DEF Kept
        <4>2. ASSUME cache.before # 1 PROVE Began(conv, cache.through, cache.before)'
          <5>1. PICK t \in Nat, j \in Rows!Rows : t = cache.through /\ j = cache.before
            BY <2>3, <4>1, <4>2
          <5>2. Began(conv, t, j)'
            BY <2>6, <4>1, <4>2, <5>1
          <5> QED
            BY <1>1, <5>1, <5>2 DEF Began
        <4> QED
          BY <4>1, <4>2
      <3>4. \A d \in Rows!Convs \ {conv} : cache.rows[d] = Rows!NoRows[d]'
        BY <2>1 DEF Kept, Rows!NoRows
      <3>5. \A n, j : Rows!At(c, n, j)' = Rows!At(conv, n, j)'
        BY <1>1, <2>2 DEF Rows!At
      <3>6. \A j \in Rows!Rows : j < cache.before => cache.rows[conv][j] = 0
        BY <2>1 DEF Kept
      <3>7. conv' = c /\ cache' = cache
        BY <1>1, <2>2
      <3>8. \A j \in Rows!Rows : j >= cache.before =>
              \E n \in cache.through - 1..Len(log'[c]) : cache.rows[c][j] = Rows!At(conv, n, j)'
        BY <2>5, <3>5
      <3> QED
        BY <2>2, <3>1, <3>2, <3>4, <3>6, <3>7, <3>8 DEF Kept
    <2>8. ASSUME NEW f \in Followers, fol = f PROVE Follows(f)'
      <3>1. loop[f].at \in Nat
        <4>1. loop[f] \in Loops
          BY DEF RowInv, LoopShape, Lives
        <4> QED
          BY <4>1 DEF Loops
      <3>2. Follows(f)
        BY <2>1, <2>8
      <3>3. cache.before # 1 => cache.before \in Rows!Rows
        BY <2>1 DEF Kept
      <3>4. cache.before # 1 /\ Began(conv, loop[f].at, cache.before) => Began(conv, loop[f].at, cache.before)'
        BY <2>6, <3>1, <3>3, <1>1 DEF Began
      <3> QED
        BY <1>1, <3>2, <3>4 DEF Follows
    <2> QED
      BY <2>7, <2>8
  <1> QED
    BY <1>2, <1>3, <1>4 DEF RowInv

\* While nothing happens the log is as it was.
LEMMA SameLog ==
  ASSUME RowInv, conv' = conv, log' = log PROVE LogShape' /\ (\A c \in Rows!Convs : Proper(c)')
  <1>1. LogShape'
    BY DEF RowInv, LogShape
  <1>2. ASSUME NEW c \in Rows!Convs PROVE Proper(c)'
    <2>1. Proper(c)
      BY DEF RowInv
    <2> QED
      BY <2>1 DEF Proper
  <1> QED
    BY <1>1, <1>2

\* A session is asked for its rows, which are read anew.
LEMMA OpensStep ==
  ASSUME Rows!RecallAssumption, RowInv, NEW due, Rows!AskOpens(due) PROVE RowInv'
  <1>1. /\ cache' = Rows!Opened /\ Rows!EnsureFollow(None, Rows!Stopped)
        /\ conv' = conv /\ log' = log /\ faults' = faults
    BY DEF Rows!AskOpens, Rows!source
  <1>2. None \notin Followers /\ NConvs \in Nat
    BY DEF Rows!RecallAssumption
  <1>3. LogShape /\ Proper(conv)
    BY DEF RowInv, LogShape
  <1>4. CacheShape' /\ Kept' /\ cache'.native = conv
    BY <1>1, <1>3, OpenedIs
  <1>5. Lives(None, Rows!Stopped)
    BY <1>2, StoppedIs DEF RowInv
  <1> DEFINE loops == Rows!Stopped
  <1> HIDE DEF loops
  <1>6. Lives(None, loops) /\ Rows!EnsureFollow(None, loops)
    BY <1>1, <1>5 DEF loops
  <1>7. LoopShape' /\ \A f \in Followers : fol' = f => loop'[f].pc = "begin"
    BY <1>2, <1>6, EnsureIs
  <1>8. Sync'
    BY <1>4, <1>7 DEF Sync, Follows
  <1>9. LogShape' /\ (\A c \in Rows!Convs : Proper(c)')
    BY <1>1, SameLog
  <1>10. faults' \in 0..MaxFaults
    BY <1>1 DEF RowInv
  <1> QED
    BY <1>4, <1>7, <1>8, <1>9, <1>10 DEF RowInv

\* A request that leaves the follower, and what it follows.
LEMMA AskedIs ==
  ASSUME Rows!RecallAssumption, RowInv, Rows!EnsureFollow(fol, loop), UNCHANGED <<conv, log, faults>>,
         CacheShape', cache'.native = cache.native,
         cache.native = conv /\ Kept => /\ Kept' /\ cache'.through >= cache.through
                                        /\ cache'.before # 1 =>
                                            \/ cache'.before = cache.before
                                            \/ /\ cache.before # 1
                                               /\ \A t \in Nat : Began(conv, t, cache.before)
                                                                 => Began(conv, t, cache'.before)
  PROVE  RowInv'
  <1>0. conv' = conv /\ log' = log /\ faults' = faults
    OBVIOUS
  <1>1. None \notin Followers /\ NConvs \in Nat /\ LoopShape
    BY DEF Rows!RecallAssumption, RowInv
  <1>2. /\ LoopShape'
        /\ \A f \in Followers : fol' = f => (fol = f /\ loop'[f] = loop[f]) \/ loop'[f].pc = "begin"
    BY <1>1, EnsureIs DEF LoopShape
  <1>3. Sync'
    <2> SUFFICES ASSUME cache.native = conv PROVE Kept' /\ \A f \in Followers : fol' = f => Follows(f)'
      BY <1>0 DEF Sync
    <2>1. Kept /\ \A f \in Followers : fol = f => Follows(f)
      BY DEF RowInv, Sync
    <2>2. /\ Kept' /\ cache'.through >= cache.through
          /\ cache'.before # 1 =>
                \/ cache'.before = cache.before
                \/ /\ cache.before # 1
                   /\ \A t \in Nat : Began(conv, t, cache.before) => Began(conv, t, cache'.before)
      BY <2>1
    <2>3. ASSUME NEW f \in Followers, fol' = f PROVE Follows(f)'
      <3> SUFFICES ASSUME loop'[f].pc \in {"spawn", "run"} PROVE Follows(f)'
        BY DEF Follows
      <3>1. fol = f /\ loop'[f] = loop[f] /\ loop[f] \in Loops
        BY <1>1, <1>2, <2>3 DEF LoopShape, Lives
      <3>2. /\ loop[f].at <= cache.through
            /\ cache.before # 1 => Began(conv, loop[f].at, cache.before)
            /\ loop[f].pc = "run" => loop[f].conv = conv
        BY <2>1, <3>1 DEF Follows
      <3>3. loop[f].at \in Nat /\ cache.through \in Nat /\ cache'.through \in Nat
        BY <3>1 DEF Loops, RowInv, CacheShape, Caches
      <3>4. loop[f].at <= cache'.through
        BY <2>2, <3>2, <3>3
      <3>5. cache'.before # 1 => Began(conv, loop[f].at, cache'.before)
        BY <2>2, <3>2, <3>3
      <3>6. Began(conv, loop[f].at, cache'.before) => Began(conv, loop[f].at, cache.before)'
        BY <1>0, <3>1 DEF Began
      <3> QED
        BY <1>0, <3>1, <3>2, <3>4, <3>5, <3>6 DEF Follows
    <2> QED
      BY <2>2, <2>3
  <1>4. LogShape' /\ (\A c \in Rows!Convs : Proper(c)')
    BY <1>0, SameLog
  <1> QED
    BY <1>0, <1>2, <1>3, <1>4 DEF RowInv

\* A delta is polled.
LEMMA PollsStep ==
  ASSUME Rows!RecallAssumption, RowInv, NEW due, Rows!AskPolls(due) PROVE RowInv'
  <1>1. cache' = Rows!Merged /\ Rows!EnsureFollow(fol, loop) /\ UNCHANGED <<conv, log, faults>>
    BY DEF Rows!AskPolls, Rows!source
  <1>2. LogShape /\ Proper(conv) /\ CacheShape
    BY DEF RowInv, LogShape
  <1>3. CacheShape' /\ cache'.native = cache.native
    BY <1>1, <1>2, MergedShape
  <1>4. ASSUME cache.native = conv, Kept
        PROVE  Kept' /\ cache'.through >= cache.through /\ cache'.before = cache.before
    BY <1>1, <1>2, <1>4, MergedIs
  <1> QED
    BY <1>1, <1>3, <1>4, AskedIs

\* Rows that come by stream are left alone, or an older page is read.
LEMMA RestsStep ==
  ASSUME Rows!RecallAssumption, RowInv, NEW page, Rows!AskRests(page) PROVE RowInv'
  <1>1. /\ (cache.before # 1 /\ cache' = Rows!Paged) \/ cache' = cache
        /\ Rows!EnsureFollow(fol, loop) /\ UNCHANGED <<conv, log, faults>>
    BY DEF Rows!AskRests, Rows!source
  <1>2. LogShape /\ Proper(conv) /\ CacheShape /\ cache.through \in Nat
    BY DEF RowInv, LogShape, CacheShape, Caches
  <1>3. CASE cache.before # 1 /\ cache' = Rows!Paged
    <2>1. CacheShape' /\ cache'.native = cache.native
      BY <1>1, <1>2, <1>3, PagedShape
    <2>2. ASSUME cache.native = conv, Kept
          PROVE  /\ Kept' /\ cache'.through = cache.through
                 /\ cache'.before # 1 =>
                      \A t \in Nat : Began(conv, t, cache.before) => Began(conv, t, cache'.before)
      BY <1>1, <1>2, <1>3, <2>2, PagedIs
    <2> QED
      BY <1>1, <1>2, <1>3, <2>1, <2>2, AskedIs
  <1>4. CASE cache' = cache
    <2>0. conv' = conv /\ log' = log
      BY <1>1
    <2>1. CacheShape'
      BY <2>0, <1>2, <1>4 DEF CacheShape
    <2>2. ASSUME Kept PROVE Kept'
      <3>1. \A n, i : Rows!At(conv, n, i)' = Rows!At(conv, n, i)
        BY <2>0 DEF Rows!At
      <3>2. Began(conv, cache.through, cache.before) => Began(conv, cache.through, cache.before)'
        BY <2>0, <1>4 DEF Began
      <3>3. \A c : Rows!NoRows[c]' = Rows!NoRows[c]
        BY DEF Rows!NoRows
      <3> QED
        BY <2>0, <1>4, <2>2, <3>1, <3>2, <3>3 DEF Kept
    <2> QED
      BY <1>1, <1>2, <1>4, <2>1, <2>2, AskedIs
  <1> QED
    BY <1>1, <1>3, <1>4

\* A read fails: the cache is closed and the follower stopped.
LEMMA FailsStep == ASSUME Rows!RecallAssumption, RowInv, Rows!AskFails PROVE RowInv'
  <1>1. /\ cache' = Rows!Closed /\ fol' = None /\ loop' = Rows!Stopped
        /\ faults < MaxFaults /\ faults' = faults + 1 /\ conv' = conv /\ log' = log
    BY DEF Rows!AskFails, Rows!Fault, Rows!source
  <1>2. LogShape /\ LoopShape
    BY DEF RowInv
  <1>3. CacheShape' /\ cache'.native = 0 /\ conv # 0
    BY <1>1, <1>2, ClosedShape DEF LogShape, Rows!Convs
  <1>4. Lives(None, Rows!Stopped)
    BY <1>2, StoppedIs DEF Rows!RecallAssumption
  <1>5. LoopShape'
    BY <1>1, <1>4 DEF LoopShape, Lives, InPlace
  <1>6. faults' \in 0..MaxFaults
    BY <1>1 DEF RowInv, Rows!RecallAssumption
  <1>7. LogShape' /\ (\A c \in Rows!Convs : Proper(c)')
    BY <1>1, SameLog
  <1>8. Sync'
    BY <1>1, <1>3 DEF Sync
  <1> QED
    BY <1>3, <1>5, <1>6, <1>7, <1>8 DEF RowInv

\* A step of a follower's life that takes no row leaves what is kept.
LEMMA LifeStep ==
  ASSUME Rows!RecallAssumption, RowInv, UNCHANGED <<conv, log, cache>>, LoopShape', faults' \in 0..MaxFaults,
         \A f \in Followers : fol' = f /\ loop'[f].pc \in {"spawn", "run"} =>
            /\ fol = f /\ loop[f].pc \in {"spawn", "run"} /\ loop'[f].at = loop[f].at
            /\ loop'[f].pc = "run" => \/ loop'[f].conv = conv
                                      \/ loop[f].pc = "run" /\ loop'[f].conv = loop[f].conv
  PROVE  RowInv'
  <1>1. Sync
    BY DEF RowInv
  <1>2. Sync'
    BY <1>1, StillFollows
  <1>3. conv' = conv /\ log' = log /\ cache' = cache
    OBVIOUS
  <1>4. LogShape' /\ (\A c \in Rows!Convs : Proper(c)') /\ CacheShape'
    BY <1>3, SameLog DEF RowInv, CacheShape
  <1> QED
    BY <1>2, <1>4 DEF RowInv

\* A follower without a process.
LEMMA GoesStep ==
  ASSUME Rows!RecallAssumption, RowInv, NEW f \in Followers, NEW pc \in States \ {"off", "spawn", "run"},
         loop[f].live => pc = "wait", loop[f].pc # "off", loop' = Rows!Goes(f, pc), UNCHANGED fol,
         UNCHANGED <<conv, log, cache>>, faults' \in 0..MaxFaults
  PROVE  RowInv'
  <1>1. LoopShape /\ None \notin Followers /\ NConvs \in Nat
    BY DEF RowInv, Rows!RecallAssumption
  <1>2. LoopShape' /\ loop'[f].pc = pc /\ \A h \in Followers : h # f => loop'[h] = loop[h]
    BY <1>1, GoesIs
  <1>3. \A h \in Followers : fol' = h /\ loop'[h].pc \in {"spawn", "run"} =>
            /\ fol = h /\ loop[h].pc \in {"spawn", "run"} /\ loop'[h].at = loop[h].at
            /\ loop'[h].pc = "run" => \/ loop'[h].conv = conv
                                      \/ loop[h].pc = "run" /\ loop'[h].conv = loop[h].conv
    BY <1>2
  <1> QED
    BY <1>2, <1>3, LifeStep

\* A follower that is put in its place, and streams nothing that it did not stream.
LEMMA PutStep ==
  ASSUME Rows!RecallAssumption, RowInv, NEW f \in Followers, NEW p \in Loops,
         loop' = [loop EXCEPT ![f] = p], fol' \in {fol, None},
         fol' = f => ~p.stopped /\ p.pc # "off", p.live => p.pc \in {"run", "wait"},
         p.pc \in {"spawn", "run"} => loop[f].pc \in {"spawn", "run"} /\ p.at = loop[f].at,
         p.pc = "run" => p.conv = conv \/ (loop[f].pc = "run" /\ p.conv = loop[f].conv),
         UNCHANGED <<conv, log, cache>>, faults' \in 0..MaxFaults
  PROVE  RowInv'
  <1>1. LoopShape /\ None \notin Followers
    BY DEF RowInv, Rows!RecallAssumption
  <1>2. (p.pc \in {"spawn", "run"} => p.at # 0) /\ (p.pc = "run" => p.conv \in Rows!Convs)
    <2>1. InPlace(fol, loop, f) /\ conv \in Rows!Convs
      BY <1>1 DEF LoopShape, Lives, RowInv, LogShape
    <2> QED
      BY <2>1 DEF InPlace
  <1>3. PICK g \in {fol, None} : g = fol'
    OBVIOUS
  <1>4. Lives(g, [loop EXCEPT ![f] = p])
    BY <1>1, <1>2, <1>3, PutIs
  <1>5. LoopShape'
    BY <1>3, <1>4 DEF LoopShape, Lives, InPlace
  <1>6. loop'[f] = p /\ \A h \in Followers : h # f => loop'[h] = loop[h]
    BY <1>1 DEF LoopShape, Lives
  <1>7. \A h \in Followers : fol' = h => fol = h
    BY <1>1
  <1>8. \A h \in Followers : fol' = h /\ loop'[h].pc \in {"spawn", "run"} =>
            /\ fol = h /\ loop[h].pc \in {"spawn", "run"} /\ loop'[h].at = loop[h].at
            /\ loop'[h].pc = "run" => \/ loop'[h].conv = conv
                                      \/ loop[h].pc = "run" /\ loop'[h].conv = loop[h].conv
    BY <1>6, <1>7
  <1> QED
    BY <1>5, <1>8, LifeStep

\* A follower begins at the cursor of the cache.
LEMMA BeginStep == ASSUME Rows!RecallAssumption, RowInv, NEW f \in Followers, Rows!Begin(f) PROVE RowInv'
  <1>1. loop[f].pc = "begin" /\ conv' = conv /\ log' = log /\ cache' = cache /\ fol' = fol /\ faults' = faults
    BY DEF Rows!Begin, Rows!source
  <1>2. faults' \in 0..MaxFaults /\ LoopShape /\ None \notin Followers /\ loop[f] \in Loops /\ InPlace(fol, loop, f)
    BY <1>1 DEF RowInv, LoopShape, Lives, Rows!RecallAssumption
  <1>3. ~loop[f].live
    BY <1>1, <1>2 DEF InPlace
  <1>4. CASE loop' = Rows!Goes(f, "exit")
    BY <1>1, <1>2, <1>3, <1>4, GoesStep DEF States
  <1>5. CASE /\ ~loop[f].stopped /\ cache.through # 0
             /\ loop' = [loop EXCEPT ![f].pc = "spawn", ![f].at = cache.through]
    <2> DEFINE p == [loop[f] EXCEPT !.pc = "spawn", !.at = cache.through]
    <2>1. cache.through \in Nat \ {0} /\ "spawn" \in States
      BY <1>5 DEF RowInv, CacheShape, Caches, States
    <2>2. loop' = [loop EXCEPT ![f] = p]
      <3>1. loop \in [Followers -> Loops]
        BY <1>2 DEF LoopShape, Lives
      <3> QED
        BY <1>5, <3>1
    <2>3. p \in Loops /\ p.pc = "spawn" /\ p.at = cache.through /\ p.live = loop[f].live
          /\ p.stopped = loop[f].stopped
      BY <1>2, <2>1 DEF Loops
    <2> HIDE DEF p
    <2>4. Lives(fol, [loop EXCEPT ![f] = p])
      <3>1. fol \in {fol, None} /\ (fol = f => ~p.stopped /\ p.pc # "off") /\ (p.live => p.pc \in {"run", "wait"})
            /\ (p.pc \in {"spawn", "run"} => p.at # 0) /\ p.pc # "run"
        BY <1>3, <1>5, <2>1, <2>3
      <3> QED
        BY <1>2, <2>3, <3>1, PutIs
    <2>5. LoopShape'
      BY <1>1, <2>2, <2>4 DEF LoopShape, Lives, InPlace
    <2>6. loop'[f] = p /\ \A h \in Followers : h # f => loop'[h] = loop[h]
      BY <1>2, <2>2 DEF LoopShape, Lives
    <2>7. Sync'
      <3> SUFFICES ASSUME cache.native = conv PROVE Kept' /\ \A h \in Followers : fol' = h => Follows(h)'
        BY <1>1 DEF Sync
      <3>1. Kept /\ \A h \in Followers : fol = h => Follows(h)
        BY DEF RowInv, Sync
      <3>2. Kept'
        <4>1. \A n, i : Rows!At(conv, n, i)' = Rows!At(conv, n, i)
          BY <1>1 DEF Rows!At
        <4>2. Began(conv, cache.through, cache.before) => Began(conv, cache.through, cache.before)'
          BY <1>1 DEF Began
        <4>3. \A c : Rows!NoRows[c]' = Rows!NoRows[c]
          BY DEF Rows!NoRows
        <4> QED
          BY <1>1, <3>1, <4>1, <4>2, <4>3 DEF Kept
      <3>3. Follows(f)'
        <4>1. cache.before # 1 => Began(conv, cache.through, cache.before)
          BY <3>1 DEF Kept
        <4>2. loop'[f].pc = "spawn" /\ loop'[f].at = cache.through
          BY <2>3, <2>6
        <4>3. Began(conv, cache.through, cache.before) => Began(conv, loop[f].at, cache.before)'
          BY <1>1, <4>2 DEF Began
        <4>4. cache.through <= cache.through
          BY <2>1
        <4> QED
          BY <1>1, <4>1, <4>2, <4>3, <4>4 DEF Follows
      <3>4. ASSUME NEW h \in Followers, fol' = h, h # f PROVE Follows(h)'
        <4>1. loop'[h] = loop[h] /\ Follows(h)
          BY <1>1, <2>6, <3>1, <3>4
        <4>2. Began(conv, loop[h].at, cache.before) => Began(conv, loop[h].at, cache.before)'
          BY <1>1, <4>1 DEF Began
        <4> QED
          BY <1>1, <4>1, <4>2 DEF Follows
      <3> QED
        BY <3>2, <3>3, <3>4
    <2>9. LogShape' /\ (\A d \in Rows!Convs : Proper(d)') /\ CacheShape'
      BY <1>1, SameLog DEF RowInv, CacheShape
    <2> QED
      BY <1>2, <2>5, <2>7, <2>9 DEF RowInv
  <1> QED
    BY <1>4, <1>5 DEF Rows!Begin

\* A frame is taken, unless the follower was replaced or stopped.
LEMMA FrameStep == ASSUME Rows!RecallAssumption, RowInv, NEW f \in Followers, Rows!Frame(f) PROVE RowInv'
  <1> DEFINE c == loop[f].conv
             k == loop[f].at
  <1>1. /\ loop[f].pc = "run" /\ k <= Len(log[c]) /\ UNCHANGED <<conv, log, fol, faults>>
    BY DEF Rows!Frame, Rows!End, Rows!source
  <1>2. /\ faults' \in 0..MaxFaults /\ LoopShape /\ None \notin Followers /\ loop[f] \in Loops
        /\ InPlace(fol, loop, f) /\ LogShape /\ CacheShape
    BY <1>1 DEF RowInv, LoopShape, Lives, Rows!RecallAssumption
  <1>3. c \in Rows!Convs /\ k \in 1..Len(log[c]) /\ k \in Nat \ {0}
    <2>1. c \in Rows!Convs /\ k \in Nat \ {0}
      BY <1>1, <1>2 DEF InPlace, Loops
    <2> HIDE DEF c, k
    <2>2. Len(log[c]) \in Nat
      BY <1>2, <2>1 DEF LogShape
    <2> QED
      BY <1>1, <2>1, <2>2
  <1>4. CASE fol # f
    <2>1. loop' = Rows!Goes(f, "wait") /\ UNCHANGED cache
      BY <1>4 DEF Rows!Frame, Rows!Stale
    <2>2. "wait" \in States \ {"off", "spawn", "run"} /\ loop[f].pc # "off"
      BY <1>1 DEF States
    <2> QED
      BY <1>1, <1>2, <2>1, <2>2, GoesStep
  <1>5. CASE fol = f
    <2>1. /\ cache' = [cache EXCEPT !.rows[c] = Rows!Applied(@, log[c][k]), !.through = k + 1]
          /\ loop' = [loop EXCEPT ![f].at = k + 1]
      BY <1>5 DEF Rows!Frame, Rows!Stale
    <2>2. CacheShape' /\ cache'.native = cache.native
      BY <1>1, <1>2, <1>3, <2>1, FrameShape
    <2> DEFINE m == k + 1
               p == [loop[f] EXCEPT !.at = m]
    <2>3. m \in Nat \ {0} /\ k <= m
      BY <1>3
    <2>4. loop' = [loop EXCEPT ![f] = p]
      BY <2>1
    <2> HIDE DEF m
    <2>5. /\ p \in Loops /\ p.pc = "run" /\ p.at = m /\ p.conv = c /\ p.live = loop[f].live
          /\ p.stopped = loop[f].stopped
      BY <1>1, <1>2, <2>3 DEF Loops
    <2> HIDE DEF p
    <2>6. Lives(fol, [loop EXCEPT ![f] = p])
      <3>1. fol \in {fol, None} /\ (fol = f => ~p.stopped /\ p.pc # "off") /\ (p.live => p.pc \in {"run", "wait"})
            /\ (p.pc \in {"spawn", "run"} => p.at # 0) /\ (p.pc = "run" => p.conv \in Rows!Convs)
        BY <1>2, <1>3, <2>3, <2>5 DEF InPlace
      <3> QED
        BY <1>2, <2>5, <3>1, PutIs
    <2>7. LoopShape'
      BY <1>1, <2>4, <2>6 DEF LoopShape, Lives, InPlace
    <2>8. loop'[f] = p
      BY <1>2, <2>4 DEF LoopShape, Lives
    <2>9. Sync'
      <3> SUFFICES ASSUME cache.native = conv PROVE Kept' /\ Follows(f)'
        BY <1>1, <1>5, <2>2 DEF Sync
      <3>1. Kept /\ Follows(f)
        BY <1>5 DEF RowInv, Sync
      <3>2. c = conv /\ k <= cache.through /\ (cache.before # 1 => Began(c, k, cache.before))
        BY <1>1, <3>1 DEF Follows
      <3> HIDE DEF c, k
      <3>0. PICK d \in Rows!Convs : d = c
        BY <1>3
      <3>4. PICK j \in 1..Len(log[d]) : d = c /\ j = k
        BY <1>3, <3>0
      <3>5. Kept' /\ cache'.through = j + 1 /\ cache'.before = cache.before
        <4>1. /\ d = conv /\ j <= cache.through /\ Proper(d)
              /\ (cache.before # 1 => Began(d, j, cache.before))
          <5>1. Proper(d)
            BY <3>4 DEF RowInv
          <5> QED
            BY <3>2, <3>4, <5>1
        <4>2. cache' = [cache EXCEPT !.rows[d] = Rows!Applied(@, log[d][j]), !.through = j + 1]
          BY <2>1, <3>4
        <4>3. UNCHANGED <<conv, log>>
          BY <1>1
        <4> QED
          BY <1>2, <3>1, <4>1, <4>2, <4>3, FrameIs
      <3>6. cache'.through = m
        BY <3>4, <3>5 DEF m
      <3>7. cache.before # 1 => Began(c, m, cache.before)
        BY <1>3, <2>3, <3>2, BeganEarlier
      <3>8. Began(c, m, cache.before) => Began(conv, loop[f].at, cache.before)'
        BY <1>1, <2>5, <2>8, <3>2, <3>5 DEF Began
      <3>9. loop'[f].pc = "run" /\ loop'[f].conv = c /\ loop'[f].at = m /\ m <= m
        BY <2>3, <2>5, <2>8
      <3> QED
        BY <1>1, <3>2, <3>5, <3>6, <3>7, <3>8, <3>9 DEF Follows
    <2>11. LogShape' /\ (\A d \in Rows!Convs : Proper(d)')
      BY <1>1, SameLog
    <2> QED
      BY <1>2, <2>2, <2>7, <2>9, <2>11 DEF RowInv
  <1> QED
    BY <1>4, <1>5

\* What a step of a follower may rely on.
LEMMA Stands ==
  ASSUME Rows!RecallAssumption, RowInv, NEW f \in Followers
  PROVE  /\ LoopShape /\ None \notin Followers /\ NConvs \in Nat /\ loop[f] \in Loops /\ InPlace(fol, loop, f)
         /\ faults \in 0..MaxFaults /\ fol \in {fol, None} /\ "off" \in States /\ 0 \in 0..NConvs
         /\ {"begin", "wait", "drop", "exit"} \subseteq States \ {"off", "spawn", "run"}
  <1>1. NConvs \in Nat /\ 0 \in 0..NConvs /\ None \notin Followers
    BY DEF Rows!RecallAssumption
  <1>2. LoopShape /\ loop[f] \in Loops /\ InPlace(fol, loop, f) /\ faults \in 0..MaxFaults
    BY DEF RowInv, LoopShape, Lives
  <1>3. {"begin", "wait", "drop", "exit"} \subseteq States \ {"off", "spawn", "run"} /\ "off" \in States
    BY DEF States
  <1> QED
    BY <1>1, <1>2, <1>3

\* The process of a follower is started, unless it was stopped.
LEMMA SpawnStep == ASSUME Rows!RecallAssumption, RowInv, NEW f \in Followers, Rows!Spawn(f) PROVE RowInv'
  <1>1. loop[f].pc = "spawn" /\ UNCHANGED <<conv, log, cache, fol, faults>>
    BY DEF Rows!Spawn, Rows!source
  <1>2. ~loop[f].live /\ faults' \in 0..MaxFaults
    BY <1>1, Stands DEF InPlace
  <1>3. CASE loop' = Rows!Goes(f, "wait")
    <2>1. "wait" \in States \ {"off", "spawn", "run"}
      BY Stands
    <2> QED
      BY <1>1, <1>2, <1>3, <2>1, GoesStep
  <1>4. CASE loop' = [loop EXCEPT ![f].pc = "run", ![f].live = TRUE, ![f].conv = conv]
    <2> DEFINE p == [loop[f] EXCEPT !.pc = "run", !.live = TRUE, !.conv = conv]
    <2>1. loop' = [loop EXCEPT ![f] = p]
      <3>1. loop \in [Followers -> Loops]
        BY Stands DEF LoopShape, Lives
      <3> QED
        BY <1>4, <3>1
    <2>2. p \in Loops /\ p.pc = "run" /\ p.stopped = loop[f].stopped /\ p.conv = conv /\ p.at = loop[f].at
      <3>1. "run" \in States /\ conv \in 0..NConvs
        BY DEF States, RowInv, LogShape, Rows!Convs, Rows!RecallAssumption
      <3> QED
        BY <3>1, Stands DEF Loops
    <2> HIDE DEF p
    <2>3. fol' \in {fol, None} /\ (fol' = f => ~p.stopped /\ p.pc # "off") /\ (p.live => p.pc \in {"run", "wait"})
      BY <1>1, <2>2, Stands DEF InPlace
    <2> QED
      BY <1>1, <1>2, <2>1, <2>2, <2>3, PutStep
  <1> QED
    BY <1>3, <1>4 DEF Rows!Spawn

\* The process says that the session has left its conversation.
LEMMA ResyncStep == ASSUME Rows!RecallAssumption, RowInv, NEW f \in Followers, Rows!Resync(f) PROVE RowInv'
  <1>1. /\ loop[f].pc = "run" /\ UNCHANGED <<conv, log, cache, fol>>
        /\ loop' = [Rows!Goes(f, "wait") EXCEPT ![f].resync = ~Rows!Stale(f)]
    BY DEF Rows!Resync, Rows!source
  <1>7. faults' \in 0..MaxFaults
    <2>1. faults' = faults \/ (faults < MaxFaults /\ faults' = faults + 1)
      BY DEF Rows!Resync, Rows!Fault
    <2>2. faults \in 0..MaxFaults /\ MaxFaults \in Nat
      BY DEF RowInv, Rows!RecallAssumption
    <2> QED
      BY <2>1, <2>2
  <1>2. PICK b \in BOOLEAN : b = ~Rows!Stale(f)
    BY DEF Rows!Stale
  <1>3. PICK z \in 0..NConvs : z = 0
    BY Stands
  <1> DEFINE p == [loop[f] EXCEPT !.pc = "wait", !.conv = z, !.at = z, !.resync = b]
  <1>4. loop' = [loop EXCEPT ![f] = p]
    <2>1. loop \in [Followers -> Loops]
      BY Stands DEF LoopShape, Lives
    <2> QED
      BY <1>1, <1>2, <1>3, <2>1 DEF Rows!Goes
  <1>5. p \in Loops /\ p.pc = "wait" /\ p.stopped = loop[f].stopped
    <2>1. "wait" \in States /\ z \in Nat /\ loop[f] \in Loops
      BY <1>3, Stands
    <2> QED
      BY <1>2, <1>3, <2>1 DEF Loops
  <1> HIDE DEF p
  <1>6. /\ fol' \in {fol, None} /\ (fol' = f => ~p.stopped /\ p.pc # "off") /\ (p.live => p.pc \in {"run", "wait"})
        /\ p.pc \notin {"spawn", "run"} /\ faults' \in 0..MaxFaults
    BY <1>1, <1>5, <1>7, Stands DEF InPlace
  <1> QED
    BY <1>1, <1>4, <1>5, <1>6, PutStep

\* The process ends, by itself or because it was stopped.
LEMMA EndsStep == ASSUME Rows!RecallAssumption, RowInv, NEW f \in Followers, Rows!ProcessEnds(f) PROVE RowInv'
  <1>1. loop[f].pc = "run" /\ UNCHANGED <<conv, log, cache, fol>> /\ loop' = Rows!Goes(f, "wait")
    BY DEF Rows!ProcessEnds, Rows!source
  <1>2. faults' \in 0..MaxFaults
    <2>1. faults' = faults \/ (faults < MaxFaults /\ faults' = faults + 1)
      BY DEF Rows!ProcessEnds, Rows!Fault
    <2>2. faults \in 0..MaxFaults /\ MaxFaults \in Nat
      BY DEF RowInv, Rows!RecallAssumption
    <2> QED
      BY <2>1, <2>2
  <1>3. "wait" \in States \ {"off", "spawn", "run"}
    BY Stands
  <1> QED
    BY <1>1, <1>2, <1>3, GoesStep

\* The process was waited for: the loop begins anew, drops the cache or gives up.
LEMMA JudgeStep == ASSUME Rows!RecallAssumption, RowInv, NEW f \in Followers, Rows!Judge(f) PROVE RowInv'
  <1>1. loop[f].pc = "wait" /\ UNCHANGED <<conv, log, cache, fol, faults>>
    BY DEF Rows!Judge, Rows!source
  <1>2. PICK pc \in {"begin", "drop", "exit"} :
            loop' = [Rows!Goes(f, pc) EXCEPT ![f].live = FALSE, ![f].resync = FALSE]
    BY DEF Rows!Judge
  <1>3. PICK z \in 0..NConvs : z = 0
    BY Stands
  <1> DEFINE p == [loop[f] EXCEPT !.pc = pc, !.conv = z, !.at = z, !.live = FALSE, !.resync = FALSE]
  <1>4. loop' = [loop EXCEPT ![f] = p]
    <2>1. loop \in [Followers -> Loops]
      BY Stands DEF LoopShape, Lives
    <2> QED
      BY <1>2, <1>3, <2>1 DEF Rows!Goes
  <1>5. p \in Loops /\ p.pc = pc /\ p.stopped = loop[f].stopped /\ ~p.live
    <2>1. pc \in States /\ z \in Nat /\ loop[f] \in Loops
      BY <1>3, Stands
    <2> QED
      BY <1>3, <2>1 DEF Loops
  <1> HIDE DEF p
  <1>6. /\ fol' \in {fol, None} /\ (fol' = f => ~p.stopped /\ p.pc # "off") /\ (p.live => p.pc \in {"run", "wait"})
        /\ p.pc \notin {"spawn", "run"} /\ faults' \in 0..MaxFaults
    BY <1>1, <1>5, Stands DEF InPlace
  <1> QED
    BY <1>1, <1>4, <1>5, <1>6, PutStep

\* The rows of another conversation are dropped.
LEMMA DropStep == ASSUME Rows!RecallAssumption, RowInv, NEW f \in Followers, Rows!Drop(f) PROVE RowInv'
  <1>1. /\ loop[f].pc = "drop" /\ cache' = Rows!Closed /\ loop' = Rows!Goes(f, "exit")
        /\ conv' = conv /\ log' = log /\ fol' = fol /\ faults' = faults
    BY DEF Rows!Drop, Rows!source
  <1>2. ~loop[f].live /\ faults' \in 0..MaxFaults /\ "exit" \in States \ {"off", "spawn", "run"}
    BY <1>1, Stands DEF InPlace
  <1>3. LoopShape'
    BY <1>1, <1>2, Stands, GoesIs
  <1>4. LogShape /\ UNCHANGED <<conv, log>>
    BY <1>1 DEF RowInv
  <1>5. CacheShape' /\ cache'.native = 0 /\ conv # 0
    BY <1>1, <1>4, ClosedShape DEF LogShape, Rows!Convs
  <1>6. Sync'
    BY <1>1, <1>5 DEF Sync
  <1>7. LogShape' /\ (\A c \in Rows!Convs : Proper(c)')
    BY <1>1, SameLog
  <1> QED
    BY <1>2, <1>3, <1>5, <1>6, <1>7 DEF RowInv

\* The loop is over.
LEMMA ExitStep == ASSUME Rows!RecallAssumption, RowInv, NEW f \in Followers, Rows!Exit(f) PROVE RowInv'
  <1>1. /\ UNCHANGED <<conv, log, cache, faults>> /\ fol' = IF fol = f THEN None ELSE fol
        /\ loop' = [loop EXCEPT ![f] = Rows!Off]
    BY DEF Rows!Exit, Rows!source
  <1> DEFINE p == Rows!Off
  <1>2. p \in Loops /\ p.pc = "off" /\ ~p.live
    <2>1. "off" \in States /\ 0 \in 0..NConvs
      BY Stands
    <2> QED
      BY <2>1 DEF Rows!Off, Loops
  <1>3. loop' = [loop EXCEPT ![f] = p]
    BY <1>1
  <1> HIDE DEF p
  <1>4. fol' \in {fol, None} /\ fol' # f /\ faults' \in 0..MaxFaults
    BY <1>1, Stands
  <1> QED
    BY <1>1, <1>2, <1>3, <1>4, PutStep

\* Nobody has asked for a while.
LEMMA IdleStep == ASSUME Rows!RecallAssumption, RowInv, NEW f \in Followers, Rows!Idle(f) PROVE RowInv'
  <1>1. /\ UNCHANGED <<conv, log, cache, faults>> /\ fol' = IF fol = f THEN None ELSE fol
        /\ loop' = [loop EXCEPT ![f].stopped = TRUE]
    BY DEF Rows!Idle, Rows!source
  <1> DEFINE p == [loop[f] EXCEPT !.stopped = TRUE]
  <1>2. loop' = [loop EXCEPT ![f] = p]
    <2>1. loop \in [Followers -> Loops]
      BY Stands DEF LoopShape, Lives
    <2> QED
      BY <1>1, <2>1
  <1>3. /\ p \in Loops /\ p.pc = loop[f].pc /\ p.live = loop[f].live /\ p.conv = loop[f].conv /\ p.at = loop[f].at
    BY Stands DEF Loops
  <1> HIDE DEF p
  <1>4. /\ fol' \in {fol, None} /\ fol' # f /\ faults' \in 0..MaxFaults /\ (p.live => p.pc \in {"run", "wait"})
    BY <1>1, <1>3, Stands DEF InPlace
  <1> QED
    BY <1>1, <1>2, <1>3, <1>4, PutStep

\* The session is cleared: it is in a new conversation.
LEMMA ClearStep == ASSUME Rows!RecallAssumption, RowInv, Rows!Clear PROVE RowInv'
  <1>1. conv < NConvs /\ conv' = conv + 1 /\ UNCHANGED <<log, cache, fol, loop, faults>>
    BY DEF Rows!Clear
  <1>2. conv \in 1..NConvs /\ NConvs \in Nat
    BY DEF Rows!RecallAssumption, RowInv, LogShape, Rows!Convs
  <1>3. LogShape'
    BY <1>1, <1>2 DEF RowInv, LogShape, Rows!Convs
  <1>4. \A c \in Rows!Convs : Proper(c)'
    BY <1>1 DEF RowInv, Proper
  <1>5. CacheShape'
    BY <1>1, <1>2 DEF RowInv, CacheShape, Caches
  <1>6. LoopShape' /\ faults' \in 0..MaxFaults
    BY <1>1 DEF RowInv, LoopShape, Lives, InPlace
  <1>7. Sync'
    <2>1. cache.native \in Nat /\ cache.native <= conv
      BY DEF RowInv, CacheShape, Caches
    <2> QED
      BY <1>1, <1>2, <2>1 DEF Sync
  <1> QED
    BY <1>3, <1>4, <1>5, <1>6, <1>7 DEF RowInv

-----------------------------------------------------------------------------
\* Every step of the session, its requests and its followers keeps the invariant.
LEMMA RowsStep ==
  ASSUME Rows!RecallAssumption, RowInv, Rows!Next \/ UNCHANGED rowVars PROVE RowInv'
  <1>1. ASSUME UNCHANGED rowVars PROVE RowInv'
    <2>1. conv' = conv /\ log' = log /\ cache' = cache /\ fol' = fol /\ loop' = loop /\ faults' = faults
      BY <1>1 DEF rowVars
    <2>2. LoopShape' /\ faults' \in 0..MaxFaults
      BY <2>1 DEF RowInv, LoopShape, Lives, InPlace
    <2> QED
      BY <2>1, <2>2, LifeStep
  <1>2. ASSUME NEW i \in Rows!Rows, NEW v \in 0..2, Rows!Happens(i, v) PROVE RowInv'
    BY <1>2, HappensStep
  <1>3. ASSUME NEW due \in BOOLEAN, Rows!AskOpens(due) PROVE RowInv'
    BY <1>3, OpensStep
  <1>4. ASSUME NEW due \in BOOLEAN, Rows!AskPolls(due) PROVE RowInv'
    BY <1>4, PollsStep
  <1>5. ASSUME NEW page \in BOOLEAN, Rows!AskRests(page) PROVE RowInv'
    BY <1>5, RestsStep
  <1>6. ASSUME NEW f \in Followers, Rows!Proceeds(f) PROVE RowInv'
    BY <1>6, BeginStep, SpawnStep, JudgeStep, DropStep, ExitStep, EndsStep DEF Rows!Proceeds
  <1>7. ASSUME NEW f \in Followers, Rows!Frame(f) \/ Rows!Resync(f) \/ Rows!ProcessEnds(f) \/ Rows!Idle(f)
        PROVE  RowInv'
    BY <1>7, FrameStep, ResyncStep, EndsStep, IdleStep
  <1> QED
    BY <1>1, <1>2, <1>3, <1>4, <1>5, <1>6, <1>7, ClearStep, FailsStep DEF Rows!Next

\* What the invariant says of the rows is what the model promises.
LEMMA RowsPromise ==
  ASSUME Rows!RecallAssumption, RowInv PROVE Rows!TypeOK /\ Rows!NothingLost
  <1>1. Rows!TypeOK
    <2>1. conv \in Rows!Convs /\ \A c \in Rows!Convs : Len(log[c]) <= MaxEvents
      BY DEF RowInv, LogShape
    <2>2. cache.native \in 0..conv /\ cache.rows \in [Rows!Convs -> [Rows!Rows -> 0..2]]
          /\ cache.through \in 0..(MaxEvents + 1) /\ cache.before \in 1..(NRows + 1)
      <3>1. /\ cache.native \in Nat /\ cache.rows \in [Rows!Convs -> [Rows!Rows -> 0..2]] /\ cache.through \in Nat
            /\ cache.native <= conv /\ cache.through <= MaxEvents + 1 /\ cache.before \in 1..(NRows + 1)
        BY DEF RowInv, CacheShape, Caches
      <3>2. conv \in Nat /\ MaxEvents \in Nat
        BY DEF RowInv, LogShape, Rows!Convs, Rows!RecallAssumption
      <3> QED
        BY <3>1, <3>2
    <2>3. fol \in Followers \cup {None} /\ faults \in 0..MaxFaults
      BY DEF RowInv, LoopShape, Lives
    <2>4. ASSUME NEW f \in Followers
          PROVE  /\ loop[f].pc \in {"off", "begin", "spawn", "run", "wait", "drop", "exit"}
                 /\ (fol = f => ~loop[f].stopped /\ loop[f].pc # "off")
                 /\ (loop[f].live => loop[f].pc \in {"run", "wait"})
      <3>1. loop[f] \in Loops /\ InPlace(fol, loop, f)
        BY DEF RowInv, LoopShape, Lives
      <3>2. loop[f].pc \in States
        BY <3>1 DEF Loops
      <3> QED
        BY <3>1, <3>2 DEF InPlace, States
    <2> QED
      BY <2>1, <2>2, <2>3, <2>4 DEF Rows!TypeOK
  <1>2. Rows!NothingLost
    <2> SUFFICES ASSUME cache.native = conv
                 PROVE  /\ cache.through \in 1..(Len(log[conv]) + 1)
                        /\ \A i \in Rows!Rows : i >= cache.before =>
                            \E n \in (cache.through - 1)..Len(log[conv]) : cache.rows[conv][i] = Rows!At(conv, n, i)
                        /\ \A c \in Rows!Convs \ {conv} : cache.rows[c] = Rows!NoRows[c]
      BY DEF Rows!NothingLost, Rows!End
    <2>1. Kept /\ cache.through \in Nat /\ Len(log[conv]) \in Nat
      BY DEF RowInv, Sync, CacheShape, Caches, LogShape
    <2>2. cache.through \in 1..(Len(log[conv]) + 1)
      BY <2>1 DEF Kept
    <2> QED
      BY <2>1, <2>2 DEF Kept
  <1> QED
    BY <1>1, <1>2

\* Nothing is lost between the polls and the stream of recall: from the oldest row that it holds, a cache
\* of the session's conversation has every row as it was at its cursor or later, and no row of another,
\* for any number of followers, rows and conversations (historyWindow and the follower, src/recall.go
\* and src/recall_follow.go).
THEOREM RowsThm == AllSpec => []RowsKept
  <1>1. Rows!RecallAssumption
    BY Assumptions
  <1>2. AllInit => RowInv
    BY <1>1, RowsStart DEF AllInit
  <1>3. RowInv /\ [AllNext]_<<scene, vars, rowVars>> => RowInv'
    <2> SUFFICES ASSUME RowInv, [AllNext]_<<scene, vars, rowVars>> PROVE RowInv'
      OBVIOUS
    <2>1. Rows!Next \/ UNCHANGED rowVars
      BY DEF AllNext, Reading, Listing
    <2> QED
      BY <1>1, <2>1, RowsStep
  <1>4. RowInv => RowsKept
    BY <1>1, RowsPromise DEF RowsKept
  <1> QED
    BY <1>2, <1>3, <1>4, PTL DEF AllSpec

=============================================================================
