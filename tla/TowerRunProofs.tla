--------------------------- MODULE TowerRunProofs ---------------------------
(***************************************************************************)
(* Signed lines, for any devices, requests, challenges and versions of the *)
(* ask: what starts is what the sheet showed, once, and under an assertion *)
(* that no revoked device gives; a challenge is one-shot; the duplicate    *)
(* mark is true.                                                           *)
(***************************************************************************)
EXTENDS TowerRun, FunctionTheorems, FiniteSetTheorems, SequenceTheorems, TLAPS

USE VersionsAssumption, NoneAssumption

Slots == [pc : Steps, kind : Kinds, dev : Devices \cup {None}, sha : Shas \cup {None},
          chal : Chals \cup {None}, by : Devices \cup {None}, ver : Versions \cup {None},
          got : Binding \cup {None}]

Receipts == [chal : Chals, got : Binding]

\* The steps under towerActMu, and those of them that hold an assertion.
UnderMu == {"take", "caps", "creds", "store", "dup", "exec", "armExec"}
Spending == {"caps", "creds", "store"}

Shape ==
    /\ tokens \in SUBSET Devices /\ recs \in SUBSET Devices
    /\ chals \in [Chals -> Binding \cup {None}]
    /\ req \in [Requests -> Slots]
    /\ mu \in Requests \cup {None} /\ dup \in SUBSET Lines
    /\ cur \in Versions /\ armed \in SUBSET Shas /\ elevated \in BOOLEAN
    /\ drawn \in SUBSET Chals /\ receipts \in Seq(Receipts)
    /\ revoked \in SUBSET Devices /\ inWindow \in [Lines -> Nat]

\* What a request knows at each step.
Knows ==
    \A r \in Requests :
        /\ ~At(r, "idle") => req[r].dev \in Devices
        /\ req[r].pc \notin {"idle", "cascade"} => req[r].sha \in Shas
        /\ req[r].pc \in {"cCreds", "cStore", "take", "dup", "exec"} \cup Spending => req[r].ver \in Versions
        /\ req[r].pc \in {"take"} \cup Spending => req[r].chal \in Chals
        /\ req[r].pc \in Spending => req[r].got # None

\* The mutex is held by the one request that is under it.
Mutex == \A r \in Requests : req[r].pc \in UnderMu <=> mu = r

\* An assertion in hand was drawn for what its request is about.
Fits ==
    \A r \in Requests : req[r].got # None =>
        /\ req[r].pc \in Spending \cup {"dup", "exec"}
        /\ req[r].chal \in Chals
        /\ req[r].got.kind = req[r].kind /\ req[r].got.dev = req[r].dev
        /\ Sha[req[r].got.ver] = req[r].sha

InReceipts(c) == \E i \in DOMAIN receipts : receipts[i].chal = c
InHand(c) == \E r \in Requests : req[r].chal = c /\ req[r].got # None /\ req[r].pc \in Spending

\* A challenge is in one place: open, in hand, or in one receipt.
Once ==
    /\ \A i, j \in DOMAIN receipts : receipts[i].chal = receipts[j].chal => i = j
    /\ \A c \in Chals : chals[c] # None \/ InHand(c) \/ InReceipts(c) => c \in drawn
    /\ \A c \in Chals : InHand(c) \/ InReceipts(c) => chals[c] = None
    /\ \A c \in Chals : ~(InHand(c) /\ InReceipts(c))

\* Nobody starts without an assertion but who needs none, or with one that another start has used.
Entitled ==
    \A r \in Requests : req[r].pc \in {"dup", "exec"} =>
        IF req[r].got = None
        THEN /\ req[r].kind = "line" /\ Sha[req[r].ver] = req[r].sha
             /\ Class[req[r].ver] \notin PasskeyClasses
        ELSE /\ \E i \in DOMAIN receipts : receipts[i] = [chal |-> req[r].chal, got |-> req[r].got]
             /\ \A t \in started : t.got # None => t.chal # req[r].chal

\* A line is in the window of its mark only while it has one, and a start that is being made is not
\* counted yet.
Marks ==
    /\ \A l \in Lines \ dup : inWindow[l] = 0
    /\ \A l \in dup : inWindow[l] \in {0, 1}
    /\ \A r \in Requests : At(r, "exec") /\ Line(r) \in dup => inWindow[Line(r)] = 0
    /\ MarkMeansStarted

RevokedHaveNone == recs \cap revoked = {}

Inv ==
    /\ Shape /\ Knows /\ Mutex /\ Fits
    /\ StartedAsShown /\ ReceiptIsFresh
    /\ Once /\ Entitled /\ StartsAuthorised
    /\ Marks /\ RevokedHaveNone

-----------------------------------------------------------------------------
(* Types, and what a request knows. *)

\* What a step leaves of the other requests, and how it leaves its own.
Keeps(r) == req' \in [Requests -> Slots] /\ \A q \in Requests \ {r} : req'[q] = req[q]
Ends(r) == Keeps(r) /\ req'[r] = Idle
Goes(r, step, ver, got) ==
    /\ Keeps(r) /\ req'[r].pc = step /\ req'[r].kind = req[r].kind /\ req'[r].dev = req[r].dev
    /\ req'[r].sha = req[r].sha /\ req'[r].chal = req[r].chal /\ req'[r].by = req[r].by
    /\ req'[r].ver = ver /\ req'[r].got = got

\* The records the module names.
LEMMA Records ==
  /\ Idle \in Slots /\ Idle.pc = "idle" /\ Idle.got = None
  /\ Shape => TypeOK
  <1>1. Idle \in Slots
    BY Zenon DEF Idle, Slots, Steps, Kinds
  <1>2. Idle.pc = "idle" /\ Idle.got = None
    BY DEF Idle
  <1>3. Shape => TypeOK
    BY DEF Shape, TypeOK, Slots, Receipts
  <1> QED
    BY <1>1, <1>2, <1>3

\* A request that is over.
LEMMA EndsWhenDone == ASSUME Shape, NEW r \in Requests, Done(r) PROVE Ends(r)
  BY Records DEF Shape, Done, Ends, Keeps

\* A request that goes on.
LEMMA GoesWhenMoved ==
  ASSUME Shape, NEW r \in Requests, NEW step \in Steps
  PROVE  /\ Goto(r, step) => Goes(r, step, req[r].ver, req[r].got)
         /\ \A v \in Versions : req' = [req EXCEPT ![r].pc = step, ![r].ver = v] => Goes(r, step, v, req[r].got)
         /\ \A v \in Versions : req' = [req EXCEPT ![r].ver = v, ![r].pc = step] => Goes(r, step, v, req[r].got)
         /\ \A b \in Binding : req' = [req EXCEPT ![r].pc = step, ![r].got = b] => Goes(r, step, req[r].ver, b)
  <1>0. req \in [Requests -> Slots] /\ req[r] \in Slots
    BY DEF Shape
  <1>1. ASSUME NEW x \in Slots, req' = [req EXCEPT ![r] = x] PROVE Keeps(r) /\ req'[r] = x
    BY <1>0, <1>1 DEF Keeps
  <1>2. ASSUME Goto(r, step) PROVE Goes(r, step, req[r].ver, req[r].got)
    <2> DEFINE x == [req[r] EXCEPT !.pc = step]
    <2>1. x \in Slots
      BY <1>0 DEF Slots
    <2>2. req' = [req EXCEPT ![r] = x]
      BY <1>2 DEF Goto
    <2> QED
      BY <1>0, <1>1, <2>1, <2>2 DEF Goes, Slots
  <1>3. ASSUME NEW v \in Versions,
               \/ req' = [req EXCEPT ![r].pc = step, ![r].ver = v]
               \/ req' = [req EXCEPT ![r].ver = v, ![r].pc = step]
        PROVE  Goes(r, step, v, req[r].got)
    <2> DEFINE x == [req[r] EXCEPT !.pc = step, !.ver = v]
    <2>1. x \in Slots
      BY <1>0 DEF Slots
    <2>2. req' = [req EXCEPT ![r] = x]
      BY <1>0, <1>3 DEF Slots
    <2> QED
      BY <1>0, <1>1, <2>1, <2>2 DEF Goes, Slots
  <1>4. ASSUME NEW b \in Binding, req' = [req EXCEPT ![r].pc = step, ![r].got = b]
        PROVE  Goes(r, step, req[r].ver, b)
    <2> DEFINE x == [req[r] EXCEPT !.pc = step, !.got = b]
    <2>1. x \in Slots
      BY <1>0 DEF Slots
    <2>2. req' = [req EXCEPT ![r] = x]
      BY <1>0, <1>4 DEF Slots
    <2> QED
      BY <1>0, <1>1, <2>1, <2>2 DEF Goes, Slots
  <1> QED
    BY <1>2, <1>3, <1>4

\* A request that arrives has no assertion yet.
Comes(r) ==
    /\ At(r, "idle") /\ Keeps(r)
    /\ req'[r].pc \in {"cVerify", "lock", "armLock", "cascade"} /\ req'[r].got = None
    /\ req'[r].dev \in Devices /\ (req'[r].pc # "cascade" => req'[r].sha \in Shas)

\* A request that comes.
LEMMA ComesWhenArrived ==
  ASSUME Shape, NEW r \in Requests, Arrival(r)
  PROVE  Comes(r)
  <1>0. req \in [Requests -> Slots] /\ drawn \subseteq Chals
    BY DEF Shape
  <1>1. ASSUME NEW x \in Slots, req' = [req EXCEPT ![r] = x] PROVE Keeps(r) /\ req'[r] = x
    BY <1>0, <1>1 DEF Keeps
  <1>2. ASSUME NEW d \in Devices, NEW kind \in Kinds, NEW sha \in Shas, AskChallenge(r, d, kind, sha)
        PROVE  Comes(r)
    <2> DEFINE x == [Idle EXCEPT !.pc = "cVerify", !.kind = kind, !.dev = d, !.sha = sha]
    <2>1. x \in Slots /\ x.pc = "cVerify" /\ x.got = None /\ x.dev = d /\ x.sha = sha
      BY Records DEF Slots, Steps, Kinds
    <2>2. req' = [req EXCEPT ![r] = x]
      BY <1>2 DEF AskChallenge
    <2>3. Keeps(r) /\ req'[r] = x
      <3> HIDE DEF x
      <3> QED
        BY <1>1, <2>1, <2>2
    <2> QED
      BY <1>2, <2>1, <2>3 DEF Comes, AskChallenge
  <1>3. ASSUME NEW d \in Devices, NEW kind \in Kinds, NEW sha \in Shas,
               NEW c \in drawn \cup {None}, NEW k \in Devices \cup {None}, AskRun(r, d, kind, sha, c, k)
        PROVE  Comes(r)
    <2> DEFINE y == [Idle EXCEPT !.pc = "lock", !.kind = kind, !.dev = d, !.sha = sha]
    <2> DEFINE x == [y EXCEPT !.chal = c, !.by = k]
    <2>0. c \in Chals \cup {None}
      BY <1>0
    <2>4. y \in Slots /\ y.pc = "lock" /\ y.got = None /\ y.dev = d /\ y.sha = sha
      BY Records DEF Slots, Steps, Kinds
    <2>1. x \in Slots /\ x.pc = "lock" /\ x.got = None /\ x.dev = d /\ x.sha = sha
      <3> HIDE DEF y
      <3> QED
        BY <2>0, <2>4 DEF Slots
    <2>2. req' = [req EXCEPT ![r] = x]
      BY <1>3 DEF AskRun
    <2>3. Keeps(r) /\ req'[r] = x
      <3> HIDE DEF x
      <3> QED
        BY <1>1, <2>1, <2>2
    <2> HIDE DEF x
    <2> QED
      BY <1>3, <2>1, <2>3 DEF Comes, AskRun
  <1>4. ASSUME NEW d \in Devices, NEW sha \in Shas, AskArm(r, d, sha) PROVE Comes(r)
    <2> DEFINE x == [Idle EXCEPT !.pc = "armLock", !.dev = d, !.sha = sha]
    <2>1. x \in Slots /\ x.pc = "armLock" /\ x.got = None /\ x.dev = d /\ x.sha = sha
      BY Records DEF Slots, Steps, Kinds
    <2>2. req' = [req EXCEPT ![r] = x]
      BY <1>4 DEF AskArm
    <2>3. Keeps(r) /\ req'[r] = x
      <3> HIDE DEF x
      <3> QED
        BY <1>1, <2>1, <2>2
    <2> QED
      BY <1>4, <2>1, <2>3 DEF Comes, AskArm
  <1>5. ASSUME NEW d \in Devices, Revoke(r, d) PROVE Comes(r)
    <2> DEFINE x == [Idle EXCEPT !.pc = "cascade", !.dev = d]
    <2>1. x \in Slots /\ x.pc = "cascade" /\ x.got = None /\ x.dev = d
      BY Records DEF Slots, Steps, Kinds
    <2>2. req' = [req EXCEPT ![r] = x]
      BY <1>5 DEF Revoke
    <2>3. Keeps(r) /\ req'[r] = x
      <3> HIDE DEF x
      <3> QED
        BY <1>1, <2>1, <2>2
    <2> QED
      BY <1>5, <2>1, <2>3 DEF Comes, Revoke
  <1> QED
    BY <1>2, <1>3, <1>4, <1>5 DEF Arrival

\* How each action moves the request it is about.
LEMMA Moves ==
  ASSUME Shape, Knows, NEW r \in Requests
  PROVE
    /\ ChallengeVerify(r) => Ends(r) \/ Goes(r, "cCreds", cur, req[r].got)
    /\ ChallengeCreds(r) => Ends(r) \/ Goes(r, "cStore", req[r].ver, req[r].got)
    /\ \A c \in Chals : ChallengeStore(r, c) => Ends(r)
    /\ RunVerify(r) =>
        \/ Ends(r) /\ mu' = mu
        \/ /\ NeedsPasskey(req[r].kind, cur) /\ req[r].chal # None /\ mu' = r
           /\ Goes(r, "take", cur, req[r].got)
        \/ /\ ~NeedsPasskey(req[r].kind, cur) /\ MayStart(req[r].kind, cur, req[r].sha, req[r].dev) /\ mu' = r
           /\ Goes(r, "dup", cur, req[r].got)
    /\ SpendTake(r) =>
        \/ Ends(r) /\ mu' = None
        \/ /\ chals[req[r].chal] \in Binding /\ chals[req[r].chal].dev = req[r].dev
           /\ Bound(chals[req[r].chal], req[r].kind, req[r].sha) /\ mu' = mu
           /\ Goes(r, "caps", req[r].ver, chals[req[r].chal])
    /\ SpendCaps(r) => (Ends(r) /\ mu' = None) \/ (Goes(r, "creds", req[r].ver, req[r].got) /\ mu' = mu)
    /\ SpendCreds(r) =>
        \/ Ends(r) /\ mu' = None
        \/ /\ Unchanged(req[r].got, req[r].kind, req[r].ver) /\ mu' = mu
           /\ Goes(r, "store", req[r].ver, req[r].got)
    /\ \A saved \in BOOLEAN : SpendStore(r, saved) =>
        \/ Ends(r) /\ mu' = None /\ receipts' = receipts
        \/ /\ Goes(r, "dup", req[r].ver, req[r].got) /\ mu' = mu /\ req[r].dev \in recs
           /\ receipts' = Append(receipts, [chal |-> req[r].chal, got |-> req[r].got])
    /\ RunRefused(r) => Ends(r) /\ mu' = IF mu = r THEN None ELSE mu
    /\ RunDup(r) =>
        \/ Ends(r) /\ mu' = None /\ dup' = dup
        \/ /\ Goes(r, "exec", req[r].ver, req[r].got) /\ mu' = mu
           /\ Line(r) \notin dup /\ dup' = dup \cup {Line(r)}
    /\ \A answered \in BOOLEAN : RunExec(r, answered) => Ends(r) /\ mu' = None
    /\ ArmVerify(r) => (Ends(r) /\ mu' = mu) \/ (Goes(r, "armExec", req[r].ver, req[r].got) /\ mu' = r)
    /\ ArmExec(r) => Ends(r) /\ mu' = None
    /\ Cascade(r) => Ends(r)
  <1>0. cur \in Versions /\ chals \in [Chals -> Binding \cup {None}]
    BY DEF Shape
  <1>1. ASSUME Done(r) PROVE Ends(r)
    BY <1>1, EndsWhenDone
  <1>2. ASSUME NEW step \in Steps
        PROVE  /\ Goto(r, step) => Goes(r, step, req[r].ver, req[r].got)
               /\ req' = [req EXCEPT ![r].pc = step, ![r].ver = cur] => Goes(r, step, cur, req[r].got)
               /\ req' = [req EXCEPT ![r].ver = cur, ![r].pc = step] => Goes(r, step, cur, req[r].got)
               /\ \A b \in Binding : req' = [req EXCEPT ![r].pc = step, ![r].got = b]
                                         => Goes(r, step, req[r].ver, b)
    BY <1>0, GoesWhenMoved
  <1>3. /\ "cCreds" \in Steps /\ "cStore" \in Steps /\ "take" \in Steps /\ "caps" \in Steps
        /\ "creds" \in Steps /\ "store" \in Steps /\ "dup" \in Steps /\ "exec" \in Steps
        /\ "armExec" \in Steps
    BY DEF Steps
  <1>4. ASSUME Release(r) PROVE mu' = None /\ Ends(r)
    BY <1>1, <1>4 DEF Release
  <1>a. ChallengeVerify(r) => Ends(r) \/ Goes(r, "cCreds", cur, req[r].got)
    BY <1>1, <1>2, <1>3 DEF ChallengeVerify
  <1>b. ChallengeCreds(r) => Ends(r) \/ Goes(r, "cStore", req[r].ver, req[r].got)
    BY <1>1, <1>2, <1>3 DEF ChallengeCreds
  <1>c. \A c \in Chals : ChallengeStore(r, c) => Ends(r)
    BY <1>1 DEF ChallengeStore
  <1>d. ASSUME RunVerify(r)
        PROVE
        \/ Ends(r) /\ mu' = mu
        \/ /\ NeedsPasskey(req[r].kind, cur) /\ req[r].chal # None /\ mu' = r
           /\ Goes(r, "take", cur, req[r].got)
        \/ /\ ~NeedsPasskey(req[r].kind, cur) /\ MayStart(req[r].kind, cur, req[r].sha, req[r].dev) /\ mu' = r
           /\ Goes(r, "dup", cur, req[r].got)
    <2>1. CASE NeedsPasskey(req[r].kind, cur)
      BY <1>1, <1>2, <1>3, <1>d, <2>1 DEF RunVerify
    <2>2. CASE ~NeedsPasskey(req[r].kind, cur)
      BY <1>1, <1>2, <1>3, <1>d, <2>2 DEF RunVerify
    <2> QED
      BY <2>1, <2>2
  <1>e. ASSUME SpendTake(r)
        PROVE
        \/ Ends(r) /\ mu' = None
        \/ /\ chals[req[r].chal] \in Binding /\ chals[req[r].chal].dev = req[r].dev
           /\ Bound(chals[req[r].chal], req[r].kind, req[r].sha) /\ mu' = mu
           /\ Goes(r, "caps", req[r].ver, chals[req[r].chal])
    <2>1. req[r].chal \in Chals
      BY <1>e DEF SpendTake, At, Knows
    <2> DEFINE ch == chals[req[r].chal]
    <2>2. ch \in Binding \cup {None}
      BY <1>0, <2>1
    <2>3. \/ Release(r)
          \/ /\ ch # None /\ ch.dev = req[r].dev /\ Bound(ch, req[r].kind, req[r].sha) /\ mu' = mu
             /\ req' = [req EXCEPT ![r].pc = "caps", ![r].got = ch]
      BY <1>e DEF SpendTake
    <2> HIDE DEF ch
    <2>4. \/ Ends(r) /\ mu' = None
          \/ /\ ch \in Binding /\ ch.dev = req[r].dev /\ Bound(ch, req[r].kind, req[r].sha) /\ mu' = mu
             /\ Goes(r, "caps", req[r].ver, ch)
      BY <1>2, <1>3, <1>4, <2>2, <2>3
    <2> QED
      BY <2>4 DEF ch
  <1>f. SpendCaps(r) => (Ends(r) /\ mu' = None) \/ (Goes(r, "creds", req[r].ver, req[r].got) /\ mu' = mu)
    BY <1>2, <1>3, <1>4 DEF SpendCaps
  <1>g. SpendCreds(r) =>
        \/ Ends(r) /\ mu' = None
        \/ /\ Unchanged(req[r].got, req[r].kind, req[r].ver) /\ mu' = mu
           /\ Goes(r, "store", req[r].ver, req[r].got)
    BY <1>2, <1>3, <1>4 DEF SpendCreds
  <1>h. \A saved \in BOOLEAN : SpendStore(r, saved) =>
        \/ Ends(r) /\ mu' = None /\ receipts' = receipts
        \/ /\ Goes(r, "dup", req[r].ver, req[r].got) /\ mu' = mu /\ req[r].dev \in recs
           /\ receipts' = Append(receipts, [chal |-> req[r].chal, got |-> req[r].got])
    BY <1>2, <1>3, <1>4 DEF SpendStore
  <1>i. RunRefused(r) => Ends(r) /\ mu' = IF mu = r THEN None ELSE mu
    BY <1>1 DEF RunRefused
  <1>j. RunDup(r) =>
        \/ Ends(r) /\ mu' = None /\ dup' = dup
        \/ /\ Goes(r, "exec", req[r].ver, req[r].got) /\ mu' = mu
           /\ Line(r) \notin dup /\ dup' = dup \cup {Line(r)}
    BY <1>2, <1>3, <1>4 DEF RunDup
  <1>k. \A answered \in BOOLEAN : RunExec(r, answered) => Ends(r) /\ mu' = None
    BY <1>4 DEF RunExec
  <1>l. ArmVerify(r) => (Ends(r) /\ mu' = mu) \/ (Goes(r, "armExec", req[r].ver, req[r].got) /\ mu' = r)
    BY <1>1, <1>2, <1>3 DEF ArmVerify
  <1>m. ArmExec(r) => Ends(r) /\ mu' = None
    BY <1>4 DEF ArmExec
  <1>n. Cascade(r) => Ends(r)
    BY <1>1 DEF Cascade
  <1> QED
    BY <1>a, <1>b, <1>c, <1>d, <1>e, <1>f, <1>g, <1>h, <1>i, <1>j, <1>k, <1>l, <1>m, <1>n

\* The steps that are about no request.
Elsewhere ==
    \/ \E c \in Chals : ChallengeExpires(c)
    \/ \E l \in Lines : DupLapses(l)
    \/ Resign \/ ElevationEnds
    \/ \E sha \in Shas : ArmLapses(sha)
    \/ UNCHANGED vars

\* Every step is one of these.
LEMMA NextIs ==
  [Next]_vars <=>
    \/ Elsewhere
    \/ \E r \in Requests :
        \/ Arrival(r)
        \/ ChallengeVerify(r) \/ ChallengeCreds(r) \/ \E c \in Chals : ChallengeStore(r, c)
        \/ RunVerify(r) \/ SpendTake(r) \/ SpendCaps(r) \/ SpendCreds(r)
        \/ \E saved \in BOOLEAN : SpendStore(r, saved)
        \/ RunRefused(r) \/ RunDup(r) \/ \E answered \in BOOLEAN : RunExec(r, answered)
        \/ ArmVerify(r) \/ ArmExec(r) \/ Cascade(r)
  BY DEF Next, Locked, Unlocked, Elsewhere

\* What a step does not touch stays as it was.
LEMMA ElsewhereKeeps ==
  Elsewhere => req' = req /\ mu' = mu /\ receipts' = receipts /\ started' = started /\ drawn' = drawn
               /\ revoked' = revoked /\ recs' = recs /\ tokens' = tokens
  BY DEF Elsewhere, ChallengeExpires, DupLapses, Resign, ElevationEnds, ArmLapses, vars, hist, world

\* What holds of one request whatever the others do.
Fine(r) ==
    /\ ~At(r, "idle") => req[r].dev \in Devices
    /\ req[r].pc \notin {"idle", "cascade"} => req[r].sha \in Shas
    /\ req[r].pc \in {"cCreds", "cStore", "take", "dup", "exec"} \cup Spending => req[r].ver \in Versions
    /\ req[r].pc \in {"take"} \cup Spending => req[r].chal \in Chals
    /\ req[r].pc \in Spending => req[r].got # None
    /\ req[r].got # None =>
        /\ req[r].pc \in Spending \cup {"dup", "exec"}
        /\ req[r].chal \in Chals
        /\ req[r].got.kind = req[r].kind /\ req[r].got.dev = req[r].dev
        /\ Sha[req[r].got.ver] = req[r].sha
    /\ req[r].pc \in {"store", "dup", "exec"} /\ req[r].got # None /\ req[r].kind = "line"
        => req[r].got.ver = req[r].ver

\* The invariant of the requests, request by request.
LEMMA AllFine == (\A r \in Requests : Fine(r)) <=> Knows /\ Fits /\ ReceiptIsFresh
  BY DEF Fine, Knows, Fits, ReceiptIsFresh

\* A step keeps every request fine.
LEMMA FineStep ==
  ASSUME Shape, Knows, Mutex, Fits, ReceiptIsFresh, [Next]_vars
  PROVE  Knows' /\ Mutex' /\ Fits' /\ ReceiptIsFresh'
  <1>0. /\ \A r \in Requests : Fine(r) /\ req[r] \in Slots /\ r # None
        /\ cur \in Versions
    BY AllFine DEF Shape
  <1>1. CASE Elsewhere
    BY <1>1, ElsewhereKeeps DEF Knows, Mutex, Fits, ReceiptIsFresh, At
  <1> DEFINE Good(r) == /\ Keeps(r) /\ Fine(r)' /\ (req'[r].pc \in UnderMu <=> mu' = r)
                        /\ \A q \in Requests \ {r} : mu' = q <=> mu = q
  <1>2. ASSUME NEW r \in Requests, Good(r) PROVE Knows' /\ Mutex' /\ Fits' /\ ReceiptIsFresh'
    <2>1. \A q \in Requests \ {r} : Fine(q)'
      BY <1>0, <1>2 DEF Fine, Keeps, At
    <2>2. Knows' /\ Fits' /\ ReceiptIsFresh'
      BY <1>2, <2>1 DEF Fine, Knows, Fits, ReceiptIsFresh
    <2>3. Mutex'
      BY <1>2 DEF Mutex, Keeps
    <2> QED
      BY <2>2, <2>3
  <1>3. ASSUME NEW r \in Requests, Ends(r), (mu' = mu /\ mu # r) \/ (mu' = None /\ mu = r) PROVE Good(r)
    <2>1. Fine(r)' /\ req'[r].pc \notin UnderMu
      BY <1>3, Records DEF Ends, Fine, At, UnderMu, Spending
    <2> QED
      BY <1>0, <1>3, <2>1 DEF Ends
  <1>4. ASSUME NEW r \in Requests, Goes(r, req'[r].pc, req'[r].ver, req'[r].got), Fine(r)',
               \/ mu' = mu /\ mu = r /\ req'[r].pc \in UnderMu
               \/ mu' = mu /\ mu # r /\ req'[r].pc \notin UnderMu
               \/ mu' = r /\ mu = None /\ req'[r].pc \in UnderMu
        PROVE  Good(r)
    BY <1>0, <1>4 DEF Goes
  <1>5. ASSUME NEW r \in Requests, Arrival(r) PROVE Good(r)
    <2>1. Comes(r) /\ mu' = mu
      BY <1>5, ComesWhenArrived DEF Arrival, AskChallenge, AskRun, AskArm, Revoke
    <2>2. Fine(r)'
      BY <2>1 DEF Comes, Fine, At, Spending
    <2>3. mu # r /\ req'[r].pc \notin UnderMu
      BY <2>1 DEF Comes, Mutex, UnderMu, At
    <2> QED
      BY <2>1, <2>2, <2>3 DEF Comes
  <1>6. ASSUME NEW r \in Requests,
               ChallengeVerify(r) \/ ChallengeCreds(r) \/ (\E c \in Chals : ChallengeStore(r, c)) \/ Cascade(r)
        PROVE  Good(r)
    <2>1. /\ mu' = mu
          /\ At(r, "cVerify") \/ At(r, "cCreds") \/ At(r, "cStore") \/ At(r, "cascade")
          /\ ChallengeVerify(r) => At(r, "cVerify")
          /\ ChallengeCreds(r) => At(r, "cCreds")
      BY <1>6 DEF ChallengeVerify, ChallengeCreds, ChallengeStore, Cascade
    <2>2. mu # r /\ req[r].got = None
      BY <1>0, <2>1 DEF Mutex, UnderMu, At, Fine, Spending
    <2>3. \/ Ends(r)
          \/ At(r, "cVerify") /\ Goes(r, "cCreds", cur, req[r].got)
          \/ At(r, "cCreds") /\ Goes(r, "cStore", req[r].ver, req[r].got)
      BY <1>6, <2>1, Moves
    <2>4. CASE ~Ends(r)
      <3>1. Fine(r)'
        BY <1>0, <2>2, <2>3, <2>4 DEF Goes, Fine, At, Spending
      <3> QED
        BY <1>4, <2>1, <2>2, <2>3, <2>4, <3>1 DEF Goes, UnderMu
    <2> QED
      BY <1>3, <2>1, <2>2, <2>4
  <1>7. ASSUME NEW r \in Requests, RunVerify(r) \/ ArmVerify(r) PROVE Good(r)
    <2>1. /\ mu = None /\ (At(r, "lock") \/ At(r, "armLock"))
          /\ RunVerify(r) => At(r, "lock")
      BY <1>7 DEF RunVerify, ArmVerify
    <2>2. req[r].got = None
      BY <1>0, <2>1 DEF At, Fine, Spending
    <2>3. \/ Ends(r) /\ mu' = mu
          \/ /\ At(r, "lock") /\ mu' = r
             /\ \/ Goes(r, "take", cur, req[r].got) /\ req[r].chal # None
                \/ Goes(r, "dup", cur, req[r].got)
          \/ mu' = r /\ Goes(r, "armExec", req[r].ver, req[r].got)
      BY <1>7, <2>1, Moves
    <2>4. CASE ~(Ends(r) /\ mu' = mu)
      <3>1. Fine(r)'
        BY <1>0, <2>1, <2>2, <2>3, <2>4 DEF Goes, Fine, At, Spending, Slots
      <3> QED
        BY <1>4, <2>1, <2>3, <2>4, <3>1 DEF Goes, UnderMu
    <2> QED
      BY <1>0, <1>3, <2>1, <2>4
  <1>8. ASSUME NEW r \in Requests,
               \/ SpendTake(r) \/ SpendCaps(r) \/ SpendCreds(r) \/ RunDup(r) \/ ArmExec(r)
               \/ \E saved \in BOOLEAN : SpendStore(r, saved)
               \/ \E answered \in BOOLEAN : RunExec(r, answered)
        PROVE  Good(r)
    <2>1. /\ mu = r
          /\ SpendTake(r) => At(r, "take")
          /\ SpendCaps(r) => At(r, "caps")
          /\ SpendCreds(r) => At(r, "creds")
          /\ (\E saved \in BOOLEAN : SpendStore(r, saved)) => At(r, "store")
          /\ RunDup(r) => At(r, "dup")
      BY <1>8 DEF SpendTake, SpendCaps, SpendCreds, SpendStore, RunDup, RunExec, ArmExec, Mutex, UnderMu, At
    <2>2. \/ Ends(r) /\ mu' = None
          \/ /\ At(r, "take") /\ chals[req[r].chal] \in Binding /\ chals[req[r].chal].dev = req[r].dev
             /\ Bound(chals[req[r].chal], req[r].kind, req[r].sha) /\ mu' = mu
             /\ Goes(r, "caps", req[r].ver, chals[req[r].chal])
          \/ At(r, "caps") /\ Goes(r, "creds", req[r].ver, req[r].got) /\ mu' = mu
          \/ /\ At(r, "creds") /\ Unchanged(req[r].got, req[r].kind, req[r].ver) /\ mu' = mu
             /\ Goes(r, "store", req[r].ver, req[r].got)
          \/ At(r, "store") /\ Goes(r, "dup", req[r].ver, req[r].got) /\ mu' = mu
          \/ At(r, "dup") /\ Goes(r, "exec", req[r].ver, req[r].got) /\ mu' = mu
      BY <1>8, <2>1, Moves
    <2>3. CASE At(r, "take") /\ ~(Ends(r) /\ mu' = None)
      <3> DEFINE ch == chals[req[r].chal]
      <3>0. /\ ch # None /\ ch.dev = req[r].dev /\ ch.kind = req[r].kind /\ Sha[ch.ver] = req[r].sha
            /\ Goes(r, "caps", req[r].ver, ch)
        BY <2>2, <2>3 DEF Bound, At
      <3> HIDE DEF ch
      <3>1. Fine(r)'
        BY <1>0, <2>3, <3>0 DEF Goes, Fine, At, Spending
      <3> QED
        BY <1>4, <2>1, <2>2, <2>3, <3>1 DEF Goes, UnderMu, At
    <2>4. CASE At(r, "creds") /\ ~(Ends(r) /\ mu' = None)
      <3>1. Fine(r)'
        BY <1>0, <2>2, <2>4 DEF Goes, Fine, At, Spending, Unchanged
      <3> QED
        BY <1>4, <2>1, <2>2, <2>4, <3>1 DEF Goes, UnderMu, At
    <2>5. CASE (At(r, "caps") \/ At(r, "store") \/ At(r, "dup")) /\ ~(Ends(r) /\ mu' = None)
      <3>1. Fine(r)'
        BY <1>0, <2>2, <2>5 DEF Goes, Fine, At, Spending
      <3> QED
        BY <1>4, <2>1, <2>2, <2>5, <3>1 DEF Goes, UnderMu, At
    <2> QED
      BY <1>3, <2>1, <2>2, <2>3, <2>4, <2>5
  <1>9. ASSUME NEW r \in Requests, RunRefused(r) PROVE Good(r)
    BY <1>3, <1>9, Moves
  <1> QED
    BY <1>1, <1>2, <1>5, <1>6, <1>7, <1>8, <1>9, NextIs

\* A request runs a line that exists.
LEMMA LinesAre == ASSUME Shape, NEW r \in Requests, req[r].sha \in Shas PROVE Line(r) \in Lines
  BY DEF Shape, Line, Lines, Slots

\* The types of what is not a request.
Rest ==
    /\ tokens \in SUBSET Devices /\ recs \in SUBSET Devices
    /\ chals \in [Chals -> Binding \cup {None}]
    /\ mu \in Requests \cup {None} /\ dup \in SUBSET Lines
    /\ cur \in Versions /\ armed \in SUBSET Shas /\ elevated \in BOOLEAN
    /\ drawn \in SUBSET Chals /\ receipts \in Seq(Receipts)
    /\ revoked \in SUBSET Devices /\ inWindow \in [Lines -> Nat]

\* Every step keeps the shape of the state.
LEMMA ShapeStep ==
  ASSUME Shape, Knows, [Next]_vars
  PROVE  Shape'
  <1>0. Rest
    BY DEF Shape, Rest
  <1> DEFINE Good == req' \in [Requests -> Slots] /\ Rest'
  <1>1. ASSUME Elsewhere PROVE Good
    <2>1. ASSUME NEW c \in Chals, ChallengeExpires(c) PROVE Good
      <3> DEFINE y == chals[c]
      <3> DEFINE x == [y EXCEPT !.expired = TRUE]
      <3>1. y \in Binding
        BY <1>0, <2>1 DEF ChallengeExpires, Rest
      <3>2. x \in Binding
        <4> HIDE DEF y
        <4> QED
          BY <3>1 DEF Binding
      <3>4. chals' = [chals EXCEPT ![c] = x]
        BY <2>1 DEF ChallengeExpires
      <3>3. chals' \in [Chals -> Binding \cup {None}]
        <4> HIDE DEF Good, x
        <4> QED
          BY <1>0, <3>2, <3>4 DEF Rest
      <3> QED
        BY <1>0, <2>1, <3>3 DEF ChallengeExpires, Rest, Shape, world, hist
    <2>2. ASSUME NEW l \in Lines, DupLapses(l) PROVE Good
      BY <1>0, <2>2 DEF DupLapses, Rest, Shape, world
    <2>3. ASSUME Resign PROVE Good
      BY <1>0, <2>3 DEF Resign, Rest, Shape, hist
    <2>4. ASSUME ElevationEnds PROVE Good
      BY <1>0, <2>4 DEF ElevationEnds, Rest, Shape, hist
    <2>5. ASSUME NEW sha \in Shas, ArmLapses(sha) PROVE Good
      BY <1>0, <2>5 DEF ArmLapses, Rest, Shape, hist
    <2>6. ASSUME UNCHANGED vars PROVE Good
      BY <1>0, <2>6 DEF vars, world, hist, Rest, Shape
    <2> QED
      BY <1>1, <2>1, <2>2, <2>3, <2>4, <2>5, <2>6 DEF Elsewhere
  <1>2. ASSUME NEW r \in Requests, Arrival(r) PROVE Good
    <2>1. Comes(r)
      BY <1>2, ComesWhenArrived
    <2>2. /\ UNCHANGED <<recs, chals, mu, dup, world, hist>>
          /\ tokens' = tokens \/ \E d \in Devices : tokens' = tokens \ {d}
      BY <1>2 DEF Arrival, AskChallenge, AskRun, AskArm, Revoke
    <2> QED
      BY <1>0, <2>1, <2>2 DEF Comes, Keeps, Rest, world, hist
  <1>3. ASSUME NEW r \in Requests, ChallengeVerify(r) \/ ChallengeCreds(r) PROVE Good
    <2>1. req' \in [Requests -> Slots]
      BY <1>3, Moves DEF Ends, Goes, Keeps
    <2> QED
      BY <1>0, <1>3, <2>1 DEF ChallengeVerify, ChallengeCreds, Rest, world, hist
  <1>4. ASSUME NEW r \in Requests, NEW c \in Chals, ChallengeStore(r, c) PROVE Good
    <2>1. req[r].dev \in Devices /\ req[r].ver \in Versions /\ req[r].kind \in Kinds
      BY <1>4 DEF ChallengeStore, At, Knows, Shape, Slots
    <2> DEFINE b == [kind |-> req[r].kind, dev |-> req[r].dev, ver |-> req[r].ver, expired |-> FALSE]
    <2>2. b \in Binding
      BY <2>1 DEF Binding
    <2>3. chals' = [x \in Chals |-> IF x = c THEN b
                                    ELSE IF chals[x] # None /\ chals[x].expired THEN None ELSE chals[x]]
      BY <1>4 DEF ChallengeStore
    <2>4. chals' \in [Chals -> Binding \cup {None}]
      <3> HIDE DEF b, Good
      <3> QED
        BY <1>0, <2>2, <2>3 DEF Rest
    <2>5. req' \in [Requests -> Slots]
      BY <1>4, Moves DEF Ends, Keeps
    <2> QED
      BY <1>0, <1>4, <2>4, <2>5 DEF ChallengeStore, Rest, world
  <1>5. ASSUME NEW r \in Requests, RunVerify(r) \/ ArmVerify(r) PROVE Good
    BY <1>0, <1>5, Moves DEF RunVerify, ArmVerify, Ends, Goes, Keeps, Rest, world, hist
  <1>6. ASSUME NEW r \in Requests, SpendTake(r) \/ SpendCaps(r) \/ SpendCreds(r) PROVE Good
    <2>1. /\ mu' = None \/ mu' = mu
          /\ req' \in [Requests -> Slots]
      BY <1>6, Moves DEF Ends, Goes, Keeps
    <2>2. /\ chals' = chals \/ chals' = [chals EXCEPT ![req[r].chal] = None]
          /\ UNCHANGED <<tokens, recs, dup, world, hist>>
      BY <1>6 DEF SpendTake, SpendCaps, SpendCreds
    <2> QED
      BY <1>0, <2>1, <2>2 DEF Rest, world, hist
  <1>7. ASSUME NEW r \in Requests, NEW saved \in BOOLEAN, SpendStore(r, saved) PROVE Good
    <2>1. /\ mu' = None \/ mu' = mu
          /\ req' \in [Requests -> Slots]
          /\ \/ receipts' = receipts
             \/ receipts' = Append(receipts, [chal |-> req[r].chal, got |-> req[r].got])
      BY <1>7, Moves DEF Ends, Goes, Keeps
    <2>2. req[r].chal \in Chals /\ req[r].got \in Binding
      BY <1>7 DEF SpendStore, At, Knows, Spending, Shape, Slots
    <2>3. receipts' \in Seq(Receipts)
      <3> DEFINE x == [chal |-> req[r].chal, got |-> req[r].got]
      <3>1. x \in Receipts
        BY <2>2 DEF Receipts
      <3> HIDE DEF x
      <3> QED
        BY <1>0, <2>1, <3>1 DEF Rest, x
    <2> QED
      BY <1>0, <1>7, <2>1, <2>3 DEF SpendStore, Rest, world
  <1>8. ASSUME NEW r \in Requests, RunRefused(r) \/ RunDup(r) PROVE Good
    <2>1. RunDup(r) => Line(r) \in Lines
      BY LinesAre DEF RunDup, At, Knows
    <2>2. /\ mu' = None \/ mu' = mu
          /\ req' \in [Requests -> Slots]
          /\ dup' = dup \/ dup' = dup \cup {Line(r)}
          /\ RunRefused(r) => dup' = dup
      BY <1>8, Moves DEF Ends, Goes, Keeps, RunRefused
    <2> QED
      BY <1>0, <1>8, <2>1, <2>2 DEF RunRefused, RunDup, Rest, world, hist
  <1>9. ASSUME NEW r \in Requests, NEW answered \in BOOLEAN, RunExec(r, answered) PROVE Good
    <2>1. Line(r) \in Lines
      BY <1>9, LinesAre DEF RunExec, At, Knows
    <2>2. /\ dup' = dup \/ dup' = dup \ {Line(r)}
          /\ \/ inWindow' = inWindow \/ inWindow' = [inWindow EXCEPT ![Line(r)] = 0]
             \/ inWindow' = [inWindow EXCEPT ![Line(r)] = @ + 1]
          /\ elevated' \in BOOLEAN
      BY <1>0, <1>9 DEF RunExec, Undup, Start, Rest
    <2>3. req' \in [Requests -> Slots] /\ mu' = None
      BY <1>9, Moves DEF Ends, Keeps
    <2>4. dup' \in SUBSET Lines /\ inWindow' \in [Lines -> Nat]
      BY <1>0, <2>1, <2>2 DEF Rest
    <2> QED
      BY <1>0, <1>9, <2>2, <2>3, <2>4 DEF RunExec, Rest
  <1>10. ASSUME NEW r \in Requests, ArmExec(r) \/ Cascade(r) PROVE Good
    <2>1. ArmExec(r) => req[r].sha \in Shas
      BY DEF ArmExec, At, Knows
    <2>2. Cascade(r) => req[r].dev \in Devices
      BY DEF Cascade, At, Knows
    <2>3. req' \in [Requests -> Slots] /\ (ArmExec(r) => mu' = None)
      BY <1>10, Moves DEF Ends, Keeps
    <2>4. ASSUME ArmExec(r) PROVE Good
      BY <1>0, <2>1, <2>3, <2>4 DEF ArmExec, Rest, hist
    <2>5. ASSUME Cascade(r) PROVE Good
      <3>1. chals' \in [Chals -> Binding \cup {None}]
        BY <1>0, <2>5 DEF Cascade, Rest
      <3> QED
        BY <1>0, <2>2, <2>3, <2>5, <3>1 DEF Cascade, Rest, world
    <2> QED
      BY <1>10, <2>4, <2>5
  <1> HIDE DEF Good
  <1>11. ASSUME NEW r \in Requests PROVE /\ (\E c \in Chals : ChallengeStore(r, c)) => Good
                                         /\ (\E saved \in BOOLEAN : SpendStore(r, saved)) => Good
                                         /\ (\E answered \in BOOLEAN : RunExec(r, answered)) => Good
    BY <1>4, <1>7, <1>9, Zenon
  <1>12. Good
    BY <1>1, <1>2, <1>3, <1>5, <1>6, <1>8, <1>10, <1>11, NextIs
  <1> QED
    BY <1>12 DEF Rest, Shape, Good

-----------------------------------------------------------------------------
(* What is started, and under which assertion. *)

Starts(r) ==
    /\ At(r, "exec") /\ RunnerAccepts(r) /\ Ends(r) /\ receipts' = receipts
    /\ started' = started \cup {[kind |-> req[r].kind, dev |-> req[r].dev, ver |-> cur,
                                 chal |-> req[r].chal, got |-> req[r].got]}

Receives(r) ==
    /\ At(r, "store") /\ req[r].dev \in recs
    /\ Goes(r, "dup", req[r].ver, req[r].got)
    /\ receipts' = Append(receipts, [chal |-> req[r].chal, got |-> req[r].got])

\* Only the runner starts anything, and only a stored sign count makes a receipt.
LEMMA History ==
  ASSUME Shape, Knows, [Next]_vars
  PROVE  /\ started' = started \/ \E r \in Requests : Starts(r)
         /\ receipts' = receipts \/ \E r \in Requests : Receives(r) /\ started' = started
         /\ receipts' = receipts \/ UNCHANGED <<revoked, recs, chals>>
  <1> DEFINE Good == /\ started' = started \/ \E r \in Requests : Starts(r)
                     /\ receipts' = receipts \/ \E r \in Requests : Receives(r) /\ started' = started
                     /\ receipts' = receipts \/ UNCHANGED <<revoked, recs, chals>>
  <1>1. ASSUME Elsewhere PROVE Good
    BY <1>1, ElsewhereKeeps
  <1>2. ASSUME NEW r \in Requests, Arrival(r) PROVE Good
    BY <1>2 DEF Arrival, AskChallenge, AskRun, AskArm, Revoke, hist
  <1>3. ASSUME NEW r \in Requests, NEW saved \in BOOLEAN, SpendStore(r, saved) PROVE Good
    <2>1. receipts' = receipts \/ Receives(r)
      BY <1>3, Moves DEF SpendStore, Receives
    <2> QED
      BY <1>3, <2>1 DEF SpendStore
  <1>4. ASSUME NEW r \in Requests, NEW answered \in BOOLEAN, RunExec(r, answered) PROVE Good
    <2>1. Ends(r)
      BY <1>4, Moves
    <2>2. started' = started \/ Starts(r)
      BY <1>4, <2>1 DEF RunExec, Start, Starts
    <2> QED
      BY <1>4, <2>2 DEF RunExec
  <1>5. ASSUME NEW r \in Requests,
               \/ ChallengeVerify(r) \/ ChallengeCreds(r) \/ (\E c \in Chals : ChallengeStore(r, c))
               \/ RunVerify(r) \/ SpendTake(r) \/ SpendCaps(r) \/ SpendCreds(r) \/ RunRefused(r)
               \/ RunDup(r) \/ ArmVerify(r) \/ ArmExec(r) \/ Cascade(r)
        PROVE  Good
    BY <1>5 DEF ChallengeVerify, ChallengeCreds, ChallengeStore, RunVerify, SpendTake, SpendCaps, SpendCreds,
                RunRefused, RunDup, ArmVerify, ArmExec, Cascade, hist
  <1> HIDE DEF Good
  <1>6. ASSUME NEW r \in Requests PROVE /\ (\E saved \in BOOLEAN : SpendStore(r, saved)) => Good
                                        /\ (\E answered \in BOOLEAN : RunExec(r, answered)) => Good
    BY <1>3, <1>4, Zenon
  <1>7. Good
    BY <1>1, <1>2, <1>5, <1>6, NextIs
  <1> QED
    BY <1>7 DEF Good

\* Receipts are only added.
LEMMA ReceiptsGrow ==
  ASSUME Shape, Knows, [Next]_vars
  PROVE  /\ DOMAIN receipts \subseteq DOMAIN receipts'
         /\ \A i \in DOMAIN receipts : receipts'[i] = receipts[i]
         /\ \A i \in DOMAIN receipts' \ DOMAIN receipts :
              \E r \in Requests : Receives(r) /\ receipts'[i] = [chal |-> req[r].chal, got |-> req[r].got]
         /\ \A i, j \in DOMAIN receipts' \ DOMAIN receipts : i = j
  <1>1. CASE receipts' = receipts
    BY <1>1
  <1>2. ASSUME NEW r \in Requests, Receives(r)
        PROVE  /\ receipts \in Seq(Receipts) /\ [chal |-> req[r].chal, got |-> req[r].got] \in Receipts
               /\ receipts' = Append(receipts, [chal |-> req[r].chal, got |-> req[r].got])
    BY <1>2 DEF Receives, Shape, Knows, At, Slots, Spending, Receipts
  <1>3. ASSUME NEW r \in Requests, Receives(r)
        PROVE  /\ DOMAIN receipts' = DOMAIN receipts \cup {Len(receipts) + 1}
               /\ \A i \in DOMAIN receipts : receipts'[i] = receipts[i]
               /\ receipts'[Len(receipts) + 1] = [chal |-> req[r].chal, got |-> req[r].got]
    <2> DEFINE x == [chal |-> req[r].chal, got |-> req[r].got]
    <2>1. receipts \in Seq(Receipts) /\ x \in Receipts /\ receipts' = Append(receipts, x)
      BY <1>2, <1>3
    <2> HIDE DEF x
    <2>2. /\ DOMAIN receipts' = DOMAIN receipts \cup {Len(receipts) + 1}
          /\ \A i \in DOMAIN receipts : receipts'[i] = receipts[i]
          /\ receipts'[Len(receipts) + 1] = x
      BY <2>1
    <2> QED
      BY <2>2 DEF x
  <1> QED
    BY <1>1, <1>3, History

\* A start is what the sheet showed.
LEMMA StartedStep ==
  ASSUME Shape, Knows, Fits, StartedAsShown, [Next]_vars
  PROVE  StartedAsShown'
  <1>1. ASSUME NEW r \in Requests, Starts(r),
               NEW t, t = [kind |-> req[r].kind, dev |-> req[r].dev, ver |-> cur,
                           chal |-> req[r].chal, got |-> req[r].got], t.got # None
        PROVE  /\ t.got.kind = t.kind /\ t.got.dev = t.dev
               /\ Sha[t.ver] = Sha[t.got.ver]
               /\ t.kind = "line" => Par[t.ver] = Par[t.got.ver]
    BY <1>1 DEF Starts, RunnerAccepts, Fits
  <1> QED
    BY <1>1, History DEF StartedAsShown, Starts

\* The credential of a revoked device is gone, so nothing more is accepted of it.
LEMMA RevokedStep ==
  ASSUME Shape, Knows, RevokedHaveNone, [Next]_vars
  PROVE  RevokedHaveNone'
  <1>1. ASSUME Elsewhere PROVE UNCHANGED <<recs, revoked>>
    BY <1>1, ElsewhereKeeps
  <1>2. ASSUME NEW r \in Requests, Cascade(r) PROVE RevokedHaveNone'
    BY <1>2 DEF Cascade, RevokedHaveNone
  <1>3. ASSUME NEW r \in Requests,
               \/ Arrival(r)
               \/ ChallengeVerify(r) \/ ChallengeCreds(r) \/ (\E c \in Chals : ChallengeStore(r, c))
               \/ RunVerify(r) \/ SpendTake(r) \/ SpendCaps(r) \/ SpendCreds(r) \/ RunRefused(r)
               \/ (\E saved \in BOOLEAN : SpendStore(r, saved))
               \/ (\E answered \in BOOLEAN : RunExec(r, answered))
               \/ RunDup(r) \/ ArmVerify(r) \/ ArmExec(r)
        PROVE  UNCHANGED <<recs, revoked>>
    BY <1>3 DEF Arrival, AskChallenge, AskRun, AskArm, Revoke, ChallengeVerify, ChallengeCreds, ChallengeStore,
                RunVerify, SpendTake, SpendCaps, SpendCreds, SpendStore, RunRefused, RunDup, RunExec, ArmVerify,
                ArmExec, hist
  <1> QED
    BY <1>1, <1>2, <1>3, NextIs DEF RevokedHaveNone

\* A revoked token makes no receipt.
LEMMA NoReceiptStep ==
  ASSUME Shape, Knows, Fits, RevokedHaveNone, [Next]_vars
  PROVE  \A i \in DOMAIN receipts' \ DOMAIN receipts : receipts'[i].got.dev \notin revoked
  <1>1. ASSUME NEW r \in Requests, Receives(r) PROVE req[r].got.dev \notin revoked
    BY <1>1 DEF Receives, Fits, Knows, At, Spending, RevokedHaveNone
  <1> QED
    BY <1>1, ReceiptsGrow

-----------------------------------------------------------------------------
(* A challenge is in one place. *)

\* Only the request under the mutex has a challenge in hand, and it takes it out of the open ones.
LEMMA HandStep ==
  ASSUME Shape, Knows, Mutex, Fits, ReceiptIsFresh, [Next]_vars, NEW c \in Chals, InHand(c)'
  PROVE  \/ InHand(c) /\ receipts' = receipts
         \/ \E r \in Requests : SpendTake(r) /\ req[r].chal = c /\ chals[c] # None
  <1>1. PICK q \in Requests : req'[q].chal = c /\ req'[q].got # None /\ req'[q].pc \in Spending
    BY DEF InHand
  <1>2. ASSUME req'[q] = req[q] PROVE InHand(c) /\ receipts' = receipts
    <2>1. req[q].pc \in Spending /\ InHand(c)
      BY <1>1, <1>2 DEF InHand
    <2>2. receipts' = receipts
      <3>1. SUFFICES ASSUME NEW r \in Requests, Receives(r) PROVE FALSE
        BY History
      <3>2. mu = r /\ mu = q
        BY <2>1, <3>1 DEF Receives, Mutex, UnderMu, Spending, At
      <3> QED
        BY <1>1, <1>2, <2>1, <3>1, <3>2 DEF Receives, Goes, Spending
    <2> QED
      BY <2>1, <2>2
  <1>3. ASSUME Ends(q) PROVE FALSE
    BY <1>1, <1>3, Records DEF Ends
  <1>4. ASSUME NEW r \in Requests, r # q, Ends(r) \/ Comes(r) \/ Goes(r, req'[r].pc, req'[r].ver, req'[r].got)
        PROVE  req'[q] = req[q]
    BY <1>4 DEF Ends, Comes, Goes, Keeps
  <1>5. ASSUME NEW r \in Requests, Arrival(r) PROVE req'[q] = req[q]
    <2>1. Comes(r)
      BY <1>5, ComesWhenArrived
    <2> QED
      BY <1>1, <1>4, <2>1 DEF Comes
  <1>6. ASSUME NEW r \in Requests,
               \/ ChallengeVerify(r) \/ ChallengeCreds(r) \/ (\E x \in Chals : ChallengeStore(r, x))
               \/ RunVerify(r) \/ RunRefused(r) \/ RunDup(r) \/ ArmVerify(r) \/ ArmExec(r) \/ Cascade(r)
               \/ (\E saved \in BOOLEAN : SpendStore(r, saved))
               \/ (\E answered \in BOOLEAN : RunExec(r, answered))
        PROVE  req'[q] = req[q]
    <2>1. \/ Ends(r)
          \/ /\ req'[r].pc \notin Spending
             /\ Goes(r, req'[r].pc, req'[r].ver, req'[r].got)
      BY <1>6, Moves DEF Goes, Spending
    <2> QED
      BY <1>1, <1>3, <1>4, <2>1
  <1>7. ASSUME NEW r \in Requests, SpendCaps(r) \/ SpendCreds(r)
        PROVE  req'[q] = req[q] \/ (InHand(c) /\ receipts' = receipts)
    <2>1. Ends(r) \/ Goes(r, req'[r].pc, req'[r].ver, req[r].got)
      BY <1>7, Moves DEF Goes
    <2>2. CASE r # q
      BY <1>4, <2>1, <2>2 DEF Goes
    <2>3. CASE r = q
      <3>1. req[q].chal = c /\ req[q].got # None
        BY <1>1, <1>3, <2>1, <2>3 DEF Goes
      <3>2. req[q].pc \in Spending
        BY <1>7, <2>3 DEF SpendCaps, SpendCreds, At, Spending
      <3> QED
        BY <1>7, <3>1, <3>2 DEF InHand, SpendCaps, SpendCreds, hist
    <2> QED
      BY <2>2, <2>3
  <1>8. ASSUME NEW r \in Requests, SpendTake(r)
        PROVE  \/ req'[q] = req[q]
               \/ \E x \in Requests : SpendTake(x) /\ req[x].chal = c /\ chals[c] # None
    <2>1. \/ Ends(r)
          \/ /\ Goes(r, "caps", req[r].ver, chals[req[r].chal])
             /\ chals[req[r].chal] \in Binding
      BY <1>8, Moves
    <2>2. CASE r # q
      <3>1. Ends(r) \/ Goes(r, req'[r].pc, req'[r].ver, req'[r].got)
        BY <2>1 DEF Goes
      <3> QED
        BY <1>4, <2>2, <3>1
    <2>3. CASE r = q
      <3>1. req[r].chal = c /\ chals[c] # None
        BY <1>1, <1>3, <2>1, <2>3 DEF Goes
      <3> QED
        BY <1>8, <3>1
    <2> QED
      BY <2>2, <2>3
  <1>9. ASSUME Elsewhere PROVE req'[q] = req[q]
    BY <1>9, ElsewhereKeeps
  <1> QED
    BY <1>2, <1>5, <1>6, <1>7, <1>8, <1>9, NextIs

\* A receipt comes of the assertion that was checked.
LEMMA ReceiptStep ==
  ASSUME Shape, Knows, [Next]_vars, NEW c \in Chals
  PROVE  /\ InReceipts(c) => InReceipts(c)'
         /\ InReceipts(c)' => InReceipts(c) \/ InHand(c)
         /\ \A i \in DOMAIN receipts' \ DOMAIN receipts : receipts'[i].chal = c => InHand(c)
  <1>1. ASSUME NEW r \in Requests, Receives(r) PROVE InHand(req[r].chal)
    BY <1>1 DEF Receives, InHand, Knows, At, Spending
  <1>2. \A i \in DOMAIN receipts' \ DOMAIN receipts : receipts'[i].chal = c => InHand(c)
    BY <1>1, ReceiptsGrow
  <1> QED
    BY <1>2, ReceiptsGrow DEF InReceipts

\* A challenge that is open was not used.
LEMMA OpenStep ==
  ASSUME Shape, Knows, [Next]_vars, NEW c \in Chals
  PROVE  /\ drawn \subseteq drawn'
         /\ c \in drawn' /\ c \notin drawn => \E r \in Requests : ChallengeStore(r, c)
         /\ chals'[c] # None => chals[c] # None \/ (c \notin drawn /\ c \in drawn')
  <1> DEFINE Good == /\ drawn \subseteq drawn'
                     /\ c \in drawn' /\ c \notin drawn => \E r \in Requests : ChallengeStore(r, c)
                     /\ chals'[c] # None => chals[c] # None \/ (c \notin drawn /\ c \in drawn')
  <1>0. chals \in [Chals -> Binding \cup {None}]
    BY DEF Shape
  <1>1. ASSUME NEW r \in Requests, NEW x \in Chals, ChallengeStore(r, x) PROVE Good
    BY <1>0, <1>1 DEF ChallengeStore
  <1>2. ASSUME NEW r \in Requests, SpendTake(r) \/ Cascade(r) PROVE Good
    <2>1. drawn' = drawn /\ (chals'[c] # None => chals[c] # None)
      BY <1>0, <1>2 DEF SpendTake, Cascade, hist
    <2> QED
      BY <2>1
  <1>3. ASSUME NEW x \in Chals, ChallengeExpires(x) PROVE Good
    BY <1>0, <1>3 DEF ChallengeExpires, hist
  <1>4. ASSUME \/ \E l \in Lines : DupLapses(l)
               \/ Resign \/ ElevationEnds
               \/ \E sha \in Shas : ArmLapses(sha)
               \/ UNCHANGED vars
        PROVE  Good
    BY <1>4 DEF DupLapses, Resign, ElevationEnds, ArmLapses, vars, hist
  <1>5. ASSUME NEW r \in Requests,
               \/ Arrival(r)
               \/ ChallengeVerify(r) \/ ChallengeCreds(r)
               \/ RunVerify(r) \/ SpendCaps(r) \/ SpendCreds(r) \/ RunRefused(r)
               \/ (\E saved \in BOOLEAN : SpendStore(r, saved))
               \/ (\E answered \in BOOLEAN : RunExec(r, answered))
               \/ RunDup(r) \/ ArmVerify(r) \/ ArmExec(r)
        PROVE  UNCHANGED <<drawn, chals>>
    BY <1>5 DEF Arrival, AskChallenge, AskRun, AskArm, Revoke, ChallengeVerify, ChallengeCreds,
                RunVerify, SpendCaps, SpendCreds, SpendStore, RunRefused, RunDup, RunExec, ArmVerify,
                ArmExec, hist
  <1>6. UNCHANGED <<drawn, chals>> => Good
    OBVIOUS
  <1> HIDE DEF Good
  <1>7. Good
    BY <1>1, <1>2, <1>3, <1>4, <1>5, <1>6, NextIs DEF Elsewhere
  <1> QED
    BY <1>7 DEF Good

\* A challenge is used once.
LEMMA OnceStep ==
  ASSUME Shape, Knows, Mutex, Fits, ReceiptIsFresh, Once, [Next]_vars
  PROVE  Once'
  <1>1. ASSUME NEW i \in DOMAIN receipts', NEW j \in DOMAIN receipts', receipts'[i].chal = receipts'[j].chal
        PROVE  i = j
    <2>0. \A k \in DOMAIN receipts : receipts'[k] = receipts[k] /\ receipts[k].chal \in Chals
      <3>1. receipts \in Seq(Receipts)
        BY DEF Shape
      <3>2. \A k \in DOMAIN receipts : receipts[k] \in Receipts
        <4> HIDE DEF Receipts
        <4> QED
          BY <3>1
      <3>3. \A k \in DOMAIN receipts : receipts[k].chal \in Chals
        BY <3>2 DEF Receipts
      <3> QED
        BY <3>3, ReceiptsGrow
    <2>1. CASE i \in DOMAIN receipts /\ j \in DOMAIN receipts
      BY <1>1, <2>0, <2>1 DEF Once
    <2>2. CASE i \in DOMAIN receipts /\ j \notin DOMAIN receipts
      <3>1. InHand(receipts[i].chal)
        BY <1>1, <2>0, <2>2, ReceiptStep
      <3> QED
        BY <2>0, <2>2, <3>1 DEF Once, InReceipts
    <2>3. CASE i \notin DOMAIN receipts /\ j \in DOMAIN receipts
      <3>1. InHand(receipts[j].chal)
        BY <1>1, <2>0, <2>3, ReceiptStep
      <3> QED
        BY <2>0, <2>3, <3>1 DEF Once, InReceipts
    <2>4. CASE i \notin DOMAIN receipts /\ j \notin DOMAIN receipts
      BY <2>4, ReceiptsGrow
    <2> QED
      BY <2>1, <2>2, <2>3, <2>4
  <1>2. ASSUME NEW c \in Chals
        PROVE  /\ chals'[c] # None \/ InHand(c)' \/ InReceipts(c)' => c \in drawn'
               /\ InHand(c)' \/ InReceipts(c)' => chals'[c] = None
               /\ ~(InHand(c)' /\ InReceipts(c)')
    <2>1. /\ chals[c] # None \/ InHand(c) \/ InReceipts(c) => c \in drawn
          /\ InHand(c) \/ InReceipts(c) => chals[c] = None
          /\ ~(InHand(c) /\ InReceipts(c))
      BY DEF Once
    <2>2. /\ drawn \subseteq drawn'
          /\ chals'[c] # None => chals[c] # None \/ (c \notin drawn /\ c \in drawn')
          /\ InReceipts(c)' => InReceipts(c) \/ InHand(c)
      BY OpenStep, ReceiptStep
    <2>3. CASE ~InHand(c)'
      BY <2>1, <2>2, <2>3
    <2>4. CASE InHand(c) /\ receipts' = receipts
      BY <2>1, <2>2, <2>4 DEF InReceipts
    <2>5. ASSUME NEW r \in Requests, SpendTake(r), req[r].chal = c, chals[c] # None
          PROVE  chals'[c] = None /\ receipts' = receipts /\ chals[c] # None
      BY <2>5 DEF SpendTake, Shape, hist
    <2>6. CASE chals'[c] = None /\ receipts' = receipts /\ chals[c] # None
      BY <2>1, <2>2, <2>6 DEF InReceipts
    <2> QED
      BY <2>3, <2>4, <2>5, <2>6, HandStep
  <1> QED
    BY <1>1, <1>2 DEF Once, InHand, InReceipts

-----------------------------------------------------------------------------
(* Who may start. *)

\* A request enters the steps of a start without an assertion, or with a receipt just made.
LEMMA EntersStart ==
  ASSUME Shape, Knows, Mutex, Fits, ReceiptIsFresh, [Next]_vars,
         NEW q \in Requests, req'[q].pc \in {"dup", "exec"}
  PROVE  \/ req[q].pc \in {"dup", "exec"} /\ started' = started
            /\ req'[q].kind = req[q].kind /\ req'[q].sha = req[q].sha /\ req'[q].chal = req[q].chal
            /\ req'[q].ver = req[q].ver /\ req'[q].got = req[q].got
         \/ /\ req'[q].got = None /\ req'[q].kind = "line" /\ Sha[req'[q].ver] = req'[q].sha
            /\ Class[req'[q].ver] \notin PasskeyClasses
         \/ /\ Receives(q) /\ started' = started
            /\ req'[q].chal = req[q].chal /\ req'[q].got = req[q].got /\ req[q].got # None
  <1> DEFINE Same == /\ req[q].pc \in {"dup", "exec"} /\ started' = started
                     /\ req'[q].kind = req[q].kind /\ req'[q].sha = req[q].sha /\ req'[q].chal = req[q].chal
                     /\ req'[q].ver = req[q].ver /\ req'[q].got = req[q].got
             Free == /\ req'[q].got = None /\ req'[q].kind = "line" /\ Sha[req'[q].ver] = req'[q].sha
                     /\ Class[req'[q].ver] \notin PasskeyClasses
             Paid == /\ Receives(q) /\ started' = started
                     /\ req'[q].chal = req[q].chal /\ req'[q].got = req[q].got /\ req[q].got # None
  <1>1. ASSUME req'[q] = req[q] PROVE Same
    <2>1. started' = started
      <3>1. SUFFICES ASSUME NEW r \in Requests, Starts(r) PROVE FALSE
        BY History
      <3>2. mu = r /\ mu = q
        BY <1>1, <3>1 DEF Starts, Mutex, UnderMu, At
      <3> QED
        BY <1>1, <3>1, <3>2, Records DEF Starts, Ends
    <2> QED
      BY <1>1, <2>1
  <1>2. ASSUME Ends(q) PROVE FALSE
    BY <1>2, Records DEF Ends
  <1>3. ASSUME NEW r \in Requests, r # q, Keeps(r) PROVE Same
    BY <1>1, <1>3 DEF Keeps
  <1>4. ASSUME Elsewhere PROVE Same
    BY <1>1, <1>4, ElsewhereKeeps
  <1>5. ASSUME NEW r \in Requests, Arrival(r) PROVE Same
    BY <1>3, <1>5, ComesWhenArrived DEF Comes
  <1>6. ASSUME NEW r \in Requests,
               \/ ChallengeVerify(r) \/ ChallengeCreds(r) \/ (\E x \in Chals : ChallengeStore(r, x))
               \/ SpendCaps(r) \/ SpendCreds(r) \/ RunRefused(r)
               \/ (\E answered \in BOOLEAN : RunExec(r, answered))
               \/ SpendTake(r) \/ ArmVerify(r) \/ ArmExec(r) \/ Cascade(r)
        PROVE  Same
    <2>1. Keeps(r) /\ (Ends(r) \/ req'[r].pc \notin {"dup", "exec"})
      BY <1>6, Moves DEF Goes, Ends
    <2> QED
      BY <1>2, <1>3, <2>1
  <1>7. ASSUME NEW r \in Requests, RunDup(r) PROVE Same
    <2>1. Ends(r) \/ Goes(r, "exec", req[r].ver, req[r].got)
      BY <1>7, Moves
    <2>2. CASE r # q
      BY <1>3, <2>1, <2>2 DEF Ends, Goes
    <2>3. CASE r = q
      BY <1>2, <1>7, <2>1, <2>3 DEF Goes, RunDup, At, hist
    <2> QED
      BY <2>2, <2>3
  <1>8. ASSUME NEW r \in Requests, RunVerify(r) PROVE Same \/ Free
    <2>1. \/ Ends(r)
          \/ Goes(r, "take", cur, req[r].got)
          \/ /\ ~NeedsPasskey(req[r].kind, cur) /\ MayStart(req[r].kind, cur, req[r].sha, req[r].dev)
             /\ Goes(r, "dup", cur, req[r].got)
      BY <1>8, Moves
    <2>2. CASE r # q
      BY <1>3, <2>1, <2>2 DEF Ends, Goes
    <2>3. CASE r = q
      <3>1. /\ ~NeedsPasskey(req[r].kind, cur) /\ MayStart(req[r].kind, cur, req[r].sha, req[r].dev)
            /\ Goes(r, "dup", cur, req[r].got)
        BY <1>2, <2>1, <2>3 DEF Goes
      <3>2. req[r].got = None /\ req[r].kind \in Kinds
        BY <1>8 DEF RunVerify, Fits, At, Spending, Shape, Slots
      <3>3. req[r].kind = "line" /\ Sha[cur] = req[r].sha /\ Class[cur] \notin PasskeyClasses
        BY <3>1, <3>2 DEF NeedsPasskey, MayStart, Kinds
      <3> QED
        BY <2>3, <3>1, <3>2, <3>3 DEF Goes
    <2> QED
      BY <2>2, <2>3
  <1>9. ASSUME NEW r \in Requests, NEW saved \in BOOLEAN, SpendStore(r, saved) PROVE Same \/ Paid
    <2>1. Ends(r) \/ Receives(r)
      BY <1>9, Moves DEF Receives, SpendStore
    <2>2. CASE r # q
      BY <1>3, <2>1, <2>2 DEF Ends, Receives, Goes
    <2>3. CASE r = q
      BY <1>2, <1>9, <2>1, <2>3 DEF Receives, Goes, SpendStore, Knows, Spending, At
    <2> QED
      BY <2>2, <2>3
  <1> HIDE DEF Same, Free, Paid
  <1>10. ASSUME NEW r \in Requests PROVE (\E saved \in BOOLEAN : SpendStore(r, saved)) => Same \/ Paid
    BY <1>9, Zenon
  <1>11. Same \/ Free \/ Paid
    BY <1>4, <1>5, <1>6, <1>7, <1>8, <1>10, NextIs
  <1> QED
    BY <1>11 DEF Same, Free, Paid

\* Who starts a run was entitled to it.
LEMMA EntitledStep ==
  ASSUME Shape, Knows, Mutex, Fits, ReceiptIsFresh, Once, Entitled, StartsAuthorised, [Next]_vars
  PROVE  Entitled'
  <1>1. SUFFICES ASSUME NEW q \in Requests, req'[q].pc \in {"dup", "exec"}
                 PROVE  IF req'[q].got = None
                        THEN /\ req'[q].kind = "line" /\ Sha[req'[q].ver] = req'[q].sha
                             /\ Class[req'[q].ver] \notin PasskeyClasses
                        ELSE /\ \E i \in DOMAIN receipts' :
                                  receipts'[i] = [chal |-> req'[q].chal, got |-> req'[q].got]
                             /\ \A t \in started' : t.got # None => t.chal # req'[q].chal
    BY DEF Entitled
  <1>2. CASE /\ req[q].pc \in {"dup", "exec"} /\ started' = started
             /\ req'[q].kind = req[q].kind /\ req'[q].sha = req[q].sha /\ req'[q].chal = req[q].chal
             /\ req'[q].ver = req[q].ver /\ req'[q].got = req[q].got
    <2>1. CASE req[q].got = None
      BY <1>2, <2>1 DEF Entitled
    <2>2. CASE req[q].got # None
      <3>1. PICK i \in DOMAIN receipts : receipts[i] = [chal |-> req[q].chal, got |-> req[q].got]
        BY <1>2, <2>2 DEF Entitled
      <3>2. i \in DOMAIN receipts' /\ receipts'[i] = [chal |-> req[q].chal, got |-> req[q].got]
        BY <3>1, ReceiptsGrow
      <3>3. \A t \in started : t.got # None => t.chal # req[q].chal
        BY <1>2, <2>2 DEF Entitled
      <3> QED
        BY <1>2, <2>2, <3>2, <3>3
    <2> QED
      BY <2>1, <2>2
  <1>3. CASE /\ Receives(q) /\ started' = started
             /\ req'[q].chal = req[q].chal /\ req'[q].got = req[q].got /\ req[q].got # None
    <2>1. \E i \in DOMAIN receipts' : receipts'[i] = [chal |-> req[q].chal, got |-> req[q].got]
      <3> DEFINE x == [chal |-> req[q].chal, got |-> req[q].got]
      <3>1. receipts \in Seq(Receipts) /\ receipts' = Append(receipts, x) /\ x \in Receipts
        BY <1>3 DEF Receives, Shape, Knows, At, Slots, Spending, Receipts
      <3> HIDE DEF x
      <3>2. Len(receipts) + 1 \in DOMAIN receipts' /\ receipts'[Len(receipts) + 1] = x
        BY <3>1
      <3> QED
        BY <3>2 DEF x
    <2>2. InHand(req[q].chal) /\ req[q].chal \in Chals
      BY <1>3 DEF Receives, InHand, At, Spending, Knows
    <2>3. ASSUME NEW t \in started, t.got # None PROVE t.chal # req[q].chal
      <3>1. PICK i \in DOMAIN receipts : receipts[i] = [chal |-> t.chal, got |-> t.got]
        BY <2>3 DEF StartsAuthorised
      <3>2. receipts[i].chal = t.chal
        BY <3>1
      <3> QED
        BY <2>2, <3>2 DEF Once, InReceipts
    <2> QED
      BY <1>3, <2>1, <2>3
  <1> QED
    BY <1>1, <1>2, <1>3, EntersStart

\* One assertion starts one thing.
LEMMA AuthorisedStep ==
  ASSUME Shape, Knows, Mutex, Fits, Entitled, StartsAuthorised, [Next]_vars
  PROVE  StartsAuthorised'
  <1>1. ASSUME started' = started PROVE StartsAuthorised'
    <2>1. ASSUME NEW t, \E i \in DOMAIN receipts : receipts[i] = [chal |-> t.chal, got |-> t.got]
          PROVE  \E i \in DOMAIN receipts' : receipts'[i] = [chal |-> t.chal, got |-> t.got]
      BY <2>1, ReceiptsGrow
    <2> QED
      BY <1>1, <2>1 DEF StartsAuthorised
  <1>2. ASSUME NEW r \in Requests, Starts(r) PROVE StartsAuthorised'
    <2> DEFINE n == [kind |-> req[r].kind, dev |-> req[r].dev, ver |-> cur, chal |-> req[r].chal, got |-> req[r].got]
    <2>1. /\ receipts' = receipts /\ started' = started \cup {n}
          /\ n.kind = req[r].kind /\ n.ver = cur /\ n.chal = req[r].chal /\ n.got = req[r].got
          /\ Sha[cur] = req[r].sha /\ req[r].pc = "exec" /\ req[r].ver \in Versions
      BY <1>2 DEF Starts, At, RunnerAccepts, Knows
    <2> HIDE DEF n
    <2>2. CASE req[r].got = None
      <3>1. /\ n.got = None /\ n.kind = "line"
            /\ \E v \in Versions : Sha[v] = Sha[n.ver] /\ Class[v] \notin PasskeyClasses
        BY <2>1, <2>2 DEF Entitled
      <3> QED
        BY <2>1, <3>1 DEF StartsAuthorised
    <2>3. CASE req[r].got # None
      <3>1. /\ \E i \in DOMAIN receipts : receipts[i] = [chal |-> n.chal, got |-> n.got]
            /\ \A t \in started : t.got # None => t.chal # n.chal
        BY <2>1, <2>3 DEF Entitled
      <3> QED
        BY <2>1, <2>3, <3>1 DEF StartsAuthorised
    <2> QED
      BY <2>2, <2>3
  <1> QED
    BY <1>1, <1>2, History

-----------------------------------------------------------------------------
(* The duplicate mark. *)

\* A mark says what was run.
LEMMA MarksStep ==
  ASSUME Shape, Knows, Mutex, Marks, [Next]_vars
  PROVE  Marks'
  <1>0. /\ inWindow \in [Lines -> Nat] /\ dup \in SUBSET Lines
        /\ \A l \in Lines \ dup : inWindow[l] = 0
        /\ \A l \in dup : inWindow[l] \in {0, 1}
        /\ \A r \in Requests : req[r].pc = "exec" /\ Line(r) \in dup => inWindow[Line(r)] = 0
        /\ \A l \in dup : inWindow[l] = 1 \/ \E r \in Requests : req[r].pc = "exec" /\ Line(r) = l
    BY DEF Marks, MarkMeansStarted, Shape, At
  <1>1. ASSUME NEW r \in Requests, Keeps(r), req[r].pc # "exec", req'[r].pc # "exec", UNCHANGED <<dup, inWindow>>
        PROVE  Marks'
    <2>1. \A q \in Requests : /\ req'[q].pc = "exec" <=> req[q].pc = "exec"
                              /\ req'[q].pc = "exec" => Line(q)' = Line(q)
      BY <1>1 DEF Keeps, Line
    <2> QED
      BY <1>0, <1>1, <2>1 DEF Marks, MarkMeansStarted, At
  <1>2. ASSUME UNCHANGED <<dup, inWindow>>, req' = req PROVE Marks'
    BY <1>2 DEF Marks, MarkMeansStarted, At, Line
  <1>3. ASSUME NEW l \in Lines, DupLapses(l) PROVE Marks'
    <2>1. /\ req' = req /\ dup' = dup \ {l} /\ inWindow' = [inWindow EXCEPT ![l] = 0]
          /\ \A q \in Requests : Line(q)' = Line(q)
      BY <1>3 DEF DupLapses, Line
    <2> QED
      BY <1>0, <2>1 DEF Marks, MarkMeansStarted, At
  <1>4. ASSUME \/ \E c \in Chals : ChallengeExpires(c)
               \/ Resign \/ ElevationEnds
               \/ \E sha \in Shas : ArmLapses(sha)
               \/ UNCHANGED vars
        PROVE  Marks'
    BY <1>2, <1>4 DEF ChallengeExpires, Resign, ElevationEnds, ArmLapses, vars, hist
  <1>5. ASSUME NEW r \in Requests, Arrival(r) PROVE Marks'
    <2>1. Comes(r) /\ UNCHANGED <<dup, inWindow>>
      BY <1>5, ComesWhenArrived DEF Arrival, AskChallenge, AskRun, AskArm, Revoke, hist
    <2> QED
      BY <1>1, <2>1 DEF Comes, At
  <1>6. ASSUME NEW r \in Requests,
               \/ ChallengeVerify(r) \/ ChallengeCreds(r) \/ (\E x \in Chals : ChallengeStore(r, x))
               \/ RunVerify(r) \/ SpendTake(r) \/ SpendCaps(r) \/ SpendCreds(r) \/ RunRefused(r)
               \/ (\E saved \in BOOLEAN : SpendStore(r, saved))
               \/ ArmVerify(r) \/ ArmExec(r) \/ Cascade(r)
        PROVE  Marks'
    <2>1. Keeps(r) /\ req'[r].pc # "exec"
      BY <1>6, Moves, Records DEF Goes, Ends
    <2>2. req[r].pc # "exec" /\ UNCHANGED <<dup, inWindow>>
      BY <1>6 DEF ChallengeVerify, ChallengeCreds, ChallengeStore, RunVerify, SpendTake, SpendCaps, SpendCreds,
                  SpendStore, RunRefused, ArmVerify, ArmExec, Cascade, hist, At
    <2> QED
      BY <1>1, <2>1, <2>2
  <1>7. ASSUME NEW r \in Requests, RunDup(r) PROVE Marks'
    <2>1. /\ req[r].pc = "dup" /\ inWindow' = inWindow
          /\ Line(r) \in Lines
      BY <1>7, LinesAre DEF RunDup, hist, At, Knows
    <2>2. CASE Ends(r) /\ dup' = dup
      BY <1>1, <2>1, <2>2, Records DEF Ends
    <2>3. CASE Goes(r, "exec", req[r].ver, req[r].got) /\ Line(r) \notin dup /\ dup' = dup \cup {Line(r)}
      <3>1. /\ req'[r].pc = "exec"
            /\ \A q \in Requests : Line(q)' = Line(q) /\ (q # r => req'[q] = req[q])
        BY <2>3 DEF Goes, Keeps, Line
      <3>2. \A q \in Requests \ {r} : req[q].pc # "exec"
        BY <2>1 DEF Mutex, UnderMu
      <3> QED
        BY <1>0, <2>1, <2>3, <3>1, <3>2 DEF Marks, MarkMeansStarted, At
    <2> QED
      BY <1>7, <2>2, <2>3, Moves
  <1>8. ASSUME NEW r \in Requests, NEW answered \in BOOLEAN, RunExec(r, answered) PROVE Marks'
    <2>1. /\ req[r].pc = "exec" /\ Line(r) \in Lines /\ Ends(r)
          /\ \/ /\ inWindow' = IF Line(r) \in dup THEN [inWindow EXCEPT ![Line(r)] = @ + 1] ELSE inWindow
                /\ dup' = dup
             \/ dup' = dup \ {Line(r)} /\ inWindow' = [inWindow EXCEPT ![Line(r)] = 0]
      BY <1>8, LinesAre, Moves DEF RunExec, At, Knows, Undup
    <2>2. \A q \in Requests : req'[q].pc # "exec"
      <3>1. \A q \in Requests \ {r} : req[q].pc # "exec"
        BY <2>1 DEF Mutex, UnderMu
      <3> QED
        BY <2>1, <3>1, Records DEF Ends, Keeps
    <2>3. \A l \in dup : l # Line(r) => inWindow[l] = 1
      BY <1>0, <2>1 DEF Mutex, UnderMu
    <2>4. /\ \A l \in Lines \ dup' : inWindow'[l] = 0
          /\ \A l \in dup' : inWindow'[l] = 1
      BY <1>0, <2>1, <2>3
    <2> QED
      BY <2>2, <2>4 DEF Marks, MarkMeansStarted, At
  <1>9. ASSUME NEW r \in Requests PROVE (\E answered \in BOOLEAN : RunExec(r, answered)) => Marks'
    BY <1>8, Zenon
  <1> QED
    BY <1>3, <1>4, <1>5, <1>6, <1>7, <1>9, NextIs DEF Elsewhere

-----------------------------------------------------------------------------
\* The invariant holds at the start.
LEMMA InitInv == Init => Inv
  <1> SUFFICES ASSUME Init PROVE Inv
    OBVIOUS
  <1>1. \A r \in Requests : req[r] = Idle
    BY DEF Init
  <1>2. receipts = <<>> /\ receipts \in Seq(Receipts) /\ DOMAIN receipts = {}
    BY DEF Init
  <1>3. Shape
    BY <1>2, Records DEF Init, Shape
  <1>4. Knows /\ Mutex /\ Fits /\ ReceiptIsFresh
    BY <1>1, Records DEF Init, Knows, Mutex, Fits, ReceiptIsFresh, At, Spending, UnderMu
  <1>5. Once /\ Entitled
    BY <1>1, <1>2, Records DEF Init, Once, InHand, InReceipts, Entitled
  <1>6. StartedAsShown /\ StartsAuthorised /\ RevokedHaveNone
    BY DEF Init, StartedAsShown, StartsAuthorised, RevokedHaveNone
  <1>7. Marks
    BY <1>1, Records DEF Init, Marks, MarkMeansStarted, At
  <1> QED
    BY <1>3, <1>4, <1>5, <1>6, <1>7 DEF Inv

\* Every step keeps the invariant.
LEMMA NextInv == Inv /\ [Next]_vars => Inv'
  BY ShapeStep, FineStep, StartedStep, OnceStep, EntitledStep, AuthorisedStep, MarksStep, RevokedStep DEF Inv

\* The invariant holds throughout.
LEMMA Invariant == Spec => []Inv
  BY InitInv, NextInv, PTL DEF Spec

\* Every variable has its type.
THEOREM TypeCorrect == Spec => []TypeOK
  <1>1. Inv => TypeOK
    BY Records DEF Inv
  <1> QED
    BY Invariant, <1>1, PTL

\* What carries a duplicate mark was started or is being started, and only once.
THEOREM MarkThm == Spec => []MarkIsTrue
  <1>1. Inv => MarkIsTrue
    BY DEF Inv, Marks, MarkIsTrue, DoubleTapStartsOnce
  <1> QED
    BY Invariant, <1>1, PTL

\* What a passkey start runs is what the sheet of its challenge showed, to the caller it was drawn for.
THEOREM StartedThm == Spec => []StartedAsShown
  <1>1. Inv => StartedAsShown
    BY DEF Inv
  <1> QED
    BY Invariant, <1>1, PTL

\* A line is authorised under the signature that was verified with it.
THEOREM FreshThm == Spec => []ReceiptIsFresh
  <1>1. Inv => ReceiptIsFresh
    BY DEF Inv
  <1> QED
    BY Invariant, <1>1, PTL

\* One Face ID starts one thing, and nothing that needs one starts without.
THEOREM AuthorisedThm == Spec => []StartsAuthorised
  <1>1. Inv => StartsAuthorised
    BY DEF Inv
  <1> QED
    BY Invariant, <1>1, PTL

\* No assertion of a device is accepted once its revoke is over.
THEOREM NoReceiptThm == Spec => NoReceiptAfterRevoke
  <1>1. Inv /\ [Next]_vars =>
          [\A i \in DOMAIN receipts' \ DOMAIN receipts : receipts'[i].got.dev \notin revoked]_vars
    BY NoReceiptStep DEF Inv
  <1> QED
    BY Invariant, <1>1, PTL DEF Spec, NoReceiptAfterRevoke

-----------------------------------------------------------------------------
(* A challenge implements the one-shot secret. *)

Yielded == {[proof |-> receipts[i].chal, product |-> i] : i \in DOMAIN receipts}
Products == 1..Cardinality(Chals)

\* A receipt's index is a product: no challenge has two.
LEMMA ReceiptsFit == Shape /\ Once => DOMAIN receipts \subseteq Products
  <1> SUFFICES ASSUME Shape, Once PROVE DOMAIN receipts \subseteq Products
    OBVIOUS
  <1> DEFINE f == [i \in 1..Len(receipts) |-> receipts[i].chal]
  <1>1. Len(receipts) \in Nat /\ DOMAIN receipts = 1..Len(receipts)
    BY DEF Shape
  <1>2. \A i \in 1..Len(receipts) : receipts[i].chal \in Chals
    <2>1. \A i \in 1..Len(receipts) : receipts[i] \in Receipts
      BY DEF Shape
    <2> QED
      BY <2>1 DEF Receipts
  <1>3. f \in Injection(1..Len(receipts), Chals)
    BY <1>1, <1>2 DEF Once, Injection, IsInjective
  <1> HIDE DEF f
  <1>4. Cardinality(1..Len(receipts)) <= Cardinality(Chals)
    BY <1>3, ChalsAssumption, FS_Injection
  <1>5. Cardinality(1..Len(receipts)) = Len(receipts)
    BY <1>1, FS_Interval
  <1>6. Cardinality(Chals) \in Nat
    BY ChalsAssumption, FS_CardinalityType
  <1> QED
    BY <1>1, <1>4, <1>5, <1>6 DEF Products

\* Where a challenge stands, before and after a step.
LEMMA StageIs ==
  ASSUME NEW c \in Chals
  PROVE  /\ Stage[c] = IF InReceipts(c) THEN "used" ELSE IF c \notin drawn THEN "new"
                       ELSE IF chals[c] # None \/ InHand(c) THEN "live" ELSE "dead"
         /\ Stage'[c] = IF InReceipts(c)' THEN "used" ELSE IF c \notin drawn' THEN "new"
                        ELSE IF chals'[c] # None \/ InHand(c)' THEN "live" ELSE "dead"
  BY DEF Stage, InReceipts, InHand, Spending

\* What a step yields.
LEMMA YieldedStep ==
  ASSUME Shape, Knows, Once, [Next]_vars, NEW c \in Chals
  PROVE  /\ ~(~InReceipts(c) /\ InReceipts(c)') => {y \in Yielded' : y.proof = c} = {y \in Yielded : y.proof = c}
         /\ ~InReceipts(c) /\ InReceipts(c)' =>
              \E i \in DOMAIN receipts' : {y \in Yielded' : y.proof = c} = {[proof |-> c, product |-> i]}
  <1>1. \A i \in DOMAIN receipts : i \in DOMAIN receipts' /\ receipts'[i] = receipts[i]
    BY ReceiptsGrow
  <1>2. \A i, j \in DOMAIN receipts' \ DOMAIN receipts : i = j
    BY ReceiptsGrow
  <1>3. \A y : y \in Yielded /\ y.proof = c <=>
               \E i \in DOMAIN receipts : receipts[i].chal = c /\ y = [proof |-> c, product |-> i]
    BY DEF Yielded
  <1>4. \A y : y \in Yielded' /\ y.proof = c <=>
               \E i \in DOMAIN receipts' : receipts'[i].chal = c /\ y = [proof |-> c, product |-> i]
    BY DEF Yielded
  <1>5. CASE \A i \in DOMAIN receipts' \ DOMAIN receipts : receipts'[i].chal # c
    <2>1. \A y : y \in Yielded' /\ y.proof = c <=> y \in Yielded /\ y.proof = c
      BY <1>1, <1>3, <1>4, <1>5
    <2>2. InReceipts(c)' => InReceipts(c)
      BY <1>1, <1>5 DEF InReceipts
    <2> QED
      BY <2>1, <2>2
  <1>6. ASSUME NEW i \in DOMAIN receipts' \ DOMAIN receipts, receipts'[i].chal = c
        PROVE  /\ ~InReceipts(c) /\ InReceipts(c)'
               /\ {y \in Yielded' : y.proof = c} = {[proof |-> c, product |-> i]}
    <2>1. ~InReceipts(c)
      BY <1>6, ReceiptStep DEF Once
    <2>2. \A j \in DOMAIN receipts' : receipts'[j].chal = c <=> j = i
      BY <1>1, <1>2, <1>6, <2>1 DEF InReceipts
    <2> QED
      BY <1>4, <1>6, <2>1, <2>2 DEF InReceipts
  <1> QED
    BY <1>5, <1>6

\* How a step moves a challenge.
LEMMA StageStep ==
  ASSUME Inv, [Next]_vars, NEW c \in Chals
  PROVE  /\ Stage[c] = "used" => Stage'[c] = "used"
         /\ Stage[c] = "dead" => Stage'[c] = "dead"
         /\ Stage[c] = "new" => Stage'[c] \in {"new", "live", "dead"}
         /\ Stage[c] = "live" => Stage'[c] \in {"live", "used", "dead"}
         /\ Stage[c] = "live" /\ Stage'[c] = "used" <=> ~InReceipts(c) /\ InReceipts(c)'
  <1>1. /\ chals[c] # None \/ InHand(c) \/ InReceipts(c) => c \in drawn
        /\ InReceipts(c) => InReceipts(c)'
        /\ InReceipts(c)' => InReceipts(c) \/ InHand(c)
        /\ drawn \subseteq drawn'
        /\ chals'[c] # None => chals[c] # None \/ (c \notin drawn /\ c \in drawn')
    BY ReceiptStep, OpenStep DEF Inv, Once
  <1>2. InHand(c)' => InHand(c) \/ chals[c] # None
    BY HandStep DEF Inv
  <1> QED
    BY <1>1, <1>2, StageIs

\* Every step is a step of the one-shot secret, or none.
LEMMA Implements ==
  ASSUME Inv, Inv', [Next]_vars
  PROVE  [Challenge!Next]_<<Stage, Yielded>>
  <1>0. DOMAIN receipts' \subseteq Products
    <2>1. (Shape /\ Once)'
      BY DEF Inv
    <2>2. (DOMAIN receipts \subseteq Products)'
      BY <2>1, ReceiptsFit, PTL
    <2> QED
      BY <2>2
  <1>1. Stage' \in [Chals -> Challenge!Stages]
    <2>1. \A c \in Chals : Stage'[c] \in Challenge!Stages
      BY StageIs DEF Challenge!Stages
    <2>2. Stage' = [c \in Chals |-> Stage'[c]]
      BY DEF Stage
    <2> QED
      BY <2>1, <2>2
  <1>2. Yielded' \in SUBSET [proof : Chals, product : Products]
    <2>2. \A i \in DOMAIN receipts' : receipts'[i].chal \in Chals
      <3>1. \A i \in DOMAIN receipts' : receipts'[i] \in Receipts
        BY DEF Inv, Shape
      <3> QED
        BY <3>1 DEF Receipts
    <2> QED
      BY <1>0, <2>2 DEF Yielded
  <1>3. ASSUME NEW c \in Chals
        PROVE  \/ /\ Stage'[c] = Stage[c] \/ <<Stage[c], Stage'[c]>> \in Challenge!Moves \ {<<"live", "used">>}
                  /\ {y \in Yielded' : y.proof = c} = {y \in Yielded : y.proof = c}
               \/ /\ Stage[c] = "live" /\ Stage'[c] = "used"
                  /\ \E p \in Products : {y \in Yielded' : y.proof = c} = {[proof |-> c, product |-> p]}
    <2>1. Stage[c] \in {"new", "live", "used", "dead"}
      BY StageIs
    <2>2. CASE ~(Stage[c] = "live" /\ Stage'[c] = "used")
      <3>1. Stage'[c] = Stage[c] \/ <<Stage[c], Stage'[c]>> \in Challenge!Moves \ {<<"live", "used">>}
        BY <2>1, <2>2, StageStep DEF Challenge!Moves
      <3>2. {y \in Yielded' : y.proof = c} = {y \in Yielded : y.proof = c}
        BY <2>2, StageStep, YieldedStep DEF Inv
      <3> QED
        BY <3>1, <3>2
    <2>3. CASE Stage[c] = "live" /\ Stage'[c] = "used"
      <3>1. \E i \in DOMAIN receipts' : {y \in Yielded' : y.proof = c} = {[proof |-> c, product |-> i]}
        BY <2>3, StageStep, YieldedStep DEF Inv
      <3> QED
        BY <1>0, <2>3, <3>1
    <2> QED
      BY <2>2, <2>3
  <1> QED
    BY <1>1, <1>2, <1>3, Zenon DEF Challenge!Next, Challenge!Yield, Yielded, Products

\* A challenge is spent by its first presentation and gives at most one receipt: the challenges
\* implement the one-shot secret.
THEOREM ChallengeOneShot == Spec => ChallengeIsOneShot
  <1>1. Init => Challenge!Init
    BY DEF Init, Challenge!Init, Stage, Idle
  <1>2. Inv /\ Inv' /\ [Next]_vars => [Challenge!Next]_<<Stage, Yielded>>
    BY Implements
  <1> QED
    BY <1>1, <1>2, Invariant, PTL DEF Spec, ChallengeIsOneShot, Challenge!Spec, Yielded

=============================================================================
