------------------------- MODULE PasskeyEnrolProofs -------------------------
(***************************************************************************)
(* Proofs about PasskeyEnrol, for any devices, requests, codes,            *)
(* credentials and limit of wrong tries:                                   *)
(*   - type correctness;                                                   *)
(*   - a proof of presence is in one place, and stores one credential;     *)
(*   - a code locked out stores none, and a code stores one only for the   *)
(*     device that showed it first;                                        *)
(*   - the code file is the live code, which has a timer to end it;        *)
(*   - what survives on disk: a token leaves its file only by a revoke,    *)
(*     and a credential only after its token did;                          *)
(*   - of the offers of MCPasskeyEnrol, that each is in one place, is left *)
(*     by a refusal, and is redeemed once;                                 *)
(*   - of its runs, what TowerRunProofs shows.                             *)
(***************************************************************************)
EXTENDS MCPasskeyEnrol, Sequences, FiniteSetTheorems, TLAPS

USE MaxFailsAssumption, DistinctAssumption

-----------------------------------------------------------------------------
(* Type correctness.  That wrong stays at most MaxFails needs what relates  *)
(* it to the live code's own counter.                                       *)

\* The history agrees with the live code's counter, and starts at the issue.
WrongIsFails ==
    /\ code # NoCode => wrong[code.val] = code.fails
    /\ \A c \in Codes : clock[c] = "unissued" => wrong[c] = 0 /\ code.val # c

\* A request in flight is of some device.
BusyHasDevice == \A r \in Requests : req[r].pc # "idle" => req[r].dev \in Devices

TypeInv == TypeOK /\ WrongIsFails /\ BusyHasDevice

ReqRecords == [pc : Steps, dev : Devices \cup {None}, shown : Shown, reg : Lease]

\* The types hold at the start.
LEMMA TypeInit == Init => TypeInv
<1> SUFFICES ASSUME Init PROVE TypeInv
  OBVIOUS
<1>1. TokTypeOK
  BY DEF Init, TokInit, TokTypeOK
<1>2. Idle \in ReqRecords
  BY DEF Idle, Steps, Shown, Lease, ReqRecords
<1>3. TypeOK
  <2>1. /\ code = NoCode /\ codeFile = NoVal /\ leftover = FALSE
        /\ recs = {} /\ recFile = {} /\ unread = {} /\ enrolled = {}
        /\ clock = [c \in Codes |-> "unissued"]
        /\ pairs = [d \in Devices |-> "none"] /\ regs = [d \in Devices |-> "none"]
        /\ req = [r \in Requests |-> Idle]
        /\ wrong = [c \in Codes |-> 0] /\ first = [c \in Codes |-> None]
    BY DEF Init
  <2>2. wrong \in [Codes -> 0..MaxFails]
    BY <2>1
  <2>3. req \in [Requests -> ReqRecords]
    BY <1>2, <2>1
  <2> QED
    BY <1>1, <2>1, <2>2, <2>3 DEF TypeOK, Lease, ReqRecords
<1>4. WrongIsFails
  BY DEF Init, WrongIsFails, NoCode
<1>5. BusyHasDevice
  BY DEF Init, Idle, BusyHasDevice
<1> QED
  BY <1>3, <1>4, <1>5 DEF TypeInv

\* What a check may change keeps its type.
CheckTypes ==
    /\ code \in LiveCodes \cup {NoCode}
    /\ codeFile \in Codes \cup {NoVal} /\ leftover \in BOOLEAN
    /\ clock \in [Codes -> {"unissued", "armed", "due", "off"}]
    /\ pairs \in [Devices -> Lease]
    /\ wrong \in [Codes -> 0..MaxFails]
    /\ first \in [Codes -> Devices \cup {None}]
    /\ WrongIsFails

\* What the hub holds as a live code.
LEMMA LiveCodeType ==
    ASSUME CheckTypes, code # NoCode
    PROVE  /\ code \in LiveCodes
           /\ code.val \in Codes /\ code.fails \in 0..MaxFails - 1 /\ code.dev \in Devices \cup {None}
           /\ wrong[code.val] = code.fails /\ clock[code.val] # "unissued"
<1>1. code \in LiveCodes
  BY DEF CheckTypes
<1>2. /\ code.val \in Codes /\ code.fails \in 0..MaxFails - 1
      /\ code.dev \in Devices \cup {None}
  BY <1>1 DEF LiveCodes
<1> QED
  BY <1>1, <1>2 DEF CheckTypes, WrongIsFails

\* No code is told from every code.
LEMMA NoCodeFacts == NoCode.val = NoVal /\ NoCode \notin LiveCodes /\ NoVal \notin Codes
  BY DEF NoCode, LiveCodes

\* A void changes the code and its timers, within their types.
LEMMA VoidCodeType ==
    ASSUME CheckTypes, VoidCode, UNCHANGED <<clock, pairs, first>>,
           wrong' \in [Codes -> 0..MaxFails],
           \A c \in Codes : clock[c] = "unissued" => wrong'[c] = 0
    PROVE  CheckTypes'
<1>1. code' = NoCode /\ codeFile' \in {NoVal, codeFile} /\ leftover' \in BOOLEAN
  BY DEF VoidCode
<1>2. WrongIsFails'
  BY <1>1, NoCodeFacts DEF WrongIsFails
<1> QED
  BY <1>1, <1>2 DEF CheckTypes

\* A right guess keeps the types.
LEMMA CodeRightType ==
    ASSUME CheckTypes, NEW s \in Codes, NEW d \in Devices, NEW consume \in BOOLEAN,
           CodeRight(s, d, consume), UNCHANGED <<clock, pairs>>
    PROVE  CheckTypes'
<1>1. code.val = s /\ code # NoCode
  BY NoCodeFacts DEF CodeRight, CodeMatches
<1>2. first' \in [Codes -> Devices \cup {None}] /\ UNCHANGED wrong
  BY DEF CodeRight, CheckTypes
<1>3. CASE VoidCode
  BY <1>2, <1>3 DEF VoidCode, CheckTypes, WrongIsFails, NoCode
<1>4. CASE code' = [val |-> s, fails |-> code.fails, dev |-> d] /\ UNCHANGED <<codeFile, leftover>>
  <2>1. code' \in LiveCodes
    BY <1>1, <1>4, LiveCodeType DEF LiveCodes
  <2>2. code'.val = code.val /\ code'.fails = code.fails
    BY <1>1, <1>4
  <2>3. WrongIsFails'
    BY <1>1, <1>2, <2>2, LiveCodeType DEF WrongIsFails, CheckTypes
  <2> QED
    BY <1>2, <1>4, <2>1, <2>3 DEF CheckTypes
<1> QED
  BY <1>3, <1>4 DEF CodeRight

\* A wrong guess keeps the types.
LEMMA CodeWrongType ==
    ASSUME CheckTypes, NEW s \in Codes, NEW d \in Devices,
           CodeWrong(s, d), UNCHANGED <<clock, pairs>>
    PROVE  CheckTypes'
<1>1. code # NoCode /\ wrong' = [wrong EXCEPT ![code.val] = @ + 1] /\ UNCHANGED first
  BY DEF CodeWrong
<1>2. /\ wrong' \in [Codes -> 0..MaxFails]
      /\ wrong'[code.val] = code.fails + 1
      /\ \A c \in Codes : clock[c] = "unissued" => wrong'[c] = 0
  BY <1>1, LiveCodeType DEF CheckTypes, WrongIsFails
<1>3. CASE VoidCode
  BY <1>1, <1>2, <1>3, VoidCodeType
<1>4. CASE /\ ~LocksOut(code.fails + 1)
           /\ code' = [val |-> code.val, fails |-> code.fails + 1, dev |-> code.dev]
           /\ UNCHANGED <<codeFile, leftover>>
  <2>1. code' \in LiveCodes
    BY <1>1, <1>4, LiveCodeType DEF LiveCodes, LocksOut
  <2>2. code'.val = code.val /\ code'.fails = code.fails + 1
    BY <1>4
  <2>3. WrongIsFails'
    BY <1>1, <1>2, <2>2, LiveCodeType DEF WrongIsFails, CheckTypes
  <2> QED
    BY <1>1, <1>2, <1>4, <2>1, <2>3 DEF CheckTypes
<1> QED
  BY <1>3, <1>4 DEF CodeWrong

\* Every check of an enrol code or of a grant preserves the types of what it may change.
LEMMA CheckEnrolType ==
    ASSUME CheckTypes, NEW s \in Shown, NEW d \in Devices, NEW consume \in BOOLEAN,
           CheckEnrol(s, d, consume)
    PROVE  CheckTypes'
<1>1. CASE s = Empty
  BY <1>1 DEF CheckEnrol, CheckGrant, CheckTypes, WrongIsFails, NoCode, LiveCodes, Lease
<1>2. CASE s # Empty
  <2>0. CheckCode(s, d, consume) /\ UNCHANGED <<clock, pairs>>
    BY <1>2 DEF CheckEnrol, CheckCode
  <2>1. CASE UNCHANGED <<code, codeFile, leftover, wrong, first>>
    BY <2>0, <2>1 DEF CheckTypes, WrongIsFails
  <2>2. CASE VoidCode /\ UNCHANGED <<wrong, first>>
    BY <2>0, <2>2, VoidCodeType DEF CheckTypes, WrongIsFails
  <2>3. CASE CodeRight(s, d, consume)
    BY <2>0, <2>3, <1>2, CodeRightType DEF Shown
  <2>4. CASE CodeWrong(s, d)
    BY <2>0, <2>4, <1>2, CodeWrongType DEF Shown
  <2> QED
    BY <2>0, <2>1, <2>2, <2>3, <2>4 DEF CheckCode
<1> QED
  BY <1>1, <1>2

\* What the steps of a request do to its slot.
SlotTypes == req \in [Requests -> ReqRecords] /\ BusyHasDevice

\* The slots a request can be in.
LEMMA SlotFacts ==
    ASSUME SlotTypes, NEW r \in Requests
    PROVE  /\ req[r].pc \in Steps /\ req[r].dev \in Devices \cup {None}
           /\ req[r].shown \in Shown /\ req[r].reg \in Lease
           /\ req[r].pc # "idle" => req[r].dev \in Devices
<1>1. req[r] \in ReqRecords
  BY DEF SlotTypes
<1> QED
  BY <1>1 DEF ReqRecords, SlotTypes, BusyHasDevice

\* A request that is over.
LEMMA DoneType ==
    ASSUME SlotTypes, NEW r \in Requests, Done(r)
    PROVE  SlotTypes'
<1>1. Idle \in ReqRecords /\ Idle.pc = "idle"
  BY DEF Idle, Steps, Shown, Lease, ReqRecords
<1>2. req' = [req EXCEPT ![r] = Idle]
  BY DEF Done
<1> QED
  BY <1>1, <1>2 DEF SlotTypes, BusyHasDevice

\* A request that goes on.
LEMMA GotoType ==
    ASSUME SlotTypes, NEW r \in Requests, NEW step \in Steps, Goto(r, step), ~At(r, "idle")
    PROVE  SlotTypes'
  BY DEF Goto, SlotTypes, ReqRecords, At, BusyHasDevice

\* A request that comes.
LEMMA StartType ==
    ASSUME SlotTypes, NEW r \in Requests, NEW step \in Steps, NEW d \in Devices, NEW s \in Shown,
           Start(r, step, d, s)
    PROVE  SlotTypes'
<1>1. [pc |-> step, dev |-> d, shown |-> s, reg |-> "none"] \in ReqRecords
  BY DEF ReqRecords, Lease
<1>2. req' = [req EXCEPT ![r] = [pc |-> step, dev |-> d, shown |-> s, reg |-> "none"]]
  BY DEF Start
<1> QED
  BY <1>1, <1>2 DEF SlotTypes, BusyHasDevice

\* The token store keeps its types, saved or not.
LEMMA SaveTokensType ==
    ASSUME TokTypeOK, NEW new \in SUBSET Devices, NEW saved \in BOOLEAN, SaveTokens(new, saved),
           UNCHANGED loadErr, minted' \in SUBSET Devices
    PROVE  TokTypeOK'
  BY DEF SaveTokens, TokTypeOK

\* TypeInv in the parts an action may disturb one at a time.
RestTypes ==
    /\ regs \in [Devices -> Lease]
    /\ recs \in SUBSET Records /\ recFile \in SUBSET Records /\ unread \in SUBSET Records
    /\ enrolled \in SUBSET [proof : Codes \cup Devices, product : Records]

TypeParts == CheckTypes /\ TokTypeOK /\ RestTypes /\ SlotTypes

\* The type invariant by its parts.
LEMMA TypePartsEq == (TypeInv <=> TypeParts) /\ (TypeInv' <=> TypeParts')
  BY DEF TypeInv, TypeOK, TypeParts, CheckTypes, RestTypes, SlotTypes, ReqRecords

\* A step that leaves the tables alone.
LEMMA Kept ==
    ASSUME TypeParts
    PROVE  /\ UNCHANGED <<code, codeFile, leftover, clock, pairs, wrong, first>> => CheckTypes'
           /\ UNCHANGED tokVars => TokTypeOK'
           /\ UNCHANGED <<regs, recs, recFile, unread, enrolled>> => RestTypes'
           /\ UNCHANGED req => SlotTypes'
<1>1. UNCHANGED <<code, codeFile, leftover, clock, pairs, wrong, first>> => CheckTypes'
  BY DEF TypeParts, CheckTypes, WrongIsFails
<1>2. UNCHANGED tokVars => TokTypeOK'
  BY DEF TypeParts, TokTypeOK, tokVars
<1>3. UNCHANGED <<regs, recs, recFile, unread, enrolled>> => RestTypes'
  BY DEF TypeParts, RestTypes
<1>4. UNCHANGED req => SlotTypes'
  BY DEF TypeParts, SlotTypes, BusyHasDevice
<1> QED
  BY <1>1, <1>2, <1>3, <1>4

\* A mint keeps the types.
LEMMA MintType ==
    ASSUME TokTypeOK, NEW d \in Devices, NEW saved \in BOOLEAN, Mint(d, saved)
    PROVE  TokTypeOK'
  BY SaveTokensType DEF Mint, TokTypeOK

-----------------------------------------------------------------------------
\* Every step keeps the types.
LEMMA TypeStep == TypeInv /\ [Next]_vars => TypeInv'
<1> SUFFICES ASSUME TypeParts, [Next]_vars PROVE TypeParts'
  BY TypePartsEq
<1>0. CheckTypes /\ TokTypeOK /\ RestTypes /\ SlotTypes
  BY DEF TypeParts
<1>1. CASE UNCHANGED vars
  BY <1>1, Kept DEF vars, hubVars, histVars, TypeParts
(* Tokens. *)
<1>2. ASSUME NEW d \in Devices, NEW saved \in BOOLEAN, MintDirect(d, saved)
      PROVE  TypeParts'
  BY <1>0, <1>2, MintType, Kept DEF MintDirect, hubVars, histVars, TypeParts
<1>3. ASSUME NEW r \in Requests, NEW d \in Devices, NEW saved \in BOOLEAN, MintPaired(r, d, saved)
      PROVE  TypeParts'
  <2>1. SlotTypes'
    BY <1>0, <1>3, StartType, Kept DEF MintPaired, Steps, Shown
  <2> QED
    BY <1>0, <1>3, <2>1, MintType, Kept DEF MintPaired, hubVars, histVars, TypeParts
<1>4. ASSUME NEW r \in Requests, NEW d \in Devices, NEW saved \in BOOLEAN, Revoke(r, d, saved)
      PROVE  TypeParts'
  <2>1. SlotTypes'
    BY <1>0, <1>4, StartType, Kept DEF Revoke, Steps, Shown
  <2>2. TokTypeOK'
    BY <1>0, <1>4, SaveTokensType DEF Revoke, RevokeToken, TokTypeOK
  <2> QED
    BY <1>4, <2>1, <2>2, Kept DEF Revoke, hubVars, histVars, TypeParts
<1>5. ASSUME NEW r \in Requests, NEW saved \in BOOLEAN, Cascade(r, saved)
      PROVE  TypeParts'
  <2>1. SlotTypes' /\ TokTypeOK'
    BY <1>0, <1>5, DoneType, Kept DEF Cascade
  <2>2. CheckTypes'
    BY <1>0, <1>5, VoidCodeType, Kept DEF Cascade, histVars, CheckTypes, WrongIsFails
  <2>3. RestTypes'
    BY <1>0, <1>5 DEF Cascade, histVars, RestTypes, Lease
  <2> QED
    BY <2>1, <2>2, <2>3 DEF TypeParts
(* The enrol code and the grant. *)
<1>6. ASSUME NEW c \in Codes, NEW written \in BOOLEAN, IssueCode(c, written)
      PROVE  TypeParts'
  <2>1. ASSUME written PROVE CheckTypes'
    <3>1. /\ code' = [val |-> c, fails |-> 0, dev |-> None] /\ codeFile' = c /\ leftover' = FALSE
          /\ clock' = [clock EXCEPT ![c] = "armed"]
          /\ UNCHANGED <<pairs, wrong, first>>
      BY <1>6, <2>1 DEF IssueCode, histVars
    <3>2. code' \in LiveCodes /\ code'.val = c /\ code'.fails = 0
      BY <3>1 DEF LiveCodes
    <3>3. wrong[c] = 0
      BY <1>0, <1>6 DEF IssueCode, CheckTypes, WrongIsFails
    <3>4. clock' \in [Codes -> {"unissued", "armed", "due", "off"}]
      BY <1>0, <3>1 DEF CheckTypes
    <3>5. WrongIsFails'
      BY <1>0, <3>1, <3>2, <3>3 DEF CheckTypes, WrongIsFails
    <3> QED
      BY <1>0, <3>1, <3>2, <3>4, <3>5 DEF CheckTypes
  <2>2. ASSUME ~written PROVE CheckTypes'
    <3>1. VoidCode /\ clock' = [clock EXCEPT ![c] = "off"] /\ UNCHANGED <<pairs, wrong, first>>
      BY <1>6, <2>2 DEF IssueCode, histVars
    <3> QED
      BY <1>0, <3>1, NoCodeFacts DEF VoidCode, CheckTypes, WrongIsFails
  <2>3. CheckTypes'
    BY <2>1, <2>2
  <2> QED
    BY <1>6, <2>3, Kept DEF IssueCode, histVars, TypeParts
<1>7. ASSUME NEW c \in Codes, Timer(c)
      PROVE  TypeParts'
  <2>1. clock' = [clock EXCEPT ![c] = "off"] /\ UNCHANGED <<pairs, wrong, first>>
    BY <1>7 DEF Timer, histVars
  <2>2. ASSUME VoidCode PROVE CheckTypes'
    BY <1>0, <2>1, <2>2, NoCodeFacts DEF VoidCode, CheckTypes, WrongIsFails
  <2>3. ASSUME UNCHANGED <<code, codeFile, leftover>> PROVE CheckTypes'
    BY <1>0, <2>1, <2>3 DEF CheckTypes, WrongIsFails
  <2>4. CheckTypes'
    BY <1>7, <2>2, <2>3 DEF Timer
  <2> QED
    BY <1>7, <2>4, Kept DEF Timer, histVars, TypeParts
<1>8. ASSUME NEW c \in Codes, CodeLapses(c)
      PROVE  TypeParts'
  <2>1. CheckTypes'
    BY <1>0, <1>8 DEF CodeLapses, histVars, CheckTypes, WrongIsFails
  <2> QED
    BY <1>8, <2>1, Kept DEF CodeLapses, histVars, TypeParts
<1>9. ASSUME NEW r \in Requests, GrantPair(r)
      PROVE  TypeParts'
  <2>1. CheckTypes'
    BY <1>0, <1>9 DEF GrantPair, histVars, CheckTypes, WrongIsFails, Lease
  <2> QED
    BY <1>0, <1>9, <2>1, DoneType, Kept DEF GrantPair, histVars, TypeParts
<1>10. ASSUME NEW d \in Devices, GrantExpires(d)
       PROVE  TypeParts'
  <2>1. CheckTypes'
    BY <1>0, <1>10 DEF GrantExpires, histVars, CheckTypes, WrongIsFails, Lease
  <2> QED
    BY <1>10, <2>1, Kept DEF GrantExpires, histVars, TypeParts
<1>11. ASSUME NEW d \in Devices, RegExpires(d)
       PROVE  TypeParts'
  <2>1. RestTypes'
    BY <1>0, <1>11 DEF RegExpires, histVars, RestTypes, Lease
  <2> QED
    BY <1>11, <2>1, Kept DEF RegExpires, histVars, TypeParts
(* Registration. *)
<1>12. ASSUME NEW r \in Requests, NEW d \in Devices, NEW s \in Shown, Begin(r, d, s) \/ Finish(r, d, s)
       PROVE  TypeParts'
  <2>1. SlotTypes'
    BY <1>0, <1>12, StartType DEF Begin, Finish, Steps
  <2> QED
    BY <1>12, <2>1, Kept DEF Begin, Finish, hubVars, histVars, TypeParts
<1>13. ASSUME NEW r \in Requests, BeginCheck(r) \/ FinishCheck(r) \/ FinishSpend(r)
       PROVE  TypeParts'
  <2>1. req[r].dev \in Devices /\ req[r].shown \in Shown
    BY <1>0, <1>13, SlotFacts DEF BeginCheck, FinishCheck, FinishSpend, At
  <2>2. CheckTypes'
    BY <1>0, <1>13, <2>1, CheckEnrolType DEF BeginCheck, FinishCheck, FinishSpend
  <2>3. SlotTypes'
    BY <1>0, <1>13, DoneType, GotoType DEF BeginCheck, FinishCheck, FinishSpend, Steps, At
  <2> QED
    BY <1>13, <2>2, <2>3, Kept DEF BeginCheck, FinishCheck, FinishSpend, TypeParts
<1>14. ASSUME NEW r \in Requests, BeginStore(r)
       PROVE  TypeParts'
  <2>1. RestTypes'
    BY <1>0, <1>14 DEF BeginStore, histVars, RestTypes, Lease
  <2> QED
    BY <1>0, <1>14, <2>1, DoneType, Kept DEF BeginStore, histVars, TypeParts
<1>15. ASSUME NEW r \in Requests, FinishTake(r)
       PROVE  TypeParts'
  <2>1. RestTypes'
    BY <1>0, <1>15 DEF FinishTake, histVars, RestTypes, Lease
  <2>2. regs[req[r].dev] \in Lease
    BY <1>0, <1>15, SlotFacts DEF FinishTake, At, RestTypes
  <2>3. SlotTypes'
    <3>1. req' = [req EXCEPT ![r].pc = "finishCheck", ![r].reg = regs[req[r].dev]]
      BY <1>15 DEF FinishTake
    <3>2. req' \in [Requests -> ReqRecords]
      BY <1>0, <2>2, <3>1 DEF SlotTypes, ReqRecords, Steps
    <3>3. BusyHasDevice'
      BY <1>0, <1>15, <3>1 DEF SlotTypes, ReqRecords, BusyHasDevice, FinishTake, At
    <3> QED
      BY <3>2, <3>3 DEF SlotTypes
  <2> QED
    BY <1>15, <2>1, <2>3, Kept DEF FinishTake, histVars, TypeParts
<1>16. ASSUME NEW r \in Requests, NEW k \in Creds, NEW saved \in BOOLEAN, FinishAppend(r, k, saved)
       PROVE  TypeParts'
  <2>1. req[r].dev \in Devices /\ ProofOf(r) \in Codes \cup Devices
    BY <1>0, <1>16, SlotFacts DEF FinishAppend, At, ProofOf, Shown
  <2>2. /\ [dev |-> req[r].dev, cred |-> k] \in Records
        /\ [proof |-> ProofOf(r), product |-> [dev |-> req[r].dev, cred |-> k]]
              \in [proof : Codes \cup Devices, product : Records]
    BY <2>1 DEF Records
  <2>3. RestTypes'
    BY <1>0, <1>16, <2>2 DEF FinishAppend, RestTypes
  <2> QED
    BY <1>0, <1>16, <2>3, DoneType, Kept DEF FinishAppend, TypeParts
<1>17. ASSUME NEW r \in Requests, Refuse(r)
       PROVE  TypeParts'
  BY <1>0, <1>17, DoneType, Kept DEF Refuse, hubVars, histVars, TypeParts
<1>18. ASSUME NEW readable \in BOOLEAN, NEW known \in BOOLEAN, NEW saved \in BOOLEAN,
             Restart(readable, known, saved)
       PROVE  TypeParts'
  <2>1. TokTypeOK'
    BY <1>0, <1>18 DEF Restart, LoadTokens, TokTypeOK
  <2>2. CheckTypes'
    BY <1>0, <1>18, NoCodeFacts DEF Restart, VoidCode, histVars, CheckTypes, WrongIsFails, Lease
  <2>3. recs' \in SUBSET Records
    BY <1>0, <1>18 DEF Restart, Pruned, RestTypes
  <2>4. RestTypes'
    BY <1>0, <1>18, <2>3 DEF Restart, histVars, RestTypes, Lease
  <2>5. Idle \in ReqRecords /\ Idle.pc = "idle"
    BY DEF Idle, Steps, Shown, Lease, ReqRecords
  <2>6. SlotTypes'
    BY <1>18, <2>5 DEF Restart, SlotTypes, BusyHasDevice
  <2> QED
    BY <2>1, <2>2, <2>4, <2>6 DEF TypeParts
<1> QED
  BY <1>1, <1>2, <1>3, <1>4, <1>5, <1>6, <1>7, <1>8, <1>9, <1>10, <1>11, <1>12, <1>13, <1>14, <1>15,
     <1>16, <1>17, <1>18 DEF Next, Handler, Arrival

\* Every state is well typed; in particular a code is never counted wrong more than MaxFails times,
\* and no request in flight is without a device.
THEOREM TypeCorrect == Spec => []TypeOK
<1>1. TypeInv => TypeOK
  BY DEF TypeInv
<1> QED
  BY <1>1, TypeInit, TypeStep, PTL DEF Spec

-----------------------------------------------------------------------------
(* The code file. *)

\* Every step keeps file and code together.
LEMMA FileStep == TypeInv /\ FileIsLiveCode /\ [Next]_vars => FileIsLiveCode'
<1> SUFFICES ASSUME TypeInv, FileIsLiveCode, [Next]_vars PROVE FileIsLiveCode'
  OBVIOUS
<1>1. UNCHANGED <<code, codeFile, leftover>> => FileIsLiveCode'
  BY DEF FileIsLiveCode
<1>2. VoidCode => FileIsLiveCode'
  BY DEF FileIsLiveCode, VoidCode, NoCode
<1>3. ASSUME NEW s \in Shown, NEW d, NEW consume \in BOOLEAN, CheckEnrol(s, d, consume)
      PROVE  FileIsLiveCode'
  <2>1. CASE CodeRight(s, d, consume) /\ s # Empty
    BY <1>2, <2>1, NoCodeFacts DEF CodeRight, CodeMatches, FileIsLiveCode, Shown
  <2>2. CASE CodeWrong(s, d)
    BY <1>2, <2>2 DEF CodeWrong, FileIsLiveCode
  <2> QED
    BY <1>1, <1>2, <1>3, <2>1, <2>2 DEF CheckEnrol, CheckGrant, CheckCode
<1>4. ASSUME NEW c \in Codes, NEW written \in BOOLEAN, IssueCode(c, written)
      PROVE  FileIsLiveCode'
  BY <1>2, <1>4 DEF IssueCode, FileIsLiveCode
<1>5. ASSUME NEW c \in Codes, Timer(c)
      PROVE  FileIsLiveCode'
  BY <1>1, <1>2, <1>5 DEF Timer
<1>6. ASSUME NEW r \in Requests, NEW saved \in BOOLEAN, Cascade(r, saved)
      PROVE  FileIsLiveCode'
  BY <1>1, <1>2, <1>6 DEF Cascade
<1>7. ASSUME NEW readable \in BOOLEAN, NEW known \in BOOLEAN, NEW saved \in BOOLEAN,
             Restart(readable, known, saved)
      PROVE  FileIsLiveCode'
  BY <1>2, <1>7 DEF Restart, VoidCode
<1>8. ASSUME NEW r \in Requests, BeginCheck(r) \/ FinishCheck(r) \/ FinishSpend(r)
      PROVE  FileIsLiveCode'
  <2>1. req[r].shown \in Shown
    BY SlotFacts, TypePartsEq DEF TypeParts
  <2> QED
    BY <1>3, <1>8, <2>1 DEF BeginCheck, FinishCheck, FinishSpend
<1>9. CASE UNCHANGED vars
  BY <1>1, <1>9 DEF vars, hubVars
<1>10. ASSUME NEW r \in Requests,
              \/ BeginStore(r) \/ FinishTake(r) \/ GrantPair(r) \/ Refuse(r)
              \/ \E k \in Creds, saved \in BOOLEAN : FinishAppend(r, k, saved)
       PROVE  FileIsLiveCode'
  BY <1>1, <1>10 DEF BeginStore, FinishTake, GrantPair, Refuse, FinishAppend, hubVars
<1>11. ASSUME NEW r \in Requests, NEW d \in Devices, Arrival(r, d)
       PROVE  FileIsLiveCode'
  BY <1>1, <1>11 DEF Arrival, Begin, Finish, MintPaired, Revoke, hubVars
<1>12. ASSUME \/ \E d \in Devices, saved \in BOOLEAN : MintDirect(d, saved)
              \/ \E c \in Codes : CodeLapses(c)
              \/ \E d \in Devices : GrantExpires(d) \/ RegExpires(d)
       PROVE  FileIsLiveCode'
  BY <1>1, <1>12 DEF MintDirect, CodeLapses, GrantExpires, RegExpires, hubVars
<1> QED
  BY <1>4, <1>5, <1>6, <1>7, <1>8, <1>9, <1>10, <1>11, <1>12 DEF Next, Handler

\* The code file shows the live code, and outlives a code only where its remove failed, however codes
\* are issued, spent, voided and replaced, and across restarts.
THEOREM CodeFileCorrect == Spec => []FileIsLiveCode
<1>1. Init => FileIsLiveCode
  BY DEF Init, FileIsLiveCode, NoCode
<1> QED
  BY <1>1, TypeInit, TypeStep, FileStep, PTL DEF Spec

-----------------------------------------------------------------------------
(* The timer of the live code. *)

\* Every step leaves a live code its timer.
LEMMA TimedStep == TypeInv /\ LiveCodeHasTimer /\ [Next]_vars => LiveCodeHasTimer'
<1> SUFFICES ASSUME TypeInv, LiveCodeHasTimer, [Next]_vars PROVE LiveCodeHasTimer'
  OBVIOUS
<1> USE DEF LiveCodeHasTimer
<1>1. code' = NoCode => LiveCodeHasTimer'
  OBVIOUS
<1>2. UNCHANGED <<code, clock>> => LiveCodeHasTimer'
  OBVIOUS
<1>3. code # NoCode /\ code'.val = code.val /\ UNCHANGED clock => LiveCodeHasTimer'
  OBVIOUS
<1>4. clock \in [Codes -> {"unissued", "armed", "due", "off"}] /\ (code # NoCode => code.val \in Codes)
  BY TypePartsEq DEF TypeParts, CheckTypes, LiveCodes
<1>5. ASSUME NEW s \in Shown, NEW d, NEW consume \in BOOLEAN, CheckEnrol(s, d, consume)
      PROVE  LiveCodeHasTimer'
  <2>1. CASE CodeRight(s, d, consume) /\ s # Empty
    <3>1. code # NoCode
      BY <2>1 DEF CodeRight, CodeMatches, Shown, NoCode
    <3> QED
      BY <1>1, <1>3, <1>5, <2>1, <3>1 DEF CodeRight, CodeMatches, VoidCode, CheckEnrol
  <2>2. CASE CodeWrong(s, d)
    BY <1>1, <1>3, <1>5, <2>2 DEF CodeWrong, VoidCode, CheckEnrol
  <2> QED
    BY <1>1, <1>2, <1>5, <2>1, <2>2 DEF CheckEnrol, CheckGrant, CheckCode, VoidCode
<1>6. ASSUME NEW c \in Codes, NEW written \in BOOLEAN, IssueCode(c, written)
      PROVE  LiveCodeHasTimer'
  BY <1>1, <1>4, <1>6 DEF IssueCode, VoidCode
<1>7. ASSUME NEW c \in Codes, Timer(c)
      PROVE  LiveCodeHasTimer'
  BY <1>1, <1>4, <1>7 DEF Timer, VoidCode
<1>8. ASSUME NEW c \in Codes, CodeLapses(c)
      PROVE  LiveCodeHasTimer'
  BY <1>4, <1>8 DEF CodeLapses
<1>9. ASSUME NEW r \in Requests, NEW saved \in BOOLEAN, Cascade(r, saved)
      PROVE  LiveCodeHasTimer'
  BY <1>1, <1>2, <1>9 DEF Cascade, VoidCode
<1>10. ASSUME NEW readable \in BOOLEAN, NEW known \in BOOLEAN, NEW saved \in BOOLEAN,
             Restart(readable, known, saved)
       PROVE  LiveCodeHasTimer'
  BY <1>1, <1>10 DEF Restart, VoidCode
<1>11. ASSUME NEW r \in Requests, BeginCheck(r) \/ FinishCheck(r) \/ FinishSpend(r)
       PROVE  LiveCodeHasTimer'
  <2>1. req[r].shown \in Shown
    BY SlotFacts, TypePartsEq DEF TypeParts
  <2> QED
    BY <1>5, <1>11, <2>1 DEF BeginCheck, FinishCheck, FinishSpend
<1>12. CASE UNCHANGED vars
  BY <1>2, <1>12 DEF vars, hubVars
<1>13. ASSUME NEW r \in Requests,
              \/ BeginStore(r) \/ FinishTake(r) \/ GrantPair(r) \/ Refuse(r)
              \/ \E k \in Creds, saved \in BOOLEAN : FinishAppend(r, k, saved)
       PROVE  LiveCodeHasTimer'
  BY <1>2, <1>13 DEF BeginStore, FinishTake, GrantPair, Refuse, FinishAppend, hubVars
<1>14. ASSUME NEW r \in Requests, NEW d \in Devices, Arrival(r, d)
       PROVE  LiveCodeHasTimer'
  BY <1>2, <1>14 DEF Arrival, Begin, Finish, MintPaired, Revoke, hubVars
<1>15. ASSUME \/ \E d \in Devices, saved \in BOOLEAN : MintDirect(d, saved)
              \/ \E d \in Devices : GrantExpires(d) \/ RegExpires(d)
       PROVE  LiveCodeHasTimer'
  BY <1>2, <1>15 DEF MintDirect, GrantExpires, RegExpires, hubVars
<1> QED
  BY <1>6, <1>7, <1>8, <1>9, <1>10, <1>11, <1>12, <1>13, <1>14, <1>15 DEF Next, Handler

\* A code that ends before its time has a reason to.
LEMMA EarlyStep ==
    ASSUME TypeInv, [Next]_vars, NEW c \in Codes,
           code.val = c, clock[c] = "armed", code'.val # c
    PROVE  EndsEarly(c)
<1>1. code # NoCode /\ code.val # NoVal /\ code \in LiveCodes
  BY NoCodeFacts, TypePartsEq DEF TypeParts, CheckTypes, NoCode
<1>2. /\ clock \in [Codes -> {"unissued", "armed", "due", "off"}]
      /\ wrong \in [Codes -> 0..MaxFails] /\ wrong[c] = code.fails
      /\ req \in [Requests -> ReqRecords]
  BY <1>1, TypePartsEq DEF TypeParts, CheckTypes, SlotTypes, WrongIsFails
<1>3. ~Expired
  BY DEF Expired
<1>4. ~UNCHANGED code
  OBVIOUS
<1>5. ASSUME NEW s \in Shown, NEW d, NEW consume \in BOOLEAN, CheckEnrol(s, d, consume)
      PROVE  wrong'[c] >= MaxFails \/ (consume /\ s = c /\ Accepts(s, d))
  <2>1. s # Empty /\ (CodeRight(s, d, consume) \/ CodeWrong(s, d))
    BY <1>1, <1>3, <1>4, <1>5 DEF CheckEnrol, CheckGrant, CheckCode
  <2>2. CASE CodeRight(s, d, consume)
    BY <2>1, <2>2 DEF CodeRight, CodeMatches, Accepts
  <2>3. CASE CodeWrong(s, d)
    <3>1. LocksOut(code.fails + 1)
      BY <2>3 DEF CodeWrong
    <3> QED
      BY <1>2, <2>3, <3>1 DEF CodeWrong, LocksOut
  <2> QED
    BY <2>1, <2>2, <2>3
<1>6. ASSUME NEW e \in Codes, NEW written \in BOOLEAN, IssueCode(e, written)
      PROVE  EndsEarly(c)
  BY <1>2, <1>6 DEF IssueCode, EndsEarly
<1>7. ASSUME NEW e \in Codes, Timer(e)
      PROVE  EndsEarly(c)
  BY <1>4, <1>7 DEF Timer
<1>8. ASSUME NEW r \in Requests, NEW saved \in BOOLEAN, Cascade(r, saved)
      PROVE  EndsEarly(c)
  BY <1>4, <1>8 DEF Cascade, EndsEarly
<1>9. ASSUME NEW readable \in BOOLEAN, NEW known \in BOOLEAN, NEW saved \in BOOLEAN,
             Restart(readable, known, saved)
      PROVE  EndsEarly(c)
  BY <1>9 DEF Restart, EndsEarly
<1>10. ASSUME NEW r \in Requests, BeginCheck(r) \/ FinishCheck(r) \/ FinishSpend(r)
       PROVE  EndsEarly(c)
  <2>1. req[r].shown \in Shown
    BY SlotFacts, TypePartsEq DEF TypeParts
  <2>2. CASE BeginCheck(r) \/ FinishCheck(r)
    BY <1>5, <2>1, <2>2 DEF BeginCheck, FinishCheck, EndsEarly
  <2>3. CASE FinishSpend(r)
    <3>1. CheckEnrol(req[r].shown, req[r].dev, TRUE)
      BY <2>3 DEF FinishSpend
    <3>2. wrong'[c] >= MaxFails \/ (req[r].shown = c /\ Accepts(req[r].shown, req[r].dev))
      BY <1>5, <2>1, <3>1
    <3>3. req[r].shown = c /\ Accepts(req[r].shown, req[r].dev) => Holds(r, c)'
      BY <1>2, <2>3 DEF FinishSpend, Goto, At, Holds, ProofOf, ReqRecords
    <3> QED
      BY <3>2, <3>3 DEF EndsEarly
  <2> QED
    BY <1>10, <2>2, <2>3
<1>11. CASE UNCHANGED vars
  BY <1>4, <1>11 DEF vars, hubVars
<1>12. ASSUME NEW r \in Requests,
              \/ BeginStore(r) \/ FinishTake(r) \/ GrantPair(r) \/ Refuse(r)
              \/ \E k \in Creds, saved \in BOOLEAN : FinishAppend(r, k, saved)
       PROVE  EndsEarly(c)
  BY <1>4, <1>12 DEF BeginStore, FinishTake, GrantPair, Refuse, FinishAppend, hubVars
<1>13. ASSUME NEW r \in Requests, NEW d \in Devices, Arrival(r, d)
       PROVE  EndsEarly(c)
  BY <1>4, <1>13 DEF Arrival, Begin, Finish, MintPaired, Revoke, hubVars
<1>14. ASSUME \/ \E d \in Devices, saved \in BOOLEAN : MintDirect(d, saved)
              \/ \E e \in Codes : CodeLapses(e)
              \/ \E d \in Devices : GrantExpires(d) \/ RegExpires(d)
       PROVE  EndsEarly(c)
  BY <1>4, <1>14 DEF MintDirect, CodeLapses, GrantExpires, RegExpires, hubVars
<1> QED
  BY <1>6, <1>7, <1>8, <1>9, <1>10, <1>11, <1>12, <1>13, <1>14 DEF Next, Handler

\* No live code without a timer that will void it, and no code voided before its time without a
\* reason, though the timers of replaced codes fire late and a restart stops them all.
THEOREM CodeTimerThm == Spec => CodeLivesItsTime
<1>1. Init => LiveCodeHasTimer
  BY DEF Init, LiveCodeHasTimer
<1>2. TypeInv /\ [Next]_vars =>
        [\A c \in Codes : code.val = c /\ clock[c] = "armed" /\ code'.val # c => EndsEarly(c)]_vars
  BY EarlyStep
<1> QED
  BY <1>1, <1>2, TypeInit, TypeStep, TimedStep, PTL DEF Spec, CodeLivesItsTime

-----------------------------------------------------------------------------
(* A proof of presence is in one place. *)

\* What a step may do with the proofs of presence: issue none, move none and store no credential
\* (proofs may die); or do one thing with one proof.
Steady ==
    /\ \A p \in Proofs : Unissued(p)' => Unissued(p)
    /\ \A p \in Proofs : InHub(p)' => InHub(p)
    /\ \A r \in Requests, p \in Proofs : Holds(r, p)' => Holds(r, p)

Quiet == Steady /\ UNCHANGED enrolled

\* Issued to the hub.
IssuedToHub(p0) ==
    /\ UNCHANGED enrolled
    /\ Unissued(p0)
    /\ \A p \in Proofs : Unissued(p)' => Unissued(p) /\ p # p0
    /\ \A p \in Proofs : InHub(p)' => InHub(p) \/ p = p0
    /\ \A r \in Requests, p \in Proofs : Holds(r, p)' => Holds(r, p)

\* Issued to a request: a pairing grant not yet recorded.
IssuedToSlot(r0, p0) ==
    /\ UNCHANGED enrolled
    /\ Unissued(p0)
    /\ \A p \in Proofs : Unissued(p)' => Unissued(p) /\ p # p0
    /\ \A p \in Proofs : InHub(p)' => InHub(p)
    /\ \A r \in Requests, p \in Proofs : Holds(r, p)' => Holds(r, p) \/ (r = r0 /\ p = p0)

\* From a request to the hub.
Recorded(r0, p0) ==
    /\ UNCHANGED enrolled
    /\ Holds(r0, p0)
    /\ \A p \in Proofs : Unissued(p)' => Unissued(p)
    /\ \A p \in Proofs : InHub(p)' => InHub(p) \/ p = p0
    /\ \A r \in Requests, p \in Proofs : Holds(r, p)' => Holds(r, p) /\ r # r0

\* From the hub to a request.
Spent(r0, p0) ==
    /\ UNCHANGED enrolled
    /\ InHub(p0) /\ ~InHub(p0)'
    /\ \A p \in Proofs : Unissued(p)' => Unissued(p)
    /\ \A p \in Proofs : InHub(p)' => InHub(p)
    /\ \A r \in Requests, p \in Proofs : Holds(r, p)' => Holds(r, p) \/ (r = r0 /\ p = p0)

\* Turned into a stored credential.
Stored(r0, p0) ==
    /\ Holds(r0, p0)
    /\ \E x \in Records : enrolled' = enrolled \cup {[proof |-> p0, product |-> x]}
    /\ \A p \in Proofs : Unissued(p)' => Unissued(p)
    /\ \A p \in Proofs : InHub(p)' => InHub(p)
    /\ \A r \in Requests, p \in Proofs : Holds(r, p)' => Holds(r, p) /\ r # r0

Moves ==
    \/ Quiet
    \/ \E p \in Proofs : IssuedToHub(p)
    \/ \E r \in Requests, p \in Proofs : IssuedToSlot(r, p) \/ Recorded(r, p) \/ Spent(r, p) \/ Stored(r, p)

\* What a request holds is in its slot.
LEMMA SlotHolds ==
    ASSUME SlotTypes, NEW r \in Requests, NEW q \in Requests, NEW p \in Proofs
    PROVE  /\ Done(r) => (Holds(q, p)' => Holds(q, p) /\ q # r)
           /\ \A step \in Steps \ {"finishAppend", "grant"} :
                 Goto(r, step) => (Holds(q, p)' => Holds(q, p))
           /\ \A step \in Steps \ {"finishAppend", "grant"}, d \in Devices, s \in Shown :
                 Start(r, step, d, s) => (Holds(q, p)' => Holds(q, p))
           /\ UNCHANGED req => (Holds(q, p)' => Holds(q, p))
<1>1. Done(r) => (Holds(q, p)' => Holds(q, p) /\ q # r)
  BY DEF SlotTypes, Done, Idle, Holds, At, ProofOf
<1>2. ASSUME NEW step \in Steps \ {"finishAppend", "grant"}, Goto(r, step), Holds(q, p)'
      PROVE  Holds(q, p)
  BY <1>2 DEF SlotTypes, ReqRecords, Goto, Holds, At, ProofOf
<1>3. ASSUME NEW step \in Steps \ {"finishAppend", "grant"}, NEW d \in Devices, NEW s \in Shown,
             Start(r, step, d, s), Holds(q, p)'
      PROVE  Holds(q, p)
  BY <1>3 DEF SlotTypes, ReqRecords, Start, Holds, At, ProofOf
<1>4. UNCHANGED req => (Holds(q, p)' => Holds(q, p))
  BY DEF Holds, At, ProofOf
<1> QED
  BY <1>1, <1>2, <1>3, <1>4

\* What may be in the hub after a step that touches the code and the grants.
LEMMA HubShrinks ==
    ASSUME CheckTypes, NEW p \in Proofs
    PROVE  /\ UNCHANGED <<code, pairs>> => (InHub(p)' => InHub(p))
           /\ VoidCode /\ UNCHANGED pairs => (InHub(p)' => InHub(p))
           /\ \A s \in Shown, d \in Devices, consume \in BOOLEAN :
                 CheckEnrol(s, d, consume) => (InHub(p)' => InHub(p))
<1>1. UNCHANGED <<code, pairs>> => (InHub(p)' => InHub(p))
  BY DEF InHub
<1>2. VoidCode /\ UNCHANGED pairs => (InHub(p)' => InHub(p))
  BY NoCodeFacts DEF InHub, VoidCode
<1>3. ASSUME NEW s \in Shown, NEW d \in Devices, NEW consume \in BOOLEAN, CheckEnrol(s, d, consume)
      PROVE  InHub(p)' => InHub(p)
  <2>1. CASE s = Empty
    BY <1>3, <2>1 DEF CheckEnrol, CheckGrant, InHub, CheckTypes
  <2>2. CASE CodeRight(s, d, consume) /\ UNCHANGED pairs
    BY <1>2, <2>2 DEF CodeRight, CodeMatches, InHub
  <2>3. CASE CodeWrong(s, d) /\ UNCHANGED pairs
    BY <1>2, <2>3 DEF CodeWrong, InHub
  <2> QED
    BY <1>1, <1>2, <1>3, <2>1, <2>2, <2>3 DEF CheckEnrol, CheckCode
<1> QED
  BY <1>1, <1>2, <1>3

\* An accepted proof that is consumed was in the hub, and no longer is.
LEMMA Consumes ==
    ASSUME CheckTypes, NEW s \in Shown, NEW d \in Devices, CheckEnrol(s, d, TRUE), Accepts(s, d)
    PROVE  /\ s = Empty => d \in Proofs /\ InHub(d) /\ ~InHub(d)'
           /\ s # Empty => s \in Proofs /\ InHub(s) /\ ~InHub(s)'
<1>1. CASE s = Empty
  <2>1. pairs[d] = "live" /\ pairs' = [pairs EXCEPT ![d] = "none"]
    BY <1>1 DEF CheckEnrol, CheckGrant, Accepts
  <2>2. d \notin Codes /\ d \in Proofs
    BY DEF Proofs
  <2>3. pairs'[d] = "none"
    BY <2>1 DEF CheckTypes
  <2> QED
    BY <1>1, <2>1, <2>2, <2>3 DEF InHub
<1>2. CASE s # Empty
  <2>1. CodeMatches(s, d) /\ code.val = s /\ s \in Codes
    BY <1>2 DEF Accepts, CodeMatches, Shown
  <2>2. code # NoCode
    BY <2>1, NoCodeFacts
  <2>3. CodeRight(s, d, TRUE)
    BY <1>2, <2>1, <2>2 DEF CheckEnrol, CheckCode, CodeWrong, CodeMatches
  <2>4. VoidCode
    BY <2>3 DEF CodeRight
  <2>5. s \notin Devices /\ code'.val # s
    BY <2>1, <2>4, NoCodeFacts DEF VoidCode
  <2> QED
    BY <1>2, <2>1, <2>5 DEF InHub, Proofs
<1> QED
  BY <1>1, <1>2

\* Every step moves a proof as Moves says.
LEMMA StepMoves == TypeInv /\ [Next]_vars => Moves
<1> SUFFICES ASSUME TypeInv, [Next]_vars PROVE Moves
  OBVIOUS
<1>0. CheckTypes /\ TokTypeOK /\ RestTypes /\ SlotTypes
  BY TypePartsEq DEF TypeParts
<1>u. UNCHANGED <<clock, minted>> => \A p \in Proofs : Unissued(p)' => Unissued(p)
  BY DEF Unissued
(* Steps that move no proof from one place to another. *)
<1>1. CASE UNCHANGED vars
  BY <1>0, <1>1, <1>u, SlotHolds, HubShrinks DEF Moves, Steady, Quiet, vars, tokVars, hubVars, histVars
<1>2. ASSUME NEW d \in Devices, NEW saved \in BOOLEAN, MintDirect(d, saved)
      PROVE  Moves
  <2>1. \A p \in Proofs : Unissued(p)' => Unissued(p)
    BY <1>2 DEF MintDirect, Mint, hubVars, Unissued
  <2> QED
    BY <1>0, <1>2, <2>1, SlotHolds, HubShrinks DEF Moves, Steady, Quiet, MintDirect, hubVars, histVars
<1>3. ASSUME NEW r \in Requests, NEW d \in Devices, NEW saved \in BOOLEAN, Revoke(r, d, saved)
      PROVE  Moves
  <2>1. \A q \in Requests, p \in Proofs : Holds(q, p)' => Holds(q, p)
    BY <1>0, <1>3, SlotHolds DEF Revoke, Steps, Shown
  <2> QED
    BY <1>0, <1>3, <1>u, <2>1, HubShrinks DEF Moves, Steady, Quiet, Revoke, RevokeToken, hubVars, histVars
<1>4. ASSUME NEW r \in Requests, NEW saved \in BOOLEAN, Cascade(r, saved)
      PROVE  Moves
  BY <1>0, <1>4, <1>u, SlotHolds, HubShrinks DEF Moves, Steady, Quiet, Cascade, tokVars, histVars
<1>5. ASSUME NEW c \in Codes, Timer(c) \/ CodeLapses(c)
      PROVE  Moves
  <2>1. \A p \in Proofs : Unissued(p)' => Unissued(p)
    BY <1>0, <1>5 DEF Timer, CodeLapses, tokVars, Unissued, CheckTypes
  <2> QED
    BY <1>0, <1>5, <2>1, SlotHolds, HubShrinks DEF Moves, Steady, Quiet, Timer, CodeLapses, histVars
<1>6. ASSUME NEW d \in Devices, GrantExpires(d) \/ RegExpires(d)
      PROVE  Moves
  <2>1. \A p \in Proofs : InHub(p)' => InHub(p)
    BY <1>0, <1>6 DEF GrantExpires, RegExpires, InHub, CheckTypes
  <2> QED
    BY <1>0, <1>6, <1>u, <2>1, SlotHolds DEF Moves, Steady, Quiet, GrantExpires, RegExpires, tokVars, histVars
<1>7. ASSUME NEW r \in Requests, NEW d \in Devices, NEW s \in Shown, Begin(r, d, s) \/ Finish(r, d, s)
      PROVE  Moves
  <2>1. \A q \in Requests, p \in Proofs : Holds(q, p)' => Holds(q, p)
    BY <1>0, <1>7, SlotHolds DEF Begin, Finish, Steps
  <2> QED
    BY <1>0, <1>7, <1>u, <2>1, HubShrinks DEF Moves, Steady, Quiet, Begin, Finish, tokVars, hubVars, histVars
<1>8. ASSUME NEW r \in Requests, BeginCheck(r) \/ FinishCheck(r)
      PROVE  Moves
  <2>1. req[r].dev \in Devices /\ req[r].shown \in Shown
    BY <1>0, <1>8, SlotFacts DEF BeginCheck, FinishCheck, At
  <2>2. \A q \in Requests, p \in Proofs : Holds(q, p)' => Holds(q, p)
    BY <1>0, <1>8, SlotHolds DEF BeginCheck, FinishCheck, Steps
  <2>3. UNCHANGED clock /\ \A p \in Proofs : InHub(p)' => InHub(p)
    BY <1>0, <1>8, <2>1, HubShrinks DEF BeginCheck, FinishCheck, CheckEnrol
  <2> QED
    BY <1>8, <1>u, <2>2, <2>3 DEF Moves, Steady, Quiet, BeginCheck, FinishCheck, tokVars
<1>9. ASSUME NEW r \in Requests, BeginStore(r) \/ Refuse(r)
      PROVE  Moves
  BY <1>0, <1>9, <1>u, SlotHolds, HubShrinks DEF Moves, Steady, Quiet, BeginStore, Refuse, tokVars, hubVars, histVars
<1>10. ASSUME NEW r \in Requests, FinishTake(r)
       PROVE  Moves
  <2>1. \A q \in Requests, p \in Proofs : Holds(q, p)' => Holds(q, p)
    BY <1>0, <1>10 DEF FinishTake, SlotTypes, ReqRecords, Holds, At, ProofOf
  <2> QED
    BY <1>0, <1>10, <1>u, <2>1, HubShrinks DEF Moves, Steady, Quiet, FinishTake, tokVars, histVars
<1>11. ASSUME NEW readable \in BOOLEAN, NEW known \in BOOLEAN, NEW saved \in BOOLEAN,
             Restart(readable, known, saved)
       PROVE  Moves
  <2>1. \A p \in Proofs : Unissued(p)' => Unissued(p)
    BY <1>0, <1>11 DEF Restart, LoadTokens, Unissued, CheckTypes
  <2>2. \A p \in Proofs : ~InHub(p)'
    BY <1>11, NoCodeFacts DEF Restart, VoidCode, InHub
  <2>3. \A q \in Requests, p \in Proofs : ~Holds(q, p)'
    BY <1>11 DEF Restart, Holds, At, Idle
  <2> QED
    BY <1>11, <2>1, <2>2, <2>3 DEF Moves, Steady, Quiet, Restart, histVars
(* Steps that move one. *)
<1>12. ASSUME NEW c \in Codes, NEW written \in BOOLEAN, IssueCode(c, written)
       PROVE  Moves
  <2>1. \A q \in Requests, p \in Proofs : Holds(q, p)' => Holds(q, p)
    BY <1>0, <1>12, SlotHolds DEF IssueCode
  <2>2. \A p \in Proofs : Unissued(p)' => Unissued(p) /\ p # c
    BY <1>0, <1>12 DEF IssueCode, tokVars, Unissued, CheckTypes
  <2>3. CASE written
    <3>1. \A p \in Proofs : InHub(p)' => InHub(p) \/ p = c
      BY <1>12, <2>3 DEF IssueCode, InHub
    <3>2. Unissued(c) /\ c \in Proofs /\ UNCHANGED enrolled
      BY <1>12 DEF IssueCode, histVars, Unissued, Proofs
    <3> QED
      BY <2>1, <2>2, <3>1, <3>2 DEF Moves, IssuedToHub
  <2>4. CASE ~written
    BY <1>0, <1>12, <2>1, <2>2, <2>4, HubShrinks DEF Moves, Steady, Quiet, IssueCode, histVars
  <2> QED
    BY <2>3, <2>4
<1>13. ASSUME NEW r \in Requests, NEW d \in Devices, NEW saved \in BOOLEAN, MintPaired(r, d, saved)
       PROVE  Moves
  <2>1. UNCHANGED enrolled /\ \A p \in Proofs : InHub(p)' => InHub(p)
    BY <1>13 DEF MintPaired, hubVars, histVars, InHub
  <2>2. \A p \in Proofs : Unissued(p)' => Unissued(p) /\ p # d
    BY <1>13 DEF MintPaired, Mint, hubVars, Unissued
  <2>3. d \in Proofs /\ Unissued(d)
    BY <1>13 DEF MintPaired, Mint, Proofs, Unissued
  <2>4. \A q \in Requests, p \in Proofs : Holds(q, p)' => Holds(q, p) \/ (q = r /\ p = d)
    BY <1>0, <1>13 DEF MintPaired, Start, SlotTypes, ReqRecords, Holds, At, ProofOf
  <2> QED
    BY <2>1, <2>2, <2>3, <2>4 DEF Moves, IssuedToSlot
<1>14. ASSUME NEW r \in Requests, GrantPair(r)
       PROVE  Moves
  <2>1. PICK d \in Devices : d = req[r].dev /\ d \in Proofs /\ Holds(r, d)
    BY <1>0, <1>14, SlotFacts DEF GrantPair, At, Holds, Proofs
  <2>2. \A p \in Proofs : InHub(p)' => InHub(p) \/ p = d
    BY <1>0, <1>14, <2>1 DEF GrantPair, InHub, CheckTypes
  <2>3. UNCHANGED enrolled /\ \A p \in Proofs : Unissued(p)' => Unissued(p)
    BY <1>14 DEF GrantPair, tokVars, histVars, Unissued
  <2>4. \A q \in Requests, p \in Proofs : Holds(q, p)' => Holds(q, p) /\ q # r
    BY <1>0, <1>14, SlotHolds DEF GrantPair
  <2> QED
    BY <2>1, <2>2, <2>3, <2>4 DEF Moves, Recorded
<1>15. ASSUME NEW r \in Requests, FinishSpend(r)
       PROVE  Moves
  <2>1. req[r].dev \in Devices /\ req[r].shown \in Shown
    BY <1>0, <1>15, SlotFacts DEF FinishSpend, At
  <2>2. UNCHANGED clock /\ \A p \in Proofs : InHub(p)' => InHub(p)
    BY <1>0, <1>15, <2>1, HubShrinks DEF FinishSpend, CheckEnrol
  <2>3. UNCHANGED enrolled /\ \A p \in Proofs : Unissued(p)' => Unissued(p)
    BY <1>15, <2>2 DEF FinishSpend, tokVars, Unissued
  <2>4. CASE Accepts(req[r].shown, req[r].dev)
    <3>1. PICK s \in Shown, d \in Devices : s = req[r].shown /\ d = req[r].dev
      BY <2>1
    <3>2. CheckEnrol(s, d, TRUE) /\ Accepts(s, d)
      BY <1>15, <2>4, <3>1 DEF FinishSpend
    <3>3. PICK p0 \in Proofs : p0 = ProofOf(r) /\ InHub(p0) /\ ~InHub(p0)'
      BY <1>0, <3>1, <3>2, Consumes DEF ProofOf
    <3>4. \A q \in Requests, p \in Proofs : Holds(q, p)' => Holds(q, p) \/ (q = r /\ p = p0)
      BY <1>0, <1>15, <2>4, <3>3 DEF FinishSpend, Goto, SlotTypes, ReqRecords, Holds, At, ProofOf
    <3> QED
      BY <2>2, <2>3, <3>3, <3>4 DEF Moves, Spent
  <2>5. CASE ~Accepts(req[r].shown, req[r].dev)
    <3>1. \A q \in Requests, p \in Proofs : Holds(q, p)' => Holds(q, p)
      BY <1>0, <1>15, <2>5, SlotHolds DEF FinishSpend
    <3> QED
      BY <2>2, <2>3, <3>1 DEF Moves, Steady, Quiet
  <2> QED
    BY <2>4, <2>5
<1>16. ASSUME NEW r \in Requests, NEW k \in Creds, NEW saved \in BOOLEAN, FinishAppend(r, k, saved)
       PROVE  Moves
  <2>1. \A p \in Proofs : (InHub(p)' => InHub(p)) /\ (Unissued(p)' => Unissued(p))
    BY <1>16 DEF FinishAppend, tokVars, InHub, Unissued
  <2>2. PICK p0 \in Proofs : p0 = ProofOf(r) /\ Holds(r, p0)
    BY <1>0, <1>16, SlotFacts DEF FinishAppend, At, Holds, ProofOf, Shown, Proofs
  <2>3. \A q \in Requests, p \in Proofs : Holds(q, p)' => Holds(q, p) /\ q # r
    BY <1>0, <1>16, SlotHolds DEF FinishAppend
  <2>4. CASE UNCHANGED enrolled
    BY <2>1, <2>3, <2>4 DEF Moves, Steady, Quiet
  <2>5. CASE enrolled' = enrolled \cup
                {[proof |-> ProofOf(r), product |-> [dev |-> req[r].dev, cred |-> k]]}
    <3>1. [dev |-> req[r].dev, cred |-> k] \in Records
      BY <1>0, <1>16, SlotFacts DEF FinishAppend, At, Records
    <3> QED
      BY <2>1, <2>2, <2>3, <2>5, <3>1 DEF Moves, Stored
  <2> QED
    BY <1>16, <2>4, <2>5 DEF FinishAppend
<1> QED
  BY <1>1, <1>2, <1>3, <1>4, <1>5, <1>6, <1>7, <1>8, <1>9, <1>10, <1>11, <1>12, <1>13, <1>14, <1>15,
     <1>16 DEF Next, Handler, Arrival

\* A move leaves a proof in one place.
LEMMA OnePlaceStep == OnePlace /\ Moves => OnePlace'
<1> SUFFICES ASSUME OnePlace, Moves PROVE OnePlace'
  OBVIOUS
<1>1. UNCHANGED enrolled => \A p \in Proofs : Used(p)' <=> Used(p)
  BY DEF Used
<1>2. CASE Quiet
  BY <1>1, <1>2 DEF OnePlace, Quiet, Steady
<1>3. ASSUME NEW p0 \in Proofs, IssuedToHub(p0) PROVE OnePlace'
  BY <1>1, <1>3 DEF OnePlace, IssuedToHub
<1>4. ASSUME NEW r0 \in Requests, NEW p0 \in Proofs, IssuedToSlot(r0, p0) PROVE OnePlace'
  BY <1>1, <1>4 DEF OnePlace, IssuedToSlot
<1>5. ASSUME NEW r0 \in Requests, NEW p0 \in Proofs, Recorded(r0, p0) PROVE OnePlace'
  BY <1>1, <1>5 DEF OnePlace, Recorded
<1>6. ASSUME NEW r0 \in Requests, NEW p0 \in Proofs, Spent(r0, p0) PROVE OnePlace'
  BY <1>1, <1>6 DEF OnePlace, Spent
<1>7. ASSUME NEW r0 \in Requests, NEW p0 \in Proofs, Stored(r0, p0) PROVE OnePlace'
  <2>1. \A p \in Proofs : Used(p)' => Used(p) \/ p = p0
    BY <1>7 DEF Stored, Used
  <2> QED
    BY <1>7, <2>1 DEF OnePlace, Stored
<1> QED
  BY <1>2, <1>3, <1>4, <1>5, <1>6, <1>7 DEF Moves

\* No proof is anywhere at the start.
LEMMA OnePlaceInit == Init => OnePlace
  BY NoCodeFacts DEF Init, OnePlace, InHub, Used, Holds, At, Idle, Proofs

\* A proof of presence is in one place at a time: in the hub, with one request, or behind one
\* credential; nothing hands the same code or grant to two finishes.
THEOREM OnePlaceThm == Spec => []OnePlace
  BY TypeInit, TypeStep, OnePlaceInit, StepMoves, OnePlaceStep, PTL DEF Spec

\* A move gives a proof one credential at most.
LEMMA OnePerProofStep == OnePlace /\ OnePerProof /\ Moves => OnePerProof'
<1> SUFFICES ASSUME OnePlace, OnePerProof, Moves PROVE OnePerProof'
  OBVIOUS
<1>1. CASE UNCHANGED enrolled
  BY <1>1 DEF OnePerProof, Presence!AtMostOnce
<1>2. ASSUME NEW r0 \in Requests, NEW p0 \in Proofs, Stored(r0, p0) PROVE OnePerProof'
  <2>1. ~Used(p0)
    BY <1>2 DEF Stored, OnePlace
  <2> QED
    BY <1>2, <2>1 DEF Stored, Used, OnePerProof, Presence!AtMostOnce
<1> QED
  BY <1>1, <1>2 DEF Moves, Quiet, IssuedToHub, IssuedToSlot, Recorded, Spent

\* Two credentials never come of one enrol code or one pairing grant.
THEOREM OnePerProofThm == Spec => []OnePerProof
<1>1. Init => OnePerProof
  BY DEF Init, OnePerProof, Presence!AtMostOnce
<1> QED
  BY <1>1, TypeInit, TypeStep, OnePlaceInit, StepMoves, OnePlaceStep, OnePerProofStep, PTL DEF Spec

-----------------------------------------------------------------------------
(* Lockout, and the first device. *)

\* What the history says of a code that a request has spent, or that stored a credential: it was
\* not locked out, and its device is the one that showed it first.
CodeHistory ==
    /\ \A c \in Codes : clock[c] = "unissued" => first[c] = None
    /\ code # NoCode => code.dev = first[code.val]
    /\ \A r \in Requests : At(r, "finishAppend") /\ req[r].shown # Empty =>
            wrong[req[r].shown] < MaxFails /\ first[req[r].shown] = req[r].dev
    /\ \A e \in enrolled : e.proof \in Codes =>
            wrong[e.proof] < MaxFails /\ first[e.proof] = e.product.dev

\* A step that counts no wrong try and sees no new device.
LEMMA HistFrame ==
    ASSUME CodeHistory, UNCHANGED <<wrong, first, enrolled>>,
           \A c \in Codes : clock'[c] = "unissued" => clock[c] = "unissued",
           code' = code \/ code' = NoCode,
           \A q \in Requests : At(q, "finishAppend")' => req'[q] = req[q]
    PROVE  CodeHistory'
  BY DEF CodeHistory, At

\* A request keeps the code and the device it came with.
LEMMA SlotKeeps ==
    ASSUME SlotTypes, NEW r \in Requests, NEW q \in Requests
    PROVE  /\ Done(r) => (At(q, "finishAppend")' => req'[q] = req[q])
           /\ \A step \in Steps \ {"finishAppend"} :
                 Goto(r, step) => (At(q, "finishAppend")' => req'[q] = req[q])
           /\ \A step \in Steps \ {"finishAppend"}, d \in Devices, s \in Shown :
                 Start(r, step, d, s) => (At(q, "finishAppend")' => req'[q] = req[q])
           /\ UNCHANGED req => (At(q, "finishAppend")' => req'[q] = req[q])
<1>1. Done(r) => (At(q, "finishAppend")' => req'[q] = req[q])
  BY DEF SlotTypes, Done, Idle, At
<1>2. ASSUME NEW step \in Steps \ {"finishAppend"}, Goto(r, step), At(q, "finishAppend")'
      PROVE  req'[q] = req[q]
  BY <1>2 DEF SlotTypes, ReqRecords, Goto, At
<1>3. ASSUME NEW step \in Steps \ {"finishAppend"}, NEW d \in Devices, NEW s \in Shown,
             Start(r, step, d, s), At(q, "finishAppend")'
      PROVE  req'[q] = req[q]
  BY <1>3 DEF SlotTypes, ReqRecords, Start, At
<1> QED
  BY <1>1, <1>2, <1>3

\* A check changes the history of the live code only.
LEMMA CheckHistory ==
    ASSUME CheckTypes, CodeHistory, NEW s \in Shown, NEW d \in Devices, NEW consume \in BOOLEAN,
           CheckEnrol(s, d, consume)
    PROVE  /\ \A c \in Codes : c # code.val => wrong'[c] = wrong[c] /\ first'[c] = first[c]
           /\ \A c \in Codes : clock'[c] = "unissued" => first'[c] = None
           /\ code' # NoCode => code'.dev = first'[code'.val]
           /\ s # Empty /\ Accepts(s, d) => wrong'[s] < MaxFails /\ first'[s] = d
<1>0. clock' = clock
  BY DEF CheckEnrol
<1>1. CASE UNCHANGED <<wrong, first>> /\ (code' = code \/ code' = NoCode) /\ ~(s # Empty /\ Accepts(s, d))
  BY <1>0, <1>1 DEF CodeHistory
<1>2. CASE s # Empty /\ CodeRight(s, d, consume)
  <2>1. code.val = s /\ code # NoCode /\ s \in Codes /\ code.dev \in {None, d}
    BY <1>2, NoCodeFacts DEF CodeRight, CodeMatches, Shown
  <2>2. wrong[s] = code.fails /\ code.fails \in 0..MaxFails - 1 /\ clock[s] # "unissued"
    BY <2>1, LiveCodeType
  <2>3. first[s] = code.dev
    BY <2>1 DEF CodeHistory
  <2>4. UNCHANGED wrong /\ first' = IF first[s] = None THEN [first EXCEPT ![s] = d] ELSE first
    BY <1>2 DEF CodeRight
  <2>5. first'[s] = d /\ \A c \in Codes : c # s => first'[c] = first[c]
    BY <2>1, <2>3, <2>4 DEF CheckTypes
  <2>6. code' # NoCode => code'.dev = first'[code'.val]
    BY <1>2, <2>5 DEF CodeRight, VoidCode
  <2> QED
    BY <1>0, <2>1, <2>2, <2>4, <2>5, <2>6 DEF CodeHistory
<1>3. CASE s # Empty /\ CodeWrong(s, d)
  <2>1. /\ code # NoCode /\ wrong' = [wrong EXCEPT ![code.val] = @ + 1] /\ UNCHANGED first
        /\ ~CodeMatches(s, d)
    BY <1>3 DEF CodeWrong
  <2>2. \A c \in Codes : c # code.val => wrong'[c] = wrong[c]
    BY <2>1 DEF CheckTypes
  <2>3. code' # NoCode => code'.dev = first'[code'.val]
    BY <1>3, <2>1 DEF CodeWrong, VoidCode, CodeHistory
  <2> QED
    BY <1>0, <1>3, <2>1, <2>2, <2>3 DEF CodeHistory, Accepts
<1>4. CASE s = Empty
  BY <1>1, <1>4 DEF CheckEnrol, CheckGrant
<1>5. CASE s # Empty /\ ~CodeRight(s, d, consume) /\ ~CodeWrong(s, d)
  <2>1. ~CodeMatches(s, d)
    <3>1. CASE code = NoCode
      BY <1>5, <3>1, NoCodeFacts DEF CodeMatches, Shown
    <3>2. CASE Expired
      BY <3>2 DEF CodeMatches
    <3> QED
      BY <1>5, <3>1, <3>2 DEF CheckEnrol, CheckCode
  <2> QED
    BY <1>1, <1>5, <2>1 DEF CheckEnrol, CheckCode, VoidCode, Accepts
<1> QED
  BY <1>2, <1>3, <1>4, <1>5

\* The live code is behind no request and no credential.
LEMMA LiveIsUnspent ==
    ASSUME OnePlace, SlotTypes
    PROVE  /\ \A r \in Requests : At(r, "finishAppend") /\ req[r].shown # Empty => req[r].shown # code.val
           /\ \A e \in enrolled : e.proof \in Codes => e.proof # code.val
<1>1. ASSUME NEW r \in Requests, At(r, "finishAppend"), req[r].shown # Empty
      PROVE  req[r].shown # code.val
  <2>1. req[r].shown \in Codes
    BY <1>1, SlotFacts DEF Shown
  <2>2. Holds(r, req[r].shown)
    BY <1>1 DEF Holds, ProofOf
  <2> QED
    BY <2>1, <2>2 DEF OnePlace, InHub, Proofs
<1>2. ASSUME NEW e \in enrolled, e.proof \in Codes
      PROVE  e.proof # code.val
  <2>1. Used(e.proof)
    BY <1>2 DEF Used
  <2> QED
    BY <1>2, <2>1 DEF OnePlace, InHub, Proofs
<1> QED
  BY <1>1, <1>2

\* Every step keeps what is known of the codes.
LEMMA HistoryStep == TypeInv /\ OnePlace /\ CodeHistory /\ [Next]_vars => CodeHistory'
<1> SUFFICES ASSUME TypeInv, OnePlace, CodeHistory, [Next]_vars PROVE CodeHistory'
  OBVIOUS
<1>0. CheckTypes /\ TokTypeOK /\ RestTypes /\ SlotTypes
  BY TypePartsEq DEF TypeParts
<1>1. CASE UNCHANGED vars
  BY <1>0, <1>1, SlotKeeps, HistFrame DEF vars, tokVars, hubVars, histVars
<1>2. ASSUME NEW d \in Devices, NEW saved \in BOOLEAN, MintDirect(d, saved)
      PROVE  CodeHistory'
  BY <1>0, <1>2, SlotKeeps, HistFrame DEF MintDirect, hubVars, histVars
<1>3. ASSUME NEW r \in Requests, NEW d \in Devices, Arrival(r, d)
      PROVE  CodeHistory'
  <2>1. \A q \in Requests : At(q, "finishAppend")' => req'[q] = req[q]
    BY <1>0, <1>3, SlotKeeps DEF Arrival, Begin, Finish, MintPaired, Revoke, Steps, Shown
  <2> QED
    BY <1>3, <2>1, HistFrame DEF Arrival, Begin, Finish, MintPaired, Revoke, hubVars, histVars
<1>4. ASSUME NEW r \in Requests, NEW saved \in BOOLEAN, Cascade(r, saved)
      PROVE  CodeHistory'
  BY <1>0, <1>4, SlotKeeps, HistFrame DEF Cascade, VoidCode, histVars
<1>5. ASSUME NEW c \in Codes, Timer(c) \/ CodeLapses(c)
      PROVE  CodeHistory'
  <2>1. \A x \in Codes : clock'[x] = "unissued" => clock[x] = "unissued"
    BY <1>0, <1>5 DEF Timer, CodeLapses, CheckTypes
  <2> QED
    BY <1>0, <1>5, <2>1, SlotKeeps, HistFrame DEF Timer, CodeLapses, VoidCode, histVars
<1>6. ASSUME NEW d \in Devices, GrantExpires(d) \/ RegExpires(d)
      PROVE  CodeHistory'
  BY <1>0, <1>6, SlotKeeps, HistFrame DEF GrantExpires, RegExpires, histVars
<1>7. ASSUME NEW c \in Codes, NEW written \in BOOLEAN, IssueCode(c, written)
      PROVE  CodeHistory'
  <2>1. UNCHANGED <<wrong, first, enrolled, req>>
    BY <1>7 DEF IssueCode, histVars
  <2>2. \A x \in Codes : clock'[x] = "unissued" => clock[x] = "unissued"
    BY <1>0, <1>7 DEF IssueCode, CheckTypes
  <2>3. code' # NoCode => code'.dev = first'[code'.val]
    BY <1>7, <2>1 DEF IssueCode, VoidCode, CodeHistory
  <2> QED
    BY <2>1, <2>2, <2>3 DEF CodeHistory, At
<1>8. ASSUME NEW r \in Requests, BeginStore(r) \/ Refuse(r) \/ GrantPair(r)
      PROVE  CodeHistory'
  BY <1>0, <1>8, SlotKeeps, HistFrame DEF BeginStore, Refuse, GrantPair, hubVars, histVars
<1>9. ASSUME NEW r \in Requests, FinishTake(r)
      PROVE  CodeHistory'
  <2>1. \A q \in Requests : At(q, "finishAppend")' => req'[q] = req[q]
    BY <1>0, <1>9 DEF FinishTake, SlotTypes, ReqRecords, At
  <2> QED
    BY <1>9, <2>1, HistFrame DEF FinishTake, histVars
<1>10. ASSUME NEW r \in Requests, BeginCheck(r) \/ FinishCheck(r) \/ FinishSpend(r)
       PROVE  CodeHistory'
  <2>1. PICK s \in Shown, d \in Devices : s = req[r].shown /\ d = req[r].dev
    BY <1>0, <1>10, SlotFacts DEF BeginCheck, FinishCheck, FinishSpend, At
  <2>2. PICK consume \in BOOLEAN : CheckEnrol(s, d, consume)
    BY <1>10, <2>1 DEF BeginCheck, FinishCheck, FinishSpend
  <2>3. /\ \A c \in Codes : c # code.val => wrong'[c] = wrong[c] /\ first'[c] = first[c]
        /\ \A c \in Codes : clock'[c] = "unissued" => first'[c] = None
        /\ code' # NoCode => code'.dev = first'[code'.val]
        /\ s # Empty /\ Accepts(s, d) => wrong'[s] < MaxFails /\ first'[s] = d
    BY <1>0, <2>2, CheckHistory
  <2>4. UNCHANGED enrolled
    BY <1>10 DEF BeginCheck, FinishCheck, FinishSpend
  <2>5. ASSUME NEW q \in Requests, At(q, "finishAppend")', req'[q].shown # Empty
        PROVE  wrong'[req'[q].shown] < MaxFails /\ first'[req'[q].shown] = req'[q].dev
    <3>1. CASE req'[q] = req[q]
      <4>1. req[q].shown \in Codes /\ req[q].shown # code.val
        BY <1>0, <2>5, <3>1, SlotFacts, LiveIsUnspent DEF At, Shown
      <4> QED
        BY <2>3, <2>5, <3>1, <4>1 DEF CodeHistory, At
    <3>2. CASE req'[q] # req[q]
      <4>1. q = r /\ FinishSpend(r) /\ Accepts(s, d) /\ req'[q].shown = s /\ req'[q].dev = d
        <5>1. FinishSpend(r) /\ Accepts(s, d)
          BY <1>0, <1>10, <2>1, <2>5, <3>2, SlotKeeps DEF BeginCheck, FinishCheck, FinishSpend, Steps
        <5>2. req' = [req EXCEPT ![r].pc = "finishAppend"]
          BY <2>1, <5>1 DEF FinishSpend, Goto
        <5> QED
          BY <1>0, <2>1, <3>2, <5>1, <5>2 DEF SlotTypes, ReqRecords
      <4> QED
        BY <2>3, <2>5, <4>1
    <3> QED
      BY <3>1, <3>2
  <2>6. \A e \in enrolled : e.proof \in Codes =>
            wrong'[e.proof] < MaxFails /\ first'[e.proof] = e.product.dev
    BY <1>0, <2>3, LiveIsUnspent DEF CodeHistory
  <2> QED
    BY <2>3, <2>4, <2>5, <2>6 DEF CodeHistory
<1>11. ASSUME NEW r \in Requests, NEW k \in Creds, NEW saved \in BOOLEAN, FinishAppend(r, k, saved)
       PROVE  CodeHistory'
  <2>1. UNCHANGED <<code, clock, wrong, first>> /\ At(r, "finishAppend")
    BY <1>11 DEF FinishAppend
  <2>2. \A q \in Requests : At(q, "finishAppend")' => req'[q] = req[q]
    BY <1>0, <1>11, SlotKeeps DEF FinishAppend
  <2>3. CASE UNCHANGED enrolled
    BY <2>1, <2>2, <2>3, HistFrame
  <2>4. CASE enrolled' = enrolled \cup
                {[proof |-> ProofOf(r), product |-> [dev |-> req[r].dev, cred |-> k]]}
    <3>1. ProofOf(r) \in Codes => ProofOf(r) = req[r].shown /\ req[r].shown # Empty
      BY <1>0, <2>1, SlotFacts DEF ProofOf, At
    <3>2. \A e \in enrolled' : e.proof \in Codes =>
              wrong[e.proof] < MaxFails /\ first[e.proof] = e.product.dev
      BY <2>1, <2>4, <3>1 DEF CodeHistory
    <3> QED
      BY <2>1, <2>2, <3>2 DEF CodeHistory, At
  <2> QED
    BY <1>11, <2>3, <2>4 DEF FinishAppend
<1>12. ASSUME NEW readable \in BOOLEAN, NEW known \in BOOLEAN, NEW saved \in BOOLEAN,
             Restart(readable, known, saved)
       PROVE  CodeHistory'
  <2>1. \A x \in Codes : clock'[x] = "unissued" => clock[x] = "unissued"
    BY <1>0, <1>12 DEF Restart, CheckTypes
  <2>2. \A q \in Requests : ~At(q, "finishAppend")'
    BY <1>12 DEF Restart, At, Idle
  <2> QED
    BY <1>12, <2>1, <2>2, HistFrame DEF Restart, VoidCode, histVars
<1> QED
  BY <1>1, <1>2, <1>3, <1>4, <1>5, <1>6, <1>7, <1>8, <1>9, <1>10, <1>11, <1>12 DEF Next, Handler

\* No code was drawn at the start.
LEMMA HistoryInit == Init => CodeHistory
  BY DEF Init, CodeHistory, At, Idle

\* A code stores a credential only for the device that first presented it correctly, even when
\* several devices race through their checks.
THEOREM FirstDeviceThm == Spec => []FirstDeviceOnly
<1>1. CodeHistory => FirstDeviceOnly
  BY DEF CodeHistory, FirstDeviceOnly
<1> QED
  BY <1>1, TypeInit, TypeStep, OnePlaceInit, StepMoves, OnePlaceStep, HistoryInit, HistoryStep, PTL DEF Spec

\* A code guessed wrong MaxFails times is dead, and never stored a credential.
THEOREM LockoutThm == Spec => []LockoutIsFinal
<1>1. TypeInv /\ CodeHistory => LockoutIsFinal
  <2> SUFFICES ASSUME TypeInv, CodeHistory, NEW c \in Codes, wrong[c] >= MaxFails
               PROVE  code.val # c /\ \A e \in enrolled : e.proof # c
    BY DEF LockoutIsFinal
  <2>1. CheckTypes
    BY TypePartsEq DEF TypeParts
  <2>2. code.val # c
    BY <2>1, LiveCodeType, NoCodeFacts
  <2>3. \A e \in enrolled : e.proof # c
    BY <2>1 DEF CodeHistory, CheckTypes
  <2> QED
    BY <2>2, <2>3
<1> QED
  BY <1>1, TypeInit, TypeStep, OnePlaceInit, StepMoves, OnePlaceStep, HistoryInit, HistoryStep, PTL DEF Spec

-----------------------------------------------------------------------------
(* The enrolment implements the one-shot secret. *)

\* What the abstract specification sees of a step.
LEMMA MovesSeen ==
    ASSUME OnePlace, Moves, NEW p \in Proofs
    PROVE  /\ Unissued(p)' => Unissued(p)
           /\ Place(p)' => Place(p) \/ Unissued(p)
           /\ Used(p) => Used(p)' /\ {e \in enrolled' : e.proof = p} = {e \in enrolled : e.proof = p}
           /\ Used(p)' /\ ~Used(p) =>
                 /\ Place(p) /\ ~Unissued(p)
                 /\ \E x \in Records : {e \in enrolled' : e.proof = p} = {[proof |-> p, product |-> x]}
<1>1. CASE UNCHANGED enrolled
  <2>1. Used(p)' <=> Used(p)
    BY <1>1 DEF Used
  <2>2. CASE Quiet
    BY <1>1, <2>1, <2>2 DEF Quiet, Steady, Place
  <2>3. ASSUME NEW p0 \in Proofs, IssuedToHub(p0)
        PROVE  (Unissued(p)' => Unissued(p)) /\ (Place(p)' => Place(p) \/ Unissued(p))
    BY <2>3 DEF IssuedToHub, Place
  <2>4. ASSUME NEW r0 \in Requests, NEW p0 \in Proofs,
               IssuedToSlot(r0, p0) \/ Recorded(r0, p0) \/ Spent(r0, p0) \/ Stored(r0, p0)
        PROVE  (Unissued(p)' => Unissued(p)) /\ (Place(p)' => Place(p) \/ Unissued(p))
    BY <2>4 DEF IssuedToSlot, Recorded, Spent, Stored, Place
  <2> QED
    BY <1>1, <2>1, <2>2, <2>3, <2>4 DEF Moves
<1>2. ASSUME NEW r0 \in Requests, NEW p0 \in Proofs, Stored(r0, p0)
      PROVE  /\ Unissued(p)' => Unissued(p)
             /\ Place(p)' => Place(p) \/ Unissued(p)
             /\ Used(p) => Used(p)' /\ {e \in enrolled' : e.proof = p} = {e \in enrolled : e.proof = p}
             /\ Used(p)' /\ ~Used(p) =>
                   /\ Place(p) /\ ~Unissued(p)
                   /\ \E x \in Records : {e \in enrolled' : e.proof = p} = {[proof |-> p, product |-> x]}
  <2>1. ~Used(p0) /\ Place(p0) /\ ~Unissued(p0)
    BY <1>2 DEF Stored, OnePlace, Place
  <2>2. PICK x \in Records : enrolled' = enrolled \cup {[proof |-> p0, product |-> x]}
    BY <1>2 DEF Stored
  <2>3. (Unissued(p)' => Unissued(p)) /\ (Place(p)' => Place(p))
    BY <1>2 DEF Stored, Place
  <2>4. CASE p = p0
    <3>1. {e \in enrolled' : e.proof = p} = {[proof |-> p, product |-> x]}
      BY <2>1, <2>2, <2>4 DEF Used
    <3> QED
      BY <2>1, <2>3, <2>4, <3>1
  <2>5. CASE p # p0
    <3>1. {e \in enrolled' : e.proof = p} = {e \in enrolled : e.proof = p}
      BY <2>2, <2>5
    <3>2. Used(p)' <=> Used(p)
      BY <2>2, <2>5 DEF Used
    <3> QED
      BY <2>3, <3>1, <3>2
  <2> QED
    BY <2>4, <2>5
<1> QED
  BY <1>1, <1>2 DEF Moves, Quiet, IssuedToHub, IssuedToSlot, Recorded, Spent

\* Every step is a step of the one-shot secret, or none.
LEMMA PresenceStep ==
    TypeInv' /\ OnePlace /\ Moves => Presence!Next
<1> SUFFICES ASSUME TypeInv', OnePlace, Moves PROVE Presence!Next
  OBVIOUS
<1>1. Stage' = [p \in Proofs |-> StageOf(p)']
  BY DEF Stage
<1>2. Stage' \in [Proofs -> Presence!Stages]
  BY <1>1 DEF StageOf, Presence!Stages
<1>3. enrolled' \in SUBSET [proof : Proofs, product : Records]
  BY TypePartsEq DEF TypeParts, RestTypes, Proofs
<1>4. ASSUME NEW p \in Proofs
      PROVE  \/ /\ \/ Stage'[p] = Stage[p]
                   \/ <<Stage[p], Stage'[p]>> \in Presence!Moves \ {<<"live", "used">>}
                /\ {y \in enrolled' : y.proof = p} = Presence!Yield(p)
             \/ /\ Stage[p] = "live" /\ Stage'[p] = "used"
                /\ \E x \in Records : {y \in enrolled' : y.proof = p} = {[proof |-> p, product |-> x]}
  <2>1. Stage[p] = StageOf(p) /\ Stage'[p] = StageOf(p)'
    BY <1>1 DEF Stage
  <2>2. CASE Used(p)' /\ ~Used(p)
    BY <2>1, <2>2, MovesSeen DEF StageOf
  <2>3. CASE Used(p)
    BY <2>1, <2>3, MovesSeen DEF StageOf, Presence!Yield
  <2>4. CASE ~Used(p)' /\ ~Used(p)
    <3>1. {y \in enrolled' : y.proof = p} = Presence!Yield(p)
      BY <2>4 DEF Used, Presence!Yield
    <3>2. \/ StageOf(p)' = StageOf(p)
          \/ StageOf(p) = "new" /\ StageOf(p)' \in {"live", "dead"}
          \/ StageOf(p) = "live" /\ StageOf(p)' = "dead"
      BY <2>4, MovesSeen DEF StageOf
    <3> QED
      BY <2>1, <3>1, <3>2 DEF Presence!Moves
  <2> QED
    BY <2>2, <2>3, <2>4
<1> QED
  BY <1>2, <1>3, <1>4 DEF Presence!Next

\* Enrolment implements the one-shot secret: whatever requests, timers, revokes and restarts do
\* between the critical sections, a code or a grant goes from new to live to used or dead, and only
\* its use stores a credential.
THEOREM PresenceThm == Spec => PresenceIsOneShot
<1>1. Init => Presence!Init
  BY DEF Init, TokInit, Presence!Init, Stage, StageOf, Used, Unissued
<1>2. TypeInv /\ TypeInv' /\ OnePlace /\ [Next]_vars => [Presence!Next]_<<Stage, enrolled>>
  BY StepMoves, PresenceStep
<1> QED
  BY <1>1, <1>2, TypeInit, TypeStep, OnePlaceInit, StepMoves, OnePlaceStep, PTL
     DEF Spec, PresenceIsOneShot, Presence!Spec

-----------------------------------------------------------------------------
(* What survives on disk. *)

\* The token store's memory and file agree unless the file could not be read at start.
TokensAgree ==
    /\ loadErr # "broken" => tokens = tokFile
    /\ tokens \cup tokFile \subseteq minted

\* The credential file may lag behind memory, by credentials whose token is already gone or that the
\* start failed to read.
CredsAgree ==
    /\ recs \subseteq recFile
    /\ \A x \in recFile : x.dev \in minted
    /\ \A x \in recFile \ recs : x.dev \notin tokFile \/ x \in unread

\* The cascade of a revoke starts after the token is durably gone.
CascadeAfterRevoke ==
    \A r \in Requests :
        /\ ~At(r, "idle") => req[r].dev \in minted
        /\ At(r, "cascade") => req[r].dev \notin tokFile

DurableInv == TokensAgree /\ CredsAgree /\ CascadeAfterRevoke

\* Nothing is stored at the start.
LEMMA DurableInit == Init => DurableInv
  BY DEF Init, TokInit, DurableInv, TokensAgree, CredsAgree, CascadeAfterRevoke, At, Idle

\* No credential is lost, no token is lost, by a step of this kind.
NothingLost ==
    /\ \A x \in (recs \cup recFile) \ (recs' \cup recFile') : x.dev \notin tokFile \/ x \in unread
    /\ \A d \in tokFile \ tokFile' : d \in tokens

\* A mint loses nothing.
LEMMA MintDurable ==
    ASSUME TokensAgree, NEW d \in Devices, NEW saved \in BOOLEAN, Mint(d, saved)
    PROVE  /\ TokensAgree'
           /\ tokFile \subseteq tokFile' /\ tokFile' \subseteq tokFile \cup {d}
           /\ minted' = minted \cup {d} /\ d \notin minted
  BY DEF Mint, SaveTokens, MaySave, TokensAgree

\* A revoke loses what its token is durably gone for.
LEMMA RevokeDurable ==
    ASSUME TokensAgree, NEW d \in Devices, NEW saved \in BOOLEAN, RevokeToken(d, saved)
    PROVE  /\ TokensAgree'
           /\ tokFile' \subseteq tokFile /\ tokFile \ tokFile' \subseteq {d} /\ d \in tokens
           /\ saved => d \notin tokFile'
           /\ minted' = minted
  BY DEF RevokeToken, SaveTokens, MaySave, TokensAgree

\* The step of a request loses nothing.
LEMMA SlotDurable ==
    ASSUME SlotTypes, CascadeAfterRevoke, NEW r \in Requests,
           tokFile' \subseteq tokFile, minted \subseteq minted'
    PROVE  /\ Done(r) => CascadeAfterRevoke'
           /\ \A step \in Steps \ {"cascade"} : Goto(r, step) /\ ~At(r, "idle") => CascadeAfterRevoke'
           /\ \A step \in Steps, d \in Devices, s \in Shown :
                 /\ Start(r, step, d, s) /\ d \in minted'
                 /\ step = "cascade" => d \notin tokFile'
                 => CascadeAfterRevoke'
           /\ UNCHANGED req => CascadeAfterRevoke'
<1>1. Done(r) => CascadeAfterRevoke'
  BY DEF SlotTypes, Done, Idle, CascadeAfterRevoke, At
<1>2. ASSUME NEW step \in Steps \ {"cascade"}, Goto(r, step), ~At(r, "idle")
      PROVE  CascadeAfterRevoke'
  BY <1>2 DEF SlotTypes, ReqRecords, Goto, CascadeAfterRevoke, At
<1>3. ASSUME NEW step \in Steps, NEW d \in Devices, NEW s \in Shown,
             Start(r, step, d, s), d \in minted', step = "cascade" => d \notin tokFile'
      PROVE  CascadeAfterRevoke'
  BY <1>3 DEF SlotTypes, ReqRecords, Start, CascadeAfterRevoke, At
<1>4. UNCHANGED req => CascadeAfterRevoke'
  BY DEF CascadeAfterRevoke, At
<1> QED
  BY <1>1, <1>2, <1>3, <1>4

\* Every step keeps the invariant and loses nothing.
LEMMA DurableStep == TypeInv /\ DurableInv /\ [Next]_vars => DurableInv' /\ NothingLost
<1> SUFFICES ASSUME TypeInv, DurableInv, [Next]_vars PROVE DurableInv' /\ NothingLost
  OBVIOUS
<1>0. SlotTypes /\ TokensAgree /\ CredsAgree /\ CascadeAfterRevoke
  BY TypePartsEq DEF TypeParts, DurableInv
(* A step that leaves both stores alone. *)
<1>a. ASSUME UNCHANGED <<tokVars, recs, recFile, unread>>, CascadeAfterRevoke'
      PROVE  DurableInv' /\ NothingLost
  BY <1>0, <1>a DEF tokVars, DurableInv, TokensAgree, CredsAgree, NothingLost
<1>1. CASE UNCHANGED vars
  BY <1>0, <1>1, <1>a DEF vars, tokVars, hubVars, CascadeAfterRevoke, At
<1>2. ASSUME NEW d \in Devices, NEW saved \in BOOLEAN, MintDirect(d, saved)
      PROVE  DurableInv' /\ NothingLost
  <2>1. Mint(d, saved) /\ UNCHANGED <<recs, recFile, unread, req>>
    BY <1>2 DEF MintDirect, hubVars
  <2>2. CredsAgree' /\ CascadeAfterRevoke'
    BY <1>0, <2>1, MintDurable DEF CredsAgree, CascadeAfterRevoke, At
  <2> QED
    BY <1>0, <2>1, <2>2, MintDurable DEF DurableInv, NothingLost
<1>3. ASSUME NEW r \in Requests, NEW d \in Devices, NEW saved \in BOOLEAN, MintPaired(r, d, saved)
      PROVE  DurableInv' /\ NothingLost
  <2>1. Mint(d, saved) /\ UNCHANGED <<recs, recFile, unread>>
    BY <1>3 DEF MintPaired, hubVars
  <2>2. CredsAgree'
    BY <1>0, <2>1, MintDurable DEF CredsAgree
  <2>3. CascadeAfterRevoke'
    BY <1>0, <1>3, <2>1, MintDurable
       DEF MintPaired, Start, SlotTypes, ReqRecords, CascadeAfterRevoke, At
  <2> QED
    BY <1>0, <2>1, <2>2, <2>3, MintDurable DEF DurableInv, NothingLost
<1>4. ASSUME NEW r \in Requests, NEW d \in Devices, NEW saved \in BOOLEAN, Revoke(r, d, saved)
      PROVE  DurableInv' /\ NothingLost
  <2>1. RevokeToken(d, saved) /\ UNCHANGED <<recs, recFile, unread>>
    BY <1>4 DEF Revoke, hubVars
  <2>2. CredsAgree'
    BY <1>0, <2>1, RevokeDurable DEF CredsAgree
  <2>3. CascadeAfterRevoke'
    BY <1>0, <1>4, <2>1, RevokeDurable, SlotDurable DEF Revoke, Steps, Shown, TokensAgree
  <2> QED
    BY <1>0, <2>1, <2>2, <2>3, RevokeDurable DEF DurableInv, NothingLost
<1>5. ASSUME NEW r \in Requests, NEW saved \in BOOLEAN, Cascade(r, saved)
      PROVE  DurableInv' /\ NothingLost
  <2> DEFINE kept == {x \in recs : x.dev # req[r].dev}
  <2>1. /\ recs' = kept /\ UNCHANGED tokVars
        /\ recFile' = kept \/ UNCHANGED <<recFile, unread>>
    BY <1>5 DEF Cascade
  <2>2. req[r].dev \notin tokFile
    BY <1>0, <1>5 DEF Cascade, CascadeAfterRevoke
  <2>3. CredsAgree' /\ NothingLost
    BY <1>0, <2>1, <2>2 DEF CredsAgree, NothingLost, tokVars
  <2>4. CascadeAfterRevoke'
    BY <1>0, <1>5, <2>1, SlotDurable DEF Cascade, tokVars
  <2> QED
    BY <1>0, <2>1, <2>3, <2>4 DEF DurableInv, TokensAgree, tokVars
<1>6. ASSUME NEW r \in Requests, NEW k \in Creds, NEW saved \in BOOLEAN, FinishAppend(r, k, saved)
      PROVE  DurableInv' /\ NothingLost
  <2>1. UNCHANGED tokVars /\ CascadeAfterRevoke'
    BY <1>0, <1>6, SlotDurable DEF FinishAppend, tokVars
  <2>2. CASE UNCHANGED <<recs, recFile, unread>>
    BY <1>a, <2>1, <2>2
  <2>3. CASE recs' = recs \cup {[dev |-> req[r].dev, cred |-> k]} /\ recFile' = recs'
    <3>1. req[r].dev \in minted
      BY <1>0, <1>6 DEF FinishAppend, CascadeAfterRevoke, At
    <3> QED
      BY <1>0, <2>1, <2>3, <3>1 DEF DurableInv, TokensAgree, CredsAgree, NothingLost, tokVars
  <2> QED
    BY <1>6, <2>2, <2>3 DEF FinishAppend
<1>7. ASSUME NEW readable \in BOOLEAN, NEW known \in BOOLEAN, NEW saved \in BOOLEAN,
             Restart(readable, known, saved)
      PROVE  DurableInv' /\ NothingLost
  <2>1. TokensAgree' /\ UNCHANGED <<tokFile, minted>>
    BY <1>0, <1>7 DEF Restart, LoadTokens, TokensAgree
  <2>2. ASSUME known PROVE CredsAgree' /\ NothingLost
    <3>1. \/ recs' = recFile
          \/ recs' = {x \in recFile : x.dev \in tokFile}
      BY <1>7, <2>2 DEF Restart, LoadTokens, Pruned
    <3>2. recFile' = recs' \/ recFile' = recFile
      BY <1>7 DEF Restart
    <3>3. \A x \in recFile \ recs' : x.dev \notin tokFile
      BY <3>1
    <3>4. NothingLost
      BY <1>0, <2>1, <3>2, <3>3 DEF CredsAgree, NothingLost
    <3>5. CredsAgree'
      BY <1>0, <2>1, <3>1, <3>2, <3>3 DEF CredsAgree
    <3> QED
      BY <3>4, <3>5
  <2>3. ASSUME ~known PROVE CredsAgree' /\ NothingLost
    <3>1. recs' = {} /\ recFile' = recFile /\ unread' = recFile
      BY <1>7, <2>3 DEF Restart, Pruned
    <3> QED
      BY <1>0, <2>1, <3>1 DEF CredsAgree, NothingLost
  <2>4. CredsAgree' /\ NothingLost
    BY <2>2, <2>3
  <2>5. CascadeAfterRevoke'
    BY <1>7 DEF Restart, CascadeAfterRevoke, At, Idle
  <2> QED
    BY <2>1, <2>4, <2>5 DEF DurableInv
<1>8. ASSUME NEW r \in Requests,
             BeginCheck(r) \/ BeginStore(r) \/ FinishCheck(r) \/ FinishSpend(r) \/ GrantPair(r) \/ Refuse(r)
      PROVE  DurableInv' /\ NothingLost
  <2>1. UNCHANGED <<tokVars, recs, recFile, unread>>
    BY <1>8 DEF BeginCheck, BeginStore, FinishCheck, FinishSpend, GrantPair, Refuse, hubVars
  <2>2. CascadeAfterRevoke'
    BY <1>0, <1>8, <2>1, SlotDurable
       DEF BeginCheck, BeginStore, FinishCheck, FinishSpend, GrantPair, Refuse, Steps, At, tokVars
  <2> QED
    BY <1>a, <2>1, <2>2
<1>9. ASSUME NEW r \in Requests, FinishTake(r)
      PROVE  DurableInv' /\ NothingLost
  <2>1. CascadeAfterRevoke'
    BY <1>0, <1>9 DEF FinishTake, tokVars, SlotTypes, ReqRecords, CascadeAfterRevoke, At
  <2> QED
    BY <1>9, <1>a, <2>1 DEF FinishTake
<1>10. ASSUME NEW r \in Requests, NEW d \in Devices, NEW s \in Shown, Begin(r, d, s) \/ Finish(r, d, s)
       PROVE  DurableInv' /\ NothingLost
  <2>1. UNCHANGED <<tokVars, recs, recFile, unread>> /\ d \in minted
    BY <1>0, <1>10 DEF Begin, Finish, hubVars, TokensAgree
  <2>2. CascadeAfterRevoke'
    BY <1>0, <1>10, <2>1, SlotDurable DEF Begin, Finish, Steps, tokVars
  <2> QED
    BY <1>a, <2>1, <2>2
<1>11. ASSUME \/ \E c \in Codes, written \in BOOLEAN : IssueCode(c, written)
              \/ \E c \in Codes : CodeLapses(c) \/ Timer(c)
              \/ \E d \in Devices : GrantExpires(d) \/ RegExpires(d)
       PROVE  DurableInv' /\ NothingLost
  <2>1. UNCHANGED <<tokVars, recs, recFile, unread, req>>
    BY <1>11 DEF IssueCode, CodeLapses, Timer, GrantExpires, RegExpires
  <2> QED
    BY <1>0, <1>a, <2>1 DEF CascadeAfterRevoke, At, tokVars
<1> QED
  BY <1>1, <1>2, <1>3, <1>4, <1>5, <1>6, <1>7, <1>8, <1>9, <1>10, <1>11 DEF Next, Handler, Arrival

\* A credential goes only when its device's token is durably gone, whatever writes fail, whenever
\* the process dies, and whether or not the token file can be read at the next start; or when the
\* passkey file itself could not be read at the last one.
THEOREM CredLossThm == Spec => CredLostOnlyByRevoke
<1>1. TypeInv /\ DurableInv /\ [Next]_vars =>
        [\A x \in (recs \cup recFile) \ (recs' \cup recFile') :
            x.dev \notin tokFile \/ x \in unread]_vars
  BY DurableStep DEF NothingLost
<1> QED
  BY <1>1, TypeInit, TypeStep, DurableInit, DurableStep, PTL DEF Spec, CredLostOnlyByRevoke

\* A token leaves the file only by a revoke that found it in memory.
THEOREM TokenLossThm == Spec => TokenLostOnlyByRevoke
<1>1. TypeInv /\ DurableInv /\ [Next]_vars => [\A d \in tokFile : d \notin tokFile' => d \in tokens]_tokVars
  BY DurableStep DEF NothingLost, vars, tokVars
<1> QED
  BY <1>1, TypeInit, TypeStep, DurableInit, DurableStep, PTL DEF Spec, TokenLostOnlyByRevoke

-----------------------------------------------------------------------------
(* Pairing, in the composition: its list of offers loses entries in the middle and at its ends.     *)

\* The instance of Pairing counts as FiniteSets does.
LEMMA SameCardinality == \A T : Pair!Cardinality(T) = Cardinality(T)
  BY DEF Pair!Cardinality, Cardinality, Pair!IsFiniteSet, IsFiniteSet

\* The places of a list are counted off one by one.
LEMMA Counted ==
  ASSUME NEW n \in Nat, NEW places \in SUBSET (1..n)
  PROVE  LET N == Pair!Cardinality(places) IN
         /\ N \in 0..n
         /\ \A i \in 1..N : Pair!Nth(places, i) \in places
         /\ \A i, j \in 1..N : Pair!Nth(places, i) = Pair!Nth(places, j) => i = j
         /\ \A k \in places : \E i \in 1..N : Pair!Nth(places, i) = k
  <1> DEFINE N == Cardinality(places)
             Below(k) == {j \in places : j <= k}
             Rank == [k \in places |-> Cardinality(Below(k))]
  <1>1. IsFiniteSet(places) /\ N \in 0..n
    <2>1. IsFiniteSet(1..n) /\ Cardinality(1..n) = n
      BY FS_Interval
    <2>2. IsFiniteSet(places) /\ Cardinality(places) <= n
      <3>1. places \in SUBSET (1..n)
        OBVIOUS
      <3>2. Cardinality(places) <= Cardinality(1..n)
        BY <2>1, <3>1, FS_Subset
      <3> QED
        BY <2>1, <3>1, <3>2, FS_Subset
    <2> QED
      BY <2>2, FS_CardinalityType
  <1>0. \A k \in places : k \in Nat
    OBVIOUS
  <1>2. ASSUME NEW k \in places PROVE IsFiniteSet(Below(k)) /\ Cardinality(Below(k)) \in 1..N
    <2>1. Below(k) \in SUBSET places /\ k \in Below(k)
      OBVIOUS
    <2>2. IsFiniteSet(Below(k)) /\ Cardinality(Below(k)) <= N
      BY <1>1, <2>1, FS_Subset
    <2>3. Cardinality(Below(k)) \in Nat /\ Cardinality(Below(k)) # 0
      BY <2>1, <2>2, FS_CardinalityType, FS_EmptySet
    <2> QED
      BY <1>1, <2>2, <2>3
  <1>3. ASSUME NEW k \in places, NEW l \in places, k < l PROVE Cardinality(Below(k)) # Cardinality(Below(l))
    <2>1. Below(k) \in SUBSET Below(l) /\ l \in Below(l) /\ l \notin Below(k)
      <3>1. k \in Nat /\ l \in Nat /\ k < l
        BY <1>0, <1>3
      <3>2. \A j \in Nat : j <= k => j <= l
        BY <3>1
      <3> QED
        <4>1. \A j \in places : j <= k => j <= l
          BY <1>0, <3>2
        <4>2. Below(k) \in SUBSET Below(l)
          BY <4>1
        <4>3. l <= l /\ ~(l <= k)
          BY <3>1
        <4> QED
          BY <4>2, <4>3
    <2> QED
      BY <1>2, <2>1, FS_Subset
  <1>4. Rank \in Injection(places, 1..N)
    <2>1. Rank \in [places -> 1..N]
      BY <1>2
    <2>2. ASSUME NEW k \in places, NEW l \in places, Rank[k] = Rank[l] PROVE k = l
      <3>1. Cardinality(Below(k)) = Cardinality(Below(l))
        BY <2>2
      <3>2. ~(k < l) /\ ~(l < k)
        BY <1>3, <3>1
      <3> QED
        BY <1>0, <3>2
    <2> HIDE DEF Rank
    <2> QED
      BY <2>1, <2>2 DEF Injection, IsInjective
  <1>5. IsFiniteSet(1..N) /\ Cardinality(1..N) = N
    BY <1>1, FS_Interval
  <1>6. Rank \in Surjection(places, 1..N)
    BY <1>4, <1>5, FS_Injection
  <1>7. \A i \in 1..N : \E k \in places : Cardinality(Below(k)) = i
    BY <1>6 DEF Surjection
  <1>8. \A i : Pair!Nth(places, i) = CHOOSE k \in places : Cardinality(Below(k)) = i
    BY SameCardinality DEF Pair!Nth
  <1> HIDE DEF Below
  <1>9. \A i \in 1..N : Pair!Nth(places, i) \in places /\ Cardinality(Below(Pair!Nth(places, i))) = i
    BY <1>7, <1>8
  <1>10. ASSUME NEW k \in places PROVE \E i \in 1..N : Pair!Nth(places, i) = k
    <2> DEFINE i == Cardinality(Below(k))
    <2>1. i \in 1..N /\ Pair!Nth(places, i) \in places /\ Cardinality(Below(Pair!Nth(places, i))) = i
      BY <1>2, <1>9
    <2>2. Pair!Nth(places, i) = k
      <3> HIDE DEF i
      <3>1. Cardinality(Below(k)) = i
        BY DEF i
      <3> QED
        <4> DEFINE l == Pair!Nth(places, i)
        <4>1. l \in places /\ Cardinality(Below(l)) = Cardinality(Below(k))
          BY <2>1, <3>1
        <4>2. ~(k < l) /\ ~(l < k)
          BY <1>3, <4>1
        <4>3. k \in Nat /\ l \in Nat
          BY <1>0, <4>1
        <4> HIDE DEF l
        <4>4. k = l
          BY <4>2, <4>3
        <4> QED
          BY <4>4 DEF l
    <2> QED
      BY <2>1, <2>2
  <1> QED
    BY <1>1, <1>9, <1>10, SameCardinality

\* What is left of a list.
LEMMA PartIs ==
  ASSUME NEW E, NEW list \in Seq(E), NEW places \in SUBSET DOMAIN list
  PROVE  /\ Pair!Part(list, places) \in Seq(E)
         /\ Pair!ToSet(Pair!Part(list, places)) = {list[k] : k \in places}
         /\ Pair!IsInjective(list) => Pair!IsInjective(Pair!Part(list, places))
         /\ Len(Pair!Part(list, places)) = Pair!Cardinality(places)
  <1> DEFINE N == Pair!Cardinality(places)
             nth(i) == Pair!Nth(places, i)
  <1>1. places \in SUBSET (1..Len(list)) /\ Len(list) \in Nat
    OBVIOUS
  <1>2. /\ N \in 0..Len(list)
        /\ \A i \in 1..N : nth(i) \in places
        /\ \A i, j \in 1..N : nth(i) = nth(j) => i = j
        /\ \A k \in places : \E i \in 1..N : nth(i) = k
    BY <1>1, Counted
  <1>3. Pair!Part(list, places) = [i \in 1..N |-> list[nth(i)]]
    BY DEF Pair!Part
  <1> HIDE DEF N, nth
  <1>4. Pair!Part(list, places) \in Seq(E) /\ Len(Pair!Part(list, places)) = N
    BY <1>1, <1>2, <1>3
  <1>5. Pair!ToSet(Pair!Part(list, places)) = {list[k] : k \in places}
    <2>1. DOMAIN Pair!Part(list, places) = 1..N
      BY <1>3
    <2>2. Pair!ToSet(Pair!Part(list, places)) = {list[nth(i)] : i \in 1..N}
      BY <1>3, <2>1 DEF Pair!ToSet
    <2> QED
      BY <1>2, <2>2
  <1>6. Pair!IsInjective(list) => Pair!IsInjective(Pair!Part(list, places))
    BY <1>1, <1>2, <1>3 DEF Pair!IsInjective
  <1> QED
    BY <1>4, <1>5, <1>6 DEF N

\* The end of a list, with a new entry.
LEMMA AppendIs ==
  ASSUME NEW E, NEW list \in Seq(E), NEW e \in E
  PROVE  /\ Append(list, e) \in Seq(E) /\ Append(list, e) # <<>>
         /\ Append(list, e)[Len(Append(list, e))] = e
         /\ Pair!ToSet(Append(list, e)) = Pair!ToSet(list) \cup {e}
         /\ Pair!IsInjective(list) /\ e \notin Pair!ToSet(list) => Pair!IsInjective(Append(list, e))
  <1> DEFINE l == Append(list, e)
             n == Len(list)
  <1>1. l \in Seq(E) /\ Len(l) = n + 1 /\ n \in Nat /\ l # <<>>
    OBVIOUS
  <1>2. l[n + 1] = e /\ \A i \in 1..n : l[i] = list[i]
    OBVIOUS
  <1>3. DOMAIN l = 1..n + 1 /\ DOMAIN list = 1..n
    OBVIOUS
  <1> HIDE DEF l, n
  <1>4. Pair!ToSet(l) = Pair!ToSet(list) \cup {e}
    <2>1. \A i \in 1..n + 1 : i \in 1..n \/ i = n + 1
      BY <1>1
    <2>2. \A i \in 1..n : i \in 1..n + 1
      BY <1>1
    <2>3. n + 1 \in 1..n + 1
      BY <1>1
    <2> QED
      BY <1>2, <1>3, <2>1, <2>2, <2>3 DEF Pair!ToSet
  <1>5. Pair!IsInjective(list) /\ e \notin Pair!ToSet(list) => Pair!IsInjective(l)
    BY <1>1, <1>2, <1>3 DEF Pair!ToSet, Pair!IsInjective
  <1> QED
    BY <1>1, <1>2, <1>4, <1>5 DEF l, n

\* The newest entries of a list are of the list, and the last is among them.
LEMMA NewestIs ==
  ASSUME PairMaxLive \in Nat \ {0}, NEW E, NEW list \in Seq(E)
  PROVE  /\ Pair!Newest(list) \in Seq(E)
         /\ Pair!ToSet(Pair!Newest(list)) \subseteq Pair!ToSet(list)
         /\ list # <<>> => list[Len(list)] \in Pair!ToSet(Pair!Newest(list))
         /\ Pair!IsInjective(list) => Pair!IsInjective(Pair!Newest(list))
  <1> DEFINE l == Pair!Newest(list)
             n == Len(list)
             p == PairMaxLive
  <1>1. n \in Nat /\ DOMAIN list = 1..n /\ (list # <<>> => n # 0)
    OBVIOUS
  <1>2. CASE n > p
    <2>1. l = SubSeq(list, n - p + 1, n)
      BY <1>2 DEF Pair!Newest
    <2>2. l \in Seq(E) /\ DOMAIN l = 1..p /\ \A i \in 1..p : l[i] = list[n - p + i]
      BY <1>1, <1>2, <2>1
    <2>3. \A i \in 1..p : n - p + i \in 1..n
      BY <1>1, <1>2
    <2> HIDE DEF l, n
    <2>4. p \in 1..p /\ n - p + p = n
      BY <1>1
    <2>5. Pair!ToSet(l) \subseteq Pair!ToSet(list) /\ list[n] \in Pair!ToSet(l)
      BY <1>1, <2>2, <2>3, <2>4 DEF Pair!ToSet
    <2>6. Pair!IsInjective(list) => Pair!IsInjective(l)
      <3> SUFFICES ASSUME Pair!IsInjective(list), NEW i \in 1..p, NEW j \in 1..p, l[i] = l[j] PROVE i = j
        BY <2>2 DEF Pair!IsInjective
      <3>1. list[n - p + i] = list[n - p + j] /\ n - p + i \in 1..n /\ n - p + j \in 1..n
        BY <2>2, <2>3
      <3>2. n - p + i = n - p + j
        BY <1>1, <3>1 DEF Pair!IsInjective
      <3> QED
        BY <1>1, <3>2
    <2> QED
      BY <2>2, <2>5, <2>6 DEF l, n
  <1>3. CASE ~(n > p)
    <2>1. l = list
      BY <1>3 DEF Pair!Newest
    <2>2. n # 0 => list[n] \in Pair!ToSet(list)
      BY <1>1 DEF Pair!ToSet
    <2> QED
      BY <1>1, <2>1, <2>2
  <1> QED
    BY <1>2, <1>3

\* The offers in the list, and those that made a token.
Listed == Pair!ToSet(offers)
Redeemed(o) == \E m \in minting : m.proof = o

\* An offer that is listed or held or redeemed was made, and a redeemed one is in no place any more.
OffersMade ==
  \A o \in Offers :
    /\ o \in Listed \/ Pair!Held(o) \/ Redeemed(o) => lapses[o] # "unissued"
    /\ Redeemed(o) => o \notin Listed /\ ~Pair!Held(o)

\* A redeem at work has what it works on.
RedeemsHave ==
  \A r \in Requests :
    /\ redeems[r].pc = "taken" => redeems[r].offer \in Offers
    /\ redeems[r].pc = "grant" => redeems[r].dev \in Devices

PairInv == Pair!TypeOK /\ Pair!OfferInOnePlace /\ Pair!RefusalLeavesOffer /\ OffersMade /\ RedeemsHave

\* The list without what lapsed.
LEMMA PrunedIs ==
  ASSUME Pair!TypeOK, Pair!IsInjective(offers)
  PROVE  /\ Pair!Pruned \in Seq(Offers) /\ Pair!IsInjective(Pair!Pruned)
         /\ Pair!ToSet(Pair!Pruned) = {u \in Listed : Pair!Fresh(u)}
  <1> DEFINE places == {i \in DOMAIN offers : Pair!Fresh(offers[i])}
  <1>1. offers \in Seq(Offers)
    BY DEF Pair!TypeOK
  <1>2. Pair!Pruned = Pair!Part(offers, places) /\ places \in SUBSET DOMAIN offers
    BY DEF Pair!Pruned
  <1>3. {offers[k] : k \in places} = {u \in Listed : Pair!Fresh(u)}
    BY DEF Listed, Pair!ToSet
  <1> HIDE DEF places
  <1> QED
    BY <1>1, <1>2, <1>3, PartIs

\* What a new offer does to the list.
LEMMA OfferDoes ==
  ASSUME PairMaxLive \in Nat \ {0}, Pair!TypeOK, Pair!OfferInOnePlace, OffersMade,
         NEW o \in Offers, Pair!Offer(o)
  PROVE  /\ offers' \in Seq(Offers) /\ Pair!IsInjective(offers')
         /\ o \in Listed' /\ Listed' \subseteq {u \in Listed : Pair!Fresh(u)} \cup {o}
         /\ gone' = gone \cup ({u \in Listed : Pair!Fresh(u)} \ Listed')
         /\ o \notin Listed /\ ~Pair!Held(o) /\ ~Redeemed(o)
  <1>1. Pair!IsInjective(offers) /\ lapses[o] = "unissued"
    BY DEF Pair!OfferInOnePlace, Pair!Offer
  <1>2. o \notin Listed /\ ~Pair!Held(o) /\ ~Redeemed(o)
    BY <1>1 DEF OffersMade
  <1> DEFINE p == Pair!Pruned
             l == Append(p, o)
  <1>3. /\ p \in Seq(Offers) /\ Pair!IsInjective(p)
        /\ Pair!ToSet(p) = {u \in Listed : Pair!Fresh(u)}
    BY <1>1, PrunedIs
  <1>4. offers' = Pair!Newest(l) /\ gone' = gone \cup (Pair!ToSet(p) \ Listed')
    BY DEF Pair!Offer, Listed
  <1> HIDE DEF p
  <1>5. /\ l \in Seq(Offers) /\ l # <<>> /\ l[Len(l)] = o /\ Pair!ToSet(l) = Pair!ToSet(p) \cup {o}
        /\ Pair!IsInjective(l)
    BY <1>2, <1>3, AppendIs
  <1> HIDE DEF l
  <1>6. /\ offers' \in Seq(Offers) /\ Pair!IsInjective(offers')
        /\ Pair!ToSet(offers') \subseteq Pair!ToSet(l) /\ o \in Pair!ToSet(offers')
    BY <1>4, <1>5, NewestIs
  <1>7. Listed' = Pair!ToSet(offers')
    BY DEF Listed
  <1> QED
    BY <1>2, <1>3, <1>4, <1>5, <1>6, <1>7

\* What taking an offer out does to it, known or not.
LEMMA TakeDoes ==
  ASSUME Pair!TypeOK, Pair!OfferInOnePlace, NEW r, NEW o \in Offers, NEW who, Pair!Take(r, o, who)
  PROVE  /\ offers' \in Seq(Offers) /\ Pair!IsInjective(offers')
         /\ o \in Listed => Listed' = Listed \ {o}
         /\ o \notin Listed => Listed' = {u \in Listed : Pair!Fresh(u)}
  <1>1. offers \in Seq(Offers) /\ Pair!IsInjective(offers)
    BY DEF Pair!TypeOK, Pair!OfferInOnePlace
  <1>2. Listed' = Pair!ToSet(offers')
    BY DEF Listed
  <1>3. CASE o \in Listed
    <2> DEFINE places == {i \in DOMAIN offers : offers[i] # o}
    <2>1. offers' = Pair!Part(offers, places) /\ places \in SUBSET DOMAIN offers
      BY <1>3 DEF Pair!Take, Listed
    <2>2. {offers[k] : k \in places} = Listed \ {o}
      BY DEF Listed, Pair!ToSet
    <2> HIDE DEF places
    <2> QED
      BY <1>1, <1>2, <1>3, <2>1, <2>2, PartIs
  <1>4. CASE o \notin Listed
    <2>1. offers' = Pair!Pruned
      BY <1>4 DEF Pair!Take, Listed
    <2> QED
      BY <1>1, <1>2, <1>4, <2>1, PrunedIs
  <1> QED
    BY <1>3, <1>4

\* What putting one back does.
LEMMA PutBackDoes ==
  ASSUME Pair!TypeOK, Pair!OfferInOnePlace, RedeemsHave, NEW r \in Requests, Pair!PutBack(r)
  PROVE  /\ offers' \in Seq(Offers) /\ Pair!IsInjective(offers')
         /\ redeems[r].offer \in Offers /\ Listed' = Listed \cup {redeems[r].offer}
  <1>1. offers \in Seq(Offers) /\ Pair!IsInjective(offers) /\ redeems[r].offer \in Offers
        /\ redeems[r].offer \notin Listed
    BY DEF Pair!TypeOK, Pair!OfferInOnePlace, Pair!PutBack, Listed, RedeemsHave
  <1>2. offers' = Append(offers, redeems[r].offer)
    BY DEF Pair!PutBack
  <1> QED
    BY <1>1, <1>2, AppendIs DEF Listed

\* What a slot for a redeem may hold.
Slots == [pc : {"idle", "taken", "grant"}, offer : Offers \cup {None}, dev : Devices \cup {None},
          by : Pair!Callers]

\* The invariant holds at first.
LEMMA PairInitially == ASSUME None \notin Offers \cup Devices PROVE Pair!Init => PairInv
  <1> SUFFICES ASSUME Pair!Init PROVE PairInv
    OBVIOUS
  <1>1. \A r \in Requests : redeems[r] = Pair!Idle
    BY DEF Pair!Init
  <1>2. Pair!Idle \in Slots /\ Pair!Idle.pc = "idle"
    BY DEF Pair!Idle, Slots, Pair!Callers
  <1>3. Pair!TypeOK
    <2>1. Pair!TokTypeOK
      BY DEF Pair!Init, Pair!TokInit, Pair!TokTypeOK
    <2>2. redeems \in [Requests -> Slots]
      BY <1>2 DEF Pair!Init
    <2> QED
      BY <2>1, <2>2 DEF Pair!Init, Pair!TypeOK, Slots
  <1>4. Listed = {} /\ \A o \in Offers : ~Pair!Held(o) /\ ~Redeemed(o)
    BY <1>1, <1>2 DEF Pair!Init, Listed, Pair!ToSet, Pair!Held, Redeemed
  <1>5. Pair!OfferInOnePlace /\ RedeemsHave
    BY <1>1, <1>2 DEF Pair!Init, Pair!OfferInOnePlace, RedeemsHave, Pair!IsInjective
  <1>6. Pair!RefusalLeavesOffer
    BY DEF Pair!Init, Pair!RefusalLeavesOffer, Pair!Fresh
  <1> QED
    BY <1>3, <1>4, <1>5, <1>6 DEF PairInv, OffersMade

\* The token store keeps its types.
LEMMA PairTokens ==
  ASSUME Pair!TokTypeOK
  PROVE  /\ \A d \in Devices, saved \in BOOLEAN :
              Pair!Mint(d, saved) \/ Pair!RevokeToken(d, saved) => Pair!TokTypeOK'
         /\ \A readable \in BOOLEAN : Pair!LoadTokens(readable) => Pair!TokTypeOK'
         /\ UNCHANGED Pair!tokVars => Pair!TokTypeOK'
  <1>1. ASSUME NEW d \in Devices, NEW saved \in BOOLEAN, Pair!Mint(d, saved) PROVE Pair!TokTypeOK'
    BY <1>1 DEF Pair!Mint, Pair!SaveTokens, Pair!TokTypeOK
  <1>2. ASSUME NEW d \in Devices, NEW saved \in BOOLEAN, Pair!RevokeToken(d, saved) PROVE Pair!TokTypeOK'
    BY <1>2 DEF Pair!RevokeToken, Pair!SaveTokens, Pair!TokTypeOK
  <1>3. ASSUME NEW readable \in BOOLEAN, Pair!LoadTokens(readable) PROVE Pair!TokTypeOK'
    BY <1>3 DEF Pair!LoadTokens, Pair!TokTypeOK
  <1>4. UNCHANGED Pair!tokVars => Pair!TokTypeOK'
    BY DEF Pair!tokVars, Pair!TokTypeOK
  <1> QED
    BY <1>1, <1>2, <1>3, <1>4

\* What a step does to the redeem r alone.
Only(r, x) == redeems' = [redeems EXCEPT ![r] = x]

\* A step of one redeem: who holds which offer afterwards.
LEMMA RedeemSlot ==
  ASSUME PairInv, NEW r \in Requests, NEW x \in Slots, Only(r, x),
         x.pc = "taken" => x.offer \in Offers, x.pc = "grant" => x.dev \in Devices
  PROVE  /\ redeems' \in [Requests -> Slots] /\ RedeemsHave'
         /\ redeems'[r] = x /\ \A q \in Requests \ {r} : redeems'[q] = redeems[q]
         /\ x.pc # "taken" /\ redeems[r].pc = "taken" =>
              \A u \in Offers : Pair!Held(u)' <=> Pair!Held(u) /\ u # redeems[r].offer
         /\ x.pc # "taken" /\ redeems[r].pc # "taken" => \A u \in Offers : Pair!Held(u)' <=> Pair!Held(u)
         /\ x.pc = "taken" /\ redeems[r].pc # "taken" =>
              \A u \in Offers : Pair!Held(u)' <=> Pair!Held(u) \/ u = x.offer
  <1>1. redeems \in [Requests -> Slots] /\ RedeemsHave /\ Pair!OfferInOnePlace
    BY DEF PairInv, Pair!TypeOK, Slots
  <1>2. redeems' \in [Requests -> Slots] /\ redeems'[r] = x /\ \A q \in Requests \ {r} : redeems'[q] = redeems[q]
    BY <1>1 DEF Only
  <1>3. RedeemsHave'
    BY <1>1, <1>2 DEF RedeemsHave
  <1>4. \A u : Pair!Held(u) <=> \E q \in Requests : redeems[q].pc = "taken" /\ redeems[q].offer = u
    BY DEF Pair!Held
  <1>5. \A u : Pair!Held(u)' <=> \E q \in Requests : redeems'[q].pc = "taken" /\ redeems'[q].offer = u
    BY DEF Pair!Held
  <1>6. \A q \in Requests \ {r} : redeems[r].pc = "taken" /\ redeems[q].pc = "taken" =>
          redeems[q].offer # redeems[r].offer
    BY <1>1 DEF Pair!OfferInOnePlace
  <1>7. x.pc # "taken" /\ redeems[r].pc = "taken" =>
          \A u \in Offers : Pair!Held(u)' <=> Pair!Held(u) /\ u # redeems[r].offer
    BY <1>2, <1>4, <1>5, <1>6
  <1>8. x.pc # "taken" /\ redeems[r].pc # "taken" => \A u \in Offers : Pair!Held(u)' <=> Pair!Held(u)
    BY <1>2, <1>4, <1>5
  <1>9. x.pc = "taken" /\ redeems[r].pc # "taken" =>
          \A u \in Offers : Pair!Held(u)' <=> Pair!Held(u) \/ u = x.offer
    BY <1>2, <1>4, <1>5
  <1> QED
    BY <1>2, <1>3, <1>7, <1>8, <1>9

\* An offer stays in one place when only one redeem takes or lets go of it.
LEMMA OnePlaceKept ==
  ASSUME PairInv, NEW r \in Requests, \A q \in Requests \ {r} : redeems'[q] = redeems[q],
         Pair!IsInjective(offers'),
         \A q \in Requests \ {r} : redeems[q].pc = "taken" => redeems[q].offer \notin Listed',
         redeems'[r].pc = "taken" =>
            /\ redeems'[r].offer \notin Listed'
            /\ \A q \in Requests \ {r} : redeems[q].pc = "taken" => redeems[q].offer # redeems'[r].offer
  PROVE  Pair!OfferInOnePlace'
  BY DEF PairInv, Pair!OfferInOnePlace, Listed

\* What no step does: an offer that is gone comes back.
NoOfferReturns ==
  /\ UNCHANGED minting
  /\ \A u \in Offers :
       /\ lapses'[u] = "unissued" => lapses[u] = "unissued"
       /\ u \in Listed' \/ Pair!Held(u)' => u \in Listed \/ Pair!Held(u) \/ lapses[u] = "unissued"

\* One moves on, with what it yields.
OfferRedeemed(o, d) ==
  /\ minting' = minting \cup {[proof |-> o, product |-> d]}
  /\ o \in Listed \/ Pair!Held(o)
  /\ UNCHANGED lapses
  /\ \A u \in Offers : u \in Listed' \/ Pair!Held(u)' => u \in Listed \/ Pair!Held(u)

\* Where an offer is in its life.
OfferStage(o) ==
  IF Redeemed(o) THEN "used"
  ELSE IF lapses[o] = "unissued" THEN "new"
  ELSE IF o \in Listed \/ Pair!Held(o) THEN "live" ELSE "dead"

\* The stage that the refinement gives an offer is its one.
LEMMA StageIs == OffersMade => Pair!Stage = [o \in Offers |-> OfferStage(o)]
  <1> SUFFICES ASSUME OffersMade PROVE Pair!Stage = [o \in Offers |-> OfferStage(o)]
    OBVIOUS
  <1>1. ASSUME NEW o \in Offers
        PROVE  (CASE \E m \in minting : m.proof = o -> "used"
                  [] lapses[o] = "unissued" -> "new"
                  [] o \in Pair!ToSet(offers) \/ Pair!Held(o) -> "live"
                  [] OTHER -> "dead") = OfferStage(o)
    <2>1. /\ Redeemed(o) <=> \E m \in minting : m.proof = o
          /\ o \in Listed <=> o \in Pair!ToSet(offers)
      BY DEF Redeemed, Listed
    <2>2. /\ o \in Listed \/ Pair!Held(o) \/ Redeemed(o) => lapses[o] # "unissued"
          /\ Redeemed(o) => o \notin Listed /\ ~Pair!Held(o)
      BY DEF OffersMade
    <2>3. CASE Redeemed(o)
      BY <2>1, <2>2, <2>3 DEF OfferStage
    <2>4. CASE lapses[o] = "unissued"
      BY <2>1, <2>2, <2>4 DEF OfferStage
    <2>5. CASE ~Redeemed(o) /\ lapses[o] # "unissued"
      BY <2>1, <2>2, <2>5 DEF OfferStage
    <2> QED
      BY <2>3, <2>4, <2>5
  <1> QED
    BY <1>1 DEF Pair!Stage

\* What a step that redeems nothing is to the one-shot secret.
LEMMA QuietMoves ==
  ASSUME NoOfferReturns, NEW o \in Offers
  PROVE  /\ OfferStage(o)' = OfferStage(o) \/ <<OfferStage(o), OfferStage(o)'>> \in Pair!Ticket!Moves \ {<<"live", "used">>}
         /\ {y \in minting' : y.proof = o} = Pair!Ticket!Yield(o)
  <1>1. /\ UNCHANGED minting
        /\ lapses'[o] = "unissued" => lapses[o] = "unissued"
        /\ o \in Listed' \/ Pair!Held(o)' => o \in Listed \/ Pair!Held(o) \/ lapses[o] = "unissued"
    BY DEF NoOfferReturns
  <1>2. Redeemed(o)' <=> Redeemed(o)
    BY <1>1 DEF Redeemed
  <1>3. OfferStage(o)' = IF Redeemed(o)' THEN "used"
                      ELSE IF lapses'[o] = "unissued" THEN "new"
                      ELSE IF o \in Listed' \/ Pair!Held(o)' THEN "live" ELSE "dead"
    BY DEF OfferStage
  <1>4. {y \in minting' : y.proof = o} = Pair!Ticket!Yield(o)
    BY <1>1 DEF Pair!Ticket!Yield
  <1> QED
    BY <1>1, <1>2, <1>3, <1>4 DEF OfferStage, Pair!Ticket!Moves

\* ... and one that redeems.
LEMMA RedeemMoves ==
  ASSUME PairInv, NEW o \in Offers, NEW d \in Devices, OfferRedeemed(o, d), NEW u \in Offers
  PROVE  \/ /\ OfferStage(u)' = OfferStage(u) \/ <<OfferStage(u), OfferStage(u)'>> \in Pair!Ticket!Moves \ {<<"live", "used">>}
            /\ {y \in minting' : y.proof = u} = Pair!Ticket!Yield(u)
         \/ /\ OfferStage(u) = "live" /\ OfferStage(u)' = "used"
            /\ {y \in minting' : y.proof = u} = {[proof |-> u, product |-> d]}
  <1>1. /\ minting' = minting \cup {[proof |-> o, product |-> d]} /\ (o \in Listed \/ Pair!Held(o))
        /\ UNCHANGED lapses
        /\ u \in Listed' \/ Pair!Held(u)' => u \in Listed \/ Pair!Held(u)
    BY DEF OfferRedeemed
  <1>2. OfferStage(u)' = IF Redeemed(u)' THEN "used"
                      ELSE IF lapses'[u] = "unissued" THEN "new"
                      ELSE IF u \in Listed' \/ Pair!Held(u)' THEN "live" ELSE "dead"
    BY DEF OfferStage
  <1>3. CASE u = o
    <2>0. ~Redeemed(u) /\ lapses[u] # "unissued"
      BY <1>1, <1>3 DEF PairInv, OffersMade
    <2>1. ~Redeemed(u) /\ lapses[u] # "unissued" /\ Redeemed(u)'
      <3>1. [proof |-> o, product |-> d] \in minting' /\ [proof |-> o, product |-> d].proof = u
        BY <1>1, <1>3
      <3> QED
        BY <2>0, <3>1 DEF Redeemed
    <2>2. {y \in minting' : y.proof = u} = {[proof |-> u, product |-> d]}
      BY <1>1, <1>3, <2>1 DEF Redeemed
    <2> QED
      BY <1>1, <1>2, <1>3, <2>1, <2>2 DEF OfferStage
  <1>4. CASE u # o
    <2>1. Redeemed(u)' <=> Redeemed(u)
      BY <1>1, <1>4 DEF Redeemed
    <2>2. {y \in minting' : y.proof = u} = Pair!Ticket!Yield(u)
      BY <1>1, <1>4 DEF Pair!Ticket!Yield
    <2> QED
      BY <1>1, <1>2, <2>1, <2>2 DEF OfferStage, Pair!Ticket!Moves
  <1> QED
    BY <1>3, <1>4

\* The places of an offer and what became of it decide the rest of the invariant.
LEMMA OffersKeptBy ==
  ASSUME PairInv,
         \A u \in Offers :
           /\ u \in Listed' \/ Pair!Held(u)' => lapses'[u] # "unissued" /\ ~Redeemed(u)'
           /\ Redeemed(u)' => lapses'[u] # "unissued"
           /\ lapses'[u] = "fresh" => u \in Listed' \/ Pair!Held(u)' \/ u \in gone' \/ Redeemed(u)'
  PROVE  OffersMade' /\ Pair!RefusalLeavesOffer'
  <1>1. OffersMade'
    BY DEF OffersMade
  <1>2. Pair!RefusalLeavesOffer'
    BY DEF Pair!RefusalLeavesOffer, Pair!Fresh, Redeemed, Listed
  <1> QED
    BY <1>1, <1>2

\* What the invariant says of an offer.
LEMMA OfferFacts ==
  ASSUME PairInv, NEW u \in Offers
  PROVE  /\ u \in Listed \/ Pair!Held(u) => lapses[u] # "unissued" /\ ~Redeemed(u)
         /\ Redeemed(u) => lapses[u] # "unissued"
         /\ lapses[u] = "fresh" => u \in Listed \/ Pair!Held(u) \/ u \in gone \/ Redeemed(u)
         /\ Pair!Fresh(u) <=> lapses[u] = "fresh"
         /\ lapses[u] \in {"unissued", "fresh", "lapsed"}
  BY DEF PairInv, OffersMade, Pair!RefusalLeavesOffer, Pair!Fresh, Redeemed, Listed, Pair!TypeOK

\* What a step leaves alone.
LEMMA PairFrame ==
  ASSUME PairInv
  PROVE  /\ UNCHANGED minting => \A u \in Offers : Redeemed(u)' <=> Redeemed(u)
         /\ UNCHANGED offers => Listed' = Listed /\ offers' \in Seq(Offers) /\ Pair!IsInjective(offers')
         /\ UNCHANGED redeems => /\ \A u \in Offers : Pair!Held(u)' <=> Pair!Held(u)
                                 /\ redeems' \in [Requests -> Slots] /\ RedeemsHave'
  <1>1. UNCHANGED minting => \A u \in Offers : Redeemed(u)' <=> Redeemed(u)
    BY DEF Redeemed
  <1>2. UNCHANGED offers => Listed' = Listed /\ offers' \in Seq(Offers) /\ Pair!IsInjective(offers')
    BY DEF PairInv, Pair!TypeOK, Pair!OfferInOnePlace, Listed
  <1>3. UNCHANGED redeems => /\ \A u \in Offers : Pair!Held(u)' <=> Pair!Held(u)
                             /\ redeems' \in [Requests -> Slots] /\ RedeemsHave'
    BY DEF PairInv, Pair!TypeOK, Slots, Pair!Held, RedeemsHave
  <1> QED
    BY <1>1, <1>2, <1>3

\* The types of what is Pairing's own.
OffersPart ==
  /\ offers \in Seq(Offers)
  /\ lapses \in [Offers -> {"unissued", "fresh", "lapsed"}]
  /\ redeems \in [Requests -> Slots] /\ RedeemsHave
  /\ minting \in SUBSET [proof : Offers, product : Devices]
  /\ granted \in SUBSET Devices /\ gone \in SUBSET Offers

\* The invariant by its parts.
LEMMA PairParts ==
  Pair!TokTypeOK' /\ OffersPart' /\ Pair!OfferInOnePlace' /\ Pair!RefusalLeavesOffer' /\ OffersMade' => PairInv'
  BY DEF PairInv, Pair!TypeOK, OffersPart, Slots

\* Making an offer.
LEMMA OfferStep ==
  ASSUME PairMaxLive \in Nat \ {0}, PairInv, NEW o \in Offers, Pair!Offer(o)
  PROVE  PairInv' /\ NoOfferReturns
  <1>1. /\ lapses[o] = "unissued" /\ lapses' = [lapses EXCEPT ![o] = "fresh"]
        /\ UNCHANGED <<Pair!tokVars, redeems, minting, granted>>
    BY DEF Pair!Offer
  <1>2. /\ offers' \in Seq(Offers) /\ Pair!IsInjective(offers')
        /\ o \in Listed' /\ Listed' \subseteq {u \in Listed : Pair!Fresh(u)} \cup {o}
        /\ gone' = gone \cup ({u \in Listed : Pair!Fresh(u)} \ Listed')
        /\ o \notin Listed /\ ~Pair!Held(o) /\ ~Redeemed(o)
    BY OfferDoes DEF PairInv
  <1>3. /\ \A u \in Offers : Redeemed(u)' <=> Redeemed(u)
        /\ \A u \in Offers : Pair!Held(u)' <=> Pair!Held(u)
        /\ redeems' \in [Requests -> Slots] /\ RedeemsHave'
    BY <1>1, PairFrame
  <1>4. /\ lapses' \in [Offers -> {"unissued", "fresh", "lapsed"}] /\ lapses'[o] = "fresh"
        /\ \A u \in Offers \ {o} : lapses'[u] = lapses[u]
    BY <1>1 DEF PairInv, Pair!TypeOK
  <1>5. OffersPart'
    BY <1>1, <1>2, <1>3, <1>4 DEF OffersPart, PairInv, Pair!TypeOK, Listed, Pair!ToSet
  <1>6. Pair!TokTypeOK'
    BY <1>1, PairTokens DEF PairInv, Pair!TypeOK
  <1>7. Pair!OfferInOnePlace'
    BY <1>1, <1>2 DEF PairInv, Pair!OfferInOnePlace, Pair!Held, Listed, RedeemsHave
  <1>8. OffersMade' /\ Pair!RefusalLeavesOffer'
    BY <1>2, <1>3, <1>4, OfferFacts, OffersKeptBy
  <1>9. NoOfferReturns
    BY <1>1, <1>2, <1>3, <1>4 DEF NoOfferReturns
  <1> QED
    BY <1>5, <1>6, <1>7, <1>8, <1>9, PairParts

\* The records a redeem may be in.
LEMMA SlotsAre ==
  /\ Pair!Idle \in Slots /\ Pair!Idle.pc = "idle"
  /\ \A o \in Offers, who \in Pair!Callers :
       LET x == [pc |-> "taken", offer |-> o, dev |-> None, by |-> who] IN
       x \in Slots /\ x.pc = "taken" /\ x.offer = o
  BY DEF Slots, Pair!Idle, Pair!Callers

\* Taking one: listed and fresh, listed and lapsed, or unknown.
LEMMA TakeStep ==
  ASSUME PairInv, NEW r \in Requests, NEW o \in Offers, NEW who \in Pair!Callers,
         lapses[o] # "unissued", Pair!Take(r, o, who)
  PROVE  PairInv' /\ NoOfferReturns
  <1> DEFINE x == [pc |-> "taken", offer |-> o, dev |-> None, by |-> who]
  <1>1. /\ redeems[r].pc = "idle"
        /\ UNCHANGED <<Pair!tokVars, lapses, minting, granted, gone>>
    BY DEF Pair!Take
  <1>2. /\ offers' \in Seq(Offers) /\ Pair!IsInjective(offers')
        /\ o \in Listed => Listed' = Listed \ {o}
        /\ o \notin Listed => Listed' = {u \in Listed : Pair!Fresh(u)}
    BY TakeDoes DEF PairInv
  <1>3. \A u \in Offers : Redeemed(u)' <=> Redeemed(u)
    BY <1>1, PairFrame
  <1>4. x \in Slots /\ x.pc = "taken" /\ x.offer = o
    BY SlotsAre
  <1> HIDE DEF x
  <1>5. CASE o \in Listed /\ Pair!Fresh(o)
    <2>1. Only(r, x)
      BY <1>5 DEF Only, x, Pair!Take, Listed
    <2>2. /\ redeems' \in [Requests -> Slots] /\ RedeemsHave'
          /\ redeems'[r] = x /\ \A q \in Requests \ {r} : redeems'[q] = redeems[q]
          /\ \A u \in Offers : Pair!Held(u)' <=> Pair!Held(u) \/ u = o
      BY <1>1, <1>4, <2>1, RedeemSlot
    <2>3. OffersPart'
      BY <1>1, <1>2, <2>2 DEF OffersPart, PairInv, Pair!TypeOK
    <2>4. Pair!OfferInOnePlace'
      <3>1. \A q \in Requests \ {r} : redeems[q].pc = "taken" =>
              redeems[q].offer \notin Listed /\ redeems[q].offer # o
        BY <1>5 DEF PairInv, Pair!OfferInOnePlace, Listed
      <3> QED
        BY <1>2, <1>4, <1>5, <2>2, <3>1, OnePlaceKept
    <2>5. OffersMade' /\ Pair!RefusalLeavesOffer'
      BY <1>1, <1>2, <1>3, <1>5, <2>2, OfferFacts, OffersKeptBy
    <2>6. NoOfferReturns
      BY <1>1, <1>2, <1>5, <2>2 DEF NoOfferReturns
    <2> QED
      BY <1>1, <2>3, <2>4, <2>5, <2>6, PairParts, PairTokens DEF PairInv, Pair!TypeOK
  <1>6. CASE ~(o \in Listed /\ Pair!Fresh(o))
    <2>1. UNCHANGED redeems
      BY <1>6 DEF Pair!Take, Listed
    <2>2. /\ \A u \in Offers : Pair!Held(u)' <=> Pair!Held(u)
          /\ redeems' \in [Requests -> Slots] /\ RedeemsHave'
      BY <2>1, PairFrame
    <2>3. OffersPart'
      BY <1>1, <1>2, <2>2 DEF OffersPart, PairInv, Pair!TypeOK
    <2>4. Listed' \subseteq Listed
      BY <1>2
    <2>5. Pair!OfferInOnePlace'
      BY <1>2, <2>1, <2>4 DEF PairInv, Pair!OfferInOnePlace, Listed
    <2>6. OffersMade' /\ Pair!RefusalLeavesOffer'
      <3>1. \A u \in Listed : Pair!Fresh(u) => u \in Listed'
        BY <1>2, <1>6
      <3> QED
        BY <1>1, <1>3, <2>2, <2>4, <3>1, OfferFacts, OffersKeptBy
    <2>7. NoOfferReturns
      BY <1>1, <2>2, <2>4 DEF NoOfferReturns
    <2> QED
      BY <1>1, <2>3, <2>5, <2>6, <2>7, PairParts, PairTokens DEF PairInv, Pair!TypeOK
  <1> QED
    BY <1>5, <1>6

\* Refused: it goes back.
LEMMA PutBackStep ==
  ASSUME PairInv, NEW r \in Requests, Pair!PutBack(r)
  PROVE  PairInv' /\ NoOfferReturns
  <1> DEFINE o == redeems[r].offer
  <1>1. /\ redeems[r].pc = "taken" /\ Only(r, Pair!Idle)
        /\ UNCHANGED <<Pair!tokVars, lapses, minting, granted, gone>>
    BY DEF Pair!PutBack, Only
  <1>2. /\ offers' \in Seq(Offers) /\ Pair!IsInjective(offers')
        /\ o \in Offers /\ Listed' = Listed \cup {o}
    BY PutBackDoes DEF PairInv
  <1>3. \A u \in Offers : Redeemed(u)' <=> Redeemed(u)
    BY <1>1, PairFrame
  <1>4. /\ redeems' \in [Requests -> Slots] /\ RedeemsHave'
        /\ redeems'[r] = Pair!Idle /\ \A q \in Requests \ {r} : redeems'[q] = redeems[q]
        /\ \A u \in Offers : Pair!Held(u)' <=> Pair!Held(u) /\ u # o
    BY <1>1, SlotsAre, RedeemSlot
  <1>5. Pair!Held(o)
    BY <1>1, <1>2 DEF Pair!Held
  <1>6. OffersPart'
    BY <1>1, <1>2, <1>4 DEF OffersPart, PairInv, Pair!TypeOK
  <1>7. Pair!OfferInOnePlace'
    <2>1. \A q \in Requests \ {r} : redeems[q].pc = "taken" => redeems[q].offer \notin Listed'
      BY <1>1, <1>2 DEF PairInv, Pair!OfferInOnePlace, Listed
    <2> QED
      BY <1>2, <1>4, <2>1, SlotsAre, OnePlaceKept
  <1> HIDE DEF o
  <1>8. OffersMade' /\ Pair!RefusalLeavesOffer'
    BY <1>1, <1>2, <1>3, <1>4, <1>5, OfferFacts, OffersKeptBy
  <1>9. NoOfferReturns
    BY <1>1, <1>2, <1>4, <1>5 DEF NoOfferReturns
  <1> QED
    BY <1>1, <1>6, <1>7, <1>8, <1>9, PairParts, PairTokens DEF PairInv, Pair!TypeOK

\* Redeemed, or lost to a failed write.
LEMMA MintStep ==
  ASSUME PairInv, NEW r \in Requests, NEW d \in Devices, NEW saved \in BOOLEAN, Pair!RedeemMint(r, d, saved)
  PROVE  PairInv' /\ (NoOfferReturns \/ \E o \in Offers : OfferRedeemed(o, d))
  <1> DEFINE o == redeems[r].offer
             x == IF saved /\ o \in ActOffers THEN [redeems[r] EXCEPT !.pc = "grant", !.dev = d] ELSE Pair!Idle
  <1>1. /\ redeems[r].pc = "taken" /\ Pair!Mint(d, saved) /\ UNCHANGED <<offers, lapses, granted>>
        /\ minting' = IF saved THEN minting \cup {[proof |-> o, product |-> d]} ELSE minting
        /\ gone' = IF saved THEN gone ELSE gone \cup {o}
    BY DEF Pair!RedeemMint
  <1>2. o \in Offers /\ redeems \in [Requests -> Slots] /\ redeems[r] \in Slots
    BY <1>1 DEF PairInv, RedeemsHave, Pair!TypeOK, Slots
  <1>3. x \in Slots /\ x.pc # "taken" /\ (x.pc = "grant" => x.dev \in Devices)
    <2>1. CASE saved /\ o \in ActOffers
      <3> DEFINE y == [redeems[r] EXCEPT !.pc = "grant", !.dev = d]
      <3>1. y \in Slots /\ y.pc = "grant" /\ y.dev = d
        BY <1>2 DEF Slots
      <3>2. x = y
        BY <2>1
      <3> HIDE DEF x, y
      <3> QED
        BY <3>1, <3>2
    <2>2. CASE ~(saved /\ o \in ActOffers)
      <3>1. x = Pair!Idle
        BY <2>2
      <3> QED
        BY <3>1, SlotsAre
    <2> QED
      BY <2>1, <2>2
  <1>4. Only(r, x)
    <2>1. redeems' = IF saved /\ o \in ActOffers
                     THEN [redeems EXCEPT ![r].pc = "grant", ![r].dev = d] ELSE [redeems EXCEPT ![r] = Pair!Idle]
      BY DEF Pair!RedeemMint
    <2> QED
      BY <1>2, <2>1 DEF Only
  <1> HIDE DEF x
  <1>5. /\ redeems' \in [Requests -> Slots] /\ RedeemsHave'
        /\ redeems'[r] = x /\ \A q \in Requests \ {r} : redeems'[q] = redeems[q]
        /\ \A u \in Offers : Pair!Held(u)' <=> Pair!Held(u) /\ u # o
    BY <1>1, <1>3, <1>4, RedeemSlot
  <1>6. Listed' = Listed /\ offers' \in Seq(Offers) /\ Pair!IsInjective(offers')
    BY <1>1, PairFrame
  <1>7. Pair!Held(o) /\ o \notin Listed
    BY <1>1, <1>2 DEF Pair!Held, PairInv, Pair!OfferInOnePlace, Listed
  <1>8. OffersPart'
    <2>1. [proof |-> o, product |-> d] \in [proof : Offers, product : Devices]
      BY <1>2
    <2>2. minting' \in SUBSET [proof : Offers, product : Devices]
      BY <1>1, <2>1 DEF PairInv, Pair!TypeOK
    <2>3. gone' \in SUBSET Offers
      BY <1>1, <1>2 DEF PairInv, Pair!TypeOK
    <2> QED
      BY <1>1, <1>5, <1>6, <2>2, <2>3 DEF OffersPart, PairInv, Pair!TypeOK
  <1>9. Pair!OfferInOnePlace'
    <2>1. \A q \in Requests \ {r} : redeems[q].pc = "taken" => redeems[q].offer \notin Listed'
      BY <1>6 DEF PairInv, Pair!OfferInOnePlace, Listed
    <2> QED
      BY <1>3, <1>5, <1>6, <2>1, OnePlaceKept
  <1>10. Pair!TokTypeOK'
    BY <1>1, PairTokens DEF PairInv, Pair!TypeOK
  <1> HIDE DEF o
  <1>11. \A u \in Offers : Redeemed(u)' <=> Redeemed(u) \/ (saved /\ u = o)
    <2>1. CASE saved
      <3>1. \A m : m \in minting' <=> m \in minting \/ m = [proof |-> o, product |-> d]
        BY <1>1, <2>1
      <3>2. [proof |-> o, product |-> d].proof = o
        OBVIOUS
      <3> QED
        BY <2>1, <3>1, <3>2 DEF Redeemed
    <2>2. CASE ~saved
      BY <1>1, <2>2 DEF Redeemed
    <2> QED
      BY <2>1, <2>2
  <1>12. OffersMade' /\ Pair!RefusalLeavesOffer'
    BY <1>1, <1>2, <1>5, <1>6, <1>7, <1>11, OfferFacts, OffersKeptBy
  <1>13. CASE saved
    <2>1. OfferRedeemed(o, d)
      BY <1>1, <1>5, <1>6, <1>7, <1>13 DEF OfferRedeemed
    <2> QED
      BY <1>2, <1>8, <1>9, <1>10, <1>12, <2>1, PairParts
  <1>14. CASE ~saved
    <2>1. NoOfferReturns
      BY <1>1, <1>5, <1>6, <1>14 DEF NoOfferReturns
    <2> QED
      BY <1>8, <1>9, <1>10, <1>12, <2>1, PairParts
  <1> QED
    BY <1>13, <1>14

\* The grant, after the offer is spent.
LEMMA GrantStep ==
  ASSUME PairInv, NEW r \in Requests, Pair!Grant(r)
  PROVE  PairInv' /\ NoOfferReturns
  <1>1. /\ redeems[r].pc = "grant" /\ Only(r, Pair!Idle) /\ granted' = granted \cup {redeems[r].dev}
        /\ UNCHANGED <<Pair!tokVars, offers, lapses, minting, gone>>
    BY DEF Pair!Grant, Only
  <1>2. /\ redeems' \in [Requests -> Slots] /\ RedeemsHave'
        /\ redeems'[r] = Pair!Idle /\ \A q \in Requests \ {r} : redeems'[q] = redeems[q]
        /\ \A u \in Offers : Pair!Held(u)' <=> Pair!Held(u)
    BY <1>1, SlotsAre, RedeemSlot
  <1>3. /\ Listed' = Listed /\ offers' \in Seq(Offers) /\ Pair!IsInjective(offers')
        /\ \A u \in Offers : Redeemed(u)' <=> Redeemed(u)
    BY <1>1, PairFrame
  <1>4. OffersPart'
    BY <1>1, <1>2, <1>3 DEF OffersPart, PairInv, Pair!TypeOK, RedeemsHave
  <1>5. Pair!OfferInOnePlace'
    <2>1. \A q \in Requests \ {r} : redeems[q].pc = "taken" => redeems[q].offer \notin Listed'
      BY <1>3 DEF PairInv, Pair!OfferInOnePlace, Listed
    <2> QED
      BY <1>2, <1>3, <2>1, SlotsAre, OnePlaceKept
  <1>6. OffersMade' /\ Pair!RefusalLeavesOffer'
    BY <1>1, <1>2, <1>3, OfferFacts, OffersKeptBy
  <1>7. NoOfferReturns
    BY <1>1, <1>2, <1>3 DEF NoOfferReturns
  <1> QED
    BY <1>1, <1>4, <1>5, <1>6, <1>7, PairParts, PairTokens DEF PairInv, Pair!TypeOK

\* Time, and whatever concerns the tokens alone.
LEMMA ClockStep ==
  ASSUME PairInv, UNCHANGED <<offers, redeems, minting, granted, gone>>, Pair!TokTypeOK',
         UNCHANGED lapses \/ \E o \in Offers : Pair!Fresh(o) /\ lapses' = [lapses EXCEPT ![o] = "lapsed"]
  PROVE  PairInv' /\ NoOfferReturns
  <1>1. /\ Listed' = Listed /\ offers' \in Seq(Offers) /\ Pair!IsInjective(offers')
        /\ \A u \in Offers : Redeemed(u)' <=> Redeemed(u)
        /\ \A u \in Offers : Pair!Held(u)' <=> Pair!Held(u)
        /\ redeems' \in [Requests -> Slots] /\ RedeemsHave'
    BY PairFrame
  <1>2. /\ lapses' \in [Offers -> {"unissued", "fresh", "lapsed"}]
        /\ \A u \in Offers : lapses'[u] = lapses[u] \/ (lapses[u] = "fresh" /\ lapses'[u] = "lapsed")
    BY DEF PairInv, Pair!TypeOK, Pair!Fresh
  <1>3. OffersPart'
    BY <1>1, <1>2 DEF OffersPart, PairInv, Pair!TypeOK
  <1>4. Pair!OfferInOnePlace'
    BY <1>1 DEF PairInv, Pair!OfferInOnePlace
  <1>5. OffersMade' /\ Pair!RefusalLeavesOffer'
    BY <1>1, <1>2, OfferFacts, OffersKeptBy
  <1>6. NoOfferReturns
    BY <1>1, <1>2 DEF NoOfferReturns
  <1> QED
    BY <1>3, <1>4, <1>5, <1>6, PairParts

\* A restart.
LEMMA RestartStep ==
  ASSUME PairInv, NEW readable \in BOOLEAN, Pair!Restart(readable)
  PROVE  PairInv' /\ NoOfferReturns
  <1>1. /\ offers' = <<>> /\ redeems' = [r \in Requests |-> Pair!Idle] /\ Pair!LoadTokens(readable)
        /\ gone' = gone \cup {o \in Offers : o \in Listed \/ Pair!Held(o)}
        /\ UNCHANGED <<lapses, minting, granted>>
    BY DEF Pair!Restart, Listed
  <1>2. /\ redeems' \in [Requests -> Slots] /\ \A r \in Requests : redeems'[r].pc = "idle"
    BY <1>1, SlotsAre
  <1>3. /\ Listed' = {} /\ offers' \in Seq(Offers) /\ Pair!IsInjective(offers')
        /\ \A u \in Offers : ~Pair!Held(u)'
        /\ RedeemsHave'
    BY <1>1, <1>2 DEF Listed, Pair!ToSet, Pair!IsInjective, Pair!Held, RedeemsHave
  <1>4. \A u \in Offers : Redeemed(u)' <=> Redeemed(u)
    BY <1>1, PairFrame
  <1>5. OffersPart'
    BY <1>1, <1>2, <1>3 DEF OffersPart, PairInv, Pair!TypeOK
  <1>6. Pair!OfferInOnePlace'
    BY <1>2, <1>3 DEF Pair!OfferInOnePlace
  <1>7. OffersMade' /\ Pair!RefusalLeavesOffer'
    BY <1>1, <1>3, <1>4, OfferFacts, OffersKeptBy
  <1>8. NoOfferReturns
    BY <1>1, <1>3 DEF NoOfferReturns
  <1> QED
    BY <1>1, <1>5, <1>6, <1>7, <1>8, PairParts, PairTokens DEF PairInv, Pair!TypeOK

\* Every step keeps the invariant; it redeems one offer, or brings none back.
LEMMA PairStep ==
  ASSUME PairMaxLive \in Nat \ {0}, PairInv, [Pair!Next]_Pair!vars
  PROVE  PairInv' /\ (NoOfferReturns \/ \E o \in Offers, d \in Devices : OfferRedeemed(o, d))
  <1>0. Pair!TokTypeOK
    BY DEF PairInv, Pair!TypeOK
  <1>1. ASSUME NEW o \in Offers, Pair!Offer(o) PROVE PairInv' /\ NoOfferReturns
    BY <1>1, OfferStep
  <1>2. ASSUME NEW o \in Offers, Pair!Lapse(o) PROVE PairInv' /\ NoOfferReturns
    BY <1>0, <1>2, PairTokens, ClockStep DEF Pair!Lapse
  <1>3. ASSUME NEW r \in Requests, Pair!Redeem(r)
        PROVE  PairInv' /\ (NoOfferReturns \/ \E o \in Offers, d \in Devices : OfferRedeemed(o, d))
    BY <1>3, TakeStep, PutBackStep, MintStep, GrantStep DEF Pair!Redeem
  <1>4. ASSUME NEW d \in Devices, NEW saved \in BOOLEAN, Pair!Revoke(d, saved) PROVE PairInv' /\ NoOfferReturns
    BY <1>0, <1>4, PairTokens, ClockStep DEF Pair!Revoke, Pair!pairVars
  <1>5. ASSUME NEW readable \in BOOLEAN, Pair!Restart(readable) PROVE PairInv' /\ NoOfferReturns
    BY <1>5, RestartStep
  <1>6. CASE UNCHANGED Pair!vars
    BY <1>0, <1>6, PairTokens, ClockStep DEF Pair!vars, Pair!pairVars
  <1> QED
    BY <1>1, <1>2, <1>3, <1>4, <1>5, <1>6 DEF Pair!Next

\* What Assumptions says of the offers.
LEMMA PairFacts == PairMaxLive \in Nat \ {0} /\ None \notin Offers \cup Devices
  BY Assumptions DEF Assumptions, Pair!PairingAssumption

\* A step of the enrolment keeps what Pairing shares with it.
LEMMA SceneStep ==
  ASSUME (scene \in {"device", "codes"} => TypeInv), PairInv, [MCNext]_<<scene, vars, pairVars, runVars>>
  PROVE  /\ (scene \in {"device", "codes"} => TypeInv)'
         /\ PairInv' /\ (NoOfferReturns \/ \E o \in Offers, d \in Devices : OfferRedeemed(o, d))
  <1>1. CASE scene \in {"device", "codes"} /\ Next /\ UNCHANGED <<scene, pairVars, runVars>>
    <2>1. TypeInv'
      BY <1>1, TypeStep
    <2>2. Pair!TokTypeOK'
      BY <2>1 DEF TypeInv, TypeOK, TokTypeOK, Pair!TokTypeOK
    <2> QED
      BY <1>1, <2>1, <2>2, ClockStep DEF pairVars
  <1>2. CASE scene = "pairing" /\ Pair!Next /\ UNCHANGED <<scene, enrolVars, runVars>>
    BY <1>2, PairFacts, PairStep
  <1>3. CASE UNCHANGED <<scene, vars, pairVars>>
    <2>1. Pair!TokTypeOK'
      BY <1>3 DEF PairInv, Pair!TypeOK, Pair!TokTypeOK, vars, tokVars
    <2>2. TypeInv => TypeInv'
      BY <1>3, TypeStep
    <2> QED
      BY <1>3, <2>1, <2>2, ClockStep DEF pairVars
  <1> QED
    BY <1>1, <1>2, <1>3 DEF MCNext

\* The invariant holds in whatever scene a behaviour is.
LEMMA OfferInvariant == MCSpec => [](PairInv /\ (scene \in {"device", "codes"} => TypeInv))
  <1>1. MCInit => PairInv /\ (scene \in {"device", "codes"} => TypeInv)
    BY PairFacts, PairInitially, TypeInit DEF MCInit
  <1> QED
    BY <1>1, SceneStep, PTL DEF MCSpec

\* An offer is in the list once, or held by one redeem, or nowhere, and within its three minutes a refused
\* redeem leaves it for the real phone (src/pair.go).
THEOREM OffersThm == MCSpec => []OffersKept
  <1>1. PairInv => OffersKept
    BY DEF PairInv, OffersKept
  <1> QED
    BY <1>1, OfferInvariant, PTL

\* A pairing QR mints at most one token, and never works again once it was spent, displaced or lost.
THEOREM OfferThm == MCSpec => OfferIsOneShot
  <1>1. MCInit => Pair!Ticket!Init
    <2> SUFFICES ASSUME MCInit PROVE Pair!Ticket!Init
      OBVIOUS
    <2>1. PairInv /\ minting = {} /\ lapses = [o \in Offers |-> "unissued"]
      BY PairFacts, PairInitially DEF MCInit, Pair!Init
    <2>2. \A o \in Offers : OfferStage(o) = "new"
      BY <2>1 DEF OfferStage, Redeemed
    <2> QED
      BY <2>1, <2>2, StageIs DEF Pair!Ticket!Init, PairInv
  <1>2. PairInv /\ PairInv' /\ (scene \in {"device", "codes"} => TypeInv)
          /\ [MCNext]_<<scene, vars, pairVars, runVars>> => [Pair!Ticket!Next]_<<Pair!Stage, minting>>
    <2> SUFFICES ASSUME PairInv, PairInv', scene \in {"device", "codes"} => TypeInv,
                        [MCNext]_<<scene, vars, pairVars, runVars>>
                 PROVE  Pair!Ticket!Next
      OBVIOUS
    <2>1. NoOfferReturns \/ \E o \in Offers, d \in Devices : OfferRedeemed(o, d)
      BY SceneStep
    <2>2. Pair!Stage = [o \in Offers |-> OfferStage(o)]
      BY StageIs DEF PairInv
    <2>3. (OffersMade => Pair!Stage = [o \in Offers |-> OfferStage(o)])'
      BY StageIs, PTL
    <2>4. Pair!Stage' = [o \in Offers |-> OfferStage(o)']
      BY <2>3 DEF PairInv
    <2>5. \A o \in Offers : OfferStage(o)' \in Pair!Ticket!Stages
      BY DEF OfferStage, Pair!Ticket!Stages
    <2>6. Pair!Stage' \in [Offers -> Pair!Ticket!Stages]
      BY <2>4, <2>5
    <2>7. minting' \in SUBSET [proof : Offers, product : Devices]
      BY DEF PairInv, Pair!TypeOK
    <2>8. \A u \in Offers :
            \/ /\ OfferStage(u)' = OfferStage(u)
                    \/ <<OfferStage(u), OfferStage(u)'>> \in Pair!Ticket!Moves \ {<<"live", "used">>}
               /\ {y \in minting' : y.proof = u} = Pair!Ticket!Yield(u)
            \/ /\ OfferStage(u) = "live" /\ OfferStage(u)' = "used"
               /\ \E d \in Devices : {y \in minting' : y.proof = u} = {[proof |-> u, product |-> d]}
      BY <2>1, QuietMoves, RedeemMoves
    <2> QED
      BY <2>2, <2>4, <2>6, <2>7, <2>8 DEF Pair!Ticket!Next
  <1> QED
    BY <1>1, <1>2, OfferInvariant, PTL DEF MCSpec, OfferIsOneShot, Pair!OfferIsOneShot, Pair!Ticket!Spec

-----------------------------------------------------------------------------
(* Running a line with the key: what TowerRunProofs proves of TowerRun alone, for the runs of       *)
(* MCPasskeyEnrol.                                                                                  *)

Rp == INSTANCE TowerRunProofs WITH
    Devices <- {plain}, Caps <- (plain :> {"run:ro", "run:mut"}), Versions <- {1, 2}, Sha <- MutSha,
    Par <- MutPar, Class <- MutClass, Sound <- {1, 2}, NeedsArm <- {},
    Chals <- Codes, tokens <- bearers, recs <- keyed, req <- asks

\* The instance of MCPasskeyEnrol and the one with the proofs are the same specification.
LEMMA SameRunNames ==
  /\ Run!Binding = Rp!Binding /\ Run!Lines = Rp!Lines /\ Run!Idle = Rp!Idle /\ Run!Shas = Rp!Shas
  /\ Run!Kinds = Rp!Kinds /\ Run!PasskeyClasses = Rp!PasskeyClasses /\ Run!Steps = Rp!Steps
  /\ \A class : Run!CapFor(class) = Rp!CapFor(class)
  BY DEF Run!Binding, Rp!Binding, Run!Lines, Rp!Lines, Run!Idle, Rp!Idle, Run!Shas, Rp!Shas,
         Run!Kinds, Rp!Kinds, Run!PasskeyClasses, Rp!PasskeyClasses, Run!CapFor, Rp!CapFor, Run!Steps, Rp!Steps

\* So their behaviours, types and invariants are the same.
LEMMA SameRuns ==
  /\ Run!Init <=> Rp!Init
  /\ Run!Next <=> Rp!Next
  /\ Run!TypeOK <=> Rp!TypeOK
  /\ Run!StartedAsShown <=> Rp!StartedAsShown
  /\ Run!ReceiptIsFresh <=> Rp!ReceiptIsFresh
  /\ Run!StartsAuthorised <=> Rp!StartsAuthorised
  <1>1. Run!Init <=> Rp!Init
    BY SameRunNames DEF Run!Init, Rp!Init
  <1>2. Run!Next <=> Rp!Next
    BY DEF
           Run!Idle, Rp!Idle, Run!Steps, Rp!Steps, Run!At, Rp!At, Run!Goto, Rp!Goto, Run!Done, Rp!Done,
           Run!Line, Rp!Line, Run!LineOK, Rp!LineOK, Run!RunnerOK, Rp!RunnerOK, Run!MayChallenge,
           Rp!MayChallenge, Run!MayStart, Rp!MayStart, Run!NeedsPasskey, Rp!NeedsPasskey, Run!AskChallenge,
           Rp!AskChallenge, Run!ChallengeVerify, Rp!ChallengeVerify, Run!ChallengeCreds, Rp!ChallengeCreds,
           Run!ChallengeStore, Rp!ChallengeStore, Run!ChallengeExpires, Rp!ChallengeExpires, Run!AskRun,
           Rp!AskRun, Run!Release, Rp!Release, Run!RunVerify, Rp!RunVerify, Run!Bound, Rp!Bound,
           Run!SpendTake, Rp!SpendTake, Run!SpendCaps, Rp!SpendCaps, Run!Unchanged, Rp!Unchanged,
           Run!SpendCreds, Rp!SpendCreds, Run!SpendStore, Rp!SpendStore, Run!RunRefused, Rp!RunRefused,
           Run!RunDup, Rp!RunDup, Run!RunnerAccepts, Rp!RunnerAccepts, Run!Start, Rp!Start, Run!Undup,
           Rp!Undup, Run!RunExec, Rp!RunExec, Run!DupLapses, Rp!DupLapses, Run!AskArm, Rp!AskArm,
           Run!ArmVerify, Rp!ArmVerify, Run!ArmExec, Rp!ArmExec, Run!Revoke, Rp!Revoke, Run!Cascade,
           Rp!Cascade, Run!Resign, Rp!Resign, Run!ArmLapses, Rp!ArmLapses, Run!ElevationEnds,
           Rp!ElevationEnds, Run!Locked, Rp!Locked, Run!Unlocked, Rp!Unlocked, Run!Arrival, Rp!Arrival,
           Run!Next, Rp!Next, Run!hist, Rp!hist, Run!world, Rp!world, Run!vars, Rp!vars, Run!Shas, Rp!Shas,
           Run!Pars, Rp!Pars, Run!Kinds, Rp!Kinds, Run!Lines, Rp!Lines, Run!PasskeyClasses,
           Rp!PasskeyClasses, Run!CapFor, Rp!CapFor, Run!Binding, Rp!Binding
  <1>3. Run!TypeOK <=> Rp!TypeOK
    BY SameRunNames DEF Run!TypeOK, Rp!TypeOK
  <1>4. Run!StartedAsShown <=> Rp!StartedAsShown
    BY DEF Run!StartedAsShown, Rp!StartedAsShown
  <1>5. Run!ReceiptIsFresh <=> Rp!ReceiptIsFresh
    BY DEF Run!ReceiptIsFresh, Rp!ReceiptIsFresh
  <1>6. Run!StartsAuthorised <=> Rp!StartsAuthorised
    BY SameRunNames DEF Run!StartsAuthorised, Rp!StartsAuthorised
  <1> QED
    BY <1>1, <1>2, <1>3, <1>4, <1>5, <1>6

\* The assumptions of TowerRun hold of this instance, so its lemmas do.
LEMMA RunFacts ==
  /\ Rp!Init => Rp!Inv
  /\ Rp!Inv /\ [Rp!Next]_Rp!vars => Rp!Inv'
  /\ Rp!Inv => Rp!TypeOK
  /\ Rp!Inv /\ [Rp!Next]_Rp!vars =>
       \A i \in DOMAIN receipts' \ DOMAIN receipts : receipts'[i].got.dev \notin revoked
  /\ Rp!Inv /\ Rp!Inv' /\ [Rp!Next]_Rp!vars => [Rp!Challenge!Next]_<<Rp!Stage, Rp!Yielded>>
  <1>1. {1, 2} \subseteq Nat /\ 1 \in {1, 2}
    OBVIOUS
  <1>2. Rp!IsFiniteSet(Codes)
    BY Assumptions DEF Assumptions, Rp!IsFiniteSet, IsFiniteSet
  <1>3. None \notin {plain} \cup Requests \cup Codes \cup Rp!Binding
    BY Assumptions, SameRunNames DEF Assumptions
  <1>4. Rp!Init => Rp!Inv
    BY <1>1, <1>2, <1>3, Rp!InitInv
  <1>5. Rp!Inv /\ [Rp!Next]_Rp!vars => Rp!Inv'
    BY <1>1, <1>2, <1>3, Rp!NextInv
  <1>6. Rp!Inv => Rp!TypeOK
    BY <1>1, <1>2, <1>3, Rp!Records DEF Rp!Inv
  <1>7. Rp!Inv /\ [Rp!Next]_Rp!vars =>
          \A i \in DOMAIN receipts' \ DOMAIN receipts : receipts'[i].got.dev \notin revoked
    BY <1>1, <1>2, <1>3, Rp!NoReceiptStep DEF Rp!Inv
  <1>8. Rp!Inv /\ Rp!Inv' /\ [Rp!Next]_Rp!vars => [Rp!Challenge!Next]_<<Rp!Stage, Rp!Yielded>>
    BY <1>1, <1>2, <1>3, Rp!Implements
  <1> QED
    BY <1>4, <1>5, <1>6, <1>7, <1>8

\* A step of any scene is a step of the run, or none of its.
LEMMA StepRuns == [MCNext]_<<scene, vars, pairVars, runVars>> => [Rp!Next]_Rp!vars
  <1> SUFFICES ASSUME [MCNext]_<<scene, vars, pairVars, runVars>> PROVE [Rp!Next]_Rp!vars
    OBVIOUS
  <1>1. Run!Next \/ UNCHANGED runVars
    BY DEF MCNext
  <1>2. UNCHANGED runVars => UNCHANGED Rp!vars
    BY DEF runVars, Rp!vars, Rp!world, Rp!hist
  <1> QED
    BY <1>1, <1>2, SameRuns

\* The invariant of the runs holds throughout.
LEMMA RunInvariant == MCSpec => []Rp!Inv
  <1>1. MCInit => Rp!Inv
    BY SameRuns, RunFacts DEF MCInit
  <1>2. Rp!Inv /\ [MCNext]_<<scene, vars, pairVars, runVars>> => Rp!Inv'
    BY StepRuns, RunFacts
  <1> QED
    BY <1>1, <1>2, PTL DEF MCSpec

\* What a passkey starts is what its sheet showed, under the signature that was verified, and one
\* Face ID starts one thing (src/tower_run.go, src/tower_runner.go).
THEOREM RunsThm == MCSpec => []RunsAsShown
  <1>1. Rp!Inv => RunsAsShown
    BY SameRuns, RunFacts DEF Rp!Inv, RunsAsShown
  <1> QED
    BY <1>1, RunInvariant, PTL

\* Once the cascade of a revoke is over, no assertion of that device is accepted any more.
THEOREM NoReceiptThm == MCSpec => NoReceiptAfterRevoke
  <1>1. Rp!Inv /\ [MCNext]_<<scene, vars, pairVars, runVars>> =>
          [\A i \in DOMAIN receipts' \ DOMAIN receipts : receipts'[i].got.dev \notin revoked]_Run!vars
    <2>1. UNCHANGED Rp!vars <=> UNCHANGED Run!vars
      BY DEF Rp!vars, Rp!world, Rp!hist, Run!vars, Run!world, Run!hist
    <2> QED
      BY <2>1, StepRuns, RunFacts
  <1> QED
    BY <1>1, RunInvariant, PTL DEF MCSpec, NoReceiptAfterRevoke, Run!NoReceiptAfterRevoke

\* A run challenge is spent by its first presentation and gives at most one receipt.
THEOREM ChallengeThm == MCSpec => ChallengeIsOneShot
  <1> DEFINE S == <<Run!Stage, {[proof |-> receipts[i].chal, product |-> i] : i \in DOMAIN receipts}>>
  <1>1. MCInit => Run!Challenge!Init
    BY DEF MCInit, Run!Init, Run!Challenge!Init, Run!Stage, Run!Idle
  <1>2. Rp!Inv /\ Rp!Inv' /\ [MCNext]_<<scene, vars, pairVars, runVars>> => [Run!Challenge!Next]_S
    <2>1. Rp!Inv /\ Rp!Inv' /\ [MCNext]_<<scene, vars, pairVars, runVars>> =>
             [Rp!Challenge!Next]_<<Rp!Stage, Rp!Yielded>>
      BY StepRuns, RunFacts
    <2>2. Rp!Cardinality(Codes) = Run!Cardinality(Codes)
      BY DEF Rp!Cardinality, Run!Cardinality, Rp!IsFiniteSet, Run!IsFiniteSet
    <2>3. Rp!Stage = Run!Stage /\ Rp!Stage' = Run!Stage'
      BY DEF Rp!Stage, Run!Stage
    <2> QED
      BY <2>1, <2>2, <2>3 DEF Rp!Challenge!Next, Run!Challenge!Next, Rp!Yielded,
                  Rp!Challenge!Stages, Run!Challenge!Stages, Rp!Challenge!Moves, Run!Challenge!Moves,
                  Rp!Challenge!Yield, Run!Challenge!Yield
  <1> QED
    BY <1>1, <1>2, RunInvariant, PTL DEF MCSpec, ChallengeIsOneShot, Run!ChallengeIsOneShot, Run!Challenge!Spec

=============================================================================
