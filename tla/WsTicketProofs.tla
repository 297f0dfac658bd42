-------------------------- MODULE WsTicketProofs --------------------------
(* Terminal tickets are one-shot and die with their token, for any tickets and requests. *)
EXTENDS WsTicket, TLAPS

Slots == [pc : {"idle", "asks", "holds", "passed"}, ticket : Tickets \cup {None},
          dev : Devices \cup {None}, session : Sessions \cup {None}, cut : BOOLEAN]

\* Tokens were minted, so that one that is gone is never minted again.
Minted == tokens \subseteq minted /\ tokFile \subseteq minted

\* A request that was marked holds a token that is gone.
CutIsGone ==
    \A r \in Requests : req[r].cut => req[r].dev \notin tokens /\ req[r].dev \in minted /\ req[r].pc # "passed"

\* Who asks or holds a ticket has a token that was minted; so has every ticket.
Known ==
    /\ \A r \in Requests : req[r].pc # "idle" => req[r].dev \in minted
    /\ \A r \in Requests : req[r].pc \in {"holds", "passed"} => req[r].ticket \in Tickets
    /\ \A r \in Requests : req[r].pc = "asks" => req[r].session \in Sessions
    /\ \A e \in store : e.dev \in minted

Revocation == TypeOK /\ Minted /\ Known /\ CutIsGone

\* No ticket was drawn at the start.
LEMMA InitRevocation == Init => Revocation
  <1> SUFFICES ASSUME Init PROVE Revocation
    OBVIOUS
  <1>1. Idle \in Slots
    BY Zenon DEF Idle, Slots
  <1>2. req \in [Requests -> Slots]
    BY <1>1 DEF Init
  <1>3. TypeOK
    BY <1>2 DEF Init, TokInit, TypeOK, TokTypeOK, Slots
  <1>4. \A r \in Requests : req[r].pc = "idle" /\ ~req[r].cut
    BY DEF Init, Idle
  <1> QED
    BY <1>3, <1>4 DEF Init, TokInit, Revocation, Minted, Known, CutIsGone

\* What a step does to the tokens: none, one more that was never minted before, or fewer.
LEMMA TokenSteps ==
  ASSUME TokTypeOK, Minted, NEW d \in Devices, NEW saved \in BOOLEAN, Mint(d, saved) \/ RevokeToken(d, saved)
  PROVE  TokTypeOK' /\ Minted' /\ minted \subseteq minted' /\ \A x \in minted : x \in tokens' => x \in tokens
  BY DEF TokTypeOK, Minted, Mint, RevokeToken, SaveTokens, MaySave

\* A request that is over leaves nothing behind.
LEMMA ClearsRevocation ==
  ASSUME Revocation, NEW r \in Requests, req' = [req EXCEPT ![r] = Idle],
         UNCHANGED <<tokVars, store, drawn>>,
         \/ UNCHANGED opened
         \/ opened' = opened \cup {[proof |-> req[r].ticket, product |-> r]} /\ req[r].ticket \in Tickets
  PROVE  Revocation'
  <1> USE DEF Revocation
  <1>1. Idle \in Slots /\ Idle.pc = "idle" /\ ~Idle.cut
    BY Zenon DEF Idle, Slots
  <1>2. req' \in [Requests -> Slots]
    BY <1>1 DEF TypeOK, Slots
  <1>3. opened' \in SUBSET [proof : Tickets, product : Requests]
    BY DEF TypeOK
  <1>4. TypeOK'
    BY <1>2, <1>3 DEF TypeOK, Slots, tokVars, TokTypeOK
  <1> QED
    BY <1>1, <1>4 DEF TypeOK, Minted, Known, CutIsGone, tokVars

\* Every step keeps the invariant.
LEMMA StepRevocation == Revocation /\ [Next]_vars => Revocation'
  <1> SUFFICES ASSUME Revocation, [Next]_vars PROVE Revocation'
    OBVIOUS
  <1> USE DEF Revocation
  <1>0. TokTypeOK /\ req \in [Requests -> Slots] /\ store \in SUBSET Entries
    BY DEF TypeOK, Slots
  <1>1. ASSUME NEW d \in Devices, NEW saved \in BOOLEAN, Mint(d, saved) \/ RevokeToken(d, saved),
               UNCHANGED wsVars
        PROVE  Revocation'
    <2>1. TokTypeOK' /\ Minted' /\ minted \subseteq minted' /\ \A x \in minted : x \in tokens' => x \in tokens
      BY <1>0, <1>1, TokenSteps
    <2>2. UNCHANGED <<store, drawn, req, opened>>
      BY <1>1 DEF wsVars
    <2>3. TypeOK'
      BY <2>1, <2>2 DEF TypeOK
    <2> QED
      BY <2>1, <2>2, <2>3 DEF Known, CutIsGone
  <1>2. ASSUME NEW r \in Requests, NEW d \in Devices, NEW s \in Sessions, TicketAsk(r, d, s) PROVE Revocation'
    <2> DEFINE new == [pc |-> "asks", ticket |-> None, dev |-> d, session |-> s, cut |-> FALSE]
    <2>1. new \in Slots /\ new.dev = d /\ new.pc = "asks" /\ new.session \in Sessions /\ ~new.cut
      BY Zenon DEF Slots
    <2>2. req' = [req EXCEPT ![r] = new] /\ d \in tokens /\ UNCHANGED <<tokVars, store, drawn, opened>>
      BY <1>2 DEF TicketAsk
    <2> HIDE DEF new
    <2>3. req' \in [Requests -> Slots]
      BY <1>0, <2>1, <2>2
    <2> QED
      BY <1>0, <2>1, <2>2, <2>3 DEF TypeOK, Minted, Known, CutIsGone, Slots, tokVars, TokTypeOK
  <1>3. ASSUME NEW r \in Requests, NEW t \in Tickets, Issue(r, t) PROVE Revocation'
    <2> DEFINE new == [ticket |-> t, dev |-> req[r].dev, session |-> req[r].session]
    <2>1. Idle \in Slots /\ Idle.pc = "idle" /\ ~Idle.cut
      BY Zenon DEF Idle, Slots
    <2>2. /\ req[r].pc = "asks" /\ drawn' = [drawn EXCEPT ![t] = "fresh"]
          /\ req' = [req EXCEPT ![r] = Idle] /\ UNCHANGED <<tokVars, opened>>
          /\ \A e \in store' : e \in store \/ e = new
      BY <1>3 DEF Issue
    <2>3. req' \in [Requests -> Slots]
      BY <1>0, <2>1, <2>2
    <2>4. req[r].dev \in Devices /\ req[r].session \in Sessions
      BY <1>0, <2>2 DEF Known, TokTypeOK
    <2>5. new \in Entries
      BY <2>4 DEF Entries
    <2>6. TypeOK'
      BY <1>0, <2>2, <2>3, <2>5 DEF TypeOK, Slots, tokVars, TokTypeOK
    <2> QED
      BY <1>0, <2>1, <2>2, <2>6 DEF TypeOK, Minted, Known, CutIsGone, tokVars
  <1>4. ASSUME NEW r \in Requests, NEW e \in store, NEW s \in Sessions, Redeem(r, e, s) PROVE Revocation'
    <2> DEFINE cut == e.dev \notin tokens
               at == IF e.session = s THEN s ELSE None
               new == [pc |-> "holds", ticket |-> e.ticket, dev |-> e.dev, session |-> at, cut |-> cut]
    <2>1. /\ store' \subseteq store /\ UNCHANGED <<tokVars, drawn, opened>>
          /\ req' = req \/ req' = [req EXCEPT ![r] = new]
      BY <1>4 DEF Redeem, Spent
    <2>2. /\ new \in Slots /\ new.pc = "holds" /\ new.dev = e.dev /\ new.ticket \in Tickets
          /\ new.cut => e.dev \notin tokens
      <3>1. e.ticket \in Tickets /\ e.dev \in Devices
        BY <1>0 DEF Entries
      <3>2. at \in Sessions \cup {None} /\ cut \in BOOLEAN
        OBVIOUS
      <3> HIDE DEF cut, at
      <3>3. new \in Slots
        BY <3>1, <3>2, Zenon DEF Slots
      <3> QED
        BY <3>1, <3>3 DEF cut
    <2> HIDE DEF new
    <2>3. req' \in [Requests -> Slots]
      BY <1>0, <2>1, <2>2
    <2>4. TypeOK'
      BY <1>0, <2>1, <2>3 DEF TypeOK, Slots, tokVars, TokTypeOK
    <2> QED
      BY <1>0, <2>1, <2>2, <2>4 DEF Minted, Known, CutIsGone, tokVars
  <1>5. ASSUME NEW r \in Requests, NEW operator \in BOOLEAN, Check(r, operator) PROVE Revocation'
    <2>1. UNCHANGED <<tokVars, store, drawn, opened>>
      BY <1>5 DEF Check
    <2>2. CASE req' = [req EXCEPT ![r] = Idle]
      BY <1>0, <2>1, <2>2, ClearsRevocation
    <2>3. CASE req' = [req EXCEPT ![r].pc = "passed"] /\ req[r].pc = "holds" /\ req[r].dev \in tokens
      BY <1>0, <2>1, <2>3 DEF TypeOK, Minted, Known, CutIsGone, Slots, tokVars, TokTypeOK
    <2> QED
      BY <1>5, <2>2, <2>3 DEF Check, TokenStands
  <1>6. ASSUME NEW r \in Requests, Open(r) PROVE Revocation'
    <2>1. UNCHANGED <<tokVars, store, drawn>> /\ req' = [req EXCEPT ![r] = Idle]
      BY <1>6 DEF Open
    <2> QED
      BY <1>0, <1>6, <2>1, ClearsRevocation DEF Open, Known
  <1>7. ASSUME NEW t \in Tickets, Lapse(t) PROVE Revocation'
    BY <1>0, <1>7 DEF Lapse, TypeOK, Minted, Known, CutIsGone, Slots, tokVars, TokTypeOK
  <1>8. CASE Restart
    <2>1. tokens' = tokFile /\ store' = {} /\ UNCHANGED <<minted, tokFile, opened>>
      BY <1>8 DEF Restart, LoadTokens
    <2>2. Idle \in Slots /\ Idle.pc = "idle" /\ ~Idle.cut
      BY Zenon DEF Idle, Slots
    <2>3. req' \in [Requests -> Slots] /\ \A q \in Requests : req'[q].pc = "idle" /\ ~req'[q].cut
      BY <1>8, <2>2 DEF Restart
    <2>4. drawn' \in [Tickets -> {"new", "fresh", "lapsed", "gone"}]
      BY <1>8 DEF Restart
    <2>5. TokTypeOK'
      BY <1>0, <1>8 DEF Restart, LoadTokens, TokTypeOK
    <2> QED
      BY <2>1, <2>3, <2>4, <2>5 DEF TypeOK, Minted, Known, CutIsGone, Slots
  <1>9. CASE UNCHANGED vars
    BY <1>0, <1>9 DEF vars, wsVars, TypeOK, Minted, Known, CutIsGone, Slots, tokVars, TokTypeOK
  <1> QED
    BY <1>1, <1>2, <1>3, <1>4, <1>5, <1>6, <1>7, <1>8, <1>9 DEF Next

\* Tokens, tickets and requests are of one type throughout.
THEOREM TicketTyped == Spec => []TypeOK
  <1>1. Revocation => TypeOK
    BY DEF Revocation
  <1> QED
    BY InitRevocation, StepRevocation, <1>1, PTL DEF Spec

\* A ticket presented after its token was revoked opens nothing.
THEOREM RevokedThm == Spec => []RevokedOpensNothing
  <1>1. Revocation => RevokedOpensNothing
    BY DEF Revocation, CutIsGone, RevokedOpensNothing
  <1> QED
    BY InitRevocation, StepRevocation, <1>1, PTL DEF Spec

-----------------------------------------------------------------------------
(* A ticket is one-shot. *)

InStore(t) == \E e \in store : e.ticket = t
Used(t) == \E y \in opened : y.proof = t

\* A ticket that was not drawn is nowhere, and one that was is in one place: in the store once, in
\* the hands of one request, or spent.
Once ==
    /\ \A e, f \in store : e.ticket = f.ticket => e = f
    /\ \A t \in Tickets : drawn[t] = "new" => ~InStore(t) /\ ~Held(t) /\ ~Used(t)
    /\ \A t \in Tickets : Held(t) => ~InStore(t)
    /\ \A t \in Tickets : Used(t) => ~InStore(t) /\ ~Held(t)
    /\ \A r, q \in Requests : req[r].ticket \in Tickets /\ req[q].ticket = req[r].ticket => q = r
    /\ \A r \in Requests : req[r].pc \in {"idle", "asks"} => req[r].ticket = None

\* No ticket is anywhere at the start.
LEMMA InitOnce == ASSUME TicketsAssumption, Init PROVE Once
  <1>1. \A r \in Requests : req[r].ticket = None
    BY DEF Init, Idle
  <1> QED
    BY <1>1 DEF Init, TicketsAssumption, Once, InStore, Held, Used

\* A step that draws no ticket and moves none to where it was not.
LEMMA KeepsOnce ==
  ASSUME TicketsAssumption, Revocation, Once, UNCHANGED <<drawn, opened>>, store' \subseteq store,
         \A r \in Requests :
             /\ req'[r].ticket = req[r].ticket \/ req'[r].ticket = None
             /\ req'[r].pc \in {"idle", "asks"} => req'[r].ticket = None
  PROVE  Once'
  <1>1. \A t \in Tickets : (InStore(t)' => InStore(t)) /\ (Held(t)' => Held(t)) /\ (Used(t)' => Used(t))
    BY DEF InStore, Held, Used, TicketsAssumption
  <1> QED
    BY <1>1 DEF Once, TicketsAssumption

\* Where the tickets are after a step: every ticket is where it was or nowhere, unless it was drawn,
\* handed from the store to a request, or used.
LEMMA StepOnce == ASSUME TicketsAssumption, Revocation, Once, [Next]_vars PROVE Once'
  <1>0. /\ req \in [Requests -> Slots] /\ store \in SUBSET Entries /\ Idle.pc = "idle" /\ Idle.ticket = None
        /\ drawn \in [Tickets -> {"new", "fresh", "lapsed", "gone"}]
    BY DEF Revocation, TypeOK, Slots, Idle
  <1>1. CASE UNCHANGED <<store, drawn, req, opened>>
    BY <1>1, KeepsOnce DEF Once
  <1>2. ASSUME NEW r \in Requests, NEW d \in Devices, NEW s \in Sessions, TicketAsk(r, d, s) PROVE Once'
    <2>1. \A q \in Requests : req'[q] = req[q] \/ req'[q].ticket = None
      BY <1>0, <1>2 DEF TicketAsk
    <2> QED
      BY <1>2, <2>1, KeepsOnce DEF TicketAsk, Once
  <1>3. ASSUME NEW r \in Requests, NEW t \in Tickets, Issue(r, t) PROVE Once'
    <2> DEFINE new == [ticket |-> t, dev |-> req[r].dev, session |-> req[r].session]
    <2>1. /\ new.ticket = t /\ \A e \in store' : e \in store \/ e = new
          /\ drawn[t] = "new" /\ drawn' = [drawn EXCEPT ![t] = "fresh"] /\ UNCHANGED opened
      BY <1>3 DEF Issue
    <2> HIDE DEF new
    <2>2. \A q \in Requests : req'[q] = req[q] \/ req'[q] = Idle
      BY <1>0, <1>3 DEF Issue
    <2>3. \A u \in Tickets \ {t} : (InStore(u)' => InStore(u)) /\ (Held(u)' => Held(u)) /\ (Used(u)' => Used(u))
      BY <1>0, <2>1, <2>2 DEF InStore, Held, Used, TicketsAssumption
    <2>4. ~Held(t)' /\ ~Used(t)' /\ ~InStore(t)
      BY <1>0, <2>1, <2>2 DEF Held, Used, TicketsAssumption, Once
    <2>5. \A e, f \in store' : e.ticket = f.ticket => e = f
      BY <2>1, <2>4 DEF Once, InStore
    <2>6. \A u \in Tickets : drawn'[u] = "new" => u # t /\ drawn[u] = "new"
      BY <1>0, <2>1
    <2>7. \A p, q \in Requests : req'[p].ticket \in Tickets /\ req'[q].ticket = req'[p].ticket => q = p
      BY <1>0, <2>2 DEF Once, TicketsAssumption
    <2>8. \A p \in Requests : req'[p].pc \in {"idle", "asks"} => req'[p].ticket = None
      BY <1>0, <2>2 DEF Once
    <2> QED
      BY <2>3, <2>4, <2>5, <2>6, <2>7, <2>8 DEF Once
  <1>4. ASSUME NEW r \in Requests, NEW e \in store, NEW s \in Sessions, Redeem(r, e, s) PROVE Once'
    <2>1. store' = store \ {e} /\ UNCHANGED <<drawn, opened>> /\ e.ticket \in Tickets /\ ~InStore(e.ticket)'
      BY <1>0, <1>4 DEF Redeem, Spent, Entries, InStore, Once
    <2>2. CASE req' = req
      BY <2>1, <2>2, KeepsOnce DEF Once
    <2>3. CASE req' # req
      <3>1. req'[r].ticket = e.ticket /\ req'[r].pc = "holds" /\ \A q \in Requests \ {r} : req'[q] = req[q]
        BY <1>0, <1>4, <2>3 DEF Redeem
      <3>2. drawn[e.ticket] # "new" /\ ~Held(e.ticket) /\ ~Used(e.ticket)
        BY <2>1 DEF Once, InStore
      <3>3. \A u \in Tickets \ {e.ticket} :
              (InStore(u)' => InStore(u)) /\ (Held(u)' => Held(u)) /\ (Used(u)' => Used(u))
        BY <2>1, <3>1 DEF InStore, Held, Used
      <3>4. \A p, q \in Requests : req'[p].ticket \in Tickets /\ req'[q].ticket = req'[p].ticket => q = p
        BY <3>1, <3>2 DEF Once, Held
      <3> QED
        BY <2>1, <3>1, <3>2, <3>3, <3>4 DEF Once, Used
    <2> QED
      BY <2>2, <2>3
  <1>5. ASSUME NEW r \in Requests, NEW operator \in BOOLEAN, Check(r, operator) PROVE Once'
    <2>1. \A q \in Requests : \/ req'[q] = req[q] \/ req'[q] = Idle
                              \/ req'[q].ticket = req[q].ticket /\ req'[q].pc = "passed"
      BY <1>0, <1>5 DEF Check, Slots
    <2>2. \A q \in Requests : /\ req'[q].ticket = req[q].ticket \/ req'[q].ticket = None
                              /\ req'[q].pc \in {"idle", "asks"} => req'[q].ticket = None
      BY <1>0, <2>1 DEF Once
    <2> QED
      BY <1>5, <2>2, KeepsOnce DEF Check
  <1>6. ASSUME NEW r \in Requests, Open(r) PROVE Once'
    <2> PICK t \in Tickets : t = req[r].ticket
      BY <1>6 DEF Open, Revocation, Known
    <2>1. Held(t) /\ UNCHANGED <<store, drawn>>
      BY <1>6 DEF Open, Revocation, Known, Held
    <2>2. \A q \in Requests : req'[q] = IF q = r THEN Idle ELSE req[q]
      BY <1>0, <1>6 DEF Open
    <2>3. \A u \in Tickets \ {t} : (InStore(u)' => InStore(u)) /\ (Held(u)' => Held(u)) /\ (Used(u)' => Used(u))
      BY <1>0, <1>6, <2>1, <2>2 DEF Open, InStore, Held, Used, TicketsAssumption
    <2>4. ~InStore(t)' /\ ~Held(t)' /\ drawn'[t] # "new"
      BY <1>0, <2>1, <2>2 DEF Once, InStore, Held, TicketsAssumption
    <2> QED
      BY <1>0, <2>1, <2>2, <2>3, <2>4 DEF Once, TicketsAssumption
  <1>7. ASSUME NEW t \in Tickets, Lapse(t) PROVE Once'
    BY <1>0, <1>7 DEF Lapse, Once, InStore, Held, Used
  <1>8. CASE Restart
    <2>1. store' = {} /\ UNCHANGED opened /\ \A q \in Requests : req'[q] = Idle
      BY <1>8 DEF Restart
    <2>2. \A t \in Tickets : drawn'[t] = "new" => drawn[t] = "new"
      BY <1>8 DEF Restart
    <2> QED
      BY <1>0, <2>1, <2>2 DEF Once, InStore, Held, Used, TicketsAssumption
  <1> QED
    BY <1>1, <1>2, <1>3, <1>4, <1>5, <1>6, <1>7, <1>8 DEF Next, vars, wsVars

\* The stage of a ticket, by where it is.
LEMMA StageFacts ==
  ASSUME NEW t \in Tickets
  PROVE  /\ Stage(t) = IF Used(t) THEN "used" ELSE IF Held(t) \/ InStore(t) THEN "live"
                       ELSE IF drawn[t] = "new" THEN "new" ELSE "dead"
         /\ Stage(t) \in T!Stages
  BY DEF Stage, Used, InStore, T!Stages

\* A step that uses no ticket: one that was not drawn may be, one that is live may die.
QuietStep ==
    /\ UNCHANGED opened
    /\ \A t \in Tickets : /\ drawn'[t] = "new" => drawn[t] = "new"
                          /\ Held(t)' \/ InStore(t)' => Held(t) \/ InStore(t) \/ drawn[t] = "new"

\* What a quiet step is to the one-shot secret.
LEMMA QuietMoves ==
  ASSUME Once, Once', QuietStep, NEW t \in Tickets
  PROVE  /\ Stage(t)' = Stage(t) \/ <<Stage(t), Stage(t)'>> \in T!Moves \ {<<"live", "used">>}
         /\ {y \in opened' : y.proof = t} = T!Yield(t)
  <1>0. /\ UNCHANGED opened /\ (drawn'[t] = "new" => drawn[t] = "new")
        /\ Held(t)' \/ InStore(t)' => Held(t) \/ InStore(t) \/ drawn[t] = "new"
    BY DEF QuietStep
  <1>1. Used(t)' <=> Used(t)
    BY <1>0 DEF Used
  <1>2. Stage(t)' = IF Used(t)' THEN "used" ELSE IF Held(t)' \/ InStore(t)' THEN "live"
                       ELSE IF drawn'[t] = "new" THEN "new" ELSE "dead"
    BY DEF Stage, Used, InStore
  <1>3. {y \in opened' : y.proof = t} = T!Yield(t)
    BY <1>0 DEF T!Yield
  <1> QED
    BY <1>0, <1>1, <1>2, <1>3, StageFacts DEF Once, T!Moves

\* What every step of the tickets is to the one-shot secret.
LEMMA StepMoves ==
  ASSUME TicketsAssumption, Revocation, Revocation', Once, Once', [Next]_vars
  PROVE  [T!Next]_<<[t \in Tickets |-> Stage(t)], opened>>
  <1> DEFINE stage == [t \in Tickets |-> Stage(t)]
  <1>0. /\ req \in [Requests -> Slots] /\ Idle.ticket = None
        /\ drawn \in [Tickets -> {"new", "fresh", "lapsed", "gone"}]
    BY DEF Revocation, TypeOK, Slots, Idle
  <1>1. stage' \in [Tickets -> T!Stages]
    BY StageFacts DEF Stage, T!Stages
  <1>2. \A t \in Tickets : stage'[t] = Stage(t)' /\ stage[t] = Stage(t)
    BY DEF Stage, Held
  <1>3. opened' \in SUBSET [proof : Tickets, product : Requests]
    BY DEF Revocation, TypeOK
  <1> HIDE DEF stage
  <1>4. ASSUME NEW r \in Requests, Open(r) PROVE T!Next
    <2> PICK u \in Tickets : u = req[r].ticket
      BY <1>4 DEF Open, Revocation, Known
    <2>1. /\ opened' = opened \cup {[proof |-> u, product |-> r]} /\ UNCHANGED <<store, drawn>>
          /\ req' = [req EXCEPT ![r] = Idle]
      BY <1>4 DEF Open
    <2>2. Held(u) /\ ~Used(u) /\ {y \in opened' : y.proof = u} = {[proof |-> u, product |-> r]}
      BY <2>1 DEF Held, Used, Once
    <2>3. Stage(u) = "live" /\ Stage(u)' = "used"
      BY <2>1, <2>2 DEF Stage, Used
    <2>4. ASSUME NEW t \in Tickets \ {u}
          PROVE  /\ Stage(t)' = Stage(t) \/ <<Stage(t), Stage(t)'>> \in T!Moves \ {<<"live", "used">>}
                 /\ {y \in opened' : y.proof = t} = T!Yield(t)
      <3>1. {y \in opened' : y.proof = t} = T!Yield(t) /\ (Used(t)' <=> Used(t))
        BY <2>1 DEF T!Yield, Used
      <3>2. (InStore(t)' <=> InStore(t)) /\ (Held(t)' => Held(t)) /\ (drawn'[t] = "new" <=> drawn[t] = "new")
        BY <1>0, <2>1 DEF InStore, Held, TicketsAssumption
      <3>3. Stage(t)' = IF Used(t)' THEN "used" ELSE IF Held(t)' \/ InStore(t)' THEN "live"
                        ELSE IF drawn'[t] = "new" THEN "new" ELSE "dead"
        BY DEF Stage, Used, InStore
      <3> QED
        BY <3>1, <3>2, <3>3, StageFacts DEF Once, T!Moves
    <2> QED
      BY <1>1, <1>2, <1>3, <2>2, <2>3, <2>4 DEF T!Next
  <1>5. QuietStep => T!Next
    <2> SUFFICES ASSUME QuietStep PROVE T!Next
      OBVIOUS
    <2>1. \A t \in Tickets : /\ Stage(t)' = Stage(t) \/ <<Stage(t), Stage(t)'>> \in T!Moves \ {<<"live", "used">>}
                             /\ {y \in opened' : y.proof = t} = T!Yield(t)
      BY QuietMoves
    <2>2. \A t \in Tickets : /\ stage'[t] = stage[t] \/ <<stage[t], stage'[t]>> \in T!Moves \ {<<"live", "used">>}
                             /\ {y \in opened' : y.proof = t} = T!Yield(t)
      BY <1>2, <2>1
    <2> QED
      BY <1>1, <1>3, <2>2, Zenon DEF T!Next, stage
  <1>6. ASSUME UNCHANGED <<drawn, opened>>, store' \subseteq store,
               \A q \in Requests :
                   \/ req'[q].ticket = req[q].ticket \/ req'[q].ticket = None
                   \/ \E e \in store : req'[q].ticket = e.ticket
        PROVE  T!Next
    BY <1>5, <1>6 DEF QuietStep, Held, InStore, TicketsAssumption
  <1>7. CASE UNCHANGED <<store, drawn, req, opened>>
    BY <1>6, <1>7
  <1>8. ASSUME NEW r \in Requests, NEW d \in Devices, NEW s \in Sessions, TicketAsk(r, d, s) PROVE T!Next
    BY <1>0, <1>6, <1>8 DEF TicketAsk
  <1>9. ASSUME NEW r \in Requests, NEW t \in Tickets, Issue(r, t) PROVE T!Next
    <2> DEFINE new == [ticket |-> t, dev |-> req[r].dev, session |-> req[r].session]
    <2>1. /\ new.ticket = t /\ \A e \in store' : e \in store \/ e = new
          /\ drawn[t] = "new" /\ drawn' = [drawn EXCEPT ![t] = "fresh"] /\ UNCHANGED opened
      BY <1>9 DEF Issue
    <2> HIDE DEF new
    <2>2. \A q \in Requests : req'[q] = req[q] \/ req'[q].ticket = None
      BY <1>0, <1>9 DEF Issue
    <2>3. \A u \in Tickets : (Held(u)' => Held(u)) /\ (InStore(u)' => InStore(u) \/ u = t)
      BY <2>1, <2>2 DEF Held, InStore, TicketsAssumption
    <2> QED
      BY <1>0, <1>5, <2>1, <2>3 DEF QuietStep
  <1>10. ASSUME NEW r \in Requests, NEW e \in store, NEW s \in Sessions, Redeem(r, e, s) PROVE T!Next
    BY <1>0, <1>6, <1>10 DEF Redeem, Spent
  <1>11. ASSUME NEW r \in Requests, NEW operator \in BOOLEAN, Check(r, operator) PROVE T!Next
    <2>1. \A q \in Requests : req'[q].ticket = req[q].ticket \/ req'[q].ticket = None
      BY <1>0, <1>11 DEF Check, Slots
    <2> QED
      BY <1>6, <1>11, <2>1 DEF Check
  <1>12. ASSUME NEW t \in Tickets, Lapse(t) PROVE T!Next
    BY <1>0, <1>5, <1>12 DEF QuietStep, Lapse, Held, InStore
  <1>13. CASE Restart
    <2>1. store' = {} /\ UNCHANGED opened /\ \A q \in Requests : req'[q] = Idle
      BY <1>13 DEF Restart
    <2>2. \A t \in Tickets : (drawn'[t] = "new" => drawn[t] = "new") /\ ~Held(t)' /\ ~InStore(t)'
      BY <1>0, <1>13, <2>1 DEF Restart, Held, InStore, TicketsAssumption
    <2> QED
      BY <1>5, <2>1, <2>2 DEF QuietStep
  <1> QED
    BY <1>4, <1>7, <1>8, <1>9, <1>10, <1>11, <1>12, <1>13 DEF Next, vars, wsVars

\* A ticket opens at most one terminal, and none once it was refused or lost: the tickets implement
\* the one-shot secret.
THEOREM TicketOneShot == ASSUME TicketsAssumption PROVE Spec => TicketIsOneShot
  <1>1. Init => T!Init
    BY DEF Init, T!Init, Stage, Held, Idle, TicketsAssumption
  <1>2. Init => Once
    BY InitOnce
  <1>3. Revocation /\ Once /\ [Next]_vars => Once'
    BY StepOnce
  <1>4. Revocation /\ Revocation' /\ Once /\ Once' /\ [Next]_vars
            => [T!Next]_<<[t \in Tickets |-> Stage(t)], opened>>
    BY StepMoves
  <1> QED
    BY <1>1, <1>2, <1>3, <1>4, InitRevocation, StepRevocation, PTL DEF Spec, TicketIsOneShot, T!Spec

\* A step of the one-shot secret adds a terminal only as the first of its ticket.
LEMMA AtMostOnceStep ==
  ASSUME T!AtMostOnce, [T!Next]_<<[t \in Tickets |-> Stage(t)], opened>> PROVE T!AtMostOnce'
  <1> SUFFICES ASSUME NEW a \in opened', NEW b \in opened', a.proof = b.proof PROVE a = b
    BY DEF T!AtMostOnce
  <1>1. CASE UNCHANGED opened
    BY <1>1 DEF T!AtMostOnce
  <1>2. CASE T!Next
    <2> DEFINE t == a.proof
               kept == {y \in opened' : y.proof = t}
    <2>1. t \in Tickets /\ a \in kept /\ b \in kept
      BY <1>2 DEF T!Next
    <2>2. CASE kept = T!Yield(t)
      BY <2>1, <2>2 DEF T!AtMostOnce, T!Yield
    <2>3. CASE \E r \in Requests : kept = {[proof |-> t, product |-> r]}
      BY <2>1, <2>3
    <2> QED
      BY <1>2, <2>1, <2>2, <2>3 DEF T!Next
  <1> QED
    BY <1>1, <1>2

\* No ticket opens two terminals: a step that adds a terminal for a ticket leaves it as the only one.
THEOREM OneTerminalThm == ASSUME TicketsAssumption PROVE Spec => []T!AtMostOnce
  <1>1. T!Init => T!AtMostOnce
    BY DEF T!Init, T!AtMostOnce
  <1> QED
    BY <1>1, TicketOneShot, AtMostOnceStep, PTL DEF TicketIsOneShot, T!Spec
=============================================================================
