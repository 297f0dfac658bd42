------------------------------ MODULE WsTicket ------------------------------
(***************************************************************************)
(* Terminal tickets (src/ws_ticket.go): a phone with an act token draws a  *)
(* ticket for one session and presents it when it opens the terminal's     *)
(* WebSocket.  The ticket is spent before the session, the device token    *)
(* and the caller are looked at, under another lock than theirs.           *)
(***************************************************************************)
EXTENDS DeviceTokens

CONSTANTS
    Tickets,    \* what genSecret may draw (never drawn twice)
    Sessions,
    ActDevices, \* devices whose token has the act capability
    Requests,   \* slots for requests in flight
    None

TicketsAssumption == ActDevices \subseteq Devices /\ None \notin Tickets \cup Devices

VARIABLES
    store,  \* the live tickets: records [ticket, dev, session]
    drawn,  \* history: ticket -> "new", "fresh", "lapsed" or "gone" (lost to a restart)
    req,    \* the requests in flight
    opened  \* history: [proof, product]: the terminals opened, with the request that did

wsVars == <<store, drawn, req, opened>>
vars == <<tokVars, wsVars>>

Entries == [ticket : Tickets, dev : Devices, session : Sessions]
Idle == [pc |-> "idle", ticket |-> None, dev |-> None, session |-> None, cut |-> FALSE]

TypeOK ==
    /\ TokTypeOK
    /\ store \in SUBSET Entries
    /\ drawn \in [Tickets -> {"new", "fresh", "lapsed", "gone"}]
    /\ req \in [Requests -> [pc : {"idle", "asks", "holds", "passed"}, ticket : Tickets \cup {None},
                             dev : Devices \cup {None}, session : Sessions \cup {None}, cut : BOOLEAN]]
    /\ opened \in SUBSET [proof : Tickets, product : Requests]

Init ==
    /\ TokInit
    /\ store = {} /\ drawn = [t \in Tickets |-> "new"]
    /\ req = [r \in Requests |-> Idle] /\ opened = {}

-----------------------------------------------------------------------------
\* authTyped and find: the caller's token is in the store and may act.
TicketAsk(r, d, s) ==
    /\ req[r].pc = "idle" /\ d \in tokens \cap ActDevices
    /\ req' = [req EXCEPT ![r] = [pc |-> "asks", ticket |-> None, dev |-> d, session |-> s, cut |-> FALSE]]
    /\ UNCHANGED <<tokVars, store, drawn, opened>>

\* issue drops the tickets that have lapsed.
Issue(r, t) ==
    /\ req[r].pc = "asks" /\ drawn[t] = "new"
    /\ store' = {e \in store : drawn[e.ticket] = "fresh"}
                \cup {[ticket |-> t, dev |-> req[r].dev, session |-> req[r].session]}
    /\ drawn' = [drawn EXCEPT ![t] = "fresh"]
    /\ req' = [req EXCEPT ![r] = Idle]
    /\ UNCHANGED <<tokVars, opened>>

\* Mutant: a ticket stays in the store for as long as it is fresh.
SpentKeeps(e) == IF drawn[e.ticket] = "fresh" THEN store ELSE store \ {e}

\* redeem removes what is presented, fresh or not.
Spent(e) == store \ {e}

\* The history remembers a token that was revoked before the ticket was presented.
Redeem(r, e, s) ==
    /\ req[r].pc = "idle" /\ e \in store
    /\ store' = Spent(e)
    /\ req' = IF drawn[e.ticket] # "fresh" THEN req
              ELSE [req EXCEPT ![r] = [pc |-> "holds", ticket |-> e.ticket, dev |-> e.dev,
                        session |-> IF e.session = s THEN s ELSE None, cut |-> e.dev \notin tokens]]
    /\ UNCHANGED <<tokVars, drawn, opened>>

\* Mutant: the token is trusted because the ticket was issued to it.
TokenStandsTrusted(d) == TRUE

TokenStands(d) == d \in tokens /\ d \in ActDevices

\* The rest of authWS: the token by its id, the session, the capability and the identity.
Check(r, operator) ==
    /\ req[r].pc = "holds"
    /\ req' = [req EXCEPT ![r] = IF TokenStands(req[r].dev) /\ req[r].session # None /\ operator
                                 THEN [@ EXCEPT !.pc = "passed"] ELSE Idle]
    /\ UNCHANGED <<tokVars, store, drawn, opened>>

Open(r) ==
    /\ req[r].pc = "passed"
    /\ opened' = opened \cup {[proof |-> req[r].ticket, product |-> r]}
    /\ req' = [req EXCEPT ![r] = Idle]
    /\ UNCHANGED <<tokVars, store, drawn>>

Lapse(t) ==
    /\ drawn[t] = "fresh" /\ drawn' = [drawn EXCEPT ![t] = "lapsed"]
    /\ UNCHANGED <<tokVars, store, req, opened>>

\* Tickets and requests are in memory.
Restart ==
    /\ LoadTokens(TRUE)
    /\ store' = {} /\ req' = [r \in Requests |-> Idle]
    /\ drawn' = [t \in Tickets |-> IF drawn[t] = "new" THEN "new" ELSE "gone"]
    /\ UNCHANGED opened

Next ==
    \/ \E d \in Devices, saved \in BOOLEAN : (Mint(d, saved) \/ RevokeToken(d, saved)) /\ UNCHANGED wsVars
    \/ \E r \in Requests :
        \/ \E d \in Devices, s \in Sessions : TicketAsk(r, d, s)
        \/ \E t \in Tickets : Issue(r, t)
        \/ \E e \in store, s \in Sessions : Redeem(r, e, s)
        \/ \E operator \in BOOLEAN : Check(r, operator)
        \/ Open(r)
    \/ \E t \in Tickets : Lapse(t)
    \/ Restart

Spec == Init /\ [][Next]_vars

-----------------------------------------------------------------------------
\* A ticket opens at most one terminal, and none after a restart or a refusal: it implements the
\* one-shot secret.  It is live in the store and in the hands of the one request that holds it.
Held(t) == \E r \in Requests : req[r].ticket = t
Stage(t) ==
    IF \E y \in opened : y.proof = t THEN "used"
    ELSE IF Held(t) \/ \E e \in store : e.ticket = t THEN "live"
    ELSE IF drawn[t] = "new" THEN "new" ELSE "dead"

T == INSTANCE OneShot WITH
    Secrets <- Tickets, Products <- Requests,
    stage <- [t \in Tickets |-> Stage(t)], yielded <- opened

TicketIsOneShot == T!Spec

\* A ticket presented after its token was revoked opens nothing, whatever it was when the ticket
\* was issued and though a token is only looked up once the ticket is spent.
RevokedOpensNothing == \A r \in Requests : req[r].pc = "passed" => ~req[r].cut
=============================================================================
