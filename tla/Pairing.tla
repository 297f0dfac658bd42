------------------------------ MODULE Pairing ------------------------------
(***************************************************************************)
(* Pairing a phone by QR (src/pair.go).  The laptop makes an offer, at     *)
(* most PairMaxLive live at once; redeeming it mints a device token and,   *)
(* for an act token, grants one passkey enrolment (module PasskeyEnrol).   *)
(*                                                                         *)
(* A redeem takes its offer out of the list before it knows whether the    *)
(* caller's identity may have it, and puts it back when it may not (or     *)
(* when the rate limit refuses): take, put back, mint and grant are four   *)
(* critical sections under three locks.                                    *)
(***************************************************************************)
EXTENDS DeviceTokens, Sequences, SequencesExt

CONSTANTS
    Offers,      \* pairing codes (32 random bytes: never drawn twice, never guessed)
    ActOffers,   \* offers whose capabilities include "act"
    PairMaxLive, \* pairMaxLive
    Requests,    \* slots for redeems in flight
    None         \* no offer, no device

PairingAssumption ==
    PairMaxLive \in Nat \ {0} /\ ActOffers \subseteq Offers /\ None \notin Offers \cup Devices

VARIABLES
    offers,   \* the live list, oldest first as appended
    clock,    \* offer -> "unissued", "fresh" or "lapsed" (3 minutes over)
    req,      \* the redeems in flight
    minting,  \* history: the pairs [proof (offer), product (token)] minted
    granted,  \* history: devices given a pairing grant
    gone      \* history: offers displaced by newer ones, lost to a failed mint or to a restart

pairVars == <<offers, clock, req, minting, granted, gone>>
vars == <<tokVars, pairVars>>

\* Who asks, as pairRedeemOK tells them apart: the laptop itself, the operator or somebody else
\* through tailscale serve, or a caller with no identity (direct, Funnel, a tagged node).
Callers == {"laptop", "operator", "guest", "nobody"}

Idle == [pc |-> "idle", offer |-> None, dev |-> None, by |-> "nobody"]

TypeOK ==
    /\ TokTypeOK
    /\ offers \in Seq(Offers)
    /\ clock \in [Offers -> {"unissued", "fresh", "lapsed"}]
    /\ req \in [Requests -> [pc : {"idle", "taken", "grant"}, offer : Offers \cup {None},
                             dev : Devices \cup {None}, by : Callers]]
    /\ minting \in SUBSET [proof : Offers, product : Devices]
    /\ granted \in SUBSET Devices
    /\ gone \in SUBSET Offers

Init ==
    /\ TokInit
    /\ offers = <<>>
    /\ clock = [o \in Offers |-> "unissued"]
    /\ req = [r \in Requests |-> Idle]
    /\ minting = {} /\ granted = {}
    /\ gone = {}

-----------------------------------------------------------------------------
Fresh(o) == clock[o] = "fresh"

Held(o) == \E r \in Requests : req[r].pc = "taken" /\ req[r].offer = o

\* A list without the entries outside some places, in its order.
Nth(places, i) == CHOOSE k \in places : Cardinality({j \in places : j <= k}) = i
Part(list, places) == [i \in 1..Cardinality(places) |-> list[Nth(places, i)]]

\* pruneLocked
Pruned == Part(offers, {i \in DOMAIN offers : Fresh(offers[i])})

\* The newest of a list that grew too long.
Newest(list) ==
    IF Len(list) > PairMaxLive THEN SubSeq(list, Len(list) - PairMaxLive + 1, Len(list)) ELSE list

\* pairHub.offer: drop what lapsed, append, keep the newest PairMaxLive.
Offer(o) ==
    /\ clock[o] = "unissued"
    /\ clock' = [clock EXCEPT ![o] = "fresh"]
    /\ offers' = Newest(Append(Pruned, o))
    /\ gone' = gone \cup (ToSet(Pruned) \ ToSet(offers'))
    /\ UNCHANGED <<tokVars, req, minting, granted>>

\* pairRedeemOK
IdentityOK(who, o) ==
    \/ who = "laptop"
    \/ who = "operator"
    \/ who = "guest" /\ o \notin ActOffers

\* Mutant: a match is held but stays in the list until the token is minted.
TakeKeeps(r, o, who) ==
    /\ req[r].pc = "idle"
    /\ IF o \in ToSet(offers) /\ Fresh(o)
       THEN req' = [req EXCEPT ![r] = [pc |-> "taken", offer |-> o, dev |-> None, by |-> who]]
       ELSE UNCHANGED req
    /\ UNCHANGED <<tokVars, offers, clock, minting, granted, gone>>

\* take: an unknown code prunes; a lapsed offer is removed and refused; a fresh one is held.
Take(r, o, who) ==
    /\ req[r].pc = "idle"
    /\ IF o \in ToSet(offers)
       THEN /\ offers' = Part(offers, {i \in DOMAIN offers : offers[i] # o})
            /\ req' = IF Fresh(o)
                      THEN [req EXCEPT ![r] = [pc |-> "taken", offer |-> o, dev |-> None, by |-> who]]
                      ELSE req
       ELSE offers' = Pruned /\ UNCHANGED req
    /\ UNCHANGED <<tokVars, clock, minting, granted, gone>>

\* Mutant: the rate limit refuses without putting the offer back.
PutBackIdentityOnly(r) ==
    /\ req[r].pc = "taken"
    /\ offers' = IF IdentityOK(req[r].by, req[r].offer) THEN offers
                 ELSE Append(offers, req[r].offer)
    /\ req' = [req EXCEPT ![r] = Idle]
    /\ UNCHANGED <<tokVars, clock, minting, granted, gone>>

\* A refused identity, or the rate limit, returns the offer, at the end of the list.
PutBack(r) ==
    /\ req[r].pc = "taken"
    /\ offers' = Append(offers, req[r].offer)
    /\ req' = [req EXCEPT ![r] = Idle]
    /\ UNCHANGED <<tokVars, clock, minting, granted, gone>>

\* mint.  A failed write loses the offer.
RedeemMint(r, d, saved) ==
    /\ req[r].pc = "taken"
    /\ IdentityOK(req[r].by, req[r].offer)
    /\ Mint(d, saved)
    /\ minting' = IF saved
                  THEN minting \cup {[proof |-> req[r].offer, product |-> d]} ELSE minting
    /\ req' = IF saved /\ req[r].offer \in ActOffers
              THEN [req EXCEPT ![r].pc = "grant", ![r].dev = d] ELSE [req EXCEPT ![r] = Idle]
    /\ gone' = IF saved THEN gone ELSE gone \cup {req[r].offer}
    /\ UNCHANGED <<offers, clock, granted>>

\* grantPair: the passkey hub's lock, after the token is already usable.
Grant(r) ==
    /\ req[r].pc = "grant"
    /\ granted' = granted \cup {req[r].dev}
    /\ req' = [req EXCEPT ![r] = Idle]
    /\ UNCHANGED <<tokVars, offers, clock, minting, gone>>

Revoke(d, saved) ==
    /\ RevokeToken(d, saved)
    /\ UNCHANGED pairVars

Lapse(o) ==
    /\ Fresh(o)
    /\ clock' = [clock EXCEPT ![o] = "lapsed"]
    /\ UNCHANGED <<tokVars, offers, req, minting, granted, gone>>

\* Offers live in memory; a redeem that was in flight is gone.
Restart(readable) ==
    /\ LoadTokens(readable)
    /\ offers' = <<>>
    /\ req' = [r \in Requests |-> Idle]
    /\ gone' = gone \cup {o \in Offers : o \in ToSet(offers) \/ Held(o)}
    /\ UNCHANGED <<clock, minting, granted>>

Redeem(r) ==
    \/ \E o \in Offers, who \in Callers : clock[o] # "unissued" /\ Take(r, o, who)
    \/ PutBack(r)
    \/ \E d \in Devices, saved \in BOOLEAN : RedeemMint(r, d, saved)
    \/ Grant(r)

Next ==
    \/ \E o \in Offers : Offer(o) \/ Lapse(o)
    \/ \E r \in Requests : Redeem(r)
    \/ \E d \in Devices, saved \in BOOLEAN : Revoke(d, saved)
    \/ \E readable \in BOOLEAN : Restart(readable)

Spec == Init /\ [][Next]_vars

-----------------------------------------------------------------------------
(* Properties. *)

Stage == [o \in Offers |->
            CASE \E m \in minting : m.proof = o -> "used"
              [] clock[o] = "unissued" -> "new"
              [] o \in ToSet(offers) \/ Held(o) -> "live"
              [] OTHER -> "dead"]

Ticket == INSTANCE OneShot WITH
    Secrets <- Offers, Products <- Devices, stage <- Stage, yielded <- minting

\* A pairing QR is a one-shot secret: with put-backs and several redeems racing for one offer it
\* mints at most one token, and an offer once spent, displaced or lost never works again.
OfferIsOneShot == Ticket!Spec

\* An offer is in one place: in the list once, or held by one redeem, or nowhere.
OfferInOnePlace ==
    /\ IsInjective(offers)
    /\ \A r, q \in Requests :
        req[r].pc = "taken" =>
            /\ req[r].offer \notin ToSet(offers)
            /\ (r # q /\ req[q].pc = "taken") => req[q].offer # req[r].offer

\* A refused redeem "leaves it for the real phone" (handlePairRedeem): within its 3 minutes an
\* offer is in the list or held, unless it minted, was displaced by newer offers, or was lost to
\* a failed mint or a restart.  Refusing an ineligible caller, or a rate limit, never loses it.
RefusalLeavesOffer ==
    \A o \in Offers : Fresh(o) =>
        \/ o \in ToSet(offers) \/ Held(o)
        \/ o \in gone \/ \E m \in minting : m.proof = o

=============================================================================
