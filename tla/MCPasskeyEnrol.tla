--------------------------- MODULE MCPasskeyEnrol ---------------------------
(* What a device does with its passkey, for TLC: pairing, enrolling the key, and running a line with *)
(* it.  A behaviour is one of them: PasskeyEnrol has the redeem's grant as one step of its own, and  *)
(* TowerRun begins with an enrolled key and shares with the others only that a revoke ends it.       *)
(*                                                                                                   *)
(* The ask is a mutating line (1) that is signed again, the same but for its cwd (2).                *)
EXTENDS PasskeyEnrol, TLC

CONSTANTS Offers, ActOffers, PairMaxLive, plain

VARIABLES
    scene,
    offers, lapses, redeems, minting, granted, gone,
    bearers, keyed, chals, asks, mu, dup, cur, armed, elevated, drawn, receipts, started, revoked, inWindow

Pair == INSTANCE Pairing WITH clock <- lapses, req <- redeems

MutSha == <<"a", "a">>
MutPar == <<"p", "q">>
MutClass == <<"mut", "mut">>

Run == INSTANCE TowerRun WITH
    Devices <- {plain}, Caps <- (plain :> {"run:ro", "run:mut"}), Versions <- {1, 2}, Sha <- MutSha,
    Par <- MutPar, Class <- MutClass, Sound <- {1, 2}, NeedsArm <- {},
    Chals <- Codes, tokens <- bearers, recs <- keyed, req <- asks

ASSUME Assumptions ==
    /\ Pair!PairingAssumption
    /\ IsFiniteSet(Codes) /\ None \notin {plain} \cup Requests \cup Codes \cup Run!Binding

pairVars == <<offers, lapses, redeems, minting, granted, gone>>
enrolVars == <<hubVars, req, histVars>>
runVars == <<bearers, keyed, chals, asks, mu, dup, cur, armed, elevated, drawn, receipts, started, revoked,
             inWindow>>

AtMostOne(S) == \A x, y \in S : x = y

\* One device and one code, and whatever may happen to them.
OneDevice ==
    /\ AtMostOne(minted')
    /\ AtMostOne({c \in Codes : clock'[c] # "unissued" \/ \E r \in Requests : req'[r].shown = c})

\* Two devices with a request each, two codes, one credential: no pairing grant, no expired
\* registration, no revoke, no restart with a token, and no failed write but that of the code file.
CodesOnly ==
    /\ minted' = tokens'
    /\ \A d \in Devices : AtMostOne({r \in Requests : req'[r].dev = d})
    /\ loadErr' = "missing"
    /\ recFile' = recs' /\ AtMostOne({x.cred : x \in recs'})
    /\ \A r \in Requests : req'[r].pc = "grant" \/ req'[r].shown = Empty
                              => req'[r].pc \in {"idle", "cascade"}
    /\ \A d \in Devices : regs'[d] # "expired"

MCInit == scene \in {"device", "codes", "pairing", "run"} /\ Init /\ Pair!Init /\ Run!Init

MCNext ==
    /\ UNCHANGED scene
    /\ \/ scene = "device" /\ Next /\ OneDevice /\ UNCHANGED <<pairVars, runVars>>
       \/ scene = "codes" /\ Next /\ CodesOnly /\ UNCHANGED <<pairVars, runVars>>
       \/ scene = "pairing" /\ Pair!Next /\ UNCHANGED <<enrolVars, runVars>>
       \/ scene = "run" /\ Run!Next /\ UNCHANGED <<vars, pairVars>>

MCSpec == MCInit /\ [][MCNext]_<<scene, vars, pairVars, runVars>>

\* The properties of Pairing, stated and commented there.
OffersKept == Pair!TypeOK /\ Pair!OfferInOnePlace /\ Pair!RefusalLeavesOffer
OfferIsOneShot == Pair!OfferIsOneShot

\* The properties of TowerRun, stated and commented there.
RunsAsShown ==
    scene = "run" => Run!TypeOK /\ Run!StartedAsShown /\ Run!ReceiptIsFresh /\ Run!StartsAuthorised
NoReceiptAfterRevoke == Run!NoReceiptAfterRevoke
ChallengeIsOneShot == Run!ChallengeIsOneShot

Symmetry == Permutations(Codes) \cup Permutations(Creds) \cup Permutations(Requests)
                \cup Permutations(Devices)
=============================================================================
