---------------------------- MODULE PasskeyEnrol ----------------------------
(***************************************************************************)
(* Enrolling a passkey on the phone (src/passkeys.go, first half, and the  *)
(* revoke cascade of src/tokens.go).  A credential is stored only against  *)
(* a proof of presence at the laptop: the 6-digit enrol code written to a  *)
(* 0600 file, or the grant a device gets when its token was minted by      *)
(* redeeming a pairing QR (module Pairing).                                *)
(*                                                                         *)
(* Handlers run concurrently and hold the hub's mutex only for single      *)
(* look-ups and updates, so a request is a sequence of steps, one per      *)
(* critical section, kept in req[r].pc.  Between two steps anything else   *)
(* may run: another request, a timer, a revoke, a restart.                 *)
(*                                                                         *)
(* A request may be refused for reasons this module does not track (rate   *)
(* limit, body, WebAuthn verification): Refuse ends it at any step.        *)
(***************************************************************************)
EXTENDS DeviceTokens

CONSTANTS
    ActDevices, \* the devices minted with the "act" capability
    Requests,  \* slots for requests in flight
    Codes,     \* 6-digit codes; one not issued yet is just a wrong guess
    Creds,     \* credential ids an authenticator may present
    MaxFails,  \* enrolCodeMaxFails
    NoVal,     \* not a code: none is live, or the code file is absent
    Empty,     \* the empty code: "use my pairing grant"
    None       \* no device

ASSUME MaxFailsAssumption == MaxFails \in Nat \ {0}

ASSUME DistinctAssumption ==
    /\ ActDevices \subseteq Devices
    /\ NoVal \notin Codes /\ Empty \notin Codes
    /\ None \notin Devices
    /\ Codes \cap Devices = {}

VARIABLES
    code,      \* the live enrol code: value, wrong tries, device it is bound to
    codeFile,  \* content of the code file
    leftover,  \* history: a remove of the code file failed, and nothing was written there since
    clock,     \* code -> its AfterFunc: "unissued", "armed", "due" (5 minutes over), "off"
    pairs,     \* device -> state of its pairing grant
    regs,      \* device -> state of its registration in flight
    recs,      \* credentials in memory
    recFile,   \* credentials in the passkey file
    unread,    \* history: credentials of the file that this start failed to read
    req,       \* the requests in flight
    wrong,     \* history: code -> wrong tries counted against it
    first,     \* history: code -> first device that presented it correctly
    enrolled   \* history: which proof stored which credential

hubVars == <<code, codeFile, leftover, clock, pairs, regs, recs, recFile, unread>>
histVars == <<wrong, first, enrolled>>
vars == <<tokVars, hubVars, req, histVars>>

Shown == Codes \cup {Empty}
Records == [dev : Devices, cred : Creds]
LiveCodes == [val : Codes, fails : 0..MaxFails - 1, dev : Devices \cup {None}]
Lease == {"none", "live", "expired"}
Steps == {"idle", "beginCheck", "beginStore", "finishTake", "finishCheck",
          "finishSpend", "finishAppend", "cascade", "grant"}

NoCode == [val |-> NoVal, fails |-> 0, dev |-> None]

Idle == [pc |-> "idle", dev |-> None, shown |-> Empty, reg |-> "none"]

\* What the request presents as its proof: the code itself, or the grant of its device.
ProofOf(r) == IF req[r].shown = Empty THEN req[r].dev ELSE req[r].shown

TypeOK ==
    /\ TokTypeOK
    /\ code \in LiveCodes \cup {NoCode}
    /\ codeFile \in Codes \cup {NoVal} /\ leftover \in BOOLEAN
    /\ clock \in [Codes -> {"unissued", "armed", "due", "off"}]
    /\ pairs \in [Devices -> Lease]
    /\ regs \in [Devices -> Lease]
    /\ recs \in SUBSET Records
    /\ recFile \in SUBSET Records /\ unread \in SUBSET Records
    /\ req \in [Requests -> [pc : Steps, dev : Devices \cup {None}, shown : Shown, reg : Lease]]
    /\ wrong \in [Codes -> 0..MaxFails]
    /\ first \in [Codes -> Devices \cup {None}]
    /\ enrolled \in SUBSET [proof : Codes \cup Devices, product : Records]

Init ==
    /\ TokInit
    /\ code = NoCode /\ codeFile = NoVal /\ leftover = FALSE
    /\ clock = [c \in Codes |-> "unissued"]
    /\ pairs = [d \in Devices |-> "none"]
    /\ regs = [d \in Devices |-> "none"]
    /\ recs = {} /\ recFile = {} /\ unread = {}
    /\ req = [r \in Requests |-> Idle]
    /\ wrong = [c \in Codes |-> 0]
    /\ first = [c \in Codes |-> None]
    /\ enrolled = {}

-----------------------------------------------------------------------------
(* The request slots. *)

At(r, step) == req[r].pc = step

Goto(r, step) == req' = [req EXCEPT ![r].pc = step]

Done(r) == req' = [req EXCEPT ![r] = Idle]

Start(r, step, d, s) ==
    /\ At(r, "idle")
    /\ req' = [req EXCEPT ![r] = [pc |-> step, dev |-> d, shown |-> s, reg |-> "none"]]

-----------------------------------------------------------------------------
(* The enrol code and the pairing grant. *)

\* Mutant: the file outlives the code.
VoidCodeKeepsFile == code' = NoCode /\ UNCHANGED <<codeFile, leftover>>

\* voidCodeLocked: the code is forgotten whether or not the remove of its file succeeds.
VoidCode ==
    /\ code' = NoCode
    /\ \/ codeFile' = NoVal /\ leftover' = FALSE
       \/ codeFile # NoVal /\ leftover' = TRUE /\ UNCHANGED codeFile

\* A failed write of the file leaves no code at all, the one it was to replace included; that one's
\* file is removed, or stays where the remove fails as well.
IssueCode(c, written) ==
    /\ clock[c] = "unissued"
    /\ IF written
       THEN /\ code' = [val |-> c, fails |-> 0, dev |-> None]
            /\ codeFile' = c /\ leftover' = FALSE
            /\ clock' = [clock EXCEPT ![c] = "armed"]
       ELSE VoidCode /\ clock' = [clock EXCEPT ![c] = "off"]
    /\ UNCHANGED <<tokVars, pairs, regs, recs, recFile, unread, req, histVars>>

\* Mutant: a timer voids whatever code is live.
TimerVoidsAny(c) ==
    /\ clock[c] = "due"
    /\ clock' = [clock EXCEPT ![c] = "off"]
    /\ IF code # NoCode THEN VoidCode ELSE UNCHANGED <<code, codeFile, leftover>>
    /\ UNCHANGED <<tokVars, pairs, regs, recs, recFile, unread, req, histVars>>

\* The AfterFunc of one issue: it voids the code only if it is still that one.
Timer(c) ==
    /\ clock[c] = "due"
    /\ clock' = [clock EXCEPT ![c] = "off"]
    /\ IF code.val = c THEN VoidCode ELSE UNCHANGED <<code, codeFile, leftover>>
    /\ UNCHANGED <<tokVars, pairs, regs, recs, recFile, unread, req, histVars>>

\* Past its 5 minutes: its timer is due or has run.
Expired == code # NoCode /\ clock[code.val] # "armed"

\* Mutant: a code works for any device.
CodeMatchesAny(s, d) == code.val = s /\ ~Expired

CodeMatches(s, d) == code.val = s /\ ~Expired /\ code.dev \in {None, d}

\* checkEnrol accepts: the grant for an empty code, otherwise the code.
Accepts(s, d) == IF s = Empty THEN pairs[d] = "live" ELSE CodeMatches(s, d)

\* Mutant: an accepted grant is not spent.
CheckGrantKeeps(d, consume) == UNCHANGED <<pairs, code, codeFile, leftover, wrong, first>>

\* checkEnrol on the empty code: an expired grant is dropped, an accepted one spent if asked.
CheckGrant(d, consume) ==
    /\ pairs' = IF pairs[d] = "expired" \/ consume THEN [pairs EXCEPT ![d] = "none"] ELSE pairs
    /\ UNCHANGED <<code, codeFile, leftover, wrong, first>>

\* Mutant: one wrong try too many.
LocksOutLate(fails) == fails > MaxFails

\* The wrong try that voids the code.
LocksOut(fails) == fails >= MaxFails

\* A correct code: spent, or bound to the device that showed it.
CodeRight(s, d, consume) ==
    /\ CodeMatches(s, d)
    /\ first' = IF first[s] = None THEN [first EXCEPT ![s] = d] ELSE first
    /\ IF consume THEN VoidCode
       ELSE code' = [val |-> s, fails |-> code.fails, dev |-> d] /\ UNCHANGED <<codeFile, leftover>>
    /\ UNCHANGED wrong

\* A wrong code, or the right one from a second device, counts as a wrong try.
CodeWrong(s, d) ==
    /\ code # NoCode /\ ~Expired /\ ~CodeMatches(s, d)
    /\ wrong' = [wrong EXCEPT ![code.val] = @ + 1]
    /\ IF LocksOut(code.fails + 1) THEN VoidCode
       ELSE /\ code' = [val |-> code.val, fails |-> code.fails + 1, dev |-> code.dev]
            /\ UNCHANGED <<codeFile, leftover>>
    /\ UNCHANGED first

\* checkCode
CheckCode(s, d, consume) ==
    /\ UNCHANGED pairs
    /\ \/ code = NoCode /\ UNCHANGED <<code, codeFile, leftover, wrong, first>>
       \/ Expired /\ VoidCode /\ UNCHANGED <<wrong, first>>
       \/ CodeRight(s, d, consume)
       \/ CodeWrong(s, d)

CheckEnrol(s, d, consume) ==
    /\ IF s = Empty THEN CheckGrant(d, consume) ELSE CheckCode(s, d, consume)
    /\ UNCHANGED clock

-----------------------------------------------------------------------------
(* Tokens: minted directly, or by a pairing redeem that then grants. *)

MintDirect(d, saved) ==
    /\ Mint(d, saved)
    /\ UNCHANGED <<hubVars, req, histVars>>

\* handlePairRedeem after take: mint, and in a later critical section grantPair.
MintPaired(r, d, saved) ==
    /\ Mint(d, saved)
    /\ IF saved /\ d \in ActDevices THEN Start(r, "grant", d, Empty)
       ELSE At(r, "idle") /\ UNCHANGED req
    /\ UNCHANGED <<hubVars, histVars>>

GrantPair(r) ==
    /\ At(r, "grant")
    /\ pairs' = [pairs EXCEPT ![req[r].dev] = "live"]
    /\ Done(r)
    /\ UNCHANGED <<tokVars, code, codeFile, leftover, clock, regs, recs, recFile, unread, histVars>>

-----------------------------------------------------------------------------
(* POST register/begin and register/finish. *)

\* passkeyActor: the token store is read once, at the start of the request.
Begin(r, d, s) ==
    /\ d \in tokens \cap ActDevices
    /\ Start(r, "beginCheck", d, s)
    /\ UNCHANGED <<tokVars, hubVars, histVars>>

BeginCheck(r) ==
    /\ At(r, "beginCheck")
    /\ CheckEnrol(req[r].shown, req[r].dev, FALSE)
    /\ IF Accepts(req[r].shown, req[r].dev) THEN Goto(r, "beginStore") ELSE Done(r)
    /\ UNCHANGED <<tokVars, regs, recs, recFile, unread, enrolled>>

BeginStore(r) ==
    /\ At(r, "beginStore")
    /\ regs' = [regs EXCEPT ![req[r].dev] = "live"]
    /\ Done(r)
    /\ UNCHANGED <<tokVars, code, codeFile, leftover, clock, pairs, recs, recFile, unread, histVars>>

Finish(r, d, s) ==
    /\ d \in tokens \cap ActDevices
    /\ Start(r, "finishTake", d, s)
    /\ UNCHANGED <<tokVars, hubVars, histVars>>

\* The registration in flight is single use whatever happens next.
FinishTake(r) ==
    /\ At(r, "finishTake")
    /\ req' = [req EXCEPT ![r].pc = "finishCheck", ![r].reg = regs[req[r].dev]]
    /\ regs' = [regs EXCEPT ![req[r].dev] = "none"]
    /\ UNCHANGED <<tokVars, code, codeFile, leftover, clock, pairs, recs, recFile, unread, histVars>>

\* checkEnrol without consuming, then: had a registration, not expired, the WebAuthn ceremony.
FinishCheck(r) ==
    /\ At(r, "finishCheck")
    /\ CheckEnrol(req[r].shown, req[r].dev, FALSE)
    /\ IF Accepts(req[r].shown, req[r].dev) /\ req[r].reg = "live"
       THEN Goto(r, "finishSpend") ELSE Done(r)
    /\ UNCHANGED <<tokVars, regs, recs, recFile, unread, enrolled>>

FinishSpend(r) ==
    /\ At(r, "finishSpend")
    /\ CheckEnrol(req[r].shown, req[r].dev, TRUE)
    /\ IF Accepts(req[r].shown, req[r].dev) THEN Goto(r, "finishAppend") ELSE Done(r)
    /\ UNCHANGED <<tokVars, regs, recs, recFile, unread, enrolled>>

\* A credential id already stored is refused; a failed save is rolled back in memory.
FinishAppend(r, k, saved) ==
    /\ At(r, "finishAppend")
    /\ IF saved /\ \A x \in recs : x.cred # k
       THEN /\ recs' = recs \cup {[dev |-> req[r].dev, cred |-> k]}
            /\ recFile' = recs' /\ unread' = {}
            /\ enrolled' = enrolled \cup
                    {[proof |-> ProofOf(r), product |-> [dev |-> req[r].dev, cred |-> k]]}
       ELSE UNCHANGED <<recs, recFile, unread, enrolled>>
    /\ Done(r)
    /\ UNCHANGED <<tokVars, code, codeFile, leftover, clock, pairs, regs, wrong, first>>

\* Rate limit, bad body, a ceremony that does not verify.
Refuse(r) ==
    /\ req[r].pc \in {"beginCheck", "beginStore", "finishTake", "finishCheck", "finishSpend"}
    /\ Done(r)
    /\ UNCHANGED <<tokVars, hubVars, histVars>>

-----------------------------------------------------------------------------
(* Revoke: the token first, durably; then the cascade, under the hub's own lock. *)

Revoke(r, d, saved) ==
    /\ RevokeToken(d, saved)
    /\ IF saved THEN Start(r, "cascade", d, Empty) ELSE At(r, "idle") /\ UNCHANGED req
    /\ UNCHANGED <<hubVars, histVars>>

\* revokeDevice.  The file is rewritten only if a credential went; memory changes even if that fails.
Cascade(r, saved) ==
    LET d == req[r].dev
        kept == {x \in recs : x.dev # d}
    IN /\ At(r, "cascade")
       /\ regs' = [regs EXCEPT ![d] = "none"]
       /\ IF code # NoCode /\ code.dev = d THEN VoidCode ELSE UNCHANGED <<code, codeFile, leftover>>
       /\ recs' = kept
       /\ IF kept # recs /\ saved THEN recFile' = kept /\ unread' = {}
          ELSE UNCHANGED <<recFile, unread>>
       /\ Done(r)
       /\ UNCHANGED <<tokVars, clock, pairs, histVars>>

-----------------------------------------------------------------------------
(* Time and restarts. *)

CodeLapses(c) ==
    /\ clock[c] = "armed"
    /\ clock' = [clock EXCEPT ![c] = "due"]
    /\ UNCHANGED <<tokVars, code, codeFile, leftover, pairs, regs, recs, recFile, unread, req, histVars>>

GrantExpires(d) ==
    /\ pairs[d] = "live"
    /\ pairs' = [pairs EXCEPT ![d] = "expired"]
    /\ UNCHANGED <<tokVars, code, codeFile, leftover, clock, regs, recs, recFile, unread, req, histVars>>

RegExpires(d) ==
    /\ regs[d] = "live"
    /\ regs' = [regs EXCEPT ![d] = "expired"]
    /\ UNCHANGED <<tokVars, code, codeFile, leftover, clock, pairs, recs, recFile, unread, req, histVars>>

\* Mutant: a store that failed to load prunes as if every token had been revoked.
PrunedAlways(stored, loaded, err) == {x \in stored : x.dev \in loaded}

\* prune at startup: only a token list that was really read is evidence of a revoke.
Pruned(stored, loaded, err) ==
    IF err # "none" THEN stored ELSE {x \in stored : x.dev \in loaded}

\* The process dies at any moment and starts again: newTokenStore, newPasskeyHub, startup.  A passkey
\* file that cannot be read or parsed is no error: the hub starts with no credentials, and its next
\* save replaces the file.  The prune saves only if it dropped one.
Restart(readable, known, saved) ==
    LET stored == IF known THEN recFile ELSE {}
    IN /\ LoadTokens(readable)
       /\ VoidCode
       /\ clock' = [c \in Codes |-> IF clock[c] = "unissued" THEN "unissued" ELSE "off"]
       /\ pairs' = [d \in Devices |-> "none"]
       /\ regs' = [d \in Devices |-> "none"]
       /\ recs' = Pruned(stored, tokens', loadErr')
       /\ recFile' = IF recs' # stored /\ saved THEN recs' ELSE recFile
       /\ unread' = IF known THEN {} ELSE recFile
       /\ req' = [r \in Requests |-> Idle]
       /\ UNCHANGED histVars

-----------------------------------------------------------------------------
Handler(r) ==
    \/ BeginCheck(r) \/ BeginStore(r)
    \/ FinishTake(r) \/ FinishCheck(r) \/ FinishSpend(r)
    \/ \E k \in Creds, saved \in BOOLEAN : FinishAppend(r, k, saved)
    \/ \E saved \in BOOLEAN : Cascade(r, saved)
    \/ GrantPair(r)
    \/ Refuse(r)

Arrival(r, d) ==
    \/ \E s \in Shown : Begin(r, d, s) \/ Finish(r, d, s)
    \/ \E saved \in BOOLEAN : MintPaired(r, d, saved) \/ Revoke(r, d, saved)

Next ==
    \/ \E r \in Requests : Handler(r)
    \/ \E r \in Requests, d \in Devices : Arrival(r, d)
    \/ \E d \in Devices, saved \in BOOLEAN : MintDirect(d, saved)
    \/ \E c \in Codes, written \in BOOLEAN : IssueCode(c, written)
    \/ \E c \in Codes : CodeLapses(c) \/ Timer(c)
    \/ \E d \in Devices : GrantExpires(d) \/ RegExpires(d)
    \/ \E readable, known, saved \in BOOLEAN : Restart(readable, known, saved)

Spec == Init /\ [][Next]_vars

-----------------------------------------------------------------------------
(* Properties. *)

\* Where a proof of presence can be: an enrol code by its value, a pairing grant by its device.  The
\* hub has it, or a request that spent it and has yet to append, or a redeem that has yet to grant.
InHub(p) ==
    \/ p \in Codes /\ code.val = p
    \/ p \in Devices /\ pairs[p] # "none"

Holds(r, p) ==
    \/ At(r, "finishAppend") /\ ProofOf(r) = p
    \/ At(r, "grant") /\ req[r].dev = p

Used(p) == \E e \in enrolled : e.proof = p

Proofs == Codes \cup Devices

Unissued(p) == IF p \in Codes THEN clock[p] = "unissued" ELSE p \notin minted

Place(p) == InHub(p) \/ \E r \in Requests : Holds(r, p)

StageOf(p) ==
    IF Used(p) THEN "used" ELSE IF Unissued(p) THEN "new" ELSE IF Place(p) THEN "live" ELSE "dead"

Stage == [p \in Proofs |-> StageOf(p)]

Presence == INSTANCE OneShot WITH
    Secrets <- Proofs, Products <- Records, stage <- Stage, yielded <- enrolled

\* Every proof of presence is a one-shot secret: however many finishes race for it, it stores at
\* most one credential, and spent, expired or voided it never works again.
PresenceIsOneShot == Presence!Spec

\* Two credentials never come of one proof of presence.
OnePerProof == Presence!AtMostOnce

\* What makes it so: a proof is in one place.  The hub, the requests that hold one and the
\* credentials stored never share a proof, and one not issued yet is nowhere.
OnePlace ==
    /\ \A p \in Proofs : Unissued(p) => ~InHub(p) /\ ~Used(p)
    /\ \A p \in Proofs : Used(p) => ~InHub(p)
    /\ \A r \in Requests, p \in Proofs : Holds(r, p) => ~Unissued(p) /\ ~InHub(p) /\ ~Used(p)
    /\ \A r, q \in Requests, p \in Proofs : Holds(r, p) /\ Holds(q, p) => r = q

\* A code enrols only the device that first presented it correctly: "a correct code from a
\* second device: someone else saw it" (checkCode).
FirstDeviceOnly == \A e \in enrolled : e.proof \in Codes => e.product.dev = first[e.proof]

\* A code that was guessed wrong MaxFails times never stores a credential, whichever requests
\* and devices made the wrong tries and whatever was already past its first check.
LockoutIsFinal ==
    \A c \in Codes : wrong[c] >= MaxFails =>
        /\ code.val # c
        /\ \A e \in enrolled : e.proof # c

\* The code file shows the live code, so the operator can read it, and no code file outlives its code
\* unless its remove failed: whichever way a code ends, its file is at least tried to be removed.
FileIsLiveCode == codeFile = code.val \/ (code = NoCode /\ leftover)

\* A stored credential goes only when its device's token is durably gone: a token file that could not
\* be read at start is not evidence of a revoke (prune).  The exception is what the code makes it: a
\* passkey file that the start failed to read is replaced by the next save, with all it held.
CredLostOnlyByRevoke ==
    [][\A x \in (recs \cup recFile) \ (recs' \cup recFile') : x.dev \notin tokFile \/ x \in unread]_vars

\* The live code's own timer has yet to run, whatever older codes' timers did.
LiveCodeHasTimer == code # NoCode => clock[code.val] \in {"armed", "due"}

\* Why a code whose time is not over may end: a finish took it, it was guessed wrong once too often, it
\* was replaced (or was to be), the token of the device that showed it was revoked, or a restart.
EndsEarly(c) ==
    \/ \E r \in Requests : Holds(r, c)'
    \/ wrong'[c] >= MaxFails
    \/ \E e \in Codes : clock[e] = "unissued" /\ clock'[e] # "unissued"
    \/ \E r \in Requests : At(r, "cascade") /\ req[r].dev = code.dev
    \/ clock'[c] = "off"

\* A code lives its enrolCodeTTL, no more and no less: its own timer is always still to come, and
\* until then nothing else voids it without a reason, least of all the late timer of a code it replaced.
CodeLivesItsTime ==
    /\ []LiveCodeHasTimer
    /\ [][\A c \in Codes : code.val = c /\ clock[c] = "armed" /\ code'.val # c => EndsEarly(c)]_vars

\* What passkeys.go says of a revoke: "revoking the token deletes its credentials".  Outside a
\* revoke that is still in its handler, every credential belongs to a token.
RevokeDeletesCreds ==
    loadErr # "broken" =>
        \A x \in recs : x.dev \in tokens \/ \E r \in Requests : At(r, "cascade") /\ req[r].dev = x.dev

=============================================================================
