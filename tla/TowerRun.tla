------------------------------ MODULE TowerRun ------------------------------
(***************************************************************************)
(* Running a signed line from the phone: src/tower_run.go, the runner-mode *)
(* elevation of src/tower_runner.go, the Vault arm of                      *)
(* src/tower_vaultarm.go, and the challenge and assertion half of          *)
(* src/passkeys.go that both share.                                        *)
(*                                                                         *)
(* Outside this program: run_bang.py, which verifies and starts the lines  *)
(* of one open ask, and whoever signs it again on the laptop meanwhile.    *)
(* The ask as signed is a version; what a version says is given by the     *)
(* constants.  Every exec of the runner reads the current one.             *)
(*                                                                         *)
(* The run, start and arm handlers hold towerActMu from their verify to    *)
(* the runner's answer; challenges and revokes do not.                     *)
(***************************************************************************)
EXTENDS Integers, FiniteSets, Sequences

CONSTANTS
    Devices,     \* device tokens
    Caps,        \* device -> its effective run:* caps
    Requests,    \* slots for requests in flight
    Chals,       \* challenges (random: never drawn twice)
    Versions,    \* the ask's signed versions, in the order they are signed
    Sha, Par,    \* version -> the line's hash (for a runner ask its revision); its cwd and timeout
    Class,       \* version -> class of the line: "ro", "mut", "prog"
    Sound,       \* versions whose signature holds, phone-ok and runnable
    NeedsArm,    \* versions whose runner has steps that need the Vault arm
    None

ASSUME VersionsAssumption == Versions \subseteq Nat /\ 1 \in Versions

\* A challenge is a string of 32 random bytes.
ASSUME ChalsAssumption == IsFiniteSet(Chals)

VARIABLES
    tokens,    \* device tokens not revoked
    recs,      \* devices with an enrolled passkey
    chals,     \* the open challenges: what each one is bound to
    req,       \* requests in flight
    mu,        \* towerActMu: the request that holds it
    dup,       \* towerLast: the lines with a duplicate-tap mark
    cur,       \* the ask's current version
    armed,     \* shas of the revisions with a valid Vault arm
    elevated,  \* runner mode is on
    drawn,     \* history: challenges issued so far
    receipts,  \* history: the assertions accepted, [chal, got (its binding)], in order
    started,   \* history: what the runner started
    revoked,   \* history: devices whose revoke cascade is over
    inWindow   \* history: line -> starts answered 202 while its mark stands

hist == <<drawn, receipts, started, revoked, inWindow>>
world == <<cur, armed, elevated>>
vars == <<tokens, recs, chals, req, mu, dup, world, hist>>

Shas == {Sha[v] : v \in Versions}
Pars == {Par[v] : v \in Versions}
Kinds == {"line", "runner"}
Lines == Kinds \X Shas

\* passkeyClasses and runCapFor
PasskeyClasses == {"mut", "prog"}
CapFor(class) == [ro |-> "run:ro", mut |-> "run:mut", prog |-> "run:prog"][class]

\* runChallenge: the version stands for the signature fingerprint.
Binding == [kind : Kinds, dev : Devices, ver : Versions, expired : BOOLEAN]

\* None stands for what is not there.
ASSUME NoneAssumption == None \notin Devices \cup Requests \cup Chals \cup Binding

Steps == {"idle", "cVerify", "cCreds", "cStore", "lock", "take", "caps", "creds", "store",
          "dup", "exec", "armLock", "armExec", "cascade"}

Idle == [pc |-> "idle", kind |-> "line", dev |-> None, sha |-> None, chal |-> None, by |-> None,
         ver |-> None, got |-> None]

TypeOK ==
    /\ tokens \in SUBSET Devices
    /\ recs \in SUBSET Devices
    /\ \A c \in Chals : chals[c] = None \/ chals[c] \in Binding
    /\ \A r \in Requests :
        /\ req[r].pc \in Steps /\ req[r].kind \in Kinds
        /\ req[r].dev \in Devices \cup {None} /\ req[r].sha \in Shas \cup {None}
        /\ req[r].chal \in Chals \cup {None} /\ req[r].by \in Devices \cup {None}
        /\ req[r].ver \in Versions \cup {None}
        /\ req[r].got = None \/ req[r].got \in Binding
    /\ mu \in Requests \cup {None}
    /\ dup \in SUBSET Lines
    /\ cur \in Versions /\ armed \in SUBSET Shas /\ elevated \in BOOLEAN
    /\ drawn \in SUBSET Chals
    /\ receipts \in Seq([chal : Chals, got : Binding])
    /\ revoked \in SUBSET Devices
    /\ inWindow \in [Lines -> Nat]

Init ==
    /\ tokens = Devices /\ recs = Devices
    /\ chals = [c \in Chals |-> None]
    /\ req = [r \in Requests |-> Idle]
    /\ mu = None /\ dup = {}
    /\ cur = 1 /\ armed = {} /\ elevated = FALSE
    /\ drawn = {} /\ receipts = <<>> /\ started = {} /\ revoked = {}
    /\ inWindow = [l \in Lines |-> 0]

-----------------------------------------------------------------------------
At(r, step) == req[r].pc = step
Goto(r, step) == req' = [req EXCEPT ![r].pc = step]
Done(r) == req' = [req EXCEPT ![r] = Idle]
Line(r) == <<req[r].kind, req[r].sha>>

\* runLineOK: the line has this sha, its class needs an assertion, and it would run now.
LineOK(v, sha) ==
    /\ Sha[v] = sha
    /\ Class[v] \in PasskeyClasses
    /\ v \in Sound
    /\ Class[v] = "prog" => sha \in armed

\* runnerOK (a version that is not Sound has a bad signature).
RunnerOK(v, sha, d) ==
    /\ v \in Sound
    /\ Sha[v] = sha
    /\ v \in NeedsArm => "run:prog" \in Caps[d] /\ sha \in armed
    /\ ~elevated

\* The checks on a fresh verify before a challenge is drawn; the class's cap, or run:mut.
MayChallenge(kind, v, sha, d) ==
    IF kind = "runner" THEN RunnerOK(v, sha, d)
    ELSE LineOK(v, sha) /\ CapFor(Class[v]) \in Caps[d]

\* The checks handleTowerRun and handleRunnerStart make under the mutex.
MayStart(kind, v, sha, d) ==
    IF kind = "runner" THEN RunnerOK(v, sha, d)
    ELSE /\ Sha[v] = sha
         /\ CapFor(Class[v]) \in Caps[d]
         /\ v \in Sound
         /\ Class[v] = "prog" => sha \in armed

NeedsPasskey(kind, v) == kind = "runner" \/ Class[v] \in PasskeyClasses

-----------------------------------------------------------------------------
(* run/challenge and runner/challenge: no mutex. *)

\* The handler's first reads: the token (authAct) and its caps.
AskChallenge(r, d, kind, sha) ==
    /\ At(r, "idle") /\ d \in tokens
    /\ IF kind = "runner" THEN "run:mut" \in Caps[d] ELSE Caps[d] \cap {"run:mut", "run:prog"} # {}
    /\ req' = [req EXCEPT ![r] = [Idle EXCEPT !.pc = "cVerify", !.kind = kind, !.dev = d, !.sha = sha]]
    /\ UNCHANGED <<tokens, recs, chals, mu, dup, world, hist>>

ChallengeVerify(r) ==
    /\ At(r, "cVerify")
    /\ IF MayChallenge(req[r].kind, cur, req[r].sha, req[r].dev)
       THEN req' = [req EXCEPT ![r].pc = "cCreds", ![r].ver = cur] ELSE Done(r)
    /\ UNCHANGED <<tokens, recs, chals, mu, dup, world, hist>>

\* beginPasskey reads the device's credentials; none is a refusal.
ChallengeCreds(r) ==
    /\ At(r, "cCreds")
    /\ IF req[r].dev \in recs THEN Goto(r, "cStore") ELSE Done(r)
    /\ UNCHANGED <<tokens, recs, chals, mu, dup, world, hist>>

\* storeChallenge: expired ones are dropped on the way.
ChallengeStore(r, c) ==
    /\ At(r, "cStore") /\ c \notin drawn
    /\ drawn' = drawn \cup {c}
    /\ chals' = [x \in Chals |->
            IF x = c THEN [kind |-> req[r].kind, dev |-> req[r].dev, ver |-> req[r].ver, expired |-> FALSE]
            ELSE IF chals[x] # None /\ chals[x].expired THEN None ELSE chals[x]]
    /\ Done(r)
    /\ UNCHANGED <<tokens, recs, mu, dup, world, receipts, started, revoked, inWindow>>

ChallengeExpires(c) ==
    /\ chals[c] # None /\ ~chals[c].expired
    /\ chals' = [chals EXCEPT ![c].expired = TRUE]
    /\ UNCHANGED <<tokens, recs, req, mu, dup, world, hist>>

-----------------------------------------------------------------------------
(* tower/run and runner/start, under towerActMu. *)

\* k is the device whose authenticator signed the assertion for challenge c (None: no assertion).
AskRun(r, d, kind, sha, c, k) ==
    /\ At(r, "idle") /\ d \in tokens
    /\ IF kind = "runner" THEN c # None /\ "run:mut" \in Caps[d] ELSE "run:ro" \in Caps[d]
    /\ (c = None) = (k = None)
    /\ req' = [req EXCEPT ![r] = [Idle EXCEPT !.pc = "lock", !.kind = kind, !.dev = d, !.sha = sha,
                                              !.chal = c, !.by = k]]
    /\ UNCHANGED <<tokens, recs, chals, mu, dup, world, hist>>

\* Mutant: an early return that leaves the mutex locked.
ReleaseKeepsMu(r) == Done(r) /\ UNCHANGED mu

Release(r) == mu' = None /\ Done(r)

\* Lock, verify, and every check before the assertion.
RunVerify(r) ==
    /\ At(r, "lock") /\ mu = None
    /\ IF MayStart(req[r].kind, cur, req[r].sha, req[r].dev)
          /\ (NeedsPasskey(req[r].kind, cur) => req[r].chal # None)
       THEN /\ mu' = r
            /\ req' = [req EXCEPT ![r].ver = cur,
                          ![r].pc = IF NeedsPasskey(req[r].kind, cur) THEN "take" ELSE "dup"]
       ELSE Done(r) /\ UNCHANGED mu
    /\ UNCHANGED <<tokens, recs, chals, dup, world, hist>>

\* bind: the challenge is for exactly what the caller is about to authorise.
Bound(ch, kind, sha) == ch.kind = kind /\ Sha[ch.ver] = sha

\* Mutant: the challenge survives its use.
SpendTakeKeeps(r) ==
    LET ch == chals[req[r].chal] IN
    /\ At(r, "take")
    /\ IF ch # None /\ ~ch.expired /\ ch.dev = req[r].dev
          /\ Bound(ch, req[r].kind, req[r].sha) /\ req[r].by = ch.dev
       THEN req' = [req EXCEPT ![r].pc = "caps", ![r].got = ch] /\ UNCHANGED mu
       ELSE Release(r)
    /\ UNCHANGED <<tokens, recs, chals, dup, world, hist>>

\* spendAssertion's first critical section, with the checks that need no lock.  A presented
\* challenge is spent whatever the outcome.
SpendTake(r) ==
    LET ch == chals[req[r].chal] IN
    /\ At(r, "take")
    /\ chals' = [chals EXCEPT ![req[r].chal] = None]
    /\ IF /\ ch # None /\ ~ch.expired
          /\ ch.dev = req[r].dev
          /\ Bound(ch, req[r].kind, req[r].sha)
          /\ req[r].by = ch.dev
       THEN req' = [req EXCEPT ![r].pc = "caps", ![r].got = ch] /\ UNCHANGED mu
       ELSE Release(r)
    /\ UNCHANGED <<tokens, recs, dup, world, hist>>

\* needCaps, on the token as it is now.
SpendCaps(r) ==
    LET need == IF req[r].got.kind = "runner" THEN "run:mut" ELSE CapFor(Class[req[r].got.ver]) IN
    /\ At(r, "caps")
    /\ IF req[r].dev \in tokens /\ need \in Caps[req[r].dev]
       THEN Goto(r, "creds") /\ UNCHANGED mu ELSE Release(r)
    /\ UNCHANGED <<tokens, recs, chals, dup, world, hist>>

\* recheck: a line must have the signature it had when the sheet was drawn; a runner its file.
Unchanged(ch, kind, v) == IF kind = "runner" THEN Sha[ch.ver] = Sha[v] ELSE ch.ver = v

\* The credentials as they are now, ValidateLogin, recheck.
SpendCreds(r) ==
    /\ At(r, "creds")
    /\ IF req[r].dev \in recs /\ Unchanged(req[r].got, req[r].kind, req[r].ver)
       THEN Goto(r, "store") /\ UNCHANGED mu ELSE Release(r)
    /\ UNCHANGED <<tokens, recs, chals, dup, world, hist>>

\* Mutant: the outcome of the store is not looked at.
SpendStoreBlind(r, saved) ==
    /\ At(r, "store")
    /\ receipts' = Append(receipts, [chal |-> req[r].chal, got |-> req[r].got])
    /\ Goto(r, "dup")
    /\ UNCHANGED <<tokens, recs, chals, mu, dup, world, drawn, started, revoked, inWindow>>

\* The sign count is stored, or nothing was authorised: the credential must still be there.
SpendStore(r, saved) ==
    /\ At(r, "store")
    /\ IF saved /\ req[r].dev \in recs
       THEN /\ receipts' = Append(receipts, [chal |-> req[r].chal, got |-> req[r].got])
            /\ Goto(r, "dup") /\ UNCHANGED mu
       ELSE Release(r) /\ UNCHANGED receipts
    /\ UNCHANGED <<tokens, recs, chals, dup, world, drawn, started, revoked, inWindow>>

\* A WebAuthn failure (signature, clone warning, user verification), the rate limit, a verify
\* that failed: a refusal at any step before the duplicate mark.
RunRefused(r) ==
    /\ req[r].pc \in {"lock", "take", "caps", "creds", "cVerify", "cCreds", "armLock"}
    /\ Done(r)
    /\ mu' = IF mu = r THEN None ELSE mu
    /\ UNCHANGED <<tokens, recs, chals, dup, world, hist>>

\* towerDup
RunDup(r) ==
    /\ At(r, "dup")
    /\ IF Line(r) \in dup
       THEN Release(r) /\ UNCHANGED dup
       ELSE dup' = dup \cup {Line(r)} /\ Goto(r, "exec") /\ UNCHANGED mu
    /\ UNCHANGED <<tokens, recs, chals, world, hist>>

\* Mutant: the expected cwd and timeout are read again from the handler's own verify.
RunnerAcceptsAnyPar(r) ==
    /\ cur \in Sound
    /\ Sha[cur] = req[r].sha
    /\ req[r].kind = "runner" => (cur \in NeedsArm => req[r].sha \in armed) /\ ~elevated
    /\ req[r].kind = "line" => (Class[cur] = "prog" => req[r].sha \in armed)

\* run_bang.py run --sha [--expect-cwd --expect-timeout], runner start --expect-rev: the runner
\* makes its own checks on the version it finds.
RunnerAccepts(r) ==
    /\ cur \in Sound
    /\ Sha[cur] = req[r].sha
    /\ IF req[r].kind = "runner" THEN (cur \in NeedsArm => req[r].sha \in armed) /\ ~elevated
       ELSE /\ (Class[cur] = "prog" => req[r].sha \in armed)
            /\ (req[r].got # None => Par[cur] = Par[req[r].got.ver])

Start(r) ==
    /\ started' = started \cup {[kind |-> req[r].kind, dev |-> req[r].dev, ver |-> cur,
                                 chal |-> req[r].chal, got |-> req[r].got]}
    /\ elevated' = (elevated \/ req[r].kind = "runner")

\* Mutant: a refused start keeps its mark.
UndupForgotten(l) == UNCHANGED <<dup, inWindow>>

\* towerUndup
Undup(l) == dup' = dup \ {l} /\ inWindow' = [inWindow EXCEPT ![l] = 0]

\* towerUndup on every outcome but a confirmed start.
RunExec(r, answered) ==
    /\ At(r, "exec")
    /\ IF RunnerAccepts(r) THEN Start(r) ELSE UNCHANGED <<started, elevated>>
    /\ IF RunnerAccepts(r) /\ answered
       THEN /\ inWindow' = IF Line(r) \in dup THEN [inWindow EXCEPT ![Line(r)] = @ + 1] ELSE inWindow
            /\ UNCHANGED dup
       ELSE Undup(Line(r))
    /\ Release(r)
    /\ UNCHANGED <<tokens, recs, chals, cur, armed, drawn, receipts, revoked>>

\* The mark lasts towerDedupFor (10 s), less than the runner may take (towerExecTimeout, 60 s).
DupLapses(l) ==
    /\ l \in dup
    /\ dup' = dup \ {l}
    /\ inWindow' = [inWindow EXCEPT ![l] = 0]
    /\ UNCHANGED <<tokens, recs, chals, req, mu, world, drawn, receipts, started, revoked>>

-----------------------------------------------------------------------------
(* tower/run/arm, under towerActMu: the revision the sheet showed must still be current. *)

AskArm(r, d, sha) ==
    /\ At(r, "idle") /\ d \in tokens /\ "run:prog" \in Caps[d]
    /\ req' = [req EXCEPT ![r] = [Idle EXCEPT !.pc = "armLock", !.dev = d, !.sha = sha]]
    /\ UNCHANGED <<tokens, recs, chals, mu, dup, world, hist>>

ArmVerify(r) ==
    /\ At(r, "armLock") /\ mu = None
    /\ IF Sha[cur] = req[r].sha THEN mu' = r /\ Goto(r, "armExec") ELSE Done(r) /\ UNCHANGED mu
    /\ UNCHANGED <<tokens, recs, chals, dup, world, hist>>

\* seq arm: the runner checks the Vault signature against the revision it finds.
ArmExec(r) ==
    /\ At(r, "armExec")
    /\ armed' = IF Sha[cur] = req[r].sha THEN armed \cup {req[r].sha} ELSE armed
    /\ Release(r)
    /\ UNCHANGED <<tokens, recs, chals, dup, cur, elevated, hist>>

-----------------------------------------------------------------------------
(* Revoke, and the world outside. *)

Revoke(r, d) ==
    /\ At(r, "idle") /\ d \in tokens
    /\ tokens' = tokens \ {d}
    /\ req' = [req EXCEPT ![r] = [Idle EXCEPT !.pc = "cascade", !.dev = d]]
    /\ UNCHANGED <<recs, chals, mu, dup, world, hist>>

Cascade(r) ==
    /\ At(r, "cascade")
    /\ recs' = recs \ {req[r].dev}
    /\ chals' = [c \in Chals |-> IF chals[c] # None /\ chals[c].dev = req[r].dev THEN None ELSE chals[c]]
    /\ revoked' = revoked \cup {req[r].dev}
    /\ Done(r)
    /\ UNCHANGED <<tokens, mu, dup, world, drawn, receipts, started, inWindow>>

\* The laptop signs the next version; an arm is of a revision and stays with it.
Resign ==
    /\ cur + 1 \in Versions
    /\ cur' = cur + 1
    /\ UNCHANGED <<tokens, recs, chals, req, mu, dup, armed, elevated, hist>>

ArmLapses(sha) ==
    /\ sha \in armed
    /\ armed' = armed \ {sha}
    /\ UNCHANGED <<tokens, recs, chals, req, mu, dup, cur, elevated, hist>>

\* handleRunnerEnd, or the runner's own idle and hard limits.
ElevationEnds ==
    /\ elevated
    /\ elevated' = FALSE
    /\ UNCHANGED <<tokens, recs, chals, req, mu, dup, cur, armed, hist>>

-----------------------------------------------------------------------------
Locked(r) ==
    \/ SpendTake(r) \/ SpendCaps(r) \/ SpendCreds(r)
    \/ \E saved \in BOOLEAN : SpendStore(r, saved)
    \/ RunDup(r)
    \/ \E answered \in BOOLEAN : RunExec(r, answered)
    \/ ArmExec(r)

Unlocked(r) ==
    \/ ChallengeVerify(r) \/ ChallengeCreds(r)
    \/ \E c \in Chals : ChallengeStore(r, c)
    \/ Cascade(r)

Arrival(r) ==
    \E d \in Devices :
        \/ \E kind \in Kinds, sha \in Shas :
            \/ AskChallenge(r, d, kind, sha)
            \/ \E c \in drawn \cup {None}, k \in Devices \cup {None} : AskRun(r, d, kind, sha, c, k)
        \/ \E sha \in Shas : AskArm(r, d, sha)
        \/ Revoke(r, d)

Next ==
    \/ \E r \in Requests : Locked(r) \/ Unlocked(r) \/ RunVerify(r) \/ ArmVerify(r) \/ RunRefused(r)
    \/ \E r \in Requests : Arrival(r)
    \/ \E c \in Chals : ChallengeExpires(c)
    \/ \E l \in Lines : DupLapses(l)
    \/ Resign \/ ElevationEnds
    \/ \E sha \in Shas : ArmLapses(sha)

\* Every runner exec ends (its context is killed after towerExecTimeout), a request that holds the
\* mutex runs on, and sync.Mutex does not starve a waiter.
Fairness ==
    \A r \in Requests : WF_vars(Locked(r)) /\ SF_vars(RunVerify(r)) /\ SF_vars(ArmVerify(r))

Spec == Init /\ [][Next]_vars /\ Fairness

-----------------------------------------------------------------------------
(* Properties. *)

\* Where a challenge stands.  One taken by the request that holds the mutex is still live.
Stage == [c \in Chals |->
    IF \E i \in DOMAIN receipts : receipts[i].chal = c THEN "used"
    ELSE IF c \notin drawn THEN "new"
    ELSE IF \/ chals[c] # None
            \/ \E r \in Requests : req[r].chal = c /\ req[r].got # None
                                   /\ req[r].pc \in {"caps", "creds", "store"}
         THEN "live" ELSE "dead"]

Challenge == INSTANCE OneShot WITH
    Secrets <- Chals, Products <- 1..Cardinality(Chals), stage <- Stage,
    yielded <- {[proof |-> receipts[i].chal, product |-> i] : i \in DOMAIN receipts}

\* One Face ID authorises one thing: a challenge is spent by its first presentation, whatever the
\* outcome, and yields at most one receipt.
ChallengeIsOneShot == Challenge!Spec

\* What a passkey start runs is what its challenge was drawn for, though the ask may be signed
\* again between the sheet, the verify and the runner's own read: the same kind, the same hash,
\* and for a line the cwd and timeout the sheet showed; and the challenge was the caller's own.
StartedAsShown ==
    \A s \in started : s.got # None =>
        /\ s.got.kind = s.kind /\ s.got.dev = s.dev
        /\ Sha[s.ver] = Sha[s.got.ver]
        /\ s.kind = "line" => Par[s.ver] = Par[s.got.ver]

\* No line of a class that needs Face ID is authorised under a signature other than the one the
\* sheet showed: the receipt's fingerprint is the one the handler verified under the mutex.
ReceiptIsFresh ==
    \A r \in Requests : req[r].pc \in {"store", "dup", "exec"} /\ req[r].got # None /\ req[r].kind = "line"
        => req[r].got.ver = req[r].ver

\* One Face ID starts one thing: a start under an assertion has the receipt of its challenge, and no
\* other start has it; a start without one is of a line that the handler saw to need none.
StartsAuthorised ==
    \A s \in started :
        IF s.got = None
        THEN s.kind = "line" /\ \E v \in Versions : Sha[v] = Sha[s.ver] /\ Class[v] \notin PasskeyClasses
        ELSE /\ \E i \in DOMAIN receipts : receipts[i] = [chal |-> s.chal, got |-> s.got]
             /\ \A t \in started : t.got # None /\ t.chal = s.chal => t = s

\* Once the cascade of a revoke is over, no assertion of that device is accepted any more, even one
\* whose challenge, caps and credentials had been checked before the revoke.
NoReceiptAfterRevoke ==
    [][\A i \in DOMAIN receipts' \ DOMAIN receipts : receipts'[i].got.dev \notin revoked]_vars

\* A double tap starts a line once: while its mark stands, at most one start was answered.
DoubleTapStartsOnce == \A l \in dup : inWindow[l] <= 1

\* A refused or failed run never holds the duplicate mark: a mark means the line was really
\* started, or its request is in the runner now.
MarkMeansStarted ==
    \A l \in dup : inWindow[l] = 1 \/ \E r \in Requests : At(r, "exec") /\ Line(r) = l

\* The mark tells the truth in both directions: what carries it was started or is being started, and
\* only once.
MarkIsTrue == MarkMeansStarted /\ DoubleTapStartsOnce

\* towerActMu is never left locked, so every run, start and arm request is answered.
RunAnswered == \A r \in Requests : req[r].pc \in {"lock", "armLock"} ~> At(r, "idle")

=============================================================================
