---------------------------- MODULE SessionList ----------------------------
(***************************************************************************)
(* The session list of one profile (src/sessions.go): the requests, the    *)
(* body they share, and the builds that renew it.                          *)
(*                                                                         *)
(* refreshSessions starts a build or joins the one in flight, under c.mu.  *)
(* A build takes c.mu twice more, to store the body and to take itself off *)
(* the table, and closes its channel after that; a request looks at the    *)
(* body before and after its wait.                                         *)
(***************************************************************************)
EXTENDS Integers

CONSTANTS
    Requests,   \* slots for requests in flight
    Builds,     \* slots for builds and their channels
    MaxChanges, \* bound: changes of what agent-deck lists
    None

SessionListAssumption == MaxChanges \in Nat /\ None \notin Builds

VARIABLES
    now,    \* external: what agent-deck lists, a version
    body,   \* c.m[key]: a version, and its age as sessionsFresh and sessionsMaxStale tell ages apart
    flight, \* c.flight[key]: the build whose channel it is
    build,  \* the goroutines
    req,
    shown,  \* history: the newest version a request was answered with
    back    \* history: a request was answered with less than was shown before it came

vars == <<now, body, flight, build, req, shown, back>>

Off == [pc |-> "off", v |-> 0]
Idle == [pc |-> "idle", cold |-> FALSE, chan |-> None, floor |-> 0]
NoBody == [v |-> 0, age |-> "none"]

TypeOK ==
    /\ now \in 1..(MaxChanges + 1) /\ shown \in 0..now /\ back \in BOOLEAN
    /\ body \in [v : 0..now, age : {"none", "fresh", "stale", "old"}]
    /\ flight \in Builds \cup {None}
    /\ build \in [Builds -> [pc : {"off", "list", "store", "unlist", "close"}, v : 0..now]]
    /\ req \in [Requests -> [pc : {"idle", "refresh", "wait", "answer"}, cold : BOOLEAN,
                            chan : Builds \cup {None}, floor : 0..now]]

Init ==
    /\ now = 1 /\ body = NoBody /\ flight = None
    /\ build = [b \in Builds |-> Off] /\ req = [r \in Requests |-> Idle] /\ shown = 0 /\ back = FALSE

history == <<shown, back>>

-----------------------------------------------------------------------------
(* The world.                                                              *)

Changes == now <= MaxChanges /\ now' = now + 1 /\ UNCHANGED <<body, flight, build, req, history>>

Ages ==
    /\ \/ body.age = "fresh" /\ body' = [body EXCEPT !.age = "stale"]
       \/ body.age = "stale" /\ body' = [body EXCEPT !.age = "old"]
    /\ UNCHANGED <<now, flight, build, req, history>>

-----------------------------------------------------------------------------
(* handleSessions                                                          *)

Look(r) ==
    /\ req[r].pc = "idle"
    /\ req' = [req EXCEPT ![r] = [pc |-> IF body.age = "fresh" THEN "answer" ELSE "refresh",
                                  cold |-> body.age \in {"none", "old"}, chan |-> None, floor |-> shown]]
    /\ UNCHANGED <<now, body, flight, build, history>>

\* Mutant: every caller gets a build of its own.
JoinsNever == FALSE

Joins == flight # None

\* refreshSessions
Refresh(r) ==
    /\ req[r].pc = "refresh"
    /\ IF Joins THEN req' = [req EXCEPT ![r].pc = "wait", ![r].chan = flight] /\ UNCHANGED <<flight, build>>
       ELSE \E b \in Builds :
            /\ build[b].pc = "off"
            /\ flight' = b /\ build' = [build EXCEPT ![b].pc = "list"]
            /\ req' = [req EXCEPT ![r].pc = "wait", ![r].chan = b]
    /\ UNCHANGED <<now, body, history>>

\* warmSessions
Warm ==
    /\ body = NoBody /\ flight = None
    /\ \E b \in Builds : /\ build[b].pc = "off"
                         /\ flight' = b /\ build' = [build EXCEPT ![b].pc = "list"]
    /\ UNCHANGED <<now, body, req, history>>

\* The grace of a stale body is over, or its client went away.
Grace(r) ==
    /\ req[r].pc = "wait" /\ ~req[r].cold
    /\ req' = [req EXCEPT ![r].pc = "answer", ![r].chan = None]
    /\ UNCHANGED <<now, body, flight, build, history>>

\* The client of a cold list went away.
Cancelled(r) ==
    /\ req[r].pc = "wait" /\ req[r].cold
    /\ req' = [req EXCEPT ![r] = Idle]
    /\ UNCHANGED <<now, body, flight, build, history>>

\* The body as it is now, or 502.
Answer(r) ==
    /\ req[r].pc = "answer"
    /\ req' = [req EXCEPT ![r] = Idle]
    /\ shown' = IF body.v > shown THEN body.v ELSE shown
    /\ back' = (back \/ (body.v # 0 /\ body.v < req[r].floor))
    /\ UNCHANGED <<now, body, flight, build>>

-----------------------------------------------------------------------------
(* The build's goroutine.                                                  *)

\* The exec has its answer, or fails, or its 30 s are over.
List(b) ==
    /\ build[b].pc = "list"
    /\ \/ build' = [build EXCEPT ![b] = [pc |-> "store", v |-> now]]
       \/ build' = [build EXCEPT ![b].pc = "unlist"]
    /\ UNCHANGED <<now, body, flight, req, history>>

Store(b) ==
    /\ build[b].pc = "store"
    /\ body' = [v |-> build[b].v, age |-> "fresh"]
    /\ build' = [build EXCEPT ![b].pc = "unlist"]
    /\ UNCHANGED <<now, flight, req, history>>

\* Mutant: the early return after a failed build skips this.
UnlistedOnSuccess(b) == IF build[b].v # 0 THEN None ELSE flight

\* The deferred delete.
Unlisted(b) == None

Unlist(b) ==
    /\ build[b].pc = "unlist"
    /\ flight' = Unlisted(b) /\ build' = [build EXCEPT ![b].pc = "close"]
    /\ UNCHANGED <<now, body, req, history>>

\* close(ch): whoever waits for it goes on.
Close(b) ==
    /\ build[b].pc = "close"
    /\ build' = [build EXCEPT ![b] = Off]
    /\ req' = [r \in Requests |->
               IF req[r].chan = b THEN [req[r] EXCEPT !.pc = "answer", !.chan = None] ELSE req[r]]
    /\ UNCHANGED <<now, body, flight, history>>

BuildStep(b) == List(b) \/ Store(b) \/ Unlist(b) \/ Close(b)
Serves(r) == Refresh(r) \/ Grace(r) \/ Answer(r)

Next ==
    \/ Changes \/ Ages \/ Warm
    \/ \E r \in Requests : Look(r) \/ Serves(r) \/ Cancelled(r)
    \/ \E b \in Builds : BuildStep(b)

\* Requests and builds run on: an exec ends after 30 s.  A client that waits need not go away.
Fairness ==
    /\ \A r \in Requests : WF_vars(Serves(r))
    /\ \A b \in Builds : WF_vars(BuildStep(b))

Spec == Init /\ [][Next]_vars /\ Fairness

-----------------------------------------------------------------------------
\* The list never goes back: a request is answered with nothing older than what any request was
\* answered with before it came, though builds take seconds, fail, and outlive their callers.
ListNeverGoesBack == ~back

\* One build at a time is listing or has a body to store, and that is never behind the body.
OneBuild == \A b \in Builds : build[b].pc \in {"list", "store", "unlist"} => flight = b
NewestStored == shown <= body.v /\ \A b \in Builds : build[b].pc = "store" => body.v <= build[b].v
FloorShown == \A r \in Requests : req[r].floor <= shown

\* Whatever becomes of a build, nobody who waits for it is left hanging.
IsServed(r) == req[r].pc = "wait" ~> req[r].pc = "idle"
=============================================================================
