---------------------------- MODULE RecallLocks ----------------------------
(***************************************************************************)
(* The two kinds of mutexes a history request takes (src/recall.go): the   *)
(* store's, rs.mu, for the table of sessions and for what is known of      *)
(* agent-deck's abilities, and the session's, sv.mu, held over the reads   *)
(* of historyWindow.  What is read is module Recall.                       *)
(***************************************************************************)
EXTENDS Integers, FiniteSets

CONSTANTS
    Calls,       \* slots for requests in flight
    Keys,        \* profile and id of a session
    Objects,     \* the recallSess there may be at a time
    MaxSessions, \* recallMaxSessions
    None

VARIABLES
    rsMu,  \* who holds rs.mu
    mu,    \* object -> who holds its sv.mu
    table, \* rs.sessions: key -> object
    call   \* the requests in flight

vars == <<rsMu, mu, table, call>>

Idle == [pc |-> "idle", key |-> None, obj |-> None, todo |-> {}]

TypeOK ==
    /\ rsMu \in Calls \cup {None} /\ mu \in [Objects -> Calls \cup {None}]
    /\ table \in [Keys -> Objects \cup {None}]
    /\ \A c \in Calls :
        /\ call[c].pc \in {"idle", "check", "session", "evict", "lock", "open", "read", "tell", "done"}
        /\ (rsMu = c <=> call[c].pc = "evict") /\ call[c].todo \subseteq Objects
        /\ \A o \in Objects : mu[o] = c => call[c].obj = o

Init ==
    /\ rsMu = None /\ mu = [o \in Objects |-> None] /\ table = [k \in Keys |-> None]
    /\ call = [c \in Calls |-> Idle]

Goes(c, pc) == call' = [call EXCEPT ![c].pc = pc]
Held == {table[k] : k \in Keys} \ {None}
New == Objects \ (Held \cup {call[c].obj : c \in Calls})

Arrive(c, k) ==
    /\ call[c].pc = "idle"
    /\ call' = [call EXCEPT ![c] = [Idle EXCEPT !.pc = "check", !.key = k]]
    /\ UNCHANGED <<rsMu, mu, table>>

\* disabled; here and below, rs.mu taken and given back at once.
Check(c) ==
    /\ call[c].pc = "check" /\ rsMu = None
    /\ \E pc \in {"session", "idle"} : Goes(c, pc)
    /\ UNCHANGED <<rsMu, mu, table>>

\* session: an entry of the table; with a full table, every entry's follower is stopped first.
Session(c) ==
    /\ call[c].pc = "session" /\ rsMu = None
    /\ LET old == table[call[c].key]
       IN  IF old # None
           THEN call' = [call EXCEPT ![c].pc = "lock", ![c].obj = old] /\ UNCHANGED <<rsMu, table>>
           ELSE IF Cardinality(Held) < MaxSessions
           THEN \E o \in New : /\ call' = [call EXCEPT ![c].pc = "lock", ![c].obj = o]
                               /\ table' = [table EXCEPT ![call[c].key] = o] /\ UNCHANGED rsMu
           ELSE /\ call' = [call EXCEPT ![c].pc = "evict", ![c].todo = Held]
                /\ rsMu' = c /\ UNCHANGED table
    /\ UNCHANGED mu

StopOld(c, o) ==
    /\ call[c].pc = "evict" /\ o \in call[c].todo /\ mu[o] = None
    /\ call' = [call EXCEPT ![c].todo = @ \ {o}]
    /\ UNCHANGED <<rsMu, mu, table>>

Replace(c) ==
    /\ call[c].pc = "evict" /\ call[c].todo = {}
    /\ \E o \in New : /\ call' = [call EXCEPT ![c].pc = "lock", ![c].obj = o]
                      /\ table' = [k \in Keys |-> IF k = call[c].key THEN o ELSE None]
    /\ rsMu' = None /\ UNCHANGED mu

\* historyWindow: nothing to read, a delta, or a tail read.
Lock(c) ==
    /\ call[c].pc = "lock" /\ mu[call[c].obj] = None
    /\ mu' = [mu EXCEPT ![call[c].obj] = c]
    /\ \E pc \in {"done", "read", "open"} : Goes(c, pc)
    /\ UNCHANGED <<rsMu, table>>

\* recallReadChain asks chainDisabled first.
Open(c) ==
    /\ call[c].pc = "open" /\ rsMu = None
    /\ Goes(c, "read") /\ UNCHANGED <<rsMu, mu, table>>

\* It is read; or recall is off (setOff), or --chain is unknown (chainOff, and another read).
Read(c) ==
    /\ call[c].pc = "read"
    /\ \E pc \in {"done", "tell"} : Goes(c, pc)
    /\ UNCHANGED <<rsMu, mu, table>>

Tell(c) ==
    /\ call[c].pc = "tell" /\ rsMu = None
    /\ Goes(c, "done") /\ UNCHANGED <<rsMu, mu, table>>

Done(c) ==
    /\ call[c].pc = "done"
    /\ mu' = [mu EXCEPT ![call[c].obj] = None]
    /\ call' = [call EXCEPT ![c] = Idle]
    /\ UNCHANGED <<rsMu, table>>

CallStep(c) ==
    Check(c) \/ Session(c) \/ (\E o \in Objects : StopOld(c, o)) \/ Replace(c) \/ Lock(c)
        \/ Open(c) \/ Read(c) \/ Tell(c) \/ Done(c)

Next == \E c \in Calls : CallStep(c) \/ \E k \in Keys : Arrive(c, k)

\* A request runs on, and a mutex that is given back now and then is got in the end.
Fairness == \A c \in Calls : SF_vars(CallStep(c))

Spec == Init /\ [][Next]_vars /\ Fairness

-----------------------------------------------------------------------------
\* Every history request is answered, with recall's rows or for the transcript parser.  It does not
\* hold: the two mutexes are taken in both orders.
HistoryAnswers == \A c \in Calls : call[c].pc # "idle" ~> call[c].pc = "idle"
=============================================================================
