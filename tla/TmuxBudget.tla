----------------------------- MODULE TmuxBudget -----------------------------
(***************************************************************************)
(* The pacing gate every tmux command passes (src/tmuxbudget.go): slots of *)
(* the sweep's lane and of the operator's lane, the refusal at a caller's  *)
(* deadline, and the back-off after a fault of tmux itself.                *)
(*                                                                         *)
(* A caller reserves its slot under the lock, sleeps until it without the  *)
(* lock, and runs its command; a caller whose context ends while it sleeps *)
(* gives up and its slot stays reserved.  Time is counted in ticks and     *)
(* timers fire when they are due.                                          *)
(***************************************************************************)
EXTENDS Integers

CONSTANTS
    Callers,
    Operators,  \* the callers marked withOperatorLane
    Interval,   \* tmuxInterval
    OpInterval, \* tmuxOperatorInterval
    BackoffMin, BackoffMax,
    MaxWait,    \* tmuxMaxWait
    Patience,   \* how far off the deadline of a caller's context may be
    Horizon     \* bound on time

ASSUME BudgetAssumption ==
    /\ Operators \subseteq Callers
    /\ Interval \in Nat /\ OpInterval \in Nat /\ MaxWait \in Nat /\ Horizon \in Nat
    /\ BackoffMin \in Nat \ {0} /\ BackoffMax \in Nat /\ BackoffMin <= BackoffMax
    /\ Patience \subseteq Nat

VARIABLES
    now,
    next,    \* earliest start of the sweep lane's next command
    opNext,  \* and of the operator lane's
    until,   \* end of the back-off
    backoff, \* its length; 0: none
    pc,      \* caller -> "idle", "sleep", "run"
    slot,    \* caller -> the slot it has reserved
    due,     \* history: operator -> when the clock, the back-off and the operators before let him start
    blind,   \* history: caller -> a fault came while it slept
    ran,     \* history: slot of the sweep lane's command started last
    opLast   \* history: the slot the last operator took

gateVars == <<next, opNext, until, backoff>>
histVars == <<due, blind, ran, opLast>>
vars == <<now, gateVars, pc, slot, histVars>>

Sweepers == Callers \ Operators
Sleeps(c) == pc[c] = "sleep"
Later(a, b) == IF a >= b THEN a ELSE b
Earlier(a, b) == IF a <= b THEN a ELSE b

TypeOK ==
    /\ now \in Nat /\ next \in Nat /\ opNext \in Nat /\ until \in Nat
    /\ backoff \in 0..BackoffMax
    /\ pc \in [Callers -> {"idle", "sleep", "run"}]
    /\ slot \in [Callers -> Nat] /\ due \in [Callers -> Nat] /\ blind \in [Callers -> BOOLEAN]
    /\ ran \in Int /\ opLast \in Int

Init ==
    /\ now = 0 /\ next = 0 /\ opNext = 0 /\ until = 0 /\ backoff = 0
    /\ pc = [c \in Callers |-> "idle"] /\ slot = [c \in Callers |-> 0]
    /\ due = [c \in Callers |-> 0] /\ blind = [c \in Callers |-> FALSE]
    /\ ran = -Interval /\ opLast = -OpInterval

-----------------------------------------------------------------------------
LaneSlot(c) == Later(now, IF c \in Operators THEN opNext ELSE next)

Slot(c) == Later(LaneSlot(c), until)

\* Mutant: no cap on the wait.
LimitUncapped(c, deadline) == deadline

\* The latest slot a caller takes; the operator's lane has no cap of its own.
Limit(c, deadline) == IF c \in Operators THEN deadline ELSE Earlier(now + MaxWait, deadline)

\* acquire and acquireOperator up to the sleep.  A refusal changes nothing.
Acquire(c) ==
    /\ pc[c] = "idle"
    /\ \E p \in Patience : Slot(c) <= Limit(c, now + p)
    /\ slot' = [slot EXCEPT ![c] = Slot(c)]
    /\ IF c \in Operators
       THEN /\ opNext' = Slot(c) + OpInterval /\ UNCHANGED next
            /\ opLast' = Slot(c)
            /\ due' = [due EXCEPT ![c] = Later(now, Later(until, opLast + OpInterval))]
       ELSE next' = Slot(c) + Interval /\ UNCHANGED <<opNext, opLast, due>>
    /\ pc' = [pc EXCEPT ![c] = "sleep"]
    /\ UNCHANGED <<now, until, backoff, blind, ran>>

\* The slot of a caller that sleeps no more is of no use to anybody.
WakesAs(c, state) ==
    /\ Sleeps(c)
    /\ pc' = [pc EXCEPT ![c] = state] /\ slot' = [slot EXCEPT ![c] = 0]
    /\ due' = [due EXCEPT ![c] = 0] /\ blind' = [blind EXCEPT ![c] = FALSE]
    /\ UNCHANGED <<now, gateVars, opLast>>

\* Its context ends first.
GivesUp(c) == now < slot[c] /\ WakesAs(c, "idle") /\ UNCHANGED ran

Starts(c) ==
    /\ now >= slot[c] /\ WakesAs(c, "run")
    /\ ran' = IF c \in Operators THEN ran ELSE slot[c]

Doubled == IF backoff = 0 THEN BackoffMin ELSE Earlier(2 * backoff, BackoffMax)

\* The command of tmuxExec returns.
Returns(c) ==
    /\ pc[c] = "run"
    /\ pc' = [pc EXCEPT ![c] = "idle"]
    /\ UNCHANGED <<now, next, opNext, slot, due, ran, opLast>>

\* tmux is unwell (fault).
Faults(c) ==
    /\ Returns(c)
    /\ backoff' = Doubled /\ until' = now + Doubled
    /\ blind' = [d \in Callers |-> Sleeps(d)]

\* tmux answered, with a result or with a refusal of its own (ok).
Answers(c) == Returns(c) /\ backoff' = 0 /\ until' = 0 /\ UNCHANGED blind

\* The caller's context ended first: says nothing about tmux.
CutOff(c) == Returns(c) /\ UNCHANGED <<backoff, until, blind>>

Tick ==
    /\ now < Horizon
    /\ \A c \in Callers : Sleeps(c) => now < slot[c]
    /\ now' = now + 1
    /\ UNCHANGED <<gateVars, pc, slot, histVars>>

Next ==
    \/ Tick
    \/ \E c \in Callers :
        Acquire(c) \/ GivesUp(c) \/ Starts(c) \/ Faults(c) \/ Answers(c) \/ CutOff(c)

Spec == Init /\ [][Next]_vars

-----------------------------------------------------------------------------
\* At most one command of the sweep's lane per Interval: the slots callers sleep for, and the one
\* that was used last, are that far apart, whoever gave up in between.
Paced ==
    \A c \in Sweepers : Sleeps(c) =>
        /\ slot[c] >= ran + Interval
        /\ \A d \in Sweepers \ {c} :
            Sleeps(d) => slot[d] >= slot[c] + Interval \/ slot[c] >= slot[d] + Interval

\* A command asked for after a fault waits until the back-off is over, in both lanes.  One that was
\* sleeping when the fault came does not look again.
BackoffHolds == \A c \in Callers : Sleeps(c) /\ ~blind[c] => slot[c] >= until

\* Slots of callers that gave up jam no lane: somebody ready to wait MaxWait plus one interval from
\* now is always served.
LaneNeverJams == Later(next, until) <= now + Later(MaxWait + Interval, BackoffMax)

\* What the sweep has reserved never delays the operator: he starts at once, or when the back-off
\* ends, or one OpInterval after another operator's slot.
OperatorFirst == \A c \in Operators : Sleeps(c) => slot[c] = due[c]

\* The gate's promises together: the sweep is paced, faults are waited out, nobody patient is turned
\* away by slots that nobody uses, and the operator is not behind the sweep.
BudgetKept == TypeOK /\ Paced /\ BackoffHolds /\ LaneNeverJams /\ OperatorFirst
=============================================================================
