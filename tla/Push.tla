-------------------------------- MODULE Push --------------------------------
(***************************************************************************)
(* The push manager (src/push.go) and the notification inbox               *)
(* (src/notifications.go): preferences and quiet hours, foreground         *)
(* suppression, the inbox, the device subscriptions and their delivery.    *)
(*                                                                         *)
(* Callers are the jobs of a sweep, POST /push/notify and POST /push/test. *)
(* send takes the manager's lock four times and holds it in none of the    *)
(* calls to the push services, so callers and handlers interleave.         *)
(*                                                                         *)
(* Four files: the inbox is replaced by a rename; subscriptions,           *)
(* preferences and the VAPID key are written in place, so a daemon killed  *)
(* in the write leaves a file that reads as nothing.  A file that cannot   *)
(* be read at a start counts as empty too, and the next write of it goes   *)
(* over what it held.                                                      *)
(***************************************************************************)
EXTENDS Integers, Sequences, FiniteSetsExt

CONSTANTS
    Callers,
    Endpoints,  \* device subscriptions
    NotifKeep,  \* newest entries kept in the inbox
    DayMinutes, \* minutes of a day
    MaxNotifs,  \* bound on entries recorded
    MaxFaults   \* bound on failed writes and reads, kills and dropped subscriptions

PushAssumption ==
    /\ NotifKeep \in Nat \ {0} /\ DayMinutes \in Nat \ {0}
    /\ MaxNotifs \in Nat /\ MaxFaults \in Nat

VARIABLES
    prefs,     \* pushPrefs
    prefsFile,
    minute,    \* of the day
    focus,     \* some client said within the last 30 s that it is in the foreground
    inbox,     \* ids of the entries in memory, in the order they were recorded
    inboxFile,
    last,      \* id last given out: a time, so ids are drawn in order
    subs,      \* pm.subs
    subsFile,
    vapid,     \* number of the key pair in memory
    made,      \* key pairs made
    vapidFile, \* 0: unreadable
    device,    \* endpoint -> number of the key it was made with; 0: not yet made, -1: gone for good
    call,      \* caller -> where its send is
    down,      \* the daemon was killed in a write
    delivered, \* history: ids of the OS notifications shown
    arrivals,  \* history: ids in the order they were recorded
    enrolled,  \* history: endpoints whose subscribe call was answered
    lossy,     \* history: files with a write that failed or was cut short, or a read that failed
    faults

prefVars == <<prefs, prefsFile>>
inboxVars == <<inbox, inboxFile, last>>
keyVars == <<vapid, made, vapidFile>>
subVars == <<subs, subsFile, keyVars>>
vars == <<prefVars, minute, focus, inboxVars, subVars, device, call, down, delivered, arrivals, enrolled,
          lossy, faults>>

Toggles == {"approve", "finished", "stall"}
Kinds == {"approval", "question", "reply", "stall", "notify"}
Times == -1..DayMinutes - 1
Prefs == [on : SUBSET Toggles, quietOn : BOOLEAN, quietStart : Times, quietEnd : Times]
DefaultPrefs == [on |-> {"approve", "stall"}, quietOn |-> FALSE, quietStart |-> -1, quietEnd |-> -1]
IdleCall == [pc |-> "idle", id |-> 0, todo |-> {}, dead |-> {}]

TypeOK ==
    /\ prefs \in Prefs /\ prefsFile \in Prefs
    /\ minute \in 0..DayMinutes - 1 /\ focus \in BOOLEAN
    /\ IsInjective(inbox) /\ Len(inbox) <= NotifKeep /\ Range(inbox) \subseteq 1..last
    /\ subs \subseteq Endpoints /\ subsFile \subseteq Endpoints
    /\ made \in Nat \ {0} /\ vapid \in 1..made /\ vapidFile \in 0..made /\ device \in [Endpoints -> -1..made]
    /\ \A c \in Callers :
        /\ call[c].pc \in {"idle", "record", "look", "take", "post", "prune"}
        /\ call[c].id \in 0..last /\ call[c].dead \cup call[c].todo \subseteq Endpoints

Init ==
    /\ prefs = DefaultPrefs /\ prefsFile = DefaultPrefs
    /\ minute = 0 /\ focus = FALSE
    /\ inbox = <<>> /\ inboxFile = <<>> /\ last = 0
    /\ subs = {} /\ subsFile = {} /\ vapid = 1 /\ made = 1 /\ vapidFile \in {0, 1}
    /\ device = [e \in Endpoints |-> 0]
    /\ call = [c \in Callers |-> IdleCall] /\ down = FALSE
    /\ delivered = {} /\ arrivals = <<>> /\ enrolled = {} /\ lossy = (IF vapidFile = 0 THEN {"vapid"} ELSE {})
    /\ faults = 0

Fault == faults < MaxFaults /\ faults' = faults + 1

\* A write of the file called name: done, failed (an error nobody sees, which may leave nothing), or
\* cut short by a kill.
Save(name, file, value, nothing) ==
    \/ file' = value /\ UNCHANGED <<lossy, down, faults>>
    \/ /\ Fault /\ lossy' = lossy \cup {name}
       /\ \/ file' \in {file, nothing} /\ UNCHANGED down
          \/ file' = nothing /\ down' = TRUE

Moves(c, to) == call' = [call EXCEPT ![c].pc = to]

-----------------------------------------------------------------------------
(* Quiet hours and toggles. *)

InQuiet(p, cur) ==
    /\ p.quietOn /\ p.quietStart >= 0 /\ p.quietEnd >= 0 /\ p.quietStart # p.quietEnd
    /\ IF p.quietStart < p.quietEnd
       THEN cur >= p.quietStart /\ cur < p.quietEnd
       ELSE cur >= p.quietStart \/ cur < p.quietEnd

Toggle(kind) ==
    CASE kind \in {"approval", "question"} -> {"approve"}
      [] kind = "reply" -> {"finished"}
      [] kind = "stall" -> {"stall"}
      [] OTHER -> {}

Allow(kind) == ~InQuiet(prefs, minute) /\ Toggle(kind) \subseteq prefs.on

SetPrefs ==
    /\ ~down
    /\ \E p \in Prefs : prefs' = p /\ Save("prefs", prefsFile, p, DefaultPrefs)
    /\ UNCHANGED <<minute, focus, inboxVars, subVars, device, call, delivered, arrivals, enrolled>>

Tick ==
    /\ minute' = (minute + 1) % DayMinutes
    /\ UNCHANGED <<prefVars, focus, inboxVars, subVars, device, call, down, delivered, arrivals,
                   enrolled, lossy, faults>>

\* setFocus, or 30 s with no word from a client
Presence ==
    /\ ~down /\ focus' = ~focus
    /\ UNCHANGED <<prefVars, minute, inboxVars, subVars, device, call, down, delivered, arrivals,
                   enrolled, lossy, faults>>

-----------------------------------------------------------------------------
(* Subscriptions. *)

\* The browser makes a subscription with the key it was given and posts it (addSub).
Subscribe(e) ==
    /\ ~down /\ device[e] = 0
    /\ device' = [device EXCEPT ![e] = vapid]
    /\ subs' = subs \cup {e}
    /\ Save("subs", subsFile, subs \cup {e}, {})
    /\ enrolled' = IF down' THEN enrolled ELSE enrolled \cup {e}
    /\ UNCHANGED <<prefVars, minute, focus, inboxVars, keyVars, call, delivered, arrivals>>

\* The device unsubscribes, or its push service gives it up.
Dropped(e) ==
    /\ device[e] > 0 /\ Fault
    /\ device' = [device EXCEPT ![e] = -1]
    /\ UNCHANGED <<prefVars, minute, focus, inboxVars, subVars, call, down, delivered, arrivals,
                   enrolled, lossy>>

-----------------------------------------------------------------------------
(* One send. *)

\* allow, and the id drawn before record takes the lock
Send(c) ==
    /\ ~down /\ call[c].pc = "idle" /\ last < MaxNotifs
    /\ \E kind \in Kinds : Allow(kind)
    /\ last' = last + 1
    /\ call' = [call EXCEPT ![c] = [IdleCall EXCEPT !.pc = "record", !.id = last + 1]]
    /\ UNCHANGED <<prefVars, minute, focus, inbox, inboxFile, subVars, device, down, delivered,
                   arrivals, enrolled, lossy, faults>>

Newest(entries) == SubSeq(entries, Max({1, Len(entries) - NotifKeep + 1}), Len(entries))

\* The rename keeps the old file when the write fails or is cut short.
Record(c) ==
    /\ ~down /\ call[c].pc = "record"
    /\ inbox' = Newest(Append(inbox, call[c].id))
    /\ arrivals' = Append(arrivals, call[c].id)
    /\ Save("inbox", inboxFile, inbox', inboxFile)
    /\ Moves(c, "look")
    /\ UNCHANGED <<prefVars, minute, focus, last, subVars, device, delivered, enrolled>>

Look(c) ==
    /\ ~down /\ call[c].pc = "look"
    /\ IF focus THEN call' = [call EXCEPT ![c] = IdleCall] ELSE Moves(c, "take")
    /\ UNCHANGED <<prefVars, minute, focus, inboxVars, subVars, device, down, delivered, arrivals,
                   enrolled, lossy, faults>>

\* handlePushTest: straight to sendTo, with no entry
Test(c) ==
    /\ ~down /\ call[c].pc = "idle"
    /\ Moves(c, "take")
    /\ UNCHANGED <<prefVars, minute, focus, inboxVars, subVars, device, down, delivered, arrivals,
                   enrolled, lossy, faults>>

Take(c) ==
    /\ ~down /\ call[c].pc = "take"
    /\ call' = [call EXCEPT ![c].pc = "post", ![c].todo = subs]
    /\ UNCHANGED <<prefVars, minute, focus, inboxVars, subVars, device, down, delivered, arrivals,
                   enrolled, lossy, faults>>

\* Mutant: any refusal is taken for the end of the subscription.
IsDeadOnRefusal(e) == device[e] # vapid

\* The push service knows the subscription no more (404, 410).  One made with another key is refused,
\* which is only logged.
IsDead(e) == device[e] = -1

Post(c) ==
    /\ ~down /\ call[c].pc = "post"
    /\ IF call[c].todo = {} THEN Moves(c, "prune") /\ UNCHANGED delivered
       ELSE \E e \in call[c].todo :
            /\ call' = [call EXCEPT ![c].todo = @ \ {e},
                                    ![c].dead = IF IsDead(e) THEN @ \cup {e} ELSE @]
            /\ delivered' = IF device[e] = vapid /\ call[c].id > 0
                            THEN delivered \cup {call[c].id} ELSE delivered
    /\ UNCHANGED <<prefVars, minute, focus, inboxVars, subVars, device, down, arrivals, enrolled,
                   lossy, faults>>

Pruned(c) == subs \ call[c].dead

Prune(c) ==
    /\ ~down /\ call[c].pc = "prune"
    /\ subs' = Pruned(c)
    /\ IF call[c].dead = {} THEN UNCHANGED <<subsFile, lossy, down, faults>>
       ELSE Save("subs", subsFile, Pruned(c), {})
    /\ call' = [call EXCEPT ![c] = IdleCall]
    /\ UNCHANGED <<prefVars, minute, focus, inboxVars, keyVars, device, delivered, arrivals,
                   enrolled>>

-----------------------------------------------------------------------------
Files == {"prefs", "inbox", "subs", "vapid"}

\* newPushManager, loadNotifs: each file alone, and what cannot be read is taken for empty.  A key pair
\* is made when there is none, whether or not it can be saved.
Start(unread) ==
    /\ IF down /\ unread = {} THEN UNCHANGED faults ELSE Fault
    /\ down' = FALSE /\ lossy' = lossy \cup unread
    /\ prefs' = IF "prefs" \in unread THEN DefaultPrefs ELSE prefsFile
    /\ inbox' = IF "inbox" \in unread THEN <<>> ELSE inboxFile
    /\ subs' = IF "subs" \in unread THEN {} ELSE subsFile
    /\ IF vapidFile = 0 \/ "vapid" \in unread
       THEN made' = made + 1 /\ vapid' = made + 1 /\ vapidFile' \in {made + 1, vapidFile}
       ELSE vapid' = vapidFile /\ UNCHANGED <<made, vapidFile>>
    /\ focus' = FALSE /\ call' = [c \in Callers |-> IdleCall]
    /\ UNCHANGED <<prefsFile, minute, inboxFile, last, subsFile, device, delivered, arrivals, enrolled>>

Schedule == SetPrefs \/ Tick

Delivery ==
    \/ Presence \/ \E unread \in SUBSET Files : Start(unread)
    \/ \E e \in Endpoints : Subscribe(e) \/ Dropped(e)
    \/ \E c \in Callers :
        Send(c) \/ Test(c) \/ Record(c) \/ Look(c) \/ Take(c) \/ Post(c) \/ Prune(c)

Next == Schedule \/ Delivery

Spec == Init /\ [][Next]_vars

-----------------------------------------------------------------------------
\* The quiet window is the minutes one passes going forward from its start to its end, over midnight or
\* not; a window half set or of no width silences nothing (the comment of inQuiet, push.go:160-164).
QuietIsWindow ==
    \A cur \in 0..DayMinutes - 1 :
        InQuiet(prefs, cur) <=>
            /\ prefs.quietOn /\ -1 \notin {prefs.quietStart, prefs.quietEnd}
            /\ (cur - prefs.quietStart) % DayMinutes < (prefs.quietEnd - prefs.quietStart) % DayMinutes

\* A tap on an OS notification finds its entry: the entry is recorded before anything is sent, survives
\* a restart, and is gone only when NotifKeep later ones have come (or the inbox was not written, or
\* could not be read at a start).
Trimmed(id) == \E i \in 1..Len(arrivals) - NotifKeep : arrivals[i] = id
TapFindsEntry ==
    "inbox" \notin lossy => \A id \in delivered : id \in Range(inbox) \/ Trimmed(id)

\* A device that subscribed stays subscribed, with a key its service accepts, as long as the service
\* keeps it: pruning hits only what the service gave up.  The exceptions are writes of the
\* subscriptions or of the key that failed or were cut short, and starts that could not read them.
SubsKept ==
    ~down => \A e \in enrolled :
        device[e] > 0 => /\ "subs" \in lossy \/ e \in subs
                         /\ "vapid" \in lossy \/ device[e] = vapid

\* Whatever is lost on the way, the inbox keeps what was sent and the subscriptions who wants it.
DeliveryKept == TypeOK /\ TapFindsEntry /\ SubsKept
=============================================================================
