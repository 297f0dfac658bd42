-------------------------- MODULE TranscriptCache --------------------------
(***************************************************************************)
(* The parsed transcript of one Claude session (src/history.go,            *)
(* parseTranscript): several history requests at once read a file the      *)
(* agent appends to, and each extends what an earlier one has parsed.      *)
(*                                                                         *)
(* A line is written in pieces: 1 of its 3 units is not yet JSON, 2 are    *)
(* JSON without the newline.  A line is a `!` command ("in") or its output *)
(* ("out", not empty), which is folded into the command when both are read *)
(* in one pass; any other line is a message of its own, as a second        *)
(* command is.  Files are only appended to here.                           *)
(***************************************************************************)
EXTENDS Integers, Sequences

CONSTANTS
    Calls,    \* slots for calls of parseTranscript
    MaxLines, \* bound: lines of the file
    None

TranscriptAssumption == MaxLines \in Nat

VARIABLES
    file,  \* external: the kinds of its lines
    units, \* external: how much of the last line is written
    cache, \* transcripts.parsed[path]: size, off, msgs
    call,
    short   \* history: an answer had not every line once, or not all there were when the call began

vars == <<file, units, cache, call, short>>

Idle == [pc |-> "idle", size |-> 0, floor |-> 0, base |-> <<>>, from |-> 0, off |-> 0, msgs |-> <<>>]

Written(n) == 3 * (n - 1)
Size == IF file = <<>> THEN 0 ELSE Written(Len(file)) + units

\* The lines a reader finds: the last one counts as soon as it is JSON.
Lines == IF file # <<>> /\ units = 1 THEN Len(file) - 1 ELSE Len(file)

TypeOK ==
    /\ Len(file) <= MaxLines /\ units \in 0..3
    /\ cache = None \/ (cache.off <= 3 * Len(file) /\ cache.size <= Size)
    /\ \A c \in Calls : call[c].pc \in {"idle", "get", "read", "put"} /\ call[c].from <= Size
    /\ short \in BOOLEAN

Init == file = <<>> /\ units = 3 /\ cache = None /\ call = [c \in Calls |-> Idle] /\ short = FALSE

-----------------------------------------------------------------------------

\* The agent writes a piece of a line, or goes on with it.
Append1(kind) ==
    /\ units = 3 /\ Len(file) < MaxLines
    /\ \E u \in 1..3 : units' = u
    /\ file' = Append(file, kind) /\ UNCHANGED <<cache, call, short>>

Continue == units < 3 /\ (\E u \in (units + 1)..3 : units' = u) /\ UNCHANGED <<file, cache, call, short>>

\* Too many files have been parsed.
Forget == cache # None /\ cache' = None /\ UNCHANGED <<file, units, call, short>>

-----------------------------------------------------------------------------
(* parseTranscript                                                         *)

\* The messages hold the lines 1, 2, 3, ...: the last of them, and the one before the n-th message.
LastLine(msg) == msg[Len(msg)]
LastOf(msgs) == IF msgs = <<>> THEN 0 ELSE LastLine(msgs[Len(msgs)])
LineBefore(msgs, n) == IF n = 1 THEN 0 ELSE LastLine(msgs[n - 1])
InOrder(msgs) ==
    \A n \in DOMAIN msgs : \A i \in DOMAIN msgs[n] : msgs[n][i] = LineBefore(msgs, n) + i

\* The answer: a copy of the messages.
Answer(c, msgs) == short' = (short \/ ~InOrder(msgs) \/ LastOf(msgs) < call[c].floor)

Stat(c) ==
    /\ call[c].pc = "idle"
    /\ call' = [call EXCEPT ![c] = [Idle EXCEPT !.pc = "get", !.size = Size, !.floor = Lines]]
    /\ UNCHANGED <<file, units, cache, short>>

Get(c) ==
    /\ call[c].pc = "get"
    /\ IF cache # None /\ cache.size = call[c].size
       THEN call' = [call EXCEPT ![c] = Idle] /\ Answer(c, cache.msgs)
       ELSE /\ UNCHANGED short
            /\ IF cache # None /\ call[c].size > cache.size /\ cache.off > 0 /\ cache.off <= call[c].size
               THEN call' = [call EXCEPT ![c].pc = "read", ![c].base = cache.msgs, ![c].from = cache.off]
               ELSE call' = [call EXCEPT ![c].pc = "read"]
    /\ UNCHANGED <<file, units, cache>>

\* addBash for an output: into the command before it, if this pass has read that.
Added(msgs, i) ==
    LET n == Len(msgs)
    IN  IF file[i] = "out" /\ n # 0 /\ file[msgs[n][1]] = "in" /\ Len(msgs[n]) = 1
        THEN [msgs EXCEPT ![n] = Append(@, i)]
        ELSE Append(msgs, <<i>>)

\* parseTranscriptFrom: the lines from an offset on.  A newline that was not there before is an empty one.
Parsed(from) ==
    LET upTo[n \in 0..Lines] ==
            IF n = 0 THEN <<>> ELSE IF Written(n) >= from THEN Added(upTo[n - 1], n) ELSE upTo[n - 1]
    IN  upTo[Lines]

\* The offset after the last line read.
Offset == IF Lines = 0 THEN 0 ELSE IF Lines = Len(file) THEN Size ELSE Written(Lines + 1)

Read(c) ==
    /\ call[c].pc = "read"
    /\ call' = [call EXCEPT ![c].pc = "put", ![c].msgs = call[c].base \o Parsed(call[c].from),
                            ![c].base = <<>>, ![c].from = 0,
                            ![c].off = IF Offset > call[c].from THEN Offset ELSE call[c].from]
    /\ UNCHANGED <<file, units, cache, short>>

\* Mutant: the size is taken after the parse.
SizeLate(c) == Size

SizeOf(c) == call[c].size

Put(c) ==
    /\ call[c].pc = "put"
    /\ cache' = [size |-> SizeOf(c), off |-> call[c].off, msgs |-> call[c].msgs]
    /\ Answer(c, call[c].msgs) /\ call' = [call EXCEPT ![c] = Idle]
    /\ UNCHANGED <<file, units>>

Next ==
    \/ \E kind \in {"in", "out"} : Append1(kind)
    \/ Continue \/ Forget
    \/ \E c \in Calls : Stat(c) \/ Get(c) \/ Read(c) \/ Put(c)

Spec == Init /\ [][Next]_vars

-----------------------------------------------------------------------------
\* A call answers every line that was there when it began, once each and in order, whatever the
\* agent writes meanwhile and whoever else parses and stores.
EveryLineOnce == ~short
=============================================================================
