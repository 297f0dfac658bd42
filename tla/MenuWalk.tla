------------------------------ MODULE MenuWalk ------------------------------
(***************************************************************************)
(* Answering a question menu of Claude from the phone: the key-by-key walk *)
(* of src/askmenu.go and src/askmenu_multi.go, as handleAttentionRespond   *)
(* and answerQuestion run it.                                              *)
(*                                                                         *)
(* The menu is Claude's and lives in a terminal: Apply says what a key     *)
(* does to it, as the fake TUI of the tests and the captured transitions   *)
(* in testdata do.  The walk reads the screen, decides, and sends a key;   *)
(* between any two of these the operator may type at the terminal, a key   *)
(* may be late, and the walk may be cut off.                               *)
(*                                                                         *)
(* Two situations: calm (keys land at once, nobody is at the terminal, the *)
(* phone sends the same answers again) and rough (none of that).           *)
(***************************************************************************)
EXTENDS Integers, Sequences, FiniteSetsExt

CONSTANTS
    Forms,      \* the menus: sequences of "pick" (one choice) and "multi" questions
    MaxWalks,   \* bound on taps of Send in the rough situation
    MaxTouches, \* bound on keys of the operator
    MaxCuts     \* bound on walks cut off by an error or the 150 s of their request

BoundsAssumption ==
    /\ Forms \subseteq Seq({"pick", "multi"}) \ {<<>>}
    /\ MaxWalks \in Nat /\ MaxTouches \in Nat /\ MaxCuts \in Nat

VARIABLES
    form,     \* the menu's questions
    calm,     \* which situation
    menu,     \* the menu as Claude has it
    wire,     \* keys sent and not landed yet, in order, with what the sender knew
    walk,     \* the answer walk
    phone,    \* the answers the phone sent last
    done,     \* questions the walk reports as entered
    final,    \* history: how the menu was submitted
    walks, touches, cuts

vars == <<form, calm, menu, wire, walk, phone, done, final, walks, touches, cuts>>

Rows == {"1", "2"} \* the options; row "3" is the free text
Texts == {"", "text", "junk"}
N == Len(form)
Review == N + 1
Gone == N + 2
Single == form = <<"pick">> \* no tab row, no review: a selection submits
Multi(i) == form[i] = "multi"

\* askPick, as askPicks admits it.
Pick(kind) ==
    IF kind = "pick" THEN {[rows |-> {r}, text |-> ""] : r \in Rows} \cup {[rows |-> {}, text |-> "text"]}
    ELSE {[rows |-> {"1"}, text |-> ""], [rows |-> {"2"}, text |-> "text"]}

Picks == {p \in [1..N -> Pick("pick") \cup Pick("multi")] : \A i \in 1..N : p[i] \in Pick(form[i])}

Label(rows, text) == (rows \cap Rows) \cup ({text} \ {""})

Want(picks, i) == Label(picks[i].rows, picks[i].text)

-----------------------------------------------------------------------------
(* The menu. *)

Answer(m, i) == Label(m.ans[i], IF "3" \in m.ans[i] THEN m.free[i] ELSE "")

Advance(m) == [m EXCEPT !.focus = IF Single THEN Gone ELSE @ + 1, !.editing = FALSE]

\* In a multi-select, the text is kept as typed and checks its row.
Typed(m, text) ==
    IF Multi(m.focus)
    THEN [m EXCEPT !.field = text, !.free[m.focus] = text,
                   !.ans[m.focus] = (@ \ {"3"}) \cup (IF text = "" THEN {} ELSE {"3"})]
    ELSE [m EXCEPT !.field = text]

EditKey(m, k) ==
    CASE k \in Rows \cup {"3", "text"} -> Typed(m, IF m.field = "" /\ k = "text" THEN k ELSE "junk")
      [] k = "Wipe" -> Typed(m, "")
      [] k = "Up" -> [m EXCEPT !.editing = FALSE]
      [] k = "Enter" /\ Multi(m.focus) -> [m EXCEPT !.ans[m.focus] = SymDiff(@, {"3"})]
      [] k = "Enter" /\ ~Multi(m.focus) /\ m.field # "" ->
            Advance([m EXCEPT !.free[m.focus] = m.field, !.ans[m.focus] = {"3"}])
      [] OTHER -> m

QuestionKey(m, k) ==
    IF k \in Rows \cup {"3"} /\ Multi(m.focus) THEN [m EXCEPT !.ans[m.focus] = SymDiff(@, {k})]
    ELSE CASE k \in Rows -> Advance([m EXCEPT !.ans[m.focus] = {k}])
           [] k = "3" /\ m.free[m.focus] # "" -> Advance([m EXCEPT !.ans[m.focus] = {"3"}])
           [] k = "3" /\ m.free[m.focus] = "" -> [m EXCEPT !.editing = TRUE, !.field = ""]
           [] k = "Down" -> [m EXCEPT !.editing = TRUE, !.field = m.free[m.focus]]
           [] k = "Left" /\ m.focus > 1 -> [m EXCEPT !.focus = @ - 1]
           [] k = "Right" /\ ~Single -> Advance(m)
           [] OTHER -> m

\* "Down" and "Wipe" stand for as many presses as it takes to reach, or empty, the free-text row.
Apply(m, k) ==
    IF m.focus = Gone THEN m
    ELSE IF k = "Esc" \/ (m.focus = Review /\ k = "1") THEN [m EXCEPT !.focus = Gone]
    ELSE IF m.focus = Review THEN [m EXCEPT !.focus = IF k = "Left" THEN N ELSE @]
    ELSE IF m.editing THEN EditKey(m, k) ELSE QuestionKey(m, k)

-----------------------------------------------------------------------------
(* What the walk sees: parseAskPane. *)

NoPage == [focus |-> 0, answered |-> {}, checked |-> {}, row |-> "", editing |-> FALSE, review |-> <<>>]

\* The selection of a one-choice question is not part of it, only that its tab is answered.
Page(m) ==
    IF m.focus = Gone THEN NoPage
    ELSE [focus |-> m.focus,
          answered |-> {i \in 1..N : m.ans[i] # {}},
          checked |-> IF m.focus <= N /\ Multi(m.focus) THEN m.ans[m.focus] ELSE {},
          row |-> IF m.focus > N THEN ""
                  ELSE IF m.editing /\ m.field # "" THEN m.field ELSE m.free[m.focus],
          editing |-> m.editing,
          review |-> IF m.focus = Review THEN [i \in 1..N |-> Answer(m, i)] ELSE <<>>]

Now == Page(menu)

\* answeredBefore and the choice of where to resume: the page shown, if all before it are answered
\* and it is not; otherwise the walk starts over at the first question.
Resumes(p) == p.focus > 1 /\ ~Single /\ 1..(p.focus - 1) \subseteq p.answered
                 /\ (p.focus = Review \/ p.focus \notin p.answered)

Start(p) == IF Resumes(p) THEN p.focus ELSE 1

\* multiSelectKeys, one key at a time: the page is what the last key had to show.
Next1(p, pick) ==
    LET wrong == {r \in Rows : (r \in p.checked) # (r \in pick.rows)}
        retype == pick.text # "" /\ p.row # pick.text
    IN IF p.editing
       THEN IF p.row = pick.text THEN "Up" ELSE IF p.row # "" THEN "Wipe" ELSE pick.text
       ELSE IF "1" \in wrong THEN "1" ELSE IF "2" \in wrong THEN "2"
       ELSE IF ~retype /\ ("3" \in p.checked) # (pick.text # "") THEN "3"
       ELSE IF retype THEN "Down" ELSE "Right"

\* The state each key must show before the next is sent.
After(p, k) ==
    LET checked == IF k \in Rows \cup {"3"} THEN SymDiff(p.checked, {k})
                   ELSE IF k = "Wipe" THEN p.checked \ {"3"}
                   ELSE IF k = "text" THEN p.checked \cup {"3"} ELSE p.checked
    IN [p EXCEPT !.checked = checked,
                 !.answered = IF checked = {} THEN @ \ {p.focus} ELSE @ \cup {p.focus},
                 !.row = IF k = "Wipe" THEN "" ELSE IF k = "text" THEN k ELSE @,
                 !.editing = IF k = "Down" THEN TRUE ELSE IF k = "Up" THEN FALSE ELSE @]

-----------------------------------------------------------------------------
WalkSteps == {"idle", "first", "left", "leftWait", "ask", "press", "reach", "wipe", "open", "type",
              "shown", "enter", "multi", "multiKey", "multiWait", "wait", "verify", "submit", "clear"}

IdleWalk == [pc |-> "idle", i |-> 0, exp |-> NoPage, sure |-> TRUE]

TypeOK ==
    /\ form \in Forms /\ calm \in BOOLEAN
    /\ menu.focus \in 1..Gone /\ menu.editing \in BOOLEAN /\ menu.field \in Texts
    /\ menu.ans \in [1..N -> SUBSET (Rows \cup {"3"})] /\ menu.free \in [1..N -> Texts]
    /\ \A j \in DOMAIN wire : wire[j].by \in {"walk", "terminal"} /\ wire[j].picks \in Picks
    /\ walk.pc \in WalkSteps /\ walk.i \in 0..Review
    /\ phone \in Picks
    /\ done \in 0..N
    /\ walks \in 0..MaxWalks /\ touches \in 0..MaxTouches /\ cuts \in 0..MaxCuts

Init ==
    /\ form \in Forms /\ calm \in BOOLEAN
    /\ menu = [focus |-> 1, ans |-> [i \in 1..N |-> {}], free |-> [i \in 1..N |-> ""],
               field |-> "", editing |-> FALSE]
    /\ wire = <<>> /\ walk = IdleWalk
    /\ phone \in Picks
    /\ done = 0 /\ final = <<>>
    /\ walks = 0 /\ touches = 0 /\ cuts = 0

-----------------------------------------------------------------------------
(* Keys: all of them, the operator's too, go through the terminal's input, in order. *)

\* sure: nothing landed or was on its way between the walk's last look and this key.
Entry(k) == [key |-> k, by |-> "walk", picks |-> phone, sure |-> walk.sure /\ wire = <<>>]

Typing(k) == [key |-> k, by |-> "terminal", picks |-> phone, sure |-> FALSE]

\* History: the key that ended the menu.
Ending(e, m) ==
    final' = IF menu.focus # Gone /\ m.focus = Gone
             THEN <<[by |-> e.by, picks |-> e.picks, sure |-> e.sure, ans |-> [i \in 1..N |-> Answer(m, i)]]>>
             ELSE final

\* sendKeyText, sendNamedKey, sendKeyEnter: calm, the key lands at once.
Send(k, w) ==
    /\ walk' = w
    /\ IF calm THEN menu' = Apply(menu, k) /\ Ending(Entry(k), menu') /\ UNCHANGED wire
       ELSE wire' = Append(wire, Entry(k)) /\ UNCHANGED <<menu, final>>

\* A loaded host: a key shows any time after it was sent.
Lands ==
    /\ wire # <<>>
    /\ menu' = Apply(menu, Head(wire).key)
    /\ Ending(Head(wire), menu')
    /\ wire' = Tail(wire)
    /\ walk' = [walk EXCEPT !.sure = walk.pc = "idle"]
    /\ UNCHANGED <<form, calm, phone, done, walks, touches, cuts>>

\* Somebody at the terminal.
Touch(k) ==
    /\ ~calm /\ touches < MaxTouches /\ menu.focus # Gone
    /\ touches' = touches + 1
    /\ wire' = Append(wire, Typing(k))
    /\ UNCHANGED <<form, calm, menu, walk, phone, done, final, walks, cuts>>

-----------------------------------------------------------------------------
(* The walk. *)

\* A tap of Send.  askRunning admits one walk per session; a card with a multi-select carries the
\* menu state it was drawn from (initialState).
Tap(picks) ==
    /\ walk.pc = "idle" /\ menu.focus # Gone
    /\ IF calm THEN picks = phone /\ UNCHANGED walks ELSE walks < MaxWalks /\ walks' = walks + 1
    /\ phone' = picks
    /\ done' = 0
    /\ walk' = [IdleWalk EXCEPT !.pc = "first", !.exp = IF "multi" \in Range(form) THEN Now ELSE NoPage]
    /\ UNCHANGED <<form, calm, menu, wire, final, touches, cuts>>

\* Every early return: what was answered so far stays in the menu.
Stop == walk' = IdleWalk /\ UNCHANGED <<form, calm, menu, wire, phone, done, final, walks, touches, cuts>>

\* A read: it is what the walk goes by until the next one.
Seen(pc, i, p) == [pc |-> pc, i |-> i, exp |-> p, sure |-> wire = <<>>]

Goes(w) == walk' = w /\ UNCHANGED <<form, calm, menu, wire, phone, done, final, walks, touches, cuts>>

AskOrVerify(i, p) == Seen(IF i > N THEN "verify" ELSE "ask", i, p)

\* Mutant: a menu that cannot be resumed is refused.
FirstReadNoReturn ==
    /\ walk.pc = "first"
    /\ IF Now = NoPage \/ (walk.exp # NoPage /\ walk.exp # Now) \/ Now.editing
       THEN Stop
       ELSE IF Start(Now) # Now.focus THEN Stop
       ELSE /\ walk' = AskOrVerify(Now.focus, Now)
            /\ done' = Now.focus - 1
            /\ UNCHANGED <<form, calm, menu, wire, phone, final, walks, touches, cuts>>

\* The checks before any key, and where to start.
FirstRead ==
    /\ walk.pc = "first"
    /\ IF Now = NoPage \/ (walk.exp # NoPage /\ walk.exp # Now) \/ Now.editing
       THEN Stop
       ELSE IF Start(Now) # Now.focus THEN Goes(Seen("left", Now.focus - 1, Now))
       ELSE /\ walk' = AskOrVerify(Now.focus, Now)
            /\ done' = Now.focus - 1
            /\ UNCHANGED <<form, calm, menu, wire, phone, final, walks, touches, cuts>>

\* One tab to the left, back to the first: read, key, wait.
LeftRead ==
    /\ walk.pc = "left"
    /\ IF Now = walk.exp THEN Goes(Seen("leftWait", walk.i, NoPage)) ELSE Stop

LeftKey ==
    /\ walk.pc = "leftWait" /\ walk.exp = NoPage
    /\ Send("Left", [walk EXCEPT !.exp = [NoPage EXCEPT !.focus = walk.i]])
    /\ UNCHANGED <<form, calm, phone, done, walks, touches, cuts>>

LeftDone ==
    /\ walk.pc = "leftWait" /\ walk.exp # NoPage
    /\ Now.focus = walk.i /\ ~Now.editing
    /\ Goes(IF walk.i = 1 THEN Seen("ask", 1, Now) ELSE Seen("left", walk.i - 1, Now))

\* Before each question the screen must be the one the last key left, with that question showing.
AskRead ==
    /\ walk.pc = "ask"
    /\ IF Now = walk.exp /\ ~Now.editing /\ Now.focus = walk.i
       THEN Goes(Seen(IF Multi(walk.i) THEN "multi" ELSE "press", walk.i, Now)) ELSE Stop

MyPick == phone[walk.i]

\* A question is entered with its last key; a lone question is submitted by it.
Entered(k) ==
    /\ Send(k, [walk EXCEPT !.pc = IF Single THEN "clear" ELSE "wait"])
    /\ done' = walk.i
    /\ UNCHANGED <<form, calm, phone, walks, touches, cuts>>

Sends(k, pc) ==
    Send(k, [walk EXCEPT !.pc = pc]) /\ UNCHANGED <<form, calm, phone, done, walks, touches, cuts>>

PressOption ==
    /\ walk.pc = "press" /\ MyPick.rows # {}
    /\ \E r \in MyPick.rows : Entered(r)

\* freeText: a fresh row opens with its digit; one that holds text is reached and emptied first.
OpenText ==
    /\ walk.pc = "press" /\ MyPick.rows = {}
    /\ IF walk.exp.row = "" THEN Sends("3", "open") ELSE Sends("Down", "reach")

Editing == Now.editing /\ Now.focus = walk.i

ReachText == walk.pc = "reach" /\ Editing /\ Goes(Seen("wipe", walk.i, Now))
WipeText == walk.pc = "wipe" /\ Sends("Wipe", "open")
TextOpened == walk.pc = "open" /\ Editing /\ Goes(Seen("type", walk.i, Now))
TypeText == walk.pc = "type" /\ Sends(MyPick.text, "shown")
TextShown == walk.pc = "shown" /\ Editing /\ Now.row = MyPick.text /\ Goes(Seen("enter", walk.i, Now))
EnterText == walk.pc = "enter" /\ Entered("Enter")

\* multiSelect: every key is sent on the state the one before it had to show.
MultiRead ==
    /\ walk.pc = "multi"
    /\ IF Now = walk.exp THEN Goes(Seen("multiKey", walk.i, Now)) ELSE Stop

\* Mutant: the question counts as entered with its first key.
MultiKeyEarly ==
    LET k == Next1(walk.exp, MyPick) IN
    /\ walk.pc = "multiKey"
    /\ IF k = "Right" THEN Entered(k)
       ELSE /\ Send(k, [walk EXCEPT !.pc = "multiWait", !.exp = After(walk.exp, k)])
            /\ done' = walk.i
            /\ UNCHANGED <<form, calm, phone, walks, touches, cuts>>

MultiKey ==
    LET k == Next1(walk.exp, MyPick) IN
    /\ walk.pc = "multiKey"
    /\ IF k = "Right" THEN Entered(k)
       ELSE /\ Send(k, [walk EXCEPT !.pc = "multiWait", !.exp = After(walk.exp, k)])
            /\ UNCHANGED <<form, calm, phone, done, walks, touches, cuts>>

MultiShown == walk.pc = "multiWait" /\ Now = walk.exp /\ Goes(Seen("multi", walk.i, Now))

Advanced ==
    /\ walk.pc = "wait"
    /\ ~Now.editing /\ Now.focus = walk.i + 1
    /\ Goes(AskOrVerify(walk.i + 1, Now))

\* Mutant: only that every question has an answer.
ReviewFull(p) == \A i \in 1..N : p.review[i] # {}

\* The review must show exactly the answers sent, those entered by earlier walks included.
ReviewMatches(p) == \A i \in 1..N : p.review[i] = Want(phone, i)

Verify ==
    /\ walk.pc = "verify"
    /\ IF Now = walk.exp /\ Now.focus = Review /\ ReviewMatches(Now)
       THEN Goes(Seen("submit", Review, Now)) ELSE Stop

Submit == walk.pc = "submit" /\ Sends("1", "clear")

Cleared == walk.pc = "clear" /\ menu.focus = Gone /\ Stop

\* until gives up after stepTimeout; calm, what it waits for is there at the first look.
GivesUp ==
    /\ ~calm
    /\ \/ walk.pc \in {"reach", "open", "shown", "multiWait", "wait", "clear"}
       \/ walk.pc = "leftWait" /\ walk.exp # NoPage
    /\ Stop

\* A failed exec, or the end of the request's 150 s.
CutOff ==
    /\ walk.pc # "idle" /\ cuts < MaxCuts
    /\ cuts' = cuts + 1
    /\ walk' = IdleWalk
    /\ UNCHANGED <<form, calm, menu, wire, phone, done, final, walks, touches>>

WalkStep ==
    \/ FirstRead \/ LeftRead \/ LeftKey \/ LeftDone \/ AskRead
    \/ PressOption \/ OpenText \/ ReachText \/ WipeText \/ TextOpened \/ TypeText \/ TextShown \/ EnterText
    \/ MultiRead \/ MultiKey \/ MultiShown
    \/ Advanced \/ Verify \/ Submit \/ Cleared

OperatorKeys == {"1", "3", "Left", "Right", "Down", "Enter", "Esc"}

Next ==
    \/ \E picks \in Picks : Tap(picks)
    \/ WalkStep \/ GivesUp \/ CutOff
    \/ Lands
    \/ \E k \in OperatorKeys : Touch(k)

\* The walk runs on, and the operator taps Send again.
Spec == Init /\ [][Next]_vars /\ WF_vars(WalkStep) /\ WF_vars(\E picks \in Picks : Tap(picks))

-----------------------------------------------------------------------------
(* Properties. *)

\* "The review screen must show exactly the answers about to be submitted" (askmenu.go): a menu
\* that a walk ends holds exactly the phone's answers, whatever an earlier walk with other answers
\* or the operator entered before - unless a key landed or was on its way between the walk's last
\* look and the key that submits, which no look can exclude.
SubmitsOnlyPicks ==
    final # <<>> /\ final[1].by = "walk" /\ final[1].sure
        => \A i \in 1..N : final[1].ans[i] = Want(final[1].picks, i)

\* "3 of 4 sent" (askPartialError): in the calm situation the answers reported as entered are in
\* the menu, wherever the walk was cut off.
DoneIsTrue == calm => \A i \in 1..done : Answer(menu, i) = Want(phone, i)

\* "A retry finishes from where the menu stands": in the calm situation the menu is answered in the
\* end, wherever earlier walks were cut off - unless one was cut off inside the free-text field,
\* which looks like an operator typing at the terminal and is left alone.
RetryFinishes == calm ~> menu.focus = Gone \/ (walk.pc = "idle" /\ menu.editing)

\* The comment itself, without the exception: after a walk that reports some answers as entered,
\* sending again finishes.
RetryAlwaysFinishes == calm /\ walk.pc = "idle" /\ done > 0 ~> menu.focus = Gone

=============================================================================
