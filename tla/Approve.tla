------------------------------ MODULE Approve ------------------------------
(***************************************************************************)
(* Approving a permission dialog from the phone (src/approve.go,           *)
(* src/attention.go, RespondAttention of src/harness_claude.go and         *)
(* src/harness_codex.go): the pane is read twice and compared with the     *)
(* card, then keys are pressed, and nothing is locked meanwhile.           *)
(*                                                                         *)
(* The dialogs of one session are 1, 2, ... in the order in which its      *)
(* agent raises them (external); each is answered from the phone, at the   *)
(* terminal, or by the agent's own countdown.  The code never sees which   *)
(* dialog is there: a card and the two reads are an excerpt of the pane,   *)
(* its last 16 or 24 lines that are not blank, as a digest.  Two dialogs   *)
(* may have one excerpt, a dialog may be drawn again with another, and     *)
(* rows drawn under it may push it out of sight.  Keys are taken as soon   *)
(* as they are sent, or lost.  Question menus are module MenuWalk.         *)
(***************************************************************************)
EXTENDS Integers

CONSTANTS
    NDialogs,   \* bound: dialogs raised
    Excerpts,   \* what the end of the pane shows of a dialog
    Requests,   \* slots for requests in flight
    Phones,     \* as many cards as there are phones
    MaxTouches, \* bound: dialogs answered at the terminal or by a countdown, or drawn again
    MaxFaults   \* bound: reads and key presses that fail or get lost

\* "none": no dialog is found in the excerpt.
ApproveAssumption ==
    NDialogs \in Nat /\ MaxTouches \in Nat /\ MaxFaults \in Nat /\ "none" \notin Excerpts

VARIABLES
    tool,     \* "claude" or "codex"
    dialog,   \* external: the dialog on the pane; 0: none
    raised,   \* external: the last one raised
    pane,     \* the excerpt of the pane
    touches, faults,
    card,     \* phone -> the excerpt it shows
    req,      \* the requests in flight
    showed,   \* history: <<dialog, excerpt>>: what the pane has shown of a dialog
    accepted  \* history: [dialog, shown, seen]: accepted by a key of a request, what its card showed,
              \* and which dialog was up when the request read the pane last

vars == <<tool, dialog, raised, pane, touches, faults, card, req, showed, accepted>>
pageVars == <<tool, raised, pane, touches, faults>>

Dialogs == 1..NDialogs
Some == 0..NDialogs
Panes == Excerpts \cup {"none"}
NoReq == [pc |-> "idle", phone |-> "none", text |-> "none", seen |-> 0, landed |-> 0, cleared |-> FALSE]

TypeOK ==
    /\ tool \in {"claude", "codex"} /\ dialog \in Some /\ raised \in Some /\ dialog \in {0, raised}
    /\ pane \in Panes /\ (dialog = 0 => pane = "none")
    /\ touches \in 0..MaxTouches /\ faults \in 0..MaxFaults
    /\ card \in [Phones -> Panes]
    /\ \A r \in Requests :
        /\ req[r].pc \in {"idle", "looks", "checks", "presses", "confirms", "polls", "done"}
        /\ req[r].seen \in 0..raised /\ req[r].landed \in Some /\ req[r].cleared \in BOOLEAN
        /\ req[r].phone \in Phones \cup {"none"} /\ req[r].text \in Panes
        /\ (req[r].pc = "confirms" => tool = "claude")
    /\ showed \subseteq Dialogs \X Panes
    /\ accepted \subseteq [dialog : Dialogs, shown : Excerpts, seen : Dialogs]

Init ==
    /\ tool \in {"claude", "codex"}
    /\ dialog = 0 /\ raised = 0 /\ pane = "none" /\ touches = 0 /\ faults = 0
    /\ card = [p \in Phones |-> "none"] /\ req = [r \in Requests |-> NoReq]
    /\ showed = {} /\ accepted = {}

\* A read or a key press may fail, MaxFaults times.
Outcome(ok) == (ok \/ faults < MaxFaults) /\ faults' = IF ok THEN faults ELSE faults + 1

-----------------------------------------------------------------------------
(* The agent and the terminal.                                             *)

Raise ==
    /\ dialog = 0 /\ raised + 1 \in Dialogs
    /\ dialog' = raised + 1 /\ raised' = raised + 1
    /\ pane' \in Excerpts /\ showed' = showed \cup {<<raised + 1, pane'>>}
    /\ UNCHANGED <<tool, touches, faults, card, req, accepted>>

Touch ==
    /\ dialog # 0 /\ touches < MaxTouches
    /\ dialog' = 0 /\ pane' = "none" /\ touches' = touches + 1
    /\ UNCHANGED <<tool, raised, faults, card, req, showed, accepted>>

\* A row comes or goes under the dialog, or the pane gets another size.
Redraw ==
    /\ dialog # 0 /\ touches < MaxTouches
    /\ pane' \in Panes \ {pane} /\ showed' = showed \cup {<<dialog, pane'>>}
    /\ touches' = touches + 1
    /\ UNCHANGED <<tool, dialog, raised, faults, card, req, accepted>>

-----------------------------------------------------------------------------
(* The phone.                                                              *)

\* handleAttention, handlePermission: what the card shows is what was on the pane.  A phone whose
\* request is in flight keeps its card locked (attnLock).
Waits(p) == \E r \in Requests : req[r].phone = p

Show(p) ==
    /\ ~Waits(p) /\ card[p] # pane
    /\ card' = [card EXCEPT ![p] = pane]
    /\ UNCHANGED <<pageVars, dialog, req, showed, accepted>>

Tap(p, r) ==
    /\ card[p] # "none" /\ ~Waits(p) /\ req[r].pc = "idle"
    /\ req' = [req EXCEPT ![r] = [NoReq EXCEPT !.pc = "looks", !.phone = p, !.text = card[p]]]
    /\ UNCHANGED <<pageVars, dialog, card, showed, accepted>>

\* The answer reaches the phone, which clears a card that was responded to.
Answered(r) ==
    /\ req[r].pc = "done"
    /\ card' = [card EXCEPT ![req[r].phone] = "none"]
    /\ req' = [req EXCEPT ![r] = NoReq]
    /\ UNCHANGED <<pageVars, dialog, showed, accepted>>

-----------------------------------------------------------------------------
(* RespondAttention for approve-once.                                      *)

\* The pane shows the excerpt with the digest of the card.
StillThere(text) == pane = text

Moves(r, pc) == req' = [req EXCEPT ![r] = IF pc = "idle" THEN NoReq ELSE [@ EXCEPT !.pc = pc]]

\* The two reads of the pane; a read that fails or shows something else refuses with 409.
Look(r, ok) ==
    /\ req[r].pc \in {"looks", "checks"} /\ Outcome(ok)
    /\ req' = [req EXCEPT ![r] =
            IF ~ok \/ ~StillThere(@.text) THEN NoReq
            ELSE [@ EXCEPT !.seen = dialog, !.pc = IF req[r].pc = "looks" THEN "checks" ELSE "presses"]]
    /\ UNCHANGED <<tool, dialog, raised, pane, touches, card, showed, accepted>>

\* A key that accepts whatever dialog is there.
Accept(r) ==
    /\ accepted' = IF dialog = 0 THEN accepted
                   ELSE accepted \cup {[dialog |-> dialog, shown |-> req[r].text, seen |-> req[r].seen]}
    /\ dialog' = 0 /\ pane' = "none"

\* The request after such a key.
Pressed(r) == [req[r] EXCEPT !.landed = IF dialog = 0 THEN @ ELSE @ + 1]

\* Claude: "1" chooses the first option, and Enter, sent by a second command, confirms it.
PressOne(r, ok) ==
    /\ tool = "claude" /\ req[r].pc = "presses" /\ Outcome(ok)
    /\ Moves(r, IF ok THEN "confirms" ELSE "idle")
    /\ UNCHANGED <<tool, dialog, raised, pane, touches, card, showed, accepted>>

\* A key that was sent may still be lost, and one that was taken be reported as an error.
PressEnter(r, ok, lost) ==
    /\ req[r].pc = "confirms" /\ Outcome(ok /\ ~lost)
    /\ IF lost THEN UNCHANGED <<dialog, pane, accepted>> ELSE Accept(r)
    /\ req' = [req EXCEPT ![r] =
            IF ~ok THEN NoReq ELSE [(IF lost THEN @ ELSE Pressed(r)) EXCEPT !.pc = "polls"]]
    /\ UNCHANGED <<tool, raised, touches, card, showed>>

\* Mutant: after an error of agent-deck the option is chosen again.
ApproveOptionAgain(r, ok, lost) ==
    /\ tool = "codex" /\ req[r].pc = "presses" /\ Outcome(ok /\ ~lost)
    /\ IF lost \/ dialog = 0 THEN UNCHANGED <<dialog, pane, req, accepted>>
       ELSE /\ Accept(r)
            /\ req' = [req EXCEPT ![r] =
                    IF ~ok THEN Pressed(r) ELSE [Pressed(r) EXCEPT !.pc = "done", !.cleared = TRUE]]
    /\ UNCHANGED <<tool, raised, touches, card, showed>>

\* Codex: agent-deck session approve reads the prompt itself, presses the option's number at
\* whatever approval prompt it finds, none if there is none, and says whether it went away; an
\* error, before or after the key, ends the request.
ApproveOption(r, ok, lost) ==
    /\ tool = "codex" /\ req[r].pc = "presses" /\ Outcome(ok /\ ~lost)
    /\ IF lost \/ dialog = 0
       THEN Moves(r, IF ok /\ dialog # 0 THEN "done" ELSE "idle") /\ UNCHANGED <<dialog, pane, accepted>>
       ELSE /\ Accept(r)
            /\ req' = [req EXCEPT ![r] =
                    IF ~ok THEN NoReq ELSE [Pressed(r) EXCEPT !.pc = "done", !.cleared = TRUE]]
    /\ UNCHANGED <<tool, raised, touches, card, showed>>

SeenGone(ok) == ok /\ pane = "none"

\* pollDialogCleared: a few reads, the last of which may still show a dialog.
Poll(r, ok) ==
    /\ req[r].pc = "polls" /\ Outcome(ok)
    /\ req' = [req EXCEPT ![r].pc = "done", ![r].cleared = SeenGone(ok)]
    /\ UNCHANGED <<tool, dialog, raised, pane, touches, card, showed, accepted>>

Next ==
    \/ Raise \/ Touch \/ Redraw
    \/ \E p \in Phones : Show(p) \/ \E r \in Requests : Tap(p, r)
    \/ \E r \in Requests, ok \in BOOLEAN :
        \/ Look(r, ok) \/ PressOne(r, ok) \/ Poll(r, ok)
        \/ \E lost \in BOOLEAN : PressEnter(r, ok, lost) \/ ApproveOption(r, ok, lost)
    \/ \E r \in Requests : Answered(r)

Spec == Init /\ [][Next]_vars

-----------------------------------------------------------------------------
\* One tap accepts one dialog at most, whatever errors are reported of keys that were taken: no key is
\* pressed a second time, where it would land in whatever dialog came next.
OneTapOneDialog == \A r \in Requests : req[r].landed <= 1

\* The dialog an approval accepts has shown what the card showed, though perhaps not any more, or it
\* is a twin that did, or it came up after the request read the pane for the last time.
ShownOrLate == \A a \in accepted : <<a.dialog, a.shown>> \in showed \/ a.dialog > a.seen

\* "cleared" is reported only when the dialog that was read is off the pane, or was out of sight.
ClearedIsTrue ==
    \A r \in Requests : req[r].cleared => dialog # req[r].seen \/ <<dialog, "none">> \in showed

\* What an approval accepts, and what is reported of it.
ApprovalsTrue == TypeOK /\ OneTapOneDialog /\ ShownOrLate /\ ClearedIsTrue
=============================================================================
