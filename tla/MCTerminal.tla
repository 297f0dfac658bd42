----------------------------- MODULE MCTerminal -----------------------------
(* What the daemon reads off a session's terminal and what it types into it, for TLC: the watcher's *)
(* sweep and the walk through a question menu.  They share no state here, so each behaviour is one  *)
(* of them at work.                                                                                 *)
(*                                                                                                  *)
(* The watcher has one session (the jobs of a sweep share nothing but its start), which is a Claude *)
(* or a Codex session and does one of three things: shows dialogs, answers, or spins.  The menus    *)
(* are of one and of two questions, with and without a multi-select, in the calm situation, for     *)
(* what must happen in the end; what is always true of them is checked in MCHandlers.               *)
EXTENDS Watcher, Sequences

CONSTANTS a1, q1, r1, r2, MaxCuts

VARIABLES
    scene,
    form, calm, menu, wire, walk, phone, done, final, walks, touches, cuts

MCForms == {<<"pick">>, <<"pick", "pick">>, <<"pick", "multi">>}

Menu == INSTANCE MenuWalk WITH Forms <- MCForms, MaxWalks <- 0, MaxTouches <- 0

ASSUME Menu!BoundsAssumption

menuVars == <<form, calm, menu, wire, walk, phone, done, final, walks, touches, cuts>>

AllInit ==
    /\ scene \in {"dialogs", "replies", "labels", "menu"}
    /\ Init /\ Menu!Init
    /\ \A s \in Sessions : term[s].reply = r1
    /\ IF scene = "menu" THEN calm /\ ~subs /\ tool = [s \in Sessions |-> "claude"]
       ELSE ~calm /\ subs /\ form = <<"pick">> /\ phone[1].text # ""

\* A step of the watcher or of its session, of the kind the scene is about.
Sweep(A) ==
    /\ scene # "menu" /\ A
    /\ \A s \in Sessions :
        /\ scene = "dialogs" \/ term'[s].dlg = None
        /\ scene = "replies" \/ term'[s].reply = r1
        /\ scene = "labels" \/ (term'[s].label = None /\ poll'[s] = None)

Walk(A) == scene = "menu" /\ A

AllNext ==
    /\ UNCHANGED scene
    /\ \/ Sweep(Next) /\ UNCHANGED menuVars
       \/ Walk(Menu!Next) /\ UNCHANGED vars

\* The fairness of both modules.
AllFairness ==
    /\ WF_vars(Sweep(StartSweep))
    /\ \A s \in Sessions : WF_vars(Sweep(Job(s)))
                             /\ SF_vars(Sweep(SettleAges(s))) /\ SF_vars(Sweep(FreezeAges(s)))
    /\ WF_menuVars(Walk(Menu!WalkStep)) /\ WF_menuVars(Walk(\E picks \in Menu!Picks : Menu!Tap(picks)))

AllSpec == AllInit /\ [][AllNext]_<<scene, vars, menuVars>> /\ AllFairness

\* The property of MenuWalk, stated and commented there.
RetryFinishes == Menu!RetryFinishes
=============================================================================
