----------------------------- MODULE MCHandlers -----------------------------
(* The request handlers and workers that race with copies of themselves, for TLC: the queue of the  *)
(* sends, walks through a question menu (calm and cut off once, or rough), terminal tickets, pushes, *)
(* approvals, tower actions, reads of a transcript and the tmux budget.  They share no state here,   *)
(* so each behaviour is one of them at work, and the others stay in their initial states.            *)
EXTENDS TmuxBudget, Sequences, TLC

CONSTANTS
    Devices, ActDevices, Requests, None,
    m1, m2, m3, c1, c2, QueueCap, Pollers,     \* AskQueue
    Forms, RoughForms, MaxWalks, MaxKeys, MaxCuts, \* MenuWalk; RoughForms: those walked in the rough situation
    Tickets, Sessions,                         \* WsTicket
    Endpoints, NotifKeep, DayMinutes, MaxNotifs, \* Push
    NDialogs, Excerpts, Phones, MaxTouches,    \* Approve
    Items, Tasks, MaxWrites,                   \* TowerAct
    MaxLines,                                  \* TranscriptCache
    MaxFaults, MaxLost                         \* MaxLost: of Push and of TowerAct

VARIABLES
    scene,
    tokens, tokFile, hasFile, loadErr, minted,
    phone, chan, worker, deck, ids, items, file, running, key, loops, old, conv, bubble, tag, restarts, loose,
    forgotten, killed, cut,
    form, calm, menu, wire, walk, answers, done, final, walks, keys, cuts,
    store, drawn, opens, opened,
    prefs, prefsFile, minute, focus, inbox, inboxFile, last, subs, subsFile, vapid, made, vapidFile,
    device, call, down, delivered, arrivals, enrolled, lossy, pushFaults,
    tool, dialog, raised, pane, touches, readFaults, card, approvals, showed, accepted,
    journal, overview, cache, mu, actMu, recent, posts, stepFaults, mine, acts, picked,
    transcript, units, parsed, parses, short

Messages == {m1, m2, m3}
MCForms == {<<"pick">>, <<"pick", "pick">>, <<"pick", "multi">>}
MCRough == {<<"pick">>, <<"pick", "multi">>}
ChatOf == [m \in Messages |-> IF m = m3 THEN c2 ELSE c1]

Ask == INSTANCE AskQueue WITH
    Reqs <- Messages, Sessions <- {c1, c2}, Of <- ChatOf, MaxRestarts <- 0, MaxCut <- 0, poll <- loops, lossy <- loose
Menu == INSTANCE MenuWalk WITH MaxTouches <- MaxKeys, phone <- answers, touches <- keys
Ws == INSTANCE WsTicket WITH req <- opens
Pu == INSTANCE Push WITH faults <- pushFaults, MaxFaults <- MaxLost, Callers <- Sweepers
Ap == INSTANCE Approve WITH faults <- readFaults, req <- approvals
Act == INSTANCE TowerAct WITH faults <- stepFaults, req <- posts, MaxFaults <- MaxLost
Tr == INSTANCE TranscriptCache WITH Calls <- Requests, file <- transcript, cache <- parsed, call <- parses

ASSUME Assumptions ==
    /\ Ask!QueueAssumption /\ Menu!BoundsAssumption /\ Ws!TicketsAssumption
    /\ Pu!PushAssumption /\ Ap!ApproveAssumption /\ Act!TowerAssumption /\ Tr!TranscriptAssumption

tokVars == <<tokens, tokFile, hasFile, loadErr, minted>>
askVars == <<phone, chan, worker, deck, ids, items, file, running, key, loops, old, conv, bubble,
             tag, restarts, loose, forgotten, killed, cut>>
menuVars == <<form, calm, menu, wire, walk, answers, done, final, walks, keys, cuts>>
wsVars == <<store, drawn, opens, opened>>
pushVars == <<prefs, prefsFile, minute, focus, inbox, inboxFile, last, subs, subsFile, vapid, made, vapidFile,
              device, call, down, delivered, arrivals, enrolled, lossy, pushFaults>>
approveVars == <<tool, dialog, raised, pane, touches, readFaults, card, approvals, showed, accepted>>
towerVars == <<journal, overview, cache, mu, actMu, recent, posts, stepFaults, mine, acts, picked>>
transcriptVars == <<transcript, units, parsed, parses, short>>

allVars == <<scene, vars, tokVars, askVars, menuVars, wsVars, pushVars, approveVars, towerVars,
             transcriptVars>>

\* The quiet hours of Push are looked at in a scene of their own, for every preference and minute.
Scenes == {"budget", "sends", "menu", "terminal", "push", "quiet", "approve", "tower", "transcript"}

AllInit ==
    /\ scene \in Scenes
    /\ Init /\ Ask!Init /\ Menu!Init /\ Ws!Init /\ Pu!Init /\ Ap!Init /\ Act!Init /\ Tr!Init
    /\ (scene # "push" => vapidFile = 0) /\ (scene # "approve" => tool = "claude")
    /\ (scene # "menu" => ~calm /\ form = <<"pick">> /\ answers[1].text # "")
    /\ (~calm => form \in RoughForms)

\* With several messages the file is written, no CLI call is killed, no message grows old, agent-deck
\* fails a send of the first session or leaves it, and the bubbles are not looked at.  MCExchanges has
\* all that.
Plain ==
    /\ deck'[m3] # "failed"
    /\ ~loose' /\ killed' = {} /\ old' = {}
    /\ \A m \in Messages : phone'[m] \notin {"told", "done"} /\ deck'[m] \in {None, "queued", "failed"}

\* A start fails to read one file at most.
OneLost == \A f, g \in lossy' \ lossy : f = g

AllNext ==
    /\ UNCHANGED scene
    /\ \/ scene = "budget" /\ Next
         /\ UNCHANGED <<tokVars, askVars, menuVars, wsVars, pushVars, approveVars, towerVars, transcriptVars>>
       \/ scene = "sends" /\ Ask!Next /\ Plain
         /\ UNCHANGED <<vars, tokVars, menuVars, wsVars, pushVars, approveVars, towerVars, transcriptVars>>
       \/ scene = "menu" /\ Menu!Next /\ (calm \/ cuts' = cuts)
         /\ UNCHANGED <<vars, tokVars, askVars, wsVars, pushVars, approveVars, towerVars, transcriptVars>>
       \/ scene = "terminal" /\ Ws!Next
         /\ UNCHANGED <<vars, askVars, menuVars, pushVars, approveVars, towerVars, transcriptVars>>
       \/ scene = "push" /\ Pu!Delivery /\ OneLost
         /\ UNCHANGED <<vars, tokVars, askVars, menuVars, wsVars, approveVars, towerVars, transcriptVars>>
       \/ scene = "quiet" /\ Pu!Schedule /\ prefsFile' = prefs'
         /\ UNCHANGED <<vars, tokVars, askVars, menuVars, wsVars, approveVars, towerVars, transcriptVars>>
       \/ scene = "approve" /\ Ap!Next
         /\ UNCHANGED <<vars, tokVars, askVars, menuVars, wsVars, pushVars, towerVars, transcriptVars>>
       \/ scene = "tower" /\ Act!Next
         /\ UNCHANGED <<vars, tokVars, askVars, menuVars, wsVars, pushVars, approveVars, transcriptVars>>
       \/ scene = "transcript" /\ Tr!Next
         /\ UNCHANGED <<vars, tokVars, askVars, menuVars, wsVars, pushVars, approveVars, towerVars>>

AllSpec == AllInit /\ [][AllNext]_allVars

\* What each module says of its component, stated and commented there, in the scene where its variables
\* move.
SendsSound == scene = "sends" => Ask!TypeOK /\ Ask!TrackerSound
MenuSound == scene = "menu" => Menu!TypeOK /\ Menu!SubmitsOnlyPicks
DoneIsTrue == scene = "menu" => Menu!DoneIsTrue
TicketsSound == scene = "terminal" => Ws!TypeOK /\ Ws!RevokedOpensNothing
TicketIsOneShot == Ws!TicketIsOneShot
PushSound == (scene = "quiet" => Pu!TypeOK /\ Pu!QuietIsWindow) /\ (scene = "push" => Pu!DeliveryKept)
ApprovalsTrue == scene = "approve" => Ap!ApprovalsTrue
ActionsTrue == scene = "tower" => Act!ActionsTrue
EveryLineOnce == scene = "transcript" => Tr!TypeOK /\ Tr!EveryLineOnce

\* Two requests are also the two sweepers of tmux, so that one permutation does for all scenes.
Symmetry == Permutations(Requests)
=============================================================================
