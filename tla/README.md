# deck-remote: specifications and proofs

deck-remote is one Go daemon beside `agent-deck`. A phone reaches it through
`tailscale serve`; it shows the deck's Claude, Codex, OpenCode and Pi sessions, types the
operator's messages and decisions into them, and runs signed command lines. Everything it
types or runs goes through execs (`agent-deck`, `tmux`, `run_bang.py`), everything it keeps
is in memory or in a handful of small JSON files, and every handler is its own goroutine.
The parts that can go wrong are therefore the critical sections: what was read before an
unlock, an exec or a write and is used after it.

This directory holds TLA+ modules of those parts, TLC configurations that check them on
small instances, and TLAPS proofs for every instance.

## 1. Inventory

State is in memory unless a file is named. *Properties* are those that make the component
correct; the ones checked or proved here are named in section 3.

| Component | Source | State | Operations | Hard behaviour | Properties |
|---|---|---|---|---|---|
| Device tokens | `tokens.go` | tokens; `deck-remote-tokens.json`; load error | mint, list, revoke, whoami | failed load, failed save, a revoke whose cascade comes later | a store that did not load never writes; only a revoke removes a token |
| Passkey enrolment | `passkeys.go` 1-640 | enrol code, its 0600 file and timer, pairing grants, registrations, credentials; `deck-remote-passkeys.json` | issue, begin, finish, revoke cascade, prune, restart | check, spend and append are three critical sections; timers of replaced codes; failed writes | one proof of presence, one credential; lockout; first device; a code lives its time, and its file no longer; a credential goes only with its token |
| QR pairing | `pair.go` | live offers | offer, redeem (take, identity, put back, mint, grant) | the offer is outside the list while its identity is judged | an offer mints once; a refusal leaves it |
| Run challenges and assertions | `passkeys.go` 640-985 | open challenges | draw, spend in four critical sections | token, caps and credentials are read in different sections; revoke between | a challenge authorises once, and never after a revoke |
| Running signed lines | `tower_run.go` | `towerActMu`, `towerLast` | verify, challenge, run, stream | the ask is signed again meanwhile; duplicate taps; mutex held over execs | what starts is what was shown; a double tap starts once; every request is answered |
| Runner elevation and gates | `tower_runner.go` | the runner's own state, one pending gate | challenge, start, end, pending, decide | gate answered, lapsed or replaced before the decision arrives | decision for the gate shown; caps |
| Vault arm | `tower_vaultarm.go` | none (OIDC on the runner) | request, arm | revision signed again before the arm | arm of the revision shown |
| Phone messages | `ask.go`, `askqueue.go` | per-session channels, send tracker; `ask-pending.json` | ask, enqueue, track, poll, resume | three goroutines publish after unlock; killed CLI; lost answer; restart, with a file that cannot be read | never two pollers, never none; open set survives; Retry only if nothing was typed |
| Bubbles on the phone | `web/thread.js` | bubble per message | applyAskState, merge | reordered events | a final bubble stays final |
| Typed-input gate, identity | `typed.go`, `tower.go` | none | actorOK, authAct, viaServeProxy | none (pure) | who may type |
| Codex delivery | `ask.go`, `codex_requests.go`, `codex_rollout.go` | per-pane request tracker | deliver, bind, reply | 408 while the delivery still types; equal texts; a restart | each request binds to its own turn |
| Question menus | `askmenu*.go`, `question.go` | none (the pane) | walk a menu key by key | the operator types too; a walk is cut off and resumed | never submits an answer that is not the phone's |
| Approvals, attention | `approve.go`, `attention.go`, `permission.go` | attention cache | approve, refresh | dialog changes between read and key, or looks like another | one tap accepts one dialog, which showed what the card showed |
| Terminal tickets | `ws_ticket.go` | tickets | issue, redeem | spent before its checks; revoke | one ticket, one connection |
| Tower actions | `tower_actions.go`, `tower.go` | `towerActMu`, model cache | reply, act, backlog | one of several journal steps fails | validated on what is written; no double request |
| Watcher, pushes | `watcher.go`, `push.go`, `notifications.go`, `activitycache.go` | latches per session, inbox | sweep, settle, notify, trim | sweep cut short, latch kept or lost | one push per event, none lost, quiet hours |
| tmux budget | `tmuxbudget.go` | two pacing lanes, back-off | acquire, fault, ok | caller gives up with a slot reserved | pace and back-off respected; operator never waits for the sweep |
| Recall rows | `recall.go`, `recall_follow.go`, `history.go` | rows, cursor, followers | poll, frame, resync, cancel | frame of a replaced follower; /clear between two calls | cursor never loses a row; slots come back |
| Read caches | `sessions.go`, `viewfilter.go`, `adeckweb.go`, `statusline.go`, `profiles.go`, `peers.go` | one entry per key | build once, share | failed build with waiters | no second build, no hung waiter |
| Event hub | `sse.go` | client buffers | subscribe, publish, drop | slow client | publish never blocks |
| Phone-row log, photos | `phonelog.go`, `photos.go` | JSON lines file | append, claim, rotate | rotation between append and claim | an echo is claimed once |
| Harness adapters, parsers | `harness*.go`, `replies.go`, `activity.go`, `interrupt.go` | none | parse transcripts and panes | formats | pure functions |
| Server frame | `main.go`, `cli.go`, `tls.go`, `csp.go`, `doc*.go` | none | routing, start-up | order of start-up | load before listen |
| Web client | `web/app.js`, `runbang.js`, `runner.js`, ... | DOM, local storage | sheets, streams | stream reconnects | sheet shows the state of its run |
| Deployment, e2e | `deploy/`, `scripts/`, `e2e/` | none | | | |

How they interact: every `/api/rc/*` write passes `authAct` (device token, read once at the
start of the request). A pairing redeem calls the token store's `mint` and then the passkey
hub's `grantPair`; a revoke calls the store and then the hub's `revokeDevice`; each is a
separate lock. Runs, runner starts, arms and Tower actions share `towerActMu`. Ask, approve,
menus and the watcher all reach panes through the tmux budget, and all report through the
event hub to the phone, which repairs its view with a fetch when it reconnects.

## 2. Modules

| Module | Models | Extends / uses |
|---|---|---|
| `OneShot` | abstract: a secret that may be used at most once and never comes back | |
| `DeviceTokens` | the token store and its file (`tokens.go`) | |
| `PasskeyEnrol` | enrolment and the revoke cascade; implements `OneShot` for codes and grants | `DeviceTokens`, `OneShot` |
| `Pairing` | QR pairing; implements `OneShot` for offers | `DeviceTokens`, `OneShot` |
| `WsTicket` | terminal tickets; implements `OneShot` for tickets | `DeviceTokens`, `OneShot` |
| `TowerRun` | run challenges, signed lines, runner start, Vault arm under `towerActMu`; implements `OneShot` for challenges | `OneShot` |
| `RunnerGate` | the gates of a runner: poller, sheet and end of the view on the phone (`web/runner.js`), the handlers behind them (`tower_runner.go`) | |
| `TowerAct` | model cache, validation and journal steps of a tower action | |
| `AskQueue` | a phone message to a Claude session, from the handler to the bubble | |
| `CodexRequests` | a phone message to a Codex session: delivery, filing, correlation with the rollout | |
| `MenuWalk` | the key-by-key answering of a question menu, against the terminal program that draws it | |
| `Approve` | the answer to a permission dialog: two reads of the pane's end, a comparison, a key | |
| `Watcher` | the sweep with its latches, settle times and the activity and attention caches | |
| `Push` | preferences, quiet hours, the inbox, subscriptions and deliveries with their files | |
| `TmuxBudget` | the pacing gate in front of tmux: two lanes, deadlines, the back-off | |
| `Recall` | the rows of a session: polls, pages, the follower's life, resyncs and slots | |
| `RecallLocks` | the order in which history requests take the store's and the sessions' mutexes | |
| `TranscriptCache` | the cache of parsed transcripts under concurrent readers and a writer | |
| `SessionList` | the session list with one build in flight, stale answers and a grace | |
| `PasskeyEnrolProofs`, `TowerRunProofs`, `WsTicketProofs`, `AskQueueProofs`, `HandlersProofs`, `ExchangesProofs`, `WatcherProofs`, `SessionListProofs` | theorems and proofs, of a module or of a composition | the above, `TLAPS` |
| `MC*` | what a TLC run adds: composition, symmetry, functions over the instance, constraints | |

How a module corresponds to the code:

* A handler that takes and drops a lock several times is a record `req[r]` whose `pc` names
  the next critical section; each section is one action. Between two of them any other
  request, timer, revoke or restart may step. What the handler read earlier is kept in the
  record (`dev`, `reg`, `got`, `ver`, `floor`, `base`), so stale reads are real.
* A file is a variable of its own beside the memory it mirrors. Every write has two
  outcomes, and the action does what the code does on each: roll back (tokens, credentials),
  carry on (the cascade, the tracker, the inbox), or drop everything (the enrol code). A
  daemon killed in a write in place leaves a file that reads as nothing (`Push`).
* A read of a file at a start has two outcomes as well. The token store refuses to write after
  a failed one; everything else takes the file for empty without an error, and its next save
  goes over what the file held (credentials, open sends, subscriptions, keys, preferences,
  inbox). History variables (`unread`, `forgotten`, `lossy`) say what was lost that way, and
  the properties name it. A remove of the code file has two outcomes too (`leftover`).
* A timer is armed, due, or off: `clock[c]` in `PasskeyEnrol` lets the `AfterFunc` of a
  replaced code fire at any later time. In `Watcher` a settle time is a flag that is set some
  time after its clock started; in `TmuxBudget` time is a number, because its properties are
  about distances.
* `Restart` empties the memory, ends all requests and runs the start-up code on the files.
* An exec is the interval between two actions; what it reads outside (`cur` in `TowerRun`,
  `deck` in `AskQueue`, the pane in `Approve`, `MenuWalk` and `Watcher`) may change before,
  during and after it. A killed exec may have had its effect (`answered`, `"killed"`).
* A request or an answer between phone and daemon may be lost (`RunnerGate`, `AskQueue`).
* A dialog in `Approve` has no identity that the code could see: card and reads are excerpts
  of the pane, and two are the same when the excerpts are (the code compares hashes of the
  last 16 or 24 lines that are not blank; two excerpts with one 64-bit hash are left out).
  Twins have one excerpt, a dialog that is drawn again may get another, or be out of sight.
* In `MenuWalk` a read of the pane and the key that follows it are two actions. Keys, the
  operator's too, queue in the terminal's input and show later (`wire`, `Lands`); what the
  walk goes by is the last page it read (`walk.exp`). The menu is external: `Apply` follows
  the fake TUI of `askmenu_test.go` and the transitions recorded in
  `testdata/claude/askq-multi-semantics.md`.
* In `Recall` a poll is one action (it holds the session's mutex over its reads), while the
  follower has a step of its own for every frame and every stage of its life. Rows belong to
  a conversation: a page, a delta or a frame is of the one that agent-deck answered for, and
  the code does not always ask which that is.
* Secrets are model values. A wrong guess is a code that is not the live one. WebAuthn
  verification, rate limits and malformed bodies are a refusal that may happen at any step
  (`Refuse`, `RunRefused`); a success is an assertion by a named authenticator.
* Some variables are history: what was minted, enrolled, started, pushed, counted. No guard
  reads them, except that an identifier drawn at random is drawn once.

Details that are abstracted:

* `handleTowerRunArm` also wants the cap `prof:power`; `AskArm` models the run caps only.
* `grantPair` is skipped when WebAuthn is not configured; the model is the configured daemon.
* In `AskQueue` the event hub delivers at once and in order of publishing: what reorders
  events here is the publishing itself.
* A bubble of `AskQueue` is looked up as `applyAskState` does: the last one with the request's
  id, else the first without one that is still "sent". A POST whose answer is lost, or that a
  restart cuts off, shows as failed (`doSend`); bubbles of other origin are left out.
* `askPhotos` (a direct enqueue of a photo's path) and slash commands to Claude are not
  modelled; a slash command to Codex is delivered and never filed (`Slashes`, none in the run).
* `MenuWalk` presses Down and BSpace once for as often as it takes; two options per question,
  one text. A page is what `state()` compares, without the cursor. Calm, a key shows at once
  and the phone repeats its answers; rough, keys are late, the operator types, and a second
  walk may bring other answers.
* In `TowerRun` the laptop's successive signatures of the open ask are numbered versions;
  hash, cwd and timeout, class, soundness and need of an arm are functions of the version.
* `Approve` has single keys that are taken or lost at once, a pane without a dialog shows none,
  and the countdown of a Claude dialog, which the code leaves out of its hash, is not drawn. Codex questions with several
  answers, keys that show late, and the compatibility endpoint `/approve` are left out.
* `CodexRequests` restarts with nothing: handlers, queue, worker and the list of filed requests
  are in memory only, and Codex goes on. It has nobody typing at the terminal between the read of the composer and the
  keys: what an operator types there merges with the phone's text in the real composer. Slash
  commands are delivered and never correlated.
* `TowerAct`: tasks have different slugs (`towerSlug` may give two names one); the history `mine` says
  again what the code keeps in `recentBacklog`, so that a property can tell if that were lost. A
  restart forgets which backlog actions were just queued; start, defer and drop
  have one shape, as have dismiss and close.
* `Push` has no reads of the inbox (`listNotifs`); an entry's id is its place in the order of
  recording.
* `Recall` has rows without order and one reader per session object; agent-deck is taken to name the
  conversation in every answer, and a cursor of another conversation to read as the same position
  in this one; reads across `/clear`
  with `--chain` and the mapping to thread rows are left out.
* `TranscriptCache` has files that are only appended to, and no cache of their paths.
* `SessionList` is the list of one profile; a row is nothing but the version of the list.

## 3. Runs

Components that share no state are checked side by side in one run: a behaviour belongs to
one *scene*, the other components keep their initial state, and each property is looked at
where its variables move. A property named `...Sound`, `...Kept` or `...True` is the
conjunction of a component's type invariant and its named safety invariants; the module
states each part with its own comment.

| Run | Scenes and instance | Distinct states | Properties and what they show |
|---|---|---|---|
| `Enrol` | `device`: 2 requests of 1 device, 1 code, 2 credentials; `codes`: 2 devices with a request each, 2 codes; `pairing`: 3 offers, limit 2, 2 redeems; `run`: 2 requests and 2 challenges on a mutating line of 2 versions. Failing writes, removes and reads, expiry, revokes, restarts. Symmetric | 339,261 | `TypeOK`, `OnePlace`, `PresenceIsOneShot` (refinement of `OneShot`): a code or grant is in one place and yields one credential; `FirstDeviceOnly`, `LockoutIsFinal`: wrong tries, whoever makes them, add up to a lockout that stays; `CodeLivesItsTime`: a code's own timer is always still to come, and until then nothing ends it without a reason, no late timer of an older code either; `FileIsLiveCode`: the file shows the live code, and outlives one only if its remove failed; `CredLostOnlyByRevoke`, `TokenLostOnlyByRevoke`: no failed write and no restart loses either, but for credentials whose file a start could not read. `OffersKept`, `OfferIsOneShot`: the same for offers, and a refusal leaves them. `RunsAsShown`, `NoReceiptAfterRevoke`, `ChallengeIsOneShot`: what starts is what the sheet showed, once, and never by a device that had been revoked |
| `TowerRunProg` | a read-only line, then a prog step that needs the Vault arm; 2 requests, 1 challenge | 163,802 | `MarkIsTrue`: a double tap starts once and the duplicate mark means a start; `RunAnswered` (liveness): whatever fails, the mutex is released and every waiter is answered |
| `Handlers` | `budget`: 3 callers, 4 ticks; `sends`: 3 messages, 2 sessions; `menu`: late keys, an operator, 2 walks, or calm and cut off once; `terminal`: 2 tickets, 2 devices; `push`, `quiet`: 2 endpoints, a day of 3 minutes; `approve`: 2 dialogs, 2 excerpts, 2 phones; `tower`: 2 actions; `transcript`: 2 readers, 2 appended lines. Symmetric | 953,426 | `BudgetKept` (`Paced`, `BackoffHolds`, `LaneNeverJams`, `OperatorFirst`); `SendsSound` (`OnePoller`, `PollerFollows`, `FileIsTracker`, ...); `MenuSound` (`SubmitsOnlyPicks`) and `DoneIsTrue`: what a walk submits is what the phone picked, and what it reports entered is entered; `TicketsSound` (`RevokedOpensNothing`) and `TicketIsOneShot` (refinement); `PushSound` (`QuietIsWindow` and the parts of `DeliveryKept`); `ApprovalsTrue` (`OneTapOneDialog`, `ShownOrLate`, `ClearedIsTrue`); `ActionsTrue`; `EveryLineOnce` |
| `Exchanges` | `gates`: 2 gates, 2 posts, a lost answer; `codex`: 2 requests, an interrupted turn, a restart; `claude`: 1 message, 2 restarts, a lost answer, a killed CLI | 120,929 | `GatesSound`, `GatesFollowed`: a decision is for the gate on the sheet and the sheet follows the runner; `RequestsApart`, `ReplyComes`: requests with different texts bind to their own turns, and the reply comes, unless the turn was interrupted or the daemon restarted; `TrackerSound`, `RetryIsSafe`, `SendSettles`: a message is followed by exactly one poller, across restarts that can read the file, to its end |
| `Terminal` | `dialogs`, `replies`, `labels`: one session, 2 dialogs, 2 replies, 2 labels, 2 failing captures; `menu`: three forms, calm, cut off once | 68,561 | `PushesOnce` (each event at most once) and `EventsPushed` (liveness: each in the end); `RetryFinishes` (liveness): a retry finishes what a walk that was cut off has begun |
| `Reads` | `list`: 2 requests, 2 builds, 1 change; `recall`: 2 followers, 2 rows, 3 conversations, 2 events, 1 fault | 235,908 | `ListNeverGoesBack`, `ListIsServed` (liveness); `RowsKept` (`NothingLost`), `RowsFollow` (`NeverStale`: the thread comes to the newest event of the session's conversation again and again, unless the cache is torn; and a follower's slot comes back) |
| `EnrolOrphan` | 2 requests, 1 device | 14,000, until found | violates `RevokeDeletesCreds` (finding 1) |
| `AskQueueBubble` | 2 messages, 1 session | 150, until found | violates `BubbleNeverWalksBack` (finding 2) |
| `AskQueueKilled` | 1 message | 30, until found | violates `FailedMeansNothingQueued` (finding 3) |
| `MenuWalkEditing` | calm, cut off once | 807 | violates `RetryAlwaysFinishes` (finding 4) |
| `CodexTwins` | 2 requests | 2,000, until found | violates `ReplyIsOwnAlways` (finding 5) |
| `RecallDeadlock` | 2 calls, 2 sessions, room for 1 | 4,465 | violates `HistoryAnswers` (finding 6) |

Why the bounds are enough. The races are between two critical sections of two requests with
a third party (revoke, timer, restart, writer, operator) in between, so two or three slots
meet them all. Two codes are needed for a stale timer and for a wrong guess by the same
device, three offers for a list of two to overflow around a put-back, two versions of an ask
that is signed again between the sheet and the verify or after it; three messages for a
session with a queue and a neighbour. Three callers of tmux are two of the sweep, one of
which gives up, and an operator; four ticks see a slot, a fault and the end of its back-off.
Two dialogs are the one on the card and its successor, with an excerpt of their own or the same;
two gates are one and its successor. Two followers are the one that was stopped and its successor;
three conversations are one, the one after `/clear`, which a follower's resync may tear, and one
after that; two events are one that a poll has and one that only the stream has. What the
followers, requests and pollers of a run can do is the same for each, so liveness is looked at
for one of them. A device revoked is never minted again, so a device per role
suffices. The limits themselves are small: `MaxFails` 2 (code: 3), `PairMaxLive` 2 (code: 4),
`QueueCap` 1 or 2 (code: 32), `NotifKeep` 1 (code: 200), `TailRows` 1, `MaxSessions` 1
(code: 32), `DayMinutes` 3 (every window of 1440 minutes has the shape of one of these: it
wraps or not, and the minute is before, in or after it). The enrolment is checked with two
requests and the runs of a line with two versions; the theorems of section 5 hold for any
number of requests, devices, codes and credentials.

Bounds that are not the code's: `MaxRestarts`, `MaxFaults`, `MaxTouches`, `MaxKeys`,
`MaxWalks`, `MaxCuts`, `MaxCut`, `MaxLost`, `RoughForms`, `MaxWrites`, `MaxLines`, `MaxNotifs`, `MaxShows`, `MaxAborts`,
`MaxChanges`, `MaxEvents`, `NDialogs`, `NGates`, `NRows`, `NConvs`, `Horizon`, the number of
slots, and the constraints `OneDevice`, `CodesOnly`, `Calm` and `Plain` of the MC modules,
each of which leaves out of one scene what another covers. `OneLost` lets a start of the push
scene fail to read one file, not several; `FirstPoller` names the poll loop that runs alone. Symmetry is used in the two runs
without liveness. `CHECK_DEADLOCK FALSE` is set because every secret, version, message and
dialog can be used up, after which the daemon is idle; `RecallDeadlock` states its deadlock
as a liveness property.

Fairness.

* `TowerRun`: a request that holds `towerActMu` runs on, because its execs are killed after
  `towerExecTimeout`, and a waiter is not passed over for ever, which `sync.Mutex` guarantees
  in its starvation mode; no fairness for arrivals, revokes or signatures.
* `MenuWalk`: a walk runs on and the operator taps Send again; nothing makes a late key land.
* `AskQueue`: workers and poll loops run on, time passes, and `send-status` does not fail for
  ever on a send it could answer. The run adds that agent-deck settles a send (its 30-minute
  delivery budget), which only `FollowedToTheEnd` needs.
* `RunnerGate`: the poller goes on and a request in flight is answered or lost; nobody has to
  decide a gate. Losses are bounded by `MaxFaults`.
* `CodexRequests`: goroutines run on, Codex takes what was submitted and ends its turns, and
  the sweep comes round.
* `Watcher`: sweeps start and jobs run on (their execs have deadlines); a clock that is
  started again and again still comes to its settle time if it is left alone often enough
  (strong fairness), which is what a settle time is for. The session owes nothing.
* `Recall`: the sheet asks for its rows again and again, and a follower's goroutine runs on.
  `SessionList`: requests and builds run on.

## 4. Findings

1. **A credential outlives its token** (`EnrolOrphan`). `handlePasskeyRegisterFinish` reads
   the device once; a revoke with its whole cascade fits between that and the append. The
   credential stays, unusable, until the next start prunes it. `passkeys.go:28-29` promises
   otherwise.
2. **A bubble walks back** (`AskQueueBubble`). Events are published after the lock, by
   handler, worker and poller; a late "sent" or "queued" overwrites "failed" or "unconfirmed".
3. **Retry although the message is queued** (`AskQueueKilled`). A CLI killed by its 30 s
   context after agent-deck stored the message reads as a rejection.
4. **A retry that never finishes** (`MenuWalkEditing`). A walk cut off between opening the
   free-text field and Enter leaves the field open, and every later walk takes it for an
   operator typing at the terminal. `askmenu.go:741-743` says a retry finishes.
5. **A reply to the wrong request** (`CodexTwins`). Of two Codex requests with one text and
   one baseline, the first is answered and dropped, its user event is free again, and the
   second binds to it and gets the same reply.
6. **History requests that block one another for ever** (`RecallDeadlock`). A 33rd session
   evicts under the store's mutex and waits for a session's; that session's request asks the
   store whether `--chain` works. Both wait, and every history request after them.

Exceptions that the properties name, because the code has them:

* `SubmitsOnlyPicks`: the wait for the next tab (`askmenu.go:703`) accepts a page that another
  key brought up. When a walk gave up on a key after its 12 s and that key lands during the
  retry, the retry is one key ahead of itself, and its digit for the last question lands on
  the review and submits it uncompared.
* `ShownOrLate`: between the last read of the pane and the key, which no lock can tie together, the
  dialog may go and another come, which the key then accepts unseen; so of two approvals at once
  (`approve.go:172`, against `permission.go:11-13`). What the code does keep is that one tap lands in
  one dialog at most (`OneTapOneDialog`: no second key after an error, as the comment at
  `harness_codex.go:238-242` wants). A dialog with the excerpt of another is taken for it.
* `ClearedIsTrue`: a dialog that rows drawn under it pushed out of sight counts as cleared.
* `FileIsLiveCode`: `voidCodeLocked` ignores the error of `os.Remove` (`passkeys.go:161`, 293, 309), so
  where the directory is not writable the file of a dead code stays. It is never beside another live
  code: a write of that one replaces it, and if the write fails there is no live code.
* `CredLostOnlyByRevoke`: `newPasskeyHub` takes a file that cannot be read or parsed for one without
  credentials (`passkeys.go:151-153`), and the next append or cascade writes over it. The token store
  refuses to write after a failed load, the hub does not.
* `FileIsTracker`, `ForgetsOnlySettled`, `FollowedToTheEnd`: so does `load` of the open sends
  (`askqueue.go:208-215`): after a start that could not read the file nobody follows them, their
  bubbles stay as they were, and the next save writes over the file.
* `PushSound`: so do the starts of preferences, subscriptions, key and inbox (`push.go:84-115`,
  `notifications.go:34-44`); with a key of its own making the daemon's pushes reach no device that
  subscribed under the old one.
* `RetryIsSafe`: "failed" with Retry is shown of a message that is queued or delivered in three ways.
  A CLI was killed after it stored the message (finding 3). The answer to the POST was lost, and
  `doSend` takes any error for a failed send (`web/app.js:2986-2991`). Or an event of another message
  claimed the bubble, which bore no id yet (`web/thread.js:149-153`), so that the two show one
  another's fate from then on.
* `ReplyComes`: the list of filed Codex requests is in memory only (`codex_requests.go:21-23`); what
  was filed when the daemon restarts gets no "reply" event, though `ask.go:71-73` promises one.
* `PushedOnce`, `DialogPushed`, `ReplyPushed`, `StallPushed`: a Codex approval is pushed again
  after a capture that failed; a Claude dialog replaced between two sweeps, or raised while
  nobody is subscribed, is not pushed; a failed first read after a start uses up the baseline,
  so that a reply that was there already is pushed later (the comment at `watcher.go:271` says
  otherwise); the latch of a stall survives a run that began in an activity poll or with
  nobody subscribed.
* `BackoffHolds`: callers that sleep when a fault comes run inside the back-off; the comment
  of `until` says no exec comes before it.
* `OverOffersNothing`: an End that is answered while a poll is out may draw a gate in a view
  that has ended.
* `NeverStale`: a follower whose process reported a resync empties the cache even after it was
  replaced (`recall_follow.go:158-165`). A frame of its successor then fills a cache that has a cursor
  and no conversation (`Torn`). Nothing reopens it: both looks for `/clear` want a conversation
  (`recall.go:233` and 247), the cursor is not empty, and a resync of the successor is needed for
  another drop. So the thread goes on with the newest events and stays without its older rows, against
  `recall_follow.go:31` and 159-160. This is what the property allows: such a cache, torn for good,
  keeps up with the newest event. Otherwise the thread is that of the session, to its end, again and
  again.
* `NothingLost` is about a cache that is known to be of the session's conversation. Between a `/clear`
  and the call that notices it, a page asked with the old cursor is answered for the new conversation
  and put before the old rows (`recall.go:261-287` never compares `NativeID`), for instance while the
  follower is healthy and so nothing is polled. Such a mixture is thrown away with the rest when the
  `/clear` is noticed; a torn cache never notices it.
* `OffersKept`: an offer whose mint fails is gone (`pair.go:229`), and the phone has to be shown another.

Read in the code, without a run:

* A put-back appends without trimming, so offers held at that moment may bring the list past
  `pairMaxLive` until the next offer.
* The comment at `push.go:174-175` writes a quiet window over midnight with its end included; the code
  leaves the end out, as for a window within a day.
* The comment at `tower_runner.go:23` (both caps) is out of date, the one at 37-39 is what the
  code does.
* A send that agent-deck always answers for but never settles is polled for ever, since age
  counts only when `send-status` fails.
* A terminal that is open outlives the revoke of its token; `WsTicket` is about opening one.
* A Codex draft left by a delivery that was cut off makes every later one refuse until
  somebody clears it; a request whose turn was interrupted stays filed for ever.
* A push subscription that the server lost is not posted again by the browser; `loadInbox` on
  the phone may overwrite an entry that an event brought meanwhile.
* A journal process killed after its write leaves no mark, so a retry writes again (`ActOnce`
  holds because the model shows the item settled).
* After a recall session was evicted, a call in flight keeps an object nobody finds, whose
  follower stops by idling. Frames replayed after a poll may move a queued message behind later rows.
* A cold request for the session list whose build fails gets any older list there is, however
  old.
* The output of a `!` command read in a later pass stands alone (documented at
  `history.go:182-185`).
* The event hub drops what does not fit a slow client's buffer and leaves the client
  connected, so nothing tells it to fetch again.

## 5. Proofs

Checked by TLAPS for any finite or infinite sets of devices, requests, codes, credentials,
tickets, messages, sessions, dialogs, items, callers and builds, any finite set of challenges, and
any limits.
Each theorem stands on the named assumptions of its module and on nothing else: `MaxFailsAssumption`
(the limit of tries is a positive integer), `DistinctAssumption` (act devices are devices; the
markers "no code", "empty code" and "no device" are none; codes and devices are different things),
`VersionsAssumption`, `ChalsAssumption` and `NoneAssumption` of `TowerRun` (versions are numbers from
1; a challenge is one of finitely many strings; "none" is no device, request, challenge or binding),
`TowerAssumption` (items and tasks have different names; "none" is no request and no stamp),
`WatcherAssumption` (questions are dialogs; the stall takes at least one sweep), `BoundsAssumption` (a menu is a
non-empty sequence of questions of the two kinds), `TranscriptAssumption`, `RequestsAssumption`, `GatesAssumption`,
`ApproveAssumption`, `TicketsAssumption`, `QueueAssumption`, `BudgetAssumption`, `PushAssumption`,
`PairingAssumption`, `RecallAssumption` and `SessionListAssumption` (markers are no elements; intervals, back-offs and limits are natural numbers
with the order the constants of the code have). TLC evaluates every one of them on the runs.

`HandlersProofs`, `ExchangesProofs` and the ends of `PasskeyEnrolProofs` and `SessionListProofs` prove
about the compositions themselves: their theorems are about `AllSpec` of `MCHandlers`, `MCExchanges` and
`MCReads` and `MCSpec` of `MCPasskeyEnrol`, in whatever scene a behaviour is. What the compositions fix, the
theorems about them fix too: `MCHandlers` has three messages to two sessions and no restart of the tracker,
`MCPasskeyEnrol` has one device that runs lines of two versions. `AskQueueProofs` and `TowerRunProofs` prove the same of
the components alone, with nothing fixed.

* `PasskeyEnrolProofs`.
  `TypeCorrect`: types alone are not inductive. That `wrong` stays within `MaxFails` rests on
  `WrongIsFails` (the history agrees with the live code's own counter, and an unissued code has
  none), and that a grant or credential is some device's on `BusyHasDevice`.
  `CodeFileCorrect` (the file is the live code's, or what a failed remove left) and the state half of
  `CodeTimerThm` (a live code has a timer to run) are inductive on top of the types; its other half,
  that nothing but a reason ends a code before, goes through the steps one by one. `OnePlaceThm`: a proof of presence is with the hub, with one
  request, or spent; this is the invariant that makes three separate critical sections safe,
  because the spending section moves the proof from the hub to the request. From it `OnePerProofThm`
  and `PresenceThm`, which shows that the enrolment implements `OneShot`: the initial states
  correspond, and every step moves each proof by one of `OneShot`'s moves or not at all.
  `FirstDeviceThm` and `LockoutThm` follow from an invariant that ties the live code, the requests
  past their spend and the history of first presenters. `CredLossThm` and `TokenLossThm`: unless
  the store failed to load, memory and file agree on tokens; a credential in one of memory and file
  but not the other belongs to a token that is durably gone, or is one that this start could not
  read; a cascade runs only after its token left the file.
  `RunsThm`, `NoReceiptThm` and `ChallengeThm` are about the composition: the lemmas of
  `TowerRunProofs` are taken as an instance, whose assumptions `Assumptions` of `MCPasskeyEnrol` gives,
  and every step of any scene is a step of the runs or leaves them alone.
  `OffersThm` and `OfferThm` (the refinement of `OneShot`) are about pairing, from `PairInv`. An
  offer is in the list, with one redeem, or spent (`OfferInOnePlace`), a redeem that refused still has
  the offer to put back (`RefusalLeavesOffer`, `RedeemsHave`), and the list holds what was made and
  nothing twice (`OffersMade`). `Pairing` writes a list without some of its entries by the rank of
  those that stay (`Part`), which the provers can expand where they cannot a filter.
* `TowerRunProofs`. One invariant carries all seven theorems. `Mutex`: just the request under
  `towerActMu` holds it, so what it read there is still so when it acts. `Fits`: an assertion in
  hand was drawn for the caller, the kind and the hash it is used for (`StartedThm`, `FreshThm`).
  `Once`: a challenge is open, in one request's hand, or on one receipt (`ChallengeOneShot`, the
  refinement of `OneShot`). `Entitled`: who is about to start has the receipt of a challenge
  that no start has used, or needs none (`AuthorisedThm`). `Marks`: a line counts starts only
  while it carries its mark, and one that is being made is not counted yet (`MarkThm`).
  `NoReceiptThm` rests on the credential being read anew, under its lock, in the section that stores
  the receipt: `RevokedHaveNone` says that a device whose cascade is over has none.
* `WsTicketProofs`: `TicketTyped`; `RevokedThm`, from `Revocation`: whoever asks, holds or is
  let in has a token that was minted, and a request marked as cut off has one that is gone,
  which can never be minted again; `TicketOneShot`, the refinement of `OneShot`, from `Once`:
  a ticket is in the store, with one request, or opened, and then only there; and what the
  refinement is for, `OneTerminalThm`: `AtMostOnce` of `OneShot` for the tickets.
* `AskQueueProofs`: `OnePollerThm`, `PollerFollowsThm`, `FileIsTrackerThm`, together
  `TrackerThm`. `Tracking` says `OnePoller` without a cardinality (any two loops that are on
  are one, and the flag is up just when there is one): it and `PollerFollows` need each other,
  because the loop ends, and the worker starts one, by looking at the set and the flag under
  one lock. `RetryThm` needs to know where each message is: `Placed` (a message is in one place
  of its session's queue or with its worker), `NotYet` (one that waits is unknown to agent-deck and
  was not reported failed) and `Truthful` (a final state that a poll has read is still so). `ForgetsThm`
  is the action property with the same invariant. `MessagesTyped`, type correctness: `Typing` says that a send that is
  tracked, on file, with its worker or read by the loop has been given an id by agent-deck, and that the list of ids has
  none twice (`Listing`); without it the oldest open send that the loop asks for next (`Oldest`) need not exist.
* `HandlersProofs`. *The gate of tmux*: `BudgetTyped`, `PacedThm`, `BackoffThm`, `NeverJamsThm`,
  `OperatorFirstThm`, together `BudgetThm`. The invariant adds that nobody sleeps past its
  slot (`OnTime`) and that a lane's next slot is an interval after everything it gave out
  (`NextAhead`, `OpNextAhead`), which is what keeps a slot its distance when it is reserved;
  that slots nobody uses jam nothing rests on the refusal at `MaxWait`.
  *Tower actions*: `ActionsThm`, from `TowerInv`. `Locks`: `mu` and `actMu` are held by whom the steps
  say. `Stamped`: stamps are of the past, and a model whose stamps still hold is what the files say.
  `Informed`: a model read under stamps at least as new as those of the action that holds
  `towerActMu` shows what was done before it; this is why a model that another request made
  meanwhile may be used. `Judged`: what an accepted action has yet to do was not done before.
  *Approvals*: `ApprovalsThm`, from `Tapped`: a request that presses a key has seen, in its last read of
  the pane, a dialog with the excerpt of its card; before its polls or its end no key of it has landed;
  and one that reports "cleared" is about a dialog that is not up, or was out of sight. *Tickets*: `TicketsThm` and `OneShotThm` take the lemmas of
  `WsTicketProofs` as an instance with the composition's variables. *Pushes*: `PushThm`, from
  `PushInv`. `Entries`: inbox and file hold no entry twice, and while no write was lost the inbox is
  the newest of all that was recorded (`IsNewest`). `NotYetRecorded`, `InFlight`: the id of an entry
  that is still to be recorded is in no list, one that goes out was recorded, and what a send calls
  dead is. `Subscribed`: while no write was lost, the file is what memory holds: who subscribed and was
  not given up, under the key that is in force. That the quiet window is the minutes between its ends,
  over midnight too, is arithmetic (`MinutesBetween`).
  *Question menus*: `MenuThm` and `DoneThm`, from `MenuInv`. A walk looks at the menu, sends a key, and
  looks again, while keys it sent before may be on their way and an operator may answer: `WireSure` says
  that the key of a walk whose last look is sure is the next one to land, `Saw` that the menu is still
  what that look saw, and `Lawful` that in such a menu the key does no more than it should: no submit but on a
  review that shows the phone's picks. With nobody at the terminal (`Calm`), a walk stands behind the open tab and every
  question before it holds its answer, which is what a report of done needs. The attempt showed that
  arms of a `CASE` in the model overlapped, which TLC resolves by taking the first and the logic
  leaves open; they are disjoint now.
  *Sends*: `SendsThm` takes the lemmas of `AskQueueProofs` as an instance in the composition.
  *Transcripts*: `EveryLineThm`, from `TranscriptInv`. `Holds(messages, a, b)` says that a list of
  messages carries the lines after a up to b, once and in order, the last ones perhaps still to be
  continued; the cache and every call under way hold such a list of the first k lines with an offset
  that is the end of line k (`Parse`), and a size that was read tells which lines it covers (`Lin`), though
  the file has grown since. That parsing from an offset adds just the lines after it (`ParsedIs`) is
  by induction over the lines: see below.
* `ExchangesProofs`: `GatesThm`, from `GatesInv`. `Row`: the gate on the screen is the one that a
  decision would name; `Decisions`: each decision names the gate that was on the screen, and one
  that was accepted has ended its gate; `LastPoll` and `Over`: the poll that is out when the view
  ends is the last one, so a late answer cannot bring buttons back.
  `RequestsThm`, from `CodexInv`. `InOnePlace`: a request is in one place of the queue, with the worker,
  or was submitted in one message, and what a worker is about to submit is all that the composer holds;
  this is why a text that an earlier delivery left behind never goes out with a later one. `Stages`
  ties the places to what the handler has told the phone, also when the handler is gone. `Filing`: each
  request on file is bound to a message with its text that comes after its baseline, and no two to
  the same. The two passes of `reconcile` keep this (`BoundIs`, `WithoutIs`): the first looks at
  the messages of the requests already bound and of those still on file, the second only leaves
  requests out. `Replying`: a reply is of the turn of the bound message, which is the request's own
  if nobody else sent its text.
* `WatcherProofs`: `OnceThm`. `Latched`: while a dialog that was pushed is still up, its latch
  stands, and every job under way either saw the same dialog or will leave the latch alone. `ReplyKnown`
  and `StallLatched` say the same of replies and stalls. The attempt showed that the history variable
  of replies must forget with the watcher itself: a session that is gone and comes back is a new one
  (`Remembers`).
* `SessionListProofs`: `ListTyped`; `NeverBackThm`, from `OneBuild` (one build at a time lists
  or has a list to store), `NewestStored` (what it stores is not behind the body, and nothing
  newer than the body was shown) and `FloorShown`. `RowsThm`, about recall in the composition, from
  `RowInv`, whose parts are about a cache of the session's conversation only. `Proper`: a row begins once, after the rows before it, and is not updated once it was taken
  back. `Kept`: from the oldest row on, each is as it was at the cursor or later, what is older is not
  there, and the oldest row began before the cursor. `Follows`: the session's follower streams the
  conversation that is kept, from no later than the cursor and after the oldest row began; this is why
  a frame that repeats what a poll has read does no harm, though it takes the cursor back, and why
  an update of a row that is not kept may be ignored. A tail read brings these promises about; a drop,
  a `/clear` and a frame into a dropped cache leave a cache of no conversation or of another, of which
  nothing is promised.

Induction. The induction theorems of the library take an operator as a parameter, which the
provers cannot instantiate. Where a proof needs induction over the natural numbers, it is had from
sets: `NatLessThanWellFounded` and `WFMin` give every non-empty set of numbers a least element (`MinIs`),
so a set with 0 and the successor of each of its numbers has them all (`Induction`). For this
`TranscriptCache` and `CodexRequests` write the passes over a list as recursive functions on the number of
elements read (`Parsed`, `Bound`, `Without`); the proofs first show that such a function exists, then
what it returns.

Only model-checked. Every invariant and action property of the runs that pass is a theorem; what stays
with TLC is liveness (`RunAnswered`, `FollowedToTheEnd` of `SendSettles`, `RetryFinishes`, `GatesFollowed`,
`ReplyComes`, `EventsPushed`, `RowsFollow`, `ListIsServed`), because the prover does not handle
fairness and ENABLED.

## 6. Not modelled

* `whoami`, the device list, the read-only verify endpoint, the output stream and the log
  readers of a run, the pages of the OIDC redirect: reads that change nothing.
* `handleTowerReply`, one more user of the duplicate mark of `TowerRun`.
* The merge of local bubbles with the transcript (`web/thread.js`), the run sheet
  (`web/runbang.js`), rendering: data on the phone that is fetched again.
* The transcript side of a question (`pendingAskFromTranscript`, `question.go`), the parsers of
  transcripts, rollouts and panes (`harness*.go`, `replies.go`, `activity.go`,
  `codex_rollout.go`, `recallMessages`, documents): pure functions of external formats; what
  they return is an input of the modelled parts.
* The view filter and the remaining read caches, which are smaller instances of what
  `SessionList` shows.
* The event hub's buffers (`sse.go`): an event that does not fit is dropped, and nothing else
  in the daemon depends on it.
* The phone-row log and photo staging (`phonelog.go`, `photos.go`), a log whose order is data
  and files deleted before the request returns.
* Server frame, TLS, headers, deployment, scripts. The order of start-up (load before listen)
  is part of the `Restart` actions.

Next, if the project is carried on: Codex questions with several answers in `Approve`; the run sheet
of the web client; the bounded buffers of the event hub.
