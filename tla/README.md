# Pocket Vibe: a TLA+ verification project

Pocket Vibe lets a phone steer AI coding runtimes on a desktop: a phone web app
talks over a websocket to a FastAPI backend, which talks over another websocket
to a VS Code extension (the bridge), which types into terminals and starts
processes.  A separate in-memory relay is meant to connect phone and desktop
through the cloud.  This directory models the control plane of that system.
Paths are relative to the repository.

All of it runs in single-threaded event loops (asyncio, the extension host, the
browser) except the relay's HTTP routes, which FastAPI runs on a thread pool.
What makes it hard is therefore not shared memory but what happens between two
steps: between two awaits, between a state update and the render that shows it,
between a process that was told to die and its close event, between a socket
that broke and the side that has not noticed.

## Inventory

### The phone (frontend/src)

* `hooks/useOpenVibeWS.js`: the socket, its retries, the shared secret, the
  feed of messages and the cursor `lastSeqId`.  On each connection it derives a
  secret (an await), sends a `resume` with the cursor, then a `hello`.  Calls
  `messageFeed.appendIncomingMessage`.  Hard: replayed and broadcast messages
  interleave; the cursor is a maximum; encrypted messages arrive before the
  secret exists; the numbering restarts with the backend while the page keeps
  its feed.  Correct when what is sent to an open socket comes to the page,
  except what the feed leaves out on purpose.
* `hooks/useApprovalQueue.js`, `App.jsx`: one approval slot, filled by an effect
  that looks at the end of the feed after a render, emptied by a tap that sends
  an `approval.response`.  Hard: several updates in one render, a repeated
  request, a reload, two phones.  Correct when every question is offered, none
  twice, and an answer meets its own question.
* `utils/runtimeActionState.js`, `runtimeCapabilities.js`, the buttons of
  `MobileToolsSheet.jsx`: a pending launch or attach reconciled with events and
  reports.  Hard: the page acts on the last message of a render; other phones'
  and other runtimes' events arrive meanwhile.  Correct when the buttons offer
  what the bridge would do and a pending action ends by its own answer.
* `utils/projectRegistry.js`, the deck of `MobileControllerView.jsx`: the list of
  projects and the active one, as the last snapshot told them.  Hard: they are
  out of date whenever they are used.
* `consoleEntries.js`, `controlHome.js`, `supportDiagnostics.js` and the other
  components are presentation.  `connectionConfig.js` parses and stores the
  connection profile.

### The backend (backend, src)

* `websocket_lifecycle.py`, `socket_messages.py`, `main.py`: one handler per
  socket: connect, announce, read messages, disconnect; per session one
  broadcast task and one state-sync task.  Hard: a session opens while the tasks
  of the last are being cancelled; the two tasks start together and end apart.
* `src/domain/services/vscode_driver.py`, `driver_output.py`: one driver with
  one queue for the desktop; the broadcast task takes from it.  Correct when one
  task takes at a time, commands keep their order, and none announced is lost.
* `src/core/message_buffer.py`, `connection_manager.py`: numbering, ring buffer,
  broadcast (one send per peer, each may suspend), replay (one send per message).
* `connection_state.py`, `connection_disconnect.py`, `connection_registry.py`,
  `connection_peers.py`, `host_session.py`, `project_registry.py`, snapshots:
  who is in the room, which projects each host announces, which is selected.
  Reading the active project may write the selection.  Correct when all parts
  of a snapshot agree, a selection is not stolen, and an orphan is given up.
* `protocol_router.py`, `protocol_routes.py`, `protocol_dispatch.py`,
  `route_flows.py`: one route per message type: resolve the project, make sure
  the driver runs (a poll with a timeout), dispatch, announce to the room.
* `relay_core.py`, `relay_api.py`: hosts, sessions, pairing codes, devices,
  capped message lists, replay by cursor.  Correct when a code pairs one phone,
  a revoked device never acts again, and replay leaves no gap.
* Project scans, file API, pairing page, preflight, static files, telemetry,
  phrase store, configuration, launcher: no state that interacts.

### The bridge (vscode-bridge/src)

* `backendConnection.ts`: one socket, one retry timer, a manual-disconnect flag;
  connect suspends at two prompts.  Correct when it is never stranded, never has
  a retry beside a live socket, and only hears the current socket.
* `codexExecRuntime.ts`: `codex exec` processes, with one entry and one
  "intentionally stopped" mark per runtime.  Correct when a kill stops the run,
  no message is sent twice, and no run ends in silence.
* `extension.ts`, `runtimeAdapters.ts`, `runtimeRegistry.ts`, `runtimeLaunch.ts`:
  message handlers over terminals, settings and recorded errors, and the
  capability report.  Hard: handlers are not awaited, so they interleave at the
  settings, a starting terminal, the clipboard and Ctrl+C.  Correct when every
  change is followed by a report and no runtime gets two terminals.
* `shellExecution.ts`: scripts in a shell with a wait for shell integration
  (timeout) and for the end (none); a capped output stream.  Correct when what a
  script says is complete, in order and its own.
* `workspaceActions.ts`, `workspaceProjects.ts`, `workspaceFolderPicker.ts`: the
  folders of a window, the projects it announces, the folder a command runs in.
  Hard: folders change while a picker is open and while a command is on its way.
  Correct when what is announced is what is open, and a command runs in the
  folder it was meant for.

### Interactions

    phone --prompt, approval, kill, select--> route --> driver queue --> bridge
    bridge --events, requests, results--> room event --> number, buffer, broadcast --> phone
    phone --resume(cursor)--> replay of the buffer --> phone
    host session, announcements --> project registry --> snapshot --> phone
    phone --project shown, command--> connection and path --> window --> folder
    phone --launch, attach--> bridge --event, capability report--> phone
    user and timers --> bridge connection --> websocket session of the host

## Modules

| Module | Code | One step is |
| --- | --- | --- |
| `RelayCore` | relay_core.py | one public method |
| `Mailbox` | what delivery promises a page: no sockets, buffers, replays or encryption | one promise made or kept |
| `Delivery` | message_buffer.py, connection_manager.py, useOpenVibeWS.js, messageFeed.js | code between two awaits; one send; one updater of the page |
| `DriverLifecycle` | vscode_driver.py, driver_output.py, websocket_lifecycle.py, main.py, routes | code between two suspensions, with the loop's ready queue |
| `RoomSelection` | connection_manager.py and its helpers, project_registry.py, host_session.py | one handler; a selection is two |
| `RoomSync` | main.py, websocket_lifecycle.py, over `RoomSelection` | one handler with what it does to the room's two tasks, or a step of one of them |
| `CodexExec` | codexExecRuntime.ts, extension.ts | one event handler |
| `BridgeConnection` | backendConnection.ts, bridgeSettings.ts | code between two prompts; one socket event |
| `ApprovalFlow` | useApprovalQueue.js, App.jsx, messageFeed.js, approval route, handleApprovalResponse | one event, render or delivery |
| `ShellExecution` | shellExecution.ts, handleCommandDispatch | one event of the extension host |
| `RuntimeControl` | extension.ts, runtimeAdapters.ts, runtimeRegistry.ts, runtimeLaunch.ts, promptDispatch.ts | a handler between two suspensions; one event of VS Code |
| `RuntimeDeck` | App.jsx, runtimeActionState.js, runtimeCapabilities.js, MobileToolsSheet.jsx, over `RuntimeControl` | one tap, render or timer, a snapshot, or a step of `RuntimeControl` with what it sends |
| `ProjectRouting` | workspaceProjects.ts, workspaceFolderPicker.ts, main.py, protocol_router.py, the phone's projects, over `RoomSelection` | one event of a window, handler of the backend, or tap |

Each `*Proofs` module extends its component with the theorems; three hold those of
two components or more: `RuntimeProofs` (`RuntimeControl` and `RuntimeDeck`, which
extends it), `ProjectRoutingProofs` (`RoomSelection`, and `RoomSync` and
`ProjectRouting`, which extend it) and `BridgeProofs` (`CodexExec` and
`BridgeConnection`, which share no name).  Each `MC*` module instantiates a
component for the runs.  Operators whose comment calls them a variant or a mutant
are not part of any specification: they are plausible bugs, each of which breaks
a property.

How the modules fit together.  Three extend another.  `RuntimeDeck` puts the
phone's page and a wire in each direction around `RuntimeControl`; every step of
the bridge is a step of that module, with the messages it sends.  `RoomSync`
puts the background tasks of a room around `RoomSelection`, and `ProjectRouting`
the windows and the phones; the operators of `RoomSelection` decide what is
announced, selected and resolved in both.  `Delivery` is shown to implement
`Mailbox`, which is what the modules of the phone may assume of it.
The others meet at their borders: `DriverLifecycle` ends where a command is given
to the desktop; `RoomSelection` decides which host it is for; `RuntimeControl`
begins where the bridge receives it, and `CodexExec` and `ShellExecution` are
what two of its handlers start; `BridgeConnection` is the socket in between.
`ApprovalFlow` uses what `Mailbox` allows (a page receives any kept message, and
more than once) as its environment, and lets an answer be lost wherever
`DriverLifecycle` and `BridgeConnection` say it may be.

**RelayCore.**  `hostSession`, `devices`, `challenges`, `log`, `nextSeq` are the
relay's dictionaries; a failing call stutters except `open_pairing_code`, which
cleans up first.  A restart of the process empties all of them.  The caller's
cursor and what it has seen are kept beside, as the relay does not keep them.

**Mailbox and Delivery.**  In `Mailbox` a phone that listens is promised every
message published from then on and every kept one its resume asked for, and its
page is given each unless it leaves.  The page outlives sockets and backends and
may pass over two kinds of messages: one that says what the entry above it says,
and one whose number it already has from an earlier life of the backend.
In `Delivery` a broadcast numbers a message and lists the peers, then sends to
one peer per step; a resume lists the buffered messages, then sends one per
step.  A peer that fails is unregistered at its send.  The phone's `link` says
whether it can read encrypted messages yet.  `queue` are the state updaters that
`addMsg` has given to React, `feed` is the page's list, with an entry `Other`
where a packet without a number separates two messages that say the same; `Says`
is what the feed's comparison of neighbours looks at.  An updater moves the
cursor first and then appends the message or drops it, as the code does; a
restart of the backend empties none of the three.  `owed` and `repeated` are
histories: the messages published to a socket after its resume, and those the
resume asked for; the messages dropped as repetitions.  The mapping (`Box`): a
phone listens while its link is ready, is promised what its socket is owed, and
has the messages of its feed.

**DriverLifecycle.**  `handler` is where each client's websocket handler is,
`task` where each broadcast task is; `cancelled` and `finalizers` are effects
scheduled but not delivered: asyncio delivers a cancellation, and closes an
abandoned generator, a turn later, and that is where sessions cross.

**RoomSelection and RoomSync.**  `projects`, `ready`, `recent` are what hosts
announced; `Active` is what reading the active project returns, `SelectionAfter`
what it writes.  The precedence among hosts and projects is modelled in full.
`RoomSync` adds whether the broadcasting task and the periodic sync of the room
exist.  Both are started when the first is missing; a sync ends when it finds the
room empty; both end when the last socket is closed by its own handler, and
neither when a failed send removes it (`Evict`, whose history is `evicted`).

**CodexExec.**  `process` is the life of each run's process, `activeProcess` and
`stoppedMark` the bridge's two entries, `told` what the phone learnt of its end.
`dying` is a history: the processes whose close event was still to come when a
run started.

**BridgeConnection.**  `socket`, `timer`, `attempt`, `manual` are the state
object; `config` says of its address whether there is one and whether
`new WebSocket` accepts it; `phase` and `wired` are the sockets themselves and
whether their listeners are still attached; `asking` are the connect calls at a
prompt.  Nobody checks an address before the constructor does, and it throws when
the timer and the socket before are already gone (`NoNewSocket`).

**ApprovalFlow.**  `slot` is `pendingApproval` with all queued updates applied,
`shown` the value the last render used, which is what a tap answers; `fresh` says
the effect has yet to look at the feed.  React applies queued updates at the next
render, so between two renders any number of messages may arrive.  The runtimes
and the person at the desk are external.

**ShellExecution.**  `phase` is where each `run_script` call is; `terminal`,
`closed` and `integrated` are VS Code's terminals; `lines`, `partial` and
`stream` are the reader's loop and its buffer; `exit` is how the execution
really ended and `resolved` what the call's wait for it returned.  `sent` is
what the call said.

**RuntimeControl.**  `terms` is the runtime of every terminal by age, so that
the oldest one of a runtime is what `findTerminalByPatterns` returns; `opening`
are terminals the bridge created whose open event has not come; `job` is where
each message's handler is suspended.  `sent` is what the last step sent (an
event, a report), which is what `RuntimeDeck` puts on the wire; `reported` is
the content of the last report.  `tuned` says that the user edited a setting,
which the bridge is not told.

**RuntimeDeck.**  `caps` and `act` are the page's `capabilityInfo` and
`runtimeActionState`.  The backend reads the bridge's messages in order but sends
what it makes of them with awaits in between: `late` is a snapshot another
handler has built and not sent yet, and a report on `wire` is "older" when a newer
one came before it, "unseen" when it directly follows another, which the feed
takes for a repetition.  A render takes several messages off the wire and acts on
the last the feed took, or on none.  A request reaches the bridge (`UpArrives`),
finds no host (`UpOffline`), or is lost with a driver that has ended
(`UpDropped`).  `missed` and `unanswered` are histories: what the page acted on
is not the newest report of those rendered; the pending action's request or
answer was lost.  The backend does not restart in this module.

**ProjectRouting.**  `folders` and `picker` are the windows', `link` the
connection each uses, `wire` the reports on their way; the registry and the
selection are `RoomSelection`'s; `queue` holds commands that were resolved;
`seen` is the last snapshot a phone's page acted on, however long ago.  A
command is resolved twice: to a connection and a path when it is routed, to a
folder by the window it reaches.

## Runs

| Run | Specification, instance | Shows |
| --- | --- | --- |
| `relay` | `RelayCore`; 2 hosts, 2 sessions, 3 devices, 2 codes, cap 1, 2 messages per session, restarts | pairing, replay, trimming and revocation keep their promises under any order of calls |
| `delivery` | `Delivery`, fair; 1 phone, 2 sockets, 2 tasks, 2 messages, 1 restart | nothing sent to an open socket after its resume is lost on the way to the page's feed; `Delivery` implements `Mailbox`, its liveness included |
| `driver_sessions` | `DriverLifecycle`, fair; a desktop and a phone, 4 sessions, 3 tasks, 2 commands | one consumer, `_running` is true, commands in order, nothing lost before the first shutdown, sync tasks end |
| `room_selection` | `RoomSync`, fair; 2 hosts, 1 phone, 3 projects | a snapshot agrees with itself, selections are not stolen, orphans are replaced while the room has a sync |
| `codex_runs` | `CodexExec`; 3 runs, 2 messages each | marks, entries and replies of crossing processes; what a kill request still reaches |
| `bridge` | `BridgeConnection`, fair; 2 calls, 3 sockets | never stranded at a valid address, a disconnect lasts, exclusive, comes back |
| `approvals` | `ApprovalFlow`; 2 pages, 1 runtime, 2 requests, 2 numbered messages, 1 restart | nothing is offered twice, no tap answers a second question |
| `approvals_offered` | 1 page, 2 runtimes, 3 numbered messages | **violation**: a waiting question an up-to-date page does not show |
| `shell` | `ShellExecution`, fair; 2 scripts, 2 terminals, a cap of 1 line, 3 lines | transcripts are complete, in order and end with the own verdict; a wait for integration ends, a reported end is answered |
| `runtime_control` | `RuntimeControl`; a terminal runtime and an extension, 2 messages in hand, 2 terminals | the last report is what a report would say; no runtime gets a second terminal |
| `runtime_deck` | `RuntimeDeck`, fair; the same, 1 message in hand, renders of 2, 1 step of others or 1 late snapshot | the buttons are honest once the newest report was acted on, a pending action is kept, and gets its answer unless that or the request was lost |
| `project_routing` | `ProjectRouting`, fair; 2 windows, 3 connections, 1 phone, 2 folders, 2 changes | a command runs where it was meant to, the registry comes to show what is open |

### Bounds, and why they are enough

The hazards are crossings of two or three actors, and each instance has them.
Two hosts or tasks suffice for "the other one"; three processes or sockets for
"the old one dies after the new one was replaced in turn".  In `relay` a cap of
one makes the second message trim, codes of no more than one second expire
within the clock's two, and one code per session is enough for it to be
consumed, expire or be drawn again.  In `delivery` two tasks overtake each
other, two buffered messages make a replay that broadcasts can interrupt, and
the two sockets are a connection and a reconnection; a message trimmed before a
resume is promised to nobody, and `Size` is a parameter of the theorems.  So is
`Says`: the run has one function, by which the first life says two different
things and the second says the second of them twice, so that a message can repeat
its neighbour, repeat one of the life before, or reuse a number for something
else.  In
`driver_sessions` four sessions allow a shutdown, a reopening before the
cancelled task is gone, and one more.  In `shell` two scripts share a terminal or
get one each after the first is closed, and three lines with a cap of one are a
line, the line that is announced as cut, and one that must not be.  In `approvals`
two pages are a page and its reload as well as two phones; numbered messages
that are no requests are alike, so that a few of them stand for any number.  In
`runtime_control` two messages cross at every suspension, and two terminals are
one that is closed or still opening and its successor; `codex` is a terminal
runtime that also has a process, `cline` an extension.  In `runtime_deck` a
render of two is one that masks, or drops the second of two reports; whoever acts
or sends a snapshot waits while `MaxWire` messages are on their way to the phone,
so that the wire stays short; a request may arrive beside one message more, so
that its answer can come behind a message of somebody else.  In `project_routing` two
windows of one machine share the id of a window without folders and may share a
folder; the third connection is a reconnection beside its broken predecessor;
two changes are a change and a break, or a change while a picker is open.
An announcement lists up to `MaxListed` projects, two in both runs: the one that
is meant and another, in either order.
Every bounded constant appears in a guard and is marked "bound:" where it is
declared; the theorems hold for every value.

`CHECK_DEADLOCK FALSE` stands where every bound may be used up, so that the
bounded model stops though the program would go on; `bridge` and
`runtime_control` have no such bound and check for deadlock.

### Fairness

Only for what the event loops schedule by themselves.  `Delivery`: while a
send, a receipt or a handler is ready one is taken (weak fairness of their
disjunction); sockets need not stay open.  `DriverLifecycle`: weak fairness per
task and per handler step, as asyncio's ready queue is first in, first out; no
client need connect or send.  `RoomSync`: the periodic sync, for as long as
the room has one; nothing brings back a sync that ended.
`BridgeConnection`: the retry timer fires, a connecting socket opens or fails,
a closing one closes; no user action is assumed and the backend may stay down.
`ShellExecution`: the timer fires, and the output of an execution whose end was
reported ends too (VS Code's contract); no execution need end.
`RuntimeDeck`: a request is handled (by the bridge, the route or a driver that
drops it), messages are rendered, and what a handler waits for (the settings,
1200 ms, the clipboard, an open event) comes; no tap, no snapshot, no other actor
and no connection is assumed.  `ProjectRouting`: a report arrives unless its
connection breaks, a window without a connection opens one and reports, a broken
connection is found by its loop or by a failed send; nothing is assumed of the
phones or of the periodic sync.  In `Mailbox`: a promised message is given to the
page, as long as its phone listens.
`RelayCore`, `CodexExec`, `ApprovalFlow` and `RuntimeControl` state safety only.

## Refinement

`Delivery` implements `Mailbox`: the property `KeepsItsPromises` is the whole
specification of `Mailbox` under the mapping `Box`.  TLC checks it on the
instance of `delivery`, the fairness of `Mailbox` included: every promised
message is given to a phone that goes on listening.  TLAPS proves the safety half for
every value of the constants (`Refines`): the initial state is one of `Mailbox`,
and each step is one of its steps or changes nothing it sees.  A restart of the
backend is a restart of the mailbox, which keeps the pages; sends, replays and
receipts are stutters, and so is an updater, except where it appends a message to
the feed or drops it as a repetition (`Give`).  What `Mailbox` does not promise is
as much part of it: a resume gets what is newer than the number it names, and a
message whose number the page holds from an earlier life is not given.

`RuntimeDeck` implements `RuntimeControl` with the same variables: a step of the
page or of the wire changes nothing of the bridge, and each step of the bridge is
one of that module (`DeckIsControl`, proved).  So every theorem of
`RuntimeControl` holds of the composition.

## Findings

* `approvals_offered`: what calls itself a queue is one slot, filled from the
  last message of a render only (useApprovalQueue.js:8, App.jsx:180).

### Weak points that no run states

What the models show beyond the properties, so that a reader of the properties
knows what they do not promise.

Delivery and driver:

* `dispatch_command` returns silently when the driver is not running
  (vscode_driver.py:129).  A shut-down room leaves a STOP in the queue, so after
  a reopening the driver may end at once; the room is still told that the prompt
  was dispatched, the approval forwarded or the kill sent.
* The cursor is a maximum over everything received (useOpenVibeWS.js:23).  A
  broadcast that reaches a reconnected phone before its resume moves it past
  messages the phone missed; `Mailbox!Resume` promises only what is newer than
  the cursor, and README.md:35 of the repository speaks of a catch-up.
* After a restart of the backend the numbers begin again (message_buffer.py:16)
  while the page keeps its feed and its cursor.  A new message whose number the
  feed holds is dropped (messageFeed.js:101), and a phone whose cursor is ahead
  of the new numbering is replayed nothing, until the page is loaded again.
* Consecutive messages that compare equal are dropped by the feed
  (messageFeed.js:48): lines of output, `session.state` and `capabilities`
  messages alike; and of the messages of one render only the last is acted on.

Bridge:

* A late close event makes the bridge forget the running Codex process
  (codexExecRuntime.ts:137).  A kill then interrupts a terminal, if there is one,
  and answers ok.  `RunningIsRemembered` names this as the only exception, and
  only for a close event that was still to come when the run started;
  docs/productization_roadmap.md:31 wants to depend on it.
* A connect command with an address that `new WebSocket` refuses (the setting,
  the profile and the prompt are not checked, bridgeSettings.ts:17) has cleared
  the timer and closed the socket by then: nothing is retried and the bar stays
  at `connecting` until the user connects again (backendConnection.ts:158-168).
* The lines of a script are typed `command` by the bridge (shellExecution.ts:144,
  214), which is also the old name of a prompt in the backend (protocol.py:189).
* A script whose terminal is closed may never be answered: the wait for its end
  has no timer (shellExecution.ts:89).
* A message sent while the bridge's socket is down is lost (backendConnection.ts:187).
  A connect command whose token prompt is dismissed sets the bar to `configure`
  although another connection may be up (backendConnection.ts:154).
* A settings edit by the user is reported to nobody until the next report.
* A prompt to a terminal that is starting waits 1200 ms and may be overtaken by
  a later one; a terminal that was closed meanwhile swallows the text.

Rooms and projects:

* A command for a project that is gone goes to the best other project and moves
  the selection there (connection_manager.py:235).
* A socket that a failed send evicts is announced to nobody
  (connection_manager.py:376).  If it was the last one, the sync ends while the
  broadcasting task waits on, and a room that fills again has no periodic sync
  (main.py:422): an orphaned selection stays until somebody acts.
* The periodic sync sends `session.state` only, which the feed drops when it
  follows another (messageFeed.js:48, 131): a phone may show an old list for as
  long as nothing else is sent, and no property says it catches up.
* A host that reconnects is registered beside its old socket until that one
  fails (connection_manager.py:206); a command resolved while the old one is
  first in the room goes to it and is lost.
* A command routed while no project is known goes to every desktop host.
* Windows of one machine share the id of a window without folders; commands
  carry no host id, so a window's match by project id is never used, and a
  command for a folder that was closed meanwhile runs in the first folder.

Phone:

* An error event of any prompt to the same runtime is shown as the failure of
  the pending launch; a pending action whose answer is lost stays pending, and so
  does one whose request a driver that has ended dropped.
* A snapshot of another handler, built before two awaited sends (main.py:354-397),
  may bring an older report after a newer one, or make the feed drop the newer one
  because it follows directly; with a masked report these leave the buttons wrong
  until the next report.
* A refused form with an empty token overwrites the saved profile
  (ConnectionSetupView); the `ws_host` of a link is ignored when a profile is
  saved (connectionConfig.js:136).

## Proofs

Nearly all theorems are of the form `Spec => []Inv` or `Spec => [][A]_vars`, for
every value of the constants under the module's named assumption.  Each follows from
an inductive invariant that `Init` establishes and every action keeps; the proof
has one step or lemma per action.

* `RelayCoreProofs`: retained window, replay without gap, cursor behind its
  session, that revocation is final, and one phone per code.  The window must be
  known to have no hole for the gap property, and ids are never issued twice for
  the revocation.  The last is a count: `Fits` says two finite sets together are
  no larger than a number, and each way a call can move a code or a phone between
  them is one lemma about cardinalities.
* `DeliveryProofs`: types, an open socket loses nothing, and the step simulation
  of `Mailbox`, whatever the messages say.  The invariant says that the page
  deals only with messages that were numbered (`Paged`), that a socket has one
  phone and only an open one a request (`Owned`), where the key exchange of each
  phone and socket is (`Handshake`: the key's reply comes once, before any
  replay; a resume, and a debt, only when the phone is ready), that nothing is
  on its way on a socket that is not open (`Quiet`), that every owed message is
  under way, queued or settled in the feed (`Lossless`), and that, until a
  restart, the page is done with the message whose number the cursor is, or a
  resume names (`Reading`), which `Mailbox!Resume` needs.
* `RuntimeProofs`: of the bridge, types, the current report, one terminal for a
  runtime.  A report is a function of four variables (`ReportDependsOn`), so that a
  step either changes none of them, or reports, or is one of the two exceptions.
  That the active runtime is a runtime needs the least index of a set, from the
  library's well-foundedness of the numbers.  Of the page, types, honest buttons
  and that a pending action stays until its answer.  `ButtonsAreHonest` speaks of a
  wire without messages only and is not inductive; `InStep` says of every wire
  that its newest report is the bridge's last, and that the page holds that one
  when none is on its way, unless it missed it; the invariant adds that a snapshot
  held back says the same until a report passes it, after which it is "older".
* `DriverLifecycleProofs`: type correctness, one consumer, `_running` is true,
  commands in order, nothing dropped before the first shutdown.  The invariant
  relates the task's place, the cancellations under way and the finalizers: a
  task that is no longer `active` but still consuming is one whose cancellation
  is scheduled, and only its own finalizer resets `_running` afterwards.
* `BridgeProofs`: of the Codex processes, the mark and the entry mean what they say,
  which running process a kill reaches, no message twice, and silence only beside a
  straggler.  Needs that runs are numbered in order, that a message held for its
  newline was printed and not sent, that a failed spawn was told, and that whoever
  is still to close was dying when every later run started.  Of the connection,
  never stranded, a disconnect lasts, exclusive.  Needs that the current socket is
  wired; beyond that the four properties support each other.
* `ApprovalFlowProofs`: types, nothing offered twice, one tap one answer.  The
  invariant says a request is numbered at most once per backend start and a page
  that knows it has its number in the feed (`FeedInv`), that what waits for the
  effect was neither shown nor answered (`OfferInv`), that an answer is in one
  place (`OnceInv`) and that a runtime waits until it is settled (`WaitInv`).
* `ShellExecutionProofs`: types, complete transcripts with the own verdict.  The
  invariant describes a call by where it is (`CallInv`): nothing is known of an
  execution that was not started, what was said while executing is `Said` of the
  lines read, and one of the two ends is missing as long as it executes.  The
  lemma that reading one more line says what is emitted for it (`SaidNext`) is
  where the cap comes in.

* `ProjectRoutingProofs`: of the rooms, types, that a snapshot agrees with
  itself, that a reader of the active project gets an announced one, and that
  nobody steals a selection, neither in the registry alone nor with windows,
  lost connections and phones around it (`OnlyPhonesMoveTheRoom`, from the same
  lemma `OthersKeep`).  `SyncIsSelection` says that a room with its tasks is a
  room, so that the first three hold of `RoomSync` too, which the run checks.
  The others rest on `Best`, which compares hosts and projects by four criteria:
  `BestIs` takes one criterion per step, each of which leaves some entry over
  and keeps only entries it was given; `BestIsOne` says that one entry alone is
  chosen.  `RemoveAtIs` and its companions say which places of an injective list
  remain.  Of the windows and phones, types, that the registry is current, and
  that a command runs where it was meant to.  `RegistryIsCurrent` speaks of a
  window with nothing on its way; the invariant (`RInv`) says of every window
  that the last report on its way is what it has open (`LastIsCurrent`), that
  reports travel only on the connection a window uses, and that this connection
  is registered and its own (`LinksRight`).

Every safety property of the runs is a theorem.  Only model-checked are the
liveness properties (`FirstSessionSendsAll`, `SyncTasksEnd`, `OrphanIsReplaced`,
`ComesBack`, `NoCallIsForgotten`, `PendingIsAnswered`, `RegistryShowsWhatIsOpen`, and
the liveness half of `KeepsItsPromises`): fairness unfolds to ENABLED, which the
proof system does not handle.  The violation is a TLC trace.  No proof is by induction
over data, for which no installed prover has a rule; where one would be natural
(the least place of a list, the last report of a queue) the proof goes through
the least element of a set or the length of the sequence.

## Plan

Done, in this order: `RelayCore`, `Delivery`, `DriverLifecycle`,
`RoomSelection`, `CodexExec`, `BridgeConnection`, `ApprovalFlow`,
`ShellExecution`, `RuntimeControl`, `RuntimeDeck`, `ProjectRouting`, `Mailbox`
with the refinement, `RoomSync`, and the proofs above.  What would come next:

1. `ApprovalFlow`'s environment derived from `Mailbox` by a second refinement.
2. The driver's queue of `DriverLifecycle` in place of `ProjectRouting`'s, so that
   a command dropped after a shutdown is part of the routing properties.
3. `RuntimeDeck` over `Delivery`, so that a restart of the backend is part of what
   the buttons show.

## Not modelled

The cryptography (a message can be read or not); the scan of projects, files and
the static app; pairing page, preflight and the connection profile (views and
sequential data handling); telemetry, phrase store, launcher and scripts; other
drivers; all wording and layout; the rate limiter, which only drops log lines
before they are numbered.  The relay's routes run on a thread pool without a
lock, so that its calls may overlap: nothing in the running system makes two at
once and no document says what should happen then, so that splitting them would
only restate that there is no lock.  The answer to an approval names no runtime
(extension.ts:349): the code gives no guarantee to check, and
`AnswersMeetTheirQuestion` says so in its exceptions.  The runtimes, the
terminals, the operating system's processes and sockets, React and the user are
external and modelled as nondeterministic.
