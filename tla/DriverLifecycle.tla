--------------------------- MODULE DriverLifecycle ---------------------------
(***************************************************************************)
(* The path of a phone's command to the desktop: websocket sessions that   *)
(* open and close (backend/websocket_lifecycle.py), the routes that        *)
(* dispatch commands (backend/protocol_router.py), the one driver with its *)
(* queue (src/domain/services/vscode_driver.py) and the task per session   *)
(* that runs it (backend/main.py, backend/driver_output.py).               *)
(*                                                                         *)
(* The backend is one asyncio loop with one room (the accepted token).  A  *)
(* step runs to the next point where its task can suspend: waiting for the *)
(* queue, sending to a peer, or the poll of _ensure_driver_running.  A     *)
(* task that is created, woken or cancelled runs in the loop's next turn,  *)
(* in order; what comes from a socket or a timer comes after that.         *)
(***************************************************************************)
EXTENDS Integers, Sequences, FiniteSets

CONSTANTS
  Client,     \* websocket clients; each may come back
  Host,       \* those of them that are desktop hosts
  MaxTask,    \* bound: broadcast tasks created
  MaxCommand, \* bound: commands dispatched
  MaxOpens,   \* bound: sessions opened
  Stop,       \* the "STOP" item of the driver's queue
  None

ASSUME DriverAssumption ==
  /\ Host \subseteq Client
  /\ MaxTask \in Nat /\ MaxCommand \in Nat /\ MaxOpens \in Nat
  /\ Stop \notin Nat /\ None \notin Nat

Task == 1..MaxTask
Command == 1..MaxCommand

VARIABLES
  room,       \* rooms[token]: the clients registered; the room is gone when empty
  handler,    \* per client, where its websocket handler is
  running,    \* VSCodeDriver._running
  queue,      \* VSCodeDriver._message_queue
  active,     \* active_broadcast_tasks[token], and state_sync_tasks[token] beside it
  task,       \* per broadcast task, where it is
  cancelled,  \* tasks with a cancellation not yet delivered
  finalizers, \* abandoned start() generators whose aclose() is scheduled
  syncing,    \* the _periodic_state_sync tasks alive, named like the task created beside
  sent,       \* commands the driver's task has begun to send to the desktop, in order
  dropped,    \* commands dispatch_command returned from without queueing
  issued,     \* commands dispatched so far
  stops,      \* history: driver.stop() calls
  opens       \* history: sessions opened

vars == <<room, handler, running, queue, active, task, cancelled, finalizers,
          syncing, sent, dropped, issued, stops, opens>>
driverVars == <<running, queue, active, task, cancelled, finalizers, syncing, stops>>
commandVars == <<sent, dropped, issued>>

TypeOK ==
  /\ room \subseteq Client
  /\ handler \in [Client -> {"out", "joining", "in", "announcing", "ensured", "leaving"}]
  /\ running \in BOOLEAN
  /\ queue \in Seq(Command \cup {Stop})
  /\ active \in Task \cup {None}
  /\ task \in [Task -> {"unused", "new", "started", "get", "emit", "stopped", "done"}]
  /\ cancelled \subseteq Task /\ finalizers \subseteq Task /\ syncing \subseteq Task
  /\ sent \in Seq(Command) /\ dropped \subseteq Command /\ issued \in 0..MaxCommand
  /\ stops \in Nat /\ opens \in 0..MaxOpens

Init ==
  /\ room = {}
  /\ handler = [c \in Client |-> "out"]
  /\ running = FALSE
  /\ queue = <<>>
  /\ active = None
  /\ task = [t \in Task |-> "unused"]
  /\ cancelled = {} /\ finalizers = {} /\ syncing = {}
  /\ sent = <<>> /\ dropped = {} /\ issued = 0
  /\ stops = 0 /\ opens = 0

HostInRoom == room \cap Host # {}

(* Nothing is left to run in the loop's present turn. *)
TurnOver ==
  /\ cancelled = {} /\ finalizers = {}
  /\ \A t \in Task : task[t] # "new"

-----------------------------------------------------------------------------
(* The broadcast task: broadcast_driver_packets over driver.start(). *)

(* Variants of the task's steps, for the mutants of PROJECT.json. *)
StartTaskRunsLate(t) ==
  /\ task[t] = "new" /\ cancelled \subseteq {t}
  /\ IF t \in cancelled \/ running
     THEN task' = [task EXCEPT ![t] = "done"]
     ELSE task' = [task EXCEPT ![t] = "started"]
  /\ cancelled' = cancelled \ {t}
  /\ UNCHANGED <<room, handler, running, queue, active, finalizers, syncing, stops, opens,
                 commandVars>>

CommandSentRequeues(t) ==
  /\ task[t] = "emit"
  /\ IF t \in cancelled
     THEN task' = [task EXCEPT ![t] = "done"] /\ queue' = <<sent[Len(sent)]>> \o queue
     ELSE task' = [task EXCEPT ![t] = IF running THEN "get" ELSE "stopped"] /\ UNCHANGED queue
  /\ cancelled' = cancelled \ {t}
  /\ UNCHANGED <<room, handler, running, active, finalizers, syncing, stops, opens, commandVars>>

CommandSentOnce(t) ==
  /\ task[t] = "emit"
  /\ task' = [task EXCEPT ![t] = "stopped"]
  /\ running' = FALSE
  /\ cancelled' = cancelled \ {t}
  /\ UNCHANGED <<room, handler, queue, active, finalizers, syncing, stops, opens, commandVars>>

SyncEndsCurrent(t) ==
  /\ t \in syncing /\ t = active /\ room = {}
  /\ syncing' = syncing \ {t}
  /\ UNCHANGED <<room, handler, running, queue, active, task, cancelled, finalizers, stops,
                 opens, commandVars>>

(* The first turn of the task.  Cancellations requested earlier are        *)
(* delivered earlier.                                                      *)
StartTask(t) ==
  /\ task[t] = "new" /\ cancelled \subseteq {t}
  /\ IF t \in cancelled \/ running
     THEN task' = [task EXCEPT ![t] = "done"] /\ UNCHANGED running
     ELSE task' = [task EXCEPT ![t] = "started"] /\ running' = TRUE
  /\ cancelled' = cancelled \ {t}
  /\ UNCHANGED <<room, handler, queue, active, finalizers, syncing, stops, opens, commandVars>>

(* The loop of start() goes on, or leaves through its finally clause. *)
Continue(t) ==
  /\ task' = [task EXCEPT ![t] = IF running THEN "get" ELSE "stopped"]
  /\ UNCHANGED <<running, finalizers>>

(* The "started" status is out.  A cancellation leaves the generator at a  *)
(* yield outside its try, so nothing resets _running.                      *)
StartedSent(t) ==
  /\ task[t] = "started"
  /\ IF t \in cancelled
     THEN task' = [task EXCEPT ![t] = "done"] /\ UNCHANGED <<running, finalizers>>
     ELSE Continue(t)
  /\ cancelled' = cancelled \ {t}
  /\ UNCHANGED <<room, handler, queue, active, syncing, stops, opens, commandVars>>

(* The task waits for the queue: a cancellation there runs the finally     *)
(* clause, and the "stopped" status it yields is sent as usual.            *)
TakeItem(t) ==
  /\ task[t] = "get"
  /\ \/ /\ t \in cancelled
        /\ task' = [task EXCEPT ![t] = "stopped"]
        /\ running' = FALSE
        /\ UNCHANGED <<queue, sent>>
     \/ /\ t \notin cancelled /\ queue # <<>>
        /\ queue' = Tail(queue)
        /\ IF Head(queue) = Stop
           THEN task' = [task EXCEPT ![t] = "stopped"] /\ running' = FALSE /\ UNCHANGED sent
           ELSE /\ task' = [task EXCEPT ![t] = "emit"]
                /\ sent' = Append(sent, Head(queue))
                /\ UNCHANGED running
  /\ cancelled' = cancelled \ {t}
  /\ UNCHANGED <<room, handler, active, finalizers, syncing, stops, opens, dropped, issued>>

(* A command is out.  A cancellation while it was being sent abandons the  *)
(* generator inside its try: its finally clause runs when the loop closes  *)
(* it, later.                                                              *)
CommandSent(t) ==
  /\ task[t] = "emit"
  /\ IF t \in cancelled
     THEN /\ task' = [task EXCEPT ![t] = "done"]
          /\ finalizers' = finalizers \cup {t}
          /\ UNCHANGED running
     ELSE Continue(t)
  /\ cancelled' = cancelled \ {t}
  /\ UNCHANGED <<room, handler, queue, active, syncing, stops, opens, commandVars>>

StoppedSent(t) ==
  /\ task[t] = "stopped"
  /\ task' = [task EXCEPT ![t] = "done"]
  /\ cancelled' = cancelled \ {t}
  /\ UNCHANGED <<room, handler, running, queue, active, finalizers, syncing, stops, opens,
                 commandVars>>

CloseGenerator(t) ==
  /\ t \in finalizers
  /\ finalizers' = finalizers \ {t}
  /\ running' = FALSE
  /\ UNCHANGED <<room, handler, queue, active, task, cancelled, syncing, stops, opens,
                 commandVars>>

(* _periodic_state_sync ends when it finds the room gone. *)
SyncEnds(t) ==
  /\ t \in syncing /\ room = {}
  /\ syncing' = syncing \ {t}
  /\ UNCHANGED <<room, handler, running, queue, active, task, cancelled, finalizers, stops,
                 opens, commandVars>>

-----------------------------------------------------------------------------
(* The websocket handlers *)

(* _ensure_driver_running: a task that is alive is left as it is, else a   *)
(* new pair of tasks overwrites the old entries.                           *)
ActiveAlive == active # None /\ task[active] # "done"
CreateTask ==
  \E t \in Task :
    /\ task[t] = "unused" /\ \A u \in 1..(t - 1) : task[u] # "unused"
    /\ task' = [task EXCEPT ![t] = "new"]
    /\ active' = t
    /\ syncing' = syncing \cup {t}
    /\ UNCHANGED <<running, queue, cancelled, finalizers, stops>>

Open(c) ==
  /\ handler[c] = "out" /\ opens < MaxOpens
  /\ opens' = opens + 1
  /\ room' = room \cup {c}
  /\ \/ /\ ActiveAlive
        /\ handler' = [handler EXCEPT ![c] = "in"]
        /\ UNCHANGED driverVars
     \/ /\ ~ActiveAlive
        /\ handler' = [handler EXCEPT ![c] = "joining"]
        /\ CreateTask
  /\ UNCHANGED commandVars

(* The poll of _ensure_driver_running ends when the driver runs, or after  *)
(* a second whether it runs or not.                                        *)
Joined(c) ==
  /\ handler[c] = "joining" /\ (running \/ TurnOver)
  /\ handler' = [handler EXCEPT ![c] = "in"]
  /\ UNCHANGED <<room, opens, driverVars, commandVars>>

(* dispatch_command returns without a word when the driver is not running. *)
Dispatch ==
  /\ issued < MaxCommand
  /\ issued' = issued + 1
  /\ IF running THEN queue' = Append(queue, issued') /\ UNCHANGED dropped
     ELSE dropped' = dropped \cup {issued'} /\ UNCHANGED queue
  /\ UNCHANGED <<running, active, task, cancelled, finalizers, syncing, stops, sent>>

(* route_prompt_submit first tells the room that the prompt is dispatched. *)
PromptSubmit(c) ==
  /\ handler[c] = "in" /\ TurnOver /\ issued < MaxCommand
  /\ handler' = [handler EXCEPT ![c] = "announcing"]
  /\ UNCHANGED <<room, opens, driverVars, commandVars>>

(* The rest of route_prompt_submit; and the whole of route_kill_request,   *)
(* route_command_dispatch, route_workspace_focus and                       *)
(* route_context_request, which begin here.                                *)
EnsureAndDispatch(c) ==
  /\ handler[c] = "announcing" \/ (handler[c] = "in" /\ TurnOver)
  /\ \/ /\ ~HostInRoom
        /\ handler' = [handler EXCEPT ![c] = "in"]
        /\ UNCHANGED <<driverVars, commandVars>>
     \/ /\ HostInRoom /\ ActiveAlive
        /\ handler' = [handler EXCEPT ![c] = "in"]
        /\ Dispatch
     \/ /\ HostInRoom /\ ~ActiveAlive
        /\ handler' = [handler EXCEPT ![c] = "ensured"]
        /\ CreateTask
        /\ UNCHANGED commandVars
  /\ UNCHANGED <<room, opens>>

EnsuredDispatch(c) ==
  /\ handler[c] = "ensured" /\ (running \/ TurnOver)
  /\ handler' = [handler EXCEPT ![c] = "in"]
  /\ Dispatch
  /\ UNCHANGED <<room, opens>>

(* route_approval_response does not ensure that the driver runs. *)
ApprovalResponse(c) ==
  /\ handler[c] = "in" /\ TurnOver
  /\ HostInRoom
  /\ Dispatch
  /\ UNCHANGED <<room, handler, opens>>

(* A send to a broken peer fails and unregisters it; its own handler goes on. *)
Evict(c) ==
  /\ c \in room
  /\ room' = room \ {c}
  /\ UNCHANGED <<handler, opens, driverVars, commandVars>>

(* Variants of the shutdown, for the mutants of PROJECT.json. *)
ShutdownKeepsTask ==
  /\ syncing' = syncing \ {active}
  /\ active' = None
  /\ running' = FALSE
  /\ queue' = Append(queue, Stop)
  /\ stops' = stops + 1
  /\ UNCHANGED <<task, cancelled, finalizers>>

ShutdownKeepsRunning ==
  /\ cancelled' = IF ActiveAlive THEN cancelled \cup {active} ELSE cancelled
  /\ syncing' = syncing \ {active}
  /\ active' = None
  /\ queue' = Append(queue, Stop)
  /\ stops' = stops + 1
  /\ UNCHANGED <<running, task, finalizers>>

(* _shutdown_room_tasks, with driver.stop(): the room is gone. *)
ShutdownRoomTasks ==
  /\ cancelled' = IF ActiveAlive THEN cancelled \cup {active} ELSE cancelled
  /\ syncing' = syncing \ {active}
  /\ active' = None
  /\ running' = FALSE
  /\ queue' = Append(queue, Stop)
  /\ stops' = stops + 1
  /\ UNCHANGED <<task, finalizers>>

(* close_websocket_session.  The last client tells nobody that it left, so *)
(* it shuts the tasks down in the same step; a client that was evicted     *)
(* returns early.                                                          *)
Close(c) ==
  /\ handler[c] = "in"
  /\ room' = room \ {c}
  /\ \/ /\ c \notin room
        /\ handler' = [handler EXCEPT ![c] = "out"]
        /\ UNCHANGED driverVars
     \/ /\ room = {c}
        /\ handler' = [handler EXCEPT ![c] = "out"]
        /\ ShutdownRoomTasks
     \/ /\ c \in room /\ room # {c}
        /\ handler' = [handler EXCEPT ![c] = "leaving"]
        /\ UNCHANGED driverVars
  /\ UNCHANGED <<opens, commandVars>>

(* The others have been told, and the room may be gone meanwhile. *)
CloseTold(c) ==
  /\ handler[c] = "leaving"
  /\ handler' = [handler EXCEPT ![c] = "out"]
  /\ IF room = {} THEN ShutdownRoomTasks ELSE UNCHANGED driverVars
  /\ UNCHANGED <<room, opens, commandVars>>

-----------------------------------------------------------------------------
TaskStep(t) ==
  StartTask(t) \/ StartedSent(t) \/ TakeItem(t) \/ CommandSent(t) \/ StoppedSent(t)

Next ==
  \/ \E t \in Task : TaskStep(t) \/ CloseGenerator(t) \/ SyncEnds(t)
  \/ \E c \in Client :
       Open(c) \/ Joined(c) \/ PromptSubmit(c) \/ EnsureAndDispatch(c)
         \/ EnsuredDispatch(c) \/ ApprovalResponse(c) \/ Evict(c) \/ Close(c) \/ CloseTold(c)

(* The loop runs every ready task; clients need not come or do anything. *)
Fairness ==
  /\ \A t \in Task : WF_vars(TaskStep(t)) /\ WF_vars(CloseGenerator(t)) /\ WF_vars(SyncEnds(t))
  /\ \A c \in Client :
       /\ WF_vars(Joined(c)) /\ WF_vars(EnsuredDispatch(c)) /\ WF_vars(CloseTold(c))
       /\ WF_vars(handler[c] = "announcing" /\ EnsureAndDispatch(c))

Spec == Init /\ [][Next]_vars
FairSpec == Spec /\ Fairness

-----------------------------------------------------------------------------
(* Properties *)

Consuming(t) == task[t] \in {"started", "get", "emit"}

(* However sessions open and close around a task that is being cancelled,   *)
(* two tasks never take items from the driver's queue.                      *)
OneConsumer == \A t, u \in Task : Consuming(t) /\ Consuming(u) => t = u

(* _running never stays TRUE without a task that runs the driver: start()   *)
(* would return at once ever after and every command would be queued for    *)
(* nobody.                                                                  *)
RunningHasConsumer == running => \E t \in Task : Consuming(t) /\ t \notin cancelled

(* Commands reach the desktop in the order they were queued, none twice,    *)
(* and never one that was dropped.                                          *)
SentInOrder ==
  /\ \A i, j \in DOMAIN sent : i < j => sent[i] < sent[j]
  /\ \A i \in DOMAIN sent : sent[i] \notin dropped

(* Until a room has been shut down once, no command is dropped.             *)
FirstSessionDropsNothing == stops = 0 => dropped = {}

Queued(n) == \E i \in DOMAIN queue : queue[i] = n

(* Until a room has been shut down once, every queued command is sent.      *)
FirstSessionSendsAll ==
  \A n \in Command : (Queued(n) /\ stops = 0) ~> (~Queued(n) \/ stops > 0)

(* Every state-sync task, those whose entry was overwritten too, ends once  *)
(* the room stays empty.                                                    *)
SyncTasksEnd == (<>[](room = {})) => <>[](syncing = {})

=============================================================================
