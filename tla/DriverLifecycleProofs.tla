------------------------ MODULE DriverLifecycleProofs ------------------------
(***************************************************************************)
(* For any clients, tasks and commands: the driver never has two           *)
(* consumers, and it never calls itself running without one.               *)
(***************************************************************************)
EXTENDS DriverLifecycle, TLAPS

\* The task functions keep their types; what the two results need of TypeOK.
TasksTyped ==
  /\ task \in [Task -> {"unused", "new", "started", "get", "emit", "stopped", "done"}]
  /\ active \in Task \cup {None}
  /\ cancelled \subseteq Task

\* A task that will still consume and was not cancelled is the one on record:
\* overwriting or dropping the record never loses a live task.
Alive(t) == task[t] \in {"new", "started", "get", "emit"}
LiveIsActive == \A t \in Task : Alive(t) /\ t \notin cancelled => active = t

IInv == TasksTyped /\ LiveIsActive /\ OneConsumer /\ RunningHasConsumer

\* None stands for no task.
LEMMA NoneIsNoTask == None \notin Task
  BY DriverAssumption DEF Task

\* What the steps of a task do to the others: nothing.
OnlyTask(t, state) == task' = [task EXCEPT ![t] = state]

\* The task on record is as it was when only other tasks move, the witness of
\* RunningHasConsumer included.
LEMMA QuietStepKeeps ==
  ASSUME IInv, task' = task, active' = active, cancelled' = cancelled,
         running' = running \/ running' = FALSE
  PROVE  IInv'
BY DEF IInv, TasksTyped, LiveIsActive, Alive, OneConsumer, RunningHasConsumer, Consuming

\* The initial state has no task at all.
LEMMA InitIInv == Init => IInv
BY DEF Init, IInv, TasksTyped, LiveIsActive, Alive, OneConsumer, RunningHasConsumer, Consuming

\* A task that ends, or goes on consuming, keeps the invariant when running
\* stays TRUE only beside an uncancelled consumer.
LEMMA TaskMoves ==
  ASSUME IInv, NEW t \in Task, NEW state \in {"get", "emit", "stopped", "done"},
         OnlyTask(t, state), active' = active, cancelled' = cancelled \ {t},
         state \in {"get", "emit"} => Consuming(t) /\ t \notin cancelled,
         running' => \/ running /\ t \in cancelled
                     \/ running /\ ~Consuming(t)
                     \/ state \in {"get", "emit"}
  PROVE  IInv'
<1>1. TasksTyped'
  BY DEF IInv, TasksTyped, OnlyTask
<1>2. task'[t] = state /\ \A u \in Task : u # t => task'[u] = task[u]
  BY DEF IInv, TasksTyped, OnlyTask
<1>3. LiveIsActive'
  BY <1>2 DEF IInv, LiveIsActive, Alive, Consuming
<1>4. OneConsumer'
  BY <1>2 DEF IInv, OneConsumer, Consuming
<1>5. RunningHasConsumer'
  <2> SUFFICES ASSUME running' PROVE \E u \in Task : Consuming(u)' /\ u \notin cancelled'
    BY DEF RunningHasConsumer
  <2>1. CASE state \in {"get", "emit"}
    BY <2>1, <1>2 DEF Consuming
  <2>2. CASE running /\ (t \in cancelled \/ ~Consuming(t))
    <3>1. PICK w \in Task : Consuming(w) /\ w \notin cancelled
      BY <2>2 DEF IInv, RunningHasConsumer
    <3>2. w # t
      BY <3>1, <2>2
    <3> QED BY <3>1, <3>2, <1>2 DEF Consuming
  <2> QED BY <2>1, <2>2
<1> QED BY <1>1, <1>3, <1>4, <1>5 DEF IInv

\* The first turn of a task: it starts only when every cancellation requested
\* before has been delivered, so no other task consumes.
LEMMA StartTaskKeeps ==
  ASSUME IInv, NEW t \in Task, StartTask(t)
  PROVE  IInv'
<1>1. task[t] = "new" /\ cancelled \subseteq {t} /\ cancelled' = cancelled \ {t} /\ active' = active
  BY DEF StartTask
<1>2. CASE t \in cancelled \/ running
  <2>1. OnlyTask(t, "done") /\ running' = running /\ ~Consuming(t)
    BY <1>1, <1>2 DEF StartTask, OnlyTask, Consuming
  <2> QED BY <1>1, <2>1, TaskMoves
<1>3. CASE t \notin cancelled /\ ~running
  <2>1. task' = [task EXCEPT ![t] = "started"]
    BY <1>3 DEF StartTask
  <2>2. task'[t] = "started" /\ \A u \in Task : u # t => task'[u] = task[u]
    BY <2>1 DEF IInv, TasksTyped
  <2>3. cancelled = {}
    BY <1>1, <1>3
  <2>4. \A u \in Task : ~Consuming(u)
    BY <1>1, <2>3, NoneIsNoTask DEF IInv, LiveIsActive, Alive, Consuming
  <2>5. TasksTyped'
    BY <1>1, <2>1 DEF IInv, TasksTyped
  <2>6. LiveIsActive'
    BY <1>1, <2>2, <2>3 DEF IInv, LiveIsActive, Alive
  <2>7. OneConsumer' /\ RunningHasConsumer'
    BY <1>1, <2>2, <2>3, <2>4 DEF OneConsumer, RunningHasConsumer, Consuming
  <2> QED BY <2>5, <2>6, <2>7 DEF IInv
<1> QED BY <1>2, <1>3

\* Every other step of a task, in its own turn or when it is cancelled.
LEMMA TaskStepKeeps ==
  ASSUME IInv, NEW t \in Task, TaskStep(t)
  PROVE  IInv'
<1>1. CASE StartTask(t)
  BY <1>1, StartTaskKeeps
<1>2. CASE StartedSent(t) \/ CommandSent(t)
  <2>1. active' = active /\ running' = running /\ cancelled' = cancelled \ {t} /\ Consuming(t)
    BY <1>2 DEF StartedSent, CommandSent, Continue, Consuming
  <2>2. CASE t \in cancelled
    <3>1. OnlyTask(t, "done")
      BY <1>2, <2>2 DEF StartedSent, CommandSent, OnlyTask
    <3> QED BY <2>1, <2>2, <3>1, TaskMoves
  <2>3. CASE t \notin cancelled /\ running
    <3>1. OnlyTask(t, "get")
      BY <1>2, <2>3 DEF StartedSent, CommandSent, Continue, OnlyTask
    <3> QED BY <2>1, <2>3, <3>1, TaskMoves
  <2>4. CASE t \notin cancelled /\ ~running
    <3>1. OnlyTask(t, "stopped")
      BY <1>2, <2>4 DEF StartedSent, CommandSent, Continue, OnlyTask
    <3> QED BY <2>1, <2>4, <3>1, TaskMoves
  <2> QED BY <2>2, <2>3, <2>4
<1>3. CASE TakeItem(t)
  <2>1. active' = active /\ cancelled' = cancelled \ {t} /\ Consuming(t)
    BY <1>3 DEF TakeItem, Consuming
  <2>2. \/ OnlyTask(t, "stopped") /\ ~running'
        \/ OnlyTask(t, "emit") /\ t \notin cancelled
    BY <1>3 DEF TakeItem, OnlyTask
  <2> QED BY <2>1, <2>2, TaskMoves
<1>4. CASE StoppedSent(t)
  <2>1. /\ active' = active /\ running' = running /\ cancelled' = cancelled \ {t}
        /\ ~Consuming(t) /\ OnlyTask(t, "done")
    BY <1>4 DEF StoppedSent, Consuming, OnlyTask
  <2> QED BY <2>1, TaskMoves
<1> QED BY <1>1, <1>2, <1>3, <1>4 DEF TaskStep

\* A new task takes the record only of a task that is done.
LEMMA CreateTaskKeeps ==
  ASSUME IInv, CreateTask, ~ActiveAlive
  PROVE  IInv'
<1>1. PICK t \in Task : /\ task[t] = "unused" /\ task' = [task EXCEPT ![t] = "new"]
                        /\ active' = t
    BY DEF CreateTask
<1>2. UNCHANGED <<running, cancelled>>
  BY DEF CreateTask
<1>3. task'[t] = "new" /\ \A u \in Task : u # t => task'[u] = task[u]
  BY <1>1 DEF IInv, TasksTyped
<1>4. \A u \in Task : Alive(u) => u \in cancelled
  BY NoneIsNoTask DEF IInv, LiveIsActive, ActiveAlive, Alive
<1>5. TasksTyped'
  BY <1>1, <1>2 DEF IInv, TasksTyped
<1>6. LiveIsActive'
  BY <1>1, <1>2, <1>3, <1>4 DEF LiveIsActive, Alive
<1>7. OneConsumer' /\ RunningHasConsumer'
  BY <1>1, <1>2, <1>3 DEF IInv, OneConsumer, RunningHasConsumer, Consuming
<1> QED BY <1>5, <1>6, <1>7 DEF IInv

\* The shutdown cancels the live task before it drops the record.
LEMMA ShutdownKeeps ==
  ASSUME IInv, ShutdownRoomTasks
  PROVE  IInv'
<1>1. ~running' /\ active' = None /\ task' = task
  BY DEF ShutdownRoomTasks
<1>2. cancelled' = IF ActiveAlive THEN cancelled \cup {active} ELSE cancelled
  BY DEF ShutdownRoomTasks
<1>3. TasksTyped'
  BY <1>1, <1>2 DEF IInv, TasksTyped, ActiveAlive
<1>4. LiveIsActive'
  BY <1>1, <1>2, NoneIsNoTask DEF IInv, LiveIsActive, ActiveAlive, Alive
<1>5. OneConsumer' /\ RunningHasConsumer'
  BY <1>1 DEF IInv, OneConsumer, RunningHasConsumer, Consuming
<1> QED BY <1>3, <1>4, <1>5 DEF IInv

\* The steps of the websocket handlers: each leaves the tasks alone, creates
\* one or shuts the room down.
LEMMA HandlerKeeps ==
  ASSUME IInv, NEW c \in Client,
         Open(c) \/ Joined(c) \/ PromptSubmit(c) \/ EnsureAndDispatch(c)
           \/ EnsuredDispatch(c) \/ ApprovalResponse(c) \/ Evict(c) \/ Close(c) \/ CloseTold(c)
  PROVE  IInv'
<1>1. \/ UNCHANGED <<task, active, cancelled, running>>
      \/ CreateTask /\ ~ActiveAlive
      \/ ShutdownRoomTasks
  BY DEF Open, Joined, PromptSubmit, EnsureAndDispatch, EnsuredDispatch, ApprovalResponse, Evict,
         Close, CloseTold, Dispatch, driverVars
<1> QED BY <1>1, QuietStepKeeps, CreateTaskKeeps, ShutdownKeeps

\* The invariant is kept by every step.
LEMMA NextKeepsIInv == IInv /\ [Next]_vars => IInv'
<1> SUFFICES ASSUME IInv, [Next]_vars PROVE IInv'
  OBVIOUS
<1>1. CASE \E t \in Task : TaskStep(t)
  BY <1>1, TaskStepKeeps
<1>2. CASE \E t \in Task : CloseGenerator(t) \/ SyncEnds(t)
  BY <1>2, QuietStepKeeps DEF CloseGenerator, SyncEnds
<1>3. CASE \E c \in Client :
             Open(c) \/ Joined(c) \/ PromptSubmit(c) \/ EnsureAndDispatch(c)
               \/ EnsuredDispatch(c) \/ ApprovalResponse(c) \/ Evict(c) \/ Close(c) \/ CloseTold(c)
  BY <1>3, HandlerKeeps
<1>4. CASE UNCHANGED vars
  BY <1>4, QuietStepKeeps DEF vars
<1> QED BY <1>1, <1>2, <1>3, <1>4 DEF Next

\* Two tasks never take items from the driver's queue, however sessions open
\* and close around a task that is being cancelled.
THEOREM NeverTwoConsumers == Spec => []OneConsumer
<1>1. IInv => OneConsumer
  BY DEF IInv
<1> QED BY InitIInv, NextKeepsIInv, <1>1, PTL DEF Spec

\* While _running is TRUE some task that was not cancelled runs the driver.
THEOREM RunningIsTrue == Spec => []RunningHasConsumer
<1>1. IInv => RunningHasConsumer
  BY DEF IInv
<1> QED BY InitIInv, NextKeepsIInv, <1>1, PTL DEF Spec

-----------------------------------------------------------------------------
(* Commands: the queue and what was sent of it. *)

CommandsTyped ==
  /\ queue \in Seq(Command \cup {Stop}) /\ sent \in Seq(Command)
  /\ issued \in 0..MaxCommand /\ dropped \subseteq 1..issued

IsQueued(i) == i \in 1..Len(queue) /\ queue[i] # Stop

\* What was sent, then what is queued, is in the order of issue, and nothing of
\* it was dropped.
QueueOrder ==
  /\ \A i, j \in 1..Len(queue) : i < j /\ IsQueued(i) /\ IsQueued(j) => queue[i] < queue[j]
  /\ \A i \in 1..Len(queue) : IsQueued(i) => queue[i] <= issued /\ queue[i] \notin dropped
SentOrder ==
  /\ \A i, j \in 1..Len(sent) : i < j => sent[i] < sent[j]
  /\ \A i \in 1..Len(sent) : sent[i] <= issued /\ sent[i] \notin dropped
SentBeforeQueued ==
  \A i \in 1..Len(sent), j \in 1..Len(queue) : IsQueued(j) => sent[i] < queue[j]

Order == CommandsTyped /\ QueueOrder /\ SentOrder /\ SentBeforeQueued

\* The Stop item is no command.
LEMMA StopIsNoCommand == Stop \notin Command /\ Command \subseteq Nat
  BY DriverAssumption DEF Command

\* What is queued and what was sent are numbers up to issued.
LEMMA CommandsAreIssued ==
  ASSUME Order
  PROVE  /\ \A i \in 1..Len(queue) : IsQueued(i) => queue[i] \in Nat /\ queue[i] <= issued
         /\ \A i \in 1..Len(sent) : sent[i] \in Nat /\ sent[i] <= issued
<1>1. \A i \in 1..Len(queue) : queue[i] \in Command \cup {Stop}
  BY DEF Order, CommandsTyped
<1>2. \A i \in 1..Len(sent) : sent[i] \in Command
  BY DEF Order, CommandsTyped
<1>3. \A i \in 1..Len(queue) : IsQueued(i) => queue[i] \in Nat
  BY <1>1, StopIsNoCommand DEF IsQueued
<1>4. \A i \in 1..Len(sent) : sent[i] \in Nat
  BY <1>2, StopIsNoCommand
<1> QED BY <1>3, <1>4 DEF Order, QueueOrder, SentOrder

\* Nothing is queued at first.
LEMMA InitOrder == Init => Order
BY DriverAssumption
DEF Init, Order, CommandsTyped, QueueOrder, SentOrder, SentBeforeQueued, Command

\* A command is queued behind all others, or dropped.
LEMMA DispatchKeepsOrder ==
  ASSUME Order, Dispatch
  PROVE  Order'
<1> USE DriverAssumption
<1>1. /\ issued' = issued + 1 /\ issued \in Nat /\ issued' \in 0..MaxCommand
      /\ issued' \in Command /\ sent' = sent /\ issued < issued'
  <2>1. issued \in 0..MaxCommand /\ issued < MaxCommand /\ issued' = issued + 1 /\ sent' = sent
    BY DEF Order, CommandsTyped, Dispatch
  <2> QED BY <2>1 DEF Command
<1>2. CASE running
  <2>1. queue' = Append(queue, issued') /\ dropped' = dropped
    BY <1>2 DEF Dispatch
  <2>2. queue \in Seq(Command \cup {Stop}) /\ issued' \in Command \cup {Stop}
    BY <1>1 DEF Order, CommandsTyped
  <2>3. /\ queue' \in Seq(Command \cup {Stop}) /\ Len(queue') = Len(queue) + 1
        /\ Len(queue) \in Nat
        /\ \A i \in 1..Len(queue) : queue'[i] = queue[i]
        /\ queue'[Len(queue) + 1] = issued'
    BY <2>1, <2>2
  <2>4. \A i \in 1..Len(queue') : i \in 1..Len(queue) \/ i = Len(queue) + 1
    BY <2>3
  <2>5. \A i \in 1..Len(queue) : IsQueued(i) => queue[i] \in Nat /\ queue[i] <= issued
    BY CommandsAreIssued
  <2>6. issued' \notin dropped
    BY <1>1 DEF Order, CommandsTyped
  <2>7. CommandsTyped'
    <3>1. dropped' \subseteq 1..issued'
      BY <1>1, <2>1 DEF Order, CommandsTyped
    <3> QED BY <3>1, <1>1, <2>3 DEF Order, CommandsTyped
  <2>8. QueueOrder'
    BY <1>1, <2>1, <2>3, <2>4, <2>5, <2>6 DEF Order, QueueOrder, IsQueued
  <2>9. SentOrder'
    BY <1>1, <2>1, CommandsAreIssued DEF Order, SentOrder
  <2>10. SentBeforeQueued'
    <3>1. \A i \in 1..Len(sent) : sent[i] \in Nat /\ sent[i] <= issued
      BY CommandsAreIssued
    <3> QED BY <1>1, <2>3, <2>4, <3>1 DEF Order, SentBeforeQueued, IsQueued
  <2> QED BY <2>7, <2>8, <2>9, <2>10 DEF Order
<1>3. CASE ~running
  <2>1. queue' = queue /\ dropped' = dropped \cup {issued'}
    BY <1>3 DEF Dispatch
  <2>2. /\ \A i \in 1..Len(queue) : IsQueued(i) => queue[i] \in Nat /\ queue[i] <= issued
        /\ \A i \in 1..Len(sent) : sent[i] \in Nat /\ sent[i] <= issued
    BY CommandsAreIssued
  <2>3. CommandsTyped'
    <3>1. dropped' \subseteq 1..issued'
      BY <1>1, <2>1 DEF Order, CommandsTyped
    <3> QED BY <3>1, <1>1, <2>1 DEF Order, CommandsTyped
  <2>4. QueueOrder' /\ SentOrder' /\ SentBeforeQueued'
    BY <1>1, <2>1, <2>2 DEF Order, QueueOrder, SentOrder, SentBeforeQueued, IsQueued
  <2> QED BY <2>3, <2>4 DEF Order
<1> QED BY <1>2, <1>3

\* The head of the queue moves to what was sent, or the Stop item goes.
LEMMA TakeKeepsOrder ==
  ASSUME Order, NEW t \in Task, TakeItem(t)
  PROVE  Order'
<1>1. dropped' = dropped /\ issued' = issued
  BY DEF TakeItem
<1>2. CASE UNCHANGED <<queue, sent>>
  BY <1>1, <1>2 DEF Order, CommandsTyped, QueueOrder, SentOrder, SentBeforeQueued, IsQueued
<1>3. CASE queue # <<>> /\ queue' = Tail(queue)
  <2>1. /\ queue \in Seq(Command \cup {Stop}) /\ Len(queue) \in Nat /\ Len(queue) > 0
        /\ Head(queue) = queue[1] /\ queue[1] \in Command \cup {Stop}
    BY <1>3 DEF Order, CommandsTyped
  <2>2. /\ queue' \in Seq(Command \cup {Stop}) /\ Len(queue') = Len(queue) - 1
        /\ \A i \in 1..Len(queue') : queue'[i] = queue[i + 1] /\ i + 1 \in 1..Len(queue)
    BY <1>3, <2>1
  <2>3. QueueOrder'
    BY <1>1, <2>1, <2>2 DEF Order, QueueOrder, IsQueued
  <2>4. CASE Head(queue) = Stop
    <3>1. sent' = sent
      BY <1>3, <2>4 DEF TakeItem
    <3> QED BY <1>1, <2>2, <2>3, <3>1 DEF Order, CommandsTyped, SentOrder, SentBeforeQueued, IsQueued
  <2>5. CASE Head(queue) # Stop
    <3>1. sent' = Append(sent, queue[1]) \/ sent' = sent
      BY <1>3, <2>1, <2>5 DEF TakeItem
    <3>2. queue[1] \in Command /\ IsQueued(1)
      BY <2>1, <2>5 DEF IsQueued
    <3>3. CASE sent' = sent
      BY <1>1, <2>2, <2>3, <3>3
      DEF Order, CommandsTyped, SentOrder, SentBeforeQueued, IsQueued
    <3>4. CASE sent' = Append(sent, queue[1])
      <4>1. /\ sent' \in Seq(Command) /\ Len(sent') = Len(sent) + 1 /\ Len(sent) \in Nat
            /\ \A i \in 1..Len(sent) : sent'[i] = sent[i]
            /\ sent'[Len(sent) + 1] = queue[1]
        BY <3>2, <3>4 DEF Order, CommandsTyped
      <4>2. \A i \in 1..Len(sent') : i \in 1..Len(sent) \/ i = Len(sent) + 1
        BY <4>1
      <4>3. \A i \in 1..Len(sent) : sent[i] < queue[1]
        BY <2>1, <3>2 DEF Order, SentBeforeQueued
      <4>4. queue[1] <= issued /\ queue[1] \notin dropped
        BY <2>1, <3>2 DEF Order, QueueOrder
      <4>5. SentOrder'
        BY <1>1, <4>1, <4>2, <4>3, <4>4 DEF Order, SentOrder
      <4>6. \A j \in 1..Len(queue) : j > 1 /\ IsQueued(j) => queue[1] < queue[j]
        BY <2>1, <3>2 DEF Order, QueueOrder
      <4>7. SentBeforeQueued'
        BY <2>1, <2>2, <4>1, <4>2, <4>6 DEF Order, SentBeforeQueued, IsQueued
      <4> QED BY <1>1, <2>2, <2>3, <4>1, <4>5, <4>7 DEF Order, CommandsTyped
    <3> QED BY <3>1, <3>3, <3>4
  <2> QED BY <2>4, <2>5
<1> QED BY <1>2, <1>3 DEF TakeItem

\* The shutdown queues only the Stop item.
LEMMA ShutdownKeepsOrder ==
  ASSUME Order, ShutdownRoomTasks, UNCHANGED commandVars
  PROVE  Order'
<1>1. queue' = Append(queue, Stop) /\ sent' = sent /\ issued' = issued /\ dropped' = dropped
  BY DEF ShutdownRoomTasks, commandVars
<1>2. queue \in Seq(Command \cup {Stop})
  BY DEF Order, CommandsTyped
<1>3. /\ queue' \in Seq(Command \cup {Stop})
      /\ \A i \in 1..Len(queue') : IsQueued(i)' => IsQueued(i) /\ queue'[i] = queue[i]
  BY <1>1, <1>2 DEF IsQueued
<1>4. \A i \in 1..Len(queue') : IsQueued(i)' => i \in 1..Len(queue)
  BY <1>3 DEF IsQueued
<1>5. QueueOrder'
  BY <1>1, <1>3, <1>4 DEF Order, QueueOrder
<1> QED BY <1>1, <1>3, <1>4, <1>5 DEF Order, CommandsTyped, SentOrder, SentBeforeQueued

\* Every step keeps the order.
LEMMA NextKeepsOrder == Order /\ [Next]_vars => Order'
<1> SUFFICES ASSUME Order, [Next]_vars PROVE Order'
  OBVIOUS
<1>1. CASE \E t \in Task : TakeItem(t)
  BY <1>1, TakeKeepsOrder
<1>2. CASE Dispatch
  BY <1>2, DispatchKeepsOrder
<1>3. CASE ShutdownRoomTasks /\ UNCHANGED commandVars
  BY <1>3, ShutdownKeepsOrder
<1>4. CASE UNCHANGED <<queue, sent, issued, dropped>>
  BY <1>4 DEF Order, CommandsTyped, QueueOrder, SentOrder, SentBeforeQueued, IsQueued
<1>5. CASE \E t \in Task : TaskStep(t) \/ CloseGenerator(t) \/ SyncEnds(t)
  BY <1>1, <1>4, <1>5 DEF TaskStep, StartTask, StartedSent, CommandSent, StoppedSent,
     CloseGenerator, SyncEnds, Continue, commandVars
<1>6. CASE \E c \in Client :
             Open(c) \/ Joined(c) \/ PromptSubmit(c) \/ EnsureAndDispatch(c)
               \/ EnsuredDispatch(c) \/ ApprovalResponse(c) \/ Evict(c) \/ Close(c) \/ CloseTold(c)
  BY <1>2, <1>3, <1>4, <1>6 DEF Open, Joined, PromptSubmit, EnsureAndDispatch, EnsuredDispatch,
     ApprovalResponse, Evict, Close, CloseTold, CreateTask, driverVars, commandVars
<1>7. CASE UNCHANGED vars
  BY <1>4, <1>7 DEF vars
<1> QED BY <1>5, <1>6, <1>7 DEF Next

\* Commands reach the desktop in the order they were queued, none twice, and
\* none that dispatch_command dropped.
THEOREM CommandsKeepTheirOrder == Spec => []SentInOrder
<1>1. Order => SentInOrder
  <2> SUFFICES ASSUME Order PROVE SentInOrder
    OBVIOUS
  <2>1. DOMAIN sent = 1..Len(sent)
    BY DEF Order, CommandsTyped
  <2> QED BY <2>1 DEF Order, SentOrder, SentInOrder
<1> QED BY InitOrder, NextKeepsOrder, <1>1, PTL DEF Spec

-----------------------------------------------------------------------------
(* Until the first shutdown: why the polls of _ensure_driver_running are     *)
(* enough there, although they time out and recheck nothing.                 *)

\* Before a room was ever shut down nothing was cancelled and no Stop queued; a
\* client that is in finds a task on record, and a prompt is only announced when
\* that task runs.
FirstSession ==
  stops = 0 =>
    /\ cancelled = {} /\ finalizers = {} /\ dropped = {}
    /\ \A i \in 1..Len(queue) : queue[i] # Stop
    /\ \A t \in Task : task[t] \notin {"stopped", "done"}
    /\ active # None => task[active] # "unused" /\ (task[active] # "new" => running)
    /\ \A c \in Client : handler[c] # "out" => active # None /\ handler[c] # "ensured"
    /\ \A c \in Client : handler[c] = "announcing" => task[active] # "new"

Typed ==
  /\ stops \in Nat /\ handler \in [Client -> {"out", "joining", "in", "announcing", "ensured", "leaving"}]
  /\ queue \in Seq(Command \cup {Stop})

FInv == IInv /\ Typed /\ FirstSession

\* The types are kept, and the count of shutdowns never comes back to 0.
LEMMA NextKeepsTyped ==
  ASSUME Order, Typed, [Next]_vars
  PROVE  Typed' /\ (stops' = 0 => stops = 0)
<1>1. queue' \in Seq(Command \cup {Stop})
  BY NextKeepsOrder DEF Order, CommandsTyped
<1>2. stops' = stops \/ stops' = stops + 1
  BY DEF Next, vars, TaskStep, StartTask, StartedSent, TakeItem, CommandSent, StoppedSent,
     CloseGenerator, SyncEnds, Continue, Open, Joined, PromptSubmit, EnsureAndDispatch,
     EnsuredDispatch, ApprovalResponse, Evict, Close, CloseTold, CreateTask, Dispatch,
     ShutdownRoomTasks, driverVars
<1>3. handler' \in [Client -> {"out", "joining", "in", "announcing", "ensured", "leaving"}]
  BY DEF Typed, Next, vars, TaskStep, StartTask, StartedSent, TakeItem, CommandSent, StoppedSent,
     CloseGenerator, SyncEnds, Open, Joined, PromptSubmit, EnsureAndDispatch,
     EnsuredDispatch, ApprovalResponse, Evict, Close, CloseTold
<1> QED BY <1>1, <1>2, <1>3 DEF Typed

\* The task on record is the only one alive, and it runs unless it is new.
LEMMA FirstTask ==
  ASSUME FInv, stops = 0, NEW t \in Task, Alive(t)
  PROVE  active = t /\ (Consuming(t) => running) /\ (task[t] = "new" => ~running)
<1>1. active = t /\ active # None
  BY NoneIsNoTask DEF FInv, IInv, FirstSession, LiveIsActive
<1>2. \A w \in Task : Consuming(w) => active = w
  BY DEF FInv, IInv, FirstSession, LiveIsActive, Alive, Consuming
<1>3. task[t] = "new" => ~running
  BY <1>1, <1>2 DEF FInv, IInv, RunningHasConsumer, Consuming
<1> QED BY <1>1, <1>3 DEF FInv, FirstSession, Consuming

\* A client that is in finds the task alive.
LEMMA FirstAlive ==
  ASSUME FInv, stops = 0, NEW c \in Client, handler[c] # "out"
  PROVE  active \in Task /\ ActiveAlive /\ Alive(active)
BY DEF FInv, IInv, TasksTyped, FirstSession, ActiveAlive, Alive

\* Steps of the task keep it running and drop nothing.
LEMMA TaskKeepsFirst ==
  ASSUME FInv, stops' = 0, stops = 0, NEW t \in Task,
         TaskStep(t) \/ CloseGenerator(t) \/ SyncEnds(t)
  PROVE  FirstSession'
<1>1. /\ cancelled = {} /\ finalizers = {} /\ dropped = {}
      /\ \A i \in 1..Len(queue) : queue[i] # Stop
      /\ \A u \in Task : task[u] \notin {"stopped", "done"}
  BY DEF FInv, FirstSession
<1>2. UNCHANGED <<active, handler>>
  BY DEF TaskStep, StartTask, StartedSent, TakeItem, CommandSent, StoppedSent, CloseGenerator,
     SyncEnds, Continue, commandVars
<1>3. CASE SyncEnds(t)
  BY <1>3 DEF SyncEnds, commandVars, FInv, FirstSession
<1>4. CASE CloseGenerator(t) \/ StoppedSent(t)
  BY <1>1, <1>4 DEF CloseGenerator, StoppedSent
<1>5. CASE StartTask(t)
  <2>1. task[t] = "new" /\ active = t /\ ~running
    BY <1>5, FirstTask DEF StartTask, Alive
  <2>2. task' = [task EXCEPT ![t] = "started"] /\ running' = TRUE
    BY <1>1, <1>5, <2>1 DEF StartTask
  <2>3. UNCHANGED <<queue, dropped, finalizers>> /\ cancelled' = {}
    BY <1>1, <1>5 DEF StartTask, commandVars
  <2> QED BY <1>1, <1>2, <2>1, <2>2, <2>3 DEF FInv, IInv, TasksTyped, FirstSession
<1>6. CASE StartedSent(t) \/ CommandSent(t)
  <2>1. Alive(t) /\ Consuming(t)
    BY <1>6 DEF StartedSent, CommandSent, Alive, Consuming
  <2>2. active = t /\ running
    BY <2>1, FirstTask
  <2>3. task' = [task EXCEPT ![t] = "get"] /\ UNCHANGED <<running, finalizers>>
    BY <1>1, <1>6, <2>2 DEF StartedSent, CommandSent, Continue
  <2>4. UNCHANGED <<queue, dropped>> /\ cancelled' = {}
    BY <1>1, <1>6 DEF StartedSent, CommandSent, commandVars
  <2> QED BY <1>1, <1>2, <2>2, <2>3, <2>4 DEF FInv, IInv, TasksTyped, FirstSession
<1>7. CASE TakeItem(t)
  <2>1. Alive(t) /\ Consuming(t)
    BY <1>7 DEF TakeItem, Alive, Consuming
  <2>2. active = t /\ running
    BY <2>1, FirstTask
  <2>3. queue # <<>> /\ queue' = Tail(queue)
    BY <1>1, <1>7 DEF TakeItem
  <2>4. queue \in Seq(Command \cup {Stop})
    BY DEF FInv, Typed
  <2>5. \A i \in 1..Len(queue') : queue'[i] = queue[i + 1] /\ i + 1 \in 1..Len(queue)
    BY <2>3, <2>4
  <2>6. Head(queue) # Stop
    <3>1. Head(queue) = queue[1] /\ 1 \in 1..Len(queue)
      BY <2>3, <2>4
    <3> QED BY <3>1, <1>1
  <2>7. task' = [task EXCEPT ![t] = "emit"] /\ UNCHANGED running
    BY <1>1, <1>7, <2>6 DEF TakeItem
  <2>8. UNCHANGED <<finalizers, dropped>> /\ cancelled' = {}
    BY <1>1, <1>7 DEF TakeItem
  <2> QED BY <1>1, <1>2, <2>2, <2>5, <2>7, <2>8 DEF FInv, IInv, TasksTyped, FirstSession
<1> QED BY <1>3, <1>4, <1>5, <1>6, <1>7 DEF TaskStep

\* A command that is dispatched while the driver runs is queued.
LEMMA DispatchKeepsFirst ==
  ASSUME FInv, Order, stops = 0, Dispatch, running,
         NEW c \in Client, handler' = [handler EXCEPT ![c] = "in"], handler[c] # "out"
  PROVE  FirstSession'
<1>1. UNCHANGED <<running, active, task, cancelled, finalizers, dropped>>
  BY DEF Dispatch
<1>2. queue' = Append(queue, issued + 1) /\ queue \in Seq(Command \cup {Stop}) /\ issued + 1 # Stop
  <2>1. issued' \in Nat /\ issued' = issued + 1
    BY DriverAssumption DEF Order, CommandsTyped, Dispatch
  <2>2. queue' = Append(queue, issued')
    BY DEF Dispatch
  <2> QED BY <2>1, <2>2, DriverAssumption DEF FInv, Typed
<1> QED BY <1>1, <1>2 DEF FInv, Typed, FirstSession

\* A task is only created when no client is in, and then none announces.
LEMMA CreateKeepsFirst ==
  ASSUME FInv, stops = 0, CreateTask, \A c \in Client : handler[c] = "out",
         NEW c \in Client, handler' = [handler EXCEPT ![c] = "joining"],
         UNCHANGED commandVars
  PROVE  FirstSession'
<1>1. PICK t \in Task : /\ task[t] = "unused" /\ task' = [task EXCEPT ![t] = "new"]
                        /\ active' = t
    BY DEF CreateTask
<1>2. UNCHANGED <<running, cancelled, finalizers, queue, dropped>>
  BY DEF CreateTask, commandVars
<1>3. \A d \in Client : handler'[d] \in {"out", "joining"}
  BY DEF FInv, Typed
<1> QED BY <1>1, <1>2, <1>3, NoneIsNoTask DEF FInv, IInv, TasksTyped, FirstSession

\* A step that only moves one client between the states in which it is in.
LEMMA MoveKeepsFirst ==
  ASSUME FInv, stops = 0, UNCHANGED <<running, queue, active, task, cancelled, finalizers, dropped>>,
         NEW c \in Client, NEW state \in {"out", "joining", "in", "announcing", "leaving"},
         handler' = [handler EXCEPT ![c] = state],
         handler[c] = "out" => ActiveAlive \/ state = "out",
         state = "announcing" => task[active] # "new"
  PROVE  FirstSession'
BY DEF FInv, Typed, FirstSession, ActiveAlive

\* A client that acts when the loop's turn is over, or after its announcement,
\* finds the driver running.
LEMMA FirstRunning ==
  ASSUME FInv, stops = 0, NEW c \in Client,
         handler[c] = "announcing" \/ (handler[c] = "in" /\ TurnOver)
  PROVE  running /\ task[active] # "new"
<1>1. active \in Task /\ active # None
  BY FirstAlive, NoneIsNoTask
<1>2. task[active] # "new"
  BY <1>1 DEF FInv, FirstSession, TurnOver
<1> QED BY <1>1, <1>2 DEF FInv, FirstSession

\* Steps of the clients drop nothing.
LEMMA ClientKeepsFirst ==
  ASSUME FInv, Order, stops' = 0, stops = 0, NEW c \in Client,
         Open(c) \/ Joined(c) \/ PromptSubmit(c) \/ EnsureAndDispatch(c)
           \/ EnsuredDispatch(c) \/ ApprovalResponse(c) \/ Evict(c) \/ Close(c) \/ CloseTold(c)
  PROVE  FirstSession'
<1>1. ~ShutdownRoomTasks
  BY DEF ShutdownRoomTasks
<1>2. CASE Open(c)
  <2>1. CASE ActiveAlive
    <3>1. UNCHANGED driverVars
      BY <1>2, <2>1 DEF Open
    <3>2. handler' = [handler EXCEPT ![c] = "in"] /\ UNCHANGED commandVars
      BY <1>2, <2>1 DEF Open
    <3> QED BY <3>1, <3>2, <2>1, MoveKeepsFirst DEF driverVars, commandVars
  <2>2. CASE ~ActiveAlive
    <3>1. \A d \in Client : handler[d] = "out"
      BY <2>2, FirstAlive
    <3>2. CreateTask /\ handler' = [handler EXCEPT ![c] = "joining"] /\ UNCHANGED commandVars
      BY <1>2, <2>2 DEF Open
    <3> QED BY <3>1, <3>2, CreateKeepsFirst
  <2> QED BY <2>1, <2>2
<1>3. CASE Joined(c)
  BY <1>3, MoveKeepsFirst DEF Joined, driverVars, commandVars
<1>4. CASE PromptSubmit(c)
  <2>1. task[active] # "new"
    BY <1>4, FirstRunning DEF PromptSubmit
  <2> QED BY <1>4, <2>1, MoveKeepsFirst DEF PromptSubmit, driverVars, commandVars
<1>5. CASE EnsureAndDispatch(c)
  <2>1. running /\ ActiveAlive /\ handler[c] # "out"
    BY <1>5, FirstRunning, FirstAlive DEF EnsureAndDispatch
  <2>2. handler' = [handler EXCEPT ![c] = "in"]
    BY <1>5, <2>1 DEF EnsureAndDispatch
  <2>3. Dispatch \/ UNCHANGED <<driverVars, commandVars>>
    BY <1>5, <2>1 DEF EnsureAndDispatch
  <2>4. CASE Dispatch
    BY <2>1, <2>2, <2>4, DispatchKeepsFirst
  <2>5. CASE UNCHANGED <<driverVars, commandVars>>
    BY <2>1, <2>2, <2>5, MoveKeepsFirst DEF driverVars, commandVars
  <2> QED BY <2>3, <2>4, <2>5
<1>6. CASE EnsuredDispatch(c)
  BY <1>6 DEF EnsuredDispatch, FInv, FirstSession
<1>7. CASE ApprovalResponse(c)
  <2>1. running /\ handler[c] = "in" /\ Dispatch /\ handler' = handler
    BY <1>7, FirstRunning DEF ApprovalResponse
  <2>2. handler' = [handler EXCEPT ![c] = "in"]
    BY <2>1 DEF FInv, Typed
  <2> QED BY <2>1, <2>2, DispatchKeepsFirst
<1>8. CASE Evict(c)
  BY <1>8 DEF Evict, driverVars, commandVars, FInv, FirstSession
<1>9. CASE Close(c) \/ CloseTold(c)
  <2>1. /\ UNCHANGED <<driverVars, commandVars>> /\ handler[c] # "out"
        /\ \/ handler' = [handler EXCEPT ![c] = "out"]
           \/ handler' = [handler EXCEPT ![c] = "leaving"]
    BY <1>1, <1>9 DEF Close, CloseTold
  <2> QED BY <2>1, MoveKeepsFirst DEF driverVars, commandVars
<1> QED BY <1>2, <1>3, <1>4, <1>5, <1>6, <1>7, <1>8, <1>9

\* The whole invariant is kept by every step.
LEMMA NextKeepsFInv == FInv /\ Order /\ [Next]_vars => FInv'
<1> SUFFICES ASSUME FInv, Order, [Next]_vars PROVE FInv'
  OBVIOUS
<1>1. IInv' /\ Typed' /\ (stops' = 0 => stops = 0)
  BY NextKeepsIInv, NextKeepsTyped DEF FInv
<1>2. FirstSession'
  <2>1. CASE stops' # 0
    BY <2>1 DEF FirstSession
  <2>2. CASE stops' = 0
    <3>1. stops = 0
      BY <2>2, <1>1
    <3>2. CASE UNCHANGED vars
      BY <3>2 DEF vars, FInv, FirstSession
    <3>3. CASE Next
      BY <2>2, <3>1, <3>3, TaskKeepsFirst, ClientKeepsFirst DEF Next
    <3> QED BY <3>2, <3>3
  <2> QED BY <2>1, <2>2
<1> QED BY <1>1, <1>2 DEF FInv

\* Nothing is running or queued at first.
LEMMA InitFInv == Init => FInv
BY InitIInv DEF Init, FInv, Typed, FirstSession

\* Until a room has been shut down once, no command is dropped: the driver is
\* running whenever a command is dispatched.
THEOREM FirstSessionIsSafe == Spec => []FirstSessionDropsNothing
<1>1. FInv => FirstSessionDropsNothing
  BY DEF FInv, FirstSession, FirstSessionDropsNothing
<1> QED BY InitFInv, InitOrder, NextKeepsFInv, NextKeepsOrder, <1>1, PTL DEF Spec

-----------------------------------------------------------------------------
\* What TypeOK says beyond the invariants above.
RestTyped ==
  /\ running \in BOOLEAN
  /\ room \subseteq Client /\ opens \in 0..MaxOpens
  /\ finalizers \subseteq Task /\ syncing \subseteq Task

\* The rest of the types is kept.
LEMMA NextKeepsRest == RestTyped /\ [Next]_vars => RestTyped'
<1> SUFFICES ASSUME RestTyped, [Next]_vars PROVE RestTyped'
  OBVIOUS
<1>1. CASE \E t \in Task : TaskStep(t) \/ CloseGenerator(t) \/ SyncEnds(t)
  <2>1. UNCHANGED <<room, opens>>
    BY <1>1 DEF TaskStep, StartTask, StartedSent, TakeItem, CommandSent, StoppedSent,
       CloseGenerator, SyncEnds
  <2>2. finalizers' \subseteq Task /\ syncing' \subseteq Task /\ running' \in BOOLEAN
    BY <1>1 DEF RestTyped, TaskStep, StartTask, StartedSent, TakeItem, CommandSent, StoppedSent,
       CloseGenerator, SyncEnds, Continue
  <2> QED BY <2>1, <2>2 DEF RestTyped
<1>2. ASSUME NEW c \in Client,
             Open(c) \/ Joined(c) \/ PromptSubmit(c) \/ EnsureAndDispatch(c)
               \/ EnsuredDispatch(c) \/ ApprovalResponse(c) \/ Evict(c) \/ Close(c) \/ CloseTold(c)
      PROVE RestTyped'
  <2>1. room' \subseteq Client
    BY <1>2 DEF RestTyped, Open, Joined, PromptSubmit, EnsureAndDispatch, EnsuredDispatch,
       ApprovalResponse, Evict, Close, CloseTold
  <2>2. opens' = opens \/ (opens < MaxOpens /\ opens' = opens + 1)
    BY <1>2 DEF Open, Joined, PromptSubmit, EnsureAndDispatch, EnsuredDispatch,
       ApprovalResponse, Evict, Close, CloseTold
  <2>3. opens' \in 0..MaxOpens
    BY <2>2, DriverAssumption DEF RestTyped
  <2>4. finalizers' = finalizers /\ syncing' \subseteq Task /\ running' \in BOOLEAN
    BY <1>2 DEF RestTyped, Open, Joined, PromptSubmit, EnsureAndDispatch, EnsuredDispatch,
       ApprovalResponse, Evict, Close, CloseTold, CreateTask, Dispatch, ShutdownRoomTasks, driverVars
  <2> QED BY <2>1, <2>3, <2>4 DEF RestTyped
<1>3. CASE UNCHANGED vars
  BY <1>3 DEF vars, RestTyped
<1> QED BY <1>1, <1>2, <1>3 DEF Next

\* Every variable keeps its type.
THEOREM TypeCorrect == Spec => []TypeOK
<1>1. Init => RestTyped
  <2>1. 0 \in 0..MaxOpens
    BY DriverAssumption
  <2> QED BY <2>1 DEF Init, RestTyped
<1>2. FInv /\ Order /\ RestTyped => TypeOK
  <2> SUFFICES ASSUME FInv, Order, RestTyped PROVE TypeOK
    OBVIOUS
  <2>1. dropped \subseteq Command
    BY DriverAssumption DEF Order, CommandsTyped, Command
  <2> QED BY <2>1 DEF FInv, IInv, TasksTyped, Typed, Order, CommandsTyped, RestTyped, TypeOK
<1> QED BY InitFInv, InitOrder, NextKeepsFInv, NextKeepsOrder, NextKeepsRest, <1>1, <1>2, PTL DEF Spec
=============================================================================
