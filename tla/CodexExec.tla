------------------------------ MODULE CodexExec ------------------------------
(***************************************************************************)
(* `codex exec` processes started by the VS Code bridge                    *)
(* (vscode-bridge/src/codexExecRuntime.ts): a prompt for codex-cli         *)
(* terminates the process of the prompt before and spawns its own, a kill  *)
(* request terminates the one remembered, and the close event of each      *)
(* process reports how its run ended.  The bridge keeps one entry and one  *)
(* "intentionally stopped" mark per runtime, not per process, and close    *)
(* events come whenever a process is really gone: the module is about what *)
(* survives when those of two runs cross.                                  *)
(*                                                                         *)
(* The extension host runs one handler at a time; every action is one.     *)
(* Capability reports and the last_error they show are left out: nothing   *)
(* here reads them.                                                        *)
(***************************************************************************)
EXTENDS Integers

CONSTANTS
  MaxRun,    \* bound: prompts dispatched to codex-cli
  MaxReply,  \* bound: messages one run prints
  None

ASSUME CodexAssumption == MaxRun \in Nat /\ MaxReply \in Nat /\ None \notin Nat

Run == 1..MaxRun

VARIABLES
  process,       \* per run: "unused", "unspawned" (its error event is due),
                 \* "broken" (spawn failed, close is due), "running", "closed"
  activeProcess, \* activeRuntimeProcesses["codex-cli"]
  stoppedMark,   \* "codex-cli" \in intentionallyStoppedProcesses
  signalled,     \* runs whose process was sent SIGTERM
  partial,       \* runs with a message in stdoutBuffer that no newline ended yet
  printed,       \* messages each run's process wrote to stdout
  replies,       \* assistant packets sent for each run
  told,          \* per run: how the phone was told that it ended
  started,       \* runs started so far
  dying          \* history: per run, the earlier ones whose close event was
                 \* still to come when it started

vars == <<process, activeProcess, stoppedMark, signalled, partial, printed,
          replies, told, started, dying>>
outputVars == <<partial, printed, replies, told>>

Open(n) == process[n] \in {"unspawned", "broken", "running"}

\* The phone heard of run n's end: a reply, a failure, or that there was no reply.
Outcome(n) == replies[n] > 0 \/ told[n] # {}

\* The error event of a failed spawn comes before anything from outside.
Quiet == \A n \in Run : process[n] # "unspawned"

TypeOK ==
  /\ process \in [Run -> {"unused", "unspawned", "broken", "running", "closed"}]
  /\ activeProcess \in {n \in Run : Open(n)} \cup {None}
  /\ stoppedMark \in BOOLEAN
  /\ signalled \subseteq Run
  /\ partial \subseteq Run
  /\ printed \in [Run -> Nat]
  /\ replies \in [Run -> Nat]
  /\ told \in [Run -> SUBSET {"failed to start", "failed", "no visible reply"}]
  /\ started \in 0..MaxRun
  /\ dying \in [Run -> SUBSET Run]

Init ==
  /\ process = [n \in Run |-> "unused"]
  /\ activeProcess = None
  /\ stoppedMark = FALSE
  /\ signalled = {}
  /\ partial = {}
  /\ printed = [n \in Run |-> 0]
  /\ replies = [n \in Run |-> 0]
  /\ told = [n \in Run |-> {}]
  /\ started = 0
  /\ dying = [n \in Run |-> {}]

-----------------------------------------------------------------------------
\* Mutants of TerminateActive, RemoveEntry and ClearMark.
TerminateMarksAlways ==
  /\ stoppedMark' = TRUE
  /\ signalled' = signalled \cup (Run \cap {activeProcess})

EntryStays == UNCHANGED activeProcess

MarkStays == UNCHANGED stoppedMark

\* terminateActiveRuntimeProcess, but for the entry, which its caller replaces
\* or removes: nothing happens when no process is remembered.
TerminateActive ==
  /\ stoppedMark' = (stoppedMark \/ activeProcess # None)
  /\ signalled' = signalled \cup (Run \cap {activeProcess})

\* activeRuntimeProcesses.delete: the entry goes, whichever process it holds.
RemoveEntry == activeProcess' = None

\* intentionallyStoppedProcesses.delete in the close event of any process.
ClearMark == stoppedMark' = FALSE

\* Mutant: the process before is terminated, and its entry deleted, last.
PromptSubmitThenStop(spawned) ==
  /\ Quiet /\ started < MaxRun
  /\ TerminateActive
  /\ started' = started + 1
  /\ dying' = [dying EXCEPT ![started + 1] = {n \in Run : Open(n)}]
  /\ process' = [process EXCEPT ![started + 1] = IF spawned THEN "running" ELSE "unspawned"]
  /\ activeProcess' = IF activeProcess = None THEN started + 1 ELSE None
  /\ UNCHANGED outputVars

\* handlePromptSubmit for codex-cli, with a command and a workspace folder:
\* startCodexExecPrompt terminates the run before and spawns this one, which
\* may fail at once (spawned = FALSE).
PromptSubmit(spawned) ==
  /\ Quiet /\ started < MaxRun
  /\ TerminateActive
  /\ started' = started + 1
  /\ dying' = [dying EXCEPT ![started + 1] = {n \in Run : Open(n)}]
  /\ process' = [process EXCEPT ![started + 1] = IF spawned THEN "running" ELSE "unspawned"]
  /\ activeProcess' = started + 1
  /\ UNCHANGED outputVars

\* handleCodexExecError.
SpawnError(n) ==
  /\ process[n] = "unspawned"
  /\ process' = [process EXCEPT ![n] = "broken"]
  /\ RemoveEntry
  /\ told' = [told EXCEPT ![n] = @ \cup {"failed to start"}]
  /\ UNCHANGED <<stoppedMark, signalled, partial, printed, replies, started, dying>>

\* handleKillRequest for codex-cli.  Without a remembered process the adapter
\* sends Ctrl+C to the codex terminal, if there is one, which stops no run.
KillRequest ==
  /\ Quiet /\ started > 0
  /\ TerminateActive
  /\ RemoveEntry
  /\ UNCHANGED <<process, outputVars, started, dying>>

\* stdout "data", flushCodexStdout: the process writes the line of a message,
\* with its newline or with the newline to come in a later chunk.
WriteStdout(n, newline) ==
  /\ Quiet
  /\ process[n] = "running" /\ n \notin partial /\ printed[n] < MaxReply
  /\ printed' = [printed EXCEPT ![n] = @ + 1]
  /\ IF newline
       THEN replies' = [replies EXCEPT ![n] = @ + 1] /\ UNCHANGED partial
       ELSE partial' = partial \cup {n} /\ UNCHANGED replies
  /\ UNCHANGED <<process, activeProcess, stoppedMark, signalled, told, started, dying>>

EndLine(n) ==
  /\ Quiet
  /\ process[n] = "running" /\ n \in partial
  /\ partial' = partial \ {n}
  /\ replies' = [replies EXCEPT ![n] = @ + 1]
  /\ UNCHANGED <<process, activeProcess, stoppedMark, signalled, printed, told, started,
                 dying>>

\* A mutant of FallbackReplies.
FallbackUnasked(n, left) == IF left THEN 1 ELSE 0

\* emitFallbackReplyIfNeeded: the message left in codex's output file is sent
\* when the run sent none.
FallbackReplies(n, left) == IF left /\ replies[n] = 0 THEN 1 ELSE 0

\* handleCodexExecClose without the mark: a reply from the output file, and
\* an event for a failed or a silent run.  No code (a signal) is no failure.
ReportEnd(n, code, left) ==
  LET sent == replies[n] + FallbackReplies(n, left)
  IN /\ replies' = [replies EXCEPT ![n] = sent]
     /\ told' = [told EXCEPT ![n] =
          @ \cup (IF code = "nonzero" THEN {"failed"}
                  ELSE IF sent = 0 THEN {"no visible reply"} ELSE {})]

\* handleCodexExecClose: the process of run n is gone, with exit code 0, another
\* or none, and with its last message in the output file or not.  A line of
\* stdout without its newline is dropped.  A process that did not start has a
\* code and no output.
Close(n, code, left) ==
  /\ Quiet
  /\ \/ process[n] = "running"
     \/ process[n] = "broken" /\ code = "nonzero"
  /\ left => printed[n] > 0
  /\ process' = [process EXCEPT ![n] = "closed"]
  /\ RemoveEntry
  /\ partial' = partial \ {n}
  /\ ClearMark
  /\ IF stoppedMark THEN UNCHANGED <<replies, told>> ELSE ReportEnd(n, code, left)
  /\ UNCHANGED <<signalled, printed, started, dying>>

Next ==
  \/ \E spawned \in BOOLEAN : PromptSubmit(spawned)
  \/ KillRequest
  \/ \E n \in Run :
       \/ SpawnError(n)
       \/ \E newline \in BOOLEAN : WriteStdout(n, newline)
       \/ EndLine(n)
       \/ \E code \in {"zero", "nonzero", "signal"}, left \in BOOLEAN : Close(n, code, left)

Spec == Init /\ [][Next]_vars
-----------------------------------------------------------------------------
\* The mark "intentionally stopped" never outlives the processes it was set
\* for: while it is set, a process sent SIGTERM has its close event still to
\* come.  A mark without one would silence the next run, which nobody stopped
\* (intentionallyStoppedProcesses.add and .delete).
MarkHasTarget == stoppedMark => \E n \in Run : Open(n) /\ n \in signalled

\* The remembered process is the newest run's and has not been sent SIGTERM:
\* what a kill request interrupts is what the last prompt started
\* (activeRuntimeProcesses.set and its deletes).
ActiveIsNewest ==
  activeProcess # None => activeProcess = started /\ activeProcess \notin signalled

\* A run that was not stopped ends without a word only at a close event that
\* comes while the process of another, stopped run is still dying: one prompt
\* at a time always hears how it ended (the early return of
\* handleCodexExecClose).
SilentOnlyBesideStraggler ==
  [][\A n \in Run :
       /\ process[n] # "closed" /\ process'[n] = "closed"
       /\ n \notin signalled /\ ~Outcome(n)'
       => \E m \in Run \ {n} : Open(m) /\ m \in signalled]_vars

\* However the chunks of stdout, the output file and the close events fall, no
\* message of a run is sent to the phone twice (sawAssistantMessage).
RepliesPrintedOnce == \A n \in Run : replies[n] <= printed[n]

\* A kill request reaches what runs: a process that was not sent SIGTERM is
\* the remembered one, unless an earlier run that was still dying when this one
\* started has closed since, and its late close event took this run's entry (the
\* set of startCodexExecPrompt and the deletes of handleCodexExecError, -Close
\* and handleKillRequest).  After such an event no kill request stops the
\* process; a run that starts when all earlier ones are closed is never lost.
RunningIsRemembered ==
  \A n \in Run : process[n] = "running" /\ n \notin signalled =>
    activeProcess = n \/ \E m \in dying[n] : process[m] = "closed"
=============================================================================
