--------------------------- MODULE ShellExecution ----------------------------
(***************************************************************************)
(* Scripts in the project shell: what the bridge does with a run_script    *)
(* command (vscode-bridge/src/extension.ts, shellExecution.ts).            *)
(*                                                                         *)
(* A call takes the shell's terminal, waits for its shell integration or   *)
(* for a timeout, starts an execution, and then waits for two things that  *)
(* come in either order: the end event, which VS Code sends to every       *)
(* listener, and the end of the output stream.  Calls share the terminal.  *)
(* VS Code, the shell and the user are external: commands print and end as *)
(* they like, and a terminal that is closed may never report an end.       *)
(*                                                                         *)
(* Execution s is the one call s started.  Lines are numbered; blank ones  *)
(* and the echo of the command, which are not sent, are left out.          *)
(***************************************************************************)
EXTENDS Naturals, Sequences, FiniteSets

CONSTANTS
  Call,        \* run_script commands
  Cap,         \* MAX_SCRIPT_OUTPUT_LINES
  MaxLines,    \* bound: lines an execution prints
  MaxTerminal  \* bound: shell terminals created, one after the other

ASSUME ShellAssumption == Cap \in Nat /\ MaxLines \in Nat /\ MaxTerminal \in Nat

VARIABLES
  terminal,    \* the newest shell terminal, or 0
  closed,      \* terminals the user closed
  integrated,  \* terminals with shell integration
  phase,       \* per call: new, waiting, executing, ended
  on,          \* per call: the terminal it took, or 0
  lines,       \* per call: complete lines of its execution read so far
  partial,     \* per call: the buffer holds an unfinished line
  stream,      \* per call: its output can still be read
  exit,        \* how its execution ended, or "none"
  resolved,    \* per call: what its wait for the end returned, or "none"
  sent,        \* per call: messages to the backend, in order
  failing      \* a script's error is recorded for the runtime

desktop == <<terminal, closed, integrated>>
output  == <<lines, partial, stream>>
vars    == <<desktop, phase, on, output, exit, resolved, sent, failing>>

Exit == {"ok", "fail", "unknown"}

Say(kind) == [kind |-> kind, n |-> 0]

Init ==
  /\ terminal = 0 /\ closed = {} /\ integrated = {}
  /\ phase = [s \in Call |-> "new"] /\ on = [s \in Call |-> 0]
  /\ lines = [s \in Call |-> 0] /\ partial = [s \in Call |-> FALSE] /\ stream = [s \in Call |-> FALSE]
  /\ exit = [s \in Call |-> "none"] /\ resolved = [s \in Call |-> "none"]
  /\ sent = [s \in Call |-> <<>>]
  /\ failing = FALSE

-----------------------------------------------------------------------------
(* What a call says *)

(* Mutant: the notice is repeated for each line beyond the cap.            *)
EmitLineAlways(n) ==
  IF n <= Cap THEN <<[kind |-> "line", n |-> n]>> ELSE <<Say("truncated")>>

(* emitShellOutputLine: the first Cap lines, then one notice.              *)
EmitLine(n) ==
  IF n <= Cap THEN <<[kind |-> "line", n |-> n]>>
  ELSE IF n = Cap + 1 THEN <<Say("truncated")>> ELSE <<>>

(* How a call ends, by what its wait returned: an exit code other than 0   *)
(* throws, and the handler reports and records the failure.                *)
Outcome(code) ==
  CASE code = "ok"      -> <<Say("completed"), Say("dispatched")>>
    [] code = "unknown" -> <<Say("unknown"), Say("dispatched")>>
    [] OTHER            -> <<Say("failed")>>

Begin == <<Say("started"), Say("echo")>>

-----------------------------------------------------------------------------
(* The bridge's handler *)

(* No runtime is available, or it cannot run scripts.                      *)
Refuse(s) ==
  /\ phase[s] = "new"
  /\ phase' = [phase EXCEPT ![s] = "ended"]
  /\ sent' = [sent EXCEPT ![s] = <<Say("refused")>>]
  /\ UNCHANGED <<desktop, on, output, exit, resolved, failing>>

(* An empty command throws at once.                                        *)
Reject(s) ==
  /\ phase[s] = "new"
  /\ phase' = [phase EXCEPT ![s] = "ended"]
  /\ sent' = [sent EXCEPT ![s] = <<Say("failed")>>]
  /\ failing' = TRUE
  /\ UNCHANGED <<desktop, on, output, exit, resolved>>

(* getOrCreateProjectShellTerminal.                                        *)
ShellTerminal == IF terminal \in {0} \cup closed THEN terminal + 1 ELSE terminal

(* The command starts in the terminals of the given calls.                 *)
Executing(S) ==
  /\ phase' = [s \in Call |-> IF s \in S THEN "executing" ELSE phase[s]]
  /\ stream' = [s \in Call |-> s \in S \/ stream[s]]
  /\ sent' = [s \in Call |-> IF s \in S THEN Begin ELSE sent[s]]

Run(s) ==
  /\ phase[s] = "new"
  /\ ShellTerminal <= MaxTerminal
  /\ terminal' = ShellTerminal
  /\ on' = [on EXCEPT ![s] = ShellTerminal]
  /\ \/ ShellTerminal \in integrated /\ Executing({s})
     \/ /\ ShellTerminal \notin integrated
        /\ phase' = [phase EXCEPT ![s] = "waiting"]
        /\ UNCHANGED <<stream, sent>>
  /\ UNCHANGED <<closed, integrated, lines, partial, exit, resolved, failing>>

(* The calls whose listener takes the integration of terminal t.           *)
Listening(t) == {s \in Call : phase[s] = "waiting" /\ on[s] = t}

Integrate(t) ==
  /\ t \in 1..terminal /\ t \notin integrated \cup closed
  /\ integrated' = integrated \cup {t}
  /\ Executing(Listening(t))
  /\ UNCHANGED <<terminal, closed, on, lines, partial, exit, resolved, failing>>

(* Mutant: no timer.                                                       *)
TimeoutIfOpen(s) ==
  /\ phase[s] = "waiting" /\ on[s] \notin closed
  /\ phase' = [phase EXCEPT ![s] = "ended"]
  /\ sent' = [sent EXCEPT ![s] = <<Say("blind"), Say("dispatched")>>]
  /\ failing' = FALSE
  /\ UNCHANGED <<desktop, on, output, exit, resolved>>

(* The timer wins: the command is typed into the terminal, also into one   *)
(* that was closed meanwhile, and nothing more is known of it.             *)
Timeout(s) ==
  /\ phase[s] = "waiting"
  /\ phase' = [phase EXCEPT ![s] = "ended"]
  /\ sent' = [sent EXCEPT ![s] = <<Say("blind"), Say("dispatched")>>]
  /\ failing' = FALSE
  /\ UNCHANGED <<desktop, on, output, exit, resolved>>

(* Both promises are settled: the call ends in the same turn.              *)
Settle(S, said) ==
  /\ phase' = [s \in Call |-> IF s \in S THEN "ended" ELSE phase[s]]
  /\ sent' = [s \in Call |-> said[s] \o IF s \in S THEN Outcome(resolved'[s]) ELSE <<>>]
  /\ failing' \in IF S = {} THEN {failing} ELSE {resolved'[s] = "fail" : s \in S}

-----------------------------------------------------------------------------
(* VS Code and the shell *)

(* A chunk completes a line.                                               *)
PrintLine(s) ==
  /\ stream[s] /\ lines[s] < MaxLines
  /\ lines' = [lines EXCEPT ![s] = @ + 1]
  /\ partial' = [partial EXCEPT ![s] = FALSE]
  /\ sent' = [sent EXCEPT ![s] = @ \o EmitLine(lines[s] + 1)]
  /\ UNCHANGED <<desktop, phase, on, stream, exit, resolved, failing>>

(* A chunk ends within a line, which stays in the buffer.                  *)
PrintPart(s) ==
  /\ stream[s] /\ lines[s] < MaxLines /\ ~partial[s]
  /\ partial' = [partial EXCEPT ![s] = TRUE]
  /\ UNCHANGED <<desktop, phase, on, lines, stream, exit, resolved, sent, failing>>

(* Mutant: what is left in the buffer is not flushed.                      *)
NotFlushed(s) == <<>>

(* What the final flush emits.                                             *)
Flushed(s) == IF partial[s] THEN EmitLine(lines[s] + 1) ELSE <<>>

EmptyBuffer(s) == partial' = [partial EXCEPT ![s] = FALSE]

(* The output ends and the rest of the buffer is flushed.                  *)
EndStream(s) ==
  /\ stream[s]
  /\ stream' = [stream EXCEPT ![s] = FALSE]
  /\ EmptyBuffer(s)
  /\ lines' = IF partial[s] THEN [lines EXCEPT ![s] = @ + 1] ELSE lines
  /\ UNCHANGED resolved
  /\ Settle({q \in {s} : resolved[q] # "none" /\ phase[q] = "executing"},
            [sent EXCEPT ![s] = @ \o Flushed(s)])
  /\ UNCHANGED <<desktop, on, exit>>

(* Mutant: the listener compares terminals only.                           *)
HearsTerminal(s) == {q \in Call : phase[q] = "executing" /\ resolved[q] = "none" /\ on[q] = on[s]}

(* Mutant: the output is awaited before the listener is registered.        *)
HearsAfterOutput(s) == {q \in {s} : phase[q] = "executing" /\ resolved[q] = "none" /\ ~stream[q]}

(* The calls whose listener takes the end of execution s: its own.         *)
Hears(s) == {q \in {s} : phase[q] = "executing" /\ resolved[q] = "none"}

(* Mutant: the output is not awaited.                                      *)
NotAwaited(s) == TRUE

OutputRead(s) == ~stream[s]

EndExecution(s, code) ==
  /\ phase[s] = "executing" /\ exit[s] = "none"
  /\ exit' = [exit EXCEPT ![s] = code]
  /\ resolved' = [q \in Call |-> IF q \in Hears(s) THEN code ELSE resolved[q]]
  /\ Settle({q \in Hears(s) : OutputRead(q)}, sent)
  /\ UNCHANGED <<desktop, on, output>>

CloseTerminal ==
  /\ terminal \notin {0} \cup closed
  /\ closed' = closed \cup {terminal}
  /\ UNCHANGED <<terminal, integrated, phase, on, output, exit, resolved, sent, failing>>

Next ==
  \/ \E s \in Call :
       \/ Refuse(s) \/ Reject(s) \/ Run(s) \/ Timeout(s)
       \/ PrintLine(s) \/ PrintPart(s) \/ EndStream(s)
       \/ \E code \in Exit : EndExecution(s, code)
  \/ \E t \in 1..MaxTerminal : Integrate(t)
  \/ CloseTerminal

(* The timer fires; the output of an execution that has ended ends too.    *)
Fairness ==
  \A s \in Call : WF_vars(Timeout(s)) /\ WF_vars(exit[s] # "none" /\ EndStream(s))

Spec == Init /\ [][Next]_vars
FairSpec == Spec /\ Fairness
-----------------------------------------------------------------------------
(* Properties *)

Kind == {"refused", "failed", "blind", "started", "echo", "line", "truncated",
         "completed", "unknown", "dispatched"}
Message == [kind : Kind, n : Nat]

(* Every variable has its type; a line is buffered only while output can   *)
(* still be read, and a call that has a verdict started an execution.      *)
TypeOK ==
  /\ terminal \in Nat /\ closed \subseteq 1..terminal /\ integrated \subseteq 1..terminal
  /\ phase \in [Call -> {"new", "waiting", "executing", "ended"}] /\ on \in [Call -> 0..terminal]
  /\ lines \in [Call -> Nat] /\ partial \in [Call -> BOOLEAN] /\ stream \in [Call -> BOOLEAN]
  /\ \A s \in Call : (partial[s] => stream[s]) /\ (exit[s] # "none" => on[s] # 0)
  /\ exit \in [Call -> Exit \cup {"none"}] /\ resolved \in [Call -> Exit \cup {"none"}]
  /\ sent \in [Call -> Seq(Message)] /\ failing \in BOOLEAN

(* What a call has said when n lines were read: that it started, the first *)
(* Cap lines in their order, and one notice if there were more.            *)
Printed(n) == [i \in 1..(IF n < Cap THEN n ELSE Cap) |-> [kind |-> "line", n |-> i]]
Said(n) == Begin \o Printed(n) \o (IF n > Cap THEN <<Say("truncated")>> ELSE <<>>)

(* A call with an execution says every line, up to the cap, in order, and, *)
(* once both the end and the output's end are known, how it ended, after   *)
(* which it says nothing; the outcome is that of its own execution, also   *)
(* when another one ends in the terminal both share.                       *)
(* (runCommandInProjectShell awaits the exit code and then the output;     *)
(* waitForShellExecutionEnd compares the execution and the terminal.)      *)
Transcript ==
  \A s \in Call : phase[s] = "executing" \/ exit[s] # "none" =>
    sent[s] = Said(lines[s])
                \o (IF exit[s] # "none" /\ ~stream[s] THEN Outcome(exit[s]) ELSE <<>>)

(* No call is forgotten: one that waits for shell integration goes on, also *)
(* in a terminal that is closed meanwhile (waitForShellIntegration has a    *)
(* timer), and one whose execution has ended answers, in whichever order    *)
(* the end and the end of the output came.                                  *)
NoCallIsForgotten ==
  \A s \in Call :
    (phase[s] = "waiting" \/ exit[s] # "none") ~>
      (phase[s] = "ended" \/ (phase[s] = "executing" /\ exit[s] = "none"))
=============================================================================
