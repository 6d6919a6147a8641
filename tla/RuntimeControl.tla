--------------------------- MODULE RuntimeControl ---------------------------
(***************************************************************************)
(* The runtimes of one VS Code window: which of them have a terminal, which *)
(* is preferred and which is active, and the handlers of the bridge that    *)
(* launch, attach, prompt, answer and interrupt them                        *)
(* (vscode-bridge/src/extension.ts, runtimeAdapters.ts, runtimeRegistry.ts, *)
(* runtimeLaunch.ts, promptDispatch.ts).                                    *)
(*                                                                          *)
(* The socket hands every message to handleMessage without waiting for the  *)
(* one before, so handlers interleave wherever they suspend: at the update  *)
(* of the settings, at the 1200 ms a new terminal is given, at the          *)
(* clipboard and at the Ctrl+C command.  Between these points a handler     *)
(* runs alone.                                                              *)
(***************************************************************************)
EXTENDS Integers, Sequences, FiniteSets

CONSTANTS
  Catalog,      \* the runtimes, in the order of createRuntimeAdapters
  Terminal,     \* those driven through a terminal; the others are extensions
  Codex,        \* the one whose prompts go to a `codex exec` process
  Installed,    \* those whose command is on the PATH, or whose extension is there
  Msg,          \* messages that may be in hand at once
  MaxTerminals, \* bound: terminals in the whole life of the window; the user
                \* opens and closes none that would leave no room for the bridge's
  None,         \* no runtime, no event
  Other         \* a name that is no runtime

Runtime == {Catalog[i] : i \in DOMAIN Catalog}

ASSUME RuntimeAssumption ==
  /\ Catalog \in Seq(Runtime)
  /\ Terminal \subseteq Runtime /\ Installed \subseteq Runtime /\ Codex \in Terminal
  /\ None \notin Runtime /\ Other \notin Runtime /\ None # Other
  /\ MaxTerminals \in Nat

VARIABLES
  connected,  \* isBackendConnected
  preferred,  \* the setting pocketVibe.preferredRuntime
  terms,      \* the runtime of every terminal by age, or None once it is closed
  opening,    \* terminals of the bridge whose open event has not come yet
  focus,      \* the active terminal, or 0
  errors,     \* runtimeErrorState: the runtimes with a recorded error
  running,    \* a codex process is remembered
  job,        \* per message: where its handler is suspended
  reported,   \* what the last capability report said
  tuned,      \* the user edited the setting since: VS Code tells nobody
  sent        \* what the last step sent: an event and perhaps a report

vars == <<connected, preferred, terms, opening, focus, errors, running, job, reported, tuned, sent>>

Target == Runtime \cup {None, Other}
Says == {"launched", "attached", "blocked", "dispatched", "error",
         "cannot launch", "cannot attach"}  \* errors whose reason is a runtime.* code
Events == {None} \cup [rt : Target, says : Says]
Sendable == [event : Events, report : BOOLEAN]
Silent == [event |-> None, report |-> FALSE]

Kinds == {"prompt", "command", "approve", "kill"}
Idle == [kind |-> "none", rt |-> None, at |-> "done", term |-> 0]
Jobs == {Idle}
  \cup [kind : {"launch"}, rt : Terminal, at : {"setting"}, term : {0}]
  \cup [kind : {"attach"}, rt : Runtime, at : {"setting"}, term : {0}]
  \cup [kind : Kinds, rt : Runtime, at : {"clipboard", "killing"}, term : {0}]
  \cup [kind : Kinds, rt : Terminal, at : {"starting"}, term : Nat \ {0}]

-----------------------------------------------------------------------------
(* What the bridge can tell about its runtimes. *)

(* findTerminalByPatterns: the oldest open terminal of the runtime. *)
Find(r) ==
  IF \E i \in DOMAIN terms : terms[i] = r
  THEN CHOOSE i \in DOMAIN terms : terms[i] = r /\ \A j \in DOMAIN terms : terms[j] = r => i <= j
  ELSE 0

Launchable == Terminal \cap Installed

(* The detections and createRuntimeDescriptor. *)
Attached(r) == IF r \in Terminal THEN Find(r) # 0 ELSE r \in Installed
Offline(r) == ~Attached(r) /\ r \notin Launchable
Ready(r) == r \in Terminal /\ Attached(r) /\ r \notin errors

FirstOf(S) ==
  IF S = {} THEN None
  ELSE Catalog[CHOOSE i \in DOMAIN Catalog :
         Catalog[i] \in S /\ \A j \in 1..(i - 1) : Catalog[j] \notin S]

(* selectActiveRuntime: the preferred runtime, the one of the active        *)
(* terminal, the first that is ready, the first that is not offline.        *)
Active ==
  LET online == {r \in Runtime : ~Offline(r)}
      ready == {r \in Runtime : Ready(r)}
      focused == {r \in Terminal : focus # 0 /\ Find(r) = focus}
  IN  IF preferred \in online THEN preferred
      ELSE FirstOf(IF focused # {} THEN focused ELSE IF ready # {} THEN ready ELSE online)

(* resolveRuntimeContext *)
Resolve(target) ==
  IF target = None THEN Active
  ELSE IF target \in Runtime /\ ~Offline(target) THEN target ELSE None

(* capabilityIsSupported, with the definitions of the two kinds of adapter. *)
Supports(r, kind) == r \in Terminal \/ kind = "prompt" \/ kind = "command"

Report == [attached |-> {r \in Runtime : Attached(r)},
           launchable |-> Launchable, errors |-> errors, active |-> Active]
NoReport == [attached |-> {}, launchable |-> {}, errors |-> {}, active |-> None]

-----------------------------------------------------------------------------
(* The ends of a step: sendToBackend and reportCapabilities reach the        *)
(* backend only while the socket is open.                                    *)
Event(r, what) == [rt |-> r, says |-> what]

SayOnly(e) ==
  /\ sent' = IF connected' THEN [event |-> e, report |-> FALSE] ELSE Silent
  /\ UNCHANGED <<reported, tuned>>

SayAndReport(e) ==
  /\ sent' = IF connected' THEN [event |-> e, report |-> TRUE] ELSE Silent
  /\ reported' = IF connected' THEN Report' ELSE reported
  /\ tuned' = (tuned /\ ~connected')

Quietly == sent' = Silent /\ UNCHANGED <<reported, tuned>>

(* ensureTerminalRunning, when there is no terminal: the new one is in the   *)
(* list at once, its open event comes later.                                 *)
Create(r) ==
  /\ terms' = Append(terms, r)
  /\ opening' = opening \cup {Len(terms) + 1}

(* Here and below, variants come first, for the mutants of PROJECT.json. *)
EnsureWithoutLooking(r) == Create(r)

Ensure(r) == IF Find(r) = 0 THEN Create(r) ELSE UNCHANGED <<terms, opening>>

(* recordRuntimeError, clearRuntimeError *)
Recorded(r, ok) == IF ok THEN errors \ {r} ELSE errors \cup {r}

Suspend(m, kind, r, at, t) ==
  job' = [job EXCEPT ![m] = [kind |-> kind, rt |-> r, at |-> at, term |-> t]]
Done(m) == job' = [job EXCEPT ![m] = Idle]

TypeOK ==
  /\ connected \in BOOLEAN /\ running \in BOOLEAN /\ tuned \in BOOLEAN
  /\ preferred \in Target
  /\ terms \in Seq(Terminal \cup {None})
  /\ opening \subseteq DOMAIN terms
  /\ focus \in {0} \cup DOMAIN terms
  /\ errors \subseteq Runtime
  /\ job \in [Msg -> Jobs]
  /\ reported \in [attached : SUBSET Runtime, launchable : SUBSET Runtime,
                   errors : SUBSET Runtime, active : Runtime \cup {None}]
  /\ sent \in Sendable

Init ==
  /\ connected = FALSE /\ running = FALSE /\ tuned = FALSE
  /\ preferred \in Target
  /\ terms = <<>> /\ opening = {} /\ focus = 0 /\ errors = {}
  /\ job = [m \in Msg |-> Idle]
  /\ reported = NoReport
  /\ sent = Silent

-----------------------------------------------------------------------------
(* What the user and VS Code do. *)

RoomFor(tm) ==
  Len(tm) + Cardinality({r \in Terminal : \A i \in DOMAIN tm : tm[i] # r}) <= MaxTerminals

(* The open event of a terminal of the bridge. *)
Opened(t) ==
  /\ t \in opening
  /\ opening' = opening \ {t}
  /\ UNCHANGED <<connected, preferred, terms, focus, errors, running, job>>
  /\ SayAndReport(None)

UserOpens(r) ==
  /\ terms' = Append(terms, r) /\ RoomFor(terms')
  /\ UNCHANGED <<connected, preferred, opening, focus, errors, running, job>>
  /\ SayAndReport(None)

UserCloses(t) ==
  /\ t \in DOMAIN terms \ opening /\ terms[t] # None
  /\ terms' = [terms EXCEPT ![t] = None] /\ RoomFor(terms')
  /\ focus' = IF focus = t THEN 0 ELSE focus
  /\ UNCHANGED <<connected, preferred, opening, errors, running, job>>
  /\ SayAndReport(None)

(* The user, or a show() of the bridge, makes another terminal active. *)
FocusMoves(t) ==
  /\ t \in {0} \cup DOMAIN terms /\ t # focus
  /\ t # 0 => terms[t] # None
  /\ focus' = t
  /\ UNCHANGED <<connected, preferred, terms, opening, errors, running, job>>
  /\ SayAndReport(None)

(* The user edits the preferred runtime in the settings: nothing listens. *)
UserPrefers(target) ==
  /\ target # preferred
  /\ preferred' = target
  /\ tuned' = TRUE /\ sent' = Silent
  /\ UNCHANGED <<connected, terms, opening, focus, errors, running, job, reported>>

(* The socket opens: ensurePreferredRuntimeReady, then a report.  `auto` is  *)
(* the setting autoLaunchPreferredRuntime.                                   *)
Connect(auto) ==
  /\ ~connected /\ connected' = TRUE
  /\ IF auto /\ preferred \in Terminal /\ Find(preferred) = 0
     THEN IF preferred \in Installed
          THEN Create(preferred) /\ UNCHANGED errors
          ELSE errors' = errors \cup {preferred} /\ UNCHANGED <<terms, opening>>
     ELSE UNCHANGED <<terms, opening, errors>>
  /\ UNCHANGED <<preferred, focus, running, job>>
  /\ SayAndReport(None)

Drop ==
  /\ connected /\ connected' = FALSE
  /\ Quietly
  /\ UNCHANGED <<preferred, terms, opening, focus, errors, running, job>>

(* handleCodexExecError and handleCodexExecClose of the remembered process. *)
RunEnds(ok) ==
  /\ running /\ running' = FALSE
  /\ errors' = IF ok THEN errors ELSE Recorded(Codex, FALSE)
  /\ UNCHANGED <<connected, preferred, terms, opening, focus, job>>
  /\ SayAndReport(IF ok THEN None ELSE Event(Codex, "error"))

-----------------------------------------------------------------------------
(* handleRuntimeLaunch and handleRuntimeAttach. *)

LaunchRefused(target) ==
  /\ target \notin Launchable
  /\ UNCHANGED <<connected, preferred, terms, opening, focus, running, job>>
  /\ IF target \in Terminal
     THEN errors' = Recorded(target, FALSE) /\ SayAndReport(Event(target, "error"))
     ELSE UNCHANGED errors /\ SayOnly(Event(target, "cannot launch"))

AttachRefused(target) ==
  /\ target \notin Runtime
  /\ UNCHANGED <<connected, preferred, terms, opening, focus, errors, running, job>>
  /\ SayOnly(Event(target, "cannot attach"))

(* Both suspend in setPreferredRuntime. *)
AskSetting(m, kind, r) ==
  /\ r \in (IF kind = "launch" THEN Launchable ELSE Runtime)
  /\ Suspend(m, kind, r, "setting", 0)
  /\ Quietly
  /\ UNCHANGED <<connected, preferred, terms, opening, focus, errors, running>>

Waits(m, at) == job[m].at = at

LaunchGoesOn(m) ==
  /\ Waits(m, "setting") /\ job[m].kind = "launch" /\ Done(m)
  /\ UNCHANGED <<connected, focus, running>>
  /\ LET r == job[m].rt IN
     /\ preferred' = r
     /\ Ensure(r)
     /\ errors' = Recorded(r, TRUE)
     /\ SayAndReport(Event(r, IF Find(r) = 0 THEN "launched" ELSE "attached"))

(* ensureRuntimeAttachTargetReady: a terminal runtime without a terminal is  *)
(* selected all the same, and its error is neither recorded nor cleared.     *)
AttachGoesOn(m) ==
  /\ Waits(m, "setting") /\ job[m].kind = "attach" /\ Done(m)
  /\ UNCHANGED <<connected, terms, opening, focus, running>>
  /\ LET r == job[m].rt
         there == r \notin Terminal \/ Find(r) # 0
     IN
     /\ preferred' = r
     /\ errors' = IF there THEN Recorded(r, TRUE) ELSE errors
     /\ SayAndReport(Event(r, IF there THEN "attached"
                              ELSE IF r \in Launchable THEN "blocked" ELSE "error"))

(* The update of the settings is refused. *)
SettingFails(m) ==
  /\ Waits(m, "setting") /\ Done(m)
  /\ errors' = Recorded(job[m].rt, FALSE)
  /\ UNCHANGED <<connected, preferred, terms, opening, focus, running>>
  /\ SayAndReport(Event(job[m].rt, "error"))

-----------------------------------------------------------------------------
(* handlePromptSubmit, handleCommandDispatch (the commands that are no       *)
(* script), handleApprovalResponse and handleKillRequest.                    *)

(* The event of an answer.  Approvals and kills answer with results, and the *)
(* event of a kill is no news of a launch or an attach.                      *)
Answer(kind, r, ok) ==
  IF kind \in {"prompt", "command"} THEN Event(r, IF ok THEN "dispatched" ELSE "error") ELSE None

FinishUnreported(kind, r, ok) ==
  /\ errors' = Recorded(r, ok)
  /\ SayOnly(Answer(kind, r, ok))

Finish(kind, r, ok) ==
  /\ errors' = Recorded(r, ok)
  /\ SayAndReport(Answer(kind, r, ok))

(* No runtime, or one that cannot do it. *)
Undeliverable(kind, target) ==
  LET r == Resolve(target) IN
  /\ r = None \/ ~Supports(r, kind)
  /\ UNCHANGED <<connected, preferred, terms, opening, focus, errors, running, job>>
  /\ SayOnly(Answer(kind, IF r = None THEN target ELSE r, FALSE))

(* dispatchPromptToRuntime for codex: startCodexExecPrompt starts a process  *)
(* or throws; module CodexExec follows the process.                          *)
Exec(kind, target, ok) ==
  /\ kind = "prompt" /\ Resolve(target) = Codex
  /\ ok => Codex \in Installed
  /\ running' = (running \/ ok)
  /\ UNCHANGED <<connected, preferred, terms, opening, focus, job>>
  /\ Finish(kind, Codex, ok)

ToTerminal(kind, r) ==
  /\ r \in Terminal /\ kind # "kill"
  /\ ~(kind = "prompt" /\ r = Codex)

(* getOrStartTerminal finds a terminal, and the text is typed at once. *)
TypeNow(kind, target) ==
  LET r == Resolve(target) IN
  /\ ToTerminal(kind, r) /\ Find(r) # 0
  /\ UNCHANGED <<connected, preferred, terms, opening, focus, running, job>>
  /\ Finish(kind, r, TRUE)

(* It starts one, and waits 1200 ms. *)
StartTerminal(m, kind, target) ==
  LET r == Resolve(target) IN
  /\ ToTerminal(kind, r) /\ Find(r) = 0
  /\ Create(r)
  /\ Suspend(m, kind, r, "starting", Len(terms) + 1)
  /\ Quietly
  /\ UNCHANGED <<connected, preferred, focus, errors, running>>

CopyPrompt(m, kind, target) ==
  LET r == Resolve(target) IN
  /\ r \in Runtime \ Terminal /\ Supports(r, kind)
  /\ Suspend(m, kind, r, "clipboard", 0)
  /\ Quietly
  /\ UNCHANGED <<connected, preferred, terms, opening, focus, errors, running>>

(* terminateActiveRuntimeProcess, or requireTerminal and the Ctrl+C command. *)
KillAtOnce(target) ==
  LET r == Resolve(target) IN
  /\ r \in Terminal
  /\ (r = Codex /\ running) \/ Find(r) = 0
  /\ running' = (running /\ r # Codex)
  /\ UNCHANGED <<connected, preferred, terms, opening, focus, job>>
  /\ Finish("kill", r, r = Codex /\ running)

SendCtrlC(m, target) ==
  LET r == Resolve(target) IN
  /\ r \in Terminal /\ Find(r) # 0 /\ ~(r = Codex /\ running)
  /\ Suspend(m, "kill", r, "killing", 0)
  /\ Quietly
  /\ UNCHANGED <<connected, preferred, terms, opening, focus, errors, running>>

(* The text goes to the terminal that was started, the clipboard or the      *)
(* command answers.  A terminal that was closed meanwhile swallows the text  *)
(* or throws.                                                                *)
GoesOn(m, ok) ==
  /\ job[m].at \in {"starting", "clipboard", "killing"} /\ Done(m)
  /\ Waits(m, "starting") /\ terms[job[m].term] # None => ok
  /\ UNCHANGED <<connected, preferred, terms, opening, focus, running>>
  /\ Finish(job[m].kind, job[m].rt, ok)

-----------------------------------------------------------------------------
(* One message arrives: handleMessage and handleCommandDispatch. *)
Arrives(m, kind, target) ==
  /\ job[m] = Idle
  /\ \/ kind = "launch" /\ (LaunchRefused(target) \/ AskSetting(m, kind, target))
     \/ kind = "attach" /\ (AttachRefused(target) \/ AskSetting(m, kind, target))
     \/ /\ kind \in Kinds
        /\ \/ Undeliverable(kind, target)
           \/ \E ok \in BOOLEAN : Exec(kind, target, ok)
           \/ TypeNow(kind, target) \/ StartTerminal(m, kind, target)
           \/ CopyPrompt(m, kind, target)
     \/ kind = "kill" /\ (KillAtOnce(target) \/ SendCtrlC(m, target))

Resumes(m) ==
  \/ LaunchGoesOn(m) \/ AttachGoesOn(m) \/ SettingFails(m)
  \/ \E ok \in BOOLEAN : GoesOn(m, ok)

Surroundings ==
  \/ \E t \in 0..Len(terms) : Opened(t) \/ UserCloses(t) \/ FocusMoves(t)
  \/ \E r \in Terminal : UserOpens(r)
  \/ \E target \in Target : UserPrefers(target)
  \/ Drop
  \/ \E b \in BOOLEAN : Connect(b) \/ RunEnds(b)

(* A message is read only while the socket is open; the launch and attach    *)
(* commands of VS Code name the preferred runtime and need no socket.        *)
Next ==
  \/ connected /\ \E m \in Msg, kind \in Kinds \cup {"launch", "attach"}, target \in Target :
       Arrives(m, kind, target)
  \/ \E m \in Msg, kind \in {"launch", "attach"} : Arrives(m, kind, preferred)
  \/ \E m \in Msg : Resumes(m)
  \/ Surroundings

Spec == Init /\ [][Next]_vars

-----------------------------------------------------------------------------
(* Properties *)

(* What the backend was told last is what a report would say now: whatever   *)
(* handlers, terminals, processes and connections do, each change is         *)
(* followed by a report, but for a setting the user edits and for a terminal *)
(* whose open event is still to come.                                        *)
ReportIsCurrent ==
  connected /\ ~tuned /\ opening = {} => reported = Report

(* The bridge opens a terminal only for a runtime that has none, although    *)
(* its handlers suspend between a request and the terminal it opens.         *)
OneTerminalEach ==
  [][Len(terms') > Len(terms) /\ Find(terms'[Len(terms')]) # 0
       => \E r \in Terminal : UserOpens(r)]_vars

=============================================================================
