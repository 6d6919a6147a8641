---------------------------- MODULE BridgeProofs ----------------------------
(***************************************************************************)
(* The parts of the bridge that stand alone.  CodexExec, for any number of  *)
(* prompts and messages: its marks and its entry keep their meaning, and a  *)
(* run ends without a word only beside a stopped one that is still dying.   *)
(* BridgeConnection, for any number of calls and sockets: the bridge is     *)
(* never stranded, a retry is pending only while it is down, a user's       *)
(* disconnect lasts, and replaced sockets are not heard.                    *)
(***************************************************************************)
EXTENDS CodexExec, BridgeConnection, TLAPS

-----------------------------------------------------------------------------
(* CodexExec *)

\* Runs are numbered in the order of their prompts, and only a run that was
\* started can have been signalled.
Numbered ==
  /\ \A n \in Run : n > started => process[n] = "unused"
  /\ \A n \in signalled : process[n] # "unused"

\* A message waiting for its newline was printed and not yet sent.
WaitingWasPrinted ==
  \A n \in Run : /\ replies[n] <= printed[n]
                 /\ n \in partial => replies[n] < printed[n]

\* A process whose spawn failed is the remembered one until its error event,
\* after which the phone was told.
FailureIsTold ==
  \A n \in Run : /\ process[n] = "unspawned" => activeProcess = n
                 /\ process[n] = "broken" => "failed to start" \in told[n]

\* Whoever is still to close was still to close when a later run started.
StragglersAreDying ==
  \A m, n \in Run : Open(m) /\ m < n /\ n <= started => m \in dying[n]

IInv == /\ TypeOK /\ Numbered /\ MarkHasTarget /\ ActiveIsNewest /\ WaitingWasPrinted
        /\ FailureIsTold /\ StragglersAreDying /\ RunningIsRemembered

\* None is no run's number.
LEMMA NoneIsNoRun == None \notin Run
  BY CodexAssumption DEF Run

\* Every state between two actions is Init's or a successor's: the invariant
\* holds at first,
LEMMA InitIInv == Init => IInv
<1> SUFFICES ASSUME Init PROVE IInv
  OBVIOUS
<1> USE CodexAssumption
<1>1. 0 \in 0..MaxRun
  OBVIOUS
<1>2. TypeOK
  BY <1>1 DEF Init, TypeOK
<1>3. Numbered /\ MarkHasTarget /\ ActiveIsNewest
  BY DEF Init, Numbered, MarkHasTarget, ActiveIsNewest
<1>4. WaitingWasPrinted
  BY DEF Init, WaitingWasPrinted
<1>5. FailureIsTold /\ StragglersAreDying /\ RunningIsRemembered
  BY DEF Init, FailureIsTold, StragglersAreDying, RunningIsRemembered, Open
<1> QED BY <1>2, <1>3, <1>4, <1>5 DEF IInv

\* a new prompt keeps it,
LEMMA PromptKeepsIInv ==
  ASSUME IInv, NEW spawned \in BOOLEAN, PromptSubmit(spawned)
  PROVE  IInv'
<1> USE CodexAssumption
<1> DEFINE new == started + 1
<1>0. started \in 0..MaxRun /\ started < MaxRun /\ started' = new
  BY DEF IInv, TypeOK, PromptSubmit
<1>1. new \in Run /\ new > started /\ new = started' /\ process[new] = "unused" /\ new \notin signalled
  <2>1. new \in 1..MaxRun /\ new > started
    BY <1>0
  <2> QED BY <1>0, <2>1 DEF IInv, Numbered, Run
<1>2. \A n \in Run : n # new => process'[n] = process[n]
  BY DEF IInv, TypeOK, PromptSubmit
<1>3. process'[new] \in {"running", "unspawned"}
  BY <1>1 DEF IInv, TypeOK, PromptSubmit
<1>4. activeProcess # None => activeProcess \in Run /\ Open(activeProcess) /\ activeProcess # new
  BY <1>1 DEF IInv, TypeOK, ActiveIsNewest, Open
<1>5. TypeOK'
  <2>1. process' \in [Run -> {"unused", "unspawned", "broken", "running", "closed"}]
    BY <1>1 DEF IInv, TypeOK, PromptSubmit
  <2>2. activeProcess' \in {n \in Run : Open(n)'}
    BY <1>1, <1>3 DEF PromptSubmit, Open
  <2>3. started' \in 0..MaxRun
    BY <1>0
  <2>4. stoppedMark' \in BOOLEAN /\ signalled' \subseteq Run
    BY DEF IInv, TypeOK, PromptSubmit, TerminateActive
  <2>5. dying' \in [Run -> SUBSET Run]
    BY DEF IInv, TypeOK, PromptSubmit
  <2> QED BY <2>1, <2>2, <2>3, <2>4, <2>5 DEF IInv, TypeOK, PromptSubmit, outputVars
<1>6. Numbered'
  <2>1. \A n \in Run : n > started' => n > started /\ n # new
    BY <1>0 DEF Run
  <2>2. \A n \in signalled' : n \in Run /\ process[n] # "unused"
    BY <1>4, NoneIsNoRun DEF IInv, TypeOK, Numbered, PromptSubmit, TerminateActive, Open
  <2> QED BY <2>1, <2>2, <1>1, <1>2 DEF IInv, Numbered
<1>7. MarkHasTarget'
  BY <1>1, <1>2, <1>3, <1>4 DEF IInv, TypeOK, MarkHasTarget, PromptSubmit, TerminateActive, Open
<1>8. ActiveIsNewest'
  BY <1>1, <1>4 DEF PromptSubmit, TerminateActive, ActiveIsNewest
<1>9. WaitingWasPrinted'
  BY DEF IInv, WaitingWasPrinted, PromptSubmit, outputVars
<1>10. FailureIsTold'
  BY <1>1, <1>2, <1>3 DEF IInv, FailureIsTold, PromptSubmit, Quiet, outputVars
<1>11. RunningIsRemembered'
  <2> SUFFICES ASSUME NEW n \in Run, n # new, process[n] = "running", n \notin signalled'
               PROVE  \E m \in dying'[n] : process'[m] = "closed"
    BY <1>2 DEF RunningIsRemembered, PromptSubmit
  <2>1. n \notin signalled /\ n # activeProcess
    BY DEF PromptSubmit, TerminateActive
  <2>2. PICK m \in dying[n] : process[m] = "closed"
    BY <2>1 DEF IInv, RunningIsRemembered
  <2>3. m \in Run /\ m # new /\ dying'[n] = dying[n]
    BY <2>2, <1>1 DEF IInv, TypeOK, PromptSubmit
  <2> QED BY <2>2, <2>3, <1>2
<1>12. StragglersAreDying'
  <2> SUFFICES ASSUME NEW m \in Run, NEW n \in Run, Open(m)', m < n, n <= new
               PROVE  m \in dying'[n]
    BY <1>0 DEF StragglersAreDying
  <2>1. m # new
    BY <1>0 DEF Run
  <2>2. Open(m)
    BY <2>1, <1>2 DEF Open
  <2>3. CASE n = new
    BY <2>2, <2>3 DEF IInv, TypeOK, PromptSubmit
  <2>4. CASE n # new
    <3>1. n <= started
      BY <2>4, <1>0 DEF Run
    <3> QED BY <3>1, <2>2, <2>4, <1>1 DEF IInv, TypeOK, StragglersAreDying, PromptSubmit
  <2> QED BY <2>3, <2>4
<1> QED BY <1>5, <1>6, <1>7, <1>8, <1>9, <1>10, <1>11, <1>12 DEF IInv

\* a kill request keeps it,
LEMMA KillKeepsIInv ==
  ASSUME IInv, KillRequest
  PROVE  IInv'
<1> USE CodexAssumption
<1>1. activeProcess # None => activeProcess \in Run /\ Open(activeProcess)
  BY DEF IInv, TypeOK
<1>2. TypeOK'
  BY <1>1 DEF IInv, TypeOK, KillRequest, TerminateActive, RemoveEntry, outputVars, Open
<1>3. \A n \in signalled' : n \in signalled \/ (n = activeProcess /\ activeProcess # None)
  BY NoneIsNoRun DEF KillRequest, TerminateActive
<1>4. Numbered'
  BY <1>1, <1>3 DEF IInv, Numbered, KillRequest, outputVars, Open
<1>5. MarkHasTarget'
  BY <1>1 DEF IInv, MarkHasTarget, KillRequest, TerminateActive, Open
<1>6. ActiveIsNewest' /\ WaitingWasPrinted'
  BY DEF IInv, ActiveIsNewest, WaitingWasPrinted, KillRequest, RemoveEntry, outputVars
<1>7. FailureIsTold'
  BY DEF IInv, FailureIsTold, KillRequest, Quiet, outputVars
<1>8. RunningIsRemembered'
  BY <1>1, NoneIsNoRun DEF IInv, RunningIsRemembered, KillRequest, TerminateActive, outputVars
<1>9. StragglersAreDying'
  BY DEF IInv, StragglersAreDying, KillRequest, outputVars, Open
<1> QED BY <1>2, <1>4, <1>5, <1>6, <1>7, <1>8, <1>9 DEF IInv

\* and so do the events of a process: a failed spawn,
LEMMA SpawnErrorKeepsIInv ==
  ASSUME IInv, NEW n \in Run, SpawnError(n)
  PROVE  IInv'
<1> USE CodexAssumption
<1>1. \A m \in Run : (Open(m)' <=> Open(m)) /\ (process'[m] = "unused" <=> process[m] = "unused")
  BY DEF IInv, TypeOK, SpawnError, Open
<1>2. TypeOK'
  BY DEF IInv, TypeOK, SpawnError, RemoveEntry, Open
<1>3. Numbered' /\ MarkHasTarget'
  BY <1>1 DEF IInv, TypeOK, Numbered, MarkHasTarget, SpawnError
<1>4. ActiveIsNewest' /\ WaitingWasPrinted'
  BY DEF IInv, ActiveIsNewest, WaitingWasPrinted, SpawnError, RemoveEntry
<1>5. activeProcess = n /\ \A m \in Run : told[m] \subseteq told'[m]
  BY DEF IInv, TypeOK, FailureIsTold, SpawnError
<1>6. FailureIsTold'
  BY <1>5 DEF IInv, TypeOK, FailureIsTold, SpawnError
<1>7. RunningIsRemembered'
  BY <1>5 DEF IInv, TypeOK, RunningIsRemembered, SpawnError
<1>8. StragglersAreDying'
  BY <1>1 DEF IInv, StragglersAreDying, SpawnError
<1> QED BY <1>2, <1>3, <1>4, <1>6, <1>7, <1>8 DEF IInv

\* its output,
LEMMA OutputKeepsIInv ==
  ASSUME IInv, NEW n \in Run, (\E newline \in BOOLEAN : WriteStdout(n, newline)) \/ EndLine(n)
  PROVE  IInv'
<1>1. UNCHANGED <<process, activeProcess, stoppedMark, signalled, told, started, dying>>
  BY DEF WriteStdout, EndLine
<1>2. n \in Run /\ replies[n] \in Nat /\ printed[n] \in Nat /\ replies[n] <= printed[n]
  BY DEF IInv, TypeOK, WaitingWasPrinted
<1>3. /\ partial' \subseteq Run /\ printed' \in [Run -> Nat] /\ replies' \in [Run -> Nat]
      /\ \A m \in Run : m # n => /\ replies'[m] = replies[m] /\ printed'[m] = printed[m]
                                 /\ m \in partial' => m \in partial
      /\ replies'[n] <= printed'[n]
      /\ n \in partial' => replies'[n] < printed'[n]
  <2>1. CASE EndLine(n)
    <3>1. partial' = partial \ {n} /\ n \in partial /\ printed' = printed
          /\ replies' = [replies EXCEPT ![n] = replies[n] + 1]
      BY <2>1 DEF EndLine
    <3>2. replies[n] + 1 \in Nat /\ replies[n] + 1 <= printed[n]
      BY <3>1, <1>2 DEF IInv, WaitingWasPrinted
    <3> QED BY <3>1, <3>2, <1>2 DEF IInv, TypeOK
  <2>2. CASE \E newline \in BOOLEAN : WriteStdout(n, newline)
    <3>1. printed' = [printed EXCEPT ![n] = printed[n] + 1] /\ n \notin partial
      BY <2>2 DEF WriteStdout
    <3>2. \/ replies' = [replies EXCEPT ![n] = replies[n] + 1] /\ partial' = partial
          \/ replies' = replies /\ partial' = partial \cup {n}
      BY <2>2 DEF WriteStdout
    <3>3. /\ printed' \in [Run -> Nat] /\ printed'[n] = printed[n] + 1
          /\ \A m \in Run : m # n => printed'[m] = printed[m]
      <4>1. printed[n] + 1 \in Nat
        BY <1>2
      <4> QED BY <4>1, <3>1, <1>2 DEF IInv, TypeOK
    <3>4. CASE replies' = [replies EXCEPT ![n] = replies[n] + 1] /\ partial' = partial
      <4>1. replies[n] + 1 \in Nat /\ replies[n] + 1 <= printed[n] + 1
        BY <1>2
      <4> QED BY <4>1, <3>4, <3>3, <3>1, <1>2 DEF IInv, TypeOK
    <3>5. CASE replies' = replies /\ partial' = partial \cup {n}
      <4>1. replies[n] < printed[n] + 1 /\ replies[n] <= printed[n] + 1
        BY <1>2
      <4> QED BY <4>1, <3>5, <3>3, <1>2 DEF IInv, TypeOK
    <3> QED BY <3>2, <3>4, <3>5
  <2> QED BY <2>1, <2>2
<1>4. TypeOK'
  BY <1>1, <1>3 DEF IInv, TypeOK, Open
<1>5. Numbered' /\ MarkHasTarget' /\ ActiveIsNewest'
  BY <1>1 DEF IInv, Numbered, MarkHasTarget, ActiveIsNewest, Open
<1>6. WaitingWasPrinted'
  BY <1>3 DEF IInv, WaitingWasPrinted
<1>7. FailureIsTold' /\ StragglersAreDying' /\ RunningIsRemembered'
  BY <1>1 DEF IInv, FailureIsTold, StragglersAreDying, RunningIsRemembered, Open
<1> QED BY <1>4, <1>5, <1>6, <1>7 DEF IInv

\* and its close.
LEMMA CloseKeepsIInv ==
  ASSUME IInv, NEW n \in Run, NEW code \in {"zero", "nonzero", "signal"}, NEW left \in BOOLEAN,
         Close(n, code, left)
  PROVE  IInv'
<1> USE CodexAssumption
<1>1. /\ replies' \in [Run -> Nat]
      /\ told' \in [Run -> SUBSET {"failed to start", "failed", "no visible reply"}]
      /\ \A m \in Run : m # n => replies'[m] = replies[m]
      /\ replies'[n] <= printed[n]
  <2>1. CASE stoppedMark
    BY <2>1 DEF IInv, TypeOK, WaitingWasPrinted, Close
  <2>2. CASE ~stoppedMark
    <3>1. ReportEnd(n, code, left) /\ (left => printed[n] > 0)
      BY <2>2 DEF Close
    <3>2. replies[n] \in Nat /\ printed[n] \in Nat /\ replies[n] <= printed[n]
      BY DEF IInv, TypeOK, WaitingWasPrinted
    <3>3. /\ replies[n] + FallbackReplies(n, left) \in Nat
          /\ replies[n] + FallbackReplies(n, left) <= printed[n]
      BY <3>1, <3>2 DEF FallbackReplies
    <3> QED BY <3>1, <3>3 DEF IInv, TypeOK, ReportEnd
  <2> QED BY <2>1, <2>2 DEF IInv, TypeOK
<1>2. TypeOK'
  BY <1>1 DEF IInv, TypeOK, Close, RemoveEntry, ClearMark
<1>3. Numbered' /\ MarkHasTarget' /\ ActiveIsNewest'
  BY DEF IInv, TypeOK, Numbered, MarkHasTarget, ActiveIsNewest, Close, RemoveEntry, ClearMark
<1>4. WaitingWasPrinted'
  BY <1>1 DEF IInv, TypeOK, WaitingWasPrinted, Close
<1>5. /\ process' = [process EXCEPT ![n] = "closed"] /\ signalled' = signalled
      /\ \A m \in Run : told[m] \subseteq told'[m]
  <2>1. \A m \in Run : told[m] \subseteq told'[m]
    <3>1. CASE told' = told
      BY <3>1
    <3>2. CASE ReportEnd(n, code, left)
      BY <3>2 DEF ReportEnd, IInv, TypeOK
    <3> QED BY <3>1, <3>2 DEF Close
  <2> QED BY <2>1 DEF Close
<1>6. FailureIsTold'
  BY <1>5 DEF IInv, TypeOK, FailureIsTold, Close, Quiet
<1>0. dying' = dying /\ process \in [Run -> {"unused", "unspawned", "broken", "running", "closed"}]
  BY DEF Close, IInv, TypeOK
<1>7. RunningIsRemembered'
  <2> SUFFICES ASSUME NEW k \in Run, k # n, process[k] = "running", k \notin signalled
               PROVE  \E m \in dying[k] : process'[m] = "closed"
    BY <1>0, <1>5 DEF RunningIsRemembered
  <2>1. CASE \E m \in dying[k] : process[m] = "closed"
    BY <2>1, <1>5 DEF IInv, TypeOK
  <2>2. CASE activeProcess = k
    <3>1. k = started /\ process[n] # "unused"
      BY <2>2, NoneIsNoRun DEF IInv, ActiveIsNewest, Close
    <3>2. ~(n > started)
      BY <3>1 DEF IInv, Numbered
    <3>3. n < k /\ k <= started
      <4>1. n \in Nat /\ k \in Nat
        BY DEF Run
      <4> QED BY <4>1, <3>1, <3>2
    <3>4. n \in dying[k]
      BY <3>3 DEF IInv, StragglersAreDying, Close, Open
    <3> QED BY <3>4, <1>5 DEF IInv, TypeOK
  <2> QED BY <2>1, <2>2 DEF IInv, RunningIsRemembered
<1>8. StragglersAreDying'
  <2>1. started' = started /\ \A m \in Run : Open(m)' => Open(m)
    BY <1>0, <1>5 DEF Close, Open
  <2> QED BY <2>1, <1>0 DEF IInv, StragglersAreDying
<1> QED BY <1>2, <1>3, <1>4, <1>6, <1>7, <1>8 DEF IInv

\* The inductive invariant is kept by every step.
LEMMA NextKeepsIInv == IInv /\ [Next]_vars => IInv'
<1> SUFFICES ASSUME IInv, [Next]_vars PROVE IInv'
  OBVIOUS
<1>1. CASE \E spawned \in BOOLEAN : PromptSubmit(spawned)
  BY <1>1, PromptKeepsIInv
<1>2. CASE KillRequest
  BY <1>2, KillKeepsIInv
<1>3. CASE \E n \in Run : SpawnError(n)
  BY <1>3, SpawnErrorKeepsIInv
<1>4. CASE \E n \in Run : (\E newline \in BOOLEAN : WriteStdout(n, newline)) \/ EndLine(n)
  BY <1>4, OutputKeepsIInv
<1>5. CASE \E n \in Run : \E code \in {"zero", "nonzero", "signal"}, left \in BOOLEAN :
             Close(n, code, left)
  BY <1>5, CloseKeepsIInv
<1>6. CASE UNCHANGED vars
  BY <1>6 DEF vars, IInv, TypeOK, Numbered, MarkHasTarget, ActiveIsNewest, WaitingWasPrinted,
         FailureIsTold, StragglersAreDying, RunningIsRemembered, Open
<1> QED BY <1>1, <1>2, <1>3, <1>4, <1>5, <1>6 DEF Next

\* The state always has its types, the mark always has a dying process it was
\* set for, and a kill request always interrupts the newest run.
THEOREM MarkAndEntryMeanWhatTheySay == Spec => [](TypeOK /\ MarkHasTarget /\ ActiveIsNewest)
<1>1. IInv => TypeOK /\ MarkHasTarget /\ ActiveIsNewest
  BY DEF IInv
<1> QED BY InitIInv, NextKeepsIInv, <1>1, PTL DEF Spec

\* What the bridge remembers as the process of a runtime is always the newest
\* run, and was not told to stop.
THEOREM EntryIsNewest == Spec => []ActiveIsNewest
<1>1. IInv => ActiveIsNewest
  BY DEF IInv
<1> QED BY InitIInv, NextKeepsIInv, <1>1, PTL DEF Spec

\* However many runs come and go, a process that runs and was not stopped is
\* the one a kill request stops, unless an earlier run that was still dying
\* when it started has closed since and took its entry.
THEOREM KillReachesWhatRuns == Spec => []RunningIsRemembered
<1>1. IInv => RunningIsRemembered
  BY DEF IInv
<1> QED BY InitIInv, NextKeepsIInv, <1>1, PTL DEF Spec

\* However stdout, the output file and the close events fall, no message of a
\* run is sent to the phone twice.
THEOREM NoMessageTwice == Spec => []RepliesPrintedOnce
<1>1. IInv => RepliesPrintedOnce
  BY DEF IInv, TypeOK, WaitingWasPrinted, RepliesPrintedOnce
<1> QED BY InitIInv, NextKeepsIInv, <1>1, PTL DEF Spec

\* A run nobody stopped can end without a reply or a report only while another
\* run, which was stopped, has not closed: submitting one prompt at a time is
\* enough to always hear how it ended.
THEOREM OnlyStragglersSilence == Spec => SilentOnlyBesideStraggler
<1> DEFINE Silent(n) == /\ process[n] # "closed" /\ process'[n] = "closed"
                        /\ n \notin signalled /\ ~Outcome(n)'
           Step == \A n \in Run : Silent(n) => \E m \in Run \ {n} : Open(m) /\ m \in signalled
<1>1. IInv /\ [Next]_vars => [Step]_vars
  <2> SUFFICES ASSUME IInv, Next, NEW n \in Run, Silent(n)
               PROVE  \E m \in Run \ {n} : Open(m) /\ m \in signalled
    OBVIOUS
  <2>1. PICK code \in {"zero", "nonzero", "signal"}, left \in BOOLEAN : Close(n, code, left)
    <3>1. process \in [Run -> {"unused", "unspawned", "broken", "running", "closed"}]
      BY DEF IInv, TypeOK
    <3>2. ~\E spawned \in BOOLEAN : PromptSubmit(spawned)
      BY <3>1 DEF PromptSubmit
    <3>3. ~KillRequest
      BY DEF KillRequest
    <3>4. \A m \in Run : ~SpawnError(m) /\ ~EndLine(m)
      BY <3>1 DEF SpawnError, EndLine
    <3>5. \A m \in Run, newline \in BOOLEAN : ~WriteStdout(m, newline)
      BY DEF WriteStdout
    <3>6. PICK m \in Run, code \in {"zero", "nonzero", "signal"}, left \in BOOLEAN :
            Close(m, code, left)
      BY <3>2, <3>3, <3>4, <3>5 DEF Next
    <3>7. m = n
      BY <3>1, <3>6 DEF Close
    <3> QED BY <3>6, <3>7
  <2>2. ASSUME ~stoppedMark PROVE FALSE
    <3>1. ReportEnd(n, code, left)
      BY <2>1, <2>2 DEF Close
    <3>0. replies[n] + FallbackReplies(n, left) \in Nat
      <4>1. replies[n] \in Nat /\ FallbackReplies(n, left) \in {0, 1}
        BY DEF IInv, TypeOK, FallbackReplies
      <4> QED BY <4>1
    <3>2. CASE code = "nonzero"
      BY <3>1, <3>2 DEF ReportEnd, Outcome, IInv, TypeOK
    <3>3. CASE code # "nonzero" /\ replies[n] + FallbackReplies(n, left) = 0
      BY <3>1, <3>3 DEF ReportEnd, Outcome, IInv, TypeOK
    <3>4. CASE replies[n] + FallbackReplies(n, left) # 0
      <4>1. replies'[n] = replies[n] + FallbackReplies(n, left)
        BY <3>1 DEF ReportEnd, IInv, TypeOK
      <4>2. replies[n] + FallbackReplies(n, left) > 0
        BY <3>0, <3>4
      <4> QED BY <4>1, <4>2 DEF Outcome
    <3> QED BY <3>2, <3>3, <3>4
  <2> QED BY <2>2 DEF IInv, MarkHasTarget
<1> QED BY InitIInv, NextKeepsIInv, <1>1, PTL DEF Spec, SilentOnlyBesideStraggler

-----------------------------------------------------------------------------
(* BridgeConnection *)

\* The current socket has its listeners until it is forgotten.
CurrentIsWired == socket # NoSocket => socket \in wired

\* The properties support each other: the close event that reschedules is heard
\* because the current socket is wired, and is the current one because nothing
\* else is.
ConnectionInv ==
  /\ ConnectionTypeOK /\ CurrentIsWired
  /\ NeverStranded /\ RetryMeansDown
  /\ DisconnectedStays /\ OnlyCurrentIsHeard

\* The invariant holds at first,
LEMMA ConnectionStarts ==
  ASSUME ConnectionInit
  PROVE  ConnectionInv
<1> USE BridgeAssumption
<1>1. 0 \in 0..MaxAttempt
  OBVIOUS
<1>2. ConnectionTypeOK
  BY <1>1 DEF ConnectionInit, ConnectionTypeOK
<1> QED BY <1>2
    DEF ConnectionInit, ConnectionInv, CurrentIsWired, NeverStranded,
        RetryMeansDown, DisconnectedStays, OnlyCurrentIsHeard

\* an attempt to connect keeps it, with a new socket or without,
LEMMA OpenSocketKeeps ==
  ASSUME ConnectionInv, NEW address \in {"none", "valid", "invalid"}, NEW isReconnect \in BOOLEAN,
         OpenSocket(address, isReconnect), asking' \subseteq Call
  PROVE  ConnectionInv'
<1> USE BridgeAssumption
<1>1. /\ config' = address /\ manual' = FALSE /\ timer' = FALSE /\ status' = "connecting"
      /\ UNCHANGED <<reporting, up>>
      /\ attempt' = IF isReconnect THEN attempt ELSE 0
  BY DEF OpenSocket
<1>2. attempt' \in 0..MaxAttempt
  BY <1>1 DEF ConnectionInv, ConnectionTypeOK
<1>3. CASE address = "valid"
  <2>1. PICK s \in Sock :
          /\ phase[s] = "unused"
          /\ phase' = [ClosedCurrent EXCEPT ![s] = "connecting"]
          /\ wired' = (wired \ {socket}) \cup {s} /\ socket' = s
          /\ greeted' = greeted \ {s}
    BY <1>3 DEF OpenSocket, NewSocket, Unwired
  <2>2. wired' = {s} /\ s # NoSocket
    BY <2>1 DEF ConnectionInv, OnlyCurrentIsHeard
  <2>3. phase' \in [Sock -> {"unused", "connecting", "open", "closing"}] /\ phase'[s] = "connecting"
    BY <2>1 DEF ConnectionInv, ConnectionTypeOK, ClosedCurrent
  <2>4. ConnectionTypeOK'
    BY <1>1, <1>2, <2>1, <2>2, <2>3 DEF ConnectionInv, ConnectionTypeOK
  <2> QED BY <1>1, <2>1, <2>2, <2>4
    DEF ConnectionInv, CurrentIsWired, NeverStranded, RetryMeansDown,
        DisconnectedStays, OnlyCurrentIsHeard
<1>4. CASE address # "valid"
  <2>1. /\ phase' = ClosedCurrent /\ wired' = wired \ {socket} /\ socket' = NoSocket
        /\ greeted' = greeted
    BY <1>4 DEF OpenSocket, NoNewSocket, Unwired
  <2>2. wired' = {}
    BY <2>1 DEF ConnectionInv, OnlyCurrentIsHeard
  <2>3. phase' \in [Sock -> {"unused", "connecting", "open", "closing"}]
    BY <2>1 DEF ConnectionInv, ConnectionTypeOK, ClosedCurrent
  <2>4. ConnectionTypeOK'
    BY <1>1, <1>2, <2>1, <2>2, <2>3 DEF ConnectionInv, ConnectionTypeOK
  <2> QED BY <1>1, <1>4, <2>1, <2>2, <2>4
    DEF ConnectionInv, CurrentIsWired, NeverStranded, RetryMeansDown,
        DisconnectedStays, OnlyCurrentIsHeard
<1> QED BY <1>3, <1>4

\* the user's disconnect keeps it,
LEMMA DisconnectKeeps ==
  ASSUME ConnectionInv, Disconnect
  PROVE  ConnectionInv'
<1> USE BridgeAssumption
<1>1. /\ manual' = TRUE /\ timer' = FALSE /\ socket' = NoSocket /\ wired' = {} /\ attempt' = 0
      /\ status' \in {"disconnected", "configure"}
      /\ UNCHANGED <<config, asking, reporting, greeted, up>>
  BY DEF Disconnect, TimerAfterDisconnect, BarAfterDisconnect,
         Unwired, ConnectionInv, OnlyCurrentIsHeard
<1>2. phase' \in [Sock -> {"unused", "connecting", "open", "closing"}]
  BY DEF Disconnect, ClosedCurrent, ConnectionInv, ConnectionTypeOK
<1>3. 0 \in 0..MaxAttempt
  OBVIOUS
<1>4. ConnectionTypeOK'
  BY <1>1, <1>2, <1>3 DEF ConnectionInv, ConnectionTypeOK
<1> QED BY <1>1, <1>4
    DEF ConnectionInv, CurrentIsWired, NeverStranded, RetryMeansDown,
        DisconnectedStays, OnlyCurrentIsHeard

\* and so does a close event, which schedules a retry unless one is pending or
\* the user disconnected.
LEMMA CloseKeeps ==
  ASSUME ConnectionInv, NEW s \in Sock, SocketCloses(s)
  PROVE  ConnectionInv'
<1> USE BridgeAssumption
<1>1. /\ phase[s] = "closing" /\ phase' = [phase EXCEPT ![s] = "unused"] /\ wired' = wired \ {s}
      /\ UNCHANGED <<manual, config, asking, reporting, greeted, up>>
  BY DEF SocketCloses
<1>2. CASE s \notin wired
  <2>1. UNCHANGED <<socket, timer, attempt, status, wired>>
    BY <1>1, <1>2 DEF SocketCloses
  <2>2. socket # s
    BY <1>2 DEF ConnectionInv, CurrentIsWired
  <2> QED BY <1>1, <1>2, <2>1, <2>2
      DEF ConnectionInv, ConnectionTypeOK, CurrentIsWired, NeverStranded,
          RetryMeansDown, DisconnectedStays, OnlyCurrentIsHeard
<1>3. CASE s \in wired
  <2>1. socket = s /\ ~timer /\ ~manual
    BY <1>3 DEF ConnectionInv, OnlyCurrentIsHeard, RetryMeansDown, DisconnectedStays
  <2>2. socket' = NoSocket /\ wired' = {} /\ Schedule(s)
    BY <1>1, <1>3, <2>1 DEF SocketCloses, SocketAfterClose, ConnectionInv,
                            OnlyCurrentIsHeard
  <2>3. /\ timer' \in BOOLEAN /\ (config # "none" => timer') /\ status' \in {"connecting", "disconnected"}
    BY <2>1, <2>2 DEF Schedule, ConnectionInv, ConnectionTypeOK
  <2>4. attempt' \in 0..MaxAttempt
    <3>1. attempt' = attempt \/ (attempt < MaxAttempt /\ attempt' = attempt + 1)
      BY <2>2 DEF Schedule
    <3> QED BY <3>1 DEF ConnectionInv, ConnectionTypeOK
  <2>5. ConnectionTypeOK'
    BY <1>1, <2>2, <2>3, <2>4 DEF ConnectionInv, ConnectionTypeOK
  <2> QED BY <1>1, <2>1, <2>2, <2>3, <2>5
    DEF ConnectionInv, CurrentIsWired, NeverStranded, RetryMeansDown,
        DisconnectedStays, OnlyCurrentIsHeard
<1> QED BY <1>2, <1>3

\* The other events of a socket leave it and the timer in place, or find it open.
LEMMA EventKeeps ==
  ASSUME ConnectionInv, NEW s \in Sock,
         SocketOpens(s) \/ SocketFails(s) \/ SocketDrops(s) \/ Report(s)
  PROVE  ConnectionInv'
<1> USE BridgeAssumption
<1>1. UNCHANGED <<socket, wired, manual, config, asking, up>>
  BY DEF SocketOpens, SocketFails, SocketDrops, Report
<1>2. /\ phase' \in [Sock -> {"unused", "connecting", "open", "closing"}]
      /\ \A u \in Sock : phase'[u] = "unused" <=> phase[u] = "unused"
  BY DEF SocketOpens, SocketFails, SocketDrops, Report, ConnectionInv, ConnectionTypeOK
<1>3. timer' = timer \/ (timer' = FALSE /\ socket = s /\ s \in wired)
  BY DEF SocketOpens, SocketFails, SocketDrops, Report
<1>4. attempt' \in 0..MaxAttempt
  <2>1. attempt' = attempt \/ attempt' = 0
    BY DEF SocketOpens, SocketFails, SocketDrops, Report
  <2> QED BY <2>1 DEF ConnectionInv, ConnectionTypeOK
<1>5. /\ reporting' \subseteq Sock /\ greeted' \subseteq Sock
      /\ status' \in {"configure", "connecting", "connected", "disconnected", "error"}
  BY DEF SocketOpens, SocketFails, SocketDrops,
         Report, OpenStarts, Connected, ConnectionInv,
         ConnectionTypeOK
<1>6. ConnectionTypeOK'
  BY <1>1, <1>2, <1>3, <1>4, <1>5 DEF ConnectionInv, ConnectionTypeOK
<1> QED BY <1>1, <1>3, <1>6
    DEF ConnectionInv, CurrentIsWired, NeverStranded, RetryMeansDown,
        DisconnectedStays, OnlyCurrentIsHeard

\* The invariant is kept by every step.
LEMMA ConnectionKeeps ==
  ASSUME ConnectionInv, [ConnectionNext]_connectionVars
  PROVE  ConnectionInv'
<1>1. CASE \E c \in Call : Answered(c)
  BY <1>1, OpenSocketKeeps DEF Answered, ConnectionInv, ConnectionTypeOK
<1>2. CASE TimerFires
  BY <1>2, OpenSocketKeeps DEF TimerFires, ConnectionInv, ConnectionTypeOK
<1>3. CASE Disconnect
  BY <1>3, DisconnectKeeps
<1>4. CASE \E s \in Sock : SocketEvent(s)
  BY <1>4, EventKeeps, CloseKeeps DEF SocketEvent
<1>5. CASE \/ \E c \in Call : ConnectCommand(c) \/ NotAnswered(c)
           \/ Backend
           \/ \E hello \in BOOLEAN : ReportAgain(hello)
           \/ UNCHANGED connectionVars
  <2>1. UNCHANGED <<socket, phase, wired, timer, attempt, manual, config, reporting>>
    BY <1>5 DEF ConnectCommand, NotAnswered, Backend, ReportAgain, connectionVars
  <2>2. /\ asking' \subseteq Call /\ greeted' \subseteq Sock /\ up' \in BOOLEAN
        /\ status' \in {"configure", "connecting", "connected", "disconnected", "error"}
    BY <1>5 DEF ConnectCommand, NotAnswered, Backend,
                ReportAgain, Connected, connectionVars, ConnectionInv,
                ConnectionTypeOK
  <2> QED BY <2>1, <2>2
      DEF ConnectionInv, ConnectionTypeOK, CurrentIsWired, NeverStranded,
          RetryMeansDown, DisconnectedStays, OnlyCurrentIsHeard
<1> QED BY <1>1, <1>2, <1>3, <1>4, <1>5 DEF ConnectionNext

\* Once it had a connection to try, and until the user disconnects, the bridge
\* has a retry scheduled or a socket whose events it hears, unless its last
\* attempt was at an address for which there is no socket.
THEOREM BridgeNeverStranded == ConnectionSpec => []NeverStranded
<1>1. ConnectionInv => NeverStranded
  BY DEF ConnectionInv
<1> QED BY ConnectionStarts, ConnectionKeeps, <1>1, PTL DEF ConnectionSpec

\* No retry is pending beside a socket, and messages of replaced sockets are not
\* handled.
THEOREM BridgeIsExclusive ==
  ConnectionSpec => [](ConnectionTypeOK /\ RetryMeansDown /\ OnlyCurrentIsHeard)
<1>1. ConnectionInv => ConnectionTypeOK /\ RetryMeansDown /\ OnlyCurrentIsHeard
  BY DEF ConnectionInv
<1> QED BY ConnectionStarts, ConnectionKeeps, <1>1, PTL DEF ConnectionSpec

\* A disconnect lasts until the user connects again, whatever prompts, timers
\* and sockets do in between.
THEOREM DisconnectLasts == ConnectionSpec => []DisconnectedStays
<1>1. ConnectionInv => DisconnectedStays
  BY DEF ConnectionInv
<1> QED BY ConnectionStarts, ConnectionKeeps, <1>1, PTL DEF ConnectionSpec

=============================================================================
