------------------------ MODULE ShellExecutionProofs -------------------------
(***************************************************************************)
(* For any number of script commands, lines, terminals and any cap: what a *)
(* call says is complete and in order, and its verdict is its own.         *)
(***************************************************************************)
EXTENDS ShellExecution, SequenceTheorems, TLAPS

-----------------------------------------------------------------------------
(* What is said *)

LEMMA SayType == ASSUME NEW kind \in Kind PROVE Say(kind) \in Message
BY DEF Say, Message

LEMMA LineType == ASSUME NEW n \in Nat PROVE [kind |-> "line", n |-> n] \in Message
BY DEF Message, Kind

LEMMA EmitLineType == ASSUME NEW n \in Nat PROVE EmitLine(n) \in Seq(Message)
<1>1. Say("truncated") \in Message
  BY SayType DEF Kind
<1> QED BY <1>1, LineType DEF EmitLine

LEMMA OutcomeType == ASSUME NEW code PROVE Outcome(code) \in Seq(Message)
<1>1. \A kind \in Kind : Say(kind) \in Message
  BY SayType
<1> QED BY <1>1 DEF Outcome, Kind

LEMMA BeginType == Begin \in Seq(Message)
<1>1. Say("started") \in Message /\ Say("echo") \in Message
  BY SayType DEF Kind
<1> QED BY <1>1 DEF Begin

LEMMA PrintedType == ASSUME NEW n \in Nat PROVE Printed(n) \in Seq(Message)
<1> DEFINE k == IF n < Cap THEN n ELSE Cap
<1>1. k \in Nat
  BY ShellAssumption
<1>2. Printed(n) \in [1..k -> Message]
  BY LineType DEF Printed
<1>3. [1..k -> Message] \subseteq Seq(Message)
  BY <1>1, SeqDef
<1> QED BY <1>2, <1>3

\* Below the cap a line is appended,
LEMMA PrintedAppends ==
  ASSUME NEW n \in Nat, n < Cap
  PROVE  Printed(n + 1) = Printed(n) \o <<[kind |-> "line", n |-> n + 1]>>
<1> DEFINE line == [kind |-> "line", n |-> n + 1]
           new == Printed(n) \o <<line>>
<1> USE ShellAssumption
<1>1. Printed(n) \in Seq(Message) /\ Printed(n + 1) \in Seq(Message) /\ <<line>> \in Seq(Message)
  BY PrintedType, LineType
<1>2. Len(Printed(n)) = n /\ Len(Printed(n + 1)) = n + 1 /\ Len(<<line>>) = 1
  <2>1. DOMAIN Printed(n) = 1..n /\ DOMAIN Printed(n + 1) = 1..(n + 1)
    BY DEF Printed
  <2> QED BY <2>1, <1>1, LenProperties
<1>3. new \in Seq(Message) /\ Len(new) = n + 1
  BY <1>1, <1>2, ConcatProperties
<1>4. \A i \in 1..(n + 1) : new[i] = IF i <= n THEN Printed(n)[i] ELSE <<line>>[i - n]
  BY <1>1, <1>2, ConcatProperties
<1>5. \A i \in 1..(n + 1) : Printed(n + 1)[i] = new[i]
  <2> TAKE i \in 1..(n + 1)
  <2>1. Printed(n) = [j \in 1..n |-> [kind |-> "line", n |-> j]]
    BY DEF Printed
  <2>2. Printed(n + 1)[i] = [kind |-> "line", n |-> i]
    BY DEF Printed
  <2>3. CASE i <= n
    <3>1. i \in 1..n
      BY <2>3
    <3> QED BY <1>4, <2>1, <2>2, <2>3, <3>1
  <2>4. CASE i = n + 1
    <3>1. i - n = 1 /\ ~(i <= n)
      BY <2>4
    <3>2. new[i] = <<line>>[1]
      BY <1>4, <3>1
    <3> QED BY <2>2, <2>4, <3>2
  <2>5. i <= n \/ i = n + 1
    OBVIOUS
  <2> HIDE DEF new
  <2> QED BY <2>3, <2>4, <2>5
<1> QED BY <1>1, <1>2, <1>3, <1>5, SeqEqual

\* and beyond it nothing.
LEMMA PrintedStays == ASSUME NEW n \in Nat, n >= Cap PROVE Printed(n + 1) = Printed(n)
BY ShellAssumption DEF Printed

LEMMA SaidType == ASSUME NEW n \in Nat PROVE Said(n) \in Seq(Message)
<1>1. Begin \o Printed(n) \in Seq(Message)
  BY BeginType, PrintedType, ConcatProperties
<1>2. Say("truncated") \in Message
  BY SayType DEF Kind
<1>3. (IF n > Cap THEN <<Say("truncated")>> ELSE <<>>) \in Seq(Message)
  BY <1>2
<1> QED BY <1>1, <1>3, ConcatProperties DEF Said

\* Reading one more line says what is emitted for it.
LEMMA SaidNext == ASSUME NEW n \in Nat PROVE Said(n + 1) = Said(n) \o EmitLine(n + 1)
<1> DEFINE before == Begin \o Printed(n)
           line == [kind |-> "line", n |-> n + 1]
<1> USE ShellAssumption
<1>1. Begin \in Seq(Message) /\ Printed(n) \in Seq(Message) /\ <<line>> \in Seq(Message)
  BY BeginType, PrintedType, LineType
<1>2. before \in Seq(Message) /\ before \o <<line>> \in Seq(Message)
  BY <1>1, ConcatProperties
<1>3. CASE n < Cap
  <2>1. ~(n > Cap) /\ ~(n + 1 > Cap) /\ n + 1 <= Cap
    BY <1>3
  <2>2. Printed(n + 1) = Printed(n) \o <<line>>
    BY <1>3, PrintedAppends
  <2>3. Begin \o Printed(n + 1) = before \o <<line>>
    <3> DEFINE one == <<line>>
    <3>1. one \in Seq(Message)
      BY <1>1
    <3> HIDE DEF one
    <3>2. (Begin \o Printed(n)) \o one = Begin \o (Printed(n) \o one)
      BY <1>1, <3>1, ConcatAssociative
    <3> USE DEF one
    <3> QED BY <2>2, <3>2
  <2>4. Said(n + 1) = (before \o <<line>>) \o <<>> /\ Said(n) = before \o <<>>
    BY <2>1, <2>3 DEF Said
  <2>5. Said(n + 1) = before \o <<line>> /\ Said(n) = before
    BY <1>2, <2>4, ConcatEmptySeq
  <2> QED BY <2>1, <2>5 DEF EmitLine
<1>4. CASE n = Cap
  <2>1. ~(n > Cap) /\ n + 1 > Cap /\ ~(n + 1 <= Cap) /\ n + 1 = Cap + 1
    BY <1>4
  <2>2. Printed(n + 1) = Printed(n)
    BY <1>4, PrintedStays
  <2>3. Said(n + 1) = before \o <<Say("truncated")>> /\ Said(n) = before \o <<>>
    BY <2>1, <2>2 DEF Said
  <2>4. Said(n) = before
    BY <1>2, <2>3, ConcatEmptySeq
  <2> QED BY <2>1, <2>3, <2>4 DEF EmitLine
<1>5. CASE n > Cap
  <2>1. n + 1 > Cap /\ ~(n + 1 <= Cap) /\ n + 1 # Cap + 1
    BY <1>5
  <2>2. Printed(n + 1) = Printed(n)
    BY <1>5, PrintedStays
  <2>3. Said(n + 1) = Said(n)
    BY <1>5, <2>1, <2>2 DEF Said
  <2> QED BY <2>1, <2>3, SaidType, ConcatEmptySeq DEF EmitLine
<1> QED BY <1>3, <1>4, <1>5

LEMMA SaidFirst == Said(0) = Begin
<1>1. Printed(0) = <<>>
  <2>1. Printed(0) \in Seq(Message) /\ DOMAIN Printed(0) = 1..0
    BY PrintedType, ShellAssumption DEF Printed
  <2>2. Len(Printed(0)) = 0
    BY <2>1, LenProperties
  <2> QED BY <2>1, <2>2, EmptySeq
<1>2. ~(0 > Cap)
  BY ShellAssumption
<1>3. Said(0) = (Begin \o <<>>) \o <<>>
  BY <1>1, <1>2 DEF Said
<1> QED BY <1>3, BeginType, ConcatEmptySeq

-----------------------------------------------------------------------------
(* The inductive invariant *)

\* Nothing is known of an execution that was not started.
Idle(s) ==
  ~stream[s] /\ ~partial[s] /\ lines[s] = 0 /\ exit[s] = "none" /\ sent[s] = <<>>

\* What a call has said by where it is; its wait returns what its execution
\* reports, and it is executing as long as one of the two ends is missing.
CallInv(s) ==
  /\ resolved[s] = exit[s]
  /\ phase[s] \in {"new", "waiting"} => Idle(s)
  /\ phase[s] \in {"waiting", "executing"} => on[s] # 0
  /\ phase[s] = "executing" =>
       sent[s] = Said(lines[s]) /\ (exit[s] # "none" => stream[s])
  /\ phase[s] = "ended" =>
       /\ ~stream[s] /\ ~partial[s]
       /\ exit[s] # "none" => sent[s] = Said(lines[s]) \o Outcome(exit[s])

IInv == TypeOK /\ \A s \in Call : CallInv(s)

\* The state of one call.
Of(s) == <<phase[s], on[s], lines[s], partial[s], stream[s], exit[s], resolved[s], sent[s]>>

\* A call an action leaves alone keeps its part.
LEMMA OthersKeep ==
  ASSUME NEW s \in Call, CallInv(s), Of(s)' = Of(s)
  PROVE  CallInv(s)'
BY DEF CallInv, Idle, Of

LEMMA InitIInv == Init => IInv
<1> SUFFICES ASSUME Init PROVE IInv
  OBVIOUS
<1>1. TypeOK
  <2>1. terminal \in Nat /\ closed \subseteq 1..terminal /\ integrated \subseteq 1..terminal
    BY DEF Init
  <2>2. on \in [Call -> 0..terminal] /\ sent \in [Call -> Seq(Message)]
    BY DEF Init
  <2> QED BY <2>1, <2>2 DEF Init, TypeOK
<1>2. \A s \in Call : CallInv(s)
  BY DEF Init, CallInv, Idle
<1> QED BY <1>1, <1>2 DEF IInv

\* A call that ends before it takes a terminal,
LEMMA RefuseKeeps == ASSUME IInv, NEW s \in Call, Refuse(s) \/ Reject(s) PROVE IInv'
<1>1. <<Say("refused")>> \in Seq(Message) /\ <<Say("failed")>> \in Seq(Message)
  <2>1. Say("refused") \in Message /\ Say("failed") \in Message
    BY SayType DEF Kind
  <2> QED BY <2>1
<1>2. TypeOK'
  <2>1. sent' \in [Call -> Seq(Message)]
    BY <1>1 DEF IInv, TypeOK, Refuse, Reject
  <2> QED BY <2>1 DEF IInv, TypeOK, Refuse, Reject, desktop, output
<1>3. ASSUME NEW q \in Call PROVE CallInv(q)'
  <2>1. CASE q = s
    BY <2>1 DEF IInv, TypeOK, CallInv, Idle, Refuse, Reject, output
  <2>2. CASE q # s
    BY <2>2, OthersKeep DEF IInv, TypeOK, Of, Refuse, Reject, output
  <2> QED BY <2>1, <2>2
<1> QED BY <1>2, <1>3 DEF IInv

\* the next terminal is a number,
LEMMA ShellTerminalType ==
  ASSUME TypeOK
  PROVE  /\ ShellTerminal \in Nat \ {0} /\ terminal <= ShellTerminal
BY DEF TypeOK, ShellTerminal

\* the calls whose command starts say how it begins,
LEMMA ExecutingKeeps ==
  ASSUME IInv, NEW S \in SUBSET Call, Executing(S),
         NEW t \in Nat, on' \in [Call -> 0..t],
         \A s \in S : phase[s] \in {"new", "waiting"} /\ on'[s] # 0,
         \A s \in Call \ S : on'[s] = on[s],
         UNCHANGED <<lines, partial, exit, resolved>>
  PROVE  /\ phase' \in [Call -> {"new", "waiting", "executing", "ended"}]
         /\ stream' \in [Call -> BOOLEAN] /\ sent' \in [Call -> Seq(Message)]
         /\ \A s \in Call : (partial[s] => stream[s])'
         /\ \A s \in Call : CallInv(s)'
<1>1. phase' \in [Call -> {"new", "waiting", "executing", "ended"}] /\ stream' \in [Call -> BOOLEAN]
  BY DEF IInv, TypeOK, Executing
<1>2. sent' \in [Call -> Seq(Message)]
  BY BeginType DEF IInv, TypeOK, Executing
<1>3. \A s \in Call : (partial[s] => stream[s])'
  BY DEF IInv, TypeOK, Executing
<1>4. ASSUME NEW s \in Call PROVE CallInv(s)'
  <2>1. CASE s \in S
    <3>1. Idle(s) /\ resolved[s] = exit[s]
      BY <2>1 DEF IInv, CallInv
    <3>2. phase'[s] = "executing" /\ sent'[s] = Begin
      BY <2>1 DEF Executing
    <3>3. sent'[s] = Said(lines'[s])
      BY <3>1, <3>2, SaidFirst DEF Idle
    <3> QED BY <2>1, <3>1, <3>2, <3>3 DEF CallInv, Idle
  <2>2. CASE s \notin S
    <3>1. Of(s)' = Of(s)
      BY <2>2 DEF Executing, Of, IInv, TypeOK
    <3> QED BY <3>1, OthersKeep DEF IInv
  <2> QED BY <2>1, <2>2
<1> QED BY <1>1, <1>2, <1>3, <1>4

LEMMA RunKeeps == ASSUME IInv, NEW s \in Call, Run(s) PROVE IInv'
<1>1. ShellTerminal \in Nat /\ ShellTerminal # 0 /\ terminal <= ShellTerminal /\ terminal' = ShellTerminal
  BY ShellTerminalType DEF IInv, Run
<1>2. on' \in [Call -> 0..ShellTerminal] /\ on'[s] = ShellTerminal
        /\ \A q \in Call \ {s} : on'[q] = on[q]
  <2>1. on' = [on EXCEPT ![s] = ShellTerminal] /\ on \in [Call -> 0..terminal] /\ terminal \in Nat
    BY DEF Run, IInv, TypeOK
  <2>2. 0..terminal \subseteq 0..ShellTerminal /\ ShellTerminal \in 0..ShellTerminal
    BY <1>1, <2>1
  <2> QED BY <2>1, <2>2
<1>3. closed' \subseteq 1..terminal' /\ integrated' \subseteq 1..terminal'
  <2>1. closed \subseteq 1..terminal /\ integrated \subseteq 1..terminal /\ terminal \in Nat
    BY DEF IInv, TypeOK
  <2>2. 1..terminal \subseteq 1..ShellTerminal
    BY <1>1, <2>1
  <2> QED BY <1>1, <2>1, <2>2 DEF Run
<1>4. /\ phase' \in [Call -> {"new", "waiting", "executing", "ended"}]
      /\ stream' \in [Call -> BOOLEAN] /\ sent' \in [Call -> Seq(Message)]
      /\ \A q \in Call : (partial[q] => stream[q])'
      /\ \A q \in Call : CallInv(q)'
  <2>1. CASE Executing({s})
    <3>1. UNCHANGED <<lines, partial, exit, resolved>> /\ phase[s] = "new"
      BY DEF Run
    <3> QED BY <1>1, <1>2, <2>1, <3>1, ExecutingKeeps
  <2>2. CASE phase' = [phase EXCEPT ![s] = "waiting"] /\ UNCHANGED <<stream, sent>>
    <3>1. UNCHANGED <<lines, partial, exit, resolved>> /\ phase[s] = "new"
      BY DEF Run
    <3>2. phase' \in [Call -> {"new", "waiting", "executing", "ended"}]
      BY <2>2 DEF IInv, TypeOK
    <3>3. ASSUME NEW q \in Call PROVE CallInv(q)'
      <4>1. CASE q = s
        BY <1>1, <1>2, <2>2, <3>1, <4>1 DEF IInv, TypeOK, CallInv, Idle
      <4>2. CASE q # s
        <5>1. Of(q)' = Of(q)
          BY <1>2, <2>2, <3>1, <4>2 DEF Of, IInv, TypeOK
        <5> QED BY <5>1, OthersKeep DEF IInv
      <4> QED BY <4>1, <4>2
    <3> QED BY <2>2, <3>1, <3>2, <3>3 DEF IInv, TypeOK
  <2> QED BY <2>1, <2>2 DEF Run
<1>5. \A q \in Call : (exit[q] # "none" => on[q] # 0)'
  BY <1>1, <1>2 DEF Run, IInv, TypeOK
<1> QED BY <1>1, <1>2, <1>3, <1>4, <1>5 DEF Run, IInv, TypeOK

LEMMA IntegrateKeeps == ASSUME IInv, NEW t \in 1..MaxTerminal, Integrate(t) PROVE IInv'
<1>1. UNCHANGED <<lines, partial, exit, resolved, terminal, on>> /\ t \in 1..terminal
  BY DEF Integrate
<1>2. terminal \in Nat /\ on' \in [Call -> 0..terminal]
  BY <1>1 DEF IInv, TypeOK
<1>3. Listening(t) \in SUBSET Call /\ Executing(Listening(t))
  BY DEF Integrate, Listening
<1>4. \A s \in Listening(t) : phase[s] \in {"new", "waiting"} /\ on'[s] # 0
  BY <1>1 DEF Listening
<1>5. \A s \in Call \ Listening(t) : on'[s] = on[s]
  BY <1>1
<1>6. /\ phase' \in [Call -> {"new", "waiting", "executing", "ended"}]
      /\ stream' \in [Call -> BOOLEAN] /\ sent' \in [Call -> Seq(Message)]
      /\ \A q \in Call : (partial[q] => stream[q])'
      /\ \A q \in Call : CallInv(q)'
  BY <1>1, <1>2, <1>3, <1>4, <1>5, ExecutingKeeps
<1>7. closed' \subseteq 1..terminal' /\ integrated' \subseteq 1..terminal'
  BY <1>1 DEF Integrate, IInv, TypeOK
<1> QED BY <1>1, <1>2, <1>6, <1>7 DEF Integrate, IInv, TypeOK

\* a call that stops waiting,
LEMMA TimeoutKeeps == ASSUME IInv, NEW s \in Call, Timeout(s) PROVE IInv'
<1>1. <<Say("blind"), Say("dispatched")>> \in Seq(Message)
  <2>1. Say("blind") \in Message /\ Say("dispatched") \in Message
    BY SayType DEF Kind
  <2> QED BY <2>1
<1>2. TypeOK'
  <2>1. sent' \in [Call -> Seq(Message)]
    BY <1>1 DEF IInv, TypeOK, Timeout
  <2> QED BY <2>1 DEF IInv, TypeOK, Timeout, desktop, output
<1>3. ASSUME NEW q \in Call PROVE CallInv(q)'
  <2>1. CASE q = s
    BY <2>1 DEF IInv, TypeOK, CallInv, Idle, Timeout, output
  <2>2. CASE q # s
    BY <2>2, OthersKeep DEF IInv, TypeOK, Of, Timeout, output
  <2> QED BY <2>1, <2>2
<1> QED BY <1>2, <1>3 DEF IInv

\* a call whose output goes on is executing,
LEMMA StreamIsExecuting ==
  ASSUME IInv, NEW s \in Call, stream[s]
  PROVE  phase[s] = "executing" /\ sent[s] = Said(lines[s]) /\ lines[s] \in Nat
BY DEF IInv, TypeOK, CallInv, Idle

LEMMA PrintLineKeeps == ASSUME IInv, NEW s \in Call, PrintLine(s) PROVE IInv'
<1>1. phase[s] = "executing" /\ sent[s] = Said(lines[s]) /\ lines[s] \in Nat /\ lines[s] + 1 \in Nat
  BY StreamIsExecuting DEF PrintLine
<1>2. sent[s] \o EmitLine(lines[s] + 1) = Said(lines[s] + 1)
  BY <1>1, SaidNext
<1>3. sent' = [sent EXCEPT ![s] = Said(lines[s] + 1)]
  BY <1>2 DEF PrintLine
<1>4. sent' \in [Call -> Seq(Message)] /\ lines' \in [Call -> Nat]
  BY <1>1, <1>3, SaidType DEF IInv, TypeOK, PrintLine
<1>5. TypeOK'
  BY <1>4 DEF IInv, TypeOK, PrintLine, desktop
<1>6. ASSUME NEW q \in Call PROVE CallInv(q)'
  <2>1. CASE q = s
    <3>1. sent'[s] = Said(lines'[s])
      BY <1>3 DEF IInv, TypeOK, PrintLine
    <3> QED BY <1>1, <2>1, <3>1 DEF IInv, TypeOK, CallInv, PrintLine
  <2>2. CASE q # s
    <3>1. Of(q)' = Of(q)
      BY <2>2 DEF IInv, TypeOK, Of, PrintLine
    <3> QED BY <3>1, OthersKeep DEF IInv
  <2> QED BY <2>1, <2>2
<1> QED BY <1>5, <1>6 DEF IInv

LEMMA PrintPartKeeps == ASSUME IInv, NEW s \in Call, PrintPart(s) PROVE IInv'
<1>1. phase[s] = "executing"
  BY StreamIsExecuting DEF PrintPart
<1>2. TypeOK'
  BY DEF IInv, TypeOK, PrintPart, desktop
<1>3. \A q \in Call : CallInv(q)'
  BY <1>1 DEF IInv, TypeOK, CallInv, Idle, PrintPart
<1> QED BY <1>2, <1>3 DEF IInv

\* the output of a call ends, and with it the call, if it has its verdict,
LEMMA EndStreamKeeps == ASSUME IInv, NEW s \in Call, EndStream(s) PROVE IInv'
<1> DEFINE said == sent[s] \o Flushed(s)
           over == resolved[s] # "none"
           done == {q \in {s} : resolved[q] # "none" /\ phase[q] = "executing"}
<1>1. phase[s] = "executing" /\ sent[s] = Said(lines[s]) /\ lines[s] \in Nat /\ lines[s] + 1 \in Nat
  BY StreamIsExecuting DEF EndStream
<1>2. resolved' = resolved /\ exit' = exit /\ resolved[s] = exit[s] /\ on' = on
  BY DEF EndStream, IInv, CallInv
<1>3. done = IF over THEN {s} ELSE {}
  BY <1>1
<1>4. lines'[s] \in Nat /\ lines' \in [Call -> Nat] /\ \A q \in Call \ {s} : lines'[q] = lines[q]
  BY <1>1 DEF EndStream, IInv, TypeOK
<1>5. said = Said(lines'[s])
  <2>1. CASE partial[s]
    <3>1. lines'[s] = lines[s] + 1 /\ Flushed(s) = EmitLine(lines[s] + 1)
      BY <2>1 DEF EndStream, Flushed, IInv, TypeOK
    <3> QED BY <1>1, <3>1, SaidNext
  <2>2. CASE ~partial[s]
    <3>1. lines'[s] = lines[s] /\ Flushed(s) = <<>>
      BY <2>2 DEF EndStream, Flushed
    <3> QED BY <1>1, <3>1, SaidType, ConcatEmptySeq
  <2> QED BY <2>1, <2>2
<1>6. Said(lines'[s]) \in Seq(Message) /\ Outcome(exit[s]) \in Seq(Message)
  BY <1>4, SaidType, OutcomeType
<1>7. Settle(done, [sent EXCEPT ![s] = said])
  BY DEF EndStream
<1>8. phase' = [q \in Call |-> IF q \in done THEN "ended" ELSE phase[q]]
  BY <1>7 DEF Settle
<1>9. sent' = [q \in Call |-> [sent EXCEPT ![s] = said][q]
                               \o IF q \in done THEN Outcome(resolved'[q]) ELSE <<>>]
  BY <1>7 DEF Settle
<1>10. sent'[s] = Said(lines'[s]) \o (IF over THEN Outcome(exit[s]) ELSE <<>>)
  <2>1. [sent EXCEPT ![s] = said][s] = said
    BY DEF IInv, TypeOK
  <2>2. sent'[s] = said \o IF s \in done THEN Outcome(resolved'[s]) ELSE <<>>
    BY <1>9, <2>1
  <2> QED BY <1>2, <1>3, <1>5, <2>2
<1>11. \A q \in Call \ {s} : sent'[q] = sent[q] /\ phase'[q] = phase[q]
  <2> TAKE q \in Call \ {s}
  <2>1. [sent EXCEPT ![s] = said][q] = sent[q] /\ q \notin done /\ sent[q] \in Seq(Message)
    BY DEF IInv, TypeOK
  <2>2. sent'[q] = sent[q] \o <<>>
    BY <1>9, <2>1
  <2> QED BY <1>8, <2>1, <2>2, ConcatEmptySeq
<1>12. sent'[s] \in Seq(Message)
  <2>1. CASE over
    BY <1>6, <1>10, <2>1, ConcatProperties
  <2>2. CASE ~over
    BY <1>6, <1>10, <2>2, ConcatEmptySeq
  <2> QED BY <2>1, <2>2
<1>13. sent' \in [Call -> Seq(Message)]
  <2>1. \A q \in Call : sent'[q] \in Seq(Message)
    BY <1>11, <1>12 DEF IInv, TypeOK
  <2> QED BY <1>9, <2>1
<1>14. /\ phase' \in [Call -> {"new", "waiting", "executing", "ended"}]
       /\ stream' \in [Call -> BOOLEAN] /\ partial' \in [Call -> BOOLEAN]
       /\ \A q \in Call : (partial[q] => stream[q])'
       /\ ~stream'[s] /\ ~partial'[s]
  BY <1>8 DEF EndStream, EmptyBuffer, IInv, TypeOK
<1>15. failing' \in BOOLEAN
  BY <1>7 DEF Settle, IInv, TypeOK
<1>16. TypeOK'
  BY <1>2, <1>4, <1>13, <1>14, <1>15 DEF EndStream, IInv, TypeOK, desktop
<1>17. ASSUME NEW q \in Call PROVE CallInv(q)'
  <2>1. CASE q = s /\ over
    <3>1. phase'[s] = "ended"
      BY <1>3, <1>8, <2>1
    <3>2. sent'[s] = Said(lines'[s]) \o Outcome(exit'[s])
      BY <1>2, <1>10, <2>1
    <3> QED BY <1>2, <1>14, <2>1, <3>1, <3>2 DEF CallInv
  <2>2. CASE q = s /\ ~over
    <3>1. phase'[s] = "executing" /\ on[s] # 0
      BY <1>1, <1>3, <1>8, <2>2 DEF IInv, CallInv
    <3>2. sent'[s] = Said(lines'[s])
      BY <1>6, <1>10, <2>2, ConcatEmptySeq
    <3> QED BY <1>2, <2>2, <3>1, <3>2 DEF CallInv
  <2>3. CASE q # s
    <3>1. Of(q)' = Of(q)
      BY <1>2, <1>4, <1>11, <2>3 DEF EndStream, EmptyBuffer, IInv, TypeOK, Of
    <3> QED BY <3>1, OthersKeep DEF IInv
  <2> QED BY <2>1, <2>2, <2>3
<1> QED BY <1>16, <1>17 DEF IInv

\* or the execution ends, and with it the call, if its output was read.
LEMMA EndExecutionKeeps ==
  ASSUME IInv, NEW s \in Call, NEW code \in Exit, EndExecution(s, code)
  PROVE  IInv'
<1> DEFINE done == {q \in Hears(s) : OutputRead(q)}
<1>1. phase[s] = "executing" /\ exit[s] = "none" /\ resolved[s] = "none" /\ on[s] # 0
  BY DEF EndExecution, IInv, CallInv
<1>2. Hears(s) = {s} /\ done = IF stream[s] THEN {} ELSE {s}
  BY <1>1 DEF Hears, OutputRead
<1>3. exit' = [exit EXCEPT ![s] = code] /\ resolved' = [resolved EXCEPT ![s] = code]
  BY <1>2 DEF EndExecution, IInv, TypeOK
<1>4. exit' \in [Call -> Exit \cup {"none"}] /\ resolved' \in [Call -> Exit \cup {"none"}]
        /\ exit'[s] = code /\ resolved'[s] = code /\ code # "none"
  BY <1>3 DEF IInv, TypeOK, Exit
<1>5. Settle(done, sent) /\ UNCHANGED <<lines, partial, stream, on>>
  BY DEF EndExecution, output
<1>6. phase' = [q \in Call |-> IF q \in done THEN "ended" ELSE phase[q]]
  BY <1>5 DEF Settle
<1>7. sent' = [q \in Call |-> sent[q] \o IF q \in done THEN Outcome(resolved'[q]) ELSE <<>>]
  BY <1>5 DEF Settle
<1>8. sent[s] = Said(lines[s]) /\ sent[s] \in Seq(Message) /\ Outcome(code) \in Seq(Message)
  BY <1>1, OutcomeType DEF IInv, TypeOK, CallInv
<1>9. \A q \in Call \ {s} : sent'[q] = sent[q] /\ phase'[q] = phase[q]
  <2> TAKE q \in Call \ {s}
  <2>1. q \notin done /\ sent[q] \in Seq(Message)
    BY <1>2 DEF IInv, TypeOK
  <2>2. sent'[q] = sent[q] \o <<>>
    BY <1>7, <2>1
  <2> QED BY <1>6, <2>1, <2>2, ConcatEmptySeq
<1>10. CASE stream[s]
  <2>1. phase'[s] = "executing" /\ sent'[s] = sent[s]
    <3>1. sent'[s] = sent[s] \o <<>>
      BY <1>2, <1>7, <1>10
    <3> QED BY <1>1, <1>2, <1>6, <1>8, <1>10, <3>1, ConcatEmptySeq
  <2>2. sent' \in [Call -> Seq(Message)]
    <3>1. \A q \in Call : sent'[q] \in Seq(Message)
      BY <1>8, <1>9, <2>1 DEF IInv, TypeOK
    <3> QED BY <1>7, <3>1
  <2>3. TypeOK'
    <3>1. failing' \in BOOLEAN /\ phase' \in [Call -> {"new", "waiting", "executing", "ended"}]
      BY <1>5, <1>6 DEF Settle, IInv, TypeOK
    <3> QED BY <1>1, <1>3, <1>4, <2>2, <3>1 DEF EndExecution, IInv, TypeOK, desktop, output
  <2>4. ASSUME NEW q \in Call PROVE CallInv(q)'
    <3>1. CASE q = s
      BY <1>1, <1>4, <1>5, <1>8, <1>10, <2>1, <3>1 DEF CallInv
    <3>2. CASE q # s
      <4>1. Of(q)' = Of(q)
        BY <1>3, <1>5, <1>9, <3>2 DEF IInv, TypeOK, Of
      <4> QED BY <4>1, OthersKeep DEF IInv
    <3> QED BY <3>1, <3>2
  <2> QED BY <2>3, <2>4 DEF IInv
<1>11. CASE ~stream[s]
  <2>1. phase'[s] = "ended" /\ sent'[s] = Said(lines[s]) \o Outcome(code)
    BY <1>2, <1>4, <1>6, <1>7, <1>8, <1>11
  <2>2. sent' \in [Call -> Seq(Message)]
    <3>1. sent'[s] \in Seq(Message)
      BY <1>8, <2>1, ConcatProperties
    <3>2. \A q \in Call : sent'[q] \in Seq(Message)
      BY <1>9, <3>1 DEF IInv, TypeOK
    <3> QED BY <1>7, <3>2
  <2>3. TypeOK'
    <3>1. failing' \in BOOLEAN /\ phase' \in [Call -> {"new", "waiting", "executing", "ended"}]
      BY <1>5, <1>6 DEF Settle, IInv, TypeOK
    <3> QED BY <1>1, <1>3, <1>4, <2>2, <3>1 DEF EndExecution, IInv, TypeOK, desktop, output
  <2>4. ASSUME NEW q \in Call PROVE CallInv(q)'
    <3>1. CASE q = s
      <4>1. ~partial[s]
        BY <1>11 DEF IInv, TypeOK
      <4> QED BY <1>4, <1>5, <1>11, <2>1, <3>1, <4>1 DEF CallInv
    <3>2. CASE q # s
      <4>1. Of(q)' = Of(q)
        BY <1>3, <1>5, <1>9, <3>2 DEF IInv, TypeOK, Of
      <4> QED BY <4>1, OthersKeep DEF IInv
    <3> QED BY <3>1, <3>2
  <2> QED BY <2>3, <2>4 DEF IInv
<1> QED BY <1>10, <1>11

\* and closing a terminal touches no call.
LEMMA CloseTerminalKeeps == ASSUME IInv, CloseTerminal PROVE IInv'
<1>1. closed' \subseteq 1..terminal
  <2>1. terminal \in Nat /\ terminal # 0 /\ closed \subseteq 1..terminal
    BY DEF IInv, TypeOK, CloseTerminal
  <2>2. terminal \in 1..terminal
    BY <2>1
  <2> QED BY <2>1, <2>2 DEF CloseTerminal
<1>2. TypeOK'
  BY <1>1 DEF IInv, TypeOK, CloseTerminal, output
<1>3. \A s \in Call : CallInv(s)'
  BY DEF IInv, CallInv, Idle, CloseTerminal, output
<1> QED BY <1>2, <1>3 DEF IInv

LEMMA NextIInv == IInv /\ [Next]_vars => IInv'
<1> SUFFICES ASSUME IInv, [Next]_vars PROVE IInv'
  OBVIOUS
<1>1. CASE UNCHANGED vars
  BY <1>1 DEF IInv, TypeOK, CallInv, Idle, vars, desktop, output
<1>2. ASSUME NEW s \in Call,
             \/ Refuse(s) \/ Reject(s) \/ Run(s) \/ Timeout(s)
             \/ PrintLine(s) \/ PrintPart(s) \/ EndStream(s)
             \/ \E code \in Exit : EndExecution(s, code)
      PROVE  IInv'
  BY <1>2, RefuseKeeps, RunKeeps, TimeoutKeeps, PrintLineKeeps, PrintPartKeeps, EndStreamKeeps,
     EndExecutionKeeps
<1>3. CASE \E t \in 1..MaxTerminal : Integrate(t)
  BY <1>3, IntegrateKeeps
<1>4. CASE CloseTerminal
  BY <1>4, CloseTerminalKeeps
<1> QED BY <1>1, <1>2, <1>3, <1>4 DEF Next

LEMMA SpecIInv == Spec => []IInv
BY InitIInv, NextIInv, PTL DEF Spec

-----------------------------------------------------------------------------
\* Every variable keeps its type; a line is buffered only while the output of
\* an execution can still be read.
THEOREM ShellTypeCorrect == Spec => []TypeOK
<1>1. IInv => TypeOK
  BY DEF IInv
<1> QED BY <1>1, SpecIInv, PTL

\* Whatever the cap and however the two ends of a script arrive, its call says
\* that it started, every line up to the cap in order, one notice if there
\* were more, and then, last, how its own execution ended.
THEOREM TranscriptsAreComplete == Spec => []Transcript
<1>1. IInv => Transcript
  <2> SUFFICES ASSUME IInv, NEW s \in Call, phase[s] = "executing" \/ exit[s] # "none"
      PROVE sent[s] = Said(lines[s])
                \o (IF exit[s] # "none" /\ ~stream[s] THEN Outcome(exit[s]) ELSE <<>>)
    BY DEF Transcript
  <2>1. CallInv(s) /\ phase[s] \in {"new", "waiting", "executing", "ended"} /\ lines[s] \in Nat
    BY DEF IInv, TypeOK
  <2>2. CASE phase[s] = "executing"
    <3>1. sent[s] = Said(lines[s]) /\ ~(exit[s] # "none" /\ ~stream[s])
      BY <2>1, <2>2 DEF CallInv
    <3>2. sent[s] = Said(lines[s]) \o <<>>
      BY <2>1, <3>1, SaidType, ConcatEmptySeq
    <3> QED BY <3>1, <3>2
  <2>3. CASE phase[s] # "executing"
    <3>1. phase[s] = "ended" /\ exit[s] # "none"
      BY <2>1, <2>3 DEF CallInv, Idle
    <3>2. sent[s] = Said(lines[s]) \o Outcome(exit[s]) /\ ~stream[s]
      BY <2>1, <3>1 DEF CallInv
    <3> QED BY <3>1, <3>2
  <2> QED BY <2>2, <2>3
<1> QED BY <1>1, SpecIInv, PTL
=============================================================================
