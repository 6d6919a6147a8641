---------------------------- MODULE RuntimeProofs ----------------------------
(***************************************************************************)
(* For any catalog of runtimes and any number of messages and terminals: of *)
(* RuntimeControl, that the last report is current and that the bridge opens *)
(* one terminal for a runtime; of RuntimeDeck, that it is RuntimeControl     *)
(* with a phone, that what the phone offers is what the bridge would do, and *)
(* that only news about it ends a pending action.                           *)
(***************************************************************************)
EXTENDS RuntimeDeck, SequenceTheorems, WellFoundedInduction, TLAPS

\* The report is an abbreviation of four variables.
LEMMA ReportDependsOn ==
  ASSUME UNCHANGED <<preferred, terms, focus, errors>>
  PROVE  Report' = Report
<1>1. \A r : Find(r)' = Find(r)
  BY DEF Find
<1>2. \A r : Attached(r)' = Attached(r)
  BY <1>1 DEF Attached
<1>3. Active' = Active
  <2>1. \A r : Offline(r)' = Offline(r)
    BY <1>2 DEF Offline
  <2>2. \A r : Ready(r)' = Ready(r)
    BY <1>2 DEF Ready
  <2>3. {r \in Runtime : ~Offline(r)}' = {r \in Runtime : ~Offline(r)}
    BY <2>1
  <2>4. {r \in Runtime : Ready(r)}' = {r \in Runtime : Ready(r)}
    BY <2>2
  <2>5. {r \in Terminal : focus # 0 /\ Find(r) = focus}'
          = {r \in Terminal : focus # 0 /\ Find(r) = focus}
    BY <1>1
  <2> DEFINE Choice(p, online, ready, focused) ==
        IF p \in online THEN p
        ELSE FirstOf(IF focused # {} THEN focused ELSE IF ready # {} THEN ready ELSE online)
  <2>6. Active = Choice(preferred, {r \in Runtime : ~Offline(r)}, {r \in Runtime : Ready(r)},
                        {r \in Terminal : focus # 0 /\ Find(r) = focus})
    BY DEF Active
  <2>7. Active' = Choice(preferred', {r \in Runtime : ~Offline(r)}', {r \in Runtime : Ready(r)}',
                         {r \in Terminal : focus # 0 /\ Find(r) = focus}')
    BY DEF Active
  <2> HIDE DEF Choice
  <2> QED BY <2>3, <2>4, <2>5, <2>6, <2>7
<1> QED BY <1>2, <1>3 DEF Report

ReportSet == [attached : SUBSET Runtime, launchable : SUBSET Runtime,
              errors : SUBSET Runtime, active : Runtime \cup {None}]

\* The first of a set of runtimes is one of them: a set of indexes has a least.
LEMMA FirstOfIsRuntime ==
  ASSUME NEW S, S \subseteq Runtime
  PROVE  FirstOf(S) \in Runtime \cup {None}
<1>1. CASE S = {}
  BY <1>1 DEF FirstOf
<1>2. CASE S # {}
  <2> DEFINE T == {i \in DOMAIN Catalog : Catalog[i] \in S}
             Least(i) == Catalog[i] \in S /\ \A j \in 1..(i - 1) : Catalog[j] \notin S
  <2>1. T # {} /\ T \subseteq Nat
    BY <1>2, RuntimeAssumption DEF Runtime
  <2>2. PICK m \in T : \A y \in T : ~(<<y, m>> \in OpToRel(<, Nat))
    BY <2>1, WFMin, NatLessThanWellFounded
  <2>3. \A y \in T : ~(y < m)
    BY <2>1, <2>2 DEF OpToRel
  <2>4. \A j \in 1..(m - 1) : Catalog[j] \notin S
    BY <2>1, <2>3, RuntimeAssumption
  <2>5. Least(m) /\ m \in DOMAIN Catalog
    BY <2>4
  <2>6. (CHOOSE i \in DOMAIN Catalog : Least(i)) \in DOMAIN Catalog
    BY <2>5
  <2> QED BY <1>2, <2>6, RuntimeAssumption DEF FirstOf, Runtime
<1> QED BY <1>1, <1>2

\* The active runtime is a runtime, if there is one.
LEMMA ActiveIsRuntime == Active \in Runtime \cup {None}
<1> DEFINE online == {r \in Runtime : ~Offline(r)}
           ready == {r \in Runtime : Ready(r)}
           focused == {r \in Terminal : focus # 0 /\ Find(r) = focus}
           S == IF focused # {} THEN focused ELSE IF ready # {} THEN ready ELSE online
<1>1. S \subseteq Runtime
  BY RuntimeAssumption
<1>2. FirstOf(S) \in Runtime \cup {None}
  BY <1>1, FirstOfIsRuntime
<1>3. Active = IF preferred \in online THEN preferred ELSE FirstOf(S)
  BY DEF Active
<1> QED BY <1>2, <1>3

\* A report is well formed when the recorded errors are of runtimes.
LEMMA ReportType == errors \subseteq Runtime => Report \in ReportSet
BY ActiveIsRuntime, RuntimeAssumption DEF Report, ReportSet, Launchable

\* And in the next state.
LEMMA NextReportType == errors' \subseteq Runtime => Report' \in ReportSet
<1>1. (errors \subseteq Runtime => Report \in ReportSet)'
  BY ReportType, PTL
<1> QED BY <1>1

IInv == TypeOK /\ ReportIsCurrent

\* What a step sends.
LEMMA SendableIs ==
  ASSUME NEW e \in Events, NEW b \in BOOLEAN
  PROVE  [event |-> e, report |-> b] \in Sendable /\ Silent \in Sendable
<1>1. None \in Events
  BY DEF Events
<1>2. [event |-> e, report |-> b] \in [event : Events, report : BOOLEAN]
  OBVIOUS
<1>3. [event |-> None, report |-> FALSE] \in [event : Events, report : BOOLEAN]
  BY <1>1
<1> QED BY <1>2, <1>3 DEF Sendable, Silent

\* A step that ends with a report leaves the backend informed.
LEMMA SaidAndReported ==
  ASSUME IInv, connected' \in BOOLEAN, errors' \subseteq Runtime, NEW e \in Events, SayAndReport(e)
  PROVE  /\ sent' \in Sendable /\ reported' \in ReportSet /\ tuned' \in BOOLEAN
         /\ ReportIsCurrent'
<1>1. sent' \in Sendable
  <2>1. sent' = [event |-> e, report |-> TRUE] \/ sent' = Silent
    BY DEF SayAndReport
  <2> QED BY <2>1, SendableIs
<1>2. reported' \in ReportSet
  BY NextReportType DEF SayAndReport, IInv, TypeOK, ReportSet
<1> QED BY <1>1, <1>2 DEF SayAndReport, ReportIsCurrent, IInv, TypeOK

\* So does a step that changes nothing the report tells.
LEMMA NothingToReport ==
  ASSUME IInv, NEW e \in Events, SayOnly(e) \/ Quietly,
         UNCHANGED <<connected, preferred, terms, opening, focus, errors>>
  PROVE  /\ sent' \in Sendable /\ reported' \in ReportSet /\ tuned' \in BOOLEAN
         /\ ReportIsCurrent'
<1>1. sent' \in Sendable
  <2>1. sent' = [event |-> e, report |-> FALSE] \/ sent' = Silent
    BY DEF SayOnly, Quietly
  <2> QED BY <2>1, SendableIs
<1>2. reported' = reported /\ tuned' = tuned
  BY DEF SayOnly, Quietly
<1> QED BY <1>1, <1>2, ReportDependsOn DEF ReportIsCurrent, IInv, TypeOK, ReportSet

\* The invariant holds at first,
LEMMA InitIInv == Init => IInv
<1> SUFFICES ASSUME Init PROVE IInv
  OBVIOUS
<1>1. job \in [Msg -> Jobs]
  BY DEF Init, Jobs
<1>2. sent \in Sendable /\ reported \in ReportSet
  <2>1. None \in Events
    BY DEF Events
  <2> QED BY <2>1 DEF Init, Sendable, Silent, ReportSet, NoReport
<1>3. terms \in Seq(Terminal \cup {None}) /\ DOMAIN terms = {}
  BY DEF Init
<1> QED BY <1>1, <1>2, <1>3 DEF Init, IInv, TypeOK, ReportIsCurrent, ReportSet

\* What a step may do to the variables the report does not tell.
Surrounded ==
  /\ connected' \in BOOLEAN /\ running' \in BOOLEAN /\ preferred' \in Target
  /\ terms' \in Seq(Terminal \cup {None})
  /\ opening' \subseteq DOMAIN terms'
  /\ focus' \in {0} \cup DOMAIN terms'
  /\ errors' \subseteq Runtime
  /\ job' \in [Msg -> Jobs]

\* a step that ends with a report keeps it,
LEMMA ReportingStep ==
  ASSUME IInv, Surrounded, NEW e \in Events, SayAndReport(e)
  PROVE  IInv'
<1>1. /\ sent' \in Sendable /\ reported' \in ReportSet /\ tuned' \in BOOLEAN
      /\ ReportIsCurrent'
  BY SaidAndReported DEF Surrounded
<1> QED BY <1>1 DEF Surrounded, IInv, TypeOK, ReportSet

\* and so does one that has nothing to report.
LEMMA QuietStep ==
  ASSUME IInv, Surrounded, NEW e \in Events, SayOnly(e) \/ Quietly,
         UNCHANGED <<connected, preferred, terms, opening, focus, errors>>
  PROVE  IInv'
<1>1. /\ sent' \in Sendable /\ reported' \in ReportSet /\ tuned' \in BOOLEAN
      /\ ReportIsCurrent'
  BY NothingToReport
<1> QED BY <1>1 DEF Surrounded, IInv, TypeOK, ReportSet

\* The events the handlers send are events.
LEMMA EventsAreEvents ==
  /\ None \in Events
  /\ \A r \in Target, what \in Says : Event(r, what) \in Events
  /\ \A kind : \A r \in Target, ok \in BOOLEAN : Answer(kind, r, ok) \in Events
BY DEF Events, Event, Answer, Says

\* A terminal that is opened.
LEMMA CreateType ==
  ASSUME IInv, NEW r \in Terminal, Create(r)
  PROVE  /\ terms' \in Seq(Terminal \cup {None})
         /\ DOMAIN terms' = DOMAIN terms \cup {Len(terms) + 1}
         /\ opening' \subseteq DOMAIN terms' /\ opening' # {}
BY DEF Create, IInv, TypeOK

\* The user, VS Code and the socket keep the invariant:
LEMMA SurroundingsKeep == IInv /\ Surroundings => IInv'
<1> SUFFICES ASSUME IInv, Surroundings PROVE IInv'
  OBVIOUS
<1>1. ASSUME NEW t \in 0..Len(terms), Opened(t) \/ UserCloses(t) \/ FocusMoves(t) PROVE IInv'
  <2>1. SayAndReport(None)
    BY <1>1 DEF Opened, UserCloses, FocusMoves
  <2>2. Surrounded
    BY <1>1 DEF Opened, UserCloses, FocusMoves, Surrounded, IInv, TypeOK
  <2> QED BY <2>1, <2>2, ReportingStep, EventsAreEvents
<1>2. ASSUME NEW r \in Terminal, UserOpens(r) PROVE IInv'
  <2>1. SayAndReport(None)
    BY <1>2 DEF UserOpens
  <2>2. Surrounded
    BY <1>2 DEF UserOpens, Surrounded, IInv, TypeOK
  <2> QED BY <2>1, <2>2, ReportingStep, EventsAreEvents
<1>3. ASSUME NEW target \in Target, UserPrefers(target) PROVE IInv'
  BY <1>3, SendableIs, EventsAreEvents DEF UserPrefers, IInv, TypeOK, ReportIsCurrent
<1>4. CASE Drop
  BY <1>4, SendableIs, EventsAreEvents DEF Drop, Quietly, IInv, TypeOK, ReportIsCurrent
<1>5. ASSUME NEW auto \in BOOLEAN, Connect(auto) PROVE IInv'
  <2>1. SayAndReport(None)
    BY <1>5 DEF Connect
  <2>2. /\ connected' \in BOOLEAN /\ running' \in BOOLEAN /\ preferred' \in Target
        /\ focus' \in {0} \cup DOMAIN terms /\ job' \in [Msg -> Jobs]
    BY <1>5 DEF Connect, IInv, TypeOK
  <2>3. Surrounded
    <3>1. CASE preferred \in Terminal /\ Create(preferred) /\ UNCHANGED errors
      BY <2>2, <3>1, CreateType DEF Surrounded, IInv, TypeOK
    <3>2. CASE preferred \in Terminal /\ errors' = errors \cup {preferred} /\ UNCHANGED <<terms, opening>>
      BY <2>2, <3>2, RuntimeAssumption DEF Surrounded, IInv, TypeOK
    <3>3. CASE UNCHANGED <<terms, opening, errors>>
      BY <2>2, <3>3 DEF Surrounded, IInv, TypeOK
    <3> QED BY <1>5, <3>1, <3>2, <3>3 DEF Connect
  <2> QED BY <2>1, <2>3, ReportingStep, EventsAreEvents
<1>6. ASSUME NEW ok \in BOOLEAN, RunEnds(ok) PROVE IInv'
  <2>1. Codex \in Runtime
    BY RuntimeAssumption
  <2>2. Surrounded
    BY <1>6, <2>1 DEF RunEnds, Recorded, Surrounded, IInv, TypeOK
  <2>3. PICK e \in Events : SayAndReport(e)
    BY <1>6, <2>1, EventsAreEvents DEF RunEnds, Target, Says
  <2> QED BY <2>2, <2>3, ReportingStep
<1> QED BY <1>1, <1>2, <1>3, <1>4, <1>5, <1>6 DEF Surroundings

\* a handler that goes on keeps it,
LEMMA ResumesKeeps == ASSUME IInv, NEW m \in Msg, Resumes(m) PROVE IInv'
<1>1. job' \in [Msg -> Jobs]
  BY DEF Resumes, LaunchGoesOn, AttachGoesOn, SettingFails, GoesOn, Done, Jobs, IInv, TypeOK
<1>2. UNCHANGED <<connected, focus, running>>
  BY DEF Resumes, LaunchGoesOn, AttachGoesOn, SettingFails, GoesOn
<1>3. job[m] \in Jobs
  BY DEF IInv, TypeOK
<1>4. ASSUME NEW r \in Runtime, NEW ok \in BOOLEAN
      PROVE  Recorded(r, ok) \subseteq Runtime
  BY DEF Recorded, IInv, TypeOK
<1>5. CASE LaunchGoesOn(m)
  <2>1. job[m].rt \in Terminal /\ job[m].rt \in Runtime
    BY <1>3, <1>5, RuntimeAssumption DEF LaunchGoesOn, Waits, Jobs, Idle, Kinds
  <2>2. preferred' \in Target /\ errors' \subseteq Runtime
    BY <1>4, <1>5, <2>1 DEF LaunchGoesOn, Target
  <2>3. PICK e \in Events : SayAndReport(e)
    BY <1>5, <2>1, EventsAreEvents DEF LaunchGoesOn, Target, Says
  <2>4. Ensure(job[m].rt)
    BY <1>5 DEF LaunchGoesOn
  <2>5. /\ terms' \in Seq(Terminal \cup {None})
        /\ opening' \subseteq DOMAIN terms' /\ DOMAIN terms \subseteq DOMAIN terms'
    BY <2>1, <2>4, CreateType DEF Ensure, IInv, TypeOK
  <2>6. Surrounded
    BY <1>1, <1>2, <2>2, <2>5 DEF Surrounded, IInv, TypeOK
  <2> QED BY <2>3, <2>6, ReportingStep
<1>6. CASE AttachGoesOn(m)
  <2>1. job[m].rt \in Runtime
    BY <1>3, <1>6, RuntimeAssumption DEF AttachGoesOn, Waits, Jobs, Idle, Kinds
  <2>2. preferred' \in Target /\ errors' \subseteq Runtime
    BY <1>4, <1>6, <2>1 DEF AttachGoesOn, Target, IInv, TypeOK
  <2>3. PICK e \in Events : SayAndReport(e)
    BY <1>6, <2>1, EventsAreEvents DEF AttachGoesOn, Target, Says
  <2>4. Surrounded
    BY <1>1, <1>2, <1>6, <2>2 DEF AttachGoesOn, Surrounded, IInv, TypeOK
  <2> QED BY <2>3, <2>4, ReportingStep
<1>7. CASE SettingFails(m)
  <2>1. job[m].rt \in Runtime
    BY <1>3, <1>7, RuntimeAssumption DEF SettingFails, Waits, Jobs, Idle, Kinds
  <2>2. errors' \subseteq Runtime
    BY <1>4, <1>7, <2>1 DEF SettingFails
  <2>3. PICK e \in Events : SayAndReport(e)
    BY <1>7, <2>1, EventsAreEvents DEF SettingFails, Target, Says
  <2>4. Surrounded
    BY <1>1, <1>2, <1>7, <2>2 DEF SettingFails, Surrounded, IInv, TypeOK
  <2> QED BY <2>3, <2>4, ReportingStep
<1>8. ASSUME NEW ok \in BOOLEAN, GoesOn(m, ok) PROVE IInv'
  <2>1. job[m].rt \in Runtime
    BY <1>3, <1>8, RuntimeAssumption DEF GoesOn, Jobs, Idle, Kinds
  <2>2. errors' \subseteq Runtime
    BY <1>4, <1>8, <2>1 DEF GoesOn, Finish
  <2>3. PICK e \in Events : SayAndReport(e)
    BY <1>8, <2>1, EventsAreEvents DEF GoesOn, Finish, Target
  <2>4. Surrounded
    BY <1>1, <1>2, <1>8, <2>2 DEF GoesOn, Surrounded, IInv, TypeOK
  <2> QED BY <2>3, <2>4, ReportingStep
<1> QED BY <1>5, <1>6, <1>7, <1>8 DEF Resumes

\* What a step that leaves the terminals and the settings alone has to show.
LEMMA OnlyErrors ==
  ASSUME IInv, UNCHANGED <<connected, preferred, terms, opening, focus>>,
         running' \in BOOLEAN, errors' \subseteq Runtime, job' \in [Msg -> Jobs]
  PROVE  Surrounded
BY DEF Surrounded, IInv, TypeOK

\* A message that is handled at once, or up to its first suspension, keeps it.
LEMMA ArrivesKeeps ==
  ASSUME IInv, NEW m \in Msg, NEW kind \in Kinds \cup {"launch", "attach"},
         NEW target \in Target, Arrives(m, kind, target)
  PROVE  IInv'
<1> DEFINE r == Resolve(target)
<1>1. r \in Runtime \cup {None}
  BY ActiveIsRuntime DEF Resolve
<1>2. ASSUME NEW q \in Runtime, NEW ok \in BOOLEAN
      PROVE  Recorded(q, ok) \subseteq Runtime
  BY DEF Recorded, IInv, TypeOK
<1>3. CASE LaunchRefused(target)
  <2>1. errors' \subseteq Runtime
    BY <1>3, RuntimeAssumption DEF LaunchRefused, Recorded, IInv, TypeOK
  <2>2. Surrounded
    BY <1>3, <2>1, OnlyErrors DEF LaunchRefused, IInv, TypeOK
  <2>3. CASE target \in Terminal
    BY <1>3, <2>2, <2>3, ReportingStep, EventsAreEvents DEF LaunchRefused, Says
  <2>4. CASE target \notin Terminal
    BY <1>3, <2>2, <2>4, QuietStep, EventsAreEvents DEF LaunchRefused, Says
  <2> QED BY <2>3, <2>4
<1>4. CASE AttachRefused(target)
  <2>1. Surrounded
    BY <1>4, OnlyErrors DEF AttachRefused, IInv, TypeOK
  <2> QED BY <1>4, <2>1, QuietStep, EventsAreEvents DEF AttachRefused, Says
<1>5. ASSUME kind \in {"launch", "attach"}, AskSetting(m, kind, target) PROVE IInv'
  <2>1. target \in Runtime /\ (kind = "launch" => target \in Terminal)
    BY <1>5, RuntimeAssumption DEF AskSetting, Launchable
  <2>2. job' \in [Msg -> Jobs]
    BY <1>5, <2>1 DEF AskSetting, Suspend, Jobs, IInv, TypeOK
  <2>3. Surrounded
    BY <1>5, <2>2, OnlyErrors DEF AskSetting, IInv, TypeOK
  <2> QED BY <1>5, <2>3, QuietStep, EventsAreEvents DEF AskSetting
<1>6. CASE Undeliverable(kind, target)
  <2>1. Surrounded
    BY <1>6, OnlyErrors DEF Undeliverable, IInv, TypeOK
  <2>2. PICK e \in Events : SayOnly(e)
    BY <1>1, <1>6, EventsAreEvents DEF Undeliverable, Target
  <2> QED BY <1>6, <2>1, <2>2, QuietStep DEF Undeliverable
<1>7. ASSUME NEW ok \in BOOLEAN, Exec(kind, target, ok) PROVE IInv'
  <2>1. Codex \in Runtime /\ Codex \in Target
    BY RuntimeAssumption DEF Target
  <2>2. errors' \subseteq Runtime
    BY <1>2, <1>7, <2>1 DEF Exec, Finish
  <2>3. running' \in BOOLEAN
    BY <1>7 DEF Exec, IInv, TypeOK
  <2>4. Surrounded
    BY <1>7, <2>2, <2>3, OnlyErrors DEF Exec, IInv, TypeOK
  <2>5. PICK e \in Events : SayAndReport(e)
    BY <1>7, <2>1, EventsAreEvents DEF Exec, Finish
  <2> QED BY <2>4, <2>5, ReportingStep
<1>8. CASE TypeNow(kind, target)
  <2>1. r \in Runtime /\ r \in Target
    BY <1>8, RuntimeAssumption DEF TypeNow, ToTerminal, Target
  <2>2. errors' \subseteq Runtime
    BY <1>2, <1>8, <2>1 DEF TypeNow, Finish
  <2>3. Surrounded
    BY <1>8, <2>2, OnlyErrors DEF TypeNow, IInv, TypeOK
  <2>4. PICK e \in Events : SayAndReport(e)
    BY <1>8, <2>1, EventsAreEvents DEF TypeNow, Finish
  <2> QED BY <2>3, <2>4, ReportingStep
<1>9. ASSUME kind \in Kinds, StartTerminal(m, kind, target) PROVE IInv'
  <2>1. r \in Terminal
    BY <1>9 DEF StartTerminal, ToTerminal
  <2>2. Create(r) /\ Quietly /\ UNCHANGED <<connected, preferred, focus, errors, running>>
    BY <1>9 DEF StartTerminal
  <2>3. /\ terms' \in Seq(Terminal \cup {None}) /\ DOMAIN terms \subseteq DOMAIN terms'
        /\ opening' \subseteq DOMAIN terms' /\ opening' # {}
    BY <2>1, <2>2, CreateType
  <2>4. Len(terms) + 1 \in Nat \ {0}
    BY DEF IInv, TypeOK
  <2>5. job' \in [Msg -> Jobs]
    BY <1>9, <2>1, <2>4 DEF StartTerminal, Suspend, Jobs, IInv, TypeOK
  <2> QED BY <2>2, <2>3, <2>5, SendableIs, EventsAreEvents
          DEF Quietly, IInv, TypeOK, ReportIsCurrent
<1>10. ASSUME kind \in Kinds, CopyPrompt(m, kind, target) \/ SendCtrlC(m, target) PROVE IInv'
  <2>1. r \in Runtime
    BY <1>10, RuntimeAssumption DEF CopyPrompt, SendCtrlC
  <2>2. job' \in [Msg -> Jobs]
    BY <1>10, <2>1 DEF CopyPrompt, SendCtrlC, Suspend, Jobs, Kinds, IInv, TypeOK
  <2>3. Surrounded
    BY <1>10, <2>2, OnlyErrors DEF CopyPrompt, SendCtrlC, IInv, TypeOK
  <2> QED BY <1>10, <2>3, QuietStep, EventsAreEvents DEF CopyPrompt, SendCtrlC
<1>11. CASE KillAtOnce(target)
  <2>1. r \in Runtime /\ r \in Target
    BY <1>11, RuntimeAssumption DEF KillAtOnce, Target
  <2>2. errors' \subseteq Runtime /\ running' \in BOOLEAN
    BY <1>2, <1>11, <2>1 DEF KillAtOnce, Finish, IInv, TypeOK
  <2>3. Surrounded
    BY <1>11, <2>2, OnlyErrors DEF KillAtOnce, IInv, TypeOK
  <2>4. PICK e \in Events : SayAndReport(e)
    BY <1>11, <2>1, EventsAreEvents DEF KillAtOnce, Finish, IInv, TypeOK
  <2> QED BY <2>3, <2>4, ReportingStep
<1> QED BY <1>3, <1>4, <1>5, <1>6, <1>7, <1>8, <1>9, <1>10, <1>11 DEF Arrives, Kinds

\* Every step keeps the invariant.
LEMMA NextKeepsIInv == IInv /\ [Next]_vars => IInv'
<1> SUFFICES ASSUME IInv, [Next]_vars PROVE IInv'
  OBVIOUS
<1>1. preferred \in Target
  BY DEF IInv, TypeOK
<1>2. CASE UNCHANGED vars
  <2>1. Report' = Report
    BY <1>2, ReportDependsOn DEF vars
  <2> QED BY <1>2, <2>1 DEF vars, IInv, TypeOK, ReportIsCurrent
<1>3. CASE Surroundings
  BY <1>3, SurroundingsKeep
<1>4. CASE Next /\ ~Surroundings
  BY <1>1, <1>4, ArrivesKeeps, ResumesKeeps DEF Next
<1> QED BY <1>2, <1>3, <1>4

\* Type correctness, with the well-formedness of every report and event sent.
THEOREM RuntimeTypeCorrect == Spec => []TypeOK
<1>1. IInv => TypeOK
  BY DEF IInv
<1> QED BY InitIInv, NextKeepsIInv, <1>1, PTL DEF Spec

\* The backend's picture of the runtimes is current whenever no setting was
\* edited behind its back and no terminal is still opening.
THEOREM TheReportIsCurrent == Spec => []ReportIsCurrent
<1>1. IInv => ReportIsCurrent
  BY DEF IInv
<1> QED BY InitIInv, NextKeepsIInv, <1>1, PTL DEF Spec

\* A step that opens a terminal, if it is not the user's, is of a runtime that
\* has none.
LEMMA OneMoreTerminal ==
  ASSUME TypeOK, NEW r \in Terminal, Find(r) = 0, terms' = Append(terms, r)
  PROVE  Find(terms'[Len(terms')]) = 0
BY DEF TypeOK

LEMMA StepOpensOne ==
  ASSUME TypeOK, Next, Len(terms') > Len(terms)
  PROVE  \/ \E r \in Terminal : UserOpens(r)
         \/ \E r \in Terminal : Find(r) = 0 /\ terms' = Append(terms, r)
<1> SUFFICES ASSUME terms' # terms
             PROVE  \/ \E r \in Terminal : UserOpens(r)
                    \/ \E r \in Terminal : Find(r) = 0 /\ terms' = Append(terms, r)
  BY DEF TypeOK
<1>1. CASE Surroundings
  <2>1. ASSUME NEW t \in 0..Len(terms), UserCloses(t) PROVE FALSE
    BY <2>1 DEF UserCloses, TypeOK
  <2>2. ASSUME NEW auto \in BOOLEAN, Connect(auto)
        PROVE  \E r \in Terminal : Find(r) = 0 /\ terms' = Append(terms, r)
    BY <2>2 DEF Connect, Create
  <2> QED BY <1>1, <2>1, <2>2
      DEF Surroundings, Opened, FocusMoves, UserPrefers, Drop, RunEnds
<1>2. ASSUME NEW m \in Msg, Resumes(m)
      PROVE  \E r \in Terminal : Find(r) = 0 /\ terms' = Append(terms, r)
  <2>1. LaunchGoesOn(m) /\ Ensure(job[m].rt)
    BY <1>2 DEF Resumes, LaunchGoesOn, AttachGoesOn, SettingFails, GoesOn
  <2>2. job[m].rt \in Terminal
    BY <2>1 DEF LaunchGoesOn, Waits, TypeOK, Jobs, Idle, Kinds
  <2> QED BY <2>1, <2>2 DEF Ensure, Create
<1>3. ASSUME NEW m \in Msg, NEW kind \in Kinds \cup {"launch", "attach"},
             NEW target \in Target, Arrives(m, kind, target)
      PROVE  \E r \in Terminal : Find(r) = 0 /\ terms' = Append(terms, r)
  <2>1. StartTerminal(m, kind, target)
    BY <1>3 DEF Arrives, LaunchRefused, AttachRefused, AskSetting, Undeliverable, Exec,
                TypeNow, CopyPrompt, KillAtOnce, SendCtrlC
  <2> QED BY <2>1 DEF StartTerminal, ToTerminal, Create
<1>4. preferred \in Target
  BY DEF TypeOK
<1> QED BY <1>1, <1>2, <1>3, <1>4 DEF Next

\* Of the handlers that suspend between a request and the terminal it asks for,
\* none opens a second terminal for a runtime.
THEOREM OneTerminalForARuntime == Spec => OneTerminalEach
<1>1. IInv /\ [Next]_vars =>
        [Len(terms') > Len(terms) /\ Find(terms'[Len(terms')]) # 0
           => \E r \in Terminal : UserOpens(r)]_vars
  <2> SUFFICES ASSUME IInv, Next, Len(terms') > Len(terms), Find(terms'[Len(terms')]) # 0
               PROVE  \E r \in Terminal : UserOpens(r)
    BY DEF vars
  <2> QED BY StepOpensOne, OneMoreTerminal DEF IInv
<1> QED BY InitIInv, NextKeepsIInv, <1>1, PTL DEF Spec, OneTerminalEach

-----------------------------------------------------------------------------
(* RuntimeDeck: the last report on its way                                  *)
(*                                                                         *)
(* The phone is behind the bridge by what is on its way.  What the newest   *)
(* report on its way says is what the bridge reported last; when there is   *)
(* none, the phone has acted on that report already, or missed it.  A       *)
(* snapshot another handler holds back says so too, until a report passes   *)
(* it.                                                                      *)

News == [rt : Target, says : Says]
Reports == [is : {"report", "older", "unseen"}, body : ReportSet]
Messages == [is : {"event"}, body : News] \cup Reports
Snapshots == [is : {"none", "report", "older"}, body : ReportSet]

InStep(w, rep, c, lost) ==
  /\ \A i \in 1..Len(w) :
       IsNewest(w[i]) /\ (\A j \in 1..Len(w) : j > i => ~IsNewest(w[j])) => w[i].body = rep
  /\ (\A i \in 1..Len(w) : ~IsNewest(w[i])) => lost \/ c = rep

DeckInv ==
  /\ IInv
  /\ up \in {NoRequest} \cup [kind : {"launch", "attach"}, target : Runtime]
  /\ late \in Snapshots /\ (late.is = "report" => late.body = reported)
  /\ wire \in Seq(Messages) /\ caps \in ReportSet
  /\ act \in {NoAction} \cup [action : {"launch", "attach"}, rt : Runtime \cup {Other},
                              status : {"pending", "success", "error", "blocked"}]
  /\ missed \in BOOLEAN /\ unanswered \in BOOLEAN
  /\ InStep(wire, reported, caps, missed)

LEMMA MessageIs ==
  /\ \A x \in Messages : x.is \in {"event", "report", "older", "unseen"}
  /\ \A x \in Messages : x.is = "event" => x.body \in News
  /\ \A x \in Messages : x.is # "event" => x.body \in ReportSet
  /\ \A e \in News : Message("event", e) \in Messages /\ ~IsNewest(Message("event", e))
  /\ \A rep \in ReportSet, what \in {"report", "older", "unseen"} :
       /\ Message(what, rep) \in Messages
       /\ Message(what, rep).body = rep
       /\ IsNewest(Message(what, rep)) <=> what # "older"
BY DEF Messages, Reports, Message, IsNewest

LEMMA DeckInvTyped == DeckInv => DeckTypeOK
<1> SUFFICES ASSUME DeckInv PROVE DeckTypeOK
  OBVIOUS
<1>1. \A i \in DOMAIN wire : wire[i].is \in {"event", "report", "older", "unseen"}
  <2>1. wire \in Seq(Messages)
    BY DEF DeckInv
  <2>2. \A i \in DOMAIN wire : wire[i] \in Messages
    BY <2>1, LenProperties, ElementOfSeq
  <2> QED BY <2>2, MessageIs
<1>2. caps.active \in Runtime \cup {None}
  BY DEF DeckInv, ReportSet
<1>3. late.is \in {"none", "report", "older"}
  BY DEF DeckInv, Snapshots
<1> QED BY <1>1, <1>2, <1>3 DEF DeckInv, DeckTypeOK, IInv

\* A message that is no newest report says nothing about the newest one,
LEMMA OtherIsSent ==
  ASSUME NEW w \in Seq(Messages), NEW rep, NEW c, NEW lost, InStep(w, rep, c, lost),
         NEW x \in Messages, ~IsNewest(x)
  PROVE  Append(w, x) \in Seq(Messages) /\ InStep(Append(w, x), rep, c, lost)
<1> DEFINE v == Append(w, x)
<1>1. /\ v \in Seq(Messages) /\ Len(v) = Len(w) + 1 /\ Len(w) \in Nat
      /\ \A i \in 1..Len(w) : v[i] = w[i]
      /\ v[Len(w) + 1] = x
  BY AppendProperties, LenProperties
<1> HIDE DEF v
<1>2. \A i \in 1..Len(v) : i \in 1..Len(w) \/ i = Len(w) + 1
  BY <1>1
<1>3. \A i \in 1..Len(w) : i \in 1..Len(v)
  BY <1>1
<1>4. InStep(v, rep, c, lost)
  BY <1>1, <1>2, <1>3 DEF InStep
<1> QED BY <1>1, <1>4 DEF v

\* and a newest report at the end of the wire brings the phone into step.
LEMMA ReportIsSent ==
  ASSUME NEW w \in Seq(Messages), NEW x \in Messages, IsNewest(x), NEW c, NEW lost
  PROVE  Append(w, x) \in Seq(Messages) /\ InStep(Append(w, x), x.body, c, lost)
<1> DEFINE v == Append(w, x)
<1>1. /\ v \in Seq(Messages) /\ Len(v) = Len(w) + 1 /\ Len(w) \in Nat
      /\ v[Len(w) + 1] = x
  BY AppendProperties, LenProperties
<1> HIDE DEF v
<1>2. Len(w) + 1 \in 1..Len(v) /\ \A i \in 1..Len(v) : i # Len(w) + 1 => Len(w) + 1 > i
  BY <1>1
<1>3. InStep(v, x.body, c, lost)
  BY <1>1, <1>2 DEF InStep
<1> QED BY <1>1, <1>3 DEF v

\* What the bridge reported last changes only with a report.
LEMMA ReportedBySending ==
  ASSUME Next PROVE sent'.report = TRUE \/ reported' = reported
<1>1. \A e : SayAndReport(e) => sent'.report = TRUE \/ reported' = reported
  BY DEF SayAndReport
<1>2. \A e : SayOnly(e) => reported' = reported
  BY DEF SayOnly
<1>3. CASE Surroundings
  BY <1>1, <1>3 DEF Surroundings, Opened, UserCloses, FocusMoves, UserOpens, UserPrefers, Drop,
                    Connect, RunEnds, Quietly
<1>4. ASSUME NEW m \in Msg, Resumes(m) PROVE sent'.report = TRUE \/ reported' = reported
  BY <1>1, <1>4 DEF Resumes, LaunchGoesOn, AttachGoesOn, SettingFails, GoesOn, Finish
<1>5. ASSUME NEW m \in Msg, NEW kind, NEW target, Arrives(m, kind, target)
      PROVE  sent'.report = TRUE \/ reported' = reported
  BY <1>1, <1>2, <1>5
     DEF Arrives, LaunchRefused, AttachRefused, AskSetting, Undeliverable, Exec, TypeNow, StartTerminal,
         CopyPrompt, KillAtOnce, SendCtrlC, Finish, Quietly
<1> QED BY <1>3, <1>4, <1>5 DEF Next

\* A step of the bridge keeps the phone in step.
LEMMA ForwardsKeeps ==
  ASSUME DeckInv, Next, Forwards, up' \in {NoRequest} \cup [kind : {"launch", "attach"}, target : Runtime]
  PROVE  DeckInv'
<1>1. IInv'
  BY NextKeepsIInv DEF DeckInv
<1>2. sent' \in Sendable /\ reported' \in ReportSet /\ connected' \in BOOLEAN
  BY <1>1 DEF IInv, TypeOK, ReportSet
<1>3. (sent'.event # None => sent'.event \in News) /\ sent'.report \in BOOLEAN
  BY <1>2 DEF Sendable, Events, News
<1> DEFINE E == IF sent'.event # None THEN <<Message("event", sent'.event)>> ELSE <<>>
           e == Message("event", sent'.event)
           mid == IF sent'.event # None THEN Append(wire, e) ELSE wire
<1>4. wire \in Seq(Messages) /\ InStep(wire, reported, caps, missed)
  BY DEF DeckInv
<1>5. wire \o E = mid
  BY <1>3, <1>4, MessageIs, AppendIsConcat, ConcatEmptySeq
<1>6. mid \in Seq(Messages) /\ InStep(mid, reported, caps, missed)
  <2>1. CASE sent'.event # None
    BY <1>3, <1>4, <2>1, MessageIs, OtherIsSent
  <2>2. CASE sent'.event = None
    BY <1>4, <2>2
  <2> QED BY <2>1, <2>2
<1> HIDE DEF mid, e
<1>7. /\ wire' \in Seq(Messages) /\ InStep(wire', reported', caps, missed)
      /\ late' \in Snapshots /\ (late'.is = "report" => late'.body = reported')
  <2>1. CASE ~sent'.report /\ wire' = wire \o E /\ UNCHANGED late
    <3>1. reported' = reported
      BY <2>1, ReportedBySending
    <3> QED BY <1>5, <1>6, <2>1, <3>1 DEF DeckInv
  <2>2. CASE /\ sent'.report
             /\ wire' = Append(wire \o E, Message("report", reported')) /\ late' = Overtaken
    <3>1. late' \in Snapshots /\ late'.is # "report"
      BY <2>2 DEF Overtaken, Snapshots, DeckInv
    <3>2. PICK x \in Messages : x = Message("report", reported') /\ IsNewest(x) /\ x.body = reported'
      BY <1>2, MessageIs
    <3>3. wire' = Append(mid, x)
      BY <1>5, <2>2, <3>2
    <3>4. wire' \in Seq(Messages) /\ InStep(wire', x.body, caps, missed)
      BY <1>6, <3>2, <3>3, ReportIsSent
    <3> QED BY <3>1, <3>2, <3>4
  <2>3. CASE /\ sent'.report /\ late.is # "none"
             /\ wire' = Append(Append(wire \o E, Message("older", late.body)), Message("unseen", reported'))
             /\ late' = NoSnapshot
    <3>1. Append(mid, Message("older", late.body)) \in Seq(Messages)
      BY <1>6, MessageIs, OtherIsSent DEF DeckInv, Snapshots
    <3>2. late' \in Snapshots /\ late'.is # "report"
      BY <2>3 DEF NoSnapshot, NoReport, Message, Snapshots, ReportSet
    <3>3. PICK x \in Messages : x = Message("unseen", reported') /\ IsNewest(x) /\ x.body = reported'
      BY <1>2, MessageIs
    <3>4. wire' = Append(Append(mid, Message("older", late.body)), x)
      BY <1>5, <2>3, <3>3
    <3>5. wire' \in Seq(Messages) /\ InStep(wire', x.body, caps, missed)
      BY <3>1, <3>3, <3>4, ReportIsSent
    <3> QED BY <3>2, <3>3, <3>5
  <2> QED BY <2>1, <2>2, <2>3 DEF Forwards
<1>8. unanswered' \in BOOLEAN
  BY DEF Forwards, Loses
<1> QED BY <1>1, <1>2, <1>7, <1>8 DEF DeckInv, Forwards

-----------------------------------------------------------------------------
(* RuntimeDeck: its steps *)

\* What the window, its messages and its connections do is a step of
\* RuntimeControl.
Bridges == UpArrives \/ GoOn \/ Connects \/ OthersAct

LEMMA BridgesStep ==
  ASSUME DeckInv, Bridges
  PROVE  Next /\ Forwards /\ up' \in {NoRequest} \cup [kind : {"launch", "attach"}, target : Runtime]
<1>1. CASE UpArrives
  <2>1. up.kind \in {"launch", "attach"} /\ up.target \in Target
    BY <1>1 DEF DeckInv, UpArrives, Target
  <2> QED BY <1>1, <2>1 DEF UpArrives, Next
<1>2. CASE GoOn
  <2>1. opening \subseteq 0..Len(terms)
    BY DEF DeckInv, IInv, TypeOK
  <2>2. (\E m \in Msg : Resumes(m)) \/ (\E t \in 0..Len(terms) : Opened(t))
    BY <1>2, <2>1 DEF GoOn
  <2>3. Next
    BY <2>2 DEF Next, Surroundings
  <2> QED BY <1>2, <2>3 DEF GoOn, DeckInv
<1>3. CASE Connects
  BY <1>3 DEF Connects, Next, Surroundings, DeckInv
<1>4. CASE OthersAct
  BY <1>4 DEF OthersAct, Next, DeckInv
<1> QED BY <1>1, <1>2, <1>3, <1>4 DEF Bridges

\* The rest leaves the bridge alone.
LEMMA PhoneStep ==
  ASSUME DeckNext, ~Bridges PROVE UNCHANGED vars
BY DEF DeckNext, Bridges, Tap, TimerFires, Renders, Render, SnapshotBuilt, SnapshotSent, UpOffline,
       UpDropped

LEMMA UnseenKeepsIInv ==
  ASSUME IInv, UNCHANGED vars PROVE IInv'
BY NextKeepsIInv

\* What the page makes of an event or a report is about a runtime.
ActSet == {NoAction} \cup [action : {"launch", "attach"}, rt : Runtime \cup {Other},
                           status : {"pending", "success", "error", "blocked"}]

LEMMA NewsIs ==
  ASSUME NEW cur \in ActSet, NEW e \in News, Heeds(cur, e)
  PROVE  NewsAbout(cur, e) \in {"launch", "attach"} /\ e.rt \in Runtime \cup {Other}
<1>1. e.rt # None /\ NewsAbout(cur, e) # "none"
  BY DEF Heeds, HeedsAnyRuntime
<1>2. Inferred(e.says) \in {"launch", "attach", "none"}
  BY DEF Inferred
<1>3. cur.action \in {"launch", "attach", "none"}
  BY DEF ActSet, NoAction
<1> QED BY <1>1, <1>2, <1>3 DEF NewsAbout, News, Target

LEMMA ActionIs ==
  ASSUME NEW a \in {"launch", "attach"}, NEW r \in Runtime \cup {Other},
         NEW s \in {"pending", "success", "error", "blocked"}
  PROVE  Action(a, r, s) \in ActSet /\ Action(a, r, s).rt = r
BY DEF Action, ActSet

LEMMA ReduceIs ==
  ASSUME NEW cur \in ActSet, NEW e \in News
  PROVE  /\ Reduce(cur, e) \in ActSet
         /\ cur.status = "pending" => Reduce(cur, e).rt = cur.rt
<1>1. CASE ~Heeds(cur, e)
  BY <1>1 DEF Reduce
<1>2. CASE Heeds(cur, e)
  <2>1. PICK a \in {"launch", "attach"}, s \in {"success", "error", "blocked"} : Reduce(cur, e) = Action(a, e.rt, s)
    BY <1>2, NewsIs DEF Reduce
  <2>2. cur.status = "pending" => cur.rt = e.rt
    BY <1>2 DEF Heeds
  <2>3. e.rt \in Runtime \cup {Other}
    BY <1>2, NewsIs
  <2>4. Action(a, e.rt, s) \in ActSet /\ Action(a, e.rt, s).rt = e.rt
    BY <2>3, ActionIs
  <2> QED BY ONLY <2>1, <2>2, <2>4
<1> QED BY <1>1, <1>2

LEMMA ReconcileIs ==
  ASSUME NEW cur \in ActSet, NEW rep
  PROVE  Reconcile(cur, rep) \in ActSet /\ Reconcile(cur, rep).rt = cur.rt
<1>1. CASE cur.status # "pending"
  BY <1>1 DEF Reconcile
<1>2. CASE cur.status = "pending"
  BY <1>2 DEF Reconcile, ActSet, NoAction
<1> QED BY <1>1, <1>2

\* A render takes messages off the wire, and acts on the last of them or misses them.
LEMMA RenderKeeps ==
  ASSUME DeckInv, NEW k \in 1..MaxBatch, NEW last \in 0..k, Render(k, last)
  PROVE  DeckInv' /\ (act.status = "pending" => act'.rt = act.rt)
<1>0. IInv' /\ reported' = reported /\ up' = up /\ late' = late
  BY UnseenKeepsIInv DEF DeckInv, Render, vars
<1>1. wire \in Seq(Messages) /\ Len(wire) \in Nat /\ k \in 1..Len(wire) /\ k \in Nat /\ last \in Nat
      /\ (last > 0 => last \in 1..Len(wire) /\ wire[last] \in Messages)
  <2>1. wire \in Seq(Messages) /\ k \in 1..Len(wire) /\ MaxBatch \in Nat
    BY DeckAssumption DEF DeckInv, Render
  <2>2. Len(wire) \in Nat /\ (last > 0 => last \in 1..Len(wire))
    BY <2>1, LenProperties
  <2> QED BY <2>1, <2>2, ElementOfSeq
<1> DEFINE is == IF last = 0 THEN "none" ELSE wire[last].is
           body == wire[last].body
           passed(from) == \E i \in from..k : IsNewest(wire[i])
<1>2. /\ wire' = SubSeq(wire, k + 1, Len(wire))
      /\ caps' = IF is \in {"report", "older"} THEN body ELSE caps
      /\ act' = IF is \in {"report", "older"} THEN Reconcile(act, body)
                ELSE IF is = "event" THEN Reduce(act, body) ELSE act
      /\ missed' = IF is = "report" THEN passed(last + 1)
                   ELSE missed \/ is = "older" \/ passed(1)
      /\ unanswered' \in BOOLEAN
  BY DEF Render, Loses
<1>3. /\ wire' \in Seq(Messages) /\ Len(wire') = Len(wire) - k
      /\ \A i \in 1..(Len(wire) - k) : wire'[i] = wire[k + i]
  BY <1>1, <1>2, SubSeqProperties
<1>4. /\ is = "event" => body \in News
      /\ is \in {"report", "older"} => body \in ReportSet
  BY <1>1, MessageIs
<1>5. caps' \in ReportSet /\ missed' \in BOOLEAN
  <2>1. missed \in BOOLEAN /\ caps \in ReportSet
    BY DEF DeckInv
  <2>2. passed(1) \in BOOLEAN /\ passed(last + 1) \in BOOLEAN
    OBVIOUS
  <2> HIDE DEF is, body, passed
  <2> QED BY <1>2, <1>4, <2>1, <2>2
<1>6. act' \in ActSet /\ (act.status = "pending" => act'.rt = act.rt)
  <2>1. act \in ActSet
    BY DEF DeckInv, ActSet
  <2> HIDE DEF is, body, passed
  <2> QED BY <1>2, <1>4, <2>1, ReduceIs, ReconcileIs
<1>7. InStep(wire', reported, caps', missed')
  <2>1. \A i \in 1..Len(wire') : k + i \in 1..Len(wire) /\ wire'[i] = wire[k + i]
    BY <1>1, <1>3
  <2>2. \A j \in 1..Len(wire) : j > k => j - k \in 1..Len(wire') /\ wire'[j - k] = wire[j]
    BY <1>1, <1>3
  <2>3. ASSUME NEW i \in 1..Len(wire'), IsNewest(wire'[i]),
               \A j \in 1..Len(wire') : j > i => ~IsNewest(wire'[j])
        PROVE  wire'[i].body = reported
    <3>1. \A j \in 1..Len(wire) : j > k + i => j - k > i /\ j > k
      BY <1>1, <1>3
    <3>2. \A j \in 1..Len(wire) : j > k + i => ~IsNewest(wire[j])
      BY <2>2, <2>3, <3>1
    <3>3. k + i \in 1..Len(wire) /\ IsNewest(wire[k + i]) /\ wire'[i] = wire[k + i]
      BY <2>1, <2>3
    <3> QED BY <3>2, <3>3 DEF DeckInv, InStep
  <2>4. ASSUME \A i \in 1..Len(wire') : ~IsNewest(wire'[i])
        PROVE  missed' \/ caps' = reported
    <3>1. \A j \in 1..Len(wire) : j > k => ~IsNewest(wire[j])
      BY <2>2, <2>4
    <3>2. CASE is = "report"
      <4>1. last > 0 /\ IsNewest(wire[last]) /\ caps' = wire[last].body
        BY <1>1, <1>2, <3>2 DEF IsNewest
      <4>2. CASE passed(last + 1)
        BY <1>2, <3>2, <4>2
      <4>3. CASE ~passed(last + 1)
        <5>1. \A j \in 1..Len(wire) : j > last => j \in (last + 1)..k \/ j > k
          BY <1>1
        <5>2. \A j \in 1..Len(wire) : j > last => ~IsNewest(wire[j])
          BY <3>1, <4>3, <5>1
        <5> QED BY <1>1, <4>1, <5>2 DEF DeckInv, InStep
      <4> QED BY <4>2, <4>3
    <3>3. CASE is # "report" /\ (is = "older" \/ passed(1))
      BY <1>2, <3>3
    <3>4. CASE is # "report" /\ is # "older" /\ ~passed(1)
      <4>1. \A i \in 1..Len(wire) : i \in 1..k \/ i > k
        BY <1>1
      <4>2. \A i \in 1..Len(wire) : ~IsNewest(wire[i])
        BY <3>1, <3>4, <4>1
      <4>3. missed \/ caps = reported
        BY <4>2 DEF DeckInv, InStep
      <4>4. missed \in BOOLEAN
        BY DEF DeckInv
      <4> HIDE DEF is, passed
      <4> QED BY <1>2, <3>4, <4>3, <4>4
    <3> HIDE DEF is, passed
    <3> QED BY <3>2, <3>3, <3>4
  <2> QED BY <2>3, <2>4 DEF InStep
<1> QED BY <1>0, <1>2, <1>3, <1>5, <1>6, <1>7 DEF DeckInv, ActSet

\* Other handlers' snapshots repeat what the bridge reported last, or are older.
LEMMA SnapshotsKeep ==
  ASSUME DeckInv, SnapshotBuilt \/ SnapshotSent PROVE DeckInv'
<1>1. IInv' /\ reported' = reported
  BY UnseenKeepsIInv DEF DeckInv, SnapshotBuilt, SnapshotSent, vars
<1>2. CASE SnapshotBuilt
  <2>1. reported \in ReportSet
    BY DEF DeckInv, IInv, TypeOK, ReportSet
  <2>2. late' \in Snapshots /\ late'.body = reported
    BY <1>2, <2>1 DEF SnapshotBuilt, Message, Snapshots
  <2> QED BY <1>1, <1>2, <2>2 DEF SnapshotBuilt, DeckInv
<1>3. CASE SnapshotSent
  <2>1. late' \in Snapshots /\ late'.is # "report"
    BY <1>3 DEF SnapshotSent, NoSnapshot, NoReport, Message, Snapshots, ReportSet
  <2>2. late \in Messages /\ wire \in Seq(Messages) /\ InStep(wire, reported, caps, missed)
    BY <1>3 DEF SnapshotSent, DeckInv, Snapshots, Messages, Reports
  <2>3. wire' \in Seq(Messages) /\ InStep(wire', reported, caps, missed)
    <3>1. CASE IsNewest(late)
      <4>1. late.body = reported
        BY <1>3, <3>1 DEF SnapshotSent, DeckInv, Snapshots, IsNewest
      <4> QED BY <1>3, <2>2, <3>1, <4>1, ReportIsSent DEF SnapshotSent
    <3>2. CASE ~IsNewest(late)
      BY <1>3, <2>2, <3>2, OtherIsSent DEF SnapshotSent
    <3> QED BY <3>1, <3>2
  <2> QED BY <1>1, <1>3, <2>1, <2>3 DEF SnapshotSent, DeckInv
<1> QED BY <1>2, <1>3

\* A request that goes no further leaves the reports alone.
LEMMA LostRequestKeeps ==
  ASSUME DeckInv, UpOffline \/ UpDropped PROVE DeckInv'
<1>1. IInv' /\ reported' = reported
  BY UnseenKeepsIInv DEF DeckInv, UpOffline, UpDropped, vars
<1>2. wire' \in Seq(Messages) /\ InStep(wire', reported, caps, missed)
  <2>1. wire \in Seq(Messages) /\ InStep(wire, reported, caps, missed)
    BY DEF DeckInv
  <2>2. Event(None, "error") \in News
    BY DEF Event, News, Target, Says
  <2>3. CASE UpOffline
    BY <2>1, <2>2, <2>3, MessageIs, OtherIsSent DEF UpOffline
  <2> QED BY <2>1, <2>3 DEF UpDropped
<1>3. unanswered' \in BOOLEAN
  BY DEF UpOffline, UpDropped, Loses
<1> QED BY <1>1, <1>2, <1>3 DEF UpOffline, UpDropped, DeckInv

LEMMA TapKeeps ==
  ASSUME DeckInv, NEW action \in {"launch", "attach"}, NEW r \in Runtime, NEW heard \in BOOLEAN, Tap(action, r, heard)
  PROVE  DeckInv'
<1>1. IInv' /\ reported' = reported
  BY UnseenKeepsIInv DEF DeckInv, Tap, vars
<1>2. act' \in ActSet
  BY ActionIs DEF Tap
<1>3. up' \in {NoRequest} \cup [kind : {"launch", "attach"}, target : Runtime]
  BY DEF Tap, DeckInv
<1> QED BY <1>1, <1>2, <1>3 DEF Tap, DeckInv, ActSet

LEMMA DeckKeeps == ASSUME DeckInv, [DeckNext]_allVars PROVE DeckInv'
<1>1. CASE UNCHANGED allVars
  BY <1>1, UnseenKeepsIInv DEF allVars, deckVars, vars, DeckInv
<1>2. CASE Bridges
  BY <1>2, BridgesStep, ForwardsKeeps
<1>3. ASSUME NEW r \in Runtime, NEW heard \in BOOLEAN, Tap("launch", r, heard) \/ Tap("attach", r, heard)
      PROVE  DeckInv'
  BY <1>3, TapKeeps
<1>4. CASE TimerFires
  <2>1. IInv' /\ reported' = reported
    BY <1>4, UnseenKeepsIInv DEF DeckInv, TimerFires, vars
  <2> QED BY <1>4, <2>1 DEF TimerFires, DeckInv
<1>5. CASE Renders
  BY <1>5, RenderKeeps DEF Renders
<1>6. CASE UpOffline \/ UpDropped
  BY <1>6, LostRequestKeeps
<1>7. CASE SnapshotBuilt \/ SnapshotSent
  BY <1>7, SnapshotsKeep
<1> QED BY <1>1, <1>2, <1>3, <1>4, <1>5, <1>6, <1>7 DEF DeckNext, Bridges

LEMMA DeckStarts == ASSUME DeckInit PROVE DeckInv
<1>1. IInv /\ reported = NoReport
  BY InitIInv DEF DeckInit, Init
<1>2. NoReport \in ReportSet
  BY DEF NoReport, ReportSet
<1>3. wire = <<>> /\ Len(wire) = 0 /\ wire \in Seq(Messages)
  BY EmptySeq DEF DeckInit
<1>4. InStep(wire, reported, caps, missed)
  BY <1>1, <1>3 DEF InStep, DeckInit
<1>5. late \in Snapshots /\ late.is # "report"
  BY <1>2 DEF DeckInit, NoSnapshot, Message, Snapshots
<1> QED BY <1>1, <1>2, <1>3, <1>4, <1>5 DEF DeckInit, DeckInv

LEMMA DeckInvHolds == DeckSpec => []DeckInv
BY DeckStarts, DeckKeeps, PTL DEF DeckSpec

-----------------------------------------------------------------------------
(* RuntimeDeck: its theorems *)

(* Whatever the phone does, the bridge behaves as RuntimeControl says: every *)
(* step of the deck is a step of RuntimeControl or leaves it alone.          *)
THEOREM DeckIsControl == DeckSpec => Spec
<1>1. DeckInit => Init
  BY DEF DeckInit
<1>2. DeckInv /\ [DeckNext]_allVars => [Next]_vars
  BY BridgesStep, PhoneStep DEF allVars, vars
<1> QED BY <1>1, <1>2, DeckInvHolds, PTL DEF DeckSpec, Spec

(* The page's state is well formed, with the bridge's.                      *)
THEOREM DeckTypeCorrect == DeckSpec => []DeckTypeOK
BY DeckInvHolds, DeckInvTyped, PTL

(* What the page offers once it has rendered everything is what the bridge   *)
(* would do: unless it missed the newest report, to a later message of a     *)
(* render, to the feed or to an older snapshot, the last one it acted on is  *)
(* the last one the bridge sent, and that one is current.                    *)
THEOREM ButtonsStayHonest == DeckSpec => []ButtonsAreHonest
<1>1. ASSUME DeckInv PROVE ButtonsAreHonest
  <2> SUFFICES ASSUME connected, ~tuned, opening = {}, wire = <<>>, ~missed
               PROVE  /\ \A r \in Runtime : CanLaunch(r) => r \in Launchable /\ Find(r) = 0
                      /\ \A r \in Runtime : CanAttach(r) => Attached(r) /\ Active # r
                      /\ Enabled("prompt") => Resolve(None) = caps.active
                      /\ Enabled("approve") => Supports(Active, "approve") /\ Find(Active) # 0
    BY DEF ButtonsAreHonest
  <2>1. caps = Report
    <3>1. Len(wire) = 0
      BY EmptySeq
    <3>2. caps = reported
      BY <1>1, <3>1 DEF DeckInv, InStep
    <3> QED BY <1>1, <3>2 DEF DeckInv, IInv, ReportIsCurrent
  <2>2. /\ caps.attached = {r \in Runtime : Attached(r)}
        /\ caps.launchable = Launchable /\ caps.active = Active
    BY <2>1 DEF Report
  <2>3. \A r \in Runtime : CanLaunch(r) => r \in Launchable /\ Find(r) = 0
    BY <2>2 DEF CanLaunch, Attached, Launchable
  <2>4. \A r \in Runtime : CanAttach(r) => Attached(r) /\ Active # r
    BY <2>2 DEF CanAttach
  <2>5. Enabled("prompt") => Resolve(None) = caps.active
    BY <2>2 DEF Resolve
  <2>6. Enabled("approve") => Supports(Active, "approve") /\ Find(Active) # 0
    BY <2>2 DEF Enabled, Supports, Attached
  <2> QED BY <2>3, <2>4, <2>5, <2>6
<1> QED BY <1>1, DeckInvHolds, PTL

(* A pending launch or attach is given up only for another one the user      *)
(* asks for: no timer, no report and no other runtime's event takes it away. *)
THEOREM PendingStays == DeckSpec => PendingIsKept
<1> DEFINE Kept == \A r \in Runtime : Pending(r) /\ act'.rt # r
              => \E s \in Runtime \ {r}, heard \in BOOLEAN : Tap("launch", s, heard) \/ Tap("attach", s, heard)
<1>1. ASSUME DeckInv, DeckNext PROVE Kept
  <2> SUFFICES ASSUME NEW r \in Runtime, Pending(r), act'.rt # r
               PROVE  \E s \in Runtime \ {r}, heard \in BOOLEAN : Tap("launch", s, heard) \/ Tap("attach", s, heard)
    OBVIOUS
  <2>0. act.status = "pending" /\ act.rt = r
    BY DEF Pending
  <2>1. ~Bridges
    BY <1>1, <2>0, BridgesStep DEF Forwards
  <2>2. ~TimerFires
    BY <2>0 DEF TimerFires
  <2>3. ~Renders
    BY <1>1, <2>0, RenderKeeps DEF Renders
  <2>4. ~UpOffline /\ ~UpDropped /\ ~SnapshotBuilt /\ ~SnapshotSent
    BY <2>0 DEF UpOffline, UpDropped, SnapshotBuilt, SnapshotSent
  <2>5. PICK s \in Runtime, heard \in BOOLEAN : Tap("launch", s, heard) \/ Tap("attach", s, heard)
    BY <1>1, <2>1, <2>2, <2>3, <2>4 DEF DeckNext, Bridges
  <2>6. s # r
    BY <2>5 DEF Tap, Action
  <2> QED BY <2>5, <2>6
<1>2. ASSUME UNCHANGED allVars PROVE Kept
  BY <1>2 DEF allVars, deckVars, Pending
<1>3. DeckInv /\ [DeckNext]_allVars => [Kept]_allVars
  BY <1>1, <1>2
<1> QED BY <1>3, DeckInvHolds, PTL DEF DeckSpec, PendingIsKept, Kept

=============================================================================
