----------------------------- MODULE RuntimeDeck -----------------------------
(***************************************************************************)
(* The phone's side of RuntimeControl: the runtime buttons, the feedback of *)
(* a launch or an attach, and the capabilities that decide what may be sent *)
(* (frontend/src/App.jsx, utils/runtimeActionState.js,                      *)
(* utils/runtimeCapabilities.js, components/MobileToolsSheet.jsx).          *)
(*                                                                          *)
(* The backend reads the messages of the bridge one after the other, and     *)
(* sends a report on as a snapshot: session.state, then capabilities, each   *)
(* an awaited send.  Other handlers send snapshots too (a hello, a joining   *)
(* phone, a selection), built from the registry before their sends: theirs   *)
(* may arrive after a newer report, or between the two packets of one.  The  *)
(* page's feed takes capabilities that follow capabilities for a repetition, *)
(* whatever they say, and a page that renders late acts only on the last     *)
(* message of a render.  A request is dropped when the phone's socket is     *)
(* closed, when no bridge is connected (the error that says so names no      *)
(* runtime) or when the driver has ended (nobody says so).  The backend does *)
(* not restart here; module Delivery is about that.                          *)
(***************************************************************************)
EXTENDS RuntimeControl

CONSTANTS
  MaxBatch,  \* bound: messages of one render
  MaxWire,   \* bound: messages under way to the phone when somebody acts, see Room
  MaxOthers  \* bound: steps that others take

ASSUME DeckAssumption == MaxBatch \in Nat \ {0} /\ MaxWire \in Nat /\ MaxOthers \in Nat

VARIABLES
  up,         \* this phone's request on its way (one at a time), or NoRequest
  late,       \* a snapshot another handler has built and not sent yet
  wire,       \* events and reports on their way to the phone
  caps,       \* capabilityInfo: the last report the page acted on
  act,        \* runtimeActionState, or NoAction
  missed,     \* caps is not what the newest report of those rendered says
  unanswered, \* the request of the pending action, or its answer, was lost
  others      \* how many steps others took

deckVars == <<up, late, wire, caps, act, missed, unanswered, others>>
allVars == <<vars, deckVars>>

Room == Len(wire) < MaxWire  \* bound, of those who send or tap; a request waits for one more

NoRequest == [kind |-> "none", target |-> None]
NoAction == [action |-> "none", rt |-> None, status |-> "none"]
Action(a, r, s) == [action |-> a, rt |-> r, status |-> s]

(* A report goes to the page as capabilities: "report" the newest so far,    *)
(* "older" one that a newer report was sent before or will follow at once,   *)
(* "unseen" one that directly follows another and that the feed drops.  Two  *)
(* equal events that end an action never meet: the report of the first       *)
(* stands between them.                                                      *)
Message(is, body) == [is |-> is, body |-> body]
NoSnapshot == Message("none", NoReport)
IsNewest(message) == message.is \in {"report", "unseen"}

(* A step in which the pending action, if there is one, may lose its answer.  *)
Loses(answer) == unanswered' = (act'.status = "pending" /\ (unanswered \/ answer))

Pending(r) == act.status = "pending" /\ act.rt = r

DeckTypeOK ==
  /\ TypeOK
  /\ up \in {NoRequest} \cup [kind : {"launch", "attach"}, target : Runtime]
  /\ \A i \in DOMAIN wire : wire[i].is \in {"event", "report", "older", "unseen"}
  /\ late.is \in {"none", "report", "older"}
  /\ caps.active \in Runtime \cup {None}
  /\ act \in {NoAction} \cup [action : {"launch", "attach"}, rt : Runtime \cup {Other},
                              status : {"pending", "success", "error", "blocked"}]
  /\ missed \in BOOLEAN /\ unanswered \in BOOLEAN

(* The window starts with the default of the setting, which is empty. *)
DeckInit ==
  /\ Init /\ preferred = None
  /\ up = NoRequest /\ late = NoSnapshot /\ wire = <<>> /\ caps = NoReport /\ act = NoAction
  /\ missed = FALSE /\ unanswered = FALSE /\ others = 0

-----------------------------------------------------------------------------
(* getRuntimeLifecycleState; the first is a variant for a mutant. *)
CanLaunchAttached(r) == r \in caps.launchable
CanLaunch(r) == r \in caps.launchable \ caps.attached
CanAttach(r) == r \in caps.attached \ {caps.active}

(* getCapabilityState for the active runtime.  Without one the host's health *)
(* is "offline" and nothing is enabled; Ctrl+C for a detached runtime that   *)
(* is thinking is left out.                                                  *)
Enabled(cap) ==
  /\ caps.active # None
  /\ caps.active \in Terminal \/ cap = "prompt"
  /\ caps.active \in caps.attached \/ cap = "prompt"

(* inferActionFromReason *)
Inferred(says) ==
  CASE says \in {"launched", "cannot launch"} -> "launch"
    [] says \in {"attached", "blocked", "cannot attach"} -> "attach"
    [] OTHER -> "none"

(* reduceRuntimeActionWithEvent: what an event is news about, whether the    *)
(* page heeds it, and the state it leaves.  Variants first.                  *)
NewsAbout(cur, e) == IF cur.rt = e.rt THEN cur.action ELSE Inferred(e.says)

HeedsAnyRuntime(cur, e) ==
  e.rt # None /\ NewsAbout(cur, e) # "none" /\ e.says # "dispatched"

HeedsNoError(cur, e) ==
  /\ HeedsAnyRuntime(cur, e) /\ (cur.status = "pending" => cur.rt = e.rt)
  /\ e.says \in {"launched", "attached", "blocked"}

Heeds(cur, e) ==
  HeedsAnyRuntime(cur, e) /\ (cur.status = "pending" => cur.rt = e.rt)

Reduce(cur, e) ==
  IF ~Heeds(cur, e) THEN cur
  ELSE CASE e.says = "blocked" -> Action("attach", e.rt, "blocked")
         [] e.says = "launched" -> Action("launch", e.rt, "success")
         [] e.says = "attached" -> Action(NewsAbout(cur, e), e.rt, "success")
         [] OTHER -> Action(NewsAbout(cur, e), e.rt, "error")

(* reconcileRuntimeActionWithCapabilities *)
Reconcile(cur, report) ==
  IF /\ cur.status = "pending" /\ report.active = cur.rt
     /\ cur.action = "launch" => cur.rt \in report.attached
  THEN [cur EXCEPT !.status = "success"] ELSE cur

-----------------------------------------------------------------------------
(* handleRuntimeLaunch and handleRuntimeAttach of App.jsx: a tap on a button *)
(* that is not disabled.  `heard` is whether the phone's socket is open.      *)
Tap(action, r, heard) ==
  /\ up = NoRequest /\ Room
  /\ ~Pending(r) /\ IF action = "launch" THEN CanLaunch(r) ELSE CanAttach(r)
  /\ act' = Action(action, r, "pending")
  /\ unanswered' = ~heard
  /\ up' = IF heard THEN [kind |-> action, target |-> r] ELSE up
  /\ UNCHANGED <<late, wire, caps, missed, others>> /\ UNCHANGED vars

(* The timers of the feedback, 4.5 and 9 seconds. *)
TimerFires ==
  /\ act.status \in {"success", "error", "blocked"}
  /\ act' = NoAction
  /\ UNCHANGED <<up, late, wire, caps, missed, unanswered, others>> /\ UNCHANGED vars

(* addMsg k times, and the effect on messages: it acts on the last of the    *)
(* messages the feed took, or on none (last = 0) when a message of another   *)
(* kind (session.state, a result, text) came after them or the feed took     *)
(* none.                                                                     *)
Render(k, last) ==
  /\ k \in 1..Len(wire) /\ k <= MaxBatch /\ last <= k
  /\ last > 0 => /\ wire[last].is # "unseen"
                /\ \A i \in (last + 1)..k : wire[i].is = "unseen"
  /\ wire' = SubSeq(wire, k + 1, Len(wire))
  /\ LET is == IF last = 0 THEN "none" ELSE wire[last].is
         body == wire[last].body
         passed(from) == \E i \in from..k : IsNewest(wire[i])
     IN  /\ caps' = IF is \in {"report", "older"} THEN body ELSE caps
         /\ act' = IF is \in {"report", "older"} THEN Reconcile(act, body)
                   ELSE IF is = "event" THEN Reduce(act, body) ELSE act
         /\ missed' = IF is = "report" THEN passed(last + 1)
                      ELSE missed \/ is = "older" \/ passed(1)
         /\ Loses(\E i \in (1..k) \ {last} : wire[i].is = "event" /\ wire[i].body.rt = act.rt)
  /\ UNCHANGED <<up, late, others>> /\ UNCHANGED vars

Renders == \E k \in 1..MaxBatch : \E last \in 0..k : Render(k, last)

-----------------------------------------------------------------------------
(* handle_bridge_room_event and sync_bridge_metadata of a step of the bridge: *)
(* an event goes to the phone, a report becomes the registry and the second  *)
(* packet of a snapshot.  The snapshot of another handler, built before, may *)
(* come between the two packets.                                             *)
Overtaken == IF late.is = "none" THEN late ELSE [late EXCEPT !.is = "older"]

Forwards ==
  LET before == wire \o (IF sent'.event # None THEN <<Message("event", sent'.event)>> ELSE <<>>) IN
  /\ \/ ~sent'.report /\ wire' = before /\ UNCHANGED late
     \/ /\ sent'.report
        /\ wire' = Append(before, Message("report", reported')) /\ late' = Overtaken
     \/ /\ sent'.report /\ late.is # "none"
        /\ wire' = Append(Append(before, Message("older", late.body)), Message("unseen", reported'))
        /\ late' = NoSnapshot
  /\ UNCHANGED <<caps, act, missed>>
  /\ Loses(~connected')

(* _send_initial_snapshot, and _broadcast_room_snapshot of a selection: the  *)
(* payload is built, and its capabilities sent after an await.               *)
SnapshotBuilt ==
  /\ Room
  /\ others < MaxOthers /\ others' = others + 1
  /\ late.is = "none" /\ late' = Message("report", reported)
  /\ UNCHANGED <<up, wire, caps, act, missed, unanswered>> /\ UNCHANGED vars

SnapshotSent ==
  /\ Room
  /\ late.is # "none" /\ late' = NoSnapshot
  /\ wire' = Append(wire, late)
  /\ UNCHANGED <<up, caps, act, missed, unanswered, others>> /\ UNCHANGED vars

-----------------------------------------------------------------------------
(* route_command_dispatch: the driver has the request sent to the bridge.    *)
UpArrives ==
  /\ up # NoRequest /\ connected /\ Len(wire) <= MaxWire
  /\ \E m \in Msg : Arrives(m, up.kind, up.target)
  /\ up' = NoRequest
  /\ Forwards /\ UNCHANGED others

(* _desktop_host_ready: without a host the request goes no further.          *)
UpOffline ==
  /\ up # NoRequest /\ ~connected
  /\ up' = NoRequest
  /\ wire' = Append(wire, Message("event", Event(None, "error")))
  /\ UNCHANGED <<late, caps, act, missed, others>> /\ UNCHANGED vars
  /\ Loses(TRUE)

(* dispatch_command of a driver that has ended returns without a word; the   *)
(* host may also leave while the request is in the driver's queue.           *)
UpDropped ==
  /\ up # NoRequest
  /\ up' = NoRequest
  /\ UNCHANGED <<late, wire, caps, act, missed, others>> /\ UNCHANGED vars
  /\ Loses(TRUE)

GoOn ==
  /\ (\E m \in Msg : Resumes(m)) \/ (Room /\ \E t \in opening : Opened(t))
  /\ Forwards /\ UNCHANGED <<up, others>>

Connects == Room /\ (\E auto \in BOOLEAN : Connect(auto)) /\ Forwards /\ UNCHANGED <<up, others>>

(* Another phone, the user and the window itself. *)
OthersAct ==
  /\ Room
  /\ others < MaxOthers /\ others' = others + 1
  /\ \/ /\ connected
        /\ \E m \in Msg, kind \in Kinds \cup {"launch", "attach"}, target \in Target :
             Arrives(m, kind, target)
     \/ Surroundings
  /\ Forwards /\ UNCHANGED up

DeckNext ==
  \/ \E r \in Runtime, heard \in BOOLEAN : Tap("launch", r, heard) \/ Tap("attach", r, heard)
  \/ TimerFires
  \/ Renders
  \/ SnapshotBuilt \/ SnapshotSent
  \/ UpArrives \/ UpOffline \/ UpDropped \/ GoOn \/ Connects \/ OthersAct

(* A request is handled, to the bridge or not; messages are delivered and     *)
(* rendered, and what a handler of the bridge waits for comes.               *)
DeckSpec == DeckInit /\ [][DeckNext]_allVars
FairDeckSpec ==
  /\ DeckSpec
  /\ WF_allVars(UpArrives \/ UpOffline \/ UpDropped) /\ WF_allVars(GoOn)
  /\ WF_allVars(Renders)

-----------------------------------------------------------------------------
(* Properties *)

(* Once everything sent has been rendered, what the page offers is what the  *)
(* bridge would do: a runtime it can launch, one it can attach, a prompt for *)
(* the runtime that is active, an answer for a terminal that is there.  The  *)
(* page is wrong only about settings the user edited and terminals that are  *)
(* opening, and when the newest report was masked by a later message of its  *)
(* render, dropped by the feed because it followed another handler's, or     *)
(* overtaken by that.                                                        *)
ButtonsAreHonest ==
  connected /\ ~tuned /\ opening = {} /\ wire = <<>> /\ ~missed =>
    /\ \A r \in Runtime : CanLaunch(r) => r \in Launchable /\ Find(r) = 0
    /\ \A r \in Runtime : CanAttach(r) => Attached(r) /\ Active # r
    /\ Enabled("prompt") => Resolve(None) = caps.active
    /\ Enabled("approve") => Supports(Active, "approve") /\ Find(Active) # 0

(* A pending launch or attach ends only by news about its own runtime, or    *)
(* when the user asks for another one: no timer and no other runtime's event *)
(* clears it.                                                                *)
PendingIsKept ==
  [][\A r \in Runtime : Pending(r) /\ act'.rt # r
       => \E s \in Runtime \ {r}, heard \in BOOLEAN : Tap("launch", s, heard) \/ Tap("attach", s, heard)]_allVars

(* No action is pending for ever, unless the request or its answer was       *)
(* lost: the phone or the bridge was offline, the driver had ended, or a     *)
(* later message of the same render masked the answer.                       *)
PendingIsAnswered ==
  \A r \in Runtime : []<>(~Pending(r) \/ unanswered)

=============================================================================
