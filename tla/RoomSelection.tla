---------------------------- MODULE RoomSelection ----------------------------
(***************************************************************************)
(* Which project a room works on: what desktop hosts announce, the room's  *)
(* selection, and the project a phone's command is routed to               *)
(* (backend/connection_manager.py, connection_state.py,                    *)
(* connection_disconnect.py, project_registry.py, protocol_router.py).     *)
(*                                                                         *)
(* Every action runs on one asyncio loop without suspending; a selection   *)
(* suspends once, between its broadcast and its confirmation.  Reading the *)
(* active project may write the selection.                                 *)
(***************************************************************************)
EXTENDS Integers, Sequences, FiniteSets, SequencesExt

CONSTANTS
  Host,     \* connections of desktop hosts
  Phone,    \* connections of phones
  Project,  \* project ids
  Folder,   \* those with a workspace_path; the others are a host's default entry
  MaxListed,\* bound: projects in one announcement
  None

ASSUME SelectionAssumption ==
  /\ Host \cap Phone = {}
  /\ Folder \subseteq Project /\ None \notin Project \cup Host
  /\ MaxListed \in Nat \ {0}

Conn == Host \cup Phone

VARIABLES
  room,       \* rooms[token]: the connections (their order decides nothing, see Precedes)
  projects,   \* host_projects: per host the ids it announces, its primary one first
  ready,      \* hosts whose runtime_health is "ready"
  recent,     \* hosts that announced, newest updated_at first
  selection,  \* room_project_selection[token], or None
  confirming  \* per phone: the project it selected, until the confirmation is sent

vars == <<room, projects, ready, recent, selection, confirming>>

Lists(S) == {s \in Seq(S) : IsInjective(s)}
Announcements == {s \in UNION {[1..n -> Project] : n \in 1..MaxListed} : IsInjective(s)}

TypeOK ==
  /\ room \subseteq Conn
  /\ projects \in [Host -> Lists(Project)]
  /\ ready \subseteq Host /\ recent \in Seq(Host) /\ IsInjective(recent)
  /\ \A h \in Host : projects[h] # <<>> <=> Contains(recent, h)
  /\ \A h \in Host : projects[h] # <<>> => h \in room
  /\ selection \in Project \cup {None}
  /\ confirming \in [Phone -> Project \cup {None}]

Init ==
  /\ room = {}
  /\ projects = [h \in Host |-> <<>>]
  /\ ready = {} /\ recent = <<>>
  /\ selection = None
  /\ confirming = [p \in Phone |-> None]

-----------------------------------------------------------------------------
(* _room_project_entries: the projects of the hosts in the room, each with  *)
(* its place in what the host announces.                                    *)
Entries(r, pr) ==
  UNION {{[host |-> h, place |-> i, id |-> pr[h][i]] : i \in DOMAIN pr[h]} : h \in r \cap Host}

Live(id, es) == \E e \in es : e.id = id
Usable(id, es) == id \in Folder /\ Live(id, es)

(* sort_active_project_candidates: a workspace first, then a ready runtime, *)
(* then the newest announcement, which tells the hosts apart; within one    *)
(* host the order it announces.                                             *)
Age(h, rec) == CHOOSE i \in DOMAIN rec : rec[i] = h
Precedes(x, y, rdy, rec) ==
  \/ x.id \in Folder /\ y.id \notin Folder
  \/ /\ x.id \in Folder <=> y.id \in Folder
     /\ \/ x.host \in rdy /\ y.host \notin rdy
        \/ /\ x.host \in rdy <=> y.host \in rdy
           /\ Age(x.host, rec) < Age(y.host, rec)
        \/ x.host = y.host /\ x.place < y.place
Best(es, rdy, rec) == CHOOSE x \in es : \A y \in es \ {x} : Precedes(x, y, rdy, rec)
Candidate(es, rdy, rec) == Best(es, rdy, rec).id

(* get_active_host_project: the project asked for, or else the selected one, *)
(* if it is usable; otherwise the best candidate, which becomes the          *)
(* selection.                                                                *)
Active(want, sel, es, rdy, rec) ==
  LET id == IF want # None THEN want ELSE sel IN
  IF es = {} THEN None
  ELSE IF Usable(id, es) THEN id ELSE Candidate(es, rdy, rec)

(* A variant, for the mutants of PROJECT.json. *)
SelectionAfterFirst(want, sel, es, rdy, rec) ==
  IF sel # None \/ es = {} THEN sel ELSE Candidate(es, rdy, rec)

SelectionAfter(want, sel, es, rdy, rec) ==
  LET id == IF want # None THEN want ELSE sel IN
  IF es = {} \/ Usable(id, es) THEN sel ELSE Candidate(es, rdy, rec)

Here == Entries(room, projects)
ReadActive(want) == selection' = SelectionAfter(want, selection, Here, ready, recent)

-----------------------------------------------------------------------------
Connect(c) ==
  /\ c \notin room
  /\ room' = room \cup {c}
  /\ UNCHANGED <<projects, ready, recent, selection, confirming>>

(* should_replace_room_selection *)
Replaces(sel, es, primary) ==
  \/ sel = None \/ ~Live(sel, es)
  \/ sel \notin Folder /\ primary \in Folder

(* Variants of the operations, for the mutants of PROJECT.json. *)
AnnounceTakesSelection(h, list, isReady) ==
  /\ h \in room
  /\ projects' = [projects EXCEPT ![h] = list]
  /\ ready' = IF isReady THEN ready \cup {h} ELSE ready \ {h}
  /\ recent' = <<h>> \o RemoveFirst(recent, h)
  /\ selection' = SelectionAfter(None, list[1], Entries(room, projects'), ready', recent')
  /\ UNCHANGED <<room, confirming>>

(* sync_bridge_metadata: update_host_session stores what the host announces *)
(* and may move the selection to its primary project; the snapshot that is  *)
(* broadcast next reads the active project.                                 *)
Announce(h, list, isReady) ==
  /\ h \in room
  /\ projects' = [projects EXCEPT ![h] = list]
  /\ ready' = IF isReady THEN ready \cup {h} ELSE ready \ {h}
  /\ recent' = <<h>> \o RemoveFirst(recent, h)
  /\ LET es == Entries(room, projects')
         sel == IF Replaces(selection, es, list[1]) THEN list[1] ELSE selection
     IN  selection' = SelectionAfter(None, sel, es, ready', recent')
  /\ UNCHANGED <<room, confirming>>

(* disconnect: only the host's primary project counts as removed. *)
Disconnect(c) ==
  /\ c \in room
  /\ room' = room \ {c}
  /\ LET primary == IF c \in Host /\ projects[c] # <<>> THEN projects[c][1] ELSE None IN
     /\ projects' = [h \in Host |-> IF h = c THEN <<>> ELSE projects[h]]
     /\ ready' = ready \ {c}
     /\ recent' = RemoveFirst(recent, c)
     /\ LET es == Entries(room', projects') IN
        selection' = IF room' = {} THEN None
                     ELSE IF selection # None /\ selection = primary
                     THEN Active(None, selection, es, ready', recent')
                     ELSE selection
  /\ UNCHANGED <<confirming>>

(* A snapshot: for a new connection, a "hello", or the periodic sync. *)
Snapshot ==
  /\ room # {}
  /\ ReadActive(None)
  /\ UNCHANGED <<room, projects, ready, recent, confirming>>

(* route_project_select: the snapshot that is broadcast reads the active    *)
(* project, and after the broadcast the confirmation reads it again.        *)
SelectProject(p, id) ==
  /\ p \in room /\ confirming[p] = None
  /\ Live(id, Here)
  /\ selection' = SelectionAfter(None, id, Here, ready, recent)
  /\ confirming' = [confirming EXCEPT ![p] = id]
  /\ UNCHANGED <<room, projects, ready, recent>>

ConfirmSelection(p) ==
  /\ confirming[p] # None
  /\ confirming' = [confirming EXCEPT ![p] = None]
  /\ ReadActive(confirming[p])
  /\ UNCHANGED <<room, projects, ready, recent>>

(* resolve_target_project, for a prompt, a command, an approval or a kill. *)
Route(want) ==
  /\ room # {}
  /\ ReadActive(want)
  /\ UNCHANGED <<room, projects, ready, recent, confirming>>

Next ==
  \/ \E c \in Conn : Connect(c) \/ Disconnect(c)
  \/ \E h \in Host, list \in Announcements, isReady \in BOOLEAN : Announce(h, list, isReady)
  \/ Snapshot
  \/ \E p \in Phone : ConfirmSelection(p) \/ \E id \in Project : SelectProject(p, id)
  \/ \E want \in Project \cup {None} : Route(want)

Spec == Init /\ [][Next]_vars

-----------------------------------------------------------------------------
(* Properties *)

(* The parts of a snapshot read the active project one after another, each  *)
(* read after the writes of the one before: they all name the same project, *)
(* and the selection the registry marks is that project.                    *)
SnapshotAgrees ==
  LET first == Active(None, selection, Here, ready, recent)
      after == SelectionAfter(None, selection, Here, ready, recent)
  IN  Here # {} =>
        /\ after = first
        /\ Active(None, after, Here, ready, recent) = first

(* While the selected project is usable before and after, only a selection, *)
(* or a read for a project that is not usable, moves the selection: hosts   *)
(* that come, go, or announce other projects never take it away.            *)
SelectionNotStolen ==
  [][\A id \in Project :
       id = selection /\ Usable(id, Here) /\ Usable(id, Here') /\ selection' # id =>
         \/ \E p \in Phone, pr \in Project : SelectProject(p, pr)
         \/ \E p \in Phone : ConfirmSelection(p) /\ ~Usable(confirming[p], Here)
         \/ \E pr \in Project : Route(pr) /\ ~Usable(pr, Here)]_vars

=============================================================================
