--------------------------- MODULE ProjectRouting ----------------------------
(***************************************************************************)
(* From the project a phone shows to the folder a command runs in.  Each    *)
(* VS Code window announces its folders over its connection                 *)
(* (vscode-bridge/src/extension.ts, workspaceProjects.ts); the backend keeps *)
(* them and the room's selection (module RoomSelection) and posts both to    *)
(* the phones (backend/main.py); a command names the project the phone       *)
(* shows, is resolved to a connection and a path when it is routed           *)
(* (backend/protocol_router.py), waits in the driver's queue, and is resolved *)
(* to a folder again by the window it reaches.  Folders are also added from   *)
(* the phone, by a picker on the desktop (workspaceFolderPicker.ts).          *)
(*                                                                         *)
(* Left out: which runtime a command goes to (RuntimeControl), the driver    *)
(* (DriverLifecycle), runtimes that are not ready (RoomSelection).           *)
(***************************************************************************)
EXTENDS RoomSelection

CONSTANTS
  Window,    \* VS Code windows; those of one machine share a host id
  WindowOf,  \* [Host -> Window]: whose connection it is; one breaks, and the window opens another
  Layouts,   \* per window: bound: the lists of folders a user arranges there
  First,     \* the connection that is there when the model starts
  Blank,     \* the id host::default, which a window without folders announces
  MaxChanges,\* bound: changes of folders and broken connections
  MaxWire    \* bound: reports of one window on their way

ASSUME RoutingAssumption ==
  /\ First \in Host /\ WindowOf \in [Host -> Window]
  /\ Layouts \in [Window -> SUBSET Lists(Folder)]
  /\ Blank \in Project \ Folder /\ MaxChanges \in Nat /\ MaxWire \in Nat

VARIABLES
  joined,   \* the hosts of the room in order of arrival
  folders,  \* per window: vscode.workspace.workspaceFolders
  picker,   \* windows whose folder picker is open
  link,     \* per window: the connection it uses, or None
  wire,     \* per connection: lists of projects on their way to the backend
  seen,     \* per phone: the projects and the active one it shows
  queue,    \* the driver's queue: commands that were routed
  changes   \* history: changes of folders and broken connections so far

roomVars == vars
windowVars == <<folders, picker, link, wire>>
routingVars == <<roomVars, joined, windowVars, seen, queue, changes>>

(* buildWorkspaceProjectMetadata *)
Projects(fs) == IF fs = <<>> THEN <<Blank>> ELSE fs

Ids(pr) == UNION {ToSet(pr[h]) : h \in room \cap Host}
View == [list : SUBSET Project, active : Project \cup {None}]
Commands == [kind : {"run", "add"}, want : Project \cup {None}, known : BOOLEAN,
             conn : Host \cup {None}, root : Folder \cup {None}]

RoutingTypeOK ==
  /\ TypeOK
  /\ joined \in Seq(Host) /\ ToSet(joined) = room \cap Host /\ IsInjective(joined)
  /\ folders \in [Window -> Lists(Folder)]
  /\ picker \subseteq Window
  /\ \A w \in Window : link[w] # None => WindowOf[link[w]] = w /\ link[w] \in room
  /\ \A h \in Host : wire[h] # <<>> => link[WindowOf[h]] = h
  /\ seen \in [Phone -> View] /\ queue \in Seq(Commands)
  /\ changes \in 0..MaxChanges

(* The phones and one window are there already. *)
RoutingInit ==
  /\ folders \in [Window -> UNION {Layouts[w] : w \in Window}] /\ \A w \in Window : folders[w] \in Layouts[w]
  /\ room = Phone \cup {First} /\ joined = <<First>>
  /\ projects = [h \in Host |-> IF h = First THEN Projects(folders[WindowOf[h]]) ELSE <<>>]
  /\ ready = {First} /\ recent = <<First>>
  /\ selection = projects[First][1] /\ confirming = [p \in Phone |-> None]
  /\ picker = {}
  /\ link = [w \in Window |-> IF w = WindowOf[First] THEN First ELSE None]
  /\ wire = [h \in Host |-> <<>>]
  /\ seen = [p \in Phone |-> [list |-> {}, active |-> None]]
  /\ queue = <<>> /\ changes = 0

-----------------------------------------------------------------------------
(* The windows *)

WireHasRoom(w) == link[w] # None => Len(wire[link[w]]) < MaxWire

(* A variant, for the mutants of PROJECT.json. *)
ReportedUnlessEmpty(w, fs) ==
  IF link[w] = None \/ fs = <<>> THEN wire ELSE [wire EXCEPT ![link[w]] = Append(@, Projects(fs))]

(* reportCapabilities sends what the window has open now, if it is connected. *)
Reported(w, fs) ==
  IF link[w] = None THEN wire ELSE [wire EXCEPT ![link[w]] = Append(@, Projects(fs))]

Open(w, h) ==
  /\ link[w] = None /\ WindowOf[h] = w
  /\ \A i \in DOMAIN queue : queue[i].conn # h
  /\ Connect(h)
  /\ joined' = Append(joined, h)
  /\ link' = [link EXCEPT ![w] = h]
  /\ UNCHANGED <<folders, picker, wire, seen, queue, changes>>

(* The report of a new connection, once the preferred runtime is ready.  The *)
(* later ones that repeat it are left out.                                   *)
Report(w) ==
  /\ link[w] # None /\ wire[link[w]] = <<>> /\ projects[link[w]] = <<>>
  /\ wire' = Reported(w, folders[w])
  /\ UNCHANGED <<roomVars, joined, folders, picker, link, seen, queue, changes>>

(* Variants of the operations, for the mutants of PROJECT.json. *)
ChangeFoldersUnheard(w, list) ==
  /\ changes < MaxChanges /\ list # folders[w] /\ WireHasRoom(w)
  /\ folders' = [folders EXCEPT ![w] = list]
  /\ changes' = changes + 1
  /\ UNCHANGED <<roomVars, joined, picker, link, wire, seen, queue>>

(* newWorkspaceFolders without the filter. *)
NewFoldersAll(w, chosen) == chosen

(* The user opens, closes or reorders folders; onDidChangeWorkspaceFolders. *)
ChangeFolders(w, list) ==
  /\ changes < MaxChanges /\ list # folders[w] /\ WireHasRoom(w)
  /\ folders' = [folders EXCEPT ![w] = list]
  /\ wire' = Reported(w, list)
  /\ changes' = changes + 1
  /\ UNCHANGED <<roomVars, joined, picker, link, seen, queue>>

(* newWorkspaceFolders: what is open is read when the dialog has closed. *)
NewFolders(w, chosen) == chosen \ ToSet(folders[w])

(* The picker closes on a choice.  Nothing chosen: nothing is reported.      *)
(* Nothing new, or an update VS Code refuses: the folders stay.  Otherwise   *)
(* the change is reported by its listener and by the handler.                *)
ClosePicker(w, chosen) ==
  LET new == NewFolders(w, chosen) IN
  /\ w \in picker /\ WireHasRoom(w) /\ IsFiniteSet(chosen)
  /\ picker' = picker \ {w}
  /\ \/ chosen = {} /\ UNCHANGED <<folders, wire, changes>>
     \/ chosen # {} /\ new = {} /\ wire' = Reported(w, folders[w]) /\ UNCHANGED <<folders, changes>>
     \/ new # {} /\ UNCHANGED <<folders, wire, changes>>
     \/ /\ new # {} /\ changes < MaxChanges
        /\ \E order \in SetToSeqs(new) : folders' = [folders EXCEPT ![w] = @ \o order]
        /\ wire' = Reported(w, folders'[w])
        /\ changes' = changes + 1
  /\ UNCHANGED <<roomVars, joined, link, seen, queue>>

(* The connection breaks; the backend does not know yet. *)
Break(w) ==
  /\ link[w] # None /\ changes < MaxChanges
  /\ link' = [link EXCEPT ![w] = None]
  /\ wire' = [wire EXCEPT ![link[w]] = <<>>]
  /\ changes' = changes + 1
  /\ UNCHANGED <<roomVars, joined, folders, picker, seen, queue>>

-----------------------------------------------------------------------------
(* The backend *)

(* sync_bridge_metadata *)
Hear(h) ==
  /\ wire[h] # <<>>
  /\ wire' = [wire EXCEPT ![h] = Tail(@)]
  /\ Announce(h, Head(wire[h]), TRUE)
  /\ UNCHANGED <<joined, folders, picker, link, seen, queue, changes>>

(* The socket's loop, or a send, finds the connection broken. *)
Unregister(h) ==
  /\ link[WindowOf[h]] # h
  /\ Disconnect(h)
  /\ joined' = RemoveFirst(joined, h)
  /\ UNCHANGED <<windowVars, seen, queue, changes>>

(* A snapshot: for a new connection, or by _periodic_state_sync.             *)
Sync ==
  /\ Snapshot
  /\ UNCHANGED <<joined, windowVars, seen, queue, changes>>

(* The entry of get_active_host_project, with its connection: the project    *)
(* asked for as the first connection in the room announces it, or else the   *)
(* best candidate.                                                           *)
Target(want) ==
  LET id == IF want # None THEN want ELSE selection IN
  IF Here = {} THEN [conn |-> None, root |-> None]
  ELSE IF Usable(id, Here)
  THEN [conn |-> joined[SelectInSeq(joined, LAMBDA h : Contains(projects[h], id))], root |-> id]
  ELSE LET best == Best(Here, ready, recent) IN
       [conn |-> best.host, root |-> IF best.id \in Folder THEN best.id ELSE None]

(* The router resolves a command and hands it to the driver.  Bound: one     *)
(* command at a time.                                                        *)
Routed(kind, want) ==
  /\ queue = <<>>
  /\ Route(want)
  /\ queue' = Append(queue, [kind |-> kind, want |-> want, known |-> want # None /\ Usable(want, Here),
                              conn |-> Target(want).conn, root |-> Target(want).root])
  /\ UNCHANGED <<joined, windowVars, seen, changes>>

(* filter_room_peers: the connection the command names; a command that names *)
(* none goes to every desktop host.                                          *)
ReachedAll(c) == room \cap Host
Reached(c) == IF c.conn = None THEN room \cap Host ELSE {c.conn} \cap room

(* resolveWorkspaceRootPath: the command's path if it is open, else the      *)
(* first folder.  Its match by project id is never used: commands carry no   *)
(* host_id.                                                                  *)
WorkspaceRoot(w, root) ==
  IF Contains(folders[w], root) THEN root ELSE IF folders[w] = <<>> THEN None ELSE folders[w][1]

(* The driver's task sends the command; the windows that are still connected *)
(* take it.                                                                  *)
Takers(c) == {w \in Window : link[w] \in Reached(c)}
Deliver ==
  LET c == Head(queue) IN
  /\ queue # <<>>
  /\ queue' = Tail(queue)
  /\ picker' = IF c.kind = "add" THEN picker \cup Takers(c) ELSE picker
  /\ UNCHANGED <<roomVars, joined, folders, link, wire, seen, changes>>

-----------------------------------------------------------------------------
(* The phone *)

(* A snapshot that the phone's page acts on.  It need not come: one that is   *)
(* not the last message of a render is never used (App.jsx:180), a            *)
(* session.state that follows another is dropped by the feed                  *)
(* (messageFeed.js:131), a room may have no periodic sync (RoomSync), and a   *)
(* failed send evicts a host without a word.  Such snapshots are a Sync.      *)
Look(p) ==
  /\ Snapshot
  /\ seen' = [seen EXCEPT ![p] = [list |-> Ids(projects),
                 active |-> Active(None, selection, Here, ready, recent)]]
  /\ UNCHANGED <<joined, windowVars, queue, changes>>

(* getActiveProject: the active project is always in the list it comes with. *)
ActiveProject(p) == seen[p].active

(* A prompt; a script, a file to show or to quote name that project as well. *)
RunCommand(p) == Routed("run", ActiveProject(p))

(* handleProjectAddFolder names none.  Bound: one open picker. *)
AddFolder(p) ==
  /\ picker = {} /\ changes < MaxChanges
  /\ Routed("add", None)

(* The cards of the project deck. *)
Offered(p) == seen[p].list

(* A tap on a card: nothing is sent for the active project. *)
HandleProjectSelectClick(p, id) == id \in Offered(p) /\ id # seen[p].active

(* handleProjectSelect; route_project_select, whose suspension before the     *)
(* confirmation RoomSelection has.                                            *)
Select(p, id) ==
  /\ HandleProjectSelectClick(p, id) /\ Live(id, Here)
  /\ selection' = SelectionAfter(None, id, Here, ready, recent)
  /\ UNCHANGED <<room, projects, ready, recent, confirming>>
  /\ UNCHANGED <<joined, windowVars, seen, queue, changes>>

RoutingNext ==
  \/ \E w \in Window : Report(w) \/ Break(w)
  \/ \E w \in Window, h \in Host : Open(w, h)
  \/ \E w \in Window : \E list \in Layouts[w] : ChangeFolders(w, list)
  \/ \E w \in Window : \E chosen \in SUBSET UNION {ToSet(l) : l \in Layouts[w]} : ClosePicker(w, chosen)
  \/ \E h \in Host : Hear(h) \/ Unregister(h)
  \/ Sync \/ Deliver
  \/ \E p \in Phone : Look(p) \/ RunCommand(p) \/ AddFolder(p)
  \/ \E p \in Phone, id \in Project : Select(p, id)

RoutingSpec == RoutingInit /\ [][RoutingNext]_routingVars

(* What a window sends arrives unless its connection breaks; a window tries to *)
(* connect until it has, and reports then; a broken connection is found by its *)
(* loop or a failed send.  The queue must empty only because the model uses a  *)
(* connection's name again (Open).  No phone need see any of it.               *)
FairRoutingSpec ==
  /\ RoutingSpec /\ WF_routingVars(Deliver)
  /\ \A w \in Window : WF_routingVars(Report(w)) /\ WF_routingVars(\E h \in Host : Open(w, h))
  /\ \A h \in Host : WF_routingVars(Hear(h)) /\ WF_routingVars(Unregister(h))

-----------------------------------------------------------------------------
(* Properties *)

(* A command for a project that was there when it was routed runs in that    *)
(* project's folder, whenever it arrives, or not at all, unless the window it *)
(* was sent to has lost the folder since; and a command with an address runs  *)
(* in one window.  Lists that are out of date, broken connections that are    *)
(* still registered, windows that share a folder: none makes it run elsewhere. *)
RunsWhereAsked ==
  \A i \in DOMAIN queue :
    LET c == queue[i] IN c.conn # None =>
      /\ Cardinality(Takers(c)) <= 1
      /\ c.known /\ Contains(folders[WindowOf[c.conn]], c.want) =>
           \A w \in Takers(c) : WorkspaceRoot(w, c.root) = c.want

(* When no report of a window is on its way, what the backend holds of it is *)
(* what it has open: every change of the folders is reported, by whoever     *)
(* makes it and whenever it comes.                                           *)
RegistryIsCurrent ==
  \A w \in Window :
    LET h == link[w] IN
    h # None /\ wire[h] = <<>> /\ projects[h] # <<>> => projects[h] = Projects(folders[w])

(* Once windows stop coming, going and changing, the room's registry, which   *)
(* every snapshot and every command is taken from, has exactly the folders    *)
(* they have open: each change is reported and heard, on whichever connection, *)
(* each lost connection is replaced, and what it had announced is gone.       *)
RegistryShowsWhatIsOpen ==
  <>[](Ids(projects) = UNION {ToSet(Projects(folders[w])) : w \in Window})

=============================================================================
