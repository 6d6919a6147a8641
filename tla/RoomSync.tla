------------------------------ MODULE RoomSync -------------------------------
(***************************************************************************)
(* The two background tasks of a room around its selection (RoomSelection): *)
(* the one that broadcasts the driver's output and the periodic state sync   *)
(* (backend/main.py, websocket_lifecycle.py).  They are started together,    *)
(* when the first is missing, and end apart: the sync when it finds the room *)
(* empty, both when the last socket is closed by its own handler.  A socket  *)
(* that a failed send evicts is closed by nobody, so that a room emptied this *)
(* way keeps the one task and loses the other, and is not synced any more    *)
(* when somebody comes back.                                                *)
(*                                                                         *)
(* Left out: what the broadcasting task does (DriverLifecycle), and sync     *)
(* tasks that outlive a shutdown beside a newer one.                         *)
(***************************************************************************)
EXTENDS RoomSelection

VARIABLES
  broadcasting, \* active_broadcast_tasks[token] is there and not done
  syncing,      \* a _periodic_state_sync of the room runs
  evicted       \* history: a failed send emptied the room since the tasks were started

taskVars == <<broadcasting, syncing, evicted>>
syncVars == <<vars, taskVars>>

SyncInit == Init /\ broadcasting = FALSE /\ syncing = FALSE /\ evicted = FALSE

(* _ensure_driver_running looks at the broadcasting task only. *)
EnsureTasks ==
  /\ broadcasting' = TRUE
  /\ syncing' = (syncing \/ ~broadcasting)
  /\ evicted' = (evicted /\ broadcasting)

(* open_websocket_session *)
Join(c) == Connect(c) /\ EnsureTasks

(* close_websocket_session, for a socket that is still registered: the last  *)
(* one takes the tasks along (_shutdown_room_tasks).                         *)
Leave(c) ==
  /\ Disconnect(c)
  /\ IF room' = {}
       THEN broadcasting' = FALSE /\ syncing' = FALSE /\ evicted' = FALSE
       ELSE UNCHANGED taskVars

(* _send_buffered_to_peer fails; the socket's handler finds it gone later and *)
(* returns early.                                                            *)
Evict(c) ==
  /\ Disconnect(c)
  /\ evicted' = (evicted \/ room' = {})
  /\ UNCHANGED <<broadcasting, syncing>>

(* A prompt, a command, a kill or a request makes sure of the tasks when there *)
(* is a desktop host; an approval does not.                                  *)
Command(want) ==
  /\ Route(want)
  /\ \/ room \cap Host # {} /\ EnsureTasks
     \/ UNCHANGED taskVars

(* The driver's stream ended at a STOP (DriverLifecycle). *)
BroadcastEnds ==
  /\ broadcasting
  /\ broadcasting' = FALSE
  /\ UNCHANGED <<vars, syncing, evicted>>

(* _periodic_state_sync wakes up: a snapshot, or the room is gone. *)
PeriodicSync ==
  /\ syncing
  /\ \/ Snapshot /\ UNCHANGED taskVars
     \/ room = {} /\ syncing' = FALSE /\ UNCHANGED <<vars, broadcasting, evicted>>

(* What the tasks are not concerned with. *)
Others ==
  /\ \/ \E h \in Host, list \in Announcements, isReady \in BOOLEAN : Announce(h, list, isReady)
     \/ Snapshot
     \/ \E p \in Phone : ConfirmSelection(p) \/ \E id \in Project : SelectProject(p, id)
  /\ UNCHANGED taskVars

SyncNext ==
  \/ \E c \in Conn : Join(c) \/ Leave(c) \/ Evict(c)
  \/ \E want \in Project \cup {None} : Command(want)
  \/ BroadcastEnds \/ PeriodicSync \/ Others

(* The sync wakes up every ten seconds, as long as there is one. *)
SyncSpec == SyncInit /\ [][SyncNext]_syncVars /\ WF_syncVars(PeriodicSync)

-----------------------------------------------------------------------------
(* A selection that no host announces any more is given up by the periodic    *)
(* sync, unless no host has a project at all.  The only exception is a room   *)
(* that has no sync because a failed send evicted its last connection: when   *)
(* it is occupied again, the orphan stays until somebody acts.                *)
OrphanIsReplaced ==
  (selection # None /\ ~Live(selection, Here)) ~>
    (selection = None \/ Live(selection, Here) \/ Here = {} \/ (~syncing /\ evicted))

=============================================================================
