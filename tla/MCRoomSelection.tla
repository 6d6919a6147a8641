--------------------------- MODULE MCRoomSelection ---------------------------
(* RoomSelection with the tasks of the room, on small instances. *)
EXTENDS RoomSync
=============================================================================
