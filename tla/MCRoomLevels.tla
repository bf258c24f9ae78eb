---------------------------- MODULE MCRoomLevels ----------------------------
(* TLC values of the constants of RoomLevels. *)
EXTENDS RoomLevels
=============================================================================
