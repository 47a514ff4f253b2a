---------------------------- MODULE MCRoomLinks ----------------------------
(* RoomLinks for TLC: the traffic of each run. *)
EXTENDS RoomLinks, TLC

\* The ids of each sort and the objects are interchangeable.
Symmetry == Permutations(BridgedRooms) \cup Permutations(MatrixRoomIds)
            \cup Permutations(GeneratedIds) \cup Permutations(ChannelIds)
            \cup Permutations(Handlers)
=============================================================================
