---------------------------- MODULE MCTextLobby ----------------------------
(* Small instances of TextLobby. *)
EXTENDS TextLobby, TLC

\* A table for one, and one for two: the smallest that can shrink and grow.
Tables == [solo |-> 1, pair |-> 2]

\* Accounts and rooms are interchangeable.
Interchangeable == Permutations(Accounts) \cup Permutations(RoomIds)
=============================================================================
