-------------------------- MODULE MCRoomOperations --------------------------
(* A small instance of RoomOperations. *)
EXTENDS RoomOperations

\* A table for one, and one for two.
Tables == [solo |-> 1, pair |-> 2]

\* Two players at one table, and one player with everything the process does.
OneOrTwo ==
  LET one == CHOOSE a \in Accounts : TRUE
  IN {[who |-> Accounts, tables |-> {"pair"}, queues |-> FALSE, drains |-> FALSE],
      [who |-> {one}, tables |-> {"solo", "pair"}, queues |-> TRUE, drains |-> TRUE]}

\* One player at a table for one, which is enough for a clean-up to come late.
Alone ==
  {[who |-> {CHOOSE a \in Accounts : TRUE}, tables |-> {"solo"}, queues |-> FALSE, drains |-> FALSE]}
=============================================================================
