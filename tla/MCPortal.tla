----------------------------- MODULE MCPortal -----------------------------
(* Each plan is a scenario of its own: installations that sign in at the   *)
(* same time and rotate their tokens; provider flows beside a sanction;    *)
(* connections beside sanctions, and beside guards; browsers beside a      *)
(* sanction, and beside a guard; deletion by capability and by provider    *)
(* with faults, and with revocations; roles and submissions; their review  *)
(* together with the topics they become the source of; and the entries of  *)
(* two weeks of the challenge.                                             *)
EXTENDS Challenge

MCPlans ==
    {[ops |-> {"bootstrap", "rotate"}, decisions |-> 0, start |-> "empty"],
     [ops |-> {"rotate", "bootstrap"}, decisions |-> 0, start |-> "legacy"],
     [ops |-> {"oauth", "sanction"}, decisions |-> 1, start |-> "players"],
     [ops |-> {"connect", "sanction"}, decisions |-> 2, start |-> "players"],
     [ops |-> {"connect", "guard"}, decisions |-> 1, start |-> "players"],
     [ops |-> {"portal", "sanction", "rotate"}, decisions |-> 2, start |-> "players"],
     [ops |-> {"portal", "guard"}, decisions |-> 1, start |-> "players"],
     [ops |-> {"delete", "fault"}, decisions |-> 0, start |-> "linked"],
     [ops |-> {"delete", "revoke"}, decisions |-> 0, start |-> "linked"],
     [ops |-> {"role"}, decisions |-> 0, start |-> "players"],
     [ops |-> {"review", "topic"}, decisions |-> 0, start |-> "players"],
     [ops |-> {"challenge"}, decisions |-> 0, start |-> "players"]}
=============================================================================
