---------------------------- MODULE MCTextBonus ----------------------------
(* Two matches of one account, on two days of different weeks: the rows of *)
(* different accounts meet in a transaction only through the match and the *)
(* week, the rows of one account through its wallet, day and bonus.        *)
EXTENDS TextBonus

CONSTANTS a1, a2, m1, m2

MCSeats == m1 :> Accounts @@ m2 :> {a1}
MCContracts == m1 :> {"ranked"} @@ m2 :> {"none", "ranked"}
MCOutcomes ==
    m1 :> {[kind |-> "completed", won |-> {a1}, absent |-> Accounts \ {a1}]}
    @@ m2 :> {[kind |-> "completed", won |-> {a1}, absent |-> {}],
              [kind |-> "scored_low_population", won |-> {}, absent |-> {a1}]}
MCAmount == [k \in Kinds |-> 1]
=============================================================================
