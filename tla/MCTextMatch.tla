----------------------------- MODULE MCTextMatch -----------------------------
(***************************************************************************)
(* Small instances of TextMatch.  Copies are numbered: HandSize hand cards *)
(* and DrawPile reserve cards per seat, then the seeds of each round.      *)
(***************************************************************************)
EXTENDS TextMatch

CONSTANTS HandSize, DrawPile

PerSeat == HandSize + DrawPile
SeedCount == Cardinality(SeedPlaces(Seats))
FirstSeed == OriginalSize * PerSeat + 1

MCCopy == 1 .. OriginalSize * PerSeat + MaxRounds * SeedCount
MCDealtHand == [s \in Seats |-> s * PerSeat + 1 .. s * PerSeat + HandSize]
MCDealtReserve == [s \in Seats |-> [i \in 1 .. DrawPile |-> s * PerSeat + HandSize + i]]
MCSystemSeeds ==
  [r \in 1 .. MaxRounds |->
    [p \in SeedPlaces(Seats) |->
       FirstSeed + (r - 1) * SeedCount + (IF TopThat THEN p - 1 ELSE p)]]

\* The order of a set of numbers.
Ascending(S) ==
  [i \in 1 .. Cardinality(S) |-> CHOOSE x \in S : Cardinality({y \in S : y < x}) = i - 1]
OneOrder(S) == {Ascending(S)}

\* Deals of roles and specialties.  Two deals of roles in one run carry two
\* ways of playing it: D is the set of donowers.
FirstSeatDonower == {{0}}
TwoDeals == {{0}, {3}}
NoSpecialties == {[s \in Seats |-> ""]}
ShuffleOnly == {[s \in Seats |-> IF s = 0 THEN "shuffle" ELSE ""]}
Mixed == {[s \in Seats |-> <<"shuffle", "one_more_free_card", "reveal", "pass">>[s + 1]]}

\* Which seats' clients send which actions.
Voters(D, kind) ==
  CASE kind = "vote" -> Seats [] kind \in {"ready", "play"} -> {0} [] OTHER -> {}
Traders(D, kind) ==
  CASE D # {0} -> {}
    [] kind = "offer" -> {0, 1} [] kind = "shuffle" -> {0} [] kind = "vote" -> {1}
    [] OTHER -> {}
Mixing(D, kind) ==
  CASE D # {0} -> IF kind \in {"revote", "dev_grant"} THEN {1} ELSE {}
    [] kind = "shuffle" -> {0} [] kind \in {"draw", "free_card"} -> {1} [] kind = "reveal" -> {2}
    [] kind = "pass" -> {3} [] kind = "play" -> {0, 1}
    [] OTHER -> {}

\* Seats that may drop.
OneSeat(D) == {1}
OneOrAll(D) == IF D = {0} THEN {1} ELSE Seats
NoneOrOne(D) == IF D = {0} THEN {} ELSE {1}
=============================================================================
