------------------------------ MODULE TextCards ------------------------------
(***************************************************************************)
(* The physical cards of one text match: server/internal/game keeps every  *)
(* dealt copy twice, in the registry textState.Copies (zone, owner,        *)
(* reserved) and in the lists that name it (a hand, a reserve, the board). *)
(* validateState refuses to commit a state in which the two disagree, so a *)
(* disagreement would wedge the match for good.  This module models each   *)
(* operation that moves copies, with both representations, and the         *)
(* discipline under which the engine calls them (CardsNext).  TextMatch    *)
(* extends it and is shown to follow that discipline.                      *)
(*                                                                         *)
(* Abstractions: a copy is an opaque identity (CopyID); its text, content  *)
(* reference and Secret Scale rating never influence where it may go.  A   *)
(* hand is a set (the engine never depends on its order); a reserve is a   *)
(* sequence (draws take its front).  Board.Cards is a function from places *)
(* to copies: slots 0..2 in Make Room, seats in Bad Bargains, positions    *)
(* 1..n in the three modes whose board is a growing list.                  *)
(***************************************************************************)
EXTENDS Integers, Sequences, FiniteSets, Functions

CONSTANTS
  OriginalSize,     \* contract.OriginalSize, the number of seats
  ModeID,           \* contract.ModeID
  Copy,             \* every copy the match can ever contain (m.allCopies)
  DealtHand,        \* Deal.Hands[seat].Cards
  DealtReserve,     \* Deal.Hands[seat].Reserve, first card drawn first
  SystemSeeds,      \* Deal.SystemSeeds[round], keyed by board place
  PoolDeals(_)      \* the arrangements rand.Shuffle may give a card pool

NoSeat == -1
Seats == 0 .. OriginalSize - 1
MaxRounds == OriginalSize \div 2

MakeRoom == ModeID = "make_room"
BadBargains == ModeID = "bad_bargains"
TopThat == ModeID = "top_that"
ListMode == ModeID \in {"missed_the_briefing", "secret_scale", "top_that"}

\* The places beginRound seeds and shuffleSpecialty rebuilds: three slots, one
\* display per active seat, the first link of the chain, or none.
SeedPlaces(active) ==
  CASE MakeRoom    -> 0 .. 2
    [] BadBargains -> active
    [] TopThat     -> {1}
    [] OTHER       -> {}

ReserveOf(s) == Range(DealtReserve[s])
SeedsOf(r) == Range(SystemSeeds[r])

\* MatchContract.Validate and the mode table.
ASSUME ContractAssumption ==
  /\ OriginalSize \in {4, 6}
  /\ ModeID \in {"missed_the_briefing", "secret_scale", "make_room",
                 "bad_bargains", "top_that"}

\* What NewTextMatch establishes: one fresh CopyID per dealt card, so no copy
\* is dealt twice, and the seed budget of the mode in every round.
ASSUME DealAssumption ==
  /\ IsFiniteSet(Copy)
  /\ DealtHand \in [Seats -> SUBSET Copy]
  /\ DealtReserve \in [Seats -> Seq(Copy)]
  /\ SystemSeeds \in [1 .. MaxRounds -> [SeedPlaces(Seats) -> Copy]]
  /\ \A s, t \in Seats :
       /\ s # t => /\ DealtHand[s] \cap DealtHand[t] = {}
                   /\ ReserveOf(s) \cap ReserveOf(t) = {}
       /\ DealtHand[s] \cap ReserveOf(t) = {}
  /\ \A s \in Seats : \A i, j \in DOMAIN DealtReserve[s] :
       DealtReserve[s][i] = DealtReserve[s][j] => i = j
  /\ \A r \in 1 .. MaxRounds :
       /\ \A p, q \in SeedPlaces(Seats) :
            SystemSeeds[r][p] = SystemSeeds[r][q] => p = q
       /\ \A s \in Seats : SeedsOf(r) \cap (DealtHand[s] \cup ReserveOf(s)) = {}
       /\ \A q \in 1 .. MaxRounds : r # q => SeedsOf(r) \cap SeedsOf(q) = {}

\* Any finite set of seats can be listed in ascending order.
ASSUME SeatOrderAssumption ==
  \A A \in SUBSET Seats : \E f \in [1 .. Cardinality(A) -> A] :
     /\ \A s \in A : \E i \in 1 .. Cardinality(A) : f[i] = s
     /\ \A i, j \in 1 .. Cardinality(A) : i < j => f[i] < f[j]

VARIABLES
  round,      \* textState.Round
  zone,       \* textCopy.Zone; "undealt" = not in textState.Copies yet
  owner,      \* textCopy.Owner
  reserved,   \* the copies whose textCopy.Reserved is set
  hand,       \* textPlayer.Hand
  reserve,    \* textPlayer.Reserve
  board,      \* textState.Board.Cards, by place
  offer       \* textState.Offer

cardVars == <<round, zone, owner, reserved, hand, reserve, board, offer>>

Zones == {"hand", "reserve", "board", "spent", "undealt"}
NoOffer == [proposer |-> NoSeat, recipient |-> NoSeat]
PendingOffers == [proposer : Seats, recipient : Seats, offered : Copy, requested : Copy]

-----------------------------------------------------------------------------
(***************************************************************************)
(* Helpers.                                                                *)
(***************************************************************************)

\* f lists every element of S exactly once.
IsArrangement(f, S) ==
  /\ f \in [1 .. Cardinality(S) -> S]
  /\ \A x \in S : \E i \in 1 .. Cardinality(S) : f[i] = x
  /\ \A i, j \in 1 .. Cardinality(S) : f[i] = f[j] => i = j

\* The `active` list shuffleSpecialty builds by scanning the seats upwards.
ActiveList(A) ==
  CHOOSE f \in [1 .. Cardinality(A) -> A] :
     /\ \A s \in A : \E i \in 1 .. Cardinality(A) : f[i] = s
     /\ \A i, j \in 1 .. Cardinality(A) : i < j => f[i] < f[j]

\* Registry owner of a copy on board b: only a Bad Bargains display is owned.
DisplayOwner(b, c) ==
  IF BadBargains THEN CHOOSE p \in DOMAIN b : b[p] = c ELSE NoSeat

-----------------------------------------------------------------------------
(***************************************************************************)
(* Operations.                                                             *)
(***************************************************************************)

\* beginRound's card half: the old board is spent, the round's seeds are
\* emitted, a Bad Bargains seat that is out of the match gets no display.
BeginRound(active) ==
  LET seeds == [p \in SeedPlaces(active) |-> SystemSeeds[round + 1][p]] IN
  /\ round' = round + 1
  /\ board' = seeds
  /\ zone' = [c \in Copy |-> IF c \in Range(seeds) THEN "board"
                             ELSE IF c \in Range(board) THEN "spent" ELSE zone[c]]
  /\ owner' = [c \in Copy |-> IF c \in Range(seeds) THEN DisplayOwner(seeds, c)
                              ELSE IF c \in Range(board) THEN NoSeat ELSE owner[c]]
  /\ UNCHANGED <<reserved, hand, reserve, offer>>

\* autoPass with a card to lose: one random hand copy is spent.
Discard(s, c) ==
  /\ c \in hand[s]
  /\ hand' = [hand EXCEPT ![s] = @ \ {c}]
  /\ zone' = [zone EXCEPT ![c] = "spent"]
  /\ owner' = [owner EXCEPT ![c] = NoSeat]
  /\ UNCHANGED <<round, reserved, reserve, board, offer>>

\* The copy named by a play action must be an unreserved copy of that hand.
Owned(s, c) == zone[c] = "hand" /\ owner[c] = s /\ c \notin reserved

\* spend, then append to a list board (respond, place, top).
PlayToList(s, c) ==
  /\ ListMode
  /\ Owned(s, c)
  /\ hand' = [hand EXCEPT ![s] = @ \ {c}]
  /\ zone' = [zone EXCEPT ![c] = "board"]
  /\ owner' = [owner EXCEPT ![c] = NoSeat]
  /\ board' = Append(board, c)
  /\ UNCHANGED <<round, reserved, reserve, offer>>

\* replace: the slot's copy is spent and the played copy takes the slot.
ReplaceSlot(s, c, slot) ==
  /\ MakeRoom
  /\ Owned(s, c)
  /\ slot \in DOMAIN board
  /\ hand' = [hand EXCEPT ![s] = @ \ {c}]
  /\ zone' = [zone EXCEPT ![board[slot]] = "spent", ![c] = "board"]
  /\ owner' = [owner EXCEPT ![board[slot]] = NoSeat, ![c] = NoSeat]
  /\ board' = [board EXCEPT ![slot] = c]
  /\ UNCHANGED <<round, reserved, reserve, offer>>

\* draw: the first n reserve copies join the hand.
DrawCards(s, n) ==
  LET drawn == {reserve[s][i] : i \in 1 .. n} IN
  /\ n \in 1 .. Len(reserve[s])
  /\ hand' = [hand EXCEPT ![s] = @ \cup drawn]
  /\ reserve' = [reserve EXCEPT ![s] = SubSeq(@, n + 1, Len(@))]
  /\ zone' = [c \in Copy |-> IF c \in drawn THEN "hand" ELSE zone[c]]
  /\ UNCHANGED <<round, owner, reserved, board, offer>>

\* offer: both copies are reserved where they are.
MakeOffer(s, t, c, d) ==
  /\ BadBargains
  /\ Owned(s, c)
  /\ zone[d] = "board" /\ owner[d] = t /\ d \notin reserved
  /\ s # t
  /\ reserved' = reserved \cup {c, d}
  /\ offer' = [proposer |-> s, recipient |-> t, offered |-> c, requested |-> d]
  /\ UNCHANGED <<round, zone, owner, hand, reserve, board>>

\* The reservations once the pending offer is gone.
Unreserved == reserved \ {offer.offered, offer.requested}

\* resolveOffer: unreserve; on accept the offered copy becomes the recipient's
\* display and the requested one joins the proposer's hand.
SettleOffer(accept) ==
  /\ offer # NoOffer
  /\ offer' = NoOffer
  /\ reserved' = Unreserved
  /\ IF accept
     THEN /\ hand' = [hand EXCEPT ![offer.proposer] =
                        (@ \ {offer.offered}) \cup {offer.requested}]
          /\ zone' = [zone EXCEPT ![offer.offered] = "board",
                                  ![offer.requested] = "hand"]
          /\ owner' = [owner EXCEPT ![offer.offered] = offer.recipient,
                                    ![offer.requested] = offer.proposer]
          /\ board' = [p \in DOMAIN board |->
                         IF board[p] = offer.requested THEN offer.offered ELSE board[p]]
     ELSE UNCHANGED <<hand, zone, owner, board>>
  /\ UNCHANGED <<round, reserve>>

\* Mutant: the board is rebuilt without collecting its copies first.
ShuffledCards_HandsOnly(active) == UNION {hand[s] : s \in active}

\* The pool of a shuffle: the hands of the active seats and the board.
ShuffledCards(active) == (UNION {hand[s] : s \in active}) \cup Range(board)

\* shuffleSpecialty: hands of the active seats and the board form one pool;
\* the first copies rebuild the mode's board, the rest are dealt round-robin.
ShufflePool(active) ==
  LET pool  == ShuffledCards(active)
      seats == ActiveList(active)
      count == Cardinality(SeedPlaces(active))
      index(p) == CASE MakeRoom -> p + 1
                    [] TopThat -> 1
                    [] OTHER -> CHOOSE i \in DOMAIN seats : seats[i] = p
  IN
  /\ active # {}
  /\ count <= Cardinality(pool)
  /\ \E deal \in PoolDeals(pool) :
       /\ IsArrangement(deal, pool)
       /\ board' = [p \in SeedPlaces(active) |-> deal[index(p)]]
       /\ hand' = [s \in Seats |->
            IF s \in active
            THEN {deal[i] : i \in {j \in count + 1 .. Cardinality(pool) :
                                     seats[((j - count - 1) % Cardinality(active)) + 1] = s}}
            ELSE hand[s]]
       /\ zone' = [c \in Copy |-> IF c \in Range(board') THEN "board"
                                  ELSE IF c \in pool THEN "hand" ELSE zone[c]]
       /\ owner' = [c \in Copy |->
            IF c \in Range(board') THEN DisplayOwner(board', c)
            ELSE IF c \in pool THEN CHOOSE s \in active : c \in hand'[s] ELSE owner[c]]
       /\ reserved' = reserved \ pool
  /\ UNCHANGED <<round, reserve, offer>>

-----------------------------------------------------------------------------
(***************************************************************************)
(* The discipline: seeds are used once per round, and while an offer is    *)
(* pending the only thing that may happen to the cards is its settlement.  *)
(***************************************************************************)

CardsInit ==
  /\ round = 1
  /\ hand = DealtHand
  /\ reserve = DealtReserve
  /\ board = SystemSeeds[1]
  /\ offer = NoOffer
  /\ reserved = {}
  /\ zone = [c \in Copy |->
       CASE \E s \in Seats : c \in DealtHand[s] -> "hand"
         [] \E s \in Seats : c \in ReserveOf(s) -> "reserve"
         [] c \in SeedsOf(1) -> "board"
         [] OTHER -> "undealt"]
  /\ owner = [c \in Copy |->
       CASE \E s \in Seats : c \in DealtHand[s] \cup ReserveOf(s) ->
              CHOOSE s \in Seats : c \in DealtHand[s] \cup ReserveOf(s)
         [] c \in SeedsOf(1) -> DisplayOwner(SystemSeeds[1], c)
         [] OTHER -> NoSeat]

CardsNext ==
  \/ /\ offer = NoOffer
     /\ \/ round < MaxRounds /\ \E active \in (SUBSET Seats) \ {{}} : BeginRound(active)
        \/ \E s \in Seats : \E c \in hand[s] : Discard(s, c) \/ PlayToList(s, c)
        \/ \E s \in Seats : \E c \in hand[s] : \E slot \in 0 .. 2 : ReplaceSlot(s, c, slot)
        \/ \E s \in Seats : \E n \in 1 .. Len(reserve[s]) : DrawCards(s, n)
        \/ \E s, t \in Seats : \E c \in hand[s] : \E d \in Range(board) : MakeOffer(s, t, c, d)
        \/ \E active \in SUBSET Seats : ShufflePool(active)
  \/ \E accept \in BOOLEAN : SettleOffer(accept)

CardsSpec == CardsInit /\ [][CardsNext]_cardVars

-----------------------------------------------------------------------------
(***************************************************************************)
(* What validateState checks of the registry.                              *)
(***************************************************************************)

CardsTypeOK ==
  /\ round \in 1 .. MaxRounds
  /\ zone \in [Copy -> Zones]
  /\ owner \in [Copy -> Seats \cup {NoSeat}]
  /\ reserved \in SUBSET Copy
  /\ hand \in [Seats -> SUBSET Copy]
  /\ reserve \in [Seats -> Seq(Copy)]
  /\ board \in [DOMAIN board -> Copy]
  /\ offer \in PendingOffers \cup {NoOffer}

\* Every listed copy is registered where it is listed ("copy location").
HandsRegistered ==
  \A s \in Seats : \A c \in hand[s] : zone[c] = "hand" /\ owner[c] = s
ReservesRegistered ==
  \A s \in Seats : \A i \in DOMAIN reserve[s] :
    /\ zone[reserve[s][i]] = "reserve" /\ owner[reserve[s][i]] = s
    /\ \A j \in DOMAIN reserve[s] : reserve[s][i] = reserve[s][j] => i = j
BoardRegistered ==
  \A p \in DOMAIN board :
    /\ zone[board[p]] = "board"
    /\ owner[board[p]] = IF BadBargains THEN p ELSE NoSeat
    /\ \A q \in DOMAIN board : board[p] = board[q] => p = q

\* No registered copy is an orphan, and a spent one belongs to nobody.
NoOrphans ==
  \A c \in Copy :
    /\ zone[c] = "hand" => owner[c] \in Seats /\ c \in hand[owner[c]]
    /\ zone[c] = "reserve" => owner[c] \in Seats /\ c \in Range(reserve[owner[c]])
    /\ zone[c] = "board" => c \in Range(board)
    /\ zone[c] \in {"spent", "undealt"} => owner[c] = NoSeat /\ c \notin reserved

\* The reserved copies are exactly the two of the pending offer, and both
\* still lie where the offer found them.
Reservations ==
  IF offer = NoOffer THEN reserved = {}
  ELSE /\ reserved = {offer.offered, offer.requested}
       /\ offer.offered \in hand[offer.proposer]
       /\ offer.recipient \in DOMAIN board
       /\ board[offer.recipient] = offer.requested
       /\ offer.proposer # offer.recipient

\* A single location for every dealt copy, in both representations: what
\* CheckConservation/validateState demand before every commit (the code
\* refuses the step otherwise, with "copy location invariant" and the like).
Conservation ==
  /\ HandsRegistered
  /\ ReservesRegistered
  /\ BoardRegistered
  /\ NoOrphans
  /\ Reservations

\* The size rules of Board.validate: three slots, a chain that has begun, and
\* at least one display, of a seat.
BoardShape ==
  /\ MakeRoom => DOMAIN board = 0 .. 2
  /\ TopThat => board # <<>>
  /\ BadBargains => DOMAIN board # {} /\ DOMAIN board \subseteq Seats

=============================================================================
