--------------------------- MODULE TextMatchProofs ---------------------------
(***************************************************************************)
(* The cards (CardsSpec) and the engine that moves them (Spec), for every  *)
(* deal, mode and table size.  First the card discipline: CardsInv and     *)
(* BoardShape, one lemma per move.  Then the engine: it keeps to that      *)
(* discipline, so the cards are conserved, and MatchInv, from which its    *)
(* own properties follow.                                                  *)
(***************************************************************************)
EXTENDS TextMatch, FiniteSetTheorems, SequenceTheorems, TLAPS

\* The board has the shape of its mode.
BoardTyped ==
  /\ ListMode => board \in Seq(Copy)
  /\ BadBargains => DOMAIN board \subseteq Seats

\* The seeds of the rounds to come have not been dealt.
FutureSeeds ==
  \A r \in 1 .. MaxRounds : r > round => \A c \in SeedsOf(r) : zone[c] = "undealt"

\* Offers exist in Bad Bargains only.
OfferMode == offer # NoOffer => BadBargains

CardsInv == CardsTypeOK /\ Conservation /\ BoardTyped /\ FutureSeeds /\ OfferMode

\* A table has four or six seats, so a match has two or three rounds.
LEMMA SizeFacts ==
  /\ MaxRounds \in {2, 3}
  /\ NoSeat \notin Seats
  /\ Seats \subseteq Int
BY ContractAssumption DEF MaxRounds, NoSeat, Seats

\* A pending offer names two seats and two copies.
LEMMA OfferFacts ==
  ASSUME offer \in PendingOffers \cup {NoOffer}, offer # NoOffer
  PROVE  /\ offer.proposer \in Seats /\ offer.recipient \in Seats
         /\ offer.offered \in Copy /\ offer.requested \in Copy
BY DEF PendingOffers

\* Every round's system seeds are copies of the deal.
LEMMA SeedFacts ==
  /\ \A r \in 1 .. MaxRounds : SystemSeeds[r] \in [SeedPlaces(Seats) -> Copy]
  /\ \A r \in 1 .. MaxRounds : SeedsOf(r) \subseteq Copy
BY DealAssumption DEF SeedsOf, Range

\* Seeds to come stay undealt when no undealt copy is touched.
LEMMA FutureKept ==
  ASSUME FutureSeeds, round' = round,
         \A c \in Copy : zone[c] = "undealt" => zone'[c] = "undealt"
  PROVE  FutureSeeds'
BY SeedFacts DEF FutureSeeds

\* autoPass: losing a random hand copy keeps the invariant.
LEMMA DiscardInv ==
  ASSUME CardsInv, offer = NoOffer, NEW s \in Seats, NEW c \in Copy, Discard(s, c)
  PROVE  CardsInv'
<1> USE SizeFacts
<1>1. CardsTypeOK'
  BY DEF CardsInv, CardsTypeOK, Discard, Zones
<1>2. HandsRegistered'
  BY DEF CardsInv, CardsTypeOK, Conservation, HandsRegistered, Discard
<1>3. ReservesRegistered'
  BY DEF CardsInv, CardsTypeOK, Conservation, HandsRegistered, ReservesRegistered, Discard
<1>4. BoardRegistered'
  BY DEF CardsInv, CardsTypeOK, Conservation, HandsRegistered, BoardRegistered, Discard
<1>5. NoOrphans'
  BY DEF CardsInv, CardsTypeOK, Conservation, HandsRegistered, NoOrphans, Reservations, Discard, Range
<1>6. Reservations' /\ OfferMode'
  BY DEF CardsInv, CardsTypeOK, Conservation, Reservations, OfferMode, Discard
<1>7. BoardTyped' /\ FutureSeeds'
  BY DEF CardsInv, CardsTypeOK, Conservation, HandsRegistered, BoardTyped, FutureSeeds, SeedsOf, Discard
<1> QED BY <1>1, <1>2, <1>3, <1>4, <1>5, <1>6, <1>7 DEF CardsInv, Conservation

\* respond, place and top: appending to a list board keeps the invariant.
LEMMA PlayToListInv ==
  ASSUME CardsInv, offer = NoOffer, NEW s \in Seats, NEW c \in Copy, PlayToList(s, c)
  PROVE  CardsInv'
<1> USE SizeFacts
<1>0. /\ board \in Seq(Copy) /\ board' = Append(board, c)
      /\ DOMAIN board' = 1 .. Len(board) + 1 /\ DOMAIN board = 1 .. Len(board)
      /\ Len(board) \in Nat
      /\ \A i \in 1 .. Len(board) : board'[i] = board[i]
      /\ board'[Len(board) + 1] = c
      /\ ~BadBargains
  BY DEF CardsInv, BoardTyped, PlayToList, ListMode, BadBargains
<1>1. c \in hand[s] /\ zone[c] = "hand" /\ owner[c] = s
  BY DEF CardsInv, Conservation, NoOrphans, PlayToList, Owned
<1>1a. /\ hand' = [hand EXCEPT ![s] = @ \ {c}]
       /\ zone' = [zone EXCEPT ![c] = "board"]
       /\ owner' = [owner EXCEPT ![c] = NoSeat]
       /\ UNCHANGED <<round, reserved, reserve, offer>>
  BY DEF PlayToList
<1>1b. board' \in Seq(Copy)
  BY <1>0
<1>1c. board' \in [DOMAIN board' -> Copy]
  BY <1>1b
<1>2. CardsTypeOK'
  BY <1>1a, <1>1c DEF CardsInv, CardsTypeOK, Zones
<1>3. HandsRegistered'
  BY <1>1, <1>1a DEF CardsInv, CardsTypeOK, Conservation, HandsRegistered
<1>4. ReservesRegistered'
  BY <1>1, <1>1a DEF CardsInv, CardsTypeOK, Conservation, ReservesRegistered
<1>5. BoardRegistered'
  <2>1. \A p \in 1 .. Len(board) : zone[board[p]] = "board" /\ owner[board[p]] = NoSeat
                                   /\ board[p] \in Copy /\ board[p] # c
    BY <1>0, <1>1 DEF CardsInv, CardsTypeOK, Conservation, BoardRegistered
  <2>2. \A p, q \in 1 .. Len(board) : board[p] = board[q] => p = q
    BY <1>0 DEF CardsInv, Conservation, BoardRegistered
  <2>3. \A p \in DOMAIN board' : p \in 1 .. Len(board) \/ p = Len(board) + 1
    BY <1>0
  <2>4. zone'[c] = "board" /\ owner'[c] = NoSeat
    BY <1>1a DEF CardsInv, CardsTypeOK
  <2>5. \A p \in 1 .. Len(board) : zone'[board[p]] = "board" /\ owner'[board[p]] = NoSeat
    BY <1>1a, <2>1 DEF CardsInv, CardsTypeOK
  <2>6. \A p, q \in DOMAIN board' : board'[p] = board'[q] => p = q
    BY <1>0, <2>1, <2>2, <2>3
  <2>7. QED BY <1>0, <2>3, <2>4, <2>5, <2>6 DEF BoardRegistered
<1>6. NoOrphans'
  <2> SUFFICES ASSUME NEW d \in Copy
               PROVE  /\ zone'[d] = "hand" => owner'[d] \in Seats /\ d \in hand'[owner'[d]]
                      /\ zone'[d] = "reserve" => owner'[d] \in Seats /\ d \in Range(reserve'[owner'[d]])
                      /\ zone'[d] = "board" => d \in Range(board')
                      /\ zone'[d] \in {"spent", "undealt"} => owner'[d] = NoSeat /\ d \notin reserved'
    BY DEF NoOrphans
  <2>1. CASE d = c
    <3>1. zone'[d] = "board"
      BY <2>1, <1>1a DEF CardsInv, CardsTypeOK
    <3>2. d \in Range(board')
      BY <2>1, <1>0 DEF Range
    <3>3. QED BY <3>1, <3>2
  <2>2. CASE d # c
    <3>1. zone'[d] = zone[d] /\ owner'[d] = owner[d]
      BY <2>2 DEF CardsInv, CardsTypeOK, PlayToList
    <3>2. d \in Range(board) => d \in Range(board')
      BY <1>0 DEF Range
    <3>3. QED
      BY <2>2, <3>1, <3>2 DEF CardsInv, CardsTypeOK, Conservation, NoOrphans, PlayToList
  <2>3. QED BY <2>1, <2>2
<1>7. Reservations' /\ OfferMode'
  BY DEF CardsInv, CardsTypeOK, Conservation, Reservations, OfferMode, PlayToList
<1>8. BoardTyped'
  BY <1>0 DEF BoardTyped
<1>9. FutureSeeds'
  BY <1>1, <1>1a, FutureKept DEF CardsInv, CardsTypeOK
<1> QED BY <1>2, <1>3, <1>4, <1>5, <1>6, <1>7, <1>8, <1>9 DEF CardsInv, Conservation

\* replace: swapping a Make Room slot keeps the invariant.
LEMMA ReplaceSlotInv ==
  ASSUME CardsInv, offer = NoOffer, NEW s \in Seats, NEW c \in Copy, NEW slot \in 0 .. 2,
         ReplaceSlot(s, c, slot)
  PROVE  CardsInv'
<1> USE SizeFacts
<1>0. ~BadBargains /\ ~ListMode /\ slot \in DOMAIN board
  BY DEF ReplaceSlot, MakeRoom, BadBargains, ListMode
<1>1. c \in hand[s] /\ zone[c] = "hand" /\ owner[c] = s
  BY DEF CardsInv, Conservation, NoOrphans, ReplaceSlot, Owned
<1>2. board[slot] \in Copy /\ zone[board[slot]] = "board" /\ board[slot] # c
  BY <1>0, <1>1 DEF CardsInv, CardsTypeOK, Conservation, BoardRegistered
<1>2a. /\ DOMAIN board' = DOMAIN board /\ board'[slot] = c
       /\ \A p \in DOMAIN board : p # slot => board'[p] = board[p]
       /\ board' \in [DOMAIN board -> Copy]
  BY <1>0 DEF CardsInv, CardsTypeOK, ReplaceSlot
<1>3. CardsTypeOK'
  BY <1>2, <1>2a DEF CardsInv, CardsTypeOK, ReplaceSlot, Zones
<1>4. HandsRegistered'
  BY <1>1, <1>2 DEF CardsInv, CardsTypeOK, Conservation, HandsRegistered, ReplaceSlot
<1>5. ReservesRegistered'
  BY <1>1, <1>2 DEF CardsInv, CardsTypeOK, Conservation, ReservesRegistered, ReplaceSlot
<1>6. BoardRegistered'
  BY <1>0, <1>1, <1>2, <1>2a DEF CardsInv, CardsTypeOK, Conservation, BoardRegistered, ReplaceSlot
<1>7. NoOrphans'
  <2> SUFFICES ASSUME NEW d \in Copy
               PROVE  /\ zone'[d] = "hand" => owner'[d] \in Seats /\ d \in hand'[owner'[d]]
                      /\ zone'[d] = "reserve" => owner'[d] \in Seats /\ d \in Range(reserve'[owner'[d]])
                      /\ zone'[d] = "board" => d \in Range(board')
                      /\ zone'[d] \in {"spent", "undealt"} => owner'[d] = NoSeat /\ d \notin reserved'
    BY DEF NoOrphans
  <2>1. CASE d = c
    BY <2>1, <1>0, <1>2, <1>2a DEF CardsInv, CardsTypeOK, ReplaceSlot, Range
  <2>2. CASE d = board[slot]
    BY <2>2, <1>2 DEF CardsInv, CardsTypeOK, Conservation, Reservations, ReplaceSlot
  <2>3. CASE d # c /\ d # board[slot]
    <3>1. zone'[d] = zone[d] /\ owner'[d] = owner[d]
      BY <2>3, <1>2 DEF CardsInv, CardsTypeOK, ReplaceSlot
    <3>2. d \in Range(board) => d \in Range(board')
      BY <2>3, <1>2a DEF Range
    <3>3. QED
      BY <2>3, <3>1, <3>2 DEF CardsInv, CardsTypeOK, Conservation, NoOrphans, ReplaceSlot
  <2>4. QED BY <2>1, <2>2, <2>3
<1>8. Reservations' /\ OfferMode'
  BY DEF CardsInv, CardsTypeOK, Conservation, Reservations, OfferMode, ReplaceSlot
<1>9. BoardTyped'
  BY <1>0 DEF BoardTyped, BadBargains, ListMode
<1>10. FutureSeeds'
  BY <1>1, <1>2, FutureKept DEF CardsInv, CardsTypeOK, ReplaceSlot
<1> QED BY <1>3, <1>4, <1>5, <1>6, <1>7, <1>8, <1>9, <1>10 DEF CardsInv, Conservation

\* draw: moving the front of the reserve into the hand keeps the invariant.
LEMMA DrawCardsInv ==
  ASSUME CardsInv, offer = NoOffer, NEW s \in Seats, NEW n \in 1 .. Len(reserve[s]),
         DrawCards(s, n)
  PROVE  CardsInv'
<1> USE SizeFacts
<1> DEFINE old == reserve[s]
           new == SubSeq(old, n + 1, Len(old))
           drawn == {old[i] : i \in 1 .. n}
<1>1. old \in Seq(Copy) /\ Len(old) \in Nat /\ n \in Nat /\ DOMAIN old = 1 .. Len(old) /\ drawn \subseteq Copy
  BY DEF CardsInv, CardsTypeOK
<1>2. /\ new \in Seq(Copy) /\ DOMAIN new = 1 .. Len(old) - n
      /\ \A i \in DOMAIN new : new[i] = old[i + n] /\ i + n \in DOMAIN old
  BY <1>1
<1>3. /\ reserve' = [reserve EXCEPT ![s] = new]
      /\ hand' = [hand EXCEPT ![s] = @ \cup drawn]
      /\ zone' = [c \in Copy |-> IF c \in drawn THEN "hand" ELSE zone[c]]
      /\ UNCHANGED <<round, owner, reserved, board, offer>>
  BY DEF DrawCards
<1>4. \A c \in drawn : zone[c] = "reserve" /\ owner[c] = s
  BY <1>1 DEF CardsInv, Conservation, ReservesRegistered
<1>5. CardsTypeOK'
  BY <1>1, <1>2, <1>3 DEF CardsInv, CardsTypeOK, Zones
<1>6. HandsRegistered'
  BY <1>1, <1>3, <1>4 DEF CardsInv, CardsTypeOK, Conservation, HandsRegistered
<1>7. ReservesRegistered'
  <2> SUFFICES ASSUME NEW t \in Seats, NEW i \in DOMAIN reserve'[t]
               PROVE  /\ zone'[reserve'[t][i]] = "reserve" /\ owner'[reserve'[t][i]] = t
                      /\ \A j \in DOMAIN reserve'[t] : reserve'[t][i] = reserve'[t][j] => i = j
    BY DEF ReservesRegistered
  <2>1. CASE t = s
    <3>1. reserve'[t] = new
      BY <2>1, <1>3 DEF CardsInv, CardsTypeOK
    <3>2. new[i] = old[i + n] /\ i + n \in DOMAIN old /\ i \in Nat /\ i > 0 /\ new[i] \in Copy
      BY <3>1, <1>1, <1>2
    <3>3. new[i] \notin drawn
      BY <3>2, <1>1 DEF CardsInv, Conservation, ReservesRegistered
    <3>4. \A j \in DOMAIN new : new[i] = new[j] => i = j
      <4>1. \A k, l \in DOMAIN old : old[k] = old[l] => k = l
        BY DEF CardsInv, Conservation, ReservesRegistered
      <4>2. SUFFICES ASSUME NEW j \in DOMAIN new, new[i] = new[j] PROVE i = j
        OBVIOUS
      <4>3. new[j] = old[j + n] /\ j + n \in DOMAIN old /\ j \in Nat
        BY <1>1, <1>2
      <4>4. i + n = j + n
        BY <4>1, <4>2, <4>3, <3>2
      <4>5. QED BY <4>3, <4>4, <3>2, <1>1
    <3>5. zone'[new[i]] = "reserve" /\ owner'[new[i]] = t
      BY <2>1, <3>2, <3>3, <1>3 DEF CardsInv, CardsTypeOK, Conservation, ReservesRegistered
    <3>6. QED BY <3>1, <3>4, <3>5
  <2>2. CASE t # s
    BY <2>2, <1>3, <1>4 DEF CardsInv, CardsTypeOK, Conservation, ReservesRegistered
  <2>3. QED BY <2>1, <2>2
<1>8. BoardRegistered'
  BY <1>3, <1>4 DEF CardsInv, CardsTypeOK, Conservation, BoardRegistered
<1>9. NoOrphans'
  <2> SUFFICES ASSUME NEW d \in Copy
               PROVE  /\ zone'[d] = "hand" => owner'[d] \in Seats /\ d \in hand'[owner'[d]]
                      /\ zone'[d] = "reserve" => owner'[d] \in Seats /\ d \in Range(reserve'[owner'[d]])
                      /\ zone'[d] = "board" => d \in Range(board')
                      /\ zone'[d] \in {"spent", "undealt"} => owner'[d] = NoSeat /\ d \notin reserved'
    BY DEF NoOrphans
  <2>1. CASE d \in drawn
    BY <2>1, <1>3, <1>4 DEF CardsInv, CardsTypeOK
  <2>2. CASE d \notin drawn
    <3>1. zone'[d] = zone[d] /\ owner'[d] = owner[d]
      BY <2>2, <1>3 DEF CardsInv, CardsTypeOK
    <3>2. ASSUME zone[d] = "reserve", owner[d] = s PROVE d \in Range(new)
      <4>1. PICK i \in DOMAIN old : old[i] = d
        BY <3>2 DEF CardsInv, Conservation, NoOrphans, Range
      <4>2. i \notin 1 .. n
        BY <4>1, <2>2
      <4>3. i - n \in DOMAIN new /\ new[i - n] = d
        BY <4>1, <4>2, <1>1, <1>2
      <4>4. QED BY <4>3 DEF Range
    <3>3. zone'[d] = "reserve" => owner'[d] \in Seats /\ d \in Range(reserve'[owner'[d]])
      <4>1. CASE owner[d] = s
        BY <4>1, <3>1, <3>2, <1>3 DEF CardsInv, CardsTypeOK
      <4>2. CASE owner[d] # s
        BY <4>2, <3>1, <1>3 DEF CardsInv, CardsTypeOK, Conservation, NoOrphans
      <4>3. QED BY <4>1, <4>2
    <3>4. zone'[d] = "hand" => owner'[d] \in Seats /\ d \in hand'[owner'[d]]
      BY <3>1, <1>3 DEF CardsInv, CardsTypeOK, Conservation, NoOrphans
    <3>5. QED
      BY <3>1, <3>3, <3>4, <1>3 DEF CardsInv, Conservation, NoOrphans
  <2>3. QED BY <2>1, <2>2
<1>10. Reservations' /\ OfferMode'
  BY <1>3 DEF CardsInv, CardsTypeOK, Conservation, Reservations, OfferMode
<1>11. BoardTyped'
  BY <1>3 DEF CardsInv, BoardTyped
<1>12. FutureSeeds'
  BY <1>3, <1>4, FutureKept DEF CardsInv, CardsTypeOK
<1> QED BY <1>5, <1>6, <1>7, <1>8, <1>9, <1>10, <1>11, <1>12 DEF CardsInv, Conservation

\* offer: reserving the offered and the requested copy keeps the invariant.
LEMMA MakeOfferInv ==
  ASSUME CardsInv, offer = NoOffer, NEW s \in Seats, NEW t \in Seats,
         NEW c \in Copy, NEW d \in Copy, MakeOffer(s, t, c, d)
  PROVE  CardsInv'
<1> USE SizeFacts
<1>1. c \in hand[s] /\ zone[c] = "hand" /\ zone[d] = "board" /\ owner[d] = t
  BY DEF CardsInv, Conservation, NoOrphans, MakeOffer, Owned
<1>2. t \in DOMAIN board /\ board[t] = d
  <2>1. PICK p \in DOMAIN board : board[p] = d
    BY <1>1 DEF CardsInv, Conservation, NoOrphans, Range
  <2>2. p = t
    BY <2>1, <1>1 DEF CardsInv, Conservation, BoardRegistered, MakeOffer
  <2>3. QED BY <2>1, <2>2
<1>3. reserved' = {c, d} /\ s # t
  BY DEF CardsInv, Conservation, Reservations, MakeOffer
<1>4. /\ offer' = [proposer |-> s, recipient |-> t, offered |-> c, requested |-> d]
      /\ UNCHANGED <<round, zone, owner, hand, reserve, board>>
  BY DEF MakeOffer
<1>5. CardsTypeOK'
  BY <1>3, <1>4 DEF CardsInv, CardsTypeOK, PendingOffers
<1>6. HandsRegistered' /\ ReservesRegistered' /\ BoardRegistered'
  BY <1>4 DEF CardsInv, Conservation, HandsRegistered, ReservesRegistered, BoardRegistered
<1>7. NoOrphans'
  BY <1>1, <1>3, <1>4 DEF CardsInv, Conservation, NoOrphans
<1>8. Reservations' /\ OfferMode'
  <2>1. /\ offer'.proposer = s /\ offer'.recipient = t
        /\ offer'.offered = c /\ offer'.requested = d
    BY <1>4
  <2>2. offer'.proposer # NoSeat
    BY <2>1
  <2>3. offer' # NoOffer
    BY <2>2 DEF NoOffer
  <2>4. BadBargains
    BY DEF MakeOffer
  <2>5. c \in hand'[s] /\ t \in DOMAIN board' /\ board'[t] = d
    BY <1>1, <1>2, <1>4
  <2>6. QED BY <1>3, <2>1, <2>3, <2>4, <2>5 DEF Reservations, OfferMode
<1>9. BoardTyped' /\ FutureSeeds'
  BY <1>4 DEF CardsInv, BoardTyped, FutureSeeds
<1> QED BY <1>5, <1>6, <1>7, <1>8, <1>9 DEF CardsInv, Conservation

\* resolveOffer: either answer, or the timeout, keeps the invariant.
LEMMA SettleOfferInv ==
  ASSUME CardsInv, NEW accept \in BOOLEAN, SettleOffer(accept)
  PROVE  CardsInv'
<1> USE SizeFacts
<1> DEFINE s == offer.proposer
           t == offer.recipient
           c == offer.offered
           d == offer.requested
<1>0. offer # NoOffer /\ offer' = NoOffer /\ reserved' = reserved \ {c, d}
      /\ UNCHANGED <<round, reserve>>
  BY DEF SettleOffer, Unreserved
<1>1. s \in Seats /\ t \in Seats /\ c \in Copy /\ d \in Copy
  BY <1>0, OfferFacts DEF CardsInv, CardsTypeOK
<1>2. /\ reserved = {c, d} /\ c \in hand[s] /\ t \in DOMAIN board /\ board[t] = d /\ s # t
  BY <1>0 DEF CardsInv, Conservation, Reservations
<1>3. reserved' = {}
  BY <1>0, <1>2
<1>4. CASE ~accept
  <2>1. UNCHANGED <<hand, zone, owner, board>>
    BY <1>4 DEF SettleOffer
  <2>2. CardsTypeOK'
    BY <2>1, <1>0, <1>3 DEF CardsInv, CardsTypeOK
  <2>3. HandsRegistered' /\ ReservesRegistered' /\ BoardRegistered' /\ NoOrphans'
    BY <2>1, <1>0, <1>3
       DEF CardsInv, Conservation, HandsRegistered, ReservesRegistered, BoardRegistered, NoOrphans
  <2>4. Reservations' /\ OfferMode' /\ BoardTyped' /\ FutureSeeds'
    BY <2>1, <1>0, <1>3 DEF CardsInv, Reservations, OfferMode, BoardTyped, FutureSeeds
  <2>5. QED BY <2>2, <2>3, <2>4 DEF CardsInv, Conservation
<1>5. CASE accept
  <2>1. /\ hand' = [hand EXCEPT ![s] = (@ \ {c}) \cup {d}]
        /\ zone' = [zone EXCEPT ![c] = "board", ![d] = "hand"]
        /\ owner' = [owner EXCEPT ![c] = t, ![d] = s]
        /\ board' = [p \in DOMAIN board |-> IF board[p] = d THEN c ELSE board[p]]
    BY <1>5 DEF SettleOffer
  <2>2. zone[c] = "hand" /\ owner[c] = s /\ zone[d] = "board" /\ c # d
    <3>1. zone[c] = "hand" /\ owner[c] = s
      BY <1>1, <1>2 DEF CardsInv, Conservation, HandsRegistered
    <3>2. zone[board[t]] = "board"
      BY <1>2 DEF CardsInv, Conservation, BoardRegistered
    <3>3. QED BY <1>2, <3>1, <3>2
  <2>3. BadBargains => owner[d] = t
    BY <1>2 DEF CardsInv, Conservation, BoardRegistered
  <2>4. /\ DOMAIN board' = DOMAIN board /\ board'[t] = c
        /\ \A p \in DOMAIN board : p # t => board'[p] = board[p] /\ board[p] # d /\ board[p] # c
        /\ board' \in [DOMAIN board -> Copy]
    BY <1>1, <1>2, <2>1, <2>2 DEF CardsInv, CardsTypeOK, Conservation, BoardRegistered
  <2>5. BadBargains
    BY <1>0, <1>2 DEF CardsInv, OfferMode
  <2>6. CardsTypeOK'
    BY <1>0, <1>1, <1>3, <2>1, <2>4 DEF CardsInv, CardsTypeOK, Zones
  <2>7. HandsRegistered'
    BY <1>1, <2>1, <2>2 DEF CardsInv, CardsTypeOK, Conservation, HandsRegistered
  <2>8. ReservesRegistered'
    BY <1>0, <1>1, <2>1, <2>2 DEF CardsInv, CardsTypeOK, Conservation, ReservesRegistered
  <2>9. BoardRegistered'
    <3>1. zone'[c] = "board" /\ owner'[c] = t
      BY <1>1, <2>1, <2>2 DEF CardsInv, CardsTypeOK
    <3>2. \A p \in DOMAIN board : p # t => /\ zone'[board[p]] = zone[board[p]]
                                         /\ owner'[board[p]] = owner[board[p]]
      BY <1>1, <2>1, <2>4 DEF CardsInv, CardsTypeOK
    <3>3. QED
      BY <2>4, <2>5, <3>1, <3>2 DEF CardsInv, Conservation, BoardRegistered
  <2>10. NoOrphans'
    <3> SUFFICES ASSUME NEW e \in Copy
                 PROVE  /\ zone'[e] = "hand" => owner'[e] \in Seats /\ e \in hand'[owner'[e]]
                        /\ zone'[e] = "reserve" => owner'[e] \in Seats /\ e \in Range(reserve'[owner'[e]])
                        /\ zone'[e] = "board" => e \in Range(board')
                        /\ zone'[e] \in {"spent", "undealt"} => owner'[e] = NoSeat /\ e \notin reserved'
      BY DEF NoOrphans
    <3>1. CASE e = c
      BY <3>1, <1>1, <1>2, <2>1, <2>2, <2>4 DEF CardsInv, CardsTypeOK, Range
    <3>2. CASE e = d
      BY <3>2, <1>1, <2>1, <2>2 DEF CardsInv, CardsTypeOK
    <3>3. CASE e # c /\ e # d
      <4>1. zone'[e] = zone[e] /\ owner'[e] = owner[e]
        BY <3>3, <2>1 DEF CardsInv, CardsTypeOK
      <4>2. e \in Range(board) => e \in Range(board')
        BY <3>3, <1>2, <2>4 DEF Range
      <4>3. \A u \in Seats : e \in hand[u] => e \in hand'[u]
        BY <3>3, <2>1 DEF CardsInv, CardsTypeOK
      <4>4. QED
        BY <1>0, <1>3, <4>1, <4>2, <4>3 DEF CardsInv, Conservation, NoOrphans
    <3>4. QED BY <3>1, <3>2, <3>3
  <2>11. Reservations' /\ OfferMode'
    BY <1>0, <1>3 DEF Reservations, OfferMode
  <2>12. BoardTyped'
    BY <2>4, <2>5 DEF CardsInv, BoardTyped, ListMode, BadBargains
  <2>13. FutureSeeds'
    BY <1>0, <1>1, <2>1, <2>2, FutureKept DEF CardsInv, CardsTypeOK
  <2>14. QED
    BY <2>6, <2>7, <2>8, <2>9, <2>10, <2>11, <2>12, <2>13 DEF CardsInv, Conservation
<1>6. QED BY <1>4, <1>5

\* The places seeded for some seats are among those seeded for all.
LEMMA PlaceFacts ==
  ASSUME NEW active \in SUBSET Seats
  PROVE  /\ SeedPlaces(active) \subseteq SeedPlaces(Seats)
         /\ BadBargains => SeedPlaces(active) = active
BY DEF SeedPlaces, MakeRoom, BadBargains, TopThat

\* On a board without duplicates the registry owner is the display's seat.
LEMMA DisplayOwnerFact ==
  ASSUME NEW b, \A p, q \in DOMAIN b : b[p] = b[q] => p = q
  PROVE  \A p \in DOMAIN b : DisplayOwner(b, b[p]) = IF BadBargains THEN p ELSE NoSeat
BY DEF DisplayOwner

\* A freshly seeded board of a list mode is a sequence.
LEMMA ListFacts ==
  ASSUME NEW active \in SUBSET Seats, NEW b \in [SeedPlaces(active) -> Copy], ListMode
  PROVE  b \in Seq(Copy)
<1>1. SeedPlaces(active) = 1 .. 1 \/ SeedPlaces(active) = 1 .. 0
  BY DEF SeedPlaces, ListMode, MakeRoom, BadBargains, TopThat
<1>2. QED
  BY <1>1, SeqDef

\* beginRound: spending the old board and emitting the next seeds keeps the
\* invariant.  FutureSeeds is what rules out a seed that is already somewhere.
LEMMA BeginRoundInv ==
  ASSUME CardsInv, offer = NoOffer, round < MaxRounds,
         NEW active \in SUBSET Seats, BeginRound(active)
  PROVE  CardsInv'
<1> USE SizeFacts
<1> DEFINE places == SeedPlaces(active)
           next == round + 1
           seeds == [p \in places |-> SystemSeeds[next][p]]
<1>0. round \in Nat /\ round > 0 /\ next \in 1 .. MaxRounds /\ next > round
  BY DEF CardsInv, CardsTypeOK
<1>1. /\ round' = next /\ board' = seeds
      /\ zone' = [c \in Copy |-> IF c \in Range(seeds) THEN "board"
                                 ELSE IF c \in Range(board) THEN "spent" ELSE zone[c]]
      /\ owner' = [c \in Copy |-> IF c \in Range(seeds) THEN DisplayOwner(seeds, c)
                                  ELSE IF c \in Range(board) THEN NoSeat ELSE owner[c]]
      /\ UNCHANGED <<reserved, hand, reserve, offer>>
  BY DEF BeginRound
<1>2. seeds \in [places -> Copy] /\ DOMAIN seeds = places
  BY <1>0, PlaceFacts, SeedFacts
<1>3. \A c \in Range(seeds) : c \in SeedsOf(next) /\ c \in Copy /\ zone[c] = "undealt"
  <2>1. \A c \in Range(seeds) : c \in SeedsOf(next) /\ c \in Copy
    BY <1>0, <1>2, PlaceFacts, SeedFacts DEF Range, SeedsOf
  <2>2. QED BY <2>1, <1>0 DEF CardsInv, FutureSeeds
<1>4. \A p, q \in places : seeds[p] = seeds[q] => p = q
  BY <1>0, <1>2, PlaceFacts, DealAssumption
<1>5. \A p \in places : DisplayOwner(seeds, seeds[p]) = IF BadBargains THEN p ELSE NoSeat
  BY <1>2, <1>4, DisplayOwnerFact
<1>6. \A p \in places : seeds[p] \in Range(seeds)
  BY <1>2 DEF Range
<1>7. \A c \in Range(seeds) : DisplayOwner(seeds, c) \in Seats \cup {NoSeat}
  <2>1. BadBargains => places \subseteq Seats
    BY PlaceFacts
  <2>2. \A c \in Range(seeds) : \E p \in places : c = seeds[p]
    BY <1>2 DEF Range
  <2>3. QED BY <2>1, <2>2, <1>5
<1>8. \A c \in Copy : c \in Range(board) => zone[c] = "board"
  BY DEF CardsInv, Conservation, BoardRegistered, Range
<1>9. CardsTypeOK'
  BY <1>0, <1>1, <1>2, <1>7 DEF CardsInv, CardsTypeOK, Zones
<1>10. HandsRegistered' /\ ReservesRegistered'
  <2>1. \A c \in Copy : zone[c] \in {"hand", "reserve"} => zone'[c] = zone[c] /\ owner'[c] = owner[c]
    BY <1>1, <1>3, <1>8
  <2>2. HandsRegistered'
    BY <2>1, <1>1 DEF CardsInv, CardsTypeOK, Conservation, HandsRegistered
  <2>3. \A s \in Seats : \A i \in DOMAIN reserve[s] : reserve[s][i] \in Copy
    BY DEF CardsInv, CardsTypeOK
  <2>4. ReservesRegistered'
    BY <2>1, <2>3, <1>1 DEF CardsInv, Conservation, ReservesRegistered
  <2>5. QED BY <2>2, <2>4
<1>11. BoardRegistered'
  BY <1>1, <1>2, <1>4, <1>5, <1>6, <1>3 DEF BoardRegistered
<1>12. NoOrphans'
  <2> SUFFICES ASSUME NEW d \in Copy
               PROVE  /\ zone'[d] = "hand" => owner'[d] \in Seats /\ d \in hand'[owner'[d]]
                      /\ zone'[d] = "reserve" => owner'[d] \in Seats /\ d \in Range(reserve'[owner'[d]])
                      /\ zone'[d] = "board" => d \in Range(board')
                      /\ zone'[d] \in {"spent", "undealt"} => owner'[d] = NoSeat /\ d \notin reserved'
    BY DEF NoOrphans
  <2>1. CASE d \in Range(seeds)
    BY <2>1, <1>1
  <2>2. CASE d \notin Range(seeds) /\ d \in Range(board)
    BY <2>2, <1>1 DEF CardsInv, Conservation, Reservations
  <2>3. CASE d \notin Range(seeds) /\ d \notin Range(board)
    BY <2>3, <1>1 DEF CardsInv, Conservation, NoOrphans
  <2>4. QED BY <2>1, <2>2, <2>3
<1>13. Reservations' /\ OfferMode'
  BY <1>1 DEF CardsInv, Conservation, Reservations, OfferMode
<1>14. BoardTyped'
  <2>1. ListMode => seeds \in Seq(Copy)
    BY <1>2, ListFacts
  <2>2. BadBargains => places \subseteq Seats
    BY PlaceFacts
  <2>3. QED BY <2>1, <2>2, <1>1, <1>2 DEF BoardTyped
<1>15. FutureSeeds'
  <2> SUFFICES ASSUME NEW r \in 1 .. MaxRounds, r > next, NEW c \in SeedsOf(r)
               PROVE  zone'[c] = "undealt"
    BY <1>1 DEF FutureSeeds
  <2>1. c \in Copy /\ zone[c] = "undealt"
    BY <1>0, SeedFacts DEF CardsInv, FutureSeeds
  <2>2. c \notin Range(seeds)
    BY <1>0, <1>3, DealAssumption
  <2>3. c \notin Range(board)
    BY <2>1, <1>8
  <2>4. QED BY <2>1, <2>2, <2>3, <1>1
<1> QED BY <1>9, <1>10, <1>11, <1>12, <1>13, <1>14, <1>15 DEF CardsInv, Conservation

\* No copy is dealt to two places.
LEMMA DealDisjoint ==
  \A s, t \in Seats : \A c :
    /\ c \in DealtHand[s] /\ c \in DealtHand[t] => s = t
    /\ c \in ReserveOf(s) /\ c \in ReserveOf(t) => s = t
    /\ ~(c \in DealtHand[s] /\ c \in ReserveOf(t))
    /\ \A r \in 1 .. MaxRounds : c \in SeedsOf(r) => c \notin DealtHand[s] /\ c \notin ReserveOf(s)
<1>1. \A s, t \in Seats :
        /\ s # t => /\ DealtHand[s] \cap DealtHand[t] = {}
                    /\ ReserveOf(s) \cap ReserveOf(t) = {}
        /\ DealtHand[s] \cap ReserveOf(t) = {}
  BY DealAssumption
<1>2. \A r \in 1 .. MaxRounds : \A s \in Seats : SeedsOf(r) \cap (DealtHand[s] \cup ReserveOf(s)) = {}
  BY DealAssumption
<1>3. QED BY <1>1, <1>2

\* NewTextMatch establishes the invariant.
LEMMA CardsInitInv ==
  ASSUME CardsInit PROVE CardsInv
<1> USE SizeFacts
<1>0. 1 \in 1 .. MaxRounds
  BY SizeFacts
<1>1. \A s \in Seats : DealtHand[s] \subseteq Copy /\ ReserveOf(s) \subseteq Copy
  BY DealAssumption DEF ReserveOf, Range
<1>2. \A s \in Seats : \A c \in DealtHand[s] : zone[c] = "hand" /\ owner[c] = s
  <2> SUFFICES ASSUME NEW s \in Seats, NEW c \in DealtHand[s]
               PROVE  zone[c] = "hand" /\ owner[c] = s
    OBVIOUS
  <2>1. c \in Copy /\ c \notin SeedsOf(1) /\ \A t \in Seats : c \notin ReserveOf(t)
    BY <1>0, <1>1, DealDisjoint
  <2>2. zone[c] = "hand"
    BY <2>1 DEF CardsInit
  <2>3. \A t \in Seats : c \in DealtHand[t] \cup ReserveOf(t) <=> t = s
    BY DealDisjoint
  <2>4. owner[c] = CHOOSE t \in Seats : c \in DealtHand[t] \cup ReserveOf(t)
    BY <2>1, <2>3 DEF CardsInit
  <2>5. QED BY <2>2, <2>3, <2>4
<1>3. \A s \in Seats : \A c \in ReserveOf(s) : zone[c] = "reserve" /\ owner[c] = s
  <2> SUFFICES ASSUME NEW s \in Seats, NEW c \in ReserveOf(s)
               PROVE  zone[c] = "reserve" /\ owner[c] = s
    OBVIOUS
  <2>1. c \in Copy /\ c \notin SeedsOf(1) /\ \A t \in Seats : c \notin DealtHand[t]
    BY <1>0, <1>1, DealDisjoint
  <2>3. zone[c] = "reserve"
    BY <2>1 DEF CardsInit
  <2>4. \A t \in Seats : c \in DealtHand[t] \cup ReserveOf(t) <=> t = s
    BY DealDisjoint
  <2>5. owner[c] = CHOOSE t \in Seats : c \in DealtHand[t] \cup ReserveOf(t)
    BY <2>1, <2>4 DEF CardsInit
  <2>6. QED BY <2>3, <2>4, <2>5
<1>4. \A r \in 1 .. MaxRounds : \A c \in SeedsOf(r) :
        c \in Copy /\ \A s \in Seats : c \notin DealtHand[s] /\ c \notin ReserveOf(s)
  BY DealAssumption, SeedFacts
<1>5. \A c \in SeedsOf(1) : zone[c] = "board" /\ owner[c] = DisplayOwner(board, c)
  BY <1>0, <1>4 DEF CardsInit
<1>6. /\ board \in [SeedPlaces(Seats) -> Copy]
      /\ DOMAIN board = SeedPlaces(Seats)
      /\ \A p, q \in DOMAIN board : board[p] = board[q] => p = q
      /\ \A p \in DOMAIN board : board[p] \in SeedsOf(1)
      /\ \A c \in SeedsOf(1) : \E p \in DOMAIN board : c = board[p]
  <2>1. board = SystemSeeds[1] /\ board \in [SeedPlaces(Seats) -> Copy]
    BY <1>0, SeedFacts DEF CardsInit
  <2>2. \A p, q \in SeedPlaces(Seats) : board[p] = board[q] => p = q
    BY <1>0, <2>1, DealAssumption
  <2>3. SeedsOf(1) = Range(board)
    BY <2>1 DEF SeedsOf
  <2>4. QED BY <2>1, <2>2, <2>3 DEF Range
<1>7. \A p \in DOMAIN board : DisplayOwner(board, board[p]) = IF BadBargains THEN p ELSE NoSeat
  BY <1>6, DisplayOwnerFact
<1>8. BadBargains => DOMAIN board = Seats
  BY <1>6, PlaceFacts
<1>9. \A c \in Copy : \/ \E s \in Seats : c \in DealtHand[s]
                      \/ \E s \in Seats : c \in ReserveOf(s)
                      \/ c \in SeedsOf(1)
                      \/ (zone[c] = "undealt" /\ owner[c] = NoSeat)
  BY DEF CardsInit
<1>10. CardsTypeOK
  <2>1. \A c \in Copy : zone[c] \in Zones
    BY <1>2, <1>3, <1>5, <1>9 DEF Zones
  <2>2. \A c \in Copy : owner[c] \in Seats \cup {NoSeat}
    BY <1>2, <1>3, <1>5, <1>6, <1>7, <1>8, <1>9
  <2>3. zone \in [Copy -> Zones] /\ owner \in [Copy -> Seats \cup {NoSeat}]
    <3>1. DOMAIN zone = Copy /\ zone = [c \in Copy |-> zone[c]]
      BY DEF CardsInit
    <3>2. DOMAIN owner = Copy /\ owner = [c \in Copy |-> owner[c]]
      BY DEF CardsInit
    <3>3. QED BY <2>1, <2>2, <3>1, <3>2
  <2>4. hand = DealtHand /\ reserve = DealtReserve /\ reserved = {} /\ round = 1 /\ offer = NoOffer
    BY DEF CardsInit
  <2>5. QED
    BY <2>3, <2>4, <1>0, <1>6, DealAssumption DEF CardsTypeOK
<1>11. HandsRegistered
  BY <1>2 DEF CardsInit, HandsRegistered
<1>12. ReservesRegistered
  <2>1. reserve = DealtReserve
    BY DEF CardsInit
  <2>2. \A s \in Seats : \A i \in DOMAIN reserve[s] : reserve[s][i] \in ReserveOf(s)
    BY <2>1 DEF ReserveOf, Range
  <2>3. \A s \in Seats : \A i, j \in DOMAIN reserve[s] : reserve[s][i] = reserve[s][j] => i = j
    BY <2>1, DealAssumption
  <2>4. QED BY <2>2, <2>3, <1>3 DEF ReservesRegistered
<1>13. BoardRegistered
  BY <1>5, <1>6, <1>7 DEF BoardRegistered
<1>14. NoOrphans
  <2> SUFFICES ASSUME NEW c \in Copy
               PROVE  /\ zone[c] = "hand" => owner[c] \in Seats /\ c \in hand[owner[c]]
                      /\ zone[c] = "reserve" => owner[c] \in Seats /\ c \in Range(reserve[owner[c]])
                      /\ zone[c] = "board" => c \in Range(board)
                      /\ zone[c] \in {"spent", "undealt"} => owner[c] = NoSeat /\ c \notin reserved
    BY DEF NoOrphans
  <2>1. hand = DealtHand /\ reserve = DealtReserve /\ reserved = {}
    BY DEF CardsInit
  <2>2. CASE \E s \in Seats : c \in DealtHand[s]
    BY <2>1, <2>2, <1>2
  <2>3. CASE \E s \in Seats : c \in ReserveOf(s)
    BY <2>1, <2>3, <1>3 DEF ReserveOf
  <2>4. CASE c \in SeedsOf(1)
    BY <2>4, <1>5, <1>6 DEF Range
  <2>5. CASE zone[c] = "undealt" /\ owner[c] = NoSeat
    BY <2>1, <2>5
  <2>6. QED BY <2>2, <2>3, <2>4, <2>5, <1>9
<1>15. Reservations /\ OfferMode
  BY DEF CardsInit, Reservations, OfferMode
<1>16. BoardTyped
  BY <1>6, <1>8, ListFacts DEF BoardTyped
<1>17. FutureSeeds
  <2> SUFFICES ASSUME NEW r \in 1 .. MaxRounds, r > 1, NEW c \in SeedsOf(r)
               PROVE  zone[c] = "undealt"
    BY DEF CardsInit, FutureSeeds
  <2>1. c \notin SeedsOf(1)
    BY <1>0, DealAssumption
  <2>2. QED BY <2>1, <1>4 DEF CardsInit
<1> QED BY <1>10, <1>11, <1>12, <1>13, <1>14, <1>15, <1>16, <1>17 DEF CardsInv, Conservation

\* The list of active seats names each of them once.
LEMMA ActiveFacts ==
  ASSUME NEW active \in SUBSET Seats, active # {}
  PROVE  /\ Cardinality(active) \in Nat /\ Cardinality(active) > 0
         /\ ActiveList(active) \in [1 .. Cardinality(active) -> active]
         /\ \A s \in active : \E i \in 1 .. Cardinality(active) : ActiveList(active)[i] = s
         /\ \A i, j \in 1 .. Cardinality(active) :
              ActiveList(active)[i] = ActiveList(active)[j] => i = j
<1>1. IsFiniteSet(Seats)
  BY FS_Interval, ContractAssumption DEF Seats
<1>2. IsFiniteSet(active)
  BY <1>1, FS_Subset
<1>3. Cardinality(active) \in Nat /\ Cardinality(active) # 0
  BY <1>2, FS_CardinalityType, FS_EmptySet
<1>4. /\ ActiveList(active) \in [1 .. Cardinality(active) -> active]
      /\ \A s \in active : \E i \in 1 .. Cardinality(active) : ActiveList(active)[i] = s
      /\ \A i, j \in 1 .. Cardinality(active) :
           i < j => ActiveList(active)[i] < ActiveList(active)[j]
  BY SeatOrderAssumption DEF ActiveList
<1>5. \A i, j \in 1 .. Cardinality(active) :
        ActiveList(active)[i] = ActiveList(active)[j] => i = j
  <2> SUFFICES ASSUME NEW i \in 1 .. Cardinality(active), NEW j \in 1 .. Cardinality(active),
                      ActiveList(active)[i] = ActiveList(active)[j]
               PROVE  i = j
    OBVIOUS
  <2>1. ActiveList(active)[i] \in Int
    BY <1>4, SizeFacts
  <2>2. ~(i < j) /\ ~(j < i)
    BY <1>4, <2>1
  <2>3. QED BY <2>2, <1>3
<1>6. QED BY <1>3, <1>4, <1>5

\* shuffleSpecialty's board indices are exactly the first positions of the
\* shuffled pool, each used for one place.
LEMMA PoolIndexFacts ==
  ASSUME NEW active \in SUBSET Seats, active # {}
  PROVE  LET places == SeedPlaces(active)
             count == Cardinality(places)
             index(p) == CASE MakeRoom -> p + 1
                           [] TopThat -> 1
                           [] OTHER -> CHOOSE i \in DOMAIN ActiveList(active) : ActiveList(active)[i] = p
         IN  /\ count \in Nat
             /\ \A p \in places : index(p) \in 1 .. count
             /\ \A p, q \in places : index(p) = index(q) => p = q
             /\ \A i \in 1 .. count : \E p \in places : index(p) = i
<1> DEFINE places == SeedPlaces(active)
           count == Cardinality(places)
           list == ActiveList(active)
           index(p) == CASE MakeRoom -> p + 1
                         [] TopThat -> 1
                         [] OTHER -> CHOOSE i \in DOMAIN list : list[i] = p
<1> SUFFICES /\ count \in Nat
             /\ \A p \in places : index(p) \in 1 .. count
             /\ \A p, q \in places : index(p) = index(q) => p = q
             /\ \A i \in 1 .. count : \E p \in places : index(p) = i
  OBVIOUS
<1>1. CASE MakeRoom
  <2>1. places = 0 .. 2 /\ \A p : index(p) = p + 1
    BY <1>1 DEF SeedPlaces, MakeRoom, TopThat, BadBargains
  <2>2. Cardinality(0 .. 2) = 3
    <3>1. PICK a \in Int, b \in Int : a = 0 /\ b = 2
      OBVIOUS
    <3>2. Cardinality(a .. b) = IF a > b THEN 0 ELSE b - a + 1
      BY FS_Interval
    <3>3. QED BY <3>1, <3>2
  <2>3. count = 3
    BY <2>1, <2>2
  <2> HIDE DEF index, count, places
  <2>4. \A i \in 1 .. 3 : i - 1 \in 0 .. 2 /\ index(i - 1) = i
    BY <2>1
  <2>5. QED BY <2>1, <2>3, <2>4
<1>2. CASE TopThat
  <2>1. places = {1} /\ \A p : index(p) = 1
    BY <1>2 DEF SeedPlaces, MakeRoom, TopThat, BadBargains
  <2>2. count = 1
    BY <2>1, FS_Singleton
  <2> HIDE DEF index, count, places
  <2>3. QED BY <2>1, <2>2
<1>3. CASE BadBargains
  <2>1. places = active /\ \A p : index(p) = CHOOSE i \in DOMAIN list : list[i] = p
    BY <1>3 DEF SeedPlaces, MakeRoom, TopThat, BadBargains
  <2>2. /\ count \in Nat /\ DOMAIN list = 1 .. count
        /\ \A p \in active : \E i \in 1 .. count : list[i] = p
        /\ \A i \in 1 .. count : list[i] \in active
        /\ \A i, j \in 1 .. count : list[i] = list[j] => i = j
    BY <2>1, ActiveFacts
  <2> HIDE DEF index, count, places, list
  <2>3. \A p \in active : index(p) \in 1 .. count /\ list[index(p)] = p
    BY <2>1, <2>2
  <2>4. \A p, q \in active : index(p) = index(q) => p = q
    BY <2>3
  <2>5. \A i \in 1 .. count : index(list[i]) = i
    BY <2>2, <2>3
  <2>6. QED BY <2>1, <2>2, <2>3, <2>4, <2>5
<1>4. CASE ~MakeRoom /\ ~TopThat /\ ~BadBargains
  <2>1. places = {}
    BY <1>4 DEF SeedPlaces
  <2>2. count = 0
    BY <2>1, FS_EmptySet
  <2>3. QED BY <2>1, <2>2
<1>5. QED BY <1>1, <1>2, <1>3, <1>4

\* A copy is shuffled when an active hand or the board holds it.
LEMMA PoolMembers ==
  ASSUME NEW active, NEW c
  PROVE  c \in ShuffledCards(active) <=> (\E s \in active : c \in hand[s]) \/ c \in Range(board)
<1>1. c \in UNION {hand[s] : s \in active} <=> \E s \in active : c \in hand[s]
  OBVIOUS
<1>2. QED BY <1>1 DEF ShuffledCards

\* shuffleSpecialty: rebuilding the board and redealing round-robin loses no
\* copy and deals none twice, in every mode and for every set of active seats.
LEMMA ShufflePoolInv ==
  ASSUME CardsInv, offer = NoOffer, NEW active \in SUBSET Seats, ShufflePool(active)
  PROVE  CardsInv'
<1> USE SizeFacts
<1> DEFINE pool == ShuffledCards(active)
           size == Cardinality(pool)
           list == ActiveList(active)
           k == Cardinality(active)
           places == SeedPlaces(active)
           count == Cardinality(places)
           index(p) == CASE MakeRoom -> p + 1
                         [] TopThat -> 1
                         [] OTHER -> CHOOSE i \in DOMAIN list : list[i] = p
           seatOf(j) == list[((j - count - 1) % k) + 1]
           onBoard == Range(board')
<1>1. PICK deal \in PoolDeals(pool) :
        /\ IsArrangement(deal, pool)
        /\ board' = [p \in places |-> deal[index(p)]]
        /\ hand' = [s \in Seats |->
             IF s \in active THEN {deal[i] : i \in {j \in count + 1 .. size : seatOf(j) = s}}
             ELSE hand[s]]
        /\ zone' = [c \in Copy |-> IF c \in onBoard THEN "board"
                                   ELSE IF c \in pool THEN "hand" ELSE zone[c]]
        /\ owner' = [c \in Copy |->
             IF c \in onBoard THEN DisplayOwner(board', c)
             ELSE IF c \in pool THEN CHOOSE s \in active : c \in hand'[s] ELSE owner[c]]
        /\ reserved' = reserved \ pool
  BY DEF ShufflePool
<1>2. active # {} /\ count <= size /\ UNCHANGED <<round, reserve, offer>>
  BY DEF ShufflePool
<1>3. pool \subseteq Copy /\ IsFiniteSet(pool) /\ size \in Nat
  <2>1. pool \subseteq Copy
    <3> SUFFICES ASSUME NEW c \in pool PROVE c \in Copy
      OBVIOUS
    <3>1. (\E s \in active : c \in hand[s]) \/ c \in Range(board)
      BY PoolMembers
    <3>2. QED BY <3>1 DEF CardsInv, CardsTypeOK, Range
  <2>2. QED BY <2>1, DealAssumption, FS_Subset, FS_CardinalityType
<1>4. /\ count \in Nat
      /\ \A p \in places : index(p) \in 1 .. count
      /\ \A p, q \in places : index(p) = index(q) => p = q
      /\ \A i \in 1 .. count : \E p \in places : index(p) = i
  BY <1>2, PoolIndexFacts
<1>5. /\ deal \in [1 .. size -> pool]
      /\ \A c \in pool : \E i \in 1 .. size : deal[i] = c
      /\ \A i, j \in 1 .. size : deal[i] = deal[j] => i = j
  BY <1>1 DEF IsArrangement
<1> HIDE DEF index
<1>6. \A j \in count + 1 .. size : seatOf(j) \in active
  <2>1. k \in Nat /\ k > 0 /\ list \in [1 .. k -> active]
    BY <1>2, ActiveFacts
  <2> SUFFICES ASSUME NEW j \in count + 1 .. size PROVE seatOf(j) \in active
    OBVIOUS
  <2> HIDE DEF k, list, count, size
  <2>2. j - count - 1 \in Int
    BY <1>3, <1>4
  <2>3. ((j - count - 1) % k) + 1 \in 1 .. k
    BY <2>1, <2>2
  <2>4. QED BY <2>1, <2>3
<1> HIDE DEF seatOf, count, size, pool
<1>7. /\ DOMAIN board' = places /\ board' \in [places -> pool]
      /\ \A p \in places : board'[p] = deal[index(p)]
      /\ \A p, q \in places : board'[p] = board'[q] => p = q
  BY <1>1, <1>2, <1>3, <1>4, <1>5
<1>8. /\ \A p \in places : board'[p] \in onBoard
      /\ \A c \in onBoard : \E p \in places : c = board'[p]
      /\ onBoard \subseteq pool
  BY <1>7 DEF Range
<1>9. \A j \in count + 1 .. size : deal[j] \in pool /\ deal[j] \notin onBoard
  <2> SUFFICES ASSUME NEW j \in count + 1 .. size PROVE deal[j] \in pool /\ deal[j] \notin onBoard
    OBVIOUS
  <2>1. j \in 1 .. size /\ j \notin 1 .. count
    BY <1>3, <1>4
  <2>2. \A p \in places : index(p) \in 1 .. size
    BY <1>2, <1>3, <1>4
  <2>3. QED BY <2>1, <2>2, <1>4, <1>5, <1>7, <1>8
<1>10. \A c \in pool : c \in onBoard \/ \E j \in count + 1 .. size : c = deal[j]
  <2> SUFFICES ASSUME NEW c \in pool, c \notin onBoard PROVE \E j \in count + 1 .. size : c = deal[j]
    OBVIOUS
  <2>1. PICK i \in 1 .. size : deal[i] = c
    BY <1>5
  <2>2. i \notin 1 .. count
    BY <2>1, <1>4, <1>7, <1>8
  <2>3. i \in count + 1 .. size
    BY <2>2, <1>3, <1>4
  <2>4. QED BY <2>1, <2>3
<1>11. \A s \in active : hand'[s] = {deal[i] : i \in {j \in count + 1 .. size : seatOf(j) = s}}
  BY <1>1
<1>12. \A j \in count + 1 .. size : \A s \in active : deal[j] \in hand'[s] <=> s = seatOf(j)
  <2>1. \A j \in count + 1 .. size : j \in 1 .. size
    BY <1>3, <1>4
  <2>2. QED BY <2>1, <1>5, <1>11
<1>13. \A s \in active : \A c \in hand'[s] : \E j \in count + 1 .. size : c = deal[j] /\ s = seatOf(j)
  BY <1>11
<1>14. \A j \in count + 1 .. size :
         deal[j] \in Copy /\ zone'[deal[j]] = "hand" /\ owner'[deal[j]] = seatOf(j)
  <2> SUFFICES ASSUME NEW j \in count + 1 .. size
               PROVE  deal[j] \in Copy /\ zone'[deal[j]] = "hand" /\ owner'[deal[j]] = seatOf(j)
    OBVIOUS
  <2>1. deal[j] \in Copy /\ deal[j] \in pool /\ deal[j] \notin onBoard
    BY <1>3, <1>9
  <2>2. owner'[deal[j]] = CHOOSE s \in active : deal[j] \in hand'[s]
    BY <2>1, <1>1
  <2>3. (CHOOSE s \in active : deal[j] \in hand'[s]) = seatOf(j)
    BY <1>6, <1>12
  <2>4. QED BY <2>1, <2>2, <2>3, <1>1
<1>15. \A c \in Copy \ pool : zone'[c] = zone[c] /\ owner'[c] = owner[c] /\ c \notin onBoard
  BY <1>1, <1>8
<1>16. \A c \in pool : zone[c] = "board" \/ (zone[c] = "hand" /\ owner[c] \in active)
  <2> SUFFICES ASSUME NEW c \in pool
               PROVE  zone[c] = "board" \/ (zone[c] = "hand" /\ owner[c] \in active)
    OBVIOUS
  <2>1. (\E s \in active : c \in hand[s]) \/ c \in Range(board)
    BY PoolMembers DEF pool
  <2>2. CASE \E s \in active : c \in hand[s]
    BY <2>2 DEF CardsInv, Conservation, HandsRegistered
  <2>3. CASE c \in Range(board)
    <3>1. PICK p \in DOMAIN board : board[p] = c
      BY <2>3 DEF Range
    <3>2. QED BY <3>1 DEF CardsInv, Conservation, BoardRegistered
  <2>4. QED BY <2>1, <2>2, <2>3
<1>17. Range(board) \subseteq pool /\ \A s \in active : hand[s] \subseteq pool
  BY PoolMembers DEF pool
<1>18. reserved = {} /\ reserved' = {}
  BY <1>1 DEF CardsInv, Conservation, Reservations
<1>19. \A c \in onBoard : /\ c \in Copy /\ zone'[c] = "board"
                          /\ owner'[c] = DisplayOwner(board', c)
  BY <1>1, <1>3, <1>8
<1>20. \A p \in places : DisplayOwner(board', board'[p]) = IF BadBargains THEN p ELSE NoSeat
  <2>1. \A p, q \in DOMAIN board' : board'[p] = board'[q] => p = q
    BY <1>7
  <2>2. \A b : (\A p, q \in DOMAIN b : b[p] = b[q] => p = q) =>
               \A p \in DOMAIN b : DisplayOwner(b, b[p]) = IF BadBargains THEN p ELSE NoSeat
    BY DisplayOwnerFact
  <2>3. QED BY <1>7, <2>1, <2>2
<1>21. BadBargains => places \subseteq Seats
  BY PlaceFacts
<1>22. CardsTypeOK'
  <2>1. \A c \in Copy : owner'[c] \in Seats \cup {NoSeat}
    <3> SUFFICES ASSUME NEW c \in Copy PROVE owner'[c] \in Seats \cup {NoSeat}
      OBVIOUS
    <3>1. CASE c \in onBoard
      BY <3>1, <1>8, <1>19, <1>20, <1>21
    <3>2. CASE c \in pool /\ c \notin onBoard
      <4>1. PICK j \in count + 1 .. size : c = deal[j]
        BY <3>2, <1>10
      <4>2. QED BY <4>1, <1>6, <1>14
    <3>3. CASE c \notin pool
      BY <3>3, <1>15 DEF CardsInv, CardsTypeOK
    <3>4. QED BY <3>1, <3>2, <3>3
  <2>2. \A c \in Copy : zone'[c] \in Zones
    BY <1>1 DEF CardsInv, CardsTypeOK, Zones
  <2>3. zone' \in [Copy -> Zones] /\ owner' \in [Copy -> Seats \cup {NoSeat}]
    BY <1>1, <2>1, <2>2
  <2>4. \A s \in Seats : hand'[s] \subseteq Copy
    <3>1. \A s \in active : hand'[s] \subseteq Copy
      BY <1>13, <1>14
    <3>2. \A s \in Seats \ active : hand'[s] = hand[s]
      BY <1>1
    <3>3. QED BY <3>1, <3>2 DEF CardsInv, CardsTypeOK
  <2>5. hand' \in [Seats -> SUBSET Copy]
    BY <2>4, <1>1
  <2>6. board' \in [DOMAIN board' -> Copy]
    BY <1>3, <1>7
  <2>7. QED
    BY <1>2, <1>18, <2>3, <2>5, <2>6 DEF CardsInv, CardsTypeOK
<1>23. HandsRegistered'
  <2> SUFFICES ASSUME NEW s \in Seats, NEW c \in hand'[s] PROVE zone'[c] = "hand" /\ owner'[c] = s
    BY DEF HandsRegistered
  <2>1. CASE s \in active
    BY <2>1, <1>13, <1>14
  <2>2. CASE s \notin active
    <3>1. c \in hand[s] /\ c \in Copy /\ zone[c] = "hand" /\ owner[c] = s
      BY <2>2, <1>1 DEF CardsInv, CardsTypeOK, Conservation, HandsRegistered
    <3>2. c \notin pool
      BY <3>1, <2>2, <1>16
    <3>3. QED BY <3>1, <3>2, <1>15
  <2>3. QED BY <2>1, <2>2
<1>24. ReservesRegistered'
  <2>1. \A s \in Seats : \A i \in DOMAIN reserve[s] : reserve[s][i] \in Copy \ pool
    <3>1. \A s \in Seats : \A i \in DOMAIN reserve[s] :
            reserve[s][i] \in Copy /\ zone[reserve[s][i]] = "reserve"
      BY DEF CardsInv, CardsTypeOK, Conservation, ReservesRegistered
    <3>2. QED BY <3>1, <1>16
  <2>2. \A s \in Seats : \A i \in DOMAIN reserve[s] :
          zone'[reserve[s][i]] = "reserve" /\ owner'[reserve[s][i]] = s
    <3>1. \A s \in Seats : \A i \in DOMAIN reserve[s] :
            zone[reserve[s][i]] = "reserve" /\ owner[reserve[s][i]] = s
      BY DEF CardsInv, Conservation, ReservesRegistered
    <3>2. QED BY <3>1, <2>1, <1>15
  <2>3. reserve' = reserve
    BY <1>2
  <2>4. \A s \in Seats : \A i, j \in DOMAIN reserve[s] : reserve[s][i] = reserve[s][j] => i = j
    BY DEF CardsInv, Conservation, ReservesRegistered
  <2>5. QED
    BY <2>2, <2>3, <2>4 DEF ReservesRegistered
<1>25. BoardRegistered'
  BY <1>7, <1>8, <1>19, <1>20 DEF BoardRegistered
<1>26. NoOrphans'
  <2> SUFFICES ASSUME NEW d \in Copy
               PROVE  /\ zone'[d] = "hand" => owner'[d] \in Seats /\ d \in hand'[owner'[d]]
                      /\ zone'[d] = "reserve" => owner'[d] \in Seats /\ d \in Range(reserve'[owner'[d]])
                      /\ zone'[d] = "board" => d \in Range(board')
                      /\ zone'[d] \in {"spent", "undealt"} => owner'[d] = NoSeat /\ d \notin reserved'
    BY DEF NoOrphans
  <2>1. CASE d \in onBoard
    BY <2>1, <1>19
  <2>2. CASE d \in pool /\ d \notin onBoard
    <3>1. PICK j \in count + 1 .. size : d = deal[j]
      BY <2>2, <1>10
    <3>2. zone'[d] = "hand" /\ owner'[d] = seatOf(j) /\ seatOf(j) \in active /\ d \in hand'[seatOf(j)]
      BY <3>1, <1>6, <1>12, <1>14
    <3>3. QED BY <3>2
  <2>3. CASE d \notin pool
    <3>1. zone'[d] = zone[d] /\ owner'[d] = owner[d] /\ d \notin Range(board)
      BY <2>3, <1>15, <1>17
    <3>2. zone[d] = "hand" => owner[d] \in Seats /\ d \in hand[owner[d]] /\ owner[d] \notin active
      BY <2>3, <1>17 DEF CardsInv, Conservation, NoOrphans
    <3>3. zone[d] = "hand" => d \in hand'[owner[d]]
      BY <3>2, <1>1
    <3>4. QED
      BY <3>1, <3>2, <3>3, <1>2, <1>18 DEF CardsInv, Conservation, NoOrphans
  <2>4. QED BY <2>1, <2>2, <2>3
<1>27. Reservations' /\ OfferMode'
  BY <1>2, <1>18 DEF Reservations, OfferMode
<1>28. BoardTyped'
  <2>1. board' \in [places -> Copy]
    BY <1>3, <1>7
  <2>2. \A b \in [places -> Copy] : ListMode => b \in Seq(Copy)
    BY ListFacts
  <2>3. QED BY <2>1, <2>2, <1>7, <1>21 DEF BoardTyped
<1>29. FutureSeeds'
  BY <1>2, <1>15, <1>16, FutureKept DEF CardsInv
<1> QED BY <1>22, <1>23, <1>24, <1>25, <1>26, <1>27, <1>28, <1>29 DEF CardsInv, Conservation

\* One step of the discipline, or a stutter, keeps the invariant.
LEMMA CardsStepInv == CardsInv /\ [CardsNext]_cardVars => CardsInv'
<1> SUFFICES ASSUME CardsInv, [CardsNext]_cardVars PROVE CardsInv'
  OBVIOUS
<1>0. /\ \A s \in Seats : hand[s] \subseteq Copy
      /\ Range(board) \subseteq Copy
  BY DEF CardsInv, CardsTypeOK, Range
<1>1. CASE offer = NoOffer /\ round < MaxRounds /\ \E active \in (SUBSET Seats) \ {{}} : BeginRound(active)
  BY <1>1, BeginRoundInv
<1>2. CASE offer = NoOffer /\ \E s \in Seats : \E c \in hand[s] : Discard(s, c)
  BY <1>0, <1>2, DiscardInv
<1>3. CASE offer = NoOffer /\ \E s \in Seats : \E c \in hand[s] : PlayToList(s, c)
  BY <1>0, <1>3, PlayToListInv
<1>4. CASE offer = NoOffer /\ \E s \in Seats : \E c \in hand[s] : \E slot \in 0 .. 2 : ReplaceSlot(s, c, slot)
  BY <1>0, <1>4, ReplaceSlotInv
<1>5. CASE offer = NoOffer /\ \E s \in Seats : \E n \in 1 .. Len(reserve[s]) : DrawCards(s, n)
  BY <1>5, DrawCardsInv
<1>6. CASE offer = NoOffer /\ \E s, t \in Seats : \E c \in hand[s] : \E d \in Range(board) : MakeOffer(s, t, c, d)
  BY <1>0, <1>6, MakeOfferInv
<1>7. CASE offer = NoOffer /\ \E active \in SUBSET Seats : ShufflePool(active)
  BY <1>7, ShufflePoolInv
<1>8. CASE \E accept \in BOOLEAN : SettleOffer(accept)
  BY <1>8, SettleOfferInv
<1>9. CASE UNCHANGED cardVars
  BY <1>9 DEF cardVars, CardsInv, CardsTypeOK, Conservation, HandsRegistered, ReservesRegistered,
              BoardRegistered, NoOrphans, Reservations, BoardTyped, FutureSeeds, OfferMode
<1>10. QED
  BY <1>1, <1>2, <1>3, <1>4, <1>5, <1>6, <1>7, <1>8, <1>9 DEF CardsNext

\* CardsInv is an inductive invariant of the card discipline, for every deal,
\* mode and table size.
THEOREM CardsInvariant == CardsSpec => []CardsInv
<1>1. CardsInit => CardsInv
  BY CardsInitInv
<1>2. QED BY <1>1, CardsStepInv, PTL DEF CardsSpec

\* Registry and lists keep their types under every card operation.
THEOREM CardsTypeCorrect == CardsSpec => []CardsTypeOK
<1>1. CardsInv => CardsTypeOK
  BY DEF CardsInv
<1>2. QED BY <1>1, CardsInvariant, PTL

\* Conservation: registry and lists agree on one location for every copy, so
\* validateState's copy checks never refuse a state the engine produced.
THEOREM CardsConserved == CardsSpec => []Conservation
<1>1. CardsInv => Conservation
  BY DEF CardsInv
<1>2. QED BY <1>1, CardsInvariant, PTL

-----------------------------------------------------------------------------
(***************************************************************************)
(* The engine.  Its inductive invariant MatchInv, part by part.            *)
(***************************************************************************)

\* A handler is inside nextTurn; ret says where nextTurn returns to.
Returns == {"idle", "loop", "drop", "absorb"}

Verdicts == {NoResult, Miss} \cup {Elimination(s) : s \in Seats}

FlagsOK == expired \in BOOLEAN /\ shuffleUsed \in BOOLEAN /\ revoteUsed \in BOOLEAN

\* The table: the turn, the seats and the ballot.
TableOK ==
  /\ donowers \in SUBSET Seats
  /\ phase \in Phases /\ turn \in Nat /\ order \in Seq(Seats)
  /\ ready \in SUBSET Seats
  /\ connected \in SUBSET Seats /\ absent \in SUBSET Seats /\ abandoned \in SUBSET Seats
  /\ grace \in [Seats -> {"none", "running", "due"}]
  /\ votes \in [Seats -> Seats \cup {NoSeat}]
  /\ ballotKind \in VotingPhases \cup {NoKind} /\ candidates \in SUBSET Seats
  /\ ballotResult \in Verdicts

\* The result, the specialties and the handler that runs.
HandlerOK ==
  /\ eliminated \in SUBSET Seats /\ remainingVotes \in Int /\ awarded \in SUBSET Nat
  /\ outcome \in {"none", "completed", "scored_low_population", "interrupted"}
  /\ winner \in {"none", "nower", "donower"}
  /\ specialty \in [Seats -> Specialties] /\ freeDraws \in SUBSET Seats
  /\ revealTarget \in Seats \cup {NoSeat} /\ revealUsed \in SUBSET Seats
  /\ pc \in {"turn", "shuffle", "entry", "connect"} \cup Returns
  /\ ret \in Returns
  /\ who \in Seats \cup {NoSeat} /\ steps \in Nat

MatchTypeOK == CardsTypeOK /\ FlagsOK /\ TableOK /\ HandlerOK

\* Which handler may run in which phase, and whom it may be about: nobody
\* moves a card or opens a ballot once the verdict is in.
ControlInv ==
  /\ Running <=> phase # "verdict"
  /\ pc = "turn" => phase \in {"round_start", "play", "trade_response"}
  /\ pc = "shuffle" => phase \in {"play", "trade_response"}
  /\ pc = "loop" => Running
  /\ who \notin connected
  /\ pc \in {"drop", "absorb", "connect"} => who \in Seats
  /\ pc = "turn" /\ ret \in {"drop", "absorb"} => who \in Seats

\* The turns of a round are those of its active seats.
OrderInv ==
  /\ turn <= Len(order)
  /\ Running => \A i \in 1 .. Len(order) : order[i] \in Active

\* The turn belongs to a seat that can play it, unless that seat is just being
\* dropped; an offer is pending exactly in trade_response, between the seat
\* whose turn it is and a connected one.
OfferInv ==
  /\ pc \in {"turn", "shuffle"} => offer = NoOffer
  /\ pc \notin {"turn", "shuffle"} =>
       /\ offer # NoOffer <=> phase = "trade_response"
       /\ phase \in {"play", "trade_response"} => turn > 0
       /\ phase = "play" => Current \in connected \/ (pc = "drop" /\ Current = who)
       /\ phase = "trade_response" => /\ Current \in connected
                                      /\ offer.proposer = Current
                                      /\ offer.recipient \in Active \cap connected

TurnInv == OrderInv /\ OfferInv

\* One vote per round, at most one elimination per finished round, and the
\* awards of a round belong to its result.
RoundInv ==
  /\ Running => remainingVotes = MaxRounds - round + 1
  /\ Running => Cardinality(eliminated) < round
  /\ awarded \subseteq 1 .. round
  /\ round \in awarded => phase \in {"result", "verdict"}

\* Only votes of connected seats are in a ballot, but for a seat that is just
\* being dropped.
VotersInv ==
  phase \in VotingPhases => \A s \in Seats : votes[s] # NoSeat =>
    s \in connected \/ (s = who /\ pc \in {"drop", "absorb"})

\* The ballot has the shape its phase demands, and no result before its time.
BallotInv ==
  /\ phase \notin {"result", "verdict"} => ballotResult = NoResult
  /\ BallotShape
  /\ VotersInv

\* An absence is recorded before it is forgotten: the seat that a late
\* reconnect is about has passed through absenceEnd before it is connected.
GraceInv ==
  /\ \A s \in connected : grace[s] = "none"
  /\ PenalizeAbandon => absent \subseteq abandoned
  /\ pc \in {"loop", "connect"} \/ (pc = "turn" /\ ret = "loop") =>
       (Running /\ who # NoSeat /\ grace[who] = "due" => who \in absent)

\* How far a table without a connected player can have run in one call of
\* advance: four iterations a round.  With somebody connected a fresh deadline
\* ends the loop, at the latest after a countdown of zero.
Abandoned == Active \cap connected = {}
Iterations(p) == 4 * (round - 1) + p
BudgetInv ==
  /\ pc \notin {"loop", "turn"} => steps = 0
  /\ pc = "turn" /\ ret # "loop" => steps = 0
  /\ pc = "turn" /\ ret = "loop" =>
       IF Abandoned THEN steps <= Iterations(1) ELSE steps <= 2
  /\ pc = "loop" /\ steps # 0 =>
       IF Abandoned
       THEN \/ phase = "round_start" /\ steps <= Iterations(0)
            \/ phase = "discussion" /\ steps <= Iterations(1)
            \/ phase = "knowoff" /\ steps <= Iterations(2)
            \/ phase = "result" /\ steps <= Iterations(3)
       ELSE \/ phase = "round_start" /\ steps = 1
            \/ NothingDue /\ steps <= 2

\* In Bad Bargains every active seat has its display, and nobody else.
BoardSeats == Running /\ BadBargains => DOMAIN board = Active

\* What the other parts rest on.
EngineInv == TableOK /\ HandlerOK /\ ControlInv /\ TurnInv

MatchInv ==
  /\ CardsInv /\ BoardShape /\ BoardSeats
  /\ FlagsOK /\ EngineInv /\ RoundInv /\ BallotInv /\ CountedBallot /\ GraceInv /\ BudgetInv

\* A board keeps the size its mode demands, whatever happens to the cards.
LEMMA BoardShapeStep == CardsInv /\ BoardShape /\ [CardsNext]_cardVars => BoardShape'
<1> SUFFICES ASSUME CardsInv, BoardShape, [CardsNext]_cardVars PROVE BoardShape'
  OBVIOUS
<1>0. MakeRoom => ~TopThat /\ ~BadBargains /\ ~ListMode
  BY DEF MakeRoom, TopThat, BadBargains, ListMode
<1>1. TopThat => ~BadBargains
  BY DEF TopThat, BadBargains
<1>2. \A active : /\ MakeRoom => SeedPlaces(active) = 0 .. 2
                  /\ TopThat => SeedPlaces(active) = {1}
                  /\ BadBargains => SeedPlaces(active) = active
  BY <1>0, <1>1 DEF SeedPlaces
<1>3. ASSUME NEW active \in (SUBSET Seats) \ {{}}, DOMAIN board' = SeedPlaces(active) PROVE BoardShape'
  <2>1. TopThat => 1 \in DOMAIN board'
    BY <1>2, <1>3
  <2>2. DOMAIN << >> = {}
    OBVIOUS
  <2>3. MakeRoom => DOMAIN board' = 0 .. 2
    BY <1>2, <1>3
  <2>4. BadBargains => DOMAIN board' # {} /\ DOMAIN board' \subseteq Seats
    BY <1>2, <1>3
  <2>5. TopThat => board' # << >>
    BY <2>1, <2>2
  <2>6. QED BY <2>3, <2>4, <2>5 DEF BoardShape
<1>5. CASE \E active \in (SUBSET Seats) \ {{}} : BeginRound(active)
  BY <1>3, <1>5 DEF BeginRound
<1>6. CASE \E s \in Seats : \E c \in hand[s] : Discard(s, c)
  BY <1>6 DEF Discard, BoardShape
<1>7. CASE \E s \in Seats : \E c \in hand[s] : PlayToList(s, c)
  <2>1. PICK c : board' = Append(board, c) /\ ListMode
    BY <1>7 DEF PlayToList
  <2>2. board \in Seq(Copy) /\ Len(board) \in Nat
    BY <2>1 DEF CardsInv, BoardTyped
  <2>3. board' # << >>
    BY <2>1, <2>2
  <2>4. QED BY <1>0, <2>1, <2>3 DEF BoardShape, ListMode, BadBargains
<1>8. CASE \E s \in Seats : \E c \in hand[s] : \E slot \in 0 .. 2 : ReplaceSlot(s, c, slot)
  <2>1. MakeRoom /\ DOMAIN board' = DOMAIN board
    BY <1>8 DEF ReplaceSlot
  <2>2. QED BY <2>1, <1>0 DEF BoardShape
<1>9. CASE \E s \in Seats : \E n \in 1 .. Len(reserve[s]) : DrawCards(s, n)
  BY <1>9 DEF DrawCards, BoardShape
<1>10. CASE \E s, t \in Seats : \E c \in hand[s] : \E d \in Range(board) : MakeOffer(s, t, c, d)
  BY <1>10 DEF MakeOffer, BoardShape
<1>11. CASE \E active \in SUBSET Seats : ShufflePool(active)
  <2>1. PICK active \in SUBSET Seats : ShufflePool(active)
    BY <1>11
  <2>2. active # {} /\ DOMAIN board' = SeedPlaces(active)
    BY <2>1 DEF ShufflePool
  <2>3. QED BY <2>2, <1>3
<1>12. CASE \E accept \in BOOLEAN : SettleOffer(accept)
  <2>1. BadBargains /\ DOMAIN board' = DOMAIN board
    BY <1>12 DEF SettleOffer, CardsInv, OfferMode
  <2>2. QED BY <1>0, <1>1, <2>1 DEF BoardShape
<1>13. CASE UNCHANGED cardVars
  BY <1>13 DEF cardVars, BoardShape
<1>14. QED
  BY <1>5, <1>6, <1>7, <1>8, <1>9, <1>10, <1>11, <1>12, <1>13 DEF CardsNext

\* What the operations on cards mean for the round and the offer.
LEMMA OfferMoves ==
  /\ \A s : LoseCard(s) => UNCHANGED <<round, offer>>
  /\ \A s, c : PlayToList(s, c) => UNCHANGED <<round, offer>>
  /\ \A s, c, slot : ReplaceSlot(s, c, slot) => UNCHANGED <<round, offer>>
  /\ \A s, n : DrawCards(s, n) => UNCHANGED <<round, offer>>
  /\ \A active : ShufflePool(active) => UNCHANGED <<round, offer>>
  /\ \A active : BeginRound(active) => round' = round + 1 /\ offer' = offer
  /\ \A a : SettleOffer(a) => round' = round /\ offer' = NoOffer
  /\ CancelOffer => round' = round /\ offer' = NoOffer
  /\ \A s, t, c, d : MakeOffer(s, t, c, d) =>
       /\ round' = round
       /\ offer' = [proposer |-> s, recipient |-> t, offered |-> c, requested |-> d]
BY DEF LoseCard, Discard, PlayToList, ReplaceSlot, DrawCards, ShufflePool, BeginRound, SettleOffer,
       CancelOffer, MakeOffer, cardVars

\* A specialty that is spent or granted moves nothing else.
PerkFrame ==
  UNCHANGED <<cardVars, phaseVars, seatVars, ballotVars, resultVars, dealVars, ctlVars>>

\* The private specialties, the debug grant and the free card only set flags.
LEMMA PerkFacts ==
  ASSUME NEW s \in Seats
  PROVE  /\ ViewReveal(s) => PerkFrame
         /\ FreeCard(s) => PerkFrame
         /\ \A t : Reveal(s, t) => PerkFrame
         /\ \A kind : DevGrantSpecialty(s, kind) => PerkFrame
BY DEF ViewReveal, FreeCard, Reveal, DevGrantSpecialty, PerkFrame

\* The order of a round lists active seats only.
LEMMA OrderFacts ==
  ASSUME NEW A \in SUBSET Seats, NEW f \in TurnOrders(A)
  PROVE  /\ f \in Seq(Seats) /\ Len(f) \in Nat
         /\ \A i \in 1 .. Len(f) : f[i] \in A
<1>1. IsArrangement(f, A)
  BY MatchAssumption
<1>2. IsFiniteSet(A)
  <2>1. IsFiniteSet(Seats)
    BY ContractAssumption, FS_Interval DEF Seats
  <2>2. QED BY <2>1, FS_Subset
<1>3. Cardinality(A) \in Nat
  BY <1>2, FS_CardinalityType
<1> DEFINE n == Cardinality(A)
<1>4. n \in Nat /\ f \in [1 .. n -> A]
  BY <1>1, <1>3 DEF IsArrangement
<1> HIDE DEF n
<1>5. f \in Seq(A) /\ Len(f) = n
  BY <1>4
<1>6. f \in Seq(Seats)
  BY <1>5
<1>7. QED BY <1>4, <1>5, <1>6

\* A verdict names a team or nobody.
LEMMA WinnerTypes ==
  /\ \A out, left : VoteWinner(out, left) \in {"none", "nower", "donower"}
  /\ \A away : AbsenceWinner(away) \in {"none", "nower", "donower"}
BY DEF VoteWinner, AbsenceWinner

\* A set with one element is that element's singleton.
LEMMA OneElement ==
  ASSUME NEW S \in SUBSET Seats
  PROVE  /\ IsFiniteSet(S) /\ Cardinality(S) \in Nat
         /\ Cardinality(S) = 1 <=> \E x \in Seats : S = {x}
         /\ Cardinality(S) = 0 <=> S = {}
<1>1. IsFiniteSet(S)
  <2>1. IsFiniteSet(Seats)
    BY ContractAssumption, FS_Interval DEF Seats
  <2>2. QED BY <2>1, FS_Subset
<1>2. Cardinality(S) \in Nat
  BY <1>1, FS_CardinalityType
<1>3. Cardinality(S) = 0 <=> S = {}
  BY <1>1, FS_EmptySet
<1>4. Cardinality(S) = 1 => \E x \in Seats : S = {x}
  <2> SUFFICES ASSUME Cardinality(S) = 1 PROVE \E x \in Seats : S = {x}
    OBVIOUS
  <2>1. PICK x \in S : TRUE
    BY <1>3
  <2>2. Cardinality(S \ {x}) = Cardinality(S) - 1
    BY <1>1, <2>1, FS_RemoveElement
  <2>3. IsFiniteSet(S \ {x}) /\ Cardinality(S \ {x}) = 0
    BY <1>1, <2>1, <2>2, FS_RemoveElement
  <2>4. S \ {x} = {}
    BY <2>3, FS_EmptySet
  <2>5. QED BY <2>1, <2>4
<1>5. (\E x \in Seats : S = {x}) => Cardinality(S) = 1
  BY FS_Singleton
<1>6. QED BY <1>1, <1>2, <1>3, <1>4, <1>5

\* The leaders of a tally are seats; a single leader is the one that CHOOSE picks.
LEMMA TiedFacts ==
  /\ Tied \in SUBSET Seats /\ IsFiniteSet(Tied) /\ Cardinality(Tied) \in Nat
  /\ Cardinality(Tied) = 1 =>
       (CHOOSE t \in Tied : TRUE) \in Seats /\ Tied = {CHOOSE t \in Tied : TRUE}
<1>1. Tied \in SUBSET Seats
  BY DEF Tied
<1>2. QED BY <1>1, OneElement

\* Every step keeps the types of the table.
LEMMA TableStep == TableOK /\ HandlerOK /\ ControlInv /\ CardsTypeOK /\ [Next]_vars => TableOK'
<1> SUFFICES ASSUME TableOK, HandlerOK, ControlInv, CardsTypeOK, [Next]_vars PROVE TableOK'
  OBVIOUS
<1> USE DEF TableOK, HandlerOK, Returns, Phases, ReadyPhases, VotingPhases, phaseVars, seatVars,
            ballotVars, resultVars, perkVars, dealVars, ctlVars
<1>1. ASSUME NEW s \in Seats, PlayCard(s) PROVE TableOK'
  BY <1>1 DEF PlayCard, OnTurn, Acting, CallNextTurn
<1>2. ASSUME NEW s \in Seats, Replace(s) PROVE TableOK'
  BY <1>2 DEF Replace, OnTurn, Acting, CallNextTurn
<1>3. ASSUME NEW s \in Seats, Draw(s) PROVE TableOK'
  BY <1>3 DEF Draw, OnTurn, Acting
<1>4. ASSUME NEW s \in Seats, MarkReady(s) PROVE TableOK'
  BY <1>4 DEF MarkReady, Acting
<1>5. ASSUME NEW s \in Seats, Pass(s) PROVE TableOK'
  BY <1>5 DEF Pass, OnTurn, Acting, CallNextTurn
<1>6. ASSUME NEW s \in Seats, Shuffle(s) PROVE TableOK'
  BY <1>6 DEF Shuffle, Acting
<1>7. ASSUME NEW s \in Seats, Revote(s) PROVE TableOK'
  BY <1>7 DEF Revote, MayRevote, Acting, ResetBallot, EnterPhase, NoVotes, Active, Verdicts
<1>8. ASSUME NEW s \in Seats, NEW t \in Seats, Offer(s, t) PROVE TableOK'
  BY <1>8 DEF Offer, OnTurn, Acting, EnterPhase
<1>9. ASSUME NEW s \in Seats, NEW t \in Seats, Vote(s, t) PROVE TableOK'
  BY <1>9 DEF Vote, Acting
<1>10. ASSUME NEW s \in Seats, NEW a \in BOOLEAN, ResolveOffer(s, a) PROVE TableOK'
  BY <1>10 DEF ResolveOffer, Acting, CallNextTurn
<1>11. ASSUME PerkFrame PROVE TableOK'
  BY <1>11 DEF PerkFrame
<1>12. ASSUME TurnEnds PROVE TableOK'
  BY <1>12 DEF TurnEnds, EnterPhase
<1>13. ASSUME TurnSkipsDisconnected PROVE TableOK'
  BY <1>13 DEF TurnSkipsDisconnected, EnterPhase
<1>14. ASSUME TurnSkipsNoRecipient PROVE TableOK'
  BY <1>14 DEF TurnSkipsNoRecipient, EnterPhase
<1>15. ASSUME TurnStarts PROVE TableOK'
  BY <1>15 DEF TurnStarts, EnterPhase
<1>16. ASSUME ShuffleDeals PROVE TableOK'
  BY <1>16 DEF ShuffleDeals, CallNextTurn
<1>17. ASSUME AdvanceOver PROVE TableOK'
  BY <1>17 DEF AdvanceOver, AdvanceReturns
<1>18. ASSUME AdvanceEntry PROVE TableOK'
  BY <1>18, WinnerTypes DEF AdvanceEntry, AdvanceReturns, Finish, EnterPhase, DueGraces
<1>19. ASSUME LoopWaits PROVE TableOK'
  BY <1>19 DEF LoopWaits, Looping, AdvanceReturns
<1>20. ASSUME LoopFirstTurn PROVE TableOK'
  BY <1>20 DEF LoopFirstTurn, Looping, LoopTurn, CallNextTurn
<1>21. ASSUME LoopNoRecipient PROVE TableOK'
  BY <1>21 DEF LoopNoRecipient, Looping, LoopTurn, CallNextTurn
<1>22. ASSUME LoopTimeout PROVE TableOK'
  BY <1>22 DEF LoopTimeout, Looping, LoopTurn, CallNextTurn
<1>23. ASSUME LoopOfferTimeout PROVE TableOK'
  BY <1>23 DEF LoopOfferTimeout, Looping, LoopTurn, CallNextTurn
<1>24. ASSUME LoopOpensBallot PROVE TableOK'
  BY <1>24 DEF LoopOpensBallot, Looping, LoopAgain, ResetBallot, EnterPhase, NoVotes, Active
<1>25. ASSUME LoopRunoff PROVE TableOK'
  BY <1>25, TiedFacts DEF LoopRunoff, Looping, LoopAgain, ResetBallot, EnterPhase, NoVotes
<1>26. ASSUME LoopResolves PROVE TableOK'
  BY <1>26, TiedFacts DEF LoopResolves, Looping, LoopAgain, EnterPhase, Verdicts
<1>27. ASSUME LoopFinalizes PROVE TableOK'
  BY <1>27, OrderFacts, WinnerTypes DEF LoopFinalizes, Looping, LoopAgain, AdvanceReturns,
         Finish, ResetBallot, EnterPhase, NoVotes, VotesLeft, Verdicts
<1>28. ASSUME DropTurn PROVE TableOK'
  BY <1>28 DEF DropTurn, CallNextTurn
<1>29. ASSUME DropAbsorbed PROVE TableOK'
  BY <1>29 DEF DropAbsorbed, WithdrawnVotes, Active
<1>30. ASSUME Connected PROVE TableOK'
  BY <1>30 DEF Connected, ControlInv
<1>31. ASSUME Advance PROVE TableOK'
  BY <1>31 DEF Advance
<1>32. ASSUME Close PROVE TableOK'
  BY <1>32 DEF Close, Finish, EnterPhase
<1>33. ASSUME NEW s \in Seats, Disconnect(s) PROVE TableOK'
  BY <1>33, MatchAssumption DEF Disconnect, CallNextTurn
<1>34. ASSUME NEW s \in Seats, Reconnect(s) PROVE TableOK'
  BY <1>34 DEF Reconnect
<1>35. ASSUME NEW s \in Seats, GracePasses(s) PROVE TableOK'
  BY <1>35 DEF GracePasses
<1>36. ASSUME DeadlinePasses PROVE TableOK'
  BY <1>36 DEF DeadlinePasses
<1>37. ASSUME UNCHANGED vars PROVE TableOK'
  BY <1>37 DEF vars
<1>38. QED
  BY <1>1, <1>2, <1>3, <1>4, <1>5, <1>6, <1>7, <1>8, <1>9, <1>10, <1>11, <1>12, <1>13, <1>14,
     <1>15, <1>16, <1>17, <1>18, <1>19, <1>20, <1>21, <1>22, <1>23, <1>24, <1>25, <1>26, <1>27,
     <1>28, <1>29, <1>30, <1>31, <1>32, <1>33, <1>34, <1>35, <1>36, <1>37, PerkFacts
  DEF Next, Apply, Step, NextTurn, AdvanceStep, SetConnectedStep

\* Every step keeps the types of result, specialties and control.
LEMMA HandlerStep == TableOK /\ HandlerOK /\ ControlInv /\ CardsTypeOK /\ [Next]_vars => HandlerOK'
<1> SUFFICES ASSUME TableOK, HandlerOK, ControlInv, CardsTypeOK, [Next]_vars PROVE HandlerOK'
  OBVIOUS
<1> USE DEF TableOK, HandlerOK, Returns, ReadyPhases, VotingPhases, phaseVars, seatVars,
            ballotVars, resultVars, perkVars, dealVars, ctlVars
<1>1. ASSUME NEW s \in Seats, PlayCard(s) PROVE HandlerOK'
  BY <1>1 DEF PlayCard, OnTurn, Acting, CallNextTurn
<1>2. ASSUME NEW s \in Seats, Replace(s) PROVE HandlerOK'
  BY <1>2 DEF Replace, OnTurn, Acting, CallNextTurn
<1>3. ASSUME NEW s \in Seats, Draw(s) PROVE HandlerOK'
  BY <1>3 DEF Draw, OnTurn, Acting
<1>4. ASSUME NEW s \in Seats, MarkReady(s) PROVE HandlerOK'
  BY <1>4 DEF MarkReady, Acting
<1>5. ASSUME NEW s \in Seats, Pass(s) PROVE HandlerOK'
  BY <1>5 DEF Pass, OnTurn, Acting, CallNextTurn, Specialties
<1>6. ASSUME NEW s \in Seats, Shuffle(s) PROVE HandlerOK'
  BY <1>6 DEF Shuffle, Acting, Specialties
<1>7. ASSUME NEW s \in Seats, Revote(s) PROVE HandlerOK'
  BY <1>7 DEF Revote, MayRevote, Acting, ResetBallot, EnterPhase, Specialties
<1>8. ASSUME NEW s \in Seats, NEW t \in Seats, Offer(s, t) PROVE HandlerOK'
  BY <1>8 DEF Offer, OnTurn, Acting, EnterPhase
<1>9. ASSUME NEW s \in Seats, NEW t \in Seats, Vote(s, t) PROVE HandlerOK'
  BY <1>9 DEF Vote, Acting
<1>10. ASSUME NEW s \in Seats, NEW a \in BOOLEAN, ResolveOffer(s, a) PROVE HandlerOK'
  BY <1>10 DEF ResolveOffer, Acting, CallNextTurn
<1>11. ASSUME NEW s \in Seats, ViewReveal(s) PROVE HandlerOK'
  BY <1>11 DEF ViewReveal
<1>12. ASSUME NEW s \in Seats, FreeCard(s) PROVE HandlerOK'
  BY <1>12 DEF FreeCard, Specialties
<1>13. ASSUME NEW s \in Seats, NEW t \in Seats, Reveal(s, t) PROVE HandlerOK'
  BY <1>13 DEF Reveal, Specialties
<1>14. ASSUME NEW s \in Seats, NEW k \in Specialties, DevGrantSpecialty(s, k) PROVE HandlerOK'
  BY <1>14 DEF DevGrantSpecialty
<1>15. ASSUME TurnEnds PROVE HandlerOK'
  BY <1>15 DEF TurnEnds, EnterPhase
<1>16. ASSUME TurnSkipsDisconnected PROVE HandlerOK'
  BY <1>16 DEF TurnSkipsDisconnected, EnterPhase
<1>17. ASSUME TurnSkipsNoRecipient PROVE HandlerOK'
  BY <1>17 DEF TurnSkipsNoRecipient, EnterPhase
<1>18. ASSUME TurnStarts PROVE HandlerOK'
  BY <1>18 DEF TurnStarts, EnterPhase
<1>19. ASSUME ShuffleDeals PROVE HandlerOK'
  BY <1>19 DEF ShuffleDeals, CallNextTurn
<1>20. ASSUME AdvanceOver PROVE HandlerOK'
  BY <1>20 DEF AdvanceOver, AdvanceReturns
<1>21. ASSUME AdvanceEntry PROVE HandlerOK'
  BY <1>21, WinnerTypes DEF AdvanceEntry, AdvanceReturns, Finish, EnterPhase
<1>22. ASSUME LoopWaits PROVE HandlerOK'
  BY <1>22 DEF LoopWaits, Looping, AdvanceReturns
<1>23. ASSUME LoopFirstTurn PROVE HandlerOK'
  BY <1>23 DEF LoopFirstTurn, Looping, LoopTurn, CallNextTurn
<1>24. ASSUME LoopNoRecipient PROVE HandlerOK'
  BY <1>24 DEF LoopNoRecipient, Looping, LoopTurn, CallNextTurn
<1>25. ASSUME LoopTimeout PROVE HandlerOK'
  BY <1>25 DEF LoopTimeout, Looping, LoopTurn, CallNextTurn
<1>26. ASSUME LoopOfferTimeout PROVE HandlerOK'
  BY <1>26 DEF LoopOfferTimeout, Looping, LoopTurn, CallNextTurn
<1>27. ASSUME LoopOpensBallot PROVE HandlerOK'
  BY <1>27 DEF LoopOpensBallot, Looping, LoopAgain, ResetBallot, EnterPhase
<1>28. ASSUME LoopRunoff PROVE HandlerOK'
  BY <1>28 DEF LoopRunoff, Looping, LoopAgain, ResetBallot, EnterPhase
<1>29. ASSUME LoopResolves PROVE HandlerOK'
  BY <1>29, SizeFacts DEF LoopResolves, Looping, LoopAgain, EnterPhase, CardsTypeOK
<1>30. ASSUME LoopFinalizes PROVE HandlerOK'
  BY <1>30, WinnerTypes DEF LoopFinalizes, Looping, LoopAgain, AdvanceReturns, Finish,
         ResetBallot, EnterPhase, VotesLeft
<1>31. ASSUME DropTurn PROVE HandlerOK'
  BY <1>31 DEF DropTurn, CallNextTurn
<1>32. ASSUME DropAbsorbed PROVE HandlerOK'
  BY <1>32 DEF DropAbsorbed
<1>33. ASSUME Connected PROVE HandlerOK'
  BY <1>33 DEF Connected
<1>34. ASSUME Advance PROVE HandlerOK'
  BY <1>34 DEF Advance
<1>35. ASSUME Close PROVE HandlerOK'
  BY <1>35 DEF Close, Finish, EnterPhase
<1>36. ASSUME NEW s \in Seats, Disconnect(s) PROVE HandlerOK'
  BY <1>36, MatchAssumption DEF Disconnect, CallNextTurn
<1>37. ASSUME NEW s \in Seats, Reconnect(s) PROVE HandlerOK'
  BY <1>37 DEF Reconnect
<1>38. ASSUME NEW s \in Seats, GracePasses(s) PROVE HandlerOK'
  BY <1>38 DEF GracePasses
<1>39. ASSUME DeadlinePasses PROVE HandlerOK'
  BY <1>39 DEF DeadlinePasses
<1>40. ASSUME UNCHANGED vars PROVE HandlerOK'
  BY <1>40 DEF vars
<1>41. QED
  BY <1>1, <1>2, <1>3, <1>4, <1>5, <1>6, <1>7, <1>8, <1>9, <1>10, <1>11, <1>12, <1>13, <1>14,
     <1>15, <1>16, <1>17, <1>18, <1>19, <1>20, <1>21, <1>22, <1>23, <1>24, <1>25, <1>26, <1>27,
     <1>28, <1>29, <1>30, <1>31, <1>32, <1>33, <1>34, <1>35, <1>36, <1>37, <1>38, <1>39, <1>40
  DEF Next, Apply, Step, NextTurn, AdvanceStep, SetConnectedStep

\* Every step keeps the types of the three flags.
LEMMA FlagsStep == FlagsOK /\ [Next]_vars => FlagsOK'
<1> SUFFICES ASSUME FlagsOK, [Next]_vars PROVE FlagsOK'
  OBVIOUS
<1> USE DEF FlagsOK, phaseVars, seatVars, ballotVars, resultVars, perkVars, dealVars, ctlVars
<1>1. ASSUME NEW s \in Seats, PlayCard(s) PROVE FlagsOK'
  BY <1>1 DEF PlayCard, OnTurn, Acting, CallNextTurn
<1>2. ASSUME NEW s \in Seats, Replace(s) PROVE FlagsOK'
  BY <1>2 DEF Replace, OnTurn, Acting, CallNextTurn
<1>3. ASSUME NEW s \in Seats, Draw(s) PROVE FlagsOK'
  BY <1>3 DEF Draw, OnTurn, Acting
<1>4. ASSUME NEW s \in Seats, MarkReady(s) PROVE FlagsOK'
  BY <1>4 DEF MarkReady, Acting
<1>5. ASSUME NEW s \in Seats, Pass(s) PROVE FlagsOK'
  BY <1>5 DEF Pass, OnTurn, Acting, CallNextTurn
<1>6. ASSUME NEW s \in Seats, Shuffle(s) PROVE FlagsOK'
  BY <1>6 DEF Shuffle, Acting
<1>7. ASSUME NEW s \in Seats, Revote(s) PROVE FlagsOK'
  BY <1>7 DEF Revote, MayRevote, Acting, ResetBallot, EnterPhase
<1>8. ASSUME NEW s \in Seats, NEW t \in Seats, Offer(s, t) PROVE FlagsOK'
  BY <1>8 DEF Offer, OnTurn, Acting, EnterPhase
<1>9. ASSUME NEW s \in Seats, NEW t \in Seats, Vote(s, t) PROVE FlagsOK'
  BY <1>9 DEF Vote, Acting
<1>10. ASSUME NEW s \in Seats, NEW a \in BOOLEAN, ResolveOffer(s, a) PROVE FlagsOK'
  BY <1>10 DEF ResolveOffer, Acting, CallNextTurn
<1>11. ASSUME NEW s \in Seats, ViewReveal(s) PROVE FlagsOK'
  BY <1>11 DEF ViewReveal
<1>12. ASSUME NEW s \in Seats, FreeCard(s) PROVE FlagsOK'
  BY <1>12 DEF FreeCard
<1>13. ASSUME NEW s \in Seats, NEW t \in Seats, Reveal(s, t) PROVE FlagsOK'
  BY <1>13 DEF Reveal
<1>14. ASSUME NEW s \in Seats, NEW k \in Specialties, DevGrantSpecialty(s, k) PROVE FlagsOK'
  BY <1>14 DEF DevGrantSpecialty
<1>15. ASSUME TurnEnds PROVE FlagsOK'
  BY <1>15 DEF TurnEnds, EnterPhase
<1>16. ASSUME TurnSkipsDisconnected PROVE FlagsOK'
  BY <1>16 DEF TurnSkipsDisconnected, EnterPhase
<1>17. ASSUME TurnSkipsNoRecipient PROVE FlagsOK'
  BY <1>17 DEF TurnSkipsNoRecipient, EnterPhase
<1>18. ASSUME TurnStarts PROVE FlagsOK'
  BY <1>18 DEF TurnStarts, EnterPhase
<1>19. ASSUME ShuffleDeals PROVE FlagsOK'
  BY <1>19 DEF ShuffleDeals, CallNextTurn
<1>20. ASSUME AdvanceOver PROVE FlagsOK'
  BY <1>20 DEF AdvanceOver, AdvanceReturns
<1>21. ASSUME AdvanceEntry PROVE FlagsOK'
  BY <1>21 DEF AdvanceEntry, AdvanceReturns, Finish, EnterPhase
<1>22. ASSUME LoopWaits PROVE FlagsOK'
  BY <1>22 DEF LoopWaits, Looping, AdvanceReturns
<1>23. ASSUME LoopFirstTurn PROVE FlagsOK'
  BY <1>23 DEF LoopFirstTurn, Looping, LoopTurn, CallNextTurn
<1>24. ASSUME LoopNoRecipient PROVE FlagsOK'
  BY <1>24 DEF LoopNoRecipient, Looping, LoopTurn, CallNextTurn
<1>25. ASSUME LoopTimeout PROVE FlagsOK'
  BY <1>25 DEF LoopTimeout, Looping, LoopTurn, CallNextTurn
<1>26. ASSUME LoopOfferTimeout PROVE FlagsOK'
  BY <1>26 DEF LoopOfferTimeout, Looping, LoopTurn, CallNextTurn
<1>27. ASSUME LoopOpensBallot PROVE FlagsOK'
  BY <1>27 DEF LoopOpensBallot, Looping, LoopAgain, ResetBallot, EnterPhase
<1>28. ASSUME LoopRunoff PROVE FlagsOK'
  BY <1>28 DEF LoopRunoff, Looping, LoopAgain, ResetBallot, EnterPhase
<1>29. ASSUME LoopResolves PROVE FlagsOK'
  BY <1>29 DEF LoopResolves, Looping, LoopAgain, EnterPhase
<1>30. ASSUME LoopFinalizes PROVE FlagsOK'
  BY <1>30 DEF LoopFinalizes, Looping, LoopAgain, AdvanceReturns, Finish, ResetBallot, EnterPhase
<1>31. ASSUME DropTurn PROVE FlagsOK'
  BY <1>31 DEF DropTurn, CallNextTurn
<1>32. ASSUME DropAbsorbed PROVE FlagsOK'
  BY <1>32 DEF DropAbsorbed
<1>33. ASSUME Connected PROVE FlagsOK'
  BY <1>33 DEF Connected
<1>34. ASSUME Advance PROVE FlagsOK'
  BY <1>34 DEF Advance
<1>35. ASSUME Close PROVE FlagsOK'
  BY <1>35 DEF Close, Finish, EnterPhase
<1>36. ASSUME NEW s \in Seats, Disconnect(s) PROVE FlagsOK'
  BY <1>36 DEF Disconnect, CallNextTurn
<1>37. ASSUME NEW s \in Seats, Reconnect(s) PROVE FlagsOK'
  BY <1>37 DEF Reconnect
<1>38. ASSUME NEW s \in Seats, GracePasses(s) PROVE FlagsOK'
  BY <1>38 DEF GracePasses
<1>39. ASSUME DeadlinePasses PROVE FlagsOK'
  BY <1>39 DEF DeadlinePasses
<1>40. ASSUME UNCHANGED vars PROVE FlagsOK'
  BY <1>40 DEF vars
<1>41. QED
  BY <1>1, <1>2, <1>3, <1>4, <1>5, <1>6, <1>7, <1>8, <1>9, <1>10, <1>11, <1>12, <1>13, <1>14,
     <1>15, <1>16, <1>17, <1>18, <1>19, <1>20, <1>21, <1>22, <1>23, <1>24, <1>25, <1>26, <1>27,
     <1>28, <1>29, <1>30, <1>31, <1>32, <1>33, <1>34, <1>35, <1>36, <1>37, <1>38, <1>39, <1>40
  DEF Next, Apply, Step, NextTurn, AdvanceStep, SetConnectedStep

\* Handlers run in their phases: every step keeps ControlInv.
LEMMA ControlStep == TableOK /\ HandlerOK /\ ControlInv /\ TurnInv /\ CardsTypeOK /\ [Next]_vars => ControlInv'
<1> SUFFICES ASSUME TableOK, HandlerOK, ControlInv, TurnInv, CardsTypeOK, [Next]_vars PROVE ControlInv'
  OBVIOUS
<1> USE DEF ControlInv, Running, phaseVars, seatVars, ballotVars, resultVars, perkVars, dealVars,
            ctlVars
<1>1. ASSUME NEW s \in Seats, PlayCard(s) PROVE ControlInv'
  BY <1>1 DEF PlayCard, OnTurn, Acting, CallNextTurn
<1>2. ASSUME NEW s \in Seats, Replace(s) PROVE ControlInv'
  BY <1>2 DEF Replace, OnTurn, Acting, CallNextTurn
<1>3. ASSUME NEW s \in Seats, Draw(s) PROVE ControlInv'
  BY <1>3 DEF Draw, OnTurn, Acting
<1>4. ASSUME NEW s \in Seats, MarkReady(s) PROVE ControlInv'
  BY <1>4 DEF MarkReady, Acting
<1>5. ASSUME NEW s \in Seats, Pass(s) PROVE ControlInv'
  BY <1>5 DEF Pass, OnTurn, Acting, CallNextTurn
<1>6. ASSUME NEW s \in Seats, Shuffle(s) PROVE ControlInv'
  BY <1>6 DEF Shuffle, Acting
<1>7. ASSUME NEW s \in Seats, Revote(s) PROVE ControlInv'
  BY <1>7 DEF Revote, MayRevote, Acting, ResetBallot, EnterPhase, VotingPhases
<1>8. ASSUME NEW s \in Seats, NEW t \in Seats, Offer(s, t) PROVE ControlInv'
  BY <1>8 DEF Offer, OnTurn, Acting, EnterPhase
<1>9. ASSUME NEW s \in Seats, NEW t \in Seats, Vote(s, t) PROVE ControlInv'
  BY <1>9 DEF Vote, Acting
<1>10. ASSUME NEW s \in Seats, NEW a \in BOOLEAN, ResolveOffer(s, a) PROVE ControlInv'
  BY <1>10 DEF ResolveOffer, Acting, CallNextTurn
<1>11. ASSUME PerkFrame PROVE ControlInv'
  BY <1>11 DEF PerkFrame
<1>12. ASSUME TurnEnds PROVE ControlInv'
  BY <1>12 DEF TurnEnds, EnterPhase, HandlerOK, Returns
<1>13. ASSUME TurnSkipsDisconnected PROVE ControlInv'
  BY <1>13 DEF TurnSkipsDisconnected, EnterPhase, HandlerOK, Returns
<1>14. ASSUME TurnSkipsNoRecipient PROVE ControlInv'
  BY <1>14 DEF TurnSkipsNoRecipient, EnterPhase, HandlerOK, Returns
<1>15. ASSUME TurnStarts PROVE ControlInv'
  BY <1>15 DEF TurnStarts, EnterPhase, HandlerOK, Returns
<1>16. ASSUME ShuffleDeals PROVE ControlInv'
  BY <1>16 DEF ShuffleDeals, CallNextTurn
<1>17. ASSUME AdvanceOver PROVE ControlInv'
  BY <1>17 DEF AdvanceOver, AdvanceReturns, HandlerOK, Returns
<1>18. ASSUME AdvanceEntry PROVE ControlInv'
  BY <1>18 DEF AdvanceEntry, AdvanceReturns, Finish, EnterPhase, HandlerOK, Returns
<1>19. ASSUME LoopWaits PROVE ControlInv'
  BY <1>19 DEF LoopWaits, Looping, AdvanceReturns, HandlerOK, Returns
<1>20. ASSUME LoopFirstTurn PROVE ControlInv'
  BY <1>20 DEF LoopFirstTurn, Looping, LoopTurn, CallNextTurn
<1>21. ASSUME LoopNoRecipient PROVE ControlInv'
  BY <1>21 DEF LoopNoRecipient, Looping, LoopTurn, CallNextTurn
<1>22. ASSUME LoopTimeout PROVE ControlInv'
  BY <1>22 DEF LoopTimeout, Looping, LoopTurn, CallNextTurn
<1>23. ASSUME LoopOfferTimeout PROVE ControlInv'
  BY <1>23 DEF LoopOfferTimeout, Looping, LoopTurn, CallNextTurn
<1>24. ASSUME LoopOpensBallot PROVE ControlInv'
  BY <1>24 DEF LoopOpensBallot, Looping, LoopAgain, ResetBallot, EnterPhase
<1>25. ASSUME LoopRunoff PROVE ControlInv'
  BY <1>25 DEF LoopRunoff, Looping, LoopAgain, ResetBallot, EnterPhase
<1>26. ASSUME LoopResolves PROVE ControlInv'
  BY <1>26 DEF LoopResolves, Looping, LoopAgain, EnterPhase
<1>27. ASSUME LoopFinalizes PROVE ControlInv'
  BY <1>27 DEF LoopFinalizes, Looping, LoopAgain, AdvanceReturns, Finish, ResetBallot,
         EnterPhase, HandlerOK, Returns
<1>28. ASSUME DropTurn PROVE ControlInv'
  BY <1>28 DEF DropTurn, CallNextTurn, HandlerOK, Returns
<1>29. ASSUME DropAbsorbed PROVE ControlInv'
  BY <1>29, SizeFacts DEF DropAbsorbed, TableOK, HandlerOK, Returns
<1>30. ASSUME Connected PROVE ControlInv'
  BY <1>30, SizeFacts DEF Connected, TableOK, HandlerOK, Returns
<1>31. ASSUME Advance PROVE ControlInv'
  BY <1>31 DEF Advance
<1>32. ASSUME Close PROVE ControlInv'
  BY <1>32 DEF Close, Finish, EnterPhase
<1>33. ASSUME NEW s \in Seats, Disconnect(s) PROVE ControlInv'
  <2>1. /\ pc = "idle" /\ connected' = connected \ {s} /\ who' = s /\ UNCHANGED <<phase, outcome>>
        /\ \/ pc' = "turn" /\ ret' = "drop" /\ offer # NoOffer
           \/ pc' = "drop"
    BY <1>33 DEF Disconnect, CallNextTurn, InOffer
  <2>2. offer # NoOffer => phase = "trade_response"
    BY <2>1 DEF TurnInv, OfferInv
  <2>3. QED BY <2>1, <2>2, SizeFacts
<1>34. ASSUME NEW s \in Seats, Reconnect(s) PROVE ControlInv'
  BY <1>34, SizeFacts DEF Reconnect, TableOK
<1>35. ASSUME NEW s \in Seats, GracePasses(s) PROVE ControlInv'
  BY <1>35 DEF GracePasses
<1>36. ASSUME DeadlinePasses PROVE ControlInv'
  BY <1>36 DEF DeadlinePasses
<1>37. ASSUME UNCHANGED vars PROVE ControlInv'
  BY <1>37 DEF vars
<1>38. QED
  BY <1>1, <1>2, <1>3, <1>4, <1>5, <1>6, <1>7, <1>8, <1>9, <1>10, <1>11, <1>12, <1>13, <1>14,
     <1>15, <1>16, <1>17, <1>18, <1>19, <1>20, <1>21, <1>22, <1>23, <1>24, <1>25, <1>26, <1>27,
     <1>28, <1>29, <1>30, <1>31, <1>32, <1>33, <1>34, <1>35, <1>36, <1>37, PerkFacts
  DEF Next, Apply, Step, NextTurn, AdvanceStep, SetConnectedStep

\* The steps that leave the round and the offer alone, although some of them
\* move cards.
LEMMA OfferKept ==
  ASSUME NEW s \in Seats
  PROVE  /\ PlayCard(s) \/ Replace(s) \/ Draw(s) => UNCHANGED <<round, offer>>
         /\ MarkReady(s) \/ Pass(s) \/ Revote(s) => UNCHANGED <<round, offer>>
         /\ Reconnect(s) \/ GracePasses(s) => UNCHANGED <<round, offer>>
         /\ \A t : Vote(s, t) => UNCHANGED <<round, offer>>
<1>1. PlayCard(s) \/ Replace(s) \/ Draw(s) => UNCHANGED <<round, offer>>
  BY OfferMoves DEF PlayCard, Replace, Draw
<1>2. UNCHANGED cardVars => UNCHANGED <<round, offer>>
  BY DEF cardVars
<1>3. QED
  BY <1>1, <1>2 DEF MarkReady, Pass, Revote, Reconnect, GracePasses, Vote

\* ... of the steps that continue a handler, or wait for the clock.
LEMMA OfferKeptByStep ==
  /\ NextTurn \/ ShuffleDeals \/ SetConnectedStep => UNCHANGED <<round, offer>>
  /\ AdvanceOver \/ LoopWaits \/ LoopFirstTurn \/ LoopNoRecipient => UNCHANGED <<round, offer>>
  /\ LoopTimeout \/ LoopOpensBallot \/ LoopRunoff \/ LoopResolves => UNCHANGED <<round, offer>>
  /\ Advance \/ DeadlinePasses \/ PerkFrame \/ UNCHANGED vars => UNCHANGED <<round, offer>>
<1>1. UNCHANGED cardVars => UNCHANGED <<round, offer>>
  BY DEF cardVars
<1>2. ASSUME TurnSkipsDisconnected \/ ShuffleDeals \/ DropTurn \/ LoopTimeout
      PROVE  UNCHANGED <<round, offer>>
  BY <1>1, <1>2, OfferMoves DEF TurnSkipsDisconnected, ShuffleDeals, DropTurn, LoopTimeout
<1>3. QED
  BY <1>1, <1>2 DEF NextTurn, TurnEnds, TurnSkipsNoRecipient, TurnStarts, SetConnectedStep, DropAbsorbed,
     Connected, AdvanceOver, LoopWaits, LoopFirstTurn, LoopNoRecipient, LoopOpensBallot, LoopRunoff,
     LoopResolves, Advance, DeadlinePasses, PerkFrame, vars

\* ... and those that settle a pending offer, if there is one.
LEMMA OfferSettled ==
  /\ \A s : Shuffle(s) => round' = round /\ offer' = NoOffer
  /\ \A s, a : ResolveOffer(s, a) => round' = round /\ offer' = NoOffer
  /\ LoopOfferTimeout => round' = round /\ offer' = NoOffer
  /\ \A result, team : Finish(result, team) => round' = round /\ offer' = NoOffer
BY OfferMoves DEF Shuffle, ResolveOffer, LoopOfferTimeout, Finish

\* Every step keeps the order of the round.
LEMMA OrderStep == TableOK /\ HandlerOK /\ ControlInv /\ TurnInv /\ [Next]_vars => OrderInv'
<1> SUFFICES ASSUME TableOK, HandlerOK, ControlInv, TurnInv, [Next]_vars PROVE OrderInv'
  OBVIOUS
<1> USE DEF TurnInv, OrderInv, Active, Running, phaseVars, seatVars, ballotVars, resultVars,
            perkVars, dealVars, ctlVars
<1>a. turn \in Nat /\ Len(order) \in Nat
  BY DEF TableOK
<1>1. ASSUME NEW s \in Seats, PlayCard(s) PROVE OrderInv'
  BY <1>1, <1>a DEF PlayCard, OnTurn, Acting, CallNextTurn
<1>2. ASSUME NEW s \in Seats, Replace(s) PROVE OrderInv'
  BY <1>2, <1>a DEF Replace, OnTurn, Acting, CallNextTurn
<1>3. ASSUME NEW s \in Seats, Draw(s) PROVE OrderInv'
  BY <1>3, <1>a DEF Draw, OnTurn, Acting
<1>4. ASSUME NEW s \in Seats, MarkReady(s) PROVE OrderInv'
  BY <1>4, <1>a DEF MarkReady, Acting
<1>5. ASSUME NEW s \in Seats, Pass(s) PROVE OrderInv'
  BY <1>5, <1>a DEF Pass, OnTurn, Acting, CallNextTurn
<1>6. ASSUME NEW s \in Seats, Shuffle(s) PROVE OrderInv'
  BY <1>6, <1>a DEF Shuffle, Acting
<1>7. ASSUME NEW s \in Seats, Revote(s) PROVE OrderInv'
  BY <1>7, <1>a DEF Revote, MayRevote, Acting, ResetBallot, EnterPhase
<1>8. ASSUME NEW s \in Seats, NEW t \in Seats, Offer(s, t) PROVE OrderInv'
  BY <1>8, <1>a DEF Offer, OnTurn, Acting, EnterPhase
<1>9. ASSUME NEW s \in Seats, NEW t \in Seats, Vote(s, t) PROVE OrderInv'
  BY <1>9, <1>a DEF Vote, Acting
<1>10. ASSUME NEW s \in Seats, NEW a \in BOOLEAN, ResolveOffer(s, a) PROVE OrderInv'
  BY <1>10, <1>a DEF ResolveOffer, Acting, CallNextTurn
<1>11. ASSUME PerkFrame PROVE OrderInv'
  BY <1>11, <1>a DEF PerkFrame
<1>12. ASSUME TurnEnds PROVE OrderInv'
  BY <1>12, <1>a DEF TurnEnds, EnterPhase
<1>13. ASSUME TurnSkipsDisconnected PROVE OrderInv'
  BY <1>13, <1>a DEF TurnSkipsDisconnected, EnterPhase
<1>14. ASSUME TurnSkipsNoRecipient PROVE OrderInv'
  BY <1>14, <1>a DEF TurnSkipsNoRecipient, EnterPhase
<1>15. ASSUME TurnStarts PROVE OrderInv'
  BY <1>15, <1>a DEF TurnStarts, EnterPhase
<1>16. ASSUME ShuffleDeals PROVE OrderInv'
  BY <1>16, <1>a DEF ShuffleDeals, CallNextTurn
<1>17. ASSUME AdvanceOver PROVE OrderInv'
  BY <1>17, <1>a DEF AdvanceOver, AdvanceReturns
<1>18. ASSUME AdvanceEntry PROVE OrderInv'
  BY <1>18, <1>a DEF AdvanceEntry, AdvanceReturns, Finish, EnterPhase
<1>19. ASSUME LoopWaits PROVE OrderInv'
  BY <1>19, <1>a DEF LoopWaits, Looping, AdvanceReturns
<1>20. ASSUME LoopFirstTurn PROVE OrderInv'
  BY <1>20, <1>a DEF LoopFirstTurn, Looping, LoopTurn, CallNextTurn
<1>21. ASSUME LoopNoRecipient PROVE OrderInv'
  BY <1>21, <1>a DEF LoopNoRecipient, Looping, LoopTurn, CallNextTurn
<1>22. ASSUME LoopTimeout PROVE OrderInv'
  BY <1>22, <1>a DEF LoopTimeout, Looping, LoopTurn, CallNextTurn
<1>23. ASSUME LoopOfferTimeout PROVE OrderInv'
  BY <1>23, <1>a DEF LoopOfferTimeout, Looping, LoopTurn, CallNextTurn
<1>24. ASSUME LoopOpensBallot PROVE OrderInv'
  BY <1>24, <1>a DEF LoopOpensBallot, Looping, LoopAgain, ResetBallot, EnterPhase
<1>25. ASSUME LoopRunoff PROVE OrderInv'
  BY <1>25, <1>a DEF LoopRunoff, Looping, LoopAgain, ResetBallot, EnterPhase
<1>26. ASSUME LoopResolves PROVE OrderInv'
  BY <1>26, <1>a DEF LoopResolves, Looping, LoopAgain, EnterPhase
<1>27. ASSUME LoopFinalizes PROVE OrderInv'
  BY <1>27, <1>a, OrderFacts DEF LoopFinalizes, Looping, LoopAgain, AdvanceReturns, Finish,
         ResetBallot, EnterPhase, ControlInv, TableOK, HandlerOK
<1>28. ASSUME DropTurn PROVE OrderInv'
  BY <1>28, <1>a DEF DropTurn, CallNextTurn
<1>29. ASSUME DropAbsorbed PROVE OrderInv'
  BY <1>29, <1>a DEF DropAbsorbed
<1>30. ASSUME Connected PROVE OrderInv'
  BY <1>30, <1>a DEF Connected
<1>31. ASSUME Advance PROVE OrderInv'
  BY <1>31, <1>a DEF Advance
<1>32. ASSUME Close PROVE OrderInv'
  BY <1>32, <1>a DEF Close, Finish, EnterPhase
<1>33. ASSUME NEW s \in Seats, Disconnect(s) PROVE OrderInv'
  BY <1>33, <1>a DEF Disconnect, CallNextTurn
<1>34. ASSUME NEW s \in Seats, Reconnect(s) PROVE OrderInv'
  BY <1>34, <1>a DEF Reconnect
<1>35. ASSUME NEW s \in Seats, GracePasses(s) PROVE OrderInv'
  BY <1>35, <1>a DEF GracePasses
<1>36. ASSUME DeadlinePasses PROVE OrderInv'
  BY <1>36, <1>a DEF DeadlinePasses
<1>37. ASSUME UNCHANGED vars PROVE OrderInv'
  BY <1>37, <1>a DEF vars
<1>38. QED
  BY <1>1, <1>2, <1>3, <1>4, <1>5, <1>6, <1>7, <1>8, <1>9, <1>10, <1>11, <1>12, <1>13, <1>14,
     <1>15, <1>16, <1>17, <1>18, <1>19, <1>20, <1>21, <1>22, <1>23, <1>24, <1>25, <1>26, <1>27,
     <1>28, <1>29, <1>30, <1>31, <1>32, <1>33, <1>34, <1>35, <1>36, <1>37, PerkFacts
  DEF Next, Apply, Step, NextTurn, AdvanceStep, SetConnectedStep

\* Whose turn it is, and who may be in an offer: every step keeps OfferInv.
LEMMA OfferStep == TableOK /\ HandlerOK /\ ControlInv /\ TurnInv /\ [Next]_vars => OfferInv'
<1> SUFFICES ASSUME TableOK, HandlerOK, ControlInv, TurnInv, [Next]_vars PROVE OfferInv'
  OBVIOUS
<1> USE DEF TurnInv, OfferInv, Active, phaseVars, seatVars, ballotVars, resultVars, perkVars,
            dealVars, ctlVars
<1>a. turn \in Nat /\ Len(order) \in Nat
  BY DEF TableOK
<1>b. UNCHANGED <<turn, order>> => Current' = Current
  BY DEF Current
<1>c. ASSUME NEW result, NEW team, Finish(result, team), pc' \notin {"turn", "shuffle"}
      PROVE  OfferInv'
  <2>1. offer' = NoOffer /\ phase' = "verdict"
    BY <1>c, OfferSettled DEF Finish, EnterPhase
  <2>2. QED BY <2>1, <1>c
<1>d. pc = "loop" /\ phase \in {"knowoff", "runoff", "result"} => offer = NoOffer
  OBVIOUS
<1>1. ASSUME NEW s \in Seats, PlayCard(s) PROVE OfferInv'
  BY <1>1, <1>a, <1>b, OfferKept DEF PlayCard, OnTurn, Acting, CallNextTurn
<1>2. ASSUME NEW s \in Seats, Replace(s) PROVE OfferInv'
  BY <1>2, <1>a, <1>b, OfferKept DEF Replace, OnTurn, Acting, CallNextTurn
<1>3. ASSUME NEW s \in Seats, Draw(s) PROVE OfferInv'
  BY <1>3, <1>a, <1>b, OfferKept DEF Draw, OnTurn, Acting
<1>4. ASSUME NEW s \in Seats, MarkReady(s) PROVE OfferInv'
  BY <1>4, <1>a, <1>b, OfferKept DEF MarkReady, Acting
<1>5. ASSUME NEW s \in Seats, Pass(s) PROVE OfferInv'
  BY <1>5, <1>a, <1>b, OfferKept DEF Pass, OnTurn, Acting, CallNextTurn
<1>6. ASSUME NEW s \in Seats, Shuffle(s) PROVE OfferInv'
  BY <1>6, <1>a, <1>b, OfferSettled DEF Shuffle, Acting
<1>7. ASSUME NEW s \in Seats, Revote(s) PROVE OfferInv'
  BY <1>7, <1>a, <1>b, OfferKept DEF Revote, MayRevote, Acting, ResetBallot, EnterPhase,
         VotingPhases
<1>8. ASSUME NEW s \in Seats, NEW t \in Seats, Offer(s, t) PROVE OfferInv'
  BY <1>8, <1>a, <1>b, OfferMoves, SizeFacts DEF Offer, OnTurn, Acting, EnterPhase, NoOffer
<1>9. ASSUME NEW s \in Seats, NEW t \in Seats, Vote(s, t) PROVE OfferInv'
  BY <1>9, <1>a, <1>b, OfferKept DEF Vote, Acting
<1>10. ASSUME NEW s \in Seats, NEW a \in BOOLEAN, ResolveOffer(s, a) PROVE OfferInv'
  BY <1>10, <1>a, <1>b, OfferSettled DEF ResolveOffer, Acting, CallNextTurn
<1>11. ASSUME PerkFrame PROVE OfferInv'
  BY <1>11, <1>a, <1>b, OfferKeptByStep DEF PerkFrame
<1>12. ASSUME TurnEnds PROVE OfferInv'
  BY <1>12, <1>a, <1>b, OfferKeptByStep DEF TurnEnds, EnterPhase, ControlInv, NextTurn
<1>13. ASSUME TurnSkipsDisconnected PROVE OfferInv'
  BY <1>13, <1>a, <1>b, OfferKeptByStep DEF TurnSkipsDisconnected, EnterPhase, NextTurn
<1>14. ASSUME TurnSkipsNoRecipient PROVE OfferInv'
  BY <1>14, <1>a, <1>b, OfferKeptByStep DEF TurnSkipsNoRecipient, EnterPhase, NextTurn
<1>15. ASSUME TurnStarts PROVE OfferInv'
  BY <1>15, <1>a, <1>b, OfferKeptByStep DEF TurnStarts, EnterPhase, NextTurn, OrderInv, Current,
         HandlerOK, Returns
<1>16. ASSUME ShuffleDeals PROVE OfferInv'
  BY <1>16, <1>a, <1>b, OfferKeptByStep DEF ShuffleDeals, CallNextTurn
<1>17. ASSUME AdvanceOver PROVE OfferInv'
  BY <1>17, <1>a, <1>b, OfferKeptByStep DEF AdvanceOver, AdvanceReturns
<1>18. ASSUME AdvanceEntry PROVE OfferInv'
  <2>1. AdvanceReturns => pc' \notin {"turn", "shuffle"}
    BY DEF AdvanceReturns
  <2>2. CASE \E result, team : Finish(result, team) /\ AdvanceReturns
    BY <2>1, <2>2, <1>c
  <2>3. CASE pc' = "loop" /\ UNCHANGED <<cardVars, phaseVars>>
    <3>1. UNCHANGED <<round, offer>>
      BY <2>3 DEF cardVars
    <3>2. pc = "entry" /\ UNCHANGED <<order, connected, eliminated>>
      BY <1>18 DEF AdvanceEntry
    <3>3. QED BY <2>3, <3>1, <3>2, <1>b
  <2>4. QED BY <1>18, <2>2, <2>3 DEF AdvanceEntry
<1>19. ASSUME LoopWaits PROVE OfferInv'
  BY <1>19, <1>a, <1>b, OfferKeptByStep DEF LoopWaits, Looping, AdvanceReturns
<1>20. ASSUME LoopFirstTurn PROVE OfferInv'
  BY <1>20, <1>a, <1>b, OfferKeptByStep DEF LoopFirstTurn, Looping, LoopTurn, CallNextTurn
<1>21. ASSUME LoopNoRecipient PROVE OfferInv'
  BY <1>21, <1>a, <1>b, OfferKeptByStep DEF LoopNoRecipient, Looping, LoopTurn, CallNextTurn
<1>22. ASSUME LoopTimeout PROVE OfferInv'
  BY <1>22, <1>a, <1>b, OfferKeptByStep DEF LoopTimeout, Looping, LoopTurn, CallNextTurn
<1>23. ASSUME LoopOfferTimeout PROVE OfferInv'
  BY <1>23, <1>a, <1>b, OfferSettled DEF LoopOfferTimeout, Looping, LoopTurn, CallNextTurn
<1>24. ASSUME LoopOpensBallot PROVE OfferInv'
  BY <1>24, <1>a, <1>b, OfferKeptByStep DEF LoopOpensBallot, Looping, LoopAgain, ResetBallot,
         EnterPhase
<1>25. ASSUME LoopRunoff PROVE OfferInv'
  BY <1>25, <1>a, <1>b, OfferKeptByStep DEF LoopRunoff, Looping, LoopAgain, ResetBallot, EnterPhase
<1>26. ASSUME LoopResolves PROVE OfferInv'
  BY <1>26, <1>a, <1>b, OfferKeptByStep DEF LoopResolves, Looping, LoopAgain, EnterPhase,
         VotingPhases
<1>27. ASSUME LoopFinalizes PROVE OfferInv'
  <2>1. AdvanceReturns => pc' \notin {"turn", "shuffle"}
    BY DEF AdvanceReturns
  <2>2. CASE \E result, team : Finish(result, team) /\ AdvanceReturns
    BY <2>1, <2>2, <1>c
  <2>3. CASE (\E active : BeginRound(active)) /\ EnterPhase("round_start") /\ LoopAgain
    <3>1. offer' = offer
      BY <2>3, OfferMoves
    <3>2. phase' = "round_start" /\ pc' = "loop"
      BY <2>3 DEF EnterPhase, LoopAgain
    <3>3. offer = NoOffer
      BY <1>27, <1>d DEF LoopFinalizes, Looping
    <3>4. QED BY <3>1, <3>2, <3>3
  <2>4. QED BY <1>27, <2>2, <2>3 DEF LoopFinalizes
<1>28. ASSUME DropTurn PROVE OfferInv'
  BY <1>28, <1>a, <1>b, OfferKeptByStep DEF DropTurn, CallNextTurn, SetConnectedStep
<1>29. ASSUME DropAbsorbed PROVE OfferInv'
  BY <1>29, <1>a, <1>b, OfferKeptByStep DEF DropAbsorbed, SetConnectedStep
<1>30. ASSUME Connected PROVE OfferInv'
  BY <1>30, <1>a, <1>b, OfferKeptByStep DEF Connected, SetConnectedStep
<1>31. ASSUME Advance PROVE OfferInv'
  BY <1>31, <1>a, <1>b, OfferKeptByStep DEF Advance
<1>32. ASSUME Close PROVE OfferInv'
  BY <1>32, <1>c DEF Close
<1>33. ASSUME NEW s \in Seats, Disconnect(s) PROVE OfferInv'
  <2>1. /\ pc = "idle" /\ connected' = connected \ {s} /\ who' = s
        /\ UNCHANGED <<phase, turn, order, eliminated>>
    BY <1>33 DEF Disconnect
  <2>2. CASE InOffer(s)
    <3>1. offer' = NoOffer /\ pc' = "turn"
      BY <1>33, <2>2, OfferMoves DEF Disconnect, CallNextTurn
    <3>2. QED BY <3>1
  <2>3. CASE ~InOffer(s)
    <3>1. UNCHANGED <<round, offer>> /\ pc' = "drop"
      BY <1>33, <2>3 DEF Disconnect, cardVars
    <3>2. offer # NoOffer => offer.proposer # s /\ offer.recipient # s
      BY <2>3 DEF InOffer
    <3>3. QED BY <2>1, <3>1, <3>2, <1>a, <1>b
  <2>4. QED BY <2>2, <2>3
<1>34. ASSUME NEW s \in Seats, Reconnect(s) PROVE OfferInv'
  BY <1>34, <1>a, <1>b, OfferKept DEF Reconnect
<1>35. ASSUME NEW s \in Seats, GracePasses(s) PROVE OfferInv'
  BY <1>35, <1>a, <1>b, OfferKept DEF GracePasses
<1>36. ASSUME DeadlinePasses PROVE OfferInv'
  BY <1>36, <1>a, <1>b, OfferKeptByStep DEF DeadlinePasses
<1>37. ASSUME UNCHANGED vars PROVE OfferInv'
  BY <1>37, <1>a, <1>b, OfferKeptByStep DEF vars
<1>38. QED
  BY <1>1, <1>2, <1>3, <1>4, <1>5, <1>6, <1>7, <1>8, <1>9, <1>10, <1>11, <1>12, <1>13, <1>14,
     <1>15, <1>16, <1>17, <1>18, <1>19, <1>20, <1>21, <1>22, <1>23, <1>24, <1>25, <1>26, <1>27,
     <1>28, <1>29, <1>30, <1>31, <1>32, <1>33, <1>34, <1>35, <1>36, <1>37, PerkFacts
  DEF Next, Apply, Step, NextTurn, AdvanceStep, SetConnectedStep

\* The engine calls no operation on cards outside their discipline: between
\* offers any of them, with copies that lie where they are played from.
LEMMA DisciplinedMoves ==
  ASSUME CardsInv
  PROVE  /\ \A a \in BOOLEAN : SettleOffer(a) => CardsNext
         /\ CancelOffer => [CardsNext]_cardVars
         /\ offer = NoOffer => \A s \in Seats :
              /\ LoseCard(s) => [CardsNext]_cardVars
              /\ \A c \in Copy : PlayToList(s, c) => CardsNext
              /\ \A c \in Copy, slot \in 0 .. 2 : ReplaceSlot(s, c, slot) => CardsNext
              /\ \A n \in 1 .. Len(reserve[s]) : DrawCards(s, n) => CardsNext
              /\ \A t \in Seats, c, d \in Copy : MakeOffer(s, t, c, d) => CardsNext
         /\ offer = NoOffer => \A active \in SUBSET Seats : ShufflePool(active) => CardsNext
         /\ offer = NoOffer /\ round < MaxRounds =>
              \A active \in (SUBSET Seats) \ {{}} : BeginRound(active) => CardsNext
<1>1. \A a \in BOOLEAN : SettleOffer(a) => CardsNext
  BY DEF CardsNext
<1>2. CancelOffer => [CardsNext]_cardVars
  BY <1>1 DEF CancelOffer
<1>3. \A s \in Seats, c \in Copy : Owned(s, c) => c \in hand[s]
  BY DEF Owned, CardsInv, Conservation, NoOrphans
<1>4. ASSUME NEW s \in Seats, NEW c \in Copy, zone[c] = "board" PROVE c \in Range(board)
  BY <1>4 DEF CardsInv, Conservation, NoOrphans
<1>5. ASSUME offer = NoOffer, NEW s \in Seats
      PROVE  /\ LoseCard(s) => [CardsNext]_cardVars
             /\ \A c \in Copy : PlayToList(s, c) => CardsNext
             /\ \A c \in Copy, slot \in 0 .. 2 : ReplaceSlot(s, c, slot) => CardsNext
             /\ \A n \in 1 .. Len(reserve[s]) : DrawCards(s, n) => CardsNext
             /\ \A t \in Seats, c, d \in Copy : MakeOffer(s, t, c, d) => CardsNext
  <2>1. LoseCard(s) => [CardsNext]_cardVars
    BY <1>5 DEF LoseCard, CardsNext
  <2>2. ASSUME NEW c \in Copy, PlayToList(s, c) PROVE CardsNext
    <3>1. c \in hand[s]
      BY <2>2, <1>3 DEF PlayToList
    <3>2. QED BY <1>5, <2>2, <3>1 DEF CardsNext
  <2>3. ASSUME NEW c \in Copy, NEW slot \in 0 .. 2, ReplaceSlot(s, c, slot) PROVE CardsNext
    <3>1. c \in hand[s]
      BY <2>3, <1>3 DEF ReplaceSlot
    <3>2. QED BY <1>5, <2>3, <3>1 DEF CardsNext
  <2>4. \A n \in 1 .. Len(reserve[s]) : DrawCards(s, n) => CardsNext
    BY <1>5 DEF CardsNext
  <2>5. ASSUME NEW t \in Seats, NEW c \in Copy, NEW d \in Copy, MakeOffer(s, t, c, d) PROVE CardsNext
    <3>1. c \in hand[s] /\ d \in Range(board)
      BY <2>5, <1>3, <1>4 DEF MakeOffer
    <3>2. QED BY <1>5, <2>5, <3>1 DEF CardsNext
  <2>6. QED BY <2>1, <2>2, <2>3, <2>4, <2>5
<1>6. offer = NoOffer => \A active \in SUBSET Seats : ShufflePool(active) => CardsNext
  BY DEF CardsNext
<1>7. offer = NoOffer /\ round < MaxRounds =>
        \A active \in (SUBSET Seats) \ {{}} : BeginRound(active) => CardsNext
  BY DEF CardsNext
<1>8. QED BY <1>1, <1>2, <1>5, <1>6, <1>7

\* finalizeVote begins a round only while one is left and somebody is in it.
LEMMA RoundGoesOn ==
  ASSUME TableOK, HandlerOK, CardsTypeOK, RoundInv, Running,
         NEW out \in SUBSET Seats, VoteWinner(out, VotesLeft) = "none"
  PROVE  round < MaxRounds /\ Seats \ out # {}
<1> DEFINE uncaught == Cardinality(donowers \ out)
<1>1. uncaught \in Nat /\ (uncaught = 0 <=> donowers \ out = {})
  <2>1. donowers \ out \in SUBSET Seats
    BY DEF TableOK
  <2>2. QED BY <2>1, OneElement
<1>2. VotesLeft = MaxRounds - round /\ round \in Nat /\ MaxRounds \in Nat
  BY SizeFacts DEF VotesLeft, RoundInv, CardsTypeOK
<1>3. uncaught # 0 /\ ~(uncaught > 0 /\ VotesLeft < uncaught)
  BY DEF VoteWinner
<1> HIDE DEF uncaught
<1>4. uncaught > 0 /\ VotesLeft > 0
  BY <1>1, <1>2, <1>3
<1>5. QED BY <1>1, <1>2, <1>4 DEF TableOK

\* A turn that is played, or lost, is the turn of a seat.
LEMMA TurnSeats ==
  ASSUME TableOK, OrderInv
  PROVE  /\ turn > 0 => Current \in Seats /\ Current = order[turn]
         /\ turn > 0 /\ Running => Current \in Active
         /\ turn < Len(order) => order[turn + 1] \in Seats
         /\ turn < Len(order) /\ Running => order[turn + 1] \in Active
<1>1. turn \in Nat /\ order \in Seq(Seats) /\ Len(order) \in Nat
  BY DEF TableOK
<1>2. QED BY <1>1 DEF OrderInv, Current

\* Every step of the engine is a step of the card discipline, or leaves the
\* cards alone.
LEMMA StepMovesCards == CardsInv /\ TableOK /\ HandlerOK /\ ControlInv /\ TurnInv /\ RoundInv /\ [Next]_vars => [CardsNext]_cardVars
<1> SUFFICES ASSUME CardsInv, TableOK, HandlerOK, ControlInv, TurnInv, RoundInv, [Next]_vars PROVE [CardsNext]_cardVars
  OBVIOUS
<1>1. ASSUME NEW s \in Seats, PlayCard(s) PROVE [CardsNext]_cardVars
  BY <1>1, DisciplinedMoves DEF PlayCard, OnTurn, Acting, CallNextTurn, TurnInv, OfferInv
<1>2. ASSUME NEW s \in Seats, Replace(s) PROVE [CardsNext]_cardVars
  BY <1>2, DisciplinedMoves DEF Replace, OnTurn, Acting, CallNextTurn, TurnInv, OfferInv
<1>3. ASSUME NEW s \in Seats, Draw(s) PROVE [CardsNext]_cardVars
  BY <1>3, DisciplinedMoves DEF Draw, OnTurn, Acting, TurnInv, OfferInv
<1>4. ASSUME NEW s \in Seats, MarkReady(s) PROVE [CardsNext]_cardVars
  BY <1>4 DEF MarkReady, Acting
<1>5. ASSUME NEW s \in Seats, Pass(s) PROVE [CardsNext]_cardVars
  BY <1>5 DEF Pass, OnTurn, Acting, CallNextTurn
<1>6. ASSUME NEW s \in Seats, Shuffle(s) PROVE [CardsNext]_cardVars
  BY <1>6, DisciplinedMoves DEF Shuffle, Acting
<1>7. ASSUME NEW s \in Seats, Revote(s) PROVE [CardsNext]_cardVars
  BY <1>7 DEF Revote, MayRevote, Acting, ResetBallot, EnterPhase
<1>8. ASSUME NEW s \in Seats, NEW t \in Seats, Offer(s, t) PROVE [CardsNext]_cardVars
  BY <1>8, DisciplinedMoves DEF Offer, OnTurn, Acting, EnterPhase, TurnInv, OfferInv
<1>9. ASSUME NEW s \in Seats, NEW t \in Seats, Vote(s, t) PROVE [CardsNext]_cardVars
  BY <1>9 DEF Vote, Acting
<1>10. ASSUME NEW s \in Seats, NEW a \in BOOLEAN, ResolveOffer(s, a) PROVE [CardsNext]_cardVars
  BY <1>10, DisciplinedMoves DEF ResolveOffer, Acting, CallNextTurn
<1>11. ASSUME PerkFrame PROVE [CardsNext]_cardVars
  BY <1>11 DEF PerkFrame
<1>12. ASSUME TurnEnds PROVE [CardsNext]_cardVars
  BY <1>12 DEF TurnEnds, EnterPhase
<1>13. ASSUME TurnSkipsDisconnected PROVE [CardsNext]_cardVars
  BY <1>13, DisciplinedMoves, TurnSeats DEF TurnSkipsDisconnected, EnterPhase, TurnInv, OfferInv
<1>14. ASSUME TurnSkipsNoRecipient PROVE [CardsNext]_cardVars
  BY <1>14 DEF TurnSkipsNoRecipient, EnterPhase
<1>15. ASSUME TurnStarts PROVE [CardsNext]_cardVars
  BY <1>15 DEF TurnStarts, EnterPhase
<1>16. ASSUME ShuffleDeals PROVE [CardsNext]_cardVars
  BY <1>16, DisciplinedMoves DEF ShuffleDeals, CallNextTurn, TurnInv, OfferInv, Active
<1>17. ASSUME AdvanceOver PROVE [CardsNext]_cardVars
  BY <1>17 DEF AdvanceOver, AdvanceReturns
<1>18. ASSUME AdvanceEntry PROVE [CardsNext]_cardVars
  BY <1>18, DisciplinedMoves DEF AdvanceEntry, AdvanceReturns, Finish, EnterPhase
<1>19. ASSUME LoopWaits PROVE [CardsNext]_cardVars
  BY <1>19 DEF LoopWaits, Looping, AdvanceReturns
<1>20. ASSUME LoopFirstTurn PROVE [CardsNext]_cardVars
  BY <1>20 DEF LoopFirstTurn, Looping, LoopTurn, CallNextTurn
<1>21. ASSUME LoopNoRecipient PROVE [CardsNext]_cardVars
  BY <1>21 DEF LoopNoRecipient, Looping, LoopTurn, CallNextTurn
<1>22. ASSUME LoopTimeout PROVE [CardsNext]_cardVars
  BY <1>22, DisciplinedMoves, TurnSeats DEF LoopTimeout, Looping, LoopTurn, CallNextTurn,
         TurnInv, OfferInv
<1>23. ASSUME LoopOfferTimeout PROVE [CardsNext]_cardVars
  BY <1>23, DisciplinedMoves DEF LoopOfferTimeout, Looping, LoopTurn, CallNextTurn
<1>24. ASSUME LoopOpensBallot PROVE [CardsNext]_cardVars
  BY <1>24 DEF LoopOpensBallot, Looping, LoopAgain, ResetBallot, EnterPhase
<1>25. ASSUME LoopRunoff PROVE [CardsNext]_cardVars
  BY <1>25 DEF LoopRunoff, Looping, LoopAgain, ResetBallot, EnterPhase
<1>26. ASSUME LoopResolves PROVE [CardsNext]_cardVars
  BY <1>26 DEF LoopResolves, Looping, LoopAgain, EnterPhase
<1>27. ASSUME LoopFinalizes PROVE [CardsNext]_cardVars
  <2> DEFINE out == eliminated \cup (IF ballotResult.seat \in Seats THEN {ballotResult.seat} ELSE {})
  <2>1. CASE \E result, team : Finish(result, team)
    BY <2>1, DisciplinedMoves DEF Finish
  <2>2. CASE VoteWinner(out, VotesLeft) = "none" /\ BeginRound(Seats \ out)
    <3>1. out \in SUBSET Seats
      BY DEF HandlerOK
    <3>2. offer = NoOffer
      BY <1>27 DEF LoopFinalizes, Looping, TurnInv, OfferInv
    <3>3. round < MaxRounds /\ Seats \ out # {}
      BY <1>27, <2>2, <3>1, RoundGoesOn DEF LoopFinalizes, Looping, ControlInv, CardsInv
    <3> HIDE DEF out
    <3>4. QED BY <2>2, <3>2, <3>3, DisciplinedMoves
  <2>3. QED BY <1>27, <2>1, <2>2 DEF LoopFinalizes
<1>28. ASSUME DropTurn PROVE [CardsNext]_cardVars
  BY <1>28, DisciplinedMoves, TurnSeats DEF DropTurn, CallNextTurn, TurnInv, OfferInv
<1>29. ASSUME DropAbsorbed PROVE [CardsNext]_cardVars
  BY <1>29 DEF DropAbsorbed
<1>30. ASSUME Connected PROVE [CardsNext]_cardVars
  BY <1>30 DEF Connected
<1>31. ASSUME Advance PROVE [CardsNext]_cardVars
  BY <1>31 DEF Advance
<1>32. ASSUME Close PROVE [CardsNext]_cardVars
  BY <1>32, DisciplinedMoves DEF Close, Finish, EnterPhase
<1>33. ASSUME NEW s \in Seats, Disconnect(s) PROVE [CardsNext]_cardVars
  BY <1>33, DisciplinedMoves DEF Disconnect, CallNextTurn
<1>34. ASSUME NEW s \in Seats, Reconnect(s) PROVE [CardsNext]_cardVars
  BY <1>34 DEF Reconnect
<1>35. ASSUME NEW s \in Seats, GracePasses(s) PROVE [CardsNext]_cardVars
  BY <1>35 DEF GracePasses
<1>36. ASSUME DeadlinePasses PROVE [CardsNext]_cardVars
  BY <1>36 DEF DeadlinePasses
<1>37. ASSUME UNCHANGED vars PROVE [CardsNext]_cardVars
  BY <1>37 DEF vars
<1>38. QED
  BY <1>1, <1>2, <1>3, <1>4, <1>5, <1>6, <1>7, <1>8, <1>9, <1>10, <1>11, <1>12, <1>13, <1>14,
     <1>15, <1>16, <1>17, <1>18, <1>19, <1>20, <1>21, <1>22, <1>23, <1>24, <1>25, <1>26, <1>27,
     <1>28, <1>29, <1>30, <1>31, <1>32, <1>33, <1>34, <1>35, <1>36, <1>37, PerkFacts
  DEF Next, Apply, Step, NextTurn, AdvanceStep, SetConnectedStep

\* Eliminating one more seat adds one to the count at most.
LEMMA OneMoreOut ==
  ASSUME NEW S \in SUBSET Seats, NEW T \in SUBSET Seats, NEW x, T \subseteq S \cup {x}
  PROVE  Cardinality(T) <= Cardinality(S) + 1
<1>1. IsFiniteSet(S) /\ Cardinality(S) \in Nat /\ IsFiniteSet(S \cup {x}) /\ Cardinality(T) \in Nat
  BY OneElement, FS_AddElement
<1>2. Cardinality(S \cup {x}) <= Cardinality(S) + 1
  BY <1>1, FS_AddElement
<1>3. Cardinality(T) <= Cardinality(S \cup {x})
  BY <1>1, FS_Subset
<1>4. Cardinality(S \cup {x}) \in Nat
  BY <1>1, FS_CardinalityType
<1>5. QED BY <1>1, <1>2, <1>3, <1>4

\* Rounds, votes left and eliminations keep step, and a round's awards are
\* issued once: every step keeps RoundInv.
LEMMA RoundStep == TableOK /\ HandlerOK /\ ControlInv /\ CardsTypeOK /\ RoundInv /\ [Next]_vars => RoundInv'
<1> SUFFICES ASSUME TableOK, HandlerOK, ControlInv, CardsTypeOK, RoundInv, [Next]_vars PROVE RoundInv'
  OBVIOUS
<1> USE DEF RoundInv, Running, phaseVars, seatVars, ballotVars, resultVars, perkVars, dealVars,
            ctlVars
<1>a. round \in Nat /\ round >= 1 /\ MaxRounds \in Nat
  BY SizeFacts DEF CardsTypeOK
<1>1. ASSUME NEW s \in Seats, PlayCard(s) PROVE RoundInv'
  BY <1>1, <1>a, OfferKept DEF PlayCard, OnTurn, Acting, CallNextTurn
<1>2. ASSUME NEW s \in Seats, Replace(s) PROVE RoundInv'
  BY <1>2, <1>a, OfferKept DEF Replace, OnTurn, Acting, CallNextTurn
<1>3. ASSUME NEW s \in Seats, Draw(s) PROVE RoundInv'
  BY <1>3, <1>a, OfferKept DEF Draw, OnTurn, Acting
<1>4. ASSUME NEW s \in Seats, MarkReady(s) PROVE RoundInv'
  BY <1>4, <1>a, OfferKept DEF MarkReady, Acting
<1>5. ASSUME NEW s \in Seats, Pass(s) PROVE RoundInv'
  BY <1>5, <1>a, OfferKept DEF Pass, OnTurn, Acting, CallNextTurn
<1>6. ASSUME NEW s \in Seats, Shuffle(s) PROVE RoundInv'
  BY <1>6, <1>a, OfferSettled DEF Shuffle, Acting
<1>7. ASSUME NEW s \in Seats, Revote(s) PROVE RoundInv'
  BY <1>7, <1>a, OfferKept DEF Revote, MayRevote, Acting, ResetBallot, EnterPhase, VotingPhases
<1>8. ASSUME NEW s \in Seats, NEW t \in Seats, Offer(s, t) PROVE RoundInv'
  BY <1>8, <1>a, OfferMoves DEF Offer, OnTurn, Acting, EnterPhase
<1>9. ASSUME NEW s \in Seats, NEW t \in Seats, Vote(s, t) PROVE RoundInv'
  BY <1>9, <1>a, OfferKept DEF Vote, Acting
<1>10. ASSUME NEW s \in Seats, NEW a \in BOOLEAN, ResolveOffer(s, a) PROVE RoundInv'
  BY <1>10, <1>a, OfferSettled DEF ResolveOffer, Acting, CallNextTurn
<1>11. ASSUME PerkFrame PROVE RoundInv'
  BY <1>11, <1>a, OfferKeptByStep DEF PerkFrame
<1>12. ASSUME TurnEnds PROVE RoundInv'
  BY <1>12, <1>a, OfferKeptByStep DEF TurnEnds, EnterPhase, NextTurn, ControlInv
<1>13. ASSUME TurnSkipsDisconnected PROVE RoundInv'
  BY <1>13, <1>a, OfferKeptByStep DEF TurnSkipsDisconnected, EnterPhase, NextTurn, ControlInv
<1>14. ASSUME TurnSkipsNoRecipient PROVE RoundInv'
  BY <1>14, <1>a, OfferKeptByStep DEF TurnSkipsNoRecipient, EnterPhase, NextTurn, ControlInv
<1>15. ASSUME TurnStarts PROVE RoundInv'
  BY <1>15, <1>a, OfferKeptByStep DEF TurnStarts, EnterPhase, NextTurn, ControlInv
<1>16. ASSUME ShuffleDeals PROVE RoundInv'
  BY <1>16, <1>a, OfferKeptByStep DEF ShuffleDeals, CallNextTurn
<1>17. ASSUME AdvanceOver PROVE RoundInv'
  BY <1>17, <1>a, OfferKeptByStep DEF AdvanceOver, AdvanceReturns
<1>18. ASSUME AdvanceEntry PROVE RoundInv'
  <2>1. /\ UNCHANGED <<eliminated, remainingVotes, awarded>>
        /\ \/ \E result, team : Finish(result, team)
           \/ UNCHANGED <<cardVars, phaseVars, outcome, winner>>
    BY <1>18 DEF AdvanceEntry
  <2>2. CASE \E result, team : Finish(result, team)
    <3>1. round' = round /\ phase' = "verdict"
      BY <2>2, OfferSettled DEF Finish, EnterPhase
    <3>2. Running
      BY <1>18 DEF AdvanceEntry
    <3>3. QED BY <2>1, <3>1, <3>2
  <2>3. CASE UNCHANGED <<cardVars, phaseVars, outcome, winner>>
    <3>1. round' = round
      BY <2>3 DEF cardVars
    <3>2. QED BY <2>1, <2>3, <3>1
  <2>4. QED BY <2>1, <2>2, <2>3
<1>19. ASSUME LoopWaits PROVE RoundInv'
  BY <1>19, <1>a, OfferKeptByStep DEF LoopWaits, Looping, AdvanceReturns
<1>20. ASSUME LoopFirstTurn PROVE RoundInv'
  BY <1>20, <1>a, OfferKeptByStep DEF LoopFirstTurn, Looping, LoopTurn, CallNextTurn
<1>21. ASSUME LoopNoRecipient PROVE RoundInv'
  BY <1>21, <1>a, OfferKeptByStep DEF LoopNoRecipient, Looping, LoopTurn, CallNextTurn
<1>22. ASSUME LoopTimeout PROVE RoundInv'
  BY <1>22, <1>a, OfferKeptByStep DEF LoopTimeout, Looping, LoopTurn, CallNextTurn
<1>23. ASSUME LoopOfferTimeout PROVE RoundInv'
  BY <1>23, <1>a, OfferSettled DEF LoopOfferTimeout, Looping, LoopTurn, CallNextTurn
<1>24. ASSUME LoopOpensBallot PROVE RoundInv'
  BY <1>24, <1>a, OfferKeptByStep DEF LoopOpensBallot, Looping, LoopAgain, ResetBallot,
         EnterPhase, VotingPhases
<1>25. ASSUME LoopRunoff PROVE RoundInv'
  BY <1>25, <1>a, OfferKeptByStep DEF LoopRunoff, Looping, LoopAgain, ResetBallot, EnterPhase,
         VotingPhases
<1>26. ASSUME LoopResolves PROVE RoundInv'
  BY <1>26, <1>a, OfferKeptByStep DEF LoopResolves, Looping, LoopAgain, EnterPhase, VotingPhases
<1>27. ASSUME LoopFinalizes PROVE RoundInv'
  <2> DEFINE out == eliminated \cup (IF ballotResult.seat \in Seats THEN {ballotResult.seat} ELSE {})
  <2>0. /\ Running /\ phase = "result" /\ eliminated' = out /\ remainingVotes' = VotesLeft
        /\ awarded' = awarded
    BY <1>27 DEF LoopFinalizes, Looping, ControlInv
  <2>1. CASE \E team : Finish("completed", team)
    <3>1. round' = round /\ phase' = "verdict" /\ outcome' = "completed"
      BY <2>1, OfferSettled DEF Finish, EnterPhase
    <3>2. QED BY <2>0, <3>1
  <2>2. CASE BeginRound(Seats \ out) /\ EnterPhase("round_start") /\ UNCHANGED outcome
    <3>1. round' = round + 1 /\ phase' = "round_start"
      BY <2>2, OfferMoves DEF EnterPhase
    <3>2. VotesLeft = MaxRounds - (round + 1) + 1
      BY <2>0, <1>a DEF VotesLeft
    <3>3. Cardinality(out) <= Cardinality(eliminated) + 1 /\ Cardinality(eliminated) \in Nat
             /\ Cardinality(out) \in Nat
      <4>1. /\ eliminated \in SUBSET Seats /\ out \in SUBSET Seats
            /\ out \subseteq eliminated \cup {ballotResult.seat}
        BY DEF HandlerOK
      <4> HIDE DEF out
      <4>2. QED BY <4>1, OneMoreOut, OneElement
    <3> HIDE DEF out
    <3>4. Cardinality(out) < round + 1
      BY <2>0, <3>3, <1>a
    <3>5. round + 1 \notin awarded /\ awarded \subseteq 1 .. round + 1
      BY <1>a
    <3>6. QED BY <2>0, <3>1, <3>2, <3>4, <3>5
  <2>3. QED BY <1>27, <2>1, <2>2 DEF LoopFinalizes
<1>28. ASSUME DropTurn PROVE RoundInv'
  BY <1>28, <1>a, OfferKeptByStep DEF DropTurn, CallNextTurn, SetConnectedStep
<1>29. ASSUME DropAbsorbed PROVE RoundInv'
  BY <1>29, <1>a, OfferKeptByStep DEF DropAbsorbed, SetConnectedStep
<1>30. ASSUME Connected PROVE RoundInv'
  BY <1>30, <1>a, OfferKeptByStep DEF Connected, SetConnectedStep
<1>31. ASSUME Advance PROVE RoundInv'
  BY <1>31, <1>a, OfferKeptByStep DEF Advance
<1>32. ASSUME Close PROVE RoundInv'
  BY <1>32, <1>a, OfferSettled DEF Close, Finish, EnterPhase
<1>33. ASSUME NEW s \in Seats, Disconnect(s) PROVE RoundInv'
  <2>1. round' = round
    BY <1>33, OfferMoves DEF Disconnect, cardVars
  <2>2. QED BY <1>33, <2>1 DEF Disconnect
<1>34. ASSUME NEW s \in Seats, Reconnect(s) PROVE RoundInv'
  BY <1>34, <1>a, OfferKept DEF Reconnect
<1>35. ASSUME NEW s \in Seats, GracePasses(s) PROVE RoundInv'
  BY <1>35, <1>a, OfferKept DEF GracePasses
<1>36. ASSUME DeadlinePasses PROVE RoundInv'
  BY <1>36, <1>a, OfferKeptByStep DEF DeadlinePasses
<1>37. ASSUME UNCHANGED vars PROVE RoundInv'
  BY <1>37, <1>a, OfferKeptByStep DEF vars
<1>38. QED
  BY <1>1, <1>2, <1>3, <1>4, <1>5, <1>6, <1>7, <1>8, <1>9, <1>10, <1>11, <1>12, <1>13, <1>14,
     <1>15, <1>16, <1>17, <1>18, <1>19, <1>20, <1>21, <1>22, <1>23, <1>24, <1>25, <1>26, <1>27,
     <1>28, <1>29, <1>30, <1>31, <1>32, <1>33, <1>34, <1>35, <1>36, <1>37, PerkFacts
  DEF Next, Apply, Step, NextTurn, AdvanceStep, SetConnectedStep

\* Every step keeps GraceInv: absenceEnd records an absence with the first pass
\* of advance, before a late reconnect clears it.
LEMMA GraceStep == TableOK /\ HandlerOK /\ ControlInv /\ GraceInv /\ [Next]_vars => GraceInv'
<1> SUFFICES ASSUME TableOK, HandlerOK, ControlInv, GraceInv, [Next]_vars PROVE GraceInv'
  OBVIOUS
<1> USE DEF GraceInv, Running, phaseVars, seatVars, ballotVars, resultVars, perkVars, dealVars,
            ctlVars
<1>1. ASSUME NEW s \in Seats, PlayCard(s) PROVE GraceInv'
  BY <1>1 DEF PlayCard, OnTurn, Acting, CallNextTurn
<1>2. ASSUME NEW s \in Seats, Replace(s) PROVE GraceInv'
  BY <1>2 DEF Replace, OnTurn, Acting, CallNextTurn
<1>3. ASSUME NEW s \in Seats, Draw(s) PROVE GraceInv'
  BY <1>3 DEF Draw, OnTurn, Acting
<1>4. ASSUME NEW s \in Seats, MarkReady(s) PROVE GraceInv'
  BY <1>4 DEF MarkReady, Acting
<1>5. ASSUME NEW s \in Seats, Pass(s) PROVE GraceInv'
  BY <1>5 DEF Pass, OnTurn, Acting, CallNextTurn
<1>6. ASSUME NEW s \in Seats, Shuffle(s) PROVE GraceInv'
  BY <1>6 DEF Shuffle, Acting
<1>7. ASSUME NEW s \in Seats, Revote(s) PROVE GraceInv'
  BY <1>7 DEF Revote, MayRevote, Acting, ResetBallot, EnterPhase
<1>8. ASSUME NEW s \in Seats, NEW t \in Seats, Offer(s, t) PROVE GraceInv'
  BY <1>8 DEF Offer, OnTurn, Acting, EnterPhase
<1>9. ASSUME NEW s \in Seats, NEW t \in Seats, Vote(s, t) PROVE GraceInv'
  BY <1>9 DEF Vote, Acting
<1>10. ASSUME NEW s \in Seats, NEW a \in BOOLEAN, ResolveOffer(s, a) PROVE GraceInv'
  BY <1>10 DEF ResolveOffer, Acting, CallNextTurn
<1>11. ASSUME PerkFrame PROVE GraceInv'
  BY <1>11 DEF PerkFrame
<1>12. ASSUME TurnEnds PROVE GraceInv'
  BY <1>12 DEF TurnEnds, EnterPhase, ControlInv, HandlerOK, Returns
<1>13. ASSUME TurnSkipsDisconnected PROVE GraceInv'
  BY <1>13 DEF TurnSkipsDisconnected, EnterPhase
<1>14. ASSUME TurnSkipsNoRecipient PROVE GraceInv'
  BY <1>14 DEF TurnSkipsNoRecipient, EnterPhase
<1>15. ASSUME TurnStarts PROVE GraceInv'
  BY <1>15 DEF TurnStarts, EnterPhase, HandlerOK, Returns
<1>16. ASSUME ShuffleDeals PROVE GraceInv'
  BY <1>16 DEF ShuffleDeals, CallNextTurn
<1>17. ASSUME AdvanceOver PROVE GraceInv'
  BY <1>17 DEF AdvanceOver, AdvanceReturns
<1>18. ASSUME AdvanceEntry PROVE GraceInv'
  BY <1>18 DEF AdvanceEntry, AdvanceReturns, Finish, EnterPhase, DueGraces, ControlInv, HandlerOK
<1>19. ASSUME LoopWaits PROVE GraceInv'
  BY <1>19 DEF LoopWaits, Looping, AdvanceReturns
<1>20. ASSUME LoopFirstTurn PROVE GraceInv'
  BY <1>20 DEF LoopFirstTurn, Looping, LoopTurn, CallNextTurn
<1>21. ASSUME LoopNoRecipient PROVE GraceInv'
  BY <1>21 DEF LoopNoRecipient, Looping, LoopTurn, CallNextTurn
<1>22. ASSUME LoopTimeout PROVE GraceInv'
  BY <1>22 DEF LoopTimeout, Looping, LoopTurn, CallNextTurn
<1>23. ASSUME LoopOfferTimeout PROVE GraceInv'
  BY <1>23 DEF LoopOfferTimeout, Looping, LoopTurn, CallNextTurn
<1>24. ASSUME LoopOpensBallot PROVE GraceInv'
  BY <1>24 DEF LoopOpensBallot, Looping, LoopAgain, ResetBallot, EnterPhase
<1>25. ASSUME LoopRunoff PROVE GraceInv'
  BY <1>25 DEF LoopRunoff, Looping, LoopAgain, ResetBallot, EnterPhase
<1>26. ASSUME LoopResolves PROVE GraceInv'
  BY <1>26 DEF LoopResolves, Looping, LoopAgain, EnterPhase
<1>27. ASSUME LoopFinalizes PROVE GraceInv'
  BY <1>27 DEF LoopFinalizes, Looping, LoopAgain, AdvanceReturns, Finish, ResetBallot, EnterPhase
<1>28. ASSUME DropTurn PROVE GraceInv'
  BY <1>28 DEF DropTurn, CallNextTurn
<1>29. ASSUME DropAbsorbed PROVE GraceInv'
  BY <1>29 DEF DropAbsorbed
<1>30. ASSUME Connected PROVE GraceInv'
  BY <1>30, SizeFacts DEF Connected, TableOK, ControlInv, HandlerOK
<1>31. ASSUME Advance PROVE GraceInv'
  BY <1>31 DEF Advance
<1>32. ASSUME Close PROVE GraceInv'
  BY <1>32 DEF Close, Finish, EnterPhase
<1>33. ASSUME NEW s \in Seats, Disconnect(s) PROVE GraceInv'
  BY <1>33, SizeFacts DEF Disconnect, CallNextTurn, TableOK
<1>34. ASSUME NEW s \in Seats, Reconnect(s) PROVE GraceInv'
  BY <1>34 DEF Reconnect, LateReconnect, TableOK
<1>35. ASSUME NEW s \in Seats, GracePasses(s) PROVE GraceInv'
  BY <1>35 DEF GracePasses, TableOK
<1>36. ASSUME DeadlinePasses PROVE GraceInv'
  BY <1>36 DEF DeadlinePasses
<1>37. ASSUME UNCHANGED vars PROVE GraceInv'
  BY <1>37 DEF vars
<1>38. QED
  BY <1>1, <1>2, <1>3, <1>4, <1>5, <1>6, <1>7, <1>8, <1>9, <1>10, <1>11, <1>12, <1>13, <1>14,
     <1>15, <1>16, <1>17, <1>18, <1>19, <1>20, <1>21, <1>22, <1>23, <1>24, <1>25, <1>26, <1>27,
     <1>28, <1>29, <1>30, <1>31, <1>32, <1>33, <1>34, <1>35, <1>36, <1>37, PerkFacts
  DEF Next, Apply, Step, NextTurn, AdvanceStep, SetConnectedStep

\* At least two seats are in the match as long as it runs: fewer than one seat
\* a round is eliminated.
LEMMA EnoughActive ==
  ASSUME HandlerOK, CardsTypeOK, RoundInv, Running
  PROVE  Active \in SUBSET Seats /\ Cardinality(Active) >= 2
<1>1. eliminated \in SUBSET Seats /\ IsFiniteSet(eliminated) /\ Cardinality(eliminated) \in Nat
  BY OneElement DEF HandlerOK
<1>2. IsFiniteSet(Seats) /\ Cardinality(Seats) = OriginalSize
  <2>1. Cardinality(0 .. OriginalSize - 1) = (OriginalSize - 1) - 0 + 1
    BY ContractAssumption, FS_Interval
  <2>2. QED BY <2>1, ContractAssumption, FS_Interval DEF Seats
<1>3. Seats \cap eliminated = eliminated
  BY <1>1
<1>4. Cardinality(Active) = OriginalSize - Cardinality(eliminated)
  BY <1>1, <1>2, <1>3, FS_Difference DEF Active
<1>5. Cardinality(eliminated) < MaxRounds
  BY <1>1, SizeFacts DEF RoundInv, CardsTypeOK
<1>6. QED BY <1>1, <1>4, <1>5, ContractAssumption DEF MaxRounds, Active

\* Who leads a ballot is one of its candidates.
LEMMA LeadersStand ==
  ASSUME TableOK, BallotShape, phase \in VotingPhases
  PROVE  Tied \subseteq candidates /\ candidates \subseteq Active
<1>1. candidates \subseteq Active
  BY DEF BallotShape
<1>2. ASSUME NEW t \in Tied PROVE t \in candidates
  <2>1. t \in Seats /\ Tally(t) > 0
    BY <1>2 DEF Tied
  <2>2. {s \in connected \cap Active : votes[s] = t} # {}
    BY <2>1, FS_EmptySet DEF Tally
  <2>3. PICK s \in connected \cap Active : votes[s] = t
    BY <2>2
  <2>4. s \in Seats /\ votes[s] # NoSeat
    BY <2>1, <2>3, SizeFacts DEF Active
  <2>5. QED BY <2>3, <2>4 DEF BallotShape
<1>3. QED BY <1>1, <1>2

\* Every step keeps the shape of the ballot and its voters: BallotInv.
LEMMA BallotStep == TableOK /\ HandlerOK /\ ControlInv /\ OfferInv /\ CardsTypeOK /\ RoundInv /\ BallotInv /\ [Next]_vars => BallotInv'
<1> SUFFICES ASSUME TableOK, HandlerOK, ControlInv, OfferInv, CardsTypeOK, RoundInv, BallotInv, [Next]_vars PROVE BallotInv'
  OBVIOUS
<1> USE DEF phaseVars, seatVars, ballotVars, resultVars, perkVars, dealVars, ctlVars
<1>a. ASSUME phase' \notin VotingPhases \cup {"result"}, phase' = "verdict" \/ ballotResult' = NoResult
      PROVE  BallotInv'
  BY <1>a DEF BallotInv, BallotShape, VotersInv
<1>b. ASSUME UNCHANGED <<phase, votes, ballotKind, candidates, ballotResult, eliminated>>, VotersInv'
      PROVE  BallotInv'
  BY <1>b DEF BallotInv, BallotShape, Active
<1>c. phase \notin {"result", "verdict"} => ballotResult = NoResult
  BY DEF BallotInv
<1>d. ASSUME UNCHANGED <<phase, votes, connected>>,
             pc \in {"drop", "absorb"} => pc' \in {"drop", "absorb"} /\ who' = who
      PROVE  VotersInv'
  BY <1>d DEF BallotInv, VotersInv
<1>e. ASSUME NEW C \in SUBSET Active, Cardinality(C) >= 2, NEW k \in VotingPhases,
             ResetBallot(k, C), EnterPhase(k), ballotResult' = NoResult, UNCHANGED eliminated,
             k = "knowoff" => C = Active
      PROVE  BallotInv'
  <2>1. phase' = k /\ ballotKind' = k /\ candidates' = C /\ votes' = NoVotes
    BY <1>e DEF ResetBallot, EnterPhase
  <2>2. \A s \in Seats : votes'[s] = NoSeat
    BY <2>1 DEF NoVotes
  <2>3. NoResult.seat = NoSeat
    BY DEF NoResult
  <2>4. BallotShape'
    BY <1>e, <2>1, <2>2, <2>3 DEF BallotShape, VotingPhases, Active
  <2>5. VotersInv'
    BY <2>2 DEF VotersInv
  <2>6. QED BY <1>e, <2>1, <2>4, <2>5 DEF BallotInv, VotingPhases
<1>1. ASSUME NEW s \in Seats, PlayCard(s) PROVE BallotInv'
  BY <1>1, <1>b, <1>d DEF PlayCard, OnTurn, Acting, CallNextTurn
<1>2. ASSUME NEW s \in Seats, Replace(s) PROVE BallotInv'
  BY <1>2, <1>b, <1>d DEF Replace, OnTurn, Acting, CallNextTurn
<1>3. ASSUME NEW s \in Seats, Draw(s) PROVE BallotInv'
  BY <1>3, <1>b, <1>d DEF Draw, OnTurn, Acting
<1>4. ASSUME NEW s \in Seats, MarkReady(s) PROVE BallotInv'
  BY <1>4, <1>b, <1>d DEF MarkReady, Acting
<1>5. ASSUME NEW s \in Seats, Pass(s) PROVE BallotInv'
  BY <1>5, <1>b, <1>d DEF Pass, OnTurn, Acting, CallNextTurn
<1>6. ASSUME NEW s \in Seats, Shuffle(s) PROVE BallotInv'
  BY <1>6, <1>b, <1>d DEF Shuffle, Acting
<1>7. ASSUME NEW s \in Seats, Revote(s) PROVE BallotInv'
  <2>1. Running /\ ballotResult' = NoResult /\ UNCHANGED eliminated
    BY <1>7 DEF Revote, MayRevote, ControlInv, VotingPhases
  <2>2. ResetBallot("knowoff", Active) /\ EnterPhase("knowoff") /\ "knowoff" \in VotingPhases
    BY <1>7 DEF Revote, VotingPhases
  <2>3. QED BY <2>1, <2>2, <1>e, EnoughActive
<1>8. ASSUME NEW s \in Seats, NEW t \in Seats, Offer(s, t) PROVE BallotInv'
  BY <1>8, <1>a, <1>c DEF Offer, OnTurn, EnterPhase, VotingPhases
<1>9. ASSUME NEW s \in Seats, NEW t \in Seats, Vote(s, t) PROVE BallotInv'
  <2>1. /\ phase \in VotingPhases /\ votes' = [votes EXCEPT ![s] = t]
        /\ t # s /\ t \in Active /\ s \in connected \cap Active /\ (phase = "runoff" => t \in candidates)
        /\ UNCHANGED <<phase, ballotKind, candidates, ballotResult, eliminated, connected, pc, who>>
    BY <1>9 DEF Vote, Acting
  <2>2. t \in candidates
    BY <2>1 DEF BallotInv, BallotShape, VotingPhases
  <2>3. \A v \in Seats : votes'[v] = IF v = s THEN t ELSE votes[v]
    BY <2>1 DEF TableOK
  <2>4. BallotShape'
    BY <2>1, <2>2, <2>3 DEF BallotInv, BallotShape, Active
  <2>5. VotersInv'
    BY <2>1, <2>3 DEF BallotInv, VotersInv
  <2>6. QED BY <2>1, <2>4, <2>5, <1>c DEF BallotInv
<1>10. ASSUME NEW s \in Seats, NEW a \in BOOLEAN, ResolveOffer(s, a) PROVE BallotInv'
  <2>1. pc = "idle" /\ UNCHANGED <<phase, votes, ballotKind, candidates, ballotResult, eliminated, connected>>
    BY <1>10 DEF ResolveOffer, Acting
  <2>2. QED BY <2>1, <1>b, <1>d
<1>11. ASSUME PerkFrame PROVE BallotInv'
  BY <1>11, <1>b, <1>d DEF PerkFrame
<1>12. ASSUME TurnEnds PROVE BallotInv'
  BY <1>12, <1>a, <1>c DEF TurnEnds, EnterPhase, ControlInv, VotingPhases
<1>13. ASSUME TurnSkipsDisconnected PROVE BallotInv'
  BY <1>13, <1>a, <1>c DEF TurnSkipsDisconnected, EnterPhase, ControlInv, VotingPhases
<1>14. ASSUME TurnSkipsNoRecipient PROVE BallotInv'
  BY <1>14, <1>a, <1>c DEF TurnSkipsNoRecipient, EnterPhase, ControlInv, VotingPhases
<1>15. ASSUME TurnStarts PROVE BallotInv'
  BY <1>15, <1>a, <1>c DEF TurnStarts, EnterPhase, ControlInv, VotingPhases
<1>16. ASSUME ShuffleDeals PROVE BallotInv'
  BY <1>16, <1>b, <1>d DEF ShuffleDeals, CallNextTurn
<1>17. ASSUME AdvanceOver PROVE BallotInv'
  BY <1>17, <1>b, <1>d DEF AdvanceOver, AdvanceReturns
<1>18. ASSUME AdvanceEntry PROVE BallotInv'
  <2>1. UNCHANGED <<votes, ballotKind, candidates, ballotResult, eliminated, connected>>
    BY <1>18 DEF AdvanceEntry
  <2>2. CASE \E result, team : Finish(result, team)
    BY <2>2, <1>a DEF Finish, EnterPhase, VotingPhases
  <2>3. CASE pc' = "loop" /\ UNCHANGED phase
    BY <1>18, <2>1, <2>3, <1>b, <1>d DEF AdvanceEntry
  <2>4. QED BY <1>18, <2>2, <2>3 DEF AdvanceEntry
<1>19. ASSUME LoopWaits PROVE BallotInv'
  BY <1>19, <1>b, <1>d DEF LoopWaits, Looping, AdvanceReturns
<1>20. ASSUME LoopFirstTurn PROVE BallotInv'
  BY <1>20, <1>b, <1>d DEF LoopFirstTurn, Looping, LoopTurn, CallNextTurn
<1>21. ASSUME LoopNoRecipient PROVE BallotInv'
  BY <1>21, <1>b, <1>d DEF LoopNoRecipient, Looping, LoopTurn, CallNextTurn
<1>22. ASSUME LoopTimeout PROVE BallotInv'
  BY <1>22, <1>b, <1>d DEF LoopTimeout, Looping, LoopTurn, CallNextTurn
<1>23. ASSUME LoopOfferTimeout PROVE BallotInv'
  BY <1>23, <1>b, <1>d DEF LoopOfferTimeout, Looping, LoopTurn, CallNextTurn
<1>24. ASSUME LoopOpensBallot PROVE BallotInv'
  <2>1. Running /\ phase = "discussion"
    BY <1>24 DEF LoopOpensBallot, Looping, ControlInv
  <2>2. ballotResult' = NoResult /\ UNCHANGED eliminated
    BY <1>24, <2>1, <1>c DEF LoopOpensBallot
  <2>3. ResetBallot("knowoff", Active) /\ EnterPhase("knowoff") /\ "knowoff" \in VotingPhases
    BY <1>24 DEF LoopOpensBallot, VotingPhases
  <2>4. QED BY <2>1, <2>2, <2>3, <1>e, EnoughActive
<1>25. ASSUME LoopRunoff PROVE BallotInv'
  <2>1. phase = "knowoff" /\ Cardinality(Tied) > 1
    BY <1>25 DEF LoopRunoff, Looping
  <2>2. ballotResult' = NoResult /\ UNCHANGED eliminated
    BY <1>25, <2>1, <1>c DEF LoopRunoff
  <2>3. ResetBallot("runoff", Tied) /\ EnterPhase("runoff") /\ "runoff" \in VotingPhases
    BY <1>25 DEF LoopRunoff, VotingPhases
  <2>4. Tied \in SUBSET Active /\ Cardinality(Tied) >= 2
    BY <2>1, LeadersStand, TiedFacts DEF BallotInv, VotingPhases
  <2>5. QED BY <2>2, <2>3, <2>4, <1>e
<1>26. ASSUME LoopResolves PROVE BallotInv'
  <2>1. phase \in VotingPhases /\ phase' = "result" /\ BallotShape
        /\ UNCHANGED <<votes, ballotKind, candidates, eliminated>>
    BY <1>26 DEF LoopResolves, Looping, EnterPhase, BallotInv
  <2>2. \/ Cardinality(Tied) = 1 /\ ballotResult' = Elimination(CHOOSE t \in Tied : TRUE)
        \/ ballotResult' = Miss
    BY <1>26 DEF LoopResolves
  <2>3. ballotResult' # NoResult /\ (ballotResult'.seat # NoSeat => ballotResult'.seat \in candidates)
    BY <2>1, <2>2, LeadersStand, TiedFacts DEF Elimination, Miss, NoResult
  <2>4. BallotShape'
    BY <2>1, <2>3 DEF BallotShape, VotingPhases, Active
  <2>5. QED BY <2>1, <2>4 DEF BallotInv, VotersInv, VotingPhases
<1>27. ASSUME LoopFinalizes PROVE BallotInv'
  <2>1. CASE \E result, team : Finish(result, team)
    BY <2>1, <1>a DEF Finish, EnterPhase, VotingPhases
  <2>2. CASE EnterPhase("round_start") /\ ballotResult' = NoResult
    BY <2>2, <1>a DEF EnterPhase, VotingPhases
  <2>3. QED BY <1>27, <2>1, <2>2 DEF LoopFinalizes
<1>28. ASSUME DropTurn PROVE BallotInv'
  <2>1. /\ pc = "drop"
        /\ UNCHANGED <<phase, votes, ballotKind, candidates, ballotResult, eliminated, connected, who>>
    BY <1>28 DEF DropTurn
  <2>2. phase \in VotingPhases => pc' = "absorb"
    BY <1>28 DEF DropTurn, VotingPhases
  <2>3. VotersInv'
    BY <2>1, <2>2 DEF BallotInv, VotersInv
  <2>4. QED BY <2>1, <2>3, <1>b
<1>29. ASSUME DropAbsorbed PROVE BallotInv'
  <2>1. /\ pc = "absorb" /\ votes' = WithdrawnVotes(who)
        /\ UNCHANGED <<phase, ballotKind, candidates, ballotResult, eliminated, connected>>
    BY <1>29 DEF DropAbsorbed
  <2>2. \A v \in Seats : votes'[v] = IF v = who /\ who \in Active /\ phase \in VotingPhases
                                     THEN NoSeat ELSE votes[v]
    BY <2>1 DEF TableOK, WithdrawnVotes
  <2>3. BallotShape'
    BY <2>1, <2>2 DEF BallotInv, BallotShape, Active
  <2>4. VotersInv'
    BY <2>1, <2>2 DEF BallotInv, BallotShape, VotersInv
  <2>5. QED BY <2>1, <2>3, <2>4, <1>c DEF BallotInv
<1>30. ASSUME Connected PROVE BallotInv'
  <2>1. pc = "connect" /\ connected \subseteq connected'
    BY <1>30 DEF Connected
  <2>2. VotersInv'
    BY <1>30, <2>1 DEF Connected, BallotInv, VotersInv
  <2>3. QED BY <1>30, <2>2, <1>b DEF Connected
<1>31. ASSUME Advance PROVE BallotInv'
  BY <1>31, <1>b, <1>d DEF Advance
<1>32. ASSUME Close PROVE BallotInv'
  BY <1>32, <1>a DEF Close, Finish, EnterPhase, VotingPhases
<1>33. ASSUME NEW s \in Seats, Disconnect(s) PROVE BallotInv'
  <2>1. /\ pc = "idle" /\ connected' = connected \ {s} /\ who' = s
        /\ UNCHANGED <<phase, votes, ballotKind, candidates, ballotResult, eliminated>>
    BY <1>33 DEF Disconnect
  <2>2. phase \in VotingPhases => pc' = "drop"
    BY <1>33 DEF Disconnect, InOffer, OfferInv, VotingPhases
  <2>3. VotersInv'
    BY <2>1, <2>2 DEF BallotInv, VotersInv
  <2>4. QED BY <2>1, <2>3, <1>b
<1>34. ASSUME NEW s \in Seats, Reconnect(s) PROVE BallotInv'
  BY <1>34, <1>b, <1>d DEF Reconnect
<1>35. ASSUME NEW s \in Seats, GracePasses(s) PROVE BallotInv'
  BY <1>35, <1>b, <1>d DEF GracePasses
<1>36. ASSUME DeadlinePasses PROVE BallotInv'
  BY <1>36, <1>b, <1>d DEF DeadlinePasses
<1>37. ASSUME UNCHANGED vars PROVE BallotInv'
  BY <1>37 DEF vars, BallotInv, BallotShape, VotersInv, Active
<1>38. QED
  BY <1>1, <1>2, <1>3, <1>4, <1>5, <1>6, <1>7, <1>8, <1>9, <1>10, <1>11, <1>12, <1>13, <1>14,
     <1>15, <1>16, <1>17, <1>18, <1>19, <1>20, <1>21, <1>22, <1>23, <1>24, <1>25, <1>26, <1>27,
     <1>28, <1>29, <1>30, <1>31, <1>32, <1>33, <1>34, <1>35, <1>36, <1>37, PerkFacts
  DEF Next, Apply, Step, NextTurn, AdvanceStep, SetConnectedStep

\* How many recorded votes a seat has.
Count(t) == Cardinality({s \in Seats : votes[s] = t})

\* When advance resolves a ballot, the connected active voters it tallies are
\* all the seats that have a vote recorded.
LEMMA TallyCounts ==
  ASSUME TableOK, BallotInv, pc = "loop", phase \in VotingPhases
  PROVE  \A t \in Seats : Tally(t) = Count(t) /\ Count(t) \in Nat
<1> SUFFICES ASSUME NEW t \in Seats PROVE Tally(t) = Count(t) /\ Count(t) \in Nat
  OBVIOUS
<1>1. \A s \in Seats : votes[s] = t => s \in connected /\ s \in Active
  BY SizeFacts DEF BallotInv, BallotShape, VotersInv, VotingPhases
<1>2. {s \in connected \cap Active : votes[s] = t} = {s \in Seats : votes[s] = t}
  BY <1>1 DEF TableOK, Active
<1>3. {s \in Seats : votes[s] = t} \in SUBSET Seats
  OBVIOUS
<1>4. Count(t) \in Nat
  BY <1>3, OneElement DEF Count
<1>5. QED BY <1>2, <1>4 DEF Tally, Count

\* The result resolveVote announces is the one its tally gives.
LEMMA ResolvedCount ==
  ASSUME TableOK, BallotInv, pc = "loop", phase \in VotingPhases, NEW t \in Seats,
         NEW result, result = IF Cardinality(Tied) = 1
                              THEN Elimination(CHOOSE x \in Tied : TRUE) ELSE Miss
  PROVE  result = Elimination(t) <=> Count(t) > 0 /\ \A u \in Seats \ {t} : Count(u) < Count(t)
<1> DEFINE leader == CHOOSE x \in Tied : TRUE
<1>1. \A x : Miss # Elimination(x) /\ (Elimination(x) = Elimination(t) <=> x = t)
  BY DEF Miss, Elimination
<1>2. result = Elimination(t) <=> Cardinality(Tied) = 1 /\ leader = t
  BY <1>1
<1>3. Cardinality(Tied) = 1 /\ leader = t <=> Tied = {t}
  BY TiedFacts, OneElement
<1>4. \A u \in Seats : u \in Tied <=> Count(u) > 0 /\ \A v \in Seats : Count(v) <= Count(u)
  BY TallyCounts DEF Tied
<1>5. Tied = {t} => Count(t) > 0 /\ \A u \in Seats \ {t} : Count(u) < Count(t)
  <2> SUFFICES ASSUME Tied = {t}, NEW u \in Seats \ {t}
               PROVE  Count(t) > 0 /\ Count(u) < Count(t)
    BY <1>4
  <2>1. Count(t) > 0 /\ \A v \in Seats : Count(v) <= Count(t)
    BY <1>4
  <2>2. Count(u) # Count(t)
    BY <1>4, <2>1
  <2>3. QED BY <2>1, <2>2, TallyCounts
<1>6. Count(t) > 0 /\ (\A u \in Seats \ {t} : Count(u) < Count(t)) => Tied = {t}
  <2> SUFFICES ASSUME Count(t) > 0, \A u \in Seats \ {t} : Count(u) < Count(t)
               PROVE  Tied = {t}
    OBVIOUS
  <2>1. \A v \in Seats : Count(v) <= Count(t)
    BY TallyCounts
  <2>2. t \in Tied
    BY <1>4, <2>1
  <2>3. ASSUME NEW u \in Tied PROVE u = t
    BY <1>4, <2>3, TallyCounts DEF Tied
  <2>4. QED BY <2>2, <2>3
<1>7. QED BY <1>2, <1>3, <1>5, <1>6

\* Every step keeps the announced result what the recorded votes give.
LEMMA CountedStep == TableOK /\ HandlerOK /\ ControlInv /\ BallotInv /\ CountedBallot /\ [Next]_vars => CountedBallot'
<1> SUFFICES ASSUME TableOK, HandlerOK, ControlInv, BallotInv, CountedBallot, [Next]_vars PROVE CountedBallot'
  OBVIOUS
<1> USE DEF phaseVars, seatVars, ballotVars, resultVars, perkVars, dealVars, ctlVars
<1>a. ASSUME UNCHANGED <<phase, votes, ballotResult>> PROVE CountedBallot'
  BY <1>a DEF CountedBallot
<1>b. ASSUME phase' # "result" PROVE CountedBallot'
  BY <1>b DEF CountedBallot
<1>1. ASSUME NEW s \in Seats, PlayCard(s) PROVE CountedBallot'
  BY <1>1, <1>a, <1>b DEF PlayCard, OnTurn, Acting, CallNextTurn
<1>2. ASSUME NEW s \in Seats, Replace(s) PROVE CountedBallot'
  BY <1>2, <1>a, <1>b DEF Replace, OnTurn, Acting, CallNextTurn
<1>3. ASSUME NEW s \in Seats, Draw(s) PROVE CountedBallot'
  BY <1>3, <1>a, <1>b DEF Draw, OnTurn, Acting
<1>4. ASSUME NEW s \in Seats, MarkReady(s) PROVE CountedBallot'
  BY <1>4, <1>a, <1>b DEF MarkReady, Acting
<1>5. ASSUME NEW s \in Seats, Pass(s) PROVE CountedBallot'
  BY <1>5, <1>a, <1>b DEF Pass, OnTurn, Acting, CallNextTurn
<1>6. ASSUME NEW s \in Seats, Shuffle(s) PROVE CountedBallot'
  BY <1>6, <1>a, <1>b DEF Shuffle, Acting
<1>7. ASSUME NEW s \in Seats, Revote(s) PROVE CountedBallot'
  BY <1>7, <1>a, <1>b DEF Revote, MayRevote, Acting, ResetBallot, EnterPhase
<1>8. ASSUME NEW s \in Seats, NEW t \in Seats, Offer(s, t) PROVE CountedBallot'
  BY <1>8, <1>a, <1>b DEF Offer, OnTurn, Acting, EnterPhase
<1>9. ASSUME NEW s \in Seats, NEW t \in Seats, Vote(s, t) PROVE CountedBallot'
  <2>1. phase' # "result"
    BY <1>9 DEF Vote, VotingPhases
  <2>2. QED BY <2>1, <1>b
<1>10. ASSUME NEW s \in Seats, NEW a \in BOOLEAN, ResolveOffer(s, a) PROVE CountedBallot'
  BY <1>10, <1>a, <1>b DEF ResolveOffer, Acting, CallNextTurn
<1>11. ASSUME PerkFrame PROVE CountedBallot'
  BY <1>11, <1>a, <1>b DEF PerkFrame
<1>12. ASSUME TurnEnds PROVE CountedBallot'
  BY <1>12, <1>a, <1>b DEF TurnEnds, EnterPhase
<1>13. ASSUME TurnSkipsDisconnected PROVE CountedBallot'
  BY <1>13, <1>a, <1>b DEF TurnSkipsDisconnected, EnterPhase
<1>14. ASSUME TurnSkipsNoRecipient PROVE CountedBallot'
  BY <1>14, <1>a, <1>b DEF TurnSkipsNoRecipient, EnterPhase
<1>15. ASSUME TurnStarts PROVE CountedBallot'
  BY <1>15, <1>a, <1>b DEF TurnStarts, EnterPhase
<1>16. ASSUME ShuffleDeals PROVE CountedBallot'
  BY <1>16, <1>a, <1>b DEF ShuffleDeals, CallNextTurn
<1>17. ASSUME AdvanceOver PROVE CountedBallot'
  BY <1>17, <1>a, <1>b DEF AdvanceOver, AdvanceReturns
<1>18. ASSUME AdvanceEntry PROVE CountedBallot'
  <2>1. CASE \E result, team : Finish(result, team)
    BY <2>1, <1>b DEF Finish, EnterPhase
  <2>2. CASE UNCHANGED phase
    BY <1>18, <2>2, <1>a DEF AdvanceEntry
  <2>3. QED BY <1>18, <2>1, <2>2 DEF AdvanceEntry
<1>19. ASSUME LoopWaits PROVE CountedBallot'
  BY <1>19, <1>a, <1>b DEF LoopWaits, Looping, AdvanceReturns
<1>20. ASSUME LoopFirstTurn PROVE CountedBallot'
  BY <1>20, <1>a, <1>b DEF LoopFirstTurn, Looping, LoopTurn, CallNextTurn
<1>21. ASSUME LoopNoRecipient PROVE CountedBallot'
  BY <1>21, <1>a, <1>b DEF LoopNoRecipient, Looping, LoopTurn, CallNextTurn
<1>22. ASSUME LoopTimeout PROVE CountedBallot'
  BY <1>22, <1>a, <1>b DEF LoopTimeout, Looping, LoopTurn, CallNextTurn
<1>23. ASSUME LoopOfferTimeout PROVE CountedBallot'
  BY <1>23, <1>a, <1>b DEF LoopOfferTimeout, Looping, LoopTurn, CallNextTurn
<1>24. ASSUME LoopOpensBallot PROVE CountedBallot'
  BY <1>24, <1>a, <1>b DEF LoopOpensBallot, Looping, LoopAgain, ResetBallot, EnterPhase
<1>25. ASSUME LoopRunoff PROVE CountedBallot'
  BY <1>25, <1>a, <1>b DEF LoopRunoff, Looping, LoopAgain, ResetBallot, EnterPhase
<1>26. ASSUME LoopResolves PROVE CountedBallot'
  <2>1. /\ phase \in VotingPhases /\ pc = "loop" /\ UNCHANGED votes
        /\ ballotResult' = IF Cardinality(Tied) = 1
                           THEN Elimination(CHOOSE t \in Tied : TRUE) ELSE Miss
    BY <1>26 DEF LoopResolves, Looping
  <2>2. \A t \in Seats : ballotResult' = Elimination(t) <=>
          Count(t) > 0 /\ \A u \in Seats \ {t} : Count(u) < Count(t)
    BY <2>1, ResolvedCount
  <2>3. QED BY <2>1, <2>2 DEF CountedBallot, Count
<1>27. ASSUME LoopFinalizes PROVE CountedBallot'
  <2>1. phase' = "verdict" \/ phase' = "round_start"
    BY <1>27 DEF LoopFinalizes, Finish, EnterPhase
  <2>2. QED BY <2>1, <1>b
<1>28. ASSUME DropTurn PROVE CountedBallot'
  BY <1>28, <1>a, <1>b DEF DropTurn, CallNextTurn
<1>29. ASSUME DropAbsorbed PROVE CountedBallot'
  <2>1. CASE phase = "result"
    BY <1>29, <2>1, <1>a DEF DropAbsorbed, WithdrawnVotes, VotingPhases
  <2>2. CASE phase # "result"
    BY <1>29, <2>2, <1>b DEF DropAbsorbed
  <2>3. QED BY <2>1, <2>2
<1>30. ASSUME Connected PROVE CountedBallot'
  BY <1>30, <1>a, <1>b DEF Connected
<1>31. ASSUME Advance PROVE CountedBallot'
  BY <1>31, <1>a, <1>b DEF Advance
<1>32. ASSUME Close PROVE CountedBallot'
  BY <1>32, <1>a, <1>b DEF Close, Finish, EnterPhase
<1>33. ASSUME NEW s \in Seats, Disconnect(s) PROVE CountedBallot'
  BY <1>33, <1>a, <1>b DEF Disconnect, CallNextTurn
<1>34. ASSUME NEW s \in Seats, Reconnect(s) PROVE CountedBallot'
  BY <1>34, <1>a, <1>b DEF Reconnect
<1>35. ASSUME NEW s \in Seats, GracePasses(s) PROVE CountedBallot'
  BY <1>35, <1>a, <1>b DEF GracePasses
<1>36. ASSUME DeadlinePasses PROVE CountedBallot'
  BY <1>36, <1>a, <1>b DEF DeadlinePasses
<1>37. ASSUME UNCHANGED vars PROVE CountedBallot'
  BY <1>37, <1>a, <1>b DEF vars
<1>38. QED
  BY <1>1, <1>2, <1>3, <1>4, <1>5, <1>6, <1>7, <1>8, <1>9, <1>10, <1>11, <1>12, <1>13, <1>14,
     <1>15, <1>16, <1>17, <1>18, <1>19, <1>20, <1>21, <1>22, <1>23, <1>24, <1>25, <1>26, <1>27,
     <1>28, <1>29, <1>30, <1>31, <1>32, <1>33, <1>34, <1>35, <1>36, <1>37, PerkFacts
  DEF Next, Apply, Step, NextTurn, AdvanceStep, SetConnectedStep

\* When the loop of advance has nothing to do, phase by phase.
LEMMA DueFacts ==
  /\ phase \in {"round_start", "trade_response"} => (NothingDue <=> ~expired)
  /\ phase = "play" => (NothingDue <=> ~expired /\ Eligible(Current))
  /\ phase \in ReadyPhases => (NothingDue <=> ~expired /\ ~AllReady)
BY DEF NothingDue, ReadyPhases, VotingPhases

\* A table with somebody connected waits in a phase that it has just entered.
LEMMA FreshPhaseWaits ==
  ASSUME NEW p \in ReadyPhases, EnterPhase(p), UNCHANGED <<connected, eliminated>>, ~Abandoned
  PROVE  NothingDue'
<1>1. phase' \in ReadyPhases /\ ready' = {} /\ ~expired'
  BY DEF EnterPhase, ReadyPhases, VotingPhases
<1>2. ~AllReady'
  BY <1>1 DEF AllReady, Abandoned, Active
<1>3. QED BY <1>1, <1>2 DEF NothingDue, ReadyPhases, VotingPhases

\* A played turn at the loop is that of a connected active seat.
LEMMA PlayedTurn ==
  ASSUME TableOK, TurnInv, Running, pc = "loop", phase \in {"play", "trade_response"}
  PROVE  ~Abandoned
<1>1. Current \in connected /\ turn > 0
  BY DEF TurnInv, OfferInv
<1>2. Current \in Active
  BY <1>1, TurnSeats DEF TurnInv
<1>3. QED BY <1>1, <1>2 DEF Abandoned

\* Nobody leads a ballot without a connected voter.
LEMMA NobodyLeads ==
  ASSUME Abandoned PROVE Tied = {}
<1>1. \A t : {s \in connected \cap Active : votes[s] = t} = {}
  BY DEF Abandoned
<1>2. \A t : Tally(t) = 0
  BY <1>1, FS_EmptySet DEF Tally
<1>3. QED BY <1>2 DEF Tied

\* Every step keeps the account of advance's iterations: BudgetInv.
LEMMA BudgetStep == TableOK /\ HandlerOK /\ ControlInv /\ TurnInv /\ CardsTypeOK /\ BudgetInv /\ [Next]_vars => BudgetInv'
<1> SUFFICES ASSUME TableOK, HandlerOK, ControlInv, TurnInv, CardsTypeOK, BudgetInv, [Next]_vars PROVE BudgetInv'
  OBVIOUS
<1> USE DEF phaseVars, seatVars, ballotVars, resultVars, perkVars, dealVars, ctlVars
<1>r. round \in 1 .. MaxRounds /\ round \in Int /\ steps \in Nat
  BY SizeFacts DEF CardsTypeOK, HandlerOK
<1>a. ASSUME steps' = 0, ~(pc' = "turn" /\ ret' = "loop") PROVE BudgetInv'
  BY <1>a DEF BudgetInv
<1>b. ASSUME pc = "turn", UNCHANGED <<pc, ret, steps, round, eliminated, connected>> PROVE BudgetInv'
  BY <1>b DEF BudgetInv, Abandoned, Active, Iterations
<1>c. pc \notin {"loop", "turn"} => steps = 0
  BY DEF BudgetInv
<1>d. pc = "loop" /\ steps # 0 =>
        IF Abandoned
        THEN \/ phase = "round_start" /\ steps <= Iterations(0)
             \/ phase = "discussion" /\ steps <= Iterations(1)
             \/ phase = "knowoff" /\ steps <= Iterations(2)
             \/ phase = "result" /\ steps <= Iterations(3)
        ELSE \/ phase = "round_start" /\ steps = 1
             \/ NothingDue /\ steps <= 2
  BY DEF BudgetInv
<1>e. ASSUME pc' = "turn", ret' = "loop", steps' = steps + 1, UNCHANGED <<round, eliminated, connected>>,
             Abandoned => steps <= Iterations(0), ~Abandoned => steps <= 1
      PROVE  BudgetInv'
  BY <1>e, <1>r DEF BudgetInv, Abandoned, Active, Iterations
<1>f. ASSUME pc' = "loop", UNCHANGED <<round, eliminated, connected>>, ~Abandoned, NothingDue', steps' <= 2
      PROVE  BudgetInv'
  BY <1>f DEF BudgetInv, Abandoned, Active
<1>1. ASSUME NEW s \in Seats, PlayCard(s) PROVE BudgetInv'
  BY <1>1, <1>a, <1>c DEF PlayCard, OnTurn, Acting, CallNextTurn
<1>2. ASSUME NEW s \in Seats, Replace(s) PROVE BudgetInv'
  BY <1>2, <1>a, <1>c DEF Replace, OnTurn, Acting, CallNextTurn
<1>3. ASSUME NEW s \in Seats, Draw(s) PROVE BudgetInv'
  BY <1>3, <1>a, <1>c DEF Draw, OnTurn, Acting
<1>4. ASSUME NEW s \in Seats, MarkReady(s) PROVE BudgetInv'
  BY <1>4, <1>a, <1>c DEF MarkReady, Acting
<1>5. ASSUME NEW s \in Seats, Pass(s) PROVE BudgetInv'
  BY <1>5, <1>a, <1>c DEF Pass, OnTurn, Acting, CallNextTurn
<1>6. ASSUME NEW s \in Seats, Shuffle(s) PROVE BudgetInv'
  BY <1>6, <1>a, <1>c DEF Shuffle, Acting
<1>7. ASSUME NEW s \in Seats, Revote(s) PROVE BudgetInv'
  BY <1>7, <1>a, <1>c DEF Revote, MayRevote, Acting, ResetBallot, EnterPhase
<1>8. ASSUME NEW s \in Seats, NEW t \in Seats, Offer(s, t) PROVE BudgetInv'
  BY <1>8, <1>a, <1>c DEF Offer, OnTurn, Acting, EnterPhase
<1>9. ASSUME NEW s \in Seats, NEW t \in Seats, Vote(s, t) PROVE BudgetInv'
  BY <1>9, <1>a, <1>c DEF Vote, Acting
<1>10. ASSUME NEW s \in Seats, NEW a \in BOOLEAN, ResolveOffer(s, a) PROVE BudgetInv'
  BY <1>10, <1>a, <1>c DEF ResolveOffer, Acting, CallNextTurn
<1>11. ASSUME PerkFrame PROVE BudgetInv'
  <2>1. UNCHANGED <<phase, expired, ready, turn, order, connected, eliminated, round, pc, ret, steps>>
    BY <1>11 DEF PerkFrame, cardVars
  <2>2. NothingDue' = NothingDue
    BY <2>1 DEF NothingDue, AllReady, Eligible, Current, Active
  <2>3. QED BY <2>1, <2>2 DEF BudgetInv, Abandoned, Active, Iterations
<1>12. ASSUME TurnEnds PROVE BudgetInv'
  <2>1. /\ pc = "turn" /\ pc' = ret /\ EnterPhase("discussion") /\ phase' = "discussion"
        /\ UNCHANGED <<ret, steps, eliminated, connected>>
    BY <1>12 DEF TurnEnds, EnterPhase
  <2>2. UNCHANGED round
    BY <1>12, OfferKeptByStep DEF NextTurn
  <2>3. CASE ret # "loop"
    BY <2>1, <2>3, <1>a DEF BudgetInv
  <2>4. CASE ret = "loop" /\ Abandoned
    BY <2>1, <2>2, <2>4 DEF BudgetInv, Abandoned, Active, Iterations
  <2>5. CASE ret = "loop" /\ ~Abandoned
    <3>1. NothingDue'
      BY <2>1, <2>5, FreshPhaseWaits DEF ReadyPhases
    <3>2. steps' <= 2
      BY <2>1, <2>5 DEF BudgetInv
    <3>3. QED BY <2>1, <2>2, <2>5, <3>1, <3>2, <1>f
  <2>6. QED BY <2>3, <2>4, <2>5
<1>13. ASSUME TurnSkipsDisconnected PROVE BudgetInv'
  <2>1. pc = "turn" /\ UNCHANGED <<pc, ret, steps, eliminated, connected>>
    BY <1>13 DEF TurnSkipsDisconnected
  <2>2. UNCHANGED round
    BY <1>13, OfferKeptByStep DEF NextTurn
  <2>3. QED BY <2>1, <2>2, <1>b
<1>14. ASSUME TurnSkipsNoRecipient PROVE BudgetInv'
  <2>1. pc = "turn" /\ UNCHANGED <<pc, ret, steps, eliminated, connected>>
    BY <1>14 DEF TurnSkipsNoRecipient
  <2>2. UNCHANGED round
    BY <1>14, OfferKeptByStep DEF NextTurn
  <2>3. QED BY <2>1, <2>2, <1>b
<1>15. ASSUME TurnStarts PROVE BudgetInv'
  <2>1. /\ pc = "turn" /\ pc' = ret /\ phase' = "play" /\ ~expired' /\ turn' = turn + 1 /\ turn < Len(order)
        /\ order[turn + 1] \in connected /\ Eligible(order[turn + 1])
        /\ UNCHANGED <<ret, steps, eliminated, connected, order>>
    BY <1>15 DEF TurnStarts, EnterPhase
  <2>2. UNCHANGED round
    BY <1>15, OfferKeptByStep DEF NextTurn
  <2>3. Running
    BY <2>1 DEF ControlInv
  <2>4. turn + 1 \in 1 .. Len(order) /\ Len(order) \in Nat
    BY <2>1 DEF TableOK
  <2>5. order[turn + 1] \in Active
    BY <2>3, <2>4 DEF TurnInv, OrderInv
  <2>6. ~Abandoned
    BY <2>1, <2>5 DEF Abandoned
  <2>7. Current' = order[turn + 1]
    BY <2>1, <2>4 DEF Current
  <2>8. Eligible(Current)'
    BY <2>1, <2>7 DEF Eligible, Active
  <2>9. NothingDue'
    <3>1. (Eligible(Current) /\ phase = "play" /\ ~expired)'
      BY <2>1, <2>8
    <3>2. QED BY <3>1 DEF NothingDue, Eligible, Active, ReadyPhases, VotingPhases
  <2>10. CASE ret = "loop"
    BY <2>1, <2>2, <2>6, <2>9, <2>10, <1>f DEF BudgetInv
  <2>11. CASE ret # "loop"
    BY <2>1, <2>11, <1>a DEF BudgetInv
  <2>12. QED BY <2>10, <2>11
<1>16. ASSUME ShuffleDeals PROVE BudgetInv'
  BY <1>16, <1>a, <1>c DEF ShuffleDeals, CallNextTurn
<1>17. ASSUME AdvanceOver PROVE BudgetInv'
  BY <1>17, <1>a DEF AdvanceOver, AdvanceReturns
<1>18. ASSUME AdvanceEntry PROVE BudgetInv'
  <2>1. CASE AdvanceReturns
    BY <2>1, <1>a DEF AdvanceReturns
  <2>2. CASE pc' = "loop" /\ UNCHANGED steps
    BY <1>18, <2>2, <1>a, <1>c DEF AdvanceEntry
  <2>3. QED BY <1>18, <2>1, <2>2 DEF AdvanceEntry
<1>19. ASSUME LoopWaits PROVE BudgetInv'
  BY <1>19, <1>a DEF LoopWaits, AdvanceReturns
<1>20. ASSUME LoopFirstTurn PROVE BudgetInv'
  <2>1. /\ pc = "loop" /\ phase = "round_start" /\ expired
        /\ pc' = "turn" /\ ret' = "loop" /\ steps' = steps + 1
        /\ UNCHANGED <<eliminated, connected>>
    BY <1>20 DEF LoopFirstTurn, Looping, LoopTurn, CallNextTurn
  <2>2. UNCHANGED round
    BY <1>20, OfferKeptByStep
  <2>3. ~NothingDue
    BY <2>1, DueFacts
  <2>4. Abandoned => steps <= Iterations(0)
    BY <2>1, <1>d, <1>r DEF Iterations
  <2>5. ~Abandoned => steps <= 1
    BY <2>1, <2>3, <1>d
  <2>6. QED BY <2>1, <2>2, <2>4, <2>5, <1>e
<1>21. ASSUME LoopNoRecipient PROVE BudgetInv'
  <2>1. /\ pc = "loop" /\ phase = "play" /\ ~Eligible(Current)
        /\ pc' = "turn" /\ ret' = "loop" /\ steps' = steps + 1
        /\ UNCHANGED <<eliminated, connected>>
    BY <1>21 DEF LoopNoRecipient, Looping, LoopTurn, CallNextTurn
  <2>2. UNCHANGED round
    BY <1>21, OfferKeptByStep
  <2>3. ~NothingDue
    BY <2>1, DueFacts
  <2>4. ~Abandoned
    BY <2>1, PlayedTurn DEF ControlInv
  <2>5. steps = 0
    BY <2>1, <2>3, <2>4, <1>d
  <2>6. QED BY <2>1, <2>2, <2>4, <2>5, <1>e
<1>22. ASSUME LoopTimeout PROVE BudgetInv'
  <2>1. /\ pc = "loop" /\ phase = "play" /\ expired
        /\ pc' = "turn" /\ ret' = "loop" /\ steps' = steps + 1
        /\ UNCHANGED <<eliminated, connected>>
    BY <1>22 DEF LoopTimeout, Looping, LoopTurn, CallNextTurn
  <2>2. UNCHANGED round
    BY <1>22, OfferKeptByStep
  <2>3. ~NothingDue
    BY <2>1, DueFacts
  <2>4. ~Abandoned
    BY <2>1, PlayedTurn DEF ControlInv
  <2>5. steps = 0
    BY <2>1, <2>3, <2>4, <1>d
  <2>6. QED BY <2>1, <2>2, <2>4, <2>5, <1>e
<1>23. ASSUME LoopOfferTimeout PROVE BudgetInv'
  <2>1. /\ pc = "loop" /\ phase = "trade_response" /\ expired
        /\ pc' = "turn" /\ ret' = "loop" /\ steps' = steps + 1
        /\ UNCHANGED <<eliminated, connected>>
    BY <1>23 DEF LoopOfferTimeout, Looping, LoopTurn, CallNextTurn
  <2>2. UNCHANGED round
    BY <1>23, OfferSettled
  <2>3. ~NothingDue
    BY <2>1, DueFacts
  <2>4. ~Abandoned
    BY <2>1, PlayedTurn DEF ControlInv
  <2>5. steps = 0
    BY <2>1, <2>3, <2>4, <1>d
  <2>6. QED BY <2>1, <2>2, <2>4, <2>5, <1>e
<1>24. ASSUME LoopOpensBallot PROVE BudgetInv'
  <2>1. /\ pc = "loop" /\ phase \in {"discussion"} /\ (expired \/ AllReady)
        /\ pc' = "loop" /\ steps' = steps + 1 /\ EnterPhase("knowoff") /\ phase' = "knowoff"
        /\ UNCHANGED <<eliminated, connected>>
    BY <1>24 DEF LoopOpensBallot, Looping, LoopAgain, EnterPhase
  <2>2. UNCHANGED round
    BY <1>24, OfferKeptByStep
  <2>3. ~NothingDue
    BY <2>1, DueFacts DEF ReadyPhases, VotingPhases
  <2>4. CASE Abandoned
    <3>1. steps' <= Iterations(2)
      BY <2>1, <2>4, <1>d, <1>r DEF Iterations, VotingPhases
    <3>2. QED BY <2>1, <2>2, <2>4, <3>1, <1>r DEF BudgetInv, Abandoned, Active, Iterations
  <2>5. CASE ~Abandoned
    <3>1. NothingDue'
      BY <2>1, <2>5, FreshPhaseWaits DEF ReadyPhases, VotingPhases
    <3>2. steps' <= 2
      BY <2>1, <2>3, <2>5, <1>d DEF VotingPhases
    <3>3. QED BY <2>1, <2>2, <2>5, <3>1, <3>2, <1>f
  <2>6. QED BY <2>4, <2>5
<1>25. ASSUME LoopRunoff PROVE BudgetInv'
  <2>1. /\ pc = "loop" /\ phase \in {"knowoff"} /\ (expired \/ AllReady)
        /\ pc' = "loop" /\ steps' = steps + 1 /\ EnterPhase("runoff") /\ phase' = "runoff"
        /\ UNCHANGED <<eliminated, connected>>
    BY <1>25 DEF LoopRunoff, Looping, LoopAgain, EnterPhase
  <2>2. UNCHANGED round
    BY <1>25, OfferKeptByStep
  <2>3. ~NothingDue
    BY <2>1, DueFacts DEF ReadyPhases, VotingPhases
  <2>4. CASE Abandoned
    <3>1. Cardinality(Tied) > 1
      BY <1>25 DEF LoopRunoff
    <3>2. QED BY <2>4, <3>1, NobodyLeads, FS_EmptySet
  <2>5. CASE ~Abandoned
    <3>1. NothingDue'
      BY <2>1, <2>5, FreshPhaseWaits DEF ReadyPhases, VotingPhases
    <3>2. steps' <= 2
      BY <2>1, <2>3, <2>5, <1>d DEF VotingPhases
    <3>3. QED BY <2>1, <2>2, <2>5, <3>1, <3>2, <1>f
  <2>6. QED BY <2>4, <2>5
<1>26. ASSUME LoopResolves PROVE BudgetInv'
  <2>1. /\ pc = "loop" /\ phase \in VotingPhases /\ (expired \/ AllReady)
        /\ pc' = "loop" /\ steps' = steps + 1 /\ EnterPhase("result") /\ phase' = "result"
        /\ UNCHANGED <<eliminated, connected>>
    BY <1>26 DEF LoopResolves, Looping, LoopAgain, EnterPhase
  <2>2. UNCHANGED round
    BY <1>26, OfferKeptByStep
  <2>3. ~NothingDue
    BY <2>1, DueFacts DEF ReadyPhases, VotingPhases
  <2>4. CASE Abandoned
    <3>1. steps' <= Iterations(3)
      BY <2>1, <2>4, <1>d, <1>r DEF Iterations, VotingPhases
    <3>2. QED BY <2>1, <2>2, <2>4, <3>1, <1>r DEF BudgetInv, Abandoned, Active, Iterations
  <2>5. CASE ~Abandoned
    <3>1. NothingDue'
      BY <2>1, <2>5, FreshPhaseWaits DEF ReadyPhases, VotingPhases
    <3>2. steps' <= 2
      BY <2>1, <2>3, <2>5, <1>d DEF VotingPhases
    <3>3. QED BY <2>1, <2>2, <2>5, <3>1, <3>2, <1>f
  <2>6. QED BY <2>4, <2>5
<1>27. ASSUME LoopFinalizes PROVE BudgetInv'
  <2>1. CASE AdvanceReturns
    BY <2>1, <1>a DEF AdvanceReturns
  <2>2. CASE LoopAgain
    <3>1. pc = "loop" /\ phase = "result" /\ pc' = "loop" /\ steps' = steps + 1 /\ (expired \/ AllReady)
      BY <1>27, <2>2 DEF LoopFinalizes, Looping, LoopAgain
    <3>2. phase' = "round_start" /\ round' = round + 1
      BY <1>27, <3>1 DEF LoopFinalizes, AdvanceReturns, EnterPhase, BeginRound
    <3>3. ~NothingDue
      BY <3>1, DueFacts DEF ReadyPhases
    <3>4. eliminated \subseteq eliminated' /\ UNCHANGED connected
      BY <1>27 DEF LoopFinalizes
    <3>5. Abandoned => Abandoned'
      BY <3>4 DEF Abandoned, Active
    <3>6. IF Abandoned THEN steps <= Iterations(3) ELSE steps = 0
      BY <3>1, <3>3, <1>d, <1>r DEF Iterations
    <3>7. IF Abandoned' THEN steps' <= Iterations(0)' ELSE steps' = 1
      BY <3>1, <3>2, <3>5, <3>6, <1>r DEF Iterations
    <3>8. QED BY <3>1, <3>2, <3>7 DEF BudgetInv
  <2>3. QED BY <1>27, <2>1, <2>2 DEF LoopFinalizes
<1>28. ASSUME DropTurn PROVE BudgetInv'
  BY <1>28, <1>a, <1>c DEF DropTurn, CallNextTurn
<1>29. ASSUME DropAbsorbed PROVE BudgetInv'
  BY <1>29, <1>a, <1>c DEF DropAbsorbed
<1>30. ASSUME Connected PROVE BudgetInv'
  BY <1>30, <1>a, <1>c DEF Connected
<1>31. ASSUME Advance PROVE BudgetInv'
  BY <1>31, <1>a, <1>c DEF Advance
<1>32. ASSUME Close PROVE BudgetInv'
  BY <1>32, <1>a, <1>c DEF Close, Finish, EnterPhase
<1>33. ASSUME NEW s \in Seats, Disconnect(s) PROVE BudgetInv'
  BY <1>33, <1>a, <1>c DEF Disconnect, CallNextTurn
<1>34. ASSUME NEW s \in Seats, Reconnect(s) PROVE BudgetInv'
  BY <1>34, <1>a, <1>c DEF Reconnect
<1>35. ASSUME NEW s \in Seats, GracePasses(s) PROVE BudgetInv'
  BY <1>35, <1>a, <1>c DEF GracePasses
<1>36. ASSUME DeadlinePasses PROVE BudgetInv'
  BY <1>36, <1>a, <1>c DEF DeadlinePasses
<1>37. ASSUME UNCHANGED vars PROVE BudgetInv'
  <2>1. NothingDue' = NothingDue
    BY <1>37 DEF vars, NothingDue, AllReady, Eligible, Current, Active
  <2>2. QED BY <1>37, <2>1 DEF vars, cardVars, BudgetInv, Abandoned, Active, Iterations
<1>38. QED
  BY <1>1, <1>2, <1>3, <1>4, <1>5, <1>6, <1>7, <1>8, <1>9, <1>10, <1>11, <1>12, <1>13, <1>14,
     <1>15, <1>16, <1>17, <1>18, <1>19, <1>20, <1>21, <1>22, <1>23, <1>24, <1>25, <1>26, <1>27,
     <1>28, <1>29, <1>30, <1>31, <1>32, <1>33, <1>34, <1>35, <1>36, <1>37, PerkFacts
  DEF Next, Apply, Step, NextTurn, AdvanceStep, SetConnectedStep

\* What the operations on cards do to the displays of Bad Bargains.
LEMMA DisplayMoves ==
  ASSUME BadBargains
  PROVE  /\ UNCHANGED cardVars => DOMAIN board' = DOMAIN board
         /\ \A s : LoseCard(s) => DOMAIN board' = DOMAIN board
         /\ \A s, c : ~PlayToList(s, c)
         /\ \A s, c, slot : ~ReplaceSlot(s, c, slot)
         /\ \A s, n : DrawCards(s, n) => DOMAIN board' = DOMAIN board
         /\ \A s, t, c, d : MakeOffer(s, t, c, d) => DOMAIN board' = DOMAIN board
         /\ \A accept : SettleOffer(accept) => DOMAIN board' = DOMAIN board
         /\ CancelOffer => DOMAIN board' = DOMAIN board
         /\ \A active : ShufflePool(active) \/ BeginRound(active) => DOMAIN board' = active
<1>1. ~MakeRoom /\ ~ListMode /\ \A active : SeedPlaces(active) = active
  <2>1. ~MakeRoom /\ ~ListMode /\ ~TopThat
    BY DEF BadBargains, MakeRoom, ListMode, TopThat
  <2>2. QED BY <2>1 DEF SeedPlaces
<1>2. \A accept : SettleOffer(accept) => DOMAIN board' = DOMAIN board
  BY DEF SettleOffer
<1>3. \A active : ShufflePool(active) => DOMAIN board' = active
  BY <1>1 DEF ShufflePool
<1>4. \A active : BeginRound(active) => DOMAIN board' = active
  BY <1>1 DEF BeginRound
<1>5. QED
  BY <1>1, <1>2, <1>3, <1>4 DEF cardVars, LoseCard, Discard, PlayToList, ReplaceSlot, DrawCards, MakeOffer,
     CancelOffer

\* Every step keeps a display for each active seat: BoardSeats.
LEMMA BoardSeatsStep == TableOK /\ HandlerOK /\ ControlInv /\ BoardSeats /\ [Next]_vars => BoardSeats'
<1> SUFFICES ASSUME TableOK, HandlerOK, ControlInv, BoardSeats, [Next]_vars PROVE BoardSeats'
  OBVIOUS
<1> USE DEF phaseVars, seatVars, ballotVars, resultVars, perkVars, dealVars, ctlVars
<1> SUFFICES ASSUME BadBargains, Running' PROVE DOMAIN board' = Active'
  BY DEF BoardSeats
<1>a. ASSUME Running, UNCHANGED eliminated, DOMAIN board' = DOMAIN board PROVE DOMAIN board' = Active'
  BY <1>a DEF BoardSeats, Active
<1>b. ASSUME UNCHANGED <<outcome, eliminated>>, DOMAIN board' = DOMAIN board PROVE DOMAIN board' = Active'
  BY <1>a, <1>b DEF Running
<1>c. \A result, team : Finish(result, team) /\ result # "none" => FALSE
  BY DEF Finish, Running
<1>1. ASSUME NEW s \in Seats, PlayCard(s) PROVE DOMAIN board' = Active'
  BY <1>1, <1>b, DisplayMoves DEF PlayCard, OnTurn, Acting, CallNextTurn
<1>2. ASSUME NEW s \in Seats, Replace(s) PROVE DOMAIN board' = Active'
  BY <1>2, <1>b, DisplayMoves DEF Replace, OnTurn, Acting, CallNextTurn
<1>3. ASSUME NEW s \in Seats, Draw(s) PROVE DOMAIN board' = Active'
  BY <1>3, <1>b, DisplayMoves DEF Draw, OnTurn, Acting
<1>4. ASSUME NEW s \in Seats, MarkReady(s) PROVE DOMAIN board' = Active'
  BY <1>4, <1>b, DisplayMoves DEF MarkReady, Acting
<1>5. ASSUME NEW s \in Seats, Pass(s) PROVE DOMAIN board' = Active'
  BY <1>5, <1>b, DisplayMoves DEF Pass, OnTurn, Acting, CallNextTurn
<1>6. ASSUME NEW s \in Seats, Shuffle(s) PROVE DOMAIN board' = Active'
  BY <1>6, <1>b, DisplayMoves DEF Shuffle, Acting
<1>7. ASSUME NEW s \in Seats, Revote(s) PROVE DOMAIN board' = Active'
  BY <1>7, <1>b, DisplayMoves DEF Revote, MayRevote, Acting, ResetBallot, EnterPhase
<1>8. ASSUME NEW s \in Seats, NEW t \in Seats, Offer(s, t) PROVE DOMAIN board' = Active'
  BY <1>8, <1>b, DisplayMoves DEF Offer, OnTurn, Acting, EnterPhase
<1>9. ASSUME NEW s \in Seats, NEW t \in Seats, Vote(s, t) PROVE DOMAIN board' = Active'
  BY <1>9, <1>b, DisplayMoves DEF Vote, Acting
<1>10. ASSUME NEW s \in Seats, NEW a \in BOOLEAN, ResolveOffer(s, a) PROVE DOMAIN board' = Active'
  BY <1>10, <1>b, DisplayMoves DEF ResolveOffer, Acting, CallNextTurn
<1>11. ASSUME PerkFrame PROVE DOMAIN board' = Active'
  BY <1>11, <1>b, DisplayMoves DEF PerkFrame
<1>12. ASSUME TurnEnds PROVE DOMAIN board' = Active'
  BY <1>12, <1>b, DisplayMoves DEF TurnEnds, EnterPhase
<1>13. ASSUME TurnSkipsDisconnected PROVE DOMAIN board' = Active'
  BY <1>13, <1>b, DisplayMoves DEF TurnSkipsDisconnected, EnterPhase
<1>14. ASSUME TurnSkipsNoRecipient PROVE DOMAIN board' = Active'
  BY <1>14, <1>b, DisplayMoves DEF TurnSkipsNoRecipient, EnterPhase
<1>15. ASSUME TurnStarts PROVE DOMAIN board' = Active'
  BY <1>15, <1>b, DisplayMoves DEF TurnStarts, EnterPhase
<1>16. ASSUME ShuffleDeals PROVE DOMAIN board' = Active'
  <2>1. DOMAIN board' = Active /\ UNCHANGED eliminated
    BY <1>16, DisplayMoves DEF ShuffleDeals
  <2>2. QED BY <2>1 DEF Active
<1>17. ASSUME AdvanceOver PROVE DOMAIN board' = Active'
  BY <1>17, <1>b, DisplayMoves DEF AdvanceOver, AdvanceReturns
<1>18. ASSUME AdvanceEntry PROVE DOMAIN board' = Active'
  <2>1. CASE \E team : Finish("completed", team) \/ Finish("scored_low_population", team)
    BY <2>1, <1>c
  <2>2. CASE UNCHANGED <<cardVars, outcome, eliminated>>
    BY <2>2, <1>b, DisplayMoves
  <2>3. QED BY <1>18, <2>1, <2>2 DEF AdvanceEntry
<1>19. ASSUME LoopWaits PROVE DOMAIN board' = Active'
  BY <1>19, <1>b, DisplayMoves DEF LoopWaits, Looping, AdvanceReturns
<1>20. ASSUME LoopFirstTurn PROVE DOMAIN board' = Active'
  BY <1>20, <1>b, DisplayMoves DEF LoopFirstTurn, Looping, LoopTurn, CallNextTurn
<1>21. ASSUME LoopNoRecipient PROVE DOMAIN board' = Active'
  BY <1>21, <1>b, DisplayMoves DEF LoopNoRecipient, Looping, LoopTurn, CallNextTurn
<1>22. ASSUME LoopTimeout PROVE DOMAIN board' = Active'
  BY <1>22, <1>b, DisplayMoves DEF LoopTimeout, Looping, LoopTurn, CallNextTurn
<1>23. ASSUME LoopOfferTimeout PROVE DOMAIN board' = Active'
  BY <1>23, <1>b, DisplayMoves DEF LoopOfferTimeout, Looping, LoopTurn, CallNextTurn
<1>24. ASSUME LoopOpensBallot PROVE DOMAIN board' = Active'
  BY <1>24, <1>b, DisplayMoves DEF LoopOpensBallot, Looping, LoopAgain, ResetBallot, EnterPhase
<1>25. ASSUME LoopRunoff PROVE DOMAIN board' = Active'
  BY <1>25, <1>b, DisplayMoves DEF LoopRunoff, Looping, LoopAgain, ResetBallot, EnterPhase
<1>26. ASSUME LoopResolves PROVE DOMAIN board' = Active'
  BY <1>26, <1>b, DisplayMoves DEF LoopResolves, Looping, LoopAgain, EnterPhase
<1>27. ASSUME LoopFinalizes PROVE DOMAIN board' = Active'
  <2>1. CASE \E team : Finish("completed", team)
    BY <2>1, <1>c
  <2>2. CASE BeginRound(Seats \ eliminated')
    BY <2>2, DisplayMoves DEF Active
  <2>3. QED BY <1>27, <2>1, <2>2 DEF LoopFinalizes
<1>28. ASSUME DropTurn PROVE DOMAIN board' = Active'
  BY <1>28, <1>b, DisplayMoves DEF DropTurn, CallNextTurn
<1>29. ASSUME DropAbsorbed PROVE DOMAIN board' = Active'
  BY <1>29, <1>b, DisplayMoves DEF DropAbsorbed
<1>30. ASSUME Connected PROVE DOMAIN board' = Active'
  BY <1>30, <1>b, DisplayMoves DEF Connected
<1>31. ASSUME Advance PROVE DOMAIN board' = Active'
  BY <1>31, <1>b, DisplayMoves DEF Advance
<1>32. ASSUME Close PROVE DOMAIN board' = Active'
  BY <1>32, <1>c DEF Close
<1>33. ASSUME NEW s \in Seats, Disconnect(s) PROVE DOMAIN board' = Active'
  BY <1>33, <1>b, DisplayMoves DEF Disconnect, CallNextTurn
<1>34. ASSUME NEW s \in Seats, Reconnect(s) PROVE DOMAIN board' = Active'
  BY <1>34, <1>b, DisplayMoves DEF Reconnect
<1>35. ASSUME NEW s \in Seats, GracePasses(s) PROVE DOMAIN board' = Active'
  BY <1>35, <1>b, DisplayMoves DEF GracePasses
<1>36. ASSUME DeadlinePasses PROVE DOMAIN board' = Active'
  BY <1>36, <1>b, DisplayMoves DEF DeadlinePasses
<1>37. ASSUME UNCHANGED vars PROVE DOMAIN board' = Active'
  BY <1>37, <1>b, DisplayMoves DEF vars
<1>38. QED
  BY <1>1, <1>2, <1>3, <1>4, <1>5, <1>6, <1>7, <1>8, <1>9, <1>10, <1>11, <1>12, <1>13, <1>14,
     <1>15, <1>16, <1>17, <1>18, <1>19, <1>20, <1>21, <1>22, <1>23, <1>24, <1>25, <1>26, <1>27,
     <1>28, <1>29, <1>30, <1>31, <1>32, <1>33, <1>34, <1>35, <1>36, <1>37, PerkFacts
  DEF Next, Apply, Step, NextTurn, AdvanceStep, SetConnectedStep

-----------------------------------------------------------------------------
(***************************************************************************)
(* What MatchInv gives: the theorems about the engine.                     *)
(***************************************************************************)

\* A fresh match has the types of MatchTypeOK.
LEMMA InitTypes == Init => FlagsOK /\ TableOK /\ HandlerOK
<1> SUFFICES ASSUME Init PROVE FlagsOK /\ TableOK /\ HandlerOK
  OBVIOUS
<1>1. FlagsOK
  BY MatchAssumption DEF Init, FlagsOK
<1>2. donowers \in SUBSET Seats /\ specialty \in [Seats -> Specialties]
  BY MatchAssumption DEF Init
<1>3. order \in Seq(Seats)
  BY OrderFacts DEF Init
<1>4. TableOK
  BY <1>2, <1>3 DEF Init, TableOK, Phases, NoVotes, Verdicts
<1>5. MaxRounds \in Int
  BY SizeFacts
<1>6. HandlerOK
  BY <1>2, <1>5 DEF Init, HandlerOK, Returns
<1>7. QED BY <1>1, <1>4, <1>6

\* A fresh match satisfies every part of the invariant.
LEMMA InitInv == Init => MatchInv
<1> SUFFICES ASSUME Init PROVE MatchInv
  OBVIOUS
<1>1. CardsInv /\ offer = NoOffer /\ round = 1 /\ DOMAIN board = SeedPlaces(Seats)
  <2>1. CardsInit /\ board = SystemSeeds[1]
    BY DEF Init, CardsInit
  <2>2. 1 \in 1 .. MaxRounds
    BY SizeFacts
  <2>3. DOMAIN SystemSeeds[1] = SeedPlaces(Seats)
    BY <2>2, SeedFacts
  <2>4. QED BY <2>1, <2>3, CardsInitInv DEF CardsInit
<1>2. BoardShape
  <2>1. /\ MakeRoom => SeedPlaces(Seats) = 0 .. 2
        /\ TopThat => SeedPlaces(Seats) = {1}
        /\ BadBargains => SeedPlaces(Seats) = Seats
    <3>1. MakeRoom => ~TopThat /\ ~BadBargains
      BY DEF MakeRoom, TopThat, BadBargains
    <3>2. TopThat => ~BadBargains
      BY DEF TopThat, BadBargains
    <3>3. QED BY <3>1, <3>2 DEF SeedPlaces
  <2>2. DOMAIN << >> = {} /\ 0 \in Seats
    BY ContractAssumption DEF Seats
  <2>3. QED BY <1>1, <2>1, <2>2 DEF BoardShape
<1>3. BoardSeats
  <2>1. BadBargains => SeedPlaces(Seats) = Seats
    <3>1. BadBargains => ~MakeRoom /\ ~TopThat
      BY DEF MakeRoom, TopThat, BadBargains
    <3>2. QED BY <3>1 DEF SeedPlaces
  <2>2. Active = Seats
    BY DEF Init, Active
  <2>3. QED BY <1>1, <2>1, <2>2 DEF BoardSeats
<1>4. ControlInv
  BY SizeFacts DEF Init, ControlInv, Running
<1>5. TurnInv
  <2>1. Len(order) \in Nat /\ \A i \in 1 .. Len(order) : order[i] \in Seats
    BY OrderFacts DEF Init
  <2>2. OrderInv
    BY <2>1 DEF Init, OrderInv, Active
  <2>3. OfferInv
    BY <1>1 DEF Init, OfferInv
  <2>4. QED BY <2>2, <2>3 DEF TurnInv
<1>6. RoundInv
  <2>1. Cardinality(eliminated) = 0
    BY FS_EmptySet DEF Init
  <2>2. QED BY <1>1, <2>1, SizeFacts DEF Init, RoundInv
<1>7. BallotInv /\ CountedBallot
  BY DEF Init, BallotInv, BallotShape, VotersInv, CountedBallot, VotingPhases
<1>8. GraceInv
  BY DEF Init, GraceInv
<1>9. BudgetInv
  BY DEF Init, BudgetInv
<1>10. QED
  BY InitTypes, <1>1, <1>2, <1>3, <1>4, <1>5, <1>6, <1>7, <1>8, <1>9 DEF MatchInv, EngineInv

\* Every step of a handler keeps MatchInv, and moves the cards by their
\* discipline or not at all.
LEMMA MatchStep == MatchInv /\ [Next]_vars => MatchInv' /\ [CardsNext]_cardVars
<1> SUFFICES ASSUME MatchInv, [Next]_vars PROVE MatchInv' /\ [CardsNext]_cardVars
  OBVIOUS
<1>1. /\ CardsInv /\ BoardShape /\ BoardSeats /\ FlagsOK /\ TableOK /\ HandlerOK /\ ControlInv
      /\ TurnInv /\ RoundInv /\ BallotInv /\ CountedBallot /\ GraceInv /\ BudgetInv
  BY DEF MatchInv, EngineInv
<1>2. CardsTypeOK /\ OfferInv
  BY <1>1 DEF CardsInv, TurnInv
<1>3. [CardsNext]_cardVars
  BY <1>1, StepMovesCards
<1>4. CardsInv'
  BY <1>1, <1>3, CardsStepInv
<1>5. BoardShape'
  BY <1>1, <1>3, BoardShapeStep
<1>6. BoardSeats'
  BY <1>1, BoardSeatsStep
<1>7. FlagsOK' /\ TableOK' /\ HandlerOK'
  BY <1>1, <1>2, FlagsStep, TableStep, HandlerStep
<1>8. ControlInv'
  BY <1>1, <1>2, ControlStep
<1>9. TurnInv'
  BY <1>1, OrderStep, OfferStep DEF TurnInv
<1>10. RoundInv'
  BY <1>1, <1>2, RoundStep
<1>11. BallotInv'
  BY <1>1, <1>2, BallotStep
<1>12. CountedBallot'
  BY <1>1, CountedStep
<1>13. GraceInv'
  BY <1>1, GraceStep
<1>14. BudgetInv'
  BY <1>1, <1>2, BudgetStep
<1>15. QED
  BY <1>3, <1>4, <1>5, <1>6, <1>7, <1>8, <1>9, <1>10, <1>11, <1>12, <1>13, <1>14 DEF MatchInv, EngineInv

\* MatchInv is an inductive invariant of the engine, for every mode, table
\* size, deal and order of turns.
THEOREM MatchInvariant == Spec => []MatchInv
BY InitInv, MatchStep, PTL DEF Spec

\* Cards, table, ballot, result and handler keep their types.
THEOREM MatchTypeCorrect == Spec => []MatchTypeOK
<1>1. MatchInv => MatchTypeOK
  BY DEF MatchInv, EngineInv, CardsInv, MatchTypeOK
<1>2. QED BY <1>1, MatchInvariant, PTL

\* The engine implements the card discipline: whatever the handlers do and
\* however they interleave with drops and timeouts, the cards move by
\* TextCards, and no card operation but the settlement meets a pending offer.
THEOREM EngineFollowsCards == Spec => FollowsCards
<1>1. Init => CardsInit
  BY DEF Init
<1>2. MatchInv /\ [Next]_vars => UNCHANGED cardVars \/ CardsNext
  BY MatchStep
<1>3. QED BY <1>1, <1>2, MatchInvariant, PTL DEF Spec, FollowsCards

\* Conservation holds of the whole engine: validateState's copy checks never
\* refuse a state a handler has produced.
THEOREM EngineConserves == Spec => []Conservation
<1>1. MatchInv => Conservation
  BY DEF MatchInv, CardsInv
<1>2. QED BY <1>1, MatchInvariant, PTL

\* The announced result is the one the recorded votes give, although voters
\* drop, return and change their votes until the ballot is resolved.
THEOREM BallotsCounted == Spec => []CountedBallot
<1>1. MatchInv => CountedBallot
  BY DEF MatchInv
<1>2. QED BY <1>1, MatchInvariant, PTL

\* Every state a handler hands to persist passes Snapshot.Validate as far as
\* turn, offer, ballot and board are concerned.
THEOREM SnapshotsValid == Spec => []SnapshotValid
<1>1. MatchInv => SnapshotValid
  <2> SUFFICES ASSUME MatchInv, pc = "idle" PROVE TurnShape /\ BallotShape /\ BoardShape
    BY DEF SnapshotValid
  <2>1. TableOK /\ ControlInv /\ OrderInv /\ OfferInv /\ BallotShape /\ BoardShape
    BY DEF MatchInv, EngineInv, TurnInv, BallotInv
  <2>2. TurnShape
    <3>1. phase \in {"play", "trade_response"} => turn > 0 /\ Running
      BY <2>1 DEF OfferInv, ControlInv
    <3>2. phase \in {"play", "trade_response"} => Current \in Active
      BY <2>1, <3>1, TurnSeats
    <3>3. QED BY <2>1, <3>2 DEF OfferInv, TurnShape
  <2>3. QED BY <2>1, <2>2
<1>2. QED BY <1>1, MatchInvariant, PTL

\* advance never runs out of its iterations ("text phase transition bound
\* exceeded"): four a round, and one less because a deserted table has its
\* verdict at the last result.
BudgetSuffices == pc = "loop" => steps < LoopBudget

\* The loop of advance always has an iteration left.
THEOREM BudgetSufficient == Spec => []BudgetSuffices
<1>1. MatchInv => BudgetSuffices
  <2> SUFFICES ASSUME MatchInv, pc = "loop", steps # 0 PROVE steps < LoopBudget
    BY DEF BudgetSuffices, LoopBudget
  <2>1. round \in 1 .. MaxRounds /\ MaxRounds \in {2, 3} /\ steps \in Nat
    BY SizeFacts DEF MatchInv, EngineInv, CardsInv, CardsTypeOK, HandlerOK
  <2>2. steps <= 2 \/ steps <= Iterations(0) \/ steps <= Iterations(1) \/ steps <= Iterations(2)
        \/ steps <= Iterations(3)
    BY <2>1 DEF MatchInv, BudgetInv
  <2>3. QED BY <2>1, <2>2 DEF Iterations, LoopBudget
<1>2. QED BY <1>1, MatchInvariant, PTL

\* A step into the result is the resolution of a ballot, whose round has no
\* award yet.
FreshAwards == phase # "result" /\ phase' = "result" => round \notin awarded

\* Every step satisfies FreshAwards.
LEMMA AwardStep == RoundInv /\ [Next]_vars => FreshAwards
<1> SUFFICES ASSUME RoundInv, [Next]_vars PROVE FreshAwards
  OBVIOUS
<1> USE DEF phaseVars, seatVars, ballotVars, resultVars, perkVars, dealVars, ctlVars
<1> USE DEF FreshAwards
<1>1. ASSUME NEW s \in Seats, PlayCard(s) PROVE FreshAwards
  BY <1>1 DEF PlayCard, OnTurn, Acting, CallNextTurn
<1>2. ASSUME NEW s \in Seats, Replace(s) PROVE FreshAwards
  BY <1>2 DEF Replace, OnTurn, Acting, CallNextTurn
<1>3. ASSUME NEW s \in Seats, Draw(s) PROVE FreshAwards
  BY <1>3 DEF Draw, OnTurn, Acting
<1>4. ASSUME NEW s \in Seats, MarkReady(s) PROVE FreshAwards
  BY <1>4 DEF MarkReady, Acting
<1>5. ASSUME NEW s \in Seats, Pass(s) PROVE FreshAwards
  BY <1>5 DEF Pass, OnTurn, Acting, CallNextTurn
<1>6. ASSUME NEW s \in Seats, Shuffle(s) PROVE FreshAwards
  BY <1>6 DEF Shuffle, Acting
<1>7. ASSUME NEW s \in Seats, Revote(s) PROVE FreshAwards
  BY <1>7 DEF Revote, MayRevote, Acting, ResetBallot, EnterPhase
<1>8. ASSUME NEW s \in Seats, NEW t \in Seats, Offer(s, t) PROVE FreshAwards
  BY <1>8 DEF Offer, OnTurn, Acting, EnterPhase
<1>9. ASSUME NEW s \in Seats, NEW t \in Seats, Vote(s, t) PROVE FreshAwards
  BY <1>9 DEF Vote, Acting
<1>10. ASSUME NEW s \in Seats, NEW a \in BOOLEAN, ResolveOffer(s, a) PROVE FreshAwards
  BY <1>10 DEF ResolveOffer, Acting, CallNextTurn
<1>11. ASSUME PerkFrame PROVE FreshAwards
  BY <1>11 DEF PerkFrame
<1>12. ASSUME TurnEnds PROVE FreshAwards
  BY <1>12 DEF TurnEnds, EnterPhase
<1>13. ASSUME TurnSkipsDisconnected PROVE FreshAwards
  BY <1>13 DEF TurnSkipsDisconnected, EnterPhase
<1>14. ASSUME TurnSkipsNoRecipient PROVE FreshAwards
  BY <1>14 DEF TurnSkipsNoRecipient, EnterPhase
<1>15. ASSUME TurnStarts PROVE FreshAwards
  BY <1>15 DEF TurnStarts, EnterPhase
<1>16. ASSUME ShuffleDeals PROVE FreshAwards
  BY <1>16 DEF ShuffleDeals, CallNextTurn
<1>17. ASSUME AdvanceOver PROVE FreshAwards
  BY <1>17 DEF AdvanceOver, AdvanceReturns
<1>18. ASSUME AdvanceEntry PROVE FreshAwards
  BY <1>18 DEF AdvanceEntry, Finish, EnterPhase, FreshAwards
<1>19. ASSUME LoopWaits PROVE FreshAwards
  BY <1>19 DEF LoopWaits, Looping, AdvanceReturns
<1>20. ASSUME LoopFirstTurn PROVE FreshAwards
  BY <1>20 DEF LoopFirstTurn, Looping, LoopTurn, CallNextTurn
<1>21. ASSUME LoopNoRecipient PROVE FreshAwards
  BY <1>21 DEF LoopNoRecipient, Looping, LoopTurn, CallNextTurn
<1>22. ASSUME LoopTimeout PROVE FreshAwards
  BY <1>22 DEF LoopTimeout, Looping, LoopTurn, CallNextTurn
<1>23. ASSUME LoopOfferTimeout PROVE FreshAwards
  BY <1>23 DEF LoopOfferTimeout, Looping, LoopTurn, CallNextTurn
<1>24. ASSUME LoopOpensBallot PROVE FreshAwards
  BY <1>24 DEF LoopOpensBallot, Looping, LoopAgain, ResetBallot, EnterPhase
<1>25. ASSUME LoopRunoff PROVE FreshAwards
  BY <1>25 DEF LoopRunoff, Looping, LoopAgain, ResetBallot, EnterPhase
<1>26. ASSUME LoopResolves PROVE FreshAwards
  <2>1. phase \in VotingPhases
    BY <1>26 DEF LoopResolves, Looping
  <2>2. QED BY <2>1 DEF RoundInv, FreshAwards, VotingPhases
<1>27. ASSUME LoopFinalizes PROVE FreshAwards
  BY <1>27 DEF LoopFinalizes, Looping, LoopAgain, AdvanceReturns, Finish, ResetBallot, EnterPhase
<1>28. ASSUME DropTurn PROVE FreshAwards
  BY <1>28 DEF DropTurn, CallNextTurn
<1>29. ASSUME DropAbsorbed PROVE FreshAwards
  BY <1>29 DEF DropAbsorbed
<1>30. ASSUME Connected PROVE FreshAwards
  BY <1>30 DEF Connected
<1>31. ASSUME Advance PROVE FreshAwards
  BY <1>31 DEF Advance
<1>32. ASSUME Close PROVE FreshAwards
  BY <1>32 DEF Close, Finish, EnterPhase
<1>33. ASSUME NEW s \in Seats, Disconnect(s) PROVE FreshAwards
  BY <1>33 DEF Disconnect, CallNextTurn
<1>34. ASSUME NEW s \in Seats, Reconnect(s) PROVE FreshAwards
  BY <1>34 DEF Reconnect
<1>35. ASSUME NEW s \in Seats, GracePasses(s) PROVE FreshAwards
  BY <1>35 DEF GracePasses
<1>36. ASSUME DeadlinePasses PROVE FreshAwards
  BY <1>36 DEF DeadlinePasses
<1>37. ASSUME UNCHANGED vars PROVE FreshAwards
  BY <1>37 DEF vars
<1>38. QED
  BY <1>1, <1>2, <1>3, <1>4, <1>5, <1>6, <1>7, <1>8, <1>9, <1>10, <1>11, <1>12, <1>13, <1>14,
     <1>15, <1>16, <1>17, <1>18, <1>19, <1>20, <1>21, <1>22, <1>23, <1>24, <1>25, <1>26, <1>27,
     <1>28, <1>29, <1>30, <1>31, <1>32, <1>33, <1>34, <1>35, <1>36, <1>37, PerkFacts
  DEF Next, Apply, Step, NextTurn, AdvanceStep, SetConnectedStep

\* An award is issued before any receipt of its round exists, so none is
\* swallowed as a replay.
THEOREM AwardsAreFresh == Spec => AwardsFresh
<1>1. MatchInv /\ [Next]_vars => [FreshAwards]_vars
  BY AwardStep DEF MatchInv
<1>2. QED BY <1>1, MatchInvariant, PTL DEF Spec, AwardsFresh, FreshAwards

\* A grace that is due is recorded before it is cleared.
AbandonKept ==
  \A s \in Seats : PenalizeAbandon /\ grace[s] = "due" /\ grace'[s] # "due" =>
    s \in abandoned' \/ outcome # "none"

\* Every step satisfies AbandonKept.
LEMMA AbandonStep == TableOK /\ ControlInv /\ GraceInv /\ [Next]_vars => AbandonKept
<1> SUFFICES ASSUME TableOK, ControlInv, GraceInv, [Next]_vars PROVE AbandonKept
  OBVIOUS
<1> USE DEF phaseVars, seatVars, ballotVars, resultVars, perkVars, dealVars, ctlVars
<1>a. UNCHANGED grace => AbandonKept
  BY DEF AbandonKept
<1>1. ASSUME NEW s \in Seats, PlayCard(s) PROVE AbandonKept
  BY <1>1, <1>a DEF PlayCard, OnTurn, Acting, CallNextTurn
<1>2. ASSUME NEW s \in Seats, Replace(s) PROVE AbandonKept
  BY <1>2, <1>a DEF Replace, OnTurn, Acting, CallNextTurn
<1>3. ASSUME NEW s \in Seats, Draw(s) PROVE AbandonKept
  BY <1>3, <1>a DEF Draw, OnTurn, Acting
<1>4. ASSUME NEW s \in Seats, MarkReady(s) PROVE AbandonKept
  BY <1>4, <1>a DEF MarkReady, Acting
<1>5. ASSUME NEW s \in Seats, Pass(s) PROVE AbandonKept
  BY <1>5, <1>a DEF Pass, OnTurn, Acting, CallNextTurn
<1>6. ASSUME NEW s \in Seats, Shuffle(s) PROVE AbandonKept
  BY <1>6, <1>a DEF Shuffle, Acting
<1>7. ASSUME NEW s \in Seats, Revote(s) PROVE AbandonKept
  BY <1>7, <1>a DEF Revote, MayRevote, Acting, ResetBallot, EnterPhase
<1>8. ASSUME NEW s \in Seats, NEW t \in Seats, Offer(s, t) PROVE AbandonKept
  BY <1>8, <1>a DEF Offer, OnTurn, Acting, EnterPhase
<1>9. ASSUME NEW s \in Seats, NEW t \in Seats, Vote(s, t) PROVE AbandonKept
  BY <1>9, <1>a DEF Vote, Acting
<1>10. ASSUME NEW s \in Seats, NEW a \in BOOLEAN, ResolveOffer(s, a) PROVE AbandonKept
  BY <1>10, <1>a DEF ResolveOffer, Acting, CallNextTurn
<1>11. ASSUME PerkFrame PROVE AbandonKept
  BY <1>11, <1>a DEF PerkFrame
<1>12. ASSUME TurnEnds PROVE AbandonKept
  BY <1>12, <1>a DEF TurnEnds, EnterPhase
<1>13. ASSUME TurnSkipsDisconnected PROVE AbandonKept
  BY <1>13, <1>a DEF TurnSkipsDisconnected, EnterPhase
<1>14. ASSUME TurnSkipsNoRecipient PROVE AbandonKept
  BY <1>14, <1>a DEF TurnSkipsNoRecipient, EnterPhase
<1>15. ASSUME TurnStarts PROVE AbandonKept
  BY <1>15, <1>a DEF TurnStarts, EnterPhase
<1>16. ASSUME ShuffleDeals PROVE AbandonKept
  BY <1>16, <1>a DEF ShuffleDeals, CallNextTurn
<1>17. ASSUME AdvanceOver PROVE AbandonKept
  BY <1>17, <1>a DEF AdvanceOver, AdvanceReturns
<1>18. ASSUME AdvanceEntry PROVE AbandonKept
  BY <1>18, <1>a DEF AdvanceEntry, AdvanceReturns, Finish, EnterPhase
<1>19. ASSUME LoopWaits PROVE AbandonKept
  BY <1>19, <1>a DEF LoopWaits, Looping, AdvanceReturns
<1>20. ASSUME LoopFirstTurn PROVE AbandonKept
  BY <1>20, <1>a DEF LoopFirstTurn, Looping, LoopTurn, CallNextTurn
<1>21. ASSUME LoopNoRecipient PROVE AbandonKept
  BY <1>21, <1>a DEF LoopNoRecipient, Looping, LoopTurn, CallNextTurn
<1>22. ASSUME LoopTimeout PROVE AbandonKept
  BY <1>22, <1>a DEF LoopTimeout, Looping, LoopTurn, CallNextTurn
<1>23. ASSUME LoopOfferTimeout PROVE AbandonKept
  BY <1>23, <1>a DEF LoopOfferTimeout, Looping, LoopTurn, CallNextTurn
<1>24. ASSUME LoopOpensBallot PROVE AbandonKept
  BY <1>24, <1>a DEF LoopOpensBallot, Looping, LoopAgain, ResetBallot, EnterPhase
<1>25. ASSUME LoopRunoff PROVE AbandonKept
  BY <1>25, <1>a DEF LoopRunoff, Looping, LoopAgain, ResetBallot, EnterPhase
<1>26. ASSUME LoopResolves PROVE AbandonKept
  BY <1>26, <1>a DEF LoopResolves, Looping, LoopAgain, EnterPhase
<1>27. ASSUME LoopFinalizes PROVE AbandonKept
  BY <1>27, <1>a DEF LoopFinalizes, Looping, LoopAgain, AdvanceReturns, Finish, ResetBallot,
         EnterPhase
<1>28. ASSUME DropTurn PROVE AbandonKept
  BY <1>28, <1>a DEF DropTurn, CallNextTurn
<1>29. ASSUME DropAbsorbed PROVE AbandonKept
  BY <1>29, <1>a DEF DropAbsorbed
<1>30. ASSUME Connected PROVE AbandonKept
  <2>1. pc = "connect" /\ grace' = [grace EXCEPT ![who] = "none"] /\ UNCHANGED abandoned
    BY <1>30 DEF Connected
  <2>2. who \in Seats /\ who # NoSeat
    BY <2>1, SizeFacts DEF ControlInv
  <2>3. PenalizeAbandon /\ grace[who] = "due" => who \in abandoned' \/ outcome # "none"
    BY <2>1, <2>2 DEF GraceInv, Running
  <2>4. QED BY <2>1, <2>3 DEF AbandonKept, TableOK
<1>31. ASSUME Advance PROVE AbandonKept
  BY <1>31, <1>a DEF Advance
<1>32. ASSUME Close PROVE AbandonKept
  BY <1>32, <1>a DEF Close, Finish, EnterPhase
<1>33. ASSUME NEW s \in Seats, Disconnect(s) PROVE AbandonKept
  <2>1. s \in connected /\ grace' = [grace EXCEPT ![s] = "running"]
    BY <1>33 DEF Disconnect
  <2>2. grace[s] = "none"
    BY <2>1 DEF GraceInv
  <2>3. QED BY <2>1, <2>2 DEF AbandonKept, TableOK
<1>34. ASSUME NEW s \in Seats, Reconnect(s) PROVE AbandonKept
  BY <1>34, <1>a DEF Reconnect
<1>35. ASSUME NEW s \in Seats, GracePasses(s) PROVE AbandonKept
  <2>1. grace[s] = "running" /\ grace' = [grace EXCEPT ![s] = "due"]
    BY <1>35 DEF GracePasses
  <2>2. QED BY <2>1 DEF AbandonKept, TableOK
<1>36. ASSUME DeadlinePasses PROVE AbandonKept
  BY <1>36, <1>a DEF DeadlinePasses
<1>37. ASSUME UNCHANGED vars PROVE AbandonKept
  BY <1>37, <1>a DEF vars
<1>38. QED
  BY <1>1, <1>2, <1>3, <1>4, <1>5, <1>6, <1>7, <1>8, <1>9, <1>10, <1>11, <1>12, <1>13, <1>14,
     <1>15, <1>16, <1>17, <1>18, <1>19, <1>20, <1>21, <1>22, <1>23, <1>24, <1>25, <1>26, <1>27,
     <1>28, <1>29, <1>30, <1>31, <1>32, <1>33, <1>34, <1>35, <1>36, <1>37, PerkFacts
  DEF Next, Apply, Step, NextTurn, AdvanceStep, SetConnectedStep

\* No expired grace of a penalized match is forgotten while the match runs.
THEOREM AbandonsRecorded == Spec => NoLostAbandon
<1>1. MatchInv /\ [Next]_vars => [AbandonKept]_vars
  BY AbandonStep DEF MatchInv, EngineInv
<1>2. QED BY <1>1, MatchInvariant, PTL DEF Spec, NoLostAbandon, AbandonKept

\* What decides a match.
Justified ==
  outcome = "none" /\ outcome' = "completed" =>
    \/ winner' = "nower" /\ donowers \subseteq eliminated' \cup absent'
    \/ winner' = "donower" /\ Nowers \subseteq eliminated' \cup absent'
    \/ winner' = "donower" /\ Cardinality(donowers \ eliminated') > MaxRounds - round

\* Every step satisfies Justified.
LEMMA VerdictStep == TableOK /\ CardsTypeOK /\ RoundInv /\ [Next]_vars => Justified
<1> SUFFICES ASSUME TableOK, CardsTypeOK, RoundInv, [Next]_vars PROVE Justified
  OBVIOUS
<1> USE DEF phaseVars, seatVars, ballotVars, resultVars, perkVars, dealVars, ctlVars
<1>a. UNCHANGED outcome => Justified
  BY DEF Justified
<1>1. ASSUME NEW s \in Seats, PlayCard(s) PROVE Justified
  BY <1>1, <1>a DEF PlayCard, OnTurn, Acting, CallNextTurn
<1>2. ASSUME NEW s \in Seats, Replace(s) PROVE Justified
  BY <1>2, <1>a DEF Replace, OnTurn, Acting, CallNextTurn
<1>3. ASSUME NEW s \in Seats, Draw(s) PROVE Justified
  BY <1>3, <1>a DEF Draw, OnTurn, Acting
<1>4. ASSUME NEW s \in Seats, MarkReady(s) PROVE Justified
  BY <1>4, <1>a DEF MarkReady, Acting
<1>5. ASSUME NEW s \in Seats, Pass(s) PROVE Justified
  BY <1>5, <1>a DEF Pass, OnTurn, Acting, CallNextTurn
<1>6. ASSUME NEW s \in Seats, Shuffle(s) PROVE Justified
  BY <1>6, <1>a DEF Shuffle, Acting
<1>7. ASSUME NEW s \in Seats, Revote(s) PROVE Justified
  BY <1>7, <1>a DEF Revote, MayRevote, Acting, ResetBallot, EnterPhase
<1>8. ASSUME NEW s \in Seats, NEW t \in Seats, Offer(s, t) PROVE Justified
  BY <1>8, <1>a DEF Offer, OnTurn, Acting, EnterPhase
<1>9. ASSUME NEW s \in Seats, NEW t \in Seats, Vote(s, t) PROVE Justified
  BY <1>9, <1>a DEF Vote, Acting
<1>10. ASSUME NEW s \in Seats, NEW a \in BOOLEAN, ResolveOffer(s, a) PROVE Justified
  BY <1>10, <1>a DEF ResolveOffer, Acting, CallNextTurn
<1>11. ASSUME PerkFrame PROVE Justified
  BY <1>11, <1>a DEF PerkFrame
<1>12. ASSUME TurnEnds PROVE Justified
  BY <1>12, <1>a DEF TurnEnds, EnterPhase
<1>13. ASSUME TurnSkipsDisconnected PROVE Justified
  BY <1>13, <1>a DEF TurnSkipsDisconnected, EnterPhase
<1>14. ASSUME TurnSkipsNoRecipient PROVE Justified
  BY <1>14, <1>a DEF TurnSkipsNoRecipient, EnterPhase
<1>15. ASSUME TurnStarts PROVE Justified
  BY <1>15, <1>a DEF TurnStarts, EnterPhase
<1>16. ASSUME ShuffleDeals PROVE Justified
  BY <1>16, <1>a DEF ShuffleDeals, CallNextTurn
<1>17. ASSUME AdvanceOver PROVE Justified
  BY <1>17, <1>a DEF AdvanceOver, AdvanceReturns
<1>18. ASSUME AdvanceEntry PROVE Justified
  <2> SUFFICES ASSUME outcome = "none", outcome' = "completed" PROVE Justified
    BY DEF Justified
  <2> DEFINE away == absent \cup DueGraces
             d == donowers \ eliminated
             n == Nowers \ eliminated
  <2>1. /\ AbsenceWinner(away) # "none" /\ winner' = AbsenceWinner(away)
        /\ absent' = away /\ eliminated' = eliminated
    BY <1>18 DEF AdvanceEntry, Finish
  <2>2. \/ AbsenceWinner(away) = "nower" /\ d \subseteq away
        \/ AbsenceWinner(away) = "donower" /\ n \subseteq away
    BY <2>1 DEF AbsenceWinner
  <2>3. QED BY <2>1, <2>2 DEF Justified
<1>19. ASSUME LoopWaits PROVE Justified
  BY <1>19, <1>a DEF LoopWaits, Looping, AdvanceReturns
<1>20. ASSUME LoopFirstTurn PROVE Justified
  BY <1>20, <1>a DEF LoopFirstTurn, Looping, LoopTurn, CallNextTurn
<1>21. ASSUME LoopNoRecipient PROVE Justified
  BY <1>21, <1>a DEF LoopNoRecipient, Looping, LoopTurn, CallNextTurn
<1>22. ASSUME LoopTimeout PROVE Justified
  BY <1>22, <1>a DEF LoopTimeout, Looping, LoopTurn, CallNextTurn
<1>23. ASSUME LoopOfferTimeout PROVE Justified
  BY <1>23, <1>a DEF LoopOfferTimeout, Looping, LoopTurn, CallNextTurn
<1>24. ASSUME LoopOpensBallot PROVE Justified
  BY <1>24, <1>a DEF LoopOpensBallot, Looping, LoopAgain, ResetBallot, EnterPhase
<1>25. ASSUME LoopRunoff PROVE Justified
  BY <1>25, <1>a DEF LoopRunoff, Looping, LoopAgain, ResetBallot, EnterPhase
<1>26. ASSUME LoopResolves PROVE Justified
  BY <1>26, <1>a DEF LoopResolves, Looping, LoopAgain, EnterPhase
<1>27. ASSUME LoopFinalizes PROVE Justified
  <2> SUFFICES ASSUME outcome = "none", outcome' = "completed" PROVE Justified
    BY DEF Justified
  <2> DEFINE uncaught == Cardinality(donowers \ eliminated')
  <2>1. VoteWinner(eliminated', VotesLeft) # "none" /\ winner' = VoteWinner(eliminated', VotesLeft)
    BY <1>27 DEF LoopFinalizes, Finish
  <2>2. VotesLeft = MaxRounds - round
    <3>1. remainingVotes = MaxRounds - round + 1 /\ MaxRounds \in Int /\ round \in Int
      BY SizeFacts DEF RoundInv, Running, CardsTypeOK
    <3>2. QED BY <3>1 DEF VotesLeft
  <2>3. \/ winner' = "nower" /\ uncaught = 0
        \/ winner' = "donower" /\ uncaught > MaxRounds - round
    <3>1. uncaught \in Nat
      BY OneElement DEF TableOK
    <3>2. MaxRounds - round \in Int
      BY SizeFacts DEF CardsTypeOK
    <3>3. QED BY <2>1, <2>2, <3>1, <3>2 DEF VoteWinner
  <2>4. uncaught = 0 => donowers \subseteq eliminated'
    <3>1. donowers \ eliminated' \in SUBSET Seats
      BY DEF TableOK
    <3>2. QED BY <3>1, OneElement
  <2>5. QED BY <2>3, <2>4 DEF Justified
<1>28. ASSUME DropTurn PROVE Justified
  BY <1>28, <1>a DEF DropTurn, CallNextTurn
<1>29. ASSUME DropAbsorbed PROVE Justified
  BY <1>29, <1>a DEF DropAbsorbed
<1>30. ASSUME Connected PROVE Justified
  BY <1>30, <1>a DEF Connected
<1>31. ASSUME Advance PROVE Justified
  BY <1>31, <1>a DEF Advance
<1>32. ASSUME Close PROVE Justified
  BY <1>32 DEF Close, Finish, Justified
<1>33. ASSUME NEW s \in Seats, Disconnect(s) PROVE Justified
  BY <1>33, <1>a DEF Disconnect, CallNextTurn
<1>34. ASSUME NEW s \in Seats, Reconnect(s) PROVE Justified
  BY <1>34, <1>a DEF Reconnect
<1>35. ASSUME NEW s \in Seats, GracePasses(s) PROVE Justified
  BY <1>35, <1>a DEF GracePasses
<1>36. ASSUME DeadlinePasses PROVE Justified
  BY <1>36, <1>a DEF DeadlinePasses
<1>37. ASSUME UNCHANGED vars PROVE Justified
  BY <1>37, <1>a DEF vars
<1>38. QED
  BY <1>1, <1>2, <1>3, <1>4, <1>5, <1>6, <1>7, <1>8, <1>9, <1>10, <1>11, <1>12, <1>13, <1>14,
     <1>15, <1>16, <1>17, <1>18, <1>19, <1>20, <1>21, <1>22, <1>23, <1>24, <1>25, <1>26, <1>27,
     <1>28, <1>29, <1>30, <1>31, <1>32, <1>33, <1>34, <1>35, <1>36, <1>37, PerkFacts
  DEF Next, Apply, Step, NextTurn, AdvanceStep, SetConnectedStep

\* A team wins only if the other one is caught or away, or if the donowers
\* outnumber the rounds that are left.
THEOREM VerdictsJustified == Spec => VerdictJustified
<1>1. MatchInv /\ [Next]_vars => [Justified]_vars
  BY VerdictStep DEF MatchInv, EngineInv, CardsInv
<1>2. QED BY <1>1, MatchInvariant, PTL DEF Spec, VerdictJustified, Justified

\* shuffleSpecialty never refuses for want of cards ("shuffle_pool"): the
\* board it collects already has a copy for every place it rebuilds.
PoolSuffices ==
  pc = "shuffle" =>
    Active # {} /\ Cardinality(SeedPlaces(Active)) <= Cardinality(ShuffledCards(Active))

\* A shuffle always finds enough cards.
THEOREM PoolSufficient == Spec => []PoolSuffices
<1>1. MatchInv => PoolSuffices
  <2> SUFFICES ASSUME MatchInv, pc = "shuffle"
               PROVE  Active # {} /\ Cardinality(SeedPlaces(Active)) <= Cardinality(ShuffledCards(Active))
    BY DEF PoolSuffices
  <2> DEFINE places == SeedPlaces(Active)
             pool == ShuffledCards(Active)
  <2>1. /\ CardsTypeOK /\ BoardRegistered /\ BoardTyped /\ BoardShape /\ BoardSeats
        /\ HandlerOK /\ ControlInv /\ RoundInv
    BY DEF MatchInv, EngineInv, CardsInv, Conservation
  <2>2. Running
    BY <2>1 DEF ControlInv
  <2>3. Active # {}
    <3>1. Active \in SUBSET Seats /\ Cardinality(Active) >= 2
      BY <2>1, <2>2, EnoughActive
    <3>2. QED BY <3>1, OneElement
  <2>4. places \subseteq DOMAIN board
    <3>1. CASE MakeRoom
      BY <2>1, <3>1 DEF SeedPlaces, BoardShape
    <3>2. CASE BadBargains
      <4>1. ~MakeRoom /\ ~TopThat
        BY <3>2 DEF BadBargains, MakeRoom, TopThat
      <4>2. QED BY <2>1, <2>2, <3>2, <4>1 DEF SeedPlaces, BoardSeats
    <3>3. CASE TopThat
      <4>1. ~MakeRoom /\ ~BadBargains /\ ListMode
        BY <3>3 DEF BadBargains, MakeRoom, TopThat, ListMode
      <4>2. board \in Seq(Copy) /\ board # << >>
        BY <2>1, <3>3, <4>1 DEF BoardTyped, BoardShape
      <4>3. 1 \in DOMAIN board
        BY <4>2
      <4>4. QED BY <3>3, <4>1, <4>3 DEF SeedPlaces
    <3>4. CASE ~MakeRoom /\ ~BadBargains /\ ~TopThat
      BY <3>4 DEF SeedPlaces
    <3>5. QED BY <3>1, <3>2, <3>3, <3>4
  <2>5. pool \subseteq Copy /\ \A p \in places : board[p] \in pool
    BY <2>1, <2>4 DEF ShuffledCards, Range, CardsTypeOK, Active
  <2>6. IsFiniteSet(pool)
    BY <2>5, DealAssumption, FS_Subset
  <2>7. \A p, q \in places : board[p] = board[q] => p = q
    BY <2>1, <2>4 DEF BoardRegistered
  <2> HIDE DEF places, pool
  <2>8. [p \in places |-> board[p]] \in Injection(places, pool)
    BY <2>5, <2>7 DEF Injection, IsInjective
  <2>9. Cardinality(places) <= Cardinality(pool)
    BY <2>6, <2>8, FS_Injection
  <2>10. QED BY <2>3, <2>9 DEF places, pool
<1>2. QED BY <1>1, MatchInvariant, PTL
=============================================================================
