------------------------------ MODULE TextMatch ------------------------------
(***************************************************************************)
(* The authoritative engine of one text match (server/internal/game):      *)
(* rounds of turns, discussion, ballot, result; seats that drop, return    *)
(* late or stay away; specialties; the verdict.                            *)
(*                                                                         *)
(* TextMatch.serial makes handlers mutually exclusive.  A handler here is  *)
(* the chain of steps between two states with pc = "idle"; time passes     *)
(* only at idle because a handler reads the clock once.  pc names the      *)
(* function being run, ret where nextTurn returns to, who the seat a       *)
(* SetConnected is about, steps the iteration of advance's loop.           *)
(*                                                                         *)
(* Time is abstracted to `expired` (now >= Deadline) and, per seat, to     *)
(* whether the reconnect grace runs or is due; the two tick independently. *)
(* Requests the engine refuses change nothing and have no action.  Points, *)
(* pokes, chat and the evidence history do not influence the control and   *)
(* are left out.                                                           *)
(***************************************************************************)
EXTENDS TextCards

CONSTANTS
  TurnOrders(_),        \* the orders beginRound's shuffle may give the active seats
  DonowerDeals,         \* the sets of seats NewTextMatch may make donowers
  SpecialtyDeals,       \* the functions seat -> specialty it may deal
  RoundStartCountdown,  \* timers.round_start_countdown; may be 0
  PenalizeAbandon,      \* m.penalizeAbandon: live Quick Play
  DevEnabled,           \* m.devEnabled
  Clients(_, _),        \* bound: in the deal with these donowers, the seats whose
                        \* clients send this kind of action
  Droppable(_),         \* bound: ... and the seats whose connection may drop
  Closable              \* bound: whether the server may close the match

NoSpecialty == ""
Specialties == {NoSpecialty, "pass", "reveal", "one_more_free_card", "shuffle", "revote"}

ASSUME MatchAssumption ==
  /\ \A A \in SUBSET Seats : \A f \in TurnOrders(A) : IsArrangement(f, A)
  /\ \A D \in DonowerDeals : D \in SUBSET Seats /\ Cardinality(D) = MaxRounds - 1
  /\ SpecialtyDeals \subseteq [Seats -> Specialties]
  /\ RoundStartCountdown \in Nat
  /\ PenalizeAbandon \in BOOLEAN
  /\ DevEnabled \in BOOLEAN
  /\ \A D \in DonowerDeals : Droppable(D) \subseteq Seats
  /\ Closable \in BOOLEAN

VARIABLES
  donowers,                                           \* seats whose Role is donower
  phase, turn, order, expired, ready,                 \* Phase, Turn, Order, Deadline, Ready
  connected, grace, absent, abandoned,                \* per-seat connection state
  votes, ballotKind, candidates, ballotResult,        \* the ballot
  eliminated, remainingVotes, outcome, winner,
  awarded,                                            \* ordinals (rounds) of issued awards
  specialty, freeDraws, revealTarget, revealUsed, shuffleUsed, revoteUsed,
  pc, ret, who, steps

phaseVars == <<phase, turn, expired, ready>>
seatVars == <<connected, grace, absent, abandoned>>
ballotVars == <<votes, ballotKind, candidates, ballotResult>>
resultVars == <<eliminated, remainingVotes, awarded, outcome, winner>>
perkVars == <<specialty, freeDraws, revealTarget, revealUsed, shuffleUsed, revoteUsed>>
dealVars == <<donowers, order>>
ctlVars == <<pc, ret, who, steps>>
vars == <<cardVars, phaseVars, seatVars, ballotVars, resultVars, perkVars, dealVars, ctlVars>>

VotingPhases == {"knowoff", "runoff"}
ReadyPhases == VotingPhases \cup {"discussion", "result"}
Phases == ReadyPhases \cup {"round_start", "play", "trade_response", "verdict"}

NoKind == ""
NoVotes == [s \in Seats |-> NoSeat]
NoResult == [kind |-> "none", seat |-> NoSeat]
Miss == [kind |-> "miss", seat |-> NoSeat]
Elimination(s) == [kind |-> "elimination", seat |-> s]

Active == Seats \ eliminated
Nowers == Seats \ donowers

\* Mutant: the loop gives up after one round of forced transitions.
LoopBudget_OneRound == 6

\* The bound of advance's loop.
LoopBudget == 12

\* Result is still nil: what advance and finish check first.
Running == outcome = "none"

-----------------------------------------------------------------------------
(***************************************************************************)
(* Helpers of the handlers.                                                *)
(***************************************************************************)

\* TextMatch.phase: a fresh deadline, nobody ready.  Only the verdict and a
\* round_start configured with a zero countdown expire at once.
EnterPhase(p) ==
  /\ phase' = p
  /\ ready' = {}
  /\ expired' = (p = "verdict" \/ (p = "round_start" /\ RoundStartCountdown = 0))

\* TextMatch.current.
Current == IF turn \in 1 .. Len(order) THEN order[turn] ELSE NoSeat

\* nextTurn/advance: a Bad Bargains turn needs another connected active seat.
Eligible(s) == BadBargains => \E t \in (Active \cap connected) : t # s

AllReady == (Active \cap connected) \subseteq ready

\* autoPass for a timeout or a disconnect: a card of the seat is lost, if any.
LoseCard(s) == IF hand[s] # {} THEN \E c \in hand[s] : Discard(s, c)
                               ELSE UNCHANGED cardVars

\* nextTurn(s, now), continuing at r when the turn is settled.
CallNextTurn(r) == pc' = "turn" /\ ret' = r

\* How advance returns: to the reconnect that ran it first, or to the caller.
AdvanceReturns ==
  /\ pc' = IF who # NoSeat THEN "connect" ELSE "idle"
  /\ steps' = 0
  /\ UNCHANGED <<ret, who>>

\* Mutant: a forced transition leaves the offer pending.
CancelOffer_Skipped == UNCHANGED cardVars

\* finish and the shuffle cancel a pending offer ("forced_transition").
CancelOffer == IF offer # NoOffer THEN SettleOffer(FALSE) ELSE UNCHANGED cardVars

\* A fresh ballot among the given seats.
ResetBallot(kind, seats) ==
  ballotKind' = kind /\ candidates' = seats /\ votes' = NoVotes

\* finish: a pending offer is cancelled, the result is fixed, the clock stops.
Finish(result, team) ==
  /\ outcome' = result
  /\ winner' = team
  /\ EnterPhase("verdict")
  /\ turn' = 0
  /\ CancelOffer

-----------------------------------------------------------------------------
(***************************************************************************)
(* nextTurn and, through autoPass, its recursion: one step per seat.       *)
(***************************************************************************)

\* Every seat had its turn.
TurnEnds ==
  /\ pc = "turn"
  /\ turn >= Len(order)
  /\ turn' = Len(order)
  /\ EnterPhase("discussion")
  /\ pc' = ret /\ UNCHANGED <<ret, who, steps>>
  /\ UNCHANGED <<cardVars, seatVars, ballotVars, resultVars, perkVars, dealVars>>

TurnSkipsDisconnected ==
  /\ pc = "turn"
  /\ turn < Len(order)
  /\ order[turn + 1] \notin connected
  /\ turn' = turn + 1
  /\ EnterPhase("play")
  /\ LoseCard(order[turn + 1])
  /\ UNCHANGED <<seatVars, ballotVars, resultVars, perkVars, dealVars, ctlVars>>

TurnSkipsNoRecipient ==
  /\ pc = "turn"
  /\ turn < Len(order)
  /\ order[turn + 1] \in connected
  /\ ~Eligible(order[turn + 1])
  /\ turn' = turn + 1
  /\ EnterPhase("play")
  /\ UNCHANGED <<cardVars, seatVars, ballotVars, resultVars, perkVars, dealVars, ctlVars>>

TurnStarts ==
  /\ pc = "turn"
  /\ turn < Len(order)
  /\ order[turn + 1] \in connected
  /\ Eligible(order[turn + 1])
  /\ turn' = turn + 1
  /\ EnterPhase("play")
  /\ pc' = ret /\ UNCHANGED <<ret, who, steps>>
  /\ UNCHANGED <<cardVars, seatVars, ballotVars, resultVars, perkVars, dealVars>>

NextTurn == TurnEnds \/ TurnSkipsDisconnected \/ TurnSkipsNoRecipient \/ TurnStarts

-----------------------------------------------------------------------------
(***************************************************************************)
(* Apply: the requests of a connected, active seat before the deadline.    *)
(***************************************************************************)

Acting(s, kind) ==
  /\ pc = "idle"
  /\ s \in Clients(donowers, kind)
  /\ ~expired
  /\ s \in connected \cap Active

\* act's check for the mode's main action and the private specialties.
OnTurn(s, kind) == Acting(s, kind) /\ phase = "play" /\ Current = s

\* respond, place, top.
PlayCard(s) ==
  /\ OnTurn(s, "play")
  /\ s \notin freeDraws
  /\ \E c \in Copy : PlayToList(s, c)
  /\ CallNextTurn("idle") /\ UNCHANGED <<who, steps>>
  /\ UNCHANGED <<phaseVars, seatVars, ballotVars, resultVars, perkVars, dealVars>>

Replace(s) ==
  /\ OnTurn(s, "play")
  /\ s \notin freeDraws
  /\ \E c \in Copy : \E slot \in 0 .. 2 : ReplaceSlot(s, c, slot)
  /\ CallNextTurn("idle") /\ UNCHANGED <<who, steps>>
  /\ UNCHANGED <<phaseVars, seatVars, ballotVars, resultVars, perkVars, dealVars>>

Offer(s, t) ==
  /\ OnTurn(s, "offer")
  /\ s \notin freeDraws
  /\ t \in connected \cap Active
  /\ \E c, d \in Copy : MakeOffer(s, t, c, d)
  /\ EnterPhase("trade_response")
  /\ UNCHANGED <<turn, seatVars, ballotVars, resultVars, perkVars, dealVars, ctlVars>>

ResolveOffer(s, accept) ==
  /\ Acting(s, "offer")
  /\ phase = "trade_response"
  /\ offer # NoOffer
  /\ offer.recipient = s
  /\ SettleOffer(accept)
  /\ CallNextTurn("idle") /\ UNCHANGED <<who, steps>>
  /\ UNCHANGED <<phaseVars, seatVars, ballotVars, resultVars, perkVars, dealVars>>

\* Draw: the free draw is used first; the rest cost points.
Draw(s) ==
  /\ OnTurn(s, "draw")
  /\ \E n \in 1 .. Len(reserve[s]) : DrawCards(s, n)
  /\ freeDraws' = freeDraws \ {s}
  /\ UNCHANGED <<specialty, revealTarget, revealUsed, shuffleUsed, revoteUsed>>
  /\ UNCHANGED <<phaseVars, seatVars, ballotVars, resultVars, dealVars, ctlVars>>

\* Ready runs advance before the request commits.
MarkReady(s) ==
  /\ Acting(s, "ready")
  /\ phase \in ReadyPhases
  /\ ready' = ready \cup {s}
  /\ pc' = "entry" /\ UNCHANGED <<ret, who, steps>>
  /\ UNCHANGED <<phase, turn, expired>>
  /\ UNCHANGED <<cardVars, seatVars, ballotVars, resultVars, perkVars, dealVars>>

\* Votes may be changed until the ballot resolves; a runoff only among the tied.
Vote(s, t) ==
  /\ Acting(s, "vote")
  /\ phase \in VotingPhases
  /\ t # s /\ t \in Active
  /\ phase = "runoff" => t \in candidates
  /\ votes' = [votes EXCEPT ![s] = t]
  /\ UNCHANGED <<ballotKind, candidates, ballotResult>>
  /\ UNCHANGED <<cardVars, phaseVars, seatVars, resultVars, perkVars, dealVars, ctlVars>>

-----------------------------------------------------------------------------
(***************************************************************************)
(* Specialties.                                                            *)
(***************************************************************************)

Pass(s) ==
  /\ OnTurn(s, "pass")
  /\ specialty[s] = "pass"
  /\ specialty' = [specialty EXCEPT ![s] = NoSpecialty]
  /\ CallNextTurn("idle") /\ UNCHANGED <<who, steps>>
  /\ UNCHANGED <<freeDraws, revealTarget, revealUsed, shuffleUsed, revoteUsed>>
  /\ UNCHANGED <<cardVars, phaseVars, seatVars, ballotVars, resultVars, dealVars>>

\* The lockout of the last seconds of a turn only refuses more reveals.
Reveal(s, t) ==
  /\ OnTurn(s, "reveal")
  /\ specialty[s] = "reveal"
  /\ t # s /\ t \in Active
  /\ specialty' = [specialty EXCEPT ![s] = NoSpecialty]
  /\ revealTarget' = t
  /\ revealUsed' = {}
  /\ UNCHANGED <<freeDraws, shuffleUsed, revoteUsed>>
  /\ UNCHANGED <<cardVars, phaseVars, seatVars, ballotVars, resultVars, dealVars, ctlVars>>

ViewReveal(s) ==
  /\ Acting(s, "reveal")
  /\ phase \notin {"round_start", "verdict"}
  /\ revealTarget \in Active
  /\ s \notin revealUsed
  /\ revealUsed' = revealUsed \cup {s}
  /\ UNCHANGED <<specialty, freeDraws, revealTarget, shuffleUsed, revoteUsed>>
  /\ UNCHANGED <<cardVars, phaseVars, seatVars, ballotVars, resultVars, dealVars, ctlVars>>

MayTakeFreeCard(s) ==
  specialty[s] = "one_more_free_card" /\ reserve[s] # <<>> /\ s \notin freeDraws

FreeCard(s) ==
  /\ OnTurn(s, "free_card")
  /\ MayTakeFreeCard(s)
  /\ specialty' = [specialty EXCEPT ![s] = NoSpecialty]
  /\ freeDraws' = freeDraws \cup {s}
  /\ UNCHANGED <<revealTarget, revealUsed, shuffleUsed, revoteUsed>>
  /\ UNCHANGED <<cardVars, phaseVars, seatVars, ballotVars, resultVars, dealVars, ctlVars>>

\* Any donower, in or out of turn; a pending offer is cancelled first.
Shuffle(s) ==
  /\ Acting(s, "shuffle")
  /\ phase \in {"play", "trade_response"}
  /\ specialty[s] = "shuffle" /\ s \in donowers /\ ~shuffleUsed
  /\ specialty' = [specialty EXCEPT ![s] = NoSpecialty]
  /\ shuffleUsed' = TRUE
  /\ CancelOffer
  /\ pc' = "shuffle" /\ UNCHANGED <<ret, who, steps>>
  /\ UNCHANGED <<freeDraws, revealTarget, revealUsed, revoteUsed>>
  /\ UNCHANGED <<phaseVars, seatVars, ballotVars, resultVars, dealVars>>

\* shuffleSpecialty: the pool is redealt and the round's turns start over.
ShuffleDeals ==
  /\ pc = "shuffle"
  /\ ShufflePool(Active)
  /\ turn' = 0
  /\ CallNextTurn("idle") /\ UNCHANGED <<who, steps>>
  /\ UNCHANGED <<phase, expired, ready>>
  /\ UNCHANGED <<seatVars, ballotVars, resultVars, perkVars, dealVars>>

\* Mutant: the one revote of the match is not remembered.
MayRevote_Again(s) == phase \in VotingPhases /\ specialty[s] = "revote" /\ s \in Nowers

\* Mutant: a revote also undoes an announced result.
MayRevote_AfterResult(s) ==
  /\ phase \in VotingPhases \cup {"result"}
  /\ specialty[s] = "revote" /\ s \in Nowers /\ ~revoteUsed

MayRevote(s) ==
  /\ phase \in VotingPhases
  /\ specialty[s] = "revote" /\ s \in Nowers /\ ~revoteUsed

\* A fresh knowoff ballot among all active seats, from knowoff or runoff.
Revote(s) ==
  /\ Acting(s, "revote")
  /\ MayRevote(s)
  /\ specialty' = [specialty EXCEPT ![s] = NoSpecialty]
  /\ revoteUsed' = TRUE
  /\ ResetBallot("knowoff", Active)
  /\ ballotResult' = NoResult
  /\ EnterPhase("knowoff")
  /\ UNCHANGED <<freeDraws, revealTarget, revealUsed, shuffleUsed>>
  /\ UNCHANGED <<turn, cardVars, seatVars, resultVars, dealVars, ctlVars>>

\* DevGrantSpecialty: a debug grant in a private prototype.
DevGrantSpecialty(s, kind) ==
  /\ pc = "idle"
  /\ DevEnabled /\ s \in Clients(donowers, "dev_grant")
  /\ phase # "verdict" /\ s \in connected \cap Active
  /\ specialty' = [specialty EXCEPT ![s] = kind]
  /\ UNCHANGED <<freeDraws, revealTarget, revealUsed, shuffleUsed, revoteUsed>>
  /\ UNCHANGED <<cardVars, phaseVars, seatVars, ballotVars, resultVars, dealVars, ctlVars>>

-----------------------------------------------------------------------------
(***************************************************************************)
(* advance: due graces, forfeits, then the phase loop.                     *)
(***************************************************************************)

DueGraces == {s \in Seats : s \notin connected /\ s \notin absent /\ grace[s] = "due"}

\* Advance, called by the manager when Clock() has passed.
Advance ==
  /\ pc = "idle"
  /\ phase # "verdict"
  /\ expired \/ DueGraces # {}
  /\ pc' = "entry" /\ UNCHANGED <<ret, who, steps>>
  /\ UNCHANGED <<cardVars, phaseVars, seatVars, ballotVars, resultVars, perkVars, dealVars>>

\* absenceEnd's verdict for a set of absent seats, "none" to play on.
AbsenceWinner(away) ==
  LET d == donowers \ eliminated
      n == Nowers \ eliminated
  IN CASE d # {} /\ d \subseteq away -> "nower"
       [] ~(d # {} /\ d \subseteq away) /\ n # {} /\ n \subseteq away -> "donower"
       [] OTHER -> "none"

LowPopulation(away) == Cardinality(connected) < 3 /\ (Seats \ connected) \subseteq away

AdvanceOver ==
  /\ pc = "entry"
  /\ ~Running
  /\ AdvanceReturns
  /\ UNCHANGED <<cardVars, phaseVars, seatVars, ballotVars, resultVars, perkVars, dealVars>>

AdvanceEntry ==
  LET away == absent \cup DueGraces IN
  /\ pc = "entry"
  /\ Running
  /\ absent' = away
  /\ abandoned' = IF PenalizeAbandon THEN abandoned \cup DueGraces ELSE abandoned
  /\ \/ /\ AbsenceWinner(away) # "none"
        /\ Finish("completed", AbsenceWinner(away))
        /\ AdvanceReturns
     \/ /\ AbsenceWinner(away) = "none" /\ LowPopulation(away)
        /\ Finish("scored_low_population", "none")
        /\ AdvanceReturns
     \/ /\ AbsenceWinner(away) = "none" /\ ~LowPopulation(away)
        /\ pc' = "loop" /\ UNCHANGED <<ret, who, steps>>
        /\ UNCHANGED <<cardVars, phaseVars, outcome, winner>>
  /\ UNCHANGED <<connected, grace, eliminated, remainingVotes, awarded>>
  /\ UNCHANGED <<ballotVars, perkVars, dealVars>>

Looping(p) == pc = "loop" /\ steps < LoopBudget /\ phase \in p
LoopAgain == pc' = "loop" /\ steps' = steps + 1 /\ UNCHANGED <<ret, who>>
LoopTurn == CallNextTurn("loop") /\ steps' = steps + 1 /\ UNCHANGED who

\* The cases in which an iteration finds nothing to do and advance returns.
NothingDue ==
  CASE phase \in {"round_start", "trade_response"} -> ~expired
    [] phase = "play" -> ~expired /\ Eligible(Current)
    [] phase \in ReadyPhases -> ~expired /\ ~AllReady
    [] OTHER -> TRUE

LoopWaits ==
  /\ Looping(Phases)
  /\ NothingDue
  /\ AdvanceReturns
  /\ UNCHANGED <<cardVars, phaseVars, seatVars, ballotVars, resultVars, perkVars, dealVars>>

LoopFirstTurn ==
  /\ Looping({"round_start"})
  /\ expired
  /\ LoopTurn
  /\ UNCHANGED <<cardVars, phaseVars, seatVars, ballotVars, resultVars, perkVars, dealVars>>

LoopNoRecipient ==
  /\ Looping({"play"})
  /\ ~Eligible(Current)
  /\ LoopTurn
  /\ UNCHANGED <<cardVars, phaseVars, seatVars, ballotVars, resultVars, perkVars, dealVars>>

LoopTimeout ==
  /\ Looping({"play"})
  /\ Eligible(Current) /\ expired
  /\ LoseCard(Current)
  /\ LoopTurn
  /\ UNCHANGED <<phaseVars, seatVars, ballotVars, resultVars, perkVars, dealVars>>

LoopOfferTimeout ==
  /\ Looping({"trade_response"})
  /\ expired
  /\ SettleOffer(FALSE)
  /\ LoopTurn
  /\ UNCHANGED <<phaseVars, seatVars, ballotVars, resultVars, perkVars, dealVars>>

LoopOpensBallot ==
  /\ Looping({"discussion"})
  /\ expired \/ AllReady
  /\ ResetBallot("knowoff", Active)
  /\ EnterPhase("knowoff")
  /\ LoopAgain
  /\ UNCHANGED <<ballotResult, turn, cardVars, seatVars, resultVars, perkVars, dealVars>>

\* resolveVote's tally over the connected active voters.
Tally(t) == Cardinality({s \in connected \cap Active : votes[s] = t})
Tied == {t \in Seats : Tally(t) > 0 /\ \A u \in Seats : Tally(u) <= Tally(t)}

LoopRunoff ==
  /\ Looping({"knowoff"})
  /\ expired \/ AllReady
  /\ Cardinality(Tied) > 1
  /\ ResetBallot("runoff", Tied)
  /\ EnterPhase("runoff")
  /\ LoopAgain
  /\ UNCHANGED <<ballotResult, turn, cardVars, seatVars, resultVars, perkVars, dealVars>>

\* resolveVote: the awards it issues are keyed by seat, kind and round; the
\* round is what `awarded` keeps of them.
LoopResolves ==
  /\ Looping(VotingPhases)
  /\ expired \/ AllReady
  /\ ~(phase = "knowoff" /\ Cardinality(Tied) > 1)
  /\ ballotResult' = IF Cardinality(Tied) = 1
                     THEN Elimination(CHOOSE t \in Tied : TRUE) ELSE Miss
  /\ awarded' = awarded \cup {round}
  /\ EnterPhase("result")
  /\ LoopAgain
  /\ UNCHANGED <<votes, ballotKind, candidates, turn, eliminated, remainingVotes, outcome, winner>>
  /\ UNCHANGED <<cardVars, seatVars, perkVars, dealVars>>

\* RemainingVotes after this vote.
VotesLeft == remainingVotes - 1

\* Mutant: off by one, the donowers win one vote early.
VoteWinner_Early(out, left) ==
  LET uncaught == Cardinality(donowers \ out) IN
  CASE uncaught = 0 -> "nower"
    [] uncaught > 0 /\ left <= uncaught -> "donower"
    [] OTHER -> "none"

\* finalizeVote's decision once the eliminated set is `out`: the winning
\* team, or "none" to begin another round.
VoteWinner(out, left) ==
  LET uncaught == Cardinality(donowers \ out) IN
  CASE uncaught = 0 -> "nower"
    [] uncaught > 0 /\ left < uncaught -> "donower"
    [] OTHER -> "none"

LoopFinalizes ==
  LET out  == eliminated \cup (IF ballotResult.seat \in Seats THEN {ballotResult.seat} ELSE {})
      left == VotesLeft
  IN
  /\ Looping({"result"})
  /\ expired \/ AllReady
  /\ eliminated' = out
  /\ remainingVotes' = left
  /\ \/ /\ VoteWinner(out, left) # "none"
        /\ Finish("completed", VoteWinner(out, left))
        /\ AdvanceReturns
        /\ UNCHANGED <<order, ballotVars, perkVars>>
     \/ /\ VoteWinner(out, left) = "none"
        /\ BeginRound(Seats \ out)
        /\ order' \in TurnOrders(Seats \ out)
        /\ turn' = 0
        /\ EnterPhase("round_start")
        /\ ResetBallot(NoKind, {}) /\ ballotResult' = NoResult
        /\ freeDraws' = {} /\ revealTarget' = NoSeat /\ revealUsed' = {}
        /\ LoopAgain
        /\ UNCHANGED <<outcome, winner, specialty, shuffleUsed, revoteUsed>>
  /\ UNCHANGED <<awarded, donowers, seatVars>>

AdvanceStep ==
  \/ AdvanceOver \/ AdvanceEntry \/ LoopWaits \/ LoopFirstTurn \/ LoopNoRecipient
  \/ LoopTimeout \/ LoopOfferTimeout \/ LoopOpensBallot \/ LoopRunoff \/ LoopResolves
  \/ LoopFinalizes

-----------------------------------------------------------------------------
(***************************************************************************)
(* SetConnected and Close.                                                 *)
(***************************************************************************)

\* Mutant: only the proposer's drop cancels an offer.
InOffer_Proposer(s) == offer # NoOffer /\ s = offer.proposer

InOffer(s) == offer # NoOffer /\ s \in {offer.proposer, offer.recipient}

\* SetConnected(seat, false): grace starts; an offer of the seat is cancelled.
Disconnect(s) ==
  /\ pc = "idle"
  /\ s \in Droppable(donowers) \cap connected
  /\ connected' = connected \ {s}
  /\ grace' = [grace EXCEPT ![s] = "running"]
  /\ who' = s
  /\ IF InOffer(s)
     THEN SettleOffer(FALSE) /\ CallNextTurn("drop")
     ELSE UNCHANGED <<cardVars, ret>> /\ pc' = "drop"
  /\ UNCHANGED <<steps, absent, abandoned>>
  /\ UNCHANGED <<phaseVars, ballotVars, resultVars, perkVars, dealVars>>

\* ... the turn of the seat passes ...
DropTurn ==
  /\ pc = "drop"
  /\ IF phase = "play" /\ Current = who
     THEN LoseCard(who) /\ CallNextTurn("absorb")
     ELSE pc' = "absorb" /\ UNCHANGED <<cardVars, ret>>
  /\ UNCHANGED <<who, steps>>
  /\ UNCHANGED <<phaseVars, seatVars, ballotVars, resultVars, perkVars, dealVars>>

\* Mutant: the vote of a dropped seat stays in the ballot.
WithdrawnVotes_Kept(s) == votes

WithdrawnVotes(s) ==
  IF s \in Active /\ phase \in VotingPhases THEN [votes EXCEPT ![s] = NoSeat] ELSE votes

\* ... its vote is withdrawn and it counts as ready; then advance.
DropAbsorbed ==
  /\ pc = "absorb"
  /\ votes' = WithdrawnVotes(who)
  /\ ready' = IF who \in Active /\ phase \in ReadyPhases THEN ready \cup {who} ELSE ready
  /\ pc' = "entry" /\ who' = NoSeat
  /\ UNCHANGED <<ret, steps, phase, turn, expired, ballotKind, candidates, ballotResult>>
  /\ UNCHANGED <<cardVars, seatVars, resultVars, perkVars, dealVars>>

\* Mutant: a late reconnect simply replaces the connection state.
LateReconnect_Ignored(s) == FALSE

LateReconnect(s) == grace[s] = "due"

\* SetConnected(seat, true): with the grace already due the whole of advance
\* runs first, so that the expired grace is recorded as it happened.
Reconnect(s) ==
  /\ pc = "idle"
  /\ s \in Seats \ connected
  /\ who' = s
  /\ pc' = IF LateReconnect(s) THEN "entry" ELSE "connect"
  /\ UNCHANGED <<ret, steps>>
  /\ UNCHANGED <<cardVars, phaseVars, seatVars, ballotVars, resultVars, perkVars, dealVars>>

Connected ==
  /\ pc = "connect"
  /\ connected' = connected \cup {who}
  /\ absent' = absent \ {who}
  /\ grace' = [grace EXCEPT ![who] = "none"]
  /\ pc' = "entry" /\ who' = NoSeat
  /\ UNCHANGED <<ret, steps, abandoned>>
  /\ UNCHANGED <<cardVars, phaseVars, ballotVars, resultVars, perkVars, dealVars>>

Close ==
  /\ pc = "idle"
  /\ Running
  /\ Closable
  /\ Finish("interrupted", "none")
  /\ UNCHANGED <<eliminated, remainingVotes, awarded>>
  /\ UNCHANGED <<seatVars, ballotVars, perkVars, dealVars, ctlVars>>

SetConnectedStep == DropTurn \/ DropAbsorbed \/ Connected

-----------------------------------------------------------------------------
(***************************************************************************)
(* Time.                                                                   *)
(***************************************************************************)

DeadlinePasses ==
  /\ pc = "idle" /\ ~expired
  /\ expired' = TRUE
  /\ UNCHANGED <<phase, turn, ready>>
  /\ UNCHANGED <<cardVars, seatVars, ballotVars, resultVars, perkVars, dealVars, ctlVars>>

GracePasses(s) ==
  /\ pc = "idle" /\ grace[s] = "running"
  /\ grace' = [grace EXCEPT ![s] = "due"]
  /\ UNCHANGED <<connected, absent, abandoned>>
  /\ UNCHANGED <<cardVars, phaseVars, ballotVars, resultVars, perkVars, dealVars, ctlVars>>

-----------------------------------------------------------------------------

\* NewTextMatch: everybody connected, the first round begun.
Init ==
  /\ CardsInit
  /\ donowers \in DonowerDeals
  /\ order \in TurnOrders(Seats)
  /\ specialty \in SpecialtyDeals
  /\ phase = "round_start" /\ turn = 0 /\ ready = {}
  /\ expired = (RoundStartCountdown = 0)
  /\ connected = Seats /\ grace = [s \in Seats |-> "none"]
  /\ absent = {} /\ abandoned = {}
  /\ votes = NoVotes /\ ballotKind = NoKind /\ candidates = {} /\ ballotResult = NoResult
  /\ eliminated = {} /\ remainingVotes = MaxRounds /\ awarded = {}
  /\ outcome = "none" /\ winner = "none"
  /\ freeDraws = {} /\ revealTarget = NoSeat /\ revealUsed = {}
  /\ shuffleUsed = FALSE /\ revoteUsed = FALSE
  /\ pc = "idle" /\ ret = "idle" /\ who = NoSeat /\ steps = 0

Apply ==
  \E s \in Seats :
    \/ PlayCard(s) \/ Replace(s) \/ Draw(s) \/ MarkReady(s)
    \/ Pass(s) \/ ViewReveal(s) \/ FreeCard(s) \/ Shuffle(s) \/ Revote(s)
    \/ \E t \in Seats : Offer(s, t) \/ Vote(s, t) \/ Reveal(s, t)
    \/ \E accept \in BOOLEAN : ResolveOffer(s, accept)
    \/ \E kind \in Specialties : DevGrantSpecialty(s, kind)

Step == NextTurn \/ ShuffleDeals \/ AdvanceStep \/ SetConnectedStep

Next ==
  \/ Apply
  \/ Step
  \/ Advance
  \/ Close
  \/ \E s \in Seats : Disconnect(s) \/ Reconnect(s) \/ GracePasses(s)
  \/ DeadlinePasses

Spec == Init /\ [][Next]_vars

\* The steps that start a phase, and with it a new deadline.
PhaseEntered ==
  \/ NextTurn \/ LoopOpensBallot \/ LoopRunoff \/ LoopResolves \/ LoopFinalizes
  \/ \E s \in Seats : Revote(s) \/ \E t \in Seats : Offer(s, t)

\* A handler that holds the lock runs to its end (WF on its steps); the
\* manager's ticker keeps calling Advance once Clock() has passed (WF); and
\* real time reaches a deadline however often handlers run (SF), unless the
\* phase is left or restarted for ever, which fairness must not rule out.
Fairness ==
  /\ WF_vars(Step)
  /\ WF_vars(Advance)
  /\ []<><<PhaseEntered>>_vars \/ SF_vars(DeadlinePasses)

FairSpec == Spec /\ Fairness

-----------------------------------------------------------------------------
(***************************************************************************)
(* Properties.                                                             *)
(***************************************************************************)

\* A played turn belongs to a seat that can play it, and an offer is pending
\* exactly in trade_response, between two seats that can settle it: what
\* Snapshot.Validate and validateBallot demand (current_seat, missing_offer,
\* offer_participant, offer_proposer_turn, inactive_current_seat).
TurnShape ==
  /\ phase \in {"play", "trade_response"} => Current \in Active \cap connected
  /\ offer # NoOffer <=> phase = "trade_response"
  /\ offer # NoOffer => /\ offer.proposer = Current
                        /\ offer.recipient \in Active \cap connected

\* What validateBallot demands of the ballot it projects.
BallotShape ==
  phase \in VotingPhases \cup {"result"} =>
    /\ phase # "result" => ballotKind = phase /\ ballotResult = NoResult
    /\ phase = "result" => ballotKind \in VotingPhases /\ ballotResult # NoResult
    /\ Cardinality(candidates) >= 2 /\ candidates \subseteq Active
    /\ ballotKind = "knowoff" => candidates = Active
    /\ \A s \in Seats : votes[s] # NoSeat =>
         s \in Active /\ votes[s] \in candidates /\ votes[s] # s
    /\ ballotResult.seat # NoSeat => ballotResult.seat \in candidates

\* Every state a handler hands to persist passes Snapshot.Validate: the check
\* in validateState never fails, so no interleaving of drops, late reconnects,
\* shuffles and timeouts can wedge a match by making advance refuse forever.
SnapshotValid == pc = "idle" => TurnShape /\ BallotShape /\ BoardShape

\* A handler that has the lock can always finish: advance never runs out of
\* its iteration budget ("text phase transition bound exceeded") and a
\* shuffle always finds enough cards ("shuffle_pool").
HandlerCompletes == pc # "idle" => ENABLED Step

\* The result that is announced and finalized is the one the recorded votes
\* give, although voters may drop, return and change their vote: a strict
\* plurality eliminates, anything else is a miss (validateEvidence).
CountedBallot ==
  LET count(t) == Cardinality({s \in Seats : votes[s] = t}) IN
  phase = "result" =>
    \A t \in Seats : ballotResult = Elimination(t) <=>
      count(t) > 0 /\ \A u \in Seats \ {t} : count(u) < count(t)

\* A team wins only if the other one is caught or away, or if the donowers
\* outnumber the rounds that are left.
VerdictJustified ==
  [][outcome = "none" /\ outcome' = "completed" =>
       \/ winner' = "nower" /\ donowers \subseteq eliminated' \cup absent'
       \/ winner' = "donower" /\ Nowers \subseteq eliminated' \cup absent'
       \/ winner' = "donower" /\ Cardinality(donowers \ eliminated') > MaxRounds - round]_vars

\* An expired grace of a penalized match is never forgotten: a reconnect that
\* arrives before the timer clears it only after it was recorded, or when the
\* match is over.
NoLostAbandon ==
  [][\A s \in Seats :
       PenalizeAbandon /\ grace[s] = "due" /\ grace'[s] # "due" =>
         s \in abandoned' \/ outcome # "none"]_vars

\* Award receipts are keyed by (match, seat, kind, round).  When a ballot is
\* resolved no receipt of its round exists yet, so none is swallowed as a
\* replay.
AwardsFresh ==
  [][phase # "result" /\ phase' = "result" =>
       round \notin awarded]_vars

\* The cards follow their discipline: this module implements TextCards.  It is
\* CardsSpec, with the stuttering steps first because most steps are.
FollowsCards == CardsInit /\ [][UNCHANGED cardVars \/ CardsNext]_cardVars

\* Every match reaches a verdict, however seats flap, unless time stops.
MatchEnds == <>(phase = "verdict")
=============================================================================
