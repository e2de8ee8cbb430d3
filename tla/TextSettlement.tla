--------------------------- MODULE TextSettlement ---------------------------
(***************************************************************************)
(* The value of text matches in the database: awards during a match, the   *)
(* outcome, the settlement of every account, the interruption, and the     *)
(* closing of a leaderboard week (server/internal/store/text_settlement.go,*)
(* text_week.go, text_delivery.go, text_privacy_value.go).                 *)
(*                                                                         *)
(* Each action is one committed transaction.  The row locks of the code    *)
(* (match, week, account, day bucket) serialize them; a transaction that   *)
(* fails or is rolled back is a step that is not taken.  A caller that     *)
(* lost the reply repeats its call, so every action may be taken again     *)
(* with the same arguments.                                                *)
(***************************************************************************)
EXTENDS Integers, FiniteSets, FiniteSetsExt

CONSTANTS
    Accounts, Matches,
    Seats,          \* Seats[m]: the accounts admitted to match m
    Contracts,      \* Contracts[m]: the eligibilities match m may have been prepared with
    Outcomes,       \* Outcomes[m]: the results match m may have (winners and absent seats)
    Rounds,         \* the ordinals of vote awards
    Amount,         \* Amount[kind]: the Noin of an award, pinned with the match
    Cap,            \* Noin.DailyEarnCap
    CountCap,       \* LiveOps.LeaderboardDailyCountedMatches
    MinHumans,      \* Liquidity.NoinMinHumans and LeaderboardMinHumans
    WeekDays,       \* days of a leaderboard week
    MaxDay          \* bound: the last day of the calendar

Kinds == {"correct_vote", "match_completed", "win", "daily_first_win"}

ASSUME SettlementAssumption ==
    /\ Seats \in [Matches -> SUBSET Accounts]
    /\ Contracts \in [Matches -> SUBSET {"none", "rewards", "ranked"}]
    /\ \A m \in Matches : Outcomes[m] \subseteq
           [kind : {"completed", "scored_low_population"}, won : SUBSET Seats[m], absent : SUBSET Seats[m]]
    /\ Amount \in [Kinds -> Nat \ {0}]
    /\ Rounds \subseteq Nat \ {0}
    /\ Cap \in Nat /\ CountCap \in Nat /\ MinHumans \in Nat
    /\ WeekDays \in Nat \ {0} /\ MaxDay \in Nat

Days == 0..MaxDay
Weeks == 0..(MaxDay \div WeekDays)
valueWeek(day) == day \div WeekDays
WeekEnd(w) == (w + 1) * WeekDays

NoOutcome == [kind |-> "none", won |-> {}, absent |-> {}]
Unranked == -1
NoMessage == [made |-> FALSE, body |-> [interrupted |-> FALSE, awards |-> {}]]
Message(effects) == [made |-> TRUE, body |-> effects]
NoEffects == [interrupted |-> FALSE, awards |-> {}]

VARIABLES
    now,            \* the server day
    gone,           \* accounts with a deletion fence
    match,          \* match[m]: the row of text_matches
    books,          \* wallets, ledger, day buckets, first wins and award receipts
    erasures,       \* text_value_erasure_dispositions
    settlement,     \* settlement[m][a]: state and effects in text_settlements
    outbox,         \* outbox[m][a]: the row of text_outbox
    board           \* leaderboard weeks, entries, daily counts and history

settlementVars == <<now, gone, match, books, erasures, settlement, outbox, board>>

eligible(m) == match[m].contract # "none"
Final(m) == match[m].state \in {"completed", "scored_low_population"}
receiptsOf(b, m, a) == {r \in b.receipts : r.match = m /\ r.account = a}
LedgerSum(b, a) == FoldSet(LAMBDA l, s : s + l.amount, 0, {l \in b.ledger : l.account = a})

SettlementInit ==
    /\ now = 0
    /\ gone = {}
    /\ \E c \in [Matches -> {"none", "rewards", "ranked"}] :
         /\ \A m \in Matches : c[m] \in Contracts[m]
         /\ match = [m \in Matches |-> [state |-> "prepared", contract |-> c[m],
                                        started |-> 0, ended |-> 0, outcome |-> NoOutcome]]
    /\ books = [wallet |-> [a \in Accounts |-> 0], ledger |-> {}, receipts |-> {}, firstWin |-> {},
                earned |-> [a \in Accounts |-> [d \in Days |-> 0]]]
    /\ erasures = {}
    /\ settlement = [m \in Matches |-> [a \in Accounts |-> [state |-> "none", effects |-> NoEffects]]]
    /\ outbox = [m \in Matches |-> [a \in Accounts |-> NoMessage]]
    /\ board = [closed |-> [w \in Weeks |-> FALSE], closing |-> [w \in Weeks |-> FALSE],
                entry |-> [w \in Weeks |-> [a \in Accounts |-> 0]],
                count |-> [a \in Accounts |-> [d \in Days |-> 0]],
                excluded |-> [w \in Weeks |-> {}], ordered |-> {}, answered |-> {},
                history |-> [w \in Weeks |-> [a \in Accounts |-> Unranked]]]

-----------------------------------------------------------------------------
(* awardTx: what one award of an account does to the books.                 *)

\* text_first_win_claims: one first win of an account and day.
firstWinClaimed(b, a, day) == \E c \in b.firstWin : c.account = a /\ c.day = day

\* What an award asks for, cut to what is left of the cap of its day.
awardCredit(b, a, kind, day, zero) ==
    LET old == \E l \in b.ledger : l.account = a /\ l.day = day /\ l.event = "daily_first_win"
        refused == zero \/ (kind = "daily_first_win" /\ (old \/ firstWinClaimed(b, a, day)))
    IN Max({0, Min({IF refused THEN 0 ELSE Amount[kind], Cap - b.earned[a][day]})})

bookAward(b, m, a, kind, ord, day, credited, claim) ==
    LET row == [account |-> a, event |-> kind, match |-> m, ordinal |-> ord, kind |-> kind,
                day |-> day, amount |-> credited]
        receipt == [match |-> m, account |-> a, kind |-> kind, ordinal |-> ord,
                    day |-> day, credited |-> credited]
        win == [account |-> a, day |-> day, match |-> m]
    IN [wallet |-> [b.wallet EXCEPT ![a] = @ + credited],
        earned |-> [b.earned EXCEPT ![a][day] = @ + credited],
        ledger |-> IF credited > 0 THEN b.ledger \cup {row} ELSE b.ledger,
        receipts |-> b.receipts \cup {receipt},
        firstWin |-> IF claim THEN b.firstWin \cup {win} ELSE b.firstWin]

awardTx(b, m, a, kind, ord, day, zero) ==
    IF \E r \in receiptsOf(b, m, a) : r.kind = kind /\ r.ordinal = ord THEN b
    ELSE bookAward(b, m, a, kind, ord, day, awardCredit(b, a, kind, day, zero),
                   kind = "daily_first_win" /\ ~zero /\ ~firstWinClaimed(b, a, day))

-----------------------------------------------------------------------------
(* The life of a match.  The engine fixes the time of an award or an        *)
(* outcome when it happens and keeps it through every retry, so the time of *)
(* a step is any day since the start.                                       *)

(* Bound: a start commits within the length of a week of the time that      *)
(* startMatch fixed for it, before the match was dealt and prepared.        *)
StartTimes == {day \in 0..now : day + WeekDays >= now}

\* Mutant: the row of the week is not looked at.
Start_WeekUnlocked(m, day) ==
    /\ match[m].state = "prepared"
    /\ match' = [match EXCEPT ![m].state = "started", ![m].started = day]
    /\ UNCHANGED <<now, gone, books, erasures, settlement, outbox, board>>

(* A ranked start makes and locks the row of its week, so that it comes     *)
(* before the cut-off or is refused (ErrWeekClosed).                        *)
Start(m, day) ==
    /\ match[m].state = "prepared"
    /\ match[m].contract = "ranked" =>
           ~board.closed[valueWeek(day)] /\ ~board.closing[valueWeek(day)]
    /\ match' = [match EXCEPT ![m].state = "started", ![m].started = day]
    /\ UNCHANGED <<now, gone, books, erasures, settlement, outbox, board>>

\* Mutant: an award is accepted in every state of its match.
Award_AnyState(m, a, ord, day) ==
    /\ day \in match[m].started..now
    /\ a \notin gone
    /\ books' = awardTx(books, m, a, "correct_vote", ord, day, ~eligible(m))
    /\ UNCHANGED <<now, gone, match, erasures, settlement, outbox, board>>

\* Mutant: the deletion fence of the account is not looked at.
Award_Fenceless(m, a, ord, day) ==
    /\ match[m].state = "started"
    /\ day \in match[m].started..now
    /\ books' = awardTx(books, m, a, "correct_vote", ord, day, ~eligible(m))
    /\ UNCHANGED <<now, gone, match, erasures, settlement, outbox, board>>

Award(m, a, ord, day) ==
    /\ match[m].state = "started"                                \* checkValueFence
    /\ day \in match[m].started..now
    /\ ~\E e \in erasures : e = [match |-> m, account |-> a, op |-> "award", ordinal |-> ord]
    /\ IF a \in gone
       THEN /\ ~\E r \in receiptsOf(books, m, a) : r.kind = "correct_vote" /\ r.ordinal = ord
            /\ erasures' = erasures \cup {[match |-> m, account |-> a, op |-> "award", ordinal |-> ord]}
            /\ UNCHANGED books
       ELSE /\ books' = awardTx(books, m, a, "correct_vote", ord, day, ~eligible(m))
            /\ UNCHANGED erasures
    /\ UNCHANGED <<now, gone, match, settlement, outbox, board>>

Finish(m, o, day) ==
    /\ match[m].state = "started"
    /\ day \in match[m].started..now
    /\ match[m].contract = "ranked" => ~board.closed[valueWeek(day)]
    /\ match' = [match EXCEPT ![m].state = o.kind, ![m].ended = day, ![m].outcome = o]
    /\ settlement' = [settlement EXCEPT ![m] =
            [a \in Accounts |-> IF a \in Seats[m] THEN [state |-> "pending", effects |-> NoEffects] ELSE @[a]]]
    /\ UNCHANGED <<now, gone, books, erasures, outbox, board>>

(* persistTextInterruption: no result is reconstructed; the awards that     *)
(* were committed during the match stay and are reported.                   *)
Interrupt(m) ==
    LET effects(a) == [interrupted |-> TRUE, awards |-> receiptsOf(books, m, a)]
    IN /\ match[m].state = "started"
       /\ match' = [match EXCEPT ![m].state = "interrupted", ![m].ended = now]
       /\ erasures' = erasures \cup {[match |-> m, account |-> a, op |-> "interruption", ordinal |-> 0] :
                                       a \in Seats[m] \cap gone}
       /\ settlement' = [settlement EXCEPT ![m] = [a \in Accounts |->
              IF a \notin Seats[m] THEN @[a]
              ELSE IF a \in gone THEN [state |-> "erased", effects |-> NoEffects]
              ELSE [state |-> "applied", effects |-> effects(a)]]]
       /\ outbox' = [outbox EXCEPT ![m] = [a \in Accounts |->
              IF a \in Seats[m] \ gone THEN Message(effects(a)) ELSE @[a]]]
       /\ UNCHANGED <<now, gone, books, board>>

-----------------------------------------------------------------------------
(* settle: one account of a finished match.  Not fenced by the ownership:   *)
(* the engine, the delivery worker of any process and the closing of a week *)
(* run it, in any order and more than once.                                 *)

(* The terminal awards, in the order of the code: the cap may cut the later.*)
TerminalAwards(b, m, a) ==
    LET o == match[m].outcome
        day == match[m].ended
        present == a \notin o.absent
        winner == present /\ a \in o.won /\ Cardinality(Seats[m]) >= MinHumans
        completed == IF present THEN awardTx(b, m, a, "match_completed", 0, day, ~eligible(m)) ELSE b
        won == IF winner THEN awardTx(completed, m, a, "win", 0, day, ~eligible(m)) ELSE completed
    IN IF winner THEN awardTx(won, m, a, "daily_first_win", 0, day, ~eligible(m)) ELSE won

(* Points of one match count as 1; an absent player has none unless the     *)
(* match was scored with a low population.                                  *)
points(m, a) ==
    IF a \in match[m].outcome.absent /\ match[m].state # "scored_low_population" THEN 0 ELSE 1

ranked(m) == match[m].contract = "ranked" /\ Cardinality(Seats[m]) >= MinHumans

ScoreBoard(m, a) ==
    LET day == match[m].ended
    IN IF ranked(m) /\ board.count[a][day] < CountCap
       THEN [board EXCEPT !.count[a][day] = @ + 1,
                          !.entry[valueWeek(day)][a] = @ + points(m, a)]
       ELSE board

settle(m, a) ==
    /\ Final(m)
    /\ settlement[m][a].state = "pending"          \* applied and erased: nothing is done
    /\ ranked(m) => ~board.closed[valueWeek(match[m].ended)]
    /\ IF a \in gone
       THEN /\ erasures' = erasures \cup {[match |-> m, account |-> a, op |-> "settlement", ordinal |-> 0]}
            /\ settlement' = [settlement EXCEPT ![m][a].state = "erased"]
            /\ UNCHANGED <<books, board, outbox>>
       ELSE /\ books' = TerminalAwards(books, m, a)
            /\ board' = ScoreBoard(m, a)
            /\ settlement' = [settlement EXCEPT ![m][a] =
                   [state |-> "applied",
                    effects |-> [interrupted |-> FALSE, awards |-> receiptsOf(books', m, a)]]]
            /\ outbox' = [outbox EXCEPT ![m][a] =
                   IF @.made THEN @ ELSE Message(settlement'[m][a].effects)]
            /\ UNCHANGED erasures
    /\ UNCHANGED <<now, gone, match>>

-----------------------------------------------------------------------------
(* CloseLeaderboardWeek: the cut-off is committed, pending outcomes of the  *)
(* week are settled (settle above, also by others), and a last transaction  *)
(* closes the week if nothing of it is left.                                *)

CutOff(w) ==
    /\ now >= WeekEnd(w)
    /\ ~board.closed[w]
    /\ board' = [board EXCEPT !.closing[w] = TRUE]
    /\ UNCHANGED <<now, gone, match, books, erasures, settlement, outbox>>

(* The row of a week is made by the first ranked start or outcome in it, or *)
(* by the cut-off (ensureValueWeek); the rows of matches stay.              *)
WeekKnown(w) ==
    \/ board.closing[w]
    \/ \E m \in Matches : /\ match[m].contract = "ranked"
                          /\ \/ match[m].state # "prepared" /\ valueWeek(match[m].started) = w
                             \/ Final(m) /\ valueWeek(match[m].ended) = w

(* Decide of an operator: an exclusion or its reversal before the cut-off,  *)
(* or the order to close, which is answered at once when the week is closed.*)
Decide(w, a) ==
    /\ WeekKnown(w)
    /\ ~board.closed[w] /\ ~board.closing[w]
    /\ board' = [board EXCEPT !.excluded[w] = IF a \in @ THEN @ \ {a} ELSE @ \cup {a}]
    /\ UNCHANGED <<now, gone, match, books, erasures, settlement, outbox>>

DecideClose(w) ==
    /\ WeekKnown(w)
    /\ now >= WeekEnd(w)
    /\ w \notin board.ordered
    /\ board' = [board EXCEPT !.closing[w] = @ \/ ~board.closed[w], !.ordered = @ \cup {w},
                             !.answered = IF board.closed[w] THEN @ \cup {w} ELSE @]
    /\ UNCHANGED <<now, gone, match, books, erasures, settlement, outbox>>

Ranking(w) == [a \in Accounts |-> IF a \in board.excluded[w] THEN Unranked ELSE board.entry[w][a]]

PendingOfWeek(w) ==
    \/ \E m \in Matches : /\ match[m].state = "started" /\ match[m].started < WeekEnd(w)
                          /\ match[m].contract = "ranked"
    \/ \E m \in Matches, a \in Accounts : /\ settlement[m][a].state = "pending"
                                          /\ valueWeek(match[m].ended) = w

\* Mutant: matches that still run are not waited for.
CloseWeek_RunningIgnored(w) ==
    /\ board.closing[w] /\ ~board.closed[w]
    /\ ~\E m \in Matches, a \in Accounts : /\ settlement[m][a].state = "pending"
                                           /\ valueWeek(match[m].ended) = w
    /\ board' = [board EXCEPT !.closed[w] = TRUE, !.history[w] = Ranking(w),
                             !.answered = board.ordered \cap (@ \cup {w})]
    /\ UNCHANGED <<now, gone, match, books, erasures, settlement, outbox>>

CloseWeek(w) ==
    /\ board.closing[w] /\ ~board.closed[w]
    /\ ~PendingOfWeek(w)
    /\ board' = [board EXCEPT !.closed[w] = TRUE, !.history[w] = Ranking(w),
                             !.answered = board.ordered \cap (@ \cup {w})]
    /\ UNCHANGED <<now, gone, match, books, erasures, settlement, outbox>>

(* The confirmed deletion of an account writes its fence; every value row   *)
(* of the account is retained.                                              *)
Erase(a) ==
    /\ a \notin gone
    /\ gone' = gone \cup {a}
    /\ UNCHANGED <<now, match, books, erasures, settlement, outbox, board>>

NextDay ==
    /\ now < MaxDay
    /\ now' = now + 1
    /\ UNCHANGED <<gone, match, books, erasures, settlement, outbox, board>>

(* Every transaction but the start of a match, which TextBonus completes.   *)
SettlementNext ==
    \/ NextDay
    \/ \E a \in Accounts : Erase(a)
    \/ \E m \in Matches :
         \/ Interrupt(m)
         \/ \E a \in Seats[m], ord \in Rounds, day \in Days : Award(m, a, ord, day)
         \/ \E o \in Outcomes[m], day \in Days : Finish(m, o, day)
         \/ \E a \in Seats[m] : settle(m, a)
    \/ \E w \in Weeks : CutOff(w) \/ CloseWeek(w) \/ DecideClose(w) \/ \E a \in Accounts : Decide(w, a)

=============================================================================
