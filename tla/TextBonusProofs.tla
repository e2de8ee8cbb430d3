-------------------------- MODULE TextBonusProofs --------------------------
(***************************************************************************)
(* What is proved of the value of text matches, for every number of        *)
(* accounts, matches, days, rounds and transactions: a closed week is      *)
(* complete, a bonus is earned and never refused because its sources       *)
(* disagree, and nothing of value is written for an erased account.        *)
(***************************************************************************)
EXTENDS TextBonus, TLAPS

MatchRows ==
    [state : {"prepared", "started", "completed", "scored_low_population", "interrupted"},
     contract : {"none", "rewards", "ranked"}, started : Days, ended : Days,
     outcome : [kind : {"none", "completed", "scored_low_population"},
                won : SUBSET Accounts, absent : SUBSET Accounts]]

(* What a settlement reports was booked.                                    *)
Settlements ==
    [state : {"none", "pending", "applied", "erased"},
     effects : [interrupted : BOOLEAN, awards : SUBSET books.receipts]]

Boards ==
    [closed : [Weeks -> BOOLEAN], closing : [Weeks -> BOOLEAN],
     entry : [Weeks -> [Accounts -> Int]], count : [Accounts -> [Days -> Int]],
     excluded : [Weeks -> SUBSET Accounts], ordered : SUBSET Weeks, answered : SUBSET Weeks,
     history : [Weeks -> [Accounts -> Int]]]

BooksShape(b) ==
    /\ b = [wallet |-> b.wallet, ledger |-> b.ledger, receipts |-> b.receipts,
            firstWin |-> b.firstWin, earned |-> b.earned]
    /\ b.wallet = [a \in Accounts |-> b.wallet[a]]
    /\ b.earned = [a \in Accounts |-> b.earned[a]]

TableShape(f) == DOMAIN f = Matches /\ \A m \in Matches : DOMAIN f[m] = Accounts

ValueTypes ==
    /\ now \in Days
    /\ gone \subseteq Accounts
    /\ match \in [Matches -> MatchRows]
    /\ BooksShape(books)
    /\ settlement \in [Matches -> [Accounts -> Settlements]]
    /\ board \in Boards
    /\ TableShape(outbox)
    /\ TableShape(bonus)
    /\ startPremium \in [Matches -> [Accounts -> {"none", "premium", "free"}]]

(* A match that has not ended has settled nobody, and nobody is settled who *)
(* had no seat.                                                             *)
NothingEarly ==
    \A m \in Matches, a \in Accounts :
        match[m].state \in {"prepared", "started"} \/ a \notin Seats[m] => settlement[m][a].state = "none"

(* What the settlement of a finished match reports is what the books hold:  *)
(* no award of that match and account is booked behind it.                  *)
SourcesAgree ==
    \A m \in Matches, a \in Accounts :
        Final(m) /\ settlement[m][a].state = "applied" => sourceAgrees(m, a)

(* A payment is for a match that has a result.                              *)
PaidOnResult == \A m \in Matches, a \in Accounts : bonus[m][a].paid => Final(m)

(* A week is cut off when it is over, and closed after that.                *)
CutOffOverdue ==
    \A w \in Weeks : /\ board.closing[w] => now >= WeekEnd(w)
                     /\ board.closed[w] => board.closing[w]

ValueInv ==
    /\ ValueTypes
    /\ NothingEarly
    /\ SourcesAgree
    /\ PaidOnResult
    /\ BonusIsEarned
    /\ CutOffOverdue
    /\ ClosedWeekComplete

-----------------------------------------------------------------------------
(* The operators of the model.                                              *)

(* Every day belongs to a week of the calendar (valueWeek).                 *)
LEMMA WeekOf ==
    ASSUME NEW day \in Days
    PROVE  valueWeek(day) \in Weeks
<1> DEFINE q == day \div WeekDays
           top == MaxDay \div WeekDays
<1>1. day \in Nat /\ MaxDay \in Nat /\ day <= MaxDay /\ WeekDays \in Nat \ {0}
  BY SettlementAssumption DEF Days
<1>2. q \in Int /\ top \in Int
  BY <1>1
<1>3. WeekDays * q <= day /\ day < WeekDays * q + WeekDays
  BY <1>1
<1>4. WeekDays * top <= MaxDay /\ MaxDay < WeekDays * top + WeekDays
  BY <1>1
<1>5. q >= 0
  BY <1>1
<1>6. q <= top
  BY <1>1
<1> QED
  BY <1>2, <1>5, <1>6 DEF valueWeek, Weeks

(* The end of a week is a day number (text_week.go).                        *)
LEMMA WeekEndInt ==
    ASSUME NEW w \in Weeks
    PROVE  WeekEnd(w) \in Int
BY SettlementAssumption DEF WeekEnd, Weeks

(* The length of a week lies between a day and the end of every later week  *)
(* than its own: a start so late that such a week may be closed is not      *)
(* committed (StartTimes).                                                  *)
LEMMA WeekGap ==
    ASSUME NEW day \in Days, NEW w \in Weeks, day < WeekEnd(w), w # valueWeek(day)
    PROVE  day + WeekDays < WeekEnd(w)
<1> DEFINE q == valueWeek(day)
<1>1. day \in Nat /\ WeekDays \in Nat \ {0} /\ w \in Nat
  BY SettlementAssumption DEF Days, Weeks
<1>2. q \in Int /\ WeekDays * q <= day /\ day < WeekDays * q + WeekDays
  BY <1>1 DEF valueWeek
<1>3. WeekEnd(w) = WeekDays * w + WeekDays
  BY <1>1 DEF WeekEnd
<1> HIDE DEF q
<1>4. ~(w + 1 <= q)
  <2> SUFFICES ASSUME w + 1 <= q PROVE FALSE
    OBVIOUS
  <2>1. WeekDays * (w + 1) <= WeekDays * q
    BY <1>1, <1>2
  <2> QED
    BY <1>1, <1>2, <1>3, <2>1
<1>5. q + 1 <= w
  BY <1>1, <1>2, <1>4 DEF q
<1>6. WeekDays * (q + 1) <= WeekDays * w
  BY <1>1, <1>2, <1>5
<1> QED
  BY <1>1, <1>2, <1>3, <1>6

(* Booking an award touches the wallet and the buckets of its account only, *)
(* and adds one receipt, of its match and account (bookAward).              *)
LEMMA BookFrame ==
    ASSUME NEW b, BooksShape(b), NEW m, NEW a \in Accounts, NEW kind, NEW ord, NEW day,
           NEW credited, NEW claim
    PROVE  LET c == bookAward(b, m, a, kind, ord, day, credited, claim) IN
           /\ BooksShape(c)
           /\ b.receipts \subseteq c.receipts
           /\ \A r \in c.receipts \ b.receipts : r.match = m /\ r.account = a
           /\ \A x \in Accounts \ {a} : c.wallet[x] = b.wallet[x]
<1> DEFINE row == [account |-> a, event |-> kind, match |-> m, ordinal |-> ord, kind |-> kind,
                   day |-> day, amount |-> credited]
           receipt == [match |-> m, account |-> a, kind |-> kind, ordinal |-> ord,
                       day |-> day, credited |-> credited]
           win == [account |-> a, day |-> day, match |-> m]
           wallet == [b.wallet EXCEPT ![a] = @ + credited]
           earned == [b.earned EXCEPT ![a][day] = @ + credited]
           ledger == IF credited > 0 THEN b.ledger \cup {row} ELSE b.ledger
           firstWin == IF claim THEN b.firstWin \cup {win} ELSE b.firstWin
           new == [wallet |-> wallet, earned |-> earned, ledger |-> ledger,
                   receipts |-> b.receipts \cup {receipt}, firstWin |-> firstWin]
           c == bookAward(b, m, a, kind, ord, day, credited, claim)
<1>3. receipt.match = m /\ receipt.account = a
  OBVIOUS
<1>4. new.receipts = b.receipts \cup {receipt}
  OBVIOUS
<1>5. \A x \in Accounts \ {a} : wallet[x] = b.wallet[x]
  BY DEF BooksShape
<1>6. BooksShape(new)
  <2> HIDE DEF receipt, ledger, firstWin
  <2>1. wallet = [x \in Accounts |-> wallet[x]]
    BY DEF BooksShape
  <2>2. earned = [x \in Accounts |-> earned[x]]
    BY DEF BooksShape
  <2> HIDE DEF wallet, earned
  <2> QED
    BY <2>1, <2>2 DEF BooksShape
<1>7. new.wallet = wallet
  OBVIOUS
<1>8. c = new
  BY DEF bookAward
<1> HIDE DEF new, c, receipt, wallet
<1>9. BooksShape(c)
  BY <1>6, <1>8
<1>10. b.receipts \subseteq c.receipts /\ \A r \in c.receipts \ b.receipts : r = receipt
  BY <1>8, <1>4
<1>11. \A x \in Accounts \ {a} : c.wallet[x] = b.wallet[x]
  BY <1>8, <1>7, <1>5
<1> QED
  BY <1>9, <1>10, <1>11, <1>3 DEF c

(* The same of an award that may be a replay (awardTx).                     *)
LEMMA AwardFrame ==
    ASSUME NEW b, BooksShape(b), NEW m, NEW a \in Accounts, NEW kind, NEW ord, NEW day, NEW zero
    PROVE  LET c == awardTx(b, m, a, kind, ord, day, zero) IN
           /\ BooksShape(c)
           /\ b.receipts \subseteq c.receipts
           /\ \A r \in c.receipts \ b.receipts : r.match = m /\ r.account = a
           /\ \A x \in Accounts \ {a} : c.wallet[x] = b.wallet[x]
<1> DEFINE credited == awardCredit(b, a, kind, day, zero)
           claim == kind = "daily_first_win" /\ ~zero /\ ~firstWinClaimed(b, a, day)
           c == awardTx(b, m, a, kind, ord, day, zero)
<1>1. c = b \/ c = bookAward(b, m, a, kind, ord, day, credited, claim)
  BY Zenon DEF awardTx
<1> HIDE DEF c, credited, claim
<1>2. CASE c = b
  BY <1>2 DEF c
<1>3. CASE c = bookAward(b, m, a, kind, ord, day, credited, claim)
  <2> DEFINE d == bookAward(b, m, a, kind, ord, day, credited, claim)
  <2>1. /\ BooksShape(d)
        /\ b.receipts \subseteq d.receipts
        /\ \A r \in d.receipts \ b.receipts : r.match = m /\ r.account = a
        /\ \A x \in Accounts \ {a} : d.wallet[x] = b.wallet[x]
    BY BookFrame
  <2> HIDE DEF d
  <2>2. c = d
    BY <1>3 DEF d
  <2>3. /\ BooksShape(c)
        /\ b.receipts \subseteq c.receipts
        /\ \A r \in c.receipts \ b.receipts : r.match = m /\ r.account = a
        /\ \A x \in Accounts \ {a} : c.wallet[x] = b.wallet[x]
    BY <2>1, <2>2
  <2> QED
    BY <2>3 DEF c
<1> QED
  BY <1>1, <1>2, <1>3

(* The same of the awards at the end of a match (TerminalAwards).           *)
LEMMA TerminalFrame ==
    ASSUME NEW m, NEW a \in Accounts, NEW b, BooksShape(b)
    PROVE  LET c == TerminalAwards(b, m, a) IN
           /\ BooksShape(c)
           /\ b.receipts \subseteq c.receipts
           /\ \A r \in c.receipts \ b.receipts : r.match = m /\ r.account = a
           /\ \A x \in Accounts \ {a} : c.wallet[x] = b.wallet[x]
<1> DEFINE o == match[m].outcome
           day == match[m].ended
           present == a \notin o.absent
           winner == present /\ a \in o.won /\ Cardinality(Seats[m]) >= MinHumans
           c1 == IF present THEN awardTx(b, m, a, "match_completed", 0, day, ~eligible(m)) ELSE b
           c2 == IF winner THEN awardTx(c1, m, a, "win", 0, day, ~eligible(m)) ELSE c1
           c3 == IF winner THEN awardTx(c2, m, a, "daily_first_win", 0, day, ~eligible(m)) ELSE c2
           Framed(x, y) ==
             /\ BooksShape(y)
             /\ x.receipts \subseteq y.receipts
             /\ \A r \in y.receipts \ x.receipts : r.match = m /\ r.account = a
             /\ \A z \in Accounts \ {a} : y.wallet[z] = x.wallet[z]
<1>0. \A x, kind, d : BooksShape(x) => Framed(x, awardTx(x, m, a, kind, 0, d, ~eligible(m)))
  <2> SUFFICES ASSUME NEW x, NEW kind, NEW d, BooksShape(x)
               PROVE  Framed(x, awardTx(x, m, a, kind, 0, d, ~eligible(m)))
    OBVIOUS
  <2> QED
    BY AwardFrame
<1>a. \A x : BooksShape(x) => Framed(x, x)
  OBVIOUS
<1>b. TerminalAwards(b, m, a) = c3
  BY Zenon DEF TerminalAwards
<1>c. \A x, y, z : Framed(x, y) /\ Framed(y, z) => Framed(x, z)
  OBVIOUS
<1>d. \A x, y : Framed(x, y) => BooksShape(y)
  OBVIOUS
<1> HIDE DEF Framed
<1>1. Framed(b, c1)
  BY <1>0, <1>a
<1>2. Framed(c1, c2)
  <2> HIDE DEF c1
  <2> QED BY <1>0, <1>a, <1>d, <1>1
<1>3. Framed(c2, c3)
  <2> HIDE DEF c2
  <2> QED BY <1>0, <1>a, <1>d, <1>2
<1>4. Framed(b, c3)
  <2> HIDE DEF c1, c2, c3
  <2> QED BY <1>c, <1>1, <1>2, <1>3
<1> QED
  BY <1>4, <1>b DEF Framed

(* A bonus writes no receipt and no wallet but that of its account          *)
(* (creditBonusItems).                                                      *)
LEMMA CreditFrame ==
    ASSUME NEW b, BooksShape(b), NEW a \in Accounts, NEW items
    PROVE  LET c == creditAll(b, a, items) IN
           /\ BooksShape(c)
           /\ c.receipts = b.receipts
           /\ \A x \in Accounts \ {a} : c.wallet[x] = b.wallet[x]
<1> DEFINE credited == FoldLeft(creditItem, b, items)
           wallet == [b.wallet EXCEPT ![a] = credited.wallet[a]]
           earned == [b.earned EXCEPT ![a] = credited.earned[a]]
           new == [wallet |-> wallet, ledger |-> credited.ledger, receipts |-> b.receipts,
                   firstWin |-> b.firstWin, earned |-> earned]
<1>1. creditAll(b, a, items) = [b EXCEPT !.wallet[a] = credited.wallet[a],
                                         !.earned[a] = credited.earned[a], !.ledger = credited.ledger]
  BY Zenon DEF creditAll
<1> HIDE DEF credited
<1>2. creditAll(b, a, items) = new
  BY <1>1 DEF BooksShape
<1>3. BooksShape(new)
  BY DEF BooksShape
<1> QED
  BY <1>2, <1>3 DEF BooksShape

-----------------------------------------------------------------------------
(* The initial states.                                                      *)

(* Nothing is booked, settled, paid or closed at the start.                 *)
LEMMA ValueStart == BonusInit => ValueInv
<1> SUFFICES ASSUME BonusInit PROVE ValueInv
  OBVIOUS
<1> USE DEF BonusInit, SettlementInit
<1>1. now \in Days /\ gone \subseteq Accounts
  BY SettlementAssumption DEF Days
<1>2. match \in [Matches -> MatchRows]
  <2>1. PICK c \in [Matches -> {"none", "rewards", "ranked"}] :
          match = [m \in Matches |-> [state |-> "prepared", contract |-> c[m],
                                      started |-> 0, ended |-> 0, outcome |-> NoOutcome]]
    OBVIOUS
  <2>2. 0 \in Days
    BY SettlementAssumption DEF Days
  <2>3. NoOutcome \in [kind : {"none", "completed", "scored_low_population"},
                       won : SUBSET Accounts, absent : SUBSET Accounts]
    BY DEF NoOutcome
  <2> QED
    BY <2>1, <2>2, <2>3 DEF MatchRows
<1>3. BooksShape(books)
  BY DEF BooksShape
<1>4. settlement \in [Matches -> [Accounts -> Settlements]]
  BY DEF Settlements, NoEffects
<1>5. board \in Boards
  <2>1. Unranked \in Int
    BY DEF Unranked
  <2> QED
    BY <2>1 DEF Boards
<1>6. TableShape(outbox) /\ TableShape(bonus)
  BY DEF TableShape
<1>7. startPremium \in [Matches -> [Accounts -> {"none", "premium", "free"}]]
  OBVIOUS
<1>8. ValueTypes
  BY <1>1, <1>2, <1>3, <1>4, <1>5, <1>6, <1>7 DEF ValueTypes
<1>9. \A m \in Matches, a \in Accounts : settlement[m][a].state = "none" /\ ~bonus[m][a].paid
  BY DEF NoPayment
<1>10. \A w \in Weeks : ~board.closed[w] /\ ~board.closing[w]
  OBVIOUS
<1> QED
  BY <1>8, <1>9, <1>10
     DEF ValueInv, NothingEarly, SourcesAgree, PaidOnResult, BonusIsEarned, CutOffOverdue, ClosedWeekComplete

-----------------------------------------------------------------------------
(* What the steps leave of the types.                                       *)

(* A match row through its start, its result and its interruption.          *)
LEMMA MatchStepTypes ==
    ASSUME ValueTypes, NEW m \in Matches,
           \/ \E day \in StartTimes : Start(m, day)
           \/ Interrupt(m)
           \/ \E o \in Outcomes[m], day \in Days : Finish(m, o, day)
    PROVE  /\ match' \in [Matches -> MatchRows]
           /\ \A k \in Matches \ {m} : match'[k] = match[k]
           /\ match'[m].contract = match[m].contract
<1> USE DEF ValueTypes
<1>0. match[m] \in MatchRows
  OBVIOUS
<1>1. ASSUME NEW day \in StartTimes, Start(m, day)
      PROVE  /\ match' \in [Matches -> MatchRows]
             /\ \A k \in Matches \ {m} : match'[k] = match[k]
             /\ match'[m].contract = match[m].contract
  <2> DEFINE row == [match[m] EXCEPT !.state = "started", !.started = day]
  <2>1. match' = [match EXCEPT ![m] = row]
    BY <1>1 DEF Start
  <2>0. day \in Days
    BY SettlementAssumption DEF StartTimes, Days
  <2>2. row \in MatchRows /\ row.contract = match[m].contract
    BY <1>0, <2>0 DEF MatchRows
  <2> HIDE DEF row
  <2> QED
    BY <2>1, <2>2
<1>2. CASE Interrupt(m)
  <2> DEFINE row == [match[m] EXCEPT !.state = "interrupted", !.ended = now]
  <2>1. match' = [match EXCEPT ![m] = row]
    BY <1>2 DEF Interrupt
  <2>2. row \in MatchRows /\ row.contract = match[m].contract
    BY <1>0 DEF MatchRows
  <2> HIDE DEF row
  <2> QED
    BY <2>1, <2>2
<1>3. ASSUME NEW o \in Outcomes[m], NEW day \in Days, Finish(m, o, day)
      PROVE  /\ match' \in [Matches -> MatchRows]
             /\ \A k \in Matches \ {m} : match'[k] = match[k]
             /\ match'[m].contract = match[m].contract
  <2> DEFINE row == [match[m] EXCEPT !.state = o.kind, !.ended = day, !.outcome = o]
  <2>1. match' = [match EXCEPT ![m] = row]
    BY <1>3 DEF Finish
  <2>2. o \in [kind : {"completed", "scored_low_population"}, won : SUBSET Seats[m], absent : SUBSET Seats[m]]
    BY SettlementAssumption
  <2>3. Seats[m] \subseteq Accounts
    BY SettlementAssumption
  <2>4. /\ o \in [kind : {"none", "completed", "scored_low_population"},
                  won : SUBSET Accounts, absent : SUBSET Accounts]
        /\ o.kind \in {"completed", "scored_low_population"}
    BY <2>2, <2>3
  <2>5. row \in MatchRows /\ row.contract = match[m].contract
    BY <1>0, <2>4 DEF MatchRows
  <2> HIDE DEF row
  <2> QED
    BY <2>1, <2>5
<1> QED
  BY <1>1, <1>2, <1>3

(* A settlement, whatever is booked beside it, keeps its type: receipts are *)
(* only added.                                                              *)
LEMMA SettlementsGrow ==
    ASSUME books.receipts \subseteq books'.receipts,
           settlement \in [Matches -> [Accounts -> Settlements]], settlement' = settlement
    PROVE  settlement' \in [Matches -> [Accounts -> Settlements']]
<1>1. Settlements \subseteq Settlements'
  BY DEF Settlements
<1> QED
  BY <1>1

(* The books of an award.                                                   *)
LEMMA AwardBooks ==
    ASSUME ValueTypes, NEW m \in Matches, NEW a \in Seats[m], NEW ord, NEW day, Award(m, a, ord, day)
    PROVE  /\ BooksShape(books') /\ books.receipts \subseteq books'.receipts
           /\ \A r \in books'.receipts \ books.receipts : r.match = m /\ r.account = a
           /\ \A x \in gone : books'.wallet[x] = books.wallet[x]
           /\ a \in gone => books' = books
<1>1. a \in Accounts /\ gone \subseteq Accounts
  BY SettlementAssumption DEF ValueTypes
<1>2. BooksShape(books)
  BY DEF ValueTypes
<1>3. CASE a \in gone
  <2>1. books' = books
    BY <1>3 DEF Award
  <2> QED
    BY <2>1, <1>2
<1>4. CASE a \notin gone
  <2> DEFINE c == awardTx(books, m, a, "correct_vote", ord, day, ~eligible(m))
  <2>1. books' = c
    BY <1>4 DEF Award
  <2>2. /\ BooksShape(c)
        /\ books.receipts \subseteq c.receipts
        /\ \A r \in c.receipts \ books.receipts : r.match = m /\ r.account = a
        /\ \A x \in Accounts \ {a} : c.wallet[x] = books.wallet[x]
    BY <1>1, <1>2, AwardFrame
  <2> HIDE DEF c
  <2> QED
    BY <2>1, <2>2, <1>1, <1>4
<1> QED
  BY <1>3, <1>4

(* The books of a settlement.                                               *)
LEMMA SettleBooks ==
    ASSUME ValueTypes, NEW m \in Matches, NEW a \in Seats[m], settle(m, a)
    PROVE  /\ BooksShape(books') /\ books.receipts \subseteq books'.receipts
           /\ \A r \in books'.receipts \ books.receipts : r.match = m /\ r.account = a
           /\ \A x \in gone : books'.wallet[x] = books.wallet[x]
           /\ a \in gone => books' = books
<1>1. a \in Accounts /\ gone \subseteq Accounts
  BY SettlementAssumption DEF ValueTypes
<1>2. BooksShape(books)
  BY DEF ValueTypes
<1>3. CASE a \in gone
  <2>1. books' = books
    BY <1>3 DEF settle
  <2> QED
    BY <2>1, <1>2
<1>4. CASE a \notin gone
  <2> DEFINE c == TerminalAwards(books, m, a)
  <2>1. books' = c
    BY <1>4 DEF settle
  <2>2. /\ BooksShape(c)
        /\ books.receipts \subseteq c.receipts
        /\ \A r \in c.receipts \ books.receipts : r.match = m /\ r.account = a
        /\ \A x \in Accounts \ {a} : c.wallet[x] = books.wallet[x]
    BY <1>1, <1>2, TerminalFrame
  <2> HIDE DEF c
  <2> QED
    BY <2>1, <2>2, <1>1, <1>4
<1> QED
  BY <1>3, <1>4

(* The books of a bonus.                                                    *)
LEMMA BonusBooks ==
    ASSUME ValueTypes, NEW m \in Matches, NEW a \in Accounts, ApplyBonus(m, a)
    PROVE  /\ BooksShape(books') /\ books'.receipts = books.receipts
           /\ \A x \in gone : books'.wallet[x] = books.wallet[x]
<1> DEFINE items == SetToSortSeq(receiptsOf(books, m, a), awardOrder)
           c == creditAll(books, a, items)
<1>1. books' = c
  BY DEF ApplyBonus
<1>2. a \notin gone /\ gone \subseteq Accounts /\ BooksShape(books)
  BY DEF ApplyBonus, bonusDue, ValueTypes
<1> HIDE DEF items
<1>3. /\ BooksShape(c)
      /\ c.receipts = books.receipts
      /\ \A x \in Accounts \ {a} : c.wallet[x] = books.wallet[x]
  BY <1>2, CreditFrame
<1> HIDE DEF c
<1> QED
  BY <1>1, <1>2, <1>3

(* The report of a settlement is made of what is booked.                    *)
LEMMA ReportsBooked ==
    ASSUME NEW m, NEW a, NEW i \in BOOLEAN, NEW s \in {"none", "pending", "applied", "erased"}
    PROVE  /\ [state |-> s, effects |-> [interrupted |-> i, awards |-> receiptsOf(books, m, a)]] \in Settlements
           /\ [state |-> s, effects |-> NoEffects] \in Settlements
BY DEF Settlements, receiptsOf, NoEffects

(* The settlements of a match that ends.                                    *)
LEMMA EndSettlements ==
    ASSUME ValueTypes, NEW m \in Matches,
           Interrupt(m) \/ \E o \in Outcomes[m], day \in Days : Finish(m, o, day)
    PROVE  /\ settlement' \in [Matches -> [Accounts -> Settlements']]
           /\ \A k \in Matches \ {m} : settlement'[k] = settlement[k]
           /\ \A a \in Accounts \ Seats[m] : settlement'[m][a] = settlement[m][a]
<1> USE DEF ValueTypes
<1>0. settlement[m] \in [Accounts -> Settlements]
  OBVIOUS
<1>1. CASE Interrupt(m)
  <2> DEFINE effects(a) == [interrupted |-> TRUE, awards |-> receiptsOf(books, m, a)]
             rows == [a \in Accounts |->
                IF a \notin Seats[m] THEN settlement[m][a]
                ELSE IF a \in gone THEN [state |-> "erased", effects |-> NoEffects]
                ELSE [state |-> "applied", effects |-> effects(a)]]
  <2>1. settlement' = [settlement EXCEPT ![m] = rows] /\ books' = books
    BY <1>1 DEF Interrupt
  <2>2. \A a \in Accounts : rows[a] \in Settlements
    BY <1>0, ReportsBooked
  <2>3. Settlements' = Settlements
    BY <2>1 DEF Settlements
  <2>4. \A a \in Accounts \ Seats[m] : rows[a] = settlement[m][a]
    OBVIOUS
  <2>5. rows \in [Accounts -> Settlements]
    BY <2>2
  <2> HIDE DEF rows
  <2> QED
    BY <2>1, <2>3, <2>4, <2>5
<1>2. ASSUME NEW o \in Outcomes[m], NEW day \in Days, Finish(m, o, day)
      PROVE  /\ settlement' \in [Matches -> [Accounts -> Settlements']]
             /\ \A k \in Matches \ {m} : settlement'[k] = settlement[k]
             /\ \A a \in Accounts \ Seats[m] : settlement'[m][a] = settlement[m][a]
  <2> DEFINE rows == [a \in Accounts |->
                IF a \in Seats[m] THEN [state |-> "pending", effects |-> NoEffects] ELSE settlement[m][a]]
  <2>1. settlement' = [settlement EXCEPT ![m] = rows] /\ books' = books
    BY <1>2 DEF Finish
  <2>2. \A a \in Accounts : rows[a] \in Settlements
    BY <1>0, ReportsBooked
  <2>3. Settlements' = Settlements
    BY <2>1 DEF Settlements
  <2>4. \A a \in Accounts \ Seats[m] : rows[a] = settlement[m][a]
    OBVIOUS
  <2>5. rows \in [Accounts -> Settlements]
    BY <2>2
  <2> HIDE DEF rows
  <2> QED
    BY <2>1, <2>3, <2>4, <2>5
<1> QED
  BY <1>1, <1>2

(* The settlement of one account leaves the others alone.                   *)
LEMMA SettleRow ==
    ASSUME ValueTypes, NEW m \in Matches, NEW a \in Seats[m], settle(m, a)
    PROVE  /\ settlement' \in [Matches -> [Accounts -> Settlements']]
           /\ \A k \in Matches, x \in Accounts : k # m \/ x # a => settlement'[k][x] = settlement[k][x]
           /\ settlement'[m][a].state \in {"applied", "erased"}
           /\ settlement'[m][a].state = "applied" =>
                settlement'[m][a].effects = [interrupted |-> FALSE, awards |-> receiptsOf(books', m, a)]
<1> USE DEF ValueTypes
<1>0. a \in Accounts /\ settlement[m] \in [Accounts -> Settlements] /\ settlement[m][a] \in Settlements
  BY SettlementAssumption
<1>1. CASE a \in gone
  <2> DEFINE row == [settlement[m][a] EXCEPT !.state = "erased"]
  <2>1. settlement' = [settlement EXCEPT ![m][a] = row] /\ books' = books
    BY <1>1 DEF settle
  <2>2. Settlements' = Settlements
    BY <2>1 DEF Settlements
  <2>3. row \in Settlements /\ row.state = "erased"
    BY <1>0 DEF Settlements
  <2> HIDE DEF row
  <2> QED
    BY <2>1, <2>2, <2>3, <1>0
<1>2. CASE a \notin gone
  <2> DEFINE row == [state |-> "applied",
                     effects |-> [interrupted |-> FALSE, awards |-> receiptsOf(books', m, a)]]
  <2>1. settlement' = [settlement EXCEPT ![m][a] = row]
    BY <1>2 DEF settle
  <2>2. books.receipts \subseteq books'.receipts
    BY SettleBooks
  <2>3. Settlements \subseteq Settlements'
    BY <2>2 DEF Settlements
  <2>4. row \in Settlements' /\ row.state = "applied"
        /\ row.effects = [interrupted |-> FALSE, awards |-> receiptsOf(books', m, a)]
    BY DEF Settlements, receiptsOf
  <2> HIDE DEF row
  <2> QED
    BY <2>1, <2>3, <2>4, <1>0
<1> QED
  BY <1>1, <1>2

(* The board under a settlement: only the points of the account change, in  *)
(* the week of the match, and only while that week is open.                 *)
LEMMA ScoreBoardFrame ==
    ASSUME ValueTypes, NEW m \in Matches, NEW a \in Seats[m], settle(m, a)
    PROVE  /\ board' \in Boards
           /\ board'.closed = board.closed /\ board'.closing = board.closing
           /\ board'.history = board.history /\ board'.excluded = board.excluded
           /\ \A w \in Weeks : board.closed[w] => board'.entry[w] = board.entry[w]
           /\ \A w \in Weeks, x \in Accounts : x # a \/ a \in gone => board'.entry[w][x] = board.entry[w][x]
<1> USE DEF ValueTypes
<1>0. a \in Accounts /\ match[m] \in MatchRows /\ match[m].ended \in Days
  BY SettlementAssumption DEF MatchRows
<1>1. CASE board' = board
  BY <1>1
<1>2. CASE board' # board
  <2> DEFINE day == match[m].ended
             week == valueWeek(day)
             p == points(m, a)
             count == [board.count EXCEPT ![a][day] = @ + 1]
             entry == [board.entry EXCEPT ![week][a] = @ + p]
             step == [board EXCEPT !.count[a][day] = @ + 1, !.entry[week][a] = @ + p]
  <2>1. board' = step /\ ranked(m) /\ a \notin gone /\ ~board.closed[week]
    BY <1>2, Zenon DEF settle, ScoreBoard
  <2>2. p \in Int
    BY DEF points
  <2>3. week \in Weeks
    BY <1>0, WeekOf
  <2> HIDE DEF p, week
  <2>4. count \in [Accounts -> [Days -> Int]]
    BY <1>0 DEF Boards
  <2>5. entry \in [Weeks -> [Accounts -> Int]]
    BY <1>0, <2>2, <2>3 DEF Boards
  <2>6. \A w \in Weeks : w # week => entry[w] = board.entry[w]
    BY <2>3 DEF Boards
  <2>7. \A w \in Weeks, x \in Accounts : x # a => entry[w][x] = board.entry[w][x]
    BY <2>3 DEF Boards
  <2> DEFINE s1 == [board EXCEPT !.count = count]
  <2>8. step = [s1 EXCEPT !.entry = entry]
    BY DEF Boards
  <2> HIDE DEF count, entry, step
  <2>9. /\ s1 \in Boards /\ s1.closed = board.closed /\ s1.closing = board.closing
        /\ s1.history = board.history /\ s1.excluded = board.excluded
    BY <2>4 DEF Boards
  <2>10. board' = [s1 EXCEPT !.entry = entry]
    BY <2>1, <2>8
  <2> HIDE DEF s1
  <2>11. /\ board' \in Boards /\ board'.closed = s1.closed /\ board'.closing = s1.closing
         /\ board'.history = s1.history /\ board'.excluded = s1.excluded /\ board'.entry = entry
    BY <2>5, <2>9, <2>10 DEF Boards
  <2> QED
    BY <2>1, <2>3, <2>6, <2>7, <2>9, <2>11
<1> QED
  BY <1>1, <1>2

(* The board under the steps of a week.                                     *)
LEMMA WeekStepTypes ==
    ASSUME ValueTypes, NEW w \in Weeks,
           CutOff(w) \/ CloseWeek(w) \/ DecideClose(w) \/ \E a \in Accounts : Decide(w, a)
    PROVE  /\ board' \in Boards
           /\ board'.entry = board.entry
           /\ \A v \in Weeks \ {w} : /\ board'.closed[v] = board.closed[v] /\ board'.closing[v] = board.closing[v]
                                     /\ board'.history[v] = board.history[v]
                                     /\ board'.excluded[v] = board.excluded[v]
           /\ CutOff(w) => /\ board'.closed = board.closed /\ board'.closing[w]
                           /\ board'.history = board.history /\ board'.excluded = board.excluded
           /\ CloseWeek(w) => /\ board'.closed[w] /\ board'.closing = board.closing
                              /\ board'.excluded = board.excluded /\ board'.history[w] = Ranking(w)
           /\ DecideClose(w) => /\ board'.closed = board.closed
                                /\ board'.closing[w] <=> (board.closing[w] \/ ~board.closed[w])
                                /\ board'.history = board.history /\ board'.excluded = board.excluded
           /\ (\E a \in Accounts : Decide(w, a)) =>
                /\ board'.closed = board.closed /\ board'.closing = board.closing
                /\ board'.history = board.history /\ ~board.closed[w]
<1> USE DEF ValueTypes
<1>0. board \in Boards
  OBVIOUS
<1>1. Ranking(w) \in [Accounts -> Int]
  BY <1>0 DEF Ranking, Unranked, Boards
<1> DEFINE closing == [board.closing EXCEPT ![w] = TRUE]
           ordered == [board.closing EXCEPT ![w] = @ \/ ~board.closed[w]]
           closed == [board.closed EXCEPT ![w] = TRUE]
           history == [board.history EXCEPT ![w] = Ranking(w)]
<1>2. closing \in [Weeks -> BOOLEAN] /\ ordered \in [Weeks -> BOOLEAN] /\ closed \in [Weeks -> BOOLEAN]
  BY <1>0 DEF Boards
<1>3. history \in [Weeks -> [Accounts -> Int]]
  BY <1>0, <1>1 DEF Boards
<1>4. ASSUME CutOff(w) PROVE board' = [board EXCEPT !.closing = closing] /\ ~board.closed[w]
  BY <1>4, <1>0 DEF CutOff, Boards
<1>5. ASSUME CloseWeek(w)
      PROVE  board' = [board EXCEPT !.closed = closed, !.history = history,
                                    !.answered = board.ordered \cap (@ \cup {w})]
  BY <1>5, <1>0 DEF CloseWeek, Boards
<1>6. ASSUME DecideClose(w)
      PROVE  board' = [board EXCEPT !.closing = ordered, !.ordered = @ \cup {w},
                                    !.answered = IF board.closed[w] THEN @ \cup {w} ELSE @]
  BY <1>6, <1>0 DEF DecideClose, Boards
<1>7. ASSUME NEW a \in Accounts, Decide(w, a)
      PROVE  \E e \in SUBSET Accounts :
               /\ board' = [board EXCEPT !.excluded = [board.excluded EXCEPT ![w] = e]]
               /\ ~board.closed[w]
  <2> DEFINE e == IF a \in board.excluded[w] THEN board.excluded[w] \ {a} ELSE board.excluded[w] \cup {a}
  <2>1. e \in SUBSET Accounts
    BY <1>0 DEF Boards
  <2>2. board' = [board EXCEPT !.excluded = [board.excluded EXCEPT ![w] = e]] /\ ~board.closed[w]
    BY <1>7, <1>0 DEF Decide, Boards
  <2> QED
    BY <2>1, <2>2

<1> HIDE DEF closing, ordered, closed, history
<1> DEFINE Elsewhere ==
             \A v \in Weeks \ {w} : /\ board'.closed[v] = board.closed[v] /\ board'.closing[v] = board.closing[v]
                                    /\ board'.history[v] = board.history[v]
                                    /\ board'.excluded[v] = board.excluded[v]
<1>8. ASSUME CutOff(w)
      PROVE  /\ board' \in Boards /\ board'.entry = board.entry /\ Elsewhere
             /\ board'.closed = board.closed /\ board'.closing[w]
             /\ board'.history = board.history /\ board'.excluded = board.excluded
  <2>1. /\ board' \in Boards /\ board'.entry = board.entry /\ board'.closing = closing
        /\ board'.closed = board.closed /\ board'.history = board.history /\ board'.excluded = board.excluded
    BY <1>0, <1>2, <1>4, <1>8 DEF Boards
  <2> QED
    BY <2>1, <1>0 DEF closing, Boards
<1>9. ASSUME CloseWeek(w)
      PROVE  /\ board' \in Boards /\ board'.entry = board.entry /\ Elsewhere
             /\ board'.closed[w] /\ board'.closing = board.closing
             /\ board'.excluded = board.excluded /\ board'.history[w] = Ranking(w)
  <2>0. board.ordered \cap (board.answered \cup {w}) \in SUBSET Weeks
    BY <1>0 DEF Boards
  <2>1. /\ board' \in Boards /\ board'.entry = board.entry /\ board'.closing = board.closing
        /\ board'.closed = closed /\ board'.history = history /\ board'.excluded = board.excluded
    BY <2>0, <1>0, <1>2, <1>3, <1>5, <1>9 DEF Boards
  <2> QED
    BY <2>1, <1>0 DEF closed, history, Boards
<1>10. ASSUME DecideClose(w)
       PROVE  /\ board' \in Boards /\ board'.entry = board.entry /\ Elsewhere
              /\ board'.closed = board.closed
              /\ board'.closing[w] <=> (board.closing[w] \/ ~board.closed[w])
              /\ board'.history = board.history /\ board'.excluded = board.excluded
  <2> DEFINE answered == IF board.closed[w] THEN board.answered \cup {w} ELSE board.answered
  <2>0. /\ board.ordered \cup {w} \in SUBSET Weeks /\ answered \in SUBSET Weeks
        /\ board' = [board EXCEPT !.closing = ordered, !.ordered = board.ordered \cup {w}, !.answered = answered]
    BY <1>0, <1>6, <1>10 DEF Boards
  <2> HIDE DEF answered
  <2>1. /\ board' \in Boards /\ board'.entry = board.entry /\ board'.closing = ordered
        /\ board'.closed = board.closed /\ board'.history = board.history /\ board'.excluded = board.excluded
    BY <2>0, <1>0, <1>2, <1>6, <1>10 DEF Boards
  <2> QED
    BY <2>1, <1>0 DEF ordered, Boards
<1>11. ASSUME NEW a \in Accounts, Decide(w, a)
       PROVE  /\ board' \in Boards /\ board'.entry = board.entry /\ Elsewhere
              /\ board'.closed = board.closed /\ board'.closing = board.closing
              /\ board'.history = board.history /\ ~board.closed[w]
  <2>0. PICK e \in SUBSET Accounts : /\ board' = [board EXCEPT !.excluded = [board.excluded EXCEPT ![w] = e]]
                                     /\ ~board.closed[w]
    BY <1>7, <1>11
  <2> DEFINE excluded == [board.excluded EXCEPT ![w] = e]
  <2>1. excluded \in [Weeks -> SUBSET Accounts] /\ \A v \in Weeks \ {w} : excluded[v] = board.excluded[v]
    BY <1>0 DEF Boards
  <2> HIDE DEF excluded
  <2>2. /\ board' \in Boards /\ board'.entry = board.entry /\ board'.closing = board.closing
        /\ board'.closed = board.closed /\ board'.history = board.history /\ board'.excluded = excluded
    BY <2>0, <2>1, <1>0 DEF Boards, excluded
  <2> QED
    BY <2>0, <2>1, <2>2
<1> QED
  BY <1>8, <1>9, <1>10, <1>11

(* The messages and payments under each step that writes them.              *)
LEMMA TableSteps ==
    ASSUME ValueTypes, NEW m \in Matches, NEW a \in Accounts
    PROVE  /\ Interrupt(m) => /\ TableShape(outbox')
                              /\ \A k \in Matches, y \in gone : outbox'[k][y] = outbox[k][y]
           /\ settle(m, a) => /\ TableShape(outbox')
                              /\ \A k \in Matches, y \in gone : outbox'[k][y] = outbox[k][y]
           /\ ApplyBonus(m, a) => /\ TableShape(bonus')
                                  /\ \A k \in Matches, y \in gone : bonus'[k][y] = bonus[k][y]
                                  /\ \A k \in Matches, y \in Accounts : k # m \/ y # a => bonus'[k][y] = bonus[k][y]
<1>0. TableShape(outbox) /\ TableShape(bonus) /\ gone \subseteq Accounts
  BY DEF ValueTypes
<1>1. ASSUME Interrupt(m)
      PROVE  TableShape(outbox') /\ \A k \in Matches, y \in gone : outbox'[k][y] = outbox[k][y]
  <2> DEFINE effects(y) == [interrupted |-> TRUE, awards |-> receiptsOf(books, m, y)]
             g == [y \in Accounts |-> IF y \in Seats[m] \ gone THEN Message(effects(y)) ELSE outbox[m][y]]
  <2>1. outbox' = [outbox EXCEPT ![m] = g]
    BY <1>1 DEF Interrupt
  <2>2. DOMAIN g = Accounts /\ \A y \in gone : g[y] = outbox[m][y]
    BY <1>0
  <2> HIDE DEF g
  <2> QED
    BY <2>1, <2>2, <1>0 DEF TableShape
<1>2. ASSUME settle(m, a)
      PROVE  TableShape(outbox') /\ \A k \in Matches, y \in gone : outbox'[k][y] = outbox[k][y]
  <2>1. outbox' = outbox \/ (a \notin gone /\ \E x : outbox' = [outbox EXCEPT ![m][a] = x])
    <3>1. CASE a \in gone
      BY <3>1, <1>2 DEF settle
    <3>2. CASE a \notin gone
      BY <3>2, <1>2, Zenon DEF settle
    <3> QED
      BY <3>1, <3>2
  <2>2. ASSUME NEW x, a \notin gone, outbox' = [outbox EXCEPT ![m][a] = x]
        PROVE  TableShape(outbox') /\ \A k \in Matches, y \in gone : outbox'[k][y] = outbox[k][y]
    BY <2>2, <1>0 DEF TableShape
  <2> QED
    BY <2>1, <2>2, <1>0
<1>3. ASSUME ApplyBonus(m, a)
      PROVE  /\ TableShape(bonus')
             /\ \A k \in Matches, y \in gone : bonus'[k][y] = bonus[k][y]
             /\ \A k \in Matches, y \in Accounts : k # m \/ y # a => bonus'[k][y] = bonus[k][y]
  <2>1. a \notin gone /\ \E x : bonus' = [bonus EXCEPT ![m][a] = x]
    BY <1>3, Zenon DEF ApplyBonus, bonusDue
  <2>2. ASSUME NEW x, a \notin gone, bonus' = [bonus EXCEPT ![m][a] = x]
        PROVE  /\ TableShape(bonus')
               /\ \A k \in Matches, y \in gone : bonus'[k][y] = bonus[k][y]
               /\ \A k \in Matches, y \in Accounts : k # m \/ y # a => bonus'[k][y] = bonus[k][y]
    BY <2>2, <1>0 DEF TableShape
  <2> QED
    BY <2>1, <2>2, <1>0
<1> QED
  BY <1>1, <1>2, <1>3

(* Every step keeps the types.                                              *)
LEMMA TypesKept ==
    ASSUME ValueTypes, BonusNext
    PROVE  ValueTypes'
<1> DEFINE SettlementPart ==
             /\ now' \in Days
             /\ gone' \subseteq Accounts
             /\ match' \in [Matches -> MatchRows]
             /\ BooksShape(books')
             /\ settlement' \in [Matches -> [Accounts -> Settlements']]
             /\ board' \in Boards
             /\ TableShape(outbox')
           BonusPart ==
             /\ TableShape(bonus')
             /\ startPremium' \in [Matches -> [Accounts -> {"none", "premium", "free"}]]
<1>0. SettlementPart /\ BonusPart => ValueTypes'
  BY DEF ValueTypes, MatchRows, Boards, BooksShape, TableShape, Days, Weeks
<1>1. /\ now \in Days /\ gone \subseteq Accounts /\ match \in [Matches -> MatchRows] /\ BooksShape(books)
      /\ settlement \in [Matches -> [Accounts -> Settlements]] /\ board \in Boards /\ TableShape(outbox)
      /\ TableShape(bonus) /\ startPremium \in [Matches -> [Accounts -> {"none", "premium", "free"}]]
  BY DEF ValueTypes
<1>2. ASSUME settlement' = settlement, books.receipts \subseteq books'.receipts
      PROVE  settlement' \in [Matches -> [Accounts -> Settlements']]
  BY <1>1, <1>2, SettlementsGrow
<1>a. UNCHANGED books => books.receipts \subseteq books'.receipts
  OBVIOUS
<1>3. ASSUME SettlementNext PROVE SettlementPart
  <2>1. CASE NextDay
    <3>1. now' \in Days
      BY <1>1, <2>1, SettlementAssumption DEF NextDay, Days
    <3> QED
      BY <1>1, <1>2, <1>a, <2>1, <3>1 DEF NextDay
  <2>2. ASSUME NEW a \in Accounts, Erase(a) PROVE SettlementPart
    BY <1>1, <1>2, <1>a, <2>2 DEF Erase
  <2>3. ASSUME NEW m \in Matches, Interrupt(m) PROVE SettlementPart
    <3>1. match' \in [Matches -> MatchRows]
      BY <2>3, MatchStepTypes
    <3>2. settlement' \in [Matches -> [Accounts -> Settlements']]
      BY <2>3, EndSettlements
    <3>4. TableShape(outbox')
      <4> DEFINE g == [a \in Accounts |->
              IF a \in Seats[m] \ gone
              THEN Message([interrupted |-> TRUE, awards |-> receiptsOf(books, m, a)]) ELSE outbox[m][a]]
      <4>1. outbox' = [outbox EXCEPT ![m] = g]
        BY <2>3 DEF Interrupt
      <4>2. DOMAIN g = Accounts
        OBVIOUS
      <4> HIDE DEF g
      <4> QED
        BY <4>1, <4>2, <1>1 DEF TableShape
    <3> QED
      BY <1>1, <2>3, <3>1, <3>2, <3>4 DEF Interrupt
  <2>4. ASSUME NEW m \in Matches, NEW a \in Seats[m], NEW ord \in Rounds, NEW day \in Days, Award(m, a, ord, day)
        PROVE  SettlementPart
    <3>1. BooksShape(books') /\ books.receipts \subseteq books'.receipts
      BY <2>4, AwardBooks
    <3> QED
      BY <1>1, <1>2, <2>4, <3>1 DEF Award
  <2>5. ASSUME NEW m \in Matches, NEW o \in Outcomes[m], NEW day \in Days, Finish(m, o, day)
        PROVE  SettlementPart
    <3>1. match' \in [Matches -> MatchRows]
      BY <2>5, MatchStepTypes
    <3>2. settlement' \in [Matches -> [Accounts -> Settlements']]
      BY <2>5, EndSettlements
    <3> QED
      BY <1>1, <2>5, <3>1, <3>2 DEF Finish
  <2>6. ASSUME NEW m \in Matches, NEW a \in Seats[m], settle(m, a) PROVE SettlementPart
    <3>1. a \in Accounts
      BY SettlementAssumption
    <3>2. BooksShape(books')
      BY <2>6, SettleBooks
    <3>3. settlement' \in [Matches -> [Accounts -> Settlements']]
      BY <2>6, SettleRow
    <3>4. board' \in Boards
      BY <2>6, ScoreBoardFrame
    <3>5. TableShape(outbox')
      BY <2>6, <3>1, TableSteps
    <3> QED
      BY <1>1, <2>6, <3>2, <3>3, <3>4, <3>5 DEF settle
  <2>7. ASSUME NEW w \in Weeks, CutOff(w) \/ CloseWeek(w) \/ DecideClose(w) \/ \E a \in Accounts : Decide(w, a)
        PROVE  SettlementPart
    <3>1. board' \in Boards
      BY <2>7, WeekStepTypes
    <3>2. UNCHANGED <<now, gone, match, books, settlement, outbox>>
      BY <2>7 DEF CutOff, CloseWeek, DecideClose, Decide
    <3> QED
      BY <1>1, <1>2, <1>a, <3>1, <3>2
  <2> QED
    BY <1>3, <2>1, <2>2, <2>3, <2>4, <2>5, <2>6, <2>7 DEF SettlementNext
<1>4. CASE SettlementNext /\ UNCHANGED bonusVars
  <2>1. BonusPart
    BY <1>1, <1>4 DEF bonusVars
  <2> QED
    BY <1>0, <1>3, <1>4, <2>1
<1>5. ASSUME NEW m \in Matches, NEW day \in StartTimes, NEW premium \in SUBSET Accounts,
             StartMatch(m, day, premium)
     
      PROVE  ValueTypes'
  <2>1. match' \in [Matches -> MatchRows]
    BY <1>5, MatchStepTypes DEF StartMatch
  <2>2. UNCHANGED <<now, gone, books, settlement, outbox, board, bonus>>
    BY <1>5 DEF StartMatch, Start
  <2>3. startPremium' \in [Matches -> [Accounts -> {"none", "premium", "free"}]]
    <3> DEFINE row == [a \in Accounts |-> IF a \notin Seats[m] THEN startPremium[m][a]
                         ELSE IF eligible(m) /\ a \in premium THEN "premium" ELSE "free"]
    <3>1. startPremium' = [startPremium EXCEPT ![m] = row]
      BY <1>5 DEF StartMatch
    <3>2. row \in [Accounts -> {"none", "premium", "free"}]
      BY <1>1
    <3> HIDE DEF row
    <3> QED
      BY <1>1, <3>1, <3>2
  <2> QED
    BY <1>0, <1>1, <1>2, <1>a, <2>1, <2>2, <2>3
<1>6. ASSUME NEW m \in Matches, NEW a \in Accounts, IssueClaim(m, a) PROVE ValueTypes'
  BY <1>0, <1>1, <1>2, <1>a, <1>6 DEF IssueClaim, settlementVars
<1>7. ASSUME NEW m \in Matches, NEW a \in Accounts, ApplyBonus(m, a) PROVE ValueTypes'
  <2>1. BooksShape(books') /\ books.receipts \subseteq books'.receipts
    BY <1>7, BonusBooks
  <2>2. TableShape(bonus')
    BY <1>7, TableSteps
  <2>3. UNCHANGED <<now, gone, match, settlement, outbox, board, startPremium>>
    BY <1>7 DEF ApplyBonus
  <2> QED
    BY <1>0, <1>1, <1>2, <2>1, <2>2, <2>3
<1>8. ASSUME NEW t \in Transactions, NEW c \in claims, NEW at \in Days, RecordVerifiedSSV(t, c, at)
      PROVE  ValueTypes'
  BY <1>0, <1>1, <1>2, <1>a, <1>8 DEF RecordVerifiedSSV, settlementVars
<1> QED
  BY <1>4, <1>5, <1>6, <1>7, <1>8 DEF BonusNext

-----------------------------------------------------------------------------
(* Settlements agree with the books.                                        *)

(* A match is started once, and its result is for good.                     *)
LEMMA MatchMoves ==
    ASSUME ValueTypes, NEW m \in Matches
    PROVE  /\ \A day \in StartTimes : Start(m, day) =>
                /\ match[m].state = "prepared" /\ match'[m].state = "started" /\ match'[m].started = day
                /\ match[m].contract = "ranked" => ~board.closed[valueWeek(day)]
           /\ Interrupt(m) => match[m].state = "started" /\ match'[m].state = "interrupted"
           /\ \A o \in Outcomes[m], day \in Days : Finish(m, o, day) =>
                /\ match[m].state = "started" /\ match'[m].ended = day
                /\ match'[m].state \in {"completed", "scored_low_population"}
                /\ match[m].contract = "ranked" => ~board.closed[valueWeek(day)]
<1>0. match[m] \in MatchRows /\ match \in [Matches -> MatchRows]
  BY DEF ValueTypes
<1>1. ASSUME NEW day \in StartTimes, Start(m, day)
      PROVE  /\ match[m].state = "prepared" /\ match'[m].state = "started" /\ match'[m].started = day
             /\ match[m].contract = "ranked" => ~board.closed[valueWeek(day)]
  <2> DEFINE row == [match[m] EXCEPT !.state = "started", !.started = day]
  <2>1. /\ match' = [match EXCEPT ![m] = row] /\ match[m].state = "prepared"
        /\ match[m].contract = "ranked" => ~board.closed[valueWeek(day)]
    BY <1>1 DEF Start
  <2>2. row.state = "started" /\ row.started = day
    BY <1>0 DEF MatchRows
  <2> HIDE DEF row
  <2> QED
    BY <1>0, <2>1, <2>2
<1>2. ASSUME Interrupt(m) PROVE match[m].state = "started" /\ match'[m].state = "interrupted"
  <2> DEFINE row == [match[m] EXCEPT !.state = "interrupted", !.ended = now]
  <2>1. match' = [match EXCEPT ![m] = row] /\ match[m].state = "started"
    BY <1>2 DEF Interrupt
  <2>2. row.state = "interrupted"
    BY <1>0 DEF MatchRows
  <2> HIDE DEF row
  <2> QED
    BY <1>0, <2>1, <2>2
<1>3. ASSUME NEW o \in Outcomes[m], NEW day \in Days, Finish(m, o, day)
      PROVE  /\ match[m].state = "started" /\ match'[m].ended = day
             /\ match'[m].state \in {"completed", "scored_low_population"}
             /\ match[m].contract = "ranked" => ~board.closed[valueWeek(day)]
  <2> DEFINE row == [match[m] EXCEPT !.state = o.kind, !.ended = day, !.outcome = o]
  <2>1. /\ match' = [match EXCEPT ![m] = row] /\ match[m].state = "started"
        /\ match[m].contract = "ranked" => ~board.closed[valueWeek(day)]
    BY <1>3 DEF Finish
  <2>2. row.state = o.kind /\ row.ended = day
    BY <1>0 DEF MatchRows
  <2>3. o.kind \in {"completed", "scored_low_population"}
    BY SettlementAssumption
  <2> HIDE DEF row
  <2> QED
    BY <1>0, <2>1, <2>2, <2>3
<1> QED
  BY <1>1, <1>2, <1>3

SettledInv == NothingEarly /\ SourcesAgree /\ PaidOnResult

(* A step that leaves matches, settlements and receipts alone.              *)
LEMMA SettledFrame ==
    ASSUME ValueTypes, SettledInv, match' = match, settlement' = settlement, books'.receipts = books.receipts,
           \A m \in Matches, a \in Accounts : bonus'[m][a].paid => bonus[m][a].paid \/ Final(m)
    PROVE  SettledInv'
<1>1. NothingEarly'
  BY DEF SettledInv, NothingEarly
<1>2. SourcesAgree'
  BY DEF SettledInv, SourcesAgree, sourceAgrees, receiptsOf, Final
<1>3. PaidOnResult'
  BY DEF SettledInv, PaidOnResult, Final
<1> QED
  BY <1>1, <1>2, <1>3 DEF SettledInv

(* Every step keeps the settlements in agreement with the books.            *)
LEMMA SettledKept ==
    ASSUME ValueTypes, SettledInv, BonusNext
    PROVE  SettledInv'
<1> USE DEF SettledInv
<1>1. ASSUME NEW m \in Matches, NEW day \in StartTimes, Start(m, day), UNCHANGED <<books, settlement, bonus>>
      PROVE  SettledInv'
  <2>1. \A k \in Matches \ {m} : match'[k] = match[k]
    BY <1>1, MatchStepTypes
  <2>2. match[m].state = "prepared" /\ match'[m].state = "started"
    BY <1>1, MatchMoves
  <2>3. \A k \in Matches : Final(k)' <=> Final(k)
    BY <2>1, <2>2 DEF Final
  <2>4. NothingEarly'
    BY <1>1, <2>1, <2>2 DEF NothingEarly
  <2>5. SourcesAgree'
    BY <1>1, <2>3 DEF SourcesAgree, sourceAgrees, receiptsOf
  <2>6. PaidOnResult'
    BY <1>1, <2>3 DEF PaidOnResult
  <2> QED
    BY <2>4, <2>5, <2>6
<1>2. ASSUME NEW m \in Matches, UNCHANGED <<books, bonus>>,
             Interrupt(m) \/ \E o \in Outcomes[m], day \in Days : Finish(m, o, day)
      PROVE  SettledInv'
  <2>1. \A k \in Matches \ {m} : match'[k] = match[k] /\ settlement'[k] = settlement[k]
    BY <1>2, MatchStepTypes, EndSettlements
  <2>2. match[m].state = "started" /\ match'[m].state \notin {"prepared", "started"}
    BY <1>2, MatchMoves
  <2>3. \A a \in Accounts \ Seats[m] : settlement'[m][a] = settlement[m][a]
    BY <1>2, EndSettlements
  <2>4. \A a \in Accounts : settlement[m][a].state = "none"
    BY <2>2 DEF NothingEarly
  <2>5. NothingEarly'
    BY <2>1, <2>2, <2>3, <2>4 DEF NothingEarly
  <2>6. ~Final(m)' \/ \A a \in Accounts : settlement'[m][a].state # "applied"
    <3>1. CASE Interrupt(m)
      BY <3>1, MatchMoves DEF Final
    <3>2. ASSUME NEW o \in Outcomes[m], NEW day \in Days, Finish(m, o, day)
          PROVE  \A a \in Accounts : settlement'[m][a].state # "applied"
      <4> DEFINE rows == [a \in Accounts |->
              IF a \in Seats[m] THEN [state |-> "pending", effects |-> NoEffects] ELSE settlement[m][a]]
      <4>1. settlement' = [settlement EXCEPT ![m] = rows]
        BY <3>2 DEF Finish
      <4>2. \A a \in Accounts : rows[a].state # "applied"
        BY <2>4
      <4> HIDE DEF rows
      <4> QED
        BY <4>1, <4>2 DEF ValueTypes
    <3> QED
      BY <1>2, <3>1, <3>2
  <2>7. SourcesAgree'
    BY <1>2, <2>1, <2>6 DEF SourcesAgree, sourceAgrees, receiptsOf, Final
  <2>8. PaidOnResult'
    BY <1>2, <2>1, <2>2 DEF PaidOnResult, Final
  <2> QED
    BY <2>5, <2>7, <2>8
<1>3. ASSUME NEW m \in Matches, NEW a \in Seats[m], NEW ord, NEW day, Award(m, a, ord, day), UNCHANGED bonus
      PROVE  SettledInv'
  <2>1. match' = match /\ settlement' = settlement /\ match[m].state = "started"
    BY <1>3 DEF Award
  <2>2. /\ books.receipts \subseteq books'.receipts
        /\ \A r \in books'.receipts \ books.receipts : r.match = m /\ r.account = a
    BY <1>3, AwardBooks
  <2>3. \A k \in Matches, x \in Accounts : k # m => receiptsOf(books', k, x) = receiptsOf(books, k, x)
    BY <2>2 DEF receiptsOf
  <2>4. ~Final(m)
    BY <2>1 DEF Final
  <2>5. NothingEarly' /\ PaidOnResult'
    BY <1>3, <2>1 DEF NothingEarly, PaidOnResult, Final
  <2>6. SourcesAgree'
    BY <2>1, <2>3, <2>4 DEF SourcesAgree, sourceAgrees, Final
  <2> QED
    BY <2>5, <2>6
<1>4. ASSUME NEW m \in Matches, NEW a \in Seats[m], settle(m, a), UNCHANGED bonus PROVE SettledInv'
  <2>1. match' = match /\ Final(m) /\ a \in Accounts
    BY <1>4, SettlementAssumption DEF settle
  <2>2. /\ books.receipts \subseteq books'.receipts
        /\ \A r \in books'.receipts \ books.receipts : r.match = m /\ r.account = a
    BY <1>4, SettleBooks
  <2>3. \A k \in Matches, x \in Accounts : k # m \/ x # a => receiptsOf(books', k, x) = receiptsOf(books, k, x)
    BY <2>2 DEF receiptsOf
  <2>4. /\ \A k \in Matches, x \in Accounts : k # m \/ x # a => settlement'[k][x] = settlement[k][x]
        /\ settlement'[m][a].state = "applied" =>
             settlement'[m][a].effects = [interrupted |-> FALSE, awards |-> receiptsOf(books', m, a)]
    BY <1>4, SettleRow
  <2>5. NothingEarly'
    <3>1. ~(match'[m].state \in {"prepared", "started"} \/ a \notin Seats[m])
      BY <2>1 DEF Final
    <3> QED
      BY <2>1, <2>4, <3>1 DEF NothingEarly
  <2>6. SourcesAgree'
    <3>1. \A k \in Matches, x \in Accounts :
            Final(k) /\ settlement'[k][x].state = "applied" =>
              /\ settlement'[k][x].effects.awards = receiptsOf(books', k, x)
              /\ ~settlement'[k][x].effects.interrupted
      BY <2>3, <2>4 DEF SourcesAgree, sourceAgrees
    <3> QED
      BY <2>1, <3>1 DEF SourcesAgree, sourceAgrees, Final, receiptsOf
  <2>7. PaidOnResult'
    BY <1>4, <2>1 DEF PaidOnResult, Final
  <2> QED
    BY <2>5, <2>6, <2>7
<1>5. ASSUME NEW m \in Matches, NEW a \in Accounts, ApplyBonus(m, a) PROVE SettledInv'
  <2>1. match' = match /\ settlement' = settlement /\ Final(m)
    BY <1>5 DEF ApplyBonus, bonusDue
  <2>2. books'.receipts = books.receipts
    BY <1>5, BonusBooks
  <2>3. \A k \in Matches, y \in Accounts : k # m \/ y # a => bonus'[k][y] = bonus[k][y]
    BY <1>5, TableSteps
  <2> QED
    BY <2>1, <2>2, <2>3, SettledFrame
<1>6. ASSUME UNCHANGED <<match, settlement, books, bonus>> PROVE SettledInv'
  BY <1>6, SettledFrame
<1>7. CASE SettlementNext /\ UNCHANGED bonusVars
  <2>0. UNCHANGED bonus
    BY <1>7 DEF bonusVars
  <2>1. CASE NextDay
    BY <1>6, <2>0, <2>1 DEF NextDay
  <2>2. ASSUME NEW a \in Accounts, Erase(a) PROVE SettledInv'
    BY <1>6, <2>0, <2>2 DEF Erase
  <2>3. ASSUME NEW m \in Matches, Interrupt(m) PROVE SettledInv'
    BY <1>2, <2>0, <2>3 DEF Interrupt
  <2>4. ASSUME NEW m \in Matches, NEW a \in Seats[m], NEW ord \in Rounds, NEW day \in Days, Award(m, a, ord, day)
        PROVE  SettledInv'
    BY <1>3, <2>0, <2>4
  <2>5. ASSUME NEW m \in Matches, NEW o \in Outcomes[m], NEW day \in Days, Finish(m, o, day) PROVE SettledInv'
    <3>1. UNCHANGED books
      BY <2>5 DEF Finish
    <3> QED
      BY <1>2, <2>0, <2>5, <3>1
  <2>6. ASSUME NEW m \in Matches, NEW a \in Seats[m], settle(m, a) PROVE SettledInv'
    BY <1>4, <2>0, <2>6
  <2>7. ASSUME NEW w \in Weeks, CutOff(w) \/ CloseWeek(w) \/ DecideClose(w) \/ \E a \in Accounts : Decide(w, a)
        PROVE  SettledInv'
    BY <1>6, <2>0, <2>7 DEF CutOff, CloseWeek, DecideClose, Decide
  <2> QED
    BY <1>7, <2>1, <2>2, <2>3, <2>4, <2>5, <2>6, <2>7 DEF SettlementNext
<1>8. ASSUME NEW m \in Matches, NEW day \in StartTimes, NEW premium \in SUBSET Accounts,
             StartMatch(m, day, premium)
      PROVE  SettledInv'
  BY <1>1, <1>8 DEF StartMatch, Start
<1>9. ASSUME NEW m \in Matches, NEW a \in Accounts, IssueClaim(m, a) PROVE SettledInv'
  BY <1>6, <1>9 DEF IssueClaim, settlementVars
<1>10. ASSUME NEW t \in Transactions, NEW c \in claims, NEW at \in Days, RecordVerifiedSSV(t, c, at)
       PROVE  SettledInv'
  BY <1>6, <1>10 DEF RecordVerifiedSSV, settlementVars
<1> QED
  BY <1>5, <1>7, <1>8, <1>9, <1>10 DEF BonusNext

-----------------------------------------------------------------------------
(* A bonus is earned.                                                       *)

(* Every step keeps the payments earned and the transactions distinct.      *)
LEMMA EarnedKept ==
    ASSUME ValueTypes, PaidOnResult, BonusIsEarned, BonusNext
    PROVE  BonusIsEarned'
<1>1. ASSUME UNCHANGED <<bonus, startPremium, ssv>> PROVE BonusIsEarned'
  BY <1>1 DEF BonusIsEarned, proofs
<1>2. CASE SettlementNext /\ UNCHANGED bonusVars
  BY <1>1, <1>2 DEF bonusVars
<1>3. ASSUME NEW m \in Matches, NEW day \in StartTimes, NEW premium \in SUBSET Accounts,
             StartMatch(m, day, premium)
      PROVE  BonusIsEarned'
  <2>1. match[m].state = "prepared" /\ UNCHANGED <<bonus, ssv>>
    BY <1>3 DEF StartMatch, Start
  <2>2. \A a \in Accounts : ~bonus[m][a].paid
    BY <2>1 DEF PaidOnResult, Final
  <2>3. \A k \in Matches \ {m} : startPremium'[k] = startPremium[k]
    BY <1>3 DEF StartMatch, ValueTypes
  <2> QED
    BY <2>1, <2>2, <2>3 DEF BonusIsEarned, proofs
<1>4. ASSUME NEW m \in Matches, NEW a \in Accounts, IssueClaim(m, a) PROVE BonusIsEarned'
  BY <1>1, <1>4 DEF IssueClaim
<1>5. ASSUME NEW m \in Matches, NEW a \in Accounts, ApplyBonus(m, a) PROVE BonusIsEarned'
  <2>1. UNCHANGED <<startPremium, ssv>> /\ hasProof(m, a)
    BY <1>5 DEF ApplyBonus, bonusDue
  <2>2. \A k \in Matches, y \in Accounts : k # m \/ y # a => bonus'[k][y] = bonus[k][y]
    BY <1>5, TableSteps
  <2> QED
    BY <2>1, <2>2 DEF BonusIsEarned, hasProof, proofs
<1>6. ASSUME NEW t \in Transactions, NEW c \in claims, NEW at \in Days, RecordVerifiedSSV(t, c, at)
      PROVE  BonusIsEarned'
  <2> DEFINE r == [txn |-> t, claim |-> c, at |-> at]
  <2>1. ssv' = ssv \cup {r} /\ UNCHANGED <<bonus, startPremium>> /\ ~\E s \in ssv : s.txn = t
    BY <1>6 DEF RecordVerifiedSSV
  <2>2. r.txn = t
    OBVIOUS
  <2> HIDE DEF r
  <2>3. \A m \in Matches, a \in Accounts : proofs(m, a) \subseteq proofs(m, a)'
    BY <2>1 DEF proofs
  <2> QED
    BY <2>1, <2>2, <2>3 DEF BonusIsEarned
<1> QED
  BY <1>2, <1>3, <1>4, <1>5, <1>6 DEF BonusNext

-----------------------------------------------------------------------------
(* A closed week is complete.                                               *)

WeekInv == CutOffOverdue /\ ClosedWeekComplete

(* A step that leaves the board, the matches and the settlements alone.     *)
LEMMA WeekFrame ==
    ASSUME ValueTypes, WeekInv, UNCHANGED <<board, match, settlement>>, now' >= now, now' \in Int
    PROVE  WeekInv'
<1>1. CutOffOverdue'
  <2>1. \A w \in Weeks : WeekEnd(w) \in Int
    BY WeekEndInt
  <2>2. now \in Int
    BY DEF ValueTypes, Days
  <2>3. \A w \in Weeks : now >= WeekEnd(w) => now' >= WeekEnd(w)
    BY <2>1, <2>2
  <2> QED
    BY <2>3 DEF WeekInv, CutOffOverdue, WeekEnd
<1>2. ClosedWeekComplete'
  BY DEF WeekInv, ClosedWeekComplete, Ranking, ranked, Final, WeekEnd, valueWeek
<1> QED
  BY <1>1, <1>2 DEF WeekInv

(* Every step keeps the closed weeks complete.                              *)
LEMMA WeeksKept ==
    ASSUME ValueTypes, WeekInv, BonusNext
    PROVE  WeekInv'
<1> USE DEF WeekInv
<1>0. now \in Int
  BY DEF ValueTypes, Days
<1>1. ASSUME UNCHANGED <<now, board, match, settlement>> PROVE WeekInv'
  BY <1>0, <1>1, WeekFrame
<1>a. ASSUME NEW w \in Weeks, board.closed[w] PROVE now >= WeekEnd(w)
  BY <1>a DEF CutOffOverdue
<1>2. ASSUME NEW m \in Matches, NEW day \in StartTimes, Start(m, day), UNCHANGED <<now, board, settlement>>
      PROVE  WeekInv'
  <2>1. \A k \in Matches \ {m} : match'[k] = match[k]
    BY <1>2, MatchStepTypes
  <2>2. /\ match'[m].contract = match[m].contract /\ match'[m].state = "started" /\ match'[m].started = day
        /\ match[m].contract = "ranked" => ~board.closed[valueWeek(day)]
    BY <1>2, MatchStepTypes, MatchMoves
  <2>3. ASSUME NEW w \in Weeks, board.closed[w], match'[m].contract = "ranked"
        PROVE  ~(match'[m].started < WeekEnd(w))
    <3>1. day \in Days /\ day + WeekDays >= now
      BY SettlementAssumption DEF StartTimes, ValueTypes, Days
    <3>2. w # valueWeek(day)
      BY <2>2, <2>3
    <3>3. day < WeekEnd(w) => day + WeekDays < WeekEnd(w)
      BY <3>1, <3>2, WeekGap
    <3>4. now >= WeekEnd(w) /\ WeekEnd(w) \in Int /\ WeekDays \in Int /\ day \in Int
      BY <1>a, <2>3, <3>1, WeekEndInt, SettlementAssumption DEF Days
    <3> QED
      BY <1>0, <2>2, <3>1, <3>3, <3>4
  <2>4. CutOffOverdue'
    BY <1>2 DEF CutOffOverdue, WeekEnd
  <2>5. \A k \in Matches : /\ ranked(k)' <=> ranked(k)
                           /\ Final(k)' => Final(k) /\ match'[k] = match[k]
    BY <2>1, <2>2 DEF ranked, Final
  <2>6. ClosedWeekComplete'
    <3> SUFFICES ASSUME NEW w \in Weeks, board.closed[w]
                 PROVE  /\ board.history[w] = Ranking(w)'
                        /\ \A k \in Matches : (ranked(k) /\ Final(k))' /\ valueWeek(match'[k].ended) = w =>
                              \A a \in Seats[k] : settlement[k][a].state # "pending"
                        /\ \A k \in Matches : match'[k].contract = "ranked"
                              => ~(match'[k].state = "started" /\ match'[k].started < WeekEnd(w))
      BY <1>2 DEF ClosedWeekComplete, WeekEnd, valueWeek
    <3>1. board.history[w] = Ranking(w)'
      BY <1>2 DEF ClosedWeekComplete, Ranking
    <3>2. \A k \in Matches : (ranked(k) /\ Final(k))' /\ valueWeek(match'[k].ended) = w =>
                              \A a \in Seats[k] : settlement[k][a].state # "pending"
      BY <2>5 DEF ClosedWeekComplete
    <3>3. \A k \in Matches : match'[k].contract = "ranked"
                              => ~(match'[k].state = "started" /\ match'[k].started < WeekEnd(w))
      BY <2>1, <2>3 DEF ClosedWeekComplete
    <3> QED
      BY <3>1, <3>2, <3>3
  <2> QED
    BY <2>4, <2>6
<1>3. ASSUME NEW m \in Matches, UNCHANGED <<now, board>>,
             Interrupt(m) \/ \E o \in Outcomes[m], day \in Days : Finish(m, o, day)
      PROVE  WeekInv'
  <2>1. \A k \in Matches \ {m} : match'[k] = match[k] /\ settlement'[k] = settlement[k]
    BY <1>3, MatchStepTypes, EndSettlements
  <2>2. match'[m].contract = match[m].contract /\ match'[m].state # "started"
    BY <1>3, MatchStepTypes, MatchMoves
  <2>3. \A w \in Weeks : board.closed[w] /\ (ranked(m) /\ Final(m))' => valueWeek(match'[m].ended) # w
    <3>1. CASE Interrupt(m)
      BY <3>1, MatchMoves DEF Final
    <3>2. ASSUME NEW o \in Outcomes[m], NEW day \in Days, Finish(m, o, day)
          PROVE  ranked(m)' => match'[m].ended = day /\ ~board.closed[valueWeek(day)]
      BY <2>2, <3>2, MatchMoves DEF ranked
    <3> QED
      BY <1>3, <3>1, <3>2
  <2>4. CutOffOverdue'
    BY <1>3 DEF CutOffOverdue, WeekEnd
  <2>5. \A k \in Matches \ {m} : /\ ranked(k)' <=> ranked(k)
                                 /\ Final(k)' <=> Final(k)
    BY <2>1 DEF ranked, Final
  <2>6. ClosedWeekComplete'
    <3> SUFFICES ASSUME NEW w \in Weeks, board.closed[w]
                 PROVE  /\ board.history[w] = Ranking(w)'
                        /\ \A k \in Matches : (ranked(k) /\ Final(k))' /\ valueWeek(match'[k].ended) = w =>
                              \A a \in Seats[k] : settlement'[k][a].state # "pending"
                        /\ \A k \in Matches : match'[k].contract = "ranked"
                              => ~(match'[k].state = "started" /\ match'[k].started < WeekEnd(w))
      BY <1>3 DEF ClosedWeekComplete, WeekEnd, valueWeek
    <3>1. board.history[w] = Ranking(w)'
      BY <1>3 DEF ClosedWeekComplete, Ranking
    <3>2. \A k \in Matches : (ranked(k) /\ Final(k))' /\ valueWeek(match'[k].ended) = w =>
                              \A a \in Seats[k] : settlement'[k][a].state # "pending"
      BY <2>1, <2>3, <2>5 DEF ClosedWeekComplete
    <3>3. \A k \in Matches : match'[k].contract = "ranked"
                              => ~(match'[k].state = "started" /\ match'[k].started < WeekEnd(w))
      BY <2>1, <2>2 DEF ClosedWeekComplete
    <3> QED
      BY <3>1, <3>2, <3>3
  <2> QED
    BY <2>4, <2>6
<1>4. ASSUME NEW m \in Matches, NEW a \in Seats[m], settle(m, a) PROVE WeekInv'
  <2>1. now' = now /\ match' = match
    BY <1>4 DEF settle
  <2>2. /\ board'.closed = board.closed /\ board'.closing = board.closing
        /\ board'.history = board.history /\ board'.excluded = board.excluded
        /\ \A w \in Weeks : board.closed[w] => board'.entry[w] = board.entry[w]
    BY <1>4, ScoreBoardFrame
  <2>3. /\ \A k \in Matches, x \in Accounts : k # m \/ x # a => settlement'[k][x] = settlement[k][x]
        /\ settlement'[m][a].state \in {"applied", "erased"}
    BY <1>4, SettleRow
  <2>4. CutOffOverdue'
    BY <2>1, <2>2 DEF CutOffOverdue, WeekEnd
  <2>5. ClosedWeekComplete'
    <3> SUFFICES ASSUME NEW w \in Weeks, board.closed[w]
                 PROVE  /\ board'.history[w] = Ranking(w)'
                        /\ \A k \in Matches : ranked(k) /\ Final(k) /\ valueWeek(match[k].ended) = w =>
                              \A x \in Seats[k] : settlement'[k][x].state # "pending"
                        /\ \A k \in Matches : match[k].contract = "ranked"
                              => ~(match[k].state = "started" /\ match[k].started < WeekEnd(w))
      BY <2>1, <2>2 DEF ClosedWeekComplete, WeekEnd, valueWeek, ranked, Final
    <3>1. board'.history[w] = Ranking(w)'
      BY <2>2 DEF ClosedWeekComplete, Ranking
    <3>2. \A k \in Matches : ranked(k) /\ Final(k) /\ valueWeek(match[k].ended) = w =>
                              \A x \in Seats[k] : settlement'[k][x].state # "pending"
      <4>1. \A k \in Matches : Seats[k] \subseteq Accounts
        BY SettlementAssumption
      <4> QED
        BY <2>3, <4>1 DEF ClosedWeekComplete
    <3>3. \A k \in Matches : match[k].contract = "ranked"
                              => ~(match[k].state = "started" /\ match[k].started < WeekEnd(w))
      BY DEF ClosedWeekComplete
    <3> QED
      BY <3>1, <3>2, <3>3
  <2> QED
    BY <2>4, <2>5
<1>5. ASSUME NEW w \in Weeks, CutOff(w) \/ CloseWeek(w) \/ DecideClose(w) \/ \E a \in Accounts : Decide(w, a)
      PROVE  WeekInv'
  <2>1. UNCHANGED <<now, match, settlement>>
    BY <1>5 DEF CutOff, CloseWeek, DecideClose, Decide
  <2>2. /\ board'.entry = board.entry
        /\ \A v \in Weeks \ {w} : /\ board'.closed[v] = board.closed[v] /\ board'.closing[v] = board.closing[v]
                                  /\ board'.history[v] = board.history[v] /\ board'.excluded[v] = board.excluded[v]
    BY <1>5, WeekStepTypes
  <2> DEFINE Complete(v) ==
        board'.closed[v] =>
        /\ board'.history[v] = Ranking(v)'
        /\ \A m \in Matches : ranked(m) /\ Final(m) /\ valueWeek(match[m].ended) = v =>
              \A a \in Seats[m] : settlement[m][a].state # "pending"
        /\ \A m \in Matches : match[m].contract = "ranked"
              => ~(match[m].state = "started" /\ match[m].started < WeekEnd(v))
  <2>3. (\A v \in Weeks : Complete(v)) => ClosedWeekComplete'
    BY <2>1 DEF ClosedWeekComplete, WeekEnd, valueWeek, ranked, Final
  <2>4. \A v \in Weeks \ {w} : Complete(v)
    BY <2>2 DEF ClosedWeekComplete, Ranking
  <2>5. ASSUME board'.closed[w] <=> board.closed[w], board'.history[w] = board.history[w],
               board.closed[w] => board'.excluded[w] = board.excluded[w]
        PROVE  Complete(w)
    BY <2>2, <2>5 DEF ClosedWeekComplete, Ranking
  <2>6. Complete(w)
    <3>1. CASE CutOff(w)
      BY <2>5, <3>1, WeekStepTypes
    <3>2. CASE CloseWeek(w)
      <4>1. board'.excluded = board.excluded /\ board'.history[w] = Ranking(w)
        BY <3>2, WeekStepTypes
      <4>2. Ranking(w)' = Ranking(w)
        BY <2>2, <4>1 DEF Ranking
      <4>3. ~PendingOfWeek(w)
        BY <3>2 DEF CloseWeek
      <4>4. \A m \in Matches : Seats[m] \subseteq Accounts
        BY SettlementAssumption
      <4> QED
        BY <4>1, <4>2, <4>3, <4>4 DEF PendingOfWeek
    <3>3. CASE DecideClose(w)
      BY <2>5, <3>3, WeekStepTypes
    <3>4. CASE \E a \in Accounts : Decide(w, a)
      <4>1. board'.closed = board.closed /\ ~board.closed[w]
        BY <3>4, WeekStepTypes
      <4> QED
        BY <4>1
    <3> QED
      BY <1>5, <3>1, <3>2, <3>3, <3>4
  <2>7. /\ board'.closing[w] => now >= WeekEnd(w)
        /\ board'.closed[w] => board'.closing[w]
    <3>1. CASE CutOff(w)
      BY <3>1, WeekStepTypes DEF CutOff, CutOffOverdue
    <3>2. CASE CloseWeek(w)
      BY <3>2, WeekStepTypes DEF CloseWeek, CutOffOverdue
    <3>3. CASE DecideClose(w)
      BY <3>3, WeekStepTypes DEF DecideClose, CutOffOverdue
    <3>4. CASE \E a \in Accounts : Decide(w, a)
      BY <3>4, WeekStepTypes DEF CutOffOverdue
    <3> QED
      BY <1>5, <3>1, <3>2, <3>3, <3>4
  <2>8. CutOffOverdue'
    BY <2>1, <2>2, <2>7 DEF CutOffOverdue, WeekEnd
  <2> HIDE DEF Complete
  <2> QED
    BY <2>3, <2>4, <2>6, <2>8
<1>6. CASE SettlementNext
  <2>1. CASE NextDay
    <3>1. UNCHANGED <<board, match, settlement>> /\ now' >= now /\ now' \in Int
      BY <1>0, <2>1 DEF NextDay
    <3> QED
      BY <3>1, WeekFrame
  <2>2. ASSUME NEW a \in Accounts, Erase(a) PROVE WeekInv'
    BY <1>1, <2>2 DEF Erase
  <2>3. ASSUME NEW m \in Matches, Interrupt(m) PROVE WeekInv'
    BY <1>3, <2>3 DEF Interrupt
  <2>4. ASSUME NEW m \in Matches, NEW a \in Seats[m], NEW ord \in Rounds, NEW day \in Days, Award(m, a, ord, day)
        PROVE  WeekInv'
    BY <1>1, <2>4 DEF Award
  <2>5. ASSUME NEW m \in Matches, NEW o \in Outcomes[m], NEW day \in Days, Finish(m, o, day) PROVE WeekInv'
    <3>1. UNCHANGED <<now, board>>
      BY <2>5 DEF Finish
    <3> QED
      BY <1>3, <2>5, <3>1
  <2>6. ASSUME NEW m \in Matches, NEW a \in Seats[m], settle(m, a) PROVE WeekInv'
    BY <1>4, <2>6
  <2> QED
    BY <1>5, <1>6, <2>1, <2>2, <2>3, <2>4, <2>5, <2>6 DEF SettlementNext
<1>7. ASSUME NEW m \in Matches, NEW day \in StartTimes, NEW premium \in SUBSET Accounts,
             StartMatch(m, day, premium)
      PROVE  WeekInv'
  BY <1>2, <1>7 DEF StartMatch, Start
<1>8. ASSUME NEW m \in Matches, NEW a \in Accounts, IssueClaim(m, a) \/ ApplyBonus(m, a) PROVE WeekInv'
  BY <1>1, <1>8 DEF IssueClaim, ApplyBonus, settlementVars
<1>9. ASSUME NEW t \in Transactions, NEW c \in claims, NEW at \in Days, RecordVerifiedSSV(t, c, at)
      PROVE  WeekInv'
  BY <1>1, <1>9 DEF RecordVerifiedSSV, settlementVars
<1> QED
  BY <1>6, <1>7, <1>8, <1>9 DEF BonusNext

-----------------------------------------------------------------------------
(* The theorems.                                                            *)

(* The inductive invariant holds in every behaviour.                        *)
THEOREM ValueInvariant == BonusSpec => []ValueInv
<1>1. BonusInit => ValueInv
  BY ValueStart
<1>2. ValueInv /\ [BonusNext]_valueVars => ValueInv'
  <2>1. CASE ValueInv /\ BonusNext
    <3>1. ValueTypes'
      BY <2>1, TypesKept DEF ValueInv
    <3>2. SettledInv'
      BY <2>1, SettledKept DEF ValueInv, SettledInv
    <3>3. BonusIsEarned'
      BY <2>1, EarnedKept DEF ValueInv
    <3>4. WeekInv'
      BY <2>1, WeeksKept DEF ValueInv, WeekInv
    <3> QED
      BY <3>1, <3>2, <3>3, <3>4 DEF ValueInv, SettledInv, WeekInv
  <2>2. CASE ValueInv /\ UNCHANGED valueVars
    <3>1. ValueTypes'
      BY <2>2 DEF ValueInv, ValueTypes, valueVars, settlementVars, bonusVars, MatchRows, Settlements, Boards,
                  BooksShape, TableShape
    <3>2. (NothingEarly /\ SourcesAgree /\ PaidOnResult /\ BonusIsEarned)'
      BY <2>2 DEF ValueInv, NothingEarly, SourcesAgree, PaidOnResult, BonusIsEarned, valueVars, settlementVars,
                  bonusVars, sourceAgrees, receiptsOf, Final, proofs
    <3>3. (CutOffOverdue /\ ClosedWeekComplete)'
      BY <2>2 DEF ValueInv, CutOffOverdue, ClosedWeekComplete, valueVars, settlementVars, WeekEnd, valueWeek,
                  Ranking, ranked, Final
    <3> QED
      BY <3>1, <3>2, <3>3 DEF ValueInv
  <2> QED
    BY <2>1, <2>2
<1> QED
  BY <1>1, <1>2, PTL DEF BonusSpec

(* A closed week is complete: its history is what the entries and the       *)
(* exclusions say, and nothing of it is left to run or to settle            *)
(* (CloseLeaderboardWeek).                                                  *)
THEOREM ClosedWeekHolds == BonusSpec => []ClosedWeekComplete
<1>1. ValueInv => ClosedWeekComplete
  BY DEF ValueInv
<1> QED
  BY <1>1, ValueInvariant, PTL

(* A bonus was earned, and one that is due is never refused because its     *)
(* sources disagree (ApplyBonus, loadBonusAwards).                          *)
THEOREM BonusExactHolds == BonusSpec => []BonusExact
<1>1. ValueInv => BonusExact
  <2>1. ValueInv => BonusNeverConflicts
    BY DEF ValueInv, SourcesAgree, BonusNeverConflicts, bonusDue
  <2> QED
    BY <2>1 DEF ValueInv, BonusExact
<1> QED
  BY <1>1, ValueInvariant, PTL

(* One step writes nothing of value for an account with a deletion fence.   *)
LEMMA ErasedStep ==
    ASSUME ValueTypes, BonusNext, NEW a \in gone
    PROVE  /\ books'.wallet[a] = books.wallet[a]
           /\ \A w \in Weeks : board'.entry[w][a] = board.entry[w][a]
           /\ \A m \in Matches : outbox'[m][a] = outbox[m][a] /\ bonus'[m][a] = bonus[m][a]
           /\ {r \in books'.receipts : r.account = a} = {r \in books.receipts : r.account = a}
<1> DEFINE Kept ==
      /\ books'.wallet[a] = books.wallet[a]
      /\ \A w \in Weeks : board'.entry[w][a] = board.entry[w][a]
      /\ \A m \in Matches : outbox'[m][a] = outbox[m][a] /\ bonus'[m][a] = bonus[m][a]
      /\ {r \in books'.receipts : r.account = a} = {r \in books.receipts : r.account = a}
<1>0. a \in Accounts
  BY DEF ValueTypes
<1>1. CASE SettlementNext /\ UNCHANGED bonusVars
  <2>0. UNCHANGED bonus
    BY <1>1 DEF bonusVars
  <2>1. CASE NextDay
    BY <2>0, <2>1 DEF NextDay
  <2>2. ASSUME NEW b \in Accounts, Erase(b) PROVE Kept
    BY <2>0, <2>2 DEF Erase
  <2>3. ASSUME NEW m \in Matches, Interrupt(m) PROVE Kept
    <3>1. UNCHANGED <<books, board>>
      BY <2>3 DEF Interrupt
    <3>2. \A k \in Matches : outbox'[k][a] = outbox[k][a]
      BY <1>0, <2>3, TableSteps
    <3> QED
      BY <2>0, <3>1, <3>2
  <2>4. ASSUME NEW m \in Matches, NEW b \in Seats[m], NEW ord \in Rounds, NEW day \in Days, Award(m, b, ord, day)
        PROVE  Kept
    <3>1. UNCHANGED <<outbox, board>>
      BY <2>4 DEF Award
    <3>2. /\ books'.wallet[a] = books.wallet[a]
          /\ books.receipts \subseteq books'.receipts
          /\ \A r \in books'.receipts \ books.receipts : r.account = b
          /\ b \in gone => books' = books
      BY <2>4, AwardBooks
    <3>3. {r \in books'.receipts : r.account = a} = {r \in books.receipts : r.account = a}
      BY <3>2
    <3> QED
      BY <2>0, <3>1, <3>2, <3>3
  <2>5. ASSUME NEW m \in Matches, NEW o \in Outcomes[m], NEW day \in Days, Finish(m, o, day) PROVE Kept
    BY <2>0, <2>5 DEF Finish
  <2>6. ASSUME NEW m \in Matches, NEW b \in Seats[m], settle(m, b) PROVE Kept
    <3>0. b \in Accounts
      BY SettlementAssumption
    <3>1. \A w \in Weeks : board'.entry[w][a] = board.entry[w][a]
      <4>1. a # b \/ b \in gone
        OBVIOUS
      <4> QED
        BY <1>0, <2>6, <4>1, ScoreBoardFrame
    <3>2. /\ books'.wallet[a] = books.wallet[a]
          /\ books.receipts \subseteq books'.receipts
          /\ \A r \in books'.receipts \ books.receipts : r.account = b
          /\ b \in gone => books' = books
      BY <2>6, SettleBooks
    <3>3. {r \in books'.receipts : r.account = a} = {r \in books.receipts : r.account = a}
      BY <3>2
    <3>4. \A k \in Matches : outbox'[k][a] = outbox[k][a]
      BY <2>6, <3>0, TableSteps
    <3> QED
      BY <2>0, <3>1, <3>2, <3>3, <3>4
  <2>7. ASSUME NEW w \in Weeks, CutOff(w) \/ CloseWeek(w) \/ DecideClose(w) \/ \E b \in Accounts : Decide(w, b)
        PROVE  Kept
    <3>1. UNCHANGED <<books, outbox>>
      BY <2>7 DEF CutOff, CloseWeek, DecideClose, Decide
    <3>2. board'.entry = board.entry
      BY <2>7, WeekStepTypes
    <3> QED
      BY <2>0, <3>1, <3>2
  <2> QED
    BY <1>1, <2>1, <2>2, <2>3, <2>4, <2>5, <2>6, <2>7 DEF SettlementNext
<1>2. ASSUME NEW m \in Matches, NEW day \in StartTimes, NEW premium \in SUBSET Accounts,
             StartMatch(m, day, premium)
      PROVE  Kept
  BY <1>2 DEF StartMatch, Start
<1>3. ASSUME NEW m \in Matches, NEW b \in Accounts, IssueClaim(m, b) PROVE Kept
  BY <1>3 DEF IssueClaim, settlementVars
<1>4. ASSUME NEW m \in Matches, NEW b \in Accounts, ApplyBonus(m, b) PROVE Kept
  <2>1. UNCHANGED <<board, outbox>>
    BY <1>4 DEF ApplyBonus
  <2>2. books'.receipts = books.receipts /\ books'.wallet[a] = books.wallet[a]
    BY <1>4, BonusBooks
  <2>3. \A k \in Matches : bonus'[k][a] = bonus[k][a]
    BY <1>4, TableSteps
  <2> QED
    BY <2>1, <2>2, <2>3
<1>5. ASSUME NEW t \in Transactions, NEW c \in claims, NEW at \in Days, RecordVerifiedSSV(t, c, at) PROVE Kept
  BY <1>5 DEF RecordVerifiedSSV, settlementVars
<1> QED
  BY <1>1, <1>2, <1>3, <1>4, <1>5 DEF BonusNext

(* Once an account has its deletion fence, no wallet, entry, message, bonus *)
(* or receipt of it is written any more (checkValueFence,                   *)
(* text_value_erasure_dispositions).                                        *)
THEOREM ErasedStaysErasedHolds == BonusSpec => ErasedStaysErased
<1> DEFINE Kept ==
      \A a \in gone :
         /\ books'.wallet[a] = books.wallet[a]
         /\ \A w \in Weeks : board'.entry[w][a] = board.entry[w][a]
         /\ \A m \in Matches : outbox'[m][a] = outbox[m][a] /\ bonus'[m][a] = bonus[m][a]
         /\ {r \in books'.receipts : r.account = a} = {r \in books.receipts : r.account = a}
<1>1. ValueInv /\ [BonusNext]_valueVars => [Kept]_valueVars
  BY ErasedStep DEF ValueInv
<1> QED
  BY <1>1, ValueInvariant, PTL DEF BonusSpec, ErasedStaysErased
=============================================================================
