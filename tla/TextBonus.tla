------------------------------ MODULE TextBonus ------------------------------
(***************************************************************************)
(* The bonus that doubles the awards of a match: Premium accounts have it  *)
(* by the state of their entitlement when the match started, others by an  *)
(* advertisement whose callback proves a claim of theirs                   *)
(* (server/internal/store/text_bonus_payments.go, text_reward_claims.go,   *)
(* text_bonus_eligibility.go, text_bonus_delivery.go; the worker in        *)
(* cmd/knowoffd/text_bonus_runtime.go).  It spends the same daily cap as   *)
(* the awards, so it is composed with TextSettlement.                      *)
(***************************************************************************)
EXTENDS TextSettlement, Sequences, SequencesExt

CONSTANTS
    Transactions,   \* transaction ids of the advertisement provider
    ClaimTTL,       \* days a claim is valid
    MaxClaims       \* claims of a match and account within one ClaimTTL

ASSUME BonusAssumption == ClaimTTL \in Nat \ {0} /\ MaxClaims \in Nat

VARIABLES
    startPremium,   \* startPremium[m][a]: text_bonus_eligibility, or "none"
    claims,         \* text_reward_claims: [match, account, issued]
    ssv,            \* text_reward_ssv_receipts: [txn, claim, at]
    bonus,          \* bonus[m][a]: the row and items of text_bonus_payments
    bonusOutbox     \* bonusOutbox[m][a]: the days in the payload of text_bonus_outbox

bonusVars == <<startPremium, claims, ssv, bonus, bonusOutbox>>
valueVars == <<settlementVars, bonusVars>>

NoPayment == [paid |-> FALSE, items |-> {}]

BonusInit ==
    /\ SettlementInit
    /\ startPremium = [m \in Matches |-> [a \in Accounts |-> "none"]]
    /\ claims = {}
    /\ ssv = {}
    /\ bonus = [m \in Matches |-> [a \in Accounts |-> NoPayment]]
    /\ bonusOutbox = [m \in Matches |-> [a \in Accounts |-> {}]]

-----------------------------------------------------------------------------
(* captureTextBonusEligibility, in the transaction that starts the match.   *)
(* Entitlements belong to another component: Premium is whatever they say   *)
(* at this moment.                                                          *)
StartMatch(m, day, premium) ==
    /\ Start(m, day)
    /\ startPremium' = [startPremium EXCEPT ![m] = [a \in Accounts |->
            IF a \notin Seats[m] THEN @[a]
            ELSE IF eligible(m) /\ a \in premium THEN "premium" ELSE "free"]]
    /\ UNCHANGED <<claims, ssv, bonus, bonusOutbox>>

rewardEligible(m, a) ==
    /\ Final(m) /\ eligible(m)
    /\ a \notin gone
    /\ startPremium[m][a] = "free"
    /\ settlement[m][a].state = "applied"

proofs(m, a) == {r \in ssv : r.claim.match = m /\ r.claim.account = a}

(* An offer is also refused while Premium is current, which may be the case *)
(* at any moment: the step is then not taken.                               *)
newRewardOffer(m, a) ==
    /\ ~bonus[m][a].paid
    /\ proofs(m, a) = {}

IssueClaim(m, a) ==
    /\ rewardEligible(m, a)
    /\ newRewardOffer(m, a)
    /\ Cardinality({c \in claims : /\ c.match = m /\ c.account = a
                                   /\ c.issued > now - ClaimTTL}) < MaxClaims
    /\ claims' = claims \cup {[match |-> m, account |-> a, issued |-> now]}
    /\ UNCHANGED <<settlementVars, startPremium, ssv, bonus, bonusOutbox>>

(* The callback of the provider may come late, twice, or for a claim that   *)
(* was replaced: what counts is when the advertisement was watched.         *)
RecordVerifiedSSV(t, c, at) ==
    /\ c \in claims
    /\ at \in c.issued..now /\ at < c.issued + ClaimTTL
    /\ rewardEligible(c.match, c.account)
    /\ ~\E r \in ssv : r.txn = t                    \* the same proof: replay; another: conflict
    /\ ssv' = ssv \cup {[txn |-> t, claim |-> c, at |-> at]}
    /\ UNCHANGED <<settlementVars, startPremium, claims, bonus, bonusOutbox>>

-----------------------------------------------------------------------------
(* ApplyBonus: every award of the match once more, in the order of days and *)
(* kinds, each cut to what is left of the cap of its own day.               *)

KindOrder == <<"correct_vote", "daily_first_win", "match_completed", "win">>
kindRank(kind) == CHOOSE i \in 1..Len(KindOrder) : KindOrder[i] = kind
awardOrder(r, s) ==
    \/ r.day < s.day
    \/ r.day = s.day /\ kindRank(r.kind) < kindRank(s.kind)
    \/ r.day = s.day /\ r.kind = s.kind /\ r.ordinal < s.ordinal

creditItem(b, r) ==
    LET a == r.account
        credited == Min({r.credited, Max({0, Cap - b.earned[a][r.day]})})
        row == [account |-> a, event |-> "match_bonus", match |-> r.match, ordinal |-> r.ordinal,
                kind |-> r.kind, day |-> r.day, amount |-> credited]
    IN [b EXCEPT !.wallet[a] = @ + credited, !.earned[a][r.day] = @ + credited,
                 !.ledger = IF credited > 0 THEN @ \cup {row} ELSE @]

\* The items are those of one account: its wallet, its day buckets and the
\* ledger are written, and nothing else.
creditAll(b, a, items) ==
    LET credited == FoldLeft(creditItem, b, items)
    IN [b EXCEPT !.wallet[a] = credited.wallet[a], !.earned[a] = credited.earned[a],
                 !.ledger = credited.ledger]

(* text_bonus_payment_items: an item per receipt, with the credit that was  *)
(* booked for it.                                                           *)
paymentItems(b, after, m, a) ==
    {[kind |-> r.kind, ordinal |-> r.ordinal, day |-> r.day, base |-> r.credited,
      credited |-> FoldSet(LAMBDA l, s : s + l.amount, 0,
                     {l \in after.ledger \ b.ledger : l.kind = r.kind /\ l.ordinal = r.ordinal})] :
        r \in receiptsOf(b, m, a)}

(* The private message: what was asked and credited on each earning day.    *)
DeliveryPayload(items) ==
    {[day |-> d,
      requested |-> FoldSet(LAMBDA i, s : s + i.base, 0, {i \in items : i.day = d}),
      credited |-> FoldSet(LAMBDA i, s : s + i.credited, 0, {i \in items : i.day = d})] :
        d \in {i.day : i \in items}}

hasProof(m, a) ==
    \/ startPremium[m][a] = "premium"
    \/ proofs(m, a) # {}                            \* recorded only within the interval of its claim

bonusDue(m, a) ==
    /\ ~bonus[m][a].paid
    /\ a \notin gone
    /\ Final(m) /\ eligible(m)
    /\ startPremium[m][a] # "none"
    /\ settlement[m][a].state = "applied"
    /\ hasProof(m, a)

(* loadBonusAwards refuses receipts that are not the settled ones.          *)
sourceAgrees(m, a) ==
    /\ settlement[m][a].effects.awards = receiptsOf(books, m, a)
    /\ ~settlement[m][a].effects.interrupted

\* Mutant: an existing payment is not recognised as a replay.
ApplyBonus_NoReplay(m, a) ==
    /\ a \notin gone
    /\ Final(m) /\ eligible(m)
    /\ settlement[m][a].state = "applied" /\ hasProof(m, a)
    /\ sourceAgrees(m, a)
    /\ books' = creditAll(books, a, SetToSortSeq(receiptsOf(books, m, a), awardOrder))
    /\ bonus' = [bonus EXCEPT ![m][a] = [paid |-> TRUE, items |-> paymentItems(books, books', m, a)]]
    /\ bonusOutbox' = [bonusOutbox EXCEPT ![m][a] = DeliveryPayload(bonus'[m][a].items)]
    /\ UNCHANGED <<now, gone, match, erasures, settlement, outbox, board, startPremium, claims, ssv>>

ApplyBonus(m, a) ==
    /\ bonusDue(m, a)
    /\ sourceAgrees(m, a)
    /\ books' = creditAll(books, a, SetToSortSeq(receiptsOf(books, m, a), awardOrder))
    /\ bonus' = [bonus EXCEPT ![m][a] = [paid |-> TRUE, items |-> paymentItems(books, books', m, a)]]
    /\ bonusOutbox' = [bonusOutbox EXCEPT ![m][a] = DeliveryPayload(bonus'[m][a].items)]
    /\ UNCHANGED <<now, gone, match, erasures, settlement, outbox, board, startPremium, claims, ssv>>

BonusNext ==
    \/ SettlementNext /\ UNCHANGED bonusVars
    \/ \E m \in Matches, day \in StartTimes, premium \in SUBSET Accounts : StartMatch(m, day, premium)
    \/ \E m \in Matches, a \in Accounts : IssueClaim(m, a) \/ ApplyBonus(m, a)
    \/ \E t \in Transactions, c \in claims, at \in Days : RecordVerifiedSSV(t, c, at)

BonusSpec == BonusInit /\ [][BonusNext]_valueVars

-----------------------------------------------------------------------------
(* Properties.                                                              *)

(* No order of awards, settlements and bonuses of several matches and days  *)
(* brings an account over the daily cap, and the day bucket is exactly what *)
(* the ledger booked on that day.                                           *)
DailyCap ==
    \A a \in Accounts, d \in Days :
        /\ books.earned[a][d] <= Cap
        /\ books.earned[a][d] = FoldSet(LAMBDA l, s : s + l.amount, 0,
                                        {l \in books.ledger : l.account = a /\ l.day = d})

(* What Reconcile counts as mismatches is always empty: every receipt with  *)
(* a credit has its ledger row, every ledger row a receipt or a bonus item, *)
(* the wallet is the sum of the ledger, an applied settlement has exactly   *)
(* its effects in the outbox, an erased one nothing, and a payment has one  *)
(* item per receipt and the payload of its items.                           *)
Reconciled ==
    /\ DailyCap
    /\ \A a \in Accounts : books.wallet[a] = LedgerSum(books, a)
    /\ \A r \in books.receipts : r.credited > 0 <=>
          \E l \in books.ledger : /\ l.account = r.account /\ l.match = r.match /\ l.event = r.kind
                                  /\ l.ordinal = r.ordinal /\ l.day = r.day /\ l.amount = r.credited
    /\ \A l \in books.ledger :
          \/ \E r \in receiptsOf(books, l.match, l.account) : r.kind = l.event /\ r.ordinal = l.ordinal
          \/ /\ l.event = "match_bonus"
             /\ \E i \in bonus[l.match][l.account].items : /\ i.kind = l.kind /\ i.ordinal = l.ordinal
                                                    /\ i.day = l.day /\ i.credited = l.amount
    /\ \A m \in Matches : \A a \in Seats[m] :
          /\ match[m].state \in {"completed", "scored_low_population", "interrupted"}
                <=> settlement[m][a].state # "none"
          /\ settlement[m][a].state = "applied" <=> outbox[m][a].made
          /\ outbox[m][a].made => outbox[m][a].body = settlement[m][a].effects
          /\ bonus[m][a].paid =>
                /\ {[kind |-> i.kind, ordinal |-> i.ordinal, day |-> i.day, base |-> i.base] : i \in bonus[m][a].items}
                     = {[kind |-> r.kind, ordinal |-> r.ordinal, day |-> r.day, base |-> r.credited] :
                          r \in receiptsOf(books, m, a)}
                /\ bonusOutbox[m][a] = DeliveryPayload(bonus[m][a].items)

(* A bonus that is due is never refused because its sources disagree.  Such *)
(* a refusal is no ErrTextBonusIneligible: RecoverBonuses would stop at it  *)
(* in every pass and never reach the payments ordered behind it.            *)
BonusNeverConflicts ==
    \A m \in Matches, a \in Accounts : bonusDue(m, a) => sourceAgrees(m, a)

(* A bonus rests on what was true when the match started or on a proof of   *)
(* this very match, and one transaction of the provider pays for one match. *)
BonusIsEarned ==
    /\ \A m \in Matches, a \in Accounts : bonus[m][a].paid =>
          startPremium[m][a] = "premium" \/ proofs(m, a) # {}
    /\ \A r, s \in ssv : r.txn = s.txn => r = s

(* Only what was earned is paid, and what is due is never refused.          *)
BonusExact == BonusIsEarned /\ BonusNeverConflicts

(* A closed week is complete: the published ranking is what the entries and *)
(* the exclusions say, and no outcome of the week is left that settlement   *)
(* would refuse for ever.                                                   *)
ClosedWeekComplete ==
    \A w \in Weeks : board.closed[w] =>
        /\ board.history[w] = Ranking(w)
        /\ \A m \in Matches : ranked(m) /\ Final(m) /\ valueWeek(match[m].ended) = w =>
              \A a \in Seats[m] : settlement[m][a].state # "pending"
        /\ \A m \in Matches : match[m].contract = "ranked" => ~(match[m].state = "started" /\ match[m].started < WeekEnd(w))

(* Once an account has a deletion fence nothing of value is written for it: *)
(* no ledger row, no message, no entry, no bonus.                           *)
ErasedStaysErased ==
    [][\A a \in gone :
         /\ books'.wallet[a] = books.wallet[a]
         /\ \A w \in Weeks : board'.entry[w][a] = board.entry[w][a]
         /\ \A m \in Matches : outbox'[m][a] = outbox[m][a] /\ bonus'[m][a] = bonus[m][a]
         /\ {r \in books'.receipts : r.account = a} = {r \in books.receipts : r.account = a}
      ]_valueVars

=============================================================================
