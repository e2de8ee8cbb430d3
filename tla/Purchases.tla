----------------------------- MODULE Purchases -----------------------------
(***************************************************************************)
(* Store purchases of one account: receipts verified with the platform,    *)
(* Noin and Premium that they grant, refunds, acknowledgement tasks, and   *)
(* the wallet that the purchases share with spending, conversion and       *)
(* reviewed corrections (server/internal/economy).                         *)
(*                                                                         *)
(* A verification claims a slot, asks the platform outside any             *)
(* transaction, and applies the answer in one transaction that also gives  *)
(* the slot back.  Leases end by time: a lease that is no longer live is a *)
(* step of the environment.  Only instants that the code compares with     *)
(* each other (observations, expiries) are counted.                        *)
(***************************************************************************)
EXTENDS Integers, FiniteSets, FiniteSetsExt, Bags, BagsExt

CONSTANTS
    Items,          \* provider sources: tokens of Google, transactions of Apple
    Product,        \* Product[x]: "noin" or "premium"
    Platform,       \* Platform[x]: "google" or "apple"
    Replaces,       \* Replaces[x]: the source that x replaces, x itself for none
    Noin,           \* Noin of a bundle
    Price,          \* price of a pass or an unlock
    Cap,            \* Noin.DailyEarnCap
    Slots,          \* billing.MaxConcurrentRequests: number of slots of the account
    Callers,        \* concurrent verifications; Worker is the task worker
    Worker,
    Period,         \* length of a subscription period
    Plans           \* what happens to the account: its items, points, reviewed orders, whether
                    \* it is deleted, whether attempts fail, and the bounds
                    \* on time (end), on the ledger (rows)
                    \* and on questions to the platform (asks)

ASSUME PurchasesAssumption ==
    /\ Product \in [Items -> {"noin", "premium"}]
    /\ Platform \in [Items -> {"google", "apple"}]
    /\ Replaces \in [Items -> Items]
    /\ Noin \in Nat \ {0} /\ Price \in Nat \ {0} /\ Cap \in Nat
    /\ Worker \in Callers
    /\ Period \in Nat \ {0}
    /\ \A p \in Plans : p.items \subseteq Items /\ p.end \in Nat

Unset == -1

VARIABLES
    now,
    plan,           \* the plan of this behaviour
    shop,           \* shop[x]: what the platform knows of a source
    row,            \* row[x]: billing_transactions, or the current subscription observation
    retired,        \* predecessors in billing_subscription_replacements
    task,           \* task[x]: state and proof of the acknowledgement task
    slot,           \* billing_verification_slots: the callers that hold one, and the uncertain ones
    work,           \* work[x][op]: billing_provider_work
    call,           \* call[c]: the verification or acknowledgement under way
    purse,          \* wallet, ledger, day bucket, points and entitlements
    orders,         \* reviewed corrections that are not decided yet
    deleted,        \* the account is deleted
    asks            \* questions that were put to the platform

billingVars == <<now, plan, shop, row, retired, task, slot, work, call, purse, orders, deleted, asks>>

NoRow == [known |-> FALSE, state |-> "none", observed |-> Unset, signed |-> Unset, txn |-> Unset,
          until |-> Unset, granted |-> FALSE, refund |-> "none"]
NoTask == [state |-> "none", proof |-> Unset]
NoLease == [held |-> FALSE, holder |-> Worker, proof |-> Unset]
Idle == [pc |-> "idle"]

BillingInit ==
    \E s \in Plans :
      /\ now = 0
      /\ plan = s
      /\ shop = [x \in Items |-> [state |-> "pending", expiry |-> Unset, txn |-> 0, consumed |-> FALSE]]
      /\ row = [x \in Items |-> NoRow]
      /\ retired = {}
      /\ task = [x \in Items |-> NoTask]
      /\ slot = [held |-> {}, uncertain |-> 0]
      /\ work = [x \in Items |-> [op \in {"observe", "ack"} |-> NoLease]]
      /\ call = [c \in Callers |-> Idle]
      /\ purse = [balance |-> 0, ledger |-> EmptyBag, earned |-> 0, points |-> s.points,
                  pass |-> 0, avatar |-> FALSE, premium |-> Unset]
      /\ orders = s.orders
      /\ deleted = FALSE
      /\ asks = 0

-----------------------------------------------------------------------------
(* The platform.                                                            *)

Pay(x) ==
    /\ x \in plan.items /\ shop[x].state = "pending"
    /\ Replaces[x] # x => shop[Replaces[x]].state \in {"active", "hold", "expired"}
    /\ shop' = [y \in Items |->
         IF y = x THEN [shop[x] EXCEPT !.state = IF Product[x] = "noin" THEN "paid" ELSE "active",
                                       !.expiry = IF Product[x] = "noin" THEN Unset ELSE now + Period]
         ELSE IF y = Replaces[x] THEN [shop[y] EXCEPT !.state = "expired", !.expiry = now] ELSE shop[y]]

CancelPending(x) ==
    /\ x \in plan.items /\ shop[x].state = "pending" /\ Platform[x] = "google"
    /\ shop' = [shop EXCEPT ![x].state = IF Product[x] = "noin" THEN "revoked" ELSE "canceled"]

Revoke(x) ==
    /\ shop[x].state = "paid" \/ (Platform[x] = "apple" /\ shop[x].state = "active")
    /\ shop' = [shop EXCEPT ![x].state = "revoked"]

Renew(x) ==
    /\ Product[x] = "premium" /\ shop[x].state \in {"active", "hold"}
    /\ x \notin {Replaces[y] : y \in {z \in plan.items : z # x /\ shop[z].state # "pending"}}
    /\ now + Period > shop[x].expiry
    /\ shop' = [shop EXCEPT ![x].state = "active", ![x].expiry = now + Period, ![x].txn = @ + 1]

Lapse(x) ==
    /\ Product[x] = "premium" /\ shop[x].state = "active"
    /\ \/ Platform[x] = "google" /\ shop' = [shop EXCEPT ![x].state = "hold"]
       \/ now >= shop[x].expiry /\ shop' = [shop EXCEPT ![x].state = "expired"]

(* What the adapters make of an answer.  ObservedAt is the instant at which *)
(* the question was asked; Apple signs its answer, Google does not.  A      *)
(* period that ended before the question is no active period.               *)
GoogleVerify(x, asked) ==
    [state |-> CASE shop[x].state = "paid" -> "purchased" [] OTHER -> shop[x].state,
     observed |-> asked, until |-> Unset, txn |-> 0, signed |-> Unset]

AppleVerify(x, asked) ==
    [state |-> CASE shop[x].state \in {"paid", "active"} -> "purchased" [] OTHER -> shop[x].state,
     observed |-> asked, until |-> shop[x].expiry, txn |-> shop[x].txn, signed |-> now]

GoogleSubscription(x, asked) ==
    [state |-> CASE shop[x].state = "active" -> "purchased" [] shop[x].state = "hold" -> "on_hold"
                 [] OTHER -> shop[x].state,
     observed |-> asked, txn |-> 0, signed |-> Unset,
     until |-> IF shop[x].state = "active" THEN shop[x].expiry ELSE Unset]

(* The current transaction of the subscription that the receipt belongs to. *)
AppleSubscription(x, asked) ==
    [AppleVerify(x, asked) EXCEPT !.until = IF shop[x].state = "active" THEN @ ELSE Unset]

proofOf(x, asked) ==
    CASE Platform[x] = "google" /\ Product[x] = "noin"    -> GoogleVerify(x, asked)
      [] Platform[x] = "google" /\ Product[x] = "premium" -> GoogleSubscription(x, asked)
      [] Platform[x] = "apple" /\ Product[x] = "noin"     -> AppleVerify(x, asked)
      [] Platform[x] = "apple" /\ Product[x] = "premium"  -> AppleSubscription(x, asked)

validateProof(x, v) ==
    /\ v.state = "purchased" /\ Product[x] = "premium" => v.until > v.observed
    /\ v.state = "expired" => shop[x].expiry <= v.observed
    /\ Platform[x] = "apple" => v.state # "pending"

-----------------------------------------------------------------------------
(* The wallet.                                                              *)

(* The ledger is append-only; rows that do not differ are counted.          *)
booked(p, kind, amount, item) ==
    [p EXCEPT !.balance = @ + amount,
              !.ledger = BagAdd(@, [kind |-> kind, amount |-> amount, item |-> item])]
rows(p, kind, item) ==
    MapThenSumSet(LAMBDA e : p.ledger[e],
                  {e \in DOMAIN p.ledger : e.kind = kind /\ e.item = item})
ledgerSum(p) == MapThenSumSet(LAMBDA e : e.amount * p.ledger[e], DOMAIN p.ledger)

billingCredit(p, x) == booked(p, "purchase", Noin, x)

(* A debit is refused when the balance does not cover it.                   *)
debitTx(p, kind, amount, item) == booked(p, kind, -amount, item)

grantTxAt(p, kind, amount, capped) ==
    LET credited == IF capped THEN Min({amount, Max({0, Cap - p.earned})}) ELSE amount
    IN IF credited = 0 THEN p
       ELSE [booked(p, kind, credited, "play") EXCEPT !.earned = IF capped THEN @ + credited ELSE @]

walletOnly == UNCHANGED <<now, plan, shop, row, retired, task, slot, work, call, deleted, asks>>
Room == BagCardinality(purse.ledger) < plan.rows

Grant(capped) ==
    /\ ~deleted /\ Room /\ purse.points > 0
    /\ purse' = [grantTxAt(purse, "grant", 1, capped) EXCEPT !.points = @ - 1]
    /\ UNCHANGED orders /\ walletOnly

(* One point is one Noin; the conversion is refused as a whole at the cap.  *)
ConvertPoints(n) ==
    /\ ~deleted /\ Room
    /\ n \in 1..purse.points /\ n <= Cap - purse.earned
    /\ purse' = [booked(purse, "points_conversion", n, "points") EXCEPT !.points = @ - n, !.earned = @ + n]
    /\ UNCHANGED orders /\ walletOnly

GrantPlayPass ==
    /\ ~deleted /\ Room /\ purse.balance >= Price
    /\ purse' = [debitTx(purse, "spend", Price, "pass") EXCEPT !.pass = Max({@, now + 1})]
    /\ UNCHANGED orders /\ walletOnly

PurchaseCustomAvatar ==
    /\ ~deleted /\ Room /\ ~purse.avatar /\ purse.balance >= Price
    /\ purse' = [debitTx(purse, "spend", Price, "avatar") EXCEPT !.avatar = TRUE]
    /\ UNCHANGED orders /\ walletOnly

(* CorrectNoin: a grant, or the refund of one spend in full.  The decision, *)
(* the wallet and the receipt are one transaction; a spend has at most one  *)
(* refund decision.                                                         *)
\* Mutant: the refund is decided without regard to earlier refunds of the spend.
CorrectNoin_Again(o, item) ==
    /\ o \in orders /\ ~deleted /\ Room
    /\ rows(purse, "spend", item) > 0
    /\ purse' = booked(purse, "correction", Price, item)
    /\ orders' = orders \ {o}
    /\ walletOnly

CorrectNoin(o, item) ==
    /\ o \in orders /\ ~deleted /\ Room
    /\ rows(purse, "correction", item) < rows(purse, "spend", item)
    /\ purse' = booked(purse, "correction", Price, item)
    /\ orders' = orders \ {o}
    /\ walletOnly

-----------------------------------------------------------------------------
(* Leases.  A lease that was given back or whose deadline is past is free;   *)
(* the holder of a past one finds that out when it finishes.                *)

Take(c, proof) == [held |-> TRUE, holder |-> c, proof |-> proof]
Holds(l, c) == l.held /\ l.holder = c

(* claimVerification: a slot that was stopped or whose deadline is past; an  *)
(* uncertain one waits for its deadline.                                    *)
claimVerification(c) ==
    /\ Cardinality(slot.held) + slot.uncertain < Slots
    /\ slot' = [slot EXCEPT !.held = @ \cup {c}]

(* claimProviderWork: only a lease in flight is respected, an uncertain one  *)
(* is free at once.  The attempt pins the proof of the task.                 *)
workDue(x, op) ==
    /\ row[x].known /\ x \notin retired
    /\ op = "ack" => /\ task[x].state = "pending"
                     /\ Product[x] = "premium" => row[x].state = "purchased"
claimProviderWork(c, x, op) ==
    /\ ~deleted /\ workDue(x, op) /\ ~work[x][op].held
    /\ work' = [work EXCEPT ![x][op] = Take(c, IF op = "ack" THEN task[x].proof ELSE Unset)]

LeaseEnds ==
    /\ \/ \E c \in slot.held : slot' = [slot EXCEPT !.held = @ \ {c}] /\ UNCHANGED work
       \/ slot.uncertain > 0 /\ slot' = [slot EXCEPT !.uncertain = @ - 1] /\ UNCHANGED work
       \/ \E x \in Items, op \in {"observe", "ack"} :
             work[x][op].held /\ work' = [work EXCEPT ![x][op] = NoLease] /\ UNCHANGED slot
    /\ UNCHANGED <<now, plan, shop, row, retired, task, call, purse, orders, deleted, asks>>

-----------------------------------------------------------------------------
(* The answer of the platform becomes a row.                                *)

(* The conflicts of applyProof: an older observation, a final state that    *)
(* would change, a grant that would become pending again, two answers for   *)
(* one instant, an older signature.                                         *)
\* Mutant: a granted purchase accepts no other state any more.
purchaseConflict_GrantFinal(r, v) ==
    r.known /\ \/ v.observed < r.observed
               \/ r.granted /\ v.state # "purchased"
               \/ v.observed = r.observed /\ v.state # r.state
               \/ v.signed < r.signed

purchaseConflict(r, v) ==
    r.known /\ \/ v.observed < r.observed
               \/ r.state \in {"revoked", "canceled"} /\ v.state # r.state
               \/ r.granted /\ v.state = "pending"
               \/ v.observed = r.observed /\ v.state # r.state
               \/ v.signed < r.signed

refundOf(r) == IF ~r.granted \/ purse.balance >= Noin THEN "applied" ELSE "reconciliation_pending"

purchaseMoney(r, v, x) ==
    IF v.state = "purchased" /\ ~r.granted THEN billingCredit(purse, x)
    ELSE IF v.state = "revoked" /\ r.refund = "none" /\ r.granted /\ purse.balance >= Noin
         THEN debitTx(purse, "refund", Noin, x) ELSE purse

applyProof(x, v) ==
    LET r == row[x]
    IN /\ ~purchaseConflict(r, v)
       /\ purse' = purchaseMoney(r, v, x)
       /\ row' = [row EXCEPT ![x] = [known |-> TRUE, state |-> v.state, observed |-> v.observed,
                                     signed |-> v.signed, txn |-> v.txn, until |-> v.until,
                                     granted |-> r.granted \/ v.state = "purchased",
                                     refund |-> IF v.state = "revoked" /\ r.refund = "none" THEN refundOf(r) ELSE r.refund]]
       /\ task' = [task EXCEPT ![x] =
             IF v.state = "purchased" /\ @.state = "none" THEN [state |-> "pending", proof |-> v.observed]
             ELSE IF v.state = "revoked" /\ @.state = "pending" THEN [@ EXCEPT !.state = "canceled"] ELSE @]
       /\ UNCHANGED retired

subscriptionConflict(r, v) ==
    r.known /\ \/ v.observed < r.observed
               \/ v.observed = r.observed /\ <<v.state, v.until, v.txn>> # <<r.state, r.until, r.txn>>
               \/ v.signed < r.signed
               \/ r.state \notin {"pending", "canceled"} /\ v.txn < r.txn
               \/ r.state = "revoked" /\ r.txn = v.txn /\ v.state # "revoked"
               \/ r.state = "canceled" /\ v.state # "canceled"
               \/ r.state \notin {"pending", "canceled"} /\ v.state \in {"pending", "canceled"}

predecessorKnown(x) == Replaces[x] # x => row[Replaces[x]].known

(* syncBillingPremium: the latest end among the sources that were not       *)
(* replaced.                                                                *)
\* Mutant: replaced sources still count.
syncBillingPremium_Retired(current, gone) ==
    Max({Unset} \cup {current[x].until : x \in {y \in Items : Product[y] = "premium"}})

syncBillingPremium(current, gone) ==
    Max({Unset} \cup {current[x].until : x \in {y \in Items : Product[y] = "premium"} \ gone})

applySubscription(x, v) ==
    LET acquired == v.state \notin {"pending", "canceled"}
        predecessor == IF Replaces[x] # x /\ acquired THEN {Replaces[x]} ELSE {}
    IN /\ x \notin retired
       /\ predecessorKnown(x)
       /\ ~subscriptionConflict(row[x], v)
       /\ row' = [row EXCEPT ![x] = [known |-> TRUE, state |-> v.state, observed |-> v.observed,
                                     signed |-> v.signed, txn |-> v.txn, until |-> v.until,
                                     granted |-> @.granted \/ v.state = "purchased", refund |-> "none"]]
       /\ retired' = retired \cup predecessor
       /\ task' = [y \in Items |->
             IF y \in predecessor /\ task[y].state = "pending" THEN [task[y] EXCEPT !.state = "canceled"]
             ELSE IF y # x THEN task[y]
             ELSE IF v.state = "purchased" /\ Platform[x] = "google" /\ task[x].state \in {"none", "pending"}
                  THEN [state |-> "pending", proof |-> v.observed]
             ELSE IF v.state \in {"revoked", "canceled"} /\ task[x].state = "pending"
                  THEN [task[x] EXCEPT !.state = "canceled"] ELSE task[x]]
       /\ purse' = [purse EXCEPT !.premium = syncBillingPremium(row', retired')]

-----------------------------------------------------------------------------
(* verifyReceipt, called by a client or by ProcessProviderTasks.            *)

quiet == UNCHANGED <<now, plan, shop, orders, deleted>>

(* ProcessProviderTasks claims a source before it asks again.               *)
ClaimObserve(x) ==
    /\ call[Worker].pc = "idle"
    /\ claimProviderWork(Worker, x, "observe")
    /\ row[x].state \notin (IF Product[x] = "noin" THEN {"revoked", "canceled"} ELSE {"canceled"})
    /\ call' = [call EXCEPT ![Worker] = [pc |-> "work", item |-> x]]
    /\ quiet /\ UNCHANGED <<row, retired, task, slot, purse, asks>>

Ask(c, x) ==
    /\ \/ c # Worker /\ call[c].pc = "idle" /\ x \in plan.items
       \/ c = Worker /\ call[c].pc = "work" /\ call[c].item = x
    /\ asks < plan.asks /\ asks' = asks + 1
    /\ ~deleted /\ claimVerification(c)
    /\ call' = [call EXCEPT ![c] = [pc |-> "asked", item |-> x, observed |-> now]]
    /\ quiet /\ UNCHANGED <<row, retired, task, work, purse>>

Answer(c) ==
    /\ call[c].pc = "asked"
    /\ LET v == proofOf(call[c].item, call[c].observed)
       IN /\ validateProof(call[c].item, v)
          /\ call' = [call EXCEPT ![c] = [pc |-> "answered", item |-> @.item, proof |-> v]]
    /\ quiet /\ UNCHANGED <<row, retired, task, slot, work, purse, asks>>

mayCommit(c) ==
    LET x == call[c].item
        v == call[c].proof
    IN /\ ~deleted
       /\ IF Product[x] = "noin" THEN ~purchaseConflict(row[x], v)
          ELSE x \notin retired /\ predecessorKnown(x) /\ ~subscriptionConflict(row[x], v)
       /\ c \in slot.held
       /\ c = Worker => Holds(work[x]["observe"], c)

(* One transaction applies the answer and gives slot and work back.         *)
Committed(c) ==
    /\ call[c].pc = "answered" /\ mayCommit(c)
    /\ slot' = [slot EXCEPT !.held = @ \ {c}]
    /\ IF c = Worker
       THEN work' = [work EXCEPT ![call[c].item]["observe"] = NoLease]
       ELSE UNCHANGED work
    /\ call' = [call EXCEPT ![c] =
                  IF @.proof.state = "purchased" THEN [pc |-> "granted", item |-> @.item] ELSE Idle]
    /\ quiet /\ UNCHANGED asks

verifyReceipt(c) ==
    /\ call[c].pc = "answered" /\ Product[call[c].item] = "noin"
    /\ applyProof(call[c].item, call[c].proof)
    /\ Committed(c)

verifySubscriptionReceipt(c) ==
    /\ call[c].pc = "answered" /\ Product[call[c].item] = "premium"
    /\ applySubscription(call[c].item, call[c].proof)
    /\ Committed(c)

(* Google consumes only what is still paid for.                             *)
consumable(x) == Product[x] = "noin" /\ Platform[x] = "google" => shop[x].state = "paid"

(* An attempt that ends without an effect: its slot stays taken until the   *)
(* deadline; the worker reports its failure (finishProviderWork with        *)
(* "unavailable") unless it is gone with its process.                       *)
Ended(c, reported) ==
    /\ slot' = IF c \in slot.held
               THEN [held |-> slot.held \ {c}, uncertain |-> slot.uncertain + 1] ELSE slot
    /\ work' = [work EXCEPT ![call[c].item] = [op \in {"observe", "ack"} |->
                      IF reported /\ Holds(@[op], c) THEN NoLease ELSE @[op]]]
    /\ call' = [call EXCEPT ![c] = Idle]
    /\ quiet /\ UNCHANGED <<row, retired, task, purse, asks>>

Refused(c) ==
    /\ \/ call[c].pc = "work" /\ (deleted \/ asks = plan.asks \/ Cardinality(slot.held) + slot.uncertain = Slots)
       \/ call[c].pc = "asked" /\ ~validateProof(call[c].item, proofOf(call[c].item, call[c].observed))
       \/ call[c].pc = "answered" /\ ~mayCommit(c)
       \/ call[c].pc = "acking" /\ ~consumable(call[c].item)
    /\ Ended(c, TRUE)

GiveUp(c, reported) ==
    /\ plan.fails /\ call[c].pc # "idle"
    /\ Ended(c, reported)

-----------------------------------------------------------------------------
(* acknowledgeWork, after a grant or by RetryAcknowledgements.              *)

acknowledgeWork(c, x) ==
    /\ claimProviderWork(c, x, "ack")
    /\ call' = [call EXCEPT ![c] = [pc |-> "acking", item |-> x]]
    /\ quiet /\ UNCHANGED <<row, retired, task, slot, purse, asks>>

AckAtOnce(c) == call[c].pc = "granted" /\ acknowledgeWork(c, call[c].item)

RetryAcknowledgements(x) ==
    /\ call[Worker].pc = "idle" /\ Product[x] = "noin" /\ row[x].state = "purchased"
    /\ acknowledgeWork(Worker, x)

retrySubscriptionAcknowledgements(x) ==
    /\ call[Worker].pc = "idle" /\ Product[x] = "premium" /\ row[x].state = "purchased"
    /\ acknowledgeWork(Worker, x)

(* The acknowledgement is not needed or somebody else is at it.             *)
SkipAck(c) ==
    /\ call[c].pc = "granted"
    /\ deleted \/ ~workDue(call[c].item, "ack") \/ work[call[c].item]["ack"].held
    /\ call' = [call EXCEPT ![c] = Idle]
    /\ quiet /\ UNCHANGED <<row, retired, task, slot, work, purse, asks>>

(* AcknowledgeOutcome: the platform is read before it is written, so that a *)
(* lost answer is found complete; Apple has no such operation.              *)
AcknowledgeOutcome(c) ==
    /\ call[c].pc = "acking"
    /\ LET x == call[c].item
       IN /\ consumable(x)
          /\ shop' = [shop EXCEPT ![x].consumed = @ \/ Platform[x] = "google"]
    /\ call' = [call EXCEPT ![c] = [pc |-> "acked", item |-> @.item]]
    /\ UNCHANGED <<now, plan, row, retired, task, slot, work, purse, orders, deleted, asks>>

finishProviderWork(c) ==
    /\ call[c].pc = "acked"
    /\ LET x == call[c].item
       IN /\ Holds(work[x]["ack"], c) /\ work[x]["ack"].proof = task[x].proof
          /\ task[x].state = "pending" /\ x \notin retired
          /\ task' = [task EXCEPT ![x].state = "done"]
          /\ work' = [work EXCEPT ![x]["ack"] = NoLease]
    /\ call' = [call EXCEPT ![c] = Idle]
    /\ quiet /\ UNCHANGED <<row, retired, slot, purse, asks>>

(* The outcome of an acknowledgement that cannot be booked is an error; the *)
(* task stays pending.                                                      *)
refusedFinish(c) ==
    /\ call[c].pc = "acked"
    /\ LET x == call[c].item
       IN ~(/\ Holds(work[x]["ack"], c) /\ work[x]["ack"].proof = task[x].proof
            /\ task[x].state = "pending" /\ x \notin retired)
    /\ call' = [call EXCEPT ![c] = Idle]
    /\ quiet /\ UNCHANGED <<row, retired, task, slot, work, purse, asks>>

Delete ==
    /\ plan.deletes /\ ~deleted /\ deleted' = TRUE
    /\ UNCHANGED <<now, plan, shop, row, retired, task, slot, work, call, purse, orders, asks>>

Tick ==
    /\ now < plan.end /\ now' = now + 1
    /\ UNCHANGED <<plan, shop, row, retired, task, slot, work, call, purse, orders, deleted, asks>>

Shop ==
    /\ \E x \in Items : Pay(x) \/ CancelPending(x) \/ Revoke(x) \/ Renew(x) \/ Lapse(x)
    /\ UNCHANGED <<now, plan, row, retired, task, slot, work, call, purse, orders, deleted, asks>>

BillingNext ==
    \/ Tick \/ Delete \/ Shop \/ LeaseEnds
    \/ \E capped \in BOOLEAN : Grant(capped)
    \/ \E n \in 1..purse.points : ConvertPoints(n)
    \/ GrantPlayPass \/ PurchaseCustomAvatar
    \/ \E o \in orders, item \in {"pass", "avatar"} : CorrectNoin(o, item)
    \/ \E x \in Items : ClaimObserve(x) \/ RetryAcknowledgements(x) \/ retrySubscriptionAcknowledgements(x)
    \/ \E c \in Callers, x \in Items : Ask(c, x)
    \/ \E c \in Callers : \/ Answer(c) \/ verifyReceipt(c) \/ verifySubscriptionReceipt(c)
                          \/ AckAtOnce(c) \/ SkipAck(c) \/ AcknowledgeOutcome(c)
                          \/ finishProviderWork(c) \/ refusedFinish(c) \/ Refused(c)
                          \/ \E reported \in BOOLEAN : GiveUp(c, reported)

BillingSpec == BillingInit /\ [][BillingNext]_billingVars

-----------------------------------------------------------------------------
(* Properties.                                                              *)

(* The wallet is the sum of its ledger and never negative, whatever the     *)
(* order of purchases, refunds, spending and corrections; a purchase is     *)
(* credited at most once and refunded at most once and only after a credit; *)
(* the day never earns more than its cap; a spend is corrected once.        *)
PurseExact ==
    /\ purse.balance = ledgerSum(purse) /\ purse.balance >= 0
    /\ \A x \in Items :
         /\ rows(purse, "purchase", x) = (IF Product[x] = "noin" /\ row[x].granted THEN 1 ELSE 0)
         /\ rows(purse, "refund", x) = (IF row[x].refund = "applied" /\ row[x].granted THEN 1 ELSE 0)
    /\ purse.earned <= Cap
    /\ \A item \in {"pass", "avatar"} : rows(purse, "correction", item) <= rows(purse, "spend", item)

(* No interleaving of verifications leaves a row that would refuse what the *)
(* platform says of a source from now on: the next undisturbed observation  *)
(* is accepted, so a grant, a refund or an end of Premium is only late.     *)
NeverStuck ==
    \A x \in plan.items : row[x].known /\ x \notin retired =>
        LET v == [proofOf(x, plan.end + 1) EXCEPT !.signed = IF @ = Unset THEN @ ELSE plan.end + 1]
        IN ~(IF Product[x] = "noin" THEN purchaseConflict(row[x], v) ELSE subscriptionConflict(row[x], v))

(* Premium is never projected beyond what the sources in force carry, and a *)
(* source that was replaced never contributes again, even when an answer    *)
(* about it arrives after the replacement.                                  *)
PremiumInForce ==
    /\ purse.premium = Max({Unset} \cup {row[x].until : x \in {y \in plan.items : Product[y] = "premium"} \ retired})
    /\ \A x \in retired : \E y \in plan.items \ {x} : Replaces[y] = x /\ row[y].known
    /\ \A x \in plan.items : row[x].until <= shop[x].expiry \/ x \in retired \/ shop[x].state \in {"expired", "revoked"}

=============================================================================
