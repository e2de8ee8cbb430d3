-------------------------- MODULE PurchasesProofs --------------------------
(***************************************************************************)
(* Premium and the observations of purchases, for any set of items and     *)
(* their replacements, any number of concurrent verifications and any      *)
(* plan.  What a row or an answer under way says was true of the platform  *)
(* once, and what the platform may do since is limited: that is the        *)
(* inductive invariant.                                                    *)
(***************************************************************************)
EXTENDS Purchases, TLAPS

Instants == Nat \cup {Unset}
ShopStates == {"pending", "paid", "active", "hold", "expired", "revoked", "canceled"}
States == ShopStates \cup {"none", "purchased", "on_hold"}
ShopRow == [state : ShopStates, expiry : Instants, txn : Nat, consumed : BOOLEAN]
BillingRow ==
    [known : BOOLEAN, state : States, observed : Instants, signed : Instants, txn : Instants, until : Instants,
     granted : BOOLEAN, refund : {"none", "applied", "reconciliation_pending"}]
ProofRow == [state : States, observed : Nat, until : Instants, txn : Nat, signed : Instants]
CallRow ==
    {Idle} \cup [pc : {"work", "granted", "acking", "acked"}, item : Items]
    \cup [pc : {"asked"}, item : Items, observed : Nat]
    \cup [pc : {"answered"}, item : Items, proof : ProofRow]

Shape(p) ==
    p = [balance |-> p.balance, ledger |-> p.ledger, earned |-> p.earned, points |-> p.points,
         pass |-> p.pass, avatar |-> p.avatar, premium |-> p.premium]
PurseShape == Shape(purse)

BillingTypes ==
    /\ now \in Nat /\ plan \in Plans /\ now <= plan.end
    /\ shop \in [Items -> ShopRow] /\ \A x \in Items : shop[x].state = "pending" => shop[x].expiry = Unset
    /\ row \in [Items -> BillingRow] /\ call \in [Callers -> CallRow]
    /\ retired \subseteq Items
    /\ PurseShape

(* An instant that is not set is before every other.                        *)
LEMMA UnsetFirst == Unset \in Int /\ Unset <= Unset /\ \A n \in Nat : Unset < n
BY DEF Unset

(* What an answer said of a source that is now as k.                        *)
Agrees(v, k) ==
    /\ v.state \in {"revoked", "canceled"} => k.state = v.state
    /\ v.state \notin {"pending", "canceled"} => k.state \notin {"pending", "canceled"}
    /\ v.txn <= k.txn
    /\ v.until <= k.expiry \/ k.state \in {"expired", "revoked"}

(* It was asked and signed by now; Google neither signs nor tells of        *)
(* transactions.                                                            *)
Dated(x, v, n) ==
    /\ v.observed <= n /\ v.signed <= n
    /\ Platform[x] = "google" => v.signed = Unset /\ v.txn = 0

RowOk(x, r, k, n) ==
    IF r.known
      THEN /\ x \in plan.items /\ r.state # "none" /\ r.txn \in Nat
           /\ Agrees(r, k) /\ Dated(x, r, n)
           /\ r.granted => k.state \notin {"pending", "canceled"}
    ELSE r = NoRow

RowsTold == \A x \in Items : RowOk(x, row[x], shop[x], now)

CallOk(w) ==
    /\ w.pc # "idle" => w.item \in plan.items
    /\ w.pc = "asked" => w.observed <= now
    /\ w.pc = "answered" => /\ w.proof.state # "none"
                            /\ Agrees(w.proof, shop[w.item]) /\ Dated(w.item, w.proof, now)
CallsTold == \A c \in Callers : CallOk(call[c])

Replaced == \A x \in retired : \E y \in plan.items \ {x} : Replaces[y] = x /\ row[y].known

Projected == purse.premium = syncBillingPremium(row, retired)

BillingInv == BillingTypes /\ RowsTold /\ CallsTold /\ Replaced /\ Projected

(* What the invariant says of Premium: sources that nobody asked about      *)
(* contribute nothing.                                                      *)
LEMMA PremiumHolds == BillingInv => PremiumInForce
<1> SUFFICES ASSUME BillingInv PROVE PremiumInForce
  OBVIOUS
<1> USE PurchasesAssumption
<1>1. row \in [Items -> BillingRow] /\ plan.items \subseteq Items /\ RowsTold /\ Replaced /\ Projected
  <2>1. plan \in Plans
    BY DEF BillingInv, BillingTypes
  <2>2. plan.items \subseteq Items
    BY <2>1
  <2> QED
    BY <2>2 DEF BillingInv, BillingTypes
<1>2. \A x \in Items : x \notin plan.items => row[x].until = Unset
  BY <1>1 DEF RowsTold, RowOk, NoRow
<1>3. {Unset} \cup {row[x].until : x \in {y \in Items : Product[y] = "premium"} \ retired}
      = {Unset} \cup {row[x].until : x \in {y \in plan.items : Product[y] = "premium"} \ retired}
  <2> DEFINE All == {y \in Items : Product[y] = "premium"} \ retired
             Mine == {y \in plan.items : Product[y] = "premium"} \ retired
             Ends(S) == {row[x].until : x \in S}
  <2>1. ASSUME NEW y \in All PROVE row[y].until \in {Unset} \cup Ends(Mine)
    BY <1>2
  <2>2. Mine \subseteq All
    BY <1>1
  <2> HIDE DEF All, Mine
  <2>3. Ends(All) \subseteq {Unset} \cup Ends(Mine) /\ Ends(Mine) \subseteq Ends(All)
    BY <2>1, <2>2
  <2>4. {Unset} \cup Ends(All) = {Unset} \cup Ends(Mine)
    BY <2>3
  <2> QED
    BY <2>4 DEF All, Mine
<1>4. purse.premium = Max({Unset} \cup {row[x].until : x \in {y \in plan.items : Product[y] = "premium"} \ retired})
  BY <1>1, <1>3 DEF Projected, syncBillingPremium
<1>5. ASSUME NEW x \in plan.items
      PROVE  row[x].until <= shop[x].expiry \/ x \in retired \/ shop[x].state \in {"expired", "revoked"}
  <2>1. x \in Items /\ shop[x].expiry \in Instants
    BY <1>1 DEF BillingInv, BillingTypes, ShopRow
  <2>2. CASE row[x].known
    BY <1>1, <2>1, <2>2 DEF RowsTold, RowOk, Agrees
  <2>3. CASE ~row[x].known
    <3>1. row[x] = NoRow
      BY <1>1, <2>1, <2>3 DEF RowsTold, RowOk
    <3>2. row[x].until = Unset
      BY <3>1 DEF NoRow
    <3> QED
      BY <2>1, <3>2, UnsetFirst DEF Instants
  <2> QED
    BY <2>2, <2>3
<1> QED
  BY <1>1, <1>4, <1>5 DEF PremiumInForce, Replaced

(* The next observation of a source is accepted.                            *)
LEMMA NothingStuck == BillingInv => NeverStuck
<1> SUFFICES ASSUME BillingInv, NEW x \in plan.items, row[x].known, x \notin retired
             PROVE  LET v == [proofOf(x, plan.end + 1) EXCEPT !.signed = IF @ = Unset THEN @ ELSE plan.end + 1]
                    IN ~(IF Product[x] = "noin" THEN purchaseConflict(row[x], v) ELSE subscriptionConflict(row[x], v))
  BY DEF NeverStuck
<1> USE PurchasesAssumption
<1> DEFINE p == proofOf(x, plan.end + 1)
           v == [p EXCEPT !.signed = IF @ = Unset THEN @ ELSE plan.end + 1]
<1>1. /\ x \in Items /\ now \in Nat /\ plan.end \in Nat /\ now <= plan.end
      /\ shop[x] \in ShopRow /\ row[x] \in BillingRow
      /\ RowOk(x, row[x], shop[x], now)
  BY DEF BillingInv, BillingTypes, RowsTold
<1>2. /\ row[x].observed \in Instants /\ row[x].signed \in Instants /\ row[x].txn \in Nat
      /\ Agrees(row[x], shop[x]) /\ Dated(x, row[x], now)
      /\ row[x].granted => shop[x].state \notin {"pending", "canceled"}
  BY <1>1 DEF RowOk, BillingRow
<1>3. /\ p.observed = plan.end + 1
      /\ p.state = "pending" => shop[x].state = "pending"
      /\ shop[x].state \in {"revoked", "canceled"} => p.state = shop[x].state
      /\ p.state = "canceled" => shop[x].state = "canceled"
      /\ p = [state |-> p.state, observed |-> p.observed, until |-> p.until, txn |-> p.txn, signed |-> p.signed]
      /\ p.signed = IF Platform[x] = "google" THEN Unset ELSE now
      /\ p.txn = IF Platform[x] = "google" THEN 0 ELSE shop[x].txn
  <2>1. CASE Platform[x] = "google" /\ Product[x] = "noin"
    BY <1>1, <2>1 DEF proofOf, GoogleVerify
  <2>2. CASE Platform[x] = "google" /\ Product[x] = "premium"
    BY <1>1, <2>2 DEF proofOf, GoogleSubscription
  <2>3. CASE Platform[x] = "apple" /\ Product[x] = "noin"
    BY <1>1, <2>3 DEF proofOf, AppleVerify
  <2>4. CASE Platform[x] = "apple" /\ Product[x] = "premium"
    BY <1>1, <2>4 DEF proofOf, AppleVerify, AppleSubscription
  <2> QED
    BY <1>1, <2>1, <2>2, <2>3, <2>4
<1>4. v = [state |-> p.state, observed |-> p.observed, until |-> p.until, txn |-> p.txn,
           signed |-> IF p.signed = Unset THEN Unset ELSE plan.end + 1]
  BY <1>3
<1> HIDE DEF p
<1>5. /\ v.observed = plan.end + 1 /\ v.state = p.state /\ v.txn = p.txn
      /\ v.signed = IF Platform[x] = "google" THEN Unset ELSE plan.end + 1
  BY <1>1, <1>3, <1>4, UnsetFirst
<1> HIDE DEF v
<1>6. row[x].observed < v.observed /\ row[x].signed <= v.signed
  BY <1>1, <1>2, <1>5, UnsetFirst DEF Instants, Dated
<1>7. CASE Product[x] = "noin"
  <2>1. ~purchaseConflict(row[x], v)
    BY <1>1, <1>2, <1>3, <1>5, <1>6, UnsetFirst DEF purchaseConflict, Agrees, Instants
  <2> QED
    BY <1>7, <2>1 DEF v, p
<1>8. CASE Product[x] = "premium"
  <2>1. shop[x].txn \in Nat /\ row[x].txn <= v.txn
    BY <1>1, <1>2, <1>3, <1>5 DEF Agrees, Dated, ShopRow
  <2>2. ~subscriptionConflict(row[x], v)
    BY <1>1, <1>2, <1>3, <1>5, <1>6, <2>1, UnsetFirst DEF subscriptionConflict, Agrees, Instants
  <2> QED
    BY <1>8, <2>2 DEF v, p
<1> QED
  BY <1>1, <1>7, <1>8

-----------------------------------------------------------------------------
(* Steps.                                                                   *)

(* Nobody has bought anything at first.                                     *)
LEMMA BillingStart == BillingInit => BillingInv
<1> SUFFICES ASSUME BillingInit PROVE BillingInv
  OBVIOUS
<1> USE PurchasesAssumption
<1> DEFINE first == [state |-> "pending", expiry |-> Unset, txn |-> 0, consumed |-> FALSE]
<1>1. PICK s \in Plans :
        /\ now = 0 /\ plan = s /\ shop = [x \in Items |-> first] /\ row = [x \in Items |-> NoRow]
        /\ retired = {} /\ call = [c \in Callers |-> Idle]
        /\ purse = [balance |-> 0, ledger |-> EmptyBag, earned |-> 0, points |-> s.points,
                    pass |-> 0, avatar |-> FALSE, premium |-> Unset]
  BY DEF BillingInit
<1>2. first \in ShopRow /\ first.state = "pending" /\ first.expiry = Unset
  BY DEF ShopRow, ShopStates, Instants
<1>3. NoRow \in BillingRow /\ ~NoRow.known /\ NoRow.until = Unset
  BY DEF NoRow, BillingRow, States, Instants
<1>4. Idle \in CallRow /\ Idle.pc = "idle"
  BY DEF CallRow, Idle
<1> HIDE DEF first
<1>5. BillingTypes
  <2>1. PurseShape
    BY <1>1 DEF PurseShape, Shape
  <2>2. s.end \in Nat
    OBVIOUS
  <2>3. shop \in [Items -> ShopRow] /\ \A x \in Items : shop[x].state = "pending" => shop[x].expiry = Unset
    BY <1>1, <1>2
  <2>4. row \in [Items -> BillingRow] /\ call \in [Callers -> CallRow]
    BY <1>1, <1>3, <1>4
  <2> QED
    BY <1>1, <2>1, <2>2, <2>3, <2>4 DEF BillingTypes
<1>6. RowsTold
  BY <1>1, <1>3 DEF RowsTold, RowOk
<1>7. CallsTold
  BY <1>1, <1>4 DEF CallsTold, CallOk
<1>8. Replaced
  BY <1>1 DEF Replaced
<1>9. Projected
  <2> DEFINE S == {y \in Items : Product[y] = "premium"} \ retired
  <2>1. \A x \in S : row[x].until = Unset
    BY <1>1, <1>3
  <2> HIDE DEF S
  <2>2. {Unset} \cup {row[x].until : x \in S} = {Unset}
    BY <2>1
  <2>3. Max({Unset}) = Unset
    BY UnsetFirst DEF Max
  <2>4. purse.premium = Unset
    BY <1>1
  <2> QED
    BY <2>2, <2>3, <2>4 DEF Projected, syncBillingPremium, S
<1> QED
  BY <1>5, <1>6, <1>7, <1>8, <1>9 DEF BillingInv

(* What the platform may do to a source: an end by revocation or            *)
(* cancellation is final, nothing becomes pending again, and a period is    *)
(* extended or over.                                                        *)
Moves(k, m) ==
    /\ k.state \in {"revoked", "canceled"} => m.state = k.state
    /\ k.state = "expired" => m.state \in {"expired", "revoked"}
    /\ k.state \notin {"pending", "canceled"} => m.state \notin {"pending", "canceled"}
    /\ k.txn <= m.txn
    /\ k.expiry <= m.expiry \/ m.state \in {"expired", "revoked"}

(* An answer stays true of a source that moves on.                          *)
LEMMA AgreesStill ==
  ASSUME NEW k \in ShopRow, NEW m \in ShopRow, Moves(k, m), NEW v, Agrees(v, k),
         v.txn \in Nat, v.until \in Instants
  PROVE  Agrees(v, m)
<1>1. /\ k.txn \in Nat /\ m.txn \in Nat /\ k.expiry \in Int /\ m.expiry \in Int /\ v.until \in Int
  BY UnsetFirst DEF ShopRow, Instants
<1>2. v.txn <= m.txn
  BY <1>1 DEF Agrees, Moves
<1>3. v.until <= m.expiry \/ m.state \in {"expired", "revoked"}
  BY <1>1 DEF Agrees, Moves
<1> QED
  BY <1>2, <1>3 DEF Agrees, Moves

(* The steps of the platform.                                               *)
LEMMA ShopMoves ==
  ASSUME BillingTypes, NEW x \in Items, Pay(x) \/ CancelPending(x) \/ Revoke(x) \/ Renew(x) \/ Lapse(x)
  PROVE  /\ shop' \in [Items -> ShopRow]
         /\ \A y \in Items : Moves(shop[y], shop'[y]) /\ (shop'[y].state = "pending" => shop'[y].expiry = Unset)
<1> USE PurchasesAssumption
<1>1. /\ shop \in [Items -> ShopRow] /\ \A y \in Items : shop[y].state = "pending" => shop[y].expiry = Unset
      /\ now \in Nat /\ shop[x] \in ShopRow
  BY DEF BillingTypes
<1>2. \A y \in Items : /\ shop[y].txn \in Nat /\ shop[y].expiry \in Instants /\ shop[y].state \in ShopStates
                       /\ shop[y].expiry <= shop[y].expiry /\ shop[y].txn <= shop[y].txn
  BY <1>1, UnsetFirst DEF ShopRow, Instants
<1>3. \A y \in Items : Moves(shop[y], shop[y])
  BY <1>2 DEF Moves
<1>4. ASSUME NEW k \in ShopRow, shop' = [shop EXCEPT ![x] = k], Moves(shop[x], k), k.state # "pending"
      PROVE  /\ shop' \in [Items -> ShopRow]
             /\ \A y \in Items : Moves(shop[y], shop'[y]) /\ (shop'[y].state = "pending" => shop'[y].expiry = Unset)
  <2>1. \A y \in Items : shop'[y] = IF y = x THEN k ELSE shop[y]
    BY <1>1, <1>4
  <2> QED
    BY <1>1, <1>3, <1>4, <2>1
<1>5. CASE Pay(x)
  <2> DEFINE k == [shop[x] EXCEPT !.state = IF Product[x] = "noin" THEN "paid" ELSE "active",
                                  !.expiry = IF Product[x] = "noin" THEN Unset ELSE now + Period]
             m(y) == [shop[y] EXCEPT !.state = "expired", !.expiry = now]
  <2>1. /\ shop[x].state = "pending" /\ shop[x].expiry = Unset
        /\ Replaces[x] # x => shop[Replaces[x]].state \in {"active", "hold", "expired"}
    BY <1>1, <1>5 DEF Pay
  <2>2. shop' = [y \in Items |-> IF y = x THEN k ELSE IF y = Replaces[x] THEN m(y) ELSE shop[y]]
    BY <1>5 DEF Pay
  <2>3. k \in ShopRow /\ k.state \in {"paid", "active"} /\ k.txn = shop[x].txn /\ Unset <= k.expiry
    <3>1. now + Period \in Nat
      BY <1>1
    <3>2. ASSUME NEW n \in Nat, n = now + Period
          PROVE  k \in ShopRow /\ k.state \in {"paid", "active"} /\ k.txn = shop[x].txn
                 /\ k.expiry = IF Product[x] = "noin" THEN Unset ELSE n
      BY <1>1, <3>2 DEF ShopRow, ShopStates, Instants
    <3>3. /\ k \in ShopRow /\ k.state \in {"paid", "active"} /\ k.txn = shop[x].txn
          /\ k.expiry = IF Product[x] = "noin" THEN Unset ELSE now + Period
      BY <3>1, <3>2
    <3> QED
      BY <3>1, <3>3, UnsetFirst
  <2>4. ASSUME NEW y \in Items PROVE m(y) \in ShopRow /\ m(y).state = "expired" /\ m(y).txn = shop[y].txn
    BY <1>1 DEF ShopRow, ShopStates, Instants
  <2> HIDE DEF k, m
  <2>5. Moves(shop[x], k)
    BY <1>2, <2>1, <2>3 DEF Moves
  <2>6. Replaces[x] # x => Moves(shop[Replaces[x]], m(Replaces[x]))
    BY <1>2, <2>1, <2>4 DEF Moves
  <2>7. \A y \in Items : shop'[y] = IF y = x THEN k ELSE IF y = Replaces[x] THEN m(y) ELSE shop[y]
    BY <2>2
  <2>8. shop' \in [Items -> ShopRow]
    BY <1>1, <2>2, <2>3, <2>4
  <2>9. ASSUME NEW y \in Items
        PROVE  Moves(shop[y], shop'[y]) /\ (shop'[y].state = "pending" => shop'[y].expiry = Unset)
    <3>1. CASE y = x
      BY <2>3, <2>5, <2>7, <3>1
    <3>2. CASE y # x /\ y = Replaces[x]
      BY <2>4, <2>6, <2>7, <3>2
    <3>3. CASE y # x /\ y # Replaces[x]
      BY <1>1, <1>3, <2>7, <3>3
    <3> QED
      BY <3>1, <3>2, <3>3
  <2> QED
    BY <2>8, <2>9
<1>6. ASSUME NEW state \in ShopStates \ {"pending"}, shop' = [shop EXCEPT ![x].state = state],
             shop[x].state = state \/ shop[x].state = "pending"
             \/ (shop[x].state \in {"paid", "active"} /\ state \notin {"pending", "canceled"})
      PROVE  /\ shop' \in [Items -> ShopRow]
             /\ \A y \in Items : Moves(shop[y], shop'[y]) /\ (shop'[y].state = "pending" => shop'[y].expiry = Unset)
  <2> DEFINE k == [shop[x] EXCEPT !.state = state]
  <2>1. k \in ShopRow /\ k.state = state /\ k.txn = shop[x].txn /\ k.expiry = shop[x].expiry
    BY <1>1 DEF ShopRow
  <2>2. shop' = [shop EXCEPT ![x] = k]
    BY <1>6
  <2> HIDE DEF k
  <2>3. Moves(shop[x], k)
    BY <1>2, <1>6, <2>1 DEF Moves
  <2> QED
    BY <1>4, <1>6, <2>1, <2>2, <2>3
<1>7. CASE CancelPending(x)
  <2>1. shop[x].state = "pending" /\ shop' = [shop EXCEPT ![x].state = IF Product[x] = "noin" THEN "revoked" ELSE "canceled"]
    BY <1>7 DEF CancelPending
  <2> QED
    BY <1>6, <2>1 DEF ShopStates
<1>8. CASE Revoke(x)
  <2>1. shop[x].state \in {"paid", "active"} /\ shop' = [shop EXCEPT ![x].state = "revoked"]
    BY <1>8 DEF Revoke
  <2> QED
    BY <1>6, <2>1 DEF ShopStates
<1>9. CASE Lapse(x)
  <2>1. shop[x].state = "active" /\ \/ shop' = [shop EXCEPT ![x].state = "hold"]
                                    \/ shop' = [shop EXCEPT ![x].state = "expired"]
    BY <1>9 DEF Lapse
  <2> QED
    BY <1>6, <2>1 DEF ShopStates
<1>10. CASE Renew(x)
  <2> DEFINE k == [shop[x] EXCEPT !.state = "active", !.expiry = now + Period, !.txn = @ + 1]
  <2>1. shop[x].state \in {"active", "hold"} /\ now + Period > shop[x].expiry /\ shop' = [shop EXCEPT ![x] = k]
    BY <1>10 DEF Renew
  <2>2. now + Period \in Nat /\ shop[x].txn + 1 \in Nat /\ shop[x].txn \in Nat
    BY <1>1, <1>2
  <2>3. ASSUME NEW n \in Nat, NEW t \in Nat, n = now + Period, t = shop[x].txn + 1
        PROVE  k \in ShopRow /\ k.state = "active" /\ k.expiry = n /\ k.txn = t
    BY <1>1, <2>3 DEF ShopRow, ShopStates, Instants
  <2>4. k \in ShopRow /\ k.state = "active" /\ k.expiry = now + Period /\ k.txn = shop[x].txn + 1
    BY <2>2, <2>3
  <2> HIDE DEF k
  <2>5. shop[x].expiry \in Int
    BY <1>2, UnsetFirst DEF Instants
  <2>6. Moves(shop[x], k)
    BY <2>1, <2>2, <2>4, <2>5 DEF Moves
  <2> QED
    BY <1>4, <2>1, <2>4, <2>6
<1> QED
  BY <1>5, <1>7, <1>8, <1>9, <1>10

(* Steps that write no row: the platform may move, calls may be answered.   *)
LEMMA BillingFrame ==
  ASSUME BillingInv, UNCHANGED <<plan, row, retired>>, now' \in Nat, now <= now', now' <= plan.end,
         shop' \in [Items -> ShopRow], \A x \in Items : shop'[x].state = "pending" => shop'[x].expiry = Unset,
         \A x \in Items : Moves(shop[x], shop'[x]),
         PurseShape', purse'.premium = purse.premium,
         call' \in [Callers -> CallRow], \A c \in Callers : call'[c] = call[c] \/ CallOk(call[c])'
  PROVE  BillingInv'
<1> USE PurchasesAssumption
<1>1. /\ now \in Nat /\ shop \in [Items -> ShopRow] /\ row \in [Items -> BillingRow] /\ call \in [Callers -> CallRow]
      /\ plan \in Plans /\ RowsTold /\ CallsTold
  BY DEF BillingInv, BillingTypes
<1>2. plan.items \subseteq Items
  BY <1>1
<1>3. BillingTypes'
  BY DEF BillingInv, BillingTypes
<1>4. ASSUME NEW x \in Items PROVE RowOk(x, row[x], shop'[x], now')
  <2>1. RowOk(x, row[x], shop[x], now) /\ row[x] \in BillingRow
    BY <1>1 DEF RowsTold
  <2>2. CASE row[x].known
    <3>1. /\ row[x].observed \in Int /\ row[x].signed \in Int /\ row[x].txn \in Nat /\ row[x].until \in Instants
      BY <2>1, <2>2, UnsetFirst DEF BillingRow, Instants, RowOk
    <3>2. Agrees(row[x], shop'[x])
      BY <1>1, <2>1, <2>2, <3>1, AgreesStill DEF RowOk
    <3>3. Dated(x, row[x], now')
      BY <1>1, <2>1, <2>2, <3>1 DEF RowOk, Dated
    <3>4. row[x].granted => shop'[x].state \notin {"pending", "canceled"}
      BY <2>1, <2>2 DEF RowOk, Moves
    <3> QED
      BY <2>1, <2>2, <3>2, <3>3, <3>4 DEF RowOk
  <2> QED
    BY <2>1, <2>2 DEF RowOk
<1>5. ASSUME NEW c \in Callers PROVE CallOk(call[c])'
  <2>1. CallOk(call[c]) /\ call[c] \in CallRow
    BY <1>1 DEF CallsTold
  <2>2. ASSUME call'[c] = call[c], call[c].pc = "answered"
        PROVE  Agrees(call[c].proof, shop'[call[c].item]) /\ Dated(call[c].item, call[c].proof, now')
    <3>1. call[c].item \in Items /\ call[c].proof \in ProofRow
      BY <2>1, <2>2 DEF CallRow, Idle
    <3>2. /\ call[c].proof.observed \in Int /\ call[c].proof.signed \in Int /\ call[c].proof.txn \in Nat
          /\ call[c].proof.until \in Instants
      BY <3>1, UnsetFirst DEF ProofRow, Instants
    <3>3. Agrees(call[c].proof, shop[call[c].item]) /\ Dated(call[c].item, call[c].proof, now)
      BY <2>1, <2>2 DEF CallOk
    <3>4. Agrees(call[c].proof, shop'[call[c].item])
      BY <1>1, <3>1, <3>2, <3>3, AgreesStill
    <3>5. Dated(call[c].item, call[c].proof, now')
      BY <1>1, <3>2, <3>3 DEF Dated
    <3> QED
      BY <3>4, <3>5
  <2>3. ASSUME call'[c] = call[c], call[c].pc = "asked" PROVE call[c].observed <= now'
    <3>1. call[c].observed \in Nat
      BY <2>1, <2>3 DEF CallRow, Idle
    <3>2. call[c].observed <= now
      BY <2>1, <2>3 DEF CallOk
    <3> QED
      BY <1>1, <3>1, <3>2
  <2> QED
    BY <2>1, <2>2, <2>3 DEF CallOk
<1>6. RowsTold' /\ CallsTold'
  <2>1. RowsTold'
    BY <1>4 DEF RowsTold, RowOk
  <2>2. CallsTold'
    BY <1>5 DEF CallsTold
  <2> QED
    BY <2>1, <2>2
<1>7. Replaced' /\ Projected'
  BY DEF BillingInv, Replaced, Projected, syncBillingPremium
<1> QED
  BY <1>3, <1>6, <1>7 DEF BillingInv

(* Steps of one call that write no row.                                     *)
LEMMA CallSteps ==
  ASSUME BillingInv, UNCHANGED <<now, plan, row, retired, purse>>,
         NEW c \in Callers, NEW w \in CallRow, call' = [call EXCEPT ![c] = w], CallOk(w),
         UNCHANGED shop \/ \E x \in Items, b \in BOOLEAN : shop' = [shop EXCEPT ![x].consumed = b]
  PROVE  BillingInv'
<1>1. /\ now \in Nat /\ now <= plan.end /\ shop \in [Items -> ShopRow] /\ call \in [Callers -> CallRow]
      /\ \A x \in Items : shop[x].state = "pending" => shop[x].expiry = Unset
  BY DEF BillingInv, BillingTypes
<1>2. /\ shop' \in [Items -> ShopRow]
      /\ \A x \in Items : /\ shop'[x].state = shop[x].state /\ shop'[x].expiry = shop[x].expiry
                          /\ shop'[x].txn = shop[x].txn
  <2>1. ASSUME NEW x \in Items, NEW b \in BOOLEAN, shop' = [shop EXCEPT ![x].consumed = b]
        PROVE  <1>2!1 /\ <1>2!2
    <3> DEFINE k == [shop[x] EXCEPT !.consumed = b]
    <3>1. k \in ShopRow /\ k.state = shop[x].state /\ k.expiry = shop[x].expiry /\ k.txn = shop[x].txn
      BY <1>1 DEF ShopRow
    <3>2. shop' = [shop EXCEPT ![x] = k]
      BY <2>1
    <3> HIDE DEF k
    <3> QED
      BY <1>1, <3>1, <3>2
  <2> QED
    BY <1>1, <2>1
<1>3. \A x \in Items : Moves(shop[x], shop'[x])
  <2>1. \A x \in Items : shop[x].txn \in Nat /\ shop[x].expiry \in Int
    BY <1>1, UnsetFirst DEF ShopRow, Instants
  <2> QED
    BY <1>2, <2>1 DEF Moves
<1>4. call' \in [Callers -> CallRow] /\ \A d \in Callers : call'[d] = IF d = c THEN w ELSE call[d]
  BY <1>1
<1>5. CallOk(call[c])'
  <2>1. call'[c] = w
    BY <1>4
  <2>2. w.pc = "answered" => Agrees(w.proof, shop'[w.item])
    <3>1. ASSUME w.pc = "answered" PROVE Agrees(w.proof, shop'[w.item])
      <4>1. w.item \in Items
        BY <3>1 DEF CallRow, Idle
      <4> QED
        BY <1>2, <3>1, <4>1 DEF CallOk, Agrees
    <3> QED
      BY <3>1
  <2> QED
    BY <2>1, <2>2 DEF CallOk
<1>6. PurseShape' /\ UNCHANGED <<plan, row, retired>> /\ purse'.premium = purse.premium /\ now' \in Nat
      /\ now <= now' /\ now' <= plan.end
  BY <1>1 DEF BillingInv, BillingTypes, PurseShape, Shape
<1> QED
  BY <1>1, <1>2, <1>3, <1>4, <1>5, <1>6, BillingFrame

(* Money alone never moves Premium.                                         *)
LEMMA BookedShape ==
  ASSUME NEW p, Shape(p), NEW kind, NEW amount, NEW item
  PROVE  Shape(booked(p, kind, amount, item)) /\ booked(p, kind, amount, item).premium = p.premium
<1> DEFINE b == p.balance + amount
           l == BagAdd(p.ledger, [kind |-> kind, amount |-> amount, item |-> item])
<1>1. booked(p, kind, amount, item) = [p EXCEPT !.balance = b, !.ledger = l]
  BY DEF booked
<1> HIDE DEF b, l
<1>2. Shape([p EXCEPT !.balance = b, !.ledger = l]) /\ [p EXCEPT !.balance = b, !.ledger = l].premium = p.premium
  <2>1. ASSUME NEW e, NEW n, NEW d, NEW a, NEW m, NEW x, NEW y,
               p = [balance |-> x, ledger |-> y, earned |-> e, points |-> n, pass |-> d, avatar |-> a, premium |-> m]
        PROVE  [p EXCEPT !.balance = b, !.ledger = l]
               = [balance |-> b, ledger |-> l, earned |-> e, points |-> n, pass |-> d, avatar |-> a, premium |-> m]
    <3> DEFINE o == [p EXCEPT !.balance = b]
    <3>1. o = [balance |-> b, ledger |-> y, earned |-> e, points |-> n, pass |-> d, avatar |-> a, premium |-> m]
      BY <2>1
    <3> HIDE DEF o
    <3>2. [o EXCEPT !.ledger = l]
          = [balance |-> b, ledger |-> l, earned |-> e, points |-> n, pass |-> d, avatar |-> a, premium |-> m]
      BY <3>1
    <3> QED
      BY <3>2 DEF o
  <2>2. [p EXCEPT !.balance = b, !.ledger = l]
        = [balance |-> b, ledger |-> l, earned |-> p.earned, points |-> p.points, pass |-> p.pass,
           avatar |-> p.avatar, premium |-> p.premium]
    BY <2>1, Zenon DEF Shape
  <2> DEFINE q == [p EXCEPT !.balance = b, !.ledger = l]
  <2> HIDE DEF q
  <2>3. q = [balance |-> b, ledger |-> l, earned |-> p.earned, points |-> p.points, pass |-> p.pass,
             avatar |-> p.avatar, premium |-> p.premium]
    BY <2>2 DEF q
  <2>4. Shape(q) /\ q.premium = p.premium
    BY <2>3 DEF Shape
  <2> QED
    BY <2>4 DEF q
<1> QED
  BY <1>1, <1>2

(* The same of a purse that is left alone, credited or debited.             *)
LEMMA MoneyShape ==
  ASSUME Shape(purse), NEW p,
         \/ p = purse
         \/ \E kind, amount, item : p = booked(purse, kind, amount, item)
         \/ \E kind, amount, item : p = debitTx(purse, kind, amount, item)
  PROVE  Shape(p) /\ p.premium = purse.premium
<1>1. ASSUME NEW kind, NEW amount, NEW item, p = debitTx(purse, kind, amount, item)
      PROVE  \E n : p = booked(purse, kind, n, item)
  BY <1>1, Zenon DEF debitTx
<1> QED
  BY <1>1, BookedShape

(* Spending, grants, conversions and corrections.                           *)
LEMMA WalletSteps ==
  ASSUME BillingInv,
         \/ \E capped \in BOOLEAN : Grant(capped)
         \/ \E n \in 1..purse.points : ConvertPoints(n)
         \/ GrantPlayPass \/ PurchaseCustomAvatar
         \/ \E o \in orders, item \in {"pass", "avatar"} : CorrectNoin(o, item)
  PROVE  BillingInv'
<1>1. Shape(purse)
  BY DEF BillingInv, BillingTypes, PurseShape
<1>2. ASSUME Shape(purse'), purse'.premium = purse.premium, UNCHANGED <<now, plan, shop, row, retired, call>>
      PROVE  BillingInv'
  <2>1. /\ now \in Nat /\ now <= plan.end /\ shop \in [Items -> ShopRow] /\ call \in [Callers -> CallRow]
        /\ \A x \in Items : shop[x].state = "pending" => shop[x].expiry = Unset
    BY DEF BillingInv, BillingTypes
  <2>2. \A x \in Items : Moves(shop[x], shop[x])
    <3>1. \A x \in Items : shop[x].txn \in Nat /\ shop[x].expiry \in Int
      BY <2>1, UnsetFirst DEF ShopRow, Instants
    <3> QED
      BY <3>1 DEF Moves
  <2>3. PurseShape'
    BY <1>2 DEF PurseShape, Shape
  <2> QED
    BY <1>2, <2>1, <2>2, <2>3, BillingFrame
<1>3. ASSUME NEW capped \in BOOLEAN, Grant(capped) PROVE BillingInv'
  <2> DEFINE p == grantTxAt(purse, "grant", 1, capped)
  <2>1. Shape(p) /\ p.premium = purse.premium
    <3>1. ASSUME NEW n PROVE Shape(booked(purse, "grant", n, "play")) /\ booked(purse, "grant", n, "play").premium = purse.premium
      BY <1>1, BookedShape
    <3> DEFINE credited == IF capped THEN Min({1, Max({0, Cap - purse.earned})}) ELSE 1
               q == booked(purse, "grant", credited, "play")
    <3>2. Shape(q) /\ q.premium = purse.premium
      BY <3>1
    <3>3. p = IF credited = 0 THEN purse ELSE [q EXCEPT !.earned = IF capped THEN @ + credited ELSE @]
      BY DEF grantTxAt
    <3> HIDE DEF credited, q, p
    <3> QED
      BY <1>1, <3>2, <3>3 DEF Shape
  <2>2. purse' = [p EXCEPT !.points = @ - 1] /\ UNCHANGED <<now, plan, shop, row, retired, call>>
    BY <1>3 DEF Grant, walletOnly
  <2> HIDE DEF p
  <2>3. Shape(purse') /\ purse'.premium = purse.premium
    BY <2>1, <2>2 DEF Shape
  <2> QED
    BY <1>2, <2>2, <2>3
<1>4. ASSUME NEW n \in 1..purse.points, ConvertPoints(n) PROVE BillingInv'
  <2> DEFINE p == booked(purse, "points_conversion", n, "points")
  <2>1. Shape(p) /\ p.premium = purse.premium
    BY <1>1, BookedShape
  <2>2. purse' = [p EXCEPT !.points = @ - n, !.earned = @ + n] /\ UNCHANGED <<now, plan, shop, row, retired, call>>
    BY <1>4 DEF ConvertPoints, walletOnly
  <2> HIDE DEF p
  <2>3. Shape(purse') /\ purse'.premium = purse.premium
    BY <2>1, <2>2 DEF Shape
  <2> QED
    BY <1>2, <2>2, <2>3
<1>5. CASE GrantPlayPass
  <2> DEFINE p == debitTx(purse, "spend", Price, "pass")
  <2>1. Shape(p) /\ p.premium = purse.premium
    BY <1>1, MoneyShape
  <2>2. purse' = [p EXCEPT !.pass = Max({@, now + 1})] /\ UNCHANGED <<now, plan, shop, row, retired, call>>
    BY <1>5 DEF GrantPlayPass, walletOnly
  <2> HIDE DEF p
  <2>3. Shape(purse') /\ purse'.premium = purse.premium
    BY <2>1, <2>2 DEF Shape
  <2> QED
    BY <1>2, <2>2, <2>3
<1>6. CASE PurchaseCustomAvatar
  <2> DEFINE p == debitTx(purse, "spend", Price, "avatar")
  <2>1. Shape(p) /\ p.premium = purse.premium
    BY <1>1, MoneyShape
  <2>2. purse' = [p EXCEPT !.avatar = TRUE] /\ UNCHANGED <<now, plan, shop, row, retired, call>>
    BY <1>6 DEF PurchaseCustomAvatar, walletOnly
  <2> HIDE DEF p
  <2>3. Shape(purse') /\ purse'.premium = purse.premium
    BY <2>1, <2>2 DEF Shape
  <2> QED
    BY <1>2, <2>2, <2>3
<1>7. ASSUME NEW o, NEW item, CorrectNoin(o, item) PROVE BillingInv'
  <2>1. purse' = booked(purse, "correction", Price, item) /\ UNCHANGED <<now, plan, shop, row, retired, call>>
    BY <1>7 DEF CorrectNoin, walletOnly
  <2> QED
    BY <1>1, <1>2, <2>1, BookedShape
<1> QED
  BY <1>3, <1>4, <1>5, <1>6, <1>7

(* What the adapters make of an answer is true of the source as it is.      *)
LEMMA AnswersTold ==
  ASSUME BillingInv, NEW x \in Items, NEW asked \in Nat, asked <= now
  PROVE  /\ proofOf(x, asked) \in ProofRow /\ proofOf(x, asked).state # "none"
         /\ Agrees(proofOf(x, asked), shop[x]) /\ Dated(x, proofOf(x, asked), now)
<1> USE PurchasesAssumption
<1> DEFINE v == proofOf(x, asked)
<1>1. now \in Nat /\ shop[x] \in ShopRow
  BY DEF BillingInv, BillingTypes
<1>2. /\ shop[x].state \in ShopStates /\ shop[x].expiry \in Instants /\ shop[x].txn \in Nat /\ shop[x].expiry \in Int
      /\ Unset <= shop[x].expiry
  BY <1>1, UnsetFirst DEF ShopRow, Instants
<1>3. \E s \in States, u \in {Unset, shop[x].expiry}, t \in {0, shop[x].txn}, g \in {Unset, now} :
        /\ v = [state |-> s, observed |-> asked, until |-> u, txn |-> t, signed |-> g]
        /\ s # "none"
        /\ s \in {"revoked", "canceled"} => shop[x].state = s
        /\ s \notin {"pending", "canceled"} => shop[x].state \notin {"pending", "canceled"}
        /\ Platform[x] = "google" => g = Unset /\ t = 0
  <2>1. CASE Platform[x] = "google" /\ Product[x] = "noin"
    <3> DEFINE s == CASE shop[x].state = "paid" -> "purchased" [] OTHER -> shop[x].state
    <3>1. v = [state |-> s, observed |-> asked, until |-> Unset, txn |-> 0, signed |-> Unset]
      BY <2>1 DEF proofOf, GoogleVerify
    <3>2. /\ s \in States /\ s # "none"
          /\ s \in {"revoked", "canceled"} => shop[x].state = s
          /\ s \notin {"pending", "canceled"} => shop[x].state \notin {"pending", "canceled"}
      BY <1>2 DEF States, ShopStates
    <3> HIDE DEF s, v
    <3> QED
      BY <3>1, <3>2
  <2>2. CASE Platform[x] = "google" /\ Product[x] = "premium"
    <3> DEFINE s == CASE shop[x].state = "active" -> "purchased" [] shop[x].state = "hold" -> "on_hold"
                      [] OTHER -> shop[x].state
               u == IF shop[x].state = "active" THEN shop[x].expiry ELSE Unset
    <3>1. v = [state |-> s, observed |-> asked, until |-> u, txn |-> 0, signed |-> Unset]
      BY <2>2 DEF proofOf, GoogleSubscription
    <3>2. /\ s \in States /\ s # "none" /\ u \in {Unset, shop[x].expiry}
          /\ s \in {"revoked", "canceled"} => shop[x].state = s
          /\ s \notin {"pending", "canceled"} => shop[x].state \notin {"pending", "canceled"}
      BY <1>2 DEF States, ShopStates
    <3> HIDE DEF s, u, v
    <3> QED
      BY <3>1, <3>2
  <2>3. CASE Platform[x] = "apple"
    <3> DEFINE s == CASE shop[x].state \in {"paid", "active"} -> "purchased" [] OTHER -> shop[x].state
               u == IF Product[x] = "noin" \/ shop[x].state = "active" THEN shop[x].expiry ELSE Unset
    <3>1. v = [state |-> s, observed |-> asked, until |-> u, txn |-> shop[x].txn, signed |-> now]
      <4>1. CASE Product[x] = "noin"
        BY <2>3, <4>1 DEF proofOf, AppleVerify
      <4>2. CASE Product[x] = "premium"
        BY <2>3, <4>2 DEF proofOf, AppleVerify, AppleSubscription
      <4> QED
        BY <4>1, <4>2
    <3>2. /\ s \in States /\ s # "none" /\ u \in {Unset, shop[x].expiry}
          /\ s \in {"revoked", "canceled"} => shop[x].state = s
          /\ s \notin {"pending", "canceled"} => shop[x].state \notin {"pending", "canceled"}
      BY <1>2 DEF States, ShopStates
    <3> HIDE DEF s, u, v
    <3> QED
      BY <2>3, <3>1, <3>2
  <2> QED
    BY <2>1, <2>2, <2>3
<1> HIDE DEF v
<1>4. PICK s \in States, u \in {Unset, shop[x].expiry}, t \in {0, shop[x].txn}, g \in {Unset, now} : <1>3!(s, u, t, g)
  BY <1>3
<1>5. u \in Instants /\ t \in Nat /\ g \in Instants /\ u <= shop[x].expiry /\ t <= shop[x].txn /\ g <= now
  BY <1>1, <1>2, UnsetFirst DEF Instants
<1>6. v \in ProofRow /\ v.state = s /\ v.observed = asked /\ v.until = u /\ v.txn = t /\ v.signed = g
  BY <1>4, <1>5 DEF ProofRow
<1>7. Agrees(v, shop[x]) /\ Dated(x, v, now)
  BY <1>4, <1>5, <1>6 DEF Agrees, Dated
<1> QED
  BY <1>4, <1>6, <1>7 DEF v

(* A commit makes the answer a row.                                         *)
LEMMA CommitKept ==
  ASSUME BillingInv, NEW c \in Callers, call[c].pc = "answered",
         UNCHANGED <<now, plan, shop>>,
         NEW r \in BillingRow, row' = [row EXCEPT ![call[c].item] = r],
         r.known, r.state = call[c].proof.state, r.observed = call[c].proof.observed,
         r.signed = call[c].proof.signed, r.txn = call[c].proof.txn, r.until = call[c].proof.until,
         r.granted => row[call[c].item].granted \/ r.state = "purchased",
         NEW w \in {Idle} \cup [pc : {"granted"}, item : {call[c].item}], call' = [call EXCEPT ![c] = w],
         retired' \ retired \subseteq {Replaces[call[c].item]} \ {call[c].item}, retired \subseteq retired',
         Shape(purse'), purse'.premium = syncBillingPremium(row', retired')
  PROVE  BillingInv'
<1> USE PurchasesAssumption
<1> DEFINE x == call[c].item
           v == call[c].proof
<1>1. /\ now \in Nat /\ shop \in [Items -> ShopRow] /\ row \in [Items -> BillingRow] /\ call \in [Callers -> CallRow]
      /\ plan \in Plans /\ RowsTold /\ CallsTold /\ retired \subseteq Items /\ BillingTypes /\ Replaced
  BY DEF BillingInv, BillingTypes
<1>2. plan.items \subseteq Items
  BY <1>1
<1>3. /\ x \in plan.items /\ x \in Items /\ v \in ProofRow /\ v.state # "none"
      /\ Agrees(v, shop[x]) /\ Dated(x, v, now)
  <2>1. call[c] \in CallRow /\ CallOk(call[c])
    BY <1>1 DEF CallsTold
  <2> QED
    BY <1>2, <2>1 DEF CallOk, CallRow, Idle
<1>4. v.txn \in Nat /\ r.state = v.state /\ r.observed = v.observed /\ r.signed = v.signed /\ r.txn = v.txn
      /\ r.until = v.until
  BY <1>3 DEF ProofRow
<1>5. row[x].granted => shop[x].state \notin {"pending", "canceled"}
  BY <1>1, <1>3 DEF RowsTold, RowOk, NoRow
<1>6. r.granted => row[x].granted \/ v.state = "purchased"
  BY <1>4
<1> HIDE DEF x, v
<1>7. RowOk(x, r, shop[x], now)
  <2>1. Agrees(r, shop[x]) /\ Dated(x, r, now)
    BY <1>3, <1>4 DEF Agrees, Dated
  <2>2. v.state = "purchased" => shop[x].state \notin {"pending", "canceled"}
    BY <1>3 DEF Agrees
  <2> QED
    BY <1>3, <1>4, <1>5, <1>6, <2>1, <2>2 DEF RowOk
<1>8. row' \in [Items -> BillingRow] /\ \A y \in Items : row'[y] = IF y = x THEN r ELSE row[y]
  BY <1>1, <1>3 DEF x
<1>9. \A y \in Items : RowOk(y, row'[y], shop[y], now)
  BY <1>1, <1>7, <1>8 DEF RowsTold
<1>10. RowsTold'
  BY <1>9 DEF RowsTold, RowOk
<1>11. w \in CallRow /\ w.pc # "answered" /\ w.pc # "asked" /\ (w.pc # "idle" => w.item = x)
  BY <1>3 DEF CallRow, Idle, x
<1>12. call' \in [Callers -> CallRow] /\ \A d \in Callers : call'[d] = IF d = c THEN w ELSE call[d]
  BY <1>1, <1>11
<1>13. CallsTold'
  BY <1>1, <1>3, <1>11, <1>12 DEF CallsTold, CallOk
<1>14. retired' \subseteq Items
  BY <1>1, <1>3 DEF x
<1>15. BillingTypes'
  BY <1>1, <1>8, <1>12, <1>14 DEF BillingTypes, PurseShape, Shape
<1>16. Replaced'
  <2>1. ASSUME NEW y \in retired' PROVE \E z \in plan.items \ {y} : Replaces[z] = y /\ row'[z].known
    <3>1. CASE y \in retired
      <4>1. PICK z \in plan.items \ {y} : Replaces[z] = y /\ row[z].known
        BY <1>1, <3>1 DEF Replaced
      <4>2. row'[z].known
        BY <1>2, <1>8, <4>1
      <4> QED
        BY <4>1, <4>2
    <3>2. CASE y \notin retired
      <4>1. y = Replaces[x] /\ y # x
        BY <2>1, <3>2 DEF x
      <4> QED
        BY <1>3, <1>8, <4>1
    <3> QED
      BY <3>1, <3>2
  <2> QED
    BY <2>1 DEF Replaced
<1>17. Projected'
  BY DEF Projected, syncBillingPremium
<1> QED
  BY <1>10, <1>13, <1>15, <1>16, <1>17 DEF BillingInv

(* The answer becomes the row of a purchase of Noin, which is no source of  *)
(* Premium.                                                                 *)
LEMMA ReceiptKept ==
  ASSUME BillingInv, NEW c \in Callers, verifyReceipt(c)
  PROVE  BillingInv'
<1> USE PurchasesAssumption
<1> DEFINE x == call[c].item
           v == call[c].proof
           next == [known |-> TRUE, state |-> v.state, observed |-> v.observed, signed |-> v.signed, txn |-> v.txn,
                    until |-> v.until, granted |-> row[x].granted \/ v.state = "purchased",
                    refund |-> IF v.state = "revoked" /\ row[x].refund = "none" THEN refundOf(row[x]) ELSE row[x].refund]
           w == IF v.state = "purchased" THEN [pc |-> "granted", item |-> x] ELSE Idle
<1>1. /\ call \in [Callers -> CallRow] /\ row \in [Items -> BillingRow] /\ Shape(purse) /\ call[c].pc = "answered"
      /\ Product[x] = "noin" /\ retired' = retired /\ UNCHANGED <<now, plan, shop>>
      /\ row' = [row EXCEPT ![x] = next] /\ purse' = purchaseMoney(row[x], v, x)
  BY DEF BillingInv, BillingTypes, PurseShape, verifyReceipt, applyProof, Committed, quiet
<1>2. x \in Items /\ v \in ProofRow
  BY <1>1 DEF CallRow, Idle
<1>3. call' = [call EXCEPT ![c] = w]
  BY <1>1 DEF verifyReceipt, Committed
<1>4. /\ next \in BillingRow /\ next.known /\ next.state = v.state /\ next.observed = v.observed
      /\ next.signed = v.signed /\ next.txn = v.txn /\ next.until = v.until
      /\ next.granted => row[x].granted \/ next.state = "purchased"
  <2>1. row[x] \in BillingRow /\ row[x].refund \in {"none", "applied", "reconciliation_pending"}
        /\ row[x].granted \in BOOLEAN /\ refundOf(row[x]) \in {"applied", "reconciliation_pending"}
    BY <1>1, <1>2 DEF BillingRow, refundOf
  <2> DEFINE g == row[x].granted \/ v.state = "purchased"
             f == IF v.state = "revoked" /\ row[x].refund = "none" THEN refundOf(row[x]) ELSE row[x].refund
  <2>2. g \in BOOLEAN /\ f \in {"none", "applied", "reconciliation_pending"}
    BY <2>1
  <2>3. v.state \in States /\ v.observed \in Instants /\ v.signed \in Instants /\ v.txn \in Instants /\ v.until \in Instants
    BY <1>2 DEF ProofRow, Instants
  <2>4. next = [known |-> TRUE, state |-> v.state, observed |-> v.observed, signed |-> v.signed, txn |-> v.txn,
                until |-> v.until, granted |-> g, refund |-> f]
    OBVIOUS
  <2>5. g => row[x].granted \/ v.state = "purchased"
    OBVIOUS
  <2> HIDE DEF next, g, f, v
  <2> QED
    BY <2>2, <2>3, <2>4, <2>5 DEF BillingRow
<1>5. w \in {Idle} \cup [pc : {"granted"}, item : {x}]
  OBVIOUS
<1>6. Shape(purse') /\ purse'.premium = purse.premium
  <2>1. \/ purse' = purse
        \/ \E kind, amount, item : purse' = booked(purse, kind, amount, item)
        \/ \E kind, amount, item : purse' = debitTx(purse, kind, amount, item)
    BY <1>1, Zenon DEF purchaseMoney, billingCredit
  <2> QED
    BY <1>1, <2>1, MoneyShape
<1>7. purse'.premium = syncBillingPremium(row', retired')
  <2> DEFINE S == {y \in Items : Product[y] = "premium"} \ retired
  <2>1. \A y \in S : row'[y] = row[y]
    BY <1>1
  <2>2. {row'[y].until : y \in S} = {row[y].until : y \in S}
    BY <2>1
  <2>3. syncBillingPremium(row', retired) = syncBillingPremium(row, retired)
    BY <2>2 DEF syncBillingPremium
  <2> QED
    BY <1>1, <1>6, <2>3 DEF BillingInv, Projected
<1> HIDE DEF next, w
<1> QED
  BY <1>1, <1>3, <1>4, <1>5, <1>6, <1>7, CommitKept

(* The answer becomes the observation of a subscription; its predecessor    *)
(* contributes no more.                                                     *)
LEMMA SubscriptionKept ==
  ASSUME BillingInv, NEW c \in Callers, verifySubscriptionReceipt(c)
  PROVE  BillingInv'
<1> USE PurchasesAssumption
<1> DEFINE x == call[c].item
           v == call[c].proof
           next == [known |-> TRUE, state |-> v.state, observed |-> v.observed, signed |-> v.signed, txn |-> v.txn,
                    until |-> v.until, granted |-> row[x].granted \/ v.state = "purchased", refund |-> "none"]
           w == IF v.state = "purchased" THEN [pc |-> "granted", item |-> x] ELSE Idle
<1>1. /\ call \in [Callers -> CallRow] /\ row \in [Items -> BillingRow] /\ Shape(purse) /\ call[c].pc = "answered"
      /\ UNCHANGED <<now, plan, shop>>
      /\ row' = [row EXCEPT ![x] = next]
      /\ purse' = [purse EXCEPT !.premium = syncBillingPremium(row', retired')]
  BY DEF BillingInv, BillingTypes, PurseShape, verifySubscriptionReceipt, applySubscription, Committed, quiet
<1>2. x \in Items /\ v \in ProofRow
  BY <1>1 DEF CallRow, Idle
<1>3. call' = [call EXCEPT ![c] = w]
  BY <1>1 DEF verifySubscriptionReceipt, Committed
<1>4. /\ next \in BillingRow /\ next.known /\ next.state = v.state /\ next.observed = v.observed
      /\ next.signed = v.signed /\ next.txn = v.txn /\ next.until = v.until
      /\ next.granted => row[x].granted \/ next.state = "purchased"
  <2>1. row[x].granted \in BOOLEAN
    BY <1>1, <1>2 DEF BillingRow
  <2> DEFINE g == row[x].granted \/ v.state = "purchased"
  <2>2. g \in BOOLEAN
    BY <2>1
  <2>3. v.state \in States /\ v.observed \in Instants /\ v.signed \in Instants /\ v.txn \in Instants /\ v.until \in Instants
    BY <1>2 DEF ProofRow, Instants
  <2>4. next = [known |-> TRUE, state |-> v.state, observed |-> v.observed, signed |-> v.signed, txn |-> v.txn,
                until |-> v.until, granted |-> g, refund |-> "none"]
    OBVIOUS
  <2>5. g => row[x].granted \/ v.state = "purchased"
    OBVIOUS
  <2> HIDE DEF next, g, v
  <2> QED
    BY <2>2, <2>3, <2>4, <2>5 DEF BillingRow
<1>5. w \in {Idle} \cup [pc : {"granted"}, item : {x}]
  OBVIOUS
<1>6. retired' \ retired \subseteq {Replaces[x]} \ {x} /\ retired \subseteq retired'
  BY DEF verifySubscriptionReceipt, applySubscription
<1>7. Shape(purse') /\ purse'.premium = syncBillingPremium(row', retired')
  <2> DEFINE m == syncBillingPremium(row', retired')
  <2>1. purse' = [purse EXCEPT !.premium = m]
    BY <1>1
  <2> HIDE DEF m
  <2>2. Shape(purse') /\ purse'.premium = m
    BY <1>1, <2>1 DEF Shape
  <2> QED
    BY <2>2 DEF m
<1> HIDE DEF next, w
<1> QED
  BY <1>1, <1>3, <1>4, <1>5, <1>6, <1>7, CommitKept

(* The steps of verifications and acknowledgements that write no row.       *)
LEMMA VerificationKept ==
  ASSUME BillingInv,
         \/ \E x \in Items : ClaimObserve(x) \/ RetryAcknowledgements(x) \/ retrySubscriptionAcknowledgements(x)
         \/ \E c \in Callers, x \in Items : Ask(c, x)
         \/ \E c \in Callers : \/ Answer(c) \/ AckAtOnce(c) \/ SkipAck(c) \/ AcknowledgeOutcome(c)
                               \/ finishProviderWork(c) \/ refusedFinish(c) \/ Refused(c)
                               \/ \E reported \in BOOLEAN : GiveUp(c, reported)
  PROVE  BillingInv'
<1> USE PurchasesAssumption
<1>1. /\ now \in Nat /\ call \in [Callers -> CallRow] /\ plan \in Plans /\ RowsTold /\ CallsTold
      /\ shop \in [Items -> ShopRow]
  BY DEF BillingInv, BillingTypes
<1>2. plan.items \subseteq Items
  BY <1>1
<1>3. ASSUME NEW c \in Callers, call[c].pc # "idle" PROVE call[c].item \in plan.items
  BY <1>1, <1>3 DEF CallsTold, CallOk
<1>4. ASSUME NEW c \in Callers, NEW x \in plan.items, NEW pc \in {"work", "granted", "acking", "acked"},
             call' = [call EXCEPT ![c] = [pc |-> pc, item |-> x]],
             UNCHANGED <<now, plan, row, retired, purse>>,
             UNCHANGED shop \/ \E y \in Items, b \in BOOLEAN : shop' = [shop EXCEPT ![y].consumed = b]
      PROVE  BillingInv'
  <2> DEFINE w == [pc |-> pc, item |-> x]
  <2>1. w \in CallRow /\ CallOk(w)
    BY <1>2 DEF CallRow, CallOk
  <2>2. call' = [call EXCEPT ![c] = w]
    BY <1>4
  <2> HIDE DEF w
  <2> QED
    BY <1>4, <2>1, <2>2, CallSteps
<1>5. ASSUME NEW c \in Callers, call' = [call EXCEPT ![c] = Idle], UNCHANGED <<now, plan, row, retired, purse, shop>>
      PROVE  BillingInv'
  <2>1. Idle \in CallRow /\ CallOk(Idle)
    BY DEF CallRow, CallOk, Idle
  <2> QED
    BY <1>5, <2>1, CallSteps
<1>6. ASSUME NEW x \in Items, ClaimObserve(x) PROVE BillingInv'
  <2>1. /\ call' = [call EXCEPT ![Worker] = [pc |-> "work", item |-> x]]
        /\ UNCHANGED <<now, plan, row, retired, purse, shop>> /\ row[x].known
    BY <1>6 DEF ClaimObserve, claimProviderWork, workDue, quiet
  <2>2. x \in plan.items
    BY <1>1, <2>1 DEF RowsTold, RowOk
  <2> QED
    BY <1>4, <2>1, <2>2
<1>7. ASSUME NEW c \in Callers, NEW x \in Items, acknowledgeWork(c, x) PROVE BillingInv'
  <2>1. /\ call' = [call EXCEPT ![c] = [pc |-> "acking", item |-> x]]
        /\ UNCHANGED <<now, plan, row, retired, purse, shop>> /\ row[x].known
    BY <1>7 DEF acknowledgeWork, claimProviderWork, workDue, quiet
  <2>2. x \in plan.items
    BY <1>1, <2>1 DEF RowsTold, RowOk
  <2> QED
    BY <1>4, <2>1, <2>2
<1>8. ASSUME NEW x \in Items, RetryAcknowledgements(x) \/ retrySubscriptionAcknowledgements(x) PROVE BillingInv'
  BY <1>7, <1>8 DEF RetryAcknowledgements, retrySubscriptionAcknowledgements
<1>9. ASSUME NEW c \in Callers, AckAtOnce(c) PROVE BillingInv'
  <2>1. call[c].item \in Items /\ acknowledgeWork(c, call[c].item)
    BY <1>2, <1>3, <1>9 DEF AckAtOnce
  <2> QED
    BY <1>7, <2>1
<1>10. ASSUME NEW c \in Callers, NEW x \in Items, Ask(c, x) PROVE BillingInv'
  <2> DEFINE w == [pc |-> "asked", item |-> x, observed |-> now]
  <2>1. /\ call' = [call EXCEPT ![c] = w] /\ UNCHANGED <<now, plan, row, retired, purse, shop>>
        /\ x \in plan.items \/ (call[c].pc = "work" /\ call[c].item = x)
    BY <1>10 DEF Ask, quiet
  <2>2. x \in plan.items
    BY <1>3, <2>1
  <2>3. w \in CallRow /\ CallOk(w)
    BY <1>1, <2>2 DEF CallRow, CallOk
  <2> HIDE DEF w
  <2> QED
    BY <2>1, <2>3, CallSteps
<1>11. ASSUME NEW c \in Callers, Answer(c) PROVE BillingInv'
  <2> DEFINE x == call[c].item
             v == proofOf(x, call[c].observed)
             w == [pc |-> "answered", item |-> x, proof |-> v]
  <2>1. /\ call[c].pc = "asked" /\ call' = [call EXCEPT ![c] = w]
        /\ UNCHANGED <<now, plan, row, retired, purse, shop>>
    BY <1>11 DEF Answer, quiet
  <2>2. x \in plan.items /\ x \in Items /\ call[c].observed \in Nat /\ call[c].observed <= now
    <3>1. call[c] \in CallRow /\ CallOk(call[c])
      BY <1>1 DEF CallsTold
    <3> QED
      BY <1>2, <2>1, <3>1 DEF CallOk, CallRow, Idle
  <2>3. v \in ProofRow /\ v.state # "none" /\ Agrees(v, shop[x]) /\ Dated(x, v, now)
    BY <2>2, AnswersTold
  <2> HIDE DEF v, x
  <2>4. w \in CallRow /\ CallOk(w)
    BY <2>2, <2>3 DEF CallRow, CallOk
  <2> HIDE DEF w
  <2> QED
    BY <2>1, <2>4, CallSteps
<1>12. ASSUME NEW c \in Callers, SkipAck(c) \/ finishProviderWork(c) \/ refusedFinish(c) PROVE BillingInv'
  <2>1. call' = [call EXCEPT ![c] = Idle] /\ UNCHANGED <<now, plan, row, retired, purse, shop>>
    BY <1>12 DEF SkipAck, finishProviderWork, refusedFinish, quiet
  <2> QED
    BY <1>5, <2>1
<1>13. ASSUME NEW c \in Callers, Refused(c) \/ \E reported \in BOOLEAN : GiveUp(c, reported) PROVE BillingInv'
  <2>1. call' = [call EXCEPT ![c] = Idle] /\ UNCHANGED <<now, plan, row, retired, purse, shop>>
    BY <1>13 DEF Refused, GiveUp, Ended, quiet
  <2> QED
    BY <1>5, <2>1
<1>14. ASSUME NEW c \in Callers, AcknowledgeOutcome(c) PROVE BillingInv'
  <2> DEFINE x == call[c].item
             b == shop[x].consumed \/ Platform[x] = "google"
  <2>1. call[c].pc = "acking" /\ x \in plan.items /\ x \in Items
    BY <1>2, <1>3, <1>14 DEF AcknowledgeOutcome
  <2>2. call' = [call EXCEPT ![c] = [pc |-> "acked", item |-> x]] /\ UNCHANGED <<now, plan, row, retired, purse>>
    BY <1>14 DEF AcknowledgeOutcome
  <2>3. shop' = [shop EXCEPT ![x].consumed = b]
    BY <1>14 DEF AcknowledgeOutcome
  <2>4. b \in BOOLEAN
    BY <1>1, <2>1 DEF ShopRow
  <2> HIDE DEF b
  <2> QED
    BY <1>4, <2>1, <2>2, <2>3, <2>4
<1> QED
  BY <1>6, <1>8, <1>9, <1>10, <1>11, <1>12, <1>13, <1>14

-----------------------------------------------------------------------------
(* However verifications, acknowledgements, renewals and replacements       *)
(* interleave and leases end, every row and every answer under way is       *)
(* something the platform said that it has not gone back on.                *)
THEOREM BillingInvariant == BillingSpec => []BillingInv
<1>1. BillingInv /\ [BillingNext]_billingVars => BillingInv'
  <2> SUFFICES ASSUME BillingInv, [BillingNext]_billingVars PROVE BillingInv'
    OBVIOUS
  <2>1. /\ now \in Nat /\ plan \in Plans /\ now <= plan.end /\ shop \in [Items -> ShopRow]
        /\ call \in [Callers -> CallRow] /\ PurseShape
        /\ \A x \in Items : shop[x].state = "pending" => shop[x].expiry = Unset
    BY DEF BillingInv, BillingTypes
  <2>2. \A x \in Items : Moves(shop[x], shop[x])
    <3>1. \A x \in Items : shop[x].txn \in Nat /\ shop[x].expiry \in Int
      BY <2>1, UnsetFirst DEF ShopRow, Instants
    <3> QED
      BY <3>1 DEF Moves
  <2>3. ASSUME UNCHANGED <<plan, shop, row, retired, call, purse>>, now' \in Nat, now <= now', now' <= plan.end
        PROVE  BillingInv'
    <3>1. PurseShape'
      BY <2>1, <2>3 DEF PurseShape, Shape
    <3> QED
      BY <2>1, <2>2, <2>3, <3>1, BillingFrame
  <2>4. CASE Tick
    <3>1. now < plan.end /\ now' = now + 1 /\ UNCHANGED <<plan, shop, row, retired, call, purse>>
      BY <2>4 DEF Tick
    <3>2. plan.end \in Nat
      BY <2>1, PurchasesAssumption
    <3>3. now' \in Nat /\ now <= now' /\ now' <= plan.end
      BY <2>1, <3>1, <3>2
    <3> QED
      BY <2>3, <3>1, <3>3
  <2>5. CASE Delete \/ LeaseEnds \/ UNCHANGED billingVars
    <3>1. UNCHANGED <<now, plan, shop, row, retired, call, purse>>
      BY <2>5 DEF Delete, LeaseEnds, billingVars
    <3>2. now <= now
      BY <2>1
    <3> QED
      BY <2>1, <2>3, <3>1, <3>2
  <2>6. CASE Shop
    <3>1. UNCHANGED <<now, plan, row, retired, call, purse>>
      BY <2>6 DEF Shop
    <3>2. /\ shop' \in [Items -> ShopRow]
          /\ \A y \in Items : Moves(shop[y], shop'[y]) /\ (shop'[y].state = "pending" => shop'[y].expiry = Unset)
      BY <2>6, ShopMoves DEF Shop, BillingInv
    <3>3. PurseShape'
      BY <2>1, <3>1 DEF PurseShape, Shape
    <3>4. now <= now
      BY <2>1
    <3> QED
      BY <2>1, <3>1, <3>2, <3>3, <3>4, BillingFrame
  <2>7. CASE \E c \in Callers : verifyReceipt(c) \/ verifySubscriptionReceipt(c)
    BY <2>7, ReceiptKept, SubscriptionKept
  <2> QED
    BY <2>4, <2>5, <2>6, <2>7, WalletSteps, VerificationKept DEF BillingNext
<1> QED
  BY <1>1, BillingStart, PTL DEF BillingSpec

(* No interleaving leaves a row that would refuse what the platform says    *)
(* from now on: a late grant, refund or end is only late.                   *)
THEOREM NeverStuckHolds == BillingSpec => []NeverStuck
BY BillingInvariant, NothingStuck, PTL

(* Premium is what the sources in force carry; a source that was replaced   *)
(* contributes no more, whenever an answer about it arrives.                *)
THEOREM PremiumInForceHolds == BillingSpec => []PremiumInForce
BY BillingInvariant, PremiumHolds, PTL
=============================================================================
