--------------------------- MODULE AccountsProofs ---------------------------
(***************************************************************************)
(* Credentials, moderation and deletion are safe for any sets of accounts, *)
(* installations, callers, connections, browsers, decisions and requests,  *)
(* and for any plan: what is asked in one behaviour is not limited to the  *)
(* scenarios of the runs.  Each part has an inductive invariant of its own *)
(* and a lemma that every step of an account keeps it.                     *)
(***************************************************************************)
EXTENDS Deletion, FunctionTheorems, FiniteSetTheorems, SequenceTheorems, TLAPS

(* Another part of the portal leaves the accounts alone, or erases one.     *)
Elsewhere ==
    /\ UNCHANGED <<plan, tokenVars, tombs, login, flows, links, moderationVars, liveVars, browserVars,
                   deletionVars>>
    /\ erased \subseteq erased'
AccountStep == DeletionNext \/ Elsewhere

(* What a step that is neither one of the credentials nor an erasure leaves *)
(* alone.                                                                   *)
credentialVars == <<plan, accounts, devs, boot, tombs, pairs, spent, rotations, login, flows, links>>
CredentialsKept == UNCHANGED credentialVars /\ erased \subseteq erased'

(* The steps that concern credentials: their own, and EraseBatch.           *)
LEMMA CredentialSteps ==
  ASSUME AccountStep
  PROVE  \/ AccountsNext /\ UNCHANGED <<liveVars, browserVars, deletionVars>>
         \/ \E r \in Requests : EraseBatch(r)
         \/ CredentialsKept
<1> USE DEF CredentialsKept, credentialVars, accountVars, tokenVars, erasureVars, moderationVars,
            enforcementVars
<1>1. CASE Elsewhere
  BY <1>1 DEF Elsewhere
<1>2. CASE EnforcementNext /\ UNCHANGED deletionVars
  <2>1. ASSUME NEW c \in Conns, NEW p, hello(c, p) PROVE CredentialsKept
    BY <2>1 DEF hello
  <2>2. ASSUME NEW c \in Conns, authenticate(c) \/ OpenAuthenticated(c) \/ Disconnect(c) PROVE CredentialsKept
    BY <2>2 DEF authenticate, OpenAuthenticated, Disconnect
  <2>3. ASSUME NEW i, NEW a, Apply(i, a) \/ FreezeAccount(i, a) PROVE CredentialsKept
    BY <2>3 DEF Apply, FreezeAccount, RevokeSessionsTx
  <2>4. ASSUME NEW i, Lift(i) \/ ExpireFreezes(i) PROVE CredentialsKept
    BY <2>4 DEF Lift, ExpireFreezes
  <2>5. ASSUME NEW w, NEW i, EnforceSanction(w, i) \/ dispatchGuardDecision(w, i) PROVE CredentialsKept
    BY <2>5 DEF EnforceSanction, dispatchGuardDecision
  <2>6. ASSUME NEW w, CompleteDelivery(w) \/ recordDelivery(w) PROVE CredentialsKept
    BY <2>6 DEF CompleteDelivery, recordDelivery
  <2>7. ASSUME NEW i, NEW decision, decideFreeze(i, decision) PROVE CredentialsKept
    BY <2>7 DEF decideFreeze
  <2>8. ASSUME NEW w, EnforceAccount(w) PROVE CredentialsKept
    BY <2>8 DEF EnforceAccount
  <2>9. CASE Restart
    BY <2>9 DEF Restart
  <2>10. ASSUME NEW b, loginForm(b) \/ readApproval(b) \/ loginContinue(b) \/ logoutPost(b) PROVE CredentialsKept
    BY <2>10 DEF loginForm, readApproval, loginContinue, logoutPost
  <2>11. ASSUME NEW b, NEW p, ConnectHandler(b, p) PROVE CredentialsKept
    BY <2>11 DEF ConnectHandler
  <2> QED
    BY <1>2, <2>1, <2>2, <2>3, <2>4, <2>5, <2>6, <2>7, <2>8, <2>9, <2>10, <2>11 DEF EnforcementNext
<1>3. ASSUME NEW i, NEW p, BeginEnrollment(i, p) PROVE CredentialsKept
  BY <1>3 DEF BeginEnrollment, authorityUnchanged
<1>4. ASSUME NEW i, EnrollCapability(i) PROVE CredentialsKept
  BY <1>4 DEF EnrollCapability, authorityUnchanged
<1>5. ASSUME NEW i, BeginProviderIntent(i) \/ claimProviderIntent(i) PROVE CredentialsKept
  BY <1>5 DEF BeginProviderIntent, claimProviderIntent, authorityUnchanged
<1>6. ASSUME NEW i, NEW cap, BeginCapabilityIntent(i, cap) \/ CompleteProviderIntent(i, cap) PROVE CredentialsKept
  BY <1>6 DEF BeginCapabilityIntent, CompleteProviderIntent, authorityUnchanged
<1>7. ASSUME NEW c, NEW i, confirmAgain(c, i) PROVE CredentialsKept
  BY <1>7 DEF confirmAgain
<1>8. ASSUME NEW c, NEW i, NEW r, confirmDeletion(c, i, r) PROVE CredentialsKept
  BY <1>8 DEF confirmDeletion
<1>9. ASSUME NEW a, SecurityRevoke(a) PROVE CredentialsKept
  BY <1>9 DEF SecurityRevoke
<1>10. ASSUME NEW c, Publish(c) \/ syncState(c) \/ Advance(c) \/ writeMinimum(c) \/ bindSuppression(c) \/ stopConfirm(c)
       PROVE  CredentialsKept
  BY <1>10 DEF Publish, syncState, Advance, writeMinimum, bindSuppression, stopConfirm, databaseUnchanged
<1>11. CASE PowerLoss
  BY <1>11 DEF PowerLoss, databaseUnchanged
<1> QED
  BY <1>1, <1>2, <1>3, <1>4, <1>5, <1>6, <1>7, <1>8, <1>9, <1>10, <1>11 DEF AccountStep, DeletionNext, EnforcementNext

-----------------------------------------------------------------------------
(* Credentials.                                                             *)

SomeAccount == AccountIds \cup {NoAccount}
SomeDevice == Devices \cup {NoDevice}
PairRow == [id : Nat \ {0}, account : AccountIds, device : SomeDevice, epoch : Nat, line : Nat, root : Nat]
RotationRow == [old : Nat, account : AccountIds, device : Devices, epoch : Nat, new : Nat]
FlowRow ==
    [status : {"none", "pending", "exchanging", "completed", "failed"}, intent : {"link", "restore"},
     account : SomeAccount, epoch : Nat, device : SomeDevice, subject : Subjects \cup {NoAccount},
     pair : Nat, root : Nat]
LoginRow == [pc : {"known"}, device : Devices, known : SomeAccount]

CredentialTypes ==
    /\ plan \in Plans
    /\ accounts \subseteq AccountIds
    /\ devs \subseteq AccountIds \X Devices
    /\ boot \in [Devices -> SomeAccount]
    /\ pairs \subseteq PairRow /\ IsFiniteSet(pairs)
    /\ rotations \subseteq RotationRow
    /\ login \in [Callers -> {Idle} \cup LoginRow]
    /\ flows \in [Flows -> FlowRow]
    /\ links \in [Subjects -> SomeAccount]

(* The ids of pairs are given once, in order, and a chain of pairs has the  *)
(* id of its first one.                                                     *)
IdsGiven ==
    /\ \A p \in pairs : p.id \in 1..issued /\ p.line \in 1..issued
    /\ \A p, q \in pairs : p.id = q.id => p = q

(* A receipt of a rotation is about pairs of its account.                   *)
ReceiptsOwned ==
    \A r \in rotations :
        /\ r.old \in 1..issued /\ r.new \in 1..issued
        /\ \A p \in pairs : p.id \in {r.old, r.new} => p.account = r.account

TokensInv == CredentialTypes /\ IdsGiven /\ ReceiptsOwned /\ OneIdentity

(* What is known of the pairs of a first state.                             *)
Started(S) ==
    /\ S \subseteq PairRow /\ IsFiniteSet(S)
    /\ \A p \in S : p.id \in 1..Cardinality(S) /\ p.line = p.id /\ p.epoch = 0 /\ p.root = 0
    /\ \A p, q \in S : p.id = q.id => p = q

(* Players that are signed in at the start have one pair each, numbered     *)
(* from one.                                                                *)
LEMMA PlayersStarted ==
  ASSUME NEW start \in {"players", "linked"}
  PROVE  Started(StartPairs(start)) /\ \E p \in StartPairs(start) : p.id = 1
<1> USE AccountsAssumption
<1> DEFINE n == Cardinality(AccountIds)
           Names(f) == {f[i] : i \in DOMAIN f}
           nth == CHOOSE f \in [1..n -> AccountIds] : Cardinality(Names(f)) = n
           shared == CHOOSE d \in Devices : TRUE
           S == {Pair(i, nth[i], shared, 0, i, 0) : i \in DOMAIN nth}
<1>1. n \in Nat /\ n # 0 /\ ExistsBijection(1..n, AccountIds)
  BY FS_CardinalityType, FS_EmptySet
<1>2. nth \in [1..n -> AccountIds]
  <2>1. PICK f : f \in Bijection(1..n, AccountIds)
    BY <1>1 DEF ExistsBijection
  <2>2. f \in [1..n -> AccountIds] /\ \A a \in AccountIds : \E i \in 1..n : f[i] = a
    BY <2>1 DEF Bijection, Surjection
  <2>3. Names(f) = AccountIds
    BY <2>2
  <2> QED
    BY <2>2, <2>3
<1>3. shared \in Devices
  OBVIOUS
<1>4. StartPairs(start) = S
  BY DEF StartPairs
<1> HIDE DEF n, nth, shared
<1>5. DOMAIN nth = 1..n
  BY <1>2
<1>6. S \subseteq PairRow /\ \A p \in S : p.id \in 1..n /\ p.line = p.id /\ p.epoch = 0 /\ p.root = 0
  BY <1>1, <1>2, <1>3 DEF Pair, PairRow, SomeDevice
<1>7. \A p, q \in S : p.id = q.id => p = q
  BY DEF Pair
<1>8. IsFiniteSet(S) /\ Cardinality(S) = n
  <2> DEFINE g == [i \in 1..n |-> Pair(i, nth[i], shared, 0, i, 0)]
  <2>1. g \in [1..n -> S] /\ \A i \in 1..n : g[i] = Pair(i, nth[i], shared, 0, i, 0)
    BY <1>5
  <2>2. \A i, j \in 1..n : g[i] = g[j] => i = j
    BY <2>1 DEF Pair
  <2>3. \A p \in S : \E i \in 1..n : g[i] = p
    BY <2>1, <1>5
  <2> HIDE DEF g
  <2>4. g \in Bijection(1..n, S)
    BY <2>1, <2>2, <2>3, Fun_IsBij
  <2>5. ExistsBijection(1..n, S)
    BY <2>4 DEF ExistsBijection
  <2> HIDE DEF S
  <2> QED
    BY <2>5, <1>1, FS_CountingElements, FS_NatBijection
<1>9. Pair(1, nth[1], shared, 0, 1, 0) \in S /\ Pair(1, nth[1], shared, 0, 1, 0).id = 1
  BY <1>1, <1>5 DEF Pair
<1> QED
  BY <1>4, <1>6, <1>7, <1>8, <1>9 DEF Started

(* The pairs of any first state.                                            *)
LEMMA PairsStarted ==
  ASSUME NEW p \in Plans
  PROVE  Started(StartPairs(p.start))
<1> USE AccountsAssumption
<1>1. CASE p.start = "empty"
  <2>1. StartPairs(p.start) = {}
    BY <1>1 DEF StartPairs
  <2> QED
    BY <2>1, FS_EmptySet DEF Started
<1>2. CASE p.start = "legacy"
  <2> DEFINE a == CHOOSE x \in AccountIds : TRUE
  <2>1. StartPairs(p.start) = {Pair(1, a, NoDevice, 0, 1, 0)}
    BY <1>2 DEF StartPairs
  <2>2. a \in AccountIds
    OBVIOUS
  <2> HIDE DEF a
  <2>3. Cardinality(StartPairs(p.start)) = 1 /\ IsFiniteSet(StartPairs(p.start))
    BY <2>1, FS_Singleton
  <2> QED
    BY <2>1, <2>2, <2>3 DEF Started, Pair, PairRow, SomeDevice
<1>3. CASE p.start \in {"players", "linked"}
  BY <1>3, PlayersStarted
<1> QED
  BY <1>1, <1>2, <1>3

(* Every first state satisfies the invariant of the credentials.            *)
LEMMA TokensStart == AccountsInit => TokensInv
<1> SUFFICES ASSUME AccountsInit PROVE TokensInv
  OBVIOUS
<1> USE AccountsAssumption
<1>1. plan \in Plans /\ pairs = StartPairs(plan.start) /\ Started(pairs)
  BY PairsStarted DEF AccountsInit
<1>2. /\ accounts = {q.account : q \in pairs} /\ erased = {} /\ spent = {} /\ rotations = {}
      /\ devs = {<<q.account, q.device>> : q \in {r \in pairs : r.device # NoDevice}}
      /\ login = [c \in Callers |-> Idle] /\ flows = [f \in Flows |-> NoFlow]
  BY DEF AccountsInit
<1>3. \A p \in pairs : p.account \in AccountIds /\ p.device \in Devices \cup {NoDevice}
  BY <1>1 DEF Started, PairRow, SomeDevice
<1>4. /\ boot \in [Devices -> SomeAccount]
      /\ \A d \in Devices : boot[d] # NoAccount => \E q \in pairs : q.account = boot[d] /\ q.device = d
  <2> DEFINE Owners(d) == {q \in pairs : q.device = d /\ q.id = 1}
             owner(d) == CHOOSE q \in Owners(d) : TRUE
  <2>1. boot = [d \in Devices |-> IF Owners(d) = {} THEN NoAccount ELSE owner(d).account]
    BY DEF AccountsInit
  <2>2. \A d \in Devices : Owners(d) # {} => owner(d) \in pairs /\ owner(d).device = d
    OBVIOUS
  <2> HIDE DEF owner
  <2> QED
    BY <2>1, <2>2, <1>3 DEF SomeAccount
<1>5. links \in [Subjects -> SomeAccount]
  <2> DEFINE first == CHOOSE q \in pairs : q.id = 1
  <2>1. links = [s \in Subjects |-> IF plan.start = "linked" /\ s = (CHOOSE t \in Subjects : TRUE)
                                    THEN first.account ELSE NoAccount]
    BY DEF AccountsInit
  <2>2. plan.start = "linked" => first \in pairs
    BY <1>1, PlayersStarted
  <2> HIDE DEF first
  <2> QED
    BY <2>1, <2>2, <1>3 DEF SomeAccount
<1>6. CredentialTypes
  <2>1. accounts \subseteq AccountIds /\ devs \subseteq AccountIds \X Devices
    BY <1>2, <1>3
  <2>2. flows \in [Flows -> FlowRow] /\ login \in [Callers -> {Idle} \cup LoginRow]
    BY <1>2 DEF FlowRow, NoFlow, SomeAccount, SomeDevice
  <2> QED
    BY <1>1, <1>2, <1>4, <1>5, <2>1, <2>2 DEF CredentialTypes, Started
<1>7. IdsGiven /\ ReceiptsOwned
  BY <1>1, <1>2 DEF IdsGiven, ReceiptsOwned, issued, Started
<1>8. OneAccountPerInstallation
  <2>1. \A a \in accounts : \E p \in StartPairs(plan.start) : p.account = a
    BY <1>1, <1>2
  <2>2. \A d \in Devices : boot[d] # NoAccount => <<boot[d], d>> \in devs
    BY <1>2, <1>4
  <2> QED
    BY <2>1, <2>2 DEF OneAccountPerInstallation
<1>9. OneLiveRefresh
  BY <1>1 DEF OneLiveRefresh, Started
<1> QED
  BY <1>6, <1>7, <1>8, <1>9 DEF TokensInv, OneIdentity

EpochType == epoch \in [AccountIds -> Nat]

(* Signing a pair: its id is new, and when it continues a chain, the live   *)
(* token of that chain is spent by the same transaction.                    *)
LEMMA SignKeeps ==
  ASSUME TokensInv, EpochType, NEW a \in AccountIds, NEW d \in SomeDevice, NEW line, NEW root \in Nat,
         signTokens(a, d, line, root), spent \subseteq spent', UNCHANGED erased,
         \/ line = issued + 1
         \/ \E p \in pairs : /\ p.line = line /\ p.id \notin spent /\ p.id \in spent'
                             /\ p.account \notin erased
  PROVE  /\ pairs' \subseteq PairRow /\ IsFiniteSet(pairs')
         /\ pairs' = pairs \cup {Pair(issued + 1, a, d, epoch[a], line, root)}
         /\ issued \in Nat /\ issued' = issued + 1
         /\ IdsGiven' /\ OneLiveRefresh'
<1> DEFINE s == Pair(issued + 1, a, d, epoch[a], line, root)
<1>1. /\ pairs' = pairs \cup {s}
      /\ s.id = issued + 1 /\ s.line = line /\ s.account = a
  BY DEF signTokens, Pair
<1>2. pairs \subseteq PairRow /\ IsFiniteSet(pairs) /\ issued \in Nat
  BY FS_CardinalityType DEF TokensInv, CredentialTypes, issued
<1>3. /\ \A p \in pairs : p.id \in 1..issued /\ p.line \in 1..issued
      /\ \A p, q \in pairs : p.id = q.id => p = q
  BY DEF TokensInv, IdsGiven
<1>4. line \in 1..(issued + 1)
  BY <1>2, <1>3
<1>5. s \in PairRow
  BY <1>2, <1>4 DEF EpochType, Pair, PairRow
<1> HIDE DEF s
<1>6. s \notin pairs
  BY <1>1, <1>2, <1>3
<1>7. IsFiniteSet(pairs') /\ issued' = issued + 1
  BY <1>1, <1>2, <1>6, FS_AddElement DEF issued
<1>8. IdsGiven'
  <2>1. \A p \in pairs' : p.id \in 1..(issued + 1) /\ p.line \in 1..(issued + 1)
    BY <1>1, <1>2, <1>3, <1>4
  <2>2. ASSUME NEW p \in pairs', NEW q \in pairs', p.id = q.id PROVE p = q
    BY <1>1, <1>2, <1>3, <2>2
  <2> QED
    BY <2>1, <2>2, <1>7 DEF IdsGiven
<1>9. ASSUME NEW p \in pairs, p.id \notin spent', p.account \notin erased PROVE p.line # line
  <2>1. CASE line = issued + 1
    BY <1>2, <1>3, <2>1
  <2>2. ASSUME NEW q \in pairs, q.line = line, q.id \notin spent, q.id \in spent', q.account \notin erased
        PROVE  p.line # line
    BY <1>9, <2>2 DEF TokensInv, OneIdentity, OneLiveRefresh
  <2> QED
    BY <2>1, <2>2
<1>10. ASSUME NEW p \in pairs', NEW q \in pairs', p.id \notin spent', q.id \notin spent',
              p.account \notin erased', q.account \notin erased', p.line = q.line
       PROVE  p = q
  <2>1. CASE p \in pairs /\ q \in pairs
    BY <1>10, <2>1 DEF TokensInv, OneIdentity, OneLiveRefresh
  <2> QED
    BY <1>1, <1>9, <1>10, <2>1
<1> QED
  BY <1>1, <1>2, <1>5, <1>7, <1>8, <1>10 DEF OneLiveRefresh, s

(* A step that leaves the credentials alone; accounts may be erased.        *)
LEMMA TokensFrame == ASSUME TokensInv, CredentialsKept PROVE TokensInv'
<1> USE DEF CredentialsKept, credentialVars
<1>1. CredentialTypes' /\ issued' = issued
  BY DEF TokensInv, CredentialTypes, issued
<1>2. IdsGiven' /\ ReceiptsOwned'
  BY <1>1 DEF TokensInv, IdsGiven, ReceiptsOwned
<1>3. OneAccountPerInstallation'
  BY DEF TokensInv, OneIdentity, OneAccountPerInstallation
<1>4. OneLiveRefresh'
  BY DEF TokensInv, OneIdentity, OneLiveRefresh
<1> QED
  BY <1>1, <1>2, <1>3, <1>4 DEF TokensInv, OneIdentity

(* EraseBatch forgets receipts and spent ids of an account that is already  *)
(* erased, whose tokens no longer work.                                     *)
LEMMA EraseKeepsTokens ==
  ASSUME TokensInv, NEW r, EraseBatch(r), jobs[r].account \in erased
  PROVE  TokensInv'
<1> DEFINE a == jobs[r].account
           mine == {q \in rotations : q.account = a}
<1>1. /\ devs' = {x \in devs : x[1] # a} /\ rotations' = rotations \ mine
      /\ boot' = [d \in Devices |-> IF boot[d] = a THEN NoAccount ELSE boot[d]]
      /\ spent' = spent \ ({q.old : q \in mine} \cup {q.new : q \in mine})
      /\ links' = [s \in Subjects |-> IF links[s] = a THEN NoAccount ELSE links[s]]
      /\ UNCHANGED <<plan, accounts, erased, pairs, login, flows>>
  BY DEF EraseBatch
<1>2. CredentialTypes' /\ issued' = issued
  BY <1>1 DEF TokensInv, CredentialTypes, issued, SomeAccount
<1>3. IdsGiven' /\ ReceiptsOwned'
  BY <1>1, <1>2 DEF TokensInv, IdsGiven, ReceiptsOwned
<1>4. OneAccountPerInstallation'
  <2>1. ASSUME NEW x \in accounts \ erased
        PROVE  (\E d \in Devices : boot'[d] = x) \/ (\E p \in StartPairs(plan.start) : p.account = x)
    BY <1>1 DEF TokensInv, OneIdentity, OneAccountPerInstallation
  <2>2. ASSUME NEW d \in Devices, boot'[d] # NoAccount PROVE <<boot'[d], d>> \in devs'
    <3>1. boot'[d] = boot[d] /\ boot[d] # a
      BY <1>1, <2>2
    <3>2. <<boot[d], d>> \in devs
      BY <2>2, <3>1 DEF TokensInv, OneIdentity, OneAccountPerInstallation
    <3> QED
      BY <1>1, <3>1, <3>2
  <2> QED
    BY <1>1, <2>1, <2>2 DEF OneAccountPerInstallation
<1>5. OneLiveRefresh'
  <2>1. ASSUME NEW p \in pairs, p.id \notin spent', p.account \notin erased PROVE p.id \notin spent
    BY <1>1, <2>1 DEF TokensInv, ReceiptsOwned
  <2> QED
    BY <1>1, <2>1 DEF TokensInv, OneIdentity, OneLiveRefresh
<1> QED
  BY <1>2, <1>3, <1>4, <1>5 DEF TokensInv, OneIdentity

(* A step that signs nothing and touches neither receipts nor accounts.     *)
LEMMA RequestsKeepTokens ==
  ASSUME TokensInv, UNCHANGED <<plan, accounts, erased, boot, pairs, spent, rotations>>,
         devs \subseteq devs', devs' \subseteq AccountIds \X Devices,
         login' \in [Callers -> {Idle} \cup LoginRow], flows' \in [Flows -> FlowRow],
         links' \in [Subjects -> SomeAccount]
  PROVE  TokensInv'
<1>1. CredentialTypes' /\ issued' = issued
  BY DEF TokensInv, CredentialTypes, issued
<1>2. IdsGiven' /\ ReceiptsOwned'
  BY <1>1 DEF TokensInv, IdsGiven, ReceiptsOwned
<1>3. OneAccountPerInstallation'
  BY DEF TokensInv, OneIdentity, OneAccountPerInstallation
<1>4. OneLiveRefresh'
  BY DEF TokensInv, OneIdentity, OneLiveRefresh
<1> QED
  BY <1>1, <1>2, <1>3, <1>4 DEF TokensInv, OneIdentity

(* The transactions of auth keep the invariant: racing bootstraps, repeated *)
(* rotations and provider flows whose answers are lost.                     *)
LEMMA AccountsKeepTokens ==
  ASSUME TokensInv, EpochType, AccountsNext
  PROVE  TokensInv'
<1> USE AccountsAssumption
<1> USE DEF tokenVars, erasureVars
<1>0. /\ plan \in Plans /\ accounts \subseteq AccountIds /\ devs \subseteq AccountIds \X Devices
      /\ boot \in [Devices -> SomeAccount] /\ pairs \subseteq PairRow
      /\ rotations \subseteq RotationRow /\ login \in [Callers -> {Idle} \cup LoginRow]
      /\ flows \in [Flows -> FlowRow] /\ links \in [Subjects -> SomeAccount]
  BY DEF TokensInv, CredentialTypes
<1>1. ASSUME NEW c \in Callers, NEW d \in Devices, bootstrapAccount(c, d) PROVE TokensInv'
  <2>1. login' \in [Callers -> {Idle} \cup LoginRow]
    BY <1>0, <1>1 DEF bootstrapAccount, LoginRow
  <2> QED
    BY <1>0, <1>1, <2>1, RequestsKeepTokens DEF bootstrapAccount
<1>2. ASSUME NEW c \in Callers, bootstrapAgain(c) PROVE TokensInv'
  <2>1. login[c] \in LoginRow
    BY <1>0, <1>2 DEF bootstrapAgain, Idle
  <2>2. login' \in [Callers -> {Idle} \cup LoginRow]
    BY <1>0, <1>2, <2>1 DEF bootstrapAgain, LoginRow
  <2> QED
    BY <1>0, <1>2, <2>2, RequestsKeepTokens DEF bootstrapAgain
<1>3. ASSUME NEW c \in Callers, bootstrapInstallationTx(c) PROVE TokensInv'
  <2> DEFINE d == login[c].device
  <2>1. login[c] \in LoginRow /\ d \in Devices
    BY <1>0, <1>3 DEF bootstrapInstallationTx, Idle, LoginRow
  <2>2. PICK a \in IF boot[d] = NoAccount THEN AccountIds \ accounts ELSE {boot[d]} :
           /\ accounts' = accounts \cup {a}
           /\ boot' = [boot EXCEPT ![d] = a]
           /\ devs' = devs \cup {<<a, d>>}
           /\ signTokens(a, d, issued + 1, epoch[a])
    BY <1>3 DEF bootstrapInstallationTx, linkInstallation
  <2>3. /\ login' = [login EXCEPT ![c] = Idle]
        /\ UNCHANGED <<plan, erased, spent, rotations, flows, links>>
    BY <1>3 DEF bootstrapInstallationTx
  <2>4. a \in AccountIds /\ (boot[d] = NoAccount \/ boot[d] = a) /\ a # NoAccount
    BY <1>0, <2>1, <2>2 DEF SomeAccount
  <2>5. epoch[a] \in Nat /\ d \in SomeDevice
    BY <2>1, <2>4 DEF EpochType, SomeDevice
  <2>6. /\ pairs' \subseteq PairRow /\ IsFiniteSet(pairs')
        /\ pairs' = pairs \cup {Pair(issued + 1, a, d, epoch[a], issued + 1, epoch[a])}
        /\ issued \in Nat /\ issued' = issued + 1 /\ IdsGiven' /\ OneLiveRefresh'
    BY <2>2, <2>3, <2>4, <2>5, SignKeeps
  <2>7. CredentialTypes'
    <3>1. boot' \in [Devices -> SomeAccount] /\ login' \in [Callers -> {Idle} \cup LoginRow]
      BY <1>0, <2>1, <2>2, <2>3, <2>4 DEF SomeAccount
    <3>2. accounts' \subseteq AccountIds /\ devs' \subseteq AccountIds \X Devices
      BY <1>0, <2>1, <2>2, <2>4
    <3> QED
      BY <1>0, <2>3, <2>6, <3>1, <3>2 DEF CredentialTypes
  <2>8. ReceiptsOwned'
    BY <2>3, <2>6 DEF TokensInv, ReceiptsOwned, Pair
  <2>9. OneAccountPerInstallation'
    <3>1. \A e \in Devices : boot'[e] = IF e = d THEN a ELSE boot[e]
      BY <1>0, <2>2
    <3>2. ASSUME NEW x \in accounts' \ erased'
          PROVE  (\E e \in Devices : boot'[e] = x) \/ (\E p \in StartPairs(plan.start) : p.account = x)
      <4>1. CASE x = a
        BY <2>1, <3>1, <4>1
      <4>2. ASSUME x \in accounts, NEW e \in Devices, boot[e] = x PROVE boot'[e] = x
        BY <1>0, <2>4, <3>1, <4>2
      <4>3. CASE x \in accounts /\ x # a
        BY <2>3, <4>2, <4>3 DEF TokensInv, OneIdentity, OneAccountPerInstallation
      <4> QED
        BY <2>2, <4>1, <4>3
    <3>3. ASSUME NEW e \in Devices, boot'[e] # NoAccount PROVE <<boot'[e], e>> \in devs'
      BY <2>2, <3>1, <3>3 DEF TokensInv, OneIdentity, OneAccountPerInstallation
    <3> QED
      BY <2>3, <3>2, <3>3 DEF OneAccountPerInstallation
  <2> QED
    BY <2>6, <2>7, <2>8, <2>9 DEF TokensInv, OneIdentity
<1>4. ASSUME NEW a \in AccountIds, NEW d \in Devices, NEW line, NEW root \in Nat,
             signTokens(a, d, line, root), devs' = devs \cup {<<a, d>>}, spent \subseteq spent',
             flows' \in [Flows -> FlowRow],
             UNCHANGED <<plan, accounts, erased, boot, login, links>>,
             \/ line = issued + 1
             \/ \E p \in pairs : /\ p.line = line /\ p.id \notin spent /\ p.id \in spent'
                                 /\ p.account \notin erased,
             \/ UNCHANGED rotations
             \/ \E p \in pairs : /\ p.account = a
                                 /\ rotations' = rotations \cup {[old |-> p.id, account |-> a, device |-> d,
                                                          epoch |-> p.epoch, new |-> issued + 1]}
      PROVE  TokensInv'
  <2>1. d \in SomeDevice
    BY DEF SomeDevice
  <2>2. /\ pairs' \subseteq PairRow /\ IsFiniteSet(pairs')
        /\ pairs' = pairs \cup {Pair(issued + 1, a, d, epoch[a], line, root)}
        /\ issued \in Nat /\ issued' = issued + 1 /\ IdsGiven' /\ OneLiveRefresh'
    BY <1>4, <2>1, SignKeeps
  <2>3. rotations' \subseteq RotationRow /\ ReceiptsOwned'
    <3>1. CASE UNCHANGED rotations
      BY <1>0, <2>2, <3>1 DEF TokensInv, ReceiptsOwned, Pair
    <3>2. ASSUME NEW p \in pairs, p.account = a,
                 rotations' = rotations \cup {[old |-> p.id, account |-> a, device |-> d,
                                               epoch |-> p.epoch, new |-> issued + 1]}
          PROVE  rotations' \subseteq RotationRow /\ ReceiptsOwned'
      <4> DEFINE n == [old |-> p.id, account |-> a, device |-> d, epoch |-> p.epoch, new |-> issued + 1]
      <4>1. p \in PairRow /\ p.id \in 1..issued
        BY <1>0 DEF TokensInv, IdsGiven
      <4>2. n \in RotationRow /\ n.old = p.id /\ n.new = issued + 1 /\ n.account = a
        BY <2>2, <4>1 DEF PairRow, RotationRow
      <4> HIDE DEF n
      <4>3. ASSUME NEW q \in pairs', q.id \in {n.old, n.new} PROVE q.account = n.account
        BY <2>2, <3>2, <4>1, <4>2, <4>3 DEF TokensInv, IdsGiven, Pair
      <4>4. ASSUME NEW r \in rotations, NEW q \in pairs', q.id \in {r.old, r.new} PROVE q.account = r.account
        BY <2>2, <4>4 DEF TokensInv, ReceiptsOwned, Pair
      <4>5. \A r \in rotations' : r.old \in 1..issued' /\ r.new \in 1..issued'
        BY <2>2, <3>2, <4>1, <4>2 DEF TokensInv, ReceiptsOwned, n
      <4>6. ReceiptsOwned'
        BY <3>2, <4>3, <4>4, <4>5 DEF ReceiptsOwned, n
      <4> QED
        BY <1>0, <3>2, <4>2, <4>6 DEF n
    <3> QED
      BY <1>4, <3>1, <3>2
  <2>4. CredentialTypes'
    BY <1>0, <1>4, <2>2, <2>3 DEF CredentialTypes
  <2>5. OneAccountPerInstallation'
    BY <1>4 DEF TokensInv, OneIdentity, OneAccountPerInstallation
  <2> QED
    BY <2>2, <2>3, <2>4, <2>5 DEF TokensInv, OneIdentity
<1>5. ASSUME NEW p \in pairs, Refresh(p) PROVE TokensInv'
  <2>1. p \in PairRow /\ p.device \in Devices /\ p.account \in AccountIds /\ p.root \in Nat
    BY <1>0, <1>5 DEF Refresh, linkInstallation, installationAllowed, PairRow, SomeDevice
  <2>2. /\ signTokens(p.account, p.device, p.line, p.root) /\ devs' = devs \cup {<<p.account, p.device>>}
        /\ p.id \notin spent /\ spent' = spent \cup {p.id} /\ p.account \notin erased
        /\ UNCHANGED <<plan, accounts, erased, boot, login, links, rotations, flows>>
    BY <1>5 DEF Refresh, linkInstallation, accountSession
  <2> QED
    BY <1>0, <1>4, <2>1, <2>2
<1>6. ASSUME NEW p \in pairs, NEW d \in Devices, BindInstallation(p, d) PROVE TokensInv'
  <2>1. p \in PairRow /\ p.account \in AccountIds /\ p.root \in Nat
    BY <1>0 DEF PairRow
  <2>2. /\ devs' = devs \cup {<<p.account, d>>} /\ p.account \notin erased
        /\ UNCHANGED <<plan, accounts, erased, boot, login, links, flows>>
    BY <1>6 DEF BindInstallation, linkInstallation, accountSession
  <2>3. CASE UNCHANGED <<pairs, spent, rotations>>
    BY <1>0, <2>1, <2>2, <2>3, RequestsKeepTokens
  <2>4. CASE /\ p.id \notin spent /\ spent' = spent \cup {p.id}
             /\ rotations' = rotations \cup {[old |-> p.id, account |-> p.account, device |-> d,
                                              epoch |-> p.epoch, new |-> issued + 1]}
             /\ signTokens(p.account, d, p.line, p.root)
    BY <1>0, <1>4, <2>1, <2>2, <2>4
  <2> QED
    BY <1>6, <2>3, <2>4 DEF BindInstallation
<1>7. ASSUME NEW f \in Flows, NEW row \in FlowRow, flows' = [flows EXCEPT ![f] = row],
             UNCHANGED <<plan, tokenVars, erasureVars, login, links>>
      PROVE  TokensInv'
  BY <1>0, <1>7, RequestsKeepTokens
<1>8. ASSUME NEW f \in Flows, NEW intent \in {"link", "restore"}, NEW p \in pairs, NEW d \in Devices,
             BeginOAuth(f, intent, p, d)
      PROVE  TokensInv'
  <2> DEFINE row == [NoFlow EXCEPT
                    !.status = "pending", !.intent = intent, !.device = d,
                    !.account = IF intent = "link" THEN p.account ELSE NoAccount,
                    !.epoch = IF intent = "link" THEN p.epoch ELSE 0,
                    !.root = IF intent = "link" THEN p.root ELSE 0]
  <2>1. row \in FlowRow
    BY <1>0 DEF FlowRow, NoFlow, PairRow, SomeAccount, SomeDevice
  <2>2. flows' = [flows EXCEPT ![f] = row] /\ UNCHANGED <<plan, tokenVars, erasureVars, login, links>>
    BY <1>8 DEF BeginOAuth
  <2> HIDE DEF row
  <2> QED
    BY <1>7, <2>1, <2>2
<1>9. ASSUME NEW f \in Flows, CompleteOAuth(f) \/ failOAuth(f) PROVE TokensInv'
  <2>1. PICK st \in {"exchanging", "failed"} : flows' = [flows EXCEPT ![f] = [@ EXCEPT !.status = st]]
    BY <1>9 DEF CompleteOAuth, failOAuth
  <2>2. [flows[f] EXCEPT !.status = st] \in FlowRow
    BY <1>0 DEF FlowRow
  <2>3. UNCHANGED <<plan, tokenVars, erasureVars, login, links>>
    BY <1>9 DEF CompleteOAuth, failOAuth
  <2> QED
    BY <1>7, <2>1, <2>2, <2>3
<1>10. ASSUME NEW f \in Flows, NEW s \in Subjects, verifyOAuthCode(f, s) PROVE TokensInv'
  <2> DEFINE row == [flows[f] EXCEPT !.subject = s,
                       !.account = IF flows[f].intent = "restore" THEN links[s] ELSE @]
  <2>1. row \in FlowRow
    BY <1>0 DEF FlowRow, SomeAccount
  <2>2. flows' = [flows EXCEPT ![f] = row] /\ UNCHANGED <<plan, tokenVars, erasureVars, login, links>>
    BY <1>0, <1>10 DEF verifyOAuthCode
  <2> HIDE DEF row
  <2> QED
    BY <1>7, <2>1, <2>2
<1>11. ASSUME NEW f \in Flows, completeOAuthIdentity(f) PROVE TokensInv'
  <2> DEFINE w == flows[f]
             row == [w EXCEPT !.status = "completed", !.epoch = epoch[w.account],
                              !.root = IF w.intent = "restore" THEN epoch[w.account] ELSE @]
  <2>1. w \in FlowRow /\ w.account \in AccountIds /\ w.device \in Devices /\ w.subject \in Subjects
    BY <1>0, <1>11 DEF completeOAuthIdentity, accountSession, linkInstallation, installationAllowed,
                       FlowRow, SomeDevice
  <2>2. row \in FlowRow
    BY <2>1 DEF EpochType, FlowRow
  <2>3. flows' = [flows EXCEPT ![f] = row]
    BY <1>0, <1>11 DEF completeOAuthIdentity
  <2>4. devs' = devs \cup {<<w.account, w.device>>} /\ UNCHANGED <<plan, accounts, erased, boot, pairs, spent, rotations, login>>
    BY <1>11 DEF completeOAuthIdentity, linkInstallation
  <2>5. links' \in [Subjects -> SomeAccount]
    BY <1>0, <1>11, <2>1 DEF completeOAuthIdentity, linkOAuthTx, SomeAccount
  <2> HIDE DEF row
  <2>6. flows' \in [Flows -> FlowRow] /\ devs' \subseteq AccountIds \X Devices
    BY <1>0, <2>1, <2>2, <2>3, <2>4
  <2> QED
    BY <1>0, <2>4, <2>5, <2>6, RequestsKeepTokens
<1>12. ASSUME NEW f \in Flows, OAuthResult(f) PROVE TokensInv'
  <2> DEFINE w == flows[f]
  <2>1. w \in FlowRow /\ w.account \in AccountIds /\ w.device \in Devices /\ w.root \in Nat
    BY <1>0, <1>12 DEF OAuthResult, accountSession, linkInstallation, installationAllowed, FlowRow, SomeDevice
  <2>2. /\ devs' = devs \cup {<<w.account, w.device>>}
        /\ UNCHANGED <<plan, accounts, erased, boot, spent, rotations, login, links>>
    BY <1>12 DEF OAuthResult, linkInstallation
  <2>3. CASE UNCHANGED <<pairs, flows>>
    BY <1>0, <2>1, <2>2, <2>3, RequestsKeepTokens
  <2>4. CASE /\ signTokens(w.account, w.device, issued + 1, w.root)
             /\ flows' = [flows EXCEPT ![f].pair = issued + 1]
    <3>1. issued \in Nat
      BY FS_CardinalityType DEF TokensInv, CredentialTypes, issued
    <3>2. [w EXCEPT !.pair = issued + 1] \in FlowRow
      BY <2>1, <3>1 DEF FlowRow
    <3>3. flows' \in [Flows -> FlowRow]
      BY <1>0, <2>4, <3>2
    <3> QED
      BY <1>4, <2>1, <2>2, <2>4, <3>3
  <2> QED
    BY <1>12, <2>3, <2>4 DEF OAuthResult
<1> QED
  BY <1>1, <1>2, <1>3, <1>5, <1>6, <1>8, <1>9, <1>10, <1>11, <1>12 DEF AccountsNext

-----------------------------------------------------------------------------
(* Authority: what was approved belongs to the generation of the account.   *)

BrowserRow == [state : {"none", "open", "approved"}, account : SomeAccount, device : SomeDevice, root : Nat]

RootsFresh ==
    /\ \A p \in pairs : p.root = p.epoch
    /\ \A f \in Flows : flows[f].root = flows[f].epoch

ApprovedNow(row, e) == row.state = "approved" => row.account \in AccountIds /\ row.root = e[row.account]

BrowsersFresh ==
    /\ requests \in [Browsers -> BrowserRow] /\ sessions \in [Browsers -> BrowserRow]
    /\ \A b \in Browsers : ApprovedNow(requests[b], epoch) /\ ApprovedNow(sessions[b], epoch)

AuthorityInv == EpochType /\ RootsFresh /\ BrowsersFresh

(* The steps that change generations or browsers.                           *)
BrowserStep ==
    \E b \in Browsers :
        \/ loginForm(b) \/ loginContinue(b) \/ logoutPost(b)
        \/ \E p \in pairs : ConnectHandler(b, p)

(* A step revokes sessions, is one of a browser, or leaves generations and  *)
(* browsers alone.                                                          *)
LEMMA SessionSteps ==
  ASSUME AccountStep
  PROVE  \/ UNCHANGED <<epoch, requests, sessions>>
         \/ \E a : RevokeSessionsTx(a)
         \/ BrowserStep
<1> USE DEF accountVars, tokenVars, erasureVars, moderationVars, enforcementVars, browserVars
<1> DEFINE Kept == UNCHANGED <<epoch, requests, sessions>>
<1>1. CASE Elsewhere
  BY <1>1 DEF Elsewhere
<1>2. CASE EnforcementNext
  <2>0. CASE AccountsNext /\ UNCHANGED <<liveVars, browserVars>>
    <3>1. UNCHANGED epoch
      BY <2>0 DEF AccountsNext, bootstrapAccount, bootstrapInstallationTx, bootstrapAgain, Refresh,
         BindInstallation, BeginOAuth, CompleteOAuth, completeOAuthIdentity, failOAuth, OAuthResult,
         verifyOAuthCode
    <3> QED
      BY <2>0, <3>1
  <2>1. ASSUME NEW c \in Conns, NEW p, hello(c, p) PROVE Kept
    BY <2>1 DEF hello
  <2>2. ASSUME NEW c \in Conns, authenticate(c) \/ OpenAuthenticated(c) \/ Disconnect(c) PROVE Kept
    BY <2>2 DEF authenticate, OpenAuthenticated, Disconnect
  <2>3. ASSUME NEW i, NEW a, Apply(i, a) PROVE RevokeSessionsTx(a)
    BY <2>3 DEF Apply
  <2>4. ASSUME NEW i, NEW a, FreezeAccount(i, a) PROVE Kept
    BY <2>4 DEF FreezeAccount
  <2>5. ASSUME NEW i, Lift(i) \/ ExpireFreezes(i) PROVE Kept
    BY <2>5 DEF Lift, ExpireFreezes
  <2>6. ASSUME NEW w, NEW i, EnforceSanction(w, i) \/ dispatchGuardDecision(w, i) PROVE Kept
    BY <2>6 DEF EnforceSanction, dispatchGuardDecision
  <2>7. ASSUME NEW w, CompleteDelivery(w) \/ recordDelivery(w) PROVE Kept
    BY <2>7 DEF CompleteDelivery, recordDelivery
  <2>8. ASSUME NEW i, NEW decision, decideFreeze(i, decision) PROVE Kept
    BY <2>8 DEF decideFreeze
  <2>9. ASSUME NEW w, EnforceAccount(w) PROVE Kept \/ \E a : RevokeSessionsTx(a)
    BY <2>9 DEF EnforceAccount, RevokeEnforcedSessions
  <2>10. CASE Restart
    BY <2>10 DEF Restart
  <2>11. ASSUME NEW b, readApproval(b) PROVE Kept
    BY <2>11 DEF readApproval
  <2> QED
    BY <1>2, <2>0, <2>1, <2>2, <2>3, <2>4, <2>5, <2>6, <2>7, <2>8, <2>9, <2>10, <2>11
       DEF EnforcementNext, BrowserStep
<1>3. ASSUME NEW i, NEW p, BeginEnrollment(i, p) PROVE Kept
  BY <1>3 DEF BeginEnrollment, authorityUnchanged
<1>4. ASSUME NEW i, EnrollCapability(i) PROVE Kept
  BY <1>4 DEF EnrollCapability, authorityUnchanged
<1>5. ASSUME NEW i, BeginProviderIntent(i) \/ claimProviderIntent(i) PROVE Kept
  BY <1>5 DEF BeginProviderIntent, claimProviderIntent, authorityUnchanged
<1>6. ASSUME NEW i, NEW cap, BeginCapabilityIntent(i, cap) \/ CompleteProviderIntent(i, cap) PROVE Kept
  BY <1>6 DEF BeginCapabilityIntent, CompleteProviderIntent, authorityUnchanged
<1>7. ASSUME NEW c, NEW i, confirmAgain(c, i) PROVE Kept
  BY <1>7 DEF confirmAgain
<1>8. ASSUME NEW c, NEW i, NEW r, confirmDeletion(c, i, r) PROVE \E a : RevokeSessionsTx(a)
  BY <1>8 DEF confirmDeletion
<1>9. ASSUME NEW a, SecurityRevoke(a) PROVE RevokeSessionsTx(a)
  BY <1>9 DEF SecurityRevoke
<1>10. ASSUME NEW c, Publish(c) \/ syncState(c) \/ Advance(c) \/ writeMinimum(c) \/ bindSuppression(c) \/ stopConfirm(c)
       PROVE  Kept
  BY <1>10 DEF Publish, syncState, Advance, writeMinimum, bindSuppression, stopConfirm, databaseUnchanged
<1>11. CASE PowerLoss
  BY <1>11 DEF PowerLoss, databaseUnchanged
<1>12. ASSUME NEW r, EraseBatch(r) PROVE Kept
  BY <1>12 DEF EraseBatch
<1> QED
  BY <1>1, <1>2, <1>3, <1>4, <1>5, <1>6, <1>7, <1>8, <1>9, <1>10, <1>11, <1>12 DEF AccountStep, DeletionNext

(* A first state has no authority but that of generation zero.              *)
LEMMA AuthorityStart == EnforcementInit => AuthorityInv
<1> SUFFICES ASSUME EnforcementInit PROVE AuthorityInv
  OBVIOUS
<1>1. EpochType
  BY DEF EnforcementInit, AccountsInit, EpochType
<1>2. \A p \in pairs : p.root = p.epoch
  BY PairsStarted DEF EnforcementInit, AccountsInit, Started
<1>3. flows = [f \in Flows |-> NoFlow]
  BY DEF EnforcementInit, AccountsInit
<1>4. BrowsersFresh
  BY DEF EnforcementInit, BrowsersFresh, BrowserRow, NoRequest, ApprovedNow, SomeAccount, SomeDevice
<1> QED
  BY <1>1, <1>2, <1>3, <1>4 DEF AuthorityInv, RootsFresh, NoFlow

(* A pair is signed in the generation in which its authority was proved:    *)
(* the same transaction compares that generation.                           *)
LEMMA RootsKept ==
  ASSUME TokensInv, AuthorityInv, AccountsNext
  PROVE  RootsFresh'
<1> USE DEF tokenVars, accountSession, linkInstallation
<1>0. /\ pairs \subseteq PairRow /\ flows \in [Flows -> FlowRow] /\ RootsFresh
  BY DEF TokensInv, CredentialTypes, AuthorityInv
<1>1. ASSUME NEW a, NEW d, NEW line, NEW root, signTokens(a, d, line, root), root = epoch[a], UNCHANGED flows
      PROVE  RootsFresh'
  BY <1>0, <1>1 DEF signTokens, Pair, RootsFresh
<1>2. ASSUME UNCHANGED <<pairs, flows>> PROVE RootsFresh'
  BY <1>0, <1>2 DEF RootsFresh
<1>3. ASSUME NEW f \in Flows, NEW row, row.root = row.epoch, flows' = [flows EXCEPT ![f] = row], UNCHANGED pairs
      PROVE  RootsFresh'
  BY <1>0, <1>3 DEF RootsFresh
<1>4. ASSUME NEW c \in Callers, bootstrapAgain(c) \/ \E d \in Devices : bootstrapAccount(c, d) PROVE RootsFresh'
  BY <1>2, <1>4 DEF bootstrapAccount, bootstrapAgain
<1>5. ASSUME NEW c \in Callers, bootstrapInstallationTx(c) PROVE RootsFresh'
  BY <1>1, <1>5 DEF bootstrapInstallationTx
<1>6. ASSUME NEW p \in pairs, Refresh(p) PROVE RootsFresh'
  BY <1>0, <1>1, <1>6 DEF Refresh, RootsFresh
<1>7. ASSUME NEW p \in pairs, NEW d \in Devices, BindInstallation(p, d) PROVE RootsFresh'
  <2>1. p.root = epoch[p.account] /\ UNCHANGED flows
    BY <1>0, <1>7 DEF BindInstallation, RootsFresh
  <2>2. signTokens(p.account, d, p.line, p.root) \/ UNCHANGED pairs
    BY <1>7 DEF BindInstallation
  <2> QED
    BY <1>1, <1>2, <2>1, <2>2
<1>8. ASSUME NEW f \in Flows, NEW intent \in {"link", "restore"}, NEW p \in pairs, NEW d \in Devices,
             BeginOAuth(f, intent, p, d)
      PROVE  RootsFresh'
  <2> DEFINE row == [NoFlow EXCEPT
                    !.status = "pending", !.intent = intent, !.device = d,
                    !.account = IF intent = "link" THEN p.account ELSE NoAccount,
                    !.epoch = IF intent = "link" THEN p.epoch ELSE 0,
                    !.root = IF intent = "link" THEN p.root ELSE 0]
  <2>1. row.root = row.epoch
    BY <1>0 DEF NoFlow, RootsFresh
  <2>2. flows' = [flows EXCEPT ![f] = row] /\ UNCHANGED pairs
    BY <1>8 DEF BeginOAuth
  <2> HIDE DEF row
  <2> QED
    BY <1>3, <2>1, <2>2
<1>9. ASSUME NEW f \in Flows, CompleteOAuth(f) \/ failOAuth(f) PROVE RootsFresh'
  <2>1. PICK st \in {"exchanging", "failed"} : flows' = [flows EXCEPT ![f] = [@ EXCEPT !.status = st]]
    BY <1>9 DEF CompleteOAuth, failOAuth
  <2>2. UNCHANGED pairs
    BY <1>9 DEF CompleteOAuth, failOAuth
  <2>3. [flows[f] EXCEPT !.status = st].root = [flows[f] EXCEPT !.status = st].epoch
    BY <1>0 DEF FlowRow, RootsFresh
  <2> QED
    BY <1>3, <2>1, <2>2, <2>3
<1>10. ASSUME NEW f \in Flows, NEW s \in Subjects, verifyOAuthCode(f, s) PROVE RootsFresh'
  <2> DEFINE row == [flows[f] EXCEPT !.subject = s,
                       !.account = IF flows[f].intent = "restore" THEN links[s] ELSE @]
  <2>1. row.root = row.epoch
    BY <1>0 DEF FlowRow, RootsFresh
  <2>2. flows' = [flows EXCEPT ![f] = row] /\ UNCHANGED pairs
    BY <1>0, <1>10 DEF verifyOAuthCode
  <2> HIDE DEF row
  <2> QED
    BY <1>3, <2>1, <2>2
<1>11. ASSUME NEW f \in Flows, completeOAuthIdentity(f) PROVE RootsFresh'
  <2> DEFINE w == flows[f]
             row == [w EXCEPT !.status = "completed", !.epoch = epoch[w.account],
                              !.root = IF w.intent = "restore" THEN epoch[w.account] ELSE @]
  <2>1. row.root = row.epoch
    BY <1>0, <1>11 DEF completeOAuthIdentity, FlowRow, RootsFresh
  <2>2. flows' = [flows EXCEPT ![f] = row] /\ UNCHANGED pairs
    BY <1>0, <1>11 DEF completeOAuthIdentity
  <2> HIDE DEF row
  <2> QED
    BY <1>3, <2>1, <2>2
<1>12. ASSUME NEW f \in Flows, OAuthResult(f) PROVE RootsFresh'
  <2> DEFINE w == flows[f]
  <2>1. w.root = epoch[w.account]
    BY <1>0, <1>12 DEF OAuthResult, RootsFresh
  <2>2. CASE UNCHANGED <<pairs, flows>>
    BY <1>2, <2>2
  <2>3. CASE /\ signTokens(w.account, w.device, issued + 1, w.root)
             /\ flows' = [flows EXCEPT ![f].pair = issued + 1]
    <3>1. \A g \in Flows : flows'[g].root = flows[g].root /\ flows'[g].epoch = flows[g].epoch
      BY <1>0, <2>3 DEF FlowRow
    <3>2. \A p \in pairs' : p.root = p.epoch
      BY <1>0, <2>1, <2>3 DEF signTokens, Pair, RootsFresh
    <3> QED
      BY <1>0, <3>1, <3>2 DEF RootsFresh
  <2> QED
    BY <1>12, <2>2, <2>3 DEF OAuthResult
<1> QED
  BY <1>4, <1>5, <1>6, <1>7, <1>8, <1>9, <1>10, <1>11, <1>12 DEF AccountsNext

(* Every step of an account keeps the authority fresh.                      *)
LEMMA AuthorityKept ==
  ASSUME TokensInv, AuthorityInv, AccountStep
  PROVE  AuthorityInv'
<1> USE DEF ApprovedNow
<1>1. RootsFresh'
  <2>1. CASE AccountsNext
    BY <2>1, RootsKept
  <2>2. ASSUME UNCHANGED <<pairs, flows>> PROVE RootsFresh'
    BY <2>2 DEF AuthorityInv, RootsFresh
  <2> QED
    BY <2>1, <2>2, CredentialSteps DEF CredentialsKept, credentialVars, EraseBatch
<1>2. EpochType' /\ BrowsersFresh'
  <2>0. EpochType /\ BrowsersFresh
    BY DEF AuthorityInv
  <2>1. CASE UNCHANGED <<epoch, requests, sessions>>
    BY <2>0, <2>1 DEF EpochType, BrowsersFresh
  <2>2. ASSUME NEW a, RevokeSessionsTx(a) PROVE EpochType' /\ BrowsersFresh'
    <3>1. /\ \A x \in AccountIds : epoch'[x] = IF x = a THEN epoch[x] + 1 ELSE epoch[x]
          /\ EpochType'
      <4>1. epoch' = [epoch EXCEPT ![a] = epoch[a] + 1] /\ epoch \in [AccountIds -> Nat]
        BY <2>0, <2>2 DEF RevokeSessionsTx, RevokedEpoch, EpochType
      <4>2. \A x \in AccountIds : epoch'[x] = IF x = a THEN epoch[x] + 1 ELSE epoch[x]
        BY <4>1
      <4>3. DOMAIN epoch' = AccountIds /\ epoch' = [x \in AccountIds |-> epoch'[x]]
        BY <4>1
      <4>4. \A x \in AccountIds : epoch'[x] \in Nat
        BY <4>1, <4>2
      <4> QED
        BY <4>2, <4>3, <4>4 DEF EpochType
    <3>2. NoRequest \in BrowserRow /\ NoRequest.state = "none"
      BY DEF NoRequest, BrowserRow, SomeAccount, SomeDevice
    <3>3. /\ requests' = [b \in Browsers |-> IF requests[b].account = a THEN NoRequest ELSE requests[b]]
          /\ sessions' = [b \in Browsers |-> IF sessions[b].account = a THEN NoRequest ELSE sessions[b]]
      BY <2>2 DEF RevokeSessionsTx
    <3>4. ASSUME NEW b \in Browsers PROVE ApprovedNow(requests'[b], epoch')
      BY <2>0, <3>1, <3>2, <3>3 DEF BrowsersFresh
    <3>5. ASSUME NEW b \in Browsers PROVE ApprovedNow(sessions'[b], epoch')
      BY <2>0, <3>1, <3>2, <3>3 DEF BrowsersFresh
    <3>6. requests' \in [Browsers -> BrowserRow] /\ sessions' \in [Browsers -> BrowserRow]
      BY <2>0, <3>2, <3>3 DEF BrowsersFresh
    <3> QED
      BY <3>1, <3>4, <3>5, <3>6 DEF BrowsersFresh
  <2>3. ASSUME NEW b \in Browsers, NEW row \in BrowserRow, ApprovedNow(row, epoch), UNCHANGED epoch,
               \/ requests' = [requests EXCEPT ![b] = row] /\ UNCHANGED sessions
               \/ sessions' = [sessions EXCEPT ![b] = row] /\ UNCHANGED requests
        PROVE  EpochType' /\ BrowsersFresh'
    BY <2>0, <2>3 DEF EpochType, BrowsersFresh
  <2>4. ASSUME NEW b \in Browsers,
               loginForm(b) \/ loginContinue(b) \/ logoutPost(b) \/ \E p \in pairs : ConnectHandler(b, p)
        PROVE  EpochType' /\ BrowsersFresh'
    <3> USE DEF accountVars, tokenVars
    <3>1. NoRequest \in BrowserRow /\ NoRequest.state = "none"
      BY DEF NoRequest, BrowserRow, SomeAccount, SomeDevice
    <3>2. CASE loginForm(b)
      <4>1. [NoRequest EXCEPT !.state = "open"] \in BrowserRow /\ [NoRequest EXCEPT !.state = "open"].state = "open"
        BY DEF NoRequest, BrowserRow, SomeAccount, SomeDevice
      <4> QED
        BY <2>3, <3>2, <4>1 DEF loginForm
    <3>3. CASE logoutPost(b)
      <4>1. CASE UNCHANGED <<epoch, requests, sessions>>
        BY <2>1, <4>1
      <4> QED
        BY <2>3, <3>1, <3>3, <4>1 DEF logoutPost
    <3>4. CASE loginContinue(b)
      BY <2>0, <3>1, <3>4 DEF loginContinue, EpochType, BrowsersFresh
    <3>5. ASSUME NEW p \in pairs, ConnectHandler(b, p) PROVE EpochType' /\ BrowsersFresh'
      <4> DEFINE row == [state |-> "approved", account |-> p.account, device |-> p.device, root |-> p.epoch]
      <4>1. p \in PairRow
        BY DEF TokensInv, CredentialTypes
      <4>2. row \in BrowserRow /\ ApprovedNow(row, epoch)
        BY <3>5, <4>1 DEF ConnectHandler, ValidateAccessToken, PairRow, BrowserRow, SomeAccount
      <4>3. requests' = [requests EXCEPT ![b] = row] /\ UNCHANGED <<epoch, sessions>>
        BY <3>5 DEF ConnectHandler
      <4> HIDE DEF row
      <4> QED
        BY <2>3, <4>2, <4>3
    <3> QED
      BY <2>4, <3>2, <3>3, <3>4, <3>5
  <2> QED
    BY <2>1, <2>2, <2>4, SessionSteps DEF BrowserStep
<1> QED
  BY <1>1, <1>2 DEF AuthorityInv

-----------------------------------------------------------------------------
(* Sanctions and guards against connections.                                *)

SanctionRow == [state : {"none", "active", "over"}, account : SomeAccount, devices : SUBSET Devices,
                outcome : {"none", "applied", "obsolete"}]
FreezeRow == [state : {"none", "frozen", "dismissed", "timed", "permanent", "expired"},
              target : SomeAccount, over : BOOLEAN, delivery : {"none", "delivered", "obsolete"}]
ConnRow == [pc : {"hello", "register", "open"}, pair : PairRow]
PeerRow == [conn : Conns \cup {NoConn}, pair : PairRow \cup {NoPeer.pair}, closed : BOOLEAN]
SanctionTask == [pc : {"sanction"}, id : SanctionIds]
FreezeTask == [pc : {"enforce", "delivered", "obsolete"}, id : FreezeIds]

ModerationTypes ==
    /\ sanctions \in [SanctionIds -> SanctionRow]
    /\ freezes \in [FreezeIds -> FreezeRow]
LiveTypes ==
    /\ conn \in [Conns -> {Idle} \cup ConnRow]
    /\ peers \in [AccountIds -> PeerRow]
    /\ mutex \in Conns \cup {NoConn}
    /\ delivery \in [Deliverers -> {Idle} \cup SanctionTask \cup FreezeTask]

(* An active sanction covers every installation of its account.             *)
Covered ==
    \A i \in SanctionIds : sanctions[i].state = "active" =>
        /\ sanctions[i].account \in accounts
        /\ \A d \in Devices : <<sanctions[i].account, d>> \in devs => d \in sanctions[i].devices

(* Nothing was delivered before it was decided.                             *)
DecidedFirst ==
    /\ \A i \in SanctionIds : sanctions[i].state = "none" =>
         /\ sanctions[i].outcome = "none"
         /\ \A w \in Deliverers : ~(delivery[w].pc = "sanction" /\ delivery[w].id = i)
    /\ \A i \in FreezeIds : freezes[i].state \notin {"timed", "permanent"} =>
         /\ freezes[i].delivery = "none"
         /\ \A w \in Deliverers : ~(delivery[w].pc \in {"enforce", "delivered", "obsolete"} /\ delivery[w].id = i)
    /\ \A i \in FreezeIds : freezes[i].state # "none" => freezes[i].target \in AccountIds

(* A connection registers under the mutex; an open peer is one of its       *)
(* account.                                                                 *)
MutexHeld == \A c \in Conns : conn[c].pc = "register" => mutex = c
PeersOwn == \A a \in AccountIds : ~peers[a].closed => peers[a].conn # NoConn /\ peers[a].pair.account = a

(* The lobby has acted on the decision, though the outcome may still have   *)
(* to be recorded.                                                          *)
SanctionDelivered(i) ==
    \/ sanctions[i].outcome = "applied"
    \/ \E w \in Deliverers : delivery[w].pc = "sanction" /\ delivery[w].id = i
FreezeDelivered(i) ==
    \/ freezes[i].delivery = "delivered"
    \/ \E w \in Deliverers : delivery[w].pc = "delivered" /\ delivery[w].id = i
FreezeStands(i) == freezes[i].state \in {"timed", "permanent"} /\ ~freezes[i].over

Barred(p) ==
    \/ \E i \in SanctionIds : SanctionDelivered(i) /\ ActiveForBinding(i, p)
    \/ \E i \in FreezeIds : FreezeDelivered(i) /\ FreezeStands(i) /\ freezes[i].target = p.account
LivePair(p) ==
    \/ \E a \in AccountIds : ~peers[a].closed /\ peers[a].pair = p
    \/ \E c \in Conns : conn[c].pc = "register" /\ conn[c].pair = p

(* What is open, or has been validated and is being opened, is not barred   *)
(* by a delivered decision.                                                 *)
NoneBarred == \A p \in PairRow : LivePair(p) => ~Barred(p)

ModerationInv ==
    /\ ModerationTypes /\ LiveTypes /\ Covered /\ DecidedFirst
    /\ MutexHeld /\ PeersOwn /\ NoneBarred

(* The invariant says what a delivered sanction or guard decision promises. *)
LEMMA ModerationHolds == ModerationInv => SanctionHolds
<1> SUFFICES ASSUME ModerationInv PROVE SanctionHolds
  OBVIOUS
<1> USE DEF ModerationInv
<1>0. ASSUME NEW a \in AccountIds, ~peers[a].closed
      PROVE  peers[a].pair \in PairRow /\ LivePair(peers[a].pair) /\ peers[a].pair.account = a
  <2>1. peers[a] \in PeerRow /\ peers[a].pair.account = a
    BY <1>0 DEF LiveTypes, PeersOwn
  <2>2. peers[a].pair # NoPeer.pair
    BY <2>1, AccountsAssumption DEF NoPeer, Pair
  <2> QED
    BY <1>0, <2>1, <2>2 DEF PeerRow, LivePair
<1>1. ASSUME NEW i \in SanctionIds, sanctions[i].state = "active", sanctions[i].outcome = "applied",
             NEW a \in AccountIds, ~peers[a].closed
      PROVE  ~ActiveForBinding(i, peers[a].pair)
  BY <1>0, <1>1 DEF NoneBarred, Barred, SanctionDelivered
<1>2. ASSUME NEW i \in FreezeIds, freezes[i].state \in {"timed", "permanent"}, ~freezes[i].over,
             freezes[i].delivery = "delivered"
      PROVE  peers[freezes[i].target].closed
  <2>1. freezes[i].target \in AccountIds
    BY <1>2 DEF DecidedFirst
  <2> QED
    BY <1>0, <1>2, <2>1 DEF NoneBarred, Barred, FreezeDelivered, FreezeStands
<1> QED
  BY <1>1, <1>2 DEF Covered, SanctionHolds

(* Nothing is decided or open in a first state.                             *)
LEMMA ModerationStart == EnforcementInit => ModerationInv
<1> SUFFICES ASSUME EnforcementInit PROVE ModerationInv
  OBVIOUS
<1>1. /\ sanctions = [i \in SanctionIds |-> NoSanction] /\ freezes = [i \in FreezeIds |-> NoFreeze]
      /\ conn = [c \in Conns |-> Idle] /\ peers = [a \in AccountIds |-> NoPeer]
      /\ mutex = NoConn /\ delivery = [w \in Deliverers |-> Idle]
  BY DEF EnforcementInit, AccountsInit
<1>2. ModerationTypes
  BY <1>1 DEF ModerationTypes, SanctionRow, FreezeRow, NoSanction, NoFreeze, SomeAccount
<1>3. NoPeer \in PeerRow /\ NoPeer.closed
  BY DEF NoPeer, PeerRow
<1>4. LiveTypes
  BY <1>1, <1>3 DEF LiveTypes
<1>5. Covered /\ DecidedFirst
  BY <1>1 DEF Covered, DecidedFirst, NoSanction, NoFreeze, Idle
<1>6. MutexHeld /\ PeersOwn /\ NoneBarred
  BY <1>1, <1>3 DEF MutexHeld, PeersOwn, NoneBarred, LivePair, Idle
<1> QED
  BY <1>2, <1>4, <1>5, <1>6 DEF ModerationInv

(* Links to installations are added only to accounts and installations that *)
(* no active sanction covers.                                               *)
LEMMA LinksCovered ==
  ASSUME TokensInv, Covered, AccountsNext
  PROVE  Covered' /\ UNCHANGED moderationVars
<1> USE DEF tokenVars, moderationVars
<1>0. accounts \subseteq AccountIds
  BY DEF TokensInv, CredentialTypes
<1>1. ASSUME UNCHANGED <<accounts, devs, sanctions>> PROVE Covered'
  BY <1>1 DEF Covered
<1>2. ASSUME NEW a, NEW d, ~installation_sanction_active(d), devs' = devs \cup {<<a, d>>},
             accounts \subseteq accounts', a \notin accounts \/ ~direct_account_sanction_active(a),
             UNCHANGED sanctions
      PROVE  Covered'
  BY <1>2 DEF Covered, installation_sanction_active, direct_account_sanction_active
<1> USE DEF linkInstallation, installationAllowed, accountSession
<1>3. ASSUME NEW c \in Callers, bootstrapAgain(c) \/ \E d \in Devices : bootstrapAccount(c, d)
      PROVE  Covered' /\ UNCHANGED moderationVars
  BY <1>1, <1>3 DEF bootstrapAccount, bootstrapAgain
<1>4. ASSUME NEW c \in Callers, bootstrapInstallationTx(c) PROVE Covered' /\ UNCHANGED moderationVars
  <2> DEFINE d == login[c].device
  <2>1. PICK a \in IF boot[d] = NoAccount THEN AccountIds \ accounts ELSE {boot[d]} :
           /\ accounts' = accounts \cup {a}
           /\ boot[d] # NoAccount => accountSession(a)
           /\ linkInstallation(a, d)
    BY <1>4 DEF bootstrapInstallationTx
  <2>2. UNCHANGED <<sanctions, freezes>>
    BY <1>4 DEF bootstrapInstallationTx
  <2>3. a \notin accounts \/ ~direct_account_sanction_active(a)
    BY <2>1
  <2>4. ~installation_sanction_active(d) /\ devs' = devs \cup {<<a, d>>} /\ accounts \subseteq accounts'
    BY <2>1
  <2> HIDE DEF d
  <2> QED
    BY <1>2, <2>2, <2>3, <2>4
<1>5. ASSUME NEW p \in pairs, Refresh(p) PROVE Covered' /\ UNCHANGED moderationVars
  <2>1. /\ ~installation_sanction_active(p.device) /\ devs' = devs \cup {<<p.account, p.device>>}
        /\ ~direct_account_sanction_active(p.account) /\ UNCHANGED <<accounts, sanctions, freezes>>
    BY <1>5 DEF Refresh
  <2> QED
    BY <1>2, <2>1
<1>6. ASSUME NEW p \in pairs, NEW d \in Devices, BindInstallation(p, d)
      PROVE  Covered' /\ UNCHANGED moderationVars
  <2>1. /\ ~installation_sanction_active(d) /\ devs' = devs \cup {<<p.account, d>>}
        /\ ~direct_account_sanction_active(p.account) /\ UNCHANGED <<accounts, sanctions, freezes>>
    BY <1>6 DEF BindInstallation
  <2> QED
    BY <1>2, <2>1
<1>7. ASSUME NEW f \in Flows,
             \/ CompleteOAuth(f) \/ failOAuth(f) \/ \E s \in Subjects : verifyOAuthCode(f, s)
             \/ \E intent, p, d : BeginOAuth(f, intent, p, d)
      PROVE  Covered' /\ UNCHANGED moderationVars
  BY <1>1, <1>7 DEF CompleteOAuth, failOAuth, verifyOAuthCode, BeginOAuth
<1>8. ASSUME NEW f \in Flows, completeOAuthIdentity(f) \/ OAuthResult(f)
      PROVE  Covered' /\ UNCHANGED moderationVars
  <2>1. /\ ~installation_sanction_active(flows[f].device)
        /\ devs' = devs \cup {<<flows[f].account, flows[f].device>>}
        /\ ~direct_account_sanction_active(flows[f].account) /\ UNCHANGED <<accounts, sanctions, freezes>>
    BY <1>8 DEF completeOAuthIdentity, OAuthResult
  <2> QED
    BY <1>2, <2>1
<1> QED
  BY <1>3, <1>4, <1>5, <1>6, <1>7, <1>8 DEF AccountsNext

(* What a step of another component leaves of moderation.                   *)
LiveKept == UNCHANGED <<moderationVars, liveVars, accounts>> /\ devs' \subseteq devs

(* Deletion leaves moderation alone, except that it removes installations.  *)
LEMMA ModerationSteps ==
  ASSUME AccountStep
  PROVE  (EnforcementNext /\ UNCHANGED deletionVars) \/ LiveKept
<1> USE DEF LiveKept, accountVars, tokenVars, erasureVars, moderationVars, enforcementVars
<1>1. CASE Elsewhere
  BY <1>1 DEF Elsewhere
<1>2. CASE EnforcementNext /\ UNCHANGED deletionVars
  BY <1>2
<1>3. ASSUME NEW i, NEW p, BeginEnrollment(i, p) PROVE LiveKept
  BY <1>3 DEF BeginEnrollment, authorityUnchanged
<1>4. ASSUME NEW i, EnrollCapability(i) PROVE LiveKept
  BY <1>4 DEF EnrollCapability, authorityUnchanged
<1>5. ASSUME NEW i, BeginProviderIntent(i) \/ claimProviderIntent(i) PROVE LiveKept
  BY <1>5 DEF BeginProviderIntent, claimProviderIntent, authorityUnchanged
<1>6. ASSUME NEW i, NEW cap, BeginCapabilityIntent(i, cap) \/ CompleteProviderIntent(i, cap) PROVE LiveKept
  BY <1>6 DEF BeginCapabilityIntent, CompleteProviderIntent, authorityUnchanged
<1>7. ASSUME NEW c, NEW i, confirmAgain(c, i) PROVE LiveKept
  BY <1>7 DEF confirmAgain
<1>8. ASSUME NEW c, NEW i, NEW r, confirmDeletion(c, i, r) PROVE LiveKept
  BY <1>8 DEF confirmDeletion
<1>9. ASSUME NEW a, SecurityRevoke(a) PROVE LiveKept
  BY <1>9 DEF SecurityRevoke
<1>10. ASSUME NEW c, Publish(c) \/ syncState(c) \/ Advance(c) \/ writeMinimum(c) \/ bindSuppression(c) \/ stopConfirm(c)
       PROVE  LiveKept
  BY <1>10 DEF Publish, syncState, Advance, writeMinimum, bindSuppression, stopConfirm, databaseUnchanged
<1>11. CASE PowerLoss
  BY <1>11 DEF PowerLoss, databaseUnchanged
<1>12. ASSUME NEW r, EraseBatch(r) PROVE LiveKept
  BY <1>12 DEF EraseBatch
<1> HIDE DEF LiveKept
<1> QED
  BY <1>1, <1>2, <1>3, <1>4, <1>5, <1>6, <1>7, <1>8, <1>9, <1>10, <1>11, <1>12 DEF AccountStep, DeletionNext

(* Connections, decisions and deliveries left alone.                        *)
LEMMA ModerationFrame ==
  ASSUME ModerationInv, Covered', UNCHANGED <<moderationVars, liveVars>>
  PROVE  ModerationInv'
<1> USE DEF moderationVars, liveVars
<1>1. ModerationTypes' /\ LiveTypes'
  BY DEF ModerationInv, ModerationTypes, LiveTypes
<1>2. DecidedFirst' /\ MutexHeld' /\ PeersOwn'
  BY DEF ModerationInv, DecidedFirst, MutexHeld, PeersOwn
<1>3. NoneBarred'
  BY DEF ModerationInv, NoneBarred, LivePair, Barred, SanctionDelivered, FreezeDelivered, FreezeStands,
         ActiveForBinding
<1> QED
  BY <1>1, <1>2, <1>3 DEF ModerationInv

(* Connections open, close and are validated under the mutex.               *)
LEMMA ConnectionsKept ==
  ASSUME TokensInv, ModerationInv, UNCHANGED <<accountVars, delivery>>, NEW c \in Conns,
         \/ \E p \in pairs : hello(c, p)
         \/ authenticate(c) \/ OpenAuthenticated(c) \/ Disconnect(c)
  PROVE  ModerationInv'
<1> USE EnforcementAssumption
<1>0. /\ UNCHANGED <<sanctions, freezes, devs, accounts, delivery>> /\ pairs \subseteq PairRow
      /\ conn \in [Conns -> {Idle} \cup ConnRow] /\ peers \in [AccountIds -> PeerRow]
      /\ mutex \in Conns \cup {NoConn}
      /\ delivery \in [Deliverers -> {Idle} \cup SanctionTask \cup FreezeTask]
      /\ MutexHeld /\ PeersOwn /\ NoneBarred
  BY DEF accountVars, tokenVars, moderationVars, ModerationInv, LiveTypes, TokensInv, CredentialTypes
<1>1. ModerationTypes' /\ Covered' /\ DecidedFirst'
  BY <1>0 DEF ModerationInv, ModerationTypes, Covered, DecidedFirst
<1>2. \A p : Barred(p)' <=> Barred(p)
  BY <1>0 DEF Barred, SanctionDelivered, FreezeDelivered, FreezeStands, ActiveForBinding
<1>3. ASSUME LiveTypes', MutexHeld', PeersOwn', \A p \in PairRow : LivePair(p)' => LivePair(p)
      PROVE  ModerationInv'
  BY <1>0, <1>1, <1>2, <1>3 DEF NoneBarred, ModerationInv
<1>4. ASSUME NEW p \in pairs, hello(c, p) PROVE ModerationInv'
  <2> DEFINE row == [pc |-> "hello", pair |-> p]
  <2>1. row \in ConnRow /\ row.pc = "hello"
    BY <1>0 DEF ConnRow
  <2>2. conn' = [conn EXCEPT ![c] = row] /\ UNCHANGED <<peers, mutex>>
    BY <1>4 DEF hello
  <2> HIDE DEF row
  <2>3. LiveTypes'
    BY <1>0, <2>1, <2>2 DEF LiveTypes
  <2>4. MutexHeld' /\ PeersOwn'
    BY <1>0, <2>1, <2>2 DEF MutexHeld, PeersOwn
  <2>5. \A q \in PairRow : LivePair(q)' => LivePair(q)
    BY <1>0, <2>1, <2>2 DEF LivePair
  <2> QED
    BY <1>3, <2>3, <2>4, <2>5
<1>5. CASE authenticate(c)
  <2>0. conn[c] \in ConnRow /\ mutex = NoConn /\ UNCHANGED peers
    BY <1>0, <1>5 DEF authenticate, Idle
  <2>1. CASE mutex' = mutex /\ conn' = [conn EXCEPT ![c] = Idle]
    <3>1. LiveTypes'
      BY <1>0, <2>0, <2>1 DEF LiveTypes
    <3>2. MutexHeld' /\ PeersOwn'
      BY <1>0, <2>0, <2>1 DEF MutexHeld, PeersOwn, Idle
    <3>3. \A q \in PairRow : LivePair(q)' => LivePair(q)
      BY <1>0, <2>0, <2>1 DEF LivePair, Idle
    <3> QED
      BY <1>3, <3>1, <3>2, <3>3
  <2>2. CASE /\ ValidateAccessToken(conn[c].pair) /\ mutex' = c
             /\ conn' = [conn EXCEPT ![c].pc = "register"]
    <3> DEFINE row == [conn[c] EXCEPT !.pc = "register"]
    <3>1. row \in ConnRow /\ row.pc = "register" /\ row.pair = conn[c].pair
      BY <2>0 DEF ConnRow
    <3>2. conn' = [conn EXCEPT ![c] = row]
      BY <2>2
    <3> HIDE DEF row
    <3>3. LiveTypes'
      BY <1>0, <2>0, <2>2, <3>1, <3>2 DEF LiveTypes
    <3>4. MutexHeld' /\ PeersOwn'
      BY <1>0, <2>0, <2>2, <3>1, <3>2 DEF MutexHeld, PeersOwn, NoConn
    <3>5. ~Barred(conn[c].pair)
      BY <2>2 DEF Barred, ActiveForBinding, FreezeStands, ValidateAccessToken, accountSession, installationAllowed,
                  direct_account_sanction_active, installation_sanction_active, banned, suspended
    <3>6. \A q \in PairRow : LivePair(q)' => LivePair(q) \/ q = conn[c].pair
      BY <1>0, <2>0, <3>1, <3>2 DEF LivePair
    <3>7. NoneBarred'
      BY <1>0, <1>2, <3>5, <3>6 DEF NoneBarred
    <3> QED
      BY <1>1, <3>3, <3>4, <3>7 DEF ModerationInv
  <2> QED
    BY <1>5, <2>1, <2>2 DEF authenticate
<1>6. CASE OpenAuthenticated(c)
  <2> DEFINE a == conn[c].pair.account
             row == [conn |-> c, pair |-> conn[c].pair, closed |-> FALSE]
             open == [conn[c] EXCEPT !.pc = "open"]
  <2>0. /\ conn[c] \in ConnRow /\ conn[c].pc = "register" /\ mutex = c
        /\ peers' = [peers EXCEPT ![a] = row] /\ mutex' = NoConn /\ conn' = [conn EXCEPT ![c] = open]
    BY <1>0, <1>6 DEF OpenAuthenticated, Idle, MutexHeld
  <2>1. a \in AccountIds /\ conn[c].pair \in PairRow /\ open \in ConnRow /\ open.pc = "open" /\ row \in PeerRow
    BY <2>0 DEF ConnRow, PairRow, PeerRow
  <2>2. row.conn = c /\ row.pair = conn[c].pair /\ ~row.closed /\ c # NoConn
    BY DEF NoConn
  <2> HIDE DEF row, open, a
  <2>3. LiveTypes'
    BY <1>0, <2>0, <2>1 DEF LiveTypes
  <2>4. MutexHeld'
    BY <1>0, <2>0, <2>1 DEF MutexHeld
  <2>5. PeersOwn'
    BY <1>0, <2>0, <2>1, <2>2 DEF PeersOwn, a
  <2>6. \A q \in PairRow : LivePair(q)' => LivePair(q)
    BY <1>0, <2>0, <2>1, <2>2 DEF LivePair
  <2> QED
    BY <1>3, <2>3, <2>4, <2>5, <2>6
<1>7. CASE Disconnect(c)
  <2>0. /\ conn' = [conn EXCEPT ![c] = Idle] /\ UNCHANGED mutex
        /\ peers' = peers \/ peers' = [peers EXCEPT ![conn[c].pair.account] = NoPeer]
    BY <1>7 DEF Disconnect
  <2>1. NoPeer \in PeerRow /\ NoPeer.closed
    BY DEF NoPeer, PeerRow
  <2>2. \A x \in AccountIds : peers'[x] = peers[x] \/ peers'[x] = NoPeer
    BY <1>0, <2>0
  <2>3. peers' \in [AccountIds -> PeerRow] /\ conn' \in [Conns -> {Idle} \cup ConnRow]
    BY <1>0, <2>0, <2>1
  <2>4. LiveTypes'
    BY <1>0, <2>0, <2>3 DEF LiveTypes
  <2>5. MutexHeld'
    BY <1>0, <2>0 DEF MutexHeld, Idle
  <2>6. PeersOwn'
    BY <1>0, <2>1, <2>2 DEF PeersOwn
  <2>7. \A q \in PairRow : LivePair(q)' => LivePair(q)
    BY <1>0, <2>0, <2>1, <2>2 DEF LivePair, Idle
  <2> QED
    BY <1>3, <2>4, <2>5, <2>6, <2>7
<1> QED
  BY <1>4, <1>5, <1>6, <1>7

(* A decision is taken, lifted or ends: none is delivered before it is      *)
(* taken, and an end bars nothing.                                          *)
LEMMA DecisionsKept ==
  ASSUME TokensInv, ModerationInv, UNCHANGED <<accounts, devs, liveVars>>,
         \/ \E i \in SanctionIds : Lift(i) \/ \E a \in AccountIds : Apply(i, a)
         \/ \E i \in FreezeIds :
              \/ ExpireFreezes(i)
              \/ \E a \in AccountIds : FreezeAccount(i, a)
              \/ \E decision \in {"dismissed", "timed", "permanent"} : decideFreeze(i, decision)
  PROVE  ModerationInv'
<1> USE DEF liveVars
<1>0. /\ sanctions \in [SanctionIds -> SanctionRow] /\ freezes \in [FreezeIds -> FreezeRow]
      /\ Covered /\ DecidedFirst /\ NoneBarred /\ accounts \subseteq AccountIds
      /\ devs \subseteq AccountIds \X Devices
  BY DEF ModerationInv, ModerationTypes, TokensInv, CredentialTypes
<1>1. LiveTypes' /\ MutexHeld' /\ PeersOwn' /\ \A p : LivePair(p)' <=> LivePair(p)
  BY DEF ModerationInv, LiveTypes, MutexHeld, PeersOwn, LivePair
<1>2. ASSUME NEW i \in SanctionIds, NEW row \in SanctionRow, sanctions' = [sanctions EXCEPT ![i] = row],
             UNCHANGED freezes, row.state # "none",
             row.state = "active" =>
               /\ row.account \in accounts /\ row.outcome = "none" /\ sanctions[i].state = "none"
               /\ \A d \in Devices : <<row.account, d>> \in devs => d \in row.devices
      PROVE  ModerationInv'
  <2>1. \A j \in SanctionIds : sanctions'[j] = IF j = i THEN row ELSE sanctions[j]
    BY <1>0, <1>2
  <2>2. ModerationTypes' /\ Covered'
    BY <1>0, <1>2, <2>1 DEF ModerationTypes, Covered
  <2>3. DecidedFirst'
    BY <1>0, <1>2, <2>1 DEF DecidedFirst
  <2>4. ASSUME NEW p \in PairRow, Barred(p)' PROVE Barred(p)
    BY <1>0, <1>2, <2>1, <2>4 DEF Barred, SanctionDelivered, FreezeDelivered, FreezeStands,
       ActiveForBinding, DecidedFirst
  <2> QED
    BY <1>0, <1>1, <2>2, <2>3, <2>4 DEF NoneBarred, ModerationInv
<1>3. ASSUME NEW i \in SanctionIds, Lift(i) PROVE ModerationInv'
  <2> DEFINE row == [sanctions[i] EXCEPT !.state = "over"]
  <2>1. row \in SanctionRow /\ row.state = "over"
    BY <1>0 DEF SanctionRow
  <2>2. sanctions' = [sanctions EXCEPT ![i] = row] /\ UNCHANGED freezes
    BY <1>3 DEF Lift
  <2> HIDE DEF row
  <2> QED
    BY <1>2, <2>1, <2>2
<1>4. ASSUME NEW i \in SanctionIds, NEW a \in AccountIds, Apply(i, a) PROVE ModerationInv'
  <2> DEFINE row == [NoSanction EXCEPT !.state = "active", !.account = a,
                                       !.devices = {d \in Devices : <<a, d>> \in devs}]
  <2>1. /\ row \in SanctionRow /\ row.state = "active" /\ row.account = a /\ row.outcome = "none"
        /\ row.devices = {d \in Devices : <<a, d>> \in devs}
    BY DEF SanctionRow, NoSanction, SomeAccount
  <2>2. /\ sanctions' = [sanctions EXCEPT ![i] = row] /\ UNCHANGED freezes
        /\ sanctions[i].state = "none" /\ a \in accounts
    BY <1>4 DEF Apply
  <2> HIDE DEF row
  <2> QED
    BY <1>2, <2>1, <2>2
<1>5. ASSUME NEW i \in FreezeIds, NEW row \in FreezeRow, freezes' = [freezes EXCEPT ![i] = row],
             UNCHANGED sanctions, row.state # "none", row.target \in AccountIds,
             \/ row.state \in {"timed", "permanent"} /\ freezes[i].state \notin {"timed", "permanent"}
                  /\ row.delivery = "none"
             \/ row.state \in {"timed", "permanent"} /\ freezes[i].state \in {"timed", "permanent"}
                  /\ row.over
             \/ row.state \notin {"timed", "permanent"} /\ freezes[i].state \notin {"timed", "permanent"}
                  /\ row.delivery = "none"
      PROVE  ModerationInv'
  <2>1. \A j \in FreezeIds : freezes'[j] = IF j = i THEN row ELSE freezes[j]
    BY <1>0, <1>5
  <2>2. ModerationTypes' /\ Covered'
    BY <1>0, <1>5 DEF ModerationTypes, Covered
  <2>3. DecidedFirst'
    BY <1>0, <1>5, <2>1 DEF DecidedFirst
  <2>4. ASSUME NEW p \in PairRow, Barred(p)' PROVE Barred(p)
    <3>1. CASE \E j \in SanctionIds : SanctionDelivered(j)' /\ ActiveForBinding(j, p)'
      BY <1>5, <3>1 DEF Barred, SanctionDelivered, ActiveForBinding
    <3>2. ASSUME NEW j \in FreezeIds, FreezeDelivered(j)', FreezeStands(j)', freezes'[j].target = p.account
          PROVE  j # i
      BY <1>0, <1>5, <2>1, <3>2 DEF FreezeDelivered, FreezeStands, DecidedFirst
    <3>3. ASSUME NEW j \in FreezeIds, FreezeDelivered(j)', FreezeStands(j)', freezes'[j].target = p.account
          PROVE  Barred(p)
      BY <2>1, <3>2, <3>3 DEF Barred, FreezeDelivered, FreezeStands
    <3> QED
      BY <2>4, <3>1, <3>3 DEF Barred
  <2> QED
    BY <1>0, <1>1, <2>2, <2>3, <2>4 DEF NoneBarred, ModerationInv
<1>6. ASSUME NEW i \in FreezeIds, NEW a \in AccountIds, FreezeAccount(i, a) PROVE ModerationInv'
  <2> DEFINE row == [NoFreeze EXCEPT !.state = "frozen", !.target = a]
  <2>1. row \in FreezeRow /\ row.state = "frozen" /\ row.target = a /\ row.delivery = "none"
    BY DEF FreezeRow, NoFreeze, SomeAccount
  <2>2. freezes' = [freezes EXCEPT ![i] = row] /\ UNCHANGED sanctions /\ freezes[i].state = "none"
    BY <1>6 DEF FreezeAccount
  <2> HIDE DEF row
  <2> QED
    BY <1>5, <2>1, <2>2
<1>7. ASSUME NEW i \in FreezeIds, NEW decision \in {"dismissed", "timed", "permanent"}, decideFreeze(i, decision)
      PROVE  ModerationInv'
  <2> DEFINE row == [freezes[i] EXCEPT !.state = decision]
  <2>1. /\ row \in FreezeRow /\ row.state = decision /\ row.target = freezes[i].target
        /\ row.delivery = freezes[i].delivery
    BY <1>0 DEF FreezeRow
  <2>2. freezes' = [freezes EXCEPT ![i] = row] /\ UNCHANGED sanctions /\ freezes[i].state = "frozen"
    BY <1>7 DEF decideFreeze
  <2>3. freezes[i].delivery = "none" /\ freezes[i].target \in AccountIds
    BY <1>0, <2>2 DEF DecidedFirst
  <2> HIDE DEF row
  <2> QED
    BY <1>5, <2>1, <2>2, <2>3
<1>8. ASSUME NEW i \in FreezeIds, ExpireFreezes(i) PROVE ModerationInv'
  <2>1. CASE freezes[i].state = "frozen" /\ freezes' = [freezes EXCEPT ![i].state = "expired"]
    <3> DEFINE row == [freezes[i] EXCEPT !.state = "expired"]
    <3>1. /\ row \in FreezeRow /\ row.state = "expired" /\ row.target = freezes[i].target
          /\ row.delivery = freezes[i].delivery
      BY <1>0 DEF FreezeRow
    <3>2. freezes' = [freezes EXCEPT ![i] = row] /\ UNCHANGED sanctions
      BY <1>8, <2>1 DEF ExpireFreezes
    <3>3. freezes[i].delivery = "none" /\ freezes[i].target \in AccountIds
      BY <1>0, <2>1 DEF DecidedFirst
    <3> HIDE DEF row
    <3> QED
      BY <1>5, <2>1, <3>1, <3>2, <3>3
  <2>2. CASE freezes[i].state = "timed" /\ freezes' = [freezes EXCEPT ![i].over = TRUE]
    <3> DEFINE row == [freezes[i] EXCEPT !.over = TRUE]
    <3>1. row \in FreezeRow /\ row.state = freezes[i].state /\ row.target = freezes[i].target /\ row.over
      BY <1>0 DEF FreezeRow
    <3>2. freezes' = [freezes EXCEPT ![i] = row] /\ UNCHANGED sanctions
      BY <1>8, <2>2 DEF ExpireFreezes
    <3>3. freezes[i].target \in AccountIds
      BY <1>0, <2>2 DEF DecidedFirst
    <3> HIDE DEF row
    <3> QED
      BY <1>5, <2>2, <3>1, <3>2, <3>3
  <2> QED
    BY <1>8, <2>1, <2>2 DEF ExpireFreezes
<1> QED
  BY <1>3, <1>4, <1>6, <1>7, <1>8

(* Peers that are enforced, kept closed or left alone.                      *)
LEMMA PeersClosed ==
  ASSUME peers \in [AccountIds -> PeerRow], PeersOwn, NEW who,
         peers' = Enforced(who) \/ peers' = Stuck(who)
  PROVE  /\ peers' \in [AccountIds -> PeerRow] /\ PeersOwn'
         /\ \A a \in AccountIds : peers'[a].closed \/ peers'[a] = peers[a]
         /\ \A a \in who \cap AccountIds : peers'[a].closed
<1>1. NoPeer \in PeerRow /\ NoPeer.closed
  BY DEF NoPeer, PeerRow
<1>2. \A a \in AccountIds : /\ [peers[a] EXCEPT !.closed = TRUE] \in PeerRow
                            /\ [peers[a] EXCEPT !.closed = TRUE].closed
  BY DEF PeerRow
<1>3. CASE peers' = Enforced(who)
  BY <1>1, <1>3 DEF Enforced, PeersOwn
<1>4. CASE peers' = Stuck(who)
  BY <1>2, <1>4 DEF Stuck, PeersOwn
<1> QED
  BY <1>3, <1>4

(* Deliveries act on the peers under the mutex, when no connection is       *)
(* between its validation and its registration.                             *)
LEMMA DeliveriesKept ==
  ASSUME TokensInv, ModerationInv, UNCHANGED <<accounts, devs>>,
         \/ \E w \in Deliverers :
              \/ \E i \in SanctionIds : EnforceSanction(w, i)
              \/ \E i \in FreezeIds : dispatchGuardDecision(w, i)
              \/ CompleteDelivery(w) \/ EnforceAccount(w) \/ recordDelivery(w)
         \/ Restart
  PROVE  ModerationInv'
<1> USE DEF accountVars, tokenVars, moderationVars
<1>0. /\ sanctions \in [SanctionIds -> SanctionRow] /\ freezes \in [FreezeIds -> FreezeRow]
      /\ conn \in [Conns -> {Idle} \cup ConnRow] /\ peers \in [AccountIds -> PeerRow]
      /\ mutex \in Conns \cup {NoConn}
      /\ delivery \in [Deliverers -> {Idle} \cup SanctionTask \cup FreezeTask]
      /\ Covered /\ DecidedFirst /\ MutexHeld /\ PeersOwn /\ NoneBarred
  BY DEF ModerationInv, ModerationTypes, LiveTypes
<1>1. ASSUME mutex = NoConn PROVE \A c \in Conns : conn[c].pc # "register"
  BY <1>0, <1>1, EnforcementAssumption DEF MutexHeld, NoConn
<1>2. ASSUME NEW a \in AccountIds, ~peers[a].closed
      PROVE  peers[a].pair \in PairRow /\ peers[a].pair.account = a /\ peers[a].conn # NoConn
  <2>1. peers[a] \in PeerRow /\ peers[a].pair.account = a /\ peers[a].conn # NoConn
    BY <1>0, <1>2 DEF PeersOwn
  <2>2. peers[a].pair # NoPeer.pair
    BY <2>1, AccountsAssumption DEF NoPeer, Pair
  <2> QED
    BY <2>1, <2>2 DEF PeerRow
<1>3. ASSUME NEW w \in Deliverers, NEW task \in {Idle} \cup SanctionTask \cup FreezeTask,
             delivery' = [delivery EXCEPT ![w] = task],
             UNCHANGED <<sanctions, freezes, conn, mutex>>,
             peers' \in [AccountIds -> PeerRow], PeersOwn',
             \A a \in AccountIds : peers'[a].closed \/ peers'[a] = peers[a],
             task.pc = "sanction" => sanctions[task.id].state # "none",
             task.pc \in {"enforce", "delivered", "obsolete"} => freezes[task.id].state \in {"timed", "permanent"},
             \A p \in PairRow : LivePair(p)' =>
                 /\ task.pc = "sanction" => ~ActiveForBinding(task.id, p)
                 /\ task.pc = "delivered" /\ FreezeStands(task.id) => freezes[task.id].target # p.account
      PROVE  ModerationInv'
  <2>1. \A v \in Deliverers : delivery'[v] = IF v = w THEN task ELSE delivery[v]
    BY <1>0, <1>3
  <2>2. ModerationTypes' /\ LiveTypes' /\ Covered' /\ MutexHeld'
    BY <1>0, <1>3 DEF ModerationTypes, LiveTypes, Covered, MutexHeld
  <2>3. DecidedFirst'
    BY <1>0, <1>3, <2>1 DEF DecidedFirst
  <2>4. ASSUME NEW p \in PairRow, LivePair(p)' PROVE LivePair(p)
    BY <1>3, <2>4 DEF LivePair
  <2>5. ASSUME NEW p \in PairRow, LivePair(p)', Barred(p)' PROVE FALSE
    <3>0. ~Barred(p)
      BY <1>0, <2>4, <2>5 DEF NoneBarred
    <3>1. ASSUME NEW i \in SanctionIds, SanctionDelivered(i)', ActiveForBinding(i, p)' PROVE FALSE
      <4>1. ActiveForBinding(i, p) /\ ~SanctionDelivered(i)
        BY <1>3, <3>0, <3>1 DEF ActiveForBinding, Barred
      <4>2. task.pc = "sanction" /\ task.id = i
        BY <1>3, <2>1, <3>1, <4>1 DEF SanctionDelivered
      <4> QED
        BY <1>3, <2>5, <4>1, <4>2
    <3>2. ASSUME NEW i \in FreezeIds, FreezeDelivered(i)', FreezeStands(i)', freezes'[i].target = p.account
          PROVE  FALSE
      <4>1. FreezeStands(i) /\ freezes[i].target = p.account /\ ~FreezeDelivered(i)
        BY <1>3, <3>0, <3>2 DEF FreezeStands, Barred
      <4>2. task.pc = "delivered" /\ task.id = i
        BY <1>3, <2>1, <3>2, <4>1 DEF FreezeDelivered
      <4> QED
        BY <1>3, <2>5, <4>1, <4>2
    <3> QED
      BY <2>5, <3>1, <3>2 DEF Barred
  <2> QED
    BY <1>3, <2>2, <2>3, <2>5 DEF NoneBarred, ModerationInv
<1>4. ASSUME NEW w \in Deliverers, NEW i \in SanctionIds, EnforceSanction(w, i) PROVE ModerationInv'
  <2> DEFINE hit == {a \in AccountIds : peers[a].conn # NoConn /\ ActiveForBinding(i, peers[a].pair)}
             task == [pc |-> "sanction", id |-> i]
  <2>0. /\ sanctions[i].state # "none" /\ mutex = NoConn /\ delivery[w].pc = "idle"
        /\ UNCHANGED <<sanctions, freezes, conn, mutex>>
    BY <1>4 DEF EnforceSanction
  <2>1. CASE peers' = Enforced(hit) /\ delivery' = [delivery EXCEPT ![w] = task]
    <3>1. /\ peers' \in [AccountIds -> PeerRow] /\ PeersOwn'
          /\ \A a \in AccountIds : peers'[a].closed \/ peers'[a] = peers[a]
          /\ \A a \in hit \cap AccountIds : peers'[a].closed
      BY <1>0, <2>1, PeersClosed
    <3>2. ASSUME NEW p \in PairRow, LivePair(p)' PROVE ~ActiveForBinding(i, p)
      BY <1>1, <1>2, <2>0, <3>1, <3>2 DEF LivePair
    <3>3. task \in SanctionTask /\ task.pc = "sanction" /\ task.id = i
      BY DEF SanctionTask
    <3> HIDE DEF task, hit
    <3>4. delivery' = [delivery EXCEPT ![w] = task]
      BY <2>1
    <3> QED
      BY <1>3, <2>0, <3>1, <3>2, <3>3, <3>4
  <2>2. ASSUME NEW stuck, peers' = Stuck(stuck), UNCHANGED delivery PROVE ModerationInv'
    <3>1. /\ peers' \in [AccountIds -> PeerRow] /\ PeersOwn'
          /\ \A a \in AccountIds : peers'[a].closed \/ peers'[a] = peers[a]
      BY <1>0, <2>2, PeersClosed
    <3>2. delivery[w] = Idle /\ Idle.pc = "idle"
      BY <1>0, <2>0 DEF Idle, SanctionTask, FreezeTask
    <3>3. delivery' = [delivery EXCEPT ![w] = Idle]
      BY <1>0, <2>2, <3>2
    <3> QED
      BY <1>3, <2>0, <3>1, <3>2, <3>3
  <2> QED
    BY <1>4, <2>1, <2>2 DEF EnforceSanction
<1>5. ASSUME NEW w \in Deliverers, NEW i \in FreezeIds, dispatchGuardDecision(w, i) PROVE ModerationInv'
  <2>1. PICK pc \in {"obsolete", "enforce"} : delivery' = [delivery EXCEPT ![w] = [pc |-> pc, id |-> i]]
    BY <1>5 DEF dispatchGuardDecision
  <2>2. freezes[i].state \in {"timed", "permanent"} /\ UNCHANGED <<sanctions, freezes, conn, mutex, peers>>
    BY <1>5 DEF dispatchGuardDecision
  <2> DEFINE task == [pc |-> pc, id |-> i]
  <2>3. task \in FreezeTask /\ task.pc \in {"obsolete", "enforce"} /\ task.id = i
    BY DEF FreezeTask
  <2>4. PeersOwn'
    BY <1>0, <2>2 DEF PeersOwn
  <2>5. delivery' = [delivery EXCEPT ![w] = task]
    BY <2>1
  <2> HIDE DEF task
  <2> QED
    BY <1>0, <1>3, <2>2, <2>3, <2>4, <2>5
<1>6. ASSUME NEW w \in Deliverers, EnforceAccount(w) PROVE ModerationInv'
  <2> DEFINE i == delivery[w].id
             a == freezes[i].target
             hit == IF stillEnforced(a) /\ peers[a].conn # NoConn THEN {a} ELSE {}
  <2>0. /\ delivery[w] \in FreezeTask /\ i \in FreezeIds /\ mutex = NoConn
        /\ UNCHANGED <<sanctions, freezes, conn, mutex>>
    <3>1. /\ delivery[w].pc = "enforce" /\ mutex = NoConn
          /\ UNCHANGED <<sanctions, freezes, conn, mutex>>
      BY <1>6 DEF EnforceAccount
    <3>2. delivery[w] \in FreezeTask
      BY <1>0, <3>1 DEF FreezeTask, SanctionTask, Idle
    <3> QED
      BY <3>1, <3>2 DEF FreezeTask
  <2>1. freezes[i].state \in {"timed", "permanent"} /\ a \in AccountIds
    BY <1>0, <1>6, <2>0 DEF EnforceAccount, DecidedFirst
  <2>2. CASE peers' = Enforced(hit) /\ delivery' = [delivery EXCEPT ![w].pc = "delivered"]
    <3> DEFINE task == [delivery[w] EXCEPT !.pc = "delivered"]
    <3>1. /\ peers' \in [AccountIds -> PeerRow] /\ PeersOwn'
          /\ \A x \in AccountIds : peers'[x].closed \/ peers'[x] = peers[x]
          /\ \A x \in hit \cap AccountIds : peers'[x].closed
      BY <1>0, <2>2, PeersClosed
    <3>2. FreezeStands(i) => stillEnforced(a)
      BY <2>0 DEF FreezeStands, stillEnforced, banned, suspended
    <3>3. ASSUME NEW p \in PairRow, LivePair(p)', FreezeStands(i) PROVE a # p.account
      <4>1. peers'[a].closed
        BY <1>2, <2>1, <3>1, <3>2, <3>3
      <4> QED
        BY <1>1, <1>2, <2>0, <3>1, <3>3, <4>1 DEF LivePair
    <3>4. task \in FreezeTask /\ task.pc = "delivered" /\ task.id = i
      BY <2>0 DEF FreezeTask
    <3>5. delivery' = [delivery EXCEPT ![w] = task]
      BY <2>2
    <3> HIDE DEF task, hit
    <3> QED
      BY <1>3, <2>0, <2>1, <3>1, <3>3, <3>4, <3>5
  <2>3. CASE peers' = Stuck(hit) /\ delivery' = [delivery EXCEPT ![w] = Idle]
    <3>1. /\ peers' \in [AccountIds -> PeerRow] /\ PeersOwn'
          /\ \A x \in AccountIds : peers'[x].closed \/ peers'[x] = peers[x]
      BY <1>0, <2>3, PeersClosed
    <3>2. Idle.pc = "idle"
      BY DEF Idle
    <3> QED
      BY <1>3, <2>0, <2>3, <3>1, <3>2
  <2> QED
    BY <1>6, <2>2, <2>3 DEF EnforceAccount
<1>7. ASSUME NEW w \in Deliverers, delivery' = [delivery EXCEPT ![w] = Idle], UNCHANGED <<conn, peers, mutex>>,
             \/ UNCHANGED <<sanctions, freezes>>
             \/ /\ UNCHANGED freezes
                /\ delivery[w].pc = "sanction" /\ delivery[w].id \in SanctionIds
                /\ \E out \in {"applied", "obsolete"} :
                     sanctions' = [sanctions EXCEPT ![delivery[w].id] = [@ EXCEPT !.outcome = out]]
             \/ /\ UNCHANGED sanctions
                /\ delivery[w].pc \in {"delivered", "obsolete"} /\ delivery[w].id \in FreezeIds
                /\ freezes' = [freezes EXCEPT ![delivery[w].id] = [@ EXCEPT !.delivery = delivery[w].pc]]
      PROVE  ModerationInv'
  <2>0. Idle.pc = "idle" /\ \A v \in Deliverers : delivery'[v] = IF v = w THEN Idle ELSE delivery[v]
    BY <1>0, <1>7 DEF Idle
  <2>1. LiveTypes' /\ MutexHeld' /\ PeersOwn' /\ \A p : LivePair(p)' => LivePair(p)
    BY <1>0, <1>7 DEF LiveTypes, MutexHeld, PeersOwn, LivePair
  <2>2. /\ sanctions' \in [SanctionIds -> SanctionRow]
        /\ \A j \in SanctionIds :
             /\ sanctions'[j].state = sanctions[j].state /\ sanctions'[j].account = sanctions[j].account
             /\ sanctions'[j].devices = sanctions[j].devices
             /\ \/ sanctions'[j].outcome = sanctions[j].outcome
                \/ delivery[w].pc = "sanction" /\ delivery[w].id = j
    <3>1. CASE UNCHANGED sanctions
      BY <1>0, <3>1
    <3>2. ASSUME NEW out \in {"applied", "obsolete"}, delivery[w].pc = "sanction", delivery[w].id \in SanctionIds,
                 sanctions' = [sanctions EXCEPT ![delivery[w].id] = [@ EXCEPT !.outcome = out]]
          PROVE  /\ sanctions' \in [SanctionIds -> SanctionRow]
                 /\ \A j \in SanctionIds :
                      /\ sanctions'[j].state = sanctions[j].state /\ sanctions'[j].account = sanctions[j].account
                      /\ sanctions'[j].devices = sanctions[j].devices
                      /\ sanctions'[j].outcome = sanctions[j].outcome \/ delivery[w].id = j
      BY <1>0, <3>2 DEF SanctionRow
    <3> QED
      BY <1>7, <3>1, <3>2
  <2>3. /\ freezes' \in [FreezeIds -> FreezeRow]
        /\ \A j \in FreezeIds :
             /\ freezes'[j].state = freezes[j].state /\ freezes'[j].target = freezes[j].target
             /\ freezes'[j].over = freezes[j].over
             /\ \/ freezes'[j].delivery = freezes[j].delivery
                \/ /\ delivery[w].pc \in {"delivered", "obsolete"} /\ delivery[w].id = j
                   /\ freezes'[j].delivery = delivery[w].pc
    <3>1. CASE UNCHANGED freezes
      BY <1>0, <3>1
    <3>2. CASE /\ delivery[w].pc \in {"delivered", "obsolete"} /\ delivery[w].id \in FreezeIds
               /\ freezes' = [freezes EXCEPT ![delivery[w].id] = [@ EXCEPT !.delivery = delivery[w].pc]]
      BY <1>0, <3>2 DEF FreezeRow
    <3> QED
      BY <1>7, <3>1, <3>2
  <2>4. ModerationTypes' /\ Covered'
    BY <1>0, <2>2, <2>3 DEF ModerationTypes, Covered
  <2>5. DecidedFirst'
    BY <1>0, <2>0, <2>2, <2>3 DEF DecidedFirst
  <2>6. \A j \in SanctionIds : SanctionDelivered(j)' => SanctionDelivered(j)
    BY <2>0, <2>2 DEF SanctionDelivered
  <2>7. \A j \in FreezeIds : FreezeDelivered(j)' => FreezeDelivered(j)
    BY <2>0, <2>3 DEF FreezeDelivered
  <2>8. \A p : Barred(p)' => Barred(p)
    BY <2>2, <2>3, <2>6, <2>7 DEF Barred, ActiveForBinding, FreezeStands
  <2> QED
    BY <1>0, <2>1, <2>4, <2>5, <2>8 DEF NoneBarred, ModerationInv
<1>8. ASSUME NEW w \in Deliverers, CompleteDelivery(w) PROVE ModerationInv'
  <2>1. delivery[w] \in SanctionTask /\ delivery[w].id \in SanctionIds /\ delivery[w].pc = "sanction"
    BY <1>0, <1>8 DEF CompleteDelivery, FreezeTask, SanctionTask, Idle
  <2>2. /\ delivery' = [delivery EXCEPT ![w] = Idle] /\ UNCHANGED <<conn, peers, mutex, freezes>>
        /\ \/ UNCHANGED sanctions
           \/ \E out \in {"applied", "obsolete"} :
                sanctions' = [sanctions EXCEPT ![delivery[w].id] = [@ EXCEPT !.outcome = out]]
    BY <1>8 DEF CompleteDelivery
  <2> QED
    BY <1>7, <2>1, <2>2
<1>9. ASSUME NEW w \in Deliverers, recordDelivery(w) PROVE ModerationInv'
  <2>1. delivery[w] \in FreezeTask /\ delivery[w].id \in FreezeIds /\ delivery[w].pc \in {"delivered", "obsolete"}
    BY <1>0, <1>9 DEF recordDelivery, FreezeTask, SanctionTask, Idle
  <2>2. /\ delivery' = [delivery EXCEPT ![w] = Idle] /\ UNCHANGED <<conn, peers, mutex, sanctions>>
        /\ \/ UNCHANGED freezes
           \/ freezes' = [freezes EXCEPT ![delivery[w].id] = [@ EXCEPT !.delivery = delivery[w].pc]]
    BY <1>9 DEF recordDelivery
  <2> QED
    BY <1>7, <2>1, <2>2
<1>10. CASE Restart
  <2>0. /\ delivery' = [w \in Deliverers |-> Idle] /\ conn' = [c \in Conns |-> Idle]
        /\ peers' = [a \in AccountIds |-> NoPeer] /\ mutex' = NoConn /\ UNCHANGED <<sanctions, freezes>>
    BY <1>10 DEF Restart
  <2>1. NoPeer \in PeerRow /\ NoPeer.closed
    BY DEF NoPeer, PeerRow
  <2>2. ModerationTypes' /\ LiveTypes' /\ Covered'
    BY <1>0, <2>0, <2>1 DEF ModerationTypes, LiveTypes, Covered
  <2>3. DecidedFirst'
    BY <1>0, <2>0 DEF DecidedFirst, Idle
  <2>4. MutexHeld' /\ PeersOwn' /\ NoneBarred'
    BY <2>0, <2>1 DEF MutexHeld, PeersOwn, NoneBarred, LivePair, Idle
  <2> QED
    BY <2>2, <2>3, <2>4 DEF ModerationInv
<1> QED
  BY <1>4, <1>5, <1>6, <1>8, <1>9, <1>10

(* Every step of an account keeps the invariant of moderation.              *)
LEMMA ModerationKept ==
  ASSUME TokensInv, ModerationInv, AccountStep
  PROVE  ModerationInv'
<1> USE DEF enforcementVars, accountVars, tokenVars, moderationVars, liveVars
<1>0. ASSUME UNCHANGED <<sanctions, accounts>>, devs' \subseteq devs PROVE Covered'
  BY <1>0 DEF ModerationInv, Covered
<1>1. CASE LiveKept
  BY <1>0, <1>1, ModerationFrame DEF LiveKept
<1>2. CASE EnforcementNext
  <2>1. CASE AccountsNext /\ UNCHANGED <<liveVars, browserVars>>
    BY <2>1, LinksCovered, ModerationFrame DEF ModerationInv
  <2>2. ASSUME NEW c \in Conns, \/ \E p \in pairs : hello(c, p)
                                \/ authenticate(c) \/ OpenAuthenticated(c) \/ Disconnect(c)
        PROVE  ModerationInv'
    <3>1. UNCHANGED <<accountVars, delivery>>
      BY <2>2 DEF hello, authenticate, OpenAuthenticated, Disconnect
    <3> QED
      BY <2>2, <3>1, ConnectionsKept
  <2>3. ASSUME NEW i \in SanctionIds, Lift(i) \/ \E a \in AccountIds : Apply(i, a) PROVE ModerationInv'
    <3>1. UNCHANGED <<accounts, devs, liveVars>>
      BY <2>3 DEF Lift, Apply
    <3> QED
      BY <2>3, <3>1, DecisionsKept
  <2>4. ASSUME NEW i \in FreezeIds,
               \/ ExpireFreezes(i)
               \/ \E a \in AccountIds : FreezeAccount(i, a)
               \/ \E decision \in {"dismissed", "timed", "permanent"} : decideFreeze(i, decision)
        PROVE  ModerationInv'
    <3>1. UNCHANGED <<accounts, devs, liveVars>>
      BY <2>4 DEF ExpireFreezes, FreezeAccount, decideFreeze
    <3> QED
      BY <2>4, <3>1, DecisionsKept
  <2>5. ASSUME NEW w \in Deliverers,
              \/ \E i \in SanctionIds : EnforceSanction(w, i)
              \/ \E i \in FreezeIds : dispatchGuardDecision(w, i)
              \/ CompleteDelivery(w) \/ EnforceAccount(w) \/ recordDelivery(w)
        PROVE  ModerationInv'
    <3>1. UNCHANGED <<accounts, devs>>
      BY <2>5 DEF EnforceSanction, dispatchGuardDecision, CompleteDelivery, EnforceAccount, recordDelivery
    <3> QED
      BY <2>5, <3>1, DeliveriesKept
  <2>6. CASE Restart
    <3>1. UNCHANGED <<accounts, devs>>
      BY <2>6 DEF Restart
    <3> QED
      BY <2>6, <3>1, DeliveriesKept
  <2>7. ASSUME NEW b, \/ loginForm(b) \/ readApproval(b) \/ loginContinue(b) \/ logoutPost(b)
                      \/ \E p \in pairs : ConnectHandler(b, p)
        PROVE  ModerationInv'
    <3>1. LiveKept
      BY <2>7 DEF LiveKept, loginForm, readApproval, loginContinue, logoutPost, ConnectHandler
    <3> QED
      BY <1>1, <3>1
  <2> QED
    BY <1>2, <2>1, <2>2, <2>3, <2>4, <2>5, <2>6, <2>7 DEF EnforcementNext
<1> QED
  BY <1>1, <1>2, ModerationSteps

-----------------------------------------------------------------------------
(* Authority to delete an account.                                          *)

CapRow == [row : BOOLEAN, cap : Nat, epoch : Nat, revoked : Nat]
IntentRow ==
    [kind : {"none", "enroll", "capability", "oauth"}, account : SomeAccount,
     state : {"none", "pending", "exchanging", "verified", "consumed"}, epoch : Nat, device : SomeDevice,
     cap : Nat, security : Nat, created : Nat, request : Requests \cup {NoRequestId}, stale : SUBSET AccountIds]
JobRow == [account : SomeAccount, bound : Seq(Requests)]
PublishRow == [pc : {"publish", "sync", "advance", "advanced"}, request : Requests]
BindRow == [pc : {"bind"}, request : Requests, receipt : Seq(Requests)]

DeletionTypes ==
    /\ clock \in Nat \ {0}
    /\ caps \in [AccountIds -> CapRow]
    /\ intents \in [Intents -> IntentRow]
    /\ jobs \in [Requests -> JobRow]
    /\ confirm \in [Callers -> {Idle} \cup PublishRow \cup BindRow]
    /\ journal \in [seen : Seq(Requests), kept : Seq(Requests)]

CapsOk ==
    \A a \in AccountIds : /\ caps[a].revoked < clock
                          /\ ~caps[a].row => caps[a].epoch = 1 /\ caps[a].cap = 0

(* An open intent that names its account has an authority that the account  *)
(* had; when it was withdrawn the generation has moved on.                  *)
Held(w, cap) ==
    /\ w.account \in AccountIds /\ cap[w.account].row /\ w.security <= cap[w.account].epoch
    /\ w.account \in w.stale => w.security < cap[w.account].epoch

(* One of a provider that is not yet verified meets every revocation later. *)
IntentOk(w, cap, now) ==
    /\ w.created < now
    /\ w.state = "exchanging" => w.kind = "oauth"
    /\ (w.kind = "capability" /\ w.state = "pending") \/ w.state = "verified" => Held(w, cap)
    /\ w.kind = "oauth" /\ w.state \in {"pending", "exchanging"} =>
         \A x \in w.stale : w.created < cap[x].revoked

(* A confirmed intent has erased its account for its request.               *)
ConfirmedOk(w, job, gone) ==
    w.request # NoRequestId =>
        /\ w.state = "consumed" /\ w.account \in AccountIds /\ w.account \in gone /\ w.account \notin w.stale
        /\ job[w.request].account = w.account

OneRequest ==
    \A i, j \in Intents :
        intents[i].request # NoRequestId /\ intents[j].request # NoRequestId
        /\ intents[i].account = intents[j].account => i = j

(* Whoever publishes or has bound a request has erased its account.         *)
ErasedFirst ==
    /\ \A c \in Callers : confirm[c].pc # "idle" => jobs[confirm[c].request].account \in erased
    /\ \A r \in Requests : jobs[r].bound # <<>> => jobs[r].account \in erased

DeletionInv ==
    /\ DeletionTypes /\ CapsOk /\ OneRequest /\ ErasedFirst
    /\ \A i \in Intents : IntentOk(intents[i], caps, clock) /\ ConfirmedOk(intents[i], jobs, erased)

(* The invariant is what the deletion of an account promises.               *)
LEMMA DeletionHolds == DeletionInv => DeletedByAuthority
BY DEF DeletionInv, DeletedByAuthority, OneRequest, ConfirmedOk

(* Nothing is asked in a first state.                                       *)
LEMMA DeletionStart == DeletionInit => DeletionInv
<1> SUFFICES ASSUME DeletionInit PROVE DeletionInv
  OBVIOUS
<1>1. /\ clock = 1 /\ caps = [a \in AccountIds |-> NoCap] /\ intents = [i \in Intents |-> NoIntent]
      /\ jobs = [r \in Requests |-> NoJob] /\ confirm = [c \in Callers |-> Idle]
      /\ journal = [seen |-> <<>>, kept |-> <<>>]
  BY DEF DeletionInit
<1>2. NoCap \in CapRow /\ NoIntent \in IntentRow
  BY DEF NoCap, CapRow, NoIntent, IntentRow, SomeAccount, SomeDevice
<1>3. NoJob \in JobRow /\ journal \in [seen : Seq(Requests), kept : Seq(Requests)]
  BY <1>1, EmptySeq DEF NoJob, JobRow, SomeAccount
<1>4. DeletionTypes
  BY <1>1, <1>2, <1>3 DEF DeletionTypes
<1>5. CapsOk /\ OneRequest /\ ErasedFirst
  BY <1>1 DEF CapsOk, OneRequest, ErasedFirst, NoCap, NoIntent, NoJob, Idle
<1>6. IntentOk(NoIntent, caps, clock) /\ ConfirmedOk(NoIntent, jobs, erased)
  BY <1>1 DEF IntentOk, ConfirmedOk, NoIntent
<1> QED
  BY <1>1, <1>4, <1>5, <1>6 DEF DeletionInv

(* Nobody is restored.                                                      *)
LEMMA ErasedGrows == ASSUME AccountStep PROVE erased \subseteq erased'
<1>1. CASE AccountsNext
  <2>1. UNCHANGED erased
    BY <1>1 DEF AccountsNext, bootstrapAccount, bootstrapInstallationTx, bootstrapAgain, Refresh,
       BindInstallation, BeginOAuth, CompleteOAuth, completeOAuthIdentity, failOAuth, OAuthResult,
       verifyOAuthCode, erasureVars
  <2> QED
    BY <2>1
<1>2. ASSUME NEW r, EraseBatch(r) PROVE erased \subseteq erased'
  BY <1>2 DEF EraseBatch
<1> QED
  BY <1>1, <1>2, CredentialSteps DEF CredentialsKept

(* The authority of every account only grows in such a step.                *)
CapsGrow ==
    \A a \in AccountIds :
        /\ caps[a].row => caps'[a].row
        /\ caps[a].epoch <= caps'[a].epoch /\ caps[a].revoked <= caps'[a].revoked

(* An intent that is left alone while other authorities move on.            *)
LEMMA IntentGrows ==
  ASSUME DeletionTypes, DeletionTypes', CapsGrow, clock <= clock', erased \subseteq erased',
         NEW w \in IntentRow, IntentOk(w, caps, clock), ConfirmedOk(w, jobs, erased),
         \A r \in Requests : jobs[r].account \in AccountIds => jobs'[r].account = jobs[r].account
  PROVE  IntentOk(w, caps', clock') /\ ConfirmedOk(w, jobs', erased')
<1>1. /\ clock \in Nat /\ clock' \in Nat /\ w.created \in Nat /\ w.security \in Nat
      /\ w.stale \subseteq AccountIds /\ w.request \in Requests \cup {NoRequestId}
      /\ \A a \in AccountIds : caps[a].epoch \in Nat /\ caps'[a].epoch \in Nat
                               /\ caps[a].revoked \in Nat /\ caps'[a].revoked \in Nat
  BY DEF DeletionTypes, IntentRow, CapRow
<1>2. Held(w, caps) => Held(w, caps')
  BY <1>1 DEF Held, CapsGrow
<1>3. (\A x \in w.stale : w.created < caps[x].revoked) => \A x \in w.stale : w.created < caps'[x].revoked
  BY <1>1 DEF CapsGrow
<1>4. w.created < clock'
  BY <1>1 DEF IntentOk
<1> QED
  BY <1>1, <1>2, <1>3, <1>4 DEF IntentOk, ConfirmedOk

(* Steps that leave deletion alone; accounts may be erased.                 *)
LEMMA DeletionFrame ==
  ASSUME DeletionInv, UNCHANGED <<clock, caps, intents>>, DeletionTypes', ErasedFirst',
         erased \subseteq erased',
         \A r \in Requests : jobs[r].account \in AccountIds => jobs'[r].account = jobs[r].account
  PROVE  DeletionInv'
<1>1. CapsGrow /\ clock <= clock'
  BY DEF DeletionInv, DeletionTypes, CapsGrow, CapRow
<1>2. CapsOk' /\ OneRequest'
  BY DEF DeletionInv, CapsOk, OneRequest
<1>3. ASSUME NEW i \in Intents PROVE (IntentOk(intents[i], caps, clock) /\ ConfirmedOk(intents[i], jobs, erased))'
  BY <1>1, IntentGrows DEF DeletionInv, DeletionTypes
<1> QED
  BY <1>2, <1>3 DEF DeletionInv

(* Steps that begin, advance or withdraw intents keep the invariant.        *)
LEMMA IntentsKept ==
  ASSUME TokensInv, EpochType, DeletionInv, UNCHANGED <<erased, jobs, confirm, journal>>,
         \/ \E i \in Intents :
              \/ \E p \in pairs : BeginEnrollment(i, p)
              \/ EnrollCapability(i) \/ BeginProviderIntent(i) \/ claimProviderIntent(i)
              \/ \E cap \in Intents : BeginCapabilityIntent(i, cap)
              \/ \E s \in Subjects : CompleteProviderIntent(i, s)
         \/ \E a \in AccountIds : SecurityRevoke(a)
  PROVE  DeletionInv'
<1> USE AccountsAssumption, DeletionAssumption
<1>0. /\ clock \in Nat \ {0} /\ caps \in [AccountIds -> CapRow] /\ intents \in [Intents -> IntentRow]
      /\ accounts \subseteq AccountIds /\ pairs \subseteq PairRow /\ links \in [Subjects -> SomeAccount]
      /\ DeletionTypes /\ CapsOk /\ OneRequest
      /\ \A i \in Intents : IntentOk(intents[i], caps, clock) /\ ConfirmedOk(intents[i], jobs, erased)
  BY DEF TokensInv, CredentialTypes, DeletionInv, DeletionTypes
<1>1. ErasedFirst'
  BY DEF DeletionInv, ErasedFirst
<1>2. ASSUME clock' \in Nat \ {0}, caps' \in [AccountIds -> CapRow], intents' \in [Intents -> IntentRow],
             CapsGrow, clock <= clock', CapsOk',
             \A i \in Intents :
                 \/ intents'[i] = intents[i]
                 \/ /\ IntentOk(intents'[i], caps', clock')
                    /\ intents'[i].request = NoRequestId
      PROVE  DeletionInv'
  <2>1. DeletionTypes'
    BY <1>0, <1>2 DEF DeletionTypes
  <2>2. \A i \in Intents : IntentOk(intents[i], caps', clock') /\ ConfirmedOk(intents[i], jobs', erased')
    BY <1>0, <1>2, <2>1, IntentGrows
  <2>3. \A i \in Intents : IntentOk(intents'[i], caps', clock') /\ ConfirmedOk(intents'[i], jobs', erased')
    BY <1>2, <2>2 DEF ConfirmedOk
  <2>4. OneRequest'
    BY <1>0, <1>2 DEF OneRequest
  <2> QED
    BY <1>1, <1>2, <2>1, <2>3, <2>4 DEF DeletionInv
<1>3. ASSUME NEW i \in Intents, NEW row \in IntentRow, intents' = [intents EXCEPT ![i] = row],
             row.request = NoRequestId, IntentOk(row, caps, clock'), UNCHANGED caps,
             clock' = clock \/ clock' = clock + 1
      PROVE  DeletionInv'
  <2>1. CapsGrow
    BY <1>0, <1>3 DEF CapsGrow, CapRow
  <2>2. clock' \in Nat \ {0} /\ clock <= clock'
    BY <1>0, <1>3
  <2>3. CapsOk'
    BY <1>0, <1>3 DEF CapsOk, CapRow
  <2>4. intents' \in [Intents -> IntentRow] /\ \A j \in Intents : intents'[j] = IF j = i THEN row ELSE intents[j]
    BY <1>0, <1>3
  <2> QED
    BY <1>0, <1>2, <1>3, <2>1, <2>2, <2>3, <2>4
<1>4. ASSUME NEW i \in Intents, NEW p \in pairs, BeginEnrollment(i, p) PROVE DeletionInv'
  <2> DEFINE row == [NoIntent EXCEPT !.kind = "enroll", !.account = p.account,
                     !.state = "pending", !.epoch = p.epoch, !.device = p.device, !.created = clock]
  <2>1. p \in PairRow
    BY <1>0
  <2>2. row \in IntentRow /\ row.request = NoRequestId
    BY <1>0, <2>1 DEF NoIntent, IntentRow, PairRow, SomeAccount, SomeDevice
  <2>3. IntentOk(row, caps, clock + 1)
    BY <1>0 DEF IntentOk, NoIntent
  <2>4. intents' = [intents EXCEPT ![i] = row] /\ clock' = clock + 1 /\ UNCHANGED caps
    BY <1>4 DEF BeginEnrollment
  <2> HIDE DEF row
  <2> QED
    BY <1>3, <2>2, <2>3, <2>4
<1>5. ASSUME NEW i \in Intents, BeginProviderIntent(i) PROVE DeletionInv'
  <2> DEFINE row == [NoIntent EXCEPT !.kind = "oauth", !.state = "pending", !.created = clock]
  <2>2. row \in IntentRow /\ row.request = NoRequestId
    BY <1>0 DEF NoIntent, IntentRow, SomeAccount, SomeDevice
  <2>3. IntentOk(row, caps, clock + 1)
    BY <1>0 DEF IntentOk, NoIntent
  <2>4. intents' = [intents EXCEPT ![i] = row] /\ clock' = clock + 1 /\ UNCHANGED caps
    BY <1>5 DEF BeginProviderIntent
  <2> HIDE DEF row
  <2> QED
    BY <1>3, <2>2, <2>3, <2>4
<1>6. ASSUME NEW i \in Intents, NEW cap \in Intents, BeginCapabilityIntent(i, cap) PROVE DeletionInv'
  <2>0. PICK a \in AccountIds \ erased :
          /\ caps[a].cap = cap
          /\ intents' = [intents EXCEPT ![i] = [NoIntent EXCEPT !.kind = "capability", !.account = a,
                !.state = "pending", !.cap = cap, !.security = caps[a].epoch, !.created = clock]]
    BY <1>6 DEF BeginCapabilityIntent
  <2> DEFINE row == [NoIntent EXCEPT !.kind = "capability", !.account = a,
                !.state = "pending", !.cap = cap, !.security = caps[a].epoch, !.created = clock]
  <2>1. caps[a] \in CapRow /\ cap \in Nat \ {0}
    BY <1>0
  <2>2. row \in IntentRow /\ row.request = NoRequestId /\ row.account = a /\ row.security = caps[a].epoch /\ row.stale = {}
    BY <1>0, <2>1 DEF NoIntent, IntentRow, CapRow, SomeAccount, SomeDevice
  <2>3. caps[a].row
    BY <1>0, <2>0, <2>1 DEF CapsOk
  <2>4. intents' = [intents EXCEPT ![i] = row] /\ clock' = clock + 1 /\ UNCHANGED caps
    BY <1>6, <2>0 DEF BeginCapabilityIntent
  <2>5. Held(row, caps)
    BY <2>1, <2>2, <2>3 DEF Held, CapRow
  <2>6. row.created = clock /\ row.kind = "capability" /\ row.state = "pending"
    BY DEF NoIntent
  <2> HIDE DEF row
  <2>7. IntentOk(row, caps, clock + 1)
    BY <1>0, <2>5, <2>6 DEF IntentOk
  <2> QED
    BY <1>3, <2>2, <2>4, <2>7
<1>7. ASSUME NEW i \in Intents, claimProviderIntent(i) PROVE DeletionInv'
  <2> DEFINE row == [intents[i] EXCEPT !.state = "exchanging"]
  <2>1. intents[i] \in IntentRow /\ intents[i].kind = "oauth" /\ intents[i].state = "pending"
    BY <1>0, <1>7 DEF claimProviderIntent
  <2>2. /\ row \in IntentRow /\ row.state = "exchanging" /\ row.kind = "oauth"
        /\ row.stale = intents[i].stale /\ row.created = intents[i].created /\ row.request = intents[i].request
    BY <2>1 DEF IntentRow
  <2>3. intents' = [intents EXCEPT ![i] = row] /\ UNCHANGED <<caps, clock>>
    BY <1>7 DEF claimProviderIntent
  <2> HIDE DEF row
  <2>4. row.request = NoRequestId
    BY <1>0, <2>1, <2>2 DEF ConfirmedOk
  <2>5. IntentOk(row, caps, clock)
    BY <1>0, <2>1, <2>2 DEF IntentOk
  <2> QED
    BY <1>3, <2>2, <2>3, <2>4, <2>5
<1>8. ASSUME NEW i \in Intents, NEW s \in Subjects, CompleteProviderIntent(i, s) PROVE DeletionInv'
  <2> DEFINE a == links[s]
             row == [intents[i] EXCEPT !.state = "verified", !.account = a, !.security = caps[a].epoch]
             cap == [caps[a] EXCEPT !.row = TRUE]
  <2>1. /\ intents[i] \in IntentRow /\ intents[i].state = "exchanging" /\ intents[i].kind = "oauth"
        /\ a \in AccountIds /\ caps[a].revoked < intents[i].created
    BY <1>0, <1>8 DEF CompleteProviderIntent, IntentOk, SomeAccount
  <2>2. /\ caps[a] \in CapRow /\ cap \in CapRow /\ cap.row /\ cap.epoch = caps[a].epoch /\ cap.revoked = caps[a].revoked
    BY <1>0, <2>1 DEF CapRow
  <2>3. /\ row \in IntentRow /\ row.state = "verified" /\ row.kind = "oauth" /\ row.account = a
        /\ row.security = caps[a].epoch /\ row.request = intents[i].request
        /\ row.stale = intents[i].stale /\ row.created = intents[i].created
    BY <2>1, <2>2 DEF IntentRow, CapRow, SomeAccount
  <2>4. intents' = [intents EXCEPT ![i] = row] /\ caps' = [caps EXCEPT ![a] = cap] /\ UNCHANGED clock
    BY <1>8 DEF CompleteProviderIntent
  <2> HIDE DEF row, cap, a
  <2>5. /\ \A x \in AccountIds : caps'[x] = IF x = a THEN cap ELSE caps[x]
        /\ \A j \in Intents : intents'[j] = IF j = i THEN row ELSE intents[j]
        /\ caps' \in [AccountIds -> CapRow] /\ intents' \in [Intents -> IntentRow]
    BY <1>0, <2>2, <2>3, <2>4
  <2>6. CapsGrow
    BY <1>0, <2>2, <2>5 DEF CapsGrow, CapRow
  <2>7. CapsOk'
    BY <1>0, <2>2, <2>4, <2>5 DEF CapsOk
  <2>8. row.request = NoRequestId
    BY <1>0, <2>1, <2>3 DEF ConfirmedOk
  <2>9. a \notin row.stale
    BY <1>0, <2>1, <2>2, <2>3 DEF IntentOk, IntentRow, CapRow
  <2>10. IntentOk(row, caps', clock')
    BY <1>0, <2>1, <2>2, <2>3, <2>4, <2>5, <2>9 DEF IntentOk, Held, CapRow
  <2>11. clock <= clock'
    BY <1>0, <2>4
  <2> QED
    BY <1>0, <1>2, <2>4, <2>5, <2>6, <2>7, <2>8, <2>10, <2>11
<1>9. ASSUME NEW i \in Intents, EnrollCapability(i) PROVE DeletionInv'
  <2> DEFINE a == intents[i].account
             next == IF caps[a].row THEN caps[a].epoch + 1 ELSE caps[a].epoch
             cap == [caps[a] EXCEPT !.row = TRUE, !.cap = i, !.epoch = next]
             row == [intents[i] EXCEPT !.state = "consumed"]
             Hit(j) == /\ intents[j].account = a /\ (intents[j].kind = "capability" \/ intents[j].state = "verified")
                       /\ intents[j].state \notin {"none", "consumed"}
             marked(j) == [intents[j] EXCEPT !.stale = @ \cup {a}]
  <2>1. /\ intents[i] \in IntentRow /\ intents[i].state = "pending" /\ intents[i].kind = "enroll" /\ a \in AccountIds
        /\ i \in Nat \ {0}
    BY <1>0, <1>9 DEF EnrollCapability, accountSession
  <2>2. /\ caps[a] \in CapRow /\ cap \in CapRow /\ cap.row /\ cap.revoked = caps[a].revoked
        /\ cap.epoch = next
    <3>1. caps[a] \in CapRow /\ next \in Nat
      BY <1>0, <2>1 DEF CapRow
    <3> HIDE DEF next, a
    <3> QED
      BY <2>1, <3>1 DEF CapRow
  <2>3. row \in IntentRow /\ row.state = "consumed" /\ row.request = intents[i].request /\ row.created = intents[i].created
    BY <2>1 DEF IntentRow
  <2>4. caps' = [caps EXCEPT ![a] = cap] /\ UNCHANGED clock
    BY <1>9 DEF EnrollCapability
  <2>5. \A j \in Intents : intents'[j] = IF j = i THEN row ELSE IF Hit(j) THEN marked(j) ELSE intents[j]
    BY <1>9 DEF EnrollCapability, Withdrawn
  <2>6. DOMAIN intents' = Intents /\ intents' = [j \in Intents |-> intents'[j]]
    BY <1>9 DEF EnrollCapability
  <2>7. ASSUME NEW j \in Intents
        PROVE  /\ marked(j) \in IntentRow /\ marked(j).stale = intents[j].stale \cup {a}
               /\ marked(j).account = intents[j].account /\ marked(j).kind = intents[j].kind
               /\ marked(j).state = intents[j].state /\ marked(j).request = intents[j].request
               /\ marked(j).security = intents[j].security /\ marked(j).created = intents[j].created
    <3>1. intents[j] \in IntentRow
      BY <1>0
    <3> QED
      BY <2>1, <3>1 DEF IntentRow
  <2> HIDE DEF cap, next, row, marked, a
  <2>8. /\ \A x \in AccountIds : caps'[x] = IF x = a THEN cap ELSE caps[x]
        /\ caps' \in [AccountIds -> CapRow]
    BY <1>0, <2>2, <2>4
  <2>9. intents' \in [Intents -> IntentRow]
    BY <1>0, <2>3, <2>5, <2>6, <2>7
  <2>10. CapsGrow
    BY <1>0, <2>2, <2>8 DEF CapsGrow, CapRow, next
  <2>11. CapsOk'
    BY <1>0, <2>2, <2>4, <2>8 DEF CapsOk, next
  <2>12. row.request = NoRequestId /\ IntentOk(row, caps', clock')
    BY <1>0, <2>1, <2>3, <2>4 DEF ConfirmedOk, IntentOk
  <2>13. ASSUME NEW j \in Intents, Hit(j), j # i
         PROVE  marked(j).request = NoRequestId /\ IntentOk(marked(j), caps', clock')
    <3>1. \/ Held(intents[j], caps) /\ intents[j].request = NoRequestId /\ intents[j].state # "exchanging"
          \/ intents[j].state = "exchanging"
      BY <1>0, <2>13 DEF IntentOk, ConfirmedOk, IntentRow
    <3>2. intents[j].state # "exchanging"
      BY <1>0, <2>13 DEF IntentOk
    <3>3. intents[j].security \in Nat
      BY <1>0 DEF IntentRow
    <3>4. Held(marked(j), caps')
      BY <2>2, <2>7, <2>8, <2>13, <3>1, <3>2, <3>3 DEF Held, CapRow, next
    <3>5. intents[j].state = "verified" \/ intents[j].kind = "capability"
      BY <2>13
    <3>6. intents[j].created < clock
      BY <1>0 DEF IntentOk
    <3> QED
      BY <2>4, <2>7, <3>1, <3>2, <3>4, <3>5, <3>6 DEF IntentOk
  <2>14. clock <= clock'
    BY <1>0, <2>4
  <2>15. ASSUME NEW j \in Intents
         PROVE  \/ intents'[j] = intents[j]
                \/ IntentOk(intents'[j], caps', clock') /\ intents'[j].request = NoRequestId
    BY <2>5, <2>12, <2>13
  <2> QED
    BY <1>0, <1>2, <2>4, <2>8, <2>9, <2>10, <2>11, <2>14, <2>15
<1>10. ASSUME NEW a \in AccountIds, SecurityRevoke(a) PROVE DeletionInv'
  <2> DEFINE cap == [row |-> TRUE, cap |-> 0, revoked |-> clock,
                     epoch |-> IF caps[a].row THEN caps[a].epoch + 1 ELSE 1]
             Hit(j) == intents[j].state \notin {"none", "consumed"}
             marked(j) == [intents[j] EXCEPT !.stale = @ \cup {a}]
  <2>1. /\ caps[a] \in CapRow /\ cap \in CapRow /\ cap.row /\ cap.revoked = clock
        /\ cap.epoch = IF caps[a].row THEN caps[a].epoch + 1 ELSE 1
    BY <1>0 DEF CapRow
  <2>2. caps' = [caps EXCEPT ![a] = cap] /\ clock' = clock + 1
    BY <1>10 DEF SecurityRevoke
  <2>3. \A j \in Intents : intents'[j] = IF Hit(j) THEN marked(j) ELSE intents[j]
    BY <1>10 DEF SecurityRevoke, Withdrawn
  <2>4. DOMAIN intents' = Intents /\ intents' = [j \in Intents |-> intents'[j]]
    BY <1>10 DEF SecurityRevoke, Withdrawn
  <2>5. ASSUME NEW j \in Intents
        PROVE  /\ marked(j) \in IntentRow /\ marked(j).stale = intents[j].stale \cup {a}
               /\ marked(j).account = intents[j].account /\ marked(j).kind = intents[j].kind
               /\ marked(j).state = intents[j].state /\ marked(j).request = intents[j].request
               /\ marked(j).security = intents[j].security /\ marked(j).created = intents[j].created
    <3>1. intents[j] \in IntentRow
      BY <1>0
    <3> QED
      BY <3>1 DEF IntentRow
  <2> HIDE DEF cap, marked
  <2>6. /\ \A x \in AccountIds : caps'[x] = IF x = a THEN cap ELSE caps[x]
        /\ caps' \in [AccountIds -> CapRow]
    BY <1>0, <2>1, <2>2
  <2>7. intents' \in [Intents -> IntentRow]
    BY <1>0, <2>3, <2>4, <2>5
  <2>8. CapsGrow
    BY <1>0, <2>1, <2>6 DEF CapsGrow, CapRow, CapsOk
  <2>9. CapsOk'
    BY <1>0, <2>1, <2>2, <2>6 DEF CapsOk, CapRow
  <2>10. ASSUME NEW j \in Intents, Hit(j)
         PROVE  marked(j).request = NoRequestId /\ IntentOk(marked(j), caps', clock')
    <3>1. intents[j].request = NoRequestId
      BY <1>0, <2>10 DEF ConfirmedOk
    <3>2. intents[j].security \in Nat /\ intents[j].created \in Nat /\ intents[j].created < clock
      BY <1>0 DEF IntentRow, IntentOk
    <3>3. ASSUME Held(intents[j], caps) PROVE Held(marked(j), caps')
      BY <1>0, <2>1, <2>5, <2>6, <3>2, <3>3 DEF Held, CapRow
    <3>4. ASSUME NEW x \in marked(j).stale, intents[j].kind = "oauth", intents[j].state \in {"pending", "exchanging"}
          PROVE  intents[j].created < caps'[x].revoked
      <4>1. CASE x = a
        BY <2>1, <2>6, <3>2, <4>1
      <4>2. CASE x # a
        <5>1. x \in intents[j].stale /\ x \in AccountIds
          BY <1>0, <2>5, <3>4, <4>2 DEF IntentRow
        <5>2. intents[j].created < caps[x].revoked
          BY <1>0, <3>4, <5>1 DEF IntentOk
        <5> QED
          BY <2>6, <4>2, <5>1, <5>2
      <4> QED
        BY <4>1, <4>2
    <3>5. marked(j).created < clock'
      <4>1. clock' = clock + 1 /\ clock \in Nat
        BY <1>0, <2>2
      <4>2. marked(j).created = intents[j].created
        BY <2>5
      <4> QED
        BY <3>2, <4>1, <4>2
    <3>6. IntentOk(intents[j], caps, clock)
      BY <1>0
    <3> QED
      BY <2>5, <3>1, <3>3, <3>4, <3>5, <3>6 DEF IntentOk
  <2>11. clock <= clock' /\ clock' \in Nat \ {0}
    BY <1>0, <2>2
  <2>12. ASSUME NEW j \in Intents
         PROVE  \/ intents'[j] = intents[j]
                \/ IntentOk(intents'[j], caps', clock') /\ intents'[j].request = NoRequestId
    BY <2>3, <2>10
  <2> QED
    BY <1>2, <2>6, <2>7, <2>8, <2>9, <2>11, <2>12
<1> QED
  BY <1>4, <1>5, <1>6, <1>7, <1>8, <1>9, <1>10

-----------------------------------------------------------------------------
(* Prefixes.                                                                *)

Records == Seq(Requests)
Distinct(s) == \A j, k \in 1..Len(s) : s[j] = s[k] => j = k

(* A prefix is told by its elements.                                        *)
LEMMA PrefixElements ==
  ASSUME NEW s \in Records, NEW t \in Records
  PROVE  IsPrefix(s, t) <=> Len(s) <= Len(t) /\ \A k \in 1..Len(s) : s[k] = t[k]
<1>1. Len(s) \in Nat /\ Len(t) \in Nat
  BY LenProperties DEF Records
<1>2. SubSeq(s, 1, Len(s)) \in Records /\ Len(SubSeq(s, 1, Len(s))) = Len(s)
      /\ \A k \in 1..Len(s) : SubSeq(s, 1, Len(s))[k] = s[k]
  <2>1. \A k \in 1..Len(s) : s[k] \in Requests
    BY ElementOfSeq DEF Records
  <2>2. SubSeq(s, 1, Len(s)) \in Records
    BY <1>1, <2>1, SubSeqProperties DEF Records
  <2>3. Len(SubSeq(s, 1, Len(s))) = Len(s)
    BY <1>1
  <2>4. \A k \in 1..Len(s) : SubSeq(s, 1, Len(s))[k] = s[k]
    BY <1>1
  <2> QED
    BY <2>2, <2>3, <2>4
<1>3. ASSUME Len(s) <= Len(t)
      PROVE  /\ SubSeq(t, 1, Len(s)) \in Records /\ Len(SubSeq(t, 1, Len(s))) = Len(s)
             /\ \A k \in 1..Len(s) : SubSeq(t, 1, Len(s))[k] = t[k]
  <2>1. \A k \in 1..Len(s) : t[k] \in Requests
    BY <1>1, <1>3, ElementOfSeq DEF Records
  <2>2. SubSeq(t, 1, Len(s)) \in Records
    BY <1>1, <2>1, SubSeqProperties DEF Records
  <2>3. Len(SubSeq(t, 1, Len(s))) = Len(s)
    BY <1>1, <1>3
  <2>4. \A k \in 1..Len(s) : SubSeq(t, 1, Len(s))[k] = t[k]
    BY <1>1, <1>3
  <2> QED
    BY <2>2, <2>3, <2>4
<1>4. ASSUME IsPrefix(s, t) PROVE Len(s) <= Len(t) /\ \A k \in 1..Len(s) : s[k] = t[k]
  BY <1>2, <1>3, <1>4 DEF IsPrefix
<1>5. ASSUME Len(s) <= Len(t), \A k \in 1..Len(s) : s[k] = t[k] PROVE IsPrefix(s, t)
  <2>1. SubSeq(s, 1, Len(s)) = SubSeq(t, 1, Len(s))
    BY <1>2, <1>3, <1>5, SeqEqual DEF Records
  <2> QED
    BY <1>5, <2>1 DEF IsPrefix
<1> QED
  BY <1>4, <1>5

(* Prefixes of prefixes, of themselves, and of what is appended to.         *)
LEMMA PrefixFacts ==
  ASSUME NEW s \in Records, NEW t \in Records, NEW u \in Records
  PROVE  /\ IsPrefix(s, s)
         /\ IsPrefix(s, t) /\ IsPrefix(t, u) => IsPrefix(s, u)
         /\ IsPrefix(s, t) /\ Distinct(t) => Distinct(s)
         /\ \A r \in Requests : Append(s, r) \in Records /\ IsPrefix(s, Append(s, r))
<1>1. Len(s) \in Nat /\ Len(t) \in Nat /\ Len(u) \in Nat
  BY LenProperties DEF Records
<1>2. IsPrefix(s, s)
  BY <1>1, PrefixElements
<1>3. ASSUME IsPrefix(s, t), IsPrefix(t, u) PROVE IsPrefix(s, u)
  <2>1. Len(s) <= Len(t) /\ Len(t) <= Len(u)
    BY <1>3, PrefixElements
  <2>2. \A k \in 1..Len(s) : s[k] = t[k] /\ k \in 1..Len(t)
    BY <1>1, <1>3, <2>1, PrefixElements
  <2>3. \A k \in 1..Len(t) : t[k] = u[k]
    BY <1>3, PrefixElements
  <2>4. Len(s) <= Len(u) /\ \A k \in 1..Len(s) : s[k] = u[k]
    BY <1>1, <2>1, <2>2, <2>3
  <2> QED
    BY <2>4, PrefixElements
<1>4. ASSUME IsPrefix(s, t), Distinct(t) PROVE Distinct(s)
  <2>1. Len(s) <= Len(t) /\ \A k \in 1..Len(s) : s[k] = t[k]
    BY <1>4, PrefixElements
  <2> QED
    BY <1>1, <1>4, <2>1 DEF Distinct
<1>5. ASSUME NEW r \in Requests PROVE Append(s, r) \in Records /\ IsPrefix(s, Append(s, r))
  <2>1. /\ Append(s, r) \in Records /\ Len(Append(s, r)) = Len(s) + 1
        /\ \A k \in 1..Len(s) : Append(s, r)[k] = s[k]
    BY AppendProperties DEF Records
  <2>2. Len(s) <= Len(Append(s, r))
    BY <1>1, <2>1
  <2> QED
    BY <2>1, <2>2, PrefixElements
<1> QED
  BY <1>2, <1>3, <1>4, <1>5

(* A record that is not in the journal yet is appended to it.               *)
LEMMA AppendDistinct ==
  ASSUME NEW s \in Records, NEW r \in Requests, Distinct(s), \A k \in 1..Len(s) : s[k] # r
  PROVE  Distinct(Append(s, r))
<1>1. /\ Len(s) \in Nat /\ Len(Append(s, r)) = Len(s) + 1
      /\ \A k \in 1..Len(s) : Append(s, r)[k] = s[k]
      /\ Append(s, r)[Len(s) + 1] = r
  BY AppendProperties, LenProperties DEF Records
<1>2. \A k \in 1..(Len(s) + 1) : k \in 1..Len(s) \/ k = Len(s) + 1
  BY <1>1
<1> QED
  BY <1>1, <1>2 DEF Distinct

(* The records up to one of them.                                           *)
LEMMA UpTo ==
  ASSUME NEW s \in Records, NEW n \in 1..Len(s)
  PROVE  /\ SubSeq(s, 1, n) \in Records /\ SubSeq(s, 1, n) # <<>>
         /\ IsPrefix(SubSeq(s, 1, n), s) /\ Last(SubSeq(s, 1, n)) = s[n]
<1> DEFINE p == SubSeq(s, 1, n)
<1>1. Len(s) \in Nat /\ n \in Nat /\ 1 <= n /\ n <= Len(s)
  BY LenProperties DEF Records
<1>2. \A k \in 1..n : s[k] \in Requests
  BY <1>1, ElementOfSeq DEF Records
<1>3. p \in Records
  BY <1>1, <1>2, SubSeqProperties DEF Records
<1>4. Len(p) = n /\ \A k \in 1..n : p[k] = s[k]
  BY <1>1, <1>2
<1> HIDE DEF p
<1>5. IsPrefix(p, s)
  BY <1>1, <1>3, <1>4, PrefixElements
<1>6. p # <<>>
  BY <1>1, <1>3, <1>4, EmptySeq
<1>7. Last(p) = s[n]
  BY <1>1, <1>4 DEF Last
<1> QED
  BY <1>3, <1>5, <1>6, <1>7 DEF p

(* A sequence without repetitions has as many elements as it is long.       *)
LEMMA DistinctCounts ==
  ASSUME NEW s \in Records, Distinct(s)
  PROVE  Cardinality({s[k] : k \in DOMAIN s}) = Len(s)
<1> DEFINE S == {s[k] : k \in DOMAIN s}
           n == Len(s)
<1>1. n \in Nat /\ DOMAIN s = 1..n /\ s \in [1..n -> Requests]
  BY LenProperties DEF Records
<1>2. s \in [1..n -> S] /\ \A j, k \in 1..n : s[j] = s[k] => j = k
  BY <1>1 DEF Distinct
<1>3. \A x \in S : \E k \in 1..n : s[k] = x
  BY <1>1
<1>4. s \in Bijection(1..n, S)
  BY <1>2, <1>3, Fun_IsBij
<1>5. ExistsBijection(1..n, S)
  BY <1>4 DEF ExistsBijection
<1> HIDE DEF S
<1> QED
  BY <1>1, <1>5, FS_CountingElements DEF S

-----------------------------------------------------------------------------
(* The journal of suppressions and its minimum.                             *)

Locked == {"sync", "advance", "advanced"}
Receipt(s, r) == IsPrefix(s, journal.kept) /\ s # <<>> /\ Last(s) = r

(* Each content is a prefix of the next: the minimum the disk keeps, the    *)
(* minimum, the journal the disk keeps, the journal.                        *)
FilesOrdered ==
    /\ minimum \in [seen : Records, kept : Records] /\ Distinct(journal.seen)
    /\ IsPrefix(minimum.kept, minimum.seen) /\ IsPrefix(minimum.seen, journal.kept)
    /\ IsPrefix(journal.kept, journal.seen)

(* Whoever writes holds the lock file and has its record in the journal;    *)
(* the minimum advances only when the disk keeps the journal as it is read. *)
WritersLocked ==
    \A c \in Callers :
        /\ confirm[c].pc \in Locked =>
             /\ flock = c
             /\ \E k \in 1..Len(journal.seen) : journal.seen[k] = confirm[c].request
        /\ confirm[c].pc \in {"advance", "advanced"} => journal.kept = journal.seen

ReceiptsKept ==
    /\ \A c \in Callers : confirm[c].pc = "bind" => Receipt(confirm[c].receipt, confirm[c].request)
    /\ \A r \in Requests : jobs[r].bound # <<>> => Receipt(jobs[r].bound, r)

JournalInv == FilesOrdered /\ WritersLocked /\ ReceiptsKept

(* The invariant is what the journal promises, whatever the disk brings     *)
(* back.                                                                    *)
LEMMA JournalHolds == DeletionInv /\ JournalInv => SuppressionKept
<1> SUFFICES ASSUME DeletionInv, JournalInv PROVE SuppressionKept
  OBVIOUS
<1>1. /\ journal.seen \in Records /\ journal.kept \in Records
      /\ minimum.seen \in Records /\ minimum.kept \in Records
  BY DEF DeletionInv, DeletionTypes, JournalInv, FilesOrdered, Records
<1>2. /\ Distinct(journal.seen) /\ IsPrefix(minimum.kept, minimum.seen)
      /\ IsPrefix(minimum.seen, journal.kept) /\ IsPrefix(journal.kept, journal.seen)
  BY DEF JournalInv, FilesOrdered
<1>3. Cardinality({journal.seen[k] : k \in DOMAIN journal.seen}) = Len(journal.seen)
  BY <1>1, <1>2, DistinctCounts
<1>4. /\ IsPrefix(minimum.kept, journal.kept) /\ IsPrefix(minimum.seen, journal.seen)
  BY <1>1, <1>2, PrefixFacts
<1>5. IsPrefix(minimum.kept, journal.seen)
  BY <1>1, <1>2, <1>4, PrefixFacts
<1>6. \A j \in {journal.seen, journal.kept}, m \in {minimum.seen, minimum.kept} : IsPrefix(m, j)
  BY <1>2, <1>4, <1>5
<1>7. \A r \in Requests : jobs[r].bound # <<>> => IsPrefix(jobs[r].bound, journal.kept) /\ Last(jobs[r].bound) = r
  BY DEF JournalInv, ReceiptsKept, Receipt
<1> QED
  BY <1>3, <1>6, <1>7 DEF SuppressionKept

(* The files are empty at first.                                            *)
LEMMA JournalStart == DeletionInit => JournalInv
<1> SUFFICES ASSUME DeletionInit PROVE JournalInv
  OBVIOUS
<1>1. /\ jobs = [r \in Requests |-> NoJob] /\ confirm = [c \in Callers |-> Idle]
      /\ journal = [seen |-> <<>>, kept |-> <<>>] /\ minimum = [seen |-> <<>>, kept |-> <<>>]
  BY DEF DeletionInit
<1>2. <<>> \in Records /\ Len(<<>>) = 0
  BY EmptySeq DEF Records
<1>3. IsPrefix(<<>>, <<>>) /\ Distinct(<<>>)
  BY <1>2, PrefixFacts DEF Distinct
<1>4. FilesOrdered
  BY <1>1, <1>2, <1>3 DEF FilesOrdered
<1>5. WritersLocked /\ ReceiptsKept
  BY <1>1 DEF WritersLocked, ReceiptsKept, Locked, Idle, NoJob
<1> QED
  BY <1>4, <1>5 DEF JournalInv

(* Steps that leave the journal and its requests alone.                     *)
LEMMA JournalFrame ==
  ASSUME JournalInv, UNCHANGED <<jobs, confirm, journal, minimum, flock>>
  PROVE  JournalInv'
BY DEF JournalInv, FilesOrdered, WritersLocked, ReceiptsKept, Receipt

(* Confirm: its transaction, and the repetition of a confirmed request.     *)
LEMMA ConfirmKept ==
  ASSUME DeletionInv, JournalInv, NEW c \in Callers, NEW i \in Intents,
         confirmAgain(c, i) \/ \E r \in Requests : confirmDeletion(c, i, r)
  PROVE  DeletionInv' /\ JournalInv'
<1> USE AccountsAssumption, DeletionAssumption
<1>0. /\ clock \in Nat \ {0} /\ caps \in [AccountIds -> CapRow] /\ intents \in [Intents -> IntentRow]
      /\ jobs \in [Requests -> JobRow] /\ confirm \in [Callers -> {Idle} \cup PublishRow \cup BindRow]
      /\ DeletionTypes /\ CapsOk /\ OneRequest /\ ErasedFirst
      /\ \A j \in Intents : IntentOk(intents[j], caps, clock) /\ ConfirmedOk(intents[j], jobs, erased)
      /\ FilesOrdered /\ WritersLocked /\ ReceiptsKept
  BY DEF DeletionInv, DeletionTypes, JournalInv
<1>1. ASSUME NEW r \in Requests, confirm' = [confirm EXCEPT ![c] = [pc |-> "publish", request |-> r]],
             UNCHANGED <<journal, minimum, flock>>, \A q \in Requests : jobs'[q].bound = jobs[q].bound
      PROVE  /\ confirm' \in [Callers -> {Idle} \cup PublishRow \cup BindRow]
             /\ \A d \in Callers : d # c => confirm'[d] = confirm[d]
             /\ confirm'[c].pc = "publish" /\ confirm'[c].request = r
             /\ JournalInv'
  <2> DEFINE row == [pc |-> "publish", request |-> r]
  <2>1. row \in PublishRow /\ row.pc = "publish" /\ row.request = r
    BY DEF PublishRow
  <2>2. \A d \in Callers : confirm'[d] = IF d = c THEN row ELSE confirm[d]
    BY <1>0, <1>1
  <2> HIDE DEF row
  <2>3. FilesOrdered'
    BY <1>0, <1>1 DEF FilesOrdered
  <2>4. WritersLocked'
    BY <1>0, <1>1, <2>1, <2>2 DEF WritersLocked, Locked
  <2>5. ReceiptsKept'
    BY <1>0, <1>1, <2>1, <2>2 DEF ReceiptsKept, Receipt
  <2>6. confirm' \in [Callers -> {Idle} \cup PublishRow \cup BindRow]
    BY <1>0, <1>1, <2>1 DEF row
  <2> QED
    BY <2>1, <2>2, <2>3, <2>4, <2>5, <2>6 DEF JournalInv
<1>2. CASE confirmAgain(c, i)
  <2> DEFINE r == intents[i].request
  <2>1. /\ r \in Requests /\ confirm' = [confirm EXCEPT ![c] = [pc |-> "publish", request |-> r]]
        /\ UNCHANGED <<journal, minimum, flock, jobs, clock, caps, intents, erased>>
    BY <1>0, <1>2 DEF confirmAgain, IntentRow, fileVars, enforcementVars, accountVars, erasureVars
  <2>2. jobs[r].account \in erased
    BY <1>0, <2>1 DEF ConfirmedOk, NoRequestId
  <2> HIDE DEF r
  <2>3. /\ confirm' \in [Callers -> {Idle} \cup PublishRow \cup BindRow]
        /\ \A d \in Callers : d # c => confirm'[d] = confirm[d]
        /\ confirm'[c].pc = "publish" /\ confirm'[c].request = r
        /\ JournalInv'
    BY <1>1, <2>1
  <2>4. DeletionTypes'
    BY <1>0, <2>1, <2>3 DEF DeletionTypes
  <2>5. ErasedFirst'
    BY <1>0, <2>1, <2>2, <2>3 DEF ErasedFirst
  <2>6. DeletionInv'
    BY <2>1, <2>4, <2>5, DeletionFrame
  <2> QED
    BY <2>3, <2>6
<1>3. ASSUME NEW r \in Requests, confirmDeletion(c, i, r) PROVE DeletionInv' /\ JournalInv'
  <2> DEFINE a == intents[i].account
             job == [jobs[r] EXCEPT !.account = a]
             cap == [caps[a] EXCEPT !.cap = 0, !.epoch = @ + 1]
             row == [intents[i] EXCEPT !.state = "consumed", !.request = r]
  <2>1. /\ confirm[c].pc = "idle" /\ authorised(i) /\ jobs[r] = NoJob /\ a \notin erased
        /\ jobs' = [jobs EXCEPT ![r] = job] /\ erased' = erased \cup {a}
        /\ intents' = [intents EXCEPT ![i] = row]
        /\ confirm' = [confirm EXCEPT ![c] = [pc |-> "publish", request |-> r]]
        /\ UNCHANGED <<clock, journal, minimum, flock>>
    <3>1. confirm[c].pc = "idle" /\ authorised(i) /\ jobs[r] = NoJob /\ a \notin erased /\ erased' = erased \cup {a}
      BY <1>3 DEF confirmDeletion
    <3>2. jobs' = [jobs EXCEPT ![r] = job]
      BY <1>3 DEF confirmDeletion
    <3>3. intents' = [intents EXCEPT ![i] = row]
      BY <1>3 DEF confirmDeletion
    <3>4. /\ confirm' = [confirm EXCEPT ![c] = [pc |-> "publish", request |-> r]]
          /\ UNCHANGED <<clock, journal, minimum, flock>>
      BY <1>3 DEF confirmDeletion, fileVars
    <3> QED
      BY <3>1, <3>2, <3>3, <3>4
  <2>2. caps' = [caps EXCEPT ![a] = cap]
    BY <1>3 DEF confirmDeletion
  <2>3. intents[i] \in IntentRow /\ jobs[r] \in JobRow
    BY <1>0
  <2>4. a \in AccountIds /\ caps[a].row /\ caps[a].epoch = intents[i].security
    BY <2>1, <2>3 DEF authorised, IntentRow, SomeAccount
  <2>5. /\ caps[a] \in CapRow /\ cap \in CapRow /\ cap.row /\ cap.cap = 0
        /\ cap.epoch = caps[a].epoch + 1 /\ cap.revoked = caps[a].revoked
    <3>1. caps[a] \in CapRow /\ caps[a].epoch \in Nat /\ caps[a].row
      BY <1>0, <2>4 DEF CapRow
    <3> HIDE DEF a
    <3>2. ASSUME NEW n \in Nat, n = caps[a].epoch + 1 PROVE cap \in CapRow /\ cap.epoch = n
      BY <3>1, <3>2 DEF CapRow
    <3>4. caps[a].epoch + 1 \in Nat /\ cap.cap = 0 /\ cap.revoked = caps[a].revoked
      BY <3>1 DEF CapRow
    <3>3. cap.row = caps[a].row
      BY <3>1, Zenon DEF CapRow
    <3> QED
      BY <3>1, <3>2, <3>3, <3>4
  <2>6. /\ row \in IntentRow /\ row.state = "consumed" /\ row.request = r /\ row.account = a
        /\ row.stale = intents[i].stale /\ row.created = intents[i].created
    BY <2>3 DEF IntentRow
  <2>7. job \in JobRow /\ job.account = a /\ job.bound = jobs[r].bound
    BY <2>3, <2>4 DEF JobRow, SomeAccount
  <2>8. a \notin row.stale
    <3>1. Held(intents[i], caps)
      BY <1>0, <2>1 DEF authorised, IntentOk
    <3>2. intents[i].security \in Nat
      BY <2>3 DEF IntentRow
    <3> QED
      BY <2>4, <2>6, <3>1, <3>2 DEF Held
  <2> HIDE DEF job, cap, row
  <2>9. /\ \A x \in AccountIds : caps'[x] = IF x = a THEN cap ELSE caps[x]
        /\ \A j \in Intents : intents'[j] = IF j = i THEN row ELSE intents[j]
        /\ \A q \in Requests : jobs'[q] = IF q = r THEN job ELSE jobs[q]
        /\ caps' \in [AccountIds -> CapRow] /\ intents' \in [Intents -> IntentRow] /\ jobs' \in [Requests -> JobRow]
    BY <1>0, <2>1, <2>2, <2>5, <2>6, <2>7
  <2>10. /\ confirm' \in [Callers -> {Idle} \cup PublishRow \cup BindRow]
         /\ \A d \in Callers : d # c => confirm'[d] = confirm[d]
         /\ confirm'[c].pc = "publish" /\ confirm'[c].request = r
         /\ JournalInv'
    BY <1>1, <2>1, <2>7, <2>9
  <2>11. DeletionTypes'
    BY <1>0, <2>1, <2>9, <2>10 DEF DeletionTypes
  <2>12. CapsGrow
    BY <1>0, <2>5, <2>9 DEF CapsGrow, CapRow
  <2>13. CapsOk'
    BY <1>0, <2>1, <2>4, <2>5, <2>9 DEF CapsOk
  <2>14. OneRequest'
    BY <1>0, <2>1, <2>6, <2>9 DEF OneRequest, ConfirmedOk
  <2>15. ErasedFirst'
    BY <1>0, <2>1, <2>7, <2>9, <2>10 DEF ErasedFirst, NoJob, Idle, PublishRow, BindRow
  <2>16. \A q \in Requests : jobs[q].account \in AccountIds => jobs'[q].account = jobs[q].account
    BY <2>1, <2>9 DEF NoJob
  <2>17. clock <= clock' /\ erased \subseteq erased'
    BY <1>0, <2>1
  <2>18. ASSUME NEW j \in Intents PROVE IntentOk(intents[j], caps', clock') /\ ConfirmedOk(intents[j], jobs', erased')
    BY <1>0, <2>11, <2>12, <2>16, <2>17, IntentGrows
  <2>19. IntentOk(row, caps', clock') /\ ConfirmedOk(row, jobs', erased')
    BY <1>0, <2>1, <2>4, <2>6, <2>7, <2>8, <2>9 DEF IntentOk, ConfirmedOk
  <2>20. \A j \in Intents : IntentOk(intents'[j], caps', clock') /\ ConfirmedOk(intents'[j], jobs', erased')
    BY <2>9, <2>18, <2>19
  <2> QED
    BY <2>10, <2>11, <2>13, <2>14, <2>15, <2>20 DEF DeletionInv
<1> QED
  BY <1>2, <1>3

(* What a step of a confirmation leaves of the others.                      *)
LEMMA ConfirmSteps ==
  ASSUME DeletionInv, UNCHANGED <<clock, caps, intents, erased, jobs>>,
         NEW c \in Callers, NEW row \in {Idle} \cup PublishRow \cup BindRow,
         confirm' = [confirm EXCEPT ![c] = row],
         row.pc # "idle" => confirm[c].pc # "idle" /\ row.request = confirm[c].request,
         journal' \in [seen : Seq(Requests), kept : Seq(Requests)]
  PROVE  /\ DeletionInv'
         /\ \A d \in Callers : confirm'[d] = IF d = c THEN row ELSE confirm[d]
<1>1. /\ confirm \in [Callers -> {Idle} \cup PublishRow \cup BindRow] /\ DeletionTypes /\ ErasedFirst
  BY DEF DeletionInv, DeletionTypes
<1>2. /\ \A d \in Callers : confirm'[d] = IF d = c THEN row ELSE confirm[d]
      /\ confirm' \in [Callers -> {Idle} \cup PublishRow \cup BindRow]
  BY <1>1
<1>3. DeletionTypes'
  BY <1>1, <1>2 DEF DeletionTypes
<1>4. ErasedFirst'
  BY <1>1, <1>2 DEF ErasedFirst
<1>5. DeletionInv'
  BY <1>3, <1>4, DeletionFrame
<1> QED
  BY <1>2, <1>5

(* Publish, under the lock file: the record is in the journal once.         *)
LEMMA PublishKept ==
  ASSUME DeletionInv, JournalInv, NEW c \in Callers, Publish(c)
  PROVE  DeletionInv' /\ JournalInv'
<1> USE AccountsAssumption, DeletionAssumption
<1> DEFINE r == confirm[c].request
           row == [confirm[c] EXCEPT !.pc = "sync"]
           Found == \E k \in DOMAIN journal.seen : journal.seen[k] = r
<1>0. /\ confirm \in [Callers -> {Idle} \cup PublishRow \cup BindRow]
      /\ journal \in [seen : Records, kept : Records]
      /\ FilesOrdered /\ WritersLocked /\ ReceiptsKept
  BY DEF DeletionInv, DeletionTypes, JournalInv, Records
<1>1. /\ confirm[c].pc = "publish" /\ flock = "none" /\ flock' = c
      /\ journal' = IF Found THEN journal ELSE [journal EXCEPT !.seen = Append(@, r)]
      /\ confirm' = [confirm EXCEPT ![c] = row]
      /\ UNCHANGED <<clock, caps, intents, erased, jobs, minimum>>
  <2>1. confirm[c].pc = "publish" /\ flock = "none" /\ flock' = c
        /\ journal' = IF Found THEN journal ELSE [journal EXCEPT !.seen = Append(@, r)]
    BY DEF Publish
  <2>2. confirm' = [confirm EXCEPT ![c] = row]
    BY DEF Publish
  <2>3. UNCHANGED <<clock, caps, intents, erased, jobs, minimum>>
    BY DEF Publish, databaseUnchanged, enforcementVars, accountVars, erasureVars
  <2> QED
    BY <2>1, <2>2, <2>3
<1>2. confirm[c] \in PublishRow /\ r \in Requests
  BY <1>0, <1>1 DEF Idle, BindRow, PublishRow
<1>3. row \in PublishRow /\ row.pc = "sync" /\ row.request = r
  BY <1>2 DEF PublishRow
<1>4. journal.seen \in Records /\ journal.kept \in Records /\ DOMAIN journal.seen = 1..Len(journal.seen)
  BY <1>0, LenProperties DEF Records
<1>5. /\ journal' \in [seen : Records, kept : Records] /\ journal'.kept = journal.kept
      /\ IsPrefix(journal.seen, journal'.seen) /\ Distinct(journal'.seen)
      /\ \E k \in 1..Len(journal'.seen) : journal'.seen[k] = r
  <2>1. CASE Found
    BY <1>0, <1>1, <1>4, <2>1, PrefixFacts DEF FilesOrdered
  <2>2. CASE ~Found
    <3> DEFINE more == Append(journal.seen, r)
    <3>1. more \in Records /\ IsPrefix(journal.seen, more)
      BY <1>2, <1>4, PrefixFacts
    <3>2. Distinct(more)
      BY <1>0, <1>2, <1>4, <2>2, AppendDistinct DEF FilesOrdered
    <3>3. Len(journal.seen) \in Nat /\ Len(more) = Len(journal.seen) + 1 /\ more[Len(journal.seen) + 1] = r
      BY <1>2, <1>4, AppendProperties, LenProperties DEF Records
    <3>4. \E k \in 1..Len(more) : more[k] = r
      BY <3>3
    <3>5. journal' = [journal EXCEPT !.seen = more]
      BY <1>1, <2>2
    <3> HIDE DEF more
    <3>6. journal' \in [seen : Records, kept : Records] /\ journal'.kept = journal.kept /\ journal'.seen = more
      BY <1>0, <3>1, <3>5
    <3> QED
      BY <3>1, <3>2, <3>4, <3>6
  <2> QED
    BY <2>1, <2>2
<1> HIDE DEF row, Found
<1>6. DeletionInv' /\ \A d \in Callers : confirm'[d] = IF d = c THEN row ELSE confirm[d]
  <2>1. journal' \in [seen : Seq(Requests), kept : Seq(Requests)]
    BY <1>5 DEF Records
  <2>2. row \in {Idle} \cup PublishRow \cup BindRow /\ confirm[c].pc # "idle" /\ row.request = confirm[c].request
    BY <1>1, <1>3
  <2>3. confirm' = [confirm EXCEPT ![c] = row] /\ UNCHANGED <<clock, caps, intents, erased, jobs>>
    BY <1>1
  <2> HIDE DEF r
  <2> QED
    BY <2>1, <2>2, <2>3, ConfirmSteps
<1>7. journal'.seen \in Records /\ journal'.kept \in Records
  BY <1>5
<1>8. FilesOrdered'
  <2>1. IsPrefix(journal.kept, journal'.seen)
    BY <1>0, <1>4, <1>5, <1>7, PrefixFacts DEF FilesOrdered
  <2> QED
    BY <1>0, <1>1, <1>5, <2>1 DEF FilesOrdered
<1>9. WritersLocked'
  BY <1>0, <1>1, <1>3, <1>5, <1>6 DEF WritersLocked, Locked
<1>10. ReceiptsKept'
  BY <1>0, <1>1, <1>3, <1>5, <1>6 DEF ReceiptsKept, Receipt
<1> QED
  BY <1>6, <1>8, <1>9, <1>10 DEF JournalInv

(* The disk keeps the journal; the minimum moves up to it.                  *)
LEMMA SyncKept ==
  ASSUME DeletionInv, JournalInv, NEW c \in Callers, syncState(c) \/ Advance(c)
  PROVE  DeletionInv' /\ JournalInv'
<1> USE AccountsAssumption, DeletionAssumption
<1>0. /\ confirm \in [Callers -> {Idle} \cup PublishRow \cup BindRow]
      /\ journal \in [seen : Records, kept : Records] /\ minimum \in [seen : Records, kept : Records]
      /\ FilesOrdered /\ WritersLocked /\ ReceiptsKept
  BY DEF DeletionInv, DeletionTypes, JournalInv, FilesOrdered, Records
<1>1. /\ journal.seen \in Records /\ journal.kept \in Records
      /\ minimum.seen \in Records /\ minimum.kept \in Records
  BY <1>0
<1>2. ASSUME NEW pc \in {"advance", "advanced"}, confirm[c].pc \in {"sync", "advance"},
             confirm' = [confirm EXCEPT ![c].pc = pc], UNCHANGED <<clock, caps, intents, erased, jobs, flock>>,
             journal' \in [seen : Records, kept : Records], journal'.kept = journal.seen,
             journal'.seen = journal.seen
      PROVE  DeletionInv' /\ WritersLocked' /\ ReceiptsKept'
  <2> DEFINE row == [confirm[c] EXCEPT !.pc = pc]
  <2>1. confirm[c] \in PublishRow
    BY <1>0, <1>2 DEF Idle, BindRow, PublishRow
  <2>2. row \in PublishRow /\ row.pc = pc /\ row.request = confirm[c].request
    BY <2>1 DEF PublishRow
  <2>3. confirm' = [confirm EXCEPT ![c] = row]
    BY <1>2
  <2> HIDE DEF row
  <2>4. journal' \in [seen : Seq(Requests), kept : Seq(Requests)] /\ UNCHANGED <<clock, caps, intents, erased, jobs>>
    BY <1>2 DEF Records
  <2>5. row \in {Idle} \cup PublishRow \cup BindRow /\ confirm[c].pc # "idle"
    BY <1>2, <2>2
  <2>6. DeletionInv' /\ \A d \in Callers : confirm'[d] = IF d = c THEN row ELSE confirm[d]
    BY <2>2, <2>3, <2>4, <2>5, ConfirmSteps
  <2>7. WritersLocked'
    BY <1>0, <1>2, <2>2, <2>6 DEF WritersLocked, Locked
  <2>8. \A s \in Records : IsPrefix(s, journal.kept) => IsPrefix(s, journal'.kept)
    BY <1>0, <1>1, <1>2, PrefixFacts DEF FilesOrdered
  <2>9. ReceiptsKept'
    <3>1. ASSUME NEW d \in Callers, confirm'[d].pc = "bind"
          PROVE  /\ IsPrefix(confirm'[d].receipt, journal'.kept) /\ confirm'[d].receipt # <<>>
                 /\ Last(confirm'[d].receipt) = confirm'[d].request
      <4>1. d # c /\ confirm'[d] = confirm[d]
        BY <1>2, <2>2, <2>6, <3>1
      <4>2. confirm[d].receipt \in Records
        <5>1. confirm[d] \in BindRow
          BY <1>0, <3>1, <4>1 DEF Idle, PublishRow
        <5> QED
          BY <5>1 DEF BindRow, Records
      <4>3. Receipt(confirm[d].receipt, confirm[d].request)
        BY <1>0, <3>1, <4>1 DEF ReceiptsKept
      <4> QED
        BY <2>8, <4>1, <4>2, <4>3 DEF Receipt
    <3>2. ASSUME NEW q \in Requests, jobs'[q].bound # <<>>
          PROVE  IsPrefix(jobs'[q].bound, journal'.kept) /\ Last(jobs'[q].bound) = q
      <4>1. jobs[q].bound \in Records /\ Receipt(jobs[q].bound, q) /\ jobs' = jobs
        BY <1>0, <1>2, <3>2 DEF DeletionInv, DeletionTypes, JobRow, Records, ReceiptsKept
      <4> QED
        BY <2>8, <4>1 DEF Receipt
    <3> QED
      BY <3>1, <3>2 DEF ReceiptsKept, Receipt
  <2> QED
    BY <2>6, <2>7, <2>9
<1>3. CASE syncState(c)
  <2>1. /\ confirm[c].pc = "sync" /\ confirm' = [confirm EXCEPT ![c].pc = "advance"]
        /\ UNCHANGED <<clock, caps, intents, erased, jobs, flock, minimum>>
    BY <1>3 DEF syncState, databaseUnchanged, enforcementVars, accountVars, erasureVars
  <2>2. journal' = [journal EXCEPT !.kept = journal.seen]
    BY <1>3 DEF syncState
  <2>3. /\ journal' \in [seen : Records, kept : Records] /\ journal'.kept = journal.seen
        /\ journal'.seen = journal.seen
    BY <1>0, <2>2
  <2>4. IsPrefix(minimum.seen, journal.seen) /\ IsPrefix(journal.seen, journal.seen)
    BY <1>0, <1>1, PrefixFacts DEF FilesOrdered
  <2>5. FilesOrdered'
    BY <1>0, <2>1, <2>3, <2>4 DEF FilesOrdered
  <2> QED
    BY <1>2, <2>1, <2>3, <2>5 DEF JournalInv
<1>4. CASE Advance(c)
  <2>1. /\ confirm[c].pc = "advance" /\ confirm' = [confirm EXCEPT ![c].pc = "advanced"]
        /\ UNCHANGED <<clock, caps, intents, erased, jobs, flock, journal>>
    BY <1>4 DEF Advance, databaseUnchanged, enforcementVars, accountVars, erasureVars
  <2>2. minimum' = [minimum EXCEPT !.seen = journal.seen]
    BY <1>4 DEF Advance
  <2>3. /\ minimum' \in [seen : Records, kept : Records] /\ minimum'.kept = minimum.kept
        /\ minimum'.seen = journal.seen
    BY <1>0, <2>2
  <2>4. journal.kept = journal.seen
    BY <1>0, <2>1 DEF WritersLocked
  <2>5. IsPrefix(minimum.kept, journal.seen) /\ IsPrefix(journal.seen, journal.seen)
    BY <1>0, <1>1, <2>4, PrefixFacts DEF FilesOrdered
  <2>6. FilesOrdered'
    BY <1>0, <2>1, <2>3, <2>4, <2>5 DEF FilesOrdered
  <2> QED
    BY <1>0, <1>2, <2>1, <2>4, <2>6 DEF JournalInv
<1> QED
  BY <1>3, <1>4

(* The receipt is the records up to the one of the request; the minimum is  *)
(* kept before it is given.                                                 *)
LEMMA MinimumKept ==
  ASSUME DeletionInv, JournalInv, NEW c \in Callers, writeMinimum(c)
  PROVE  DeletionInv' /\ JournalInv'
<1> USE AccountsAssumption, DeletionAssumption
<1> DEFINE at == CHOOSE k \in DOMAIN journal.seen : journal.seen[k] = confirm[c].request
           receipt == SubSeq(journal.seen, 1, at)
           row == [pc |-> "bind", request |-> confirm[c].request, receipt |-> receipt]
<1>0. /\ confirm \in [Callers -> {Idle} \cup PublishRow \cup BindRow]
      /\ journal \in [seen : Records, kept : Records] /\ minimum \in [seen : Records, kept : Records]
      /\ FilesOrdered /\ WritersLocked /\ ReceiptsKept
  BY DEF DeletionInv, DeletionTypes, JournalInv, FilesOrdered, Records
<1>1. /\ journal.seen \in Records /\ journal.kept \in Records /\ DOMAIN journal.seen = 1..Len(journal.seen)
      /\ minimum.seen \in Records /\ minimum.kept \in Records
  BY <1>0, LenProperties DEF Records
<1>2. /\ confirm[c].pc = "advanced" /\ flock' = "none"
      /\ UNCHANGED <<clock, caps, intents, erased, jobs, journal>>
  BY DEF writeMinimum, databaseUnchanged, enforcementVars, accountVars, erasureVars
<1>3. confirm' = [confirm EXCEPT ![c] = row]
  BY <1>0 DEF writeMinimum
<1>4. minimum' = [minimum EXCEPT !.kept = minimum.seen]
  BY DEF writeMinimum
<1>5. /\ flock = c /\ journal.kept = journal.seen
      /\ \E k \in 1..Len(journal.seen) : journal.seen[k] = confirm[c].request
  BY <1>0, <1>2 DEF WritersLocked, Locked
<1>6. at \in 1..Len(journal.seen) /\ journal.seen[at] = confirm[c].request
  BY <1>1, <1>5
<1>7. confirm[c].request \in Requests
  BY <1>0, <1>2 DEF Idle, PublishRow, BindRow
<1> HIDE DEF at
<1>8. receipt \in Records /\ receipt # <<>> /\ IsPrefix(receipt, journal.kept) /\ Last(receipt) = confirm[c].request
  BY <1>1, <1>5, <1>6, UpTo
<1> HIDE DEF receipt
<1>9. row \in BindRow /\ row.pc = "bind" /\ row.request = confirm[c].request /\ row.receipt = receipt
  BY <1>7, <1>8 DEF BindRow, Records
<1> HIDE DEF row
<1>10. DeletionInv' /\ \A d \in Callers : confirm'[d] = IF d = c THEN row ELSE confirm[d]
  <2>1. journal' \in [seen : Seq(Requests), kept : Seq(Requests)]
    BY <1>0, <1>2 DEF Records
  <2>2. row \in {Idle} \cup PublishRow \cup BindRow /\ confirm[c].pc # "idle"
    BY <1>2, <1>9
  <2> QED
    BY <1>2, <1>3, <1>9, <2>1, <2>2, ConfirmSteps
<1>11. FilesOrdered'
  <2>1. minimum' \in [seen : Records, kept : Records] /\ minimum'.seen = minimum.seen /\ minimum'.kept = minimum.seen
    BY <1>0, <1>4
  <2>2. IsPrefix(minimum.seen, minimum.seen)
    BY <1>1, PrefixFacts
  <2> QED
    BY <1>0, <1>2, <2>1, <2>2 DEF FilesOrdered
<1>12. WritersLocked'
  BY <1>0, <1>2, <1>5, <1>9, <1>10 DEF WritersLocked, Locked
<1>13. ReceiptsKept'
  BY <1>0, <1>2, <1>8, <1>9, <1>10 DEF ReceiptsKept, Receipt
<1> QED
  BY <1>10, <1>11, <1>12, <1>13 DEF JournalInv

(* The receipt of a request is bound once.                                  *)
LEMMA BindKept ==
  ASSUME DeletionInv, JournalInv, NEW c \in Callers, bindSuppression(c)
  PROVE  DeletionInv' /\ JournalInv'
<1> USE AccountsAssumption, DeletionAssumption
<1> DEFINE r == confirm[c].request
           job == [jobs[r] EXCEPT !.bound = confirm[c].receipt]
<1>0. /\ confirm \in [Callers -> {Idle} \cup PublishRow \cup BindRow] /\ jobs \in [Requests -> JobRow]
      /\ FilesOrdered /\ WritersLocked /\ ReceiptsKept /\ ErasedFirst /\ DeletionTypes
  BY DEF DeletionInv, DeletionTypes, JournalInv
<1>1. /\ confirm[c].pc = "bind" /\ confirm' = [confirm EXCEPT ![c] = Idle]
      /\ UNCHANGED <<clock, caps, intents, erased, journal, minimum, flock>>
  BY DEF bindSuppression, databaseUnchanged, fileVars, enforcementVars, accountVars, erasureVars
<1>2. jobs' = [jobs EXCEPT ![r] = job] \/ jobs' = jobs
  BY DEF bindSuppression
<1>3. confirm[c] \in BindRow /\ r \in Requests /\ confirm[c].receipt \in Seq(Requests)
  <2>1. confirm[c] \in BindRow
    BY <1>0, <1>1 DEF Idle, PublishRow
  <2> QED
    BY <2>1 DEF BindRow
<1>4. job \in JobRow /\ job.account = jobs[r].account /\ job.bound = confirm[c].receipt
  BY <1>0, <1>3 DEF JobRow
<1>5. Receipt(confirm[c].receipt, r) /\ jobs[r].account \in erased
  BY <1>0, <1>1 DEF ReceiptsKept, ErasedFirst
<1> HIDE DEF r, job
<1>6. /\ jobs' \in [Requests -> JobRow]
      /\ \A q \in Requests : jobs'[q] = jobs[q] \/ (q = r /\ jobs'[q] = job)
  <2>1. CASE jobs' = [jobs EXCEPT ![r] = job]
    <3>1. r \in Requests /\ job \in JobRow /\ jobs \in [Requests -> JobRow]
      BY <1>0, <1>3, <1>4
    <3> QED
      BY <2>1, <3>1
  <2>2. CASE jobs' = jobs
    BY <1>0, <2>2
  <2> QED
    BY <1>2, <2>1, <2>2
<1>7. /\ confirm' \in [Callers -> {Idle} \cup PublishRow \cup BindRow]
      /\ \A d \in Callers : confirm'[d] = IF d = c THEN Idle ELSE confirm[d]
  BY <1>0, <1>1
<1>8. Idle.pc = "idle"
  BY DEF Idle
<1>9. \A q \in Requests : jobs'[q].account = jobs[q].account
  BY <1>4, <1>6
<1>10. DeletionTypes'
  BY <1>0, <1>1, <1>6, <1>7 DEF DeletionTypes
<1>11. ErasedFirst'
  <2>1. ASSUME NEW d \in Callers, confirm'[d].pc # "idle" PROVE jobs'[confirm'[d].request].account \in erased'
    <3>1. confirm'[d] = confirm[d] /\ confirm[d].pc # "idle"
      BY <1>7, <1>8, <2>1
    <3>2. confirm[d].request \in Requests
      BY <1>0, <3>1 DEF Idle, PublishRow, BindRow
    <3> QED
      BY <1>0, <1>1, <1>9, <3>1, <3>2 DEF ErasedFirst
  <2>2. ASSUME NEW q \in Requests, jobs'[q].bound # <<>> PROVE jobs'[q].account \in erased'
    <3>1. jobs[q].account \in erased
      <4>1. CASE jobs'[q] = jobs[q]
        BY <1>0, <2>2, <4>1 DEF ErasedFirst
      <4>2. CASE q = r
        BY <1>5, <4>2
      <4> QED
        BY <1>6, <4>1, <4>2
    <3> QED
      BY <1>1, <1>9, <3>1
  <2> QED
    BY <2>1, <2>2 DEF ErasedFirst
<1>12. DeletionInv'
  BY <1>1, <1>9, <1>10, <1>11, DeletionFrame
<1>13. FilesOrdered' /\ WritersLocked'
  BY <1>0, <1>1, <1>7, <1>8 DEF FilesOrdered, WritersLocked, Locked
<1>14. ReceiptsKept'
  BY <1>0, <1>1, <1>4, <1>5, <1>6, <1>7, <1>8 DEF ReceiptsKept, Receipt
<1> QED
  BY <1>12, <1>13, <1>14 DEF JournalInv

(* A confirmation stops anywhere; a loss of power stops them all.           *)
LEMMA LossKept ==
  ASSUME DeletionInv, JournalInv, PowerLoss \/ \E c \in Callers : stopConfirm(c)
  PROVE  DeletionInv' /\ JournalInv'
<1> USE AccountsAssumption, DeletionAssumption
<1>0. /\ confirm \in [Callers -> {Idle} \cup PublishRow \cup BindRow]
      /\ journal \in [seen : Records, kept : Records] /\ minimum \in [seen : Records, kept : Records]
      /\ FilesOrdered /\ WritersLocked /\ ReceiptsKept /\ ErasedFirst /\ DeletionTypes
  BY DEF DeletionInv, DeletionTypes, JournalInv, FilesOrdered, Records
<1>1. /\ journal.seen \in Records /\ journal.kept \in Records
      /\ minimum.seen \in Records /\ minimum.kept \in Records
  BY <1>0
<1>2. Idle.pc = "idle"
  BY DEF Idle
<1>3. ASSUME NEW c \in Callers, stopConfirm(c) PROVE DeletionInv' /\ JournalInv'
  <2>1. /\ confirm' = [confirm EXCEPT ![c] = Idle] /\ flock' = IF flock = c THEN "none" ELSE flock
        /\ UNCHANGED <<clock, caps, intents, erased, jobs, journal, minimum>>
    BY <1>3 DEF stopConfirm, databaseUnchanged, enforcementVars, accountVars, erasureVars
  <2>2. journal' \in [seen : Seq(Requests), kept : Seq(Requests)]
    BY <1>0, <2>1 DEF Records
  <2>6. Idle \in {Idle} \cup PublishRow \cup BindRow
    OBVIOUS
  <2>7. confirm' = [confirm EXCEPT ![c] = Idle] /\ UNCHANGED <<clock, caps, intents, erased, jobs>>
    BY <2>1
  <2>8. Idle.pc # "idle" => confirm[c].pc # "idle" /\ Idle.request = confirm[c].request
    BY <1>2
  <2>3. DeletionInv' /\ \A d \in Callers : confirm'[d] = IF d = c THEN Idle ELSE confirm[d]
    BY <2>2, <2>6, <2>7, <2>8, ConfirmSteps, ZenonT(60)
  <2>4. FilesOrdered' /\ ReceiptsKept'
    BY <1>0, <1>2, <2>1, <2>3 DEF FilesOrdered, ReceiptsKept, Receipt
  <2>5. WritersLocked'
    BY <1>0, <1>2, <2>1, <2>3 DEF WritersLocked, Locked
  <2> QED
    BY <2>3, <2>4, <2>5 DEF JournalInv
<1>4. CASE PowerLoss
  <2>1. /\ confirm' = [c \in Callers |-> Idle] /\ UNCHANGED <<clock, caps, intents, erased, jobs>>
    BY <1>4 DEF PowerLoss, databaseUnchanged, enforcementVars, accountVars, erasureVars
  <2>2. PICK s \in {journal.seen, journal.kept} : journal' = [seen |-> s, kept |-> s]
    BY <1>4 DEF PowerLoss
  <2>3. PICK m \in {minimum.seen, minimum.kept} : minimum' = [seen |-> m, kept |-> m]
    BY <1>4 DEF PowerLoss
  <2>4. s \in Records /\ m \in Records
    BY <1>1
  <2>5. IsPrefix(journal.kept, s) /\ Distinct(s) /\ IsPrefix(s, s)
    BY <1>0, <1>1, <2>4, PrefixFacts DEF FilesOrdered
  <2>6. IsPrefix(m, journal.kept)
    <3>1. /\ IsPrefix(minimum.seen, journal.kept) /\ IsPrefix(minimum.kept, minimum.seen)
          /\ IsPrefix(minimum.kept, minimum.seen) /\ IsPrefix(minimum.seen, journal.kept)
             => IsPrefix(minimum.kept, journal.kept)
      BY <1>0, <1>1, PrefixFacts DEF FilesOrdered
    <3> QED
      BY <3>1
  <2>7. IsPrefix(m, s) /\ IsPrefix(m, m)
    BY <1>1, <2>4, <2>5, <2>6, PrefixFacts
  <2>8. /\ journal' \in [seen : Records, kept : Records] /\ journal'.seen = s /\ journal'.kept = s
        /\ minimum' \in [seen : Records, kept : Records] /\ minimum'.seen = m /\ minimum'.kept = m
    BY <2>2, <2>3, <2>4
  <2>9. /\ confirm' \in [Callers -> {Idle} \cup PublishRow \cup BindRow]
        /\ \A c \in Callers : confirm'[c].pc = "idle"
    BY <1>2, <2>1
  <2>10. DeletionTypes'
    BY <1>0, <2>1, <2>8, <2>9 DEF DeletionTypes, Records
  <2>11. ErasedFirst'
    BY <1>0, <2>1, <2>9 DEF ErasedFirst
  <2>12. DeletionInv'
    BY <2>1, <2>10, <2>11, DeletionFrame
  <2>13. FilesOrdered'
    BY <2>5, <2>7, <2>8 DEF FilesOrdered
  <2>14. WritersLocked'
    BY <2>9 DEF WritersLocked, Locked
  <2>15. ASSUME NEW q \in Requests, jobs[q].bound # <<>> PROVE IsPrefix(jobs[q].bound, s) /\ Last(jobs[q].bound) = q
    <3>1. jobs[q].bound \in Records /\ Receipt(jobs[q].bound, q)
      BY <1>0, <2>15 DEF DeletionTypes, JobRow, Records, ReceiptsKept
    <3> QED
      BY <1>1, <2>4, <2>5, <3>1, PrefixFacts DEF Receipt
  <2>16. ReceiptsKept'
    BY <2>1, <2>8, <2>9, <2>15 DEF ReceiptsKept, Receipt
  <2> QED
    BY <2>12, <2>13, <2>14, <2>16 DEF JournalInv
<1> QED
  BY <1>3, <1>4

(* Every step of an account keeps deletion and its journal.                 *)
LEMMA DeletionKept ==
  ASSUME TokensInv, EpochType, DeletionInv, JournalInv, AccountStep
  PROVE  DeletionInv' /\ JournalInv'
<1> USE AccountsAssumption, DeletionAssumption
<1>1. ASSUME UNCHANGED deletionVars PROVE DeletionInv' /\ JournalInv'
  <2>1. UNCHANGED <<clock, caps, intents, jobs, confirm, journal, minimum, flock>> /\ erased \subseteq erased'
    BY <1>1, ErasedGrows DEF deletionVars
  <2>2. DeletionTypes'
    BY <2>1 DEF DeletionInv, DeletionTypes
  <2>3. ErasedFirst'
    BY <2>1 DEF DeletionInv, ErasedFirst
  <2> QED
    BY <2>1, <2>2, <2>3, DeletionFrame, JournalFrame
<1>2. ASSUME UNCHANGED <<erased, jobs, confirm, fileVars>>,
             \/ \E i \in Intents :
                  \/ \E p \in pairs : BeginEnrollment(i, p)
                  \/ EnrollCapability(i) \/ BeginProviderIntent(i) \/ claimProviderIntent(i)
                  \/ \E cap \in Intents : BeginCapabilityIntent(i, cap)
                  \/ \E s \in Subjects : CompleteProviderIntent(i, s)
             \/ \E a \in AccountIds : SecurityRevoke(a)
      PROVE  DeletionInv' /\ JournalInv'
  <2>1. UNCHANGED <<erased, jobs, confirm, journal, minimum, flock>>
    BY <1>2 DEF fileVars
  <2> QED
    BY <1>2, <2>1, IntentsKept, JournalFrame
<1>3. CASE Elsewhere
  BY <1>1, <1>3 DEF Elsewhere
<1>4. CASE DeletionNext
  <2> USE DEF enforcementVars, accountVars, erasureVars, authorityUnchanged
  <2>1. CASE EnforcementNext /\ UNCHANGED deletionVars
    BY <1>1, <2>1
  <2>2. ASSUME NEW i \in Intents, \E p \in pairs : BeginEnrollment(i, p) PROVE DeletionInv' /\ JournalInv'
    <3>1. UNCHANGED <<erased, jobs, confirm, fileVars>>
      BY <2>2 DEF BeginEnrollment
    <3> QED
      BY <1>2, <2>2, <3>1
  <2>3. ASSUME NEW i \in Intents, EnrollCapability(i) \/ BeginProviderIntent(i) \/ claimProviderIntent(i)
        PROVE  DeletionInv' /\ JournalInv'
    <3>1. UNCHANGED <<erased, jobs, confirm, fileVars>>
      BY <2>3 DEF EnrollCapability, BeginProviderIntent, claimProviderIntent
    <3> QED
      BY <1>2, <2>3, <3>1
  <2>4. ASSUME NEW i \in Intents, \/ \E cap \in Intents : BeginCapabilityIntent(i, cap)
                                  \/ \E s \in Subjects : CompleteProviderIntent(i, s)
        PROVE  DeletionInv' /\ JournalInv'
    <3>1. UNCHANGED <<erased, jobs, confirm, fileVars>>
      BY <2>4 DEF BeginCapabilityIntent, CompleteProviderIntent
    <3> QED
      BY <1>2, <2>4, <3>1
  <2>5. ASSUME NEW c \in Callers, NEW i \in Intents, confirmAgain(c, i) \/ \E r \in Requests : confirmDeletion(c, i, r)
        PROVE  DeletionInv' /\ JournalInv'
    BY <2>5, ConfirmKept
  <2>6. ASSUME NEW a \in AccountIds, SecurityRevoke(a) PROVE DeletionInv' /\ JournalInv'
    <3>1. UNCHANGED <<erased, jobs, confirm, fileVars>>
      BY <2>6 DEF SecurityRevoke
    <3> QED
      BY <1>2, <2>6, <3>1
  <2>7. ASSUME NEW c \in Callers, \/ Publish(c) \/ syncState(c) \/ Advance(c) \/ writeMinimum(c)
                                  \/ bindSuppression(c)
        PROVE  DeletionInv' /\ JournalInv'
    BY <2>7, PublishKept, SyncKept, MinimumKept, BindKept
  <2>8. CASE PowerLoss \/ \E c \in Callers : stopConfirm(c)
    BY <2>8, LossKept
  <2>9. ASSUME NEW r \in Requests, EraseBatch(r) PROVE DeletionInv' /\ JournalInv'
    <3>1. UNCHANGED deletionVars
      BY <2>9 DEF EraseBatch
    <3> QED
      BY <1>1, <3>1
  <2> QED
    BY <1>4, <2>1, <2>2, <2>3, <2>4, <2>5, <2>6, <2>7, <2>8, <2>9 DEF DeletionNext
<1> QED
  BY <1>3, <1>4 DEF AccountStep

-----------------------------------------------------------------------------
(* The invariant of the accounts.                                           *)

(* Every step of an account keeps its credentials: an account is erased     *)
(* before its receipts are forgotten.                                       *)
LEMMA TokensKept ==
  ASSUME TokensInv, EpochType, DeletionInv, AccountStep
  PROVE  TokensInv'
<1>1. CASE AccountsNext
  BY <1>1, AccountsKeepTokens
<1>2. ASSUME NEW r \in Requests, EraseBatch(r) PROVE TokensInv'
  <2>1. jobs[r].account \in erased
    BY <1>2 DEF EraseBatch, DeletionInv, ErasedFirst
  <2> QED
    BY <1>2, <2>1, EraseKeepsTokens
<1>3. CASE CredentialsKept
  BY <1>3, TokensFrame
<1> QED
  BY <1>1, <1>2, <1>3, CredentialSteps

AccountsInv == TokensInv /\ AuthorityInv /\ ModerationInv /\ DeletionInv /\ JournalInv

(* It holds at first.                                                       *)
LEMMA AccountsStart == DeletionInit => AccountsInv
BY TokensStart, AuthorityStart, ModerationStart, DeletionStart, JournalStart
   DEF AccountsInv, DeletionInit, EnforcementInit

(* Every step of an account keeps it.                                       *)
LEMMA AccountsKept == ASSUME AccountsInv, AccountStep PROVE AccountsInv'
<1>1. TokensInv' /\ DeletionInv' /\ JournalInv'
  BY TokensKept, DeletionKept DEF AccountsInv, AuthorityInv
<1>2. AuthorityInv' /\ ModerationInv'
  BY AuthorityKept, ModerationKept DEF AccountsInv
<1> QED
  BY <1>1, <1>2 DEF AccountsInv

(* What the invariant says of the authority that runs check.                *)
LEMMA AuthorityHolds == AuthorityInv => AuthorityFresh
BY DEF AuthorityInv, RootsFresh, BrowsersFresh, ApprovedNow, AuthorityFresh

(* Accounts alone, with no portal: credentials, moderation, deletion and    *)
(* the journal keep their invariant in every behaviour.                     *)
THEOREM AccountsInvariant == DeletionSpec => []AccountsInv
<1>1. AccountsInv /\ [DeletionNext]_allVars => AccountsInv'
  <2>1. CASE UNCHANGED allVars
    <3>1. Elsewhere
      BY <2>1 DEF allVars, enforcementVars, accountVars, erasureVars, Elsewhere
    <3> QED
      BY <3>1, AccountsKept DEF AccountStep
  <2>2. CASE DeletionNext
    BY <2>2, AccountsKept DEF AccountStep
  <2> QED
    BY <2>1, <2>2
<1> QED
  BY <1>1, AccountsStart, PTL DEF DeletionSpec
=============================================================================
