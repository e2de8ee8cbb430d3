------------------------------ MODULE Accounts ------------------------------
(***************************************************************************)
(* Player credentials (server/internal/auth): the account that an          *)
(* installation bootstraps, pairs of access and refresh tokens, their      *)
(* rotation, the binding of tokens that predate installations, identities  *)
(* of a provider that are linked to an account or restore it, and the      *)
(* generation of sessions that a revocation closes.                        *)
(*                                                                         *)
(* Every write below is one transaction under the lock of the account row; *)
(* what the code reads outside it is a step of its own.  Tokens and flows  *)
(* end by time: such an end is a step of the environment.  A pair of       *)
(* tokens has one number: only refresh ids are ever revoked.               *)
(***************************************************************************)
EXTENDS Integers, FiniteSets, FiniteSetsExt

CONSTANTS
    AccountIds, Devices, Subjects, Callers,
    Flows,          \* 1..n, in the order they are begun
    NoAccount, NoDevice,
    SanctionIds, FreezeIds,     \* 1..n, in the order of their rows
    MaxPairs,       \* bound on issued pairs
    MaxEpoch,       \* bound on the generations of a session
    Plans           \* the requests that are made in a behaviour, how many
                    \* decisions moderators take in it, and its first state:
                    \* [ops, decisions, start]

ASSUME AccountsAssumption ==
    /\ IsFiniteSet(AccountIds) /\ AccountIds # {} /\ NoAccount \notin AccountIds
    /\ Devices # {} /\ NoDevice \notin Devices
    /\ \A p \in Plans : p.start \in {"empty", "legacy", "players", "linked"}

VARIABLES
    plan,
    accounts,       \* rows of accounts
    epoch,          \* epoch[a]: accounts.session_epoch
    erased,         \* accounts.deleted_at is set
    devs,           \* device_tokens: pairs <<account, device>>
    boot,           \* boot[d]: auth_installation_bootstrap
    tombs,          \* installations with privacy_erased_bootstrap evidence
    pairs,          \* the signed pairs: [id, account, device, epoch, line, root];
                    \* line and root are history: the first pair of its chain,
                    \* and the generation in which its authority was proved
    spent,          \* auth_revocations: ids of used refresh tokens
    rotations,      \* auth_installation_rotations
    login,          \* login[c]: authenticateInstallation under way
    flows,          \* oauth_flows
    links,          \* links[s]: oauth_links
    sanctions,      \* account_sanctions with installations, lifts and deliveries
    freezes         \* guard_freezes

tokenVars == <<accounts, epoch, devs, boot, pairs, spent, rotations>>
erasureVars == <<erased, tombs>>
moderationVars == <<sanctions, freezes>>
accountVars == <<plan, tokenVars, erasureVars, login, flows, links, moderationVars>>

NoSanction == [state |-> "none", account |-> NoAccount, devices |-> {}, outcome |-> "none"]
NoFreeze == [state |-> "none", target |-> NoAccount, over |-> FALSE, delivery |-> "none"]
NoFlow == [status |-> "none", intent |-> "link", account |-> NoAccount, epoch |-> 0,
           device |-> NoDevice, subject |-> NoAccount, pair |-> 0, root |-> 0]
Idle == [pc |-> "idle"]

Pair(n, a, d, e, line, root) ==
    [id |-> n, account |-> a, device |-> d, epoch |-> e, line |-> line, root |-> root]

(* Where a behaviour starts: nobody is known; a client still holds a pair   *)
(* from before installations were bound; or players are signed in.          *)
StartPairs(start) ==
    CASE start = "empty" -> {}
      [] start = "legacy" -> {Pair(1, a, NoDevice, 0, 1, 0) : a \in {CHOOSE x \in AccountIds : TRUE}}
      [] start \in {"players", "linked"} ->
           LET nth == CHOOSE f \in [1..Cardinality(AccountIds) -> AccountIds] : Cardinality({f[i] : i \in DOMAIN f}) = Cardinality(AccountIds)
               shared == CHOOSE d \in Devices : TRUE
           IN {Pair(i, nth[i], shared, 0, i, 0) : i \in DOMAIN nth}

AccountsInit ==
    \E p \in Plans :
      /\ plan = p
      /\ pairs = StartPairs(p.start)
      /\ accounts = {q.account : q \in pairs}
      /\ epoch = [a \in AccountIds |-> 0]
      /\ erased = {}
      /\ tombs = {}
      /\ devs = {<<q.account, q.device>> : q \in {r \in pairs : r.device # NoDevice}}
      /\ boot = [d \in Devices |->
                   LET owners == {q \in pairs : q.device = d /\ q.id = 1}
                   IN IF owners = {} THEN NoAccount ELSE (CHOOSE q \in owners : TRUE).account]
      /\ spent = {}
      /\ rotations = {}
      /\ login = [c \in Callers |-> Idle]
      /\ flows = [f \in Flows |-> NoFlow]
      /\ links = [s \in Subjects |->
                    IF p.start = "linked" /\ s = (CHOOSE t \in Subjects : TRUE)
                    THEN (CHOOSE q \in pairs : q.id = 1).account ELSE NoAccount]
      /\ sanctions = [i \in SanctionIds |-> NoSanction]
      /\ freezes = [i \in FreezeIds |-> NoFreeze]

-----------------------------------------------------------------------------
(* What the guards read.                                                    *)

direct_account_sanction_active(a) ==
    \E i \in SanctionIds : sanctions[i].state = "active" /\ sanctions[i].account = a
installation_sanction_active(d) ==
    \E i \in SanctionIds : sanctions[i].state = "active" /\ d \in sanctions[i].devices

banned(a) == \E i \in FreezeIds : freezes[i].target = a /\ freezes[i].state = "permanent"
suspended(a) == \E i \in FreezeIds : freezes[i].target = a /\ freezes[i].state = "timed" /\ ~freezes[i].over

accountSession(a) ==
    /\ a \in accounts \ erased
    /\ ~banned(a) /\ ~suspended(a) /\ ~direct_account_sanction_active(a)

installationAllowed(d) == d # NoDevice /\ ~installation_sanction_active(d)

(* ValidateAccessToken; within a transaction ValidateAccessTokenTx.         *)
ValidateAccessToken(p) ==
    /\ accountSession(p.account) /\ epoch[p.account] = p.epoch
    /\ installationAllowed(p.device)

linkInstallation(a, d) ==
    /\ installationAllowed(d)
    /\ devs' = devs \cup {<<a, d>>}

issued == Cardinality(pairs)
signTokens(a, d, line, root) ==
    /\ issued < MaxPairs
    /\ pairs' = pairs \cup {Pair(issued + 1, a, d, epoch[a], line, root)}

RevokedEpoch(a) == [epoch EXCEPT ![a] = @ + 1]

-----------------------------------------------------------------------------
(* authenticateInstallation: the canonical account is read first, without a *)
(* lock; bootstrapInstallationTx reads it again under the locks of the      *)
(* account and the installation and begins anew when it has changed.        *)

bootstrapAccount(c, d) ==
    /\ login[c].pc = "idle"
    /\ login' = [login EXCEPT ![c] = [pc |-> "known", device |-> d, known |-> boot[d]]]
    /\ UNCHANGED <<plan, tokenVars, erasureVars, flows, links, moderationVars>>

\* Mutant: the mapping is not read again under the locks.
bootstrapInstallationTx_Stale(c) ==
    /\ login[c].pc = "known"
    /\ LET d == login[c].device
       IN \E a \in IF login[c].known = NoAccount THEN AccountIds \ accounts ELSE {login[c].known} :
            /\ accounts' = accounts \cup {a}
            /\ login[c].known # NoAccount => accountSession(a)
            /\ boot' = [boot EXCEPT ![d] = IF @ = NoAccount THEN a ELSE @]
            /\ linkInstallation(a, d)
            /\ signTokens(a, d, issued + 1, epoch[a])
    /\ login' = [login EXCEPT ![c] = Idle]
    /\ UNCHANGED <<plan, epoch, erasureVars, spent, rotations, flows, links, moderationVars>>

bootstrapInstallationTx(c) ==
    /\ login[c].pc = "known"
    /\ LET d == login[c].device
       IN /\ boot[d] = login[c].known /\ d \notin tombs
          /\ \E a \in IF boot[d] = NoAccount THEN AccountIds \ accounts ELSE {boot[d]} :
               /\ accounts' = accounts \cup {a}
               /\ boot[d] # NoAccount => accountSession(a)
               /\ boot' = [boot EXCEPT ![d] = a]
               /\ linkInstallation(a, d)
               /\ signTokens(a, d, issued + 1, epoch[a])
    /\ login' = [login EXCEPT ![c] = Idle]
    /\ UNCHANGED <<plan, epoch, erasureVars, spent, rotations, flows, links, moderationVars>>

(* errBootstrapChanged rolls the candidate back and starts over, eight      *)
(* times at most; a refusal ends the request.                               *)
bootstrapAgain(c) ==
    /\ login[c].pc = "known"
    /\ \/ /\ boot[login[c].device] # login[c].known
          /\ login' = [login EXCEPT ![c].known = boot[login[c].device]]
       \/ login' = [login EXCEPT ![c] = Idle]
    /\ UNCHANGED <<plan, tokenVars, erasureVars, flows, links, moderationVars>>

-----------------------------------------------------------------------------
(* Rotation.                                                                *)

Refresh(p) ==
    /\ accountSession(p.account) /\ epoch[p.account] = p.epoch
    /\ linkInstallation(p.account, p.device)
    /\ p.id \notin spent
    /\ spent' = spent \cup {p.id}
    /\ signTokens(p.account, p.device, p.line, p.root)
    /\ UNCHANGED <<plan, accounts, epoch, erasureVars, boot, rotations, login, flows, links, moderationVars>>

(* BindInstallation: the first use spends the old id and keeps a receipt of *)
(* the new one; a repetition signs the same ids again, until they are used. *)
BindInstallation(p, d) ==
    /\ p.device \in {NoDevice, d}
    /\ accountSession(p.account) /\ epoch[p.account] = p.epoch
    /\ linkInstallation(p.account, d)
    /\ LET receipts == {r \in rotations : r.old = p.id}
       IN \/ /\ receipts = {} /\ p.id \notin spent
             /\ spent' = spent \cup {p.id}
             /\ rotations' = rotations \cup {[old |-> p.id, account |-> p.account, device |-> d,
                                              epoch |-> p.epoch, new |-> issued + 1]}
             /\ signTokens(p.account, d, p.line, p.root)
          \/ /\ \E r \in receipts : r.device = d /\ r.epoch = epoch[p.account] /\ r.new \notin spent
             /\ UNCHANGED <<pairs, spent, rotations>>
    /\ UNCHANGED <<plan, accounts, epoch, erasureVars, boot, login, flows, links, moderationVars>>

-----------------------------------------------------------------------------
(* Provider identities.                                                     *)

BeginOAuth(f, intent, p, d) ==
    /\ flows[f].status = "none" /\ \A g \in 1..(f - 1) : flows[g].status # "none"
    /\ installationAllowed(d)
    /\ intent = "link" => ValidateAccessToken(p) /\ p.device = d
    /\ flows' = [flows EXCEPT ![f] = [NoFlow EXCEPT
                    !.status = "pending", !.intent = intent, !.device = d,
                    !.account = IF intent = "link" THEN p.account ELSE NoAccount,
                    !.epoch = IF intent = "link" THEN p.epoch ELSE 0,
                    !.root = IF intent = "link" THEN p.root ELSE 0]]
    /\ UNCHANGED <<plan, tokenVars, erasureVars, login, links, moderationVars>>

(* CompleteOAuth takes the flow before it asks the provider; a flow that a  *)
(* crash leaves in exchange is never taken again.                           *)
CompleteOAuth(f) ==
    /\ flows[f].status = "pending"
    /\ flows' = [flows EXCEPT ![f].status = "exchanging"]
    /\ UNCHANGED <<plan, tokenVars, erasureVars, login, links, moderationVars>>

(* verifyOAuthCode names the subject; a restoration then reads its owner    *)
(* outside the transaction.                                                 *)
verifyOAuthCode(f, s) ==
    /\ flows[f].status = "exchanging" /\ flows[f].subject = NoAccount
    /\ flows[f].intent = "restore" => links[s] # NoAccount
    /\ flows' = [flows EXCEPT ![f].subject = s,
                              ![f].account = IF flows[f].intent = "restore" THEN links[s] ELSE @]
    /\ UNCHANGED <<plan, tokenVars, erasureVars, login, links, moderationVars>>

linkOAuthTx(a, s) == links[s] \in {NoAccount, a} /\ links' = [links EXCEPT ![s] = a]

completeOAuthIdentity(f) ==
    LET w == flows[f] IN
    /\ w.status = "exchanging" /\ w.subject # NoAccount
    /\ accountSession(w.account)
    /\ linkInstallation(w.account, w.device)
    /\ IF w.intent = "restore" THEN links[w.subject] = w.account /\ UNCHANGED links
       ELSE epoch[w.account] = w.epoch /\ linkOAuthTx(w.account, w.subject)
    /\ flows' = [flows EXCEPT ![f].status = "completed", ![f].epoch = epoch[w.account],
                              ![f].root = IF w.intent = "restore" THEN epoch[w.account] ELSE @]
    /\ UNCHANGED <<plan, accounts, epoch, erasureVars, boot, pairs, spent, rotations, login, moderationVars>>

(* The flow fails at any of these steps, or it ends by time.                *)
failOAuth(f) ==
    /\ flows[f].status \in {"pending", "exchanging", "completed"}
    /\ flows' = [flows EXCEPT ![f].status = "failed"]
    /\ UNCHANGED <<plan, tokenVars, erasureVars, login, links, moderationVars>>

(* The first result fixes the ids; repetitions sign them again until the    *)
(* refresh token is used or the session generation ends.                    *)
OAuthResult(f) ==
    LET w == flows[f] IN
    /\ w.status = "completed"
    /\ accountSession(w.account) /\ w.epoch = epoch[w.account]
    /\ linkInstallation(w.account, w.device)
    /\ IF w.pair = 0
       THEN /\ signTokens(w.account, w.device, issued + 1, w.root)
            /\ flows' = [flows EXCEPT ![f].pair = issued + 1]
       ELSE w.pair \notin spent /\ UNCHANGED <<pairs, flows>>
    /\ UNCHANGED <<plan, accounts, epoch, erasureVars, boot, spent, rotations, login, links, moderationVars>>

-----------------------------------------------------------------------------
Asked(op) == op \in plan.ops

AccountsNext ==
    \/ \E c \in Callers :
         \/ Asked("bootstrap") /\ \E d \in Devices : bootstrapAccount(c, d)
         \/ bootstrapInstallationTx(c) \/ bootstrapAgain(c)
    \/ Asked("rotate") /\ \E p \in pairs : \/ Refresh(p)
                                           \/ \E d \in Devices : BindInstallation(p, d)
    \/ Asked("oauth") /\ \E f \in Flows :
         \/ \E p \in pairs, d \in Devices : BeginOAuth(f, "link", p, d)
         \/ \E d \in Devices, p \in pairs : BeginOAuth(f, "restore", p, d)
         \/ CompleteOAuth(f) \/ completeOAuthIdentity(f) \/ failOAuth(f) \/ OAuthResult(f)
         \/ \E s \in Subjects : verifyOAuthCode(f, s)

-----------------------------------------------------------------------------
(* Properties.                                                              *)

(* An installation that signs in without credentials has one account for    *)
(* ever, and no request leaves an account behind that nothing leads to:     *)
(* every account belongs to an installation, a token from before            *)
(* installations, or a link, however many requests of an installation race. *)
OneAccountPerInstallation ==
    /\ \A a \in accounts \ erased :
         \/ \E d \in Devices : boot[d] = a
         \/ \E p \in StartPairs(plan.start) : p.account = a
    /\ \A d \in Devices : boot[d] # NoAccount => <<boot[d], d>> \in devs

(* A chain of refresh tokens has at most one that can still be used,        *)
(* whatever requests are repeated: rotation, binding or the result of a     *)
(* provider flow whose answer was lost.                                     *)
OneLiveRefresh ==
    \A p, q \in {r \in pairs : r.id \notin spent /\ r.account \notin erased} : p.line = q.line => p = q

(* Racing and repeated requests neither split an identity nor double it.    *)
OneIdentity == OneAccountPerInstallation /\ OneLiveRefresh

=============================================================================
