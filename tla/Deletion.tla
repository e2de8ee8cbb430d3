------------------------------ MODULE Deletion ------------------------------
(***************************************************************************)
(* Deletion of an account (server/internal/auth/deletion.go over functions *)
(* of the database, handler/deletion.go) and the journal of suppressions   *)
(* that outlives the database (server/internal/privacy/journal.go,         *)
(* minimum.go, installations.go).                                          *)
(*                                                                         *)
(* A confirmation commits in the database, publishes its record in the     *)
(* journal with no lock held there, and binds the receipt afterwards.  The *)
(* journal replaces its file by a rename and syncs afterwards: until then  *)
(* a loss of power may bring the former file back.  The minimum is a       *)
(* second such file, with the newest receipt that was given; the digest of *)
(* a receipt stands for all the records up to it, so a receipt is the      *)
(* sequence of those records.                                              *)
(***************************************************************************)
EXTENDS Enforcement, Sequences, SequencesExt

CONSTANTS
    Intents,        \* 1..n, in the order they are begun
    Requests

ASSUME DeletionAssumption ==
    Intents \subseteq Nat \ {0} /\ "none" \notin Requests /\ "none" \notin Callers

VARIABLES
    clock,          \* instants that are compared: intents created, security revocations
    caps,           \* caps[a]: privacy_deletion_capabilities
    intents,        \* privacy_deletion_intents; stale is history: the accounts
                    \* whose authority was withdrawn while the intent was open
    jobs,           \* jobs[r]: privacy_requests with the suppression receipt
    confirm,        \* confirm[c]: Confirm after its transaction
    journal,        \* the records: as read now, and as kept by the disk
    minimum,        \* the newest receipt: as read now, and as kept by the disk
    flock           \* holder of the lock file of the journal

deletionVars == <<clock, caps, intents, jobs, confirm, journal, minimum, flock>>
fileVars == <<journal, minimum, flock>>
allVars == <<enforcementVars, deletionVars>>

NoRequestId == "none"
NoCap == [row |-> FALSE, cap |-> 0, epoch |-> 1, revoked |-> 0]
NoIntent == [kind |-> "none", account |-> NoAccount, state |-> "none", epoch |-> 0,
             device |-> NoDevice, cap |-> 0, security |-> 0, created |-> 0,
             request |-> NoRequestId, stale |-> {}]
NoJob == [account |-> NoAccount, bound |-> <<>>]

DeletionInit ==
    /\ EnforcementInit
    /\ clock = 1
    /\ caps = [a \in AccountIds |-> NoCap]
    /\ intents = [i \in Intents |-> NoIntent]
    /\ jobs = [r \in Requests |-> NoJob]
    /\ confirm = [c \in Callers |-> Idle]
    /\ journal = [seen |-> <<>>, kept |-> <<>>]
    /\ minimum = [seen |-> <<>>, kept |-> <<>>]
    /\ flock = "none"

-----------------------------------------------------------------------------
(* Authority to delete.                                                     *)

authorityUnchanged == UNCHANGED <<enforcementVars, jobs, confirm, fileVars>>

Withdrawn(a) == [i \in Intents |->
    IF intents[i].state \notin {"none", "consumed"} THEN [intents[i] EXCEPT !.stale = @ \cup {a}] ELSE intents[i]]

New(i) == intents[i].state = "none" /\ \A j \in 1..(i - 1) : intents[j].state # "none"

BeginEnrollment(i, p) ==
    /\ New(i)
    /\ ValidateAccessToken(p) /\ <<p.account, p.device>> \in devs
    /\ intents' = [intents EXCEPT ![i] = [NoIntent EXCEPT !.kind = "enroll", !.account = p.account,
                     !.state = "pending", !.epoch = p.epoch, !.device = p.device, !.created = clock]]
    /\ clock' = clock + 1
    /\ authorityUnchanged /\ UNCHANGED caps

(* EnrollCapability replaces the capability; its repetition is accepted as  *)
(* long as nothing else was enrolled.  The capability is named by its       *)
(* intent.                                                                  *)
EnrollCapability(i) ==
    LET a == intents[i].account IN
    /\ intents[i].kind = "enroll" /\ intents[i].state = "pending"
    /\ accountSession(a) /\ epoch[a] = intents[i].epoch
    /\ <<a, intents[i].device>> \in devs /\ installationAllowed(intents[i].device)
    /\ caps' = [caps EXCEPT ![a] = [caps[a] EXCEPT !.row = TRUE, !.cap = i,
                     !.epoch = IF caps[a].row THEN caps[a].epoch + 1 ELSE caps[a].epoch]]
    /\ intents' = [j \in Intents |->
         IF j = i THEN [intents[i] EXCEPT !.state = "consumed"]
         ELSE IF intents[j].account = a /\ (intents[j].kind = "capability" \/ intents[j].state = "verified")
         THEN Withdrawn(a)[j] ELSE intents[j]]
    /\ authorityUnchanged /\ UNCHANGED clock

BeginCapabilityIntent(i, cap) ==
    /\ New(i)
    /\ \E a \in AccountIds \ erased :
         /\ caps[a].cap = cap
         /\ intents' = [intents EXCEPT ![i] = [NoIntent EXCEPT !.kind = "capability", !.account = a,
                !.state = "pending", !.cap = cap, !.security = caps[a].epoch, !.created = clock]]
    /\ clock' = clock + 1
    /\ authorityUnchanged /\ UNCHANGED caps

BeginProviderIntent(i) ==
    /\ New(i)
    /\ intents' = [intents EXCEPT ![i] = [NoIntent EXCEPT !.kind = "oauth", !.state = "pending", !.created = clock]]
    /\ clock' = clock + 1
    /\ authorityUnchanged /\ UNCHANGED caps

(* CompleteProviderIntent takes the intent, asks the provider with no lock  *)
(* held, and verifies it against the link as it is then.                    *)
claimProviderIntent(i) ==
    /\ intents[i].kind = "oauth" /\ intents[i].state = "pending"
    /\ intents' = [intents EXCEPT ![i].state = "exchanging"]
    /\ authorityUnchanged /\ UNCHANGED <<clock, caps>>

CompleteProviderIntent(i, s) ==
    LET a == links[s] IN
    /\ intents[i].state = "exchanging"
    /\ a # NoAccount /\ a \notin erased
    /\ caps[a].revoked < intents[i].created
    /\ caps' = [caps EXCEPT ![a].row = TRUE]
    /\ intents' = [intents EXCEPT ![i].state = "verified", ![i].account = a, ![i].security = caps[a].epoch]
    /\ authorityUnchanged /\ UNCHANGED clock

SecurityRevoke(a) ==
    /\ a \in accounts \ erased
    /\ caps' = [caps EXCEPT ![a] = [row |-> TRUE, cap |-> 0, revoked |-> clock,
                                    epoch |-> IF caps[a].row THEN @.epoch + 1 ELSE 1]]
    /\ clock' = clock + 1
    /\ intents' = Withdrawn(a)
    /\ RevokeSessionsTx(a)
    /\ UNCHANGED <<plan, accounts, erasureVars, devs, boot, pairs, spent, rotations, login, flows, links,
                   moderationVars, liveVars, visit, jobs, confirm, fileVars>>

-----------------------------------------------------------------------------
(* Confirm: its transaction.                                                *)

\* Mutant: the intent is good for any generation of the authority.
authorised_AnyEpoch(i) ==
    LET a == intents[i].account IN
    \/ intents[i].kind = "capability" /\ intents[i].state = "pending" /\ caps[a].cap = intents[i].cap
    \/ /\ intents[i].kind = "oauth" /\ intents[i].state = "verified"
       /\ \E s \in Subjects : links[s] = a

authorised(i) ==
    LET a == intents[i].account IN
    /\ a # NoAccount /\ caps[a].row /\ caps[a].epoch = intents[i].security
    /\ \/ intents[i].kind = "capability" /\ intents[i].state = "pending" /\ caps[a].cap = intents[i].cap
       \/ /\ intents[i].kind = "oauth" /\ intents[i].state = "verified"
          /\ caps[a].revoked < intents[i].created
          /\ \E s \in Subjects : links[s] = a

confirmDeletion(c, i, r) ==
    LET a == intents[i].account IN
    /\ confirm[c].pc = "idle" /\ intents[i].state \in {"pending", "verified"} /\ authorised(i)
    /\ jobs[r] = NoJob /\ a \notin erased
    /\ jobs' = [jobs EXCEPT ![r].account = a]
    /\ erased' = erased \cup {a}
    /\ RevokeSessionsTx(a)
    /\ caps' = [caps EXCEPT ![a].cap = 0, ![a].epoch = @ + 1]
    /\ intents' = [intents EXCEPT ![i].state = "consumed", ![i].request = r]
    /\ confirm' = [confirm EXCEPT ![c] = [pc |-> "publish", request |-> r]]
    /\ UNCHANGED <<plan, accounts, tombs, devs, boot, pairs, spent, rotations, login, flows, links,
                   moderationVars, liveVars, visit, clock, fileVars>>

(* A repetition with the same request finds the committed one.              *)
confirmAgain(c, i) ==
    /\ confirm[c].pc = "idle" /\ intents[i].state = "consumed" /\ intents[i].request # NoRequestId
    /\ confirm' = [confirm EXCEPT ![c] = [pc |-> "publish", request |-> intents[i].request]]
    /\ UNCHANGED <<enforcementVars, clock, caps, intents, jobs, fileVars>>

-----------------------------------------------------------------------------
(* Publish, under the lock file.                                            *)

databaseUnchanged == UNCHANGED <<enforcementVars, clock, caps, intents>>

verifyRecords == IsPrefix(minimum.seen, journal.seen)

\* Mutant: a record that is found is not synced before the minimum advances.
Publish_Unsynced(c) ==
    LET r == confirm[c].request IN
    /\ confirm[c].pc = "publish" /\ flock = "none" /\ verifyRecords
    /\ flock' = c
    /\ IF \E k \in DOMAIN journal.seen : journal.seen[k] = r
       THEN UNCHANGED journal /\ confirm' = [confirm EXCEPT ![c].pc = "advance"]
       ELSE /\ journal' = [journal EXCEPT !.seen = Append(@, r)]
            /\ confirm' = [confirm EXCEPT ![c].pc = "sync"]
    /\ databaseUnchanged /\ UNCHANGED <<jobs, minimum>>

Publish(c) ==
    LET r == confirm[c].request IN
    /\ confirm[c].pc = "publish" /\ flock = "none" /\ verifyRecords
    /\ flock' = c
    /\ journal' = IF \E k \in DOMAIN journal.seen : journal.seen[k] = r THEN journal
                  ELSE [journal EXCEPT !.seen = Append(@, r)]
    /\ confirm' = [confirm EXCEPT ![c].pc = "sync"]
    /\ databaseUnchanged /\ UNCHANGED <<jobs, minimum>>

syncState(c) ==
    /\ confirm[c].pc = "sync"
    /\ journal' = [journal EXCEPT !.kept = journal.seen]
    /\ confirm' = [confirm EXCEPT ![c].pc = "advance"]
    /\ databaseUnchanged /\ UNCHANGED <<jobs, minimum, flock>>

(* Advance refuses to go back; the rename and the sync of the minimum.      *)
Advance(c) ==
    /\ confirm[c].pc = "advance"
    /\ IsPrefix(minimum.seen, journal.seen)
    /\ minimum' = [minimum EXCEPT !.seen = journal.seen]
    /\ confirm' = [confirm EXCEPT ![c].pc = "advanced"]
    /\ databaseUnchanged /\ UNCHANGED <<jobs, journal, flock>>

writeMinimum(c) ==
    /\ confirm[c].pc = "advanced"
    /\ minimum' = [minimum EXCEPT !.kept = minimum.seen]
    /\ flock' = "none"
    /\ confirm' = [confirm EXCEPT ![c] = [pc |-> "bind", request |-> @.request,
            receipt |-> SubSeq(journal.seen, 1,
                          CHOOSE k \in DOMAIN journal.seen : journal.seen[k] = confirm[c].request)]]
    /\ databaseUnchanged /\ UNCHANGED <<jobs, journal>>

(* privacy_bind_suppression: once; another receipt is refused.              *)
bindSuppression(c) ==
    /\ confirm[c].pc = "bind"
    /\ jobs' = IF jobs[confirm[c].request].bound = <<>>
               THEN [jobs EXCEPT ![confirm[c].request].bound = confirm[c].receipt] ELSE jobs
    /\ confirm' = [confirm EXCEPT ![c] = Idle]
    /\ databaseUnchanged /\ UNCHANGED fileVars

(* An error or the end of its time stops a confirmation anywhere: the       *)
(* request stays prepared.  A loss of power also decides for each file      *)
(* which content is left.                                                   *)
stopConfirm(c) ==
    /\ confirm[c].pc # "idle"
    /\ confirm' = [confirm EXCEPT ![c] = Idle]
    /\ flock' = IF flock = c THEN "none" ELSE flock
    /\ databaseUnchanged /\ UNCHANGED <<jobs, journal, minimum>>

PowerLoss ==
    /\ journal.seen # journal.kept \/ minimum.seen # minimum.kept
    /\ \E s \in {journal.seen, journal.kept} : journal' = [seen |-> s, kept |-> s]
    /\ \E m \in {minimum.seen, minimum.kept} : minimum' = [seen |-> m, kept |-> m]
    /\ confirm' = [c \in Callers |-> Idle]
    /\ flock' = "none"
    /\ databaseUnchanged /\ UNCHANGED jobs

(* EraseBatch, once the receipt is bound and the credentials are gone: the  *)
(* installations of the account and the rotations it kept; evidence in the  *)
(* place of the bootstrap refuses a new account for the installation.       *)
EraseBatch(r) ==
    LET a == jobs[r].account
        mine == {q \in rotations : q.account = a} IN
    /\ jobs[r].bound # <<>>
    /\ \E d \in Devices : <<a, d>> \in devs
    /\ devs' = {x \in devs : x[1] # a}
    /\ tombs' = tombs \cup {d \in Devices : boot[d] = a}
    /\ boot' = [d \in Devices |-> IF boot[d] = a THEN NoAccount ELSE boot[d]]
    /\ rotations' = rotations \ mine
    /\ spent' = spent \ ({q.old : q \in mine} \cup {q.new : q \in mine})
    /\ links' = [s \in Subjects |-> IF links[s] = a THEN NoAccount ELSE links[s]]
    /\ UNCHANGED <<plan, accounts, epoch, erased, pairs, login, flows, moderationVars, liveVars, browserVars,
                   deletionVars>>

-----------------------------------------------------------------------------
DeletionNext ==
    \/ EnforcementNext /\ UNCHANGED deletionVars
    \/ Asked("delete") /\ \E i \in Intents :
         \/ \E p \in pairs : BeginEnrollment(i, p)
         \/ EnrollCapability(i) \/ BeginProviderIntent(i) \/ claimProviderIntent(i)
         \/ \E cap \in Intents : BeginCapabilityIntent(i, cap)
         \/ \E s \in Subjects : CompleteProviderIntent(i, s)
         \/ \E c \in Callers : \/ confirmAgain(c, i)
                               \/ \E r \in Requests : confirmDeletion(c, i, r)
    \/ Asked("revoke") /\ \E a \in AccountIds : caps[a].revoked = 0 /\ SecurityRevoke(a)
    \/ \E c \in Callers : \/ Publish(c) \/ syncState(c) \/ Advance(c) \/ writeMinimum(c) \/ bindSuppression(c)
    \/ Asked("fault") /\ (PowerLoss \/ \E c \in Callers : stopConfirm(c))
    \/ \E r \in Requests : EraseBatch(r)

DeletionSpec == DeletionInit /\ [][DeletionNext]_allVars

-----------------------------------------------------------------------------
(* Properties.                                                              *)

(* A receipt that a request is bound to is in the journal for good, ends    *)
(* with that request, and every request is in it once; and whatever the     *)
(* disk brings back after a loss of power, the journal still satisfies the  *)
(* minimum, so that it can be opened and no suppression is forgotten.       *)
SuppressionKept ==
    /\ \A r \in Requests : jobs[r].bound # <<>> =>
         IsPrefix(jobs[r].bound, journal.kept) /\ Last(jobs[r].bound) = r
    /\ Cardinality({journal.seen[k] : k \in DOMAIN journal.seen}) = Len(journal.seen)
    /\ \A j \in {journal.seen, journal.kept}, m \in {minimum.seen, minimum.kept} : IsPrefix(m, j)

(* An account is deleted by one request, on an intent whose authority was   *)
(* never withdrawn while it was open: not by a capability that was enrolled *)
(* anew, and not by one, nor by a verified identity, from before a security *)
(* revocation.                                                              *)
DeletedByAuthority ==
    \A i, j \in Intents : intents[i].request # NoRequestId =>
        /\ intents[i].account \notin intents[i].stale
        /\ intents[j].request # NoRequestId /\ intents[j].account = intents[i].account => i = j

=============================================================================
