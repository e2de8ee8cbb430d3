----------------------------- MODULE TextOwner -----------------------------
(***************************************************************************)
(* store.TextOwner: one process at a time may write text value rows.       *)
(* Ownership is a PostgreSQL session-level advisory lock on a pinned       *)
(* connection plus the row text_process_current; every value transaction   *)
(* starts with ownerFence, which holds a SHARE lock on that table through  *)
(* its commit, while a successor takes it EXCLUSIVE to move the row.  A    *)
(* successor becomes ready only when RecoverLostOwners has closed all work *)
(* of the owners it superseded.                                            *)
(*                                                                         *)
(* A process may crash, lose its session without noticing, or pause with a *)
(* transaction open; a transaction is two steps, the fence that opens it   *)
(* and its commit or rollback, and several are open at once.  Within a     *)
(* transaction the row locks make the body atomic.                         *)
(***************************************************************************)
EXTENDS TextAdmissions

CONSTANTS
  Conns,       \* pooled connections, each with at most one open transaction
  OriginalSize \* seats of a match

VARIABLES
  db,          \* the value rows
  lock,        \* the incarnation whose session holds the advisory lock
  current,     \* text_process_current
  lost,        \* text_process_owners with lost_at set
  recovered,   \* ... and with recovered_at set
  local,       \* where each process is
  txn          \* the open fenced transaction of each connection

ownerVars == <<lock, current, lost, recovered, local>>
vars == <<db, ownerVars, txn>>

NoTxn == [by |-> None, recovery |-> FALSE]
Idle(c) == txn[c] = NoTxn

Init ==
  /\ db = EmptyStore
  /\ lock = None
  /\ current = None
  /\ lost = {}
  /\ recovered = {}
  /\ local = [p \in Owners |-> "new"]
  /\ txn = [c \in Conns |-> NoTxn]

-----------------------------------------------------------------------------
\* AcquireTextOwner: the advisory lock is tried first.
TryLock(p) ==
  /\ local[p] = "new" /\ lock = None
  /\ lock' = p
  /\ local' = [local EXCEPT ![p] = "acquiring"]
  /\ UNCHANGED <<db, current, lost, recovered, txn>>

\* Mutant: the table lock does not conflict with the fence's SHARE lock.
TableFree_Shared == TRUE

\* The EXCLUSIVE table lock waits for every transaction that passed the fence.
TableFree == \A c \in Conns : Idle(c)

\* The transaction on the pinned connection supersedes the previous owner.  Its
\* commit may succeed although the response is lost: the session is discarded.
Acquire(p) ==
  /\ local[p] = "acquiring" /\ lock = p /\ TableFree
  /\ lost' = lost \cup ({current} \ {None})
  /\ current' = p
  /\ \/ local' = [local EXCEPT ![p] = "recovering"] /\ UNCHANGED lock
     \/ local' = [local EXCEPT ![p] = "lost"] /\ lock' = None
  /\ UNCHANGED <<db, recovered, txn>>

\* The database ends a session on its own: nobody has noticed yet.
SessionEnds ==
  /\ lock # None
  /\ lock' = None
  /\ UNCHANGED <<db, current, lost, recovered, local, txn>>

\* loseLocked, through a failed or negative Check, a failed acquisition or
\* Release: done is closed and the pinned session discarded.
LoseAuthority(p) ==
  /\ local[p] \in {"acquiring", "recovering", "clean", "ready"}
  /\ local' = [local EXCEPT ![p] = "lost"]
  /\ lock' = IF lock = p THEN None ELSE lock
  /\ UNCHANGED <<db, current, lost, recovered, txn>>

\* The process dies; the server rolls its open transactions back.
Crash(p) ==
  /\ local[p] \notin {"new", "crashed"}
  /\ local' = [local EXCEPT ![p] = "crashed"]
  /\ lock' = IF lock = p THEN None ELSE lock
  /\ txn' = [c \in Conns |-> IF txn[c].by = p THEN NoTxn ELSE txn[c]]
  /\ UNCHANGED <<db, current, lost, recovered>>

-----------------------------------------------------------------------------
\* textOwnerAuthoritySQL
Authority(p) == current = p /\ lock = p /\ p \notin lost

\* ownerFence: the current token is this one, done is open, the process is ready
\* unless it recovers, and its session still holds the advisory lock.  Recovery
\* runs one transaction after the other, before anything else has started.
MayBegin(p) ==
  \/ local[p] = "ready"
  \/ local[p] = "recovering" /\ \A c \in Conns : txn[c].by # p
Begin(p, c) ==
  /\ Idle(c)
  /\ MayBegin(p) /\ Authority(p)
  /\ txn' = [txn EXCEPT ![c] = [by |-> p, recovery |-> local[p] = "recovering"]]
  /\ UNCHANGED <<db, ownerVars>>

Rollback(c) ==
  /\ ~Idle(c)
  /\ txn' = [txn EXCEPT ![c] = NoTxn]
  /\ UNCHANGED <<db, ownerVars>>

\* A value transaction commits this change of the rows.
Commit(c, rows) ==
  /\ txn' = [txn EXCEPT ![c] = NoTxn]
  /\ db' = rows
  /\ UNCHANGED <<ownerVars>>

\* The caller read its clock before it waited for locks, so the day of a change
\* need not be the current one, nor the day of the change before it.
Writing(c) == ~Idle(c) /\ ~txn[c].recovery

CommitReserve(c) ==
  /\ Writing(c)
  /\ \E id \in AdmissionIds, a \in Accounts, kind \in Kinds, day \in Days :
       /\ MayReserve(db, id, a, kind, day)
       /\ Commit(c, Reserve(db, id, a, txn[c].by, kind, day))

CommitCancelReservation(c) ==
  /\ Writing(c)
  /\ \E id \in AdmissionIds :
       /\ MayCancelReservation(db, id, txn[c].by)
       /\ Commit(c, CancelReservation(db, id))

CommitPrepare(c) ==
  /\ Writing(c)
  /\ \E m \in MatchIds, ids \in SUBSET AdmissionIds :
       /\ Cardinality(ids) = OriginalSize
       /\ MayPrepare(db, m, ids, txn[c].by)
       /\ Commit(c, Prepare(db, m, ids, txn[c].by))

CommitStart(c) ==
  /\ Writing(c)
  /\ \E m \in MatchIds, kinds \in [Accounts -> Kinds], day \in Days :
       /\ MayStart(db, m, txn[c].by, kinds, day)
       /\ Commit(c, Start(db, m, kinds, day))

CommitCancelPrepared(c) ==
  /\ Writing(c)
  /\ \E m \in MatchIds :
       /\ MayCancelPrepared(db, m, txn[c].by)
       /\ Commit(c, CancelPrepared(db, m))

CommitInterrupt(c) ==
  /\ Writing(c)
  /\ \E m \in MatchIds :
       /\ MayInterrupt(db, m, txn[c].by)
       /\ Commit(c, Interrupt(db, m))

CommitFinish(c) ==
  /\ Writing(c)
  /\ \E m \in MatchIds :
       /\ MayFinish(db, m, txn[c].by)
       /\ Commit(c, Finish(db, m))

CommitWrite(c) ==
  \/ CommitReserve(c) \/ CommitCancelReservation(c) \/ CommitPrepare(c)
  \/ CommitStart(c) \/ CommitCancelPrepared(c) \/ CommitInterrupt(c) \/ CommitFinish(c)

-----------------------------------------------------------------------------
OpenMatches(S) == {m \in MatchIds : /\ db.mat[m].owner \in S
                                    /\ db.mat[m].state \in {"prepared", "started"}}
OpenReservations(S) == {id \in AdmissionIds : MayCancelReservation(db, id, db.adm[id].owner)
                                              /\ db.adm[id].owner \in S}

Recovering(c) == ~Idle(c) /\ txn[c].recovery

\* One item of RecoverLostOwners: a lost owner's match is closed under that
\* owner's identity, its standalone reservation released.  The code takes the
\* items in the order of generation; any order is allowed here.
RecoverMatch(c) ==
  /\ Recovering(c)
  /\ \E m \in OpenMatches(lost) :
       LET p == db.mat[m].owner IN
       \/ MayInterrupt(db, m, p) /\ Commit(c, Interrupt(db, m))
       \/ MayCancelPrepared(db, m, p) /\ Commit(c, CancelPrepared(db, m))

RecoverReservation(c) ==
  /\ Recovering(c)
  /\ \E id \in OpenReservations(lost) : Commit(c, CancelReservation(db, id))

\* Lost owners with no open work left.
CleanOwners ==
  {p \in lost : OpenMatches({p}) = {} /\ OpenReservations({p}) = {}}

\* Mutant: one batch is enough to be ready.
RecoveryDone_AfterOneBatch(c) ==
  /\ Recovering(c)
  /\ recovered' = recovered \cup CleanOwners
  /\ local' = [local EXCEPT ![txn[c].by] = IF @ = "recovering" THEN "clean" ELSE @]
  /\ txn' = [txn EXCEPT ![c] = NoTxn]
  /\ UNCHANGED <<db, lock, current, lost>>

\* The last transaction of a batch: owners with nothing left are marked
\* recovered; recovery ends when no lost owner is left unrecovered.
RecoveryDone(c) ==
  /\ Recovering(c)
  /\ recovered' = recovered \cup CleanOwners
  /\ local' = [local EXCEPT ![txn[c].by] =
                 IF @ = "recovering" /\ lost \subseteq recovered \cup CleanOwners
                   THEN "clean" ELSE @]
  /\ txn' = [txn EXCEPT ![c] = NoTxn]
  /\ UNCHANGED <<db, lock, current, lost>>

\* o.ready.Store(true), after that commit.
BecomeReady(p) ==
  /\ local[p] = "clean"
  /\ local' = [local EXCEPT ![p] = "ready"]
  /\ UNCHANGED <<db, lock, current, lost, recovered, txn>>

Recover(c) == RecoverMatch(c) \/ RecoverReservation(c) \/ RecoveryDone(c)

-----------------------------------------------------------------------------
Next ==
  \/ \E p \in Owners : TryLock(p) \/ Acquire(p) \/ BecomeReady(p) \/ LoseAuthority(p) \/ Crash(p)
  \/ SessionEnds
  \/ \E c \in Conns : \/ \E p \in Owners : Begin(p, c)
                      \/ Rollback(c) \/ CommitWrite(c) \/ Recover(c)

Spec == Init /\ [][Next]_vars

\* recoverTextRuntime repeats batches: a recovery transaction is opened again
\* after one that failed, and a batch reaches its items and its last transaction.
Fairness ==
  /\ \A p \in Owners : /\ WF_vars(\E c \in Conns : local[p] = "recovering" /\ Begin(p, c))
                        /\ WF_vars(BecomeReady(p))
  /\ \A c \in Conns : /\ SF_vars(RecoverMatch(c) \/ RecoverReservation(c))
                       /\ SF_vars(RecoveryDone(c))
                       /\ WF_vars(Rollback(c))
FairSpec == Spec /\ Fairness

-----------------------------------------------------------------------------
OwnerOrNone == Owners \cup {None}
Admission ==
  [state : {"absent", "reserved", "started", "released", "compensated"},
   account : Accounts \cup {None}, owner : OwnerOrNone, match : MatchIds \cup {None},
   kind : Kinds \cup {"none"}, day : Days \cup {None}]
Match ==
  [state : {"absent", "prepared", "started", "cancelled", "interrupted", "completed"},
   owner : OwnerOrNone]
Store ==
  [adm : [AdmissionIds -> Admission], mat : [MatchIds -> Match],
   count : [Accounts -> [Days -> Nat]]]

\* The shape of the rows and of the owner registry; the counts of
\* daily_quickplay_counts never go below zero.
TypeOK ==
  /\ db \in Store
  /\ lock \in OwnerOrNone /\ current \in OwnerOrNone
  /\ lost \subseteq Owners /\ recovered \subseteq Owners
  /\ local \in [Owners -> {"new", "acquiring", "recovering", "clean", "ready", "lost", "crashed"}]
  /\ txn \in [Conns -> [by : OwnerOrNone, recovery : BOOLEAN]]

\* Whoever is about to commit is the current owner: no transaction that passed
\* ownerFence is still open once a successor has moved text_process_current, even
\* if its process was paused or lost its session in between.
OneWriter == \A c \in Conns : ~Idle(c) => txn[c].by = current /\ current \notin lost

\* Nothing of a process recorded as recovered is open, and nothing of it opens
\* again: recovered_at is final although the process itself may still run.
RecoveredIsClean == OpenMatches(recovered) = {} /\ OpenReservations(recovered) = {}

\* A process that may admit players has no predecessor with work left open, so no
\* account is held by a match nobody runs.
ReadyMeansClean ==
  \A p \in Owners : local[p] = "ready" /\ current = p =>
    /\ OpenMatches(Owners \ {p}) = {} /\ OpenReservations(Owners \ {p}) = {}

\* An account holds one seat or reservation at a time, over all generations, and
\* Prepare therefore never seats it twice.
OneAdmission == \A a \in Accounts : Cardinality(OpenOf(db, a)) <= 1

\* A match and the admissions linked to it change together: all reserved until
\* the start, all started until the end, none open afterwards.
LinkedAdmissions ==
  \A id \in AdmissionIds : db.adm[id].match # None =>
    LET m == db.mat[db.adm[id].match] IN
    /\ db.adm[id].owner = m.owner
    /\ db.adm[id].state = CASE m.state = "prepared" -> "reserved"
                             [] m.state = "started" -> "started"
                             [] m.state = "interrupted" -> "compensated"
                             [] OTHER -> "released"

\* The allowance an account has used of a day is the number of free matches it
\* played or is playing that day: every consumption is counted once, every
\* interruption gives back exactly what its match consumed, on the same day.
Used(a, d) ==
  {id \in AdmissionIds :
     /\ db.adm[id].account = a /\ db.adm[id].day = d /\ db.adm[id].kind = "free"
     /\ \/ db.adm[id].state = "started"
        \/ db.adm[id].match # None /\ db.mat[db.adm[id].match].state = "completed"}
QuotaExact ==
  \A a \in Accounts, d \in Days :
    /\ db.count[a][d] = Cardinality(Used(a, d))
    /\ db.count[a][d] <= FreeDailyQuickplayMatches

\* A successor that keeps its session gets through recovery, whatever the owners
\* before it left behind: no row it finds makes recovery fail for ever.
RecoveryCompletes ==
  \A p \in Owners : (current = p /\ local[p] = "recovering") ~> (local[p] = "ready" \/ lock # p)
=============================================================================
