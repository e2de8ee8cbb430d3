------------------------------ MODULE WorkGate ------------------------------
(***************************************************************************)
(* transport.WorkGate: admits HTTP requests (Handler) and workers (Go)     *)
(* until Close, then joins the ones it admitted (Wait).  Each critical     *)
(* section of g.mu is one action; Close issues its cancellations after it  *)
(* has released the lock, one per step.                                    *)
(*                                                                         *)
(* The process owns several gates, so the state is indexed by gate.  A     *)
(* task is one call of Handler's function or of Go, a closer one call of   *)
(* Close, a waiter one call of Wait.  The zero value is made usable by     *)
(* initializeLocked at the first of these calls, so a gate simply starts   *)
(* with no task and an open channel.                                       *)
(***************************************************************************)
EXTENDS FiniteSets

CONSTANTS
  Gates,
  Tasks,        \* the calls that ask for admission
  Workers,      \* those made through Go, which own a cancelable context
  GateOf,       \* the gate a task asks
  Closers, CloseOf,   \* the calls of Close and the gate each closes
  Waiters, WaitOf     \* the calls of Wait and the gate each joins

ASSUME WorkGateAssumption ==
  /\ Workers \subseteq Tasks
  /\ GateOf \in [Tasks -> Gates]
  /\ CloseOf \in [Closers -> Gates]
  /\ WaitOf \in [Waiters -> Gates]

VARIABLES
  closing,      \* g.closing
  tasks,        \* the union of the maps g.tasks
  joined,       \* g.joined; g.drained is closed exactly when it is set
  pc,           \* where each task's goroutine is
  parentDone,   \* the workers whose parent context is already canceled
  canceled,     \* the workers whose own context is canceled
  closer,       \* where each call of Close is
  cancels,      \* the cancel functions that call has yet to invoke
  waiter,       \* where each call of Wait is
  expired       \* the waiters whose context is done

gateVars == <<closing, tasks, joined, pc, parentDone, canceled, closer, cancels, waiter, expired>>

InGate(g) == {t \in tasks : GateOf[t] = g}

GateInit ==
  /\ closing = [g \in Gates |-> FALSE]
  /\ tasks = {}
  /\ joined = [g \in Gates |-> FALSE]
  /\ pc = [t \in Tasks |-> "new"]
  /\ parentDone = {}
  /\ canceled = {}
  /\ closer = [c \in Closers |-> "idle"]
  /\ cancels = [c \in Closers |-> {}]
  /\ waiter = [w \in Waiters |-> "idle"]
  /\ expired = {}

-----------------------------------------------------------------------------
\* Go's first lines: a canceled parent is refused before the gate is asked.
GoChecksParent(t) ==
  /\ t \in Workers
  /\ pc[t] = "new"
  /\ pc' = [pc EXCEPT ![t] = IF t \in parentDone THEN "refused" ELSE "checked"]
  /\ UNCHANGED <<closing, tasks, joined, parentDone, canceled, closer, cancels, waiter, expired>>

\* enter: admission and the closing flag are read under one lock.  A refused
\* worker's fresh context is canceled; a refused request is answered 503.
Enter(t) ==
  /\ pc[t] = (IF t \in Workers THEN "checked" ELSE "new")
  /\ IF closing[GateOf[t]]
       THEN /\ pc' = [pc EXCEPT ![t] = "refused"]
            /\ canceled' = canceled \cup ({t} \cap Workers)
            /\ UNCHANGED tasks
       ELSE /\ pc' = [pc EXCEPT ![t] = "running"]
            /\ tasks' = tasks \cup {t}
            /\ canceled' = canceled \cup ({t} \cap parentDone)
  /\ UNCHANGED <<closing, joined, parentDone, closer, cancels, waiter, expired>>

\* The handler or the worker function returns; a worker's deferred cancel runs
\* before its deferred finish.
Return(t) ==
  /\ pc[t] = "running"
  /\ pc' = [pc EXCEPT ![t] = "returned"]
  /\ canceled' = canceled \cup ({t} \cap Workers)
  /\ UNCHANGED <<closing, tasks, joined, parentDone, closer, cancels, waiter, expired>>

\* Mutant: the signal does not look at the tasks still in the map.
Signal_Eager(g, closed, remaining) ==
  joined' = IF closed THEN [joined EXCEPT ![g] = TRUE] ELSE joined

\* signalLocked, evaluated with the map and the flag the caller leaves.
Signal(g, closed, remaining) ==
  joined' = IF closed /\ remaining = {} THEN [joined EXCEPT ![g] = TRUE] ELSE joined

Finish(t) ==
  /\ pc[t] = "returned"
  /\ pc' = [pc EXCEPT ![t] = "finished"]
  /\ tasks' = tasks \ {t}
  /\ Signal(GateOf[t], closing[GateOf[t]], InGate(GateOf[t]) \ {t})
  /\ UNCHANGED <<closing, parentDone, canceled, closer, cancels, waiter, expired>>

\* The parent of a worker's context is canceled at any time.
ParentCanceled(t) ==
  /\ t \in Workers \ parentDone
  /\ parentDone' = parentDone \cup {t}
  /\ canceled' = canceled \cup (IF pc[t] = "running" THEN {t} ELSE {})
  /\ UNCHANGED <<closing, tasks, joined, pc, closer, cancels, waiter, expired>>

-----------------------------------------------------------------------------
\* Close under the lock: a second call returns at once, even while the first
\* one is still canceling.
CloseLocked(c) ==
  LET g == CloseOf[c] IN
  /\ closer[c] = "idle"
  /\ IF closing[g]
       THEN /\ closer' = [closer EXCEPT ![c] = "returned"]
            /\ UNCHANGED <<closing, joined, cancels>>
       ELSE /\ closer' = [closer EXCEPT ![c] = "canceling"]
            /\ closing' = [closing EXCEPT ![g] = TRUE]
            /\ cancels' = [cancels EXCEPT ![c] = InGate(g) \cap Workers]
            /\ Signal(g, TRUE, InGate(g))
  /\ UNCHANGED <<tasks, pc, parentDone, canceled, waiter, expired>>

\* Mutant: Close forgets the worker instead of canceling it.
CloseCancels_Forgets(c) ==
  /\ closer[c] = "canceling"
  /\ \E t \in cancels[c] :
       cancels' = [cancels EXCEPT ![c] = @ \ {t}]
  /\ UNCHANGED <<closing, tasks, joined, pc, parentDone, canceled, closer, waiter, expired>>

CloseCancels(c) ==
  /\ closer[c] = "canceling"
  /\ \E t \in cancels[c] :
       /\ canceled' = canceled \cup {t}
       /\ cancels' = [cancels EXCEPT ![c] = @ \ {t}]
  /\ UNCHANGED <<closing, tasks, joined, pc, parentDone, closer, waiter, expired>>

CloseReturns(c) ==
  /\ closer[c] = "canceling"
  /\ cancels[c] = {}
  /\ closer' = [closer EXCEPT ![c] = "closed"]
  /\ UNCHANGED <<closing, tasks, joined, pc, parentDone, canceled, cancels, waiter, expired>>

-----------------------------------------------------------------------------
\* Wait first looks at its context, then selects on it and on g.drained; a
\* context that is done wins even when the channel is closed too.
WaitBegins(w) ==
  /\ waiter[w] = "idle"
  /\ waiter' = [waiter EXCEPT ![w] = IF w \in expired THEN "failed" ELSE "waiting"]
  /\ UNCHANGED <<closing, tasks, joined, pc, parentDone, canceled, closer, cancels, expired>>

WaitReturns(w) ==
  /\ waiter[w] = "waiting"
  /\ w \in expired \/ joined[WaitOf[w]]
  /\ waiter' = [waiter EXCEPT ![w] = IF w \in expired THEN "failed" ELSE "succeeded"]
  /\ UNCHANGED <<closing, tasks, joined, pc, parentDone, canceled, closer, cancels, expired>>

\* One context may bound several calls of Wait.
ContextExpires(W) ==
  /\ W \cap expired = {}
  /\ expired' = expired \cup W
  /\ UNCHANGED <<closing, tasks, joined, pc, parentDone, canceled, closer, cancels, waiter>>

-----------------------------------------------------------------------------
TaskNext(t) ==
  GoChecksParent(t) \/ Enter(t) \/ Return(t) \/ Finish(t) \/ ParentCanceled(t)
CloseNext(c) == CloseLocked(c) \/ CloseCancels(c) \/ CloseReturns(c)
WaitNext(w) == WaitBegins(w) \/ WaitReturns(w)

GateNext ==
  \/ \E t \in Tasks : TaskNext(t)
  \/ \E c \in Closers : CloseNext(c)
  \/ \E w \in Waiters : WaitNext(w)
  \/ \E W \in SUBSET Waiters : ContextExpires(W)

GateSpec == GateInit /\ [][GateNext]_gateVars

-----------------------------------------------------------------------------
Unfinished(g) ==
  {t \in Tasks : GateOf[t] = g /\ pc[t] \in {"running", "returned"}}

\* The gates and the goroutines at them keep their types; only workers have a
\* cancel function.
GateTypeOK ==
  /\ closing \in [Gates -> BOOLEAN]
  /\ joined \in [Gates -> BOOLEAN]
  /\ tasks \subseteq Tasks
  /\ pc \in [Tasks -> {"new", "checked", "running", "returned", "finished", "refused"}]
  /\ parentDone \subseteq Workers
  /\ canceled \subseteq Workers
  /\ closer \in [Closers -> {"idle", "canceling", "closed", "returned"}]
  /\ cancels \in [Closers -> SUBSET Workers]
  /\ waiter \in [Waiters -> {"idle", "waiting", "succeeded", "failed"}]
  /\ expired \subseteq Waiters

\* "Wait succeeds only after Close and the actual completion of every admitted
\* task" (work_gate.go, Wait): once some Wait on a gate has succeeded, the gate
\* is closed and none of its tasks is running or about to finish, in that state
\* and in every later one.
JoinedAfterCompletion ==
  \A w \in Waiters :
    waiter[w] = "succeeded" => closing[WaitOf[w]] /\ Unfinished(WaitOf[w]) = {}

\* "Close permanently refuses new requests/workers and cancels current workers":
\* when the call that closed a gate has returned, every worker the gate still
\* holds has been asked to stop, the ones admitted while Close was under way
\* included.
ClosedWorkersCanceled ==
  \A c \in Closers : closer[c] = "closed" =>
    \A t \in InGate(CloseOf[c]) \cap Workers : t \in canceled

\* g.drained is closed exactly when the gate is closed and its map is empty:
\* closed too early Wait would return over live work, never closed Wait would
\* hang although nothing is left to join.
DrainedExactly ==
  \A g \in Gates : joined[g] <=> closing[g] /\ Unfinished(g) = {}
=============================================================================
