-------------------------- MODULE RuntimeShutdown --------------------------
(***************************************************************************)
(* The orderly stop of the knowoffd process: runtimeLifecycle.Shutdown,    *)
(* the textRuntime.Close it calls (drainTextRuntime, the bonus worker, the *)
(* durable owner) and the two WorkGates they close and join.  The question *)
(* is whether these parts wait for each other in an order that ends: the   *)
(* match clock is a worker that must outlive the drain, a WebSocket        *)
(* handler is a request that ends only when the lobby closes its peer, and *)
(* a listener is a worker that ends only when its server is shut down.     *)
(*                                                                         *)
(* One task of each sort stands for all of them.  Durations are abstracted *)
(* to whether a context is done: textCtx (grace), the 5 s cleanup contexts *)
(* (a bounded call may fail) and the join context of the last phase.       *)
(***************************************************************************)
EXTENDS WorkGate, Integers

CONSTANTS
  MaxMatches     \* bound on the matches in progress

ASSUME ShutdownAssumption ==
  /\ MaxMatches \in Nat
  /\ Gates = {"Requests", "Workers"}
  /\ Tasks = {"http", "ws", "tick", "listen", "bonus"}
  /\ Workers = {"tick", "listen", "bonus"}
  /\ \A t \in Tasks : GateOf[t] = IF t \in Workers THEN "Workers" ELSE "Requests"
  /\ Closers = Gates /\ Waiters = Gates
  /\ \A g \in Gates : CloseOf[g] = g /\ WaitOf[g] = g

VARIABLES
  stage,       \* where Shutdown is
  graceDone,   \* textCtx is done
  draining,    \* TextManager.draining
  matches,     \* unfinished matches and pending aborts (ActiveMatchesContext)
  peersOpen,   \* the lobby has not closed its peers
  listening,   \* the servers' listeners are open
  ownerHeld,   \* the durable process ownership is held
  failed,      \* l.err # nil
  hurried      \* whether contexts may run out before the work they bound is done

stopVars == <<stage, graceDone, draining, matches, peersOpen, listening, ownerHeld, failed>>
vars == <<gateVars, stopVars>>

Init ==
  /\ GateInit
  /\ stage = "serving"
  /\ graceDone = FALSE
  /\ draining = FALSE
  /\ matches = 0
  /\ peersOpen = TRUE
  /\ listening = TRUE
  /\ ownerHeld = TRUE
  /\ failed = FALSE
  /\ hurried \in BOOLEAN

-----------------------------------------------------------------------------
\* When the function of a task can return: workers loop until their context is
\* done, ListenAndServe until its listener is closed, a WebSocket handler until
\* its client goes or the lobby closes its peer, a request when it is answered.
MayReturn(t) ==
  CASE t \in {"tick", "bonus"} -> t \in canceled
    [] t = "listen"            -> ~listening
    [] OTHER                   -> TRUE

\* What makes a task return without outside help.
MustReturn(t) ==
  CASE t = "ws" -> ~peersOpen
    [] OTHER    -> MayReturn(t)

\* A worker is started while the process serves; a request arrives while its
\* server listens.
TaskStep(t) ==
  /\ \/ (t \in Workers /\ stage = "serving" /\ GoChecksParent(t))
     \/ (t \in Workers /\ stage = "serving" /\ Enter(t))
     \/ (t \notin Workers /\ listening /\ Enter(t))
     \/ (MayReturn(t) /\ Return(t))
     \/ Finish(t)
  /\ UNCHANGED stopVars

ClockRuns == pc["tick"] = "running" /\ "tick" \notin canceled

\* A table starts a match unless the lobby drains; the clock, or its players
\* with the clock's help, bring it to its verdict.
MatchStarts ==
  /\ ~draining /\ matches < MaxMatches /\ pc["ws"] = "running"
  /\ matches' = matches + 1
  /\ UNCHANGED <<gateVars, stage, graceDone, draining, peersOpen, listening, ownerHeld, failed>>

MatchEnds ==
  /\ ClockRuns /\ matches > 0
  /\ matches' = matches - 1
  /\ UNCHANGED <<gateVars, stage, graceDone, draining, peersOpen, listening, ownerHeld, failed>>

-----------------------------------------------------------------------------
\* Mutant: one gate for everything, closed first.
ShutdownBegins_ClosesWorkers ==
  /\ stage = "serving" /\ pc["tick"] = "running"
  /\ pc["listen"] = "running" /\ pc["bonus"] = "running"
  /\ CloseLocked("Workers")
  /\ stage' = "closing_requests"
  /\ UNCHANGED <<graceDone, draining, matches, peersOpen, listening, ownerHeld, failed>>

\* SIGTERM, a listener error or ownership loss ends the main select.
ShutdownBegins ==
  /\ stage = "serving" /\ pc["tick"] = "running"
  /\ pc["listen"] = "running" /\ pc["bonus"] = "running"
  /\ CloseLocked("Requests")
  /\ stage' = "closing_requests"
  /\ UNCHANGED <<graceDone, draining, matches, peersOpen, listening, ownerHeld, failed>>

CloseStep(g) ==
  /\ CloseCancels(g) \/ CloseReturns(g)
  /\ UNCHANGED stopVars

\* DrainContext: the lobby lock is bounded by textCtx; when that runs out the
\* flag is left to Close.
DrainBegins ==
  /\ stage = "closing_requests" /\ closer["Requests"] = "closed"
  /\ stage' = "draining"
  /\ draining' = ~graceDone
  /\ UNCHANGED <<gateVars, graceDone, matches, peersOpen, listening, ownerHeld, failed>>

GraceExpires ==
  /\ hurried /\ ~graceDone /\ stage \in {"closing_requests", "draining"}
  /\ graceDone' = TRUE
  /\ UNCHANGED <<gateVars, stage, draining, matches, peersOpen, listening, ownerHeld, failed>>

\* The polling loop ends when no match is active or the grace is over; then
\* TextManager.Close interrupts what is left and, if every durable release
\* succeeds, closes the peers.
LobbyCloses ==
  /\ stage = "draining"
  /\ graceDone \/ matches = 0
  /\ \E ok \in IF hurried THEN BOOLEAN ELSE {TRUE} :
       /\ draining' = TRUE
       /\ matches' = IF ok THEN 0 ELSE matches
       /\ peersOpen' = ~ok
       /\ failed' = (failed \/ ~ok)
  /\ stage' = "stopping_bonus"
  /\ UNCHANGED <<gateVars, graceDone, listening, ownerHeld>>

\* textBonusWorker.stop cancels the context the worker was started with.
BonusCanceled ==
  /\ stage = "stopping_bonus"
  /\ ParentCanceled("bonus")
  /\ UNCHANGED stopVars

\* stop waits for the worker's own done channel, which is closed before the
\* gate's finish runs.
BonusStopped ==
  /\ stage = "stopping_bonus"
  /\ "bonus" \in parentDone /\ pc["bonus"] \in {"returned", "finished"}
  /\ stage' = "releasing_owner"
  /\ UNCHANGED <<gateVars, graceDone, draining, matches, peersOpen, listening, ownerHeld, failed>>

\* The cleanup context of stop runs out: textRuntime.Close returns with the
\* ownership still held.
BonusStopFails ==
  /\ stage = "stopping_bonus" /\ "bonus" \in parentDone /\ hurried
  /\ stage' = "closing_workers"
  /\ failed' = TRUE
  /\ UNCHANGED <<gateVars, graceDone, draining, matches, peersOpen, listening, ownerHeld>>

OwnerReleased ==
  /\ stage = "releasing_owner"
  /\ \E ok \in IF hurried THEN BOOLEAN ELSE {TRUE} :
       ownerHeld' = ~ok /\ failed' = (failed \/ ~ok)
  /\ stage' = "closing_workers"
  /\ UNCHANGED <<gateVars, graceDone, draining, matches, peersOpen, listening>>

WorkersClose ==
  /\ stage = "closing_workers"
  /\ CloseLocked("Workers")
  /\ UNCHANGED stopVars

\* server.Shutdown closes the listener at once ...
ServersShutDown ==
  /\ stage = "closing_workers" /\ closer["Workers"] = "closed"
  /\ listening' = FALSE
  /\ stage' = "stopping_servers"
  /\ UNCHANGED <<gateVars, graceDone, draining, matches, peersOpen, ownerHeld, failed>>

\* ... and returns when no request is in flight (a hijacked WebSocket does not
\* count), or with the context's error, after which server.Close is called.
ServersStopped ==
  /\ stage = "stopping_servers"
  /\ pc["http"] \notin {"running", "returned"} \/ expired = Waiters
  /\ failed' = (failed \/ expired = Waiters)
  /\ WaitBegins("Requests")
  /\ stage' = "joining"
  /\ UNCHANGED <<graceDone, draining, matches, peersOpen, listening, ownerHeld>>

\* One context bounds the server shutdowns and both joins.
JoinExpires ==
  /\ hurried /\ stage \in {"closing_workers", "stopping_servers", "joining"}
  /\ closer["Workers"] = "closed"
  /\ ContextExpires(Waiters)
  /\ UNCHANGED stopVars

JoinStep ==
  /\ stage = "joining"
  /\ \/ WaitReturns("Requests")
     \/ (waiter["Requests"] \in {"succeeded", "failed"} /\ WaitBegins("Workers"))
     \/ WaitReturns("Workers")
  /\ UNCHANGED stopVars

\* Mutant: the errors of the two joins are not part of the result.
ShutdownReturns_IgnoresJoins ==
  /\ stage = "joining" /\ waiter["Workers"] \in {"succeeded", "failed"}
  /\ stage' = "stopped"
  /\ UNCHANGED <<gateVars, graceDone, draining, matches, peersOpen, listening, ownerHeld, failed>>

ShutdownReturns ==
  /\ stage = "joining" /\ waiter["Workers"] \in {"succeeded", "failed"}
  /\ failed' = (failed \/ \E g \in Gates : waiter[g] = "failed")
  /\ stage' = "stopped"
  /\ UNCHANGED <<gateVars, graceDone, draining, matches, peersOpen, listening, ownerHeld>>

ShutdownStep ==
  \/ ShutdownBegins \/ \E g \in Gates : CloseStep(g)
  \/ DrainBegins \/ LobbyCloses
  \/ BonusCanceled \/ BonusStopped \/ BonusStopFails \/ OwnerReleased
  \/ WorkersClose \/ ServersShutDown \/ ServersStopped
  \/ JoinStep \/ ShutdownReturns

Next ==
  /\ \/ \E t \in Tasks : TaskStep(t)
     \/ MatchStarts \/ MatchEnds
     \/ ShutdownStep \/ GraceExpires \/ JoinExpires
  /\ UNCHANGED hurried

\* The shutdown goroutine and each task goroutine are scheduled; a task whose
\* function must return does; a running clock ends its matches; a context made
\* with a timeout expires.
Fairness ==
  /\ WF_vars(ShutdownStep)
  /\ WF_vars(GraceExpires) /\ WF_vars(JoinExpires)
  /\ WF_vars(MatchEnds)
  /\ \A t \in Tasks :
       /\ WF_vars(MustReturn(t) /\ Return(t) /\ UNCHANGED stopVars)
       /\ WF_vars(Finish(t) /\ UNCHANGED stopVars)

Spec == Init /\ [][Next]_<<vars, hurried>> /\ Fairness

-----------------------------------------------------------------------------
\* "Shutdown returns success only after text closure, worker and request joins,
\* and listener shutdown": a nil result means no match, peer, listener, request
\* or worker is left and the durable ownership was given back.
SuccessMeansQuiescent ==
  stage = "stopped" /\ ~failed =>
    /\ \A g \in Gates : Unfinished(g) = {}
    /\ matches = 0 /\ ~peersOpen /\ ~listening /\ ~ownerHeld

\* Closing the gate of the workers is enough to join them: Close reaches every
\* worker it admitted, a listener included, so that a Wait with enough time
\* returns.
ClosedGateDrains == closing["Workers"] ~> joined["Workers"]

\* With contexts long enough for the work they bound, Shutdown returns nil: no
\* two of its parts wait for each other, and "separate gates let existing
\* gameplay finish with its clock still running", so that the drain ends by the
\* matches ending.
GracefulShutdownSucceeds ==
  (stage # "serving" /\ ~hurried) ~> (stage = "stopped" /\ ~failed)
=============================================================================
