----------------------- MODULE RuntimeShutdownProofs -----------------------
(***************************************************************************)
(* The join of a work gate is sound for every set of gates, tasks, closers *)
(* and waiters, and the result of Shutdown is truthful: nil is returned    *)
(* only over a process that has nothing left.  The composition keeps the   *)
(* invariant of the work gates, because every step of it is a step of the  *)
(* gates or leaves them alone; what each stage has established is the      *)
(* other half.                                                             *)
(***************************************************************************)
EXTENDS RuntimeShutdown, TLAPS

-----------------------------------------------------------------------------
(* The work gates.                                                          *)

\* The map of a gate holds exactly the tasks whose goroutine has not run its
\* deferred finish.
MapExact == \A t \in Tasks : t \in tasks <=> pc[t] \in {"running", "returned"}

\* What joined promises, over the map rather than over the goroutines.
JoinedExactly == \A g \in Gates : joined[g] <=> closing[g] /\ InGate(g) = {}

\* A Wait that succeeded saw its gate joined.
SucceededJoined == \A w \in Waiters : waiter[w] = "succeeded" => joined[WaitOf[w]]

\* While the call that closed a gate is canceling, the gate's workers are
\* canceled or still in its snapshot; no worker entered after the snapshot.
SnapshotCovers ==
  \A c \in Closers :
    /\ closer[c] \in {"canceling", "closed"} =>
         /\ closing[CloseOf[c]]
         /\ \A t \in tasks : GateOf[t] = CloseOf[c] /\ t \in Workers =>
              t \in canceled \/ t \in cancels[c]
    /\ closer[c] = "closed" => cancels[c] = {}

GateInv ==
  /\ GateTypeOK
  /\ MapExact
  /\ JoinedExactly
  /\ SucceededJoined
  /\ SnapshotCovers

USE WorkGateAssumption

\* The initial state: empty maps, nothing closed.
LEMMA GateInitInv == GateInit => GateInv
<1> SUFFICES ASSUME GateInit PROVE GateInv
  OBVIOUS
<1>1. GateTypeOK
  BY DEF GateInit, GateTypeOK
<1>2. MapExact
  BY DEF GateInit, MapExact
<1>3. JoinedExactly
  BY DEF GateInit, JoinedExactly
<1>4. SucceededJoined
  BY DEF GateInit, SucceededJoined
<1>5. SnapshotCovers
  BY DEF GateInit, SnapshotCovers
<1> QED
  BY <1>1, <1>2, <1>3, <1>4, <1>5 DEF GateInv

\* A step of a task's goroutine keeps the invariant.
LEMMA TaskStepInv ==
  ASSUME GateInv, NEW t \in Tasks, TaskNext(t)
  PROVE  GateInv'
<1> USE DEF GateInv
<1>1. CASE GoChecksParent(t)
  <2>1. GateTypeOK'
    BY <1>1 DEF GoChecksParent, GateTypeOK
  <2>2. MapExact'
    BY <1>1 DEF GoChecksParent, GateTypeOK, MapExact
  <2>3. JoinedExactly' /\ SucceededJoined' /\ SnapshotCovers'
    BY <1>1 DEF GoChecksParent, JoinedExactly, SucceededJoined, SnapshotCovers, InGate
  <2> QED
    BY <2>1, <2>2, <2>3
<1>2. CASE Enter(t)
  <2>1. GateTypeOK'
    BY <1>2 DEF Enter, GateTypeOK
  <2>2. MapExact'
    BY <1>2 DEF Enter, GateTypeOK, MapExact
  <2>3. JoinedExactly'
    BY <1>2 DEF Enter, GateTypeOK, JoinedExactly, InGate
  <2>4. SucceededJoined'
    BY <1>2 DEF Enter, SucceededJoined
  <2>5. SnapshotCovers'
    BY <1>2 DEF Enter, GateTypeOK, SnapshotCovers
  <2> QED
    BY <2>1, <2>2, <2>3, <2>4, <2>5
<1>3. CASE Return(t)
  <2>1. GateTypeOK'
    BY <1>3 DEF Return, GateTypeOK
  <2>2. MapExact'
    BY <1>3 DEF Return, GateTypeOK, MapExact
  <2>3. JoinedExactly' /\ SucceededJoined'
    BY <1>3 DEF Return, JoinedExactly, SucceededJoined, InGate
  <2>4. SnapshotCovers'
    BY <1>3 DEF Return, SnapshotCovers
  <2> QED
    BY <2>1, <2>2, <2>3, <2>4
<1>4. CASE Finish(t)
  <2>1. GateTypeOK'
    BY <1>4 DEF Finish, Signal, GateTypeOK
  <2>2. MapExact'
    BY <1>4 DEF Finish, GateTypeOK, MapExact
  <2>3. JoinedExactly'
    <3>1. t \in tasks
      BY <1>4 DEF Finish, MapExact
    <3>2. InGate(GateOf[t])' = InGate(GateOf[t]) \ {t}
      BY <1>4 DEF Finish, InGate
    <3>3. ASSUME NEW g \in Gates, g # GateOf[t] PROVE InGate(g)' = InGate(g)
      BY <1>4, <3>3 DEF Finish, InGate
    <3>4. ASSUME NEW g \in Gates PROVE joined'[g] <=> closing'[g] /\ InGate(g)' = {}
      <4>1. CASE g = GateOf[t]
        <5>1. ~joined[g]
          BY <3>1, <4>1 DEF JoinedExactly, InGate
        <5> QED
          BY <1>4, <3>2, <4>1, <5>1 DEF Finish, Signal, GateTypeOK
      <4>2. CASE g # GateOf[t]
        BY <1>4, <3>3, <4>2 DEF Finish, Signal, GateTypeOK, JoinedExactly
      <4> QED
        BY <4>1, <4>2
    <3> QED
      BY <3>4 DEF JoinedExactly
  <2>4. SucceededJoined'
    BY <1>4 DEF Finish, Signal, GateTypeOK, SucceededJoined
  <2>5. SnapshotCovers'
    BY <1>4 DEF Finish, SnapshotCovers
  <2> QED
    BY <2>1, <2>2, <2>3, <2>4, <2>5
<1>5. CASE ParentCanceled(t)
  <2>1. GateTypeOK'
    BY <1>5 DEF ParentCanceled, GateTypeOK
  <2>2. MapExact'
    BY <1>5 DEF ParentCanceled, MapExact
  <2>3. JoinedExactly' /\ SucceededJoined'
    BY <1>5 DEF ParentCanceled, JoinedExactly, SucceededJoined, InGate
  <2>4. SnapshotCovers'
    BY <1>5 DEF ParentCanceled, SnapshotCovers
  <2> QED
    BY <2>1, <2>2, <2>3, <2>4
<1> QED
  BY <1>1, <1>2, <1>3, <1>4, <1>5 DEF TaskNext

\* A step of a call of Close keeps the invariant.
LEMMA CloseStepInv ==
  ASSUME GateInv, NEW c \in Closers, CloseNext(c)
  PROVE  GateInv'
<1> USE DEF GateInv
<1>1. CASE CloseLocked(c)
  <2> DEFINE g == CloseOf[c]
  <2>0. g \in Gates
    OBVIOUS
  <2>1. GateTypeOK'
    <3>1. InGate(g) \cap Workers \in SUBSET Workers
      OBVIOUS
    <3>2. CASE closing[g]
      BY <1>1, <3>2 DEF CloseLocked, GateTypeOK
    <3>3. CASE ~closing[g]
      <4>1. cancels' \in [Closers -> SUBSET Workers]
        BY <1>1, <3>1, <3>3 DEF CloseLocked, GateTypeOK
      <4>2. /\ closing' \in [Gates -> BOOLEAN] /\ joined' \in [Gates -> BOOLEAN]
            /\ closer' \in [Closers -> {"idle", "canceling", "closed", "returned"}]
        BY <1>1, <2>0, <3>3 DEF CloseLocked, Signal, GateTypeOK
      <4> QED
        BY <1>1, <4>1, <4>2 DEF CloseLocked, GateTypeOK
    <3> QED
      BY <3>2, <3>3
  <2>2. MapExact'
    BY <1>1 DEF CloseLocked, MapExact
  <2>3. \A h \in Gates : InGate(h)' = InGate(h)
    BY <1>1 DEF CloseLocked, InGate
  <2>4. JoinedExactly'
    <3>1. CASE closing[g]
      BY <1>1, <2>3, <3>1 DEF CloseLocked, JoinedExactly
    <3>2. CASE ~closing[g]
      <4>1. ~joined[g]
        BY <2>0, <3>2 DEF JoinedExactly
      <4>2. ASSUME NEW h \in Gates PROVE joined'[h] <=> closing'[h] /\ InGate(h)' = {}
        BY <1>1, <2>0, <2>3, <3>2, <4>1 DEF CloseLocked, Signal, GateTypeOK, JoinedExactly
      <4> QED
        BY <4>2 DEF JoinedExactly
    <3> QED
      BY <3>1, <3>2
  <2>5. SucceededJoined'
    BY <1>1, <2>0 DEF CloseLocked, Signal, GateTypeOK, SucceededJoined
  <2>6. SnapshotCovers'
    <3>1. CASE closing[g]
      BY <1>1, <3>1 DEF CloseLocked, GateTypeOK, SnapshotCovers
    <3>2. CASE ~closing[g]
      <4>1. ASSUME NEW d \in Closers, d # c, closer[d] \in {"canceling", "closed"}
            PROVE  CloseOf[d] # g
        BY <3>2, <4>1 DEF SnapshotCovers
      <4>2. /\ closer' = [closer EXCEPT ![c] = "canceling"]
            /\ closing' = [closing EXCEPT ![g] = TRUE]
            /\ cancels' = [cancels EXCEPT ![c] = InGate(g) \cap Workers]
            /\ tasks' = tasks /\ canceled' = canceled
        BY <1>1, <3>2 DEF CloseLocked
      <4> HIDE DEF g
      <4>3. ASSUME NEW d \in Closers, d # c
            PROVE  closer'[d] = closer[d] /\ cancels'[d] = cancels[d]
        BY <4>2, <4>3 DEF GateTypeOK
      <4>4. \A h \in Gates : closing[h] => closing'[h]
        BY <4>2 DEF GateTypeOK
      <4>5. closer'[c] = "canceling" /\ closing'[g] /\ cancels'[c] = InGate(g) \cap Workers
        BY <4>2, <2>0 DEF GateTypeOK
      <4>6. CloseOf[c] = g
        BY DEF g
      <4> QED
        BY <4>2, <4>3, <4>4, <4>5, <4>6 DEF SnapshotCovers, InGate
    <3> QED
      BY <3>1, <3>2
  <2> QED
    BY <2>1, <2>2, <2>4, <2>5, <2>6
<1>2. CASE CloseCancels(c)
  <2> PICK t \in cancels[c] :
        /\ canceled' = canceled \cup {t}
        /\ cancels' = [cancels EXCEPT ![c] = @ \ {t}]
    BY <1>2 DEF CloseCancels
  <2>0. t \in Workers
    BY DEF GateTypeOK
  <2>1. GateTypeOK'
    BY <1>2, <2>0 DEF CloseCancels, GateTypeOK
  <2>2. MapExact' /\ JoinedExactly' /\ SucceededJoined'
    BY <1>2 DEF CloseCancels, MapExact, JoinedExactly, SucceededJoined, InGate
  <2>3. SnapshotCovers'
    BY <1>2 DEF CloseCancels, GateTypeOK, SnapshotCovers
  <2> QED
    BY <2>1, <2>2, <2>3
<1>3. CASE CloseReturns(c)
  <2>1. GateTypeOK'
    BY <1>3 DEF CloseReturns, GateTypeOK
  <2>2. MapExact' /\ JoinedExactly' /\ SucceededJoined'
    BY <1>3 DEF CloseReturns, MapExact, JoinedExactly, SucceededJoined, InGate
  <2>3. SnapshotCovers'
    BY <1>3 DEF CloseReturns, GateTypeOK, SnapshotCovers
  <2> QED
    BY <2>1, <2>2, <2>3
<1> QED
  BY <1>1, <1>2, <1>3 DEF CloseNext

\* A step of a call of Wait keeps the invariant.
LEMMA WaitStepInv ==
  ASSUME GateInv, NEW w \in Waiters, WaitNext(w)
  PROVE  GateInv'
<1> USE DEF GateInv
<1>1. GateTypeOK'
  BY DEF WaitNext, WaitBegins, WaitReturns, GateTypeOK
<1>2. MapExact' /\ JoinedExactly' /\ SnapshotCovers'
  BY DEF WaitNext, WaitBegins, WaitReturns, MapExact, JoinedExactly, SnapshotCovers, InGate
<1>3. SucceededJoined'
  BY DEF WaitNext, WaitBegins, WaitReturns, GateTypeOK, SucceededJoined
<1> QED
  BY <1>1, <1>2, <1>3

\* The end of a context keeps the invariant.
LEMMA ExpiryInv ==
  ASSUME GateInv, NEW W \in SUBSET Waiters, ContextExpires(W)
  PROVE  GateInv'
<1>1. GateTypeOK'
  BY DEF ContextExpires, GateInv, GateTypeOK
<1>2. MapExact' /\ JoinedExactly' /\ SnapshotCovers' /\ SucceededJoined'
  BY DEF GateInv, ContextExpires, MapExact, JoinedExactly, SnapshotCovers, SucceededJoined, InGate
<1> QED
  BY <1>1, <1>2 DEF GateInv

\* GateInv is an invariant of every behaviour of WorkGate.
THEOREM GateInvariant == GateSpec => []GateInv
<1>1. GateInit => GateInv
  BY GateInitInv
<1>2. GateInv /\ [GateNext]_gateVars => GateInv'
  <2> SUFFICES ASSUME GateInv, [GateNext]_gateVars PROVE GateInv'
    OBVIOUS
  <2>1. CASE \E t \in Tasks : TaskNext(t)
    BY <2>1, TaskStepInv
  <2>2. CASE \E c \in Closers : CloseNext(c)
    BY <2>2, CloseStepInv
  <2>3. CASE \E w \in Waiters : WaitNext(w)
    BY <2>3, WaitStepInv
  <2>5. CASE \E W \in SUBSET Waiters : ContextExpires(W)
    BY <2>5, ExpiryInv
  <2>4. CASE UNCHANGED gateVars
    BY <2>4 DEF gateVars, GateInv, GateTypeOK, MapExact, JoinedExactly, SucceededJoined,
                SnapshotCovers, InGate
  <2> QED
    BY <2>1, <2>2, <2>3, <2>4, <2>5 DEF GateNext
<1> QED
  BY <1>1, <1>2, PTL DEF GateSpec

\* Wait never reports success over live work, however many requests, workers,
\* calls of Close and calls of Wait race.
THEOREM WaitIsSound == GateSpec => []JoinedAfterCompletion
<1>1. GateInv => JoinedAfterCompletion
  BY DEF GateInv, GateTypeOK, MapExact, JoinedExactly, SucceededJoined, JoinedAfterCompletion,
         InGate, Unfinished
<1> QED
  BY <1>1, GateInvariant, PTL

\* The channel Wait selects on is closed exactly when nothing is left to join.
THEOREM DrainedIsExact == GateSpec => []DrainedExactly
<1>1. GateInv => DrainedExactly
  BY DEF GateInv, GateTypeOK, MapExact, JoinedExactly, DrainedExactly, InGate, Unfinished
<1> QED
  BY <1>1, GateInvariant, PTL

\* Close leaves no admitted worker uncanceled.
THEOREM CloseCancelsAll == GateSpec => []ClosedWorkersCanceled
<1>1. GateInv => ClosedWorkersCanceled
  BY DEF GateInv, SnapshotCovers, ClosedWorkersCanceled, InGate
<1> QED
  BY <1>1, GateInvariant, PTL

-----------------------------------------------------------------------------
(* The stages of the shutdown.                                              *)


\* The stages from the one that is entered when the lobby was told to close.
LobbyClosed ==
  {"stopping_bonus", "releasing_owner", "closing_workers", "stopping_servers", "joining", "stopped"}
OwnerHandled == {"closing_workers", "stopping_servers", "joining", "stopped"}
ListenersClosed == {"stopping_servers", "joining", "stopped"}
Stages == {"serving", "closing_requests", "draining"} \cup LobbyClosed

\* The state of Shutdown keeps its type.
StopTypeOK ==
  /\ stage \in Stages
  /\ matches \in Nat
  /\ draining \in BOOLEAN /\ peersOpen \in BOOLEAN /\ listening \in BOOLEAN
  /\ ownerHeld \in BOOLEAN /\ failed \in BOOLEAN

\* What the stages behind Shutdown have established, unless an error is noted.
\* The drain flag stays up either way: without it a table could start a match
\* after the lobby was emptied.
StagesDone ==
  /\ stage \in LobbyClosed => draining
  /\ stage \in LobbyClosed /\ ~failed => matches = 0 /\ ~peersOpen
  /\ stage \in OwnerHandled /\ ~failed => ~ownerHeld
  /\ stage \in ListenersClosed => ~listening

\* The workers are joined after the requests, and the outcome of both joins is
\* part of the result.
JoinsInOrder ==
  /\ waiter["Workers"] # "idle" => waiter["Requests"] \in {"succeeded", "failed"}
  /\ stage = "stopped" => waiter["Workers"] \in {"succeeded", "failed"}
  /\ stage = "stopped" /\ ~failed => \A g \in Gates : waiter[g] # "failed"

StopInv == GateInv /\ StopTypeOK /\ StagesDone /\ JoinsInOrder

USE ShutdownAssumption

\* A step that touches no gate keeps the invariant of the gates.
LEMMA GateFrame == GateInv /\ UNCHANGED gateVars => GateInv'
BY DEF gateVars, GateInv, GateTypeOK, MapExact, JoinedExactly, SucceededJoined, SnapshotCovers,
       InGate

\* The process starts with open, empty gates and nothing to undo.
LEMMA StopInitInv == Init => StopInv
<1> SUFFICES ASSUME Init PROVE StopInv
  OBVIOUS
<1>1. GateInv
  BY GateInitInv DEF Init
<1>2. StopTypeOK /\ StagesDone
  BY DEF Init, StopTypeOK, StagesDone, Stages, LobbyClosed, OwnerHandled, ListenersClosed
<1>3. JoinsInOrder
  BY DEF Init, GateInit, JoinsInOrder
<1> QED
  BY <1>1, <1>2, <1>3 DEF StopInv

\* Every step of the composition keeps the invariant of the gates.
LEMMA StopGateStep == ASSUME GateInv, Next PROVE GateInv'
<1>1. ASSUME NEW t \in Tasks, TaskStep(t) PROVE GateInv'
  <2>1. TaskNext(t)
    BY <1>1 DEF TaskStep, TaskNext
  <2> QED
    BY <2>1, TaskStepInv
<1>2. CASE MatchStarts \/ MatchEnds \/ GraceExpires
  BY <1>2, GateFrame DEF MatchStarts, MatchEnds, GraceExpires
<1>3. ASSUME NEW g \in Gates, CloseNext(g) PROVE GateInv'
  BY <1>3, CloseStepInv
<1>4. ASSUME NEW g \in Gates, WaitNext(g) PROVE GateInv'
  BY <1>4, WaitStepInv
<1>5. CASE ShutdownBegins
  BY <1>3, <1>5 DEF ShutdownBegins, CloseNext
<1>6. ASSUME NEW g \in Gates, CloseStep(g) PROVE GateInv'
  BY <1>3, <1>6 DEF CloseStep, CloseNext
<1>7. CASE DrainBegins \/ LobbyCloses \/ BonusStopped \/ BonusStopFails \/ OwnerReleased
             \/ ServersShutDown \/ ShutdownReturns
  BY <1>7, GateFrame DEF DrainBegins, LobbyCloses, BonusStopped, BonusStopFails, OwnerReleased,
                         ServersShutDown, ShutdownReturns
<1>8. CASE BonusCanceled
  <2>1. TaskNext("bonus")
    BY <1>8 DEF BonusCanceled, TaskNext
  <2> QED
    BY <2>1, TaskStepInv
<1>9. CASE WorkersClose
  BY <1>3, <1>9 DEF WorkersClose, CloseNext
<1>10. CASE ServersStopped
  BY <1>4, <1>10 DEF ServersStopped, WaitNext
<1>11. CASE JoinStep
  BY <1>4, <1>11 DEF JoinStep, WaitNext
<1>12. CASE JoinExpires
  BY <1>12, ExpiryInv DEF JoinExpires
<1> QED
  BY <1>1, <1>2, <1>5, <1>6, <1>7, <1>8, <1>9, <1>10, <1>11, <1>12 DEF Next, ShutdownStep

\* No step takes back what the stages behind it have established.
LEMMA StagesStep == ASSUME StopTypeOK, StagesDone, Next PROVE StopTypeOK' /\ StagesDone'
<1> USE DEF StopTypeOK, StagesDone, Stages, LobbyClosed, OwnerHandled, ListenersClosed
<1>1. ASSUME UNCHANGED stopVars PROVE StopTypeOK' /\ StagesDone'
  BY <1>1 DEF stopVars
<1>2. CASE \/ \E t \in Tasks : TaskStep(t)
           \/ \E g \in Gates : CloseStep(g)
           \/ BonusCanceled \/ WorkersClose \/ JoinStep \/ JoinExpires
  BY <1>1, <1>2 DEF TaskStep, CloseStep, BonusCanceled, WorkersClose, JoinStep, JoinExpires
<1>3. CASE MatchStarts
  BY <1>3 DEF MatchStarts
<1>4. CASE MatchEnds
  BY <1>4 DEF MatchEnds
<1>5. CASE ShutdownBegins
  BY <1>5 DEF ShutdownBegins
<1>6. CASE DrainBegins \/ GraceExpires
  BY <1>6 DEF DrainBegins, GraceExpires
<1>7. CASE LobbyCloses
  <2>1. PICK ok \in BOOLEAN :
          /\ draining' = TRUE
          /\ matches' = IF ok THEN 0 ELSE matches
          /\ peersOpen' = ~ok
          /\ failed' = (failed \/ ~ok)
    BY <1>7 DEF LobbyCloses
  <2>2. CASE ok = TRUE
    BY <1>7, <2>1, <2>2 DEF LobbyCloses
  <2>3. CASE ok = FALSE
    BY <1>7, <2>1, <2>3 DEF LobbyCloses
  <2> QED
    BY <2>2, <2>3
<1>8. CASE BonusStopped
  BY <1>8 DEF BonusStopped
<1>13. CASE BonusStopFails
  BY <1>13 DEF BonusStopFails
<1>9. CASE OwnerReleased
  <2>1. PICK ok \in BOOLEAN : ownerHeld' = ~ok /\ failed' = (failed \/ ~ok)
    BY <1>9 DEF OwnerReleased
  <2>2. CASE ok = TRUE
    BY <1>9, <2>1, <2>2 DEF OwnerReleased
  <2>3. CASE ok = FALSE
    BY <1>9, <2>1, <2>3 DEF OwnerReleased
  <2> QED
    BY <2>2, <2>3
<1>10. CASE ServersShutDown
  BY <1>10 DEF ServersShutDown
<1>11. CASE ServersStopped
  BY <1>11 DEF ServersStopped
<1>12. CASE ShutdownReturns
  BY <1>12 DEF ShutdownReturns
<1> QED
  BY <1>2, <1>3, <1>4, <1>5, <1>6, <1>7, <1>8, <1>9, <1>10, <1>11, <1>12, <1>13
  DEF Next, ShutdownStep

\* The joins keep their order, and no later step changes their outcome.
LEMMA JoinsStep ==
  ASSUME GateTypeOK, StopTypeOK, JoinsInOrder, Next
  PROVE  JoinsInOrder'
<1>1. ASSUME UNCHANGED <<waiter, stage, failed>> PROVE JoinsInOrder'
  BY <1>1 DEF JoinsInOrder
<1>2. ASSUME NEW t \in Tasks, TaskStep(t) PROVE JoinsInOrder'
  BY <1>1, <1>2 DEF TaskStep, stopVars, GoChecksParent, Enter, Return, Finish
<1>3. CASE MatchStarts \/ MatchEnds \/ GraceExpires
  BY <1>1, <1>3 DEF MatchStarts, MatchEnds, GraceExpires, gateVars
<1>4. ASSUME NEW g \in Gates, CloseStep(g) PROVE JoinsInOrder'
  BY <1>1, <1>4 DEF CloseStep, CloseCancels, CloseReturns, stopVars
<1>5. CASE BonusCanceled \/ WorkersClose \/ JoinExpires
  BY <1>1, <1>5 DEF BonusCanceled, ParentCanceled, WorkersClose, CloseLocked, JoinExpires,
                    ContextExpires, stopVars
<1>6. ASSUME waiter' = waiter, stage' # "stopped" PROVE JoinsInOrder'
  BY <1>6 DEF JoinsInOrder
<1>7. CASE ShutdownBegins
  BY <1>6, <1>7 DEF ShutdownBegins, CloseLocked
<1>8. CASE DrainBegins \/ LobbyCloses \/ BonusStopped \/ BonusStopFails \/ OwnerReleased
             \/ ServersShutDown
  BY <1>6, <1>8 DEF DrainBegins, LobbyCloses, BonusStopped, BonusStopFails, OwnerReleased,
                    ServersShutDown, gateVars
<1>9. CASE ServersStopped
  BY <1>9 DEF ServersStopped, WaitBegins, JoinsInOrder, GateTypeOK
<1>10. CASE JoinStep
  BY <1>10 DEF JoinStep, WaitBegins, WaitReturns, stopVars, JoinsInOrder, GateTypeOK
<1>11. CASE ShutdownReturns
  BY <1>11 DEF ShutdownReturns, gateVars, JoinsInOrder, GateTypeOK, StopTypeOK
<1> QED
  BY <1>2, <1>3, <1>4, <1>5, <1>7, <1>8, <1>9, <1>10, <1>11 DEF Next, ShutdownStep

\* The invariant of the gates and of the stages holds throughout the life of the
\* process, its shutdown included, whichever contexts run out.
THEOREM StopInvariant == Spec => []StopInv
<1>1. Init => StopInv
  BY StopInitInv
<1>2. StopInv /\ [Next]_<<vars, hurried>> => StopInv'
  <2> SUFFICES ASSUME StopInv, [Next]_<<vars, hurried>> PROVE StopInv'
    OBVIOUS
  <2>1. CASE Next
    <3>1. GateInv'
      BY <2>1, StopGateStep DEF StopInv
    <3>2. StopTypeOK' /\ StagesDone'
      BY <2>1, StagesStep DEF StopInv
    <3>3. JoinsInOrder'
      BY <2>1, JoinsStep DEF StopInv, GateInv
    <3> QED
      BY <3>1, <3>2, <3>3 DEF StopInv
  <2>2. CASE UNCHANGED <<vars, hurried>>
    <3>1. UNCHANGED gateVars /\ UNCHANGED stopVars
      BY <2>2 DEF vars
    <3>2. GateInv'
      BY <3>1, GateFrame DEF StopInv
    <3>3. StopTypeOK' /\ StagesDone'
      BY <3>1 DEF StopInv, stopVars, StopTypeOK, StagesDone
    <3>4. JoinsInOrder'
      BY <3>1 DEF StopInv, stopVars, gateVars, JoinsInOrder
    <3> QED
      BY <3>2, <3>3, <3>4 DEF StopInv
  <2> QED
    BY <2>1, <2>2
<1> QED
  BY <1>1, <1>2, PTL DEF Spec

\* "Shutdown returns success only after text closure, worker and request joins,
\* and listener shutdown": whichever contexts run out and however the requests,
\* the workers and the matches race the shutdown, a nil result is returned only
\* when nothing is left and the durable ownership was given back.
THEOREM ShutdownIsTruthful == Spec => []SuccessMeansQuiescent
<1>1. StopInv => SuccessMeansQuiescent
  <2> SUFFICES ASSUME StopInv, stage = "stopped", ~failed
               PROVE  /\ \A g \in Gates : Unfinished(g) = {}
                      /\ matches = 0 /\ ~peersOpen /\ ~listening /\ ~ownerHeld
    BY DEF SuccessMeansQuiescent
  <2>1. matches = 0 /\ ~peersOpen /\ ~listening /\ ~ownerHeld
    BY DEF StopInv, StagesDone, LobbyClosed, OwnerHandled, ListenersClosed
  <2>2. \A g \in Gates : waiter[g] = "succeeded"
    BY DEF StopInv, JoinsInOrder, GateInv, GateTypeOK
  <2>3. \A g \in Gates : joined[g]
    BY <2>2 DEF StopInv, GateInv, SucceededJoined
  <2>4. \A g \in Gates : Unfinished(g) = {}
    BY <2>3 DEF StopInv, GateInv, JoinedExactly, MapExact, InGate, Unfinished
  <2> QED
    BY <2>1, <2>4
<1> QED
  BY <1>1, StopInvariant, PTL

\* The process composes the gates without breaking their promise: no Wait of
\* Shutdown reports success over a live request or worker.
THEOREM ShutdownJoinsSoundly == Spec => []JoinedAfterCompletion
<1>1. StopInv => JoinedAfterCompletion
  BY DEF StopInv, GateInv, GateTypeOK, MapExact, JoinedExactly, SucceededJoined,
         JoinedAfterCompletion, InGate, Unfinished
<1> QED
  BY <1>1, StopInvariant, PTL
=============================================================================
