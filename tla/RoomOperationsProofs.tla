------------------------ MODULE RoomOperationsProofs ------------------------
(***************************************************************************)
(* For every number of accounts, rooms, queues, operations and scenarios:  *)
(*                                                                         *)
(*   - the decisions about rooms stay fenced: no answer that is lost, no   *)
(*     probe that comes early and no restart takes the fence of its room   *)
(*     from a decision that may still take effect, except the clean-up of  *)
(*     an Action that deletes the finished and empty room                  *)
(*     (DecisionsFenced);                                                  *)
(*   - no account holds two seats, or a seat and a place in a queue,       *)
(*     whatever the handlers, the clock, the matching and the operations   *)
(*     do in which order (SeatedOnce);                                     *)
(*   - the handlers of the lobby leave no row behind that nothing names    *)
(*     (NoOrphan), and a match keeps its seats until its result is durable *)
(*     (SeatKeptUntilVerdict);                                             *)
(*   - who was kicked never sits connected in the room again               *)
(*     (KickedStaysOut).                                                   *)
(*                                                                         *)
(* LobbyInv says where every account is.  Moves and Attached say what one  *)
(* step may do to it; every action has a lemma that it is such a step, and *)
(* the invariants follow from that alone.  RowsInv says what queues and    *)
(* rooms know of the durable rows, and Goes and Gone what a step may do to *)
(* a room and its rows.                                                    *)
(***************************************************************************)
EXTENDS RoomOperations, FiniteSetTheorems, TLAPS

Decisions ==
  {d \in [state : {"absent", "inflight", "pending", "applied", "obsolete"}, live : BOOLEAN] :
     d.state = "inflight" => d.live}

(* A fence is of a decision, whatever the room and the lobby do meanwhile.  *)
FenceTypes ==
  /\ ops \in [OperationIds -> Decisions]
  /\ \A r \in DOMAIN pending : /\ DOMAIN pending[r] = {"op", "app", "unconfirmed", "delivered"}
                               /\ pending[r].op \in OperationIds

(* What a step owes to the decisions (DecisionsFenced).                     *)
Guarded ==
  \A o \in OperationIds :
    Live(o)' /\ (Live(o) => Fenced(o)) =>
      Fenced(o)' \/ \E r \in Frozen : pending[r].op = o /\ CleanedAway(r)

FencesKept == FenceTypes' /\ (Frozen \subseteq DOMAIN rooms => Guarded)

-----------------------------------------------------------------------------
(* The operators of the model.                                              *)

(* A fence is added to those there are (Fence).                             *)
LEMMA FenceAdds ==
  ASSUME NEW o, NEW kind, NEW r, NEW target, NEW unconfirmed, r \notin DOMAIN pending,
         Fence(o, kind, r, target, unconfirmed)
  PROVE  /\ DOMAIN pending' = DOMAIN pending \cup {r}
         /\ \A s \in DOMAIN pending : pending'[s] = pending[s]
         /\ DOMAIN pending'[r] = {"op", "app", "unconfirmed", "delivered"}
         /\ pending'[r].op = o
<1> DEFINE app == Captured(kind, rooms[r], target)
           fence == [op |-> o, app |-> app, unconfirmed |-> unconfirmed, delivered |-> FALSE]
<1>1. pending' = With(pending, r, fence)
  BY DEF Fence
<1>2. DOMAIN fence = {"op", "app", "unconfirmed", "delivered"} /\ fence.op = o
  OBVIOUS
<1> HIDE DEF fence
<1>3. pending' = [x \in {r} \cup DOMAIN pending |-> IF x \in {r} THEN fence ELSE pending[x]]
  BY <1>1 DEF With, Over
<1> QED
  BY <1>2, <1>3

(* The result that a delivery writes is the one there was, or a result that *)
(* ends the decision (AppliedResult).                                       *)
LEMMA ResultState ==
  ASSUME NEW d, NEW o, NEW app
  PROVE  AppliedResult(d, o, app) \in {ops[o].state, "obsolete", "applied"}
<1>1. CASE ops[o].state # "pending"
  BY <1>1 DEF AppliedResult
<1>2. CASE ops[o].state = "pending"
  BY <1>2 DEF AppliedResult
<1> QED
  BY <1>1, <1>2

-----------------------------------------------------------------------------
(* The steps that keep the fences.                                          *)

(* A step that decides nothing and keeps the fences.                        *)
LEMMA FencesStay ==
  ASSUME FenceTypes, UNCHANGED <<ops, pending>>
  PROVE  FencesKept
BY DEF FencesKept, Guarded, FenceTypes, Live, Fenced, Frozen

(* A step that writes one decision, and at most adds to the fences or marks *)
(* one of them.                                                             *)
LEMMA OneDecision ==
  ASSUME FenceTypes, NEW o \in OperationIds,
         ops' \in [OperationIds -> Decisions],
         \A p \in OperationIds \ {o} : ops'[p] = ops[p],
         \A r \in DOMAIN pending : /\ r \in DOMAIN pending' /\ pending'[r].op = pending[r].op
                                   /\ DOMAIN pending'[r] = DOMAIN pending[r],
         \A r \in DOMAIN pending' \ DOMAIN pending :
           /\ DOMAIN pending'[r] = {"op", "app", "unconfirmed", "delivered"} /\ pending'[r].op \in OperationIds,
         ops'[o].state \in {"inflight", "pending"} /\ ops'[o].live =>
           \/ ops[o].state \in {"inflight", "pending"} /\ ops[o].live
           \/ \E r \in DOMAIN pending' : pending'[r].op = o
  PROVE  FencesKept
<1>1. FenceTypes'
  <2>1. \A r \in DOMAIN pending' : /\ DOMAIN pending'[r] = {"op", "app", "unconfirmed", "delivered"}
                                   /\ pending'[r].op \in OperationIds
    BY DEF FenceTypes
  <2> QED
    BY <2>1 DEF FenceTypes
<1>2. ASSUME NEW p \in OperationIds, Live(p)', Live(p) => Fenced(p)
      PROVE  Fenced(p)'
  <2>1. CASE Live(p)
    BY <1>2, <2>1 DEF Fenced, Frozen
  <2>2. CASE ~Live(p)
    BY <1>2, <2>2 DEF Fenced, Frozen, Live
  <2> QED
    BY <2>1, <2>2
<1> QED
  BY <1>1, <1>2 DEF FencesKept, Guarded

(* A decision is fenced before it may take effect (DecideRoomOperation).    *)
LEMMA DecideFenced ==
  ASSUME FenceTypes, NEW o \in OperationIds, NEW kind, NEW r, NEW target, DecideRoomOperation(o, kind, r, target)
  PROVE  FencesKept
<1>1. PICK u \in BOOLEAN, decided \in Decisions :
        ops' = [ops EXCEPT ![o] = decided] /\ Fence(o, kind, r, target, u) /\ r \notin DOMAIN pending
  <2>1. NoOperation \in Decisions /\ [state |-> "pending", live |-> TRUE] \in Decisions
    BY DEF NoOperation, Decisions
  <2>2. [state : {"inflight", "pending"}, live : {TRUE}] \subseteq Decisions
    BY DEF Decisions
  <2>3. r \notin DOMAIN pending
    BY DEF DecideRoomOperation, MayDecide, Frozen
  <2>4. CASE /\ ops' = [ops EXCEPT ![o] = [state |-> "pending", live |-> TRUE]]
             /\ Fence(o, kind, r, target, FALSE)
    BY <2>1, <2>3, <2>4
  <2>5. CASE /\ \E decided \in {NoOperation} \cup [state : {"inflight", "pending"}, live : {TRUE}] :
                  ops' = [ops EXCEPT ![o] = decided]
             /\ Fence(o, kind, r, target, TRUE)
    BY <2>1, <2>2, <2>3, <2>5
  <2> QED
    BY <2>4, <2>5 DEF DecideRoomOperation
<1>2. /\ DOMAIN pending' = DOMAIN pending \cup {r}
      /\ \A s \in DOMAIN pending : pending'[s] = pending[s]
      /\ DOMAIN pending'[r] = {"op", "app", "unconfirmed", "delivered"}
      /\ pending'[r].op = o
  BY <1>1, FenceAdds
<1>3. ops' \in [OperationIds -> Decisions] /\ \A p \in OperationIds \ {o} : ops'[p] = ops[p]
  BY <1>1 DEF FenceTypes
<1>4. \A s \in DOMAIN pending : /\ s \in DOMAIN pending' /\ pending'[s].op = pending[s].op
                                 /\ DOMAIN pending'[s] = DOMAIN pending[s]
  BY <1>2
<1>5. \A s \in DOMAIN pending' \ DOMAIN pending :
        /\ DOMAIN pending'[s] = {"op", "app", "unconfirmed", "delivered"} /\ pending'[s].op \in OperationIds
  BY <1>2
<1>6. \E s \in DOMAIN pending' : pending'[s].op = o
  BY <1>2
<1> QED
  BY <1>3, <1>4, <1>5, <1>6, OneDecision

(* What is in flight ends as it was decided, or as nothing.                 *)
LEMMA InFlightFenced ==
  ASSUME FenceTypes, NEW o \in OperationIds, InFlightEnds(o)
  PROVE  FencesKept
<1>1. PICK decided \in {NoOperation, [state |-> "pending", live |-> TRUE]} :
        ops' = [ops EXCEPT ![o] = decided] /\ UNCHANGED pending /\ ops[o].state = "inflight"
  BY DEF InFlightEnds
<1>2. ops[o].live
  BY <1>1 DEF FenceTypes, Decisions
<1>3. decided \in Decisions
  <2>1. NoOperation \in Decisions
    BY DEF NoOperation, Decisions
  <2>2. [state |-> "pending", live |-> TRUE] \in Decisions
    BY DEF Decisions
  <2> QED
    BY <2>1, <2>2
<1>4. ops' \in [OperationIds -> Decisions] /\ \A p \in OperationIds \ {o} : ops'[p] = ops[p]
  BY <1>1, <1>3 DEF FenceTypes
<1>5. \A s \in DOMAIN pending : pending[s].op \in OperationIds
  BY DEF FenceTypes
<1> QED
  BY <1>1, <1>2, <1>4, <1>5, OneDecision

(* The lobby around the fences leaves the decisions and the fences alone.   *)
LEMMA LobbyFenced ==
  ASSUME FenceTypes, LobbyStep
  PROVE  FencesKept
BY FencesStay DEF LobbyStep, AroundFences

(* A fence is dropped only when its decision is proven absent, which one    *)
(* that is in flight is not (ResolveRoomDecision waits for its locks).      *)
LEMMA ResolveFenced ==
  ASSUME FenceTypes, NEW r, ResolveRoomDecision(r)
  PROVE  FencesKept
<1> DEFINE o == pending[r].op
<1>1. /\ r \in DOMAIN pending /\ ops[o].state # "inflight" /\ UNCHANGED ops
      /\ pending' = IF ops[o].state \in {"absent", "inflight"} THEN Without(pending, r)
                    ELSE [pending EXCEPT ![r].unconfirmed = FALSE]
  BY DEF ResolveRoomDecision, Resolved, Frozen
<1>2. /\ ops \in [OperationIds -> Decisions]
      /\ \A s \in DOMAIN pending : /\ DOMAIN pending[s] = {"op", "app", "unconfirmed", "delivered"}
                                   /\ pending[s].op \in OperationIds
  BY DEF FenceTypes
<1>3. CASE ops[o].state = "absent"
  <2>1. DOMAIN pending' = DOMAIN pending \ {r} /\ \A s \in DOMAIN pending' : pending'[s] = pending[s]
    BY <1>1, <1>3 DEF Without
  <2>2. FenceTypes'
    BY <1>1, <1>2, <2>1 DEF FenceTypes
  <2>3. ASSUME NEW p \in OperationIds, Live(p)', Live(p) => Fenced(p)
        PROVE  Fenced(p)'
    <3>1. PICK s \in DOMAIN pending : pending[s].op = p
      BY <1>1, <2>3 DEF Live, Fenced, Frozen
    <3>2. s # r
      BY <1>1, <1>3, <2>3, <3>1 DEF Live
    <3> QED
      BY <2>1, <3>1, <3>2 DEF Fenced, Frozen
  <2> QED
    BY <2>2, <2>3 DEF FencesKept, Guarded
<1>4. CASE ops[o].state # "absent"
  <2>1. pending' = [pending EXCEPT ![r].unconfirmed = FALSE]
    BY <1>1, <1>4
  <2>2. \A s \in DOMAIN pending : /\ s \in DOMAIN pending' /\ pending'[s].op = pending[s].op
                                   /\ DOMAIN pending'[s] = DOMAIN pending[s]
    BY <1>1, <1>2, <2>1
  <2>3. DOMAIN pending' = DOMAIN pending
    BY <2>1
  <2>4. o \in OperationIds
    BY <1>1, <1>2
  <2> HIDE DEF o
  <2>5. ops' \in [OperationIds -> Decisions] /\ \A p \in OperationIds \ {o} : ops'[p] = ops[p]
    BY <1>1, <1>2
  <2>6. ops'[o] = ops[o]
    BY <1>1
  <2> QED
    BY <2>2, <2>3, <2>4, <2>5, <2>6, OneDecision
<1> QED
  BY <1>3, <1>4

(* A delivery that fails, commits without an answer or is answered keeps    *)
(* its fence; it may only end the decision (ApplyRoomOperation).            *)
LEMMA AppliesFenced ==
  ASSUME FenceTypes, NEW r \in DOMAIN pending, NEW d, NEW room, NEW ended, NEW ok, Applies(r, d, room, ended, ok)
  PROVE  FencesKept
<1> DEFINE o == pending[r].op
           result == AppliedResult(d, o, pending[r].app)
<1>1. /\ ops \in [OperationIds -> Decisions]
      /\ \A s \in DOMAIN pending : /\ DOMAIN pending[s] = {"op", "app", "unconfirmed", "delivered"}
                                   /\ pending[s].op \in OperationIds
  BY DEF FenceTypes
<1>2. CASE UNCHANGED <<ops, pending>>
  BY <1>2, FencesStay
<1>3. CASE /\ ops' = [ops EXCEPT ![o].state = result]
           /\ pending' = IF ok THEN [pending EXCEPT ![r].delivered = TRUE] ELSE pending
  <2>1. result \in {ops[o].state, "obsolete", "applied"}
    BY ResultState
  <2>2. o \in OperationIds
    BY <1>1
  <2>3. \A s \in DOMAIN pending : /\ s \in DOMAIN pending' /\ pending'[s].op = pending[s].op
                                   /\ DOMAIN pending'[s] = DOMAIN pending[s]
    <3>1. CASE pending' = pending
      BY <3>1
    <3>2. CASE pending' = [pending EXCEPT ![r].delivered = TRUE]
      BY <1>1, <3>2
    <3> QED
      BY <1>3, <3>1, <3>2
  <2>4. DOMAIN pending' = DOMAIN pending
    BY <1>3
  <2>5. ops' = [ops EXCEPT ![o].state = result]
    BY <1>3
  <2> HIDE DEF o, result
  <2>6. [ops[o] EXCEPT !.state = result] \in Decisions
    BY <1>1, <2>1, <2>2 DEF Decisions
  <2>7. /\ ops' \in [OperationIds -> Decisions] /\ \A p \in OperationIds \ {o} : ops'[p] = ops[p]
        /\ ops'[o] = [ops[o] EXCEPT !.state = result]
    BY <1>1, <2>2, <2>5, <2>6
  <2>8. ops'[o].state = result /\ ops'[o].live = ops[o].live
    BY <1>1, <2>2, <2>7 DEF Decisions
  <2>9. ops'[o].state \in {"inflight", "pending"} => ops[o].state \in {"inflight", "pending"}
    BY <2>1, <2>8
  <2> QED
    BY <2>2, <2>3, <2>4, <2>7, <2>8, <2>9, OneDecision
<1> QED
  BY <1>2, <1>3 DEF Applies

(* The first half of retryRoomOperation, on a room in any phase.            *)
LEMMA DeliverFenced ==
  ASSUME FenceTypes, NEW r, NEW ok, Deliver(r, ok)
  PROVE  FencesKept
<1>1. r \in DOMAIN pending
  BY DEF Deliver, Frozen
<1>2. CASE DeliverClose(r, ok)
  <2> DEFINE room == rooms[r]
  <2>1. CASE room.phase \in {"lobby", "verdict"}
    <3>1. Applies(r, db, room, room, ok)
      BY <1>2, <2>1 DEF DeliverClose
    <3> QED
      BY <1>1, <3>1, AppliesFenced
  <2>2. CASE room.phase \in {"playing", "interrupting"}
    <3>1. \E x, y : Applies(r, db, x, y, ok)
      BY <1>2, <2>2 DEF DeliverClose
    <3> QED
      BY <1>1, <3>1, AppliesFenced
  <2>3. CASE room.phase \notin {"lobby", "verdict", "playing", "interrupting"}
    <3>1. (\E e : Applies(r, e.db, e.room, e.room, ok)) \/ UNCHANGED <<ops, pending>>
      BY <1>2, <2>3 DEF DeliverClose
    <3> QED
      BY <1>1, <3>1, AppliesFenced, FencesStay
  <2> QED
    BY <2>1, <2>2, <2>3
<1>3. CASE DeliverKick(r, ok)
  <2>1. (\E d, x : Applies(r, d, x, x, ok)) \/ UNCHANGED <<ops, pending>>
    BY <1>3 DEF DeliverKick
  <2> QED
    BY <1>1, <2>1, AppliesFenced, FencesStay
<1> QED
  BY <1>2, <1>3 DEF Deliver

(* A fence goes with its decision, once that is delivered                   *)
(* (completeRoomOperation).                                                 *)
LEMMA CompleteFenced ==
  ASSUME FenceTypes, NEW r, completeRoomOperation(r)
  PROVE  FencesKept
<1> DEFINE o == pending[r].op
<1>1. /\ r \in DOMAIN pending /\ pending' = Without(pending, r)
      /\ ops' = [ops EXCEPT ![o] = NoOperation]
  BY DEF completeRoomOperation, Frozen
<1>2. /\ ops \in [OperationIds -> Decisions]
      /\ \A s \in DOMAIN pending : /\ DOMAIN pending[s] = {"op", "app", "unconfirmed", "delivered"}
                                   /\ pending[s].op \in OperationIds
  BY DEF FenceTypes
<1>3. DOMAIN pending' = DOMAIN pending \ {r} /\ \A s \in DOMAIN pending' : pending'[s] = pending[s]
  BY <1>1 DEF Without
<1>4. o \in OperationIds
  BY <1>1, <1>2
<1>5. NoOperation \in Decisions /\ ~NoOperation.live
  BY DEF NoOperation, Decisions
<1>6. /\ ops' \in [OperationIds -> Decisions] /\ ~ops'[o].live
      /\ \A p \in OperationIds \ {o} : ops'[p] = ops[p]
  BY <1>1, <1>2, <1>4, <1>5
<1>7. FenceTypes'
  BY <1>2, <1>3, <1>6 DEF FenceTypes
<1>8. ASSUME NEW p \in OperationIds, Live(p)', Live(p) => Fenced(p)
      PROVE  Fenced(p)'
  <2>1. p # o
    BY <1>6, <1>8 DEF Live
  <2>2. PICK s \in DOMAIN pending : pending[s].op = p
    BY <1>6, <1>8, <2>1 DEF Live, Fenced, Frozen
  <2> QED
    BY <1>3, <2>1, <2>2 DEF Fenced, Frozen
<1> QED
  BY <1>7, <1>8 DEF FencesKept, Guarded

(* A clean-up takes no fence but that of the room it deletes, which is over *)
(* and empty (pruneFinishedRoom).                                           *)
LEMMA CleanUpFenced ==
  ASSUME FenceTypes, NEW r, CleanUp(r)
  PROVE  FencesKept
<1> DEFINE after == Pruned(rooms, r, rooms[r], members)
<1>1. /\ r \in cleaning /\ Save(db, queues, after.rooms, after.members)
      /\ pending' = [q \in Frozen \cap DOMAIN rooms' |-> pending[q]] /\ UNCHANGED ops
  BY DEF CleanUp
<1>2. rooms' = after.rooms
  BY <1>1 DEF Save
<1>3. ASSUME NEW q \in DOMAIN pending, q \notin DOMAIN pending', q \in DOMAIN rooms
      PROVE  q = r /\ CleanedAway(r)
  <2>1. q \notin DOMAIN rooms'
    BY <1>1, <1>3 DEF Frozen
  <2>2. Finished(rooms[r]) /\ after.rooms = Without(rooms, r)
        /\ {s \in DOMAIN rooms[r].seats : Connected(rooms[r].seats[s])} = {}
    BY <1>2, <1>3, <2>1 DEF Pruned
  <2>3. q = r
    BY <1>2, <1>3, <2>1, <2>2 DEF Without
  <2> QED
    BY <1>1, <2>1, <2>2, <2>3 DEF CleanedAway, Finished
<1>4. FenceTypes'
  BY <1>1 DEF FenceTypes, Frozen
<1> QED
  BY <1>1, <1>3, <1>4 DEF FencesKept, Guarded, Live, Fenced, Frozen

(* The process ends with nothing in flight, and what it had not delivered   *)
(* is its successor's to make obsolete (TextOwner).                         *)
LEMMA RestartFenced ==
  ASSUME FenceTypes, Restart
  PROVE  FencesKept
<1>1. /\ \A o \in OperationIds : ops[o].state # "inflight"
      /\ ops' = [o \in OperationIds |-> IF ops[o].state = "pending" THEN [ops[o] EXCEPT !.live = FALSE]
                                        ELSE NoOperation]
      /\ DOMAIN pending' = {}
  BY DEF Restart, Resolved
<1>2. ops \in [OperationIds -> Decisions]
  BY DEF FenceTypes
<1>3. NoOperation \in Decisions /\ ~NoOperation.live
  BY DEF NoOperation, Decisions
<1>4. ASSUME NEW o \in OperationIds
      PROVE  ops'[o] \in Decisions /\ ~ops'[o].live
  <2>1. CASE ops[o].state = "pending"
    <3>1. ops'[o] = [ops[o] EXCEPT !.live = FALSE]
      BY <1>1, <2>1
    <3> QED
      BY <1>2, <2>1, <3>1 DEF Decisions
  <2>2. CASE ops[o].state # "pending"
    BY <1>1, <1>3, <2>2
  <2> QED
    BY <2>1, <2>2
<1>5. ops' \in [OperationIds -> Decisions]
  BY <1>1, <1>4
<1> QED
  BY <1>1, <1>4, <1>5 DEF FencesKept, Guarded, FenceTypes, Live

(* What the successor makes obsolete was not live any more                  *)
(* (RecoverRoomOperations).                                                 *)
LEMMA RecoverFenced ==
  ASSUME FenceTypes, NEW o \in OperationIds, RecoverRoomOperations(o)
  PROVE  FencesKept
<1>1. ops' = [ops EXCEPT ![o] = NoOperation] /\ UNCHANGED pending
  BY DEF RecoverRoomOperations
<1>2. NoOperation \in Decisions /\ ~NoOperation.live
  BY DEF NoOperation, Decisions
<1>3. /\ ops' \in [OperationIds -> Decisions] /\ ~ops'[o].live
      /\ \A p \in OperationIds \ {o} : ops'[p] = ops[p]
  BY <1>1, <1>2 DEF FenceTypes
<1>4. \A s \in DOMAIN pending : pending[s].op \in OperationIds
  BY DEF FenceTypes
<1> QED
  BY <1>1, <1>3, <1>4, OneDecision

-----------------------------------------------------------------------------
(* Every step keeps the fences (OpsNext).                                   *)
LEMMA FenceSteps ==
  ASSUME FenceTypes, [OpsNext]_allVars
  PROVE  FencesKept
<1>1. CASE LobbyStep
  BY <1>1, LobbyFenced
<1>2. ASSUME NEW o \in OperationIds, NEW kind, NEW r, NEW a, DecideRoomOperation(o, kind, r, a)
      PROVE  FencesKept
  BY <1>2, DecideFenced
<1>3. ASSUME NEW o \in OperationIds, InFlightEnds(o) \/ RecoverRoomOperations(o)
      PROVE  FencesKept
  BY <1>3, InFlightFenced, RecoverFenced
<1>4. ASSUME NEW r, RoomOperation(r) \/ CleanUp(r)
      PROVE  FencesKept
  BY <1>4, ResolveFenced, CompleteFenced, DeliverFenced, CleanUpFenced DEF RoomOperation
<1>5. CASE Restart
  BY <1>5, RestartFenced
<1>6. ASSUME NEW a, ActionUnlocks(a)
      PROVE  FencesKept
  BY <1>6, FencesStay DEF ActionUnlocks
<1>7. CASE UNCHANGED allVars
  BY <1>7, FencesStay DEF allVars, opVars
<1> QED
  BY <1>1, <1>2, <1>3, <1>4, <1>5, <1>6, <1>7 DEF OpsNext

(* A fence is always of a decision, and what is in flight of a process that *)
(* lives.                                                                   *)
LEMMA FencesTyped == OpsSpec => []FenceTypes
<1>1. OpsInit => FenceTypes
  <2>1. SUFFICES ASSUME OpsInit PROVE FenceTypes
    OBVIOUS
  <2>2. ops = [o \in OperationIds |-> NoOperation] /\ DOMAIN pending = {}
    BY <2>1 DEF OpsInit
  <2>3. NoOperation \in Decisions /\ ~NoOperation.live
    BY DEF NoOperation, Decisions
  <2> QED
    BY <2>2, <2>3 DEF FenceTypes
<1>2. FenceTypes /\ [OpsNext]_allVars => FenceTypes'
  BY FenceSteps DEF FencesKept
<1> QED
  BY <1>1, <1>2, PTL DEF OpsSpec

-----------------------------------------------------------------------------
(* Counting.                                                                *)

\* How many elements of S come before x, by their keys.
RankIn(S, key, x) == Cardinality({y \in S : key[y] < key[x]})

\* Ranks by distinct keys number the elements of a finite set from zero
\* (the order of a queue, the seats that move together).
LEMMA Ranks ==
  ASSUME NEW S, IsFiniteSet(S), NEW key,
         \A x \in S : key[x] \in Nat,
         \A x, y \in S : key[x] = key[y] => x = y
  PROVE  /\ Cardinality(S) \in Nat
         /\ \A x \in S : RankIn(S, key, x) \in 0..(Cardinality(S) - 1)
         /\ \A x, y \in S : RankIn(S, key, x) = RankIn(S, key, y) => x = y
         /\ \A n \in 0..(Cardinality(S) - 1) : \E x \in S : RankIn(S, key, x) = n
<1> DEFINE n == Cardinality(S)
           less(x) == {y \in S : key[y] < key[x]}
           T == 0..(n - 1)
           f == [x \in S |-> RankIn(S, key, x)]
<1>1. n \in Nat
  BY FS_CardinalityType
<1>2. ASSUME NEW x \in S
      PROVE  IsFiniteSet(less(x)) /\ Cardinality(less(x)) \in T
  <2>1. less(x) \in SUBSET S /\ x \notin less(x)
    OBVIOUS
  <2>2. IsFiniteSet(less(x)) /\ Cardinality(less(x)) <= n /\ (n = Cardinality(less(x)) => S = less(x))
    BY <2>1, FS_Subset
  <2>3. Cardinality(less(x)) \in Nat
    BY <2>2, FS_CardinalityType
  <2>4. Cardinality(less(x)) # n
    BY <2>1, <2>2
  <2> QED
    BY <1>1, <2>2, <2>3, <2>4
<1>3. ASSUME NEW x \in S, NEW y \in S, key[x] < key[y]
      PROVE  less(x) \in SUBSET less(y) /\ x \in less(y) /\ x \notin less(x)
  BY <1>3
<1>4. \A x \in S : RankIn(S, key, x) = Cardinality(less(x))
  BY DEF RankIn
<1> HIDE DEF less
<1>5. ASSUME NEW x \in S, NEW y \in S, key[x] < key[y]
      PROVE  Cardinality(less(x)) < Cardinality(less(y))
  <2>1. less(x) \in SUBSET less(y) /\ less(y) # less(x)
    BY <1>3, <1>5
  <2>2. IsFiniteSet(less(y)) /\ Cardinality(less(x)) \in Nat /\ Cardinality(less(y)) \in Nat
    BY <1>1, <1>2
  <2>3. /\ Cardinality(less(x)) <= Cardinality(less(y))
        /\ Cardinality(less(y)) = Cardinality(less(x)) => less(y) = less(x)
    BY <2>1, <2>2, FS_Subset
  <2> QED
    BY <2>1, <2>2, <2>3
<1>6. ASSUME NEW x \in S, NEW y \in S, Cardinality(less(x)) = Cardinality(less(y))
      PROVE  x = y
  <2>1. Cardinality(less(x)) \in Nat
    BY <1>1, <1>2
  <2>2. ~(key[x] < key[y]) /\ ~(key[y] < key[x])
    BY <1>5, <1>6, <2>1
  <2> QED
    BY <2>2
<1>7. \A x \in S : RankIn(S, key, x) \in T
  BY <1>2, <1>4
<1>8. \A x, y \in S : RankIn(S, key, x) = RankIn(S, key, y) => x = y
  BY <1>4, <1>6
<1>9. f \in Injection(S, T)
  <2>1. f \in [S -> T]
    BY <1>7
  <2>2. \A x, y \in S : f[x] = f[y] => x = y
    BY <1>8
  <2> HIDE DEF f, T
  <2> QED
    BY <2>1, <2>2 DEF Injection, IsInjective
<1>10. IsFiniteSet(T) /\ Cardinality(T) = n
  <2>1. IsFiniteSet(0..(n - 1)) /\ Cardinality(0..(n - 1)) = IF 0 > n - 1 THEN 0 ELSE (n - 1) - 0 + 1
    BY <1>1, FS_Interval, SMTT(30)
  <2> QED
    BY <1>1, <2>1
<1>11. f \in Surjection(S, T)
  BY <1>9, <1>10, FS_Injection
<1>12. \A k \in T : \E x \in S : RankIn(S, key, x) = k
  BY <1>11 DEF Surjection
<1> QED
  BY <1>1, <1>7, <1>8, <1>12

\* The entries of a queue wait in a strict order: none of them shares a place.
Ordered(es) ==
  /\ IsFiniteSet(DOMAIN es)
  /\ \A a \in DOMAIN es : es[a].order \in Nat
  /\ \A a, b \in DOMAIN es : es[a].order = es[b].order => a = b

\* The places of the entries are the numbers from zero (text_queue.go).
LEMMA Places ==
  ASSUME NEW es, Ordered(es)
  PROVE  /\ Cardinality(DOMAIN es) \in Nat
         /\ \A a \in DOMAIN es : Before(es, a) \in 0..(Cardinality(DOMAIN es) - 1)
         /\ \A a, b \in DOMAIN es : Before(es, a) = Before(es, b) => a = b
         /\ \A n \in 0..(Cardinality(DOMAIN es) - 1) : \E a \in DOMAIN es : Before(es, a) = n
<1> DEFINE S == DOMAIN es
           key == [a \in S |-> es[a].order]
<1>1. ASSUME NEW a \in S
      PROVE  Before(es, a) = RankIn(S, key, a)
  <2>1. {b \in S : es[b].order < es[a].order} = {b \in S : key[b] < key[a]}
    OBVIOUS
  <2> QED
    BY <2>1 DEF Before, RankIn
<1>2. IsFiniteSet(S) /\ (\A x \in S : key[x] \in Nat) /\ (\A x, y \in S : key[x] = key[y] => x = y)
  BY DEF Ordered
<1> HIDE DEF key, S
<1>3. /\ Cardinality(S) \in Nat
      /\ \A x \in S : RankIn(S, key, x) \in 0..(Cardinality(S) - 1)
      /\ \A x, y \in S : RankIn(S, key, x) = RankIn(S, key, y) => x = y
      /\ \A n \in 0..(Cardinality(S) - 1) : \E x \in S : RankIn(S, key, x) = n
  BY <1>2, Ranks
<1>4. /\ Cardinality(S) \in Nat
      /\ \A x \in S : Before(es, x) \in 0..(Cardinality(S) - 1)
      /\ \A x, y \in S : Before(es, x) = Before(es, y) => x = y
      /\ \A n \in 0..(Cardinality(S) - 1) : \E x \in S : Before(es, x) = n
  BY <1>1, <1>3
<1> QED
  BY <1>4 DEF S

-----------------------------------------------------------------------------
(* Seats and rooms.                                                         *)

MemberType ==
  [account : Accounts, admission : AdmissionIds \cup {None}, bound : BOOLEAN, ready : BOOLEAN]

SeatMaps == UNION {[D -> MemberType] : D \in SUBSET Nat}

MatchOrNone == MatchIds \cup {None}

RoomType ==
  [path : {"local", "quick_play"}, settings : LobbySettings, host : Nat, seats : SeatMaps,
   pendingAbort : MatchOrNone, match : MatchOrNone,
   phase : {"lobby", "playing", "finishing", "interrupting", "verdict"}, rematching : BOOLEAN]

\* The seats of a room are those of its table.
Fits(room) == room \in RoomType /\ DOMAIN room.seats \subseteq 0..(Size(room) - 1)

\* What the type of a seat map says.
LEMMA SeatMapFacts ==
  ASSUME NEW f
  PROVE  f \in SeatMaps <=> /\ f = [s \in DOMAIN f |-> f[s]]
                            /\ DOMAIN f \subseteq Nat
                            /\ \A s \in DOMAIN f : f[s] \in MemberType
<1> HIDE DEF MemberType
<1>1. ASSUME f \in SeatMaps
      PROVE  /\ f = [s \in DOMAIN f |-> f[s]]
             /\ DOMAIN f \subseteq Nat
             /\ \A s \in DOMAIN f : f[s] \in MemberType
  <2>1. PICK D \in SUBSET Nat : f \in [D -> MemberType]
    BY <1>1 DEF SeatMaps
  <2> QED
    BY <2>1
<1>2. ASSUME f = [s \in DOMAIN f |-> f[s]], DOMAIN f \subseteq Nat, \A s \in DOMAIN f : f[s] \in MemberType
      PROVE  f \in SeatMaps
  <2>1. f \in [DOMAIN f -> MemberType] /\ DOMAIN f \in SUBSET Nat
    BY <1>2
  <2> QED
    BY <2>1 DEF SeatMaps
<1> QED
  BY <1>1, <1>2

\* The sizes of the tables.
LEMMA SizeFact ==
  ASSUME NEW room \in RoomType
  PROVE  Size(room) \in Nat \ {0}
BY LobbyAssumption DEF Size, RoomType, LobbySettings
-----------------------------------------------------------------------------
(* assign: the lowest free seats, in the order of the queue.                *)

\* The operators inside Assign.
Free(room) == {s \in 0..(Size(room) - 1) : s \notin DOMAIN room.seats}
Vacant(room, s) == Cardinality({t \in 0..(s - 1) : t \notin DOMAIN room.seats})
Taken(room, es) ==
  {s \in 0..(Size(room) - 1) : s \notin DOMAIN room.seats /\ Vacant(room, s) < Cardinality(DOMAIN es)}
NextFor(room, es, s) == CHOOSE a \in DOMAIN es : Before(es, a) = Vacant(room, s)

\* How many seats are free, and that they are numbered from the lowest.
LEMMA FreeSeats ==
  ASSUME NEW room, Fits(room)
  PROVE  /\ IsFiniteSet(DOMAIN room.seats) /\ Cardinality(DOMAIN room.seats) \in Nat
         /\ Cardinality(Free(room)) = Size(room) - Cardinality(DOMAIN room.seats)
         /\ \A s \in Free(room) : Vacant(room, s) \in 0..(Cardinality(Free(room)) - 1)
         /\ \A s, t \in Free(room) : Vacant(room, s) = Vacant(room, t) => s = t
         /\ \A n \in 0..(Cardinality(Free(room)) - 1) : \E s \in Free(room) : Vacant(room, s) = n
<1> DEFINE D == DOMAIN room.seats
           all == 0..(Size(room) - 1)
           F == Free(room)
           key == [s \in F |-> s]
<1>1. Size(room) \in Nat \ {0} /\ D \subseteq all
  BY SizeFact DEF Fits
<1>2. IsFiniteSet(all) /\ Cardinality(all) = Size(room)
  <2>1. IsFiniteSet(0..(Size(room) - 1))
        /\ Cardinality(0..(Size(room) - 1)) = IF 0 > Size(room) - 1 THEN 0 ELSE (Size(room) - 1) - 0 + 1
    BY <1>1, FS_Interval, SMTT(30)
  <2> QED
    BY <1>1, <2>1
<1>3. F \subseteq all /\ F \cup D = all /\ F \cap D = {}
  BY <1>1 DEF Free
<1>4. /\ \A s \in F : s \in Nat /\ key[s] = s
      /\ \A x \in F : key[x] \in Nat
      /\ \A x, y \in F : key[x] = key[y] => x = y
  BY <1>1, <1>3
<1>5. ASSUME NEW s \in F
      PROVE  Vacant(room, s) = RankIn(F, key, s)
  <2>1. {t \in 0..(s - 1) : t \notin DOMAIN room.seats} = {y \in F : key[y] < key[s]}
    BY <1>1, <1>4 DEF Free
  <2> QED
    BY <2>1 DEF Vacant, RankIn
<1> HIDE DEF key, F, all, D
<1>6. IsFiniteSet(F) /\ IsFiniteSet(D)
  BY <1>1, <1>2, <1>3, FS_Subset
<1>7. Cardinality(F) \in Nat /\ Cardinality(D) \in Nat
  BY <1>6, FS_CardinalityType
<1>8. Cardinality(F \cup D) = Cardinality(F) + Cardinality(D) - Cardinality({})
  BY <1>3, <1>6, FS_Union
<1>9. Cardinality(F) = Size(room) - Cardinality(D)
  BY <1>1, <1>2, <1>3, <1>7, <1>8, FS_EmptySet
<1>10. /\ \A x \in F : RankIn(F, key, x) \in 0..(Cardinality(F) - 1)
       /\ \A x, y \in F : RankIn(F, key, x) = RankIn(F, key, y) => x = y
       /\ \A n \in 0..(Cardinality(F) - 1) : \E x \in F : RankIn(F, key, x) = n
  BY <1>4, <1>6, Ranks
<1>11. /\ \A x \in F : Vacant(room, x) \in 0..(Cardinality(F) - 1)
       /\ \A x, y \in F : Vacant(room, x) = Vacant(room, y) => x = y
       /\ \A n \in 0..(Cardinality(F) - 1) : \E x \in F : Vacant(room, x) = n
  BY <1>5, <1>10
<1> QED
  BY <1>6, <1>7, <1>9, <1>11 DEF F, D

\* Every entry gets one seat of its own, if there are enough.
LEMMA Seated ==
  ASSUME NEW room, Fits(room), NEW es, Ordered(es),
         Cardinality(DOMAIN es) + Cardinality(DOMAIN room.seats) <= Size(room)
  PROVE  /\ Taken(room, es) \subseteq Free(room)
         /\ \A s \in Taken(room, es) : NextFor(room, es, s) \in DOMAIN es
         /\ \A s, t \in Taken(room, es) : NextFor(room, es, s) = NextFor(room, es, t) => s = t
         /\ \A a \in DOMAIN es : \E s \in Taken(room, es) : NextFor(room, es, s) = a
<1> DEFINE F == Free(room)
           n == Cardinality(DOMAIN es)
           T == Taken(room, es)
           next(s) == NextFor(room, es, s)
<1>1. /\ n \in Nat
      /\ \A a \in DOMAIN es : Before(es, a) \in 0..(n - 1)
      /\ \A a, b \in DOMAIN es : Before(es, a) = Before(es, b) => a = b
      /\ \A k \in 0..(n - 1) : \E a \in DOMAIN es : Before(es, a) = k
  BY Places
<1>2. /\ Cardinality(DOMAIN room.seats) \in Nat
      /\ Cardinality(F) = Size(room) - Cardinality(DOMAIN room.seats)
      /\ \A s \in F : Vacant(room, s) \in 0..(Cardinality(F) - 1)
      /\ \A s, t \in F : Vacant(room, s) = Vacant(room, t) => s = t
      /\ \A k \in 0..(Cardinality(F) - 1) : \E s \in F : Vacant(room, s) = k
  BY FreeSeats
<1>3. Size(room) \in Nat
  BY SizeFact DEF Fits
<1>4. n <= Cardinality(F) /\ Cardinality(F) \in Nat
  BY <1>1, <1>2, <1>3
<1>5. T = {s \in F : Vacant(room, s) < n}
  BY DEF Taken, Free
<1>6. ASSUME NEW s \in T
      PROVE  next(s) \in DOMAIN es /\ Before(es, next(s)) = Vacant(room, s)
  <2>1. Vacant(room, s) \in 0..(n - 1)
    BY <1>1, <1>2, <1>4, <1>5
  <2>2. \E a \in DOMAIN es : Before(es, a) = Vacant(room, s)
    BY <1>1, <2>1
  <2> QED
    BY <2>2 DEF NextFor
<1>7. ASSUME NEW s \in T, NEW t \in T, next(s) = next(t)
      PROVE  s = t
  BY <1>2, <1>5, <1>6, <1>7
<1>8. ASSUME NEW a \in DOMAIN es
      PROVE  \E s \in T : next(s) = a
  <2>1. Before(es, a) \in 0..(n - 1)
    BY <1>1
  <2>2. PICK s \in F : Vacant(room, s) = Before(es, a)
    BY <1>1, <1>2, <1>4, <2>1
  <2>3. s \in T
    BY <1>1, <1>5, <2>1, <2>2
  <2> QED
    BY <1>1, <1>6, <2>2, <2>3
<1> QED
  BY <1>5, <1>6, <1>7, <1>8
-----------------------------------------------------------------------------
(* What happens to the seats of a room.                                     *)

\* ready marks are taken back, and nothing else changes.
LEMMA InvalidateFacts ==
  ASSUME NEW f \in SeatMaps
  PROVE  /\ Invalidate(f) \in SeatMaps /\ DOMAIN Invalidate(f) = DOMAIN f
         /\ \A s \in DOMAIN f : /\ Invalidate(f)[s].account = f[s].account
                                /\ Invalidate(f)[s].bound = f[s].bound
                                /\ Invalidate(f)[s].admission = f[s].admission
                                /\ Invalidate(f)[s].ready = FALSE
<1>1. DOMAIN f \subseteq Nat /\ \A s \in DOMAIN f : f[s] \in MemberType
  BY SeatMapFacts
<1>2. Invalidate(f) = [s \in DOMAIN f |-> [f[s] EXCEPT !.ready = FALSE]]
  BY DEF Invalidate
<1>3. \A s \in DOMAIN f : /\ Invalidate(f)[s] \in MemberType
                          /\ Invalidate(f)[s].account = f[s].account
                          /\ Invalidate(f)[s].bound = f[s].bound
                          /\ Invalidate(f)[s].admission = f[s].admission
                          /\ Invalidate(f)[s].ready = FALSE
  BY <1>1, <1>2, ZenonT(60) DEF MemberType
<1>4. DOMAIN Invalidate(f) = DOMAIN f /\ Invalidate(f) = [s \in DOMAIN Invalidate(f) |-> Invalidate(f)[s]]
  BY <1>2
<1> HIDE DEF Invalidate
<1>5. Invalidate(f) \in SeatMaps
  BY <1>1, <1>3, <1>4, SeatMapFacts
<1> QED
  BY <1>3, <1>4, <1>5

\* Reservations are forgotten, and nothing else changes.
LEMMA ForgetFacts ==
  ASSUME NEW f \in SeatMaps, NEW ids
  PROVE  /\ Forget(f, ids) \in SeatMaps /\ DOMAIN Forget(f, ids) = DOMAIN f
         /\ \A s \in DOMAIN f : /\ Forget(f, ids)[s].account = f[s].account
                                /\ Forget(f, ids)[s].bound = f[s].bound
                                /\ Forget(f, ids)[s].ready = f[s].ready
                                /\ Forget(f, ids)[s].admission =
                                     IF f[s].admission \in ids THEN None ELSE f[s].admission
<1>1. DOMAIN f \subseteq Nat /\ \A s \in DOMAIN f : f[s] \in MemberType
  BY SeatMapFacts
<1>2. Forget(f, ids) = [s \in DOMAIN f |-> IF f[s].admission \in ids THEN [f[s] EXCEPT !.admission = None]
                                          ELSE f[s]]
  BY DEF Forget
<1>3. \A s \in DOMAIN f : /\ Forget(f, ids)[s] \in MemberType
                          /\ Forget(f, ids)[s].account = f[s].account
                          /\ Forget(f, ids)[s].bound = f[s].bound
                          /\ Forget(f, ids)[s].ready = f[s].ready
                          /\ Forget(f, ids)[s].admission =
                               IF f[s].admission \in ids THEN None ELSE f[s].admission
  BY <1>1, <1>2 DEF MemberType
<1>4. DOMAIN Forget(f, ids) = DOMAIN f /\ Forget(f, ids) = [s \in DOMAIN Forget(f, ids) |-> Forget(f, ids)[s]]
  BY <1>2
<1> HIDE DEF Forget
<1>5. Forget(f, ids) \in SeatMaps
  BY <1>1, <1>3, <1>4, SeatMapFacts
<1> QED
  BY <1>3, <1>4, <1>5

\* Some seats of a room stay.
LEMMA StayFacts ==
  ASSUME NEW f \in SeatMaps, NEW stay \in SUBSET DOMAIN f
  PROVE  [s \in stay |-> f[s]] \in SeatMaps
<1>1. DOMAIN f \subseteq Nat /\ \A s \in DOMAIN f : f[s] \in MemberType
  BY SeatMapFacts
<1> DEFINE g == [s \in stay |-> f[s]]
<1>2. DOMAIN g \subseteq Nat /\ (\A s \in DOMAIN g : g[s] \in MemberType) /\ g = [s \in DOMAIN g |-> g[s]]
  BY <1>1
<1> HIDE DEF g
<1>3. g \in SeatMaps
  BY <1>2, SeatMapFacts
<1> QED
  BY <1>3 DEF g

\* A seat is written (bound, ready, admission).
LEMMA SeatWritten ==
  ASSUME NEW f \in SeatMaps, NEW x \in DOMAIN f, NEW v \in MemberType
  PROVE  [f EXCEPT ![x] = v] \in SeatMaps
<1>1. DOMAIN f \subseteq Nat /\ (\A s \in DOMAIN f : f[s] \in MemberType) /\ f = [s \in DOMAIN f |-> f[s]]
  BY SeatMapFacts
<1> DEFINE g == [f EXCEPT ![x] = v]
<1>2. DOMAIN g \subseteq Nat /\ (\A s \in DOMAIN g : g[s] \in MemberType) /\ g = [s \in DOMAIN g |-> g[s]]
  BY <1>1
<1> HIDE DEF g
<1>3. g \in SeatMaps
  BY <1>2, SeatMapFacts
<1> QED
  BY <1>3 DEF g

\* assign seats every entry once, beside those who sit already, who keep their
\* seats (TextManager.assign).
LEMMA Assigned ==
  ASSUME NEW room, Fits(room), NEW es, Ordered(es),
         Cardinality(DOMAIN es) + Cardinality(DOMAIN room.seats) <= Size(room),
         DOMAIN es \subseteq Accounts, \A a \in DOMAIN es : es[a].id \in AdmissionIds,
         NEW new, new = Assign(room, es)
  PROVE  /\ Fits(new)
         /\ new = [room EXCEPT !.seats = new.seats]
         /\ DOMAIN room.seats \subseteq DOMAIN new.seats
         /\ \A s \in DOMAIN room.seats : /\ new.seats[s].account = room.seats[s].account
                                         /\ new.seats[s].bound = room.seats[s].bound
                                         /\ new.seats[s].admission = room.seats[s].admission
                                         /\ new.seats[s].ready => room.seats[s].ready
         /\ \A s \in DOMAIN new.seats \ DOMAIN room.seats :
              /\ new.seats[s].account \in DOMAIN es
              /\ new.seats[s].admission = es[new.seats[s].account].id
              /\ ~new.seats[s].ready
         /\ \A s, t \in DOMAIN new.seats \ DOMAIN room.seats :
              new.seats[s].account = new.seats[t].account => s = t
         /\ \A a \in DOMAIN es : \E s \in DOMAIN new.seats \ DOMAIN room.seats : new.seats[s].account = a
<1>1. room \in RoomType /\ room.seats \in SeatMaps
  BY DEF Fits, RoomType
<1>2. CASE es = <<>>
  <2>1. new = room /\ DOMAIN es = {}
    BY <1>2 DEF Assign
  <2>2. room = [room EXCEPT !.seats = room.seats]
    BY <1>1 DEF RoomType
  <2> QED
    BY <2>1, <2>2
<1>3. CASE es # <<>>
  <2> DEFINE T == Taken(room, es)
             next(s) == NextFor(room, es, s)
             came == [s \in T |-> Member(next(s), es[next(s)].id)]
             all == Over(came, room.seats)
             f == Invalidate(all)
  <2>1. new = [room EXCEPT !.seats = f]
    BY <1>3 DEF Assign, Taken, Vacant, NextFor
  <2>2. /\ T \subseteq Free(room)
        /\ \A s \in T : next(s) \in DOMAIN es
        /\ \A s, t \in T : next(s) = next(t) => s = t
        /\ \A a \in DOMAIN es : \E s \in T : next(s) = a
    BY Seated
  <2>3. Size(room) \in Nat /\ DOMAIN room.seats \subseteq 0..(Size(room) - 1)
    BY <1>1, SizeFact DEF Fits
  <2>4. T \subseteq 0..(Size(room) - 1) /\ T \cap DOMAIN room.seats = {}
    BY <2>2 DEF Free
  <2> HIDE DEF T, next
  <2>5. \A s \in T : /\ came[s] \in MemberType /\ came[s].account = next(s)
                     /\ came[s].admission = es[next(s)].id
    BY <2>2 DEF Member, MemberType
  <2>6. /\ DOMAIN all = T \cup DOMAIN room.seats
        /\ \A s \in T : all[s] = came[s]
        /\ \A s \in DOMAIN room.seats : all[s] = room.seats[s]
        /\ all = [s \in DOMAIN all |-> all[s]]
    BY <2>4 DEF Over
  <2> HIDE DEF came, all
  <2>7. \A s \in DOMAIN room.seats : room.seats[s] \in MemberType
    BY <1>1, SeatMapFacts
  <2>8. all \in SeatMaps
    <3>1. DOMAIN all \subseteq Nat /\ \A s \in DOMAIN all : all[s] \in MemberType
      BY <2>3, <2>4, <2>5, <2>6, <2>7
    <3> QED
      BY <2>6, <3>1, SeatMapFacts
  <2>9. /\ f \in SeatMaps /\ DOMAIN f = DOMAIN all
        /\ \A s \in DOMAIN all : /\ f[s].account = all[s].account /\ f[s].bound = all[s].bound
                                 /\ f[s].admission = all[s].admission /\ f[s].ready = FALSE
    BY <2>8, InvalidateFacts
  <2> HIDE DEF f
  <2>10. new \in RoomType /\ new.seats = f /\ new = [room EXCEPT !.seats = new.seats]
         /\ Size(new) = Size(room)
    BY <1>1, <2>1, <2>9 DEF RoomType, Size
  <2>11. Fits(new)
    BY <2>3, <2>4, <2>6, <2>9, <2>10 DEF Fits
  <2>12. DOMAIN new.seats \ DOMAIN room.seats = T
    BY <2>4, <2>6, <2>9, <2>10
  <2>13. \A s \in DOMAIN room.seats : /\ new.seats[s].account = room.seats[s].account
                                      /\ new.seats[s].bound = room.seats[s].bound
                                      /\ new.seats[s].admission = room.seats[s].admission
                                      /\ new.seats[s].ready => room.seats[s].ready
    BY <2>6, <2>9, <2>10
  <2>14. \A s \in T : /\ new.seats[s].account = next(s) /\ new.seats[s].admission = es[next(s)].id
                      /\ ~new.seats[s].ready
    BY <2>5, <2>6, <2>9, <2>10
  <2>15. DOMAIN room.seats \subseteq DOMAIN new.seats
    BY <2>6, <2>9, <2>10
  <2> QED
    BY <2>2, <2>10, <2>11, <2>12, <2>13, <2>14, <2>15
<1> QED
  BY <1>2, <1>3
-----------------------------------------------------------------------------
(* Where the accounts are.                                                  *)

Who(room) == {room.seats[s].account : s \in DOMAIN room.seats}

Apart(room) == \A s, t \in DOMAIN room.seats : room.seats[s].account = room.seats[t].account => s = t

EntryType == [settings : LobbySettings, id : AdmissionIds, order : Nat]

QueueOK(q) ==
  /\ Ordered(q) /\ DOMAIN q \subseteq Accounts
  /\ \A a \in DOMAIN q : q[a] \in EntryType /\ q[a].order < Cardinality(DOMAIN q)

TablesOK(rs) == DOMAIN rs \subseteq RoomIds /\ \A r \in DOMAIN rs : Fits(rs[r]) /\ Apart(rs[r])

\* Who sits in a room is its member, and a member sits in its room.
Placed(rs, ms) ==
  /\ \A a \in DOMAIN ms : ms[a] \in DOMAIN rs /\ a \in Who(rs[ms[a]])
  /\ \A r \in DOMAIN rs : \A a \in Who(rs[r]) : a \in DOMAIN ms /\ ms[a] = r

LobbyOK(q, rs, ms) ==
  QueueOK(q) /\ TablesOK(rs) /\ Placed(rs, ms) /\ DOMAIN q \cap DOMAIN ms = {}

\* The account sits on a seat that its connection holds.
IsBound(rs, a) ==
  \E r \in DOMAIN rs : \E s \in DOMAIN rs[r].seats :
    rs[r].seats[s].account = a /\ rs[r].seats[s].bound

\* The accounts of a room, in other words.
LEMMA WhoFacts ==
  ASSUME NEW room, NEW a
  PROVE  a \in Who(room) <=> \E s \in DOMAIN room.seats : room.seats[s].account = a
BY DEF Who

\* Room r and its members V are replaced by one with members W.
Replaces(r, rs, ms, rs2, ms2, V, W) ==
  /\ \A x : x # r => (x \in DOMAIN rs2 <=> x \in DOMAIN rs)
  /\ \A x \in DOMAIN rs2 : x # r => rs2[x] = rs[x]
  /\ IF r \in DOMAIN rs2 THEN Fits(rs2[r]) /\ Apart(rs2[r]) /\ W = Who(rs2[r]) ELSE W = {}
  /\ IF r \in DOMAIN rs THEN V = Who(rs[r]) ELSE V = {}
  /\ DOMAIN ms2 = (DOMAIN ms \ V) \cup W
  /\ \A a \in W : ms2[a] = r
  /\ \A a \in DOMAIN ms \ V : ms2[a] = ms[a] /\ a \notin W

\* One room and its members are replaced.
LEMMA RoomReplaced ==
  ASSUME NEW q, NEW rs, NEW ms, LobbyOK(q, rs, ms), NEW r \in RoomIds, NEW rs2, NEW ms2, NEW V, NEW W,
         Replaces(r, rs, ms, rs2, ms2, V, W), DOMAIN q \cap DOMAIN ms2 = {}
  PROVE  LobbyOK(q, rs2, ms2)
<1> USE DEF Replaces
<1>1. TablesOK(rs) /\ Placed(rs, ms) /\ QueueOK(q)
  BY DEF LobbyOK
<1>2. TablesOK(rs2)
  BY <1>1 DEF TablesOK
<1>3. ASSUME NEW a \in DOMAIN ms2
      PROVE  ms2[a] \in DOMAIN rs2 /\ a \in Who(rs2[ms2[a]])
  <2>1. CASE a \in W
    BY <2>1
  <2>2. CASE a \notin W
    <3>1. a \in DOMAIN ms /\ a \notin V /\ ms2[a] = ms[a]
      BY <2>2
    <3>2. ms[a] \in DOMAIN rs /\ a \in Who(rs[ms[a]])
      BY <1>1, <3>1 DEF Placed
    <3>3. ms[a] # r
      BY <3>1, <3>2
    <3> QED
      BY <3>1, <3>2, <3>3
  <2> QED
    BY <2>1, <2>2
<1>4. ASSUME NEW x \in DOMAIN rs2, NEW a \in Who(rs2[x])
      PROVE  a \in DOMAIN ms2 /\ ms2[a] = x
  <2>1. CASE x = r
    BY <1>4, <2>1
  <2>2. CASE x # r
    <3>1. x \in DOMAIN rs /\ rs2[x] = rs[x]
      BY <2>2
    <3>2. a \in DOMAIN ms /\ ms[a] = x
      BY <1>1, <1>4, <3>1 DEF Placed
    <3>3. a \notin V
      BY <1>1, <2>2, <3>2 DEF Placed
    <3> QED
      BY <3>2, <3>3
  <2> QED
    BY <2>1, <2>2
<1>5. Placed(rs2, ms2)
  BY <1>3, <1>4 DEF Placed
<1> QED
  BY <1>1, <1>2, <1>5 DEF LobbyOK

\* The same players on the same seats.
Keeps(new, old) ==
  /\ Fits(new) /\ DOMAIN new.seats = DOMAIN old.seats
  /\ \A s \in DOMAIN old.seats : /\ new.seats[s].account = old.seats[s].account
                                 /\ new.seats[s].bound => old.seats[s].bound

\* A room whose players stay takes the place of itself.
LEMMA RoomKept ==
  ASSUME NEW q, NEW rs, NEW ms, LobbyOK(q, rs, ms), NEW r \in DOMAIN rs, NEW new, Keeps(new, rs[r]),
         NEW rs2, rs2 = [rs EXCEPT ![r] = new]
  PROVE  LobbyOK(q, rs2, ms) /\ \A a : IsBound(rs2, a) => IsBound(rs, a)
<1>1. r \in RoomIds /\ TablesOK(rs) /\ Placed(rs, ms) /\ DOMAIN q \cap DOMAIN ms = {}
  BY DEF LobbyOK, TablesOK
<1>2. DOMAIN rs2 = DOMAIN rs /\ rs2[r] = new /\ \A x \in DOMAIN rs \ {r} : rs2[x] = rs[x]
  OBVIOUS
<1>3. Who(new) = Who(rs[r])
  BY DEF Who, Keeps
<1>4. Fits(new) /\ Apart(new)
  BY <1>1 DEF Keeps, TablesOK, Apart
<1>5. \A a \in Who(rs[r]) : a \in DOMAIN ms /\ ms[a] = r
  BY <1>1 DEF Placed
<1>6. Replaces(r, rs, ms, rs2, ms, Who(new), Who(new))
  BY <1>2, <1>3, <1>4, <1>5 DEF Replaces
<1> LobbyOK(q, rs2, ms)
  BY <1>1, <1>6, RoomReplaced
<1>7. ASSUME NEW a, IsBound(rs2, a)
      PROVE  IsBound(rs, a)
  <2>1. PICK x \in DOMAIN rs2 : \E s \in DOMAIN rs2[x].seats :
               rs2[x].seats[s].account = a /\ rs2[x].seats[s].bound
    BY <1>7 DEF IsBound
  <2>2. \E s \in DOMAIN rs[x].seats : rs[x].seats[s].account = a /\ rs[x].seats[s].bound
    BY <1>2, <2>1 DEF Keeps
  <2> QED
    BY <1>2, <2>1, <2>2 DEF IsBound
<1> QED
  BY <1>7

\* Of room r only the seats in stay are left, if any; gone are the others.
Evicts(r, rs, ms, stay, gone, rs2, ms2) ==
  /\ stay \in SUBSET DOMAIN rs[r].seats
  /\ gone = {rs[r].seats[s].account : s \in DOMAIN rs[r].seats \ stay}
  /\ \/ DOMAIN rs2 = DOMAIN rs \ {r} /\ stay = {}
     \/ /\ DOMAIN rs2 = DOMAIN rs /\ Fits(rs2[r]) /\ DOMAIN rs2[r].seats = stay
        /\ \A s \in stay : /\ rs2[r].seats[s].account = rs[r].seats[s].account
                           /\ rs2[r].seats[s].bound => rs[r].seats[s].bound
  /\ \A x \in DOMAIN rs \ {r} : rs2[x] = rs[x]
  /\ DOMAIN ms2 = DOMAIN ms \ gone /\ \A a \in DOMAIN ms2 : ms2[a] = ms[a]

\* Some players leave a room, which is closed when nobody stays
\* (pruneFinishedRoom, leave, Rematch, completeRoomOperation).
LEMMA Evicted ==
  ASSUME NEW q, NEW rs, NEW ms, LobbyOK(q, rs, ms), NEW r \in DOMAIN rs,
         NEW stay, NEW gone, NEW rs2, NEW ms2, Evicts(r, rs, ms, stay, gone, rs2, ms2)
  PROVE  /\ LobbyOK(q, rs2, ms2)
         /\ \A a : IsBound(rs2, a) => IsBound(rs, a) /\ a \notin gone
<1> USE DEF Evicts
<1> DEFINE V == Who(rs[r])
           W == V \ gone
<1>1. r \in RoomIds /\ TablesOK(rs) /\ Placed(rs, ms) /\ DOMAIN q \cap DOMAIN ms = {} /\ Apart(rs[r])
  BY DEF LobbyOK, TablesOK
<1>2. gone \subseteq V /\ W = {rs[r].seats[s].account : s \in stay}
  BY <1>1 DEF Who, Apart
<1>3. \A a \in V : a \in DOMAIN ms /\ ms[a] = r
  BY <1>1 DEF Placed
<1>4. /\ \A x : x # r => (x \in DOMAIN rs2 <=> x \in DOMAIN rs)
      /\ \A x \in DOMAIN rs2 : x # r => rs2[x] = rs[x]
  OBVIOUS
<1>5. r \in DOMAIN rs2 => Fits(rs2[r]) /\ Apart(rs2[r]) /\ W = Who(rs2[r])
  <2>1. SUFFICES ASSUME r \in DOMAIN rs2 PROVE Fits(rs2[r]) /\ Apart(rs2[r]) /\ W = Who(rs2[r])
    OBVIOUS
  <2>2. /\ Fits(rs2[r]) /\ DOMAIN rs2[r].seats = stay
        /\ \A s \in stay : rs2[r].seats[s].account = rs[r].seats[s].account
    BY <2>1
  <2>3. Apart(rs2[r])
    BY <1>1, <2>2 DEF Apart
  <2>4. Who(rs2[r]) = {rs[r].seats[s].account : s \in stay}
    BY <2>2 DEF Who
  <2> QED
    BY <1>2, <2>2, <2>3, <2>4
<1>6. r \notin DOMAIN rs2 => W = {}
  BY <1>2
<1>7. DOMAIN ms2 = (DOMAIN ms \ V) \cup W
  BY <1>2, <1>3
<1> HIDE DEF V, W
<1>8. /\ \A a \in W : ms2[a] = r
      /\ \A a \in DOMAIN ms \ V : ms2[a] = ms[a] /\ a \notin W
      /\ DOMAIN q \cap DOMAIN ms2 = {}
  BY <1>1, <1>3, <1>7 DEF W
<1>9. V = Who(rs[r])
  BY DEF V
<1>10. Replaces(r, rs, ms, rs2, ms2, V, W)
  BY <1>4, <1>5, <1>6, <1>7, <1>8, <1>9 DEF Replaces
<1> LobbyOK(q, rs2, ms2)
  BY <1>1, <1>8, <1>10, RoomReplaced
<1>11. ASSUME NEW a, IsBound(rs2, a)
       PROVE  IsBound(rs, a) /\ a \notin gone
  <2>1. PICK x \in DOMAIN rs2 : \E s \in DOMAIN rs2[x].seats :
               rs2[x].seats[s].account = a /\ rs2[x].seats[s].bound
    BY <1>11 DEF IsBound
  <2> PICK s \in DOMAIN rs2[x].seats : rs2[x].seats[s].account = a /\ rs2[x].seats[s].bound
    BY <2>1
  <2>2. x \in DOMAIN rs /\ s \in DOMAIN rs[x].seats /\ rs[x].seats[s].account = a /\ rs[x].seats[s].bound
    BY <2>1
  <2>3. IsBound(rs, a)
    BY <2>2 DEF IsBound
  <2>4. CASE x = r
    <3>1. \A t \in DOMAIN rs[r].seats \ stay : rs[r].seats[t].account # a
      BY <1>1, <2>1, <2>2, <2>4 DEF Apart
    <3> QED
      BY <2>3, <3>1
  <2>5. CASE x # r
    <3>1. a \in Who(rs[x])
      BY <2>2 DEF Who
    <3>2. ms[a] = x
      BY <1>1, <2>2, <3>1 DEF Placed
    <3> QED
      BY <1>2, <1>3, <2>3, <2>5, <3>2
  <2> QED
    BY <2>4, <2>5
<1> QED
  BY <1>11
-----------------------------------------------------------------------------
(* matchQueues.                                                             *)

\* The operators inside MatchQueues.
Came(f, q, r) == [a \in To(f, r) |-> q[a]]
Base(f, q, rs, r) ==
  IF r \in DOMAIN rs THEN rs[r]
  ELSE NewRoom("quick_play", q[CHOOSE a \in To(f, r) : TRUE].settings, <<>>)
RoomsAfter(f, q, rs) ==
  [r \in DOMAIN rs \cup {f[a] : a \in DOMAIN f} |-> Assign(Base(f, q, rs, r), Came(f, q, r))]

\* The seats that were taken before.
SeatsBefore(rs, r) == IF r \in DOMAIN rs THEN DOMAIN rs[r].seats ELSE {}

\* Connected waiters are sent to rooms that have seats for them.
LEMMA PlacementFacts ==
  ASSUME NEW q, NEW rs, NEW f \in Placements(q, rs)
  PROVE  /\ DOMAIN f \subseteq DOMAIN q
         /\ \A a \in DOMAIN f : /\ Current(a) /\ f[a] \in RoomIds
                                /\ MaySeat(q, rs, f[a], To(f, f[a]))
<1> DEFINE waiting == {a \in DOMAIN q : Current(a)}
<1>1. CASE AdmissionPaused
  <2>1. f = <<>>
    BY <1>1 DEF Placements
  <2>2. DOMAIN f = {}
    BY <2>1
  <2> QED
    BY <2>2
<1>2. CASE ~AdmissionPaused
  <2>1. f \in UNION {[as -> RoomIds] : as \in SUBSET waiting}
        /\ \A a \in DOMAIN f : MaySeat(q, rs, f[a], To(f, f[a]))
    BY <1>2 DEF Placements
  <2>2. PICK as \in SUBSET waiting : f \in [as -> RoomIds]
    BY <2>1
  <2> QED
    BY <2>1, <2>2
<1> QED
  BY <1>1, <1>2

\* A new room is a room.
LEMMA NewRoomFits ==
  ASSUME NEW path \in {"local", "quick_play"}, NEW s \in LobbySettings,
         NEW seats \in SeatMaps, DOMAIN seats \subseteq 0..(SizeOf[s] - 1)
  PROVE  Fits(NewRoom(path, s, seats))
BY DEF Fits, RoomType, NewRoom, Size, MatchOrNone

\* No seats are seats.
LEMMA NoSeats == <<>> \in SeatMaps /\ DOMAIN <<>> = {}
<1> DEFINE f == [s \in {} |-> s]
<1>1. DOMAIN <<>> = {} /\ <<>> = [s \in DOMAIN <<>> |-> <<>>[s]]
  OBVIOUS
<1> QED
  BY <1>1, SeatMapFacts

\* Every room of the assignment has seats enough for who comes.
LEMMA BaseFits ==
  ASSUME NEW q, NEW rs, QueueOK(q), TablesOK(rs), NEW f \in Placements(q, rs),
         NEW r \in DOMAIN rs \cup {f[a] : a \in DOMAIN f}
  PROVE  /\ r \in RoomIds
         /\ Fits(Base(f, q, rs, r)) /\ DOMAIN Base(f, q, rs, r).seats = SeatsBefore(rs, r)
         /\ Ordered(Came(f, q, r))
         /\ Cardinality(DOMAIN Came(f, q, r)) + Cardinality(DOMAIN Base(f, q, rs, r).seats)
              <= Size(Base(f, q, rs, r))
         /\ DOMAIN Came(f, q, r) = To(f, r)
         /\ DOMAIN Came(f, q, r) \subseteq Accounts
         /\ \A a \in To(f, r) : Came(f, q, r)[a].id = q[a].id
         /\ \A a \in To(f, r) : Came(f, q, r)[a].id \in AdmissionIds
<1> DEFINE es == Came(f, q, r)
           base == Base(f, q, rs, r)
<1>1. /\ DOMAIN f \subseteq DOMAIN q
      /\ \A a \in DOMAIN f : f[a] \in RoomIds /\ MaySeat(q, rs, f[a], To(f, f[a]))
  BY PlacementFacts
<1>2. r \in RoomIds
  BY <1>1 DEF TablesOK
<1>3. DOMAIN es = To(f, r) /\ To(f, r) \subseteq DOMAIN f /\ \A a \in To(f, r) : es[a] = q[a] /\ f[a] = r
  BY DEF Came, To
<1>4. /\ IsFiniteSet(DOMAIN q) /\ DOMAIN q \subseteq Accounts
      /\ \A a \in DOMAIN q : q[a] \in EntryType /\ q[a].order \in Nat
      /\ \A a, b \in DOMAIN q : q[a].order = q[b].order => a = b
  BY DEF QueueOK, Ordered
<1> HIDE DEF es
<1>5. IsFiniteSet(To(f, r))
  BY <1>1, <1>3, <1>4, FS_Subset
<1>6. Ordered(es)
  BY <1>1, <1>3, <1>4, <1>5 DEF Ordered
<1>7. DOMAIN es \subseteq Accounts /\ \A a \in To(f, r) : es[a].id = q[a].id /\ es[a].id \in AdmissionIds
  BY <1>1, <1>3, <1>4 DEF EntryType
<1>8. Fits(base) /\ DOMAIN base.seats = SeatsBefore(rs, r)
      /\ Cardinality(To(f, r)) + Cardinality(DOMAIN base.seats) <= Size(base)
  <2>1. CASE r \in DOMAIN rs
    <3>1. base = rs[r] /\ Fits(rs[r])
      BY <2>1 DEF Base, TablesOK
    <3>2. /\ Cardinality(DOMAIN rs[r].seats) \in Nat
          /\ Cardinality(Free(rs[r])) = Size(rs[r]) - Cardinality(DOMAIN rs[r].seats)
      BY <3>1, FreeSeats
    <3>3. CASE To(f, r) = {}
      <4>1. Cardinality(To(f, r)) = 0
        BY <3>3, FS_EmptySet
      <4>2. Size(rs[r]) \in Nat /\ DOMAIN rs[r].seats \subseteq 0..(Size(rs[r]) - 1)
        BY <3>1, SizeFact DEF Fits
      <4>3. IsFiniteSet(0..(Size(rs[r]) - 1)) /\ Cardinality(0..(Size(rs[r]) - 1))
              = IF 0 > Size(rs[r]) - 1 THEN 0 ELSE (Size(rs[r]) - 1) - 0 + 1
        BY <4>2, FS_Interval, SMTT(30)
      <4>4. Cardinality(DOMAIN rs[r].seats) <= Cardinality(0..(Size(rs[r]) - 1))
        BY <4>2, <4>3, FS_Subset
      <4>5. Cardinality(DOMAIN rs[r].seats) <= Size(rs[r])
        BY <3>2, <4>2, <4>3, <4>4
      <4> QED
        BY <2>1, <3>1, <3>2, <4>1, <4>5 DEF SeatsBefore
    <3>4. CASE To(f, r) # {}
      <4>1. PICK a \in DOMAIN f : f[a] = r
        BY <1>3, <3>4
      <4>2. MaySeat(q, rs, r, To(f, r))
        BY <1>1, <4>1
      <4>3. Cardinality(To(f, r)) + Cardinality(DOMAIN rs[r].seats) <= Size(rs[r])
        BY <2>1, <4>2 DEF MaySeat
      <4> QED
        BY <2>1, <3>1, <4>3 DEF SeatsBefore
    <3> QED
      BY <3>3, <3>4
  <2>2. CASE r \notin DOMAIN rs
    <3>1. PICK a \in DOMAIN f : f[a] = r
      BY <2>2
    <3>2. a \in To(f, r)
      BY <3>1 DEF To
    <3>3. MaySeat(q, rs, r, To(f, r))
      BY <1>1, <3>1
    <3>4. PICK s \in LobbySettings : /\ Cardinality(To(f, r)) = SizeOf[s]
                                     /\ \A b \in To(f, r) : q[b].settings = s
      BY <2>2, <3>3 DEF MaySeat
    <3>5. base = NewRoom("quick_play", s, <<>>)
      BY <2>2, <3>2, <3>4 DEF Base
    <3>6. SizeOf[s] \in Nat \ {0}
      BY LobbyAssumption
    <3>7. Fits(base)
      BY <3>5, NoSeats, NewRoomFits
    <3>8. base.seats = <<>> /\ Size(base) = SizeOf[s]
      BY <3>5 DEF NewRoom, Size
    <3>9. Cardinality(DOMAIN base.seats) = 0 /\ DOMAIN base.seats = {}
      BY <3>8, NoSeats, FS_EmptySet
    <3> QED
      BY <2>2, <3>4, <3>6, <3>7, <3>8, <3>9 DEF SeatsBefore
  <2> QED
    BY <2>1, <2>2
<1> QED
  BY <1>2, <1>3, <1>6, <1>7, <1>8 DEF es

\* Room new is room base with its seats old, and with seats for came of queue q.
Seating(new, base, old, came, q) ==
  /\ Fits(new)
  /\ new = [base EXCEPT !.seats = new.seats]
  /\ old \subseteq DOMAIN new.seats
  /\ \A s \in old : /\ new.seats[s].account = base.seats[s].account
                    /\ new.seats[s].bound = base.seats[s].bound
                    /\ new.seats[s].admission = base.seats[s].admission
                    /\ new.seats[s].ready => base.seats[s].ready
  /\ \A s \in DOMAIN new.seats \ old :
       /\ new.seats[s].account \in came
       /\ new.seats[s].admission = q[new.seats[s].account].id
       /\ ~new.seats[s].ready
  /\ \A s, t \in DOMAIN new.seats \ old :
       new.seats[s].account = new.seats[t].account => s = t
  /\ \A a \in came : \E s \in DOMAIN new.seats \ old : new.seats[s].account = a

\* What an assignment of waiters does to the rooms.
LEMMA Matched ==
  ASSUME NEW q, NEW rs, QueueOK(q), TablesOK(rs), NEW f \in Placements(q, rs), NEW rs2, rs2 = RoomsAfter(f, q, rs)
  PROVE  /\ DOMAIN rs2 = DOMAIN rs \cup {f[a] : a \in DOMAIN f}
         /\ \A r \in DOMAIN rs2 : /\ r \in RoomIds /\ Fits(rs2[r])
                                  /\ rs2[r] = [Base(f, q, rs, r) EXCEPT !.seats = rs2[r].seats]
                                  /\ SeatsBefore(rs, r) \subseteq DOMAIN rs2[r].seats
         /\ \A r \in DOMAIN rs : \A s \in DOMAIN rs[r].seats :
              /\ s \in DOMAIN rs2[r].seats
              /\ rs2[r].seats[s].account = rs[r].seats[s].account
              /\ rs2[r].seats[s].bound = rs[r].seats[s].bound
              /\ rs2[r].seats[s].admission = rs[r].seats[s].admission
              /\ rs2[r].seats[s].ready => rs[r].seats[s].ready
         /\ \A r \in DOMAIN rs2 : \A s \in DOMAIN rs2[r].seats \ SeatsBefore(rs, r) :
              /\ rs2[r].seats[s].account \in To(f, r)
              /\ rs2[r].seats[s].admission = q[rs2[r].seats[s].account].id
              /\ ~rs2[r].seats[s].ready
         /\ \A r \in DOMAIN rs2 : \A s, t \in DOMAIN rs2[r].seats \ SeatsBefore(rs, r) :
              rs2[r].seats[s].account = rs2[r].seats[t].account => s = t
         /\ \A r \in DOMAIN rs2 : \A a \in To(f, r) :
              \E s \in DOMAIN rs2[r].seats \ SeatsBefore(rs, r) : rs2[r].seats[s].account = a
<1>1. DOMAIN rs2 = DOMAIN rs \cup {f[a] : a \in DOMAIN f}
  BY DEF RoomsAfter
<1>2. ASSUME NEW r \in DOMAIN rs2
      PROVE  r \in RoomIds /\ Seating(rs2[r], Base(f, q, rs, r), SeatsBefore(rs, r), To(f, r), q)
  <2> DEFINE base == Base(f, q, rs, r)
             es == Came(f, q, r)
             new == rs2[r]
  <2>1. new = Assign(base, es)
    BY <1>1 DEF RoomsAfter
  <2>2. /\ r \in RoomIds /\ Fits(base) /\ DOMAIN base.seats = SeatsBefore(rs, r) /\ Ordered(es)
        /\ Cardinality(DOMAIN es) + Cardinality(DOMAIN base.seats) <= Size(base)
        /\ DOMAIN es = To(f, r) /\ DOMAIN es \subseteq Accounts
        /\ \A a \in To(f, r) : es[a].id = q[a].id /\ es[a].id \in AdmissionIds
    BY <1>1, BaseFits
  <2> HIDE DEF base, es, new
  <2>3. /\ Fits(new)
        /\ new = [base EXCEPT !.seats = new.seats]
        /\ DOMAIN base.seats \subseteq DOMAIN new.seats
        /\ \A s \in DOMAIN base.seats : /\ new.seats[s].account = base.seats[s].account
                                        /\ new.seats[s].bound = base.seats[s].bound
                                        /\ new.seats[s].admission = base.seats[s].admission
                                        /\ new.seats[s].ready => base.seats[s].ready
        /\ \A s \in DOMAIN new.seats \ DOMAIN base.seats :
             /\ new.seats[s].account \in DOMAIN es
             /\ new.seats[s].admission = es[new.seats[s].account].id
             /\ ~new.seats[s].ready
        /\ \A s, t \in DOMAIN new.seats \ DOMAIN base.seats :
             new.seats[s].account = new.seats[t].account => s = t
        /\ \A a \in DOMAIN es : \E s \in DOMAIN new.seats \ DOMAIN base.seats : new.seats[s].account = a
    BY <2>1, <2>2, Assigned, SMTT(30)
  <2>4. r \in RoomIds /\ Seating(new, base, SeatsBefore(rs, r), To(f, r), q)
    BY <2>2, <2>3 DEF Seating
  <2> QED
    BY <2>4 DEF new, base
<1>3. \A r \in DOMAIN rs : r \in DOMAIN rs2 /\ SeatsBefore(rs, r) = DOMAIN rs[r].seats /\ Base(f, q, rs, r) = rs[r]
  BY <1>1 DEF SeatsBefore, Base
<1>4. \A r \in DOMAIN rs : \A s \in DOMAIN rs[r].seats :
              /\ s \in DOMAIN rs2[r].seats
              /\ rs2[r].seats[s].account = rs[r].seats[s].account
              /\ rs2[r].seats[s].bound = rs[r].seats[s].bound
              /\ rs2[r].seats[s].admission = rs[r].seats[s].admission
              /\ rs2[r].seats[s].ready => rs[r].seats[s].ready
  BY <1>2, <1>3 DEF Seating
<1> QED
  BY <1>1, <1>2, <1>4 DEF Seating

\* The entries that stay keep their order, and are numbered anew.
LEMMA DequeueOK ==
  ASSUME NEW q, QueueOK(q), NEW as
  PROVE  /\ QueueOK(Dequeue(q, as)) /\ DOMAIN Dequeue(q, as) = DOMAIN q \ as
         /\ \A a \in DOMAIN q \ as : Dequeue(q, as)[a].id = q[a].id
<1> DEFINE left == [a \in DOMAIN q \ as |-> q[a]]
           new == Dequeue(q, as)
<1>1. new = [a \in DOMAIN left |-> [left[a] EXCEPT !.order = Before(left, a)]]
  BY DEF Dequeue
<1>2. /\ IsFiniteSet(DOMAIN q) /\ DOMAIN q \subseteq Accounts
      /\ \A a \in DOMAIN q : q[a] \in EntryType /\ q[a].order \in Nat
      /\ \A a, b \in DOMAIN q : q[a].order = q[b].order => a = b
  BY DEF QueueOK, Ordered
<1>3. DOMAIN left = DOMAIN q \ as /\ \A a \in DOMAIN left : left[a] = q[a]
  OBVIOUS
<1> HIDE DEF left, new
<1>4. IsFiniteSet(DOMAIN left)
  BY <1>2, <1>3, FS_Subset
<1>5. Ordered(left)
  BY <1>2, <1>3, <1>4 DEF Ordered
<1>6. /\ Cardinality(DOMAIN left) \in Nat
      /\ \A a \in DOMAIN left : Before(left, a) \in 0..(Cardinality(DOMAIN left) - 1)
      /\ \A a, b \in DOMAIN left : Before(left, a) = Before(left, b) => a = b
  BY <1>5, Places
<1>7. DOMAIN new = DOMAIN left
  BY <1>1
<1>8. ASSUME NEW a \in DOMAIN left
      PROVE  new[a] \in EntryType /\ new[a].order = Before(left, a) /\ new[a].id = q[a].id
  <2>1. new[a] = [left[a] EXCEPT !.order = Before(left, a)] /\ left[a] \in EntryType /\ left[a] = q[a]
    BY <1>1, <1>2, <1>3
  <2>2. Before(left, a) \in Nat
    BY <1>6
  <2> QED
    BY <2>1, <2>2 DEF EntryType
<1>9. \A a \in DOMAIN new : new[a].order \in Nat /\ new[a].order < Cardinality(DOMAIN new)
  BY <1>6, <1>7, <1>8
<1>10. \A a, b \in DOMAIN new : new[a].order = new[b].order => a = b
  BY <1>6, <1>7, <1>8
<1>11. QueueOK(new)
  BY <1>2, <1>3, <1>4, <1>7, <1>8, <1>9, <1>10 DEF QueueOK, Ordered
<1> QED
  BY <1>3, <1>7, <1>8, <1>11 DEF new

\* Who comes later waits behind all others (QueueJoin).
LEMMA EnqueueOK ==
  ASSUME NEW q, QueueOK(q), NEW a \in Accounts \ DOMAIN q, NEW s \in LobbySettings, NEW id \in AdmissionIds,
         NEW new, new = With(q, a, [settings |-> s, id |-> id, order |-> Cardinality(DOMAIN q)])
  PROVE  /\ QueueOK(new) /\ DOMAIN new = DOMAIN q \cup {a}
         /\ new[a].id = id /\ \A b \in DOMAIN q : new[b] = q[b]
<1> DEFINE e == [settings |-> s, id |-> id, order |-> Cardinality(DOMAIN q)]
<1>1. /\ IsFiniteSet(DOMAIN q) /\ DOMAIN q \subseteq Accounts
      /\ \A b \in DOMAIN q : q[b] \in EntryType /\ q[b].order \in Nat /\ q[b].order < Cardinality(DOMAIN q)
      /\ \A b, c \in DOMAIN q : q[b].order = q[c].order => b = c
  BY DEF QueueOK, Ordered
<1>2. Cardinality(DOMAIN q) \in Nat
  BY <1>1, FS_CardinalityType
<1>3. e \in EntryType /\ e.id = id /\ e.order = Cardinality(DOMAIN q)
  BY <1>2 DEF EntryType
<1>4. new = With(q, a, e)
  OBVIOUS
<1> HIDE DEF e
<1>5. DOMAIN new = DOMAIN q \cup {a} /\ new[a] = e /\ \A b \in DOMAIN q : new[b] = q[b]
  BY <1>4 DEF With, Over
<1>6. IsFiniteSet(DOMAIN new) /\ Cardinality(DOMAIN new) = Cardinality(DOMAIN q) + 1
  BY <1>1, <1>5, FS_AddElement
<1>7. \A b \in DOMAIN new : new[b] \in EntryType /\ new[b].order \in Nat /\ new[b].order < Cardinality(DOMAIN new)
  BY <1>1, <1>2, <1>3, <1>5, <1>6
<1>8. \A b, c \in DOMAIN new : new[b].order = new[c].order => b = c
  BY <1>1, <1>2, <1>3, <1>5
<1>9. QueueOK(new)
  BY <1>1, <1>5, <1>6, <1>7, <1>8 DEF QueueOK, Ordered
<1> QED
  BY <1>3, <1>5, <1>9

\* matchQueues moves waiters to seats, and nobody else.
LEMMA MatchQueuesOK ==
  ASSUME NEW d, NEW q, NEW rs, NEW ms, LobbyOK(q, rs, ms), MatchQueues(d, q, rs, ms)
  PROVE  /\ LobbyOK(queues', rooms', members')
         /\ \A a : IsBound(rooms', a) => IsBound(rs, a) \/ (a \in DOMAIN q /\ Current(a))
         /\ \A a \in DOMAIN ms : a \in DOMAIN members' /\ members'[a] = ms[a]
         /\ DOMAIN members' \subseteq DOMAIN ms \cup DOMAIN q
<1>1. PICK f \in Placements(q, rs) :
        Save(d, Dequeue(q, DOMAIN f), RoomsAfter(f, q, rs), Over(f, ms))
  BY DEF MatchQueues, RoomsAfter, Base, Came
<1>2. queues' = Dequeue(q, DOMAIN f) /\ rooms' = RoomsAfter(f, q, rs) /\ members' = Over(f, ms)
  BY <1>1 DEF Save
<1> DEFINE rs2 == RoomsAfter(f, q, rs)
           ms2 == Over(f, ms)
           q2 == Dequeue(q, DOMAIN f)
<1>3. QueueOK(q) /\ TablesOK(rs) /\ Placed(rs, ms) /\ DOMAIN q \cap DOMAIN ms = {}
  BY DEF LobbyOK
<1>4. DOMAIN f \subseteq DOMAIN q /\ \A a \in DOMAIN f : Current(a) /\ f[a] \in RoomIds
  BY PlacementFacts
<1>5. QueueOK(q2) /\ DOMAIN q2 = DOMAIN q \ DOMAIN f
  BY <1>3, DequeueOK
<1>6. /\ DOMAIN rs2 = DOMAIN rs \cup {f[a] : a \in DOMAIN f}
      /\ \A r \in DOMAIN rs2 : r \in RoomIds /\ Fits(rs2[r]) /\ SeatsBefore(rs, r) \subseteq DOMAIN rs2[r].seats
      /\ \A r \in DOMAIN rs : \A s \in DOMAIN rs[r].seats :
           /\ s \in DOMAIN rs2[r].seats
           /\ rs2[r].seats[s].account = rs[r].seats[s].account
           /\ rs2[r].seats[s].bound = rs[r].seats[s].bound
      /\ \A r \in DOMAIN rs2 : \A s \in DOMAIN rs2[r].seats \ SeatsBefore(rs, r) :
           rs2[r].seats[s].account \in To(f, r)
      /\ \A r \in DOMAIN rs2 : \A s, t \in DOMAIN rs2[r].seats \ SeatsBefore(rs, r) :
           rs2[r].seats[s].account = rs2[r].seats[t].account => s = t
      /\ \A r \in DOMAIN rs2 : \A a \in To(f, r) :
           \E s \in DOMAIN rs2[r].seats \ SeatsBefore(rs, r) : rs2[r].seats[s].account = a
  BY <1>3, Matched
<1>7. /\ DOMAIN ms2 = DOMAIN f \cup DOMAIN ms
      /\ \A a \in DOMAIN f : ms2[a] = f[a]
      /\ \A a \in DOMAIN ms : ms2[a] = ms[a]
  BY <1>3, <1>4 DEF Over
<1>8. \A r, a : a \in To(f, r) <=> a \in DOMAIN f /\ f[a] = r
  BY DEF To
<1> HIDE DEF rs2, ms2, q2
<1>9. \A r : SeatsBefore(rs, r) = IF r \in DOMAIN rs THEN DOMAIN rs[r].seats ELSE {}
  BY DEF SeatsBefore
<1>10. \A r \in DOMAIN rs : \A s \in DOMAIN rs[r].seats :
          rs[r].seats[s].account \in DOMAIN ms /\ ms[rs[r].seats[s].account] = r
  BY <1>3, WhoFacts DEF Placed
<1>11. ASSUME NEW r \in DOMAIN rs2
       PROVE  Apart(rs2[r])
  <2> SUFFICES ASSUME NEW s \in DOMAIN rs2[r].seats, NEW t \in DOMAIN rs2[r].seats,
                      rs2[r].seats[s].account = rs2[r].seats[t].account
               PROVE  s = t
    BY DEF Apart
  <2>1. CASE s \in SeatsBefore(rs, r) /\ t \in SeatsBefore(rs, r)
    <3>1. r \in DOMAIN rs /\ s \in DOMAIN rs[r].seats /\ t \in DOMAIN rs[r].seats
      BY <1>9, <2>1
    <3>2. rs[r].seats[s].account = rs[r].seats[t].account
      BY <1>6, <3>1
    <3> QED
      BY <1>3, <3>1, <3>2 DEF TablesOK, Apart
  <2>2. CASE s \notin SeatsBefore(rs, r) /\ t \notin SeatsBefore(rs, r)
    BY <1>6, <2>2
  <2>3. ASSUME NEW x \in SeatsBefore(rs, r), NEW y \in DOMAIN rs2[r].seats \ SeatsBefore(rs, r)
        PROVE  rs2[r].seats[x].account # rs2[r].seats[y].account
    <3>1. r \in DOMAIN rs /\ x \in DOMAIN rs[r].seats
      BY <1>9, <2>3
    <3>2. rs2[r].seats[x].account \in DOMAIN ms
      BY <1>6, <1>10, <3>1
    <3>3. rs2[r].seats[y].account \in DOMAIN q
      BY <1>4, <1>6, <1>8
    <3> QED
      BY <1>3, <3>2, <3>3
  <2> QED
    BY <2>1, <2>2, <2>3
<1>12. TablesOK(rs2)
  BY <1>6, <1>11 DEF TablesOK
<1>13. ASSUME NEW a \in DOMAIN ms2
       PROVE  ms2[a] \in DOMAIN rs2 /\ a \in Who(rs2[ms2[a]])
  <2>1. CASE a \in DOMAIN f
    <3>1. ms2[a] = f[a] /\ f[a] \in DOMAIN rs2 /\ a \in To(f, f[a])
      BY <1>6, <1>7, <1>8, <2>1
    <3>2. \E s \in DOMAIN rs2[f[a]].seats : rs2[f[a]].seats[s].account = a
      BY <1>6, <3>1
    <3> QED
      BY <3>1, <3>2, WhoFacts
  <2>2. CASE a \notin DOMAIN f
    <3>1. a \in DOMAIN ms /\ ms2[a] = ms[a]
      BY <1>7, <2>2
    <3>2. ms[a] \in DOMAIN rs /\ \E s \in DOMAIN rs[ms[a]].seats : rs[ms[a]].seats[s].account = a
      BY <1>3, <3>1, WhoFacts DEF Placed
    <3>3. \E s \in DOMAIN rs2[ms[a]].seats : rs2[ms[a]].seats[s].account = a
      BY <1>6, <3>2
    <3> QED
      BY <1>6, <3>1, <3>2, <3>3, WhoFacts
  <2> QED
    BY <2>1, <2>2
<1>14. ASSUME NEW r \in DOMAIN rs2, NEW a \in Who(rs2[r])
       PROVE  a \in DOMAIN ms2 /\ ms2[a] = r
  <2>1. PICK s \in DOMAIN rs2[r].seats : rs2[r].seats[s].account = a
    BY <1>14, WhoFacts
  <2>2. CASE s \in SeatsBefore(rs, r)
    <3>1. r \in DOMAIN rs /\ s \in DOMAIN rs[r].seats
      BY <1>9, <2>2
    <3>2. a \in DOMAIN ms /\ ms[a] = r
      BY <1>6, <1>10, <2>1, <3>1
    <3> QED
      BY <1>7, <3>2
  <2>3. CASE s \notin SeatsBefore(rs, r)
    <3>1. a \in To(f, r)
      BY <1>6, <2>1, <2>3
    <3> QED
      BY <1>7, <1>8, <3>1
  <2> QED
    BY <2>2, <2>3
<1>15. Placed(rs2, ms2)
  BY <1>13, <1>14 DEF Placed
<1>16. DOMAIN q2 \cap DOMAIN ms2 = {}
  BY <1>3, <1>5, <1>7
<1>17. LobbyOK(q2, rs2, ms2)
  BY <1>5, <1>12, <1>15, <1>16 DEF LobbyOK
<1>18. ASSUME NEW a, IsBound(rs2, a)
       PROVE  IsBound(rs, a) \/ (a \in DOMAIN q /\ Current(a))
  <2>1. PICK r \in DOMAIN rs2 : \E s \in DOMAIN rs2[r].seats :
               rs2[r].seats[s].account = a /\ rs2[r].seats[s].bound
    BY <1>18 DEF IsBound
  <2>2. PICK s \in DOMAIN rs2[r].seats : rs2[r].seats[s].account = a /\ rs2[r].seats[s].bound
    BY <2>1
  <2>3. CASE s \in SeatsBefore(rs, r)
    <3>1. r \in DOMAIN rs /\ s \in DOMAIN rs[r].seats
      BY <1>9, <2>3
    <3>2. rs[r].seats[s].account = a /\ rs[r].seats[s].bound
      BY <1>6, <2>2, <3>1
    <3> QED
      BY <3>1, <3>2 DEF IsBound
  <2>4. CASE s \notin SeatsBefore(rs, r)
    <3>1. a \in To(f, r)
      BY <1>6, <2>2, <2>4
    <3> QED
      BY <1>4, <1>8, <3>1
  <2> QED
    BY <2>3, <2>4
<1> QED
  BY <1>2, <1>4, <1>7, <1>17, <1>18 DEF q2, rs2, ms2
-----------------------------------------------------------------------------
(* What the handlers do to one room.                                        *)

\* A room with other seats.
LEMMA FitsSeats ==
  ASSUME NEW room, Fits(room), NEW f \in SeatMaps, DOMAIN f \subseteq DOMAIN room.seats,
         NEW new, new = [room EXCEPT !.seats = f]
  PROVE  Fits(new) /\ new.seats = f
<1>1. new \in RoomType /\ new.seats = f /\ new.settings = room.settings
  BY DEF Fits, RoomType
<1> QED
  BY <1>1 DEF Fits, Size

\* A room with other fields than its seats and settings.
LEMMA FitsFields ==
  ASSUME NEW room, Fits(room), NEW new \in RoomType, new.seats = room.seats, new.settings = room.settings
  PROVE  Fits(new) /\ Keeps(new, room)
<1>1. Fits(new)
  BY DEF Fits, Size
<1> QED
  BY <1>1 DEF Keeps

\* The same players stay through two changes of a room.
LEMMA KeepsTwice ==
  ASSUME NEW x, NEW y, NEW z, Keeps(x, y), Keeps(y, z)
  PROVE  Keeps(x, z)
BY DEF Keeps

\* What an engine call may answer: it goes on, or ends the match.
Answers(d, room) ==
  Plays(d, room) \cup Ends(d, room, "interrupting") \cup Ends(d, room, room.phase)

\* Whatever an engine call answers, it changes the phase of the room only.
LEMMA PlaysKeeps ==
  ASSUME NEW d, NEW room, Fits(room), NEW o \in Answers(d, room)
  PROVE  Fits(o.room) /\ Keeps(o.room, room) /\ o.room.seats = room.seats
<1>1. room \in RoomType
  BY DEF Fits
<1>2. ASSUME NEW e \in {"lobby", "playing", "finishing", "interrupting", "verdict"}, o \in Ends(d, room, e)
      PROVE  \E p \in {"lobby", "playing", "finishing", "interrupting", "verdict"} :
               o.room = [room EXCEPT !.phase = p]
  BY <1>2 DEF Ends
<1>3. \E p \in {"lobby", "playing", "finishing", "interrupting", "verdict"} : o.room = [room EXCEPT !.phase = p]
  <2>1. room = [room EXCEPT !.phase = room.phase]
        /\ room.phase \in {"lobby", "playing", "finishing", "interrupting", "verdict"}
    BY <1>1 DEF RoomType
  <2>o. o \in Plays(d, room) \/ o \in Ends(d, room, "interrupting") \/ o \in Ends(d, room, room.phase)
    BY DEF Answers
  <2>2. CASE o \in Ends(d, room, "interrupting")
    BY <1>2, <2>2
  <2>3. CASE o \in Ends(d, room, room.phase)
    BY <1>2, <2>1, <2>3
  <2>4. CASE o \in Plays(d, room)
    <3>1. CASE room.phase = "playing"
      <4>1. o \in Ends(d, room, "finishing") \/ o \in [db : {d}, ok : BOOLEAN, room : {room}]
        BY <2>4, <3>1 DEF Plays
      <4>2. o \in [db : {d}, ok : BOOLEAN, room : {room}] => o.room = room
        OBVIOUS
      <4> QED
        BY <1>2, <2>1, <4>1, <4>2
    <3>2. CASE room.phase = "verdict"
      <4>1. o.room = room
        BY <2>4, <3>2 DEF Plays
      <4> QED
        BY <2>1, <4>1
    <3>3. CASE room.phase \notin {"playing", "verdict"}
      <4>1. o \in Ends(d, room, room.phase)
        BY <2>4, <3>3 DEF Plays
      <4> QED
        BY <1>2, <2>1, <4>1
    <3> QED
      BY <3>1, <3>2, <3>3
  <2> QED
    BY <2>o, <2>2, <2>3, <2>4
<1>4. PICK p \in {"lobby", "playing", "finishing", "interrupting", "verdict"} : o.room = [room EXCEPT !.phase = p]
  BY <1>3
<1>5. /\ o.room \in RoomType /\ o.room.seats = room.seats /\ o.room.settings = room.settings
  BY <1>1, <1>4 DEF RoomType
<1> QED
  BY <1>5, FitsFields

\* An engine call that may go on, and one that ends the match.
LEMMA PlayKeeps ==
  ASSUME NEW d, NEW room, Fits(room), NEW o \in Plays(d, room)
  PROVE  Fits(o.room) /\ Keeps(o.room, room) /\ o.room.seats = room.seats
<1>1. o \in Answers(d, room)
  BY DEF Answers
<1> QED
  BY <1>1, PlaysKeeps

\* However the end of a match goes, its room keeps its seats (endMatch).
LEMMA EndKeeps ==
  ASSUME NEW d, NEW room, Fits(room), NEW e \in {"interrupting", room.phase}, NEW o \in Ends(d, room, e)
  PROVE  Fits(o.room) /\ Keeps(o.room, room) /\ o.room.seats = room.seats
<1>1. o \in Answers(d, room)
  BY DEF Answers
<1> QED
  BY <1>1, PlaysKeeps

\* What is left of the seats when reservations are given back: at most the
\* admissions and ready marks go.
Releasing(new, old) ==
  /\ Fits(new) /\ DOMAIN new.seats = DOMAIN old.seats
  /\ \A s \in DOMAIN old.seats : /\ new.seats[s].account = old.seats[s].account
                                 /\ new.seats[s].bound = old.seats[s].bound
                                 /\ new.seats[s].ready => old.seats[s].ready

\* The players of such a room stay.
LEMMA ReleasingKeeps ==
  ASSUME NEW new, NEW old, Releasing(new, old)
  PROVE  Keeps(new, old)
BY DEF Releasing, Keeps

\* Seats whose reservations are forgotten.
LEMMA Forgotten ==
  ASSUME NEW room, Fits(room), NEW ids, NEW new, new = [room EXCEPT !.seats = Forget(@, ids)]
  PROVE  Releasing(new, room) /\ new.seats = Forget(room.seats, ids)
<1>1. room.seats \in SeatMaps
  BY DEF Fits, RoomType
<1>2. /\ Forget(room.seats, ids) \in SeatMaps /\ DOMAIN Forget(room.seats, ids) = DOMAIN room.seats
      /\ \A s \in DOMAIN room.seats : /\ Forget(room.seats, ids)[s].account = room.seats[s].account
                                      /\ Forget(room.seats, ids)[s].bound = room.seats[s].bound
                                      /\ Forget(room.seats, ids)[s].ready = room.seats[s].ready
  BY <1>1, ForgetFacts
<1>3. new = [room EXCEPT !.seats = Forget(room.seats, ids)]
  OBVIOUS
<1> HIDE DEF Forget
<1>4. Fits(new) /\ new.seats = Forget(room.seats, ids)
  BY <1>2, <1>3, FitsSeats
<1> QED
  BY <1>2, <1>4 DEF Releasing

\* Seats that are not ready any more.
LEMMA Invalidated ==
  ASSUME NEW room, Fits(room), NEW new, new = [room EXCEPT !.seats = Invalidate(@)]
  PROVE  /\ Releasing(new, room) /\ new.seats = Invalidate(room.seats)
         /\ \A s \in DOMAIN room.seats : ~new.seats[s].ready
<1>1. room.seats \in SeatMaps
  BY DEF Fits, RoomType
<1>2. /\ Invalidate(room.seats) \in SeatMaps /\ DOMAIN Invalidate(room.seats) = DOMAIN room.seats
      /\ \A s \in DOMAIN room.seats : /\ Invalidate(room.seats)[s].account = room.seats[s].account
                                      /\ Invalidate(room.seats)[s].bound = room.seats[s].bound
                                      /\ Invalidate(room.seats)[s].ready = FALSE
  BY <1>1, InvalidateFacts
<1>3. new = [room EXCEPT !.seats = Invalidate(room.seats)]
  OBVIOUS
<1>4. Fits(new) /\ new.seats = Invalidate(room.seats)
  BY <1>2, <1>3, FitsSeats
<1> QED
  BY <1>2, <1>4 DEF Releasing

\* Two releases in a row.
LEMMA ReleasingTwice ==
  ASSUME NEW x, NEW y, NEW z, Releasing(x, y), Releasing(y, z)
  PROVE  Releasing(x, z)
BY DEF Releasing

\* PartlyReleased keeps the seats.
LEMMA PartlyReleasedKeeps ==
  ASSUME NEW room, Fits(room), NEW told
  PROVE  Releasing(PartlyReleased(room, told), room)
<1> DEFINE mid == [room EXCEPT !.seats = Forget(@, told)]
           new == [mid EXCEPT !.seats = Invalidate(@)]
<1>1. Releasing(mid, room) /\ mid.seats = Forget(room.seats, told)
  BY Forgotten
<1>2. room \in RoomType
  BY DEF Fits
<1>3. PartlyReleased(room, told) = new
  BY <1>2 DEF PartlyReleased, RoomType
<1> HIDE DEF mid
<1>4. Releasing(new, mid)
  BY <1>1, Invalidated DEF Releasing
<1> HIDE DEF new
<1> QED
  BY <1>1, <1>3, <1>4, ReleasingTwice

\* Cleared keeps the seats.
LEMMA ClearedKeeps ==
  ASSUME NEW room, Fits(room)
  PROVE  /\ Releasing(Cleared(room), room) /\ Cleared(room).pendingAbort = None
         /\ Cleared(room).match = room.match
<1> DEFINE mid == PartlyReleased(room, Admitted(room.seats))
           new == [mid EXCEPT !.pendingAbort = None]
<1>1. Releasing(mid, room)
  BY PartlyReleasedKeeps
<1>2. room \in RoomType
  BY DEF Fits
<1>3. Cleared(room) = new /\ mid.match = room.match
  BY <1>2 DEF Cleared, PartlyReleased, RoomType
<1> HIDE DEF mid
<1>4. Fits(mid) /\ mid \in RoomType
  BY <1>1 DEF Releasing, Fits
<1>5. new \in RoomType /\ new.seats = mid.seats /\ new.settings = mid.settings /\ new.pendingAbort = None
      /\ new.match = mid.match
  BY <1>4 DEF RoomType, MatchOrNone
<1>6. Fits(new)
  BY <1>4, <1>5, FitsFields
<1>7. Releasing(new, room)
  BY <1>1, <1>5, <1>6 DEF Releasing
<1> QED
  BY <1>3, <1>5, <1>7

\* abortPrepared keeps the seats.
LEMMA AbortKeeps ==
  ASSUME NEW d, NEW room, Fits(room), NEW o \in AbortPrepared(d, room)
  PROVE  Releasing(o.room, room) /\ o.room.match = room.match
<1>1. Releasing(room, room)
  BY DEF Releasing
<1>2. o.room = Cleared(room) \/ o.room = room \/ \E ids : o.room = [room EXCEPT !.seats = Forget(@, ids)]
  <2>1. CASE d.mat[room.pendingAbort].state = "absent"
    BY <2>1 DEF AbortPrepared
  <2>2. CASE d.mat[room.pendingAbort].state # "absent"
    BY <2>2 DEF AbortPrepared
  <2> QED
    BY <2>1, <2>2
<1>3. \A ids : Releasing([room EXCEPT !.seats = Forget(@, ids)], room)
               /\ [room EXCEPT !.seats = Forget(@, ids)].match = room.match
  <2>1. room \in RoomType
    BY DEF Fits
  <2>2. \A ids : [room EXCEPT !.seats = Forget(@, ids)].match = room.match
    BY <2>1 DEF RoomType
  <2> QED
    BY <2>2, Forgotten
<1> QED
  BY <1>1, <1>2, <1>3, ClearedKeeps
\* The seat of a member is where m.member finds it.
LEMMA SeatOfFacts ==
  ASSUME NEW room, NEW a \in Who(room)
  PROVE  SeatOf(room, a) \in DOMAIN room.seats /\ room.seats[SeatOf(room, a)].account = a
BY WhoFacts DEF SeatOf

\* The seat of a member in its room, or in what a handler has made of it.
LEMMA MemberSeat ==
  ASSUME NEW q, NEW rs, NEW ms, LobbyOK(q, rs, ms), NEW a \in DOMAIN ms,
         NEW room, Keeps(room, rs[ms[a]])
  PROVE  /\ ms[a] \in DOMAIN rs /\ Fits(rs[ms[a]]) /\ Apart(rs[ms[a]]) /\ Fits(room) /\ Apart(room)
         /\ SeatOf(room, a) \in DOMAIN room.seats /\ room.seats[SeatOf(room, a)].account = a
<1>1. ms[a] \in DOMAIN rs /\ a \in Who(rs[ms[a]])
  BY DEF LobbyOK, Placed
<1>2. Fits(rs[ms[a]]) /\ Apart(rs[ms[a]])
  BY <1>1 DEF LobbyOK, TablesOK
<1>3. a \in Who(room) /\ Apart(room) /\ Fits(room)
  BY <1>1, <1>2, WhoFacts DEF Keeps, Apart
<1> QED
  BY <1>1, <1>2, <1>3, SeatOfFacts

\* A room keeps what it has.
LEMMA KeepsSelf ==
  ASSUME NEW room, Fits(room)
  PROVE  Keeps(room, room)
BY DEF Keeps

\* An account whose seat is not bound is not bound anywhere.
LEMMA NotBound ==
  ASSUME NEW q, NEW rs, NEW ms, LobbyOK(q, rs, ms), NEW r \in DOMAIN rs, NEW s \in DOMAIN rs[r].seats,
         ~rs[r].seats[s].bound
  PROVE  ~IsBound(rs, rs[r].seats[s].account)
<1> SUFFICES ASSUME IsBound(rs, rs[r].seats[s].account) PROVE FALSE
  OBVIOUS
<1> DEFINE a == rs[r].seats[s].account
<1>1. PICK x \in DOMAIN rs : \E t \in DOMAIN rs[x].seats : rs[x].seats[t].account = a /\ rs[x].seats[t].bound
  BY DEF IsBound
<1>2. PICK t \in DOMAIN rs[x].seats : rs[x].seats[t].account = a /\ rs[x].seats[t].bound
  BY <1>1
<1>3. a \in Who(rs[x]) /\ a \in Who(rs[r])
  BY <1>2, WhoFacts
<1>4. x = r
  BY <1>3 DEF LobbyOK, Placed
<1>5. s = t
  BY <1>2, <1>4 DEF LobbyOK, TablesOK, Apart
<1> QED
  BY <1>2, <1>4, <1>5

\* A bound account is a member.
LEMMA BoundMember ==
  ASSUME NEW q, NEW rs, NEW ms, LobbyOK(q, rs, ms), NEW a, IsBound(rs, a)
  PROVE  a \in DOMAIN ms
<1>1. PICK r \in DOMAIN rs : \E s \in DOMAIN rs[r].seats : rs[r].seats[s].account = a /\ rs[r].seats[s].bound
  BY DEF IsBound
<1>2. a \in Who(rs[r])
  BY <1>1, WhoFacts
<1> QED
  BY <1>2 DEF LobbyOK, Placed

\* pruneFinishedRoom, on the room that an engine call has left behind.
LEMMA PrunedOK ==
  ASSUME NEW q, NEW rs, NEW ms, LobbyOK(q, rs, ms), NEW r \in DOMAIN rs, NEW room, Keeps(room, rs[r]),
         NEW after, after = Pruned(rs, r, room, ms)
  PROVE  /\ LobbyOK(q, after.rooms, after.members)
         /\ \A a : IsBound(after.rooms, a) => IsBound([rs EXCEPT ![r] = room], a)
         /\ \A a \in DOMAIN after.members : a \in DOMAIN ms /\ after.members[a] = ms[a]
<1> DEFINE rs1 == [rs EXCEPT ![r] = room]
           stay == {s \in DOMAIN room.seats : Connected(room.seats[s])}
           gone == {room.seats[s].account : s \in DOMAIN room.seats \ stay}
           left == [room EXCEPT !.seats = [s \in stay |-> @[s]]]
<1>1. LobbyOK(q, rs1, ms)
  BY RoomKept
<1>2. DOMAIN rs1 = DOMAIN rs /\ rs1[r] = room /\ \A x \in DOMAIN rs \ {r} : rs1[x] = rs[x]
  OBVIOUS
<1>3. Fits(room) /\ room.seats \in SeatMaps
  BY DEF Keeps, Fits, RoomType
<1>4. CASE ~Finished(room)
  <2>1. after = [rooms |-> rs1, members |-> ms]
    BY <1>4 DEF Pruned
  <2> QED
    BY <1>1, <2>1
<1>5. CASE Finished(room)
  <2>1. /\ after.rooms = IF stay = {} THEN Without(rs, r) ELSE [rs EXCEPT ![r] = left]
        /\ after.members = [a \in DOMAIN ms \ gone |-> ms[a]]
    BY <1>5 DEF Pruned
  <2>2. [s \in stay |-> room.seats[s]] \in SeatMaps
    BY <1>3, StayFacts
  <2>3. Fits(left) /\ left.seats = [s \in stay |-> room.seats[s]]
    BY <1>3, <2>2, FitsSeats
  <2> HIDE DEF stay, left
  <2>4. stay \in SUBSET DOMAIN rs1[r].seats /\ gone = {rs1[r].seats[s].account : s \in DOMAIN rs1[r].seats \ stay}
    BY <1>2 DEF stay
  <2> HIDE DEF gone, rs1
  <2>5. \/ DOMAIN after.rooms = DOMAIN rs1 \ {r} /\ stay = {}
        \/ /\ DOMAIN after.rooms = DOMAIN rs1 /\ Fits(after.rooms[r]) /\ DOMAIN after.rooms[r].seats = stay
           /\ \A s \in stay : /\ after.rooms[r].seats[s].account = rs1[r].seats[s].account
                              /\ after.rooms[r].seats[s].bound => rs1[r].seats[s].bound
    <3>1. CASE stay = {}
      BY <1>2, <2>1, <3>1 DEF Without
    <3>2. CASE stay # {}
      BY <1>2, <2>1, <2>3, <3>2
    <3> QED
      BY <3>1, <3>2
  <2>6. \A x \in DOMAIN rs1 \ {r} : after.rooms[x] = rs1[x]
    BY <1>2, <2>1 DEF Without
  <2>7. DOMAIN after.members = DOMAIN ms \ gone /\ \A a \in DOMAIN after.members : after.members[a] = ms[a]
    BY <2>1
  <2>8. /\ LobbyOK(q, after.rooms, after.members)
        /\ \A a : IsBound(after.rooms, a) => IsBound(rs1, a) /\ a \notin gone
    <3>1. Evicts(r, rs1, ms, stay, gone, after.rooms, after.members)
      BY <2>4, <2>5, <2>6, <2>7 DEF Evicts
    <3> QED
      BY <1>1, <1>2, <3>1, Evicted
  <2>9. rs1 = [rs EXCEPT ![r] = room]
    BY DEF rs1
  <2>10. \A a : IsBound(after.rooms, a) => IsBound([rs EXCEPT ![r] = room], a)
    BY <2>8, <2>9
  <2>11. \A a \in DOMAIN after.members : a \in DOMAIN ms /\ after.members[a] = ms[a]
    BY <2>7
  <2> QED
    BY <2>8, <2>10, <2>11
<1> QED
  BY <1>4, <1>5

\* A player leaves its seat to nobody.
LEMMA Unbound ==
  ASSUME NEW room, Fits(room), NEW s \in DOMAIN room.seats, NEW new,
         new = [room EXCEPT !.seats[s].bound = FALSE]
  PROVE  Keeps(new, room) /\ ~new.seats[s].bound
<1> DEFINE v == [room.seats[s] EXCEPT !.bound = FALSE]
           f == [room.seats EXCEPT ![s] = v]
<1>1. room.seats \in SeatMaps /\ \A t \in DOMAIN room.seats : room.seats[t] \in MemberType
  BY SeatMapFacts DEF Fits, RoomType
<1>2. v \in MemberType /\ v.account = room.seats[s].account /\ v.bound = FALSE
  BY <1>1 DEF MemberType
<1>3. new = [room EXCEPT !.seats = f]
  OBVIOUS
<1> HIDE DEF v
<1>4. f \in SeatMaps /\ DOMAIN f = DOMAIN room.seats /\ f[s] = v
      /\ \A t \in DOMAIN room.seats \ {s} : f[t] = room.seats[t]
  BY <1>1, <1>2, SeatWritten
<1> HIDE DEF f
<1>5. Fits(new) /\ new.seats = f
  BY <1>3, <1>4, FitsSeats
<1> QED
  BY <1>2, <1>4, <1>5 DEF Keeps
-----------------------------------------------------------------------------
(* What a step of the lobby does: everybody stays placed, nobody changes    *)
(* rooms, and who becomes bound to a seat is connected and, but for the     *)
(* accounts in A, new to the rooms.                                         *)
Moves(A) ==
  /\ LobbyOK(queues', rooms', members')
  /\ \A a \in DOMAIN members : a \in DOMAIN members' => members'[a] = members[a]
  /\ \A a : IsBound(rooms', a) => IsBound(rooms, a) \/ (Current(a) /\ (a \notin DOMAIN members \/ a \in A))

Settled == LobbyOK(queues, rooms, members)

\* Nothing moves.
LEMMA StaysMoves ==
  ASSUME Settled, UNCHANGED <<queues, rooms, members>>
  PROVE  Moves({})
BY DEF Settled, Moves

\* One room is written, and its players stay.
LEMMA KeptMoves ==
  ASSUME Settled, NEW d, NEW r \in DOMAIN rooms, NEW new, Keeps(new, rooms[r]),
         Save(d, queues, [rooms EXCEPT ![r] = new], members)
  PROVE  Moves({}) /\ rooms' = [rooms EXCEPT ![r] = new] /\ \A a : IsBound(rooms', a) => IsBound(rooms, a)
<1>1. rooms' = [rooms EXCEPT ![r] = new] /\ queues' = queues /\ members' = members
  BY DEF Save
<1>2. LobbyOK(queues, rooms', members) /\ \A a : IsBound(rooms', a) => IsBound(rooms, a)
  BY <1>1, RoomKept DEF Settled
<1> QED
  BY <1>1, <1>2 DEF Moves

\* The queue is written.
LEMMA QueueMoves ==
  ASSUME Settled, NEW q, QueueOK(q), DOMAIN q \cap DOMAIN members = {}, NEW d, Save(d, q, rooms, members)
  PROVE  Moves({})
<1>1. queues' = q /\ rooms' = rooms /\ members' = members
  BY DEF Save
<1>2. LobbyOK(q, rooms, members)
  BY DEF Settled, LobbyOK
<1> QED
  BY <1>1, <1>2 DEF Moves

\* Players leave a room.
LEMMA EvictMoves ==
  ASSUME Settled, NEW r \in DOMAIN rooms, NEW stay, NEW gone, NEW rs2, NEW ms2,
         Evicts(r, rooms, members, stay, gone, rs2, ms2), NEW d, Save(d, queues, rs2, ms2)
  PROVE  Moves({}) /\ \A a : IsBound(rooms', a) => IsBound(rooms, a) /\ a \notin gone
<1>1. queues' = queues /\ rooms' = rs2 /\ members' = ms2
  BY DEF Save
<1>2. LobbyOK(queues, rs2, ms2) /\ \A a : IsBound(rs2, a) => IsBound(rooms, a) /\ a \notin gone
  BY Evicted DEF Settled
<1>3. \A a \in DOMAIN ms2 : ms2[a] = members[a]
  BY DEF Evicts
<1> QED
  BY <1>1, <1>2, <1>3 DEF Moves

\* Players leave a room, and others are matched.
LEMMA EvictMatchMoves ==
  ASSUME Settled, NEW r \in DOMAIN rooms, NEW stay, NEW gone, NEW rs2, NEW ms2,
         Evicts(r, rooms, members, stay, gone, rs2, ms2), NEW d, MatchQueues(d, queues, rs2, ms2)
  PROVE  Moves({}) /\ \A a \in gone : a \in DOMAIN members => ~IsBound(rooms', a)
<1>1. LobbyOK(queues, rs2, ms2) /\ \A a : IsBound(rs2, a) => IsBound(rooms, a) /\ a \notin gone
  BY Evicted DEF Settled
<1>2. /\ LobbyOK(queues', rooms', members')
      /\ \A a : IsBound(rooms', a) => IsBound(rs2, a) \/ (a \in DOMAIN queues /\ Current(a))
      /\ \A a \in DOMAIN ms2 : a \in DOMAIN members' /\ members'[a] = ms2[a]
      /\ DOMAIN members' \subseteq DOMAIN ms2 \cup DOMAIN queues
  BY <1>1, MatchQueuesOK
<1>3. DOMAIN queues \cap DOMAIN members = {}
  BY DEF Settled, LobbyOK
<1>4. \A a \in DOMAIN ms2 : a \in DOMAIN members /\ ms2[a] = members[a]
  BY DEF Evicts
<1>5. \A a \in DOMAIN members : a \in DOMAIN members' => members'[a] = members[a]
  BY <1>2, <1>3, <1>4
<1>6. \A a : IsBound(rooms', a) => IsBound(rooms, a) \/ (Current(a) /\ a \notin DOMAIN members)
  BY <1>1, <1>2, <1>3
<1>7. \A a \in gone : a \in DOMAIN members => ~IsBound(rooms', a)
  BY <1>1, <1>2, <1>3
<1> QED
  BY <1>2, <1>5, <1>6, <1>7 DEF Moves

-----------------------------------------------------------------------------
(* leave.                                                                   *)

\* One player leaves its seat.
LEMMA OneGone ==
  ASSUME NEW q, NEW rs, NEW ms, LobbyOK(q, rs, ms), NEW a \in DOMAIN ms, NEW r, r = ms[a],
         NEW x \in DOMAIN rs[r].seats, rs[r].seats[x].account = a, NEW rs2, NEW stay,
         stay = DOMAIN rs[r].seats \ {x},
         \/ rs2 = Without(rs, r) /\ stay = {}
         \/ \E left : /\ rs2 = [rs EXCEPT ![r] = left] /\ Fits(left) /\ DOMAIN left.seats = stay
                      /\ \A s \in stay : /\ left.seats[s].account = rs[r].seats[s].account
                                         /\ left.seats[s].bound => rs[r].seats[s].bound
  PROVE  r \in DOMAIN rs /\ Evicts(r, rs, ms, stay, {a}, rs2, Without(ms, a))
<1>1. r \in DOMAIN rs
  BY DEF LobbyOK, Placed
<1>2. DOMAIN rs[r].seats \ stay = {x}
  OBVIOUS
<1>3. {a} = {rs[r].seats[s].account : s \in DOMAIN rs[r].seats \ stay}
  BY <1>2
<1>4. DOMAIN Without(ms, a) = DOMAIN ms \ {a} /\ \A b \in DOMAIN Without(ms, a) : Without(ms, a)[b] = ms[b]
  BY DEF Without
<1>5. /\ \A y \in DOMAIN rs \ {r} : rs2[y] = rs[y]
      /\ \/ DOMAIN rs2 = DOMAIN rs \ {r} /\ stay = {}
         \/ /\ DOMAIN rs2 = DOMAIN rs /\ Fits(rs2[r]) /\ DOMAIN rs2[r].seats = stay
            /\ \A s \in stay : /\ rs2[r].seats[s].account = rs[r].seats[s].account
                               /\ rs2[r].seats[s].bound => rs[r].seats[s].bound
  BY <1>1 DEF Without
<1> QED
  BY <1>1, <1>3, <1>4, <1>5 DEF Evicts

\* The room without one seat.
LeftBy(room, x) == [room EXCEPT !.seats = Without(@, x)]

\* The other seats stay as they were.
LEMMA OthersStay ==
  ASSUME NEW room, Fits(room), NEW x \in DOMAIN room.seats
  PROVE  /\ Fits(LeftBy(room, x)) /\ DOMAIN LeftBy(room, x).seats = DOMAIN room.seats \ {x}
         /\ \A s \in DOMAIN LeftBy(room, x).seats : LeftBy(room, x).seats[s] = room.seats[s]
<1>1. Without(room.seats, x) = [s \in DOMAIN room.seats \ {x} |-> room.seats[s]]
  BY DEF Without
<1>2. room.seats \in SeatMaps
  BY DEF Fits, RoomType
<1> DEFINE f == Without(room.seats, x)
<1>3. f \in SeatMaps /\ DOMAIN f = DOMAIN room.seats \ {x} /\ \A s \in DOMAIN f : f[s] = room.seats[s]
  BY <1>1, <1>2, StayFacts
<1> DEFINE new == LeftBy(room, x)
<1>4. new = [room EXCEPT !.seats = f]
  BY DEF LeftBy
<1> HIDE DEF f, new
<1>5. Fits(new) /\ new.seats = f
  BY <1>3, <1>4, FitsSeats
<1>6. /\ Fits(new) /\ DOMAIN new.seats = DOMAIN room.seats \ {x}
      /\ \A s \in DOMAIN new.seats : new.seats[s] = room.seats[s]
  BY <1>3, <1>5
<1> QED
  BY <1>6 DEF new

\* leaveQueue moves nobody.
LEMMA LeaveQueueMoves ==
  ASSUME Settled, NEW a, NEW ok, LeaveQueue(a, ok)
  PROVE  Moves({}) /\ UNCHANGED rooms
<1>1. CASE ~Queued(a)
  BY <1>1, StaysMoves DEF LeaveQueue
<1>2. CASE Queued(a)
  <2>1. PICK o : Save(o.db, IF ok THEN Dequeue(queues, {a}) ELSE queues, rooms, members)
    BY <1>2 DEF LeaveQueue
  <2>2. QueueOK(queues) /\ DOMAIN queues \cap DOMAIN members = {}
    BY DEF Settled, LobbyOK
  <2>3. QueueOK(Dequeue(queues, {a})) /\ DOMAIN Dequeue(queues, {a}) \subseteq DOMAIN queues
    <3>1. QueueOK(Dequeue(queues, {a})) /\ DOMAIN Dequeue(queues, {a}) = DOMAIN queues \ {a}
      BY <2>2, DequeueOK
    <3> QED
      BY <3>1
  <2>4. Moves({})
    <3>1. CASE ok
      BY <2>1, <2>2, <2>3, <3>1, QueueMoves
    <3>2. CASE ~ok
      BY <2>1, <2>2, <3>2, QueueMoves
    <3> QED
      BY <3>1, <3>2
  <2> QED
    BY <2>1, <2>4 DEF Save
<1> QED
  BY <1>1, <1>2

\* A seat is given up, and nobody is ready any more.
GivenUp(room, x) == [room EXCEPT !.seats = Invalidate(Without(@, x))]

\* The other players stay.
LEMMA WithoutSeat ==
  ASSUME NEW room, Fits(room), NEW x \in DOMAIN room.seats, NEW left, left = GivenUp(room, x)
  PROVE  /\ Fits(left) /\ DOMAIN left.seats = DOMAIN room.seats \ {x}
         /\ \A s \in DOMAIN left.seats : /\ left.seats[s].account = room.seats[s].account
                                         /\ left.seats[s].bound = room.seats[s].bound
<1> DEFINE mid == LeftBy(room, x)
<1>1. left = [mid EXCEPT !.seats = Invalidate(@)]
  BY DEF Fits, RoomType, LeftBy, GivenUp
<1>2. /\ Fits(mid) /\ DOMAIN mid.seats = DOMAIN room.seats \ {x}
      /\ \A s \in DOMAIN mid.seats : mid.seats[s] = room.seats[s]
  BY OthersStay
<1> HIDE DEF mid
<1>3. Releasing(left, mid)
  BY <1>1, <1>2, Invalidated
<1> QED
  BY <1>2, <1>3 DEF Releasing

\* Another host is named: one of the seats, or the one there was.
LEMMA HostNamed ==
  ASSUME NEW left, Fits(left), NEW h \in Elect(left) \cup {left.host}
  PROVE  Fits([left EXCEPT !.host = h]) /\ [left EXCEPT !.host = h].seats = left.seats
<1>1. left \in RoomType /\ left.host \in Nat /\ DOMAIN left.seats \subseteq Nat
  BY SeatMapFacts DEF Fits, RoomType
<1>2. h \in Nat
  BY <1>1 DEF Elect
<1> DEFINE new == [left EXCEPT !.host = h]
<1>3. new \in RoomType /\ new.seats = left.seats /\ new.settings = left.settings
  BY <1>1, <1>2 DEF RoomType
<1> HIDE DEF new
<1>4. Fits(new)
  BY <1>3, FitsFields
<1> QED
  BY <1>3, <1>4 DEF new

\* leave in a room without a match, after what an abort has made of the room.
LEMMA LeaveLobbyMoves ==
  ASSUME Settled, NEW a \in DOMAIN members, NEW room, Releasing(room, rooms[members[a]]),
         NEW d, NEW ok, LeaveLobby(d, members[a], room, a, ok)
  PROVE  Moves({}) /\ (ok => ~IsBound(rooms', a))
<1> DEFINE r == members[a]
           x == SeatOf(room, a)
           left == [room EXCEPT !.seats = Invalidate(Without(@, x))]
<1>1. Keeps(room, rooms[r])
  BY ReleasingKeeps
<1>2. r \in DOMAIN rooms /\ Fits(room) /\ x \in DOMAIN room.seats /\ room.seats[x].account = a
  BY <1>1, MemberSeat DEF Settled
<1>3. DOMAIN room.seats = DOMAIN rooms[r].seats /\ rooms[r].seats[x].account = a
      /\ \A s \in DOMAIN room.seats : /\ room.seats[s].account = rooms[r].seats[s].account
                                      /\ room.seats[s].bound = rooms[r].seats[s].bound
  BY <1>2 DEF Releasing
<1>4. left = GivenUp(room, x)
  BY DEF GivenUp
<1> HIDE DEF x, left
<1>5. Fits(left) /\ DOMAIN left.seats = DOMAIN rooms[r].seats \ {x}
      /\ \A s \in DOMAIN left.seats : /\ left.seats[s].account = rooms[r].seats[s].account
                                      /\ left.seats[s].bound = rooms[r].seats[s].bound
  BY <1>2, <1>3, <1>4, WithoutSeat
<1>6. PICK o : IF ~ok THEN Save(o.db, queues, [rooms EXCEPT ![r] = room], members)
               ELSE IF left.seats = <<>> THEN Save(o.db, queues, Without(rooms, r), Without(members, a))
               ELSE \E h \in IF room.host = x THEN Elect(left) ELSE {room.host} :
                      MatchQueues(o.db, queues, [rooms EXCEPT ![r] = [left EXCEPT !.host = h]],
                                  Without(members, a))
  BY DEF LeaveLobby, x, left
<1>10. CASE ~ok
  BY <1>1, <1>2, <1>6, <1>10, KeptMoves
<1> DEFINE stay == DOMAIN rooms[r].seats \ {x}
<1>11. CASE ok /\ left.seats = <<>>
  <2>1. stay = {}
    BY <1>5, <1>11, NoSeats
  <2>2. Evicts(r, rooms, members, stay, {a}, Without(rooms, r), Without(members, a))
    BY <1>2, <1>3, <2>1, OneGone DEF Settled
  <2>3. Save(o.db, queues, Without(rooms, r), Without(members, a))
    BY <1>6, <1>11
  <2> QED
    BY <1>2, <2>2, <2>3, EvictMoves
<1>12. CASE ok /\ left.seats # <<>>
  <2>1. PICK h \in IF room.host = x THEN Elect(left) ELSE {room.host} :
             MatchQueues(o.db, queues, [rooms EXCEPT ![r] = [left EXCEPT !.host = h]], Without(members, a))
    BY <1>6, <1>12
  <2>2. h \in Elect(left) \cup {left.host}
    BY <1>2, <2>1 DEF left, Fits, RoomType
  <2>3. Evicts(r, rooms, members, stay, {a}, [rooms EXCEPT ![r] = [left EXCEPT !.host = h]], Without(members, a))
    <3> DEFINE new == [left EXCEPT !.host = h]
    <3>1. Fits(new) /\ new.seats = left.seats
      BY <1>5, <2>2, HostNamed
    <3> HIDE DEF new
    <3>2. /\ Fits(new) /\ DOMAIN new.seats = stay
          /\ \A s \in stay : /\ new.seats[s].account = rooms[r].seats[s].account
                             /\ new.seats[s].bound => rooms[r].seats[s].bound
      BY <1>5, <3>1
    <3>3. Evicts(r, rooms, members, stay, {a}, [rooms EXCEPT ![r] = new], Without(members, a))
      BY <1>2, <1>3, <3>2, OneGone DEF Settled
    <3> QED
      BY <3>3 DEF new
  <2> QED
    BY <1>2, <2>1, <2>3, EvictMatchMoves
<1> QED
  BY <1>10, <1>11, <1>12

-----------------------------------------------------------------------------
(* leave in a match, and leave as a whole.                                  *)

\* An engine call, and the pruning after it.
LEMMA PrunedMoves ==
  ASSUME Settled, NEW r \in DOMAIN rooms, NEW room, Keeps(room, rooms[r]), NEW after,
         after = Pruned(rooms, r, room, members), NEW d, Save(d, queues, after.rooms, after.members)
  PROVE  Moves({}) /\ \A a : IsBound(rooms', a) => IsBound([rooms EXCEPT ![r] = room], a)
<1>1. queues' = queues /\ rooms' = after.rooms /\ members' = after.members
  BY DEF Save
<1>2. /\ LobbyOK(queues, after.rooms, after.members)
      /\ \A a : IsBound(after.rooms, a) => IsBound([rooms EXCEPT ![r] = room], a)
      /\ \A a \in DOMAIN after.members : a \in DOMAIN members /\ after.members[a] = members[a]
  BY PrunedOK DEF Settled
<1> DEFINE rs1 == [rooms EXCEPT ![r] = room]
<1>3. rs1 = [rooms EXCEPT ![r] = room]
  OBVIOUS
<1> HIDE DEF rs1
<1>4. \A a : IsBound(rs1, a) => IsBound(rooms, a)
  BY <1>3, RoomKept DEF Settled
<1>5. \A a : IsBound(after.rooms, a) => IsBound(rs1, a)
  BY <1>2, <1>3
<1>6. \A a : IsBound(rooms', a) => IsBound(rs1, a) /\ IsBound(rooms, a)
  BY <1>1, <1>4, <1>5
<1> QED
  BY <1>1, <1>2, <1>3, <1>6 DEF Moves

\* A seat is left to nobody, and the room pruned if its match has ended.
LEMMA UnboundMoves ==
  ASSUME Settled, NEW r \in DOMAIN rooms, Fits(rooms[r]), NEW x \in DOMAIN rooms[r].seats,
         NEW room, Fits(room), Keeps(room, rooms[r]), NEW new, new = [room EXCEPT !.seats[x].bound = FALSE],
         NEW late, late = Pruned(rooms, r, new, members), NEW d, Save(d, queues, late.rooms, late.members)
  PROVE  Moves({}) /\ ~IsBound(rooms', rooms[r].seats[x].account)
<1> DEFINE a == rooms[r].seats[x].account
<1>1. x \in DOMAIN room.seats /\ room.seats[x].account = a
  BY DEF Keeps
<1>2. Keeps(new, room) /\ ~new.seats[x].bound
  BY <1>1, Unbound
<1>3. Keeps(new, rooms[r])
  BY <1>2, KeepsTwice
<1>4. Moves({}) /\ \A b : IsBound(rooms', b) => IsBound([rooms EXCEPT ![r] = new], b)
  BY <1>3, PrunedMoves
<1> DEFINE rs1 == [rooms EXCEPT ![r] = new]
<1>5. rs1 = [rooms EXCEPT ![r] = new] /\ r \in DOMAIN rs1 /\ rs1[r] = new
  OBVIOUS
<1> HIDE DEF rs1
<1>6. LobbyOK(queues, rs1, members)
  BY <1>3, <1>5, RoomKept DEF Settled
<1>7. x \in DOMAIN rs1[r].seats /\ rs1[r].seats[x].account = a /\ ~rs1[r].seats[x].bound
  BY <1>1, <1>2, <1>3, <1>5 DEF Keeps
<1>8. ~IsBound(rs1, rs1[r].seats[x].account)
  BY <1>5, <1>6, <1>7, NotBound
<1> QED
  BY <1>4, <1>5, <1>7, <1>8

\* The player of a match who leaves is bound to nothing.
LEMMA LeaveMatchMoves ==
  ASSUME Settled, NEW a \in DOMAIN members, NEW ok, LeaveMatch(members[a], rooms[members[a]], a, ok)
  PROVE  Moves({}) /\ (ok => ~IsBound(rooms', a))
<1> DEFINE r == members[a]
           x == SeatOf(rooms[r], a)
<1>1. r \in DOMAIN rooms /\ Fits(rooms[r]) /\ Keeps(rooms[r], rooms[r])
  BY KeepsSelf DEF Settled, LobbyOK, Placed, TablesOK
<1>2. x \in DOMAIN rooms[r].seats /\ rooms[r].seats[x].account = a
  BY <1>1, MemberSeat DEF Settled
<1> DEFINE unbound(o) == [o.room EXCEPT !.seats[x].bound = FALSE]
           left(o) == [o.room EXCEPT !.seats = Without(@, x)]
           after(o) == Pruned(rooms, r, unbound(o), members)
<1>3. PICK o \in Plays(db, rooms[r]) :
        /\ ok = o.ok
        /\ IF ~ok THEN Save(o.db, queues, [rooms EXCEPT ![r] = o.room], members)
           ELSE IF rooms[r].phase # "verdict" THEN Save(o.db, queues, after(o).rooms, after(o).members)
           ELSE Save(o.db, queues, IF left(o).seats = <<>> THEN Without(rooms, r) ELSE [rooms EXCEPT ![r] = left(o)],
                     Without(members, a))
  BY DEF LeaveMatch
<1> HIDE DEF x
<1>4. Fits(o.room) /\ Keeps(o.room, rooms[r]) /\ o.room.seats = rooms[r].seats
  <2>1. o \in Plays(db, rooms[r])
    BY <1>3
  <2> QED
    BY <1>1, <2>1, PlayKeeps
<1>5. CASE ~ok
  <2>1. Save(o.db, queues, [rooms EXCEPT ![r] = o.room], members)
    BY <1>3, <1>5
  <2> QED
    BY <1>1, <1>4, <1>5, <2>1, KeptMoves
<1>6. CASE ok /\ rooms[r].phase # "verdict"
  <2> DEFINE new == unbound(o)
             late == Pruned(rooms, r, new, members)
  <2>1. new = [o.room EXCEPT !.seats[x].bound = FALSE] /\ late = Pruned(rooms, r, new, members)
    OBVIOUS
  <2>2. Save(o.db, queues, late.rooms, late.members)
    BY <1>3, <1>6
  <2> HIDE DEF new, late
  <2> QED
    BY <1>1, <1>2, <1>4, <2>1, <2>2, UnboundMoves
<1>7. CASE ok /\ rooms[r].phase = "verdict"
  <2> DEFINE new == LeftBy(o.room, x)
             rs2 == IF new.seats = <<>> THEN Without(rooms, r) ELSE [rooms EXCEPT ![r] = new]
             stay == DOMAIN rooms[r].seats \ {x}
  <2>1. Save(o.db, queues, rs2, Without(members, a))
    BY <1>3, <1>7 DEF LeftBy
  <2>2. Fits(new) /\ DOMAIN new.seats = stay /\ \A s \in DOMAIN new.seats : new.seats[s] = rooms[r].seats[s]
    BY <1>2, <1>4, OthersStay
  <2> HIDE DEF new
  <2>3. Evicts(r, rooms, members, stay, {a}, rs2, Without(members, a))
    <3>1. CASE new.seats = <<>>
      <4>1. stay = {}
        BY <2>2, <3>1, NoSeats
      <4>2. rs2 = Without(rooms, r)
        BY <3>1
      <4> HIDE DEF rs2
      <4> QED
        BY <1>2, <4>1, <4>2, OneGone DEF Settled
    <3>2. CASE new.seats # <<>>
      <4>1. rs2 = [rooms EXCEPT ![r] = new]
        BY <3>2
      <4>2. /\ Fits(new) /\ DOMAIN new.seats = stay
            /\ \A s \in stay : /\ new.seats[s].account = rooms[r].seats[s].account
                               /\ new.seats[s].bound => rooms[r].seats[s].bound
        BY <2>2
      <4> HIDE DEF rs2
      <4> QED
        BY <1>2, <4>1, <4>2, OneGone DEF Settled
    <3> QED
      BY <3>1, <3>2
  <2> HIDE DEF rs2
  <2>4. Moves({}) /\ \A b : IsBound(rooms', b) => IsBound(rooms, b) /\ b \notin {a}
    BY <1>1, <2>1, <2>3, EvictMoves
  <2> QED
    BY <2>4
<1> QED
  BY <1>3, <1>5, <1>6, <1>7

\* leave: when it returns nil, the account is bound to no seat.
LEMMA LeaveAsMoves ==
  ASSUME Settled, NEW a, NEW ok, LeaveAs(a, ok)
  PROVE  Moves({}) /\ (ok => ~IsBound(rooms', a))
<1>1. CASE a \notin DOMAIN members
  <2>1. Moves({}) /\ UNCHANGED rooms
    BY <1>1, LeaveQueueMoves DEF LeaveAs
  <2>2. ~IsBound(rooms, a)
    BY <1>1, BoundMember DEF Settled
  <2> QED
    BY <2>1, <2>2
<1>2. CASE a \in DOMAIN members
  <2> DEFINE r == members[a]
             room == rooms[r]
             x == SeatOf(room, a)
  <2>1. r \in DOMAIN rooms /\ Fits(room) /\ Keeps(room, room)
    BY <1>2, KeepsSelf DEF Settled, LobbyOK, Placed, TablesOK
  <2>2. x \in DOMAIN room.seats /\ room.seats[x].account = a
    BY <1>2, <2>1, MemberSeat DEF Settled
  <2>3. CASE ~room.seats[x].bound
    <3>1. UNCHANGED <<db, queues, rooms, members>>
      BY <1>2, <2>3 DEF LeaveAs
    <3>2. ~IsBound(rooms, a)
      BY <2>1, <2>2, <2>3, NotBound DEF Settled
    <3> QED
      BY <3>1, <3>2, StaysMoves
  <2>4. CASE room.seats[x].bound /\ room.match # None
    BY <1>2, <2>4, LeaveMatchMoves DEF LeaveAs
  <2>5. CASE room.seats[x].bound /\ room.match = None /\ room.pendingAbort = None
    <3>1. LeaveLobby(db, r, room, a, ok)
      BY <1>2, <2>5 DEF LeaveAs
    <3>2. Releasing(room, rooms[members[a]])
      BY <2>1 DEF Releasing, Fits, RoomType
    <3> QED
      BY <1>2, <3>1, <3>2, LeaveLobbyMoves
  <2>6. CASE room.seats[x].bound /\ room.match = None /\ room.pendingAbort # None
    <3>1. PICK o \in AbortPrepared(db, room) :
            IF o.ok THEN LeaveLobby(o.db, r, o.room, a, ok)
            ELSE ~ok /\ Save(o.db, queues, [rooms EXCEPT ![r] = o.room], members)
      BY <1>2, <2>6 DEF LeaveAs
    <3>2. Releasing(o.room, room)
      BY <2>1, AbortKeeps
    <3>3. CASE o.ok
      BY <1>2, <3>1, <3>2, <3>3, LeaveLobbyMoves
    <3>4. CASE ~o.ok
      <4>1. Keeps(o.room, room)
        BY <3>2, ReleasingKeeps
      <4> QED
        BY <2>1, <3>1, <3>4, <4>1, KeptMoves
    <3> QED
      BY <3>3, <3>4
  <2> QED
    BY <2>3, <2>4, <2>5, <2>6
<1> QED
  BY <1>1, <1>2

-----------------------------------------------------------------------------
(* The steps of the lobby.                                                  *)

\* Who sits connected, or waits to be disconnected, is registered.
LobbyInv == Settled /\ \A a : IsBound(rooms, a) => a \in DOMAIN peers

\* A connection on a seat is neither forgotten nor opened by the step.
Attached ==
  \A a : IsBound(rooms', a) => /\ a \in DOMAIN peers => a \in DOMAIN peers'
                               /\ Current(a)' => Current(a)

\* What such a step keeps.
LEMMA StepInv ==
  ASSUME LobbyInv, NEW A, Moves(A), Attached
  PROVE  LobbyInv'
<1>1. LobbyOK(queues', rooms', members')
  BY DEF Moves
<1>2. ASSUME NEW a, IsBound(rooms', a)
      PROVE  a \in DOMAIN peers'
  <2>1. IsBound(rooms, a) \/ Current(a)
    BY <1>2 DEF Moves
  <2>2. a \in DOMAIN peers
    BY <2>1 DEF LobbyInv, Current
  <2> QED
    BY <1>2, <2>2 DEF Attached
<1> QED
  BY <1>1, <1>2 DEF LobbyInv, Settled

\* The connections stay, or some of them are closed.
LEMMA PeersStay ==
  ASSUME DOMAIN peers' = DOMAIN peers, \A a \in DOMAIN peers : peers'[a] \in {peers[a], "closed"}
  PROVE  Attached
BY DEF Attached, Current

\* A step that leaves the connections alone keeps every seated player connected to them.
LEMMA PeersSame ==
  ASSUME UNCHANGED peers
  PROVE  Attached
BY DEF Attached, Current

\* One connection is closed.
LEMMA OneCloses ==
  ASSUME NEW a \in DOMAIN peers, peers' = [peers EXCEPT ![a] = "closed"]
  PROVE  Attached
<1>1. DOMAIN peers' = DOMAIN peers /\ \A b \in DOMAIN peers : peers'[b] \in {peers[b], "closed"}
  OBVIOUS
<1> QED
  BY <1>1, PeersStay

\* OpenAuthenticated binds a seat to the new connection of its player, or takes a
\* connection for somebody who is not seated.
LEMMA OpenMoves ==
  ASSUME LobbyInv, NEW a, Open(a)
  PROVE  Moves({}) /\ Attached
<1>1. CASE a \notin DOMAIN peers
  <2>1. peers' = With(peers, a, "open") /\ UNCHANGED <<db, queues, rooms, members>>
    BY <1>1 DEF Open
  <2>2. DOMAIN peers' = DOMAIN peers \cup {a} /\ \A b \in DOMAIN peers : b # a => peers'[b] = peers[b]
    BY <2>1 DEF With, Over
  <2>3. ~IsBound(rooms', a)
    BY <1>1, <2>1 DEF LobbyInv
  <2>4. Attached
    <3>1. ASSUME NEW b, IsBound(rooms', b)
          PROVE  (b \in DOMAIN peers => b \in DOMAIN peers') /\ (Current(b)' => Current(b))
      BY <2>2, <2>3, <3>1 DEF Current
    <3> QED
      BY <3>1 DEF Attached
  <2> QED
    BY <2>1, <2>4, StaysMoves DEF LobbyInv
<1>2. CASE a \in DOMAIN peers
  <2>1. PICK ok \in BOOLEAN : LeaveAs(a, ok) /\ peers' = [peers EXCEPT ![a] = IF ok THEN "open" ELSE "closed"]
    BY <1>2 DEF Open
  <2>2. Moves({}) /\ (ok => ~IsBound(rooms', a))
    BY <2>1, LeaveAsMoves DEF LobbyInv
  <2>3. Attached
    <3>1. CASE ok
      <4>1. peers' = [peers EXCEPT ![a] = "open"]
        BY <2>1, <3>1
      <4>2. ASSUME NEW b, IsBound(rooms', b)
            PROVE  (b \in DOMAIN peers => b \in DOMAIN peers') /\ (Current(b)' => Current(b))
        BY <2>2, <3>1, <4>1, <4>2 DEF Current
      <4> QED
        BY <4>2 DEF Attached
    <3>2. CASE ~ok
      BY <1>2, <2>1, <3>2, OneCloses
    <3> QED
      BY <3>1, <3>2
  <2> QED
    BY <2>2, <2>3
<1> QED
  BY <1>1, <1>2

\* A connection that closes moves nobody.
LEMMA PeerClosesMoves ==
  ASSUME LobbyInv, NEW a, PeerCloses(a)
  PROVE  Moves({}) /\ Attached
<1>1. a \in DOMAIN peers /\ peers' = [peers EXCEPT ![a] = "closed"]
  BY DEF PeerCloses, Current
<1> QED
  BY <1>1, OneCloses, StaysMoves DEF LobbyInv, PeerCloses

\* disconnect forgets a closed connection, and leaves nobody bound to it.
LEMMA DisconnectMoves ==
  ASSUME LobbyInv, NEW a, NEW ok, Disconnect(a, ok)
  PROVE  Moves({}) /\ Attached
<1>1. a \in DOMAIN peers /\ LeaveAs(a, ok)
      /\ peers' = IF ok THEN Without(peers, a) ELSE [peers EXCEPT ![a] = "closed"]
  BY DEF Disconnect
<1>2. Moves({}) /\ (ok => ~IsBound(rooms', a))
  BY <1>1, LeaveAsMoves DEF LobbyInv
<1>3. CASE ok
  <2>1. DOMAIN peers' = DOMAIN peers \ {a} /\ \A b \in DOMAIN peers' : peers'[b] = peers[b]
    BY <1>1, <1>3 DEF Without
  <2>2. ASSUME NEW b, IsBound(rooms', b)
        PROVE  (b \in DOMAIN peers => b \in DOMAIN peers') /\ (Current(b)' => Current(b))
    BY <1>2, <1>3, <2>1, <2>2 DEF Current
  <2> QED
    BY <1>2, <2>2 DEF Attached
<1>4. CASE ~ok
  BY <1>1, <1>2, <1>4, OneCloses
<1> QED
  BY <1>3, <1>4

\* leave, by request or by the clock, frees the seat of one player at most.
LEMMA LeaveMoves ==
  ASSUME LobbyInv, NEW a, Leave(a)
  PROVE  Moves({}) /\ Attached
<1>1. PICK ok \in BOOLEAN : LeaveAs(a, ok)
  BY DEF Leave
<1>2. Moves({})
  BY <1>1, LeaveAsMoves DEF LobbyInv
<1> QED
  BY <1>2, PeersSame DEF Leave

-----------------------------------------------------------------------------
(* Queues.                                                                  *)

\* QueueLeave takes one account out of the queue and moves nobody else.
LEMMA QueueLeaveMoves ==
  ASSUME LobbyInv, NEW a, QueueLeave(a)
  PROVE  Moves({}) /\ Attached
<1>1. PICK ok \in BOOLEAN : LeaveQueue(a, ok)
  BY DEF QueueLeave
<1>2. Moves({})
  BY <1>1, LeaveQueueMoves DEF LobbyInv
<1> QED
  BY <1>2, PeersSame DEF QueueLeave

\* The visit of drain or Close to a queue entry, whatever its release comes to.
LEMMA QueueStepMoves ==
  ASSUME LobbyInv, NEW a, QueueStep(a)
  PROVE  Moves({}) /\ Attached
<1>1. ASSUME NEW ok \in BOOLEAN, DrainQueue(a, ok)
      PROVE  Moves({}) /\ Attached
  BY <1>1, LeaveQueueMoves, PeersSame DEF LobbyInv, DrainQueue
<1>2. CASE CloseQueue(a)
  <2>1. PICK o \in Releases(db, {queues[a].id}) : Save(o.db, queues, rooms, members)
    BY <1>2 DEF CloseQueue
  <2>2. UNCHANGED <<queues, rooms, members>>
    BY <2>1 DEF Save
  <2> QED
    BY <1>2, <2>2, StaysMoves, PeersSame DEF LobbyInv, CloseQueue
<1> QED
  BY <1>1, <1>2 DEF QueueStep

\* A reservation names an admission.
LEMMA ReservesId ==
  ASSUME NEW d, NEW a, NEW o \in Reserves(d, a)
  PROVE  o.id \in AdmissionIds
<1> DEFINE ids == Fresh({i \in AdmissionIds : d.adm[i].state = "absent"}, a)
           row(id) == Values!Reserve(d, id, a, Owner, "pass", 1)
<1>1. ids \subseteq AdmissionIds
  BY DEF Fresh
<1>2. CASE Values!OpenOf(d, a) # {}
  BY <1>2 DEF Reserves
<1>3. CASE Values!OpenOf(d, a) = {}
  <2>1. \E id \in ids, ok \in Replies : o = [db |-> row(id), id |-> id, ok |-> ok]
    BY <1>3 DEF Reserves
  <2> QED
    BY <1>1, <2>1
<1> QED
  BY <1>2, <1>3

\* QueueJoin once the account is not waiting any more.
LEMMA EnqueueMoves ==
  ASSUME LobbyInv, NEW a \in Accounts, Current(a), a \notin DOMAIN members, NEW s \in LobbySettings,
         NEW d, NEW q, QueueOK(q), DOMAIN q \subseteq DOMAIN queues, a \notin DOMAIN q, Enqueue(d, q, a, s)
  PROVE  Moves({}) /\ Attached
<1> DEFINE new(o) == With(q, a, [settings |-> s, id |-> o.id, order |-> Cardinality(DOMAIN q)])
<1>1. PICK o \in Reserves(d, a) :
        \/ ~o.ok /\ Save(o.db, q, rooms, members) /\ UNCHANGED peers
        \/ o.ok /\ MatchQueues(o.db, new(o), rooms, members) /\ UNCHANGED peers
        \/ /\ o.ok
           /\ peers' = [peers EXCEPT ![a] = "closed"]
           /\ \E c \in Releases(o.db, {o.id}) :
                Save(c.db, IF c.told = {} THEN new(o) ELSE q, rooms, members)
  BY DEF Enqueue
<1> DEFINE waiting == new(o)
<1>2. o.id \in AdmissionIds
  BY <1>1, ReservesId
<1>3. waiting = With(q, a, [settings |-> s, id |-> o.id, order |-> Cardinality(DOMAIN q)])
  OBVIOUS
<1> HIDE DEF waiting
<1>4. QueueOK(waiting) /\ DOMAIN waiting = DOMAIN q \cup {a}
  BY <1>2, <1>3, EnqueueOK
<1>5. DOMAIN queues \cap DOMAIN members = {} /\ Settled /\ TablesOK(rooms) /\ Placed(rooms, members)
  BY DEF LobbyInv, Settled, LobbyOK
<1>6. DOMAIN q \cap DOMAIN members = {} /\ DOMAIN waiting \cap DOMAIN members = {}
  BY <1>4, <1>5
<1>7. CASE ~o.ok
  <2>1. Save(o.db, q, rooms, members) /\ UNCHANGED peers
    BY <1>1, <1>7
  <2> QED
    BY <1>5, <1>6, <2>1, QueueMoves, PeersSame
<1>8. CASE MatchQueues(o.db, waiting, rooms, members) /\ UNCHANGED peers
  <2>1. LobbyOK(waiting, rooms, members)
    BY <1>4, <1>5, <1>6 DEF LobbyOK
  <2>2. /\ LobbyOK(queues', rooms', members')
        /\ \A b : IsBound(rooms', b) => IsBound(rooms, b) \/ (b \in DOMAIN waiting /\ Current(b))
        /\ \A b \in DOMAIN members : b \in DOMAIN members' /\ members'[b] = members[b]
    BY <1>8, <2>1, MatchQueuesOK
  <2>3. Moves({})
    BY <1>6, <2>2 DEF Moves
  <2> QED
    BY <1>8, <2>3, PeersSame
<1>9. CASE /\ peers' = [peers EXCEPT ![a] = "closed"]
           /\ \E c \in Releases(o.db, {o.id}) : Save(c.db, IF c.told = {} THEN waiting ELSE q, rooms, members)
  <2>1. PICK c \in Releases(o.db, {o.id}) : Save(c.db, IF c.told = {} THEN waiting ELSE q, rooms, members)
    BY <1>9
  <2>2. Moves({})
    <3>1. CASE c.told = {}
      <4>1. Save(c.db, waiting, rooms, members)
        BY <2>1, <3>1
      <4> QED
        BY <1>4, <1>5, <1>6, <4>1, QueueMoves
    <3>2. CASE c.told # {}
      <4>1. Save(c.db, q, rooms, members)
        BY <2>1, <3>2
      <4> QED
        BY <1>5, <1>6, <4>1, QueueMoves
    <3> QED
      BY <3>1, <3>2
  <2>3. a \in DOMAIN peers
    BY DEF Current
  <2> QED
    BY <1>9, <2>2, <2>3, OneCloses
<1> QED
  BY <1>1, <1>3, <1>7, <1>8, <1>9

\* QueueJoin queues an account that holds no seat, and what matchQueues does then.
LEMMA QueueJoinMoves ==
  ASSUME LobbyInv, NEW a \in Accounts, NEW s \in LobbySettings, QueueJoin(a, s)
  PROVE  Moves({}) /\ Attached
<1>1. Current(a) /\ a \notin DOMAIN members
  BY DEF QueueJoin
<1>2. QueueOK(queues) /\ DOMAIN queues \cap DOMAIN members = {} /\ Settled
  BY DEF LobbyInv, Settled, LobbyOK
<1>3. CASE ~Queued(a)
  <2>1. Enqueue(db, queues, a, s) /\ a \notin DOMAIN queues
    BY <1>3 DEF QueueJoin, Queued
  <2> QED
    BY <1>1, <1>2, <2>1, EnqueueMoves
<1>4. CASE Queued(a)
  <2>1. PICK o \in Releases(db, {queues[a].id}) :
          IF o.told = {} THEN Save(o.db, queues, rooms, members) /\ UNCHANGED peers
          ELSE Enqueue(Tidy(o.db, Dequeue(queues, {a}), rooms), Dequeue(queues, {a}), a, s)
    BY <1>4 DEF QueueJoin
  <2>2. CASE o.told = {}
    BY <1>2, <2>1, <2>2, QueueMoves, PeersSame
  <2>3. CASE o.told # {}
    <3> DEFINE q == Dequeue(queues, {a})
               d == Tidy(o.db, q, rooms)
    <3>1. Enqueue(d, q, a, s)
      BY <2>1, <2>3
    <3>2. QueueOK(q) /\ DOMAIN q = DOMAIN queues \ {a}
      BY <1>2, DequeueOK
    <3> HIDE DEF q, d
    <3>3. DOMAIN q \subseteq DOMAIN queues /\ a \notin DOMAIN q
      BY <3>2
    <3> QED
      BY <1>1, <3>1, <3>2, <3>3, EnqueueMoves
  <2> QED
    BY <2>2, <2>3
<1> QED
  BY <1>3, <1>4

-----------------------------------------------------------------------------
(* Rooms that are created, joined, rejoined and set up.                     *)

\* Account a takes a seat of room r, beside those who sit there already.
Arrives(a, r, new, rs2) ==
  /\ Fits(new) /\ Apart(new)
  /\ Who(new) = (IF r \in DOMAIN rooms THEN Who(rooms[r]) ELSE {}) \cup {a}
  /\ \A s \in DOMAIN new.seats :
       \/ new.seats[s].account = a
       \/ /\ r \in DOMAIN rooms /\ s \in DOMAIN rooms[r].seats
          /\ rooms[r].seats[s].account = new.seats[s].account
          /\ new.seats[s].bound => rooms[r].seats[s].bound
  /\ DOMAIN rs2 = DOMAIN rooms \cup {r} /\ rs2[r] = new
  /\ \A x \in DOMAIN rooms \ {r} : rs2[x] = rooms[x]

\* A connected account that was nowhere takes a seat (Create, Join).
LEMMA ArrivedMoves ==
  ASSUME Settled, NEW a \in Accounts, Current(a), a \notin DOMAIN members, a \notin DOMAIN queues,
         NEW r \in RoomIds, NEW new, NEW rs2, Arrives(a, r, new, rs2),
         NEW d, Save(d, queues, rs2, With(members, a, r))
  PROVE  Moves({})
<1> DEFINE ms2 == With(members, a, r)
           V == IF r \in DOMAIN rooms THEN Who(rooms[r]) ELSE {}
           W == Who(new)
<1>1. rooms' = rs2 /\ members' = ms2 /\ queues' = queues
  BY DEF Save
<1>2. DOMAIN ms2 = DOMAIN members \cup {a} /\ ms2[a] = r /\ \A b \in DOMAIN members : ms2[b] = members[b]
  BY DEF With, Over
<1>3. TablesOK(rooms) /\ Placed(rooms, members) /\ DOMAIN queues \cap DOMAIN members = {}
  BY DEF Settled, LobbyOK
<1>4. \A b \in V : b \in DOMAIN members /\ members[b] = r
  BY <1>3 DEF Placed
<1>5. \A b \in DOMAIN members \ V : b \notin W
  BY DEF Arrives
<1>6. W = V \cup {a}
  BY DEF Arrives
<1> HIDE DEF ms2, V, W
<1>7. Replaces(r, rooms, members, rs2, ms2, V, W)
  <2>1. /\ \A x : x # r => (x \in DOMAIN rs2 <=> x \in DOMAIN rooms)
        /\ \A x \in DOMAIN rs2 : x # r => rs2[x] = rooms[x]
    BY DEF Arrives
  <2>2. r \in DOMAIN rs2 /\ Fits(rs2[r]) /\ Apart(rs2[r]) /\ W = Who(rs2[r])
    BY DEF Arrives, W
  <2>3. IF r \in DOMAIN rooms THEN V = Who(rooms[r]) ELSE V = {}
    BY DEF V
  <2>4. /\ DOMAIN ms2 = (DOMAIN members \ V) \cup W
        /\ \A b \in W : ms2[b] = r
        /\ \A b \in DOMAIN members \ V : ms2[b] = members[b] /\ b \notin W
    BY <1>2, <1>4, <1>5, <1>6
  <2> QED
    BY <2>1, <2>2, <2>3, <2>4 DEF Replaces
<1>8. LobbyOK(queues, rs2, ms2)
  <2>1. DOMAIN queues \cap DOMAIN ms2 = {}
    BY <1>2, <1>3
  <2>2. LobbyOK(queues, rooms, members)
    BY DEF Settled
  <2> QED
    BY <1>7, <2>1, <2>2, RoomReplaced
<1>9. ASSUME NEW b, IsBound(rs2, b)
      PROVE  IsBound(rooms, b) \/ (Current(b) /\ b \notin DOMAIN members)
  <2>1. PICK x \in DOMAIN rs2 : \E s \in DOMAIN rs2[x].seats :
               rs2[x].seats[s].account = b /\ rs2[x].seats[s].bound
    BY <1>9 DEF IsBound
  <2>2. PICK s \in DOMAIN rs2[x].seats : rs2[x].seats[s].account = b /\ rs2[x].seats[s].bound
    BY <2>1
  <2>3. CASE x # r
    <3>1. x \in DOMAIN rooms /\ rs2[x] = rooms[x]
      BY <2>1, <2>3 DEF Arrives
    <3> QED
      BY <2>2, <3>1 DEF IsBound
  <2>4. CASE x = r
    <3>1. \/ b = a
          \/ /\ r \in DOMAIN rooms /\ s \in DOMAIN rooms[r].seats
             /\ rooms[r].seats[s].account = b /\ rooms[r].seats[s].bound
      BY <2>2, <2>4 DEF Arrives
    <3> QED
      BY <3>1 DEF IsBound
  <2> QED
    BY <2>3, <2>4
<1> QED
  BY <1>1, <1>2, <1>8, <1>9 DEF Moves

\* Create seats its host in a fresh room.
LEMMA CreateMoves ==
  ASSUME LobbyInv, NEW a \in Accounts, NEW s \in LobbySettings, Create(a, s)
  PROVE  Moves({}) /\ Attached
<1> DEFINE seats(o) == With(<<>>, 0, Member(a, o.id))
           new(o) == NewRoom("local", s, seats(o))
<1>1. Current(a) /\ a \notin DOMAIN members /\ a \notin DOMAIN queues /\ Settled
  BY DEF Create, Queued, LobbyInv
<1>2. PICK o \in Reserves(db, a), r \in RoomIds \ DOMAIN rooms :
        IF o.ok THEN Save(o.db, queues, With(rooms, r, new(o)), With(members, a, r))
        ELSE Save(o.db, queues, rooms, members)
  BY DEF Create
<1>3. Attached
  BY PeersSame DEF Create
<1>4. CASE ~o.ok
  <2>1. UNCHANGED <<queues, rooms, members>>
    BY <1>2, <1>4 DEF Save
  <2> QED
    BY <1>1, <1>3, <2>1, StaysMoves
<1>5. CASE o.ok
  <2> DEFINE m == Member(a, o.id)
             f == seats(o)
             room == new(o)
             rs2 == With(rooms, r, room)
  <2>1. m \in MemberType /\ m.account = a
    BY <1>2, ReservesId DEF MemberType, Member
  <2>2. f = With(<<>>, 0, m)
    OBVIOUS
  <2> HIDE DEF m
  <2>3. DOMAIN f = {0} /\ f[0] = m /\ f = [x \in DOMAIN f |-> f[x]]
    BY <2>2 DEF With, Over
  <2> HIDE DEF f
  <2>4. f \in SeatMaps
    BY <2>1, <2>3, SeatMapFacts
  <2>5. SizeOf[s] \in Nat \ {0}
    BY LobbyAssumption
  <2>6. Fits(NewRoom("local", s, f))
    BY <2>3, <2>4, <2>5, NewRoomFits
  <2>7. room = NewRoom("local", s, f)
    BY DEF f
  <2>8. room.seats = f
    BY <2>7 DEF NewRoom
  <2> HIDE DEF room
  <2>9. Save(o.db, queues, rs2, With(members, a, r))
    BY <1>2, <1>5 DEF room
  <2>10. DOMAIN rs2 = DOMAIN rooms \cup {r} /\ rs2[r] = room /\ \A x \in DOMAIN rooms \ {r} : rs2[x] = rooms[x]
    BY <1>2 DEF With, Over
  <2> HIDE DEF rs2
  <2>11. Apart(room) /\ Who(room) = {a} /\ \A x \in DOMAIN room.seats : room.seats[x].account = a
    BY <2>1, <2>3, <2>8 DEF Apart, Who
  <2>12. Arrives(a, r, room, rs2)
    BY <1>2, <2>6, <2>7, <2>10, <2>11 DEF Arrives
  <2> QED
    BY <1>1, <1>2, <1>3, <2>9, <2>12, ArrivedMoves
<1> QED
  BY <1>4, <1>5

\* Join seats an account that is a member of no room and waits in no queue.
LEMMA JoinMoves ==
  ASSUME LobbyInv, NEW a \in Accounts, NEW r \in DOMAIN rooms, Join(a, r)
  PROVE  Moves({}) /\ Attached
<1> DEFINE es(o) == With(<<>>, a, [id |-> o.id, order |-> 0])
           room == rooms[r]
<1>1. /\ Current(a) /\ a \notin DOMAIN members /\ a \notin DOMAIN queues /\ Settled
      /\ Cardinality(DOMAIN room.seats) < Size(room)
  BY DEF Join, MayJoin, Queued, LobbyInv
<1>2. PICK o \in Reserves(db, a) :
        IF o.ok THEN Save(o.db, queues, [rooms EXCEPT ![r] = Assign(@, es(o))], With(members, a, r))
        ELSE Save(o.db, queues, rooms, members)
  BY DEF Join
<1>3. Attached
  BY PeersSame DEF Join
<1>4. r \in RoomIds /\ Fits(room) /\ Apart(room) /\ a \notin Who(room)
  BY <1>1 DEF Settled, LobbyOK, TablesOK, Placed
<1>5. CASE ~o.ok
  <2>1. UNCHANGED <<queues, rooms, members>>
    BY <1>2, <1>5 DEF Save
  <2> QED
    BY <1>1, <1>3, <2>1, StaysMoves
<1>6. CASE o.ok
  <2> DEFINE e == [id |-> o.id, order |-> 0]
             q == es(o)
             new == Assign(room, q)
             rs2 == [rooms EXCEPT ![r] = new]
  <2>1. e.order = 0 /\ e.id \in AdmissionIds
    BY <1>2, ReservesId
  <2>2. q = With(<<>>, a, e)
    OBVIOUS
  <2>3. Save(o.db, queues, rs2, With(members, a, r))
    BY <1>2, <1>6
  <2> HIDE DEF e
  <2>4. DOMAIN q = {a} /\ q[a] = e
    BY <2>2 DEF With, Over
  <2> HIDE DEF q
  <2>5. IsFiniteSet(DOMAIN q) /\ Cardinality(DOMAIN q) = 1
    BY <2>4, FS_Singleton
  <2>6. Ordered(q)
    BY <2>1, <2>4, <2>5 DEF Ordered
  <2>7. Cardinality(DOMAIN q) + Cardinality(DOMAIN room.seats) <= Size(room)
    <3>1. Cardinality(DOMAIN room.seats) \in Nat /\ Size(room) \in Nat
      BY <1>4, FreeSeats, SizeFact DEF Fits
    <3> QED
      BY <1>1, <2>5, <3>1
  <2>8. DOMAIN q \subseteq Accounts /\ \A b \in DOMAIN q : q[b].id \in AdmissionIds
    BY <2>1, <2>4
  <2>9. new = Assign(room, q)
    OBVIOUS
  <2> HIDE DEF new
  <2>10. /\ Fits(new) /\ DOMAIN room.seats \subseteq DOMAIN new.seats
         /\ \A x \in DOMAIN room.seats : /\ new.seats[x].account = room.seats[x].account
                                         /\ new.seats[x].bound = room.seats[x].bound
         /\ \A x \in DOMAIN new.seats \ DOMAIN room.seats : new.seats[x].account \in DOMAIN q
         /\ \A x, y \in DOMAIN new.seats \ DOMAIN room.seats :
              new.seats[x].account = new.seats[y].account => x = y
         /\ \A b \in DOMAIN q : \E x \in DOMAIN new.seats \ DOMAIN room.seats : new.seats[x].account = b
    BY <1>4, <2>6, <2>7, <2>8, <2>9, Assigned
  <2>11. Apart(new)
    <3>1. \A x \in DOMAIN room.seats : room.seats[x].account # a
      BY <1>4 DEF Who
    <3> QED
      BY <1>4, <2>4, <2>10, <3>1 DEF Apart
  <2>12. Who(new) = Who(room) \cup {a}
    <3>1. ASSUME NEW b
          PROVE  b \in Who(new) <=> b \in Who(room) \/ b = a
      BY <2>4, <2>10, WhoFacts
    <3> QED
      BY <3>1
  <2>13. DOMAIN rs2 = DOMAIN rooms \cup {r} /\ rs2[r] = new /\ \A x \in DOMAIN rooms \ {r} : rs2[x] = rooms[x]
    OBVIOUS
  <2> HIDE DEF rs2
  <2>14. Arrives(a, r, new, rs2)
    BY <2>4, <2>10, <2>11, <2>12, <2>13 DEF Arrives
  <2> QED
    BY <1>1, <1>3, <1>4, <2>3, <2>14, ArrivedMoves
<1> QED
  BY <1>5, <1>6

-----------------------------------------------------------------------------
(* A room whose players may change seats.                                   *)

\* The same players, and who was not bound is not bound.
Reseats(new, old) ==
  /\ Fits(new) /\ Apart(new) /\ Who(new) = Who(old)
  /\ \A s \in DOMAIN new.seats : new.seats[s].bound =>
       \E t \in DOMAIN old.seats : old.seats[t].account = new.seats[s].account /\ old.seats[t].bound

\* A room with the same players takes the place of another.
LEMMA SamePlayers ==
  ASSUME NEW q, NEW rs, NEW ms, LobbyOK(q, rs, ms), NEW r \in DOMAIN rs, NEW new,
         Fits(new), Apart(new), Who(new) = Who(rs[r]), NEW rs2, rs2 = [rs EXCEPT ![r] = new]
  PROVE  LobbyOK(q, rs2, ms)
<1>1. r \in RoomIds /\ TablesOK(rs) /\ Placed(rs, ms) /\ DOMAIN q \cap DOMAIN ms = {}
  BY DEF LobbyOK, TablesOK
<1>2. DOMAIN rs2 = DOMAIN rs /\ rs2[r] = new /\ \A x \in DOMAIN rs \ {r} : rs2[x] = rs[x]
  OBVIOUS
<1>3. \A a \in Who(rs[r]) : a \in DOMAIN ms /\ ms[a] = r
  BY <1>1 DEF Placed
<1>4. Replaces(r, rs, ms, rs2, ms, Who(new), Who(new))
  BY <1>2, <1>3 DEF Replaces
<1> QED
  BY <1>1, <1>4, RoomReplaced

\* A room whose players only change seats places everybody as before.
LEMMA Reseated ==
  ASSUME NEW q, NEW rs, NEW ms, LobbyOK(q, rs, ms), NEW r \in DOMAIN rs, NEW new, Reseats(new, rs[r]),
         NEW rs2, rs2 = [rs EXCEPT ![r] = new]
  PROVE  LobbyOK(q, rs2, ms) /\ \A a : IsBound(rs2, a) => IsBound(rs, a)
<1>1. LobbyOK(q, rs2, ms)
  BY SamePlayers DEF Reseats
<1>2. DOMAIN rs2 = DOMAIN rs /\ rs2[r] = new /\ \A x \in DOMAIN rs \ {r} : rs2[x] = rs[x]
  OBVIOUS
<1>3. ASSUME NEW a, IsBound(rs2, a)
      PROVE  IsBound(rs, a)
  <2>1. PICK x \in DOMAIN rs2 : \E s \in DOMAIN rs2[x].seats :
               rs2[x].seats[s].account = a /\ rs2[x].seats[s].bound
    BY <1>3 DEF IsBound
  <2>2. \E s \in DOMAIN rs[x].seats : rs[x].seats[s].account = a /\ rs[x].seats[s].bound
    BY <1>2, <2>1 DEF Reseats
  <2> QED
    BY <1>2, <2>1, <2>2 DEF IsBound
<1> QED
  BY <1>1, <1>3

\* Waiters are matched after a room was changed.
LEMMA MatchMoves ==
  ASSUME Settled, NEW rs1, LobbyOK(queues, rs1, members), \A a : IsBound(rs1, a) => IsBound(rooms, a),
         NEW d, MatchQueues(d, queues, rs1, members)
  PROVE  Moves({})
<1>1. /\ LobbyOK(queues', rooms', members')
      /\ \A a : IsBound(rooms', a) => IsBound(rs1, a) \/ (a \in DOMAIN queues /\ Current(a))
      /\ \A a \in DOMAIN members : a \in DOMAIN members' /\ members'[a] = members[a]
  BY MatchQueuesOK
<1>2. DOMAIN queues \cap DOMAIN members = {}
  BY DEF Settled, LobbyOK
<1> QED
  BY <1>1, <1>2 DEF Moves

\* Whoever comes back takes its seat.
LEMMA RejoinMoves ==
  ASSUME LobbyInv, NEW a \in Accounts, NEW r \in DOMAIN rooms, Rejoin(a, r)
  PROVE  Moves({a}) /\ Attached
<1> DEFINE x == SeatOf(rooms[r], a)
           room == [rooms[r] EXCEPT !.seats[x].bound = TRUE]
           rs1 == [rooms EXCEPT ![r] = room]
           v == [rooms[r].seats[x] EXCEPT !.bound = TRUE]
           f == [rooms[r].seats EXCEPT ![x] = v]
<1>1. Current(a) /\ a \in DOMAIN members /\ members[a] = r /\ Settled
  BY DEF Rejoin, LobbyInv
<1>2. Attached
  BY PeersSame DEF Rejoin
<1>3. Fits(rooms[r]) /\ Apart(rooms[r]) /\ Keeps(rooms[r], rooms[r])
  BY <1>1, KeepsSelf DEF Settled, LobbyOK, TablesOK
<1>4. x \in DOMAIN rooms[r].seats /\ rooms[r].seats[x].account = a
  BY <1>1, <1>3, MemberSeat DEF Settled
<1> HIDE DEF x
<1>5. rooms[r].seats \in SeatMaps /\ \A s \in DOMAIN rooms[r].seats : rooms[r].seats[s] \in MemberType
  BY <1>3, SeatMapFacts DEF Fits, RoomType
<1>6. v \in MemberType /\ v.account = a
  BY <1>4, <1>5 DEF MemberType
<1>7. room = [rooms[r] EXCEPT !.seats = f]
  OBVIOUS
<1>8. IF room.match = None THEN Save(db, queues, [rooms EXCEPT ![r] = room], members)
      ELSE \E o \in Plays(db, room) :
             IF o.ok THEN Save(o.db, queues, Pruned(rooms, r, o.room, members).rooms,
                               Pruned(rooms, r, o.room, members).members)
             ELSE Save(o.db, queues, [rooms EXCEPT ![r] = o.room], members)
  BY DEF Rejoin, x
<1>9. rs1 = [rooms EXCEPT ![r] = room]
  OBVIOUS
<1> HIDE DEF v
<1>10. /\ f \in SeatMaps /\ DOMAIN f = DOMAIN rooms[r].seats /\ f[x].account = a
       /\ \A s \in DOMAIN f \ {x} : f[s] = rooms[r].seats[s]
  BY <1>4, <1>5, <1>6, SeatWritten
<1> HIDE DEF f, room, rs1
<1>11. Fits(room) /\ room.seats = f
  BY <1>3, <1>7, <1>10, FitsSeats
<1>12. Apart(room) /\ Who(room) = Who(rooms[r])
  <2>1. DOMAIN room.seats = DOMAIN rooms[r].seats
        /\ \A s \in DOMAIN room.seats : room.seats[s].account = rooms[r].seats[s].account
    BY <1>4, <1>10, <1>11
  <2> QED
    BY <1>3, <2>1 DEF Apart, Who
<1>13. LobbyOK(queues, rs1, members) /\ DOMAIN rs1 = DOMAIN rooms /\ rs1[r] = room
       /\ \A y \in DOMAIN rooms \ {r} : rs1[y] = rooms[y]
  BY <1>1, <1>9, <1>11, <1>12, SamePlayers DEF Settled
<1>14. ASSUME NEW b, IsBound(rs1, b)
       PROVE  IsBound(rooms, b) \/ b = a
  <2>1. PICK y \in DOMAIN rs1 : \E s \in DOMAIN rs1[y].seats :
               rs1[y].seats[s].account = b /\ rs1[y].seats[s].bound
    BY <1>14 DEF IsBound
  <2>2. PICK s \in DOMAIN rs1[y].seats : rs1[y].seats[s].account = b /\ rs1[y].seats[s].bound
    BY <2>1
  <2>3. CASE y # r \/ s # x
    BY <1>10, <1>11, <1>13, <2>2, <2>3 DEF IsBound
  <2>4. CASE y = r /\ s = x
    BY <1>10, <1>11, <1>13, <2>2, <2>4
  <2> QED
    BY <2>3, <2>4
\* The step writes room r of rs1, and prunes it perhaps.
<1>15. ASSUME LobbyOK(queues, rooms', members'), queues' = queues,
              \A b : IsBound(rooms', b) => IsBound(rs1, b),
              \A b \in DOMAIN members' : b \in DOMAIN members /\ members'[b] = members[b]
       PROVE  Moves({a})
  BY <1>1, <1>14, <1>15 DEF Moves
<1>16. CASE room.match = None
  <2>1. queues' = queues /\ rooms' = rs1 /\ members' = members
    BY <1>8, <1>9, <1>16 DEF Save
  <2> QED
    BY <1>2, <1>13, <1>15, <2>1
<1>17. CASE room.match # None
  <2>1. PICK o \in Plays(db, room) :
             IF o.ok THEN Save(o.db, queues, Pruned(rooms, r, o.room, members).rooms,
                               Pruned(rooms, r, o.room, members).members)
             ELSE Save(o.db, queues, [rooms EXCEPT ![r] = o.room], members)
    BY <1>8, <1>17
  <2>2. Fits(o.room) /\ Keeps(o.room, room)
    BY <1>11, <2>1, PlayKeeps
  <2> DEFINE rs2 == [rs1 EXCEPT ![r] = o.room]
  <2>3. rs2 = [rs1 EXCEPT ![r] = o.room] /\ rs2 = [rooms EXCEPT ![r] = o.room]
    BY <1>9
  <2> HIDE DEF rs2
  <2>4. LobbyOK(queues, rs2, members) /\ \A b : IsBound(rs2, b) => IsBound(rs1, b)
    BY <1>13, <2>2, <2>3, RoomKept
  <2>5. CASE ~o.ok
    <3>1. queues' = queues /\ rooms' = rs2 /\ members' = members
      BY <2>1, <2>3, <2>5 DEF Save
    <3> QED
      BY <1>2, <1>15, <2>4, <3>1
  <2>6. CASE o.ok
    <3> DEFINE late == Pruned(rs1, r, o.room, members)
    <3>1. late = Pruned(rooms, r, o.room, members)
      <4>1. [rs1 EXCEPT ![r] = o.room] = [rooms EXCEPT ![r] = o.room]
        BY <2>3
      <4>2. Without(rs1, r) = Without(rooms, r)
        BY <1>13 DEF Without
      <4> DEFINE stay == {s \in DOMAIN o.room.seats : Connected(o.room.seats[s])}
                 kept == [o.room EXCEPT !.seats = [s \in stay |-> @[s]]]
                 ms2 == [b \in DOMAIN members \ {o.room.seats[s].account : s \in DOMAIN o.room.seats \ stay} |->
                           members[b]]
      <4>3. ASSUME NEW rs
            PROVE  Pruned(rs, r, o.room, members)
                     = IF ~Finished(o.room) THEN [rooms |-> [rs EXCEPT ![r] = o.room], members |-> members]
                       ELSE [rooms |-> IF stay = {} THEN Without(rs, r) ELSE [rs EXCEPT ![r] = kept],
                             members |-> ms2]
        BY DEF Pruned
      <4> HIDE DEF kept, stay, ms2
      <4>4. [rs1 EXCEPT ![r] = kept] = [rooms EXCEPT ![r] = kept]
        BY <1>9
      <4>5. CASE Finished(o.room)
        BY <4>2, <4>3, <4>4, <4>5
      <4>6. CASE ~Finished(o.room)
        BY <4>1, <4>3, <4>6
      <4> QED
        BY <4>5, <4>6
    <3>2. queues' = queues /\ rooms' = late.rooms /\ members' = late.members
      BY <2>1, <2>6, <3>1 DEF Save
    <3>3. late = Pruned(rs1, r, o.room, members)
      OBVIOUS
    <3> HIDE DEF late
    <3>4. /\ LobbyOK(queues, late.rooms, late.members)
          /\ \A b : IsBound(late.rooms, b) => IsBound([rs1 EXCEPT ![r] = o.room], b)
          /\ \A b \in DOMAIN late.members : b \in DOMAIN members /\ late.members[b] = members[b]
      <4>1. LobbyOK(queues, rs1, members) /\ r \in DOMAIN rs1 /\ Keeps(o.room, rs1[r])
        BY <1>13, <2>2
      <4> QED
        BY <3>3, <4>1, PrunedOK
    <3>5. \A b : IsBound(late.rooms, b) => IsBound(rs1, b)
      BY <2>3, <2>4, <3>4
    <3> QED
      BY <1>2, <1>15, <3>2, <3>4, <3>5
  <2> QED
    BY <2>5, <2>6
<1> QED
  BY <1>16, <1>17

-----------------------------------------------------------------------------
(* Ready and Settings.                                                      *)

\* A seat is written whose player stays.
LEMMA SeatKept ==
  ASSUME NEW room, Fits(room), NEW x \in DOMAIN room.seats, NEW v \in MemberType,
         v.account = room.seats[x].account, v.bound => room.seats[x].bound,
         NEW new, new = [room EXCEPT !.seats = [@ EXCEPT ![x] = v]]
  PROVE  Keeps(new, room)
<1> DEFINE f == [room.seats EXCEPT ![x] = v]
<1>1. new = [room EXCEPT !.seats = f]
  OBVIOUS
<1>2. room.seats \in SeatMaps
  BY DEF Fits, RoomType
<1>3. f \in SeatMaps /\ DOMAIN f = DOMAIN room.seats /\ f[x] = v
      /\ \A s \in DOMAIN f \ {x} : f[s] = room.seats[s]
  BY <1>2, SeatWritten
<1> HIDE DEF f
<1>4. Fits(new) /\ new.seats = f
  <2>1. f \in SeatMaps /\ DOMAIN f \subseteq DOMAIN room.seats
    BY <1>3
  <2>2. Fits([room EXCEPT !.seats = f]) /\ [room EXCEPT !.seats = f].seats = f
    BY <2>1, FitsSeats
  <2> QED
    BY <1>1, <2>2
<1> QED
  BY <1>3, <1>4 DEF Keeps

\* Ready marks a seat, with a new reservation where it has none, and moves nobody.
LEMMA ReadyMoves ==
  ASSUME LobbyInv, NEW a \in Accounts, Ready(a)
  PROVE  Moves({}) /\ Attached
<1> DEFINE r == members[a]
           room == rooms[r]
           x == SeatOf(room, a)
<1>1. a \in DOMAIN members /\ Settled
  BY DEF Ready, LobbyInv
<1>2. r \in DOMAIN rooms /\ Fits(room) /\ Keeps(room, room)
  BY <1>1, KeepsSelf DEF Settled, LobbyOK, Placed, TablesOK
<1>3. x \in DOMAIN room.seats /\ room.seats[x].account = a
  BY <1>1, <1>2, MemberSeat DEF Settled
<1>4. room.seats \in SeatMaps /\ \A s \in DOMAIN room.seats : room.seats[s] \in MemberType
  BY <1>2, SeatMapFacts DEF Fits, RoomType
<1>5. Attached
  BY PeersSame DEF Ready
<1>6. \/ Save(db, queues, [rooms EXCEPT ![r].seats[x].ready = TRUE], members)
      \/ \E o \in Reserves(db, a) :
           Save(o.db, queues, IF o.ok THEN [rooms EXCEPT ![r].seats[x].ready = TRUE,
                                                         ![r].seats[x].admission = o.id]
                              ELSE rooms, members)
  BY DEF Ready
<1> HIDE DEF x
<1>7. CASE Save(db, queues, [rooms EXCEPT ![r].seats[x].ready = TRUE], members)
  <2> DEFINE v == [room.seats[x] EXCEPT !.ready = TRUE]
             new == [room EXCEPT !.seats = [@ EXCEPT ![x] = v]]
  <2>1. v \in MemberType /\ v.account = room.seats[x].account /\ v.bound = room.seats[x].bound
    BY <1>3, <1>4 DEF MemberType
  <2>2. [rooms EXCEPT ![r].seats[x].ready = TRUE] = [rooms EXCEPT ![r] = new]
    OBVIOUS
  <2>3. new = [room EXCEPT !.seats = [@ EXCEPT ![x] = v]]
    OBVIOUS
  <2> HIDE DEF v, new
  <2>4. Keeps(new, room)
    BY <1>2, <1>3, <2>1, <2>3, SeatKept
  <2>5. Save(db, queues, [rooms EXCEPT ![r] = new], members)
    BY <1>7, <2>2
  <2> QED
    BY <1>1, <1>2, <1>5, <2>4, <2>5, KeptMoves
<1>8. ASSUME NEW o \in Reserves(db, a),
             Save(o.db, queues, IF o.ok THEN [rooms EXCEPT ![r].seats[x].ready = TRUE,
                                                           ![r].seats[x].admission = o.id]
                                ELSE rooms, members)
      PROVE  Moves({}) /\ Attached
  <2>1. CASE ~o.ok
    <3>1. UNCHANGED <<queues, rooms, members>>
      BY <1>8, <2>1 DEF Save
    <3> QED
      BY <1>1, <1>5, <3>1, StaysMoves
  <2>2. CASE o.ok
    <3> DEFINE v == [room.seats[x] EXCEPT !.ready = TRUE, !.admission = o.id]
               new == [room EXCEPT !.seats = [@ EXCEPT ![x] = v]]
    <3>1. o.id \in AdmissionIds
      BY ReservesId
    <3>2. v \in MemberType /\ v.account = room.seats[x].account /\ v.bound = room.seats[x].bound
      BY <1>3, <1>4, <3>1 DEF MemberType
    <3>3. [rooms EXCEPT ![r].seats[x].ready = TRUE, ![r].seats[x].admission = o.id] = [rooms EXCEPT ![r] = new]
      BY <1>2, <1>3 DEF Fits, RoomType
    <3>4. new = [room EXCEPT !.seats = [@ EXCEPT ![x] = v]]
      OBVIOUS
    <3>5. Save(o.db, queues, [rooms EXCEPT ![r] = new], members)
      BY <1>8, <2>2, <3>3
    <3> HIDE DEF v, new
    <3>6. Keeps(new, room)
      BY <1>2, <1>3, <3>2, <3>4, SeatKept
    <3> QED
      BY <1>1, <1>2, <1>5, <3>5, <3>6, KeptMoves
  <2> QED
    BY <2>1, <2>2
<1> QED
  BY <1>6, <1>7, <1>8

\* The rank of a seat among the others.
SeatRank(room, s) == Cardinality({t \in DOMAIN room.seats : t < s})

\* Compacted moves the players to the first seats, each to one of its own.
LEMMA CompactedFacts ==
  ASSUME NEW room, Fits(room), room.host \in DOMAIN room.seats, NEW new, new = Compacted(room)
  PROVE  /\ new \in RoomType
         /\ DOMAIN new.seats = 0..(Cardinality(DOMAIN room.seats) - 1)
         /\ \A k \in DOMAIN new.seats :
              \E s \in DOMAIN room.seats : SeatRank(room, s) = k /\ new.seats[k] = room.seats[s]
         /\ \A s \in DOMAIN room.seats :
              \E k \in DOMAIN new.seats : new.seats[k] = room.seats[s]
<1> DEFINE D == DOMAIN room.seats
           n == Cardinality(D)
           key == [s \in D |-> s]
           rank(s) == Cardinality({t \in D : t < s})
           at(k) == CHOOSE s \in D : rank(s) = k
           K == {rank(s) : s \in D}
           f == [k \in K |-> room.seats[at(k)]]
<1>1. IsFiniteSet(D) /\ n \in Nat /\ D \subseteq Nat
  <2>1. room.seats \in SeatMaps
    BY DEF Fits, RoomType
  <2> QED
    BY <2>1, FreeSeats, SeatMapFacts
<1>2. \A s \in D : RankIn(D, key, s) = rank(s)
  <2>1. ASSUME NEW s \in D
        PROVE  {y \in D : key[y] < key[s]} = {t \in D : t < s}
    OBVIOUS
  <2> QED
    BY <2>1 DEF RankIn
<1>3. (\A x \in D : key[x] \in Nat) /\ \A x, y \in D : key[x] = key[y] => x = y
  BY <1>1
<1> HIDE DEF key
<1>4. /\ \A s \in D : RankIn(D, key, s) \in 0..(n - 1)
      /\ \A s, t \in D : RankIn(D, key, s) = RankIn(D, key, t) => s = t
      /\ \A k \in 0..(n - 1) : \E s \in D : RankIn(D, key, s) = k
  BY <1>1, <1>3, Ranks
<1> HIDE DEF D, rank
<1>5. /\ \A s \in D : rank(s) \in 0..(n - 1)
      /\ \A s, t \in D : rank(s) = rank(t) => s = t
      /\ \A k \in 0..(n - 1) : \E s \in D : rank(s) = k
  BY <1>2, <1>4
<1>6. K = 0..(n - 1)
  BY <1>5
<1>7. \A k \in K : at(k) \in D /\ rank(at(k)) = k
  BY <1>5, <1>6
<1>8. \A s \in D : rank(s) \in K /\ at(rank(s)) = s
  BY <1>5, <1>6, <1>7
<1>9. new = [room EXCEPT !.host = rank(room.host), !.seats = f]
  BY DEF Compacted, D, rank
<1>10. \A k \in K : f[k] = room.seats[at(k)]
  OBVIOUS
<1>11. DOMAIN f = K /\ f = [k \in DOMAIN f |-> f[k]]
  OBVIOUS
<1> HIDE DEF K, at, f
<1>12. \A s \in D : room.seats[s] \in MemberType
  BY SeatMapFacts DEF Fits, RoomType, D
<1>13. f \in SeatMaps
  <2>1. \A k \in DOMAIN f : f[k] \in MemberType
    BY <1>7, <1>10, <1>11, <1>12
  <2>2. DOMAIN f \subseteq Nat
    BY <1>1, <1>6, <1>11
  <2> QED
    BY <1>11, <2>1, <2>2, SeatMapFacts
<1>14. rank(room.host) \in Nat
  BY <1>1, <1>5 DEF D
<1> HIDE DEF n
<1>15. new \in RoomType /\ new.seats = f
  <2>1. room \in RoomType
    BY DEF Fits
  <2> QED
    BY <1>9, <1>13, <1>14, <2>1 DEF RoomType
<1>16. \A k \in DOMAIN new.seats : at(k) \in D /\ rank(at(k)) = k /\ new.seats[k] = room.seats[at(k)]
  BY <1>7, <1>10, <1>11, <1>15
<1>17. \A s \in D : rank(s) \in DOMAIN new.seats /\ new.seats[rank(s)] = room.seats[s]
  BY <1>8, <1>10, <1>11, <1>15
<1>18. \A s \in D : rank(s) = SeatRank(room, s)
  BY DEF rank, D, SeatRank
<1> HIDE DEF rank
<1>19. DOMAIN new.seats = 0..(Cardinality(D) - 1)
  BY <1>6, <1>11, <1>15 DEF n
<1>20. D = DOMAIN room.seats
  BY DEF D
<1> QED
  BY <1>15, <1>16, <1>17, <1>18, <1>19, <1>20

\* The seats after other settings were chosen.
LEMMA SettingsRoom ==
  ASSUME NEW room, Fits(room), Apart(room), room.host \in DOMAIN room.seats, NEW s \in LobbySettings,
         Cardinality(DOMAIN room.seats) <= SizeOf[s], NEW ids, NEW shrunk,
         shrunk = IF SizeOf[s] < Size(room) THEN Compacted(room) ELSE room,
         NEW new, new = [shrunk EXCEPT !.settings = s, !.seats = Invalidate(Forget(@, ids))]
  PROVE  Reseats(new, room)
<1> DEFINE g == Invalidate(Forget(shrunk.seats, ids))
<1>1. /\ shrunk \in RoomType /\ DOMAIN shrunk.seats \subseteq 0..(SizeOf[s] - 1)
      /\ \A k \in DOMAIN shrunk.seats : \E t \in DOMAIN room.seats : shrunk.seats[k] = room.seats[t]
      /\ \A t \in DOMAIN room.seats : \E k \in DOMAIN shrunk.seats : shrunk.seats[k] = room.seats[t]
      /\ Apart(shrunk)
  <2>1. SizeOf[s] \in Nat /\ Size(room) \in Nat /\ Cardinality(DOMAIN room.seats) \in Nat
    BY FreeSeats, SizeFact, LobbyAssumption DEF Fits
  <2>2. CASE SizeOf[s] < Size(room)
    <3>1. shrunk = Compacted(room)
      BY <2>2
    <3>2. /\ shrunk \in RoomType
          /\ DOMAIN shrunk.seats = 0..(Cardinality(DOMAIN room.seats) - 1)
          /\ \A k \in DOMAIN shrunk.seats :
               \E t \in DOMAIN room.seats : SeatRank(room, t) = k /\ shrunk.seats[k] = room.seats[t]
          /\ \A t \in DOMAIN room.seats : \E k \in DOMAIN shrunk.seats : shrunk.seats[k] = room.seats[t]
      BY <3>1, CompactedFacts
    <3>3. Apart(shrunk)
      <4>1. ASSUME NEW k \in DOMAIN shrunk.seats, NEW l \in DOMAIN shrunk.seats,
                   shrunk.seats[k].account = shrunk.seats[l].account
            PROVE  k = l
        <5>1. PICK t \in DOMAIN room.seats : SeatRank(room, t) = k /\ shrunk.seats[k] = room.seats[t]
          BY <3>2
        <5>2. PICK u \in DOMAIN room.seats : SeatRank(room, u) = l /\ shrunk.seats[l] = room.seats[u]
          BY <3>2
        <5>3. t = u
          BY <4>1, <5>1, <5>2 DEF Apart
        <5> QED
          BY <5>1, <5>2, <5>3
      <4> QED
        BY <4>1 DEF Apart
    <3>4. DOMAIN shrunk.seats \subseteq 0..(SizeOf[s] - 1)
      <4>1. ASSUME NEW n \in Nat, n <= SizeOf[s]
            PROVE  0..(n - 1) \subseteq 0..(SizeOf[s] - 1)
        BY <2>1, <4>1
      <4>2. 0..(Cardinality(DOMAIN room.seats) - 1) \subseteq 0..(SizeOf[s] - 1)
        BY <2>1, <4>1
      <4> QED
        BY <3>2, <4>2
    <3> QED
      BY <3>2, <3>3, <3>4
  <2>3. CASE ~(SizeOf[s] < Size(room))
    <3>1. shrunk = room
      BY <2>3
    <3>2. DOMAIN room.seats \subseteq 0..(SizeOf[s] - 1)
      BY <2>1, <2>3 DEF Fits
    <3> QED
      BY <3>1, <3>2 DEF Fits
  <2> QED
    BY <2>2, <2>3
<1>2. /\ g \in SeatMaps /\ DOMAIN g = DOMAIN shrunk.seats
      /\ \A k \in DOMAIN g : g[k].account = shrunk.seats[k].account /\ g[k].bound = shrunk.seats[k].bound
  <2> DEFINE h == Forget(shrunk.seats, ids)
  <2>1. /\ h \in SeatMaps /\ DOMAIN h = DOMAIN shrunk.seats
        /\ \A k \in DOMAIN h : h[k].account = shrunk.seats[k].account /\ h[k].bound = shrunk.seats[k].bound
    <3>1. shrunk.seats \in SeatMaps
      BY <1>1 DEF RoomType
    <3> QED
      BY <3>1, ForgetFacts
  <2> HIDE DEF h
  <2>2. /\ Invalidate(h) \in SeatMaps /\ DOMAIN Invalidate(h) = DOMAIN h
        /\ \A k \in DOMAIN h : Invalidate(h)[k].account = h[k].account /\ Invalidate(h)[k].bound = h[k].bound
    BY <2>1, InvalidateFacts
  <2>3. g = Invalidate(h)
    BY DEF h
  <2> HIDE DEF g
  <2> QED
    BY <2>1, <2>2, <2>3
<1>3. new = [shrunk EXCEPT !.settings = s, !.seats = g]
  OBVIOUS
<1> HIDE DEF g
<1>4. new \in RoomType /\ new.seats = g /\ new.settings = s
  BY <1>1, <1>2, <1>3 DEF RoomType
<1>5. Fits(new)
  BY <1>1, <1>2, <1>4 DEF Fits, Size
<1>6. Apart(new)
  BY <1>1, <1>2, <1>4 DEF Apart
<1>s. /\ \A k \in DOMAIN new.seats : \E t \in DOMAIN room.seats :
              new.seats[k].account = room.seats[t].account /\ new.seats[k].bound = room.seats[t].bound
      /\ \A t \in DOMAIN room.seats : \E k \in DOMAIN new.seats : new.seats[k].account = room.seats[t].account
  <2>1. ASSUME NEW k \in DOMAIN new.seats
        PROVE  \E t \in DOMAIN room.seats :
                 new.seats[k].account = room.seats[t].account /\ new.seats[k].bound = room.seats[t].bound
    <3>1. PICK t \in DOMAIN room.seats : shrunk.seats[k] = room.seats[t]
      BY <1>1, <1>2, <1>4
    <3> QED
      BY <1>2, <1>4, <3>1
  <2>2. ASSUME NEW t \in DOMAIN room.seats
        PROVE  \E k \in DOMAIN new.seats : new.seats[k].account = room.seats[t].account
    <3>1. PICK k \in DOMAIN shrunk.seats : shrunk.seats[k] = room.seats[t]
      BY <1>1
    <3> QED
      BY <1>2, <1>4, <3>1
  <2> QED
    BY <2>1, <2>2
<1>7. Who(new) = Who(room)
  BY <1>s DEF Who
<1>8. \A k \in DOMAIN new.seats : new.seats[k].bound =>
        \E t \in DOMAIN room.seats : room.seats[t].account = new.seats[k].account /\ room.seats[t].bound
  BY <1>s
<1> QED
  BY <1>5, <1>6, <1>7, <1>8 DEF Reseats

\* Settings keeps the players of the room, or is refused.
LEMMA SettingsMoves ==
  ASSUME LobbyInv, NEW a \in Accounts, NEW s \in LobbySettings, Settings(a, s)
  PROVE  Moves({}) /\ Attached
<1> DEFINE r == members[a]
           room == rooms[r]
           ids == Admitted(room.seats)
           shrunk == IF SizeOf[s] < Size(room) THEN Compacted(room) ELSE room
           new == [shrunk EXCEPT !.settings = s, !.seats = Invalidate(Forget(@, ids))]
<1>1. /\ a \in DOMAIN members /\ Settled /\ room.host = SeatOf(room, a)
      /\ Cardinality(DOMAIN room.seats) <= SizeOf[s]
  BY DEF Settings, LobbyInv
<1>2. r \in DOMAIN rooms /\ Fits(room) /\ Apart(room) /\ Keeps(room, room)
  BY <1>1, KeepsSelf DEF Settled, LobbyOK, Placed, TablesOK
<1>3. room.host \in DOMAIN room.seats
  BY <1>1, <1>2, MemberSeat DEF Settled
<1>4. Attached
  BY PeersSame DEF Settings
<1>5. PICK o \in Releases(db, ids) :
        \/ MatchQueues(o.db, queues, [rooms EXCEPT ![r] = new], members)
        \/ Save(o.db, queues, [rooms EXCEPT ![r] = PartlyReleased(@, o.told)], members)
  BY DEF Settings
<1> HIDE DEF ids
<1>6. CASE MatchQueues(o.db, queues, [rooms EXCEPT ![r] = new], members)
  <2>1. shrunk = IF SizeOf[s] < Size(room) THEN Compacted(room) ELSE room
    OBVIOUS
  <2> HIDE DEF shrunk
  <2>2. new = [shrunk EXCEPT !.settings = s, !.seats = Invalidate(Forget(@, ids))]
    OBVIOUS
  <2> HIDE DEF new
  <2>3. Reseats(new, room)
    BY <1>1, <1>2, <1>3, <2>1, <2>2, SettingsRoom
  <2> DEFINE rs1 == [rooms EXCEPT ![r] = new]
  <2>4. rs1 = [rooms EXCEPT ![r] = new] /\ MatchQueues(o.db, queues, rs1, members)
    BY <1>6
  <2> HIDE DEF rs1
  <2>5. LobbyOK(queues, rs1, members) /\ \A b : IsBound(rs1, b) => IsBound(rooms, b)
    <3>1. LobbyOK(queues, rooms, members) /\ r \in DOMAIN rooms /\ Reseats(new, rooms[r])
      BY <1>1, <1>2, <2>3 DEF Settled
    <3> HIDE DEF r
    <3> QED
      BY <2>4, <3>1, Reseated
  <2> QED
    BY <1>1, <1>4, <2>4, <2>5, MatchMoves
<1>7. CASE Save(o.db, queues, [rooms EXCEPT ![r] = PartlyReleased(@, o.told)], members)
  <2> DEFINE left == PartlyReleased(room, o.told)
  <2>1. Save(o.db, queues, [rooms EXCEPT ![r] = left], members)
    BY <1>7
  <2>2. Keeps(left, room)
    BY <1>2, PartlyReleasedKeeps, ReleasingKeeps
  <2> HIDE DEF left
  <2> QED
    BY <1>1, <1>2, <1>4, <2>1, <2>2, KeptMoves
<1> QED
  BY <1>5, <1>6, <1>7

-----------------------------------------------------------------------------
(* Matches.                                                                 *)

\* The room of a member.
LEMMA MembersRoom ==
  ASSUME LobbyInv, NEW a \in DOMAIN members
  PROVE  /\ Settled /\ members[a] \in DOMAIN rooms /\ Fits(rooms[members[a]])
         /\ Keeps(rooms[members[a]], rooms[members[a]])
BY KeepsSelf DEF LobbyInv, Settled, LobbyOK, Placed, TablesOK

\* A room of the lobby fits its table and keeps its own seats.
LEMMA RoomFits ==
  ASSUME LobbyInv, NEW r \in DOMAIN rooms
  PROVE  Settled /\ Fits(rooms[r]) /\ Keeps(rooms[r], rooms[r])
BY KeepsSelf DEF LobbyInv, Settled, LobbyOK, TablesOK

\* A start that fails leaves the room as it was, with the abort to be done.
LEMMA StartFailsMoves ==
  ASSUME Settled, NEW r \in DOMAIN rooms, Fits(rooms[r]), NEW m \in MatchIds, NEW d, StartFails(d, r, rooms[r], m)
  PROVE  Moves({})
<1> DEFINE named == [rooms[r] EXCEPT !.pendingAbort = m]
<1>1. named \in RoomType /\ named.seats = rooms[r].seats /\ named.settings = rooms[r].settings
  BY DEF Fits, RoomType, MatchOrNone
<1>2. Fits(named) /\ Keeps(named, rooms[r])
  BY <1>1, FitsFields
<1>4. PICK e \in AbortPrepared(d, named) :
        Save(e.db, queues, [rooms EXCEPT ![r] = [e.room EXCEPT !.seats = Invalidate(@)]], members)
  BY DEF StartFails
<1> HIDE DEF named
<1>5. Fits(e.room) /\ Keeps(e.room, named)
  <2>1. Releasing(e.room, named)
    BY <1>2, AbortKeeps
  <2> QED
    BY <2>1, ReleasingKeeps DEF Releasing
<1> DEFINE new == [e.room EXCEPT !.seats = Invalidate(@)]
<1>6. new = [e.room EXCEPT !.seats = Invalidate(@)]
  OBVIOUS
<1>7. Save(e.db, queues, [rooms EXCEPT ![r] = new], members)
  BY <1>4
<1> HIDE DEF new
<1>8. Keeps(new, e.room)
  BY <1>5, <1>6, Invalidated, ReleasingKeeps
<1>9. Keeps(new, rooms[r])
  BY <1>2, <1>5, <1>8, KeepsTwice
<1> QED
  BY <1>7, <1>9, KeptMoves

\* Start, however far it gets, keeps the players of the room in their seats.
LEMMA StartMoves ==
  ASSUME LobbyInv, NEW a \in Accounts, Start(a)
  PROVE  Moves({}) /\ Attached
<1> DEFINE r == members[a]
           room == rooms[r]
           unused == {i \in MatchIds \ KnownMatches(rooms) : db.mat[i].state = "absent"}
<1>1. a \in DOMAIN members /\ Attached
  BY PeersSame DEF Start
<1>2. Settled /\ r \in DOMAIN rooms /\ Fits(room) /\ Keeps(room, room)
  BY <1>1, MembersRoom
<1>3. \/ \E o \in Releases(db, Admitted(room.seats)) :
           Save(o.db, queues, [rooms EXCEPT ![r] = PartlyReleased(@, o.told)], members)
      \/ \E m \in Fresh(unused, r) :
           \/ \E d : StartFails(d, r, room, m)
           \/ \E d : Save(d, queues, [rooms EXCEPT ![r] = [@ EXCEPT !.match = m, !.phase = "playing",
                                                                    !.rematching = FALSE]], members)
  BY DEF Start
<1>4. Fresh(unused, r) \subseteq MatchIds
  BY DEF Fresh
<1> HIDE DEF unused
<1>5. ASSUME NEW o, Save(o.db, queues, [rooms EXCEPT ![r] = PartlyReleased(@, o.told)], members)
      PROVE  Moves({})
  <2> DEFINE left == PartlyReleased(room, o.told)
  <2>1. Save(o.db, queues, [rooms EXCEPT ![r] = left], members)
    BY <1>5
  <2>2. Keeps(left, room)
    BY <1>2, PartlyReleasedKeeps, ReleasingKeeps
  <2> HIDE DEF left
  <2> QED
    BY <1>2, <2>1, <2>2, KeptMoves
<1>6. ASSUME NEW m \in Fresh(unused, r), NEW d, StartFails(d, r, room, m)
      PROVE  Moves({})
  BY <1>2, <1>4, <1>6, StartFailsMoves
<1>7. ASSUME NEW m \in Fresh(unused, r), NEW d,
             Save(d, queues, [rooms EXCEPT ![r] = [@ EXCEPT !.match = m, !.phase = "playing",
                                                            !.rematching = FALSE]], members)
      PROVE  Moves({})
  <2> DEFINE new == [room EXCEPT !.match = m, !.phase = "playing", !.rematching = FALSE]
  <2>1. Save(d, queues, [rooms EXCEPT ![r] = new], members)
    BY <1>7
  <2>2. new \in RoomType /\ new.seats = room.seats /\ new.settings = room.settings
    BY <1>2, <1>4 DEF Fits, RoomType, MatchOrNone
  <2> HIDE DEF new
  <2>3. Keeps(new, room)
    BY <1>2, <2>2, FitsFields
  <2> QED
    BY <1>2, <2>1, <2>3, KeptMoves
<1> QED
  BY <1>1, <1>3, <1>5, <1>6, <1>7

\* A command of a player to the engine moves nobody.
LEMMA ActionMoves ==
  ASSUME LobbyInv, NEW a \in Accounts, Action(a)
  PROVE  Moves({}) /\ Attached
<1> DEFINE r == members[a]
<1>1. a \in DOMAIN members /\ Attached
  BY PeersSame DEF Action
<1>2. Settled /\ r \in DOMAIN rooms /\ Fits(rooms[r])
  BY <1>1, MembersRoom
<1>3. PICK o \in Plays(db, rooms[r]) : Save(o.db, queues, [rooms EXCEPT ![r] = o.room], members)
  BY DEF Action
<1>4. Keeps(o.room, rooms[r])
  BY <1>2, <1>3, PlayKeeps
<1> QED
  BY <1>1, <1>2, <1>3, <1>4, KeptMoves

\* Rematch keeps the connected players of the room and frees the other seats.
LEMMA RematchMoves ==
  ASSUME LobbyInv, NEW a \in Accounts, Rematch(a)
  PROVE  Moves({}) /\ Attached
<1> DEFINE r == members[a]
           room == rooms[r]
           stay == {s \in DOMAIN room.seats : Connected(room.seats[s])}
           gone == {room.seats[s].account : s \in DOMAIN room.seats \ stay}
           f == [s \in stay |-> [room.seats[s] EXCEPT !.admission = None, !.ready = FALSE]]
           again == [room EXCEPT !.match = None, !.phase = "lobby", !.rematching = TRUE,
                       !.seats = [s \in stay |-> [@[s] EXCEPT !.admission = None, !.ready = FALSE]]]
           ms2 == [b \in DOMAIN members \ gone |-> members[b]]
<1>1. a \in DOMAIN members /\ Attached
  BY PeersSame DEF Rematch
<1>2. Settled /\ r \in DOMAIN rooms /\ Fits(room)
  BY <1>1, MembersRoom, SMTT(30)
<1>3. PICK h \in IF room.path = "quick_play" THEN Lowest(stay \cup {Size(room)})
                 ELSE IF room.host \in stay THEN {room.host} ELSE Elect(again) :
        MatchQueues(db, queues, [rooms EXCEPT ![r] = [again EXCEPT !.host = h]], ms2)
  BY DEF Rematch
<1>4. stay \subseteq DOMAIN room.seats
  OBVIOUS
<1>5. /\ room \in RoomType /\ room.host \in Nat /\ Size(room) \in Nat /\ DOMAIN room.seats \subseteq Nat
      /\ \A s \in DOMAIN room.seats : room.seats[s] \in MemberType
      /\ DOMAIN room.seats \subseteq 0..(Size(room) - 1)
  <2>1. room \in RoomType /\ room.seats \in SeatMaps
    BY <1>2, SMTT(30) DEF Fits, RoomType
  <2> QED
    BY <1>2, <2>1, SizeFact, SeatMapFacts DEF Fits, RoomType
<1> HIDE DEF stay
<1>6. DOMAIN f = stay /\ \A s \in stay : /\ f[s] \in MemberType
                                         /\ f[s].account = room.seats[s].account /\ f[s].bound = room.seats[s].bound
  BY <1>4, <1>5, ZenonT(60) DEF MemberType
<1>7. f \in SeatMaps
  <2>1. f = [s \in DOMAIN f |-> f[s]] /\ DOMAIN f \subseteq Nat /\ \A s \in DOMAIN f : f[s] \in MemberType
    BY <1>4, <1>5, <1>6
  <2> HIDE DEF f
  <2> QED
    BY <2>1, SeatMapFacts
<1>8. again = [room EXCEPT !.match = None, !.phase = "lobby", !.rematching = TRUE, !.seats = f]
  OBVIOUS
<1> HIDE DEF f, again
<1>9. again \in RoomType /\ again.seats = f /\ again.host = room.host /\ again.settings = room.settings
  BY <1>5, <1>7, <1>8 DEF RoomType, MatchOrNone
<1>10. h \in Nat
  <2>1. Lowest(stay \cup {Size(room)}) \subseteq Nat
    BY <1>4, <1>5 DEF Lowest
  <2>2. Elect(again) \subseteq Nat
    BY <1>4, <1>5, <1>6, <1>9 DEF Elect
  <2> QED
    BY <1>3, <1>5, <2>1, <2>2
<1> DEFINE new == [again EXCEPT !.host = h]
<1>11. new \in RoomType /\ new.seats = f /\ new.settings = room.settings
  BY <1>9, <1>10 DEF RoomType
<1> DEFINE rs2 == [rooms EXCEPT ![r] = new]
<1>12. MatchQueues(db, queues, rs2, ms2)
  BY <1>3
<1> HIDE DEF new
<1>13. Fits(new)
  BY <1>4, <1>5, <1>6, <1>11 DEF Fits, Size
<1>14. DOMAIN rs2 = DOMAIN rooms /\ rs2[r] = new /\ \A x \in DOMAIN rooms \ {r} : rs2[x] = rooms[x]
  BY <1>2
<1>15. DOMAIN ms2 = DOMAIN members \ gone /\ \A b \in DOMAIN ms2 : ms2[b] = members[b]
  OBVIOUS
<1>16. gone = {room.seats[s].account : s \in DOMAIN room.seats \ stay}
  OBVIOUS
<1> HIDE DEF rs2, ms2, gone
<1>17. Evicts(r, rooms, members, stay, gone, rs2, ms2)
  BY <1>4, <1>6, <1>11, <1>13, <1>14, <1>15, <1>16 DEF Evicts
<1> QED
  BY <1>1, <1>2, <1>12, <1>17, EvictMatchMoves

-----------------------------------------------------------------------------
(* tick, drain and close.                                                   *)

\* The retry of an abort that failed moves nobody.
LEMMA TickAbortsMoves ==
  ASSUME LobbyInv, NEW r \in DOMAIN rooms, NEW ok, TickAborts(r, ok)
  PROVE  Moves({}) /\ Attached
<1>1. PICK o \in AbortPrepared(db, rooms[r]) : Save(o.db, queues, [rooms EXCEPT ![r] = o.room], members)
  BY DEF TickAborts
<1>2. Settled /\ Fits(rooms[r])
  BY RoomFits
<1>3. Releasing(o.room, rooms[r])
  BY <1>1, <1>2, AbortKeeps
<1>4. Keeps(o.room, rooms[r])
  BY <1>3, ReleasingKeeps
<1> QED
  BY <1>1, <1>2, <1>4, KeptMoves, PeersSame DEF TickAborts

\* The clock of a match moves nobody, but prunes who is gone when it has ended.
LEMMA TickAdvancesMoves ==
  ASSUME LobbyInv, NEW r \in DOMAIN rooms, TickAdvances(r)
  PROVE  Moves({}) /\ Attached
<1>1. PICK o \in Plays(db, rooms[r]) :
        IF o.ok THEN Save(o.db, queues, Pruned(rooms, r, o.room, members).rooms,
                          Pruned(rooms, r, o.room, members).members)
        ELSE Save(o.db, queues, [rooms EXCEPT ![r] = o.room], members)
  BY DEF TickAdvances
<1>2. Settled /\ Fits(rooms[r])
  BY RoomFits
<1>3. Keeps(o.room, rooms[r])
  BY <1>1, <1>2, PlayKeeps
<1>4. CASE o.ok
  <2> DEFINE after == Pruned(rooms, r, o.room, members)
  <2>1. Save(o.db, queues, after.rooms, after.members)
    BY <1>1, <1>4
  <2>2. after = Pruned(rooms, r, o.room, members)
    OBVIOUS
  <2> HIDE DEF after
  <2>3. Moves({})
    BY <1>2, <1>3, <2>1, <2>2, PrunedMoves
  <2> QED
    BY <2>3, PeersSame DEF TickAdvances
<1>5. CASE ~o.ok
  <2>1. Save(o.db, queues, [rooms EXCEPT ![r] = o.room], members)
    BY <1>1, <1>5
  <2> QED
    BY <1>2, <1>3, <2>1, KeptMoves, PeersSame DEF TickAdvances
<1> QED
  BY <1>4, <1>5

\* pruneFinishedRoom frees the seats of who is gone, and seats nobody.
LEMMA TickPrunesMoves ==
  ASSUME LobbyInv, NEW r \in DOMAIN rooms, TickPrunes(r)
  PROVE  Moves({}) /\ Attached
<1> DEFINE after == Pruned(rooms, r, rooms[r], members)
<1>1. Save(db, queues, after.rooms, after.members)
  BY DEF TickPrunes
<1>2. Settled /\ Keeps(rooms[r], rooms[r])
  BY RoomFits
<1>3. after = Pruned(rooms, r, rooms[r], members)
  OBVIOUS
<1> HIDE DEF after
<1>4. Moves({})
  BY <1>1, <1>2, <1>3, PrunedMoves
<1> QED
  BY <1>4, PeersSame DEF TickPrunes

\* drain gives the reservations of a room back and keeps its players seated.
LEMMA DrainRoomMoves ==
  ASSUME LobbyInv, NEW r \in DOMAIN rooms, NEW ok, DrainRoom(r, ok)
  PROVE  Moves({}) /\ Attached
<1>1. PICK o : Save(o.db, queues, [rooms EXCEPT ![r] = PartlyReleased(@, o.told)], members)
  BY DEF DrainRoom
<1> DEFINE left == PartlyReleased(rooms[r], o.told)
<1>2. Settled /\ Fits(rooms[r])
  BY RoomFits
<1>3. Save(o.db, queues, [rooms EXCEPT ![r] = left], members)
  BY <1>1
<1>4. Keeps(left, rooms[r])
  BY <1>2, PartlyReleasedKeeps, ReleasingKeeps
<1> HIDE DEF left
<1> QED
  BY <1>2, <1>3, <1>4, KeptMoves, PeersSame DEF DrainRoom

\* Close ends the match of a room or gives its reservations back: nobody moves.
LEMMA CloseRoomMoves ==
  ASSUME LobbyInv, NEW r \in DOMAIN rooms, CloseRoom(r)
  PROVE  Moves({}) /\ Attached
<1>1. Settled /\ Fits(rooms[r])
  BY RoomFits
<1>2. CASE rooms[r].match # None
  <2>1. PICK o \in IF rooms[r].phase = "playing" THEN Ends(db, rooms[r], "interrupting") ELSE Plays(db, rooms[r]) :
          Save(o.db, queues, [rooms EXCEPT ![r] = o.room], members)
    BY <1>2 DEF CloseRoom
  <2>2. Keeps(o.room, rooms[r])
    <3>1. CASE o \in Ends(db, rooms[r], "interrupting")
      BY <1>1, <3>1, EndKeeps
    <3>2. CASE o \in Plays(db, rooms[r])
      BY <1>1, <3>2, PlayKeeps
    <3> QED
      BY <2>1, <3>1, <3>2
  <2> QED
    BY <1>1, <2>1, <2>2, KeptMoves, PeersSame DEF CloseRoom
<1>3. CASE rooms[r].match = None
  <2>1. PICK o : Save(o.db, queues, [rooms EXCEPT ![r].seats = Forget(@, o.told)], members)
    BY <1>3 DEF CloseRoom
  <2> DEFINE left == [rooms[r] EXCEPT !.seats = Forget(@, o.told)]
  <2>2. Save(o.db, queues, [rooms EXCEPT ![r] = left], members)
    BY <2>1
  <2>3. left = [rooms[r] EXCEPT !.seats = Forget(@, o.told)]
    OBVIOUS
  <2> HIDE DEF left
  <2>4. Releasing(left, rooms[r])
    BY <1>1, <2>3, Forgotten
  <2>5. Keeps(left, rooms[r])
    BY <2>4, ReleasingKeeps
  <2> QED
    BY <1>1, <2>2, <2>5, KeptMoves, PeersSame DEF CloseRoom
<1> QED
  BY <1>2, <1>3

\* What tick, drain and Close do to a room that no operation fences.
LEMMA RoomStepMoves ==
  ASSUME LobbyInv, NEW r \in DOMAIN rooms, RoomStep(r)
  PROVE  Moves({}) /\ Attached
<1>1. ASSUME NEW ok \in BOOLEAN, TickAborts(r, ok) \/ DrainRoom(r, ok)
      PROVE  Moves({}) /\ Attached
  BY <1>1, TickAbortsMoves, DrainRoomMoves
<1>2. CASE TickAdvances(r)
  BY <1>2, TickAdvancesMoves
<1>3. CASE TickPrunes(r)
  BY <1>3, TickPrunesMoves
<1>4. CASE CloseRoom(r)
  BY <1>4, CloseRoomMoves
<1> QED
  BY <1>1, <1>2, <1>3, <1>4 DEF RoomStep

\* Drain begins: the flag is set and nobody moves.
LEMMA DrainMoves ==
  ASSUME LobbyInv, Drain
  PROVE  Moves({}) /\ Attached
<1>1. Settled /\ UNCHANGED <<peers, queues, rooms, members>>
  BY DEF LobbyInv, Drain
<1> QED
  BY <1>1, StaysMoves, PeersSame

\* No entries are a queue.
LEMMA NobodyWaits == QueueOK(<<>>)
<1>1. DOMAIN <<>> = {} /\ IsFiniteSet({})
  BY FS_EmptySet
<1> QED
  BY <1>1 DEF QueueOK, Ordered

\* Close at its end empties the queues and closes every connection.
LEMMA CloseDoneMoves ==
  ASSUME LobbyInv, CloseDone
  PROVE  Moves({}) /\ Attached
<1>1. Settled /\ peers' = [a \in DOMAIN peers |-> "closed"] /\ Save(db, <<>>, rooms, members)
  BY DEF LobbyInv, CloseDone
<1>2. DOMAIN <<>> \cap DOMAIN members = {}
  BY NoSeats
<1>3. Moves({})
  BY <1>1, <1>2, NobodyWaits, QueueMoves
<1>4. Attached
  BY <1>1, PeersStay
<1> QED
  BY <1>3, <1>4

\* What a player commands.
LEMMA CommandMoves ==
  ASSUME LobbyInv, NEW a \in Accounts, CommandStep(a)
  PROVE  (Moves({}) \/ (Moves({a}) /\ a \in DOMAIN members /\ Current(a) /\ \E r : Rejoin(a, r))) /\ Attached
<1>1. ASSUME NEW s \in LobbySettings, QueueJoin(a, s) \/ Create(a, s) \/ Settings(a, s)
      PROVE  Moves({}) /\ Attached
  BY <1>1, QueueJoinMoves, CreateMoves, SettingsMoves
<1>2. ASSUME NEW r \in DOMAIN rooms, Join(a, r)
      PROVE  Moves({}) /\ Attached
  BY <1>2, JoinMoves
<1>3. ASSUME NEW r \in DOMAIN rooms, Rejoin(a, r)
      PROVE  Moves({a}) /\ Attached /\ a \in DOMAIN members /\ Current(a)
  BY <1>3, RejoinMoves DEF Rejoin
<1>4. CASE QueueLeave(a) \/ Ready(a)
  BY <1>4, QueueLeaveMoves, ReadyMoves
<1>5. CASE Start(a) \/ Action(a) \/ Rematch(a)
  BY <1>5, StartMoves, ActionMoves, RematchMoves
<1> QED
  BY <1>1, <1>2, <1>3, <1>4, <1>5 DEF CommandStep

\* Whatever a connection does.
LEMMA ConnectionMoves ==
  ASSUME LobbyInv, NEW a, ConnectionStep(a)
  PROVE  Moves({}) /\ Attached
<1>1. ASSUME NEW ok \in BOOLEAN, Disconnect(a, ok)
      PROVE  Moves({}) /\ Attached
  BY <1>1, DisconnectMoves
<1> QED
  BY <1>1, OpenMoves, LeaveMoves DEF ConnectionStep

\* Every step of the lobby keeps who sits where.
LEMMA LobbyNext ==
  ASSUME LobbyInv, Next
  PROVE  LobbyInv'
<1>1. ASSUME NEW a \in Accounts, PeerCloses(a) \/ ConnectionStep(a) \/ QueueStep(a)
      PROVE  LobbyInv'
  <2>1. Moves({}) /\ Attached
    BY <1>1, PeerClosesMoves, ConnectionMoves, QueueStepMoves
  <2> QED
    BY <2>1, StepInv
<1>2. ASSUME NEW a \in Accounts, CommandStep(a)
      PROVE  LobbyInv'
  BY <1>2, CommandMoves, StepInv
<1>3. ASSUME NEW r \in DOMAIN rooms, RoomStep(r)
      PROVE  LobbyInv'
  BY <1>3, RoomStepMoves, StepInv
<1>4. CASE Drain
  BY <1>4, DrainMoves, StepInv
<1>5. CASE CloseDone
  BY <1>5, CloseDoneMoves, StepInv
<1> QED
  BY <1>1, <1>2, <1>3, <1>4, <1>5 DEF Next

\* Nobody sits anywhere at first.
LEMMA EmptyLobby == LobbyOK(<<>>, <<>>, <<>>) /\ \A a : ~IsBound(<<>>, a)
<1>1. QueueOK(<<>>) /\ DOMAIN <<>> = {}
  BY NobodyWaits, NoSeats
<1>2. TablesOK(<<>>) /\ Placed(<<>>, <<>>) /\ \A a : ~IsBound(<<>>, a)
  BY <1>1 DEF TablesOK, Placed, IsBound
<1> QED
  BY <1>1, <1>2 DEF LobbyOK

\* Who sits on one seat, sits on one seat.
LEMMA LobbySeatedOnce ==
  ASSUME LobbyInv
  PROVE  SeatedOnce
<1>1. TablesOK(rooms) /\ Placed(rooms, members) /\ DOMAIN queues \cap DOMAIN members = {}
  BY DEF LobbyInv, Settled, LobbyOK
<1>2. SUFFICES ASSUME NEW a \in Accounts
               PROVE  LET seats == UNION {{<<r, s>> : s \in {t \in DOMAIN rooms[r].seats :
                                                rooms[r].seats[t].account = a}} : r \in DOMAIN rooms}
                      IN /\ Cardinality(seats) + Cardinality({a} \cap DOMAIN queues) <= 1
                         /\ (a \in DOMAIN members) = (seats # {})
                         /\ \A x \in seats : members[a] = x[1]
  BY DEF SeatedOnce
<1> DEFINE seats == UNION {{<<r, s>> : s \in {t \in DOMAIN rooms[r].seats :
                                                rooms[r].seats[t].account = a}} : r \in DOMAIN rooms}
<1>3. \A x : x \in seats <=> \E r \in DOMAIN rooms : \E s \in DOMAIN rooms[r].seats :
                               x = <<r, s>> /\ rooms[r].seats[s].account = a
  OBVIOUS
<1> HIDE DEF seats
<1>4. ASSUME NEW r \in DOMAIN rooms, NEW s \in DOMAIN rooms[r].seats, rooms[r].seats[s].account = a
      PROVE  a \in DOMAIN members /\ members[a] = r
  BY <1>1, <1>4 DEF Placed, Who
<1>5. CASE a \notin DOMAIN members
  <2>1. seats = {}
    BY <1>3, <1>4, <1>5
  <2>2. Cardinality(seats) = 0
    BY <2>1, FS_EmptySet
  <2>3. Cardinality({a} \cap DOMAIN queues) \in {0, 1}
    <3>1. {a} \cap DOMAIN queues = {} \/ {a} \cap DOMAIN queues = {a}
      OBVIOUS
    <3> QED
      BY <3>1, FS_EmptySet, FS_Singleton
  <2>4. Cardinality(seats) + Cardinality({a} \cap DOMAIN queues) <= 1
    BY <2>2, <2>3
  <2> QED
    BY <1>5, <2>1, <2>4 DEF seats
<1>6. CASE a \in DOMAIN members
  <2> DEFINE r == members[a]
  <2>1. r \in DOMAIN rooms /\ a \in Who(rooms[r]) /\ Apart(rooms[r])
    BY <1>1, <1>6 DEF Placed, TablesOK
  <2>2. PICK s \in DOMAIN rooms[r].seats : rooms[r].seats[s].account = a
    BY <2>1, WhoFacts
  <2>3. ASSUME NEW x
        PROVE  x \in seats <=> x = <<r, s>>
    <3>1. ASSUME NEW r2 \in DOMAIN rooms, NEW s2 \in DOMAIN rooms[r2].seats, rooms[r2].seats[s2].account = a
          PROVE  r2 = r /\ s2 = s
      BY <1>4, <2>1, <2>2, <3>1 DEF Apart
    <3> QED
      BY <1>3, <2>1, <2>2, <3>1
  <2>4. seats = {<<r, s>>}
    BY <2>3
  <2>5. Cardinality(seats) = 1
    BY <2>4, FS_Singleton
  <2>6. {a} \cap DOMAIN queues = {}
    BY <1>1, <1>6
  <2>7. Cardinality({a} \cap DOMAIN queues) = 0
    BY <2>6, FS_EmptySet
  <2>8. Cardinality(seats) + Cardinality({a} \cap DOMAIN queues) <= 1
    BY <2>5, <2>7
  <2>9. \A x \in seats : members[a] = x[1]
    BY <2>4
  <2>10. (a \in DOMAIN members) = (seats # {})
    BY <1>6, <2>4
  <2> QED
    BY <2>8, <2>9, <2>10 DEF seats
<1> QED
  BY <1>5, <1>6

\* An account sits on one seat of one room, exactly when m.members says so, and
\* never waits in a queue at the same time: for every number of accounts, rooms
\* and table sizes, whatever calls fail and whichever answers are lost
\* (TextManager under m.mu).
THEOREM LobbySeatsOnce == Spec => []SeatedOnce
<1>1. Init => LobbyInv
  BY EmptyLobby DEF Init, LobbyInv, Settled
<1>2. LobbyInv /\ [Next]_vars => LobbyInv'
  <2>1. LobbyInv /\ UNCHANGED vars => LobbyInv'
    <3> SUFFICES ASSUME LobbyInv, UNCHANGED vars PROVE LobbyInv'
      OBVIOUS
    <3>1. Moves({}) /\ Attached
      BY StaysMoves, PeersSame DEF LobbyInv, vars
    <3> QED
      BY <3>1, StepInv
  <2> QED
    BY <2>1, LobbyNext
<1>3. LobbyInv => SeatedOnce
  BY LobbySeatedOnce
<1> QED
  BY <1>1, <1>2, <1>3, PTL DEF Spec

-----------------------------------------------------------------------------
(* The durable rows: what the queues and the rooms know of them.            *)
-----------------------------------------------------------------------------
(* The rows behind the rooms.                                               *)

AdmissionRow ==
  [state : {"absent", "reserved", "started", "released", "compensated"},
   account : Accounts \cup {None}, owner : {Owner, None}, match : MatchOrNone,
   kind : {"none", "pass"}, day : {1, None}]

MatchRow ==
  [state : {"absent", "prepared", "started", "cancelled", "interrupted", "completed"},
   owner : {Owner, None}]

NoCount == [a \in Accounts |-> [d \in {1} |-> 0]]

RowTypes(d) ==
  d \in [adm : [AdmissionIds -> AdmissionRow], mat : [MatchIds -> MatchRow], count : {NoCount}]

\* The state of the admissions of a match, by the state of its row.
Follows(state) ==
  CASE state = "prepared" -> "reserved" [] state = "started" -> "started"
    [] state = "interrupted" -> "compensated" [] OTHER -> "released"

LinksOK(d) ==
  /\ \A m \in MatchIds : d.mat[m].state # "absent" => d.mat[m].owner = Owner
  /\ \A id \in AdmissionIds :
       /\ d.adm[id].state # "absent" => d.adm[id].account \in Accounts
       /\ d.adm[id].state \in {"reserved", "started"} => d.adm[id].owner = Owner
       /\ d.adm[id].match = None => d.adm[id].state \in {"absent", "reserved", "released"}
       /\ d.adm[id].match # None => /\ d.mat[d.adm[id].match].state # "absent"
                                    /\ d.adm[id].state = Follows(d.mat[d.adm[id].match].state)

RowsOK(d) == RowTypes(d) /\ LinksOK(d)

\* The rows of a new store.
LEMMA EmptyRows == RowsOK(Values!EmptyStore)
<1> DEFINE d == Values!EmptyStore
<1>1. /\ d.adm = [id \in AdmissionIds |-> Values!NoAdmission] /\ d.mat = [m \in MatchIds |-> Values!NoMatch]
      /\ d.count = NoCount /\ d = [adm |-> d.adm, mat |-> d.mat, count |-> d.count]
  BY DEF Values!EmptyStore, NoCount
<1>2. Values!NoAdmission \in AdmissionRow /\ Values!NoMatch \in MatchRow
  BY DEF Values!NoAdmission, Values!NoMatch, AdmissionRow, MatchRow, MatchOrNone
<1> HIDE DEF d
<1>3. RowTypes(d)
  BY <1>1, <1>2 DEF RowTypes
<1>4. LinksOK(d)
  BY <1>1 DEF LinksOK, Values!NoAdmission, Values!NoMatch
<1> QED
  BY <1>3, <1>4 DEF RowsOK, d

\* The fields of the rows.
LEMMA RowFacts ==
  ASSUME NEW d, RowTypes(d)
  PROVE  /\ d = [adm |-> d.adm, mat |-> d.mat, count |-> d.count]
         /\ d.adm \in [AdmissionIds -> AdmissionRow] /\ d.mat \in [MatchIds -> MatchRow] /\ d.count = NoCount
         /\ \A id \in AdmissionIds : d.adm[id] \in AdmissionRow /\ d.adm[id].match \in MatchIds \cup {None}
         /\ \A m \in MatchIds : d.mat[m] \in MatchRow
BY DEF RowTypes, AdmissionRow, MatchOrNone

\* A new reservation is the only row that Reserve changes.
LEMMA ReservedRow ==
  ASSUME NEW d, RowsOK(d), NEW id \in AdmissionIds, d.adm[id].state = "absent", NEW a \in Accounts,
         NEW d2, d2 = Values!Reserve(d, id, a, Owner, "pass", 1)
  PROVE  /\ RowsOK(d2) /\ d2.mat = d.mat
         /\ d2.adm[id].account = a /\ d2.adm[id].match = None /\ d2.adm[id].state = "reserved"
         /\ \A i \in AdmissionIds \ {id} : d2.adm[i] = d.adm[i]
<1> DEFINE new == [state |-> "reserved", account |-> a, owner |-> Owner, match |-> None,
                   kind |-> "pass", day |-> 1]
<1>1. RowTypes(d) /\ LinksOK(d)
  BY DEF RowsOK
<1>2. new \in AdmissionRow
  BY DEF AdmissionRow, MatchOrNone
<1>3. new.state = "reserved" /\ new.account = a /\ new.owner = Owner /\ new.match = None
  OBVIOUS
<1>4. d2 = [d EXCEPT !.adm = [d.adm EXCEPT ![id] = new]]
  BY <1>1, RowFacts DEF Values!Reserve
<1> HIDE DEF new
<1>5. d2.adm = [d.adm EXCEPT ![id] = new] /\ d2.mat = d.mat /\ d2 \in [adm : [AdmissionIds -> AdmissionRow], mat : [MatchIds -> MatchRow], count : {NoCount}]
  BY <1>1, <1>2, <1>4, RowFacts
<1>6. d2.adm[id] = new /\ \A i \in AdmissionIds \ {id} : d2.adm[i] = d.adm[i]
  BY <1>1, <1>5, RowFacts
<1>7. LinksOK(d2)
  BY <1>1, <1>3, <1>5, <1>6 DEF LinksOK
<1> QED
  BY <1>3, <1>5, <1>6, <1>7 DEF RowsOK, RowTypes

\* What a transaction may do to the rows: it touches the rows of the matches M
\* and, apart from the admissions ids, neither links an admission nor opens one.
RowsKept(d, d2, ids, M) ==
  /\ \A m \in MatchIds \ M : d2.mat[m] = d.mat[m]
  /\ \A id \in AdmissionIds \ ids :
       /\ d.adm[id].state # "absent" => /\ d2.adm[id].account = d.adm[id].account
                                        /\ d2.adm[id].match = d.adm[id].match
                                        /\ d2.adm[id].state # "absent"
       /\ d2.adm[id].state = "reserved" => d.adm[id].state = "reserved"

\* No change, and two changes after another.
LEMMA RowsSame == ASSUME NEW d, NEW ids, NEW M PROVE RowsKept(d, d, ids, M)
BY DEF RowsKept

\* Two steps in turn keep what each keeps.
LEMMA RowsTwice ==
  ASSUME NEW d, NEW d2, NEW d3, NEW ids, NEW M, RowsKept(d, d2, ids, M), RowsKept(d2, d3, {}, M)
  PROVE  RowsKept(d, d3, ids, M)
BY DEF RowsKept

\* CancelReservation of each of ids, with any answers.
LEMMA ReleasedRows ==
  ASSUME NEW d, RowsOK(d), NEW ids \in SUBSET AdmissionIds, NEW o \in Releases(d, ids)
  PROVE  /\ RowsOK(o.db) /\ o.db.mat = d.mat /\ RowsKept(d, o.db, {}, {}) /\ o.told \subseteq ids
         /\ \A id \in o.told : o.db.adm[id].state = "released" /\ o.db.adm[id].match = None
<1> DEFINE may  == {id \in ids : Values!MayCancelReservation(d, id, Owner)}
           gone == AlreadyReleased(d, ids)
           after(done) == [id \in AdmissionIds |->
                             IF id \in done THEN Values!CancelReservation(d, id).adm[id] ELSE d.adm[id]]
<1>1. RowTypes(d) /\ LinksOK(d)
  BY DEF RowsOK
<1>a. PICK done \in SUBSET may : \E told \in SUBSET (done \cup gone) :
        o = [db |-> [d EXCEPT !.adm = after(done)], done |-> done, told |-> told]
  BY DEF Releases
<1>2. PICK told \in SUBSET (done \cup gone) :
        o = [db |-> [d EXCEPT !.adm = after(done)], done |-> done, told |-> told]
  BY <1>a
<1>3. o.db = [d EXCEPT !.adm = after(done)] /\ o.told = told
  BY <1>2
<1>4. \A id \in AdmissionIds : Values!CancelReservation(d, id).adm[id] = [d.adm[id] EXCEPT !.state = "released"]
  BY <1>1, RowFacts DEF Values!CancelReservation
<1>5. \A id \in done : /\ id \in ids /\ d.adm[id].state = "reserved" /\ d.adm[id].match = None
  BY DEF Values!MayCancelReservation
<1>6. ASSUME NEW id \in AdmissionIds
      PROVE  /\ after(done)[id] \in AdmissionRow
             /\ after(done)[id].account = d.adm[id].account /\ after(done)[id].match = d.adm[id].match
             /\ after(done)[id].owner = d.adm[id].owner
             /\ IF id \in done THEN after(done)[id].state = "released"
                ELSE after(done)[id].state = d.adm[id].state
  <2>1. d.adm[id] \in AdmissionRow
    BY <1>1, RowFacts
  <2>2. [d.adm[id] EXCEPT !.state = "released"] \in AdmissionRow
        /\ [d.adm[id] EXCEPT !.state = "released"].state = "released"
        /\ [d.adm[id] EXCEPT !.state = "released"].account = d.adm[id].account
        /\ [d.adm[id] EXCEPT !.state = "released"].match = d.adm[id].match
        /\ [d.adm[id] EXCEPT !.state = "released"].owner = d.adm[id].owner
    BY <2>1 DEF AdmissionRow
  <2> QED
    BY <1>4, <2>1, <2>2
<1>7. after(done) \in [AdmissionIds -> AdmissionRow]
  BY <1>6
<1> DEFINE adm2 == after(done)
<1>8. adm2 = after(done) /\ o.db = [d EXCEPT !.adm = adm2]
  BY <1>3
<1> HIDE DEF after, may, adm2
<1>9. o.db.adm = adm2 /\ o.db.mat = d.mat /\ RowTypes(o.db)
  BY <1>1, <1>7, <1>8, RowFacts DEF RowTypes
<1>10. RowsKept(d, o.db, {}, {})
  BY <1>5, <1>6, <1>8, <1>9 DEF RowsKept
<1>11. LinksOK(o.db)
  BY <1>1, <1>5, <1>6, <1>8, <1>9 DEF LinksOK
<1>12. \A id \in told : id \in ids /\ adm2[id].state = "released" /\ adm2[id].match = None
  BY <1>5, <1>6, <1>8 DEF AlreadyReleased
<1> QED
  BY <1>3, <1>9, <1>10, <1>11, <1>12 DEF RowsOK

\* The admissions of match m, and no others, have state st.
Sets(d, adm2, m, st) ==
  /\ adm2 \in [AdmissionIds -> AdmissionRow]
  /\ \A id \in AdmissionIds : d.adm[id].match # m => adm2[id] = d.adm[id]
  /\ \A id \in AdmissionIds : d.adm[id].match = m =>
       /\ adm2[id].account = d.adm[id].account /\ adm2[id].match = d.adm[id].match
       /\ adm2[id].owner = d.adm[id].owner /\ adm2[id].state = st

\* Closed gives every row of the match its new state, and no other.
LEMMA ClosedSets ==
  ASSUME NEW d, RowsOK(d), NEW m, NEW st \in {"started", "released", "compensated"}
  PROVE  Sets(d, Values!Closed(d.adm, m, st), m, st)
<1> DEFINE adm2 == Values!Closed(d.adm, m, st)
<1>1. RowTypes(d)
  BY DEF RowsOK
<1>2. adm2 = [id \in AdmissionIds |-> IF d.adm[id].match = m THEN [d.adm[id] EXCEPT !.state = st] ELSE d.adm[id]]
  BY DEF Values!Closed
<1> HIDE DEF adm2
<1>3. ASSUME NEW id \in AdmissionIds
      PROVE  /\ adm2[id] \in AdmissionRow
             /\ d.adm[id].match # m => adm2[id] = d.adm[id]
             /\ d.adm[id].match = m =>
                  /\ adm2[id].account = d.adm[id].account /\ adm2[id].match = d.adm[id].match
                  /\ adm2[id].owner = d.adm[id].owner /\ adm2[id].state = st
  <2>1. d.adm[id] \in AdmissionRow
    BY <1>1, RowFacts
  <2>2. adm2[id] = IF d.adm[id].match = m THEN [d.adm[id] EXCEPT !.state = st] ELSE d.adm[id]
    BY <1>2
  <2>3. /\ [d.adm[id] EXCEPT !.state = st] \in AdmissionRow /\ [d.adm[id] EXCEPT !.state = st].state = st
        /\ [d.adm[id] EXCEPT !.state = st].account = d.adm[id].account
        /\ [d.adm[id] EXCEPT !.state = st].match = d.adm[id].match
        /\ [d.adm[id] EXCEPT !.state = st].owner = d.adm[id].owner
    BY <2>1 DEF AdmissionRow
  <2> QED
    BY <2>1, <2>2, <2>3
<1>4. adm2 = [id \in AdmissionIds |-> adm2[id]]
  BY <1>2
<1>5. Sets(d, adm2, m, st)
  BY <1>3, <1>4 DEF Sets
<1> QED
  BY <1>5 DEF adm2

\* The row of match m with another state.
MatchState(mat, m, st) == [mat EXCEPT ![m].state = st]

\* A transaction about a match that is open sets its row, and its admissions
\* follow.
LEMMA MatchSet ==
  ASSUME NEW d, RowsOK(d), NEW m \in MatchIds, d.mat[m].state \in {"prepared", "started"},
         NEW st \in {"started", "cancelled", "interrupted", "completed"},
         NEW adm2, Sets(d, adm2, m, Follows(st)),
         NEW d2, d2 = [adm |-> adm2, mat |-> MatchState(d.mat, m, st), count |-> NoCount]
  PROVE  RowsOK(d2) /\ RowsKept(d, d2, {}, {m}) /\ d2.mat[m].state = st
<1>a. RowTypes(d) /\ LinksOK(d) /\ d2.adm = adm2 /\ d2.mat = [d.mat EXCEPT ![m].state = st]
  BY DEF RowsOK, MatchState
<1>b. d.mat[m] \in MatchRow /\ d.mat \in [MatchIds -> MatchRow] /\ d.mat[m].owner = Owner
  BY <1>a, RowFacts DEF LinksOK
<1>c. [d.mat[m] EXCEPT !.state = st] \in MatchRow /\ [d.mat[m] EXCEPT !.state = st].state = st
      /\ [d.mat[m] EXCEPT !.state = st].owner = Owner
  BY <1>b DEF MatchRow
<1>d. d2.mat \in [MatchIds -> MatchRow] /\ d2.mat[m].state = st /\ d2.mat[m].owner = Owner
      /\ \A n \in MatchIds \ {m} : d2.mat[n] = d.mat[n]
  BY <1>a, <1>b, <1>c
<1>e. /\ d2.adm \in [AdmissionIds -> AdmissionRow]
      /\ \A id \in AdmissionIds : d.adm[id].match # m => d2.adm[id] = d.adm[id]
      /\ \A id \in AdmissionIds : d.adm[id].match = m =>
           /\ d2.adm[id].account = d.adm[id].account /\ d2.adm[id].match = d.adm[id].match
           /\ d2.adm[id].owner = d.adm[id].owner /\ d2.adm[id].state = Follows(st)
  BY <1>a DEF Sets
<1>1. RowTypes(d2) /\ RowTypes(d) /\ LinksOK(d)
  BY <1>a, <1>d, <1>e DEF RowTypes
<1>f. /\ Follows("prepared") = "reserved" /\ Follows("started") = "started"
      /\ Follows(st) # "absent" /\ Follows(st) # "reserved"
  BY DEF Follows
<1> HIDE DEF Follows
<1>6. RowsKept(d, d2, {}, {m})
  BY <1>d, <1>e, <1>f DEF RowsKept
<1>7. \A id \in AdmissionIds : d.adm[id].match = m => d.adm[id].owner = Owner
  <2>1. ASSUME NEW id \in AdmissionIds, d.adm[id].match = m PROVE d.adm[id].state \in {"reserved", "started"}
    <3>1. m # None
      BY LobbyAssumption
    <3> QED
      BY <1>1, <1>f, <2>1, <3>1 DEF LinksOK
  <2> QED
    BY <1>1, <2>1 DEF LinksOK
<1>8. LinksOK(d2)
  <2>1. \A n \in MatchIds : d2.mat[n].state # "absent" => d2.mat[n].owner = Owner
    BY <1>1, <1>d DEF LinksOK
  <2>2. ASSUME NEW id \in AdmissionIds
        PROVE  /\ d2.adm[id].state # "absent" => d2.adm[id].account \in Accounts
               /\ d2.adm[id].state \in {"reserved", "started"} => d2.adm[id].owner = Owner
               /\ d2.adm[id].match = None => d2.adm[id].state \in {"absent", "reserved", "released"}
               /\ d2.adm[id].match # None =>
                    /\ d2.mat[d2.adm[id].match].state # "absent"
                    /\ d2.adm[id].state = Follows(d2.mat[d2.adm[id].match].state)
    <3>1. CASE d.adm[id].match = m
      <4>1. d2.adm[id].match = m /\ m # None /\ d2.adm[id].owner = Owner /\ d2.adm[id].state = Follows(st)
        BY <1>e, <1>7, <3>1, LobbyAssumption
      <4>2. st # "absent" /\ d2.adm[id].account \in Accounts
        BY <1>1, <1>e, <1>f, <1>7, <3>1, <4>1 DEF LinksOK
      <4> QED
        BY <1>d, <4>1, <4>2
    <3>2. CASE d.adm[id].match # m
      <4>1. d2.adm[id] = d.adm[id] /\ d.adm[id].match \in MatchIds \cup {None}
        BY <1>1, <1>e, <3>2, RowFacts
      <4> QED
        BY <1>1, <1>d, <3>2, <4>1 DEF LinksOK
    <3> QED
      BY <3>1, <3>2
  <2> QED
    BY <2>1, <2>2 DEF LinksOK
<1> QED
  BY <1>1, <1>6, <1>8, <1>d DEF RowsOK

\* cancelPreparedTx cancels the match and releases its seats.
LEMMA CancelledRows ==
  ASSUME NEW d, RowsOK(d), NEW m \in MatchIds, d.mat[m].state = "prepared",
         NEW d2, d2 = Values!CancelPrepared(d, m)
  PROVE  RowsOK(d2) /\ RowsKept(d, d2, {}, {m}) /\ d2.mat[m].state = "cancelled"
<1> DEFINE adm2 == Values!Closed(d.adm, m, "released")
<1>1. RowTypes(d)
  BY DEF RowsOK
<1>2. d2 = [d EXCEPT !.mat = MatchState(d.mat, m, "cancelled"), !.adm = adm2]
  BY DEF Values!CancelPrepared, MatchState
<1>3. Sets(d, adm2, m, "released") /\ Follows("cancelled") = "released"
  BY ClosedSets DEF Follows
<1> HIDE DEF adm2
<1>4. d = [adm |-> d.adm, mat |-> d.mat, count |-> d.count] /\ d.count = NoCount
  BY <1>1 DEF RowTypes
<1>5. d2 = [adm |-> adm2, mat |-> MatchState(d.mat, m, "cancelled"), count |-> NoCount]
  BY <1>2, <1>4
<1>6. Sets(d, adm2, m, Follows("cancelled"))
  BY <1>3
<1> HIDE DEF Follows
<1> QED
  BY <1>5, <1>6, MatchSet

\* interruptTx: no admission consumed an allowance.
LEMMA InterruptedRows ==
  ASSUME NEW d, RowsOK(d), NEW m \in MatchIds, d.mat[m].state = "started",
         NEW d2, d2 = Values!Interrupt(d, m)
  PROVE  RowsOK(d2) /\ RowsKept(d, d2, {}, {m}) /\ d2.mat[m].state = "interrupted"
<1> DEFINE adm2 == Values!Closed(d.adm, m, "compensated")
           count2 == [a \in Accounts |-> [t \in {1} |->
                        d.count[a][t] - Cardinality(Values!Consumed(d, m, a, t))]]
<1>1. RowTypes(d)
  BY DEF RowsOK
<1>2. d2 = [d EXCEPT !.mat = MatchState(d.mat, m, "interrupted"), !.adm = adm2, !.count = count2]
  <2>1. \A S : Values!Cardinality(S) = Cardinality(S)
    BY DEF Values!Cardinality, Cardinality
  <2> QED
    BY <2>1 DEF Values!Interrupt, MatchState
<1>3. Sets(d, adm2, m, "compensated") /\ Follows("interrupted") = "compensated"
  BY ClosedSets DEF Follows
<1>4. d = [adm |-> d.adm, mat |-> d.mat, count |-> d.count] /\ d.count = NoCount
  BY <1>1 DEF RowTypes
<1>7. ASSUME NEW a, NEW t PROVE Cardinality(Values!Consumed(d, m, a, t)) = 0
  <2>1. \A id \in AdmissionIds : d.adm[id].kind # "free"
    BY <1>1, RowFacts DEF AdmissionRow
  <2>2. Values!Consumed(d, m, a, t) = {}
    BY <2>1 DEF Values!Consumed, Values!Seated
  <2> QED
    BY <2>2, FS_EmptySet
<1>8. count2 = NoCount
  <2>1. \A a \in Accounts : \A t \in {1} : d.count[a][t] - Cardinality(Values!Consumed(d, m, a, t)) = 0
    BY <1>4, <1>7 DEF NoCount
  <2> QED
    BY <2>1 DEF NoCount
<1> HIDE DEF adm2, count2
<1>5. d2 = [adm |-> adm2, mat |-> MatchState(d.mat, m, "interrupted"), count |-> NoCount]
  BY <1>2, <1>4, <1>8
<1>6. Sets(d, adm2, m, Follows("interrupted"))
  BY <1>3
<1> HIDE DEF Follows
<1> QED
  BY <1>5, <1>6, MatchSet

\* Finish completes the match and releases its seats.
LEMMA FinishedRows ==
  ASSUME NEW d, RowsOK(d), NEW m \in MatchIds, d.mat[m].state = "started",
         NEW d2, d2 = Values!Finish(d, m)
  PROVE  RowsOK(d2) /\ RowsKept(d, d2, {}, {m}) /\ d2.mat[m].state = "completed"
<1> DEFINE adm2 == Values!Closed(d.adm, m, "released")
<1>1. RowTypes(d) /\ LinksOK(d) /\ m # None
  BY LobbyAssumption DEF RowsOK
<1>2. \A id \in AdmissionIds : d.adm[id].match = m => d.adm[id].state = "started"
  BY <1>1 DEF LinksOK, Follows
<1>3. d2 = [d EXCEPT !.mat = MatchState(d.mat, m, "completed"), !.adm = adm2]
  <2>1. [id \in AdmissionIds |-> IF d.adm[id].match = m /\ d.adm[id].state = "started"
                                 THEN [d.adm[id] EXCEPT !.state = "released"] ELSE d.adm[id]] = adm2
    BY <1>2 DEF Values!Closed
  <2>2. d2 = [d EXCEPT !.mat = MatchState(d.mat, m, "completed"),
                !.adm = [id \in AdmissionIds |-> IF d.adm[id].match = m /\ d.adm[id].state = "started"
                                 THEN [d.adm[id] EXCEPT !.state = "released"] ELSE d.adm[id]]]
    BY DEF Values!Finish, MatchState
  <2> QED
    BY <2>1, <2>2
<1>4. Sets(d, adm2, m, "released") /\ Follows("completed") = "released"
  BY ClosedSets DEF Follows
<1> HIDE DEF adm2
<1>5. d = [adm |-> d.adm, mat |-> d.mat, count |-> d.count] /\ d.count = NoCount
  BY <1>1 DEF RowTypes
<1>6. d2 = [adm |-> adm2, mat |-> MatchState(d.mat, m, "completed"), count |-> NoCount]
  BY <1>3, <1>5
<1>7. Sets(d, adm2, m, Follows("completed"))
  BY <1>4
<1> HIDE DEF Follows
<1> QED
  BY <1>6, <1>7, MatchSet

\* Start starts the match and its seats.
LEMMA StartedRows ==
  ASSUME NEW d, RowsOK(d), NEW m \in MatchIds, d.mat[m].state = "prepared",
         NEW d2, d2 = Values!Start(d, m, [b \in Accounts |-> "pass"], 1)
  PROVE  RowsOK(d2) /\ RowsKept(d, d2, {}, {m}) /\ d2.mat[m].state = "started"
<1> DEFINE kinds == [b \in Accounts |-> "pass"]
           adm2 == [id \in AdmissionIds |->
                      IF id \in Values!Seated(d, m)
                        THEN [d.adm[id] EXCEPT !.state = "started", !.day = 1, !.kind = kinds[d.adm[id].account]]
                        ELSE d.adm[id]]
           count2 == [a \in Accounts |-> [t \in {1} |->
                        d.count[a][t] + Cardinality({id \in Values!Seated(d, m) :
                                          d.adm[id].account = a /\ kinds[a] = "free" /\ t = 1})]]
<1>1. RowTypes(d) /\ LinksOK(d) /\ m # None
  BY LobbyAssumption DEF RowsOK
<1>2. d2 = [d EXCEPT !.mat = MatchState(d.mat, m, "started"), !.adm = adm2, !.count = count2]
  <2>1. \A S : Values!Cardinality(S) = Cardinality(S)
    BY DEF Values!Cardinality, Cardinality
  <2> QED
    BY <2>1 DEF Values!Start, MatchState
<1>3. ASSUME NEW id \in AdmissionIds
      PROVE  /\ adm2[id] \in AdmissionRow
             /\ d.adm[id].match # m => adm2[id] = d.adm[id]
             /\ d.adm[id].match = m =>
                  /\ adm2[id].account = d.adm[id].account /\ adm2[id].match = d.adm[id].match
                  /\ adm2[id].owner = d.adm[id].owner /\ adm2[id].state = "started"
  <2>1. d.adm[id] \in AdmissionRow
    BY <1>1, RowFacts
  <2>2. CASE d.adm[id].match # m
    <3>1. adm2[id] = d.adm[id]
      BY <2>2 DEF Values!Seated
    <3> QED
      BY <2>1, <2>2, <3>1
  <2>3. CASE d.adm[id].match = m
    <3>1. d.adm[id].state = "reserved"
      BY <1>1, <2>3 DEF LinksOK, Follows
    <3>2. kinds[d.adm[id].account] = "pass"
      BY <1>1, <3>1 DEF LinksOK
    <3>3. adm2[id] = [d.adm[id] EXCEPT !.state = "started", !.day = 1, !.kind = "pass"]
      BY <2>3, <3>2 DEF Values!Seated
    <3> HIDE DEF adm2
    <3>4. /\ adm2[id] \in AdmissionRow
          /\ adm2[id].account = d.adm[id].account /\ adm2[id].match = d.adm[id].match
          /\ adm2[id].owner = d.adm[id].owner /\ adm2[id].state = "started"
      BY <2>1, <3>3 DEF AdmissionRow
    <3> QED
      BY <2>3, <3>4
  <2> QED
    BY <2>2, <2>3
<1>4. adm2 = [id \in AdmissionIds |-> adm2[id]]
  OBVIOUS
<1>5. count2 = NoCount
  <2>1. ASSUME NEW a \in Accounts, NEW t \in {1}
        PROVE  count2[a][t] = 0
    <3>1. {id \in Values!Seated(d, m) : d.adm[id].account = a /\ kinds[a] = "free" /\ t = 1} = {}
      OBVIOUS
    <3>2. d.count[a][t] = 0
      BY <1>1, RowFacts DEF NoCount
    <3> QED
      BY <3>1, <3>2, FS_EmptySet
  <2>2. count2 = [a \in Accounts |-> [t \in {1} |-> 0]]
    BY <2>1
  <2> QED
    BY <2>2 DEF NoCount
<1> HIDE DEF adm2, count2
<1>6. Sets(d, adm2, m, "started")
  BY <1>3, <1>4 DEF Sets
<1>7. d = [adm |-> d.adm, mat |-> d.mat, count |-> d.count] /\ d.count = NoCount
  BY <1>1 DEF RowTypes
<1>8. d2 = [adm |-> adm2, mat |-> MatchState(d.mat, m, "started"), count |-> NoCount]
  BY <1>2, <1>5, <1>7
<1>9. Sets(d, adm2, m, Follows("started"))
  BY <1>6 DEF Follows
<1> HIDE DEF Follows
<1> QED
  BY <1>8, <1>9, MatchSet

\* Prepare links the reservations ids to a new match m.
LEMMA PreparedRows ==
  ASSUME NEW d, RowsOK(d), NEW m \in MatchIds, NEW ids \in SUBSET AdmissionIds,
         Values!MayPrepare(d, m, ids, Owner),
         NEW d2, d2 = Values!Prepare(d, m, ids, Owner)
  PROVE  /\ RowsOK(d2) /\ RowsKept(d, d2, ids, {m}) /\ d2.mat[m].state = "prepared"
         /\ \A id \in ids : /\ d2.adm[id].match = m /\ d2.adm[id].account = d.adm[id].account
                            /\ d2.adm[id].state # "absent"
<1> DEFINE adm2 == [id \in AdmissionIds |-> IF id \in ids THEN [d.adm[id] EXCEPT !.match = m] ELSE d.adm[id]]
           row  == [state |-> "prepared", owner |-> Owner]
           mat2 == [d.mat EXCEPT ![m] = row]
<1>1. RowTypes(d) /\ LinksOK(d) /\ m # None
  BY LobbyAssumption DEF RowsOK
<1>2. d2 = [d EXCEPT !.mat = mat2, !.adm = adm2]
  BY DEF Values!Prepare
<1>3. /\ d.mat[m].state = "absent"
      /\ \A id \in ids : d.adm[id].state = "reserved" /\ d.adm[id].match = None /\ d.adm[id].owner = Owner
  BY DEF Values!MayPrepare
<1>4. ASSUME NEW id \in AdmissionIds
      PROVE  /\ adm2[id] \in AdmissionRow
             /\ id \notin ids => adm2[id] = d.adm[id]
             /\ id \in ids =>
                  /\ adm2[id].account = d.adm[id].account /\ adm2[id].match = m
                  /\ adm2[id].owner = d.adm[id].owner /\ adm2[id].state = d.adm[id].state
  <2>1. d.adm[id] \in AdmissionRow
    BY <1>1, RowFacts
  <2>2. [d.adm[id] EXCEPT !.match = m] \in AdmissionRow
        /\ [d.adm[id] EXCEPT !.match = m].account = d.adm[id].account
        /\ [d.adm[id] EXCEPT !.match = m].match = m
        /\ [d.adm[id] EXCEPT !.match = m].owner = d.adm[id].owner
        /\ [d.adm[id] EXCEPT !.match = m].state = d.adm[id].state
    BY <2>1 DEF AdmissionRow, MatchOrNone
  <2> QED
    BY <2>1, <2>2
<1>5. adm2 = [id \in AdmissionIds |-> adm2[id]]
  OBVIOUS
<1>6. row \in MatchRow /\ row.state = "prepared" /\ row.owner = Owner
  BY DEF MatchRow
<1> HIDE DEF row
<1>7. mat2 \in [MatchIds -> MatchRow] /\ mat2[m] = row /\ \A n \in MatchIds \ {m} : mat2[n] = d.mat[n]
  BY <1>1, <1>6, RowFacts
<1>8. d = [adm |-> d.adm, mat |-> d.mat, count |-> d.count] /\ d.count = NoCount
  BY <1>1 DEF RowTypes
<1> HIDE DEF adm2, mat2
<1>9. d2 = [adm |-> adm2, mat |-> mat2, count |-> NoCount]
  BY <1>2, <1>8
<1>10. d2.adm = adm2 /\ d2.mat = mat2 /\ RowTypes(d2)
  BY <1>4, <1>5, <1>7, <1>9 DEF RowTypes
<1>11. RowsKept(d, d2, ids, {m})
  BY <1>4, <1>7, <1>10 DEF RowsKept
<1>12. \A id \in AdmissionIds : d.adm[id].match # m
  BY <1>1, <1>3 DEF LinksOK
<1>f. Follows("prepared") = "reserved"
  BY DEF Follows
<1>13. LinksOK(d2)
  <2>1. \A n \in MatchIds : d2.mat[n].state # "absent" => d2.mat[n].owner = Owner
    BY <1>1, <1>6, <1>7, <1>10 DEF LinksOK
  <2>2. ASSUME NEW id \in AdmissionIds
        PROVE  /\ d2.adm[id].state # "absent" => d2.adm[id].account \in Accounts
               /\ d2.adm[id].state \in {"reserved", "started"} => d2.adm[id].owner = Owner
               /\ d2.adm[id].match = None => d2.adm[id].state \in {"absent", "reserved", "released"}
               /\ d2.adm[id].match # None =>
                    /\ d2.mat[d2.adm[id].match].state # "absent"
                    /\ d2.adm[id].state = Follows(d2.mat[d2.adm[id].match].state)
    <3>1. CASE id \in ids
      <4>1. d2.adm[id].account = d.adm[id].account /\ d2.adm[id].match = m
            /\ d2.adm[id].owner = Owner /\ d2.adm[id].state = "reserved"
        BY <1>3, <1>4, <1>10, <3>1
      <4>2. d.adm[id].account \in Accounts
        BY <1>1, <1>3, <3>1 DEF LinksOK
      <4>3. d2.mat[m].state = "prepared"
        BY <1>6, <1>7, <1>10
      <4> QED
        BY <1>1, <1>f, <4>1, <4>2, <4>3
    <3>2. CASE id \notin ids
      <4>1. d2.adm[id] = d.adm[id] /\ d.adm[id].match \in MatchIds \cup {None} /\ d.adm[id].match # m
        BY <1>1, <1>4, <1>10, <1>12, <3>2, RowFacts
      <4> QED
        BY <1>1, <1>7, <1>10, <4>1 DEF LinksOK
    <3> QED
      BY <3>1, <3>2
  <2> HIDE DEF Follows
  <2> QED
    BY <2>1, <2>2 DEF LinksOK
<1>14. \A id \in ids : /\ d2.adm[id].match = m /\ d2.adm[id].account = d.adm[id].account
                       /\ d2.adm[id].state # "absent"
  BY <1>3, <1>4, <1>10
<1> QED
  BY <1>6, <1>7, <1>10, <1>11, <1>13, <1>14 DEF RowsOK

-----------------------------------------------------------------------------
(* What a room believes of the rows.                                        *)

Matches(room) == {room.match, room.pendingAbort} \ {None}

\* Every seat has an admission of match m.
Fills(d, room, m) ==
  \A s \in DOMAIN room.seats : room.seats[s].admission # None /\ d.adm[room.seats[s].admission].match = m

\* w says that the process drains: then a seat may be ready without admission.
SeatOK(d, room, s, w) ==
  /\ room.seats[s].admission # None =>
       /\ d.adm[room.seats[s].admission].account = room.seats[s].account
       /\ d.adm[room.seats[s].admission].state # "absent"
       /\ d.adm[room.seats[s].admission].match \in Matches(room) \cup {None}
  /\ room.seats[s].ready => room.seats[s].admission # None \/ room.pendingAbort # None \/ w

\* The states of the row of a match in a phase of its room.
RowStates(phase) ==
  CASE phase = "playing" -> {"started"}
    [] phase = "finishing" -> {"started", "completed"}
    [] phase = "interrupting" -> {"started", "interrupted"}
    [] OTHER -> {"completed", "interrupted"}

RunOK(d, room) ==
  /\ room.match = None \/ room.pendingAbort = None
  /\ room.match = None <=> room.phase = "lobby"
  /\ room.match # None => /\ d.mat[room.match].state \in RowStates(room.phase)
                          /\ Fills(d, room, room.match)

AbortOK(d, room) ==
  room.pendingAbort # None /\ d.mat[room.pendingAbort].state # "absent" =>
    /\ d.mat[room.pendingAbort].state # "completed"
    /\ DOMAIN room.seats = 0..(Size(room) - 1) /\ Fills(d, room, room.pendingAbort)

RoomOK(d, room, w) ==
  (\A s \in DOMAIN room.seats : SeatOK(d, room, s, w)) /\ RunOK(d, room) /\ AbortOK(d, room)

\* The types of the fields that refer to rows.
LEMMA RoomFacts ==
  ASSUME NEW room, Fits(room)
  PROVE  /\ room.match \in MatchIds \cup {None} /\ room.pendingAbort \in MatchIds \cup {None}
         /\ Matches(room) \subseteq MatchIds
         /\ room.phase \in {"lobby", "playing", "finishing", "interrupting", "verdict"}
         /\ \A s \in DOMAIN room.seats : /\ room.seats[s] \in MemberType
                                         /\ room.seats[s].admission \in AdmissionIds \cup {None}
                                         /\ room.seats[s].ready \in BOOLEAN
         /\ Admitted(room.seats) \subseteq AdmissionIds
<1>1. room \in RoomType /\ room.seats \in SeatMaps
  BY DEF Fits, RoomType
<1>2. \A s \in DOMAIN room.seats : room.seats[s] \in MemberType
  BY <1>1, SeatMapFacts
<1>3. \A s \in DOMAIN room.seats : /\ room.seats[s].admission \in AdmissionIds \cup {None}
                                   /\ room.seats[s].ready \in BOOLEAN
  BY <1>2 DEF MemberType
<1>4. Admitted(room.seats) \subseteq AdmissionIds
  BY <1>3 DEF Admitted
<1> QED
  BY <1>1, <1>2, <1>3, <1>4 DEF RoomType, MatchOrNone, Matches

\* The seats keep their rows.
LEMMA KeptSeats ==
  ASSUME NEW d, NEW room, Fits(room), NEW w \in BOOLEAN, \A s \in DOMAIN room.seats : SeatOK(d, room, s, w),
         NEW d2, NEW ids, NEW M, RowsKept(d, d2, ids, M), Admitted(room.seats) \cap ids = {}
  PROVE  /\ \A s \in DOMAIN room.seats : SeatOK(d2, room, s, w)
         /\ \A m : Fills(d, room, m) => Fills(d2, room, m)
<1>1. ASSUME NEW s \in DOMAIN room.seats, room.seats[s].admission # None
      PROVE  LET id == room.seats[s].admission
             IN d2.adm[id].account = d.adm[id].account /\ d2.adm[id].match = d.adm[id].match /\ d2.adm[id].state # "absent"
  <2>1. room.seats[s].admission \in AdmissionIds \ ids
    BY <1>1, RoomFacts DEF Admitted
  <2>2. d.adm[room.seats[s].admission].state # "absent"
    BY <1>1 DEF SeatOK
  <2> QED
    BY <2>1, <2>2 DEF RowsKept
<1>2. \A s \in DOMAIN room.seats : SeatOK(d2, room, s, w)
  BY <1>1 DEF SeatOK
<1>3. \A m : Fills(d, room, m) => Fills(d2, room, m)
  BY <1>1 DEF Fills
<1> QED
  BY <1>2, <1>3

\* The room of another match keeps its belief.
LEMMA KeptRoom ==
  ASSUME NEW d, NEW room, Fits(room), NEW w \in BOOLEAN, RoomOK(d, room, w),
         NEW d2, NEW ids, NEW M, RowsKept(d, d2, ids, M), Admitted(room.seats) \cap ids = {},
         Matches(room) \cap M = {}, NEW w2 \in BOOLEAN, w => w2
  PROVE  RoomOK(d2, room, w2)
<1>1. /\ \A s \in DOMAIN room.seats : SeatOK(d2, room, s, w)
      /\ \A m : Fills(d, room, m) => Fills(d2, room, m)
  BY KeptSeats DEF RoomOK
<1>2. \A m \in Matches(room) : d2.mat[m] = d.mat[m]
  BY RoomFacts DEF RowsKept
<1>3. /\ room.match # None => d2.mat[room.match] = d.mat[room.match]
      /\ room.pendingAbort # None => d2.mat[room.pendingAbort] = d.mat[room.pendingAbort]
  BY <1>2 DEF Matches
<1>4. RunOK(d2, room)
  BY <1>1, <1>3 DEF RoomOK, RunOK
<1>5. AbortOK(d2, room)
  BY <1>1, <1>3 DEF RoomOK, AbortOK
<1>6. \A s \in DOMAIN room.seats : SeatOK(d2, room, s, w2)
  BY <1>1 DEF SeatOK
<1> QED
  BY <1>4, <1>5, <1>6 DEF RoomOK

\* The room keeps its belief in another form: players left, or reservations
\* that no match holds were forgotten.
LEMMA LessRoom ==
  ASSUME NEW d, NEW room, NEW w, RoomOK(d, room, w), NEW new, NEW w2,
         new.match = room.match, new.phase = room.phase, new.pendingAbort = room.pendingAbort,
         DOMAIN new.seats \subseteq DOMAIN room.seats,
         \A s \in DOMAIN new.seats :
           /\ new.seats[s].account = room.seats[s].account
           /\ new.seats[s].admission \in {room.seats[s].admission, None}
           /\ new.seats[s].ready => new.seats[s].admission # None \/ new.pendingAbort # None \/ w2,
         room.match # None => \A s \in DOMAIN new.seats : new.seats[s].admission = room.seats[s].admission,
         room.pendingAbort # None /\ d.mat[room.pendingAbort].state # "absent" =>
           /\ DOMAIN new.seats = DOMAIN room.seats /\ Size(new) = Size(room)
           /\ \A s \in DOMAIN new.seats : new.seats[s].admission = room.seats[s].admission
  PROVE  RoomOK(d, new, w2)
<1>1. Matches(new) = Matches(room)
  BY DEF Matches
<1>2. \A s \in DOMAIN new.seats : SeatOK(d, new, s, w2)
  BY <1>1 DEF RoomOK, SeatOK
<1>3. RunOK(d, new)
  BY DEF RoomOK, RunOK, Fills
<1>4. AbortOK(d, new)
  BY DEF RoomOK, AbortOK, Fills
<1> QED
  BY <1>2, <1>3, <1>4 DEF RoomOK

\* A room without admissions that waits for nothing but an abort without a row.
LEMMA BareRoom ==
  ASSUME NEW d, NEW new, NEW w, new.match = None, new.phase = "lobby",
         new.pendingAbort = None \/ d.mat[new.pendingAbort].state = "absent",
         \A s \in DOMAIN new.seats : new.seats[s].admission = None /\ ~new.seats[s].ready
  PROVE  RoomOK(d, new, w)
BY DEF RoomOK, RunOK, AbortOK, SeatOK

\* The reservation of a waiting account.
EntryOK(d, a, e) ==
  d.adm[e.id].account = a /\ d.adm[e.id].match = None /\ d.adm[e.id].state # "absent"

\* A reservation that is named by a queue entry or a seat, and a match that a
\* room runs or aborts.
NamedId(q, rs, id) ==
  (\E a \in DOMAIN q : q[a].id = id) \/ (\E r \in DOMAIN rs : id \in Admitted(rs[r].seats))

HeldMatch(rs, m) == \E r \in DOMAIN rs : m \in Matches(rs[r])

\* Rows d, queue q and rooms rs agree; the reservations X have no name yet.
ValueOK(d, q, rs, w, X) ==
  /\ RowsOK(d) /\ w \in BOOLEAN
  /\ \A a \in DOMAIN q : EntryOK(d, a, q[a])
  /\ \A r \in DOMAIN rs : RoomOK(d, rs[r], w)
  /\ ~ReserveReplyLost =>
       \A id \in AdmissionIds : d.adm[id].state = "reserved" => NamedId(q, rs, id) \/ id \in X
  /\ \A m \in MatchIds : d.mat[m].state \in {"prepared", "started"} => HeldMatch(rs, m)
  /\ \A r, x \in DOMAIN rs : Matches(rs[r]) \cap Matches(rs[x]) # {} => r = x

\* Of the rooms only those in R change.
Changed(rs, rs2, R) ==
  \A x : x \notin R => /\ x \in DOMAIN rs <=> x \in DOMAIN rs2
                       /\ x \in DOMAIN rs2 => rs2[x] = rs[x]

\* Rows d become d2, queue q becomes q2 and rooms rs become rs2, by a step about
\* the rows of the ids and matches M and about the rooms R.
Steps(d, q, rs, w, X, d2, q2, rs2, w2, X2, ids, M, R) ==
  /\ RowsOK(d2) /\ RowsKept(d, d2, ids, M) /\ M \subseteq MatchIds /\ w2 \in BOOLEAN /\ (w => w2)
  /\ Changed(rs, rs2, R)
  /\ \A a \in DOMAIN q2 : EntryOK(d2, a, q2[a])
  /\ \A r \in DOMAIN rs2 : r \in R => RoomOK(d2, rs2[r], w2)
  /\ \A x \in DOMAIN rs : x \notin R => Admitted(rs[x].seats) \cap ids = {} /\ Matches(rs[x]) \cap M = {}
  /\ \A r, x \in DOMAIN rs2 : r \in R /\ Matches(rs2[r]) \cap Matches(rs2[x]) # {} => r = x
  /\ ~ReserveReplyLost =>
       \A id \in AdmissionIds :
         /\ d2.adm[id].state = "reserved"
         /\ \/ id \in ids \/ id \in X
            \/ \E a \in DOMAIN q : q[a].id = id
            \/ \E r \in DOMAIN rs : r \in R /\ id \in Admitted(rs[r].seats)
         => NamedId(q2, rs2, id) \/ id \in X2
  /\ \A m \in MatchIds :
       /\ d2.mat[m].state \in {"prepared", "started"}
       /\ m \in M \/ \E r \in DOMAIN rs : r \in R /\ m \in Matches(rs[r])
       => HeldMatch(rs2, m)

\* Such a step keeps the rows, the queues and the rooms in agreement.
LEMMA ValueStep ==
  ASSUME NEW d, NEW q, NEW rs, NEW w, NEW X, ValueOK(d, q, rs, w, X), TablesOK(rs),
         NEW d2, NEW q2, NEW rs2, NEW w2, NEW X2, NEW ids, NEW M, NEW R,
         Steps(d, q, rs, w, X, d2, q2, rs2, w2, X2, ids, M, R)
  PROVE  ValueOK(d2, q2, rs2, w2, X2)
<1> USE DEF Steps
<1>1. \A x \in DOMAIN rs2 : x \notin R => x \in DOMAIN rs /\ rs2[x] = rs[x]
  BY DEF Changed
<1>2. \A x \in DOMAIN rs : x \notin R => x \in DOMAIN rs2 /\ rs2[x] = rs[x]
  BY DEF Changed
<1>3. ASSUME NEW x \in DOMAIN rs2 PROVE RoomOK(d2, rs2[x], w2)
  <2>1. CASE x \in R
    BY <2>1
  <2>2. CASE x \notin R
    <3>1. x \in DOMAIN rs /\ rs2[x] = rs[x] /\ Fits(rs[x])
      BY <1>1, <2>2 DEF TablesOK
    <3>2. RoomOK(d, rs[x], w) /\ w \in BOOLEAN
      BY <3>1 DEF ValueOK
    <3>3. Admitted(rs[x].seats) \cap ids = {} /\ Matches(rs[x]) \cap M = {}
      BY <2>2, <3>1
    <3>4. RoomOK(d2, rs[x], w2)
      BY <3>1, <3>2, <3>3, KeptRoom
    <3> QED
      BY <3>1, <3>4
  <2> QED
    BY <2>1, <2>2
<1>4. ASSUME ~ReserveReplyLost, NEW id \in AdmissionIds, d2.adm[id].state = "reserved"
      PROVE  NamedId(q2, rs2, id) \/ id \in X2
  <2>1. CASE id \in ids
    BY <1>4, <2>1
  <2>2. CASE id \notin ids
    <3>1. d.adm[id].state = "reserved"
      BY <1>4, <2>2 DEF RowsKept
    <3>2. NamedId(q, rs, id) \/ id \in X
      BY <1>4, <3>1 DEF ValueOK
    <3>3. CASE \E r \in DOMAIN rs : r \notin R /\ id \in Admitted(rs[r].seats)
      <4>1. \E r \in DOMAIN rs2 : id \in Admitted(rs2[r].seats)
        BY <1>2, <3>3
      <4> QED
        BY <4>1 DEF NamedId
    <3>4. CASE ~\E r \in DOMAIN rs : r \notin R /\ id \in Admitted(rs[r].seats)
      BY <1>4, <3>2, <3>4 DEF NamedId
    <3> QED
      BY <3>3, <3>4
  <2> QED
    BY <2>1, <2>2
<1>5. ASSUME NEW m \in MatchIds, d2.mat[m].state \in {"prepared", "started"}
      PROVE  HeldMatch(rs2, m)
  <2>1. CASE m \in M
    BY <1>5, <2>1
  <2>2. CASE m \notin M
    <3>1. d2.mat[m] = d.mat[m]
      BY <2>2 DEF RowsKept
    <3>2. HeldMatch(rs, m)
      BY <1>5, <3>1 DEF ValueOK
    <3>3. PICK r \in DOMAIN rs : m \in Matches(rs[r])
      BY <3>2 DEF HeldMatch
    <3>4. CASE r \in R
      BY <1>5, <3>3, <3>4
    <3>5. CASE r \notin R
      BY <1>2, <3>3, <3>5 DEF HeldMatch
    <3> QED
      BY <3>4, <3>5
  <2> QED
    BY <2>1, <2>2
<1>6. ASSUME NEW r \in DOMAIN rs2, NEW x \in DOMAIN rs2, Matches(rs2[r]) \cap Matches(rs2[x]) # {}
      PROVE  r = x
  <2>1. CASE r \in R
    BY <1>6, <2>1
  <2>2. CASE x \in R
    <3>1. Matches(rs2[x]) \cap Matches(rs2[r]) # {}
      BY <1>6
    <3> QED
      BY <2>2, <3>1
  <2>3. CASE r \notin R /\ x \notin R
    BY <1>1, <1>6, <2>3 DEF ValueOK
  <2> QED
    BY <2>1, <2>2, <2>3
<1> QED
  BY <1>3, <1>4, <1>5, <1>6 DEF ValueOK

\* The queue entries keep their rows.
LEMMA KeptEntries ==
  ASSUME NEW d, NEW q, QueueOK(q), \A a \in DOMAIN q : EntryOK(d, a, q[a]),
         NEW d2, NEW ids, NEW M, RowsKept(d, d2, ids, M), \A a \in DOMAIN q : q[a].id \notin ids
  PROVE  \A a \in DOMAIN q : EntryOK(d2, a, q[a])
<1>1. \A a \in DOMAIN q : q[a].id \in AdmissionIds
  BY DEF QueueOK, EntryType
<1> QED
  BY <1>1 DEF EntryOK, RowsKept

\* No two of the queue entries and seats name the same reservation.
LEMMA NamesApart ==
  ASSUME NEW d, NEW q, NEW rs, NEW ms, NEW w, NEW X, ValueOK(d, q, rs, w, X), LobbyOK(q, rs, ms),
         NEW r \in DOMAIN rs
  PROVE  /\ \A x \in DOMAIN rs : x # r => Admitted(rs[x].seats) \cap Admitted(rs[r].seats) = {}
         /\ \A a \in DOMAIN q : q[a].id \notin Admitted(rs[r].seats)
         /\ \A s, t \in DOMAIN rs[r].seats :
              rs[r].seats[s].admission = rs[r].seats[t].admission /\ rs[r].seats[s].admission # None => s = t
<1>1. TablesOK(rs) /\ Placed(rs, ms) /\ QueueOK(q) /\ DOMAIN q \cap DOMAIN ms = {}
  BY DEF LobbyOK
<1>2. ASSUME NEW x \in DOMAIN rs, NEW id \in Admitted(rs[x].seats)
      PROVE  d.adm[id].account \in DOMAIN ms /\ ms[d.adm[id].account] = x
  <2>1. PICK s \in DOMAIN rs[x].seats : rs[x].seats[s].admission = id /\ id # None
    BY <1>2 DEF Admitted
  <2>2. d.adm[id].account = rs[x].seats[s].account
    BY <2>1 DEF ValueOK, RoomOK, SeatOK
  <2>3. rs[x].seats[s].account \in Who(rs[x])
    BY DEF Who
  <2> QED
    BY <1>1, <2>2, <2>3 DEF Placed
<1>3. ASSUME NEW x \in DOMAIN rs, x # r, NEW id \in Admitted(rs[x].seats) \cap Admitted(rs[r].seats) PROVE FALSE
  BY <1>2, <1>3
<1>4. ASSUME NEW a \in DOMAIN q, q[a].id \in Admitted(rs[r].seats) PROVE FALSE
  <2>1. d.adm[q[a].id].account = a
    BY DEF ValueOK, EntryOK
  <2> QED
    BY <1>1, <1>2, <1>4, <2>1
<1>5. ASSUME NEW s \in DOMAIN rs[r].seats, NEW t \in DOMAIN rs[r].seats,
             rs[r].seats[s].admission = rs[r].seats[t].admission, rs[r].seats[s].admission # None
      PROVE  s = t
  <2>1. rs[r].seats[s].account = rs[r].seats[t].account
    BY <1>5 DEF ValueOK, RoomOK, SeatOK
  <2> QED
    BY <1>1, <2>1 DEF TablesOK, Apart
<1> QED
  BY <1>3, <1>4, <1>5

\* A seat of a match that is running stays.
SeatsKept(rs, d2, rs2) ==
  \A r \in DOMAIN rs :
    rs[r].match # None /\ d2.mat[rs[r].match].state = "started" =>
      /\ r \in DOMAIN rs2 /\ rs2[r].match = rs[r].match
      /\ \A s \in DOMAIN rs[r].seats :
           s \in DOMAIN rs2[r].seats /\ rs2[r].seats[s].account = rs[r].seats[s].account

\* Room r changes or is closed, together with the rows of its admissions and
\* its match, or a new match.
RoomSteps(d, rs, w, r, d2, rs2, w2, ids, M) ==
  /\ RowsOK(d2) /\ RowsKept(d, d2, ids, M) /\ M \subseteq MatchIds /\ w2 \in BOOLEAN /\ (w => w2)
  /\ Changed(rs, rs2, {r})
  /\ ids \subseteq Admitted(rs[r].seats)
  /\ \A m \in M : m \in Matches(rs[r]) \/ ~HeldMatch(rs, m)
  /\ r \in DOMAIN rs2 => RoomOK(d2, rs2[r], w2) /\ Matches(rs2[r]) \subseteq Matches(rs[r]) \cup M
  /\ \A id \in AdmissionIds : d2.adm[id].state = "reserved" /\ id \in Admitted(rs[r].seats) =>
       r \in DOMAIN rs2 /\ id \in Admitted(rs2[r].seats)
  /\ \A m \in MatchIds : d2.mat[m].state \in {"prepared", "started"} /\ m \in M \cup Matches(rs[r]) =>
       r \in DOMAIN rs2 /\ m \in Matches(rs2[r])

\* A step of one room keeps the rows, the queues and the rooms in agreement.
LEMMA RoomStepValue ==
  ASSUME NEW d, NEW q, NEW rs, NEW ms, NEW w, ValueOK(d, q, rs, w, {}), LobbyOK(q, rs, ms), NEW r \in DOMAIN rs,
         NEW d2, NEW rs2, NEW w2, NEW ids, NEW M, RoomSteps(d, rs, w, r, d2, rs2, w2, ids, M)
  PROVE  ValueOK(d2, q, rs2, w2, {})
<1> USE DEF RoomSteps
<1>1. TablesOK(rs) /\ QueueOK(q)
  BY DEF LobbyOK
<1>2. /\ \A x \in DOMAIN rs : x # r => Admitted(rs[x].seats) \cap ids = {}
      /\ \A a \in DOMAIN q : q[a].id \notin ids
  BY NamesApart
<1>3. \A x \in DOMAIN rs : x # r => Matches(rs[x]) \cap M = {}
  <2>1. ASSUME NEW x \in DOMAIN rs, x # r, NEW m \in Matches(rs[x]), m \in M PROVE FALSE
    <3>1. HeldMatch(rs, m)
      BY DEF HeldMatch
    <3>2. m \in Matches(rs[r]) \cap Matches(rs[x])
      BY <2>1, <3>1
    <3> QED
      BY <2>1, <3>2 DEF ValueOK
  <2> QED
    BY <2>1
<1>4. \A a \in DOMAIN q : EntryOK(d, a, q[a])
  BY DEF ValueOK
<1>5. \A a \in DOMAIN q : EntryOK(d2, a, q[a])
  BY <1>1, <1>2, <1>4, KeptEntries
<1>6. \A x \in DOMAIN rs2 : x # r => x \in DOMAIN rs /\ rs2[x] = rs[x]
  BY DEF Changed
<1>7. ASSUME NEW y \in DOMAIN rs2, NEW x \in DOMAIN rs2, y \in {r}, Matches(rs2[y]) \cap Matches(rs2[x]) # {}
      PROVE  y = x
  <2>1. SUFFICES ASSUME x # r PROVE FALSE
    BY <1>7
  <2>2. x \in DOMAIN rs /\ rs2[x] = rs[x] /\ Matches(rs[x]) \cap M = {}
    BY <1>3, <1>6, <2>1
  <2>3. Matches(rs2[y]) \subseteq Matches(rs[r]) \cup M
    BY <1>7
  <2>4. Matches(rs[r]) \cap Matches(rs[x]) # {}
    BY <1>7, <2>2, <2>3
  <2> QED
    BY <2>1, <2>2, <2>4 DEF ValueOK
<1>8. ASSUME NEW id \in AdmissionIds, d2.adm[id].state = "reserved",
             \/ id \in ids \/ id \in {}
             \/ \E a \in DOMAIN q : q[a].id = id
             \/ \E x \in DOMAIN rs : x \in {r} /\ id \in Admitted(rs[x].seats)
      PROVE  NamedId(q, rs2, id)
  <2>1. CASE id \in Admitted(rs[r].seats)
    BY <1>8, <2>1 DEF NamedId
  <2>2. CASE \E a \in DOMAIN q : q[a].id = id
    BY <2>2 DEF NamedId
  <2> QED
    BY <1>8, <2>1, <2>2
<1>9. ASSUME NEW m \in MatchIds, d2.mat[m].state \in {"prepared", "started"},
             m \in M \/ \E x \in DOMAIN rs : x \in {r} /\ m \in Matches(rs[x])
      PROVE  HeldMatch(rs2, m)
  BY <1>9 DEF HeldMatch
<1> DEFINE R == {r}
<1>10. /\ Changed(rs, rs2, R)
       /\ \A x \in DOMAIN rs2 : x \in R => RoomOK(d2, rs2[x], w2)
       /\ \A x \in DOMAIN rs : x \notin R => Admitted(rs[x].seats) \cap ids = {} /\ Matches(rs[x]) \cap M = {}
       /\ \A y, x \in DOMAIN rs2 : y \in R /\ Matches(rs2[y]) \cap Matches(rs2[x]) # {} => y = x
  BY <1>2, <1>3, <1>7
<1>11. \A id \in AdmissionIds :
         /\ d2.adm[id].state = "reserved"
         /\ \/ id \in ids \/ id \in {}
            \/ \E a \in DOMAIN q : q[a].id = id
            \/ \E x \in DOMAIN rs : x \in R /\ id \in Admitted(rs[x].seats)
         => NamedId(q, rs2, id) \/ id \in {}
  BY <1>8
<1>12. \A m \in MatchIds :
         /\ d2.mat[m].state \in {"prepared", "started"}
         /\ m \in M \/ \E x \in DOMAIN rs : x \in R /\ m \in Matches(rs[x])
         => HeldMatch(rs2, m)
  BY <1>9
<1> HIDE DEF R
<1>13. RowsOK(d2) /\ RowsKept(d, d2, ids, M) /\ M \subseteq MatchIds /\ w2 \in BOOLEAN /\ (w => w2)
  OBVIOUS
<1> HIDE DEF RoomSteps
<1>14. Steps(d, q, rs, w, {}, d2, q, rs2, w2, {}, ids, M, R)
  BY <1>5, <1>10, <1>11, <1>12, <1>13 DEF Steps
<1> QED
  BY <1>1, <1>14, ValueStep

\* The rows that are dropped are closed, and nothing refers to them.
LEMMA TidyRows ==
  ASSUME NEW d, NEW q, NEW rs, NEW w, ValueOK(d, q, rs, w, {}), TablesOK(rs), QueueOK(q),
         NEW d2, d2 = Tidy(d, q, rs)
  PROVE  /\ RowsOK(d2)
         /\ \A id \in AdmissionIds : d2.adm[id] = d.adm[id] \/ /\ d2.adm[id] = Values!NoAdmission
                                                               /\ id \notin Known(q, rs)
         /\ \A m \in MatchIds : d2.mat[m] = d.mat[m] \/ /\ d2.mat[m] = Values!NoMatch
                                                        /\ m \notin KnownMatches(rs)
         /\ \A m \in MatchIds : d.mat[m].state \in {"prepared", "started"} => d2.mat[m] = d.mat[m]
<1> DEFINE adm2 == [id \in AdmissionIds |->
                      IF d.adm[id].state \in Values!Open \/ id \in Known(q, rs) THEN d.adm[id] ELSE Values!NoAdmission]
           mat2 == [m \in MatchIds |->
                      IF d.mat[m].state \in {"prepared", "started"} \/ m \in KnownMatches(rs)
                      THEN d.mat[m] ELSE Values!NoMatch]
<1>1. RowTypes(d) /\ LinksOK(d)
  BY DEF ValueOK, RowsOK
<1>2. d2 = [d EXCEPT !.adm = adm2, !.mat = mat2]
  BY DEF Tidy
<1>3. d = [adm |-> d.adm, mat |-> d.mat, count |-> d.count] /\ d.count = NoCount
  BY <1>1 DEF RowTypes
<1>4. \A id \in AdmissionIds : /\ adm2[id] = d.adm[id] \/ (adm2[id] = Values!NoAdmission /\ id \notin Known(q, rs))
                               /\ adm2[id] = d.adm[id] =>
                                    \/ d.adm[id].state \in {"reserved", "started"} \/ id \in Known(q, rs)
                                    \/ d.adm[id] = Values!NoAdmission
  BY DEF Values!Open
<1>5. \A m \in MatchIds : /\ mat2[m] = d.mat[m] \/ (mat2[m] = Values!NoMatch /\ m \notin KnownMatches(rs))
                          /\ d.mat[m].state \in {"prepared", "started"} \/ m \in KnownMatches(rs) => mat2[m] = d.mat[m]
  OBVIOUS
<1>6. Values!NoAdmission \in AdmissionRow /\ Values!NoMatch \in MatchRow
  BY DEF Values!NoAdmission, Values!NoMatch, AdmissionRow, MatchRow, MatchOrNone
<1>7. /\ adm2 = [id \in AdmissionIds |-> adm2[id]] /\ mat2 = [m \in MatchIds |-> mat2[m]]
      /\ \A id \in AdmissionIds : adm2[id] \in AdmissionRow
      /\ \A m \in MatchIds : mat2[m] \in MatchRow
  BY <1>1, <1>6, RowFacts
<1> HIDE DEF adm2, mat2
<1>8. d2 = [adm |-> adm2, mat |-> mat2, count |-> NoCount]
  BY <1>2, <1>3
<1>9. d2.adm = adm2 /\ d2.mat = mat2 /\ RowTypes(d2)
  BY <1>7, <1>8 DEF RowTypes
<1>10. ASSUME NEW id \in AdmissionIds, d.adm[id].match # None, adm2[id] = d.adm[id]
       PROVE  d.adm[id].match \in MatchIds /\ mat2[d.adm[id].match] = d.mat[d.adm[id].match]
  <2>1. d.adm[id].match \in MatchIds
    BY <1>1, <1>10, RowFacts
  <2>2. CASE d.adm[id].state \in {"reserved", "started"}
    <3>1. d.adm[id].state = Follows(d.mat[d.adm[id].match].state)
      BY <1>1, <1>10 DEF LinksOK
    <3>2. d.mat[d.adm[id].match].state \in {"prepared", "started"}
      BY <2>2, <3>1 DEF Follows
    <3> QED
      BY <1>5, <2>1, <3>2
  <2>3. CASE id \in Known(q, rs)
    <3>1. ASSUME NEW a \in DOMAIN q, q[a].id = id PROVE FALSE
      BY <1>10, <3>1 DEF ValueOK, EntryOK
    <3>2. PICK r \in DOMAIN rs : id \in Admitted(rs[r].seats)
      BY <2>3, <3>1 DEF Known
    <3>3. PICK s \in DOMAIN rs[r].seats : rs[r].seats[s].admission = id /\ id # None
      BY <3>2 DEF Admitted
    <3>4. d.adm[id].match \in Matches(rs[r]) \cup {None}
      BY <3>3 DEF ValueOK, RoomOK, SeatOK
    <3>5. d.adm[id].match \in KnownMatches(rs)
      BY <1>10, <3>4 DEF KnownMatches, Matches
    <3> QED
      BY <1>5, <2>1, <3>5
  <2>4. CASE d.adm[id] = Values!NoAdmission
    BY <1>10, <2>4 DEF Values!NoAdmission
  <2> QED
    BY <1>4, <1>10, <2>2, <2>3, <2>4
<1>11. LinksOK(d2)
  <2>1. \A n \in MatchIds : d2.mat[n].state # "absent" => d2.mat[n].owner = Owner
    BY <1>1, <1>5, <1>9 DEF LinksOK, Values!NoMatch
  <2>2. ASSUME NEW id \in AdmissionIds
        PROVE  /\ d2.adm[id].state # "absent" => d2.adm[id].account \in Accounts
               /\ d2.adm[id].state \in {"reserved", "started"} => d2.adm[id].owner = Owner
               /\ d2.adm[id].match = None => d2.adm[id].state \in {"absent", "reserved", "released"}
               /\ d2.adm[id].match # None =>
                    /\ d2.mat[d2.adm[id].match].state # "absent"
                    /\ d2.adm[id].state = Follows(d2.mat[d2.adm[id].match].state)
    <3>1. CASE adm2[id] = d.adm[id]
      <4>1. CASE d.adm[id].match # None
        BY <1>1, <1>9, <1>10, <3>1, <4>1 DEF LinksOK
      <4>2. CASE d.adm[id].match = None
        BY <1>1, <1>9, <3>1, <4>2 DEF LinksOK
      <4> QED
        BY <4>1, <4>2
    <3>2. CASE adm2[id] = Values!NoAdmission
      BY <1>9, <3>2 DEF Values!NoAdmission
    <3> QED
      BY <1>4, <3>1, <3>2
  <2> HIDE DEF Follows
  <2> QED
    BY <2>1, <2>2 DEF LinksOK
<1> QED
  BY <1>4, <1>5, <1>9, <1>11 DEF RowsOK

\* Dropping closed rows that nobody names keeps the agreement.
LEMMA TidyValue ==
  ASSUME NEW d, NEW q, NEW rs, NEW w, ValueOK(d, q, rs, w, {}), TablesOK(rs), QueueOK(q)
  PROVE  ValueOK(Tidy(d, q, rs), q, rs, w, {})
<1> DEFINE d2 == Tidy(d, q, rs)
           ids == AdmissionIds \ Known(q, rs)
           M == MatchIds \ KnownMatches(rs)
           R == {}
<1>1. /\ RowsOK(d2)
      /\ \A id \in AdmissionIds : d2.adm[id] = d.adm[id] \/ /\ d2.adm[id] = Values!NoAdmission
                                                            /\ id \notin Known(q, rs)
      /\ \A m \in MatchIds : d2.mat[m] = d.mat[m] \/ /\ d2.mat[m] = Values!NoMatch
                                                     /\ m \notin KnownMatches(rs)
  BY TidyRows
<1> HIDE DEF d2
<1>2. RowsKept(d, d2, ids, M)
  BY <1>1 DEF RowsKept
<1>3. \A a \in DOMAIN q : EntryOK(d2, a, q[a])
  <2>1. \A a \in DOMAIN q : q[a].id \notin ids
    BY DEF Known
  <2>2. \A a \in DOMAIN q : EntryOK(d, a, q[a])
    BY DEF ValueOK
  <2> HIDE DEF ids, M
  <2> QED
    BY <1>2, <2>1, <2>2, KeptEntries
<1>4. \A x \in DOMAIN rs : Admitted(rs[x].seats) \cap ids = {} /\ Matches(rs[x]) \cap M = {}
  <2>1. ASSUME NEW x \in DOMAIN rs
        PROVE  Admitted(rs[x].seats) \subseteq Known(q, rs) /\ Matches(rs[x]) \subseteq KnownMatches(rs)
    BY DEF Known, KnownMatches, Matches
  <2> QED
    BY <2>1
<1>5. w \in BOOLEAN /\ Changed(rs, rs, R)
  BY DEF ValueOK, Changed
<1>6. ASSUME ~ReserveReplyLost, NEW id \in AdmissionIds, d2.adm[id].state = "reserved"
      PROVE  NamedId(q, rs, id)
  <2>1. d2.adm[id] = d.adm[id]
    BY <1>1, <1>6 DEF Values!NoAdmission
  <2> QED
    BY <1>6, <2>1 DEF ValueOK
<1>7. ASSUME NEW m \in MatchIds, d2.mat[m].state \in {"prepared", "started"}
      PROVE  HeldMatch(rs, m)
  <2>1. d2.mat[m] = d.mat[m]
    BY <1>1, <1>7 DEF Values!NoMatch
  <2> QED
    BY <1>7, <2>1 DEF ValueOK
<1>8. M \subseteq MatchIds /\ \A x \in DOMAIN rs : x \notin R
  OBVIOUS
<1>9. \A x : x \notin R
  OBVIOUS
<1> HIDE DEF ids, M, R
<1>10. Steps(d, q, rs, w, {}, d2, q, rs, w, {}, ids, M, R)
  BY <1>1, <1>2, <1>3, <1>4, <1>5, <1>6, <1>7, <1>8, <1>9 DEF Steps
<1>11. ValueOK(d2, q, rs, w, {})
  BY <1>10, ValueStep
<1> QED
  BY <1>11 DEF d2

RowsInv == ValueOK(db, queues, rooms, draining, {})

\* What a step does to rows and seats, if it does it to the rooms and queues.
Carried == RowsInv' /\ SeatsKept(rooms, db', rooms')

\* Rooms and queues are those of a lobby before and after the step.
Fitting == TablesOK(rooms) /\ QueueOK(queues)

\* A handler that ends with Save carries the agreement and the seats on.
LEMMA SaveValue ==
  ASSUME Fitting, Fitting', NEW d, NEW q, NEW rs, NEW ms, Save(d, q, rs, ms),
         ValueOK(d, q, rs, draining', {}), SeatsKept(rooms, d, rs)
  PROVE  Carried
<1>1. db' = Tidy(d, q, rs) /\ queues' = q /\ rooms' = rs
  BY DEF Save
<1>2. TablesOK(rs) /\ QueueOK(q)
  BY <1>1 DEF Fitting
<1>3. ValueOK(Tidy(d, q, rs), q, rs, draining', {})
  BY <1>2, TidyValue
<1>4. \A m \in MatchIds : Tidy(d, q, rs).mat[m].state = "started" => d.mat[m].state = "started"
  <2>1. \A m \in MatchIds : Tidy(d, q, rs).mat[m] = d.mat[m] \/ Tidy(d, q, rs).mat[m] = Values!NoMatch
    BY <1>2, TidyRows
  <2> QED
    BY <2>1 DEF Values!NoMatch
<1>5. \A r \in DOMAIN rooms : rooms[r].match # None => rooms[r].match \in MatchIds
  BY RoomFacts DEF Fitting, TablesOK
<1> DEFINE d2 == Tidy(d, q, rs)
<1>6. SeatsKept(rooms, d2, rs)
  <2> HIDE DEF d2
  <2>1. \A m \in MatchIds : d2.mat[m].state = "started" => d.mat[m].state = "started"
    BY <1>4 DEF d2
  <2> QED
    BY <1>5, <2>1 DEF SeatsKept
<1> QED
  BY <1>1, <1>3, <1>6 DEF Carried, RowsInv

\* Waiters who are seated take their reservations along.
LEMMA MatchedValue ==
  ASSUME NEW d, NEW q, NEW rs, NEW w, ValueOK(d, q, rs, w, {}), QueueOK(q), TablesOK(rs),
         NEW f \in Placements(q, rs), NEW rs2, rs2 = RoomsAfter(f, q, rs), NEW q2, q2 = Dequeue(q, DOMAIN f)
  PROVE  ValueOK(d, q2, rs2, w, {}) /\ SeatsKept(rs, d, rs2)
<1>1. /\ DOMAIN rs2 = DOMAIN rs \cup {f[a] : a \in DOMAIN f}
      /\ \A r \in DOMAIN rs2 : /\ r \in RoomIds /\ Fits(rs2[r])
                               /\ rs2[r] = [Base(f, q, rs, r) EXCEPT !.seats = rs2[r].seats]
                               /\ SeatsBefore(rs, r) \subseteq DOMAIN rs2[r].seats
      /\ \A r \in DOMAIN rs : \A s \in DOMAIN rs[r].seats :
           /\ s \in DOMAIN rs2[r].seats
           /\ rs2[r].seats[s].account = rs[r].seats[s].account
           /\ rs2[r].seats[s].bound = rs[r].seats[s].bound
           /\ rs2[r].seats[s].admission = rs[r].seats[s].admission
           /\ rs2[r].seats[s].ready => rs[r].seats[s].ready
      /\ \A r \in DOMAIN rs2 : \A s \in DOMAIN rs2[r].seats \ SeatsBefore(rs, r) :
           /\ rs2[r].seats[s].account \in To(f, r)
           /\ rs2[r].seats[s].admission = q[rs2[r].seats[s].account].id
           /\ ~rs2[r].seats[s].ready
      /\ \A r \in DOMAIN rs2 : \A a \in To(f, r) :
           \E s \in DOMAIN rs2[r].seats \ SeatsBefore(rs, r) : rs2[r].seats[s].account = a
  BY Matched
<1>2. /\ DOMAIN f \subseteq DOMAIN q
      /\ \A a \in DOMAIN f : MaySeat(q, rs, f[a], To(f, f[a]))
  BY PlacementFacts
<1>3. /\ DOMAIN q2 = DOMAIN q \ DOMAIN f /\ \A a \in DOMAIN q2 : q2[a].id = q[a].id
      /\ \A a \in DOMAIN q : q[a].id \in AdmissionIds
  <2>1. DOMAIN q2 = DOMAIN q \ DOMAIN f /\ \A a \in DOMAIN q \ DOMAIN f : q2[a].id = q[a].id
    <3> DEFINE as == DOMAIN f
    <3> HIDE DEF as
    <3>1. /\ DOMAIN Dequeue(q, as) = DOMAIN q \ as
          /\ \A a \in DOMAIN q \ as : Dequeue(q, as)[a].id = q[a].id
      BY DequeueOK
    <3> QED
      BY <3>1 DEF as
  <2>2. \A a \in DOMAIN q : q[a].id \in AdmissionIds
    BY DEF QueueOK, EntryType
  <2> QED
    BY <2>1, <2>2
<1>4. RowsOK(d) /\ w \in BOOLEAN /\ \A a \in DOMAIN q : EntryOK(d, a, q[a])
  BY DEF ValueOK
\* The seats of those who came.
<1>5. ASSUME NEW r \in DOMAIN rs2, NEW s \in DOMAIN rs2[r].seats \ SeatsBefore(rs, r)
      PROVE  /\ rs2[r].seats[s].account \in DOMAIN f /\ f[rs2[r].seats[s].account] = r
             /\ SeatOK(d, rs2[r], s, w)
             /\ r \in DOMAIN rs => rs[r].match = None
  <2>1. rs2[r].seats[s].account \in DOMAIN f /\ f[rs2[r].seats[s].account] = r
    BY <1>1 DEF To
  <2>2. /\ rs2[r].seats[s].admission = q[rs2[r].seats[s].account].id /\ ~rs2[r].seats[s].ready
    BY <1>1
  <2>3. EntryOK(d, rs2[r].seats[s].account, q[rs2[r].seats[s].account])
    BY <1>2, <1>4, <2>1
  <2>4. SeatOK(d, rs2[r], s, w)
    BY <2>2, <2>3 DEF SeatOK, EntryOK
  <2>5. r \in DOMAIN rs => rs[r].match = None
    BY <1>2, <2>1 DEF MaySeat
  <2> QED
    BY <2>1, <2>4, <2>5
\* The rooms that were open before.
<1>6. ASSUME NEW r \in DOMAIN rs
      PROVE  /\ r \in DOMAIN rs2 /\ SeatsBefore(rs, r) = DOMAIN rs[r].seats
             /\ rs2[r].match = rs[r].match /\ rs2[r].pendingAbort = rs[r].pendingAbort
             /\ rs2[r].phase = rs[r].phase /\ Size(rs2[r]) = Size(rs[r])
  <2>1. r \in DOMAIN rs2 /\ Base(f, q, rs, r) = rs[r] /\ SeatsBefore(rs, r) = DOMAIN rs[r].seats
    BY <1>1 DEF Base, SeatsBefore
  <2>a. rs2[r] = [Base(f, q, rs, r) EXCEPT !.seats = rs2[r].seats]
    BY <1>1, <2>1
  <2>2. rs2[r] = [rs[r] EXCEPT !.seats = rs2[r].seats]
    BY <2>1, <2>a
  <2>3. rs[r] \in RoomType
    BY DEF TablesOK, Fits
  <2> DEFINE new == rs2[r]
             f2 == rs2[r].seats
  <2>4. new = [rs[r] EXCEPT !.seats = f2]
    BY <2>2
  <2> HIDE DEF new, f2
  <2>5. /\ new.match = rs[r].match /\ new.pendingAbort = rs[r].pendingAbort
        /\ new.phase = rs[r].phase /\ new.settings = rs[r].settings
    BY <2>3, <2>4 DEF RoomType
  <2> QED
    BY <2>1, <2>5 DEF new, Size
<1>7. ASSUME NEW r \in DOMAIN rs
      PROVE  RoomOK(d, rs2[r], w)
  <2>1. RoomOK(d, rs[r], w) /\ Fits(rs[r]) /\ Fits(rs2[r]) /\ Matches(rs2[r]) = Matches(rs[r])
    BY <1>1, <1>6 DEF ValueOK, TablesOK, Matches
  <2>2. ASSUME NEW s \in DOMAIN rs2[r].seats PROVE SeatOK(d, rs2[r], s, w)
    <3>1. CASE s \in DOMAIN rs[r].seats
      <4>1. SeatOK(d, rs[r], s, w)
        BY <2>1, <3>1 DEF RoomOK
      <4> QED
        BY <1>1, <1>6, <2>1, <3>1, <4>1 DEF SeatOK
    <3>2. CASE s \notin DOMAIN rs[r].seats
      BY <1>5, <1>6, <3>2
    <3> QED
      BY <3>1, <3>2
  <2>3. ASSUME NEW m, DOMAIN rs2[r].seats = DOMAIN rs[r].seats, Fills(d, rs[r], m)
        PROVE  Fills(d, rs2[r], m)
    BY <1>1, <2>3 DEF Fills
  <2>4. rs[r].match # None => DOMAIN rs2[r].seats = DOMAIN rs[r].seats
    <3>1. r \in DOMAIN rs2 /\ SeatsBefore(rs, r) = DOMAIN rs[r].seats
      BY <1>6
    <3>2. DOMAIN rs[r].seats \subseteq DOMAIN rs2[r].seats
      BY <1>1
    <3>3. ASSUME rs[r].match # None, NEW s \in DOMAIN rs2[r].seats PROVE s \in DOMAIN rs[r].seats
      BY <1>5, <3>1, <3>3
    <3> QED
      BY <3>2, <3>3
  <2>5. RunOK(d, rs2[r])
    BY <1>6, <2>1, <2>3, <2>4 DEF RoomOK, RunOK
  <2>6. AbortOK(d, rs2[r])
    <3>1. DOMAIN rs2[r].seats \subseteq 0..(Size(rs[r]) - 1) /\ DOMAIN rs[r].seats \subseteq DOMAIN rs2[r].seats
      BY <1>1, <1>6, <2>1 DEF Fits
    <3> QED
      BY <1>6, <2>1, <2>3, <3>1 DEF RoomOK, AbortOK
  <2> QED
    BY <2>2, <2>5, <2>6 DEF RoomOK
\* The rooms that are new.
<1>8. ASSUME NEW r \in DOMAIN rs2, r \notin DOMAIN rs
      PROVE  RoomOK(d, rs2[r], w) /\ Matches(rs2[r]) = {}
  <2>1. \E path, s : Base(f, q, rs, r) = NewRoom(path, s, <<>>)
    BY <1>8 DEF Base
  <2>a. PICK path : \E s : Base(f, q, rs, r) = NewRoom(path, s, <<>>)
    BY <2>1
  <2>2. PICK s : Base(f, q, rs, r) = NewRoom(path, s, <<>>)
    BY <2>a
  <2> DEFINE new == rs2[r]
             f2 == rs2[r].seats
             base == Base(f, q, rs, r)
  <2>3. new = [base EXCEPT !.seats = f2]
    BY <1>1
  <2>4. base.match = None /\ base.pendingAbort = None /\ base.phase = "lobby"
        /\ base = [path |-> path, settings |-> s, host |-> 0, seats |-> <<>>, pendingAbort |-> None,
                   match |-> None, phase |-> "lobby", rematching |-> FALSE]
    BY <2>2 DEF NewRoom
  <2> HIDE DEF new, f2, base
  <2>5. new.match = None /\ new.pendingAbort = None /\ new.phase = "lobby"
    BY <2>3, <2>4
  <2>6. rs2[r].match = None /\ rs2[r].pendingAbort = None /\ rs2[r].phase = "lobby"
    BY <2>5 DEF new
  <2>7. \A t \in DOMAIN rs2[r].seats : SeatOK(d, rs2[r], t, w)
    BY <1>5, <1>8 DEF SeatsBefore
  <2> QED
    BY <2>6, <2>7 DEF RoomOK, RunOK, AbortOK, Matches
<1>9. \A r \in DOMAIN rs2 : RoomOK(d, rs2[r], w)
  BY <1>7, <1>8
<1>10. ASSUME NEW r \in DOMAIN rs2, NEW x \in DOMAIN rs2, Matches(rs2[r]) \cap Matches(rs2[x]) # {}
       PROVE  r = x
  <2>1. r \in DOMAIN rs /\ x \in DOMAIN rs
    BY <1>8, <1>10
  <2>2. Matches(rs2[r]) = Matches(rs[r]) /\ Matches(rs2[x]) = Matches(rs[x])
    BY <1>6, <2>1 DEF Matches
  <2> QED
    BY <1>10, <2>1, <2>2 DEF ValueOK
<1>11. ASSUME NEW id \in AdmissionIds, NamedId(q, rs, id)
       PROVE  NamedId(q2, rs2, id)
  <2>1. ASSUME NEW r \in DOMAIN rs, id \in Admitted(rs[r].seats) PROVE NamedId(q2, rs2, id)
    <3>1. PICK s \in DOMAIN rs[r].seats : rs[r].seats[s].admission = id /\ id # None
      BY <2>1 DEF Admitted
    <3>2. r \in DOMAIN rs2 /\ s \in DOMAIN rs2[r].seats /\ rs2[r].seats[s].admission = id
      BY <1>1, <3>1
    <3>3. id \in Admitted(rs2[r].seats)
      BY <3>1, <3>2 DEF Admitted
    <3> QED
      BY <3>2, <3>3 DEF NamedId
  <2>2. ASSUME NEW a \in DOMAIN q, q[a].id = id PROVE NamedId(q2, rs2, id)
    <3>1. CASE a \in DOMAIN f
      <4>1. f[a] \in DOMAIN rs2 /\ a \in To(f, f[a])
        BY <1>1, <3>1 DEF To
      <4>2. PICK s \in DOMAIN rs2[f[a]].seats \ SeatsBefore(rs, f[a]) : rs2[f[a]].seats[s].account = a
        BY <1>1, <4>1
      <4>3. rs2[f[a]].seats[s].admission = id /\ id # None
        BY <1>1, <2>2, <4>1, <4>2, LobbyAssumption
      <4>4. id \in Admitted(rs2[f[a]].seats)
        BY <4>2, <4>3 DEF Admitted
      <4> QED
        BY <4>1, <4>4 DEF NamedId
    <3>2. CASE a \notin DOMAIN f
      BY <1>3, <2>2, <3>2 DEF NamedId
    <3> QED
      BY <3>1, <3>2
  <2> QED
    BY <1>11, <2>1, <2>2 DEF NamedId
<1>12. ASSUME NEW m, HeldMatch(rs, m) PROVE HeldMatch(rs2, m)
  <2>1. \A r \in DOMAIN rs : r \in DOMAIN rs2 /\ Matches(rs2[r]) = Matches(rs[r])
    BY <1>6 DEF Matches
  <2> QED
    BY <1>12, <2>1 DEF HeldMatch
<1>13. \A a \in DOMAIN q2 : EntryOK(d, a, q2[a])
  BY <1>3, <1>4 DEF EntryOK
<1>14. ValueOK(d, q2, rs2, w, {})
  BY <1>4, <1>9, <1>10, <1>11, <1>12, <1>13 DEF ValueOK
<1>15. SeatsKept(rs, d, rs2)
  BY <1>1, <1>6 DEF SeatsKept
<1> QED
  BY <1>14, <1>15

\* A handler that ends in matchQueues carries the agreement and the seats on.
LEMMA MatchQueuesValue ==
  ASSUME Fitting, Fitting', NEW d, NEW q, NEW rs, NEW ms, MatchQueues(d, q, rs, ms),
         QueueOK(q), TablesOK(rs), ValueOK(d, q, rs, draining', {}), SeatsKept(rooms, d, rs)
  PROVE  Carried
<1>1. PICK f \in Placements(q, rs) :
        Save(d, Dequeue(q, DOMAIN f), RoomsAfter(f, q, rs), Over(f, ms))
  BY DEF MatchQueues, RoomsAfter, Base, Came
<1> DEFINE rs2 == RoomsAfter(f, q, rs)
           q2 == Dequeue(q, DOMAIN f)
<1>2. ValueOK(d, q2, rs2, draining', {}) /\ SeatsKept(rs, d, rs2)
  BY MatchedValue
<1> HIDE DEF rs2, q2
<1>3. SeatsKept(rooms, d, rs2)
  BY <1>2 DEF SeatsKept
<1>4. Save(d, q2, rs2, Over(f, ms))
  BY <1>1 DEF q2, rs2
<1> QED
  BY <1>2, <1>3, <1>4, SaveValue

-----------------------------------------------------------------------------
(* A room changes together with its rows.                                   *)

\* A seat of the room stays while its match runs.
Sits(room, d2, new) ==
  room.match # None /\ d2.mat[room.match].state = "started" =>
    /\ new.match = room.match
    /\ \A s \in DOMAIN room.seats : s \in DOMAIN new.seats /\ new.seats[s].account = room.seats[s].account

\* Only the rows of the room's match change, or reservations are released.
Touches(d, room, d2) == RowsOK(d2) /\ RowsKept(d, d2, {}, Matches(room))

\* The room becomes new, and every row of it that is open keeps its name.
Goes(d, room, d2, new, w2) ==
  /\ Touches(d, room, d2) /\ RoomOK(d2, new, w2) /\ Matches(new) \subseteq Matches(room)
  /\ Sits(room, d2, new)
  /\ \A id \in AdmissionIds : d2.adm[id].state = "reserved" /\ id \in Admitted(room.seats) => id \in Admitted(new.seats)
  /\ \A m \in Matches(room) : d2.mat[m].state \in {"prepared", "started"} => m \in Matches(new)

\* No row of the room is open any more.
Gone(d, room, d2) ==
  /\ Touches(d, room, d2)
  /\ \A id \in AdmissionIds : id \in Admitted(room.seats) => d2.adm[id].state # "reserved"
  /\ \A m \in Matches(room) : d2.mat[m].state \notin {"prepared", "started"}

\* A room whose rows are closed may become any room of the same match.
LEMMA GoneGoes ==
  ASSUME NEW d, NEW room, NEW d2, Gone(d, room, d2), NEW new, NEW w2, RoomOK(d2, new, w2),
         Matches(new) \subseteq Matches(room)
  PROVE  Goes(d, room, d2, new, w2)
<1>1. room.match # None => d2.mat[room.match].state # "started"
  BY DEF Gone, Matches
<1> QED
  BY <1>1 DEF Gone, Goes, Sits

\* A room that became empty is gone.
LEMMA GoesGone ==
  ASSUME NEW d, NEW room, NEW d2, NEW new, NEW w2, Goes(d, room, d2, new, w2),
         DOMAIN new.seats = {}, Matches(new) = {}
  PROVE  Gone(d, room, d2)
<1>1. Admitted(new.seats) = {}
  BY DEF Admitted
<1> QED
  BY <1>1 DEF Gone, Goes

\* Two changes after another, the second of them without a change of rows
\* when the room has a match.
LEMMA GoesTwice ==
  ASSUME NEW d, NEW room, NEW d1, NEW mid, NEW w1, NEW d2, NEW new, NEW w2, Fits(room),
         Goes(d, room, d1, mid, w1), Goes(d1, mid, d2, new, w2), d1 = d2 \/ room.match = None
  PROVE  Goes(d, room, d2, new, w2)
<1>1. Matches(room) \subseteq MatchIds
  BY RoomFacts
<1>2. Touches(d, room, d2)
  BY DEF Goes, Touches, RowsKept
<1>3. Sits(room, d2, new)
  <2>1. CASE room.match = None
    BY <2>1 DEF Sits
  <2>2. CASE d1 = d2
    BY <2>2 DEF Goes, Sits
  <2> QED
    BY <2>1, <2>2
<1>4. \A id \in AdmissionIds : d2.adm[id].state = "reserved" => d1.adm[id].state = "reserved"
  BY DEF Goes, Touches, RowsKept
<1>5. ASSUME NEW m \in Matches(room), d2.mat[m].state \in {"prepared", "started"}
      PROVE  m \in Matches(new)
  <2>1. m \in MatchIds
    BY <1>1
  <2>2. CASE m \in Matches(mid)
    BY <1>5, <2>2 DEF Goes
  <2>3. CASE m \notin Matches(mid)
    <3>1. d2.mat[m] = d1.mat[m]
      BY <2>1, <2>3 DEF Goes, Touches, RowsKept
    <3> QED
      BY <1>5, <2>3, <3>1 DEF Goes
  <2> QED
    BY <2>2, <2>3
<1>6. /\ RoomOK(d2, new, w2) /\ Matches(new) \subseteq Matches(room)
      /\ \A id \in AdmissionIds : d2.adm[id].state = "reserved" /\ id \in Admitted(room.seats) => id \in Admitted(new.seats)
  BY <1>4 DEF Goes
<1> QED
  BY <1>2, <1>3, <1>5, <1>6 DEF Goes

\* A room that goes on and is then gone is gone.
LEMMA GoesThenGone ==
  ASSUME NEW d, NEW room, NEW d1, NEW mid, NEW w1, NEW d2, Fits(room),
         Goes(d, room, d1, mid, w1), Gone(d1, mid, d2)
  PROVE  Gone(d, room, d2)
<1>1. Matches(room) \subseteq MatchIds
  BY RoomFacts
<1>2. Touches(d, room, d2)
  BY DEF Goes, Gone, Touches, RowsKept
<1>3. \A id \in AdmissionIds : d2.adm[id].state = "reserved" => d1.adm[id].state = "reserved"
  BY DEF Gone, Touches, RowsKept
<1>4. ASSUME NEW m \in Matches(room) PROVE d2.mat[m].state \notin {"prepared", "started"}
  <2>1. m \in MatchIds
    BY <1>1
  <2>2. CASE m \in Matches(mid)
    BY <2>2 DEF Gone
  <2>3. CASE m \notin Matches(mid)
    <3>1. d2.mat[m] = d1.mat[m]
      BY <2>1, <2>3 DEF Gone, Touches, RowsKept
    <3> QED
      BY <2>3, <3>1 DEF Goes
  <2> QED
    BY <2>2, <2>3
<1>5. \A id \in AdmissionIds : id \in Admitted(room.seats) => d2.adm[id].state # "reserved"
  BY <1>3 DEF Goes, Gone
<1> QED
  BY <1>2, <1>4, <1>5 DEF Gone

\* The lobby after one room changed, or closed.
LEMMA GoesValue ==
  ASSUME NEW d, NEW q, NEW rs, NEW ms, NEW w, ValueOK(d, q, rs, w, {}), LobbyOK(q, rs, ms), NEW r \in DOMAIN rs,
         NEW d2, NEW new, NEW w2 \in BOOLEAN, (w => w2), Goes(d, rs[r], d2, new, w2), Fits(new),
         NEW rs2, rs2 = [rs EXCEPT ![r] = new]
  PROVE  ValueOK(d2, q, rs2, w2, {}) /\ SeatsKept(rs, d2, rs2)
<1> DEFINE M == Matches(rs[r])
<1>1. M \subseteq MatchIds /\ Matches(new) \subseteq M
  BY RoomFacts DEF LobbyOK, TablesOK, Goes
<1>2. DOMAIN rs2 = DOMAIN rs /\ rs2[r] = new /\ \A x \in DOMAIN rs : x # r => rs2[x] = rs[x]
  OBVIOUS
<1>3. Changed(rs, rs2, {r})
  BY <1>2 DEF Changed
<1>4. RoomSteps(d, rs, w, r, d2, rs2, w2, {}, M)
  BY <1>1, <1>2, <1>3 DEF RoomSteps, Goes, Touches
<1>5. ValueOK(d2, q, rs2, w2, {})
  BY <1>4, RoomStepValue
<1>6. SeatsKept(rs, d2, rs2)
  <2>1. ASSUME NEW x \in DOMAIN rs, rs[x].match # None, d2.mat[rs[x].match].state = "started"
        PROVE  /\ x \in DOMAIN rs2 /\ rs2[x].match = rs[x].match
               /\ \A s \in DOMAIN rs[x].seats :
                    s \in DOMAIN rs2[x].seats /\ rs2[x].seats[s].account = rs[x].seats[s].account
    <3>1. CASE x = r
      BY <1>2, <2>1, <3>1 DEF Goes, Sits
    <3>2. CASE x # r
      BY <1>2, <3>2
    <3> QED
      BY <3>1, <3>2
  <2> QED
    BY <2>1 DEF SeatsKept
<1> QED
  BY <1>5, <1>6

\* A room that is gone may be forgotten.
LEMMA GoneValue ==
  ASSUME NEW d, NEW q, NEW rs, NEW ms, NEW w, ValueOK(d, q, rs, w, {}), LobbyOK(q, rs, ms), NEW r \in DOMAIN rs,
         NEW d2, NEW w2 \in BOOLEAN, (w => w2), Gone(d, rs[r], d2), NEW rs2, rs2 = Without(rs, r)
  PROVE  ValueOK(d2, q, rs2, w2, {}) /\ SeatsKept(rs, d2, rs2)
<1> DEFINE M == Matches(rs[r])
<1>1. M \subseteq MatchIds
  BY RoomFacts DEF LobbyOK, TablesOK
<1>2. DOMAIN rs2 = DOMAIN rs \ {r} /\ \A x \in DOMAIN rs : x # r => rs2[x] = rs[x]
  BY DEF Without
<1>3. Changed(rs, rs2, {r})
  BY <1>2 DEF Changed
<1>4. RoomSteps(d, rs, w, r, d2, rs2, w2, {}, M)
  BY <1>1, <1>2, <1>3 DEF RoomSteps, Gone, Touches
<1>5. ValueOK(d2, q, rs2, w2, {})
  BY <1>4, RoomStepValue
<1>6. SeatsKept(rs, d2, rs2)
  <2>1. ASSUME NEW x \in DOMAIN rs, rs[x].match # None, d2.mat[rs[x].match].state = "started"
        PROVE  x \in DOMAIN rs2 /\ rs2[x] = rs[x]
    <3>1. CASE x = r
      BY <2>1, <3>1 DEF Gone, Matches
    <3>2. CASE x # r
      BY <1>2, <3>2
    <3> QED
      BY <3>1, <3>2
  <2> QED
    BY <2>1 DEF SeatsKept
<1> QED
  BY <1>5, <1>6

-----------------------------------------------------------------------------
(* What the durable calls do to a room.                                     *)

\* Reservations of the room that are released are forgotten, all other fields
\* that refer to rows stay.
Forgets(room, told, new, w2) ==
  /\ new.match = room.match /\ new.phase = room.phase /\ new.pendingAbort = room.pendingAbort
  /\ DOMAIN new.seats = DOMAIN room.seats /\ Size(new) = Size(room)
  /\ \A s \in DOMAIN new.seats :
       /\ new.seats[s].account = room.seats[s].account
       /\ new.seats[s].admission = IF room.seats[s].admission \in told THEN None ELSE room.seats[s].admission
       /\ new.seats[s].ready => new.seats[s].admission # None \/ new.pendingAbort # None \/ w2

\* A room whose seats forget what CancelReservation released goes on.
LEMMA ForgetsGoes ==
  ASSUME NEW d, RowsOK(d), NEW room, Fits(room), NEW w \in BOOLEAN, RoomOK(d, room, w), room.match = None,
         NEW ids \in SUBSET AdmissionIds, NEW o \in Releases(d, ids), NEW new, NEW w2 \in BOOLEAN, (w => w2),
         Forgets(room, o.told, new, w2)
  PROVE  Goes(d, room, o.db, new, w2)
<1>1. /\ RowsOK(o.db) /\ o.db.mat = d.mat /\ RowsKept(d, o.db, {}, {}) /\ o.told \subseteq ids
      /\ \A id \in o.told : o.db.adm[id].state = "released" /\ o.db.adm[id].match = None
  BY ReleasedRows
<1>2. RoomOK(o.db, room, w2)
  BY <1>1, KeptRoom
<1>3. None \notin o.told
  BY <1>1, LobbyAssumption
<1>4. ASSUME room.pendingAbort # None, o.db.mat[room.pendingAbort].state # "absent"
      PROVE  \A s \in DOMAIN new.seats : new.seats[s].admission = room.seats[s].admission
  <2>1. Fills(o.db, room, room.pendingAbort)
    BY <1>2, <1>4 DEF RoomOK, AbortOK
  <2>2. \A s \in DOMAIN room.seats : room.seats[s].admission \notin o.told
    BY <1>1, <1>4, <2>1 DEF Fills
  <2> QED
    BY <2>2 DEF Forgets
<1>5. RoomOK(o.db, new, w2)
  BY <1>2, <1>4, LessRoom DEF Forgets
<1>6. Touches(d, room, o.db)
  BY <1>1 DEF Touches, RowsKept
<1>7. Matches(new) = Matches(room) /\ Sits(room, o.db, new)
  BY DEF Matches, Sits, Forgets
<1>8. ASSUME NEW id \in Admitted(room.seats), o.db.adm[id].state = "reserved" PROVE id \in Admitted(new.seats)
  <2>1. id \notin o.told
    BY <1>1, <1>8
  <2>2. PICK s \in DOMAIN room.seats : room.seats[s].admission = id /\ id # None
    BY DEF Admitted
  <2>3. s \in DOMAIN new.seats /\ new.seats[s].admission = id
    BY <2>1, <2>2 DEF Forgets
  <2> QED
    BY <2>2, <2>3 DEF Admitted
<1> QED
  BY <1>5, <1>6, <1>7, <1>8 DEF Goes

\* All reservations of a room are released, and nothing was prepared.
LEMMA ReleasedGone ==
  ASSUME NEW d, RowsOK(d), NEW room, Fits(room), NEW w \in BOOLEAN, RoomOK(d, room, w), room.match = None,
         DOMAIN room.seats # {} \/ (room.pendingAbort # None => d.mat[room.pendingAbort].state = "absent"),
         NEW o \in Releases(d, Admitted(room.seats)), o.told = Admitted(room.seats)
  PROVE  /\ Gone(d, room, o.db) /\ RoomOK(o.db, room, w)
         /\ room.pendingAbort # None => o.db.mat[room.pendingAbort].state = "absent"
<1>1. /\ RowsOK(o.db) /\ o.db.mat = d.mat /\ RowsKept(d, o.db, {}, {})
      /\ \A id \in o.told : o.db.adm[id].state = "released" /\ o.db.adm[id].match = None
  BY ReleasedRows, RoomFacts
<1>2. RoomOK(o.db, room, w)
  BY <1>1, KeptRoom
<1>3. ASSUME room.pendingAbort # None, o.db.mat[room.pendingAbort].state # "absent" PROVE FALSE
  <2>1. Fills(o.db, room, room.pendingAbort)
    BY <1>2, <1>3 DEF RoomOK, AbortOK
  <2>2. PICK s \in DOMAIN room.seats : TRUE
    BY <1>1, <1>3
  <2>3. room.seats[s].admission \in o.told /\ o.db.adm[room.seats[s].admission].match = room.pendingAbort
    BY <2>1, <2>2 DEF Fills, Admitted
  <2> QED
    BY <1>1, <1>3, <2>3
<1>4. Touches(d, room, o.db)
  BY <1>1 DEF Touches, RowsKept
<1>5. \A m \in Matches(room) : o.db.mat[m].state \notin {"prepared", "started"}
  BY <1>3 DEF Matches
<1> QED
  BY <1>1, <1>2, <1>3, <1>4, <1>5 DEF Gone

\* The room of a match whose row is closed.
LEMMA ClosedGone ==
  ASSUME NEW d, NEW room, Fits(room), NEW w, RoomOK(d, room, w), NEW d2, Touches(d, room, d2),
         NEW m \in MatchIds, Matches(room) = {m}, Fills(d2, room, m),
         d2.mat[m].state \in {"cancelled", "interrupted", "completed"}
  PROVE  Gone(d, room, d2)
<1>1. LinksOK(d2)
  BY DEF Touches, RowsOK
<1>2. ASSUME NEW id \in Admitted(room.seats) PROVE d2.adm[id].state # "reserved"
  <2>1. PICK s \in DOMAIN room.seats : room.seats[s].admission = id /\ id # None
    BY DEF Admitted
  <2>2. id \in AdmissionIds /\ d2.adm[id].match = m /\ m # None
    BY <2>1, RoomFacts, LobbyAssumption DEF Fills
  <2>3. d2.adm[id].state = Follows(d2.mat[m].state)
    BY <1>1, <2>2 DEF LinksOK
  <2> QED
    BY <2>3 DEF Follows
<1>3. \A n \in Matches(room) : d2.mat[n].state \notin {"prepared", "started"}
  OBVIOUS
<1> QED
  BY <1>2, <1>3 DEF Gone

\* A match that is started can be interrupted: it consumed no allowance.
LEMMA MayInterruptStarted ==
  ASSUME NEW d, RowsOK(d), NEW m \in MatchIds, d.mat[m].state = "started"
  PROVE  Values!MayInterrupt(d, m, Owner)
<1>1. RowTypes(d) /\ LinksOK(d) /\ m # None
  BY LobbyAssumption DEF RowsOK
<1>2. \A id \in Values!Seated(d, m) : d.adm[id].state = "started"
  BY <1>1 DEF Values!Seated, LinksOK, Follows
<1>3. d.mat[m].owner = Owner
  BY <1>1 DEF LinksOK
<1>4. ASSUME NEW a \in Accounts, NEW t \in {1}
      PROVE  Values!Cardinality(Values!Consumed(d, m, a, t)) <= d.count[a][t]
  <2>1. \A id \in AdmissionIds : d.adm[id].kind # "free"
    BY <1>1, RowFacts DEF AdmissionRow
  <2>2. Values!Consumed(d, m, a, t) = {}
    BY <2>1 DEF Values!Consumed, Values!Seated
  <2>3. \A S : Values!Cardinality(S) = Cardinality(S)
    BY DEF Values!Cardinality, Cardinality
  <2>4. Values!Cardinality(Values!Consumed(d, m, a, t)) = 0
    BY <2>2, <2>3, FS_EmptySet
  <2>5. d.count[a][t] = 0
    BY <1>1, RowFacts DEF NoCount
  <2> QED
    BY <2>4, <2>5
<1> QED
  BY <1>2, <1>3, <1>4 DEF Values!MayInterrupt, Values!Fenced

\* What CancelPrepared or Interrupt do to the row of a match.
LEMMA AbortedRows ==
  ASSUME NEW d, RowsOK(d), NEW m \in MatchIds, Abortable(d, m), NEW d2, d2 = Aborted(d, m)
  PROVE  RowsOK(d2) /\ RowsKept(d, d2, {}, {m}) /\ d2.mat[m].state \in {"cancelled", "interrupted"}
<1>1. RowTypes(d) /\ LinksOK(d) /\ m # None
  BY LobbyAssumption DEF RowsOK
<1>2. CASE d.mat[m].state = "prepared"
  <2>1. \A id \in Values!Seated(d, m) : d.adm[id].state = "reserved"
    BY <1>1, <1>2 DEF Values!Seated, LinksOK, Follows
  <2>2. d.mat[m].owner = Owner
    BY <1>1, <1>2 DEF LinksOK
  <2>3. Values!MayCancelPrepared(d, m, Owner)
    BY <1>2, <2>1, <2>2 DEF Values!MayCancelPrepared, Values!Fenced
  <2>4. ~Values!MayInterrupt(d, m, Owner)
    BY <1>2 DEF Values!MayInterrupt, Values!Fenced
  <2>5. d2 = Values!CancelPrepared(d, m)
    BY <2>3, <2>4 DEF Aborted
  <2> QED
    BY <1>2, <2>5, CancelledRows
<1>3. CASE d.mat[m].state = "started"
  <2>1. ~Values!MayCancelPrepared(d, m, Owner)
    BY <1>3 DEF Values!MayCancelPrepared, Values!Fenced
  <2>5. Values!MayInterrupt(d, m, Owner)
    BY <1>3, MayInterruptStarted
  <2>6. d2 = Values!Interrupt(d, m)
    BY <2>1, <2>5 DEF Aborted
  <2> QED
    BY <1>3, <2>6, InterruptedRows
<1>4. CASE d.mat[m].state \in {"cancelled", "interrupted"}
  <2>1. d2 = d
    BY <1>4 DEF Aborted, Values!MayCancelPrepared, Values!MayInterrupt, Values!Fenced
  <2> QED
    BY <1>4, <2>1, RowsSame
<1> QED
  BY <1>2, <1>3, <1>4 DEF Abortable

\* The fields of a room that was cleared.
LEMMA ClearedFacts ==
  ASSUME NEW room, Fits(room), NEW new, new = Cleared(room)
  PROVE  /\ new.match = room.match /\ new.phase = room.phase /\ new.pendingAbort = None
         /\ \A s \in DOMAIN new.seats : new.seats[s].admission = None /\ ~new.seats[s].ready
<1>1. room \in RoomType /\ room.seats \in SeatMaps
  BY DEF Fits, RoomType
<1> DEFINE f == Forget(room.seats, Admitted(room.seats))
<1>2. f \in SeatMaps /\ DOMAIN f = DOMAIN room.seats /\ \A s \in DOMAIN f : f[s].admission = None
  <2>1. \A s \in DOMAIN room.seats : room.seats[s].admission \in Admitted(room.seats) \/ room.seats[s].admission = None
    BY DEF Admitted
  <2> QED
    BY <1>1, <2>1, ForgetFacts
<1> DEFINE g == Invalidate(f)
<1>3. g \in SeatMaps /\ DOMAIN g = DOMAIN f /\ \A s \in DOMAIN g : g[s].admission = None /\ ~g[s].ready
  <2> HIDE DEF f
  <2>1. /\ g \in SeatMaps /\ DOMAIN g = DOMAIN f
        /\ \A s \in DOMAIN f : g[s].admission = f[s].admission /\ g[s].ready = FALSE
    BY <1>2, InvalidateFacts
  <2> HIDE DEF g
  <2> QED
    BY <1>2, <2>1
<1>4. new = [room EXCEPT !.pendingAbort = None, !.seats = g]
  BY DEF Cleared
<1> HIDE DEF f, g
<1>5. new.seats = g /\ new.pendingAbort = None /\ new.match = room.match /\ new.phase = room.phase
  BY <1>1, <1>4 DEF RoomType
<1> QED
  BY <1>3, <1>5

\* abortPrepared leaves a room that goes on, and clears it when it answers nil.
LEMMA AbortGoes ==
  ASSUME NEW d, RowsOK(d), NEW room, Fits(room), NEW w \in BOOLEAN, RoomOK(d, room, w), room.pendingAbort # None,
         NEW o \in AbortPrepared(d, room)
  PROVE  /\ Goes(d, room, o.db, o.room, w)
         /\ o.ok => o.room = Cleared(room)
<1> DEFINE m == room.pendingAbort
<1>1. /\ m \in MatchIds /\ m # None /\ room.match = None /\ room.phase = "lobby" /\ Matches(room) = {m}
      /\ Admitted(room.seats) \subseteq AdmissionIds
  BY RoomFacts DEF RoomOK, RunOK, Matches
<1>2. /\ Cleared(room).match = None /\ Cleared(room).phase = "lobby" /\ Cleared(room).pendingAbort = None
      /\ \A s \in DOMAIN Cleared(room).seats : Cleared(room).seats[s].admission = None /\ ~Cleared(room).seats[s].ready
      /\ Matches(Cleared(room)) = {}
  BY <1>1, ClearedFacts DEF Matches
<1>3. \A d2 : Gone(d, room, d2) => Goes(d, room, d2, Cleared(room), w)
  <2>1. ASSUME NEW d2, Gone(d, room, d2) PROVE Goes(d, room, d2, Cleared(room), w)
    <3> DEFINE new == Cleared(room)
    <3>1. RoomOK(d2, new, w)
      BY <1>2, BareRoom
    <3>2. Matches(new) \subseteq Matches(room)
      BY <1>2
    <3> HIDE DEF new
    <3>3. Goes(d, room, d2, new, w)
      BY <2>1, <3>1, <3>2, GoneGoes
    <3> QED
      BY <3>3 DEF new
  <2> QED
    BY <2>1
<1>4. CASE d.mat[m].state = "absent"
  <2>a. PICK p \in Releases(d, Admitted(room.seats)) :
        o = [db |-> p.db, ok |-> p.told = Admitted(room.seats),
             room |-> IF p.told = Admitted(room.seats) THEN Cleared(room)
                      ELSE [room EXCEPT !.seats = Forget(@, p.told)]]
    BY <1>4 DEF AbortPrepared
  <2>b. o.db = p.db /\ o.ok = (p.told = Admitted(room.seats))
        /\ o.room = IF p.told = Admitted(room.seats) THEN Cleared(room) ELSE [room EXCEPT !.seats = Forget(@, p.told)]
    BY <2>a
  <2>1. CASE p.told = Admitted(room.seats)
    <3>1. Gone(d, room, p.db)
      BY <1>1, <1>4, <2>1, ReleasedGone
    <3> QED
      BY <1>3, <2>1, <2>b, <3>1
  <2>2. CASE p.told # Admitted(room.seats)
    <3> DEFINE new == [room EXCEPT !.seats = Forget(@, p.told)]
               told == p.told
    <3>1. /\ new.match = room.match /\ new.phase = room.phase /\ new.pendingAbort = room.pendingAbort
          /\ Size(new) = Size(room) /\ new.seats = Forget(room.seats, told)
      BY DEF Fits, RoomType, Size
    <3>2. room.seats \in SeatMaps
      BY DEF Fits, RoomType
    <3>3. /\ DOMAIN new.seats = DOMAIN room.seats
          /\ \A s \in DOMAIN room.seats :
               /\ new.seats[s].account = room.seats[s].account
               /\ new.seats[s].admission = IF room.seats[s].admission \in told THEN None ELSE room.seats[s].admission
      <4> HIDE DEF new, told
      <4> QED
        BY <3>1, <3>2, ForgetFacts
    <3>4. Forgets(room, told, new, w)
      <4> HIDE DEF new, told
      <4> QED
        BY <1>1, <3>1, <3>3 DEF Forgets
    <3> HIDE DEF new
    <3>5. Goes(d, room, p.db, new, w)
      BY <1>1, <3>4, ForgetsGoes
    <3> QED
      BY <2>2, <2>b, <3>5 DEF new
  <2> QED
    BY <2>1, <2>2
<1>5. CASE d.mat[m].state # "absent"
  <2> DEFINE after == Aborted(d, m)
  <2>1. \/ o = [db |-> d, ok |-> FALSE, room |-> room]
        \/ Abortable(d, m) /\ o = [db |-> after, ok |-> FALSE, room |-> room]
        \/ Abortable(d, m) /\ o = [db |-> after, ok |-> TRUE, room |-> Cleared(room)]
    BY <1>5 DEF AbortPrepared
  <2>2. Goes(d, room, d, room, w)
    BY RowsSame DEF Goes, Touches, Sits
  <2>3. ASSUME Abortable(d, m)
        PROVE  Gone(d, room, after) /\ RoomOK(after, room, w)
    <3>1. RowsOK(after) /\ RowsKept(d, after, {}, {m}) /\ after.mat[m].state \in {"cancelled", "interrupted"}
      BY <1>1, <2>3, AbortedRows
    <3> HIDE DEF after
    <3>2. Touches(d, room, after)
      BY <1>1, <3>1 DEF Touches
    <3>3. Fills(d, room, m) /\ DOMAIN room.seats = 0..(Size(room) - 1)
      BY <1>1, <1>5 DEF RoomOK, AbortOK
    <3> DEFINE M == {m}
    <3>a. RowsKept(d, after, {}, M) /\ \A s \in DOMAIN room.seats : SeatOK(d, room, s, w)
      BY <3>1 DEF RoomOK
    <3>4. (\A s \in DOMAIN room.seats : SeatOK(after, room, s, w)) /\ Fills(after, room, m)
      <4> HIDE DEF M, m
      <4> QED
        BY <3>a, <3>3, KeptSeats
    <3>5. RoomOK(after, room, w)
      BY <1>1, <3>1, <3>3, <3>4 DEF RoomOK, RunOK, AbortOK
    <3>6. Gone(d, room, after)
      BY <1>1, <3>1, <3>2, <3>4, ClosedGone
    <3> QED
      BY <3>5, <3>6
  <2> HIDE DEF after
  <2>4. ASSUME Abortable(d, m) PROVE Goes(d, room, after, room, w) /\ Goes(d, room, after, Cleared(room), w)
    BY <1>3, <2>3, <2>4, GoneGoes
  <2> QED
    BY <2>1, <2>2, <2>4
<1> QED
  BY <1>4, <1>5

\* A room of a match after its row went along with its phase.
LEMMA PhaseGoes ==
  ASSUME NEW d, NEW room, Fits(room), NEW w \in BOOLEAN, RoomOK(d, room, w), room.match # None,
         NEW d2, RowsOK(d2), RowsKept(d, d2, {}, {room.match}),
         NEW phase \in {"playing", "finishing", "interrupting", "verdict"},
         d2.mat[room.match].state \in RowStates(phase), NEW new, new = [room EXCEPT !.phase = phase]
  PROVE  Goes(d, room, d2, new, w)
<1> DEFINE m == room.match
           M == {m}
<1>1. m # None /\ room.pendingAbort = None /\ Matches(room) = M /\ Fills(d, room, m) /\ RowsKept(d, d2, {}, M)
  BY DEF RoomOK, RunOK, Matches
<1>2. (\A s \in DOMAIN room.seats : SeatOK(d2, room, s, w)) /\ Fills(d2, room, m)
  <2>1. \A s \in DOMAIN room.seats : SeatOK(d, room, s, w)
    BY DEF RoomOK
  <2> HIDE DEF M, m
  <2> QED
    BY <1>1, <2>1, KeptSeats
<1>3. new.match = m /\ new.pendingAbort = None /\ new.phase = phase /\ new.seats = room.seats
  BY <1>1 DEF Fits, RoomType
<1>4. Matches(new) = Matches(room)
  BY <1>1, <1>3 DEF Matches
<1> HIDE DEF m, M
<1>5. RoomOK(d2, new, w)
  <2>1. \A s \in DOMAIN new.seats : SeatOK(d2, new, s, w)
    BY <1>1, <1>2, <1>3, <1>4 DEF SeatOK
  <2>2. RunOK(d2, new)
    BY <1>1, <1>2, <1>3 DEF RunOK, Fills, m
  <2>3. AbortOK(d2, new)
    BY <1>3 DEF AbortOK
  <2> QED
    BY <2>1, <2>2, <2>3 DEF RoomOK
<1>6. Touches(d, room, d2)
  BY <1>1 DEF Touches
<1>7. Sits(room, d2, new)
  BY <1>3 DEF Sits, m
<1> QED
  BY <1>3, <1>4, <1>5, <1>6, <1>7 DEF Goes

\* What Finish or Interrupt do to the row of a match.
LEMMA EndedRows ==
  ASSUME NEW d, RowsOK(d), NEW m \in MatchIds, NEW ending \in {"finishing", "interrupting"},
         d.mat[m].state \in RowStates(ending), NEW d2, d2 = Ended(d, m, ending)
  PROVE  /\ RowsOK(d2) /\ RowsKept(d, d2, {}, {m})
         /\ d2.mat[m].state \in RowStates(ending) /\ d2.mat[m].state \in RowStates("verdict")
<1>1. LinksOK(d)
  BY DEF RowsOK
<1>2. /\ RowStates("finishing") = {"started", "completed"} /\ RowStates("interrupting") = {"started", "interrupted"}
      /\ RowStates("verdict") = {"completed", "interrupted"}
  BY DEF RowStates
<1>3. CASE d.mat[m].state = "started" /\ ending = "finishing"
  <2>1. Values!MayFinish(d, m, Owner)
    BY <1>1, <1>3 DEF Values!MayFinish, Values!Fenced, LinksOK
  <2>2. d2 = Values!Finish(d, m)
    BY <1>3, <2>1 DEF Ended
  <2> QED
    BY <1>2, <1>3, <2>2, FinishedRows
<1>4. CASE d.mat[m].state = "started" /\ ending = "interrupting"
  <2>1. Values!MayInterrupt(d, m, Owner)
    BY <1>4, MayInterruptStarted
  <2>2. d2 = Values!Interrupt(d, m)
    BY <1>4, <2>1 DEF Ended
  <2> QED
    BY <1>2, <1>4, <2>2, InterruptedRows
<1>5. CASE d.mat[m].state # "started"
  <2>1. d2 = d
    BY <1>5 DEF Ended, Values!MayFinish, Values!MayInterrupt, Values!Fenced
  <2> QED
    BY <1>2, <1>5, <2>1, RowsSame
<1> QED
  BY <1>3, <1>4, <1>5

\* An engine call that ends the match.
LEMMA EndsGoes ==
  ASSUME NEW d, RowsOK(d), NEW room, Fits(room), NEW w \in BOOLEAN, RoomOK(d, room, w), room.match # None,
         room.phase # "verdict", NEW ending \in {"finishing", "interrupting"},
         room.phase \in {"playing", ending}, NEW o \in Ends(d, room, ending)
  PROVE  Goes(d, room, o.db, o.room, w)
<1> DEFINE m == room.match
           after == Ended(d, m, ending)
<1>1. m \in MatchIds /\ d.mat[m].state \in RowStates(ending)
  <2>1. m \in MatchIds /\ d.mat[m].state \in RowStates(room.phase)
    BY RoomFacts DEF RoomOK, RunOK
  <2>2. RowStates("playing") \subseteq RowStates(ending)
    BY DEF RowStates
  <2> QED
    BY <2>1, <2>2
<1>2. /\ RowsOK(after) /\ RowsKept(d, after, {}, {m})
      /\ after.mat[m].state \in RowStates(ending) /\ after.mat[m].state \in RowStates("verdict")
  BY <1>1, EndedRows
<1>3. /\ o.db \in {d, after}
      /\ o.room = [room EXCEPT !.phase = ending] \/ (o.db = after /\ o.room = [room EXCEPT !.phase = "verdict"])
  BY DEF Ends
<1> HIDE DEF after
<1>4. CASE o.room = [room EXCEPT !.phase = ending]
  <2>1. RowsOK(o.db) /\ RowsKept(d, o.db, {}, {room.match}) /\ o.db.mat[room.match].state \in RowStates(ending)
    BY <1>1, <1>2, <1>3, RowsSame
  <2> QED
    BY <1>4, <2>1, PhaseGoes
<1>5. CASE o.db = after /\ o.room = [room EXCEPT !.phase = "verdict"]
  <2>1. RowsOK(o.db) /\ RowsKept(d, o.db, {}, {room.match}) /\ o.db.mat[room.match].state \in RowStates("verdict")
    BY <1>2, <1>5
  <2> QED
    BY <1>5, <2>1, PhaseGoes
<1> QED
  BY <1>3, <1>4, <1>5

\* A room that nothing changes goes on.
LEMMA SameGoes ==
  ASSUME NEW d, RowsOK(d), NEW room, NEW w, RoomOK(d, room, w)
  PROVE  Goes(d, room, d, room, w)
BY RowsSame DEF Goes, Touches, Sits

\* A room goes on after Apply, Advance or SetConnected.
LEMMA PlaysGoes ==
  ASSUME NEW d, RowsOK(d), NEW room, Fits(room), NEW w \in BOOLEAN, RoomOK(d, room, w), room.match # None,
         NEW o \in Plays(d, room)
  PROVE  Goes(d, room, o.db, o.room, w)
<1>1. room.phase \in {"playing", "finishing", "interrupting", "verdict"}
  BY RoomFacts DEF RoomOK, RunOK
<1>2. CASE room.phase = "playing"
  <2>1. o \in Ends(d, room, "finishing") \/ o \in [db : {d}, ok : BOOLEAN, room : {room}]
    BY <1>2 DEF Plays
  <2>2. o \in [db : {d}, ok : BOOLEAN, room : {room}] => o.db = d /\ o.room = room
    OBVIOUS
  <2> QED
    BY <1>2, <2>1, <2>2, EndsGoes, SameGoes
<1>3. CASE room.phase = "verdict"
  <2>1. o = [db |-> d, ok |-> TRUE, room |-> room]
    BY <1>3 DEF Plays
  <2>2. o.db = d /\ o.room = room
    BY <2>1
  <2> QED
    BY <2>2, SameGoes
<1>4. CASE room.phase \in {"finishing", "interrupting"}
  <2>1. o \in Ends(d, room, room.phase)
    BY <1>4 DEF Plays
  <2> QED
    BY <1>4, <2>1, EndsGoes
<1> QED
  BY <1>1, <1>2, <1>3, <1>4

\* Release calls that the room does not take notice of.
LEMMA StayGoes ==
  ASSUME NEW d, RowsOK(d), NEW room, Fits(room), NEW w \in BOOLEAN, RoomOK(d, room, w),
         NEW ids \in SUBSET AdmissionIds, NEW o \in Releases(d, ids)
  PROVE  Goes(d, room, o.db, room, w)
<1>1. RowsOK(o.db) /\ RowsKept(d, o.db, {}, {})
  BY ReleasedRows
<1>2. RoomOK(o.db, room, w)
  BY <1>1, KeptRoom
<1>3. Touches(d, room, o.db)
  BY <1>1 DEF Touches, RowsKept
<1> QED
  BY <1>2, <1>3 DEF Goes, Sits

\* The same room but for its host and its way of rematching.
Alike(new, room) ==
  /\ new.match = room.match /\ new.phase = room.phase /\ new.pendingAbort = room.pendingAbort
  /\ new.settings = room.settings /\ new.seats = room.seats

\* What else changes in the room makes no difference.
LEMMA AlikeGoes ==
  ASSUME NEW d, NEW room, NEW d2, NEW mid, NEW w, Goes(d, room, d2, mid, w), NEW new, Alike(new, mid)
  PROVE  Goes(d, room, d2, new, w)
<1>1. Matches(new) = Matches(mid) /\ Sits(room, d2, new)
  BY DEF Matches, Alike, Goes, Sits
<1>2. RoomOK(d2, new, w)
  BY <1>1 DEF Goes, RoomOK, SeatOK, RunOK, AbortOK, Fills, Alike, Size
<1> QED
  BY <1>1, <1>2 DEF Goes, Alike

\* The same seats, of which at most ready marks were taken back.
Seatwise(new, mid) ==
  /\ new.match = mid.match /\ new.phase = mid.phase /\ new.pendingAbort = mid.pendingAbort
  /\ Size(new) = Size(mid) /\ DOMAIN new.seats = DOMAIN mid.seats
  /\ \A s \in DOMAIN mid.seats : /\ new.seats[s].account = mid.seats[s].account
                                 /\ new.seats[s].admission = mid.seats[s].admission
                                 /\ new.seats[s].ready => mid.seats[s].ready

\* A mark that a seat loses makes no difference.
LEMMA SeatwiseGoes ==
  ASSUME NEW d, NEW room, NEW d2, NEW mid, NEW w, Goes(d, room, d2, mid, w), NEW new, Seatwise(new, mid)
  PROVE  Goes(d, room, d2, new, w)
<1>1. RoomOK(d2, mid, w)
  BY DEF Goes
<1>2. \A s \in DOMAIN mid.seats : mid.seats[s].ready => mid.seats[s].admission # None \/ mid.pendingAbort # None \/ w
  BY <1>1 DEF RoomOK, SeatOK
<1>3. RoomOK(d2, new, w)
  BY <1>1, <1>2, LessRoom DEF Seatwise
<1>4. Admitted(new.seats) = Admitted(mid.seats)
  BY DEF Admitted, Seatwise
<1>5. Matches(new) = Matches(mid) /\ Sits(room, d2, new)
  BY DEF Goes, Matches, Sits, Seatwise
<1> QED
  BY <1>3, <1>4, <1>5 DEF Goes

\* Ready marks that are taken back.
LEMMA UnreadyGoes ==
  ASSUME NEW d, NEW room, NEW d2, NEW mid, NEW w, Goes(d, room, d2, mid, w), Fits(mid),
         NEW new, new = [mid EXCEPT !.seats = Invalidate(@)]
  PROVE  Goes(d, room, d2, new, w)
<1>1. /\ new.match = mid.match /\ new.phase = mid.phase /\ new.pendingAbort = mid.pendingAbort
      /\ Size(new) = Size(mid) /\ new.seats = Invalidate(mid.seats)
  BY DEF Fits, RoomType, Size
<1>2. mid.seats \in SeatMaps
  BY DEF Fits, RoomType
<1>3. /\ DOMAIN new.seats = DOMAIN mid.seats
      /\ \A s \in DOMAIN mid.seats : /\ new.seats[s].account = mid.seats[s].account
                                     /\ new.seats[s].admission = mid.seats[s].admission
                                     /\ new.seats[s].ready = FALSE
  <2> DEFINE f == mid.seats
             g == Invalidate(f)
  <2>1. f \in SeatMaps /\ new.seats = g
    BY <1>1, <1>2
  <2> HIDE DEF f
  <2>2. /\ DOMAIN g = DOMAIN f
        /\ \A s \in DOMAIN f : /\ g[s].account = f[s].account /\ g[s].admission = f[s].admission
                                /\ g[s].ready = FALSE
    BY <2>1, InvalidateFacts
  <2> HIDE DEF g
  <2> QED
    BY <2>1, <2>2 DEF f
<1>4. Seatwise(new, mid)
  BY <1>1, <1>3 DEF Seatwise
<1> QED
  BY <1>4, SeatwiseGoes

\* A process that drains asks less of a room.
LEMMA DrainingRoom ==
  ASSUME NEW d, NEW room, NEW w, RoomOK(d, room, w), NEW w2, (w => w2)
  PROVE  RoomOK(d, room, w2)
BY DEF RoomOK, SeatOK

-----------------------------------------------------------------------------
(* The steps of the lobby.                                                  *)

\* Lobby and rows agree before the step, and the lobby is one after it.
Valued ==
  Settled /\ Settled' /\ RowsInv /\ draining' \in BOOLEAN /\ (draining => draining')

\* What holds before such a step.
LEMMA ValuedFacts ==
  ASSUME Valued
  PROVE  /\ LobbyOK(queues, rooms, members) /\ Fitting /\ Fitting' /\ ValueOK(db, queues, rooms, draining, {})
         /\ ValueOK(db, queues, rooms, draining', {}) /\ draining' \in BOOLEAN /\ RowsOK(db)
<1>1. /\ LobbyOK(queues, rooms, members) /\ Fitting /\ Fitting' /\ ValueOK(db, queues, rooms, draining, {})
      /\ draining' \in BOOLEAN /\ RowsOK(db) /\ (draining => draining')
  BY DEF Valued, Settled, LobbyOK, Fitting, RowsInv, ValueOK
<1>2. \A r \in DOMAIN rooms : RoomOK(db, rooms[r], draining')
  BY <1>1, DrainingRoom DEF ValueOK
<1>3. ValueOK(db, queues, rooms, draining', {})
  BY <1>1, <1>2 DEF ValueOK
<1> QED
  BY <1>1, <1>3

\* What holds of a room before such a step.
LEMMA RoomValue ==
  ASSUME Valued, NEW r \in DOMAIN rooms
  PROVE  /\ Fits(rooms[r]) /\ Apart(rooms[r]) /\ RoomOK(db, rooms[r], draining') /\ RowsOK(db) /\ draining' \in BOOLEAN
         /\ Admitted(rooms[r].seats) \in SUBSET AdmissionIds
BY ValuedFacts, RoomFacts DEF LobbyOK, TablesOK, ValueOK

\* Saving a room that goes on carries the agreement on.
LEMMA SavedGoes ==
  ASSUME Valued, NEW r \in DOMAIN rooms, NEW d, NEW new, Fits(new), Goes(db, rooms[r], d, new, draining'),
         NEW ms, Save(d, queues, [rooms EXCEPT ![r] = new], ms)
  PROVE  Carried
<1> DEFINE rs2 == [rooms EXCEPT ![r] = new]
<1>1. ValueOK(d, queues, rs2, draining', {}) /\ SeatsKept(rooms, d, rs2)
  BY ValuedFacts, GoesValue
<1>2. Save(d, queues, rs2, ms)
  OBVIOUS
<1> HIDE DEF rs2
<1> QED
  BY <1>1, <1>2, ValuedFacts, SaveValue

\* Removing a room that is gone carries the agreement on.
LEMMA SavedGone ==
  ASSUME Valued, NEW r \in DOMAIN rooms, NEW d, Gone(db, rooms[r], d),
         NEW ms, Save(d, queues, Without(rooms, r), ms)
  PROVE  Carried
<1> DEFINE rs2 == Without(rooms, r)
<1>1. ValueOK(d, queues, rs2, draining', {}) /\ SeatsKept(rooms, d, rs2)
  BY ValuedFacts, GoneValue
<1>2. Save(d, queues, rs2, ms)
  OBVIOUS
<1> HIDE DEF rs2
<1> QED
  BY <1>1, <1>2, ValuedFacts, SaveValue

\* Saving a room that goes on, and then matchQueues, carries the agreement on.
LEMMA MatchedGoes ==
  ASSUME Valued, NEW r \in DOMAIN rooms, NEW d, NEW new, Fits(new), Apart(new), Goes(db, rooms[r], d, new, draining'),
         NEW ms, MatchQueues(d, queues, [rooms EXCEPT ![r] = new], ms)
  PROVE  Carried
<1> DEFINE rs2 == [rooms EXCEPT ![r] = new]
<1>1. ValueOK(d, queues, rs2, draining', {}) /\ SeatsKept(rooms, d, rs2)
  BY ValuedFacts, GoesValue
<1>2. MatchQueues(d, queues, rs2, ms)
  OBVIOUS
<1>3. TablesOK(rs2) /\ QueueOK(queues)
  BY ValuedFacts DEF Fitting, TablesOK
<1> HIDE DEF rs2
<1> QED
  BY <1>1, <1>2, <1>3, ValuedFacts, MatchQueuesValue

\* The seats that a player gives up, and those who stay.
LEMMA GivenUpFacts ==
  ASSUME NEW room, Fits(room), NEW x \in DOMAIN room.seats, NEW left, left = GivenUp(room, x)
  PROVE  /\ left.match = room.match /\ left.phase = room.phase /\ left.pendingAbort = room.pendingAbort
         /\ Size(left) = Size(room) /\ DOMAIN left.seats = DOMAIN room.seats \ {x}
         /\ \A s \in DOMAIN left.seats : /\ left.seats[s].account = room.seats[s].account
                                         /\ left.seats[s].admission = room.seats[s].admission
                                         /\ ~left.seats[s].ready
<1> DEFINE f == Without(room.seats, x)
           g == Invalidate(f)
<1>1. left = [room EXCEPT !.seats = g] /\ room \in RoomType /\ room.seats \in SeatMaps
  BY DEF GivenUp, Fits, RoomType
<1>2. f = [s \in DOMAIN room.seats \ {x} |-> room.seats[s]]
  BY DEF Without
<1> DEFINE stay == DOMAIN room.seats \ {x}
<1>3. f = [s \in stay |-> room.seats[s]] /\ stay \in SUBSET DOMAIN room.seats
  BY <1>2
<1>4. f \in SeatMaps /\ DOMAIN f = stay /\ \A s \in stay : f[s] = room.seats[s]
  <2> HIDE DEF stay, f
  <2> QED
    BY <1>1, <1>3, StayFacts
<1> HIDE DEF f
<1>5. /\ DOMAIN g = DOMAIN f
      /\ \A s \in DOMAIN f : /\ g[s].account = f[s].account /\ g[s].admission = f[s].admission
                              /\ g[s].ready = FALSE
  BY <1>4, InvalidateFacts
<1> HIDE DEF g
<1>6. /\ left.match = room.match /\ left.phase = room.phase /\ left.pendingAbort = room.pendingAbort
      /\ left.settings = room.settings /\ left.seats = g
  BY <1>1 DEF RoomType
<1> QED
  BY <1>4, <1>5, <1>6 DEF Size

\* leave in a room without a match
LEMMA LeftGoes ==
  ASSUME NEW d, RowsOK(d), NEW room, Fits(room), NEW w \in BOOLEAN, RoomOK(d, room, w),
         room.match = None, room.pendingAbort = None, NEW x \in DOMAIN room.seats,
         NEW ids, ids = {room.seats[x].admission} \ {None}, NEW o \in Releases(d, ids), o.told = ids,
         NEW left, left = GivenUp(room, x)
  PROVE  Goes(d, room, o.db, left, w)
<1>1. ids \in SUBSET AdmissionIds
  BY RoomFacts
<1>2. Goes(d, room, o.db, room, w) /\ \A id \in ids : o.db.adm[id].state = "released"
  BY <1>1, StayGoes, ReleasedRows
<1>3. /\ left.match = room.match /\ left.phase = room.phase /\ left.pendingAbort = room.pendingAbort
      /\ Size(left) = Size(room) /\ DOMAIN left.seats = DOMAIN room.seats \ {x}
      /\ \A s \in DOMAIN left.seats : /\ left.seats[s].account = room.seats[s].account
                                      /\ left.seats[s].admission = room.seats[s].admission
                                      /\ ~left.seats[s].ready
  BY GivenUpFacts
<1>4. RoomOK(o.db, left, w)
  BY <1>2, <1>3, LessRoom DEF Goes
<1>5. ASSUME NEW id \in Admitted(room.seats), o.db.adm[id].state = "reserved" PROVE id \in Admitted(left.seats)
  <2>1. PICK s \in DOMAIN room.seats : room.seats[s].admission = id /\ id # None
    BY DEF Admitted
  <2>2. s # x
    BY <1>2, <1>5, <2>1
  <2> QED
    BY <1>3, <2>1, <2>2 DEF Admitted
<1>6. Matches(left) = Matches(room) /\ Sits(room, o.db, left) /\ Touches(d, room, o.db)
  BY <1>2, <1>3 DEF Goes, Matches, Sits
<1>7. \A m \in Matches(room) : o.db.mat[m].state \in {"prepared", "started"} => m \in Matches(left)
  BY <1>6
<1> QED
  BY <1>4, <1>5, <1>6, <1>7 DEF Goes

\* Leaving a room without a match keeps the agreement.
LEMMA LeaveLobbyValue ==
  ASSUME Valued, NEW a \in DOMAIN members, rooms[members[a]].match = None,
         NEW room, Releasing(room, rooms[members[a]]), room.match = None, room.pendingAbort = None,
         NEW d, Goes(db, rooms[members[a]], d, room, draining'),
         NEW ok, LeaveLobby(d, members[a], room, a, ok)
  PROVE  Carried
<1> DEFINE r == members[a]
           x == SeatOf(room, a)
           ids == {room.seats[x].admission} \ {None}
           left == GivenUp(room, x)
<1>1. r \in DOMAIN rooms /\ Fits(rooms[r]) /\ Fits(room) /\ Apart(room) /\ x \in DOMAIN room.seats
  BY ReleasingKeeps, MemberSeat, ValuedFacts
<1>2. PICK o \in Releases(d, ids) :
        /\ ok = (o.told = ids)
        /\ IF ~ok THEN Save(o.db, queues, [rooms EXCEPT ![r] = room], members)
           ELSE IF left.seats = <<>> THEN Save(o.db, queues, Without(rooms, r), Without(members, a))
           ELSE \E h \in IF room.host = x THEN Elect(left) ELSE {room.host} :
                  MatchQueues(o.db, queues, [rooms EXCEPT ![r] = [left EXCEPT !.host = h]],
                              Without(members, a))
  BY DEF LeaveLobby, GivenUp
<1>3. RowsOK(d) /\ RoomOK(d, room, draining') /\ draining' \in BOOLEAN /\ ids \in SUBSET AdmissionIds
  BY <1>1, ValuedFacts, RoomFacts DEF Goes, Touches
<1>4. Fits(left) /\ DOMAIN left.seats = DOMAIN room.seats \ {x} /\ Apart(left)
      /\ left.match = None /\ left.pendingAbort = None /\ left.host = room.host
  <2>1. /\ Fits(left) /\ DOMAIN left.seats = DOMAIN room.seats \ {x}
        /\ \A s \in DOMAIN left.seats : left.seats[s].account = room.seats[s].account
    BY <1>1, WithoutSeat
  <2>2. left.match = None /\ left.pendingAbort = None /\ left.host = room.host
    BY <1>1 DEF GivenUp, Fits, RoomType
  <2> QED
    BY <1>1, <2>1, <2>2 DEF Apart
<1>5. CASE ~ok
  <2>1. Goes(d, room, o.db, room, draining')
    BY <1>1, <1>3, StayGoes
  <2>2. Goes(db, rooms[r], o.db, room, draining')
    BY <1>1, <2>1, GoesTwice
  <2>3. Save(o.db, queues, [rooms EXCEPT ![r] = room], members)
    BY <1>2, <1>5
  <2> QED
    BY <1>1, <2>2, <2>3, SavedGoes
<1>6. CASE ok
  <2>1. Goes(d, room, o.db, left, draining')
    BY <1>1, <1>2, <1>3, <1>6, LeftGoes
  <2>2. Goes(db, rooms[r], o.db, left, draining')
    BY <1>1, <2>1, GoesTwice
  <2>3. CASE left.seats = <<>>
    <3>1. DOMAIN left.seats = {} /\ Matches(left) = {}
      BY <1>4, <2>3 DEF Matches
    <3>2. Gone(db, rooms[r], o.db)
      BY <2>2, <3>1, GoesGone
    <3>3. Save(o.db, queues, Without(rooms, r), Without(members, a))
      BY <1>2, <1>6, <2>3
    <3> QED
      BY <1>1, <3>2, <3>3, SavedGone
  <2>4. CASE left.seats # <<>>
    <3>1. PICK h \in Elect(left) \cup {left.host} :
            MatchQueues(o.db, queues, [rooms EXCEPT ![r] = [left EXCEPT !.host = h]], Without(members, a))
      BY <1>2, <1>4, <1>6, <2>4
    <3> DEFINE new == [left EXCEPT !.host = h]
    <3>2. Fits(new) /\ new.seats = left.seats
      BY <1>4, HostNamed
    <3>3. Alike(new, left)
      BY <1>4, <3>2 DEF Alike, Fits, RoomType
    <3>4. Apart(new)
      BY <1>4, <3>2 DEF Apart
    <3>5. MatchQueues(o.db, queues, [rooms EXCEPT ![r] = new], Without(members, a))
      BY <3>1
    <3> HIDE DEF new, left
    <3>6. Goes(db, rooms[r], o.db, new, draining')
      BY <2>2, <3>3, AlikeGoes
    <3> QED
      BY <1>1, <3>2, <3>4, <3>5, <3>6, MatchedGoes
  <2> QED
    BY <2>3, <2>4
<1>7. ok \in BOOLEAN
  BY <1>2
<1> QED
  BY <1>5, <1>6

\* Fewer of the seats, each as it was.
Fewer(new, room) ==
  /\ new.match = room.match /\ new.phase = room.phase /\ new.pendingAbort = room.pendingAbort
  /\ DOMAIN new.seats \subseteq DOMAIN room.seats /\ \A s \in DOMAIN new.seats : new.seats[s] = room.seats[s]

\* The rows of a match with a verdict are closed: its seats may go.
LEMMA VerdictGone ==
  ASSUME NEW d, RowsOK(d), NEW room, Fits(room), NEW w \in BOOLEAN, RoomOK(d, room, w), room.phase = "verdict"
  PROVE  /\ Gone(d, room, d)
         /\ \A new : Fewer(new, room) => Goes(d, room, d, new, w)
<1>1. /\ room.match # None /\ room.match \in MatchIds /\ room.pendingAbort = None
      /\ Fills(d, room, room.match) /\ d.mat[room.match].state \in {"interrupted", "completed"}
  BY RoomFacts DEF RoomOK, RunOK, RowStates
<1>2. Matches(room) = {room.match} /\ Touches(d, room, d)
  BY <1>1, RowsSame DEF Matches, Touches
<1>3. Gone(d, room, d)
  BY <1>1, <1>2, ClosedGone
<1>4. ASSUME NEW new, Fewer(new, room) PROVE Goes(d, room, d, new, w)
  <2>a. \A s \in DOMAIN room.seats : room.seats[s].ready => room.seats[s].admission # None \/ room.pendingAbort # None \/ w
    BY DEF RoomOK, SeatOK
  <2>1. RoomOK(d, new, w)
    BY <1>1, <1>4, <2>a, LessRoom DEF Fewer
  <2>2. Matches(new) \subseteq Matches(room)
    BY <1>4 DEF Fewer, Matches
  <2> QED
    BY <1>3, <2>1, <2>2, GoneGoes
<1> QED
  BY <1>3, <1>4

\* pruneFinishedRoom keeps the agreement.
LEMMA PrunedValue ==
  ASSUME Valued, NEW r \in DOMAIN rooms, NEW d, NEW room, Fits(room), Goes(db, rooms[r], d, room, draining'),
         NEW after, after = Pruned(rooms, r, room, members), NEW ms, Save(d, queues, after.rooms, ms)
  PROVE  Carried
<1> DEFINE stay == {s \in DOMAIN room.seats : Connected(room.seats[s])}
           left == [room EXCEPT !.seats = [s \in stay |-> @[s]]]
<1>1. RowsOK(d) /\ RoomOK(d, room, draining') /\ draining' \in BOOLEAN /\ Fits(rooms[r])
  BY RoomValue DEF Goes, Touches
<1>2. CASE ~Finished(room)
  <2>1. after.rooms = [rooms EXCEPT ![r] = room]
    BY <1>2 DEF Pruned
  <2> QED
    BY <2>1, SavedGoes
<1>3. CASE Finished(room)
  <2>1. after.rooms = IF stay = {} THEN Without(rooms, r) ELSE [rooms EXCEPT ![r] = left]
    BY <1>3 DEF Pruned
  <2>2. Gone(d, room, d) /\ \A new : Fewer(new, room) => Goes(d, room, d, new, draining')
    BY <1>1, <1>3, VerdictGone DEF Finished
  <2>3. CASE stay = {}
    <3>1. Gone(db, rooms[r], d)
      BY <1>1, <2>2, GoesThenGone
    <3>2. Save(d, queues, Without(rooms, r), ms)
      BY <2>1, <2>3
    <3> QED
      BY <3>1, <3>2, SavedGone
  <2>4. CASE stay # {}
    <3>1. room.seats \in SeatMaps
      BY DEF Fits, RoomType
    <3>2. [s \in stay |-> room.seats[s]] \in SeatMaps
      BY <3>1, StayFacts
    <3>3. Fits(left) /\ left.seats = [s \in stay |-> room.seats[s]]
      BY <3>2, FitsSeats
    <3>4. left.match = room.match /\ left.phase = room.phase /\ left.pendingAbort = room.pendingAbort
      BY DEF Fits, RoomType
    <3>5. Save(d, queues, [rooms EXCEPT ![r] = left], ms)
      BY <2>1, <2>4
    <3> HIDE DEF left
    <3>6. Fewer(left, room)
      BY <3>3, <3>4 DEF Fewer
    <3>7. Goes(db, rooms[r], d, left, draining')
      BY <1>1, <2>2, <3>6, GoesTwice
    <3> QED
      BY <3>3, <3>5, <3>7, SavedGoes
  <2> QED
    BY <2>3, <2>4
<1> QED
  BY <1>2, <1>3

\* A seat that its player left keeps its admission.
LEMMA UnboundGoes ==
  ASSUME NEW d, NEW room, NEW d2, NEW mid, Fits(mid), NEW w, Goes(d, room, d2, mid, w),
         NEW x \in DOMAIN mid.seats, NEW bound, NEW new, new = [mid EXCEPT !.seats[x].bound = bound]
  PROVE  Goes(d, room, d2, new, w)
<1> DEFINE v == [mid.seats[x] EXCEPT !.bound = bound]
           f == [mid.seats EXCEPT ![x] = v]
<1>1. mid.seats[x] \in MemberType /\ mid.seats = [s \in DOMAIN mid.seats |-> mid.seats[s]]
  BY SeatMapFacts DEF Fits, RoomType
<1>2. v.account = mid.seats[x].account /\ v.admission = mid.seats[x].admission /\ v.ready = mid.seats[x].ready
  BY <1>1 DEF MemberType
<1>3. new = [mid EXCEPT !.seats = f]
  OBVIOUS
<1> HIDE DEF v
<1>4. DOMAIN f = DOMAIN mid.seats /\ \A s \in DOMAIN f : /\ f[s].account = mid.seats[s].account
                                                        /\ f[s].admission = mid.seats[s].admission
                                                        /\ f[s].ready = mid.seats[s].ready
  BY <1>2
<1> HIDE DEF f
<1>5. /\ new.match = mid.match /\ new.phase = mid.phase /\ new.pendingAbort = mid.pendingAbort
      /\ Size(new) = Size(mid) /\ new.seats = f
  BY <1>3 DEF Fits, RoomType, Size
<1>6. Seatwise(new, mid)
  BY <1>4, <1>5 DEF Seatwise
<1> QED
  BY <1>6, SeatwiseGoes

\* Leaving a match keeps the agreement and the seats.
LEMMA LeaveMatchValue ==
  ASSUME Valued, NEW a \in DOMAIN members, rooms[members[a]].match # None,
         NEW ok, LeaveMatch(members[a], rooms[members[a]], a, ok)
  PROVE  Carried
<1> DEFINE r == members[a]
           x == SeatOf(rooms[r], a)
<1>1. r \in DOMAIN rooms /\ Fits(rooms[r])
  BY ValuedFacts DEF LobbyOK, Placed, TablesOK
<1>2. x \in DOMAIN rooms[r].seats
  BY <1>1, KeepsSelf, MemberSeat, ValuedFacts
<1> DEFINE unbound(o) == [o.room EXCEPT !.seats[x].bound = FALSE]
           left(o) == [o.room EXCEPT !.seats = Without(@, x)]
           after(o) == Pruned(rooms, r, unbound(o), members)
<1>3. PICK o \in Plays(db, rooms[r]) :
        /\ ok = o.ok
        /\ IF ~ok THEN Save(o.db, queues, [rooms EXCEPT ![r] = o.room], members)
           ELSE IF rooms[r].phase # "verdict" THEN Save(o.db, queues, after(o).rooms, after(o).members)
           ELSE Save(o.db, queues, IF left(o).seats = <<>> THEN Without(rooms, r) ELSE [rooms EXCEPT ![r] = left(o)],
                     Without(members, a))
  BY DEF LeaveMatch
<1> HIDE DEF x
<1>4. Fits(o.room) /\ o.room.seats = rooms[r].seats
  <2>1. o \in Plays(db, rooms[r])
    BY <1>3
  <2> QED
    BY <1>1, <2>1, PlayKeeps
<1>5. Goes(db, rooms[r], o.db, o.room, draining')
  <2>1. o \in Plays(db, rooms[r])
    BY <1>3
  <2>2. RowsOK(db) /\ RoomOK(db, rooms[r], draining') /\ draining' \in BOOLEAN
    BY <1>1, RoomValue
  <2> QED
    BY <1>1, <2>1, <2>2, PlaysGoes
<1>6. CASE ~ok
  <2>1. Save(o.db, queues, [rooms EXCEPT ![r] = o.room], members)
    BY <1>3, <1>6
  <2> QED
    BY <1>1, <1>4, <1>5, <2>1, SavedGoes
<1>7. CASE ok /\ rooms[r].phase # "verdict"
  <2> DEFINE new == unbound(o)
             late == Pruned(rooms, r, new, members)
  <2>1. new = [o.room EXCEPT !.seats[x].bound = FALSE] /\ late = Pruned(rooms, r, new, members)
    OBVIOUS
  <2>2. Save(o.db, queues, late.rooms, late.members)
    BY <1>3, <1>7
  <2> HIDE DEF new, late
  <2>3. Goes(db, rooms[r], o.db, new, draining')
    BY <1>2, <1>4, <1>5, <2>1, UnboundGoes
  <2>4. Fits(new)
    BY <1>2, <1>4, <2>1, Unbound DEF Keeps
  <2> QED
    BY <1>1, <2>1, <2>2, <2>3, <2>4, PrunedValue
<1>8. CASE ok /\ rooms[r].phase = "verdict"
  <2> DEFINE new == LeftBy(o.room, x)
             rs2 == IF new.seats = <<>> THEN Without(rooms, r) ELSE [rooms EXCEPT ![r] = new]
  <2>1. Save(o.db, queues, rs2, Without(members, a))
    BY <1>3, <1>8 DEF LeftBy
  <2>2. o.db = db /\ o.room = rooms[r]
    BY <1>3, <1>8 DEF Plays
  <2>3. Gone(db, rooms[r], db) /\ \A n : Fewer(n, rooms[r]) => Goes(db, rooms[r], db, n, draining')
    BY <1>1, <1>8, RoomValue, VerdictGone
  <2>4. Fits(new) /\ DOMAIN new.seats = DOMAIN o.room.seats \ {x} /\ \A s \in DOMAIN new.seats : new.seats[s] = o.room.seats[s]
    BY <1>2, <1>4, OthersStay
  <2>5. new.match = o.room.match /\ new.phase = o.room.phase /\ new.pendingAbort = o.room.pendingAbort
    BY <1>4 DEF LeftBy, Fits, RoomType
  <2> HIDE DEF new
  <2>6. Goes(db, rooms[r], db, new, draining')
    BY <2>2, <2>3, <2>4, <2>5 DEF Fewer
  <2>7. CASE new.seats = <<>>
    <3>1. Save(db, queues, Without(rooms, r), Without(members, a))
      BY <2>1, <2>2, <2>7
    <3> QED
      BY <1>1, <2>3, <3>1, SavedGone
  <2>8. CASE new.seats # <<>>
    <3>1. Save(db, queues, [rooms EXCEPT ![r] = new], Without(members, a))
      BY <2>1, <2>2, <2>8
    <3> QED
      BY <1>1, <2>4, <2>6, <3>1, SavedGoes
  <2> QED
    BY <2>7, <2>8
<1> QED
  BY <1>3, <1>6, <1>7, <1>8

\* Entries leave the queue once their reservations are closed.
QueueSteps(d, q, d2, q2) ==
  /\ RowsOK(d2) /\ RowsKept(d, d2, {}, {})
  /\ DOMAIN q2 \subseteq DOMAIN q /\ \A a \in DOMAIN q2 : q2[a].id = q[a].id
  /\ \A a \in DOMAIN q \ DOMAIN q2 : d2.adm[q[a].id].state # "reserved"

\* A step of the queue keeps the agreement and the seats.
LEMMA QueueStepValue ==
  ASSUME NEW d, NEW q, NEW rs, NEW w, ValueOK(d, q, rs, w, {}), QueueOK(q), TablesOK(rs),
         NEW d2, NEW q2, QueueSteps(d, q, d2, q2)
  PROVE  ValueOK(d2, q2, rs, w, {}) /\ SeatsKept(rs, d2, rs)
<1> DEFINE none == {}
<1>1. \A a \in DOMAIN q : EntryOK(d2, a, q[a])
  <2>1. /\ RowsKept(d, d2, none, none) /\ \A a \in DOMAIN q : q[a].id \notin none
        /\ \A a \in DOMAIN q : EntryOK(d, a, q[a])
    BY DEF QueueSteps, ValueOK
  <2> HIDE DEF none
  <2> QED
    BY <2>1, KeptEntries
<1>2. \A a \in DOMAIN q2 : EntryOK(d2, a, q2[a])
  BY <1>1 DEF EntryOK, QueueSteps
<1>3. ASSUME NEW id \in AdmissionIds, d2.adm[id].state = "reserved", NEW a \in DOMAIN q, q[a].id = id
      PROVE  NamedId(q2, rs, id)
  BY <1>3 DEF QueueSteps, NamedId
<1>4. w \in BOOLEAN /\ Changed(rs, rs, none) /\ RowsOK(d2) /\ RowsKept(d, d2, none, none)
  BY DEF ValueOK, Changed, QueueSteps
<1>5. \A x : x \notin none
  OBVIOUS
<1> HIDE DEF none
<1>6. none = {}
  BY DEF none
<1>7. Steps(d, q, rs, w, none, d2, q2, rs, w, none, none, none, none)
  BY <1>2, <1>3, <1>4, <1>5, <1>6 DEF Steps
<1>8. ValueOK(d2, q2, rs, w, none)
  BY <1>6, <1>7, ValueStep
<1>9. SeatsKept(rs, d2, rs)
  BY DEF SeatsKept
<1> QED
  BY <1>6, <1>8, <1>9

\* A step that only changes connections keeps the agreement and the seats.
LEMMA StaysValue ==
  ASSUME Valued, UNCHANGED <<db, queues, rooms>>
  PROVE  Carried
<1>1. ValueOK(db, queues, rooms, draining', {}) /\ SeatsKept(rooms, db, rooms)
  BY ValuedFacts DEF SeatsKept
<1>2. ValueOK(db', queues', rooms', draining', {}) /\ SeatsKept(rooms, db', rooms')
  BY <1>1
<1> QED
  BY <1>2 DEF Carried, RowsInv

\* Reservations of waiting accounts that are released.
LEMMA ReleasedQueue ==
  ASSUME NEW d, RowsOK(d), NEW q, QueueOK(q), NEW ids \in SUBSET AdmissionIds, NEW o \in Releases(d, ids),
         NEW q2, DOMAIN q2 \subseteq DOMAIN q, \A a \in DOMAIN q2 : q2[a].id = q[a].id,
         \A a \in DOMAIN q \ DOMAIN q2 : q[a].id \in o.told
  PROVE  QueueSteps(d, q, o.db, q2)
<1>1. RowsOK(o.db) /\ RowsKept(d, o.db, {}, {}) /\ \A id \in o.told : o.db.adm[id].state = "released"
  BY ReleasedRows
<1> QED
  BY <1>1 DEF QueueSteps

\* Saving such a queue carries the agreement on.
LEMMA SavedQueue ==
  ASSUME Valued, NEW d, NEW q, QueueSteps(db, queues, d, q), NEW ms, Save(d, q, rooms, ms)
  PROVE  Carried
<1>1. ValueOK(db, queues, rooms, draining', {}) /\ QueueOK(queues) /\ TablesOK(rooms)
  BY ValuedFacts DEF Fitting
<1>2. ValueOK(d, q, rooms, draining', {}) /\ SeatsKept(rooms, d, rooms)
  BY <1>1, QueueStepValue
<1> QED
  BY <1>2, ValuedFacts, SaveValue

\* leaveQueue keeps the agreement.
LEMMA LeaveQueueValue ==
  ASSUME Valued, NEW a, NEW ok, LeaveQueue(a, ok)
  PROVE  Carried
<1>1. CASE ~Queued(a)
  BY <1>1, StaysValue DEF LeaveQueue
<1>2. CASE Queued(a)
  <2> DEFINE ids == {queues[a].id}
             as == {a}
  <2>1. PICK o \in Releases(db, ids) :
          ok = (o.told # {}) /\ Save(o.db, IF ok THEN Dequeue(queues, as) ELSE queues, rooms, members)
    BY <1>2 DEF LeaveQueue
  <2>2. RowsOK(db) /\ QueueOK(queues) /\ ids \in SUBSET AdmissionIds
    BY <1>2, ValuedFacts DEF Fitting, QueueOK, EntryType, Queued
  <2>3. o.told \subseteq ids
    BY <2>2, ReleasedRows
  <2>4. CASE ok
    <3>1. o.told = ids
      BY <2>1, <2>3, <2>4
    <3> DEFINE q == Dequeue(queues, as)
    <3>2. DOMAIN q = DOMAIN queues \ as /\ \A b \in DOMAIN queues \ as : q[b].id = queues[b].id
      <4> HIDE DEF as
      <4> QED
        BY <2>2, DequeueOK
    <3>3. Save(o.db, q, rooms, members)
      BY <2>1, <2>4
    <3> HIDE DEF q
    <3>4. QueueSteps(db, queues, o.db, q)
      <4>1. \A b \in DOMAIN queues \ DOMAIN q : queues[b].id \in o.told
        BY <3>1, <3>2
      <4>2. DOMAIN q \subseteq DOMAIN queues /\ \A b \in DOMAIN q : q[b].id = queues[b].id
        BY <3>2
      <4> HIDE DEF ids
      <4> QED
        BY <2>2, <4>1, <4>2, ReleasedQueue
    <3> QED
      BY <3>3, <3>4, SavedQueue
  <2>5. CASE ~ok
    <3>1. Save(o.db, queues, rooms, members)
      BY <2>1, <2>5
    <3>2. QueueSteps(db, queues, o.db, queues)
      <4> HIDE DEF ids
      <4> QED
        BY <2>2, ReleasedQueue
    <3> QED
      BY <3>1, <3>2, SavedQueue
  <2>6. ok \in BOOLEAN
    BY <2>1
  <2> QED
    BY <2>4, <2>5
<1> QED
  BY <1>1, <1>2

\* leave keeps the agreement and the seats, wherever the account is.
LEMMA LeaveAsValue ==
  ASSUME Valued, NEW a, NEW ok, LeaveAs(a, ok)
  PROVE  Carried
<1>1. CASE a \notin DOMAIN members
  BY <1>1, LeaveQueueValue DEF LeaveAs
<1>2. CASE a \in DOMAIN members
  <2> DEFINE r == members[a]
             room == rooms[r]
             x == SeatOf(room, a)
  <2>1. r \in DOMAIN rooms /\ Fits(room)
    BY <1>2, ValuedFacts DEF LobbyOK, Placed, TablesOK
  <2>2. RowsOK(db) /\ RoomOK(db, room, draining') /\ draining' \in BOOLEAN
    BY <2>1, RoomValue
  <2>3. CASE ~room.seats[x].bound
    <3>1. UNCHANGED <<db, queues, rooms, members>>
      BY <1>2, <2>3 DEF LeaveAs
    <3> QED
      BY <3>1, StaysValue
  <2>4. CASE room.seats[x].bound /\ room.match # None
    BY <1>2, <2>4, LeaveMatchValue DEF LeaveAs
  <2>5. CASE room.seats[x].bound /\ room.match = None /\ room.pendingAbort = None
    <3>1. LeaveLobby(db, r, room, a, ok)
      BY <1>2, <2>5 DEF LeaveAs
    <3>2. Releasing(room, rooms[members[a]])
      BY <2>1 DEF Releasing, Fits, RoomType
    <3>3. Goes(db, room, db, room, draining')
      BY <2>2, SameGoes
    <3> QED
      BY <1>2, <2>5, <3>1, <3>2, <3>3, LeaveLobbyValue
  <2>6. CASE room.seats[x].bound /\ room.match = None /\ room.pendingAbort # None
    <3>1. PICK o \in AbortPrepared(db, room) :
            IF o.ok THEN LeaveLobby(o.db, r, o.room, a, ok)
            ELSE ~ok /\ Save(o.db, queues, [rooms EXCEPT ![r] = o.room], members)
      BY <1>2, <2>6 DEF LeaveAs
    <3>2. Releasing(o.room, room)
      BY <2>1, AbortKeeps
    <3>3. Goes(db, room, o.db, o.room, draining') /\ (o.ok => o.room = Cleared(room))
      BY <2>1, <2>2, <2>6, AbortGoes
    <3>4. CASE o.ok
      <4>1. o.room.match = None /\ o.room.pendingAbort = None
        BY <2>1, <2>6, <3>3, <3>4, ClearedKeeps
      <4> QED
        BY <1>2, <2>6, <3>1, <3>2, <3>3, <3>4, <4>1, LeaveLobbyValue
    <3>5. CASE ~o.ok
      <4>1. Fits(o.room)
        BY <3>2 DEF Releasing
      <4>2. Save(o.db, queues, [rooms EXCEPT ![r] = o.room], members)
        BY <3>1, <3>5
      <4> QED
        BY <2>1, <3>3, <4>1, <4>2, SavedGoes
    <3> QED
      BY <3>4, <3>5
  <2> QED
    BY <2>3, <2>4, <2>5, <2>6
<1> QED
  BY <1>1, <1>2

\* The connections: OpenAuthenticated, closePeer, disconnect, Leave.
LEMMA ConnectionValue ==
  ASSUME Valued, NEW a, ConnectionStep(a) \/ PeerCloses(a)
  PROVE  Carried
<1>1. CASE Open(a)
  <2>1. CASE a \notin DOMAIN peers
    BY <1>1, <2>1, StaysValue DEF Open
  <2>2. CASE a \in DOMAIN peers
    <3>1. \E ok \in BOOLEAN : LeaveAs(a, ok)
      BY <1>1, <2>2 DEF Open
    <3> QED
      BY <3>1, LeaveAsValue
  <2> QED
    BY <2>1, <2>2
<1>2. CASE \E ok \in BOOLEAN : Disconnect(a, ok)
  BY <1>2, LeaveAsValue DEF Disconnect
<1>3. CASE Leave(a)
  BY <1>3, LeaveAsValue DEF Leave
<1>4. CASE PeerCloses(a)
  BY <1>4, StaysValue DEF PeerCloses
<1> QED
  BY <1>1, <1>2, <1>3, <1>4 DEF ConnectionStep

\* QueueLeave, and the queue in cleanupDrain and Close.
LEMMA QueueStepsValue ==
  ASSUME Valued, NEW a, QueueLeave(a) \/ QueueStep(a)
  PROVE  Carried
<1>1. CASE QueueLeave(a)
  BY <1>1, LeaveQueueValue DEF QueueLeave
<1>2. CASE \E ok \in BOOLEAN : DrainQueue(a, ok)
  BY <1>2, LeaveQueueValue DEF DrainQueue
<1>3. CASE CloseQueue(a)
  <2> DEFINE ids == {queues[a].id}
  <2>1. PICK o \in Releases(db, ids) : Save(o.db, queues, rooms, members)
    BY <1>3 DEF CloseQueue
  <2>2. RowsOK(db) /\ QueueOK(queues) /\ ids \in SUBSET AdmissionIds
    BY <1>3, ValuedFacts DEF Fitting, QueueOK, EntryType, Queued, CloseQueue
  <2>3. QueueSteps(db, queues, o.db, queues)
    <3> HIDE DEF ids
    <3> QED
      BY <2>2, ReleasedQueue
  <2> QED
    BY <2>1, <2>3, SavedQueue
<1> QED
  BY <1>1, <1>2, <1>3 DEF QueueStep

\* The last step of Close keeps the agreement.
LEMMA CloseDoneValue ==
  ASSUME Valued, CloseDone
  PROVE  Carried
<1>1. Save(db, <<>>, rooms, members) /\ \A a \in DOMAIN queues : db.adm[queues[a].id].state = "released"
  BY DEF CloseDone
<1> DEFINE q == <<>>
<1>2. DOMAIN q = {}
  BY NoSeats
<1>3. RowsOK(db) /\ RowsKept(db, db, {}, {})
  BY ValuedFacts, RowsSame
<1>4. Save(db, q, rooms, members)
  BY <1>1
<1> HIDE DEF q
<1>5. QueueSteps(db, queues, db, q)
  BY <1>1, <1>2, <1>3 DEF QueueSteps
<1> QED
  BY <1>4, <1>5, SavedQueue

\* The rooms in cleanupDrain, and what a failed start or new settings leave.
LEMMA PartlyReleasedGoes ==
  ASSUME NEW d, RowsOK(d), NEW room, Fits(room), NEW w \in BOOLEAN, RoomOK(d, room, w), room.match = None,
         NEW ids \in SUBSET AdmissionIds, NEW o \in Releases(d, ids)
  PROVE  Fits(PartlyReleased(room, o.told)) /\ Goes(d, room, o.db, PartlyReleased(room, o.told), w)
<1> DEFINE told == o.told
           new == PartlyReleased(room, told)
           f == Forget(room.seats, told)
           g == Invalidate(f)
<1>1. Fits(new)
  BY PartlyReleasedKeeps DEF Releasing
<1>2. /\ new.match = room.match /\ new.phase = room.phase /\ new.pendingAbort = room.pendingAbort
      /\ Size(new) = Size(room) /\ new.seats = g /\ room.seats \in SeatMaps
  BY DEF PartlyReleased, Fits, RoomType, Size
<1>3. /\ f \in SeatMaps /\ DOMAIN f = DOMAIN room.seats
      /\ \A s \in DOMAIN room.seats :
           /\ f[s].account = room.seats[s].account
           /\ f[s].admission = IF room.seats[s].admission \in told THEN None ELSE room.seats[s].admission
  <2> HIDE DEF told
  <2> QED
    BY <1>2, ForgetFacts
<1> HIDE DEF f
<1>4. /\ DOMAIN g = DOMAIN f
      /\ \A s \in DOMAIN f : /\ g[s].account = f[s].account /\ g[s].admission = f[s].admission
                              /\ g[s].ready = FALSE
  BY <1>3, InvalidateFacts
<1> HIDE DEF g, new
<1>5. Forgets(room, told, new, w)
  BY <1>2, <1>3, <1>4 DEF Forgets
<1>6. Goes(d, room, o.db, new, w)
  BY <1>5, ForgetsGoes
<1> QED
  BY <1>1, <1>6 DEF new

\* A room of a match whose engine was called, and pruned afterwards or not.
LEMMA PlaysValue ==
  ASSUME Valued, NEW r \in DOMAIN rooms, rooms[r].match # None, NEW o,
         \/ o \in Plays(db, rooms[r])
         \/ o \in Ends(db, rooms[r], "interrupting") /\ rooms[r].phase = "playing"
  PROVE  Fits(o.room) /\ Goes(db, rooms[r], o.db, o.room, draining')
<1>1. Fits(rooms[r]) /\ RoomOK(db, rooms[r], draining') /\ RowsOK(db) /\ draining' \in BOOLEAN
  BY RoomValue
<1>2. CASE o \in Plays(db, rooms[r])
  BY <1>1, <1>2, PlayKeeps, PlaysGoes
<1>3. CASE o \in Ends(db, rooms[r], "interrupting") /\ rooms[r].phase = "playing"
  BY <1>1, <1>3, EndKeeps, EndsGoes
<1> QED
  BY <1>2, <1>3

\* tick, cleanupDrain and Close on a room
LEMMA RoomStepsValue ==
  ASSUME Valued, NEW r \in DOMAIN rooms, RoomStep(r)
  PROVE  Carried
<1>0. Fits(rooms[r]) /\ RoomOK(db, rooms[r], draining') /\ RowsOK(db) /\ draining' \in BOOLEAN
      /\ Admitted(rooms[r].seats) \in SUBSET AdmissionIds
  BY RoomValue
<1>1. ASSUME NEW ok, TickAborts(r, ok) PROVE Carried
  <2>1. PICK o \in AbortPrepared(db, rooms[r]) : Save(o.db, queues, [rooms EXCEPT ![r] = o.room], members)
    BY <1>1 DEF TickAborts
  <2>2. Fits(o.room) /\ Goes(db, rooms[r], o.db, o.room, draining')
    BY <1>0, <1>1, AbortKeeps, AbortGoes DEF Releasing, TickAborts
  <2> QED
    BY <2>1, <2>2, SavedGoes
<1>2. ASSUME NEW ok, DrainRoom(r, ok) PROVE Carried
  <2> DEFINE ids == Admitted(rooms[r].seats)
  <2>1. PICK o \in Releases(db, ids) :
          Save(o.db, queues, [rooms EXCEPT ![r] = PartlyReleased(@, o.told)], members)
    BY <1>2 DEF DrainRoom
  <2> DEFINE new == PartlyReleased(rooms[r], o.told)
  <2>2. rooms[r].match = None
    BY <1>2 DEF DrainRoom
  <2>3. Save(o.db, queues, [rooms EXCEPT ![r] = new], members)
    BY <2>1
  <2>4. Fits(new) /\ Goes(db, rooms[r], o.db, new, draining')
    <3> HIDE DEF ids
    <3> QED
      BY <1>0, <2>2, PartlyReleasedGoes DEF ids
  <2> HIDE DEF new
  <2> QED
    BY <2>3, <2>4, SavedGoes
<1>3. CASE TickAdvances(r)
  <2>1. PICK o \in Plays(db, rooms[r]) :
          IF o.ok THEN LET after == Pruned(rooms, r, o.room, members)
                       IN Save(o.db, queues, after.rooms, after.members)
          ELSE Save(o.db, queues, [rooms EXCEPT ![r] = o.room], members)
    BY <1>3 DEF TickAdvances
  <2>2. Fits(o.room) /\ Goes(db, rooms[r], o.db, o.room, draining')
    BY <1>3, PlaysValue DEF TickAdvances
  <2>3. CASE o.ok
    <3> DEFINE after == Pruned(rooms, r, o.room, members)
    <3>1. Save(o.db, queues, after.rooms, after.members)
      BY <2>1, <2>3
    <3> HIDE DEF after
    <3> QED
      BY <2>2, <3>1, PrunedValue DEF after
  <2>4. CASE ~o.ok
    BY <2>1, <2>2, <2>4, SavedGoes
  <2> QED
    BY <2>3, <2>4
<1>4. CASE TickPrunes(r)
  <2> DEFINE after == Pruned(rooms, r, rooms[r], members)
  <2>1. Save(db, queues, after.rooms, after.members)
    BY <1>4 DEF TickPrunes
  <2>2. Goes(db, rooms[r], db, rooms[r], draining')
    BY <1>0, SameGoes
  <2> HIDE DEF after
  <2> QED
    BY <1>0, <2>1, <2>2, PrunedValue DEF after
<1>5. CASE CloseRoom(r)
  <2>1. CASE rooms[r].match # None
    <3>1. PICK o \in IF rooms[r].phase = "playing" THEN Ends(db, rooms[r], "interrupting")
                     ELSE Plays(db, rooms[r]) :
            Save(o.db, queues, [rooms EXCEPT ![r] = o.room], members)
      BY <1>5, <2>1 DEF CloseRoom
    <3>2. Fits(o.room) /\ Goes(db, rooms[r], o.db, o.room, draining')
      BY <2>1, <3>1, PlaysValue
    <3> QED
      BY <3>1, <3>2, SavedGoes
  <2>2. CASE rooms[r].match = None
    <3> DEFINE ids == Admitted(rooms[r].seats)
    <3>1. PICK o \in Releases(db, ids) :
            Save(o.db, queues, [rooms EXCEPT ![r].seats = Forget(@, o.told)], members)
      BY <1>5, <2>2 DEF CloseRoom
    <3> DEFINE told == o.told
               room == rooms[r]
               new == [room EXCEPT !.seats = Forget(@, told)]
    <3>2. draining' = TRUE
      BY <1>5 DEF CloseRoom
    <3>3. Fits(new) /\ new.seats = Forget(room.seats, told) /\ room.seats \in SeatMaps
      <4> HIDE DEF told
      <4>1. Fits(room)
        BY <1>0
      <4> HIDE DEF room
      <4> QED
        BY <4>1, Forgotten DEF Releasing, Fits, RoomType
    <3>4. /\ new.match = room.match /\ new.phase = room.phase /\ new.pendingAbort = room.pendingAbort
          /\ Size(new) = Size(room)
      BY <1>0 DEF Fits, RoomType, Size
    <3>5. Save(o.db, queues, [rooms EXCEPT ![r] = new], members)
      BY <3>1
    <3> HIDE DEF new, told, room
    <3>6. /\ DOMAIN new.seats = DOMAIN room.seats
          /\ \A s \in DOMAIN room.seats :
               /\ new.seats[s].account = room.seats[s].account
               /\ new.seats[s].admission = IF room.seats[s].admission \in told THEN None ELSE room.seats[s].admission
      <4> DEFINE f == room.seats
      <4>1. f \in SeatMaps /\ new.seats = Forget(f, told)
        BY <3>3
      <4> HIDE DEF f
      <4>2. /\ DOMAIN Forget(f, told) = DOMAIN f
            /\ \A s \in DOMAIN f :
                 /\ Forget(f, told)[s].account = f[s].account
                 /\ Forget(f, told)[s].admission = IF f[s].admission \in told THEN None ELSE f[s].admission
        BY <4>1, ForgetFacts
      <4> QED
        BY <4>1, <4>2 DEF f
    <3>7. Forgets(room, told, new, draining')
      BY <3>2, <3>4, <3>6 DEF Forgets
    <3>8. Goes(db, rooms[r], o.db, new, draining')
      BY <1>0, <2>2, <3>1, <3>7, ForgetsGoes DEF room, told
    <3> QED
      BY <3>3, <3>5, <3>8, SavedGoes
  <2> QED
    BY <2>1, <2>2
<1> QED
  BY <1>1, <1>2, <1>3, <1>4, <1>5 DEF RoomStep

-----------------------------------------------------------------------------
(* New reservations.                                                        *)

\* The row that Reserve wrote; the reply is lost only where that may happen.
NewRow(d, a, o) ==
  /\ o.id \in AdmissionIds /\ d.adm[o.id].state = "absent" /\ RowsOK(o.db) /\ o.db.mat = d.mat
  /\ o.db.adm[o.id].account = a /\ o.db.adm[o.id].match = None /\ o.db.adm[o.id].state = "reserved"
  /\ RowsKept(d, o.db, {o.id}, {})
  /\ ~o.ok => ReserveReplyLost

\* reserve writes one new row, and only tells of it when the reply arrives.
LEMMA ReservesRow ==
  ASSUME NEW d, RowsOK(d), NEW a \in Accounts, NEW o \in Reserves(d, a)
  PROVE  NewRow(d, a, o)
<1> DEFINE unused == {i \in AdmissionIds : d.adm[i].state = "absent"}
           row(id) == Values!Reserve(d, id, a, Owner, "pass", 1)
<1>1. Fresh(unused, a) \subseteq unused
  BY DEF Fresh
<1>2. \E id \in Fresh(unused, a), ok \in Replies : o = [db |-> row(id), id |-> id, ok |-> ok]
  BY DEF Reserves
<1>3. PICK id \in Fresh(unused, a) : \E ok \in Replies : o = [db |-> row(id), id |-> id, ok |-> ok]
  BY <1>2
<1>4. PICK ok \in Replies : o = [db |-> row(id), id |-> id, ok |-> ok]
  BY <1>3
<1>5. id \in AdmissionIds /\ d.adm[id].state = "absent"
  BY <1>1
<1> DEFINE d2 == row(id)
<1>6. d2 = Values!Reserve(d, id, a, Owner, "pass", 1) /\ o.db = d2 /\ o.id = id /\ o.ok = ok
  BY <1>4
<1> HIDE DEF d2
<1>7. /\ RowsOK(d2) /\ d2.mat = d.mat
      /\ d2.adm[id].account = a /\ d2.adm[id].match = None /\ d2.adm[id].state = "reserved"
      /\ \A i \in AdmissionIds \ {id} : d2.adm[i] = d.adm[i]
  BY <1>5, <1>6, ReservedRow
<1>8. RowsKept(d, d2, {id}, {})
  BY <1>7 DEF RowsKept
<1>9. ~ok => ReserveReplyLost
  BY <1>4 DEF Replies
<1> QED
  BY <1>5, <1>6, <1>7, <1>8, <1>9 DEF NewRow

\* A row that is absent has no name.
LEMMA AbsentUnnamed ==
  ASSUME NEW d, NEW q, NEW rs, NEW w, NEW X, ValueOK(d, q, rs, w, X), NEW id, d.adm[id].state = "absent"
  PROVE  ~NamedId(q, rs, id)
<1>1. \A a \in DOMAIN q : q[a].id # id
  BY DEF ValueOK, EntryOK
<1>2. ASSUME NEW r \in DOMAIN rs, id \in Admitted(rs[r].seats) PROVE FALSE
  <2>1. PICK s \in DOMAIN rs[r].seats : rs[r].seats[s].admission = id /\ id # None
    BY <1>2 DEF Admitted
  <2>2. SeatOK(d, rs[r], s, w)
    BY DEF ValueOK, RoomOK
  <2> QED
    BY <2>1, <2>2 DEF SeatOK
<1> QED
  BY <1>1, <1>2 DEF NamedId

\* A new reservation has no name yet.
LEMMA ReservedValue ==
  ASSUME NEW d, NEW q, NEW rs, NEW w, ValueOK(d, q, rs, w, {}), QueueOK(q), TablesOK(rs),
         NEW a \in Accounts, NEW o \in Reserves(d, a)
  PROVE  /\ ValueOK(o.db, q, rs, w, {o.id})
         /\ ~o.ok => ValueOK(o.db, q, rs, w, {})
<1> DEFINE ids == {o.id}
           none == {}
           d2 == o.db
<1>1. /\ o.id \in AdmissionIds /\ d.adm[o.id].state = "absent" /\ RowsOK(d2) /\ d2.mat = d.mat
      /\ RowsKept(d, d2, ids, none) /\ (~o.ok => ReserveReplyLost)
  BY ReservesRow DEF ValueOK, NewRow
<1>2. ~NamedId(q, rs, o.id)
  BY <1>1, AbsentUnnamed
<1>3. (\A b \in DOMAIN q : q[b].id \notin ids) /\ (\A r \in DOMAIN rs : Admitted(rs[r].seats) \cap ids = none)
  BY <1>2 DEF NamedId
<1>4. \A b \in DOMAIN q : EntryOK(d, b, q[b])
  BY DEF ValueOK
<1>5. w \in BOOLEAN /\ Changed(rs, rs, none)
  BY DEF ValueOK, Changed
<1>6. \A x : x \notin none
  OBVIOUS
<1> HIDE DEF ids, none, d2
<1>7. \A b \in DOMAIN q : EntryOK(d2, b, q[b])
  BY <1>1, <1>3, <1>4, KeptEntries
<1>8. ASSUME NEW id \in AdmissionIds, \E b \in DOMAIN q : q[b].id = id PROVE NamedId(q, rs, id)
  BY <1>8 DEF NamedId
<1>9. Steps(d, q, rs, w, none, d2, q, rs, w, ids, ids, none, none)
  BY <1>1, <1>3, <1>5, <1>6, <1>7, <1>8 DEF Steps
<1>10. ValueOK(d, q, rs, w, none)
  BY DEF none
<1>11. ValueOK(d2, q, rs, w, ids)
  BY <1>9, <1>10, ValueStep
<1>12. ~o.ok => ValueOK(d2, q, rs, w, {})
  BY <1>1, <1>11 DEF ValueOK
<1> QED
  BY <1>11, <1>12 DEF ids, d2

\* A waiting account names its reservation.
LEMMA NamedQueue ==
  ASSUME NEW d, NEW q, NEW rs, NEW w, NEW X, ValueOK(d, q, rs, w, X), NEW a, NEW q2,
         DOMAIN q2 = DOMAIN q \cup {a}, a \notin DOMAIN q, \A b \in DOMAIN q : q2[b] = q[b],
         X = {q2[a].id}, EntryOK(d, a, q2[a])
  PROVE  ValueOK(d, q2, rs, w, {})
<1>1. \A b \in DOMAIN q2 : EntryOK(d, b, q2[b])
  BY DEF ValueOK
<1>2. ASSUME NEW id, NamedId(q, rs, id) \/ id \in X PROVE NamedId(q2, rs, id)
  BY <1>2 DEF NamedId
<1> QED
  BY <1>1, <1>2 DEF ValueOK

\* QueueJoin once the account is not waiting any more.
LEMMA EnqueueValue ==
  ASSUME Valued, NEW a \in Accounts, NEW s \in LobbySettings, NEW d, NEW q, QueueOK(q), a \notin DOMAIN q,
         ValueOK(d, q, rooms, draining', {}), Enqueue(d, q, a, s)
  PROVE  Carried
<1> DEFINE new(o) == With(q, a, [settings |-> s, id |-> o.id, order |-> Cardinality(DOMAIN q)])
<1>1. PICK o \in Reserves(d, a) :
        \/ ~o.ok /\ Save(o.db, q, rooms, members)
        \/ o.ok /\ MatchQueues(o.db, new(o), rooms, members)
        \/ \E c \in Releases(o.db, {o.id}) :
                Save(c.db, IF c.told = {} THEN new(o) ELSE q, rooms, members)
  BY DEF Enqueue
<1> DEFINE waiting == new(o)
           ids == {o.id}
<1>2. waiting = With(q, a, [settings |-> s, id |-> o.id, order |-> Cardinality(DOMAIN q)])
  OBVIOUS
<1>3. TablesOK(rooms) /\ Fitting /\ Fitting' /\ RowsOK(d)
  BY ValuedFacts DEF Fitting, ValueOK
<1>4. /\ o.id \in AdmissionIds /\ RowsOK(o.db)
      /\ o.db.adm[o.id].account = a /\ o.db.adm[o.id].match = None /\ o.db.adm[o.id].state = "reserved"
  BY <1>1, <1>3, ReservesRow DEF NewRow
<1>5. ValueOK(o.db, q, rooms, draining', ids) /\ (~o.ok => ValueOK(o.db, q, rooms, draining', {}))
  BY <1>1, <1>3, ReservedValue
<1> HIDE DEF waiting, ids
<1>6. /\ QueueOK(waiting) /\ DOMAIN waiting = DOMAIN q \cup {a}
      /\ waiting[a].id = o.id /\ \A b \in DOMAIN q : waiting[b] = q[b]
  <2>1. a \in Accounts \ DOMAIN q /\ o.id \in AdmissionIds
    BY <1>4
  <2> QED
    BY <1>2, <2>1, EnqueueOK
<1>7. ValueOK(o.db, waiting, rooms, draining', {})
  <2>1. EntryOK(o.db, a, waiting[a])
    BY <1>4, <1>6 DEF EntryOK
  <2>2. ids = {waiting[a].id}
    BY <1>6 DEF ids
  <2> QED
    BY <1>5, <1>6, <2>1, <2>2, NamedQueue
<1>8. \A d2 : SeatsKept(rooms, d2, rooms)
  BY DEF SeatsKept
<1>9. CASE ~o.ok /\ Save(o.db, q, rooms, members)
  BY <1>3, <1>5, <1>8, <1>9, SaveValue
<1>10. CASE MatchQueues(o.db, waiting, rooms, members)
  BY <1>3, <1>6, <1>7, <1>8, <1>10, MatchQueuesValue
<1>11. CASE \E c \in Releases(o.db, ids) : Save(c.db, IF c.told = {} THEN waiting ELSE q, rooms, members)
  <2>1. PICK c \in Releases(o.db, ids) : Save(c.db, IF c.told = {} THEN waiting ELSE q, rooms, members)
    BY <1>11
  <2>2. ids \in SUBSET AdmissionIds
    BY <1>4 DEF ids
  <2>3. c.told \subseteq ids
    BY <1>4, <2>1, <2>2, ReleasedRows
  <2> DEFINE q2 == IF c.told = {} THEN waiting ELSE q
  <2>4. DOMAIN q2 \subseteq DOMAIN waiting /\ \A b \in DOMAIN q2 : q2[b].id = waiting[b].id
    BY <1>6
  <2>5. \A b \in DOMAIN waiting \ DOMAIN q2 : waiting[b].id \in c.told
    <3>1. CASE c.told = {}
      BY <3>1
    <3>2. CASE c.told # {}
      <4>1. o.id \in c.told
        BY <2>3, <3>2 DEF ids
      <4> QED
        BY <1>6, <3>2, <4>1
    <3> QED
      BY <3>1, <3>2
  <2>6. Save(c.db, q2, rooms, members)
    BY <2>1
  <2> HIDE DEF q2
  <2>7. QueueSteps(o.db, waiting, c.db, q2)
    BY <1>4, <1>6, <2>1, <2>2, <2>4, <2>5, ReleasedQueue
  <2>8. ValueOK(c.db, q2, rooms, draining', {})
    BY <1>3, <1>6, <1>7, <2>7, QueueStepValue
  <2> QED
    BY <1>3, <1>8, <2>6, <2>8, SaveValue
<1> QED
  BY <1>1, <1>9, <1>10, <1>11 DEF waiting, ids

\* QueueJoin keeps the agreement, with an earlier entry or without.
LEMMA QueueJoinValue ==
  ASSUME Valued, NEW a \in Accounts, NEW s \in LobbySettings, QueueJoin(a, s)
  PROVE  Carried
<1>1. /\ QueueOK(queues) /\ TablesOK(rooms) /\ RowsOK(db) /\ ValueOK(db, queues, rooms, draining', {})
  BY ValuedFacts DEF Fitting
<1>2. CASE ~Queued(a)
  <2>1. Enqueue(db, queues, a, s) /\ a \notin DOMAIN queues
    BY <1>2 DEF QueueJoin, Queued
  <2> QED
    BY <1>1, <2>1, EnqueueValue
<1>3. CASE Queued(a)
  <2> DEFINE ids == {queues[a].id}
             as == {a}
             q == Dequeue(queues, as)
  <2>1. PICK o \in Releases(db, ids) :
          IF o.told = {} THEN Save(o.db, queues, rooms, members)
          ELSE Enqueue(Tidy(o.db, q, rooms), q, a, s)
    BY <1>3 DEF QueueJoin
  <2>2. ids \in SUBSET AdmissionIds
    BY <1>1, <1>3 DEF QueueOK, EntryType, Queued
  <2>3. o.told \subseteq ids
    BY <1>1, <2>2, ReleasedRows
  <2>4. CASE o.told = {}
    <3>1. Save(o.db, queues, rooms, members)
      BY <2>1, <2>4
    <3>2. QueueSteps(db, queues, o.db, queues)
      <4> HIDE DEF ids
      <4> QED
        BY <1>1, <2>2, ReleasedQueue
    <3> QED
      BY <3>1, <3>2, SavedQueue
  <2>5. CASE o.told # {}
    <3>1. o.told = ids
      BY <2>3, <2>5
    <3>2. QueueOK(q) /\ DOMAIN q = DOMAIN queues \ as /\ \A b \in DOMAIN queues \ as : q[b].id = queues[b].id
      <4> HIDE DEF as
      <4> QED
        BY <1>1, DequeueOK
    <3>3. \A b \in DOMAIN queues \ DOMAIN q : queues[b].id \in o.told
      BY <3>1, <3>2
    <3>4. DOMAIN q \subseteq DOMAIN queues /\ \A b \in DOMAIN q : q[b].id = queues[b].id
      BY <3>2
    <3>5. a \notin DOMAIN q
      BY <3>2
    <3> DEFINE d == Tidy(o.db, q, rooms)
    <3>6. Enqueue(d, q, a, s)
      BY <2>1, <2>5
    <3> HIDE DEF q, ids
    <3>7. QueueSteps(db, queues, o.db, q)
      BY <1>1, <2>2, <3>3, <3>4, ReleasedQueue
    <3>8. ValueOK(o.db, q, rooms, draining', {})
      BY <1>1, <3>7, QueueStepValue
    <3>9. ValueOK(d, q, rooms, draining', {})
      BY <1>1, <3>2, <3>8, TidyValue
    <3> HIDE DEF d
    <3> QED
      BY <3>2, <3>5, <3>6, <3>9, EnqueueValue
  <2> QED
    BY <2>4, <2>5
<1> QED
  BY <1>2, <1>3

\* A seat of a room in its lobby names the new reservation.
LEMMA NamedSeat ==
  ASSUME NEW d, NEW q, NEW rs, NEW w, NEW id, ValueOK(d, q, rs, w, {id}), NEW r, NEW new,
         RoomOK(d, new, w), Matches(new) = {}, id \in Admitted(new.seats),
         r \in DOMAIN rs => /\ rs[r].match = None /\ rs[r].pendingAbort = None
                            /\ Admitted(rs[r].seats) \subseteq Admitted(new.seats),
         NEW rs2, DOMAIN rs2 = DOMAIN rs \cup {r}, rs2[r] = new, \A x \in DOMAIN rs \ {r} : rs2[x] = rs[x]
  PROVE  ValueOK(d, q, rs2, w, {}) /\ SeatsKept(rs, d, rs2)
<1>1. \A x \in DOMAIN rs2 : RoomOK(d, rs2[x], w)
  BY DEF ValueOK
<1>2. ASSUME NEW i, NamedId(q, rs, i) \/ i \in {id} PROVE NamedId(q, rs2, i)
  <2>1. CASE \E a \in DOMAIN q : q[a].id = i
    BY <2>1 DEF NamedId
  <2>2. CASE i \in {id}
    BY <2>2 DEF NamedId
  <2>3. ASSUME NEW x \in DOMAIN rs, i \in Admitted(rs[x].seats) PROVE NamedId(q, rs2, i)
    <3>1. x \in DOMAIN rs2 /\ i \in Admitted(rs2[x].seats)
      BY <2>3
    <3> QED
      BY <3>1 DEF NamedId
  <2> QED
    BY <1>2, <2>1, <2>2, <2>3 DEF NamedId
<1>3. ASSUME NEW m, HeldMatch(rs, m) PROVE HeldMatch(rs2, m)
  <2>1. PICK x \in DOMAIN rs : m \in Matches(rs[x])
    BY <1>3 DEF HeldMatch
  <2>2. x # r
    BY <2>1 DEF Matches
  <2> QED
    BY <2>1, <2>2 DEF HeldMatch
<1>4. \A y, x \in DOMAIN rs2 : Matches(rs2[y]) \cap Matches(rs2[x]) # {} => y = x
  BY DEF ValueOK
<1>5. ValueOK(d, q, rs2, w, {})
  BY <1>1, <1>2, <1>3, <1>4 DEF ValueOK
<1>6. SeatsKept(rs, d, rs2)
  BY DEF SeatsKept
<1> QED
  BY <1>5, <1>6

\* A room that waits for nothing.
LEMMA IdleRoom ==
  ASSUME NEW d, NEW new, NEW w, new.match = None, new.pendingAbort = None, new.phase = "lobby",
         \A s \in DOMAIN new.seats : SeatOK(d, new, s, w)
  PROVE  RoomOK(d, new, w) /\ Matches(new) = {}
BY DEF RoomOK, RunOK, AbortOK, Matches

\* Create keeps the agreement.
LEMMA CreateValue ==
  ASSUME Valued, NEW a \in Accounts, NEW s \in LobbySettings, Create(a, s)
  PROVE  Carried
<1> DEFINE seats(o) == With(<<>>, 0, Member(a, o.id))
           new(o) == NewRoom("local", s, seats(o))
<1>1. /\ QueueOK(queues) /\ TablesOK(rooms) /\ RowsOK(db) /\ ValueOK(db, queues, rooms, draining', {})
      /\ Fitting /\ Fitting'
  BY ValuedFacts DEF Fitting
<1>2. PICK o \in Reserves(db, a), r \in RoomIds \ DOMAIN rooms :
        IF o.ok THEN Save(o.db, queues, With(rooms, r, new(o)), With(members, a, r))
        ELSE Save(o.db, queues, rooms, members)
  BY DEF Create
<1>3. /\ o.id \in AdmissionIds /\ RowsOK(o.db)
      /\ o.db.adm[o.id].account = a /\ o.db.adm[o.id].match = None /\ o.db.adm[o.id].state = "reserved"
  <2>1. NewRow(db, a, o)
    BY <1>1, ReservesRow
  <2> QED
    BY <2>1 DEF NewRow
<1> DEFINE ids == {o.id}
<1>4. ValueOK(o.db, queues, rooms, draining', ids) /\ (~o.ok => ValueOK(o.db, queues, rooms, draining', {}))
  BY <1>1, <1>2, ReservedValue
<1>5. CASE ~o.ok
  <2>1. Save(o.db, queues, rooms, members)
    BY <1>2, <1>5
  <2>2. SeatsKept(rooms, o.db, rooms)
    BY DEF SeatsKept
  <2> QED
    BY <1>1, <1>4, <1>5, <2>1, <2>2, SaveValue
<1>6. CASE o.ok
  <2> DEFINE m == Member(a, o.id)
             f == seats(o)
             room == new(o)
             rs2 == With(rooms, r, room)
  <2>1. m.account = a /\ m.admission = o.id /\ m.ready = FALSE
    BY DEF Member
  <2>2. f = With(<<>>, 0, m)
    OBVIOUS
  <2> HIDE DEF m
  <2>3. DOMAIN f = {0} /\ f[0] = m
    BY <2>2 DEF With, Over
  <2> HIDE DEF f
  <2>4. room.seats = f /\ room.match = None /\ room.pendingAbort = None /\ room.phase = "lobby"
    BY DEF NewRoom, f
  <2>5. Save(o.db, queues, rs2, With(members, a, r))
    BY <1>2, <1>6
  <2> HIDE DEF room
  <2>6. DOMAIN rs2 = DOMAIN rooms \cup {r} /\ rs2[r] = room /\ \A x \in DOMAIN rooms \ {r} : rs2[x] = rooms[x]
    BY <1>2 DEF With, Over
  <2> HIDE DEF rs2
  <2>7. \A x \in DOMAIN room.seats : SeatOK(o.db, room, x, draining')
    BY <1>3, <2>1, <2>3, <2>4 DEF SeatOK
  <2>8. RoomOK(o.db, room, draining') /\ Matches(room) = {}
    BY <2>4, <2>7, IdleRoom
  <2>9. o.id \in Admitted(room.seats)
    BY <1>3, <2>1, <2>3, <2>4, LobbyAssumption DEF Admitted
  <2>10. ValueOK(o.db, queues, rs2, draining', {}) /\ SeatsKept(rooms, o.db, rs2)
    BY <1>2, <1>4, <2>6, <2>8, <2>9, NamedSeat
  <2> QED
    BY <1>1, <2>5, <2>10, SaveValue
<1> QED
  BY <1>5, <1>6

\* Join by a new member keeps the agreement.
LEMMA JoinValue ==
  ASSUME Valued, NEW a \in Accounts, NEW r \in DOMAIN rooms, Join(a, r)
  PROVE  Carried
<1> DEFINE es(o) == With(<<>>, a, [id |-> o.id, order |-> 0])
           room == rooms[r]
<1>1. /\ QueueOK(queues) /\ TablesOK(rooms) /\ RowsOK(db) /\ ValueOK(db, queues, rooms, draining', {})
      /\ Fitting /\ Fitting'
  BY ValuedFacts DEF Fitting
<1>2. PICK o \in Reserves(db, a) :
        IF o.ok THEN Save(o.db, queues, [rooms EXCEPT ![r] = Assign(@, es(o))], With(members, a, r))
        ELSE Save(o.db, queues, rooms, members)
  BY DEF Join
<1>3. /\ o.id \in AdmissionIds /\ RowsOK(o.db)
      /\ o.db.adm[o.id].account = a /\ o.db.adm[o.id].match = None /\ o.db.adm[o.id].state = "reserved"
  <2>1. NewRow(db, a, o)
    BY <1>1, ReservesRow
  <2> QED
    BY <2>1 DEF NewRow
<1> DEFINE ids == {o.id}
<1>4. ValueOK(o.db, queues, rooms, draining', ids) /\ (~o.ok => ValueOK(o.db, queues, rooms, draining', {}))
  BY <1>1, <1>2, ReservedValue
<1>5. /\ Fits(room) /\ room.match = None /\ room.pendingAbort = None
      /\ Cardinality(DOMAIN room.seats) < Size(room)
  BY <1>1 DEF Join, MayJoin, TablesOK
<1>6. RoomOK(o.db, room, draining') /\ room.phase = "lobby"
  BY <1>4, <1>5 DEF ValueOK, RoomOK, RunOK
<1>7. CASE ~o.ok
  <2>1. Save(o.db, queues, rooms, members)
    BY <1>2, <1>7
  <2>2. SeatsKept(rooms, o.db, rooms)
    BY DEF SeatsKept
  <2> QED
    BY <1>1, <1>4, <1>7, <2>1, <2>2, SaveValue
<1>8. CASE o.ok
  <2> DEFINE e == [id |-> o.id, order |-> 0]
             q == es(o)
             new == Assign(room, q)
             rs2 == [rooms EXCEPT ![r] = new]
  <2>1. e.order = 0 /\ e.id = o.id
    OBVIOUS
  <2>2. q = With(<<>>, a, e)
    OBVIOUS
  <2>3. Save(o.db, queues, rs2, With(members, a, r))
    BY <1>2, <1>8
  <2> HIDE DEF e
  <2>4. DOMAIN q = {a} /\ q[a] = e
    BY <2>2 DEF With, Over
  <2> HIDE DEF q
  <2>5. IsFiniteSet(DOMAIN q) /\ Cardinality(DOMAIN q) = 1
    BY <2>4, FS_Singleton
  <2>6. Ordered(q)
    BY <2>1, <2>4, <2>5 DEF Ordered
  <2>7. Cardinality(DOMAIN q) + Cardinality(DOMAIN room.seats) <= Size(room)
    <3>1. Cardinality(DOMAIN room.seats) \in Nat /\ Size(room) \in Nat
      BY <1>5, FreeSeats, SizeFact DEF Fits
    <3> QED
      BY <1>5, <2>5, <3>1
  <2>8. DOMAIN q \subseteq Accounts /\ \A b \in DOMAIN q : q[b].id \in AdmissionIds
    BY <1>3, <2>1, <2>4
  <2>9. new = Assign(room, q)
    OBVIOUS
  <2> HIDE DEF new
  <2>a. Fits(room)
    BY <1>5
  <2>10. /\ new = [room EXCEPT !.seats = new.seats]
         /\ DOMAIN room.seats \subseteq DOMAIN new.seats
         /\ \A x \in DOMAIN room.seats : /\ new.seats[x].account = room.seats[x].account
                                         /\ new.seats[x].bound = room.seats[x].bound
                                         /\ new.seats[x].admission = room.seats[x].admission
                                         /\ new.seats[x].ready => room.seats[x].ready
         /\ \A x \in DOMAIN new.seats \ DOMAIN room.seats :
              /\ new.seats[x].account \in DOMAIN q
              /\ new.seats[x].admission = q[new.seats[x].account].id
              /\ ~new.seats[x].ready
         /\ \A b \in DOMAIN q : \E x \in DOMAIN new.seats \ DOMAIN room.seats : new.seats[x].account = b
    <3> HIDE DEF room
    <3> QED
      BY <2>6, <2>7, <2>8, <2>9, <2>a, Assigned
  <2>11. new.match = None /\ new.pendingAbort = None /\ new.phase = "lobby"
    <3> DEFINE f == new.seats
    <3>1. new = [room EXCEPT !.seats = f] /\ room \in RoomType
      BY <1>5, <2>10 DEF Fits
    <3> HIDE DEF f
    <3> QED
      BY <1>5, <1>6, <3>1 DEF RoomType
  <2>12. \A x \in DOMAIN new.seats : SeatOK(o.db, new, x, draining')
    <3>1. ASSUME NEW x \in DOMAIN room.seats PROVE SeatOK(o.db, new, x, draining')
      <4>1. SeatOK(o.db, room, x, draining')
        BY <1>6 DEF RoomOK
      <4> QED
        BY <1>5, <2>10, <2>11, <4>1 DEF SeatOK, Matches
    <3>2. ASSUME NEW x \in DOMAIN new.seats \ DOMAIN room.seats PROVE SeatOK(o.db, new, x, draining')
      <4>1. new.seats[x].account = a /\ new.seats[x].admission = o.id /\ ~new.seats[x].ready
        BY <2>1, <2>4, <2>10
      <4> QED
        BY <1>3, <4>1 DEF SeatOK
    <3> QED
      BY <3>1, <3>2
  <2>13. RoomOK(o.db, new, draining') /\ Matches(new) = {}
    BY <2>11, <2>12, IdleRoom
  <2>14. o.id \in Admitted(new.seats)
    BY <1>3, <2>1, <2>4, <2>10, LobbyAssumption DEF Admitted
  <2>15. Admitted(room.seats) \subseteq Admitted(new.seats)
    BY <2>10 DEF Admitted
  <2>16. DOMAIN rs2 = DOMAIN rooms \cup {r} /\ rs2[r] = new /\ \A x \in DOMAIN rooms \ {r} : rs2[x] = rooms[x]
    OBVIOUS
  <2> HIDE DEF rs2
  <2>17. ValueOK(o.db, queues, rs2, draining', {}) /\ SeatsKept(rooms, o.db, rs2)
    BY <1>4, <1>5, <2>13, <2>14, <2>15, <2>16, NamedSeat
  <2> QED
    BY <1>1, <2>3, <2>17, SaveValue
<1> QED
  BY <1>7, <1>8

\* Writing one seat of a room leaves everything else of it.
LEMMA SeatFields ==
  ASSUME NEW room, Fits(room), NEW x \in DOMAIN room.seats, NEW v,
         NEW new, new = [room EXCEPT !.seats = [@ EXCEPT ![x] = v]]
  PROVE  /\ new.match = room.match /\ new.phase = room.phase /\ new.pendingAbort = room.pendingAbort
         /\ Size(new) = Size(room) /\ DOMAIN new.seats = DOMAIN room.seats /\ new.seats[x] = v
         /\ \A s \in DOMAIN room.seats \ {x} : new.seats[s] = room.seats[s]
<1> DEFINE f == [room.seats EXCEPT ![x] = v]
<1>1. new = [room EXCEPT !.seats = f]
  OBVIOUS
<1>2. f[x] = v /\ DOMAIN f = DOMAIN room.seats /\ \A s \in DOMAIN room.seats \ {x} : f[s] = room.seats[s]
  BY SeatMapFacts DEF Fits, RoomType
<1> HIDE DEF f
<1>3. /\ new.match = room.match /\ new.phase = room.phase /\ new.pendingAbort = room.pendingAbort
      /\ Size(new) = Size(room) /\ new.seats = f
  BY <1>1 DEF Fits, RoomType, Size
<1> QED
  BY <1>2, <1>3

\* Ready keeps the agreement, with a reservation held or a new one.
LEMMA ReadyValue ==
  ASSUME Valued, NEW a \in Accounts, Ready(a)
  PROVE  Carried
<1> DEFINE r == members[a]
           room == rooms[r]
           x == SeatOf(room, a)
<1>1. /\ QueueOK(queues) /\ TablesOK(rooms) /\ RowsOK(db) /\ ValueOK(db, queues, rooms, draining', {})
      /\ Fitting /\ Fitting' /\ LobbyOK(queues, rooms, members)
  BY ValuedFacts DEF Fitting
<1>a. a \in DOMAIN members
  BY DEF Ready
<1>2. r \in DOMAIN rooms /\ Fits(room) /\ Keeps(room, room)
  BY <1>1, <1>a, KeepsSelf DEF LobbyOK, Placed, TablesOK
<1>3. x \in DOMAIN room.seats /\ room.seats[x].account = a
  BY <1>1, <1>2, <1>a, MemberSeat
<1>4. room.seats[x] \in MemberType
  BY <1>2, <1>3, SeatMapFacts DEF Fits, RoomType
<1>5. room.match = None /\ room.pendingAbort = None /\ RoomOK(db, room, draining')
  BY <1>1, <1>2 DEF Ready, ValueOK
<1>6. room.phase = "lobby"
  BY <1>5 DEF RoomOK, RunOK
<1>7. \/ room.seats[x].admission # None /\ Save(db, queues, [rooms EXCEPT ![r].seats[x].ready = TRUE], members)
      \/ /\ room.seats[x].admission = None
         /\ \E o \in Reserves(db, a) :
              Save(o.db, queues, IF o.ok THEN [rooms EXCEPT ![r].seats[x].ready = TRUE,
                                                            ![r].seats[x].admission = o.id]
                                 ELSE rooms, members)
  BY DEF Ready
<1> HIDE DEF x
<1>8. CASE room.seats[x].admission # None /\ Save(db, queues, [rooms EXCEPT ![r].seats[x].ready = TRUE], members)
  <2> DEFINE v == [room.seats[x] EXCEPT !.ready = TRUE]
             new == [room EXCEPT !.seats = [@ EXCEPT ![x] = v]]
  <2>1. /\ v \in MemberType /\ v.account = room.seats[x].account /\ v.bound = room.seats[x].bound
        /\ v.admission = room.seats[x].admission
    BY <1>3, <1>4 DEF MemberType
  <2>2. [rooms EXCEPT ![r].seats[x].ready = TRUE] = [rooms EXCEPT ![r] = new]
    OBVIOUS
  <2>3. new = [room EXCEPT !.seats = [@ EXCEPT ![x] = v]]
    OBVIOUS
  <2> HIDE DEF v, new, room
  <2>4. Keeps(new, room)
    BY <1>2, <1>3, <2>1, <2>3, SeatKept
  <2>5. /\ new.match = room.match /\ new.phase = room.phase /\ new.pendingAbort = room.pendingAbort
        /\ DOMAIN new.seats = DOMAIN room.seats /\ new.seats[x] = v
        /\ \A s \in DOMAIN room.seats \ {x} : new.seats[s] = room.seats[s]
    BY <1>2, <1>3, <2>3, SeatFields
  <2>6. \A s \in DOMAIN new.seats : SeatOK(db, new, s, draining')
    <3>1. \A s \in DOMAIN room.seats : SeatOK(db, room, s, draining')
      BY <1>5 DEF RoomOK
    <3> QED
      BY <1>3, <1>5, <1>8, <2>1, <2>5, <3>1 DEF SeatOK, Matches
  <2>7. RoomOK(db, new, draining') /\ Matches(new) = {} /\ Matches(room) = {}
    BY <1>5, <1>6, <2>5, <2>6, IdleRoom DEF Matches
  <2>8. \A s \in DOMAIN room.seats : new.seats[s].admission = room.seats[s].admission
    BY <2>1, <2>5
  <2>9. Admitted(room.seats) \subseteq Admitted(new.seats)
    BY <2>5, <2>8 DEF Admitted
  <2>10. Goes(db, room, db, new, draining')
    BY <1>1, <1>5, <2>7, <2>9, RowsSame DEF Goes, Touches, Sits
  <2>11. Save(db, queues, [rooms EXCEPT ![r] = new], members) /\ Fits(new)
    BY <1>8, <2>2, <2>4 DEF Keeps
  <2> QED
    BY <1>2, <2>10, <2>11, SavedGoes DEF room
<1>9. ASSUME room.seats[x].admission = None, NEW o \in Reserves(db, a),
             Save(o.db, queues, IF o.ok THEN [rooms EXCEPT ![r].seats[x].ready = TRUE,
                                                           ![r].seats[x].admission = o.id]
                                ELSE rooms, members)
      PROVE  Carried
  <2>1. /\ o.id \in AdmissionIds /\ RowsOK(o.db)
        /\ o.db.adm[o.id].account = a /\ o.db.adm[o.id].match = None /\ o.db.adm[o.id].state = "reserved"
    <3>1. NewRow(db, a, o)
      BY <1>1, ReservesRow
    <3> QED
      BY <3>1 DEF NewRow
  <2> DEFINE ids == {o.id}
  <2>2. ValueOK(o.db, queues, rooms, draining', ids) /\ (~o.ok => ValueOK(o.db, queues, rooms, draining', {}))
    BY <1>1, ReservedValue
  <2>3. CASE ~o.ok
    <3>1. Save(o.db, queues, rooms, members)
      BY <1>9, <2>3
    <3>2. SeatsKept(rooms, o.db, rooms)
      BY DEF SeatsKept
    <3> QED
      BY <1>1, <2>2, <2>3, <3>1, <3>2, SaveValue
  <2>4. CASE o.ok
    <3> DEFINE v == [room.seats[x] EXCEPT !.ready = TRUE, !.admission = o.id]
               new == [room EXCEPT !.seats = [@ EXCEPT ![x] = v]]
               rs2 == [rooms EXCEPT ![r] = new]
    <3>1. v.account = a /\ v.admission = o.id /\ o.id # None
      BY <1>3, <1>4, <2>1, LobbyAssumption DEF MemberType
    <3>2. [rooms EXCEPT ![r].seats[x].ready = TRUE, ![r].seats[x].admission = o.id] = rs2
      BY <1>2, <1>3 DEF Fits, RoomType
    <3>3. new = [room EXCEPT !.seats = [@ EXCEPT ![x] = v]]
      OBVIOUS
    <3>4. Save(o.db, queues, rs2, members)
      BY <1>9, <2>4, <3>2
    <3>a. RoomOK(o.db, room, draining')
      BY <1>2, <2>2 DEF ValueOK
    <3>b. DOMAIN rs2 = DOMAIN rooms \cup {r} /\ rs2[r] = new /\ \A y \in DOMAIN rooms \ {r} : rs2[y] = rooms[y]
      BY <1>2
    <3> HIDE DEF v, new, room, rs2
    <3>5. /\ new.match = room.match /\ new.phase = room.phase /\ new.pendingAbort = room.pendingAbort
          /\ DOMAIN new.seats = DOMAIN room.seats /\ new.seats[x] = v
          /\ \A s \in DOMAIN room.seats \ {x} : new.seats[s] = room.seats[s]
      BY <1>2, <1>3, <3>3, SeatFields
    <3>6. \A s \in DOMAIN new.seats : SeatOK(o.db, new, s, draining')
      <4>1. \A s \in DOMAIN room.seats : SeatOK(o.db, room, s, draining')
        BY <3>a DEF RoomOK
      <4> QED
        BY <1>3, <1>5, <2>1, <3>1, <3>5, <4>1 DEF SeatOK, Matches
    <3>7. RoomOK(o.db, new, draining') /\ Matches(new) = {}
      BY <1>5, <1>6, <3>5, <3>6, IdleRoom
    <3>8. o.id \in Admitted(new.seats) /\ Admitted(room.seats) \subseteq Admitted(new.seats)
      BY <1>3, <1>9, <3>1, <3>5 DEF Admitted
    <3>9. ValueOK(o.db, queues, rs2, draining', {}) /\ SeatsKept(rooms, o.db, rs2)
      BY <1>5, <2>2, <3>7, <3>8, <3>b, NamedSeat DEF room
    <3> QED
      BY <1>1, <3>4, <3>9, SaveValue
  <2> QED
    BY <2>3, <2>4
<1> QED
  BY <1>7, <1>8, <1>9

\* A room with the same seats, whoever is bound to them.
LEMMA GoesFrom ==
  ASSUME NEW d, NEW room, NEW d2, NEW new, NEW w, Goes(d, room, d2, new, w), NEW old, Seatwise(room, old)
  PROVE  Goes(d, old, d2, new, w)
<1>1. Admitted(old.seats) = Admitted(room.seats)
  BY DEF Admitted, Seatwise
<1>2. Matches(old) = Matches(room) /\ Sits(old, d2, new)
  BY DEF Goes, Matches, Sits, Seatwise
<1> QED
  BY <1>1, <1>2 DEF Goes, Touches

\* Join by a member keeps the agreement and the seats.
LEMMA RejoinValue ==
  ASSUME Valued, NEW a \in Accounts, NEW r \in DOMAIN rooms, Rejoin(a, r)
  PROVE  Carried
<1> DEFINE x == SeatOf(rooms[r], a)
           room == [rooms[r] EXCEPT !.seats[x].bound = TRUE]
           v == [rooms[r].seats[x] EXCEPT !.bound = TRUE]
<1>1. a \in DOMAIN members /\ members[a] = r /\ LobbyOK(queues, rooms, members)
  BY ValuedFacts DEF Rejoin
<1>2. Fits(rooms[r]) /\ Keeps(rooms[r], rooms[r]) /\ RoomOK(db, rooms[r], draining') /\ RowsOK(db) /\ draining' \in BOOLEAN
  BY RoomValue, KeepsSelf
<1>3. x \in DOMAIN rooms[r].seats
  BY <1>1, <1>2, MemberSeat
<1>4. IF room.match = None THEN Save(db, queues, [rooms EXCEPT ![r] = room], members)
      ELSE \E o \in Plays(db, room) :
             IF o.ok THEN Save(o.db, queues, Pruned(rooms, r, o.room, members).rooms,
                               Pruned(rooms, r, o.room, members).members)
             ELSE Save(o.db, queues, [rooms EXCEPT ![r] = o.room], members)
  BY DEF Rejoin
<1> HIDE DEF x
<1>5. room = [rooms[r] EXCEPT !.seats = [@ EXCEPT ![x] = v]] /\ room = [rooms[r] EXCEPT !.seats[x].bound = TRUE]
  OBVIOUS
<1>6. /\ v.account = rooms[r].seats[x].account /\ v.admission = rooms[r].seats[x].admission
      /\ v.ready = rooms[r].seats[x].ready /\ v \in MemberType
  <2>1. rooms[r].seats[x] \in MemberType
    BY <1>2, <1>3, SeatMapFacts DEF Fits, RoomType
  <2> QED
    BY <2>1 DEF MemberType
<1> HIDE DEF v, room
<1>7. Fits(room)
  <2> DEFINE f == [rooms[r].seats EXCEPT ![x] = v]
  <2>1. rooms[r].seats \in SeatMaps
    BY <1>2 DEF Fits, RoomType
  <2>2. f \in SeatMaps /\ DOMAIN f = DOMAIN rooms[r].seats
    BY <1>3, <1>6, <2>1, SeatWritten
  <2>3. room = [rooms[r] EXCEPT !.seats = f]
    BY <1>5
  <2> HIDE DEF f
  <2> QED
    BY <1>2, <2>2, <2>3, FitsSeats
<1>8. Seatwise(room, rooms[r])
  <2>1. /\ room.match = rooms[r].match /\ room.phase = rooms[r].phase /\ room.pendingAbort = rooms[r].pendingAbort
        /\ Size(room) = Size(rooms[r]) /\ DOMAIN room.seats = DOMAIN rooms[r].seats /\ room.seats[x] = v
        /\ \A s \in DOMAIN rooms[r].seats \ {x} : room.seats[s] = rooms[r].seats[s]
    BY <1>2, <1>3, <1>5, SeatFields
  <2> QED
    BY <1>6, <2>1 DEF Seatwise
<1>9. Goes(db, rooms[r], db, room, draining')
  <2>1. Goes(db, rooms[r], db, rooms[r], draining')
    BY <1>2, SameGoes
  <2> QED
    BY <1>8, <2>1, SeatwiseGoes
<1>10. CASE room.match = None
  <2>1. Save(db, queues, [rooms EXCEPT ![r] = room], members)
    BY <1>4, <1>10
  <2> QED
    BY <1>7, <1>9, <2>1, SavedGoes
<1>11. CASE room.match # None
  <2>1. PICK o \in Plays(db, room) :
             IF o.ok THEN Save(o.db, queues, Pruned(rooms, r, o.room, members).rooms,
                               Pruned(rooms, r, o.room, members).members)
             ELSE Save(o.db, queues, [rooms EXCEPT ![r] = o.room], members)
    BY <1>4, <1>11
  <2>2. RoomOK(db, room, draining')
    BY <1>9 DEF Goes
  <2>3. Fits(o.room) /\ Goes(db, room, o.db, o.room, draining')
    BY <1>2, <1>7, <1>11, <2>2, PlayKeeps, PlaysGoes
  <2>4. Goes(db, rooms[r], o.db, o.room, draining')
    BY <1>8, <2>3, GoesFrom
  <2>5. CASE o.ok
    <3> DEFINE after == Pruned(rooms, r, o.room, members)
    <3>1. Save(o.db, queues, after.rooms, after.members)
      BY <2>1, <2>5
    <3> HIDE DEF after
    <3> QED
      BY <2>3, <2>4, <3>1, PrunedValue DEF after
  <2>6. CASE ~o.ok
    <3>1. Save(o.db, queues, [rooms EXCEPT ![r] = o.room], members)
      BY <2>1, <2>6
    <3> QED
      BY <2>3, <2>4, <3>1, SavedGoes
  <2> QED
    BY <2>5, <2>6
<1> QED
  BY <1>10, <1>11

\* new is in the phase of room, and no seat of it has an admission.
Bared(new, room) ==
  /\ new.match = room.match /\ new.phase = room.phase /\ new.pendingAbort = room.pendingAbort
  /\ \A k \in DOMAIN new.seats : new.seats[k].admission = None /\ ~new.seats[k].ready

\* The room with new settings has no admission, and waits for what it waited for.
LEMMA SettingsBare ==
  ASSUME NEW room, Fits(room), room.host \in DOMAIN room.seats, NEW s \in LobbySettings, NEW ids,
         ids = Admitted(room.seats), NEW shrunk,
         shrunk = IF SizeOf[s] < Size(room) THEN Compacted(room) ELSE room,
         NEW new, new = [shrunk EXCEPT !.settings = s, !.seats = Invalidate(Forget(@, ids))]
  PROVE  Bared(new, room)
<1> DEFINE f == shrunk.seats
           h == Forget(f, ids)
           g == Invalidate(h)
<1>1. /\ shrunk \in RoomType
      /\ \A k \in DOMAIN shrunk.seats : \E t \in DOMAIN room.seats : shrunk.seats[k] = room.seats[t]
  <2>1. CASE SizeOf[s] < Size(room)
    <3>1. shrunk = Compacted(room)
      BY <2>1
    <3> QED
      BY <3>1, CompactedFacts
  <2>2. CASE ~(SizeOf[s] < Size(room))
    BY <2>2 DEF Fits
  <2> QED
    BY <2>1, <2>2
<1>2. /\ shrunk.match = room.match /\ shrunk.phase = room.phase /\ shrunk.pendingAbort = room.pendingAbort
  BY DEF Compacted, Fits, RoomType
<1>3. \A k \in DOMAIN f : f[k].admission \in ids \/ f[k].admission = None
  <2>1. \A t \in DOMAIN room.seats : room.seats[t].admission \in ids \/ room.seats[t].admission = None
    BY DEF Admitted
  <2> QED
    BY <1>1, <2>1
<1>4. f \in SeatMaps
  BY <1>1 DEF RoomType
<1>5. new = [shrunk EXCEPT !.settings = s, !.seats = g]
  OBVIOUS
<1> HIDE DEF f
<1>6. h \in SeatMaps /\ DOMAIN h = DOMAIN f /\ \A k \in DOMAIN h : h[k].admission = None
  <2>1. /\ h \in SeatMaps /\ DOMAIN h = DOMAIN f
        /\ \A k \in DOMAIN f : h[k].admission = IF f[k].admission \in ids THEN None ELSE f[k].admission
    BY <1>4, ForgetFacts
  <2> HIDE DEF h
  <2> QED
    BY <1>3, <2>1
<1> HIDE DEF h
<1>7. DOMAIN g = DOMAIN h /\ \A k \in DOMAIN g : g[k].admission = None /\ ~g[k].ready
  <2>1. /\ DOMAIN g = DOMAIN h
        /\ \A k \in DOMAIN h : g[k].admission = h[k].admission /\ g[k].ready = FALSE
    BY <1>6, InvalidateFacts
  <2> HIDE DEF g
  <2> QED
    BY <1>6, <2>1
<1> HIDE DEF g
<1>8. new.seats = g /\ new.match = shrunk.match /\ new.phase = shrunk.phase /\ new.pendingAbort = shrunk.pendingAbort
  BY <1>1, <1>5 DEF RoomType
<1> QED
  BY <1>2, <1>7, <1>8 DEF Bared

\* Settings keeps the agreement, whether all old reservations are released or not.
LEMMA SettingsValue ==
  ASSUME Valued, NEW a \in Accounts, NEW s \in LobbySettings, Settings(a, s)
  PROVE  Carried
<1> DEFINE r == members[a]
           room == rooms[r]
           ids == Admitted(room.seats)
           shrunk == IF SizeOf[s] < Size(room) THEN Compacted(room) ELSE room
           new == [shrunk EXCEPT !.settings = s, !.seats = Invalidate(Forget(@, ids))]
<1>1. /\ a \in DOMAIN members /\ room.host = SeatOf(room, a) /\ room.match = None
      /\ Cardinality(DOMAIN room.seats) <= SizeOf[s]
  BY DEF Settings
<1>2. LobbyOK(queues, rooms, members)
  BY ValuedFacts
<1>3. r \in DOMAIN rooms
  BY <1>1, <1>2 DEF LobbyOK, Placed
<1>4. /\ Fits(room) /\ Apart(room) /\ RoomOK(db, room, draining') /\ RowsOK(db) /\ draining' \in BOOLEAN
      /\ ids \in SUBSET AdmissionIds
  BY <1>3, RoomValue
<1>5. Keeps(room, room)
  BY <1>4, KeepsSelf
<1>6. room.host \in DOMAIN room.seats
  BY <1>1, <1>2, <1>5, MemberSeat
<1>7. PICK o \in Releases(db, ids) :
        \/ o.told = ids /\ MatchQueues(o.db, queues, [rooms EXCEPT ![r] = new], members)
        \/ Save(o.db, queues, [rooms EXCEPT ![r] = PartlyReleased(@, o.told)], members)
  BY DEF Settings
<1>8. CASE o.told = ids /\ MatchQueues(o.db, queues, [rooms EXCEPT ![r] = new], members)
  <2>1. shrunk = IF SizeOf[s] < Size(room) THEN Compacted(room) ELSE room
    OBVIOUS
  <2> HIDE DEF shrunk
  <2>2. new = [shrunk EXCEPT !.settings = s, !.seats = Invalidate(Forget(@, ids))] /\ ids = Admitted(room.seats)
    OBVIOUS
  <2>3. MatchQueues(o.db, queues, [rooms EXCEPT ![r] = new], members)
    BY <1>8
  <2>4. o \in Releases(db, Admitted(room.seats)) /\ o.told = Admitted(room.seats)
    BY <1>8
  <2> HIDE DEF new, ids, room
  <2>5. Reseats(new, room)
    BY <1>1, <1>4, <1>6, <2>1, <2>2, SettingsRoom
  <2>6. /\ new.match = room.match /\ new.phase = room.phase /\ new.pendingAbort = room.pendingAbort
        /\ \A k \in DOMAIN new.seats : new.seats[k].admission = None /\ ~new.seats[k].ready
    <3>1. Fits(room) /\ room.host \in DOMAIN room.seats /\ ids = Admitted(room.seats)
      BY <1>4, <1>6, <2>2
    <3>2. new = [shrunk EXCEPT !.settings = s, !.seats = Invalidate(Forget(@, ids))]
      BY <2>2
    <3>3. Bared(new, room)
      BY <2>1, <3>1, <3>2, SettingsBare
    <3> QED
      BY <3>3 DEF Bared
  <2>7. /\ Gone(db, room, o.db)
        /\ room.pendingAbort # None => o.db.mat[room.pendingAbort].state = "absent"
    <3>1. DOMAIN room.seats # {}
      BY <1>6
    <3> QED
      BY <1>1, <1>4, <2>4, <3>1, ReleasedGone
  <2>8. room.phase = "lobby"
    BY <1>1, <1>4 DEF RoomOK, RunOK
  <2>9. RoomOK(o.db, new, draining')
    BY <1>1, <2>6, <2>7, <2>8, BareRoom
  <2>10. Goes(db, room, o.db, new, draining')
    <3>1. Matches(new) \subseteq Matches(room)
      BY <2>6 DEF Matches
    <3> QED
      BY <2>7, <2>9, <3>1, GoneGoes
  <2>11. Fits(new) /\ Apart(new)
    BY <2>5 DEF Reseats
  <2> QED
    BY <1>3, <2>3, <2>10, <2>11, MatchedGoes DEF room
<1>9. CASE Save(o.db, queues, [rooms EXCEPT ![r] = PartlyReleased(@, o.told)], members)
  <2> DEFINE left == PartlyReleased(room, o.told)
  <2>1. Save(o.db, queues, [rooms EXCEPT ![r] = left], members)
    BY <1>9
  <2>2. Fits(left) /\ Goes(db, room, o.db, left, draining')
    <3> HIDE DEF ids
    <3> QED
      BY <1>1, <1>4, PartlyReleasedGoes
  <2> HIDE DEF left
  <2> QED
    BY <1>3, <2>1, <2>2, SavedGoes
<1> QED
  BY <1>7, <1>8, <1>9

\* Action keeps the agreement and the seats.
LEMMA ActionValue ==
  ASSUME Valued, NEW a \in Accounts, Action(a)
  PROVE  Carried
<1> DEFINE r == members[a]
<1>1. a \in DOMAIN members /\ rooms[r].match # None
  BY DEF Action
<1>2. LobbyOK(queues, rooms, members)
  BY ValuedFacts
<1>3. r \in DOMAIN rooms
  BY <1>1, <1>2 DEF LobbyOK, Placed
<1>4. PICK o \in Plays(db, rooms[r]) : Save(o.db, queues, [rooms EXCEPT ![r] = o.room], members)
  BY DEF Action
<1>5. Fits(o.room) /\ Goes(db, rooms[r], o.db, o.room, draining')
  BY <1>1, <1>3, PlaysValue
<1> QED
  BY <1>3, <1>4, <1>5, SavedGoes

\* Fewer seats with the same players keep them apart.
LEMMA ApartPart ==
  ASSUME NEW room, Apart(room), NEW new, DOMAIN new.seats \subseteq DOMAIN room.seats,
         \A s \in DOMAIN new.seats : new.seats[s].account = room.seats[s].account
  PROVE  Apart(new)
BY DEF Apart

\* new is an open room with players of room, and none of its seats has an admission.
Reopened(new, room) ==
  /\ Fits(new) /\ Apart(new) /\ new.match = None /\ new.phase = "lobby" /\ new.pendingAbort = room.pendingAbort
  /\ \A s \in DOMAIN new.seats : new.seats[s].admission = None /\ ~new.seats[s].ready

\* The room that a rematch opens fits its table, keeps the players apart and has no admission.
LEMMA RematchRoom ==
  ASSUME NEW room, Fits(room), Apart(room), NEW stay, stay \subseteq DOMAIN room.seats,
         NEW f, f = [s \in stay |-> [room.seats[s] EXCEPT !.admission = None, !.ready = FALSE]],
         NEW h \in Nat, NEW new,
         new = [room EXCEPT !.match = None, !.phase = "lobby", !.rematching = TRUE, !.seats = f, !.host = h]
  PROVE  Reopened(new, room)
<1>1. /\ room \in RoomType /\ Size(room) \in Nat /\ DOMAIN room.seats \subseteq Nat
      /\ \A s \in DOMAIN room.seats : room.seats[s] \in MemberType
      /\ DOMAIN room.seats \subseteq 0..(Size(room) - 1)
  <2>1. room \in RoomType /\ room.seats \in SeatMaps
    BY DEF Fits, RoomType
  <2> QED
    BY <2>1, SizeFact, SeatMapFacts DEF Fits, RoomType
<1>2. DOMAIN f = stay /\ \A s \in stay : /\ f[s] \in MemberType /\ f[s].account = room.seats[s].account
                                         /\ f[s].admission = None /\ ~f[s].ready
  BY <1>1, ZenonT(60) DEF MemberType
<1>3. f \in SeatMaps
  <2>1. f = [s \in DOMAIN f |-> f[s]] /\ DOMAIN f \subseteq Nat /\ \A s \in DOMAIN f : f[s] \in MemberType
    BY <1>1, <1>2
  <2> QED
    BY <2>1, SeatMapFacts
<1>4. /\ new \in RoomType /\ new.seats = f /\ new.settings = room.settings
      /\ new.match = None /\ new.phase = "lobby" /\ new.pendingAbort = room.pendingAbort
  BY <1>1, <1>3 DEF RoomType, MatchOrNone
<1>5. Fits(new)
  BY <1>1, <1>2, <1>4 DEF Fits, Size
<1>6. Apart(new)
  <2>1. DOMAIN new.seats = stay
    BY <1>2, <1>4
  <2>2. \A s \in DOMAIN new.seats : new.seats[s].account = room.seats[s].account
    BY <1>2, <1>4
  <2> QED
    BY <2>1, <2>2, ApartPart
<1> QED
  BY <1>2, <1>4, <1>5, <1>6 DEF Reopened

\* Rematch keeps the agreement.
LEMMA RematchValue ==
  ASSUME Valued, NEW a \in Accounts, Rematch(a)
  PROVE  Carried
<1> DEFINE r == members[a]
           room == rooms[r]
           stay == {s \in DOMAIN room.seats : Connected(room.seats[s])}
           gone == {room.seats[s].account : s \in DOMAIN room.seats \ stay}
           f == [s \in stay |-> [room.seats[s] EXCEPT !.admission = None, !.ready = FALSE]]
           again == [room EXCEPT !.match = None, !.phase = "lobby", !.rematching = TRUE,
                       !.seats = [s \in stay |-> [@[s] EXCEPT !.admission = None, !.ready = FALSE]]]
           ms2 == [b \in DOMAIN members \ gone |-> members[b]]
<1>1. a \in DOMAIN members /\ room.phase = "verdict"
  BY DEF Rematch
<1>2. LobbyOK(queues, rooms, members)
  BY ValuedFacts
<1>3. r \in DOMAIN rooms
  BY <1>1, <1>2 DEF LobbyOK, Placed
<1>4. /\ Fits(room) /\ Apart(room) /\ RoomOK(db, room, draining') /\ RowsOK(db) /\ draining' \in BOOLEAN
  BY <1>3, RoomValue
<1>5. PICK h \in IF room.path = "quick_play" THEN Lowest(stay \cup {Size(room)})
                 ELSE IF room.host \in stay THEN {room.host} ELSE Elect(again) :
        MatchQueues(db, queues, [rooms EXCEPT ![r] = [again EXCEPT !.host = h]], ms2)
  BY DEF Rematch
<1>6. stay \subseteq DOMAIN room.seats
  OBVIOUS
<1>7. /\ room \in RoomType /\ room.host \in Nat /\ Size(room) \in Nat /\ DOMAIN room.seats \subseteq Nat
  <2>1. room \in RoomType /\ room.seats \in SeatMaps
    BY <1>4 DEF Fits, RoomType
  <2> QED
    BY <1>4, <2>1, SizeFact, SeatMapFacts DEF Fits, RoomType
<1> HIDE DEF stay
<1>8. again = [room EXCEPT !.match = None, !.phase = "lobby", !.rematching = TRUE, !.seats = f] /\ DOMAIN f = stay
  OBVIOUS
<1>9. f = [s \in stay |-> [room.seats[s] EXCEPT !.admission = None, !.ready = FALSE]]
  OBVIOUS
<1> HIDE DEF f, again
<1>10. again.seats = f /\ again.host = room.host
  BY <1>7, <1>8 DEF RoomType
<1>11. h \in Nat
  <2>1. Lowest(stay \cup {Size(room)}) \subseteq Nat
    BY <1>6, <1>7 DEF Lowest
  <2>2. Elect(again) \subseteq Nat
    BY <1>6, <1>7, <1>8, <1>10 DEF Elect
  <2> QED
    BY <1>5, <1>7, <2>1, <2>2
<1> DEFINE new == [again EXCEPT !.host = h]
<1>12. new = [room EXCEPT !.match = None, !.phase = "lobby", !.rematching = TRUE, !.seats = f, !.host = h]
  BY <1>8
<1>13. MatchQueues(db, queues, [rooms EXCEPT ![r] = new], ms2)
  BY <1>5
<1> HIDE DEF new, ms2, gone
<1>14. /\ Fits(new) /\ Apart(new) /\ new.match = None /\ new.phase = "lobby" /\ new.pendingAbort = room.pendingAbort
       /\ \A s \in DOMAIN new.seats : new.seats[s].admission = None /\ ~new.seats[s].ready
  <2> HIDE DEF room
  <2>1. Fits(room) /\ Apart(room)
    BY <1>4
  <2>2. Reopened(new, room)
    BY <1>6, <1>9, <1>11, <1>12, <2>1, RematchRoom
  <2> QED
    BY <2>2 DEF Reopened
<1>15. new.pendingAbort = None
  BY <1>1, <1>4, <1>14 DEF RoomOK, RunOK
<1>16. Goes(db, room, db, new, draining')
  <2>1. Gone(db, room, db)
    BY <1>1, <1>4, VerdictGone
  <2>2. RoomOK(db, new, draining')
    BY <1>14, <1>15, BareRoom
  <2>3. Matches(new) \subseteq Matches(room)
    BY <1>14, <1>15 DEF Matches
  <2> QED
    BY <2>1, <2>2, <2>3, GoneGoes
<1> HIDE DEF room
<1>17. Goes(db, rooms[r], db, new, draining')
  BY <1>16 DEF room
<1> HIDE DEF r
<1> QED
  BY <1>3, <1>13, <1>14, <1>17, MatchedGoes

\* Drain keeps the agreement.
LEMMA DrainValue ==
  ASSUME Valued, Drain
  PROVE  Carried
BY StaysValue DEF Drain

\* The room while a start of match m is tried: m is the match to abort.
Named(room, m) == [room EXCEPT !.pendingAbort = m]

\* What naming the match changes.
LEMMA NamedFacts ==
  ASSUME NEW room, Fits(room), room.match = None, NEW m \in MatchIds, NEW new, new = Named(room, m)
  PROVE  /\ Fits(new) /\ Keeps(new, room) /\ new.seats = room.seats /\ Size(new) = Size(room)
         /\ new.match = None /\ new.phase = room.phase /\ new.pendingAbort = m /\ Matches(new) = {m}
<1>1. /\ new \in RoomType /\ new.seats = room.seats /\ new.settings = room.settings
      /\ new.match = None /\ new.phase = room.phase /\ new.pendingAbort = m
  BY DEF Named, Fits, RoomType, MatchOrNone
<1>2. Fits(new) /\ Keeps(new, room)
  BY <1>1, FitsFields
<1>3. m # None
  BY LobbyAssumption
<1>4. Matches(new) = {m}
  BY <1>1, <1>3 DEF Matches
<1> QED
  BY <1>1, <1>2, <1>4 DEF Size

\* r is an idle room, and m a match that no room and no row knows.
Starting(r, m) ==
  /\ r \in DOMAIN rooms /\ rooms[r].match = None /\ rooms[r].pendingAbort = None
  /\ m \in MatchIds /\ ~HeldMatch(rooms, m) /\ db.mat[m].state = "absent"

\* Naming the match of an idle room keeps the rows.
LEMMA NamedValue ==
  ASSUME Valued, NEW r, NEW m, Starting(r, m), NEW rs2, rs2 = [rooms EXCEPT ![r] = Named(rooms[r], m)]
  PROVE  ValueOK(db, queues, rs2, draining', {}) /\ LobbyOK(queues, rs2, members)
<1> DEFINE room == rooms[r]
           new == Named(room, m)
           M == {m}
<1>1. /\ LobbyOK(queues, rooms, members) /\ ValueOK(db, queues, rooms, draining', {})
  BY ValuedFacts
<1>2. /\ Fits(room) /\ RoomOK(db, room, draining') /\ RowsOK(db) /\ draining' \in BOOLEAN
  BY RoomValue DEF Starting
<1>3. /\ r \in DOMAIN rooms /\ room.match = None /\ room.pendingAbort = None
      /\ m \in MatchIds /\ ~HeldMatch(rooms, m) /\ db.mat[m].state = "absent"
  BY DEF Starting
<1>4. new = Named(room, m) /\ rs2 = [rooms EXCEPT ![r] = new] /\ M = {m}
  OBVIOUS
<1> HIDE DEF new, room
<1>5. /\ Fits(new) /\ Keeps(new, room) /\ new.seats = room.seats
      /\ new.match = None /\ new.phase = room.phase /\ new.pendingAbort = m /\ Matches(new) = {m}
  BY <1>2, <1>3, <1>4, NamedFacts
<1>6. RoomOK(db, new, draining')
  <2>1. \A s \in DOMAIN new.seats : SeatOK(db, new, s, draining')
    BY <1>2, <1>3, <1>5 DEF RoomOK, SeatOK, Matches
  <2>2. RunOK(db, new)
    BY <1>2, <1>3, <1>5 DEF RoomOK, RunOK
  <2>3. AbortOK(db, new)
    BY <1>3, <1>5 DEF AbortOK
  <2> QED
    BY <2>1, <2>2, <2>3 DEF RoomOK
<1>7. Matches(room) = {}
  BY <1>3 DEF Matches
<1> HIDE DEF M
<1>8. RoomSteps(db, rooms, draining', r, db, rs2, draining', {}, M)
  <2>1. RowsKept(db, db, {}, M)
    BY RowsSame
  <2>2. rs2[r] = new /\ DOMAIN rs2 = DOMAIN rooms /\ \A x \in DOMAIN rooms \ {r} : rs2[x] = rooms[x]
    BY <1>3, <1>4
  <2>3. Changed(rooms, rs2, {r})
    BY <2>2 DEF Changed
  <2>4. rooms[r] = room
    BY DEF room
  <2> QED
    BY <1>2, <1>3, <1>4, <1>5, <1>6, <1>7, <2>1, <2>2, <2>3, <2>4 DEF RoomSteps
<1>9. ValueOK(db, queues, rs2, draining', {})
  BY <1>1, <1>3, <1>8, RoomStepValue
<1>10. LobbyOK(queues, rs2, members)
  <2>1. Keeps(new, rooms[r])
    BY <1>5 DEF room
  <2> QED
    BY <1>1, <1>3, <1>4, <2>1, RoomKept
<1> QED
  BY <1>9, <1>10

\* The room of one of its tables goes its way.
LEMMA GoesOn ==
  ASSUME NEW d, NEW q, NEW rs, NEW ms, NEW w \in BOOLEAN, ValueOK(d, q, rs, w, {}), LobbyOK(q, rs, ms),
         NEW r \in DOMAIN rs, NEW d2, NEW new, Goes(d, rs[r], d2, new, w), Fits(new)
  PROVE  ValueOK(d2, q, [rs EXCEPT ![r] = new], w, {})
<1> DEFINE rs2 == [rs EXCEPT ![r] = new]
<1>1. ValueOK(d2, q, rs2, w, {}) /\ SeatsKept(rs, d2, rs2)
  BY GoesValue
<1> QED
  BY <1>1

\* The rows and rooms after the abort e of a failed start in room r.
AbortedOK(q, rs, r, w, e) ==
  ValueOK(e.db, q, [rs EXCEPT ![r] = [e.room EXCEPT !.seats = Invalidate(@)]], w, {})

\* An abort that ends a failed start, done or still to be done.
LEMMA AbortsOn ==
  ASSUME NEW d, NEW q, NEW rs, NEW ms, NEW w \in BOOLEAN, ValueOK(d, q, rs, w, {}), LobbyOK(q, rs, ms),
         NEW r \in DOMAIN rs, rs[r].pendingAbort # None, NEW e \in AbortPrepared(d, rs[r])
  PROVE  AbortedOK(q, rs, r, w, e)
<1> DEFINE new == [e.room EXCEPT !.seats = Invalidate(@)]
<1>1. RowsOK(d) /\ RoomOK(d, rs[r], w)
  BY DEF ValueOK
<1>2. Fits(rs[r])
  BY DEF LobbyOK, TablesOK
<1>3. Goes(d, rs[r], e.db, e.room, w)
  BY <1>1, <1>2, AbortGoes
<1>4. Fits(e.room)
  <2>1. Releasing(e.room, rs[r])
    BY <1>2, AbortKeeps
  <2> QED
    BY <2>1, ReleasingKeeps DEF Keeps
<1>5. Goes(d, rs[r], e.db, new, w)
  BY <1>3, <1>4, UnreadyGoes
<1>6. Fits(new)
  BY <1>4, Invalidated, ReleasingKeeps DEF Keeps
<1>7. ValueOK(e.db, q, [rs EXCEPT ![r] = new], w, {})
  <2> HIDE DEF new
  <2> QED
    BY <1>5, <1>6, GoesOn
<1> QED
  BY <1>7 DEF AbortedOK

\* A start that fails, whatever it prepared before, leaves an abort to be done or nothing.
LEMMA StartFailsValue ==
  ASSUME Valued, NEW r, NEW m, Starting(r, m), NEW d, StartFails(d, r, rooms[r], m),
         NEW rs1, DOMAIN rs1 = DOMAIN rooms, rs1[r] = Named(rooms[r], m), LobbyOK(queues, rs1, members),
         \A new : [rs1 EXCEPT ![r] = new] = [rooms EXCEPT ![r] = new],
         ValueOK(d, queues, rs1, draining', {})
  PROVE  Carried
<1> DEFINE mid == Named(rooms[r], m)
<1>1. Fitting /\ Fitting' /\ draining' \in BOOLEAN
  BY ValuedFacts
<1>2. r \in DOMAIN rooms /\ rooms[r].match = None /\ m \in MatchIds
  BY DEF Starting
<1>3. Fits(rooms[r])
  BY <1>2, RoomValue
<1>4. PICK e \in AbortPrepared(d, mid) :
        Save(e.db, queues, [rooms EXCEPT ![r] = [e.room EXCEPT !.seats = Invalidate(@)]], members)
  BY DEF StartFails, Named
<1>5. mid = Named(rooms[r], m) /\ rs1[r] = mid /\ r \in DOMAIN rs1
  BY <1>2
<1> HIDE DEF mid
<1>6. mid.pendingAbort = m /\ m # None
  BY <1>2, <1>3, <1>5, NamedFacts, LobbyAssumption
<1> DEFINE new == [e.room EXCEPT !.seats = Invalidate(@)]
<1>7. Save(e.db, queues, [rooms EXCEPT ![r] = new], members)
  BY <1>4
<1>8. ValueOK(e.db, queues, [rs1 EXCEPT ![r] = new], draining', {})
  <2>1. rs1[r].pendingAbort # None /\ e \in AbortPrepared(d, rs1[r])
    BY <1>4, <1>5, <1>6
  <2>2. AbortedOK(queues, rs1, r, draining', e)
    BY <1>1, <1>5, <2>1, AbortsOn
  <2> QED
    BY <2>2 DEF AbortedOK
<1> HIDE DEF new
<1> DEFINE rs2 == [rooms EXCEPT ![r] = new]
<1>9. ValueOK(e.db, queues, rs2, draining', {})
  BY <1>8
<1>10. SeatsKept(rooms, e.db, rs2)
  <2>1. DOMAIN rs2 = DOMAIN rooms /\ \A x \in DOMAIN rooms \ {r} : rs2[x] = rooms[x]
    OBVIOUS
  <2> HIDE DEF rs2
  <2>2. SUFFICES ASSUME NEW x \in DOMAIN rooms, rooms[x].match # None
                 PROVE  /\ x \in DOMAIN rs2 /\ rs2[x].match = rooms[x].match
                        /\ \A s \in DOMAIN rooms[x].seats :
                             s \in DOMAIN rs2[x].seats /\ rs2[x].seats[s].account = rooms[x].seats[s].account
    BY Zenon DEF SeatsKept
  <2>3. x # r
    BY <1>2, <2>2
  <2>4. rs2[x] = rooms[x] /\ x \in DOMAIN rs2
    BY <2>1, <2>2, <2>3
  <2> QED
    BY <2>4
<1>11. Save(e.db, queues, rs2, members)
  BY <1>7
<1> HIDE DEF rs2
<1> QED
  BY <1>1, <1>9, <1>10, <1>11, SaveValue

\* Every seat of the table is taken and holds its reservation.
AllReady(room, w) ==
  DOMAIN room.seats = 0..(Size(room) - 1) /\ (\A s \in DOMAIN room.seats : room.seats[s].ready) /\ ~w

\* Preparing the match of an idle room links the reservations of its seats.
LEMMA PreparedValue ==
  ASSUME Valued, NEW r, NEW m, Starting(r, m), AllReady(rooms[r], draining'),
         Values!MayPrepare(db, m, Admitted(rooms[r].seats), Owner),
         NEW d, d = Values!Prepare(db, m, Admitted(rooms[r].seats), Owner),
         NEW rs2, rs2 = [rooms EXCEPT ![r] = Named(rooms[r], m)]
  PROVE  ValueOK(d, queues, rs2, draining', {}) /\ d.mat[m].state = "prepared"
<1> DEFINE room == rooms[r]
           new == Named(room, m)
           M == {m}
           ids == Admitted(room.seats)
<1>1. /\ LobbyOK(queues, rooms, members) /\ ValueOK(db, queues, rooms, draining', {})
  BY ValuedFacts
<1>2. /\ Fits(room) /\ RoomOK(db, room, draining') /\ RowsOK(db) /\ draining' \in BOOLEAN
      /\ ids \in SUBSET AdmissionIds
  BY RoomValue DEF Starting
<1>3. /\ r \in DOMAIN rooms /\ room.match = None /\ room.pendingAbort = None
      /\ m \in MatchIds /\ ~HeldMatch(rooms, m)
  BY DEF Starting
<1>4. /\ new = Named(room, m) /\ rs2 = [rooms EXCEPT ![r] = new] /\ M = {m} /\ AllReady(room, draining')
      /\ ids = Admitted(room.seats) /\ room = rooms[r]
  OBVIOUS
<1>5. /\ Values!MayPrepare(db, m, ids, Owner) /\ d = Values!Prepare(db, m, ids, Owner)
  OBVIOUS
<1> HIDE DEF new, room, ids
<1>6. /\ Fits(new) /\ new.seats = room.seats /\ Size(new) = Size(room)
      /\ new.match = None /\ new.phase = room.phase /\ new.pendingAbort = m /\ Matches(new) = {m}
  BY <1>2, <1>3, <1>4, NamedFacts
<1>7. /\ RowsOK(d) /\ RowsKept(db, d, ids, {m}) /\ d.mat[m].state = "prepared"
      /\ \A id \in ids : /\ d.adm[id].match = m /\ d.adm[id].account = db.adm[id].account
                         /\ d.adm[id].state # "absent"
  BY <1>2, <1>3, <1>5, PreparedRows
<1>8. \A s \in DOMAIN room.seats : /\ room.seats[s].admission # None /\ room.seats[s].admission \in ids
                                   /\ db.adm[room.seats[s].admission].account = room.seats[s].account
  <2>1. \A s \in DOMAIN room.seats : SeatOK(db, room, s, draining') /\ room.seats[s].ready /\ ~draining'
    BY <1>2, <1>4 DEF RoomOK, AllReady
  <2> QED
    BY <1>3, <1>4, <2>1 DEF SeatOK, Admitted
<1>9. RoomOK(d, new, draining')
  <2>1. \A s \in DOMAIN new.seats : SeatOK(d, new, s, draining')
    BY <1>6, <1>7, <1>8 DEF SeatOK
  <2>2. RunOK(d, new)
    BY <1>2, <1>3, <1>6 DEF RoomOK, RunOK
  <2>3. Fills(d, new, m)
    BY <1>6, <1>7, <1>8 DEF Fills
  <2>4. AbortOK(d, new)
    BY <1>4, <1>6, <1>7, <2>3 DEF AbortOK, AllReady
  <2> QED
    BY <2>1, <2>2, <2>4 DEF RoomOK
<1>10. Matches(room) = {}
  BY <1>3 DEF Matches
<1> HIDE DEF M
<1>11. RoomSteps(db, rooms, draining', r, d, rs2, draining', ids, M)
  <2>1. RowsKept(db, d, ids, M)
    BY <1>4, <1>7
  <2>2. rs2[r] = new /\ DOMAIN rs2 = DOMAIN rooms /\ \A x \in DOMAIN rooms \ {r} : rs2[x] = rooms[x]
    BY <1>3, <1>4
  <2>3. Changed(rooms, rs2, {r})
    BY <2>2 DEF Changed
  <2>4. Admitted(new.seats) = Admitted(rooms[r].seats) /\ ids = Admitted(rooms[r].seats)
    BY <1>4, <1>6
  <2>5. Matches(new) = M /\ m \in MatchIds
    BY <1>3, <1>4, <1>6
  <2> QED
    BY <1>2, <1>3, <1>4, <1>7, <1>9, <1>10, <2>1, <2>2, <2>3, <2>4, <2>5 DEF RoomSteps
<1>12. ValueOK(d, queues, rs2, draining', {})
  BY <1>1, <1>3, <1>11, RoomStepValue
<1> QED
  BY <1>7, <1>12

\* What Start leaves of the room whose match m was prepared.
StartedRoom(d, room, w, m, d2) ==
  /\ RowsOK(d2) /\ RowsKept(d, d2, {}, {m}) /\ d2.mat[m].state = "started"
  /\ \A s \in DOMAIN room.seats : SeatOK(d2, room, s, w)
  /\ Fills(d2, room, m) /\ DOMAIN room.seats = 0..(Size(room) - 1) /\ Matches(room) = {m}

\* Start writes the seats of the prepared match.
LEMMA StartedFacts ==
  ASSUME NEW d, RowsOK(d), NEW room, Fits(room), NEW w \in BOOLEAN, RoomOK(d, room, w), room.match = None,
         NEW m \in MatchIds, room.pendingAbort = m, d.mat[m].state = "prepared",
         NEW d2, d2 = Values!Start(d, m, [b \in Accounts |-> "pass"], 1)
  PROVE  StartedRoom(d, room, w, m, d2)
<1>1. RowsOK(d2) /\ RowsKept(d, d2, {}, {m}) /\ d2.mat[m].state = "started"
  BY StartedRows
<1>2. m # None /\ Matches(room) = {m}
  BY LobbyAssumption DEF Matches
<1>3. DOMAIN room.seats = 0..(Size(room) - 1) /\ Fills(d, room, m)
  BY <1>2 DEF RoomOK, AbortOK
<1>4. \A s \in DOMAIN room.seats : SeatOK(d, room, s, w)
  BY DEF RoomOK
<1>5. /\ \A s \in DOMAIN room.seats : SeatOK(d2, room, s, w)
      /\ \A i : Fills(d, room, i) => Fills(d2, room, i)
  <2> DEFINE M == {m}
  <2>1. RowsKept(d, d2, {}, M) /\ Admitted(room.seats) \cap {} = {}
    BY <1>1
  <2> HIDE DEF M
  <2> QED
    BY <1>4, <2>1, KeptSeats
<1> QED
  BY <1>1, <1>2, <1>3, <1>5 DEF StartedRoom

\* The rows of a started match whose room is still to learn of it.
LEMMA StartedOn ==
  ASSUME NEW d, NEW q, NEW rs, NEW ms, NEW w \in BOOLEAN, ValueOK(d, q, rs, w, {}), LobbyOK(q, rs, ms),
         NEW r \in DOMAIN rs, rs[r].match = None, NEW m \in MatchIds, rs[r].pendingAbort = m,
         d.mat[m].state = "prepared", NEW d2, d2 = Values!Start(d, m, [b \in Accounts |-> "pass"], 1)
  PROVE  ValueOK(d2, q, rs, w, {})
<1> DEFINE M == {m}
           room == rs[r]
<1>1. RowsOK(d) /\ RoomOK(d, room, w) /\ Fits(room)
  BY DEF ValueOK, LobbyOK, TablesOK
<1>2. room.match = None /\ room.pendingAbort = m
  OBVIOUS
<1>3. StartedRoom(d, room, w, m, d2)
  <2> HIDE DEF room
  <2> QED
    BY <1>1, <1>2, StartedFacts
<1>4. RoomOK(d2, room, w)
  <2>1. RunOK(d2, room)
    BY <1>1, <1>2 DEF RoomOK, RunOK
  <2>2. AbortOK(d2, room)
    BY <1>2, <1>3 DEF AbortOK, StartedRoom
  <2> QED
    BY <1>3, <2>1, <2>2 DEF RoomOK, StartedRoom
<1>5. /\ RowsOK(d2) /\ RowsKept(d, d2, {}, M) /\ M = {m} /\ Matches(rs[r]) = M
  BY <1>3 DEF StartedRoom
<1> HIDE DEF M
<1>6. RoomSteps(d, rs, w, r, d2, rs, w, {}, M)
  BY <1>4, <1>5 DEF RoomSteps, Changed
<1> QED
  BY <1>6, RoomStepValue

\* The room starts to play the match.
LEMMA PlayingOn ==
  ASSUME NEW d, NEW q, NEW rs, NEW ms, NEW w \in BOOLEAN, ValueOK(d, q, rs, w, {}), LobbyOK(q, rs, ms),
         NEW r \in DOMAIN rs, rs[r].match = None, NEW m \in MatchIds, rs[r].pendingAbort = m,
         d.mat[m].state = "prepared", NEW d2, d2 = Values!Start(d, m, [b \in Accounts |-> "pass"], 1),
         NEW new, new.match = m, new.pendingAbort = None, new.phase = "playing", new.seats = rs[r].seats,
         NEW rs2, DOMAIN rs2 = DOMAIN rs, rs2[r] = new, \A x \in DOMAIN rs \ {r} : rs2[x] = rs[x]
  PROVE  ValueOK(d2, q, rs2, w, {})
<1> DEFINE M == {m}
           room == rs[r]
<1>1. RowsOK(d) /\ RoomOK(d, room, w) /\ Fits(room) /\ m # None
  BY LobbyAssumption DEF ValueOK, LobbyOK, TablesOK
<1>2. room.match = None /\ room.pendingAbort = m
  OBVIOUS
<1>3. StartedRoom(d, room, w, m, d2)
  <2> HIDE DEF room
  <2> QED
    BY <1>1, <1>2, StartedFacts
<1>4. Matches(new) = {m}
  BY <1>1 DEF Matches
<1>5. RoomOK(d2, new, w)
  <2>1. Fills(d2, new, m)
    BY <1>3 DEF Fills, StartedRoom
  <2>2. \A s \in DOMAIN new.seats : SeatOK(d2, new, s, w)
    BY <1>3, <1>4, <2>1 DEF SeatOK, Fills, StartedRoom
  <2>3. RunOK(d2, new)
    BY <1>1, <1>3, <2>1 DEF RunOK, RowStates, StartedRoom
  <2>4. AbortOK(d2, new)
    BY DEF AbortOK
  <2> QED
    BY <2>2, <2>3, <2>4 DEF RoomOK
<1>6. /\ RowsOK(d2) /\ RowsKept(d, d2, {}, M) /\ M = {m} /\ Matches(rs[r]) = M
  BY <1>3 DEF StartedRoom
<1> HIDE DEF M
<1>7. Changed(rs, rs2, {r})
  BY DEF Changed
<1>8. RoomSteps(d, rs, w, r, d2, rs2, w, {}, M)
  BY <1>4, <1>5, <1>6, <1>7 DEF RoomSteps
<1> QED
  BY <1>8, RoomStepValue

\* Start keeps the agreement, however far it gets.
LEMMA StartValue ==
  ASSUME Valued, NEW a \in Accounts, Start(a)
  PROVE  Carried
<1> DEFINE r == members[a]
           room == rooms[r]
           ids == Admitted(room.seats)
           unused == {i \in MatchIds \ KnownMatches(rooms) : db.mat[i].state = "absent"}
           prepared(m) == Values!Prepare(db, m, ids, Owner)
           started(m) == Values!Start(prepared(m), m, [b \in Accounts |-> "pass"], 1)
           playing(m) == [room EXCEPT !.match = m, !.phase = "playing", !.rematching = FALSE]
<1>1. a \in DOMAIN members /\ MayStart(a) /\ draining' = draining
  BY DEF Start
<1>2. LobbyOK(queues, rooms, members)
  BY ValuedFacts
<1>3. r \in DOMAIN rooms
  BY <1>1, <1>2 DEF LobbyOK, Placed
<1>4. /\ Fits(room) /\ RoomOK(db, room, draining') /\ RowsOK(db) /\ draining' \in BOOLEAN
      /\ ids \in SUBSET AdmissionIds
  BY <1>3, RoomValue
<1>5. room.match = None /\ room.pendingAbort = None /\ AllReady(room, draining')
  BY <1>1 DEF MayStart, AllReady, AdmissionPaused
<1>6. \/ \E o \in Releases(db, ids) :
           Save(o.db, queues, [rooms EXCEPT ![r] = PartlyReleased(@, o.told)], members)
      \/ \E m \in Fresh(unused, r) :
           \/ StartFails(db, r, room, m)
           \/ /\ Values!MayPrepare(db, m, ids, Owner)
              /\ \/ StartFails(prepared(m), r, room, m)
                 \/ StartFails(started(m), r, room, m)
                 \/ Save(started(m), queues, [rooms EXCEPT ![r] = playing(m)], members)
  BY DEF Start
<1>7. ASSUME NEW o \in Releases(db, ids), Save(o.db, queues, [rooms EXCEPT ![r] = PartlyReleased(@, o.told)], members)
      PROVE  Carried
  <2> DEFINE left == PartlyReleased(room, o.told)
  <2>1. Save(o.db, queues, [rooms EXCEPT ![r] = left], members)
    BY <1>7
  <2>2. Fits(left) /\ Goes(db, room, o.db, left, draining')
    <3> HIDE DEF ids
    <3> QED
      BY <1>4, <1>5, PartlyReleasedGoes
  <2> HIDE DEF left
  <2> QED
    BY <1>3, <2>1, <2>2, SavedGoes
<1>8. ASSUME NEW m \in Fresh(unused, r)
      PROVE  Starting(r, m)
  <2>1. m \in unused
    BY DEF Fresh
  <2>2. ~HeldMatch(rooms, m)
    BY <2>1 DEF HeldMatch, KnownMatches, Matches
  <2> QED
    BY <1>3, <1>5, <2>1, <2>2 DEF Starting
<1> HIDE DEF unused
<1>9. ASSUME NEW m \in Fresh(unused, r),
             \/ StartFails(db, r, room, m)
             \/ /\ Values!MayPrepare(db, m, ids, Owner)
                /\ \/ StartFails(prepared(m), r, room, m)
                   \/ StartFails(started(m), r, room, m)
                   \/ Save(started(m), queues, [rooms EXCEPT ![r] = playing(m)], members)
      PROVE  Carried
  <2> DEFINE rs1 == [rooms EXCEPT ![r] = Named(rooms[r], m)]
             d1 == prepared(m)
             d2 == started(m)
  <2>1. Starting(r, m) /\ m \in MatchIds
    BY <1>8 DEF Starting
  <2>2. ValueOK(db, queues, rs1, draining', {}) /\ LobbyOK(queues, rs1, members)
    BY <2>1, NamedValue
  <2>3. /\ DOMAIN rs1 = DOMAIN rooms /\ rs1[r] = Named(rooms[r], m) /\ \A x \in DOMAIN rooms \ {r} : rs1[x] = rooms[x]
        /\ \A new : [rs1 EXCEPT ![r] = new] = [rooms EXCEPT ![r] = new]
    BY <1>3
  <2>4. rs1[r].match = None /\ rs1[r].pendingAbort = m /\ rs1[r].seats = room.seats
    <3>1. \A new : new = Named(room, m) => new.match = None /\ new.pendingAbort = m /\ new.seats = room.seats
      BY <1>4, <1>5, <2>1, NamedFacts
    <3> QED
      BY <2>3, <3>1
  <2> HIDE DEF rs1
  <2>5. CASE StartFails(db, r, room, m)
    BY <2>1, <2>2, <2>3, <2>5, StartFailsValue
  <2>6. CASE /\ Values!MayPrepare(db, m, ids, Owner)
             /\ \/ StartFails(d1, r, room, m)
                \/ StartFails(d2, r, room, m)
                \/ Save(d2, queues, [rooms EXCEPT ![r] = playing(m)], members)
    <3>1. ValueOK(d1, queues, rs1, draining', {}) /\ d1.mat[m].state = "prepared"
      BY <1>5, <2>1, <2>6, PreparedValue DEF rs1
    <3>2. d2 = Values!Start(d1, m, [b \in Accounts |-> "pass"], 1)
      OBVIOUS
    <3> HIDE DEF d1, d2
    <3>3. CASE StartFails(d1, r, room, m)
      BY <2>1, <2>2, <2>3, <3>1, <3>3, StartFailsValue
    <3>4. CASE StartFails(d2, r, room, m)
      <4>1. ValueOK(d2, queues, rs1, draining', {})
        BY <1>3, <1>4, <2>1, <2>2, <2>3, <2>4, <3>1, <3>2, StartedOn
      <4> QED
        BY <2>1, <2>2, <2>3, <3>4, <4>1, StartFailsValue
    <3>5. CASE Save(d2, queues, [rooms EXCEPT ![r] = playing(m)], members)
      <4> DEFINE new == playing(m)
                 rs2 == [rooms EXCEPT ![r] = new]
      <4>1. new.match = m /\ new.pendingAbort = None /\ new.phase = "playing" /\ new.seats = room.seats
        BY <1>4, <1>5 DEF Fits, RoomType
      <4>2. Save(d2, queues, rs2, members)
        BY <3>5
      <4> HIDE DEF new
      <4>3. DOMAIN rs2 = DOMAIN rooms /\ rs2[r] = new /\ \A x \in DOMAIN rooms \ {r} : rs2[x] = rooms[x]
        BY <1>3
      <4> HIDE DEF rs2
      <4>4. ValueOK(d2, queues, rs2, draining', {})
        BY <1>3, <1>4, <2>1, <2>2, <2>3, <2>4, <3>1, <3>2, <4>1, <4>3, PlayingOn
      <4>5. SeatsKept(rooms, d2, rs2)
        <5>1. SUFFICES ASSUME NEW x \in DOMAIN rooms, rooms[x].match # None
                       PROVE  /\ x \in DOMAIN rs2 /\ rs2[x].match = rooms[x].match
                              /\ \A s \in DOMAIN rooms[x].seats :
                                   s \in DOMAIN rs2[x].seats /\ rs2[x].seats[s].account = rooms[x].seats[s].account
          BY Zenon DEF SeatsKept
        <5>2. x # r
          BY <1>5, <5>1
        <5>3. rs2[x] = rooms[x] /\ x \in DOMAIN rs2
          BY <4>3, <5>1, <5>2
        <5> QED
          BY <5>3
      <4> QED
        BY <4>2, <4>4, <4>5, ValuedFacts, SaveValue
    <3> QED
      BY <2>6, <3>3, <3>4, <3>5 DEF d1, d2
  <2> QED
    BY <1>9, <2>5, <2>6
<1> QED
  BY <1>6, <1>7, <1>9

\* A step never takes back a drain.
LEMMA DrainingStays ==
  ASSUME Next, draining \in BOOLEAN
  PROVE  draining' \in BOOLEAN /\ (draining => draining')
<1>1. ASSUME NEW a \in Accounts, PeerCloses(a) \/ ConnectionStep(a) \/ CommandStep(a) \/ QueueStep(a)
      PROVE  draining' \in BOOLEAN /\ (draining => draining')
  BY <1>1 DEF PeerCloses, ConnectionStep, CommandStep, QueueStep, Open, Disconnect, Leave, QueueLeave, Ready, Start,
              Action, Rematch, QueueJoin, Create, Settings, Join, Rejoin, DrainQueue, CloseQueue
<1>2. ASSUME NEW r \in DOMAIN rooms, RoomStep(r)
      PROVE  draining' \in BOOLEAN /\ (draining => draining')
  BY <1>2 DEF RoomStep, TickAborts, DrainRoom, TickAdvances, TickPrunes, CloseRoom
<1>3. ASSUME Drain \/ CloseDone
      PROVE  draining' \in BOOLEAN /\ (draining => draining')
  BY <1>3 DEF Drain, CloseDone
<1> QED
  BY <1>1, <1>2, <1>3 DEF Next

\* Every step keeps the rows, queues and rooms in agreement, and the seats of a running match.
LEMMA ValueNext ==
  ASSUME LobbyInv, LobbyInv', RowsInv, Next
  PROVE  Carried
<1>1. Valued
  <2>1. draining \in BOOLEAN
    BY DEF RowsInv, ValueOK
  <2>2. draining' \in BOOLEAN /\ (draining => draining')
    BY <2>1, DrainingStays
  <2> QED
    BY <2>2 DEF Valued, LobbyInv
<1>2. ASSUME NEW a \in Accounts, CommandStep(a)
      PROVE  Carried
  <2>1. ASSUME NEW s \in LobbySettings, QueueJoin(a, s) \/ Create(a, s) \/ Settings(a, s)
        PROVE  Carried
    BY <1>1, <2>1, QueueJoinValue, CreateValue, SettingsValue
  <2>2. ASSUME NEW r \in DOMAIN rooms, Join(a, r) \/ Rejoin(a, r)
        PROVE  Carried
    BY <1>1, <2>2, JoinValue, RejoinValue
  <2>3. ASSUME QueueLeave(a) \/ Ready(a) \/ Start(a) \/ Action(a) \/ Rematch(a)
        PROVE  Carried
    BY <1>1, <2>3, QueueStepsValue, ReadyValue, StartValue, ActionValue, RematchValue
  <2> QED
    BY <1>2, <2>1, <2>2, <2>3 DEF CommandStep
<1>3. ASSUME NEW a \in Accounts, PeerCloses(a) \/ ConnectionStep(a) \/ QueueStep(a)
      PROVE  Carried
  BY <1>1, <1>3, ConnectionValue, QueueStepsValue
<1>4. ASSUME NEW r \in DOMAIN rooms, RoomStep(r)
      PROVE  Carried
  BY <1>1, <1>4, RoomStepsValue
<1>5. ASSUME Drain \/ CloseDone
      PROVE  Carried
  BY <1>1, <1>5, DrainValue, CloseDoneValue
<1> QED
  BY <1>2, <1>3, <1>4, <1>5 DEF Next

\* Rows that agree with the rooms leave no match behind.
LEMMA NoMatchLeft ==
  ASSUME Settled, RowsInv
  PROVE  NoOrphanMatch
<1>1. /\ RowsOK(db)
      /\ \A r \in DOMAIN rooms : RoomOK(db, rooms[r], draining) /\ Fits(rooms[r])
      /\ \A m \in MatchIds : db.mat[m].state \in {"prepared", "started"} => HeldMatch(rooms, m)
  BY DEF RowsInv, ValueOK, Settled, LobbyOK, TablesOK
<1>2. ASSUME NEW m \in MatchIds, db.mat[m].state \in {"prepared", "started"}
      PROVE  \E r \in DOMAIN rooms :
               \/ rooms[r].pendingAbort = m
               \/ rooms[r].match = m /\ db.mat[m].state = "started"
  <2>1. PICK r \in DOMAIN rooms : m \in Matches(rooms[r])
    BY <1>1, <1>2 DEF HeldMatch
  <2>2. RunOK(db, rooms[r])
    BY <1>1 DEF RoomOK
  <2>3. CASE rooms[r].match = m
    <3>1. m # None /\ db.mat[m].state \in RowStates(rooms[r].phase)
      BY <2>2, <2>3, LobbyAssumption DEF RunOK
    <3>2. RowStates(rooms[r].phase) \subseteq {"started", "completed", "interrupted"}
      BY DEF RowStates
    <3> QED
      BY <1>2, <2>3, <3>1, <3>2
  <2> QED
    BY <2>1, <2>3 DEF Matches
<1>3. ASSUME NEW r \in DOMAIN rooms, rooms[r].phase = "playing"
      PROVE  /\ db.mat[rooms[r].match].state = "started"
             /\ \A s \in DOMAIN rooms[r].seats :
                  LET row == db.adm[rooms[r].seats[s].admission]
                  IN row.state = "started" /\ row.match = rooms[r].match
                       /\ row.account = rooms[r].seats[s].account
  <2> DEFINE room == rooms[r]
  <2>1. RoomOK(db, room, draining) /\ Fits(room) /\ room.phase = "playing"
    BY <1>1, <1>3
  <2> HIDE DEF room
  <2>2. room.match # None /\ db.mat[room.match].state = "started" /\ Fills(db, room, room.match)
    BY <2>1 DEF RoomOK, RunOK, RowStates
  <2>3. ASSUME NEW s \in DOMAIN room.seats
        PROVE  /\ db.adm[room.seats[s].admission].state = "started"
               /\ db.adm[room.seats[s].admission].match = room.match
               /\ db.adm[room.seats[s].admission].account = room.seats[s].account
    <3>1. room.seats[s].admission # None /\ db.adm[room.seats[s].admission].match = room.match
      BY <2>2, <2>3 DEF Fills
    <3>2. room.seats[s].admission \in AdmissionIds
      BY <2>1, <2>3, <3>1, RoomFacts
    <3>3. db.adm[room.seats[s].admission].account = room.seats[s].account
      BY <2>1, <2>3, <3>1 DEF RoomOK, SeatOK
    <3>4. db.adm[room.seats[s].admission].state = Follows(db.mat[room.match].state)
      BY <1>1, <2>2, <3>1, <3>2 DEF RowsOK, LinksOK
    <3>5. Follows("started") = "started"
      BY DEF Follows
    <3> QED
      BY <2>2, <3>1, <3>3, <3>4, <3>5
  <2> QED
    BY <2>2, <2>3 DEF room
<1>4. ASSUME NEW r \in DOMAIN rooms, rooms[r].phase = "verdict"
      PROVE  db.mat[rooms[r].match].state \in {"completed", "interrupted"}
  BY <1>1, <1>4 DEF RoomOK, RunOK, RowStates
<1> QED
  BY <1>2, <1>3, <1>4 DEF NoOrphanMatch

\* When no answer to Reserve is lost, they leave no reservation behind either.
LEMMA NoReservationLeft ==
  ASSUME Settled, RowsInv, ~ReserveReplyLost
  PROVE  NoOrphanReservation
<1>1. /\ RowsOK(db)
      /\ \A a \in DOMAIN queues : EntryOK(db, a, queues[a])
      /\ \A r \in DOMAIN rooms : RoomOK(db, rooms[r], draining) /\ Fits(rooms[r])
      /\ \A id \in AdmissionIds : db.adm[id].state = "reserved" => NamedId(queues, rooms, id)
  BY DEF RowsInv, ValueOK, Settled, LobbyOK, TablesOK
<1>2. SUFFICES ASSUME NEW id \in AdmissionIds, db.adm[id].state = "reserved"
               PROVE  \/ Queued(db.adm[id].account) /\ queues[db.adm[id].account].id = id
                      \/ \E r \in DOMAIN rooms :
                           /\ db.adm[id].match \in {None, rooms[r].pendingAbort}
                           /\ \E s \in DOMAIN rooms[r].seats :
                                /\ rooms[r].seats[s].admission = id
                                /\ rooms[r].seats[s].account = db.adm[id].account
  BY DEF NoOrphanReservation
<1>3. CASE \E a \in DOMAIN queues : queues[a].id = id
  BY <1>1, <1>3 DEF EntryOK, Queued
<1>4. CASE \E r \in DOMAIN rooms : id \in Admitted(rooms[r].seats)
  <2>1. PICK r \in DOMAIN rooms : id \in Admitted(rooms[r].seats)
    BY <1>4
  <2> DEFINE room == rooms[r]
  <2>2. RoomOK(db, room, draining) /\ id \in Admitted(room.seats)
    BY <1>1, <2>1
  <2> HIDE DEF room
  <2>3. PICK s \in DOMAIN room.seats : room.seats[s].admission = id /\ id # None
    BY <2>2 DEF Admitted
  <2>4. db.adm[id].account = room.seats[s].account /\ db.adm[id].match \in Matches(room) \cup {None}
    BY <2>2, <2>3 DEF RoomOK, SeatOK
  <2>5. ASSUME room.match # None
        PROVE  db.adm[id].match # room.match
    <3>1. db.mat[room.match].state \in RowStates(room.phase)
      BY <2>2, <2>5 DEF RoomOK, RunOK
    <3>2. db.mat[room.match].state \in {"started", "completed", "interrupted"}
      BY <3>1 DEF RowStates
    <3>3. Follows(db.mat[room.match].state) # "reserved"
      BY <3>2 DEF Follows
    <3>4. db.adm[id].match # None => db.adm[id].state = Follows(db.mat[db.adm[id].match].state)
      BY <1>1 DEF RowsOK, LinksOK
    <3> QED
      BY <1>2, <2>5, <3>3, <3>4
  <2>6. db.adm[id].match \in {None, room.pendingAbort}
    BY <2>4, <2>5 DEF Matches
  <2> QED
    BY <2>3, <2>4, <2>6 DEF room
<1> QED
  BY <1>1, <1>2, <1>3, <1>4 DEF NamedId

\* The durable rows, the queue entries and the rooms agree: a row names who holds
\* it, an open match has the one room that runs it or has still to abort it, and
\* its seats are all linked to it (the calls to TextValueStore under m.mu).
THEOREM LobbyRowsAgree == Spec => [](LobbyInv /\ RowsInv)
<1>1. Init => LobbyInv /\ RowsInv
  <2> SUFFICES ASSUME Init PROVE LobbyInv /\ RowsInv
    OBVIOUS
  <2>1. LobbyInv
    BY EmptyLobby DEF Init, LobbyInv, Settled
  <2>2. /\ DOMAIN queues = {} /\ DOMAIN rooms = {} /\ draining = FALSE /\ RowsOK(db)
    BY EmptyRows DEF Init
  <2>3. \A id \in AdmissionIds : db.adm[id].state = "absent"
    BY DEF Init, Values!EmptyStore, Values!NoAdmission
  <2>4. \A m \in MatchIds : db.mat[m].state = "absent"
    BY DEF Init, Values!EmptyStore, Values!NoMatch
  <2>5. RowsInv
    BY <2>2, <2>3, <2>4 DEF RowsInv, ValueOK
  <2> QED
    BY <2>1, <2>5
<1>2. LobbyInv /\ RowsInv /\ [Next]_vars => (LobbyInv /\ RowsInv)'
  <2> SUFFICES ASSUME LobbyInv, RowsInv, [Next]_vars PROVE (LobbyInv /\ RowsInv)'
    OBVIOUS
  <2>1. CASE Next
    <3>1. LobbyInv'
      BY <2>1, LobbyNext
    <3> QED
      BY <2>1, <3>1, ValueNext DEF Carried
  <2>2. CASE UNCHANGED vars
    <3>1. LobbyInv'
      <4>1. Moves({}) /\ Attached
        BY <2>2, StaysMoves, PeersSame DEF LobbyInv, vars
      <4> QED
        BY <4>1, StepInv
    <3>2. UNCHANGED <<db, queues, rooms, draining>>
      BY <2>2 DEF vars
    <3>3. RowsInv'
      BY <3>2 DEF RowsInv
    <3> QED
      BY <3>1, <3>3
  <2> QED
    BY <2>1, <2>2
<1> QED
  BY <1>1, <1>2, PTL DEF Spec

\* No open match is left without its room, no running match with a seat it has
\* not started, and no verdict is shown that is not durable, even when answers to
\* Reserve are lost (start, abortPrepared, the Finish hook).
THEOREM NoOrphanMatchHolds == Spec => []NoOrphanMatch
<1>1. LobbyInv /\ RowsInv => NoOrphanMatch
  BY NoMatchLeft DEF LobbyInv
<1> QED
  BY <1>1, LobbyRowsAgree, PTL

\* When every committed Reserve is answered, nothing durable is left behind by an
\* operation that fails or is interrupted: for every number of accounts, rooms and
\* rows (leave, Settings, abortPrepared, cleanupDrain, Close).
THEOREM NoOrphanHolds ==
  ASSUME ~ReserveReplyLost
  PROVE  Spec => []NoOrphan
<1>1. LobbyInv /\ RowsInv => NoOrphan
  BY NoMatchLeft, NoReservationLeft DEF LobbyInv, NoOrphan
<1> QED
  BY <1>1, LobbyRowsAgree, PTL

\* The seats of a match stay with their players until the result is durable, for
\* every number of accounts and rooms (leave and pruneFinishedRoom).
THEOREM SeatKeptUntilVerdictHolds == Spec => SeatKeptUntilVerdict
<1>1. LobbyInv /\ RowsInv /\ (LobbyInv /\ RowsInv)' /\ [Next]_vars
        => [\A r \in DOMAIN rooms :
              rooms[r].match # None /\ db'.mat[rooms[r].match].state = "started" =>
                /\ r \in DOMAIN rooms' /\ rooms'[r].match = rooms[r].match
                /\ \A s \in DOMAIN rooms[r].seats :
                     s \in DOMAIN rooms'[r].seats /\ rooms'[r].seats[s].account = rooms[r].seats[s].account]_vars
  <2> SUFFICES ASSUME LobbyInv, RowsInv, LobbyInv', Next
               PROVE  \A r \in DOMAIN rooms :
                        rooms[r].match # None /\ db'.mat[rooms[r].match].state = "started" =>
                          /\ r \in DOMAIN rooms' /\ rooms'[r].match = rooms[r].match
                          /\ \A s \in DOMAIN rooms[r].seats :
                               s \in DOMAIN rooms'[r].seats /\ rooms'[r].seats[s].account = rooms[r].seats[s].account
    OBVIOUS
  <2>1. SeatsKept(rooms, db', rooms')
    BY ValueNext DEF Carried
  <2> QED
    BY <2>1, Zenon DEF SeatsKept
<1> QED
  BY <1>1, LobbyRowsAgree, PTL DEF Spec, SeatKeptUntilVerdict

-----------------------------------------------------------------------------
(* Decisions about rooms: who was kicked stays out.                         *)

\* What was excluded is of rooms there are; an excluded player whose seat is
\* bound has a closed connection; and a fenced room is there, with the player
\* that a kick names unless the match is over, when a clean-up may take the seat.
Outs ==
  /\ DOMAIN excluded = RoomIds /\ \A r \in RoomIds \ DOMAIN rooms : excluded[r] = {}
  /\ \A r \in DOMAIN rooms : \A a \in excluded[r] \cap Who(rooms[r]) : ~(IsBound(rooms, a) /\ Current(a))

Fences ==
  \A r \in DOMAIN pending :
    /\ r \in DOMAIN rooms /\ pending[r].app.kind \in {"close", "kick"}
    /\ pending[r].app.kind = "kick" => pending[r].app.target \in Who(rooms[r]) \/ rooms[r].phase = "verdict"

OpsInv == LobbyInv /\ FenceTypes /\ Outs /\ Fences

\* Nobody excluded comes back in the step.
StaysOut ==
  /\ DOMAIN excluded' = RoomIds /\ \A r \in RoomIds \ DOMAIN rooms' : excluded'[r] = {}
  /\ \A r \in DOMAIN rooms' : \A a \in excluded'[r] :
       (r \in DOMAIN rooms /\ a \in excluded[r]) \/ ~(IsBound(rooms', a) /\ Current(a)')
  /\ \A a \in DOMAIN members' \ DOMAIN members : a \notin excluded[members'[a]]

\* Where nobody excluded comes back in a step, who was kicked stays out.
LEMMA OutsStay ==
  ASSUME OpsInv, LobbyInv', NEW A, Moves(A), Attached, StaysOut,
         \A a \in A : a \in DOMAIN members => a \notin excluded[members[a]]
  PROVE  Outs'
<1>1. TablesOK(rooms') /\ Placed(rooms', members')
  BY DEF LobbyInv, Settled, LobbyOK
<1>2. Placed(rooms, members)
  BY DEF OpsInv, LobbyInv, Settled, LobbyOK
<1>3. ASSUME NEW r \in DOMAIN rooms', NEW a \in excluded'[r], a \in Who(rooms'[r]),
             IsBound(rooms', a), Current(a)'
      PROVE  FALSE
  <2>1. r \in DOMAIN rooms /\ a \in excluded[r]
    BY <1>3 DEF StaysOut
  <2>2. a \in DOMAIN members' /\ members'[a] = r
    BY <1>1, <1>3 DEF Placed
  <2>3. a \in DOMAIN members
    BY <2>1, <2>2 DEF StaysOut
  <2>4. members[a] = r
    BY <2>2, <2>3 DEF Moves
  <2>5. a \in Who(rooms[r])
    BY <1>2, <2>3, <2>4 DEF Placed
  <2>6. Current(a)
    BY <1>3 DEF Attached
  <2>7. a \notin A
    BY <2>1, <2>3, <2>4
  <2>8. IsBound(rooms, a)
    BY <1>3, <2>3, <2>7 DEF Moves
  <2> QED
    BY <2>1, <2>5, <2>6, <2>8 DEF OpsInv, Outs
<1> QED
  BY <1>3 DEF StaysOut, Outs

\* The lobby around the fences.
LEMMA LobbyStepMoves ==
  ASSUME OpsInv, LobbyStep
  PROVE  \E A : Moves(A) /\ Attached /\ \A a \in A : a \in DOMAIN members => a \notin excluded[members[a]]
<1>1. ASSUME NEW A, Moves({}) /\ Attached
      PROVE  \E B : Moves(B) /\ Attached /\ \A a \in B : a \in DOMAIN members => a \notin excluded[members[a]]
  BY <1>1
<1>2. LobbyInv
  BY DEF OpsInv
<1>3. ASSUME NEW a \in Accounts, PeerCloses(a) \/ QueueStep(a) \/ ConnectionStep(a)
      PROVE  Moves({}) /\ Attached
  BY <1>2, <1>3, PeerClosesMoves, QueueStepMoves, ConnectionMoves
<1>4. ASSUME NEW a \in Accounts, MayCommand(a), CommandStep(a)
      PROVE  \E B : Moves(B) /\ Attached /\ \A b \in B : b \in DOMAIN members => b \notin excluded[members[b]]
  <2>1. Attached /\ (Moves({}) \/ Moves({a}))
    BY <1>2, <1>4, CommandMoves
  <2>2. a \in DOMAIN members => a \notin excluded[members[a]]
    BY <1>4 DEF MayCommand
  <2> QED
    BY <2>1, <2>2
<1>5. ASSUME NEW r \in DOMAIN rooms, RoomStep(r)
      PROVE  Moves({}) /\ Attached
  BY <1>2, <1>5, RoomStepMoves
<1>6. CASE Drain
  BY <1>1, <1>2, <1>6, DrainMoves
<1>7. CASE CloseDone
  BY <1>1, <1>2, <1>7, CloseDoneMoves
<1> QED
  BY <1>1, <1>3, <1>4, <1>5, <1>6, <1>7 DEF LobbyStep

\* A handler beside the fences lets nobody excluded take a seat again.
LEMMA LobbyStepOuts ==
  ASSUME OpsInv, LobbyStep
  PROVE  OpsInv'
<1>1. PICK A : Moves(A) /\ Attached /\ \A a \in A : a \in DOMAIN members => a \notin excluded[members[a]]
  BY LobbyStepMoves
<1>2. LobbyInv'
  BY <1>1, StepInv DEF OpsInv
<1>3. /\ \A r \in Frozen : r \in DOMAIN rooms' /\ rooms'[r] = rooms[r]
      /\ \A a \in DOMAIN members' \ DOMAIN members : a \notin excluded[members'[a]]
      /\ excluded' = [r \in RoomIds |-> IF r \in DOMAIN rooms' THEN excluded[r] ELSE {}]
      /\ UNCHANGED <<ops, pending>>
  BY DEF LobbyStep, AroundFences
<1>4. DOMAIN rooms' \subseteq RoomIds
  BY <1>2 DEF LobbyInv, Settled, LobbyOK, TablesOK
<1>5. StaysOut
  BY <1>3, <1>4 DEF StaysOut, OpsInv, Outs
<1>6. Outs'
  BY <1>1, <1>2, <1>5, OutsStay
<1>7. FenceTypes' /\ Fences'
  BY <1>3 DEF OpsInv, FenceTypes, Fences, Frozen
<1> QED
  BY <1>2, <1>6, <1>7 DEF OpsInv

\* A decision is made or its fence resolved: nobody moves.
LEMMA QuietOuts ==
  ASSUME OpsInv, UNCHANGED <<vars, excluded>>, FenceTypes',
         \A r \in DOMAIN pending' :
           \/ r \in DOMAIN pending /\ pending'[r].app = pending[r].app
           \/ /\ r \in DOMAIN rooms /\ pending'[r].app.kind \in {"close", "kick"}
              /\ pending'[r].app.kind = "kick" => pending'[r].app.target \in Who(rooms[r])
  PROVE  OpsInv'
<1>1. UNCHANGED <<db, peers, members, queues, rooms, draining, excluded>>
  BY DEF vars
<1>2. LobbyInv' /\ Outs'
  <2>1. LobbyInv'
    BY <1>1 DEF OpsInv, LobbyInv, Settled
  <2>2. Outs'
    BY <1>1 DEF OpsInv, Outs, Current
  <2> QED
    BY <2>1, <2>2
<1>3. Fences'
  BY <1>1 DEF OpsInv, Fences
<1> QED
  BY <1>2, <1>3 DEF OpsInv

\* A kick names a player of the room.
LEMMA DecideOuts ==
  ASSUME OpsInv, FenceTypes', NEW o, NEW kind \in {"close", "kick"}, NEW r \in DOMAIN rooms, NEW target,
         DecideRoomOperation(o, kind, r, target)
  PROVE  OpsInv'
<1> DEFINE app == Captured(kind, rooms[r], target)
<1>1. PICK u \in BOOLEAN : Fence(o, kind, r, target, u)
  BY DEF DecideRoomOperation
<1>2. pending' = With(pending, r, [op |-> o, app |-> app, unconfirmed |-> u, delivered |-> FALSE])
  BY <1>1 DEF Fence
<1>3. app.kind = kind /\ app.target = target
  BY DEF Captured
<1>4. kind = "kick" => target \in Who(rooms[r])
  <2>1. kind = "kick" => target \in DOMAIN members /\ members[target] = r
    BY DEF DecideRoomOperation, MayDecide
  <2> QED
    BY <2>1 DEF OpsInv, LobbyInv, Settled, LobbyOK, Placed
<1> HIDE DEF app
<1>5. \A s \in DOMAIN pending' :
        \/ s \in DOMAIN pending /\ pending'[s].app = pending[s].app
        \/ s = r /\ pending'[s].app = app
  BY <1>2 DEF With, Over
<1> QED
  BY <1>3, <1>4, <1>5, QuietOuts DEF DecideRoomOperation

\* A fence is confirmed or dropped by the probe of its decision: nobody moves.
LEMMA ResolveOuts ==
  ASSUME OpsInv, FenceTypes', NEW r, ResolveRoomDecision(r)
  PROVE  OpsInv'
<1>1. /\ r \in DOMAIN pending
      /\ pending' = Without(pending, r) \/ pending' = [pending EXCEPT ![r].unconfirmed = FALSE]
      /\ UNCHANGED <<vars, excluded>>
  BY DEF ResolveRoomDecision, Frozen
<1>2. \A s \in DOMAIN pending : DOMAIN pending[s] = {"op", "app", "unconfirmed", "delivered"}
  BY DEF OpsInv, FenceTypes
<1>3. \A s \in DOMAIN pending' : s \in DOMAIN pending /\ pending'[s].app = pending[s].app
  <2>1. CASE pending' = Without(pending, r)
    BY <2>1 DEF Without
  <2>2. CASE pending' = [pending EXCEPT ![r].unconfirmed = FALSE]
    BY <1>1, <1>2, <2>2
  <2> QED
    BY <1>1, <2>1, <2>2
<1> QED
  BY <1>1, <1>3, QuietOuts

\* What a delivery may leave of room r: a kicked player keeps its seat, and a
\* match that was over stays so.
StillKicks(r, room) ==
  pending[r].app.kind = "close" \/ pending[r].app.target \in Who(rooms[r]) \/ room.phase = rooms[r].phase

\* The kept room of a delivery, and the fences after it.
LEMMA AppliesMoves ==
  ASSUME OpsInv, NEW r \in DOMAIN pending, NEW d, NEW room, NEW ended, NEW ok, Applies(r, d, room, ended, ok),
         Keeps(room, rooms[r]), Keeps(ended, rooms[r]), StillKicks(r, room), StillKicks(r, ended)
  PROVE  /\ Moves({}) /\ (\A a : IsBound(rooms', a) => IsBound(rooms, a)) /\ members' = members
         /\ DOMAIN rooms' = DOMAIN rooms /\ Fences'
<1>1. r \in DOMAIN rooms /\ Settled
  BY DEF OpsInv, Fences, LobbyInv
<1>2. \E e, new : /\ Save(e, queues, [rooms EXCEPT ![r] = new], members) /\ Keeps(new, rooms[r])
                   /\ StillKicks(r, new)
  BY DEF Applies
<1>3. PICK e, new : /\ Save(e, queues, [rooms EXCEPT ![r] = new], members) /\ Keeps(new, rooms[r])
                    /\ StillKicks(r, new)
  BY <1>2
<1>4. /\ Moves({}) /\ rooms' = [rooms EXCEPT ![r] = new] /\ members' = members
      /\ \A a : IsBound(rooms', a) => IsBound(rooms, a)
  BY <1>1, <1>3, KeptMoves DEF Save
<1>5. Who(new) = Who(rooms[r])
  BY <1>3 DEF Who, Keeps
<1>6. \A s \in DOMAIN pending : DOMAIN pending[s] = {"op", "app", "unconfirmed", "delivered"}
  BY DEF OpsInv, FenceTypes
<1>7. \A s \in DOMAIN pending' : s \in DOMAIN pending /\ pending'[s].app = pending[s].app
  <2>1. CASE pending' = pending
    BY <2>1
  <2>2. CASE pending' = [pending EXCEPT ![r].delivered = TRUE]
    BY <1>6, <2>2
  <2> QED
    BY <2>1, <2>2 DEF Applies
<1>8. \A s \in DOMAIN rooms : /\ s \in DOMAIN rooms' /\ Who(rooms'[s]) = Who(rooms[s])
                              /\ rooms'[s] = IF s = r THEN new ELSE rooms[s]
  BY <1>1, <1>4, <1>5
<1>9. Fences'
  BY <1>3, <1>7, <1>8 DEF OpsInv, Fences, StillKicks
<1> QED
  BY <1>4, <1>9

\* Nothing was applied, and the engine's answer is kept.
LEMMA UnappliedMoves ==
  ASSUME OpsInv, NEW r \in DOMAIN pending, NEW d, NEW room, Keeps(room, rooms[r]), StillKicks(r, room),
         Save(d, queues, [rooms EXCEPT ![r] = room], members), UNCHANGED pending
  PROVE  /\ Moves({}) /\ (\A a : IsBound(rooms', a) => IsBound(rooms, a)) /\ members' = members
         /\ DOMAIN rooms' = DOMAIN rooms /\ Fences'
<1>1. r \in DOMAIN rooms /\ Settled
  BY DEF OpsInv, Fences, LobbyInv
<1>2. /\ Moves({}) /\ rooms' = [rooms EXCEPT ![r] = room] /\ members' = members
      /\ \A a : IsBound(rooms', a) => IsBound(rooms, a)
  BY <1>1, KeptMoves DEF Save
<1>3. Who(room) = Who(rooms[r])
  BY DEF Who, Keeps
<1>4. \A s \in DOMAIN rooms : /\ s \in DOMAIN rooms' /\ Who(rooms'[s]) = Who(rooms[s])
                              /\ rooms'[s] = IF s = r THEN room ELSE rooms[s]
  BY <1>1, <1>2, <1>3
<1>5. Fences'
  BY <1>4 DEF OpsInv, Fences, StillKicks
<1> QED
  BY <1>2, <1>5

\* A delivery that closes moves nobody.
LEMMA CloseDelivered ==
  ASSUME OpsInv, NEW r \in DOMAIN pending, pending[r].app.kind = "close", NEW ok, DeliverClose(r, ok)
  PROVE  Moves({}) /\ members' = members /\ DOMAIN rooms' = DOMAIN rooms /\ Fences'
<1> DEFINE room == rooms[r]
           closing == [room EXCEPT !.phase = "interrupting"]
           ended == [room EXCEPT !.phase = "verdict"]
<1>1. r \in DOMAIN rooms /\ LobbyInv
  BY DEF OpsInv, Fences
<1>2. Fits(room) /\ Keeps(room, room) /\ \A x : StillKicks(r, x)
  BY <1>1, RoomFits DEF StillKicks
<1>3. Keeps(closing, room) /\ Keeps(ended, room)
  <2>1. /\ closing \in RoomType /\ closing.seats = room.seats /\ closing.settings = room.settings
        /\ ended \in RoomType /\ ended.seats = room.seats /\ ended.settings = room.settings
    BY <1>2 DEF Fits, RoomType
  <2> HIDE DEF closing, ended
  <2> QED
    BY <1>2, <2>1, FitsFields
<1>4. CASE room.phase \in {"lobby", "verdict"}
  <2>1. Applies(r, db, room, room, ok)
    BY <1>4 DEF DeliverClose
  <2> QED
    BY <1>2, <2>1, AppliesMoves
<1>5. CASE room.phase \in {"playing", "interrupting"}
  <2>1. Applies(r, db, closing, ended, ok)
    BY <1>5 DEF DeliverClose
  <2> HIDE DEF closing, ended
  <2> QED
    BY <1>2, <1>3, <2>1, AppliesMoves
<1>6. CASE room.phase \notin {"lobby", "verdict", "playing", "interrupting"}
  <2>1. PICK e \in Ends(db, room, room.phase) :
          IF e.ok THEN Applies(r, e.db, e.room, e.room, ok)
          ELSE /\ ~ok /\ Save(e.db, queues, [rooms EXCEPT ![r] = e.room], members)
               /\ UNCHANGED <<ops, pending>>
    BY <1>6 DEF DeliverClose
  <2>2. Keeps(e.room, room)
    BY <1>2, <2>1, EndKeeps
  <2>3. CASE e.ok
    BY <1>2, <2>1, <2>2, <2>3, AppliesMoves
  <2>4. CASE ~e.ok
    BY <1>2, <2>1, <2>2, <2>4, UnappliedMoves
  <2> QED
    BY <2>3, <2>4
<1> QED
  BY <1>4, <1>5, <1>6

\* A kick in a match closes the connection of the player it excludes, if that
\* sits on its seat.
LEMMA KickDelivered ==
  ASSUME OpsInv, NEW r \in DOMAIN pending, pending[r].app.kind # "close", NEW ok, DeliverKick(r, ok),
         rooms[r].match # None => ~SeatGone(r), NEW target, target = pending[r].app.target
  PROVE  /\ Moves({}) /\ members' = members /\ DOMAIN rooms' = DOMAIN rooms /\ Fences' /\ Attached
         /\ \/ excluded' = excluded
            \/ /\ excluded' = [excluded EXCEPT ![r] = @ \cup {target}]
               /\ ~(IsBound(rooms', target) /\ Current(target)')
<1> DEFINE room == rooms[r]
           x == SeatOf(room, target)
<1>1. r \in DOMAIN rooms /\ LobbyInv /\ (room.match # None => target \in Who(room))
  BY DEF OpsInv, Fences, SeatGone, Who
<1>2. Fits(room) /\ Keeps(room, room) /\ Settled /\ StillKicks(r, room)
  BY <1>1, RoomFits DEF StillKicks
<1>3. room.match # None => x \in DOMAIN room.seats /\ room.seats[x].account = target
  BY <1>1, SeatOfFacts
<1> HIDE DEF x
<1>4. CASE room.match = None
  <2>1. Applies(r, db, room, room, ok) /\ UNCHANGED <<peers, excluded>>
    BY <1>4 DEF DeliverKick
  <2> QED
    BY <1>2, <2>1, AppliesMoves, PeersSame
<1>5. CASE room.match # None
  <2>1. PICK e \in Plays(db, room) :
          IF e.ok THEN /\ Applies(r, e.db, e.room, e.room, ok)
                       /\ peers' = IF target \in DOMAIN peers /\ room.seats[x].bound
                                     THEN [peers EXCEPT ![target] = "closed"] ELSE peers
                       /\ excluded' = [excluded EXCEPT ![r] = @ \cup {target}]
          ELSE /\ ~ok /\ Save(e.db, queues, [rooms EXCEPT ![r] = e.room], members)
               /\ UNCHANGED <<peers, excluded, ops, pending>>
    BY <1>5 DEF DeliverKick, x
  <2>2. Keeps(e.room, room) /\ StillKicks(r, e.room)
    BY <1>1, <1>2, <1>5, <2>1, PlayKeeps DEF StillKicks
  <2>3. CASE ~e.ok
    <3>1. Save(e.db, queues, [rooms EXCEPT ![r] = e.room], members) /\ UNCHANGED <<peers, excluded, pending>>
      BY <2>1, <2>3
    <3> QED
      BY <2>2, <3>1, UnappliedMoves, PeersSame
  <2>4. CASE e.ok
    <3>1. Applies(r, e.db, e.room, e.room, ok) /\ excluded' = [excluded EXCEPT ![r] = @ \cup {target}]
      BY <2>1, <2>4
    <3>2. /\ Moves({}) /\ (\A a : IsBound(rooms', a) => IsBound(rooms, a)) /\ members' = members
          /\ DOMAIN rooms' = DOMAIN rooms /\ Fences'
      BY <2>2, <3>1, AppliesMoves
    <3>3. peers' = IF target \in DOMAIN peers /\ room.seats[x].bound
                     THEN [peers EXCEPT ![target] = "closed"] ELSE peers
      BY <2>1, <2>4
    <3>4. Attached
      <4>1. CASE target \in DOMAIN peers /\ room.seats[x].bound
        BY <3>3, <4>1, OneCloses
      <4>2. CASE ~(target \in DOMAIN peers /\ room.seats[x].bound)
        BY <3>3, <4>2, PeersSame
      <4> QED
        BY <4>1, <4>2
    <3>5. ASSUME IsBound(rooms', target), Current(target)'
          PROVE  FALSE
      <4>1. IsBound(rooms, target)
        BY <3>2, <3>5
      <4>2. target \in DOMAIN peers
        BY <1>1, <4>1 DEF LobbyInv
      <4>3. room.seats[x].bound
        <5>1. LobbyOK(queues, rooms, members)
          BY <1>2 DEF Settled
        <5>2. ASSUME ~rooms[r].seats[x].bound
              PROVE  ~IsBound(rooms, rooms[r].seats[x].account)
          BY <1>1, <1>3, <1>5, <5>1, <5>2, NotBound
        <5> QED
          BY <1>3, <1>5, <4>1, <5>2
      <4>4. peers' = [peers EXCEPT ![target] = "closed"]
        BY <3>3, <4>2, <4>3
      <4> QED
        BY <3>5, <4>2, <4>4 DEF Current
    <3> QED
      BY <3>1, <3>2, <3>4, <3>5
  <2> QED
    BY <2>3, <2>4
<1> QED
  BY <1>4, <1>5

\* A delivery closes the connection of a kicked player before it excludes it.
LEMMA DeliverOuts ==
  ASSUME OpsInv, FenceTypes', NEW r, NEW ok, Deliver(r, ok)
  PROVE  OpsInv'
<1>0. PICK target : target = pending[r].app.target
  OBVIOUS
<1>1. r \in DOMAIN pending /\ r \in DOMAIN rooms /\ LobbyInv
  BY DEF Deliver, Frozen, OpsInv, Fences
<1>2. /\ Moves({}) /\ members' = members /\ DOMAIN rooms' = DOMAIN rooms /\ Fences' /\ Attached
      /\ \/ excluded' = excluded
         \/ /\ excluded' = [excluded EXCEPT ![r] = @ \cup {target}]
            /\ ~(IsBound(rooms', target) /\ Current(target)')
  <2>1. CASE pending[r].app.kind = "close"
    <3>1. DeliverClose(r, ok)
      BY <2>1 DEF Deliver
    <3>2. UNCHANGED <<peers, excluded>>
      BY <3>1 DEF DeliverClose
    <3>3. Moves({}) /\ members' = members /\ DOMAIN rooms' = DOMAIN rooms /\ Fences'
      BY <1>1, <2>1, <3>1, CloseDelivered
    <3>4. Attached
      BY <3>2, PeersSame
    <3> QED
      BY <3>2, <3>3, <3>4
  <2>2. CASE pending[r].app.kind # "close"
    <3>1. DeliverKick(r, ok)
      BY <2>2 DEF Deliver
    <3> QED
      BY <1>0, <1>1, <2>2, <3>1, KickDelivered DEF Deliver
  <2> QED
    BY <2>1, <2>2
<1>3. LobbyInv'
  BY <1>1, <1>2, StepInv
<1>4. StaysOut
  <2>1. DOMAIN excluded' = RoomIds /\ \A y \in RoomIds \ DOMAIN rooms' : excluded'[y] = {}
    BY <1>1, <1>2 DEF OpsInv, Outs
  <2>2. ASSUME NEW y \in DOMAIN rooms', NEW a \in excluded'[y]
        PROVE  (y \in DOMAIN rooms /\ a \in excluded[y]) \/ ~(IsBound(rooms', a) /\ Current(a)')
    <3>1. DOMAIN excluded = RoomIds /\ r \in RoomIds /\ y \in RoomIds /\ y \in DOMAIN rooms
      BY <1>1, <1>2, <2>2 DEF OpsInv, Outs, LobbyInv, Settled, LobbyOK, TablesOK
    <3>2. CASE excluded' = excluded
      BY <2>2, <3>1, <3>2
    <3>3. CASE /\ excluded' = [excluded EXCEPT ![r] = @ \cup {target}]
               /\ ~(IsBound(rooms', target) /\ Current(target)')
      <4>1. a \in excluded[y] \/ a = target
        BY <2>2, <3>1, <3>3
      <4> QED
        BY <3>1, <3>3, <4>1 DEF Current
    <3> QED
      BY <1>2, <3>2, <3>3
  <2> QED
    BY <1>2, <2>1, <2>2 DEF StaysOut
<1>5. Outs'
  BY <1>2, <1>3, <1>4, OutsStay
<1> QED
  BY <1>2, <1>3, <1>5 DEF OpsInv

\* A room is closed with everyone in it.
LEMMA CompleteCloseMoves ==
  ASSUME OpsInv, NEW r \in DOMAIN rooms, CompleteClose(r)
  PROVE  /\ Moves({}) /\ Attached /\ DOMAIN members' \subseteq DOMAIN members
         /\ DOMAIN rooms' = DOMAIN rooms \ {r} /\ \A s \in DOMAIN rooms' : rooms'[s] = rooms[s]
<1> DEFINE seats == {rooms[r].seats[s] : s \in DOMAIN rooms[r].seats}
           gone == {m.account : m \in seats}
           ms2 == [a \in DOMAIN members \ gone |-> members[a]]
           rs2 == Without(rooms, r)
           held == {m.account : m \in {n \in seats : n.bound}}
           kept == [a \in DOMAIN peers \ held |-> peers[a]]
<1>1. Settled
  BY DEF OpsInv, LobbyInv
<1>2. Save(db, queues, rs2, ms2) /\ peers' = kept
  BY DEF CompleteClose
<1>3. held \subseteq gone /\ DOMAIN ms2 = DOMAIN members \ gone /\ \A a \in DOMAIN ms2 : ms2[a] = members[a]
  OBVIOUS
<1>4. gone = {rooms[r].seats[s].account : s \in DOMAIN rooms[r].seats \ {}}
  OBVIOUS
<1>5. DOMAIN rs2 = DOMAIN rooms \ {r} /\ \A s \in DOMAIN rs2 : rs2[s] = rooms[s]
  BY DEF Without
<1>6. DOMAIN kept = DOMAIN peers \ held /\ \A a \in DOMAIN kept : kept[a] = peers[a]
  OBVIOUS
<1> HIDE DEF gone, ms2, rs2, held, kept, seats
<1>7. Evicts(r, rooms, members, {}, gone, rs2, ms2)
  BY <1>3, <1>4, <1>5 DEF Evicts
<1>8. Moves({}) /\ \A a : IsBound(rooms', a) => IsBound(rooms, a) /\ a \notin gone
  BY <1>1, <1>2, <1>7, EvictMoves
<1>9. ASSUME NEW b, IsBound(rooms', b)
      PROVE  (b \in DOMAIN peers => b \in DOMAIN peers') /\ (Current(b)' => Current(b))
  BY <1>2, <1>3, <1>6, <1>8, <1>9 DEF Current
<1>10. Attached
  BY <1>9 DEF Attached
<1> QED
  BY <1>2, <1>3, <1>5, <1>8, <1>10 DEF Save

\* The kicked player leaves its seat; in a match the seat stays without it.
LEMMA CompleteKickMoves ==
  ASSUME OpsInv, NEW r \in DOMAIN rooms, NEW a \in Who(rooms[r]), a = pending[r].app.target, CompleteKick(r)
  PROVE  /\ Moves({}) /\ Attached /\ DOMAIN members' \subseteq DOMAIN members
         /\ ~IsBound(rooms', a)
         /\ DOMAIN rooms \ {r} \subseteq DOMAIN rooms' /\ DOMAIN rooms' \subseteq DOMAIN rooms
         /\ \A s \in DOMAIN rooms \ {r} : rooms'[s] = rooms[s]
<1> DEFINE room == rooms[r]
           x == SeatOf(room, a)
           left == GivenUp(room, x)
           unbound == [room EXCEPT !.seats[x].bound = FALSE]
           late == Pruned(rooms, r, unbound, members)
           stay == DOMAIN room.seats \ {x}
<1>1. Settled /\ LobbyInv /\ LobbyOK(queues, rooms, members) /\ Fits(room) /\ Keeps(room, room)
  BY RoomFits DEF OpsInv, Settled
<1>2. x \in DOMAIN room.seats /\ room.seats[x].account = a /\ a \in DOMAIN members /\ members[a] = r
  BY <1>1, SeatOfFacts DEF LobbyOK, Placed
<1>3. /\ peers' = IF room.seats[x].bound THEN Without(peers, a) ELSE peers
      /\ IF room.match = None
           THEN \E h \in IF room.host = x THEN Elect(left) ELSE {room.host} :
                  Save(db, queues, IF left.seats = <<>> THEN Without(rooms, r)
                                   ELSE [rooms EXCEPT ![r] = [left EXCEPT !.host = h]],
                       Without(members, a))
         ELSE Save(db, queues, late.rooms, late.members)
  BY DEF CompleteKick, GivenUp
<1> HIDE DEF x
<1>4. /\ Moves({}) /\ ~IsBound(rooms', a) /\ DOMAIN members' \subseteq DOMAIN members
      /\ DOMAIN rooms \ {r} \subseteq DOMAIN rooms' /\ DOMAIN rooms' \subseteq DOMAIN rooms
      /\ \A s \in DOMAIN rooms \ {r} : rooms'[s] = rooms[s]
  <2>1. CASE room.match = None
    <3> HIDE DEF left
    <3>1. /\ Fits(left) /\ DOMAIN left.seats = stay
          /\ \A s \in DOMAIN left.seats : /\ left.seats[s].account = room.seats[s].account
                                          /\ left.seats[s].bound = room.seats[s].bound
      BY <1>1, <1>2, WithoutSeat DEF left
    <3>2. left.host = room.host
      BY <1>1 DEF left, GivenUp, Fits, RoomType
    <3>3. PICK h \in IF room.host = x THEN Elect(left) ELSE {room.host} :
            Save(db, queues, IF left.seats = <<>> THEN Without(rooms, r)
                             ELSE [rooms EXCEPT ![r] = [left EXCEPT !.host = h]],
                 Without(members, a))
      BY <1>3, <2>1
    <3> DEFINE new == [left EXCEPT !.host = h]
               rs2 == IF left.seats = <<>> THEN Without(rooms, r) ELSE [rooms EXCEPT ![r] = new]
    <3>4. Save(db, queues, rs2, Without(members, a))
      BY <3>3
    <3>5. Fits(new) /\ new.seats = left.seats
      BY <3>1, <3>2, <3>3, HostNamed
    <3> HIDE DEF new
    <3>6. /\ \/ rs2 = Without(rooms, r) /\ stay = {}
             \/ rs2 = [rooms EXCEPT ![r] = new]
      BY <3>1, NoSeats
    <3>7. DOMAIN rooms \ {r} \subseteq DOMAIN rs2 /\ DOMAIN rs2 \subseteq DOMAIN rooms
          /\ \A s \in DOMAIN rooms \ {r} : rs2[s] = rooms[s]
      <4>1. CASE rs2 = Without(rooms, r)
        BY <4>1 DEF Without
      <4>2. CASE rs2 = [rooms EXCEPT ![r] = new]
        <5> HIDE DEF rs2
        <5> QED
          BY <4>2
      <4> QED
        BY <3>6, <4>1, <4>2
    <3>8. /\ Fits(new) /\ DOMAIN new.seats = stay
          /\ \A s \in stay : /\ new.seats[s].account = room.seats[s].account
                             /\ new.seats[s].bound => room.seats[s].bound
      BY <3>1, <3>5
    <3> HIDE DEF rs2
    <3>9. Evicts(r, rooms, members, stay, {a}, rs2, Without(members, a))
      <4>1. /\ r = members[a] /\ x \in DOMAIN rooms[r].seats /\ rooms[r].seats[x].account = a
            /\ stay = DOMAIN rooms[r].seats \ {x} /\ a \in DOMAIN members
            /\ LobbyOK(queues, rooms, members)
        BY <1>1, <1>2
      <4>2. Fits(new) /\ DOMAIN new.seats = stay
            /\ \A s \in stay : /\ new.seats[s].account = rooms[r].seats[s].account
                               /\ new.seats[s].bound => rooms[r].seats[s].bound
        BY <3>8, SMTT(30)
      <4> HIDE DEF room, left
      <4>3. CASE rs2 = Without(rooms, r) /\ stay = {}
        BY <4>1, <4>3, OneGone, ZenonT(60)
      <4>4. CASE rs2 = [rooms EXCEPT ![r] = new]
        BY <4>1, <4>2, <4>4, OneGone
      <4> QED
        BY <3>6, <4>3, <4>4
    <3>10. Moves({}) /\ \A b : IsBound(rooms', b) => IsBound(rooms, b) /\ b \notin {a}
      BY <1>1, <3>4, <3>9, EvictMoves
    <3>11. rooms' = rs2 /\ members' = Without(members, a)
      BY <3>4 DEF Save
    <3>12. DOMAIN members' \subseteq DOMAIN members
      BY <3>11 DEF Without
    <3> QED
      BY <3>7, <3>10, <3>11, <3>12
  <2>2. CASE room.match # None
    <3>1. Save(db, queues, late.rooms, late.members)
      BY <1>3, <2>2
    <3>2. unbound = [room EXCEPT !.seats[x].bound = FALSE] /\ late = Pruned(rooms, r, unbound, members)
      OBVIOUS
    <3>3. /\ DOMAIN rooms \ {r} \subseteq DOMAIN late.rooms /\ DOMAIN late.rooms \subseteq DOMAIN rooms
          /\ \A s \in DOMAIN rooms \ {r} : late.rooms[s] = rooms[s]
          /\ DOMAIN late.members \subseteq DOMAIN members
      <4> HIDE DEF unbound
      <4> QED
        BY DEF Pruned, Without
    <3> HIDE DEF unbound, late
    <3>4. Moves({}) /\ ~IsBound(rooms', room.seats[x].account)
      BY <1>1, <1>2, <3>1, <3>2, UnboundMoves
    <3> QED
      BY <1>2, <3>1, <3>3, <3>4 DEF Save
  <2> QED
    BY <2>1, <2>2
<1>5. Attached
  <2>1. CASE room.seats[x].bound
    <3>1. DOMAIN peers' = DOMAIN peers \ {a} /\ \A b \in DOMAIN peers' : peers'[b] = peers[b]
      BY <1>3, <2>1 DEF Without
    <3>2. ASSUME NEW b, IsBound(rooms', b)
          PROVE  (b \in DOMAIN peers => b \in DOMAIN peers') /\ (Current(b)' => Current(b))
      BY <1>4, <3>1, <3>2 DEF Current
    <3> QED
      BY <3>2 DEF Attached
  <2>2. CASE ~room.seats[x].bound
    BY <1>3, <2>2, PeersSame
  <2> QED
    BY <2>1, <2>2
<1> QED
  BY <1>4, <1>5

\* A room is pruned, by a clean-up or after a kick whose seat was taken away.
LEMMA PruneOuts ==
  ASSUME OpsInv, NEW r \in DOMAIN rooms, NEW after, after = Pruned(rooms, r, rooms[r], members),
         Save(db, queues, after.rooms, after.members), UNCHANGED peers,
         excluded' = [excluded EXCEPT ![r] = IF r \in DOMAIN rooms' THEN @ ELSE {}]
  PROVE  /\ LobbyInv' /\ Outs'
         /\ \A s \in DOMAIN rooms : (s \in DOMAIN rooms' /\ rooms'[s] = rooms[s])
              \/ (s = r /\ (s \in DOMAIN rooms' => rooms'[s].phase = "verdict"))
<1>1. LobbyInv /\ Settled /\ Keeps(rooms[r], rooms[r]) /\ rooms[r] \in RoomType
  BY RoomFits DEF OpsInv, Fits
<1>2. Moves({}) /\ Attached
  BY <1>1, PrunedMoves, PeersSame
<1>3. rooms' = after.rooms /\ members' = after.members
  BY DEF Save
<1>4. /\ DOMAIN members' \subseteq DOMAIN members /\ DOMAIN rooms' \subseteq DOMAIN rooms
      /\ \A s \in DOMAIN rooms \ {r} : s \in DOMAIN rooms' /\ rooms'[s] = rooms[s]
  BY <1>3 DEF Pruned, Without
<1>5. r \in DOMAIN rooms' => rooms'[r] = rooms[r] \/ rooms'[r].phase = "verdict"
  BY <1>1, <1>3 DEF Pruned, Without, Finished, RoomType
<1>6. LobbyInv'
  BY <1>1, <1>2, StepInv
<1>7. StaysOut
  BY <1>4, <1>6 DEF StaysOut, OpsInv, Outs, LobbyInv, Settled, LobbyOK, TablesOK
<1>8. Outs'
  BY <1>2, <1>6, <1>7, OutsStay
<1>9. r \in DOMAIN rooms' \/ r \notin DOMAIN rooms'
  OBVIOUS
<1> QED
  BY <1>4, <1>5, <1>6, <1>8, <1>9

\* The clean-up of an Action takes no fence along but that of its room.
LEMMA CleanUpOuts ==
  ASSUME OpsInv, FenceTypes', NEW r, CleanUp(r)
  PROVE  OpsInv'
<1> DEFINE after == Pruned(rooms, r, rooms[r], members)
<1>1. /\ Save(db, queues, after.rooms, after.members) /\ UNCHANGED peers
      /\ excluded' = [excluded EXCEPT ![r] = IF r \in DOMAIN rooms' THEN @ ELSE {}]
      /\ pending' = [q \in Frozen \cap DOMAIN rooms' |-> pending[q]]
  BY DEF CleanUp
<1>2. r \in DOMAIN rooms
  BY DEF CleanUp
<1>3. after = Pruned(rooms, r, rooms[r], members)
  OBVIOUS
<1> HIDE DEF after
<1>4. /\ LobbyInv' /\ Outs'
      /\ \A s \in DOMAIN rooms : (s \in DOMAIN rooms' /\ rooms'[s] = rooms[s])
              \/ (s = r /\ (s \in DOMAIN rooms' => rooms'[s].phase = "verdict"))
  BY <1>1, <1>2, <1>3, PruneOuts
<1>5. \A q \in DOMAIN pending' : q \in DOMAIN pending /\ q \in DOMAIN rooms' /\ pending'[q] = pending[q]
  BY <1>1 DEF Frozen
<1>6. Fences'
  BY <1>4, <1>5 DEF OpsInv, Fences
<1> QED
  BY <1>4, <1>6 DEF OpsInv

\* completeRoomOperation frees the seats of its room and forgets its fence.
LEMMA CompleteOuts ==
  ASSUME OpsInv, FenceTypes', NEW r, completeRoomOperation(r)
  PROVE  OpsInv'
<1>1. r \in DOMAIN pending /\ r \in DOMAIN rooms /\ LobbyInv /\ pending' = Without(pending, r)
  BY DEF completeRoomOperation, Frozen, OpsInv, Fences
<1>2. DOMAIN pending' = DOMAIN pending \ {r} /\ \A s \in DOMAIN pending' : pending'[s] = pending[s]
  BY <1>1 DEF Without
<1>0. PICK a : a = pending[r].app.target
  OBVIOUS
<1>9. CASE pending[r].app.kind # "close" /\ SeatGone(r)
  <2> DEFINE after == Pruned(rooms, r, rooms[r], members)
  <2>1. /\ Save(db, queues, after.rooms, after.members) /\ UNCHANGED peers
        /\ excluded' = [excluded EXCEPT ![r] = IF r \in DOMAIN rooms' THEN @ ELSE {}]
    BY <1>9 DEF completeRoomOperation, CompleteGone
  <2>2. after = Pruned(rooms, r, rooms[r], members)
    OBVIOUS
  <2> HIDE DEF after
  <2>3. /\ LobbyInv' /\ Outs'
        /\ \A s \in DOMAIN rooms : s # r => s \in DOMAIN rooms' /\ rooms'[s] = rooms[s]
    BY <1>1, <2>1, <2>2, PruneOuts
  <2>4. Fences'
    BY <1>2, <2>3 DEF OpsInv, Fences
  <2> QED
    BY <2>3, <2>4 DEF OpsInv
<1>10. CASE pending[r].app.kind = "close" \/ ~SeatGone(r)
  <2>3. /\ Moves({}) /\ Attached /\ DOMAIN members' \subseteq DOMAIN members
        /\ DOMAIN rooms \ {r} \subseteq DOMAIN rooms' /\ DOMAIN rooms' \subseteq DOMAIN rooms
        /\ \A s \in DOMAIN rooms \ {r} : rooms'[s] = rooms[s]
        /\ \/ r \notin DOMAIN rooms' /\ excluded' = [excluded EXCEPT ![r] = {}]
           \/ r \in DOMAIN rooms' /\ excluded' = [excluded EXCEPT ![r] = @ \cup {a}] /\ ~IsBound(rooms', a)
    <3>1. CASE pending[r].app.kind = "close"
      <4>1. CompleteClose(r)
        BY <3>1 DEF completeRoomOperation, SeatGone
      <4>2. excluded' = [excluded EXCEPT ![r] = {}]
        BY <4>1 DEF CompleteClose
      <4> QED
        BY <1>1, <4>1, <4>2, CompleteCloseMoves
    <3>2. CASE pending[r].app.kind # "close"
      <4>1. CompleteKick(r)
        BY <1>10, <3>2 DEF completeRoomOperation
      <4>2. excluded' = [excluded EXCEPT ![r] = IF r \in DOMAIN rooms' THEN @ \cup {a} ELSE {}]
        BY <1>0, <4>1 DEF CompleteKick
      <4>3. a \in Who(rooms[r])
        BY <1>0, <1>1, <1>10, <3>2 DEF OpsInv, Fences, SeatGone, Who
      <4>4. /\ Moves({}) /\ Attached /\ DOMAIN members' \subseteq DOMAIN members
            /\ ~IsBound(rooms', a)
            /\ DOMAIN rooms \ {r} \subseteq DOMAIN rooms' /\ DOMAIN rooms' \subseteq DOMAIN rooms
            /\ \A s \in DOMAIN rooms \ {r} : rooms'[s] = rooms[s]
        BY <1>0, <1>1, <4>1, <4>3, CompleteKickMoves
      <4>5. CASE r \in DOMAIN rooms'
        <5>1. excluded' = [excluded EXCEPT ![r] = @ \cup {a}]
          BY <4>2, <4>5
        <5> QED
          BY <4>4, <4>5, <5>1
      <4>6. CASE r \notin DOMAIN rooms'
        <5>1. excluded' = [excluded EXCEPT ![r] = {}]
          BY <4>2, <4>6
        <5> QED
          BY <4>4, <4>6, <5>1
      <4> QED
        BY <4>5, <4>6
    <3> QED
      BY <3>1, <3>2
  <2>4. LobbyInv'
    BY <1>1, <2>3, StepInv
  <2>5. DOMAIN excluded = RoomIds /\ (\A y \in RoomIds \ DOMAIN rooms : excluded[y] = {}) /\ r \in RoomIds
        /\ DOMAIN rooms \subseteq RoomIds
    BY <1>1 DEF OpsInv, Outs, LobbyInv, Settled, LobbyOK, TablesOK
  <2>6. StaysOut
    <3>1. DOMAIN excluded' = RoomIds /\ \A y \in RoomIds \ DOMAIN rooms' : excluded'[y] = {}
      <4>1. CASE r \notin DOMAIN rooms' /\ excluded' = [excluded EXCEPT ![r] = {}]
        BY <2>3, <2>5, <4>1
      <4>2. CASE r \in DOMAIN rooms' /\ excluded' = [excluded EXCEPT ![r] = @ \cup {a}]
        BY <2>3, <2>5, <4>2
      <4> QED
        BY <2>3, <4>1, <4>2
    <3>2. ASSUME NEW y \in DOMAIN rooms', NEW b \in excluded'[y]
          PROVE  (y \in DOMAIN rooms /\ b \in excluded[y]) \/ ~(IsBound(rooms', b) /\ Current(b)')
      <4>1. y \in DOMAIN rooms
        BY <2>3, <3>2
      <4>2. DOMAIN excluded = RoomIds /\ r \in RoomIds /\ y \in RoomIds
        BY <2>5, <4>1
      <4>3. CASE r \notin DOMAIN rooms' /\ excluded' = [excluded EXCEPT ![r] = {}]
        <5>1. y # r
          BY <3>2, <4>3
        <5>2. excluded'[y] = excluded[y]
          BY <4>2, <4>3, <5>1
        <5> QED
          BY <3>2, <4>1, <5>2
      <4>4. CASE excluded' = [excluded EXCEPT ![r] = @ \cup {a}] /\ ~IsBound(rooms', a)
        <5>1. b \in excluded[y] \/ b = a
          BY <3>2, <4>2, <4>4
        <5> QED
          BY <4>1, <4>4, <5>1
      <4> QED
        BY <2>3, <4>1, <4>3, <4>4
    <3> QED
      BY <2>3, <3>1, <3>2 DEF StaysOut
  <2>7. Outs'
    BY <2>3, <2>4, <2>6, OutsStay DEF OpsInv
  <2>8. Fences'
    BY <1>2, <2>3 DEF OpsInv, Fences
  <2> QED
    BY <2>4, <2>7, <2>8 DEF OpsInv
<1> QED
  BY <1>9, <1>10

\* A new process starts with no rooms.
LEMMA RestartOuts ==
  ASSUME FenceTypes', Restart
  PROVE  OpsInv'
<1>1. /\ peers' = <<>> /\ members' = <<>> /\ queues' = <<>> /\ rooms' = <<>> /\ pending' = <<>>
      /\ excluded' = [r \in RoomIds |-> {}] /\ DOMAIN <<>> = {}
  BY NoSeats DEF Restart
<1>2. LobbyInv'
  BY <1>1, EmptyLobby DEF LobbyInv, Settled
<1>3. Outs' /\ Fences'
  BY <1>1 DEF Outs, Fences
<1> QED
  BY <1>2, <1>3 DEF OpsInv

-----------------------------------------------------------------------------
(* The theorems about the seats.                                            *)

\* Whoever sits where, and who was kicked: every step of the lobby, of a decision
\* about a room and of a restart keeps OpsInv.
THEOREM OpsInvariant == OpsSpec => []OpsInv
<1>1. OpsInit => OpsInv
  <2> SUFFICES ASSUME OpsInit PROVE OpsInv
    OBVIOUS
  <2>1. /\ peers = <<>> /\ members = <<>> /\ queues = <<>> /\ rooms = <<>> /\ pending = <<>>
        /\ excluded = [r \in RoomIds |-> {}] /\ ops = [o \in OperationIds |-> NoOperation] /\ DOMAIN <<>> = {}
    BY NoSeats DEF OpsInit, Init
  <2>2. LobbyInv
    BY <2>1, EmptyLobby DEF LobbyInv, Settled
  <2>3. Outs /\ Fences
    BY <2>1 DEF Outs, Fences
  <2>4. NoOperation \in Decisions
    BY DEF NoOperation, Decisions
  <2>5. FenceTypes
    BY <2>1, <2>4 DEF FenceTypes
  <2> QED
    BY <2>2, <2>3, <2>5 DEF OpsInv
<1>2. OpsInv /\ FenceTypes' /\ [OpsNext]_allVars => OpsInv'
  <2> SUFFICES ASSUME OpsInv, FenceTypes', [OpsNext]_allVars PROVE OpsInv'
    OBVIOUS
  <2>1. CASE LobbyStep
    BY <2>1, LobbyStepOuts
  <2>2. ASSUME NEW o \in OperationIds, NEW kind \in {"close", "kick"}, NEW r \in DOMAIN rooms, NEW a \in Accounts,
               DecideRoomOperation(o, kind, r, a)
        PROVE  OpsInv'
    BY <2>2, DecideOuts
  <2>3. ASSUME NEW o, InFlightEnds(o) \/ RecoverRoomOperations(o) \/ ActionUnlocks(o)
        PROVE  OpsInv'
    <3>1. UNCHANGED <<vars, excluded, pending>>
      BY <2>3 DEF InFlightEnds, RecoverRoomOperations, ActionUnlocks
    <3> QED
      BY <3>1, QuietOuts
  <2>4. ASSUME NEW r, RoomOperation(r) \/ CleanUp(r)
        PROVE  OpsInv'
    BY <2>4, ResolveOuts, CompleteOuts, DeliverOuts, CleanUpOuts DEF RoomOperation
  <2>5. CASE Restart
    BY <2>5, RestartOuts
  <2>6. CASE UNCHANGED allVars
    <3>1. UNCHANGED <<vars, excluded, pending>>
      BY <2>6 DEF allVars, opVars
    <3> QED
      BY <3>1, QuietOuts
  <2> QED
    BY <2>1, <2>2, <2>3, <2>4, <2>5, <2>6 DEF OpsNext
<1> QED
  BY <1>1, <1>2, FencesTyped, PTL DEF OpsSpec

\* A decision has the fence of its room as soon as it may take effect, and loses
\* it while it still may only to the clean-up of an Action that deletes the room,
\* whose match is over and in which nobody is connected; whatever answers are
\* lost and whenever a probe comes (DecideRoomOperation, retryRoomOperation).
THEOREM DecisionsFencedHolds == OpsSpec => DecisionsFenced
<1>1. OpsInv /\ [OpsNext]_allVars
        => [\A o \in OperationIds :
              Live(o)' /\ (Live(o) => Fenced(o)) =>
                Fenced(o)' \/ \E r \in Frozen : pending[r].op = o /\ CleanedAway(r)]_allVars
  <2> SUFFICES ASSUME OpsInv, [OpsNext]_allVars PROVE Guarded
    BY DEF Guarded
  <2>1. Frozen \subseteq DOMAIN rooms
    BY DEF OpsInv, Fences, Frozen
  <2> QED
    BY <2>1, FenceSteps DEF OpsInv, FencesKept
<1> QED
  BY <1>1, OpsInvariant, PTL DEF OpsSpec, DecisionsFenced

\* A kick is for good: the account it named never sits connected in the room
\* again, through reconnecting, rejoining or a rematch, and whatever the lobby
\* does between the decision, its delivery and its completion
\* (retryRoomOperation, room.excludedAccounts).
THEOREM KickedStaysOutHolds == OpsSpec => []KickedStaysOut
<1>1. OpsInv => KickedStaysOut
  <2> SUFFICES ASSUME OpsInv, NEW r \in DOMAIN rooms, NEW s \in DOMAIN rooms[r].seats,
                      rooms[r].seats[s].account \in excluded[r], Connected(rooms[r].seats[s])
               PROVE  FALSE
    BY DEF KickedStaysOut
  <2> DEFINE a == rooms[r].seats[s].account
  <2>1. a \in Who(rooms[r]) /\ IsBound(rooms, a) /\ Current(a)
    BY DEF Who, IsBound, Connected
  <2> QED
    BY <2>1 DEF OpsInv, Outs
<1> QED
  BY <1>1, OpsInvariant, PTL

\* Beside the decisions of an administrator, too, an account sits on one seat
\* (TextManager and text_operator.go).
THEOREM OpsSeatsOnce == OpsSpec => []SeatedOnce
<1>1. OpsInv => SeatedOnce
  BY LobbySeatedOnce DEF OpsInv
<1> QED
  BY <1>1, OpsInvariant, PTL
=============================================================================
