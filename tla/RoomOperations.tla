--------------------------- MODULE RoomOperations ---------------------------
(***************************************************************************)
(* An administrator closes a room or kicks a player from it                *)
(* (lobby/text_operator.go over store/admin_operations.go and              *)
(* admin_room_operations.go), beside everything else the lobby does.       *)
(*                                                                         *)
(* The decision is durable first; its effect is delivered afterwards and   *)
(* retried by the clock of the lobby.  The room is fenced from the moment  *)
(* the decision is tried: its rows stay as they were captured.  The answer *)
(* of a decision may be lost while its transaction is about to commit: it  *)
(* is in flight, with its locks held, and a probe waits for them.          *)
(*                                                                         *)
(* One thing does not look at the fence: the deferred clean-up of Action,  *)
(* which unlocks a finished room and comes back later to prune it.         *)
(*                                                                         *)
(* When the process ends, its successor has closed the rows it left before *)
(* anything else; a decision that was not delivered becomes obsolete then. *)
(***************************************************************************)
EXTENDS TextLobby

CONSTANTS
  OperationIds,
  Scenarios   \* what the players and the process do in a behaviour; one is chosen

ASSUME ScenarioAssumption ==
  Scenarios \subseteq [who : SUBSET Accounts, tables : SUBSET LobbySettings,
                       queues : BOOLEAN, drains : BOOLEAN]

VARIABLES
  ops,       \* admin_operation_decisions with their results
  pending,   \* room.pendingOperator of the rooms that have one
  excluded,  \* room.excludedAccounts
  cleaning,  \* the rooms that an Action has unlocked finished and is still to prune
  scenario

opVars == <<ops, pending, excluded, cleaning, scenario>>
allVars == <<vars, opVars>>

NoOperation == [state |-> "absent", live |-> FALSE]
Frozen == DOMAIN pending
Fenced(o) == \E r \in Frozen : pending[r].op = o

OpsInit ==
  /\ Init
  /\ ops = [o \in OperationIds |-> NoOperation]
  /\ pending = <<>>
  /\ excluded = [r \in RoomIds |-> {}]
  /\ cleaning = {}
  /\ scenario \in Scenarios

-----------------------------------------------------------------------------
(* The lobby around fenced rooms *)

\* Whose room is fenced is refused by every handler, OpenAuthenticated and leave
\* included; tick, drain and Close pass over the room, and so does matchQueues.
Unfenced(a) == a \in DOMAIN members => members[a] \notin Frozen

\* Mutant: a kicked player may take the seat again.
MayCommand_Excluded(a) == TRUE

\* An excluded member is refused by Join, Action and Rematch; in its match
\* nothing else is left to command.
MayCommand(a) == a \in DOMAIN members => a \notin excluded[members[a]]

\* The bound of the behaviour.  No room is opened while a decision has none.
InScenario ==
  /\ DOMAIN peers' \subseteq scenario.who
  /\ queues' # <<>> => scenario.queues
  /\ draining' => scenario.drains
  /\ \A r \in DOMAIN rooms' : rooms'[r].settings \in scenario.tables
  /\ (\E o \in OperationIds : ops[o].state # "absent" /\ ~Fenced(o)) => DOMAIN rooms' \subseteq DOMAIN rooms
  /\ UNCHANGED scenario

\* A handler leaves the fenced rooms as they are and seats nobody excluded; what
\* was excluded is forgotten with the room, and so is a clean-up that is on its way.
AroundFences ==
  /\ \A r \in Frozen : r \in DOMAIN rooms' /\ rooms'[r] = rooms[r]
  /\ \A a \in DOMAIN members' \ DOMAIN members : a \notin excluded[members'[a]]
  /\ excluded' = [r \in RoomIds |-> IF r \in DOMAIN rooms' THEN excluded[r] ELSE {}]
  /\ cleaning' = cleaning \cap DOMAIN rooms'
  /\ UNCHANGED <<ops, pending>>

LobbyStep ==
  /\ \/ \E a \in Accounts : \/ PeerCloses(a) \/ QueueStep(a)
                            \/ Unfenced(a) /\ ConnectionStep(a)
                            \/ Unfenced(a) /\ MayCommand(a) /\ CommandStep(a)
     \/ \E r \in DOMAIN rooms \ Frozen : RoomStep(r)
     \/ Drain
     \/ Frozen = {} /\ CloseDone
  /\ AroundFences /\ InScenario

\* The deferred function of Action gives its locks back and finds the match
\* finished, by this Action or before it; an Action that was refused does so, too.
ActionUnlocks(a) ==
  /\ Current(a) /\ a \in DOMAIN members /\ Unfenced(a) /\ MayCommand(a)
  /\ rooms[members[a]].phase = "verdict"
  /\ cleaning' = cleaning \cup {members[a]}
  /\ UNCHANGED <<vars, ops, pending, excluded, scenario>>

\* It comes back with the lock of the manager, to the same room and to whatever
\* happened to it meanwhile, a fence included; or its time is over and it does
\* not.  More than one Action may be on its way.
CleanUp(r) ==
  /\ r \in cleaning \cap DOMAIN rooms
  /\ LET after == Pruned(rooms, r, rooms[r], members)
     IN Save(db, queues, after.rooms, after.members)
  /\ excluded' = [excluded EXCEPT ![r] = IF r \in DOMAIN rooms' THEN @ ELSE {}]
  /\ pending' = [q \in Frozen \cap DOMAIN rooms' |-> pending[q]]
  /\ cleaning' \in {cleaning \ {r}, cleaning \cap DOMAIN rooms'}
  /\ UNCHANGED <<peers, draining, ops, scenario>>

-----------------------------------------------------------------------------
(* Decisions *)

\* The application DecideRoomOperation captures under the lock of the room.
Captured(kind, room, target) ==
  LET seats == {room.seats[s] : s \in DOMAIN room.seats}
  IN [kind |-> kind, target |-> target,
      match |-> IF room.match # None THEN room.match ELSE room.pendingAbort,
      ids |-> {m.admission : m \in {n \in seats : kind = "close" \/ n.account = target}} \ {None}]

\* The id of a decision is a fresh one.
MayDecide(o, kind, r, target) ==
  /\ ops[o].state = "absent" /\ ~Fenced(o) /\ r \notin Frozen
  /\ kind = "kick" =>
       /\ rooms[r].pendingAbort = None
       /\ target \in DOMAIN members /\ members[target] = r /\ target \notin excluded[r]

Fence(o, kind, r, target, unconfirmed) ==
  pending' = With(pending, r, [op |-> o, app |-> Captured(kind, rooms[r], target),
                               unconfirmed |-> unconfirmed, delivered |-> FALSE])

\* DecideRoomOperation and Decide: the decision commits and the room knows, by
\* the answer or by the probe; or both fail, and the room stays fenced although
\* the decision was rolled back, committed, or is in flight.  A decision that is
\* proven absent changes nothing.
DecideRoomOperation(o, kind, r, target) ==
  /\ MayDecide(o, kind, r, target)
  /\ \/ /\ ops' = [ops EXCEPT ![o] = [state |-> "pending", live |-> TRUE]]
        /\ Fence(o, kind, r, target, FALSE)
     \/ /\ \E decided \in {NoOperation} \cup [state : {"inflight", "pending"}, live : {TRUE}] :
             ops' = [ops EXCEPT ![o] = decided]
        /\ Fence(o, kind, r, target, TRUE)
  /\ UNCHANGED <<vars, excluded, cleaning, scenario>>

InFlightEnds(o) ==
  /\ ops[o].state = "inflight"
  /\ \E decided \in {NoOperation, [state |-> "pending", live |-> TRUE]} :
       ops' = [ops EXCEPT ![o] = decided]
  /\ UNCHANGED <<vars, pending, excluded, cleaning, scenario>>

\* Mutant: the probe reads without the locks of the decision.
Resolved_Unlocked(o) == TRUE

\* The locks of ResolveRoomDecision: it waits for a decision in flight.
Resolved(o) == ops[o].state # "inflight"

\* retryRoomOperation of a tentative fence: confirmed or, proven absent, dropped.
ResolveRoomDecision(r) ==
  /\ r \in Frozen /\ pending[r].unconfirmed /\ Resolved(pending[r].op)
  /\ pending' = IF ops[pending[r].op].state \in {"absent", "inflight"} THEN Without(pending, r)
                ELSE [pending EXCEPT ![r].unconfirmed = FALSE]
  /\ UNCHANGED <<vars, ops, excluded, cleaning, scenario>>

-----------------------------------------------------------------------------
(* Delivery *)

Terminal == {"completed", "interrupted", "cancelled"}

\* Mutant: a match that ended on its own is a conflict.
Applicable_OpenOnly(d, o, app) ==
  \/ ops[o].state # "pending"
  \/ IF app.match = None
       THEN app.ids \subseteq {id \in AdmissionIds : \/ Values!MayCancelReservation(d, id, Owner)
                                                     \/ id \in AlreadyReleased(d, app.ids)}
     ELSE \/ app.kind = "kick" /\ d.mat[app.match].state # "absent"
          \/ Values!MayCancelPrepared(d, app.match, Owner) \/ Values!MayInterrupt(d, app.match, Owner)

\* Whether the transaction of ApplyRoomOperation commits; a decision with a
\* result is answered from it.  The row of a match must be there.
Applicable(d, o, app) ==
  \/ ops[o].state # "pending"
  \/ IF app.match = None
       THEN app.ids \subseteq {id \in AdmissionIds : \/ Values!MayCancelReservation(d, id, Owner)
                                                     \/ id \in AlreadyReleased(d, app.ids)}
     ELSE \/ d.mat[app.match].state \in Terminal
          \/ app.kind = "kick" /\ d.mat[app.match].state # "absent"
          \/ Values!MayCancelPrepared(d, app.match, Owner) \/ Values!MayInterrupt(d, app.match, Owner)

\* Its effect on the rows, and the result of the decision.
AppliedRows(d, o, app) ==
  CASE ops[o].state # "pending" -> d
    [] ops[o].state = "pending" /\ app.match # None ->
         IF app.kind = "close" THEN Aborted(d, app.match) ELSE d
    [] OTHER -> [d EXCEPT !.adm = [id \in AdmissionIds |->
                   IF id \in app.ids THEN [@[id] EXCEPT !.state = "released"] ELSE @[id]]]

AppliedResult(d, o, app) ==
  IF ops[o].state # "pending" THEN ops[o].state
  ELSE IF app.kind = "close" /\ app.match # None /\ d.mat[app.match].state \in Terminal THEN "obsolete"
  ELSE "applied"

\* ApplyRoomOperation after the engine left d and room: it fails, commits without
\* an answer, or is answered.  ended is the room once the call was answered.
Applies(r, d, room, ended, ok) ==
  LET o == pending[r].op
      app == pending[r].app
  IN \/ /\ ~ok
        /\ Save(d, queues, [rooms EXCEPT ![r] = room], members) /\ UNCHANGED <<ops, pending>>
     \/ /\ Applicable(d, o, app)
        /\ Save(AppliedRows(d, o, app), queues, [rooms EXCEPT ![r] = IF ok THEN ended ELSE room], members)
        /\ ops' = [ops EXCEPT ![o].state = AppliedResult(d, o, app)]
        /\ pending' = IF ok THEN [pending EXCEPT ![r].delivered = TRUE] ELSE pending

\* The first half of retryRoomOperation, under the lock of the room.  A close ends
\* a running match through operatorFinish, in one transaction with the result of
\* the decision; a match that was already ending ends as it was, and the decision
\* is applied after it.
DeliverClose(r, ok) ==
  LET room == rooms[r]
      closing == [room EXCEPT !.phase = "interrupting"]
  IN /\ CASE room.phase \in {"lobby", "verdict"} -> Applies(r, db, room, room, ok)
          [] room.phase \in {"playing", "interrupting"} ->
               Applies(r, db, closing, [room EXCEPT !.phase = "verdict"], ok)
          [] OTHER -> \E e \in Ends(db, room, room.phase) :
               IF e.ok THEN Applies(r, e.db, e.room, e.room, ok)
               ELSE ~ok /\ Save(e.db, queues, [rooms EXCEPT ![r] = e.room], members)
                        /\ UNCHANGED <<ops, pending>>
     /\ UNCHANGED <<peers, excluded>>

DeliverKick(r, ok) ==
  LET room == rooms[r]
      target == pending[r].app.target
  IN IF room.match = None THEN Applies(r, db, room, room, ok) /\ UNCHANGED <<peers, excluded>>
     ELSE \E e \in Plays(db, room) :
            IF e.ok THEN /\ Applies(r, e.db, e.room, e.room, ok)
                         /\ peers' = IF target \in DOMAIN peers /\ room.seats[SeatOf(room, target)].bound
                                       THEN [peers EXCEPT ![target] = "closed"] ELSE peers
                         /\ excluded' = [excluded EXCEPT ![r] = @ \cup {target}]
            ELSE /\ ~ok /\ Save(e.db, queues, [rooms EXCEPT ![r] = e.room], members)
                 /\ UNCHANGED <<peers, excluded, ops, pending>>

\* The player to be kicked has no seat any more.
SeatGone(r) ==
  /\ pending[r].app.kind = "kick"
  /\ \A s \in DOMAIN rooms[r].seats : rooms[r].seats[s].account # pending[r].app.target

\* Who has no seat is no member: a kick from a match is refused (ErrTextMembership).
Deliver(r, ok) ==
  /\ r \in Frozen /\ ~pending[r].unconfirmed /\ ~pending[r].delivered
  /\ rooms[r].match # None => ~SeatGone(r)
  /\ IF pending[r].app.kind = "close" THEN DeliverClose(r, ok) ELSE DeliverKick(r, ok)
  /\ UNCHANGED <<draining, cleaning, scenario>>

\* completeRoomOperation, later and under the lock of the manager.  Nothing reads
\* the decision again: its id stands for a fresh one from here on.
CompleteClose(r) ==
  LET seats == {rooms[r].seats[s] : s \in DOMAIN rooms[r].seats}
  IN /\ Save(db, queues, Without(rooms, r), [a \in DOMAIN members \ {m.account : m \in seats} |-> members[a]])
     /\ peers' = [a \in DOMAIN peers \ {m.account : m \in {n \in seats : n.bound}} |-> peers[a]]
     /\ excluded' = [excluded EXCEPT ![r] = {}]

CompleteKick(r) ==
  LET a == pending[r].app.target
      seat == SeatOf(rooms[r], a)
      gone == [rooms[r] EXCEPT !.seats = Invalidate(Without(@, seat))]
      unbound == [rooms[r] EXCEPT !.seats[seat].bound = FALSE]
  IN /\ peers' = IF rooms[r].seats[seat].bound THEN Without(peers, a) ELSE peers
     /\ IF rooms[r].match = None
          THEN \E h \in IF rooms[r].host = seat THEN Elect(gone) ELSE {rooms[r].host} :
                 Save(db, queues, IF gone.seats = <<>> THEN Without(rooms, r)
                                    ELSE [rooms EXCEPT ![r] = [gone EXCEPT !.host = h]],
                      Without(members, a))
        ELSE LET after == Pruned(rooms, r, unbound, members)
             IN Save(db, queues, after.rooms, after.members)
     /\ excluded' = [excluded EXCEPT ![r] = IF r \in DOMAIN rooms' THEN @ \cup {a} ELSE {}]

\* The seat was taken away since the delivery: only the fence is left.
CompleteGone(r) ==
  LET after == Pruned(rooms, r, rooms[r], members)
  IN /\ Save(db, queues, after.rooms, after.members) /\ UNCHANGED peers
     /\ excluded' = [excluded EXCEPT ![r] = IF r \in DOMAIN rooms' THEN @ ELSE {}]

completeRoomOperation(r) ==
  /\ r \in Frozen /\ pending[r].delivered
  /\ \/ pending[r].app.kind = "close" /\ CompleteClose(r)
     \/ SeatGone(r) /\ CompleteGone(r)
     \/ pending[r].app.kind = "kick" /\ ~SeatGone(r) /\ CompleteKick(r)
  /\ cleaning' = cleaning \cap DOMAIN rooms'
  /\ pending' = Without(pending, r)
  /\ ops' = [ops EXCEPT ![pending[r].op] = NoOperation]
  /\ UNCHANGED <<draining, scenario>>

-----------------------------------------------------------------------------
(* The end of the process *)

\* Its successor waits for what is in flight and closes every open row before it
\* admits anyone (TextOwner).
Restart ==
  /\ Frozen # {} \/ \E o \in OperationIds : ops[o].state # "absent"
  /\ \A o \in OperationIds : Resolved(o)
  /\ db' = Values!EmptyStore /\ peers' = <<>> /\ members' = <<>> /\ queues' = <<>>
  /\ rooms' = <<>> /\ draining' = FALSE
  /\ ops' = [o \in OperationIds |-> IF ops[o].state = "pending" THEN [ops[o] EXCEPT !.live = FALSE]
                                    ELSE NoOperation]
  /\ pending' = <<>> /\ excluded' = [r \in RoomIds |-> {}] /\ cleaning' = {}
  /\ UNCHANGED scenario

RecoverRoomOperations(o) ==
  /\ ops[o].state = "pending" /\ ~ops[o].live
  /\ ops' = [ops EXCEPT ![o] = NoOperation]
  /\ UNCHANGED <<vars, pending, excluded, cleaning, scenario>>

-----------------------------------------------------------------------------
RoomOperation(r) ==
  \/ ResolveRoomDecision(r) \/ completeRoomOperation(r)
  \/ \E ok \in BOOLEAN : Deliver(r, ok)

OpsNext ==
  \/ LobbyStep
  \/ \E a \in Accounts : ActionUnlocks(a)
  \/ \E o \in OperationIds :
       \/ \E kind \in {"close", "kick"}, r \in DOMAIN rooms, a \in Accounts :
            (kind = "close" => a = CHOOSE b \in Accounts : TRUE) /\ DecideRoomOperation(o, kind, r, a)
       \/ InFlightEnds(o) \/ RecoverRoomOperations(o)
  \/ \E r \in RoomIds : RoomOperation(r) \/ CleanUp(r)
  \/ Restart

\* What tick retries: a call that is made again and again is answered eventually.
OpsSpec ==
  /\ OpsInit /\ [][OpsNext]_allVars
  /\ \A a \in Accounts : SF_allVars(Unfenced(a) /\ Reap(a) /\ AroundFences /\ InScenario)
  /\ \A o \in OperationIds : WF_allVars(InFlightEnds(o)) /\ WF_allVars(RecoverRoomOperations(o))
  /\ \A r \in RoomIds : /\ SF_allVars(Deliver(r, TRUE)) /\ WF_allVars(ResolveRoomDecision(r))
                        /\ WF_allVars(completeRoomOperation(r))
                        /\ SF_allVars(r \notin Frozen /\ Retry(r) /\ AroundFences /\ InScenario)

-----------------------------------------------------------------------------
(* Properties *)

\* The decision may still take effect in the room it was made for.
Live(o) == ops[o].state \in {"inflight", "pending"} /\ ops[o].live

\* The clean-up of an Action deletes room r, in which the match is over and
\* nobody is connected any more.
CleanedAway(r) ==
  /\ r \in cleaning /\ r \notin DOMAIN rooms'
  /\ rooms[r].phase = "verdict" /\ \A s \in DOMAIN rooms[r].seats : ~Connected(rooms[r].seats[s])

\* A decision fences its room as soon as it may take effect, and keeps it fenced
\* while it still may, though the answer of DecideRoomOperation is lost and its
\* probe fails or comes too early; unless Action's clean-up deletes the room.
DecisionsFenced ==
  [][\A o \in OperationIds :
       Live(o)' /\ (Live(o) => Fenced(o)) =>
         Fenced(o)' \/ \E r \in Frozen : pending[r].op = o /\ CleanedAway(r)]_allVars

\* A kick is for good: the account it named never sits connected in the room
\* again, through reconnecting, rejoining or a rematch.
KickedStaysOut ==
  \A r \in DOMAIN rooms : \A s \in DOMAIN rooms[r].seats :
    rooms[r].seats[s].account \in excluded[r] => ~Connected(rooms[r].seats[s])

\* The close of a room whose start failed before its row was prepared names a
\* match that no transaction finds.
NoRow(r) ==
  /\ pending[r].app.kind = "close" /\ pending[r].app.match # None
  /\ db.mat[pending[r].app.match].state = "absent"

\* A clean-up took the seat or the room away that a live decision is about.
Overtaken(o) ==
  ops[o].live /\ \A r \in Frozen : pending[r].op = o => SeatGone(r)

Undelivered(o) == ops[o].state \in {"inflight", "pending"}

\* What was decided is delivered, or obsolete once the process has ended, unless
\* no transaction can find what it names or a clean-up has overtaken it.
OperationsDelivered ==
  \A o \in OperationIds :
    Undelivered(o) ~>
      (~Undelivered(o) \/ Overtaken(o) \/ \E r \in Frozen : pending[r].op = o /\ NoRow(r))

\* What the comments on DecideRoomOperation promise: a pending decision is
\* delivered by a retry.  A clean-up that comes after the fence breaks it.
PendingIsRetried ==
  \A o \in OperationIds :
    Undelivered(o) ~> (~Undelivered(o) \/ \E r \in Frozen : pending[r].op = o /\ NoRow(r))

\* The fence of the account's room stays, and tick passes over its members.
Abandoned(a) ==
  a \in DOMAIN members /\ members[a] \in Frozen /\ (NoRow(members[a]) \/ SeatGone(members[a]))

\* A closed connection is cleaned up, whatever its leave runs into: a seat, a
\* queue entry, a half-made start, or the fence of an operation.
ConnectionsReaped ==
  \A a \in Accounts :
    (a \in DOMAIN peers /\ peers[a] = "closed")
      ~> (~(a \in DOMAIN peers /\ peers[a] = "closed") \/ Abandoned(a))
=============================================================================
