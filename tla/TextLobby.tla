------------------------------ MODULE TextLobby ------------------------------
(***************************************************************************)
(* lobby.TextManager: connections (peers), queues, rooms and their seats,  *)
(* over the durable rows of TextAdmissions.                                *)
(*                                                                         *)
(* m.mu makes a handler atomic, so a handler is one action.  Every call to *)
(* the value store inside it may succeed, fail, or commit and lose its     *)
(* reply.  The loops of tick, cleanupDrain and Close visit one peer, one   *)
(* queue entry or one room after another and go on after an error; each    *)
(* visit is an action here, so that others may run between two visits,     *)
(* which only adds behaviours.  A slow consumer may close its connection   *)
(* at any time.                                                            *)
(*                                                                         *)
(* Refusals change nothing and have no action; a reversible pause of       *)
(* admission is such a refusal.  The match is reduced to how it ends.      *)
(***************************************************************************)
EXTENDS Naturals, FiniteSets

CONSTANTS
  Accounts, AdmissionIds, MatchIds, RoomIds, None,
  Owner,             \* the incarnation of this process
  SizeOf,            \* the table size of each LobbySettings value
  ReserveReplyLost   \* may the reply of a committed Reserve be lost?

Values == INSTANCE TextAdmissions WITH
            Owners <- {Owner}, Days <- {1}, FreeDailyQuickplayMatches <- 0

LobbySettings == DOMAIN SizeOf

ASSUME LobbyAssumption ==
  /\ \A s \in LobbySettings : SizeOf[s] \in Nat \ {0}
  /\ ReserveReplyLost \in BOOLEAN
  /\ None \notin AdmissionIds /\ None \notin MatchIds

VARIABLES
  db,        \* the durable rows
  peers,     \* m.peers: account -> "open" or "closed"
  members,   \* m.members: account -> room
  queues,    \* m.queues: account -> entry; its order counts who came before it
  rooms,     \* m.rooms
  draining   \* m.draining

vars == <<db, peers, members, queues, rooms, draining>>

-----------------------------------------------------------------------------
(* Members, seats and rooms *)

\* textMember; bound says that member.peer is the account's peer, not nil.
Member(a, id) == [account |-> a, admission |-> id, bound |-> TRUE, ready |-> FALSE]

\* newRoom
NewRoom(path, s, seats) ==
  [path |-> path, settings |-> s, host |-> 0, seats |-> seats, pendingAbort |-> None,
   match |-> None, phase |-> "lobby", rematching |-> FALSE]

Size(room) == SizeOf[room.settings]

Without(f, x) == [y \in DOMAIN f \ {x} |-> f[y]]

Lowest(S) == {s \in S : \A t \in S : s <= t}

\* f as it is, and what g says elsewhere.
Over(f, g) == [y \in DOMAIN f \cup DOMAIN g |-> IF y \in DOMAIN f THEN f[y] ELSE g[y]]

With(f, x, v) == Over([y \in {x} |-> v], f)

\* m.current
Current(a) == a \in DOMAIN peers /\ peers[a] = "open"

Connected(member) == member.bound /\ Current(member.account)

\* admissionPaused, without the reversible pauses.
AdmissionPaused == draining

\* m.member
SeatOf(room, a) == CHOOSE s \in DOMAIN room.seats : room.seats[s].account = a

Invalidate(seats) == [s \in DOMAIN seats |-> [seats[s] EXCEPT !.ready = FALSE]]

Admitted(seats) == {seats[s].admission : s \in DOMAIN seats} \ {None}

\* member.admission = "" for the reservations in ids.
Forget(seats, ids) ==
  [s \in DOMAIN seats |->
     IF seats[s].admission \in ids THEN [seats[s] EXCEPT !.admission = None] ELSE seats[s]]

\* elect: a connected seat, else the host stays.  The code takes the one that
\* joined first; which one it is plays no role here.
Elect(room) ==
  LET present == {s \in DOMAIN room.seats : Connected(room.seats[s])}
  IN IF present = {} THEN {room.host} ELSE present

Queued(a) == a \in DOMAIN queues

\* How many of the entries es came before that of a.
Before(es, a) == Cardinality({b \in DOMAIN es : es[b].order < es[a].order})

Dequeue(q, as) ==
  LET left == [a \in DOMAIN q \ as |-> q[a]]
  IN [a \in DOMAIN left |-> [left[a] EXCEPT !.order = Before(left, a)]]

-----------------------------------------------------------------------------
(* Durable calls *)

\* Closed rows that neither a queue entry nor a room can name any more are
\* dropped, so that their ids stand for fresh ones.
Known(q, rs) ==
  {q[a].id : a \in DOMAIN q} \cup UNION {Admitted(rs[r].seats) : r \in DOMAIN rs}

KnownMatches(rs) == (UNION {{rs[r].match, rs[r].pendingAbort} : r \in DOMAIN rs}) \ {None}

Tidy(d, q, rs) ==
  [d EXCEPT
     !.adm = [id \in AdmissionIds |->
        IF @[id].state \in Values!Open \/ id \in Known(q, rs) THEN @[id] ELSE Values!NoAdmission],
     !.mat = [m \in MatchIds |->
        IF @[m].state \in {"prepared", "started"} \/ m \in KnownMatches(rs)
          THEN @[m] ELSE Values!NoMatch]]

Save(d, q, rs, ms) ==
  db' = Tidy(d, q, rs) /\ queues' = q /\ rooms' = rs /\ members' = ms

\* uuid.NewString: which of the unused ids it is makes no difference, so the one
\* called like its account or room is preferred to give equal states one name.
\* Bound: there is none when all are used.
Fresh(unused, like) ==
  {id \in unused : id = IF like \in unused THEN like ELSE CHOOSE other \in unused : TRUE}

\* Whether the caller of Reserve is told that the row was written.
Replies == IF ReserveReplyLost THEN BOOLEAN ELSE {TRUE}

\* reserve: a fresh id, and whether the caller learns of it.
Reserves(d, a) ==
  LET ids == Fresh({i \in AdmissionIds : d.adm[i].state = "absent"}, a)
  IN IF Values!OpenOf(d, a) # {} THEN {}
     ELSE {[db |-> Values!Reserve(d, id, a, Owner, "pass", 1), id |-> id, ok |-> ok] :
             id \in ids, ok \in Replies}

\* Mutant: only a reserved row can be cancelled.
AlreadyReleased_Conflict(d, ids) == {}

\* A row released earlier answers nil again, unless a match held it.
AlreadyReleased(d, ids) ==
  {id \in ids : d.adm[id].state = "released" /\ d.adm[id].match = None}

\* CancelReservation of each of ids: those in done commit, and those in told
\* are answered nil, which a reservation released earlier may be as well.
Releases(d, ids) ==
  LET may  == {id \in ids : Values!MayCancelReservation(d, id, Owner)}
      gone == AlreadyReleased(d, ids)
  IN UNION {{[db |-> [d EXCEPT !.adm = [id \in AdmissionIds |->
                        IF id \in done THEN Values!CancelReservation(d, id).adm[id] ELSE @[id]]],
              done |-> done, told |-> told] : told \in SUBSET (done \cup gone)}
            : done \in SUBSET may}

\* The end of abortPrepared.
Cleared(room) ==
  [room EXCEPT !.pendingAbort = None,
               !.seats = Invalidate(Forget(@, Admitted(@)))]

\* The clean-up when a release failed or nothing was prepared; told are the
\* reservations released.
PartlyReleased(room, told) == [room EXCEPT !.seats = Invalidate(Forget(@, told))]

\* CancelPrepared, or Interrupt once the fence says that the match started.
Aborted(d, m) ==
  CASE Values!MayCancelPrepared(d, m, Owner) -> Values!CancelPrepared(d, m)
    [] Values!MayInterrupt(d, m, Owner) -> Values!Interrupt(d, m)
    [] OTHER -> d

\* What CancelPrepared and, after its fence error, Interrupt answer nil.
Abortable(d, m) == d.mat[m].state \in {"prepared", "cancelled", "started", "interrupted"}

\* Mutant: a row that was never prepared needs no clean-up.
AbortPrepared_NoRelease(d, room) ==
  LET after == Aborted(d, room.pendingAbort)
  IN {[db |-> after, ok |-> TRUE, room |-> Cleared(room)]}

\* abortPrepared: when no row was ever prepared, the seats are released one by one.
AbortPrepared(d, room) ==
  IF d.mat[room.pendingAbort].state = "absent"
    THEN {[db |-> o.db, ok |-> o.told = Admitted(room.seats),
           room |-> IF o.told = Admitted(room.seats) THEN Cleared(room)
                      ELSE [room EXCEPT !.seats = Forget(@, o.told)]]
          : o \in Releases(d, Admitted(room.seats))}
    ELSE LET after == Aborted(d, room.pendingAbort)
         IN {[db |-> d, ok |-> FALSE, room |-> room]}
              \cup IF ~Abortable(d, room.pendingAbort) THEN {}
                   ELSE {[db |-> after, ok |-> FALSE, room |-> room],
                         [db |-> after, ok |-> TRUE, room |-> Cleared(room)]}

\* The Finish hook of TextValueHooks: Interrupt for a closed match, else Finish.
Ended(d, m, ending) ==
  CASE ending = "finishing" /\ Values!MayFinish(d, m, Owner) -> Values!Finish(d, m)
    [] ending = "interrupting" /\ Values!MayInterrupt(d, m, Owner) -> Values!Interrupt(d, m)
    [] OTHER -> d

\* An engine call that ends the match: the pending result is kept for a retry
\* when the hook fails (TextMatch.pending), so the ending never changes.
Ends(d, room, ending) ==
  LET after == Ended(d, room.match, ending)
  IN {[db |-> d, ok |-> FALSE, room |-> [room EXCEPT !.phase = ending]],
      [db |-> after, ok |-> FALSE, room |-> [room EXCEPT !.phase = ending]],
      [db |-> after, ok |-> TRUE, room |-> [room EXCEPT !.phase = "verdict"]]}

\* Apply, Advance or SetConnected.
Plays(d, room) ==
  CASE room.phase = "playing" ->
         Ends(d, room, "finishing") \cup [db : {d}, ok : BOOLEAN, room : {room}]
    [] room.phase = "verdict" -> {[db |-> d, ok |-> TRUE, room |-> room]}
    [] OTHER -> Ends(d, room, room.phase)

-----------------------------------------------------------------------------
(* matchQueues *)

\* assign, for the entries es of the queue in their order: the lowest free seats.
Assign(room, es) ==
  LET vacant(s) == Cardinality({t \in 0..(s - 1) : t \notin DOMAIN room.seats})
      taken == {s \in 0..(Size(room) - 1) :
                  s \notin DOMAIN room.seats /\ vacant(s) < Cardinality(DOMAIN es)}
      next(s) == CHOOSE a \in DOMAIN es : Before(es, a) = vacant(s)
      came == [s \in taken |-> Member(next(s), es[next(s)].id)]
  IN IF es = <<>> THEN room ELSE [room EXCEPT !.seats = Invalidate(Over(came, @))]

\* Whether the waiting accounts as may go to room r: it is an open rematch with
\* room for them, or they are the full table of a new room.
MaySeat(q, rs, r, as) ==
  IF r \in DOMAIN rs
    THEN /\ rs[r].rematching /\ rs[r].path = "quick_play" /\ rs[r].match = None
         /\ Cardinality(as) + Cardinality(DOMAIN rs[r].seats) <= Size(rs[r])
         /\ \A a \in as : q[a].settings = rs[r].settings
    ELSE \E s \in LobbySettings :
           /\ Cardinality(as) = SizeOf[s]
           /\ \A a \in as : q[a].settings = s

\* Whom f sends to room r.
To(f, r) == {a \in DOMAIN f : f[a] = r}

\* The rooms the connected waiters may be assigned to.  canMatch may pass over
\* any of them, because of a block between two accounts or of a failed lookup.
Placements(q, rs) ==
  LET waiting == {a \in DOMAIN q : Current(a)}
  IN IF AdmissionPaused THEN {<<>>}
     ELSE {f \in UNION {[as -> RoomIds] : as \in SUBSET waiting} :
             \A a \in DOMAIN f : MaySeat(q, rs, f[a], To(f, f[a]))}

\* The last step of a handler that ends in matchQueues.
MatchQueues(d, q, rs, ms) ==
  \E f \in Placements(q, rs) :
    LET es(r) == [a \in To(f, r) |-> q[a]]
        base(r) == IF r \in DOMAIN rs THEN rs[r]
                   ELSE NewRoom("quick_play", q[CHOOSE a \in To(f, r) : TRUE].settings, <<>>)
    IN Save(d, Dequeue(q, DOMAIN f),
            [r \in DOMAIN rs \cup {f[a] : a \in DOMAIN f} |-> Assign(base(r), es(r))],
            Over(f, ms))

-----------------------------------------------------------------------------
(* Leaving *)

\* Mutant: members are pruned while the match runs.
Finished_Always(room) == TRUE

Finished(room) == room.phase = "verdict"

\* pruneFinishedRoom, applied to the room an engine call left behind.
Pruned(rs, r, room, ms) ==
  LET stay == {s \in DOMAIN room.seats : Connected(room.seats[s])}
      gone == {room.seats[s].account : s \in DOMAIN room.seats \ stay}
  IN IF ~Finished(room) THEN [rooms |-> [rs EXCEPT ![r] = room], members |-> ms]
     ELSE [rooms |-> IF stay = {} THEN Without(rs, r)
                       ELSE [rs EXCEPT ![r] = [room EXCEPT !.seats = [s \in stay |-> @[s]]]],
           members |-> [a \in DOMAIN ms \ gone |-> ms[a]]]

\* leaveQueue; ok says whether it returned nil.
LeaveQueue(a, ok) ==
  IF ~Queued(a) THEN ok /\ UNCHANGED <<db, queues, rooms, members>>
  ELSE \E o \in Releases(db, {queues[a].id}) :
         /\ ok = (o.told # {})
         /\ Save(o.db, IF ok THEN Dequeue(queues, {a}) ELSE queues, rooms, members)

\* leave in a room without a match, from the state an abort left behind.
LeaveLobby(d, r, room, a, ok) ==
  LET seat == SeatOf(room, a)
      left == [room EXCEPT !.seats = Invalidate(Without(@, seat))]
      ids == {room.seats[seat].admission} \ {None}
  IN \E o \in Releases(d, ids) :
       /\ ok = (o.told = ids)
       /\ IF ~ok THEN Save(o.db, queues, [rooms EXCEPT ![r] = room], members)
          ELSE IF left.seats = <<>> THEN Save(o.db, queues, Without(rooms, r), Without(members, a))
          ELSE \E h \in IF room.host = seat THEN Elect(left) ELSE {room.host} :
                 MatchQueues(o.db, queues, [rooms EXCEPT ![r] = [left EXCEPT !.host = h]],
                             Without(members, a))

\* leave in a match: the seat is kept until the verdict.
LeaveMatch(r, room, a, ok) ==
  LET seat == SeatOf(room, a)
  IN \E o \in Plays(db, room) :
       /\ ok = o.ok
       /\ IF ~ok THEN Save(o.db, queues, [rooms EXCEPT ![r] = o.room], members)
          ELSE LET unbound == [o.room EXCEPT !.seats[seat].bound = FALSE]
                   left == [o.room EXCEPT !.seats = Without(@, seat)]
                   after == Pruned(rooms, r, unbound, members)
               IN IF room.phase # "verdict" THEN Save(o.db, queues, after.rooms, after.members)
                  ELSE Save(o.db, queues,
                            IF left.seats = <<>> THEN Without(rooms, r) ELSE [rooms EXCEPT ![r] = left],
                            Without(members, a))

\* leave
LeaveAs(a, ok) ==
  IF a \notin DOMAIN members THEN LeaveQueue(a, ok)
  ELSE LET r == members[a]
           room == rooms[r]
       IN IF ~room.seats[SeatOf(room, a)].bound
            THEN ok /\ UNCHANGED <<db, queues, rooms, members>>
          ELSE IF room.match # None THEN LeaveMatch(r, room, a, ok)
          ELSE IF room.pendingAbort = None THEN LeaveLobby(db, r, room, a, ok)
          ELSE \E o \in AbortPrepared(db, room) :
                 IF o.ok THEN LeaveLobby(o.db, r, o.room, a, ok)
                 ELSE ~ok /\ Save(o.db, queues, [rooms EXCEPT ![r] = o.room], members)

-----------------------------------------------------------------------------
(* Connections *)

\* OpenAuthenticated: an earlier connection of the account is disconnected
\* first, and stays behind closed when that fails.
Open(a) ==
  /\ UNCHANGED draining
  /\ \/ /\ a \notin DOMAIN peers
        /\ peers' = With(peers, a, "open")
        /\ UNCHANGED <<db, queues, rooms, members>>
     \/ /\ a \in DOMAIN peers
        /\ \E ok \in BOOLEAN :
             LeaveAs(a, ok) /\ peers' = [peers EXCEPT ![a] = IF ok THEN "open" ELSE "closed"]

\* closePeer: the account's frames overflow, or its socket fails.
PeerCloses(a) ==
  /\ Current(a)
  /\ peers' = [peers EXCEPT ![a] = "closed"]
  /\ UNCHANGED <<db, queues, rooms, members, draining>>

\* disconnect, by the socket's handler, by a sanction, or by tick for a closed
\* peer; the peer stays registered until its leave succeeded.
Disconnect(a, ok) ==
  /\ a \in DOMAIN peers
  /\ LeaveAs(a, ok)
  /\ peers' = IF ok THEN Without(peers, a) ELSE [peers EXCEPT ![a] = "closed"]
  /\ UNCHANGED draining

Leave(a) ==
  /\ Current(a)
  /\ \E ok \in BOOLEAN : LeaveAs(a, ok)
  /\ UNCHANGED <<peers, draining>>

-----------------------------------------------------------------------------
(* Queues *)

\* QueueJoin after a waiting entry with other settings, if any, was left: the
\* connection may turn out too slow for the answer, and then leaves again.
Enqueue(d, q, a, s) ==
  \E o \in Reserves(d, a) :
    LET waiting == With(q, a, [settings |-> s, id |-> o.id, order |-> Cardinality(DOMAIN q)])
    IN \/ ~o.ok /\ Save(o.db, q, rooms, members) /\ UNCHANGED peers
       \/ o.ok /\ MatchQueues(o.db, waiting, rooms, members) /\ UNCHANGED peers
       \/ /\ o.ok
          /\ peers' = [peers EXCEPT ![a] = "closed"]
          /\ \E c \in Releases(o.db, {o.id}) :
               Save(c.db, IF c.told = {} THEN waiting ELSE q, rooms, members)

QueueJoin(a, s) ==
  /\ Current(a) /\ a \notin DOMAIN members /\ ~AdmissionPaused
  /\ IF ~Queued(a) THEN Enqueue(db, queues, a, s)
     ELSE /\ queues[a].settings # s
          /\ \E o \in Releases(db, {queues[a].id}) :
               IF o.told = {} THEN Save(o.db, queues, rooms, members) /\ UNCHANGED peers
               ELSE Enqueue(Tidy(o.db, Dequeue(queues, {a}), rooms), Dequeue(queues, {a}), a, s)
  /\ UNCHANGED draining

QueueLeave(a) ==
  /\ Current(a) /\ Queued(a)
  /\ \E ok \in BOOLEAN : LeaveQueue(a, ok)
  /\ UNCHANGED <<peers, draining>>

-----------------------------------------------------------------------------
(* Rooms *)

Create(a, s) ==
  /\ Current(a) /\ a \notin DOMAIN members /\ ~Queued(a) /\ ~AdmissionPaused
  /\ \E o \in Reserves(db, a), r \in RoomIds \ DOMAIN rooms :
       IF o.ok THEN Save(o.db, queues, With(rooms, r, NewRoom("local", s, With(<<>>, 0, Member(a, o.id)))),
                         With(members, a, r))
       ELSE Save(o.db, queues, rooms, members)
  /\ UNCHANGED <<peers, draining>>

\* Join by a member: the new connection takes the seat, whatever the engine says.
Rejoin(a, r) ==
  /\ Current(a) /\ a \in DOMAIN members /\ members[a] = r
  /\ LET room == [rooms[r] EXCEPT !.seats[SeatOf(rooms[r], a)].bound = TRUE]
     IN IF room.match = None THEN Save(db, queues, [rooms EXCEPT ![r] = room], members)
        ELSE \E o \in Plays(db, room) :
               IF o.ok THEN LET after == Pruned(rooms, r, o.room, members)
                            IN Save(o.db, queues, after.rooms, after.members)
               ELSE Save(o.db, queues, [rooms EXCEPT ![r] = o.room], members)
  /\ UNCHANGED <<peers, draining>>

\* Mutant: a waiting account may join.
MayJoin_WhileQueued(a, room) ==
  /\ Current(a) /\ a \notin DOMAIN members /\ ~AdmissionPaused
  /\ room.pendingAbort = None /\ room.match = None /\ room.path = "local"
  /\ Cardinality(DOMAIN room.seats) < Size(room)

\* The refusals of Join for an account that is not yet a member.
MayJoin(a, room) ==
  /\ Current(a) /\ a \notin DOMAIN members /\ ~Queued(a) /\ ~AdmissionPaused
  /\ room.pendingAbort = None /\ room.match = None /\ room.path = "local"
  /\ Cardinality(DOMAIN room.seats) < Size(room)

Join(a, r) ==
  /\ MayJoin(a, rooms[r])
  /\ \E o \in Reserves(db, a) :
       IF o.ok THEN Save(o.db, queues,
                         [rooms EXCEPT ![r] = Assign(@, With(<<>>, a, [id |-> o.id, order |-> 0]))],
                         With(members, a, r))
       ELSE Save(o.db, queues, rooms, members)
  /\ UNCHANGED <<peers, draining>>

\* The seats move together when the table shrinks, and the host with its seat.
Compacted(room) ==
  LET rank(s) == Cardinality({t \in DOMAIN room.seats : t < s})
      at(k) == CHOOSE s \in DOMAIN room.seats : rank(s) = k
  IN [room EXCEPT !.host = rank(room.host),
                  !.seats = [k \in {rank(s) : s \in DOMAIN room.seats} |-> @[at(k)]]]

\* The old reservations are released one by one until a release fails.
Settings(a, s) ==
  /\ Current(a) /\ a \in DOMAIN members /\ ~AdmissionPaused
  /\ LET r == members[a]
         room == rooms[r]
         ids == Admitted(room.seats)
         shrunk == IF SizeOf[s] < Size(room) THEN Compacted(room) ELSE room
     IN /\ room.match = None /\ room.host = SeatOf(room, a)
        /\ Cardinality(DOMAIN room.seats) <= SizeOf[s] /\ room.settings # s
        /\ \E o \in Releases(db, ids) :
             \/ /\ o.told = ids
                /\ MatchQueues(o.db, queues,
                     [rooms EXCEPT ![r] = [shrunk EXCEPT !.settings = s,
                                             !.seats = Invalidate(Forget(@, ids))]], members)
             \/ /\ o.told # ids /\ Cardinality(o.done \ o.told) <= 1
                /\ Save(o.db, queues,
                     [rooms EXCEPT ![r] = PartlyReleased(@, o.told)], members)
  /\ UNCHANGED <<peers, draining>>

Ready(a) ==
  /\ Current(a) /\ a \in DOMAIN members /\ ~AdmissionPaused
  /\ LET r == members[a]
         seat == SeatOf(rooms[r], a)
     IN /\ rooms[r].match = None /\ rooms[r].pendingAbort = None
        /\ IF rooms[r].seats[seat].admission # None
             THEN Save(db, queues, [rooms EXCEPT ![r].seats[seat].ready = TRUE], members)
           ELSE \E o \in Reserves(db, a) :
                  Save(o.db, queues,
                       IF o.ok THEN [rooms EXCEPT ![r].seats[seat].ready = TRUE,
                                                  ![r].seats[seat].admission = o.id]
                         ELSE rooms, members)
  /\ UNCHANGED <<peers, draining>>

-----------------------------------------------------------------------------
(* Matches *)

\* Start and start: the host of a full, connected and ready table.  It may fail
\* before anything is prepared, in or after Prepare, and in store Start; the
\* row is named in pendingAbort before Prepare is tried.
MayStart(a) ==
  LET room == rooms[members[a]]
  IN /\ Current(a) /\ ~AdmissionPaused
     /\ room.match = None /\ room.pendingAbort = None /\ room.host = SeatOf(room, a)
     /\ DOMAIN room.seats = 0..(Size(room) - 1)
     /\ \A s \in DOMAIN room.seats : Connected(room.seats[s]) /\ room.seats[s].ready

StartFails(d, r, room, m) ==
  \E o \in AbortPrepared(d, [room EXCEPT !.pendingAbort = m]) :
    Save(o.db, queues, [rooms EXCEPT ![r] = [o.room EXCEPT !.seats = Invalidate(@)]], members)

Start(a) ==
  /\ a \in DOMAIN members /\ MayStart(a)
  /\ LET r == members[a]
         room == rooms[r]
         ids == Admitted(room.seats)
         unused == {i \in MatchIds \ KnownMatches(rooms) : db.mat[i].state = "absent"}
         prepared(m) == Values!Prepare(db, m, ids, Owner)
         started(m) == Values!Start(prepared(m), m, [b \in Accounts |-> "pass"], 1)
     IN \/ \E o \in Releases(db, ids) :
             Save(o.db, queues, [rooms EXCEPT ![r] = PartlyReleased(@, o.told)], members)
        \/ \E m \in Fresh(unused, r) :
             \/ StartFails(db, r, room, m)
             \/ /\ Values!MayPrepare(db, m, ids, Owner)
                /\ \/ StartFails(prepared(m), r, room, m)
                   \/ StartFails(started(m), r, room, m)
                   \/ Save(started(m), queues,
                           [rooms EXCEPT ![r] = [@ EXCEPT !.match = m, !.phase = "playing",
                                                          !.rematching = FALSE]], members)
  /\ UNCHANGED <<peers, draining>>

\* Action.  Members who left meanwhile are pruned after the room is unlocked; that
\* clean-up is a TickPrunes here, and RoomOperations has it beside the fences.
Action(a) ==
  /\ Current(a) /\ a \in DOMAIN members
  /\ LET r == members[a]
         room == rooms[r]
     IN /\ room.match # None /\ room.phase # "verdict"
        /\ room.seats[SeatOf(room, a)].bound
        /\ \E o \in Plays(db, room) : Save(o.db, queues, [rooms EXCEPT ![r] = o.room], members)
  /\ UNCHANGED <<peers, draining>>

\* Rematch: who is not connected is dropped, and the first call moves the whole
\* room back to its lobby without any admission.
Rematch(a) ==
  /\ Current(a) /\ a \in DOMAIN members /\ ~AdmissionPaused
  /\ LET r == members[a]
         room == rooms[r]
         stay == {s \in DOMAIN room.seats : Connected(room.seats[s])}
         gone == {room.seats[s].account : s \in DOMAIN room.seats \ stay}
         again == [room EXCEPT !.match = None, !.phase = "lobby", !.rematching = TRUE,
                     !.seats = [s \in stay |-> [@[s] EXCEPT !.admission = None, !.ready = FALSE]]]
     IN /\ room.phase = "verdict"
        /\ \E h \in IF room.path = "quick_play" THEN Lowest(stay \cup {Size(room)})
                     ELSE IF room.host \in stay THEN {room.host} ELSE Elect(again) :
             MatchQueues(db, queues, [rooms EXCEPT ![r] = [again EXCEPT !.host = h]],
                         [b \in DOMAIN members \ gone |-> members[b]])
  /\ UNCHANGED <<peers, draining>>

-----------------------------------------------------------------------------
(* tick, drain and close *)

TickAborts(r, ok) ==
  /\ rooms[r].pendingAbort # None
  /\ \E o \in AbortPrepared(db, rooms[r]) :
       ok = o.ok /\ Save(o.db, queues, [rooms EXCEPT ![r] = o.room], members)
  /\ UNCHANGED <<peers, draining>>

TickAdvances(r) ==
  /\ rooms[r].match # None /\ rooms[r].phase # "verdict"
  /\ \E o \in Plays(db, rooms[r]) :
       IF o.ok THEN LET after == Pruned(rooms, r, o.room, members)
                    IN Save(o.db, queues, after.rooms, after.members)
       ELSE Save(o.db, queues, [rooms EXCEPT ![r] = o.room], members)
  /\ UNCHANGED <<peers, draining>>

TickPrunes(r) ==
  /\ rooms[r].phase = "verdict"
  /\ LET after == Pruned(rooms, r, rooms[r], members)
     IN Save(db, queues, after.rooms, after.members)
  /\ UNCHANGED <<peers, draining>>

\* Drain, DrainContext and BeginDrain; the clean-up of BeginDrain is what tick
\* repeats.
Drain ==
  /\ ~draining /\ draining' = TRUE
  /\ UNCHANGED <<db, peers, queues, rooms, members>>

\* cleanupDrain
DrainQueue(a, ok) ==
  draining /\ Queued(a) /\ LeaveQueue(a, ok) /\ UNCHANGED <<peers, draining>>

DrainRoom(r, ok) ==
  LET ids == Admitted(rooms[r].seats)
  IN /\ draining /\ rooms[r].match = None /\ rooms[r].pendingAbort = None
     /\ \E o \in Releases(db, ids) :
          /\ ok = (o.told = ids)
          /\ Save(o.db, queues, [rooms EXCEPT ![r] = PartlyReleased(@, o.told)], members)
     /\ UNCHANGED <<peers, draining>>

\* Close, on a room and on a queue entry; the pending aborts are those of tick.
CloseRoom(r) ==
  /\ draining' = TRUE /\ rooms[r].pendingAbort = None
  /\ \/ /\ rooms[r].match # None
        /\ \E o \in IF rooms[r].phase = "playing" THEN Ends(db, rooms[r], "interrupting")
                     ELSE Plays(db, rooms[r]) :
             Save(o.db, queues, [rooms EXCEPT ![r] = o.room], members)
     \/ /\ rooms[r].match = None
        /\ \E o \in Releases(db, Admitted(rooms[r].seats)) :
             Save(o.db, queues, [rooms EXCEPT ![r].seats = Forget(@, o.told)], members)
  /\ UNCHANGED peers

CloseQueue(a) ==
  /\ draining' = TRUE /\ Queued(a)
  /\ \E o \in Releases(db, {queues[a].id}) : Save(o.db, queues, rooms, members)
  /\ UNCHANGED peers

\* Close returned nil: every room and entry was settled.
CloseDone ==
  /\ draining
  /\ \A r \in DOMAIN rooms :
       /\ rooms[r].pendingAbort = None
       /\ IF rooms[r].match # None THEN rooms[r].phase = "verdict" ELSE Admitted(rooms[r].seats) = {}
  /\ \A a \in DOMAIN queues : db.adm[queues[a].id].state = "released"
  /\ peers' = [a \in DOMAIN peers |-> "closed"]
  /\ Save(db, <<>>, rooms, members)
  /\ UNCHANGED draining

-----------------------------------------------------------------------------
Init ==
  /\ db = Values!EmptyStore
  /\ peers = <<>> /\ members = <<>> /\ queues = <<>> /\ rooms = <<>>
  /\ draining = FALSE

\* What a connection may do whatever its account is, what the player of an
\* account commands, and what happens to a room.
ConnectionStep(a) == Open(a) \/ (\E ok \in BOOLEAN : Disconnect(a, ok)) \/ Leave(a)

CommandStep(a) ==
  \/ QueueLeave(a) \/ Ready(a) \/ Start(a) \/ Action(a) \/ Rematch(a)
  \/ \E s \in LobbySettings : QueueJoin(a, s) \/ Create(a, s) \/ Settings(a, s)
  \/ \E r \in DOMAIN rooms : Join(a, r) \/ Rejoin(a, r)

QueueStep(a) == (\E ok \in BOOLEAN : DrainQueue(a, ok)) \/ CloseQueue(a)

RoomStep(r) ==
  \/ \E ok \in BOOLEAN : TickAborts(r, ok) \/ DrainRoom(r, ok)
  \/ TickAdvances(r) \/ TickPrunes(r) \/ CloseRoom(r)

Next ==
  \/ \E a \in Accounts : PeerCloses(a) \/ ConnectionStep(a) \/ CommandStep(a) \/ QueueStep(a)
  \/ \E r \in DOMAIN rooms : RoomStep(r)
  \/ Drain \/ CloseDone

Spec == Init /\ [][Next]_vars

\* tick runs every 100 ms and retries; a durable call that is tried again and
\* again is answered eventually.
Reap(a) == a \in DOMAIN peers /\ peers[a] = "closed" /\ Disconnect(a, TRUE)
Retry(r) == r \in DOMAIN rooms /\ (TickAborts(r, TRUE) \/ DrainRoom(r, TRUE))

-----------------------------------------------------------------------------
(* Properties *)

\* An account sits on one seat of one room, exactly when m.members says so,
\* and never waits in a queue at the same time or twice.
SeatedOnce ==
  \A a \in Accounts :
    LET seats == UNION {{<<r, s>> : s \in {t \in DOMAIN rooms[r].seats :
                                             rooms[r].seats[t].account = a}} : r \in DOMAIN rooms}
    IN /\ Cardinality(seats) + Cardinality({a} \cap DOMAIN queues) <= 1
       /\ (a \in DOMAIN members) = (seats # {})
       /\ \A x \in seats : members[a] = x[1]

\* Every reservation that holds its account is named by the account's queue
\* entry or seat, or belongs to a match that its room still has to abort: a
\* failed setup, leave, settings or queue change leaves nothing behind.
NoOrphanReservation ==
  \A id \in AdmissionIds :
    db.adm[id].state = "reserved" =>
      \/ Queued(db.adm[id].account) /\ queues[db.adm[id].account].id = id
      \/ \E r \in DOMAIN rooms :
           /\ db.adm[id].match \in {None, rooms[r].pendingAbort}
           /\ \E s \in DOMAIN rooms[r].seats :
                /\ rooms[r].seats[s].admission = id
                /\ rooms[r].seats[s].account = db.adm[id].account

\* Every match row that is open has one room that runs it or retries its abort,
\* a running match has its row and its seats started, and a verdict is shown
\* only once it is durable.
NoOrphanMatch ==
  /\ \A m \in MatchIds :
       db.mat[m].state \in {"prepared", "started"} =>
         \E r \in DOMAIN rooms :
           \/ rooms[r].pendingAbort = m
           \/ rooms[r].match = m /\ db.mat[m].state = "started"
  /\ \A r \in DOMAIN rooms :
       /\ rooms[r].phase = "playing" =>
            /\ db.mat[rooms[r].match].state = "started"
            /\ \A s \in DOMAIN rooms[r].seats :
                 LET row == db.adm[rooms[r].seats[s].admission]
                 IN row.state = "started" /\ row.match = rooms[r].match
                      /\ row.account = rooms[r].seats[s].account
       /\ rooms[r].phase = "verdict" => db.mat[rooms[r].match].state \in {"completed", "interrupted"}

\* Nothing durable is left behind by a failed or interrupted operation.
NoOrphan == NoOrphanReservation /\ NoOrphanMatch

\* A seat of a match, though its player left, is given to nobody and removed
\* only when the result is durable: leave keeps it for grace and forfeit.
SeatKeptUntilVerdict ==
  [][\A r \in DOMAIN rooms :
       rooms[r].match # None /\ db'.mat[rooms[r].match].state = "started" =>
         /\ r \in DOMAIN rooms' /\ rooms'[r].match = rooms[r].match
         /\ \A s \in DOMAIN rooms[r].seats :
              s \in DOMAIN rooms'[r].seats /\ rooms'[r].seats[s].account = rooms[r].seats[s].account]_vars
=============================================================================
