--------------------------- MODULE TextAdmissions ---------------------------
(***************************************************************************)
(* The durable rows behind a text match and the transactions of            *)
(* store.TextValueStore that change them: text_admissions, text_matches    *)
(* and daily_quickplay_counts.  A transaction Op is a pair of operators on *)
(* the rows: MayOp says when the code commits a change, Op is the change.  *)
(* Trust, cooldown, device-binding and pack checks only refuse, and are    *)
(* left to the caller's choice of not taking the step.                     *)
(*                                                                         *)
(* A match or admission id is a fresh UUID of its caller.  The fence       *)
(* number of a match is 1 until cancellation or interruption makes it 2,   *)
(* so the state alone carries it.                                          *)
(***************************************************************************)
EXTENDS Naturals, FiniteSets

CONSTANTS
  Accounts, AdmissionIds, MatchIds,
  Owners,        \* process incarnations (TextOwnerToken)
  Days,          \* UTC server days
  FreeDailyQuickplayMatches,
  None           \* SQL NULL

ASSUME AdmissionsAssumption ==
  /\ FreeDailyQuickplayMatches \in Nat
  /\ IsFiniteSet(AdmissionIds)
  /\ None \notin Accounts \cup MatchIds \cup Owners \cup AdmissionIds

NoAdmission ==
  [state |-> "absent", account |-> None, owner |-> None, match |-> None,
   kind |-> "none", day |-> None]
NoMatch == [state |-> "absent", owner |-> None]

EmptyStore ==
  [adm |-> [id \in AdmissionIds |-> NoAdmission],
   mat |-> [m \in MatchIds |-> NoMatch],
   count |-> [a \in Accounts |-> [d \in Days |-> 0]]]

\* What accessKind returns: "pass" stands for every access that consumes no
\* free allowance (premium, play pass, local and prototype matches).
Kinds == {"free", "pass"}

Open == {"reserved", "started"}

OpenOf(db, a) ==
  {id \in AdmissionIds : db.adm[id].account = a /\ db.adm[id].state \in Open}

\* matchAdmissions
Seated(db, m) == {id \in AdmissionIds : db.adm[id].match = m}

\* checkQuota: the other free reservations of the day count like used ones.
QuotaLeft(db, a, day, self) ==
  db.count[a][day]
    + Cardinality({id \in AdmissionIds \ {self} :
                     /\ db.adm[id].account = a /\ db.adm[id].day = day
                     /\ db.adm[id].state = "reserved" /\ db.adm[id].kind = "free"})
    < FreeDailyQuickplayMatches

-----------------------------------------------------------------------------
MayReserve(db, id, a, kind, day) ==
  /\ db.adm[id].state = "absent"
  /\ OpenOf(db, a) = {}
  /\ kind = "free" => QuotaLeft(db, a, day, id)

Reserve(db, id, a, p, kind, day) ==
  [db EXCEPT !.adm[id] = [state |-> "reserved", account |-> a, owner |-> p,
                          match |-> None, kind |-> kind, day |-> day]]

\* Mutant: a reservation already linked to a match is cancelled too.
MayCancelReservation_Linked(db, id, p) ==
  db.adm[id].state = "reserved" /\ db.adm[id].owner = p

\* cancelReservationTx; a released row is answered nil without a change.
MayCancelReservation(db, id, p) ==
  /\ db.adm[id].state = "reserved" /\ db.adm[id].match = None
  /\ db.adm[id].owner = p

CancelReservation(db, id) == [db EXCEPT !.adm[id].state = "released"]

-----------------------------------------------------------------------------
\* Prepare links every listed reservation or none: each must still be free and
\* of this process's generation.
MayPrepare(db, m, ids, p) ==
  /\ db.mat[m].state = "absent"
  /\ \A id \in ids : /\ db.adm[id].state = "reserved" /\ db.adm[id].match = None
                     /\ db.adm[id].owner = p

Prepare(db, m, ids, p) ==
  [db EXCEPT !.mat[m] = [state |-> "prepared", owner |-> p],
             !.adm = [id \in AdmissionIds |->
                        IF id \in ids THEN [@[id] EXCEPT !.match = m] ELSE @[id]]]

\* checkValueFence passes.
Fenced(db, m, p, state) == db.mat[m].owner = p /\ db.mat[m].state = state

\* Start rechecks access and quota on its own day, which may not be the day of
\* the reservation, and consumes the allowance of every free seat.
MayStart(db, m, p, kinds, day) ==
  /\ Fenced(db, m, p, "prepared")
  /\ \A id \in Seated(db, m) :
       /\ db.adm[id].state = "reserved"
       /\ kinds[db.adm[id].account] = "free" => QuotaLeft(db, db.adm[id].account, day, id)

\* Mutant: the allowance is consumed on the day of the reservation.
Start_CountsReservedDay(db, m, kinds, day) ==
  [db EXCEPT
     !.mat[m].state = "started",
     !.adm = [id \in AdmissionIds |->
                IF id \in Seated(db, m)
                  THEN [db.adm[id] EXCEPT !.state = "started", !.day = day,
                                          !.kind = kinds[db.adm[id].account]]
                  ELSE db.adm[id]],
     !.count = [a \in Accounts |-> [d \in Days |->
                  @[a][d] + Cardinality({id \in Seated(db, m) :
                              /\ db.adm[id].account = a /\ kinds[a] = "free"
                              /\ d = db.adm[id].day})]]]

Start(db, m, kinds, day) ==
  [db EXCEPT
     !.mat[m].state = "started",
     !.adm = [id \in AdmissionIds |->
                IF id \in Seated(db, m)
                  THEN [db.adm[id] EXCEPT !.state = "started", !.day = day,
                                          !.kind = kinds[db.adm[id].account]]
                  ELSE db.adm[id]],
     !.count = [a \in Accounts |-> [d \in Days |->
                  @[a][d] + Cardinality({id \in Seated(db, m) :
                              db.adm[id].account = a /\ kinds[a] = "free" /\ d = day})]]]

-----------------------------------------------------------------------------
\* Every admission of the match moves to one closing state.
Closed(adm, m, state) ==
  [id \in AdmissionIds |->
     IF adm[id].match = m THEN [adm[id] EXCEPT !.state = state] ELSE adm[id]]

\* cancelPreparedTx; a match it already cancelled is answered nil.
MayCancelPrepared(db, m, p) ==
  /\ Fenced(db, m, p, "prepared")
  /\ \A id \in Seated(db, m) : db.adm[id].state = "reserved"

CancelPrepared(db, m) ==
  [db EXCEPT !.mat[m].state = "cancelled", !.adm = Closed(@, m, "released")]

\* The free seats whose allowance of day d account a gets back.
Consumed(db, m, a, d) ==
  {id \in Seated(db, m) : /\ db.adm[id].account = a
                          /\ db.adm[id].kind = "free" /\ db.adm[id].day = d}

\* interruptTx; a finished or already interrupted match is answered nil.  Each
\* free seat gives its allowance back once, and the transaction fails with
\* "admission compensation missing consumed count" when there is none.
MayInterrupt(db, m, p) ==
  /\ Fenced(db, m, p, "started")
  /\ \A id \in Seated(db, m) : db.adm[id].state = "started"
  /\ \A a \in Accounts, d \in Days : Cardinality(Consumed(db, m, a, d)) <= db.count[a][d]

Interrupt(db, m) ==
  [db EXCEPT
     !.mat[m].state = "interrupted", !.adm = Closed(@, m, "compensated"),
     !.count = [a \in Accounts |-> [d \in Days |->
                  @[a][d] - Cardinality(Consumed(db, m, a, d))]]]

\* Finish; a match with the same recorded outcome is answered nil.
MayFinish(db, m, p) == Fenced(db, m, p, "started")

Finish(db, m) ==
  [db EXCEPT
     !.mat[m].state = "completed",
     !.adm = [id \in AdmissionIds |->
                IF @[id].match = m /\ @[id].state = "started"
                  THEN [@[id] EXCEPT !.state = "released"] ELSE @[id]]]
=============================================================================
