-------------------------- MODULE TextOwnerProofs --------------------------
(***************************************************************************)
(* The ownership protocol is safe for any number of processes, accounts,   *)
(* rows and connections.  First come the row lemmas: what each transaction *)
(* of TextAdmissions preserves, whoever runs it.  The protocol's own       *)
(* argument then needs only that a commit opens no work of anyone but the  *)
(* committing process, and that this process is the current owner.         *)
(***************************************************************************)
EXTENDS TextOwner, FiniteSetTheorems, TLAPS

\* An admission linked to a match has that match's owner and follows its state;
\* nothing is linked to a match that does not exist.
Linked(d) ==
  \A id \in AdmissionIds : d.adm[id].match # None =>
    LET m == d.mat[d.adm[id].match] IN
    /\ m.state # "absent"
    /\ d.adm[id].owner = m.owner
    /\ d.adm[id].state = CASE m.state = "prepared" -> "reserved"
                           [] m.state = "started" -> "started"
                           [] m.state = "interrupted" -> "compensated"
                           [] OTHER -> "released"

\* Two open admissions of one account are the same one.
Single(d) ==
  \A i, j \in AdmissionIds :
    d.adm[i].state \in Open /\ d.adm[j].state \in Open /\ d.adm[i].account = d.adm[j].account
      => i = j

\* A row that exists has an account.
Named(d) == \A id \in AdmissionIds : d.adm[id].state # "absent" => d.adm[id].account \in Accounts

OpenMatch(d, m) == d.mat[m].state \in {"prepared", "started"}
Waiting(d, id) == d.adm[id].state = "reserved" /\ d.adm[id].match = None

\* All work open in e was open in d, or is new work of p.
OnlyOpens(p, d, e) ==
  /\ \A m \in MatchIds : OpenMatch(e, m) =>
       \/ e.mat[m].owner = p
       \/ (OpenMatch(d, m) /\ d.mat[m].owner = e.mat[m].owner)
  /\ \A id \in AdmissionIds : Waiting(e, id) =>
       \/ e.adm[id].owner = p
       \/ (Waiting(d, id) /\ d.adm[id].owner = e.adm[id].owner)

Sound(d) == d \in Store /\ Linked(d) /\ Single(d) /\ Named(d)
Rows(p, d, e) == Sound(e) /\ OnlyOpens(p, d, e)

\* What the assumption on the constants says of the identifiers.
LEMMA Facts ==
  /\ IsFiniteSet(AdmissionIds)
  /\ None \notin Accounts /\ None \notin MatchIds /\ None \notin Owners
BY AdmissionsAssumption

\* A store without rows is sound.
LEMMA EmptySound == Sound(EmptyStore)
BY Facts DEF Sound, Store, EmptyStore, Linked, Single, Named, NoAdmission, NoMatch, Admission, Match,
   OwnerOrNone, Kinds, Open

-----------------------------------------------------------------------------
\* The fields of updated rows and stores.
AdmissionStates == {"absent", "reserved", "started", "released", "compensated"}
MatchStates == {"absent", "prepared", "started", "cancelled", "interrupted", "completed"}

\* An admission that changes its state keeps everything else.
LEMMA AdmissionMoves ==
  ASSUME NEW r \in Admission, NEW s \in AdmissionStates
  PROVE  LET u == [r EXCEPT !.state = s] IN
         /\ u \in Admission
         /\ u.state = s /\ u.match = r.match /\ u.owner = r.owner /\ u.account = r.account
BY DEF Admission, AdmissionStates

\* A match row that changes its state keeps its owner.
LEMMA MatchMoves ==
  ASSUME NEW r \in Match, NEW s \in MatchStates
  PROVE  LET u == [r EXCEPT !.state = s] IN
         u \in Match /\ u.state = s /\ u.owner = r.owner
BY DEF Match, MatchStates

\* The tables of a store.
LEMMA StoreFields ==
  ASSUME NEW d \in Store
  PROVE  /\ d.adm \in [AdmissionIds -> Admission] /\ d.mat \in [MatchIds -> Match]
         /\ d.count \in [Accounts -> [Days -> Nat]]
BY DEF Store

\* A store with other admissions is a store with the same matches.
LEMMA SetAdmissions ==
  ASSUME NEW d \in Store, NEW A \in [AdmissionIds -> Admission]
  PROVE  LET e == [d EXCEPT !.adm = A] IN e \in Store /\ e.adm = A /\ e.mat = d.mat
BY DEF Store

-----------------------------------------------------------------------------
\* What every transaction preserves.
LEMMA ReserveRows ==
  ASSUME NEW d, Sound(d), NEW id \in AdmissionIds, NEW a \in Accounts, NEW p \in Owners,
         NEW kind \in Kinds, NEW day \in Days, MayReserve(d, id, a, kind, day)
  PROVE  Rows(p, d, Reserve(d, id, a, p, kind, day))
<1> DEFINE e == Reserve(d, id, a, p, kind, day)
           new == [state |-> "reserved", account |-> a, owner |-> p,
                   match |-> None, kind |-> kind, day |-> day]
<1>1. /\ d \in Store /\ Linked(d) /\ Single(d) /\ Named(d)
      /\ d.adm[id].state = "absent"
      /\ \A i \in AdmissionIds : d.adm[i].account = a => d.adm[i].state \notin Open
  BY DEF Sound, MayReserve, OpenOf
<1>2. [d.adm EXCEPT ![id] = new] \in [AdmissionIds -> Admission]
  <2>1. new \in Admission BY DEF Admission, OwnerOrNone
  <2> QED BY <1>1, <2>1, StoreFields
<1>3. e = [d EXCEPT !.adm = [d.adm EXCEPT ![id] = new]] BY <1>1 DEF Reserve, Store
<1>4. e \in Store /\ e.mat = d.mat /\ e.adm = [d.adm EXCEPT ![id] = new]
  <2> DEFINE A == [d.adm EXCEPT ![id] = new]
  <2>1. A \in [AdmissionIds -> Admission] /\ e = [d EXCEPT !.adm = A] BY <1>2, <1>3
  <2> HIDE DEF A, e
  <2>2. e \in Store /\ e.mat = d.mat /\ e.adm = A BY <1>1, <2>1, SetAdmissions
  <2> QED BY <2>2 DEF A
<1>5. /\ e.adm[id].state = "reserved" /\ e.adm[id].match = None
      /\ e.adm[id].owner = p /\ e.adm[id].account = a
      /\ \A i \in AdmissionIds : i # id => e.adm[i] = d.adm[i]
  <2>1. e.adm[id] = new /\ \A i \in AdmissionIds : i # id => e.adm[i] = d.adm[i]
    <3> HIDE DEF new
    <3> QED BY <1>1, <1>4, StoreFields DEF e
  <2>2. /\ new.state = "reserved" /\ new.match = None /\ new.owner = p /\ new.account = a
    OBVIOUS
  <2> QED BY <2>1, <2>2
<1> HIDE DEF e
<1>6. Linked(e) BY <1>1, <1>4, <1>5 DEF Linked
<1>7. Single(e) BY <1>1, <1>5 DEF Single, Open
<1>8. OnlyOpens(p, d, e) BY <1>4, <1>5 DEF OnlyOpens, OpenMatch, Waiting
<1>9. Named(e) BY <1>1, <1>5 DEF Named
<1> QED BY <1>4, <1>6, <1>7, <1>8, <1>9 DEF Rows, Sound, e

\* CancelReservation closes one row and opens none.
LEMMA CancelReservationRows ==
  ASSUME NEW d, Sound(d), NEW id \in AdmissionIds, NEW q, NEW p \in Owners,
         MayCancelReservation(d, id, q)
  PROVE  Rows(p, d, CancelReservation(d, id))
<1> DEFINE e == CancelReservation(d, id)
           row == [d.adm[id] EXCEPT !.state = "released"]
<1>1. /\ d \in Store /\ Linked(d) /\ Single(d) /\ Named(d)
      /\ d.adm[id].match = None /\ d.adm[id].state = "reserved"
  BY DEF Sound, MayCancelReservation
<1>2. row \in Admission /\ row.state = "released" /\ row.match = None
      /\ row.account = d.adm[id].account
  <2>1. d.adm[id] \in Admission BY <1>1, StoreFields
  <2> QED BY <1>1, <2>1, AdmissionMoves DEF AdmissionStates
<1>3. e = [d EXCEPT !.adm = [d.adm EXCEPT ![id] = row]]
  BY <1>1 DEF CancelReservation, Store
<1>4. e \in Store /\ e.mat = d.mat /\ e.adm = [d.adm EXCEPT ![id] = row]
  BY <1>1, <1>2, <1>3, StoreFields, SetAdmissions
<1>5. /\ e.adm[id].state = "released" /\ e.adm[id].match = None
      /\ e.adm[id].account = d.adm[id].account
      /\ \A i \in AdmissionIds : i # id => e.adm[i] = d.adm[i]
  BY <1>1, <1>2, <1>4, StoreFields
<1> HIDE DEF e
<1>6. Linked(e) BY <1>1, <1>4, <1>5 DEF Linked
<1>7. Single(e) BY <1>1, <1>5 DEF Single, Open
<1>8. OnlyOpens(p, d, e) BY <1>4, <1>5 DEF OnlyOpens, OpenMatch, Waiting
<1>9. Named(e) BY <1>1, <1>5 DEF Named
<1> QED BY <1>4, <1>6, <1>7, <1>8, <1>9 DEF Rows, Sound, e

\* Prepare opens a match row of its own process and links reservations to it.
LEMMA PrepareRows ==
  ASSUME NEW d, Sound(d), NEW m \in MatchIds, NEW ids \in SUBSET AdmissionIds,
         NEW p \in Owners, MayPrepare(d, m, ids, p)
  PROVE  Rows(p, d, Prepare(d, m, ids, p))
<1> DEFINE e == Prepare(d, m, ids, p)
           A == [id \in AdmissionIds |->
                   IF id \in ids THEN [d.adm[id] EXCEPT !.match = m] ELSE d.adm[id]]
           M == [d.mat EXCEPT ![m] = [state |-> "prepared", owner |-> p]]
<1>1. /\ d \in Store /\ Linked(d) /\ Single(d) /\ Named(d) /\ d.mat[m].state = "absent"
      /\ \A id \in ids : d.adm[id].state = "reserved" /\ d.adm[id].owner = p
  BY DEF Sound, MayPrepare
<1>2. /\ M \in [MatchIds -> Match]
      /\ \A n \in MatchIds : n # m => M[n] = d.mat[n]
      /\ M[m].state = "prepared" /\ M[m].owner = p
  <2>1. [state |-> "prepared", owner |-> p] \in Match BY DEF Match, OwnerOrNone
  <2> QED BY <1>1, <2>1, StoreFields
<1>3. \A id \in ids : LET r == [d.adm[id] EXCEPT !.match = m] IN
        /\ r \in Admission /\ r.match = m /\ r.state = d.adm[id].state
        /\ r.owner = d.adm[id].owner /\ r.account = d.adm[id].account
  BY <1>1, StoreFields DEF Admission
<1>4. A \in [AdmissionIds -> Admission]
  <2>1. \A id \in AdmissionIds : d.adm[id] \in Admission BY <1>1, StoreFields
  <2>2. \A id \in AdmissionIds : A[id] \in Admission BY <1>3, <2>1
  <2> QED BY <2>2
<1>5. e = [d EXCEPT !.mat = M, !.adm = A] BY <1>1 DEF Prepare, Store
<1>6. e \in Store /\ e.mat = M /\ e.adm = A
  <2> HIDE DEF e, A, M
  <2>1. M \in [MatchIds -> Match] /\ d \in Store BY <1>1, <1>2
  <2> QED BY <2>1, <1>4, <1>5 DEF Store
<1>7. \A id \in AdmissionIds :
        /\ e.adm[id].state = d.adm[id].state /\ e.adm[id].owner = d.adm[id].owner
        /\ e.adm[id].account = d.adm[id].account
        /\ e.adm[id].match = IF id \in ids THEN m ELSE d.adm[id].match
  BY <1>3, <1>6
<1> HIDE DEF e, M, A
<1>8. Linked(e)
  <2>1. SUFFICES ASSUME NEW id \in AdmissionIds, e.adm[id].match # None
                 PROVE  LET n == e.mat[e.adm[id].match] IN
                        /\ n.state # "absent" /\ e.adm[id].owner = n.owner
                        /\ e.adm[id].state = CASE n.state = "prepared" -> "reserved"
                                               [] n.state = "started" -> "started"
                                               [] n.state = "interrupted" -> "compensated"
                                               [] OTHER -> "released"
    BY DEF Linked
  <2>2. CASE id \in ids BY <1>1, <1>2, <1>6, <1>7, <2>2
  <2>3. CASE id \notin ids
    <3>1. e.adm[id].match = d.adm[id].match /\ d.adm[id].match # m
      BY <1>1, <1>7, <2>1, <2>3 DEF Linked
    <3>2. d.adm[id].match \in MatchIds BY <1>1, <2>1, <3>1, StoreFields DEF Admission
    <3>3. e.mat[e.adm[id].match] = d.mat[d.adm[id].match] BY <1>2, <1>6, <3>1, <3>2
    <3> QED BY <1>1, <1>7, <2>1, <3>1, <3>3 DEF Linked
  <2> QED BY <2>2, <2>3
<1>9. Single(e) BY <1>1, <1>7 DEF Single
<1>10. OnlyOpens(p, d, e)
  BY <1>1, <1>2, <1>6, <1>7 DEF OnlyOpens, OpenMatch, Waiting
<1>11. Named(e) BY <1>1, <1>7 DEF Named
<1> QED BY <1>6, <1>8, <1>9, <1>10, <1>11 DEF Rows, Sound, e

\* The four transactions on an existing match move it to state t and all its
\* admissions to the state that goes with t.
Goes(t) == CASE t = "prepared" -> "reserved"
             [] t = "started" -> "started"
             [] t = "interrupted" -> "compensated"
             [] OTHER -> "released"

\* A match that ends, or starts, takes its admissions with it and opens nothing.
LEMMA MovesTogether ==
  ASSUME NEW d, Sound(d), NEW e, e \in Store, NEW m \in MatchIds, NEW p \in Owners,
         NEW t \in MatchStates, t \notin {"absent", "prepared"}, OpenMatch(d, m),
         e.mat[m].state = t, e.mat[m].owner = d.mat[m].owner,
         \A n \in MatchIds : n # m => e.mat[n] = d.mat[n],
         \A id \in AdmissionIds :
           /\ e.adm[id].match = d.adm[id].match /\ e.adm[id].owner = d.adm[id].owner
           /\ e.adm[id].account = d.adm[id].account
           /\ e.adm[id].state = IF d.adm[id].match = m THEN Goes(t) ELSE d.adm[id].state
  PROVE  Rows(p, d, e)
<1>1. d \in Store /\ Linked(d) /\ Single(d) /\ Named(d) BY DEF Sound
<1>2. \A id \in AdmissionIds : d.adm[id].match \in MatchIds \cup {None}
  BY <1>1, StoreFields DEF Admission
<1>3. Linked(e)
  <2>1. SUFFICES ASSUME NEW id \in AdmissionIds, e.adm[id].match # None
                 PROVE  LET n == e.mat[e.adm[id].match] IN
                        /\ n.state # "absent" /\ e.adm[id].owner = n.owner
                        /\ e.adm[id].state = Goes(n.state)
    BY DEF Linked, Goes
  <2>2. /\ d.mat[d.adm[id].match].state # "absent"
        /\ d.adm[id].owner = d.mat[d.adm[id].match].owner
        /\ d.adm[id].state = Goes(d.mat[d.adm[id].match].state)
    BY <1>1, <2>1 DEF Linked, Goes
  <2>3. CASE d.adm[id].match = m BY <2>1, <2>2, <2>3
  <2>4. CASE d.adm[id].match # m
    <3>1. e.mat[e.adm[id].match] = d.mat[d.adm[id].match] BY <1>2, <2>1, <2>4
    <3> QED BY <2>2, <2>4, <3>1
  <2> QED BY <2>3, <2>4
<1>4. \A id \in AdmissionIds : e.adm[id].state \in Open => d.adm[id].state \in Open
  <2>1. SUFFICES ASSUME NEW id \in AdmissionIds, d.adm[id].match = m, e.adm[id].state \in Open
                 PROVE  d.adm[id].state \in Open
    OBVIOUS
  <2>2. m # None BY Facts
  <2> QED BY <1>1, <2>1, <2>2 DEF Linked, OpenMatch, Open
<1>5. Single(e) BY <1>1, <1>4 DEF Single
<1>6. OnlyOpens(p, d, e)
  <2>1. \A id \in AdmissionIds : Waiting(e, id) =>
          Waiting(d, id) /\ d.adm[id].owner = e.adm[id].owner
    BY Facts DEF Waiting
  <2>2. \A n \in MatchIds : OpenMatch(e, n) =>
          OpenMatch(d, n) /\ d.mat[n].owner = e.mat[n].owner
    BY DEF OpenMatch
  <2> QED BY <2>1, <2>2 DEF OnlyOpens
<1>7. Named(e)
  <2>1. \A id \in AdmissionIds : d.adm[id].match = m => d.adm[id].state # "absent"
    BY <1>1, Facts DEF Linked, OpenMatch
  <2> QED BY <1>1, <2>1 DEF Named
<1> QED BY <1>3, <1>5, <1>6, <1>7 DEF Rows, Sound

\* The admissions of a match can be counted.
LEMMA SeatCount ==
  ASSUME NEW S \in SUBSET AdmissionIds PROVE Cardinality(S) \in Nat
BY Facts, FS_Subset, FS_CardinalityType

\* The match row of such a transaction.
LEMMA MatchRow ==
  ASSUME NEW d \in Store, NEW m \in MatchIds, NEW t \in MatchStates
  PROVE  LET M == [d.mat EXCEPT ![m] = [d.mat[m] EXCEPT !.state = t]] IN
         /\ M \in [MatchIds -> Match] /\ M[m].state = t /\ M[m].owner = d.mat[m].owner
         /\ \A n \in MatchIds : n # m => M[n] = d.mat[n]
<1>1. d.mat \in [MatchIds -> Match] BY StoreFields
<1>2. d.mat[m] \in Match BY <1>1
<1>3. LET u == [d.mat[m] EXCEPT !.state = t] IN
      u \in Match /\ u.state = t /\ u.owner = d.mat[m].owner
  BY <1>2, MatchMoves
<1> QED BY <1>1, <1>3

\* Its admission rows, when only the state changes.
LEMMA ClosedRows ==
  ASSUME NEW d \in Store, NEW m \in MatchIds, NEW s \in AdmissionStates
  PROVE  LET A == Closed(d.adm, m, s) IN
         /\ A \in [AdmissionIds -> Admission]
         /\ \A id \in AdmissionIds :
              /\ A[id].match = d.adm[id].match /\ A[id].owner = d.adm[id].owner
              /\ A[id].account = d.adm[id].account
              /\ A[id].state = IF d.adm[id].match = m THEN s ELSE d.adm[id].state
<1>1. \A id \in AdmissionIds : d.adm[id] \in Admission BY StoreFields
<1>2. \A id \in AdmissionIds : LET u == [d.adm[id] EXCEPT !.state = s] IN
         /\ u \in Admission
         /\ u.state = s /\ u.match = d.adm[id].match /\ u.owner = d.adm[id].owner
         /\ u.account = d.adm[id].account
  BY <1>1, AdmissionMoves
<1>3. \A id \in AdmissionIds :
        Closed(d.adm, m, s)[id] = IF d.adm[id].match = m THEN [d.adm[id] EXCEPT !.state = s]
                                  ELSE d.adm[id]
  BY DEF Closed
<1>4. \A id \in AdmissionIds : Closed(d.adm, m, s)[id] \in Admission BY <1>1, <1>2, <1>3
<1>5. Closed(d.adm, m, s) \in [AdmissionIds -> Admission] BY <1>4 DEF Closed
<1> QED BY <1>2, <1>3, <1>5

\* CancelPrepared releases the admissions of the match it cancels.
LEMMA CancelPreparedRows ==
  ASSUME NEW d, Sound(d), NEW m \in MatchIds, NEW q, NEW p \in Owners,
         MayCancelPrepared(d, m, q)
  PROVE  Rows(p, d, CancelPrepared(d, m))
<1> DEFINE e == CancelPrepared(d, m)
           A == Closed(d.adm, m, "released")
           M == [d.mat EXCEPT ![m] = [d.mat[m] EXCEPT !.state = "cancelled"]]
<1>1. d \in Store /\ OpenMatch(d, m)
  BY DEF Sound, MayCancelPrepared, Fenced, OpenMatch
<1>2. e = [d EXCEPT !.mat = M, !.adm = A] BY <1>1 DEF CancelPrepared, Store
<1>3. /\ M \in [MatchIds -> Match] /\ M[m].state = "cancelled" /\ M[m].owner = d.mat[m].owner
      /\ \A n \in MatchIds : n # m => M[n] = d.mat[n]
  BY <1>1, MatchRow DEF MatchStates
<1>4. /\ A \in [AdmissionIds -> Admission]
      /\ \A id \in AdmissionIds :
           /\ A[id].match = d.adm[id].match /\ A[id].owner = d.adm[id].owner
           /\ A[id].account = d.adm[id].account
           /\ A[id].state = IF d.adm[id].match = m THEN "released" ELSE d.adm[id].state
  BY <1>1, ClosedRows DEF AdmissionStates
<1> HIDE DEF e, A, M
<1>5. M \in [MatchIds -> Match] /\ A \in [AdmissionIds -> Admission] BY <1>3, <1>4
<1>6. e \in Store /\ e.mat = M /\ e.adm = A BY <1>1, <1>2, <1>5 DEF Store
<1>7. Goes("cancelled") = "released" /\ "cancelled" \in MatchStates
  BY DEF Goes, MatchStates
<1>8. Rows(p, d, e) BY <1>1, <1>3, <1>4, <1>6, <1>7, MovesTogether
<1> QED BY <1>8 DEF e

\* Interrupt compensates the admissions of the match it ends.
LEMMA InterruptRows ==
  ASSUME NEW d, Sound(d), NEW m \in MatchIds, NEW q, NEW p \in Owners, MayInterrupt(d, m, q)
  PROVE  Rows(p, d, Interrupt(d, m))
<1> DEFINE e == Interrupt(d, m)
           A == Closed(d.adm, m, "compensated")
           M == [d.mat EXCEPT ![m] = [d.mat[m] EXCEPT !.state = "interrupted"]]
           C == [a \in Accounts |-> [x \in Days |->
                   d.count[a][x] - Cardinality(Consumed(d, m, a, x))]]
<1>1. d \in Store /\ OpenMatch(d, m)
  BY DEF Sound, MayInterrupt, Fenced, OpenMatch
<1>2. e = [d EXCEPT !.mat = M, !.adm = A, !.count = C] BY <1>1 DEF Interrupt, Store
<1>3. /\ M \in [MatchIds -> Match] /\ M[m].state = "interrupted" /\ M[m].owner = d.mat[m].owner
      /\ \A n \in MatchIds : n # m => M[n] = d.mat[n]
  BY <1>1, MatchRow DEF MatchStates
<1>4. /\ A \in [AdmissionIds -> Admission]
      /\ \A id \in AdmissionIds :
           /\ A[id].match = d.adm[id].match /\ A[id].owner = d.adm[id].owner
           /\ A[id].account = d.adm[id].account
           /\ A[id].state = IF d.adm[id].match = m THEN "compensated" ELSE d.adm[id].state
  BY <1>1, ClosedRows DEF AdmissionStates
<1>5. C \in [Accounts -> [Days -> Nat]]
  <2>1. SUFFICES ASSUME NEW a \in Accounts, NEW x \in Days
                 PROVE  d.count[a][x] - Cardinality(Consumed(d, m, a, x)) \in Nat
    OBVIOUS
  <2>2. Consumed(d, m, a, x) \in SUBSET AdmissionIds BY DEF Consumed, Seated
  <2>3. Cardinality(Consumed(d, m, a, x)) \in Nat BY <2>2, SeatCount
  <2>4. Cardinality(Consumed(d, m, a, x)) <= d.count[a][x] BY DEF MayInterrupt
  <2>5. d.count[a][x] \in Nat BY <1>1, StoreFields
  <2> QED BY <2>3, <2>4, <2>5
<1> HIDE DEF e, A, M, C
<1>6. M \in [MatchIds -> Match] /\ A \in [AdmissionIds -> Admission] BY <1>3, <1>4
<1>7. e \in Store /\ e.mat = M /\ e.adm = A BY <1>1, <1>2, <1>5, <1>6 DEF Store
<1>8. Goes("interrupted") = "compensated" /\ "interrupted" \in MatchStates
  BY DEF Goes, MatchStates
<1>9. Rows(p, d, e) BY <1>1, <1>3, <1>4, <1>7, <1>8, MovesTogether
<1> QED BY <1>9 DEF e

\* Finish releases the admissions of the match it completes.
LEMMA FinishRows ==
  ASSUME NEW d, Sound(d), NEW m \in MatchIds, NEW p \in Owners, MayFinish(d, m, p)
  PROVE  Rows(p, d, Finish(d, m))
<1> DEFINE e == Finish(d, m)
           A == [id \in AdmissionIds |->
                   IF d.adm[id].match = m /\ d.adm[id].state = "started"
                     THEN [d.adm[id] EXCEPT !.state = "released"] ELSE d.adm[id]]
           M == [d.mat EXCEPT ![m] = [d.mat[m] EXCEPT !.state = "completed"]]
<1>1. d \in Store /\ Linked(d) /\ OpenMatch(d, m) /\ d.mat[m].state = "started"
  BY DEF Sound, MayFinish, Fenced, OpenMatch
<1>2. e = [d EXCEPT !.mat = M, !.adm = A] BY <1>1 DEF Finish, Store
<1>3. /\ M \in [MatchIds -> Match] /\ M[m].state = "completed" /\ M[m].owner = d.mat[m].owner
      /\ \A n \in MatchIds : n # m => M[n] = d.mat[n]
  BY <1>1, MatchRow DEF MatchStates
<1>4. A = Closed(d.adm, m, "released")
  <2>1. \A id \in AdmissionIds : d.adm[id].match = m => d.adm[id].state = "started"
    BY <1>1, Facts DEF Linked
  <2> QED BY <2>1 DEF Closed
<1>5. /\ A \in [AdmissionIds -> Admission]
      /\ \A id \in AdmissionIds :
           /\ A[id].match = d.adm[id].match /\ A[id].owner = d.adm[id].owner
           /\ A[id].account = d.adm[id].account
           /\ A[id].state = IF d.adm[id].match = m THEN "released" ELSE d.adm[id].state
  <2> HIDE DEF A
  <2> QED BY <1>1, <1>4, ClosedRows DEF AdmissionStates
<1> HIDE DEF e, A, M
<1>6. M \in [MatchIds -> Match] /\ A \in [AdmissionIds -> Admission] BY <1>3, <1>5
<1>7. e \in Store /\ e.mat = M /\ e.adm = A BY <1>1, <1>2, <1>6 DEF Store
<1>8. Goes("completed") = "released" /\ "completed" \in MatchStates
  BY DEF Goes, MatchStates
<1>9. Rows(p, d, e) BY <1>1, <1>3, <1>5, <1>7, <1>8, MovesTogether
<1> QED BY <1>9 DEF e

\* Start starts the admissions of the match it starts.
LEMMA StartRows ==
  ASSUME NEW d, Sound(d), NEW m \in MatchIds, NEW p \in Owners,
         NEW kinds \in [Accounts -> Kinds], NEW day \in Days, MayStart(d, m, p, kinds, day)
  PROVE  Rows(p, d, Start(d, m, kinds, day))
<1> DEFINE e == Start(d, m, kinds, day)
           seat(id) == [d.adm[id] EXCEPT !.state = "started", !.day = day,
                                         !.kind = kinds[d.adm[id].account]]
           A == [id \in AdmissionIds |-> IF id \in Seated(d, m) THEN seat(id) ELSE d.adm[id]]
           M == [d.mat EXCEPT ![m] = [d.mat[m] EXCEPT !.state = "started"]]
           taken(a, x) == {id \in Seated(d, m) :
                             d.adm[id].account = a /\ kinds[a] = "free" /\ x = day}
           C == [a \in Accounts |-> [x \in Days |-> d.count[a][x] + Cardinality(taken(a, x))]]
<1>1. /\ d \in Store /\ OpenMatch(d, m)
      /\ \A id \in Seated(d, m) : d.adm[id].account \in Accounts
  BY DEF Sound, Named, MayStart, Fenced, OpenMatch, Seated
<1>2. e = [d EXCEPT !.mat = M, !.adm = A, !.count = C] BY <1>1 DEF Start, Store
<1>3. /\ M \in [MatchIds -> Match] /\ M[m].state = "started" /\ M[m].owner = d.mat[m].owner
      /\ \A n \in MatchIds : n # m => M[n] = d.mat[n]
  BY <1>1, MatchRow DEF MatchStates
<1>4. \A id \in Seated(d, m) :
        /\ seat(id) \in Admission /\ seat(id).state = "started"
        /\ seat(id).match = d.adm[id].match /\ seat(id).owner = d.adm[id].owner
        /\ seat(id).account = d.adm[id].account
  <2>1. SUFFICES ASSUME NEW id \in Seated(d, m)
                 PROVE  /\ seat(id) \in Admission /\ seat(id).state = "started"
                        /\ seat(id).match = d.adm[id].match /\ seat(id).owner = d.adm[id].owner
                        /\ seat(id).account = d.adm[id].account
    OBVIOUS
  <2>2. d.adm[id] \in Admission BY <1>1, StoreFields DEF Seated
  <2>3. kinds[d.adm[id].account] \in Kinds BY <1>1
  <2> QED BY <2>2, <2>3 DEF Admission
<1>5. /\ A \in [AdmissionIds -> Admission]
      /\ \A id \in AdmissionIds :
           /\ A[id].match = d.adm[id].match /\ A[id].owner = d.adm[id].owner
           /\ A[id].account = d.adm[id].account
           /\ A[id].state = IF d.adm[id].match = m THEN "started" ELSE d.adm[id].state
  <2> HIDE DEF seat
  <2>1. \A id \in AdmissionIds : d.adm[id] \in Admission BY <1>1, StoreFields
  <2>2. \A id \in AdmissionIds : id \in Seated(d, m) <=> d.adm[id].match = m BY DEF Seated
  <2>3. \A id \in AdmissionIds : A[id] \in Admission BY <1>4, <2>1
  <2>4. A \in [AdmissionIds -> Admission] BY <2>3
  <2> QED BY <1>4, <2>2, <2>4
<1>6. C \in [Accounts -> [Days -> Nat]]
  <2>1. SUFFICES ASSUME NEW a \in Accounts, NEW x \in Days
                 PROVE  d.count[a][x] + Cardinality(taken(a, x)) \in Nat
    OBVIOUS
  <2>2. taken(a, x) \in SUBSET AdmissionIds BY DEF Seated
  <2> HIDE DEF taken
  <2>3. Cardinality(taken(a, x)) \in Nat BY <2>2, SeatCount
  <2>4. d.count[a][x] \in Nat BY <1>1, StoreFields
  <2> QED BY <2>3, <2>4
<1> HIDE DEF e, A, M, C
<1>7. M \in [MatchIds -> Match] /\ A \in [AdmissionIds -> Admission] BY <1>3, <1>5
<1>8. e \in Store /\ e.mat = M /\ e.adm = A BY <1>1, <1>2, <1>6, <1>7 DEF Store
<1>9. Goes("started") = "started" /\ "started" \in MatchStates
  BY DEF Goes, MatchStates
<1>10. Rows(p, d, e) BY <1>1, <1>3, <1>5, <1>8, <1>9, MovesTogether
<1> QED BY <1>10 DEF e

-----------------------------------------------------------------------------
\* The ownership protocol.
Registry ==
  /\ lock \in OwnerOrNone /\ current \in OwnerOrNone
  /\ lost \subseteq Owners /\ recovered \subseteq lost /\ current \notin lost
  /\ local \in [Owners -> {"new", "acquiring", "recovering", "clean", "ready", "lost", "crashed"}]
  /\ \A p \in Owners : p \in lost \cup {current} => local[p] \notin {"new", "acquiring"}

\* Every open transaction belongs to the current owner.
Transactions ==
  /\ txn \in [Conns -> [by : OwnerOrNone, recovery : BOOLEAN]]
  /\ \A c \in Conns : ~Idle(c) => txn[c].by = current /\ txn[c].by \in Owners

\* Open work belongs to the current owner or to one that is lost, never to one
\* that is recovered, and to nobody else once the current owner is through.
Worker(p) ==
  /\ p \in Owners /\ p \in lost \cup {current} /\ p \notin recovered
  /\ \A q \in Owners : local[q] \in {"clean", "ready"} /\ current = q => p = q
Attributed ==
  /\ \A m \in MatchIds : OpenMatch(db, m) => Worker(db.mat[m].owner)
  /\ \A id \in AdmissionIds : Waiting(db, id) => Worker(db.adm[id].owner)

OwnerInv == Sound(db) /\ Registry /\ Transactions /\ Attributed

\* A database without rows, of which nobody is the owner, satisfies the invariant.
LEMMA OwnerInit == Init => OwnerInv
<1> SUFFICES ASSUME Init PROVE OwnerInv OBVIOUS
<1>1. Sound(db) BY EmptySound DEF Init
<1>2. Registry BY Facts DEF Init, Registry, OwnerOrNone
<1>3. Transactions BY DEF Init, Transactions, NoTxn, Idle, OwnerOrNone
<1>4. Attributed
  BY DEF Init, Attributed, EmptyStore, OpenMatch, Waiting, NoMatch, NoAdmission
<1> QED BY <1>1, <1>2, <1>3, <1>4 DEF OwnerInv

\* A transaction that changes rows opens work of its own process only.
RowStep(c) == CommitWrite(c) \/ RecoverMatch(c) \/ RecoverReservation(c)

\* A transaction on rows commits on the connection of the current owner only and
\* leaves the owners' registry alone (checkOwner).
LEMMA RowStepRows ==
  ASSUME OwnerInv, NEW c \in Conns, RowStep(c)
  PROVE  /\ ~Idle(c) /\ Rows(current, db, db')
         /\ UNCHANGED ownerVars /\ txn' = [txn EXCEPT ![c] = NoTxn]
<1> DEFINE p == txn[c].by
<1>1. ~Idle(c)
  BY DEF RowStep, CommitWrite, CommitReserve, CommitCancelReservation, CommitPrepare, CommitStart,
     CommitCancelPrepared, CommitInterrupt, CommitFinish, RecoverMatch, RecoverReservation,
     Writing, Recovering
<1>2. p = current /\ p \in Owners /\ Sound(db) BY <1>1 DEF OwnerInv, Transactions
<1>3. SUFFICES \E rows : Rows(p, db, rows) /\ Commit(c, rows) BY <1>1, <1>2 DEF Commit
<1> HIDE DEF p
<1>4. CASE CommitReserve(c) BY <1>2, <1>4, ReserveRows DEF CommitReserve, p
<1>5. CASE CommitCancelReservation(c)
  BY <1>2, <1>5, CancelReservationRows DEF CommitCancelReservation, p
<1>6. CASE CommitPrepare(c) BY <1>2, <1>6, PrepareRows DEF CommitPrepare, p
<1>7. CASE CommitStart(c) BY <1>2, <1>7, StartRows DEF CommitStart, p
<1>8. CASE CommitCancelPrepared(c)
  BY <1>2, <1>8, CancelPreparedRows DEF CommitCancelPrepared, p
<1>9. CASE CommitInterrupt(c) BY <1>2, <1>9, InterruptRows DEF CommitInterrupt, p
<1>10. CASE CommitFinish(c) BY <1>2, <1>10, FinishRows DEF CommitFinish, p
<1>11. CASE RecoverMatch(c)
  <2>1. PICK m \in MatchIds :
          \/ MayInterrupt(db, m, db.mat[m].owner) /\ Commit(c, Interrupt(db, m))
          \/ MayCancelPrepared(db, m, db.mat[m].owner) /\ Commit(c, CancelPrepared(db, m))
    BY <1>11 DEF RecoverMatch, OpenMatches
  <2>2. CASE MayInterrupt(db, m, db.mat[m].owner) /\ Commit(c, Interrupt(db, m))
    BY <1>2, <2>2, InterruptRows
  <2>3. CASE MayCancelPrepared(db, m, db.mat[m].owner) /\ Commit(c, CancelPrepared(db, m))
    BY <1>2, <2>3, CancelPreparedRows
  <2> QED BY <2>1, <2>2, <2>3
<1>12. CASE RecoverReservation(c)
  <2>1. PICK id \in AdmissionIds :
          MayCancelReservation(db, id, db.adm[id].owner) /\ Commit(c, CancelReservation(db, id))
    BY <1>12 DEF RecoverReservation, OpenReservations
  <2> QED BY <1>2, <2>1, CancelReservationRows
<1> QED BY <1>4, <1>5, <1>6, <1>7, <1>8, <1>9, <1>10, <1>11, <1>12 DEF RowStep, CommitWrite

\* A transaction on rows keeps the invariant of ownership.
LEMMA RowStepInv ==
  ASSUME OwnerInv, NEW c \in Conns, RowStep(c) PROVE OwnerInv'
<1>1. /\ ~Idle(c) /\ Sound(db') /\ OnlyOpens(current, db, db')
      /\ UNCHANGED ownerVars /\ txn' = [txn EXCEPT ![c] = NoTxn]
  BY RowStepRows DEF Rows
<1>2. Sound(db)' BY <1>1 DEF Sound, Linked, Single, Named
<1>3. Registry' BY <1>1 DEF OwnerInv, Registry, ownerVars
<1>4. Transactions' BY <1>1 DEF OwnerInv, Transactions, NoTxn, Idle, ownerVars, OwnerOrNone
<1>5. Worker(current)
  BY <1>1 DEF OwnerInv, Transactions, Registry, Worker
<1>6. \A q : Worker(q) => Worker(q)' BY <1>1 DEF Worker, ownerVars
<1>7. Attributed'
  BY <1>1, <1>5, <1>6 DEF OwnerInv, Attributed, OnlyOpens, OpenMatch, Waiting
<1> QED BY <1>2, <1>3, <1>4, <1>7 DEF OwnerInv

\* Steps that leave the rows alone keep the attribution if no worker changes.
LEMMA SameRows ==
  ASSUME OwnerInv, UNCHANGED db, \A p : Worker(p) => Worker(p)'
  PROVE  Sound(db)' /\ Attributed'
BY DEF OwnerInv, Attributed, Sound, Linked, Single, Named, OpenMatch, Waiting

\* Every step of owners, their connections and recovery keeps the invariant.
LEMMA OwnerNext == OwnerInv /\ [Next]_vars => OwnerInv'
<1> SUFFICES ASSUME OwnerInv, [Next]_vars PROVE OwnerInv' OBVIOUS
<1>1. CASE UNCHANGED vars
  BY <1>1 DEF vars, ownerVars, OwnerInv, Sound, Linked, Single, Named, Registry, Transactions, Idle,
     Attributed, Worker, OpenMatch, Waiting
<1>2. ASSUME NEW p \in Owners, TryLock(p) PROVE OwnerInv'
  <2>1. Registry' BY <1>2 DEF OwnerInv, Registry, TryLock, OwnerOrNone
  <2>2. Transactions' BY <1>2 DEF OwnerInv, Transactions, TryLock, Idle
  <2>3. \A q : Worker(q) => Worker(q)' BY <1>2 DEF OwnerInv, Registry, TryLock, Worker
  <2> QED BY <1>2, <2>1, <2>2, <2>3, SameRows DEF OwnerInv, TryLock
<1>3. ASSUME NEW p \in Owners, Acquire(p) PROVE OwnerInv'
  <2>1. p \notin lost /\ p # current /\ current' = p /\ lost' = lost \cup ({current} \ {None})
    BY <1>3 DEF OwnerInv, Registry, Acquire
  <2>2. Registry' BY <1>3, <2>1 DEF OwnerInv, Registry, Acquire, OwnerOrNone
  <2>3. Transactions' BY <1>3 DEF OwnerInv, Transactions, Acquire, TableFree, Idle
  <2>4. local'[p] \notin {"clean", "ready"} BY <1>3 DEF OwnerInv, Registry, Acquire
  <2>5. \A q : Worker(q) => Worker(q)'
    BY <1>3, <2>1, <2>4, Facts DEF OwnerInv, Registry, Acquire, Worker
  <2> QED BY <1>3, <2>2, <2>3, <2>5, SameRows DEF OwnerInv, Acquire
<1>4. ASSUME SessionEnds PROVE OwnerInv'
  <2>1. Registry' BY <1>4 DEF OwnerInv, Registry, SessionEnds, OwnerOrNone
  <2>2. Transactions' BY <1>4 DEF OwnerInv, Transactions, SessionEnds, Idle
  <2>3. \A q : Worker(q) => Worker(q)' BY <1>4 DEF SessionEnds, Worker
  <2> QED BY <1>4, <2>1, <2>2, <2>3, SameRows DEF OwnerInv, SessionEnds
<1>5. ASSUME NEW p \in Owners, LoseAuthority(p) PROVE OwnerInv'
  <2>1. Registry' BY <1>5 DEF OwnerInv, Registry, LoseAuthority, OwnerOrNone
  <2>2. Transactions' BY <1>5 DEF OwnerInv, Transactions, LoseAuthority, Idle
  <2>3. \A q : Worker(q) => Worker(q)' BY <1>5 DEF OwnerInv, Registry, LoseAuthority, Worker
  <2> QED BY <1>5, <2>1, <2>2, <2>3, SameRows DEF OwnerInv, LoseAuthority
<1>6. ASSUME NEW p \in Owners, Crash(p) PROVE OwnerInv'
  <2>1. Registry' BY <1>6 DEF OwnerInv, Registry, Crash, OwnerOrNone
  <2>2. Transactions' BY <1>6 DEF OwnerInv, Transactions, Crash, Idle, NoTxn, OwnerOrNone
  <2>3. \A q : Worker(q) => Worker(q)' BY <1>6 DEF OwnerInv, Registry, Crash, Worker
  <2> QED BY <1>6, <2>1, <2>2, <2>3, SameRows DEF OwnerInv, Crash
<1>7. ASSUME NEW p \in Owners, BecomeReady(p) PROVE OwnerInv'
  <2>1. Registry' BY <1>7 DEF OwnerInv, Registry, BecomeReady
  <2>2. Transactions' BY <1>7 DEF OwnerInv, Transactions, BecomeReady, Idle
  <2>3. \A q : Worker(q) => Worker(q)' BY <1>7 DEF OwnerInv, Registry, BecomeReady, Worker
  <2> QED BY <1>7, <2>1, <2>2, <2>3, SameRows DEF OwnerInv, BecomeReady
<1>8. ASSUME NEW p \in Owners, NEW c \in Conns, Begin(p, c) PROVE OwnerInv'
  <2>1. Registry' BY <1>8 DEF OwnerInv, Registry, Begin, ownerVars
  <2>2. Transactions'
    <3>1. [by |-> p, recovery |-> local[p] = "recovering"] \in [by : OwnerOrNone, recovery : BOOLEAN]
      BY DEF OwnerOrNone
    <3> QED BY <1>8, <3>1 DEF OwnerInv, Transactions, Begin, Idle, NoTxn, Authority, ownerVars
  <2>3. \A q : Worker(q) => Worker(q)' BY <1>8 DEF Begin, Worker, ownerVars
  <2> QED BY <1>8, <2>1, <2>2, <2>3, SameRows DEF OwnerInv, Begin
<1>9. ASSUME NEW c \in Conns, Rollback(c) PROVE OwnerInv'
  <2>1. Registry' BY <1>9 DEF OwnerInv, Registry, Rollback, ownerVars
  <2>2. Transactions'
    BY <1>9 DEF OwnerInv, Transactions, Rollback, Idle, NoTxn, OwnerOrNone, ownerVars
  <2>3. \A q : Worker(q) => Worker(q)' BY <1>9 DEF Rollback, Worker, ownerVars
  <2> QED BY <1>9, <2>1, <2>2, <2>3, SameRows DEF OwnerInv, Rollback
<1>10. ASSUME NEW c \in Conns, RowStep(c) PROVE OwnerInv' BY <1>10, RowStepInv
<1>11. ASSUME NEW c \in Conns, RecoveryDone(c) PROVE OwnerInv'
  <2>1. Registry'
    BY <1>11 DEF OwnerInv, Registry, RecoveryDone, CleanOwners, Recovering, Transactions, OwnerOrNone
  <2>2. Transactions'
    BY <1>11 DEF OwnerInv, Transactions, RecoveryDone, Idle, NoTxn, OwnerOrNone
  <2>3. ASSUME NEW q, Worker(q), q \notin CleanOwners PROVE Worker(q)'
    <3>1. q \in Owners /\ q \in lost' \cup {current'} /\ q \notin recovered'
      BY <1>11, <2>3 DEF RecoveryDone, Worker
    <3>2. ASSUME NEW r \in Owners, local'[r] \in {"clean", "ready"}, current' = r PROVE q = r
      <4>1. CASE local[r] \in {"clean", "ready"}
        BY <1>11, <2>3, <3>2, <4>1 DEF RecoveryDone, Worker
      <4>2. CASE lost \subseteq recovered'
        BY <1>11, <3>1, <3>2, <4>2 DEF RecoveryDone
      <4> QED BY <1>11, <3>2, <4>1, <4>2 DEF OwnerInv, Registry, RecoveryDone
    <3> QED BY <3>1, <3>2 DEF Worker
  <2>4. /\ \A m \in MatchIds : OpenMatch(db, m) => db.mat[m].owner \notin CleanOwners
        /\ \A id \in AdmissionIds : Waiting(db, id) => db.adm[id].owner \notin CleanOwners
    BY DEF CleanOwners, OpenMatches, OpenReservations, OpenMatch, Waiting, MayCancelReservation
  <2>5. UNCHANGED db BY <1>11 DEF RecoveryDone
  <2>6. Attributed'
    <3>1. ASSUME NEW m \in MatchIds, OpenMatch(db, m)' PROVE Worker(db.mat[m].owner)'
      <4>1. OpenMatch(db, m) BY <2>5, <3>1 DEF OpenMatch
      <4>2. Worker(db.mat[m].owner) BY <4>1 DEF OwnerInv, Attributed
      <4> QED BY <2>3, <2>4, <2>5, <4>1, <4>2 DEF Worker
    <3>2. ASSUME NEW id \in AdmissionIds, Waiting(db, id)' PROVE Worker(db.adm[id].owner)'
      <4>1. Waiting(db, id) BY <2>5, <3>2 DEF Waiting
      <4>2. Worker(db.adm[id].owner) BY <4>1 DEF OwnerInv, Attributed
      <4> QED BY <2>3, <2>4, <2>5, <4>1, <4>2 DEF Worker
    <3> QED BY <3>1, <3>2 DEF Attributed
  <2>7. Sound(db)' BY <2>5 DEF OwnerInv, Sound, Linked, Single, Named
  <2> QED BY <2>1, <2>2, <2>6, <2>7 DEF OwnerInv
<1> QED BY <1>1, <1>2, <1>3, <1>4, <1>5, <1>6, <1>7, <1>8, <1>9, <1>10, <1>11
        DEF Next, RowStep, Recover

\* The inductive invariant of the ownership protocol.
THEOREM OwnerInvariant == Spec => []OwnerInv
BY OwnerInit, OwnerNext, PTL DEF Spec

\* The rows and the registry keep their types.
THEOREM OwnerTypeCorrect == Spec => []TypeOK
<1>1. OwnerInv => TypeOK
  BY DEF OwnerInv, Sound, Registry, Transactions, TypeOK
<1> QED BY <1>1, OwnerInvariant, PTL

\* For any number of processes: a transaction that passed ownerFence commits
\* only while its process is the current owner.
THEOREM OneWriterHolds == Spec => []OneWriter
<1>1. OwnerInv => OneWriter
  BY DEF OwnerInv, Registry, Transactions, OneWriter
<1> QED BY <1>1, OwnerInvariant, PTL

\* What recovery has closed for a lost owner stays closed.
THEOREM RecoveryIsFinal == Spec => []RecoveredIsClean
<1>1. OwnerInv => RecoveredIsClean
  BY DEF OwnerInv, Attributed, Worker, RecoveredIsClean, OpenMatches, OpenReservations,
     OpenMatch, Waiting, MayCancelReservation
<1> QED BY <1>1, OwnerInvariant, PTL

\* A ready owner has no predecessor with open matches or reservations.
THEOREM ReadyIsClean == Spec => []ReadyMeansClean
<1>1. OwnerInv => ReadyMeansClean
  BY DEF OwnerInv, Attributed, Worker, ReadyMeansClean, OpenMatches, OpenReservations,
     OpenMatch, Waiting, MayCancelReservation
<1> QED BY <1>1, OwnerInvariant, PTL

\* Admissions follow the match they are linked to, in every transaction.
THEOREM AdmissionsFollowMatch == Spec => []LinkedAdmissions
<1>1. OwnerInv => LinkedAdmissions
  BY DEF OwnerInv, Sound, Linked, LinkedAdmissions
<1> QED BY <1>1, OwnerInvariant, PTL

\* No account ever has two open admissions.
THEOREM AdmittedOnce == Spec => []OneAdmission
<1>1. OwnerInv => OneAdmission
  <2> SUFFICES ASSUME OwnerInv, NEW a \in Accounts PROVE Cardinality(OpenOf(db, a)) <= 1
    BY DEF OneAdmission
  <2>1. \A i, j \in OpenOf(db, a) : i = j BY DEF OwnerInv, Sound, Single, OpenOf
  <2>2. CASE OpenOf(db, a) = {} BY <2>2, FS_EmptySet
  <2>3. CASE OpenOf(db, a) # {}
    <3>1. PICK i : i \in OpenOf(db, a) BY <2>3
    <3>2. OpenOf(db, a) = {i} BY <2>1, <3>1
    <3> QED BY <3>2, FS_Singleton
  <2> QED BY <2>2, <2>3
<1> QED BY <1>1, OwnerInvariant, PTL
-----------------------------------------------------------------------------
\* The allowance.  Counted(d, id): this admission has consumed a free match.
Counted(d, id) ==
  /\ d.adm[id].kind = "free"
  /\ \/ d.adm[id].state = "started"
     \/ d.adm[id].match # None /\ d.mat[d.adm[id].match].state = "completed"
CountedOn(d, a, x) ==
  {id \in AdmissionIds : d.adm[id].account = a /\ d.adm[id].day = x /\ Counted(d, id)}
Quota(d) ==
  \A a \in Accounts, x \in Days :
    /\ d.count[a][x] = Cardinality(CountedOn(d, a, x))
    /\ d.count[a][x] <= FreeDailyQuickplayMatches

\* Nothing is counted in a store without rows.
LEMMA EmptyQuota == Quota(EmptyStore)
<1> SUFFICES ASSUME NEW a \in Accounts, NEW x \in Days
             PROVE  /\ EmptyStore.count[a][x] = Cardinality(CountedOn(EmptyStore, a, x))
                    /\ EmptyStore.count[a][x] <= FreeDailyQuickplayMatches
  BY DEF Quota
<1>1. CountedOn(EmptyStore, a, x) = {} BY DEF CountedOn, Counted, EmptyStore, NoAdmission
<1>2. EmptyStore.count[a][x] = 0 BY DEF EmptyStore
<1> QED BY <1>1, <1>2, FS_EmptySet, AdmissionsAssumption

\* A transaction that touches no count and no admission that consumes.
LEMMA SameQuota ==
  ASSUME NEW d, NEW e, Quota(d), e.count = d.count,
         \A id \in AdmissionIds :
           \/ ~Counted(d, id) /\ ~Counted(e, id)
           \/ /\ e.adm[id].account = d.adm[id].account /\ e.adm[id].day = d.adm[id].day
              /\ Counted(d, id) <=> Counted(e, id)
  PROVE  Quota(e)
<1>1. \A a \in Accounts, x \in Days : CountedOn(e, a, x) = CountedOn(d, a, x) BY DEF CountedOn
<1> QED BY <1>1 DEF Quota

\* A reservation consumes nothing, and neither does its release.
LEMMA ReserveQuota ==
  ASSUME NEW d, Sound(d), Quota(d), NEW id \in AdmissionIds, NEW a \in Accounts, NEW p \in Owners,
         NEW kind \in Kinds, NEW day \in Days, MayReserve(d, id, a, kind, day)
  PROVE  Quota(Reserve(d, id, a, p, kind, day))
<1> DEFINE e == Reserve(d, id, a, p, kind, day)
           new == [state |-> "reserved", account |-> a, owner |-> p,
                   match |-> None, kind |-> kind, day |-> day]
<1>1. d \in Store /\ Linked(d) /\ d.adm[id].state = "absent" BY DEF Sound, MayReserve
<1>2. d.adm[id].match = None BY <1>1 DEF Linked
<1>3. e.adm = [d.adm EXCEPT ![id] = new] /\ e.mat = d.mat /\ e.count = d.count
  BY <1>1 DEF Reserve, Store
<1>4. e.adm[id] = new /\ \A i \in AdmissionIds : i # id => e.adm[i] = d.adm[i]
  BY <1>1, <1>3, StoreFields
<1>5. new.state = "reserved" /\ new.match = None OBVIOUS
<1> HIDE DEF e, new
<1>6. ~Counted(d, id) /\ ~Counted(e, id) BY <1>1, <1>2, <1>4, <1>5 DEF Counted
<1>7. \A i \in AdmissionIds : i # id => (Counted(d, i) <=> Counted(e, i)) BY <1>3, <1>4 DEF Counted
<1>8. Quota(e) BY <1>3, <1>4, <1>6, <1>7, SameQuota
<1> QED BY <1>8 DEF e

\* A cancelled reservation was not counted and is not afterwards.
LEMMA CancelReservationQuota ==
  ASSUME NEW d, Sound(d), Quota(d), NEW id \in AdmissionIds, NEW q, MayCancelReservation(d, id, q)
  PROVE  Quota(CancelReservation(d, id))
<1> DEFINE e == CancelReservation(d, id)
           row == [d.adm[id] EXCEPT !.state = "released"]
<1>1. d \in Store /\ d.adm[id].match = None /\ d.adm[id].state = "reserved"
  BY DEF Sound, MayCancelReservation
<1>2. row.state = "released" /\ row.match = None
  <2>1. d.adm[id] \in Admission BY <1>1, StoreFields
  <2> QED BY <1>1, <2>1, AdmissionMoves DEF AdmissionStates
<1>3. e.adm = [d.adm EXCEPT ![id] = row] /\ e.mat = d.mat /\ e.count = d.count
  BY <1>1 DEF CancelReservation, Store
<1> HIDE DEF e, row
<1>4. e.adm[id] = row /\ \A i \in AdmissionIds : i # id => e.adm[i] = d.adm[i]
  BY <1>1, <1>3, StoreFields
<1>5. ~Counted(d, id) /\ ~Counted(e, id) BY <1>1, <1>2, <1>4 DEF Counted
<1>6. \A i \in AdmissionIds : i # id => (Counted(d, i) <=> Counted(e, i)) BY <1>3, <1>4 DEF Counted
<1> QED BY <1>3, <1>4, <1>5, <1>6, SameQuota DEF e

\* Linking reservations to a match consumes nothing.
LEMMA PrepareQuota ==
  ASSUME NEW d, Sound(d), Quota(d), NEW m \in MatchIds, NEW ids \in SUBSET AdmissionIds,
         NEW p \in Owners, MayPrepare(d, m, ids, p)
  PROVE  Quota(Prepare(d, m, ids, p))
<1> DEFINE e == Prepare(d, m, ids, p)
           link(id) == [d.adm[id] EXCEPT !.match = m]
           M == [d.mat EXCEPT ![m] = [state |-> "prepared", owner |-> p]]
<1>1. /\ d \in Store /\ Linked(d) /\ d.mat[m].state = "absent"
      /\ \A id \in ids : d.adm[id].state = "reserved" /\ d.adm[id].match = None
  BY DEF Sound, MayPrepare
<1>2. /\ \A n \in MatchIds : n # m => M[n] = d.mat[n]
      /\ M[m].state = "prepared"
  BY <1>1, StoreFields
<1>3. \A id \in ids : link(id).match = m /\ link(id).state = "reserved"
  BY <1>1, StoreFields DEF Admission
<1>4. /\ e.mat = M /\ e.count = d.count
      /\ e.adm = [id \in AdmissionIds |-> IF id \in ids THEN link(id) ELSE d.adm[id]]
  BY <1>1 DEF Prepare, Store
<1> HIDE DEF e, M, link
<1>5. ASSUME NEW id \in ids PROVE ~Counted(d, id) /\ ~Counted(e, id)
  BY <1>1, <1>2, <1>3, <1>4 DEF Counted
<1>6. ASSUME NEW id \in AdmissionIds, id \notin ids
      PROVE  e.adm[id] = d.adm[id] /\ (Counted(d, id) <=> Counted(e, id))
  <2>1. e.adm[id] = d.adm[id] /\ d.adm[id].match # m BY <1>1, <1>4, <1>6, Facts DEF Linked
  <2>2. d.adm[id].match \in MatchIds \cup {None} BY <1>1, StoreFields DEF Admission
  <2> QED BY <1>2, <1>4, <2>1, <2>2 DEF Counted
<1>7. Quota(e) BY <1>4, <1>5, <1>6, SameQuota
<1> QED BY <1>7 DEF e

\* The seats of a match count exactly while it is started or completed.
LEMMA SeatsCount ==
  ASSUME NEW d, Sound(d), NEW m \in MatchIds, NEW id \in AdmissionIds, d.adm[id].match = m
  PROVE  Counted(d, id) <=>
           d.adm[id].kind = "free" /\ d.mat[m].state \in {"started", "completed"}
<1>1. Linked(d) /\ m # None BY Facts DEF Sound
<1>2. d.adm[id].state = Goes(d.mat[m].state) BY <1>1 DEF Linked, Goes
<1> QED BY <1>1, <1>2 DEF Counted, Goes

\* The seats of the other matches are not concerned.
LEMMA OthersCount ==
  ASSUME NEW d, d \in Store, NEW e, NEW m, NEW id \in AdmissionIds, d.adm[id].match # m,
         \A n \in MatchIds : n # m => e.mat[n] = d.mat[n], e.adm[id] = d.adm[id]
  PROVE  Counted(d, id) <=> Counted(e, id)
<1>1. d.adm[id].match \in MatchIds \cup {None} BY StoreFields DEF Admission
<1> QED BY <1>1 DEF Counted

\* A match that moves without a change of the counts moves between two states
\* that consume alike: a prepared one is cancelled, a started one completed.
LEMMA MoveQuota ==
  ASSUME NEW d, Sound(d), Quota(d), NEW e, Sound(e), NEW m \in MatchIds,
         e.count = d.count,
         \A n \in MatchIds : n # m => e.mat[n] = d.mat[n],
         \A id \in AdmissionIds : IF d.adm[id].match = m
           THEN /\ e.adm[id].account = d.adm[id].account /\ e.adm[id].day = d.adm[id].day
                /\ e.adm[id].kind = d.adm[id].kind /\ e.adm[id].match = m
           ELSE e.adm[id] = d.adm[id],
         e.mat[m].state \in {"started", "completed"} <=> d.mat[m].state \in {"started", "completed"}
  PROVE  Quota(e)
<1>1. d \in Store BY DEF Sound
<1>2. ASSUME NEW id \in AdmissionIds PROVE Counted(d, id) <=> Counted(e, id)
  <2>1. CASE d.adm[id].match = m BY <2>1, SeatsCount
  <2>2. CASE d.adm[id].match # m BY <1>1, <2>2, OthersCount
  <2> QED BY <2>1, <2>2
<1>3. \A id \in AdmissionIds :
        e.adm[id].account = d.adm[id].account /\ e.adm[id].day = d.adm[id].day
  OBVIOUS
<1> QED BY <1>2, <1>3, SameQuota

\* Closing the seats changes their state only.
LEMMA ClosedKeeps ==
  ASSUME NEW d \in Store, NEW m \in MatchIds, NEW s \in AdmissionStates, NEW id \in AdmissionIds
  PROVE  LET A == Closed(d.adm, m, s) IN
         IF d.adm[id].match = m
           THEN /\ A[id].account = d.adm[id].account /\ A[id].day = d.adm[id].day
                /\ A[id].kind = d.adm[id].kind /\ A[id].match = m
           ELSE A[id] = d.adm[id]
<1>1. d.adm[id] \in Admission BY StoreFields
<1> QED BY <1>1 DEF Closed, Admission

\* The admissions of a prepared match were not counted and are not afterwards.
LEMMA CancelPreparedQuota ==
  ASSUME NEW d, Sound(d), Quota(d), NEW m \in MatchIds, NEW q, NEW p \in Owners,
         MayCancelPrepared(d, m, q)
  PROVE  Quota(CancelPrepared(d, m))
<1> DEFINE e == CancelPrepared(d, m)
           M == [d.mat EXCEPT ![m] = [d.mat[m] EXCEPT !.state = "cancelled"]]
<1>1. d \in Store /\ d.mat[m].state = "prepared" BY DEF Sound, MayCancelPrepared, Fenced
<1>2. Sound(e) BY CancelPreparedRows DEF Rows
<1>3. e.mat = M /\ e.adm = Closed(d.adm, m, "released") /\ e.count = d.count
  BY <1>1 DEF CancelPrepared, Store
<1>4. M[m].state = "cancelled" /\ \A n \in MatchIds : n # m => M[n] = d.mat[n]
  BY <1>1, MatchRow DEF MatchStates
<1> HIDE DEF e, M
<1>5. \A id \in AdmissionIds : IF d.adm[id].match = m
        THEN /\ e.adm[id].account = d.adm[id].account /\ e.adm[id].day = d.adm[id].day
             /\ e.adm[id].kind = d.adm[id].kind /\ e.adm[id].match = m
        ELSE e.adm[id] = d.adm[id]
  BY <1>1, <1>3, ClosedKeeps DEF AdmissionStates
<1>6. Quota(e) BY <1>1, <1>2, <1>3, <1>4, <1>5, MoveQuota
<1> QED BY <1>6 DEF e

\* A completed match keeps what it consumed.
LEMMA FinishQuota ==
  ASSUME NEW d, Sound(d), Quota(d), NEW m \in MatchIds, NEW p \in Owners, MayFinish(d, m, p)
  PROVE  Quota(Finish(d, m))
<1> DEFINE e == Finish(d, m)
           M == [d.mat EXCEPT ![m] = [d.mat[m] EXCEPT !.state = "completed"]]
           end(id) == [d.adm[id] EXCEPT !.state = "released"]
<1>1. d \in Store /\ d.mat[m].state = "started" BY DEF Sound, MayFinish, Fenced
<1>2. Sound(e) BY FinishRows DEF Rows
<1>3. /\ e.mat = M /\ e.count = d.count
      /\ e.adm = [id \in AdmissionIds |-> IF d.adm[id].match = m /\ d.adm[id].state = "started"
                                            THEN end(id) ELSE d.adm[id]]
  BY <1>1 DEF Finish, Store
<1>4. M[m].state = "completed" /\ \A n \in MatchIds : n # m => M[n] = d.mat[n]
  BY <1>1, MatchRow DEF MatchStates
<1>5. \A id \in AdmissionIds :
        /\ end(id).account = d.adm[id].account /\ end(id).day = d.adm[id].day
        /\ end(id).kind = d.adm[id].kind /\ end(id).match = d.adm[id].match
  BY <1>1, StoreFields DEF Admission
<1> HIDE DEF e, M, end
<1>6. \A id \in AdmissionIds : IF d.adm[id].match = m
        THEN /\ e.adm[id].account = d.adm[id].account /\ e.adm[id].day = d.adm[id].day
             /\ e.adm[id].kind = d.adm[id].kind /\ e.adm[id].match = m
        ELSE e.adm[id] = d.adm[id]
  BY <1>3, <1>5
<1>7. Quota(e) BY <1>1, <1>2, <1>3, <1>4, <1>6, MoveQuota
<1> QED BY <1>7 DEF e

\* An interrupted match gives back, to each account and day, exactly what its
\* seats consumed.
LEMMA InterruptQuota ==
  ASSUME NEW d, Sound(d), Quota(d), NEW m \in MatchIds, NEW q, NEW p \in Owners,
         MayInterrupt(d, m, q)
  PROVE  Quota(Interrupt(d, m))
<1> DEFINE e == Interrupt(d, m)
           M == [d.mat EXCEPT ![m] = [d.mat[m] EXCEPT !.state = "interrupted"]]
           back(a, x) == Consumed(d, m, a, x)
<1>1. /\ d \in Store /\ d.mat[m].state = "started" /\ m # None
      /\ \A id \in Seated(d, m) : d.adm[id].state = "started"
  BY Facts DEF Sound, MayInterrupt, Fenced
<1>2. Sound(e) BY InterruptRows DEF Rows
<1>3. /\ e.mat = M /\ e.adm = Closed(d.adm, m, "compensated")
      /\ e.count = [a \in Accounts |-> [x \in Days |->
                      d.count[a][x] - Cardinality(back(a, x))]]
  BY <1>1 DEF Interrupt, Store
<1>4. M[m].state = "interrupted" /\ \A n \in MatchIds : n # m => M[n] = d.mat[n]
  BY <1>1, MatchRow DEF MatchStates
<1> HIDE DEF e, M
<1>5. \A id \in AdmissionIds : IF d.adm[id].match = m
        THEN ~Counted(e, id)
        ELSE e.adm[id] = d.adm[id] /\ (Counted(d, id) <=> Counted(e, id))
  <2>1. \A id \in AdmissionIds : IF d.adm[id].match = m THEN e.adm[id].match = m
                                 ELSE e.adm[id] = d.adm[id]
    BY <1>1, <1>3, ClosedKeeps DEF AdmissionStates
  <2>2. ASSUME NEW id \in AdmissionIds, d.adm[id].match = m PROVE ~Counted(e, id)
    BY <1>2, <1>3, <1>4, <2>1, <2>2, SeatsCount
  <2>3. ASSUME NEW id \in AdmissionIds, d.adm[id].match # m
        PROVE  Counted(d, id) <=> Counted(e, id)
    <3>1. \A n \in MatchIds : n # m => e.mat[n] = d.mat[n] BY <1>3, <1>4
    <3>2. e.adm[id] = d.adm[id] BY <2>1, <2>3
    <3> QED BY <1>1, <2>3, <3>1, <3>2, OthersCount
  <2> QED BY <2>1, <2>2, <2>3
<1>6. ASSUME NEW a \in Accounts, NEW x \in Days
      PROVE  /\ e.count[a][x] = Cardinality(CountedOn(e, a, x))
             /\ e.count[a][x] <= FreeDailyQuickplayMatches
  <2>1. CountedOn(e, a, x) = CountedOn(d, a, x) \ back(a, x)
    BY <1>5 DEF CountedOn, Consumed, Counted, Seated
  <2>2. back(a, x) \subseteq CountedOn(d, a, x)
    BY <1>1 DEF CountedOn, Consumed, Counted, Seated
  <2>3. IsFiniteSet(CountedOn(d, a, x)) BY Facts, FS_Subset DEF CountedOn
  <2> HIDE DEF back
  <2>4. CountedOn(d, a, x) \cap back(a, x) = back(a, x) BY <2>2
  <2>5. Cardinality(CountedOn(e, a, x)) =
          Cardinality(CountedOn(d, a, x)) - Cardinality(back(a, x))
    BY <2>1, <2>3, <2>4, FS_Difference
  <2>6. Cardinality(CountedOn(d, a, x)) \in Nat /\ Cardinality(back(a, x)) \in Nat
    BY <2>2, <2>3, FS_Subset, FS_CardinalityType
  <2>7. e.count[a][x] = d.count[a][x] - Cardinality(back(a, x)) BY <1>3
  <2>8. /\ d.count[a][x] = Cardinality(CountedOn(d, a, x))
        /\ d.count[a][x] <= FreeDailyQuickplayMatches
    BY DEF Quota
  <2> QED BY <2>5, <2>6, <2>7, <2>8, AdmissionsAssumption
<1>7. Quota(e) BY <1>6 DEF Quota
<1> QED BY <1>7 DEF e

\* A start consumes one free match of every free seat, and the quota holds
\* because an account has at most one seat: the check of each seat on its own
\* is enough.
LEMMA StartQuota ==
  ASSUME NEW d, Sound(d), Quota(d), NEW m \in MatchIds, NEW p \in Owners,
         NEW kinds \in [Accounts -> Kinds], NEW day \in Days, MayStart(d, m, p, kinds, day)
  PROVE  Quota(Start(d, m, kinds, day))
<1> DEFINE e == Start(d, m, kinds, day)
           M == [d.mat EXCEPT ![m] = [d.mat[m] EXCEPT !.state = "started"]]
           seat(id) == [d.adm[id] EXCEPT !.state = "started", !.day = day,
                                         !.kind = kinds[d.adm[id].account]]
           taken(a, x) == {id \in Seated(d, m) :
                             d.adm[id].account = a /\ kinds[a] = "free" /\ x = day}
<1>1. /\ d \in Store /\ d.mat[m].state = "prepared" /\ m # None /\ Single(d) /\ Named(d)
      /\ \A id \in Seated(d, m) :
           /\ d.adm[id].state = "reserved"
           /\ kinds[d.adm[id].account] = "free" => QuotaLeft(d, d.adm[id].account, day, id)
  BY Facts DEF Sound, MayStart, Fenced
<1>2. Sound(e) BY StartRows DEF Rows
<1>3. /\ e.mat = M
      /\ e.adm = [id \in AdmissionIds |-> IF id \in Seated(d, m) THEN seat(id) ELSE d.adm[id]]
      /\ e.count = [a \in Accounts |-> [x \in Days |->
                      d.count[a][x] + Cardinality(taken(a, x))]]
  BY <1>1 DEF Start, Store
<1>4. M[m].state = "started" /\ \A n \in MatchIds : n # m => M[n] = d.mat[n]
  BY <1>1, MatchRow DEF MatchStates
<1>5. \A id \in AdmissionIds :
        /\ seat(id).account = d.adm[id].account /\ seat(id).day = day
        /\ seat(id).kind = kinds[d.adm[id].account] /\ seat(id).match = d.adm[id].match
  BY <1>1, StoreFields DEF Admission
<1> HIDE DEF e, M, seat
<1>6. ASSUME NEW id \in AdmissionIds, d.adm[id].match = m
      PROVE  /\ ~Counted(d, id)
             /\ e.adm[id].account = d.adm[id].account /\ e.adm[id].day = day
             /\ Counted(e, id) <=> kinds[d.adm[id].account] = "free"
  <2>1. /\ e.adm[id].match = m /\ e.adm[id].account = d.adm[id].account
        /\ e.adm[id].day = day /\ e.adm[id].kind = kinds[d.adm[id].account]
    BY <1>3, <1>5, <1>6 DEF Seated
  <2> QED BY <1>1, <1>2, <1>3, <1>4, <1>6, <2>1, SeatsCount
<1>7. ASSUME NEW id \in AdmissionIds, d.adm[id].match # m
      PROVE  e.adm[id] = d.adm[id] /\ (Counted(d, id) <=> Counted(e, id))
  <2>1. e.adm[id] = d.adm[id] BY <1>3, <1>7 DEF Seated
  <2>2. \A n \in MatchIds : n # m => e.mat[n] = d.mat[n] BY <1>3, <1>4
  <2> QED BY <1>1, <1>7, <2>1, <2>2, OthersCount
<1>8. ASSUME NEW a \in Accounts, NEW x \in Days
      PROVE  /\ e.count[a][x] = Cardinality(CountedOn(e, a, x))
             /\ e.count[a][x] <= FreeDailyQuickplayMatches
  <2>1. CountedOn(e, a, x) = CountedOn(d, a, x) \cup taken(a, x)
    BY <1>6, <1>7 DEF CountedOn, Seated
  <2>2. CountedOn(d, a, x) \cap taken(a, x) = {} BY <1>6 DEF CountedOn, Seated
  <2>3. IsFiniteSet(CountedOn(d, a, x)) BY Facts, FS_Subset DEF CountedOn
  <2>4. \A i, j \in taken(a, x) : i = j BY <1>1 DEF Single, Seated, Open
  <2>5. \A i \in taken(a, x) : d.count[a][x] < FreeDailyQuickplayMatches
    <3> SUFFICES ASSUME NEW i \in taken(a, x) PROVE d.count[a][x] < FreeDailyQuickplayMatches
      OBVIOUS
    <3> DEFINE rest == {id \in AdmissionIds \ {i} :
                          /\ d.adm[id].account = a /\ d.adm[id].day = x
                          /\ d.adm[id].state = "reserved" /\ d.adm[id].kind = "free"}
    <3>1. d.count[a][x] + Cardinality(rest) < FreeDailyQuickplayMatches
      BY <1>1 DEF QuotaLeft
    <3>2. rest \in SUBSET AdmissionIds OBVIOUS
    <3> HIDE DEF rest
    <3>3. Cardinality(rest) \in Nat BY <3>2, SeatCount
    <3>4. d.count[a][x] \in Nat BY <1>1, StoreFields
    <3> QED BY <3>1, <3>3, <3>4, AdmissionsAssumption
  <2>6. e.count[a][x] = d.count[a][x] + Cardinality(taken(a, x)) BY <1>3
  <2>7. /\ d.count[a][x] = Cardinality(CountedOn(d, a, x)) /\ d.count[a][x] \in Nat
        /\ d.count[a][x] <= FreeDailyQuickplayMatches
    BY <1>1, StoreFields DEF Quota
  <2> HIDE DEF taken
  <2>8. CASE taken(a, x) = {}
    BY <2>1, <2>6, <2>7, <2>8, FS_EmptySet
  <2>9. CASE taken(a, x) # {}
    <3>1. PICK i : taken(a, x) = {i} BY <2>4, <2>9
    <3>2. i \notin CountedOn(d, a, x) /\ CountedOn(e, a, x) = CountedOn(d, a, x) \cup {i}
      BY <2>1, <2>2, <3>1
    <3>3. Cardinality(CountedOn(e, a, x)) = Cardinality(CountedOn(d, a, x)) + 1
      BY <2>3, <3>2, FS_AddElement
    <3>4. Cardinality(taken(a, x)) = 1 BY <3>1, FS_Singleton
    <3> QED BY <2>5, <2>6, <2>7, <3>1, <3>3, <3>4, AdmissionsAssumption
  <2> QED BY <2>8, <2>9
<1>9. Quota(e) BY <1>8 DEF Quota
<1> QED BY <1>9 DEF e

\* No transaction of an owner or of its recovery breaks the quota.
LEMMA RowStepQuota ==
  ASSUME OwnerInv, Quota(db), NEW c \in Conns, RowStep(c)
  PROVE  Quota(db')
<1> DEFINE p == txn[c].by
<1>1. ~Idle(c)
  BY DEF RowStep, CommitWrite, CommitReserve, CommitCancelReservation, CommitPrepare, CommitStart,
     CommitCancelPrepared, CommitInterrupt, CommitFinish, RecoverMatch, RecoverReservation,
     Writing, Recovering
<1>2. p \in Owners /\ Sound(db) BY <1>1 DEF OwnerInv, Transactions
<1>3. SUFFICES \E rows : Quota(rows) /\ Commit(c, rows) BY DEF Commit
<1> HIDE DEF p
<1>4. CASE CommitReserve(c) BY <1>2, <1>4, ReserveQuota DEF CommitReserve, p
<1>5. CASE CommitCancelReservation(c)
  BY <1>2, <1>5, CancelReservationQuota DEF CommitCancelReservation, p
<1>6. CASE CommitPrepare(c) BY <1>2, <1>6, PrepareQuota DEF CommitPrepare, p
<1>7. CASE CommitStart(c) BY <1>2, <1>7, StartQuota DEF CommitStart, p
<1>8. CASE CommitCancelPrepared(c)
  BY <1>2, <1>8, CancelPreparedQuota DEF CommitCancelPrepared, p
<1>9. CASE CommitInterrupt(c) BY <1>2, <1>9, InterruptQuota DEF CommitInterrupt, p
<1>10. CASE CommitFinish(c) BY <1>2, <1>10, FinishQuota DEF CommitFinish, p
<1>11. CASE RecoverMatch(c)
  <2>1. PICK m \in MatchIds :
          \/ MayInterrupt(db, m, db.mat[m].owner) /\ Commit(c, Interrupt(db, m))
          \/ MayCancelPrepared(db, m, db.mat[m].owner) /\ Commit(c, CancelPrepared(db, m))
    BY <1>11 DEF RecoverMatch, OpenMatches
  <2>2. CASE MayInterrupt(db, m, db.mat[m].owner) /\ Commit(c, Interrupt(db, m))
    BY <1>2, <2>2, InterruptQuota
  <2>3. CASE MayCancelPrepared(db, m, db.mat[m].owner) /\ Commit(c, CancelPrepared(db, m))
    BY <1>2, <2>3, CancelPreparedQuota
  <2> QED BY <2>1, <2>2, <2>3
<1>12. CASE RecoverReservation(c)
  <2>1. PICK id \in AdmissionIds :
          MayCancelReservation(db, id, db.adm[id].owner) /\ Commit(c, CancelReservation(db, id))
    BY <1>12 DEF RecoverReservation, OpenReservations
  <2> QED BY <1>2, <2>1, CancelReservationQuota
<1> QED BY <1>4, <1>5, <1>6, <1>7, <1>8, <1>9, <1>10, <1>11, <1>12 DEF RowStep, CommitWrite

\* Every free match is counted once, on the day it started, and given back only
\* by its interruption, whichever process runs the transaction and however many
\* times ownership moves; nobody plays more free matches a day than allowed.
THEOREM QuotaIsExact == Spec => []QuotaExact
<1>1. Init => Quota(db) BY EmptyQuota DEF Init
<1>2. OwnerInv /\ Quota(db) /\ [Next]_vars => Quota(db)'
  <2> SUFFICES ASSUME OwnerInv, Quota(db), [Next]_vars PROVE Quota(db)' OBVIOUS
  <2>1. CASE db' = db BY <2>1 DEF Quota, CountedOn, Counted
  <2>2. CASE \E c \in Conns : RowStep(c)
    <3>1. Quota(db') BY <2>2, RowStepQuota
    <3> QED BY <3>1 DEF Quota, CountedOn, Counted
  <2> QED
    BY <2>1, <2>2 DEF Next, vars, RowStep, Recover, RecoveryDone, Rollback, Begin, TryLock, Acquire,
       SessionEnds, LoseAuthority, Crash, BecomeReady
<1>3. Quota(db) => QuotaExact
  <2>1. \A a \in Accounts, x \in Days : Used(a, x) = CountedOn(db, a, x)
    BY DEF Used, CountedOn, Counted
  <2> QED BY <2>1 DEF Quota, QuotaExact
<1> QED BY <1>1, <1>2, <1>3, OwnerInvariant, PTL DEF Spec
=============================================================================
