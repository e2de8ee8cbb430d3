---------------------------- MODULE Enforcement ----------------------------
(***************************************************************************)
(* Moderation against what the credentials of an account have opened:      *)
(* sanctions by administrators (store/account_sanctions.go), freezes by    *)
(* guards and their decision (portal/guard.go, guard_delivery.go), the     *)
(* live connections (handler/text.go with lobby OpenAuthenticated,         *)
(* EnforceAccount, EnforceSanction) and the browser sessions of the portal *)
(* (portal/browser_session.go).                                            *)
(*                                                                         *)
(* A decision is durable first and delivered to the lobby afterwards, with *)
(* no lock of the database held; the lobby mutex orders deliveries with    *)
(* connections that are being opened.                                      *)
(***************************************************************************)
EXTENDS Accounts

CONSTANTS
    Conns,          \* connections
    Deliverers,     \* the request of the administrator and the worker
    Browsers

ASSUME EnforcementAssumption == "none" \notin Conns

VARIABLES
    conn,           \* conn[c]: TextRealtimeHandler
    peers,          \* peers[a]: [conn, pair, closed]; conn NoConn for none
    mutex,          \* holder of the lobby mutex while it authenticates, or NoConn
    delivery,       \* delivery[w]: DeliverPending or dispatchGuardDecision
    requests,       \* requests[b]: portal_login_requests
    sessions,       \* sessions[b]: portal_browser_sessions
    visit           \* visit[b]: what loginContinue read before its transaction

liveVars == <<conn, peers, mutex, delivery>>
browserVars == <<requests, sessions, visit>>
enforcementVars == <<accountVars, liveVars, browserVars>>

NoConn == "none"
NoPeer == [conn |-> NoConn, pair |-> Pair(0, NoAccount, NoDevice, 0, 0, 0), closed |-> TRUE]
NoRequest == [state |-> "none", account |-> NoAccount, device |-> NoDevice, root |-> 0]

EnforcementInit ==
    /\ AccountsInit
    /\ conn = [c \in Conns |-> Idle]
    /\ peers = [a \in AccountIds |-> NoPeer]
    /\ mutex = NoConn
    /\ delivery = [w \in Deliverers |-> Idle]
    /\ requests = [b \in Browsers |-> NoRequest]
    /\ sessions = [b \in Browsers |-> NoRequest]
    /\ visit = [b \in Browsers |-> NoRequest]

-----------------------------------------------------------------------------
(* Connections.                                                             *)

hello(c, p) ==
    /\ conn[c].pc = "idle" /\ ValidateAccessToken(p)
    /\ conn' = [conn EXCEPT ![c] = [pc |-> "hello", pair |-> p]]
    /\ UNCHANGED <<accountVars, peers, mutex, delivery, browserVars>>

(* OpenAuthenticated validates under the mutex, then registers the peer.    *)
(* A refusal (the token, the process authority, a pending operation of the  *)
(* room) ends the connection.                                               *)
\* Mutant: the token that was validated before the mutex is not validated again.
authenticate_Before(c) ==
    /\ conn[c].pc = "hello" /\ mutex = NoConn
    /\ mutex' = c /\ conn' = [conn EXCEPT ![c].pc = "register"]
    /\ UNCHANGED <<accountVars, peers, delivery, browserVars>>

authenticate(c) ==
    /\ conn[c].pc = "hello" /\ mutex = NoConn
    /\ \/ /\ ValidateAccessToken(conn[c].pair)
          /\ mutex' = c /\ conn' = [conn EXCEPT ![c].pc = "register"]
       \/ mutex' = mutex /\ conn' = [conn EXCEPT ![c] = Idle]
    /\ UNCHANGED <<accountVars, peers, delivery, browserVars>>

OpenAuthenticated(c) ==
    /\ conn[c].pc = "register"
    /\ peers' = [peers EXCEPT ![conn[c].pair.account] = [conn |-> c, pair |-> conn[c].pair, closed |-> FALSE]]
    /\ mutex' = NoConn
    /\ conn' = [conn EXCEPT ![c].pc = "open"]
    /\ UNCHANGED <<accountVars, delivery, browserVars>>

(* The validation after the registration, before every message and by the   *)
(* ticker of textWriteLoop; a refusal and the end of the socket lead to     *)
(* Disconnect, which leaves a replaced peer alone.                          *)
Disconnect(c) ==
    /\ conn[c].pc = "open" /\ mutex = NoConn
    /\ LET a == conn[c].pair.account
       IN peers' = IF peers[a].conn = c THEN [peers EXCEPT ![a] = NoPeer] ELSE peers
    /\ conn' = [conn EXCEPT ![c] = Idle]
    /\ UNCHANGED <<accountVars, mutex, delivery, browserVars>>

(* disconnect of an enforced peer: the socket is closed at once; when the   *)
(* durable departure fails the closed peer is kept and the caller errs.     *)
Enforced(who) == [a \in AccountIds |-> IF a \in who THEN NoPeer ELSE peers[a]]
Stuck(who) == [a \in AccountIds |-> IF a \in who THEN [peers[a] EXCEPT !.closed = TRUE] ELSE peers[a]]

-----------------------------------------------------------------------------
(* Sanctions.                                                               *)

(* The rows of decisions are written in order, as many as the plan has.     *)
Undecided(i) ==
    i <= plan.decisions /\ \A j \in 1..(i - 1) : sanctions[j].state # "none" \/ freezes[j].state # "none"

(* AccountSanctionStore.Apply: the decision, the installations of the       *)
(* account and the revocation of its sessions in one transaction.           *)
RevokeSessionsTx(a) ==
    /\ epoch[a] < MaxEpoch
    /\ epoch' = RevokedEpoch(a)
    /\ requests' = [b \in Browsers |-> IF requests[b].account = a THEN NoRequest ELSE requests[b]]
    /\ sessions' = [b \in Browsers |-> IF sessions[b].account = a THEN NoRequest ELSE sessions[b]]

Apply(i, a) ==
    /\ Undecided(i) /\ sanctions[i].state = "none" /\ a \in accounts
    /\ sanctions' = [sanctions EXCEPT ![i] = [NoSanction EXCEPT
            !.state = "active", !.account = a, !.devices = {d \in Devices : <<a, d>> \in devs}]]
    /\ RevokeSessionsTx(a)
    /\ UNCHANGED <<plan, accounts, erasureVars, devs, boot, pairs, spent, rotations, login, flows, links,
                   freezes, liveVars, visit>>

(* sanction_lift, once; or until_at passes.                                 *)
Lift(i) ==
    /\ sanctions[i].state = "active"
    /\ sanctions' = [sanctions EXCEPT ![i].state = "over"]
    /\ UNCHANGED <<plan, tokenVars, erasureVars, login, flows, links, freezes, liveVars, browserVars>>

ActiveForBinding(i, p) ==
    sanctions[i].state = "active" /\ (sanctions[i].account = p.account \/ p.device \in sanctions[i].devices)

(* DeliverPending: EnforceSanction under the mutex, then the outcome, once. *)
EnforceSanction(w, i) ==
    /\ delivery[w].pc = "idle" /\ sanctions[i].state # "none" /\ sanctions[i].outcome = "none"
    /\ mutex = NoConn
    /\ LET hit == {a \in AccountIds : peers[a].conn # NoConn /\ ActiveForBinding(i, peers[a].pair)}
       IN \/ /\ peers' = Enforced(hit)
             /\ delivery' = [delivery EXCEPT ![w] = [pc |-> "sanction", id |-> i]]
          \/ /\ \E stuck \in SUBSET hit \ {{}} : peers' = Stuck(stuck)
             /\ UNCHANGED delivery
    /\ UNCHANGED <<accountVars, conn, mutex, browserVars>>

CompleteDelivery(w) ==
    /\ delivery[w].pc = "sanction"
    /\ LET i == delivery[w].id
       IN sanctions' = IF sanctions[i].outcome # "none" THEN sanctions
                       ELSE [sanctions EXCEPT ![i].outcome =
                               IF sanctions[i].state = "active" THEN "applied" ELSE "obsolete"]
    /\ delivery' = [delivery EXCEPT ![w] = Idle]
    /\ UNCHANGED <<plan, tokenVars, erasureVars, login, flows, links, freezes, conn, peers, mutex, browserVars>>

-----------------------------------------------------------------------------
(* Guards.                                                                  *)

(* A guard who has frozen the account already is refused, another one not:  *)
(* each freeze of an account that is active is by a guard of its own.       *)
FreezeAccount(i, a) ==
    /\ Undecided(i) /\ freezes[i].state = "none" /\ a \in accounts
    /\ freezes' = [freezes EXCEPT ![i] = [NoFreeze EXCEPT !.state = "frozen", !.target = a]]
    /\ UNCHANGED <<plan, tokenVars, erasureVars, login, flows, links, sanctions, liveVars, browserVars>>

decideFreeze(i, decision) ==
    /\ freezes[i].state = "frozen"
    /\ freezes' = [freezes EXCEPT ![i].state = decision]
    /\ UNCHANGED <<plan, tokenVars, erasureVars, login, flows, links, sanctions, liveVars, browserVars>>

(* The freeze or the suspension ends by its deadline; ExpireFreezes only    *)
(* records the end of a freeze.                                             *)
ExpireFreezes(i) ==
    /\ \/ freezes[i].state = "frozen" /\ freezes' = [freezes EXCEPT ![i].state = "expired"]
       \/ freezes[i].state = "timed" /\ ~freezes[i].over /\ freezes' = [freezes EXCEPT ![i].over = TRUE]
    /\ UNCHANGED <<plan, tokenVars, erasureVars, login, flows, links, sanctions, liveVars, browserVars>>

(* dispatchGuardDecision reads whether the decision still stands, calls     *)
(* EnforceAccount without a transaction, and records the delivery once.     *)
dispatchGuardDecision(w, i) ==
    /\ delivery[w].pc = "idle"
    /\ freezes[i].state \in {"timed", "permanent"} /\ freezes[i].delivery = "none"
    /\ LET a == freezes[i].target
           obsolete == a \in erased \/ freezes[i].over
       IN delivery' = [delivery EXCEPT ![w] =
              [pc |-> IF obsolete THEN "obsolete" ELSE "enforce", id |-> i]]
    /\ UNCHANGED <<accountVars, conn, peers, mutex, browserVars>>

(* RevokeEnforcedSessions reads the account again under its lock; it        *)
(* commits while EnforceAccount holds the mutex.                            *)
stillEnforced(a) == banned(a) \/ suspended(a) \/ a \in erased
RevokeEnforcedSessions(a) ==
    IF stillEnforced(a) THEN RevokeSessionsTx(a) ELSE UNCHANGED <<epoch, requests, sessions>>

EnforceAccount(w) ==
    /\ delivery[w].pc = "enforce" /\ mutex = NoConn
    /\ LET a == freezes[delivery[w].id].target
           hit == IF stillEnforced(a) /\ peers[a].conn # NoConn THEN {a} ELSE {}
       IN /\ RevokeEnforcedSessions(a)
          /\ \/ /\ peers' = Enforced(hit)
                /\ delivery' = [delivery EXCEPT ![w].pc = "delivered"]
             \/ /\ hit # {} /\ peers' = Stuck(hit)
                /\ delivery' = [delivery EXCEPT ![w] = Idle]
    /\ UNCHANGED <<plan, accounts, erasureVars, devs, boot, pairs, spent, rotations, login, flows, links,
                   moderationVars, conn, mutex, visit>>

recordDelivery(w) ==
    /\ delivery[w].pc \in {"delivered", "obsolete"}
    /\ LET i == delivery[w].id
       IN freezes' = IF freezes[i].delivery # "none" THEN freezes
                     ELSE [freezes EXCEPT ![i].delivery = delivery[w].pc]
    /\ delivery' = [delivery EXCEPT ![w] = Idle]
    /\ UNCHANGED <<plan, tokenVars, erasureVars, login, flows, links, sanctions, conn, peers, mutex, browserVars>>

(* The process ends in the middle of a delivery: its connections end too.   *)
Restart ==
    /\ \E w \in Deliverers : delivery[w].pc # "idle"
    /\ delivery' = [w \in Deliverers |-> Idle]
    /\ conn' = [c \in Conns |-> Idle]
    /\ peers' = [a \in AccountIds |-> NoPeer]
    /\ mutex' = NoConn
    /\ visit' = [b \in Browsers |-> NoRequest]
    /\ UNCHANGED <<accountVars, requests, sessions>>

-----------------------------------------------------------------------------
(* Browsers of the portal.                                                  *)

portalActorAllowedTx(a) ==
    /\ accountSession(a)
    /\ ~\E i \in FreezeIds : freezes[i].state = "frozen" /\ freezes[i].target = a

loginForm(b) ==
    /\ requests[b].state = "none"
    /\ requests' = [requests EXCEPT ![b] = [NoRequest EXCEPT !.state = "open"]]
    /\ UNCHANGED <<accountVars, liveVars, sessions, visit>>

ConnectHandler(b, p) ==
    /\ requests[b].state = "open"
    /\ ValidateAccessToken(p) /\ portalActorAllowedTx(p.account)
    /\ requests' = [requests EXCEPT ![b] = [state |-> "approved", account |-> p.account,
                                           device |-> p.device, root |-> p.epoch]]
    /\ UNCHANGED <<accountVars, liveVars, sessions, visit>>

(* loginContinue reads the approval, then consumes exactly that approval    *)
(* under the lock of the account.                                           *)
readApproval(b) ==
    /\ requests[b].state = "approved" /\ portalActorAllowedTx(requests[b].account)
    /\ visit' = [visit EXCEPT ![b] = requests[b]]
    /\ UNCHANGED <<accountVars, liveVars, requests, sessions>>

\* Mutant: that the approval is still there is not checked.
loginContinue_Unchecked(b) ==
    /\ visit[b].state = "approved"
    /\ portalActorAllowedTx(visit[b].account) /\ installationAllowed(visit[b].device)
    /\ requests' = [requests EXCEPT ![b] = NoRequest]
    /\ sessions' = [sessions EXCEPT ![b] = visit[b]]
    /\ visit' = [visit EXCEPT ![b] = NoRequest]
    /\ UNCHANGED <<accountVars, liveVars>>

loginContinue(b) ==
    /\ visit[b].state = "approved"
    /\ portalActorAllowedTx(visit[b].account) /\ installationAllowed(visit[b].device)
    /\ requests[b].state = "approved" /\ requests[b].account = visit[b].account
    /\ requests[b].device = visit[b].device
    /\ requests' = [requests EXCEPT ![b] = NoRequest]
    /\ sessions' = [sessions EXCEPT ![b] = requests[b]]
    /\ visit' = [visit EXCEPT ![b] = NoRequest]
    /\ UNCHANGED <<accountVars, liveVars>>

(* The request or the session ends by time, by logoutPost, or the visit is  *)
(* refused.                                                                 *)
logoutPost(b) ==
    /\ \/ requests[b].state # "none" /\ requests' = [requests EXCEPT ![b] = NoRequest] /\ UNCHANGED <<sessions, visit>>
       \/ sessions[b].state # "none" /\ sessions' = [sessions EXCEPT ![b] = NoRequest] /\ UNCHANGED <<requests, visit>>
       \/ visit[b].state # "none" /\ visit' = [visit EXCEPT ![b] = NoRequest] /\ UNCHANGED <<requests, sessions>>
    /\ UNCHANGED <<accountVars, liveVars>>

-----------------------------------------------------------------------------
EnforcementNext ==
    \/ AccountsNext /\ UNCHANGED <<liveVars, browserVars>>
    \/ \E c \in Conns : \/ Asked("connect") /\ \E p \in pairs : hello(c, p)
                        \/ authenticate(c) \/ OpenAuthenticated(c) \/ Disconnect(c)
    \/ Asked("sanction") /\ \E i \in SanctionIds :
         \/ \E a \in AccountIds : Apply(i, a)
         \/ Lift(i)
         \/ \E w \in Deliverers : EnforceSanction(w, i)
    \/ \E w \in Deliverers : CompleteDelivery(w)
    \/ Asked("guard") /\ \E i \in FreezeIds :
         \/ \E a \in AccountIds : FreezeAccount(i, a)
         \/ \E decision \in {"dismissed", "timed", "permanent"} : decideFreeze(i, decision)
         \/ ExpireFreezes(i)
         \/ \E w \in Deliverers : dispatchGuardDecision(w, i)
    \/ \E w \in Deliverers : EnforceAccount(w) \/ recordDelivery(w)
    \/ Restart
    \/ Asked("portal") /\ \E b \in Browsers :
         \/ loginForm(b) \/ readApproval(b) \/ loginContinue(b) \/ logoutPost(b)
         \/ \E p \in pairs : ConnectHandler(b, p)

-----------------------------------------------------------------------------
(* Properties.                                                              *)

(* Nothing that was authorised before the sessions of an account were       *)
(* revoked works after: the authority of every pair was proved in the       *)
(* generation it is signed for, and an approval or a session of a browser   *)
(* exists only in the generation in which a token approved it.              *)
AuthorityFresh ==
    /\ \A p \in pairs : p.root = p.epoch
    /\ \A b \in Browsers : /\ requests[b].state = "approved" => requests[b].root = epoch[requests[b].account]
                           /\ sessions[b].state = "approved" => sessions[b].root = epoch[sessions[b].account]

(* While a sanction is active it covers every installation of the account,  *)
(* and once it is delivered no open peer has the account or one of those    *)
(* installations, whichever connection was being opened meanwhile.  A       *)
(* delivered ban or suspension that has not ended leaves no open peer of    *)
(* the account.                                                             *)
SanctionHolds ==
    /\ \A i \in SanctionIds : sanctions[i].state = "active" =>
         /\ \A d \in Devices : <<sanctions[i].account, d>> \in devs => d \in sanctions[i].devices
         /\ sanctions[i].outcome = "applied" =>
              \A a \in AccountIds : ~peers[a].closed => ~ActiveForBinding(i, peers[a].pair)
    /\ \A i \in FreezeIds :
         /\ freezes[i].state \in {"timed", "permanent"} /\ ~freezes[i].over
         /\ freezes[i].delivery = "delivered"
         => peers[freezes[i].target].closed

=============================================================================
