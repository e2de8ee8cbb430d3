# Knowoff: TLA+ specifications, model checking and proofs

Knowoff is an online social-deduction card game: a Go server (`src/server`), a
Flutter client (`src/client`) and operator tooling.  Four or six seats play two
or three rounds; in each round every seat plays a card in turn, the table
discusses, votes ("knowoff") and may eliminate a seat.  The nowers win by
voting out every donower, the donowers by outlasting the vote budget.

This directory specifies the parts of the server whose correctness depends on
the order of events: the match engine, the lobby around it with the operations
of administrators, the durable admissions and the process that owns them, the
value of a match and its bonus, purchases and the wallet, accounts with their
tokens, sanctions and deletion, the contributions and the weekly challenge of
the portal, and the orderly stop of the process.

## 1. Inventory

The paths are below `src/server`.

| Component | State | Operations | Interacts with | What is hard | What makes it correct |
|---|---|---|---|---|---|
| Match engine, `internal/game` | `textState`: phase, turn, order, deadline, seats, ballot, offer, board, registry of card copies, result | `Apply` (play, replace, offer, resolve, draw, ready, vote, specialties), `Advance`, `SetConnected`, `Close`, `DevGrantSpecialty` | called by the lobby under `TextMatch.serial`; calls the value store through hooks | a drop in the middle of a turn, offer or ballot; the reconnect grace against the clock; a shuffle during an offer; a revote; two representations of every card | cards conserved, state always valid, only eligible votes count, the verdict justified and final, the match ends |
| Lobby, `internal/lobby` | members, peers, queues, rooms, hosts, ready marks, pending aborts | open, join, leave, settings, ready, queue, start, action, rematch, tick, drain | owns matches; calls `TextValueStore` | one lock over slow database calls; lost replies; peers that die between two calls; compensation of a half-made start | an account sits once, every open admission is known to someone, a room can always make progress |
| Value store, `internal/store/text_value.go` | `text_admissions`, `text_matches`, `daily_quickplay_counts` | Reserve, CancelReservation, Prepare, Start, Abort, Interrupt, Finish | transactions fenced by the owner | the day or the entitlement changes between two steps; compensation must find what it gives back | one open admission per account, admissions follow their match, counts exact |
| Process ownership, `internal/store/text_owner*.go` | advisory lock, `text_process_owners`, `text_process_current` | acquire, fence, lose, recover, release | start-up of `knowoffd` | crash, paused process, takeover with open transactions | one writer, recovery final and complete |
| Settlement and bonus, `internal/store/text_settlement.go`, `text_week.go`, `text_bonus_*`, `text_reward_claims.go` | receipts, ledger, day buckets, settlements, outbox, weeks, claims, payments | award, finish, settle, interrupt, close a week, claim, verify a callback, pay a bonus | engine hooks, delivery and bonus workers, operators | not fenced: several processes run it; one cap for awards of several matches and bonuses; a week closes while matches end | the books agree, the cap holds, a due bonus is paid, a closed week is complete, nothing after deletion |
| Room operations, `internal/lobby/text_operator.go`, `internal/store/admin_*operations.go` | decisions, captured rows, fences, exclusions | decide, resolve, deliver, complete, recover | lobby, value store, administration | lost answer of a commit, restart before delivery, players acting meanwhile, a clean-up that comes back to a fenced room | a decision that may commit is fenced, delivered once, and a kick is for good |
| Work gate, `internal/transport/work_gate.go` | admitted tasks, closing, drained channel | Handler, Go, Close, Wait | every HTTP request and background worker | admission racing Close; cancellation outside the lock | no waiter early, none for ever, no task uncancelled |
| Process lifecycle, `cmd/knowoffd` | two gates, servers, text runtime, bonus worker | start, Shutdown | all of the above | who waits for whom; timeouts | success means quiescence, the stop ends |
| Wire protocol, `internal/transport/v2` | sequence numbers, snapshots | encode, decode, validate | handlers, client | resynchronisation | the engine's states are valid snapshots |
| Purchases and wallet, `internal/economy` | ledger, entitlements, rows of purchases and subscriptions, slots, provider work, tasks | verify, apply, refund, replace, acknowledge, spend, convert, correct | Google Play and App Store, clients, worker | answers that are late, lost or out of order; leases that end | no double credit or refund, no row that refuses the platform for ever |
| Authentication, `internal/auth` | accounts, installations, pairs of tokens, rotations, flows, links, session generations | bootstrap, refresh, bind, begin and complete a flow, revoke | handlers, provider | racing first sign-ins, repeated requests, revocation beside a flow | one identity, one live token of a line, nothing survives a revocation |
| Sanctions and guards, `internal/store/account_sanctions.go`, `internal/portal/guard*.go` | sanctions, freezes, deliveries | apply, lift, freeze, decide, deliver | sessions, lobby, browsers | a delivery beside a connection that is being opened | an enforced account has no open connection |
| Deletion and privacy journal, `internal/auth/deletion.go`, `internal/privacy` | capabilities, intents, requests, journal, minimum | enrol, intend, confirm, publish, bind, erase | provider, files, database | authority withdrawn meanwhile; loss of power between rename and sync | deleted only by authority; no suppression forgotten |
| Portal, `internal/portal` | roles, terms, submissions, topics, entries, votes, winners | apply, submit, review, schedule, vote, close | administrators, worker, screening service | screening outside the transaction, weeks closed out of order | what is public was reviewed, the winner stands, the crown is the latest |
| Reports, notices, profile, leaderboard pages, `internal/*` | rows | read, write | handlers | little | |
| Cutover controller and preflight, `cmd/*`, `internal/store/cutover_*` | transition steps | advance, resume | operators | crash between two steps | steps in order, resumable |
| Content, `pkg/*`; configuration; client; deployment | packs, files | load, certify, deal, render | | mostly pure or presentation | |

`PROJECT.json` lists every component with its status, and the hazards at the
line where each bites.

## 2. Modules

| Module | Models | Notes |
|---|---|---|
| `TextCards` | every operation of the engine that moves a card copy, in both representations (registry and lists), and the discipline under which the engine calls them (`CardsNext`) | the abstract specification that `TextMatch` implements |
| `TextMatch` | the engine: handlers as chains of steps under `serial`, clock, grace, ballots, specialties, verdict | extends `TextCards` |
| `TextAdmissions` | the value rows and the transactions on them, as pairs `MayOp`/`Op` | no variables; used by `TextOwner` and `TextLobby` |
| `TextOwner` | processes, advisory lock, fence, open transactions, takeover and recovery | extends `TextAdmissions` |
| `TextLobby` | `lobby.TextManager`: connections, queues, rooms, start and its compensation, leave, rematch, tick, drain, close | instantiates `TextAdmissions` for one owner |
| `RoomOperations` | an administrator's closes and kicks: decision, fence, resolution of a lost answer, delivery, restart, and the late clean-up of `Action` | extends `TextLobby`: every step of the lobby goes on around the fenced rooms |
| `TextSettlement` | the value of matches: awards, outcome, settlement, interruption, leaderboard week, deletion fence | one action per committed transaction |
| `TextBonus` | bonus eligibility, claims, callbacks, payment and its message | extends `TextSettlement`: both spend one daily cap |
| `Purchases` | verification of receipts and subscriptions, leases, refunds, acknowledgements, and the wallet with spending, conversion and corrections | the platform is external |
| `Accounts` | bootstrap, token pairs, rotation, binding, provider flows, links, session generations | |
| `Enforcement` | connections, sanctions, guards, their deliveries, browser sessions | extends `Accounts` |
| `Deletion` | capabilities, intents, confirmation, journal and minimum on disk, erasure of installations | extends `Enforcement` |
| `Contributions` | roles, terms, submissions and their review | extends `Deletion` |
| `Challenge` | topics, entries, votes, close of a week | extends `Contributions` |
| `WorkGate` | `transport.WorkGate`, one action per critical section | |
| `RuntimeShutdown` | `runtimeLifecycle.Shutdown` with the text drain, the bonus worker and both gates | extends `WorkGate` |
| `MC*` | the small instances TLC runs | definitions of constants only |
| `*Proofs` | theorems and proofs (section 4) | extend the module they are about; `PortalProofs` extends `AccountsProofs` too, `RuntimeShutdownProofs` holds those of `WorkGate` |

Definitions named `X_Something` in front of a definition `X` are deliberate
faults: each is a plausible mistake in the code that `X` models, and replacing
`X` by it makes the named property fail.  They are used by nothing else.

### How state and actions correspond to the code

**TextMatch.**  A variable is a field of `textState` or `textPlayer`
(`phase`=`Phase`, `turn`=`Turn`, `votes`=`Votes`, `offer`=`Offer`, ...).
`TextMatch.serial` serialises handlers, so a handler is the chain of steps
between two states with `pc = "idle"`; `pc` is the function being executed and
`steps` the iteration of `advance`'s loop.  Time is `expired` (now is at or
past `Deadline`) and, per seat, whether the grace runs or is due.  A refused
request changes nothing and has no action.  `Clients`, `Droppable` and
`Closable` bound which seats send what; they restrict the environment and
never the engine.

**TextCards.**  `zone`, `owner` and `reserved` are the registry
`textState.Copies`; `hand`, `reserve` and `board` the lists that name copies.
`Conservation` is what `validateState` checks between the two.

**TextAdmissions, TextOwner.**  `db` holds the rows; a transaction is the fence
that opens it (`Begin`) and its commit or rollback, several may be open at
once, and row locks make the body of one atomic.  `lock` is the advisory lock,
`current` the row of `text_process_current`; `TableFree` is the conflict of the
EXCLUSIVE lock of a takeover with the SHARE lock of the fence.  A process may
crash, lose its session without noticing, or pause for ever with a
transaction open.  The day and the access kind are chosen anew by every
transaction that reads them.

**TextLobby.**  `peers`, `members`, `queues`, `rooms` and `draining` are the
fields of `TextManager`, `db` the durable rows.  `m.mu` makes a handler atomic,
so a handler is one action, with everything it does at its end (`matchQueues`,
`elect`, `pruneFinishedRoom`).  A call to the value store inside it has three
outcomes: it commits and answers, commits and the answer is lost, or fails.
Operators such as `Releases` and `AbortPrepared` are the sets of these
outcomes, and an action picks one.  `Reserve` loses its answer only if
`ReserveReplyLost` is set (section 6).  Each visit of the loops of `tick`,
`cleanupDrain` and `Close` is an action of its own.  `bound` says that
`member.peer` is the account's connection; a connection is open, closed but
still registered, or unknown.  The queue is a map from accounts to entries: the
table asked for, the reservation and the place in the order (`order`), which
`Dequeue` counts anew as the slice of the code closes its gaps.

**WorkGate, RuntimeShutdown.**  One action per critical section of `g.mu`;
`Close` collects the cancel functions under the lock and calls them after it,
one per step.  In `RuntimeShutdown` one task of each sort stands for all:
request, WebSocket, clock, listener, bonus worker; a context is reduced to
whether it is done.

**RoomOperations.**  `pending` is `room.pendingOperator`, `excluded`
`room.excludedAccounts`, `ops` the rows of `admin_operation_decisions`.  A
decision whose answer is lost is `inflight`: it still holds its locks, commits
or rolls back later, and the probe of `ResolveRoomDecision` waits for it.
`Captured` is the application that `DecideRoomOperation` takes from the room;
`Deliver` retries it as `tick` does.  Every handler of the lobby refuses a
fenced room (`AroundFences`).  The deferred function of `Action` does not: it
unlocks a finished room (`ActionUnlocks`, which leaves it in `cleaning`), takes
`m.mu` again and prunes whatever it finds (`CleanUp`), a room that has been fenced
in between included.  It can delete that room, or take the seat of the player to
be kicked (`SeatGone`); the delivery of a kick from a match is then refused with
`ErrTextMembership`, and a kick that was already delivered only lifts the fence
(`CompleteGone`).  `Restart` ends the process: its successor has closed the rows of
the old one (`TextOwner`) before it admits anyone.  One bound is the instance's
and not the code's: no room is opened while a decision has no fence.

**TextSettlement, TextBonus.**  `books` are wallet ledger, day buckets, first
wins and receipts; `settlement` and `outbox` the rows per match and account;
`board` the weeks with entries, exclusions and history.  An action is a
committed transaction, taken any number of times with the same arguments,
because callers repeat what they lost the answer of.  The day of an award or
an outcome is any day since the start of the match: the engine fixes it and
retries later.  A ranked start makes and locks the row of its week and is
refused in a week that is cut off or closed; a week is known from its first
ranked start, outcome or cut-off (`WeekKnown`).  The lobby takes the time of a
start before it calls `Prepare` and `Start`, so a start may commit days after
the day it is dated (`StartTimes`), also when its week has been cut off
meanwhile.  How long the calls can take is bounded by a week: a start that
commits later belongs to a week whose successor is over, too.  Awards,
settlements, bonuses and the closing of weeks do not ask for the ownership of
the process, as in the code; the fence of starts and outcomes is in `TextOwner`.

**Purchases.**  `shop` is the platform, `row` the transaction or the
subscription observation, `slot` and `work` the two kinds of lease, `call` a
verification between its question and its transaction.  The client and the
worker each have one such call.  `LeaseEnds` is the deadline of a lease; the
holder learns of it when it finishes.  Only instants the code compares with
each other are counted: when a question was asked, when an answer was signed,
when a period ends.

**Accounts and the modules above it.**  A row of the database is a record, a
transaction is an action under the lock of the account row, and what the code
reads before its transaction (the bootstrap account, the owner of an identity,
an approval, a text that is screened) is a step before it, kept in `login`,
`flows`, `visit`, `review` or `task`.  `mutex` is `TextManager.mu`, under which
a connection validates its token and registers.  The history fields `line` and
`root` of a pair say from which pair and in which session generation its
authority comes.  `journal` and `minimum` hold what programs see and what a
loss of power may leave; `syncState` and `writeMinimum` make them agree.

### Abstractions

* Points, pokes, chat, history texts and per-viewer snapshots are left out of
  `TextMatch`; they do not influence its control.
* Trust, cooldown, binding and content-pack checks of the value store only
  refuse, and appear as the step not being taken.  "pass" stands for every
  access that consumes no free allowance.  In `TextOwner` account erasure and
  rows older than the generation column are left out.  The order in which
  recovery visits matches is free, and its batch limit (100) is larger than the
  instances, so a batch is "any one item, then done".

* In `TextLobby` a match is its phase: in play, ended but not yet durable
  (`finishing`, `interrupting`), or at its verdict.  `canMatch`, `access` and the
  reversible pauses only refuse, and appear as the step not being taken; in
  `matchQueues` they pass over any waiter.  `elect` may take any connected seat,
  the code takes the one that joined first.  Revisions are replaced by what
  they do: a change of settings or membership clears the ready marks.  `Tidy`
  drops closed rows that neither a seat nor a queue entry names, so that ids
  stand for fresh ones and the lobby runs without a bound on its history.
  Every durable call is answered or fails before its handler returns; a commit
  that arrives later and the loss of the process authority are left out.
* Points of a match count as one in `TextSettlement`, every award has the amount
  of its kind, and the order of equal totals in a ranking is left out.
* In `Purchases` all bundles have one price and one amount; signatures, HTTP and
  product catalogues only refuse.  The ledger is a bag of rows.
* Tokens, secrets and proofs of installations are names: a forged one is a
  request that is refused.  Guards are not told apart: `FreezeAccount` stands
  for the freeze of any of them, beside the freezes there are.  The lifetime of
  tokens, flows, freezes, sanctions and browser requests is a step of the
  environment that may come at any time.
* In `Challenge` the leader among equal totals is any of them (the code takes
  the earliest), and a topic has the number of its week.

## 3. Runs

| Run | Instance | Shows |
|---|---|---|
| `Voting` | Top That, 4 seats, all vote, seat 0 plays, one may drop, the server may close | the announced result is that of the votes, the verdict is justified, a late reconnect does not hide an abandonment |
| `Trade` | Bad Bargains, two proposers, a shuffle, one seat or every seat may drop | `TextMatch` implements `TextCards` (`FollowsCards`); the engine's own validation accepts every state; no handler gets stuck or exhausts the budget of `advance` |
| `MakeRoom` | one reserve card per seat, granted specialties of every kind, none or one seat flapping | cards conserved; every match reaches a verdict; award receipts are never swallowed |
| `Shutdown` | one task of each sort, 2 matches, with (`hurried`) and without expiring contexts | no waiter early, none for ever; success means quiescent; without expiry it succeeds |
| `Ownership` | 2 processes, 2 connections, 2 accounts, 2 admissions, 1 match, 2 days | one writer; recovery complete; ready only when clean; rows linked; counts exact over midnight |
| `Lobby` | 2 accounts, 2 rooms, tables for one and for two; accounts and rooms symmetric | an account sits once; no reservation or match is left that nothing cleans up; a seat is kept until its verdict is durable |
| `RoomOperations` | one operation; two accounts at one table, or one account with queues, two sizes and a drain | no lost answer lifts the fence of a decision that may take effect; a kick is for good; decisions are delivered and closed connections cleaned up, unless a late clean-up overtook the decision |
| `LostReply` | 2 accounts, 1 room, and `Reserve` may lose its answer | *violated*: see section 6 |
| `LateCleanUp` | one account, a table for one, one operation | *violated*: see section 6 |
| `Settlement` | one account, two matches on two days that are two weeks, one advertisement | books, cap, bonus, weeks and deletion, as section 1 lists them |
| `Purchases` | a client and the worker; four plans: Noin with spending and corrections; Noin with failures and deletion; a subscription and its replacement; a subscription of Apple | the wallet is exact; no row is stuck; Premium rests on sources in force |
| `Accounts` | 2 accounts, 2 installations, twelve plans (below) | the eight properties of accounts, deletion and the portal |

**Plans.**  The constants `Plans` and `Scenarios` hold what the environment of
a behaviour may ask for; the initial state chooses one.  Requests that meet in
no shared state are put into different plans, so that their interleavings add
up instead of multiplying; a plan never restricts what the code does with a
request.  `Accounts` has plans for the first sign-in of installations with
rotation; tokens from before installations; provider flows beside a sanction;
connections beside sanctions, and beside guards; browsers beside sanctions with
rotation, and beside guards; deletion with failures and losses of power, and
with revocations; roles; review together with the topics made of what was
approved; entries of the challenge.  The plan of roles has no property of its
own: it shows that an account comes to the roles and terms which the plan of
review starts from.

**Why the bounds are enough.**  Four seats have two rounds, two votes and one
donower, the smallest legal table; every phase, a runoff, a miss, an
elimination, a second round and both outcomes occur.  Each card run gives every
seat the fewest cards that still allow each move of its mode.  Each run
restricts who acts, and the runs together take every action.  Two processes give
an owner and a successor that takes over while the first is paused in a
transaction or has lost its session without noticing; with two connections the
two have transactions open at the same time.  What three processes could add, a
chain of takeovers, is covered by the proofs of `TextOwnerProofs`.  Two days
suffice because an admission remembers one day.  The lobby's tables hold one and
two, the smallest that can shrink, grow, stay half full and be refilled: two
accounts share a room, replace each other in a rematch, and are matched from the
queue by each other's requests, and with two rooms each can also be in a room of
its own while the other's match ends.  Nothing in the lobby compares more than
two accounts.  `Lobby` has one admission id more than the correct lobby ever
needs, and uses symmetry, which is sound because it checks no liveness and no
constant or definition tells accounts or rooms apart.  In `Settlement` the rows
of two accounts meet only through the match and the week, which lock and never
add them up, so one account with two matches is enough: they share its wallet, a
day and the cap, which four awards and their bonus exceed, or lie in two weeks.
A week has one day there, so that a start of day 0 may commit on day 1, before
and after week 0 is cut off.  In `Purchases` two concurrent calls and three
questions allow an answer to be overtaken by another and by the end of its
lease, and a third to find what they left.  In `Accounts` two callers race for
one installation, two deliveries and two decisions for one connection, a
capability is replaced once while the first intent on it is open, two
administrators review one submission, and two weeks are closed in both orders.

**Deadlock** is not checked: a finished match, a stopped process and a system
that used up its supply of ids or questions stop legitimately.

**Fairness.**
* `TextMatch`: a handler that was entered continues (`WF Step`); `Advance` is
  called by the lobby's 100 ms tick (`WF Advance`); time passes, so the
  deadline of a phase is reached unless the phase is re-entered again and
  again, each time with a fresh deadline (`[]<>PhaseEntered \/ SF DeadlinePasses`).
  Nothing is assumed of players.
* `RuntimeShutdown` with its gates: a cancelled worker returns, a request is
  answered, the shutting-down goroutine runs, contexts expire, and the clock
  ends matches as long as it runs.  Nothing forces a worker to return before it
  is cancelled.
* `TextOwner`: `recoverTextRuntime` repeats batches until one reports nothing
  left, so a recovering process opens its transactions (`WF Begin`), an item
  that is again and again offered is eventually taken (`SF`), and a
  transaction of a dead process is rolled back by the database.
* `RoomOperations`: `Run` calls `tick` every 100 ms, and `tick` visits every
  closed connection, every pending abort and every fenced room.  A durable call
  tried again and again is eventually answered, so the successful outcome of
  each retry is taken infinitely often if it stays possible (`SF`); a
  transaction in flight ends, and a probe that is answered is acted upon
  (`WF`).  No match has to end and no player has to act.
* The modules of value, purchases, accounts and the portal state safety only.
  That what they leave undone can still be done is stated as an invariant where
  it matters: `NeverStuck`, `BonusExact` and `ClosedWeekComplete` say that the
  next attempt would not be refused.

## 4. Proofs

All theorems hold for every value of the constants that satisfies the named
assumptions, which TLC evaluates on the instance of every run: the sets have no
bound, and neither have the plans and scenarios, so that what the runs split
into separate behaviours is proved of all of it together.  Beside the ranges of
numbers the assumptions say that a name for "none" is not an element of the
set it completes, that admissions and accounts are finitely many, and what a
deal, a table or the two gates of the process are.

| Module | Specification | Inductive invariant | Properties of the runs that follow |
|---|---|---|---|
| `TextMatchProofs` | `CardsSpec`, `Spec` | `CardsInv`, `MatchInv` | `Conservation`, `FollowsCards`, `CountedBallot`, `SnapshotValid`, `VerdictJustified`, `NoLostAbandon`, `AwardsFresh` |
| `RuntimeShutdownProofs` | `GateSpec`, `Spec` | `GateInv`, `StopInv` | `JoinedAfterCompletion`, `SuccessMeansQuiescent` |
| `TextOwnerProofs` | `Spec` | `OwnerInv`, with the allowance `OwnerInv /\ Quota(db)` | `OneWriter`, `ReadyMeansClean`, `LinkedAdmissions`, `QuotaExact` |
| `RoomOperationsProofs` | `Spec` of `TextLobby`, `OpsSpec` | `LobbyInv`, `RowsInv`; `OpsInv` | `SeatedOnce`, `NoOrphan`, `SeatKeptUntilVerdict`; `DecisionsFenced`, `KickedStaysOut` |
| `TextBonusProofs` | `BonusSpec` | `ValueInv` | `BonusExact`, `ClosedWeekComplete`, `ErasedStaysErased` |
| `PurchasesProofs` | `BillingSpec` | `BillingInv` | `NeverStuck`, `PremiumInForce` |
| `AccountsProofs` | `DeletionSpec` | `AccountsInv` | (used by `PortalProofs`) |
| `PortalProofs` | `PortalSpec` | `AccountsInv`, `SubmissionInv /\ ContestInv` | `OneIdentity`, `AuthorityFresh`, `SanctionHolds`, `SuppressionKept`, `DeletedByAuthority`, `PublicIsReviewed`, `WinnerStands`, `CrownLatest` |

Why the properties alone are not enough, and what the invariants add:

* **Cards.**  `Conservation` alone is not inductive: a new round puts seeds on
  the board and must know that no copy among them has been used, a shuffle must
  know the shape of the board of its mode, and an offer exists only in Bad
  Bargains.  `CardsInv` adds `FutureSeeds`, `BoardTyped` and `OfferMode`; there
  is one lemma per move.
* **Engine.**  `EngineFollowsCards` is the refinement: every step of the engine
  is a step of `TextCards` or moves no card, and so inherits `Conservation`.  It
  needs `EngineInv`, which says of every value of `pc` which handler is running,
  in which phase, and what it has already decided: the shape of an offer, whose
  turn it is and that the order lists the active seats.  `BoardShape` and
  `BoardSeats` keep the board the size of its mode.  `RoundInv` ties the votes
  that remain and the seats out to the round, so that the verdict is reached;
  `BallotInv` lets a ballot hold votes of connected seats only, but for the seat
  that is being dropped, from which `CountedBallot` follows when a ballot is
  resolved.  `GraceInv` says that an absence is recorded before a reconnect can
  forget it.  `BudgetInv` counts the iterations of `advance` by phase and round:
  a table with nobody connected runs four of them a round, and any other stops
  at its first fresh deadline.  `BudgetSufficient` (the loop always has an
  iteration left, so "advance budget exceeded" is unreachable) and
  `PoolSufficient` (a shuffle always finds a card for every place) are the two
  ways in which a handler could fail half-way; that every state inside a handler
  has a next step (`HandlerCompletes`) needs ENABLED and stays with TLC.
  `VerdictJustified`, `NoLostAbandon` and `AwardsFresh` are action properties,
  proved of every step from `MatchInv`.
* **Gates and shutdown.**  `GateInv` relates the task map to the program
  counters, the drained channel to the map, and the cancel functions `Close` has
  still to call to the workers not yet cancelled; `WaitIsSound`,
  `DrainedIsExact` and `CloseCancelsAll` follow.  `StopInv` adds what every
  stage of `Shutdown` has made sure of unless it noted an error (`StagesDone`)
  and that the workers are joined after the requests (`JoinsInOrder`).
  `SuccessMeansQuiescent` needs both: a stage is left only when its work is
  done, and the gates' own invariant says that a join that succeeded leaves
  nobody.
* **Ownership.**  `OwnerInv` is the conjunction of `Sound` (types, links and
  single admissions of the rows), `Registry` (lost and recovered owners against
  the current one), `Transactions` (open transactions belong to the current
  owner) and `Attributed` (open rows belong to owners that may still have
  work).  Row lemmas say of every `Op` that it keeps the rows sound and opens
  rows of the committing process only; the step lemmas use nothing else about
  the rows.  `Quota` is exact because every `Op` changes the count of a day by
  the number of admissions that it makes count, or stop counting: the proof adds
  and removes disjoint finite sets.
* **Room operations.**  `DecisionsFenced` is an action property: a step may not
  leave a decision that may take effect without the fence it had.  A fence is
  dropped in three places only: after a probe that found nothing, which waits
  for a decision in flight; with its own decision; and when the clean-up of an
  `Action` deletes the room, the exception that the property names
  (`CleanedAway`).  The first two need only the types of the rows
  (`FenceTypes`), the third that fences are fences of rooms (`Fences`, below);
  `FencesKept` is what the lemma of each step proves.  Two fences may carry one
  operation, when the first was tried and rolled back; the proof shows that this
  does no harm.
* **Lobby.**  `SeatedOnce` alone is not inductive: `SeatOf` chooses a seat of an
  account, and only if there is one seat does freeing it free the account.
  `LobbyInv` says that the order of a queue has no gaps and no ties, that every
  room fits its table (`Fits`) with one account on a seat (`Apart`), that
  `members` and the seats name each other (`Placed`), that nobody waits and
  sits, and that a seat is bound only for a registered connection.  The last
  part is about `peers`, which a handler changes at another place than the
  seats.  What a step may do is said once, in `Moves` (everybody is placed
  again, no member changes rooms, and a seat is newly bound only for a current
  connection, of an account that was no member or takes its own seat again) and
  `Attached` (who is bound keeps the connection); each action has one lemma that
  it is such a step, whatever its durable calls answer.  The hardest of them is
  `matchQueues` (`Matched`): the seats that `assign` fills are free, as many as
  came, and each of them for another account, which is an argument about
  cardinalities and the places in the queue.
* **Rows of the lobby.**  `NoOrphan` needs more than the rows that are open:
  what a failed call left behind decides what the next one may find.  `RowsInv`
  says that a row and its match are in step (`LinksOK`: a linked row is always
  in the state that the state of its match implies), that the id a queue entry
  or a seat remembers is a row of the same account, linked to no other match than
  that of the room (`EntryOK`, `SeatOK`), and that a room knows of its match what
  it must: the phase bounds the state of the row (`RunOK`), a match still to be
  aborted was prepared for exactly the seats of the full table or never prepared
  (`AbortOK`), and no match belongs to two rooms.  The step of a room has one of
  two shapes, each a predicate with a lemma: the room `Goes` on and still names
  every row and match that is open, or it is `Gone` with all of them closed.
  There is one lemma per durable call (what it does to the rows), per helper
  (`AbortGoes`, `EndsGoes`, `ForgetsGoes`: the room goes on whatever is answered)
  and per action.  A seat is only ready with a reservation unless an abort is due
  or the process drains, so `Start` links every seat.  `NoOrphanMatch` and
  `SeatKeptUntilVerdict` hold whether or not answers to `Reserve` are lost;
  `NoOrphanHolds` assumes that none is, which the run `LostReply` shows to be
  necessary.
* **Kicks.**  `OpsInv` adds `Fences` (a fence names a room, and a kick a player
  of it, unless the match is at its verdict: the clean-up prunes finished rooms
  only, and takes the fence along with the room) and `Outs` (nobody excluded is
  connected to a seat, and a room that is gone excludes nobody, so that its id
  can name a fresh one).  `KickedStaysOut` follows although the seat of a kicked
  player may stay until the verdict: its connection is closed in the step that
  excludes it, and no handler of the lobby binds the seat of an excluded account.
  `LobbyStep`, the steps of `TextLobby` around the fences, inherits `Moves` and
  `Attached` from the lemmas about `Next`; so `SeatedOnce` holds of `OpsSpec`,
  too.
* **Value.**  `ValueInv` adds to the three properties that nothing is settled
  before its match ended (`NothingEarly`), that a settlement reports exactly the
  receipts of its match (`SourcesAgree`, from which a due bonus is never
  refused), that a payment follows a result (`PaidOnResult`), and that a week is
  cut off only when it is over (`CutOffOverdue`).  A start dated before the
  cut-off is refused after it, which is what `ClosedWeekComplete` rests on; and
  no later week is cut off by then, because a start commits within a week of its
  date (`WeekGap`).
* **Purchases.**  The invariant relates three clocks: what the platform says,
  what an answer under way says, and what a row has recorded.  `RowsTold` and
  `CallsTold` say that both were true of the platform once (`Agrees`) and are
  dated by now (`Dated`); a later observation is then newer or says the same,
  and the conflict checks cannot refuse it.  `Projected` and `Replaced` carry
  Premium.
* **Accounts.**  `TokensInv` gives ids once, lets a line of pairs have one live
  end, and makes a receipt of a rotation belong to its account.  `AuthorityInv`
  dates every approval.  `ModerationInv` says what holds while a connection is
  being opened: `MutexHeld` (who validates holds the lobby's lock) and
  `NoneBarred` (what is open, or validated and about to be registered, is not
  barred by a delivered decision), without which `SanctionHolds` is lost when
  the peer is registered.  `DeletionInv` dates capabilities and intents against
  revocations.  `JournalInv` orders the four contents of the files, each a
  prefix of the next, and says who may be writing.
* **Portal.**  `SubmissionInv` and `ContestInv` say of every task between its two
  transactions what it has screened, that the text of an approved submission is
  final, that a winner's entry cannot change, and that the crown is the greatest
  week that was won.  `AccountsInv` is not disturbed by the portal, whose steps
  leave the accounts alone or erase one (`Elsewhere`).

Where TLC can evaluate an inductive invariant it was first confirmed on the
instance of a run; parts that speak of all values at once, like `Moves`, have
only their proof.

**Only model-checked**

* liveness, and `HandlerCompletes`, which uses ENABLED (its two kernels of safety,
  `BudgetSufficient` and `PoolSufficient`, are proved);
* `Reconciled` with `DailyCap`, and `PurseExact`: they compare a balance with a
  sum over the rows of a ledger.  The sum is a fold, and what it becomes when a
  row is added needs induction over the set.

## 5. Plan

Modelled and checked so far are the modules of section 2, and proved what
section 4 lists.  Next, in order: (1) the event stream of a connection: sequence
numbers, epochs and resynchronisation; (2) the request table of the engine and
of a connection; (3) the reading and acknowledging of the outbox; (4) the
durable drain request and the release inventory.  To prove: the rows of the
lobby under `OpsSpec`, whose deliveries end rooms at once; a property of roles
and terms, which are only modelled as far as the review needs them.  Abstract
specifications worth stating: an admission ledger that lobby and store together
implement, and an exactly-once award ledger for settlement.

## 6. Findings

`LostReply`: the transition design says that a failed setup or queue change
releases its reservation.  `reserve` draws the id, and its callers drop it when
`Reserve` returns an error.  If the transaction committed and only the answer
was lost, the reservation stays: the store refuses a second one, so the account
can neither queue nor create nor join until another process takes over and
recovers it.  `start` guards against the same loss for `Prepare` by keeping the
match id in `pendingAbort`; with answered `Reserve` calls the property holds
(`Lobby`).

`LateCleanUp`: the comments of `text_operator.go` (lines 14 and 64) say that a
decision which could not be delivered at once stays pending and is retried.  The
deferred function of `Action` releases the room before it takes the manager's
lock to prune it, and never looks at `pendingOperator`.  If an administrator
decides about the finished room in between, the clean-up may delete the room,
which `retryRoomOperation` then does not find, or the seat of the player to be
kicked, which it answers with `ErrTextMembership` in every pass.  The decision
stays pending, and in the second case the room stays fenced and its members are
passed over by `tick`, until the process ends.  `OperationsDelivered` and
`ConnectionsReaped` hold of everything else.

Three further behaviours were met while modelling and have no run of their own.
The blueprint (section 7, rule 3) and `tuning.yaml` (line 25) say that a match
with fewer than three connected seats waits for the graces.  The code ends such a
match once the graces are over, but does not wait before: phases go on, absent
seats count as ready, and a ballot can complete the match.  A room close that
captures the match id of a start which failed before `Prepare` committed looks
for a row that does not exist; its delivery fails each time and `tick` passes
over the fenced room, so that only a restart ends it (`NoRow` in
`RoomOperations`, which its two liveness properties exempt).  And a week of the
challenge whose leading entry belongs to a deleted account is never closed: the
lock of the winner's account fails, the worker meets the same entry in every
pass, and after the week no administrator can reject the entry, because
`decideChallengeEntry` asks for an open topic.

## 7. Not modelled

* Content loading, certification and dealing (the deal is a constant), decoding
  and encoding, rendering, configuration, schema migration, provider clients
  and deployment are I/O or pure data.  The client only displays what the
  server decided; the load bots are a test tool.
* The cutover controller, the preflight and the release inventory are run once
  by one operator with the servers stopped; nearly all of their text is SQL
  that compares inventories, which a model would have to copy.
* Cooldown and trust only refuse a reservation, by arithmetic on time windows;
  the models allow the refusal at any time.
* The claims and acknowledgements of the outbox and of bonus messages change no
  value; request receipts of a connection and of the engine (`Requests`), the
  history limit and the sequence numbers of the stream are in the plan or, the
  limit, beyond any instance that can be checked.
* Reports, notices, profiles, avatars and leaderboard pages are single
  statements over one row.
* The signature checks of tokens, receipts, callbacks and journal records are
  taken as given.
