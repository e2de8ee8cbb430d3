----------------------------- MODULE Challenge -----------------------------
(***************************************************************************)
(* The weekly challenge (portal/challenge.go, challenge_lifecycle.go):     *)
(* topics that administrators schedule, entries of players and their       *)
(* review, votes, and the close of a week with its prize and the crown.    *)
(*                                                                         *)
(* Intake, review, voting and close lock the row of the topic.  What is    *)
(* screened is read before the transaction; the worker runs every minute   *)
(* with the time it read at the start of its pass, may stop anywhere and   *)
(* visits topics again, and administrators may close a week themselves, so *)
(* that weeks are closed in any order.  A topic has the number of its      *)
(* week, an entry its week and the account.                                *)
(***************************************************************************)
EXTENDS Contributions

CONSTANTS
    MaxWeek,           \* bound on the weeks that have a topic
    MaxEntries,        \* maxChallengeEntries
    Worker             \* RunCommunityMaintenance

ASSUME ChallengeAssumption ==
    MaxWeek \in Nat \ {0} /\ MaxEntries \in Nat \ {0} /\ Worker \notin Admins

VARIABLES
    now,        \* the week it is
    topic,      \* challenge_topics
    entry,      \* entry[w][a]: challenge_entries
    vote,       \* vote[w][a]: the entry that a voted for; vote_count counts them
    prizes,     \* prizes[w]: challenge_winners with its title and payout
    crown,      \* challenge_current_winner: the week, or 0
    task        \* task[x]: what x had screened, before its transaction

challengeVars == <<now, topic, entry, vote, prizes, crown, task>>
portalVars == <<allVars, contributionVars, challengeVars>>

Weeks == 1..MaxWeek
NoTopic == [state |-> "none", source |-> 0, revision |-> NoContent, activated |-> FALSE, winner |-> NoAccount]
NoEntry == [status |-> "none", content |-> NoContent]
NoTask == [pc |-> "idle", week |-> 0, source |-> 0, account |-> NoAccount, content |-> NoContent, at |-> 0]

(* When entries are asked for, the topics were scheduled before.            *)
ChallengeInit ==
    /\ now = 1
    /\ topic = [w \in Weeks |->
          IF Asked("challenge")
            THEN [NoTopic EXCEPT !.state = "open", !.source = 1, !.revision = sub[1].content, !.activated = w = 1]
          ELSE NoTopic]
    /\ entry = [w \in Weeks |-> [a \in AccountIds |-> NoEntry]]
    /\ vote = [w \in Weeks |-> [a \in AccountIds |-> NoAccount]]
    /\ prizes = [w \in Weeks |-> 0]
    /\ crown = 0
    /\ task = [x \in Admins \cup {Worker} |-> NoTask]

-----------------------------------------------------------------------------
(* Topics.                                                                  *)

\* Mutant: a topic is open for the whole week.
topicOpen_Week(w, at) == topic[w].state # "none" /\ at = w

topicOpen(w, at) == topic[w].state = "open" /\ at = w

Source(i) == sub[i].status \in {"approved", "published"}

Begin(x, t) == x \in admins \cup {Worker} /\ task[x].pc = "idle" /\ task' = [task EXCEPT ![x] = t]
End(x) == task' = [task EXCEPT ![x] = NoTask]

screenTopic(m, w, i) ==
    /\ Source(i) /\ screenText(sub[i].content)
    /\ Begin(m, [NoTask EXCEPT !.pc = "topic", !.week = w, !.source = i, !.content = sub[i].content])
    /\ UNCHANGED <<now, topic, entry, vote, prizes, crown>>

(* One topic a week; it is active at once when its week has begun.          *)
CreateChallengeTopic(m) ==
    /\ task[m].pc = "topic"
    /\ LET t == task[m]
       IN topic' = IF /\ LockAdmin(m, {}) /\ Source(t.source) /\ sub[t.source].content = t.content
                      /\ topic[t.week].state = "none"
                   THEN [topic EXCEPT ![t.week] = [state |-> "open", source |-> t.source, winner |-> NoAccount,
                           revision |-> t.content, activated |-> now = t.week]]
                   ELSE topic
    /\ End(m)
    /\ UNCHANGED <<now, entry, vote, prizes, crown>>

(* The worker activates a topic whose week has begun.                       *)
screenActivation(w) ==
    /\ topic[w].state = "open" /\ ~topic[w].activated /\ now = w
    /\ Source(topic[w].source) /\ screenText(sub[topic[w].source].content)
    /\ Begin(Worker, [NoTask EXCEPT !.pc = "activate", !.week = w, !.content = sub[topic[w].source].content, !.at = now])
    /\ UNCHANGED <<now, topic, entry, vote, prizes, crown>>

activateChallengeTopic ==
    /\ task[Worker].pc = "activate"
    /\ LET t == task[Worker]
           source == sub[topic[t.week].source]
       IN topic' = IF /\ topicOpen(t.week, t.at) /\ Source(topic[t.week].source)
                      /\ source.content = t.content /\ topic[t.week].revision = t.content
                   THEN [topic EXCEPT ![t.week].activated = TRUE] ELSE topic
    /\ End(Worker)
    /\ UNCHANGED <<now, entry, vote, prizes, crown>>

-----------------------------------------------------------------------------
(* Entries and votes.                                                       *)

Entered(w) == {a \in AccountIds : entry[w][a].status \notin {"none", "rejected"}}

SubmitChallengeEntry(a, w, c) ==
    /\ topicOpen(w, now) /\ authorizePortalWriteTx(a, "")
    /\ entry[w][a].status = "none" /\ Cardinality(Entered(w)) < MaxEntries
    /\ entry' = [entry EXCEPT ![w][a] = [status |-> "submitted", content |-> c]]
    /\ UNCHANGED <<now, topic, vote, prizes, crown, task>>

screenEntry(m, w, a) ==
    /\ entry[w][a].status = "submitted" /\ screenText(entry[w][a].content)
    /\ Begin(m, [NoTask EXCEPT !.pc = "entry", !.week = w, !.account = a, !.content = entry[w][a].content])
    /\ UNCHANGED <<now, topic, entry, vote, prizes, crown>>

ApproveChallengeEntry(m) ==
    /\ task[m].pc = "entry"
    /\ LET t == task[m]
           e == entry[t.week][t.account]
       IN entry' = IF /\ topicOpen(t.week, now) /\ LockAdmin(m, {})
                      /\ e.status = "submitted" /\ e.content = t.content
                   THEN [entry EXCEPT ![t.week][t.account].status = "approved"] ELSE entry
    /\ End(m)
    /\ UNCHANGED <<now, topic, vote, prizes, crown>>

(* An approved entry may be rejected too; its votes stay.                   *)
RejectChallengeEntry(m, w, a) ==
    /\ topicOpen(w, now) /\ LockAdmin(m, {})
    /\ entry[w][a].status \in {"submitted", "approved"}
    /\ entry' = [entry EXCEPT ![w][a].status = "rejected"]
    /\ UNCHANGED <<now, topic, vote, prizes, crown, task>>

(* One vote a week, which cannot be changed.  A block between two players   *)
(* is one of the refusals.                                                  *)
VoteChallengeEntry(a, w, b) ==
    /\ topicOpen(w, now) /\ authorizePortalWriteTx(a, "")
    /\ a # b /\ entry[w][b].status = "approved" /\ vote[w][a] = NoAccount
    /\ vote' = [vote EXCEPT ![w][a] = b]
    /\ UNCHANGED <<now, topic, entry, prizes, crown, task>>

-----------------------------------------------------------------------------
(* The close of a week.                                                     *)

voteCount(w, a) == Cardinality({b \in AccountIds : vote[w][b] = a})
Approved(w) == {a \in AccountIds : entry[w][a].status = "approved"}

(* The code takes the earliest of them.                                     *)
Leaders(w) == {a \in Approved(w) : \A b \in Approved(w) : voteCount(w, b) <= voteCount(w, a)}

\* Mutant: the crown goes to the week that is closed last.
crowned_Last(w) == w

(* Weeks that are closed late leave the crown where it is.                  *)
crowned(w) == IF w > crown THEN w ELSE crown

(* by is an administrator or the worker; a closed week is answered from its *)
(* row.  The account of the winner must not be deleted.                     *)
closeChallengeWeek(by, w, at) ==
    /\ topic[w].state = "open" /\ at >= w /\ (by = Worker => at > w)
    /\ \E winner \in IF Approved(w) = {} THEN {NoAccount} ELSE Leaders(w) :
         /\ IF by = Worker THEN winner \notin erased ELSE LockAdmin(by, {winner})
         /\ topic' = [topic EXCEPT ![w].state = "closed", ![w].winner = winner]
         /\ prizes' = IF winner = NoAccount THEN prizes ELSE [prizes EXCEPT ![w] = @ + 1]
         /\ crown' = IF winner = NoAccount THEN crown ELSE crowned(w)
    /\ UNCHANGED <<now, entry, vote, task>>

NextWeek ==
    /\ now <= MaxWeek /\ now' = now + 1
    /\ UNCHANGED <<topic, entry, vote, prizes, crown, task>>

-----------------------------------------------------------------------------
TopicStep(w) ==
    \/ screenActivation(w)
    \/ \E m \in Admins, i \in SubmissionIds : screenTopic(m, w, i)

EntryStep(w) ==
    \/ \E m \in Admins, a \in AccountIds : screenEntry(m, w, a) \/ RejectChallengeEntry(m, w, a)
    \/ \E a \in AccountIds :
         \/ \E c \in Contents : SubmitChallengeEntry(a, w, c)
         \/ \E b \in AccountIds : VoteChallengeEntry(a, w, b)

CloseStep(w) ==
    \/ \E at \in {now - 1, now} : closeChallengeWeek(Worker, w, at)
    \/ \E m \in Admins : closeChallengeWeek(m, w, now)

Compete ==
    \/ Asked("topic") /\ \E w \in Weeks : TopicStep(w)
    \/ Asked("challenge") /\ \E w \in Weeks : EntryStep(w)
    \/ \E w \in Weeks : CloseStep(w)
    \/ \E m \in Admins : CreateChallengeTopic(m) \/ ApproveChallengeEntry(m)
    \/ activateChallengeTopic \/ NextWeek

PortalInit == DeletionInit /\ ContributionsInit /\ ChallengeInit

PortalNext ==
    \/ DeletionNext /\ UNCHANGED <<contributionVars, challengeVars>>
    \/ (Asked("role") \/ Asked("review")) /\ Contribute /\ UNCHANGED <<deletionVars, challengeVars>>
    \/ /\ Asked("topic") \/ Asked("challenge")
       /\ UNCHANGED deletionVars
       /\ \/ Compete /\ UNCHANGED <<enforcementVars, contributionVars>>
          \/ (\E a \in AccountIds : AccountDeleted(a)) /\ UNCHANGED challengeVars

PortalSpec == PortalInit /\ [][PortalNext]_portalVars

-----------------------------------------------------------------------------
(* Properties.                                                              *)

(* Nothing that players see was not screened and approved: a submission, an *)
(* entry, or the source of an active topic, which is the text that was      *)
(* scheduled.                                                               *)
PublicIsReviewed ==
    /\ SubmissionsReviewed
    /\ \A w \in Weeks : \A a \in Approved(w) : entry[w][a].content \notin Flagged
    /\ \A w \in Weeks : topic[w].activated =>
         Source(topic[w].source) /\ sub[topic[w].source].content = topic[w].revision

(* The result of a closed week stands: its winner is approved and no entry  *)
(* has more votes, however reviews, votes and rejections raced the close,   *)
(* and the prize was given once.                                            *)
WinnerStands ==
    \A w \in Weeks :
      /\ topic[w].state = "closed" =>
           IF topic[w].winner = NoAccount THEN Approved(w) = {} ELSE topic[w].winner \in Leaders(w)
      /\ prizes[w] = IF topic[w].winner = NoAccount THEN 0 ELSE 1

(* The crown is that of the latest week with a winner, in whatever order    *)
(* the worker and the administrators close the weeks.                       *)
CrownLatest ==
    crown = Max({0} \cup {w \in Weeks : topic[w].winner # NoAccount})
=============================================================================
