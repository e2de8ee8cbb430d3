---------------------------- MODULE PortalProofs ----------------------------
(***************************************************************************)
(* The accounts and the portal are safe for any sets of accounts,          *)
(* installations, connections, browsers, administrators, submissions and   *)
(* weeks.  Each part has an inductive invariant of its own and a lemma     *)
(* that every step of the composition keeps it; a part is concerned by few *)
(* of the actions and left alone by the others.                            *)
(***************************************************************************)
EXTENDS Challenge, AccountsProofs

-----------------------------------------------------------------------------
(* Submissions and their review.                                            *)

Texts == Contents \cup {NoContent}
SubmissionRow ==
    [owner : AccountIds \cup {NoAccount},
     status : {"none", "draft", "submitted", "approved", "rejected", "published"},
     content : Texts, terms : Nat, shown : Texts]
ReviewRow == [pc : {"idle", "form", "screened"}, id : SubmissionIds \cup {0}, content : Texts]

SubmissionTypes ==
    /\ terms \in Nat
    /\ sub \in [SubmissionIds -> SubmissionRow]
    /\ credits \in [SubmissionIds -> Nat]
    /\ review \in [Admins -> ReviewRow]

(* A review under way is about a submission, and what it had screened has   *)
(* passed.                                                                  *)
Reviewing ==
    \A m \in Admins :
        /\ review[m].pc # "idle" => review[m].id \in SubmissionIds
        /\ review[m].pc = "screened" => review[m].content \notin Flagged

SubmissionInv == SubmissionTypes /\ Reviewing /\ SubmissionsReviewed

(* What is approved is final.                                               *)
SourcesKept ==
    \A i \in SubmissionIds : Source(i) => Source(i)' /\ sub'[i].content = sub[i].content

(* A behaviour starts with no submission, or with one that was approved.    *)
LEMMA SubmissionStart == ContributionsInit => SubmissionInv
<1> SUFFICES ASSUME ContributionsInit PROVE SubmissionInv
  OBVIOUS
<1> USE AccountsAssumption, ContributionAssumption
<1>1. PICK c \in Contents \ Flagged :
        sub = [i \in SubmissionIds |->
                 IF Asked("challenge")
                   THEN [owner |-> CHOOSE a \in AccountIds : TRUE, status |-> "approved",
                         content |-> c, terms |-> 1, shown |-> c]
                 ELSE NoSubmission]
  BY DEF ContributionsInit
<1>2. (CHOOSE a \in AccountIds : TRUE) \in AccountIds
  OBVIOUS
<1>3. SubmissionTypes
  <2>1. sub \in [SubmissionIds -> SubmissionRow]
    BY <1>1, <1>2 DEF SubmissionRow, NoSubmission, Texts
  <2>2. credits \in [SubmissionIds -> Nat] /\ terms \in Nat
    BY DEF ContributionsInit
  <2>3. review \in [Admins -> ReviewRow]
    BY DEF ContributionsInit, ReviewRow, NoReview, Texts
  <2> QED
    BY <2>1, <2>2, <2>3 DEF SubmissionTypes
<1>4. Reviewing
  BY DEF ContributionsInit, Reviewing, NoReview
<1>5. SubmissionsReviewed
  <2>1. CASE Asked("challenge")
    BY <1>1, <2>1 DEF ContributionsInit, SubmissionsReviewed
  <2>2. CASE ~Asked("challenge")
    BY <1>1, <2>2 DEF ContributionsInit, SubmissionsReviewed, NoSubmission
  <2> QED
    BY <2>1, <2>2
<1> QED
  BY <1>3, <1>4, <1>5 DEF SubmissionInv

(* A step that leaves the submissions alone.                                *)
LEMMA SubmissionFrame ==
  ASSUME SubmissionInv, UNCHANGED submissionVars, terms' \in Nat
  PROVE  SubmissionInv' /\ SourcesKept
BY DEF SubmissionInv, submissionVars, SubmissionTypes, Reviewing, SubmissionsReviewed, SourcesKept,
       Source

(* A submission that its owner or a reviewer changes while it is not        *)
(* approved.                                                                *)
LEMMA RowChange ==
  ASSUME SubmissionInv, NEW i \in SubmissionIds, NEW s \in SubmissionRow,
         sub' = [sub EXCEPT ![i] = s], UNCHANGED <<credits, review, terms>>,
         \/ sub[i].status \notin {"approved", "published"} /\ s.status \notin {"approved", "published"}
         \/ /\ Source(i) /\ s.status \in {"approved", "published"}
            /\ s.content = sub[i].content /\ s.shown = sub[i].shown
  PROVE  SubmissionInv' /\ SourcesKept
<1>1. SubmissionTypes'
  BY DEF SubmissionInv, SubmissionTypes
<1>2. Reviewing'
  BY DEF SubmissionInv, Reviewing
<1>3. \A j \in SubmissionIds : sub'[j] = IF j = i THEN s ELSE sub[j]
  BY DEF SubmissionInv, SubmissionTypes
<1>4. SubmissionsReviewed'
  BY <1>3 DEF SubmissionInv, SubmissionsReviewed, Source
<1>5. SourcesKept
  BY <1>3 DEF SourcesKept, Source
<1> QED
  BY <1>1, <1>2, <1>4, <1>5 DEF SubmissionInv

(* Every step of players and administrators on the contributions keeps the  *)
(* invariant, and keeps what is approved.                                   *)
LEMMA ContributeKeeps ==
  ASSUME SubmissionInv, Contribute
  PROVE  SubmissionInv' /\ SourcesKept
<1> USE ContributionAssumption
<1>1. CASE RoleStep
  <2>1. UNCHANGED submissionVars /\ (terms' = terms \/ terms' = terms + 1)
    <3>1. ASSUME NEW m \in Admins, CreateTermsVersion(m)
          PROVE  UNCHANGED submissionVars /\ terms' = terms + 1
      BY <3>1 DEF CreateTermsVersion
    <3>2. ASSUME rolesUnchanged PROVE UNCHANGED submissionVars /\ terms' = terms
      BY <3>2 DEF rolesUnchanged
    <3> QED
      BY <1>1, <3>1, <3>2 DEF RoleStep, ApproveApplication, RejectApplication, GrantRole, RevokeRole,
                              ApplyForRole
  <2>2. terms' \in Nat
    BY <2>1 DEF SubmissionInv, SubmissionTypes
  <2> QED
    BY <2>1, <2>2, SubmissionFrame
<1>2. CASE (\E m \in Admins : AdminLeaves(m)) \/ (\E a \in AccountIds : AccountDeleted(a))
  <2>1. UNCHANGED submissionVars /\ terms' \in Nat
    BY <1>2 DEF AdminLeaves, AccountDeleted, contributionVars, submissionVars, SubmissionInv,
                SubmissionTypes
  <2> QED
    BY <2>1, SubmissionFrame
<1>3. ASSUME NEW i \in SubmissionIds PROVE sub[i] \in SubmissionRow
  BY DEF SubmissionInv, SubmissionTypes
<1>4. CASE SubmissionStep
  <2>1. PICK a \in AccountIds, i \in SubmissionIds :
          \/ SubmitDraft(a, i) \/ WithdrawSubmission(a, i)
          \/ \E c \in Contents : CreateDraft(a, i, c) \/ EditDraft(a, i, c)
    BY <1>4 DEF SubmissionStep
  <2>2. ASSUME NEW s \in SubmissionRow, sub' = [sub EXCEPT ![i] = s],
               s.status \notin {"approved", "published"},
               sub[i].status \notin {"approved", "published"},
               UNCHANGED <<credits, review, terms>>
        PROVE  SubmissionInv' /\ SourcesKept
    BY <2>2, RowChange
  <2>3. CASE SubmitDraft(a, i)
    <3>1. [sub[i] EXCEPT !.status = "submitted"] \in SubmissionRow
          /\ [sub[i] EXCEPT !.status = "submitted"].status = "submitted"
      BY <1>3 DEF SubmissionRow
    <3> QED
      BY <2>2, <2>3, <3>1 DEF SubmitDraft, writeUnchanged
  <2>4. CASE WithdrawSubmission(a, i)
    <3>1. [sub[i] EXCEPT !.status = "draft"] \in SubmissionRow
          /\ [sub[i] EXCEPT !.status = "draft"].status = "draft"
      BY <1>3 DEF SubmissionRow
    <3> QED
      BY <2>2, <2>4, <3>1 DEF WithdrawSubmission, writeUnchanged
  <2>5. ASSUME NEW c \in Contents, CreateDraft(a, i, c) PROVE SubmissionInv' /\ SourcesKept
    <3> DEFINE s == [NoSubmission EXCEPT !.owner = a, !.status = "draft", !.content = c,
                                         !.terms = terms]
    <3>1. s \in SubmissionRow /\ s.status = "draft"
      BY DEF SubmissionRow, NoSubmission, Texts, SubmissionInv, SubmissionTypes
    <3>2. sub' = [sub EXCEPT ![i] = s] /\ sub[i].status = "none"
          /\ UNCHANGED <<credits, review, terms>>
      BY <2>5 DEF CreateDraft, writeUnchanged
    <3> HIDE DEF s
    <3> QED
      BY <2>2, <3>1, <3>2
  <2>6. ASSUME NEW c \in Contents, EditDraft(a, i, c) PROVE SubmissionInv' /\ SourcesKept
    <3> DEFINE s == [sub[i] EXCEPT !.content = c]
    <3>1. s \in SubmissionRow /\ s.status = sub[i].status
      BY <1>3 DEF SubmissionRow, Texts
    <3>2. sub' = [sub EXCEPT ![i] = s] /\ sub[i].status = "draft"
          /\ UNCHANGED <<credits, review, terms>>
      BY <2>6 DEF EditDraft, writeUnchanged
    <3> HIDE DEF s
    <3> QED
      BY <2>2, <3>1, <3>2
  <2> QED
    BY <2>1, <2>3, <2>4, <2>5, <2>6
<1>5. CASE ReviewStep
  <2>1. ASSUME NEW m \in Admins, NEW i \in SubmissionIds, GetSubmission(m, i)
        PROVE  SubmissionInv' /\ SourcesKept
    <3> DEFINE v == [pc |-> "form", id |-> i, content |-> sub[i].content]
    <3>1. v \in ReviewRow /\ v.id \in SubmissionIds /\ v.pc = "form"
      BY <1>3 DEF ReviewRow, SubmissionRow
    <3>2. review' = [review EXCEPT ![m] = v] /\ UNCHANGED <<sub, credits, terms>>
      BY <2>1 DEF GetSubmission, writeUnchanged
    <3> HIDE DEF v
    <3>3. SubmissionTypes' /\ Reviewing'
      BY <3>1, <3>2 DEF SubmissionInv, SubmissionTypes, Reviewing
    <3> QED
      BY <3>2, <3>3 DEF SubmissionInv, SubmissionsReviewed, SourcesKept, Source
  <2>2. ASSUME NEW m \in Admins, Screen(m) PROVE SubmissionInv' /\ SourcesKept
    <3> DEFINE v == review'[m]
    <3>1. review[m] \in ReviewRow /\ review[m].id \in SubmissionIds
      BY <2>2 DEF Screen, SubmissionInv, SubmissionTypes, Reviewing
    <3>2. \/ review' = [review EXCEPT ![m] = NoReview]
          \/ /\ review' = [review EXCEPT ![m] = [review[m] EXCEPT !.pc = "screened"]]
             /\ review[m].content \notin Flagged
      BY <2>2 DEF Screen, screenText
    <3>3. NoReview \in ReviewRow /\ NoReview.pc = "idle"
      BY DEF NoReview, ReviewRow, Texts
    <3>4. LET u == [review[m] EXCEPT !.pc = "screened"]
          IN u \in ReviewRow /\ u.id = review[m].id /\ u.content = review[m].content
      BY <3>1 DEF ReviewRow
    <3>5. \/ review' = [review EXCEPT ![m] = NoReview]
          \/ \E u \in ReviewRow : /\ review' = [review EXCEPT ![m] = u]
                                  /\ u.id \in SubmissionIds /\ u.content \notin Flagged
      BY <3>1, <3>2, <3>4
    <3>6. UNCHANGED <<sub, credits, terms>>
      BY <2>2 DEF Screen, writeUnchanged
    <3>7. SubmissionTypes' /\ Reviewing'
      BY <3>3, <3>5, <3>6 DEF SubmissionInv, SubmissionTypes, Reviewing
    <3> QED
      BY <3>6, <3>7 DEF SubmissionInv, SubmissionsReviewed, SourcesKept, Source
  <2>3. ASSUME NEW m \in Admins, Approve(m) PROVE SubmissionInv' /\ SourcesKept
    <3> DEFINE i == review[m].id
               s == [sub[i] EXCEPT !.status = "approved", !.shown = review[m].content]
    <3>1. /\ review[m] \in ReviewRow /\ i \in SubmissionIds /\ review[m].content \notin Flagged
          /\ sub[i] \in SubmissionRow
      BY <2>3, <1>3 DEF Approve, SubmissionInv, SubmissionTypes, Reviewing
    <3>2. /\ s \in SubmissionRow /\ s.status = "approved" /\ s.shown = review[m].content
          /\ s.content = sub[i].content
      BY <3>1 DEF SubmissionRow, ReviewRow
    <3>3. NoReview \in ReviewRow /\ NoReview.pc = "idle"
      BY DEF NoReview, ReviewRow, Texts
    <3>4. review' = [review EXCEPT ![m] = NoReview] /\ terms' = terms
      BY <2>3 DEF Approve, writeUnchanged
    <3>5. Reviewing' /\ review' \in [Admins -> ReviewRow]
      BY <3>3, <3>4 DEF SubmissionInv, Reviewing, SubmissionTypes
    <3>6. CASE UNCHANGED <<sub, credits>>
      BY <3>4, <3>5, <3>6 DEF SubmissionInv, SubmissionTypes, SubmissionsReviewed, SourcesKept, Source
    <3>7. CASE ~UNCHANGED <<sub, credits>>
      <4>1. /\ sub' = [sub EXCEPT ![i] = s] /\ credits' = [credits EXCEPT ![i] = credits[i] + 1]
            /\ sub[i].status = "submitted" /\ sub[i].content = review[m].content
        BY <2>3, <3>7 DEF Approve, unchangedSince
      <4> HIDE DEF s, i
      <4>2. /\ \A j \in SubmissionIds : sub'[j] = IF j = i THEN s ELSE sub[j]
            /\ \A j \in SubmissionIds : credits'[j] = IF j = i THEN credits[i] + 1 ELSE credits[j]
        BY <4>1 DEF SubmissionInv, SubmissionTypes
      <4>3. credits[i] = 0
        BY <3>1, <4>1 DEF SubmissionInv, SubmissionsReviewed
      <4>4. SubmissionTypes'
        BY <3>1, <3>2, <3>4, <3>5, <4>1, <4>3 DEF SubmissionInv, SubmissionTypes
      <4>5. SubmissionsReviewed'
        BY <3>1, <3>2, <4>1, <4>2, <4>3 DEF SubmissionInv, SubmissionsReviewed
      <4>6. SourcesKept
        BY <4>1, <4>2 DEF SourcesKept, Source
      <4> QED
        BY <3>5, <4>4, <4>5, <4>6 DEF SubmissionInv
    <3> QED
      BY <3>6, <3>7
  <2>4. ASSUME NEW m \in Admins, NEW i \in SubmissionIds, Reject(m, i)
        PROVE  SubmissionInv' /\ SourcesKept
    <3> DEFINE s == [sub[i] EXCEPT !.status = "rejected"]
    <3>1. s \in SubmissionRow /\ s.status = "rejected"
      BY <1>3 DEF SubmissionRow
    <3>2. sub' = [sub EXCEPT ![i] = s] /\ sub[i].status = "submitted"
          /\ UNCHANGED <<credits, review, terms>>
      BY <2>4 DEF Reject, writeUnchanged
    <3> HIDE DEF s
    <3> QED
      BY <3>1, <3>2, RowChange
  <2>5. ASSUME NEW i \in SubmissionIds, PublishSubmission(i) PROVE SubmissionInv' /\ SourcesKept
    <3> DEFINE s == [sub[i] EXCEPT !.status = "published"]
    <3>1. /\ s \in SubmissionRow /\ s.status = "published"
          /\ s.content = sub[i].content /\ s.shown = sub[i].shown
      BY <1>3 DEF SubmissionRow
    <3>2. sub' = [sub EXCEPT ![i] = s] /\ sub[i].status = "approved"
          /\ UNCHANGED <<credits, review, terms>>
      BY <2>5 DEF PublishSubmission, writeUnchanged
    <3>3. Source(i)
      BY <3>2 DEF Source
    <3> HIDE DEF s
    <3> QED
      BY <3>1, <3>2, <3>3, RowChange
  <2> QED
    BY <1>5, <2>1, <2>2, <2>3, <2>4, <2>5 DEF ReviewStep
<1> QED
  BY <1>1, <1>2, <1>4, <1>5 DEF Contribute

-----------------------------------------------------------------------------
(* The weekly challenge.                                                    *)

TopicRow ==
    [state : {"none", "open", "closed"}, source : SubmissionIds \cup {0}, revision : Texts,
     activated : BOOLEAN, winner : AccountIds \cup {NoAccount}]
EntryRow == [status : {"none", "submitted", "approved", "rejected"}, content : Texts]
TaskRow ==
    [pc : {"idle", "topic", "activate", "entry"}, week : Weeks \cup {0},
     source : SubmissionIds \cup {0}, account : AccountIds \cup {NoAccount}, content : Texts,
     at : Nat]

(* What a task had screened has passed, and names what it is about.         *)
Screened(t) ==
    /\ t.pc \in {"topic", "activate", "entry"} => t.week \in Weeks
    /\ t.pc = "topic" => t.source \in SubmissionIds
    /\ t.pc = "entry" => t.account \in AccountIds /\ t.content \notin Flagged
TasksInv ==
    /\ task \in [Admins \cup {Worker} -> TaskRow]
    /\ \A x \in Admins \cup {Worker} : Screened(task[x])

(* A scheduled topic has a source, only a closed one has a winner, and an   *)
(* active one shows the text that was approved and scheduled.               *)
TopicsInv ==
    /\ topic \in [Weeks -> TopicRow]
    /\ \A w \in Weeks :
         /\ topic[w].state # "none" => topic[w].source \in SubmissionIds
         /\ topic[w].state # "closed" => topic[w].winner = NoAccount
         /\ topic[w].activated => topic[w].state # "none"
         /\ topic[w].activated =>
              Source(topic[w].source) /\ sub[topic[w].source].content = topic[w].revision

EntriesInv ==
    /\ entry \in [Weeks -> [AccountIds -> EntryRow]]
    /\ \A w \in Weeks : \A a \in Approved(w) : entry[w][a].content \notin Flagged

ResultsInv ==
    /\ vote \in [Weeks -> [AccountIds -> AccountIds \cup {NoAccount}]]
    /\ prizes \in [Weeks -> Nat]
    /\ WinnerStands

Won == {w \in Weeks : topic[w].winner # NoAccount}
CrownInv == crown \in {0} \cup Won /\ \A w \in Won : w <= crown

ContestInv == now \in Nat /\ TasksInv /\ TopicsInv /\ EntriesInv /\ ResultsInv /\ CrownInv

(* The weeks are positive numbers.                                          *)
LEMMA WeeksFacts == Weeks \subseteq Nat \ {0} /\ 0 \notin Weeks
BY ChallengeAssumption DEF Weeks

(* A behaviour starts with no entry and no winner.                          *)
LEMMA ContestStart == ASSUME SubmissionInv, ContributionsInit, ChallengeInit PROVE ContestInv
<1> USE AccountsAssumption, ContributionAssumption
<1>1. now \in Nat
  BY DEF ChallengeInit
<1>2. TasksInv
  <2>1. NoTask \in TaskRow /\ Screened(NoTask)
    BY DEF NoTask, TaskRow, Screened, Texts
  <2> QED
    BY <2>1 DEF ChallengeInit, TasksInv
<1>3. sub[1] \in SubmissionRow /\ sub[1].content \in Texts
  BY DEF SubmissionInv, SubmissionTypes, SubmissionRow
<1>4. TopicsInv /\ \A w \in Weeks : topic[w].winner = NoAccount /\ topic[w].state # "closed"
  <2>1. CASE Asked("challenge")
    <3> DEFINE open(w) == [NoTopic EXCEPT !.state = "open", !.source = 1,
                                          !.revision = sub[1].content, !.activated = w = 1]
    <3>1. \A w \in Weeks : topic[w] = open(w)
      BY <2>1 DEF ChallengeInit
    <3>2. \A w \in Weeks :
            /\ open(w) \in TopicRow /\ open(w).state = "open" /\ open(w).source = 1
            /\ open(w).winner = NoAccount /\ open(w).revision = sub[1].content
      BY <1>3 DEF TopicRow, NoTopic
    <3>3. topic \in [Weeks -> TopicRow]
      BY <2>1, <3>2 DEF ChallengeInit
    <3>4. Source(1)
      BY <2>1 DEF ContributionsInit, Source
    <3> HIDE DEF open
    <3> QED
      BY <3>1, <3>2, <3>3, <3>4 DEF TopicsInv
  <2>2. CASE ~Asked("challenge")
    BY <2>2 DEF ChallengeInit, TopicsInv, TopicRow, NoTopic, Texts
  <2> QED
    BY <2>1, <2>2
<1>5. EntriesInv
  BY DEF ChallengeInit, EntriesInv, EntryRow, NoEntry, Approved, Texts
<1>6. ResultsInv
  BY <1>4 DEF ChallengeInit, ResultsInv, WinnerStands
<1>7. CrownInv
  BY <1>4 DEF ChallengeInit, CrownInv, Won
<1> QED
  BY <1>1, <1>2, <1>4, <1>5, <1>6, <1>7 DEF ContestInv

(* The steps of the other parts leave the challenge alone; approved sources *)
(* stay what they are.                                                      *)
LEMMA ContestFrame ==
  ASSUME ContestInv, SourcesKept, UNCHANGED challengeVars
  PROVE  ContestInv'
<1> USE DEF challengeVars
<1>1. TopicsInv'
  BY DEF ContestInv, TopicsInv, SourcesKept, Source
<1>2. now' \in Nat /\ TasksInv'
  BY DEF ContestInv, TasksInv
<1>3. EntriesInv'
  BY DEF ContestInv, EntriesInv, Approved
<1>4. ResultsInv'
  BY DEF ContestInv, ResultsInv, WinnerStands, Approved, Leaders, voteCount
<1>5. CrownInv'
  BY DEF ContestInv, CrownInv, Won
<1> QED
  BY <1>1, <1>2, <1>3, <1>4, <1>5 DEF ContestInv

(* A task that is given a screened row keeps the tasks as they should be.   *)
LEMMA TaskSet ==
  ASSUME TasksInv, NEW x, NEW t \in TaskRow, Screened(t), task' = [task EXCEPT ![x] = t]
  PROVE  TasksInv'
BY DEF TasksInv

(* So does a task that ends.                                                *)
LEMMA TaskEnds == ASSUME TasksInv, NEW x, End(x) PROVE TasksInv'
<1>1. NoTask \in TaskRow /\ Screened(NoTask)
  BY DEF NoTask, TaskRow, Screened, Texts
<1> QED
  BY <1>1, TaskSet DEF End

(* The result of a week depends on its own entries and votes only.          *)
LEMMA ResultFrame ==
  ASSUME NEW w, vote'[w] = vote[w], entry'[w] = entry[w]
  PROVE  Approved(w)' = Approved(w) /\ Leaders(w)' = Leaders(w)
BY DEF Approved, Leaders, voteCount

(* Scheduling and activation change a topic without a winner.               *)
LEMMA TopicMoves ==
  ASSUME ContestInv, NEW w \in Weeks, NEW s \in TopicRow, topic' = [topic EXCEPT ![w] = s],
         s.winner = topic[w].winner, topic[w].state # "closed", s.state # "closed",
         UNCHANGED <<entry, vote, prizes, crown>>
  PROVE  ResultsInv' /\ CrownInv' /\ EntriesInv'
<1>1. \A v \in Weeks : topic'[v] = IF v = w THEN s ELSE topic[v]
  BY DEF ContestInv, TopicsInv
<1>2. \A v \in Weeks : Approved(v)' = Approved(v) /\ Leaders(v)' = Leaders(v)
  BY ResultFrame
<1>3. ResultsInv'
  BY <1>1, <1>2 DEF ContestInv, ResultsInv, WinnerStands
<1>4. Won' = Won
  BY <1>1 DEF Won
<1>5. EntriesInv'
  BY <1>2 DEF ContestInv, EntriesInv
<1> QED
  BY <1>3, <1>4, <1>5 DEF ContestInv, CrownInv

(* Entries and votes change in open weeks only, so the results stand.       *)
LEMMA ResultsStand ==
  ASSUME ContestInv, UNCHANGED <<topic, prizes, crown>>, NEW w \in Weeks, topic[w].state = "open",
         \A v \in Weeks : v # w => vote'[v] = vote[v] /\ entry'[v] = entry[v],
         vote' \in [Weeks -> [AccountIds -> AccountIds \cup {NoAccount}]]
  PROVE  ResultsInv' /\ CrownInv'
<1>1. \A v \in Weeks : v # w => Approved(v)' = Approved(v) /\ Leaders(v)' = Leaders(v)
  BY ResultFrame
<1>2. ResultsInv'
  BY <1>1 DEF ContestInv, ResultsInv, WinnerStands
<1> QED
  BY <1>2 DEF ContestInv, CrownInv, Won

(* Every step of the challenge keeps its invariant.                         *)
LEMMA CompeteKeeps ==
  ASSUME ContestInv, SubmissionInv, Compete, UNCHANGED contributionVars
  PROVE  ContestInv'
<1> USE AccountsAssumption, ContributionAssumption, ChallengeAssumption
<1>0. UNCHANGED sub
  BY DEF contributionVars
<1>1. ASSUME UNCHANGED <<now, topic, entry, vote, prizes, crown>>, TasksInv' PROVE ContestInv'
  <2>1. TopicsInv' /\ now' \in Nat
    BY <1>0, <1>1 DEF ContestInv, TopicsInv, Source
  <2>2. \A v : Approved(v)' = Approved(v) /\ Leaders(v)' = Leaders(v)
    BY <1>1 DEF Approved, Leaders, voteCount
  <2>3. EntriesInv'
    BY <1>1, <2>2 DEF ContestInv, EntriesInv
  <2>4. ResultsInv'
    BY <1>1, <2>2 DEF ContestInv, ResultsInv, WinnerStands
  <2>5. CrownInv'
    BY <1>1 DEF ContestInv, CrownInv, Won
  <2> QED
    BY <1>1, <2>1, <2>3, <2>4, <2>5 DEF ContestInv
<1>2. ASSUME NEW w \in Weeks, screenActivation(w) PROVE ContestInv'
  <2> DEFINE c == sub[topic[w].source].content
             t == [NoTask EXCEPT !.pc = "activate", !.week = w, !.content = c, !.at = now]
  <2>1. c \in Texts
    <3>1. topic[w].source \in SubmissionIds
      BY <1>2 DEF screenActivation, ContestInv, TopicsInv
    <3> QED
      BY <3>1 DEF SubmissionInv, SubmissionTypes, SubmissionRow
  <2> HIDE DEF c
  <2>2. t \in TaskRow /\ Screened(t)
    BY <2>1 DEF TaskRow, NoTask, Screened, ContestInv
  <2>3. task' = [task EXCEPT ![Worker] = t]
    BY <1>2 DEF screenActivation, Begin, c
  <2> HIDE DEF t
  <2>4. TasksInv'
    BY <2>2, <2>3, TaskSet DEF ContestInv
  <2> QED
    BY <1>1, <1>2, <2>4 DEF screenActivation
<1>3. ASSUME NEW w \in Weeks, NEW m \in Admins, NEW i \in SubmissionIds, screenTopic(m, w, i)
      PROVE  ContestInv'
  <2> DEFINE c == sub[i].content
             t == [NoTask EXCEPT !.pc = "topic", !.week = w, !.source = i, !.content = c]
  <2>1. c \in Texts
    BY DEF SubmissionInv, SubmissionTypes, SubmissionRow
  <2> HIDE DEF c
  <2>2. t \in TaskRow /\ Screened(t)
    BY <2>1 DEF TaskRow, NoTask, Screened
  <2>3. task' = [task EXCEPT ![m] = t]
    BY <1>3 DEF screenTopic, Begin, c
  <2> HIDE DEF t
  <2>4. TasksInv'
    BY <2>2, <2>3, TaskSet DEF ContestInv
  <2> QED
    BY <1>1, <1>3, <2>4 DEF screenTopic
<1>4. ASSUME NEW w \in Weeks, NEW m \in Admins, NEW a \in AccountIds, screenEntry(m, w, a)
      PROVE  ContestInv'
  <2> DEFINE c == entry[w][a].content
             t == [NoTask EXCEPT !.pc = "entry", !.week = w, !.account = a, !.content = c]
  <2>1. c \in Texts /\ c \notin Flagged
    BY <1>4 DEF screenEntry, screenText, ContestInv, EntriesInv, EntryRow
  <2> HIDE DEF c
  <2>2. t \in TaskRow /\ Screened(t)
    BY <2>1 DEF TaskRow, NoTask, Screened
  <2>3. task' = [task EXCEPT ![m] = t]
    BY <1>4 DEF screenEntry, Begin, c
  <2> HIDE DEF t
  <2>4. TasksInv'
    BY <2>2, <2>3, TaskSet DEF ContestInv
  <2> QED
    BY <1>1, <1>4, <2>4 DEF screenEntry
<1>5. ASSUME NEW w \in Weeks, NEW s \in TopicRow, topic' = [topic EXCEPT ![w] = s],
             s.state = "open", s.winner = NoAccount, s.source \in SubmissionIds,
             topic[w].state # "closed",
             s.activated => Source(s.source) /\ sub[s.source].content = s.revision,
             TasksInv', UNCHANGED <<now, entry, vote, prizes, crown>>
      PROVE  ContestInv'
  <2>1. topic[w].winner = NoAccount
    BY <1>5 DEF ContestInv, TopicsInv
  <2>2. ResultsInv' /\ CrownInv' /\ EntriesInv'
    BY <1>5, <2>1, TopicMoves
  <2>3. \A v \in Weeks : topic'[v] = IF v = w THEN s ELSE topic[v]
    BY <1>5 DEF ContestInv, TopicsInv
  <2>4. topic' \in [Weeks -> TopicRow]
    BY <1>5 DEF ContestInv, TopicsInv
  <2>5. TopicsInv'
    BY <1>0, <1>5, <2>3, <2>4 DEF ContestInv, TopicsInv, Source
  <2> QED
    BY <1>5, <2>2, <2>5 DEF ContestInv
<1>6. ASSUME NEW m \in Admins, CreateChallengeTopic(m) PROVE ContestInv'
  <2> DEFINE t == task[m]
             s == [state |-> "open", source |-> t.source, winner |-> NoAccount,
                   revision |-> t.content, activated |-> now = t.week]
  <2>1. TasksInv'
    BY <1>6, TaskEnds DEF CreateChallengeTopic, ContestInv
  <2>2. t \in TaskRow /\ t.week \in Weeks /\ t.source \in SubmissionIds
    BY <1>6 DEF CreateChallengeTopic, ContestInv, TasksInv, Screened
  <2>3. /\ s \in TopicRow /\ s.state = "open" /\ s.winner = NoAccount /\ s.source = t.source
        /\ s.revision = t.content
    BY <2>2 DEF TopicRow, TaskRow
  <2>4. CASE topic' = topic
    BY <1>1, <1>6, <2>1, <2>4 DEF CreateChallengeTopic
  <2>5. CASE topic' # topic
    <3>1. /\ topic' = [topic EXCEPT ![t.week] = s] /\ Source(t.source)
          /\ sub[t.source].content = t.content /\ topic[t.week].state = "none"
          /\ UNCHANGED <<now, entry, vote, prizes, crown>>
      BY <1>6, <2>5 DEF CreateChallengeTopic
    <3> HIDE DEF s, t
    <3> QED
      BY <1>5, <2>1, <2>2, <2>3, <3>1
  <2> QED
    BY <2>4, <2>5
<1>7. ASSUME activateChallengeTopic PROVE ContestInv'
  <2> DEFINE t == task[Worker]
             w == t.week
             s == [topic[w] EXCEPT !.activated = TRUE]
  <2>1. TasksInv'
    BY <1>7, TaskEnds DEF activateChallengeTopic, ContestInv
  <2>2. t \in TaskRow /\ w \in Weeks
    BY <1>7 DEF activateChallengeTopic, ContestInv, TasksInv, Screened
  <2>3. CASE topic' = topic
    BY <1>1, <1>7, <2>1, <2>3 DEF activateChallengeTopic
  <2>4. CASE topic' # topic
    <3>1. /\ topic' = [topic EXCEPT ![w] = s] /\ topic[w].state = "open"
          /\ Source(topic[w].source) /\ sub[topic[w].source].content = topic[w].revision
          /\ UNCHANGED <<now, entry, vote, prizes, crown>>
      BY <1>7, <2>4 DEF activateChallengeTopic, topicOpen
    <3>2. /\ topic[w] \in TopicRow /\ topic[w].source \in SubmissionIds
          /\ topic[w].winner = NoAccount
      BY <2>2, <3>1 DEF ContestInv, TopicsInv
    <3>3. /\ s \in TopicRow /\ s.state = topic[w].state /\ s.winner = topic[w].winner
          /\ s.source = topic[w].source /\ s.revision = topic[w].revision
      BY <3>2 DEF TopicRow
    <3> HIDE DEF s, w
    <3> QED
      BY <1>5, <2>1, <2>2, <3>1, <3>2, <3>3
  <2> QED
    BY <2>3, <2>4
<1>8. ASSUME NEW w \in Weeks, NEW a \in AccountIds, NEW s \in EntryRow,
             entry' = [entry EXCEPT ![w][a] = s], topic[w].state = "open",
             s.status = "approved" => s.content \notin Flagged,
             TasksInv', UNCHANGED <<now, topic, vote, prizes, crown>>
      PROVE  ContestInv'
  <2>1. \A v \in Weeks, b \in AccountIds :
          entry'[v][b] = IF v = w /\ b = a THEN s ELSE entry[v][b]
    BY <1>8 DEF ContestInv, EntriesInv
  <2>2. entry' \in [Weeks -> [AccountIds -> EntryRow]]
    BY <1>8 DEF ContestInv, EntriesInv
  <2>3. EntriesInv'
    BY <1>8, <2>1, <2>2 DEF ContestInv, EntriesInv, Approved
  <2>4. \A v \in Weeks : v # w => entry'[v] = entry[v] /\ vote'[v] = vote[v]
    BY <1>8 DEF ContestInv, EntriesInv
  <2>5. vote' \in [Weeks -> [AccountIds -> AccountIds \cup {NoAccount}]]
    BY <1>8 DEF ContestInv, ResultsInv
  <2>6. ResultsInv' /\ CrownInv'
    BY <1>8, <2>4, <2>5, ResultsStand
  <2>7. TopicsInv'
    BY <1>0, <1>8 DEF ContestInv, TopicsInv, Source
  <2> QED
    BY <1>8, <2>3, <2>6, <2>7 DEF ContestInv
<1>9. ASSUME NEW w \in Weeks, NEW a \in AccountIds, NEW c \in Contents,
             SubmitChallengeEntry(a, w, c)
      PROVE  ContestInv'
  <2> DEFINE s == [status |-> "submitted", content |-> c]
  <2>1. s \in EntryRow /\ s.status = "submitted"
    BY DEF EntryRow, Texts
  <2>2. /\ entry' = [entry EXCEPT ![w][a] = s] /\ topic[w].state = "open"
        /\ UNCHANGED <<now, topic, vote, prizes, crown, task>>
    BY <1>9 DEF SubmitChallengeEntry, topicOpen
  <2>3. TasksInv'
    BY <2>2 DEF ContestInv, TasksInv
  <2> HIDE DEF s
  <2> QED
    BY <1>8, <2>1, <2>2, <2>3
<1>10. ASSUME NEW w \in Weeks, NEW m \in Admins, NEW a \in AccountIds, RejectChallengeEntry(m, w, a)
       PROVE  ContestInv'
  <2> DEFINE s == [entry[w][a] EXCEPT !.status = "rejected"]
  <2>1. s \in EntryRow /\ s.status = "rejected"
    BY DEF EntryRow, ContestInv, EntriesInv
  <2>2. /\ entry' = [entry EXCEPT ![w][a] = s] /\ topic[w].state = "open"
        /\ UNCHANGED <<now, topic, vote, prizes, crown, task>>
    BY <1>10 DEF RejectChallengeEntry, topicOpen
  <2>3. TasksInv'
    BY <2>2 DEF ContestInv, TasksInv
  <2> HIDE DEF s
  <2> QED
    BY <1>8, <2>1, <2>2, <2>3
<1>11. ASSUME NEW m \in Admins, ApproveChallengeEntry(m) PROVE ContestInv'
  <2> DEFINE t == task[m]
             w == t.week
             a == t.account
             s == [entry[w][a] EXCEPT !.status = "approved"]
  <2>1. TasksInv'
    BY <1>11, TaskEnds DEF ApproveChallengeEntry, ContestInv
  <2>2. w \in Weeks /\ a \in AccountIds /\ t.content \notin Flagged
    BY <1>11 DEF ApproveChallengeEntry, ContestInv, TasksInv, Screened
  <2>3. CASE entry' = entry
    BY <1>1, <1>11, <2>1, <2>3 DEF ApproveChallengeEntry
  <2>4. CASE entry' # entry
    <3>1. /\ entry' = [entry EXCEPT ![w][a] = s] /\ topic[w].state = "open"
          /\ entry[w][a].content = t.content
          /\ UNCHANGED <<now, topic, vote, prizes, crown>>
      BY <1>11, <2>4 DEF ApproveChallengeEntry, topicOpen
    <3>2. s \in EntryRow /\ s.content = entry[w][a].content
      BY <2>2 DEF EntryRow, ContestInv, EntriesInv
    <3> HIDE DEF s, w, a
    <3> QED
      BY <1>8, <2>1, <2>2, <3>1, <3>2
  <2> QED
    BY <2>3, <2>4
<1>12. ASSUME NEW w \in Weeks, NEW a \in AccountIds, NEW b \in AccountIds,
              VoteChallengeEntry(a, w, b)
       PROVE  ContestInv'
  <2>1. /\ vote' = [vote EXCEPT ![w][a] = b] /\ topic[w].state = "open"
        /\ UNCHANGED <<now, topic, entry, prizes, crown, task>>
    BY <1>12 DEF VoteChallengeEntry, topicOpen
  <2>2. /\ vote' \in [Weeks -> [AccountIds -> AccountIds \cup {NoAccount}]]
        /\ \A v \in Weeks : v # w => vote'[v] = vote[v]
    BY <2>1 DEF ContestInv, ResultsInv
  <2>3. ResultsInv' /\ CrownInv'
    BY <2>1, <2>2, ResultsStand
  <2>4. TopicsInv' /\ TasksInv' /\ now' \in Nat
    BY <1>0, <2>1 DEF ContestInv, TopicsInv, Source, TasksInv
  <2>5. EntriesInv'
    BY <2>1 DEF ContestInv, EntriesInv, Approved
  <2> QED
    BY <2>3, <2>4, <2>5 DEF ContestInv
<1>13. ASSUME NEW by, NEW w \in Weeks, NEW at, closeChallengeWeek(by, w, at) PROVE ContestInv'
  <2>1. PICK winner \in IF Approved(w) = {} THEN {NoAccount} ELSE Leaders(w) :
          /\ topic' = [topic EXCEPT ![w].state = "closed", ![w].winner = winner]
          /\ prizes' = IF winner = NoAccount THEN prizes ELSE [prizes EXCEPT ![w] = @ + 1]
          /\ crown' = IF winner = NoAccount THEN crown ELSE crowned(w)
    BY <1>13 DEF closeChallengeWeek
  <2> DEFINE s == [topic[w] EXCEPT !.state = "closed", !.winner = winner]
  <2>2. /\ topic[w].state = "open" /\ topic[w] \in TopicRow /\ topic[w].winner = NoAccount
        /\ UNCHANGED <<now, entry, vote, task>>
    BY <1>13 DEF closeChallengeWeek, ContestInv, TopicsInv
  <2>3. /\ winner \in AccountIds \cup {NoAccount}
        /\ winner = NoAccount => Approved(w) = {}
        /\ winner # NoAccount => winner \in Leaders(w)
    BY <2>1 DEF Leaders, Approved
  <2>4. /\ s \in TopicRow /\ s.state = "closed" /\ s.winner = winner
        /\ s.source = topic[w].source /\ s.revision = topic[w].revision
        /\ s.activated = topic[w].activated
    BY <2>2, <2>3 DEF TopicRow
  <2>5. topic' = [topic EXCEPT ![w] = s]
    BY <2>1
  <2> HIDE DEF s
  <2>6. \A v \in Weeks : topic'[v] = IF v = w THEN s ELSE topic[v]
    BY <2>5 DEF ContestInv, TopicsInv
  <2>7. TopicsInv'
    <3>1. topic' \in [Weeks -> TopicRow]
      BY <2>4, <2>5 DEF ContestInv, TopicsInv
    <3> QED
      BY <1>0, <2>2, <2>4, <2>6, <3>1 DEF ContestInv, TopicsInv, Source
  <2>8. ResultsInv'
    <3>1. \A v \in Weeks : Approved(v)' = Approved(v) /\ Leaders(v)' = Leaders(v)
      BY <2>2, ResultFrame
    <3>2. prizes[w] = 0
      BY <2>2 DEF ContestInv, ResultsInv, WinnerStands
    <3>3. /\ prizes' \in [Weeks -> Nat]
          /\ \A v \in Weeks : prizes'[v] = IF v = w /\ winner # NoAccount THEN 1 ELSE prizes[v]
      BY <2>1, <3>2 DEF ContestInv, ResultsInv
    <3>4. WinnerStands'
      BY <2>3, <2>4, <2>6, <3>1, <3>2, <3>3 DEF ContestInv, ResultsInv, WinnerStands
    <3> QED
      BY <2>2, <3>3, <3>4 DEF ContestInv, ResultsInv
  <2>9. CrownInv'
    <3>1. CASE winner = NoAccount
      <4>1. Won' = Won
        BY <2>2, <2>4, <2>6, <3>1 DEF Won
      <4> QED
        BY <2>1, <3>1, <4>1 DEF ContestInv, CrownInv
    <3>2. CASE winner # NoAccount
      <4>1. Won' = Won \cup {w}
        BY <2>2, <2>4, <2>6, <3>2 DEF Won
      <4>2. Won \subseteq Nat /\ w \in Nat
        BY WeeksFacts DEF Won
      <4>3. crown \in Nat
        BY <4>2 DEF ContestInv, CrownInv
      <4> QED
        BY <2>1, <3>2, <4>1, <4>2, <4>3 DEF ContestInv, CrownInv, crowned
    <3> QED
      BY <3>1, <3>2
  <2>10. now' \in Nat /\ TasksInv' /\ EntriesInv'
    BY <2>2 DEF ContestInv, TasksInv, EntriesInv, Approved
  <2> QED
    BY <2>7, <2>8, <2>9, <2>10 DEF ContestInv
<1>14. ASSUME NextWeek PROVE ContestInv'
  <2>1. now' \in Nat /\ UNCHANGED <<topic, entry, vote, prizes, crown, task>>
    BY <1>14 DEF NextWeek, ContestInv
  <2>2. TopicsInv' /\ TasksInv'
    BY <1>0, <2>1 DEF ContestInv, TopicsInv, Source, TasksInv
  <2>3. \A v : Approved(v)' = Approved(v) /\ Leaders(v)' = Leaders(v)
    BY <2>1 DEF Approved, Leaders, voteCount
  <2>4. EntriesInv'
    BY <2>1, <2>3 DEF ContestInv, EntriesInv
  <2>5. ResultsInv'
    BY <2>1, <2>3 DEF ContestInv, ResultsInv, WinnerStands
  <2>6. CrownInv'
    BY <2>1 DEF ContestInv, CrownInv, Won
  <2> QED
    BY <2>1, <2>2, <2>4, <2>5, <2>6 DEF ContestInv
<1>15. ASSUME NEW w \in Weeks, TopicStep(w) PROVE ContestInv'
  BY <1>2, <1>3, <1>15 DEF TopicStep
<1>16. ASSUME NEW w \in Weeks, EntryStep(w) PROVE ContestInv'
  BY <1>4, <1>9, <1>10, <1>12, <1>16 DEF EntryStep
<1>17. ASSUME NEW w \in Weeks, CloseStep(w) PROVE ContestInv'
  BY <1>13, <1>17 DEF CloseStep
<1> QED
  BY <1>6, <1>7, <1>11, <1>14, <1>15, <1>16, <1>17 DEF Compete

(* The portal's own invariant holds in every behaviour of the composition.  *)
THEOREM PortalInvariant == PortalSpec => [](SubmissionInv /\ ContestInv)
<1> DEFINE Inv == SubmissionInv /\ ContestInv
<1>1. PortalInit => Inv
  BY SubmissionStart, ContestStart DEF PortalInit
<1>2. Inv /\ [PortalNext]_portalVars => Inv'
  <2> SUFFICES ASSUME SubmissionInv, ContestInv, [PortalNext]_portalVars
               PROVE  SubmissionInv' /\ ContestInv'
    OBVIOUS
  <2>1. ASSUME UNCHANGED contributionVars PROVE SubmissionInv' /\ SourcesKept
    BY <2>1, SubmissionFrame DEF contributionVars, submissionVars, SubmissionInv, SubmissionTypes
  <2>2. CASE UNCHANGED <<contributionVars, challengeVars>>
    BY <2>1, <2>2, ContestFrame
  <2>3. CASE Contribute /\ UNCHANGED challengeVars
    BY <2>3, ContributeKeeps, ContestFrame
  <2>4. CASE Compete /\ UNCHANGED contributionVars
    BY <2>1, <2>4, CompeteKeeps
  <2>5. ASSUME NEW a \in AccountIds, AccountDeleted(a), UNCHANGED challengeVars
        PROVE  UNCHANGED <<contributionVars, challengeVars>>
    BY <2>5 DEF AccountDeleted
  <2>6. CASE UNCHANGED portalVars
    BY <2>2, <2>6 DEF portalVars
  <2>7. CASE DeletionNext /\ UNCHANGED <<contributionVars, challengeVars>>
    BY <2>2, <2>7
  <2> QED
    BY <2>2, <2>3, <2>4, <2>5, <2>6, <2>7 DEF PortalNext
<1> QED
  BY <1>1, <1>2, PTL DEF PortalSpec

(* However submissions are withdrawn, edited, screened and approved by      *)
(* several administrators at a time, and topics scheduled and activated     *)
(* meanwhile, players see only what was screened and approved.              *)
THEOREM PublicIsReviewedHolds == PortalSpec => []PublicIsReviewed
<1>1. SubmissionInv /\ ContestInv => PublicIsReviewed
  BY DEF SubmissionInv, ContestInv, EntriesInv, TopicsInv, PublicIsReviewed
<1> QED
  BY <1>1, PortalInvariant, PTL

(* The result of a closed week is final, and its prize was given once.      *)
THEOREM WinnerStandsHolds == PortalSpec => []WinnerStands
<1>1. ContestInv => WinnerStands
  BY DEF ContestInv, ResultsInv
<1> QED
  BY <1>1, PortalInvariant, PTL

(* The crown belongs to the latest week with a winner, in whatever order    *)
(* any number of weeks is closed.                                           *)
THEOREM CrownLatestHolds == PortalSpec => []CrownLatest
<1>1. ContestInv => CrownLatest
  <2> SUFFICES ASSUME ContestInv PROVE crown = Max({0} \cup Won)
    BY DEF CrownLatest, Won
  <2>1. Won \subseteq Nat
    BY WeeksFacts DEF Won
  <2>2. crown \in {0} \cup Won /\ \A x \in {0} \cup Won : crown >= x
    BY <2>1 DEF ContestInv, CrownInv
  <2>3. ASSUME NEW y \in {0} \cup Won, \A x \in {0} \cup Won : y >= x PROVE y = crown
    BY <2>1, <2>2, <2>3
  <2> QED
    BY <2>2, <2>3 DEF Max
<1> QED
  BY <1>1, PortalInvariant, PTL

-----------------------------------------------------------------------------
(* The accounts under the portal.                                           *)

(* What the portal does is a step of an account, or leaves the accounts     *)
(* alone but for one it erases.                                             *)
LEMMA PortalSteps == [PortalNext]_portalVars => AccountStep
<1> SUFFICES ASSUME [PortalNext]_portalVars PROVE AccountStep
  OBVIOUS
<1> USE DEF Elsewhere, AccountStep, enforcementVars, accountVars, erasureVars
<1>1. CASE UNCHANGED portalVars
  BY <1>1 DEF portalVars, allVars
<1>2. ASSUME NEW a, AccountDeleted(a), UNCHANGED deletionVars PROVE Elsewhere
  BY <1>2 DEF AccountDeleted
<1>3. ASSUME UNCHANGED <<enforcementVars, deletionVars>> PROVE Elsewhere
  BY <1>3
<1>4. CASE Contribute /\ UNCHANGED deletionVars
  <2>1. CASE \E a \in AccountIds : AccountDeleted(a)
    BY <1>2, <1>4, <2>1
  <2>2. CASE RoleStep \/ ReviewStep \/ SubmissionStep \/ \E m \in Admins : AdminLeaves(m)
    <3>1. ASSUME RoleStep PROVE UNCHANGED enforcementVars
      BY <3>1 DEF RoleStep, CreateTermsVersion, ApproveApplication, RejectApplication, GrantRole, RevokeRole,
                  ApplyForRole, rolesUnchanged
    <3>2. ASSUME ReviewStep PROVE UNCHANGED enforcementVars
      BY <3>2 DEF ReviewStep, Screen, Approve, GetSubmission, Reject, PublishSubmission, writeUnchanged
    <3>3. ASSUME SubmissionStep PROVE UNCHANGED enforcementVars
      BY <3>3 DEF SubmissionStep, SubmitDraft, WithdrawSubmission, CreateDraft, EditDraft, writeUnchanged
    <3>4. ASSUME \E m \in Admins : AdminLeaves(m) PROVE UNCHANGED enforcementVars
      BY <3>4 DEF AdminLeaves
    <3> QED
      BY <1>3, <1>4, <2>2, <3>1, <3>2, <3>3, <3>4
  <2> QED
    BY <1>4, <2>1, <2>2 DEF Contribute
<1> QED
  BY <1>1, <1>2, <1>3, <1>4 DEF PortalNext

(* Credentials, moderation, deletion and the journal keep their invariant   *)
(* whatever happens on the portal.                                          *)
THEOREM PortalAccounts == PortalSpec => []AccountsInv
<1>1. PortalInit => AccountsInv
  BY AccountsStart DEF PortalInit
<1>2. AccountsInv /\ [PortalNext]_portalVars => AccountsInv'
  BY PortalSteps, AccountsKept
<1> QED
  BY <1>1, <1>2, PTL DEF PortalSpec

(* However first requests, rotations and provider flows race, are repeated  *)
(* or lose their answers, no account is left that nothing leads to, and of  *)
(* a chain of refresh tokens at most one can still be used.                 *)
THEOREM OneIdentityHolds == PortalSpec => []OneIdentity
<1>1. AccountsInv => OneIdentity
  BY DEF AccountsInv, TokensInv
<1> QED
  BY <1>1, PortalAccounts, PTL

(* Nothing that was approved before a revocation serves after it: tokens    *)
(* carry the generation they were approved under, and what browsers were    *)
(* granted belongs to the present one.                                      *)
THEOREM AuthorityFreshHolds == PortalSpec => []AuthorityFresh
<1>1. AccountsInv => AuthorityFresh
  BY AuthorityHolds DEF AccountsInv
<1> QED
  BY <1>1, PortalAccounts, PTL

(* However connections, decisions and their deliveries interleave and the   *)
(* process restarts, an active sanction covers every installation of its    *)
(* account, and a decision that was delivered leaves nobody connected whom  *)
(* it bars.                                                                 *)
THEOREM SanctionAlwaysHolds == PortalSpec => []SanctionHolds
<1>1. AccountsInv => SanctionHolds
  BY ModerationHolds DEF AccountsInv
<1> QED
  BY <1>1, PortalAccounts, PTL

(* An account is deleted by one request, on an authority that was never     *)
(* withdrawn while its intent was open.                                     *)
THEOREM DeletedByAuthorityHolds == PortalSpec => []DeletedByAuthority
<1>1. AccountsInv => DeletedByAuthority
  BY DeletionHolds DEF AccountsInv
<1> QED
  BY <1>1, PortalAccounts, PTL

(* However many confirmations publish at a time, stop anywhere and lose     *)
(* power, the journal has every bound receipt for good and satisfies the    *)
(* minimum, whichever contents of the two files the disk brings back.       *)
THEOREM SuppressionKeptHolds == PortalSpec => []SuppressionKept
<1>1. AccountsInv => SuppressionKept
  BY JournalHolds DEF AccountsInv
<1> QED
  BY <1>1, PortalAccounts, PTL
=============================================================================
