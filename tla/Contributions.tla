--------------------------- MODULE Contributions ---------------------------
(***************************************************************************)
(* Contributions of players to the portal (portal/manager.go): the roles   *)
(* they apply for, the terms they accept, their submissions, and the       *)
(* review of administrators that ends in a reward and in publication.      *)
(*                                                                         *)
(* A write of a player is one transaction under the lock of the account,   *)
(* which repeats what was checked before it.  An approval reads the        *)
(* submission, has it screened by a remote service, and only then opens    *)
(* its transaction; meanwhile the contributor may withdraw the submission, *)
(* edit it and submit it again, and another administrator may decide it.   *)
(***************************************************************************)
EXTENDS Deletion

CONSTANTS
    Admins, SubmissionIds, ApplicationIds,   \* ids are 1..n, in order
    Contents,
    Flagged,               \* the contents that the screening refuses
    NoContent,
    MaxTerms,              \* bound on the versions of the terms
    SubmissionsPerDay

ASSUME ContributionAssumption ==
    /\ 1 \in SubmissionIds
    /\ Flagged \subseteq Contents /\ NoContent \notin Contents
    /\ SubmissionsPerDay \in Nat \ {0} /\ MaxTerms \in Nat \ {0}

VARIABLES
    admins,         \* the administrators that are active and not sanctioned
    roles,          \* active rows of portal_roles: pairs <<account, role>>
    applications,   \* portal_role_applications
    terms,          \* the version of portal_terms in force
    sub,            \* portal_submissions; shown is history: what the
                    \* administrator who approved it had on the screen
    used,           \* used[a]: portal_submission_counts of the day
    credits,        \* credits[i]: rewards granted for a submission
    review          \* review[m]: the approval an administrator is at

contributionVars == <<admins, roles, applications, terms, sub, used, credits, review>>
submissionVars == <<sub, used, credits, review>>

Roles == {"contributor", "curator"}
NoSubmission == [owner |-> NoAccount, status |-> "none", content |-> NoContent, terms |-> 0, shown |-> NoContent]
NoApplication == [account |-> NoAccount, role |-> "contributor", status |-> "none"]
NoReview == [pc |-> "idle", id |-> 0, content |-> NoContent]

(* The entries of a challenge are about a submission that was approved      *)
(* before, a review is about one of a contributor.                          *)
ContributionsInit ==
    /\ admins = IF Asked("challenge") THEN {CHOOSE m \in Admins : TRUE} ELSE Admins
    /\ roles \in IF Asked("review") THEN {{<<a, "contributor">>} : a \in AccountIds} ELSE {{}}
    /\ applications = [i \in ApplicationIds |-> NoApplication]
    /\ terms = 1
    /\ \E c \in Contents \ Flagged :
         sub = [i \in SubmissionIds |->
                  IF Asked("challenge")
                    THEN [owner |-> CHOOSE a \in AccountIds : TRUE, status |-> "approved", content |-> c, terms |-> 1, shown |-> c]
                  ELSE NoSubmission]
    /\ used = [a \in AccountIds |-> 0]
    /\ credits = [i \in SubmissionIds |-> IF Asked("challenge") THEN 1 ELSE 0]
    /\ review = [m \in Admins |-> NoReview]

-----------------------------------------------------------------------------
(* Authority.                                                               *)

(* LockAdminTx, at the start and again at the end of a transaction.         *)
LockAdmin(m, targets) == m \in admins /\ targets \cap erased = {}

(* An administrator loses the role or is sanctioned.                        *)
AdminLeaves(m) ==
    /\ m \in admins /\ admins' = admins \ {m}
    /\ UNCHANGED <<enforcementVars, roles, applications, terms, submissionVars>>

(* What the portal sees of confirmDeletion.                                 *)
AccountDeleted(a) ==
    /\ a \in accounts \ erased /\ erased' = erased \cup {a}
    /\ UNCHANGED <<plan, tokenVars, tombs, login, flows, links, moderationVars, liveVars, browserVars, contributionVars>>

HasRole(a, role) == <<a, role>> \in roles \/ (role = "contributor" /\ <<a, "curator">> \in roles)

authorizePortalWriteTx(a, role) ==
    a \in accounts /\ portalActorAllowedTx(a) /\ (role # "" => HasRole(a, role))

-----------------------------------------------------------------------------
(* Roles and terms.                                                         *)

rolesUnchanged == UNCHANGED <<enforcementVars, admins, terms, submissionVars>>

Pending(a, role) ==
    {i \in ApplicationIds : applications[i] = [account |-> a, role |-> role, status |-> "pending"]}

ApplyForRole(i, a, role) ==
    /\ applications[i].status = "none" /\ \A j \in 1..(i - 1) : applications[j].status # "none"
    /\ authorizePortalWriteTx(a, "") /\ Pending(a, role) = {}
    /\ applications' = [applications EXCEPT ![i] = [account |-> a, role |-> role, status |-> "pending"]]
    /\ UNCHANGED roles /\ rolesUnchanged

GrantRole(m, a, role) ==
    /\ LockAdmin(m, {a}) /\ a \in accounts
    /\ roles' = roles \cup {<<a, role>>}
    /\ applications' = [i \in ApplicationIds |->
          IF i \in Pending(a, role) THEN [applications[i] EXCEPT !.status = "approved"] ELSE applications[i]]
    /\ rolesUnchanged

(* A pending application is decided once.                                   *)
ApproveApplication(m, i) ==
    /\ applications[i].status = "pending" /\ LockAdmin(m, {applications[i].account})
    /\ applications' = [applications EXCEPT ![i].status = "approved"]
    /\ roles' = roles \cup {<<applications[i].account, applications[i].role>>}
    /\ rolesUnchanged

RejectApplication(m, i) ==
    /\ applications[i].status = "pending" /\ LockAdmin(m, {applications[i].account})
    /\ applications' = [applications EXCEPT ![i].status = "rejected"]
    /\ UNCHANGED roles /\ rolesUnchanged

RevokeRole(m, a, role) ==
    /\ LockAdmin(m, {a}) /\ <<a, role>> \in roles
    /\ roles' = roles \ {<<a, role>>}
    /\ UNCHANGED applications /\ rolesUnchanged

CreateTermsVersion(m) ==
    /\ LockAdmin(m, {}) /\ terms < MaxTerms
    /\ terms' = terms + 1
    /\ UNCHANGED <<enforcementVars, admins, roles, applications, submissionVars>>

-----------------------------------------------------------------------------
(* Submissions.                                                             *)

writeUnchanged == UNCHANGED <<enforcementVars, admins, roles, applications, terms>>

CreateDraft(a, i, c) ==
    /\ sub[i].status = "none" /\ \A j \in 1..(i - 1) : sub[j].status # "none"
    /\ authorizePortalWriteTx(a, "contributor")
    /\ sub' = [sub EXCEPT ![i] = [NoSubmission EXCEPT !.owner = a, !.status = "draft", !.content = c, !.terms = terms]]
    /\ UNCHANGED <<used, credits, review>> /\ writeUnchanged

EditDraft(a, i, c) ==
    /\ sub[i].owner = a /\ sub[i].status = "draft" /\ authorizePortalWriteTx(a, "contributor")
    /\ sub' = [sub EXCEPT ![i].content = c]
    /\ UNCHANGED <<used, credits, review>> /\ writeUnchanged

SubmitDraft(a, i) ==
    /\ sub[i].owner = a /\ sub[i].status = "draft" /\ authorizePortalWriteTx(a, "contributor")
    /\ sub[i].terms = terms /\ used[a] < SubmissionsPerDay
    /\ sub' = [sub EXCEPT ![i].status = "submitted"]
    /\ used' = [used EXCEPT ![a] = @ + 1]
    /\ UNCHANGED <<credits, review>> /\ writeUnchanged

(* The queue slot stays consumed.                                           *)
WithdrawSubmission(a, i) ==
    /\ sub[i].owner = a /\ sub[i].status = "submitted" /\ authorizePortalWriteTx(a, "")
    /\ sub' = [sub EXCEPT ![i].status = "draft"]
    /\ UNCHANGED <<used, credits, review>> /\ writeUnchanged

-----------------------------------------------------------------------------
(* Review.                                                                  *)

(* The page of the administrator, whose form carries ContentRevision.       *)
GetSubmission(m, i) ==
    /\ review[m].pc = "idle" /\ sub[i].status = "submitted"
    /\ review' = [review EXCEPT ![m] = [pc |-> "form", id |-> i, content |-> sub[i].content]]
    /\ UNCHANGED <<sub, used, credits>> /\ writeUnchanged

(* DecideSubmission before its transaction.  A refusal leaves the review.   *)
screenText(c) == c \notin Flagged

Screen(m) ==
    /\ review[m].pc = "form"
    /\ LET s == sub[review[m].id]
       IN review' = [review EXCEPT ![m] =
            IF s.status = "submitted" /\ s.content = review[m].content /\ screenText(s.content)
              THEN [@ EXCEPT !.pc = "screened"] ELSE NoReview]
    /\ UNCHANGED <<sub, used, credits>> /\ writeUnchanged

\* Mutant: the content is not compared with what was screened.
unchangedSince_StatusOnly(m) == sub[review[m].id].status = "submitted"

unchangedSince(m) ==
    sub[review[m].id].status = "submitted" /\ sub[review[m].id].content = review[m].content

(* The transaction of an approval: decision, reward and credit.             *)
Approve(m) ==
    /\ review[m].pc = "screened"
    /\ LET i == review[m].id
       IN IF LockAdmin(m, {sub[i].owner}) /\ unchangedSince(m)
            THEN /\ sub' = [sub EXCEPT ![i].status = "approved", ![i].shown = review[m].content]
                 /\ credits' = [credits EXCEPT ![i] = @ + 1]
          ELSE UNCHANGED <<sub, credits>>
    /\ review' = [review EXCEPT ![m] = NoReview]
    /\ UNCHANGED used /\ writeUnchanged

(* A rejection neither screens nor compares.                                *)
Reject(m, i) ==
    /\ sub[i].status = "submitted" /\ LockAdmin(m, {sub[i].owner})
    /\ sub' = [sub EXCEPT ![i].status = "rejected"]
    /\ UNCHANGED <<used, credits, review>> /\ writeUnchanged

(* No route reaches it yet.                                                 *)
PublishSubmission(i) ==
    /\ sub[i].status = "approved"
    /\ sub' = [sub EXCEPT ![i].status = "published"]
    /\ UNCHANGED <<used, credits, review>> /\ writeUnchanged

-----------------------------------------------------------------------------
RoleStep ==
    \/ \E m \in Admins :
         \/ CreateTermsVersion(m)
         \/ \E i \in ApplicationIds : ApproveApplication(m, i) \/ RejectApplication(m, i)
         \/ \E a \in AccountIds, role \in Roles : GrantRole(m, a, role) \/ RevokeRole(m, a, role)
    \/ \E i \in ApplicationIds, a \in AccountIds, role \in Roles : ApplyForRole(i, a, role)

ReviewStep ==
    \/ \E m \in Admins :
         \/ Screen(m) \/ Approve(m)
         \/ \E i \in SubmissionIds : GetSubmission(m, i) \/ Reject(m, i)
    \/ \E i \in SubmissionIds : PublishSubmission(i)

SubmissionStep ==
    \E a \in AccountIds, i \in SubmissionIds :
        \/ SubmitDraft(a, i) \/ WithdrawSubmission(a, i)
        \/ \E c \in Contents : CreateDraft(a, i, c) \/ EditDraft(a, i, c)

Contribute ==
    \/ Asked("role") /\ RoleStep
    \/ Asked("review") /\ ReviewStep
    \/ SubmissionStep
    \/ (\E m \in Admins : AdminLeaves(m)) \/ (\E a \in AccountIds : AccountDeleted(a))

-----------------------------------------------------------------------------
(* What is approved is what the administrator saw and the screening let     *)
(* pass, and it was rewarded once, though it was withdrawn, edited and      *)
(* submitted again meanwhile or two administrators approved it.             *)
SubmissionsReviewed ==
    \A i \in SubmissionIds :
        IF sub[i].status \in {"approved", "published"}
          THEN sub[i].content = sub[i].shown /\ sub[i].content \notin Flagged /\ credits[i] = 1
        ELSE credits[i] = 0
=============================================================================
