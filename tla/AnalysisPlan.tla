----------------------------- MODULE AnalysisPlan -----------------------------
(***************************************************************************)
(* Target roles, their requirements, the analyses of a CV version against  *)
(* a role, and the action plan of an analysis, as requests of one user     *)
(* that interleave over one PostgreSQL database (READ COMMITTED).          *)
(*                                                                         *)
(* As in CvLifecycle a request runs once and names the rows it creates: the *)
(* role, requirement or analysis with id r is the one that request r       *)
(* inserted, and action <<g, q>> is the one that generation g inserted for *)
(* requirement q.  The variables hold COMMITTED rows; what a transaction   *)
(* has written is applied by Commit.  The row locks it holds until then     *)
(* follow from its operation and its step, but for those of a statement    *)
(* that locks many rows: it locks them one after the other, in an order    *)
(* nobody chooses, and `taken` is what it has locked so far.               *)
(*                                                                         *)
(* A version stands for its document as well where rows are added or       *)
(* deleted (a document of several versions is CvLifecycle's), but the two   *)
(* rows are locked apart: analyses lock the version before the document,   *)
(* the deletion of the document locks it before its version.               *)
(***************************************************************************)
EXTENDS Integers, FiniteSets

CONSTANTS
    Requests,                    \* the requests of a behaviour
    Role, Need, Report, Plan,    \* four of them, that may have run before it
    Seeded,                      \* those that have
    CVs,                         \* CV versions, one per document
    Kinds                        \* the operations the clients ask for

Analyse == {"analyseV2", "analyseV3"}
ParentDeletions == {"deleteTarget", "deleteDocument"}

AllKinds ==
    {"createTarget", "deleteTarget", "createRequirement", "updateRequirement",
     "deleteRequirement", "generate", "updateStatus", "deleteDocument"} \cup Analyse

ASSUME SeedAssumption ==
    /\ {Role, Need, Report, Plan} \subseteq Requests
    /\ Cardinality({Role, Need, Report, Plan}) = 4
    /\ Seeded \in {{Role, Need}, {Role, Need, Report}, {Role, Need, Report, Plan}}
ASSUME KindsAssumption == Kinds \subseteq AllKinds
ASSUME CVsAssumption == CVs # {} /\ CVs \cap Requests = {}

\* What a requirement says, as far as the scorer and the plan tell it apart.
Contents == {"unreviewed", "matched", "missing"}
Statuses == {"todo", "completed"}

VARIABLES
    targets, versions, requirements,   \* committed rows of roles, CVs, requirements
    analyses, actions,                 \* ... of analyses and actions
    content,                           \* what each requirement says
    linked,                            \* actions whose requirement_id is not NULL
    completed,                         \* actions the user has completed
    op, subject, cv, wanted,           \* what each request asks for
    pc,                                \* where its handler is
    snapshot,                          \* requirements its analysis was made of
    fresh,                             \* candidates it is to insert as actions
    served,                            \* analysis it returns
    taken,                             \* rows its statements have locked one by one
    outcome, fault                     \* its answer, and the error it met

rows == <<targets, versions, requirements, analyses, actions, content, linked, completed>>
ask == <<op, subject, cv, wanted>>
local == <<snapshot, fresh, served>>
answer == <<outcome, fault>>
vars == <<rows, ask, pc, local, taken, answer>>

AnalysisOf(x) == subject[x[1]]

RequirementsOf(t) == {q \in requirements : subject[q] = t}

ActionsOf(a) == {x \in actions : AnalysisOf(x) = a}

\* The rows a deletion takes along.
CascadedAnalyses(r) ==
    IF op[r] = "deleteTarget" THEN {a \in analyses : subject[a] = subject[r]}
                              ELSE {a \in analyses : cv[a] = cv[r]}

CascadedActions(r) == {x \in actions : AnalysisOf(x) \in CascadedAnalyses(r)}

UnlinkedActions(r) == {x \in linked : x[2] = subject[r]}

\* The rows that a statement of r locks one after the other, each with the
\* table it is in.
RowsToTake(r) ==
    CASE pc[r] = "CascadingAnalyses" -> {"analyses"} \X CascadedAnalyses(r)
      [] pc[r] = "CascadingActions"  -> {"actions"} \X CascadedActions(r)
      [] pc[r] = "CascadingNeeds"    -> {"requirements"} \X RequirementsOf(subject[r])
      [] pc[r] = "Unlinking"         -> {"actions"} \X UnlinkedActions(r)
      [] pc[r] = "Inserting"         -> {"requirements"} \X (fresh[r] \cap requirements)
      [] OTHER                       -> {}

Took(r, table, id) == <<table, id>> \in taken[r]

-----------------------------------------------------------------------------
(* Row locks: who holds the row exclusively (FOR UPDATE, UPDATE or DELETE)  *)
(* and who holds the FOR KEY SHARE lock of a foreign key check.             *)

\* The steps of a deletion after the row that it locks first.
Cascade == {"CascadingVersion", "CascadingAnalyses", "CascadingActions", "CascadingNeeds",
            "Committing"}

\* Variant: an analysis reads its role without FOR UPDATE.
HoldsTargetToDelete(r, t) ==
    subject[r] = t /\ op[r] = "deleteTarget" /\ pc[r] \in Cascade

HoldsTarget(r, t) ==
    /\ subject[r] = t
    /\ \/ op[r] = "deleteTarget" /\ pc[r] \in Cascade
       \/ op[r] \in Analyse /\ pc[r] \in {"Reading", "Committing"}

SharesTarget(r, t) ==
    subject[r] = t /\ op[r] = "createRequirement" /\ pc[r] = "Committing"

HoldsVersion(r, v) ==
    /\ cv[r] = v
    /\ \/ /\ op[r] \in Analyse
          /\ pc[r] \in {"LockingDocument", "LockingTarget", "Reading", "Committing"}
       \/ op[r] = "deleteDocument" /\ pc[r] \in Cascade \ {"CascadingVersion"}

\* The document of version v.
HoldsDocument(r, v) ==
    /\ cv[r] = v
    /\ \/ op[r] \in Analyse /\ pc[r] \in {"LockingTarget", "Reading", "Committing"}
       \/ op[r] = "deleteDocument" /\ pc[r] \in Cascade

HoldsOwnRequirement(r, q) ==
    /\ subject[r] = q
    /\ \/ op[r] = "updateRequirement" /\ pc[r] = "Committing"
       \/ op[r] = "deleteRequirement" /\ pc[r] \in {"Unlinking", "Committing"}

\* Variant: a role's requirements are deleted before its analyses.
HoldsRequirementsFirst(r, q) ==
    \/ HoldsOwnRequirement(r, q)
    \/ subject[r] = subject[q] /\ op[r] = "deleteTarget" /\ pc[r] \in Cascade

HoldsRequirement(r, q) ==
    HoldsOwnRequirement(r, q) \/ (op[r] = "deleteTarget" /\ Took(r, "requirements", q))

SharesRequirement(r, q) == op[r] = "generate" /\ Took(r, "requirements", q)

HoldsAnalysis(r, a) ==
    \/ subject[r] = a /\ op[r] = "generate" /\ pc[r] \in {"Inserting", "Committing"}
    \/ Took(r, "analyses", a)

HoldsAction(r, x) ==
    \/ subject[r] = x /\ op[r] = "updateStatus" /\ pc[r] = "Committing"
    \/ Took(r, "actions", x)

\* q has the row locked against the statement of r that is to lock it.
TakenFrom(q, r, row) ==
    CASE row[1] = "analyses"     -> HoldsAnalysis(q, row[2])
      [] row[1] = "actions"      -> HoldsAction(q, row[2])
      [] row[1] = "requirements" ->
             \/ HoldsRequirement(q, row[2])
             \/ op[r] = "deleteTarget" /\ SharesRequirement(q, row[2])

\* q keeps the statement r is executing waiting, or may yet.
Blocks(q, r) ==
    \/ /\ pc[r] = "CascadingVersion" \/ (pc[r] = "Start" /\ op[r] \in Analyse)
       /\ HoldsVersion(q, cv[r])
    \/ /\ pc[r] = "LockingDocument" \/ (pc[r] = "Start" /\ op[r] = "deleteDocument")
       /\ HoldsDocument(q, cv[r])
    \/ /\ pc[r] = "LockingTarget" \/ (pc[r] = "Start" /\ op[r] = "deleteTarget")
       /\ HoldsTarget(q, subject[r]) \/ SharesTarget(q, subject[r])
    \/ /\ pc[r] = "Inserting" /\ op[r] = "createRequirement"
       /\ HoldsTarget(q, subject[r])
    \/ /\ pc[r] = "Start" /\ op[r] \in {"updateRequirement", "deleteRequirement"}
       /\ HoldsRequirement(q, subject[r]) \/ SharesRequirement(q, subject[r])
    \/ /\ pc[r] = "Start" /\ op[r] = "generate"
       /\ HoldsAnalysis(q, subject[r])
    \/ /\ pc[r] = "Updating"
       /\ HoldsAction(q, subject[r])
    \/ \E row \in RowsToTake(r) \ taken[r] : TakenFrom(q, r, row)

Granted(r) == \A q \in Requests \ {r} : ~Blocks(q, r)

Deadlocked(r) ==
    \E q \in Requests \ {r} : Blocks(q, r) /\ Blocks(r, q)

-----------------------------------------------------------------------------

Goto(r, step) == pc' = [pc EXCEPT ![r] = step]

Finish(r, answered, because) ==
    /\ Goto(r, "Done")
    /\ outcome' = [outcome EXCEPT ![r] = answered]
    /\ fault' = [fault EXCEPT ![r] = because]
    /\ taken' = [taken EXCEPT ![r] = {}]
    /\ UNCHANGED <<rows, ask, local>>

\* One statement that changes no row for the others to see yet.
Statement(r, from, kinds) ==
    /\ pc[r] = from
    /\ op[r] \in kinds
    /\ Granted(r)

Proceed(r, to) == Goto(r, to) /\ UNCHANGED <<rows, ask, local, taken, answer>>

\* A statement that locks many rows comes to one of them.
TakeRow(r) ==
    \E row \in RowsToTake(r) \ taken[r] :
        /\ \A q \in Requests \ {r} : ~TakenFrom(q, r, row)
        /\ taken' = [taken EXCEPT ![r] = taken[r] \cup {row}]
        /\ UNCHANGED <<rows, ask, pc, local, answer>>

\* ... and goes on when it has locked all of them.
TookRows(r, from, kinds) ==
    Statement(r, from, kinds) /\ RowsToTake(r) \subseteq taken[r]

Init ==
    /\ targets = {Role}
    /\ versions = CVs
    /\ requirements = {Need}
    /\ analyses = Seeded \cap {Report}
    /\ actions = IF Plan \in Seeded THEN {<<Plan, Need>>} ELSE {}
    /\ content = [q \in Requests |-> IF q = Need THEN "missing" ELSE "unreviewed"]
    /\ linked = actions
    /\ completed = {}
    /\ op = [r \in Requests |->
             IF r \notin Seeded THEN "none"
             ELSE CASE r = Role -> "createTarget" [] r = Need -> "createRequirement"
                    [] r = Report -> "analyseV3" [] r = Plan -> "generate"]
    /\ subject = [r \in Requests |->
             IF r \notin Seeded \/ r = Role THEN r
             ELSE CASE r \in {Need, Report} -> Role [] r = Plan -> Report]
    /\ \E v \in CVs : cv = [r \in Requests |-> v]
    /\ wanted = [r \in Requests |-> "none"]
    /\ pc = [r \in Requests |-> IF r \in Seeded THEN "Done" ELSE "Idle"]
    /\ snapshot = [r \in Requests |->
             IF r \in Seeded \cap {Report} THEN {<<Need, "missing">>} ELSE {}]
    /\ fresh = [r \in Requests |-> IF r \in Seeded \cap {Plan} THEN {Need} ELSE {}]
    /\ served = [r \in Requests |-> r]
    /\ taken = [r \in Requests |-> {}]
    /\ outcome = [r \in Requests |-> IF r \in Seeded THEN "ok" ELSE "none"]
    /\ fault = [r \in Requests |-> "none"]

\* A client names rows it has been shown; they may be gone when they are read.
Arrive(r, kind, id, v, value) ==
    /\ pc[r] = "Idle"
    /\ kind \in Kinds
    /\ op' = [op EXCEPT ![r] = kind]
    /\ subject' = [subject EXCEPT ![r] = id]
    /\ cv' = [cv EXCEPT ![r] = v]
    /\ wanted' = [wanted EXCEPT ![r] = value]
    /\ Goto(r, "Start")
    /\ UNCHANGED <<rows, local, taken, answer>>

ArriveTarget(r) ==
    \/ Arrive(r, "createTarget", r, cv[r], "none")
    \/ \E t \in targets : Arrive(r, "deleteTarget", t, cv[r], "none")

ArriveRequirement(r) ==
    \/ \E t \in targets, c \in Contents : Arrive(r, "createRequirement", t, cv[r], c)
    \/ \E q \in requirements, c \in Contents : Arrive(r, "updateRequirement", q, cv[r], c)
    \/ \E q \in requirements : Arrive(r, "deleteRequirement", q, cv[r], "none")

ArriveAnalysis(r) ==
    \/ \E t \in targets, v \in versions, kind \in Analyse : Arrive(r, kind, t, v, "none")
    \/ \E v \in versions : Arrive(r, "deleteDocument", r, v, "none")

ArriveAction(r) ==
    \/ \E a \in analyses : Arrive(r, "generate", a, cv[r], "none")
    \/ \E x \in actions, s \in Statuses : Arrive(r, "updateStatus", x, cv[r], s)

-----------------------------------------------------------------------------
(* Roles and requirements.                                                  *)

CreateTarget(r) ==
    /\ Statement(r, "Start", {"createTarget"})
    /\ Proceed(r, "Committing")

\* get_owned_target takes no lock.
CheckTarget(r) ==
    /\ Statement(r, "Start", {"createRequirement"})
    /\ \/ subject[r] \in targets /\ Proceed(r, "Inserting")
       \/ subject[r] \notin targets /\ Finish(r, "notFound", "none")

\* The foreign key check waits for whoever holds the role, and may fail then.
InsertRequirement(r) ==
    /\ Statement(r, "Inserting", {"createRequirement"})
    /\ \/ subject[r] \in targets /\ Proceed(r, "Committing")
       \/ subject[r] \notin targets /\ Finish(r, "failed", "foreignKey")

LockRequirement(r) ==
    /\ Statement(r, "Start", {"updateRequirement", "deleteRequirement"})
    /\ \/ /\ subject[r] \in requirements
          /\ Proceed(r, IF op[r] = "updateRequirement" THEN "Committing" ELSE "Unlinking")
       \/ /\ subject[r] \notin requirements
          /\ Finish(r, "notFound", "none")

\* DELETE job_requirements: ON DELETE SET NULL updates the actions made of it.
UnlinkActions(r) ==
    /\ TookRows(r, "Unlinking", {"deleteRequirement"})
    /\ Proceed(r, "Committing")

LockTarget(r) ==
    /\ \/ Statement(r, "Start", {"deleteTarget"})
       \/ Statement(r, "LockingTarget", Analyse)
    /\ \/ /\ subject[r] \in targets
          /\ Proceed(r, IF op[r] = "deleteTarget" THEN "CascadingAnalyses" ELSE "Reading")
       \/ /\ subject[r] \notin targets
          /\ Finish(r, "notFound", "none")

\* DELETE cascades to the version of the document ...
CascadeVersion(r) ==
    /\ Statement(r, "CascadingVersion", {"deleteDocument"})
    /\ Proceed(r, "CascadingAnalyses")

\* ... to the analyses of the version, or of the role ...
CascadeAnalyses(r) ==
    /\ TookRows(r, "CascadingAnalyses", ParentDeletions)
    /\ Proceed(r, "CascadingActions")

\* ... to their actions ...
CascadeActions(r) ==
    /\ TookRows(r, "CascadingActions", ParentDeletions)
    /\ Proceed(r, IF op[r] = "deleteTarget" THEN "CascadingNeeds" ELSE "Committing")

\* ... and to the requirements of the role: their foreign key was created later.
CascadeRequirements(r) ==
    /\ TookRows(r, "CascadingNeeds", {"deleteTarget"})
    /\ Proceed(r, "Committing")

-----------------------------------------------------------------------------
(* Analyses.                                                                *)

\* FOR UPDATE over the version joined with its document locks the version ...
LockVersion(r) ==
    /\ Statement(r, "Start", Analyse)
    /\ \/ cv[r] \in versions /\ Proceed(r, "LockingDocument")
       \/ cv[r] \notin versions /\ Finish(r, "notFound", "none")

\* ... and then the document, which the deletion locks first.
LockDocument(r) ==
    /\ \/ Statement(r, "LockingDocument", Analyse)
       \/ Statement(r, "Start", {"deleteDocument"})
    /\ \/ /\ cv[r] \in versions
          /\ Proceed(r, IF op[r] \in Analyse THEN "LockingTarget" ELSE "CascadingVersion")
       \/ /\ cv[r] \notin versions
          /\ Finish(r, "notFound", "none")

\* CV_TEXT_NOT_READY: there is no extraction of the version that can be used.
TextNotReady(r) ==
    /\ Statement(r, "Reading", Analyse)
    /\ Finish(r, "refused", "none")

\* What identifies an analysis: version, role, scoring version, fingerprint.
Key(a) == <<cv[a], subject[a], op[a], snapshot[a]>>

\* The v3 fingerprint covers every requirement of the role; v2's none of them.
Inputs(r) ==
    IF op[r] = "analyseV2" THEN {}
    ELSE {<<q, content[q]>> : q \in RequirementsOf(subject[r])}

Existing(r) == {a \in analyses : Key(a) = <<cv[r], subject[r], op[r], Inputs(r)>>}

\* The requirements are read, without a lock, under the lock of their role.
ReadRequirements(r) ==
    /\ Statement(r, "Reading", Analyse)
    /\ \/ \E a \in Existing(r) :
              /\ served' = [served EXCEPT ![r] = a]
              /\ Goto(r, "Committing")
              /\ UNCHANGED <<rows, ask, snapshot, fresh, taken, answer>>
       \/ /\ Existing(r) = {}
          /\ op[r] = "analyseV2" \/ (\E i \in Inputs(r) : i[2] # "unreviewed")
          /\ snapshot' = [snapshot EXCEPT ![r] = Inputs(r)]
          /\ Goto(r, "Committing")
          /\ UNCHANGED <<rows, ask, fresh, served, taken, answer>>
       \/ /\ Existing(r) = {} /\ op[r] = "analyseV3"
          /\ \A i \in Inputs(r) : i[2] = "unreviewed"
          /\ Finish(r, "refused", "none")

-----------------------------------------------------------------------------
(* Action plans.                                                            *)

\* deterministic_action_candidates, from the stored payload of the analysis.
Candidates(a) ==
    IF op[a] = "analyseV3" THEN {i[1] : i \in {j \in snapshot[a] : j[2] = "missing"}}
                           ELSE {}

\* Variant: existing actions are not looked at.
NewCandidatesAll(a) == Candidates(a)

NewCandidates(a) == Candidates(a) \ {x[2] : x \in ActionsOf(a) \cap linked}

\* Variant: the analysis is read without FOR UPDATE, so the lock is not awaited.
SelectAnalysis(r) ==
    /\ pc[r] = "Start" /\ op[r] = "generate" /\ subject[r] \in analyses
    /\ fresh' = [fresh EXCEPT ![r] = NewCandidates(subject[r])]
    /\ Goto(r, "Inserting")
    /\ UNCHANGED <<rows, ask, snapshot, served, taken, answer>>

LockAnalysis(r) ==
    /\ Statement(r, "Start", {"generate"})
    /\ \/ /\ subject[r] \in analyses
          /\ fresh' = [fresh EXCEPT ![r] = NewCandidates(subject[r])]
          /\ Goto(r, "Inserting")
          /\ UNCHANGED <<rows, ask, snapshot, served, taken, answer>>
       \/ /\ subject[r] \notin analyses
          /\ Finish(r, "notFound", "none")

\* The foreign key check of each action locks its requirement, if it is there.
InsertActions(r) ==
    /\ pc[r] = "Inserting" /\ op[r] = "generate"
    /\ \/ /\ fresh[r] \subseteq requirements
          /\ TookRows(r, "Inserting", {"generate"})
          /\ Proceed(r, "Committing")
       \/ /\ ~(fresh[r] \subseteq requirements)
          /\ Finish(r, "failed", "foreignKey")

\* update_status selects the action without a lock ...
FindAction(r) ==
    /\ Statement(r, "Start", {"updateStatus"})
    /\ \/ subject[r] \in actions /\ Proceed(r, "Updating")
       \/ subject[r] \notin actions /\ Finish(r, "notFound", "none")

\* Variant: the row is written whether or not it is still there.
UpsertAction(r) ==
    /\ Statement(r, "Updating", {"updateStatus"})
    /\ Proceed(r, "Committing")

\* ... and its UPDATE may match no row any more: StaleDataError.
UpdateAction(r) ==
    /\ Statement(r, "Updating", {"updateStatus"})
    /\ \/ subject[r] \in actions /\ Proceed(r, "Committing")
       \/ subject[r] \notin actions /\ Finish(r, "failed", "stale")

-----------------------------------------------------------------------------
(* The end of the transaction.                                              *)

\* A unique key rejects the INSERT.
Conflicts(r) ==
    \/ op[r] \in Analyse /\ served[r] = r /\ \E a \in analyses : Key(a) = Key(r)
    \/ /\ op[r] = "generate"
       /\ \E x \in ActionsOf(subject[r]) \cap linked : x[2] \in fresh[r]

ApplyInsert(r) ==
    /\ targets' = targets \cup (IF op[r] = "createTarget" THEN {r} ELSE {})
    /\ requirements' = requirements \cup (IF op[r] = "createRequirement" THEN {r} ELSE {})
    /\ analyses' = analyses \cup (IF op[r] \in Analyse /\ served[r] = r THEN {r} ELSE {})
    /\ actions' = actions \cup (IF op[r] = "generate" THEN {r} \X fresh[r] ELSE {})
    /\ linked' = linked \cup (IF op[r] = "generate" THEN {r} \X fresh[r] ELSE {})
    /\ content' = IF op[r] = "createRequirement"
                  THEN [content EXCEPT ![r] = wanted[r]] ELSE content
    /\ UNCHANGED <<versions, completed>>

ApplyUpdate(r) ==
    /\ content' = IF op[r] = "updateRequirement"
                  THEN [content EXCEPT ![subject[r]] = wanted[r]] ELSE content
    /\ completed' = CASE op[r] # "updateStatus" -> completed
                      [] wanted[r] = "completed" -> completed \cup {subject[r]}
                      [] OTHER -> completed \ {subject[r]}
    /\ UNCHANGED <<targets, versions, requirements, analyses, actions, linked>>

\* Variant: the actions made of the requirement are deleted, not unlinked.
ApplyRequirementCascade(r) ==
    /\ requirements' = requirements \ {subject[r]}
    /\ actions' = actions \ UnlinkedActions(r)
    /\ linked' = linked \ UnlinkedActions(r)
    /\ completed' = completed \ UnlinkedActions(r)
    /\ UNCHANGED <<targets, versions, analyses, content>>

ApplyRequirementDeletion(r) ==
    /\ requirements' = requirements \ {subject[r]}
    /\ linked' = linked \ UnlinkedActions(r)
    /\ UNCHANGED <<targets, versions, analyses, actions, content, completed>>

\* Variant: actions do not go with their analysis.
ApplyParentOnly(r) ==
    /\ targets' = IF op[r] = "deleteTarget" THEN targets \ {subject[r]} ELSE targets
    /\ versions' = IF op[r] = "deleteDocument" THEN versions \ {cv[r]} ELSE versions
    /\ analyses' = analyses \ CascadedAnalyses(r)
    /\ requirements' = IF op[r] = "deleteTarget"
                       THEN requirements \ RequirementsOf(subject[r]) ELSE requirements
    /\ UNCHANGED <<actions, linked, content, completed>>

ApplyParentDeletion(r) ==
    /\ targets' = IF op[r] = "deleteTarget" THEN targets \ {subject[r]} ELSE targets
    /\ versions' = IF op[r] = "deleteDocument" THEN versions \ {cv[r]} ELSE versions
    /\ analyses' = analyses \ CascadedAnalyses(r)
    /\ actions' = actions \ CascadedActions(r)
    /\ linked' = linked \ CascadedActions(r)
    /\ completed' = completed \ CascadedActions(r)
    /\ requirements' = IF op[r] = "deleteTarget"
                       THEN requirements \ RequirementsOf(subject[r]) ELSE requirements
    /\ UNCHANGED content

Inserts == Analyse \cup {"createTarget", "createRequirement", "generate"}
Updates == {"updateRequirement", "updateStatus"}

Commit(r) ==
    /\ pc[r] = "Committing"
    /\ ~Conflicts(r)
    /\ \/ op[r] \in Inserts /\ ApplyInsert(r)
       \/ op[r] \in Updates /\ ApplyUpdate(r)
       \/ op[r] = "deleteRequirement" /\ ApplyRequirementDeletion(r)
       \/ op[r] \in ParentDeletions /\ ApplyParentDeletion(r)
    /\ Goto(r, "Done")
    /\ outcome' = [outcome EXCEPT ![r] = "ok"]
    /\ taken' = [taken EXCEPT ![r] = {}]
    /\ UNCHANGED <<ask, local, fault>>

\* A unique key, or COMMIT itself, fails: rollback.
CommitFails(r) ==
    /\ pc[r] = "Committing"
    /\ Finish(r, "failed", IF Conflicts(r) THEN "unique" ELSE "commit")

\* PostgreSQL's deadlock detector aborts one waiter of a cycle.
DeadlockVictim(r) ==
    /\ Deadlocked(r)
    /\ Finish(r, "failed", "deadlock")

\* A statement or the process fails: the transaction is rolled back.
Abort(r) ==
    /\ pc[r] \notin {"Idle", "Committing", "Done"}
    /\ Finish(r, "failed", "abort")

Step(r) ==
    \/ CreateTarget(r) \/ CheckTarget(r) \/ InsertRequirement(r)
    \/ LockRequirement(r) \/ UnlinkActions(r)
    \/ LockTarget(r) \/ CascadeVersion(r) \/ CascadeAnalyses(r) \/ CascadeActions(r)
    \/ CascadeRequirements(r) \/ TakeRow(r)
    \/ LockVersion(r) \/ LockDocument(r) \/ TextNotReady(r) \/ ReadRequirements(r)
    \/ LockAnalysis(r) \/ InsertActions(r) \/ FindAction(r) \/ UpdateAction(r)
    \/ Commit(r) \/ CommitFails(r) \/ DeadlockVictim(r)

Environment(r) ==
    \/ ArriveTarget(r) \/ ArriveRequirement(r) \/ ArriveAnalysis(r) \/ ArriveAction(r)
    \/ Abort(r)

Next == \E r \in Requests : Step(r) \/ Environment(r)

Spec == Init /\ [][Next]_vars

-----------------------------------------------------------------------------
(* Properties.                                                              *)

Steps ==
    {"Idle", "Start", "Inserting", "Unlinking", "LockingDocument", "LockingTarget",
     "Reading", "Updating", "Done"} \cup Cascade

\* Every variable keeps its type; no row of an action is written back after
\* the action is gone.
TypeOK ==
    /\ targets \subseteq Requests /\ requirements \subseteq Requests
    /\ versions \subseteq CVs /\ analyses \subseteq Requests
    /\ actions \subseteq Requests \X Requests
    /\ linked \subseteq actions /\ completed \subseteq actions
    /\ content \in [Requests -> Contents]
    /\ op \in [Requests -> AllKinds \cup {"none"}]
    /\ subject \in [Requests -> Requests \cup (Requests \X Requests)]
    /\ cv \in [Requests -> CVs]
    /\ wanted \in [Requests -> Contents \cup Statuses \cup {"none"}]
    /\ pc \in [Requests -> Steps]
    /\ snapshot \in [Requests -> SUBSET (Requests \X Contents)]
    /\ fresh \in [Requests -> SUBSET Requests]
    /\ served \in [Requests -> Requests]
    /\ taken \in [Requests -> SUBSET (({"analyses", "requirements"} \X Requests)
                                        \cup ({"actions"} \X (Requests \X Requests)))]
    /\ outcome \in [Requests -> {"none", "ok", "notFound", "refused", "failed"}]
    /\ fault \in [Requests ->
           {"none", "foreignKey", "stale", "unique", "commit", "deadlock", "abort"}]

\* Deletions that race analyses, generations and new requirements leave no
\* row behind whose parent is gone: cascades and key share locks together
\* cover every transaction that was in flight.
RowsWired ==
    /\ \A q \in requirements : subject[q] \in targets
    /\ \A a \in analyses : subject[a] \in targets /\ cv[a] \in versions
    /\ \A x \in actions : AnalysisOf(x) \in analyses
    /\ \A x \in linked : x[2] \in requirements

\* The row locks alone keep analyses and actions unique: two requests that
\* ask for the same analysis or plan never reach the unique constraints.
NeverConflicts == \A r \in Requests : pc[r] = "Committing" => ~Conflicts(r)

\* The analysis a request is about to return is stored, or will be by its own
\* commit with the version and the role it refers to still there.
ReportStays ==
    \A r \in Requests : op[r] \in Analyse /\ pc[r] = "Committing" =>
        /\ cv[r] \in versions /\ subject[r] \in targets
        /\ served[r] \in analyses \cup {r}

\* Once a plan was generated, and as long as its analysis exists, it has
\* exactly one action for each gap of the stored payload, whatever happened
\* to the requirements since: "earlier persisted actions are not mutated".
PlanComplete ==
    \A g \in Requests :
        op[g] = "generate" /\ outcome[g] = "ok" /\ subject[g] \in analyses =>
            \A q \in Candidates(subject[g]) :
                Cardinality({x \in ActionsOf(subject[g]) : x[2] = q}) = 1

\* "Repeating generation for unchanged analysis content returns the existing
\* action plan": after a plan was generated, no repetition meets a constraint.
RepeatedGenerationServed ==
    \A g, h \in Requests :
        op[g] = "generate" /\ outcome[g] = "ok" /\ op[h] = "generate"
            /\ subject[h] = subject[g] => fault[h] \notin {"foreignKey", "unique"}

\* Apart from failures, a generation is refused by a constraint only after a
\* requirement of the stored payload was deleted: "repeating generation for
\* unchanged analysis content returns the existing action plan" holds till then.
RejectedGenerationsExplained ==
    \A g \in Requests : op[g] = "generate" /\ fault[g] \in {"foreignKey", "unique"} =>
        ~(Candidates(subject[g]) \subseteq requirements)

\* Two transactions wait for each other only if one deletes a document and
\* the other analyses its version, or they are deletions of two kinds: of a
\* role, of a document, of a requirement.  Analyses, plans, updates and new
\* requirements never deadlock among themselves, nor with the deletion of a
\* role: it takes its analyses before its requirements, as plans do.
KnownDeadlocks ==
    \A q, r \in Requests :
        q # r /\ Blocks(q, r) /\ Blocks(r, q) =>
            \/ op[q] = "deleteDocument" /\ op[r] \in Analyse /\ cv[q] = cv[r]
            \/ op[r] = "deleteDocument" /\ op[q] \in Analyse /\ cv[q] = cv[r]
            \/ /\ {op[q], op[r]} \subseteq ParentDeletions \cup {"deleteRequirement"}
               /\ op[q] # op[r]
=============================================================================
