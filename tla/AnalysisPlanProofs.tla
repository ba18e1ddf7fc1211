-------------------------- MODULE AnalysisPlanProofs --------------------------
(***************************************************************************)
(* The safety properties of AnalysisPlan for any number of requests and CV *)
(* versions.                                                               *)
(***************************************************************************)
EXTENDS AnalysisPlan, FiniteSetTheorems, TLAPS

-----------------------------------------------------------------------------
(* The parts of the inductive invariant.                                    *)

\* Which steps belong to which operation, and which ids it is about.
StepOf(r) ==
    /\ pc[r] = "Idle" <=> op[r] = "none"
    /\ pc[r] = "Inserting" => op[r] \in {"createRequirement", "generate"}
    /\ pc[r] = "Unlinking" => op[r] = "deleteRequirement"
    /\ pc[r] \in {"LockingDocument", "LockingTarget", "Reading"} => op[r] \in Analyse
    /\ pc[r] = "CascadingVersion" => op[r] = "deleteDocument"
    /\ pc[r] \in {"CascadingAnalyses", "CascadingActions"} => op[r] \in ParentDeletions
    /\ pc[r] = "CascadingNeeds" => op[r] = "deleteTarget"
    /\ pc[r] = "Updating" => op[r] = "updateStatus"
    /\ pc[r] # "Done" => outcome[r] = "none" /\ fault[r] = "none"

\* The request that inserted row i.
Inserted(i, kinds) == i \in Requests /\ op[i] \in kinds /\ pc[i] = "Done"

AboutOf(r) ==
    /\ op[r] = "createTarget" => subject[r] = r
    /\ op[r] \in Analyse \cup {"createRequirement", "deleteTarget"}
           => Inserted(subject[r], {"createTarget"})
    /\ op[r] \in {"updateRequirement", "deleteRequirement"}
           => Inserted(subject[r], {"createRequirement"})
    /\ op[r] = "generate" => Inserted(subject[r], Analyse)
    /\ op[r] = "updateStatus" =>
           subject[r] \in Requests \X Requests /\ Inserted(subject[r][1], {"generate"})
    /\ op[r] \in {"createRequirement", "updateRequirement"} /\ pc[r] # "Done"
           => wanted[r] \in Contents
    /\ \A i \in snapshot[r] :
           /\ op[r] \in Analyse /\ Inserted(i[1], {"createRequirement"})
           /\ subject[i[1]] = subject[r]
    /\ fresh[r] # {} => op[r] = "generate" /\ fresh[r] \subseteq Candidates(subject[r])
    /\ pc[r] \in {"Committing", "Done"} \/ served[r] = r

StepInv == \A r \in Requests : StepOf(r) /\ AboutOf(r)

\* Rows were inserted by requests that are done.
RowInv ==
    /\ \A t \in targets : Inserted(t, {"createTarget"})
    /\ \A q \in requirements : Inserted(q, {"createRequirement"})
    /\ \A a \in analyses : Inserted(a, Analyse)
    /\ \A x \in actions :
        Inserted(x[1], {"generate"}) /\ x[2] \in Candidates(AnalysisOf(x))
    /\ \A x \in actions \ linked : x[2] \notin requirements
    /\ \A x, y \in actions : AnalysisOf(x) = AnalysisOf(y) /\ x[2] = y[2] => x = y

\* What r holds is not held by q.
Apart(r, q) ==
    /\ \A t \in targets : HoldsTarget(r, t) => ~HoldsTarget(q, t) /\ ~SharesTarget(q, t)
    /\ \A v \in versions : ~(HoldsVersion(r, v) /\ HoldsVersion(q, v))
    /\ \A v \in versions : ~(HoldsDocument(r, v) /\ HoldsDocument(q, v))
    /\ \A n \in requirements :
           HoldsRequirement(r, n) => ~HoldsRequirement(q, n) /\ ~SharesRequirement(q, n)
    /\ \A a \in analyses : ~(HoldsAnalysis(r, a) /\ HoldsAnalysis(q, a))
    /\ \A x \in actions : ~(HoldsAction(r, x) /\ HoldsAction(q, x))

LockInv == \A r \in Requests : \A q \in Requests \ {r} : Apart(r, q)

\* What a request has locked first is there ...
HeldOf(r) ==
    /\ (\/ op[r] \in Analyse /\ pc[r] \in {"Reading", "Committing"}
        \/ op[r] = "createRequirement" /\ pc[r] = "Committing"
        \/ op[r] = "deleteTarget" /\ pc[r] \in Cascade)
           => subject[r] \in targets
    /\ (\/ /\ op[r] \in Analyse
           /\ pc[r] \in {"LockingDocument", "LockingTarget", "Reading", "Committing"}
        \/ op[r] = "deleteDocument" /\ pc[r] \in Cascade)
           => cv[r] \in versions
    /\ (\/ op[r] = "updateRequirement" /\ pc[r] = "Committing"
        \/ op[r] = "deleteRequirement" /\ pc[r] \in {"Unlinking", "Committing"})
           => subject[r] \in requirements
    /\ op[r] = "generate" /\ pc[r] \in {"Inserting", "Committing"} => subject[r] \in analyses
    /\ op[r] = "generate" /\ pc[r] = "Committing" => fresh[r] \subseteq requirements
    /\ op[r] = "updateStatus" /\ pc[r] = "Committing" => subject[r] \in actions

HeldInv == \A r \in Requests : HeldOf(r)

\* ... and so is each row that a statement has come to since.
TookOf(r) ==
    /\ \A a : Took(r, "analyses", a) =>
           /\ a \in CascadedAnalyses(r)
           /\ op[r] \in ParentDeletions /\ pc[r] \in Cascade \ {"CascadingVersion"}
    /\ \A x : Took(r, "actions", x) =>
           \/ /\ x \in CascadedActions(r)
              /\ op[r] \in ParentDeletions
              /\ pc[r] \in {"CascadingActions", "CascadingNeeds", "Committing"}
           \/ /\ x \in actions /\ x[2] = subject[r]
              /\ op[r] = "deleteRequirement" /\ pc[r] \in {"Unlinking", "Committing"}
    /\ \A n : Took(r, "requirements", n) =>
           \/ /\ n \in RequirementsOf(subject[r])
              /\ op[r] = "deleteTarget" /\ pc[r] \in {"CascadingNeeds", "Committing"}
           \/ /\ n \in requirements /\ n \in fresh[r]
              /\ op[r] = "generate" /\ pc[r] \in {"Inserting", "Committing"}

\* A statement that is over has come to all of its rows.
TookAllOf(r) ==
    /\ op[r] \in ParentDeletions /\ pc[r] \in {"CascadingActions", "CascadingNeeds", "Committing"}
           => \A a \in CascadedAnalyses(r) : Took(r, "analyses", a)
    /\ op[r] \in ParentDeletions /\ pc[r] \in {"CascadingNeeds", "Committing"}
           => \A x \in CascadedActions(r) : Took(r, "actions", x)
    /\ op[r] = "deleteTarget" /\ pc[r] = "Committing"
           => \A n \in RequirementsOf(subject[r]) : Took(r, "requirements", n)
    /\ op[r] = "deleteRequirement" /\ pc[r] = "Committing"
           => \A x \in UnlinkedActions(r) : Took(r, "actions", x)
    /\ op[r] = "generate" /\ pc[r] = "Committing"
           => \A n \in fresh[r] : Took(r, "requirements", n)

TookInv == \A r \in Requests : TookOf(r) /\ TookAllOf(r)

\* What a request has read under its locks is so still.
ReportOf(r) ==
    op[r] \in Analyse /\ pc[r] = "Committing" =>
        /\ served[r] \in analyses \cup {r}
        /\ served[r] # r => cv[served[r]] = cv[r] /\ subject[served[r]] = subject[r]
        /\ served[r] = r => \A a \in analyses : Key(a) # Key(r)

Covered(g) ==
    \A q \in Candidates(subject[g]) : q \in fresh[g] \/ \E x \in ActionsOf(subject[g]) : x[2] = q

PlanOf(g) ==
    op[g] = "generate" =>
        /\ pc[g] \in {"Inserting", "Committing"} =>
            /\ Covered(g)
            /\ \A x \in ActionsOf(subject[g]) \cap linked : x[2] \notin fresh[g]
        /\ outcome[g] = "ok" /\ subject[g] \in analyses =>
            \A q \in Candidates(subject[g]) : \E x \in ActionsOf(subject[g]) : x[2] = q

ReadInv == \A r \in Requests : ReportOf(r) /\ PlanOf(r)

PlanInv ==
    /\ TypeOK /\ StepInv /\ RowInv /\ LockInv /\ HeldInv /\ TookInv /\ ReadInv
    /\ RowsWired /\ RejectedGenerationsExplained

-----------------------------------------------------------------------------
(* Facts that several steps share.                                          *)

\* What is derived from rows and locals alone changes only with them.
LEMMA Derived ==
    ASSUME UNCHANGED <<rows, ask, snapshot>>
    PROVE  /\ \A i : Candidates(i)' = Candidates(i) /\ ActionsOf(i)' = ActionsOf(i)
           /\ \A i : AnalysisOf(i)' = AnalysisOf(i) /\ Key(i)' = Key(i)
           /\ \A i : CascadedActions(i)' = CascadedActions(i)
           /\ \A i : CascadedAnalyses(i)' = CascadedAnalyses(i)
           /\ \A i : UnlinkedActions(i)' = UnlinkedActions(i)
           /\ \A i : RequirementsOf(i)' = RequirementsOf(i)
BY DEF rows, ask, Candidates, ActionsOf, AnalysisOf, Key, CascadedActions, CascadedAnalyses,
   UnlinkedActions, RequirementsOf

\* Locks on rows that were locked before conflict with nobody.
LEMMA LocksKept ==
    ASSUME LockInv,
           \A q \in Requests : \A i :
               /\ i \in targets' /\ HoldsTarget(q, i)' => i \in targets /\ HoldsTarget(q, i)
               /\ i \in targets' /\ SharesTarget(q, i)' => i \in targets /\ SharesTarget(q, i)
               /\ i \in versions' /\ HoldsVersion(q, i)' => i \in versions /\ HoldsVersion(q, i)
               /\ i \in versions' /\ HoldsDocument(q, i)' => i \in versions /\ HoldsDocument(q, i)
               /\ i \in requirements' /\ HoldsRequirement(q, i)'
                      => i \in requirements /\ HoldsRequirement(q, i)
               /\ i \in requirements' /\ SharesRequirement(q, i)'
                      => i \in requirements /\ SharesRequirement(q, i)
               /\ i \in analyses' /\ HoldsAnalysis(q, i)' => i \in analyses /\ HoldsAnalysis(q, i)
               /\ i \in actions' /\ HoldsAction(q, i)' => i \in actions /\ HoldsAction(q, i)
    PROVE  LockInv'
BY DEF LockInv, Apart

-----------------------------------------------------------------------------
(* Steps that leave the rows alone.                                         *)

\* A request that ends without COMMIT releases what it holds.
LEMMA FinishStep ==
    ASSUME PlanInv, NEW r \in Requests, pc[r] \notin {"Idle", "Done"},
           NEW o \in {"notFound", "refused", "failed"},
           NEW f \in {"none", "foreignKey", "stale", "unique", "commit", "deadlock", "abort"},
           op[r] = "generate" /\ f \in {"foreignKey", "unique"}
               => ~(Candidates(subject[r]) \subseteq requirements),
           Finish(r, o, f)
    PROVE  PlanInv'
<1> USE DEF PlanInv, TypeOK, Steps
<1>1. /\ UNCHANGED <<rows, ask, local>>
      /\ pc' = [pc EXCEPT ![r] = "Done"] /\ outcome' = [outcome EXCEPT ![r] = o]
      /\ fault' = [fault EXCEPT ![r] = f] /\ taken' = [taken EXCEPT ![r] = {}]
  BY DEF Finish, Goto
<1> USE DEF rows, ask, local
<1>2. TypeOK'
  BY <1>1
<1>3. StepInv'
  BY <1>1 DEF StepInv, StepOf, AboutOf, Inserted, Candidates
<1>9. \A i : /\ Candidates(i)' = Candidates(i) /\ ActionsOf(i)' = ActionsOf(i)
             /\ AnalysisOf(i)' = AnalysisOf(i) /\ Key(i)' = Key(i)
  BY <1>1, Derived
<1>4. RowInv' /\ RowsWired'
  <2>1. \A i, kinds : Inserted(i, kinds) => Inserted(i, kinds)'
    BY <1>1 DEF Inserted
  <2> QED
    BY <1>1, <1>9, <2>1 DEF RowInv, RowsWired
<1>5. LockInv'
  <2>1. \A q \in Requests : pc'[q] = pc[q] \/ pc'[q] = "Done"
    BY <1>1
  <2>2. \A q \in Requests : \A table, i : Took(q, table, i)' => Took(q, table, i)
    BY <1>1 DEF Took
  <2> QED
    BY <1>1, <2>1, <2>2, LocksKept DEF HoldsTarget, SharesTarget, HoldsVersion, HoldsDocument,
       HoldsRequirement, HoldsOwnRequirement, SharesRequirement, HoldsAnalysis, HoldsAction,
       Cascade
<1>6. HeldInv'
  BY <1>1 DEF HeldInv, HeldOf, Cascade
<1>10. TookInv'
  <2>1. \A i : /\ CascadedActions(i)' = CascadedActions(i)
               /\ CascadedAnalyses(i)' = CascadedAnalyses(i)
               /\ UnlinkedActions(i)' = UnlinkedActions(i)
               /\ RequirementsOf(i)' = RequirementsOf(i)
    BY <1>1, Derived
  <2>2. ASSUME NEW q \in Requests \ {r} PROVE TookOf(q)' /\ TookAllOf(q)'
    BY <1>1, <2>1 DEF TookInv, TookOf, TookAllOf, Took
  <2>3. TookOf(r)' /\ TookAllOf(r)'
    BY <1>1 DEF TookOf, TookAllOf, Took
  <2> QED
    BY <2>2, <2>3 DEF TookInv
<1>7. ReadInv'
  <2>1. ASSUME NEW q \in Requests PROVE ReportOf(q)'
    BY <1>1, <1>9 DEF ReadInv, ReportOf
  <2>2. ASSUME NEW q \in Requests PROVE PlanOf(q)'
    BY <1>1, <1>9 DEF ReadInv, PlanOf, Covered
  <2> QED
    BY <2>1, <2>2 DEF ReadInv
<1>8. RejectedGenerationsExplained'
  BY <1>1 DEF RejectedGenerationsExplained, Candidates
<1> QED
  BY <1>2, <1>3, <1>4, <1>5, <1>6, <1>7, <1>8, <1>10

\* A step of r that changes no row and nothing of other requests.
LocalStep(r) ==
    /\ UNCHANGED <<rows, outcome, fault>>
    /\ \A q \in Requests \ {r} :
        /\ op'[q] = op[q] /\ subject'[q] = subject[q] /\ cv'[q] = cv[q]
        /\ wanted'[q] = wanted[q]
        /\ pc'[q] = pc[q] /\ snapshot'[q] = snapshot[q]
        /\ fresh'[q] = fresh[q] /\ served'[q] = served[q] /\ taken'[q] = taken[q]

\* Of such a step only r is to be looked at.
LEMMA LocalKeeps ==
    ASSUME PlanInv, NEW r \in Requests, pc[r] # "Done", pc'[r] # "Done", LocalStep(r),
           TypeOK', StepOf(r)', AboutOf(r)', HeldOf(r)', TookOf(r)', TookAllOf(r)',
           ReportOf(r)', PlanOf(r)',
           \A q \in Requests \ {r} : Apart(r, q)' /\ Apart(q, r)'
    PROVE  PlanInv'
<1> USE DEF PlanInv, LocalStep, rows
<1>1. \A i \in Requests : \A kinds : Inserted(i, kinds) => i # r /\ Inserted(i, kinds)'
  BY DEF Inserted
<1>2. \A i \in Requests \ {r} : Candidates(i)' = Candidates(i)
  BY DEF Candidates
<1>3. \A x \in actions : x[1] # r /\ AnalysisOf(x) # r /\ AnalysisOf(x)' = AnalysisOf(x)
  <2> SUFFICES ASSUME NEW x \in actions
               PROVE  x[1] # r /\ AnalysisOf(x) # r /\ AnalysisOf(x)' = AnalysisOf(x)
    OBVIOUS
  <2>1. Inserted(x[1], {"generate"}) /\ x[1] \in Requests
    BY DEF RowInv, Inserted
  <2>2. Inserted(AnalysisOf(x), Analyse) /\ AnalysisOf(x) \in Requests
    BY <2>1 DEF StepInv, AboutOf, Inserted, AnalysisOf
  <2> QED
    BY <1>1, <2>1, <2>2 DEF AnalysisOf
<1>4. \A a : ActionsOf(a)' = ActionsOf(a)
  BY <1>3 DEF ActionsOf
<1>5. \A a \in analyses : a # r /\ Key(a)' = Key(a) /\ a \in Requests
  BY <1>1 DEF RowInv, Inserted, Key
<1>6. StepInv'
  <2>1. ASSUME NEW q \in Requests, q # r PROVE StepOf(q)'
    BY <2>1 DEF StepInv, StepOf
  <2>2. ASSUME NEW q \in Requests, q # r PROVE AboutOf(q)'
    <3>1. op[q] = "generate" => subject[q] \in Requests \ {r}
      BY <1>1, <2>2 DEF StepInv, AboutOf, Inserted
    <3>2. \A i \in snapshot[q] : i[1] \in Requests \ {r}
      BY <1>1, <2>2 DEF StepInv, AboutOf, Inserted
    <3> QED
      BY <1>1, <1>2, <2>2, <3>1, <3>2 DEF StepInv, AboutOf, Inserted
  <2> QED
    BY <2>1, <2>2 DEF StepInv
<1>7. RowInv'
  <2>1. \A x \in actions : Candidates(AnalysisOf(x))' = Candidates(AnalysisOf(x))
    <3> SUFFICES ASSUME NEW x \in actions
                 PROVE  Candidates(AnalysisOf(x))' = Candidates(AnalysisOf(x))
      OBVIOUS
    <3>1. Inserted(x[1], {"generate"}) /\ x[1] \in Requests
      BY DEF RowInv, Inserted
    <3>2. AnalysisOf(x) \in Requests \ {r}
      BY <1>3, <3>1 DEF StepInv, AboutOf, Inserted, AnalysisOf
    <3> QED
      BY <1>2, <1>3, <3>2, SMTT(60) DEF Candidates
  <2> QED
    BY <1>1, <1>3, <2>1 DEF RowInv, Inserted
<1>8. LockInv'
  <2> SUFFICES ASSUME NEW p \in Requests, NEW q \in Requests \ {p} PROVE Apart(p, q)'
    BY DEF LockInv
  <2>1. CASE r \in {p, q}
    BY <2>1
  <2>2. CASE r \notin {p, q}
    <3>1. Apart(p, q)
      BY DEF LockInv
    <3>2. \A t \in targets :
              /\ HoldsTarget(p, t)' = HoldsTarget(p, t) /\ HoldsTarget(q, t)' = HoldsTarget(q, t)
              /\ SharesTarget(q, t)' = SharesTarget(q, t)
      BY <2>2 DEF HoldsTarget, SharesTarget
    <3>3. \A v : /\ HoldsVersion(p, v)' = HoldsVersion(p, v)
                 /\ HoldsVersion(q, v)' = HoldsVersion(q, v)
                 /\ HoldsDocument(p, v)' = HoldsDocument(p, v)
                 /\ HoldsDocument(q, v)' = HoldsDocument(q, v)
      BY <2>2 DEF HoldsVersion, HoldsDocument
    <3>4. \A table, i : Took(p, table, i)' = Took(p, table, i) /\ Took(q, table, i)' = Took(q, table, i)
      BY <2>2 DEF Took
    <3>5. \A i : /\ HoldsRequirement(p, i)' = HoldsRequirement(p, i)
                 /\ HoldsRequirement(q, i)' = HoldsRequirement(q, i)
                 /\ SharesRequirement(q, i)' = SharesRequirement(q, i)
                 /\ HoldsAnalysis(p, i)' = HoldsAnalysis(p, i)
                 /\ HoldsAnalysis(q, i)' = HoldsAnalysis(q, i)
                 /\ HoldsAction(p, i)' = HoldsAction(p, i)
                 /\ HoldsAction(q, i)' = HoldsAction(q, i)
      BY <2>2, <3>4 DEF HoldsRequirement, HoldsOwnRequirement, SharesRequirement,
         HoldsAnalysis, HoldsAction
    <3> QED
      BY <3>1, <3>2, <3>3, <3>5 DEF Apart
  <2> QED
    BY <2>1, <2>2
<1>9. HeldInv'
  BY DEF HeldInv, HeldOf
<1>13. TookInv'
  <2> SUFFICES ASSUME NEW q \in Requests \ {r} PROVE TookOf(q)' /\ TookAllOf(q)'
    BY DEF TookInv
  <2>1. /\ op'[q] = op[q] /\ pc'[q] = pc[q] /\ subject'[q] = subject[q] /\ fresh'[q] = fresh[q]
        /\ \A table, i : Took(q, table, i)' = Took(q, table, i)
    BY DEF Took
  <2>2. CascadedAnalyses(q)' = CascadedAnalyses(q)
    BY <1>5 DEF CascadedAnalyses
  <2>3. CascadedActions(q)' = CascadedActions(q)
    BY <1>3, <2>2 DEF CascadedActions
  <2>4. UnlinkedActions(q)' = UnlinkedActions(q)
    BY DEF UnlinkedActions
  <2>5. RequirementsOf(subject[q])' = RequirementsOf(subject[q])
    BY <1>1 DEF RequirementsOf, RowInv, Inserted
  <2>6. TookOf(q) /\ TookAllOf(q)
    BY DEF TookInv
  <2>7. TookOf(q)'
    BY <2>1, <2>2, <2>3, <2>5, <2>6 DEF TookOf
  <2>8. TookAllOf(q)'
    BY <2>1, <2>2, <2>3, <2>4, <2>5, <2>6 DEF TookAllOf
  <2> QED
    BY <2>7, <2>8
<1>10. ReadInv'
  <2>1. ASSUME NEW q \in Requests, q # r PROVE ReportOf(q)'
    <3>1. \A a \in analyses \cup {q} : Key(a)' = Key(a) /\ cv'[a] = cv[a] /\ subject'[a] = subject[a]
      BY <1>5, <2>1 DEF Key
    <3> QED
      BY <2>1, <3>1 DEF ReadInv, ReportOf
  <2>2. ASSUME NEW q \in Requests, q # r PROVE PlanOf(q)'
    <3>1. op[q] = "generate" => Candidates(subject[q])' = Candidates(subject[q])
      <4>1. op[q] = "generate" => subject[q] \in Requests \ {r} /\ subject'[q] = subject[q]
        BY <1>1, <2>2 DEF StepInv, AboutOf, Inserted
      <4> QED
        BY <4>1, ZenonT(60) DEF Candidates
    <3> QED
      BY <1>4, <2>2, <3>1 DEF ReadInv, PlanOf, Covered
  <2> QED
    BY <2>1, <2>2 DEF ReadInv
<1>11. RowsWired'
  <2>1. \A q \in requirements : subject'[q] = subject[q]
    BY <1>1 DEF RowInv, Inserted
  <2>2. \A a \in analyses : subject'[a] = subject[a] /\ cv'[a] = cv[a]
    BY <1>5
  <2> QED
    BY <1>3, <2>1, <2>2 DEF RowsWired
<1>12. RejectedGenerationsExplained'
  <2> SUFFICES ASSUME NEW g \in Requests, op'[g] = "generate",
                      fault'[g] \in {"foreignKey", "unique"}
               PROVE  ~(Candidates(subject[g])' \subseteq requirements)
    BY DEF RejectedGenerationsExplained
  <2>1. g # r /\ op[g] = "generate"
    <3>1. StepOf(r)
      BY DEF StepInv
    <3>2. fault[r] = "none" /\ fault' = fault
      BY ONLY <3>1, pc[r] # "Done", LocalStep(r) DEF StepOf, LocalStep
    <3> QED
      BY <3>2
  <2>2. subject[g] \in Requests \ {r} /\ subject'[g] = subject[g]
    BY <1>1, <2>1 DEF StepInv, AboutOf, Inserted
  <2>3. Candidates(subject[g])' = Candidates(subject[g])
    BY ONLY <2>2, LocalStep(r) DEF Candidates, LocalStep
  <2> QED
    BY <2>1, <2>3 DEF RejectedGenerationsExplained
<1> QED
  BY <1>6, <1>7, <1>8, <1>9, <1>10, <1>11, <1>12, <1>13

\* What r locks in a step is not locked by another request.
LocksGranted(r) ==
    \A q \in Requests \ {r} :
        /\ \A t \in targets :
            /\ HoldsTarget(r, t)' =>
                   HoldsTarget(r, t) \/ ~(HoldsTarget(q, t) \/ SharesTarget(q, t))
            /\ SharesTarget(r, t)' => SharesTarget(r, t) \/ ~HoldsTarget(q, t)
        /\ \A v \in versions :
            /\ HoldsVersion(r, v)' => HoldsVersion(r, v) \/ ~HoldsVersion(q, v)
            /\ HoldsDocument(r, v)' => HoldsDocument(r, v) \/ ~HoldsDocument(q, v)
        /\ \A n \in requirements :
            /\ HoldsRequirement(r, n)' =>
                   HoldsRequirement(r, n) \/ ~(HoldsRequirement(q, n) \/ SharesRequirement(q, n))
            /\ SharesRequirement(r, n)' => SharesRequirement(r, n) \/ ~HoldsRequirement(q, n)
        /\ \A a \in analyses :
               HoldsAnalysis(r, a)' => HoldsAnalysis(r, a) \/ ~HoldsAnalysis(q, a)
        /\ \A x \in actions : HoldsAction(r, x)' => HoldsAction(r, x) \/ ~HoldsAction(q, x)

\* Locks that are granted leave every pair of requests apart.
LEMMA GrantedApart ==
    ASSUME PlanInv, NEW r \in Requests, UNCHANGED <<rows, ask>>, LocksGranted(r),
           \A q \in Requests \ {r} : pc'[q] = pc[q] /\ taken'[q] = taken[q]
    PROVE  \A q \in Requests \ {r} : Apart(r, q)' /\ Apart(q, r)'
<1> SUFFICES ASSUME NEW q \in Requests \ {r} PROVE Apart(r, q)' /\ Apart(q, r)'
  OBVIOUS
<1> USE DEF rows, ask
<1>1. Apart(r, q) /\ Apart(q, r)
  BY DEF PlanInv, LockInv
<1>2. \A table, i : Took(q, table, i)' = Took(q, table, i)
  BY DEF Took
<1>3. \A i :
        /\ HoldsTarget(q, i)' = HoldsTarget(q, i) /\ SharesTarget(q, i)' = SharesTarget(q, i)
        /\ HoldsVersion(q, i)' = HoldsVersion(q, i)
        /\ HoldsDocument(q, i)' = HoldsDocument(q, i)
        /\ HoldsRequirement(q, i)' = HoldsRequirement(q, i)
        /\ SharesRequirement(q, i)' = SharesRequirement(q, i)
        /\ HoldsAnalysis(q, i)' = HoldsAnalysis(q, i)
        /\ HoldsAction(q, i)' = HoldsAction(q, i)
  BY <1>2 DEF HoldsTarget, SharesTarget, HoldsVersion, HoldsDocument, HoldsRequirement,
     HoldsOwnRequirement, SharesRequirement, HoldsAnalysis, HoldsAction
<1>4. Apart(r, q)'
  BY <1>1, <1>3 DEF Apart, LocksGranted
<1>5. Apart(q, r)'
  BY <1>1, <1>3 DEF Apart, LocksGranted
<1> QED
  BY <1>4, <1>5

\* A statement that is granted changes only where its request is.
LEMMA ProceedKeeps ==
    ASSUME PlanInv, NEW r \in Requests, pc[r] \notin {"Idle", "Committing", "Done"},
           NEW to \in Steps \ {"Idle", "Done"}, Proceed(r, to),
           StepOf(r)', HeldOf(r)', TookOf(r)', TookAllOf(r)', ReportOf(r)', PlanOf(r)',
           LocksGranted(r)
    PROVE  PlanInv'
<1> USE DEF rows, ask, local, answer
<1>1. UNCHANGED <<rows, ask, local, taken, answer>> /\ pc' = [pc EXCEPT ![r] = to]
  BY DEF Proceed, Goto
<1>2. TypeOK'
  BY <1>1 DEF PlanInv, TypeOK, Steps
<1>3. LocalStep(r) /\ pc'[r] # "Done"
  BY <1>1 DEF LocalStep, PlanInv, TypeOK, Steps
<1>4. AboutOf(r)'
  BY <1>1 DEF PlanInv, TypeOK, StepInv, AboutOf, Inserted, Candidates, Steps
<1>5. \A q \in Requests \ {r} : Apart(r, q)' /\ Apart(q, r)'
  BY <1>1, <1>3, GrantedApart DEF LocalStep
<1> QED
  BY <1>2, <1>3, <1>4, <1>5, LocalKeeps

\* A request arrives, about ids of rows that were there at some time.
LEMMA ArriveStep ==
    ASSUME PlanInv, NEW r \in Requests, NEW kind \in AllKinds,
           NEW id \in Requests \cup (Requests \X Requests), NEW v \in CVs,
           NEW value \in Contents \cup Statuses \cup {"none"},
           kind = "createTarget" => id = r,
           kind \in Analyse \cup {"createRequirement", "deleteTarget"} => id \in targets,
           kind \in {"updateRequirement", "deleteRequirement"} => id \in requirements,
           kind = "generate" => id \in analyses,
           kind = "updateStatus" => id \in actions,
           kind \in {"createRequirement", "updateRequirement"} => value \in Contents,
           Arrive(r, kind, id, v, value)
    PROVE  PlanInv'
<1> USE DEF rows, local, answer
<1>1. /\ UNCHANGED <<rows, local, taken, answer>>
      /\ pc[r] = "Idle" /\ op[r] = "none" /\ pc' = [pc EXCEPT ![r] = "Start"]
      /\ op' = [op EXCEPT ![r] = kind] /\ subject' = [subject EXCEPT ![r] = id]
      /\ cv' = [cv EXCEPT ![r] = v] /\ wanted' = [wanted EXCEPT ![r] = value]
  BY DEF Arrive, Goto, PlanInv, StepInv, StepOf
<1>2. TypeOK'
  BY <1>1 DEF PlanInv, TypeOK, Steps
<1>3. /\ op'[r] = kind /\ subject'[r] = id /\ cv'[r] = v /\ pc'[r] = "Start"
      /\ wanted'[r] = value
      /\ outcome'[r] = "none" /\ fault'[r] = "none" /\ snapshot'[r] = {} /\ fresh'[r] = {}
      /\ served'[r] = r
  BY <1>1 DEF PlanInv, TypeOK, StepInv, StepOf, AboutOf, Analyse
<1>4. LocalStep(r)
  BY <1>1 DEF LocalStep, PlanInv, TypeOK
<1>5. StepOf(r)'
  BY <1>3 DEF StepOf, AllKinds, Analyse
<1>6. AboutOf(r)'
  <2>1. \A i \in Requests : \A kinds : Inserted(i, kinds) => Inserted(i, kinds)'
    BY <1>1 DEF Inserted, PlanInv, TypeOK
  <2>2. kind \in Analyse \cup {"createRequirement", "deleteTarget"}
            => id \in Requests /\ Inserted(id, {"createTarget"})'
    BY <2>1 DEF PlanInv, RowInv, Inserted
  <2>3. kind \in {"updateRequirement", "deleteRequirement"}
            => id \in Requests /\ Inserted(id, {"createRequirement"})'
    BY <2>1 DEF PlanInv, RowInv, Inserted
  <2>4. kind = "generate" => id \in Requests /\ Inserted(id, Analyse)'
    BY <2>1 DEF PlanInv, RowInv, Inserted
  <2>5. kind = "updateStatus" => id \in Requests \X Requests /\ Inserted(id[1], {"generate"})'
    BY <2>1 DEF PlanInv, TypeOK, RowInv, Inserted
  <2> QED
    BY <1>3, <2>2, <2>3, <2>4, <2>5 DEF AboutOf
<1>9. \A table \in {"analyses", "actions", "requirements"} : \A i : ~Took(r, table, i)'
  <2>1. \A table \in {"analyses", "actions", "requirements"} : \A i : ~Took(r, table, i)
    BY <1>1 DEF PlanInv, TookInv, TookOf, Cascade
  <2> QED
    BY <1>1, <2>1 DEF Took
<1>7. HeldOf(r)' /\ TookOf(r)' /\ TookAllOf(r)' /\ ReportOf(r)' /\ PlanOf(r)'
  BY <1>3, <1>9 DEF HeldOf, TookOf, TookAllOf, ReportOf, PlanOf, Cascade
<1>8. \A q \in Requests \ {r} : Apart(r, q)' /\ Apart(q, r)'
  <2>1. \A i : /\ ~HoldsTarget(r, i)' /\ ~SharesTarget(r, i)' /\ ~HoldsVersion(r, i)'
               /\ ~HoldsDocument(r, i)' /\ ~HoldsRequirement(r, i)' /\ ~SharesRequirement(r, i)'
               /\ ~HoldsAnalysis(r, i)' /\ ~HoldsAction(r, i)'
    BY <1>3, <1>9 DEF HoldsTarget, SharesTarget, HoldsVersion, HoldsDocument, HoldsRequirement,
       HoldsOwnRequirement, SharesRequirement, HoldsAnalysis, HoldsAction, Cascade
  <2> QED
    BY <2>1 DEF Apart
<1> QED
  BY <1>1, <1>2, <1>3, <1>4, <1>5, <1>6, <1>7, <1>8, LocalKeeps

\* The requests that may arrive are those of ArriveStep.
LEMMA ArriveKeeps ==
    ASSUME PlanInv, NEW r \in Requests,
           ArriveTarget(r) \/ ArriveRequirement(r) \/ ArriveAnalysis(r) \/ ArriveAction(r)
    PROVE  PlanInv'
<1>1. /\ cv[r] \in CVs /\ targets \subseteq Requests /\ requirements \subseteq Requests
      /\ analyses \subseteq Requests /\ actions \subseteq Requests \X Requests
      /\ versions \subseteq CVs
  BY DEF PlanInv, TypeOK
<1>2. CASE ArriveTarget(r)
  BY <1>1, <1>2, ArriveStep DEF ArriveTarget, AllKinds, Analyse
<1>3. CASE ArriveRequirement(r)
  BY <1>1, <1>3, ArriveStep DEF ArriveRequirement, AllKinds, Analyse
<1>4. CASE ArriveAnalysis(r)
  BY <1>1, <1>4, ArriveStep DEF ArriveAnalysis, AllKinds, Analyse
<1>5. CASE ArriveAction(r)
  BY <1>1, <1>5, ArriveStep DEF ArriveAction, AllKinds, Analyse
<1> QED
  BY <1>2, <1>3, <1>4, <1>5

-----------------------------------------------------------------------------
(* One lemma per step.                                                      *)

\* r has not come to a statement that locks many rows.
NoneTook(r) ==
    \A table \in {"analyses", "actions", "requirements"} : \A i : ~Took(r, table, i)

\* Such a request stays so in a step that locks a single row.
LEMMA NoneTookKept ==
    ASSUME PlanInv, NEW r \in Requests, taken' = taken, UNCHANGED ask,
           \/ pc[r] \in {"Start", "LockingDocument", "LockingTarget", "Reading", "Updating",
                         "CascadingVersion"}
           \/ op[r] = "createRequirement",
           op[r] \in ParentDeletions => pc'[r] \in {"CascadingVersion", "CascadingAnalyses"},
           op[r] \in {"deleteRequirement", "generate"} => pc'[r] # "Committing"
    PROVE  NoneTook(r)' /\ TookOf(r)' /\ TookAllOf(r)'
<1>1. NoneTook(r)
  BY DEF PlanInv, TookInv, TookOf, NoneTook, Cascade, ParentDeletions
<1>2. NoneTook(r)'
  BY <1>1 DEF NoneTook, Took
<1>3. TookOf(r)' /\ TookAllOf(r)'
  BY <1>2 DEF NoneTook, TookOf, TookAllOf, ask, ParentDeletions
<1> QED
  BY <1>2, <1>3

\* A new role is locked by nobody.
LEMMA CreateTargetKeeps ==
    ASSUME PlanInv, NEW r \in Requests, CreateTarget(r)
    PROVE  PlanInv'
<1>1. pc[r] = "Start" /\ op[r] = "createTarget" /\ Proceed(r, "Committing")
  BY DEF CreateTarget, Statement
<1>2. /\ pc'[r] = "Committing" /\ op'[r] = "createTarget"
      /\ outcome'[r] = outcome[r] /\ fault'[r] = fault[r] /\ UNCHANGED <<ask, taken>>
  BY <1>1 DEF Proceed, Goto, PlanInv, TypeOK, ask, answer
<1>5. NoneTook(r)' /\ TookOf(r)' /\ TookAllOf(r)'
  BY <1>1, <1>2, NoneTookKept DEF ParentDeletions
<1>3. StepOf(r)' /\ HeldOf(r)' /\ ReportOf(r)' /\ PlanOf(r)'
  BY <1>1, <1>2 DEF StepOf, HeldOf, ReportOf, PlanOf, PlanInv, StepInv, Analyse,
     ParentDeletions, Cascade
<1>4. LocksGranted(r)
  BY <1>1, <1>2, <1>5 DEF LocksGranted, HoldsTarget, SharesTarget, HoldsVersion,
     HoldsDocument, HoldsRequirement, HoldsOwnRequirement, SharesRequirement, HoldsAnalysis,
     HoldsAction, Analyse, ParentDeletions, Cascade, NoneTook
<1> QED
  BY <1>1, <1>3, <1>4, <1>5, ProceedKeeps DEF Steps, Cascade

\* Reading a role takes no lock.
LEMMA CheckTargetKeeps ==
    ASSUME PlanInv, NEW r \in Requests, CheckTarget(r)
    PROVE  PlanInv'
<1>1. pc[r] = "Start" /\ op[r] = "createRequirement"
  BY DEF CheckTarget, Statement
<1>2. CASE Proceed(r, "Inserting")
  <2>1. /\ pc'[r] = "Inserting" /\ op'[r] = "createRequirement"
        /\ outcome'[r] = outcome[r] /\ fault'[r] = fault[r]
        /\ UNCHANGED <<ask, taken>>
    BY <1>1, <1>2 DEF Proceed, Goto, PlanInv, TypeOK, ask, answer
  <2>5. NoneTook(r)' /\ TookOf(r)' /\ TookAllOf(r)'
    BY <1>1, <1>2, <2>1, NoneTookKept DEF Analyse, ParentDeletions
  <2>2. StepOf(r)' /\ HeldOf(r)' /\ ReportOf(r)' /\ PlanOf(r)'
    BY <1>1, <2>1 DEF StepOf, HeldOf, ReportOf, PlanOf, PlanInv, StepInv, Analyse,
       ParentDeletions, Cascade
  <2>3. LocksGranted(r)
    BY <1>1, <2>1, <2>5 DEF LocksGranted, HoldsTarget, SharesTarget, HoldsVersion,
       HoldsDocument, HoldsRequirement, HoldsOwnRequirement, SharesRequirement, HoldsAnalysis,
       HoldsAction, Analyse, ParentDeletions, Cascade, NoneTook
  <2> QED
    BY <1>1, <1>2, <2>2, <2>3, <2>5, ProceedKeeps DEF Steps, Cascade
<1>3. CASE Finish(r, "notFound", "none")
  BY <1>1, <1>3, FinishStep
<1> QED
  BY <1>2, <1>3 DEF CheckTarget

\* The key share lock of the role waits for those who hold it.
LEMMA InsertRequirementKeeps ==
    ASSUME PlanInv, NEW r \in Requests, InsertRequirement(r)
    PROVE  PlanInv'
<1>1. pc[r] = "Inserting" /\ op[r] = "createRequirement" /\ Granted(r)
  BY DEF InsertRequirement, Statement
<1>2. CASE subject[r] \in targets /\ Proceed(r, "Committing")
  <2>1. /\ pc'[r] = "Committing" /\ op'[r] = "createRequirement" /\ UNCHANGED rows
        /\ subject'[r] = subject[r] /\ outcome'[r] = outcome[r] /\ fault'[r] = fault[r]
        /\ UNCHANGED <<ask, taken>>
    BY <1>1, <1>2 DEF Proceed, Goto, PlanInv, TypeOK, ask, answer
  <2>5. NoneTook(r)' /\ TookOf(r)' /\ TookAllOf(r)'
    BY <1>1, <1>2, <2>1, NoneTookKept DEF Analyse, ParentDeletions
  <2>2. StepOf(r)' /\ HeldOf(r)' /\ ReportOf(r)' /\ PlanOf(r)'
    BY <1>1, <1>2, <2>1 DEF StepOf, HeldOf, ReportOf, PlanOf, PlanInv, StepInv, Analyse,
       ParentDeletions, Cascade, rows
  <2>3. \A q \in Requests \ {r} : ~HoldsTarget(q, subject[r])
    BY <1>1 DEF Granted, Blocks
  <2>4. LocksGranted(r)
    BY <1>1, <2>1, <2>3, <2>5 DEF LocksGranted, HoldsTarget, SharesTarget, HoldsVersion,
       HoldsDocument, HoldsRequirement, HoldsOwnRequirement, SharesRequirement, HoldsAnalysis,
       HoldsAction, Analyse, ParentDeletions, Cascade, NoneTook
  <2> QED
    BY <1>1, <1>2, <2>2, <2>4, <2>5, ProceedKeeps DEF Steps, Cascade
<1>3. CASE Finish(r, "failed", "foreignKey")
  BY <1>1, <1>3, FinishStep
<1> QED
  BY <1>2, <1>3 DEF InsertRequirement

\* A requirement that is found is locked against change and reference.
LEMMA LockRequirementKeeps ==
    ASSUME PlanInv, NEW r \in Requests, LockRequirement(r)
    PROVE  PlanInv'
<1>1. /\ pc[r] = "Start" /\ op[r] \in {"updateRequirement", "deleteRequirement"}
      /\ Granted(r)
  BY DEF LockRequirement, Statement
<1>2. ASSUME subject[r] \in requirements, NEW to \in Steps,
             to = IF op[r] = "updateRequirement" THEN "Committing" ELSE "Unlinking",
             Proceed(r, to)
      PROVE  PlanInv'
  <2>1. /\ pc'[r] = to /\ op'[r] = op[r] /\ UNCHANGED rows
        /\ subject'[r] = subject[r] /\ outcome'[r] = outcome[r] /\ fault'[r] = fault[r]
        /\ UNCHANGED <<ask, taken>>
    BY <1>1, <1>2 DEF Proceed, Goto, PlanInv, TypeOK, ask, answer
  <2>5. NoneTook(r)' /\ TookOf(r)' /\ TookAllOf(r)'
    BY <1>1, <1>2, <2>1, NoneTookKept DEF Analyse, ParentDeletions
  <2>2. StepOf(r)' /\ HeldOf(r)' /\ ReportOf(r)' /\ PlanOf(r)'
    BY <1>1, <1>2, <2>1 DEF StepOf, HeldOf, ReportOf, PlanOf, PlanInv, StepInv, Analyse,
       ParentDeletions, Cascade, rows
  <2>3. \A q \in Requests \ {r} :
            ~HoldsRequirement(q, subject[r]) /\ ~SharesRequirement(q, subject[r])
    BY <1>1 DEF Granted, Blocks
  <2>4. LocksGranted(r)
    BY <1>1, <1>2, <2>1, <2>3, <2>5 DEF LocksGranted, HoldsTarget, SharesTarget, HoldsVersion,
       HoldsDocument, HoldsRequirement, HoldsOwnRequirement, SharesRequirement, HoldsAnalysis,
       HoldsAction, Analyse, ParentDeletions, Cascade, NoneTook
  <2> QED
    BY <1>1, <1>2, <2>2, <2>4, <2>5, ProceedKeeps DEF Steps, Cascade
<1>3. CASE Finish(r, "notFound", "none")
  BY <1>1, <1>3, FinishStep
<1> QED
  BY <1>2, <1>3 DEF LockRequirement, Steps, Cascade

\* A statement that locks many rows goes on only when it has come to all of
\* them, so that the next one locks nothing new.
LEMMA TookRowsKeeps ==
    ASSUME PlanInv, NEW r \in Requests, NEW to \in Steps, NEW from \in Steps, NEW kinds,
           TookRows(r, from, kinds), Proceed(r, to),
           \/ from = "CascadingAnalyses" /\ op[r] \in ParentDeletions /\ to = "CascadingActions"
           \/ from = "CascadingActions" /\ op[r] = "deleteTarget" /\ to = "CascadingNeeds"
           \/ from = "CascadingActions" /\ op[r] = "deleteDocument" /\ to = "Committing"
           \/ from = "CascadingNeeds" /\ op[r] = "deleteTarget" /\ to = "Committing"
           \/ from = "Unlinking" /\ op[r] = "deleteRequirement" /\ to = "Committing"
           \/ /\ from = "Inserting" /\ op[r] = "generate" /\ to = "Committing"
              /\ fresh[r] \subseteq requirements
    PROVE  PlanInv'
<1>1. /\ pc[r] = from /\ pc'[r] = to /\ UNCHANGED <<rows, ask, local, taken, answer>>
  BY DEF TookRows, Statement, Proceed, Goto, PlanInv, TypeOK
<1>2. /\ op'[r] = op[r] /\ subject'[r] = subject[r] /\ cv'[r] = cv[r] /\ fresh'[r] = fresh[r]
      /\ outcome'[r] = outcome[r] /\ fault'[r] = fault[r]
      /\ \A table, i : Took(r, table, i)' = Took(r, table, i)
  BY <1>1 DEF ask, local, answer, Took
<1>3. /\ CascadedAnalyses(r)' = CascadedAnalyses(r)
      /\ CascadedActions(r)' = CascadedActions(r)
      /\ UnlinkedActions(r)' = UnlinkedActions(r)
      /\ RequirementsOf(subject[r])' = RequirementsOf(subject[r])
      /\ \A i : Candidates(i)' = Candidates(i) /\ ActionsOf(i)' = ActionsOf(i)
  BY <1>1, Derived DEF local, ask
<1>4. TookOf(r) /\ TookAllOf(r) /\ HeldOf(r) /\ StepOf(r) /\ PlanOf(r)
  BY DEF PlanInv, TookInv, HeldInv, StepInv, ReadInv
<1>5. StepOf(r)'
  BY <1>1, <1>2, <1>4 DEF StepOf, ParentDeletions
<1>6. HeldOf(r)'
  BY <1>1, <1>2, <1>4 DEF HeldOf, Cascade, Analyse, ParentDeletions, rows
<1>7. TookOf(r)'
  BY <1>1, <1>2, <1>3, <1>4 DEF TookOf, Cascade, ParentDeletions, rows
<1>8. TookAllOf(r)'
  <2>1. \A row \in RowsToTake(r) : row \in taken[r]
    BY DEF TookRows
  <2>2. from = "CascadingAnalyses" => \A a \in CascadedAnalyses(r) : Took(r, "analyses", a)
    BY <1>1, <2>1 DEF RowsToTake, Took
  <2>3. from = "CascadingActions" => \A x \in CascadedActions(r) : Took(r, "actions", x)
    BY <1>1, <2>1 DEF RowsToTake, Took
  <2>4. from = "CascadingNeeds" => \A n \in RequirementsOf(subject[r]) : Took(r, "requirements", n)
    BY <1>1, <2>1 DEF RowsToTake, Took
  <2>5. from = "Unlinking" => \A x \in UnlinkedActions(r) : Took(r, "actions", x)
    BY <1>1, <2>1 DEF RowsToTake, Took
  <2>6. from = "Inserting" => \A n \in fresh[r] \cap requirements : Took(r, "requirements", n)
    BY <1>1, <2>1 DEF RowsToTake, Took
  <2> QED
    BY <1>1, <1>2, <1>3, <1>4, <2>2, <2>3, <2>4, <2>5, <2>6 DEF TookAllOf, ParentDeletions
<1>9. ReportOf(r)'
  BY <1>1, <1>2 DEF ReportOf, Analyse, ParentDeletions
<1>10. PlanOf(r)'
  BY <1>1, <1>2, <1>3, <1>4 DEF PlanOf, Covered, StepOf, rows, ParentDeletions
<1>11. LocksGranted(r)
  BY <1>1, <1>2 DEF LocksGranted, HoldsTarget, SharesTarget, HoldsVersion, HoldsDocument,
     HoldsRequirement, HoldsOwnRequirement, SharesRequirement, HoldsAnalysis, HoldsAction,
     Analyse, ParentDeletions, Cascade
<1> QED
  BY <1>1, <1>5, <1>6, <1>7, <1>8, <1>9, <1>10, <1>11, ProceedKeeps DEF Steps, Cascade

\* The statements that lock many rows.
LEMMA RowStatementsKeep ==
    ASSUME PlanInv, NEW r \in Requests,
           \/ UnlinkActions(r) \/ CascadeAnalyses(r) \/ CascadeActions(r)
           \/ CascadeRequirements(r)
    PROVE  PlanInv'
<1>1. CASE UnlinkActions(r)
  BY <1>1, TookRowsKeeps DEF UnlinkActions, TookRows, Statement, Steps, Cascade
<1>2. CASE CascadeAnalyses(r)
  BY <1>2, TookRowsKeeps DEF CascadeAnalyses, TookRows, Statement, Steps, Cascade
<1>3. CASE CascadeActions(r)
  <2>1. op[r] \in ParentDeletions /\ TookRows(r, "CascadingActions", ParentDeletions)
    BY <1>3 DEF CascadeActions, TookRows, Statement
  <2>2. CASE op[r] = "deleteTarget"
    BY <1>3, <2>1, <2>2, TookRowsKeeps DEF CascadeActions, Steps, Cascade
  <2>3. CASE op[r] = "deleteDocument"
    BY <1>3, <2>1, <2>3, TookRowsKeeps DEF CascadeActions, Steps, Cascade
  <2> QED
    BY <2>1, <2>2, <2>3 DEF ParentDeletions
<1>4. CASE CascadeRequirements(r)
  BY <1>4, TookRowsKeeps DEF CascadeRequirements, TookRows, Statement, Steps, Cascade
<1> QED
  BY <1>1, <1>2, <1>3, <1>4

\* A row that a statement comes to is locked by nobody who excludes it.
LEMMA TakeRowKeeps ==
    ASSUME PlanInv, NEW r \in Requests, TakeRow(r)
    PROVE  PlanInv'
<1>1. PICK row \in RowsToTake(r) :
        /\ \A q \in Requests \ {r} : ~TakenFrom(q, r, row)
        /\ taken' = [taken EXCEPT ![r] = taken[r] \cup {row}]
        /\ UNCHANGED <<rows, ask, pc, local, answer>>
  BY DEF TakeRow
<1> USE DEF ask, local, answer
<1>2. StepOf(r) /\ TookOf(r) /\ TookAllOf(r) /\ HeldOf(r) /\ ReportOf(r) /\ PlanOf(r) /\ AboutOf(r)
  BY DEF PlanInv, TookInv, HeldInv, StepInv, ReadInv
<1>3. PICK table, i : row = <<table, i>> /\ table \in {"analyses", "actions", "requirements"}
  BY <1>1 DEF RowsToTake
<1>4. \A q \in Requests : \A t, k :
        Took(q, t, k)' <=> Took(q, t, k) \/ (q = r /\ t = table /\ k = i)
  BY <1>1, <1>3 DEF Took, PlanInv, TypeOK
<1>5. \/ pc[r] = "CascadingAnalyses" /\ table = "analyses" /\ i \in CascadedAnalyses(r)
      \/ pc[r] = "CascadingActions" /\ table = "actions" /\ i \in CascadedActions(r)
      \/ pc[r] = "CascadingNeeds" /\ table = "requirements" /\ i \in RequirementsOf(subject[r])
      \/ pc[r] = "Unlinking" /\ table = "actions" /\ i \in UnlinkedActions(r)
      \/ pc[r] = "Inserting" /\ table = "requirements" /\ i \in fresh[r] \cap requirements
  BY <1>1, <1>3 DEF RowsToTake
<1>6. \/ pc[r] \in {"CascadingAnalyses", "CascadingActions"} /\ op[r] \in ParentDeletions
      \/ pc[r] = "CascadingNeeds" /\ op[r] = "deleteTarget"
      \/ pc[r] = "Unlinking" /\ op[r] = "deleteRequirement"
      \/ pc[r] = "Inserting" /\ op[r] = "generate"
  <2>1. pc[r] = "Inserting" => op[r] = "generate"
    BY <1>2, <1>5 DEF AboutOf
  <2> QED
    BY <1>2, <1>5, <2>1 DEF StepOf
<1>7. TypeOK'
  <2>1. row \in ({"analyses", "requirements"} \X Requests)
                \cup ({"actions"} \X (Requests \X Requests))
    <3>1. /\ \A a \in CascadedAnalyses(r) : a \in Requests
          /\ \A x \in CascadedActions(r) \cup UnlinkedActions(r) : x \in Requests \X Requests
          /\ \A n \in RequirementsOf(subject[r]) \cup requirements : n \in Requests
      BY DEF CascadedAnalyses, CascadedActions, UnlinkedActions, RequirementsOf, PlanInv, TypeOK
    <3> QED
      BY <1>3, <1>5, <3>1
  <2> QED
    BY <1>1, <2>1 DEF PlanInv, TypeOK, rows
<1>8. LocalStep(r) /\ pc[r] # "Done" /\ pc'[r] # "Done"
  BY <1>1, <1>5 DEF LocalStep, PlanInv, TypeOK
<1>9. /\ \A k : Candidates(k)' = Candidates(k) /\ ActionsOf(k)' = ActionsOf(k) /\ Key(k)' = Key(k)
      /\ CascadedAnalyses(r)' = CascadedAnalyses(r)
      /\ CascadedActions(r)' = CascadedActions(r)
      /\ UnlinkedActions(r)' = UnlinkedActions(r)
      /\ RequirementsOf(subject[r])' = RequirementsOf(subject[r])
  BY <1>1, Derived
<1>10. StepOf(r)' /\ HeldOf(r)' /\ ReportOf(r)' /\ PlanOf(r)' /\ AboutOf(r)'
  BY <1>1, <1>2, <1>9 DEF StepOf, HeldOf, ReportOf, PlanOf, Covered, AboutOf, Inserted, rows
<1>11. TookOf(r)'
  <2>1. UnlinkedActions(r) \subseteq actions /\ \A x \in UnlinkedActions(r) : x[2] = subject[r]
    BY DEF UnlinkedActions, PlanInv, TypeOK
  <2> QED
    BY <1>1, <1>2, <1>4, <1>5, <1>6, <1>9, <2>1 DEF TookOf, Cascade, ParentDeletions, rows
<1>12. TookAllOf(r)'
  BY <1>1, <1>2, <1>4, <1>9 DEF TookAllOf
<1>13. LocksGranted(r)
  <2>1. /\ \A t : HoldsTarget(r, t)' = HoldsTarget(r, t) /\ SharesTarget(r, t)' = SharesTarget(r, t)
        /\ \A v : HoldsVersion(r, v)' = HoldsVersion(r, v)
        /\ \A v : HoldsDocument(r, v)' = HoldsDocument(r, v)
    BY <1>1 DEF HoldsTarget, SharesTarget, HoldsVersion, HoldsDocument
  <2>2. /\ \A n : /\ HoldsRequirement(r, n)'
                        => HoldsRequirement(r, n) \/ (table = "requirements" /\ n = i)
                  /\ SharesRequirement(r, n)'
                        => SharesRequirement(r, n) \/ (table = "requirements" /\ n = i)
        /\ \A a : HoldsAnalysis(r, a)' => HoldsAnalysis(r, a) \/ (table = "analyses" /\ a = i)
        /\ \A x : HoldsAction(r, x)' => HoldsAction(r, x) \/ (table = "actions" /\ x = i)
    BY <1>1, <1>4 DEF HoldsRequirement, HoldsOwnRequirement, SharesRequirement, HoldsAnalysis,
       HoldsAction
  <2>3. ASSUME NEW q \in Requests \ {r}
        PROVE  /\ table = "analyses" => ~HoldsAnalysis(q, i)
               /\ table = "actions" => ~HoldsAction(q, i)
               /\ table = "requirements" =>
                      /\ ~HoldsRequirement(q, i)
                      /\ op[r] = "deleteTarget" => ~SharesRequirement(q, i)
    <3>1. ~TakenFrom(q, r, row) /\ row[1] = table /\ row[2] = i
      BY <1>1, <1>3
    <3> QED
      BY <1>3, <3>1 DEF TakenFrom
  <2>4. \A n : HoldsRequirement(r, n)' => HoldsRequirement(r, n) \/ op[r] = "deleteTarget"
    BY <1>1 DEF HoldsRequirement, HoldsOwnRequirement
  <2> QED
    BY <2>1, <2>2, <2>3, <2>4 DEF LocksGranted
<1>14. \A q \in Requests \ {r} : Apart(r, q)' /\ Apart(q, r)'
  BY <1>1, <1>8, <1>13, GrantedApart DEF LocalStep
<1> QED
  BY <1>7, <1>8, <1>10, <1>11, <1>12, <1>14, LocalKeeps

\* A role that is found is locked against change and reference.
LEMMA LockTargetKeeps ==
    ASSUME PlanInv, NEW r \in Requests, LockTarget(r)
    PROVE  PlanInv'
<1>1. /\ \/ pc[r] = "Start" /\ op[r] = "deleteTarget"
         \/ pc[r] = "LockingTarget" /\ op[r] \in Analyse
      /\ Granted(r)
  BY DEF LockTarget, Statement
<1>2. ASSUME subject[r] \in targets, NEW to \in Steps,
             to = IF op[r] = "deleteTarget" THEN "CascadingAnalyses" ELSE "Reading",
             Proceed(r, to)
      PROVE  PlanInv'
  <2>1. /\ pc'[r] = to /\ op'[r] = op[r] /\ UNCHANGED rows /\ cv'[r] = cv[r]
        /\ subject'[r] = subject[r] /\ outcome'[r] = outcome[r] /\ fault'[r] = fault[r]
        /\ UNCHANGED <<ask, taken>>
    BY <1>1, <1>2 DEF Proceed, Goto, PlanInv, TypeOK, ask, answer
  <2>6. NoneTook(r)' /\ TookOf(r)' /\ TookAllOf(r)'
    BY <1>1, <1>2, <2>1, NoneTookKept DEF Analyse, ParentDeletions
  <2>2. StepOf(r)' /\ ReportOf(r)' /\ PlanOf(r)'
    BY <1>1, <1>2, <2>1 DEF StepOf, ReportOf, PlanOf, PlanInv, StepInv, Analyse,
       ParentDeletions, Cascade, rows
  <2>3. HeldOf(r)'
    BY <1>1, <1>2, <2>1 DEF HeldOf, PlanInv, HeldInv, Analyse, Cascade, rows
  <2>4. \A q \in Requests \ {r} : ~HoldsTarget(q, subject[r]) /\ ~SharesTarget(q, subject[r])
    BY <1>1 DEF Granted, Blocks
  <2>5. LocksGranted(r)
    BY <1>1, <1>2, <2>1, <2>4, <2>6 DEF LocksGranted, HoldsTarget, SharesTarget, HoldsVersion,
       HoldsDocument, HoldsRequirement, HoldsOwnRequirement, SharesRequirement, HoldsAnalysis,
       HoldsAction, Analyse, ParentDeletions, Cascade, NoneTook
  <2> QED
    BY <1>1, <1>2, <2>2, <2>3, <2>5, <2>6, ProceedKeeps DEF Steps, Cascade
<1>3. CASE Finish(r, "notFound", "none")
  BY <1>1, <1>3, FinishStep DEF Analyse
<1> QED
  BY <1>2, <1>3 DEF LockTarget, Steps, Cascade

\* A CV version that is found is locked ...
LEMMA LockVersionKeeps ==
    ASSUME PlanInv, NEW r \in Requests, LockVersion(r)
    PROVE  PlanInv'
<1>1. pc[r] = "Start" /\ op[r] \in Analyse /\ Granted(r)
  BY DEF LockVersion, Statement
<1>2. CASE cv[r] \in versions /\ Proceed(r, "LockingDocument")
  <2>1. /\ pc'[r] = "LockingDocument" /\ op'[r] = op[r] /\ UNCHANGED rows /\ cv'[r] = cv[r]
        /\ subject'[r] = subject[r] /\ outcome'[r] = outcome[r] /\ fault'[r] = fault[r]
        /\ UNCHANGED <<ask, taken>>
    BY <1>1, <1>2 DEF Proceed, Goto, PlanInv, TypeOK, ask, answer
  <2>5. NoneTook(r)' /\ TookOf(r)' /\ TookAllOf(r)'
    BY <1>1, <1>2, <2>1, NoneTookKept DEF Analyse, ParentDeletions
  <2>2. StepOf(r)' /\ HeldOf(r)' /\ ReportOf(r)' /\ PlanOf(r)'
    BY <1>1, <1>2, <2>1 DEF StepOf, HeldOf, ReportOf, PlanOf, PlanInv, StepInv, Analyse,
       ParentDeletions, Cascade, rows
  <2>3. \A q \in Requests \ {r} : ~HoldsVersion(q, cv[r])
    BY <1>1 DEF Granted, Blocks
  <2>4. LocksGranted(r)
    BY <1>1, <1>2, <2>1, <2>3, <2>5 DEF LocksGranted, HoldsTarget, SharesTarget, HoldsVersion,
       HoldsDocument, HoldsRequirement, HoldsOwnRequirement, SharesRequirement, HoldsAnalysis,
       HoldsAction, Analyse, ParentDeletions, Cascade, NoneTook
  <2> QED
    BY <1>1, <1>2, <2>2, <2>4, <2>5, ProceedKeeps DEF Steps, Cascade
<1>3. CASE Finish(r, "notFound", "none")
  BY <1>1, <1>3, FinishStep DEF Analyse
<1> QED
  BY <1>2, <1>3 DEF LockVersion

\* ... and so is its document.
LEMMA LockDocumentKeeps ==
    ASSUME PlanInv, NEW r \in Requests, LockDocument(r)
    PROVE  PlanInv'
<1>1. /\ \/ pc[r] = "LockingDocument" /\ op[r] \in Analyse
         \/ pc[r] = "Start" /\ op[r] = "deleteDocument"
      /\ Granted(r)
  BY DEF LockDocument, Statement
<1>2. ASSUME cv[r] \in versions, NEW to \in Steps,
             to = IF op[r] \in Analyse THEN "LockingTarget" ELSE "CascadingVersion",
             Proceed(r, to)
      PROVE  PlanInv'
  <2>1. /\ pc'[r] = to /\ op'[r] = op[r] /\ UNCHANGED rows /\ cv'[r] = cv[r]
        /\ subject'[r] = subject[r] /\ outcome'[r] = outcome[r] /\ fault'[r] = fault[r]
        /\ UNCHANGED <<ask, taken>>
    BY <1>1, <1>2 DEF Proceed, Goto, PlanInv, TypeOK, ask, answer
  <2>5. NoneTook(r)' /\ TookOf(r)' /\ TookAllOf(r)'
    BY <1>1, <1>2, <2>1, NoneTookKept DEF Analyse, ParentDeletions
  <2>2. StepOf(r)' /\ HeldOf(r)' /\ ReportOf(r)' /\ PlanOf(r)'
    BY <1>1, <1>2, <2>1 DEF StepOf, HeldOf, ReportOf, PlanOf, PlanInv, StepInv, Analyse,
       ParentDeletions, Cascade, rows
  <2>3. \A q \in Requests \ {r} : ~HoldsDocument(q, cv[r])
    BY <1>1 DEF Granted, Blocks
  <2>4. LocksGranted(r)
    BY <1>1, <1>2, <2>1, <2>3, <2>5 DEF LocksGranted, HoldsTarget, SharesTarget, HoldsVersion,
       HoldsDocument, HoldsRequirement, HoldsOwnRequirement, SharesRequirement, HoldsAnalysis,
       HoldsAction, Analyse, ParentDeletions, Cascade, NoneTook
  <2> QED
    BY <1>1, <1>2, <2>2, <2>4, <2>5, ProceedKeeps DEF Steps, Cascade
<1>3. CASE Finish(r, "notFound", "none")
  BY <1>1, <1>3, FinishStep DEF Analyse
<1> QED
  BY <1>2, <1>3 DEF LockDocument, Steps, Cascade

\* The deletion of a document locks its version after the document.
LEMMA CascadeVersionKeeps ==
    ASSUME PlanInv, NEW r \in Requests, CascadeVersion(r)
    PROVE  PlanInv'
<1>1. /\ pc[r] = "CascadingVersion" /\ op[r] = "deleteDocument" /\ Granted(r)
      /\ Proceed(r, "CascadingAnalyses")
  BY DEF CascadeVersion, Statement
<1>2. /\ pc'[r] = "CascadingAnalyses" /\ op'[r] = op[r] /\ UNCHANGED rows /\ cv'[r] = cv[r]
      /\ subject'[r] = subject[r] /\ outcome'[r] = outcome[r] /\ fault'[r] = fault[r]
      /\ UNCHANGED <<ask, taken>>
  BY <1>1 DEF Proceed, Goto, PlanInv, TypeOK, ask, answer
<1>3. NoneTook(r)' /\ TookOf(r)' /\ TookAllOf(r)'
  BY <1>1, <1>2, NoneTookKept DEF ParentDeletions
<1>4. StepOf(r)' /\ HeldOf(r)' /\ ReportOf(r)' /\ PlanOf(r)'
  BY <1>1, <1>2 DEF StepOf, HeldOf, ReportOf, PlanOf, PlanInv, StepInv, HeldInv, Analyse,
     ParentDeletions, Cascade, rows
<1>5. \A q \in Requests \ {r} : ~HoldsVersion(q, cv[r])
  BY <1>1 DEF Granted, Blocks
<1>6. LocksGranted(r)
  BY <1>1, <1>2, <1>3, <1>5 DEF LocksGranted, HoldsTarget, SharesTarget, HoldsVersion,
     HoldsDocument, HoldsRequirement, HoldsOwnRequirement, SharesRequirement, HoldsAnalysis,
     HoldsAction, Analyse, ParentDeletions, Cascade, NoneTook
<1> QED
  BY <1>1, <1>3, <1>4, <1>6, ProceedKeeps DEF Steps, Cascade

\* Finding an action takes no lock.
LEMMA FindActionKeeps ==
    ASSUME PlanInv, NEW r \in Requests, FindAction(r)
    PROVE  PlanInv'
<1>1. pc[r] = "Start" /\ op[r] = "updateStatus"
  BY DEF FindAction, Statement
<1>2. CASE Proceed(r, "Updating")
  <2>1. /\ pc'[r] = "Updating" /\ op'[r] = "updateStatus"
        /\ outcome'[r] = outcome[r] /\ fault'[r] = fault[r]
        /\ UNCHANGED <<ask, taken>>
    BY <1>1, <1>2 DEF Proceed, Goto, PlanInv, TypeOK, ask, answer
  <2>5. NoneTook(r)' /\ TookOf(r)' /\ TookAllOf(r)'
    BY <1>1, <1>2, <2>1, NoneTookKept DEF Analyse, ParentDeletions
  <2>2. StepOf(r)' /\ HeldOf(r)' /\ ReportOf(r)' /\ PlanOf(r)'
    BY <1>1, <2>1 DEF StepOf, HeldOf, ReportOf, PlanOf, PlanInv, StepInv, Analyse,
       ParentDeletions, Cascade
  <2>3. LocksGranted(r)
    BY <1>1, <2>1, <2>5 DEF LocksGranted, HoldsTarget, SharesTarget, HoldsVersion,
       HoldsDocument, HoldsRequirement, HoldsOwnRequirement, SharesRequirement, HoldsAnalysis,
       HoldsAction, Analyse, ParentDeletions, Cascade, NoneTook
  <2> QED
    BY <1>1, <1>2, <2>2, <2>3, <2>5, ProceedKeeps DEF Steps, Cascade
<1>3. CASE Finish(r, "notFound", "none")
  BY <1>1, <1>3, FinishStep
<1> QED
  BY <1>2, <1>3 DEF FindAction

\* The UPDATE of an action that is still there locks it.
LEMMA UpdateActionKeeps ==
    ASSUME PlanInv, NEW r \in Requests, UpdateAction(r)
    PROVE  PlanInv'
<1>1. pc[r] = "Updating" /\ op[r] = "updateStatus" /\ Granted(r)
  BY DEF UpdateAction, Statement
<1>2. CASE subject[r] \in actions /\ Proceed(r, "Committing")
  <2>1. /\ pc'[r] = "Committing" /\ op'[r] = op[r] /\ UNCHANGED rows
        /\ subject'[r] = subject[r] /\ outcome'[r] = outcome[r] /\ fault'[r] = fault[r]
        /\ UNCHANGED <<ask, taken>>
    BY <1>1, <1>2 DEF Proceed, Goto, PlanInv, TypeOK, ask, answer
  <2>5. NoneTook(r)' /\ TookOf(r)' /\ TookAllOf(r)'
    BY <1>1, <1>2, <2>1, NoneTookKept DEF Analyse, ParentDeletions
  <2>2. StepOf(r)' /\ HeldOf(r)' /\ ReportOf(r)' /\ PlanOf(r)'
    BY <1>1, <1>2, <2>1 DEF StepOf, HeldOf, ReportOf, PlanOf, PlanInv, StepInv, Analyse,
       ParentDeletions, Cascade, rows
  <2>3. \A q \in Requests \ {r} : ~HoldsAction(q, subject[r])
    BY <1>1 DEF Granted, Blocks
  <2>4. LocksGranted(r)
    BY <1>1, <1>2, <2>1, <2>3, <2>5 DEF LocksGranted, HoldsTarget, SharesTarget, HoldsVersion,
       HoldsDocument, HoldsRequirement, HoldsOwnRequirement, SharesRequirement, HoldsAnalysis,
       HoldsAction, Analyse, ParentDeletions, Cascade, NoneTook
  <2> QED
    BY <1>1, <1>2, <2>2, <2>4, <2>5, ProceedKeeps DEF Steps, Cascade
<1>3. CASE Finish(r, "failed", "stale")
  BY <1>1, <1>3, FinishStep
<1> QED
  BY <1>2, <1>3 DEF UpdateAction

\* The candidates a generation is to insert are those without an action yet.
LEMMA LockAnalysisKeeps ==
    ASSUME PlanInv, NEW r \in Requests, LockAnalysis(r)
    PROVE  PlanInv'
<1> USE DEF rows, ask, answer
<1>1. pc[r] = "Start" /\ op[r] = "generate" /\ Granted(r)
  BY DEF LockAnalysis, Statement
<1>2. ASSUME subject[r] \in analyses,
             fresh' = [fresh EXCEPT ![r] = NewCandidates(subject[r])],
             Goto(r, "Inserting"), UNCHANGED <<rows, ask, snapshot, served, taken, answer>>
      PROVE  PlanInv'
  <2>1. \A i : /\ Candidates(i)' = Candidates(i) /\ ActionsOf(i)' = ActionsOf(i)
    BY <1>2, Derived
  <2>2. NewCandidates(subject[r]) \subseteq Requests
    <3>1. subject[r] \in Requests
      BY <1>2 DEF PlanInv, TypeOK
    <3>2. \A i \in snapshot[subject[r]] : i[1] \in Requests
      BY <3>1 DEF PlanInv, TypeOK
    <3> QED
      BY <3>2 DEF NewCandidates, Candidates
  <2>3. /\ pc'[r] = "Inserting" /\ op'[r] = op[r] /\ subject'[r] = subject[r]
        /\ fresh'[r] = NewCandidates(subject[r]) /\ LocalStep(r)
    BY <1>1, <1>2 DEF Goto, LocalStep, PlanInv, TypeOK
  <2>4. TypeOK'
    BY <1>2, <2>2 DEF Goto, PlanInv, TypeOK, Steps
  <2>5. StepOf(r)' /\ ReportOf(r)' /\ HeldOf(r)'
    BY <1>1, <1>2, <2>3 DEF StepOf, ReportOf, HeldOf, PlanInv, StepInv, Analyse
  <2>6. AboutOf(r)'
    <3>1. subject[r] \in Requests \ {r} /\ Inserted(subject[r], Analyse)'
      BY <1>1, <1>2, <2>3 DEF PlanInv, StepInv, AboutOf, Inserted, LocalStep
    <3>2. NewCandidates(subject[r]) \subseteq Candidates(subject[r])
      BY DEF NewCandidates
    <3>3. snapshot'[r] = {} /\ served'[r] = r
      BY <1>1, <1>2 DEF PlanInv, StepInv, AboutOf, Analyse
    <3> QED
      BY <1>1, <2>1, <2>3, <3>1, <3>2, <3>3 DEF AboutOf, Analyse
  <2>7. PlanOf(r)'
    <3>1. outcome'[r] = "none"
      BY <1>1, <1>2 DEF PlanInv, StepInv, StepOf
    <3>2. \A q \in Candidates(subject[r]) : q \in NewCandidates(subject[r])
              \/ \E x \in ActionsOf(subject[r]) : x[2] = q
      BY DEF NewCandidates
    <3>3. \A x \in ActionsOf(subject[r]) \cap linked : x[2] \notin NewCandidates(subject[r])
      BY DEF NewCandidates
    <3> QED
      BY <1>2, <2>1, <2>3, <3>1, <3>2, <3>3 DEF PlanOf, Covered
  <2>9. NoneTook(r)' /\ TookOf(r)' /\ TookAllOf(r)'
    BY <1>1, <1>2, <2>3, NoneTookKept DEF ParentDeletions
  <2>8. \A q \in Requests \ {r} : Apart(r, q)' /\ Apart(q, r)'
    <3>1. \A q \in Requests \ {r} : ~HoldsAnalysis(q, subject[r])
      BY <1>1 DEF Granted, Blocks
    <3>2. LocksGranted(r)
      BY <1>1, <2>3, <2>9, <3>1 DEF LocksGranted, HoldsTarget, SharesTarget, HoldsVersion,
         HoldsDocument, HoldsRequirement, HoldsOwnRequirement, SharesRequirement, HoldsAnalysis,
         HoldsAction, Analyse, ParentDeletions, Cascade, NoneTook
    <3> QED
      BY <1>2, <2>3, <3>2, GrantedApart DEF LocalStep
  <2> QED
    BY <1>1, <2>3, <2>4, <2>5, <2>6, <2>7, <2>8, <2>9, LocalKeeps
<1>3. CASE Finish(r, "notFound", "none")
  BY <1>1, <1>3, FinishStep
<1> QED
  BY <1>2, <1>3 DEF LockAnalysis

\* The key share locks of the requirements keep them until COMMIT.
LEMMA InsertActionsKeeps ==
    ASSUME PlanInv, NEW r \in Requests, InsertActions(r)
    PROVE  PlanInv'
<1>1. pc[r] = "Inserting" /\ op[r] = "generate"
  BY DEF InsertActions
<1>2. CASE /\ fresh[r] \subseteq requirements
           /\ TookRows(r, "Inserting", {"generate"})
           /\ Proceed(r, "Committing")
  BY <1>1, <1>2, TookRowsKeeps DEF Steps, Cascade
<1>3. CASE ~(fresh[r] \subseteq requirements) /\ Finish(r, "failed", "foreignKey")
  <2>1. ~(Candidates(subject[r]) \subseteq requirements)
    BY <1>3 DEF PlanInv, StepInv, AboutOf
  <2> QED
    BY <1>1, <1>3, <2>1, FinishStep
<1> QED
  BY <1>2, <1>3 DEF InsertActions

\* An analysis is read or made under the locks of its version and role.
LEMMA ReadRequirementsKeeps ==
    ASSUME PlanInv, NEW r \in Requests, ReadRequirements(r)
    PROVE  PlanInv'
<1> USE DEF rows, ask, answer
<1>1. pc[r] = "Reading" /\ op[r] \in Analyse
  BY DEF ReadRequirements, Statement
<1>2. cv[r] \in versions /\ subject[r] \in targets /\ served[r] = r
  BY <1>1 DEF PlanInv, HeldInv, HeldOf, StepInv, AboutOf
<1>3. \A a \in analyses : a # r /\ a \in Requests
  BY <1>1 DEF PlanInv, RowInv, Inserted
<1>4. ASSUME pc'[r] = "Committing", LocalStep(r), op'[r] = op[r], subject'[r] = subject[r],
             cv'[r] = cv[r], UNCHANGED <<rows, ask, answer, fresh, taken>>
      PROVE  /\ StepOf(r)' /\ HeldOf(r)' /\ TookOf(r)' /\ TookAllOf(r)' /\ PlanOf(r)'
             /\ \A q \in Requests \ {r} : Apart(r, q)' /\ Apart(q, r)'
  <2>1. StepOf(r)' /\ HeldOf(r)' /\ PlanOf(r)'
    BY <1>1, <1>2, <1>4 DEF StepOf, HeldOf, PlanOf, PlanInv, StepInv, Analyse
  <2>3. NoneTook(r)' /\ TookOf(r)' /\ TookAllOf(r)'
    BY <1>1, <1>4, NoneTookKept DEF Analyse, ParentDeletions
  <2>2. LocksGranted(r)
    BY <1>1, <1>4, <2>3 DEF LocksGranted, HoldsTarget, SharesTarget, HoldsVersion,
       HoldsDocument, HoldsRequirement, HoldsOwnRequirement, SharesRequirement, HoldsAnalysis,
       HoldsAction, Analyse, ParentDeletions, Cascade, NoneTook
  <2> QED
    BY <1>4, <2>1, <2>2, <2>3, GrantedApart DEF LocalStep
<1>5. ASSUME NEW a \in Existing(r), served' = [served EXCEPT ![r] = a],
             Goto(r, "Committing"), UNCHANGED <<rows, ask, snapshot, fresh, taken, answer>>
      PROVE  PlanInv'
  <2>1. a \in analyses /\ cv[a] = cv[r] /\ subject[a] = subject[r]
    BY DEF Existing, Key
  <2>2. TypeOK'
    BY <1>3, <1>5, <2>1 DEF Goto, PlanInv, TypeOK, Steps, Cascade
  <2>3. /\ pc'[r] = "Committing" /\ LocalStep(r) /\ served'[r] = a
    BY <1>1, <1>5 DEF Goto, LocalStep, PlanInv, TypeOK
  <2>4. AboutOf(r)'
    <3>1. \A i \in Requests \ {r} : \A kinds : Inserted(i, kinds) => Inserted(i, kinds)'
      BY <1>5, <2>3 DEF Inserted, LocalStep
    <3>2. \A i \in Requests : \A kinds : Inserted(i, kinds) => i # r
      BY <1>1 DEF Inserted
    <3>3. Inserted(subject[r], {"createTarget"})'
      BY <1>1, <1>5, <3>1, <3>2 DEF PlanInv, StepInv, AboutOf, Inserted
    <3>4. \A i \in snapshot[r] : Inserted(i[1], {"createRequirement"})'
      <4>1. \A i \in snapshot[r] : i[1] \in Requests /\ Inserted(i[1], {"createRequirement"})
        BY DEF PlanInv, StepInv, AboutOf, Inserted
      <4> QED
        BY <3>1, <3>2, <4>1
    <3> QED
      BY <1>1, <1>5, <2>3, <3>3, <3>4 DEF AboutOf, PlanInv, StepInv, Candidates, Analyse
  <2>5. ReportOf(r)'
    BY <1>3, <1>5, <2>1, <2>3 DEF ReportOf
  <2> QED
    BY <1>1, <1>4, <1>5, <2>2, <2>3, <2>4, <2>5, LocalKeeps
<1>6. ASSUME Existing(r) = {}, snapshot' = [snapshot EXCEPT ![r] = Inputs(r)],
             Goto(r, "Committing"), UNCHANGED <<rows, ask, fresh, served, taken, answer>>
      PROVE  PlanInv'
  <2>1. \A i \in Inputs(r) : /\ i \in Requests \X Contents
                             /\ i[1] \in requirements /\ subject[i[1]] = subject[r]
    BY DEF Inputs, RequirementsOf, PlanInv, TypeOK
  <2>2. TypeOK'
    BY <1>6, <2>1 DEF Goto, PlanInv, TypeOK, Steps, Cascade
  <2>3. pc'[r] = "Committing" /\ LocalStep(r) /\ snapshot'[r] = Inputs(r)
    BY <1>1, <1>6 DEF Goto, LocalStep, PlanInv, TypeOK
  <2>4. AboutOf(r)'
    <3>1. \A i \in Requests : \A kinds : Inserted(i, kinds) => Inserted(i, kinds)' /\ i # r
      BY <1>1, <1>6, <2>3 DEF Inserted, LocalStep
    <3>2. Inserted(subject[r], {"createTarget"})'
      BY <1>1, <1>6, <3>1 DEF PlanInv, StepInv, AboutOf, Inserted
    <3>3. \A i \in Inputs(r) : Inserted(i[1], {"createRequirement"})'
      BY <2>1, <3>1 DEF PlanInv, RowInv, Inserted
    <3>4. fresh[r] = {}
      BY <1>1 DEF PlanInv, StepInv, AboutOf, Analyse
    <3> QED
      BY <1>1, <1>6, <2>1, <2>3, <3>2, <3>3, <3>4 DEF AboutOf, Analyse
  <2>5. ReportOf(r)'
    <3>1. Key(r)' = <<cv[r], subject[r], op[r], Inputs(r)>>
      BY <1>6, <2>3 DEF Key
    <3>2. \A a \in analyses : Key(a)' = Key(a) /\ Key(a) # <<cv[r], subject[r], op[r], Inputs(r)>>
      BY <1>3, <1>6, <2>3 DEF Key, Existing, LocalStep
    <3> QED
      BY <1>2, <1>6, <3>1, <3>2 DEF ReportOf
  <2> QED
    BY <1>1, <1>4, <1>6, <2>2, <2>3, <2>4, <2>5, LocalKeeps
<1>7. CASE Finish(r, "refused", "none")
  BY <1>1, <1>7, FinishStep
<1> QED
  BY <1>5, <1>6, <1>7 DEF ReadRequirements

\* What a request has read excludes a conflict.
LEMMA NoConflict ==
    ASSUME PlanInv, NEW r \in Requests, pc[r] = "Committing"
    PROVE  ~Conflicts(r)
BY DEF PlanInv, ReadInv, ReportOf, PlanOf, Conflicts

\* The steps that end a request without COMMIT.
LEMMA FailureKeeps ==
    ASSUME PlanInv, NEW r \in Requests,
           TextNotReady(r) \/ CommitFails(r) \/ DeadlockVictim(r) \/ Abort(r)
    PROVE  PlanInv'
<1>1. CASE TextNotReady(r)
  BY <1>1, FinishStep DEF TextNotReady, Statement
<1>2. CASE CommitFails(r)
  BY <1>2, FinishStep, NoConflict DEF CommitFails
<1>3. CASE DeadlockVictim(r)
  <2>1. pc[r] \notin {"Idle", "Done"}
    BY <1>3 DEF DeadlockVictim, Deadlocked, Blocks, RowsToTake
  <2> QED
    BY <1>3, <2>1, FinishStep DEF DeadlockVictim
<1>4. CASE Abort(r)
  BY <1>4, FinishStep DEF Abort
<1> QED
  BY <1>1, <1>2, <1>3, <1>4

-----------------------------------------------------------------------------
(* COMMIT.                                                                  *)

\* What COMMIT leaves alone ...
CommitFrame(r) ==
    /\ UNCHANGED <<ask, local, fault>>
    /\ pc' = [pc EXCEPT ![r] = "Done"] /\ outcome' = [outcome EXCEPT ![r] = "ok"]
    /\ taken' = [taken EXCEPT ![r] = {}]

\* ... the rows it adds ...
RowsAdded(r) ==
    /\ \A t \in targets' \ targets : t = r /\ op[r] = "createTarget"
    /\ versions' \subseteq versions
    /\ \A n \in requirements' \ requirements : n = r /\ op[r] = "createRequirement"
    /\ \A a \in analyses' \ analyses : a = r /\ op[r] \in Analyse
    /\ \A x \in (actions' \ actions) \cup (linked' \ linked) :
           op[r] = "generate" /\ x \in {r} \X fresh[r]
    /\ op[r] = "generate" => {r} \X fresh[r] \subseteq linked' \cap actions'

\* ... and those it removes.
RowsRemoved(r) ==
    /\ \A t \in targets \ targets' :
           /\ op[r] = "deleteTarget" /\ subject[r] = t
           /\ \A n \in requirements' : n \in requirements /\ subject[n] # t
           /\ \A a \in analyses' : a \in analyses /\ subject[a] # t
    /\ \A v \in versions \ versions' :
           /\ op[r] = "deleteDocument" /\ cv[r] = v
           /\ \A a \in analyses' : a \in analyses /\ cv[a] # v
    /\ \A n \in requirements \ requirements' :
           \/ op[r] = "deleteRequirement" /\ n = subject[r] /\ \A x \in linked' : x[2] # n
           \/ /\ op[r] = "deleteTarget" /\ n \in RequirementsOf(subject[r])
              /\ linked' \cap CascadedActions(r) = {}
    /\ \A a \in analyses \ analyses' :
           /\ op[r] \in ParentDeletions /\ a \in CascadedAnalyses(r)
           /\ \A x \in actions' : x \in actions /\ AnalysisOf(x) # a
    /\ \A x \in actions \ actions' : op[r] \in ParentDeletions /\ x \in CascadedActions(r)
    /\ \A x \in actions \ actions' : AnalysisOf(x) \in analyses \ analyses'
    /\ \A x \in (linked \ linked') \cap actions' :
           op[r] = "deleteRequirement" /\ x[2] = subject[r] /\ x[2] \notin requirements'

\* A commit changes the rows as its operation says.
LEMMA CommitRows ==
    ASSUME PlanInv, NEW r \in Requests, Commit(r)
    PROVE  CommitFrame(r) /\ RowsAdded(r) /\ RowsRemoved(r) /\ TypeOK'
<1>1. pc[r] = "Committing" /\ CommitFrame(r)
  BY DEF Commit, CommitFrame, Goto
<1>2. /\ op[r] = "updateStatus" => subject[r] \in actions
      /\ op[r] = "updateRequirement" => subject[r] \in Requests
      /\ op[r] \in {"createRequirement", "updateRequirement"} => wanted[r] \in Contents
      /\ fresh[r] \subseteq Requests
  BY <1>1 DEF PlanInv, TypeOK, HeldInv, HeldOf, StepInv, AboutOf
<1> USE DEF ParentDeletions
<1>3. CASE op[r] \in Inserts /\ ApplyInsert(r)
  <2>1. RowsAdded(r)
    BY <1>3 DEF ApplyInsert, RowsAdded
  <2>2. RowsRemoved(r)
    BY <1>3 DEF ApplyInsert, RowsRemoved
  <2>3. TypeOK'
    BY <1>1, <1>2, <1>3 DEF ApplyInsert, CommitFrame, PlanInv, TypeOK, Steps, ask, local
  <2> QED
    BY <1>1, <2>1, <2>2, <2>3
<1>4. CASE op[r] \in Updates /\ ApplyUpdate(r)
  <2>1. RowsAdded(r)
    BY <1>4 DEF ApplyUpdate, RowsAdded, Updates
  <2>2. RowsRemoved(r)
    BY <1>4 DEF ApplyUpdate, RowsRemoved
  <2>3. completed' \subseteq actions
    <3>1. completed \subseteq actions
      BY DEF PlanInv, TypeOK
    <3>2. CASE op[r] # "updateStatus"
      <4>1. wanted[r] # "completed"
        BY <1>2, <1>4, <3>2 DEF Updates, Contents
      <4> QED
        BY <1>4, <3>1, <3>2, <4>1 DEF ApplyUpdate
    <3>3. CASE op[r] = "updateStatus" /\ wanted[r] = "completed"
      BY <1>2, <1>4, <3>1, <3>3 DEF ApplyUpdate
    <3>4. CASE op[r] = "updateStatus" /\ wanted[r] # "completed"
      BY <1>4, <3>1, <3>4 DEF ApplyUpdate
    <3> QED
      BY <3>2, <3>3, <3>4
  <2>4. content' \in [Requests -> Contents]
    BY <1>2, <1>4 DEF ApplyUpdate, PlanInv, TypeOK
  <2>5. TypeOK'
    BY <1>1, <1>4, <2>3, <2>4 DEF ApplyUpdate, CommitFrame, PlanInv, TypeOK, Steps, ask, local
  <2> QED
    BY <1>1, <2>1, <2>2, <2>5
<1>5. CASE op[r] = "deleteRequirement" /\ ApplyRequirementDeletion(r)
  <2>1. RowsAdded(r)
    BY <1>5 DEF ApplyRequirementDeletion, RowsAdded
  <2>2. RowsRemoved(r)
    BY <1>5 DEF ApplyRequirementDeletion, RowsRemoved, UnlinkedActions
  <2>3. TypeOK'
    BY <1>1, <1>5 DEF ApplyRequirementDeletion, CommitFrame, PlanInv, TypeOK, Steps, ask, local
  <2> QED
    BY <1>1, <2>1, <2>2, <2>3
<1>6. CASE op[r] \in ParentDeletions /\ ApplyParentDeletion(r)
  <2>1. RowsAdded(r)
    BY <1>6 DEF ApplyParentDeletion, RowsAdded
  <2>2. RowsRemoved(r)
    BY <1>6 DEF ApplyParentDeletion, RowsRemoved, RequirementsOf, CascadedAnalyses,
       CascadedActions, PlanInv, TypeOK
  <2>3. TypeOK'
    BY <1>1, <1>6 DEF ApplyParentDeletion, CommitFrame, PlanInv, TypeOK, Steps, ask, local
  <2> QED
    BY <1>1, <2>1, <2>2, <2>3
<1> QED
  BY <1>3, <1>4, <1>5, <1>6 DEF Commit

\* Ids of requests that are done are not the id of a request that is not.
LEMMA OthersInserted ==
    ASSUME PlanInv, NEW r \in Requests, pc[r] # "Done"
    PROVE  /\ \A i \in targets \cup requirements \cup analyses : i \in Requests \ {r}
           /\ \A x \in actions : x[1] \in Requests \ {r} /\ AnalysisOf(x) \in Requests \ {r}
           /\ \A q \in Requests : op[q] \notin {"none", "createTarget", "updateStatus",
                                                "deleteDocument"} => subject[q] \in Requests \ {r}
           /\ \A q \in Requests : op[q] = "updateStatus" => subject[q][1] \in Requests \ {r}
           /\ \A q \in Requests : op[q] = "generate" => r \notin fresh[q]
           /\ \A q \in Requests : op[q] = "generate" => r \notin Candidates(subject[q])
<1>1. \A i \in Requests : \A kinds : Inserted(i, kinds) => i # r
  BY DEF Inserted
<1>2. \A i \in targets \cup requirements \cup analyses : i \in Requests \ {r}
  BY <1>1 DEF PlanInv, RowInv, Inserted
<1>3. \A q \in Requests : op[q] \notin {"none", "createTarget", "updateStatus",
                                      "deleteDocument"} => subject[q] \in Requests \ {r}
  <2> SUFFICES ASSUME NEW q \in Requests,
                      op[q] \notin {"none", "createTarget", "updateStatus", "deleteDocument"}
               PROVE  subject[q] \in Requests \ {r}
    OBVIOUS
  <2>1. op[q] \in AllKinds \cup {"none"} /\ AboutOf(q)
    BY DEF PlanInv, TypeOK, StepInv
  <2> QED
    BY <1>1, <2>1 DEF AllKinds, AboutOf, Inserted, Analyse
<1>4. \A q \in Requests : op[q] = "updateStatus" => subject[q][1] \in Requests \ {r}
  BY <1>1 DEF PlanInv, StepInv, AboutOf, Inserted
<1>5. \A q \in Requests : \A i \in snapshot[q] : i[1] # r
  BY <1>1 DEF PlanInv, StepInv, AboutOf, Inserted
<1>6. \A q \in Requests : op[q] = "generate" => r \notin Candidates(subject[q])
  BY <1>3, <1>5 DEF Candidates
<1>7. \A q \in Requests : op[q] = "generate" => r \notin fresh[q]
  BY <1>6 DEF PlanInv, StepInv, AboutOf
<1>8. \A x \in actions : x[1] \in Requests \ {r} /\ AnalysisOf(x) \in Requests \ {r}
  <2> SUFFICES ASSUME NEW x \in actions
               PROVE  x[1] \in Requests \ {r} /\ AnalysisOf(x) \in Requests \ {r}
    OBVIOUS
  <2>1. Inserted(x[1], {"generate"}) /\ x[1] \in Requests
    BY DEF PlanInv, RowInv, Inserted
  <2>2. AnalysisOf(x) \in Requests \ {r}
    BY <1>3, <2>1 DEF Inserted, AnalysisOf
  <2> QED
    BY <1>1, <2>1, <2>2
<1> QED
  BY <1>2, <1>3, <1>4, <1>6, <1>7, <1>8

\* The rows a commit removes were locked by it.
LEMMA RemovedHeld ==
    ASSUME PlanInv, NEW r \in Requests, pc[r] = "Committing", RowsRemoved(r)
    PROVE  /\ \A t \in targets \ targets' : HoldsTarget(r, t)
           /\ \A v \in versions \ versions' : HoldsVersion(r, v) /\ HoldsDocument(r, v)
           /\ \A n \in requirements \ requirements' : HoldsRequirement(r, n)
           /\ \A a \in analyses \ analyses' : HoldsAnalysis(r, a)
           /\ \A x \in actions \ actions' : HoldsAction(r, x)
<1> USE DEF RowsRemoved
<1>0. TookAllOf(r)
  BY DEF PlanInv, TookInv
<1>1. \A t \in targets \ targets' : HoldsTarget(r, t)
  BY DEF HoldsTarget, Cascade
<1>2. \A v \in versions \ versions' : HoldsVersion(r, v) /\ HoldsDocument(r, v)
  BY DEF HoldsVersion, HoldsDocument, Cascade
<1>3. \A n \in requirements \ requirements' : HoldsRequirement(r, n)
  BY <1>0 DEF HoldsRequirement, HoldsOwnRequirement, TookAllOf
<1>4. \A a \in analyses \ analyses' : HoldsAnalysis(r, a)
  BY <1>0 DEF HoldsAnalysis, TookAllOf
<1>5. \A x \in actions \ actions' : HoldsAction(r, x)
  BY <1>0 DEF HoldsAction, TookAllOf
<1> QED
  BY <1>1, <1>2, <1>3, <1>4, <1>5

\* What is derived from ids and payloads is the same after a commit.
LEMMA CommitDerived ==
    ASSUME PlanInv, NEW r \in Requests, pc[r] = "Committing", CommitFrame(r)
    PROVE  /\ \A i : Candidates(i)' = Candidates(i) /\ AnalysisOf(i)' = AnalysisOf(i)
           /\ \A i : Key(i)' = Key(i)
           /\ \A i \in Requests : \A kinds : Inserted(i, kinds) => Inserted(i, kinds)'
           /\ \A kinds : op[r] \in kinds => Inserted(r, kinds)'
           /\ \A q \in Requests \ {r} : /\ pc'[q] = pc[q] /\ outcome'[q] = outcome[q]
                                       /\ \A table, i : Took(q, table, i)' = Took(q, table, i)
           /\ \A table, i : ~Took(r, table, i)'
           /\ pc'[r] = "Done" /\ outcome'[r] = "ok"
           /\ op' = op /\ subject' = subject /\ cv' = cv /\ wanted' = wanted
           /\ snapshot' = snapshot /\ fresh' = fresh /\ served' = served /\ fault' = fault
<1> USE DEF CommitFrame, ask, local
<1>1. \A i : Candidates(i)' = Candidates(i) /\ AnalysisOf(i)' = AnalysisOf(i) /\ Key(i)' = Key(i)
  BY DEF Candidates, AnalysisOf, Key
<1>2. \A i \in Requests : \A kinds : Inserted(i, kinds) => Inserted(i, kinds)'
  BY DEF Inserted, PlanInv, TypeOK
<1>3. \A kinds : op[r] \in kinds => Inserted(r, kinds)'
  BY DEF Inserted, PlanInv, TypeOK
<1>4. /\ \A q \in Requests \ {r} : \A table, i : Took(q, table, i)' = Took(q, table, i)
      /\ \A table, i : ~Took(r, table, i)'
  BY DEF Took, PlanInv, TypeOK
<1> QED
  BY <1>1, <1>2, <1>3, <1>4 DEF PlanInv, TypeOK

\* The locks of the others exclude those of the request that commits.
LEMMA CommitExcludes ==
    ASSUME PlanInv, NEW r \in Requests, NEW q \in Requests \ {r}
    PROVE  Apart(r, q) /\ Apart(q, r)
BY DEF PlanInv, LockInv

\* What requests are about is not changed by a commit.
LEMMA CommitSteps ==
    ASSUME PlanInv, NEW r \in Requests, Commit(r)
    PROVE  StepInv' /\ RejectedGenerationsExplained'
<1>1. pc[r] = "Committing" /\ CommitFrame(r) /\ RowsAdded(r)
  BY CommitRows DEF Commit
<1>2. op[r] # "none"
  BY <1>1 DEF PlanInv, StepInv, StepOf
<1>3. StepInv'
  <2>1. \A q \in Requests : StepOf(q)'
    BY <1>1, <1>2, CommitDerived DEF PlanInv, StepInv, StepOf
  <2>2. ASSUME NEW q \in Requests PROVE AboutOf(q)'
    <3>1. \A i : Inserted(i, {"createTarget"}) => Inserted(i, {"createTarget"})'
      BY <1>1, CommitDerived DEF Inserted
    <3>2. \A i : Inserted(i, {"createRequirement"}) => Inserted(i, {"createRequirement"})'
      BY <1>1, CommitDerived DEF Inserted
    <3>3. \A i : Inserted(i, {"generate"}) => Inserted(i, {"generate"})'
      BY <1>1, CommitDerived DEF Inserted
    <3>4. \A i : Inserted(i, Analyse) => Inserted(i, Analyse)'
      BY <1>1, CommitDerived DEF Inserted
    <3>5. AboutOf(q)
      BY DEF PlanInv, StepInv
    <3>6. pc'[q] = pc[q] \/ pc'[q] = "Done"
      BY <1>1, CommitDerived
    <3> QED
      BY <1>1, CommitDerived, <3>1, <3>2, <3>3, <3>4, <3>5, <3>6 DEF AboutOf
  <2> QED
    BY <2>1, <2>2 DEF StepInv
<1>4. RejectedGenerationsExplained'
  <2> SUFFICES ASSUME NEW g \in Requests, op[g] = "generate",
                      fault[g] \in {"foreignKey", "unique"}
               PROVE  ~(Candidates(subject[g]) \subseteq requirements')
    BY <1>1, CommitDerived DEF RejectedGenerationsExplained
  <2>1. r \notin Candidates(subject[g])
    BY <1>1, OthersInserted
  <2>2. ~(Candidates(subject[g]) \subseteq requirements)
    BY DEF PlanInv, RejectedGenerationsExplained
  <2> QED
    BY <1>1, <2>1, <2>2 DEF RowsAdded
<1> QED
  BY <1>3, <1>4

\* Rows are inserted by requests that are done, actions once per requirement.
LEMMA CommitRowInv ==
    ASSUME PlanInv, NEW r \in Requests, Commit(r)
    PROVE  RowInv'
<1>1. pc[r] = "Committing" /\ CommitFrame(r) /\ RowsAdded(r) /\ RowsRemoved(r) /\ TypeOK'
  BY CommitRows DEF Commit
<1>2. /\ \A i : Candidates(i)' = Candidates(i) /\ AnalysisOf(i)' = AnalysisOf(i)
      /\ \A i \in Requests : \A kinds : Inserted(i, kinds) => Inserted(i, kinds)'
      /\ \A kinds : op[r] \in kinds => Inserted(r, kinds)'
  BY <1>1, CommitDerived
<1>3. \A t \in targets' : Inserted(t, {"createTarget"})'
  BY <1>1, <1>2 DEF RowsAdded, PlanInv, TypeOK, RowInv
<1>4. \A n \in requirements' : Inserted(n, {"createRequirement"})'
  BY <1>1, <1>2 DEF RowsAdded, PlanInv, TypeOK, RowInv
<1>5. \A a \in analyses' : Inserted(a, Analyse)'
  BY <1>1, <1>2 DEF RowsAdded, PlanInv, TypeOK, RowInv
<1>6. ASSUME NEW x \in actions' \ actions
      PROVE  /\ op[r] = "generate" /\ x \in linked'
             /\ x[1] = r /\ AnalysisOf(x) = subject[r] /\ x[2] \in fresh[r]
             /\ fresh[r] \subseteq requirements /\ fresh[r] \subseteq Candidates(subject[r])
             /\ x = <<r, x[2]>>
  <2>1. op[r] = "generate" /\ x \in {r} \X fresh[r] /\ x \in linked'
    BY <1>1 DEF RowsAdded
  <2> QED
    BY <1>1, <2>1 DEF PlanInv, HeldInv, HeldOf, StepInv, AboutOf, AnalysisOf
<1>7. \A x \in actions' :
        Inserted(x[1], {"generate"})' /\ x[2] \in Candidates(AnalysisOf(x))
  <2>1. \A x \in actions : x[1] \in Requests
    BY DEF PlanInv, TypeOK
  <2> QED
    BY <1>2, <1>6, <2>1 DEF PlanInv, RowInv
<1>8. ASSUME NEW x \in actions' \ linked' PROVE x[2] \notin requirements'
  <2>1. x \in actions
    BY <1>6
  <2>2. CASE x \in linked
    BY <1>1, <2>2 DEF RowsRemoved
  <2>3. CASE x \notin linked
    <3>1. x[2] \notin requirements /\ x[2] \in Candidates(AnalysisOf(x))
      BY <2>1, <2>3 DEF PlanInv, RowInv
    <3>2. x[2] # r
      <4>1. x[1] \in Requests /\ op[x[1]] = "generate" /\ AnalysisOf(x) = subject[x[1]]
        BY <2>1 DEF PlanInv, TypeOK, RowInv, Inserted, AnalysisOf
      <4> QED
        BY <1>1, <3>1, <4>1, OthersInserted
    <3> QED
      BY <1>1, <3>1, <3>2 DEF RowsAdded
  <2> QED
    BY <2>2, <2>3
<1>9. ASSUME NEW x \in actions', NEW y \in actions', AnalysisOf(x) = AnalysisOf(y), x[2] = y[2]
      PROVE  x = y
  <2>1. ASSUME NEW u \in actions' \ actions, NEW w \in actions,
               AnalysisOf(u) = AnalysisOf(w), u[2] = w[2]
        PROVE  FALSE
    <3>1. op[r] = "generate" /\ w \in ActionsOf(subject[r]) /\ w[2] \in fresh[r]
          /\ w[2] \in requirements
      BY <1>6, <2>1 DEF ActionsOf
    <3>2. w \in linked
      BY <3>1 DEF PlanInv, RowInv
    <3> QED
      BY <1>1, <3>1, <3>2 DEF PlanInv, ReadInv, PlanOf
  <2>2. CASE x \in actions /\ y \in actions
    BY <1>9, <2>2 DEF PlanInv, RowInv
  <2>3. CASE x \notin actions /\ y \notin actions
    BY <1>6, <1>9, <2>3
  <2> QED
    BY <1>9, <2>1, <2>2, <2>3
<1> QED
  BY <1>2, <1>3, <1>4, <1>5, <1>7, <1>8, <1>9 DEF RowInv

\* A commit inserts under parents it has locked, and removes children first.
LEMMA CommitWired ==
    ASSUME PlanInv, NEW r \in Requests, Commit(r)
    PROVE  RowsWired'
<1>1. pc[r] = "Committing" /\ CommitFrame(r) /\ RowsAdded(r) /\ RowsRemoved(r)
  BY CommitRows DEF Commit
<1>2. subject' = subject /\ cv' = cv /\ \A i : AnalysisOf(i)' = AnalysisOf(i)
  BY <1>1, CommitDerived
<1>3. HeldOf(r)
  BY DEF PlanInv, HeldInv
<1>4. \A n \in requirements' : subject[n] \in targets'
  <2>1. \A n \in requirements' : subject[n] \in targets
    BY <1>1, <1>3 DEF RowsAdded, HeldOf, PlanInv, RowsWired
  <2> QED
    BY <1>1, <2>1 DEF RowsRemoved
<1>5. \A a \in analyses' : subject[a] \in targets' /\ cv[a] \in versions'
  <2>1. \A a \in analyses' : subject[a] \in targets /\ cv[a] \in versions
    BY <1>1, <1>3 DEF RowsAdded, HeldOf, PlanInv, RowsWired
  <2> QED
    BY <1>1, <2>1 DEF RowsRemoved
<1>6. \A x \in actions' : AnalysisOf(x) \in analyses'
  <2>1. ASSUME NEW x \in actions' \ actions PROVE AnalysisOf(x) \in analyses
    <3>1. op[r] = "generate" /\ x[1] = r
      BY <1>1 DEF RowsAdded
    <3> QED
      BY <1>1, <1>3, <3>1 DEF HeldOf, AnalysisOf
  <2>2. \A x \in actions' : AnalysisOf(x) \in analyses
    BY <2>1 DEF PlanInv, RowsWired
  <2> QED
    BY <1>1, <2>2 DEF RowsRemoved
<1>7. ASSUME NEW x \in linked' PROVE x[2] \in requirements'
  <2>1. x[2] \in requirements
    <3>1. CASE x \in linked
      BY <3>1 DEF PlanInv, RowsWired
    <3>2. CASE x \notin linked
      <4>1. op[r] = "generate" /\ x[2] \in fresh[r]
        BY <1>1, <3>2 DEF RowsAdded
      <4> QED
        BY <1>1, <1>3, <4>1 DEF HeldOf
    <3> QED
      BY <3>1, <3>2
  <2>2. ASSUME x[2] \notin requirements', op[r] = "deleteTarget", subject[x[2]] = subject[r],
               linked' \cap CascadedActions(r) = {}
        PROVE  FALSE
    <3>1. x \in linked /\ x \in actions
      BY <1>1, <2>2 DEF RowsAdded, PlanInv, TypeOK
    <3>2. x[2] \in Candidates(AnalysisOf(x)) /\ AnalysisOf(x) \in analyses
          /\ AnalysisOf(x) \in Requests
      BY <3>1 DEF PlanInv, RowInv, RowsWired, TypeOK
    <3>3. subject[x[2]] = subject[AnalysisOf(x)]
      <4>1. AboutOf(AnalysisOf(x))
        BY <3>2 DEF PlanInv, StepInv
      <4>2. PICK i \in snapshot[AnalysisOf(x)] : i[1] = x[2]
        BY <3>2 DEF Candidates
      <4> QED
        BY <4>1, <4>2 DEF AboutOf
    <3>4. x \in CascadedActions(r)
      BY <2>2, <3>1, <3>2, <3>3 DEF CascadedActions, CascadedAnalyses
    <3> QED
      BY <2>2, <3>4
  <2> QED
    BY <1>1, <2>1, <2>2 DEF RequirementsOf, RowsRemoved
<1> QED
  BY <1>2, <1>4, <1>5, <1>6, <1>7 DEF RowsWired

\* A commit removes nothing that another request has locked.
LEMMA CommitHeld ==
    ASSUME PlanInv, NEW r \in Requests, Commit(r)
    PROVE  HeldInv'
<1>1. pc[r] = "Committing" /\ CommitFrame(r) /\ RowsRemoved(r)
  BY CommitRows DEF Commit
<1> SUFFICES ASSUME NEW q \in Requests PROVE HeldOf(q)'
  BY DEF HeldInv
<1>2. CASE q = r
  BY <1>1, <1>2, CommitDerived DEF Cascade, HeldOf
<1>3. CASE q # r
  <2>1. Apart(r, q) /\ HeldOf(q)
    BY <1>3, CommitExcludes DEF PlanInv, HeldInv
  <2>2. /\ \A t \in targets : HoldsTarget(q, t) \/ SharesTarget(q, t) => t \in targets'
        /\ \A v \in versions : HoldsVersion(q, v) \/ HoldsDocument(q, v) => v \in versions'
        /\ \A n \in requirements : HoldsRequirement(q, n) \/ SharesRequirement(q, n)
               => n \in requirements'
        /\ \A a \in analyses : HoldsAnalysis(q, a) => a \in analyses'
        /\ \A x \in actions : HoldsAction(q, x) => x \in actions'
    BY <1>1, <2>1, RemovedHeld DEF Apart
  <2>3. /\ op'[q] = op[q] /\ pc'[q] = pc[q] /\ subject'[q] = subject[q] /\ cv'[q] = cv[q]
        /\ fresh'[q] = fresh[q]
    BY <1>1, <1>3, CommitDerived
  <2>4. (\/ op[q] \in Analyse /\ pc[q] \in {"Reading", "Committing"}
         \/ op[q] = "createRequirement" /\ pc[q] = "Committing"
         \/ op[q] = "deleteTarget" /\ pc[q] \in Cascade)
            => subject[q] \in targets'
    BY <2>1, <2>2 DEF HeldOf, HoldsTarget, SharesTarget
  <2>5. (\/ /\ op[q] \in Analyse
            /\ pc[q] \in {"LockingDocument", "LockingTarget", "Reading", "Committing"}
         \/ op[q] = "deleteDocument" /\ pc[q] \in Cascade)
            => cv[q] \in versions'
    BY <2>1, <2>2 DEF HeldOf, HoldsVersion, HoldsDocument
  <2>6. (\/ op[q] = "updateRequirement" /\ pc[q] = "Committing"
         \/ op[q] = "deleteRequirement" /\ pc[q] \in {"Unlinking", "Committing"})
            => subject[q] \in requirements'
    BY <2>1, <2>2 DEF HeldOf, HoldsRequirement, HoldsOwnRequirement
  <2>7. op[q] = "generate" /\ pc[q] \in {"Inserting", "Committing"} => subject[q] \in analyses'
    BY <2>1, <2>2 DEF HeldOf, HoldsAnalysis
  <2>8. op[q] = "generate" /\ pc[q] = "Committing" => fresh[q] \subseteq requirements'
    <3>1. TookAllOf(q)
      BY DEF PlanInv, TookInv
    <3> QED
      BY <2>1, <2>2, <3>1 DEF HeldOf, SharesRequirement, TookAllOf
  <2>9. op[q] = "updateStatus" /\ pc[q] = "Committing" => subject[q] \in actions'
    BY <2>1, <2>2 DEF HeldOf, HoldsAction
  <2> QED
    BY <2>3, <2>4, <2>5, <2>6, <2>7, <2>8, <2>9 DEF HeldOf
<1> QED
  BY <1>2, <1>3

\* A commit changes nothing that another request relies on having read.
LEMMA CommitRead ==
    ASSUME PlanInv, NEW r \in Requests, Commit(r)
    PROVE  ReadInv'
<1>1. pc[r] = "Committing" /\ CommitFrame(r) /\ RowsAdded(r) /\ RowsRemoved(r)
  BY CommitRows DEF Commit
<1>2. /\ \A i : Candidates(i)' = Candidates(i) /\ AnalysisOf(i)' = AnalysisOf(i)
      /\ \A i : Key(i)' = Key(i)
  BY <1>1, CommitDerived
<1>3. \A q \in Requests \ {r} :
        /\ op'[q] = op[q] /\ pc'[q] = pc[q] /\ subject'[q] = subject[q] /\ cv'[q] = cv[q]
        /\ fresh'[q] = fresh[q] /\ served'[q] = served[q] /\ outcome'[q] = outcome[q]
  BY <1>1, CommitDerived
<1>4. ASSUME NEW q \in Requests \ {r}, op[q] \in Analyse, pc[q] = "Committing"
      PROVE  ReportOf(q)'
  <2>1. ReportOf(q) /\ HeldOf(q) /\ Apart(r, q) /\ Apart(q, r)
    BY CommitExcludes DEF PlanInv, ReadInv, HeldInv
  <2>2. subject[q] \in targets /\ cv[q] \in versions
    BY <1>4, <2>1 DEF HeldOf
  <2>3. ~HoldsTarget(r, subject[q]) /\ ~HoldsVersion(r, cv[q])
    BY <1>4, <2>1, <2>2 DEF Apart, HoldsTarget, HoldsVersion
  <2>4. served[q] \in analyses' \cup {q}
    <3> SUFFICES ASSUME served[q] \in analyses \ analyses', served[q] # q PROVE FALSE
      BY <1>4, <2>1 DEF ReportOf
    <3>1. op[r] \in ParentDeletions /\ served[q] \in CascadedAnalyses(r)
      BY <1>1 DEF RowsRemoved
    <3>2. cv[served[q]] = cv[q] /\ subject[served[q]] = subject[q]
      BY <1>4, <2>1 DEF ReportOf
    <3> QED
        BY <1>1, <2>3, <3>1, <3>2 DEF ParentDeletions, Cascade, CascadedAnalyses, HoldsTarget,
           HoldsVersion
  <2>5. ASSUME served[q] = q, NEW a \in analyses', Key(a) = Key(q) PROVE FALSE
    <3>1. a = r /\ op[r] \in Analyse
      BY <1>1, <1>4, <2>1, <2>5 DEF RowsAdded, ReportOf
    <3>2. subject[r] = subject[q]
      BY <2>5, <3>1 DEF Key
    <3> QED
      BY <1>1, <2>3, <3>1, <3>2 DEF HoldsTarget
  <2> QED
    BY <1>1, <1>2, <1>3, <1>4, <2>1, <2>4, <2>5, CommitDerived DEF ReportOf
<1>5. \A q \in Requests : ReportOf(q)'
  BY <1>1, <1>3, <1>4, CommitDerived DEF ReportOf
<1>6. \A x \in actions : AnalysisOf(x) \in analyses' => x \in actions'
  BY <1>1 DEF RowsRemoved
<1>7. ASSUME NEW g \in Requests \ {r}, op[g] = "generate", pc[g] \in {"Inserting", "Committing"}
      PROVE  /\ Covered(g)'
             /\ \A x \in ActionsOf(subject[g])' \cap linked' : x[2] \notin fresh[g]
  <2>1. subject[g] \in analyses /\ HoldsAnalysis(g, subject[g]) /\ Apart(r, g) /\ PlanOf(g)
    BY <1>7, CommitExcludes DEF PlanInv, HeldInv, HeldOf, HoldsAnalysis, ReadInv
  <2>2. ~HoldsAnalysis(r, subject[g])
    BY <2>1 DEF Apart
  <2>3. subject[g] \in analyses'
    BY <1>1, <2>1, <2>2, RemovedHeld
  <2>4. ActionsOf(subject[g]) \subseteq ActionsOf(subject[g])'
    BY <1>2, <1>3, <1>6, <2>3 DEF ActionsOf
  <2>5. \A x \in (actions' \ actions) \cup (linked' \ linked) : AnalysisOf(x) # subject[g]
    BY <1>1, <2>2 DEF RowsAdded, AnalysisOf, HoldsAnalysis
  <2>6. \A x \in ActionsOf(subject[g])' \cap linked' : x \in ActionsOf(subject[g]) \cap linked
    BY <1>2, <1>3, <2>5 DEF ActionsOf
  <2>7. Covered(g)'
    BY <1>2, <1>3, <1>7, <2>1, <2>4 DEF PlanOf, Covered
  <2> QED
    BY <1>7, <2>1, <2>6, <2>7 DEF PlanOf
<1>8. ASSUME NEW g \in Requests \ {r}, op[g] = "generate", outcome[g] = "ok",
             subject[g] \in analyses'
      PROVE  \A q \in Candidates(subject[g]) : \E x \in ActionsOf(subject[g])' : x[2] = q
  <2>1. subject[g] # r
    BY <1>1, <1>8, OthersInserted
  <2>2. subject[g] \in analyses
    BY <1>1, <1>8, <2>1 DEF RowsAdded
  <2>3. ActionsOf(subject[g]) \subseteq ActionsOf(subject[g])'
    BY <1>2, <1>3, <1>6, <1>8 DEF ActionsOf
  <2> QED
    BY <1>8, <2>2, <2>3 DEF PlanInv, ReadInv, PlanOf
<1>9. ASSUME op[r] = "generate", subject[r] \in analyses'
      PROVE  \A q \in Candidates(subject[r]) : \E x \in ActionsOf(subject[r])' : x[2] = q
  <2>1. Covered(r)
    BY <1>1, <1>9 DEF PlanInv, ReadInv, PlanOf
  <2>2. ActionsOf(subject[r]) \subseteq ActionsOf(subject[r])'
    BY <1>1, <1>2, <1>6, <1>9, CommitDerived DEF ActionsOf
  <2>3. \A q \in fresh[r] : <<r, q>> \in actions'
    BY <1>1, <1>9 DEF RowsAdded
  <2>4. \A q \in fresh[r] : <<r, q>> \in ActionsOf(subject[r])'
    BY <1>1, <2>3, CommitDerived DEF ActionsOf, AnalysisOf
  <2>5. \A q \in fresh[r] : \E x \in ActionsOf(subject[r])' : x[2] = q
    BY <2>4
  <2> QED
    BY <2>1, <2>2, <2>5 DEF Covered
<1>10. ASSUME NEW g \in Requests PROVE PlanOf(g)'
  <2>1. CASE g # r
    BY <1>2, <1>3, <1>7, <1>8, <2>1 DEF PlanOf
  <2>2. CASE g = r
    BY <1>1, <1>2, <1>9, <2>2, CommitDerived DEF PlanOf
  <2> QED
    BY <2>1, <2>2
<1> QED
  BY <1>5, <1>10 DEF ReadInv

\* A commit adds no row that another request has locked.
LEMMA CommitLocks ==
    ASSUME PlanInv, NEW r \in Requests, Commit(r)
    PROVE  LockInv'
<1>1. pc[r] = "Committing" /\ CommitFrame(r) /\ RowsAdded(r) /\ RowsRemoved(r)
  BY CommitRows DEF Commit
<1>2. /\ op' = op /\ subject' = subject /\ cv' = cv /\ fresh' = fresh
      /\ \A i : AnalysisOf(i)' = AnalysisOf(i)
  BY <1>1, CommitDerived
<1>3. \A i : /\ ~HoldsTarget(r, i)' /\ ~SharesTarget(r, i)' /\ ~HoldsVersion(r, i)'
             /\ ~HoldsDocument(r, i)' /\ ~HoldsRequirement(r, i)' /\ ~SharesRequirement(r, i)'
             /\ ~HoldsAnalysis(r, i)' /\ ~HoldsAction(r, i)'
  BY <1>1, CommitDerived DEF HoldsTarget, SharesTarget, HoldsVersion, HoldsDocument,
     HoldsRequirement, HoldsOwnRequirement, SharesRequirement, HoldsAnalysis, HoldsAction, Cascade
<1>4. ASSUME NEW q \in Requests \ {r}
      PROVE  \A i :
               /\ i \in targets' /\ HoldsTarget(q, i)' => i \in targets /\ HoldsTarget(q, i)
               /\ i \in targets' /\ SharesTarget(q, i)' => i \in targets /\ SharesTarget(q, i)
               /\ i \in versions' /\ HoldsVersion(q, i)' => i \in versions /\ HoldsVersion(q, i)
               /\ i \in versions' /\ HoldsDocument(q, i)' => i \in versions /\ HoldsDocument(q, i)
               /\ i \in requirements' /\ HoldsRequirement(q, i)'
                      => i \in requirements /\ HoldsRequirement(q, i)
               /\ i \in requirements' /\ SharesRequirement(q, i)'
                      => i \in requirements /\ SharesRequirement(q, i)
               /\ i \in analyses' /\ HoldsAnalysis(q, i)' => i \in analyses /\ HoldsAnalysis(q, i)
               /\ i \in actions' /\ HoldsAction(q, i)' => i \in actions /\ HoldsAction(q, i)
  <2>1. pc'[q] = pc[q]
    BY <1>1, CommitDerived
  <2>2. Apart(r, q) /\ Apart(q, r) /\ HeldOf(r) /\ HeldOf(q)
    BY CommitExcludes DEF PlanInv, HeldInv
  <2>3. \A i : /\ HoldsTarget(q, i)' = HoldsTarget(q, i) /\ SharesTarget(q, i)' = SharesTarget(q, i)
               /\ HoldsVersion(q, i)' = HoldsVersion(q, i)
               /\ HoldsDocument(q, i)' = HoldsDocument(q, i)
               /\ HoldsRequirement(q, i)' = HoldsRequirement(q, i)
               /\ SharesRequirement(q, i)' = SharesRequirement(q, i)
               /\ HoldsAnalysis(q, i)' = HoldsAnalysis(q, i)
               /\ HoldsAction(q, i)' = HoldsAction(q, i)
    BY <1>1, <1>2, <2>1, CommitDerived DEF HoldsTarget, SharesTarget, HoldsVersion, HoldsDocument,
       HoldsRequirement, HoldsOwnRequirement, SharesRequirement, HoldsAnalysis, HoldsAction
  <2>9. TookOf(q)
    BY DEF PlanInv, TookInv
  <2>10. /\ \A n : Took(q, "requirements", n) => n \in requirements
         /\ \A a : Took(q, "analyses", a) => a \in analyses
         /\ \A x : Took(q, "actions", x) => x \in actions
    BY <2>9 DEF TookOf, CascadedAnalyses, CascadedActions, RequirementsOf
  <2>4. ASSUME NEW i \in targets' \ targets PROVE ~HoldsTarget(q, i) /\ ~SharesTarget(q, i)
    <3>1. i = r
      BY <1>1 DEF RowsAdded
    <3> QED
      BY <1>1, <3>1, OthersInserted DEF HoldsTarget, SharesTarget, Analyse
  <2>5. ASSUME NEW i \in requirements' \ requirements
        PROVE  ~HoldsRequirement(q, i) /\ ~SharesRequirement(q, i)
    <3>1. i = r
      BY <1>1 DEF RowsAdded
    <3> QED
      BY <1>1, <2>10, <3>1, OthersInserted DEF HoldsRequirement, HoldsOwnRequirement,
         SharesRequirement
  <2>6. ASSUME NEW i \in analyses' \ analyses PROVE ~HoldsAnalysis(q, i)
    <3>1. i = r
      BY <1>1 DEF RowsAdded
    <3> QED
      BY <1>1, <2>10, <3>1, OthersInserted DEF HoldsAnalysis
  <2>7. ASSUME NEW x \in actions' \ actions PROVE ~HoldsAction(q, x)
    <3>1. op[r] = "generate" /\ x[1] = r
      BY <1>1 DEF RowsAdded
    <3>2. ~(op[q] = "updateStatus" /\ subject[q] = x)
      BY <1>1, <3>1, OthersInserted
    <3> QED
      BY <2>10, <3>2 DEF HoldsAction
  <2> QED
    BY <1>1, <2>3, <2>4, <2>5, <2>6, <2>7 DEF RowsAdded
<1>5. \A q \in Requests : \A i :
        /\ i \in targets' /\ HoldsTarget(q, i)' => i \in targets /\ HoldsTarget(q, i)
        /\ i \in targets' /\ SharesTarget(q, i)' => i \in targets /\ SharesTarget(q, i)
        /\ i \in versions' /\ HoldsVersion(q, i)' => i \in versions /\ HoldsVersion(q, i)
        /\ i \in versions' /\ HoldsDocument(q, i)' => i \in versions /\ HoldsDocument(q, i)
        /\ i \in requirements' /\ HoldsRequirement(q, i)'
               => i \in requirements /\ HoldsRequirement(q, i)
        /\ i \in requirements' /\ SharesRequirement(q, i)'
               => i \in requirements /\ SharesRequirement(q, i)
        /\ i \in analyses' /\ HoldsAnalysis(q, i)' => i \in analyses /\ HoldsAnalysis(q, i)
        /\ i \in actions' /\ HoldsAction(q, i)' => i \in actions /\ HoldsAction(q, i)
  BY <1>3, <1>4
<1> QED
  BY <1>5, LocksKept DEF PlanInv

\* A commit leaves the rows that others have come to where they are, and adds
\* none to the statements that they are over with: each such row would need a
\* parent that the other request has locked.
LEMMA CommitTook ==
    ASSUME PlanInv, NEW r \in Requests, Commit(r)
    PROVE  TookInv'
<1>1. pc[r] = "Committing" /\ CommitFrame(r) /\ RowsAdded(r) /\ RowsRemoved(r)
  BY CommitRows DEF Commit
<1>2. /\ op' = op /\ subject' = subject /\ cv' = cv /\ fresh' = fresh
      /\ \A i : AnalysisOf(i)' = AnalysisOf(i)
  BY <1>1, CommitDerived
<1>3. TookOf(r)' /\ TookAllOf(r)'
  BY <1>1, CommitDerived DEF TookOf, TookAllOf, Cascade
<1>4. ASSUME NEW q \in Requests \ {r} PROVE TookOf(q)' /\ TookAllOf(q)'
  <2>1. pc'[q] = pc[q] /\ \A table, i : Took(q, table, i)' = Took(q, table, i)
    BY <1>1, CommitDerived
  <2>2. Apart(r, q) /\ Apart(q, r) /\ HeldOf(r) /\ HeldOf(q) /\ TookOf(q) /\ TookAllOf(q)
    BY CommitExcludes DEF PlanInv, HeldInv, TookInv
  <2>3. \A a : Took(q, "analyses", a) => a \in analyses'
    <3> SUFFICES ASSUME NEW a, Took(q, "analyses", a) PROVE a \in analyses'
      OBVIOUS
    <3>1. a \in analyses /\ HoldsAnalysis(q, a)
      BY <2>2 DEF TookOf, CascadedAnalyses, HoldsAnalysis
    <3> QED
      BY <1>1, <2>2, <3>1, RemovedHeld DEF Apart
  <2>4. \A x : Took(q, "actions", x) => x \in actions'
    <3> SUFFICES ASSUME NEW x, Took(q, "actions", x) PROVE x \in actions'
      OBVIOUS
    <3>1. x \in actions /\ HoldsAction(q, x)
      BY <2>2 DEF TookOf, CascadedActions, HoldsAction
    <3> QED
      BY <1>1, <2>2, <3>1, RemovedHeld DEF Apart
  <2>5. \A n : Took(q, "requirements", n) => n \in requirements'
    <3> SUFFICES ASSUME NEW n, Took(q, "requirements", n) PROVE n \in requirements'
      OBVIOUS
    <3>1. n \in requirements /\ (HoldsRequirement(q, n) \/ SharesRequirement(q, n))
      BY <2>2 DEF TookOf, RequirementsOf, HoldsRequirement, SharesRequirement
    <3> QED
      BY <1>1, <2>2, <3>1, RemovedHeld DEF Apart
  <2>6. \A a \in analyses \cap analyses' :
            a \in CascadedAnalyses(q)' <=> a \in CascadedAnalyses(q)
    BY <1>2 DEF CascadedAnalyses
  <2>7. \A x \in actions' : x \in CascadedActions(q) => x \in CascadedActions(q)'
    <3> SUFFICES ASSUME NEW x \in actions', x \in CascadedActions(q)
                 PROVE  x \in CascadedActions(q)'
      OBVIOUS
    <3>1. x \in actions /\ AnalysisOf(x) \in CascadedAnalyses(q) /\ AnalysisOf(x) \in analyses
      BY DEF CascadedActions, CascadedAnalyses
    <3>2. AnalysisOf(x) \in analyses'
      BY <1>1, <3>1 DEF RowsRemoved
    <3> QED
      BY <1>2, <2>6, <3>1, <3>2 DEF CascadedActions
  <2>8. TookOf(q)'
    <3>1. \A a : Took(q, "analyses", a) => a \in CascadedAnalyses(q)'
      BY <2>2, <2>3, <2>6 DEF TookOf, CascadedAnalyses
    <3>2. \A x : Took(q, "actions", x) /\ op[q] \in ParentDeletions => x \in CascadedActions(q)'
      BY <2>2, <2>4, <2>7 DEF TookOf, ParentDeletions
    <3>3. \A n : Took(q, "requirements", n) /\ op[q] = "deleteTarget"
              => n \in RequirementsOf(subject[q])'
      BY <1>2, <2>2, <2>5 DEF TookOf, RequirementsOf
    <3> QED
      BY <1>2, <2>1, <2>2, <2>4, <2>5, <3>1, <3>2, <3>3 DEF TookOf, ParentDeletions
  <2>9. ASSUME op[q] \in ParentDeletions, pc[q] \in Cascade \ {"CascadingVersion"},
               NEW a \in CascadedAnalyses(q)'
        PROVE  a \in CascadedAnalyses(q)
    <3> SUFFICES ASSUME a \notin analyses PROVE FALSE
      BY <2>6 DEF CascadedAnalyses
    <3>1. a = r /\ op[r] \in Analyse
      BY <1>1, <2>9 DEF RowsAdded, CascadedAnalyses
    <3>2. /\ subject[r] \in targets /\ HoldsTarget(r, subject[r])
          /\ cv[r] \in versions /\ HoldsVersion(r, cv[r])
      BY <1>1, <2>2, <3>1 DEF HeldOf, HoldsTarget, HoldsVersion
    <3>3. ~HoldsTarget(q, subject[r]) /\ ~HoldsVersion(q, cv[r])
      BY <2>2, <3>2 DEF Apart
    <3> QED
      BY <1>2, <2>9, <3>1, <3>3 DEF CascadedAnalyses, HoldsTarget, HoldsVersion, ParentDeletions
  <2>10. ASSUME op[q] \in ParentDeletions, pc[q] \in {"CascadingNeeds", "Committing"},
                NEW x \in CascadedActions(q)'
         PROVE  x \in CascadedActions(q)
    <3>1. AnalysisOf(x) \in CascadedAnalyses(q) /\ x \in actions'
      BY <1>2, <2>9, <2>10 DEF CascadedActions, Cascade
    <3> SUFFICES ASSUME x \notin actions PROVE FALSE
      BY <3>1 DEF CascadedActions
    <3>2. op[r] = "generate" /\ AnalysisOf(x) = subject[r]
      BY <1>1, <3>1 DEF RowsAdded, AnalysisOf
    <3>3. subject[r] \in analyses /\ HoldsAnalysis(r, subject[r])
      BY <1>1, <2>2, <3>2 DEF HeldOf, HoldsAnalysis
    <3>4. HoldsAnalysis(q, subject[r])
      BY <2>2, <2>10, <3>1, <3>2 DEF TookAllOf, HoldsAnalysis
    <3> QED
      BY <2>2, <3>3, <3>4 DEF Apart
  <2>11. ASSUME op[q] = "deleteTarget", pc[q] = "Committing", NEW n \in RequirementsOf(subject[q])'
         PROVE  n \in RequirementsOf(subject[q])
    <3>1. n \in requirements' /\ subject[n] = subject[q]
      BY <1>2, <2>11 DEF RequirementsOf
    <3> SUFFICES ASSUME n \notin requirements PROVE FALSE
      BY <3>1 DEF RequirementsOf
    <3>2. n = r /\ op[r] = "createRequirement"
      BY <1>1, <3>1 DEF RowsAdded
    <3>3. subject[r] \in targets /\ SharesTarget(r, subject[r])
      BY <1>1, <2>2, <3>2 DEF HeldOf, SharesTarget
    <3> QED
      BY <2>2, <2>11, <3>1, <3>2, <3>3 DEF Apart, HoldsTarget, Cascade
  <2>12. ASSUME op[q] = "deleteRequirement", pc[q] = "Committing", NEW x \in UnlinkedActions(q)'
         PROVE  x \in UnlinkedActions(q)
    <3>1. x \in linked' /\ x[2] = subject[q]
      BY <1>2, <2>12 DEF UnlinkedActions
    <3> SUFFICES ASSUME x \notin linked PROVE FALSE
      BY <3>1 DEF UnlinkedActions
    <3>2. op[r] = "generate" /\ x[2] \in fresh[r]
      BY <1>1, <3>1 DEF RowsAdded
    <3>3. TookAllOf(r)
      BY DEF PlanInv, TookInv
    <3>4. x[2] \in requirements /\ SharesRequirement(r, x[2])
      BY <1>1, <2>2, <3>2, <3>3 DEF HeldOf, TookAllOf, SharesRequirement
    <3> QED
      BY <2>2, <2>12, <3>1, <3>4 DEF Apart, HoldsRequirement, HoldsOwnRequirement
  <2>13. TookAllOf(q)'
    BY <1>2, <2>1, <2>2, <2>9, <2>10, <2>11, <2>12 DEF TookAllOf, Cascade
  <2> QED
    BY <2>8, <2>13
<1> QED
  BY <1>3, <1>4 DEF TookInv

\* COMMIT keeps the invariant.
LEMMA CommitKeeps ==
    ASSUME PlanInv, NEW r \in Requests, Commit(r)
    PROVE  PlanInv'
BY CommitRows, CommitSteps, CommitRowInv, CommitWired, CommitHeld, CommitTook, CommitRead,
   CommitLocks DEF PlanInv

-----------------------------------------------------------------------------
(* The invariant.                                                           *)

\* The four requests that may have run are different ones.
LEMMA SeedsDistinct ==
    /\ Role # Need /\ Role # Report /\ Role # Plan
    /\ Need # Report /\ Need # Plan /\ Report # Plan
<1>1. ASSUME NEW a, NEW b, NEW c PROVE Cardinality({a, b, c}) # 4
  <2>1. IsFiniteSet({a}) /\ Cardinality({a}) = 1
    BY FS_Singleton
  <2>2. IsFiniteSet({a} \cup {b}) /\ Cardinality({a} \cup {b}) \in {1, 2}
    BY <2>1, FS_AddElement
  <2>3. Cardinality(({a} \cup {b}) \cup {c}) \in {1, 2, 3}
    BY <2>2, FS_AddElement
  <2>4. ({a} \cup {b}) \cup {c} = {a, b, c}
    OBVIOUS
  <2> QED
    BY <2>3, <2>4
<1>2. Cardinality({Role, Need, Report, Plan}) = 4
  BY SeedAssumption
<1>3. Role = Need => {Role, Need, Report, Plan} = {Need, Report, Plan}
  OBVIOUS
<1>4. Role = Report => {Role, Need, Report, Plan} = {Need, Report, Plan}
  OBVIOUS
<1>5. Role = Plan => {Role, Need, Report, Plan} = {Need, Report, Plan}
  OBVIOUS
<1>6. Need = Report => {Role, Need, Report, Plan} = {Role, Report, Plan}
  OBVIOUS
<1>7. Need = Plan => {Role, Need, Report, Plan} = {Role, Report, Plan}
  OBVIOUS
<1>8. Report = Plan => {Role, Need, Report, Plan} = {Role, Need, Plan}
  OBVIOUS
<1> QED
  BY <1>1, <1>2, <1>3, <1>4, <1>5, <1>6, <1>7, <1>8

\* The invariant holds of the seeded rows.
LEMMA InitPlanInv == Init => PlanInv
<1> SUFFICES ASSUME Init PROVE PlanInv
  OBVIOUS
<1>1. /\ {Role, Need, Report, Plan} \subseteq Requests
      /\ Role \in Seeded /\ Need \in Seeded /\ Seeded \subseteq {Role, Need, Report, Plan}
      /\ Plan \in Seeded => Report \in Seeded
  BY SeedAssumption, SeedsDistinct
<1> DEFINE Op(r) ==
             IF r \notin Seeded THEN "none"
             ELSE CASE r = Role -> "createTarget" [] r = Need -> "createRequirement"
                    [] r = Report -> "analyseV3" [] r = Plan -> "generate"
           Subject(r) ==
             IF r \notin Seeded \/ r = Role THEN r
             ELSE CASE r \in {Need, Report} -> Role [] r = Plan -> Report
<1>2. /\ op[Role] = "createTarget" /\ op[Need] = "createRequirement"
      /\ Report \in Seeded => op[Report] = "analyseV3"
      /\ Plan \in Seeded => op[Plan] = "generate"
      /\ \A r \in Requests \ Seeded : op[r] = "none" /\ pc[r] = "Idle"
      /\ \A r \in Seeded : pc[r] = "Done"
      /\ op = [r \in Requests |-> op[r]]
  <2>1. op = [r \in Requests |-> Op(r)]
    BY DEF Init
  <2>2. Op(Role) = "createTarget"
    BY <1>1, SeedsDistinct
  <2>3. Op(Need) = "createRequirement"
    BY <1>1, SeedsDistinct
  <2>4. Report \in Seeded => Op(Report) = "analyseV3"
    BY <1>1, SeedsDistinct
  <2>5. Plan \in Seeded => Op(Plan) = "generate"
    BY <1>1, SeedsDistinct
  <2>6. \A r \in Requests \ Seeded : Op(r) = "none"
    BY <1>1
  <2>7. pc = [r \in Requests |-> IF r \in Seeded THEN "Done" ELSE "Idle"]
    BY DEF Init
  <2> HIDE DEF Op
  <2> QED
    BY <1>1, <2>1, <2>2, <2>3, <2>4, <2>5, <2>6, <2>7
<1>3. /\ subject[Need] = Role /\ subject[Role] = Role
      /\ Report \in Seeded => subject[Report] = Role
      /\ Plan \in Seeded => subject[Plan] = Report
      /\ \A r \in Requests \ Seeded : subject[r] = r
      /\ subject = [r \in Requests |-> subject[r]]
  <2>1. subject = [r \in Requests |-> Subject(r)]
    BY DEF Init
  <2>2. Subject(Need) = Role
    BY <1>1, SeedsDistinct
  <2>3. Subject(Role) = Role
    BY <1>1, SeedsDistinct
  <2>4. Report \in Seeded => Subject(Report) = Role
    BY <1>1, SeedsDistinct
  <2>5. Plan \in Seeded => Subject(Plan) = Report
    BY <1>1, SeedsDistinct
  <2>6. \A r \in Requests \ Seeded : Subject(r) = r
    BY <1>1
  <2> HIDE DEF Subject
  <2> QED
    BY <1>1, <2>1, <2>2, <2>3, <2>4, <2>5, <2>6
<1> HIDE DEF Op, Subject
<1>4. /\ Report \in Seeded => snapshot[Report] = {<<Need, "missing">>}
      /\ \A r \in Requests \ (Seeded \cap {Report}) : snapshot[r] = {}
      /\ Plan \in Seeded => fresh[Plan] = {Need}
      /\ \A r \in Requests \ (Seeded \cap {Plan}) : fresh[r] = {}
  BY <1>1 DEF Init
<1>5. /\ targets = {Role} /\ requirements = {Need} /\ analyses = Seeded \cap {Report}
      /\ actions = (IF Plan \in Seeded THEN {<<Plan, Need>>} ELSE {}) /\ linked = actions
      /\ completed = {} /\ versions = CVs /\ \A r \in Requests : cv[r] \in CVs
  BY DEF Init
<1>6. \A r \in Requests : /\ served[r] = r /\ fault[r] = "none"
                          /\ outcome[r] = (IF r \in Seeded THEN "ok" ELSE "none")
  BY DEF Init
<1>7. TypeOK
  <2>1. /\ op \in [Requests -> AllKinds \cup {"none"}]
        /\ subject \in [Requests -> Requests \cup (Requests \X Requests)]
    <3>1. \A r \in Requests : op[r] \in AllKinds \cup {"none"} /\ subject[r] \in Requests
      BY <1>1, <1>2, <1>3 DEF AllKinds, Analyse
    <3> QED
      BY <1>2, <1>3, <3>1
  <2>2. /\ targets \subseteq Requests /\ requirements \subseteq Requests
        /\ versions \subseteq CVs /\ analyses \subseteq Requests
        /\ actions \subseteq Requests \X Requests
        /\ linked \subseteq actions /\ completed \subseteq actions
    BY <1>1, <1>5
  <2>6. taken \in [Requests -> SUBSET (({"analyses", "requirements"} \X Requests)
                                           \cup ({"actions"} \X (Requests \X Requests)))]
    BY DEF Init
  <2>3. /\ content \in [Requests -> Contents] /\ cv \in [Requests -> CVs]
        /\ wanted \in [Requests -> Contents \cup Statuses \cup {"none"}]
        /\ pc \in [Requests -> Steps] /\ served \in [Requests -> Requests]
    BY DEF Init, Contents, Steps
  <2>4. /\ snapshot \in [Requests -> SUBSET (Requests \X Contents)]
        /\ fresh \in [Requests -> SUBSET Requests]
    BY <1>1 DEF Init, Contents
  <2>5. /\ outcome \in [Requests -> {"none", "ok", "notFound", "refused", "failed"}]
        /\ fault \in [Requests ->
               {"none", "foreignKey", "stale", "unique", "commit", "deadlock", "abort"}]
    BY DEF Init
  <2> QED
    BY <2>1, <2>2, <2>3, <2>4, <2>5, <2>6 DEF TypeOK
<1>8. Report \in Seeded => Candidates(Report) = {Need}
  <2> SUFFICES ASSUME Report \in Seeded PROVE Candidates(Report) = {Need}
    OBVIOUS
  <2>1. Candidates(Report) = {i[1] : i \in {j \in {<<Need, "missing">>} : j[2] = "missing"}}
    BY <1>2, <1>4 DEF Candidates
  <2>2. \A j \in {<<Need, "missing">>} : j[1] = Need /\ j[2] = "missing"
    OBVIOUS
  <2>3. Need \in {i[1] : i \in {j \in {<<Need, "missing">>} : j[2] = "missing"}}
    BY <2>2
  <2>4. \A n \in {i[1] : i \in {j \in {<<Need, "missing">>} : j[2] = "missing"}} : n = Need
    BY <2>2
  <2> QED
    BY <2>1, <2>3, <2>4
<1>9. StepInv
  <2>1. \A r \in Requests : StepOf(r)
    BY <1>1, <1>2, <1>6 DEF StepOf, Analyse, ParentDeletions
  <2>2. ASSUME NEW r \in Requests PROVE AboutOf(r)
    <3>1. CASE r \notin Seeded
      BY <1>2, <1>4, <1>6, <3>1 DEF AboutOf, Analyse
    <3>2. CASE r = Role
      BY <1>1, <1>2, <1>3, <1>4, <1>6, <3>2, SeedsDistinct DEF AboutOf, Analyse
    <3>3. CASE r = Need
      BY <1>1, <1>2, <1>3, <1>4, <1>6, <3>3, SeedsDistinct DEF AboutOf, Analyse, Inserted
    <3>4. CASE r = Report /\ r \in Seeded
      BY <1>1, <1>2, <1>3, <1>4, <1>6, <3>4, SeedsDistinct DEF AboutOf, Analyse, Inserted
    <3>5. CASE r = Plan /\ r \in Seeded
      BY <1>1, <1>2, <1>3, <1>4, <1>6, <1>8, <3>5, SeedsDistinct DEF AboutOf, Analyse, Inserted
    <3> QED
      BY <1>1, <3>1, <3>2, <3>3, <3>4, <3>5
  <2> QED
    BY <2>1, <2>2 DEF StepInv
<1>10. \A x \in actions : /\ Plan \in Seeded /\ x = <<Plan, Need>> /\ AnalysisOf(x) = Report
                          /\ x[1] = Plan /\ x[2] = Need
  BY <1>3, <1>5 DEF AnalysisOf
<1>11. RowInv /\ RowsWired
  BY <1>1, <1>2, <1>3, <1>5, <1>8, <1>10 DEF RowInv, RowsWired, Inserted, Analyse
<1>16. \A r \in Requests : \A table, i : ~Took(r, table, i)
  BY DEF Init, Took
<1>17. \A r \in Requests : pc[r] \in {"Idle", "Done"}
  BY <1>2
<1>12. LockInv
  BY <1>16, <1>17 DEF LockInv, Apart, HoldsTarget, HoldsVersion, HoldsDocument, HoldsRequirement,
     HoldsOwnRequirement, HoldsAnalysis, HoldsAction, Cascade
<1>13. HeldInv /\ TookInv
  BY <1>16, <1>17 DEF HeldInv, HeldOf, TookInv, TookOf, TookAllOf, Cascade
<1>14. ReadInv
  <2>1. \A r \in Requests : ReportOf(r)
    BY <1>2 DEF ReportOf
  <2>2. ASSUME NEW g \in Requests PROVE PlanOf(g)
    <3>1. CASE g = Plan /\ g \in Seeded
      <4>1. <<Plan, Need>> \in ActionsOf(Report)
        BY <1>3, <1>5, <3>1 DEF ActionsOf, AnalysisOf
      <4> QED
        BY <1>1, <1>2, <1>3, <1>8, <3>1, <4>1 DEF PlanOf
    <3>2. CASE ~(g = Plan /\ g \in Seeded)
      BY <1>1, <1>2, <3>2 DEF PlanOf
    <3> QED
      BY <3>1, <3>2
  <2> QED
    BY <2>1, <2>2 DEF ReadInv
<1>15. RejectedGenerationsExplained
  BY <1>6 DEF RejectedGenerationsExplained
<1> QED
  BY <1>7, <1>9, <1>11, <1>12, <1>13, <1>14, <1>15 DEF PlanInv

\* Every step keeps the invariant.
LEMMA NextKeeps == PlanInv /\ [Next]_vars => PlanInv'
<1> SUFFICES ASSUME PlanInv, [Next]_vars PROVE PlanInv'
  OBVIOUS
<1>1. ASSUME NEW r \in Requests, Step(r) PROVE PlanInv'
  BY <1>1, CreateTargetKeeps, CheckTargetKeeps, InsertRequirementKeeps, LockRequirementKeeps,
     LockTargetKeeps, RowStatementsKeep, TakeRowKeeps, CascadeVersionKeeps,
     LockVersionKeeps, LockDocumentKeeps, ReadRequirementsKeeps, LockAnalysisKeeps,
     InsertActionsKeeps, FindActionKeeps, UpdateActionKeeps, CommitKeeps, FailureKeeps DEF Step
<1>2. ASSUME NEW r \in Requests, Environment(r) PROVE PlanInv'
  BY <1>2, ArriveKeeps, FailureKeeps DEF Environment
<1>3. CASE UNCHANGED vars
  <2>1. UNCHANGED <<rows, ask, snapshot>>
    BY <1>3 DEF vars, local
  <2>2. \A i : /\ Candidates(i)' = Candidates(i) /\ ActionsOf(i)' = ActionsOf(i)
               /\ AnalysisOf(i)' = AnalysisOf(i) /\ Key(i)' = Key(i)
               /\ CascadedActions(i)' = CascadedActions(i)
               /\ CascadedAnalyses(i)' = CascadedAnalyses(i)
               /\ UnlinkedActions(i)' = UnlinkedActions(i)
               /\ RequirementsOf(i)' = RequirementsOf(i)
    BY <2>1, Derived
  <2> USE DEF vars, rows, ask, local, answer
  <2>3. TypeOK' /\ RowsWired' /\ RejectedGenerationsExplained'
    BY <1>3, <2>2 DEF PlanInv, TypeOK, RowsWired, RejectedGenerationsExplained
  <2>4. StepInv' /\ RowInv'
    BY <1>3, <2>2 DEF PlanInv, StepInv, StepOf, AboutOf, RowInv, Inserted
  <2>7. \A q, table, i : Took(q, table, i)' = Took(q, table, i)
    BY <1>3 DEF Took
  <2>5. LockInv'
    BY <1>3, <2>7, LocksKept DEF PlanInv, HoldsTarget, SharesTarget, HoldsVersion, HoldsDocument,
       HoldsRequirement, HoldsOwnRequirement, SharesRequirement, HoldsAnalysis, HoldsAction
  <2>8. TookInv'
    BY <1>3, <2>2, <2>7 DEF PlanInv, TookInv, TookOf, TookAllOf
  <2>6. HeldInv' /\ ReadInv'
    BY <1>3, <2>2 DEF PlanInv, HeldInv, HeldOf, ReadInv, ReportOf, PlanOf, Covered
  <2> QED
    BY <2>3, <2>4, <2>5, <2>6, <2>8 DEF PlanInv
<1> QED
  BY <1>1, <1>2, <1>3 DEF Next

\* The invariant holds in every behaviour.
LEMMA SpecPlanInv == Spec => []PlanInv
BY InitPlanInv, NextKeeps, PTL DEF Spec

-----------------------------------------------------------------------------
(* Who waits for whom.                                                      *)

\* The requests that hold a lock while they wait for another.
HoldsAndWaits(r) ==
    \/ op[r] \in Analyse /\ pc[r] \in {"LockingDocument", "LockingTarget"}
    \/ op[r] = "deleteDocument"
           /\ pc[r] \in {"CascadingVersion", "CascadingAnalyses", "CascadingActions"}
    \/ op[r] = "deleteTarget"
           /\ pc[r] \in {"CascadingAnalyses", "CascadingActions", "CascadingNeeds"}
    \/ op[r] = "deleteRequirement" /\ pc[r] = "Unlinking"
    \/ op[r] = "generate" /\ pc[r] = "Inserting"

\* The rows that such a request holds.
LEMMA Holder ==
    ASSUME PlanInv, NEW p \in Requests, HoldsAndWaits(p)
    PROVE  /\ \A t : HoldsTarget(p, t) => op[p] = "deleteTarget" /\ subject[p] = t
           /\ \A t : ~SharesTarget(p, t)
           /\ \A v : HoldsVersion(p, v) =>
                  /\ cv[p] = v
                  /\ \/ op[p] \in Analyse
                     \/ op[p] = "deleteDocument" /\ pc[p] # "CascadingVersion"
           /\ \A v : HoldsDocument(p, v) =>
                  \/ op[p] \in Analyse /\ pc[p] = "LockingTarget"
                  \/ op[p] = "deleteDocument"
           /\ \A n : HoldsRequirement(p, n) =>
                  \/ op[p] = "deleteRequirement"
                  \/ /\ op[p] = "deleteTarget" /\ pc[p] = "CascadingNeeds"
                     /\ subject[n] = subject[p]
           /\ \A n : SharesRequirement(p, n) => op[p] = "generate" /\ n \in fresh[p]
           /\ \A a : HoldsAnalysis(p, a) =>
                  \/ op[p] = "generate"
                  \/ /\ op[p] \in ParentDeletions /\ a \in CascadedAnalyses(p)
                     /\ pc[p] # "CascadingVersion"
           /\ \A x : HoldsAction(p, x) =>
                  \/ op[p] = "deleteRequirement" /\ x[2] = subject[p]
                  \/ /\ op[p] \in ParentDeletions /\ x \in CascadedActions(p)
                     /\ pc[p] # "CascadingVersion"
<1>1. TookOf(p)
  BY DEF PlanInv, TookInv
<1> USE DEF HoldsAndWaits
<1>2. \A t : HoldsTarget(p, t) => op[p] = "deleteTarget" /\ subject[p] = t
  BY DEF HoldsTarget
<1>3. \A t : ~SharesTarget(p, t)
  BY DEF SharesTarget
<1>4. \A v : HoldsVersion(p, v) =>
          /\ cv[p] = v
          /\ \/ op[p] \in Analyse
             \/ op[p] = "deleteDocument" /\ pc[p] # "CascadingVersion"
  BY DEF HoldsVersion
<1>5. \A v : HoldsDocument(p, v) =>
          \/ op[p] \in Analyse /\ pc[p] = "LockingTarget"
          \/ op[p] = "deleteDocument"
  BY DEF HoldsDocument
<1>6. \A n : HoldsRequirement(p, n) =>
          \/ op[p] = "deleteRequirement"
          \/ op[p] = "deleteTarget" /\ pc[p] = "CascadingNeeds" /\ subject[n] = subject[p]
  BY <1>1 DEF HoldsRequirement, HoldsOwnRequirement, TookOf, RequirementsOf
<1>7. \A n : SharesRequirement(p, n) => op[p] = "generate" /\ n \in fresh[p]
  BY <1>1 DEF SharesRequirement, TookOf
<1>8. \A a : HoldsAnalysis(p, a) =>
          \/ op[p] = "generate"
          \/ /\ op[p] \in ParentDeletions /\ a \in CascadedAnalyses(p)
             /\ pc[p] # "CascadingVersion"
  BY <1>1 DEF HoldsAnalysis, TookOf
<1>9. \A x : HoldsAction(p, x) =>
          \/ op[p] = "deleteRequirement" /\ x[2] = subject[p]
          \/ /\ op[p] \in ParentDeletions /\ x \in CascadedActions(p)
             /\ pc[p] # "CascadingVersion"
  BY <1>1 DEF HoldsAction, TookOf
<1> QED
  BY <1>2, <1>3, <1>4, <1>5, <1>6, <1>7, <1>8, <1>9

\* The row such a request waits for.
LEMMA Waiter ==
    ASSUME PlanInv, NEW p \in Requests, NEW w \in Requests \ {p},
           HoldsAndWaits(w), Blocks(p, w)
    PROVE  \/ op[w] \in Analyse /\ pc[w] = "LockingDocument" /\ HoldsDocument(p, cv[w])
           \/ /\ op[w] \in Analyse /\ pc[w] = "LockingTarget"
              /\ HoldsTarget(p, subject[w]) \/ SharesTarget(p, subject[w])
           \/ op[w] = "deleteDocument" /\ pc[w] = "CascadingVersion" /\ HoldsVersion(p, cv[w])
           \/ /\ op[w] \in ParentDeletions /\ pc[w] = "CascadingAnalyses"
              /\ \E a \in CascadedAnalyses(w) : HoldsAnalysis(p, a)
           \/ /\ op[w] \in ParentDeletions /\ pc[w] = "CascadingActions"
              /\ \E x \in CascadedActions(w) : HoldsAction(p, x)
           \/ /\ op[w] = "deleteRequirement"
              /\ \E x \in UnlinkedActions(w) : HoldsAction(p, x)
           \/ /\ op[w] = "deleteTarget" /\ pc[w] = "CascadingNeeds"
              /\ \E n \in RequirementsOf(subject[w]) :
                     HoldsRequirement(p, n) \/ SharesRequirement(p, n)
           \/ op[w] = "generate" /\ \E n \in fresh[w] : HoldsRequirement(p, n)
<1>1. CASE \E row \in RowsToTake(w) \ taken[w] : TakenFrom(p, w, row)
  <2>1. PICK row \in RowsToTake(w) : TakenFrom(p, w, row)
    BY <1>1
  <2>2. CASE pc[w] = "CascadingAnalyses"
    <3>1. PICK a \in CascadedAnalyses(w) : row = <<"analyses", a>>
      BY <2>1, <2>2 DEF RowsToTake
    <3> QED
      BY <2>1, <2>2, <3>1 DEF TakenFrom, HoldsAndWaits, ParentDeletions
  <2>3. CASE pc[w] = "CascadingActions"
    <3>1. PICK x \in CascadedActions(w) : row = <<"actions", x>>
      BY <2>1, <2>3 DEF RowsToTake
    <3> QED
      BY <2>1, <2>3, <3>1 DEF TakenFrom, HoldsAndWaits, ParentDeletions
  <2>4. CASE pc[w] = "CascadingNeeds"
    <3>1. PICK n \in RequirementsOf(subject[w]) : row = <<"requirements", n>>
      BY <2>1, <2>4 DEF RowsToTake
    <3> QED
      BY <2>1, <2>4, <3>1 DEF TakenFrom, HoldsAndWaits
  <2>5. CASE pc[w] = "Unlinking"
    <3>1. PICK x \in UnlinkedActions(w) : row = <<"actions", x>>
      BY <2>1, <2>5 DEF RowsToTake
    <3> QED
      BY <2>1, <2>5, <3>1 DEF TakenFrom, HoldsAndWaits
  <2>6. CASE pc[w] = "Inserting"
    <3>1. PICK n \in fresh[w] : row = <<"requirements", n>>
      BY <2>1, <2>6 DEF RowsToTake
    <3> QED
      BY <2>1, <2>6, <3>1 DEF TakenFrom, HoldsAndWaits, Analyse
  <2> QED
    BY <2>1, <2>2, <2>3, <2>4, <2>5, <2>6 DEF RowsToTake
<1>2. CASE ~\E row \in RowsToTake(w) \ taken[w] : TakenFrom(p, w, row)
  BY <1>2 DEF Blocks, HoldsAndWaits, Analyse
<1> QED
  BY <1>1, <1>2

\* Two deletions of one kind have different rows to lock.
LEMMA SameKind ==
    ASSUME PlanInv, NEW p \in Requests, NEW w \in Requests \ {p},
           HoldsAndWaits(p), HoldsAndWaits(w), op[p] = op[w],
           op[p] \in ParentDeletions \cup {"deleteRequirement"}
    PROVE  /\ op[p] = "deleteDocument" => cv[p] # cv[w] \/ "CascadingVersion" \in {pc[p], pc[w]}
           /\ op[p] # "deleteDocument" => subject[p] # subject[w]
<1>1. Apart(p, w) /\ HeldOf(p)
  BY DEF PlanInv, LockInv, HeldInv
<1> USE DEF HoldsAndWaits
<1>2. CASE op[p] = "deleteDocument"
  BY <1>1, <1>2 DEF Apart, HeldOf, HoldsVersion, Cascade, Analyse
<1>3. CASE op[p] = "deleteTarget"
  BY <1>1, <1>3 DEF Apart, HeldOf, HoldsTarget, Cascade, Analyse
<1>4. CASE op[p] = "deleteRequirement"
  BY <1>1, <1>4 DEF Apart, HeldOf, HoldsRequirement, HoldsOwnRequirement, Analyse
<1> QED
  BY <1>2, <1>3, <1>4 DEF ParentDeletions

\* The deletion of a role that has come to its requirements has all the
\* analyses of the role, so that no plan of one of them holds a requirement.
LEMMA PlanOrRole ==
    ASSUME PlanInv, NEW p \in Requests, NEW w \in Requests \ {p},
           op[p] = "generate", pc[p] = "Inserting", NEW n \in fresh[p],
           op[w] = "deleteTarget", pc[w] = "CascadingNeeds", subject[n] = subject[w]
    PROVE  FALSE
<1>1. subject[p] \in analyses /\ subject[p] \in Requests /\ n \in Candidates(subject[p])
  BY DEF PlanInv, HeldInv, HeldOf, StepInv, AboutOf, TypeOK
<1>2. subject[subject[p]] = subject[w]
  <2>1. AboutOf(subject[p])
    BY <1>1 DEF PlanInv, StepInv
  <2>2. PICK i \in snapshot[subject[p]] : i[1] = n
    BY <1>1 DEF Candidates
  <2> QED
    BY <2>1, <2>2 DEF AboutOf
<1>3. HoldsAnalysis(w, subject[p])
  <2>1. subject[p] \in CascadedAnalyses(w)
    BY <1>1, <1>2 DEF CascadedAnalyses
  <2> QED
    BY <2>1 DEF PlanInv, TookInv, TookAllOf, HoldsAnalysis, ParentDeletions
<1>4. HoldsAnalysis(p, subject[p]) /\ Apart(p, w)
  BY DEF PlanInv, LockInv, HoldsAnalysis
<1> QED
  BY <1>1, <1>3, <1>4 DEF Apart

\* Requests that wait for each other are those of KnownDeadlocks.
LEMMA KnownCycles == PlanInv => KnownDeadlocks
<1> SUFFICES ASSUME PlanInv, NEW q \in Requests, NEW r \in Requests, q # r,
                    Blocks(q, r), Blocks(r, q)
             PROVE  \/ op[q] = "deleteDocument" /\ op[r] \in Analyse /\ cv[q] = cv[r]
                    \/ op[r] = "deleteDocument" /\ op[q] \in Analyse /\ cv[q] = cv[r]
                    \/ /\ {op[q], op[r]} \subseteq ParentDeletions \cup {"deleteRequirement"}
                       /\ op[q] # op[r]
  BY DEF KnownDeadlocks
<1>1. \A p \in {q, r} : HoldsAndWaits(p)
  <2>1. ASSUME NEW p \in Requests, NEW w \in Requests, Blocks(p, w), Blocks(w, p)
        PROVE  HoldsAndWaits(p)
    <3>1. StepOf(p) /\ TookOf(p)
      BY DEF PlanInv, StepInv, TookInv
    <3>2. /\ pc[p] \in {"Start", "Inserting", "Unlinking", "LockingDocument", "LockingTarget",
                         "Updating", "CascadingVersion", "CascadingAnalyses", "CascadingActions",
                         "CascadingNeeds"}
      BY <2>1 DEF Blocks, RowsToTake
    <3>3. CASE pc[p] \in {"Start", "Updating"} \/ (pc[p] = "Inserting" /\ op[p] # "generate")
      <4>1. /\ \A i : /\ ~HoldsTarget(p, i) /\ ~SharesTarget(p, i) /\ ~HoldsVersion(p, i)
                      /\ ~HoldsDocument(p, i) /\ ~HoldsRequirement(p, i)
                      /\ ~SharesRequirement(p, i) /\ ~HoldsAnalysis(p, i) /\ ~HoldsAction(p, i)
        BY <3>1, <3>3 DEF HoldsTarget, SharesTarget, HoldsVersion, HoldsDocument,
           HoldsRequirement, HoldsOwnRequirement, SharesRequirement, HoldsAnalysis, HoldsAction,
           Cascade, TookOf
      <4>2. \A row \in RowsToTake(w) : ~TakenFrom(p, w, row)
        BY <4>1 DEF TakenFrom, RowsToTake
      <4> QED
        BY <2>1, <4>1, <4>2 DEF Blocks
    <3> QED
      BY <3>1, <3>2, <3>3 DEF StepOf, HoldsAndWaits, ParentDeletions, Analyse
  <2> QED
    BY <2>1
<1>2. ASSUME NEW p \in {q, r}, NEW w \in {q, r}, p # w PROVE Blocks(p, w) /\ Blocks(w, p)
  BY <1>2
<1>3. ASSUME NEW p \in {q, r}, NEW w \in {q, r}, p # w, op[w] \in Analyse
      PROVE  op[p] = "deleteDocument" /\ cv[p] = cv[w]
  <2>1. /\ pc[w] = "LockingDocument" /\ HoldsDocument(p, cv[w])
        \/ /\ pc[w] = "LockingTarget" /\ op[p] = "deleteTarget"
    BY <1>1, <1>2, <1>3, Waiter, Holder DEF Analyse, ParentDeletions
  <2>2. \A i : ~HoldsAnalysis(w, i) /\ ~HoldsAction(w, i) /\ ~HoldsRequirement(w, i)
               /\ ~SharesRequirement(w, i) /\ ~HoldsTarget(w, i) /\ ~SharesTarget(w, i)
    BY <1>1, <1>3, Holder DEF Analyse, ParentDeletions
  <2>3. op[p] \in Analyse \cup {"deleteTarget"} => FALSE
    BY <1>1, <1>2, <1>3, <2>1, <2>2, Waiter, Holder DEF Analyse, ParentDeletions
  <2> QED
    BY <1>1, <1>3, <2>1, <2>3, Holder DEF Analyse, HoldsDocument
<1>4. ASSUME NEW p \in {q, r}, NEW w \in {q, r}, p # w, op[w] = "generate"
      PROVE  FALSE
  <2>1. \/ op[p] = "deleteRequirement"
        \/ /\ op[p] = "deleteTarget" /\ pc[p] = "CascadingNeeds"
    BY <1>1, <1>2, <1>4, Waiter, Holder DEF Analyse, ParentDeletions
  <2>2. op[p] # "deleteRequirement"
    BY <1>1, <1>2, <1>4, Waiter, Holder DEF Analyse, ParentDeletions
  <2>3. PICK n \in RequirementsOf(subject[p]) : HoldsRequirement(w, n) \/ SharesRequirement(w, n)
    BY <1>1, <1>2, <1>4, <2>1, <2>2, Waiter DEF Analyse, ParentDeletions
  <2>4. n \in fresh[w] /\ subject[n] = subject[p]
    BY <1>1, <1>4, <2>3, Holder DEF RequirementsOf, HoldsRequirement
  <2> QED
    BY <1>1, <1>4, <2>1, <2>2, <2>4, PlanOrRole DEF HoldsAndWaits, Analyse
<1>5. op[q] # op[r] \/ op[q] \in Analyse \cup {"generate"}
  <2> SUFFICES ASSUME op[q] = op[r], op[q] \in ParentDeletions \cup {"deleteRequirement"}
               PROVE  FALSE
    BY <1>1 DEF HoldsAndWaits, ParentDeletions
  <2>1. CASE op[q] = "deleteRequirement"
    <3>1. PICK x \in UnlinkedActions(r) : HoldsAction(q, x)
      BY <2>1, <1>1, Waiter DEF Analyse, ParentDeletions
    <3>2. x[2] = subject[r] /\ x[2] = subject[q]
      BY <1>1, <2>1, <3>1, Holder DEF UnlinkedActions, ParentDeletions
    <3> QED
      BY <1>1, <2>1, <3>2, SameKind
  <2>2. CASE op[q] = "deleteTarget"
    <3>1. subject[q] = subject[r]
      <4>1. \/ \E a \in CascadedAnalyses(r) : HoldsAnalysis(q, a)
            \/ \E x \in CascadedActions(r) : HoldsAction(q, x)
            \/ \E n \in RequirementsOf(subject[r]) :
                   HoldsRequirement(q, n) \/ SharesRequirement(q, n)
        BY <1>1, <2>2, Waiter DEF Analyse
      <4>2. \A a \in CascadedAnalyses(r) : HoldsAnalysis(q, a) => subject[q] = subject[r]
        BY <1>1, <2>2, Holder DEF CascadedAnalyses
      <4>3. \A x \in CascadedActions(r) : HoldsAction(q, x) => subject[q] = subject[r]
        BY <1>1, <2>2, Holder DEF CascadedAnalyses, CascadedActions
      <4>4. \A n \in RequirementsOf(subject[r]) :
                HoldsRequirement(q, n) \/ SharesRequirement(q, n) => subject[q] = subject[r]
        BY <1>1, <2>2, Holder DEF RequirementsOf
      <4> QED
        BY <4>1, <4>2, <4>3, <4>4
    <3> QED
      BY <1>1, <2>2, <3>1, SameKind DEF ParentDeletions
  <2>3. CASE op[q] = "deleteDocument"
    <3>1. ASSUME NEW p \in {q, r}, NEW w \in {q, r}, p # w
          PROVE  cv[p] = cv[w] /\ pc[p] # "CascadingVersion"
      <4>1. \/ HoldsVersion(p, cv[w])
            \/ \E a \in CascadedAnalyses(w) : HoldsAnalysis(p, a)
            \/ \E x \in CascadedActions(w) : HoldsAction(p, x)
        BY <1>1, <1>2, <2>3, <3>1, Waiter DEF Analyse
      <4>2. HoldsVersion(p, cv[w]) => cv[p] = cv[w] /\ pc[p] # "CascadingVersion"
        BY <1>1, <2>3, <3>1, Holder DEF Analyse
      <4>3. \A a \in CascadedAnalyses(w) : HoldsAnalysis(p, a)
                => cv[p] = cv[w] /\ pc[p] # "CascadingVersion"
        BY <1>1, <2>3, <3>1, Holder DEF CascadedAnalyses
      <4>4. \A x \in CascadedActions(w) : HoldsAction(p, x)
                => cv[p] = cv[w] /\ pc[p] # "CascadingVersion"
        BY <1>1, <2>3, <3>1, Holder, ZenonT(60) DEF CascadedAnalyses, CascadedActions
      <4> QED
        BY <4>1, <4>2, <4>3, <4>4
    <3> QED
      BY <1>1, <2>3, <3>1, SameKind DEF ParentDeletions
  <2> QED
    BY <2>1, <2>2, <2>3 DEF ParentDeletions
<1> QED
  BY <1>1, <1>3, <1>4, <1>5 DEF HoldsAndWaits, ParentDeletions

-----------------------------------------------------------------------------
(* The theorems.                                                            *)

\* Every variable keeps its type, in every behaviour of any number of requests.
THEOREM Typing == Spec => []TypeOK
<1>1. PlanInv => TypeOK
  BY DEF PlanInv
<1> QED
  BY SpecPlanInv, <1>1, PTL

\* Cascades and foreign key checks cover every transaction that was in flight:
\* no deletion leaves a row behind whose parent is gone.
THEOREM Wiring == Spec => []RowsWired
<1>1. PlanInv => RowsWired
  BY DEF PlanInv
<1> QED
  BY SpecPlanInv, <1>1, PTL

\* The row locks alone keep analyses and actions unique: the unique
\* constraints are never reached.
THEOREM LocksSuffice == Spec => []NeverConflicts
<1>1. PlanInv => NeverConflicts
  BY NoConflict DEF NeverConflicts
<1> QED
  BY SpecPlanInv, <1>1, PTL

\* An analysis that is about to be returned is stored, or will be, with the
\* version and the role it refers to.
THEOREM Reports == Spec => []ReportStays
<1>1. PlanInv => ReportStays
  BY DEF PlanInv, HeldInv, HeldOf, ReadInv, ReportOf, ReportStays
<1> QED
  BY SpecPlanInv, <1>1, PTL

\* A generated plan has exactly one action for each gap of its analysis, as
\* long as the analysis exists.
THEOREM Plans == Spec => []PlanComplete
<1>1. ASSUME PlanInv PROVE PlanComplete
  <2> SUFFICES ASSUME NEW g \in Requests, op[g] = "generate", outcome[g] = "ok",
                      subject[g] \in analyses, NEW q \in Candidates(subject[g])
               PROVE  Cardinality({x \in ActionsOf(subject[g]) : x[2] = q}) = 1
    BY DEF PlanComplete
  <2>1. PICK x \in ActionsOf(subject[g]) : x[2] = q
    BY <1>1 DEF PlanInv, ReadInv, PlanOf
  <2>2. \A y \in ActionsOf(subject[g]) : y[2] = q => y = x
    BY <1>1, <2>1 DEF PlanInv, RowInv, ActionsOf
  <2>3. {y \in ActionsOf(subject[g]) : y[2] = q} = {x}
    BY <2>1, <2>2
  <2> QED
    BY <2>3, FS_Singleton
<1> QED
  BY SpecPlanInv, <1>1, PTL

\* A generation is refused by a constraint only after a requirement of the
\* stored payload was deleted.
THEOREM Refusals == Spec => []RejectedGenerationsExplained
<1>1. PlanInv => RejectedGenerationsExplained
  BY DEF PlanInv
<1> QED
  BY SpecPlanInv, <1>1, PTL

\* Two transactions wait for each other only if one deletes a document and the
\* other analyses its version, or they are deletions of two kinds.
THEOREM Deadlocks == Spec => []KnownDeadlocks
<1>1. PlanInv => KnownDeadlocks
  BY KnownCycles
<1> QED
  BY SpecPlanInv, <1>1, PTL

=============================================================================
