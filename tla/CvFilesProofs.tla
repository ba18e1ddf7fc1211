----------------------------- MODULE CvFilesProofs -----------------------------
(***************************************************************************)
(* Proofs about the files behind the rows of CvLifecycle: which objects    *)
(* exist without a version, which versions without an object, and what a   *)
(* deletion leaves.  They rest on the locks and rows of IInv.              *)
(***************************************************************************)
EXTENDS CvLifecycleProofs

Orphaning == {"crash", "chmod", "rollback", "unlink"}

\* What a request has met is final once it is answered.
LifeInv ==
    \A r \in Requests :
        /\ pc[r] = "Idle" => op[r] = "none"
        /\ fault[r] # "none" => pc[r] \in {"Compensating", "Done"}
        /\ fault[r] \in Orphaning => pc[r] = "Done"
        /\ outcome[r] # "none" => pc[r] = "Done"

\* A deletion knows every object of its document, and unlinks no other.
KeysInv ==
    \A r \in Requests : op[r] = "delete" =>
        /\ op[target[r]] = "create" /\ pc[target[r]] \in Stored
        /\ pc[r] = "Deleting" =>
              /\ keys[r] \subseteq VersionsOf(target[r])
              /\ objects \cap VersionsOf(target[r]) \subseteq keys[r]
        /\ pc[r] = "Committing" => objects \cap VersionsOf(target[r]) = {}
        /\ outcome[r] = "ok" => target[r] \notin documents

\* An upload has its object from commit_staged until its row is deleted.
ObjectInv ==
    \A k \in Requests :
        /\ k \in objects => op[k] \in Uploads
        /\ k \in objects \ versions =>
              pc[k] \in {"Committing", "Compensating"} \/ fault[k] \in Orphaning
        /\ op[k] \in Uploads /\ pc[k] = "Committing" => k \in objects
        /\ pc[k] = "Compensating" /\ k \in versions => fault[k] \in {"ack", "refresh"}

\* Only a stored version has an extracted text.
TextInv == \A v \in Requests : extraction[v] # "none" => v \in versions

\* What DeletionErases says of the files.
ObjectsErased ==
    \A r \in Requests : op[r] = "delete" /\ outcome[r] = "ok" =>
        \A k \in objects :
            op[k] \in Uploads /\ target[k] = target[r] =>
                pc[k] = "Compensating" \/ fault[k] \in Orphaning

FilesInv ==
    /\ IInv /\ LifeInv /\ KeysInv /\ ObjectInv
    /\ StagingAccountedFor /\ MissingObjectsExplained /\ TextInv /\ ObjectsErased

\* An extraction that goes on found no succeeded result, and its version row,
\* which it has locked, gets none from others.
ResultInv ==
    \A r \in Requests : op[r] = "extract" =>
        /\ pc[r] \in {"Reading", "Parsing"} => extraction[target[r]] # "succeeded"
        /\ pc[r] = "Committing" =>
              /\ parsed[r] \in {"failed", "succeeded"}
              /\ extraction[target[r]] = "succeeded" => parsed[r] = "succeeded"

\* The row of a session is held by one transaction at a time.
SessionInv ==
    \A p, q \in Requests :
        p # q /\ session[p] = session[q] /\ pc[p] \in InTransaction
            => pc[q] \notin InTransaction

\* A step leaves the committed rows alone, or it is the effect of one COMMIT.
LEMMA CommitsOnly ==
    ASSUME IInv, NEW r \in Requests, Step(r) \/ Environment(r)
    PROVE  /\ \A v \in versions : target'[v] = target[v] /\ number'[v] = number[v]
           /\ \/ UNCHANGED <<documents, versions, extraction>>
              \/ /\ pc[r] = "Committing" /\ ~Conflicts(r) /\ Apply(r)
                 /\ UNCHANGED <<op, target, number>>
<1> USE DEF IInv, TypeOK, RowInv, Stored
<1>1. \A v \in versions : pc[v] \notin {"Idle", "Accepted", "Locking"}
  OBVIOUS
<1>2. ASSUME Step(r)
      PROVE  \A v \in versions : target'[v] = target[v] /\ number'[v] = number[v]
  BY <1>1, <1>2 DEF Step, Begin, LockDocument, ReadDocument, DocumentGone, LockVersion,
     VersionGone, NotFound, LockDocumentOfVersion, UseVersion, ReuseOrProcess,
     DeadlockVictim, CommitStaged, Refresh, RefreshFails, Compensate, UnlinkObject,
     DeleteRows, ReadObject, ObjectMissing, Parse, AnalyseVersion, Commit, CommitFails,
     ask, local
<1>3. ASSUME Environment(r)
      PROVE  \A v \in versions : target'[v] = target[v] /\ number'[v] = number[v]
  BY <1>1, <1>3 DEF Environment, ArriveUpload, ArriveDelete, ArriveReader, Arrive,
     RejectUpload, CommitStagedFails, CompensateFails, UnlinkFails,
     CommitUnacknowledged, Abort, Crash, ask, local
<1>4. CASE Commit(r) \/ CommitUnacknowledged(r)
  BY <1>2, <1>3, <1>4 DEF Step, Environment, Commit, CommitUnacknowledged, ask, local
<1>5. CASE ~Commit(r) /\ ~CommitUnacknowledged(r)
  <2>1. UNCHANGED <<documents, versions, extraction>>
    BY <1>5 DEF Step, Environment, Begin, LockDocument, DocumentGone, LockVersion,
       VersionGone, NotFound, LockDocumentOfVersion, DeadlockVictim, CommitStaged,
       Refresh, RefreshFails, Compensate, UnlinkObject, DeleteRows, ReadObject,
       ObjectMissing, Parse, AnalyseVersion, CommitFails, ArriveUpload, ArriveDelete,
       ArriveReader, Arrive, RejectUpload, CommitStagedFails, CompensateFails,
       UnlinkFails, Abort, Crash, database
  <2> QED
    BY <1>2, <1>3, <2>1
<1> QED
  BY <1>4, <1>5

\* A COMMIT writes the text of a version it has locked, or takes the texts
\* of the versions it deletes.
LEMMA TextStep == IInv /\ TextInv /\ [Next]_vars => TextInv'
<1> SUFFICES ASSUME IInv, TextInv, [Next]_vars PROVE TextInv'
  OBVIOUS
<1>1. CASE UNCHANGED vars
  BY <1>1 DEF vars, database, TextInv
<1>2. ASSUME NEW r \in Requests, Step(r) \/ Environment(r) PROVE TextInv'
  <2>1. CASE UNCHANGED <<documents, versions, extraction>>
    BY <2>1 DEF TextInv
  <2>2. CASE ~Conflicts(r) /\ Apply(r)
    BY <2>2 DEF Apply, Conflicts, Readers, database, VersionsOf, TextInv, IInv, TypeOK
  <2> QED
    BY <1>2, <2>1, <2>2, CommitsOnly
<1> QED
  BY <1>1, <1>2 DEF Next

\* A request is idle until it arrives, and what it met stays as it was answered.
LEMMA LifeStep == FilesInv /\ [Next]_vars => LifeInv'
<1> SUFFICES ASSUME FilesInv, [Next]_vars PROVE LifeInv'
  OBVIOUS
<1> USE DEF FilesInv, LifeInv, Orphaning, IInv, TypeOK, HandlerInv, Uploads, Readers, Steps,
        InTransaction
<1>1. CASE UNCHANGED vars
  BY <1>1 DEF vars, database, files, locks, ask, local, answer
<1>2. ASSUME NEW r \in Requests, Step(r) PROVE LifeInv'
  <2>1. CASE Begin(r)
    BY <2>1 DEF Begin, Goto, database, files, locks, ask, local, answer
  <2>2. CASE LockDocument(r)
    BY <2>2 DEF LockDocument, ReadDocument, ObjectKeysOf, Goto, database, files,
        locks, ask, local, answer
  <2>3. CASE LockVersion(r) \/ LockDocumentOfVersion(r)
    BY <2>3 DEF LockVersion, LockDocumentOfVersion, UseVersion, ReuseOrProcess, Goto,
       database, files, locks, ask, local, answer
  <2>4. CASE DocumentGone(r) \/ VersionGone(r) \/ DeadlockVictim(r)
    BY <2>4 DEF DocumentGone, NotFound, Finish, Release, VersionGone,
        DeadlockVictim, Fail, Deadlocked, WaitsFor, Goto, database, files, locks,
        ask, local, answer
  <2>5. CASE CommitStaged(r)
    BY <2>5 DEF CommitStaged, Goto, database, files, locks, ask, local, answer
  <2>6. CASE Refresh(r)
    BY <2>6 DEF Refresh, Finish, Release, Goto, database, files, locks, ask, local,
        answer
  <2>7. CASE RefreshFails(r)
    BY <2>7 DEF RefreshFails, Goto, database, files, locks, ask, local, answer
  <2>8. CASE Compensate(r)
    BY <2>8 DEF Compensate, Finish, Release, Goto, database, files, locks, ask,
        local, answer
  <2>9. CASE UnlinkObject(r)
    BY <2>9 DEF UnlinkObject, Goto, database, files, locks, ask, local, answer
  <2>10. CASE DeleteRows(r)
    BY <2>10 DEF DeleteRows, Goto, database, files, locks, ask, local, answer
  <2>11. CASE ReadObject(r) \/ ObjectMissing(r) \/ Parse(r) \/ AnalyseVersion(r)
    BY <2>11 DEF ReadObject, ObjectMissing, Parse, AnalyseVersion, Finish, Release, Goto,
       database, files, locks, ask, local, answer
  <2>12. CASE Commit(r)
    BY <2>12 DEF Commit, Apply, Finish, Release, Goto, database, files, locks, ask,
        local, answer
  <2>13. CASE CommitFails(r)
    BY <2>13 DEF CommitFails, CommitRaises, Finish, Release, Goto, database, files,
        locks, ask, local, answer
  <2> QED
    BY <1>2, <2>1, <2>2, <2>3, <2>4, <2>5, <2>6, <2>7, <2>8, <2>9, <2>10, <2>11,
        <2>12, <2>13 DEF Step
<1>3. ASSUME NEW r \in Requests, Environment(r) PROVE LifeInv'
  <2>1. CASE ArriveUpload(r)
    BY <2>1 DEF ArriveUpload, Arrive, Goto, database, files, locks, ask, local,
        answer
  <2>2. CASE ArriveDelete(r) \/ ArriveReader(r)
    BY <2>2 DEF ArriveDelete, Arrive, ArriveReader, Goto, database, files, locks,
        ask, local, answer
  <2>3. CASE RejectUpload(r) \/ CommitStagedFails(r)
    BY <2>3 DEF RejectUpload, Finish, Release, CommitStagedFails, Fail, Goto,
        database, files, locks, ask, local, answer
  <2>4. CASE CompensateFails(r) \/ UnlinkFails(r)
    BY <2>4 DEF CompensateFails, Finish, Release, UnlinkFails, Fail, Goto,
        database, files, locks, ask, local, answer
  <2>5. CASE CommitUnacknowledged(r)
    BY <2>5 DEF CommitUnacknowledged, Apply, CommitRaises, Finish, Release, Goto,
        database, files, locks, ask, local, answer
  <2>6. CASE Abort(r)
    BY <2>6 DEF Abort, Fail, Finish, Release, Goto, database, files, locks, ask,
        local, answer
  <2>7. CASE Crash(r)
    BY <2>7 DEF Crash, Finish, Release, Goto, database, files, locks, ask, local,
        answer
  <2> QED
    BY <1>3, <2>1, <2>2, <2>3, <2>4, <2>5, <2>6, <2>7 DEF Environment
<1> QED
  BY <1>1, <1>2, <1>3 DEF Next

\* A deletion holds its document from the read of the keys to its end: no version
\* is added, and so no object that it would not know of.
LEMMA KeysStep == FilesInv /\ [Next]_vars => KeysInv'
<1> SUFFICES ASSUME FilesInv, [Next]_vars PROVE KeysInv'
  OBVIOUS
<1> USE DEF FilesInv, KeysInv, LifeInv, RowInv, LockInv, HoldsDocument,
        HoldsVersion, VersionsOf, Stored, IInv, TypeOK, HandlerInv, Uploads, Readers, Steps,
        InTransaction
<1>1. CASE UNCHANGED vars
  BY <1>1 DEF vars, database, files, locks, ask, local, answer
<1>2. ASSUME NEW r \in Requests, Step(r) PROVE KeysInv'
  <2>1. CASE Begin(r)
    BY <2>1 DEF Begin, Goto, database, files, locks, ask, local, answer
  <2>2. CASE LockDocument(r)
    BY <2>2 DEF LockDocument, ReadDocument, ObjectKeysOf, Goto, database, files,
        locks, ask, local, answer
  <2>3. CASE LockVersion(r) \/ LockDocumentOfVersion(r)
    BY <2>3, SMTT(60) DEF LockVersion, LockDocumentOfVersion, UseVersion, ReuseOrProcess, Goto,
       database, files, locks, ask, local, answer
  <2>4. CASE DocumentGone(r) \/ VersionGone(r) \/ DeadlockVictim(r)
    BY <2>4 DEF DocumentGone, NotFound, Finish, Release, VersionGone,
        DeadlockVictim, Fail, Deadlocked, WaitsFor, Goto, database, files, locks,
        ask, local, answer
  <2>5. CASE CommitStaged(r)
    BY <2>5 DEF CommitStaged, Goto, database, files, locks, ask, local, answer
  <2>6. CASE Refresh(r)
    BY <2>6 DEF Refresh, Finish, Release, Goto, database, files, locks, ask, local,
        answer
  <2>7. CASE RefreshFails(r)
    BY <2>7 DEF RefreshFails, Goto, database, files, locks, ask, local, answer
  <2>8. CASE Compensate(r)
    BY <2>8 DEF Compensate, Finish, Release, Goto, database, files, locks, ask,
        local, answer
  <2>9. CASE UnlinkObject(r)
    BY <2>9 DEF UnlinkObject, Goto, database, files, locks, ask, local, answer
  <2>10. CASE DeleteRows(r)
    BY <2>10 DEF DeleteRows, Goto, database, files, locks, ask, local, answer
  <2>11. CASE ReadObject(r) \/ ObjectMissing(r) \/ Parse(r) \/ AnalyseVersion(r)
    BY <2>11 DEF ReadObject, ObjectMissing, Parse, AnalyseVersion, Finish, Release, Goto,
       database, files, locks, ask, local, answer
  <2>12. CASE Commit(r)
    BY <2>12 DEF Commit, Apply, Finish, Release, Goto, database, files, locks, ask,
        local, answer
  <2>13. CASE CommitFails(r)
    BY <2>13 DEF CommitFails, CommitRaises, Finish, Release, Goto, database, files,
        locks, ask, local, answer
  <2> QED
    BY <1>2, <2>1, <2>2, <2>3, <2>4, <2>5, <2>6, <2>7, <2>8, <2>9, <2>10, <2>11,
        <2>12, <2>13 DEF Step
<1>3. ASSUME NEW r \in Requests, Environment(r) PROVE KeysInv'
  <2>1. CASE ArriveUpload(r)
    BY <2>1 DEF ArriveUpload, Arrive, Goto, database, files, locks, ask, local,
        answer
  <2>2. CASE ArriveDelete(r) \/ ArriveReader(r)
    BY <2>2 DEF ArriveDelete, Arrive, ArriveReader, Goto, database, files, locks,
        ask, local, answer
  <2>3. CASE RejectUpload(r) \/ CommitStagedFails(r)
    BY <2>3, SMTT(60) DEF RejectUpload, Finish, Release, CommitStagedFails, Fail, Goto,
        database, files, locks, ask, local, answer
  <2>4. CASE CompensateFails(r) \/ UnlinkFails(r)
    BY <2>4 DEF CompensateFails, Finish, Release, UnlinkFails, Fail, Goto,
        database, files, locks, ask, local, answer
  <2>5. CASE CommitUnacknowledged(r)
    BY <2>5 DEF CommitUnacknowledged, Apply, CommitRaises, Finish, Release, Goto,
        database, files, locks, ask, local, answer
  <2>6. CASE Abort(r)
    BY <2>6 DEF Abort, Fail, Finish, Release, Goto, database, files, locks, ask,
        local, answer
  <2>7. CASE Crash(r)
    BY <2>7 DEF Crash, Finish, Release, Goto, database, files, locks, ask, local,
        answer
  <2> QED
    BY <1>3, <2>1, <2>2, <2>3, <2>4, <2>5, <2>6, <2>7 DEF Environment
<1> QED
  BY <1>1, <1>2, <1>3 DEF Next

\* Rows lose their object before they go, and an upload that fails compensates.
LEMMA ObjectStep == FilesInv /\ [Next]_vars => ObjectInv'
<1> SUFFICES ASSUME FilesInv, [Next]_vars PROVE ObjectInv'
  OBVIOUS
<1> USE DEF FilesInv, ObjectInv, KeysInv, LifeInv, RowInv, LockInv, HoldsDocument,
        VersionsOf, Orphaning, Stored, IInv, TypeOK, HandlerInv, Uploads, Readers, Steps,
        InTransaction
<1>1. CASE UNCHANGED vars
  BY <1>1 DEF vars, database, files, locks, ask, local, answer
<1>2. ASSUME NEW r \in Requests, Step(r) PROVE ObjectInv'
  <2>1. CASE Begin(r)
    BY <2>1 DEF Begin, Goto, database, files, locks, ask, local, answer
  <2>2. CASE LockDocument(r)
    BY <2>2 DEF LockDocument, ReadDocument, ObjectKeysOf, Goto, database, files,
        locks, ask, local, answer
  <2>3. CASE LockVersion(r) \/ LockDocumentOfVersion(r)
    BY <2>3 DEF LockVersion, LockDocumentOfVersion, UseVersion, ReuseOrProcess, Goto,
       database, files, locks, ask, local, answer
  <2>4. CASE DocumentGone(r) \/ VersionGone(r) \/ DeadlockVictim(r)
    BY <2>4 DEF DocumentGone, NotFound, Finish, Release, VersionGone,
        DeadlockVictim, Fail, Deadlocked, WaitsFor, Goto, database, files, locks,
        ask, local, answer
  <2>5. CASE CommitStaged(r)
    BY <2>5 DEF CommitStaged, Goto, database, files, locks, ask, local, answer
  <2>6. CASE Refresh(r)
    BY <2>6 DEF Refresh, Finish, Release, Goto, database, files, locks, ask, local,
        answer
  <2>7. CASE RefreshFails(r)
    BY <2>7 DEF RefreshFails, Goto, database, files, locks, ask, local, answer
  <2>8. CASE Compensate(r)
    BY <2>8 DEF Compensate, Finish, Release, Goto, database, files, locks, ask,
        local, answer
  <2>9. CASE UnlinkObject(r)
    BY <2>9 DEF UnlinkObject, Goto, database, files, locks, ask, local, answer
  <2>10. CASE DeleteRows(r)
    BY <2>10 DEF DeleteRows, Goto, database, files, locks, ask, local, answer
  <2>11. CASE ReadObject(r) \/ ObjectMissing(r) \/ Parse(r) \/ AnalyseVersion(r)
    BY <2>11 DEF ReadObject, ObjectMissing, Parse, AnalyseVersion, Finish, Release, Goto,
       database, files, locks, ask, local, answer
  <2>12. CASE Commit(r)
    BY <2>12 DEF Commit, Apply, Finish, Release, Goto, database, files, locks, ask,
        local, answer
  <2>13. CASE CommitFails(r)
    <3>1. UNCHANGED <<versions, objects, op>>
      BY <2>13 DEF CommitFails, database, files, ask
    <3>2. /\ r \notin versions
          /\ pc' = [pc EXCEPT ![r] = pc'[r]]
          /\ op[r] \in Uploads => pc'[r] = "Compensating"
          /\ \A q \in Requests \ {r} : fault'[q] = fault[q]
      BY <2>13 DEF CommitFails, CommitRaises, Finish, Goto
    <3> QED
      BY <3>1, <3>2, <2>13 DEF CommitFails
  <2> QED
    BY <1>2, <2>1, <2>2, <2>3, <2>4, <2>5, <2>6, <2>7, <2>8, <2>9, <2>10, <2>11,
        <2>12, <2>13 DEF Step
<1>3. ASSUME NEW r \in Requests, Environment(r) PROVE ObjectInv'
  <2>1. CASE ArriveUpload(r)
    BY <2>1 DEF ArriveUpload, Arrive, Goto, database, files, locks, ask, local,
        answer
  <2>2. CASE ArriveDelete(r) \/ ArriveReader(r)
    BY <2>2 DEF ArriveDelete, Arrive, ArriveReader, Goto, database, files, locks,
        ask, local, answer
  <2>3. CASE RejectUpload(r) \/ CommitStagedFails(r)
    BY <2>3 DEF RejectUpload, Finish, Release, CommitStagedFails, Fail, Goto,
        database, files, locks, ask, local, answer
  <2>4. CASE CompensateFails(r) \/ UnlinkFails(r)
    BY <2>4 DEF CompensateFails, Finish, Release, UnlinkFails, Fail, Goto,
        database, files, locks, ask, local, answer
  <2>5. CASE CommitUnacknowledged(r)
    BY <2>5 DEF CommitUnacknowledged, Apply, CommitRaises, Finish, Release, Goto,
        database, files, locks, ask, local, answer
  <2>6. CASE Abort(r)
    BY <2>6 DEF Abort, Fail, Finish, Release, Goto, database, files, locks, ask,
        local, answer
  <2>7. CASE Crash(r)
    BY <2>7 DEF Crash, Finish, Release, Goto, database, files, locks, ask, local,
        answer
  <2> QED
    BY <1>3, <2>1, <2>2, <2>3, <2>4, <2>5, <2>6, <2>7 DEF Environment
<1> QED
  BY <1>1, <1>2, <1>3 DEF Next

\* A handler that ends has moved or discarded its staged file, unless it crashed.
LEMMA StagingStep == FilesInv /\ [Next]_vars => StagingAccountedFor'
<1> SUFFICES ASSUME FilesInv, [Next]_vars PROVE StagingAccountedFor'
  OBVIOUS
<1> USE DEF FilesInv, LifeInv, StagingAccountedFor, Orphaning, IInv, TypeOK,
        HandlerInv, Uploads, Readers, Steps, InTransaction
<1>1. CASE UNCHANGED vars
  BY <1>1 DEF vars, database, files, locks, ask, local, answer
<1>2. ASSUME NEW r \in Requests, Step(r) PROVE StagingAccountedFor'
  <2>1. CASE Begin(r)
    BY <2>1 DEF Begin, Goto, database, files, locks, ask, local, answer
  <2>2. CASE LockDocument(r)
    BY <2>2 DEF LockDocument, ReadDocument, ObjectKeysOf, Goto, database, files,
        locks, ask, local, answer
  <2>3. CASE LockVersion(r) \/ LockDocumentOfVersion(r)
    BY <2>3 DEF LockVersion, LockDocumentOfVersion, UseVersion, ReuseOrProcess, Goto,
       database, files, locks, ask, local, answer
  <2>4. CASE DocumentGone(r) \/ VersionGone(r) \/ DeadlockVictim(r)
    BY <2>4 DEF DocumentGone, NotFound, Finish, Release, VersionGone,
        DeadlockVictim, Fail, Deadlocked, WaitsFor, Goto, database, files, locks,
        ask, local, answer
  <2>5. CASE CommitStaged(r)
    BY <2>5 DEF CommitStaged, Goto, database, files, locks, ask, local, answer
  <2>6. CASE Refresh(r)
    BY <2>6 DEF Refresh, Finish, Release, Goto, database, files, locks, ask, local,
        answer
  <2>7. CASE RefreshFails(r)
    BY <2>7 DEF RefreshFails, Goto, database, files, locks, ask, local, answer
  <2>8. CASE Compensate(r)
    BY <2>8 DEF Compensate, Finish, Release, Goto, database, files, locks, ask,
        local, answer
  <2>9. CASE UnlinkObject(r)
    BY <2>9 DEF UnlinkObject, Goto, database, files, locks, ask, local, answer
  <2>10. CASE DeleteRows(r)
    BY <2>10 DEF DeleteRows, Goto, database, files, locks, ask, local, answer
  <2>11. CASE ReadObject(r) \/ ObjectMissing(r) \/ Parse(r) \/ AnalyseVersion(r)
    BY <2>11 DEF ReadObject, ObjectMissing, Parse, AnalyseVersion, Finish, Release, Goto,
       database, files, locks, ask, local, answer
  <2>12. CASE Commit(r)
    BY <2>12 DEF Commit, Apply, Finish, Release, Goto, database, files, locks, ask,
        local, answer
  <2>13. CASE CommitFails(r)
    BY <2>13 DEF CommitFails, CommitRaises, Finish, Release, Goto, database, files,
        locks, ask, local, answer
  <2> QED
    BY <1>2, <2>1, <2>2, <2>3, <2>4, <2>5, <2>6, <2>7, <2>8, <2>9, <2>10, <2>11,
        <2>12, <2>13 DEF Step
<1>3. ASSUME NEW r \in Requests, Environment(r) PROVE StagingAccountedFor'
  <2>1. CASE ArriveUpload(r)
    BY <2>1 DEF ArriveUpload, Arrive, Goto, database, files, locks, ask, local,
        answer
  <2>2. CASE ArriveDelete(r) \/ ArriveReader(r)
    BY <2>2 DEF ArriveDelete, Arrive, ArriveReader, Goto, database, files, locks,
        ask, local, answer
  <2>3. CASE RejectUpload(r) \/ CommitStagedFails(r)
    BY <2>3 DEF RejectUpload, Finish, Release, CommitStagedFails, Fail, Goto,
        database, files, locks, ask, local, answer
  <2>4. CASE CompensateFails(r) \/ UnlinkFails(r)
    BY <2>4 DEF CompensateFails, Finish, Release, UnlinkFails, Fail, Goto,
        database, files, locks, ask, local, answer
  <2>5. CASE CommitUnacknowledged(r)
    BY <2>5 DEF CommitUnacknowledged, Apply, CommitRaises, Finish, Release, Goto,
        database, files, locks, ask, local, answer
  <2>6. CASE Abort(r)
    BY <2>6 DEF Abort, Fail, Finish, Release, Goto, database, files, locks, ask,
        local, answer
  <2>7. CASE Crash(r)
    BY <2>7 DEF Crash, Finish, Release, Goto, database, files, locks, ask, local,
        answer
  <2> QED
    BY <1>3, <2>1, <2>2, <2>3, <2>4, <2>5, <2>6, <2>7 DEF Environment
<1> QED
  BY <1>1, <1>2, <1>3 DEF Next

\* Objects of committed rows are only taken by deletions of their document and by
\* their own upload after an exception that followed the COMMIT.
LEMMA MissingStep == FilesInv /\ [Next]_vars => MissingObjectsExplained'
<1> SUFFICES ASSUME FilesInv, [Next]_vars PROVE MissingObjectsExplained'
  OBVIOUS
<1> USE DEF FilesInv, MissingObjectsExplained, DeletionCutShort, ObjectInv,
        KeysInv, LifeInv, RowInv, Stored, VersionsOf, IInv, TypeOK, HandlerInv,
        Uploads, Readers, Steps, InTransaction
<1>1. CASE UNCHANGED vars
  BY <1>1 DEF vars, database, files, locks, ask, local, answer
<1>2. ASSUME NEW r \in Requests, Step(r) PROVE MissingObjectsExplained'
  <2>1. CASE Begin(r)
    BY <2>1 DEF Begin, Goto, database, files, locks, ask, local, answer
  <2>2. CASE LockDocument(r)
    BY <2>2 DEF LockDocument, ReadDocument, ObjectKeysOf, Goto, database, files,
        locks, ask, local, answer
  <2>3. CASE LockVersion(r) \/ LockDocumentOfVersion(r)
    BY <2>3 DEF LockVersion, LockDocumentOfVersion, UseVersion, ReuseOrProcess, Goto,
       database, files, locks, ask, local, answer
  <2>4. CASE DocumentGone(r) \/ VersionGone(r) \/ DeadlockVictim(r)
    BY <2>4 DEF DocumentGone, NotFound, Finish, Release, VersionGone,
        DeadlockVictim, Fail, Deadlocked, WaitsFor, Goto, database, files, locks,
        ask, local, answer
  <2>5. CASE CommitStaged(r)
    BY <2>5 DEF CommitStaged, Goto, database, files, locks, ask, local, answer
  <2>6. CASE Refresh(r)
    BY <2>6 DEF Refresh, Finish, Release, Goto, database, files, locks, ask, local,
        answer
  <2>7. CASE RefreshFails(r)
    BY <2>7 DEF RefreshFails, Goto, database, files, locks, ask, local, answer
  <2>8. CASE Compensate(r)
    BY <2>8 DEF Compensate, Finish, Release, Goto, database, files, locks, ask,
        local, answer
  <2>9. CASE UnlinkObject(r)
    BY <2>9 DEF UnlinkObject, Goto, database, files, locks, ask, local, answer
  <2>10. CASE DeleteRows(r)
    BY <2>10 DEF DeleteRows, Goto, database, files, locks, ask, local, answer
  <2>11. CASE ReadObject(r) \/ ObjectMissing(r) \/ Parse(r) \/ AnalyseVersion(r)
    BY <2>11 DEF ReadObject, ObjectMissing, Parse, AnalyseVersion, Finish, Release, Goto,
       database, files, locks, ask, local, answer
  <2>12. CASE Commit(r)
    BY <2>12 DEF Commit, Apply, Finish, Release, Goto, database, files, locks, ask,
        local, answer
  <2>13. CASE CommitFails(r)
    BY <2>13 DEF CommitFails, CommitRaises, Finish, Release, Goto, database, files,
        locks, ask, local, answer
  <2> QED
    BY <1>2, <2>1, <2>2, <2>3, <2>4, <2>5, <2>6, <2>7, <2>8, <2>9, <2>10, <2>11,
        <2>12, <2>13 DEF Step
<1>3. ASSUME NEW r \in Requests, Environment(r) PROVE MissingObjectsExplained'
  <2>1. CASE ArriveUpload(r)
    BY <2>1 DEF ArriveUpload, Arrive, Goto, database, files, locks, ask, local,
        answer
  <2>2. CASE ArriveDelete(r) \/ ArriveReader(r)
    BY <2>2, SMTT(60) DEF ArriveDelete, Arrive, ArriveReader, Goto, database, files, locks,
        ask, local, answer
  <2>3. CASE RejectUpload(r) \/ CommitStagedFails(r)
    BY <2>3 DEF RejectUpload, Finish, Release, CommitStagedFails, Fail, Goto,
        database, files, locks, ask, local, answer
  <2>4. CASE CompensateFails(r) \/ UnlinkFails(r)
    BY <2>4 DEF CompensateFails, Finish, Release, UnlinkFails, Fail, Goto,
        database, files, locks, ask, local, answer
  <2>5. CASE CommitUnacknowledged(r)
    BY <2>5 DEF CommitUnacknowledged, Apply, CommitRaises, Finish, Release, Goto,
        database, files, locks, ask, local, answer
  <2>6. CASE Abort(r)
    BY <2>6 DEF Abort, Fail, Finish, Release, Goto, database, files, locks, ask,
        local, answer
  <2>7. CASE Crash(r)
    BY <2>7 DEF Crash, Finish, Release, Goto, database, files, locks, ask, local,
        answer
  <2> QED
    BY <1>3, <2>1, <2>2, <2>3, <2>4, <2>5, <2>6, <2>7 DEF Environment
<1> QED
  BY <1>1, <1>2, <1>3 DEF Next

\* When a deletion commits, no object of its document is left with a row, and an
\* upload that is not past its own COMMIT would hold the document.
LEMMA ErasureStep == FilesInv /\ [Next]_vars => ObjectsErased'
<1> SUFFICES ASSUME FilesInv, [Next]_vars PROVE ObjectsErased'
  OBVIOUS
<1> USE DEF FilesInv, ObjectsErased, ObjectInv, KeysInv, LifeInv, RowInv, LockInv,
        HoldsDocument, Stored, VersionsOf, Orphaning, IInv, TypeOK, HandlerInv,
        Uploads, Readers, Steps, InTransaction
<1>1. CASE UNCHANGED vars
  BY <1>1 DEF vars, database, files, locks, ask, local, answer
<1>2. ASSUME NEW r \in Requests, Step(r) PROVE ObjectsErased'
  <2>1. CASE Begin(r)
    BY <2>1 DEF Begin, Goto, database, files, locks, ask, local, answer
  <2>2. CASE LockDocument(r)
    BY <2>2 DEF LockDocument, ReadDocument, ObjectKeysOf, Goto, database, files,
        locks, ask, local, answer
  <2>3. CASE LockVersion(r) \/ LockDocumentOfVersion(r)
    BY <2>3 DEF LockVersion, LockDocumentOfVersion, UseVersion, ReuseOrProcess, Goto,
       database, files, locks, ask, local, answer
  <2>4. CASE DocumentGone(r) \/ VersionGone(r) \/ DeadlockVictim(r)
    BY <2>4, SMTT(60) DEF DocumentGone, NotFound, Finish, Release, VersionGone,
        DeadlockVictim, Fail, Deadlocked, WaitsFor, Goto, database, files, locks,
        ask, local, answer
  <2>5. CASE CommitStaged(r)
    BY <2>5 DEF CommitStaged, Goto, database, files, locks, ask, local, answer
  <2>6. CASE Refresh(r)
    BY <2>6 DEF Refresh, Finish, Release, Goto, database, files, locks, ask, local,
        answer
  <2>7. CASE RefreshFails(r)
    BY <2>7 DEF RefreshFails, Goto, database, files, locks, ask, local, answer
  <2>8. CASE Compensate(r)
    BY <2>8 DEF Compensate, Finish, Release, Goto, database, files, locks, ask,
        local, answer
  <2>9. CASE UnlinkObject(r)
    BY <2>9 DEF UnlinkObject, Goto, database, files, locks, ask, local, answer
  <2>10. CASE DeleteRows(r)
    BY <2>10 DEF DeleteRows, Goto, database, files, locks, ask, local, answer
  <2>11. CASE ReadObject(r) \/ ObjectMissing(r) \/ Parse(r) \/ AnalyseVersion(r)
    BY <2>11 DEF ReadObject, ObjectMissing, Parse, AnalyseVersion, Finish, Release, Goto,
       database, files, locks, ask, local, answer
  <2>12. CASE Commit(r)
    BY <2>12 DEF Commit, Apply, Finish, Release, Goto, database, files, locks, ask,
        local, answer
  <2>13. CASE CommitFails(r)
    BY <2>13 DEF CommitFails, CommitRaises, Finish, Release, Goto, database, files,
        locks, ask, local, answer
  <2> QED
    BY <1>2, <2>1, <2>2, <2>3, <2>4, <2>5, <2>6, <2>7, <2>8, <2>9, <2>10, <2>11,
        <2>12, <2>13 DEF Step
<1>3. ASSUME NEW r \in Requests, Environment(r) PROVE ObjectsErased'
  <2>1. CASE ArriveUpload(r)
    BY <2>1 DEF ArriveUpload, Arrive, Goto, database, files, locks, ask, local,
        answer
  <2>2. CASE ArriveDelete(r) \/ ArriveReader(r)
    BY <2>2, SMTT(60) DEF ArriveDelete, Arrive, ArriveReader, Goto, database, files, locks,
        ask, local, answer
  <2>3. CASE RejectUpload(r) \/ CommitStagedFails(r)
    BY <2>3 DEF RejectUpload, Finish, Release, CommitStagedFails, Fail, Goto,
        database, files, locks, ask, local, answer
  <2>4. CASE CompensateFails(r) \/ UnlinkFails(r)
    BY <2>4 DEF CompensateFails, Finish, Release, UnlinkFails, Fail, Goto,
        database, files, locks, ask, local, answer
  <2>5. CASE CommitUnacknowledged(r)
    BY <2>5 DEF CommitUnacknowledged, Apply, CommitRaises, Finish, Release, Goto,
        database, files, locks, ask, local, answer
  <2>6. CASE Abort(r)
    BY <2>6 DEF Abort, Fail, Finish, Release, Goto, database, files, locks, ask,
        local, answer
  <2>7. CASE Crash(r)
    BY <2>7 DEF Crash, Finish, Release, Goto, database, files, locks, ask, local,
        answer
  <2> QED
    BY <1>3, <2>1, <2>2, <2>3, <2>4, <2>5, <2>6, <2>7 DEF Environment
<1> QED
  BY <1>1, <1>2, <1>3 DEF Next

\* The version row is locked from the read of its result to the commit.
LEMMA ResultStep == IInv /\ ResultInv /\ [Next]_vars => ResultInv'
<1> SUFFICES ASSUME IInv /\ ResultInv, [Next]_vars PROVE ResultInv'
  OBVIOUS
<1> USE DEF ResultInv, LockInv, HoldsVersion, RowInv, IInv, TypeOK, HandlerInv,
        Uploads, Readers, Steps, InTransaction
<1>1. CASE UNCHANGED vars
  BY <1>1 DEF vars, database, files, locks, ask, local, answer
<1>2. ASSUME NEW r \in Requests, Step(r) PROVE ResultInv'
  <2>1. CASE Begin(r)
    BY <2>1 DEF Begin, Goto, database, files, locks, ask, local, answer
  <2>2. CASE LockDocument(r)
    BY <2>2 DEF LockDocument, ReadDocument, ObjectKeysOf, Goto, database, files,
        locks, ask, local, answer
  <2>3. CASE LockVersion(r) \/ LockDocumentOfVersion(r)
    BY <2>3 DEF LockVersion, LockDocumentOfVersion, UseVersion, ReuseOrProcess, Goto,
       database, files, locks, ask, local, answer
  <2>4. CASE DocumentGone(r) \/ VersionGone(r) \/ DeadlockVictim(r)
    BY <2>4 DEF DocumentGone, NotFound, Finish, Release, VersionGone,
        DeadlockVictim, Fail, Deadlocked, WaitsFor, Goto, database, files, locks,
        ask, local, answer
  <2>5. CASE CommitStaged(r)
    BY <2>5 DEF CommitStaged, Goto, database, files, locks, ask, local, answer
  <2>6. CASE Refresh(r)
    BY <2>6 DEF Refresh, Finish, Release, Goto, database, files, locks, ask, local,
        answer
  <2>7. CASE RefreshFails(r)
    BY <2>7 DEF RefreshFails, Goto, database, files, locks, ask, local, answer
  <2>8. CASE Compensate(r)
    BY <2>8 DEF Compensate, Finish, Release, Goto, database, files, locks, ask,
        local, answer
  <2>9. CASE UnlinkObject(r)
    BY <2>9 DEF UnlinkObject, Goto, database, files, locks, ask, local, answer
  <2>10. CASE DeleteRows(r)
    BY <2>10 DEF DeleteRows, Goto, database, files, locks, ask, local, answer
  <2>11. CASE ReadObject(r) \/ ObjectMissing(r) \/ Parse(r) \/ AnalyseVersion(r)
    BY <2>11 DEF ReadObject, ObjectMissing, Parse, AnalyseVersion, Finish, Release, Goto,
       database, files, locks, ask, local, answer
  <2>12. CASE Commit(r)
    BY <2>12 DEF Commit, Apply, Finish, Release, Goto, database, files, locks, ask,
        local, answer
  <2>13. CASE CommitFails(r)
    BY <2>13 DEF CommitFails, CommitRaises, Finish, Release, Goto, database, files,
        locks, ask, local, answer
  <2> QED
    BY <1>2, <2>1, <2>2, <2>3, <2>4, <2>5, <2>6, <2>7, <2>8, <2>9, <2>10, <2>11,
        <2>12, <2>13 DEF Step
<1>3. ASSUME NEW r \in Requests, Environment(r) PROVE ResultInv'
  <2>1. CASE ArriveUpload(r)
    BY <2>1 DEF ArriveUpload, Arrive, Goto, database, files, locks, ask, local,
        answer
  <2>2. CASE ArriveDelete(r) \/ ArriveReader(r)
    BY <2>2 DEF ArriveDelete, Arrive, ArriveReader, Goto, database, files, locks,
        ask, local, answer
  <2>3. CASE RejectUpload(r) \/ CommitStagedFails(r)
    BY <2>3 DEF RejectUpload, Finish, Release, CommitStagedFails, Fail, Goto,
        database, files, locks, ask, local, answer
  <2>4. CASE CompensateFails(r) \/ UnlinkFails(r)
    BY <2>4 DEF CompensateFails, Finish, Release, UnlinkFails, Fail, Goto,
        database, files, locks, ask, local, answer
  <2>5. CASE CommitUnacknowledged(r)
    BY <2>5 DEF CommitUnacknowledged, Apply, CommitRaises, Finish, Release, Goto,
        database, files, locks, ask, local, answer
  <2>6. CASE Abort(r)
    BY <2>6 DEF Abort, Fail, Finish, Release, Goto, database, files, locks, ask,
        local, answer
  <2>7. CASE Crash(r)
    BY <2>7 DEF Crash, Finish, Release, Goto, database, files, locks, ask, local,
        answer
  <2> QED
    BY <1>3, <2>1, <2>2, <2>3, <2>4, <2>5, <2>6, <2>7 DEF Environment
<1> QED
  BY <1>1, <1>2, <1>3 DEF Next

\* Only Begin enters a transaction, and it waits for the row of the session.
LEMMA SessionStep == IInv /\ SessionInv /\ [Next]_vars => SessionInv'
<1> SUFFICES ASSUME IInv /\ SessionInv, [Next]_vars PROVE SessionInv'
  OBVIOUS
<1> USE DEF SessionInv, SessionFree, IInv, TypeOK, HandlerInv, Uploads, Readers, Steps,
        InTransaction
<1>1. CASE UNCHANGED vars
  BY <1>1 DEF vars, database, files, locks, ask, local, answer
<1>2. ASSUME NEW r \in Requests, Step(r) PROVE SessionInv'
  <2>1. CASE Begin(r)
    BY <2>1 DEF Begin, Goto, database, files, locks, ask, local, answer
  <2>2. CASE LockDocument(r)
    BY <2>2 DEF LockDocument, ReadDocument, ObjectKeysOf, Goto, database, files,
        locks, ask, local, answer
  <2>3. CASE LockVersion(r) \/ LockDocumentOfVersion(r)
    BY <2>3 DEF LockVersion, LockDocumentOfVersion, UseVersion, ReuseOrProcess, Goto,
       database, files, locks, ask, local, answer
  <2>4. CASE DocumentGone(r) \/ VersionGone(r) \/ DeadlockVictim(r)
    BY <2>4 DEF DocumentGone, NotFound, Finish, Release, VersionGone,
        DeadlockVictim, Fail, Deadlocked, WaitsFor, Goto, database, files, locks,
        ask, local, answer
  <2>5. CASE CommitStaged(r)
    BY <2>5 DEF CommitStaged, Goto, database, files, locks, ask, local, answer
  <2>6. CASE Refresh(r)
    BY <2>6 DEF Refresh, Finish, Release, Goto, database, files, locks, ask, local,
        answer
  <2>7. CASE RefreshFails(r)
    BY <2>7 DEF RefreshFails, Goto, database, files, locks, ask, local, answer
  <2>8. CASE Compensate(r)
    BY <2>8 DEF Compensate, Finish, Release, Goto, database, files, locks, ask,
        local, answer
  <2>9. CASE UnlinkObject(r)
    BY <2>9 DEF UnlinkObject, Goto, database, files, locks, ask, local, answer
  <2>10. CASE DeleteRows(r)
    BY <2>10 DEF DeleteRows, Goto, database, files, locks, ask, local, answer
  <2>11. CASE ReadObject(r) \/ ObjectMissing(r) \/ Parse(r) \/ AnalyseVersion(r)
    BY <2>11 DEF ReadObject, ObjectMissing, Parse, AnalyseVersion, Finish, Release, Goto,
       database, files, locks, ask, local, answer
  <2>12. CASE Commit(r)
    BY <2>12 DEF Commit, Apply, Finish, Release, Goto, database, files, locks, ask,
        local, answer
  <2>13. CASE CommitFails(r)
    BY <2>13 DEF CommitFails, CommitRaises, Finish, Release, Goto, database, files,
        locks, ask, local, answer
  <2> QED
    BY <1>2, <2>1, <2>2, <2>3, <2>4, <2>5, <2>6, <2>7, <2>8, <2>9, <2>10, <2>11,
        <2>12, <2>13 DEF Step
<1>3. ASSUME NEW r \in Requests, Environment(r) PROVE SessionInv'
  <2>1. CASE ArriveUpload(r)
    BY <2>1 DEF ArriveUpload, Arrive, Goto, database, files, locks, ask, local,
        answer
  <2>2. CASE ArriveDelete(r) \/ ArriveReader(r)
    BY <2>2 DEF ArriveDelete, Arrive, ArriveReader, Goto, database, files, locks,
        ask, local, answer
  <2>3. CASE RejectUpload(r) \/ CommitStagedFails(r)
    BY <2>3 DEF RejectUpload, Finish, Release, CommitStagedFails, Fail, Goto,
        database, files, locks, ask, local, answer
  <2>4. CASE CompensateFails(r) \/ UnlinkFails(r)
    BY <2>4 DEF CompensateFails, Finish, Release, UnlinkFails, Fail, Goto,
        database, files, locks, ask, local, answer
  <2>5. CASE CommitUnacknowledged(r)
    BY <2>5 DEF CommitUnacknowledged, Apply, CommitRaises, Finish, Release, Goto,
        database, files, locks, ask, local, answer
  <2>6. CASE Abort(r)
    BY <2>6 DEF Abort, Fail, Finish, Release, Goto, database, files, locks, ask,
        local, answer
  <2>7. CASE Crash(r)
    BY <2>7 DEF Crash, Finish, Release, Goto, database, files, locks, ask, local,
        answer
  <2> QED
    BY <1>3, <2>1, <2>2, <2>3, <2>4, <2>5, <2>6, <2>7 DEF Environment
<1> QED
  BY <1>1, <1>2, <1>3 DEF Next

\* The parts together are inductive.
LEMMA FilesInvariance == Spec => []FilesInv
<1>1. Init => IInv
  BY Initially
<1>2. Init /\ IInv => FilesInv
  BY RequestsAssumption
     DEF Init, FilesInv, LifeInv, KeysInv, ObjectInv, StagingAccountedFor,
         MissingObjectsExplained, TextInv, ObjectsErased, Uploads, Readers, Orphaning
<1>3. FilesInv /\ [Next]_vars => FilesInv'
  BY Inductive, LifeStep, KeysStep, ObjectStep, StagingStep, MissingStep, TextStep,
     ErasureStep
     DEF FilesInv
<1> QED
  BY <1>1, <1>2, <1>3, PTL DEF Spec

\* Whatever fails and whenever the process dies, an object without a row belongs
\* to an upload in progress, or a crash, a chmod or an unlink error left it.
THEOREM ObjectsExplained == Spec => []ObjectsAccountedFor
<1>1. FilesInv => ObjectsAccountedFor
  BY DEF FilesInv, IInv, TypeOK, ObjectInv, Orphaning, ObjectsAccountedFor
<1> QED
  BY <1>1, FilesInvariance, PTL

\* Only a crash leaves a staged file behind.
THEOREM StagedExplained == Spec => []StagingAccountedFor
<1>1. FilesInv => StagingAccountedFor
  BY DEF FilesInv
<1> QED
  BY <1>1, FilesInvariance, PTL

\* A committed version loses its bytes only to a deletion that did not commit or
\* to the compensation of an upload whose COMMIT had taken effect.
THEOREM LossesExplained == Spec => []MissingObjectsExplained
<1>1. FilesInv => MissingObjectsExplained
  BY DEF FilesInv
<1> QED
  BY <1>1, FilesInvariance, PTL

\* Once a deletion has committed no row, no text and no object of the document
\* is left, those of uploads that raced it included, but for the objects that
\* a crash or an error of the store left behind.
THEOREM Erasure == Spec => []DeletionErases
<1>1. FilesInv => DeletionErases
  <2> SUFFICES ASSUME FilesInv, NEW r \in Requests, op[r] = "delete", outcome[r] = "ok"
               PROVE  /\ target[r] \notin documents /\ VersionsOf(target[r]) = {}
                      /\ \A k \in Requests : op[k] \in Uploads /\ target[k] = target[r] =>
                             /\ extraction[k] = "none"
                             /\ k \in objects =>
                                    pc[k] = "Compensating" \/ fault[k] \in Orphaning
    BY DEF DeletionErases, Orphaning
  <2>1. target[r] \notin documents
    BY DEF FilesInv, KeysInv
  <2>2. VersionsOf(target[r]) = {}
    BY <2>1 DEF FilesInv, IInv, RowInv, VersionsOf
  <2>3. \A k \in Requests : target[k] = target[r] => extraction[k] = "none"
    BY <2>2 DEF FilesInv, TextInv, VersionsOf
  <2> QED
    BY <2>1, <2>2, <2>3 DEF FilesInv, ObjectsErased
<1> QED
  BY <1>1, FilesInvariance, PTL

\* No deletion takes away the object that an extraction reads: their locks on
\* the document exclude each other.
THEOREM BytesHeld == Spec => BytesHeldWhileExtracting
<1>1. FilesInv /\ [Next]_vars => [\A r \in Requests :
          pc[r] \in {"Reading", "Parsing"} /\ target[r] \in objects \ objects'
              => pc[target[r]] = "Compensating"]_vars
  <2> SUFFICES ASSUME FilesInv, Next, NEW r \in Requests,
                      pc[r] \in {"Reading", "Parsing"}, target[r] \in objects \ objects'
               PROVE  pc[target[r]] = "Compensating"
    OBVIOUS
  <2>1. PICK q \in Requests : Step(q) \/ Environment(q)
    BY DEF Next
  <2>2. CASE UnlinkObject(q)
    <3>1. op[q] = "delete" /\ target[r] \in keys[q]
      BY <2>2 DEF UnlinkObject, FilesInv, IInv, HandlerInv
    <3>2. target[target[r]] = target[q]
      BY <2>2, <3>1 DEF UnlinkObject, FilesInv, KeysInv, VersionsOf
    <3>3. HoldsDocument(q, target[q]) /\ HoldsDocument(r, target[q])
      BY <2>2, <3>1, <3>2 DEF UnlinkObject, HoldsDocument, Readers, FilesInv, IInv,
         HandlerInv
    <3>4. q = r
      BY <3>3 DEF FilesInv, IInv, LockInv, TypeOK
    <3> QED
      BY <2>2, <3>4 DEF UnlinkObject
  <2>3. CASE Compensate(q)
    BY <2>3 DEF Compensate
  <2>4. CASE ~UnlinkObject(q) /\ ~Compensate(q)
    <3>1. objects \subseteq objects'
      BY <2>1, <2>4 DEF Step, Environment, Begin, LockDocument, DocumentGone, LockVersion,
         VersionGone, NotFound, LockDocumentOfVersion, DeadlockVictim, CommitStaged,
         Refresh, RefreshFails, DeleteRows, ReadObject, ObjectMissing, Parse,
         AnalyseVersion, Commit, CommitFails, ArriveUpload, ArriveDelete, ArriveReader,
         Arrive, RejectUpload, CommitStagedFails, CompensateFails, UnlinkFails,
         CommitUnacknowledged, Abort, Crash, files
    <3> QED
      BY <3>1
  <2> QED
    BY <2>2, <2>3, <2>4
<1> QED
  BY <1>1, FilesInvariance, PTL DEF Spec, BytesHeldWhileExtracting

\* A succeeded extraction is never overwritten, whichever requests repeat it.
THEOREM ResultsKept == Spec => SucceededKept
<1>1. Init => IInv /\ ResultInv
  BY Initially DEF Init, ResultInv
<1>2. IInv /\ ResultInv /\ [Next]_vars => IInv' /\ ResultInv'
  BY Inductive, ResultStep
<1>3. IInv /\ ResultInv /\ [Next]_vars => [\A v \in versions :
          extraction[v] = "succeeded" /\ v \in versions' => extraction'[v] = "succeeded"]_vars
  <2> SUFFICES ASSUME IInv, ResultInv, Next, NEW v \in versions, v \in versions',
                      extraction[v] = "succeeded", extraction' # extraction
               PROVE  extraction'[v] = "succeeded"
    OBVIOUS
  <2>1. PICK r \in Requests : Step(r) \/ Environment(r)
    BY DEF Next
  <2>2. Apply(r) /\ pc[r] = "Committing"
    BY <2>1 DEF Step, Environment, Begin, LockDocument, DocumentGone, LockVersion,
       VersionGone, NotFound, LockDocumentOfVersion, DeadlockVictim, CommitStaged,
       Refresh, RefreshFails, Compensate, UnlinkObject, DeleteRows, ReadObject,
       ObjectMissing, Parse, AnalyseVersion, Commit, CommitFails, ArriveUpload,
       ArriveDelete, ArriveReader, Arrive, RejectUpload, CommitStagedFails,
       CompensateFails, UnlinkFails, CommitUnacknowledged, Abort, Crash, database
  <2> QED
    BY <2>2 DEF Apply, ResultInv, IInv, TypeOK, VersionsOf, Uploads, database
<1> QED
  BY <1>1, <1>2, <1>3, PTL DEF Spec, SucceededKept

\* The victim of a deadlock and the request it waited for are of two sessions:
\* a user with one session loses no bytes to the deadlock.
THEOREM OneSessionNoDeadlock == Spec => []DeadlocksNeedSessions
<1> DEFINE Inv == IInv /\ SessionInv /\ DeadlocksNeedSessions
<1>1. Init => Inv
  BY Initially DEF Init, SessionInv, DeadlocksNeedSessions, InTransaction
<1>2. Inv /\ [Next]_vars => Inv'
  <2> SUFFICES ASSUME Inv, [Next]_vars PROVE DeadlocksNeedSessions'
    BY Inductive, SessionStep
  <2>1. CASE UNCHANGED vars
    BY <2>1 DEF vars, ask, answer, DeadlocksNeedSessions
  <2>2. ASSUME NEW r \in Requests, Step(r) \/ Environment(r)
        PROVE  DeadlocksNeedSessions'
    <3>1. /\ session' = session
          /\ \A q \in Requests : pc[q] # "Idle" => pc'[q] # "Idle" /\ op'[q] = op[q]
          /\ \A q \in Requests \ {r} : fault'[q] = fault[q]
          /\ fault'[r] = "deadlock" => fault[r] = "deadlock" \/ DeadlockVictim(r)
      BY <2>2 DEF Step, Environment, Begin, LockDocument, ReadDocument, DocumentGone,
         LockVersion, VersionGone, NotFound, LockDocumentOfVersion, UseVersion,
         ReuseOrProcess, DeadlockVictim, CommitStaged, Refresh, RefreshFails, Compensate,
         UnlinkObject, DeleteRows, ReadObject, ObjectMissing, Parse, AnalyseVersion,
         Commit, CommitFails, CommitRaises, ArriveUpload, ArriveDelete, ArriveReader,
         Arrive, RejectUpload, CommitStagedFails, CompensateFails, UnlinkFails,
         CommitUnacknowledged, Abort, Crash, Fail, Finish, Goto, ask, answer, FaultKinds,
         IInv, TypeOK, Conflicts
    <3>2. CASE DeadlockVictim(r)
      <4>1. PICK q \in Requests : WaitsFor(r, q) /\ WaitsFor(q, r)
        BY <3>2 DEF DeadlockVictim, Deadlocked
      <4>2. pc[r] \in InTransaction /\ pc[q] \in InTransaction /\ op[q] # "create"
        BY <4>1 DEF WaitsFor, Readers, InTransaction, IInv, HandlerInv
      <4>3. q # r
        BY <4>1 DEF WaitsFor, IInv, LockInv, HoldsDocument, HoldsVersion, TypeOK, VersionsOf
      <4>4. session[q] # session[r] /\ pc[q] # "Idle"
        BY <4>2, <4>3 DEF SessionInv, InTransaction
      <4> QED
        BY <3>1, <4>2, <4>4 DEF DeadlocksNeedSessions
    <3>3. CASE ~DeadlockVictim(r)
      BY <3>1, <3>3 DEF DeadlocksNeedSessions
    <3> QED
      BY <3>2, <3>3
  <2> QED
    BY <2>1, <2>2 DEF Next
<1> QED
  BY <1>1, <1>2, PTL DEF Spec
================================================================================
