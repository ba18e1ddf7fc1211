-------------------------- MODULE CvLifecycleProofs --------------------------
(***************************************************************************)
(* Proofs about CvLifecycle for every number of requests and sessions and  *)
(* every set of faults.                                                    *)
(***************************************************************************)
EXTENDS CvLifecycle, TLAPS

\* The latest number is n when the numbers in use are 1..n.
LEMMA MaxOfInterval ==
    ASSUME NEW n \in Nat, NEW S, S = 1 .. n
    PROVE  (CHOOSE m \in {0} \cup S : \A k \in S : k <= m) = n
<1>1. n \in {0} \cup S /\ \A k \in S : k <= n
  OBVIOUS
<1>2. PICK c \in {0} \cup S :
          /\ c = (CHOOSE m \in {0} \cup S : \A k \in S : k <= m)
          /\ \A k \in S : k <= c
  BY <1>1
<1>3. c \in Nat /\ n \in Nat /\ (n = 0 \/ n \in S)
  OBVIOUS
<1>4. c <= n
  BY <1>1
<1>5. n <= c
  <2>1. CASE n = 0
    BY <1>3, <2>1
  <2>2. CASE n \in S
    BY <1>2, <2>2
  <2> QED
    BY <1>3, <2>1, <2>2
<1> QED
  BY <1>2, <1>3, <1>4, <1>5

\* What a step that leaves the committed rows alone leaves alone.
LEMMA NumbersKept ==
    ASSUME versions' = versions,
           \A v \in versions : target'[v] = target[v] /\ number'[v] = number[v],
           NEW d \in Requests
    PROVE  NumbersOf(d)' = NumbersOf(d) /\ NextNumber(d)' = NextNumber(d)
<1>1. VersionsOf(d)' = VersionsOf(d)
  BY DEF VersionsOf
<1>2. NumbersOf(d)' = NumbersOf(d)
  BY <1>1 DEF NumbersOf, VersionsOf
<1> QED
  BY <1>2 DEF NextNumber, LatestNumber

\* The parts of NumberInv about committed rows survive such a step.
LEMMA QuietStep ==
    ASSUME IInv, documents' = documents, versions' = versions,
           \A v \in versions : target'[v] = target[v] /\ number'[v] = number[v],
           \A q \in Requests : pc'[q] \in {"Storing", "Committing"} =>
               /\ op'[q] = "create" => number'[q] = 1
               /\ op'[q] = "addVersion" =>
                     target'[q] \in Requests /\ number'[q] = NextNumber(target'[q])
    PROVE  NumberInv'
<1> USE DEF IInv
<1>1. ASSUME NEW d \in Requests
      PROVE  NumbersOf(d)' = NumbersOf(d) /\ NextNumber(d)' = NextNumber(d)
  BY NumbersKept
<1>2. documents \subseteq Requests
  BY DEF TypeOK
<1>3. \A d \in documents' : /\ NextNumber(d)' \in Nat
                            /\ NextNumber(d)' > 1
                            /\ NumbersOf(d)' = 1 .. (NextNumber(d)' - 1)
  BY <1>1, <1>2 DEF NumberInv
<1>4. \A v, w \in versions' :
          target'[v] = target'[w] /\ number'[v] = number'[w] => v = w
  BY DEF NumberInv
<1>5. \A q \in Requests : pc'[q] \in {"Storing", "Committing"} =>
          /\ op'[q] = "create" => number'[q] = 1
          /\ op'[q] = "addVersion" => number'[q] = NextNumber(target[q])'
  BY <1>1
<1> QED
  BY <1>3, <1>4, <1>5 DEF NumberInv

\* The types hold at the start and are kept by every step; number stays a
\* natural because the numbers in use are an interval (NumberInv).
LEMMA TypeStep == IInv /\ [Next]_vars => TypeOK'
<1> SUFFICES ASSUME IInv, [Next]_vars PROVE TypeOK'
  OBVIOUS
<1> USE DEF IInv, TypeOK, Steps, InTransaction, Uploads, FaultKinds
<1>1. CASE UNCHANGED vars
  BY <1>1 DEF vars, database, files, locks, ask, local, answer
<1>2. ASSUME NEW r \in Requests, Step(r) PROVE TypeOK'
  <2>1. CASE Begin(r)
    BY <2>1 DEF Begin, Goto, database, files, locks, ask, answer
  <2>2. CASE LockDocument(r)
    <3>1. target[r] \in documents => NextNumber(target[r]) \in Nat
      BY DEF NumberInv
    <3>2. VersionsOf(target[r]) \subseteq Requests
      BY DEF VersionsOf
    <3> QED
      BY <2>2, <3>1, <3>2 DEF LockDocument, ReadDocument, ObjectKeysOf, Goto, database,
         files, ask, answer
  <2>3. CASE DocumentGone(r) \/ VersionGone(r)
    BY <2>3 DEF DocumentGone, VersionGone, NotFound, Finish, Release, Goto,
                database, ask, local
  <2>4. CASE LockVersion(r)
    BY <2>4 DEF LockVersion, Goto, database, files, ask, local, answer
  <2>5. CASE LockDocumentOfVersion(r)
    BY <2>5 DEF LockDocumentOfVersion, UseVersion, ReuseOrProcess, Goto, database, files,
       ask, answer
  <2>6. CASE DeadlockVictim(r)
    BY <2>6 DEF DeadlockVictim, Fail, Finish, Release, Goto, database, ask, local
  <2>7. CASE CommitStaged(r)
    BY <2>7 DEF CommitStaged, Goto, database, locks, ask, local, answer
  <2>8. CASE Refresh(r)
    BY <2>8 DEF Refresh, Finish, Release, Goto, database, files, ask, local
  <2>9. CASE RefreshFails(r)
    BY <2>9 DEF RefreshFails, Goto, database, files, locks, ask, local
  <2>10. CASE Compensate(r)
    BY <2>10 DEF Compensate, Finish, Release, Goto, database, ask, local
  <2>11. CASE UnlinkObject(r)
    BY <2>11 DEF UnlinkObject, database, locks, ask, answer
  <2>12. CASE DeleteRows(r)
    BY <2>12 DEF DeleteRows, Goto, database, files, ask, local, answer
  <2>13. CASE ReadObject(r)
    BY <2>13 DEF ReadObject, Goto, database, files, locks, ask, local, answer
  <2>14. CASE ObjectMissing(r) \/ Parse(r) \/ AnalyseVersion(r)
    BY <2>14, SMTT(60) DEF ObjectMissing, Parse, AnalyseVersion, Finish, Release, Goto, database,
       files, locks, ask, local, answer
  <2>15. CASE Commit(r)
    <3>1. versions' \subseteq Requests /\ documents' \subseteq Requests
          /\ extraction' \in [Requests -> {"none", "failed", "succeeded"}]
      BY <2>15 DEF Commit, Apply, database
    <3>2. /\ pc' \in [Requests -> Steps]
          /\ documentLock' \in [Requests -> Requests \cup {NoRequest}]
          /\ versionLock' \in [Requests -> Requests \cup {NoRequest}]
          /\ outcome' \in [Requests ->
                 {"none", "ok", "notFound", "rejected", "failed", "crashed"}]
          /\ fault' \in [Requests -> FaultKinds \cup {"none", "deadlock", "conflict"}]
      BY <2>15, SMTT(60) DEF Commit, Finish, Release, Goto, answer
    <3> QED
      BY <2>15, <3>1, <3>2 DEF Commit, files, ask, local
  <2>16. CASE CommitFails(r)
    <3>1. PICK because \in {"conflict", "commit"} : CommitRaises(r, because)
      BY <2>16 DEF CommitFails
    <3>2. UNCHANGED <<database, files, ask, local>>
      BY <2>16 DEF CommitFails
    <3> QED
      BY <3>1, <3>2, SMTT(60) DEF CommitRaises, Finish, Release, Goto, database, files, ask, local
  <2> QED
    BY <1>2, <2>1, <2>2, <2>3, <2>4, <2>5, <2>6, <2>7, <2>8, <2>9, <2>10, <2>11,
       <2>12, <2>13, <2>14, <2>15, <2>16 DEF Step
<1>3. ASSUME NEW r \in Requests, Environment(r) PROVE TypeOK'
  <2>1. CASE ArriveUpload(r) \/ ArriveDelete(r) \/ ArriveReader(r)
    BY <2>1, SMTT(60) DEF ArriveUpload, ArriveDelete, ArriveReader, Readers, Arrive, Goto,
                database, locks, local, answer
  <2>2. CASE RejectUpload(r)
    BY <2>2 DEF RejectUpload, Finish, Release, Goto, database, ask, local
  <2>3. CASE CommitStagedFails(r)
    BY <2>3 DEF CommitStagedFails, Fail, Finish, Release, Goto, database, ask, local
  <2>6. CASE UnlinkFails(r)
    BY <2>6, SMTT(60) DEF UnlinkFails, Fail, Finish, Release, Goto, database, ask, local
  <2>7. CASE Abort(r)
    BY <2>7, SMTT(60) DEF Abort, Fail, Finish, Release, Goto, database, ask, local
  <2>4. CASE CompensateFails(r) \/ Crash(r)
    BY <2>4 DEF CompensateFails, Crash, Finish, Release, Goto, database, files, ask,
                local
  <2>5. CASE CommitUnacknowledged(r)
    <3>1. versions' \subseteq Requests /\ documents' \subseteq Requests
          /\ extraction' \in [Requests -> {"none", "failed", "succeeded"}]
      BY <2>5 DEF CommitUnacknowledged, Apply, database
    <3>2. /\ pc' \in [Requests -> Steps]
          /\ documentLock' \in [Requests -> Requests \cup {NoRequest}]
          /\ versionLock' \in [Requests -> Requests \cup {NoRequest}]
          /\ outcome' \in [Requests ->
                 {"none", "ok", "notFound", "rejected", "failed", "crashed"}]
          /\ fault' \in [Requests -> FaultKinds \cup {"none", "deadlock", "conflict"}]
      BY <2>5, SMTT(60) DEF CommitUnacknowledged, CommitRaises, Finish, Release, Goto
    <3> QED
      BY <2>5, <3>1, <3>2 DEF CommitUnacknowledged, files, ask, local
  <2> QED
    BY <1>3, <2>1, <2>2, <2>3, <2>4, <2>5, <2>6, <2>7 DEF Environment
<1> QED
  BY <1>1, <1>2, <1>3 DEF Next

\* Operations and control points stay paired: a handler is only ever at a step
\* of its own operation.
LEMMA HandlerStep == IInv /\ [Next]_vars => HandlerInv'
<1> SUFFICES ASSUME IInv, [Next]_vars PROVE HandlerInv'
  OBVIOUS
<1> USE DEF IInv, TypeOK, HandlerInv, Uploads, Readers, Steps, InTransaction
<1>1. CASE UNCHANGED vars
  BY <1>1 DEF vars, database, files, locks, ask, local, answer
<1>2. ASSUME NEW r \in Requests, Step(r) PROVE HandlerInv'
  <2>1. CASE Begin(r)
    BY <2>1 DEF Begin, Goto, database, files, locks, ask, local, answer
  <2>2. CASE LockDocument(r)
    BY <2>2 DEF LockDocument, ReadDocument, ObjectKeysOf, Goto, database, files, locks,
       ask, local, answer
  <2>3. CASE DocumentGone(r)
    BY <2>3 DEF DocumentGone, NotFound, Finish, Release, Goto, database, files,
        locks, ask, local, answer
  <2>4. CASE LockVersion(r)
    BY <2>4 DEF LockVersion, Goto, database, files, locks, ask, local, answer
  <2>5. CASE VersionGone(r)
    BY <2>5 DEF VersionGone, NotFound, Finish, Release, Goto, database, files,
        locks, ask, local, answer
  <2>6. CASE LockDocumentOfVersion(r)
    BY <2>6 DEF LockDocumentOfVersion, UseVersion, ReuseOrProcess, Goto, database, files,
       locks, ask, local, answer
  <2>7. CASE DeadlockVictim(r)
    BY <2>7 DEF DeadlockVictim, Fail, Finish, Release, Goto, Deadlocked, WaitsFor,
        database, files, locks, ask, local, answer
  <2>8. CASE CommitStaged(r)
    BY <2>8 DEF CommitStaged, Goto, database, files, locks, ask, local, answer
  <2>9. CASE Refresh(r)
    BY <2>9 DEF Refresh, Finish, Release, Goto, database, files, locks, ask, local,
        answer
  <2>10. CASE RefreshFails(r)
    BY <2>10 DEF RefreshFails, Goto, database, files, locks, ask, local, answer
  <2>11. CASE Compensate(r)
    BY <2>11 DEF Compensate, Finish, Release, Goto, database, files, locks, ask,
        local, answer
  <2>12. CASE UnlinkObject(r)
    BY <2>12 DEF UnlinkObject, database, files, locks, ask, local, answer
  <2>13. CASE DeleteRows(r)
    BY <2>13 DEF DeleteRows, Goto, database, files, locks, ask, local, answer
  <2>14. CASE ReadObject(r)
    BY <2>14 DEF ReadObject, Goto, database, files, locks, ask, local, answer
  <2>15. CASE ObjectMissing(r)
    BY <2>15 DEF ObjectMissing, Goto, database, files, locks, ask, local, answer
  <2>16. CASE Parse(r) \/ AnalyseVersion(r)
    BY <2>16 DEF Parse, AnalyseVersion, Finish, Release, Goto, database, files, locks,
       ask, local, answer
  <2>17. CASE Commit(r)
    BY <2>17 DEF Commit, Apply, Finish, Release, Goto, database, files, locks, ask,
        local, answer
  <2>18. CASE CommitFails(r)
    BY <2>18 DEF CommitFails, CommitRaises, Finish, Release, Goto, database, files,
        locks, ask, local, answer
  <2> QED
    BY <1>2, <2>1, <2>2, <2>3, <2>4, <2>5, <2>6, <2>7, <2>8, <2>9, <2>10, <2>11,
        <2>12, <2>13, <2>14, <2>15, <2>16, <2>17, <2>18 DEF Step
<1>3. ASSUME NEW r \in Requests, Environment(r) PROVE HandlerInv'
  <2>1. CASE ArriveUpload(r)
    BY <2>1 DEF ArriveUpload, Arrive, Goto, database, files, locks, ask, local,
        answer
  <2>2. CASE ArriveDelete(r)
    BY <2>2 DEF ArriveDelete, Arrive, Goto, database, files, locks, ask, local,
        answer
  <2>3. CASE ArriveReader(r)
    BY <2>3 DEF ArriveReader, Arrive, Goto, database, files, locks, ask, local,
        answer
  <2>4. CASE RejectUpload(r)
    BY <2>4 DEF RejectUpload, Finish, Release, Goto, database, files, locks, ask,
        local, answer
  <2>5. CASE CommitStagedFails(r)
    BY <2>5 DEF CommitStagedFails, Fail, Finish, Release, Goto, database, files,
        locks, ask, local, answer
  <2>6. CASE CompensateFails(r)
    BY <2>6 DEF CompensateFails, Finish, Release, Goto, database, files, locks, ask,
        local, answer
  <2>7. CASE UnlinkFails(r)
    BY <2>7 DEF UnlinkFails, Fail, Finish, Release, Goto, database, files, locks,
        ask, local, answer
  <2>8. CASE CommitUnacknowledged(r)
    BY <2>8 DEF CommitUnacknowledged, Apply, CommitRaises, Finish, Release, Goto,
        database, files, locks, ask, local, answer
  <2>9. CASE Abort(r)
    BY <2>9 DEF Abort, Fail, Finish, Release, Goto, database, files, locks, ask,
        local, answer
  <2>10. CASE Crash(r)
    BY <2>10 DEF Crash, Finish, Release, Goto, database, files, locks, ask, local,
        answer
  <2> QED
    BY <1>3, <2>1, <2>2, <2>3, <2>4, <2>5, <2>6, <2>7, <2>8, <2>9, <2>10 DEF Environment
<1> QED
  BY <1>1, <1>2, <1>3 DEF Next

\* Committed rows belong to uploads whose handlers are past their COMMIT, and
\* a version's document row exists.
LEMMA RowStep == IInv /\ [Next]_vars => RowInv'
<1> SUFFICES ASSUME IInv, [Next]_vars PROVE RowInv'
  OBVIOUS
<1> USE DEF IInv, TypeOK, RowInv, HandlerInv, LockInv, HoldsDocument, HoldsVersion,
        Stored, Uploads, Readers, VersionsOf, Steps, InTransaction
<1>1. CASE UNCHANGED vars
  BY <1>1 DEF vars, database, files, locks, ask, local, answer
<1>2. ASSUME NEW r \in Requests, Step(r) PROVE RowInv'
  <2>1. CASE Begin(r)
    BY <2>1, SMTT(60) DEF Begin, Goto, database, files, locks, ask, local, answer
  <2>2. CASE LockDocument(r)
    <3>1. r \notin versions /\ r \notin documents
      BY <2>2 DEF LockDocument, ReadDocument, ObjectKeysOf
    <3>2. UNCHANGED <<documents, versions, op, target>>
      BY <2>2 DEF LockDocument, ReadDocument, ObjectKeysOf, database, ask
    <3>3. pc' = [pc EXCEPT ![r] = pc'[r]]
      BY <2>2 DEF LockDocument, ReadDocument, ObjectKeysOf, Goto
    <3> QED
      BY <3>1, <3>2, <3>3, SMTT(60)
  <2>3. CASE DocumentGone(r)
    BY <2>3 DEF DocumentGone, NotFound, Finish, Release, Goto, database, files,
        locks, ask, local, answer
  <2>4. CASE LockVersion(r)
    BY <2>4 DEF LockVersion, Goto, database, files, locks, ask, local, answer
  <2>5. CASE VersionGone(r)
    BY <2>5 DEF VersionGone, NotFound, Finish, Release, Goto, database, files,
        locks, ask, local, answer
  <2>6. CASE LockDocumentOfVersion(r)
    BY <2>6 DEF LockDocumentOfVersion, UseVersion, ReuseOrProcess, Goto, database, files,
       locks, ask, local, answer
  <2>7. CASE DeadlockVictim(r)
    BY <2>7 DEF DeadlockVictim, Fail, Finish, Release, Goto, database, files, locks,
        ask, local, answer
  <2>8. CASE CommitStaged(r)
    BY <2>8 DEF CommitStaged, Goto, database, files, locks, ask, local, answer
  <2>9. CASE Refresh(r)
    BY <2>9 DEF Refresh, Finish, Release, Goto, database, files, locks, ask, local,
        answer
  <2>10. CASE RefreshFails(r)
    BY <2>10 DEF RefreshFails, Goto, database, files, locks, ask, local, answer
  <2>11. CASE Compensate(r)
    BY <2>11 DEF Compensate, Finish, Release, Goto, database, files, locks, ask,
        local, answer
  <2>12. CASE UnlinkObject(r)
    BY <2>12 DEF UnlinkObject, database, files, locks, ask, local, answer
  <2>13. CASE DeleteRows(r)
    BY <2>13 DEF DeleteRows, Goto, database, files, locks, ask, local, answer
  <2>14. CASE ReadObject(r)
    BY <2>14 DEF ReadObject, Goto, database, files, locks, ask, local, answer
  <2>15. CASE ObjectMissing(r)
    BY <2>15 DEF ObjectMissing, Goto, database, files, locks, ask, local, answer
  <2>16. CASE Parse(r) \/ AnalyseVersion(r)
    BY <2>16 DEF Parse, AnalyseVersion, Finish, Release, Goto, database, files, locks,
       ask, local, answer
  <2>17. CASE Commit(r)
    BY <2>17 DEF Commit, Apply, Finish, Release, Goto, database, files, locks, ask,
        local, answer
  <2>18. CASE CommitFails(r)
    <3>1. r \notin versions /\ r \notin documents
      BY <2>18 DEF CommitFails
    <3>2. UNCHANGED <<documents, versions, op, target>>
      BY <2>18 DEF CommitFails, database, ask
    <3>3. pc' = [pc EXCEPT ![r] = pc'[r]]
      BY <2>18 DEF CommitFails, CommitRaises, Finish, Goto
    <3> QED
      BY <3>1, <3>2, <3>3, SMTT(60)
  <2> QED
    BY <1>2, <2>1, <2>2, <2>3, <2>4, <2>5, <2>6, <2>7, <2>8, <2>9, <2>10, <2>11,
        <2>12, <2>13, <2>14, <2>15, <2>16, <2>17, <2>18 DEF Step
<1>3. ASSUME NEW r \in Requests, Environment(r) PROVE RowInv'
  <2>1. CASE ArriveUpload(r)
    <3>1. r \notin versions /\ r \notin documents /\ pc[r] = "Idle"
      BY <2>1 DEF ArriveUpload, Arrive
    <3>2. CASE Arrive(r, "create", r)
      BY <3>1, <3>2, <2>1 DEF ArriveUpload, Arrive, Goto, database, locks
    <3>3. ASSUME NEW d \in documents, Arrive(r, "addVersion", d)
          PROVE  RowInv'
      BY <3>1, <3>3, <2>1 DEF ArriveUpload, Arrive, Goto, database, locks
    <3> QED
      BY <2>1, <3>2, <3>3 DEF ArriveUpload
  <2>2. CASE ArriveDelete(r)
    BY <2>2 DEF ArriveDelete, Arrive, Goto, database, files, locks, ask, local,
        answer
  <2>3. CASE ArriveReader(r)
    BY <2>3 DEF ArriveReader, Arrive, Goto, database, files, locks, ask, local,
        answer
  <2>4. CASE RejectUpload(r)
    BY <2>4 DEF RejectUpload, Finish, Release, Goto, database, files, locks, ask,
        local, answer
  <2>5. CASE CommitStagedFails(r)
    BY <2>5 DEF CommitStagedFails, Fail, Finish, Release, Goto, database, files,
        locks, ask, local, answer
  <2>6. CASE CompensateFails(r)
    BY <2>6 DEF CompensateFails, Finish, Release, Goto, database, files, locks, ask,
        local, answer
  <2>7. CASE UnlinkFails(r)
    BY <2>7 DEF UnlinkFails, Fail, Finish, Release, Goto, database, files, locks,
        ask, local, answer
  <2>8. CASE CommitUnacknowledged(r)
    BY <2>8 DEF CommitUnacknowledged, Apply, CommitRaises, Finish, Release, Goto,
        database, files, locks, ask, local, answer
  <2>9. CASE Abort(r)
    BY <2>9 DEF Abort, Fail, Finish, Release, Goto, database, files, locks, ask,
        local, answer
  <2>10. CASE Crash(r)
    BY <2>10 DEF Crash, Finish, Release, Goto, database, files, locks, ask, local,
        answer
  <2> QED
    BY <1>3, <2>1, <2>2, <2>3, <2>4, <2>5, <2>6, <2>7, <2>8, <2>9, <2>10 DEF Environment
<1> QED
  BY <1>1, <1>2, <1>3 DEF Next

\* Each row lock is held exactly by the handler whose step says so, and the row
\* it guards exists as long as it is held.
LEMMA LockStep == IInv /\ [Next]_vars => LockInv'
<1> SUFFICES ASSUME IInv, [Next]_vars PROVE LockInv'
  OBVIOUS
<1> USE DEF IInv, TypeOK, RowInv, HandlerInv, LockInv, HoldsDocument, HoldsVersion,
        Stored, Uploads, Readers, VersionsOf, Steps, InTransaction
<1>1. CASE UNCHANGED vars
  BY <1>1 DEF vars, database, files, locks, ask, local, answer
<1>2. ASSUME NEW r \in Requests, Step(r) PROVE LockInv'
  <2>1. CASE Begin(r)
    BY <2>1 DEF Begin, Goto, database, files, locks, ask, local, answer
  <2>2. CASE LockDocument(r)
    BY <2>2 DEF LockDocument, ReadDocument, ObjectKeysOf, Goto, database, files, locks,
       ask, local, answer
  <2>3. CASE DocumentGone(r)
    BY <2>3 DEF DocumentGone, NotFound, Finish, Release, Goto, database, files,
        locks, ask, local, answer
  <2>4. CASE LockVersion(r)
    BY <2>4 DEF LockVersion, Goto, database, files, locks, ask, local, answer
  <2>5. CASE VersionGone(r)
    BY <2>5 DEF VersionGone, NotFound, Finish, Release, Goto, database, files,
        locks, ask, local, answer
  <2>6. CASE LockDocumentOfVersion(r)
    BY <2>6 DEF LockDocumentOfVersion, UseVersion, ReuseOrProcess, Goto, database, files,
       locks, ask, local, answer
  <2>7. CASE DeadlockVictim(r)
    BY <2>7, SMTT(60) DEF DeadlockVictim, Fail, Finish, Release, Goto, database, files, locks,
        ask, local, answer
  <2>8. CASE CommitStaged(r)
    BY <2>8 DEF CommitStaged, Goto, database, files, locks, ask, local, answer
  <2>9. CASE Refresh(r)
    BY <2>9 DEF Refresh, Finish, Release, Goto, database, files, locks, ask, local,
        answer
  <2>10. CASE RefreshFails(r)
    BY <2>10 DEF RefreshFails, Goto, database, files, locks, ask, local, answer
  <2>11. CASE Compensate(r)
    BY <2>11 DEF Compensate, Finish, Release, Goto, database, files, locks, ask,
        local, answer
  <2>12. CASE UnlinkObject(r)
    BY <2>12 DEF UnlinkObject, database, files, locks, ask, local, answer
  <2>13. CASE DeleteRows(r)
    BY <2>13 DEF DeleteRows, Goto, database, files, locks, ask, local, answer
  <2>14. CASE ReadObject(r)
    BY <2>14 DEF ReadObject, Goto, database, files, locks, ask, local, answer
  <2>15. CASE ObjectMissing(r)
    BY <2>15 DEF ObjectMissing, Goto, database, files, locks, ask, local, answer
  <2>16. CASE Parse(r) \/ AnalyseVersion(r)
    BY <2>16 DEF Parse, AnalyseVersion, Finish, Release, Goto, database, files, locks,
       ask, local, answer
  <2>17. CASE Commit(r)
    BY <2>17 DEF Commit, Apply, Finish, Release, Goto, database, files, locks, ask,
        local, answer
  <2>18. CASE CommitFails(r)
    BY <2>18 DEF CommitFails, CommitRaises, Finish, Release, Goto, database, files,
        locks, ask, local, answer
  <2> QED
    BY <1>2, <2>1, <2>2, <2>3, <2>4, <2>5, <2>6, <2>7, <2>8, <2>9, <2>10, <2>11,
        <2>12, <2>13, <2>14, <2>15, <2>16, <2>17, <2>18 DEF Step
<1>3. ASSUME NEW r \in Requests, Environment(r) PROVE LockInv'
  <2>1. CASE ArriveUpload(r)
    <3>1. r \notin versions /\ r \notin documents /\ pc[r] = "Idle"
      BY <2>1 DEF ArriveUpload, Arrive
    <3>2. CASE Arrive(r, "create", r)
      BY <3>1, <3>2, <2>1 DEF ArriveUpload, Arrive, Goto, database, locks
    <3>3. ASSUME NEW d \in documents, Arrive(r, "addVersion", d)
          PROVE  LockInv'
      BY <3>1, <3>3, <2>1 DEF ArriveUpload, Arrive, Goto, database, locks
    <3> QED
      BY <2>1, <3>2, <3>3 DEF ArriveUpload
  <2>2. CASE ArriveDelete(r)
    BY <2>2 DEF ArriveDelete, Arrive, Goto, database, files, locks, ask, local,
        answer
  <2>3. CASE ArriveReader(r)
    BY <2>3 DEF ArriveReader, Arrive, Goto, database, files, locks, ask, local,
        answer
  <2>4. CASE RejectUpload(r)
    BY <2>4 DEF RejectUpload, Finish, Release, Goto, database, files, locks, ask,
        local, answer
  <2>5. CASE CommitStagedFails(r)
    BY <2>5 DEF CommitStagedFails, Fail, Finish, Release, Goto, database, files,
        locks, ask, local, answer
  <2>6. CASE CompensateFails(r)
    BY <2>6 DEF CompensateFails, Finish, Release, Goto, database, files, locks, ask,
        local, answer
  <2>7. CASE UnlinkFails(r)
    BY <2>7 DEF UnlinkFails, Fail, Finish, Release, Goto, database, files, locks,
        ask, local, answer
  <2>8. CASE CommitUnacknowledged(r)
    BY <2>8 DEF CommitUnacknowledged, Apply, CommitRaises, Finish, Release, Goto,
        database, files, locks, ask, local, answer
  <2>9. CASE Abort(r)
    BY <2>9 DEF Abort, Fail, Finish, Release, Goto, database, files, locks, ask,
        local, answer
  <2>10. CASE Crash(r)
    BY <2>10 DEF Crash, Finish, Release, Goto, database, files, locks, ask, local,
        answer
  <2> QED
    BY <1>3, <2>1, <2>2, <2>3, <2>4, <2>5, <2>6, <2>7, <2>8, <2>9, <2>10 DEF Environment
<1> QED
  BY <1>1, <1>2, <1>3 DEF Next

\* A committing transaction keeps the numbering: it is the only one that can
\* touch the versions of its document, and its number is the next one.
LEMMA ApplyStep ==
    ASSUME IInv, NEW r \in Requests, Apply(r), pc[r] = "Committing",
           op' = op, target' = target, number' = number,
           pc'[r] \in Stored,
           \A q \in Requests \ {r} : pc'[q] = pc[q]
    PROVE  NumberInv'
<1> USE DEF IInv
<1> DEFINE d == target[r]
<1>1. d \in Requests /\ number[r] \in Nat /\ op[r] # "none"
  BY DEF TypeOK, HandlerInv
<1>2. \A q \in Requests \ {r} :
          pc[q] \in {"Storing", "Committing"} /\ op[q] = "addVersion"
              /\ op[r] \in {"addVersion", "delete"} => target[q] # d
  BY <1>1 DEF LockInv, HoldsDocument, TypeOK
<1>3. ASSUME NEW e \in Requests, NumbersOf(e)' = NumbersOf(e)
      PROVE  NextNumber(e)' = NextNumber(e)
  BY <1>3 DEF NextNumber, LatestNumber
<1>4. ASSUME NEW e \in Requests, NEW n \in Nat, NumbersOf(e)' = 1 .. n
      PROVE  NextNumber(e)' = n + 1
  <2>1. LatestNumber(e)' = n
    BY <1>4, MaxOfInterval DEF LatestNumber
  <2> QED
    BY <2>1 DEF NextNumber
<1>5. CASE op[r] = "create"
  <2>1. d = r /\ r \notin documents /\ r \notin versions /\ number[r] = 1
    BY <1>5 DEF HandlerInv, RowInv, NumberInv, Stored
  <2>2. documents' = documents \cup {r} /\ versions' = versions \cup {r}
    BY <1>5 DEF Apply
  <2>3. VersionsOf(r)' = {r}
    BY <2>1, <2>2 DEF VersionsOf, RowInv
  <2>4. NumbersOf(r)' = 1 .. 1
    BY <2>1, <2>3 DEF NumbersOf
  <2>5. NextNumber(r)' = 1 + 1
    BY <2>4, <1>4, 1 \in Nat
  <2>6. ASSUME NEW e \in Requests, e # r
        PROVE  NumbersOf(e)' = NumbersOf(e) /\ NextNumber(e)' = NextNumber(e)
    <3>1. VersionsOf(e)' = VersionsOf(e)
      BY <2>1, <2>2, <2>6 DEF VersionsOf
    <3>2. NumbersOf(e)' = NumbersOf(e)
      BY <3>1 DEF NumbersOf
    <3> QED
      BY <3>2, <1>3
  <2>7. \A e \in documents' : /\ NextNumber(e)' \in Nat
                              /\ NextNumber(e)' > 1
                              /\ NumbersOf(e)' = 1 .. (NextNumber(e)' - 1)
    <3> TAKE e \in documents'
    <3>1. CASE e = r
      BY <3>1, <2>4, <2>5
    <3>2. CASE e # r
      BY <3>2, <2>2, <2>6 DEF NumberInv, TypeOK
    <3> QED
      BY <3>1, <3>2
  <2>8. \A v, w \in versions' :
            target'[v] = target'[w] /\ number'[v] = number'[w] => v = w
    BY <2>1, <2>2 DEF NumberInv, RowInv
  <2>9. \A q \in Requests : pc'[q] \in {"Storing", "Committing"} =>
            /\ op'[q] = "create" => number'[q] = 1
            /\ op'[q] = "addVersion" => number'[q] = NextNumber(target[q])'
    <3> TAKE q \in Requests
    <3> HAVE pc'[q] \in {"Storing", "Committing"}
    <3>1. q # r /\ pc[q] \in {"Storing", "Committing"}
      BY DEF Stored
    <3>2. op[q] = "addVersion" => target[q] \in documents
      BY <3>1 DEF LockInv, HoldsDocument, TypeOK
    <3>3. op[q] = "addVersion" => NextNumber(target[q])' = NextNumber(target[q])
      BY <3>2, <2>1, <2>6 DEF TypeOK
    <3> QED
      BY <3>1, <3>3 DEF NumberInv
  <2> QED
    BY <2>7, <2>8, <2>9 DEF NumberInv
<1>6. CASE op[r] = "addVersion"
  <2> DEFINE n == number[r]
  <2>1. documents' = documents /\ versions' = versions \cup {r}
    BY <1>6 DEF Apply
  <2>2. /\ d \in documents /\ r \notin versions /\ n = NextNumber(d)
        /\ n \in Nat /\ n > 1 /\ NumbersOf(d) = 1 .. (n - 1)
    BY <1>6, <1>1 DEF LockInv, HoldsDocument, NumberInv, RowInv, Stored
  <2>3. VersionsOf(d)' = VersionsOf(d) \cup {r}
    BY <2>1, <1>1 DEF VersionsOf
  <2>4. NumbersOf(d)' = NumbersOf(d) \cup {n}
    BY <2>3 DEF NumbersOf
  <2>5. NumbersOf(d)' = 1 .. n
    BY <2>2, <2>4
  <2>6. NextNumber(d)' = n + 1
    BY <2>2, <2>5, <1>1, <1>4
  <2>7. ASSUME NEW e \in Requests, e # d
        PROVE  NumbersOf(e)' = NumbersOf(e) /\ NextNumber(e)' = NextNumber(e)
    <3>1. VersionsOf(e)' = VersionsOf(e)
      BY <2>1, <2>7 DEF VersionsOf
    <3>2. NumbersOf(e)' = NumbersOf(e)
      BY <3>1 DEF NumbersOf
    <3> QED
      BY <3>2, <1>3
  <2>8. \A e \in documents' : /\ NextNumber(e)' \in Nat
                              /\ NextNumber(e)' > 1
                              /\ NumbersOf(e)' = 1 .. (NextNumber(e)' - 1)
    <3> TAKE e \in documents'
    <3>1. CASE e = d
      BY <3>1, <2>2, <2>5, <2>6
    <3>2. CASE e # d
      BY <3>2, <2>1, <2>7 DEF NumberInv, TypeOK
    <3> QED
      BY <3>1, <3>2
  <2>9. \A v \in versions : target[v] = d => number[v] # n
    <3> TAKE v \in versions
    <3> HAVE target[v] = d
    <3>1. number[v] \in NumbersOf(d)
      BY DEF NumbersOf, VersionsOf
    <3> QED
      BY <3>1, <2>2
  <2>10. \A v, w \in versions' :
             target'[v] = target'[w] /\ number'[v] = number'[w] => v = w
    BY <2>1, <2>9 DEF NumberInv
  <2>11. \A q \in Requests : pc'[q] \in {"Storing", "Committing"} =>
             /\ op'[q] = "create" => number'[q] = 1
             /\ op'[q] = "addVersion" => number'[q] = NextNumber(target[q])'
    <3> TAKE q \in Requests
    <3> HAVE pc'[q] \in {"Storing", "Committing"}
    <3>1. q # r /\ pc[q] \in {"Storing", "Committing"}
      BY DEF Stored
    <3>2. op[q] = "addVersion" => target[q] # d
      BY <3>1, <1>2, <1>6
    <3>3. op[q] = "addVersion" => NextNumber(target[q])' = NextNumber(target[q])
      BY <3>2, <2>7 DEF TypeOK
    <3> QED
      BY <3>1, <3>3 DEF NumberInv
  <2> QED
    BY <2>8, <2>10, <2>11 DEF NumberInv
<1>7. CASE op[r] = "delete"
  <2>1. documents' = documents \ {d} /\ versions' = versions \ VersionsOf(d)
    BY <1>7 DEF Apply
  <2>2. ASSUME NEW e \in Requests, e # d
        PROVE  NumbersOf(e)' = NumbersOf(e) /\ NextNumber(e)' = NextNumber(e)
    <3>1. VersionsOf(e)' = VersionsOf(e)
      BY <2>1, <2>2 DEF VersionsOf
    <3>2. NumbersOf(e)' = NumbersOf(e)
      BY <3>1 DEF NumbersOf
    <3> QED
      BY <3>2, <1>3
  <2>3. \A e \in documents' : /\ NextNumber(e)' \in Nat
                              /\ NextNumber(e)' > 1
                              /\ NumbersOf(e)' = 1 .. (NextNumber(e)' - 1)
    BY <2>1, <2>2 DEF NumberInv, TypeOK
  <2>4. \A v, w \in versions' :
            target'[v] = target'[w] /\ number'[v] = number'[w] => v = w
    BY <2>1 DEF NumberInv
  <2>5. \A q \in Requests : pc'[q] \in {"Storing", "Committing"} =>
            /\ op'[q] = "create" => number'[q] = 1
            /\ op'[q] = "addVersion" => number'[q] = NextNumber(target[q])'
    <3> TAKE q \in Requests
    <3> HAVE pc'[q] \in {"Storing", "Committing"}
    <3>1. q # r /\ pc[q] \in {"Storing", "Committing"}
      BY DEF Stored
    <3>2. op[q] = "addVersion" => target[q] # d
      BY <3>1, <1>2, <1>7
    <3>3. op[q] = "addVersion" => NextNumber(target[q])' = NextNumber(target[q])
      BY <3>2, <2>2 DEF TypeOK
    <3> QED
      BY <3>1, <3>3 DEF NumberInv
  <2> QED
    BY <2>3, <2>4, <2>5 DEF NumberInv
<1>8. CASE op[r] \in Readers
  <2>1. documents' = documents /\ versions' = versions
    BY <1>8 DEF Apply, Readers, Uploads, database
  <2>2. \A q \in Requests : pc'[q] \in {"Storing", "Committing"} =>
            /\ op'[q] = "create" => number'[q] = 1
            /\ op'[q] = "addVersion" =>
                  target'[q] \in Requests /\ number'[q] = NextNumber(target'[q])
    BY DEF NumberInv, TypeOK, Stored
  <2> QED
    BY <2>1, <2>2, QuietStep
<1> QED
  BY <1>1, <1>5, <1>6, <1>7, <1>8 DEF Apply, Readers

\* The numbering survives every step.
LEMMA NumberStep == IInv /\ [Next]_vars => NumberInv'
<1> SUFFICES ASSUME IInv, [Next]_vars PROVE NumberInv'
  OBVIOUS
<1> USE DEF IInv, TypeOK, HandlerInv, RowInv, Uploads, Readers, Steps, InTransaction, Stored
<1> DEFINE Numbered(q) ==
        pc'[q] \in {"Storing", "Committing"} =>
            /\ op'[q] = "create" => number'[q] = 1
            /\ op'[q] = "addVersion" =>
                  target'[q] \in Requests /\ number'[q] = NextNumber(target'[q])
           Quiet ==
        /\ documents' = documents /\ versions' = versions
        /\ \A v \in versions : target'[v] = target[v] /\ number'[v] = number[v]
        /\ \A q \in Requests : Numbered(q)
<1>4. Quiet => NumberInv'
  BY QuietStep
<1>1. CASE UNCHANGED vars
  <2>1. Quiet
    BY <1>1 DEF vars, database, files, locks, ask, local, answer, NumberInv
  <2> QED
    BY <2>1, <1>4
<1>2. ASSUME NEW r \in Requests, Step(r) PROVE NumberInv'
  <2>1. CASE Begin(r)
    <3>1. r \notin versions /\ pc[r] \in {"Idle", "Accepted", "Locking"}
      BY <2>1 DEF Begin
    <3>2. documents' = documents /\ versions' = versions
      BY <2>1 DEF Begin, database
    <3>3. \A v \in versions : target'[v] = target[v] /\ number'[v] = number[v]
      BY <2>1, <3>1 DEF Begin, ask, local
    <3>4. \A q \in Requests \ {r} : /\ pc'[q] = pc[q] /\ op'[q] = op[q]
                                      /\ target'[q] = target[q] /\ number'[q] = number[q]
      BY <2>1 DEF Begin, Goto, ask, local
    <3>5. Numbered(r)
      BY <2>1, <3>1 DEF Begin, Goto, ask, local
    <3>6. \A q \in Requests : Numbered(q)
      BY <3>4, <3>5 DEF NumberInv
    <3> QED
      BY <3>2, <3>3, <3>6, <1>4
  <2>2. CASE LockDocument(r)
    <3>1. r \notin versions /\ pc[r] \in {"Idle", "Accepted", "Locking"}
      BY <2>2 DEF LockDocument, ReadDocument, ObjectKeysOf
    <3>2. documents' = documents /\ versions' = versions
      BY <2>2 DEF LockDocument, ReadDocument, ObjectKeysOf, database
    <3>3. \A v \in versions : target'[v] = target[v] /\ number'[v] = number[v]
      BY <2>2, <3>1 DEF LockDocument, ReadDocument, ObjectKeysOf, ask, local
    <3>4. \A q \in Requests \ {r} : /\ pc'[q] = pc[q] /\ op'[q] = op[q]
                                      /\ target'[q] = target[q] /\ number'[q] = number[q]
      BY <2>2 DEF LockDocument, ReadDocument, ObjectKeysOf, Goto, ask, local
    <3>5. Numbered(r)
      BY <2>2, <3>1 DEF LockDocument, ReadDocument, ObjectKeysOf, Goto, ask, local
    <3>6. \A q \in Requests : Numbered(q)
      BY <3>4, <3>5 DEF NumberInv
    <3> QED
      BY <3>2, <3>3, <3>6, <1>4
  <2>3. CASE DocumentGone(r)
    <3>1. Quiet
      BY <2>3 DEF DocumentGone, NotFound, Finish, Release, Goto, database, files,
        locks, ask, local, answer, NumberInv
    <3> QED
      BY <3>1, <1>4
  <2>4. CASE LockVersion(r)
    <3>1. Quiet
      BY <2>4 DEF LockVersion, Goto, database, files, locks, ask, local, answer,
        NumberInv
    <3> QED
      BY <3>1, <1>4
  <2>5. CASE VersionGone(r)
    <3>1. Quiet
      BY <2>5 DEF VersionGone, NotFound, Finish, Release, Goto, database, files, locks,
        ask, local, answer, NumberInv
    <3> QED
      BY <3>1, <1>4
  <2>6. CASE LockDocumentOfVersion(r)
    <3>1. Quiet
      BY <2>6 DEF LockDocumentOfVersion, UseVersion, ReuseOrProcess, Goto, database,
         files, locks, ask, local, answer, NumberInv
    <3> QED
      BY <3>1, <1>4
  <2>7. CASE DeadlockVictim(r)
    <3>1. Quiet
      BY <2>7 DEF DeadlockVictim, Fail, Finish, Release, Goto, database, files, locks,
        ask, local, answer, NumberInv
    <3> QED
      BY <3>1, <1>4
  <2>8. CASE CommitStaged(r)
    <3>1. Quiet
      BY <2>8 DEF CommitStaged, Goto, database, files, locks, ask, local, answer,
        NumberInv
    <3> QED
      BY <3>1, <1>4
  <2>9. CASE Refresh(r)
    <3>1. Quiet
      BY <2>9 DEF Refresh, Finish, Release, Goto, database, files, locks, ask, local,
        answer, NumberInv
    <3> QED
      BY <3>1, <1>4
  <2>10. CASE RefreshFails(r)
    <3>1. Quiet
      BY <2>10 DEF RefreshFails, Goto, database, files, locks, ask, local, answer,
        NumberInv
    <3> QED
      BY <3>1, <1>4
  <2>11. CASE Compensate(r)
    <3>1. Quiet
      BY <2>11 DEF Compensate, Finish, Release, Goto, database, files, locks, ask,
        local, answer, NumberInv
    <3> QED
      BY <3>1, <1>4
  <2>12. CASE UnlinkObject(r)
    <3>1. Quiet
      BY <2>12 DEF UnlinkObject, database, files, locks, ask, local, answer, NumberInv
    <3> QED
      BY <3>1, <1>4
  <2>13. CASE DeleteRows(r)
    <3>1. Quiet
      BY <2>13 DEF DeleteRows, Goto, database, files, locks, ask, local, answer,
        NumberInv
    <3> QED
      BY <3>1, <1>4
  <2>14. CASE ReadObject(r)
    <3>1. Quiet
      BY <2>14 DEF ReadObject, Goto, database, files, locks, ask, local, answer,
        NumberInv
    <3> QED
      BY <3>1, <1>4
  <2>15. CASE ObjectMissing(r)
    <3>1. Quiet
      BY <2>15 DEF ObjectMissing, Goto, database, files, locks, ask, local, answer,
        NumberInv
    <3> QED
      BY <3>1, <1>4
  <2>16. CASE Parse(r) \/ AnalyseVersion(r)
    <3>1. Quiet
      BY <2>16 DEF Parse, AnalyseVersion, Finish, Release, Goto, database, files, locks,
         ask, local, answer, NumberInv
    <3> QED
      BY <3>1, <1>4
  <2>17. CASE Commit(r)
    <3>1. /\ Apply(r) /\ pc[r] = "Committing"
          /\ op' = op /\ target' = target /\ number' = number
      BY <2>17 DEF Commit, ask, local
    <3>2. pc'[r] \in Stored /\ \A q \in Requests \ {r} : pc'[q] = pc[q]
      BY <2>17 DEF Commit, Finish, Goto
    <3> QED
      BY <3>1, <3>2, ApplyStep
  <2>18. CASE CommitFails(r)
    <3>1. Quiet
      BY <2>18 DEF CommitFails, CommitRaises, Finish, Release, Goto, database, files,
        locks, ask, local, answer, NumberInv
    <3> QED
      BY <3>1, <1>4
  <2> QED
    BY <1>2, <2>1, <2>2, <2>3, <2>4, <2>5, <2>6, <2>7, <2>8, <2>9, <2>10, <2>11,
        <2>12, <2>13, <2>14, <2>15, <2>16, <2>17, <2>18 DEF Step
<1>3. ASSUME NEW r \in Requests, Environment(r) PROVE NumberInv'
  <2>1. CASE ArriveUpload(r)
    <3>1. r \notin versions /\ pc[r] \in {"Idle", "Accepted", "Locking"}
      BY <2>1 DEF ArriveUpload, Arrive
    <3>2. documents' = documents /\ versions' = versions
      BY <2>1 DEF ArriveUpload, Arrive, database
    <3>3. \A v \in versions : target'[v] = target[v] /\ number'[v] = number[v]
      BY <2>1, <3>1 DEF ArriveUpload, Arrive, ask, local
    <3>4. \A q \in Requests \ {r} : /\ pc'[q] = pc[q] /\ op'[q] = op[q]
                                      /\ target'[q] = target[q] /\ number'[q] = number[q]
      BY <2>1 DEF ArriveUpload, Arrive, Goto, ask, local
    <3>5. Numbered(r)
      BY <2>1, <3>1 DEF ArriveUpload, Arrive, Goto, ask, local
    <3>6. \A q \in Requests : Numbered(q)
      BY <3>4, <3>5 DEF NumberInv
    <3> QED
      BY <3>2, <3>3, <3>6, <1>4
  <2>2. CASE ArriveDelete(r)
    <3>1. r \notin versions /\ pc[r] \in {"Idle", "Accepted", "Locking"}
      BY <2>2 DEF ArriveDelete, Arrive
    <3>2. documents' = documents /\ versions' = versions
      BY <2>2 DEF ArriveDelete, Arrive, database
    <3>3. \A v \in versions : target'[v] = target[v] /\ number'[v] = number[v]
      BY <2>2, <3>1 DEF ArriveDelete, Arrive, ask, local
    <3>4. \A q \in Requests \ {r} : /\ pc'[q] = pc[q] /\ op'[q] = op[q]
                                      /\ target'[q] = target[q] /\ number'[q] = number[q]
      BY <2>2 DEF ArriveDelete, Arrive, Goto, ask, local
    <3>5. Numbered(r)
      BY <2>2, <3>1 DEF ArriveDelete, Arrive, Goto, ask, local
    <3>6. \A q \in Requests : Numbered(q)
      BY <3>4, <3>5 DEF NumberInv
    <3> QED
      BY <3>2, <3>3, <3>6, <1>4
  <2>3. CASE ArriveReader(r)
    <3>1. r \notin versions /\ pc[r] \in {"Idle", "Accepted", "Locking"}
      BY <2>3 DEF ArriveReader, Arrive
    <3>2. documents' = documents /\ versions' = versions
      BY <2>3 DEF ArriveReader, Arrive, database
    <3>3. \A v \in versions : target'[v] = target[v] /\ number'[v] = number[v]
      BY <2>3, <3>1 DEF ArriveReader, Arrive, ask, local
    <3>4. \A q \in Requests \ {r} : /\ pc'[q] = pc[q] /\ op'[q] = op[q]
                                      /\ target'[q] = target[q] /\ number'[q] = number[q]
      BY <2>3 DEF ArriveReader, Arrive, Goto, ask, local
    <3>5. Numbered(r)
      BY <2>3, <3>1 DEF ArriveReader, Arrive, Goto, ask, local
    <3>6. \A q \in Requests : Numbered(q)
      BY <3>4, <3>5 DEF NumberInv
    <3> QED
      BY <3>2, <3>3, <3>6, <1>4
  <2>4. CASE RejectUpload(r)
    <3>1. Quiet
      BY <2>4 DEF RejectUpload, Finish, Release, Goto, database, files, locks, ask,
        local, answer, NumberInv
    <3> QED
      BY <3>1, <1>4
  <2>5. CASE CommitStagedFails(r)
    <3>1. Quiet
      BY <2>5 DEF CommitStagedFails, Fail, Finish, Release, Goto, database, files,
        locks, ask, local, answer, NumberInv
    <3> QED
      BY <3>1, <1>4
  <2>6. CASE CompensateFails(r)
    <3>1. Quiet
      BY <2>6 DEF CompensateFails, Finish, Release, Goto, database, files, locks, ask,
        local, answer, NumberInv
    <3> QED
      BY <3>1, <1>4
  <2>7. CASE UnlinkFails(r)
    <3>1. Quiet
      BY <2>7 DEF UnlinkFails, Fail, Finish, Release, Goto, database, files, locks,
        ask, local, answer, NumberInv
    <3> QED
      BY <3>1, <1>4
  <2>8. CASE CommitUnacknowledged(r)
    <3>1. /\ Apply(r) /\ pc[r] = "Committing"
          /\ op' = op /\ target' = target /\ number' = number
      BY <2>8 DEF CommitUnacknowledged, ask, local
    <3>2. pc'[r] \in Stored /\ \A q \in Requests \ {r} : pc'[q] = pc[q]
      BY <2>8 DEF CommitUnacknowledged, CommitRaises, Finish, Goto
    <3> QED
      BY <3>1, <3>2, ApplyStep
  <2>9. CASE Abort(r)
    <3>1. Quiet
      BY <2>9 DEF Abort, Fail, Finish, Release, Goto, database, files, locks, ask,
        local, answer, NumberInv
    <3> QED
      BY <3>1, <1>4
  <2>10. CASE Crash(r)
    <3>1. Quiet
      BY <2>10 DEF Crash, Finish, Release, Goto, database, files, locks, ask, local,
        answer, NumberInv
    <3> QED
      BY <3>1, <1>4
  <2> QED
    BY <1>3, <2>1, <2>2, <2>3, <2>4, <2>5, <2>6, <2>7, <2>8, <2>9, <2>10 DEF Environment
<1> QED
  BY <1>1, <1>2, <1>3 DEF Next

\* The invariant holds at the start: the seeded uploads have number 1.
LEMMA Initially == Init => IInv
<1> SUFFICES ASSUME Init PROVE IInv
  OBVIOUS
<1>1. TypeOK
  BY RequestsAssumption DEF Init, TypeOK, Steps, Uploads, Readers, FaultKinds
<1>2. HandlerInv /\ RowInv
  BY RequestsAssumption DEF Init, HandlerInv, RowInv, Uploads, Readers, Stored
<1>3. LockInv
  BY NoRequestAssumption DEF Init, LockInv, HoldsDocument, HoldsVersion
<1>4. \A d \in documents : NumbersOf(d) = 1 .. 1
  BY RequestsAssumption DEF Init, NumbersOf, VersionsOf
<1>5. \A d \in documents : LatestNumber(d) = 1
  BY <1>4, MaxOfInterval, 1 \in Nat DEF LatestNumber
<1>6. \A d \in documents : NextNumber(d) = 2
  BY <1>5 DEF NextNumber
<1>7. \A v, w \in versions : target[v] = target[w] => v = w
  BY RequestsAssumption DEF Init
<1>8. \A r \in Requests : pc[r] \notin {"Storing", "Committing"}
  BY DEF Init
<1>9. \A d \in documents : /\ NextNumber(d) \in Nat
                            /\ NextNumber(d) > 1
                            /\ NumbersOf(d) = 1 .. (NextNumber(d) - 1)
  <2> TAKE d \in documents
  <2>1. NextNumber(d) = 2 /\ NextNumber(d) - 1 = 1
    BY <1>6
  <2>2. NumbersOf(d) = 1 .. (NextNumber(d) - 1)
    BY <1>4, <2>1
  <2> QED
    BY <2>1, <2>2
<1>10. NumberInv
  BY <1>7, <1>8, <1>9 DEF NumberInv
<1> QED
  BY <1>1, <1>2, <1>3, <1>10 DEF IInv

\* Every step keeps it.
LEMMA Inductive == IInv /\ [Next]_vars => IInv'
BY TypeStep, HandlerStep, RowStep, LockStep, NumberStep DEF IInv

\* The five parts together are inductive.
LEMMA Invariance == Spec => []IInv
BY Initially, Inductive, PTL DEF Spec

\* Every reachable state is well typed.
THEOREM Typing == Spec => []TypeOK
<1>1. IInv => TypeOK
  BY DEF IInv
<1> QED
  BY <1>1, Invariance, PTL

\* Whatever requests race and whatever faults strike, the versions of every
\* document are numbered 1..n, each once.
THEOREM Numbering == Spec => []VersionsNumbered
<1>1. IInv => VersionsNumbered
  BY DEF IInv, NumberInv, RowInv, VersionsNumbered
<1> QED
  BY <1>1, Invariance, PTL

\* No INSERT meets a duplicate number or a missing parent row.
THEOREM NoConflict == Spec => []NeverConflicts
<1>1. IInv => NeverConflicts
  <2> SUFFICES ASSUME IInv, NEW r \in Requests, pc[r] = "Committing", Conflicts(r)
               PROVE  FALSE
    BY DEF NeverConflicts
  <2> USE DEF IInv
  <2>1. CASE op[r] = "addVersion"
    <3> DEFINE d == target[r]
    <3>1. d \in documents
      <4>1. HoldsDocument(r, d) /\ d \in Requests
        BY <2>1 DEF HoldsDocument, TypeOK
      <4> QED
        BY <4>1 DEF LockInv
    <3>2. number[r] = NextNumber(d) /\ NextNumber(d) \in Nat
          /\ NumbersOf(d) = 1 .. (NextNumber(d) - 1)
      BY <2>1, <3>1 DEF NumberInv
    <3> QED
      BY <2>1, <3>1, <3>2 DEF Conflicts, Readers
  <2>2. CASE op[r] \in Readers
    BY <2>2 DEF Readers, LockInv, HoldsVersion, TypeOK, Conflicts
  <2> QED
    BY <2>1, <2>2 DEF Conflicts
<1> QED
  BY <1>1, Invariance, PTL
==============================================================================
