----------------------------- MODULE CvLifecycle -----------------------------
(***************************************************************************)
(* The life of CV documents: upload, new version, deletion, text           *)
(* extraction and analysis, as requests that interleave over one           *)
(* PostgreSQL database (READ COMMITTED, row locks) and one private object  *)
(* store.  Of an analysis there are the locks it takes here; its own rows, *)
(* roles and locks are in AnalysisPlan.                                    *)
(*                                                                         *)
(* A request is a process that runs once.  Every uuid4 it mints (the id of *)
(* the document it creates, the id of the version it adds, the key of the  *)
(* object it stores) is named by the request itself: it mints at most one  *)
(* of each.  So documents, versions, objects and staging are sets of       *)
(* requests; the row of version v has document target[v], number number[v] *)
(* and private_object_key v.                                               *)
(*                                                                         *)
(* A row is in documents/versions/extraction once COMMITTED: what a        *)
(* transaction has written and not committed is in its request's own       *)
(* fields, which is what READ COMMITTED shows the others.  The outcome "ok" *)
(* is a COMMIT that took effect.  For a deletion or an extraction it is the *)
(* one of the session dependency's teardown: whether the client has its    *)
(* answer by then depends on the framework's version and is Authentication's. *)
(***************************************************************************)
EXTENDS Integers, FiniteSets

CONSTANTS
    Requests,   \* the requests of a behaviour
    Seeded,     \* uploads that had succeeded before it starts
    Sessions,   \* the signed-in sessions (user_sessions rows) they come from
    Faults,     \* the failures the environment injects, see FaultKinds
    NoRequest   \* "no holder" of a row lock

FaultKinds ==
    { "abort",    \* a statement or the parser raises before the commit
      "replace",  \* os.replace raises in commit_staged
      "chmod",    \* os.replace succeeds and chmod raises
      "unlink",   \* removing an object raises
      "rollback", \* the rollback before a compensation raises
      "commit",   \* COMMIT fails and is rolled back
      "ack",      \* COMMIT succeeds and its acknowledgement is lost
      "refresh",  \* reading the row back after COMMIT raises
      "crash" }   \* the API process dies, or the request is cancelled

ASSUME RequestsAssumption == IsFiniteSet(Requests) /\ Seeded \subseteq Requests
ASSUME NoRequestAssumption == NoRequest \notin Requests
ASSUME FaultsAssumption == Faults \subseteq FaultKinds

VARIABLES
    documents, versions, extraction,   \* committed rows
    objects, staging,                  \* files of the private object store
    documentLock, versionLock,         \* holder of each row's FOR UPDATE lock
    op, session, target,               \* what each request asks for
    pc,                                \* where its handler is
    number,                            \* version_number it computed
    keys,                              \* object keys it has still to remove
    parsed,                            \* extraction status it will write
    outcome, fault                     \* its answer, and the failure it met

database == <<documents, versions, extraction>>
files == <<objects, staging>>
locks == <<documentLock, versionLock>>
ask == <<op, session, target>>
local == <<number, keys, parsed>>
answer == <<outcome, fault>>
vars == <<database, files, locks, ask, pc, local, answer>>

Uploads == {"create", "addVersion"}

\* Those that select a version joined with its document, FOR UPDATE.
Readers == {"extract", "analyse"}

VersionsOf(d) == {v \in versions : target[v] = d}

NumbersOf(d) == {number[v] : v \in VersionsOf(d)}

\* latest_version_number or 0
LatestNumber(d) ==
    CHOOSE m \in {0} \cup NumbersOf(d) : \A k \in NumbersOf(d) : k <= m

\* Variant: max(version_number) without the filter on document_id.
NextNumberAcross(d) == (CHOOSE m \in {number[v] : v \in versions} :
                           \A v \in versions : number[v] <= m) + 1

NextNumber(d) == LatestNumber(d) + 1

\* Variants: every object in the store; the object of the latest version only.
EveryObjectKey(d) == versions
LatestObjectKey(d) == {v \in VersionsOf(d) : number[v] = LatestNumber(d)}

ObjectKeysOf(d) == VersionsOf(d)

(***************************************************************************)
(* resolve_authenticated_session stamps last_seen_at; the UPDATE is sent   *)
(* by the first autoflush, so from Begin to the end of its transaction a   *)
(* request holds the row lock of its session.                              *)
(***************************************************************************)
InTransaction ==
    {"Locking", "LockingDocument", "Storing", "Deleting",
     "Reading", "Parsing", "Analysing", "Committing"}

\* Variant: last_seen_at is not written, so no row lock is taken.
SessionUnlocked(r) == r \in Requests

SessionFree(r) ==
    \A q \in Requests \ {r} : session[q] = session[r] => pc[q] \notin InTransaction

\* r waits for a row lock that q holds.
WaitsFor(r, q) ==
    \/ /\ pc[r] = "Locking" /\ op[r] \in {"addVersion", "delete"}
       /\ documentLock[target[r]] = q
    \/ /\ pc[r] = "Locking" /\ op[r] \in Readers
       /\ versionLock[target[r]] = q
    \/ /\ pc[r] = "LockingDocument"
       /\ documentLock[target[target[r]]] = q
    \/ /\ pc[r] = "Deleting" /\ keys[r] = {}
       /\ \E v \in VersionsOf(target[r]) : versionLock[v] = q

Deadlocked(r) == \E q \in Requests : WaitsFor(r, q) /\ WaitsFor(q, r)

-----------------------------------------------------------------------------

Goto(r, step) == pc' = [pc EXCEPT ![r] = step]

\* Variant: a transaction's end forgets the document row lock.
ReleaseVersionOnly(r) ==
    /\ versionLock' = [v \in Requests |->
            IF versionLock[v] = r THEN NoRequest ELSE versionLock[v]]
    /\ UNCHANGED documentLock

Release(r) ==
    /\ documentLock' = [d \in Requests |->
            IF documentLock[d] = r THEN NoRequest ELSE documentLock[d]]
    /\ versionLock' = [v \in Requests |->
            IF versionLock[v] = r THEN NoRequest ELSE versionLock[v]]

\* The handler returns or raises; its transaction, if any, is over.
Finish(r, answered, because) ==
    /\ Goto(r, "Done")
    /\ outcome' = [outcome EXCEPT ![r] = answered]
    /\ fault' = [fault EXCEPT ![r] = because]
    /\ Release(r)

\* Variant: the handler does not discard its staged file.
FailKeepingStaged(r, because) == Finish(r, "failed", because) /\ UNCHANGED staging

\* An exception leaves the handler: rollback, and the staged file is discarded.
Fail(r, because) ==
    /\ Finish(r, "failed", because)
    /\ staging' = staging \ {r}

NotFound(r) ==
    /\ Finish(r, "notFound", "none")
    /\ staging' = staging \ {r}
    /\ UNCHANGED <<database, objects, ask, local>>

Init ==
    /\ documents = Seeded
    /\ versions = Seeded
    /\ extraction = [v \in Requests |-> "none"]
    /\ objects = Seeded
    /\ staging = {}
    /\ documentLock = [d \in Requests |-> NoRequest]
    /\ versionLock = [v \in Requests |-> NoRequest]
    /\ op = [r \in Requests |-> IF r \in Seeded THEN "create" ELSE "none"]
    /\ session \in [Requests -> Sessions]
    /\ target = [r \in Requests |-> r]
    /\ pc = [r \in Requests |-> IF r \in Seeded THEN "Done" ELSE "Idle"]
    /\ number = [r \in Requests |-> IF r \in Seeded THEN 1 ELSE 0]
    /\ keys = [r \in Requests |-> {}]
    /\ parsed = [r \in Requests |-> "none"]
    /\ outcome = [r \in Requests |-> IF r \in Seeded THEN "ok" ELSE "none"]
    /\ fault = [r \in Requests |-> "none"]

-----------------------------------------------------------------------------
(* Arrival: authentication, the CSRF check, and for an upload the temporary *)
(* file that stage_upload writes.                                           *)

Arrive(r, kind, id) ==
    /\ pc[r] = "Idle"
    /\ op' = [op EXCEPT ![r] = kind]
    /\ target' = [target EXCEPT ![r] = id]
    /\ Goto(r, "Accepted")
    /\ UNCHANGED <<database, objects, locks, session, local, answer>>

\* A client names an id it has been shown; the row may be gone when it is read.
ArriveUpload(r) ==
    /\ \/ Arrive(r, "create", r)
       \/ \E d \in documents : Arrive(r, "addVersion", d)
    /\ staging' = staging \cup {r}

ArriveDelete(r) ==
    /\ \E d \in documents : Arrive(r, "delete", d)
    /\ UNCHANGED staging

ArriveReader(r) ==
    /\ \E v \in versions, kind \in Readers : Arrive(r, kind, v)
    /\ UNCHANGED staging

\* Too large, empty, or not a PDF or DOCX: stage_upload removes the file.
RejectUpload(r) ==
    /\ pc[r] = "Accepted"
    /\ op[r] \in Uploads
    /\ Finish(r, "rejected", "none")
    /\ staging' = staging \ {r}
    /\ UNCHANGED <<database, objects, ask, local>>

\* The first statement of the handler; a create flushes its document row.
Begin(r) ==
    /\ pc[r] = "Accepted"
    /\ SessionFree(r)
    /\ \/ /\ op[r] = "create"
          /\ number' = [number EXCEPT ![r] = 1]
          /\ Goto(r, "Storing")
       \/ /\ op[r] # "create"
          /\ Goto(r, "Locking")
          /\ UNCHANGED number
    /\ UNCHANGED <<database, files, locks, ask, keys, parsed, answer>>

-----------------------------------------------------------------------------
(* Row locks.                                                               *)

\* What the handler reads of the document it has selected.
ReadDocument(r) ==
    LET d == target[r] IN
    \/ /\ op[r] = "addVersion"
       /\ number' = [number EXCEPT ![r] = NextNumber(d)]
       /\ Goto(r, "Storing")
       /\ UNCHANGED keys
    \/ /\ op[r] = "delete"
       /\ keys' = [keys EXCEPT ![r] = ObjectKeysOf(d)]
       /\ Goto(r, "Deleting")
       /\ UNCHANGED number

\* Variant: the document is selected without FOR UPDATE.
SelectDocument(r) ==
    /\ pc[r] = "Locking"
    /\ target[r] \in documents
    /\ ReadDocument(r)
    /\ UNCHANGED <<database, files, locks, ask, parsed, answer>>

\* SELECT cv_documents ... FOR UPDATE, then the read of its versions.
LockDocument(r) ==
    /\ pc[r] = "Locking"
    /\ documentLock[target[r]] = NoRequest
    /\ target[r] \in documents
    /\ documentLock' = [documentLock EXCEPT ![target[r]] = r]
    /\ ReadDocument(r)
    /\ UNCHANGED <<database, files, versionLock, ask, parsed, answer>>

DocumentGone(r) ==
    /\ pc[r] = "Locking"
    /\ op[r] \in {"addVersion", "delete"}
    /\ documentLock[target[r]] = NoRequest
    /\ target[r] \notin documents
    /\ NotFound(r)

\* The join of extract_owned_version, and that of create_or_get, locks the
\* version row, then its document.
LockVersion(r) ==
    LET v == target[r] IN
    /\ pc[r] = "Locking"
    /\ op[r] \in Readers
    /\ versionLock[v] = NoRequest
    /\ v \in versions
    /\ versionLock' = [versionLock EXCEPT ![v] = r]
    /\ Goto(r, "LockingDocument")
    /\ UNCHANGED <<database, files, documentLock, ask, local, answer>>

VersionGone(r) ==
    /\ pc[r] = "Locking"
    /\ op[r] \in Readers
    /\ versionLock[target[r]] = NoRequest
    /\ target[r] \notin versions
    /\ NotFound(r)

\* Variant: a succeeded extraction is processed again.
Process(r) == Goto(r, "Reading") /\ UNCHANGED parsed

\* A succeeded extraction is returned as it is; any other is processed again.
ReuseOrProcess(r) ==
    \/ /\ extraction[target[r]] = "succeeded"
       /\ parsed' = [parsed EXCEPT ![r] = "succeeded"]
       /\ Goto(r, "Committing")
    \/ /\ extraction[target[r]] # "succeeded"
       /\ Goto(r, "Reading")
       /\ UNCHANGED parsed

\* What is done with a version whose rows are locked.
UseVersion(r) ==
    \/ op[r] = "extract" /\ ReuseOrProcess(r)
    \/ op[r] = "analyse" /\ Goto(r, "Analysing") /\ UNCHANGED parsed

\* Variant: FOR UPDATE OF cv_document_versions only.
SkipDocumentOfVersion(r) ==
    /\ pc[r] = "LockingDocument"
    /\ UseVersion(r)
    /\ UNCHANGED <<database, files, locks, ask, number, keys, answer>>

LockDocumentOfVersion(r) ==
    LET d == target[target[r]] IN
    /\ pc[r] = "LockingDocument"
    /\ documentLock[d] = NoRequest
    /\ documentLock' = [documentLock EXCEPT ![d] = r]
    /\ UseVersion(r)
    /\ UNCHANGED <<database, files, versionLock, ask, number, keys, answer>>

\* PostgreSQL's deadlock detector aborts one waiter of a cycle.
DeadlockVictim(r) ==
    /\ Deadlocked(r)
    /\ Fail(r, "deadlock")
    /\ UNCHANGED <<database, objects, ask, local>>

-----------------------------------------------------------------------------
(* Uploads.                                                                 *)

CommitStaged(r) ==
    /\ pc[r] = "Storing"
    /\ staging' = staging \ {r}
    /\ objects' = objects \cup {r}
    /\ Goto(r, "Committing")
    /\ UNCHANGED <<database, locks, ask, local, answer>>

\* OSError in commit_staged: it unlinks the staged path, never the destination.
CommitStagedFails(r) ==
    /\ pc[r] = "Storing"
    /\ \/ "replace" \in Faults /\ Fail(r, "replace") /\ UNCHANGED objects
       \/ "chmod" \in Faults /\ Fail(r, "chmod") /\ objects' = objects \cup {r}
    /\ UNCHANGED <<database, ask, local>>

\* refresh() after COMMIT finds the row, unless a deletion committed meanwhile.
Refresh(r) ==
    /\ pc[r] = "Refreshing"
    /\ r \in versions
    /\ Finish(r, "ok", "none")
    /\ UNCHANGED <<database, files, ask, local>>

RefreshFails(r) ==
    /\ pc[r] = "Refreshing"
    /\ r \notin versions \/ "refresh" \in Faults
    /\ fault' = [fault EXCEPT ![r] = "refresh"]
    /\ Goto(r, "Compensating")
    /\ UNCHANGED <<database, files, locks, ask, local, outcome>>

\* Variant: the object is kept when the commit fails.
CompensateRowsOnly(r) ==
    /\ pc[r] = "Compensating"
    /\ Finish(r, "failed", fault[r])
    /\ UNCHANGED <<database, files, ask, local>>

\* except Exception: rollback, storage.delete(object_key), raise.
Compensate(r) ==
    /\ pc[r] = "Compensating"
    /\ Finish(r, "failed", fault[r])
    /\ objects' = objects \ {r}
    /\ UNCHANGED <<database, staging, ask, local>>

\* The rollback raises before storage.delete is called, or storage.delete does.
CompensateFails(r) ==
    /\ pc[r] = "Compensating"
    /\ \E f \in {"rollback", "unlink"} \cap Faults : Finish(r, "failed", f)
    /\ UNCHANGED <<database, files, ask, local>>

-----------------------------------------------------------------------------
(* Deletion: every object first, then the rows.                             *)

UnlinkObject(r) ==
    /\ pc[r] = "Deleting"
    /\ \E k \in keys[r] :
        /\ objects' = objects \ {k}
        /\ keys' = [keys EXCEPT ![r] = @ \ {k}]
    /\ UNCHANGED <<database, staging, locks, ask, pc, number, parsed, answer>>

UnlinkFails(r) ==
    /\ pc[r] = "Deleting"
    /\ keys[r] # {}
    /\ "unlink" \in Faults
    /\ Fail(r, "unlink")
    /\ UNCHANGED <<database, objects, ask, local>>

\* flush(): DELETE of the document cascades to the rows of its versions.
DeleteRows(r) ==
    LET rows == VersionsOf(target[r]) IN
    /\ pc[r] = "Deleting"
    /\ keys[r] = {}
    /\ \A v \in rows : versionLock[v] = NoRequest
    /\ versionLock' = [v \in Requests |-> IF v \in rows THEN r ELSE versionLock[v]]
    /\ Goto(r, "Committing")
    /\ UNCHANGED <<database, files, documentLock, ask, local, answer>>

-----------------------------------------------------------------------------
(* Extraction.                                                              *)

ReadObject(r) ==
    /\ pc[r] = "Reading"
    /\ target[r] \in objects
    /\ Goto(r, "Parsing")
    /\ UNCHANGED <<database, files, locks, ask, local, answer>>

ObjectMissing(r) ==
    /\ pc[r] = "Reading"
    /\ target[r] \notin objects
    /\ parsed' = [parsed EXCEPT ![r] = "failed"]
    /\ Goto(r, "Committing")
    /\ UNCHANGED <<database, files, locks, ask, number, keys, answer>>

\* Variant: an error of the parser leaves the row at "processing".
ParseKeepsProcessing(r) ==
    /\ pc[r] = "Parsing"
    /\ parsed' = [parsed EXCEPT ![r] = "processing"]
    /\ Goto(r, "Committing")
    /\ UNCHANGED <<database, files, locks, ask, number, keys, answer>>

Parse(r) ==
    /\ pc[r] = "Parsing"
    /\ \E status \in {"failed", "succeeded"} : parsed' = [parsed EXCEPT ![r] = status]
    /\ Goto(r, "Committing")
    /\ UNCHANGED <<database, files, locks, ask, number, keys, answer>>

\* create_or_get answers that the text is not ready, or that there is no such
\* role, unless there is a succeeded extraction that can be analysed.
AnalyseVersion(r) ==
    /\ pc[r] = "Analysing"
    /\ \/ /\ extraction[target[r]] = "succeeded"
          /\ Goto(r, "Committing")
          /\ UNCHANGED <<locks, answer>>
       \/ Finish(r, "rejected", "none")
    /\ UNCHANGED <<database, files, ask, local>>

-----------------------------------------------------------------------------
(* The end of the transaction.                                              *)

\* The unique (document_id, version_number) or a foreign key rejects the INSERT.
Conflicts(r) ==
    \/ /\ op[r] = "addVersion"
       /\ target[r] \notin documents \/ number[r] \in NumbersOf(target[r])
    \/ /\ op[r] \in Readers
       /\ target[r] \notin versions

\* Variant: deleting a document does not cascade.
ApplyWithoutCascade(r) ==
    \/ /\ op[r] \in Uploads
       /\ documents' = documents \cup (IF op[r] = "create" THEN {r} ELSE {})
       /\ versions' = versions \cup {r}
       /\ UNCHANGED extraction
    \/ /\ op[r] = "delete"
       /\ documents' = documents \ {target[r]}
       /\ UNCHANGED <<versions, extraction>>
    \/ /\ op[r] = "extract"
       /\ extraction' = [extraction EXCEPT ![target[r]] = parsed[r]]
       /\ UNCHANGED <<documents, versions>>
    \/ /\ op[r] = "analyse"
       /\ UNCHANGED database

Apply(r) ==
    \/ /\ op[r] = "create"
       /\ documents' = documents \cup {r}
       /\ versions' = versions \cup {r}
       /\ UNCHANGED extraction
    \/ /\ op[r] = "addVersion"
       /\ versions' = versions \cup {r}
       /\ UNCHANGED <<documents, extraction>>
    \/ /\ op[r] = "delete"
       /\ documents' = documents \ {target[r]}
       /\ versions' = versions \ VersionsOf(target[r])
       /\ extraction' = [v \in Requests |->
              IF v \in VersionsOf(target[r]) THEN "none" ELSE extraction[v]]
    \/ /\ op[r] = "extract"
       /\ extraction' = [extraction EXCEPT ![target[r]] = parsed[r]]
       /\ UNCHANGED <<documents, versions>>
    \/ /\ op[r] = "analyse"
       /\ UNCHANGED database

\* An exception at COMMIT: an upload compensates, the others just fail.
CommitRaises(r, because) ==
    \/ /\ op[r] \in Uploads
       /\ Goto(r, "Compensating")
       /\ fault' = [fault EXCEPT ![r] = because]
       /\ Release(r)
       /\ UNCHANGED outcome
    \/ /\ op[r] \notin Uploads
       /\ Finish(r, "failed", because)

Commit(r) ==
    /\ pc[r] = "Committing"
    /\ ~Conflicts(r)
    /\ Apply(r)
    /\ \/ /\ op[r] \in Uploads
          /\ Goto(r, "Refreshing")
          /\ Release(r)
          /\ UNCHANGED answer
       \/ /\ op[r] \notin Uploads
          /\ Finish(r, "ok", "none")
    /\ UNCHANGED <<files, ask, local>>

CommitFails(r) ==
    /\ pc[r] = "Committing"
    /\ Conflicts(r) \/ "commit" \in Faults
    /\ CommitRaises(r, IF Conflicts(r) THEN "conflict" ELSE "commit")
    /\ UNCHANGED <<database, files, ask, local>>

CommitUnacknowledged(r) ==
    /\ pc[r] = "Committing"
    /\ "ack" \in Faults
    /\ ~Conflicts(r)
    /\ Apply(r)
    /\ CommitRaises(r, "ack")
    /\ UNCHANGED <<files, ask, local>>

\* Statement timeout, lost connection, or an uncaught error of the parser.
Abort(r) ==
    /\ "abort" \in Faults
    /\ pc[r] \in {"Accepted", "Locking", "LockingDocument", "Deleting", "Parsing",
                 "Analysing"}
    /\ Fail(r, "abort")
    /\ UNCHANGED <<database, objects, ask, local>>

\* The transaction is rolled back by the server; files stay as they are.
Crash(r) ==
    /\ "crash" \in Faults
    /\ pc[r] \notin {"Idle", "Done"}
    /\ Finish(r, "crashed", "crash")
    /\ UNCHANGED <<database, files, ask, local>>

-----------------------------------------------------------------------------

\* What the handler and the database do on their own.
Step(r) ==
    \/ Begin(r)
    \/ LockDocument(r) \/ DocumentGone(r)
    \/ LockVersion(r) \/ VersionGone(r) \/ LockDocumentOfVersion(r)
    \/ DeadlockVictim(r)
    \/ CommitStaged(r) \/ Refresh(r) \/ RefreshFails(r) \/ Compensate(r)
    \/ UnlinkObject(r) \/ DeleteRows(r)
    \/ ReadObject(r) \/ ObjectMissing(r) \/ Parse(r) \/ AnalyseVersion(r)
    \/ Commit(r) \/ CommitFails(r)

Environment(r) ==
    \/ ArriveUpload(r) \/ ArriveDelete(r) \/ ArriveReader(r) \/ RejectUpload(r)
    \/ CommitStagedFails(r) \/ CompensateFails(r) \/ UnlinkFails(r)
    \/ CommitUnacknowledged(r) \/ Abort(r) \/ Crash(r)

Next == \E r \in Requests : Step(r) \/ Environment(r)

Spec == Init /\ [][Next]_vars

\* The event loop and the database keep running every handler that can move.
FairSpec == Spec /\ \A r \in Requests : WF_vars(Step(r))
-----------------------------------------------------------------------------
(* Properties.                                                              *)

Steps ==
    {"Idle", "Accepted", "Refreshing", "Compensating", "Done"} \cup InTransaction

\* Every variable keeps its type; in particular a request's own steps keep
\* its target, number and keys within the ids of the behaviour.
TypeOK ==
    /\ documents \subseteq Requests
    /\ versions \subseteq Requests
    /\ extraction \in [Requests -> {"none", "failed", "succeeded"}]
    /\ objects \subseteq Requests
    /\ staging \subseteq Requests
    /\ documentLock \in [Requests -> Requests \cup {NoRequest}]
    /\ versionLock \in [Requests -> Requests \cup {NoRequest}]
    /\ op \in [Requests -> Uploads \cup Readers \cup {"none", "delete"}]
    /\ session \in [Requests -> Sessions]
    /\ target \in [Requests -> Requests]
    /\ pc \in [Requests -> Steps]
    /\ number \in [Requests -> Nat]
    /\ keys \in [Requests -> SUBSET Requests]
    /\ parsed \in [Requests -> {"none", "failed", "succeeded"}]
    /\ outcome \in [Requests ->
           {"none", "ok", "notFound", "rejected", "failed", "crashed"}]
    /\ fault \in [Requests -> FaultKinds \cup {"none", "deadlock", "conflict"}]

\* The versions of a document are numbered 1..n, each number once, whatever
\* uploads race: max(version_number) + 1 is computed under the document lock.
\* list_documents and get_document join on the latest number, so a document
\* with a gap or with no version would drop out of them.
VersionsNumbered ==
    /\ \A d \in documents :
           NextNumber(d) > 1 /\ NumbersOf(d) = 1 .. (NextNumber(d) - 1)
    /\ \A v, w \in versions :
           target[v] = target[w] /\ number[v] = number[w] => v = w
    /\ \A v \in versions : target[v] \in documents

\* No INSERT is ever rejected by the unique or foreign key constraints: neither
\* a lost race for a version number nor a vanished parent surfaces as a 500.
NeverConflicts == \A r \in Requests : pc[r] = "Committing" => ~Conflicts(r)

\* A stored object belongs to a committed version, or to an upload that is
\* still between commit_staged and its compensation; nothing else leaves
\* bytes behind but a crash, a chmod error in commit_staged, and a rollback or
\* an unlink that raises.
ObjectsAccountedFor ==
    \A k \in objects \ versions :
        \/ pc[k] \in {"Committing", "Refreshing", "Compensating"}
        \/ fault[k] \in {"crash", "chmod", "rollback", "unlink"}

\* A staged file belongs to an upload in progress, or to one that crashed.
StagingAccountedFor ==
    \A k \in staging :
        \/ op[k] \in Uploads /\ pc[k] \in {"Accepted", "Locking", "Storing"}
        \/ fault[k] = "crash"

\* r unlinked objects of document d, or may have, and did not complete.
DeletionCutShort(r, d) ==
    /\ op[r] = "delete" /\ target[r] = d
    /\ \/ pc[r] \in {"Deleting", "Committing"}
       \/ outcome[r] \in {"failed", "crashed"}

\* A committed version without its bytes is explained by a deletion that
\* unlinked first and did not commit, or by an upload that compensated for
\* an exception raised after its COMMIT had taken effect.
MissingObjectsExplained ==
    \A v \in versions \ objects :
        \/ \E r \in Requests : DeletionCutShort(r, target[v])
        \/ outcome[v] = "failed" /\ fault[v] \in {"ack", "refresh"}

\* The bytes of a committed version go away only with the deletion that will
\* take its row, so "one request transaction boundary" covers rows and objects.
RowsKeepObjects ==
    \A v \in versions \ objects :
        \E r \in Requests : op[r] = "delete" /\ target[r] = target[v] /\ pc[r] # "Done"

\* Once a deletion has committed nothing of the document remains: no row, no
\* extracted text, and no bytes, those of uploads that raced it included, but
\* for the failures that orphan an object.
DeletionErases ==
    \A r \in Requests : op[r] = "delete" /\ outcome[r] = "ok" =>
        /\ target[r] \notin documents /\ VersionsOf(target[r]) = {}
        /\ \A k \in Requests : op[k] \in Uploads /\ target[k] = target[r] =>
               /\ extraction[k] = "none"
               /\ k \in objects =>
                      \/ pc[k] = "Compensating"
                      \/ fault[k] \in {"crash", "chmod", "rollback", "unlink"}

\* A succeeded extraction stays as it is until its version is deleted:
\* a second request, or one that waited for the first, reuses it.
SucceededKept ==
    [][\A v \in versions : extraction[v] = "succeeded" /\ v \in versions'
           => extraction'[v] = "succeeded"]_vars

\* While an extraction works on a version no deletion takes its object away;
\* only the compensation of the upload that stored it can.
BytesHeldWhileExtracting ==
    [][\A r \in Requests :
           pc[r] \in {"Reading", "Parsing"} /\ target[r] \in objects \ objects'
               => pc[target[r]] = "Compensating"]_vars

\* The requests of one session are serialised by its own row: only a user with
\* two sessions at work meets the deadlock of a reader and a deletion, and
\* with it the loss of bytes that needs no failure.
DeadlocksNeedSessions ==
    \A r \in Requests : fault[r] = "deadlock" =>
        \E q \in Requests : session[q] # session[r] /\ pc[q] # "Idle" /\ op[q] # "create"

\* Every request is answered: no lock is held for ever, and the deadlock of an
\* extraction or an analysis with a deletion is always broken.
RequestsAnswered == \A r \in Requests : pc[r] # "Idle" ~> pc[r] = "Done"

(***************************************************************************)
(* The strengthening that makes VersionsNumbered and NeverConflicts        *)
(* inductive: who holds which row lock at each step of a handler, what the *)
(* holder may rely on, and the number an upload has computed under its     *)
(* document lock.                                                          *)
(***************************************************************************)
Stored == {"Refreshing", "Compensating", "Done"}

HoldsDocument(r, d) ==
    \/ /\ op[r] = "addVersion" /\ pc[r] \in {"Storing", "Committing"}
       /\ target[r] = d
    \/ /\ op[r] = "delete" /\ pc[r] \in {"Deleting", "Committing"}
       /\ target[r] = d
    \/ /\ op[r] \in Readers
       /\ pc[r] \in {"Reading", "Parsing", "Analysing", "Committing"}
       /\ target[target[r]] = d

HoldsVersion(r, v) ==
    \/ /\ op[r] \in Readers /\ target[r] = v
       /\ pc[r] \in {"LockingDocument", "Reading", "Parsing", "Analysing", "Committing"}
    \/ /\ op[r] = "delete" /\ pc[r] = "Committing"
       /\ v \in VersionsOf(target[r])

HandlerInv ==
    \A r \in Requests :
        /\ op[r] = "create" => target[r] = r
        /\ op[r] = "none" => pc[r] = "Idle"
        /\ pc[r] \in {"Storing", "Refreshing", "Compensating"} => op[r] \in Uploads
        /\ pc[r] = "LockingDocument" => op[r] \in Readers
        /\ pc[r] \in {"Reading", "Parsing"} => op[r] = "extract"
        /\ pc[r] = "Analysing" => op[r] = "analyse"
        /\ pc[r] = "Deleting" => op[r] = "delete"
        /\ op[r] = "create" => pc[r] # "Locking"

LockInv ==
    \A r, x \in Requests :
        /\ documentLock[x] = r <=> HoldsDocument(r, x)
        /\ versionLock[x] = r <=> HoldsVersion(r, x)
        /\ HoldsDocument(r, x) => x \in documents
        /\ HoldsVersion(r, x) => x \in versions

RowInv ==
    /\ \A v \in versions : op[v] \in Uploads /\ pc[v] \in Stored
    /\ \A d \in documents : op[d] = "create" /\ pc[d] \in Stored
    /\ \A v \in versions : target[v] \in documents

NumberInv ==
    /\ \A d \in documents :
           /\ NextNumber(d) \in Nat
           /\ NextNumber(d) > 1 /\ NumbersOf(d) = 1 .. (NextNumber(d) - 1)
    /\ \A v, w \in versions :
           target[v] = target[w] /\ number[v] = number[w] => v = w
    /\ \A r \in Requests : pc[r] \in {"Storing", "Committing"} =>
           /\ op[r] = "create" => number[r] = 1
           /\ op[r] = "addVersion" => number[r] = NextNumber(target[r])

\* The inductive invariant: every lock is held exactly by the handler whose step
\* says so, the row it guards exists, and the number it protects is still next.
IInv == TypeOK /\ HandlerInv /\ LockInv /\ RowInv /\ NumberInv

\* The rows of one document, oldest version first.
History(d) ==
    IF d \notin documents THEN <<>>
    ELSE [n \in 1 .. Cardinality(VersionsOf(d)) |->
             CHOOSE v \in VersionsOf(d) : number[v] = n]

Store == INSTANCE DocumentStore WITH
    Ids <- Requests,
    history <- [d \in Requests |-> History(d)],
    text <- extraction

\* Seen through its committed rows, the interleaved system is the atomic
\* document store: commits append, delete and extract as one step each.
ImplementsStore == Store!Spec
=============================================================================
