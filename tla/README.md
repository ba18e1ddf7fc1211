# CVMatcher in TLA+

A formal model of the CVMatcher API (`services/api/app`): FastAPI handlers that
interleave over one PostgreSQL database, a private directory of uploaded files,
short-lived parser processes, and the limits and sessions that stand before
them. TLC checks the modules on small instances; TLAPS proves the main facts for
every value of the constants. `PROJECT.json` lists the runs, the source lines
behind each definition, the hazards, the findings and the theorems.

## 1. The system

| Component | State | Operations | Hard behaviour |
|---|---|---|---|
| CV documents (`services/cv_documents.py`) | rows of documents and numbered versions | create, add version, delete, list, get | rows and files change together without a common transaction |
| Private object store (`services/object_storage.py`) | staged files, objects | stage, commit (move + chmod), read, delete, discard | each call can fail half way; crash between file and row |
| CV extraction (`services/cv_extraction.py`) | one extraction row per version, a child process and its pipe | extract, read status | row locks held for seconds, deadlock with deletion, poll/exit races, kill grace periods |
| Roles and requirements (`services/job_targets.py`, `job_requirements.py`) | rows | create, update, delete, list | check then insert, cascades, keyset pages over a mutable key |
| Match analyses (`services/match_analyses.py`) | immutable result rows, unique per version, role, scoring version and fingerprint | create or reuse, history | two locks in order, unlocked read of requirements |
| Action plans (`services/analysis_actions.py`) | actions with a status | generate, update status, list | repetition, deletion of what an action refers to |
| Scoring (`services/deterministic_scoring*.py`) | none (pure) | score | rounding, duplicates, zero, two normalisations of one word |
| Authentication (`services/authentication.py`, `api/auth.py`) | users, sessions, CSRF digest; the cookies of a browser | register, log in, bootstrap, log out | registration race, concurrent token rotation, a reply that overtakes its COMMIT |
| Audit events (`services/audit_events.py`) | event rows | record, record committed | a second transaction and connection within a request |
| Transactions (`api/dependencies.py`, `db/session.py`) | pool | begin, commit at teardown | pool limit, commit after the response |
| Rate and body limits (`core/rate_limit.py`, `core/request_limits.py`) | a bucket of times per client and policy; bytes received | admit or refuse | window boundary, rounded seconds, bodies in pieces |
| Web client (`apps/web`) | what a page shows | fetch, upload, delete | answers that arrive late |

Components interact in three ways. Handlers call services in their own
transaction. Transactions of different requests meet in row locks (`FOR UPDATE`,
the `FOR KEY SHARE` of a foreign key check, cascading `DELETE`s), in unique keys
and in the connection pool. Uploads and deletions also touch files, which no
rollback restores. What makes each component correct is in the properties below;
the hazards, each at its line, are in `PROJECT.json`.

## 2. The modules

| Module | Models | A step is |
|---|---|---|
| `CvLifecycle` | upload, new version, deletion, extraction and what an analysis locks, with row locks, files and failures | one statement or file operation |
| `DocumentStore` | what `CvLifecycle` promises: a history of versions per document, changed atomically | one committed request |
| `AnalysisPlan` | roles, requirements, analyses and action plans | one statement |
| `Pages` | the three paged lists, while rows are added, moved and removed | one page, or one change |
| `ScoringV2`, `ScoringV3`, `Rounding` | the two scorers | an edit of the CV, the role or a requirement |
| `ExtractionWorker` | the thread, the child process, its pipe and its signals | one call or process event |
| `ExtractedText` | `join_bounded_text`, quality and readiness | one iteration of the loop |
| `Authentication` | browsers with tabs, accounts, sessions, CSRF tokens, audit events, the pool | one statement, or a message to or from a browser |
| `RateLimiter` | middleware, service and in-memory backend | one request, or a tick of the clock |
| `RequestBody` | `RequestBodyLimitMiddleware` | one message of a body |
| `MC*` | instances for TLC | |
| `CvLifecycleProofs`, `CvFilesProofs`, `CvStoreProofs`, `AnalysisPlanProofs`, `AuthenticationProofs`, `GatewayProofs`, `AnalysisProofs` | theorems | |
| `DataLemmas` | lemmas about numbers, finite sets, sums, sequences and rounding | |

Each operator that a mutant of `PROJECT.json` uses stands right before the
definition it changes and is marked "Variant"; no specification uses it.

### CvLifecycle

A request is a process that runs once. `op`, `session` and `target` say what it
asks for; `pc` where its handler is; `number`, `keys` and `parsed` are the
handler's local variables; `outcome` and `fault` its answer. The ids a request
mints are the request itself, so `documents`, `versions`, `objects` and
`staging` are sets of requests. These hold *committed* rows: under READ
COMMITTED that is what another transaction sees. What a transaction has written
is in its local fields until `Commit`.

| Code | Actions |
|---|---|
| authentication, CSRF, `stage_upload` | `ArriveUpload`, `ArriveDelete`, `ArriveReader`, `RejectUpload` |
| first statement of a handler | `Begin` |
| `SELECT ... FOR UPDATE` | `LockDocument`, `DocumentGone`, `LockVersion`, `LockDocumentOfVersion`, `VersionGone` |
| `commit_staged` | `CommitStaged`, `CommitStagedFails` |
| `commit()`, `refresh()`, the `except` branch | `Commit`, `CommitFails`, `CommitUnacknowledged`, `Refresh`, `RefreshFails`, `Compensate`, `CompensateFails` |
| `delete_document` | `UnlinkObject`, `UnlinkFails`, `DeleteRows` |
| `extract_owned_version` | `UseVersion`, `ReadObject`, `ObjectMissing`, `Parse` |
| `create_or_get` of an analysis | `UseVersion`, `AnalyseVersion` |
| the database | `DeadlockVictim`; `Abort` and `Crash` from the environment |

Two facts of the code shape the model. `resolve_authenticated_session` writes
`last_seen_at`, and the first autoflush sends that UPDATE, so from `Begin` to the
end of its transaction a request holds the row of its session: requests of one
session are serialised (`SessionFree`), and races need a user with two sessions.
And extractions and analyses (`Readers`) lock the version and then its document
while a deletion holds the document when its cascade needs the version: the two can
deadlock, and PostgreSQL then aborts one of them.

The outcome `"ok"` is the COMMIT that took effect. For deletions, extractions and
analyses it runs in the dependency's teardown, which the reply may precede: when the
client is answered is `Authentication`'s subject, and no property here is about it.

`Faults` is the set of failures the environment may inject, so that a property
can be checked with and without each. A retry is another request.

### AnalysisPlan

The same form, for one user. Roles, requirements, analyses are named by the
request that inserted them and an action is the pair of the generation that
inserted it and the requirement it was made of. A requirement's text is reduced
to what the scorer and the plan tell apart: not reviewed, matched, or missing;
skills are distinct. The v3 fingerprint is the set of all requirements of the
role with what they say (the hash is taken as injective), v2's is empty. Which row locks
a request holds follows from its operation and step (`Holds...`, `Shares...`), but for
statements that lock many rows, the cascades of a deletion and the foreign key checks of
a plan: `RowsToTake` says which rows these are, `TakeRow` locks one of them, in an order
nobody chooses, `taken` is what the statement has so far, and it ends with all of them
(`TookRows`). `Blocks` says which holder keeps which statement waiting. Requests are
those of different sessions.

| Code | Actions |
|---|---|
| `create_target`, `create_requirement` | `CreateTarget`, `CheckTarget`, `InsertRequirement` |
| `update_requirement`, `delete_requirement` (SET NULL) | `LockRequirement`, `UnlinkActions` |
| `delete_target`, `delete_document` and their cascades | `LockTarget`, `LockDocument`, `CascadeVersion`, `CascadeAnalyses`, `CascadeActions`, `CascadeRequirements` |
| `create_or_get` | `LockVersion`, `LockDocument`, `LockTarget`, `TextNotReady`, `ReadRequirements` |
| `generate_for_analysis`, `update_status` | `LockAnalysis`, `InsertActions`, `FindAction`, `UpdateAction` |
| the database | `TakeRow`, `Commit`, `CommitFails`, `DeadlockVictim`, `Abort` |

A version stands for its document where rows are added or deleted (documents of
several versions are `CvLifecycle`'s), but the two rows are locked apart and in the
order of the code: `create_or_get` takes the version first, the deletion the document.
Cascades follow the order in which the foreign keys were created: analyses of a role
before its requirements.

### Pages

The history of analyses, the actions of an analysis and the requirements of a
role use one scheme: the client names the last row it has, the service looks up
where that row is *now*, and the page holds the rows after that place. `place`
is a row's sort key without the id (`created_at`, `position`, `priority`);
`Add`, `Delete` and `Move` are the requests of others, of which only
requirements have the last. `from` is the cursor's place as it was read.
`listed`, `settled`, `moved` and `shifted` are history variables that say what
the walk must have delivered: a row whose priority changes while the client
holds it as its cursor (`shifted`) moves the whole walk, and the property
claims nothing then. Places are bounded by the set `Places`, moves by `MaxMoves`.

### ScoringV2, ScoringV3 and Rounding

The scorers are pure; the variables are their inputs, and steps are edits, so
that a property can compare a report with the one before. `ScoringV3` keeps
requirements with category, priority, review and skill. What each side makes of
a name is a table, `SkillOf` for `normalize_skill` and `TermsOf` for
`normalized_terms`, filled in from the two functions for names of each kind: a
plain word, an alias of the CV's side, two words, and nothing. `ScoringV2` has
the words of the vocabularies, the years and the signals that the regular
expressions find as its inputs. `Rounding` gives the results that Python's
`round()` may give: an exact tie of a quotient may go either way, because the
quotient is a floating point number near the tie, while an overall score that
is a multiple of a hundredth goes to the even neighbour.

### ExtractionWorker and ExtractedText

`ExtractionWorker` is one `Parse` step of `CvLifecycle` in detail. Its answer
`"text"` is `"succeeded"`; `"valueError"`, which `extract_owned_version` does not
catch, is `Abort`; any other is `"failed"`. Short results fit the pipe, long ones
block the child until the parent reads. `Expire` is the passing of the deadline,
which is looked at between polls only. `ExtractedText` is the loop that joins the
parts, with the limits as constants; `Whole` is the reference definition it is
compared with.

### Authentication

Each tab of a browser does what the web client does for a change: it asks for a
CSRF token (request `<<t, "boot">>`) and sends the change with that token in a
header (request `<<t, "act">>`), a registration, a log-in, a log-out or any
other change of a signed-in user. Tabs of one browser share its cookies (`jar`);
a request keeps the cookies it was sent with (`cookies`). A session is named by
the tab that opens it, a token by the request that issued it; token digests are
taken as injective. Rows are the committed ones, as in `CvLifecycle`. An audit
event is kept with the tab that caused it, so two log-outs that race for one session
are two events.

| Code | Actions |
|---|---|
| `getCsrfToken` and the change that follows | `Open`, `Submit` |
| Set-Cookie of a reply; a reply that is lost | `Receive`, `Lose` |
| `csrf_bootstrap`, `require_csrf_token`, `resolve_authenticated_session`, `revoke_session` | `WithoutSession`, `Resolve`, `UpdateSession` |
| `register_user`, `authenticate_user`, `issue_session` | `RefuseToken`, `SelectAccount`, `InsertAccount` |
| `record_committed_audit_event` | `TakeSecondConnection`, `RecordFailure` |
| teardown of `get_database_session` | `Commit`, `CommitFails` |
| the pool, the database, the clock | `PoolTimeout`, `Abort`, `Expire`, `ExpireCookie` |

`repliesFirst` is a property of the build. The dependency commits in its
teardown; FastAPI before 0.118 runs the teardown before it sends the reply, later
versions after. `pyproject.toml` allows `>=0.115,<1`, so both are behaviours of
this program, and a property that holds only for one says so (`Overtaken`).

A failed log-in is recorded over a second connection while the request still
holds its own: `Connections` counts both, and `PoolTimeout` is what ends the wait
when all connections are held by requests that wait for another one.

### RateLimiter and RequestBody

Time is counted in ticks, of which a second has several, because limits are in
whole seconds and requests come in between: `SecondsUntil` rounds up. The backend
does its work under one lock without waiting, so a request is one step. `told`
keeps the last answer; of several refusals the earliest announced reset, since a
client may act on any. A backend failure (`Unavailable`) answers 503 or, when the
limiter fails open, lets the request pass and announces a budget nobody has
looked at, about which `AnswersHonoured` says nothing. The clock stops at
`Horizon`. In `RequestBody` a body arrives in messages of any of the `Sizes`, with any
declared length or none.

## 3. What the runs check

| Run | Bounds | Shows |
|---|---|---|
| `cv_races` | a stored document, three requests, three sessions; crash, lost acknowledgement | the committed rows implement `DocumentStore`; numbers contiguous and unique; constraints never hit; a succeeded extraction is kept; bytes stay while they are read; deadlocks need two sessions |
| `cv_faults` | three requests, two sessions, every fault | each stray object, staged file or version without bytes has a named cause; a committed deletion leaves no row, no text and, but for those causes, no object |
| `cv_liveness` | as `cv_races` with two sessions and no fault, fairness, no symmetry | each accepted request is answered |
| `cv_lost_bytes` | two requests, two sessions, no fault | **violated**: a deletion aborted by the deadlock detector, against an extraction or an analysis, has already unlinked the objects |
| `plan_races` | a role, a requirement and its analysis; three requests of any kind; two CV versions | no row without its parent; one action per gap; no unique constraint met; a reused analysis is still there; generations are rejected only after a requirement was deleted; transactions wait for each other only in the pairs of `KnownDeadlocks` |
| `plan_repeat` | the plan as well; two requests | **violated**: after a requirement was deleted, repeating a generation fails on a foreign key |
| `auth` | two tabs in one browser or in two, a known and a new address, a session that may expire, a pool of two, both builds | accounts, sessions, tokens, cookies and audit events agree; refusals are explained; a log-out is final; every tab gets an answer |
| `auth_lockout` | the same | **violated**: a browser with the cookie of an ended session gets no CSRF token |
| `components` | two clients, a window of two seconds of two ticks, a horizon of two windows and a tick; bodies of messages of 0 to 6 against limits 2 and 5; two parser calls; up to four parts of up to two characters, limit 5, recommended 3; three requirements; two degrees, three numbers of years; three rows in two places with pages of one | the window slides; refusals are earned; announced budgets and resets are kept; never more bytes than the limit; workers end or are killed; the text is the cut of the whole; scores and gaps tell the same; more evidence never costs; each row is listed once |
| `fixed_window` | the limiter of `components` alone | **violated**: at the announced reset an earlier request still counts |
| `zero_years` | as `components`, v2 alone | **violated**: a requirement of zero years divides by zero |
| `skill_spelling` | as `components`, v3 alone, with the name `C#` | **violated**: the report says it was not found |

`components` puts parts side by side that share no state; a
behaviour is about one of them, its `subject`, so the state space is the sum and
not the product. The liveness property of the worker is stated under the
fairness of the worker alone.

The bounds. Every property of `CvLifecycle` is about at most two requests and
the upload they work on, or about three where a third may come between: three
live requests beside a stored document reach each pair of operations on the same
rows with a third in between. Two sessions are what the deadlock needs, three let
all requests overlap. In `AnalysisPlan` the longest known interaction (generate,
delete a requirement, generate again) takes three requests, of which `plan_repeat`
has the first done. Within these bounds TLC reaches the deadlocks of an analysis with
the deletion of its document, of a role's deletion with that of one of its requirements,
and of a role's deletion with that of a document; the fourth pair that `KnownDeadlocks`
allows, the deletions of a document and of a requirement, needs an analysis of two
actions and so five requests, and only the proof is about it. In `Authentication`
two tabs give each pair of operations in each order, in one browser and in two; a pool
of two is the smallest in which a failed log-in can be recorded, and two log-ins exhaust
it. The limiter needs a limit of two, so that one request can be old when the other is
not, a window that a request can straddle and a tick that is no whole second. Three rows and pages of one give a walk a first page, a cursor in the
middle and an end; two places give rows that tie. In `ExtractedText` a limit of five
falls before, within and after a part and on a separator. In `ScoringV3` three
requirements give two rivals for a skill and a third of another.

Symmetry is used where requests that have not arrived or sessions are
interchangeable, and not in the runs that check liveness. No counter is unbounded:
requests run once, and clock, moves and body sizes are bounded by the constants named
above. The `CHECK_DEADLOCK FALSE` of each configuration is because requests run once
and the system then really stops.

Fairness. `CvLifecycle` assumes weak fairness of each request's own steps: the
event loop and the database run every handler that can move, and PostgreSQL
resolves a cycle of waiters. `Authentication` assumes the same of handlers, which
includes the pool's timeout, that a reply arrives or is lost, and that the client
goes on once it has its token, as its code does. `ExtractionWorker` assumes that
the thread runs, that time passes and that a signalled process dies in the end;
nothing is assumed of the parser. No fairness is assumed of users, of failures or of
crashes.

## 4. What is proved

Proofs hold for every value of the constants that satisfies the assumptions stated in
the modules (a finite set of requests, since `1..n` needs a maximum, a lock holder
that is no request; four different requests that may have run before; limits that are
numbers; rows and requirements that have numbers and are finitely many; for v2, at most
200 words in its vocabulary, of which the source has 35).

**`CvLifecycle`**: every safety property of its runs, and the refinement.
`VersionsNumbered` is not inductive: an upload that has computed its number adds it
later. `IInv` (`CvLifecycleProofs`) adds what makes it so: `LockInv`, a row is locked by
a request exactly when the request's step says so, and then exists; `HandlerInv`, which
steps belong to which operation; `RowInv`, rows come from uploads that have stored their
object; `NumberInv`, the number an upload carries is still the next of its document.
`Initially`, `Inductive` and `Invariance` are the three facts; below them there is one
lemma per part with one step per action, `QuietStep` for the actions that change no row
and no lock and `NumbersKept` for the documents an action leaves alone.
`CvFilesProofs` extends it to files: `FilesInv` says when an object or a staged file may
exist, at which steps the key list of a deletion is still the list of the document's
versions (`KeysInv`), and which faults an outcome may have. From it follow
`ObjectsExplained`, `StagedExplained`, `LossesExplained`, `BytesHeld`, `Erasure` (with
`TextInv`, an extracted text has its version, and `ObjectsErased`, what the key list
missed was never committed),
`ResultsKept` (with `ResultInv`, a stored result is final under the version's lock) and
`OneSessionNoDeadlock` (with `SessionInv`, at most one request holds a session's row).
`CvStoreProofs` proves `Refinement`: `Listing`, the sequence of a document's versions by
number, is the history of `DocumentStore`; `ListsOnce` shows that numbering determines
it, `CommitsOnly` that rows change in COMMIT only, `HistoryKept` that documents which a
COMMIT does not touch keep theirs, and `CreateStep`, `AppendStep`, `DeleteStep`,
`ExtractStep` map each kind of COMMIT to one operation.

**`AnalysisPlan`** (`AnalysisPlanProofs`): every safety property of its runs. None is
inductive alone, since locks are derived from steps and rows from requests. `PlanInv`
adds `StepInv`, which steps belong to which operation and that ids were inserted by
requests that are done, so that no id of a request in flight is in anyone's hands;
`LockInv`, what one request holds no other holds (`Apart`); `HeldInv`, what is locked is
there; `ReadInv`, what was read under a lock is so still: a new analysis has a key of its
own, a plan covers every gap of its analysis. `LocalKeeps` reduces a step without COMMIT
to its own request and `GrantedApart` its locks to what `Blocks` lets pass. For COMMIT,
`RowsAdded` and `RowsRemoved` say what happens to the tables, `RemovedHeld` that removed
rows were locked, and one lemma per part of the invariant draws the consequence for the
others. `Deadlocks`
goes over the pairs of operations: `KnownCycles` lists what each waits for
and what it holds meanwhile, row by row (`TookInv`), and finds the cycle only in the named
pairs. Both the property and the theorem are about two transactions; longer cycles are
not excluded, and `DeadlockVictim` breaks cycles of two.

**`Authentication`** (`AuthenticationProofs`): all safety properties. `AuthInv` ties
replies to handlers (`ReplyInv`), steps to operations (`StepInv`), connections to
holders, which are finitely many even if tabs are not (`PoolInv`), a registration in
COMMIT to an address nobody else has (`AccountInv`, the unique key) and each announced
session to its row (`IssueInv`). `RowsOnly` leaves COMMIT and the recorded failure as the
only steps that `AuditExact` depends on. `OwnerInv`, that a session's cookie never leaves the
browser it was set in, and `CsrfInv`, what a tab finds that is alone in its browser, are
what `CsrfRefusals` needs: `HandlerStep` is the little that a step of another browser
does to tokens.

**`RateLimiter`** (`GatewayProofs`): the bucket is the part of the log that lies in
the window (`KInv`); from this the sliding window, earned refusals and kept
announcements. **`RequestBody`** (`GatewayProofs`): the limit.

`AnalysisProofs` holds what is proved of the modules an analysis is made of, on
`DataLemmas`.

**`Pages`**: each settled row once; the invariant says that what was handed out lies
before the cursor and what is still to come after it, unless `shifted`.
**`ExtractionWorker`**: no survivor without SIGKILL.

**`ExtractedText`**: `TextInv` says that the text is the cut of `Whole[read]`, that the
room left is the limit less the text's length, and that the loop ends only without parts
or without room. One part more is one equation of `Whole` (`WholeAppend`) and the fact
that cutting twice is cutting once (`CutAcross`, `Appended`); the end before the last
part needs that `Whole` only grows and a full text stays what it is (`WholeGrows`,
`FullCut`). A recursive function is a `CHOOSE` to the provers: `WholeDefined` proves that
a function with the equation of `Whole` exists, from approximations up to every length
that agree (`WholeUpToAny`, `WholeUpToSame`).

**`ScoringV3`**: `Total` is a fold with a `CHOOSE` of its order. `TotalIsSum` shows that it
is a sum, so that sums of disjoint sets add up and more matches weigh more
(`Weighing`, `MoreFound`); `Outranks` has exactly one maximum among the requirements
of a skill (`OneOutranks`, `OutranksOneWay`), which is why each is told once
(`SkillsToldOnce`); `ScoresWeigh` and `PercentsGrow` are the rounding. `V3Type` is all the
invariant this takes: the report is a function of the state.

**`ScoringV2`**: one lemma per component says that its score is 100 exactly without a gap
(`ShareTells`, `VocabularyTells`, `ExperienceTells`, `EducationTells`, `AtsTells`);
`ScoresTell` that the weighted mean, rounded once more, stays between the least and the
best. The proof found a condition that no run had shown: with more than 200 words asked
for, one that is missing is rounded away and a component with a gap is 100. The source has
25 skills and 10 other keywords, hence `VocabularyAssumption`.

**`DataLemmas`**: the library states induction for an operator as parameter, which the
provers cannot instantiate. The module takes it from well-foundedness of the numbers
below, applied to the set of counterexamples (`WFMin`, `Least`, `Induction`); finite sets
follow by their size (`Sizes`, `PartsOf`, `Greatest`). A sum is what a function with the
sum's equation gives (`Accumulates`); such functions exist for every finite set
(`SumsExist`), all give the same in whatever order they add (`SumsUnique`), and the
fold of the community modules is one (`FoldsExist`, `FoldIsSum`). `Percents` is half-even
division: it is in range, monotone, and conceals half a percent at most
(`PercentsNear`, `PercentsGrow`, `FullConceals`, `ZeroConceals`).

Each invariant was checked by TLC on the instances of the runs before it was proved.
Checked by TLC only: the three liveness properties (`RequestsAnswered`, `TabsAnswered`,
`CallsEnd`), since liveness under fairness is out of the prover's reach. Every other
property of the passing runs is a theorem.

## 5. Findings

Six places where the program does not do what its documentation says; the runs marked
**violated** show each, and `PROJECT.json` quotes the sentence. None needs a failure:

* the deletion of a document and an extraction or an analysis of its version, from two
  sessions, deadlock, and when the deletion is the victim the version stays without its
  bytes;
* after a requirement was deleted, the generation of a plan answers 500 for ever;
* a browser with the cookie of a session that has ended gets no CSRF token and so can
  neither log in nor register until the cookie expires;
* a role that asks for zero years makes the v2 analysis fail;
* a requirement named `C#`, `Next.js` or with two words is reported as not found in a CV
  that names it;
* the rate limiter slides where the report on it speaks of a fixed window: at the
  announced reset a part of the budget is back, not the whole.

Modelled behaviours that no sentence of the repository contradicts, and a reader should
know of: a `refresh()` that fails after COMMIT makes the handler delete the object of a
committed version (`MissingObjectsExplained` names it); a chmod that fails after the move,
and a rollback that raises before the compensation (`CompensateFails`), leave an object
without a row (`ObjectsAccountedFor`); a status update that races a
deletion ends in an internal error; a result that the child writes between `poll()` and
`is_alive()` is dropped and the call answers that there was none (`Poll`, `CheckAlive`);
a walk through requirements may skip or repeat rows when its cursor's row changes its
priority (`shifted`).

## 6. What is not modelled

The read-only routes for a single row, which change nothing; the checks of names,
signatures and archives of an upload (one rejection); regular expressions and hashing,
whose results are inputs; schemas, configuration, logging and health; migrations and the
repository's scripts, which run alone. Data of other users: every query filters by
owner, so the models have one owner, and `Authentication` several accounts without data.
Of the web client only what a browser sends and keeps is modelled, not what a page shows
when answers arrive late. Deadlocks of three or more transactions in `AnalysisPlan`. The growth of the limiter's dictionary is plain from its code, which never removes
a key.

## 7. Plan for what is left

1. An abstract plan store for `AnalysisPlan`, as `DocumentStore` is for `CvLifecycle`.
2. `Workspace`: answers that reach a page of the web client late.
