--------------------------- MODULE ExtractionWorker ---------------------------
(***************************************************************************)
(* The child process that parses a stored document for one extraction      *)
(* request, and the worker thread of the API that starts it, polls its     *)
(* pipe until a deadline, and stops it: extract_text_in_child_process.     *)
(* Every call has its own child and pipe; Calls are the calls in progress  *)
(* in the API process.                                                     *)
(*                                                                         *)
(* CvLifecycle's action Parse is one such call seen from the database: the *)
(* answer "text" is its "succeeded", "valueError" is its Abort, and every  *)
(* other answer its "failed".                                              *)
(***************************************************************************)
EXTENDS Integers

CONSTANTS Calls

VARIABLES
    parent,     \* where the thread is
    child,      \* what its process does
    pipe,       \* what the child has written
    signal,     \* the last signal sent to the child
    expired,    \* time.monotonic() has reached the deadline
    answer      \* what the call returns or raises

workerVars == <<parent, child, pipe, signal, expired, answer>>

Alive == {"parsing", "sending", "sent"}

\* What poll() reports as readable: bytes, or the end of file.
Readable(c) == pipe[c] # "empty" \/ child[c] = "dead"

WorkerInit ==
    /\ parent = [c \in Calls |-> "idle"]
    /\ child = [c \in Calls |-> "unborn"]
    /\ pipe = [c \in Calls |-> "empty"]
    /\ signal = [c \in Calls |-> "none"]
    /\ expired = [c \in Calls |-> FALSE]
    /\ answer = [c \in Calls |-> "none"]

Goto(c, step) == parent' = [parent EXCEPT ![c] = step]

\* The try block ends with this answer; finally stops the process.
Leave(c, result) ==
    /\ Goto(c, "stopping")
    /\ answer' = [answer EXCEPT ![c] = result]
    /\ UNCHANGED <<child, pipe, signal, expired>>

-----------------------------------------------------------------------------
(* The child process.                                                       *)

\* A result that fits the pipe's buffer is written at once; the write of a
\* longer one blocks until the parent reads.
Send(c) ==
    /\ child[c] = "parsing"
    /\ \/ \E result \in {"text", "rejected"} :
              /\ pipe' = [pipe EXCEPT ![c] = result]
              /\ child' = [child EXCEPT ![c] = "sent"]
       \/ /\ pipe' = [pipe EXCEPT ![c] = "partial"]
          /\ child' = [child EXCEPT ![c] = "sending"]
    /\ UNCHANGED <<parent, signal, expired, answer>>

\* It exits, or dies of a crash, of a resource limit or of a signal.
Die(c) ==
    /\ child[c] \in Alive
    /\ child' = [child EXCEPT ![c] = "dead"]
    /\ UNCHANGED <<parent, pipe, signal, expired, answer>>

\* A delivered signal ends the process, if not within the parent's patience.
DieOfSignal(c) == signal[c] # "none" /\ Die(c)

-----------------------------------------------------------------------------
(* The thread.                                                              *)

\* extract_owned_version hands the document to a thread.
Call(c) ==
    /\ parent[c] = "idle"
    /\ Goto(c, "starting")
    /\ UNCHANGED <<child, pipe, signal, expired, answer>>

Start(c) ==
    /\ parent[c] = "starting"
    /\ child' = [child EXCEPT ![c] = "parsing"]
    /\ Goto(c, "polling")
    /\ UNCHANGED <<pipe, signal, expired, answer>>

StartFails(c) ==
    /\ parent[c] = "starting"
    /\ Leave(c, "notStarted")

\* EXTRACTION_WALL_TIMEOUT_SECONDS pass; time spent in recv() is not looked at.
Expire(c) ==
    /\ parent[c] \in {"polling", "checking"}
    /\ ~expired[c]
    /\ expired' = [expired EXCEPT ![c] = TRUE]
    /\ UNCHANGED <<parent, child, pipe, signal, answer>>

\* Variant: the loop does not look at the deadline.
PollForEver(c) ==
    /\ parent[c] = "polling"
    /\ Goto(c, IF Readable(c) THEN "receiving" ELSE "checking")
    /\ UNCHANGED <<child, pipe, signal, expired, answer>>

\* while time.monotonic() < deadline: poll(...)
Poll(c) ==
    /\ parent[c] = "polling"
    /\ \/ /\ ~expired[c]
          /\ Goto(c, IF Readable(c) THEN "receiving" ELSE "checking")
          /\ UNCHANGED <<child, pipe, signal, expired, answer>>
       \/ /\ expired[c]
          /\ Leave(c, "overdue")

\* poll() returned False: is the child still there?
CheckAlive(c) ==
    /\ parent[c] = "checking"
    /\ \/ /\ child[c] \in Alive
          /\ Goto(c, "polling")
          /\ UNCHANGED <<child, pipe, signal, expired, answer>>
       \/ /\ child[c] = "dead"
          /\ Leave(c, "noResult")

\* recv() empties the pipe, which lets the child finish its write.
ReceiveRest(c) ==
    /\ parent[c] = "receiving"
    /\ pipe[c] = "partial" /\ child[c] = "sending"
    /\ pipe' = [pipe EXCEPT ![c] = "text"]
    /\ child' = [child EXCEPT ![c] = "sent"]
    /\ UNCHANGED <<parent, signal, expired, answer>>

Receive(c) ==
    /\ parent[c] = "receiving"
    /\ \/ pipe[c] \in {"text", "rejected"} /\ Leave(c, pipe[c])
       \/ pipe[c] \in {"empty", "partial"} /\ child[c] = "dead" /\ Leave(c, "noResult")

-----------------------------------------------------------------------------
(* stop_worker_process, in the finally block.                               *)

Signal(c, name, step) ==
    /\ signal' = [signal EXCEPT ![c] = name]
    /\ Goto(c, step)
    /\ UNCHANGED <<child, pipe, expired, answer>>

Stop(c) ==
    /\ parent[c] = "stopping"
    /\ \/ child[c] \in Alive /\ Signal(c, "TERM", "terminating")
       \/ child[c] \notin Alive /\ Signal(c, signal[c], "closing")

\* Variant: no kill for a worker that outlives the first grace period.
TerminateOnly(c) ==
    /\ parent[c] = "terminating"
    /\ Signal(c, "TERM", "closing")

\* join(timeout) ends when the child does, or after the grace period.
Kill(c) ==
    /\ parent[c] = "terminating"
    /\ \/ child[c] \in Alive /\ Signal(c, "KILL", "closing")
       \/ child[c] \notin Alive /\ Signal(c, signal[c], "closing")

\* The second join, and close(), which raises for a process still running.
Close(c) ==
    /\ parent[c] = "closing"
    /\ Goto(c, "done")
    /\ answer' = [answer EXCEPT ![c] = IF child[c] \in Alive THEN "valueError" ELSE @]
    /\ UNCHANGED <<child, pipe, signal, expired>>

-----------------------------------------------------------------------------

Thread(c) ==
    \/ Start(c) \/ StartFails(c) \/ Poll(c) \/ CheckAlive(c)
    \/ ReceiveRest(c) \/ Receive(c) \/ Stop(c) \/ Kill(c) \/ Close(c)

WorkerNext == \E c \in Calls : Call(c) \/ Thread(c) \/ Send(c) \/ Die(c) \/ Expire(c)

WorkerSpec == WorkerInit /\ [][WorkerNext]_workerVars

\* The thread runs and time passes; a signalled child dies sooner or later.
\* Nothing is assumed of a parser: it may loop for ever.
WorkerFairness ==
    \A c \in Calls :
        WF_workerVars(Thread(c)) /\ WF_workerVars(Expire(c)) /\ WF_workerVars(DieOfSignal(c))

-----------------------------------------------------------------------------
(* Properties.                                                              *)

\* A call returns while its process runs only if SIGKILL was on its way and
\* then it raises: no parser is silently left behind with its CPU and memory.
SurvivorsKilled ==
    \A c \in Calls : parent[c] = "done" /\ child[c] \in Alive =>
        signal[c] = "KILL" /\ answer[c] = "valueError"

\* Whatever the parser does, the call is answered and its process ends.
CallsEnd ==
    \A c \in Calls : parent[c] = "starting"
        ~> parent[c] = "done" /\ child[c] \in {"unborn", "dead"}
=============================================================================
