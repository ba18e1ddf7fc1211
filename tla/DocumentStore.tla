---------------------------- MODULE DocumentStore ----------------------------
(***************************************************************************)
(* What the CV document API promises of its rows, without requests, locks  *)
(* or files: a document is the sequence of its versions, in the order they *)
(* were added and numbered from 1; each operation takes effect at once or  *)
(* not at all; deleting a document takes its versions and their            *)
(* extractions with it; a succeeded extraction is never written over.      *)
(* CvLifecycle implements it.                                              *)
(***************************************************************************)
EXTENDS Sequences, Naturals

CONSTANTS
    Ids,     \* ids of documents and of versions
    Seeded   \* the documents that exist at the start, of one version each

VARIABLES
    history,   \* history[d]: the versions of document d, << >> when d is absent
    text       \* text[v]: the extraction status of version v

vars == <<history, text>>

Elements(s) == {s[i] : i \in DOMAIN s}

Present == {d \in Ids : history[d] # << >>}

Stored == UNION {Elements(history[d]) : d \in Ids}

Init ==
    /\ history = [d \in Ids |-> IF d \in Seeded THEN <<d>> ELSE << >>]
    /\ text = [v \in Ids |-> "none"]

Create(d) ==
    /\ d \notin Present \cup Stored
    /\ history' = [history EXCEPT ![d] = <<d>>]
    /\ UNCHANGED text

AddVersion(d, v) ==
    /\ d \in Present
    /\ v \notin Stored
    /\ history' = [history EXCEPT ![d] = Append(@, v)]
    /\ UNCHANGED text

Delete(d) ==
    /\ d \in Present
    /\ history' = [history EXCEPT ![d] = << >>]
    /\ text' = [v \in Ids |-> IF v \in Elements(history[d]) THEN "none" ELSE text[v]]

Extract(v, status) ==
    /\ v \in Stored
    /\ text[v] # "succeeded"
    /\ text' = [text EXCEPT ![v] = status]
    /\ UNCHANGED history

Next ==
    \/ \E d \in Ids : Create(d) \/ Delete(d)
    \/ \E d, v \in Ids : AddVersion(d, v)
    \/ \E v \in Ids, status \in {"failed", "succeeded"} : Extract(v, status)

Spec == Init /\ [][Next]_vars
=============================================================================
