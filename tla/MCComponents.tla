----------------------------- MODULE MCComponents -----------------------------
(***************************************************************************)
(* The parts that keep no rows, for TLC: what a request passes before the  *)
(* routes (the budget of its client, the limit of its body), what an       *)
(* analysis is made of (the worker that parses a document, the text that   *)
(* is made of its parts, the two scorers), and the lists that are read in  *)
(* pages.  They share no state, so a behaviour is about one of them, its   *)
(* subject, and the others stay as they start.                             *)
(***************************************************************************)
EXTENDS RateLimiter, RequestBody, ExtractionWorker, ExtractedText, ScoringV2,
        ScoringV3, Pages, TLC

CONSTANTS Subjects

VARIABLE subject

\* The general policy, which is the one that is asked for, allows two requests in a
\* window: one can be old when the other is not.
Limits == [p \in Policies |-> IF p = "general" THEN 2 ELSE 1]

\* Every document of up to four parts of up to two characters: a limit of five
\* characters falls before, within and after a part and on a separator.
ShortParts == {<<>>, <<"x">>, <<" ">>, <<" ", "x">>, <<"x", "x">>, <<" ", " ">>}

MCInit ==
    /\ subject \in Subjects
    /\ Init /\ BodyInit /\ WorkerInit /\ TextInit /\ V2Init /\ V3Init /\ PagesInit

MCNext ==
    /\ UNCHANGED subject
    /\ \/ subject = "budget" /\ Next
       \/ subject # "budget" /\ UNCHANGED vars
    /\ \/ subject = "body" /\ BodyNext
       \/ subject # "body" /\ UNCHANGED bodyVars
    /\ \/ subject = "worker" /\ WorkerNext
       \/ subject # "worker" /\ UNCHANGED workerVars
    /\ \/ subject = "text" /\ TextNext
       \/ subject # "text" /\ UNCHANGED textVars
    /\ \/ subject = "v2" /\ V2Next
       \/ subject # "v2" /\ UNCHANGED v2vars
    /\ \/ subject = "v3" /\ V3Next
       \/ subject # "v3" /\ UNCHANGED v3vars
    /\ \/ subject = "pages" /\ PagesNext
       \/ subject # "pages" /\ UNCHANGED pagesVars

MCSpec ==
    /\ MCInit
    /\ [][MCNext]_<<subject, vars, bodyVars, workerVars, textVars, v2vars, v3vars, pagesVars>>
    /\ WorkerFairness
=============================================================================
