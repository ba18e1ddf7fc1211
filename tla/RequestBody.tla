----------------------------- MODULE RequestBody -----------------------------
(***************************************************************************)
(* RequestBodyLimitMiddleware for one http request: the size a request     *)
(* declares, and the messages of its body as the application receives them.*)
(***************************************************************************)
EXTENDS Integers

CONSTANTS
    BodyLimit,      \* max_request_body_bytes
    MultipartLimit, \* max_multipart_request_bytes
    Sizes           \* sizes that are declared, and sizes of messages

ASSUME BodyAssumption ==
    /\ BodyLimit \in Nat /\ MultipartLimit \in Nat
    /\ Sizes \subseteq Nat

Kinds == {"multipart", "other"}

VARIABLES
    kind,       \* what Content-Type says
    declared,   \* Content-Length; -1 if it is missing or no integer
    stage,      \* "waiting", "open" (the application runs) or "refused"
    received,   \* received_bytes
    passed      \* history: bytes the application was given

bodyVars == <<kind, declared, stage, received, passed>>

BodyInit ==
    kind = "other" /\ declared = -1 /\ stage = "waiting" /\ received = 0 /\ passed = 0

RequestLimit(k) == IF k = "multipart" THEN MultipartLimit ELSE BodyLimit

Enter ==
    /\ stage = "waiting"
    /\ kind' \in Kinds
    /\ declared' \in Sizes \cup {-1}
    /\ stage' = IF declared' > RequestLimit(kind') THEN "refused" ELSE "open"
    /\ UNCHANGED <<received, passed>>

\* Variant: the size is looked at before the message is counted.
ReceiveThenCount(size) ==
    /\ stage = "open"
    /\ received' = received + size
    /\ \/ received > RequestLimit(kind) /\ stage' = "refused" /\ UNCHANGED passed
       \/ received <= RequestLimit(kind) /\ passed' = passed + size /\ UNCHANGED stage
    /\ UNCHANGED <<kind, declared>>

\* receive_with_limit, of an http.request message.
ReceiveBody(size) ==
    /\ stage = "open"
    /\ received' = received + size
    /\ \/ received' > RequestLimit(kind) /\ stage' = "refused" /\ UNCHANGED passed
       \/ received' <= RequestLimit(kind) /\ passed' = passed + size /\ UNCHANGED stage
    /\ UNCHANGED <<kind, declared>>

\* An application that goes on to receive after the error is refused again.
ReceiveAgain(size) ==
    /\ stage = "refused" /\ received > RequestLimit(kind)
    /\ received <= 2 * MultipartLimit + BodyLimit     \* bound
    /\ received' = received + size
    /\ UNCHANGED <<kind, declared, stage, passed>>

BodyNext == Enter \/ \E size \in Sizes : ReceiveBody(size) \/ ReceiveAgain(size)

BodySpec == BodyInit /\ [][BodyNext]_bodyVars

-----------------------------------------------------------------------------
(* Properties.                                                              *)

\* The application is never given more than the limit of its kind of request,
\* however the body is cut and whatever was declared; and a request is refused
\* only if it declared or sent more than that, a declared excess before any of
\* the application runs.
BodyBounded ==
    /\ stage # "waiting" => passed <= RequestLimit(kind)
    /\ stage = "refused" =>
        (declared > RequestLimit(kind) /\ received = 0) \/ received > RequestLimit(kind)
    /\ stage = "open" => passed = received /\ declared <= RequestLimit(kind)
=============================================================================
