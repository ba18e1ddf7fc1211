----------------------------- MODULE RateLimiter -----------------------------
(***************************************************************************)
(* The request budget of the API: the http middleware, RateLimitService    *)
(* and the in-memory backend.  Nothing is awaited while the backend's lock *)
(* is held and the clock is read right before, so one request is one step. *)
(* Health and readiness requests pass by the limiter.                      *)
(*                                                                         *)
(* Time is counted in ticks of the monotonic clock, of which a second has  *)
(* Ticks: limits are seconds, but requests come in between.                *)
(***************************************************************************)
EXTENDS Integers, Sequences

CONSTANTS
    Hosts,          \* request.client.host
    Routes,         \* the routes that are asked for
    Limit,          \* the limit of each policy, in requests per window
    WindowSeconds, Ticks,
    FailClosed,     \* rate_limit_fail_closed_on_backend_error
    Horizon         \* bound on the clock

Policies == {"auth", "expensive", "general"}
AllRoutes == {"account", "analyse", "other"}

ASSUME RoutesAssumption == Routes \subseteq AllRoutes
ASSUME LimitAssumption == Limit \in [Policies -> Nat \ {0}]
ASSUME TimeAssumption ==
    WindowSeconds \in Nat \ {0} /\ Ticks \in Nat \ {0} /\ Horizon \in Nat
ASSUME FailClosedAssumption == FailClosed \in BOOLEAN

Window == WindowSeconds * Ticks

VARIABLES
    clock,
    bucket,     \* times of the requests that count, per key, oldest first
    admitted,   \* history: the times of all that were admitted, per policy and host
    told        \* what the last answer said: requests remaining, time of the reset

vars == <<clock, bucket, admitted, told>>

Keys == Policies \X Hosts

\* Variant: one budget for all clients.
SharedKey(p, h) == <<p, CHOOSE any \in Hosts : TRUE>>

Key(p, h) == <<p, h>>

PolicyOf(route) ==
    CASE route = "account" -> "auth" [] route = "analyse" -> "expensive"
      [] route = "other" -> "general"

Init ==
    /\ clock = 0
    /\ bucket = [k \in Keys |-> <<>>]
    /\ admitted = [k \in Keys |-> <<>>]
    /\ told = [k \in Keys |-> [remaining |-> Limit[k[1]], reset |-> 0]]

Tick ==
    /\ clock < Horizon
    /\ clock' = clock + 1
    /\ UNCHANGED <<bucket, admitted, told>>

\* Variant: seconds are rounded down.
SecondsDown(time) == IF (time - clock) \div Ticks > 1 THEN (time - clock) \div Ticks ELSE 1

\* _seconds_until: max(1, ceil(time - now)).
SecondsUntil(time) ==
    LET up == (time - clock + Ticks - 1) \div Ticks
    IN  IF up > 1 THEN up ELSE 1

\* The reset an answer announces, as a time.
ResetAt(oldest) == clock + SecondsUntil(oldest + Window) * Ticks

\* The loop of popleft() takes the first n entries of the bucket.
Left(s, n) ==
    /\ n \in 0 .. Len(s)
    /\ \A i \in 1 .. n : s[i] <= clock - Window
    /\ n < Len(s) => s[n + 1] > clock - Window

Rest(s, n) == SubSeq(s, n + 1, Len(s))

\* Variant: the bucket is full when it holds more than the limit.
AdmitOneMore(p, h) ==
    LET k == Key(p, h) IN
    \E n \in 0 .. Len(bucket[k]) :
        LET kept == Rest(bucket[k], n)
            now == Append(kept, clock)
        IN  /\ Left(bucket[k], n)
            /\ Len(kept) <= Limit[p]
            /\ bucket' = [bucket EXCEPT ![k] = now]
            /\ admitted' = [admitted EXCEPT ![<<p, h>>] = Append(@, clock)]
            /\ told' = [told EXCEPT ![<<p, h>>] =
                   [remaining |-> Limit[p] - Len(now), reset |-> ResetAt(now[1])]]
            /\ UNCHANGED clock

Admit(p, h) ==
    LET k == Key(p, h) IN
    \E n \in 0 .. Len(bucket[k]) :
        LET kept == Rest(bucket[k], n)
            now == Append(kept, clock)
        IN  /\ Left(bucket[k], n)
            /\ Len(kept) < Limit[p]
            /\ bucket' = [bucket EXCEPT ![k] = now]
            /\ admitted' = [admitted EXCEPT ![<<p, h>>] = Append(@, clock)]
            /\ told' = [told EXCEPT ![<<p, h>>] =
                   [remaining |-> Limit[p] - Len(now), reset |-> ResetAt(now[1])]]
            /\ UNCHANGED clock

\* Of several refusals the earliest announced reset is kept.
Earlier(answer, time) ==
    IF answer.remaining = 0 /\ answer.reset < time THEN answer.reset ELSE time

\* What a request finds when it comes too early: a bucket that is full still.
Full(p, h, n) ==
    Left(bucket[Key(p, h)], n) /\ Len(Rest(bucket[Key(p, h)], n)) >= Limit[p]

\* Variant: refused requests count as well.
RefuseAndCount(p, h) ==
    LET k == Key(p, h) IN
    \E n \in 0 .. Len(bucket[k]) :
        LET kept == Rest(bucket[k], n)
        IN  /\ Full(p, h, n)
            /\ bucket' = [bucket EXCEPT ![k] = Append(kept, clock)]
            /\ told' = [told EXCEPT ![<<p, h>>] =
                   [remaining |-> 0, reset |-> Earlier(@, ResetAt(kept[1]))]]
            /\ UNCHANGED <<clock, admitted>>

Refuse(p, h) ==
    LET k == Key(p, h) IN
    \E n \in 0 .. Len(bucket[k]) :
        LET kept == Rest(bucket[k], n)
        IN  /\ Full(p, h, n)
            /\ bucket' = [bucket EXCEPT ![k] = kept]
            /\ told' = [told EXCEPT ![<<p, h>>] =
                   [remaining |-> 0, reset |-> Earlier(@, ResetAt(kept[1]))]]
            /\ UNCHANGED <<clock, admitted>>

\* The backend raises: 503 with a whole window to wait, or the request passes
\* and is told that it has the whole budget.
Unavailable(p, h) ==
    /\ told' = [told EXCEPT ![<<p, h>>] =
           IF FailClosed THEN [remaining |-> 0, reset |-> Earlier(@, clock + Window)]
                         ELSE [remaining |-> Limit[p], reset |-> clock + Window]]
    /\ UNCHANGED <<clock, bucket, admitted>>

Handle(p, h) == Admit(p, h) \/ Refuse(p, h) \/ Unavailable(p, h)

Next == Tick \/ \E h \in Hosts, route \in Routes : Handle(PolicyOf(route), h)

Spec == Init /\ [][Next]_vars

-----------------------------------------------------------------------------
(* Properties.                                                              *)

\* Every variable keeps its type; a bucket never outgrows its limit, however
\* many requests are refused.
TypeOK ==
    /\ clock \in 0 .. Horizon
    /\ bucket \in [Keys -> Seq(Nat)]
    /\ \A k \in Keys : Len(bucket[k]) <= Limit[k[1]]
    /\ admitted \in [Keys -> Seq(Nat)]
    /\ told \in [Keys -> [remaining : Nat, reset : Nat]]

\* The backend's window slides: wherever a window is laid, a client is admitted at
\* most Limit times in it.  Of any Limit + 1 consecutive requests that were
\* admitted, the first and the last are a whole window apart.
WindowBound ==
    \A k \in Keys : \A i \in 1 .. Len(admitted[k]) :
        i + Limit[k[1]] <= Len(admitted[k]) =>
            admitted[k][i + Limit[k[1]]] - admitted[k][i] >= Window

Refused(p, h) == \E n \in 0 .. Len(bucket[Key(p, h)]) : Full(p, h, n)

\* What the headers say is kept: while requests remain, and from the announced
\* reset (RateLimit-Reset, Retry-After) on, a request that comes is not refused.
\* (A limiter that fails open announces a budget it has not looked at.)
Announced(p, h) == told[<<p, h>>].remaining = 0 /\ clock < told[<<p, h>>].reset

AnswersHonoured ==
    FailClosed => \A p \in Policies, h \in Hosts : Refused(p, h) => Announced(p, h)

\* "RateLimitPolicy represents a named fixed-window budget", with "fixed-window
\* reset behavior": at the reset that was announced the window is over, and no
\* request that was admitted before it counts any more.
FixedWindowReset ==
    \A k \in Keys : clock >= told[k].reset =>
        \A i \in 1 .. Len(admitted[k]) : admitted[k][i] <= clock - Window

\* A client that would be refused now has used its budget itself, in this very
\* window: its last Limit requests under the policy all count still.
Earned(p, h) ==
    LET log == admitted[<<p, h>>]
    IN  /\ Len(log) >= Limit[p]
        /\ \A i \in 1 .. Len(log) : i > Len(log) - Limit[p] => log[i] > clock - Window

RefusalsEarned == \A p \in Policies, h \in Hosts : Refused(p, h) => Earned(p, h)
=============================================================================
