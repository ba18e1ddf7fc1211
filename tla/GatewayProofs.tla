----------------------------- MODULE GatewayProofs -----------------------------
(***************************************************************************)
(* What a request passes before the routes: the window of RateLimiter, and *)
(* what the headers announce, for every number of clients, every limit and *)
(* window, and any resolution of the clock; and BodyBounded of RequestBody *)
(* for limits and messages of every size.                                  *)
(***************************************************************************)
EXTENDS RateLimiter, RequestBody, TLAPS

-----------------------------------------------------------------------------
(* The budget of a client.                                                  *)

\* b is the end of log.
EndOf(b, log) ==
    /\ Len(b) <= Len(log)
    /\ \A i \in 1 .. Len(b) : b[i] = log[Len(log) - Len(b) + i]

\* The first m entries are not after time w.
OldTo(log, m, w) == \A i \in 1 .. Len(log) : i <= m => log[i] <= w

Sorted(log) == \A i, j \in 1 .. Len(log) : i <= j => log[i] <= log[j]

Above(s, w) == \A i \in 1 .. Len(s) : s[i] > w

\* The bucket is the end of the log, and all that has left it is a window old.
EndsLog(k) ==
    /\ EndOf(bucket[k], admitted[k])
    /\ OldTo(admitted[k], Len(admitted[k]) - Len(bucket[k]), clock - Window)

\* The log is in the order of time and ends now.
Ordered(k) == Sorted(admitted[k]) /\ OldTo(admitted[k], Len(admitted[k]), clock)

Spaced(log, l, w) ==
    \A i \in 1 .. Len(log) : i + l <= Len(log) => log[i + l] - log[i] >= w

\* Whoever has l entries in log comes back at time t without being too early.
Due(log, l, t) == Len(log) >= l => t >= log[Len(log) - l + 1] + Window

\* A positive budget is there; with none left, the reset is late enough.
Promise(k) ==
    FailClosed =>
        /\ told[k].remaining = 0 \/ told[k].remaining + Len(bucket[k]) <= Limit[k[1]]
        /\ told[k].remaining = 0 => Due(admitted[k], Limit[k[1]], told[k].reset)

KInv(k) ==
    /\ EndsLog(k) /\ Ordered(k) /\ Promise(k)
    /\ Spaced(admitted[k], Limit[k[1]], Window)

IInv == TypeOK /\ \A k \in Keys : KInv(k)

-----------------------------------------------------------------------------
(* Arithmetic.                                                              *)

\* Rounding up to seconds does not announce a time that is too early.
LEMMA RoundedUp ==
    ASSUME NEW d \in Int, NEW t \in Nat \ {0}
    PROVE  /\ (d + t - 1) \div t \in Int
           /\ ((d + t - 1) \div t) * t >= d
<1>1. (d + t - 1) \div t \in Int /\ (d + t - 1) % t \in 0 .. t - 1
  OBVIOUS
<1>2. d + t - 1 = t * ((d + t - 1) \div t) + ((d + t - 1) % t)
  OBVIOUS
<1> QED
  BY <1>1, <1>2

LEMMA WindowType == Window \in Nat
  BY TimeAssumption DEF Window

LEMMA ResetType ==
    ASSUME NEW time \in Nat, clock \in Nat
    PROVE  ResetAt(time) \in Nat /\ ResetAt(time) >= time + Window
<1> DEFINE d == time + Window - clock
           up == (d + Ticks - 1) \div Ticks
           s == SecondsUntil(time + Window)
<1>1. d \in Int /\ Ticks \in Nat \ {0}
  BY WindowType, TimeAssumption
<1>2. up \in Int /\ up * Ticks >= d
  BY <1>1, RoundedUp
<1>3. s = IF up > 1 THEN up ELSE 1
  BY <1>1, WindowType DEF SecondsUntil
<1>4. s \in Nat /\ s >= up
  BY <1>2, <1>3
<1> HIDE DEF s, up
<1>5. s * Ticks \in Nat /\ s * Ticks >= up * Ticks
  BY <1>1, <1>2, <1>4
<1> QED
  BY <1>1, <1>2, <1>5, WindowType DEF ResetAt, s


-----------------------------------------------------------------------------
(* Steps of the limiter.                                                    *)

\* A bucket b that is the end of a log, without the n entries not after w.
LEMMA PrunedSeq ==
    ASSUME NEW b \in Seq(Nat), NEW log \in Seq(Nat), NEW w \in Int, NEW n \in 0 .. Len(b),
           EndOf(b, log), OldTo(log, Len(log) - Len(b), w), Sorted(log),
           OldTo(b, n, w), n < Len(b) => b[n + 1] > w
    PROVE  /\ Rest(b, n) \in Seq(Nat) /\ Len(Rest(b, n)) = Len(b) - n
           /\ EndOf(Rest(b, n), log)
           /\ OldTo(log, Len(log) - Len(Rest(b, n)), w)
           /\ Above(Rest(b, n), w)
<1> DEFINE kept == Rest(b, n)
           out == Len(log) - Len(b)
<1>1. /\ kept \in Seq(Nat) /\ Len(kept) = Len(b) - n
      /\ \A i \in 1 .. Len(kept) : kept[i] = b[n + i]
  BY DEF Rest
<1> HIDE DEF kept
<1>2. Len(b) \in Nat /\ Len(log) \in Nat /\ Len(kept) \in Nat /\ out \in Nat
  BY <1>1 DEF EndOf
<1>3. ASSUME NEW i \in 1 .. Len(kept)
      PROVE  kept[i] = log[Len(log) - Len(kept) + i]
  <2>1. n + i \in 1 .. Len(b)
    BY <1>1, <1>2
  <2>2. kept[i] = b[n + i] /\ b[n + i] = log[out + (n + i)]
    BY <1>1, <2>1 DEF EndOf
  <2>3. out + (n + i) = Len(log) - Len(kept) + i
    BY <1>1, <1>2
  <2> QED
    BY <2>2, <2>3
<1>4. EndOf(kept, log)
  BY <1>1, <1>2, <1>3 DEF EndOf
<1>5. ASSUME NEW i \in 1 .. Len(log), i <= Len(log) - Len(kept)
      PROVE  log[i] <= w
  <2>1. CASE i <= out
    BY <2>1 DEF OldTo
  <2>2. CASE i > out
    <3>1. i - out \in 1 .. Len(b) /\ i - out <= n /\ out + (i - out) = i
      BY <1>1, <1>2, <1>5, <2>2
    <3>2. b[i - out] <= w
      BY <3>1 DEF OldTo
    <3>3. b[i - out] = log[out + (i - out)]
      BY <3>1 DEF EndOf
    <3> QED
      BY <3>1, <3>2, <3>3
  <2> QED
    BY <1>2, <2>1, <2>2
<1>6. ASSUME NEW i \in 1 .. Len(kept)
      PROVE  kept[i] > w
  <2> DEFINE first == Len(log) - Len(kept) + 1
             at == Len(log) - Len(kept) + i
  <2>1. 1 \in 1 .. Len(kept) /\ n < Len(b)
    BY <1>1, <1>2
  <2>2. kept[1] > w
    BY <1>1, <2>1
  <2>3. first \in 1 .. Len(log) /\ at \in 1 .. Len(log) /\ first <= at
    <3>1. Len(log) - Len(kept) \in Nat
      BY <1>1, <1>2
    <3>2. i \in Nat /\ i >= 1 /\ i <= Len(kept) /\ Len(log) \in Nat /\ Len(kept) \in Nat
      BY <1>2
    <3> QED
      BY ONLY <3>1, <3>2
  <2>4. kept[1] = log[first] /\ kept[i] = log[at]
    BY <1>3, <2>1
  <2> HIDE DEF first, at
  <2>5. log[first] <= log[at] /\ log[first] \in Nat /\ log[at] \in Nat
    BY <2>3 DEF Sorted
  <2> QED
    BY <2>2, <2>4, <2>5
<1> QED
  BY <1>1, <1>4, <1>5, <1>6 DEF OldTo, Above, kept

\* What popleft() leaves is what counts still.
LEMMA Pruned ==
    ASSUME TypeOK, NEW k \in Keys, EndsLog(k), Ordered(k),
           NEW n \in 0 .. Len(bucket[k]), Left(bucket[k], n)
    PROVE  /\ Rest(bucket[k], n) \in Seq(Nat)
           /\ Len(Rest(bucket[k], n)) = Len(bucket[k]) - n
           /\ EndOf(Rest(bucket[k], n), admitted[k])
           /\ OldTo(admitted[k], Len(admitted[k]) - Len(Rest(bucket[k], n)), clock - Window)
           /\ Above(Rest(bucket[k], n), clock - Window)
<1>1. /\ bucket[k] \in Seq(Nat) /\ admitted[k] \in Seq(Nat)
      /\ clock \in Nat /\ clock - Window \in Int
  BY WindowType DEF TypeOK
<1>2. /\ OldTo(bucket[k], n, clock - Window)
      /\ n < Len(bucket[k]) => bucket[k][n + 1] > clock - Window
  BY <1>1 DEF Left, OldTo
<1> QED
  BY <1>1, <1>2, PrunedSeq DEF EndsLog, Ordered

\* One more request at time c keeps a log of spaced requests spaced.
LEMMA AppendedSeq ==
    ASSUME NEW kept \in Seq(Nat), NEW log \in Seq(Nat), NEW c \in Nat, NEW w \in Int,
           NEW l \in Nat \ {0}, NEW width \in Nat, width = c - w, Len(kept) < l,
           EndOf(kept, log), OldTo(log, Len(log) - Len(kept), w), Sorted(log),
           OldTo(log, Len(log), c), Spaced(log, l, width)
    PROVE  /\ EndOf(Append(kept, c), Append(log, c))
           /\ OldTo(Append(log, c), Len(Append(log, c)) - Len(Append(kept, c)), w)
           /\ Sorted(Append(log, c))
           /\ OldTo(Append(log, c), Len(Append(log, c)), c)
           /\ Spaced(Append(log, c), l, width)
<1> DEFINE log2 == Append(log, c)
           now == Append(kept, c)
<1>1. /\ Len(log) \in Nat /\ Len(kept) \in Nat
      /\ Len(log2) = Len(log) + 1 /\ Len(now) = Len(kept) + 1
      /\ log2[Len(log) + 1] = c /\ now[Len(kept) + 1] = c
      /\ \A i \in 1 .. Len(log) : log2[i] = log[i] /\ log[i] \in Nat
      /\ \A i \in 1 .. Len(kept) : now[i] = kept[i]
  OBVIOUS
<1> HIDE DEF log2, now
<1>2. /\ \A i \in 1 .. Len(log2) : i = Len(log) + 1 \/ i \in 1 .. Len(log)
      /\ \A i \in 1 .. Len(now) : i = Len(kept) + 1 \/ i \in 1 .. Len(kept)
  <2>1. Len(log) \in Nat /\ Len(kept) \in Nat
    BY <1>1
  <2>2. Len(log2) = Len(log) + 1 /\ Len(now) = Len(kept) + 1
    BY <1>1
  <2> QED
    BY <2>1, <2>2
<1>3. EndOf(now, log2)
  <2>1. Len(now) <= Len(log2)
    BY <1>1 DEF EndOf
  <2>2. ASSUME NEW i \in 1 .. Len(now)
        PROVE  now[i] = log2[Len(log2) - Len(now) + i]
    <3>1. CASE i = Len(kept) + 1
      BY <1>1, <3>1
    <3>2. CASE i \in 1 .. Len(kept)
      <4>1. Len(log) - Len(kept) + i \in 1 .. Len(log)
        BY <1>1, <3>2 DEF EndOf
      <4>2. Len(log2) - Len(now) + i = Len(log) - Len(kept) + i
        BY <1>1
      <4> QED
        BY <1>1, <3>2, <4>1, <4>2 DEF EndOf
    <3> QED
      BY <1>2, <3>1, <3>2
  <2> QED
    BY <2>1, <2>2 DEF EndOf
<1>4. OldTo(log2, Len(log2) - Len(now), w)
  <2> SUFFICES ASSUME NEW i \in 1 .. Len(log2), i <= Len(log2) - Len(now)
               PROVE  log2[i] <= w
    BY DEF OldTo
  <2>1. i \in 1 .. Len(log) /\ i <= Len(log) - Len(kept)
    BY <1>1, <1>2
  <2> QED
    BY <1>1, <2>1 DEF OldTo
<1>5. OldTo(log2, Len(log2), c)
  <2> SUFFICES ASSUME NEW i \in 1 .. Len(log2) PROVE log2[i] <= c
    BY DEF OldTo
  <2>1. CASE i \in 1 .. Len(log)
    <3>1. log2[i] = log[i] /\ i <= Len(log)
      BY <1>1, <2>1
    <3> QED
      BY <2>1, <3>1 DEF OldTo
  <2>2. CASE i = Len(log) + 1
    BY <1>1, <2>2
  <2> QED
    BY <1>2, <2>1, <2>2
<1>6. Sorted(log2)
  <2> SUFFICES ASSUME NEW i \in 1 .. Len(log2), NEW j \in 1 .. Len(log2), i <= j
               PROVE  log2[i] <= log2[j]
    BY DEF Sorted
  <2>1. CASE j = Len(log) + 1
    BY <1>1, <1>5, <2>1 DEF OldTo
  <2>2. CASE j \in 1 .. Len(log)
    <3>1. i \in 1 .. Len(log)
      BY <1>1, <2>2
    <3> QED
      BY <1>1, <2>2, <3>1 DEF Sorted
  <2> QED
    BY <1>2, <2>1, <2>2
<1>7. Spaced(log2, l, width)
  <2> SUFFICES ASSUME NEW i \in 1 .. Len(log2), i + l <= Len(log2)
               PROVE  log2[i + l] - log2[i] >= width
    BY DEF Spaced
  <2>1. i \in 1 .. Len(log) /\ i + l \in 1 .. Len(log2)
    BY <1>1, <1>2
  <2>2. CASE i + l = Len(log) + 1
    <3>1. log2[i] = log[i] /\ log[i] <= w /\ log[i] \in Nat
      BY <1>1, <2>1, <2>2 DEF OldTo
    <3> QED
      BY <1>1, <2>2, <3>1
  <2>3. CASE i + l \in 1 .. Len(log)
    <3>1. log2[i] = log[i] /\ log2[i + l] = log[i + l]
      BY <1>1, <2>1, <2>3
    <3> QED
      BY <1>1, <2>1, <2>3, <3>1 DEF Spaced
  <2> QED
    BY <1>2, <2>1, <2>2, <2>3
<1> QED
  BY <1>3, <1>4, <1>5, <1>6, <1>7 DEF log2, now

-----------------------------------------------------------------------------
(* The inductive invariant.                                                 *)

LEMMA KeyFacts ==
    ASSUME NEW k \in Keys
    PROVE  k[1] \in Policies /\ Limit[k[1]] \in Nat \ {0}
  BY LimitAssumption DEF Keys

LEMMA InitIInv == Init => IInv
<1> SUFFICES ASSUME Init PROVE IInv
  OBVIOUS
<1>1. TypeOK
  BY LimitAssumption, TimeAssumption, KeyFacts DEF Init, TypeOK, Keys
<1>2. ASSUME NEW k \in Keys PROVE KInv(k)
  <2>1. admitted[k] = <<>> /\ bucket[k] = <<>> /\ Limit[k[1]] \in Nat \ {0}
    BY KeyFacts DEF Init
  <2>2. told[k].remaining = Limit[k[1]]
    BY DEF Init
  <2> QED
    BY <2>1, <2>2 DEF KInv, EndsLog, Ordered, Promise, EndOf, OldTo, Sorted, Spaced, Due
<1> QED
  BY <1>1, <1>2 DEF IInv

\* What is said of a key depends on its own state and the clock alone.
LEMMA KInvKept ==
    ASSUME NEW k \in Keys, KInv(k), clock' = clock,
           bucket'[k] = bucket[k], admitted'[k] = admitted[k], told'[k] = told[k]
    PROVE  KInv(k)'
  BY DEF KInv, EndsLog, Ordered, Promise, EndOf, OldTo, Sorted, Spaced, Due, Window

LEMMA TickIInv == IInv /\ Tick => IInv'
<1> SUFFICES ASSUME IInv, Tick PROVE IInv'
  OBVIOUS
<1>1. /\ clock \in Nat /\ clock' = clock + 1
      /\ bucket' = bucket /\ admitted' = admitted /\ told' = told
  BY DEF IInv, TypeOK, Tick
<1>2. TypeOK'
  BY <1>1, TimeAssumption DEF IInv, TypeOK, Tick
<1>3. ASSUME NEW k \in Keys PROVE KInv(k)'
  <2>1. KInv(k) /\ admitted[k] \in Seq(Nat)
    BY DEF IInv, TypeOK
  <2>2. \A i \in 1 .. Len(admitted[k]) : admitted[k][i] \in Nat
    BY <2>1
  <2>3. OldTo(admitted[k], Len(admitted[k]), clock + 1)
    BY <1>1, <2>1, <2>2 DEF KInv, Ordered, OldTo
  <2>4. OldTo(admitted[k], Len(admitted[k]) - Len(bucket[k]), (clock + 1) - Window)
    BY <1>1, <2>1, <2>2, WindowType DEF KInv, EndsLog, OldTo
  <2>5. EndsLog(k)' /\ Ordered(k)'
    BY <1>1, <2>1, <2>3, <2>4
       DEF KInv, EndsLog, Ordered, EndOf, OldTo, Sorted, Window
  <2>6. Promise(k)' /\ Spaced(admitted[k], Limit[k[1]], Window)'
    BY <1>1, <2>1 DEF KInv, Promise, Spaced, Due, Window
  <2> QED
    BY <2>5, <2>6 DEF KInv
<1> QED
  BY <1>2, <1>3 DEF IInv

LEMMA AdmitIInv ==
    ASSUME IInv, NEW p \in Policies, NEW h \in Hosts, Admit(p, h)
    PROVE  IInv'
<1> DEFINE k == <<p, h>>
<1>1. /\ k \in Keys /\ k[1] = p /\ Key(p, h) = k
      /\ Limit[p] \in Nat \ {0} /\ clock \in Nat /\ Window \in Nat
  BY LimitAssumption, WindowType DEF Keys, Key, IInv, TypeOK
<1> HIDE DEF k
<1>2. PICK n \in 0 .. Len(bucket[k]) :
          LET kept == Rest(bucket[k], n)
              now == Append(kept, clock)
          IN  /\ Left(bucket[k], n)
              /\ Len(kept) < Limit[p]
              /\ bucket' = [bucket EXCEPT ![k] = now]
              /\ admitted' = [admitted EXCEPT ![k] = Append(@, clock)]
              /\ told' = [told EXCEPT ![k] =
                     [remaining |-> Limit[p] - Len(now), reset |-> ResetAt(now[1])]]
              /\ clock' = clock
  BY <1>1 DEF Admit, k
<1> DEFINE kept == Rest(bucket[k], n)
           now == Append(kept, clock)
           log == admitted[k]
           log2 == Append(log, clock)
<1>3. KInv(k) /\ TypeOK
  BY <1>1 DEF IInv
<1>4. /\ kept \in Seq(Nat) /\ Len(kept) = Len(bucket[k]) - n
      /\ EndOf(kept, log) /\ OldTo(log, Len(log) - Len(kept), clock - Window)
  BY <1>1, <1>2, <1>3, Pruned DEF KInv
<1>5. log \in Seq(Nat)
  BY <1>1, <1>3 DEF TypeOK
<1>6. /\ bucket' = [bucket EXCEPT ![k] = now]
      /\ admitted' = [admitted EXCEPT ![k] = log2]
      /\ told' = [told EXCEPT ![k] =
             [remaining |-> Limit[p] - Len(now), reset |-> ResetAt(now[1])]]
      /\ clock' = clock /\ Len(kept) < Limit[p]
  BY <1>2
<1>7. /\ bucket'[k] = now /\ admitted'[k] = log2
      /\ told'[k] = [remaining |-> Limit[p] - Len(now), reset |-> ResetAt(now[1])]
      /\ \A x \in Keys \ {k} : /\ bucket'[x] = bucket[x] /\ admitted'[x] = admitted[x]
                               /\ told'[x] = told[x]
  BY <1>1, <1>3, <1>6 DEF TypeOK
<1> HIDE DEF kept, now, log, log2
<1>8. /\ now \in Seq(Nat) /\ Len(now) = Len(kept) + 1 /\ now[1] \in Nat
      /\ log2 \in Seq(Nat) /\ Len(log2) = Len(log) + 1
      /\ Len(kept) \in Nat /\ Len(log) \in Nat
  <2>1. /\ now \in Seq(Nat) /\ Len(now) = Len(kept) + 1
        /\ Len(kept) \in Nat
    BY <1>1, <1>4 DEF now
  <2>2. log2 \in Seq(Nat) /\ Len(log2) = Len(log) + 1 /\ Len(log) \in Nat
    BY <1>1, <1>5 DEF log2
  <2>3. now[1] \in Nat
    BY <2>1
  <2> QED
    BY <2>1, <2>2, <2>3
<1>9. /\ ResetAt(now[1]) \in Nat /\ ResetAt(now[1]) >= now[1] + Window
  BY <1>1, <1>8, ResetType
<1>10. TypeOK'
  <2>1. Limit[p] - Len(now) \in Nat
    BY <1>1, <1>6, <1>8
  <2>2. [remaining |-> Limit[p] - Len(now), reset |-> ResetAt(now[1])]
            \in [remaining : Nat, reset : Nat]
    BY <1>9, <2>1
  <2>3. /\ bucket' \in [Keys -> Seq(Nat)] /\ admitted' \in [Keys -> Seq(Nat)]
        /\ told' \in [Keys -> [remaining : Nat, reset : Nat]]
    BY <1>1, <1>3, <1>6, <1>8, <2>2 DEF TypeOK
  <2>4. \A x \in Keys : Len(bucket'[x]) <= Limit[x[1]]
    <3>1. Len(bucket'[k]) <= Limit[k[1]]
      BY <1>1, <1>6, <1>7, <1>8
    <3>2. \A x \in Keys \ {k} : Len(bucket'[x]) <= Limit[x[1]]
      BY <1>3, <1>7 DEF TypeOK
    <3> QED
      BY <3>1, <3>2
  <2> QED
    BY <1>3, <1>6, <2>3, <2>4 DEF TypeOK
<1>11. /\ EndOf(now, log2) /\ OldTo(log2, Len(log2) - Len(now), clock - Window)
       /\ Sorted(log2) /\ OldTo(log2, Len(log2), clock)
       /\ Spaced(log2, Limit[p], Window)
  <2>1. /\ Sorted(log) /\ OldTo(log, Len(log), clock) /\ Spaced(log, Limit[p], Window)
    BY <1>1, <1>3 DEF KInv, Ordered, log
  <2>2. clock - Window \in Int /\ Window = clock - (clock - Window)
    BY <1>1
  <2> QED
    BY <1>1, <1>4, <1>5, <1>6, <2>1, <2>2, AppendedSeq DEF now, log2
<1>12. Promise(k)'
  <2> SUFFICES ASSUME FailClosed
               PROVE  /\ told'[k].remaining = 0
                             \/ told'[k].remaining + Len(now) <= Limit[p]
                      /\ told'[k].remaining = 0 =>
                             (Len(log2) >= Limit[p] =>
                                 told'[k].reset >= log2[Len(log2) - Limit[p] + 1] + Window)
    BY <1>1, <1>7 DEF Promise, Due, Window
  <2>1. told'[k].remaining = Limit[p] - Len(now) /\ told'[k].reset = ResetAt(now[1])
    BY <1>7
  <2>2. told'[k].remaining + Len(now) <= Limit[p]
    BY <1>1, <1>8, <2>1
  <2>3. ASSUME told'[k].remaining = 0
        PROVE  told'[k].reset >= log2[Len(log2) - Limit[p] + 1] + Window
    <3>1. Len(now) = Limit[p] /\ 1 \in 1 .. Len(now)
      BY <1>1, <1>8, <2>1, <2>3
    <3>2. now[1] = log2[Len(log2) - Limit[p] + 1]
      BY <1>11, <3>1 DEF EndOf
    <3> QED
      BY <1>9, <2>1, <3>2
  <2> QED
    BY <2>2, <2>3
<1>13. KInv(k)'
  <2>1. EndsLog(k)' /\ Ordered(k)'
    BY <1>6, <1>7, <1>11 DEF EndsLog, Ordered, EndOf, OldTo, Sorted, Window
  <2>2. Spaced(admitted[k], Limit[k[1]], Window)'
    BY <1>1, <1>7, <1>11 DEF Spaced, Window
  <2> QED
    BY <1>12, <2>1, <2>2 DEF KInv
<1>14. ASSUME NEW x \in Keys \ {k} PROVE KInv(x)'
  BY <1>6, <1>7, KInvKept DEF IInv
<1> QED
  BY <1>10, <1>13, <1>14 DEF IInv

\* A refusal: what it finds in the bucket, and what that means for the log.
LEMMA RefuseFacts ==
    ASSUME IInv, NEW p \in Policies, NEW h \in Hosts, NEW k \in Keys, k = <<p, h>>,
           NEW n \in 0 .. Len(bucket[k]), Left(bucket[k], n),
           Len(Rest(bucket[k], n)) >= Limit[p]
    PROVE  /\ Rest(bucket[k], n) \in Seq(Nat) /\ admitted[k] \in Seq(Nat)
           /\ Len(Rest(bucket[k], n)) = Limit[p]
           /\ Len(Rest(bucket[k], n)) = Len(bucket[k])
           /\ Len(admitted[k]) >= Limit[p]
           /\ EndOf(Rest(bucket[k], n), admitted[k])
           /\ OldTo(admitted[k], Len(admitted[k]) - Len(Rest(bucket[k], n)), clock - Window)
           /\ Above(Rest(bucket[k], n), clock - Window)
<1> DEFINE kept == Rest(bucket[k], n)
           log == admitted[k]
<1>1. /\ k[1] = p /\ Limit[p] \in Nat \ {0} /\ KInv(k) /\ TypeOK
      /\ log \in Seq(Nat) /\ bucket[k] \in Seq(Nat) /\ Len(bucket[k]) <= Limit[p]
  BY LimitAssumption DEF IInv, TypeOK
<1>2. /\ kept \in Seq(Nat) /\ Len(kept) = Len(bucket[k]) - n
      /\ EndOf(kept, log) /\ OldTo(log, Len(log) - Len(kept), clock - Window)
      /\ Above(kept, clock - Window)
  BY <1>1, Pruned DEF KInv
<1> HIDE DEF kept, log
<1>3. Len(kept) >= Limit[p]
  BY DEF kept
<1>4. Len(kept) = Limit[p] /\ Len(bucket[k]) = Len(kept)
  BY <1>1, <1>2, <1>3
<1>5. Len(kept) <= Len(log)
  BY <1>2 DEF EndOf
<1>6. Len(log) >= Limit[p]
  BY <1>4, <1>5
<1> QED
  BY <1>1, <1>2, <1>4, <1>6 DEF kept, log

\* The oldest entry of a full bucket, seen from the log.
LEMMA FirstOf ==
    ASSUME NEW b \in Seq(Nat), NEW log \in Seq(Nat), EndOf(b, log), Len(b) > 0
    PROVE  b[1] = log[Len(log) - Len(b) + 1] /\ b[1] \in Nat
<1>1. Len(b) \in Nat /\ 1 \in 1 .. Len(b)
  OBVIOUS
<1> QED
  BY <1>1 DEF EndOf

LEMMA RefuseIInv ==
    ASSUME IInv, NEW p \in Policies, NEW h \in Hosts, Refuse(p, h)
    PROVE  IInv'
<1> DEFINE k == <<p, h>>
<1>1. /\ k \in Keys /\ k[1] = p /\ Key(p, h) = k
      /\ Limit[p] \in Nat \ {0} /\ clock \in Nat /\ Window \in Nat /\ TypeOK /\ KInv(k)
  BY LimitAssumption, WindowType DEF Keys, Key, IInv, TypeOK
<1>2. PICK n \in 0 .. Len(bucket[k]) :
          LET kept == Rest(bucket[k], n)
          IN  /\ Left(bucket[k], n)
              /\ Len(kept) >= Limit[p]
              /\ bucket' = [bucket EXCEPT ![k] = kept]
              /\ told' = [told EXCEPT ![k] =
                     [remaining |-> 0, reset |-> Earlier(@, ResetAt(kept[1]))]]
              /\ clock' = clock /\ admitted' = admitted
  BY <1>1 DEF Refuse, Full
<1> DEFINE kept == Rest(bucket[k], n)
           log == admitted[k]
           new == Earlier(told[k], ResetAt(kept[1]))
<1>3. /\ kept \in Seq(Nat) /\ log \in Seq(Nat)
      /\ Len(kept) = Limit[p] /\ Len(log) >= Limit[p]
      /\ EndOf(kept, log) /\ OldTo(log, Len(log) - Len(kept), clock - Window)
  <2>1. Left(bucket[k], n) /\ Len(Rest(bucket[k], n)) >= Limit[p]
    BY <1>2
  <2>2. k = <<p, h>>
    OBVIOUS
  <2> HIDE DEF k
  <2> QED
    BY <1>1, <2>1, <2>2, RefuseFacts, ZenonT(60)
<1> HIDE DEF kept, log
<1>4. kept[1] = log[Len(log) - Limit[p] + 1] /\ kept[1] \in Nat
  <2>1. Len(kept) > 0
    BY <1>1, <1>3
  <2> QED
    BY <1>3, <2>1, FirstOf
<1> USE DEF kept, log
<1>5. /\ bucket' = [bucket EXCEPT ![k] = kept]
      /\ told' = [told EXCEPT ![k] = [remaining |-> 0, reset |-> new]]
      /\ clock' = clock /\ admitted' = admitted
  BY <1>1, <1>2 DEF TypeOK
<1>6. /\ ResetAt(kept[1]) \in Nat /\ ResetAt(kept[1]) >= kept[1] + Window
      /\ told[k] \in [remaining : Nat, reset : Nat]
  BY <1>1, <1>4, ResetType DEF TypeOK
<1> HIDE DEF k, kept, log
<1>7. new \in Nat /\ (new = ResetAt(kept[1]) \/ (told[k].remaining = 0 /\ new = told[k].reset))
  BY <1>6 DEF Earlier
<1> HIDE DEF new
<1>8. /\ bucket'[k] = kept /\ admitted'[k] = log
      /\ told'[k] = [remaining |-> 0, reset |-> new]
      /\ \A x \in Keys \ {k} : /\ bucket'[x] = bucket[x] /\ admitted'[x] = admitted[x]
                               /\ told'[x] = told[x]
  BY <1>1, <1>5 DEF TypeOK, log
<1>9. TypeOK'
  <2>1. [remaining |-> 0, reset |-> new] \in [remaining : Nat, reset : Nat]
    BY <1>7
  <2>2. /\ bucket' \in [Keys -> Seq(Nat)] /\ admitted' \in [Keys -> Seq(Nat)]
        /\ told' \in [Keys -> [remaining : Nat, reset : Nat]]
    BY <1>1, <1>3, <1>5, <2>1 DEF TypeOK
  <2>3. Len(bucket'[k]) <= Limit[k[1]]
    BY <1>1, <1>3, <1>8
  <2>4. \A x \in Keys \ {k} : Len(bucket'[x]) <= Limit[x[1]]
    BY <1>1, <1>8 DEF TypeOK
  <2> QED
    BY <1>1, <1>5, <2>2, <2>3, <2>4 DEF TypeOK
<1>10. Promise(k)'
  <2>1. FailClosed /\ told[k].remaining = 0 =>
            told[k].reset >= log[Len(log) - Limit[p] + 1] + Window
    BY <1>1, <1>3 DEF KInv, Promise, Due, log
  <2>2. FailClosed => new >= log[Len(log) - Limit[p] + 1] + Window
    BY <1>4, <1>6, <1>7, <2>1
  <2>3. told'[k].remaining = 0 /\ told'[k].reset = new
    BY <1>8
  <2> QED
    BY <1>1, <1>8, <2>2, <2>3 DEF Promise, Due, Window
<1>11. KInv(k)'
  <2>1. Sorted(log) /\ OldTo(log, Len(log), clock) /\ Spaced(log, Limit[k[1]], Window)
    BY <1>1 DEF KInv, Ordered, log
  <2>2. EndsLog(k)' /\ Ordered(k)'
    BY <1>3, <1>5, <1>8, <2>1, ZenonT(60) DEF EndsLog, Ordered, EndOf, OldTo, Sorted, Window
  <2>3. Spaced(admitted[k], Limit[k[1]], Window)'
    BY <1>8, <2>1 DEF Spaced, Window
  <2> QED
    BY <1>10, <2>2, <2>3 DEF KInv
<1>12. ASSUME NEW x \in Keys \ {k} PROVE KInv(x)'
  BY <1>5, <1>8, KInvKept DEF IInv
<1> QED
  BY <1>9, <1>11, <1>12 DEF IInv

LEMMA UnavailableIInv ==
    ASSUME IInv, NEW p \in Policies, NEW h \in Hosts, Unavailable(p, h)
    PROVE  IInv'
<1> DEFINE k == <<p, h>>
           new == IF FailClosed THEN [remaining |-> 0, reset |-> Earlier(told[k], clock + Window)]
                                ELSE [remaining |-> Limit[p], reset |-> clock + Window]
           log == admitted[k]
<1>1. /\ k \in Keys /\ k[1] = p
      /\ Limit[p] \in Nat \ {0} /\ clock \in Nat /\ Window \in Nat /\ TypeOK /\ KInv(k)
      /\ told[k] \in [remaining : Nat, reset : Nat]
      /\ bucket[k] \in Seq(Nat) /\ log \in Seq(Nat)
  BY LimitAssumption, WindowType DEF Keys, IInv, TypeOK
<1>2. /\ told' = [told EXCEPT ![k] = new]
      /\ clock' = clock /\ admitted' = admitted /\ bucket' = bucket
  BY <1>1 DEF Unavailable, TypeOK
<1> HIDE DEF k
<1>3. new \in [remaining : Nat, reset : Nat]
  BY <1>1 DEF Earlier
<1>4. /\ told'[k] = new
      /\ \A x \in Keys \ {k} : told'[x] = told[x]
  BY <1>1, <1>2 DEF TypeOK
<1>5. TypeOK'
  BY <1>1, <1>2, <1>3 DEF TypeOK
<1>6. ASSUME FailClosed
      PROVE  new.remaining = 0 /\ Due(log, Limit[p], new.reset)
  <2>1. /\ new.remaining = 0
        /\ new.reset = clock + Window \/ (told[k].remaining = 0 /\ new.reset = told[k].reset)
    BY <1>6 DEF Earlier
  <2>2. CASE new.reset = clock + Window
    <3>1. ASSUME Len(log) >= Limit[p]
          PROVE  new.reset >= log[Len(log) - Limit[p] + 1] + Window
      <4>1. Len(log) - Limit[p] + 1 \in 1 .. Len(log)
        BY <1>1, <3>1
      <4>2. /\ log[Len(log) - Limit[p] + 1] \in Nat
            /\ log[Len(log) - Limit[p] + 1] <= clock
        BY <1>1, <4>1 DEF KInv, Ordered, OldTo
      <4> QED
        BY <1>1, <2>2, <4>2
    <3> QED
      BY <2>1, <3>1 DEF Due
  <2>3. CASE told[k].remaining = 0 /\ new.reset = told[k].reset
    BY <1>1, <1>6, <2>1, <2>3 DEF KInv, Promise
  <2> QED
    BY <2>1, <2>2, <2>3
<1> HIDE DEF new
<1>7. Promise(k)'
  BY <1>1, <1>2, <1>4, <1>6 DEF Promise, Due, Window
<1>8. KInv(k)'
  <2>1. EndsLog(k)' /\ Ordered(k)' /\ Spaced(admitted[k], Limit[k[1]], Window)'
    BY <1>1, <1>2 DEF KInv, EndsLog, Ordered, EndOf, OldTo, Sorted, Spaced, Window
  <2> QED
    BY <1>7, <2>1 DEF KInv
<1>9. ASSUME NEW x \in Keys \ {k} PROVE KInv(x)'
  BY <1>2, <1>4, KInvKept DEF IInv
<1> QED
  BY <1>5, <1>8, <1>9 DEF IInv

LEMMA NextIInv == IInv /\ [Next]_vars => IInv'
<1> SUFFICES ASSUME IInv, [Next]_vars PROVE IInv'
  OBVIOUS
<1>1. CASE Tick
  BY <1>1, TickIInv
<1>2. ASSUME NEW h \in Hosts, NEW route \in Routes, Handle(PolicyOf(route), h)
      PROVE  IInv'
  <2>1. PolicyOf(route) \in Policies
    BY RoutesAssumption DEF AllRoutes, PolicyOf, Policies
  <2> HIDE DEF Policies
  <2>2. CASE Admit(PolicyOf(route), h)
    BY <2>1, <2>2, AdmitIInv
  <2>3. CASE Refuse(PolicyOf(route), h)
    BY <2>1, <2>3, RefuseIInv
  <2>4. CASE Unavailable(PolicyOf(route), h)
    BY <2>1, <2>4, UnavailableIInv
  <2> QED
    BY <1>2, <2>2, <2>3, <2>4 DEF Handle
<1>3. CASE UNCHANGED vars
  <2>1. TypeOK'
    BY <1>3 DEF IInv, TypeOK, vars
  <2>2. ASSUME NEW k \in Keys PROVE KInv(k)'
    BY <1>3, KInvKept DEF IInv, vars
  <2> QED
    BY <2>1, <2>2 DEF IInv
<1> QED
  BY <1>1, <1>2, <1>3 DEF Next

LEMMA Invariance == Spec => []IInv
<1> QED
  BY InitIInv, NextIInv, PTL DEF Spec

-----------------------------------------------------------------------------
(* The theorems.                                                            *)

\* Types, and the size of every bucket: refused requests are never stored.
THEOREM Typing == Spec => []TypeOK
<1>1. IInv => TypeOK
  BY DEF IInv
<1> QED
  BY <1>1, Invariance, PTL

\* No client is ever admitted more often than its limit within a window.
THEOREM SlidingWindow == Spec => []WindowBound
<1>1. IInv => WindowBound
  BY DEF IInv, KInv, Spaced, WindowBound
<1> QED
  BY <1>1, Invariance, PTL

\* A refusal never breaks what the headers of an earlier answer announced.
THEOREM Announcements == Spec => []AnswersHonoured
<1>1. ASSUME IInv, NEW p \in Policies, NEW h \in Hosts, FailClosed, Refused(p, h)
      PROVE  Announced(p, h)
  <2> DEFINE k == <<p, h>>
  <2>1. /\ k \in Keys /\ k[1] = p /\ Key(p, h) = k /\ KInv(k) /\ TypeOK
        /\ Limit[p] \in Nat \ {0} /\ clock \in Nat /\ Window \in Nat
    BY <1>1, LimitAssumption, WindowType DEF Keys, Key, IInv, TypeOK
  <2>2. PICK n \in 0 .. Len(bucket[k]) :
            Left(bucket[k], n) /\ Len(Rest(bucket[k], n)) >= Limit[p]
    BY <1>1, <2>1 DEF Refused, Full
  <2>3. k = <<p, h>>
    OBVIOUS
  <2> HIDE DEF k
  <2> DEFINE kept == Rest(bucket[k], n)
             oldest == admitted[k][Len(admitted[k]) - Limit[p] + 1]
  <2>4. /\ kept \in Seq(Nat) /\ Len(kept) = Limit[p] /\ Len(kept) = Len(bucket[k])
        /\ admitted[k] \in Seq(Nat) /\ Len(admitted[k]) >= Limit[p]
        /\ EndOf(kept, admitted[k]) /\ Above(kept, clock - Window)
    BY <1>1, <2>1, <2>2, <2>3, RefuseFacts, ZenonT(60)
  <2> HIDE DEF kept
  <2>5. kept[1] = oldest /\ kept[1] \in Nat
    <3>1. Len(kept) > 0
      BY <2>1, <2>4
    <3> QED
      BY <2>4, <3>1, FirstOf
  <2>6. oldest > clock - Window
    <3>1. 1 \in 1 .. Len(kept)
      BY <2>1, <2>4
    <3> QED
      BY <2>4, <2>5, <3>1 DEF Above
  <2>7. told[k] \in [remaining : Nat, reset : Nat]
    BY <2>1 DEF TypeOK
  <2>8. told[k].remaining = 0
    BY <1>1, <2>1, <2>4, <2>7 DEF KInv, Promise
  <2>9. told[k].reset >= oldest + Window
    BY <1>1, <2>1, <2>4, <2>8 DEF KInv, Promise, Due
  <2> HIDE DEF oldest
  <2>10. clock < told[k].reset
    BY <2>1, <2>5, <2>6, <2>7, <2>9
  <2> QED
    BY <2>3, <2>8, <2>10 DEF Announced
<1>2. IInv => AnswersHonoured
  BY <1>1 DEF AnswersHonoured
<1> QED
  BY <1>2, Invariance, PTL

\* Nobody is refused for the requests of someone else.
THEOREM Refusals == Spec => []RefusalsEarned
<1>1. ASSUME IInv, NEW p \in Policies, NEW h \in Hosts, Refused(p, h)
      PROVE  Earned(p, h)
  <2> DEFINE k == <<p, h>>
  <2>1. k \in Keys /\ Key(p, h) = k /\ Limit[p] \in Nat \ {0} /\ KInv(k) /\ TypeOK
    BY <1>1, LimitAssumption DEF Keys, Key, IInv
  <2>2. PICK n \in 0 .. Len(bucket[k]) :
            Left(bucket[k], n) /\ Len(Rest(bucket[k], n)) >= Limit[p]
    BY <1>1, <2>1 DEF Refused, Full
  <2>3. k = <<p, h>>
    OBVIOUS
  <2> HIDE DEF k
  <2> DEFINE kept == Rest(bucket[k], n)
             log == admitted[k]
  <2>4. /\ kept \in Seq(Nat) /\ log \in Seq(Nat)
        /\ Len(kept) = Limit[p] /\ Len(log) >= Limit[p]
        /\ EndOf(kept, log) /\ Above(kept, clock - Window)
    BY <1>1, <2>1, <2>2, <2>3, RefuseFacts
  <2> HIDE DEF kept, log
  <2>5. ASSUME NEW i \in 1 .. Len(log), i > Len(log) - Limit[p]
        PROVE  log[i] > clock - Window
    <3> DEFINE j == i - (Len(log) - Len(kept))
    <3>1. j \in 1 .. Len(kept) /\ Len(log) - Len(kept) + j = i
      BY <2>1, <2>4, <2>5
    <3> HIDE DEF j
    <3>2. kept[j] = log[i] /\ kept[j] > clock - Window
      BY <2>4, <3>1 DEF EndOf, Above
    <3> QED
      BY <3>2
  <2> QED
    BY <2>3, <2>4, <2>5 DEF Earned, log
<1>2. IInv => RefusalsEarned
  BY <1>1 DEF RefusalsEarned
<1> QED
  BY <1>2, Invariance, PTL

-----------------------------------------------------------------------------
(* The limit of a body.                                                     *)

\* The inductive invariant: nothing is counted before the request comes in.
BodyInv ==
    /\ kind \in Kinds /\ declared \in Nat \cup {-1}
    /\ stage \in {"waiting", "open", "refused"}
    /\ received \in Nat /\ passed \in Nat
    /\ stage = "waiting" => received = 0 /\ passed = 0
    /\ BodyBounded

\* The limit of either kind is a number.
LEMMA LimitType == \A k \in Kinds : RequestLimit(k) \in Nat
BY BodyAssumption DEF RequestLimit

\* BodyInv holds at first and is kept by every step.
LEMMA BodyInductive == BodySpec => []BodyInv
<1>1. BodyInit => BodyInv
    BY DEF BodyInit, BodyInv, BodyBounded, Kinds
<1>2. BodyInv /\ [BodyNext]_bodyVars => BodyInv'
  <2> SUFFICES ASSUME BodyInv, [BodyNext]_bodyVars PROVE BodyInv'
      OBVIOUS
  <2> USE BodyAssumption, LimitType DEF BodyInv, BodyBounded
  <2>1. CASE Enter
    <3>1. /\ kind' \in Kinds /\ declared' \in Nat \cup {-1}
          /\ received' = 0 /\ passed' = 0
        BY <2>1 DEF Enter
    <3>2. RequestLimit(kind)' \in Nat /\ RequestLimit(kind)' = RequestLimit(kind')
        BY <3>1 DEF RequestLimit
    <3>3. stage' = IF declared' > RequestLimit(kind') THEN "refused" ELSE "open"
        BY <2>1 DEF Enter
    <3> QED BY <3>1, <3>2, <3>3
  <2>2. ASSUME NEW size \in Sizes, ReceiveBody(size) PROVE BodyInv'
    <3>1. size \in Nat /\ RequestLimit(kind)' = RequestLimit(kind) /\ RequestLimit(kind) \in Nat
        BY <2>2 DEF ReceiveBody, RequestLimit
    <3> QED BY <2>2, <3>1 DEF ReceiveBody
  <2>3. ASSUME NEW size \in Sizes, ReceiveAgain(size) PROVE BodyInv'
    <3>1. size \in Nat /\ RequestLimit(kind)' = RequestLimit(kind) /\ RequestLimit(kind) \in Nat
        BY <2>3 DEF ReceiveAgain, RequestLimit
    <3> QED BY <2>3, <3>1 DEF ReceiveAgain
  <2>4. CASE UNCHANGED bodyVars
      BY <2>4 DEF bodyVars, RequestLimit
  <2> QED BY <2>1, <2>2, <2>3, <2>4 DEF BodyNext
<1> QED BY <1>1, <1>2, PTL DEF BodySpec

\* The application is never given more than the limit, and a request is refused
\* only for what it declared or sent.
THEOREM BodyLimited == BodySpec => []BodyBounded
<1>1. BodyInv => BodyBounded
    BY DEF BodyInv
<1> QED BY <1>1, BodyInductive, PTL

================================================================================
