----------------------------- MODULE AnalysisProofs -----------------------------
(***************************************************************************)
(* Proofs about what an analysis is made of: the worker that parses a      *)
(* document, the text that is made of its parts, the two scorers, and the  *)
(* lists that are read in pages.  Each part is about a module of its own.  *)
(***************************************************************************)
EXTENDS ExtractionWorker, ExtractedText, ScoringV2, ScoringV3, Pages, DataLemmas

-----------------------------------------------------------------------------
(* ExtractionWorker: SurvivorsKilled for any number of concurrent calls.   *)

WorkerType ==
    /\ DOMAIN parent = Calls /\ DOMAIN child = Calls
    /\ DOMAIN signal = Calls /\ DOMAIN answer = Calls

\* From the second join on, a child that is alive has been sent SIGKILL: one that
\* was dead when the thread looked never comes back.
KilledByThen ==
    \A c \in Calls : child[c] \in Alive =>
        /\ parent[c] \in {"closing", "done"} => signal[c] = "KILL"
        /\ parent[c] = "done" => answer[c] = "valueError"

WorkerInv == WorkerType /\ KilledByThen

\* No call has begun.
LEMMA WorkerStart == WorkerInit => WorkerInv
BY DEF WorkerInit, WorkerInv, WorkerType, KilledByThen, Alive

\* Every step of the threads, the children and the clock.
LEMMA WorkerStep == WorkerInv /\ [WorkerNext]_workerVars => WorkerInv'
<1> SUFFICES ASSUME WorkerInv, [WorkerNext]_workerVars PROVE WorkerInv'
  OBVIOUS
<1> USE DEF WorkerInv, WorkerType, KilledByThen, Alive, Goto
<1>1. CASE UNCHANGED workerVars
  BY <1>1 DEF workerVars
<1>2. ASSUME NEW c \in Calls, Call(c) PROVE WorkerInv'
  BY <1>2 DEF Call
<1>3. ASSUME NEW c \in Calls, Thread(c) PROVE WorkerInv'
  <2>1. CASE Start(c)
    BY <2>1 DEF Start
  <2>2. CASE StartFails(c)
    BY <2>2 DEF StartFails, Leave
  <2>3. CASE Poll(c)
    BY <2>3 DEF Poll, Leave
  <2>4. CASE CheckAlive(c)
    BY <2>4 DEF CheckAlive, Leave
  <2>5. CASE ReceiveRest(c)
    BY <2>5 DEF ReceiveRest
  <2>6. CASE Receive(c)
    BY <2>6 DEF Receive, Leave
  <2>7. CASE Stop(c)
    BY <2>7 DEF Stop, Signal
  <2>8. CASE Kill(c)
    BY <2>8 DEF Kill, Signal
  <2>9. CASE Close(c)
    BY <2>9 DEF Close
  <2> QED
    BY <1>3, <2>1, <2>2, <2>3, <2>4, <2>5, <2>6, <2>7, <2>8, <2>9 DEF Thread
<1>4. ASSUME NEW c \in Calls, Send(c) PROVE WorkerInv'
  BY <1>4 DEF Send
<1>5. ASSUME NEW c \in Calls, Die(c) PROVE WorkerInv'
  BY <1>5 DEF Die
<1>6. ASSUME NEW c \in Calls, Expire(c) PROVE WorkerInv'
  BY <1>6 DEF Expire
<1> QED
  BY <1>1, <1>2, <1>3, <1>4, <1>5, <1>6 DEF WorkerNext

\* However many calls run and whatever their parsers do, a process that outlives
\* its call was sent SIGKILL, and the call raised.
THEOREM NoSilentSurvivor == WorkerSpec => []SurvivorsKilled
<1>1. WorkerInv => SurvivorsKilled
  BY DEF WorkerInv, KilledByThen, SurvivorsKilled
<1> QED
  BY <1>1, WorkerStart, WorkerStep, PTL DEF WorkerSpec

-----------------------------------------------------------------------------
(* ExtractedText: the function Whole.                                      *)

Text == Seq({"x", " ", Separator})

\* ... text, and a part after it
Added(before, last) ==
    IF last = <<>> THEN before
    ELSE IF before = <<>> THEN last
    ELSE before \o <<Separator>> \o last

Front(s) == SubSeq(s, 1, Len(s) - 1)

WholeNext(F, s) == IF s = <<>> THEN <<>> ELSE Added(F[Front(s)], s[Len(s)])

WholeUpTo(F, n) ==
    /\ F \in [Seq(Parts) -> Text]
    /\ \A s \in Seq(Parts) : Len(s) <= n => F[s] = WholeNext(F, s)

\* A part is text.
LEMMA PartIsText == \A p \in Parts : p \in Text
<1> SUFFICES ASSUME NEW p \in Parts PROVE p \in Text
  OBVIOUS
<1>1. p \in Seq({"x", " "})
  BY PartsAssumption
<1> QED
  BY <1>1, SeqMonotonic DEF Text

\* Text with a part after it is text.
LEMMA AddedIsText ==
    ASSUME NEW before \in Text, NEW last \in Text
    PROVE  Added(before, last) \in Text
<1>1. <<Separator>> \in Text
  BY Single DEF Text
<1>2. before \o <<Separator>> \in Text
  BY <1>1, ConcatProperties DEF Text
<1>3. before \o <<Separator>> \o last \in Text
  BY <1>2, ConcatProperties DEF Text
<1> QED
  BY <1>3 DEF Added

\* Whole is defined by one part less.
LEMMA FrontShorter ==
    ASSUME NEW s \in Seq(Parts), s # <<>>
    PROVE  /\ Front(s) \in Seq(Parts) /\ Len(Front(s)) = Len(s) - 1 /\ s[Len(s)] \in Parts
           /\ Len(s) \in Nat \ {0}
<1>1. Len(s) \in Nat \ {0} /\ s[Len(s)] \in Parts
  BY NotEmpty
<1>2. Len(s) - 1 \in Nat /\ Len(s) - 1 <= Len(s)
  BY <1>1
<1> QED
  BY <1>1, <1>2, Fronts DEF Front

\* One step of the definition of Whole makes text.
LEMMA WholeNextType ==
    ASSUME NEW F \in [Seq(Parts) -> Text], NEW s \in Seq(Parts)
    PROVE  WholeNext(F, s) \in Text
<1>1. CASE s = <<>>
  BY <1>1, EmptySeq DEF WholeNext, Text
<1>2. CASE s # <<>>
  BY <1>2, FrontShorter, PartIsText, AddedIsText DEF WholeNext
<1> QED
  BY <1>1, <1>2

\* Functions as Whole is defined exist for parts of any number.
LEMMA WholeUpToAny == \A n \in Nat : \E F : WholeUpTo(F, n)
<1> DEFINE T == {n \in Nat : \E F : WholeUpTo(F, n)}
<1>1. 0 \in T
  <2> DEFINE Zero == [s \in Seq(Parts) |-> <<>>]
  <2>1. Zero \in [Seq(Parts) -> Text]
    BY DEF Text
  <2>2. ASSUME NEW s \in Seq(Parts), Len(s) <= 0 PROVE Zero[s] = WholeNext(Zero, s)
    <3>1. s = <<>>
      BY <2>2, EmptySeq
    <3> QED
      BY <3>1 DEF WholeNext
  <2>3. WholeUpTo(Zero, 0)
    BY <2>1, <2>2 DEF WholeUpTo
  <2> QED
    BY <2>3
<1>2. ASSUME NEW n \in T PROVE n + 1 \in T
  <2>1. PICK F : WholeUpTo(F, n)
    BY <1>2
  <2>2. F \in [Seq(Parts) -> Text]
    BY <2>1 DEF WholeUpTo
  <2> DEFINE G == [s \in Seq(Parts) |-> WholeNext(F, s)]
  <2>3. G \in [Seq(Parts) -> Text]
    BY <2>2, WholeNextType
  <2>4. ASSUME NEW s \in Seq(Parts), Len(s) <= n + 1 PROVE G[s] = WholeNext(G, s)
    <3>1. CASE s = <<>>
      BY <3>1 DEF WholeNext
    <3>2. CASE s # <<>>
      <4>1. Front(s) \in Seq(Parts) /\ Len(Front(s)) <= n
        BY <2>4, <3>2, FrontShorter
      <4>2. F[Front(s)] = WholeNext(F, Front(s))
        BY <2>1, <4>1 DEF WholeUpTo
      <4>3. G[Front(s)] = F[Front(s)]
        BY <4>1, <4>2
      <4>4. G[s] = Added(F[Front(s)], s[Len(s)])
        BY <3>2 DEF WholeNext
      <4> QED
        BY <3>2, <4>3, <4>4 DEF WholeNext
    <3> QED
      BY <3>1, <3>2
  <2>5. WholeUpTo(G, n + 1)
    <3> HIDE DEF G
    <3> QED
      BY <2>3, <2>4 DEF WholeUpTo
  <2>6. n + 1 \in Nat
    OBVIOUS
  <2> QED
    BY <2>5, <2>6
<1>3. T = Nat
  <2> HIDE DEF T
  <2>1. T \in SUBSET Nat
    BY DEF T
  <2> QED
    BY <2>1, <1>1, <1>2, Induction
<1> QED
  BY <1>3

\* ... and they agree with each other.
LEMMA WholeUpToSame ==
    ASSUME NEW F, NEW n \in Nat, WholeUpTo(F, n), NEW G, NEW m \in Nat, WholeUpTo(G, m),
           NEW s \in Seq(Parts), Len(s) <= n, Len(s) <= m
    PROVE  F[s] = G[s]
<1> DEFINE T == {k \in Nat : \A t \in Seq(Parts) :
                    Len(t) = k /\ Len(t) <= n /\ Len(t) <= m => F[t] = G[t]}
<1>1. 0 \in T
  BY EmptySeq DEF WholeUpTo, WholeNext
<1>2. ASSUME NEW k \in T PROVE k + 1 \in T
  <2>1. ASSUME NEW t \in Seq(Parts), Len(t) = k + 1, Len(t) <= n, Len(t) <= m PROVE F[t] = G[t]
    <3>1. t # <<>>
      BY <2>1, EmptySeq
    <3>2. Front(t) \in Seq(Parts) /\ Len(Front(t)) = k
      BY <2>1, <3>1, FrontShorter
    <3>3. F[Front(t)] = G[Front(t)]
      BY <2>1, <3>2
    <3> QED
      BY <2>1, <3>1, <3>3 DEF WholeUpTo, WholeNext
  <2>2. k + 1 \in Nat
    OBVIOUS
  <2> QED
    BY <2>1, <2>2
<1>3. T = Nat
  <2> HIDE DEF T
  <2>1. T \in SUBSET Nat
    BY DEF T
  <2> QED
    BY <2>1, <1>1, <1>2, Induction
<1>4. Len(s) \in T
  BY <1>3
<1> QED
  BY <1>4

\* Whole is the function that its definition describes.
LEMMA WholeDefined ==
    /\ Whole \in [Seq(Parts) -> Text]
    /\ \A s \in Seq(Parts) : Whole[s] = WholeNext(Whole, s)
<1> DEFINE Up(n) == CHOOSE F : WholeUpTo(F, n)
           W == [s \in Seq(Parts) |-> Up(Len(s))[s]]
<1>1. \A n \in Nat : WholeUpTo(Up(n), n)
  BY WholeUpToAny
<1> HIDE DEF Up
<1>2. W \in [Seq(Parts) -> Text]
  BY <1>1 DEF WholeUpTo
<1>3. ASSUME NEW s \in Seq(Parts) PROVE W[s] = WholeNext(W, s)
  <2>1. CASE s = <<>>
    <3>1. Len(s) = 0
      BY <2>1, NotEmpty
    <3>2. WholeUpTo(Up(0), 0) /\ Len(s) <= 0
      BY <1>1, <3>1
    <3>3. Up(0)[s] = WholeNext(Up(0), s)
      BY <3>2 DEF WholeUpTo
    <3> QED
      BY <2>1, <3>1, <3>3 DEF WholeNext
  <2>2. CASE s # <<>>
    <3>1. Front(s) \in Seq(Parts) /\ Len(Front(s)) \in Nat /\ Len(s) \in Nat /\ Len(Front(s)) <= Len(s)
      BY <2>2, FrontShorter
    <3>2. Up(Len(s))[Front(s)] = Up(Len(Front(s)))[Front(s)]
      BY <1>1, <3>1, WholeUpToSame
    <3>3. Up(Len(s))[s] = WholeNext(Up(Len(s)), s)
      BY <1>1, <3>1 DEF WholeUpTo
    <3>4. W[Front(s)] = Up(Len(s))[Front(s)]
      BY <3>1, <3>2
    <3> QED
      BY <2>2, <3>3, <3>4 DEF WholeNext
  <2> QED
    BY <2>1, <2>2
<1> DEFINE P(F) == F = [s \in Seq(Parts) |-> WholeNext(F, s)]
<1>4. P(W)
  <2> HIDE DEF W
  <2>1. W = [s \in Seq(Parts) |-> W[s]]
    BY <1>2
  <2> QED
    BY <1>3, <2>1
<1>5. Whole = CHOOSE F : P(F)
  BY DEF Whole, WholeNext, Added, Front
<1> HIDE DEF P, W
<1>6. P(Whole)
  BY <1>4, <1>5
<1>7. \A s \in Seq(Parts) : Whole[s] = WholeNext(Whole, s)
  BY <1>6 DEF P
<1>8. DOMAIN Whole = Seq(Parts) /\ Whole = [s \in Seq(Parts) |-> Whole[s]]
  <2> HIDE DEF Whole
  <2> QED
    BY <1>6 DEF P
<1>9. \A s \in Seq(Parts) : Whole[s] \in Text
  <2> DEFINE T == {n \in Nat : \A s \in Seq(Parts) : Len(s) = n => Whole[s] \in Text}
  <2>1. 0 \in T
    BY <1>7, EmptySeq DEF WholeNext, Text
  <2>2. ASSUME NEW n \in T PROVE n + 1 \in T
    <3>1. ASSUME NEW s \in Seq(Parts), Len(s) = n + 1 PROVE Whole[s] \in Text
      <4>1. s # <<>>
        BY <3>1, EmptySeq
      <4>2. Whole[Front(s)] \in Text /\ s[Len(s)] \in Text
        BY <3>1, <4>1, FrontShorter, PartIsText
      <4> QED
        BY <1>7, <4>1, <4>2, AddedIsText DEF WholeNext
    <3>2. n + 1 \in Nat
      OBVIOUS
    <3> QED
      BY <3>1, <3>2
  <2>3. T = Nat
    <3> HIDE DEF T
    <3>1. T \in SUBSET Nat
      BY DEF T
    <3> QED
      BY <3>1, <2>1, <2>2, Induction
  <2> QED
    BY <2>3
<1> QED
  BY <1>7, <1>8, <1>9

\* Texts are put together in any order.
LEMMA TextConcat ==
    ASSUME NEW s \in Text, NEW t \in Text, NEW u \in Text
    PROVE  (s \o t) \o u = s \o (t \o u) /\ t \o u \in Text
<1> DEFINE C == {"x", " ", Separator}
<1>1. s \in Seq(C) /\ t \in Seq(C) /\ u \in Seq(C)
  BY DEF Text
<1> HIDE DEF C
<1>2. (s \o t) \o u = s \o (t \o u) /\ t \o u \in Seq(C)
  BY <1>1, ConcatAssociative, ConcatProperties
<1> QED
  BY <1>2 DEF C, Text

\* What a cut is.
LEMMA CutOf ==
    ASSUME NEW S, NEW s \in Seq(S), NEW n \in Nat
    PROVE  /\ Cut(s, n) \in Seq(S) /\ Len(Cut(s, n)) = Smaller(n, Len(s))
           /\ \A i \in 1 .. Smaller(n, Len(s)) : Cut(s, n)[i] = s[i]
           /\ Smaller(n, Len(s)) \in Nat
<1>1. Smaller(n, Len(s)) \in Nat /\ Smaller(n, Len(s)) <= Len(s)
  BY LenProperties DEF Smaller
<1> QED
  BY <1>1, Fronts DEF Cut

\* A cut of what is short enough changes nothing.
LEMMA CutNothing ==
    ASSUME NEW S, NEW s \in Seq(S), NEW n \in Nat, Len(s) <= n
    PROVE  Cut(s, n) = s
<1>1. Smaller(n, Len(s)) = Len(s)
  BY LenProperties DEF Smaller
<1> QED
  BY <1>1, SubSeqFull DEF Cut

\* What comes after a text that is long enough is cut off.
LEMMA CutBeyond ==
    ASSUME NEW S, NEW s \in Seq(S), NEW t \in Seq(S), NEW n \in Nat, n <= Len(s)
    PROVE  Cut(s \o t, n) = Cut(s, n)
<1>1. /\ s \o t \in Seq(S) /\ Len(s \o t) = Len(s) + Len(t)
      /\ \A i \in 1 .. Len(s) + Len(t) : (s \o t)[i] = IF i <= Len(s) THEN s[i] ELSE t[i - Len(s)]
  BY ConcatProperties
<1>2. Len(s) \in Nat /\ Len(t) \in Nat
  BY LenProperties
<1>3. Smaller(n, Len(s)) = n /\ Smaller(n, Len(s \o t)) = n
  BY <1>1, <1>2 DEF Smaller
<1>4. /\ Cut(s, n) \in Seq(S) /\ Len(Cut(s, n)) = n /\ \A i \in 1 .. n : Cut(s, n)[i] = s[i]
  BY <1>3, CutOf
<1>5. /\ Cut(s \o t, n) \in Seq(S) /\ Len(Cut(s \o t, n)) = n
      /\ \A i \in 1 .. n : Cut(s \o t, n)[i] = (s \o t)[i]
  BY <1>1, <1>3, CutOf
<1>6. \A i \in 1 .. n : Cut(s \o t, n)[i] = Cut(s, n)[i]
  BY <1>1, <1>2, <1>4, <1>5
<1> QED
  BY <1>4, <1>5, <1>6, SeqEqual

\* What comes after a text that is not is cut to the room that is left.
LEMMA CutAcross ==
    ASSUME NEW S, NEW s \in Seq(S), NEW t \in Seq(S), NEW n \in Nat, Len(s) <= n
    PROVE  Cut(s \o t, n) = s \o Cut(t, n - Len(s))
<1> DEFINE k == n - Len(s)
           m == Smaller(k, Len(t))
<1>1. /\ s \o t \in Seq(S) /\ Len(s \o t) = Len(s) + Len(t)
      /\ \A i \in 1 .. Len(s) + Len(t) : (s \o t)[i] = IF i <= Len(s) THEN s[i] ELSE t[i - Len(s)]
  BY ConcatProperties
<1>2. Len(s) \in Nat /\ Len(t) \in Nat /\ k \in Nat
  BY LenProperties
<1>3. Smaller(n, Len(s \o t)) = Len(s) + m /\ m \in Nat /\ m <= Len(t)
  BY <1>1, <1>2 DEF Smaller
<1> HIDE DEF k, m
<1>4. Cut(t, k) \in Seq(S) /\ Len(Cut(t, k)) = m /\ \A i \in 1 .. m : Cut(t, k)[i] = t[i]
  BY <1>2, CutOf DEF m
<1>5. /\ Cut(s \o t, n) \in Seq(S) /\ Len(Cut(s \o t, n)) = Len(s) + m
      /\ \A i \in 1 .. Len(s) + m : Cut(s \o t, n)[i] = (s \o t)[i]
  BY <1>1, <1>3, CutOf
<1>6. /\ s \o Cut(t, k) \in Seq(S) /\ Len(s \o Cut(t, k)) = Len(s) + m
      /\ \A i \in 1 .. Len(s) + m : (s \o Cut(t, k))[i] = IF i <= Len(s) THEN s[i] ELSE Cut(t, k)[i - Len(s)]
  BY <1>4, ConcatProperties
<1>7. ASSUME NEW i \in 1 .. Len(s) + m PROVE Cut(s \o t, n)[i] = (s \o Cut(t, k))[i]
  <2>1. i \in Int /\ 1 <= i /\ i <= Len(s) + m /\ i \in 1 .. Len(s) + Len(t)
    BY <1>2, <1>3
  <2>2. CASE i <= Len(s)
    BY <1>1, <1>5, <1>6, <2>1, <2>2
  <2>3. CASE ~(i <= Len(s))
    <3>1. i - Len(s) \in 1 .. m
      BY <1>2, <1>3, <2>1, <2>3
    <3>2. Cut(t, k)[i - Len(s)] = t[i - Len(s)]
      BY <1>4, <3>1
    <3>3. (s \o t)[i] = t[i - Len(s)] /\ (s \o Cut(t, k))[i] = Cut(t, k)[i - Len(s)]
      BY <1>1, <1>6, <2>1, <2>3
    <3> QED
      BY <1>5, <3>2, <3>3
  <2> QED
    BY <2>2, <2>3
<1>8. Cut(s \o t, n) = s \o Cut(t, k)
  BY <1>5, <1>6, <1>7, SeqEqual
<1> QED
  BY <1>8 DEF k

\* The whole text of one part more.
LEMMA WholeAppend ==
    ASSUME NEW s \in Seq(Parts), NEW p \in Parts
    PROVE  Append(s, p) \in Seq(Parts) /\ Whole[Append(s, p)] = Added(Whole[s], p)
<1> DEFINE more == Append(s, p)
<1>1. /\ more \in Seq(Parts) /\ more # <<>> /\ Len(more) = Len(s) + 1 /\ more[Len(more)] = p
      /\ \A i \in 1 .. Len(s) : more[i] = s[i]
      /\ Len(s) \in Nat
  BY AppendProperties, LenProperties
<1> HIDE DEF more
<1>2. Front(more) = s
  <2>1. /\ SubSeq(more, 1, Len(s)) \in Seq(Parts) /\ Len(SubSeq(more, 1, Len(s))) = Len(s)
        /\ \A i \in 1 .. Len(s) : SubSeq(more, 1, Len(s))[i] = more[i]
    <3>1. Len(s) <= Len(more)
      BY <1>1
    <3> QED
      BY <1>1, <3>1, Fronts
  <2>2. SubSeq(more, 1, Len(s)) = s
    BY <1>1, <2>1, SeqEqual
  <2>3. Len(more) - 1 = Len(s)
    BY <1>1
  <2> QED
    BY <2>2, <2>3 DEF Front
<1>3. Whole[more] = WholeNext(Whole, more)
  BY <1>1, WholeDefined
<1>4. Whole[more] = Added(Whole[s], p)
  BY <1>1, <1>2, <1>3 DEF WholeNext
<1> QED
  BY <1>1, <1>4 DEF more

\* A part changes nothing of the text before it.
LEMMA AddedAfter ==
    ASSUME NEW before \in Text, NEW last \in Text
    PROVE  \E more \in Text : Added(before, last) = before \o more
<1>1. CASE last = <<>>
  <2>1. before \o <<>> = before /\ <<>> \in Text
    BY ConcatEmptySeq, EmptySeq DEF Text
  <2> QED
    BY <1>1, <2>1 DEF Added
<1>2. CASE last # <<>> /\ before = <<>>
  <2>1. <<>> \o last = last
    BY ConcatEmptySeq DEF Text
  <2> QED
    BY <1>2, <2>1 DEF Added
<1>3. CASE last # <<>> /\ before # <<>>
  <2>1. <<Separator>> \in Text
    BY Single DEF Text
  <2>2. <<Separator>> \o last \in Text
    BY <2>1, TextConcat
  <2>3. (before \o <<Separator>>) \o last = before \o (<<Separator>> \o last)
    BY <2>1, TextConcat
  <2> QED
    BY <1>3, <2>2, <2>3 DEF Added
<1> QED
  BY <1>1, <1>2, <1>3

\* More parts change nothing of the text before them.
LEMMA WholeGrows ==
    ASSUME NEW s \in Seq(Parts), NEW t \in Seq(Parts)
    PROVE  \E more \in Text : Whole[s \o t] = Whole[s] \o more
<1> DEFINE Has(u) == \E more \in Text : Whole[s \o u] = Whole[s] \o more
           T == {n \in Nat : \A u \in Seq(Parts) : Len(u) = n => Has(u)}
<1>0. Whole[s] \in Text
  BY WholeDefined
<1>1. 0 \in T
  <2>1. s \o <<>> = s
    BY ConcatEmptySeq
  <2>2. Whole[s] \o <<>> = Whole[s] /\ <<>> \in Text
    BY <1>0, ConcatEmptySeq, EmptySeq DEF Text
  <2>3. Has(<<>>)
    BY <2>1, <2>2
  <2> HIDE DEF Has
  <2> QED
    BY <2>3, NotEmpty
<1>2. ASSUME NEW n \in T PROVE n + 1 \in T
  <2>1. ASSUME NEW u \in Seq(Parts), Len(u) = n + 1 PROVE Has(u)
    <3>1. u # <<>>
      BY <2>1, NotEmpty
    <3>2. PICK v \in Seq(Parts), p \in Parts : u = Append(v, p)
      BY <3>1, SequenceEmptyOrAppend
    <3>3. Len(v) = n
      <4>1. Len(u) = Len(v) + 1 /\ Len(v) \in Nat
        BY <3>2, AppendProperties, LenProperties
      <4> QED
        BY <2>1, <4>1
    <3>4. PICK w \in Text : Whole[s \o v] = Whole[s] \o w
      BY <3>3
    <3>5. s \o u = Append(s \o v, p) /\ s \o v \in Seq(Parts)
      <4>1. u = v \o <<p>> /\ <<p>> \in Seq(Parts) /\ s \o v \in Seq(Parts)
        BY <3>2, AppendIsConcat, Single, ConcatProperties
      <4>2. (s \o v) \o <<p>> = s \o (v \o <<p>>)
        BY <4>1, ConcatAssociative
      <4>3. Append(s \o v, p) = (s \o v) \o <<p>>
        BY <4>1, AppendIsConcat
      <4> QED
        BY <4>1, <4>2, <4>3
    <3>6. Whole[s \o u] = Added(Whole[s \o v], p) /\ Whole[s \o v] \in Text /\ p \in Text
      BY <3>5, WholeAppend, WholeDefined, PartIsText
    <3>7. PICK x \in Text : Whole[s \o u] = Whole[s \o v] \o x
      <4> DEFINE before == Whole[s \o v]
      <4> HIDE DEF before
      <4>1. \E x \in Text : Added(before, p) = before \o x
        BY <3>6, AddedAfter DEF before
      <4> QED
        BY <3>6, <4>1 DEF before
    <3>8. (Whole[s] \o w) \o x = Whole[s] \o (w \o x) /\ w \o x \in Text
      BY <1>0, TextConcat
    <3> QED
      BY <3>4, <3>7, <3>8
  <2>2. n + 1 \in Nat
    OBVIOUS
  <2> HIDE DEF Has
  <2> QED
    BY <2>1, <2>2
<1>3. T = Nat
  <2> HIDE DEF T
  <2>1. T \in SUBSET Nat
    BY DEF T
  <2> QED
    BY <2>1, <1>1, <1>2, Induction
<1>4. Len(t) \in T
  BY <1>3, LenProperties
<1> QED
  BY <1>4

-----------------------------------------------------------------------------
(* ExtractedText: the loop.                                                *)

TextType ==
    /\ parts \in Seq(Parts) /\ read \in Seq(Parts)
    /\ text \in Text

TextInv ==
    /\ TextType
    /\ text = Cut(Whole[read], MaxCharacters)
    /\ remaining = MaxCharacters - Len(text)
    /\ phase = "joined" => parts = <<>> \/ remaining = 0

\* No part was read.
LEMMA TextStart == TextInit => TextInv
<1> SUFFICES ASSUME TextInit PROVE TextInv
  OBVIOUS
<1>1. <<>> \in Seq(Parts) /\ <<>> \in Text /\ Len(<<>>) = 0
  BY EmptySeq DEF Text
<1>2. Whole[<<>>] = <<>>
  BY <1>1, WholeDefined DEF WholeNext
<1>3. Cut(<<>>, MaxCharacters) = <<>>
  <2>1. MaxCharacters \in Nat /\ Len(<<>>) <= MaxCharacters
    BY <1>1, LimitsAssumption
  <2> QED
    BY <1>1, <2>1, CutNothing
<1> QED
  BY <1>1, <1>2, <1>3, LimitsAssumption DEF TextInit, TextInv, TextType

\* Text that is full is a cut of whatever is added.
LEMMA FullCut ==
    ASSUME TextInv, remaining = 0, NEW t \in Seq(Parts)
    PROVE  text = Cut(Whole[read \o t], MaxCharacters)
<1>1. PICK more \in Text : Whole[read \o t] = Whole[read] \o more
  BY WholeGrows DEF TextInv, TextType
<1>2. Whole[read] \in Text /\ MaxCharacters \in Nat
  BY WholeDefined, LimitsAssumption DEF TextInv, TextType
<1>3. MaxCharacters <= Len(Whole[read])
  <2>1. Len(text) = Smaller(MaxCharacters, Len(Whole[read])) /\ Len(Whole[read]) \in Nat
    BY <1>2, CutOf, LenProperties DEF TextInv, Text
  <2>2. Len(text) \in Nat /\ Len(text) = MaxCharacters
    BY <1>2, <2>1 DEF TextInv, Smaller
  <2> QED
    BY <1>2, <2>1, <2>2 DEF Smaller
<1>4. Cut(Whole[read] \o more, MaxCharacters) = Cut(Whole[read], MaxCharacters)
  BY <1>2, <1>3, CutBeyond DEF Text
<1> QED
  BY <1>1, <1>4 DEF TextInv

\* Text that is not full is all there was.
LEMMA RoomLeft ==
    ASSUME TextInv, remaining # 0
    PROVE  /\ text = Whole[read] /\ remaining \in Nat \ {0}
           /\ Len(text) \in Nat /\ Len(text) + remaining = MaxCharacters
<1>1. Whole[read] \in Text /\ MaxCharacters \in Nat
  BY WholeDefined, LimitsAssumption DEF TextInv, TextType
<1>2. Len(text) = Smaller(MaxCharacters, Len(Whole[read])) /\ Len(Whole[read]) \in Nat
  BY <1>1, CutOf, LenProperties DEF TextInv, Text
<1>3. Len(Whole[read]) <= MaxCharacters
  BY <1>1, <1>2 DEF Smaller, TextInv
<1>4. Cut(Whole[read], MaxCharacters) = Whole[read]
  BY <1>1, <1>3, CutNothing DEF Text
<1> QED
  BY <1>1, <1>2, <1>3, <1>4 DEF Smaller, TextInv

\* An iteration that appends: the text stays a cut of the whole text.
LEMMA Appended ==
    ASSUME TextInv, remaining # 0, NEW p \in Parts, p # <<>>, AppendPart(p), read' = Append(read, p)
    PROVE  /\ text' = Cut(Whole[read'], MaxCharacters) /\ text' \in Text
           /\ remaining' = MaxCharacters - Len(text')
<1> DEFINE head == IF text = <<>> THEN <<>> ELSE <<Separator>>
           room == remaining - Len(head)
<1>1. text = Whole[read] /\ remaining \in Nat \ {0} /\ Len(text) \in Nat /\ Len(text) + remaining = MaxCharacters
  BY RoomLeft
<1>2. text \in Text /\ p \in Text /\ read \in Seq(Parts) /\ MaxCharacters \in Nat
  BY PartIsText, LimitsAssumption DEF TextInv, TextType
<1>3. head \in Text /\ Len(head) \in {0, 1}
  BY Single, EmptySeq DEF Text
<1>4. Whole[read'] = (text \o head) \o p
  <2>1. Whole[read'] = Added(text, p)
    BY <1>1, <1>2, WholeAppend
  <2>2. text = <<>> => (text \o <<>>) \o p = p
    BY <1>2, ConcatEmptySeq DEF Text
  <2> QED
    BY <2>1, <2>2 DEF Added
<1>5. text' = (text \o head) \o Cut(p, room) /\ remaining' = room - Smaller(Len(p), room)
  BY DEF AppendPart
<1> HIDE DEF head
<1>6. text \o head \in Text /\ Len(text \o head) = Len(text) + Len(head)
  BY <1>2, <1>3, ConcatProperties DEF Text
<1>7. room \in Nat /\ room = MaxCharacters - Len(text \o head) /\ Len(text \o head) <= MaxCharacters
  <2> DEFINE h == Len(head)
             l == Len(text)
             both == Len(text \o head)
  <2>1. /\ remaining \in Nat \ {0} /\ l \in Nat /\ l + remaining = MaxCharacters
        /\ MaxCharacters \in Nat /\ h \in {0, 1} /\ both = l + h
    BY <1>1, <1>2, <1>3, <1>6
  <2> HIDE DEF h, l, both
  <2>2. remaining - h \in Nat /\ remaining - h = MaxCharacters - both /\ both <= MaxCharacters
    BY ONLY <2>1
  <2> QED
    BY ONLY <2>2 DEF h, both, room
<1> HIDE DEF room
<1>8. Cut(Whole[read'], MaxCharacters) = (text \o head) \o Cut(p, room)
  BY <1>2, <1>4, <1>6, <1>7, CutAcross DEF Text
<1>9. Cut(p, room) \in Text /\ Len(Cut(p, room)) = Smaller(room, Len(p)) /\ Len(p) \in Nat
  BY <1>2, <1>7, CutOf, LenProperties DEF Text
<1>10. /\ (text \o head) \o Cut(p, room) \in Text
       /\ Len((text \o head) \o Cut(p, room)) = Len(text \o head) + Len(Cut(p, room))
  BY <1>6, <1>9, ConcatProperties, ZenonT(60) DEF Text
<1>11. Smaller(Len(p), room) = Smaller(room, Len(p)) /\ Smaller(room, Len(p)) \in Nat
  BY <1>7, <1>9 DEF Smaller
<1>12. Len(text \o head) \in Nat
  BY <1>1, <1>3, <1>6
<1> QED
  BY <1>2, <1>5, <1>7, <1>8, <1>9, <1>10, <1>11, <1>12

\* Every iteration and the ends of the loop.
LEMMA TextStep == TextInv /\ [TextNext]_textVars => TextInv'
<1> SUFFICES ASSUME TextInv, [TextNext]_textVars PROVE TextInv'
  OBVIOUS
<1>1. CASE UNCHANGED textVars
  BY <1>1 DEF textVars, TextInv, TextType
<1>2. CASE Open
  <2>1. parts' \in Seq(Parts)
    BY <1>2, LimitsAssumption, SeqDef DEF Open
  <2> QED
    BY <1>2, <2>1 DEF Open, TextInv, TextType
<1>3. CASE Join
  <2> DEFINE p == Head(parts)
  <2>1. /\ parts # <<>> /\ phase = "joining" /\ p \in Parts
        /\ parts' = Tail(parts) /\ parts' \in Seq(Parts)
        /\ read' = Append(read, p) /\ read' \in Seq(Parts)
        /\ read \in Seq(Parts) /\ text \in Text
    BY <1>3, HeadTailProperties, AppendProperties DEF Join, Take, TextInv, TextType
  <2> HIDE DEF p
  <2>2. CASE p # <<>> /\ remaining > 0 /\ AppendPart(p) /\ UNCHANGED phase
    <3>1. remaining # 0
      BY <2>2, RoomLeft
    <3> QED
      BY <2>1, <2>2, <3>1, Appended DEF TextInv, TextType
  <2>3. CASE p = <<>> /\ UNCHANGED <<text, remaining, phase>>
    <3>1. Whole[read'] = Whole[read]
      BY <2>1, <2>3, WholeAppend DEF Added
    <3> QED
      BY <2>1, <2>3, <3>1 DEF TextInv, TextType
  <2>4. CASE p # <<>> /\ remaining = 0 /\ UNCHANGED <<text, remaining>>
    <3>1. text = Cut(Whole[read \o <<p>>], MaxCharacters)
      BY <2>1, <2>4, Single, FullCut
    <3>2. read' = read \o <<p>>
      BY <2>1, AppendIsConcat
    <3> QED
      BY <2>1, <2>4, <3>1, <3>2 DEF TextInv, TextType
  <2> QED
    BY <1>3, <2>2, <2>3, <2>4 DEF Join, p
<1>4. CASE Exhausted
  BY <1>4 DEF Exhausted, TextInv, TextType
<1> QED
  BY <1>1, <1>2, <1>3, <1>4 DEF TextNext

\* The invariant of the loop.
LEMMA TextInvariant == TextSpec => []TextInv
BY TextStart, TextStep, PTL DEF TextSpec

\* Whatever the parts and the limit, the text that is stored is the whole text of
\* the document, cut at MAX_EXTRACTED_CHARACTERS, though the loop of
\* join_bounded_text stops early and counts what is left.
THEOREM NothingLost == TextSpec => []TextIsPrefix
<1>1. TextInv => TextIsPrefix
  <2> SUFFICES ASSUME TextInv PROVE TextIsPrefix
    OBVIOUS
  <2>1. ASSUME phase = "joined" PROVE text = Cut(Whole[read \o parts], MaxCharacters)
    <3>1. CASE parts = <<>>
      BY <3>1, ConcatEmptySeq DEF TextInv, TextType
    <3>2. CASE remaining = 0
      BY <3>2, FullCut DEF TextInv, TextType
    <3> QED
      BY <2>1, <3>1, <3>2 DEF TextInv
  <2> QED
    BY <2>1 DEF TextInv, TextIsPrefix
<1> QED
  BY <1>1, TextInvariant, PTL

\* Whatever the document, what derive_readiness says of its text is what create
\* and readers need: analysable when a character can be read, ready when there
\* are enough of them.
THEOREM ReadableAnalysed == TextSpec => []ReadableIsAnalysable
<1>1. TextInv => ReadableIsAnalysable
  <2> SUFFICES ASSUME TextInv PROVE ReadableIsAnalysable
    OBVIOUS
  <2>1. Len(text) \in Nat /\ (text = <<>> <=> Len(text) = 0) /\ Recommended \in Nat
    BY NotEmpty, LimitsAssumption DEF TextInv, TextType, Text
  <2>2. CASE Blank(text)
    <3>1. Quality(text) = "low" /\ Warnings(text) = {"NO_EXTRACTABLE_TEXT"}
      BY <2>2 DEF Quality, Warnings
    <3>2. Stored = "blocked" /\ Failed = "blocked"
      BY <3>1 DEF Stored, Failed, Readiness
    <3> QED
      BY <2>2, <3>2 DEF Blank, CharacterCount, Analysable, ReadableIsAnalysable
  <2>3. CASE ~Blank(text)
    <3>1. Len(text) > 0 /\ text # <<>>
      BY <2>1, <2>3 DEF Blank
    <3>2. IF Len(text) < Recommended
          THEN Quality(text) = "limited" /\ Warnings(text) = {"LIMITED_EXTRACTABLE_TEXT"}
          ELSE Quality(text) = "usable" /\ Warnings(text) = {}
      BY <2>3 DEF Quality, Warnings
    <3>3. /\ Stored = IF Len(text) < Recommended THEN "warning" ELSE "ready"
          /\ Failed = "blocked"
      BY <3>2 DEF Stored, Failed, Readiness
    <3> QED
      BY <2>1, <2>3, <3>1, <3>3 DEF Blank, CharacterCount, Analysable, ReadableIsAnalysable
  <2> QED
    BY <2>2, <2>3
<1> QED
  BY <1>1, TextInvariant, PTL

-----------------------------------------------------------------------------
(* ScoringV2: ScoresFollowGaps for any texts.                              *)

V2Text == [words : SUBSET Words, years : SUBSET Years, signals : SUBSET Signals]
V2Type == cvText \in V2Text /\ jobText \in V2Text

\* Nothing is written yet.
LEMMA V2Start == V2Init => V2Type
BY DEF V2Init, V2Type, V2Text, Unwritten

\* The texts stay within the vocabularies.
LEMMA V2Step == V2Type /\ [V2Next]_v2vars => V2Type'
<1> SUFFICES ASSUME V2Type, [V2Next]_v2vars PROVE V2Type'
  OBVIOUS
<1>1. CASE UNCHANGED v2vars
  BY <1>1 DEF v2vars, V2Type
<1>2. CASE Describe
  BY <1>2 DEF Describe, V2Type, V2Text, Signals
<1>3. CASE Elaborate
  BY <1>3 DEF Elaborate, V2Type, V2Text
<1> QED
  BY <1>1, <1>2, <1>3 DEF V2Next

\* Full exactly when nothing is missing.
Tells(c) ==
    /\ c.scores \subseteq 0 .. 100
    /\ c.scores # {} => (c.scores = {100} <=> c.missing = {})

\* A share of a set, rounded, and what is missing of the set.
LEMMA ShareTells ==
    ASSUME NEW S, IsFiniteSet(S), S # {}, Cardinality(S) <= 200, NEW A \in SUBSET S
    PROVE  /\ Tells(Component(Percents(Cardinality(A), Cardinality(S)), S \ A))
           /\ Component(Percents(Cardinality(A), Cardinality(S)), S \ A).scores # {}
<1> DEFINE a == Cardinality(A)
           b == Cardinality(S)
<1>1. a \in Nat /\ b \in Nat \ {0} /\ a <= b /\ (a = b <=> S \ A = {})
  BY PartsOf
<1>2. b <= 200
  OBVIOUS
<1> HIDE DEF a, b
<1>3. Percents(a, b) # {} /\ Percents(a, b) \subseteq 0 .. 100
  BY <1>1, PercentsNear, PercentsInRange
<1>4. Percents(a, b) = {100} <=> S \ A = {}
  BY <1>1, <1>2, FullScore, SmallGapsShow
<1> QED
  BY <1>3, <1>4 DEF Component, Tells, a, b

\* vocabulary_component and keyword_component.
LEMMA VocabularyTells ==
    ASSUME NEW vocabulary, IsFiniteSet(vocabulary), Cardinality(vocabulary) <= 200
    PROVE  Tells(VocabularyComponent(vocabulary)) /\ VocabularyComponent(vocabulary).scores # {}
<1> DEFINE required == jobText.words \cap vocabulary
           matched == required \cap cvText.words
<1>1. IsFiniteSet(required) /\ Cardinality(required) <= 200
  <2>1. Cardinality(required) <= Cardinality(vocabulary) /\ Cardinality(required) \in Nat
        /\ Cardinality(vocabulary) \in Nat
    BY PartsOf
  <2> QED
    BY <2>1, PartsOf
<1>2. CASE required = {}
  BY <1>2 DEF VocabularyComponent, NotApplicable, Component, Tells
<1>3. CASE required # {}
  <2>1. VocabularyComponent(vocabulary)
          = Component(Percents(Cardinality(matched), Cardinality(required)), required \ matched)
    BY <1>3 DEF VocabularyComponent
  <2>2. matched \in SUBSET required
    OBVIOUS
  <2> HIDE DEF required, matched
  <2> QED
    BY <1>1, <1>3, <2>1, <2>2, ShareTells
<1> QED
  BY <1>2, <1>3

\* ats_component, a share of four signals.
LEMMA AtsTells == V2Type => Tells(AtsComponent) /\ AtsComponent.scores # {}
<1> SUFFICES ASSUME V2Type PROVE Tells(AtsComponent) /\ AtsComponent.scores # {}
  OBVIOUS
<1>1. IsFiniteSet(Signals) /\ Cardinality(Signals) = 4
  <2> DEFINE two == {"contact", "experience"}
             three == {"contact", "experience", "education"}
  <2>1. IsFiniteSet({"contact"}) /\ Cardinality({"contact"}) = 1
    BY FS_Singleton
  <2>2. IsFiniteSet(two) /\ Cardinality(two) = 2
    <3>1. two = {"contact"} \cup {"experience"}
      OBVIOUS
    <3> QED
      BY <2>1, <3>1, FS_AddElement
  <2>3. IsFiniteSet(three) /\ Cardinality(three) = 3
    <3>1. three = two \cup {"education"} /\ "education" \notin two
      OBVIOUS
    <3> HIDE DEF three, two
    <3> QED
      BY <2>2, <3>1, FS_AddElement
  <2>4. Signals = three \cup {"skills"} /\ "skills" \notin three
    BY DEF Signals
  <2> HIDE DEF three
  <2> QED
    BY <2>3, <2>4, FS_AddElement
<1>2. cvText.signals \in SUBSET Signals /\ Signals # {}
  BY DEF V2Type, V2Text, Signals
<1> QED
  BY <1>1, <1>2, ShareTells DEF AtsComponent

\* maximum_years, of a text that has years in it.
LEMMA YearsWritten ==
    ASSUME NEW written \in V2Text, written.years # {}
    PROVE  MaximumYears(written) \in 0 .. 99 /\ (MaximumYears(written) = 0 <=> written.years = {0})
<1>1. written.years \subseteq 0 .. 99
  BY YearsAssumption DEF V2Text
<1>2. IsFiniteSet(written.years)
  <2>1. IsFiniteSet(0 .. 99)
    <3>1. 0 \in Int /\ 99 \in Int
      OBVIOUS
    <3> QED
      BY ONLY <3>1, FS_Interval, Zenon
  <2> QED
    BY <1>1, <2>1, FS_Subset
<1>3. Max(written.years) \in written.years /\ \A n \in written.years : n <= Max(written.years)
  BY <1>1, <1>2, Extremes
<1> QED
  BY <1>1, <1>3 DEF MaximumYears

\* experience_component, which fails when zero years are required.
LEMMA ExperienceTells ==
    V2Type => /\ Tells(ExperienceComponent)
              /\ ExperienceComponent.scores = {} <=> jobText.years = {0} /\ cvText.years # {}
<1> SUFFICES ASSUME V2Type
             PROVE  /\ Tells(ExperienceComponent)
                    /\ ExperienceComponent.scores = {} <=> jobText.years = {0} /\ cvText.years # {}
  OBVIOUS
<1> DEFINE required == MaximumYears(jobText)
           held == MaximumYears(cvText)
           scores == {Min({100, s}) : s \in Percents(held, required)}
<1>1. cvText \in V2Text /\ jobText \in V2Text
  BY DEF V2Type
<1>2. CASE jobText.years = {}
  BY <1>2 DEF ExperienceComponent, NotApplicable, Component, Tells
<1>3. CASE jobText.years # {} /\ cvText.years = {}
  BY <1>3 DEF ExperienceComponent, Component, Tells
<1>4. CASE jobText.years # {} /\ cvText.years # {} /\ required = 0
  <2>1. ExperienceComponent = Component({}, {})
    BY <1>4 DEF ExperienceComponent
  <2> QED
    BY <1>1, <1>4, <2>1, YearsWritten DEF Component, Tells
<1>5. CASE jobText.years # {} /\ cvText.years # {} /\ required # 0
  <2>1. ExperienceComponent = Component(scores, IF scores = {100} THEN {} ELSE {"years"})
    BY <1>5 DEF ExperienceComponent
  <2>2. required \in Nat \ {0} /\ held \in Nat
    BY <1>1, <1>5, YearsWritten
  <2> HIDE DEF required, held
  <2>3. Percents(held, required) # {} /\ Percents(held, required) \subseteq Nat
    BY <2>2, PercentsNear
  <2>4. ASSUME NEW s \in Nat PROVE Min({100, s}) \in 0 .. 100
    <3>1. {100, s} \in SUBSET Int /\ IsFiniteSet({100, s})
      <4>1. IsFiniteSet({100}) /\ {100, s} = {100} \cup {s}
        BY FS_Singleton
      <4> QED
        BY <4>1, FS_AddElement
    <3>2. Min({100, s}) \in {100, s} /\ Min({100, s}) <= 100
      BY <3>1, Extremes
    <3> QED
      BY <3>2
  <2>5. scores # {} /\ scores \subseteq 0 .. 100
    BY <2>3, <2>4
  <2>6. jobText.years # {0}
    BY <1>1, <1>5, YearsWritten DEF required
  <2> HIDE DEF scores
  <2> QED
    BY <2>1, <2>5, <2>6 DEF Component, Tells
<1> QED
  BY <1>2, <1>3, <1>4, <1>5

\* education_component: one of four results.
LEMMA EducationTells == Tells(EducationComponent) /\ EducationComponent.scores # {}
<1> DEFINE wanted == jobText.words \cap Degrees
           held == cvText.words \cap Degrees
<1>1. \/ EducationComponent = NotApplicable
      \/ EducationComponent = Component({0}, {"degree"})
      \/ EducationComponent = Component({100}, {})
      \/ EducationComponent = Component({50}, {"degree"})
  <2>1. CASE wanted = {}
    BY <2>1 DEF EducationComponent
  <2>2. CASE wanted # {} /\ held = {}
    BY <2>2 DEF EducationComponent
  <2>3. CASE wanted # {} /\ held # {}
    BY <2>3 DEF EducationComponent
  <2> QED
    BY <2>1, <2>2, <2>3
<1> QED
  BY <1>1 DEF NotApplicable, Component, Tells

\* The five components.
LEMMA AllTell ==
    V2Type =>
        \A i \in 1 .. 5 :
            /\ Tells(Components[i])
            /\ Components[i].scores = {} <=> i = 2 /\ jobText.years = {0} /\ cvText.years # {}
<1> SUFFICES ASSUME V2Type
             PROVE  \A i \in 1 .. 5 :
                        /\ Tells(Components[i])
                        /\ Components[i].scores = {} <=> i = 2 /\ jobText.years = {0} /\ cvText.years # {}
  OBVIOUS
<1>1. Tells(VocabularyComponent(SkillWords)) /\ VocabularyComponent(SkillWords).scores # {}
  <2>1. IsFiniteSet(SkillWords) /\ Cardinality(SkillWords) <= 200
    <3>1. SkillWords \in SUBSET (SkillWords \cup OtherKeywords)
      OBVIOUS
    <3> QED
      BY <3>1, VocabularyAssumption, PartsOf
  <2> QED
    BY <2>1, VocabularyTells
<1>2. /\ Tells(VocabularyComponent(SkillWords \cup OtherKeywords))
      /\ VocabularyComponent(SkillWords \cup OtherKeywords).scores # {}
  BY VocabularyAssumption, VocabularyTells
<1>3. /\ Components[1] = VocabularyComponent(SkillWords)
      /\ Components[2] = ExperienceComponent
      /\ Components[3] = VocabularyComponent(SkillWords \cup OtherKeywords)
      /\ Components[4] = EducationComponent
      /\ Components[5] = AtsComponent
  BY DEF Components
<1>4. 1 .. 5 = {1, 2, 3, 4, 5}
  OBVIOUS
<1> QED
  BY <1>1, <1>2, <1>3, <1>4, ExperienceTells, EducationTells, AtsTells

\* The overall score, between the components.
LEMMA ScoresTell == V2Type => ScoresFollowGaps
<1> SUFFICES ASSUME V2Type PROVE ScoresFollowGaps
  OBVIOUS
<1> DEFINE c == Components
           all == UNION {c[i].scores : i \in 1 .. 5}
           overall(s, e, k, d, a) == HalfEven(35 * s + 20 * e + 25 * k + 10 * d + 10 * a)
<1>1. \A i \in 1 .. 5 : Tells(c[i]) /\ (c[i].scores = {} <=> i = 2 /\ jobText.years = {0} /\ cvText.years # {})
  BY AllTell
<1>2. OverallScores = {overall(s, e, k, d, a) : s \in c[1].scores, e \in c[2].scores, k \in c[3].scores,
                                                d \in c[4].scores, a \in c[5].scores}
  BY DEF OverallScores
<1> HIDE DEF c
<1>3. /\ 1 \in 1 .. 5 /\ 2 \in 1 .. 5 /\ 3 \in 1 .. 5 /\ 4 \in 1 .. 5 /\ 5 \in 1 .. 5
  OBVIOUS
<1>4. OverallScores = {} <=> c[2].scores = {}
  <2>1. c[1].scores # {} /\ c[3].scores # {} /\ c[4].scores # {} /\ c[5].scores # {}
    BY <1>1, <1>3
  <2> HIDE DEF overall
  <2>2. ASSUME c[2].scores # {} PROVE OverallScores # {}
    <3>1. PICK s \in c[1].scores, e \in c[2].scores, k \in c[3].scores, d \in c[4].scores, a \in c[5].scores : TRUE
      BY <2>1, <2>2
    <3>2. overall(s, e, k, d, a) \in OverallScores
      BY <1>2
    <3> QED
      BY <3>2
  <2>3. ASSUME NEW o \in OverallScores PROVE c[2].scores # {}
    BY <1>2
  <2> QED
    BY <2>2, <2>3
<1>5. all \subseteq 0 .. 100
  BY <1>1 DEF Tells
<1>6. \A i \in 1 .. 5 : c[i].scores \subseteq all
  OBVIOUS
<1>7. ASSUME NEW o \in OverallScores PROVE Min(all) <= o /\ o <= Max(all)
  <2> HIDE DEF overall, all
  <2>1. PICK s \in c[1].scores, e \in c[2].scores, k \in c[3].scores, d \in c[4].scores, a \in c[5].scores :
            o = overall(s, e, k, d, a)
    BY <1>2
  <2>2. {s, e, k, d, a} \subseteq all
    BY <1>3, <1>6
  <2>3. IsFiniteSet(all) /\ all # {} /\ all \subseteq Int
    <3>1. IsFiniteSet(0 .. 100)
      <4>1. 0 \in Int /\ 100 \in Int
        OBVIOUS
      <4> QED
        BY ONLY <4>1, FS_Interval, Zenon
    <3> QED
      <4>1. IsFiniteSet(all)
        BY <1>5, <3>1, FS_Subset
      <4>2. 0 .. 100 \subseteq Int
        OBVIOUS
      <4> QED
        BY ONLY <1>5, <2>2, <4>1, <4>2
  <2>4. /\ Max(all) \in 0 .. 100 /\ Min(all) \in 0 .. 100
        /\ \A n \in all : Min(all) <= n /\ n <= Max(all)
    BY <1>5, <2>3, Extremes
  <2>5. \A n \in {s, e, k, d, a} : n \in 0 .. 100 /\ Min(all) <= n /\ n <= Max(all)
    BY <1>5, <2>2, <2>4
  <2> QED
    <3> DEFINE low == Min(all)
               high == Max(all)
               n == 35 * s + 20 * e + 25 * k + 10 * d + 10 * a
    <3>1. low \in Nat /\ high \in Nat
      BY <2>4
    <3>2. n \in Nat /\ 100 * low <= n /\ n <= 100 * high
      <4>1. /\ s \in Nat /\ low <= s /\ s <= high
            /\ e \in Nat /\ low <= e /\ e <= high
            /\ k \in Nat /\ low <= k /\ k <= high
            /\ d \in Nat /\ low <= d /\ d <= high
            /\ a \in Nat /\ low <= a /\ a <= high
        BY <2>5
      <4> HIDE DEF low, high
      <4> QED
        BY ONLY <3>1, <4>1
    <3> HIDE DEF low, high, n
    <3>3. low <= HalfEven(n) /\ HalfEven(n) <= high
      BY <3>1, <3>2, HalfEvenBetween
    <3> QED
      BY <2>1, <3>3 DEF overall, low, high, n
<1>8. ASSUME OverallScores # {}, \A i \in 1 .. 5 : c[i].missing = {} PROVE OverallScores = {100}
  <2>1. \A i \in 1 .. 5 : c[i].scores = {100}
    BY <1>1, <1>4, <1>8 DEF Tells
  <2>2. OverallScores = {overall(100, 100, 100, 100, 100)}
    <3> HIDE DEF overall
    <3> QED
      BY <1>2, <1>3, <2>1
  <2>3. overall(100, 100, 100, 100, 100) = 100
    BY DEF HalfEven
  <2> QED
    BY <2>2, <2>3
<1> QED
  <2>1. OverallScores = {} <=> jobText.years = {0} /\ cvText.years # {}
    BY <1>1, <1>3, <1>4
  <2>2. \A i \in 1 .. 5 : c[i].scores # {} => (c[i].scores = {100} <=> c[i].missing = {})
    BY <1>1 DEF Tells
  <2> QED
    BY <1>7, <1>8, <2>1, <2>2 DEF ScoresFollowGaps, c

\* Whatever the texts say, deterministic-v2 scores a component 100 exactly when it
\* lists no gap, and the only calculation that fails is the requirement of zero
\* years; for vocabularies of at most 200 words.
THEOREM ScoresExplained == V2Spec => []ScoresFollowGaps
<1>1. V2Spec => []V2Type
  BY V2Start, V2Step, PTL DEF V2Spec
<1> QED
  BY <1>1, ScoresTell, PTL

-----------------------------------------------------------------------------
(* ScoringV3: the report and the score for any requirements.               *)

V3Type ==
    /\ requirements = [i \in Ids |-> requirements[i]]
    /\ \A i \in Present : requirements[i].category \in Categories /\ requirements[i].priority \in 1 .. 100

\* The requirements of a target role are finitely many.
LEMMA FiniteIds == Ids \subseteq Int /\ IsFiniteSet(Ids)
BY IdsAssumption

\* No requirement exists.
LEMMA V3Start == V3Init => V3Type
BY DEF V3Init, V3Type, Present

\* What the requirements API lets a requirement be.
LEMMA V3Step == V3Type /\ [V3Next]_v3vars => V3Type'
<1> SUFFICES ASSUME V3Type, [V3Next]_v3vars PROVE V3Type'
  OBVIOUS
<1> USE DEF V3Type, Present
<1>1. CASE UNCHANGED v3vars
  BY <1>1 DEF v3vars
<1>2. CASE Mention
  BY <1>2 DEF Mention
<1>3. ASSUME NEW i \in Ids, Write(i) PROVE V3Type'
  <2>1. PICK r \in Requirements : requirements' = [requirements EXCEPT ![i] = r]
    BY <1>3 DEF Write
  <2>2. r.category \in Categories /\ r.priority \in 1 .. 100
    BY PrioritiesAssumption DEF Requirements, Categories
  <2> QED
    BY <2>1, <2>2
<1>4. ASSUME NEW i \in Ids, Remove(i) PROVE V3Type'
  BY <1>4 DEF Remove
<1> QED
  BY <1>1, <1>2, <1>3, <1>4 DEF V3Next

Weights == [i \in Present |-> Weight(i)]

\* A requirement weighs something.
LEMMA WeightsPositive ==
    V3Type => \A i \in Present : Base(i) \in {10, 30, 60} /\ Weight(i) \in Nat \ {0}
BY DEF V3Type, Weight, Base, BaseWeight, Categories

\* ... and those that exist are finitely many.
LEMMA PresentFinite == IsFiniteSet(Present)
BY FiniteIds, FS_Subset DEF Present

\* Total is a sum.
LEMMA TotalIsSum ==
    V3Type => \E G : Sums(Present, Weights, G) /\ \A A \in SUBSET Present : Total(A) = G[A]
<1> SUFFICES ASSUME V3Type PROVE \E G : Sums(Present, Weights, G) /\ \A A \in SUBSET Present : Total(A) = G[A]
  OBVIOUS
<1>1. Weights \in [Present -> Nat] /\ IsFiniteSet(Present)
  BY WeightsPositive, PresentFinite DEF Weights
<1>2. PICK G : Sums(Present, Weights, G)
  BY <1>1, SumsExist
<1>3. ASSUME NEW A \in SUBSET Present PROVE Total(A) = G[A]
  <2> DEFINE P(F) == F = [s \in SUBSET A |-> IF s = {} THEN 0 ELSE Weight(Pick(s)) + F[s \ {Pick(s)}]]
  <2>1. Total(A) = (CHOOSE F : P(F))[A]
    BY DEF Total, MapThenSumSet, MapThenFoldSet, Pick
  <2>2. ASSUME NEW F PROVE P(F) <=> Folds(A, Weights, F)
    <3>1. \A s \in SUBSET A : s # {} => Weights[Pick(s)] = Weight(Pick(s))
      BY Picked DEF Weights
    <3>2. [s \in SUBSET A |-> IF s = {} THEN 0 ELSE Weights[Pick(s)] + F[s \ {Pick(s)}]]
        = [s \in SUBSET A |-> IF s = {} THEN 0 ELSE Weight(Pick(s)) + F[s \ {Pick(s)}]]
      BY <3>1
    <3> QED
      BY <3>2 DEF Folds
  <2>3. \E F : P(F)
    BY <1>1, <1>2, <2>2, FoldsExist
  <2> HIDE DEF P
  <2>4. P(CHOOSE F : P(F))
    BY <2>3
  <2> QED
    BY <1>1, <1>2, <2>1, <2>2, <2>4, SumsUnique
<1> QED
  BY <1>2, <1>3

\* What a part of the requirements weighs.
LEMMA Weighing ==
    V3Type =>
        /\ \A A \in SUBSET Present : Total(A) \in Nat /\ (Total(A) = 0 <=> A = {})
        /\ \A A, B \in SUBSET Present : A \cap B = {} => Total(A \cup B) = Total(A) + Total(B)
<1> SUFFICES ASSUME V3Type
             PROVE  /\ \A A \in SUBSET Present : Total(A) \in Nat /\ (Total(A) = 0 <=> A = {})
                    /\ \A A, B \in SUBSET Present : A \cap B = {} => Total(A \cup B) = Total(A) + Total(B)
  OBVIOUS
<1>1. PICK G : Sums(Present, Weights, G) /\ \A A \in SUBSET Present : Total(A) = G[A]
  BY TotalIsSum
<1>2. Weights \in [Present -> Nat] /\ IsFiniteSet(Present) /\ \A i \in Present : Weights[i] \in Nat \ {0}
  BY WeightsPositive, PresentFinite DEF Weights
<1>3. ASSUME NEW A \in SUBSET Present PROVE Total(A) \in Nat /\ (Total(A) = 0 <=> A = {})
  <2>1. G[A] \in Nat /\ G[{}] = 0
    BY <1>1 DEF Sums
  <2>2. ASSUME NEW x \in A PROVE G[A] # 0
    <3>1. G[A] = Weights[x] + G[A \ {x}] /\ G[A \ {x}] \in Nat
      BY <1>1 DEF Sums
    <3> QED
      BY <1>2, <3>1
  <2> QED
    BY <1>1, <2>1, <2>2
<1>4. ASSUME NEW A \in SUBSET Present, NEW B \in SUBSET Present, A \cap B = {}
      PROVE  Total(A \cup B) = Total(A) + Total(B)
  <2>1. G[A \cup B] = G[A] + G[B]
    BY <1>1, <1>2, <1>4, SumOfTwo
  <2> QED
    BY <1>1, <2>1
<1> QED
  BY <1>3, <1>4

\* Of the requirements that name a skill, one outranks the others.
LEMMA OneOutranks ==
    ASSUME V3Type, NEW A \in SUBSET Present, A # {}
    PROVE  \E i \in A : \A j \in A \ {i} : Outranks(i, j)
<1> DEFINE B == {i \in A : \A j \in A : Base(j) <= Base(i)}
           C == {i \in B : \A j \in B : requirements[j].priority <= requirements[i].priority}
<1>1. \A i \in A : Base(i) \in Int /\ requirements[i].priority \in Int /\ i \in Int
  BY WeightsPositive, FiniteIds DEF V3Type, Present
<1>2. IsFiniteSet(A) /\ IsFiniteSet(B) /\ IsFiniteSet(C)
  BY PresentFinite, FS_Subset
<1>3. B # {}
  <2>1. [i \in A |-> Base(i)] \in [A -> Int]
    BY <1>1
  <2>2. \E i \in A : \A j \in A : [k \in A |-> Base(k)][j] <= [k \in A |-> Base(k)][i]
    BY <1>2, <2>1, Greatest
  <2> QED
    BY <2>2
<1>4. C # {}
  <2>1. [i \in B |-> requirements[i].priority] \in [B -> Int]
    BY <1>1
  <2>2. \E i \in B : \A j \in B : [k \in B |-> requirements[k].priority][j] <= [k \in B |-> requirements[k].priority][i]
    BY <1>2, <1>3, <2>1, Greatest
  <2> QED
    BY <2>2
<1>5. PICK i \in C : \A j \in C : j <= i
  <2>1. [j \in C |-> j] \in [C -> Int]
    BY <1>1
  <2>2. \E i \in C : \A j \in C : [k \in C |-> k][j] <= [k \in C |-> k][i]
    BY <1>2, <1>4, <2>1, Greatest
  <2> QED
    BY <2>2
<1>6. ASSUME NEW j \in A \ {i} PROVE Outranks(i, j)
  BY <1>1, <1>5 DEF Outranks
<1> QED
  BY <1>5, <1>6

\* Of two requirements one at most outranks the other, of no lesser category.
LEMMA OutranksOneWay ==
    ASSUME V3Type, NEW i \in Present, NEW j \in Present, Outranks(i, j)
    PROVE  ~Outranks(j, i) /\ Base(j) <= Base(i)
<1>1. \A k \in {i, j} : Base(k) \in Int /\ requirements[k].priority \in Int /\ k \in Int
  BY WeightsPositive, FiniteIds DEF V3Type, Present
<1> QED
  BY <1>1 DEF Outranks

\* A skill that requirements name is found or not found once.
LEMMA SkillsToldOnce ==
    ASSUME V3Type, NEW i0 \in Eligible
    PROVE  LET about == {i \in Eligible : requirements[i].skill = requirements[i0].skill}
           IN  \E i \in about :
                /\ {j \in about : Entry(j) \in {"MATCHED", "NOT_FOUND_IN_PROVIDED_CV"}} = {i}
                /\ \A j \in about : Base(j) <= Base(i)
<1> DEFINE about == {i \in Eligible : requirements[i].skill = requirements[i0].skill}
<1>1. about \in SUBSET Present /\ about # {}
  BY DEF Eligible, Reviewed
<1>2. PICK i \in about : \A j \in about \ {i} : Outranks(i, j)
  BY <1>1, OneOutranks
<1>3. \A j \in about : Rivals(j) = about \ {j}
  BY DEF Rivals
<1>4. \A j \in about : j \in Effective <=> j = i
  BY <1>1, <1>2, <1>3, OutranksOneWay DEF Effective
<1>5. \A j \in about : Entry(j) \in {"MATCHED", "NOT_FOUND_IN_PROVIDED_CV"} <=> j \in Effective
  <2> SUFFICES ASSUME NEW j \in about PROVE Entry(j) \in {"MATCHED", "NOT_FOUND_IN_PROVIDED_CV"} <=> j \in Effective
    OBVIOUS
  <2>1. j \in Reviewed /\ j \in Eligible
    BY DEF Eligible
  <2>2. Matched \subseteq Effective /\ Gaps = Effective \ Matched
    BY DEF Matched, Gaps
  <2>3. CASE j \notin Effective
    BY <2>1, <2>2, <2>3 DEF Entry
  <2>4. CASE j \in Matched
    BY <2>1, <2>2, <2>4 DEF Entry
  <2>5. CASE j \in Gaps
    BY <2>1, <2>2, <2>5 DEF Entry
  <2> QED
    BY <2>2, <2>3, <2>4, <2>5
<1>6. \A j \in about : Base(j) <= Base(i)
  <2>1. Base(i) \in {10, 30, 60}
    BY <1>1, WeightsPositive
  <2> QED
    BY <1>1, <1>2, <2>1, OutranksOneWay
<1> QED
  BY <1>4, <1>5, <1>6

\* What is found and what is not make up the denominator.
LEMMA ScoresWeigh ==
    ASSUME V3Type
    PROVE  /\ Numerator \in Nat /\ Denominator \in Nat /\ Total(Gaps) \in Nat
           /\ Denominator = Numerator + Total(Gaps)
           /\ Total(Gaps) = 0 <=> Gaps = {}
           /\ Denominator = 0 <=> Effective = {}
<1>1. Matched \in SUBSET Present /\ Gaps \in SUBSET Present /\ Effective \in SUBSET Present
  BY DEF Matched, Gaps, Effective, Eligible, Reviewed
<1>2. Matched \cap Gaps = {} /\ Effective = Matched \cup Gaps
  BY DEF Matched, Gaps
<1> QED
  BY <1>1, <1>2, Weighing DEF Numerator, Denominator

\* The two totals of a report are values of one sum.
Weighed ==
    /\ Numerator \in Nat /\ Denominator \in Nat /\ Numerator <= Denominator
    /\ \E G : Sums(Present, Weights, G) /\ Numerator = G[Matched] /\ Denominator = G[Effective]

\* Total is that sum.
LEMMA TotalsWeighed == V3Type => Weighed
<1> SUFFICES ASSUME V3Type PROVE Weighed
  OBVIOUS
<1>1. Matched \in SUBSET Present /\ Effective \in SUBSET Present
  BY DEF Matched, Effective, Eligible, Reviewed
<1>2. \E G : Sums(Present, Weights, G) /\ Numerator = G[Matched] /\ Denominator = G[Effective]
  BY <1>1, TotalIsSum DEF Numerator, Denominator
<1> QED
  BY <1>2, ScoresWeigh DEF Weighed

\* The properties of a report, of any requirements.
LEMMA ReportProper == V3Type => ReportFollowsSkills
<1> SUFFICES ASSUME V3Type PROVE ReportFollowsSkills
  OBVIOUS
<1>1. \A s \in {requirements[i].skill : i \in Eligible} :
        LET about == {i \in Eligible : requirements[i].skill = s}
        IN  \E i \in about :
                /\ {j \in about : Entry(j) \in {"MATCHED", "NOT_FOUND_IN_PROVIDED_CV"}} = {i}
                /\ \A j \in about : Base(j) <= Base(i)
  BY SkillsToldOnce
<1>2. Gaps = {} /\ Effective # {} => Scores = {100}
  BY ScoresWeigh, FullScore DEF Scores
<1>3. 100 \in Scores => 200 * Total(Gaps) <= Denominator
  BY ScoresWeigh, FullConceals DEF Scores
<1>4. 0 \in Scores => 200 * Numerator <= Denominator
  BY ScoresWeigh, ZeroConceals DEF Scores
<1> QED
  BY <1>1, <1>2, <1>3, <1>4 DEF ReportFollowsSkills

\* Whatever the requirements are edited to and the CV says, a report of
\* deterministic-v3 tells of each skill once, and its score conceals a 200th part
\* of the weight at most.
THEOREM SkillsReported == V3Spec => []ReportFollowsSkills
<1>1. V3Spec => []V3Type
  BY V3Start, V3Step, PTL DEF V3Spec
<1> QED
  BY <1>1, ReportProper, PTL
\* More skills in the CV and the same requirements.
LEMMA MoreFound ==
    ASSUME V3Type, V3Type', requirements' = requirements, cvNames \subseteq cvNames'
    PROVE  /\ Matched \subseteq Matched' /\ Denominator' = Denominator
           /\ Numerator <= Numerator'
<1>1. /\ Present' = Present /\ Weights' = Weights /\ Effective' = Effective
  BY DEF Present, Weights, Weight, Base, Effective, Eligible, Reviewed, Rivals, Outranks
<1>2. Matched \subseteq Matched'
  <2>1. CvTerms \subseteq CvTerms'
    BY DEF CvTerms
  <2> QED
    BY <1>1, <2>1 DEF Matched
<1>3. PICK G : Sums(Present, Weights, G) /\ Numerator = G[Matched] /\ Denominator = G[Effective]
  BY TotalsWeighed DEF Weighed
<1>4. PICK H : Sums(Present', Weights', H) /\ Numerator' = H[Matched'] /\ Denominator' = H[Effective']
  <2>1. V3Type' => Weighed'
    BY TotalsWeighed, PTL
  <2> QED
    BY <2>1 DEF Weighed
<1>5. Sums(Present, Weights, H)
  BY <1>1, <1>4
<1>6. Weights \in [Present -> Nat] /\ IsFiniteSet(Present)
  BY WeightsPositive, PresentFinite DEF Weights
<1>7. Effective \in SUBSET Present /\ Matched \in SUBSET Present /\ Matched' \in SUBSET Present
  BY <1>1 DEF Matched, Effective, Eligible, Reviewed
<1>8. G[Effective] = H[Effective] /\ G[Matched] = H[Matched]
  BY <1>3, <1>5, <1>6, <1>7, SumsEqual
<1>9. H[Matched] <= H[Matched']
  <2> DEFINE more == Matched' \ Matched
  <2>1. Matched' = Matched \cup more /\ Matched \cap more = {} /\ more \in SUBSET Present
    BY <1>2, <1>7
  <2> HIDE DEF more
  <2>2. H[Matched \cup more] = H[Matched] + H[more]
    BY <1>5, <1>6, <1>7, <2>1, SumOfTwo
  <2>3. H[Matched] \in Nat /\ H[more] \in Nat
    BY <1>5, <1>7, <2>1 DEF Sums
  <2> QED
    BY <2>1, <2>2, <2>3
<1> QED
  BY <1>1, <1>2, <1>3, <1>4, <1>8, <1>9

\* For any requirements and weights, a version of the CV that names more skills
\* finds no fewer and is scored no lower, rounding included.
THEOREM EvidenceKept == V3Spec => EvidenceNeverCosts
<1>1. V3Spec => []V3Type
  BY V3Start, V3Step, PTL DEF V3Spec
<1>2. V3Type /\ V3Type' /\ [V3Next]_v3vars =>
        [requirements' = requirements /\ cvNames \subseteq cvNames' =>
            /\ Matched \subseteq Matched'
            /\ Numerator # Numerator' => \A old \in Scores, new \in Scores' : old <= new]_v3vars
  <2> SUFFICES ASSUME V3Type, V3Type', requirements' = requirements, cvNames \subseteq cvNames',
                      Numerator # Numerator', NEW old \in Scores, NEW new \in Scores'
               PROVE  old <= new
    BY MoreFound
  <2>1. /\ Numerator \in Nat /\ Denominator \in Nat /\ Numerator <= Denominator
        /\ Numerator' \in Nat /\ Denominator' = Denominator /\ Numerator' <= Denominator
        /\ Numerator < Numerator'
    <3>1. Weighed /\ Weighed'
      BY TotalsWeighed, PTL
    <3> QED
      BY <3>1, MoreFound DEF Weighed
  <2>2. old \in Percents(Numerator, Denominator) /\ new \in Percents(Numerator', Denominator)
    BY <2>1 DEF Scores
  <2> QED
    BY <2>1, <2>2, PercentsGrow
<1> QED
  BY <1>1, <1>2, PTL DEF V3Spec, EvidenceNeverCosts

-----------------------------------------------------------------------------
(* Pages: EachRowListedOnce for lists, pages and moves of any size.        *)

(* The inductive invariant: rows behind the place where the walk goes on    *)
(* have been handed out, rows ahead of it only before they were moved.      *)

PagesType ==
    /\ list \in Lists
    /\ place \in [Rows -> Places \cup {Unused, Removed}]
    /\ walk \in {"idle", "asking", "reading", "done", "notFound"}
    /\ cursor \in Rows \cup {NoRow}
    /\ from \in Places \cup {Unused}
    /\ listed \in [Rows -> Nat] /\ moved \in [Rows -> Nat]
    /\ settled \in SUBSET Rows
    /\ shifted \in BOOLEAN

\* The walk goes on from a place that is still the one the last page ended at.
Known == ~shifted /\ (walk = "reading" \/ (walk = "asking" /\ Lives(cursor)))

CursorPlace == IF walk = "reading" THEN from ELSE place[cursor]

Ahead(r) == Lives(r) /\ (cursor = NoRow \/ After(place[r], r, CursorPlace, cursor))

CursorRead ==
    /\ walk = "asking" => cursor \in Rows /\ place[cursor] # Unused
    /\ walk = "reading" /\ cursor # NoRow => from \in Places

SettledLive == \A r \in settled : Lives(r) /\ moved[r] = 0

UnusedUnlisted == \A r \in Rows : place[r] = Unused => listed[r] = 0

Untouched ==
    walk = "idle" =>
        /\ cursor = NoRow /\ ~shifted
        /\ \A r \in Rows : listed[r] = 0 /\ moved[r] = 0

OnlyRequirementsMove ==
    list # "requirements" => ~shifted /\ \A r \in Rows : moved[r] = 0

OncePerMove == ~shifted => \A r \in Rows : listed[r] <= 1 + moved[r]

AheadUnlisted == Known => \A r \in Rows : Ahead(r) => listed[r] <= moved[r]

BehindListed == Known => \A r \in settled : ~Ahead(r) => listed[r] = 1

EndListed == ~shifted /\ walk = "done" => \A r \in settled : listed[r] = 1

PagesInv ==
    /\ PagesType /\ CursorRead /\ SettledLive /\ UnusedUnlisted /\ Untouched
    /\ OnlyRequirementsMove /\ OncePerMove /\ AheadUnlisted /\ BehindListed /\ EndListed

-----------------------------------------------------------------------------
(* Facts.                                                                   *)

\* The constants that are no rows and no places.
LEMMA Constants ==
    /\ Rows \subseteq Nat /\ NoRow \notin Rows /\ IsFiniteSet(Rows)
    /\ Places \subseteq Nat /\ Unused \notin Places /\ Removed \notin Places
    /\ Unused # Removed
    /\ PageLimit \in Nat \ {0}
BY RowsAssumption, PlacesAssumption, PageAssumption DEF NoRow, Unused, Removed

\* The order of a list is transitive.
LEMMA AfterTransitive ==
    ASSUME NEW p \in Nat, NEW q \in Nat, NEW u \in Nat,
           NEW r \in Nat, NEW s \in Nat, NEW t \in Nat,
           After(p, r, q, s), After(q, s, u, t)
    PROVE  After(p, r, u, t)
BY DEF After

\* ... and asymmetric.
LEMMA AfterAsymmetric ==
    ASSUME NEW p \in Nat, NEW q \in Nat, NEW r \in Nat, NEW s \in Nat,
           After(p, r, q, s)
    PROVE  ~After(q, s, p, r)
BY DEF After

-----------------------------------------------------------------------------
(* The steps.                                                               *)

\* An empty service with no walk begun.
LEMMA PagesStart == PagesInit => PagesInv
<1> SUFFICES ASSUME PagesInit PROVE PagesInv
    OBVIOUS
<1> USE DEF PagesInit
<1>1. PagesType
    BY Constants DEF PagesType, Lists
<1>2. CursorRead /\ SettledLive /\ UnusedUnlisted /\ Untouched
    BY DEF CursorRead, SettledLive, UnusedUnlisted, Untouched
<1>3. OnlyRequirementsMove /\ OncePerMove /\ AheadUnlisted /\ BehindListed /\ EndListed
    BY DEF OnlyRequirementsMove, OncePerMove, AheadUnlisted, BehindListed, EndListed, Known
<1> QED BY <1>1, <1>2, <1>3 DEF PagesInv

\* A step that leaves everything alone.
LEMMA PagesStutter == PagesInv /\ UNCHANGED pagesVars => PagesInv'
BY DEF pagesVars, PagesInv, PagesType, CursorRead, SettledLive, UnusedUnlisted, Untouched,
    OnlyRequirementsMove, OncePerMove, AheadUnlisted, BehindListed, EndListed, Known, CursorPlace,
    Ahead, Lives, After

\* A walk begins: every row is ahead, none is listed.
LEMMA OpenStep ==
    ASSUME PagesInv, OpenList
    PROVE  PagesInv'
<1> USE Constants DEF PagesInv, PagesType
<1>1. PagesType'
    BY DEF OpenList, Lists
<1>2. CursorRead'
    BY DEF OpenList, CursorRead, Untouched
<1>3. SettledLive'
    BY DEF OpenList, SettledLive, Untouched, Lives
<1>4. UnusedUnlisted'
    BY DEF OpenList, UnusedUnlisted, Untouched
<1>5. Untouched'
    BY DEF OpenList, Untouched
<1>6. OnlyRequirementsMove'
    BY DEF OpenList, OnlyRequirementsMove, Untouched
<1>7. OncePerMove'
    BY DEF OpenList, OncePerMove, Untouched
<1>8. AheadUnlisted'
    BY DEF OpenList, AheadUnlisted, Known, Ahead, CursorPlace, After, Lives, OncePerMove, Untouched, UnusedUnlisted
<1>9. BehindListed'
    BY DEF OpenList, BehindListed, Untouched, Known, Ahead, Lives
<1>10. EndListed'
    BY DEF OpenList, EndListed
<1> QED BY <1>1, <1>2, <1>3, <1>4, <1>5, <1>6, <1>7, <1>8, <1>9, <1>10 DEF PagesInv

\* A new row has not been listed.
LEMMA AddStep ==
    ASSUME PagesInv, NEW x \in Rows, Add(x)
    PROVE  PagesInv'
<1> USE Constants DEF PagesInv, PagesType
<1>1. PagesType'
    BY DEF Add, Lists
<1>2. CursorRead'
    BY DEF Add, CursorRead, Lives
<1>3. SettledLive'
    BY DEF Add, SettledLive, Lives
<1>4. UnusedUnlisted'
    BY DEF Add, UnusedUnlisted, Lives
<1>5. Untouched'
    BY DEF Add, Untouched
<1>6. OnlyRequirementsMove'
    BY DEF Add, OnlyRequirementsMove
<1>7. OncePerMove'
    BY DEF Add, OncePerMove
<1>8. AheadUnlisted'
    BY DEF Add, AheadUnlisted, CursorRead, Known, Ahead, CursorPlace, After, Lives, OncePerMove, Untouched, UnusedUnlisted
<1>9. BehindListed'
    BY DEF Add, BehindListed, CursorRead, SettledLive, Known, Ahead, CursorPlace, After, Lives
<1>10. EndListed'
    BY DEF Add, EndListed
<1> QED BY <1>1, <1>2, <1>3, <1>4, <1>5, <1>6, <1>7, <1>8, <1>9, <1>10 DEF PagesInv

\* A removed row is settled no more; a removed cursor ends the walk.
LEMMA DeleteStep ==
    ASSUME PagesInv, NEW x \in Rows, Delete(x)
    PROVE  PagesInv'
<1> USE Constants DEF PagesInv, PagesType
<1>1. PagesType'
    BY DEF Delete, Lists
<1>2. CursorRead'
    BY DEF Delete, CursorRead, Lives
<1>3. SettledLive'
    BY DEF Delete, SettledLive, Lives
<1>4. UnusedUnlisted'
    BY DEF Delete, UnusedUnlisted, Lives
<1>5. Untouched'
    BY DEF Delete, Untouched
<1>6. OnlyRequirementsMove'
    BY DEF Delete, OnlyRequirementsMove
<1>7. OncePerMove'
    BY DEF Delete, OncePerMove
<1>8. AheadUnlisted'
    BY DEF Delete, AheadUnlisted, Known, Ahead, CursorPlace, After, Lives, OncePerMove, Untouched, UnusedUnlisted
<1>9. BehindListed'
    BY DEF Delete, BehindListed, SettledLive, Known, Ahead, CursorPlace, After, Lives
<1>10. EndListed'
    BY DEF Delete, EndListed
<1> QED BY <1>1, <1>2, <1>3, <1>4, <1>5, <1>6, <1>7, <1>8, <1>9, <1>10 DEF PagesInv

\* A moved row may be listed once more.
LEMMA MoveStep ==
    ASSUME PagesInv, NEW x \in Rows, Move(x)
    PROVE  PagesInv'
<1> USE Constants DEF PagesInv, PagesType
<1>1. PagesType'
    BY DEF Move, Lists
<1>2. CursorRead'
    BY DEF Move, CursorRead, Lives
<1>3. SettledLive'
    BY DEF Move, SettledLive, Lives
<1>4. UnusedUnlisted'
    BY DEF Move, UnusedUnlisted, Lives
<1>5. Untouched'
    BY DEF Move, Untouched
<1>6. OnlyRequirementsMove'
    BY DEF Move, OnlyRequirementsMove
<1>7. OncePerMove'
    BY DEF Move, OncePerMove
<1>8. AheadUnlisted'
  <2> SUFFICES ASSUME Known', NEW r \in Rows, Ahead(r)' PROVE listed'[r] <= moved'[r]
      BY DEF AheadUnlisted
  <2>1. ~shifted /\ Known
      BY DEF Move, Known, Lives
  <2>2. CASE r = x
    <3>1. listed[x] <= 1 + moved[x]
        BY <2>1 DEF OncePerMove
    <3>2. listed'[x] = listed[x] /\ moved'[x] = moved[x] + 1
        BY DEF Move
    <3> QED BY <2>2, <3>1, <3>2
  <2>3. CASE r # x
    <3>1. listed'[r] = listed[r] /\ moved'[r] = moved[r] /\ place'[r] = place[r]
        BY <2>3 DEF Move
    <3>2. CursorPlace' = CursorPlace /\ cursor' = cursor /\ list' = list
        BY <2>1 DEF Move, CursorPlace, Known, CursorRead
    <3>3. Ahead(r)
        BY <3>1, <3>2 DEF Ahead, After, Lives
    <3> QED BY <2>1, <3>1, <3>3 DEF AheadUnlisted
  <2> QED BY <2>2, <2>3
<1>9. BehindListed'
    BY DEF Move, BehindListed, SettledLive, Known, Ahead, CursorPlace, After, Lives
<1>10. EndListed'
    BY DEF Move, EndListed
<1> QED BY <1>1, <1>2, <1>3, <1>4, <1>5, <1>6, <1>7, <1>8, <1>9, <1>10 DEF PagesInv

\* The place of the cursor is taken over as it is.
LEMMA CursorStep ==
    ASSUME PagesInv, ReadCursor
    PROVE  PagesInv'
<1> USE Constants DEF PagesInv, PagesType
<1>1. PagesType'
    BY DEF ReadCursor, Lists, Lives
<1>2. CursorRead'
    BY DEF ReadCursor, CursorRead, Lives
<1>3. SettledLive'
    BY DEF ReadCursor, SettledLive, Lives
<1>4. UnusedUnlisted'
    BY DEF ReadCursor, UnusedUnlisted, Lives
<1>5. Untouched'
    BY DEF ReadCursor, Untouched
<1>6. OnlyRequirementsMove'
    BY DEF ReadCursor, OnlyRequirementsMove
<1>7. OncePerMove'
    BY DEF ReadCursor, OncePerMove
<1>8. AheadUnlisted'
    BY DEF ReadCursor, AheadUnlisted, Known, Ahead, CursorPlace, After, Lives, OncePerMove, Untouched, UnusedUnlisted
<1>9. BehindListed'
    BY DEF ReadCursor, BehindListed, SettledLive, Known, Ahead, CursorPlace, After, Lives
<1>10. EndListed'
    BY DEF ReadCursor, EndListed
<1> QED BY <1>1, <1>2, <1>3, <1>4, <1>5, <1>6, <1>7, <1>8, <1>9, <1>10 DEF PagesInv

\* A page takes the rows next to where the walk goes on: what follows the last
\* of them is still ahead, and all before it has been handed out.
LEMMA PageStep ==
    ASSUME PagesInv, ReadPage
    PROVE  PagesInv'
<1> USE Constants DEF PagesInv, PagesType
<1>1. PICK page \in SUBSET Following :
        /\ Cardinality(page) = IF Cardinality(Following) > PageLimit THEN PageLimit
                                                                    ELSE Cardinality(Following)
        /\ \A r \in page, s \in Following \ page : After(place[s], s, place[r], r)
        /\ listed' = [r \in Rows |-> listed[r] + (IF r \in page THEN 1 ELSE 0)]
        /\ \/ /\ Cardinality(Following) > PageLimit
              /\ walk' = "asking"
              /\ \E last \in page :
                    /\ \A r \in page \ {last} : After(place[last], last, place[r], r)
                    /\ cursor' = last
           \/ /\ Cardinality(Following) <= PageLimit
              /\ walk' = "done"
              /\ UNCHANGED cursor
    BY DEF ReadPage
<1>2. /\ walk = "reading"
      /\ UNCHANGED <<list, place, from, settled, moved, shifted>>
    BY DEF ReadPage
<1>3. \A r \in Rows : Ahead(r) <=> r \in Following
    BY <1>2 DEF Ahead, Following, Here, Lives, CursorPlace
<1>4. Following \subseteq Rows /\ \A r \in Following : place[r] \in Places
    BY DEF Following, Here, Lives
<1>5. \A r \in Rows : listed'[r] = IF r \in page THEN listed[r] + 1 ELSE listed[r]
    BY <1>1
<1>6. ~shifted => \A r \in page : listed[r] <= moved[r]
    BY <1>2, <1>3, <1>4 DEF AheadUnlisted, Known
<1>7. ~shifted => \A r \in settled : r \in page \/ r \notin Following => listed'[r] = 1
  <2> SUFFICES ASSUME ~shifted, NEW r \in settled, r \in page \/ r \notin Following
               PROVE  listed'[r] = 1
      OBVIOUS
  <2>1. moved[r] = 0
      BY DEF SettledLive
  <2>2. CASE r \in page
      BY <1>5, <1>6, <2>1, <2>2
  <2>3. CASE r \notin Following
      BY <1>2, <1>3, <1>5, <2>3 DEF BehindListed, Known
  <2> QED BY <2>2, <2>3
<1>8. walk' = "asking" => cursor' \in page /\
                          \A r \in page \ {cursor'} : After(place[cursor'], cursor', place[r], r)
    BY <1>1
<1>9. ASSUME walk' = "asking", NEW r \in Rows
      PROVE  Ahead(r)' <=> Lives(r) /\ After(place[r], r, place[cursor'], cursor')
    BY <1>2, <1>4, <1>8, <1>9 DEF Ahead, Lives, CursorPlace, After
<1>10. PagesType'
  <2>1. listed' \in [Rows -> Nat]
      BY <1>1
  <2> QED BY <1>1, <1>2, <1>4, <2>1 DEF Lists
<1>11. CursorRead'
    BY <1>1, <1>2, <1>4
       DEF CursorRead
<1>12. SettledLive' /\ UnusedUnlisted' /\ Untouched' /\ OnlyRequirementsMove'
  <2>1. SettledLive' /\ OnlyRequirementsMove'
      BY <1>2 DEF SettledLive, OnlyRequirementsMove, Lives
  <2>2. UnusedUnlisted'
      BY <1>2, <1>4, <1>5 DEF UnusedUnlisted
  <2>3. Untouched'
      BY <1>1 DEF Untouched
  <2> QED BY <2>1, <2>2, <2>3
<1>13. OncePerMove'
    BY <1>2, <1>5, <1>6 DEF OncePerMove
<1>14. AheadUnlisted'
  <2> SUFFICES ASSUME Known', NEW r \in Rows, Ahead(r)' PROVE listed'[r] <= moved'[r]
      BY DEF AheadUnlisted
  <2>1. walk' = "asking" /\ ~shifted
      BY <1>1, <1>2 DEF Known
  <2>2. Lives(r) /\ After(place[r], r, place[cursor'], cursor')
      BY <1>9, <2>1
  <2>3. cursor' \in page /\ cursor' \in Nat /\ place[cursor'] \in Nat /\ r \in Nat /\ place[r] \in Nat
      BY <1>4, <1>8, <2>1, <2>2 DEF Lives
  <2>4. r \in Following
    <3>1. CASE cursor = NoRow
        BY <2>2, <3>1 DEF Following, Here
    <3>2. CASE cursor # NoRow
      <4>1. from \in Nat /\ cursor \in Nat
          BY <1>2, <3>2 DEF CursorRead
      <4>2. After(place[cursor'], cursor', from, cursor)
          BY <2>3, <3>2 DEF Following
      <4>3. After(place[r], r, from, cursor)
          BY <2>2, <2>3, <4>1, <4>2, AfterTransitive
      <4> QED BY <2>2, <4>3 DEF Following, Here
    <3> QED BY <3>1, <3>2
  <2>5. r \notin page
    <3> SUFFICES ASSUME r \in page PROVE FALSE
        OBVIOUS
    <3>1. r # cursor'
        BY <2>2, <2>3 DEF After
    <3>2. After(place[cursor'], cursor', place[r], r)
        BY <1>8, <2>1, <3>1
    <3> QED BY <2>2, <2>3, <3>2, AfterAsymmetric
  <2>6. listed[r] <= moved[r]
      BY <1>2, <1>3, <2>1, <2>4 DEF AheadUnlisted, Known
  <2> QED BY <1>2, <1>5, <2>5, <2>6
<1>15. BehindListed'
  <2> SUFFICES ASSUME Known', NEW r \in settled, ~Ahead(r)' PROVE listed'[r] = 1
      BY <1>2 DEF BehindListed
  <2>1. walk' = "asking" /\ ~shifted
      BY <1>1, <1>2 DEF Known
  <2>2. ~After(place[r], r, place[cursor'], cursor')
      BY <1>9, <2>1 DEF SettledLive
  <2>3. r \in page \/ r \notin Following
      BY <1>1, <1>8, <2>1, <2>2
  <2> QED BY <1>7, <2>1, <2>3
<1>16. EndListed'
  <2> SUFFICES ASSUME ~shifted, walk' = "done", NEW r \in settled PROVE listed'[r] = 1
      BY <1>2 DEF EndListed
  <2>1. IsFiniteSet(Following)
      BY <1>4, FS_Subset
  <2>2. Cardinality(page) = Cardinality(Following)
      BY <1>1, <2>1, FS_CardinalityType
  <2>3. page = Following
      BY <2>1, <2>2, FS_Subset
  <2> QED BY <1>7, <2>3
<1> QED BY <1>10, <1>11, <1>12, <1>13, <1>14, <1>15, <1>16 DEF PagesInv

-----------------------------------------------------------------------------
(* The theorem.                                                             *)

\* The invariant is inductive.
LEMMA PagesInductive == PagesSpec => []PagesInv
<1>1. PagesInv /\ [PagesNext]_pagesVars => PagesInv'
  <2> SUFFICES ASSUME PagesInv, [PagesNext]_pagesVars PROVE PagesInv'
      OBVIOUS
  <2>1. CASE OpenList
      BY <2>1, OpenStep
  <2>2. CASE ReadCursor
      BY <2>2, CursorStep
  <2>3. CASE ReadPage
      BY <2>3, PageStep
  <2>4. ASSUME NEW r \in Rows, Add(r) \/ Delete(r) \/ Move(r) PROVE PagesInv'
      BY <2>4, AddStep, DeleteStep, MoveStep
  <2>5. CASE UNCHANGED pagesVars
      BY <2>5, PagesStutter
  <2> QED BY <2>1, <2>2, <2>3, <2>4, <2>5 DEF PagesNext
<1> QED BY <1>1, PagesStart, PTL DEF PagesSpec

\* Whatever is added, removed and moved between two pages: no row is handed out
\* again unless it was moved, none that stayed is left out, as long as the row
\* the client holds as the cursor stays in its place.
THEOREM ListedOnce == PagesSpec => []EachRowListedOnce
<1>1. PagesInv => EachRowListedOnce
    BY DEF PagesInv, OnlyRequirementsMove, OncePerMove, EndListed, EachRowListedOnce
<1> QED BY <1>1, PagesInductive, PTL
=================================================================================
