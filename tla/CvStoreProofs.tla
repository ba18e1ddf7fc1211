----------------------------- MODULE CvStoreProofs -----------------------------
(***************************************************************************)
(* CvLifecycle implements DocumentStore: its committed rows, read as the   *)
(* history of each document, change as the atomic store's do, for every    *)
(* number of requests and sessions and every set of faults.                *)
(***************************************************************************)
EXTENDS CvFilesProofs, Sequences, FunctionTheorems, FiniteSetTheorems

\* The members of T in the order of their numbers.
Listing(T, num) == [i \in 1 .. Cardinality(T) |-> CHOOSE v \in T : num[v] = i]

\* s lists T: each member once, at the place of its number.
Lists(s, T, num, n) ==
    /\ DOMAIN s = 1 .. n
    /\ \A i \in 1 .. n : s[i] \in T /\ num[s[i]] = i
    /\ \A v \in T : num[v] \in 1 .. n /\ s[num[v]] = v

\* When the numbers of T are 1..n, each once, Listing(T, num) lists it.
LEMMA ListingLists ==
    ASSUME NEW T, NEW num, NEW n \in Nat,
           {num[v] : v \in T} = 1 .. n,
           \A v, w \in T : num[v] = num[w] => v = w
    PROVE  Listing(T, num) = [i \in 1 .. n |-> CHOOSE v \in T : num[v] = i]
           /\ Lists(Listing(T, num), T, num, n)
<1> DEFINE at == [i \in 1 .. n |-> CHOOSE v \in T : num[v] = i]
<1>1. \A i \in 1 .. n : at[i] \in T /\ num[at[i]] = i
  <2> TAKE i \in 1 .. n
  <2>1. \E v \in T : num[v] = i
    OBVIOUS
  <2> QED
    BY <2>1
<1>2. \A v \in T : num[v] \in 1 .. n /\ at[num[v]] = v
  BY <1>1
<1>3. at \in Bijection(1 .. n, T)
  <2>1. at \in [1 .. n -> T]
    BY <1>1
  <2>2. \A i, j \in 1 .. n : at[i] = at[j] => i = j
    BY <1>1
  <2>3. \A v \in T : \E i \in 1 .. n : at[i] = v
    BY <1>2
  <2> HIDE DEF at
  <2> QED
    BY <2>1, <2>2, <2>3, Fun_IsBij
<1>4. Cardinality(T) = n
  <2>1. IsFiniteSet(1 .. n) /\ Cardinality(1 .. n) = n
    BY FS_Interval
  <2>2. ExistsBijection(1 .. n, T)
    BY <1>3 DEF ExistsBijection
  <2> QED
    BY <2>1, <2>2, FS_Bijection
<1>5. Listing(T, num) = at
  BY <1>4 DEF Listing
<1> QED
  BY <1>1, <1>2, <1>5 DEF Lists

\* A list is fixed by what it lists.
LEMMA ListsOnce ==
    ASSUME NEW T, NEW num, NEW n \in Nat, NEW m \in Nat, NEW s, NEW t,
           Lists(s, T, num, n), Lists(t, T, num, m),
           s = [i \in 1 .. n |-> s[i]], t = [i \in 1 .. m |-> t[i]]
    PROVE  s = t
<1>1. \A i \in 1 .. n : i \in 1 .. m /\ t[i] = s[i]
  BY DEF Lists
<1>2. \A i \in 1 .. m : i \in 1 .. n
  BY DEF Lists
<1>3. 1 .. n = 1 .. m
  BY <1>1, <1>2
<1> QED
  BY <1>1, <1>3 DEF Lists

-----------------------------------------------------------------------------

\* History(d) lists the versions of d, and is empty when d has no row.
HistoryShape(d) ==
    /\ d \notin documents => History(d) = << >> /\ VersionsOf(d) = {}
    /\ d \in documents =>
          \E n \in Nat \ {0} :
              /\ NextNumber(d) = n + 1
              /\ Lists(History(d), VersionsOf(d), number, n)
              /\ History(d) = [i \in 1 .. n |-> History(d)[i]]
              /\ History(d) \in Seq(Requests)

LEMMA Histories == IInv => \A d \in Requests : HistoryShape(d)
<1> SUFFICES ASSUME IInv, NEW d \in Requests PROVE HistoryShape(d)
  OBVIOUS
<1>1. CASE d \notin documents
  BY <1>1 DEF HistoryShape, History, VersionsOf, IInv, RowInv
<1>2. CASE d \in documents
  <2> DEFINE n == NextNumber(d) - 1
  <2>1. n \in Nat \ {0} /\ NextNumber(d) = n + 1 /\ NumbersOf(d) = 1 .. n
    BY <1>2 DEF IInv, NumberInv
  <2> HIDE DEF n
  <2>2. \A v, w \in VersionsOf(d) : number[v] = number[w] => v = w
    BY DEF VersionsOf, IInv, NumberInv
  <2>3. History(d) = Listing(VersionsOf(d), number)
    BY <1>2 DEF History, Listing
  <2>4. /\ History(d) = [i \in 1 .. n |-> CHOOSE v \in VersionsOf(d) : number[v] = i]
        /\ Lists(History(d), VersionsOf(d), number, n)
    BY <2>1, <2>2, <2>3, ListingLists DEF NumbersOf
  <2>5. VersionsOf(d) \subseteq Requests
    BY DEF VersionsOf, IInv, TypeOK
  <2>6. History(d) = [i \in 1 .. n |-> History(d)[i]]
    BY <2>4
  <2>7. History(d) \in Seq(Requests)
    <3>1. \A i \in 1 .. n : History(d)[i] \in Requests
      BY <2>4, <2>5 DEF Lists
    <3>2. History(d) \in [1 .. n -> Requests]
      BY <2>6, <3>1
    <3> QED
      BY <2>1, <3>2
  <2> QED
    BY <1>2, <2>1, <2>4, <2>6, <2>7 DEF HistoryShape
<1> QED
  BY <1>1, <1>2

LEMMA HistoriesNext == IInv' => (\A d \in Requests : HistoryShape(d))'
BY Histories, PTL

\* The history of a document changes only with its row or its versions.
LEMMA HistoryKept ==
    ASSUME IInv, IInv', NEW d \in Requests,
           d \in documents' <=> d \in documents,
           VersionsOf(d)' = VersionsOf(d),
           \A v \in VersionsOf(d) : number'[v] = number[v]
    PROVE  History(d)' = History(d)
<1>1. HistoryShape(d) /\ HistoryShape(d)'
  <2>1. \A e \in Requests : HistoryShape(e)
    BY Histories
  <2>2. \A e \in Requests : HistoryShape(e)'
    BY HistoriesNext
  <2> QED
    BY <2>1, <2>2
<1>2. CASE d \notin documents
  BY <1>1, <1>2 DEF HistoryShape
<1>3. CASE d \in documents
  <2>1. PICK n \in Nat : /\ Lists(History(d), VersionsOf(d), number, n)
                         /\ History(d) = [i \in 1 .. n |-> History(d)[i]]
    BY <1>1, <1>3 DEF HistoryShape
  <2>2. PICK m \in Nat : /\ Lists(History(d)', VersionsOf(d)', number', m)
                         /\ History(d)' = [i \in 1 .. m |-> History(d)'[i]]
    BY <1>1, <1>3 DEF HistoryShape
  <2>3. Lists(History(d)', VersionsOf(d), number, m)
    BY <2>2 DEF Lists
  <2> QED
    BY <2>1, <2>2, <2>3, ListsOnce
<1> QED
  BY <1>2, <1>3
-----------------------------------------------------------------------------

Mapped == [d \in Requests |-> History(d)]

\* What the atomic store sees of a state.
LEMMA StoreView ==
    ASSUME IInv
    PROVE  /\ \A d \in Requests : d \in Store!Present <=> d \in documents
           /\ \A d \in Requests : Store!Elements(Mapped[d]) = VersionsOf(d)
           /\ Store!Stored = versions
<1>1. \A d \in Requests : HistoryShape(d)
  BY Histories
<1>2. ASSUME NEW d \in Requests
      PROVE  /\ d \in documents <=> History(d) # << >>
             /\ Store!Elements(History(d)) = VersionsOf(d)
  <2>1. CASE d \notin documents
    BY <1>1, <2>1 DEF HistoryShape, Store!Elements
  <2>2. CASE d \in documents
    <3>1. PICK n \in Nat \ {0} : Lists(History(d), VersionsOf(d), number, n)
      BY <1>1, <2>2 DEF HistoryShape
    <3>2. DOMAIN History(d) # DOMAIN << >>
      BY <3>1 DEF Lists
    <3>3. Store!Elements(History(d)) = VersionsOf(d)
      BY <3>1 DEF Lists, Store!Elements
    <3> QED
      BY <2>2, <3>2, <3>3
  <2> QED
    BY <2>1, <2>2
<1>3. Store!Stored = versions
  <2>1. \A v \in versions : target[v] \in Requests /\ v \in VersionsOf(target[v])
    BY DEF IInv, TypeOK, VersionsOf
  <2>2. \A d \in Requests : VersionsOf(d) \subseteq versions
    BY DEF VersionsOf
  <2> QED
    BY <1>2, <2>1, <2>2 DEF Store!Stored
<1> QED
  BY <1>2, <1>3 DEF Mapped, Store!Present
\* The COMMIT of a new document puts its one version in an empty history.
LEMMA CreateStep ==
    ASSUME IInv, IInv', NEW r \in Requests, op[r] = "create", pc[r] = "Committing",
           Apply(r), UNCHANGED <<op, target, number>>
    PROVE  Store!Create(r)
<1>1. target[r] = r /\ r \notin documents /\ r \notin versions /\ number[r] = 1
  BY DEF IInv, HandlerInv, RowInv, NumberInv, Stored
<1>2. documents' = documents \cup {r} /\ versions' = versions \cup {r}
      /\ extraction' = extraction
  BY DEF Apply
<1>3. VersionsOf(r)' = {r}
  BY <1>1, <1>2 DEF VersionsOf, IInv, RowInv
<1>4. History(r)' = <<r>>
  <2>1. PICK n \in Nat \ {0} : /\ Lists(History(r)', VersionsOf(r)', number', n)
                               /\ History(r)' = [i \in 1 .. n |-> History(r)'[i]]
    BY <1>2, HistoriesNext DEF HistoryShape
  <2>2. Lists(History(r)', {r}, number, n)
    BY <1>3, <2>1
  <2>3. Lists(<<r>>, {r}, number, 1) /\ <<r>> = [i \in 1 .. 1 |-> <<r>>[i]]
    BY <1>1 DEF Lists
  <2> QED
    BY <2>1, <2>2, <2>3, ListsOnce
<1>5. ASSUME NEW d \in Requests, d # r PROVE History(d)' = History(d)
  <2>1. VersionsOf(d)' = VersionsOf(d)
    BY <1>1, <1>2, <1>5 DEF VersionsOf
  <2> QED
    BY <1>2, <1>5, <2>1, HistoryKept
<1>6. Mapped' = [Mapped EXCEPT ![r] = <<r>>]
  BY <1>4, <1>5 DEF Mapped
<1>7. r \notin Store!Present \cup Store!Stored
  BY <1>1, StoreView
<1> QED
  BY <1>2, <1>6, <1>7 DEF Store!Create, Mapped

\* The COMMIT of a new version appends it to the history of its document.
LEMMA AppendStep ==
    ASSUME IInv, IInv', NEW r \in Requests, op[r] = "addVersion", pc[r] = "Committing",
           Apply(r), UNCHANGED <<op, target, number>>
    PROVE  Store!AddVersion(target[r], r)
<1> DEFINE d == target[r]
<1>1. d \in Requests /\ d \in documents /\ r \notin versions /\ number[r] = NextNumber(d)
  BY DEF IInv, TypeOK, LockInv, HoldsDocument, RowInv, NumberInv, Stored
<1>2. documents' = documents /\ versions' = versions \cup {r} /\ extraction' = extraction
  BY DEF Apply
<1>3. VersionsOf(d)' = VersionsOf(d) \cup {r}
  BY <1>1, <1>2 DEF VersionsOf
<1>4. History(d)' = Append(History(d), r)
  <2>1. PICK n \in Nat \ {0} : /\ NextNumber(d) = n + 1
                               /\ Lists(History(d), VersionsOf(d), number, n)
                               /\ History(d) \in Seq(Requests)
    BY <1>1, Histories DEF HistoryShape
  <2>2. PICK m \in Nat : /\ Lists(History(d)', VersionsOf(d)', number', m)
                         /\ History(d)' = [i \in 1 .. m |-> History(d)'[i]]
    BY <1>1, <1>2, HistoriesNext DEF HistoryShape
  <2>3. Lists(History(d)', VersionsOf(d) \cup {r}, number, m)
    BY <1>3, <2>2
  <2> DEFINE s == Append(History(d), r)
  <2>4. Len(History(d)) = n
    BY <2>1 DEF Lists
  <2>5. s = [i \in 1 .. n + 1 |-> s[i]] /\ DOMAIN s = 1 .. n + 1 /\ s[n + 1] = r
        /\ \A i \in 1 .. n : s[i] = History(d)[i]
    BY <2>1, <2>4
  <2> HIDE DEF s
  <2>6. Lists(s, VersionsOf(d) \cup {r}, number, n + 1)
    <3>1. \A i \in 1 .. n + 1 : i \in 1 .. n \/ i = n + 1
      BY <2>1
    <3>2. number[r] = n + 1
      BY <1>1, <2>1
    <3>3. \A i \in 1 .. n + 1 : s[i] \in VersionsOf(d) \cup {r} /\ number[s[i]] = i
      BY <2>1, <2>5, <3>1, <3>2 DEF Lists
    <3>4. \A v \in VersionsOf(d) : number[v] \in 1 .. n + 1 /\ s[number[v]] = v
      <4> TAKE v \in VersionsOf(d)
      <4>1. number[v] \in 1 .. n /\ History(d)[number[v]] = v
        BY <2>1 DEF Lists
      <4>2. number[v] \in 1 .. n + 1
        BY <2>1, <4>1
      <4>3. s[number[v]] = History(d)[number[v]]
        BY <2>5, <4>1
      <4> QED
        BY <4>1, <4>2, <4>3
    <3>5. number[r] \in 1 .. n + 1 /\ s[number[r]] = r
      BY <2>1, <2>5, <3>2
    <3> QED
      BY <2>5, <3>3, <3>4, <3>5 DEF Lists
  <2>7. n + 1 \in Nat
    BY <2>1
  <2>8. History(d)' = s
    BY <2>2, <2>3, <2>5, <2>6, <2>7, ListsOnce
  <2> QED
    BY <2>8 DEF s
<1>5. ASSUME NEW e \in Requests, e # d PROVE History(e)' = History(e)
  <2>1. VersionsOf(e)' = VersionsOf(e)
    BY <1>1, <1>2, <1>5 DEF VersionsOf
  <2> QED
    BY <1>2, <1>5, <2>1, HistoryKept
<1>6. Mapped' = [Mapped EXCEPT ![d] = Append(@, r)]
  BY <1>1, <1>4, <1>5 DEF Mapped
<1>7. d \in Store!Present /\ r \notin Store!Stored
  BY <1>1, StoreView
<1> QED
  BY <1>2, <1>6, <1>7 DEF Store!AddVersion, Mapped

\* The COMMIT of a deletion empties the history and forgets its extractions.
LEMMA DeleteStep ==
    ASSUME IInv, IInv', NEW r \in Requests, op[r] = "delete", pc[r] = "Committing",
           Apply(r), UNCHANGED <<op, target, number>>
    PROVE  Store!Delete(target[r])
<1> DEFINE d == target[r]
<1>1. d \in Requests /\ d \in documents
  BY DEF IInv, TypeOK, LockInv, HoldsDocument
<1>2. /\ documents' = documents \ {d} /\ versions' = versions \ VersionsOf(d)
      /\ extraction' = [v \in Requests |->
             IF v \in VersionsOf(d) THEN "none" ELSE extraction[v]]
  BY DEF Apply
<1>3. History(d)' = << >>
  BY <1>1, <1>2 DEF History
<1>4. ASSUME NEW e \in Requests, e # d PROVE History(e)' = History(e)
  <2>1. VersionsOf(e)' = VersionsOf(e)
    BY <1>2, <1>4 DEF VersionsOf
  <2> QED
    BY <1>2, <1>4, <2>1, HistoryKept
<1>5. Mapped' = [Mapped EXCEPT ![d] = << >>]
  BY <1>1, <1>3, <1>4 DEF Mapped
<1>6. d \in Store!Present /\ Store!Elements(Mapped[d]) = VersionsOf(d)
  BY <1>1, StoreView
<1> QED
  BY <1>2, <1>5, <1>6 DEF Store!Delete, Mapped

\* The COMMIT of an extraction writes a status over one that is not
\* "succeeded", or the one that was there.
LEMMA ExtractStep ==
    ASSUME IInv, IInv', ResultInv, NEW r \in Requests, op[r] = "extract",
           pc[r] = "Committing", Apply(r), UNCHANGED <<op, target, number>>
    PROVE  \/ \E status \in {"failed", "succeeded"} : Store!Extract(target[r], status)
           \/ UNCHANGED <<Mapped, extraction>>
<1> DEFINE v == target[r]
<1>1. v \in versions /\ v \in Requests
  BY DEF IInv, TypeOK, LockInv, HoldsVersion, Readers
<1>2. documents' = documents /\ versions' = versions
      /\ extraction' = [extraction EXCEPT ![v] = parsed[r]]
  BY DEF Apply, Uploads
<1>3. ASSUME NEW d \in Requests PROVE History(d)' = History(d)
  <2>1. VersionsOf(d)' = VersionsOf(d)
    BY <1>2 DEF VersionsOf
  <2> QED
    BY <1>2, <2>1, HistoryKept
<1>4. Mapped' = Mapped
  BY <1>3 DEF Mapped
<1>5. CASE extraction[v] = "succeeded"
  BY <1>1, <1>2, <1>4, <1>5 DEF ResultInv, IInv, TypeOK
<1>6. CASE extraction[v] # "succeeded"
  <2>1. v \in Store!Stored
    BY <1>1, StoreView
  <2>2. parsed[r] \in {"failed", "succeeded"}
    BY DEF ResultInv
  <2>3. Store!Extract(v, parsed[r])
    BY <1>2, <1>4, <1>6, <2>1 DEF Store!Extract, Mapped
  <2> QED
    BY <2>2, <2>3
<1> QED
  BY <1>5, <1>6

\* Each step is one operation of the atomic store or leaves it as it is.
LEMMA StoreStep ==
    ASSUME IInv, IInv', ResultInv, [Next]_vars
    PROVE  [Store!Next]_(Store!vars)
<1>1. ASSUME documents' = documents, versions' = versions, extraction' = extraction,
             \A v \in versions : target'[v] = target[v] /\ number'[v] = number[v]
      PROVE  UNCHANGED <<Mapped, extraction>>
  <2>1. ASSUME NEW d \in Requests PROVE History(d)' = History(d)
    <3>1. VersionsOf(d)' = VersionsOf(d)
      BY <1>1 DEF VersionsOf
    <3>2. \A v \in VersionsOf(d) : number'[v] = number[v]
      BY <1>1 DEF VersionsOf
    <3> QED
      BY <1>1, <3>1, <3>2, HistoryKept
  <2> QED
    BY <1>1, <2>1 DEF Mapped
<1>2. CASE UNCHANGED vars
  BY <1>1, <1>2 DEF vars, database, ask, local, Store!vars, Mapped
<1>3. ASSUME NEW r \in Requests, Step(r) \/ Environment(r)
      PROVE  [Store!Next]_(Store!vars)
  <2>1. CASE UNCHANGED <<documents, versions, extraction>>
    <3>1. UNCHANGED <<Mapped, extraction>>
      BY <1>1, <1>3, <2>1, CommitsOnly
    <3> QED
      BY <3>1 DEF Store!vars, Mapped
  <2>2. CASE /\ pc[r] = "Committing" /\ Apply(r)
             /\ UNCHANGED <<op, target, number>>
    <3>1. target[r] \in Requests
      BY DEF IInv, TypeOK
    <3>2. CASE op[r] = "create"
      BY <2>2, <3>2, CreateStep DEF Store!Next
    <3>3. CASE op[r] = "addVersion"
      BY <2>2, <3>1, <3>3, AppendStep DEF Store!Next
    <3>4. CASE op[r] = "delete"
      BY <2>2, <3>1, <3>4, DeleteStep DEF Store!Next
    <3>5. CASE op[r] = "extract"
      BY <2>2, <3>1, <3>5, ExtractStep DEF Store!Next, Store!vars, Mapped
    <3>6. CASE op[r] = "analyse"
      <4>1. UNCHANGED <<documents, versions, extraction>>
        BY <2>2, <3>6 DEF Apply, Uploads, database
      <4>2. UNCHANGED <<Mapped, extraction>>
        BY <1>1, <1>3, <4>1, CommitsOnly
      <4> QED
        BY <4>2 DEF Store!vars, Mapped
    <3> QED
      BY <2>2, <3>2, <3>3, <3>4, <3>5, <3>6 DEF Apply
  <2> QED
    BY <1>3, <2>1, <2>2, CommitsOnly
<1> QED
  BY <1>2, <1>3 DEF Next

\* The interleaved handlers, seen through their committed rows, are the atomic
\* document store: a history per document that grows at its end.
THEOREM Refinement == Spec => ImplementsStore
<1>1. Init => IInv /\ ResultInv
  BY Initially DEF Init, ResultInv
<1>2. IInv /\ ResultInv /\ [Next]_vars => IInv' /\ ResultInv'
  BY Inductive, ResultStep
<1>3. Init => Store!Init
  <2> SUFFICES ASSUME Init PROVE Store!Init
    OBVIOUS
  <2>1. IInv
    BY Initially
  <2>2. \A d \in Requests : d \notin documents => History(d) = << >>
    BY DEF History
  <2>3. ASSUME NEW d \in Seeded PROVE History(d) = <<d>>
    <3>1. d \in Requests /\ d \in documents /\ VersionsOf(d) = {d} /\ number[d] = 1
      BY RequestsAssumption DEF Init, VersionsOf
    <3>2. PICK n \in Nat : /\ Lists(History(d), {d}, number, n)
                           /\ History(d) = [i \in 1 .. n |-> History(d)[i]]
      BY <2>1, <3>1, Histories DEF HistoryShape
    <3>3. Lists(<<d>>, {d}, number, 1) /\ <<d>> = [i \in 1 .. 1 |-> <<d>>[i]]
      BY <3>1 DEF Lists
    <3> QED
      BY <3>2, <3>3, ListsOnce
  <2> QED
    BY <2>2, <2>3 DEF Init, Store!Init
<1>4. IInv /\ IInv' /\ ResultInv /\ [Next]_vars => [Store!Next]_(Store!vars)
  BY StoreStep
<1> QED
  BY <1>1, <1>2, <1>3, <1>4, PTL DEF Spec, ImplementsStore, Store!Spec
================================================================================
