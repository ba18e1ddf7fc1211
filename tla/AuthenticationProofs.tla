------------------------- MODULE AuthenticationProofs -------------------------
(***************************************************************************)
(* The safety properties of Authentication for any number of tabs,         *)
(* browsers and addresses and any size of the pool.                        *)
(***************************************************************************)
EXTENDS Authentication, FiniteSetTheorems, TLAPS

-----------------------------------------------------------------------------
(* The parts of the inductive invariant.                                    *)

\* TypeOK but for the pool.
RowTypes ==
    /\ repliesFirst \in BOOLEAN
    /\ browser \in [Tabs -> Browsers] /\ kind \in [Tabs -> Kinds \cup {"none"}]
    /\ email \in [Tabs -> Emails] /\ right \in [Tabs -> BOOLEAN]
    /\ jar \in [Browsers -> Jars] /\ cookies \in [Requests -> Jars]
    /\ accounts \subseteq Emails /\ sessions \subseteq Sessions
    /\ digest \in [Sessions -> Tokens]
    /\ revoked \subseteq sessions /\ expired \subseteq sessions
    /\ events \subseteq Events
    /\ pc \in [Requests -> {"Idle", "Arrived", "Resolved", "Inserting", "Auditing",
           "Recording", "Committing", "Closed"}]
    /\ answer \in [Requests -> Answers]
    /\ undone \subseteq Requests
    /\ delivered \in [Requests -> {"no", "got", "lost"}]

Holders == {q \in Requests : Holding(q)}
Recorders == {q \in Requests : pc[q] = "Recording"}

PoolInv ==
    IsFiniteSet(Holders) /\ IsFiniteSet(Recorders) /\ Connections <= PoolSize

\* A request is answered when its handler is done or, by an early reply, commits;
\* a tab submits its change once its token has arrived.
ReplyInv ==
    /\ \A t \in Tabs :
        /\ pc[<<t, "boot">>] = "Idle" <=> kind[t] = "none"
        /\ pc[<<t, "act">>] # "Idle" => delivered[<<t, "boot">>] = "got"
    /\ \A q \in Requests :
        /\ delivered[q] # "no" => answer[q] = "ok"
        /\ answer[q] # "none" => pc[q] = "Closed" \/ (pc[q] = "Committing" /\ repliesFirst)
        /\ pc[q] = "Committing" => answer[q] \in {"none", "ok"}
        /\ q \in undone => pc[q] = "Closed"

\* Which requests come to which step.
StepInv ==
    \A q \in Requests :
        /\ pc[q] = "Inserting" => Does(q, {"register"})
        /\ pc[q] \in {"Auditing", "Recording"} => Does(q, {"login"})
        /\ pc[q] = "Resolved" => Resolves(q)
        /\ pc[q] \in {"Resolved", "Committing"} /\ Resolves(q) => CookieSession(q) \in sessions

\* A registration that commits is the only one of its address, and first.
AccountInv ==
    /\ Known \in accounts /\ Seed \in sessions
    /\ \A q \in Requests : pc[q] = "Committing" =>
        /\ Does(q, {"register"}) => email[Tab(q)] \notin accounts
        /\ Does(q, {"login"}) => email[Tab(q)] \in accounts
        /\ \A p \in Requests \ {q} :
               Does(q, {"register"}) /\ Does(p, {"register"}) /\ pc[p] = "Committing"
                   => email[Tab(p)] # email[Tab(q)]
    /\ \A t \in sessions \ {Seed} :
        pc[<<t, "act">>] = "Closed" /\ kind[t] \in {"register", "login"}
            /\ email[t] \in accounts

\* A session that was announced is stored, unless its reply overtook its COMMIT.
Backed(s) ==
    \/ s \in sessions \cup {None}
    \/ s \in Tabs /\ kind[s] \in {"register", "login"} /\ Overtaken(<<s, "act">>)

IssueInv ==
    /\ \A t \in Tabs :
        answer[<<t, "act">>] = "ok" /\ kind[t] \in {"register", "login"} => Backed(t)
    /\ \A b \in Browsers : Backed(jar[b].session)
    /\ \A q \in Requests : Backed(cookies[q].session)

AuthInv ==
    /\ RowTypes /\ PoolInv /\ ReplyInv /\ StepInv /\ AccountInv /\ IssueInv
    /\ RegistrationsExact /\ AuditExact /\ SessionsHonoured

\* A session is only ever known to the browser it was opened in.
Owner(s) == IF s = Seed THEN Home ELSE browser[s]

OwnerInv ==
    /\ \A b \in Browsers : jar[b].session # None => Owner(jar[b].session) = b
    /\ \A q \in Requests : CookieSession(q) # None => Owner(CookieSession(q)) = browser[Tab(q)]

\* No other tab of the browser has begun.
Alone(t) == \A u \in Tabs \ {t} : browser[u] = browser[t] => pc[<<u, "boot">>] = "Idle"

TokenStored(t, s) == s # None => digest[s] = <<t, "boot">>

\* A tab that is alone in its browser finds its own token in the cookie and, when
\* replies follow their COMMIT, with the session.
CsrfHolds(t) ==
    LET here == jar[browser[t]]
        sent == cookies[<<t, "act">>]
        first == cookies[<<t, "boot">>]
    IN  /\ pc[<<t, "act">>] = "Idle" => here.session \in {None, first.session}
        /\ answer[<<t, "boot">>] = "ok" /\ pc[<<t, "act">>] = "Idle"
               => TokenStored(t, here.session)
        /\ delivered[<<t, "boot">>] = "got" /\ pc[<<t, "act">>] = "Idle"
               => here.csrf = <<t, "boot">>
        /\ pc[<<t, "act">>] = "Arrived"
               => sent.csrf = <<t, "boot">> /\ TokenStored(t, sent.session)
        /\ answer[<<t, "act">>] # "forbidden"

CsrfInv ==
    \A t \in Tabs : ~repliesFirst /\ Alone(t) /\ pc[<<t, "boot">>] # "Idle" => CsrfHolds(t)

-----------------------------------------------------------------------------
(* Types, replies and the pool.                                             *)

\* A tab that has submitted something knows what it does.
LEMMA KindKnown ==
    ASSUME RowTypes, ReplyInv, NEW t \in Tabs, pc[<<t, "act">>] # "Idle"
    PROVE  kind[t] \in Kinds
<1>1. <<t, "act">> \in Requests /\ <<t, "boot">> \in Requests
  BY DEF Requests
<1>2. answer[<<t, "boot">>] = "ok"
  BY <1>1 DEF ReplyInv
<1>3. pc[<<t, "boot">>] # "Idle"
  BY <1>1, <1>2 DEF ReplyInv
<1> QED
  BY <1>3 DEF ReplyInv, RowTypes

\* A tab submits its change after its bootstrap.
LEMMA BootFirst ==
    ASSUME ReplyInv, NEW t \in Tabs, pc[<<t, "boot">>] = "Idle"
    PROVE  pc[<<t, "act">>] = "Idle"
<1>1. <<t, "boot">> \in Requests
  BY DEF Requests
<1> QED
  BY <1>1 DEF ReplyInv

\* No step takes a variable out of its type.
LEMMA RowTypesStep == AuthInv /\ [Next]_vars => RowTypes'
<1> SUFFICES ASSUME AuthInv, [Next]_vars PROVE RowTypes'
  OBVIOUS
<1> USE DEF AuthInv, RowTypes, ReplyInv, StepInv, Resolves, Answers, Jars, Kinds,
        Sessions, Tokens, CookieSession, Does, Boots, Tab, Requests
<1>1. CASE UNCHANGED vars
  BY <1>1 DEF vars, rows, ask, server, client
<1>2. ASSUME NEW q \in Requests, Step(q) PROVE RowTypes'
  <2>1. CASE WithoutSession(q)
    BY <2>1 DEF WithoutSession, Refuse, Answer, rows, ask, server, client
  <2>2. CASE Resolve(q)
    <3>1. PICK step \in {"Closed", "Resolved"}, reply \in Answers :
              Answer(q, step, reply) /\ UNCHANGED <<rows, undone>>
      BY <2>2 DEF Resolve, Refuse, Goto, Answers
    <3> QED
      BY <3>1 DEF Answer, rows, client, ask
  <2>3. CASE UpdateSession(q)
    BY <2>3 DEF UpdateSession, Handled, Answer, rows, ask, server, client
  <2>4. CASE RefuseToken(q)
    BY <2>4 DEF RefuseToken, Refuse, Answer, rows, ask, server, client
  <2>5. CASE SelectAccount(q)
    <3>1. PICK step \in {"Closed", "Inserting", "Auditing", "Committing"}, reply \in Answers :
              Answer(q, step, reply) /\ UNCHANGED <<rows, undone>>
      BY <2>5 DEF SelectAccount, Refuse, Goto, Handled, Answers
    <3> QED
      BY <3>1 DEF Answer, rows, client, ask
  <2>6. CASE InsertAccount(q)
    <3>1. PICK step \in {"Closed", "Committing"}, reply \in Answers :
              Answer(q, step, reply) /\ UNCHANGED <<rows, undone>>
      BY <2>6 DEF InsertAccount, Refuse, Handled, Answers
    <3> QED
      BY <3>1 DEF Answer, rows, client, ask
  <2>7. CASE TakeSecondConnection(q)
    BY <2>7 DEF TakeSecondConnection, Goto, Answer, rows, ask, server, client
  <2>8. CASE RecordFailure(q)
    <3>1. <<Tab(q), "login_failed", Tab(q)>> \in Events
      BY DEF Events
    <3>2. events \subseteq Events
      OBVIOUS
    <3>3. events' \subseteq Events
      BY ONLY <2>8, <3>1, <3>2 DEF RecordFailure
    <3> QED
      BY <2>8, <3>3 DEF RecordFailure, Answer, rows, ask, server, client
  <2>9. CASE Commit(q)
    <3>1. /\ events' \subseteq Events
          /\ accounts' \subseteq Emails /\ sessions' \subseteq Sessions
          /\ digest' \in [Sessions -> Tokens] /\ revoked' \subseteq sessions'
      <4>1. CASE Boots(q) /\ ApplyToken(q)
        BY <2>9, <4>1 DEF Commit, ApplyToken
      <4>2. CASE Does(q, {"register", "login"}) /\ ApplyIssue(q)
        <5>1. /\ <<Tab(q), "session_issued", Tab(q)>> \in Events
              /\ <<Tab(q), "login_succeeded", Tab(q)>> \in Events
              /\ <<Tab(q), "account_created", Tab(q)>> \in Events
          BY DEF Events
        <5>2. events' \subseteq Events
          <6>1. \A e \in {"session_issued", "login_succeeded", "account_created"} :
                    <<Tab(q), e, Tab(q)>> \in Events
            BY <5>1
          <6>2. \A x \in events' : x \in events \/
                    \E e \in {"session_issued", "login_succeeded", "account_created"} :
                        x = <<Tab(q), e, Tab(q)>>
            BY ONLY <4>2 DEF ApplyIssue
          <6>3. events \subseteq Events
            OBVIOUS
          <6> QED
            BY ONLY <6>1, <6>2, <6>3
        <5>3. Tab(q) \in Sessions /\ email[Tab(q)] \in Emails
          BY <4>2
        <5> QED
          BY <4>2, <5>2, <5>3 DEF ApplyIssue
      <4>3. CASE Does(q, {"logout"}) /\ ApplyRevocation(q)
        <5>1. CookieSession(q) \in sessions
          BY <2>9, <4>3 DEF Commit
        <5>2. <<CookieSession(q), "session_revoked", Tab(q)>> \in Events
          BY <5>1 DEF Events
        <5>3. events \subseteq Events
          OBVIOUS
        <5>4. events' \subseteq Events
          BY ONLY <4>3, <5>2, <5>3 DEF ApplyRevocation
        <5> QED
          BY <4>3, <5>1, <5>4 DEF ApplyRevocation
      <4>4. CASE UNCHANGED rows
        BY <4>4 DEF rows
      <4> QED
        BY <2>9, <4>1, <4>2, <4>3, <4>4 DEF Commit
    <3>2. /\ pc' = [pc EXCEPT ![q] = "Closed"] /\ answer' = [answer EXCEPT ![q] = "ok"]
          /\ UNCHANGED <<repliesFirst, browser, kind, email, right, jar, cookies, delivered,
                         expired, undone>>
      BY <2>9 DEF Commit, Answer, client, ask
    <3>3. sessions \subseteq sessions'
      BY <2>9 DEF Commit, ApplyToken, ApplyIssue, ApplyRevocation, rows
    <3> QED
      BY <3>1, <3>2, <3>3
  <2>10. CASE CommitFails(q)
    BY <2>10 DEF CommitFails, Answer, rows, ask, server, client
  <2>11. CASE PoolTimeout(q)
    BY <2>11 DEF PoolTimeout, WaitsForConnection, Refuse, Answer, rows, ask,
        server, client
  <2> QED
    BY <1>2, <2>1, <2>2, <2>3, <2>4, <2>5, <2>6, <2>7, <2>8, <2>9, <2>10, <2>11 DEF Step
<1>3. ASSUME NEW q \in Requests, Abort(q) PROVE RowTypes'
  BY <1>3 DEF Abort, Holding, Refuse, Answer, rows, ask, server, client
<1>4. ASSUME NEW q \in Requests, Receive(q) PROVE RowTypes'
  <2>1. /\ UNCHANGED <<repliesFirst, ask, cookies, rows, expired, server>>
        /\ delivered' = [delivered EXCEPT ![q] = "got"]
        /\ jar' = [jar EXCEPT ![browser[Tab(q)]] = JarAfter(q)]
    BY <1>4 DEF Receive
  <2>2. JarAfter(q) \in Jars
    <3>1. jar[browser[Tab(q)]] \in Jars /\ q \in Tokens /\ Tab(q) \in Sessions
      OBVIOUS
    <3>2. CASE Boots(q)
      BY <3>1, <3>2 DEF JarAfter
    <3>3. CASE ~Boots(q)
      <4>1. q = <<Tab(q), "act">> /\ pc[q] # "Idle"
        BY <3>3, <1>4 DEF Receive
      <4>2. kind[Tab(q)] \in Kinds
        BY <4>1, KindKnown
      <4> QED
        BY <3>1, <3>3, <4>2 DEF JarAfter
    <3> QED
      BY <3>2, <3>3
  <2> QED
    BY <2>1, <2>2 DEF ask, rows, server
<1>5. ASSUME NEW q \in Requests, Lose(q) PROVE RowTypes'
  BY <1>5 DEF Lose, rows, ask, server, client
<1>6. ASSUME NEW t \in Tabs, Submit(t)
      PROVE  RowTypes'
  BY <1>6 DEF Submit, Send, rows, ask, server, client
<1>7. ASSUME NEW t \in Tabs, NEW k \in Kinds, NEW e \in Emails, NEW pw \in BOOLEAN,
             Open(t, k, e, pw)
      PROVE  RowTypes'
  BY <1>7 DEF Open, Send, rows, ask, server, client
<1>8. ASSUME NEW s \in Sessions, Expire(s)
      PROVE  RowTypes'
  BY <1>8 DEF Expire, rows, ask, server, client
<1>9. ASSUME NEW b \in Browsers, ExpireCookie(b)
      PROVE  RowTypes'
  <2>1. [jar[b] EXCEPT !.session = None] \in Jars
    BY SMTT(60)
  <2> QED
    BY <1>9, <2>1 DEF ExpireCookie, rows, ask, server
<1> HIDE DEF RowTypes
<1> QED
  BY <1>1, <1>2, <1>3, <1>4, <1>5, <1>6, <1>7, <1>8, <1>9 DEF Next

\* Requests that let go of connections keep the pool within its limit.
LEMMA PoolShrinks ==
    PoolInv /\ Holders' \subseteq Holders /\ Recorders' \subseteq Recorders => PoolInv'
<1> SUFFICES ASSUME PoolInv, Holders' \subseteq Holders, Recorders' \subseteq Recorders
             PROVE  PoolInv'
  OBVIOUS
<1>1. /\ IsFiniteSet(Holders') /\ Cardinality(Holders') <= Cardinality(Holders)
      /\ IsFiniteSet(Recorders') /\ Cardinality(Recorders') <= Cardinality(Recorders)
  BY FS_Subset DEF PoolInv
<1>2. /\ Cardinality(Holders) \in Nat /\ Cardinality(Holders') \in Nat
      /\ Cardinality(Recorders) \in Nat /\ Cardinality(Recorders') \in Nat
  BY <1>1, FS_CardinalityType DEF PoolInv
<1>3. /\ Connections = Cardinality(Holders) + Cardinality(Recorders)
      /\ Connections' = Cardinality(Holders') + Cardinality(Recorders')
  BY DEF Connections, Holders, Recorders
<1>4. Connections' <= PoolSize
  BY <1>1, <1>2, <1>3, PoolAssumption DEF PoolInv
<1> QED
  BY <1>1, <1>4 DEF PoolInv

\* So does one that takes a connection that is free.
LEMMA PoolGrows ==
    ASSUME NEW q, PoolInv, FreeConnection,
           \/ Holders' \subseteq Holders \cup {q} /\ Recorders' \subseteq Recorders
           \/ Holders' \subseteq Holders /\ Recorders' \subseteq Recorders \cup {q}
    PROVE  PoolInv'
<1>1. /\ IsFiniteSet(Holders) /\ IsFiniteSet(Recorders)
      /\ Cardinality(Holders) \in Nat /\ Cardinality(Recorders) \in Nat
  BY FS_CardinalityType DEF PoolInv
<1>2. ASSUME NEW S, IsFiniteSet(S), Cardinality(S) \in Nat
      PROVE  IsFiniteSet(S \cup {q}) /\ Cardinality(S \cup {q}) <= Cardinality(S) + 1
  <2>1. /\ IsFiniteSet(S \cup {q})
        /\ Cardinality(S \cup {q}) = IF q \in S THEN Cardinality(S) ELSE Cardinality(S) + 1
    BY <1>2, FS_AddElement, Zenon
  <2> QED
    BY <1>2, <2>1
<1>3. /\ IsFiniteSet(Holders') /\ IsFiniteSet(Recorders')
      /\ \/ /\ Cardinality(Holders') <= Cardinality(Holders \cup {q})
            /\ Cardinality(Recorders') <= Cardinality(Recorders)
         \/ /\ Cardinality(Holders') <= Cardinality(Holders)
            /\ Cardinality(Recorders') <= Cardinality(Recorders \cup {q})
  BY <1>1, <1>2, FS_Subset
<1>4. /\ Cardinality(Holders') \in Nat /\ Cardinality(Recorders') \in Nat
      /\ Cardinality(Holders \cup {q}) \in Nat /\ Cardinality(Recorders \cup {q}) \in Nat
  BY <1>1, <1>2, <1>3, FS_CardinalityType
<1>5. /\ Connections = Cardinality(Holders) + Cardinality(Recorders)
      /\ Connections' = Cardinality(Holders') + Cardinality(Recorders')
  BY DEF Connections, Holders, Recorders
<1>6. Connections' <= PoolSize
  BY <1>1, <1>2, <1>3, <1>4, <1>5, PoolAssumption DEF FreeConnection
<1> QED
  BY <1>3, <1>6 DEF PoolInv

\* A request takes a connection only where one is free, and one at a time.
LEMMA PoolStep == AuthInv /\ [Next]_vars => PoolInv'
<1> SUFFICES ASSUME AuthInv, [Next]_vars PROVE PoolInv'
  OBVIOUS
<1> USE DEF AuthInv, RowTypes, Does, Boots, Tab, Requests
<1>1. CASE UNCHANGED vars
  BY <1>1, PoolShrinks DEF vars, Holders, Recorders, Holding, rows, ask, server, client
<1>2. ASSUME NEW q \in Requests, Step(q) PROVE PoolInv'
  <2>1. CASE WithoutSession(q)
    BY <2>1, PoolShrinks
       DEF WithoutSession, Refuse, Answer, Holders, Recorders, Holding, rows, ask,
           server, client
  <2>2. CASE Resolve(q)
    <3>1. /\ FreeConnection
          /\ \/ Holders' \subseteq Holders \cup {q} /\ Recorders' \subseteq Recorders
             \/ Holders' \subseteq Holders /\ Recorders' \subseteq Recorders \cup {q}
      BY <2>2 DEF Resolve, Refuse, Goto, Answer, Holders, Recorders, Holding, rows,
         ask, server, client
    <3> QED
      BY <3>1, PoolGrows
  <2>3. CASE UpdateSession(q)
    BY <2>3, PoolShrinks
       DEF UpdateSession, Handled, Answer, Holders, Recorders, Holding, rows, ask,
           server, client
  <2>4. CASE RefuseToken(q)
    BY <2>4, PoolShrinks
       DEF RefuseToken, Refuse, Answer, Holders, Recorders, Holding, rows, ask,
           server, client
  <2>5. CASE SelectAccount(q)
    <3>1. /\ FreeConnection
          /\ \/ Holders' \subseteq Holders \cup {q} /\ Recorders' \subseteq Recorders
             \/ Holders' \subseteq Holders /\ Recorders' \subseteq Recorders \cup {q}
      BY <2>5 DEF SelectAccount, Refuse, Goto, Handled, Answer, Holders, Recorders,
         Holding, rows, ask, server, client
    <3> QED
      BY <3>1, PoolGrows
  <2>6. CASE InsertAccount(q)
    BY <2>6, PoolShrinks
       DEF InsertAccount, Refuse, Handled, Answer, Holders, Recorders, Holding, rows,
           ask, server, client
  <2>7. CASE TakeSecondConnection(q)
    <3>1. /\ FreeConnection
          /\ \/ Holders' \subseteq Holders \cup {q} /\ Recorders' \subseteq Recorders
             \/ Holders' \subseteq Holders /\ Recorders' \subseteq Recorders \cup {q}
      BY <2>7 DEF TakeSecondConnection, Goto, Answer, Holders, Recorders, Holding,
         rows, ask, server, client
    <3> QED
      BY <3>1, PoolGrows
  <2>8. CASE RecordFailure(q)
    BY <2>8, PoolShrinks
       DEF RecordFailure, Answer, Holders, Recorders, Holding, rows, ask, server, client
  <2>9. CASE Commit(q)
    BY <2>9, PoolShrinks
       DEF Commit, ApplyToken, ApplyIssue, ApplyRevocation, Answer, Holders,
           Recorders, Holding, rows, ask, server, client
  <2>10. CASE CommitFails(q)
    BY <2>10, PoolShrinks
       DEF CommitFails, Answer, Holders, Recorders, Holding, rows, ask, server, client
  <2>11. CASE PoolTimeout(q)
    BY <2>11, PoolShrinks
       DEF PoolTimeout, WaitsForConnection, Refuse, Answer, Holders, Recorders,
           Holding, rows, ask, server, client
  <2> QED
    BY <1>2, <2>1, <2>2, <2>3, <2>4, <2>5, <2>6, <2>7, <2>8, <2>9, <2>10, <2>11 DEF Step
<1>3. ASSUME NEW q \in Requests, Abort(q) PROVE PoolInv'
  BY <1>3, PoolShrinks
     DEF Abort, Refuse, Answer, Holders, Recorders, Holding, rows, ask, server, client
<1>4. ASSUME NEW q \in Requests, Receive(q) PROVE PoolInv'
  BY <1>4, PoolShrinks
     DEF Receive, JarAfter, Holders, Recorders, Holding, rows, ask, server, client
<1>5. ASSUME NEW q \in Requests, Lose(q) PROVE PoolInv'
  BY <1>5, PoolShrinks
     DEF Lose, Holders, Recorders, Holding, rows, ask, server, client
<1>6. ASSUME NEW t \in Tabs, Submit(t)
      PROVE  PoolInv'
  BY <1>6, PoolShrinks
     DEF Submit, Send, Holders, Recorders, Holding, rows, ask, server, client
<1>7. ASSUME NEW t \in Tabs, NEW k \in Kinds, NEW e \in Emails, NEW pw \in BOOLEAN,
             Open(t, k, e, pw)
      PROVE  PoolInv'
  BY <1>7, PoolShrinks
     DEF Open, Send, Holders, Recorders, Holding, rows, ask, server, client
<1>8. ASSUME NEW s \in Sessions, Expire(s)
      PROVE  PoolInv'
  BY <1>8, PoolShrinks
     DEF Expire, Holders, Recorders, Holding, rows, ask, server, client
<1>9. ASSUME NEW b \in Browsers, ExpireCookie(b)
      PROVE  PoolInv'
  BY <1>9, PoolShrinks
     DEF ExpireCookie, Holders, Recorders, Holding, rows, ask, server, client
<1> HIDE DEF PoolInv
<1> QED
  BY <1>1, <1>2, <1>3, <1>4, <1>5, <1>6, <1>7, <1>8, <1>9 DEF Next

\* Replies follow the handler, and requests of a tab follow one another.
LEMMA ReplyStep == AuthInv /\ [Next]_vars => ReplyInv'
<1> SUFFICES ASSUME AuthInv, [Next]_vars PROVE ReplyInv'
  OBVIOUS
<1> USE DEF AuthInv, RowTypes, ReplyInv, Kinds, Does, Boots, Tab, Requests
<1>1. CASE UNCHANGED vars
  BY <1>1 DEF vars, rows, ask, server, client
<1>2. ASSUME NEW q \in Requests, Step(q) PROVE ReplyInv'
  <2>1. CASE WithoutSession(q)
    BY <2>1 DEF WithoutSession, Refuse, Answer, rows, ask, server, client
  <2>2. CASE Resolve(q)
    BY <2>2 DEF Resolve, Refuse, Goto, Answer, rows, ask, server, client
  <2>3. CASE UpdateSession(q)
    BY <2>3 DEF UpdateSession, Handled, Answer, rows, ask, server, client
  <2>4. CASE RefuseToken(q)
    BY <2>4 DEF RefuseToken, Refuse, Answer, rows, ask, server, client
  <2>5. CASE SelectAccount(q)
    BY <2>5 DEF SelectAccount, Refuse, Goto, Handled, Answer, rows, ask, server,
        client
  <2>6. CASE InsertAccount(q)
    BY <2>6 DEF InsertAccount, Refuse, Handled, Answer, rows, ask, server, client
  <2>7. CASE TakeSecondConnection(q)
    BY <2>7 DEF TakeSecondConnection, Goto, Answer, rows, ask, server, client
  <2>8. CASE RecordFailure(q)
    BY <2>8 DEF RecordFailure, Answer, rows, ask, server, client
  <2>9. CASE Commit(q)
    BY <2>9 DEF Commit, ApplyToken, ApplyIssue, ApplyRevocation, Answer, rows, ask,
        server, client
  <2>10. CASE CommitFails(q)
    BY <2>10 DEF CommitFails, Answer, rows, ask, server, client
  <2>11. CASE PoolTimeout(q)
    BY <2>11 DEF PoolTimeout, WaitsForConnection, Refuse, Answer, rows, ask,
        server, client
  <2> QED
    BY <1>2, <2>1, <2>2, <2>3, <2>4, <2>5, <2>6, <2>7, <2>8, <2>9, <2>10, <2>11 DEF Step
<1>3. ASSUME NEW q \in Requests, Abort(q) PROVE ReplyInv'
  BY <1>3 DEF Abort, Holding, Refuse, Answer, rows, ask, server, client
<1>4. ASSUME NEW q \in Requests, Receive(q) PROVE ReplyInv'
  BY <1>4 DEF Receive, JarAfter, rows, ask, server, client
<1>5. ASSUME NEW q \in Requests, Lose(q) PROVE ReplyInv'
  BY <1>5 DEF Lose, rows, ask, server, client
<1>6. ASSUME NEW t \in Tabs, Submit(t)
      PROVE  ReplyInv'
  BY <1>6, ZenonT(60) DEF Submit, Send, rows, ask, server, client
<1>7. ASSUME NEW t \in Tabs, NEW k \in Kinds, NEW e \in Emails, NEW pw \in BOOLEAN,
             Open(t, k, e, pw)
      PROVE  ReplyInv'
  BY <1>7, SMTT(60) DEF Open, Send, rows, ask, server, client
<1>8. ASSUME NEW s \in Sessions, Expire(s)
      PROVE  ReplyInv'
  BY <1>8 DEF Expire, rows, ask, server, client
<1>9. ASSUME NEW b \in Browsers, ExpireCookie(b)
      PROVE  ReplyInv'
  BY <1>9 DEF ExpireCookie, rows, ask, server, client
<1> HIDE DEF ReplyInv
<1> QED
  BY <1>1, <1>2, <1>3, <1>4, <1>5, <1>6, <1>7, <1>8, <1>9 DEF Next

\* A request only comes to the steps of its own handler.
LEMMA StepsStep == AuthInv /\ [Next]_vars => StepInv'
<1> SUFFICES ASSUME AuthInv, [Next]_vars PROVE StepInv'
  OBVIOUS
<1> USE DEF AuthInv, RowTypes, ReplyInv, StepInv, Resolves, CookieSession, Live,
        Kinds, Does, Boots, Tab, Requests
<1>1. CASE UNCHANGED vars
  BY <1>1 DEF vars, rows, ask, server, client
<1>2. ASSUME NEW q \in Requests, Step(q) PROVE StepInv'
  <2>1. CASE WithoutSession(q)
    BY <2>1 DEF WithoutSession, Refuse, Answer, rows, ask, server, client
  <2>2. CASE Resolve(q)
    BY <2>2 DEF Resolve, Refuse, Goto, Answer, rows, ask, server, client
  <2>3. CASE UpdateSession(q)
    BY <2>3 DEF UpdateSession, Handled, Answer, rows, ask, server, client
  <2>4. CASE RefuseToken(q)
    BY <2>4 DEF RefuseToken, Refuse, Answer, rows, ask, server, client
  <2>5. CASE SelectAccount(q)
    BY <2>5 DEF SelectAccount, Refuse, Goto, Handled, Answer, rows, ask, server,
        client
  <2>6. CASE InsertAccount(q)
    BY <2>6 DEF InsertAccount, Refuse, Handled, Answer, rows, ask, server, client
  <2>7. CASE TakeSecondConnection(q)
    BY <2>7 DEF TakeSecondConnection, Goto, Answer, rows, ask, server, client
  <2>8. CASE RecordFailure(q)
    BY <2>8 DEF RecordFailure, Answer, rows, ask, server, client
  <2>9. CASE Commit(q)
    BY <2>9 DEF Commit, ApplyToken, ApplyIssue, ApplyRevocation, Answer, rows, ask,
        server, client
  <2>10. CASE CommitFails(q)
    BY <2>10 DEF CommitFails, Answer, rows, ask, server, client
  <2>11. CASE PoolTimeout(q)
    BY <2>11 DEF PoolTimeout, WaitsForConnection, Refuse, Answer, rows, ask,
        server, client
  <2> QED
    BY <1>2, <2>1, <2>2, <2>3, <2>4, <2>5, <2>6, <2>7, <2>8, <2>9, <2>10, <2>11 DEF Step
<1>3. ASSUME NEW q \in Requests, Abort(q) PROVE StepInv'
  BY <1>3 DEF Abort, Holding, Refuse, Answer, rows, ask, server, client
<1>4. ASSUME NEW q \in Requests, Receive(q) PROVE StepInv'
  BY <1>4 DEF Receive, JarAfter, rows, ask, server, client
<1>5. ASSUME NEW q \in Requests, Lose(q) PROVE StepInv'
  BY <1>5 DEF Lose, rows, ask, server, client
<1>6. ASSUME NEW t \in Tabs, Submit(t)
      PROVE  StepInv'
  BY <1>6 DEF Submit, Send, rows, ask, server, client
<1>7. ASSUME NEW t \in Tabs, NEW k \in Kinds, NEW e \in Emails, NEW pw \in BOOLEAN,
             Open(t, k, e, pw)
      PROVE  StepInv'
  <2>1. /\ UNCHANGED sessions
        /\ pc[<<t, "boot">>] = "Idle"
        /\ pc' = [pc EXCEPT ![<<t, "boot">>] = "Arrived"]
        /\ cookies' = [cookies EXCEPT ![<<t, "boot">>] = jar[browser[t]]]
        /\ kind' = [kind EXCEPT ![t] = k]
    BY <1>7 DEF Open, Send, rows
  <2>2. pc[<<t, "act">>] = "Idle"
    BY <2>1, BootFirst DEF AuthInv
  <2>3. /\ pc'[<<t, "boot">>] = "Arrived" /\ pc'[<<t, "act">>] = "Idle"
        /\ \A q \in Requests : q[1] # t =>
               pc'[q] = pc[q] /\ cookies'[q] = cookies[q] /\ kind'[q[1]] = kind[q[1]]
    BY <2>1, <2>2
  <2> QED
    BY <2>1, <2>3
<1>8. ASSUME NEW s \in Sessions, Expire(s)
      PROVE  StepInv'
  BY <1>8 DEF Expire, rows, ask, server, client
<1>9. ASSUME NEW b \in Browsers, ExpireCookie(b)
      PROVE  StepInv'
  BY <1>9 DEF ExpireCookie, rows, ask, server, client
<1> HIDE DEF StepInv
<1> QED
  BY <1>1, <1>2, <1>3, <1>4, <1>5, <1>6, <1>7, <1>8, <1>9 DEF Next

-----------------------------------------------------------------------------
(* Accounts, sessions and the audit trail.                                  *)

\* The unique key: an address that is being inserted is not inserted twice, and
\* an account stays.
LEMMA AccountStep == AuthInv /\ [Next]_vars => AccountInv'
<1> SUFFICES ASSUME AuthInv, [Next]_vars PROVE AccountInv'
  OBVIOUS
<1> USE DEF AuthInv, RowTypes, ReplyInv, StepInv, AccountInv, Resolves, HoldsEmail,
        Kinds, Sessions, Does, Boots, Tab, Requests
<1>1. CASE UNCHANGED vars
  BY <1>1 DEF vars, rows, ask, server, client
<1>2. ASSUME NEW q \in Requests, Step(q) PROVE AccountInv'
  <2>1. CASE WithoutSession(q)
    BY <2>1 DEF WithoutSession, Refuse, Answer, rows, ask, server, client
  <2>2. CASE Resolve(q)
    <3>1. /\ UNCHANGED <<kind, email, accounts, sessions>>
          /\ pc[q] = "Arrived" /\ pc' = [pc EXCEPT ![q] = pc'[q]]
          /\ pc'[q] \in {"Closed", "Resolved"}
      BY <2>2 DEF Resolve, Refuse, Goto, Answer, rows, ask, client
    <3>2. \A p \in Requests : pc'[p] = "Committing" => pc[p] = "Committing"
      BY <3>1
    <3>3. \A p \in Requests : pc[p] = "Closed" => pc'[p] = "Closed"
      BY <3>1
    <3> QED
      BY <3>1, <3>2, <3>3
  <2>3. CASE UpdateSession(q)
    BY <2>3 DEF UpdateSession, Handled, Answer, rows, ask, server, client
  <2>4. CASE RefuseToken(q)
    BY <2>4 DEF RefuseToken, Refuse, Answer, rows, ask, server, client
  <2>5. CASE SelectAccount(q)
    <3>1. /\ UNCHANGED <<kind, email, accounts, sessions>>
          /\ pc[q] = "Arrived" /\ pc' = [pc EXCEPT ![q] = pc'[q]]
          /\ pc'[q] \in {"Closed", "Inserting", "Auditing", "Committing"}
      BY <2>5 DEF SelectAccount, Refuse, Goto, Handled, Answer, rows, ask, client
    <3>2. pc'[q] = "Committing" => Does(q, {"login"}) /\ email[Tab(q)] \in accounts
      BY <2>5, <3>1 DEF SelectAccount, Refuse, Goto, Handled, Answer
    <3>3. \A p \in Requests : pc[p] = "Closed" => pc'[p] = "Closed"
      BY <3>1
    <3>4. \A p \in Requests \ {q} : pc'[p] = pc[p]
      BY <3>1
    <3> QED
      BY <3>1, <3>2, <3>3, <3>4
  <2>6. CASE InsertAccount(q)
    <3>1. /\ UNCHANGED <<kind, email, accounts, sessions>>
          /\ pc[q] = "Inserting" /\ pc' = [pc EXCEPT ![q] = pc'[q]]
          /\ pc'[q] \in {"Closed", "Committing"}
      BY <2>6 DEF InsertAccount, Refuse, Handled, Answer, rows, ask, client
    <3>2. pc'[q] = "Committing" =>
              /\ email[Tab(q)] \notin accounts
              /\ \A p \in Requests \ {q} : ~HoldsEmail(p, email[Tab(q)])
      BY <2>6, <3>1 DEF InsertAccount, Refuse, Handled, Answer
    <3>3. \A p \in Requests : pc[p] = "Closed" => pc'[p] = "Closed"
      BY <3>1
    <3>4. \A p \in Requests \ {q} : pc'[p] = pc[p]
      BY <3>1
    <3> QED
      BY <3>1, <3>2, <3>3, <3>4
  <2>7. CASE TakeSecondConnection(q)
    BY <2>7 DEF TakeSecondConnection, Goto, Answer, rows, ask, server, client
  <2>8. CASE RecordFailure(q)
    BY <2>8 DEF RecordFailure, Answer, rows, ask, server, client
  <2>9. CASE Commit(q)
    BY <2>9 DEF Commit, ApplyToken, ApplyIssue, ApplyRevocation, Answer, rows, ask,
        server, client
  <2>10. CASE CommitFails(q)
    BY <2>10 DEF CommitFails, Answer, rows, ask, server, client
  <2>11. CASE PoolTimeout(q)
    BY <2>11 DEF PoolTimeout, WaitsForConnection, Refuse, Answer, rows, ask,
        server, client
  <2> QED
    BY <1>2, <2>1, <2>2, <2>3, <2>4, <2>5, <2>6, <2>7, <2>8, <2>9, <2>10, <2>11 DEF Step
<1>3. ASSUME NEW q \in Requests, Abort(q) PROVE AccountInv'
  BY <1>3 DEF Abort, Holding, Refuse, Answer, rows, ask, server, client
<1>4. ASSUME NEW q \in Requests, Receive(q) PROVE AccountInv'
  BY <1>4 DEF Receive, JarAfter, rows, ask, server, client
<1>5. ASSUME NEW q \in Requests, Lose(q) PROVE AccountInv'
  BY <1>5 DEF Lose, rows, ask, server, client
<1>6. ASSUME NEW t \in Tabs, Submit(t)
      PROVE  AccountInv'
  BY <1>6 DEF Submit, Send, rows, ask, server, client
<1>7. ASSUME NEW t \in Tabs, NEW k \in Kinds, NEW e \in Emails, NEW pw \in BOOLEAN,
             Open(t, k, e, pw)
      PROVE  AccountInv'
  <2>1. /\ UNCHANGED <<accounts, sessions>>
        /\ pc[<<t, "boot">>] = "Idle"
        /\ pc' = [pc EXCEPT ![<<t, "boot">>] = "Arrived"]
        /\ kind' = [kind EXCEPT ![t] = k] /\ email' = [email EXCEPT ![t] = e]
    BY <1>7 DEF Open, Send, rows
  <2>2. pc[<<t, "act">>] = "Idle" /\ t \notin sessions \ {Seed}
    BY <2>1
  <2> QED
    BY <2>1, <2>2
<1>8. ASSUME NEW s \in Sessions, Expire(s)
      PROVE  AccountInv'
  BY <1>8 DEF Expire, rows, ask, server, client
<1>9. ASSUME NEW b \in Browsers, ExpireCookie(b)
      PROVE  AccountInv'
  BY <1>9 DEF ExpireCookie, rows, ask, server, client
<1> HIDE DEF AccountInv
<1> QED
  BY <1>1, <1>2, <1>3, <1>4, <1>5, <1>6, <1>7, <1>8, <1>9 DEF Next

\* A session is announced when it is stored, or just before, by an early reply.
LEMMA IssueStep == AuthInv /\ [Next]_vars => IssueInv'
<1> SUFFICES ASSUME AuthInv, [Next]_vars PROVE IssueInv'
  OBVIOUS
<1> USE DEF AuthInv, RowTypes, ReplyInv, StepInv, IssueInv, Backed, Overtaken,
        Resolves, Kinds, AccountInv, Does, Boots, Tab, Requests
<1>1. CASE UNCHANGED vars
  BY <1>1 DEF vars, rows, ask, server, client
<1>2. ASSUME NEW q \in Requests, Step(q) PROVE IssueInv'
  <2>1. CASE WithoutSession(q)
    BY <2>1 DEF WithoutSession, Refuse, Answer, rows, ask, server, client
  <2>2. CASE Resolve(q)
    <3>1. PICK step \in {"Closed", "Resolved"}, reply \in Answers :
              Answer(q, step, reply) /\ UNCHANGED <<rows, undone>>
      BY <2>2 DEF Resolve, Refuse, Goto, Answers
    <3>2. pc[q] \in {"Arrived", "Inserting"}
      BY <2>2 DEF Resolve
    <3>3. ASSUME NEW s, Backed(s) PROVE Backed(s)'
      <4>1. /\ UNCHANGED <<repliesFirst, kind, sessions, undone>>
            /\ \A p \in Requests \ {q} : pc'[p] = pc[p]
        BY <3>1 DEF Answer, rows, client, ask
      <4> QED
        BY <3>2, <3>3, <4>1
    <3>4. reply = "ok" => repliesFirst /\ step = "Committing"
      BY <2>2, <3>1, <3>2 DEF Resolve, Refuse, Goto, Answer
    <3>5. ASSUME NEW t \in Tabs, answer'[<<t, "act">>] = "ok", kind[t] \in {"register", "login"}
          PROVE  Backed(t)'
      BY <3>1, <3>3, <3>4, <3>5 DEF Answer, rows, client, ask
    <3> QED
      BY <3>1, <3>3, <3>5 DEF Answer, rows, client, ask
  <2>3. CASE UpdateSession(q)
    BY <2>3 DEF UpdateSession, Handled, Answer, rows, ask, server, client
  <2>4. CASE RefuseToken(q)
    BY <2>4 DEF RefuseToken, Refuse, Answer, rows, ask, server, client
  <2>5. CASE SelectAccount(q)
    <3>1. PICK step \in {"Closed", "Inserting", "Auditing", "Committing"}, reply \in Answers :
              Answer(q, step, reply) /\ UNCHANGED <<rows, undone>>
      BY <2>5 DEF SelectAccount, Refuse, Goto, Handled, Answers
    <3>2. pc[q] \in {"Arrived", "Inserting"}
      BY <2>5 DEF SelectAccount
    <3>3. ASSUME NEW s, Backed(s) PROVE Backed(s)'
      <4>1. /\ UNCHANGED <<repliesFirst, kind, sessions, undone>>
            /\ \A p \in Requests \ {q} : pc'[p] = pc[p]
        BY <3>1 DEF Answer, rows, client, ask
      <4> QED
        BY <3>2, <3>3, <4>1
    <3>4. reply = "ok" => repliesFirst /\ step = "Committing"
      BY <2>5, <3>1, <3>2 DEF SelectAccount, Refuse, Goto, Handled, Answer
    <3>5. ASSUME NEW t \in Tabs, answer'[<<t, "act">>] = "ok", kind[t] \in {"register", "login"}
          PROVE  Backed(t)'
      BY <3>1, <3>3, <3>4, <3>5 DEF Answer, rows, client, ask
    <3> QED
      BY <3>1, <3>3, <3>5 DEF Answer, rows, client, ask
  <2>6. CASE InsertAccount(q)
    <3>1. PICK step \in {"Closed", "Committing"}, reply \in Answers :
              Answer(q, step, reply) /\ UNCHANGED <<rows, undone>>
      BY <2>6 DEF InsertAccount, Refuse, Handled, Answers
    <3>2. pc[q] \in {"Arrived", "Inserting"}
      BY <2>6 DEF InsertAccount
    <3>3. ASSUME NEW s, Backed(s) PROVE Backed(s)'
      <4>1. /\ UNCHANGED <<repliesFirst, kind, sessions, undone>>
            /\ \A p \in Requests \ {q} : pc'[p] = pc[p]
        BY <3>1 DEF Answer, rows, client, ask
      <4> QED
        BY <3>2, <3>3, <4>1
    <3>4. reply = "ok" => repliesFirst /\ step = "Committing"
      BY <2>6, <3>1, <3>2 DEF InsertAccount, Refuse, Handled, Answer
    <3>5. ASSUME NEW t \in Tabs, answer'[<<t, "act">>] = "ok", kind[t] \in {"register", "login"}
          PROVE  Backed(t)'
      BY <3>1, <3>3, <3>4, <3>5 DEF Answer, rows, client, ask
    <3> QED
      BY <3>1, <3>3, <3>5 DEF Answer, rows, client, ask
  <2>7. CASE TakeSecondConnection(q)
    BY <2>7 DEF TakeSecondConnection, Goto, Answer, rows, ask, server, client
  <2>8. CASE RecordFailure(q)
    BY <2>8 DEF RecordFailure, Answer, rows, ask, server, client
  <2>9. CASE Commit(q)
    <3>1. /\ UNCHANGED <<repliesFirst, kind, jar, cookies, undone>>
          /\ pc[q] = "Committing" /\ pc' = [pc EXCEPT ![q] = "Closed"]
          /\ answer' = [answer EXCEPT ![q] = "ok"]
      BY <2>9 DEF Commit, Answer, client, ask
    <3>2. sessions \subseteq sessions'
      BY <2>9 DEF Commit, ApplyToken, ApplyIssue, ApplyRevocation, rows
    <3>3. Does(q, {"register", "login"}) => Tab(q) \in sessions'
      BY <2>9, <3>1 DEF Commit, ApplyIssue
    <3>4. ASSUME NEW s, Backed(s) PROVE Backed(s)'
      BY <3>1, <3>2, <3>3, <3>4
    <3>5. ASSUME NEW t \in Tabs, answer'[<<t, "act">>] = "ok", kind[t] \in {"register", "login"}
          PROVE  Backed(t)'
      <4>1. CASE q = <<t, "act">>
        BY <3>3, <3>5, <4>1
      <4>2. CASE q # <<t, "act">>
        BY <3>1, <3>4, <3>5, <4>2
      <4> QED
        BY <4>1, <4>2
    <3> QED
      BY <3>1, <3>4, <3>5
  <2>10. CASE CommitFails(q)
    BY <2>10 DEF CommitFails, Answer, rows, ask, server, client
  <2>11. CASE PoolTimeout(q)
    BY <2>11 DEF PoolTimeout, WaitsForConnection, Refuse, Answer, rows, ask,
        server, client
  <2> QED
    BY <1>2, <2>1, <2>2, <2>3, <2>4, <2>5, <2>6, <2>7, <2>8, <2>9, <2>10, <2>11 DEF Step
<1>3. ASSUME NEW q \in Requests, Abort(q) PROVE IssueInv'
  BY <1>3 DEF Abort, Holding, Refuse, Answer, rows, ask, server, client
<1>4. ASSUME NEW q \in Requests, Receive(q) PROVE IssueInv'
  <2>1. /\ UNCHANGED <<repliesFirst, kind, answer, pc, undone, sessions, cookies>>
        /\ \A b \in Browsers \ {browser[Tab(q)]} : jar'[b] = jar[b]
        /\ jar'[browser[Tab(q)]] = JarAfter(q)
    BY <1>4 DEF Receive, ask, rows, server
  <2>2. \A s : Backed(s) => Backed(s)'
    BY <2>1
  <2>3. Backed(JarAfter(q).session)
    <3>1. jar[browser[Tab(q)]] \in Jars /\ browser[Tab(q)] \in Browsers
      OBVIOUS
    <3>2. CASE Boots(q)
      BY <3>1, <3>2 DEF JarAfter, Jars
    <3>3. CASE ~Boots(q)
      <4>1. q = <<Tab(q), "act">> /\ pc[q] # "Idle" /\ answer[q] = "ok" /\ Tab(q) \in Tabs
        BY <3>3, <1>4 DEF Receive
      <4>2. kind[Tab(q)] \in Kinds
        BY <4>1, KindKnown
      <4>3. answer[<<Tab(q), "act">>] = "ok"
        BY <4>1
      <4>4. kind[Tab(q)] \in {"register", "login"} => Backed(Tab(q))
        BY <4>1, <4>3
      <4> QED
        BY <3>1, <3>3, <4>2, <4>4 DEF JarAfter
    <3> QED
      BY <3>2, <3>3
  <2>4. ASSUME NEW b \in Browsers PROVE Backed(jar'[b].session)
    <3>1. CASE b = browser[Tab(q)]
      BY <2>1, <2>3, <3>1
    <3>2. CASE b # browser[Tab(q)]
      <4>1. jar'[b] = jar[b] /\ Backed(jar[b].session)
        BY <2>1, <3>2
      <4> QED
        BY <4>1
    <3> QED
      BY <3>1, <3>2
  <2>5. /\ \A b \in Browsers : Backed(jar[b].session)'
        /\ \A p \in Requests : Backed(cookies[p].session)'
    BY <2>1, <2>2, <2>4
  <2>6. \A t \in Tabs :
            answer'[<<t, "act">>] = "ok" /\ kind'[t] \in {"register", "login"} => Backed(t)'
    BY <2>1, <2>2
  <2> QED
    BY <2>5, <2>6
<1>5. ASSUME NEW q \in Requests, Lose(q) PROVE IssueInv'
  BY <1>5 DEF Lose, rows, ask, server, client
<1>6. ASSUME NEW t \in Tabs, Submit(t)
      PROVE  IssueInv'
  <2>1. /\ UNCHANGED <<repliesFirst, kind, answer, undone, sessions, jar>>
        /\ pc[<<t, "act">>] = "Idle" /\ pc' = [pc EXCEPT ![<<t, "act">>] = "Arrived"]
        /\ cookies' = [cookies EXCEPT ![<<t, "act">>] = jar[browser[t]]]
    BY <1>6 DEF Submit, Send, rows, ask
  <2>2. \A s : Backed(s) => Backed(s)'
    <3>1. <<t, "act">> \notin undone
      BY <2>1
    <3>2. ASSUME NEW u \in Tabs, u # t PROVE pc'[<<u, "act">>] = pc[<<u, "act">>]
      BY <2>1, <3>2
    <3> QED
      BY <2>1, <3>1, <3>2
  <2>3. browser[t] \in Browsers
    OBVIOUS
  <2> QED
    BY <2>1, <2>2, <2>3
<1>7. ASSUME NEW t \in Tabs, NEW k \in Kinds, NEW e \in Emails, NEW pw \in BOOLEAN,
             Open(t, k, e, pw)
      PROVE  IssueInv'
  BY <1>7 DEF Open, Send, rows, ask, server, client
<1>8. ASSUME NEW s \in Sessions, Expire(s)
      PROVE  IssueInv'
  BY <1>8 DEF Expire, rows, ask, server, client
<1>9. ASSUME NEW b \in Browsers, ExpireCookie(b)
      PROVE  IssueInv'
  BY <1>9 DEF ExpireCookie, rows, ask, server, client
<1> HIDE DEF IssueInv
<1> QED
  BY <1>1, <1>2, <1>3, <1>4, <1>5, <1>6, <1>7, <1>8, <1>9 DEF Next

\* So no step lets a second registration of an address succeed.
LEMMA RegistrationStep == AuthInv /\ [Next]_vars => RegistrationsExact'
<1> SUFFICES ASSUME AuthInv, [Next]_vars PROVE RegistrationsExact'
  OBVIOUS
<1> USE DEF AuthInv, RowTypes, ReplyInv, StepInv, AccountInv, RegistrationsExact,
        Resolves, Kinds, Does, Boots, Tab, Requests
<1>1. CASE UNCHANGED vars
  BY <1>1 DEF vars, rows, ask, server, client
<1>2. ASSUME NEW q \in Requests, Step(q) PROVE RegistrationsExact'
  <2>1. CASE WithoutSession(q)
    BY <2>1 DEF WithoutSession, Refuse, Answer, rows, ask, server, client
  <2>2. CASE Resolve(q)
    BY <2>2 DEF Resolve, Refuse, Goto, Answer, rows, ask, server, client
  <2>3. CASE UpdateSession(q)
    BY <2>3 DEF UpdateSession, Handled, Answer, rows, ask, server, client
  <2>4. CASE RefuseToken(q)
    BY <2>4 DEF RefuseToken, Refuse, Answer, rows, ask, server, client
  <2>5. CASE SelectAccount(q)
    BY <2>5 DEF SelectAccount, Refuse, Goto, Handled, Answer, rows, ask, server,
        client
  <2>6. CASE InsertAccount(q)
    BY <2>6 DEF InsertAccount, Refuse, Handled, Answer, rows, ask, server, client
  <2>7. CASE TakeSecondConnection(q)
    BY <2>7 DEF TakeSecondConnection, Goto, Answer, rows, ask, server, client
  <2>8. CASE RecordFailure(q)
    BY <2>8 DEF RecordFailure, Answer, rows, ask, server, client
  <2>9. CASE Commit(q)
    <3>1. CASE Does(q, {"register", "login"})
      <4>1. /\ accounts' = accounts \cup {email[Tab(q)]}
            /\ sessions' = sessions \cup {Tab(q)}
            /\ UNCHANGED <<kind, email>>
            /\ answer' = [answer EXCEPT ![q] = "ok"]
            /\ pc[q] = "Committing"
        BY <2>9, <3>1 DEF Commit, ApplyIssue, Answer, client, ask
      <4>2. kind[Tab(q)] = "register" => email[Tab(q)] \notin accounts
        BY <3>1, <4>1
      <4>3. \A t \in sessions \ {Seed} : email[t] \in accounts
        OBVIOUS
      <4>4. Known \in accounts
        OBVIOUS
      <4> QED
        BY <4>1, <4>2, <4>3, <4>4
    <3>2. CASE ~Does(q, {"register", "login"})
      BY <2>9, <3>2 DEF Commit, ApplyToken, ApplyRevocation, Answer, rows, client, ask
    <3> QED
      BY <3>1, <3>2
  <2>10. CASE CommitFails(q)
    BY <2>10 DEF CommitFails, Answer, rows, ask, server, client
  <2>11. CASE PoolTimeout(q)
    BY <2>11 DEF PoolTimeout, WaitsForConnection, Refuse, Answer, rows, ask,
        server, client
  <2> QED
    BY <1>2, <2>1, <2>2, <2>3, <2>4, <2>5, <2>6, <2>7, <2>8, <2>9, <2>10, <2>11 DEF Step
<1>3. ASSUME NEW q \in Requests, Abort(q) PROVE RegistrationsExact'
  BY <1>3 DEF Abort, Holding, Refuse, Answer, rows, ask, server, client
<1>4. ASSUME NEW q \in Requests, Receive(q) PROVE RegistrationsExact'
  BY <1>4 DEF Receive, JarAfter, rows, ask, server, client
<1>5. ASSUME NEW q \in Requests, Lose(q) PROVE RegistrationsExact'
  BY <1>5 DEF Lose, rows, ask, server, client
<1>6. ASSUME NEW t \in Tabs, Submit(t)
      PROVE  RegistrationsExact'
  BY <1>6 DEF Submit, Send, rows, ask, server, client
<1>7. ASSUME NEW t \in Tabs, NEW k \in Kinds, NEW e \in Emails, NEW pw \in BOOLEAN,
             Open(t, k, e, pw)
      PROVE  RegistrationsExact'
  <2>1. /\ UNCHANGED <<accounts, sessions, answer>>
        /\ pc[<<t, "boot">>] = "Idle"
        /\ kind' = [kind EXCEPT ![t] = k] /\ email' = [email EXCEPT ![t] = e]
    BY <1>7 DEF Open, Send, rows
  <2>2. pc[<<t, "act">>] = "Idle" /\ t \notin sessions \ {Seed}
    BY <2>1
  <2>3. answer[<<t, "act">>] # "conflict"
    BY <2>2, SMTT(60)
  <2> QED
    BY <2>1, <2>2, <2>3
<1>8. ASSUME NEW s \in Sessions, Expire(s)
      PROVE  RegistrationsExact'
  BY <1>8 DEF Expire, rows, ask, server, client
<1>9. ASSUME NEW b \in Browsers, ExpireCookie(b)
      PROVE  RegistrationsExact'
  BY <1>9 DEF ExpireCookie, rows, ask, server, client
<1> HIDE DEF RegistrationsExact
<1> QED
  BY <1>1, <1>2, <1>3, <1>4, <1>5, <1>6, <1>7, <1>8, <1>9 DEF Next

\* Only the steps that write rows log a session out or refuse a password.
LEMMA RowsOnly ==
  ASSUME AuthInv, [Next]_vars, NEW s \in Sessions, NEW t \in Tabs,
         \A q \in Requests : ~Commit(q) /\ ~RecordFailure(q)
  PROVE  /\ UNCHANGED <<sessions, revoked, events>>
         /\ LoggedOut(t, s)' <=> LoggedOut(t, s)
         /\ (answer[<<t, "act">>] = "invalid")' <=> answer[<<t, "act">>] = "invalid"
<1> DEFINE Kept == /\ UNCHANGED <<sessions, revoked, events>>
                   /\ LoggedOut(t, s)' <=> LoggedOut(t, s)
                   /\ (answer[<<t, "act">>] = "invalid")'
                          <=> answer[<<t, "act">>] = "invalid"
<1> SUFFICES Kept
  OBVIOUS
<1> USE DEF AuthInv, RowTypes, ReplyInv, LoggedOut, CookieSession, Resolves, Kinds,
        Does, Boots, Tab, Requests
<1>1. CASE UNCHANGED vars
  BY <1>1 DEF vars, rows, ask, server, client
<1>2. ASSUME NEW q \in Requests, WithoutSession(q) \/ Resolve(q) \/ UpdateSession(q)
      PROVE  Kept
  BY <1>2 DEF WithoutSession, Resolve, UpdateSession, Handled, Refuse, Goto, Answer,
     rows, ask, server, client
<1>3. ASSUME NEW q \in Requests, RefuseToken(q) \/ SelectAccount(q) \/ InsertAccount(q)
      PROVE  Kept
  BY <1>3 DEF RefuseToken, SelectAccount, InsertAccount, Handled, Refuse, Goto, Answer,
     rows, ask, server, client
<1>4. ASSUME NEW q \in Requests,
             TakeSecondConnection(q) \/ CommitFails(q) \/ PoolTimeout(q) \/ Abort(q)
      PROVE  Kept
  BY <1>4 DEF TakeSecondConnection, CommitFails, PoolTimeout, WaitsForConnection, Abort,
     Holding, Refuse, Goto, Answer, rows, ask, server, client
<1>5. ASSUME NEW q \in Requests, Receive(q) \/ Lose(q)
      PROVE  Kept
  BY <1>5 DEF Receive, Lose, rows, ask, server, client
<1>6. ASSUME NEW u \in Tabs, Submit(u)
      PROVE  Kept
  <2>1. /\ UNCHANGED <<sessions, revoked, events, kind, answer, undone>>
        /\ pc[<<u, "act">>] = "Idle" /\ pc' = [pc EXCEPT ![<<u, "act">>] = "Arrived"]
        /\ cookies' = [cookies EXCEPT ![<<u, "act">>] = jar[browser[u]]]
    BY <1>6 DEF Submit, Send, rows, ask
  <2>2. CASE u = t
    BY <2>1, <2>2
  <2>3. CASE u # t
    <3>1. pc'[<<t, "act">>] = pc[<<t, "act">>] /\ cookies'[<<t, "act">>] = cookies[<<t, "act">>]
      BY <2>1, <2>3
    <3> QED
      BY <2>1, <3>1
  <2> QED
    BY <2>2, <2>3
<1>7. ASSUME NEW u \in Tabs, NEW k \in Kinds, NEW e \in Emails, NEW pw \in BOOLEAN,
             Open(u, k, e, pw)
      PROVE  Kept
  BY <1>7 DEF Open, Send, rows, ask, server, client
<1>8. ASSUME NEW z \in Sessions, Expire(z)
      PROVE  Kept
  BY <1>8 DEF Expire, rows, ask, server, client
<1>9. ASSUME NEW b \in Browsers, ExpireCookie(b)
      PROVE  Kept
  BY <1>9 DEF ExpireCookie, rows, ask, server, client
<1> HIDE DEF AuthInv, RowTypes, ReplyInv, LoggedOut, CookieSession, Resolves, Kinds,
        Does, Boots, Tab, Requests, Kept
<1> QED
  BY <1>1, <1>2, <1>3, <1>4, <1>5, <1>6, <1>7, <1>8, <1>9 DEF Next, Step

\* Sessions and their events are written in one transaction, and a failed login is
\* answered after its own.
LEMMA AuditStep == AuthInv /\ [Next]_vars => AuditExact'
<1> SUFFICES ASSUME AuthInv, [Next]_vars PROVE AuditExact'
  OBVIOUS
<1>0. CASE Tabs = {}
  <2>1. UNCHANGED <<sessions, revoked, events>>
    BY <1>0 DEF Next, Requests, Expire, ExpireCookie, rows, vars
  <2> QED
    BY <1>0, <2>1 DEF AuthInv, AuditExact
<1> SUFFICES ASSUME NEW s \in Sessions, NEW t \in Tabs
             PROVE  /\ s \in sessions' <=> <<s, "session_issued", s>> \in events'
                    /\ s \in revoked'
                           <=> \E u \in Tabs : <<s, "session_revoked", u>> \in events'
                    /\ LoggedOut(t, s)' <=> <<s, "session_revoked", t>> \in events'
                    /\ answer'[<<t, "act">>] = "invalid"
                           <=> <<t, "login_failed", t>> \in events'
  BY <1>0 DEF AuditExact, LoggedOut, Does, Tab, CookieSession, Sessions
<1>1. /\ s \in sessions <=> <<s, "session_issued", s>> \in events
      /\ s \in revoked <=> \E u \in Tabs : <<s, "session_revoked", u>> \in events
      /\ LoggedOut(t, s) <=> <<s, "session_revoked", t>> \in events
      /\ answer[<<t, "act">>] = "invalid" <=> <<t, "login_failed", t>> \in events
  BY DEF AuthInv, AuditExact
<1>2. CASE \A q \in Requests : ~Commit(q) /\ ~RecordFailure(q)
  BY <1>1, <1>2, RowsOnly
<1>3. ASSUME NEW q \in Requests, RecordFailure(q)
      PROVE  /\ s \in sessions' <=> <<s, "session_issued", s>> \in events'
             /\ s \in revoked'
                    <=> \E u \in Tabs : <<s, "session_revoked", u>> \in events'
             /\ LoggedOut(t, s)' <=> <<s, "session_revoked", t>> \in events'
             /\ answer'[<<t, "act">>] = "invalid"
                    <=> <<t, "login_failed", t>> \in events'
  <2>1. /\ UNCHANGED <<sessions, revoked, kind, cookies, undone>>
        /\ events' = events \cup {<<Tab(q), "login_failed", Tab(q)>>}
        /\ answer' = [answer EXCEPT ![q] = "invalid"]
        /\ pc[q] = "Recording" /\ pc' = [pc EXCEPT ![q] = "Closed"]
    BY <1>3 DEF RecordFailure, Answer, ask, client
  <2>2. Does(q, {"login"})
    BY <2>1 DEF AuthInv, StepInv
  <2>3. LoggedOut(t, s)' <=> LoggedOut(t, s)
    BY <2>1, <2>2 DEF LoggedOut, Does, Tab, CookieSession, AuthInv, RowTypes, Requests
  <2>4. answer'[<<t, "act">>] = "invalid" <=> <<t, "login_failed", t>> \in events'
    <3>1. q = <<Tab(q), "act">> /\ Tab(q) \in Tabs
      BY <2>2 DEF Does, Tab, Requests
    <3>2. CASE Tab(q) = t
      BY <2>1, <3>1, <3>2 DEF AuthInv, RowTypes, Requests
    <3>3. CASE Tab(q) # t
      <4>1. answer'[<<t, "act">>] = answer[<<t, "act">>]
        BY <2>1, <3>1, <3>3 DEF AuthInv, RowTypes, Requests
      <4> QED
        BY <1>1, <2>1, <3>3, <4>1
    <3> QED
      BY <3>2, <3>3
  <2> QED
    BY <1>1, <2>1, <2>3, <2>4
<1>4. ASSUME NEW q \in Requests, Commit(q)
      PROVE  /\ s \in sessions' <=> <<s, "session_issued", s>> \in events'
             /\ s \in revoked'
                    <=> \E u \in Tabs : <<s, "session_revoked", u>> \in events'
             /\ LoggedOut(t, s)' <=> <<s, "session_revoked", t>> \in events'
             /\ answer'[<<t, "act">>] = "invalid"
                    <=> <<t, "login_failed", t>> \in events'
  <2>1. /\ UNCHANGED <<kind, cookies, undone>>
        /\ answer' = [answer EXCEPT ![q] = "ok"]
        /\ pc[q] = "Committing" /\ pc' = [pc EXCEPT ![q] = "Closed"]
    BY <1>4 DEF Commit, Answer, ask, client
  <2>2. /\ answer'[<<t, "act">>] = "invalid" <=> answer[<<t, "act">>] = "invalid"
        /\ \A u \in Tabs : <<u, "login_failed", u>> \in events'
                               <=> <<u, "login_failed", u>> \in events
    <3>1. answer[q] # "invalid"
      BY <2>1 DEF AuthInv, ReplyInv
    <3>2. answer'[<<t, "act">>] = "invalid" <=> answer[<<t, "act">>] = "invalid"
      BY <2>1, <3>1 DEF AuthInv, RowTypes
    <3> QED
      BY <1>4, <3>2 DEF Commit, ApplyToken, ApplyIssue, ApplyRevocation, rows
  <2>3. CASE Does(q, {"logout"}) /\ ApplyRevocation(q)
    <3>1. q = <<Tab(q), "act">> /\ Tab(q) \in Tabs
      BY <2>3 DEF Does, Tab, Requests
    <3>2. /\ UNCHANGED sessions /\ revoked' = revoked \cup {CookieSession(q)}
          /\ events' = events \cup {<<CookieSession(q), "session_revoked", Tab(q)>>}
      BY <2>3 DEF ApplyRevocation
    <3>3. LoggedOut(t, s)' <=> LoggedOut(t, s) \/ (Tab(q) = t /\ CookieSession(q) = s)
      <4>1. q \notin undone
        BY <2>1 DEF AuthInv, ReplyInv
      <4>2. CASE Tab(q) = t
        BY <2>1, <2>3, <3>1, <4>1, <4>2 DEF LoggedOut, Does, Tab, CookieSession, AuthInv,
           RowTypes
      <4>3. CASE Tab(q) # t
        <5>1. /\ pc'[<<t, "act">>] = pc[<<t, "act">>]
              /\ answer'[<<t, "act">>] = answer[<<t, "act">>]
          BY <2>1, <3>1, <4>3 DEF AuthInv, RowTypes
        <5> QED
          BY <2>1, <4>3, <5>1 DEF LoggedOut, Does, Tab, CookieSession
      <4> QED
        BY <4>2, <4>3
    <3>4. LoggedOut(t, s)' <=> <<s, "session_revoked", t>> \in events'
      BY <1>1, <3>2, <3>3
    <3>5. s \in sessions' <=> <<s, "session_issued", s>> \in events'
      BY <1>1, <3>2
    <3>6. s \in revoked' <=> \E u \in Tabs : <<s, "session_revoked", u>> \in events'
      BY <1>1, <3>1, <3>2
    <3> QED
      BY <1>1, <2>2, <3>4, <3>5, <3>6
  <2>4. CASE ~Does(q, {"logout"})
    <3>1. LoggedOut(t, s)' <=> LoggedOut(t, s)
      <4>1. CASE q = <<t, "act">>
        BY <2>1, <2>4, <4>1 DEF LoggedOut, Does, Tab
      <4>2. CASE q # <<t, "act">>
        <5>1. /\ pc'[<<t, "act">>] = pc[<<t, "act">>]
              /\ answer'[<<t, "act">>] = answer[<<t, "act">>]
          BY <2>1, <4>2 DEF AuthInv, RowTypes
        <5> QED
          BY <2>1, <5>1 DEF LoggedOut, Does, Tab, CookieSession
      <4> QED
        BY <4>1, <4>2
    <3>2. CASE UNCHANGED <<sessions, revoked, events>>
      BY <1>1, <2>2, <3>1, <3>2
    <3>3. CASE Does(q, {"register", "login"}) /\ ApplyIssue(q)
      <4>1. UNCHANGED revoked /\ sessions' = sessions \cup {Tab(q)}
        BY <3>3 DEF ApplyIssue
      <4>2. /\ s \in sessions' <=> <<s, "session_issued", s>> \in events'
            /\ \A u \in Tabs : <<s, "session_revoked", u>> \in events'
                                   <=> <<s, "session_revoked", u>> \in events
        BY <1>1, <3>3 DEF ApplyIssue
      <4> QED
        BY <1>1, <2>2, <3>1, <4>1, <4>2
    <3> QED
      BY <1>4, <2>4, <3>2, <3>3 DEF Commit, ApplyToken, rows
  <2> QED
    BY <1>4, <2>3, <2>4 DEF Commit, Does, Boots, ApplyToken, rows
<1> QED
  BY <1>2, <1>3, <1>4

\* A session that is turned away has ended or was announced too early.
LEMMA HonourStep == AuthInv /\ [Next]_vars => SessionsHonoured'
<1> SUFFICES ASSUME AuthInv, [Next]_vars PROVE SessionsHonoured'
  OBVIOUS
<1> USE DEF AuthInv, RowTypes, ReplyInv, StepInv, AccountInv, IssueInv, Backed,
        Overtaken, SessionsHonoured, CookieSession, Live, Resolves, Kinds, Does,
        Boots, Tab, Requests
<1>1. CASE UNCHANGED vars
  BY <1>1 DEF vars, rows, ask, server, client
<1>2. ASSUME NEW q \in Requests, Step(q) PROVE SessionsHonoured'
  <2>1. CASE WithoutSession(q)
    BY <2>1 DEF WithoutSession, Refuse, Answer, rows, ask, server, client
  <2>2. CASE Resolve(q)
    <3>1. PICK step \in {"Closed", "Resolved"}, reply \in Answers :
              Answer(q, step, reply) /\ UNCHANGED <<rows, undone>>
      BY <2>2 DEF Resolve, Refuse, Goto, Answers
    <3>2. reply = "unauthenticated" => CookieSession(q) # None /\ ~Live(CookieSession(q))
      BY <2>2, <3>1 DEF Resolve, Refuse, Goto, Answer
    <3>3. Backed(cookies[q].session) /\ Seed \in sessions
      OBVIOUS
    <3> QED
      BY <3>1, <3>2, <3>3 DEF Answer, rows, client, ask
  <2>3. CASE UpdateSession(q)
    BY <2>3 DEF UpdateSession, Handled, Answer, rows, ask, server, client
  <2>4. CASE RefuseToken(q)
    BY <2>4 DEF RefuseToken, Refuse, Answer, rows, ask, server, client
  <2>5. CASE SelectAccount(q)
    BY <2>5 DEF SelectAccount, Refuse, Goto, Handled, Answer, rows, ask, server,
        client
  <2>6. CASE InsertAccount(q)
    BY <2>6 DEF InsertAccount, Refuse, Handled, Answer, rows, ask, server, client
  <2>7. CASE TakeSecondConnection(q)
    BY <2>7 DEF TakeSecondConnection, Goto, Answer, rows, ask, server, client
  <2>8. CASE RecordFailure(q)
    BY <2>8 DEF RecordFailure, Answer, rows, ask, server, client
  <2>9. CASE Commit(q)
    BY <2>9 DEF Commit, ApplyToken, ApplyIssue, ApplyRevocation, Answer, rows, ask,
        server, client
  <2>10. CASE CommitFails(q)
    BY <2>10 DEF CommitFails, Answer, rows, ask, server, client
  <2>11. CASE PoolTimeout(q)
    BY <2>11 DEF PoolTimeout, WaitsForConnection, Refuse, Answer, rows, ask,
        server, client
  <2> QED
    BY <1>2, <2>1, <2>2, <2>3, <2>4, <2>5, <2>6, <2>7, <2>8, <2>9, <2>10, <2>11 DEF Step
<1>3. ASSUME NEW q \in Requests, Abort(q) PROVE SessionsHonoured'
  BY <1>3 DEF Abort, Holding, Refuse, Answer, rows, ask, server, client
<1>4. ASSUME NEW q \in Requests, Receive(q) PROVE SessionsHonoured'
  BY <1>4 DEF Receive, JarAfter, rows, ask, server, client
<1>5. ASSUME NEW q \in Requests, Lose(q) PROVE SessionsHonoured'
  BY <1>5 DEF Lose, rows, ask, server, client
<1>6. ASSUME NEW t \in Tabs, Submit(t)
      PROVE  SessionsHonoured'
  BY <1>6 DEF Submit, Send, rows, ask, server, client
<1>7. ASSUME NEW t \in Tabs, NEW k \in Kinds, NEW e \in Emails, NEW pw \in BOOLEAN,
             Open(t, k, e, pw)
      PROVE  SessionsHonoured'
  BY <1>7 DEF Open, Send, rows, ask, server, client
<1>8. ASSUME NEW s \in Sessions, Expire(s)
      PROVE  SessionsHonoured'
  BY <1>8 DEF Expire, rows, ask, server, client
<1>9. ASSUME NEW b \in Browsers, ExpireCookie(b)
      PROVE  SessionsHonoured'
  BY <1>9 DEF ExpireCookie, rows, ask, server, client
<1> HIDE DEF SessionsHonoured
<1> QED
  BY <1>1, <1>2, <1>3, <1>4, <1>5, <1>6, <1>7, <1>8, <1>9 DEF Next

\* Cookies stay in the browser they were set in.
LEMMA OwnerStep == AuthInv /\ OwnerInv /\ [Next]_vars => OwnerInv'
<1> SUFFICES ASSUME AuthInv /\ OwnerInv, [Next]_vars PROVE OwnerInv'
  OBVIOUS
<1> USE DEF AuthInv, RowTypes, ReplyInv, OwnerInv, Owner, CookieSession, Kinds,
        Does, Boots, Tab, Requests
<1>1. CASE UNCHANGED vars
  BY <1>1 DEF vars, rows, ask, server, client
<1>2. ASSUME NEW q \in Requests, Step(q) PROVE OwnerInv'
  <2>1. CASE WithoutSession(q)
    BY <2>1 DEF WithoutSession, Refuse, Answer, rows, ask, server, client
  <2>2. CASE Resolve(q)
    BY <2>2 DEF Resolve, Refuse, Goto, Answer, rows, ask, server, client
  <2>3. CASE UpdateSession(q)
    BY <2>3 DEF UpdateSession, Handled, Answer, rows, ask, server, client
  <2>4. CASE RefuseToken(q)
    BY <2>4 DEF RefuseToken, Refuse, Answer, rows, ask, server, client
  <2>5. CASE SelectAccount(q)
    BY <2>5 DEF SelectAccount, Refuse, Goto, Handled, Answer, rows, ask, server,
        client
  <2>6. CASE InsertAccount(q)
    BY <2>6 DEF InsertAccount, Refuse, Handled, Answer, rows, ask, server, client
  <2>7. CASE TakeSecondConnection(q)
    BY <2>7 DEF TakeSecondConnection, Goto, Answer, rows, ask, server, client
  <2>8. CASE RecordFailure(q)
    BY <2>8 DEF RecordFailure, Answer, rows, ask, server, client
  <2>9. CASE Commit(q)
    BY <2>9 DEF Commit, ApplyToken, ApplyIssue, ApplyRevocation, Answer, rows, ask,
        server, client
  <2>10. CASE CommitFails(q)
    BY <2>10 DEF CommitFails, Answer, rows, ask, server, client
  <2>11. CASE PoolTimeout(q)
    BY <2>11 DEF PoolTimeout, WaitsForConnection, Refuse, Answer, rows, ask,
        server, client
  <2> QED
    BY <1>2, <2>1, <2>2, <2>3, <2>4, <2>5, <2>6, <2>7, <2>8, <2>9, <2>10, <2>11 DEF Step
<1>3. ASSUME NEW q \in Requests, Abort(q) PROVE OwnerInv'
  BY <1>3 DEF Abort, Holding, Refuse, Answer, rows, ask, server, client
<1>4. ASSUME NEW q \in Requests, Receive(q) PROVE OwnerInv'
  <2>1. /\ UNCHANGED <<browser, cookies>>
        /\ \A b \in Browsers \ {browser[Tab(q)]} : jar'[b] = jar[b]
        /\ jar'[browser[Tab(q)]] = JarAfter(q)
    BY <1>4 DEF Receive, ask
  <2>2. JarAfter(q).session \in {jar[browser[Tab(q)]].session, Tab(q), None}
    <3>1. CASE Boots(q)
      BY <3>1, jar[browser[Tab(q)]] \in Jars DEF JarAfter, Jars
    <3>2. CASE ~Boots(q)
      <4>1. q = <<Tab(q), "act">> /\ pc[q] # "Idle"
        BY <3>2, <1>4 DEF Receive
      <4>2. kind[Tab(q)] \in Kinds
        BY <4>1, KindKnown
      <4> QED
        BY <3>2, <4>2 DEF JarAfter
    <3> QED
      BY <3>1, <3>2
  <2>3. browser[Tab(q)] \in Browsers /\ Tab(q) # Seed
    BY SeedAssumption
  <2> QED
    BY <2>1, <2>2, <2>3
<1>5. ASSUME NEW q \in Requests, Lose(q) PROVE OwnerInv'
  BY <1>5 DEF Lose, rows, ask, server, client
<1>6. ASSUME NEW t \in Tabs, Submit(t)
      PROVE  OwnerInv'
  BY <1>6 DEF Submit, Send, rows, ask, server, client
<1>7. ASSUME NEW t \in Tabs, NEW k \in Kinds, NEW e \in Emails, NEW pw \in BOOLEAN,
             Open(t, k, e, pw)
      PROVE  OwnerInv'
  BY <1>7 DEF Open, Send, rows, ask, server, client
<1>8. ASSUME NEW s \in Sessions, Expire(s)
      PROVE  OwnerInv'
  BY <1>8 DEF Expire, rows, ask, server, client
<1>9. ASSUME NEW b \in Browsers, ExpireCookie(b)
      PROVE  OwnerInv'
  BY <1>9 DEF ExpireCookie, rows, ask, server, client
<1> HIDE DEF OwnerInv
<1> QED
  BY <1>1, <1>2, <1>3, <1>4, <1>5, <1>6, <1>7, <1>8, <1>9 DEF Next

-----------------------------------------------------------------------------
(* CSRF tokens.                                                             *)

\* What a step of the handler of q does to tokens and cookies.
HandlerStep(q) ==
    /\ UNCHANGED <<repliesFirst, browser, jar, cookies, delivered>>
    /\ pc[q] # "Idle" /\ pc'[q] \notin {"Idle", "Arrived"}
    /\ \A p \in Requests \ {q} : pc'[p] = pc[p] /\ answer'[p] = answer[p]
    /\ digest' \in {digest, [digest EXCEPT ![CookieSession(q)] = q]}
    /\ answer'[q] = "forbidden" /\ ~Boots(q) =>
           /\ pc[q] = "Arrived"
           /\ ~DoubleSubmitted(q) \/ (CookieSession(q) # None /\ ~CsrfValid(q))
    /\ answer'[q] = "ok" /\ Boots(q) /\ ~repliesFirst =>
           CookieSession(q) = None \/ digest' = [digest EXCEPT ![CookieSession(q)] = q]

\* Every step of a handler is of that form.
LEMMA HandlerSteps ==
    ASSUME AuthInv, NEW q \in Requests, Step(q) \/ Abort(q)
    PROVE  HandlerStep(q)
<1> USE DEF AuthInv, RowTypes, ReplyInv, StepInv, HandlerStep, Does, Boots, Tab,
Resolves, Kinds
<1>1. CASE WithoutSession(q)
  BY <1>1 DEF WithoutSession, Refuse, Answer, rows, ask, server, client
<1>2. CASE Resolve(q)
  BY <1>2 DEF Resolve, Refuse, Goto, Answer, rows, ask, server, client
<1>3. CASE UpdateSession(q)
  BY <1>3 DEF UpdateSession, Handled, Answer, rows, ask, server, client
<1>4. CASE RefuseToken(q)
  BY <1>4 DEF RefuseToken, Refuse, Answer, rows, ask, server, client
<1>5. CASE SelectAccount(q)
  BY <1>5 DEF SelectAccount, Refuse, Goto, Handled, Answer, rows, ask, server,
        client
<1>6. CASE InsertAccount(q)
  BY <1>6 DEF InsertAccount, Refuse, Handled, Answer, rows, ask, server, client
<1>7. CASE TakeSecondConnection(q)
  BY <1>7 DEF TakeSecondConnection, Goto, Answer, rows, ask, server, client
<1>8. CASE RecordFailure(q)
  BY <1>8 DEF RecordFailure, Answer, rows, ask, server, client
<1>9. CASE Commit(q)
  BY <1>9 DEF Commit, ApplyToken, ApplyIssue, ApplyRevocation, Answer, rows, ask,
        server, client
<1>10. CASE CommitFails(q)
  BY <1>10 DEF CommitFails, Answer, rows, ask, server, client
<1>11. CASE PoolTimeout(q)
  BY <1>11 DEF PoolTimeout, WaitsForConnection, Refuse, Answer, rows, ask, server,
        client
<1>12. CASE Abort(q)
  BY <1>12 DEF Abort, Holding, Refuse, Answer, rows, ask, server, client
<1> HIDE DEF HandlerStep
<1> QED
  BY <1>1, <1>2, <1>3, <1>4, <1>5, <1>6, <1>7, <1>8, <1>9, <1>10, <1>11, <1>12 DEF Step

\* What others do in their browsers does not concern a tab.
LEMMA CsrfFrame ==
    ASSUME NEW t \in Tabs, CsrfHolds(t), UNCHANGED browser,
           jar'[browser[t]] = jar[browser[t]],
           \A q \in {<<t, "boot">>, <<t, "act">>} :
               /\ pc'[q] = pc[q] /\ answer'[q] = answer[q]
               /\ delivered'[q] = delivered[q] /\ cookies'[q] = cookies[q],
           \A s : s # None /\ s \in {jar[browser[t]].session, cookies[<<t, "act">>].session}
                      => digest'[s] = digest[s]
    PROVE  CsrfHolds(t)'
BY DEF CsrfHolds, TokenStored

\* The token of a tab that is alone stays with its session, and is accepted.
LEMMA CsrfStep == AuthInv /\ OwnerInv /\ CsrfInv /\ [Next]_vars => CsrfInv'
<1> SUFFICES ASSUME AuthInv, OwnerInv, CsrfInv, [Next]_vars PROVE CsrfInv'
  OBVIOUS
<1> SUFFICES ASSUME NEW t \in Tabs, ~repliesFirst', Alone(t)', pc'[<<t, "boot">>] # "Idle"
             PROVE  CsrfHolds(t)'
  BY DEF CsrfInv
<1> DEFINE boot == <<t, "boot">>
           act == <<t, "act">>
           b == browser[t]
<1>0. /\ boot \in Requests /\ act \in Requests /\ boot # act /\ b \in Browsers
      /\ \A q \in Requests : Tab(q) = t => q \in {boot, act}
      /\ \A q \in Requests : Tab(q) \in Tabs /\ browser[Tab(q)] \in Browsers
      /\ jar[b] \in Jars /\ cookies[act] \in Jars /\ cookies[boot] \in Jars
  BY DEF AuthInv, RowTypes, Requests, Tab
<1>1. CASE UNCHANGED vars
  <2>1. ~repliesFirst /\ Alone(t) /\ pc[boot] # "Idle"
    BY <1>1 DEF vars, client, ask, server, Alone
  <2>2. CsrfHolds(t)
    BY <2>1 DEF CsrfInv
  <2> QED
    BY <1>1, <2>2 DEF CsrfHolds, TokenStored, vars, client, ask, server, rows
\* A tab that shares the browser has done nothing, now or before.
<1>2. ASSUME NEW q \in Requests, pc[q] # "Idle", Tab(q) # t, UNCHANGED browser,
             pc'[q] # "Idle" \/ pc'[<<Tab(q), "boot">>] = pc[<<Tab(q), "boot">>],
             pc'[<<Tab(q), "boot">>] = "Idle" => pc[<<Tab(q), "boot">>] = "Idle"
      PROVE  browser[Tab(q)] # b
  <2>1. pc[<<Tab(q), "boot">>] # "Idle"
    BY <1>0, <1>2 DEF AuthInv, ReplyInv, Requests, Tab
  <2> QED
    BY <1>0, <1>2, <2>1 DEF Alone
<1>3. ASSUME NEW q \in Requests, HandlerStep(q)
      PROVE  CsrfHolds(t)'
  <2>1. ~repliesFirst /\ Alone(t) /\ pc[boot] # "Idle"
    BY <1>0, <1>3 DEF HandlerStep, Alone, Requests
  <2>2. CsrfHolds(t)
    BY <2>1 DEF CsrfInv
  <2>3. CASE Tab(q) # t
    <3>1. q \notin {boot, act}
      BY <2>3 DEF Tab
    <3>2. browser[Tab(q)] # b
      <4>1. <<Tab(q), "boot">> \in Requests
        BY <1>0 DEF Requests
      <4>2. pc'[<<Tab(q), "boot">>] = "Idle" => pc[<<Tab(q), "boot">>] = "Idle"
        BY <1>3, <4>1 DEF HandlerStep
      <4> QED
        BY <1>2, <1>3, <2>3, <4>2 DEF HandlerStep
    <3>3. \A s : s # None /\ s \in {jar[b].session, cookies[act].session}
              => s \in Sessions /\ s # CookieSession(q)
      BY <1>0, <3>2 DEF OwnerInv, CookieSession, Tab, Jars
    <3>4. \A s \in Sessions : s # CookieSession(q) => digest'[s] = digest[s]
      BY <1>3 DEF HandlerStep, AuthInv, RowTypes
    <3> QED
      BY <1>0, <1>3, <2>2, <3>1, <3>3, <3>4, CsrfFrame DEF HandlerStep
  <2>4. CASE q = boot
    <3>1. Boots(boot) /\ CookieSession(boot) = cookies[boot].session
      BY DEF Boots, CookieSession
    <3>2. answer'[boot] = "ok" /\ pc[act] = "Idle" => TokenStored(t, jar[b].session)'
      <4> SUFFICES ASSUME answer'[boot] = "ok", pc[act] = "Idle", jar[b].session # None
                   PROVE  digest'[jar[b].session] = boot
        BY <1>3 DEF TokenStored, HandlerStep
      <4>1. jar[b].session = cookies[boot].session
        BY <2>2 DEF CsrfHolds
      <4>2. digest' = [digest EXCEPT ![jar[b].session] = boot]
        BY <1>3, <2>1, <2>4, <3>1, <4>1 DEF HandlerStep
      <4> QED
        BY <1>0, <4>2 DEF AuthInv, RowTypes, Jars
    <3>3. pc[act] = "Arrived" => UNCHANGED digest \/ digest' = [digest EXCEPT ![cookies[boot].session] = boot]
      BY <1>3, <2>4, <3>1 DEF HandlerStep
    <3>4. pc[act] = "Arrived" => TokenStored(t, cookies[act].session)'
      BY <1>0, <1>3, <2>2, <3>3 DEF TokenStored, HandlerStep, CsrfHolds, AuthInv,
         RowTypes, Jars
    <3> QED
      BY <1>0, <1>3, <2>2, <2>4, <3>2, <3>4 DEF CsrfHolds, HandlerStep
  <2>5. CASE q = act
    <3>1. ~Boots(act) /\ CookieSession(act) = cookies[act].session /\ Tab(act) = t
      BY DEF Boots, CookieSession, Tab
    <3>2. pc[act] = "Arrived" =>
              /\ DoubleSubmitted(act)
              /\ CookieSession(act) # None => CsrfValid(act)
      BY <2>2, <3>1 DEF CsrfHolds, DoubleSubmitted, CsrfValid, TokenStored
    <3>3. answer'[act] # "forbidden" /\ pc'[act] \notin {"Idle", "Arrived"}
      BY <1>3, <2>5, <3>1, <3>2 DEF HandlerStep
    <3> QED
      BY <3>3 DEF CsrfHolds
  <2> QED
    BY <1>0, <2>3, <2>4, <2>5
<1>4. ASSUME NEW q \in Requests, Receive(q) PROVE CsrfHolds(t)'
  <2>1. /\ UNCHANGED <<repliesFirst, browser, cookies, digest, pc, answer>>
        /\ answer[q] = "ok" /\ pc[q] # "Idle"
        /\ delivered' = [delivered EXCEPT ![q] = "got"]
        /\ jar' = [jar EXCEPT ![browser[Tab(q)]] = JarAfter(q)]
    BY <1>4 DEF Receive, ask, rows, server, AuthInv, ReplyInv
  <2>2. ~repliesFirst /\ Alone(t) /\ pc[boot] # "Idle"
    BY <2>1 DEF Alone
  <2>3. CsrfHolds(t)
    BY <2>2 DEF CsrfInv
  <2>4. CASE Tab(q) # t
    <3>1. q \notin {boot, act}
      BY <2>4 DEF Tab
    <3>2. browser[Tab(q)] # b
      BY <1>2, <2>1, <2>4
    <3>3. jar'[b] = jar[b]
      BY <1>0, <2>1, <3>2 DEF AuthInv, RowTypes
    <3>4. \A p \in {boot, act} : delivered'[p] = delivered[p]
      BY <1>0, <2>1, <3>1 DEF AuthInv, RowTypes
    <3> QED
      BY <2>1, <2>3, <3>3, <3>4, CsrfFrame
  <2>5. CASE q = boot
    <3>1. Tab(q) = t /\ Boots(q)
      BY <2>5 DEF Boots, Tab
    <3>2. JarAfter(q).session = jar[b].session /\ JarAfter(q).csrf = q
      BY <1>0, <3>1 DEF JarAfter, Jars, Boots, Does
    <3>3. jar'[b] = JarAfter(q)
      BY <1>0, <2>1, <3>1 DEF AuthInv, RowTypes
    <3>4. jar'[b].session = jar[b].session /\ jar'[b].csrf = boot
      BY <2>5, <3>2, <3>3
    <3>5. delivered'[act] = delivered[act]
      BY <1>0, <2>1, <2>5 DEF AuthInv, RowTypes
    <3> QED
      BY <2>1, <2>3, <3>4, <3>5 DEF CsrfHolds, TokenStored
  <2>6. CASE q = act
    <3>1. pc[act] = "Closed" /\ answer[act] = "ok"
      BY <1>0, <2>1, <2>2, <2>6 DEF AuthInv, ReplyInv
    <3> QED
      BY <2>1, <3>1, <2>6 DEF CsrfHolds
  <2> QED
    BY <1>0, <2>4, <2>5, <2>6
<1>5. ASSUME NEW q \in Requests, Lose(q) PROVE CsrfHolds(t)'
  <2>1. /\ UNCHANGED <<repliesFirst, browser, jar, cookies, digest, pc, answer>>
        /\ \A p \in Requests : delivered'[p] = "got" => delivered[p] = "got"
    BY <1>5 DEF Lose, ask, rows, server, AuthInv, RowTypes
  <2>2. CsrfHolds(t)
    BY <2>1 DEF CsrfInv, Alone
  <2> QED
    BY <1>0, <2>1, <2>2 DEF CsrfHolds, TokenStored
<1>6. ASSUME NEW u \in Tabs, Submit(u) PROVE CsrfHolds(t)'
  <2>1. /\ UNCHANGED <<repliesFirst, browser, jar, digest, answer, delivered>>
        /\ delivered[<<u, "boot">>] = "got" /\ pc[<<u, "act">>] = "Idle"
        /\ pc' = [pc EXCEPT ![<<u, "act">>] = "Arrived"]
        /\ cookies' = [cookies EXCEPT ![<<u, "act">>] = jar[browser[u]]]
    BY <1>6 DEF Submit, Send, ask, rows, Tab
  <2>2. ~repliesFirst /\ Alone(t) /\ pc[boot] # "Idle"
    BY <1>0, <2>1 DEF Alone, AuthInv, RowTypes, Requests
  <2>3. CsrfHolds(t)
    BY <2>2 DEF CsrfInv
  <2>4. CASE u # t
    <3>1. \A p \in {boot, act} : pc'[p] = pc[p] /\ cookies'[p] = cookies[p]
      BY <1>0, <2>1, <2>4 DEF AuthInv, RowTypes
    <3> QED
      BY <2>1, <2>3, <3>1, CsrfFrame
  <2>5. CASE u = t
    <3>1. answer[boot] = "ok" /\ answer[act] = "none"
      BY <1>0, <2>1, <2>5 DEF AuthInv, ReplyInv
    <3>2. jar[b].csrf = boot /\ TokenStored(t, jar[b].session)
      BY <2>1, <2>3, <2>5, <3>1 DEF CsrfHolds
    <3>3. pc'[act] = "Arrived" /\ cookies'[act] = jar[b]
      BY <1>0, <2>1, <2>5 DEF AuthInv, RowTypes
    <3> QED
      BY <2>1, <3>1, <3>2, <3>3 DEF CsrfHolds, TokenStored
  <2> QED
    BY <2>4, <2>5
<1>7. ASSUME NEW u \in Tabs, NEW k \in Kinds, NEW e \in Emails, NEW pw \in BOOLEAN,
             Open(u, k, e, pw)
      PROVE  CsrfHolds(t)'
  <2>1. /\ UNCHANGED <<repliesFirst, browser, jar, digest, answer, delivered>>
        /\ pc[<<u, "boot">>] = "Idle"
        /\ pc' = [pc EXCEPT ![<<u, "boot">>] = "Arrived"]
        /\ cookies' = [cookies EXCEPT ![<<u, "boot">>] = jar[browser[u]]]
    BY <1>7 DEF Open, Send, rows, Tab
  <2>2. CASE u # t
    <3>1. ~repliesFirst /\ Alone(t) /\ pc[boot] # "Idle"
      BY <1>0, <2>1, <2>2 DEF Alone, AuthInv, RowTypes, Requests
    <3>2. CsrfHolds(t)
      BY <3>1 DEF CsrfInv
    <3>3. \A p \in {boot, act} : pc'[p] = pc[p] /\ cookies'[p] = cookies[p]
      BY <1>0, <2>1, <2>2 DEF AuthInv, RowTypes
    <3> QED
      BY <2>1, <3>2, <3>3, CsrfFrame
  <2>3. CASE u = t
    <3>1. pc[act] = "Idle"
      BY <1>0, <2>1, <2>3 DEF AuthInv, ReplyInv
    <3>2. answer[boot] = "none" /\ answer[act] = "none" /\ delivered[boot] = "no"
      BY <1>0, <2>1, <2>3, <3>1 DEF AuthInv, ReplyInv, RowTypes
    <3>3. pc'[act] = "Idle" /\ cookies'[boot] = jar[b]
      BY <1>0, <2>1, <2>3, <3>1 DEF AuthInv, RowTypes
    <3> QED
      BY <2>1, <3>2, <3>3 DEF CsrfHolds
  <2> QED
    BY <2>2, <2>3
<1>8. ASSUME NEW s \in Sessions, Expire(s) PROVE CsrfHolds(t)'
  <2>1. UNCHANGED <<repliesFirst, browser, jar, cookies, digest, pc, answer, delivered>>
    BY <1>8 DEF Expire, client, ask, rows, server
  <2>2. CsrfHolds(t)
    BY <2>1 DEF CsrfInv, Alone
  <2> QED
    BY <2>1, <2>2 DEF CsrfHolds, TokenStored
<1>9. ASSUME NEW c \in Browsers, ExpireCookie(c) PROVE CsrfHolds(t)'
  <2>1. /\ UNCHANGED <<repliesFirst, browser, cookies, digest, pc, answer, delivered>>
        /\ jar' = [jar EXCEPT ![c].session = None]
    BY <1>9 DEF ExpireCookie, ask, rows, server
  <2>2. CsrfHolds(t)
    BY <2>1 DEF CsrfInv, Alone
  <2>3. jar'[b].csrf = jar[b].csrf /\ jar'[b].session \in {None, jar[b].session}
    BY <1>0, <2>1 DEF AuthInv, RowTypes, Jars
  <2> QED
    BY <2>1, <2>2, <2>3 DEF CsrfHolds, TokenStored
<1> QED
  BY <1>1, <1>3, <1>4, <1>5, <1>6, <1>7, <1>8, <1>9, HandlerSteps DEF Next

-----------------------------------------------------------------------------
(* The theorems.                                                            *)

\* The rows, cookies and the pool as the program finds them.
LEMMA Initially == Init => AuthInv /\ OwnerInv /\ CsrfInv
<1> SUFFICES ASSUME Init PROVE AuthInv /\ OwnerInv /\ CsrfInv
  OBVIOUS
<1> USE SeedAssumption, BrowsersAssumption, BuildsAssumption DEF Init
<1>1. RowTypes
  BY DEF RowTypes, Events, Jars, Answers, Requests, Sessions, Tokens
<1>2. PoolInv
  <2>1. Holders = {} /\ Recorders = {}
    BY DEF Holders, Recorders, Holding
  <2>2. Connections = Cardinality(Holders) + Cardinality(Recorders)
    BY DEF Connections, Holders, Recorders
  <2> QED
    BY <2>1, <2>2, FS_EmptySet, PoolAssumption DEF PoolInv
<1>3. ReplyInv /\ StepInv /\ AccountInv
  BY DEF ReplyInv, StepInv, AccountInv, Requests
<1>4. IssueInv /\ SessionsHonoured
  BY DEF IssueInv, Backed, SessionsHonoured, Requests
<1>5. RegistrationsExact /\ AuditExact
  BY DEF RegistrationsExact, AuditExact, LoggedOut, Requests, Sessions
<1>6. OwnerInv /\ CsrfInv
  BY DEF OwnerInv, Owner, CookieSession, CsrfInv, Requests
<1> QED
  BY <1>1, <1>2, <1>3, <1>4, <1>5, <1>6 DEF AuthInv

\* The parts together are inductive.
LEMMA Invariance == Spec => [](AuthInv /\ OwnerInv /\ CsrfInv)
<1>1. AuthInv /\ [Next]_vars => AuthInv'
  BY RowTypesStep, PoolStep, ReplyStep, StepsStep, AccountStep, IssueStep,
     RegistrationStep, AuditStep, HonourStep DEF AuthInv
<1> QED
  BY Initially, <1>1, OwnerStep, CsrfStep, PTL DEF Spec

\* Types, and the limit of the pool however many requests record failed logins
\* over a second connection (record_committed_audit_event).
THEOREM Typing == Spec => []TypeOK
<1>1. AuthInv => TypeOK
  BY DEF AuthInv, RowTypes, PoolInv, TypeOK
<1> QED
  BY Invariance, <1>1, PTL

\* register_user: any number of registrations of one address leave one account,
\* and no other is told that the address is taken unless it is.
THEOREM Registrations == Spec => []RegistrationsExact
<1>1. AuthInv => RegistrationsExact
  BY DEF AuthInv
<1> QED
  BY Invariance, <1>1, PTL

\* audit_events.py: sessions and events tell the same story, failed logins and each
\* of the log-outs that race for one session too.
THEOREM Audit == Spec => []AuditExact
<1>1. AuthInv => AuditExact
  BY DEF AuthInv
<1> QED
  BY Invariance, <1>1, PTL

\* resolve_authenticated_session: only sessions that ended are turned away, or
\* those of a reply that overtook its COMMIT.
THEOREM Honoured == Spec => []SessionsHonoured
<1>1. AuthInv => SessionsHonoured
  BY DEF AuthInv
<1> QED
  BY Invariance, <1>1, PTL

\* The cookies of a browser name stored sessions, with the same exception.
THEOREM Cookies == Spec => []CookiesBacked
<1>1. AuthInv => CookiesBacked
  BY DEF AuthInv, IssueInv, Backed, CookiesBacked
<1> QED
  BY Invariance, <1>1, PTL

\* require_csrf_token refuses a tab only where tabs of one browser interleave or
\* replies overtake their COMMIT.
THEOREM CsrfRefusals == Spec => []CsrfRefusalsExplained
<1>1. AuthInv /\ CsrfInv => CsrfRefusalsExplained
  <2> SUFFICES ASSUME AuthInv, CsrfInv, NEW t \in Tabs,
                      answer[<<t, "act">>] = "forbidden", ~repliesFirst, Alone(t)
               PROVE  FALSE
    BY DEF CsrfRefusalsExplained, Alone
  <2>1. <<t, "act">> \in Requests /\ <<t, "boot">> \in Requests
    BY DEF Requests
  <2>2. pc[<<t, "act">>] # "Idle"
    BY <2>1 DEF AuthInv, ReplyInv
  <2>3. answer[<<t, "boot">>] # "none"
    BY <2>1, <2>2 DEF AuthInv, ReplyInv
  <2>4. pc[<<t, "boot">>] # "Idle"
    BY <2>1, <2>3 DEF AuthInv, ReplyInv
  <2> QED
    BY <2>4 DEF CsrfInv, CsrfHolds
<1> QED
  BY Invariance, <1>1, PTL

\* revoke_session: only COMMIT of a logout touches revoked_at, and it adds to it.
THEOREM Revocations == Spec => RevocationIsFinal
<1>1. [Next]_vars => revoked \subseteq revoked'
  <2> SUFFICES ASSUME [Next]_vars PROVE revoked \subseteq revoked'
    OBVIOUS
  <2> USE DEF rows
  <2>1. CASE UNCHANGED vars
    BY <2>1 DEF vars
  <2>2. ASSUME NEW q \in Requests, Commit(q) PROVE revoked \subseteq revoked'
    BY <2>2 DEF Commit, ApplyToken, ApplyIssue, ApplyRevocation
  <2>3. ASSUME NEW q \in Requests, RecordFailure(q) PROVE revoked \subseteq revoked'
    BY <2>3 DEF RecordFailure
  <2>4. ASSUME NEW q \in Requests, Step(q) \/ Abort(q), ~Commit(q), ~RecordFailure(q)
        PROVE  UNCHANGED revoked
    BY <2>4 DEF Step, WithoutSession, Resolve, UpdateSession, RefuseToken,
       SelectAccount,
       InsertAccount, TakeSecondConnection, CommitFails, PoolTimeout, Abort, Refuse,
       Goto, Handled
  <2>5. ASSUME NEW q \in Requests, Receive(q) \/ Lose(q) PROVE UNCHANGED revoked
    BY <2>5 DEF Receive, Lose
  <2>6. ASSUME NEW t \in Tabs, Submit(t) PROVE UNCHANGED revoked
    BY <2>6 DEF Submit, Send
  <2>7. ASSUME NEW t \in Tabs, NEW k \in Kinds, NEW e \in Emails, NEW pw \in BOOLEAN,
               Open(t, k, e, pw)
        PROVE  UNCHANGED revoked
    BY <2>7 DEF Open, Send
  <2>8. ASSUME NEW s \in Sessions, Expire(s) PROVE UNCHANGED revoked
    BY <2>8 DEF Expire
  <2>9. ASSUME NEW b \in Browsers, ExpireCookie(b) PROVE UNCHANGED revoked
    BY <2>9 DEF ExpireCookie
  <2> QED
    BY <2>1, <2>2, <2>3, <2>4, <2>5, <2>6, <2>7, <2>8, <2>9 DEF Next
<1>2. [Next]_vars => [revoked \subseteq revoked']_vars
  BY <1>1
<1> QED
  BY <1>2, PTL DEF Spec, RevocationIsFinal
=============================================================================
