---------------------------- MODULE Authentication ----------------------------
(***************************************************************************)
(* Accounts, sessions and CSRF tokens: the tabs of a few browsers, each of *)
(* which does one thing as the web client does it.  It first asks for a    *)
(* CSRF token (request <<t, "boot">>, GET /auth/csrf) and then sends the   *)
(* request proper with that token in a header (request <<t, "act">>).      *)
(* Tabs of one browser share its cookies.                                  *)
(*                                                                         *)
(* Requests interleave over one PostgreSQL database (READ COMMITTED) and   *)
(* share a bounded connection pool.  The session that tab t opens is named *)
(* t, and a CSRF token is named by the request that issued it, so the      *)
(* token tab t submits is <<t, "boot">>.  Digests are taken as injective.  *)
(***************************************************************************)
EXTENDS Integers, FiniteSets

CONSTANTS
    Tabs, Browsers, Emails,
    Known,          \* the address that has an account from the start,
    Seed,           \* and the session that was opened for it, whose cookie
    Home,           \* this browser has
    Placements,     \* the browser of each tab, in a behaviour
    Expiring,       \* sessions that may reach expires_at
    None,           \* an absent cookie
    PoolSize,       \* pool_size + max_overflow
    Builds          \* whether a reply may be sent before its COMMIT, see below

ASSUME SeedAssumption == Known \in Emails /\ Seed \notin Tabs /\ None \notin Tabs \cup {Seed}
ASSUME BrowsersAssumption == Home \in Browsers /\ Placements \subseteq [Tabs -> Browsers]
ASSUME PoolAssumption == PoolSize \in Nat \ {0}
ASSUME BuildsAssumption == Builds # {} /\ Builds \subseteq BOOLEAN

Kinds == {"register", "login", "logout", "use"}
Requests == Tabs \X {"boot", "act"}
Sessions == Tabs \cup {Seed}
Tokens == Sessions \X {"boot", "act"}

VARIABLES
    repliesFirst,                 \* the build: FastAPI sends replies before it commits
    browser, kind, email, right,  \* of each tab; right: the password is
    jar,                          \* cookies of each browser
    cookies,                      \* cookies each request was sent with
    accounts, sessions, digest,   \* committed rows; digest: csrf_token_digest
    revoked, expired,             \* sessions with revoked_at; past expires_at
    events,                       \* committed audit events, with the tab that caused each
    pc, answer,                   \* the handler of each request
    undone,                       \* requests whose COMMIT failed
    delivered                     \* whether its reply arrived: no, got, lost

rows == <<accounts, sessions, digest, revoked, events>>
ask == <<browser, kind, email, right>>
server == <<pc, answer, undone>>
client == <<ask, jar, cookies, delivered>>
vars == <<repliesFirst, client, rows, expired, server>>

Tab(q) == q[1]
Boots(q) == q[2] = "boot"
Does(q, kinds) == q[2] = "act" /\ kind[Tab(q)] \in kinds
CookieSession(q) == cookies[q].session

\* The session row a request updates under resolve_authenticated_session.
Resolves(q) == Boots(q) \/ Does(q, {"logout", "use"})

-----------------------------------------------------------------------------
(* The pool and the row locks.                                              *)

Holding(q) == pc[q] \in {"Resolved", "Inserting", "Auditing", "Recording", "Committing"}

\* record_committed_audit_event takes a second connection.
Connections ==
    Cardinality({q \in Requests : Holding(q)})
        + Cardinality({q \in Requests : pc[q] = "Recording"})

FreeConnection == Connections < PoolSize

HoldsSession(q, s) == pc[q] = "Committing" /\ Resolves(q) /\ CookieSession(q) = s

HoldsEmail(q, e) ==
    pc[q] = "Committing" /\ Does(q, {"register"}) /\ email[Tab(q)] = e

-----------------------------------------------------------------------------

Answer(q, step, reply) ==
    /\ pc' = [pc EXCEPT ![q] = step]
    /\ answer' = [answer EXCEPT ![q] = reply]
    /\ UNCHANGED <<repliesFirst, client, expired>>

Refuse(q, reply) == Answer(q, "Closed", reply) /\ UNCHANGED <<rows, undone>>

Goto(q, step) == Answer(q, step, "none") /\ UNCHANGED <<rows, undone>>

\* Variant: every build replies before it commits.
HandledEarly(q) == Answer(q, "Committing", "ok") /\ UNCHANGED <<rows, undone>>

\* The handler returns.  FastAPI runs the teardown of get_database_session,
\* and with it COMMIT, before the reply is sent or after it, by its version.
Handled(q) ==
    /\ Answer(q, "Committing", IF repliesFirst THEN "ok" ELSE "none")
    /\ UNCHANGED <<rows, undone>>

Init ==
    /\ repliesFirst \in Builds
    /\ browser \in Placements
    /\ kind = [t \in Tabs |-> "none"]
    /\ email = [t \in Tabs |-> Known]
    /\ right = [t \in Tabs |-> TRUE]
    /\ jar = [b \in Browsers |->
                  IF b = Home THEN [session |-> Seed, csrf |-> <<Seed, "act">>]
                              ELSE [session |-> None, csrf |-> None]]
    /\ cookies = [q \in Requests |-> [session |-> None, csrf |-> None]]
    /\ accounts = {Known}
    /\ sessions = {Seed}
    /\ digest = [s \in Sessions |-> <<s, "act">>]
    /\ revoked = {} /\ expired = {} /\ events = {<<Seed, "session_issued", Seed>>}
    /\ pc = [q \in Requests |-> "Idle"]
    /\ answer = [q \in Requests |-> "none"]
    /\ undone = {}
    /\ delivered = [q \in Requests |-> "no"]

-----------------------------------------------------------------------------
(* The browser.                                                             *)

Send(q) ==
    /\ pc[q] = "Idle"
    /\ pc' = [pc EXCEPT ![q] = "Arrived"]
    /\ cookies' = [cookies EXCEPT ![q] = jar[browser[Tab(q)]]]
    /\ UNCHANGED <<repliesFirst, jar, delivered, rows, expired, answer, undone>>

\* getCsrfToken, which every change calls first.
Open(t, k, e, pw) ==
    /\ k \notin {"register", "login"} => e = Known
    /\ k # "login" \/ e # Known => pw
    /\ kind' = [kind EXCEPT ![t] = k]
    /\ email' = [email EXCEPT ![t] = e]
    /\ right' = [right EXCEPT ![t] = pw]
    /\ Send(<<t, "boot">>)
    /\ UNCHANGED browser

Submit(t) ==
    /\ delivered[<<t, "boot">>] = "got"
    /\ Send(<<t, "act">>)
    /\ UNCHANGED ask

\* What the Set-Cookie headers of a reply leave in the jar.
JarAfter(q) ==
    LET old == jar[browser[Tab(q)]]
    IN  CASE Boots(q) -> [old EXCEPT !.csrf = q]
          [] Does(q, {"register", "login"}) -> [session |-> Tab(q), csrf |-> q]
          [] Does(q, {"logout"}) -> [session |-> None, csrf |-> None]
          [] Does(q, {"use"}) -> old

\* Errors set no cookie and end the tab's work whether they arrive or not.
Receive(q) ==
    /\ answer[q] = "ok" /\ delivered[q] = "no"
    /\ delivered' = [delivered EXCEPT ![q] = "got"]
    /\ jar' = [jar EXCEPT ![browser[Tab(q)]] = JarAfter(q)]
    /\ UNCHANGED <<repliesFirst, ask, cookies, rows, expired, server>>

\* The connection breaks, and the tab shows an error as for any refusal.
Lose(q) ==
    /\ answer[q] = "ok" /\ delivered[q] = "no"
    /\ delivered' = [delivered EXCEPT ![q] = "lost"]
    /\ UNCHANGED <<repliesFirst, ask, jar, cookies, rows, expired, server>>

\* The row expires before the cookie: expires_at is computed first.
Expire(s) ==
    /\ s \in Expiring \cap (sessions \ expired)
    /\ expired' = expired \cup {s}
    /\ UNCHANGED <<repliesFirst, client, rows, server>>

ExpireCookie(b) ==
    /\ jar[b].session \in expired
    /\ jar' = [jar EXCEPT ![b].session = None]
    /\ UNCHANGED <<repliesFirst, ask, cookies, delivered, rows, expired, server>>

-----------------------------------------------------------------------------
(* CSRF bootstrap, logout and any other change of a signed-in user.         *)

Live(s) == s \in sessions \ (revoked \cup expired)

\* csrf_bootstrap without a session cookie, and requests that lack one.
WithoutSession(q) ==
    /\ pc[q] = "Arrived" /\ Resolves(q) /\ CookieSession(q) = None
    /\ Refuse(q, IF Boots(q) THEN "ok" ELSE "unauthenticated")

\* require_csrf_token; the digest is the one just read with the session.
DoubleSubmitted(q) == cookies[q].csrf = <<Tab(q), "boot">>
CsrfValid(q) == DoubleSubmitted(q) /\ digest[CookieSession(q)] = <<Tab(q), "boot">>

\* resolve_authenticated_session, and what the handler decides at once.
Resolve(q) ==
    /\ pc[q] = "Arrived" /\ Resolves(q) /\ CookieSession(q) # None
    /\ FreeConnection
    /\ \/ ~Live(CookieSession(q)) /\ Refuse(q, "unauthenticated")
       \/ /\ Live(CookieSession(q)) /\ ~Boots(q) /\ ~CsrfValid(q)
          /\ Refuse(q, "forbidden")
       \/ /\ Live(CookieSession(q)) /\ (Boots(q) \/ CsrfValid(q))
          /\ Goto(q, "Resolved")

\* The UPDATE of the session row: last_seen_at with the digest or revoked_at.
UpdateSession(q) ==
    /\ pc[q] = "Resolved"
    /\ \A p \in Requests \ {q} : ~HoldsSession(p, CookieSession(q))
    /\ Handled(q)

-----------------------------------------------------------------------------
(* Registration and login.                                                  *)

RefuseToken(q) ==
    /\ pc[q] = "Arrived" /\ Does(q, {"register", "login"})
    /\ ~DoubleSubmitted(q)
    /\ Refuse(q, "forbidden")

SelectAccount(q) ==
    /\ pc[q] = "Arrived" /\ Does(q, {"register", "login"})
    /\ DoubleSubmitted(q)
    /\ FreeConnection
    /\ LET known == email[Tab(q)] \in accounts
       IN  \/ Does(q, {"register"}) /\ known /\ Refuse(q, "conflict")
           \/ Does(q, {"register"}) /\ ~known /\ Goto(q, "Inserting")
           \/ Does(q, {"login"}) /\ known /\ right[Tab(q)] /\ Handled(q)
           \/ Does(q, {"login"}) /\ ~(known /\ right[Tab(q)]) /\ Goto(q, "Auditing")

\* Variant: no unique key on users.email.
InsertAnyAccount(q) == pc[q] = "Inserting" /\ Handled(q)

\* INSERT INTO users waits for whoever inserted the address and may then fail.
InsertAccount(q) ==
    /\ pc[q] = "Inserting"
    /\ \A p \in Requests \ {q} : ~HoldsEmail(p, email[Tab(q)])
    /\ \/ email[Tab(q)] \in accounts /\ Refuse(q, "conflict")
       \/ email[Tab(q)] \notin accounts /\ Handled(q)

\* Variant: the event is written over a connection outside the pool's limit.
TakeAnyConnection(q) == pc[q] = "Auditing" /\ Goto(q, "Recording")

\* The request's own transaction and connection are still open.
TakeSecondConnection(q) ==
    /\ pc[q] = "Auditing"
    /\ FreeConnection
    /\ Goto(q, "Recording")

\* Variant: the event goes into the transaction that is rolled back.
RecordWithRequest(q) == pc[q] = "Recording" /\ Refuse(q, "invalid")

RecordFailure(q) ==
    /\ pc[q] = "Recording"
    /\ events' = events \cup {<<Tab(q), "login_failed", Tab(q)>>}
    /\ Answer(q, "Closed", "invalid")
    /\ UNCHANGED <<accounts, sessions, digest, revoked, undone>>

-----------------------------------------------------------------------------

\* Variant: the session row is written back as it was read.
ApplyWholeRow(q) ==
    /\ digest' = [digest EXCEPT ![CookieSession(q)] = q]
    /\ revoked' = revoked \ {CookieSession(q)}
    /\ UNCHANGED <<accounts, sessions, events>>

\* Variant: the new token is not stored.
ApplyNoToken(q) == UNCHANGED rows

ApplyToken(q) ==
    /\ digest' = [digest EXCEPT ![CookieSession(q)] = q]
    /\ UNCHANGED <<accounts, sessions, revoked, events>>

\* Variant: the session is not stored.
ApplyEventsOnly(q) ==
    /\ accounts' = accounts \cup {email[Tab(q)]}
    /\ events' = events \cup {<<Tab(q), "session_issued", Tab(q)>>}
    /\ UNCHANGED <<sessions, digest, revoked>>

ApplyIssue(q) ==
    LET event == IF kind[Tab(q)] = "login" THEN "login_succeeded" ELSE "account_created"
    IN  /\ accounts' = accounts \cup {email[Tab(q)]}
        /\ sessions' = sessions \cup {Tab(q)}
        /\ events' = events \cup {<<Tab(q), e, Tab(q)>> : e \in {"session_issued", event}}
        /\ UNCHANGED <<digest, revoked>>

ApplyRevocation(q) ==
    /\ revoked' = revoked \cup {CookieSession(q)}
    /\ events' = events \cup {<<CookieSession(q), "session_revoked", Tab(q)>>}
    /\ UNCHANGED <<accounts, sessions, digest>>

Commit(q) ==
    /\ pc[q] = "Committing"
    /\ \/ Boots(q) /\ ApplyToken(q)
       \/ Does(q, {"register", "login"}) /\ ApplyIssue(q)
       \/ Does(q, {"logout"}) /\ ApplyRevocation(q)
       \/ Does(q, {"use"}) /\ UNCHANGED rows
    /\ Answer(q, "Closed", "ok")
    /\ UNCHANGED undone

\* COMMIT fails: rollback, and 500 unless the reply is out already.
CommitFails(q) ==
    /\ pc[q] = "Committing"
    /\ undone' = undone \cup {q}
    /\ Answer(q, "Closed", IF answer[q] = "ok" THEN "ok" ELSE "failed")
    /\ UNCHANGED rows

WaitsForConnection(q) ==
    \/ pc[q] = "Auditing"
    \/ pc[q] = "Arrived" /\ Resolves(q) /\ CookieSession(q) # None
    \/ pc[q] = "Arrived" /\ Does(q, {"register", "login"}) /\ DoubleSubmitted(q)

\* Variant: a request waits for a connection without end.
PoolNeverTimesOut(q) == FALSE /\ Refuse(q, "failed")

PoolTimeout(q) == WaitsForConnection(q) /\ ~FreeConnection /\ Refuse(q, "failed")

\* A statement fails, is cancelled by its timeout, or the connection breaks.
Abort(q) ==
    /\ Holding(q) /\ pc[q] # "Committing"
    /\ Refuse(q, "failed")

Step(q) ==
    \/ WithoutSession(q) \/ Resolve(q) \/ UpdateSession(q)
    \/ RefuseToken(q) \/ SelectAccount(q) \/ InsertAccount(q)
    \/ TakeSecondConnection(q) \/ RecordFailure(q)
    \/ Commit(q) \/ CommitFails(q) \/ PoolTimeout(q)

Next ==
    \/ \E q \in Requests : Step(q) \/ Abort(q) \/ Receive(q) \/ Lose(q)
    \/ \E t \in Tabs : Submit(t)
    \/ \E t \in Tabs, k \in Kinds, e \in Emails, pw \in BOOLEAN : Open(t, k, e, pw)
    \/ \E s \in Sessions : Expire(s)
    \/ \E b \in Browsers : ExpireCookie(b)

Spec == Init /\ [][Next]_vars

\* Handlers run, pools time out, replies arrive or are lost, and the client
\* goes on once it has its token.
Fairness ==
    /\ \A q \in Requests : WF_vars(Step(q)) /\ WF_vars(Receive(q) \/ Lose(q))
    /\ \A t \in Tabs : WF_vars(Submit(t))

FairSpec == Spec /\ Fairness

-----------------------------------------------------------------------------
(* Properties.                                                              *)

Answers == {"none", "ok", "unauthenticated", "forbidden", "conflict", "invalid", "failed"}
Events ==
    Sessions \X {"session_issued", "session_revoked", "account_created",
                 "login_succeeded", "login_failed"} \X Sessions
Jars == [session : Sessions \cup {None}, csrf : Tokens \cup {None}]

\* Every variable keeps its type, and the pool its limit although some
\* requests hold two connections.
TypeOK ==
    /\ Connections <= PoolSize
    /\ repliesFirst \in BOOLEAN
    /\ browser \in [Tabs -> Browsers] /\ kind \in [Tabs -> Kinds \cup {"none"}]
    /\ email \in [Tabs -> Emails] /\ right \in [Tabs -> BOOLEAN]
    /\ jar \in [Browsers -> Jars] /\ cookies \in [Requests -> Jars]
    /\ accounts \subseteq Emails /\ sessions \subseteq Sessions
    /\ digest \in [Sessions -> Tokens]
    /\ revoked \subseteq sessions /\ expired \subseteq sessions
    /\ events \subseteq Events
    /\ pc \in [Requests -> {"Idle", "Arrived", "Resolved", "Inserting", "Auditing",
           "Recording", "Committing", "Closed"}]
    /\ answer \in [Requests -> Answers]
    /\ undone \subseteq Requests
    /\ delivered \in [Requests -> {"no", "got", "lost"}]

\* However registrations of one address race from the existence check to the
\* unique key, one of them at most creates the account, and "ACCOUNT_UNAVAILABLE"
\* is only said of an address that has one.
RegistrationsExact ==
    /\ \A t, u \in sessions \ {Seed} :
           kind[t] = "register" /\ kind[u] = "register" /\ email[t] = email[u] => t = u
    /\ \A t \in sessions \ {Seed} : kind[t] = "register" => email[t] # Known
    /\ \A t \in Tabs : answer[<<t, "act">>] = "conflict" => email[t] \in accounts

\* A logout is final: whatever bootstraps and requests of the same session are
\* in flight when it commits, none of them opens the session again.
RevocationIsFinal == [][revoked \subseteq revoked']_vars

Overtaken(q) == repliesFirst /\ (pc[q] = "Committing" \/ q \in undone)

\* A request is refused for its CSRF token only if another tab of the browser
\* was active, or the reply that brought the token was sent before its COMMIT.
CsrfRefusalsExplained ==
    \A t \in Tabs : answer[<<t, "act">>] = "forbidden" =>
        \/ repliesFirst
        \/ \E u \in Tabs \ {t} : browser[u] = browser[t] /\ pc[<<u, "boot">>] # "Idle"

\* A request with a session cookie is answered 401 only if that session has
\* ended, or was announced by a reply that was sent before its COMMIT.
SessionsHonoured ==
    \A q \in Requests : answer[q] = "unauthenticated" =>
        \/ CookieSession(q) = None
        \/ CookieSession(q) \in revoked \cup expired
        \/ repliesFirst /\ CookieSession(q) # Seed

\* A browser never holds the cookie of a session that is not stored, unless the
\* reply that set it was sent before its COMMIT.
CookiesBacked ==
    \A b \in Browsers : jar[b].session \notin sessions \cup {None} =>
        Overtaken(<<jar[b].session, "act">>)

\* The log-out of tab t has committed the end of session s.
LoggedOut(t, s) ==
    LET q == <<t, "act">>
    IN  /\ Does(q, {"logout"}) /\ CookieSession(q) = s
        /\ pc[q] = "Closed" /\ answer[q] = "ok" /\ q \notin undone

\* The audit trail is exact: a session is stored with its event, a session is
\* revoked with one event for each log-out that committed, two if two of them
\* raced, and no login is answered "Email or password is incorrect" before its
\* failure is stored, although its own transaction is rolled back.
AuditExact ==
    /\ \A s \in Sessions : s \in sessions <=> <<s, "session_issued", s>> \in events
    /\ \A s \in Sessions :
           s \in revoked <=> \E t \in Tabs : <<s, "session_revoked", t>> \in events
    /\ \A s \in Sessions, t \in Tabs :
           LoggedOut(t, s) <=> <<s, "session_revoked", t>> \in events
    /\ \A t \in Tabs : answer[<<t, "act">>] = "invalid" <=> <<t, "login_failed", t>> \in events

\* "GET /auth/csrf: issues or rotates the browser CSRF token", whatever the
\* cookies of the browser are.
BootstrapIssuesToken == \A t \in Tabs : answer[<<t, "boot">>] # "unauthenticated"

Settled(t) ==
    \/ \E q \in {<<t, "boot">>, <<t, "act">>} :
           answer[q] \notin {"none", "ok"} \/ delivered[q] = "lost"
    \/ delivered[<<t, "act">>] = "got"

\* Every tab gets an answer or an error, even if failed logins hold all the
\* connections while each of them waits for a second one.
TabsAnswered == \A t \in Tabs : kind[t] # "none" ~> Settled(t)
=============================================================================
