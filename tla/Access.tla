------------------------------- MODULE Access -------------------------------
(***************************************************************************)
(* Who is let in: the sessions of the administrator (internal/auth,        *)
(* handlers/admin.go) and the secret address of each person's calendar     *)
(* feed (service/feed.go, handlers/feed.go).                               *)
(*                                                                         *)
(* A request to /admin looks its session up twice, first for the router    *)
(* and then for the handler, and each time the clock is read before the    *)
(* table is locked: it may expire, be logged out or swept away at any      *)
(* point between.  The tabs of a browser share its cookie but keep their   *)
(* pages, with the token of the session that loaded them.  Sessions live   *)
(* in memory and the addresses in the database.                            *)
(***************************************************************************)
EXTENDS Integers

CONSTANTS
  Browser, Tab,  \* the administrator's browsers and their tabs
  BrowserOf,     \* the browser of each tab
  Reader,        \* the programs that subscribe to feeds
  Person,        \* the people, all of them active
  TTL,           \* SessionTTL
  MaxTime, MaxSession, MaxVersion, MaxRequests, MaxRestarts   \* bounds

ASSUME AccessAssumption ==
  /\ BrowserOf \in [Tab -> Browser]
  /\ {TTL, MaxTime, MaxSession, MaxVersion, MaxRequests, MaxRestarts} \subseteq Nat
  /\ TTL > 0 /\ MaxVersion > 0
  /\ Person # {}

VARIABLES
  clock,
  sessions,      \* the table of the Manager: when each of its sessions expires
  issued,        \* the sessions there have been
  cookies,       \* the session of each browser's cookie
  pages,         \* the session whose CSRF token is on the page of each tab
  requests,      \* the request of each tab
  tokens,        \* which of a person's calendar tokens is in the database
  feeds,         \* the request of each reader
  retired,       \* history: the last token whose rotation was reported
  sent, restarts \* bounds

vars == <<clock, sessions, issued, cookies, pages, requests, tokens, feeds, retired,
          sent, restarts>>

None == 0        \* no cookie, no page
Unread == -1     \* the clock is still to be read
Session == 1..MaxSession
Anyone == CHOOSE p \in Person : TRUE

Doing == {"loginPage", "login", "dashboard", "logout", "rotate"}

\* A request: the cookie and the CSRF token it carries, the clock as its lookup read it,
\* and its answer.  History: whether its session was alive when it began, and whether it
\* ended a session or changed a token.
Idle == [phase |-> "idle", do |-> "loginPage", cookie |-> None, csrf |-> None,
         person |-> Anyone, now |-> Unread, answer |-> "none", alive |-> FALSE,
         wrote |-> FALSE]

Request ==
  [phase: {"idle", "require", "handle", "act", "reread", "reply", "over"}, do: Doing,
   cookie: Session \cup {None}, csrf: Session \cup {None}, person: Person,
   now: {Unread} \cup 0..MaxTime,
   answer: {"none", "signIn", "refused", "forbidden", "error", "admin", "page", "rotated",
            "lost"},
   alive: BOOLEAN, wrote: BOOLEAN]

NoFeed == [phase |-> "idle", person |-> Anyone, token |-> 0, revoked |-> FALSE]

Feed == [phase: {"idle", "resolve", "list", "served"},
         person: Person, token: 0..MaxVersion, revoked: BOOLEAN]

-----------------------------------------------------------------------------
(* The session manager. *)

\* Fault: a session does not end by itself.
AliveWhileKnown(s, now) == s \in DOMAIN sessions

\* The session is in the table and expires after "now".
AliveAt(s, now) == s \in DOMAIN sessions /\ sessions[s] > now

Without(gone) == [s \in DOMAIN sessions \ gone |-> sessions[s]]

\* The table after a lookup, which removes the session if it has expired.
LookedUp(s, now) == Without(IF AliveAt(s, now) THEN {} ELSE {s})

\* Fault: the administrator has one session, the latest.
SweptWhole(now) == Without(DOMAIN sessions)

\* removeExpiredLocked
Swept(now) == Without({s \in DOMAIN sessions : sessions[s] <= now})

\* When a session begun at "now" expires.
Expires(now) == now + TTL

\* CreateSession: session "s" in the place of all that have expired.
WithNew(s, now) ==
  [n \in DOMAIN Swept(now) \cup {s} |-> IF n = s THEN Expires(now) ELSE sessions[n]]

\* Fault: any session of the browser will do.
AnyToken(r) == r.csrf # None

\* VerifyCSRF, once the session is found: the token is that of the session.
SameToken(r) == r.csrf = r.cookie

\* Fault: a new token is added to the old ones.
EveryToken(p, n) == n <= tokens[p]

\* GetActivePersonByCalendarToken finds the person.
Resolves(p, n) == n = tokens[p]

\* Fault: the error of the update is not looked at.
AlwaysRotated(ok) == "rotated"

\* How RotateCalendarToken is answered.
RotateAnswer(ok) == IF ok THEN "rotated" ELSE "error"

\* What a tab may ask for: the login page and its form, the dashboard, and the forms of the
\* dashboard, which carry the CSRF token of the session that loaded it.
Links == {[do |-> do, person |-> Anyone, csrf |-> None] :
            do \in {"loginPage", "login", "dashboard"}}

LogoutForm(s) == [do |-> "logout", person |-> Anyone, csrf |-> s]

RotateForms(s) == {[do |-> "rotate", person |-> p, csrf |-> s] : p \in Person}

Offered(page) ==
  Links \cup IF page = None THEN {} ELSE {LogoutForm(page)} \cup RotateForms(page)

\* The answer, and what is left of the request.
Over(r, answer) ==
  [Idle EXCEPT !.phase = "over", !.do = r.do, !.answer = answer, !.alive = r.alive,
               !.wrote = r.wrote]

Set(t, r) == requests' = [requests EXCEPT ![t] = r]

-----------------------------------------------------------------------------
Init ==
  /\ clock = 0 /\ sessions = <<>> /\ issued = 0
  /\ cookies = [b \in Browser |-> None]
  /\ pages = [t \in Tab |-> None]
  /\ requests = [t \in Tab |-> Idle]
  /\ tokens = [p \in Person |-> 1]
  /\ feeds = [f \in Reader |-> NoFeed]
  /\ retired = [p \in Person |-> 0]
  /\ sent = 0 /\ restarts = 0

\* Bound: MaxTime.
Tick ==
  /\ clock < MaxTime
  /\ clock' = clock + 1
  /\ UNCHANGED <<sessions, issued, cookies, pages, requests, tokens, feeds, retired, sent,
                 restarts>>

\* A tab asks.  The login page and the login itself are not behind Require.
\* Bound: MaxRequests.
Begin(t, f) ==
  LET cookie == cookies[BrowserOf[t]]
  IN /\ requests[t].phase \in {"idle", "over"}
     /\ sent < MaxRequests
     /\ Set(t, [phase |-> CASE f.do = "loginPage" -> "handle"
                             [] f.do = "login" -> "act"
                             [] OTHER -> "require",
                do |-> f.do, cookie |-> cookie, csrf |-> f.csrf, person |-> f.person,
                now |-> Unread, answer |-> "none",
                alive |-> cookie \in DOMAIN sessions /\ sessions[cookie] > clock,
                wrote |-> FALSE])
     /\ sent' = sent + 1
     /\ UNCHANGED <<clock, sessions, issued, cookies, pages, tokens, feeds, retired,
                    restarts>>

\* lookup and CreateSession read the clock before they lock the table.
ReadClock(t) ==
  LET r == requests[t]
  IN /\ r.phase \in {"require", "handle"} \/ (r.phase = "act" /\ r.do = "login")
     /\ r.now = Unread
     /\ Set(t, [r EXCEPT !.now = clock])
     /\ UNCHANGED <<clock, sessions, issued, cookies, pages, tokens, feeds, retired, sent,
                    restarts>>

\* Require.  A request without a cookie finds no session.
Require(t) ==
  LET r == requests[t]
  IN /\ r.phase = "require" /\ r.now # Unread
     /\ sessions' = LookedUp(r.cookie, r.now)
     /\ Set(t, IF AliveAt(r.cookie, r.now) THEN [r EXCEPT !.phase = "handle", !.now = Unread]
               ELSE Over(r, "signIn"))
     /\ UNCHANGED <<clock, issued, cookies, pages, tokens, feeds, retired, sent, restarts>>

\* CSRFToken in LoginPage and Dashboard, validCSRF in Logout and RotateCalendarToken.
Handle(t) ==
  LET r == requests[t]
      found == AliveAt(r.cookie, r.now)
  IN /\ r.phase = "handle" /\ r.now # Unread
     /\ sessions' = LookedUp(r.cookie, r.now)
     /\ Set(t, CASE r.do = "loginPage" -> Over(r, IF found THEN "admin" ELSE "signIn")
                 [] r.do = "dashboard" /\ ~found -> Over(r, "signIn")
                 [] r.do # "dashboard" /\ ~(found /\ SameToken(r)) -> Over(r, "forbidden")
                 [] OTHER -> [r EXCEPT !.phase = "act", !.now = Unread])
     /\ UNCHANGED <<clock, issued, cookies, pages, tokens, feeds, retired, sent, restarts>>

\* Login: refused, or a new session in the place of all that have expired.
\* Bound: MaxSession.
Login(t) ==
  LET r == requests[t]
      s == issued + 1
  IN /\ r.phase = "act" /\ r.do = "login" /\ r.now # Unread
     /\ \/ /\ Set(t, Over(r, "refused"))
           /\ UNCHANGED <<sessions, issued>>
        \/ /\ issued < MaxSession
           /\ sessions' = WithNew(s, r.now)
           /\ issued' = s
           /\ Set(t, [r EXCEPT !.phase = "reply", !.cookie = s, !.now = Unread])
     /\ UNCHANGED <<clock, cookies, pages, tokens, feeds, retired, sent, restarts>>

\* DestroySession
Logout(t) ==
  LET r == requests[t]
  IN /\ r.phase = "act" /\ r.do = "logout"
     /\ sessions' = Without({r.cookie})
     /\ Set(t, [r EXCEPT !.phase = "reply", !.wrote = TRUE])
     /\ UNCHANGED <<clock, issued, cookies, pages, tokens, feeds, retired, sent, restarts>>

\* The answer to a login or a logout sets the cookie, if it arrives.
Reply(t) ==
  LET r == requests[t]
  IN /\ r.phase = "reply"
     /\ \/ /\ cookies' = [cookies EXCEPT ![BrowserOf[t]] =
                            IF r.do = "login" THEN r.cookie ELSE None]
           /\ Set(t, Over(r, IF r.do = "login" THEN "admin" ELSE "signIn"))
        \/ /\ Set(t, Over(r, "lost"))
           /\ UNCHANGED cookies
     /\ UNCHANGED <<clock, sessions, issued, pages, tokens, feeds, retired, sent, restarts>>

\* The dashboard is read and shown, with the CSRF token in its forms.
Dashboard(t) ==
  LET r == requests[t]
  IN /\ r.phase = "act" /\ r.do = "dashboard"
     /\ \/ /\ Set(t, Over(r, "page"))
           /\ pages' = [pages EXCEPT ![t] = r.cookie]
        \/ /\ Set(t, Over(r, "error"))
           /\ UNCHANGED pages
     /\ UNCHANGED <<clock, sessions, issued, cookies, tokens, feeds, retired, sent,
                    restarts>>

\* RotateCalendarToken writes the token.  Bound: MaxVersion.
Rotate(t) ==
  LET r == requests[t]
      p == r.person
  IN /\ r.phase = "act" /\ r.do = "rotate"
     /\ \/ /\ tokens[p] < MaxVersion
           /\ tokens' = [tokens EXCEPT ![p] = @ + 1]
           /\ Set(t, [r EXCEPT !.phase = "reread", !.wrote = TRUE])
           /\ UNCHANGED retired
        \/ /\ Set(t, Over(r, RotateAnswer(FALSE)))
           /\ UNCHANGED <<tokens, retired>>
     /\ UNCHANGED <<clock, sessions, issued, cookies, pages, feeds, sent, restarts>>

\* It then reads the person back, and fails if that fails.
Reread(t) ==
  LET r == requests[t]
  IN /\ r.phase = "reread"
     /\ \E ok \in BOOLEAN :
          /\ Set(t, Over(r, RotateAnswer(ok)))
          /\ retired' = IF ok /\ retired[r.person] < tokens[r.person] - 1
                        THEN [retired EXCEPT ![r.person] = tokens[r.person] - 1] ELSE retired
     /\ UNCHANGED <<clock, sessions, issued, cookies, pages, tokens, feeds, sent, restarts>>

\* The process stops and starts: the sessions and the requests are gone.
\* Bound: MaxRestarts.
Restart ==
  /\ restarts < MaxRestarts
  /\ restarts' = restarts + 1
  /\ sessions' = <<>>
  /\ requests' = [t \in Tab |->
       IF requests[t].phase = "idle" THEN Idle ELSE Over(requests[t], "lost")]
  /\ feeds' = [f \in Reader |-> NoFeed]
  /\ UNCHANGED <<clock, issued, cookies, pages, tokens, retired, sent>>

-----------------------------------------------------------------------------
(* The calendar feed. *)

\* A reader asks with a token that it was given at some time.
AskFeed(f, p, n) ==
  /\ feeds[f].phase \notin {"resolve", "list"}
  /\ n <= tokens[p]
  /\ feeds' = [feeds EXCEPT ![f] = [phase |-> "resolve", person |-> p, token |-> n,
                                    revoked |-> n <= retired[p]]]
  /\ UNCHANGED <<clock, sessions, issued, cookies, pages, requests, tokens, retired, sent,
                 restarts>>

\* GetActivePersonByCalendarToken, and then the occurrences of that person.  The token
\* may be unknown, and both may fail.
AnswerFeed(f) ==
  LET r == feeds[f]
  IN /\ \/ /\ r.phase = "resolve" /\ Resolves(r.person, r.token)
           /\ feeds' = [feeds EXCEPT ![f].phase = "list"]
        \/ /\ r.phase = "list"
           /\ feeds' = [feeds EXCEPT ![f] = [NoFeed EXCEPT !.phase = "served",
                                                          !.revoked = r.revoked]]
        \/ /\ r.phase \in {"resolve", "list"}
           /\ feeds' = [feeds EXCEPT ![f] = NoFeed]
     /\ UNCHANGED <<clock, sessions, issued, cookies, pages, requests, tokens, retired, sent,
                    restarts>>

-----------------------------------------------------------------------------
Next ==
  \/ Tick \/ Restart
  \/ \E t \in Tab : \/ \E f \in Offered(pages[t]) : Begin(t, f)
                    \/ ReadClock(t) \/ Require(t) \/ Handle(t)
                    \/ Login(t) \/ Logout(t) \/ Reply(t) \/ Dashboard(t)
                    \/ Rotate(t) \/ Reread(t)
  \/ \E f \in Reader : \/ \E p \in Person, n \in 1..MaxVersion : AskFeed(f, p, n)
                       \/ AnswerFeed(f)

Spec == Init /\ [][Next]_vars

-----------------------------------------------------------------------------
(* What it promises. *)

\* Every variable keeps its type.
TypeOK ==
  /\ clock \in 0..MaxTime /\ issued \in 0..MaxSession
  /\ DOMAIN sessions \subseteq 1..issued
  /\ \A s \in DOMAIN sessions : sessions[s] \in TTL..(MaxTime + TTL)
  /\ cookies \in [Browser -> Session \cup {None}]
  /\ pages \in [Tab -> Session \cup {None}]
  /\ requests \in [Tab -> Request]
  /\ tokens \in [Person -> 1..MaxVersion]
  /\ retired \in [Person -> 0..MaxVersion]
  /\ feeds \in [Reader -> Feed]

\* Whatever expires, is logged out or swept while a request is between its two lookups,
\* only a request whose session was alive when it began is shown the dashboard.
OnlyTheLivingAreLetIn ==
  \A t \in Tab : requests[t].answer \in {"page", "rotated"} => requests[t].alive

\* A form changes something only for the session that loaded its page, alive when it was
\* sent: the pages that other tabs keep from before a login do nothing.
OldPagesDoNothing ==
  [][\A t \in Tab :
       LET r == requests[t]
       IN ~r.wrote /\ requests'[t].wrote => r.alive /\ r.csrf = r.cookie]_vars

\* A session that has not expired ends by its own logout or with the process, although
\* lookups and logins of others remove sessions by clocks they read some time ago.
SessionsLast ==
  [][\A s \in DOMAIN sessions :
       sessions[s] > clock /\ s \notin DOMAIN sessions' =>
         \/ restarts' # restarts
         \/ \E t \in Tab : /\ requests[t].do = "logout" /\ requests[t].cookie = s
                           /\ requests'[t] # requests[t]]_vars

\* A feed asked for with a token whose rotation was reported before is not served.
RotatedIsRefused == \A f \in Reader : feeds[f].phase = "served" => ~feeds[f].revoked

\* A rotation is reported only when the token was written; a form that is refused, or sent
\* to sign in, wrote nothing.  Only after an error may it have been written all the same.
AnsweredAsDone ==
  \A t \in Tab :
    LET r == requests[t]
    IN r.do = "rotate" =>
         /\ r.answer = "rotated" => r.wrote
         /\ r.answer \in {"signIn", "forbidden"} => ~r.wrote
=============================================================================
