---------------------------- MODULE AccessProofs ----------------------------
(***************************************************************************)
(* Who is let in, for any number of browsers, tabs, readers and people,    *)
(* any lifetime of a session, and any bounds.                              *)
(***************************************************************************)
EXTENDS Access, TLAPS

\* What is known of a request at a moment "time", with the sessions issued and in the table:
\* its clock is not ahead, a session it would still be let in by was alive when it began,
\* and what it did, or may do, it did as a request that was let in.
Sound(r, time, known, table) ==
  /\ r.cookie <= known /\ r.csrf <= known
  /\ r.now <= time
  /\ r.phase \in {"require", "handle"} /\ r.cookie \in DOMAIN table
       /\ table[r.cookie] > (IF r.now = Unread THEN time ELSE r.now) => r.alive
  /\ r.phase \in {"require", "handle", "act"} => ~r.wrote
  /\ r.phase = "act" /\ r.do # "login" => r.alive
  /\ r.phase = "act" /\ r.do \in {"logout", "rotate"} => r.csrf = r.cookie
  /\ r.phase = "reread" => r.do = "rotate" /\ r.wrote /\ r.alive
  /\ r.phase = "reply" => r.do \in {"login", "logout"}
  /\ r.phase # "over" => r.answer = "none"
  /\ r.answer \in {"page", "rotated"} => r.alive
  /\ r.do = "rotate" /\ r.answer = "rotated" => r.wrote
  /\ r.do = "rotate" /\ r.answer \in {"signIn", "forbidden"} => ~r.wrote

Known ==
  /\ \A b \in Browser : cookies[b] <= issued
  /\ \A t \in Tab : pages[t] <= issued
  /\ \A t \in Tab : Sound(requests[t], clock, issued, sessions)

IInv == TypeOK /\ Known

\* A token that was rotated is not in use, and a feed that lists was not revoked.
FeedInv ==
  /\ \A p \in Person : retired[p] < tokens[p]
  /\ \A f \in Reader :
       /\ feeds[f].phase = "resolve" /\ feeds[f].revoked =>
            feeds[f].token < tokens[feeds[f].person]
       /\ feeds[f].phase \in {"list", "served"} => ~feeds[f].revoked

\* The tables go on: time and the number of sessions grow, and a session that was there
\* keeps its end.
Later ==
  /\ clock' \in Nat /\ clock <= clock'
  /\ issued' \in Nat /\ issued <= issued'
  /\ \A s \in DOMAIN sessions' :
       s > issued \/ (s \in DOMAIN sessions /\ sessions'[s] = sessions[s])

LEMMA Naturals ==
  /\ TTL \in Nat /\ MaxTime \in Nat /\ MaxSession \in Nat /\ MaxVersion \in Nat
  /\ TTL > 0 /\ MaxVersion > 0 /\ Anyone \in Person
BY AccessAssumption DEF Anyone

\* What is known of a request that a step leaves alone stays known.
LEMMA SoundStays ==
  ASSUME TypeOK, Later, NEW r \in Request, Sound(r, clock, issued, sessions)
  PROVE  Sound(r, clock', issued', sessions')
<1>1. r.cookie \in Nat /\ r.csrf \in Nat /\ r.now \in Int
  BY Naturals DEF Request, Session, None, Unread
<1>2. clock \in Nat /\ issued \in Nat
  BY Naturals DEF TypeOK
<1>3. ASSUME r.cookie \in DOMAIN sessions' PROVE
        r.cookie \in DOMAIN sessions /\ sessions'[r.cookie] = sessions[r.cookie]
  BY <1>1, <1>2, <1>3 DEF Later, Sound
<1>4. ASSUME r.cookie \in DOMAIN sessions PROVE sessions[r.cookie] \in Int
  BY <1>4, Naturals DEF TypeOK
<1>5. ASSUME r.phase \in {"require", "handle"}, r.cookie \in DOMAIN sessions',
             sessions'[r.cookie] > (IF r.now = Unread THEN clock' ELSE r.now)
      PROVE  r.alive
  <2>1. sessions[r.cookie] > (IF r.now = Unread THEN clock ELSE r.now)
    BY <1>1, <1>2, <1>3, <1>4, <1>5 DEF Later
  <2> QED
    BY <1>3, <1>5, <2>1 DEF Sound
<1>6. r.cookie <= issued' /\ r.csrf <= issued' /\ r.now <= clock'
  BY <1>1, <1>2 DEF Later, Sound
<1> QED
  BY <1>5, <1>6 DEF Sound

\* The step of one tab: its request is replaced by a sound one.
LEMMA OneRequest ==
  ASSUME IInv, Later, NEW t \in Tab, NEW q \in Request,
         Sound(q, clock', issued', sessions'),
         requests' = [requests EXCEPT ![t] = q]
  PROVE  /\ requests' \in [Tab -> Request]
         /\ \A u \in Tab : Sound(requests'[u], clock', issued', sessions')
<1>1. requests \in [Tab -> Request]
  BY DEF IInv, TypeOK
<1>2. ASSUME NEW u \in Tab PROVE Sound(requests'[u], clock', issued', sessions')
  <2>1. CASE u = t
    BY <2>1, <1>1
  <2>2. CASE u # t
    BY <2>2, <1>1, SoundStays DEF IInv, Known
  <2> QED
    BY <2>1, <2>2
<1> QED
  BY <1>1, <1>2

\* Removing sessions changes nothing of those that stay.
LEMMA WithoutIsLater ==
  ASSUME IInv, NEW gone, sessions' = Without(gone), UNCHANGED <<clock, issued>>
  PROVE  /\ Later
         /\ DOMAIN sessions' \subseteq 1..issued'
         /\ \A s \in DOMAIN sessions' : sessions'[s] \in TTL..(MaxTime + TTL)
BY Naturals DEF IInv, TypeOK, Later, Without

LEMMA NothingRemoved ==
  ASSUME IInv, UNCHANGED <<clock, issued, sessions>>
  PROVE  Later
BY Naturals DEF IInv, TypeOK, Later

LEMMA IdleFields ==
  /\ Idle \in Request
  /\ Idle.cookie = None /\ Idle.csrf = None /\ Idle.now = Unread
  /\ Idle.phase = "idle" /\ Idle.answer = "none" /\ ~Idle.wrote
BY Naturals DEF Idle, Request, Session, None, Unread, Doing

\* The end of a request says no more than was known of it.
LEMMA OverFields ==
  ASSUME NEW r \in Request,
         NEW a \in {"none", "signIn", "refused", "forbidden", "error", "admin", "page",
                    "rotated", "lost"}
  PROVE  /\ Over(r, a) \in Request
         /\ Over(r, a).phase = "over" /\ Over(r, a).answer = a
         /\ Over(r, a).cookie = None /\ Over(r, a).csrf = None /\ Over(r, a).now = Unread
         /\ Over(r, a).do = r.do /\ Over(r, a).alive = r.alive
         /\ Over(r, a).wrote = r.wrote
BY IdleFields DEF Over, Request

LEMMA OverIsSound ==
  ASSUME NEW r \in Request,
         NEW a \in {"none", "signIn", "refused", "forbidden", "error", "admin", "page",
                    "rotated", "lost"},
         NEW time \in Nat, NEW known \in Nat, NEW table,
         a \in {"page", "rotated"} => r.alive,
         r.do = "rotate" /\ a = "rotated" => r.wrote,
         r.do = "rotate" /\ a \in {"signIn", "forbidden"} => ~r.wrote
  PROVE  Sound(Over(r, a), time, known, table)
<1> DEFINE o == Over(r, a)
<1>1. /\ o.phase = "over" /\ o.answer = a /\ o.cookie = 0 /\ o.csrf = 0 /\ o.now = -1
      /\ o.do = r.do /\ o.alive = r.alive /\ o.wrote = r.wrote
  BY OverFields DEF None, Unread
<1> HIDE DEF o
<1>2. Sound(o, time, known, table)
  BY <1>1 DEF Sound
<1> QED
  BY <1>2 DEF o

-----------------------------------------------------------------------------
LEMMA InitIInv == Init => IInv
<1> SUFFICES ASSUME Init PROVE IInv
  OBVIOUS
<1>1. DOMAIN sessions = {}
  BY DEF Init
<1>2. NoFeed \in Feed
  BY Naturals DEF NoFeed, Feed
<1>3. TypeOK
  <2>1. clock \in 0..MaxTime /\ issued \in 0..MaxSession
    BY Naturals DEF Init
  <2>2. /\ DOMAIN sessions \subseteq 1..issued
        /\ \A s \in DOMAIN sessions : sessions[s] \in TTL..(MaxTime + TTL)
    BY <1>1
  <2>3. /\ cookies \in [Browser -> Session \cup {None}]
        /\ pages \in [Tab -> Session \cup {None}]
    BY DEF Init
  <2>4. requests \in [Tab -> Request]
    BY IdleFields DEF Init
  <2>5. /\ tokens \in [Person -> 1..MaxVersion]
        /\ retired \in [Person -> 0..MaxVersion]
    BY Naturals DEF Init
  <2>6. feeds \in [Reader -> Feed]
    BY <1>2 DEF Init
  <2> QED
    BY <2>1, <2>2, <2>3, <2>4, <2>5, <2>6 DEF TypeOK
<1>4. ASSUME NEW t \in Tab PROVE Sound(requests[t], clock, issued, sessions)
  <2>1. requests[t] = Idle /\ clock = 0 /\ issued = 0
    BY DEF Init
  <2>2. Idle.cookie = 0 /\ Idle.csrf = 0 /\ Idle.now = -1
    BY IdleFields DEF None, Unread
  <2> QED
    BY <2>1, <2>2, IdleFields DEF Sound
<1> QED
  BY <1>3, <1>4 DEF IInv, Known, Init, None

\* What a step of a tab has to show.
LEMMA TabStep ==
  ASSUME IInv, Later, NEW t \in Tab, NEW q \in Request,
         Sound(q, clock', issued', sessions'), Set(t, q),
         clock' \in 0..MaxTime, issued' \in 0..MaxSession,
         DOMAIN sessions' \subseteq 1..issued',
         \A s \in DOMAIN sessions' : sessions'[s] \in TTL..(MaxTime + TTL),
         cookies' \in [Browser -> Session \cup {None}],
         \A b \in Browser : cookies'[b] <= issued',
         pages' \in [Tab -> Session \cup {None}],
         \A u \in Tab : pages'[u] <= issued',
         tokens' \in [Person -> 1..MaxVersion],
         retired' \in [Person -> 0..MaxVersion],
         feeds' \in [Reader -> Feed]
  PROVE  IInv'
BY OneRequest DEF Set, IInv, TypeOK, Known

\* A step that changes neither the cookies nor the pages, nor the feeds.
LEMMA QuietTabStep ==
  ASSUME IInv, NEW t \in Tab, NEW q \in Request,
         Sound(q, clock', issued', sessions'), Set(t, q), Later,
         DOMAIN sessions' \subseteq 1..issued',
         \A s \in DOMAIN sessions' : sessions'[s] \in TTL..(MaxTime + TTL),
         UNCHANGED <<clock, issued, cookies, pages, tokens, retired, feeds>>
  PROVE  IInv'
<1>1. /\ \A b \in Browser : cookies[b] <= issued
      /\ \A u \in Tab : pages[u] <= issued
  BY DEF IInv, Known
<1>2. /\ clock \in 0..MaxTime /\ issued \in 0..MaxSession
      /\ cookies \in [Browser -> Session \cup {None}]
      /\ pages \in [Tab -> Session \cup {None}]
      /\ tokens \in [Person -> 1..MaxVersion] /\ retired \in [Person -> 0..MaxVersion]
      /\ feeds \in [Reader -> Feed]
  BY DEF IInv, TypeOK
<1> QED
  BY <1>1, <1>2, TabStep

LEMMA TickIInv == IInv /\ Tick => IInv'
<1> SUFFICES ASSUME IInv, Tick PROVE IInv'
  OBVIOUS
<1>1. Later
  BY Naturals DEF IInv, TypeOK, Tick, Later
<1>2. TypeOK'
  BY Naturals DEF IInv, TypeOK, Tick
<1>3. ASSUME NEW t \in Tab PROVE Sound(requests'[t], clock', issued', sessions')
  BY <1>1, SoundStays DEF IInv, TypeOK, Known, Tick
<1> QED
  BY <1>2, <1>3 DEF IInv, Known, Tick

LEMMA BeginIInv ==
  ASSUME IInv, NEW t \in Tab, NEW f \in Offered(pages[t]), Begin(t, f)
  PROVE  IInv'
<1> DEFINE cookie == cookies[BrowserOf[t]]
           alive == cookie \in DOMAIN sessions /\ sessions[cookie] > clock
           phase == CASE f.do = "loginPage" -> "handle"
                      [] f.do = "login" -> "act"
                      [] OTHER -> "require"
<1>1. /\ cookie \in Session \cup {None} /\ cookie <= issued
      /\ pages[t] \in Session \cup {None} /\ pages[t] <= issued
      /\ issued \in 0..MaxSession /\ clock \in 0..MaxTime
  BY AccessAssumption DEF IInv, TypeOK, Known
<1>2. /\ f.do \in Doing /\ f.person \in Person
      /\ f.csrf \in Session \cup {None} /\ f.csrf <= issued
  BY <1>1, Naturals DEF Offered, Links, LogoutForm, RotateForms, Doing, None, Session
<1>3. phase \in {"handle", "act", "require"} /\ (phase = "act" => f.do = "login")
  OBVIOUS
<1> HIDE DEF cookie, alive, phase
<1>4. alive \in BOOLEAN
  BY DEF alive
<1>5. PICK q : q = [phase |-> phase, do |-> f.do, cookie |-> cookie, csrf |-> f.csrf,
                    person |-> f.person, now |-> Unread, answer |-> "none",
                    alive |-> alive, wrote |-> FALSE]
  OBVIOUS
<1>6. /\ q \in Request
      /\ q.do = f.do /\ q.cookie = cookie /\ q.csrf = f.csrf /\ q.phase = phase
      /\ q.alive = alive /\ q.now = -1 /\ q.answer = "none" /\ ~q.wrote
  BY <1>1, <1>2, <1>3, <1>4, <1>5, IdleFields DEF Request, Unread
<1>7. /\ Set(t, q)
      /\ UNCHANGED <<clock, sessions, issued, cookies, pages, tokens, feeds, retired>>
  BY <1>5 DEF Begin, cookie, alive, phase
<1>8. Sound(q, clock, issued, sessions)
  <2>1. -1 <= clock
    BY <1>1
  <2>2. ASSUME q.cookie \in DOMAIN sessions, sessions[q.cookie] > clock PROVE q.alive
    BY <2>2, <1>6 DEF alive
  <2> QED
    BY <1>1, <1>2, <1>3, <1>6, <2>1, <2>2 DEF Sound, Unread
<1> QED
  BY <1>6, <1>7, <1>8, NothingRemoved, QuietTabStep DEF IInv, TypeOK

\* What is known of the request of a tab.
LEMMA OfTab ==
  ASSUME IInv, NEW t \in Tab
  PROVE  /\ requests[t] \in Request
         /\ Sound(requests[t], clock, issued, sessions)
         /\ clock \in 0..MaxTime /\ clock \in Nat
         /\ issued \in 0..MaxSession /\ issued \in Nat
         /\ \A s \in DOMAIN sessions : sessions[s] \in Int
BY Naturals DEF IInv, TypeOK, Known

LEMMA ReadClockIInv ==
  ASSUME IInv, NEW t \in Tab, ReadClock(t)
  PROVE  IInv'
<1> DEFINE r == requests[t]
<1>1. /\ r \in Request /\ Sound(r, clock, issued, sessions)
      /\ clock \in 0..MaxTime /\ clock # Unread
  BY OfTab DEF Unread
<1>2. r.now = Unread /\ (r.phase = "act" => r.do = "login")
  BY DEF ReadClock
<1> HIDE DEF r
<1>3. PICK q : q = [r EXCEPT !.now = clock]
  OBVIOUS
<1>4. /\ q \in Request
      /\ q.do = r.do /\ q.cookie = r.cookie /\ q.csrf = r.csrf /\ q.phase = r.phase
      /\ q.alive = r.alive /\ q.now = clock /\ q.answer = r.answer /\ q.wrote = r.wrote
  BY <1>1, <1>3 DEF Request
<1>5. /\ Set(t, q)
      /\ UNCHANGED <<clock, sessions, issued, cookies, pages, tokens, feeds, retired>>
  BY <1>3 DEF ReadClock, r
<1>6. Sound(q, clock, issued, sessions)
  BY <1>1, <1>2, <1>4 DEF Sound
<1> QED
  BY <1>4, <1>5, <1>6, NothingRemoved, QuietTabStep DEF IInv, TypeOK

LEMMA RequireIInv ==
  ASSUME IInv, NEW t \in Tab, Require(t)
  PROVE  IInv'
<1> DEFINE r == requests[t]
<1>1. /\ r \in Request /\ Sound(r, clock, issued, sessions)
      /\ clock \in Nat /\ issued \in Nat
  BY OfTab
<1>2. r.phase = "require" /\ r.now # Unread
  BY DEF Require
<1>3. UNCHANGED <<clock, issued, cookies, pages, tokens, feeds, retired>>
  BY DEF Require
<1>4. /\ Later /\ DOMAIN sessions' \subseteq 1..issued'
      /\ \A s \in DOMAIN sessions' : sessions'[s] \in TTL..(MaxTime + TTL)
  BY <1>3, WithoutIsLater DEF Require, LookedUp
<1>5. CASE AliveAt(r.cookie, r.now)
  <2>1. PICK q : q = [r EXCEPT !.phase = "handle", !.now = Unread]
    OBVIOUS
  <2>2. Set(t, q)
    BY <1>5, <2>1 DEF Require
  <2> HIDE DEF r
  <2>3. /\ q \in Request
        /\ q.do = r.do /\ q.cookie = r.cookie /\ q.csrf = r.csrf /\ q.phase = "handle"
        /\ q.alive = r.alive /\ q.now = -1 /\ q.answer = r.answer /\ q.wrote = r.wrote
    BY <1>1, <2>1 DEF Request, Unread
  <2>4. r.alive
    BY <1>1, <1>2, <1>5 DEF Sound, AliveAt
  <2>5. Sound(q, clock, issued, sessions')
    BY <1>1, <1>2, <2>3, <2>4 DEF Sound
  <2> QED
    BY <1>3, <1>4, <2>2, <2>3, <2>5, QuietTabStep
<1>6. CASE ~AliveAt(r.cookie, r.now)
  <2>1. Set(t, Over(r, "signIn"))
    BY <1>6 DEF Require
  <2>2. ~r.wrote
    BY <1>1, <1>2 DEF Sound
  <2>3. Over(r, "signIn") \in Request /\ Sound(Over(r, "signIn"), clock, issued, sessions')
    BY <1>1, <2>2, OverFields, OverIsSound
  <2> QED
    BY <1>3, <1>4, <2>1, <2>3, QuietTabStep
<1> QED
  BY <1>5, <1>6

LEMMA HandleIInv ==
  ASSUME IInv, NEW t \in Tab, Handle(t)
  PROVE  IInv'
<1> DEFINE r == requests[t]
           found == AliveAt(r.cookie, r.now)
<1>1. /\ r \in Request /\ Sound(r, clock, issued, sessions)
      /\ clock \in Nat /\ issued \in Nat
  BY OfTab
<1>2. r.phase = "handle" /\ r.now # Unread
  BY DEF Handle
<1>3. UNCHANGED <<clock, issued, cookies, pages, tokens, feeds, retired>>
  BY DEF Handle
<1>4. /\ Later /\ DOMAIN sessions' \subseteq 1..issued'
      /\ \A s \in DOMAIN sessions' : sessions'[s] \in TTL..(MaxTime + TTL)
  BY <1>3, WithoutIsLater DEF Handle, LookedUp
<1>5. ~r.wrote /\ (found => r.alive)
  BY <1>1, <1>2 DEF Sound, AliveAt
<1>6. ASSUME NEW a \in {"admin", "signIn", "forbidden"}, Set(t, Over(r, a)) PROVE IInv'
  <2>1. Over(r, a) \in Request /\ Sound(Over(r, a), clock, issued, sessions')
    BY <1>1, <1>5, OverFields, OverIsSound
  <2> QED
    BY <1>3, <1>4, <1>6, <2>1, QuietTabStep
<1>7. ASSUME Set(t, [r EXCEPT !.phase = "act", !.now = Unread]), r.do # "loginPage", found,
             r.do = "dashboard" \/ SameToken(r)
      PROVE  IInv'
  <2>1. PICK q : q = [r EXCEPT !.phase = "act", !.now = Unread]
    OBVIOUS
  <2>2. Set(t, q) /\ r.alive /\ (r.do \in {"logout", "rotate"} => r.csrf = r.cookie)
    BY <1>5, <1>7, <2>1 DEF SameToken
  <2> HIDE DEF r, found
  <2>3. /\ q \in Request
        /\ q.do = r.do /\ q.cookie = r.cookie /\ q.csrf = r.csrf /\ q.phase = "act"
        /\ q.alive = r.alive /\ q.now = -1 /\ q.answer = r.answer /\ q.wrote = r.wrote
    BY <1>1, <2>1 DEF Request, Unread
  <2>4. Sound(q, clock, issued, sessions')
    BY <1>1, <1>2, <1>5, <2>2, <2>3 DEF Sound
  <2> QED
    BY <1>3, <1>4, <2>2, <2>3, <2>4, QuietTabStep
<1>8. CASE r.do = "loginPage"
  BY <1>6, <1>8 DEF Handle
<1>9. CASE r.do = "dashboard" /\ ~found
  BY <1>6, <1>9 DEF Handle
<1>10. CASE r.do \notin {"loginPage", "dashboard"} /\ ~(found /\ SameToken(r))
  BY <1>6, <1>10 DEF Handle
<1>11. CASE r.do # "loginPage" /\ found /\ (r.do = "dashboard" \/ SameToken(r))
  BY <1>7, <1>11 DEF Handle
<1> QED
  BY <1>8, <1>9, <1>10, <1>11

LEMMA LoginIInv ==
  ASSUME IInv, NEW t \in Tab, Login(t)
  PROVE  IInv'
<1> DEFINE r == requests[t]
           s == issued + 1
<1>1. /\ r \in Request /\ Sound(r, clock, issued, sessions)
      /\ clock \in 0..MaxTime /\ clock \in Nat /\ issued \in Nat
  BY OfTab
<1>2. r.phase = "act" /\ r.do = "login" /\ r.now # Unread
  BY DEF Login
<1>3. UNCHANGED <<clock, cookies, pages, tokens, feeds, retired>>
  BY DEF Login
<1>4. CASE Set(t, Over(r, "refused")) /\ UNCHANGED <<sessions, issued>>
  <2>1. Over(r, "refused") \in Request /\ Sound(Over(r, "refused"), clock, issued, sessions)
    BY <1>1, <1>2, OverFields, OverIsSound
  <2> QED
    BY <1>3, <1>4, <2>1, NothingRemoved, QuietTabStep DEF IInv, TypeOK
<1>5. CASE /\ issued < MaxSession
           /\ sessions' = WithNew(s, r.now)
           /\ issued' = s
           /\ Set(t, [r EXCEPT !.phase = "reply", !.cookie = s, !.now = Unread])
  <2>1. PICK q : q = [r EXCEPT !.phase = "reply", !.cookie = s, !.now = Unread]
    OBVIOUS
  <2>2. Set(t, q)
    BY <1>5, <2>1
  <2>3. issued' \in 0..MaxSession /\ s \in Session
    BY <1>1, <1>5, Naturals DEF Session
  <2>4. /\ DOMAIN sessions' = DOMAIN Swept(r.now) \cup {s}
        /\ \A n \in DOMAIN sessions' :
             sessions'[n] = IF n = s THEN Expires(r.now) ELSE sessions[n]
    BY <1>5 DEF WithNew
  <2>5. DOMAIN Swept(r.now) \subseteq DOMAIN sessions
    BY DEF Swept, Without
  <2>6. Later
    BY <1>1, <1>3, <1>5, <2>4, <2>5 DEF Later
  <2>7. DOMAIN sessions' \subseteq 1..issued'
    BY <1>1, <1>5, <2>4, <2>5 DEF IInv, TypeOK
  <2>8. Expires(r.now) \in TTL..(MaxTime + TTL)
    BY <1>1, <1>2, Naturals DEF Request, Expires, Unread
  <2>9. \A n \in DOMAIN sessions' : sessions'[n] \in TTL..(MaxTime + TTL)
    BY <2>4, <2>5, <2>8 DEF IInv, TypeOK
  <2>10. /\ \A b \in Browser : cookies'[b] <= issued'
         /\ \A u \in Tab : pages'[u] <= issued'
    BY <1>1, <1>3, <1>5 DEF IInv, TypeOK, Known, Session, None
  <2> HIDE DEF r, s
  <2>11. /\ q \in Request
         /\ q.do = r.do /\ q.cookie = s /\ q.csrf = r.csrf /\ q.phase = "reply"
         /\ q.alive = r.alive /\ q.now = -1 /\ q.answer = r.answer /\ q.wrote = r.wrote
    BY <1>1, <2>1, <2>3 DEF Request, Unread
  <2>12. r.csrf <= issued' /\ s <= issued' /\ -1 <= clock'
    BY <1>1, <1>3, <1>5, <2>3 DEF Sound, Request, Session, None, s
  <2>13. Sound(q, clock', issued', sessions')
    BY <1>1, <1>2, <2>11, <2>12 DEF Sound
  <2> QED
    BY <1>1, <1>3, <2>2, <2>3, <2>6, <2>7, <2>9, <2>10, <2>11, <2>13, TabStep
    DEF IInv, TypeOK
<1> QED
  BY <1>4, <1>5 DEF Login

LEMMA LogoutIInv ==
  ASSUME IInv, NEW t \in Tab, Logout(t)
  PROVE  IInv'
<1> DEFINE r == requests[t]
<1>1. /\ r \in Request /\ Sound(r, clock, issued, sessions)
      /\ clock \in Nat /\ issued \in Nat
  BY OfTab
<1>2. /\ r.phase = "act" /\ r.do = "logout"
      /\ UNCHANGED <<clock, issued, cookies, pages, tokens, feeds, retired>>
  BY DEF Logout
<1>3. /\ Later /\ DOMAIN sessions' \subseteq 1..issued'
      /\ \A s \in DOMAIN sessions' : sessions'[s] \in TTL..(MaxTime + TTL)
  BY <1>2, WithoutIsLater DEF Logout
<1>4. PICK q : q = [r EXCEPT !.phase = "reply", !.wrote = TRUE]
  OBVIOUS
<1>5. Set(t, q)
  BY <1>4 DEF Logout
<1> HIDE DEF r
<1>6. /\ q \in Request
      /\ q.do = r.do /\ q.cookie = r.cookie /\ q.csrf = r.csrf /\ q.phase = "reply"
      /\ q.alive = r.alive /\ q.now = r.now /\ q.answer = r.answer /\ q.wrote
  BY <1>1, <1>4 DEF Request
<1>7. Sound(q, clock, issued, sessions')
  BY <1>1, <1>2, <1>6 DEF Sound
<1> QED
  BY <1>2, <1>3, <1>5, <1>6, <1>7, QuietTabStep

LEMMA ReplyIInv ==
  ASSUME IInv, NEW t \in Tab, Reply(t)
  PROVE  IInv'
<1> DEFINE r == requests[t]
<1>1. /\ r \in Request /\ Sound(r, clock, issued, sessions)
      /\ clock \in 0..MaxTime /\ issued \in 0..MaxSession /\ clock \in Nat /\ issued \in Nat
  BY OfTab
<1>2. /\ r.phase = "reply"
      /\ UNCHANGED <<clock, sessions, issued, pages, tokens, feeds, retired>>
  BY DEF Reply
<1>3. Later
  BY <1>2, NothingRemoved
<1>4. r.do \in {"login", "logout"}
  BY <1>1, <1>2 DEF Sound
<1>5. PICK a \in {"admin", "signIn", "lost"} : Set(t, Over(r, a))
  BY DEF Reply
<1>6. Over(r, a) \in Request /\ Sound(Over(r, a), clock, issued, sessions)
  BY <1>1, <1>4, OverFields, OverIsSound
<1>7. r.cookie \in Session \cup {None} /\ r.cookie <= issued
  BY <1>1 DEF Sound, Request
<1>8. /\ cookies' \in [Browser -> Session \cup {None}]
      /\ \A b \in Browser : cookies'[b] <= issued
  <2>1. CASE UNCHANGED cookies
    BY <2>1 DEF IInv, TypeOK, Known
  <2>2. CASE cookies' = [cookies EXCEPT ![BrowserOf[t]] =
                           IF r.do = "login" THEN r.cookie ELSE None]
    <3>1. PICK c \in Session \cup {None} :
            c <= issued /\ cookies' = [cookies EXCEPT ![BrowserOf[t]] = c]
      <4>1. CASE r.do = "login"
        BY <1>7, <2>2, <4>1
      <4>2. CASE r.do # "login"
        <5>1. cookies' = [cookies EXCEPT ![BrowserOf[t]] = None]
          BY <2>2, <4>2
        <5>2. None <= issued /\ None \in Session \cup {None}
          BY <1>1 DEF None
        <5> QED
          BY <5>1, <5>2
      <4> QED
        BY <4>1, <4>2
    <3> QED
      BY <3>1 DEF IInv, TypeOK, Known
  <2> QED
    BY <2>1, <2>2 DEF Reply
<1> QED
  BY <1>1, <1>2, <1>3, <1>5, <1>6, <1>8, TabStep DEF IInv, TypeOK, Known

LEMMA DashboardIInv ==
  ASSUME IInv, NEW t \in Tab, Dashboard(t)
  PROVE  IInv'
<1> DEFINE r == requests[t]
<1>1. /\ r \in Request /\ Sound(r, clock, issued, sessions)
      /\ clock \in 0..MaxTime /\ issued \in 0..MaxSession /\ clock \in Nat /\ issued \in Nat
  BY OfTab
<1>2. /\ r.phase = "act" /\ r.do = "dashboard"
      /\ UNCHANGED <<clock, sessions, issued, cookies, tokens, feeds, retired>>
  BY DEF Dashboard
<1>3. Later
  BY <1>2, NothingRemoved
<1>4. r.alive
  BY <1>1, <1>2 DEF Sound
<1>5. PICK a \in {"page", "error"} : Set(t, Over(r, a))
  BY DEF Dashboard
<1>6. Over(r, a) \in Request /\ Sound(Over(r, a), clock, issued, sessions)
  BY <1>1, <1>2, <1>4, OverFields, OverIsSound
<1>7. r.cookie \in Session \cup {None} /\ r.cookie <= issued
  BY <1>1 DEF Sound, Request
<1>8. /\ pages' \in [Tab -> Session \cup {None}]
      /\ \A u \in Tab : pages'[u] <= issued
  BY <1>7 DEF IInv, TypeOK, Known, Dashboard
<1> QED
  BY <1>1, <1>2, <1>3, <1>5, <1>6, <1>8, TabStep DEF IInv, TypeOK, Known

LEMMA RotateIInv ==
  ASSUME IInv, NEW t \in Tab, Rotate(t)
  PROVE  IInv'
<1> DEFINE r == requests[t]
<1>1. /\ r \in Request /\ Sound(r, clock, issued, sessions)
      /\ clock \in 0..MaxTime /\ issued \in 0..MaxSession /\ clock \in Nat /\ issued \in Nat
  BY OfTab
<1>2. /\ r.phase = "act" /\ r.do = "rotate"
      /\ UNCHANGED <<clock, sessions, issued, cookies, pages, feeds, retired>>
  BY DEF Rotate
<1>3. Later
  BY <1>2, NothingRemoved
<1>4. r.alive /\ ~r.wrote /\ r.answer = "none"
  BY <1>1, <1>2 DEF Sound
<1>5. tokens' \in [Person -> 1..MaxVersion]
  <2>1. r.person \in Person /\ tokens \in [Person -> 1..MaxVersion]
    BY <1>1 DEF Request, IInv, TypeOK
  <2>2. tokens[r.person] < MaxVersion => tokens[r.person] + 1 \in 1..MaxVersion
    BY <2>1, Naturals
  <2> QED
    BY <2>1, <2>2 DEF Rotate
<1>6. CASE Set(t, [r EXCEPT !.phase = "reread", !.wrote = TRUE])
  <2>1. PICK q : q = [r EXCEPT !.phase = "reread", !.wrote = TRUE]
    OBVIOUS
  <2>2. Set(t, q)
    BY <1>6, <2>1
  <2> HIDE DEF r
  <2>3. /\ q \in Request
        /\ q.do = r.do /\ q.cookie = r.cookie /\ q.csrf = r.csrf /\ q.phase = "reread"
        /\ q.alive = r.alive /\ q.now = r.now /\ q.answer = r.answer /\ q.wrote
    BY <1>1, <2>1 DEF Request
  <2>4. Sound(q, clock, issued, sessions)
    BY <1>1, <1>2, <1>4, <2>3 DEF Sound
  <2> QED
    BY <1>1, <1>2, <1>3, <1>5, <2>2, <2>3, <2>4, TabStep DEF IInv, TypeOK, Known
<1>7. CASE Set(t, Over(r, RotateAnswer(FALSE)))
  <2>1. RotateAnswer(FALSE) = "error"
    BY DEF RotateAnswer
  <2>2. Over(r, "error") \in Request /\ Sound(Over(r, "error"), clock, issued, sessions)
    BY <1>1, <1>4, OverFields, OverIsSound
  <2> QED
    BY <1>1, <1>2, <1>3, <1>5, <1>7, <2>1, <2>2, TabStep DEF IInv, TypeOK, Known
<1> QED
  BY <1>6, <1>7 DEF Rotate

LEMMA RereadIInv ==
  ASSUME IInv, NEW t \in Tab, Reread(t)
  PROVE  IInv'
<1> DEFINE r == requests[t]
<1>1. /\ r \in Request /\ Sound(r, clock, issued, sessions)
      /\ clock \in 0..MaxTime /\ issued \in 0..MaxSession /\ clock \in Nat /\ issued \in Nat
  BY OfTab
<1>2. /\ r.phase = "reread"
      /\ UNCHANGED <<clock, sessions, issued, cookies, pages, tokens, feeds>>
  BY DEF Reread
<1>3. Later
  BY <1>2, NothingRemoved
<1>4. r.alive /\ r.wrote
  BY <1>1, <1>2 DEF Sound
<1>5. PICK a \in {"rotated", "error"} : Set(t, Over(r, a))
  BY DEF Reread, RotateAnswer
<1>6. Over(r, a) \in Request /\ Sound(Over(r, a), clock, issued, sessions)
  BY <1>1, <1>4, OverFields, OverIsSound
<1>7. retired' \in [Person -> 0..MaxVersion]
  <2>1. r.person \in Person
    BY <1>1 DEF Request
  <2>2. tokens[r.person] - 1 \in 0..MaxVersion
    BY <2>1, Naturals DEF IInv, TypeOK
  <2>3. retired' = retired \/ retired' = [retired EXCEPT ![r.person] = tokens[r.person] - 1]
    BY DEF Reread
  <2> QED
    BY <2>2, <2>3 DEF IInv, TypeOK
<1> QED
  BY <1>1, <1>2, <1>3, <1>5, <1>6, <1>7, TabStep DEF IInv, TypeOK, Known

LEMMA RestartIInv == IInv /\ Restart => IInv'
<1> SUFFICES ASSUME IInv, Restart PROVE IInv'
  OBVIOUS
<1>1. DOMAIN sessions' = {}
  BY DEF Restart
<1>2. ASSUME NEW t \in Tab
      PROVE  requests'[t] \in Request /\ Sound(requests'[t], clock', issued', sessions')
  <2>1. /\ requests[t] \in Request /\ clock \in Nat /\ issued \in Nat
        /\ clock' = clock /\ issued' = issued
    BY OfTab DEF Restart
  <2>2. CASE requests[t].phase = "idle"
    <3>1. requests'[t] = Idle
      BY <2>2 DEF Restart
    <3>2. Idle.cookie = 0 /\ Idle.csrf = 0 /\ Idle.now = -1
      BY IdleFields DEF None, Unread
    <3> QED
      BY <2>1, <3>1, <3>2, IdleFields DEF Sound
  <2>3. CASE requests[t].phase # "idle"
    <3>1. requests'[t] = Over(requests[t], "lost")
      BY <2>3 DEF Restart
    <3> QED
      BY <2>1, <3>1, OverFields, OverIsSound
  <2> QED
    BY <2>2, <2>3
<1>3. requests' \in [Tab -> Request]
  <2>1. DOMAIN requests' = Tab /\ requests' = [t \in Tab |-> requests'[t]]
    BY DEF Restart
  <2> QED
    BY <1>2, <2>1
<1>4. feeds' \in [Reader -> Feed]
  BY Naturals DEF Restart, NoFeed, Feed
<1>5. TypeOK'
  BY <1>1, <1>3, <1>4 DEF IInv, TypeOK, Restart
<1> QED
  BY <1>2, <1>5 DEF IInv, Known, Restart

LEMMA FeedStepIInv ==
  ASSUME IInv, feeds' \in [Reader -> Feed],
         UNCHANGED <<clock, sessions, issued, cookies, pages, requests, tokens, retired>>
  PROVE  IInv'
BY DEF IInv, TypeOK, Known

LEMMA AskFeedIInv ==
  ASSUME IInv, NEW f \in Reader, NEW p \in Person, NEW n \in 1..MaxVersion, AskFeed(f, p, n)
  PROVE  IInv'
<1>1. [phase |-> "resolve", person |-> p, token |-> n, revoked |-> n <= retired[p]] \in Feed
  BY Naturals DEF Feed
<1>2. feeds' \in [Reader -> Feed]
  BY <1>1 DEF AskFeed, IInv, TypeOK
<1> QED
  BY <1>2, FeedStepIInv DEF AskFeed

LEMMA NoFeedFields ==
  /\ NoFeed \in Feed /\ NoFeed.phase = "idle" /\ ~NoFeed.revoked
BY Naturals DEF NoFeed, Feed

LEMMA AnswerFeedIInv ==
  ASSUME IInv, NEW f \in Reader, AnswerFeed(f)
  PROVE  IInv'
<1>1. feeds[f] \in Feed
  BY DEF IInv, TypeOK
<1>2. /\ [feeds[f] EXCEPT !.phase = "list"] \in Feed
      /\ [NoFeed EXCEPT !.phase = "served", !.revoked = feeds[f].revoked] \in Feed
  BY <1>1, NoFeedFields DEF Feed
<1>3. feeds' \in [Reader -> Feed]
  BY <1>1, <1>2, NoFeedFields DEF AnswerFeed, IInv, TypeOK
<1> QED
  BY <1>3, FeedStepIInv DEF AnswerFeed

\* Every step keeps what is known of the sessions and the requests.
LEMMA StepIInv == IInv /\ [Next]_vars => IInv'
<1> SUFFICES ASSUME IInv, [Next]_vars PROVE IInv'
  OBVIOUS
<1>1. CASE UNCHANGED vars
  BY <1>1 DEF vars, IInv, TypeOK, Known
<1>2. CASE Tick
  BY <1>2, TickIInv
<1>3. CASE Restart
  BY <1>3, RestartIInv
<1>4. ASSUME NEW t \in Tab,
             \/ \E f \in Offered(pages[t]) : Begin(t, f)
             \/ ReadClock(t) \/ Require(t) \/ Handle(t)
             \/ Login(t) \/ Logout(t) \/ Reply(t) \/ Dashboard(t)
             \/ Rotate(t) \/ Reread(t)
      PROVE  IInv'
  BY <1>4, BeginIInv, ReadClockIInv, RequireIInv, HandleIInv, LoginIInv, LogoutIInv,
     ReplyIInv, DashboardIInv, RotateIInv, RereadIInv
<1>5. ASSUME NEW f \in Reader,
             \/ \E p \in Person, n \in 1..MaxVersion : AskFeed(f, p, n)
             \/ AnswerFeed(f)
      PROVE  IInv'
  BY <1>5, AskFeedIInv, AnswerFeedIInv
<1> QED
  BY <1>1, <1>2, <1>3, <1>4, <1>5 DEF Next

LEMMA AlwaysIInv == Spec => []IInv
<1>1. Init => IInv
  BY InitIInv
<1>2. IInv /\ [Next]_vars => IInv'
  BY StepIInv
<1> QED
  BY <1>1, <1>2, PTL DEF Spec

-----------------------------------------------------------------------------
(* The sessions. *)

\* Every variable keeps its type: the table of internal/auth holds only sessions that were
\* issued, and none that ends later than a session that begins now.
THEOREM TypeCorrect == Spec => []TypeOK
<1>1. IInv => TypeOK
  BY DEF IInv
<1> QED
  BY <1>1, AlwaysIInv, PTL

\* Only a request whose session was alive when it began is shown the dashboard or told that
\* a token is new, whatever happens between the two lookups of Require and the handler.
THEOREM LivingAreLetIn == Spec => []OnlyTheLivingAreLetIn
<1>1. IInv => OnlyTheLivingAreLetIn
  BY DEF IInv, Known, Sound, OnlyTheLivingAreLetIn
<1> QED
  BY <1>1, AlwaysIInv, PTL

\* What RotateCalendarToken is answered agrees with what was written.
THEOREM AnswersAgree == Spec => []AnsweredAsDone
<1>1. IInv => AnsweredAsDone
  BY DEF IInv, Known, Sound, AnsweredAsDone
<1> QED
  BY <1>1, AlwaysIInv, PTL

\* A request that did nothing yet, and has after a step, logs out or rotates.
LEMMA OnlyFormsWrite ==
  ASSUME IInv, Next, NEW t \in Tab, ~requests[t].wrote, requests'[t].wrote
  PROVE  Logout(t) \/ Rotate(t)
<1>1. requests \in [Tab -> Request] /\ \A u \in Tab : requests[u] \in Request
  BY DEF IInv, TypeOK
<1>2. ASSUME NEW u \in Tab, NEW q, Set(u, q), q.wrote = requests[u].wrote
      PROVE  FALSE
  BY <1>1, <1>2 DEF Set
<1>3. requests' # requests
  OBVIOUS
<1>4. ~Tick /\ ~(\E f \in Reader : AnswerFeed(f))
      /\ ~(\E f \in Reader : \E p \in Person, n \in 1..MaxVersion : AskFeed(f, p, n))
  BY <1>3 DEF Tick, AnswerFeed, AskFeed
<1>5. ASSUME NEW u \in Tab, NEW a \in {"none", "signIn", "refused", "forbidden", "error",
                                       "admin", "page", "rotated", "lost"}
      PROVE  Over(requests[u], a).wrote = requests[u].wrote
  BY <1>1, OverFields
<1>6. ~Restart
  <2>1. ASSUME Restart PROVE FALSE
    <3>1. requests'[t] = Idle \/ requests'[t] = Over(requests[t], "lost")
      BY <2>1 DEF Restart
    <3> QED
      BY <1>5, <3>1, IdleFields
  <2> QED
    BY <2>1
<1>7. ASSUME NEW u \in Tab, NEW f \in Offered(pages[u]), Begin(u, f) PROVE FALSE
  <2>1. PICK q : Set(u, q) /\ q.wrote = FALSE
    BY <1>7 DEF Begin
  <2>2. CASE u = t
    BY <1>1, <2>1, <2>2 DEF Set
  <2>3. CASE u # t
    BY <1>1, <2>1, <2>3 DEF Set
  <2> QED
    BY <2>2, <2>3
<1>8. ASSUME NEW u \in Tab, ReadClock(u) PROVE FALSE
  <2>1. PICK q : Set(u, q) /\ q = [requests[u] EXCEPT !.now = clock]
    BY <1>8 DEF ReadClock
  <2>2. q.wrote = requests[u].wrote
    BY <1>1, <2>1 DEF Request
  <2> QED
    BY <1>2, <2>1, <2>2
<1>9. ASSUME NEW u \in Tab, Require(u) PROVE FALSE
  <2>1. PICK q : /\ Set(u, q)
                 /\ \/ q = [requests[u] EXCEPT !.phase = "handle", !.now = Unread]
                    \/ q = Over(requests[u], "signIn")
    BY <1>9 DEF Require
  <2>2. q.wrote = requests[u].wrote
    BY <1>1, <1>5, <2>1 DEF Request
  <2> QED
    BY <1>2, <2>1, <2>2
<1>10. ASSUME NEW u \in Tab, Handle(u) PROVE FALSE
  <2>1. PICK q : /\ Set(u, q)
                 /\ \/ q = [requests[u] EXCEPT !.phase = "act", !.now = Unread]
                    \/ \E a \in {"admin", "signIn", "forbidden"} : q = Over(requests[u], a)
    BY <1>10, Zenon DEF Handle
  <2>2. q.wrote = requests[u].wrote
    <3>1. CASE q = [requests[u] EXCEPT !.phase = "act", !.now = Unread]
      BY <1>1, <3>1 DEF Request
    <3>2. ASSUME NEW a \in {"admin", "signIn", "forbidden"}, q = Over(requests[u], a)
          PROVE  q.wrote = requests[u].wrote
      BY <1>5, <3>2
    <3> QED
      BY <2>1, <3>1, <3>2
  <2> QED
    BY <1>2, <2>1, <2>2
<1>11. ASSUME NEW u \in Tab, Login(u) PROVE FALSE
  <2>1. PICK q : /\ Set(u, q)
                 /\ \/ q = Over(requests[u], "refused")
                    \/ q = [requests[u] EXCEPT !.phase = "reply", !.cookie = issued + 1,
                                               !.now = Unread]
    BY <1>11 DEF Login
  <2>2. q.wrote = requests[u].wrote
    BY <1>1, <1>5, <2>1 DEF Request
  <2> QED
    BY <1>2, <2>1, <2>2
<1>12. ASSUME NEW u \in Tab, Reply(u) \/ Dashboard(u) \/ Reread(u) PROVE FALSE
  <2>1. PICK a \in {"admin", "signIn", "lost", "page", "error", "rotated"} :
          Set(u, Over(requests[u], a))
    BY <1>12 DEF Reply, Dashboard, Reread, RotateAnswer
  <2> QED
    BY <1>2, <1>5, <2>1
<1>13. ASSUME NEW u \in Tab, u # t, Logout(u) \/ Rotate(u) PROVE FALSE
  <2>1. PICK q : Set(u, q)
    BY <1>13 DEF Logout, Rotate
  <2> QED
    BY <1>1, <1>13, <2>1 DEF Set
<1> QED
  BY <1>4, <1>6, <1>7, <1>8, <1>9, <1>10, <1>11, <1>12, <1>13 DEF Next

\* A form changes something only for the session that loaded its page, alive when it was
\* sent: what validCSRF is for, also for the pages that tabs keep from before a login.
THEOREM OldPagesStayQuiet == Spec => OldPagesDoNothing
<1>1. ASSUME IInv, [Next]_vars, NEW t \in Tab, ~requests[t].wrote, requests'[t].wrote
      PROVE  requests[t].alive /\ requests[t].csrf = requests[t].cookie
  <2>1. Logout(t) \/ Rotate(t)
    BY <1>1, OnlyFormsWrite DEF vars
  <2>2. requests[t].phase = "act" /\ requests[t].do \in {"logout", "rotate"}
    BY <2>1 DEF Logout, Rotate
  <2> QED
    BY <1>1, <2>2 DEF IInv, Known, Sound
<1>2. IInv /\ [Next]_vars =>
        [\A t \in Tab :
           LET r == requests[t]
           IN ~r.wrote /\ requests'[t].wrote => r.alive /\ r.csrf = r.cookie]_vars
  BY <1>1
<1> QED
  BY <1>2, AlwaysIInv, PTL DEF Spec, OldPagesDoNothing

\* A session that has not expired ends by its own logout or with the process: a lookup
\* removes it by a clock that is not ahead, and a logout is that of its own cookie.
THEOREM SessionsStay == Spec => SessionsLast
<1>1. ASSUME IInv, [Next]_vars, NEW s \in DOMAIN sessions,
             sessions[s] > clock, s \notin DOMAIN sessions'
      PROVE  \/ restarts' # restarts
             \/ \E t \in Tab : /\ requests[t].do = "logout" /\ requests[t].cookie = s
                               /\ requests'[t] # requests[t]
  <2>1. sessions' # sessions
    BY <1>1
  <2>2. \A t \in Tab : /\ requests[t] \in Request /\ requests[t].now <= clock
                       /\ requests[t].now \in Int /\ clock \in Int /\ sessions[s] \in Int
    BY <1>1, OfTab DEF Sound, Request, Unread
  <2>3. CASE Restart
    BY <2>3 DEF Restart, IInv, TypeOK
  <2>4. ASSUME NEW t \in Tab, Require(t) \/ Handle(t) PROVE FALSE
    <3>1. sessions' = LookedUp(requests[t].cookie, requests[t].now)
      BY <2>4 DEF Require, Handle
    <3>2. s = requests[t].cookie => AliveAt(s, requests[t].now)
      BY <1>1, <2>2 DEF AliveAt
    <3> QED
      BY <1>1, <3>1, <3>2 DEF LookedUp, Without
  <2>5. ASSUME NEW t \in Tab, Login(t) PROVE FALSE
    <3>1. sessions' = WithNew(issued + 1, requests[t].now)
      BY <2>1, <2>5 DEF Login
    <3>2. s \in DOMAIN Swept(requests[t].now)
      BY <1>1, <2>2 DEF Swept, Without
    <3> QED
      BY <1>1, <3>1, <3>2 DEF WithNew
  <2>6. ASSUME NEW t \in Tab, Logout(t)
        PROVE  /\ requests[t].do = "logout" /\ requests[t].cookie = s
               /\ requests'[t] # requests[t]
    <3>1. requests[t].do = "logout" /\ requests[t].phase = "act"
      BY <2>6 DEF Logout
    <3>2. requests[t].cookie = s
      BY <1>1, <2>6 DEF Logout, Without
    <3>3. requests'[t].phase = "reply"
      <4>1. PICK q : q = [requests[t] EXCEPT !.phase = "reply", !.wrote = TRUE]
        OBVIOUS
      <4>2. q.phase = "reply"
        BY <2>2, <4>1 DEF Request
      <4>3. Set(t, q)
        BY <2>6, <4>1 DEF Logout
      <4> QED
        BY <1>1, <4>2, <4>3 DEF Set, IInv, TypeOK
    <3> QED
      BY <3>1, <3>2, <3>3
  <2> QED
    BY <1>1, <2>1, <2>3, <2>4, <2>5, <2>6
    DEF Next, vars, Tick, Begin, ReadClock, Reply, Dashboard, Rotate, Reread, AskFeed,
        AnswerFeed
<1>2. IInv /\ [Next]_vars =>
        [\A s \in DOMAIN sessions :
           sessions[s] > clock /\ s \notin DOMAIN sessions' =>
             \/ restarts' # restarts
             \/ \E t \in Tab : /\ requests[t].do = "logout" /\ requests[t].cookie = s
                               /\ requests'[t] # requests[t]]_vars
  BY <1>1
<1> QED
  BY <1>2, AlwaysIInv, PTL DEF Spec, SessionsLast

-----------------------------------------------------------------------------
(* The feeds. *)

LEMMA StepFeedInv == TypeOK /\ FeedInv /\ [Next]_vars => FeedInv'
<1> SUFFICES ASSUME TypeOK, FeedInv, [Next]_vars PROVE FeedInv'
  OBVIOUS
<1>1. /\ \A p \in Person : tokens[p] \in Nat /\ retired[p] \in Nat
      /\ \A f \in Reader : feeds[f] \in Feed /\ feeds[f].token \in Nat
                            /\ feeds[f].person \in Person
      /\ \A t \in Tab : requests[t].person \in Person
      /\ tokens \in [Person -> 1..MaxVersion] /\ retired \in [Person -> 0..MaxVersion]
      /\ feeds \in [Reader -> Feed]
  BY Naturals DEF TypeOK, Feed, Request
<1>2. CASE UNCHANGED <<tokens, feeds, retired>>
  BY <1>2 DEF FeedInv
<1>3. ASSUME NEW t \in Tab, Rotate(t) PROVE FeedInv'
  <2>1. /\ UNCHANGED <<feeds, retired>>
        /\ \/ tokens' = tokens
           \/ tokens' = [tokens EXCEPT ![requests[t].person] =
                                         tokens[requests[t].person] + 1]
    BY <1>3 DEF Rotate
  <2>2. \A p \in Person : tokens[p] <= tokens'[p] /\ tokens'[p] \in Nat
    BY <1>1, <2>1
  <2> QED
    BY <1>1, <2>1, <2>2 DEF FeedInv
<1>4. ASSUME NEW t \in Tab, Reread(t) PROVE FeedInv'
  <2>1. /\ UNCHANGED <<feeds, tokens>>
        /\ \/ retired' = retired
           \/ retired' = [retired EXCEPT ![requests[t].person] =
                                           tokens[requests[t].person] - 1]
    BY <1>4 DEF Reread
  <2>2. \A p \in Person : retired'[p] < tokens[p]
    BY <1>1, <2>1 DEF FeedInv
  <2> QED
    BY <2>1, <2>2 DEF FeedInv
<1>5. CASE Restart
  BY <1>5, NoFeedFields DEF Restart, FeedInv
<1>6. ASSUME NEW f \in Reader, NEW p \in Person, NEW n \in 1..MaxVersion, AskFeed(f, p, n)
      PROVE  FeedInv'
  <2>1. PICK q : q = [phase |-> "resolve", person |-> p, token |-> n,
                      revoked |-> n <= retired[p]]
    OBVIOUS
  <2>2. feeds' = [feeds EXCEPT ![f] = q] /\ UNCHANGED <<tokens, retired>>
    BY <1>6, <2>1 DEF AskFeed
  <2>3. q.phase = "resolve" /\ (q.revoked => q.token < tokens[q.person])
    <3>1. q.phase = "resolve" /\ q.person = p /\ q.token = n
      BY <2>1
    <3>2. q.revoked => n <= retired[p]
      BY <2>1, Zenon
    <3>3. retired[p] < tokens[p]
      BY DEF FeedInv
    <3> QED
      BY <1>1, <3>1, <3>2, <3>3
  <2>4. ASSUME NEW g \in Reader
        PROVE  /\ feeds'[g].phase = "resolve" /\ feeds'[g].revoked =>
                    feeds'[g].token < tokens[feeds'[g].person]
               /\ feeds'[g].phase \in {"list", "served"} => ~feeds'[g].revoked
    <3>1. CASE g = f
      BY <1>1, <2>2, <2>3, <3>1
    <3>2. CASE g # f
      BY <1>1, <2>2, <3>2 DEF FeedInv
    <3> QED
      BY <3>1, <3>2
  <2> QED
    BY <2>2, <2>4 DEF FeedInv
<1>7. ASSUME NEW f \in Reader, AnswerFeed(f) PROVE FeedInv'
  <2>1. UNCHANGED <<tokens, retired>>
    BY <1>7 DEF AnswerFeed
  <2>2. PICK q : /\ feeds' = [feeds EXCEPT ![f] = q]
                 /\ q.phase # "resolve"
                 /\ q.phase \in {"list", "served"} => ~q.revoked
    <3>1. CASE feeds[f].phase = "resolve" /\ Resolves(feeds[f].person, feeds[f].token)
               /\ feeds' = [feeds EXCEPT ![f].phase = "list"]
      <4>1. ~feeds[f].revoked
        BY <1>1, <3>1 DEF FeedInv, Resolves
      <4>2. PICK q : q = [feeds[f] EXCEPT !.phase = "list"]
        OBVIOUS
      <4>3. q.phase = "list" /\ q.revoked = feeds[f].revoked
        BY <1>1, <4>2 DEF Feed
      <4>4. feeds' = [feeds EXCEPT ![f] = q]
        BY <1>1, <3>1, <4>2
      <4> QED
        BY <4>1, <4>3, <4>4
    <3>2. CASE feeds[f].phase = "list"
               /\ feeds' = [feeds EXCEPT ![f] = [NoFeed EXCEPT !.phase = "served",
                                                               !.revoked = feeds[f].revoked]]
      <4>1. PICK q : q = [NoFeed EXCEPT !.phase = "served", !.revoked = feeds[f].revoked]
        OBVIOUS
      <4>2. q.phase = "served" /\ q.revoked = feeds[f].revoked
        BY <4>1, NoFeedFields DEF Feed
      <4>3. ~feeds[f].revoked
        BY <3>2 DEF FeedInv
      <4> QED
        BY <3>2, <4>1, <4>2, <4>3
    <3>3. CASE feeds' = [feeds EXCEPT ![f] = NoFeed]
      BY <3>3, NoFeedFields
    <3> QED
      BY <1>7, <3>1, <3>2, <3>3 DEF AnswerFeed
  <2>3. ASSUME NEW g \in Reader
        PROVE  /\ feeds'[g].phase = "resolve" /\ feeds'[g].revoked =>
                    feeds'[g].token < tokens[feeds'[g].person]
               /\ feeds'[g].phase \in {"list", "served"} => ~feeds'[g].revoked
    <3>1. CASE g = f
      BY <1>1, <2>2, <3>1
    <3>2. CASE g # f
      BY <1>1, <2>2, <3>2 DEF FeedInv
    <3> QED
      BY <3>1, <3>2
  <2> QED
    BY <2>1, <2>3 DEF FeedInv
<1> QED
  BY <1>2, <1>3, <1>4, <1>5, <1>6, <1>7
  DEF Next, vars, Tick, Begin, ReadClock, Require, Handle, Login, Logout, Reply, Dashboard

\* A feed asked for with a token whose rotation was reported before is not served, although
\* the handler lists the occurrences some time after it has resolved the token.
THEOREM RotatedStaysRefused == Spec => []RotatedIsRefused
<1>1. Init => FeedInv
  BY NoFeedFields DEF Init, FeedInv
<1>2. TypeOK /\ FeedInv /\ [Next]_vars => FeedInv'
  BY StepFeedInv
<1>3. FeedInv => RotatedIsRefused
  BY DEF FeedInv, RotatedIsRefused
<1> QED
  BY <1>1, <1>2, <1>3, TypeCorrect, PTL DEF Spec
=============================================================================
