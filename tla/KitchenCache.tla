---------------------------- MODULE KitchenCache ----------------------------
(***************************************************************************)
(* The read cache of internal/kitchen between the pages and Mealie: reads  *)
(* that load what the cache lacks, writes that clear it once Mealie has    *)
(* accepted them, and the cache's own ageing and eviction.                 *)
(*                                                                         *)
(* The service keeps three such caches (meals, recipes, groceries), used   *)
(* alike; this is one of them.  The mutex makes Get, Set and Clear atomic, *)
(* and nothing else: the calls to Mealie run between them.  What Mealie    *)
(* holds under a key is a version, the number of changes made to it.       *)
(***************************************************************************)
EXTENDS Integers, FiniteSets

CONSTANTS
  Key,           \* what is cached: a range of dates, a page of recipes, a list
  Blank,         \* the keys that are "": the grocery page without a list
  Reader, Writer,       \* requests that can be under way at once
  MaxEntries, FreshFor, StaleFor,       \* Options
  MaxTime,       \* bound on the clock
  MaxVersion     \* bound on the changes made under a key

ASSUME KitchenAssumption ==
  /\ Key # {} /\ Blank \subseteq Key /\ Cardinality(Blank) <= 1
  /\ MaxEntries \in Nat \ {0}
  /\ {FreshFor, StaleFor, MaxTime, MaxVersion} \subseteq Nat

VARIABLES
  now,           \* the clock
  plan,          \* Mealie's version of each key
  cache,         \* the entries, by key
  reads,         \* each read's request, and its answer
  writes,        \* each write: the versions Mealie made of it
  asOf,          \* history: the plan at the start of each moment
  confirmed,     \* history: the last version reported to a writer
  overtaken      \* history: keys stored by a load older than the last Clear

history == <<asOf, confirmed, overtaken>>
vars == <<now, plan, cache, reads, writes, history>>

Version == 0..MaxVersion
Time == 0..MaxTime

Entry == [value: Version, storedAt: Time, lastAccess: Time]

\* pc: none, loading (asking Mealie), loaded (Mealie has answered), shown.
Read == [pc: {"none", "loading", "loaded", "shown"}, key: Key, at: Time,
         value: Version, warned: BOOLEAN,
         owed: Version,          \* history: confirmed when the read began
         overlapped: BOOLEAN]    \* history: a Clear overtook the load shown

Unread == [pc |-> "none", key |-> CHOOSE k \in Key : TRUE, at |-> 0, value |-> 0,
           warned |-> FALSE, owed |-> 0, overlapped |-> FALSE]

\* The versions an accepted write made; 0 under the keys it left alone.
NoWrite == [k \in Key |-> 0]

-----------------------------------------------------------------------------
(* cache.go *)

\* Fault: an access renews the entry.
ExpiredUnused(k, t, limit) == t - cache[k].lastAccess > limit

\* A clock read before the entry was stored gives age 0.
Expired(k, t, limit) == t - cache[k].storedAt > limit

Found(k, t) == k \in DOMAIN cache /\ ~ Expired(k, t, StaleFor)

Fresh(k, t) == Found(k, t) /\ ~ Expired(k, t, FreshFor)

Without(k) == [d \in DOMAIN cache \ {k} |-> cache[d]]

\* Get drops an expired entry and notes the access to any other.
Get(k, t) ==
  cache' = IF Found(k, t) THEN [cache EXCEPT ![k].lastAccess = t] ELSE Without(k)

Oldest(keys) ==
  {e \in keys : \A d \in keys : cache[e].lastAccess <= cache[d].lastAccess}

\* What the scan picks that meets the key b, which is "", after "before".  It takes
\* "" for nothing picked yet: if b is the oldest so far, the next key replaces it.
PickedAround(b, before) ==
  LET named == DOMAIN cache \ {b}
      after == named \ before
      oldestSoFar == \A d \in before : cache[b].lastAccess < cache[d].lastAccess
  IN IF ~ oldestSoFar THEN Oldest(named)
     ELSE IF after = {} THEN {b} ELSE Oldest(after)

\* What Set's scan of the entries, in any order, may pick.
Victims ==
  {e \in DOMAIN cache :
     IF DOMAIN cache \cap Blank = {} THEN e \in Oldest(DOMAIN cache)
     ELSE \E b \in DOMAIN cache \cap Blank, before \in SUBSET (DOMAIN cache \ Blank) :
            e \in PickedAround(b, before)}

\* Fault: the victim is picked, and not deleted.
StoreUnbounded(k, value, t) ==
  cache' = [d \in DOMAIN cache \cup {k} |->
              IF d = k THEN [value |-> value, storedAt |-> t, lastAccess |-> t]
              ELSE cache[d]]

\* Set
Store(k, value, t) ==
  \E victim \in IF k \in DOMAIN cache \/ Cardinality(DOMAIN cache) < MaxEntries
                THEN {{}} ELSE {{e} : e \in Victims} :
    cache' = [d \in (DOMAIN cache \ victim) \cup {k} |->
                IF d = k THEN [value |-> value, storedAt |-> t, lastAccess |-> t]
                ELSE cache[d]]

\* Fault: a write leaves the cache alone.
ClearNothing == UNCHANGED cache

Clear == cache' = [k \in {} |-> 0]

-----------------------------------------------------------------------------
Init ==
  /\ now = 0
  /\ plan = [k \in Key |-> 0]
  /\ cache = [k \in {} |-> 0]
  /\ reads = [c \in Reader |-> Unread]
  /\ writes = [c \in Writer |-> NoWrite]
  /\ asOf = [t \in {0} |-> plan]
  /\ confirmed = [k \in Key |-> 0]
  /\ overtaken = {}

\* A view is requested: the clock is read once, and the cache looked up.
BeginRead(c, k) ==
  LET hit == Fresh(k, now)
  IN /\ reads[c].pc = "none"
     /\ Get(k, now)
     /\ reads' = [reads EXCEPT ![c] =
          [pc |-> IF hit THEN "shown" ELSE "loading", key |-> k, at |-> now,
           value |-> IF hit THEN cache[k].value ELSE 0, warned |-> FALSE,
           owed |-> confirmed[k], overlapped |-> hit /\ k \in overtaken]]
     /\ UNCHANGED <<now, plan, writes, history>>

\* Mealie answers the load.  Its pages are taken to be of one moment.
MealieAnswers(c) ==
  /\ reads[c].pc = "loading"
  /\ reads' = [reads EXCEPT ![c].pc = "loaded", ![c].value = plan[reads[c].key]]
  /\ UNCHANGED <<now, plan, cache, writes, history>>

\* Fault: the entry is dated by the clock at the end of the load.
FinishLoadLate(c) ==
  LET read == reads[c]
  IN /\ read.pc = "loaded"
     /\ Store(read.key, read.value, now)
     /\ overtaken' = IF read.overlapped THEN overtaken \cup {read.key}
                                        ELSE overtaken \ {read.key}
     /\ reads' = [reads EXCEPT ![c].pc = "shown", ![c].overlapped = FALSE]
     /\ UNCHANGED <<now, plan, writes, asOf, confirmed>>

\* The load is stored, dated by the clock the read began with, and shown.
FinishLoad(c) ==
  LET read == reads[c]
  IN /\ read.pc = "loaded"
     /\ Store(read.key, read.value, read.at)
     /\ overtaken' = IF read.overlapped THEN overtaken \cup {read.key}
                                        ELSE overtaken \ {read.key}
     /\ reads' = [reads EXCEPT ![c].pc = "shown", ![c].overlapped = FALSE]
     /\ UNCHANGED <<now, plan, writes, asOf, confirmed>>

\* A call fails or times out (the pages', or the recipe links' after them): what
\* the cache still has is shown with a warning, or else an error.
LoadFails(c) ==
  LET read == reads[c]
      hit == Found(read.key, read.at)
  IN /\ read.pc \in {"loading", "loaded"}
     /\ Get(read.key, read.at)
     /\ reads' = [reads EXCEPT ![c] =
          IF hit THEN [read EXCEPT !.pc = "shown", !.warned = TRUE,
                                   !.value = cache[read.key].value,
                                   !.overlapped = FALSE]
                 ELSE Unread]
     /\ UNCHANGED <<now, plan, writes, history>>

Leave(c) ==
  /\ reads[c].pc = "shown"
  /\ reads' = [reads EXCEPT ![c] = Unread]
  /\ UNCHANGED <<now, plan, cache, writes, history>>

-----------------------------------------------------------------------------
Change(keys) ==
  /\ keys # {}
  /\ \A k \in keys : plan[k] < MaxVersion
  /\ plan' = [k \in Key |-> IF k \in keys THEN plan[k] + 1 ELSE plan[k]]

\* Somebody changes the plan in Mealie itself.
ChangedElsewhere(keys) ==
  /\ Change(keys)
  /\ UNCHANGED <<now, cache, reads, writes, history>>

\* Mealie accepts a write; the service does not know it yet.
WriteAccepted(c, keys) ==
  /\ writes[c] = NoWrite
  /\ Change(keys)
  /\ writes' = [writes EXCEPT ![c] =
                  [k \in Key |-> IF k \in keys THEN plan[k] + 1 ELSE 0]]
  /\ UNCHANGED <<now, cache, reads, history>>

\* Mealie's answer is lost, or cannot be mapped, or its recipe links fail: the
\* write is reported as failed, and nothing is cleared.
WriteFails(c) ==
  /\ writes[c] # NoWrite
  /\ writes' = [writes EXCEPT ![c] = NoWrite]
  /\ UNCHANGED <<now, plan, cache, reads, history>>

\* The cache is cleared and the write reported.
WriteConfirmed(c) ==
  /\ writes[c] # NoWrite
  /\ Clear
  /\ writes' = [writes EXCEPT ![c] = NoWrite]
  /\ confirmed' = [k \in Key |-> IF writes[c][k] > confirmed[k]
                                 THEN writes[c][k] ELSE confirmed[k]]
  /\ reads' = [d \in Reader |->
                 [reads[d] EXCEPT !.overlapped = @ \/ reads[d].pc = "loaded"]]
  /\ overtaken' = {}
  /\ UNCHANGED <<now, plan, asOf>>

Tick ==
  /\ now < MaxTime
  /\ now' = now + 1
  /\ asOf' = [t \in 0..(now + 1) |-> IF t <= now THEN asOf[t] ELSE plan]
  /\ UNCHANGED <<plan, cache, reads, writes, confirmed, overtaken>>

\* The process restarts: the cache and the requests are lost.
Restart ==
  /\ Clear
  /\ reads' = [c \in Reader |-> Unread]
  /\ writes' = [c \in Writer |-> NoWrite]
  /\ overtaken' = {}
  /\ UNCHANGED <<now, plan, asOf, confirmed>>

Next ==
  \/ \E c \in Reader, k \in Key : BeginRead(c, k)
  \/ \E c \in Reader : MealieAnswers(c)
  \/ \E c \in Reader : FinishLoad(c)
  \/ \E c \in Reader : LoadFails(c)
  \/ \E c \in Reader : Leave(c)
  \/ \E keys \in SUBSET Key : ChangedElsewhere(keys)
  \/ \E c \in Writer, keys \in SUBSET Key : WriteAccepted(c, keys)
  \/ \E c \in Writer : WriteFails(c)
  \/ \E c \in Writer : WriteConfirmed(c)
  \/ Tick
  \/ Restart

Spec == Init /\ [][Next]_vars

-----------------------------------------------------------------------------
\* Every variable keeps its type; the cache never holds more than MaxEntries.
TypeOK ==
  /\ now \in Time
  /\ plan \in [Key -> Version]
  /\ DOMAIN cache \subseteq Key /\ cache \in [DOMAIN cache -> Entry]
  /\ Cardinality(DOMAIN cache) <= MaxEntries
  /\ reads \in [Reader -> Read]
  /\ writes \in [Writer -> [Key -> Version]]
  /\ asOf \in [0..now -> [Key -> Version]]
  /\ confirmed \in [Key -> Version]
  /\ overtaken \subseteq Key

\* A view shows everything Mealie had "span" before its request.
ShowsAsOf(read, span) ==
  read.value >= asOf[IF read.at > span THEN read.at - span ELSE 0][read.key]

\* A view without a warning lacks at most the last FreshFor before its request,
\* whatever loads ran at once, took their time, and stored in any order.
FreshEnough ==
  \A c \in Reader :
    reads[c].pc = "shown" /\ ~ reads[c].warned => ShowsAsOf(reads[c], FreshFor)

\* A view with a warning lacks at most the last StaleFor.
StaleEnough ==
  \A c \in Reader :
    reads[c].pc = "shown" /\ reads[c].warned => ShowsAsOf(reads[c], StaleFor)

\* A view without a warning, requested after a write was reported, shows the
\* write: except from an entry whose load had its answer before the write
\* cleared the cache, and stored it afterwards.
ConfirmedIsShown ==
  \A c \in Reader :
    reads[c].pc = "shown" /\ ~ reads[c].warned /\ ~ reads[c].overlapped
      => reads[c].value >= reads[c].owed

-----------------------------------------------------------------------------
(* What the tests say of it, and the code does not keep. *)

\* TestSuccessfulMealWriteInvalidatesReadCache: after a reported write no view
\* without a warning still shows the plan from before it.
WriteInvalidates ==
  \A c \in Reader :
    reads[c].pc = "shown" /\ ~ reads[c].warned => reads[c].value >= reads[c].owed
=============================================================================
