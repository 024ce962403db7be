---------------------------- MODULE KitchenProofs ---------------------------
(***************************************************************************)
(* What a view of the kitchen may lack, for any keys, requests, freshness  *)
(* and size of the cache.                                                  *)
(***************************************************************************)
EXTENDS KitchenCache, FiniteSetTheorems, TLAPS

\* The domain of the cache is finite, which its bound needs.
Typed == TypeOK /\ IsFiniteSet(DOMAIN cache)

\* What the cache may do at once: entries are dropped or accessed, and at most
\* one of them is stored anew.
DropsOnly ==
  /\ DOMAIN cache' \subseteq DOMAIN cache
  /\ cache' \in [DOMAIN cache' -> Entry]
  /\ \A d \in DOMAIN cache' : /\ cache'[d].value = cache[d].value
                              /\ cache'[d].storedAt = cache[d].storedAt

Stores(k, value, t) ==
  /\ DOMAIN cache' \subseteq DOMAIN cache \cup {k}
  /\ k \in DOMAIN cache'
  /\ cache' \in [DOMAIN cache' -> Entry]
  /\ cache'[k].value = value /\ cache'[k].storedAt = t
  /\ \A d \in DOMAIN cache' \ {k} : cache'[d] = cache[d]

CacheBounded == IsFiniteSet(DOMAIN cache) /\ Cardinality(DOMAIN cache) <= MaxEntries

\* Dropping entries keeps a finite cache finite and within its bound.
LEMMA SmallerIsBounded ==
  ASSUME Typed, DOMAIN cache' \subseteq DOMAIN cache
  PROVE  CacheBounded'
<1>1. IsFiniteSet(DOMAIN cache')
  BY FS_Subset DEF Typed
<1>2. Cardinality(DOMAIN cache') <= Cardinality(DOMAIN cache)
  BY FS_Subset DEF Typed
<1>3. Cardinality(DOMAIN cache') \in Nat /\ Cardinality(DOMAIN cache) \in Nat
  BY <1>1, FS_CardinalityType DEF Typed
<1> QED
  BY <1>1, <1>2, <1>3, KitchenAssumption DEF CacheBounded, Typed, TypeOK

\* Get drops at most the entry it looks up, and changes no value and no date.
LEMMA GetDropsOnly ==
  ASSUME Typed, NEW k \in Key, NEW t \in Time, Get(k, t)
  PROVE  DropsOnly /\ CacheBounded'
<1>1. CASE Found(k, t)
  <2>1. cache' = [cache EXCEPT ![k].lastAccess = t] /\ k \in DOMAIN cache
    BY <1>1 DEF Get, Found
  <2>2. DOMAIN cache' = DOMAIN cache
    BY <2>1 DEF Typed, TypeOK
  <2>3. \A d \in DOMAIN cache : cache[d] \in Entry
    BY DEF Typed, TypeOK
  <2>4. \A d \in DOMAIN cache :
          cache'[d] = IF d = k THEN [cache[d] EXCEPT !.lastAccess = t] ELSE cache[d]
    BY <2>1 DEF Typed, TypeOK
  <2>5. \A d \in DOMAIN cache : /\ cache'[d] \in Entry
                                /\ cache'[d].value = cache[d].value
                                /\ cache'[d].storedAt = cache[d].storedAt
    BY <2>3, <2>4 DEF Entry
  <2>6. cache' = [d \in DOMAIN cache' |-> cache'[d]]
    BY <2>1, <2>2 DEF Typed, TypeOK
  <2>7. cache' \in [DOMAIN cache' -> Entry]
    BY <2>2, <2>5, <2>6
  <2> QED
    BY <2>2, <2>5, <2>7, SmallerIsBounded DEF DropsOnly
<1>2. CASE ~ Found(k, t)
  <2>1. cache' = [d \in DOMAIN cache \ {k} |-> cache[d]]
    BY <1>2 DEF Get, Without
  <2>2. DOMAIN cache' = DOMAIN cache \ {k}
    BY <2>1
  <2>3. DropsOnly
    BY <2>1, <2>2 DEF DropsOnly, Typed, TypeOK
  <2> QED
    BY <2>2, <2>3, SmallerIsBounded
<1> QED
  BY <1>1, <1>2

\* Whatever the scan of Set picks is in the cache.
LEMMA VictimsAreEntries == Victims \subseteq DOMAIN cache
BY DEF Victims

\* Set stores one entry, within the bound, and leaves the others it keeps alone.
LEMMA StoreStores ==
  ASSUME Typed, NEW k \in Key, NEW value \in Version, NEW t \in Time,
         Store(k, value, t)
  PROVE  Stores(k, value, t) /\ CacheBounded'
<1> DEFINE size == Cardinality(DOMAIN cache)
           room == k \in DOMAIN cache \/ size < MaxEntries
<1>1. PICK victim \in IF room THEN {{}} ELSE {{e} : e \in Victims} :
        cache' = [d \in (DOMAIN cache \ victim) \cup {k} |->
                    IF d = k
                    THEN [value |-> value, storedAt |-> t, lastAccess |-> t]
                    ELSE cache[d]]
  BY DEF Store
<1>2. DOMAIN cache' = (DOMAIN cache \ victim) \cup {k}
  BY <1>1
<1>3. Stores(k, value, t)
  BY <1>1, <1>2 DEF Stores, Entry, Typed, TypeOK
<1>4. IsFiniteSet(DOMAIN cache) /\ size \in Nat /\ size <= MaxEntries
  BY FS_CardinalityType DEF Typed, TypeOK
<1>5. CacheBounded'
  <2>1. CASE k \in DOMAIN cache
    <3>1. DOMAIN cache' \subseteq DOMAIN cache
      BY <1>2, <2>1
    <3> QED
      BY <3>1, SmallerIsBounded
  <2>2. CASE k \notin DOMAIN cache /\ size < MaxEntries
    <3>1. DOMAIN cache' = DOMAIN cache \cup {k}
      BY <1>2, <2>2
    <3>2. IsFiniteSet(DOMAIN cache') /\ Cardinality(DOMAIN cache') = size + 1
      BY <3>1, <2>2, <1>4, FS_AddElement
    <3> QED
      BY <3>2, <2>2, <1>4, KitchenAssumption DEF CacheBounded
  <2>3. CASE k \notin DOMAIN cache /\ ~ (size < MaxEntries)
    <3>1. PICK e \in DOMAIN cache : victim = {e}
      BY <2>3, VictimsAreEntries
    <3> DEFINE rest == DOMAIN cache \ {e}
    <3>2. IsFiniteSet(rest) /\ Cardinality(rest) = size - 1
      BY <1>4, FS_RemoveElement
    <3>3. DOMAIN cache' = rest \cup {k} /\ k \notin rest
      BY <1>2, <3>1, <2>3
    <3>4. IsFiniteSet(rest \cup {k}) /\ Cardinality(rest \cup {k}) = size - 1 + 1
      BY <3>2, <3>3, FS_AddElement
    <3> QED
      BY <3>3, <3>4, <1>4, KitchenAssumption DEF CacheBounded
  <2> QED
    BY <2>1, <2>2, <2>3
<1> QED
  BY <1>3, <1>5

-----------------------------------------------------------------------------
(* Types. *)

LEMMA InitTyped == Init => Typed
<1> SUFFICES ASSUME Init PROVE Typed
  OBVIOUS
<1>1. DOMAIN cache = {} /\ cache \in [DOMAIN cache -> Entry]
  BY DEF Init
<1>2. IsFiniteSet({}) /\ Cardinality({}) = 0
  BY FS_EmptySet
<1>3. 0 \in Version /\ 0 \in Time
  BY KitchenAssumption DEF Version, Time
<1>4. Unread \in Read
  BY <1>3, KitchenAssumption DEF Unread, Read
<1>5. /\ now \in Time
      /\ plan \in [Key -> Version]
      /\ reads \in [Reader -> Read]
      /\ writes \in [Writer -> [Key -> Version]]
      /\ confirmed \in [Key -> Version]
      /\ overtaken \subseteq Key
  BY <1>3, <1>4 DEF Init, NoWrite
<1>6. 0..now = {0}
  BY DEF Init
<1>7. asOf \in [0..now -> [Key -> Version]]
  BY <1>5, <1>6 DEF Init
<1> QED
  BY <1>1, <1>2, <1>5, <1>7, KitchenAssumption DEF Typed, TypeOK

\* A step of a read keeps the types: it leaves the rest of the state alone.
LEMMA ReadTyped ==
  ASSUME Typed, NEW c \in Reader,
         \/ \E k \in Key : BeginRead(c, k)
         \/ MealieAnswers(c) \/ FinishLoad(c) \/ LoadFails(c) \/ Leave(c)
  PROVE  Typed'
<1> USE DEF Typed, TypeOK
<1>0. reads[c] \in Read
  OBVIOUS
<1>1. CASE \E k \in Key : BeginRead(c, k)
  <2>1. PICK k \in Key : BeginRead(c, k)
    BY <1>1
  <2> DEFINE hit == Fresh(k, now)
             begun == [pc |-> IF hit THEN "shown" ELSE "loading", key |-> k,
                       at |-> now, value |-> IF hit THEN cache[k].value ELSE 0,
                       warned |-> FALSE, owed |-> confirmed[k],
                       overlapped |-> hit /\ k \in overtaken]
  <2>2. Get(k, now) /\ reads' = [reads EXCEPT ![c] = begun]
    BY <2>1 DEF BeginRead
  <2>3. DropsOnly /\ CacheBounded'
    BY <2>2, GetDropsOnly
  <2>4. hit => cache[k] \in Entry
    BY DEF Fresh, Found
  <2>5. hit => cache[k].value \in Version
    BY <2>4 DEF Entry
  <2>6. 0 \in Version
    BY KitchenAssumption DEF Version
  <2>7. begun \in Read
    <3>1. (hit /\ k \in overtaken) \in BOOLEAN
      BY DEF Fresh
    <3> QED
      BY <2>5, <2>6, <3>1 DEF Read
  <2>8. reads' \in [Reader -> Read]
    BY <2>2, <2>7
  <2>9. UNCHANGED <<now, plan, writes, history>>
    BY <2>1 DEF BeginRead
  <2> QED
    BY <2>3, <2>8, <2>9 DEF DropsOnly, CacheBounded, history
<1>2. CASE MealieAnswers(c)
  <2>1. plan[reads[c].key] \in Version
    BY <1>0 DEF Read
  <2>2. [reads[c] EXCEPT !.pc = "loaded", !.value = plan[reads[c].key]] \in Read
    BY <1>0, <2>1 DEF Read
  <2>3. reads' \in [Reader -> Read]
    BY <1>2, <2>2 DEF MealieAnswers
  <2> QED
    BY <1>2, <2>3 DEF MealieAnswers, history
<1>3. CASE FinishLoad(c)
  <2> DEFINE read == reads[c]
  <2>1. read.key \in Key /\ read.value \in Version /\ read.at \in Time
    BY <1>0 DEF Read
  <2>2. Store(read.key, read.value, read.at)
    BY <1>3 DEF FinishLoad
  <2>3. Stores(read.key, read.value, read.at) /\ CacheBounded'
    BY <2>1, <2>2, StoreStores
  <2>4. DOMAIN cache' \subseteq Key /\ cache' \in [DOMAIN cache' -> Entry]
    BY <2>1, <2>3 DEF Stores
  <2>5. [reads[c] EXCEPT !.pc = "shown", !.overlapped = FALSE] \in Read
    BY <1>0 DEF Read
  <2>6. reads' \in [Reader -> Read]
    BY <1>3, <2>5 DEF FinishLoad
  <2>7. overtaken' \subseteq Key
    BY <1>3, <2>1 DEF FinishLoad
  <2> QED
    BY <1>3, <2>3, <2>4, <2>6, <2>7 DEF FinishLoad, CacheBounded
<1>4. CASE LoadFails(c)
  <2> DEFINE read == reads[c]
  <2>1. read.key \in Key /\ read.at \in Time
    BY <1>0 DEF Read
  <2>2. Get(read.key, read.at)
    BY <1>4 DEF LoadFails
  <2>3. DropsOnly /\ CacheBounded'
    BY <2>1, <2>2, GetDropsOnly
  <2>4. CASE Found(read.key, read.at)
    <3>1. cache[read.key] \in Entry
      BY <2>4 DEF Found
    <3>2. cache[read.key].value \in Version
      BY <3>1 DEF Entry
    <3>3. [read EXCEPT !.pc = "shown", !.warned = TRUE,
                       !.value = cache[read.key].value,
                       !.overlapped = FALSE] \in Read
      BY <1>0, <3>2 DEF Read
    <3>4. reads' \in [Reader -> Read]
      BY <1>4, <2>4, <3>3 DEF LoadFails
    <3> QED
      BY <1>4, <2>3, <3>4 DEF LoadFails, DropsOnly, CacheBounded, history
  <2>5. CASE ~ Found(read.key, read.at)
    <3>1. Unread \in Read
      BY KitchenAssumption DEF Unread, Read, Version, Time
    <3>2. reads' \in [Reader -> Read]
      BY <1>4, <2>5, <3>1 DEF LoadFails
    <3> QED
      BY <1>4, <2>3, <3>2 DEF LoadFails, DropsOnly, CacheBounded, history
  <2> QED
    BY <2>4, <2>5
<1>5. CASE Leave(c)
  <2>1. Unread \in Read
    BY KitchenAssumption DEF Unread, Read, Version, Time
  <2>2. reads' \in [Reader -> Read]
    BY <1>5, <2>1 DEF Leave
  <2> QED
    BY <1>5, <2>2 DEF Leave, history
<1> QED
  BY <1>1, <1>2, <1>3, <1>4, <1>5

\* What Clear leaves is within the bound.
LEMMA ClearEmpties ==
  ASSUME Clear
  PROVE  /\ DOMAIN cache' = {} /\ DropsOnly
         /\ IsFiniteSet(DOMAIN cache') /\ Cardinality(DOMAIN cache') <= MaxEntries
<1>1. DOMAIN cache' = {} /\ cache' \in [DOMAIN cache' -> Entry]
  BY DEF Clear
<1>2. IsFiniteSet({}) /\ Cardinality({}) = 0
  BY FS_EmptySet
<1> QED
  BY <1>1, <1>2, KitchenAssumption DEF DropsOnly

\* A change at Mealie adds one to the versions it concerns.
LEMMA ChangeTyped ==
  ASSUME Typed, NEW keys \in SUBSET Key, Change(keys)
  PROVE  /\ plan' \in [Key -> Version]
         /\ \A k \in Key : plan'[k] = IF k \in keys THEN plan[k] + 1 ELSE plan[k]
         /\ \A k \in keys : plan[k] + 1 \in Version
<1>1. \A k \in keys : plan[k] \in Version /\ plan[k] < MaxVersion
  BY DEF Change, Typed, TypeOK
<1>2. \A k \in keys : plan[k] + 1 \in Version
  BY <1>1, KitchenAssumption DEF Version
<1> QED
  BY <1>2 DEF Change, Typed, TypeOK

LEMMA NextTyped == Typed /\ [Next]_vars => Typed'
<1> SUFFICES ASSUME Typed, [Next]_vars PROVE Typed'
  OBVIOUS
<1> USE DEF Typed, TypeOK
<1>1. CASE \E c \in Reader : \/ \E k \in Key : BeginRead(c, k)
                             \/ MealieAnswers(c) \/ FinishLoad(c)
                             \/ LoadFails(c) \/ Leave(c)
  BY <1>1, ReadTyped
<1>2. ASSUME NEW keys \in SUBSET Key, ChangedElsewhere(keys)
      PROVE  Typed'
  BY <1>2, ChangeTyped DEF ChangedElsewhere, history
<1>3. ASSUME NEW c \in Writer, NEW keys \in SUBSET Key, WriteAccepted(c, keys)
      PROVE  Typed'
  <2>1. plan' \in [Key -> Version] /\ \A k \in keys : plan[k] + 1 \in Version
    BY <1>3, ChangeTyped DEF WriteAccepted
  <2>2. 0 \in Version
    BY KitchenAssumption DEF Version
  <2>3. [k \in Key |-> IF k \in keys THEN plan[k] + 1 ELSE 0] \in [Key -> Version]
    BY <2>1, <2>2
  <2>4. writes' \in [Writer -> [Key -> Version]]
    BY <1>3, <2>3 DEF WriteAccepted
  <2> QED
    BY <1>3, <2>1, <2>4 DEF WriteAccepted, history
<1>4. ASSUME NEW c \in Writer, WriteFails(c)
      PROVE  Typed'
  <2>1. NoWrite \in [Key -> Version]
    BY KitchenAssumption DEF NoWrite, Version
  <2>2. writes' \in [Writer -> [Key -> Version]]
    BY <1>4, <2>1 DEF WriteFails
  <2> QED
    BY <1>4, <2>2 DEF WriteFails, history
<1>5. ASSUME NEW c \in Writer, WriteConfirmed(c)
      PROVE  Typed'
  <2>1. NoWrite \in [Key -> Version]
    BY KitchenAssumption DEF NoWrite, Version
  <2>2. writes' \in [Writer -> [Key -> Version]] /\ confirmed' \in [Key -> Version]
    BY <1>5, <2>1 DEF WriteConfirmed
  <2>3. \A d \in Reader :
          [reads[d] EXCEPT !.overlapped = @ \/ reads[d].pc = "loaded"] \in Read
    BY DEF Read
  <2>4. reads' \in [Reader -> Read]
    BY <1>5, <2>3 DEF WriteConfirmed
  <2> QED
    BY <1>5, <2>2, <2>4, ClearEmpties DEF WriteConfirmed, DropsOnly
<1>6. CASE Tick
  <2>1. now' \in Time
    BY <1>6, KitchenAssumption DEF Tick, Time
  <2>2. \A t \in 0..(now + 1) : t <= now => t \in 0..now
    BY DEF Time
  <2>3. asOf' \in [0..now' -> [Key -> Version]]
    BY <1>6, <2>2 DEF Tick
  <2> QED
    BY <1>6, <2>1, <2>3 DEF Tick
<1>7. CASE Restart
  <2>1. Unread \in Read
    BY KitchenAssumption DEF Unread, Read, Version, Time
  <2>2. NoWrite \in [Key -> Version]
    BY KitchenAssumption DEF NoWrite, Version
  <2> QED
    BY <1>7, <2>1, <2>2, ClearEmpties DEF Restart, DropsOnly
<1>8. CASE UNCHANGED vars
  BY <1>8 DEF vars, history
<1> QED
  BY <1>1, <1>2, <1>3, <1>4, <1>5, <1>6, <1>7, <1>8 DEF Next

-----------------------------------------------------------------------------
\* Every variable keeps its type, and the cache never holds more entries than it
\* has room for, whatever is loaded, stored and evicted at once.
THEOREM CacheTyped == Spec => []TypeOK
<1>1. Typed => TypeOK
  BY DEF Typed
<1> QED
  BY InitTyped, NextTyped, <1>1, PTL DEF Spec

-----------------------------------------------------------------------------
(* How old a view may be. *)

\* Mealie's versions only grow: each moment's are at least those before it.
PastGrows ==
  /\ \A s, t \in 0..now : s <= t => \A k \in Key : asOf[s][k] <= asOf[t][k]
  /\ \A t \in 0..now : \A k \in Key : asOf[t][k] <= plan[k]

\* An entry has all that Mealie had at the moment the entry is dated.
EntriesDated ==
  \A k \in DOMAIN cache :
    cache[k].storedAt <= now /\ asOf[cache[k].storedAt][k] <= cache[k].value

\* A read's answer has all that Mealie had when the read began; one that was
\* shown lacks no more than it may.
ReadDated(r) ==
  /\ r.at <= now
  /\ r.pc = "loaded" => asOf[r.at][r.key] <= r.value
  /\ r.pc = "shown" /\ ~ r.warned => ShowsAsOf(r, FreshFor)
  /\ r.pc = "shown" /\ r.warned => ShowsAsOf(r, StaleFor)

ReadsDated == \A c \in Reader : ReadDated(reads[c])

Dated == PastGrows /\ EntriesDated /\ ReadsDated

\* An entry that is not older than "span" at a moment has all that Mealie had
\* "span" before it: also when it was stored after that moment.
LEMMA YoungEntryShows ==
  ASSUME Typed, Dated, NEW k \in DOMAIN cache, NEW at \in Time, at <= now,
         NEW span \in Nat, ~ Expired(k, at, span)
  PROVE  cache[k].value >= asOf[IF at > span THEN at - span ELSE 0][k]
<1> DEFINE since == IF at > span THEN at - span ELSE 0
           stored == cache[k].storedAt
<1>1. k \in Key /\ cache[k] \in Entry /\ now \in Nat /\ at \in Nat
  BY KitchenAssumption DEF Typed, TypeOK, Time
<1>2. stored \in 0..now /\ cache[k].value \in Nat
  BY <1>1, KitchenAssumption DEF Dated, EntriesDated, Entry, Time, Version
<1>3. at - stored <= span
  BY <1>1, <1>2 DEF Expired
<1>4. since \in 0..now /\ since <= stored
  BY <1>1, <1>2, <1>3
<1>5. asOf[since][k] <= asOf[stored][k]
  BY <1>1, <1>2, <1>4 DEF Dated, PastGrows
<1>6. asOf[since] \in [Key -> Version] /\ asOf[stored] \in [Key -> Version]
  BY <1>2, <1>4 DEF Typed, TypeOK
<1>7. asOf[since][k] \in Nat /\ asOf[stored][k] \in Nat
  BY <1>1, <1>6, KitchenAssumption DEF Version
<1>8. asOf[stored][k] <= cache[k].value
  BY DEF Dated, EntriesDated
<1> QED
  BY <1>2, <1>5, <1>7, <1>8

\* A load that began at a moment has all that Mealie had some time before it.
LEMMA LoadShows ==
  ASSUME Typed, Dated, NEW c \in Reader, reads[c].pc = "loaded", NEW span \in Nat
  PROVE  ShowsAsOf(reads[c], span)
<1> DEFINE r == reads[c]
           since == IF r.at > span THEN r.at - span ELSE 0
<1>1. r.key \in Key /\ r.at \in Nat /\ r.value \in Nat /\ now \in Nat
  BY KitchenAssumption DEF Typed, TypeOK, Read, Time, Version
<1>2. r.at <= now /\ asOf[r.at][r.key] <= r.value
  BY DEF Dated, ReadsDated, ReadDated
<1>3. since \in 0..now /\ r.at \in 0..now /\ since <= r.at
  BY <1>1, <1>2
<1>4. asOf[since][r.key] <= asOf[r.at][r.key]
  BY <1>1, <1>3 DEF Dated, PastGrows
<1>5. asOf[since] \in [Key -> Version] /\ asOf[r.at] \in [Key -> Version]
  BY <1>3 DEF Typed, TypeOK
<1>6. asOf[since][r.key] \in Nat /\ asOf[r.at][r.key] \in Nat
  BY <1>1, <1>5, KitchenAssumption DEF Version
<1> QED
  BY <1>1, <1>2, <1>4, <1>6 DEF ShowsAsOf

LEMMA InitDated == Init => Dated
<1> SUFFICES ASSUME Init PROVE Dated
  OBVIOUS
<1>1. DOMAIN cache = {}
  BY DEF Init
<1>2. 0..now = {0} /\ now = 0
  BY DEF Init
<1>3. PastGrows
  BY <1>2 DEF Init, PastGrows
<1>4. ReadsDated
  BY <1>2 DEF Init, ReadsDated, ReadDated, Unread
<1> QED
  BY <1>1, <1>3, <1>4 DEF Dated, EntriesDated

\* A step that leaves the clock alone keeps what is known of the past, and of the
\* entries it does not store.
LEMMA SameMoment ==
  ASSUME Dated, UNCHANGED <<now, asOf>>
  PROVE  /\ UNCHANGED plan => PastGrows'
         /\ DropsOnly => EntriesDated'
<1>1. UNCHANGED plan => PastGrows'
  BY DEF Dated, PastGrows
<1>2. DropsOnly => EntriesDated'
  BY DEF Dated, EntriesDated, DropsOnly
<1> QED
  BY <1>1, <1>2

\* A read's step keeps every view and entry as recent as its date says.
LEMMA ReadStepDated ==
  ASSUME Typed, Dated, NEW c \in Reader,
         \/ \E k \in Key : BeginRead(c, k)
         \/ MealieAnswers(c) \/ FinishLoad(c) \/ LoadFails(c) \/ Leave(c)
  PROVE  Dated'
<1>0. /\ reads[c] \in Read /\ now \in Time /\ now \in Nat
      /\ UNCHANGED <<now, plan, asOf>>
      /\ \A d \in Reader \ {c} : reads'[d] = reads[d]
      /\ DOMAIN reads = Reader
  BY KitchenAssumption DEF Typed, TypeOK, Time, BeginRead, MealieAnswers,
     FinishLoad, LoadFails, Leave, history
<1>1. PastGrows' /\ \A d \in Reader \ {c} : ReadDated(reads[d])'
  <2>1. \A d \in Reader : ReadDated(reads[d])
    BY DEF Dated, ReadsDated
  <2>2. \A d \in Reader \ {c} : ReadDated(reads[d]) => ReadDated(reads[d])'
    BY <1>0 DEF ReadDated, ShowsAsOf
  <2> QED
    BY <1>0, <2>1, <2>2, SameMoment
<1>2. EntriesDated' /\ ReadDated(reads[c])' => Dated'
  BY <1>1 DEF Dated, ReadsDated
<1>3. CASE \E k \in Key : BeginRead(c, k)
  <2>1. PICK k \in Key : BeginRead(c, k)
    BY <1>3
  <2>2. DropsOnly
    BY <1>0, <2>1, GetDropsOnly DEF BeginRead
  <2>3. CASE Fresh(k, now)
    <3>1. /\ reads'[c].pc = "shown" /\ ~ reads'[c].warned
          /\ reads'[c].at = now /\ reads'[c].key = k
          /\ reads'[c].value = cache[k].value
      BY <1>0, <2>1, <2>3 DEF BeginRead
    <3>2. cache[k].value >= asOf[IF now > FreshFor THEN now - FreshFor ELSE 0][k]
      BY <1>0, <2>3, YoungEntryShows, KitchenAssumption DEF Fresh, Found
    <3>3. ReadDated(reads[c])'
      BY <1>0, <3>1, <3>2 DEF ReadDated, ShowsAsOf
    <3> QED
      BY <1>0, <1>2, <2>2, <3>3, SameMoment
  <2>4. CASE ~ Fresh(k, now)
    <3>1. reads'[c].pc = "loading" /\ reads'[c].at = now
      BY <1>0, <2>1, <2>4 DEF BeginRead
    <3>2. ReadDated(reads[c])'
      BY <1>0, <3>1 DEF ReadDated
    <3> QED
      BY <1>0, <1>2, <2>2, <3>2, SameMoment
  <2> QED
    BY <2>3, <2>4
<1>4. CASE MealieAnswers(c)
  <2> DEFINE r == reads[c]
  <2>1. /\ reads'[c].pc = "loaded" /\ reads'[c].at = r.at
        /\ reads'[c].key = r.key /\ reads'[c].value = plan[r.key]
    BY <1>0, <1>4 DEF MealieAnswers, Read
  <2>2. r.at <= now /\ r.at \in Nat /\ r.key \in Key
    BY <1>0, KitchenAssumption DEF Dated, ReadsDated, ReadDated, Read, Time
  <2>3. asOf[r.at][r.key] <= plan[r.key]
    BY <1>0, <2>2 DEF Dated, PastGrows
  <2>4. ReadDated(reads[c])'
    BY <1>0, <2>1, <2>2, <2>3 DEF ReadDated
  <2>5. EntriesDated'
    BY <1>0, <1>4 DEF MealieAnswers, Dated, EntriesDated
  <2> QED
    BY <1>2, <2>4, <2>5
<1>5. CASE FinishLoad(c)
  <2> DEFINE r == reads[c]
  <2>1. r.key \in Key /\ r.value \in Version /\ r.at \in Time
    BY <1>0 DEF Read
  <2>2. r.pc = "loaded" /\ Store(r.key, r.value, r.at)
    BY <1>5 DEF FinishLoad
  <2>3. Stores(r.key, r.value, r.at)
    BY <2>1, <2>2, StoreStores
  <2>4. r.at <= now /\ asOf[r.at][r.key] <= r.value
    BY <2>2 DEF Dated, ReadsDated, ReadDated
  <2>5. EntriesDated'
    <3>1. \A d \in DOMAIN cache' \ {r.key} : d \in DOMAIN cache /\ cache'[d] = cache[d]
      BY <2>3 DEF Stores
    <3>2. cache'[r.key].storedAt = r.at /\ cache'[r.key].value = r.value
      BY <2>3 DEF Stores
    <3> QED
      BY <1>0, <2>4, <3>1, <3>2 DEF Dated, EntriesDated
  <2>6. /\ reads'[c].pc = "shown" /\ reads'[c].at = r.at
        /\ reads'[c].key = r.key /\ reads'[c].value = r.value
    BY <1>0, <1>5 DEF FinishLoad, Read
  <2>7. ShowsAsOf(r, FreshFor) /\ ShowsAsOf(r, StaleFor)
    BY <2>2, LoadShows, KitchenAssumption
  <2>8. ReadDated(reads[c])'
    BY <1>0, <2>4, <2>6, <2>7 DEF ReadDated, ShowsAsOf
  <2> QED
    BY <1>2, <2>5, <2>8
<1>6. CASE LoadFails(c)
  <2> DEFINE r == reads[c]
             k == r.key
  <2>1. k \in Key /\ r.at \in Time /\ r.at <= now
    BY <1>0 DEF Read, Dated, ReadsDated, ReadDated
  <2>2. DropsOnly
    BY <1>6, <2>1, GetDropsOnly DEF LoadFails
  <2>3. CASE Found(k, r.at)
    <3>1. /\ reads'[c].pc = "shown" /\ reads'[c].warned
          /\ reads'[c].at = r.at /\ reads'[c].key = k
          /\ reads'[c].value = cache[k].value
      BY <1>0, <1>6, <2>3 DEF LoadFails, Read
    <3>2. cache[k].value >= asOf[IF r.at > StaleFor THEN r.at - StaleFor ELSE 0][k]
      BY <2>1, <2>3, YoungEntryShows, KitchenAssumption DEF Found
    <3>3. ReadDated(reads[c])'
      BY <1>0, <2>1, <3>1, <3>2 DEF ReadDated, ShowsAsOf
    <3> QED
      BY <1>0, <1>2, <2>2, <3>3, SameMoment
  <2>4. CASE ~ Found(k, r.at)
    <3>1. reads'[c] = Unread
      BY <1>0, <1>6, <2>4 DEF LoadFails
    <3>2. ReadDated(reads[c])'
      BY <1>0, <3>1 DEF ReadDated, Unread
    <3> QED
      BY <1>0, <1>2, <2>2, <3>2, SameMoment
  <2> QED
    BY <2>3, <2>4
<1>7. CASE Leave(c)
  <2>1. reads'[c] = Unread
    BY <1>0, <1>7 DEF Leave
  <2>2. ReadDated(reads[c])'
    BY <1>0, <2>1 DEF ReadDated, Unread
  <2>3. EntriesDated'
    BY <1>0, <1>7 DEF Leave, Dated, EntriesDated
  <2> QED
    BY <1>2, <2>2, <2>3
<1> QED
  BY <1>3, <1>4, <1>5, <1>6, <1>7

LEMMA NextDated == Typed /\ Dated /\ [Next]_vars => Dated'
<1> SUFFICES ASSUME Typed, Dated, [Next]_vars PROVE Dated'
  OBVIOUS
<1>0. now \in Nat
  BY KitchenAssumption DEF Typed, TypeOK, Time
<1>1. CASE \E c \in Reader : \/ \E k \in Key : BeginRead(c, k)
                             \/ MealieAnswers(c) \/ FinishLoad(c)
                             \/ LoadFails(c) \/ Leave(c)
  BY <1>1, ReadStepDated
<1>2. ASSUME NEW keys \in SUBSET Key, Change(keys),
             UNCHANGED <<now, cache, reads, asOf>>
      PROVE  Dated'
  <2>1. \A k \in Key : plan'[k] = IF k \in keys THEN plan[k] + 1 ELSE plan[k]
    BY <1>2, ChangeTyped
  <2>2. \A k \in Key : plan[k] \in Nat
    BY KitchenAssumption DEF Typed, TypeOK, Version
  <2>3. \A t \in 0..now : asOf[t] \in [Key -> Version]
    BY DEF Typed, TypeOK
  <2>4. \A t \in 0..now : \A k \in Key : asOf[t][k] \in Nat
    BY <2>3, KitchenAssumption DEF Version
  <2>5. \A t \in 0..now : \A k \in Key : asOf[t][k] <= plan[k]
    BY DEF Dated, PastGrows
  <2>6. \A t \in 0..now : \A k \in Key : asOf[t][k] <= plan'[k]
    BY <2>1, <2>2, <2>4, <2>5
  <2>7. PastGrows'
    BY <1>2, <2>6 DEF Dated, PastGrows
  <2> QED
    BY <1>2, <2>7 DEF Dated, EntriesDated, ReadsDated, ReadDated, ShowsAsOf
<1>3. ASSUME NEW c \in Writer, WriteFails(c)
      PROVE  Dated'
  BY <1>3 DEF WriteFails, history, Dated, PastGrows, EntriesDated, ReadsDated,
     ReadDated, ShowsAsOf
<1>4. ASSUME NEW c \in Writer, WriteConfirmed(c)
      PROVE  Dated'
  <2>1. DropsOnly /\ UNCHANGED <<now, plan, asOf>>
    BY <1>4, ClearEmpties DEF WriteConfirmed
  <2>2. \A d \in Reader :
          /\ reads'[d].pc = reads[d].pc /\ reads'[d].at = reads[d].at
          /\ reads'[d].key = reads[d].key /\ reads'[d].value = reads[d].value
          /\ reads'[d].warned = reads[d].warned
    BY <1>4 DEF WriteConfirmed, Typed, TypeOK, Read
  <2>3. ReadsDated'
    BY <2>1, <2>2 DEF Dated, ReadsDated, ReadDated, ShowsAsOf
  <2> QED
    BY <2>1, <2>3, SameMoment DEF Dated
<1>5. CASE Tick
  <2>1. now' = now + 1 /\ UNCHANGED <<plan, cache, reads>>
    BY <1>5 DEF Tick
  <2>2. \A t \in 0..now : t \in 0..(now + 1) /\ t <= now
    BY <1>0
  <2>3. \A t \in 0..now : asOf'[t] = asOf[t]
    BY <1>5, <2>2 DEF Tick
  <2>4. now + 1 \in 0..(now + 1) /\ ~ (now + 1 <= now)
    BY <1>0
  <2>5. asOf'[now + 1] = plan
    BY <1>5, <2>4 DEF Tick
  <2>6. \A t \in 0..(now + 1) : t \in 0..now \/ t = now + 1
    BY <1>0
  <2>7. \A k \in Key : plan[k] <= plan[k]
    BY KitchenAssumption DEF Typed, TypeOK, Version
  <2>8. PastGrows'
    <3>1. \A t \in 0..(now + 1) : \A k \in Key : asOf'[t][k] <= plan[k]
      BY <2>3, <2>5, <2>6, <2>7 DEF Dated, PastGrows
    <3>2. ASSUME NEW s \in 0..(now + 1), NEW t \in 0..(now + 1), s <= t,
                 NEW k \in Key
          PROVE  asOf'[s][k] <= asOf'[t][k]
      <4>1. CASE t = now + 1
        BY <2>5, <3>1, <4>1
      <4>2. CASE t \in 0..now
        <5>1. s \in 0..now
          BY <1>0, <3>2, <4>2
        <5> QED
          BY <2>3, <3>2, <4>2, <5>1 DEF Dated, PastGrows
      <4> QED
        BY <2>6, <4>1, <4>2
    <3> QED
      BY <2>1, <3>1, <3>2 DEF PastGrows
  <2>9. EntriesDated'
    <3>1. ASSUME NEW k \in DOMAIN cache
          PROVE  cache[k].storedAt \in 0..now /\ asOf[cache[k].storedAt][k] <= cache[k].value
      <4>1. cache[k] \in Entry
        BY DEF Typed, TypeOK
      <4>2. cache[k].storedAt \in Nat
        BY <4>1, KitchenAssumption DEF Entry, Time
      <4> QED
        BY <1>0, <4>2 DEF Dated, EntriesDated
    <3>2. \A t \in 0..now : t <= now + 1
      BY <1>0
    <3> QED
      BY <2>1, <2>3, <3>1, <3>2 DEF EntriesDated
  <2>10. ReadsDated'
    <3>1. ASSUME NEW c \in Reader
          PROVE  ReadDated(reads[c])'
      <4> DEFINE r == reads[c]
      <4>1. r \in Read /\ ReadDated(r)
        BY DEF Typed, TypeOK, Dated, ReadsDated
      <4>2. r.at \in Nat /\ r.at <= now
        BY <4>1, KitchenAssumption DEF Read, Time, ReadDated
      <4>3. r.at \in 0..now /\ r.at <= now + 1
        BY <1>0, <4>2
      <4>4. /\ (IF r.at > FreshFor THEN r.at - FreshFor ELSE 0) \in 0..now
            /\ (IF r.at > StaleFor THEN r.at - StaleFor ELSE 0) \in 0..now
        BY <1>0, <4>2, KitchenAssumption
      <4>5. /\ ShowsAsOf(r, FreshFor) => ShowsAsOf(r, FreshFor)'
            /\ ShowsAsOf(r, StaleFor) => ShowsAsOf(r, StaleFor)'
        BY <2>1, <2>3, <4>4 DEF ShowsAsOf
      <4>6. asOf'[r.at] = asOf[r.at]
        BY <2>3, <4>3
      <4> QED
        BY <2>1, <4>1, <4>3, <4>5, <4>6 DEF ReadDated
    <3> QED
      BY <3>1 DEF ReadsDated
  <2> QED
    BY <2>8, <2>9, <2>10 DEF Dated
<1>6. CASE Restart
  <2>1. DropsOnly /\ UNCHANGED <<now, plan, asOf>>
    BY <1>6, ClearEmpties DEF Restart
  <2>2. ReadsDated'
    BY <1>0, <1>6, <2>1 DEF Restart, ReadsDated, ReadDated, Unread
  <2> QED
    BY <2>1, <2>2, SameMoment DEF Dated
<1>7. CASE UNCHANGED vars
  BY <1>7 DEF vars, history, Dated, PastGrows, EntriesDated, ReadsDated, ReadDated,
     ShowsAsOf
<1>8. ASSUME NEW keys \in SUBSET Key, ChangedElsewhere(keys)
      PROVE  Dated'
  BY <1>2, <1>8 DEF ChangedElsewhere, history
<1>9. ASSUME NEW c \in Writer, NEW keys \in SUBSET Key, WriteAccepted(c, keys)
      PROVE  Dated'
  BY <1>2, <1>9 DEF WriteAccepted, history
<1> QED
  BY <1>1, <1>3, <1>4, <1>5, <1>6, <1>7, <1>8, <1>9 DEF Next

-----------------------------------------------------------------------------
\* A view without a warning lacks at most what changed within FreshFor before its
\* request: loads of any duration, overtaking each other and storing in any
\* order, date their entries by their own beginning.
THEOREM ViewsAreFresh == Spec => []FreshEnough
<1>1. Dated => FreshEnough
  BY DEF Dated, ReadsDated, ReadDated, FreshEnough
<1> QED
  BY InitTyped, NextTyped, InitDated, NextDated, <1>1, PTL DEF Spec

\* A view with a warning lacks at most what changed within StaleFor: however long
\* the failing load took, it looks the cache up as of its own beginning.
THEOREM WarnedViewsAreBounded == Spec => []StaleEnough
<1>1. Dated => StaleEnough
  BY DEF Dated, ReadsDated, ReadDated, StaleEnough
<1> QED
  BY InitTyped, NextTyped, InitDated, NextDated, <1>1, PTL DEF Spec

-----------------------------------------------------------------------------
(* What was reported as written. *)

\* What a read owes is what was confirmed when it began; an answer that no Clear
\* has overtaken has everything confirmed since, too.
ReadSettled(r) ==
  /\ r.owed <= confirmed[r.key]
  /\ r.pc = "loaded" => r.owed <= r.value
  /\ r.pc = "loaded" /\ ~ r.overlapped => confirmed[r.key] <= r.value
  /\ r.pc = "shown" /\ ~ r.warned /\ ~ r.overlapped => r.owed <= r.value

ReadsSettled == \A c \in Reader : ReadSettled(reads[c])

\* Mealie has what was confirmed, and what a writer waits to confirm.
WritesKnown ==
  /\ \A k \in Key : confirmed[k] <= plan[k]
  /\ \A c \in Writer : \A k \in Key : writes[c][k] <= plan[k]

\* An entry that was not overtaken has everything confirmed.
EntriesSettled ==
  \A k \in DOMAIN cache \ overtaken : confirmed[k] <= cache[k].value

Settled == WritesKnown /\ EntriesSettled /\ ReadsSettled

LEMMA InitSettled == Init => Settled
<1> SUFFICES ASSUME Init PROVE Settled
  OBVIOUS
<1>1. DOMAIN cache = {}
  BY DEF Init
<1>2. WritesKnown
  BY DEF Init, WritesKnown, NoWrite
<1>3. ReadsSettled
  BY KitchenAssumption DEF Init, ReadsSettled, ReadSettled, Unread
<1> QED
  BY <1>1, <1>2, <1>3 DEF Settled, EntriesSettled

\* A read that is left owes nothing.
LEMMA UnreadSettled == Typed => ReadSettled(Unread)
<1> SUFFICES ASSUME Typed PROVE ReadSettled(Unread)
  OBVIOUS
<1>1. Unread.key \in Key
  BY KitchenAssumption DEF Unread
<1>2. confirmed[Unread.key] \in Nat
  BY <1>1, KitchenAssumption DEF Typed, TypeOK, Version
<1> QED
  BY <1>2 DEF ReadSettled, Unread

LEMMA ReadStepSettled ==
  ASSUME Typed, Settled, NEW c \in Reader,
         \/ \E k \in Key : BeginRead(c, k)
         \/ MealieAnswers(c) \/ FinishLoad(c) \/ LoadFails(c) \/ Leave(c)
  PROVE  Settled'
<1>0. /\ reads[c] \in Read /\ now \in Time
      /\ UNCHANGED <<plan, writes, confirmed>>
      /\ \A d \in Reader \ {c} : reads'[d] = reads[d]
      /\ DOMAIN reads = Reader
  BY DEF Typed, TypeOK, BeginRead, MealieAnswers, FinishLoad, LoadFails, Leave, history
<1>1. WritesKnown' /\ \A d \in Reader \ {c} : ReadSettled(reads[d])'
  <2>1. \A d \in Reader : ReadSettled(reads[d])
    BY DEF Settled, ReadsSettled
  <2>2. \A d \in Reader \ {c} : ReadSettled(reads[d]) => ReadSettled(reads[d])'
    BY <1>0 DEF ReadSettled
  <2> QED
    BY <1>0, <2>1, <2>2 DEF Settled, WritesKnown
<1>2. EntriesSettled' /\ ReadSettled(reads[c])' => Settled'
  BY <1>1 DEF Settled, ReadsSettled
<1>3. DropsOnly /\ UNCHANGED overtaken => EntriesSettled'
  BY <1>0 DEF Settled, EntriesSettled, DropsOnly
<1>4. ReadSettled(Unread)'
  BY <1>0, UnreadSettled DEF ReadSettled
<1>5. \A k \in Key : confirmed[k] \in Nat /\ plan[k] \in Nat /\ confirmed[k] <= plan[k]
  BY KitchenAssumption DEF Typed, TypeOK, Version, Settled, WritesKnown
<1>6. CASE \E k \in Key : BeginRead(c, k)
  <2>1. PICK k \in Key : BeginRead(c, k)
    BY <1>6
  <2>2. DropsOnly /\ UNCHANGED overtaken
    BY <1>0, <2>1, GetDropsOnly DEF BeginRead, history
  <2>3. /\ reads'[c].key = k /\ reads'[c].owed = confirmed[k]
        /\ reads'[c].pc = IF Fresh(k, now) THEN "shown" ELSE "loading"
        /\ reads'[c].value = IF Fresh(k, now) THEN cache[k].value ELSE 0
        /\ reads'[c].overlapped = (Fresh(k, now) /\ k \in overtaken)
    BY <1>0, <2>1 DEF BeginRead
  <2>4. CASE Fresh(k, now)
    <3>1. k \in DOMAIN cache
      BY <2>4 DEF Fresh, Found
    <3>2. k \notin overtaken => confirmed[k] <= cache[k].value
      BY <3>1 DEF Settled, EntriesSettled
    <3>3. /\ reads'[c].pc = "shown" /\ reads'[c].value = cache[k].value
          /\ ~ reads'[c].overlapped => k \notin overtaken
      BY <2>3, <2>4
    <3>4. confirmed'[k] = confirmed[k] /\ confirmed[k] <= confirmed[k]
      BY <1>0, <1>5
    <3>5. ReadSettled(reads[c])'
      BY <2>3, <3>2, <3>3, <3>4 DEF ReadSettled
    <3> QED
      BY <1>2, <1>3, <2>2, <3>5
  <2>5. CASE ~ Fresh(k, now)
    <3>1. ReadSettled(reads[c])'
      BY <1>0, <1>5, <2>3, <2>5 DEF ReadSettled
    <3> QED
      BY <1>2, <1>3, <2>2, <3>1
  <2> QED
    BY <2>4, <2>5
<1>7. CASE MealieAnswers(c)
  <2> DEFINE r == reads[c]
  <2>1. /\ reads'[c].pc = "loaded" /\ reads'[c].owed = r.owed
        /\ reads'[c].key = r.key /\ reads'[c].value = plan[r.key]
    BY <1>0, <1>7 DEF MealieAnswers, Read
  <2>2. r.key \in Key /\ r.owed \in Nat /\ r.owed <= confirmed[r.key]
    BY <1>0, KitchenAssumption DEF Read, Version, Settled, ReadsSettled, ReadSettled
  <2>3. ReadSettled(reads[c])'
    BY <1>0, <1>5, <2>1, <2>2 DEF ReadSettled
  <2>4. EntriesSettled'
    BY <1>0, <1>7 DEF MealieAnswers, history, Settled, EntriesSettled
  <2> QED
    BY <1>2, <2>3, <2>4
<1>8. CASE FinishLoad(c)
  <2> DEFINE r == reads[c]
  <2>1. r.key \in Key /\ r.value \in Version /\ r.at \in Time
    BY <1>0 DEF Read
  <2>2. r.pc = "loaded" /\ Store(r.key, r.value, r.at)
    BY <1>8 DEF FinishLoad
  <2>3. Stores(r.key, r.value, r.at)
    BY <2>1, <2>2, StoreStores
  <2>4. /\ r.owed <= confirmed[r.key] /\ r.owed <= r.value
        /\ ~ r.overlapped => confirmed[r.key] <= r.value
    BY <2>2 DEF Settled, ReadsSettled, ReadSettled
  <2>5. EntriesSettled'
    <3>1. \A d \in DOMAIN cache' \ {r.key} : d \in DOMAIN cache /\ cache'[d] = cache[d]
      BY <2>3 DEF Stores
    <3>2. cache'[r.key].value = r.value
      BY <2>3 DEF Stores
    <3>3. overtaken' = IF r.overlapped THEN overtaken \cup {r.key}
                                      ELSE overtaken \ {r.key}
      BY <1>8 DEF FinishLoad
    <3> QED
      BY <1>0, <2>4, <3>1, <3>2, <3>3 DEF Settled, EntriesSettled
  <2>6. /\ reads'[c].pc = "shown" /\ reads'[c].owed = r.owed
        /\ reads'[c].key = r.key /\ reads'[c].value = r.value
    BY <1>0, <1>8 DEF FinishLoad, Read
  <2>7. ReadSettled(reads[c])'
    BY <1>0, <2>4, <2>6 DEF ReadSettled
  <2> QED
    BY <1>2, <2>5, <2>7
<1>9. CASE LoadFails(c)
  <2> DEFINE r == reads[c]
  <2>1. r.key \in Key /\ r.at \in Time
    BY <1>0 DEF Read
  <2>2. DropsOnly /\ UNCHANGED overtaken
    BY <1>9, <2>1, GetDropsOnly DEF LoadFails, history
  <2>3. r.owed <= confirmed[r.key]
    BY DEF Settled, ReadsSettled, ReadSettled
  <2>4. CASE Found(r.key, r.at)
    <3>1. /\ reads'[c].pc = "shown" /\ reads'[c].warned
          /\ reads'[c].owed = r.owed /\ reads'[c].key = r.key
      BY <1>0, <1>9, <2>4 DEF LoadFails, Read
    <3>2. ReadSettled(reads[c])'
      BY <1>0, <2>3, <3>1 DEF ReadSettled
    <3> QED
      BY <1>2, <1>3, <2>2, <3>2
  <2>5. CASE ~ Found(r.key, r.at)
    <3>1. reads'[c] = Unread
      BY <1>0, <1>9, <2>5 DEF LoadFails
    <3>2. ReadSettled(reads[c])'
      BY <1>4, <3>1 DEF ReadSettled
    <3> QED
      BY <1>2, <1>3, <2>2, <3>2
  <2> QED
    BY <2>4, <2>5
<1>10. CASE Leave(c)
  <2>1. reads'[c] = Unread
    BY <1>0, <1>10 DEF Leave
  <2>2. ReadSettled(reads[c])'
    BY <1>4, <2>1 DEF ReadSettled
  <2>3. EntriesSettled'
    BY <1>0, <1>10 DEF Leave, history, Settled, EntriesSettled
  <2> QED
    BY <1>2, <2>2, <2>3
<1> QED
  BY <1>6, <1>7, <1>8, <1>9, <1>10

LEMMA NextSettled == Typed /\ Settled /\ [Next]_vars => Settled'
<1> SUFFICES ASSUME Typed, Settled, [Next]_vars PROVE Settled'
  OBVIOUS
<1>0. /\ \A k \in Key : plan[k] \in Nat /\ confirmed[k] \in Nat
      /\ \A c \in Writer : \A k \in Key : writes[c][k] \in Nat
      /\ DOMAIN writes = Writer
  BY KitchenAssumption DEF Typed, TypeOK, Version
<1>1. CASE \E c \in Reader : \/ \E k \in Key : BeginRead(c, k)
                             \/ MealieAnswers(c) \/ FinishLoad(c)
                             \/ LoadFails(c) \/ Leave(c)
  BY <1>1, ReadStepSettled
<1>2. ASSUME NEW keys \in SUBSET Key, ChangedElsewhere(keys)
      PROVE  Settled'
  <2>1. \A k \in Key : plan[k] <= plan'[k] /\ plan'[k] \in Nat
    BY <1>0, <1>2, ChangeTyped DEF ChangedElsewhere
  <2>2. UNCHANGED <<cache, reads, writes, confirmed, overtaken>>
    BY <1>2 DEF ChangedElsewhere, history
  <2>3. WritesKnown'
    BY <1>0, <2>1, <2>2 DEF Settled, WritesKnown
  <2> QED
    BY <2>2, <2>3 DEF Settled, EntriesSettled, ReadsSettled, ReadSettled
<1>3. ASSUME NEW c \in Writer, NEW keys \in SUBSET Key, WriteAccepted(c, keys)
      PROVE  Settled'
  <2>1. /\ \A k \in Key : plan'[k] = IF k \in keys THEN plan[k] + 1 ELSE plan[k]
        /\ \A k \in Key : plan[k] <= plan'[k] /\ plan'[k] \in Nat
    BY <1>0, <1>3, ChangeTyped DEF WriteAccepted
  <2>2. /\ UNCHANGED <<cache, reads, confirmed, overtaken>>
        /\ writes' = [writes EXCEPT ![c] =
                        [k \in Key |-> IF k \in keys THEN plan[k] + 1 ELSE 0]]
    BY <1>3 DEF WriteAccepted, history
  <2>3. \A k \in Key : writes'[c][k] <= plan'[k]
    BY <1>0, <2>1, <2>2
  <2>4. \A d \in Writer \ {c} : writes'[d] = writes[d]
    BY <1>0, <2>2
  <2>5. WritesKnown'
    BY <1>0, <2>1, <2>2, <2>3, <2>4 DEF Settled, WritesKnown
  <2> QED
    BY <2>2, <2>5 DEF Settled, EntriesSettled, ReadsSettled, ReadSettled
<1>4. ASSUME NEW c \in Writer, WriteFails(c)
      PROVE  Settled'
  <2>1. \A d \in Writer : \A k \in Key : writes'[d][k] = writes[d][k] \/ writes'[d][k] = 0
    BY <1>0, <1>4 DEF WriteFails, NoWrite
  <2>2. UNCHANGED <<plan, cache, reads, confirmed, overtaken>>
    BY <1>4 DEF WriteFails, history
  <2>3. WritesKnown'
    BY <1>0, <2>1, <2>2 DEF Settled, WritesKnown
  <2> QED
    BY <2>2, <2>3 DEF Settled, EntriesSettled, ReadsSettled, ReadSettled
<1>5. ASSUME NEW c \in Writer, WriteConfirmed(c)
      PROVE  Settled'
  <2>1. /\ DOMAIN cache' = {} /\ UNCHANGED plan
        /\ \A d \in Writer : \A k \in Key : writes'[d][k] = writes[d][k] \/ writes'[d][k] = 0
    BY <1>0, <1>5, ClearEmpties DEF WriteConfirmed, NoWrite
  <2>2. \A k \in Key : confirmed'[k] = IF writes[c][k] > confirmed[k]
                                       THEN writes[c][k] ELSE confirmed[k]
    BY <1>5 DEF WriteConfirmed
  <2>3. \A k \in Key : confirmed[k] <= confirmed'[k] /\ confirmed'[k] \in Nat
    BY <1>0, <2>2
  <2>4. WritesKnown'
    BY <1>0, <2>1, <2>2 DEF Settled, WritesKnown
  <2>5. ASSUME NEW d \in Reader
        PROVE  ReadSettled(reads[d])'
    <3>1. reads[d] \in Read /\ ReadSettled(reads[d])
      BY DEF Typed, TypeOK, Settled, ReadsSettled
    <3>2. /\ reads'[d].pc = reads[d].pc /\ reads'[d].key = reads[d].key
          /\ reads'[d].value = reads[d].value /\ reads'[d].owed = reads[d].owed
          /\ reads'[d].warned = reads[d].warned
          /\ reads'[d].overlapped = (reads[d].overlapped \/ reads[d].pc = "loaded")
      BY <1>5, <3>1 DEF WriteConfirmed, Read
    <3>3. reads[d].key \in Key /\ reads[d].owed \in Nat
      BY <3>1, KitchenAssumption DEF Read, Version
    <3>4. reads[d].owed <= confirmed'[reads[d].key]
      BY <1>0, <2>3, <3>1, <3>3 DEF ReadSettled
    <3> QED
      BY <3>1, <3>2, <3>4 DEF ReadSettled
  <2> QED
    BY <2>1, <2>4, <2>5 DEF Settled, EntriesSettled, ReadsSettled
<1>6. CASE Tick
  BY <1>6 DEF Tick, Settled, WritesKnown, EntriesSettled, ReadsSettled, ReadSettled
<1>7. CASE Restart
  <2>1. DOMAIN cache' = {} /\ UNCHANGED <<plan, confirmed>>
    BY <1>7, ClearEmpties DEF Restart
  <2>2. WritesKnown'
    BY <1>0, <1>7, <2>1 DEF Restart, NoWrite, Settled, WritesKnown
  <2>3. \A c \in Reader : ReadSettled(reads[c])'
    BY <1>7, <2>1, UnreadSettled DEF Restart, ReadSettled
  <2> QED
    BY <2>1, <2>2, <2>3 DEF Settled, EntriesSettled, ReadsSettled
<1>8. CASE UNCHANGED vars
  BY <1>8 DEF vars, history, Settled, WritesKnown, EntriesSettled, ReadsSettled,
     ReadSettled
<1> QED
  BY <1>1, <1>2, <1>3, <1>4, <1>5, <1>6, <1>7, <1>8 DEF Next

-----------------------------------------------------------------------------
\* A view without a warning shows every write reported before its request, unless
\* its entry was stored by a load that a Clear overtook: that race is the only
\* way a reported write can be missing.
THEOREM ReportedWritesShow == Spec => []ConfirmedIsShown
<1>1. Typed /\ Settled => ConfirmedIsShown
  <2> SUFFICES ASSUME Typed, Settled, NEW c \in Reader,
                      reads[c].pc = "shown", ~ reads[c].warned, ~ reads[c].overlapped
               PROVE  reads[c].value >= reads[c].owed
    BY DEF ConfirmedIsShown
  <2>1. reads[c].value \in Nat /\ reads[c].owed \in Nat
    BY KitchenAssumption DEF Typed, TypeOK, Read, Version
  <2>2. reads[c].owed <= reads[c].value
    BY DEF Settled, ReadsSettled, ReadSettled
  <2> QED
    BY <2>1, <2>2
<1> QED
  BY InitTyped, NextTyped, InitSettled, NextSettled, <1>1, PTL DEF Spec
=============================================================================
