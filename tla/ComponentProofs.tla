---------------------------- MODULE ComponentProofs ----------------------------
(***************************************************************************)
(* Three components by themselves.  The relation cache is a map, for all   *)
(* sets of relation ids and values; the task queue is shut down in order,  *)
(* for any number of snapshot workers and tasks; the sink follows the      *)
(* events and what it stores is described by the schemas sent along, for   *)
(* any sink, filters, tables, number of events and retries.                *)
(***************************************************************************)
EXTENDS RelationCache, TaskManager, Emission, SequenceTheorems, TLAPS

-------------------------------------------------------------------------------
\* The relation cache

(***************************************************************************)
(* The new slice has room for every id between the bounds, and its length  *)
(* is not cut off (relationcache.go:84).                                   *)
(***************************************************************************)
LEMMA SizeFits ==
  ASSUME NEW lower \in Oids, NEW upper \in Oids, lower <= upper
  PROVE  /\ NewCacheSize(lower, upper) \in 0 .. MaxUint
         /\ upper - lower < NewCacheSize(lower, upper)
<1> DEFINE n == upper - lower + 1
           s == (3 * n) \div 2
<1>1. lower \in Nat /\ upper \in Nat /\ MaxUint \in Nat
  BY OidAssumption
<1>2. 3 * n <= 2 * MaxUint /\ n \in Nat /\ n >= 1
  BY <1>1, OidAssumption
<1>3. s \in Nat /\ 2 * s <= 3 * n /\ 3 * n <= 2 * s + 1
  BY <1>1, <1>2
<1> HIDE DEF s
<1>4. s <= MaxUint /\ n <= s
  BY <1>1, <1>2, <1>3
<1>5. s % (MaxUint + 1) = s
  BY <1>1, <1>3, <1>4
<1> QED
  BY <1>1, <1>4, <1>5, <1>3 DEF NewCacheSize, s

(***************************************************************************)
(* The bounds after Set.                                                   *)
(***************************************************************************)
LEMMA NewBounds ==
  ASSUME CacheInv, NEW oid \in Oids
  PROVE  /\ NewLower(oid) \in Oids /\ NewUpper(oid) \in Oids
         /\ NewLower(oid) <= oid /\ oid <= NewUpper(oid)
         /\ lowerBound # 0 => NewLower(oid) <= lowerBound
         /\ upperBound <= NewUpper(oid)
BY OidAssumption DEF CacheInv, CacheTypeOK, NewLower, NewUpper

(***************************************************************************)
(* What Set makes of the slice: the value at the place of the id, and      *)
(* everywhere else what was stored there before, moved by Diff.            *)
(***************************************************************************)
LEMMA SetSlice ==
  ASSUME CacheInv, NEW oid \in Oids, NEW value \in Values, Set(oid, value)
  PROVE  /\ size' \in 0 .. MaxUint
         /\ upperBound' - lowerBound' < size'
         /\ cache' \in [0 .. size' - 1 -> Values \cup {Missing}]
         /\ cache'[oid - lowerBound'] = value
         /\ \A i \in 0 .. size' - 1 :
              i # oid - lowerBound' =>
                cache'[i] = IF i >= Diff(lowerBound') /\ i - Diff(lowerBound') < size
                              THEN cache[i - Diff(lowerBound')] ELSE Missing
<1> DEFINE L == NewLower(oid)
           U == NewUpper(oid)
           D == Diff(L)
<1>1. L \in Oids /\ U \in Oids /\ L <= oid /\ oid <= U
  BY NewBounds, Zenon
<1>2. lowerBound' = L /\ upperBound' = U
  BY Zenon DEF Set
<1>3. L \in Nat /\ U \in Nat /\ oid \in Nat /\ MaxUint \in Nat /\ L <= U
  <2> HIDE DEF L, U, D
  <2>1. \A o \in Oids : o \in Nat
    BY OidAssumption
  <2> QED
    BY <1>1, <2>1, OidAssumption
<1>4. CacheTypeOK /\ lowerBound \in Nat /\ upperBound \in Nat /\ size \in Nat /\ size <= MaxUint
  BY OidAssumption DEF CacheInv, CacheTypeOK
<1>5. D \in Nat
  BY <1>3, <1>4 DEF Diff
<1>6. CASE NeedsResizing(oid)
  <2> DEFINE n == NewCacheSize(L, U)
  <2>1. n \in 0 .. MaxUint /\ U - L < n
    BY <1>1, <1>3, SizeFits, Zenon
  <2>2. size' = n /\ cache' = [Moved(n, D) EXCEPT ![oid - L] = value]
    BY <1>6, Zenon DEF Set, Resized, location
  <2> HIDE DEF n, D, L, U
  <2>3. Moved(n, D) \in [0 .. n - 1 -> Values \cup {Missing}]
    <3> SUFFICES ASSUME NEW i \in 0 .. n - 1, i >= D, i - D < size
                 PROVE  cache[i - D] \in Values \cup {Missing}
      BY Zenon DEF Moved
    <3>1. i - D \in 0 .. size - 1
      BY <1>4, <1>5, <2>1
    <3> QED
      BY <3>1, <1>4, Zenon DEF CacheTypeOK
  <2>4. oid - L \in 0 .. n - 1
    BY <1>1, <1>3, <2>1
  <2>5. cache' \in [0 .. n - 1 -> Values \cup {Missing}] /\ cache'[oid - L] = value
    BY <2>2, <2>3, <2>4, Zenon
  <2>6. ASSUME NEW i \in 0 .. n - 1, i # oid - L
        PROVE  cache'[i] = IF i >= D /\ i - D < size THEN cache[i - D] ELSE Missing
    <3>1. cache'[i] = Moved(n, D)[i]
      BY <2>2, <2>3, <2>6, Zenon
    <3> QED
      BY <3>1, <2>6, Zenon DEF Moved
  <2>7. size' = n /\ lowerBound' = L /\ upperBound' = U /\ Diff(lowerBound') = D
    BY <1>2, <2>2, Zenon DEF D, L, U
  <2> QED
    BY <2>1, <2>5, <2>6, <2>7, Zenon
<1>7. CASE ~NeedsResizing(oid)
  <2>1. L = lowerBound /\ U = upperBound /\ lowerBound # 0 /\ D = 0
    BY <1>7, <1>3, <1>4 DEF NeedsResizing, NewLower, NewUpper, Diff
  <2>2. size' = size /\ cache' = [cache EXCEPT ![oid - L] = value]
    BY <1>7, Zenon DEF Set, Resized, location
  <2>3. upperBound - lowerBound < size
    BY <2>1, Zenon DEF CacheInv
  <2>4. Diff(lowerBound') = 0 /\ lowerBound' = lowerBound /\ upperBound' = upperBound
    BY <1>2, <2>1, Zenon
  <2> HIDE DEF D, L, U
  <2>5. oid - L \in 0 .. size - 1
    BY <1>1, <1>3, <1>4, <2>1, <2>3
  <2>6. cache \in [0 .. size - 1 -> Values \cup {Missing}]
    BY <1>4, Zenon DEF CacheTypeOK
  <2>7. cache' \in [0 .. size - 1 -> Values \cup {Missing}] /\ cache'[oid - L] = value
    BY <2>2, <2>5, <2>6, Zenon
  <2>8. ASSUME NEW i \in 0 .. size - 1, i # oid - L
        PROVE  cache'[i] = IF i >= 0 /\ i - 0 < size THEN cache[i - 0] ELSE Missing
    <3>1. cache'[i] = cache[i]
      BY <2>2, <2>6, <2>8, Zenon
    <3> QED
      BY <3>1, <1>4
  <2>9. size' \in 0 .. MaxUint
    BY <1>3, <1>4, <2>2
  <2> QED
    BY <2>1, <2>2, <2>3, <2>4, <2>7, <2>8, <2>9, Zenon
<1> QED
  BY <1>6, <1>7, Zenon

(***************************************************************************)
(* Set keeps the invariant.                                                *)
(***************************************************************************)
LEMMA SetKeeps ==
  ASSUME CacheInv, NEW oid \in Oids, NEW value \in Values, Set(oid, value)
  PROVE  CacheInv'
<1> DEFINE l == lowerBound'
           u == upperBound'
           n == size'
           c == cache'
           d == Diff(l)
<1>1. /\ l \in Oids /\ u \in Oids /\ l <= oid /\ oid <= u
      /\ lowerBound # 0 => l <= lowerBound
      /\ upperBound <= u
  BY NewBounds, Zenon DEF Set
<1>2. /\ n \in 0 .. MaxUint /\ u - l < n
      /\ c \in [0 .. n - 1 -> Values \cup {Missing}]
      /\ c[oid - l] = value
      /\ \A i \in 0 .. n - 1 : i # oid - l =>
           c[i] = IF i >= d /\ i - d < size THEN cache[i - d] ELSE Missing
  BY SetSlice, Zenon
<1> HIDE DEF l, u, n, c
<1>3. /\ lowerBound \in Nat /\ upperBound \in Nat /\ size \in Nat /\ MaxUint \in Nat
      /\ l \in 1 .. MaxUint /\ u \in 1 .. MaxUint /\ oid \in 1 .. MaxUint
  BY <1>1, OidAssumption DEF CacheInv, CacheTypeOK
<1>4. d \in Nat /\ (lowerBound # 0 => d = lowerBound - l) /\ n \in Nat
  BY <1>1, <1>2, <1>3 DEF Diff
<1> HIDE DEF d
<1>5. CacheTypeOK'
  <2>1. l \in 0 .. MaxUint /\ u \in 0 .. MaxUint
    BY <1>3
  <2> QED
    BY <1>2, <2>1, Zenon DEF CacheTypeOK, l, u, n, c
<1>6. ASSUME NEW i \in 0 .. n - 1, u - l < i
      PROVE  c[i] = Missing
  <2>1. i # oid - l
    BY <1>1, <1>3, <1>4, <1>6
  <2>2. c[i] = IF i >= d /\ i - d < size THEN cache[i - d] ELSE Missing
    BY <1>2, <2>1, Zenon
  <2>3. CASE lowerBound = 0
    <3>1. size = 0
      BY <2>3, Zenon DEF CacheInv
    <3> QED
      BY <2>2, <3>1, <1>4
  <2>4. CASE lowerBound # 0 /\ i >= d /\ i - d < size
    <3>1. i - d \in 0 .. size - 1
      BY <2>4, <1>3, <1>4
    <3>2. upperBound - lowerBound < i - d
      BY <1>1, <1>3, <1>4, <1>6, <2>4
    <3>3. cache[i - d] = Missing
      BY <3>1, <3>2, Zenon DEF CacheInv
    <3> QED
      BY <2>2, <2>4, <3>3, Zenon
  <2>5. CASE ~(i >= d /\ i - d < size)
    BY <2>2, <2>5, Zenon
  <2> QED
    BY <2>3, <2>4, <2>5, Zenon
<1>7. l # 0 /\ l <= u
  BY <1>1, <1>3
<1> QED
  BY <1>1, <1>2, <1>5, <1>6, <1>7, Zenon DEF CacheInv, l, u, n, c

(***************************************************************************)
(* The invariant of the relation cache: the places behind the largest id   *)
(* are free, whatever the order in which ids arrive.                       *)
(***************************************************************************)
THEOREM CacheInvariant == CacheSpec => []CacheInv
<1>1. NewRelationCache => CacheInv
  BY OidAssumption DEF NewRelationCache, Nils, CacheInv, CacheTypeOK
<1>2. CacheInv /\ [CacheNext]_cacheVars => CacheInv'
  <2> SUFFICES ASSUME CacheInv, [CacheNext]_cacheVars PROVE CacheInv'
    BY Zenon
  <2>1. CASE CacheNext
    BY <2>1, SetKeeps, Zenon DEF CacheNext
  <2>2. CASE UNCHANGED cacheVars
    BY <2>2, Zenon DEF cacheVars, CacheInv, CacheTypeOK
  <2> QED
    BY <2>1, <2>2, Zenon
<1> QED
  BY <1>1, <1>2, PTL DEF CacheSpec

(***************************************************************************)
(* No access of the relation cache lies outside its slice.                 *)
(***************************************************************************)
THEOREM AccessInBounds == CacheSpec => []InBounds
<1>1. CacheInv => InBounds
  <2> SUFFICES ASSUME CacheInv, NEW oid \in Oids, Bounded(oid)
               PROVE  location(oid, lowerBound) \in 0 .. size - 1
    BY Zenon DEF InBounds
  <2>1. oid \in Nat /\ oid >= 1
    BY OidAssumption
  <2> QED
    BY <2>1, OidAssumption DEF CacheInv, CacheTypeOK, Bounded, location
<1> QED
  BY <1>1, CacheInvariant, PTL

(***************************************************************************)
(* After Set(oid, value), Get returns the value for oid and what it        *)
(* returned before for every other id.                                     *)
(***************************************************************************)
LEMMA GetAfterSet ==
  ASSUME CacheInv, NEW oid \in Oids, NEW value \in Values, Set(oid, value), NEW o \in Oids
  PROVE  Get(o)' = IF o = oid THEN value ELSE Get(o)
<1> DEFINE l == lowerBound'
           u == upperBound'
           n == size'
           c == cache'
           d == Diff(l)
<1>1. /\ l \in Oids /\ u \in Oids /\ l <= oid /\ oid <= u
      /\ lowerBound # 0 => l <= lowerBound
      /\ upperBound <= u
  BY NewBounds, Zenon DEF Set
<1>2. /\ n \in 0 .. MaxUint /\ u - l < n
      /\ c \in [0 .. n - 1 -> Values \cup {Missing}]
      /\ c[oid - l] = value
      /\ \A i \in 0 .. n - 1 : i # oid - l =>
           c[i] = IF i >= d /\ i - d < size THEN cache[i - d] ELSE Missing
  BY SetSlice, Zenon
<1> HIDE DEF l, u, n, c
<1>3. /\ lowerBound \in Nat /\ upperBound \in Nat /\ size \in Nat /\ MaxUint \in Nat
      /\ l \in 1 .. MaxUint /\ u \in 1 .. MaxUint /\ oid \in 1 .. MaxUint
  BY <1>1, OidAssumption DEF CacheInv, CacheTypeOK
<1>4. d \in Nat /\ (lowerBound # 0 => d = lowerBound - l) /\ n \in Nat
  BY <1>1, <1>2, <1>3 DEF Diff
<1> HIDE DEF d
<1>5. o \in 1 .. MaxUint
  BY OidAssumption, Zenon
<1>6. /\ l <= o /\ o <= u /\ n # 0 => Get(o)' = c[o - l]
      /\ ~(l <= o /\ o <= u) => Get(o)' = Missing
  BY Zenon DEF Get, Bounded, location, l, u, n, c
<1>7. /\ lowerBound <= o /\ o <= upperBound /\ size # 0 => Get(o) = cache[o - lowerBound]
      /\ ~(lowerBound <= o /\ o <= upperBound /\ size # 0) => Get(o) = Missing
  BY Zenon DEF Get, Bounded, location
<1>8. /\ lowerBound = 0 => size = 0
      /\ lowerBound # 0 => upperBound - lowerBound < size
  BY Zenon DEF CacheInv
<1>9. CASE o = oid
  <2>1. l <= o /\ o <= u /\ n # 0
    BY <1>1, <1>2, <1>3, <1>4, <1>9
  <2> QED
    BY <2>1, <1>2, <1>6, <1>9, Zenon
<1>10. CASE o # oid /\ l <= o /\ o <= u
  <2> DEFINE i == o - l
  <2>1. i \in 0 .. n - 1 /\ i # oid - l /\ n # 0
    BY <1>2, <1>3, <1>4, <1>5, <1>10
  <2>2. Get(o)' = c[i]
    BY <2>1, <1>6, <1>10, Zenon
  <2>3. c[i] = IF i >= d /\ i - d < size THEN cache[i - d] ELSE Missing
    BY <2>1, <1>2, Zenon
  <2>4. (lowerBound # 0 => i - d = o - lowerBound) /\ i \in Nat
    BY <1>3, <1>4, <1>5, <1>10
  <2> HIDE DEF i
  <2>5. CASE lowerBound = 0
    BY <1>4, <1>7, <1>8, <1>10, <2>2, <2>3, <2>4, <2>5
  <2>6. CASE lowerBound # 0 /\ lowerBound <= o /\ o <= upperBound
    <3>1. i >= d /\ i - d < size /\ size # 0
      BY <1>3, <1>4, <1>5, <1>8, <2>4, <2>6
    <3> QED
      BY <1>7, <1>10, <2>2, <2>3, <2>4, <2>6, <3>1, ZenonT(30)
  <2>7. CASE lowerBound # 0 /\ ~(lowerBound <= o /\ o <= upperBound)
    <3>1. Get(o) = Missing
      BY <1>7, <2>7, Zenon
    <3>2. CASE i >= d /\ i - d < size
      <4>1. i - d \in 0 .. size - 1
        BY <1>3, <1>4, <2>4, <3>2
      <4>2. upperBound - lowerBound < i - d
        BY <1>3, <1>4, <1>5, <2>4, <2>7, <3>2
      <4>3. cache[i - d] = Missing
        BY <4>1, <4>2, Zenon DEF CacheInv
      <4> QED
        BY <1>10, <2>2, <2>3, <3>1, <3>2, <4>3, Zenon
    <3>3. CASE ~(i >= d /\ i - d < size)
      BY <1>10, <2>2, <2>3, <3>1, <3>3, Zenon
    <3> QED
      BY <3>2, <3>3, Zenon
  <2> QED
    BY <2>5, <2>6, <2>7, Zenon
<1>11. CASE o # oid /\ ~(l <= o /\ o <= u)
  <2>1. ~(lowerBound <= o /\ o <= upperBound /\ size # 0)
    BY <1>1, <1>3, <1>5, <1>8, <1>11
  <2> QED
    BY <1>6, <1>7, <1>11, <2>1, Zenon
<1> QED
  BY <1>9, <1>10, <1>11, Zenon

(***************************************************************************)
(* The relation cache implements a map from relation ids to values.        *)
(***************************************************************************)
THEOREM CacheIsMap == CacheSpec => ImplementsMap
<1> DEFINE known == [oid \in Oids |-> Get(oid)]
<1>1. NewRelationCache => Map!Init
  BY Zenon DEF NewRelationCache, Get, Map!Init
<1>2. CacheInv /\ [CacheNext]_cacheVars => [Map!Next]_known
  <2> SUFFICES ASSUME CacheInv, [CacheNext]_cacheVars PROVE [Map!Next]_known
    BY Zenon
  <2>1. CASE CacheNext
    <3>1. PICK oid \in Oids, value \in Values : Set(oid, value)
      BY <2>1, Zenon DEF CacheNext
    <3>2. \A o \in Oids : Get(o)' = IF o = oid THEN value ELSE Get(o)
      BY <3>1, GetAfterSet, Zenon
    <3>3. known' = [o \in Oids |-> Get(o)']
      BY Zenon
    <3>4. known' = [known EXCEPT ![oid] = value]
      BY <3>2, <3>3, Zenon
    <3> QED
      BY <3>4, Zenon DEF Map!Next, Map!Set
  <2>2. CASE UNCHANGED cacheVars
    BY <2>2, Zenon DEF cacheVars, Get, Bounded, location
  <2> QED
    BY <2>1, <2>2, Zenon
<1> QED
  BY <1>1, <1>2, CacheInvariant, PTL DEF CacheSpec, ImplementsMap, Map!Spec

-------------------------------------------------------------------------------
\* The task manager

(***************************************************************************)
(* Tasks of different kinds, or of different workers, are different.       *)
(***************************************************************************)
LEMMA TasksDiffer ==
  /\ \A v, w : Finish(v) = Finish(w) => v = w
  /\ \A v, w : Row(v) = Row(w) => v = w
  /\ \A v, w : Submit(v) = Submit(w) => v = w
  /\ \A v, w : Finish(v) # Row(w) /\ Finish(v) # Submit(w) /\ Row(v) # Submit(w)
  /\ \A w : Finish(w) \notin {Message, Record, NoTask} /\ Row(w) \notin {Message, Record, NoTask}
  /\ NoTask \notin Tasks
BY Zenon DEF Finish, Row, Submit, Message, Record, NoTask, Tasks

(***************************************************************************)
(* The kinds of tasks, one by one.                                         *)
(***************************************************************************)
LEMMA TasksAre ==
  /\ Message \in Tasks /\ Record \in Tasks
  /\ \A w \in Workers : Submit(w) \in Tasks /\ Row(w) \in Tasks /\ Finish(w) \in Tasks
BY Zenon DEF Tasks

(***************************************************************************)
(* The types in two parts: what the channel and the goroutines pass on,    *)
(* and the rest.                                                           *)
(***************************************************************************)
RestOK ==
  /\ closed \in BOOLEAN /\ inClosed \in BOOLEAN /\ shutdownActive \in BOOLEAN
  /\ snapshotQueue \in [Workers -> 0 .. Capacity]
  /\ signalled \subseteq Goroutines
  /\ stop \in StopValues
  /\ messages \in 0 .. MaxMessages /\ records \in 0 .. MaxRecords /\ chunks \in 0 .. MaxChunks

TaskOK ==
  /\ pc \in [Goroutines -> PcValues]
  /\ sending \in [Goroutines -> Tasks \cup {NoTask}]
  /\ inQueue \in Seq(Tasks)
  /\ running \in Tasks \cup {NoTask}
  /\ rows \in [Workers -> 0 .. MaxRows]
  /\ refused \subseteq Goroutines

(***************************************************************************)
(* TypeOK is split into the tasks and the rest, which different provers    *)
(* handle.                                                                 *)
(***************************************************************************)
LEMMA TypeParts == TypeOK <=> TaskOK /\ RestOK
BY Zenon DEF TypeOK, TaskOK, RestOK

(***************************************************************************)
(* The same split of TypeOK for the next state.                            *)
(***************************************************************************)
LEMMA TypePartsPrime == TypeOK' <=> TaskOK' /\ RestOK'
BY Zenon DEF TypeOK, TaskOK, RestOK

(***************************************************************************)
(* A call that is admitted or refused: only a goroutine that is not done   *)
(* calls, so a refused one is the dispatcher.                              *)
(***************************************************************************)
LEMMA EnqueueKeeps ==
  ASSUME TaskInv, NEW g \in Goroutines, NEW t \in Tasks, EnqueueTask(g, t),
         UNCHANGED <<inQueue, running, stop, signalled, shutdownActive>>,
         pc[g] \in {"idle", "running", "snapshot"},
         \A w \in Workers : t \in {Row(w), Finish(w)} => g = w,
         rows' \in [Workers -> 0 .. MaxRows],
         \A w \in Workers : w # g => rows'[w] = rows[w],
         t = Finish(g) => rows'[g] = 0
  PROVE  TaskOK' /\ SendingInv' /\ FinishInv' /\ StopInv' /\ OnlyDispatcherRefused'
<1>1. TaskOK /\ SendingInv /\ FinishInv /\ StopInv /\ OnlyDispatcherRefused
  BY TypeParts, Zenon DEF TaskInv
<1>2. Receiver \in Goroutines /\ Dispatcher \in Goroutines /\ Workers \subseteq Goroutines
  BY Zenon DEF Goroutines
<1>3. \A w \in Workers : w # Receiver /\ w # Dispatcher
  BY GoroutinesDiffer, Zenon
<1>4. \A h \in Goroutines : h # g => pc'[h] = pc[h] /\ sending'[h] = sending[h]
  BY <1>1, Zenon DEF EnqueueTask, TaskOK
<1>5. \A w \in Workers : pc[w] = "waiting" => w # g
  BY Zenon
<1>6. FinishInv'
  BY <1>1, <1>2, <1>4, <1>5, SMTT(30) DEF FinishInv
<1>7. CASE shutdownActive
  <2>1. g = Dispatcher
    BY <1>1, <1>7, Zenon DEF StopInv, SnapshotterStopped, Goroutines
  <2>2. pc' = [pc EXCEPT ![g] = "running"] /\ refused' = refused \cup {g} /\ sending' = sending
    BY <1>7, <2>1, Zenon DEF EnqueueTask, RefusedTo
  <2>3. TaskOK'
    BY <1>1, <2>2, Zenon DEF TaskOK, PcValues
  <2>4. pc'[g] = "running"
    BY <1>1, <2>2, Zenon DEF TaskOK
  <2>5. SendingInv'
    BY <1>1, <1>2, <1>3, <1>4, <2>1, <2>2, <2>4, SMTT(30) DEF SendingInv
  <2>6. StopInv' /\ OnlyDispatcherRefused'
    BY <1>1, <1>2, <1>3, <1>4, <2>1, <2>2, <2>4, GoroutinesDiffer, ZenonT(30) DEF StopInv, OnlyDispatcherRefused, SnapshotterStopped
  <2> QED
    BY <1>6, <2>3, <2>5, <2>6, Zenon
<1>8. CASE ~shutdownActive
  <2>1. /\ pc' = [pc EXCEPT ![g] = "admitted"]
        /\ sending' = [sending EXCEPT ![g] = t] /\ refused' = refused
    BY <1>8, Zenon DEF EnqueueTask
  <2>2. TaskOK'
    BY <1>1, <2>1, Zenon DEF TaskOK, PcValues
  <2>3. pc'[g] = "admitted" /\ sending'[g] = t
    BY <1>1, <2>1, Zenon DEF TaskOK
  <2>4. SendingInv'
    BY <1>1, <1>2, <1>4, <2>3, TasksDiffer DEF SendingInv
  <2>5. StopInv' /\ OnlyDispatcherRefused'
    BY <1>1, <1>2, <1>4, <2>1, <2>3, ZenonT(30) DEF StopInv, OnlyDispatcherRefused, SnapshotterStopped
  <2> QED
    BY <1>6, <2>2, <2>4, <2>5, Zenon
<1> QED
  BY <1>7, <1>8, Zenon

(***************************************************************************)
(* The facts that every step starts from.                                  *)
(***************************************************************************)
LEMMA Parts ==
  ASSUME TaskInv
  PROVE  /\ TaskOK /\ RestOK /\ SendingInv /\ FinishInv /\ StopInv /\ OnlyDispatcherRefused
         /\ Receiver \in Goroutines /\ Dispatcher \in Goroutines /\ Workers \subseteq Goroutines
         /\ \A w \in Workers : w # Receiver /\ w # Dispatcher
         /\ Receiver # Dispatcher
BY TypeParts, GoroutinesDiffer, Zenon DEF TaskInv, Goroutines

(***************************************************************************)
(* The conjuncts of TaskInv, proved one at a time, make it up again.       *)
(***************************************************************************)
LEMMA PartsMakeInv ==
  ASSUME TaskOK', RestOK', SendingInv', FinishInv', StopInv', OnlyDispatcherRefused'
  PROVE  TaskInv'
BY TypePartsPrime, Zenon DEF TaskInv

(***************************************************************************)
(* Send: the test of the closed flag keeps the invariant; a worker drops   *)
(* its task only when the workers are gone.                                *)
(***************************************************************************)
LEMMA SendKeeps ==
  ASSUME TaskInv, NEW g \in Goroutines, Send(g)
  PROVE  TaskInv'
<1> USE Parts
<1>1. RestOK'
  BY Zenon DEF Send, At, channel, counters, RestOK
<1>2. /\ pc[g] = "admitted" /\ sending[g] \in Tasks
      /\ UNCHANGED <<inQueue, running, rows, refused, signalled, stop, shutdownActive>>
  BY Zenon DEF Send, At, channel, counters, SendingInv
<1>3. \A h \in Goroutines : h # g => pc'[h] = pc[h] /\ sending'[h] = sending[h]
  BY Zenon DEF Send, At, TaskOK
<1>4. ReturnsTo(g) \in {"running", "idle", "waiting", "snapshot"}
  BY Zenon DEF ReturnsTo
<1>5. \/ pc'[g] \in {"running", "idle", "waiting", "snapshot"} /\ sending'[g] = NoTask
      \/ pc'[g] = "open" /\ sending'[g] = sending[g]
  BY <1>4, Zenon DEF Send, At, TaskOK
<1>6. TaskOK'
  BY <1>2, <1>4, Zenon DEF Send, At, TaskOK, PcValues
<1>7. SendingInv'
  BY <1>2, <1>3, <1>5, TasksDiffer, SMTT(30) DEF SendingInv
<1>8. FinishInv'
  BY <1>2, <1>3, Zenon DEF FinishInv
<1>9. StopInv' /\ OnlyDispatcherRefused'
  BY <1>2, <1>3, <1>5, Zenon DEF StopInv, OnlyDispatcherRefused, SnapshotterStopped
<1> QED
  BY <1>1, <1>6, <1>7, <1>8, <1>9, PartsMakeInv, ZenonT(30)

(***************************************************************************)
(* What the channel makes of the queue.                                    *)
(***************************************************************************)
LEMMA Appended ==
  ASSUME NEW q \in Seq(Tasks), NEW t \in Tasks
  PROVE  /\ Append(q, t) \in Seq(Tasks)
         /\ DOMAIN Append(q, t) = DOMAIN q \cup {Len(q) + 1}
         /\ \A n \in DOMAIN q : Append(q, t)[n] = q[n] /\ n < Len(q) + 1
         /\ Append(q, t)[Len(q) + 1] = t
         /\ DOMAIN q \subseteq Nat /\ Len(q) \in Nat
OBVIOUS

(***************************************************************************)
(* Pump: the new last task of the queue is not behind a Finish of the same *)
(* worker, because that worker would be waiting.                           *)
(***************************************************************************)
LEMMA PumpKeeps ==
  ASSUME TaskInv, NEW g \in Goroutines, Pump(g)
  PROVE  TaskInv'
<1> USE Parts
<1>1. RestOK'
  BY Zenon DEF Pump, At, counters, RestOK
<1>2. /\ pc[g] = "open" /\ sending[g] \in Tasks
      /\ UNCHANGED <<running, rows, refused, signalled, stop, shutdownActive>>
  BY Zenon DEF Pump, At, SendingInv
<1>3. CASE inClosed
  <2>1. pc' = [pc EXCEPT ![g] = "panicked"] /\ UNCHANGED <<inQueue, sending>>
    BY <1>3, Zenon DEF Pump, At
  <2>2. pc'[g] = "panicked" /\ \A h \in Goroutines : h # g => pc'[h] = pc[h]
    BY <2>1, Zenon DEF TaskOK
  <2>3. TaskOK'
    BY <1>2, <2>1, Zenon DEF TaskOK, PcValues
  <2>4. SendingInv' /\ FinishInv'
    BY <1>2, <2>1, <2>2, SMTT(30) DEF SendingInv, FinishInv
  <2>5. StopInv' /\ OnlyDispatcherRefused'
    BY <1>2, <2>2, Zenon DEF StopInv, OnlyDispatcherRefused, SnapshotterStopped
  <2> QED
    BY <1>1, <2>3, <2>4, <2>5, PartsMakeInv, ZenonT(30)
<1>4. CASE ~inClosed
  <2> DEFINE t == sending[g]
             q == inQueue
  <2>1. /\ inQueue' = Append(q, t) /\ pc' = [pc EXCEPT ![g] = ReturnsTo(g)]
        /\ sending' = [sending EXCEPT ![g] = NoTask]
    BY <1>4, Zenon DEF Pump, At
  <2>2. /\ pc'[g] = ReturnsTo(g) /\ sending'[g] = NoTask
        /\ \A h \in Goroutines : h # g => pc'[h] = pc[h] /\ sending'[h] = sending[h]
    BY <2>1, Zenon DEF TaskOK
  <2>3. ReturnsTo(g) \in {"running", "idle", "waiting", "snapshot"}
    BY Zenon DEF ReturnsTo
  <2>4. q \in Seq(Tasks) /\ t \in Tasks
    BY <1>2, Zenon DEF TaskOK
  <2>5. /\ inQueue' \in Seq(Tasks) /\ DOMAIN inQueue' = DOMAIN q \cup {Len(q) + 1}
        /\ \A n \in DOMAIN q : inQueue'[n] = q[n] /\ n < Len(q) + 1
        /\ inQueue'[Len(q) + 1] = t
        /\ DOMAIN q \subseteq Nat /\ Len(q) \in Nat
    BY <2>1, <2>4, Appended, SMTT(30)
  <2>6. TaskOK'
    BY <1>2, <2>1, <2>3, <2>5, Zenon DEF TaskOK, PcValues
  <2>7. SendingInv'
    BY <1>2, <2>2, <2>3, TasksDiffer, SMTT(30) DEF SendingInv
  <2>8. \A w \in Workers : t \in {Row(w), Finish(w)} => w = g
    BY Zenon  DEF SendingInv
  <2>9. \A w \in Workers : pc[w] = "waiting" => w # g /\ pc'[w] = "waiting"
    BY <1>2, <2>2, ZenonT(60)
  <2>10. ASSUME NEW w \in Workers, NEW n \in DOMAIN inQueue', inQueue'[n] = Finish(w)
         PROVE  /\ pc'[w] = "waiting" /\ rows'[w] = 0
                /\ \A m \in DOMAIN inQueue' : n < m => inQueue'[m] \notin {Row(w), Finish(w)}
    <3>1. CASE n \in DOMAIN q
      <4>1. q[n] = Finish(w)
        BY <2>5, <2>10, <3>1, ZenonT(30)
      <4>2. /\ pc[w] = "waiting" /\ rows[w] = 0
            /\ \A m \in DOMAIN q : n < m => q[m] \notin {Row(w), Finish(w)}
        BY <3>1, <4>1, Zenon DEF FinishInv
      <4>3. t \notin {Row(w), Finish(w)}
        BY <2>8, <2>9, <4>2, ZenonT(30)
      <4> QED
        BY <1>2, <2>5, <2>9, <4>2, <4>3, ZenonT(30)
    <3>2. CASE n = Len(q) + 1
      <4>1. t = Finish(w) /\ w = g
        BY <2>5, <2>8, <2>10, <3>2, ZenonT(30)
      <4>2. ReturnsTo(g) = "waiting" /\ rows[w] = 0
        BY <4>1, Zenon DEF ReturnsTo, SendingInv
      <4>3. \A m \in DOMAIN inQueue' : ~(n < m)
        BY <2>5, <3>2, SMTT(30)
      <4> QED
        BY <1>2, <2>2, <4>1, <4>2, <4>3, ZenonT(30)
    <3> QED
      BY <2>5, <3>1, <3>2, Zenon
  <2>11. ASSUME NEW w \in Workers, running' = Finish(w)
         PROVE  /\ pc'[w] = "waiting" /\ rows'[w] = 0
                /\ \A m \in DOMAIN inQueue' : inQueue'[m] \notin {Row(w), Finish(w)}
    <3>1. /\ pc[w] = "waiting" /\ rows[w] = 0
          /\ \A m \in DOMAIN q : q[m] \notin {Row(w), Finish(w)}
      BY <1>2, <2>11, ZenonT(30) DEF FinishInv
    <3>2. t \notin {Row(w), Finish(w)}
      BY <2>8, <2>9, <3>1, ZenonT(30)
    <3> QED
      BY <1>2, <2>5, <2>9, <3>1, <3>2, ZenonT(30)
  <2>12. FinishInv'
    BY <2>10, <2>11, ZenonT(30) DEF FinishInv
  <2>13. StopInv' /\ OnlyDispatcherRefused'
    BY <1>2, <2>2, <2>3, ZenonT(30) DEF StopInv, OnlyDispatcherRefused, SnapshotterStopped
  <2> QED
    BY <1>1, <2>6, <2>7, <2>12, <2>13, PartsMakeInv, Zenon
<1> QED
  BY <1>3, <1>4, Zenon

(***************************************************************************)
(* Receive keeps the invariant: the receive loop is gone before the task   *)
(* manager refuses anything.                                               *)
(***************************************************************************)
LEMMA ReceiveKeeps ==
  ASSUME TaskInv, Receive
  PROVE  TaskInv'
<1> USE Parts
<1>1. RestOK'
  BY BoundsAreNaturals DEF Receive, At, channel, RestOK
<1>2. /\ EnqueueTask(Receiver, Message) /\ pc[Receiver] = "idle"
      /\ UNCHANGED <<inQueue, running, stop, signalled, shutdownActive>> /\ rows' = rows
  BY Zenon DEF Receive, At, channel
<1>3. Message \in Tasks /\ \A w : Message \notin {Row(w), Finish(w)}
  BY TasksAre, TasksDiffer, Zenon
<1>4. rows' \in [Workers -> 0 .. MaxRows]
  BY <1>2, Zenon DEF TaskOK
<1> QED
  BY <1>1, <1>2, <1>3, <1>4, EnqueueKeeps, PartsMakeInv, ZenonT(30)

(***************************************************************************)
(* A task that enqueues an event keeps the invariant.                      *)
(***************************************************************************)
LEMMA EnqueueRecordKeeps ==
  ASSUME TaskInv, EnqueueRecord
  PROVE  TaskInv'
<1> USE Parts
<1>1. RestOK'
  BY BoundsAreNaturals DEF EnqueueRecord, At, channel, RestOK
<1>2. /\ EnqueueTask(Dispatcher, Record) /\ pc[Dispatcher] = "running"
      /\ UNCHANGED <<inQueue, running, stop, signalled, shutdownActive>> /\ rows' = rows
  BY Zenon DEF EnqueueRecord, At, channel
<1>3. Record \in Tasks /\ \A w : Record \notin {Row(w), Finish(w)}
  BY TasksAre, TasksDiffer, Zenon
<1>4. rows' \in [Workers -> 0 .. MaxRows]
  BY <1>2, Zenon DEF TaskOK
<1> QED
  BY <1>1, <1>2, <1>3, <1>4, EnqueueKeeps, PartsMakeInv, ZenonT(30)

(***************************************************************************)
(* A task that asks for the snapshot of a chunk keeps the invariant.       *)
(***************************************************************************)
LEMMA EnqueueSnapshotKeeps ==
  ASSUME TaskInv, NEW v \in Workers, EnqueueSnapshot(v)
  PROVE  TaskInv'
<1> USE Parts
<1>1. RestOK'
  BY BoundsAreNaturals DEF EnqueueSnapshot, At, channel, RestOK
<1>2. /\ EnqueueTask(Dispatcher, Submit(v)) /\ pc[Dispatcher] = "running"
      /\ UNCHANGED <<inQueue, running, stop, signalled, shutdownActive>> /\ rows' = rows
  BY Zenon DEF EnqueueSnapshot, At, channel
<1>3. Submit(v) \in Tasks /\ \A w : Submit(v) \notin {Row(w), Finish(w)}
  BY TasksAre, TasksDiffer, ZenonT(30)
<1>4. rows' \in [Workers -> 0 .. MaxRows]
  BY <1>2, ZenonT(30) DEF TaskOK
<1> QED
  BY <1>1, <1>2, <1>3, <1>4, EnqueueKeeps, PartsMakeInv, ZenonT(30)

(***************************************************************************)
(* A worker that enqueues a row is not refused, and has no Finish in the   *)
(* queue.                                                                  *)
(***************************************************************************)
LEMMA SendRowKeeps ==
  ASSUME TaskInv, NEW v \in Workers, SendRow(v)
  PROVE  TaskInv'
<1> USE Parts
<1>1. RestOK'
  BY Zenon  DEF SendRow, At, channel, counters, RestOK
<1>2. /\ EnqueueTask(v, Row(v)) /\ pc[v] = "snapshot" /\ rows[v] > 0
      /\ UNCHANGED <<inQueue, running, stop, signalled, shutdownActive>>
      /\ rows' = [rows EXCEPT ![v] = rows[v] - 1]
  BY Zenon DEF SendRow, At, channel
<1>3. Row(v) \in Tasks /\ \A w \in Workers : Row(v) \in {Row(w), Finish(w)} => v = w
  BY TasksAre, TasksDiffer, Zenon
<1>4. Row(v) # Finish(v)
  BY TasksDiffer, Zenon
<1>5. rows[v] - 1 \in 0 .. MaxRows
  BY <1>2, BoundsAreNaturals DEF TaskOK
<1>6. rows' \in [Workers -> 0 .. MaxRows] /\ \A w \in Workers : w # v => rows'[w] = rows[w]
  BY <1>2, <1>5, Zenon DEF TaskOK
<1> QED
  BY <1>1, <1>2, <1>3, <1>4, <1>6, EnqueueKeeps, PartsMakeInv, SMTT(30)

(***************************************************************************)
(* A worker that ends its snapshot has no rows left and is not refused.    *)
(***************************************************************************)
LEMMA FinishSnapshotKeeps ==
  ASSUME TaskInv, NEW v \in Workers, FinishSnapshot(v)
  PROVE  TaskInv'
<1> USE Parts
<1>1. RestOK'
  BY ZenonT(60) DEF FinishSnapshot, At, channel, counters, RestOK
<1>2. /\ EnqueueTask(v, Finish(v)) /\ pc[v] = "snapshot" /\ rows[v] = 0
      /\ UNCHANGED <<inQueue, running, stop, signalled, shutdownActive>> /\ rows' = rows
  BY Zenon DEF FinishSnapshot, At, channel
<1>3. Finish(v) \in Tasks /\ \A w \in Workers : Finish(v) \in {Row(w), Finish(w)} => v = w
  BY TasksAre, TasksDiffer, ZenonT(30)
<1>4. rows' \in [Workers -> 0 .. MaxRows]
  BY <1>2, ZenonT(30) DEF TaskOK
<1> QED
  BY <1>1, <1>2, <1>3, <1>4, EnqueueKeeps, PartsMakeInv, ZenonT(30)

(***************************************************************************)
(* A goroutine that leaves its loop waits for nothing.                     *)
(***************************************************************************)
LEMMA LeaveKeeps ==
  ASSUME TaskInv, NEW g \in Goroutines, Leave(g)
  PROVE  TaskInv'
<1> USE Parts
<1>1. RestOK'
  BY Zenon DEF Leave, At, channel, counters, RestOK
<1>2. /\ pc[g] = "idle" /\ g \in signalled /\ pc' = [pc EXCEPT ![g] = "done"]
      /\ UNCHANGED <<sending, inQueue, running, rows, refused, signalled, stop, shutdownActive>>
  BY Zenon DEF Leave, At, channel
<1>3. pc'[g] = "done" /\ \A h \in Goroutines : h # g => pc'[h] = pc[h]
  BY <1>2, Zenon DEF TaskOK
<1>4. TaskOK'
  BY <1>2, ZenonT(30) DEF TaskOK, PcValues
<1>5. SendingInv' /\ FinishInv'
  BY <1>2, <1>3, Zenon DEF SendingInv, FinishInv
<1>6. StopInv' /\ OnlyDispatcherRefused'
  BY <1>2, <1>3, Zenon DEF StopInv, OnlyDispatcherRefused, SnapshotterStopped
<1> QED
  BY <1>1, <1>4, <1>5, <1>6, PartsMakeInv, Zenon

(***************************************************************************)
(* The task that ends a snapshot is only run for a worker that waits.      *)
(***************************************************************************)
LEMMA DispatchKeeps ==
  ASSUME TaskInv, Dispatch
  PROVE  TaskInv'
<1> USE Parts
<1> DEFINE q == inQueue
<1>1. RestOK'
  BY Zenon DEF Dispatch, At, channel, counters, RestOK
<1>2. /\ pc[Dispatcher] = "idle" /\ q # <<>> /\ running' = Head(q) /\ inQueue' = Tail(q)
      /\ pc' = [pc EXCEPT ![Dispatcher] = "running"]
      /\ UNCHANGED <<sending, rows, refused, signalled, stop, shutdownActive>>
  BY Zenon DEF Dispatch, At
<1>3. /\ pc'[Dispatcher] = "running"
      /\ \A h \in Goroutines : h # Dispatcher => pc'[h] = pc[h]
  BY <1>2, ZenonT(30) DEF TaskOK
<1>4. q \in Seq(Tasks)
  BY Zenon DEF TaskOK
<1>5. /\ Head(q) = q[1] /\ 1 \in DOMAIN q /\ q[1] \in Tasks /\ Tail(q) \in Seq(Tasks)
      /\ \A n \in DOMAIN Tail(q) : n \in Nat /\ n + 1 \in DOMAIN q /\ 1 < n + 1 /\ Tail(q)[n] = q[n + 1]
  BY <1>2, <1>4, SMTT(30)
<1>6. TaskOK'
  BY <1>2, <1>5, ZenonT(30) DEF TaskOK, PcValues
<1>7. SendingInv'
  BY <1>2, <1>3, ZenonT(30) DEF SendingInv
<1>8. ASSUME NEW w \in Workers, NEW n \in DOMAIN inQueue', inQueue'[n] = Finish(w)
      PROVE  /\ pc'[w] = "waiting" /\ rows'[w] = 0
             /\ \A m \in DOMAIN inQueue' : n < m => inQueue'[m] \notin {Row(w), Finish(w)}
  <2>1. n + 1 \in DOMAIN q /\ q[n + 1] = Finish(w)
    BY <1>2, <1>5, <1>8, ZenonT(30)
  <2>2. /\ pc[w] = "waiting" /\ rows[w] = 0
        /\ \A m \in DOMAIN q : n + 1 < m => q[m] \notin {Row(w), Finish(w)}
    BY <2>1, Zenon DEF FinishInv
  <2>3. ASSUME NEW m \in DOMAIN Tail(q), n < m PROVE Tail(q)[m] \notin {Row(w), Finish(w)}
    <3>1. m + 1 \in DOMAIN q /\ Tail(q)[m] = q[m + 1] /\ m \in Nat /\ n \in Nat
      BY <1>2, <1>5, <1>8, <2>3, ZenonT(30)
    <3>2. n + 1 < m + 1
      BY <2>3, <3>1, SMTT(30)
    <3> QED
      BY <2>2, <3>1, <3>2, ZenonT(30)
  <2> QED
    BY <1>2, <1>3, <2>2, <2>3, ZenonT(30)
<1>9. ASSUME NEW w \in Workers, running' = Finish(w)
      PROVE  /\ pc'[w] = "waiting" /\ rows'[w] = 0
             /\ \A m \in DOMAIN inQueue' : inQueue'[m] \notin {Row(w), Finish(w)}
  <2>1. q[1] = Finish(w)
    BY <1>2, <1>5, <1>9, ZenonT(30)
  <2>2. /\ pc[w] = "waiting" /\ rows[w] = 0
        /\ \A m \in DOMAIN q : 1 < m => q[m] \notin {Row(w), Finish(w)}
    BY <1>5, <2>1, ZenonT(30) DEF FinishInv
  <2> QED
    BY <1>2, <1>3, <1>5, <2>2, ZenonT(30)
<1>10. FinishInv'
  BY <1>8, <1>9, ZenonT(30) DEF FinishInv
<1>11. StopInv' /\ OnlyDispatcherRefused'
  BY <1>2, <1>3, ZenonT(30) DEF StopInv, OnlyDispatcherRefused, SnapshotterStopped
<1> QED
  BY <1>1, <1>6, <1>7, <1>10, <1>11, PartsMakeInv, Zenon

(***************************************************************************)
(* Handing a chunk to a worker keeps its queue within its capacity.        *)
(***************************************************************************)
LEMMA SubmitSnapshotKeeps ==
  ASSUME TaskInv, NEW v \in Workers, SubmitSnapshot(v)
  PROVE  TaskInv'
<1> USE Parts
<1>1. snapshotQueue[v] + 1 \in 0 .. Capacity
  BY BoundsAreNaturals, SMTT(30) DEF SubmitSnapshot, At, RestOK
<1>2. RestOK'
  BY <1>1, Zenon DEF SubmitSnapshot, At, channel, counters, RestOK
<1>3. /\ pc[Dispatcher] = "running" /\ running' = NoTask
      /\ pc' = [pc EXCEPT ![Dispatcher] = "idle"]
      /\ UNCHANGED <<sending, inQueue, rows, refused, signalled, stop, shutdownActive>>
  BY Zenon DEF SubmitSnapshot, At, channel
<1>4. /\ pc'[Dispatcher] = "idle"
      /\ \A h \in Goroutines : h # Dispatcher => pc'[h] = pc[h]
  BY <1>3, Zenon DEF TaskOK
<1>5. TaskOK'
  BY <1>3, Zenon DEF TaskOK, PcValues
<1>6. SendingInv'
  BY <1>3, <1>4, ZenonT(30) DEF SendingInv
<1>7. FinishInv'
  BY <1>3, <1>4, TasksDiffer, ZenonT(60) DEF FinishInv
<1>8. StopInv' /\ OnlyDispatcherRefused'
  BY <1>3, <1>4, ZenonT(30) DEF StopInv, OnlyDispatcherRefused, SnapshotterStopped
<1> QED
  BY <1>2, <1>5, <1>6, <1>7, <1>8, PartsMakeInv, ZenonT(30)

(***************************************************************************)
(* The end of a task releases the worker that waits for it; no other task  *)
(* of that worker is queued.                                               *)
(***************************************************************************)
LEMMA FinishTaskKeeps ==
  ASSUME TaskInv, FinishTask
  PROVE  TaskInv'
<1> USE Parts
<1>1. RestOK'
  BY Zenon DEF FinishTask, At, channel, counters, RestOK
<1>2. /\ pc[Dispatcher] = "running" /\ running' = NoTask
      /\ pc' = [g \in Goroutines |->
                  IF g = Dispatcher \/ running = Finish(g) THEN "idle" ELSE pc[g]]
      /\ UNCHANGED <<sending, inQueue, rows, refused, signalled, stop, shutdownActive>>
  BY Zenon  DEF FinishTask, At, channel
<1>3. running # Finish(Receiver)
  BY TasksDiffer, SMTT(30) DEF TaskOK, Tasks
<1>4. pc'[Receiver] = pc[Receiver] /\ pc'[Dispatcher] = "idle"
  BY <1>2, <1>3, ZenonT(60)
<1>5. \A w \in Workers : \/ running # Finish(w) /\ pc'[w] = pc[w]
                         \/ running = Finish(w) /\ pc[w] = "waiting" /\ pc'[w] = "idle"
  BY <1>2, ZenonT(30) DEF FinishInv
<1>6. TaskOK'
  BY <1>2, ZenonT(30) DEF TaskOK, PcValues
<1>7. \A g \in Goroutines : pc'[g] = pc[g] \/ pc'[g] = "idle"
  BY <1>2, ZenonT(30)
<1>8. SendingInv'
  BY <1>2, <1>5, <1>7, SMTT(30) DEF SendingInv
<1>9. FinishInv'
  BY <1>2, <1>5, TasksDiffer, Zenon DEF FinishInv
<1>10. StopInv' /\ OnlyDispatcherRefused'
  BY <1>2, <1>4, <1>5, Zenon DEF StopInv, OnlyDispatcherRefused, SnapshotterStopped
<1> QED
  BY <1>1, <1>6, <1>8, <1>9, <1>10, PartsMakeInv, Zenon

(***************************************************************************)
(* A worker that takes a chunk from its queue has no Finish in the task    *)
(* queue.                                                                  *)
(***************************************************************************)
LEMMA TakeSnapshotKeeps ==
  ASSUME TaskInv, NEW v \in Workers, TakeSnapshot(v)
  PROVE  TaskInv'
<1> USE Parts
<1>1. snapshotQueue[v] - 1 \in 0 .. Capacity
  BY BoundsAreNaturals, SMTT(30) DEF TakeSnapshot, At, RestOK
<1>2. RestOK'
  BY <1>1, Zenon DEF TakeSnapshot, At, channel, counters, RestOK
<1>3. /\ pc[v] = "idle" /\ pc' = [pc EXCEPT ![v] = "snapshot"]
      /\ \E n \in 0 .. MaxRows : rows' = [rows EXCEPT ![v] = n]
      /\ UNCHANGED <<sending, inQueue, running, refused, signalled, stop, shutdownActive>>
  BY Zenon DEF TakeSnapshot, At, channel
<1>4. /\ pc'[v] = "snapshot"
      /\ \A h \in Goroutines : h # v => pc'[h] = pc[h]
      /\ \A w \in Workers : w # v => rows'[w] = rows[w]
  BY <1>3, ZenonT(30) DEF TaskOK
<1>5. TaskOK'
  BY <1>3, ZenonT(30) DEF TaskOK, PcValues
<1>6. SendingInv'
  BY <1>3, <1>4, Zenon DEF SendingInv
<1>7. FinishInv'
  BY <1>3, <1>4, SMTT(30) DEF FinishInv
<1>8. StopInv' /\ OnlyDispatcherRefused'
  BY <1>3, <1>4, ZenonT(30) DEF StopInv, OnlyDispatcherRefused, SnapshotterStopped
<1> QED
  BY <1>2, <1>5, <1>6, <1>7, <1>8, PartsMakeInv, Zenon

(***************************************************************************)
(* StopReplication goes on only when those it stopped are done.            *)
(***************************************************************************)
LEMMA StopKeeps ==
  ASSUME TaskInv, Stop
  PROVE  TaskInv'
<1> USE Parts
<1>1. UNCHANGED <<pc, sending, inQueue, running, rows, refused>>
  BY ZenonT(60) DEF Stop, StopReplicationChannel, StopSnapshotter, StopDispatcher, SignalDispatcher,
         FlagClosed, CloseInput, StopReturns, channel
<1>2. TaskOK' /\ SendingInv' /\ FinishInv' /\ OnlyDispatcherRefused'
  BY <1>1, Zenon DEF TaskOK, SendingInv, FinishInv, OnlyDispatcherRefused
<1>3. RestOK'
  BY Zenon DEF Stop, StopReplicationChannel, StopSnapshotter, StopDispatcher, SignalDispatcher,
         FlagClosed, CloseInput, StopReturns, StopIs, StopValues, channel, counters, RestOK
<1>4. StopInv'
  <2>1. CASE StopReplicationChannel
    BY <1>1, <2>1, ZenonT(30) DEF StopReplicationChannel, StopIs, Stopping, StopInv, SnapshotterStopped
  <2>2. CASE StopSnapshotter
    BY <1>1, <2>2, ZenonT(30) DEF StopSnapshotter, StopIs, Stopping, StopInv, SnapshotterStopped
  <2>3. CASE StopDispatcher
    BY <1>1, <2>3, ZenonT(30) DEF StopDispatcher, StopIs, Stopping, StopInv, SnapshotterStopped
  <2>4. CASE SignalDispatcher
    BY <1>1, <2>4, ZenonT(30) DEF SignalDispatcher, StopIs, Stopping, StopInv, SnapshotterStopped
  <2>5. CASE FlagClosed \/ CloseInput \/ StopReturns
    BY <1>1, <2>5, ZenonT(30) DEF FlagClosed, CloseInput, StopReturns, StopIs, Stopping, StopInv,
                      SnapshotterStopped
  <2> QED
    BY <2>1, <2>2, <2>3, <2>4, <2>5, ZenonT(30) DEF Stop
<1> QED
  BY <1>2, <1>3, <1>4, PartsMakeInv, ZenonT(30)

(***************************************************************************)
(* The invariant of the task manager and its shutdown, for every number of *)
(* workers, tasks and chunks.                                              *)
(***************************************************************************)
THEOREM TaskInvariant == Spec => []TaskInv
<1>1. Init => TaskInv
  <2> SUFFICES ASSUME Init PROVE TaskInv
    BY Zenon
  <2>1. TypeOK
    <3>1. pc \in [Goroutines -> PcValues] /\ sending \in [Goroutines -> Tasks \cup {NoTask}]
      BY Zenon DEF Init, PcValues
    <3>2. inQueue \in Seq(Tasks) /\ running \in Tasks \cup {NoTask}
      BY DEF Init
    <3>3. snapshotQueue \in [Workers -> 0 .. Capacity] /\ rows \in [Workers -> 0 .. MaxRows]
      BY BoundsAreNaturals DEF Init
    <3>4. messages \in 0 .. MaxMessages /\ records \in 0 .. MaxRecords /\ chunks \in 0 .. MaxChunks
      BY BoundsAreNaturals, SMTT(30) DEF Init
    <3> QED
      BY <3>1, <3>2, <3>3, <3>4, Zenon DEF Init, TypeOK, StopValues
  <2>2. SendingInv /\ FinishInv
    BY TasksDiffer DEF Init, SendingInv, FinishInv, Goroutines
  <2>3. StopInv /\ OnlyDispatcherRefused
    BY ZenonT(30) DEF Init, StopInv, Stopping, OnlyDispatcherRefused, Goroutines
  <2> QED
    BY <2>1, <2>2, <2>3, ZenonT(30) DEF TaskInv
<1>2. TaskInv /\ [Next]_vars => TaskInv'
  <2> SUFFICES ASSUME TaskInv, [Next]_vars PROVE TaskInv'
    BY Zenon
  <2> USE Parts
  <2>1. CASE Receiving
    BY <2>1, ReceiveKeeps, LeaveKeeps, SendKeeps, PumpKeeps, ZenonT(30) DEF Receiving, Enqueue
  <2>2. CASE Dispatching
    BY <2>2, DispatchKeeps, EnqueueRecordKeeps, FinishTaskKeeps, LeaveKeeps, SendKeeps, PumpKeeps,
       EnqueueSnapshotKeeps, SubmitSnapshotKeeps, ZenonT(30) DEF Dispatching, Enqueue
  <2>3. CASE Stop
    BY <2>3, StopKeeps, ZenonT(30)
  <2>4. CASE \E w \in Workers : Snapshotting(w)
    <3>1. PICK w \in Workers : Snapshotting(w)
      BY <2>4, Zenon
    <3>2. w \in Goroutines
      BY Zenon
    <3> QED
      BY <3>1, <3>2, TakeSnapshotKeeps, SendRowKeeps, FinishSnapshotKeeps, LeaveKeeps, SendKeeps,
         PumpKeeps, ZenonT(30) DEF Snapshotting, Enqueue
  <2>5. CASE UNCHANGED vars
    <3>1. UNCHANGED <<pc, sending, inQueue, closed, inClosed, shutdownActive, running,
                      snapshotQueue, rows, signalled, stop, messages, records, chunks, refused>>
      BY <2>5, SMTT(30) DEF vars, channel, counters
    <3>2. TypeOK' /\ OnlyDispatcherRefused'
      BY <3>1, ZenonT(30) DEF TaskInv, TypeOK, OnlyDispatcherRefused
    <3>3. SendingInv' /\ FinishInv' /\ StopInv'
      BY <3>1, Zenon DEF TaskInv, SendingInv, FinishInv, StopInv, SnapshotterStopped
    <3> QED
      BY <3>2, <3>3, ZenonT(30) DEF TaskInv
  <2> QED
    BY <2>1, <2>2, <2>3, <2>4, <2>5, ZenonT(30) DEF Next
<1> QED
  BY <1>1, <1>2, PTL DEF Spec

(***************************************************************************)
(* No snapshot worker waits for a dispatcher that has left its loop.       *)
(***************************************************************************)
THEOREM NobodyWaitsForever == Spec => []NoWaiterLeftBehind
<1>1. TaskInv => NoWaiterLeftBehind
  BY ZenonT(30) DEF TaskInv, StopInv, SnapshotterStopped, NoWaiterLeftBehind
<1> QED
  BY <1>1, TaskInvariant, PTL

(***************************************************************************)
(* An orderly shutdown refuses no message and no row of a snapshot.        *)
(***************************************************************************)
THEOREM NothingElseRefused == Spec => []OnlyDispatcherRefused
<1>1. TaskInv => OnlyDispatcherRefused
  BY ZenonT(30)  DEF TaskInv
<1> QED
  BY <1>1, TaskInvariant, PTL

(***************************************************************************)
(* The end of a chunk's snapshot is announced after all of its rows.       *)
(***************************************************************************)
THEOREM FinishComesLast == Spec => []RowsBeforeFinish
<1>1. TaskInv => RowsBeforeFinish
  BY Zenon  DEF TaskInv, FinishInv, RowsBeforeFinish
<1> QED
  BY <1>1, TaskInvariant, PTL

-------------------------------------------------------------------------------
\* The emission of events

(* The sinks the configuration names. *)
SinksConfigured ==
  \A c \in Configurations : c.sink \in {"kafka", "nats", "redis", "http", "kinesis", "sqs", "stdout"}

(* The message at hand is of the last event. *)
JobOK ==
  job # nil =>
    job = [n |-> received, table |-> job.table, topic |-> job.topic, key |-> job.key,
           value |-> job.value, tries |-> job.tries]

(* An event is in at most one of the places it can end in, and the one at  *)
(* hand is in none.                                                        *)
EventsOK ==
  /\ received \in Nat
  /\ failed \subseteq 1..received
  /\ \A a \in acked : a.n \in 1..received /\ a.n \notin failed
  /\ job # nil => received > 0 /\ received \notin failed /\ \A a \in acked : a.n # received

Ordered ==
  \A i, j \in DOMAIN stored : i < j =>
    \/ stored[i].n < stored[j].n
    \/ stored[i].n = stored[j].n /\ config.sink # "sqs"

(* What is stored is of the events so far.  In SQS, of the event at hand   *)
(* there is nothing but the very message, and so it is not stored again.   *)
StoredOK ==
  /\ \E S : stored \in Seq(S)
  /\ \A i \in DOMAIN stored : stored[i].n \in 1..received
  /\ job # nil /\ config.sink = "sqs" =>
       \A i \in DOMAIN stored : stored[i].n = received => stored[i] = Sinks["sqs"]

AckedStored ==
  \A a \in acked : a.value # nil =>
    \E i \in DOMAIN stored : stored[i].n = a.n \/ (config.sink = "sqs" /\ stored[i].value = a.value)

EmissionInv ==
  /\ config \in Configurations /\ JobOK /\ EventsOK /\ Ordered /\ StoredOK /\ AckedStored

-----------------------------------------------------------------------------
(***************************************************************************)
(* A message at the end of what is stored.                                 *)
(***************************************************************************)
LEMMA StoredAppended ==
  ASSUME NEW S, NEW s \in Seq(S), NEW x
  PROVE  /\ Append(s, x) \in Seq(S \cup {x}) /\ Len(s) \in Nat /\ DOMAIN s = 1..Len(s)
         /\ DOMAIN Append(s, x) = 1..(Len(s) + 1)
         /\ \A i \in DOMAIN s : Append(s, x)[i] = s[i]
         /\ Append(s, x)[Len(s) + 1] = x
<1>1. Len(s) \in Nat /\ DOMAIN s = 1..Len(s) /\ s \in [1..Len(s) -> S]
  BY LenProperties, ZenonT(30)
<1>2. s \in [1..Len(s) -> S \cup {x}]
  BY <1>1, ZenonT(30)
<1>3. s \in Seq(S \cup {x})
  BY <1>1, <1>2, SeqDef, SMTT(30)
<1> QED
  BY <1>1, <1>3, AppendProperties

(***************************************************************************)
(* What an event that arrives may do.                                      *)
(***************************************************************************)
Arrives ==
  /\ job = nil /\ received' = received + 1
  /\ UNCHANGED <<config, stored>>
  /\ \/ /\ \E t, topic, key, value :
             job' = [n |-> received', table |-> t, topic |-> topic, key |-> key, value |-> value, tries |-> 0]
        /\ UNCHANGED <<acked, failed>>
     \/ acked' = acked \cup {[n |-> received', value |-> nil]} /\ UNCHANGED <<job, failed>>
     \/ failed' = failed \cup {received'} /\ UNCHANGED <<job, acked>>

(***************************************************************************)
(* An event that arrives keeps the invariant: its number is a new one.      *)
(***************************************************************************)
LEMMA ArrivesKeeps == EmissionInv /\ Arrives => EmissionInv'
<1> SUFFICES ASSUME EmissionInv, Arrives PROVE EmissionInv'
  BY Zenon
<1>1. received \in Nat /\ received' \in Nat /\ received' \notin 1..received /\ 1..received \subseteq 1..received'
      /\ received' \in 1..received'
  BY SMTT(30) DEF EmissionInv, EventsOK, Arrives
<1>2. JobOK'
  BY SMTT(30) DEF Arrives, JobOK
<1>3. EventsOK'
  <2>1. /\ failed \subseteq 1..received /\ received' > 0
        /\ \A a \in acked : a.n \in 1..received /\ a.n \notin failed
    BY <1>1, SMTT(30) DEF EmissionInv, EventsOK, Arrives
  <2>2. CASE UNCHANGED <<acked, failed>>
    BY <1>1, <2>1, <2>2, SMTT(30) DEF EventsOK
  <2>3. CASE job' = nil /\ failed' = failed /\ acked' = acked \cup {[n |-> received', value |-> nil]}
    <3>1. \A a \in acked' : a \in acked \/ a.n = received'
      BY <2>3, SMTT(30)
    <3> QED
      BY <1>1, <2>1, <2>3, <3>1, Zenon DEF EventsOK
  <2>4. CASE job' = nil /\ failed' = failed \cup {received'} /\ acked' = acked
    BY <1>1, <2>1, <2>4, Zenon DEF EventsOK
  <2> QED
    BY <2>2, <2>3, <2>4, ZenonT(30) DEF Arrives
<1>4. Ordered'
  BY Zenon DEF EmissionInv, Ordered, Arrives
<1>5. StoredOK'
  <2>1. \E S : stored' \in Seq(S)
    BY ZenonT(60) DEF EmissionInv, StoredOK, Arrives
  <2>2. \A i \in DOMAIN stored' : stored'[i].n \in 1..received' /\ stored'[i].n # received'
    BY <1>1, ZenonT(60) DEF EmissionInv, StoredOK, Arrives
  <2> QED
    BY <2>1, <2>2, Zenon DEF StoredOK
<1>6. AckedStored'
  <2>1. \A a \in acked' : a \in acked \/ a.value = nil
    BY SMTT(30) DEF Arrives
  <2> QED
    BY <2>1, Zenon DEF EmissionInv, AckedStored, Arrives
<1> QED
  BY <1>2, <1>3, <1>4, <1>5, <1>6, ZenonT(30) DEF EmissionInv, Arrives

(***************************************************************************)
(* The events arrive in this way.                                          *)
(***************************************************************************)
LEMMA EventArrives ==
  ASSUME NEW t
  PROVE  /\ OnReadEvent(t) => Arrives
         /\ OnInsertEvent(t) => Arrives
         /\ \A old : OnUpdateEvent(t, old) => Arrives
         /\ \A old, tombstone : OnDeleteEvent(t, old, tombstone) => Arrives
         /\ OnTruncateEvent(t) => Arrives
         /\ OnChunkCompressedEvent(t) => Arrives
         /\ OnChunkDecompressedEvent(t) => Arrives
<1>1. OnReadEvent(t) => Arrives
  BY Zenon DEF OnReadEvent, NewEvent, Idle, emit0, Arrives, Acknowledge
<1>2. OnInsertEvent(t) => Arrives
  BY Zenon DEF OnInsertEvent, NewEvent, Idle, emit0, Arrives, Acknowledge
<1>3. \A old : OnUpdateEvent(t, old) => Arrives
  BY Zenon DEF OnUpdateEvent, NewEvent, Idle, emit0, Arrives, Acknowledge
<1>4. \A old, tombstone : OnDeleteEvent(t, old, tombstone) => Arrives
  BY Zenon DEF OnDeleteEvent, NewEvent, Idle, emit0, Arrives, Acknowledge
<1>5. OnTruncateEvent(t) => Arrives
  BY Zenon DEF OnTruncateEvent, NewEvent, Idle, emit0, Arrives, Acknowledge
<1>6. OnChunkCompressedEvent(t) => Arrives
  BY Zenon DEF OnChunkCompressedEvent, NewEvent, Idle, emit0, Arrives, Acknowledge
<1>7. OnChunkDecompressedEvent(t) => Arrives
  BY Zenon DEF OnChunkDecompressedEvent, NewEvent, Idle, emit0, Arrives, Acknowledge
<1> QED
  BY <1>1, <1>2, <1>3, <1>4, <1>5, <1>6, <1>7, ZenonT(30)

(***************************************************************************)
(* Logical messages, commits and rows that do not convert arrive so, too.   *)
(***************************************************************************)
LEMMA OtherArrives ==
  /\ \A transactional : OnMessageEvent(transactional) => Arrives
  /\ OnTransactionFinishedEvent => Arrives
  /\ ConversionFails => Arrives
<1>1. \A transactional : OnMessageEvent(transactional) => Arrives
  BY Zenon DEF OnMessageEvent, emitMessageEvent, NewEvent, Idle, Arrives
<1>2. OnTransactionFinishedEvent => Arrives
  BY Zenon DEF OnTransactionFinishedEvent, NewEvent, Idle, Arrives, Acknowledge
<1>3. ConversionFails => Arrives
  BY Zenon DEF ConversionFails, NewEvent, Idle, Arrives
<1> QED
  BY <1>1, <1>2, <1>3, ZenonT(30)

-----------------------------------------------------------------------------
(* The sink.                                                              *)

(***************************************************************************)
(* Every sink sends a message with the number of its event.                *)
(***************************************************************************)
LEMMA SentIs ==
  ASSUME SinksConfigured, EmissionInv, job # nil
  PROVE  Sinks[config.sink].n = received
<1>1. job.n = received
  BY DEF EmissionInv, JobOK
<1>2. config.sink \in {"kafka", "nats", "redis", "http", "kinesis", "sqs", "stdout"}
  BY ZenonT(30)  DEF SinksConfigured, EmissionInv
<1> QED
  BY <1>1, <1>2, SMTT(30) DEF Sinks, kafkaSink, natsSink, redisSink, httpSink, awsKinesisSink, awsSqsSink, stdoutSink, Sent

(***************************************************************************)
(* Storing keeps the order, and then the event is in the sink.             *)
(***************************************************************************)
LEMMA StoreKeeps ==
  ASSUME SinksConfigured, EmissionInv, job # nil, Store, config' = config
  PROVE  /\ Ordered' /\ \E S : stored' \in Seq(S)
         /\ \A i \in DOMAIN stored' : stored'[i].n \in 1..received
         /\ config.sink = "sqs" => \A i \in DOMAIN stored' : stored'[i].n = received => stored'[i] = Sinks["sqs"]
         /\ \A i \in DOMAIN stored : i \in DOMAIN stored' /\ stored'[i] = stored[i]
         /\ \E i \in DOMAIN stored' : stored'[i].n = received \/ (config.sink = "sqs" /\ stored'[i].value = job.value)
<1> DEFINE message == Sinks[config.sink]
<1>1. message.n = received /\ received \in Nat /\ received \in 1..received
  BY SentIs, SMTT(30) DEF EmissionInv, EventsOK
<1>2. PICK S : stored \in Seq(S)
  BY Zenon  DEF EmissionInv, StoredOK
<1>3. /\ \A i \in DOMAIN stored : stored[i].n \in 1..received
      /\ config.sink = "sqs" => \A i \in DOMAIN stored : stored[i].n = received => stored[i] = message
      /\ Ordered
  BY Zenon  DEF EmissionInv, StoredOK
<1>4. CASE Deduplicated(message)
  <2>1. stored' = stored /\ config.sink = "sqs" /\ \E i \in DOMAIN stored : stored[i].value = message.value
    BY <1>4, Zenon DEF Store, Deduplicated, MessageDeduplicationId
  <2>2. message.value = job.value
    BY <2>1, SMTT(30) DEF Sinks, awsSqsSink, Sent
  <2> HIDE DEF message
  <2>3. Ordered'
    BY <1>3, <2>1, Zenon DEF Ordered
  <2>4. config.sink = "sqs" => \A i \in DOMAIN stored' : stored'[i].n = received => stored'[i] = Sinks["sqs"]
    BY <1>3, <2>1, Zenon DEF message
  <2> QED
    BY <1>1, <1>2, <1>3, <2>1, <2>2, <2>3, <2>4, ZenonT(60)
<1>5. CASE ~Deduplicated(message)
  <2> HIDE DEF message
  <2>1. stored' = Append(stored, message)
    BY <1>5, ZenonT(30) DEF Store, message
  <2>2. /\ stored' \in Seq(S \cup {message}) /\ Len(stored) \in Nat /\ DOMAIN stored = 1..Len(stored)
        /\ DOMAIN stored' = 1..(Len(stored) + 1)
        /\ \A i \in DOMAIN stored : stored'[i] = stored[i]
        /\ stored'[Len(stored) + 1] = message
    BY <1>2, <2>1, StoredAppended, SMTT(30)
  <2>3. /\ \A i \in DOMAIN stored' : i \in DOMAIN stored \/ i = Len(stored) + 1
        /\ \A i \in DOMAIN stored : i \in DOMAIN stored' /\ i # Len(stored) + 1
        /\ Len(stored) + 1 \in DOMAIN stored'
    BY <2>2, SMTT(30)
  <2>4. \A i \in DOMAIN stored' : stored'[i].n \in 1..received
    BY <1>1, <1>3, <2>2, <2>3, ZenonT(30)
  <2>5. config.sink = "sqs" => \A i \in DOMAIN stored : stored[i].n # received
    BY <1>3, <1>5, ZenonT(30) DEF Deduplicated, MessageDeduplicationId
  <2>6. Ordered'
    <3> SUFFICES ASSUME NEW i \in DOMAIN stored', NEW j \in DOMAIN stored', i < j
                 PROVE  \/ stored'[i].n < stored'[j].n
                        \/ stored'[i].n = stored'[j].n /\ config'.sink # "sqs"
      BY ZenonT(30)  DEF Ordered
    <3>1. CASE j \in DOMAIN stored
      <4>1. i \in DOMAIN stored
        BY <2>2, <3>1, SMTT(30)
      <4> QED
        BY <1>3, <2>2, <3>1, <4>1, SMTT(30) DEF Ordered
    <3>2. CASE j = Len(stored) + 1
      <4>1. i \in DOMAIN stored
        BY <2>2, <3>2, SMTT(30)
      <4>2. stored[i].n \in 1..received /\ (config.sink = "sqs" => stored[i].n # received)
        BY <1>3, <2>5, <4>1, ZenonT(30)
      <4>3. stored[i].n < received \/ (stored[i].n = received /\ config.sink # "sqs")
        BY <1>1, <4>2, SMTT(30)
      <4>4. stored'[i] = stored[i] /\ stored'[j].n = received
        BY <1>1, <2>2, <3>2, <4>1, ZenonT(30)
      <4> QED
        BY <4>3, <4>4, ZenonT(30)
    <3> QED
      BY <2>3, <3>1, <3>2, ZenonT(30)
  <2>7. config.sink = "sqs" => message = Sinks["sqs"]
    BY ZenonT(30)  DEF message
  <2> QED
    BY <1>1, <2>2, <2>3, <2>4, <2>5, <2>6, <2>7, ZenonT(30)
<1> QED
  BY <1>4, <1>5, ZenonT(60)

(***************************************************************************)
(* Another try keeps the message, the last one gives the event up.         *)
(***************************************************************************)
LEMMA RetryKeeps ==
  ASSUME EmissionInv, job # nil, Retry, received' = received
  PROVE  /\ JobOK' /\ EventsOK' /\ acked' = acked
         /\ job' # nil => Sinks["sqs"]' = Sinks["sqs"]
<1>1. job.n = received /\ received \in Nat /\ received \in 1..received
  BY DEF EmissionInv, JobOK, EventsOK
<1>2. CASE job.tries < MaxRetries
  <2>1. job' = [job EXCEPT !.tries = @ + 1] /\ UNCHANGED <<acked, failed>>
    BY <1>2, ZenonT(30) DEF Retry
  <2>2. /\ job' = [n |-> received, table |-> job.table, topic |-> job.topic, key |-> job.key,
                   value |-> job.value, tries |-> job.tries + 1]
    BY <2>1, SMTT(30) DEF EmissionInv, JobOK
  <2>3. JobOK'
    BY <2>2, ZenonT(30) DEF JobOK
  <2>4. EventsOK'
    BY <2>1, ZenonT(30) DEF EmissionInv, EventsOK
  <2>5. Sinks["sqs"]' = Sinks["sqs"]
    BY <1>1, <2>2, Zenon DEF Sinks, awsSqsSink, Sent
  <2> QED
    BY <2>1, <2>3, <2>4, <2>5, ZenonT(30)
<1>3. CASE ~(job.tries < MaxRetries)
  <2>1. job' = nil /\ failed' = failed \cup {received} /\ acked' = acked
    BY <1>1, <1>3, ZenonT(30) DEF Retry
  <2> QED
    BY <1>1, <2>1, ZenonT(30) DEF EmissionInv, JobOK, EventsOK
<1> QED
  BY <1>2, <1>3, ZenonT(30)

(***************************************************************************)
(* The answers of a sink: stored, refused, or late.                         *)
(***************************************************************************)
LEMMA SinkKeeps ==
  ASSUME SinksConfigured, EmissionInv, SinkAccepts \/ SinkFails \/ SinkTimesOut
  PROVE  EmissionInv'
<1>1. job # nil /\ UNCHANGED <<config, received>> /\ config' \in Configurations
  BY Zenon DEF SinkAccepts, SinkFails, SinkTimesOut, EmissionInv
<1>2. CASE SinkAccepts
  <2>1. Store /\ job' = nil /\ failed' = failed /\ acked' = acked \cup {[n |-> job.n, value |-> job.value]}
    BY <1>2, Zenon DEF SinkAccepts, Acknowledge
  <2>a. job.n = received
    BY <1>1, SMTT(30) DEF EmissionInv, JobOK
  <2>b. \A a \in acked' : a \in acked \/ (a.n = received /\ a.value = job.value)
    BY <2>1, <2>a, SMTT(30)
  <2>2. JobOK'
    BY <2>1, Zenon DEF JobOK
  <2>3. EventsOK'
    BY <1>1, <2>1, <2>b, SMTT(30) DEF EmissionInv, EventsOK
  <2>4. Ordered' /\ StoredOK'
    BY <1>1, <2>1, StoreKeeps, ZenonT(30) DEF StoredOK
  <2>5. AckedStored'
    <3> DEFINE Shown(a, list) == \E i \in DOMAIN list :
                  list[i].n = a.n \/ (config.sink = "sqs" /\ list[i].value = a.value)
    <3>1. ASSUME NEW a \in acked, a.value # nil PROVE Shown(a, stored')
      <4>1. PICK i \in DOMAIN stored : stored[i].n = a.n \/ (config.sink = "sqs" /\ stored[i].value = a.value)
        BY <3>1, Zenon DEF EmissionInv, AckedStored
      <4>2. i \in DOMAIN stored' /\ stored'[i] = stored[i]
        BY <1>1, <2>1, StoreKeeps, Zenon
      <4> QED
        BY <4>1, <4>2, Zenon
    <3>2. ASSUME NEW a, a.n = received, a.value = job.value PROVE Shown(a, stored')
      BY <1>1, <2>1, <3>2, StoreKeeps, Zenon
    <3> QED
      BY <1>1, <2>b, <3>1, <3>2, Zenon DEF AckedStored
  <2> QED
    BY <1>1, <2>2, <2>3, <2>4, <2>5, ZenonT(30) DEF EmissionInv
<1>3. CASE SinkFails
  <2>1. Retry /\ stored' = stored
    BY <1>3, ZenonT(30) DEF SinkFails
  <2>2. Ordered' /\ StoredOK'
    BY <1>1, <2>1, RetryKeeps, ZenonT(60) DEF EmissionInv, Ordered, StoredOK
  <2>3. AckedStored'
    BY <1>1, <2>1, RetryKeeps, Zenon DEF EmissionInv, AckedStored
  <2> QED
    BY <1>1, <2>1, <2>2, <2>3, RetryKeeps, ZenonT(30) DEF EmissionInv
<1>4. CASE SinkTimesOut
  <2>1. Retry /\ Store
    BY <1>4, ZenonT(30) DEF SinkTimesOut
  <2>2. Ordered' /\ StoredOK'
    BY <1>1, <2>1, RetryKeeps, StoreKeeps, SMTT(30) DEF StoredOK
  <2>3. AckedStored'
    BY <1>1, <2>1, RetryKeeps, StoreKeeps, ZenonT(30) DEF EmissionInv, AckedStored
  <2> QED
    BY <1>1, <2>1, <2>2, <2>3, RetryKeeps, ZenonT(30) DEF EmissionInv
<1> QED
  BY <1>2, <1>3, <1>4, ZenonT(30)

(***************************************************************************)
(* Steps of the tables and the panic.                                      *)
(***************************************************************************)
LEMMA EmissionRests ==
  ASSUME EmissionInv, UNCHANGED <<config, job, received, stored, acked, failed>>
  PROVE  EmissionInv'
<1>1. JobOK' /\ EventsOK' /\ Ordered' /\ AckedStored'
  BY SMTT(30) DEF EmissionInv, JobOK, EventsOK, Ordered, AckedStored
<1>2. Sinks["sqs"]' = Sinks["sqs"]
  BY Zenon DEF Sinks, awsSqsSink, Sent
<1>3. StoredOK'
  BY <1>2, Zenon DEF EmissionInv, StoredOK
<1> QED
  BY <1>1, <1>3, ZenonT(30) DEF EmissionInv

(***************************************************************************)
(* The invariant of the emission, for configurations that name sinks.      *)
(***************************************************************************)
LEMMA EmissionInvariant ==
  ASSUME SinksConfigured
  PROVE  EmitterSpec => []EmissionInv
<1>1. NewEventEmitter => EmissionInv
  <2> SUFFICES ASSUME NewEventEmitter PROVE EmissionInv
    BY ZenonT(30)
  <2>1. stored \in Seq({}) /\ DOMAIN stored = {}
    BY SMTT(30) DEF NewEventEmitter
  <2> QED
    BY <2>1, ZenonT(30) DEF NewEventEmitter, EmissionInv, JobOK, EventsOK, Ordered, StoredOK, AckedStored
<1>2. EmissionInv /\ [EmitterNext]_emitterVars => EmissionInv'
  <2> SUFFICES ASSUME EmissionInv, [EmitterNext]_emitterVars PROVE EmissionInv'
    BY Zenon
  <2>1. ASSUME NEW t, AddColumn(t) \/ OnRelationEvent(t) \/ OnHypertableAddedEvent(t) PROVE EmissionInv'
    BY <2>1, EmissionRests, ZenonT(30) DEF AddColumn, OnRelationEvent, OnHypertableAddedEvent
  <2>2. CASE SinkPanics \/ UNCHANGED emitterVars
    BY <2>2, EmissionRests, ZenonT(30) DEF SinkPanics, emitterVars
  <2> QED
    BY <2>1, <2>2, ArrivesKeeps, EventArrives, OtherArrives, SinkKeeps, Zenon DEF EmitterNext
<1> QED
  BY <1>1, <1>2, PTL DEF EmitterSpec

(***************************************************************************)
(* The sink holds the events in the order they were received, and those    *)
(* that count as processed, whatever retries and lost answers there were.  *)
(***************************************************************************)
THEOREM SinkFollows ==
  ASSUME SinksConfigured
  PROVE  EmitterSpec => []SinkFollowsEvents
<1>1. EmissionInv => SinkFollowsEvents
  BY Zenon DEF EmissionInv, EventsOK, Ordered, AckedStored, SinkFollowsEvents
<1> QED
  BY <1>1, EmissionInvariant, PTL

-------------------------------------------------------------------------------
\* The schemas of what is emitted

(* The configuration names tables, and none is called as the stream of     *)
(* logical messages is here.                                               *)
TablesConfigured == "message" \notin Tables /\ \A c \in Configurations : c.tables \subseteq Tables

(* A table as it was created, up to columns that only the database has. *)
Unaltered(t) == t \in Tables \ reused /\ (t \in Aggregates => db[t] = Original(t))

(* What describes a row of the columns the table was created with. *)
OriginalStream(t, stream) ==
  /\ stream.tableKeyColumns = KeyIndexColumns(t)
  /\ stream.keySchema = KeySchema(t, Original(t))
  /\ stream.envelopeSchema = EnvelopeSchema(Original(t))

(* The envelope lists the fields of the payload and the columns of its     *)
(* rows, the key's schema the columns of the key, but for a (de)compression. *)
Described(key, value, t) ==
  value.schema # nil =>
    /\ DOMAIN value.payload \subseteq value.schema.fields
    /\ \A f \in DOMAIN value.payload \cap {"before", "after"} :
         value.payload[f] # nil => value.payload[f] \subseteq value.schema.row
    /\ key # nil /\ PrimaryKey[t] # {} /\ value.payload["op"] # "$" => key.payload \subseteq key.schema

(* The message is described as long as its table is as it was created.     *)
Shown(message) ==
  /\ message.table \in Tables \cup {nil}
  /\ message.table # nil /\ Unaltered(message.table) =>
       Described(message.key, message.value, message.table)

(* The catalog has the columns such a table was created with, and so has   *)
(* its stream; the message at hand and those stored are described.         *)
ColumnsOK ==
  /\ DOMAIN db = Tables /\ DOMAIN catalog = Tables
  /\ \A t \in Tables : Unaltered(t) => catalog[t] = Original(t)
  /\ \A t \in Tables \ reused : Original(t) \subseteq db[t]
StreamsOK == \A t \in DOMAIN streams : Unaltered(t) => OriginalStream(t, streams[t])
JobShown == job # nil => Shown(job) /\ job.value = Envelope(job.value.schema, job.value.payload)
StoredShown == \A i \in DOMAIN stored : Shown(stored[i])

SchemaInv == ColumnsOK /\ StreamsOK /\ JobShown /\ StoredShown

(***************************************************************************)
(* A key of the columns of a primary key is described by the key's schema. *)
(***************************************************************************)
LEMMA KeyDescribed ==
  ASSUME NEW t \in Tables, NEW S, S \subseteq KeyIndexColumns(t), PrimaryKey[t] # {}
  PROVE  S \subseteq KeySchema(t, Original(t))
  BY DEF KeyIndexColumns, KeySchema, Original

(***************************************************************************)
(* Steps that make no message and alter tables at most.                    *)
(***************************************************************************)
LEMMA SchemaRests ==
  ASSUME SchemaInv, UNCHANGED <<streams, job, stored>>, ColumnsOK',
         \A t : Unaltered(t)' => Unaltered(t)
  PROVE  SchemaInv'
<1>1. \A m : Shown(m) => Shown(m)'
  BY Zenon DEF Shown
<1>2. StreamsOK'
  BY Zenon DEF SchemaInv, StreamsOK
<1>3. JobShown' /\ StoredShown'
  BY <1>1, Zenon DEF SchemaInv, JobShown, StoredShown
<1> QED
  BY <1>2, <1>3, Zenon DEF SchemaInv

(***************************************************************************)
(* A column is added in the database alone; the continuous aggregate counts*)
(* as altered then.                                                        *)
(***************************************************************************)
LEMMA AddColumnKeeps ==
  ASSUME SchemaInv, NEW t \in Tables, AddColumn(t)
  PROVE  SchemaInv'
<1>1. PICK c : c \notin UNION {db[u] : u \in Tables} /\ db' = [db EXCEPT ![t] = @ \cup {c}]
  BY Zenon DEF AddColumn
<1>2. UNCHANGED <<catalog, reused, streams, job, stored>>
  BY Zenon DEF AddColumn
<1>3. DOMAIN db = Tables
  BY Zenon DEF SchemaInv, ColumnsOK
<1>4. c \notin db[t] /\ db'[t] = db[t] \cup {c} /\ DOMAIN db' = Tables
  BY <1>1, <1>3
<1>5. \A u : u # t => db'[u] = db[u]
  BY <1>1, <1>3
<1>6. t \notin reused => Original(t) \subseteq db[t] /\ Original(t) # db'[t]
  <2>1. t \notin reused => Original(t) \subseteq db[t]
    BY Zenon DEF SchemaInv, ColumnsOK
  <2> QED
    BY <1>4, <2>1
<1>7. \A u : Unaltered(u)' => Unaltered(u)
  BY <1>2, <1>5, <1>6, Zenon DEF Unaltered
<1>8. ColumnsOK'
  <2>1. \A u \in Tables \ reused : Original(u) \subseteq db'[u]
    BY <1>4, <1>5, <1>6, Zenon DEF SchemaInv, ColumnsOK
  <2> QED
    BY <1>2, <1>4, <1>7, <2>1, Zenon DEF SchemaInv, ColumnsOK
<1> QED
  BY <1>2, <1>7, <1>8, SchemaRests, Zenon

(***************************************************************************)
(* Columns are read again for the continuous aggregate alone, and change   *)
(* nothing while it is as it was created.                                  *)
(***************************************************************************)
LEMMA OnRelationKeeps ==
  ASSUME SchemaInv, NEW t \in Tables, OnRelationEvent(t)
  PROVE  SchemaInv'
<1>1. UNCHANGED <<db, reused, streams, job, stored>>
  BY Zenon DEF OnRelationEvent
<1>2. \A u : Unaltered(u)' <=> Unaltered(u)
  BY <1>1, Zenon DEF Unaltered
<1>3. DOMAIN catalog = Tables /\ DOMAIN db = Tables
  BY Zenon DEF SchemaInv, ColumnsOK
<1>4. catalog' = IF t \in Aggregates THEN [catalog EXCEPT ![t] = db[t]] ELSE catalog
  BY Zenon DEF OnRelationEvent
<1>5. DOMAIN catalog' = Tables
  BY <1>3, <1>4
<1>6. ASSUME NEW u \in Tables, Unaltered(u) PROVE catalog'[u] = Original(u)
  <2>1. catalog[u] = Original(u)
    BY <1>6, Zenon DEF SchemaInv, ColumnsOK
  <2>2. CASE t \in Aggregates /\ u = t
    <3>1. catalog'[u] = db[u]
      BY <1>3, <1>4, <2>2
    <3> QED
      BY <1>6, <2>2, <3>1, Zenon DEF Unaltered
  <2>3. CASE ~(t \in Aggregates /\ u = t)
    BY <1>3, <1>4, <2>1, <2>3
  <2> QED
    BY <2>2, <2>3, Zenon
<1>7. ColumnsOK'
  BY <1>1, <1>2, <1>3, <1>5, <1>6, Zenon DEF SchemaInv, ColumnsOK
<1> QED
  BY <1>1, <1>2, <1>7, SchemaRests, Zenon

(***************************************************************************)
(* A table created again counts as altered.                                *)
(***************************************************************************)
LEMMA OnHypertableAddedKeeps ==
  ASSUME SchemaInv, NEW t \in Tables, OnHypertableAddedEvent(t)
  PROVE  SchemaInv'
<1>1. /\ UNCHANGED <<streams, job, stored>> /\ reused' = reused \cup {t}
      /\ db' = [db EXCEPT ![t] = PrimaryKey[t] \cup Dimensions[t] \cup {"d"}]
      /\ catalog' = [catalog EXCEPT ![t] = db'[t]]
  BY Zenon DEF OnHypertableAddedEvent
<1>2. DOMAIN catalog = Tables /\ DOMAIN db = Tables
  BY Zenon DEF SchemaInv, ColumnsOK
<1>3. DOMAIN catalog' = Tables /\ DOMAIN db' = Tables
      /\ \A u : u # t => db'[u] = db[u] /\ catalog'[u] = catalog[u]
  BY <1>1, <1>2
<1>4. \A u : Unaltered(u)' => Unaltered(u) /\ u # t
  BY <1>1, <1>3, Zenon DEF Unaltered
<1>5. ColumnsOK'
  BY <1>1, <1>3, <1>4, Zenon DEF SchemaInv, ColumnsOK
<1> QED
  BY <1>1, <1>4, <1>5, SchemaRests, Zenon

-----------------------------------------------------------------------------
(***************************************************************************)
(* The stream of such a table, kept or made now, describes the columns the *)
(* table was created with.                                                 *)
(***************************************************************************)
LEMMA StreamIs ==
  ASSUME TablesConfigured, SchemaInv, NEW t \in Tables, Unaltered(t)
  PROVE  OriginalStream(t, GetOrCreateStream(t))
<1>1. ASSUME t \in DOMAIN streams PROVE OriginalStream(t, streams[t])
  BY <1>1, Zenon DEF SchemaInv, StreamsOK
<1>2. catalog[t] = Original(t) /\ t # "message"
  BY Zenon DEF TablesConfigured, SchemaInv, ColumnsOK
<1>3. OriginalStream(t, createStream(t))
  BY <1>2, SMTT(30) DEF createStream, NewTableStream, OriginalStream
<1> QED
  BY <1>1, <1>3, Zenon DEF GetOrCreateStream, getStream

(* A payload of which the envelope lists all fields and columns. *)
PayloadFits(payload, columns) ==
  /\ DOMAIN payload \subseteq {"before", "after", "source", "op", "tsdb_op", "ts_ms"}
  /\ \A f \in DOMAIN payload \cap {"before", "after"} : payload[f] # nil => payload[f] \subseteq columns

(* The key's schema lists the columns of a primary key. *)
KeyFits(t, keyValues) == PrimaryKey[t] # {} => keyValues \subseteq KeySchema(t, Original(t))

(***************************************************************************)
(* A fitting payload and key are described by the schemas of such a stream.*)
(***************************************************************************)
LEMMA JobDescribed ==
  ASSUME NEW t \in Tables, NEW stream, OriginalStream(t, stream), NEW keyValues, NEW payload,
         PayloadFits(payload, Original(t)), payload["op"] # "$" => KeyFits(t, keyValues)
  PROVE  Described(Envelope(stream.keySchema, keyValues), Envelope(stream.envelopeSchema, payload), t)
  BY DEF OriginalStream, PayloadFits, KeyFits, Described, Envelope, EnvelopeSchema

(***************************************************************************)
(* emit0 with a payload and a key that fit (eventemitter.go:359).          *)
(***************************************************************************)
LEMMA EmitKeeps ==
  ASSUME TablesConfigured, SchemaInv, NEW t \in Tables, NEW keyValues, NEW payload,
         emit0(t, keyValues, payload), job = nil,
         Unaltered(t) => PayloadFits(payload, Original(t)) /\ (payload["op"] # "$" => KeyFits(t, keyValues))
  PROVE  SchemaInv'
<1> DEFINE stream == GetOrCreateStream(t)
<1>1. UNCHANGED <<db, catalog, reused, stored>> /\ streams' = With(Field(t, stream), streams)
  BY Zenon DEF emit0, tables
<1>2. \/ job' = nil
      \/ job' = [n |-> received', table |-> t, topic |-> stream.topicName,
                 key |-> Envelope(stream.keySchema, keyValues),
                 value |-> Envelope(stream.envelopeSchema, payload), tries |-> 0]
  BY Zenon DEF emit0
<1>3. Unaltered(t) => OriginalStream(t, stream)
  BY StreamIs, Zenon
<1> HIDE DEF stream
<1>4. \A u : Unaltered(u)' <=> Unaltered(u)
  BY <1>1, Zenon DEF Unaltered
<1>5. ColumnsOK' /\ StoredShown'
  BY <1>1, <1>4, Zenon DEF SchemaInv, ColumnsOK, StoredShown, Shown
<1>6. StreamsOK'
  <2>1. /\ DOMAIN streams' = DOMAIN streams \cup {t} /\ streams'[t] = stream
        /\ \A n \in DOMAIN streams : n # t => streams'[n] = streams[n]
    BY <1>1 DEF With, Field
  <2> QED
    BY <1>3, <1>4, <2>1, Zenon DEF SchemaInv, StreamsOK
<1>7. ASSUME job' # nil PROVE JobShown'
  <2>1. /\ job'.table = t /\ job'.key = Envelope(stream.keySchema, keyValues)
        /\ job'.value = Envelope(stream.envelopeSchema, payload)
    BY <1>2, <1>7, SMTT(30)
  <2>2. job'.value = Envelope(job'.value.schema, job'.value.payload)
    BY <2>1 DEF Envelope
  <2>3. Unaltered(t) => Described(job'.key, job'.value, t)
    BY <1>3, <2>1, JobDescribed, Zenon
  <2> QED
    BY <1>4, <2>1, <2>2, <2>3, Zenon DEF JobShown, Shown
<1> QED
  BY <1>5, <1>6, <1>7, Zenon DEF SchemaInv, JobShown

-----------------------------------------------------------------------------
(***************************************************************************)
(* The payloads of the events fit if their rows do: before and after are   *)
(* the only fields with columns.                                           *)
(***************************************************************************)
LEMMA PayloadsFit ==
  ASSUME NEW columns, NEW before, before # nil => before \subseteq columns,
         NEW after, after # nil => after \subseteq columns, NEW source, NEW tombstone
  PROVE  /\ PayloadFits(ReadEvent(after, source), columns)
         /\ PayloadFits(CreateEvent(after, source), columns)
         /\ PayloadFits(UpdateEvent(before, after, source), columns)
         /\ PayloadFits(DeleteEvent(before, source, tombstone), columns)
         /\ PayloadFits(TruncateEvent(source), columns)
         /\ PayloadFits(CompressionEvent(source), columns)
         /\ PayloadFits(DecompressionEvent(source), columns)
<1>1. \A op : PayloadFits(Event(op, source), columns)
  BY DEF PayloadFits, Event
<1>2. ASSUME NEW f, NEW g, PayloadFits(f, columns), PayloadFits(g, columns)
      PROVE  PayloadFits(With(f, g), columns)
  BY <1>2 DEF PayloadFits, With
<1>3. PayloadFits(Field("after", after), columns) /\ PayloadFits(Field("after", nil), columns)
  BY DEF PayloadFits, Field
<1>4. \A op : PayloadFits(Field("tsdb_op", op), columns)
  BY DEF PayloadFits, Field
<1>5. PayloadFits(<<>>, columns)
  BY DEF PayloadFits
<1>6. PayloadFits(Present("before", before), columns) /\ PayloadFits(Present("after", after), columns)
  <2>1. before # nil => PayloadFits(Field("before", before), columns)
    BY DEF PayloadFits, Field
  <2> QED
    BY <1>3, <1>5, <2>1, Zenon DEF Present
<1>7. PayloadFits(ReadEvent(after, source), columns) /\ PayloadFits(CreateEvent(after, source), columns)
  BY <1>1, <1>2, <1>3, Zenon DEF ReadEvent, CreateEvent
<1>8. PayloadFits(UpdateEvent(before, after, source), columns)
  BY <1>1, <1>2, <1>6, Zenon DEF UpdateEvent
<1>9. PayloadFits(DeleteEvent(before, source, tombstone), columns)
  <2>1. PayloadFits(IF tombstone THEN Field("after", nil) ELSE <<>>, columns)
    BY <1>3, <1>5, Zenon
  <2> QED
    BY <1>1, <1>2, <1>6, <2>1, Zenon DEF DeleteEvent
<1>10. /\ PayloadFits(TruncateEvent(source), columns)
       /\ PayloadFits(CompressionEvent(source), columns) /\ PayloadFits(DecompressionEvent(source), columns)
  BY <1>1, <1>2, <1>4, Zenon DEF TruncateEvent, CompressionEvent, DecompressionEvent
<1> QED
  BY <1>7, <1>8, <1>9, <1>10, Zenon

(***************************************************************************)
(* What is converted of a row are columns of the catalog.                  *)
(***************************************************************************)
LEMMA ConvertedFits ==
  ASSUME SchemaInv, NEW t \in Tables, Unaltered(t), NEW values
  PROVE  convertColumnValues(t, values) # nil => convertColumnValues(t, values) \subseteq Original(t)
<1>1. catalog[t] = Original(t)
  BY Zenon DEF SchemaInv, ColumnsOK
<1> QED
  BY <1>1, Zenon DEF convertColumnValues

(***************************************************************************)
(* The key of a row has columns of the table's key index alone.            *)
(***************************************************************************)
LEMMA RowKeyFits ==
  ASSUME TablesConfigured, SchemaInv, NEW t \in Tables, Unaltered(t), NEW values
  PROVE  KeyFits(t, RowKey(t, values))
<1>1. RowKey(t, values) \subseteq KeyIndexColumns(t)
  BY StreamIs, Zenon DEF RowKey, Key, OriginalStream
<1> QED
  BY <1>1, KeyDescribed, Zenon DEF KeyFits

(***************************************************************************)
(* The events of tables.                                                   *)
(***************************************************************************)
LEMMA EventKeeps ==
  ASSUME TablesConfigured, SchemaInv, NEW t \in Tables
  PROVE  /\ OnReadEvent(t) => SchemaInv'
         /\ OnInsertEvent(t) => SchemaInv'
         /\ \A old : OnUpdateEvent(t, old) => SchemaInv'
         /\ \A old, tombstone : OnDeleteEvent(t, old, tombstone) => SchemaInv'
         /\ OnTruncateEvent(t) => SchemaInv'
         /\ OnChunkCompressedEvent(t) => SchemaInv'
         /\ OnChunkDecompressedEvent(t) => SchemaInv'
<1>1. KeyFits(t, {})
  BY Zenon DEF KeyFits
<1>2. ASSUME OnReadEvent(t) PROVE SchemaInv'
  <2>1. job = nil /\ emit0(t, RowKey(t, db[t]), ReadEvent(convertColumnValues(t, db[t]), RowSource(t, TRUE)))
    BY <1>2, Zenon DEF OnReadEvent, NewEvent, Idle
  <2> QED
    BY <2>1, EmitKeeps, PayloadsFit, ConvertedFits, RowKeyFits, Zenon
<1>3. ASSUME OnInsertEvent(t) PROVE SchemaInv'
  <2>1. job = nil /\ emit0(t, RowKey(t, db[t]), CreateEvent(convertColumnValues(t, db[t]), RowSource(t, FALSE)))
    BY <1>3, Zenon DEF OnInsertEvent, NewEvent, Idle
  <2> QED
    BY <2>1, EmitKeeps, PayloadsFit, ConvertedFits, RowKeyFits, Zenon
<1>4. ASSUME NEW old, OnUpdateEvent(t, old) PROVE SchemaInv'
  <2>1. /\ job = nil
        /\ emit0(t, RowKey(t, db[t]), UpdateEvent(convertColumnValues(t, old), convertColumnValues(t, db[t]),
                                                  RowSource(t, FALSE)))
    BY <1>4, Zenon DEF OnUpdateEvent, NewEvent, Idle
  <2> QED
    BY <2>1, EmitKeeps, PayloadsFit, ConvertedFits, RowKeyFits, Zenon
<1>5. ASSUME NEW old, NEW tombstone, OnDeleteEvent(t, old, tombstone) PROVE SchemaInv'
  <2>1. /\ job = nil
        /\ emit0(t, RowKey(t, old), DeleteEvent(convertColumnValues(t, old), RowSource(t, FALSE), tombstone))
    BY <1>5, Zenon DEF OnDeleteEvent, NewEvent, Idle
  <2> QED
    BY <2>1, EmitKeeps, PayloadsFit, ConvertedFits, RowKeyFits, Zenon
<1>6. ASSUME OnTruncateEvent(t) PROVE SchemaInv'
  <2>1. job = nil /\ emit0(t, {}, TruncateEvent(RowSource(t, FALSE)))
    BY <1>6, Zenon DEF OnTruncateEvent, NewEvent, Idle
  <2> QED
    BY <1>1, <2>1, EmitKeeps, PayloadsFit, ConvertedFits, Zenon
<1>7. ASSUME OnChunkCompressedEvent(t) PROVE SchemaInv'
  <2>1. job = nil /\ emit0(t, TimescaleKey, CompressionEvent(RowSource(t, FALSE)))
    BY <1>7, Zenon DEF OnChunkCompressedEvent, NewEvent, Idle
  <2>2. CompressionEvent(RowSource(t, FALSE))["op"] = "$"
    BY SMTT(30) DEF CompressionEvent, With, Field, Event
  <2> QED
    BY <2>1, <2>2, EmitKeeps, PayloadsFit, Zenon
<1>8. ASSUME OnChunkDecompressedEvent(t) PROVE SchemaInv'
  <2>1. job = nil /\ emit0(t, TimescaleKey, DecompressionEvent(RowSource(t, FALSE)))
    BY <1>8, Zenon DEF OnChunkDecompressedEvent, NewEvent, Idle
  <2>2. DecompressionEvent(RowSource(t, FALSE))["op"] = "$"
    BY SMTT(30) DEF DecompressionEvent, With, Field, Event
  <2> QED
    BY <2>1, <2>2, EmitKeeps, PayloadsFit, Zenon
<1> QED
  BY <1>2, <1>3, <1>4, <1>5, <1>6, <1>7, <1>8, Zenon

(***************************************************************************)
(* Logical messages belong to no table.                                    *)
(***************************************************************************)
LEMMA MessageKeeps ==
  ASSUME TablesConfigured, SchemaInv, NEW transactional, OnMessageEvent(transactional)
  PROVE  SchemaInv'
<1> DEFINE stream == GetOrCreateStream("message")
           payload == MessageEvent(Source(latest'.lsn, FALSE, nil, IF transactional THEN "xid" ELSE nil))
<1>1. UNCHANGED <<db, catalog, reused, stored>> /\ streams' = With(Field("message", stream), streams)
  BY Zenon DEF OnMessageEvent, emitMessageEvent, tables
<1>2. job' = [n |-> received', table |-> nil, topic |-> stream.topicName,
              key |-> Envelope(stream.keySchema, Key(stream, {"prefix"})),
              value |-> Envelope(stream.envelopeSchema, payload), tries |-> 0]
  BY Zenon DEF OnMessageEvent, emitMessageEvent
<1> HIDE DEF stream, payload
<1>3. \A u : Unaltered(u)' <=> Unaltered(u)
  BY <1>1, Zenon DEF Unaltered
<1>4. ColumnsOK' /\ StoredShown'
  BY <1>1, <1>3, Zenon DEF SchemaInv, ColumnsOK, StoredShown, Shown
<1>5. StreamsOK'
  <2>1. /\ DOMAIN streams' = DOMAIN streams \cup {"message"}
        /\ \A n \in DOMAIN streams : n # "message" => streams'[n] = streams[n]
    BY <1>1 DEF With, Field
  <2>2. ~Unaltered("message")
    BY Zenon DEF TablesConfigured, Unaltered
  <2> QED
    BY <1>3, <2>1, <2>2, Zenon DEF SchemaInv, StreamsOK
<1>6. job'.table = nil /\ job'.value = Envelope(stream.envelopeSchema, payload)
  BY <1>2, SMTT(30)
<1>7. job'.value = Envelope(job'.value.schema, job'.value.payload)
  BY <1>6 DEF Envelope
<1> QED
  BY <1>4, <1>5, <1>6, <1>7, Zenon DEF SchemaInv, JobShown, Shown
-----------------------------------------------------------------------------
(***************************************************************************)
(* Every sink sends the key and value of the message, or leaves out one.   *)
(***************************************************************************)
LEMMA MessageShown ==
  ASSUME SinksConfigured, SchemaInv, EmissionInv, job # nil
  PROVE  Shown(Sinks[config.sink])
<1> DEFINE message == Sinks[config.sink]
<1>1. config.sink \in {"kafka", "nats", "redis", "http", "kinesis", "sqs", "stdout"}
  BY Zenon DEF SinksConfigured, EmissionInv
<1>2. /\ message.table = job.table /\ message.key \in {job.key, nil}
      /\ message.value \in {job.value, [job.value EXCEPT !.schema = nil]}
  BY <1>1, SMTT(30) DEF Sinks, kafkaSink, natsSink, redisSink, httpSink, awsKinesisSink, awsSqsSink, stdoutSink, Sent
<1> HIDE DEF message
<1>3. Shown(job) /\ job.value = Envelope(job.value.schema, job.value.payload)
  BY Zenon DEF SchemaInv, JobShown
<1>4. [job.value EXCEPT !.schema = nil].schema = nil
  BY <1>3 DEF Envelope
<1>5. Described(job.key, job.value, job.table) => Described(message.key, message.value, job.table)
  BY <1>2, <1>4, Zenon DEF Described
<1>6. Shown(message)
  BY <1>2, <1>3, <1>5, Zenon DEF Shown
<1> QED
  BY <1>6, Zenon DEF message

(***************************************************************************)
(* The message is stored, or was stored already.                           *)
(***************************************************************************)
LEMMA StoreShown ==
  ASSUME SinksConfigured, SchemaInv, EmissionInv, job # nil, Store
  PROVE  \A i \in DOMAIN stored' : Shown(stored'[i])
<1> DEFINE message == Sinks[config.sink]
<1>1. Shown(message) /\ \A i \in DOMAIN stored : Shown(stored[i])
  BY MessageShown, Zenon DEF SchemaInv, StoredShown
<1>2. stored' = stored \/ stored' = Append(stored, message)
  BY Zenon DEF Store
<1> HIDE DEF message
<1>3. PICK S : stored \in Seq(S)
  BY Zenon DEF EmissionInv, StoredOK
<1>4. CASE stored' = Append(stored, message)
  <2>1. /\ Len(stored) \in Nat /\ DOMAIN stored = 1..Len(stored) /\ DOMAIN stored' = 1..(Len(stored) + 1)
        /\ \A i \in DOMAIN stored : stored'[i] = stored[i]
        /\ stored'[Len(stored) + 1] = message
    BY <1>3, <1>4, StoredAppended, SMTT(30)
  <2>2. \A i \in DOMAIN stored' : i \in DOMAIN stored \/ i = Len(stored) + 1
    BY <2>1, SMTT(30)
  <2> QED
    BY <1>1, <2>1, <2>2, Zenon
<1> QED
  BY <1>1, <1>2, <1>4, Zenon

(***************************************************************************)
(* Another try is with the same message.                                   *)
(***************************************************************************)
LEMMA RetryShown ==
  ASSUME SchemaInv, EmissionInv, job # nil, Retry, UNCHANGED <<db, reused>>
  PROVE  JobShown'
<1>1. CASE job.tries < MaxRetries
  <2>1. job' = [job EXCEPT !.tries = @ + 1]
    BY <1>1, Zenon DEF Retry
  <2>2. job'.table = job.table /\ job'.key = job.key /\ job'.value = job.value
    BY <2>1 DEF EmissionInv, JobOK
  <2>3. \A u : Unaltered(u)' <=> Unaltered(u)
    BY Zenon DEF Unaltered
  <2> QED
    BY <2>2, <2>3, Zenon DEF SchemaInv, JobShown, Shown
<1>2. CASE ~(job.tries < MaxRetries)
  BY <1>2, Zenon DEF Retry, JobShown
<1> QED
  BY <1>1, <1>2, Zenon

(***************************************************************************)
(* The answers of a sink.                                                  *)
(***************************************************************************)
LEMMA SinkShown ==
  ASSUME SinksConfigured, SchemaInv, EmissionInv, SinkAccepts \/ SinkFails \/ SinkTimesOut
  PROVE  SchemaInv'
<1>1. job # nil /\ UNCHANGED <<db, catalog, reused, streams>>
  BY Zenon DEF SinkAccepts, SinkFails, SinkTimesOut, tables
<1>2. \A u : Unaltered(u)' <=> Unaltered(u)
  BY <1>1, Zenon DEF Unaltered
<1>3. ColumnsOK' /\ StreamsOK'
  BY <1>1, <1>2, Zenon DEF SchemaInv, ColumnsOK, StreamsOK
<1>4. JobShown'
  <2>1. CASE job' = nil
    BY <2>1, Zenon DEF JobShown
  <2> QED
    BY <1>1, <2>1, RetryShown, Zenon DEF SinkAccepts, SinkFails, SinkTimesOut
<1>5. \A i \in DOMAIN stored' : Shown(stored'[i])
  <2>1. CASE stored' = stored
    BY <2>1, Zenon DEF SchemaInv, StoredShown
  <2> QED
    BY <1>1, <2>1, StoreShown, Zenon DEF SinkAccepts, SinkFails, SinkTimesOut
<1>6. StoredShown'
  BY <1>2, <1>5, Zenon DEF StoredShown, Shown
<1> QED
  BY <1>3, <1>4, <1>6, Zenon DEF SchemaInv

(***************************************************************************)
(* Steps that make no message and change no table.                         *)
(***************************************************************************)
LEMMA NothingShown ==
  ASSUME SchemaInv, ConversionFails \/ OnTransactionFinishedEvent \/ SinkPanics \/ UNCHANGED emitterVars
  PROVE  SchemaInv'
<1>1. UNCHANGED <<db, catalog, reused, streams, job, stored>>
  BY Zenon DEF ConversionFails, OnTransactionFinishedEvent, SinkPanics, emitterVars, tables
<1>2. \A u : Unaltered(u)' <=> Unaltered(u)
  BY <1>1, Zenon DEF Unaltered
<1>3. ColumnsOK'
  BY <1>1, <1>2, Zenon DEF SchemaInv, ColumnsOK
<1> QED
  BY <1>1, <1>2, <1>3, SchemaRests, Zenon

(***************************************************************************)
(* A stored row has no column that the schema sent along does not          *)
(* describe, and a stored key but for that of a (de)compression none that  *)
(* the key's schema does not (eventemitter.go:359, streammanager.go:82),   *)
(* for any tables, sink, filters, number of events, retries and changes of *)
(* the tables.                                                             *)
(***************************************************************************)
THEOREM RowsDescribed ==
  ASSUME SinksConfigured, TablesConfigured
  PROVE  EmitterSpec => []SchemaDescribesRow
<1>1. NewEventEmitter => SchemaInv
  <2> SUFFICES ASSUME NewEventEmitter PROVE SchemaInv
    BY Zenon
  <2>1. DOMAIN stored = {} /\ DOMAIN streams = {}
    BY SMTT(30) DEF NewEventEmitter
  <2>2. DOMAIN db = Tables /\ catalog = db /\ \A t \in Tables : db[t] = Original(t)
    BY Zenon DEF NewEventEmitter
  <2>3. ColumnsOK
    BY <2>2, Zenon DEF ColumnsOK
  <2> QED
    BY <2>1, <2>3, Zenon DEF NewEventEmitter, SchemaInv, StreamsOK, JobShown, StoredShown
<1>2. EmissionInv /\ SchemaInv /\ [EmitterNext]_emitterVars => SchemaInv'
  <2> SUFFICES ASSUME EmissionInv, SchemaInv, [EmitterNext]_emitterVars PROVE SchemaInv'
    BY Zenon
  <2>1. config.tables \subseteq Tables
    BY Zenon DEF TablesConfigured, EmissionInv
  <2>2. ASSUME NEW t \in Tables, AddColumn(t) \/ OnRelationEvent(t) \/ OnHypertableAddedEvent(t) PROVE SchemaInv'
    BY <2>2, AddColumnKeeps, OnRelationKeeps, OnHypertableAddedKeeps, Zenon
  <2> QED
    BY <2>1, <2>2, EventKeeps, MessageKeeps, SinkShown, NothingShown, ZenonT(30)
    DEF EmitterNext
<1>3. SchemaInv => SchemaDescribesRow
  <2> SUFFICES ASSUME SchemaInv, NEW i \in DOMAIN stored,
                      stored[i].value.schema # nil, stored[i].table # nil, stored[i].table \notin reused,
                      stored[i].table \in Aggregates => db[stored[i].table] = Original(stored[i].table)
               PROVE  /\ DOMAIN stored[i].value.payload \subseteq stored[i].value.schema.fields
                      /\ UNION ({stored[i].value.payload[f] :
                                   f \in DOMAIN stored[i].value.payload \cap {"before", "after"}} \ {nil})
                           \subseteq stored[i].value.schema.row
                      /\ stored[i].key # nil /\ PrimaryKey[stored[i].table] # {}
                         /\ stored[i].value.payload["op"] # "$" =>
                           stored[i].key.payload \subseteq stored[i].key.schema
    BY Zenon DEF SchemaDescribesRow
  <2>1. Described(stored[i].key, stored[i].value, stored[i].table)
    BY Zenon DEF SchemaInv, StoredShown, Shown, Unaltered
  <2> QED
    BY <2>1, Zenon DEF Described
<1> QED
  BY <1>1, <1>2, <1>3, EmissionInvariant, PTL DEF EmitterSpec
===============================================================================
