------------------------- MODULE InitialSnapshotOrder -------------------------
(***************************************************************************)
(* The rows of a table are emitted in the order of its key.                *)
(***************************************************************************)
EXTENDS InitialSnapshotTurns

(* The low watermarks with which a process starts. *)
FoundIn(c) == [t \in Tables |-> Low(c, t)]

(* The order of the rows, whatever this process has found. *)
Ordered == \E found \in [Tables -> Nat] : OrderInv(found)

(***************************************************************************)
(* Every step keeps the order.                                             *)
(***************************************************************************)
LEMMA OrderStep == SkipInv /\ TurnInv /\ Ordered /\ [Next]_vars => Ordered'
  (***************************************************************************)
  (* A table behind the one that has its turn has handed on nothing.         *)
  (***************************************************************************)
<1>NothingBehind. ASSUME SkipInv, TurnInv, OnlyRows, NEW t \in Tables, Turn(t), NEW u \in Tables \ handled, u # t
                  PROVE  Size(u) = 0
  <2> USE <1>NothingBehind
  <2>1. out[u] = <<>>
    BY Zenon DEF Turn, Untouched
  <2>2. Pending(u) = 0
    BY PendingTurn, Zenon DEF Turn
  <2> QED
    BY <2>1, <2>2 DEF Size

  (***************************************************************************)
  (* What the rows of a table say stays, as long as they do.                 *)
  (***************************************************************************)
<1>SameAt. ASSUME NEW t, Size(t) \in Nat, config' = config, Size(t)' = Size(t),
                  \A i \in 1..Size(t) : Nth(t, i)' = Nth(t, i)
           PROVE  /\ Size(t) > 0 => LastRow(t)' = LastRow(t)
                  /\ \A first : Passes(t, first) => Passes(t, first)'
                  /\ \A row : Key(t, row)' = Key(t, row)
                  /\ \A key : FirstRow(t, key)' = FirstRow(t, key)
  <2> USE <1>SameAt
  <2>1. \A row : Key(t, row)' = Key(t, row)
    BY Zenon DEF Key
  <2>2. \A key : FirstRow(t, key)' = FirstRow(t, key)
    BY Zenon DEF FirstRow, LastUpTo, Key
  <2>3. Size(t) > 0 => LastRow(t)' = LastRow(t)
    <3> SUFFICES ASSUME Size(t) > 0 PROVE LastRow(t)' = LastRow(t)
      BY Zenon
    <3> PICK n : n = Size(t)
      BY Zenon
    <3>1. n \in 1..Size(t) /\ Size(t)' = n
      OBVIOUS
    <3>2. LastRow(t)' = Nth(t, n)' /\ LastRow(t) = Nth(t, n)
      BY <3>1, Zenon DEF LastRow, Nth
    <3> QED
      BY <3>1, <3>2, Zenon
  <2>4. ASSUME NEW first, Passes(t, first) PROVE Passes(t, first)'
    <3> SUFFICES ASSUME NEW i \in 1..Size(t)
                 PROVE  /\ Nth(t, i)' \in 1..config.rows[t]
                        /\ i = 1 => Nth(t, i)' = first
                        /\ i > 1 => Nth(t, i)' > Nth(t, i - 1)' \/ Nth(t, i)' = first
      BY Zenon DEF Passes
    <3>1. i > 1 => i - 1 \in 1..Size(t)
      OBVIOUS
    <3> QED
      BY <2>4, <3>1, Zenon DEF Passes
  <2> QED
    BY <2>1, <2>2, <2>3, <2>4, Zenon

  (***************************************************************************)
  (* The rows are the same after a step that keeps them.                     *)
  (***************************************************************************)
<1>KeptAt. ASSUME SkipInv, TurnInv, RowsKept, NEW t \in Tables
           PROVE  /\ Size(t)' = Size(t)
                  /\ Size(t) > 0 => LastRow(t)' = LastRow(t)
                  /\ \A first : Passes(t, first) => Passes(t, first)'
                  /\ \A row : Key(t, row)' = Key(t, row)
                  /\ \A key : FirstRow(t, key)' = FirstRow(t, key)
                  /\ config' = config
  <2> USE <1>KeptAt
  <2>1. /\ Size(t) \in Nat /\ config' = config /\ Size(t)' = Size(t)
        /\ \A i \in 1..Size(t) : Nth(t, i)' = Nth(t, i)
    BY SizeIs, Zenon DEF RowsKept
  <2> QED
    BY <2>1, <1>SameAt, Zenon

  (***************************************************************************)
  (* A step that changes no low watermark and no copy keeps the order.       *)
  (***************************************************************************)
<1>OrderKept. ASSUME SkipInv, TurnInv, NEW found, OrderInv(found), RowsKept, up' = up, handled \subseteq handled',
                     \A t \in Tables : Low(context, t)' = Low(context, t),
                     \A q \in Partitions : /\ worker'[q].local = worker[q].local /\ worker'[q].table = worker[q].table
                                           /\ worker'[q].batch = worker[q].batch
                                           /\ worker'[q].at = worker[q].at \/ (worker[q].at = "wait" /\ worker'[q].at = "release")
              PROVE  OrderInv(found)'
  <2> USE <1>OrderKept
  <2>1. \A t \in Tables : Passes(t, FirstRow(t, found[t]))'
    <3> TAKE t \in Tables
    <3>1. Passes(t, FirstRow(t, found[t]))
      BY Zenon DEF OrderInv
    <3>2. PICK first : first = FirstRow(t, found[t])
      BY Zenon
    <3>3. FirstRow(t, found[t])' = first
      BY <3>2, <1>KeptAt, Zenon
    <3>4. Passes(t, first)'
      BY <3>1, <3>2, <1>KeptAt, Zenon
    <3> QED
      BY <3>3, <3>4, Zenon DEF Passes
  <2>2. ASSUME up', NEW t \in Tables \ handled' PROVE CopiesAt(t, found[t])'
    <3>1. t \in Tables \ handled /\ up
      BY <2>2, Zenon
    <3>2. CopiesAt(t, found[t])
      BY <3>1, Zenon DEF OrderInv
    <3>3. /\ Size(t)' = Size(t)
          /\ Size(t) > 0 => LastRow(t)' = LastRow(t)
          /\ \A row : Key(t, row)' = Key(t, row)
      BY <3>1, <1>KeptAt, Zenon
    <3>4. (\A q \in Partitions : worker'[q].at = "rows" => worker'[q].table # t) => AtEither(context, t, found[t])'
      <4>1. Low(context, t)' = Low(context, t)
        BY <3>1, Zenon
      <4>2. (\A q \in Partitions : worker'[q].at = "rows" => worker'[q].table # t) => AtEither(context, t, found[t])
        BY <3>2, SMTT(30) DEF CopiesAt
      <4> QED
        BY <3>3, <4>1, <4>2, Zenon DEF AtEither
    <3>5. ASSUME NEW q \in Partitions, worker'[q].at \notin {"idle", "begin"}
          PROVE  (IF PartitionOf[t] = q THEN AtEither(worker[q].local, t, found[t]) ELSE Low(worker[q].local, t) = found[t])'
      <4>1. worker[q].at \notin {"idle", "begin"} /\ worker'[q].local = worker[q].local
        BY <3>5, Zenon
      <4>2. IF PartitionOf[t] = q THEN AtEither(worker[q].local, t, found[t]) ELSE Low(worker[q].local, t) = found[t]
        BY <3>2, <4>1, Zenon DEF CopiesAt
      <4> QED
        BY <3>3, <4>1, <4>2, SMTT(30) DEF AtEither, Low
    <3> QED
      BY <3>4, <3>5, Zenon DEF CopiesAt
  <2>3. ASSUME NEW q \in Partitions, NEW t \in Tables PROVE NextRows(worker[q], t, FirstRow(t, found[t]))'
    <3>1. NextRows(worker[q], t, FirstRow(t, found[t]))
      BY Zenon  DEF OrderInv
    <3>2. /\ Size(t)' = Size(t) /\ config' = config
          /\ Size(t) > 0 => LastRow(t)' = LastRow(t)
          /\ FirstRow(t, found[t])' = FirstRow(t, found[t])
      BY <1>KeptAt, Zenon
    <3> QED
      BY <3>1, <3>2, Zenon DEF NextRows
  <2> QED
    BY <2>1, <2>2, <2>3, Zenon DEF OrderInv

  (***************************************************************************)
  (* A step of a worker that hands on no row.                                *)
  (***************************************************************************)
<1>OrderWorker. ASSUME SkipInv, TurnInv, NEW found, OrderInv(found), RowsKept, NEW p \in Partitions, NEW w, OneWorker(p, w),
                       \A t \in Tables : NextRows(w, t, FirstRow(t, found[t])),
                       \A t \in Tables \ handled : AtEither(context', t, found[t]),
                       w.at \notin {"idle", "begin"} =>
                         \A t \in Tables \ handled : IF PartitionOf[t] = p THEN AtEither(w.local, t, found[t])
                                                     ELSE Low(w.local, t) = found[t]
                PROVE  OrderInv(found)'
  <2> USE <1>OrderWorker
  <2>1. \A t \in Tables : Passes(t, FirstRow(t, found[t]))'
    <3> TAKE t \in Tables
    <3>1. Passes(t, FirstRow(t, found[t]))
      BY Zenon  DEF OrderInv
    <3>2. PICK first : first = FirstRow(t, found[t])
      BY Zenon
    <3>3. FirstRow(t, found[t])' = first
      BY <3>2, <1>KeptAt, Zenon
    <3>4. Passes(t, first)'
      BY <3>1, <3>2, <1>KeptAt, Zenon
    <3> QED
      BY <3>3, <3>4, Zenon DEF Passes
  <2>2. worker'[p] = w /\ \A q \in Partitions : q # p => worker'[q] = worker[q]
    BY WorkersAfter, ZenonT(60) DEF OneWorker
  <2>3. up /\ handled' = handled
    BY Zenon DEF OneWorker
  <2>4. ASSUME NEW t \in Tables \ handled PROVE CopiesAt(t, found[t])'
    <3>1. CopiesAt(t, found[t])
      BY <2>3, Zenon DEF OrderInv
    <3>2. /\ Size(t)' = Size(t)
          /\ Size(t) > 0 => LastRow(t)' = LastRow(t)
          /\ \A row : Key(t, row)' = Key(t, row)
      BY <1>KeptAt, Zenon
    <3>3. AtEither(context, t, found[t])'
      <4>1. AtEither(context', t, found[t])
        BY Zenon
      <4> QED
        BY <3>2, <4>1, Zenon DEF AtEither, Low
    <3>4. ASSUME NEW q \in Partitions, worker'[q].at \notin {"idle", "begin"}
          PROVE  (IF PartitionOf[t] = q THEN AtEither(worker[q].local, t, found[t]) ELSE Low(worker[q].local, t) = found[t])'
      <4>1. CASE q = p
        <5>1. worker'[q] = w /\ w.at \notin {"idle", "begin"}
          BY <2>2, <3>4, <4>1, Zenon
        <5>2. IF PartitionOf[t] = q THEN AtEither(w.local, t, found[t]) ELSE Low(w.local, t) = found[t]
          BY <4>1, <5>1, Zenon
        <5> QED
          BY <3>2, <5>1, <5>2, Zenon DEF AtEither, Low
      <4>2. CASE q # p
        <5>1. worker'[q] = worker[q]
          BY <2>2, <4>2, Zenon
        <5>2. IF PartitionOf[t] = q THEN AtEither(worker[q].local, t, found[t]) ELSE Low(worker[q].local, t) = found[t]
          BY <3>1, <3>4, <5>1, Zenon DEF CopiesAt
        <5> QED
          BY <3>2, <5>1, <5>2, ZenonT(60) DEF AtEither, Low
      <4> QED
        BY <4>1, <4>2, Zenon
    <3> QED
      BY <3>3, <3>4, Zenon DEF CopiesAt
  <2>5. ASSUME NEW q \in Partitions, NEW t \in Tables PROVE NextRows(worker[q], t, FirstRow(t, found[t]))'
    <3>1. PICK v : v = worker'[q]
      BY Zenon
    <3>2. NextRows(v, t, FirstRow(t, found[t]))
      BY <2>2, <3>1, Zenon DEF OrderInv
    <3>3. /\ Size(t)' = Size(t) /\ config' = config
          /\ Size(t) > 0 => LastRow(t)' = LastRow(t)
          /\ FirstRow(t, found[t])' = FirstRow(t, found[t])
      BY <1>KeptAt, Zenon
    <3> QED
      BY <3>1, <3>2, <3>3, Zenon DEF NextRows
  <2> QED
    BY <2>1, <2>3, <2>4, <2>5, Zenon DEF OrderInv

  (***************************************************************************)
  (* Unless a worker hands on rows, the context itself is at either place.   *)
  (***************************************************************************)
<1>ContextFree. ASSUME NEW found, OrderInv(found), up, \A q \in Partitions : worker[q].at # "rows"
                PROVE  \A t \in Tables \ handled : AtEither(context, t, found[t])
  BY <1>ContextFree, Zenon DEF OrderInv, CopiesAt

  (***************************************************************************)
  (* While a worker has a table, the others are where this process found     *)
  (* them.                                                                   *)
  (***************************************************************************)
<1>OthersFound. ASSUME SkipInv, TurnInv, NEW p \in Partitions, Busy(p), NEW found, NEW c,
                       \A t \in Tables \ handled : AtEither(c, t, found[t])
                PROVE  \A t \in Tables \ handled : IF PartitionOf[t] = p THEN AtEither(c, t, found[t])
                                                   ELSE Low(c, t) = found[t]
  <2> USE <1>OthersFound
  <2> TAKE t \in Tables \ handled
  <2>1. CASE PartitionOf[t] = p
    BY <2>1, Zenon
  <2>2. CASE PartitionOf[t] # p
    <3>1. worker[p].table \in Tables /\ PartitionOf[worker[p].table] = p /\ OnlyRows /\ Turn(worker[p].table)
      BY BusyHas, Zenon
    <3>2. Size(t) = 0
      BY <2>2, <3>1, <1>NothingBehind, Zenon
    <3> QED
      BY <2>2, <3>2, SMTT(30) DEF AtEither
  <2> QED
    BY <2>1, <2>2, ZenonT(60)

  (***************************************************************************)
  (* A batch has rows of the table, from the first one above the low         *)
  (* watermark.                                                              *)
  (***************************************************************************)
<1>BatchRows. ASSUME config \in Configs, NEW t \in Tables, NEW low \in Nat, NEW high \in Nat,
                     NEW batch, batch = Batch(t, low, high)
              PROVE  /\ \A i \in DOMAIN batch : batch[i] \in 1..config.rows[t]
                     /\ batch # <<>> => batch[1] = FirstRow(t, low)
  <2> USE <1>BatchRows
  <2> DEFINE first == LastUpTo(t, low)
             last == LastUpTo(t, high)
             size == IF last - first < BatchLimit THEN last - first ELSE BatchLimit
  <2>1. first \in Nat /\ last \in Nat /\ last <= config.rows[t] /\ config.rows[t] \in Nat
    BY LastUpToIs, SMTT(30)
  <2>2. size \in Int /\ size <= last - first
    BY <2>1, ConfigsAssumption, SMTT(30)
  <2>3. batch = [i \in 1..size |-> first + i]
    BY Zenon DEF Batch
  <2> HIDE DEF first, last, size
  <2>4. \A i \in 1..size : first + i \in 1..config.rows[t]
    BY <2>1, <2>2
  <2>5. CASE size > 0
    <3>1. 1 \in 1..size
      BY <2>2, <2>5
    <3> QED
      BY <2>3, <2>4, <3>1, Zenon DEF FirstRow, first
  <2>6. CASE ~(size > 0)
    <3>1. 1..size = {}
      BY <2>2, <2>6, SMTT(30)
    <3>2. batch = <<>>
      BY <2>3, <3>1, SMTT(30)
    <3> QED
      BY <3>2
  <2> QED
    BY <2>5, <2>6, Zenon

  (***************************************************************************)
  (* Where the copy of a worker is.                                          *)
  (***************************************************************************)
<1>CopyAt. ASSUME NEW found, OrderInv(found), up, NEW p \in Partitions, worker[p].at \notin {"idle", "begin"}
           PROVE  \A t \in Tables \ handled :
                    /\ AtEither(worker[p].local, t, found[t])
                    /\ IF PartitionOf[t] = p THEN AtEither(worker[p].local, t, found[t]) ELSE Low(worker[p].local, t) = found[t]
  <2> USE <1>CopyAt
  <2> TAKE t \in Tables \ handled
  <2>1. IF PartitionOf[t] = p THEN AtEither(worker[p].local, t, found[t]) ELSE Low(worker[p].local, t) = found[t]
    BY Zenon  DEF OrderInv, CopiesAt
  <2>2. Low(worker[p].local, t) = found[t] => AtEither(worker[p].local, t, found[t])
    BY Zenon DEF AtEither
  <2> QED
    BY <2>1, <2>2, ZenonT(60)

  (***************************************************************************)
  (* Neither changes a low watermark.                                        *)
  (***************************************************************************)
<1>LowKept. ASSUME NEW c \in Contexts, NEW d \in Contexts, NEW t \in Tables, d[t] \in Watermarks, d[t].low = Low(c, t),
                   \A u \in Tables : u # t => d[u] = c[u]
            PROVE  \A u \in Tables : Low(d, u) = Low(c, u)
  BY <1>LowKept, NoneAssumption, Zenon DEF Low

  (***************************************************************************)
  (* Nobody else hands on rows while a worker has a table or one is queued.  *)
  (***************************************************************************)
<1>NobodyElse. ASSUME TurnInv, NEW p \in Partitions, Busy(p) \/ queue[p] # <<>>, worker[p].at # "rows"
               PROVE  \A q \in Partitions : worker[q].at # "rows"
  <2> USE <1>NobodyElse
  <2>1. \A q \in Partitions : q # p => ~Busy(q)
    BY Zenon  DEF TurnInv, WorkerTurns
  <2> QED
    BY <2>1, Zenon DEF Busy

  (***************************************************************************)
  (* A worker takes a table.                                                 *)
  (***************************************************************************)
<1>TakeOrder. ASSUME SkipInv, TurnInv, NEW found, OrderInv(found), NEW p \in Partitions, TakeSnapshot(p)
              PROVE  OrderInv(found)'
  <2> USE <1>TakeOrder
  <2>1. PICK w : w = [Idle EXCEPT !.at = "begin", !.table = Head(queue[p]).table, !.next = Head(queue[p]).next]
    BY Zenon
  <2>2. OneWorker(p, w) /\ worker[p].at = "idle" /\ queue[p] # <<>> /\ UNCHANGED <<tasks, context>>
    BY <2>1, TakeDoes, Zenon
  <2>3. w.at = "begin"
    BY <2>1, Zenon DEF Idle
  <2>4. \A t \in Tables \ handled : AtEither(context, t, found[t])
    BY <2>2, <1>NobodyElse, <1>ContextFree, ZenonT(60) DEF OneWorker
  <2>5. \A t \in Tables : NextRows(w, t, FirstRow(t, found[t]))
    BY <2>3, Zenon DEF NextRows
  <2>6. RowsKept
    BY <2>2, RowsRest, Zenon DEF OneWorker
  <2>7. \A t \in Tables \ handled : AtEither(context', t, found[t])
    BY <2>2, <2>4, Zenon
  <2> QED
    BY <2>2, <2>3, <2>5, <2>6, <2>7, <1>OrderWorker, Zenon

  (***************************************************************************)
  (* A worker reads the context, or makes one.                               *)
  (***************************************************************************)
<1>ContextOrder. ASSUME SkipInv, TurnInv, NEW found, OrderInv(found), NEW p \in Partitions, GetOrCreateContext(p), ~Fatal
                 PROVE  OrderInv(found)'
  <2> USE <1>ContextOrder
  <2>1. PICK w : w = [worker[p] EXCEPT !.at = "create", !.local = context']
    BY Zenon
  <2>2. /\ OneWorker(p, w) /\ worker[p].at = "begin" /\ UNCHANGED <<tasks, queue>>
        /\ context' = IF context = None THEN EmptyContext ELSE context
    BY <2>1, ContextDoes, Zenon
  <2>3. w.at = "create" /\ w.local = context'
    BY <2>1, WorkerHas, Zenon DEF WorkerStates
  <2>4. Busy(p)
    BY <2>2, Zenon DEF Busy
  <2>5. \A t \in Tables \ handled : AtEither(context, t, found[t])
    BY <2>2, <2>4, <1>NobodyElse, <1>ContextFree, Zenon DEF OneWorker
  <2>6. \A t \in Tables : Low(context', t) = Low(context, t)
    BY <2>2, Zenon DEF Low, EmptyContext
  <2>7. \A t \in Tables \ handled : AtEither(context', t, found[t])
    BY <2>5, <2>6, ZenonT(60) DEF AtEither
  <2>8. \A t \in Tables \ handled : IF PartitionOf[t] = p THEN AtEither(w.local, t, found[t]) ELSE Low(w.local, t) = found[t]
    BY <2>3, <2>4, <2>7, <1>OthersFound, SMTT(30)
  <2>9. \A t \in Tables : NextRows(w, t, FirstRow(t, found[t]))
    BY <2>3, ZenonT(60) DEF NextRows
  <2>10. RowsKept
    BY <2>2, RowsRest, ZenonT(60) DEF OneWorker
  <2> QED
    BY <2>2, <2>7, <2>8, <2>9, <2>10, <1>OrderWorker, ZenonT(60)

  (***************************************************************************)
  (* A worker stores the high watermark.                                     *)
  (***************************************************************************)
<1>HighOrder. ASSUME SkipInv, TurnInv, NEW found, OrderInv(found), NEW p \in Partitions, StoreHighWatermark(p), ~Fatal
              PROVE  OrderInv(found)'
  <2> USE <1>HighOrder
  <2>1. PICK w : w = [worker[p] EXCEPT !.at = "load"]
    BY Zenon
  <2>2. /\ OneWorker(p, w) /\ worker[p].at = "create" /\ UNCHANGED <<tasks, queue>> /\ up
        /\ context' = WithHigh(worker[p].local, worker[p].table, worker[p].next)
    BY <2>1, HighDoes, Zenon DEF OneWorker
  <2>3. w.at = "load" /\ w.local = worker[p].local
    BY <2>1, WorkerHas, Zenon DEF WorkerStates
  <2>4. worker[p].local \in Contexts /\ worker[p].table \in Tables /\ config \in Configs
    BY <2>2, WorkerHas, Zenon DEF WorkerOK, SkipInv, TypeInv, StateOK
  <2>5. \A t \in Tables \ handled :
          /\ AtEither(worker[p].local, t, found[t])
          /\ IF PartitionOf[t] = p THEN AtEither(worker[p].local, t, found[t]) ELSE Low(worker[p].local, t) = found[t]
    BY <2>2, <1>CopyAt, ZenonT(30)
  <2>6. \A t \in Tables : Low(context', t) = Low(worker[p].local, t)
    <3>1. PICK d : d = context'
      BY ZenonT(60)
    <3>2. \/ d = worker[p].local
          \/ /\ d \in Contexts /\ d[worker[p].table] \in Watermarks
             /\ \A u \in Tables : u # worker[p].table => d[u] = worker[p].local[u]
             /\ d[worker[p].table].low = Low(worker[p].local, worker[p].table)
      BY <2>2, <2>4, <3>1, HighIs, SMTT(30)
    <3>3. \A t \in Tables : Low(d, t) = Low(worker[p].local, t)
      BY <2>4, <3>2, <1>LowKept, ZenonT(30)
    <3> QED
      BY <3>1, <3>3, Zenon
  <2>7. \A t \in Tables \ handled : AtEither(context', t, found[t])
    BY <2>5, <2>6, ZenonT(60) DEF AtEither
  <2>8. \A t \in Tables : NextRows(w, t, FirstRow(t, found[t]))
    BY <2>3, Zenon DEF NextRows
  <2>9. RowsKept
    BY <2>2, RowsRest, Zenon DEF OneWorker
  <2> QED
    BY <2>2, <2>3, <2>5, <2>7, <2>8, <2>9, <1>OrderWorker, ZenonT(30)

  (***************************************************************************)
  (* A worker reads a batch: it begins with the first row of a pass, or      *)
  (* behind the last one that was handed on.                                 *)
  (***************************************************************************)
<1>FetchOrder. ASSUME SkipInv, TurnInv, NEW found, OrderInv(found), NEW p \in Partitions, FetchBatch(p), ~Fatal
               PROVE  OrderInv(found)'
  <2> USE <1>FetchOrder
  <2>1. PICK t : t = worker[p].table
    BY Zenon
  <2>2. PICK w : w = [worker[p] EXCEPT !.at = "rows", !.local = context, !.lsn = commits,
                                       !.batch = Batch(t, context[t].low, context[t].high)]
    BY Zenon
  <2>3. /\ OneWorker(p, w) /\ worker[p].at = "load" /\ context # None /\ context[t] # None
        /\ UNCHANGED <<tasks, queue, context>>
    BY <2>1, <2>2, FetchDoes, Zenon
  <2>4. /\ w.at = "rows" /\ w.local = context /\ w.table = t
        /\ w.batch = Batch(t, context[t].low, context[t].high)
    BY <2>1, <2>2, WorkerHas, Zenon DEF WorkerStates
  <2>5. Busy(p)
    BY <2>3, Zenon DEF Busy
  <2>6. t \in Tables \ handled
    BY <2>1, <2>5, BusyHas, Zenon DEF Turn
  <2>7. context[t].low \in Nat /\ context[t].high \in Nat /\ config \in Configs
    BY <2>3, <2>6, Zenon DEF SkipInv, TypeInv, StateOK, Contexts, Watermarks
  <2>8. \A u \in Tables \ handled : AtEither(context, u, found[u])
    BY <2>3, <2>5, <1>NobodyElse, <1>ContextFree, ZenonT(60) DEF OneWorker
  <2>9. \A u \in Tables \ handled : IF PartitionOf[u] = p THEN AtEither(w.local, u, found[u]) ELSE Low(w.local, u) = found[u]
    BY <2>4, <2>5, <2>8, <1>OthersFound, SMTT(30)
  <2>10. /\ \A i \in DOMAIN w.batch : w.batch[i] \in 1..config.rows[t]
         /\ w.batch # <<>> => w.batch[1] = FirstRow(t, context[t].low)
    BY <2>4, <2>6, <2>7, <1>BatchRows, SMTT(30)
  <2>11. Low(context, t) = context[t].low
    BY <2>3, Zenon DEF Low
  <2>12. w.batch # <<>> => w.batch[1] = FirstRow(t, found[t]) \/ (Size(t) > 0 /\ w.batch[1] > LastRow(t))
    <3> SUFFICES ASSUME w.batch # <<>>, Size(t) > 0, context[t].low = Key(t, LastRow(t)) PROVE w.batch[1] > LastRow(t)
      BY <2>6, <2>8, <2>10, <2>11, ZenonT(60) DEF AtEither
    <3>1. Size(t) \in Nat /\ Passes(t, FirstRow(t, found[t]))
      BY <2>6, SizeIs, Zenon DEF OrderInv
    <3>2. Size(t) \in 1..Size(t)
      BY <3>1, SMTT(30)
    <3>3. LastRow(t) \in 1..config.rows[t]
      BY <3>1, <3>2, Zenon DEF Passes, LastRow
    <3>4. /\ config.rows[t] \in Nat /\ LastUpTo(t, context[t].low) \in 0..config.rows[t]
          /\ \A row \in 1..config.rows[t] : Key(t, row) <= context[t].low <=> row <= LastUpTo(t, context[t].low)
      BY <2>6, <2>7, LastUpToIs, Zenon
    <3>5. LastRow(t) <= LastUpTo(t, context[t].low)
      <4>1. Key(t, LastRow(t)) <= context[t].low
        BY <2>7
      <4> QED
        BY <3>3, <3>4, <4>1, Zenon
    <3>6. w.batch[1] = LastUpTo(t, context[t].low) + 1
      BY <2>10, Zenon DEF FirstRow
    <3> QED
      BY <3>3, <3>4, <3>5, <3>6, SMTT(30)
  <2>13. \A u \in Tables : NextRows(w, u, FirstRow(u, found[u]))
    BY <2>4, <2>10, <2>12, Zenon DEF NextRows
  <2>14. RowsKept
    BY <2>3, RowsRest, Zenon DEF OneWorker
  <2>15. \A u \in Tables \ handled : AtEither(context', u, found[u])
    BY <2>3, <2>8, Zenon
  <2> QED
    BY <2>3, <2>9, <2>13, <2>14, <2>15, <1>OrderWorker, ZenonT(30)

  (***************************************************************************)
  (* The row goes on with the pass, or begins another.                       *)
  (***************************************************************************)
<1>RowOrder. ASSUME SkipInv, TurnInv, NEW found, OrderInv(found), NEW p \in Partitions, EnqueueRow(p)
             PROVE  OrderInv(found)'
  <2> USE <1>RowOrder
  <2> PICK t : t = worker[p].table
    BY Zenon
  <2> PICK b : b = worker[p].batch
    BY Zenon
  <2> PICK c : c = worker[p].local
    BY Zenon
  <2> PICK n : n = Size(t)
    BY Zenon
  <2> PICK first : first = FirstRow(t, found[t])
    BY Zenon
  <2>0. RowHanded(p, t, b, c)
    BY RowIs, Zenon
  <2>1. /\ up /\ Busy(p) /\ t \in Tables \ handled /\ PartitionOf[t] = p /\ OnlyRows /\ Turn(t)
        /\ UNCHANGED <<config, out, up, context, handled>>
        /\ worker[p].at = "rows" /\ worker'[p].at = "rows" /\ worker'[p].table = t
        /\ b \in Seq(Nat) /\ b # <<>> /\ worker'[p].batch = Tail(b)
        /\ \A i \in DOMAIN b : b[i] = b[1] + i - 1 /\ b[i] > 0
    <3>1. UNCHANGED <<config, up, file, context, handled, finished, out, emitted, dropped, fresh>>
      BY <2>0, Zenon DEF RowHanded
    <3>2. UNCHANGED <<config, out, up, context, handled>>
      BY <3>1, Zenon
    <3> QED
      BY <2>0, <3>2, ZenonT(60) DEF RowHanded
  <2>2. /\ c \in Contexts /\ worker'[p].local \in Contexts
        /\ worker'[p].local[t] \in Watermarks /\ worker'[p].local[t].low = Key(t, b[1])
        /\ \A u \in Tables : u # t => worker'[p].local[u] = c[u]
        /\ \A q \in Partitions : q # p => worker'[q] = worker[q]
    BY <2>0, Zenon DEF RowHanded
  <2>3. PICK x \in TaskSet : x.kind = "row" /\ x.table = t /\ x.row = b[1] /\ tasks' = Append(tasks, x)
    BY <2>0, Zenon DEF RowHanded
  <2>4. /\ Size(t)' = n + 1 /\ Nth(t, n + 1)' = b[1]
        /\ \A i \in 1..n : Nth(t, i)' = Nth(t, i)
        /\ \A u \in Tables : u # t => Size(u)' = Size(u) /\ \A i \in 1..Size(u) : Nth(u, i)' = Nth(u, i)
    <3>1. UNCHANGED <<config, out>>
      BY <2>1, Zenon
    <3>2. /\ Size(t)' = n + 1 /\ Nth(t, n + 1)' = x.row
          /\ \A i \in 1..n : Nth(t, i)' = Nth(t, i)
          /\ \A u \in Tables : u # t => Size(u)' = Size(u) /\ \A i \in 1..Size(u) : Nth(u, i)' = Nth(u, i)
      BY <2>1, <2>3, <3>1, RowsMore, ZenonT(60)
    <3> QED
      BY <2>3, <3>2, ZenonT(60)
  <2>5. \A u \in Tables : Size(u) \in Nat
    BY SizeIs, Zenon
  <2>6. \A u \in Tables : (\A key : FirstRow(u, key)' = FirstRow(u, key)) /\ (\A row : Key(u, row)' = Key(u, row))
    BY <2>1, ZenonT(60) DEF FirstRow, LastUpTo, Key
  <2>7. /\ \A i \in DOMAIN b : b[i] \in 1..config.rows[t]
        /\ b[1] = first \/ (n > 0 /\ b[1] > LastRow(t))
    BY <2>1, Zenon DEF OrderInv, NextRows
  <2>8. /\ 1 \in DOMAIN b /\ b[1] \in Nat \ {0}
        /\ Tail(b) # <<>> => Tail(b)[1] = b[1] + 1
        /\ \A i \in DOMAIN Tail(b) : \E j \in DOMAIN b : Tail(b)[i] = b[j]
    BY <2>1, RestBegins, Zenon
  <2>9. LastRow(t)' = b[1]
    <3>1. LastRow(t)' = Nth(t, n + 1)'
      BY <2>4, ZenonT(60) DEF LastRow, Nth
    <3> QED
      BY <2>4, <3>1, Zenon
  <2>10. ASSUME NEW u \in Tables, u # t
         PROVE  /\ Size(u) > 0 => LastRow(u)' = LastRow(u)
                /\ \A one : Passes(u, one) => Passes(u, one)'
    BY <2>1, <2>4, <2>5, <2>10, <1>SameAt, ZenonT(60)
  <2>11. Passes(t, first)'
    <3>1. Passes(t, first)
      BY <2>1, Zenon DEF OrderInv
    <3> SUFFICES ASSUME NEW i \in 1..(n + 1)
                 PROVE  /\ Nth(t, i)' \in 1..config.rows[t]
                        /\ i = 1 => Nth(t, i)' = first
                        /\ i > 1 => Nth(t, i)' > Nth(t, i - 1)' \/ Nth(t, i)' = first
      BY <2>1, <2>4, ZenonT(60) DEF Passes
    <3>2. n \in Nat /\ n = Size(t)
      BY <2>1, <2>5, ZenonT(60)
    <3>3. CASE i \in 1..n
      <4>1. i > 1 => i - 1 \in 1..n
        BY <3>2, <3>3, SMTT(30)
      <4> QED
        BY <2>4, <3>1, <3>2, <3>3, <4>1, ZenonT(30) DEF Passes
    <3>4. CASE i = n + 1
      <4>1. Nth(t, i)' = b[1] /\ b[1] \in 1..config.rows[t]
        BY <2>4, <2>7, <2>8, <3>4, ZenonT(60)
      <4>2. i > 1 => /\ n \in 1..n /\ i - 1 = n
        BY <3>2, <3>4, SMTT(30)
      <4>3. i > 1 => Nth(t, i - 1)' = LastRow(t)
        BY <2>4, <4>2, ZenonT(60) DEF LastRow
      <4>4. i = 1 => ~(n > 0)
        BY <3>2, <3>4, SMTT(30)
      <4> QED
        BY <2>7, <4>1, <4>3, <4>4, ZenonT(60)
    <3> QED
      BY <3>2, <3>3, <3>4, SMTT(60)
  <2>12. \A u \in Tables : Passes(u, FirstRow(u, found[u]))'
    <3> TAKE u \in Tables
    <3>1. CASE u = t
      <4>1. FirstRow(u, found[u])' = first
        BY <2>6, <3>1, ZenonT(60)
      <4> QED
        BY <2>11, <3>1, <4>1, ZenonT(60) DEF Passes
    <3>2. CASE u # t
      <4>1. PICK one : one = FirstRow(u, found[u])
        BY Zenon
      <4>2. FirstRow(u, found[u])' = one
        BY <2>6, <4>1, Zenon
      <4>3. Passes(u, one)'
        BY <2>10, <3>2, <4>1, Zenon DEF OrderInv
      <4> QED
        BY <4>2, <4>3, ZenonT(60) DEF Passes
    <3> QED
      BY <3>1, <3>2, Zenon
  <2>13. CopiesAt(t, found[t])'
    <3>1. CopiesAt(t, found[t])
      BY <2>1, ZenonT(60) DEF OrderInv
    <3>2. AtEither(worker[p].local, t, found[t])'
      <4>1. Low(worker[p].local, t)' = Key(t, b[1])
        <5>1. worker'[p].local # None /\ worker'[p].local[t] # None
          BY <2>2, NoneAssumption, ZenonT(60)
        <5> QED
          BY <2>2, <5>1, ZenonT(60) DEF Low
      <4>2. Key(t, LastRow(t))' = Key(t, b[1])
        BY <2>1, <2>9, ZenonT(60) DEF Key
      <4>3. Size(t)' > 0
        BY <2>1, <2>4, <2>5, SMTT(30)
      <4> QED
        BY <4>1, <4>2, <4>3, ZenonT(60) DEF AtEither
    <3>3. ASSUME NEW q \in Partitions, q # p, worker'[q].at \notin {"idle", "begin"}
          PROVE  (Low(worker[q].local, t) = found[t])'
      <4>1. worker'[q] = worker[q] /\ PartitionOf[t] # q
        BY <2>1, <2>2, <3>3, ZenonT(60)
      <4>2. Low(worker[q].local, t) = found[t]
        BY <3>1, <3>3, <4>1, ZenonT(60) DEF CopiesAt
      <4> QED
        BY <4>1, <4>2, Zenon DEF Low
    <3> QED
      BY <2>1, <3>2, <3>3, ZenonT(60) DEF CopiesAt
  <2>14. ASSUME NEW u \in Tables \ handled, u # t PROVE CopiesAt(u, found[u])'
    <3>1. CopiesAt(u, found[u])
      BY <2>1, ZenonT(60) DEF OrderInv
    <3>2. /\ Size(u)' = Size(u) /\ (Size(u) > 0 => LastRow(u)' = LastRow(u))
          /\ \A row : Key(u, row)' = Key(u, row)
      BY <2>4, <2>6, <2>10, <2>14, ZenonT(30)
    <3>3. \A q \in Partitions : worker'[q].at = worker[q].at /\ worker'[q].table = worker[q].table
      BY <2>1, <2>2, ZenonT(30)
    <3>4. (\A q \in Partitions : worker'[q].at = "rows" => worker'[q].table # u) => AtEither(context, u, found[u])'
      <4>1. (\A q \in Partitions : worker'[q].at = "rows" => worker'[q].table # u) => AtEither(context, u, found[u])
        BY <3>1, <3>3, ZenonT(30) DEF CopiesAt
      <4> QED
        BY <2>1, <3>2, <4>1, ZenonT(30) DEF AtEither, Low
    <3>5. ASSUME NEW q \in Partitions, worker'[q].at \notin {"idle", "begin"}
          PROVE  (IF PartitionOf[u] = q THEN AtEither(worker[q].local, u, found[u]) ELSE Low(worker[q].local, u) = found[u])'
      <4>1. IF PartitionOf[u] = q THEN AtEither(worker[q].local, u, found[u]) ELSE Low(worker[q].local, u) = found[u]
        BY <3>1, <3>3, <3>5, Zenon DEF CopiesAt
      <4>2. Low(worker[q].local, u)' = Low(worker[q].local, u)
        <5>1. CASE q = p
          <6>1. c # None /\ worker'[p].local # None /\ worker'[p].local[u] = c[u]
            BY <2>2, <2>14, NoneAssumption, ZenonT(60)
          <6> QED
            BY <5>1, <6>1, Zenon DEF Low
        <5>2. CASE q # p
          <6>1. worker'[q] = worker[q]
            BY <2>2, <5>2, ZenonT(60)
          <6> QED
            BY <6>1, Zenon DEF Low
        <5> QED
          BY <5>1, <5>2, Zenon
      <4> QED
        BY <3>2, <4>1, <4>2, ZenonT(60) DEF AtEither
    <3> QED
      BY <3>4, <3>5, Zenon DEF CopiesAt
  <2>15. ASSUME NEW q \in Partitions, NEW u \in Tables PROVE NextRows(worker[q], u, FirstRow(u, found[u]))'
    <3>1. CASE q = p /\ u = t
      <4>1. \A i \in DOMAIN Tail(b) : Tail(b)[i] \in 1..config.rows[t]
        BY <2>7, <2>8, ZenonT(60)
      <4>2. Tail(b) # <<>> => Size(t)' > 0 /\ Tail(b)[1] > LastRow(t)'
        <5>1. Size(t)' > 0
          BY <2>1, <2>4, <2>5, SMTT(30)
        <5>2. b[1] + 1 > b[1]
          BY <2>8, SMTT(30)
        <5> QED
          BY <2>8, <2>9, <5>1, <5>2, ZenonT(30)
      <4> QED
        BY <2>1, <3>1, <4>1, <4>2, ZenonT(60) DEF NextRows
    <3>2. CASE q = p /\ u # t
      BY <2>1, <3>2, Zenon DEF NextRows
    <3>3. CASE q # p
      <4>1. worker'[q] = worker[q] /\ worker[q].at # "rows"
        BY <2>1, <2>2, <3>3, BusyHas, ZenonT(60) DEF Busy
      <4> QED
        BY <4>1, Zenon DEF NextRows
    <3> QED
      BY <3>1, <3>2, <3>3, ZenonT(30)
  <2> QED
    BY <2>1, <2>12, <2>13, <2>14, <2>15, Zenon DEF OrderInv

  (***************************************************************************)
  (* A worker stores its copy of the context.                                *)
  (***************************************************************************)
<1>LowOrder. ASSUME SkipInv, TurnInv, NEW found, OrderInv(found), NEW p \in Partitions, StoreLowWatermark(p)
             PROVE  OrderInv(found)'
  <2> USE <1>LowOrder
  <2>1. PICK w : w = [worker[p] EXCEPT !.at = "check"]
    BY ZenonT(60)
  <2>2. OneWorker(p, w) /\ worker[p].at = "rows" /\ UNCHANGED <<tasks, queue>> /\ up /\ context' = worker[p].local
    BY <2>1, LowDoes, Zenon DEF OneWorker
  <2>3. w.at = "check" /\ w.local = worker[p].local
    BY <2>1, WorkerHas, Zenon DEF WorkerStates
  <2>4. \A t \in Tables \ handled :
          /\ AtEither(worker[p].local, t, found[t])
          /\ IF PartitionOf[t] = p THEN AtEither(worker[p].local, t, found[t]) ELSE Low(worker[p].local, t) = found[t]
    BY <2>2, <1>CopyAt, Zenon
  <2>5. \A t \in Tables \ handled : AtEither(context', t, found[t])
    BY <2>2, <2>4, Zenon
  <2>6. \A t \in Tables : NextRows(w, t, FirstRow(t, found[t]))
    BY <2>3, Zenon DEF NextRows
  <2>7. RowsKept
    BY <2>2, RowsRest, Zenon DEF OneWorker
  <2> QED
    BY <2>2, <2>3, <2>4, <2>5, <2>6, <2>7, <1>OrderWorker, ZenonT(30)

  (***************************************************************************)
  (* A worker ends a batch with another copy of the context.                 *)
  (***************************************************************************)
<1>CheckOrder. ASSUME SkipInv, TurnInv, NEW found, OrderInv(found), NEW p \in Partitions, EndBatch(p), ~Fatal
               PROVE  OrderInv(found)'
  <2> USE <1>CheckOrder
  <2> PICK t : t = worker[p].table
    BY Zenon
  <2>1. /\ worker[p].at = "check" /\ UNCHANGED context
        /\ \/ /\ OneWorker(p, [worker[p] EXCEPT !.at = "wait", !.local = context])
              /\ tasks' = Append(tasks, Task("done", t))
           \/ /\ OneWorker(p, [worker[p] EXCEPT !.at = "release", !.local = context]) /\ UNCHANGED tasks
    BY CheckDoes, Zenon
  <2>2. PICK w : /\ OneWorker(p, w) /\ w.at \in {"wait", "release"} /\ w.local = context
                 /\ UNCHANGED tasks \/ tasks' = Append(tasks, Task("done", t))
    <3>1. \A place \in {"wait", "release"} : LET w == [worker[p] EXCEPT !.at = place, !.local = context]
                                             IN w.at = place /\ w.local = context
      BY WorkerHas, ZenonT(60) DEF WorkerStates
    <3> QED
      BY <2>1, <3>1, Zenon
  <2>3. Busy(p) /\ up /\ UNCHANGED <<config, out>>
    BY <2>1, <2>2, Zenon DEF Busy, OneWorker
  <2>4. t \in Tables /\ OnlyRows /\ \A i \in DOMAIN tasks : tasks[i].table = t
    BY <2>3, BusyHas, ZenonT(60) DEF Turn
  <2>5. RowsKept
    <3>1. CASE UNCHANGED tasks
      BY <2>3, <3>1, RowsRest, ZenonT(60)
    <3>2. CASE tasks' = Append(tasks, Task("done", t))
      <4>1. PICK x \in TaskSet : x = Task("done", t)
        BY <2>4, TasksAre, Zenon
      <4>2. x.kind # "row" /\ x.table = t /\ tasks' = Append(tasks, x)
        BY <3>2, <4>1, Zenon DEF Task
      <4> QED
        BY <2>3, <2>4, <4>2, RowsDone, ZenonT(60)
    <3> QED
      BY <2>2, <3>1, <3>2, ZenonT(60)
  <2>6. \A u \in Tables \ handled : AtEither(context, u, found[u])
    BY <2>1, <2>3, <1>NobodyElse, <1>ContextFree, ZenonT(60)
  <2>7. \A u \in Tables \ handled : IF PartitionOf[u] = p THEN AtEither(w.local, u, found[u]) ELSE Low(w.local, u) = found[u]
    BY <2>2, <2>3, <2>6, <1>OthersFound, SMTT(30)
  <2>8. \A u \in Tables : NextRows(w, u, FirstRow(u, found[u]))
    BY <2>2, Zenon DEF NextRows
  <2>9. \A u \in Tables \ handled : AtEither(context', u, found[u])
    BY <2>1, <2>6, Zenon
  <2> QED
    BY <2>2, <2>5, <2>7, <2>8, <2>9, <1>OrderWorker, ZenonT(30)

  (***************************************************************************)
  (* A worker writes back its copy of the context.                           *)
  (***************************************************************************)
<1>ReleaseOrder. ASSUME SkipInv, TurnInv, NEW found, OrderInv(found), NEW p \in Partitions, EndTransaction(p)
                 PROVE  OrderInv(found)'
  <2> USE <1>ReleaseOrder
  <2>1. /\ OneWorker(p, Idle) /\ worker[p].at = "release" /\ context' = worker[p].local /\ UNCHANGED <<tasks, queue>>
        /\ up
    BY ReleaseDoes, Zenon DEF OneWorker
  <2>2. \A t \in Tables \ handled : AtEither(context', t, found[t])
    BY <2>1, <1>CopyAt, ZenonT(60)
  <2>3. Idle.at = "idle"
    BY ZenonT(60) DEF Idle
  <2>4. \A t \in Tables : NextRows(Idle, t, FirstRow(t, found[t]))
    BY <2>3, ZenonT(60) DEF NextRows
  <2>5. RowsKept
    BY <2>1, RowsRest, ZenonT(60) DEF OneWorker
  <2>6. PICK w : w = Idle
    BY Zenon
  <2>7. OneWorker(p, w) /\ w.at = "idle" /\ \A t \in Tables : NextRows(w, t, FirstRow(t, found[t]))
    BY <2>1, <2>3, <2>4, <2>6, ZenonT(30)
  <2> QED
    BY <2>2, <2>5, <2>7, <1>OrderWorker, ZenonT(30)

  (***************************************************************************)
  (* The handler takes one of its tasks.                                     *)
  (***************************************************************************)
<1>HandlerOrder. ASSUME SkipInv, TurnInv, NEW found, OrderInv(found),
                        OnSnapshottingStarted \/ OnTableSnapshotStarted \/ OnSnapshottingFinished
                 PROVE  OrderInv(found)'
  <2> USE <1>HandlerOrder
  <2>1. /\ tasks # <<>> /\ Head(tasks).kind # "row"
        /\ UNCHANGED <<config, up, context, file, worker, handled, out, emitted, dropped, fresh>>
        /\ tasks' = <<>> \/ \E x \in NextTask(Unhandled(handled)) : tasks' = Append(<<>>, x)
    BY HandlerDoes, Zenon
  <2>2. tasks' = <<>> \/ \E x \in TaskSet : x.kind # "row" /\ tasks' = Append(<<>>, x)
    BY <2>1, NextIs, Zenon
  <2>3. RowsKept
    BY <2>1, <2>2, RowsHandler, Zenon
  <2>4. \A t \in Tables : Low(context, t)' = Low(context, t)
    BY <2>1, Zenon DEF Low
  <2> QED
    BY <2>1, <2>3, <2>4, <1>OrderKept, ZenonT(30)

  (***************************************************************************)
  (* A table is finished.                                                    *)
  (***************************************************************************)
<1>DoneOrder. ASSUME SkipInv, TurnInv, NEW found, OrderInv(found), OnTableSnapshotFinished
              PROVE  OrderInv(found)'
  <2> USE <1>DoneOrder
  <2> PICK t : t = Head(tasks).table
    BY Zenon
  <2> PICK p : p = PartitionOf[t]
    BY Zenon
  <2>1. /\ up /\ tasks # <<>> /\ Head(tasks).kind = "done" /\ t \in Tables /\ p \in Partitions
        /\ UNCHANGED <<config, up, file, queue, finished, out, emitted, dropped, fresh>>
        /\ worker' = [worker EXCEPT ![p] = [worker[p] EXCEPT !.at = "release"]]
        /\ \/ tasks' = <<>> /\ UNCHANGED <<context, handled>>
           \/ /\ Readable /\ handled' = handled \cup {t} /\ context' = MarkedComplete(context, t)
              /\ \E x \in NextTask(Unhandled(handled')) : tasks' = Append(<<>>, x)
    BY DoneDoes, Zenon
  <2>2. worker[p].at = "wait" /\ worker[p] \in WorkerStates
    BY <2>1, HandlerAlone, WorkerHas, ZenonT(30)
  <2>3. tasks' = <<>> \/ \E x \in TaskSet : x.kind # "row" /\ tasks' = Append(<<>>, x)
    BY <2>1, NextIs, ZenonT(60)
  <2>4. RowsKept
    BY <2>1, <2>3, RowsHandler, ZenonT(30)
  <2>5. \A u \in Tables : Low(context, u)' = Low(context, u)
    <3>1. CASE UNCHANGED context
      BY <3>1, Zenon DEF Low
    <3>2. CASE Readable /\ context' = MarkedComplete(context, t)
      <4>1. context \in Contexts
        BY <3>2, Zenon DEF Readable, SkipInv, TypeInv, StateOK
      <4>2. PICK d : d = context' /\ d = MarkedComplete(context, t)
        BY <3>2, ZenonT(60)
      <4>3. /\ d \in Contexts /\ d[t] \in Watermarks /\ \A u \in Tables : u # t => d[u] = context[u]
            /\ d[t].low = Low(context, t)
        BY <2>1, <4>1, <4>2, MarkedIs, SMTT(30)
      <4>4. \A u \in Tables : Low(d, u) = Low(context, u)
        BY <2>1, <4>1, <4>3, <1>LowKept, ZenonT(30)
      <4> QED
        BY <4>2, <4>4, Zenon DEF Low
    <3> QED
      BY <2>1, <3>1, <3>2, ZenonT(60)
  <2>6. \A q \in Partitions :
          /\ worker'[q].local = worker[q].local /\ worker'[q].table = worker[q].table
          /\ worker'[q].batch = worker[q].batch
          /\ worker'[q].at = worker[q].at \/ (worker[q].at = "wait" /\ worker'[q].at = "release")
    <3>1. PICK w : w = [worker[p] EXCEPT !.at = "release"]
      BY Zenon
    <3>2. w.local = worker[p].local /\ w.table = worker[p].table /\ w.batch = worker[p].batch /\ w.at = "release"
      BY <2>2, <3>1, Zenon DEF WorkerStates
    <3>3. worker'[p] = w /\ \A q \in Partitions : q # p => worker'[q] = worker[q]
      BY <2>1, <3>1, WorkersAfter, ZenonT(60)
    <3> QED
      BY <2>2, <3>2, <3>3, ZenonT(60)
  <2>7. up' = up /\ handled \subseteq handled'
    BY <2>1, Zenon
  <2> QED
    BY <2>4, <2>5, <2>6, <2>7, <1>OrderKept, ZenonT(30)

  (***************************************************************************)
  (* The program ends: what was queued is not emitted.                       *)
  (***************************************************************************)
<1>EndsOrder. ASSUME SkipInv, TurnInv, NEW found, OrderInv(found), Ends
              PROVE  OrderInv(found)'
  <2> USE <1>EndsOrder
  <2>1. /\ ~up' /\ tasks' = <<>> /\ config' = config /\ out' = out
        /\ \A p \in Partitions : worker'[p] = Idle
    BY EndsDoes, Zenon
  <2>2. ASSUME NEW t \in Tables PROVE Passes(t, FirstRow(t, found[t]))'
    <3>1. PICK first : first = FirstRow(t, found[t])
      BY Zenon
    <3>2. FirstRow(t, found[t])' = first
      BY <2>1, <3>1, Zenon DEF FirstRow, LastUpTo, Key
    <3>3. Len(out[t]) \in Nat /\ Pending(t) \in Nat /\ Size(t) = Len(out[t]) + Pending(t)
      BY SizeIs, ZenonT(60)
    <3>4. Size(t)' = Len(out[t])
      BY <2>1, <3>3, SMTT(30) DEF Size, Pending
    <3>5. \A i \in 1..Len(out[t]) : Nth(t, i)' = Nth(t, i) /\ i \in 1..Size(t)
      BY <2>1, <3>3, SMTT(30) DEF Nth
    <3>6. Passes(t, first)
      BY <3>1, Zenon DEF OrderInv
    <3>7. ASSUME NEW i \in 1..Len(out[t])
          PROVE  /\ Nth(t, i)' \in 1..config.rows[t]
                 /\ i = 1 => Nth(t, i)' = first
                 /\ i > 1 => Nth(t, i)' > Nth(t, i - 1)' \/ Nth(t, i)' = first
      <4>1. i > 1 => i - 1 \in 1..Len(out[t])
        BY <3>3, SMTT(30)
      <4> QED
        BY <3>5, <3>6, <4>1, ZenonT(30) DEF Passes
    <3> QED
      BY <2>1, <3>2, <3>4, <3>7, Zenon DEF Passes
  <2>3. Idle.at = "idle"
    BY Zenon  DEF Idle
  <2>4. \A p \in Partitions, t \in Tables : NextRows(worker[p], t, FirstRow(t, found[t]))'
    BY <2>1, <2>3, ZenonT(60) DEF NextRows
  <2> QED
    BY <2>1, <2>2, <2>4, Zenon DEF OrderInv

  (***************************************************************************)
  (* A start: nothing was handed on.                                         *)
  (***************************************************************************)
<1>StartOrder. ASSUME SkipInv, TurnInv, StartReplicationChannel, NEW found, found = FoundIn(file.context)
               PROVE  found \in [Tables -> Nat] /\ OrderInv(found)'
  <2> USE <1>StartOrder
  <2>1. /\ context' = file.context
        /\ tasks' = <<Task("started", None)>> \/ tasks' = <<>>
        /\ \A t \in Tables : out'[t] = <<>>
        /\ \A p \in Partitions : worker'[p] = Idle
    BY StartDoes, Zenon
  <2>2. \A t \in Tables : Size(t)' = 0
    <3>1. \A t : Pending(t)' = 0
      BY <2>1 DEF Pending, Task
    <3> QED
      BY <2>1, <3>1, SMTT(30) DEF Size
  <2>3. file.context \in Contexts \cup {None}
    BY Zenon DEF SkipInv, TypeInv, StateOK
  <2>4. \A t \in Tables : Low(file.context, t) \in Nat
    BY <2>3, NoneAssumption, Zenon DEF Low, Contexts, Watermarks
  <2>5. \A t \in Tables : found[t] = Low(file.context, t)
    BY Zenon DEF FoundIn
  <2>6. found \in [Tables -> Nat]
    BY <2>4, Zenon DEF FoundIn
  <2>7. \A t \in Tables : Passes(t, FirstRow(t, found[t]))'
    BY <2>2, SMTT(30) DEF Passes
  <2>8. Idle.at = "idle"
    BY Zenon  DEF Idle
  <2>9. \A p \in Partitions, t \in Tables : NextRows(worker[p], t, FirstRow(t, found[t]))'
    BY <2>1, <2>8, Zenon DEF NextRows
  <2>10. \A t \in Tables : CopiesAt(t, found[t])'
    <3> TAKE t \in Tables
    <3>1. AtEither(context, t, found[t])'
      BY <2>1, <2>5, Zenon DEF AtEither, Low
    <3> QED
      BY <2>1, <2>8, <3>1, Zenon DEF CopiesAt
  <2> QED
    BY <2>6, <2>7, <2>9, <2>10, ZenonT(30) DEF OrderInv

  (***************************************************************************)
  (* Every step of a worker keeps the order.                                 *)
  (***************************************************************************)
<1>WorkerOrder. ASSUME SkipInv, TurnInv, NEW found, OrderInv(found), NEW p \in Partitions,
                       TakeSnapshot(p) \/ GetOrCreateContext(p) \/ StoreHighWatermark(p) \/ FetchBatch(p)
                         \/ EnqueueRow(p) \/ StoreLowWatermark(p) \/ EndBatch(p) \/ EndTransaction(p)
                PROVE  OrderInv(found)'
  <2> USE <1>WorkerOrder
  <2>1. CASE Fatal
    BY <2>1, <1>EndsOrder, Zenon DEF Fatal
  <2>2. CASE ~Fatal
    BY <2>2, <1>TakeOrder, <1>ContextOrder, <1>HighOrder, <1>FetchOrder, <1>RowOrder, <1>LowOrder, <1>CheckOrder, <1>ReleaseOrder, ZenonT(30)
  <2> QED
    BY <2>1, <2>2, Zenon

<1> SUFFICES ASSUME SkipInv, TurnInv, Ordered, [Next]_vars PROVE Ordered'
  BY Zenon
<1>1. PICK found \in [Tables -> Nat] : OrderInv(found)
  BY Zenon DEF Ordered
<1>2. CASE UNCHANGED <<config, tasks, out, up, handled, context, worker>>
  <2>1. \A t \in Tables : Low(context, t)' = Low(context, t)
    BY <1>2, Zenon DEF Low
  <2>2. RowsKept
    BY <1>2, RowsRest, Zenon
  <2>3. OrderInv(found)'
    BY <1>1, <1>2, <2>1, <2>2, <1>OrderKept, ZenonT(30)
  <2> QED
    BY <2>3, Zenon DEF Ordered
<1>3. CASE OnReadEvent
  <2>1. UNCHANGED <<up, context, worker, handled>>
    BY <1>3, ReadDoes, Zenon
  <2>2. \A t \in Tables : Low(context, t)' = Low(context, t)
    BY <2>1, ZenonT(60) DEF Low
  <2>3. OrderInv(found)'
    BY <1>1, <1>3, <2>1, <2>2, RowsRead, <1>OrderKept, ZenonT(30)
  <2> QED
    BY <2>3, Zenon DEF Ordered
<1>4. CASE StartReplicationChannel
  <2>1. PICK other : other = FoundIn(file.context)
    BY Zenon
  <2> QED
    BY <1>4, <2>1, <1>StartOrder, ZenonT(60) DEF Ordered
<1>5. CASE UNCHANGED vars \/ AwaitShutdown \/ AutoStore \/ Commit
  BY <1>2, <1>5, ZenonT(60) DEF vars, AwaitShutdown, AutoStore, Commit, history, storage
<1>6. CASE StopReplication \/ Crash
  <2>1. OrderInv(found)'
    BY <1>1, <1>6, <1>EndsOrder, ZenonT(30) DEF StopReplication, Crash
  <2> QED
    BY <2>1, Zenon DEF Ordered
<1>7. CASE OnSnapshottingStarted \/ OnTableSnapshotStarted \/ OnSnapshottingFinished \/ OnTableSnapshotFinished
  <2>1. OrderInv(found)'
    BY <1>1, <1>7, <1>HandlerOrder, <1>DoneOrder, ZenonT(30)
  <2> QED
    BY <2>1, Zenon DEF Ordered
<1>8. CASE \E p \in Partitions :
             TakeSnapshot(p) \/ GetOrCreateContext(p) \/ StoreHighWatermark(p) \/ FetchBatch(p)
               \/ EnqueueRow(p) \/ StoreLowWatermark(p) \/ EndBatch(p) \/ EndTransaction(p)
  <2>1. OrderInv(found)'
    BY <1>1, <1>8, <1>WorkerOrder, ZenonT(30)
  <2> QED
    BY <2>1, Zenon DEF Ordered
<1> QED
  BY <1>3, <1>4, <1>5, <1>6, <1>7, <1>8, ZenonT(30) DEF Next

(***************************************************************************)
(* What is emitted is the beginning of what was handed on.                 *)
(***************************************************************************)
LEMMA EmittedInOrder == SkipInv /\ TurnInv /\ Ordered => RowsInKeyOrder
<1> SUFFICES ASSUME SkipInv, TurnInv, Ordered, NEW t \in Tables, NEW i \in DOMAIN out[t], i > 1
             PROVE  out[t][i] > out[t][i - 1] \/ out[t][i] = out[t][1]
  BY Zenon  DEF RowsInKeyOrder
<1>1. PICK found \in [Tables -> Nat] : OrderInv(found)
  BY Zenon  DEF Ordered
<1>2. /\ Len(out[t]) \in Nat /\ Pending(t) \in Nat /\ Size(t) = Len(out[t]) + Pending(t)
      /\ DOMAIN out[t] = 1..Len(out[t])
  BY SizeIs, Zenon
<1>3. \A j \in 1..Len(out[t]) : j \in 1..Size(t) /\ Nth(t, j) = out[t][j]
  BY <1>2, SMTT(30) DEF Nth
<1>4. i \in 1..Len(out[t]) /\ i - 1 \in 1..Len(out[t]) /\ 1 \in 1..Len(out[t])
  BY <1>2, SMTT(30)
<1>5. Passes(t, FirstRow(t, found[t]))
  BY <1>1, Zenon DEF OrderInv
<1> QED
  BY <1>3, <1>4, <1>5, Zenon DEF Passes

(***************************************************************************)
(* The rows of a table are emitted in the order of its key, and a pass     *)
(* over them begins again only where the first one began.                  *)
(***************************************************************************)
THEOREM RowsAreInOrder == Spec => []RowsInKeyOrder
<1>1. Init => Ordered
  <2> SUFFICES ASSUME Init PROVE Ordered
    BY Zenon
  <2>1. tasks = <<>> /\ ~up /\ (\A t \in Tables : out[t] = <<>>) /\ \A p \in Partitions : worker[p] = Idle
    BY Zenon  DEF Init
  <2>2. Idle.at = "idle"
    BY Zenon  DEF Idle
  <2>3. \A t \in Tables : Size(t) = 0
    BY <2>1, SMTT(30) DEF Size, Pending
  <2>4. PICK found : found = [t \in Tables |-> 0]
    BY Zenon
  <2>5. OrderInv(found)
    BY <2>1, <2>2, <2>3, SMTT(30) DEF OrderInv, Passes, NextRows
  <2> QED
    BY <2>4, <2>5, Zenon DEF Ordered
<1> QED
  BY <1>1, InitCovers, InitTurns, SkipStep, TurnStep, OrderStep, EmittedInOrder, PTL DEF Spec

===============================================================================
