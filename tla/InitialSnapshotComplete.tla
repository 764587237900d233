----------------------- MODULE InitialSnapshotComplete ------------------------
(***************************************************************************)
(* A table that was snapshotted was emitted completely.                    *)
(***************************************************************************)
EXTENDS InitialSnapshotTurns

(* The keys of more rows. *)
Grows(have, more) == \A t \in Tables : have[t] \subseteq more[t]

(***************************************************************************)
(* Every step keeps what the contexts say.                                 *)
(***************************************************************************)
LEMMA CompleteStep == SkipInv /\ TurnInv /\ CompleteInv /\ [Next]_vars => CompleteInv'
  (***************************************************************************)
  (* What a context says of some rows, it says of more.                      *)
  (***************************************************************************)
<1>KnownMore. ASSUME NEW c, NEW have, NEW more, Known(c, have), Grows(have, more)
              PROVE  Known(c, more)
  BY <1>KnownMore, Zenon DEF Known, Grows, All

  (***************************************************************************)
  (* Without a context nothing is said.                                      *)
  (***************************************************************************)
<1>KnownNone. ASSUME NEW more
              PROVE  Known(None, more) /\ Known(EmptyContext, more)
  BY <1>KnownNone, Zenon DEF Known, EmptyContext

  (***************************************************************************)
  (* A context that differs in the watermark of a table.                     *)
  (***************************************************************************)
<1>KnownWith. ASSUME NEW c \in Contexts, NEW have, NEW more, Known(c, have), Grows(have, more), NEW t \in Tables,
                     NEW d, \A u \in Tables : u # t => d[u] = c[u],
                     1..d[t].low \subseteq more[t], d[t].complete => All(t, more), d[t].high \in {0, LastKey(t)}
              PROVE  Known(d, more)
  <2> USE <1>KnownWith
  <2>1. Known(c, more) /\ c # None
    BY <1>KnownMore, NoneAssumption, Zenon
  <2> SUFFICES ASSUME NEW u \in Tables, d[u] # None
               PROVE  /\ 1..d[u].low \subseteq more[u]
                      /\ d[u].complete => All(u, more)
                      /\ d[u].high \in {0, LastKey(u)}
    BY Zenon DEF Known
  <2>2. CASE u = t
    BY <2>2, Zenon
  <2>3. CASE u # t
    BY <2>1, <2>3, Zenon DEF Known
  <2> QED
    BY <2>2, <2>3, Zenon

  (***************************************************************************)
  (* The low watermark of a table.                                           *)
  (***************************************************************************)
<1>KnownLow. ASSUME NEW c, NEW have, NEW more, Known(c, have), Grows(have, more), NEW t \in Tables
             PROVE  1..Low(c, t) \subseteq more[t]
  <2> USE <1>KnownLow
  <2>1. 1..0 = {}
    OBVIOUS
  <2>2. CASE c = None \/ c[t] = None
    BY <2>1, <2>2, Zenon DEF Low
  <2>3. CASE ~(c = None \/ c[t] = None)
    BY <2>3, <1>KnownMore, Zenon DEF Low, Known
  <2> QED
    BY <2>2, <2>3, Zenon

  (***************************************************************************)
  (* A high watermark is stored.                                             *)
  (***************************************************************************)
<1>KnownHigh. ASSUME NEW c \in Contexts, NEW have, NEW more, Known(c, have), Grows(have, more), NEW t \in Tables,
                     config \in Configs, NEW next, NEW d, d = WithHigh(c, t, next)
              PROVE  Known(d, more)
  <2> USE <1>KnownHigh
  <2>1. CASE d = c
    BY <2>1, <1>KnownMore, Zenon
  <2>2. CASE d # c
    <3>1. /\ d[t] \in Watermarks /\ \A u \in Tables : u # t => d[u] = c[u]
          /\ d[t].low = Low(c, t) /\ d[t].high = LastKey(t)
          /\ d[t].complete => c[t] # None /\ c[t].complete
      BY <2>2, HighIs
    <3>2. 1..d[t].low \subseteq more[t]
      BY <3>1, <1>KnownLow, Zenon
    <3>3. d[t].complete => All(t, more)
      <4>1. Known(c, more) /\ c # None
        BY <1>KnownMore, NoneAssumption, Zenon
      <4> QED
        BY <3>1, <4>1, Zenon DEF Known
    <3>4. d[t].high \in {0, LastKey(t)}
      BY <3>1, Zenon
    <3> QED
      BY <3>1, <3>2, <3>3, <3>4, <1>KnownWith, Zenon
  <2> QED
    BY <2>1, <2>2, Zenon

  (***************************************************************************)
  (* A table of which all keys were handed on is marked as complete.         *)
  (***************************************************************************)
<1>KnownMarked. ASSUME NEW c \in Contexts, NEW have, NEW more, Known(c, have), Grows(have, more), NEW t \in Tables,
                       All(t, more), NEW d, d = MarkedComplete(c, t)
                PROVE  Known(d, more)
  <2> USE <1>KnownMarked
  <2>1. /\ d[t] \in Watermarks /\ \A u \in Tables : u # t => d[u] = c[u]
        /\ d[t].low = Low(c, t)
        /\ d[t].high = 0 \/ (c[t] # None /\ d[t].high = c[t].high)
    BY MarkedIs
  <2>2. 1..d[t].low \subseteq more[t]
    BY <2>1, <1>KnownLow, Zenon
  <2>3. d[t].high \in {0, LastKey(t)}
    <3>1. c[t] # None => c[t].high \in {0, LastKey(t)}
      BY NoneAssumption, Zenon DEF Known
    <3> QED
      BY <2>1, <3>1, Zenon
  <2> QED
    BY <2>1, <2>2, <2>3, <1>KnownWith, ZenonT(60)

  (***************************************************************************)
  (* A row is handed on, and the low watermark moves to its key.             *)
  (***************************************************************************)
<1>KnownRow. ASSUME NEW c \in Contexts, NEW have, NEW more, Known(c, have), Grows(have, more), NEW t \in Tables,
                    NEW key \in Nat \ {0}, key \in more[t], c[t] \in Watermarks, key <= c[t].low + 1, c[t].high # 0,
                    NEW d, \A u \in Tables : u # t => d[u] = c[u], d[t] = SetLowWatermark(c[t], key)
             PROVE  Known(d, more)
  <2> USE <1>KnownRow
  <2>1. d[t].low = key /\ d[t].high = c[t].high /\ (d[t].complete <=> (c[t].high = 0 \/ c[t].high = key))
    BY Zenon DEF SetLowWatermark, CheckComplete, Watermarks
  <2>2. c # None /\ c[t] # None
    BY NoneAssumption, Zenon
  <2>3. 1..c[t].low \subseteq more[t] /\ c[t].high \in {0, LastKey(t)}
    BY <2>2, <1>KnownMore, Zenon DEF Known
  <2>4. 1..key \subseteq more[t]
    <3>1. c[t].low \in Nat
      BY Zenon DEF Watermarks
    <3>2. \A k \in 1..key : k \in 1..c[t].low \/ k = key
      BY <3>1, SMTT(30)
    <3> QED
      BY <2>3, <3>2, Zenon
  <2>5. d[t].complete => All(t, more)
    BY <2>1, <2>3, <2>4, Zenon DEF All
  <2>6. d[t].high \in {0, LastKey(t)}
    BY <2>1, <2>3, Zenon
  <2>7. 1..d[t].low \subseteq more[t]
    BY <2>1, <2>4, Zenon
  <2> QED
    BY <2>5, <2>6, <2>7, <1>KnownWith, ZenonT(30)

  (***************************************************************************)
  (* What the contexts and tasks say after a step, from what they are then.  *)
  (***************************************************************************)
<1>ReadNext. ASSUME NEW more, config' = config, Known(context', more),
                    \A q \in Partitions : Known(worker'[q].local, more),
                    \A t \in handled' : All(t, more),
                    \A i \in DOMAIN tasks' : tasks'[i].kind = "done" => All(tasks'[i].table, more)
             PROVE  ReadInv(more)'
  <2> USE <1>ReadNext
  <2>1. \A t : LastKey(t)' = LastKey(t)
    BY Zenon DEF LastKey, Key
  <2>2. \A t : All(t, more)' <=> All(t, more)
    BY <2>1, Zenon DEF All
  <2>3. Known(context, more)'
    BY <2>1, <2>2, ZenonT(60) DEF Known
  <2>4. \A q \in Partitions : Known(worker[q].local, more)'
    BY <2>1, <2>2, ZenonT(60) DEF Known
  <2>5. \A t \in handled' : All(t, more)'
    BY <2>2, Zenon
  <2>6. ASSUME NEW i \in DOMAIN tasks', tasks'[i].kind = "done" PROVE All(tasks[i].table, more)'
    <3>1. All(tasks'[i].table, more)
      BY <2>6, Zenon
    <3>2. PICK t : t = tasks'[i].table
      BY Zenon
    <3>3. LastKey(t)' = LastKey(t) /\ 1..LastKey(t) \subseteq more[t]
      BY <2>1, <3>1, <3>2, Zenon DEF All
    <3> QED
      BY <3>1, <3>2, Zenon DEF All, LastKey, Key
  <2> QED
    BY <2>3, <2>4, <2>5, <2>6, Zenon DEF ReadInv

  (***************************************************************************)
  (* What was said of the tables that are handled or done.                   *)
  (***************************************************************************)
<1>ReadMore. ASSUME SkipInv, TurnInv, NEW have, NEW more, ReadInv(have), Grows(have, more)
             PROVE  /\ Known(context, more)
                    /\ \A q \in Partitions : Known(worker[q].local, more)
                    /\ \A t \in handled : All(t, more)
                    /\ \A i \in DOMAIN tasks : tasks[i].kind = "done" => All(tasks[i].table, more)
  <2> USE <1>ReadMore
  <2>1. \A t \in Tables : All(t, have) => All(t, more)
    BY Zenon DEF All, Grows
  <2>2. handled \subseteq Tables
    BY Zenon DEF TurnInv, EndTurns
  <2>3. \A i \in DOMAIN tasks : tasks[i].kind = "done" => tasks[i].table \in Tables
    BY QueuedTypes, Zenon
  <2>4. Known(context, more) /\ \A q \in Partitions : Known(worker[q].local, more)
    BY <1>KnownMore, Zenon DEF ReadInv
  <2> QED
    BY <2>1, <2>2, <2>3, <2>4, ZenonT(60) DEF ReadInv

  (***************************************************************************)
  (* A step of one worker.                                                   *)
  (***************************************************************************)
<1>ReadWorker. ASSUME SkipInv, TurnInv, NEW have, NEW more, ReadInv(have), Grows(have, more), NEW p \in Partitions, NEW w,
                      worker'[p] = w, \A q \in Partitions : q # p => worker'[q] = worker[q], UNCHANGED <<config, handled>>,
                      Known(w.local, more), Known(context', more),
                      \/ UNCHANGED tasks
                      \/ \E x \in TaskSet : tasks' = Append(tasks, x) /\ (x.kind = "done" => All(x.table, more))
               PROVE  ReadInv(more)'
  <2> USE <1>ReadWorker
  <2>1. /\ \A q \in Partitions : Known(worker[q].local, more)
        /\ \A t \in handled : All(t, more)
        /\ \A i \in DOMAIN tasks : tasks[i].kind = "done" => All(tasks[i].table, more)
    BY <1>ReadMore, Zenon
  <2>2. \A q \in Partitions : Known(worker'[q].local, more)
    BY <2>1, Zenon
  <2>3. \A i \in DOMAIN tasks' : tasks'[i].kind = "done" => All(tasks'[i].table, more)
    <3>1. CASE UNCHANGED tasks
      BY <2>1, <3>1, Zenon
    <3>2. CASE \E x \in TaskSet : tasks' = Append(tasks, x) /\ (x.kind = "done" => All(x.table, more))
      <4>1. PICK x \in TaskSet : tasks' = Append(tasks, x) /\ (x.kind = "done" => All(x.table, more))
        BY <3>2, ZenonT(60)
      <4>2. \A i \in DOMAIN tasks' : (i \in DOMAIN tasks /\ tasks'[i] = tasks[i]) \/ tasks'[i] = x
        BY <4>1, QueuedTypes, AppendedEach, SMTT(30)
      <4> QED
        BY <2>1, <4>1, <4>2, Zenon
    <3> QED
      BY <3>1, <3>2, Zenon
  <2>4. \A t \in handled' : All(t, more)
    BY <2>1, Zenon
  <2>5. config' = config
    BY Zenon
  <2> QED
    BY <2>2, <2>3, <2>4, <2>5, <1>ReadNext, ZenonT(30)

  (***************************************************************************)
  (* A worker that has no table any more, or does not hand on rows.          *)
  (***************************************************************************)
<1>HighElse. ASSUME NEW p \in Partitions, NEW w, worker'[p] = w, \A q \in Partitions : q # p => worker'[q] = worker[q],
                    w.at # "rows" \/ w.local[w.table].high # 0, \A q \in Partitions : HighSet(worker[q])
             PROVE  \A q \in Partitions : HighSet(worker[q])'
  BY <1>HighElse, Zenon DEF HighSet

  (***************************************************************************)
  (* The steps of a worker that hand on no row.                              *)
  (***************************************************************************)
<1>WorkerReads. ASSUME SkipInv, TurnInv, NEW have, NEW more, ReadInv(have), Grows(have, more), NEW p \in Partitions, ~Fatal,
                       TakeSnapshot(p) \/ GetOrCreateContext(p) \/ StoreHighWatermark(p) \/ FetchBatch(p)
                         \/ StoreLowWatermark(p) \/ EndBatch(p) \/ EndTransaction(p)
                PROVE  /\ ReadInv(more)'
                       /\ (\A q \in Partitions : HighSet(worker[q])) => \A q \in Partitions : HighSet(worker[q])'
  <2> USE <1>WorkerReads
  <2> PICK t : t = worker[p].table
    BY Zenon
  <2>1. /\ worker[p] \in WorkerStates /\ WorkerOK(worker[p]) /\ config \in Configs
        /\ context \in Contexts \cup {None}
    BY WorkerHas, Zenon DEF SkipInv, TypeInv, StateOK
  <2>2. Known(context, more) /\ Known(worker[p].local, more) /\ Known(worker[p].local, have)
    BY <1>ReadMore, Zenon DEF ReadInv
  <2>3. ASSUME NEW w, OneWorker(p, w), Known(w.local, more), Known(context', more),
               w.at # "rows" \/ w.local[w.table].high # 0,
               \/ UNCHANGED tasks
               \/ \E x \in TaskSet : tasks' = Append(tasks, x) /\ (x.kind = "done" => All(x.table, more))
        PROVE  /\ ReadInv(more)'
               /\ (\A q \in Partitions : HighSet(worker[q])) => \A q \in Partitions : HighSet(worker[q])'
    <3>1. worker'[p] = w /\ \A q \in Partitions : q # p => worker'[q] = worker[q]
      BY <2>3, WorkersAfter, Zenon DEF OneWorker
    <3>2. UNCHANGED <<config, handled>>
      BY <2>3, Zenon DEF OneWorker
    <3>3. ReadInv(more)'
      BY <2>3, <3>1, <3>2, <1>ReadWorker, Zenon
    <3>4. (\A q \in Partitions : HighSet(worker[q])) => \A q \in Partitions : HighSet(worker[q])'
      BY <2>3, <3>1, <1>HighElse, Zenon
    <3> QED
      BY <3>3, <3>4, Zenon
  <2>4. CASE TakeSnapshot(p)
    <3>1. PICK w : w = [Idle EXCEPT !.at = "begin", !.table = Head(queue[p]).table, !.next = Head(queue[p]).next]
      BY Zenon
    <3>2. OneWorker(p, w) /\ UNCHANGED <<tasks, context>>
      BY <2>4, <3>1, TakeDoes, Zenon
    <3>3. w.at = "begin" /\ w.local = None
      BY <3>1, Zenon DEF Idle
    <3> QED
      BY <2>2, <2>3, <3>2, <3>3, <1>KnownNone, ZenonT(30)
  <2>5. CASE GetOrCreateContext(p)
    <3>1. PICK w : w = [worker[p] EXCEPT !.at = "create", !.local = context']
      BY Zenon
    <3>2. OneWorker(p, w) /\ UNCHANGED tasks /\ context' = IF context = None THEN EmptyContext ELSE context
      BY <2>5, <3>1, ContextDoes, Zenon
    <3>3. w.at = "create" /\ w.local = context'
      BY <2>1, <3>1, ZenonT(60) DEF WorkerStates
    <3>4. Known(context', more)
      BY <2>2, <3>2, <1>KnownNone, Zenon
    <3> QED
      BY <2>3, <3>2, <3>3, <3>4, ZenonT(60)
  <2>6. CASE StoreHighWatermark(p)
    <3>1. PICK w : w = [worker[p] EXCEPT !.at = "load"]
      BY Zenon
    <3>2. OneWorker(p, w) /\ UNCHANGED tasks /\ worker[p].at = "create" /\ context' = WithHigh(worker[p].local, t, worker[p].next)
      BY <2>6, <3>1, HighDoes, Zenon
    <3>3. w.at = "load" /\ w.local = worker[p].local
      BY <2>1, <3>1, Zenon DEF WorkerStates
    <3>4. worker[p].local \in Contexts /\ t \in Tables
      BY <2>1, <3>2, Zenon DEF WorkerOK
    <3>5. Known(context', more)
      BY <2>1, <2>2, <3>2, <3>4, <1>KnownHigh, ZenonT(60)
    <3> QED
      BY <2>2, <2>3, <3>2, <3>3, <3>5, Zenon
  <2>7. CASE FetchBatch(p)
    <3>1. PICK w : w = [worker[p] EXCEPT !.at = "rows", !.local = context, !.lsn = commits,
                                         !.batch = Batch(t, context[t].low, context[t].high)]
      BY Zenon
    <3>2. /\ OneWorker(p, w) /\ worker[p].at = "load" /\ context # None /\ Decodes(context) /\ context[t] # None
          /\ UNCHANGED <<tasks, queue, context>>
      BY <2>7, <3>1, FetchDoes, ZenonT(60)
    <3>3. w.local = context /\ w.table = t
      BY <2>1, <3>1, Zenon DEF WorkerStates
    <3>4. t \in Tables
      BY <2>1, <3>2, Zenon DEF WorkerOK
    <3>5. context[t].high # 0
      BY <2>1, <3>2, <3>4, SMTT(30) DEF Decodes, Contexts, Watermarks
    <3> QED
      BY <2>2, <2>3, <3>2, <3>3, <3>5, ZenonT(60)
  <2>8. CASE StoreLowWatermark(p)
    <3>1. PICK w : w = [worker[p] EXCEPT !.at = "check"]
      BY Zenon
    <3>2. OneWorker(p, w) /\ UNCHANGED tasks /\ context' = worker[p].local
      BY <2>8, <3>1, LowDoes, ZenonT(60)
    <3>3. w.at = "check" /\ w.local = worker[p].local
      BY <2>1, <3>1, Zenon DEF WorkerStates
    <3> QED
      BY <2>2, <2>3, <3>2, <3>3, ZenonT(60)
  <2>9. CASE EndBatch(p)
    <3>1. /\ worker[p].at = "check" /\ context # None /\ context[t] # None /\ UNCHANGED context
          /\ \/ /\ OneWorker(p, [worker[p] EXCEPT !.at = "wait", !.local = context])
                /\ context[t].complete /\ tasks' = Append(tasks, Task("done", t))
             \/ /\ OneWorker(p, [worker[p] EXCEPT !.at = "release", !.local = context]) /\ UNCHANGED tasks
      BY <2>9, CheckDoes, Zenon
    <3>2. t \in Tables
      BY <2>1, <3>1, ZenonT(60) DEF WorkerOK
    <3>3. \A place \in {"wait", "release"} : LET w == [worker[p] EXCEPT !.at = place, !.local = context]
                                             IN w.at = place /\ w.local = context
      BY <2>1, ZenonT(60) DEF WorkerStates
    <3>4. PICK w : /\ OneWorker(p, w) /\ w.at \in {"wait", "release"} /\ w.local = context
                   /\ UNCHANGED tasks \/ (context[t].complete /\ tasks' = Append(tasks, Task("done", t)))
      BY <3>1, <3>3, ZenonT(60)
    <3>5. PICK x \in TaskSet : x = Task("done", t) /\ x.table = t
      BY <3>2, TasksAre, Zenon DEF Task
    <3>6. context[t].complete => All(t, more)
      BY <2>2, <3>1, <3>2, ZenonT(30) DEF Known
    <3>7. \/ UNCHANGED tasks
          \/ \E y \in TaskSet : tasks' = Append(tasks, y) /\ (y.kind = "done" => All(y.table, more))
      BY <3>4, <3>5, <3>6, ZenonT(60)
    <3>8. Known(context', more) /\ Known(w.local, more) /\ w.at # "rows"
      BY <2>2, <3>1, <3>4, ZenonT(60)
    <3> QED
      BY <2>3, <3>4, <3>7, <3>8, ZenonT(60)
  <2>10. CASE EndTransaction(p)
    <3>1. PICK w : w = Idle
      BY Zenon
    <3>2. OneWorker(p, w) /\ UNCHANGED tasks /\ context' = worker[p].local
      BY <2>10, <3>1, ReleaseDoes, Zenon
    <3>3. w.at = "idle" /\ w.local = None
      BY <3>1, Zenon DEF Idle
    <3> QED
      BY <2>2, <2>3, <3>2, <3>3, <1>KnownNone, ZenonT(30)
  <2> QED
    BY <2>4, <2>5, <2>6, <2>7, <2>8, <2>9, <2>10, ZenonT(30)

  (***************************************************************************)
  (* The next task of the handler is not that of a table that is done.       *)
  (***************************************************************************)
<1>NoneDone. ASSUME NEW ts, NEW candidates, ts = <<>> \/ \E x \in NextTask(candidates) : ts = Append(<<>>, x)
             PROVE  \A i \in DOMAIN ts : ts[i].kind # "done"
  <2> USE <1>NoneDone
  <2>1. CASE ts = <<>>
    BY <2>1
  <2>2. CASE \E x \in NextTask(candidates) : ts = Append(<<>>, x)
    <3>1. PICK x \in NextTask(candidates) : ts = Append(<<>>, x)
      BY <2>2, Zenon
    <3>2. x.kind # "done"
      BY DEF NextTask, Task
    <3>3. DOMAIN ts = 1..1 /\ ts[1] = x
      BY <3>1, SMTT(30)
    <3> QED
      BY <3>2, <3>3, SMTT(30)
  <2> QED
    BY <2>1, <2>2, ZenonT(60)

  (***************************************************************************)
  (* A row is handed on.                                                     *)
  (***************************************************************************)
<1>RowReads. ASSUME SkipInv, TurnInv, NEW have, NEW more, ReadInv(have), Grows(have, more), NEW p \in Partitions, EnqueueRow(p),
                    \A q \in Partitions : HighSet(worker[q]),
                    NEW t, t = worker[p].table, NEW b, b = worker[p].batch, Key(t, b[1]) \in more[t]
             PROVE  ReadInv(more)' /\ \A q \in Partitions : HighSet(worker[q])'
  <2> USE <1>RowReads
  <2> PICK c : c = worker[p].local
    BY Zenon
  <2> PICK w : w = worker'[p]
    BY Zenon
  <2>1. RowHanded(p, t, b, c)
    BY RowIs, Zenon
  <2>2. /\ t \in Tables /\ worker[p].at = "rows" /\ b # <<>> /\ c \in Contexts /\ c[t] \in Watermarks
        /\ Key(t, b[1]) \in Nat \ {0} /\ w.table = t /\ w.local[t] = SetLowWatermark(c[t], Key(t, b[1]))
        /\ \A u \in Tables : u # t => w.local[u] = c[u]
        /\ \A q \in Partitions : q # p => worker'[q] = worker[q]
        /\ UNCHANGED <<config, handled, context>>
    BY <2>1, Zenon DEF RowHanded
  <2>3. \E x \in TaskSet : tasks' = Append(tasks, x) /\ (x.kind = "done" => All(x.table, more))
    BY <2>1, Zenon DEF RowHanded
  <2>4. Key(t, b[1]) <= c[t].low + 1
    BY <2>2, WorkerHas, Zenon DEF BatchOK
  <2>5. c[t].high # 0
    BY <2>2, Zenon DEF HighSet
  <2>6. Known(c, have) /\ Known(context', more)
    BY <2>2, <1>ReadMore, ZenonT(60) DEF ReadInv
  <2>7. Known(w.local, more)
    <3>1. PICK key \in Nat \ {0} : key = Key(t, b[1])
      BY <2>2, ZenonT(60)
    <3>2. PICK d : d = w.local
      BY Zenon
    <3> QED
      BY <2>2, <2>4, <2>5, <2>6, <3>1, <3>2, <1>KnownRow, SMTT(30)
  <2>8. ReadInv(more)'
    BY <2>2, <2>3, <2>6, <2>7, <1>ReadWorker, ZenonT(60)
  <2>9. w.local[w.table].high # 0
    BY <2>2, <2>5, SMTT(30) DEF SetLowWatermark, CheckComplete, Watermarks
  <2>10. \A q \in Partitions : HighSet(worker[q])'
    BY <2>2, <2>9, <1>HighElse, ZenonT(60)
  <2> QED
    BY <2>8, <2>10, ZenonT(60)

  (***************************************************************************)
  (* The tasks of the snapshotting handler that change no context.           *)
  (***************************************************************************)
<1>HandlerReads. ASSUME SkipInv, TurnInv, NEW have, NEW more, ReadInv(have), Grows(have, more),
                        OnSnapshottingStarted \/ OnTableSnapshotStarted \/ OnSnapshottingFinished
                 PROVE  /\ ReadInv(more)'
                        /\ (\A q \in Partitions : HighSet(worker[q])) => \A q \in Partitions : HighSet(worker[q])'
  <2> USE <1>HandlerReads
  <2>1. /\ UNCHANGED <<config, context, worker, handled>>
        /\ tasks' = <<>> \/ \E x \in NextTask(Unhandled(handled)) : tasks' = Append(<<>>, x)
    BY HandlerDoes, Zenon
  <2>2. /\ Known(context, more) /\ \A q \in Partitions : Known(worker[q].local, more)
        /\ \A t \in handled : All(t, more)
    BY <1>ReadMore, Zenon
  <2>3. \A i \in DOMAIN tasks' : tasks'[i].kind # "done"
    BY <2>1, <1>NoneDone, Zenon
  <2>4. ReadInv(more)'
    BY <2>1, <2>2, <2>3, <1>ReadNext, Zenon
  <2>5. (\A q \in Partitions : HighSet(worker[q])) => \A q \in Partitions : HighSet(worker[q])'
    BY <2>1, Zenon DEF HighSet
  <2> QED
    BY <2>4, <2>5, Zenon

  (***************************************************************************)
  (* A table is marked as complete: the task says that it is.                *)
  (***************************************************************************)
<1>DoneReads. ASSUME SkipInv, TurnInv, NEW have, NEW more, ReadInv(have), Grows(have, more), OnTableSnapshotFinished
              PROVE  /\ ReadInv(more)'
                     /\ (\A q \in Partitions : HighSet(worker[q])) => \A q \in Partitions : HighSet(worker[q])'
  <2> USE <1>DoneReads
  <2> PICK t : t = Head(tasks).table
    BY Zenon
  <2> PICK p : p = PartitionOf[t]
    BY Zenon
  <2> PICK w : w = [worker[p] EXCEPT !.at = "release"]
    BY Zenon
  <2>1. /\ tasks # <<>> /\ Head(tasks).kind = "done" /\ t \in Tables /\ p \in Partitions /\ UNCHANGED config
        /\ worker' = [worker EXCEPT ![p] = w]
        /\ \/ tasks' = <<>> /\ UNCHANGED <<context, handled>>
           \/ /\ Readable /\ handled' = handled \cup {t} /\ context' = MarkedComplete(context, t)
              /\ \E x \in NextTask(Unhandled(handled')) : tasks' = Append(<<>>, x)
    BY DoneDoes, Zenon
  <2>2. /\ Known(context, more) /\ \A q \in Partitions : Known(worker[q].local, more)
        /\ \A u \in handled : All(u, more)
        /\ \A i \in DOMAIN tasks : tasks[i].kind = "done" => All(tasks[i].table, more)
    BY <1>ReadMore, Zenon
  <2>3. All(t, more)
    <3>1. 1 \in DOMAIN tasks /\ Head(tasks) = tasks[1]
      BY <2>1, QueuedTypes, Taken, ZenonT(60)
    <3> QED
      BY <2>1, <2>2, <3>1, Zenon
  <2>4. w.at = "release" /\ w.local = worker[p].local
    BY <2>1, WorkerHas, ZenonT(60) DEF WorkerStates
  <2>5. worker'[p] = w /\ \A q \in Partitions : q # p => worker'[q] = worker[q]
    BY <2>1, WorkersAfter, ZenonT(60)
  <2>6. \A i \in DOMAIN tasks' : tasks'[i].kind # "done"
    BY <2>1, <1>NoneDone, Zenon
  <2>7. Known(context', more)
    <3>1. CASE UNCHANGED context
      BY <2>2, <3>1, Zenon
    <3>2. CASE Readable /\ context' = MarkedComplete(context, t)
      <4>1. context \in Contexts
        BY <3>2, QueuedTypes, Zenon DEF Readable, SkipInv, TypeInv, StateOK
      <4>2. PICK c : c = context
        BY Zenon
      <4>3. PICK d : d = context'
        BY Zenon
      <4>4. Grows(more, more)
        BY Zenon DEF Grows
      <4> QED
        BY <2>1, <2>2, <2>3, <3>2, <4>1, <4>2, <4>3, <4>4, <1>KnownMarked, ZenonT(30)
    <3> QED
      BY <2>1, <3>1, <3>2, ZenonT(60)
  <2>8. \A u \in handled' : All(u, more)
    BY <2>1, <2>2, <2>3, ZenonT(60)
  <2>9. \A q \in Partitions : Known(worker'[q].local, more)
    BY <2>2, <2>4, <2>5, ZenonT(60)
  <2>10. ReadInv(more)'
    BY <2>1, <2>6, <2>7, <2>8, <2>9, <1>ReadNext, ZenonT(30)
  <2>11. (\A q \in Partitions : HighSet(worker[q])) => \A q \in Partitions : HighSet(worker[q])'
    BY <2>1, <2>4, <2>5, <1>HighElse, ZenonT(60)
  <2> QED
    BY <2>10, <2>11, Zenon

  (***************************************************************************)
  (* Steps that leave the contexts as they are, and add no task.             *)
  (***************************************************************************)
<1>QuietReads. ASSUME SkipInv, TurnInv, NEW have, NEW more, ReadInv(have), Grows(have, more),
                      UNCHANGED <<config, context, worker, handled>>, UNCHANGED tasks \/ OnReadEvent
               PROVE  /\ ReadInv(more)'
                      /\ (\A q \in Partitions : HighSet(worker[q])) => \A q \in Partitions : HighSet(worker[q])'
  <2> USE <1>QuietReads
  <2>1. /\ Known(context, more) /\ \A q \in Partitions : Known(worker[q].local, more)
        /\ \A t \in handled : All(t, more)
        /\ \A i \in DOMAIN tasks : tasks[i].kind = "done" => All(tasks[i].table, more)
    BY <1>ReadMore, Zenon
  <2>2. \A i \in DOMAIN tasks' : tasks'[i].kind = "done" => All(tasks'[i].table, more)
    <3>1. CASE UNCHANGED tasks
      BY <2>1, <3>1, ZenonT(60)
    <3>2. CASE OnReadEvent
      <4>1. tasks # <<>> /\ tasks' = Tail(tasks)
        BY <3>2, Zenon DEF OnReadEvent, Running
      <4>2. /\ DOMAIN tasks' = 1..(Len(tasks) - 1)
            /\ \A i \in 1..(Len(tasks) - 1) : tasks'[i] = tasks[i + 1] /\ i + 1 \in DOMAIN tasks
        BY <4>1, QueuedTypes, Taken, Zenon
      <4> QED
        BY <2>1, <4>2, ZenonT(60)
    <3> QED
      BY <3>1, <3>2, ZenonT(60)
  <2>3. ReadInv(more)'
    BY <2>1, <2>2, <1>ReadNext, ZenonT(30)
  <2>4. (\A q \in Partitions : HighSet(worker[q])) => \A q \in Partitions : HighSet(worker[q])'
    BY Zenon DEF HighSet
  <2> QED
    BY <2>3, <2>4, Zenon

  (***************************************************************************)
  (* Nothing is left of a process that ends.                                 *)
  (***************************************************************************)
<1>EndsReads. ASSUME Ends, NEW more
              PROVE  ReadInv(more)' /\ \A q \in Partitions : HighSet(worker[q])'
  <2> USE <1>EndsReads
  <2>1. /\ tasks' = <<>> /\ handled' = {} /\ context' = None /\ config' = config
        /\ \A p \in Partitions : worker'[p] = Idle
    BY EndsDoes, Zenon
  <2>2. \A q \in Partitions : Known(worker'[q].local, more)
    BY <2>1, IdleIs, <1>KnownNone, ZenonT(60)
  <2>3. ReadInv(more)'
    BY <2>1, <2>2, <1>KnownNone, <1>ReadNext, SMTT(30)
  <2>4. \A q \in Partitions : HighSet(worker[q])'
    BY <2>1, IdleIs, ZenonT(60) DEF HighSet
  <2> QED
    BY <2>3, <2>4, ZenonT(30)

  (***************************************************************************)
  (* A process begins with the context of the file.                          *)
  (***************************************************************************)
<1>StartReads. ASSUME SkipInv, TurnInv, StartReplicationChannel, NEW more, Known(file.context, more)
               PROVE  ReadInv(more)' /\ \A q \in Partitions : HighSet(worker[q])'
  <2> USE <1>StartReads
  <2>1. /\ context' = file.context
        /\ tasks' = <<Task("started", None)>> \/ tasks' = <<>>
        /\ UNCHANGED <<config, handled, worker>> /\ handled = {} /\ \A p \in Partitions : worker[p] = Idle
    BY StartDoes, ZenonT(60)
  <2>2. \A q \in Partitions : Known(worker'[q].local, more)
    BY <2>1, IdleIs, <1>KnownNone, ZenonT(60)
  <2>3. \A i \in DOMAIN tasks' : tasks'[i].kind # "done"
    BY <2>1, SMTT(30) DEF Task
  <2>4. ReadInv(more)'
    BY <2>1, <2>2, <2>3, <1>ReadNext, ZenonT(60)
  <2>5. \A q \in Partitions : HighSet(worker[q])'
    BY <2>1, IdleIs, ZenonT(60) DEF HighSet
  <2> QED
    BY <2>4, <2>5, Zenon

  (***************************************************************************)
  (* A row is handed on: its key is one of those that were, by any process   *)
  (* and by this one.                                                        *)
  (***************************************************************************)
<1>RowGrows. ASSUME SkipInv, TurnInv, NEW p \in Partitions, EnqueueRow(p),
                    NEW t, t = worker[p].table, NEW b, b = worker[p].batch,
                    NEW have, have = Have', NEW here, here = Here'
             PROVE  /\ Grows(Have, have) /\ Key(t, b[1]) \in have[t]
                    /\ Grows(Here, here) /\ Key(t, b[1]) \in here[t]
  <2> USE <1>RowGrows
  <2> PICK c : c = worker[p].local
    BY Zenon
  <2>1. RowHanded(p, t, b, c)
    BY RowIs, Zenon
  <2>2. /\ t \in Tables /\ UNCHANGED <<config, out, emitted, dropped>> /\ OnlyRows /\ Turn(t)
    BY <2>1, Zenon DEF RowHanded
  <2>3. PICK x \in TaskSet : x.kind = "row" /\ x.table = t /\ x.row = b[1] /\ tasks' = Append(tasks, x)
    BY <2>1, Zenon DEF RowHanded
  <2>4. /\ \A u \in Tables : QueuedRows(tasks, u) \subseteq QueuedRows(tasks', u)
        /\ b[1] \in QueuedRows(tasks', t)
    BY <2>3, QueuedTypes, QueuedAppend, ZenonT(60)
  <2>5. Grows(Have, have)
    BY <2>2, <2>4, HaveGrows, ZenonT(60) DEF Grows
  <2>6. Key(t, b[1])' = Key(t, b[1])
    BY <2>2, Zenon DEF Key
  <2>7. Key(t, b[1]) \in have[t]
    BY <2>2, <2>4, <2>6, ZenonT(60) DEF Have, KeysOf, Key
  <2>8. PICK n : n = Size(t)
    BY Zenon
  <2>9. /\ n \in Nat /\ Size(t)' = n + 1 /\ Nth(t, n + 1)' = b[1]
        /\ \A i \in 1..n : Nth(t, i)' = Nth(t, i)
        /\ \A u \in Tables : u # t => Size(u)' = Size(u) /\ \A i \in 1..Size(u) : Nth(u, i)' = Nth(u, i)
    BY <2>2, <2>3, <2>8, RowsMore, SizeIs, ZenonT(60)
  <2>10. Grows(Here, here)
    <3> SUFFICES ASSUME NEW u \in Tables, NEW i \in 1..Size(u) PROVE Key(u, Nth(u, i)) \in here[u]
      BY DEF Grows, Here, KeysOf
    <3>1. PICK k : k = i
      BY Zenon
    <3>2. Nth(u, k)' = Nth(u, k) /\ k \in 1..Size(u)'
      <4>1. CASE u = t
        <5>1. k \in 1..n /\ k \in 1..(n + 1)
          BY <2>8, <2>9, <3>1, <4>1, SMTT(30)
        <5> QED
          BY <2>9, <4>1, <5>1, ZenonT(60)
      <4>2. CASE u # t
        BY <2>9, <3>1, <4>2, ZenonT(60)
      <4> QED
        BY <4>1, <4>2, Zenon
    <3>3. PICK row : row = Nth(u, k)
      BY Zenon
    <3>4. Key(u, row)' = Key(u, row)
      BY <2>2, Zenon DEF Key
    <3>5. here[u] = {Key(u, Nth(u, j))' : j \in 1..Size(u)'}
      BY Zenon  DEF Here, KeysOf
    <3> QED
      BY <2>2, <3>1, <3>2, <3>3, <3>5, ZenonT(60) DEF Key
  <2>11. Key(t, b[1]) \in here[t]
    <3>1. n + 1 \in 1..(n + 1)
      BY <2>9, SMTT(30)
    <3>2. here[t] = {Key(t, Nth(t, j))' : j \in 1..Size(t)'}
      BY <2>2, SMTT(30) DEF Here, KeysOf
    <3> QED
      BY <2>2, <2>9, <3>1, <3>2, ZenonT(60) DEF Key
  <2> QED
    BY <2>5, <2>7, <2>10, <2>11, ZenonT(30)

  (***************************************************************************)
  (* No row of this process is lost by a step that hands on none.            *)
  (***************************************************************************)
<1>HereKept. ASSUME RowsKept
             PROVE  Here' = Here
  <2> USE <1>HereKept
  <2>1. config' = config /\ \A t \in Tables : Size(t)' = Size(t) /\ \A i \in 1..Size(t) : Nth(t, i)' = Nth(t, i)
    BY Zenon  DEF RowsKept
  <2>2. ASSUME NEW t \in Tables PROVE Here'[t] = Here[t]
    <3>1. Here[t] = {Key(t, Nth(t, j)) : j \in 1..Size(t)}
      BY Zenon DEF Here, KeysOf
    <3>2. Here'[t] = {Key(t, Nth(t, j))' : j \in 1..Size(t)'}
      BY Zenon DEF Here, KeysOf
    <3>3. \A j \in 1..Size(t) : Key(t, Nth(t, j))' = Key(t, Nth(t, j))
      BY <2>1, Zenon DEF Key
    <3> QED
      BY <2>1, <3>1, <3>2, <3>3, SMTT(30)
  <2>3. Here = [t \in Tables |-> Here[t]] /\ Here' = [t \in Tables |-> Here'[t]]
    BY Zenon  DEF Here
  <2> QED
    BY <2>2, <2>3, Zenon

  (***************************************************************************)
  (* The tasks of the handler take no row out of the queue.                  *)
  (***************************************************************************)
<1>HandlerGrows. ASSUME SkipInv, TurnInv,
                        OnSnapshottingStarted \/ OnTableSnapshotStarted \/ OnSnapshottingFinished \/ OnTableSnapshotFinished
                 PROVE  (\A t \in Tables : Have[t] \subseteq Have'[t]) /\ RowsKept
  <2> USE <1>HandlerGrows
  <2>1. /\ tasks # <<>> /\ Head(tasks).kind # "row" /\ UNCHANGED <<config, out, emitted, dropped>>
        /\ tasks' = <<>> \/ \E done : \E x \in NextTask(Unhandled(done)) : tasks' = Append(<<>>, x)
    <3>1. CASE OnTableSnapshotFinished
      <4>1. PICK t : t = Head(tasks).table
        BY Zenon
      <4> QED
        BY <3>1, <4>1, DoneDoes, Zenon
    <3>2. CASE OnSnapshottingStarted \/ OnTableSnapshotStarted \/ OnSnapshottingFinished
      BY <3>2, HandlerDoes, ZenonT(60)
    <3> QED
      BY <3>1, <3>2, Zenon
  <2>2. tasks' = <<>> \/ \E x \in TaskSet : x.kind # "row" /\ tasks' = Append(<<>>, x)
    BY <2>1, NextIs, Zenon
  <2>3. Tail(tasks) = <<>>
    BY <2>1, HandlerAlone, Zenon
  <2>4. tasks' = Tail(tasks) \/ \E x \in TaskSet : tasks' = Append(Tail(tasks), x)
    BY <2>2, <2>3, Zenon
  <2> QED
    BY <2>1, <2>2, <2>4, TaskTaken, RowsHandler, Zenon

  (***************************************************************************)
  (* A row that is taken out of the queue is emitted.                        *)
  (***************************************************************************)
<1>ReadGrows. ASSUME SkipInv, TurnInv, OnReadEvent
              PROVE  \A t \in Tables : Have[t] \subseteq Have'[t]
  <2> USE <1>ReadGrows
  <2> PICK e : e = Head(tasks)
    BY Zenon
  <2>1. /\ tasks # <<>> /\ e.kind = "row" /\ e.table \in Tables /\ tasks' = Tail(tasks)
        /\ emitted' = [emitted EXCEPT ![e.table] = @ \cup {e.row}]
        /\ UNCHANGED <<config, dropped>>
    BY ReadDoes, Zenon
  <2>2. \A t \in Tables : emitted[t] \subseteq emitted'[t] /\ (t = e.table => e.row \in emitted'[t])
    BY <2>1, Zenon DEF SkipInv, TypeInv, StateOK
  <2>3. \A t \in Tables : QueuedRows(tasks, t) \subseteq emitted'[t] \cup QueuedRows(tasks', t)
    <3> TAKE t \in Tables
    <3> SUFFICES ASSUME NEW r \in QueuedRows(tasks, t) PROVE r \in emitted'[t] \cup QueuedRows(tasks', t)
      BY Zenon
    <3>1. r \in QueuedRows(tasks', t) \/ (e.table = t /\ e.row = r)
      BY <2>1, QueuedTypes, QueuedTail, ZenonT(30)
    <3> QED
      BY <2>2, <3>1, ZenonT(60)
  <2> QED
    BY <2>1, <2>2, <2>3, HaveGrows, ZenonT(60)

  (***************************************************************************)
  (* Nor does a worker.                                                      *)
  (***************************************************************************)
<1>WorkerGrows. ASSUME SkipInv, TurnInv, NEW p \in Partitions, ~Fatal,
                       TakeSnapshot(p) \/ GetOrCreateContext(p) \/ StoreHighWatermark(p) \/ FetchBatch(p)
                         \/ StoreLowWatermark(p) \/ EndBatch(p) \/ EndTransaction(p)
                PROVE  /\ \A t \in Tables : Have[t] \subseteq Have'[t]
                       /\ RowsKept /\ UNCHANGED <<up, fresh, file>> /\ up
  <2> USE <1>WorkerGrows
  <2> PICK t : t = worker[p].table
    BY Zenon
  <2>1. /\ up /\ UNCHANGED <<up, fresh, file, config, out, emitted, dropped>>
        /\ UNCHANGED tasks \/ (worker[p].at = "check" /\ tasks' = Append(tasks, Task("done", t)))
    BY TakeDoes, ContextDoes, HighDoes, FetchDoes, LowDoes, CheckDoes, ReleaseDoes, ZenonT(60) DEF OneWorker
  <2>2. CASE UNCHANGED tasks
    <3>1. RowsKept
      BY <2>1, <2>2, RowsRest, Zenon
    <3>2. \A u \in Tables : Have[u] \subseteq Have'[u]
      BY <2>1, <2>2, HaveSame, Zenon
    <3> QED
      BY <2>1, <3>1, <3>2, ZenonT(60)
  <2>3. CASE worker[p].at = "check" /\ tasks' = Append(tasks, Task("done", t))
    <3>1. Busy(p)
      BY <2>3, Zenon DEF Busy
    <3>2. t \in Tables /\ OnlyRows /\ Turn(t)
      BY <3>1, BusyHas, Zenon
    <3>3. PICK x \in TaskSet : x = Task("done", t) /\ x.kind # "row" /\ x.table = t
      BY <3>2, TasksAre, ZenonT(60) DEF Task
    <3>4. \A i \in DOMAIN tasks : tasks[i].table = t
      BY <3>2, Zenon DEF Turn
    <3>5. tasks' = Append(tasks, x)
      BY <2>3, <3>3, Zenon
    <3>6. RowsKept
      BY <2>1, <3>2, <3>3, <3>4, <3>5, RowsDone, ZenonT(60)
    <3>7. \A u \in Tables : QueuedRows(tasks, u) \subseteq QueuedRows(tasks', u)
      BY <3>5, QueuedTypes, QueuedAppend, Zenon
    <3>8. \A u \in Tables : Have[u] \subseteq Have'[u]
      BY <2>1, <3>7, HaveGrows, ZenonT(30)
    <3> QED
      BY <2>1, <3>6, <3>8, Zenon
  <2> QED
    BY <2>1, <2>2, <2>3, Zenon

  (***************************************************************************)
  (* What is said after a step of the keys there are then.                   *)
  (***************************************************************************)
<1>CompleteNext. ASSUME SkipInv, TurnInv, CompleteInv, NEW have, have = Have', NEW here, here = Here', Grows(Have, have),
                        config' = config, file'.context \in {file.context, context},
                        ReadInv(have)', up' /\ fresh' => ReadInv(here)', \A q \in Partitions : HighSet(worker[q])'
                 PROVE  CompleteInv'
  <2> USE <1>CompleteNext
  <2>1. ReadInv(Have)'
    BY Zenon DEF ReadInv, Known, All
  <2>2. up' /\ fresh' => ReadInv(Here)'
    BY ZenonT(60) DEF ReadInv, Known, All
  <2>3. Known(file'.context, have)
    BY <1>KnownMore, Zenon DEF CompleteInv, ReadInv
  <2>4. \A t : LastKey(t)' = LastKey(t)
    BY Zenon DEF LastKey, Key
  <2>5. Known(file.context, Have)'
    BY <2>3, <2>4, ZenonT(60) DEF Known, All
  <2> QED
    BY <2>1, <2>2, <2>5, ZenonT(60) DEF CompleteInv

  (***************************************************************************)
  (* A step of a running process that hands on no row.                       *)
  (***************************************************************************)
<1>CompleteRest. ASSUME SkipInv, TurnInv, CompleteInv, RowsKept, \A t \in Tables : Have[t] \subseteq Have'[t],
                        up' /\ fresh' => up /\ fresh, file'.context \in {file.context, context},
                        ASSUME NEW have, NEW more, ReadInv(have), Grows(have, more)
                        PROVE  /\ ReadInv(more)'
                               /\ (\A q \in Partitions : HighSet(worker[q])) => \A q \in Partitions : HighSet(worker[q])'
                 PROVE  CompleteInv'
  <2> USE <1>CompleteRest
  <2>1. PICK have : have = Have'
    BY Zenon
  <2>2. PICK here : here = Here'
    BY Zenon
  <2>3. PICK old : old = Have
    BY Zenon
  <2>4. ReadInv(old) /\ Grows(old, have) /\ Grows(Have, have)
    BY <2>1, <2>3, Zenon DEF CompleteInv, Grows
  <2>5. ReadInv(have)' /\ \A q \in Partitions : HighSet(worker[q])'
    <3>1. \A q \in Partitions : HighSet(worker[q])
      BY Zenon  DEF CompleteInv
    <3> QED
      BY <2>4, <3>1, Zenon
  <2>6. ASSUME up', fresh' PROVE ReadInv(here)'
    <3>1. here = Here
      BY <2>2, <1>HereKept, Zenon
    <3>2. ReadInv(here)
      BY <2>6, <3>1, Zenon DEF CompleteInv
    <3>3. Grows(here, here)
      BY Zenon  DEF Grows
    <3> QED
      BY <3>2, <3>3, Zenon
  <2>7. config' = config
    BY Zenon  DEF RowsKept
  <2> QED
    BY <2>1, <2>2, <2>4, <2>5, <2>6, <2>7, <1>CompleteNext, ZenonT(30)

  (***************************************************************************)
  (* A row is handed on.                                                     *)
  (***************************************************************************)
<1>CompleteRow. ASSUME SkipInv, TurnInv, CompleteInv, NEW p \in Partitions, EnqueueRow(p)
                PROVE  CompleteInv'
  <2> USE <1>CompleteRow
  <2>1. PICK have : have = Have'
    BY ZenonT(30)
  <2>2. PICK here : here = Here'
    BY ZenonT(30)
  <2>3. PICK t : t = worker[p].table
    BY Zenon
  <2>4. PICK b : b = worker[p].batch
    BY ZenonT(30)
  <2>5. PICK c : c = worker[p].local
    BY Zenon
  <2>6. /\ Grows(Have, have) /\ Key(t, b[1]) \in have[t]
        /\ Grows(Here, here) /\ Key(t, b[1]) \in here[t]
    BY <2>1, <2>2, <2>3, <2>4, <1>RowGrows, ZenonT(30)
  <2>7. UNCHANGED <<config, up, fresh, file>>
    BY <2>3, <2>4, <2>5, RowIs, ZenonT(30) DEF RowHanded
  <2>8. ReadInv(Have) /\ (\A q \in Partitions : HighSet(worker[q])) /\ (up /\ fresh => ReadInv(Here))
    BY Zenon  DEF CompleteInv
  <2>9. ReadInv(have)' /\ \A q \in Partitions : HighSet(worker[q])'
    <3>1. PICK old : old = Have
      BY Zenon
    <3>2. ReadInv(old) /\ Grows(old, have)
      BY <2>6, <2>8, <3>1, ZenonT(30)
    <3> QED
      BY <2>3, <2>4, <2>6, <2>8, <3>2, <1>RowReads, ZenonT(30)
  <2>10. ASSUME up', fresh' PROVE ReadInv(here)'
    <3>1. PICK old : old = Here
      BY Zenon
    <3>2. ReadInv(old) /\ Grows(old, here)
      BY <2>6, <2>7, <2>8, <2>10, <3>1, ZenonT(30)
    <3> QED
      BY <2>3, <2>4, <2>6, <2>8, <3>2, <1>RowReads, ZenonT(30)
  <2> QED
    BY <2>1, <2>2, <2>6, <2>7, <2>9, <2>10, <1>CompleteNext, ZenonT(30)

  (***************************************************************************)
  (* The program ends.                                                       *)
  (***************************************************************************)
<1>CompleteEnds. ASSUME SkipInv, TurnInv, CompleteInv, Ends, file'.context \in {file.context, context}
                 PROVE  CompleteInv'
  <2> USE <1>CompleteEnds
  <2>1. PICK have : have = Have'
    BY Zenon
  <2>2. PICK here : here = Here'
    BY Zenon
  <2>3. /\ ~up' /\ UNCHANGED <<config, emitted>>
        /\ \A t \in Tables : dropped'[t] = dropped[t] \cup QueuedRows(tasks, t)
    BY EndsDoes, Zenon
  <2>4. Grows(Have, have)
    BY <2>1, <2>3, HaveGrows, ZenonT(60) DEF Grows
  <2>5. ReadInv(have)' /\ \A q \in Partitions : HighSet(worker[q])'
    BY <1>EndsReads, Zenon
  <2> QED
    BY <2>1, <2>2, <2>3, <2>4, <2>5, <1>CompleteNext, ZenonT(60)

  (***************************************************************************)
  (* The program starts.                                                     *)
  (***************************************************************************)
<1>CompleteStart. ASSUME SkipInv, TurnInv, CompleteInv, StartReplicationChannel
                  PROVE  CompleteInv'
  <2> USE <1>CompleteStart
  <2>1. PICK have : have = Have'
    BY Zenon
  <2>2. PICK here : here = Here'
    BY Zenon
  <2>3. tasks = <<>> /\ (fresh' => file.context = None) /\ UNCHANGED <<config, file, emitted, dropped>>
    BY StartDoes, Zenon
  <2>4. Grows(Have, have)
    <3>1. \A t \in Tables : QueuedRows(tasks, t) = {}
      BY <2>3, SMTT(30) DEF QueuedRows
    <3> QED
      BY <2>1, <2>3, <3>1, HaveGrows, ZenonT(60) DEF Grows
  <2>5. Known(file.context, have)
    BY <2>4, <1>KnownMore, ZenonT(30) DEF CompleteInv
  <2>6. ReadInv(have)' /\ \A q \in Partitions : HighSet(worker[q])'
    BY <2>5, <1>StartReads, ZenonT(60)
  <2>7. ASSUME up', fresh' PROVE ReadInv(here)'
    <3>1. Known(file.context, here)
      BY <2>3, <2>7, <1>KnownNone, Zenon
    <3> QED
      BY <3>1, <1>StartReads, Zenon
  <2> QED
    BY <2>1, <2>2, <2>3, <2>4, <2>6, <2>7, <1>CompleteNext, ZenonT(30)

<1> SUFFICES ASSUME SkipInv, TurnInv, CompleteInv, [Next]_vars PROVE CompleteInv'
  BY Zenon
<1>1. CASE UNCHANGED vars \/ AwaitShutdown \/ AutoStore \/ Commit
  <2>1. /\ UNCHANGED <<config, up, fresh, context, worker, handled, tasks, out, emitted, dropped>>
        /\ file'.context \in {file.context, context}
    BY <1>1 DEF vars, AwaitShutdown, AutoStore, SaveState, Commit, history, storage
  <2>2. RowsKept /\ \A t \in Tables : Have[t] \subseteq Have'[t]
    BY <2>1, RowsRest, HaveSame, ZenonT(60)
  <2> QED
    BY <2>1, <2>2, <1>QuietReads, <1>CompleteRest, ZenonT(60)
<1>2. CASE OnReadEvent
  <2>1. UNCHANGED <<config, up, fresh, context, worker, handled, file>>
    BY <1>2, ReadDoes, Zenon
  <2> QED
    BY <1>2, <2>1, RowsRead, <1>ReadGrows, <1>QuietReads, <1>CompleteRest, ZenonT(60)
<1>3. CASE OnSnapshottingStarted \/ OnTableSnapshotStarted \/ OnSnapshottingFinished
  <2>1. UNCHANGED <<up, fresh, file>>
    BY <1>3, HandlerDoes, Zenon
  <2> QED
    BY <1>3, <2>1, <1>HandlerGrows, <1>HandlerReads, <1>CompleteRest, ZenonT(60)
<1>4. CASE OnTableSnapshotFinished
  <2>1. PICK t : t = Head(tasks).table
    BY Zenon
  <2>2. UNCHANGED <<up, fresh, file>>
    BY <1>4, <2>1, DoneDoes, ZenonT(60)
  <2> QED
    BY <1>4, <2>2, <1>HandlerGrows, <1>DoneReads, <1>CompleteRest, ZenonT(60)
<1>5. CASE StopReplication \/ Crash
  BY <1>5, <1>CompleteEnds, SMTT(30) DEF StopReplication, Crash, SaveState
<1>6. ASSUME NEW p \in Partitions,
             TakeSnapshot(p) \/ GetOrCreateContext(p) \/ StoreHighWatermark(p) \/ FetchBatch(p)
               \/ StoreLowWatermark(p) \/ EndBatch(p) \/ EndTransaction(p)
      PROVE  CompleteInv'
  <2>1. CASE Fatal
    BY <2>1, <1>CompleteEnds, Zenon DEF Fatal
  <2>2. CASE ~Fatal
    <3>1. /\ \A t \in Tables : Have[t] \subseteq Have'[t]
          /\ RowsKept /\ UNCHANGED <<up, fresh, file>>
      BY <1>6, <2>2, <1>WorkerGrows, ZenonT(60)
    <3>2. ASSUME NEW have, NEW more, ReadInv(have), Grows(have, more)
          PROVE  /\ ReadInv(more)'
                 /\ (\A q \in Partitions : HighSet(worker[q])) => \A q \in Partitions : HighSet(worker[q])'
      BY <1>6, <2>2, <3>2, <1>WorkerReads, ZenonT(60)
    <3> QED
      BY <3>1, <3>2, <1>CompleteRest, Zenon
  <2> QED
    BY <2>1, <2>2, Zenon
<1> QED
  BY <1>1, <1>2, <1>3, <1>4, <1>5, <1>6, <1>CompleteRow, <1>CompleteStart, ZenonT(30) DEF Next

(***************************************************************************)
(* Every row has a key up to that of the last one.                         *)
(***************************************************************************)
LEMMA KeysUpTo ==
  ASSUME config \in Configs, NEW t \in Tables
  PROVE  KeysOf(t, 1..config.rows[t]) \subseteq 1..LastKey(t)
<1>1. PICK n \in Nat : n = config.rows[t]
  BY ConfigsAssumption, Zenon
<1>2. ASSUME NEW row \in 1..n PROVE Key(t, row) \in 1..Key(t, n)
  <2>1. row \in Nat \ {0} /\ n \in Nat \ {0} /\ row <= n
    OBVIOUS
  <2>2. row \div 2 \in Nat /\ n \div 2 \in Nat /\ row \div 2 <= n \div 2
    BY <2>1
  <2> QED
    BY <2>1, <2>2, SMTT(30) DEF Key
<1>3. n = 0 => 1..n = {}
  BY SMTT(30)
<1> QED
  BY <1>1, <1>2, <1>3, Zenon DEF KeysOf, LastKey

(***************************************************************************)
(* When all tables are handled, all of their keys were handed on, and      *)
(* nothing is queued any more.                                             *)
(***************************************************************************)
LEMMA HandledComplete == SkipInv /\ TurnInv /\ CompleteInv => SnapshotComplete
<1> SUFFICES ASSUME SkipInv, TurnInv, CompleteInv, finished, NEW t \in Tables
             PROVE  KeysOf(t, 1..config.rows[t])
                      \subseteq KeysOf(t, IF fresh THEN {out[t][i] : i \in DOMAIN out[t]}
                                          ELSE emitted[t] \cup dropped[t])
  BY Zenon DEF SnapshotComplete
<1>1. up /\ tasks = <<>> /\ t \in handled
  BY Zenon DEF TurnInv, EndTurns
<1>2. KeysOf(t, 1..config.rows[t]) \subseteq 1..LastKey(t)
  BY KeysUpTo, Zenon DEF SkipInv, TypeInv, StateOK
<1>3. CASE ~fresh
  <2>1. 1..LastKey(t) \subseteq Have[t]
    BY <1>1, Zenon DEF CompleteInv, ReadInv, All
  <2>2. QueuedRows(tasks, t) = {}
    BY <1>1 DEF QueuedRows
  <2>3. Have[t] = KeysOf(t, emitted[t] \cup dropped[t])
    BY <2>2, Zenon DEF Have
  <2> QED
    BY <1>2, <1>3, <2>1, <2>3, ZenonT(60)
<1>4. CASE fresh
  <2>1. 1..LastKey(t) \subseteq Here[t]
    BY <1>1, <1>4, Zenon DEF CompleteInv, ReadInv, All
  <2>2. Pending(t) = 0
    BY <1>1, Zenon DEF Pending
  <2>3. Size(t) = Len(out[t]) /\ Len(out[t]) \in Nat /\ DOMAIN out[t] = 1..Len(out[t])
    BY <2>2, SizeIs, SMTT(30)
  <2>4. \A i \in 1..Size(t) : Nth(t, i) = out[t][i]
    BY <2>3, SMTT(30) DEF Nth
  <2>5. {Nth(t, i) : i \in 1..Size(t)} = {out[t][i] : i \in DOMAIN out[t]}
    BY <2>3, <2>4, Zenon
  <2>6. Here[t] = KeysOf(t, {out[t][i] : i \in DOMAIN out[t]})
    BY <2>5, Zenon DEF Here
  <2> QED
    BY <1>2, <1>4, <2>1, <2>6, Zenon
<1> QED
  BY <1>3, <1>4, Zenon

(***************************************************************************)
(* When the snapshot is finished, every row of every table was handed on:  *)
(* by this process, if it found no snapshot context, or by this one and    *)
(* the ones before it.                                                     *)
(***************************************************************************)
THEOREM SnapshotIsComplete == Spec => []SnapshotComplete
<1>1. Init => CompleteInv
  <2> SUFFICES ASSUME Init PROVE CompleteInv
    BY Zenon
  <2>1. /\ tasks = <<>> /\ ~up /\ context = None /\ file.context = None /\ handled = {}
        /\ \A p \in Partitions : worker[p] = Idle
    BY Zenon  DEF Init
  <2>2. Idle.at = "idle" /\ Idle.local = None
    BY Zenon DEF Idle
  <2>3. Known(None, Have)
    BY Zenon DEF Known
  <2> QED
    BY <2>1, <2>2, <2>3, SMTT(30) DEF CompleteInv, ReadInv, HighSet
<1> QED
  BY <1>1, InitCovers, InitTurns, SkipStep, TurnStep, CompleteStep, HandledComplete, PTL DEF Spec

===============================================================================
