------------------------ MODULE InitialSnapshotProofs -------------------------
(***************************************************************************)
(* What a resumed snapshot and the replication after a snapshot may skip,  *)
(* for any tables, rows, batches, workers, crashes and restarts.           *)
(***************************************************************************)
EXTENDS InitialSnapshotInvariant, SequenceTheorems, TLAPS

-----------------------------------------------------------------------------
(* Types.                                                                  *)

TaskSet == [kind : {"table", "row", "done"}, table : Tables, row : Nat, lsn : Nat]
             \cup [kind : {"started", "finished"}, table : {None}, row : {0}, lsn : {0}]

Entries == [table : Tables, next : BOOLEAN]

Places == {"idle", "begin", "create", "load", "rows", "check", "wait", "release"}

WorkerStates ==
  [at : Places, table : Tables \cup {None}, next : BOOLEAN, local : Contexts \cup {None},
   batch : Seq(Nat), lsn : Nat]

QueuesOK ==
  /\ tasks \in Seq(TaskSet)
  /\ queue \in [Partitions -> Seq(Entries)]

(* A worker between two steps of a snapshot has a table, and a copy of the *)
(* context when it is about to use one.                                    *)
WorkerOK(w) ==
  /\ w \in WorkerStates
  /\ w.at \in {"begin", "create", "load", "rows", "check"} => w.table \in Tables
  /\ w.at \in {"create", "rows"} => w.local \in Contexts
  /\ w.at = "rows" => w.local[w.table] \in Watermarks

WorkersOK ==
  /\ worker = [p \in Partitions |-> worker[p]]
  /\ \A p \in Partitions : WorkerOK(worker[p])

StateOK ==
  /\ config \in Configs
  /\ commits \in Nat
  /\ context \in Contexts \cup {None}
  /\ file.context \in Contexts \cup {None}
  /\ emitted \in [Tables -> SUBSET Nat]
  /\ dropped \in [Tables -> SUBSET Nat]
  /\ ~up => tasks = <<>>

TypeInv == QueuesOK /\ WorkersOK /\ StateOK

-----------------------------------------------------------------------------
(* The contexts whose low watermarks are covered by rows with these keys.  *)
Covered(c, have) == \A t \in Tables : c # None /\ c[t] # None => 1..c[t].low \subseteq have[t]

(* A worker's batch: rows one after the other, from the first one above    *)
(* the low watermark of its copy.                                          *)
BatchOK(w) ==
  w.at = "rows" =>
    /\ \A i \in DOMAIN w.batch : w.batch[i] = w.batch[1] + i - 1 /\ w.batch[i] > 0
    /\ w.batch # <<>> => Key(w.table, w.batch[1]) <= w.local[w.table].low + 1

CoverInv ==
  /\ Covered(context, Have)
  /\ Covered(file.context, Have)
  /\ \A p \in Partitions : Covered(worker[p].local, Have) /\ BatchOK(worker[p])

SkipInv == TypeInv /\ CoverInv

-----------------------------------------------------------------------------
(* Queues.                                                                *)

(***************************************************************************)
(* Rows that are queued stay queued when a task is appended, and a row     *)
(* that is appended is queued.                                             *)
(***************************************************************************)
LEMMA QueuedAppend ==
  ASSUME NEW q \in Seq(TaskSet), NEW x \in TaskSet, NEW t
  PROVE  /\ QueuedRows(q, t) \subseteq QueuedRows(Append(q, x), t)
         /\ x.kind = "row" /\ x.table = t => x.row \in QueuedRows(Append(q, x), t)
<1>1. /\ Len(q) \in Nat /\ DOMAIN q = 1..Len(q)
      /\ DOMAIN Append(q, x) = 1..(Len(q) + 1)
      /\ \A i \in DOMAIN q : Append(q, x)[i] = q[i]
      /\ Append(q, x)[Len(q) + 1] = x
  BY AppendProperties, LenProperties
<1>2. \A i \in DOMAIN q : i \in DOMAIN Append(q, x)
  BY <1>1
<1>3. Len(q) + 1 \in DOMAIN Append(q, x)
  BY <1>1
<1> QED
  BY <1>1, <1>2, <1>3, Zenon DEF QueuedRows

(***************************************************************************)
(* Taking the first task takes no row out of the queue but its own.        *)
(***************************************************************************)
LEMMA QueuedTail ==
  ASSUME NEW q \in Seq(TaskSet), q # <<>>, NEW t, NEW r \in QueuedRows(q, t)
  PROVE  \/ r \in QueuedRows(Tail(q), t)
         \/ Head(q).kind = "row" /\ Head(q).table = t /\ Head(q).row = r
<1>1. /\ Len(q) \in Nat /\ Len(q) # 0 /\ DOMAIN q = 1..Len(q)
      /\ DOMAIN Tail(q) = 1..(Len(q) - 1)
      /\ \A i \in 1..(Len(q) - 1) : Tail(q)[i] = q[i + 1]
      /\ Head(q) = q[1]
  BY HeadTailProperties, LenProperties, EmptySeq
<1>2. PICK i \in DOMAIN q : q[i].kind = "row" /\ q[i].table = t /\ q[i].row = r
  BY Zenon DEF QueuedRows
<1>3. CASE i = 1
  BY <1>1, <1>2, <1>3, Zenon
<1>4. CASE i # 1
  <2>1. i - 1 \in DOMAIN Tail(q) /\ Tail(q)[i - 1] = q[i]
    BY <1>1, <1>4
  <2> QED
    BY <1>2, <2>1, Zenon DEF QueuedRows
<1> QED
  BY <1>3, <1>4, Zenon

(***************************************************************************)
(* More rows are covered if no row leaves the three places.                *)
(***************************************************************************)
LEMMA HaveGrows ==
  ASSUME config' = config,
         \A t \in Tables : emitted[t] \cup dropped[t] \cup QueuedRows(tasks, t)
                             \subseteq emitted'[t] \cup dropped'[t] \cup QueuedRows(tasks', t)
  PROVE  \A t \in Tables : Have[t] \subseteq Have'[t]
BY Zenon DEF Have, KeysOf, Key

(***************************************************************************)
(* Without a change of the three places the same rows are covered.         *)
(***************************************************************************)
LEMMA HaveSame ==
  ASSUME UNCHANGED <<config, emitted, dropped, tasks>>
  PROVE  Have' = Have
BY Zenon DEF Have, KeysOf, Key

-----------------------------------------------------------------------------
(* Keys and batches.                                                       *)

(***************************************************************************)
(* Keys are positive, start at 1, and grow by at most one from row to row. *)
(***************************************************************************)
LEMMA KeySteps ==
  ASSUME NEW t
  PROVE  /\ Key(t, 1) = 1
         /\ \A row \in Nat \ {0} : Key(t, row) \in Nat \ {0} /\ Key(t, row + 1) \in Key(t, row) .. (Key(t, row) + 1)
<1>1. 1 \div 2 = 0
  OBVIOUS
<1>2. \A row \in Nat : row \div 2 \in Nat /\ (row + 1) \div 2 \in (row \div 2) .. ((row \div 2) + 1)
  OBVIOUS
<1> QED
  BY <1>1, <1>2 DEF Key

(***************************************************************************)
(* LastUpTo exists: the rows up to a key come first.                       *)
(***************************************************************************)
LEMMA LastUpToIs ==
  ASSUME config \in Configs, NEW t \in Tables, NEW key \in Nat
  PROVE  /\ config.rows[t] \in Nat
         /\ LastUpTo(t, key) \in 0..config.rows[t]
         /\ \A row \in 1..config.rows[t] : Key(t, row) <= key <=> row <= LastUpTo(t, key)
<1> DEFINE rows == config.rows[t]
           Fits(n) == \A row \in 1..rows : Key(t, row) <= key <=> row <= n
<1>1. rows \in Nat
  BY ConfigsAssumption, Zenon
<1>2. \E n \in 0..rows : Fits(n)
  <2>1. CASE config.key[t] = "dimension"
    <3> DEFINE top == IF key = 0 THEN 0 ELSE 2 * key - 1
               n == IF top < rows THEN top ELSE rows
    <3>1. n \in 0..rows
      BY <1>1
    <3>2. \A row \in 1..rows : (row \div 2) + 1 <= key <=> row <= n
      BY <1>1
    <3> QED
      BY <2>1, <3>1, <3>2, Zenon DEF Key
  <2>2. CASE config.key[t] # "dimension"
    <3> DEFINE n == IF key < rows THEN key ELSE rows
    <3>1. n \in 0..rows
      BY <1>1
    <3>2. \A row \in 1..rows : row <= key <=> row <= n
      BY <1>1
    <3> QED
      BY <2>2, <3>1, <3>2, Zenon DEF Key
  <2> QED
    BY <2>1, <2>2, Zenon
<1>3. LastUpTo(t, key) = CHOOSE n \in 0..rows : Fits(n)
  BY Zenon DEF LastUpTo
<1> HIDE DEF Fits
<1>4. LastUpTo(t, key) \in 0..rows /\ Fits(LastUpTo(t, key))
  BY <1>2, <1>3, Zenon
<1> QED
  BY <1>1, <1>4, Zenon DEF Fits

-----------------------------------------------------------------------------
(* What the steps have in common.                                          *)

(***************************************************************************)
(* The tasks of the handlers and workers are tasks.                        *)
(***************************************************************************)
LEMMA TasksAre ==
  /\ Task("started", None) \in TaskSet
  /\ \A done : NextTask(Unhandled(done)) \subseteq TaskSet
  /\ \A t \in Tables : Task("done", t) \in TaskSet
  /\ \A t \in Tables, row \in Nat, lsn \in Nat : ReadEvent(t, row, lsn) \in TaskSet
<1>1. \A done : Unhandled(done) \subseteq Tables
  BY Zenon DEF Unhandled, FirstOf, Tables
<1> QED
  BY <1>1 DEF TaskSet, Task, NextTask, ReadEvent

(***************************************************************************)
(* What an idle worker is.                                                 *)
(***************************************************************************)
LEMMA IdleIs == WorkerOK(Idle) /\ Idle.local = None /\ Idle.at = "idle" /\ BatchOK(Idle)
<1>1. <<>> \in Seq(Nat)
  OBVIOUS
<1> QED
  BY <1>1, Zenon DEF WorkerOK, WorkerStates, Idle, Places, BatchOK

(***************************************************************************)
(* The dispatcher takes a task that is not a row, and may append one.      *)
(***************************************************************************)
LEMMA TaskTaken ==
  ASSUME SkipInv, tasks # <<>>, Head(tasks).kind # "row", UNCHANGED <<config, emitted, dropped>>,
         tasks' = Tail(tasks) \/ \E x \in TaskSet : tasks' = Append(Tail(tasks), x)
  PROVE  tasks' \in Seq(TaskSet) /\ \A t \in Tables : Have[t] \subseteq Have'[t]
<1>1. tasks \in Seq(TaskSet) /\ Tail(tasks) \in Seq(TaskSet)
  BY HeadTailProperties, Zenon DEF SkipInv, TypeInv, QueuesOK
<1>2. \A t \in Tables : QueuedRows(tasks, t) \subseteq QueuedRows(Tail(tasks), t)
  BY <1>1, QueuedTail, Zenon
<1>3. CASE tasks' = Tail(tasks)
  BY <1>1, <1>2, <1>3, HaveGrows, Zenon
<1>4. CASE \E x \in TaskSet : tasks' = Append(Tail(tasks), x)
  <2> PICK x \in TaskSet : tasks' = Append(Tail(tasks), x)
    BY <1>4, Zenon
  <2>1. tasks' \in Seq(TaskSet)
    BY <1>1, AppendProperties, Zenon
  <2>2. \A t \in Tables : QueuedRows(Tail(tasks), t) \subseteq QueuedRows(tasks', t)
    BY <1>1, QueuedAppend, Zenon
  <2> QED
    BY <1>2, <2>1, <2>2, HaveGrows, Zenon
<1> QED
  BY <1>3, <1>4, Zenon

-----------------------------------------------------------------------------
(* The steps.                                                              *)

(***************************************************************************)
(* The first state.                                                        *)
(***************************************************************************)
LEMMA InitCovers == Init => SkipInv
<1> SUFFICES ASSUME Init PROVE SkipInv
  BY Zenon
<1>1. QueuesOK
  BY DEF Init, QueuesOK
<1>2. WorkersOK
  BY IdleIs, Zenon DEF Init, WorkersOK
<1>3. StateOK
  BY Zenon DEF Init, StateOK
<1>4. CoverInv
  BY IdleIs, Zenon DEF Init, CoverInv, Covered
<1> QED
  BY <1>1, <1>2, <1>3, <1>4, Zenon DEF SkipInv, TypeInv

(***************************************************************************)
(* What holds of a worker before its step.                                 *)
(***************************************************************************)
LEMMA WorkerHas ==
  ASSUME SkipInv, NEW p \in Partitions
  PROVE  /\ WorkerOK(worker[p]) /\ BatchOK(worker[p]) /\ Covered(worker[p].local, Have)
         /\ worker[p] \in WorkerStates
         /\ queue \in [Partitions -> Seq(Entries)] /\ context \in Contexts \cup {None} /\ Covered(context, Have)
         /\ config \in Configs /\ commits \in Nat /\ tasks \in Seq(TaskSet)
BY Zenon DEF SkipInv, TypeInv, CoverInv, WorkersOK, WorkerOK, QueuesOK, StateOK

-----------------------------------------------------------------------------
(***************************************************************************)
(* Every step keeps the invariant.                                         *)
(***************************************************************************)
LEMMA SkipStep == SkipInv /\ [Next]_vars => SkipInv'
  (***************************************************************************)
  (* A context stays covered when more rows are.                             *)
  (***************************************************************************)
<1>CoveredGrows. ASSUME NEW c, NEW have, NEW more, Covered(c, have), \A t \in Tables : have[t] \subseteq more[t]
                 PROVE  Covered(c, more)
  BY <1>CoveredGrows, Zenon DEF Covered

  (***************************************************************************)
  (* A batch has rows one after the other, from the first one above the low  *)
  (* watermark.                                                              *)
  (***************************************************************************)
<1>BatchIs. ASSUME config \in Configs, NEW t \in Tables, NEW low \in Nat, NEW high \in Nat,
                   NEW batch, batch = Batch(t, low, high)
            PROVE  /\ batch \in Seq(Nat)
                   /\ \A i \in DOMAIN batch : batch[i] = batch[1] + i - 1 /\ batch[i] > 0
                   /\ batch # <<>> => Key(t, batch[1]) <= low + 1
  <2> USE <1>BatchIs
  <2> DEFINE first == LastUpTo(t, low)
             n == LastUpTo(t, high) - first
             size == IF n < BatchLimit THEN n ELSE BatchLimit
  <2>1. /\ first \in Nat /\ first <= config.rows[t] /\ config.rows[t] \in Nat
        /\ \A row \in 1..config.rows[t] : Key(t, row) <= low <=> row <= first
        /\ n \in Int /\ size \in Int
    BY LastUpToIs, ConfigsAssumption
  <2>2. batch = [i \in 1..size |-> first + i]
    BY Zenon DEF Batch
  <2> HIDE DEF first, size
  <2>3. Key(t, first + 1) <= low + 1
    <3>1. CASE first = 0
      BY <3>1, KeySteps
    <3>2. CASE first # 0
      <4>1. first \in 1..config.rows[t] /\ first \in Nat \ {0}
        BY <2>1, <3>2
      <4>2. Key(t, first) <= low
        BY <2>1, <4>1
      <4>3. Key(t, first) \in Nat /\ Key(t, first + 1) \in Key(t, first) .. (Key(t, first) + 1)
        BY <4>1, KeySteps, Zenon
      <4> QED
        BY <4>2, <4>3
    <3> QED
      BY <3>1, <3>2, Zenon
  <2>4. CASE size > 0
    <3>1. size \in Nat /\ DOMAIN batch = 1..size /\ \A i \in 1..size : batch[i] = first + i
      BY <2>1, <2>2, <2>4
    <3>2. batch \in Seq(Nat)
      BY <2>1, <2>2, <3>1, IsASeq
    <3>3. batch[1] = first + 1
      <4>1. 1 \in 1..size
        BY <2>4, <3>1
      <4> QED
        BY <3>1, <4>1, Zenon
    <3>4. \A i \in DOMAIN batch : batch[i] = batch[1] + i - 1 /\ batch[i] > 0
      <4> SUFFICES ASSUME NEW i \in 1..size
                   PROVE  batch[i] = batch[1] + i - 1 /\ batch[i] > 0
        BY <3>1, Zenon
      <4>1. i \in Nat /\ i > 0 /\ first \in Nat
        BY <2>1, <3>1
      <4>2. batch[i] = first + i
        BY <3>1, Zenon
      <4> QED
        BY <3>3, <4>1, <4>2
    <3> QED
      BY <2>3, <3>2, <3>3, <3>4, Zenon
  <2>5. CASE ~(size > 0)
    <3>1. 1..size = {}
      BY <2>1, <2>5
    <3>2. batch = <<>>
      BY <2>2, <3>1
    <3> QED
      BY <3>2
  <2> QED
    BY <2>4, <2>5, Zenon

  (***************************************************************************)
  (* The rows in a queue of tasks are numbers.                               *)
  (***************************************************************************)
<1>QueuedNat. ASSUME NEW q \in Seq(TaskSet), NEW t
              PROVE  QueuedRows(q, t) \subseteq Nat
  <2> USE <1>QueuedNat
  <2>1. \A i \in DOMAIN q : q[i] \in TaskSet
    BY ElementOfSeq, LenProperties, Zenon
  <2>2. \A x \in TaskSet : x.row \in Nat
    BY DEF TaskSet
  <2> QED
    BY <2>1, <2>2, Zenon DEF QueuedRows

  (***************************************************************************)
  (* A step of one worker, with what it has to show of the worker's new      *)
  (* state.                                                                  *)
  (***************************************************************************)
<1>WorkerMoves. ASSUME SkipInv, NEW p \in Partitions, NEW w, worker' = [worker EXCEPT ![p] = w],
                       config' = config, \A t \in Tables : Have[t] \subseteq Have'[t],
                       WorkerOK(w), Covered(w.local, Have'), BatchOK(w)
                PROVE  /\ WorkersOK'
                       /\ \A q \in Partitions : Covered(worker'[q].local, Have') /\ BatchOK(worker[q])'
  <2> USE <1>WorkerMoves
  <2>1. /\ worker' = [q \in Partitions |-> worker'[q]]
        /\ \A q \in Partitions : worker'[q] = IF q = p THEN w ELSE worker[q]
    BY Zenon DEF SkipInv, TypeInv, WorkersOK
  <2>2. \A q \in Partitions : WorkerOK(worker'[q])
    BY <2>1, Zenon DEF SkipInv, TypeInv, WorkersOK
  <2>3. \A q \in Partitions : Covered(worker'[q].local, Have')
    <3> TAKE q \in Partitions
    <3>1. CASE q = p
      BY <2>1, <3>1, Zenon
    <3>2. CASE q # p
      <4>1. Covered(worker[q].local, Have)
        BY Zenon  DEF SkipInv, CoverInv
      <4> QED
        BY <2>1, <3>2, <4>1, <1>CoveredGrows, Zenon
    <3> QED
      BY <3>1, <3>2, Zenon
  <2>4. \A q \in Partitions : BatchOK(worker[q])'
    BY <2>1 DEF SkipInv, CoverInv, BatchOK, Key
  <2> QED
    BY <2>1, <2>2, <2>3, <2>4, Zenon DEF WorkersOK

  (***************************************************************************)
  (* A step of no worker.                                                    *)
  (***************************************************************************)
<1>WorkersRest. ASSUME SkipInv, UNCHANGED <<worker, config>>, \A t \in Tables : Have[t] \subseteq Have'[t]
                PROVE  /\ WorkersOK'
                       /\ \A q \in Partitions : Covered(worker'[q].local, Have') /\ BatchOK(worker[q])'
  <2> USE <1>WorkersRest
  <2>1. WorkersOK'
    BY Zenon DEF SkipInv, TypeInv, WorkersOK
  <2>2. \A q \in Partitions : BatchOK(worker[q])'
    BY Zenon DEF SkipInv, CoverInv, BatchOK, Key
  <2>3. \A q \in Partitions : Covered(worker'[q].local, Have')
    BY <1>CoveredGrows, Zenon DEF SkipInv, CoverInv
  <2> QED
    BY <2>1, <2>2, <2>3, Zenon

  (***************************************************************************)
  (* The contexts in memory and in the file stay covered.                    *)
  (***************************************************************************)
<1>StoredStays. ASSUME SkipInv, \A t \in Tables : Have[t] \subseteq Have'[t]
                PROVE  Covered(context, Have') /\ Covered(file.context, Have')
  BY <1>StoredStays, <1>CoveredGrows, Zenon DEF SkipInv, CoverInv

  (***************************************************************************)
  (* The program ends: the rows in the queue are dropped, and the context in *)
  (* the file is the one that was there or the one in memory.                *)
  (***************************************************************************)
<1>EndsKeeps. ASSUME SkipInv, Ends, file'.context \in {file.context, context}
              PROVE  SkipInv'
  <2> USE <1>EndsKeeps
  <2>1. tasks \in Seq(TaskSet)
    BY Zenon DEF SkipInv, TypeInv, QueuesOK
  <2>2. \A t \in Tables : dropped'[t] = dropped[t] \cup QueuedRows(tasks, t)
    BY Zenon DEF Ends
  <2>3. \A t \in Tables : Have[t] \subseteq Have'[t]
    BY <2>2, HaveGrows, Zenon DEF Ends
  <2>4. QueuesOK'
    BY DEF Ends, QueuesOK
  <2>5. WorkersOK' /\ \A p \in Partitions : worker'[p] = Idle
    BY IdleIs, Zenon DEF Ends, WorkersOK
  <2>6. dropped' \in [Tables -> SUBSET Nat]
    BY <2>1, <1>QueuedNat, Zenon DEF Ends, SkipInv, TypeInv, StateOK
  <2>7. StateOK'
    BY <2>6, Zenon DEF Ends, SkipInv, TypeInv, StateOK
  <2>8. Covered(None, Have')
    BY Zenon DEF Covered
  <2>9. Covered(file'.context, Have')
    BY <2>3, <1>StoredStays, Zenon
  <2>10. \A p \in Partitions : Covered(worker'[p].local, Have') /\ BatchOK(worker[p])'
    BY <2>5, <2>8, IdleIs, Zenon DEF BatchOK
  <2> QED
    BY <2>4, <2>5, <2>7, <2>8, <2>9, <2>10, Zenon DEF SkipInv, TypeInv, CoverInv, Ends

  (***************************************************************************)
  (* Steps that store the context at most.                                   *)
  (***************************************************************************)
<1>QuietKeeps. ASSUME SkipInv, UNCHANGED <<config, up, context, tasks, queue, worker, emitted, dropped>>,
                      commits' \in Nat, file'.context \in {file.context, context}
               PROVE  SkipInv'
  <2> USE <1>QuietKeeps
  <2>1. \A t \in Tables : Have[t] \subseteq Have'[t]
    BY HaveSame, Zenon
  <2>2. QueuesOK' /\ StateOK'
    BY Zenon DEF SkipInv, TypeInv, QueuesOK, StateOK
  <2> QED
    BY <2>1, <2>2, <1>WorkersRest, <1>StoredStays, Zenon DEF SkipInv, TypeInv, CoverInv

  (***************************************************************************)
  (* A start loads the context of the file; nothing is queued before.        *)
  (***************************************************************************)
<1>StartKeeps. SkipInv /\ StartReplicationChannel => SkipInv'
  <2> SUFFICES ASSUME SkipInv, StartReplicationChannel PROVE SkipInv'
    BY Zenon
  <2>1. /\ tasks = <<>> /\ (tasks' = <<Task("started", None)>> \/ tasks' = tasks)
        /\ UNCHANGED <<config, commits, file, queue, worker, emitted, dropped>> /\ context' = file.context /\ up'
    BY Zenon DEF StartReplicationChannel, SkipInv, TypeInv, StateOK, LoadState
  <2>2. \A t \in Tables : Have[t] \subseteq Have'[t]
    <3>1. \A t \in Tables : QueuedRows(tasks, t) = {}
      BY <2>1 DEF QueuedRows
    <3> QED
      BY <2>1, <3>1, HaveGrows, Zenon
  <2>3. QueuesOK'
    <3>1. \A x \in TaskSet : <<x>> \in Seq(TaskSet)
      OBVIOUS
    <3>2. tasks' \in Seq(TaskSet)
      BY <2>1, <3>1, TasksAre, Zenon DEF SkipInv, TypeInv, QueuesOK
    <3> QED
      BY <2>1, <3>2, Zenon DEF SkipInv, TypeInv, QueuesOK
  <2>4. StateOK'
    BY <2>1, Zenon DEF SkipInv, TypeInv, StateOK
  <2> QED
    BY <2>1, <2>2, <2>3, <2>4, <1>WorkersRest, <1>StoredStays, Zenon DEF SkipInv, TypeInv, CoverInv

  (***************************************************************************)
  (* The first task of the snapshot.                                         *)
  (***************************************************************************)
<1>StartedKeeps. SkipInv /\ OnSnapshottingStarted => SkipInv'
  <2> SUFFICES ASSUME SkipInv, OnSnapshottingStarted PROVE SkipInv'
    BY Zenon
  <2>1. /\ tasks # <<>> /\ Head(tasks).kind # "row" /\ \E x \in TaskSet : tasks' = Append(Tail(tasks), x)
        /\ UNCHANGED <<config, up, commits, context, file, queue, worker, emitted, dropped>> /\ up
    BY TasksAre, Zenon DEF OnSnapshottingStarted, Running, server, storage, history
  <2>2. tasks' \in Seq(TaskSet) /\ \A t \in Tables : Have[t] \subseteq Have'[t]
    BY <2>1, TaskTaken, Zenon
  <2>3. QueuesOK' /\ StateOK'
    BY <2>1, <2>2, Zenon DEF SkipInv, TypeInv, QueuesOK, StateOK
  <2> QED
    BY <2>1, <2>2, <2>3, <1>WorkersRest, <1>StoredStays, Zenon DEF SkipInv, TypeInv, CoverInv

  (***************************************************************************)
  (* The next table is queued for its worker, or the one after it is tried.  *)
  (***************************************************************************)
<1>TableKeeps. SkipInv /\ OnTableSnapshotStarted => SkipInv'
  <2> SUFFICES ASSUME SkipInv, OnTableSnapshotStarted PROVE SkipInv'
    BY Zenon
  <2> DEFINE t0 == Head(tasks).table
  <2>1. /\ tasks # <<>> /\ Head(tasks).kind = "table"
        /\ tasks' = Tail(tasks) \/ \E x \in TaskSet : tasks' = Append(Tail(tasks), x)
        /\ UNCHANGED <<config, up, commits, context, file, worker, emitted, dropped>> /\ up
        /\ UNCHANGED queue \/ SnapshotBaseTable(t0)
    BY TasksAre, Zenon DEF OnTableSnapshotStarted, Running, server, storage, history
  <2>2. tasks' \in Seq(TaskSet) /\ \A t \in Tables : Have[t] \subseteq Have'[t]
    BY <2>1, TaskTaken, Zenon
  <2>3. t0 \in Tables
    <3>1. Head(tasks) \in TaskSet
      BY <2>1, HeadTailProperties, Zenon DEF SkipInv, TypeInv, QueuesOK
    <3> QED
      BY <2>1, <3>1, Zenon DEF TaskSet
  <2>4. queue' \in [Partitions -> Seq(Entries)]
    <3>1. CASE UNCHANGED queue
      BY <3>1, Zenon DEF SkipInv, TypeInv, QueuesOK
    <3>2. CASE SnapshotBaseTable(t0)
      <4>1. [table |-> t0, next |-> FALSE] \in Entries
        BY <2>3, Zenon DEF Entries
      <4>2. \A p \in Partitions : Append(queue[p], [table |-> t0, next |-> FALSE]) \in Seq(Entries)
        BY <4>1, AppendProperties, Zenon DEF SkipInv, TypeInv, QueuesOK
      <4> QED
        BY <3>2, <4>2, Zenon DEF SnapshotBaseTable, SkipInv, TypeInv, QueuesOK
    <3> QED
      BY <2>1, <3>1, <3>2, Zenon
  <2>5. QueuesOK' /\ StateOK'
    BY <2>1, <2>2, <2>4, Zenon DEF SkipInv, TypeInv, QueuesOK, StateOK
  <2> QED
    BY <2>1, <2>2, <2>5, <1>WorkersRest, <1>StoredStays, Zenon DEF SkipInv, TypeInv, CoverInv

  (***************************************************************************)
  (* A row moves from the queue to what was emitted.                         *)
  (***************************************************************************)
<1>ReadKeeps. SkipInv /\ OnReadEvent => SkipInv'
  <2> SUFFICES ASSUME SkipInv, OnReadEvent PROVE SkipInv'
    BY Zenon
  <2> DEFINE e == Head(tasks)
  <2>1. /\ tasks # <<>> /\ e.kind = "row" /\ tasks' = Tail(tasks) /\ up
        /\ emitted' = [emitted EXCEPT ![e.table] = @ \cup {e.row}]
        /\ UNCHANGED <<config, up, commits, context, file, queue, worker, dropped>>
    BY Zenon DEF OnReadEvent, Running, server
  <2>2. tasks \in Seq(TaskSet) /\ e \in TaskSet /\ Tail(tasks) \in Seq(TaskSet)
    BY <2>1, HeadTailProperties, Zenon DEF SkipInv, TypeInv, QueuesOK
  <2>3. e.table \in Tables /\ e.row \in Nat
    BY <2>1, <2>2, Zenon DEF TaskSet
  <2>4. \A t \in Tables : QueuedRows(tasks, t) \subseteq emitted'[t] \cup QueuedRows(tasks', t)
    <3> TAKE t \in Tables
    <3> SUFFICES ASSUME NEW r \in QueuedRows(tasks, t) PROVE r \in emitted'[t] \cup QueuedRows(tasks', t)
      BY Zenon
    <3>1. r \in QueuedRows(tasks', t) \/ (e.table = t /\ e.row = r)
      BY <2>1, <2>2, QueuedTail, Zenon
    <3>2. e.table = t /\ e.row = r => r \in emitted'[t]
      BY <2>1, <2>3, Zenon DEF SkipInv, TypeInv, StateOK
    <3> QED
      BY <3>1, <3>2, Zenon
  <2>5. \A t \in Tables : emitted[t] \subseteq emitted'[t]
    BY <2>1, <2>3, Zenon DEF SkipInv, TypeInv, StateOK
  <2>6. \A t \in Tables : Have[t] \subseteq Have'[t]
    BY <2>1, <2>4, <2>5, HaveGrows, Zenon
  <2>7. QueuesOK'
    BY <2>1, <2>2, Zenon DEF SkipInv, TypeInv, QueuesOK
  <2>8. StateOK'
    BY <2>1, <2>3, Zenon DEF SkipInv, TypeInv, StateOK
  <2> QED
    BY <2>1, <2>6, <2>7, <2>8, <1>WorkersRest, <1>StoredStays, Zenon DEF SkipInv, TypeInv, CoverInv

  (***************************************************************************)
  (* The end of the snapshot.                                                *)
  (***************************************************************************)
<1>FinishedKeeps. SkipInv /\ OnSnapshottingFinished => SkipInv'
  <2> SUFFICES ASSUME SkipInv, OnSnapshottingFinished PROVE SkipInv'
    BY Zenon
  <2>1. /\ tasks # <<>> /\ Head(tasks).kind # "row" /\ tasks' = Tail(tasks)
        /\ UNCHANGED <<config, up, commits, context, file, queue, worker, emitted, dropped>> /\ up
    BY Zenon DEF OnSnapshottingFinished, Running, server, storage, history
  <2>2. tasks' \in Seq(TaskSet) /\ \A t \in Tables : Have[t] \subseteq Have'[t]
    BY <2>1, TaskTaken, Zenon
  <2>3. QueuesOK' /\ StateOK'
    BY <2>1, <2>2, Zenon DEF SkipInv, TypeInv, QueuesOK, StateOK
  <2> QED
    BY <2>1, <2>2, <2>3, <1>WorkersRest, <1>StoredStays, Zenon DEF SkipInv, TypeInv, CoverInv

  (***************************************************************************)
  (* A worker that moves on with its copy of the context.                    *)
  (***************************************************************************)
<1>WorkerPlaced. ASSUME NEW w, WorkerOK(w), NEW place \in Places \ {"create", "rows"},
                        place \in {"wait", "release"} \/ w.table \in Tables
                 PROVE  /\ WorkerOK([w EXCEPT !.at = place]) /\ BatchOK([w EXCEPT !.at = place])
                        /\ [w EXCEPT !.at = place].local = w.local
  BY <1>WorkerPlaced, Zenon DEF WorkerOK, WorkerStates, BatchOK, Places

  (***************************************************************************)
  (* A worker that moves on with another copy of the context.                 *)
  (***************************************************************************)
<1>WorkerCopies. ASSUME NEW w, WorkerOK(w), NEW place \in Places \ {"rows"}, w.table \in Tables, NEW c \in Contexts
                 PROVE  /\ WorkerOK([w EXCEPT !.at = place, !.local = c]) /\ BatchOK([w EXCEPT !.at = place, !.local = c])
                        /\ [w EXCEPT !.at = place, !.local = c].local = c
  BY <1>WorkerCopies, Zenon DEF WorkerOK, WorkerStates, BatchOK, Places

  (***************************************************************************)
  (* A watermark that is marked complete, and one with a new upper end, keep *)
  (* their lower end; a new one has none.                                    *)
  (***************************************************************************)
<1>LowStays. ASSUME NEW c \in Contexts, NEW t \in Tables, NEW have, Covered(c, have), config \in Configs
             PROVE  /\ MarkedComplete(c, t) \in Contexts /\ Covered(MarkedComplete(c, t), have)
                    /\ \A next \in BOOLEAN : WithHigh(c, t, next) \in Contexts /\ Covered(WithHigh(c, t, next), have)
  <2> USE <1>LowStays
  <2>1. NewWatermark \in Watermarks /\ NewWatermark.low = 0
    BY Zenon DEF NewWatermark, Watermarks
  <2>2. \A w \in Watermarks : /\ [w EXCEPT !.complete = TRUE] \in Watermarks
                              /\ [w EXCEPT !.complete = TRUE].low = w.low
    BY Zenon DEF Watermarks
  <2>3. \A w \in Watermarks : SetHighWatermark(w, LastKey(t)) \in Watermarks /\ SetHighWatermark(w, LastKey(t)).low = w.low
    <3>1. config.rows[t] \in Nat
      BY ConfigsAssumption, Zenon
    <3>2. LastKey(t) \in Nat
      <4>1. CASE config.rows[t] = 0
        BY <4>1, Zenon DEF LastKey
      <4>2. CASE config.rows[t] # 0
        BY <3>1, <4>2, KeySteps, Zenon DEF LastKey
      <4> QED
        BY <4>1, <4>2, Zenon
    <3> QED
      BY <3>2, Zenon DEF SetHighWatermark, Watermarks
  <2>4. ASSUME NEW w \in Watermarks, c[t] # None => w.low = c[t].low, c[t] = None => w.low = 0
        PROVE  [c EXCEPT ![t] = w] \in Contexts /\ Covered([c EXCEPT ![t] = w], have)
    <3>1. [c EXCEPT ![t] = w] \in Contexts
      BY Zenon DEF Contexts
    <3>2. \A u \in Tables : [c EXCEPT ![t] = w][u] = IF u = t THEN w ELSE c[u]
      BY Zenon DEF Contexts
    <3>3. 1..0 = {}
      OBVIOUS
    <3>4. Covered([c EXCEPT ![t] = w], have)
      <4> SUFFICES ASSUME NEW u \in Tables, [c EXCEPT ![t] = w][u] # None
                   PROVE  1..[c EXCEPT ![t] = w][u].low \subseteq have[u]
        BY Zenon DEF Covered
      <4>1. c # None
        BY NoneAssumption, Zenon
      <4> QED
        BY <3>2, <3>3, <4>1, <2>4, Zenon DEF Covered
    <3> QED
      BY <3>1, <3>4, Zenon
  <2>5. c[t] \in Watermarks \cup {None}
    BY Zenon DEF Contexts
  <2>6. MarkedComplete(c, t) \in Contexts /\ Covered(MarkedComplete(c, t), have)
    <3> DEFINE w == [(IF c[t] = None THEN NewWatermark ELSE c[t]) EXCEPT !.complete = TRUE]
    <3>1. w \in Watermarks /\ (c[t] # None => w.low = c[t].low) /\ (c[t] = None => w.low = 0)
      BY <2>1, <2>2, <2>5, Zenon
    <3>2. MarkedComplete(c, t) = [c EXCEPT ![t] = w]
      BY Zenon DEF MarkedComplete, Contexts
    <3> HIDE DEF w
    <3> QED
      BY <2>4, <3>1, <3>2, Zenon
  <2>7. ASSUME NEW next \in BOOLEAN
        PROVE  WithHigh(c, t, next) \in Contexts /\ Covered(WithHigh(c, t, next), have)
    <3> DEFINE w == SetHighWatermark(IF c[t] = None THEN NewWatermark ELSE c[t], LastKey(t))
    <3>1. w \in Watermarks /\ (c[t] # None => w.low = c[t].low) /\ (c[t] = None => w.low = 0)
      BY <2>1, <2>3, <2>5, Zenon
    <3>2. WithHigh(c, t, next) = [c EXCEPT ![t] = w] \/ WithHigh(c, t, next) = c
      BY Zenon DEF WithHigh, Contexts
    <3> HIDE DEF w
    <3> QED
      BY <2>4, <3>1, <3>2, Zenon
  <2> QED
    BY <2>6, <2>7, Zenon

  (***************************************************************************)
  (* A step of one worker and of the context in memory.                      *)
  (***************************************************************************)
<1>WorkerStep. ASSUME SkipInv, up, UNCHANGED <<config, up, commits, file, emitted, dropped>>,
                      NEW p \in Partitions, NEW w, worker' = [worker EXCEPT ![p] = w],
                      WorkerOK(w), BatchOK(w), Covered(w.local, Have'),
                      QueuesOK', \A t \in Tables : Have[t] \subseteq Have'[t],
                      context' \in Contexts \cup {None}, Covered(context', Have')
               PROVE  SkipInv'
  <2> USE <1>WorkerStep
  <2>1. StateOK'
    BY Zenon DEF SkipInv, TypeInv, StateOK
  <2>2. WorkersOK' /\ \A q \in Partitions : Covered(worker'[q].local, Have') /\ BatchOK(worker[q])'
    BY <1>WorkerMoves, Zenon
  <2>3. Covered(file'.context, Have')
    BY <1>StoredStays, Zenon
  <2> QED
    BY <2>1, <2>2, <2>3, Zenon DEF SkipInv, TypeInv, CoverInv

  (***************************************************************************)
  (* A step of one worker that leaves the tasks and the queues alone.        *)
  (***************************************************************************)
<1>WorkerAlone. ASSUME SkipInv, up, UNCHANGED <<config, up, commits, file, emitted, dropped, tasks>>,
                       queue' \in [Partitions -> Seq(Entries)],
                       NEW p \in Partitions, NEW w, worker' = [worker EXCEPT ![p] = w],
                       WorkerOK(w), BatchOK(w), Covered(w.local, Have),
                       context' \in Contexts \cup {None}, Covered(context', Have)
                PROVE  SkipInv'
  <2> USE <1>WorkerAlone
  <2>1. Have' = Have
    BY HaveSame, Zenon
  <2>2. QueuesOK'
    BY Zenon DEF SkipInv, TypeInv, QueuesOK
  <2> QED
    BY <2>1, <2>2, <1>WorkerStep, Zenon

  (***************************************************************************)
  (* The dispatcher marks a table complete and lets its worker go on.        *)
  (***************************************************************************)
<1>DoneKeeps. SkipInv /\ OnTableSnapshotFinished => SkipInv'
  <2> SUFFICES ASSUME SkipInv, OnTableSnapshotFinished PROVE SkipInv'
    BY Zenon
  <2> DEFINE t0 == Head(tasks).table
             p == PartitionOf[t0]
             w == [worker[p] EXCEPT !.at = "release"]
  <2>1. /\ tasks # <<>> /\ Head(tasks).kind = "done" /\ up
        /\ UNCHANGED <<config, up, commits, file, queue, emitted, dropped>>
        /\ worker' = [worker EXCEPT ![p].at = "release"]
        /\ \/ tasks' = Tail(tasks) /\ UNCHANGED context
           \/ /\ Readable /\ context' = MarkedComplete(context, t0)
              /\ \E x \in TaskSet : tasks' = Append(Tail(tasks), x)
    BY TasksAre, Zenon DEF OnTableSnapshotFinished, Running, server, history
  <2>2. tasks' \in Seq(TaskSet) /\ \A t \in Tables : Have[t] \subseteq Have'[t]
    BY <2>1, TaskTaken, Zenon
  <2>3. t0 \in Tables
    <3>1. Head(tasks) \in TaskSet
      BY <2>1, HeadTailProperties, Zenon DEF SkipInv, TypeInv, QueuesOK
    <3> QED
      BY <2>1, <3>1, Zenon DEF TaskSet
  <2>4. p \in Partitions
    BY <2>3, ConfigsAssumption, Zenon
  <2> HIDE DEF p
  <2>5. worker' = [worker EXCEPT ![p] = w]
    BY <2>1, Zenon
  <2>6. WorkerOK(w) /\ BatchOK(w) /\ w.local = worker[p].local
    BY <2>4, WorkerHas, <1>WorkerPlaced, Zenon DEF Places
  <2>7. Covered(worker[p].local, Have')
    BY <2>2, <2>4, WorkerHas, <1>CoveredGrows, Zenon
  <2>8. context' \in Contexts \cup {None} /\ Covered(context', Have)
    <3>1. CASE UNCHANGED context
      BY <2>4, <3>1, WorkerHas, Zenon
    <3>2. CASE Readable /\ context' = MarkedComplete(context, t0)
      <4>1. context \in Contexts /\ Covered(context, Have) /\ config \in Configs
        BY <2>4, <3>2, WorkerHas, Zenon DEF Readable
      <4> QED
        BY <2>3, <3>2, <4>1, <1>LowStays, Zenon
    <3> QED
      BY <2>1, <3>1, <3>2, Zenon
  <2>9. Covered(context', Have')
    BY <2>2, <2>8, <1>CoveredGrows, Zenon
  <2>10. QueuesOK'
    BY <2>1, <2>2, Zenon DEF SkipInv, TypeInv, QueuesOK
  <2> HIDE DEF w
  <2> QED
    BY <2>1, <2>2, <2>4, <2>5, <2>6, <2>7, <2>8, <2>9, <2>10, <1>WorkerStep, Zenon

  (***************************************************************************)
  (* Fatalf and panics leave the file alone.                                 *)
  (***************************************************************************)
<1>FatalKeeps. SkipInv /\ Fatal => SkipInv'
  BY <1>EndsKeeps, Zenon DEF Fatal

  (***************************************************************************)
  (* A worker takes a table from its queue.                                  *)
  (***************************************************************************)
<1>TakeKeeps. ASSUME SkipInv, NEW p \in Partitions, TakeSnapshot(p)
              PROVE  SkipInv'
  <2> USE <1>TakeKeeps
  <2> DEFINE w == [Idle EXCEPT !.at = "begin", !.table = Head(queue[p]).table, !.next = Head(queue[p]).next]
  <2>1. /\ up /\ queue[p] # <<>> /\ queue' = [queue EXCEPT ![p] = Tail(@)]
        /\ worker' = [worker EXCEPT ![p] = w]
        /\ UNCHANGED <<config, up, commits, context, file, tasks, emitted, dropped>>
    BY Zenon DEF TakeSnapshot, At, Goes, server, storage, history
  <2>2. Head(queue[p]) \in Entries /\ Tail(queue[p]) \in Seq(Entries)
    BY <2>1, WorkerHas, HeadTailProperties, Zenon
  <2>3. queue' \in [Partitions -> Seq(Entries)]
    BY <2>1, <2>2, WorkerHas, Zenon
  <2>4. WorkerOK(w) /\ BatchOK(w) /\ w.local = None
    <3>1. <<>> \in Seq(Nat)
      OBVIOUS
    <3> QED
      BY <2>2, <3>1, Zenon DEF WorkerOK, WorkerStates, BatchOK, Places, Idle, Entries
  <2>5. Covered(w.local, Have)
    BY <2>4, Zenon DEF Covered
  <2> HIDE DEF w
  <2> QED
    BY <2>1, <2>3, <2>4, <2>5, WorkerHas, <1>WorkerAlone, Zenon

  (***************************************************************************)
  (* A worker reads or creates the context.                                  *)
  (***************************************************************************)
<1>ContextKeeps. ASSUME SkipInv, NEW p \in Partitions, GetOrCreateContext(p)
                 PROVE  SkipInv'
  <2> USE <1>ContextKeeps
  <2>1. EmptyContext \in Contexts /\ Covered(EmptyContext, Have)
    BY Zenon DEF EmptyContext, Contexts, Covered
  <2>2. /\ WorkerOK(worker[p]) /\ worker[p].table \in Tables
        /\ queue \in [Partitions -> Seq(Entries)] /\ context \in Contexts \cup {None} /\ Covered(context, Have)
    BY WorkerHas, Zenon DEF GetOrCreateContext, At, WorkerOK
  <2>3. CASE Fatal
    BY <2>3, <1>FatalKeeps, Zenon
  <2>4. ASSUME NEW c \in Contexts, Covered(c, Have), up, UNCHANGED <<config, up, commits, file, tasks, queue, emitted, dropped>>,
               worker' = [worker EXCEPT ![p] = [worker[p] EXCEPT !.at = "create", !.local = c]],
               context' \in Contexts \cup {None}, Covered(context', Have)
        PROVE  SkipInv'
    <3> DEFINE w == [worker[p] EXCEPT !.at = "create", !.local = c]
    <3>1. WorkerOK(w) /\ BatchOK(w) /\ w.local = c
      BY <2>2, <1>WorkerCopies, ZenonT(60) DEF Places
    <3> HIDE DEF w
    <3> QED
      BY <2>2, <2>4, <3>1, <1>WorkerAlone, Zenon DEF w
  <2>5. CASE context = None /\ ~Fatal
    BY <2>1, <2>4, <2>5, ZenonT(60) DEF GetOrCreateContext, At, Goes, server, storage, history
  <2>6. CASE context # None /\ ~Fatal
    BY <2>2, <2>4, <2>6, Zenon DEF GetOrCreateContext, At, Goes, server, storage, history
  <2> QED
    BY <2>3, <2>5, <2>6, Zenon

  (***************************************************************************)
  (* A worker stores the high watermark.                                     *)
  (***************************************************************************)
<1>HighKeeps. ASSUME SkipInv, NEW p \in Partitions, StoreHighWatermark(p)
              PROVE  SkipInv'
  <2> USE <1>HighKeeps
  <2> DEFINE c == WithHigh(worker[p].local, worker[p].table, worker[p].next)
             w == [worker[p] EXCEPT !.at = "load"]
  <2>1. /\ WorkerOK(worker[p]) /\ worker[p].table \in Tables /\ worker[p].local \in Contexts /\ worker[p].next \in BOOLEAN
        /\ queue \in [Partitions -> Seq(Entries)] /\ Covered(worker[p].local, Have) /\ config \in Configs
    BY WorkerHas, Zenon DEF StoreHighWatermark, At, WorkerOK, WorkerStates
  <2>2. CASE Fatal
    BY <2>2, <1>FatalKeeps, Zenon
  <2>3. CASE ~Fatal
    <3>1. /\ up /\ context' = c /\ worker' = [worker EXCEPT ![p] = w]
          /\ UNCHANGED <<config, up, commits, file, tasks, queue, emitted, dropped>>
      BY <2>3, Zenon DEF StoreHighWatermark, At, Goes, server, history
    <3>2. c \in Contexts /\ Covered(c, Have)
      BY <2>1, <1>LowStays, Zenon
    <3>3. WorkerOK(w) /\ BatchOK(w) /\ w.local = worker[p].local
      BY <2>1, <1>WorkerPlaced, Zenon DEF Places
    <3> HIDE DEF c, w
    <3> QED
      BY <2>1, <3>1, <3>2, <3>3, <1>WorkerAlone, Zenon
  <2> QED
    BY <2>2, <2>3, Zenon

  (***************************************************************************)
  (* A worker reads a batch.                                                 *)
  (***************************************************************************)
<1>FetchKeeps. ASSUME SkipInv, NEW p \in Partitions, FetchBatch(p)
               PROVE  SkipInv'
  <2> USE <1>FetchKeeps
  <2> DEFINE t == worker[p].table
             b == Batch(t, context[t].low, context[t].high)
             w == [worker[p] EXCEPT !.at = "rows", !.local = context, !.lsn = commits, !.batch = b]
  <2>1. /\ worker[p] \in WorkerStates /\ t \in Tables /\ commits \in Nat /\ config \in Configs
        /\ queue \in [Partitions -> Seq(Entries)] /\ context \in Contexts \cup {None} /\ Covered(context, Have)
    BY WorkerHas, Zenon DEF FetchBatch, At, WorkerOK
  <2>2. CASE Fatal
    BY <2>2, <1>FatalKeeps, Zenon
  <2>3. CASE ~Fatal
    <3>1. /\ up /\ context # None /\ context[t] # None /\ worker' = [worker EXCEPT ![p] = w]
          /\ UNCHANGED <<config, up, commits, context, file, tasks, queue, emitted, dropped>>
      BY <2>3, Zenon DEF FetchBatch, At, Goes, Readable, server, storage
    <3>2. context \in Contexts /\ context[t] \in Watermarks
      BY <2>1, <3>1, Zenon DEF Contexts
    <3>3. context[t].low \in Nat /\ context[t].high \in Nat
      BY <3>2, Zenon DEF Watermarks
    <3>4. /\ b \in Seq(Nat)
          /\ \A i \in DOMAIN b : b[i] = b[1] + i - 1 /\ b[i] > 0
          /\ b # <<>> => Key(t, b[1]) <= context[t].low + 1
      BY <2>1, <3>3, <1>BatchIs, Zenon
    <3> HIDE DEF b
    <3>5. w \in WorkerStates /\ w.at = "rows" /\ w.table = t /\ w.local = context /\ w.batch = b
      BY <2>1, <3>2, <3>4, Zenon DEF WorkerStates, Places
    <3> HIDE DEF w, t
    <3>6. WorkerOK(w) /\ BatchOK(w)
      BY <2>1, <3>2, <3>4, <3>5, Zenon DEF WorkerOK, BatchOK
    <3> QED
      BY <2>1, <3>1, <3>5, <3>6, <1>WorkerAlone, Zenon
  <2> QED
    BY <2>2, <2>3, Zenon

  (***************************************************************************)
  (* What is left of a batch.                                                *)
  (***************************************************************************)
<1>BatchRest. ASSUME NEW t, NEW b \in Seq(Nat), b # <<>>,
                     \A i \in DOMAIN b : b[i] = b[1] + i - 1 /\ b[i] > 0
              PROVE  /\ Head(b) = b[1] /\ b[1] \in Nat \ {0} /\ Tail(b) \in Seq(Nat)
                     /\ \A i \in DOMAIN Tail(b) : Tail(b)[i] = Tail(b)[1] + i - 1 /\ Tail(b)[i] > 0
                     /\ Tail(b) # <<>> => Key(t, Tail(b)[1]) <= Key(t, b[1]) + 1
  <2> USE <1>BatchRest
  <2>1. /\ Len(b) \in Nat /\ Len(b) # 0 /\ DOMAIN b = 1..Len(b) /\ Head(b) = b[1] /\ Tail(b) \in Seq(Nat)
        /\ DOMAIN Tail(b) = 1..(Len(b) - 1) /\ Len(Tail(b)) = Len(b) - 1
        /\ \A i \in 1..(Len(b) - 1) : Tail(b)[i] = b[i + 1]
    BY HeadTailProperties, LenProperties, EmptySeq
  <2>2. 1 \in DOMAIN b
    BY <2>1
  <2>3. b[1] \in Nat \ {0}
    BY <2>2, ElementOfSeq, <2>1
  <2>4. \A i \in 1..(Len(b) - 1) : Tail(b)[i] = b[1] + i
    <3> TAKE i \in 1..(Len(b) - 1)
    <3>1. i + 1 \in DOMAIN b /\ i \in Nat
      BY <2>1
    <3>2. b[i + 1] = b[1] + (i + 1) - 1
      BY <3>1, Zenon
    <3> QED
      BY <2>1, <2>3, <3>1, <3>2, SMTT(30)
  <2>5. ASSUME NEW i \in DOMAIN Tail(b)
        PROVE  /\ Tail(b)[i] = Tail(b)[1] + i - 1 /\ Tail(b)[i] > 0 /\ Tail(b)[1] = b[1] + 1
    <3>1. i \in Nat /\ i >= 1 /\ i \in 1..(Len(b) - 1) /\ 1 \in 1..(Len(b) - 1)
      BY <2>1, <2>5
    <3>2. Tail(b)[i] = b[1] + i /\ Tail(b)[1] = b[1] + 1
      BY <2>4, <3>1, Zenon
    <3>3. b[1] + i = (b[1] + 1) + i - 1 /\ b[1] + i > 0
      BY <2>3, <3>1, SMTT(30)
    <3> QED
      BY <3>2, <3>3, Zenon
  <2>6. Tail(b) # <<>> => Key(t, Tail(b)[1]) <= Key(t, b[1]) + 1
    <3> SUFFICES ASSUME Tail(b) # <<>> PROVE Key(t, Tail(b)[1]) <= Key(t, b[1]) + 1
      BY Zenon
    <3>1. Len(Tail(b)) # 0
      BY <2>1, EmptySeq, Zenon
    <3>2. 1 \in 1..(Len(b) - 1)
      BY <2>1, <3>1
    <3>3. Tail(b)[1] = b[1] + 1
      BY <2>4, <3>2, Zenon
    <3>4. Key(t, b[1]) \in Nat /\ Key(t, b[1] + 1) \in Key(t, b[1]) .. (Key(t, b[1]) + 1)
      BY <2>3, KeySteps, Zenon
    <3> QED
      BY <3>3, <3>4, SMTT(30)
  <2> QED
    BY <2>1, <2>3, <2>5, <2>6, Zenon

  (***************************************************************************)
  (* A worker hands a row on: its copy's low watermark moves to the key of   *)
  (* the row, which is at most one above and now queued.                     *)
  (***************************************************************************)
<1>RowKeeps. ASSUME SkipInv, NEW p \in Partitions, EnqueueRow(p)
             PROVE  SkipInv'
  <2> USE <1>RowKeeps
  <2> DEFINE t == worker[p].table
             b == worker[p].batch
             key == Key(t, b[1])
             old == worker[p].local[t]
             mark == SetLowWatermark(old, key)
             c == [worker[p].local EXCEPT ![t] = mark]
             w == [worker[p] EXCEPT !.local[t] = SetLowWatermark(@, Key(t, Head(b))), !.batch = Tail(@)]
             x == ReadEvent(t, Head(b), worker[p].lsn)
  <2>1. /\ worker[p].at = "rows" /\ up /\ b # <<>> /\ worker' = [worker EXCEPT ![p] = w] /\ tasks' = Append(tasks, x)
        /\ UNCHANGED <<config, up, commits, context, file, queue, emitted, dropped>>
    BY Zenon DEF EnqueueRow, At, Goes, server, storage, history
  <2>2. /\ worker[p] \in WorkerStates /\ t \in Tables /\ b \in Seq(Nat) /\ worker[p].lsn \in Nat
        /\ worker[p].local \in Contexts /\ old \in Watermarks /\ Covered(worker[p].local, Have)
        /\ context \in Contexts \cup {None} /\ Covered(context, Have)
        /\ tasks \in Seq(TaskSet) /\ queue \in [Partitions -> Seq(Entries)]
    BY <2>1, WorkerHas, Zenon DEF WorkerOK, WorkerStates
  <2>3. /\ \A i \in DOMAIN b : b[i] = b[1] + i - 1 /\ b[i] > 0
        /\ key <= old.low + 1
    BY <2>1, WorkerHas, Zenon DEF BatchOK
  <2>4. /\ Head(b) = b[1] /\ b[1] \in Nat \ {0} /\ Tail(b) \in Seq(Nat)
        /\ \A i \in DOMAIN Tail(b) : Tail(b)[i] = Tail(b)[1] + i - 1 /\ Tail(b)[i] > 0
        /\ Tail(b) # <<>> => Key(t, Tail(b)[1]) <= key + 1
    BY <2>1, <2>2, <2>3, <1>BatchRest, Zenon
  <2>5. key \in Nat \ {0} /\ old.low \in Nat
    BY <2>2, <2>4, KeySteps, Zenon DEF Watermarks
  <2>6. mark \in Watermarks /\ mark.low = key
    BY <2>2, <2>5, Zenon DEF SetLowWatermark, CheckComplete, Watermarks
  <2>7. x \in TaskSet /\ x.kind = "row" /\ x.table = t /\ x.row = b[1]
    BY <2>2, <2>4, TasksAre, Zenon DEF ReadEvent
  <2> HIDE DEF x, key, mark
  <2>8. /\ tasks' \in Seq(TaskSet) /\ b[1] \in QueuedRows(tasks', t)
        /\ \A u \in Tables : QueuedRows(tasks, u) \subseteq QueuedRows(tasks', u)
    BY <2>1, <2>2, <2>7, QueuedAppend, AppendProperties, Zenon
  <2>9. \A u \in Tables : Have[u] \subseteq Have'[u]
    BY <2>1, <2>8, HaveGrows, Zenon
  <2>10. key \in Have'[t]
    BY <2>1, <2>2, <2>8, Zenon DEF Have, KeysOf, Key, key
  <2>11. c \in Contexts /\ \A u \in Tables : c[u] = IF u = t THEN mark ELSE worker[p].local[u]
    BY <2>2, <2>6, Zenon DEF Contexts
  <2>12. w \in WorkerStates /\ w.at = "rows" /\ w.table = t /\ w.local = c /\ w.batch = Tail(b)
    <3>1. w = [worker[p] EXCEPT !.local = c, !.batch = Tail(b)]
      BY <2>2, <2>4, Zenon DEF WorkerStates, Contexts, key, mark
    <3> QED
      BY <2>1, <2>2, <2>4, <2>11, <3>1, ZenonT(60) DEF WorkerStates
  <2>13. Covered(c, Have')
    <3> SUFFICES ASSUME NEW u \in Tables, c[u] # None PROVE 1..c[u].low \subseteq Have'[u]
      BY Zenon DEF Covered
    <3>1. worker[p].local # None /\ old # None
      BY <2>2, NoneAssumption, Zenon
    <3>2. CASE u = t
      <4>1. 1..old.low \subseteq Have[t]
        BY <2>2, <3>1, Zenon DEF Covered
      <4>2. 1..old.low \subseteq Have'[t]
        BY <2>2, <2>9, <4>1, Zenon
      <4>3. c[u].low = key
        BY <2>6, <2>11, <3>2, Zenon
      <4>4. \A k \in 1..key : k \in 1..old.low \/ k = key
        BY <2>3, <2>5, SMTT(30) DEF key
      <4> HIDE DEF old, c
      <4> QED
        BY <2>10, <3>2, <4>2, <4>3, <4>4, Zenon
    <3>3. CASE u # t
      <4>1. c[u] = worker[p].local[u]
        BY <2>11, <3>3, Zenon
      <4>2. 1..worker[p].local[u].low \subseteq Have[u]
        BY <2>2, <3>1, <4>1, Zenon DEF Covered
      <4> QED
        BY <2>9, <4>1, <4>2, Zenon
    <3> QED
      BY <3>2, <3>3, Zenon
  <2> HIDE DEF c, w, b, t
  <2>14. WorkerOK(w) /\ BatchOK(w)
    BY <2>2, <2>4, <2>6, <2>11, <2>12, Zenon DEF WorkerOK, BatchOK
  <2>15. QueuesOK' /\ context' \in Contexts \cup {None} /\ Covered(context', Have')
    BY <2>1, <2>2, <2>8, <2>9, <1>CoveredGrows, Zenon DEF QueuesOK
  <2> QED
    BY <2>1, <2>9, <2>12, <2>13, <2>14, <2>15, <1>WorkerStep, Zenon

  (***************************************************************************)
  (* A worker stores its copy of the context.                                *)
  (***************************************************************************)
<1>LowKeeps. ASSUME SkipInv, NEW p \in Partitions, StoreLowWatermark(p)
             PROVE  SkipInv'
  <2> USE <1>LowKeeps
  <2> DEFINE w == [worker[p] EXCEPT !.at = "check"]
  <2>1. /\ worker[p].at = "rows" /\ up /\ context' = worker[p].local /\ worker' = [worker EXCEPT ![p] = w]
        /\ UNCHANGED <<config, up, commits, file, tasks, queue, emitted, dropped>>
    BY Zenon DEF StoreLowWatermark, At, Goes, server, history
  <2>2. WorkerOK(worker[p]) /\ worker[p].local \in Contexts /\ worker[p].table \in Tables
    BY <2>1, WorkerHas, Zenon DEF WorkerOK
  <2>3. WorkerOK(w) /\ BatchOK(w) /\ w.local = worker[p].local
    BY <2>2, <1>WorkerPlaced, Zenon DEF Places
  <2> HIDE DEF w
  <2> QED
    BY <2>1, <2>2, <2>3, WorkerHas, <1>WorkerAlone, Zenon

  (***************************************************************************)
  (* The end of a batch, and of the transaction around it.                   *)
  (***************************************************************************)
<1>CheckKeeps. ASSUME SkipInv, NEW p \in Partitions, EndBatch(p)
               PROVE  SkipInv'
  <2> USE <1>CheckKeeps
  <2> DEFINE t == worker[p].table
             w(place) == [worker[p] EXCEPT !.at = place, !.local = context]
  <2>1. /\ WorkerOK(worker[p]) /\ t \in Tables /\ tasks \in Seq(TaskSet) /\ queue \in [Partitions -> Seq(Entries)]
        /\ context \in Contexts \cup {None} /\ Covered(context, Have)
    BY WorkerHas, Zenon DEF EndBatch, At, WorkerOK
  <2>2. CASE Fatal
    BY <2>2, <1>FatalKeeps, Zenon
  <2>3. CASE ~Fatal
    <3>1. /\ up /\ context # None /\ UNCHANGED <<config, up, commits, context, file, emitted, dropped>>
          /\ \/ worker' = [worker EXCEPT ![p] = w("wait")] /\ tasks' = Append(tasks, Task("done", t)) /\ UNCHANGED queue
             \/ /\ worker' = [worker EXCEPT ![p] = w("release")] /\ UNCHANGED tasks
                /\ queue' = [queue EXCEPT ![p] = Append(@, [table |-> t, next |-> TRUE])]
      BY <2>3, Zenon DEF EndBatch, At, Goes, Readable, server, storage, history
    <3>2. context \in Contexts
      BY <2>1, <3>1, Zenon
    <3>3. WorkerOK(w("wait")) /\ BatchOK(w("wait")) /\ w("wait").local = context
      BY <2>1, <3>2, <1>WorkerCopies, ZenonT(60) DEF Places
    <3>4. WorkerOK(w("release")) /\ BatchOK(w("release")) /\ w("release").local = context
      BY <2>1, <3>2, <1>WorkerCopies, ZenonT(60) DEF Places
    <3> HIDE DEF w
    <3>5. CASE /\ worker' = [worker EXCEPT ![p] = w("wait")] /\ tasks' = Append(tasks, Task("done", t)) /\ UNCHANGED queue
      <4>1. /\ tasks' \in Seq(TaskSet)
            /\ \A u \in Tables : QueuedRows(tasks, u) \subseteq QueuedRows(tasks', u)
        BY <2>1, <3>5, TasksAre, QueuedAppend, AppendProperties, Zenon
      <4>2. \A u \in Tables : Have[u] \subseteq Have'[u]
        BY <3>1, <4>1, HaveGrows, Zenon
      <4>3. Covered(context, Have')
        BY <2>1, <4>2, <1>CoveredGrows, Zenon
      <4>4. QueuesOK'
        BY <2>1, <3>5, <4>1, Zenon DEF QueuesOK
      <4> QED
        BY <3>1, <3>2, <3>3, <3>5, <4>2, <4>3, <4>4, <1>WorkerStep, Zenon
    <3>6. CASE /\ worker' = [worker EXCEPT ![p] = w("release")] /\ UNCHANGED tasks
               /\ queue' = [queue EXCEPT ![p] = Append(@, [table |-> t, next |-> TRUE])]
      <4>1. [table |-> t, next |-> TRUE] \in Entries
        BY <2>1, Zenon DEF Entries
      <4>2. Append(queue[p], [table |-> t, next |-> TRUE]) \in Seq(Entries)
        BY <2>1, <4>1, AppendProperties, Zenon
      <4>3. queue' \in [Partitions -> Seq(Entries)]
        BY <2>1, <3>6, <4>2, Zenon
      <4> QED
        BY <2>1, <3>1, <3>2, <3>4, <3>6, <4>3, <1>WorkerAlone, Zenon
    <3> QED
      BY <3>1, <3>5, <3>6, Zenon
  <2> QED
    BY <2>2, <2>3, Zenon

  (***************************************************************************)
  (* A worker ends its transaction: its copy is written back.                 *)
  (***************************************************************************)
<1>ReleaseKeeps. ASSUME SkipInv, NEW p \in Partitions, EndTransaction(p)
                 PROVE  SkipInv'
  <2> USE <1>ReleaseKeeps
  <2>1. /\ up /\ context' = worker[p].local /\ worker' = [worker EXCEPT ![p] = Idle]
        /\ UNCHANGED <<config, up, commits, file, tasks, queue, emitted, dropped>>
    BY Zenon DEF EndTransaction, At, Goes, server, history
  <2>2. worker[p].local \in Contexts \cup {None}
    BY WorkerHas, Zenon DEF WorkerStates
  <2>3. Covered(Idle.local, Have)
    BY IdleIs, Zenon DEF Covered
  <2> QED
    BY <2>1, <2>2, <2>3, IdleIs, WorkerHas, <1>WorkerAlone, Zenon

<1> SUFFICES ASSUME SkipInv, [Next]_vars PROVE SkipInv'
  BY Zenon
<1>1. CASE UNCHANGED vars
  BY <1>1, <1>QuietKeeps, Zenon DEF vars, server, storage, history, SkipInv, TypeInv, StateOK
<1>2. CASE AwaitShutdown
  BY <1>2, <1>QuietKeeps, Zenon DEF AwaitShutdown, server, storage, history, SkipInv, TypeInv, StateOK
<1>3. CASE AutoStore
  BY <1>3, <1>QuietKeeps, Zenon DEF AutoStore, SaveState, server, history, SkipInv, TypeInv, StateOK
<1>4. CASE Commit
  BY <1>4, <1>QuietKeeps DEF Commit, storage, history, SkipInv, TypeInv, StateOK
<1>5. CASE StopReplication
  BY <1>5, <1>EndsKeeps, Zenon DEF StopReplication, SaveState
<1>6. CASE Crash
  BY <1>6, <1>EndsKeeps, Zenon DEF Crash
<1>7. ASSUME NEW p \in Partitions,
             TakeSnapshot(p) \/ GetOrCreateContext(p) \/ StoreHighWatermark(p) \/ FetchBatch(p)
               \/ EnqueueRow(p) \/ StoreLowWatermark(p) \/ EndBatch(p) \/ EndTransaction(p)
      PROVE  SkipInv'
  BY <1>7, <1>TakeKeeps, <1>ContextKeeps, <1>HighKeeps, <1>FetchKeeps, <1>RowKeeps, <1>LowKeeps, <1>CheckKeeps, <1>ReleaseKeeps, Zenon
<1> QED
  BY <1>1, <1>2, <1>3, <1>4, <1>5, <1>6, <1>7, <1>StartKeeps, <1>StartedKeeps, <1>TableKeeps, <1>ReadKeeps, <1>DoneKeeps,
     <1>FinishedKeeps, Zenon DEF Next

(***************************************************************************)
(* No row is skipped by a snapshot that is resumed, but those in the task  *)
(* queue when an earlier process ended.                                    *)
(***************************************************************************)
THEOREM NothingSkipped == Spec => []NoRowSkipped
<1>1. SkipInv => NoRowSkipped
  BY Zenon DEF SkipInv, CoverInv, Covered, Have, NoRowSkipped
<1> QED
  BY <1>1, InitCovers, SkipStep, PTL DEF Spec

-----------------------------------------------------------------------------
(* Positions: what is acknowledged is the position of some batch, and all  *)
(* of them are up to that of the latest one.                               *)

Points(os, b) == \A s \in DOMAIN os : os[s] \in 0..b
Lsns(q, b) == \A i \in DOMAIN q : q[i].lsn \in 0..b

PointInv ==
  /\ batchLSN \in 0..commits
  /\ \A s \in DOMAIN slots : slots[s] \in Nat
  /\ Points(offsets, batchLSN) /\ Points(file.offsets, batchLSN)
  /\ Lsns(tasks, batchLSN)
  /\ \A p \in Partitions : worker[p].lsn \in 0..batchLSN

StreamInv ==
  /\ up => slot \in DOMAIN slots
  /\ ~up => stream = None
  /\ stream # None => stream \in 0..AtLeast(slots[slot], batchLSN)

LsnInv == SkipInv /\ PointInv /\ StreamInv

(***************************************************************************)
(* Every step keeps the positions.                                          *)
(***************************************************************************)
LEMMA LsnStep == LsnInv /\ [Next]_vars => LsnInv'
  (***************************************************************************)
  (* The positions in a queue.                                               *)
  (***************************************************************************)
<1>LsnsTail. ASSUME NEW q \in Seq(TaskSet), q # <<>>, NEW b, Lsns(q, b)
             PROVE  Lsns(Tail(q), b) /\ Head(q).lsn \in 0..b
  <2> USE <1>LsnsTail
  <2>1. /\ Len(q) \in Nat /\ Len(q) # 0 /\ DOMAIN q = 1..Len(q) /\ Head(q) = q[1]
        /\ DOMAIN Tail(q) = 1..(Len(q) - 1)
        /\ \A i \in 1..(Len(q) - 1) : Tail(q)[i] = q[i + 1]
    BY HeadTailProperties, LenProperties, EmptySeq
  <2>2. 1 \in DOMAIN q /\ \A i \in DOMAIN Tail(q) : i + 1 \in DOMAIN q
    BY <2>1
  <2> QED
    BY <2>1, <2>2, Zenon DEF Lsns

  (***************************************************************************)
  (* A task that is appended brings its own position only.                    *)
  (***************************************************************************)
<1>LsnsAppend. ASSUME NEW q \in Seq(TaskSet), NEW x \in TaskSet, NEW b, Lsns(q, b), x.lsn \in 0..b
               PROVE  Lsns(Append(q, x), b)
  <2> USE <1>LsnsAppend
  <2>1. /\ Len(q) \in Nat /\ DOMAIN q = 1..Len(q)
        /\ DOMAIN Append(q, x) = 1..(Len(q) + 1)
        /\ \A i \in DOMAIN q : Append(q, x)[i] = q[i]
        /\ Append(q, x)[Len(q) + 1] = x
    BY AppendProperties, LenProperties
  <2>2. \A i \in DOMAIN Append(q, x) : i \in DOMAIN q \/ i = Len(q) + 1
    BY <2>1
  <2> QED
    BY <2>1, <2>2, ZenonT(60) DEF Lsns

  (***************************************************************************)
  (* The dispatcher takes a task that is not a row, and may append one.      *)
  (***************************************************************************)
<1>LsnsTaken. ASSUME LsnInv, tasks # <<>>,
                     tasks' = Tail(tasks) \/ \E x \in TaskSet : x.lsn = 0 /\ tasks' = Append(Tail(tasks), x)
              PROVE  Lsns(tasks', batchLSN)
  <2> USE <1>LsnsTaken
  <2>1. tasks \in Seq(TaskSet) /\ Tail(tasks) \in Seq(TaskSet) /\ Lsns(tasks, batchLSN)
    BY HeadTailProperties, Zenon DEF LsnInv, SkipInv, TypeInv, QueuesOK, PointInv
  <2>2. Lsns(Tail(tasks), batchLSN)
    BY <2>1, <1>LsnsTail, Zenon
  <2>3. 0 \in 0..batchLSN
    BY DEF LsnInv, PointInv, SkipInv, TypeInv, StateOK
  <2> QED
    BY <2>1, <2>2, <2>3, <1>LsnsAppend, ZenonT(60)

  (***************************************************************************)
  (* Tasks that are not rows have no position.                                *)
  (***************************************************************************)
<1>NewTasks. /\ Task("started", None).lsn = 0
             /\ \A done : \A x \in NextTask(Unhandled(done)) : x \in TaskSet /\ x.lsn = 0
             /\ \A t \in Tables : Task("done", t).lsn = 0
  BY TasksAre DEF Task, NextTask

  (***************************************************************************)
  (* The program ends.                                                       *)
  (***************************************************************************)
<1>EndsPoints. ASSUME LsnInv, Ends, file'.offsets \in {file.offsets, offsets},
                      \A s \in DOMAIN slots' : s \in DOMAIN slots /\ slots'[s] = slots[s]
               PROVE  PointInv' /\ StreamInv'
  <2> USE <1>EndsPoints
  <2>1. Points(<<>>, batchLSN) /\ Lsns(<<>>, batchLSN)
    BY DEF Points, Lsns
  <2>2. 0 \in 0..batchLSN
    BY DEF LsnInv, PointInv, SkipInv, TypeInv, StateOK
  <2>3. \A p \in Partitions : worker'[p].lsn = 0
    BY Zenon DEF Ends, Idle
  <2>4. PointInv'
    BY <2>1, <2>2, <2>3, Zenon DEF Ends, LsnInv, PointInv
  <2>5. StreamInv'
    BY Zenon DEF Ends, StreamInv
  <2> QED
    BY <2>4, <2>5, Zenon

  (***************************************************************************)
  (* Replication starts at the slot's point or at what was acknowledged.     *)
  (***************************************************************************)
<1>LocatedIn. ASSUME NEW point \in Nat, NEW os, NEW s, NEW b \in Nat, Points(os, b)
              PROVE  LocateRestartLSN(point, Offset(os, s)) \in 0..AtLeast(point, b)
  <2> USE <1>LocatedIn
  <2>1. CASE s \in DOMAIN os
    BY <2>1 DEF LocateRestartLSN, Offset, AtLeast, Points
  <2>2. CASE s \notin DOMAIN os
    BY <2>2 DEF LocateRestartLSN, Offset, AtLeast
  <2> QED
    BY <2>1, <2>2, Zenon

  (***************************************************************************)
  (* A start creates a slot where the server is, or takes the one there is.   *)
  (***************************************************************************)
<1>StartPoints. LsnInv /\ StartReplicationChannel => PointInv' /\ StreamInv'
  <2> SUFFICES ASSUME LsnInv, StartReplicationChannel PROVE PointInv' /\ StreamInv'
    BY Zenon
  <2> DEFINE name == SlotName
  <2>1. /\ tasks = <<>> /\ (tasks' = <<Task("started", None)>> \/ tasks' = tasks)
        /\ UNCHANGED <<commits, batchLSN, file, worker>> /\ offsets' = file.offsets /\ ~up /\ up' /\ slot' = name
        /\ CreateReplicationSlot(name) /\ stream = None
        /\ stream' = stream \/ stream' = LocateRestartLSN(slots'[name], Offset(file.offsets, name))
    BY Zenon DEF StartReplicationChannel, LsnInv, SkipInv, TypeInv, StateOK, StreamInv, LoadState, StartReplication
  <2> HIDE DEF name
  <2>2. batchLSN \in Nat /\ commits \in Nat /\ 0 \in 0..batchLSN
    BY DEF LsnInv, PointInv, SkipInv, TypeInv, StateOK
  <2>3. name \in DOMAIN slots' /\ \A s \in DOMAIN slots' : slots'[s] \in Nat
    BY <2>1, <2>2, Zenon DEF CreateReplicationSlot, LsnInv, PointInv
  <2>4. Lsns(tasks', batchLSN)
    BY <2>1, <2>2, <1>NewTasks, SMTT(30) DEF Lsns
  <2>5. PointInv'
    BY <2>1, <2>3, <2>4, Zenon DEF LsnInv, PointInv
  <2>6. LocateRestartLSN(slots'[name], Offset(file.offsets, name)) \in 0..AtLeast(slots'[name], batchLSN)
    BY <2>2, <2>3, <1>LocatedIn, Zenon DEF LsnInv, PointInv
  <2>7. StreamInv'
    BY <2>1, <2>3, <2>6, Zenon DEF StreamInv, AtLeast
  <2> QED
    BY <2>5, <2>7, Zenon

  (***************************************************************************)
  (* A task of the dispatcher that is not a row.                             *)
  (***************************************************************************)
<1>TaskPoints. ASSUME LsnInv, up, UNCHANGED <<commits, batchLSN, slots, slot, offsets, file, up>>, tasks # <<>>,
                      tasks' = Tail(tasks) \/ \E x \in TaskSet : x.lsn = 0 /\ tasks' = Append(Tail(tasks), x),
                      \A p \in Partitions : worker'[p].lsn = worker[p].lsn,
                      stream' = stream \/ stream' = LocateRestartLSN(slots[slot], Offset(offsets, slot))
               PROVE  PointInv' /\ StreamInv'
  <2> USE <1>TaskPoints
  <2>1. PointInv'
    BY <1>LsnsTaken, Zenon DEF LsnInv, PointInv
  <2>2. slot \in DOMAIN slots /\ slots[slot] \in Nat /\ batchLSN \in Nat /\ Points(offsets, batchLSN)
    BY SMTT(30) DEF LsnInv, StreamInv, PointInv, SkipInv, TypeInv, StateOK
  <2>3. LocateRestartLSN(slots[slot], Offset(offsets, slot)) \in 0..AtLeast(slots[slot], batchLSN)
    BY <2>2, <1>LocatedIn, Zenon
  <2>4. StreamInv'
    BY <2>2, <2>3, Zenon DEF LsnInv, StreamInv, AtLeast
  <2> QED
    BY <2>1, <2>4, Zenon

  (***************************************************************************)
  (* Steps that acknowledge and read nothing.                                *)
  (***************************************************************************)
<1>QuietPoints. ASSUME LsnInv, UNCHANGED <<batchLSN, slots, slot, offsets, up, stream>>, commits' \in {commits, commits + 1},
                       file'.offsets \in {file.offsets, offsets},
                       tasks' = tasks \/ \E x \in TaskSet : x.lsn \in 0..batchLSN /\ tasks' = Append(tasks, x),
                       \A p \in Partitions : worker'[p].lsn \in 0..batchLSN
                PROVE  PointInv' /\ StreamInv'
  <2> USE <1>QuietPoints
  <2>1. batchLSN \in 0..commits /\ commits \in Nat /\ batchLSN \in 0..commits'
    BY DEF LsnInv, PointInv, SkipInv, TypeInv, StateOK
  <2>2. tasks \in Seq(TaskSet) /\ Lsns(tasks, batchLSN)
    BY Zenon DEF LsnInv, PointInv, SkipInv, TypeInv, QueuesOK
  <2>3. Lsns(tasks', batchLSN)
    BY <2>2, <1>LsnsAppend, Zenon
  <2>4. PointInv'
    BY <2>1, <2>3, Zenon DEF LsnInv, PointInv
  <2>5. StreamInv'
    BY Zenon DEF LsnInv, StreamInv, AtLeast
  <2> QED
    BY <2>4, <2>5, Zenon

  (***************************************************************************)
  (* A row is acknowledged at the position of its batch.                     *)
  (***************************************************************************)
<1>ReadPoints. LsnInv /\ OnReadEvent => PointInv' /\ StreamInv'
  <2> SUFFICES ASSUME LsnInv, OnReadEvent PROVE PointInv' /\ StreamInv'
    BY Zenon
  <2> DEFINE lsn == Head(tasks).lsn
  <2>1. /\ tasks # <<>> /\ tasks' = Tail(tasks)
        /\ offsets' = [s \in DOMAIN offsets \cup {slot} |-> IF s = slot THEN Acknowledged(lsn) ELSE offsets[s]]
        /\ UNCHANGED <<commits, batchLSN, slots, slot, file, up, stream, worker>>
    BY Zenon DEF OnReadEvent, Running, server, channel
  <2>2. tasks \in Seq(TaskSet) /\ Lsns(tasks, batchLSN) /\ batchLSN \in Nat /\ Points(offsets, batchLSN)
    BY DEF LsnInv, PointInv, SkipInv, TypeInv, QueuesOK, StateOK
  <2>3. Lsns(tasks', batchLSN) /\ lsn \in 0..batchLSN
    BY <2>1, <2>2, <1>LsnsTail, Zenon
  <2>4. Acknowledged(lsn) \in 0..batchLSN
    BY <2>2, <2>3 DEF Acknowledged, AtLeast, Points
  <2>5. Points(offsets', batchLSN)
    BY <2>1, <2>2, <2>4, Zenon DEF Points
  <2>6. PointInv'
    BY <2>1, <2>3, <2>5, Zenon DEF LsnInv, PointInv
  <2>7. StreamInv'
    BY <2>1, Zenon DEF LsnInv, StreamInv, AtLeast
  <2> QED
    BY <2>6, <2>7, Zenon

  (***************************************************************************)
  (* A batch is read where the server is, which is never before the latest   *)
  (* batch.                                                                  *)
  (***************************************************************************)
<1>FetchPoints. ASSUME LsnInv, NEW p \in Partitions, UNCHANGED <<commits, slots, slot, offsets, file, up, stream, tasks>>,
                       NEW w, w.lsn = commits, worker' = [worker EXCEPT ![p] = w], batchLSN' = commits
                PROVE  PointInv' /\ StreamInv'
  <2> USE <1>FetchPoints
  <2>1. batchLSN \in Nat /\ commits \in Nat /\ batchLSN <= commits
    BY DEF LsnInv, PointInv, SkipInv, TypeInv, StateOK
  <2>2. \A n \in 0..batchLSN : n \in 0..commits
    BY <2>1
  <2>3. commits \in 0..commits
    BY <2>1
  <2>4. \A q \in Partitions : worker'[q].lsn \in 0..commits
    BY <2>2, <2>3, Zenon DEF LsnInv, SkipInv, TypeInv, WorkersOK, PointInv
  <2>5. Points(offsets, commits) /\ Points(file.offsets, commits) /\ Lsns(tasks, commits)
    BY <2>2, Zenon DEF LsnInv, PointInv, Points, Lsns
  <2>6. PointInv'
    BY <2>3, <2>4, <2>5, Zenon DEF LsnInv, PointInv
  <2>7. StreamInv'
    <3>1. up => slots[slot] \in Nat
      BY Zenon DEF LsnInv, StreamInv, PointInv
    <3> QED
      BY <2>1, <3>1 DEF LsnInv, StreamInv, AtLeast
  <2> QED
    BY <2>6, <2>7, Zenon

  (***************************************************************************)
  (* The steps of a worker.                                                  *)
  (***************************************************************************)
<1>WorkerPoints. ASSUME LsnInv, NEW p \in Partitions,
                        TakeSnapshot(p) \/ GetOrCreateContext(p) \/ StoreHighWatermark(p) \/ FetchBatch(p)
                          \/ EnqueueRow(p) \/ StoreLowWatermark(p) \/ EndBatch(p) \/ EndTransaction(p)
                 PROVE  PointInv' /\ StreamInv'
  <2> USE <1>WorkerPoints
  <2>1. /\ worker[p] \in WorkerStates /\ \A q \in Partitions : worker[q].lsn \in 0..batchLSN
        /\ worker = [q \in Partitions |-> worker[q]] /\ 0 \in 0..batchLSN /\ SkipInv
    BY WorkerHas DEF LsnInv, PointInv, SkipInv, TypeInv, StateOK, WorkersOK
  <2>2. CASE Fatal
    BY <2>2, <1>EndsPoints, Zenon DEF Fatal
  <2>3. ASSUME NEW w, w.lsn \in 0..batchLSN, worker' = [worker EXCEPT ![p] = w]
        PROVE  \A q \in Partitions : worker'[q].lsn \in 0..batchLSN
    BY <2>1, <2>3, Zenon
  <2>4. CASE TakeSnapshot(p)
    <3> DEFINE w == [Idle EXCEPT !.at = "begin", !.table = Head(queue[p]).table, !.next = Head(queue[p]).next]
    <3>1. w.lsn = 0
      BY Zenon DEF Idle
    <3>2. worker' = [worker EXCEPT ![p] = w] /\ UNCHANGED <<batchLSN, commits, slots, slot, offsets, file, up, stream, tasks>>
      BY <2>4, Zenon DEF TakeSnapshot, Goes, server, storage, channel, history
    <3> HIDE DEF w
    <3>3. \A q \in Partitions : worker'[q].lsn \in 0..batchLSN
      BY <2>1, <2>3, <3>1, <3>2, Zenon
    <3> QED
      BY <3>2, <3>3, <1>QuietPoints, Zenon
  <2>5. CASE GetOrCreateContext(p) /\ ~Fatal
    <3>1. /\ \E c : worker' = [worker EXCEPT ![p] = [worker[p] EXCEPT !.at = "create", !.local = c]]
          /\ UNCHANGED <<batchLSN, commits, slots, slot, offsets, file, up, stream, tasks>>
      BY <2>5, ZenonT(60) DEF GetOrCreateContext, Goes, server, storage, channel, history
    <3>2. PICK c : worker' = [worker EXCEPT ![p] = [worker[p] EXCEPT !.at = "create", !.local = c]]
      BY <3>1, Zenon
    <3>3. [worker[p] EXCEPT !.at = "create", !.local = c].lsn = worker[p].lsn
      BY <2>1, Zenon DEF WorkerStates
    <3>4. \A q \in Partitions : worker'[q].lsn \in 0..batchLSN
      BY <2>1, <2>3, <3>2, <3>3, ZenonT(60)
    <3> QED
      BY <3>1, <3>4, <1>QuietPoints, Zenon
  <2>6. CASE StoreHighWatermark(p) /\ ~Fatal
    <3>1. /\ worker' = [worker EXCEPT ![p] = [worker[p] EXCEPT !.at = "load"]]
          /\ UNCHANGED <<batchLSN, commits, slots, slot, offsets, file, up, stream, tasks>>
      BY <2>6, Zenon DEF StoreHighWatermark, Goes, server, storage, channel, history
    <3>2. [worker[p] EXCEPT !.at = "load"].lsn = worker[p].lsn
      BY <2>1, Zenon DEF WorkerStates
    <3>3. \A q \in Partitions : worker'[q].lsn \in 0..batchLSN
      BY <2>1, <2>3, <3>1, <3>2, Zenon
    <3> QED
      BY <3>1, <3>3, <1>QuietPoints, Zenon
  <2>7. CASE FetchBatch(p) /\ ~Fatal
    <3> DEFINE t == worker[p].table
               w == [worker[p] EXCEPT !.at = "rows", !.local = context, !.lsn = commits,
                                      !.batch = Batch(t, context[t].low, context[t].high)]
    <3>1. w.lsn = commits
      BY <2>1, Zenon DEF WorkerStates
    <3>2. /\ worker' = [worker EXCEPT ![p] = w] /\ batchLSN' = commits
          /\ UNCHANGED <<commits, slots, slot, offsets, file, up, stream, tasks>>
      BY <2>7, Zenon DEF FetchBatch, Goes, server, storage, channel
    <3> HIDE DEF w
    <3> QED
      BY <3>1, <3>2, <1>FetchPoints, Zenon
  <2>8. CASE EnqueueRow(p)
    <3> DEFINE t == worker[p].table
               b == worker[p].batch
               w == [worker[p] EXCEPT !.local[t] = SetLowWatermark(@, Key(t, Head(b))), !.batch = Tail(@)]
               x == ReadEvent(t, Head(b), worker[p].lsn)
    <3>1. w.lsn = worker[p].lsn
      BY <2>1, Zenon DEF WorkerStates
    <3>2. t \in Tables /\ b \in Seq(Nat) /\ b # <<>> /\ worker[p].lsn \in Nat
      BY <2>1, <2>8, WorkerHas, Zenon DEF EnqueueRow, At, WorkerOK, WorkerStates
    <3>3. Head(b) \in Nat
      BY <3>2, HeadTailProperties, Zenon
    <3>4. x \in TaskSet /\ x.lsn \in 0..batchLSN
      BY <2>1, <3>2, <3>3, TasksAre, Zenon DEF ReadEvent
    <3>5. /\ worker' = [worker EXCEPT ![p] = w] /\ tasks' = Append(tasks, x)
          /\ UNCHANGED <<batchLSN, commits, slots, slot, offsets, file, up, stream>>
      BY <2>8, Zenon DEF EnqueueRow, Goes, server, storage, channel, history
    <3> HIDE DEF w, x
    <3>6. \A q \in Partitions : worker'[q].lsn \in 0..batchLSN
      BY <2>1, <2>3, <3>1, <3>5, Zenon
    <3> QED
      BY <3>4, <3>5, <3>6, <1>QuietPoints, Zenon
  <2>9. CASE StoreLowWatermark(p)
    <3>1. /\ worker' = [worker EXCEPT ![p] = [worker[p] EXCEPT !.at = "check"]]
          /\ UNCHANGED <<batchLSN, commits, slots, slot, offsets, file, up, stream, tasks>>
      BY <2>9, Zenon DEF StoreLowWatermark, Goes, server, storage, channel, history
    <3>2. [worker[p] EXCEPT !.at = "check"].lsn = worker[p].lsn
      BY <2>1, Zenon DEF WorkerStates
    <3>3. \A q \in Partitions : worker'[q].lsn \in 0..batchLSN
      BY <2>1, <2>3, <3>1, <3>2, Zenon
    <3> QED
      BY <3>1, <3>3, <1>QuietPoints, Zenon
  <2>10. CASE EndBatch(p) /\ ~Fatal
    <3>1. worker[p].table \in Tables
      BY <2>1, <2>10, WorkerHas, Zenon DEF EndBatch, At, WorkerOK
    <3>2. Task("done", worker[p].table) \in TaskSet /\ Task("done", worker[p].table).lsn \in 0..batchLSN
      BY <2>1, <3>1, TasksAre, <1>NewTasks, Zenon
    <3>3. /\ \E place : worker' = [worker EXCEPT ![p] = [worker[p] EXCEPT !.at = place, !.local = context]]
          /\ tasks' = tasks \/ tasks' = Append(tasks, Task("done", worker[p].table))
          /\ UNCHANGED <<batchLSN, commits, slots, slot, offsets, file, up, stream>>
      BY <2>10, ZenonT(60) DEF EndBatch, Goes, server, storage, channel, history
    <3>4. PICK place : worker' = [worker EXCEPT ![p] = [worker[p] EXCEPT !.at = place, !.local = context]]
      BY <3>3, Zenon
    <3>5. [worker[p] EXCEPT !.at = place, !.local = context].lsn = worker[p].lsn
      BY <2>1, Zenon DEF WorkerStates
    <3>6. \A q \in Partitions : worker'[q].lsn \in 0..batchLSN
      BY <2>1, <2>3, <3>4, <3>5, Zenon
    <3> QED
      BY <3>2, <3>3, <3>6, <1>QuietPoints, Zenon
  <2>11. CASE EndTransaction(p)
    <3>1. worker' = [worker EXCEPT ![p] = Idle] /\ UNCHANGED <<batchLSN, commits, slots, slot, offsets, file, up, stream, tasks>>
      BY <2>11, Zenon DEF EndTransaction, Goes, server, storage, channel, history
    <3>2. Idle.lsn = 0
      BY Zenon DEF Idle
    <3>3. \A q \in Partitions : worker'[q].lsn \in 0..batchLSN
      BY <2>1, <2>3, <3>1, <3>2, Zenon
    <3> QED
      BY <3>1, <3>3, <1>QuietPoints, Zenon
  <2> QED
    BY <2>2, <2>4, <2>5, <2>6, <2>7, <2>8, <2>9, <2>10, <2>11, ZenonT(60)

<1> SUFFICES ASSUME LsnInv, [Next]_vars PROVE PointInv' /\ StreamInv'
  BY SkipStep, Zenon DEF LsnInv
<1> USE DEF server, storage, channel, history
<1>1. \A p \in Partitions : worker[p].lsn \in 0..batchLSN
  BY Zenon  DEF LsnInv, PointInv
<1>2. CASE UNCHANGED vars
  BY <1>1, <1>2, <1>QuietPoints, Zenon DEF vars
<1>3. CASE AwaitShutdown
  BY <1>1, <1>3, <1>QuietPoints, Zenon DEF AwaitShutdown
<1>4. CASE AutoStore
  BY <1>1, <1>4, <1>QuietPoints, Zenon DEF AutoStore, SaveState
<1>5. CASE Commit
  BY <1>1, <1>5, <1>QuietPoints, Zenon DEF Commit
<1>6. CASE StopReplication
  BY <1>6, <1>EndsPoints, Zenon DEF StopReplication, SaveState
<1>7. CASE Crash
  BY <1>7, <1>EndsPoints, Zenon DEF Crash
<1>8. CASE OnSnapshottingStarted
  BY <1>8, <1>TaskPoints, <1>NewTasks, Zenon DEF OnSnapshottingStarted, Running
<1>9. CASE OnTableSnapshotStarted
  BY <1>9, <1>TaskPoints, <1>NewTasks, Zenon DEF OnTableSnapshotStarted, Running
<1>10. CASE OnTableSnapshotFinished
  <2>1. \A q \in Partitions : worker'[q].lsn = worker[q].lsn
    <3>1. /\ worker' = [worker EXCEPT ![PartitionOf[Head(tasks).table]].at = "release"]
          /\ worker = [q \in Partitions |-> worker[q]] /\ \A q \in Partitions : worker[q] \in WorkerStates
      BY <1>10, Zenon DEF OnTableSnapshotFinished, LsnInv, SkipInv, TypeInv, WorkersOK, WorkerOK
    <3> QED
      BY <3>1, Zenon DEF WorkerStates
  <2> QED
    BY <1>10, <2>1, <1>TaskPoints, <1>NewTasks, Zenon DEF OnTableSnapshotFinished, Running
<1>11. CASE OnSnapshottingFinished
  BY <1>11, <1>TaskPoints, Zenon DEF OnSnapshottingFinished, Running, StartReplication
<1> QED
  BY <1>2, <1>3, <1>4, <1>5, <1>6, <1>7, <1>8, <1>9, <1>10, <1>11, <1>StartPoints, <1>ReadPoints, <1>WorkerPoints, Zenon DEF Next

(***************************************************************************)
(* Replication skips no change that was committed after the last batch of  *)
(* the snapshot was read.                                                  *)
(***************************************************************************)
THEOREM SkipsOnlySnapshot == Spec => []SkipsAtMostSnapshot
<1>1. Init => PointInv /\ StreamInv
  BY DEF Init, PointInv, StreamInv, Points, Lsns, Idle
<1>2. LsnInv => SkipsAtMostSnapshot
  <2> SUFFICES ASSUME LsnInv, stream # None PROVE stream <= AtLeast(slots[slot], batchLSN)
    BY Zenon DEF SkipsAtMostSnapshot
  <2>1. stream \in 0..AtLeast(slots[slot], batchLSN)
    BY Zenon  DEF LsnInv, StreamInv
  <2> QED
    BY <2>1
<1> QED
  BY <1>1, <1>2, InitCovers, LsnStep, PTL DEF Spec, LsnInv
===============================================================================
