------------------------- MODULE InitialSnapshotTurns -------------------------
(***************************************************************************)
(* One table has its turn at a time: the dispatcher's tasks, the queues of *)
(* the partitions and the workers are at the same table.  And what a step  *)
(* does to the rows that were handed on for a table.                       *)
(***************************************************************************)
EXTENDS InitialSnapshotProofs

-----------------------------------------------------------------------------
(* Turns: one table at a time.                                             *)

(***************************************************************************)
(* A sequence and one element more.                                        *)
(***************************************************************************)
LEMMA Appended ==
  ASSUME NEW S, NEW q \in Seq(S), NEW x \in S
  PROVE  /\ Append(q, x) \in Seq(S) /\ Append(q, x) # <<>>
         /\ Len(q) \in Nat /\ DOMAIN q = 1..Len(q)
         /\ Len(Append(q, x)) = Len(q) + 1 /\ DOMAIN Append(q, x) = 1..(Len(q) + 1)
         /\ \A i \in 1..Len(q) : Append(q, x)[i] = q[i]
         /\ Append(q, x)[Len(q) + 1] = x
BY AppendProperties, LenProperties

(***************************************************************************)
(* Its elements.                                                           *)
(***************************************************************************)
LEMMA AppendedEach ==
  ASSUME NEW S, NEW q \in Seq(S), NEW x \in S, NEW r, r = Append(q, x)
  PROVE  /\ \A i \in DOMAIN r : (i \in DOMAIN q /\ r[i] = q[i]) \/ (i = Len(r) /\ r[i] = x)
         /\ Len(r) = Len(q) + 1 /\ Len(r) \in DOMAIN r /\ r[Len(r)] = x
         /\ \A i \in DOMAIN q : i \in DOMAIN r /\ r[i] = q[i]
         /\ Len(q) \in Nat /\ DOMAIN q = 1..Len(q)
<1>1. /\ Len(q) \in Nat /\ DOMAIN q = 1..Len(q) /\ Len(r) = Len(q) + 1 /\ DOMAIN r = 1..(Len(q) + 1)
      /\ \A i \in 1..Len(q) : r[i] = q[i]
      /\ r[Len(q) + 1] = x
  BY Appended
<1>2. \A i \in 1..(Len(q) + 1) : i \in 1..Len(q) \/ i = Len(q) + 1
  BY <1>1
<1>3. Len(q) + 1 \in 1..(Len(q) + 1) /\ \A i \in 1..Len(q) : i \in 1..(Len(q) + 1)
  BY <1>1
<1> QED
  BY <1>1, <1>2, <1>3, Zenon

(***************************************************************************)
(* A sequence without its first element.                                   *)
(***************************************************************************)
LEMMA Taken ==
  ASSUME NEW S, NEW q \in Seq(S), q # <<>>
  PROVE  /\ Head(q) \in S /\ Tail(q) \in Seq(S) /\ Head(q) = q[1]
         /\ Len(q) \in Nat /\ Len(q) >= 1 /\ DOMAIN q = 1..Len(q) /\ 1 \in DOMAIN q
         /\ Len(Tail(q)) = Len(q) - 1 /\ DOMAIN Tail(q) = 1..(Len(q) - 1)
         /\ \A i \in 1..(Len(q) - 1) : Tail(q)[i] = q[i + 1] /\ i + 1 \in DOMAIN q
<1>1. /\ Head(q) \in S /\ Tail(q) \in Seq(S) /\ Head(q) = q[1] /\ Len(q) \in Nat /\ Len(q) # 0
      /\ DOMAIN q = 1..Len(q) /\ Len(Tail(q)) = Len(q) - 1 /\ DOMAIN Tail(q) = 1..(Len(q) - 1)
      /\ \A i \in 1..(Len(q) - 1) : Tail(q)[i] = q[i + 1]
  BY HeadTailProperties, LenProperties, EmptySeq
<1> QED
  BY <1>1

(***************************************************************************)
(* A sequence of one element.                                              *)
(***************************************************************************)
LEMMA Single ==
  ASSUME NEW S, NEW q \in Seq(S), Len(q) = 1
  PROVE  q # <<>> /\ Tail(q) = <<>> /\ DOMAIN q = {1} /\ Head(q) = q[1]
<1>1. q # <<>>
  BY EmptySeq
<1>2. Tail(q) \in Seq(S) /\ Len(Tail(q)) = 0 /\ DOMAIN q = 1..1 /\ Head(q) = q[1]
  BY <1>1, Taken
<1>3. Tail(q) = <<>>
  BY <1>2, EmptySeq, Zenon
<1>4. 1..1 = {1}
  OBVIOUS
<1> QED
  BY <1>1, <1>2, <1>3, <1>4, Zenon

(***************************************************************************)
(* The one element of a sequence made of it.                               *)
(***************************************************************************)
LEMMA One ==
  ASSUME NEW S, NEW x \in S
  PROVE  /\ Append(<<>>, x) \in Seq(S) /\ Append(<<>>, x) # <<>> /\ Len(Append(<<>>, x)) = 1
         /\ DOMAIN Append(<<>>, x) = {1} /\ Append(<<>>, x)[1] = x /\ Head(Append(<<>>, x)) = x
<1>1. <<>> \in Seq(S) /\ Len(<<>>) = 0
  OBVIOUS
<1>2. /\ Append(<<>>, x) \in Seq(S) /\ Append(<<>>, x) # <<>> /\ Len(Append(<<>>, x)) = 1
      /\ DOMAIN Append(<<>>, x) = 1..1 /\ Append(<<>>, x)[1] = x
  BY <1>1, Appended
<1> QED
  BY <1>2, Single, Zenon

(***************************************************************************)
(* The workers after a step of one of them.                                *)
(***************************************************************************)
LEMMA WorkersAfter ==
  ASSUME SkipInv, NEW p \in Partitions, NEW w, worker' = [worker EXCEPT ![p] = w]
  PROVE  worker'[p] = w /\ \A q \in Partitions : q # p => worker'[q] = worker[q]
BY Zenon DEF SkipInv, TypeInv, WorkersOK

(***************************************************************************)
(* The types of what is queued.                                            *)
(***************************************************************************)
LEMMA QueuedTypes ==
  ASSUME SkipInv
  PROVE  /\ tasks \in Seq(TaskSet) /\ queue \in [Partitions -> Seq(Entries)]
         /\ \A i \in DOMAIN tasks : /\ tasks[i] \in TaskSet
                                    /\ tasks[i].kind \in {"table", "row", "done"} => tasks[i].table \in Tables
                                    /\ tasks[i].kind \in {"started", "finished"} => tasks[i].table = None
                                    /\ tasks[i].kind \in {"table", "row", "done", "started", "finished"}
         /\ \A t \in Tables : PartitionOf[t] \in Partitions
<1>1. tasks \in Seq(TaskSet) /\ queue \in [Partitions -> Seq(Entries)]
  BY Zenon DEF SkipInv, TypeInv, QueuesOK
<1>2. \A i \in DOMAIN tasks : tasks[i] \in TaskSet
  BY <1>1, ElementOfSeq, LenProperties, Zenon
<1>3. \A x \in TaskSet : /\ x.kind \in {"table", "row", "done"} => x.table \in Tables
                         /\ x.kind \in {"started", "finished"} => x.table = None
                         /\ x.kind \in {"table", "row", "done", "started", "finished"}
  BY Zenon DEF TaskSet
<1> QED
  BY <1>1, <1>2, <1>3, ConfigsAssumption, Zenon

(***************************************************************************)
(* When the handler takes one of its own tasks, nobody has a table and     *)
(* nothing else is queued.                                                 *)
(***************************************************************************)
LEMMA HandlerAlone ==
  ASSUME SkipInv, TurnInv, tasks # <<>>, Head(tasks).kind # "row"
  PROVE  /\ Len(tasks) = 1 /\ Tail(tasks) = <<>> /\ DOMAIN tasks = {1} /\ Head(tasks) = tasks[1]
         /\ ~finished /\ \A p \in Partitions : ~Busy(p) /\ queue[p] = <<>>
         /\ Head(tasks).kind # "done" => Untouched(Tables \ handled)
         /\ Head(tasks).kind = "table" => Head(tasks).table \notin handled
         /\ Head(tasks).kind = "finished" => Tables \subseteq handled
         /\ Head(tasks).kind = "done" => /\ Turn(Head(tasks).table)
                                         /\ worker[PartitionOf[Head(tasks).table]].at = "wait"
<1>1. tasks \in Seq(TaskSet) /\ \A i \in DOMAIN tasks : tasks[i].kind \in {"table", "row", "done", "started", "finished"}
  BY QueuedTypes, Zenon
<1>2. 1 \in DOMAIN tasks /\ Head(tasks) = tasks[1]
  BY <1>1, Taken, Zenon
<1>3. Len(tasks) = 1
  BY <1>2, ZenonT(60) DEF TurnInv, TaskTurns
<1>4. Tail(tasks) = <<>> /\ DOMAIN tasks = {1}
  BY <1>1, <1>3, Single, Zenon
<1>5. ~finished
  BY Zenon DEF TurnInv, EndTurns
<1>6. \A p \in Partitions : ~Busy(p) /\ queue[p] = <<>>
  BY <1>2 DEF TurnInv, WorkerTurns, OnlyRows
<1> QED
  BY <1>1, <1>2, <1>3, <1>4, <1>5, <1>6 DEF TurnInv, TaskTurns

-----------------------------------------------------------------------------
(* What the steps do, as far as turns, rows and contexts are concerned.    *)

(***************************************************************************)
(* The end of the program.                                                 *)
(***************************************************************************)
LEMMA EndsDoes ==
  ASSUME Ends
  PROVE  /\ ~up' /\ tasks' = <<>> /\ handled' = {} /\ ~finished' /\ context' = None
         /\ \A p \in Partitions : queue'[p] = <<>> /\ worker'[p] = Idle
         /\ UNCHANGED <<config, out, emitted, fresh>>
         /\ \A t \in Tables : dropped'[t] = dropped[t] \cup QueuedRows(tasks, t)
BY Zenon DEF Ends

(***************************************************************************)
(* A start.                                                                *)
(***************************************************************************)
LEMMA StartDoes ==
  ASSUME SkipInv, TurnInv, StartReplicationChannel
  PROVE  /\ ~up /\ up' /\ tasks = <<>> /\ context' = file.context
         /\ tasks' = <<Task("started", None)>> \/ tasks' = <<>>
         /\ fresh' => file.context = None
         /\ \A t \in Tables : out'[t] = <<>>
         /\ out' \in [Tables -> Seq(Nat)]
         /\ handled = {} /\ ~finished /\ \A p \in Partitions : queue[p] = <<>> /\ worker[p] = Idle
         /\ UNCHANGED <<config, file, queue, worker, handled, finished, emitted, dropped>>
<1>1. /\ ~up /\ up' /\ context' = file.context /\ out' = [t \in Tables |-> <<>>]
      /\ tasks' = <<Task("started", None)>> \/ tasks' = tasks
      /\ fresh' => file.context = None
      /\ UNCHANGED <<config, file, queue, worker, handled, finished, emitted, dropped>>
  BY Zenon DEF StartReplicationChannel, LoadState
<1>2. tasks = <<>> /\ handled = {} /\ ~finished /\ \A p \in Partitions : queue[p] = <<>> /\ worker[p] = Idle
  BY <1>1, Zenon DEF TurnInv, EndTurns
<1>3. <<>> \in Seq(Nat)
  OBVIOUS
<1> QED
  BY <1>1, <1>2, <1>3, Zenon

(***************************************************************************)
(* The tasks of the handler for what is to be done next.                   *)
(***************************************************************************)
LEMMA NextIs ==
  ASSUME NEW done, NEW x \in NextTask(Unhandled(done))
  PROVE  /\ x \in TaskSet
         /\ \/ x.kind = "table" /\ x.table \in Tables /\ x.table \notin done
            \/ x.kind = "finished" /\ x.table = None /\ Tables \subseteq done
<1>1. x \in TaskSet
  BY TasksAre, Zenon
<1>2. /\ \A t \in Unhandled(done) : t \in Tables /\ t \notin done
      /\ Unhandled(done) = {} => Tables \subseteq done
  BY Zenon  DEF Unhandled, FirstOf, Tables
<1> QED
  BY <1>1, <1>2 DEF NextTask, Task

(***************************************************************************)
(* The handler takes a task of its own and queues another, or none.        *)
(***************************************************************************)
LEMMA HandlerDoes ==
  ASSUME SkipInv, TurnInv, OnSnapshottingStarted \/ OnTableSnapshotStarted \/ OnSnapshottingFinished
  PROVE  /\ up /\ tasks # <<>> /\ Head(tasks).kind \in {"started", "table", "finished"}
         /\ UNCHANGED <<config, up, context, file, worker, handled, out, emitted, dropped, fresh>>
         /\ \/ /\ tasks' = <<>> /\ UNCHANGED queue
               /\ UNCHANGED finished \/ (finished' /\ Tables \subseteq handled)
            \/ /\ UNCHANGED <<queue, finished>>
               /\ \E x \in NextTask(Unhandled(handled)) : tasks' = Append(<<>>, x)
            \/ /\ tasks' = <<>> /\ UNCHANGED finished /\ Head(tasks).kind = "table"
               /\ SnapshotBaseTable(Head(tasks).table)
<1> USE DEF Running, server, storage, channel, history
<1>1. CASE OnSnapshottingStarted
  <2>1. tasks # <<>> /\ Head(tasks).kind = "started"
    BY <1>1, Zenon DEF OnSnapshottingStarted
  <2>2. Tail(tasks) = <<>>
    BY <2>1, HandlerAlone, Zenon
  <2>3. \A i \in DOMAIN tasks : tasks[i].kind = "started" => handled = {}
    BY Zenon DEF TurnInv, TaskTurns
  <2> QED
    BY <1>1, <2>1, <2>2, <2>3, HandlerAlone, Zenon DEF OnSnapshottingStarted
<1>2. CASE OnTableSnapshotStarted
  <2>1. tasks # <<>> /\ Head(tasks).kind = "table"
    BY <1>2, Zenon DEF OnTableSnapshotStarted
  <2>2. Tail(tasks) = <<>>
    BY <2>1, HandlerAlone, Zenon
  <2> QED
    BY <1>2, <2>1, <2>2, Zenon DEF OnTableSnapshotStarted
<1>3. CASE OnSnapshottingFinished
  <2>1. tasks # <<>> /\ Head(tasks).kind = "finished"
    BY <1>3, Zenon DEF OnSnapshottingFinished
  <2>2. Tail(tasks) = <<>> /\ Tables \subseteq handled
    BY <2>1, HandlerAlone, Zenon
  <2> QED
    BY <1>3, <2>1, <2>2, Zenon DEF OnSnapshottingFinished
<1> QED
  BY <1>1, <1>2, <1>3, Zenon

(***************************************************************************)
(* A table is finished: its worker goes on, and the next table is queued.  *)
(***************************************************************************)
LEMMA DoneDoes ==
  ASSUME SkipInv, TurnInv, OnTableSnapshotFinished, NEW t, t = Head(tasks).table
  PROVE  /\ up /\ tasks # <<>> /\ Head(tasks).kind = "done"
         /\ t \in Tables /\ PartitionOf[t] \in Partitions
         /\ UNCHANGED <<config, up, file, queue, finished, out, emitted, dropped, fresh>>
         /\ worker' = [worker EXCEPT ![PartitionOf[t]] = [worker[PartitionOf[t]] EXCEPT !.at = "release"]]
         /\ \/ tasks' = <<>> /\ UNCHANGED <<context, handled>>
            \/ /\ Readable /\ handled' = handled \cup {t} /\ context' = MarkedComplete(context, t)
               /\ \E x \in NextTask(Unhandled(handled')) : tasks' = Append(<<>>, x)
<1> USE DEF Running, server, storage, channel, history
<1>1. tasks # <<>> /\ Head(tasks).kind = "done"
  BY Zenon DEF OnTableSnapshotFinished
<1>2. Tail(tasks) = <<>> /\ 1 \in DOMAIN tasks /\ Head(tasks) = tasks[1]
  BY <1>1, HandlerAlone, Zenon
<1>3. t \in Tables /\ PartitionOf[t] \in Partitions
  BY <1>1, <1>2, QueuedTypes, Zenon
<1>4. worker' = [worker EXCEPT ![PartitionOf[t]] = [worker[PartitionOf[t]] EXCEPT !.at = "release"]]
  BY Zenon  DEF OnTableSnapshotFinished
<1> QED
  BY <1>1, <1>2, <1>3, <1>4, Zenon DEF OnTableSnapshotFinished

(***************************************************************************)
(* A row is emitted.                                                       *)
(***************************************************************************)
LEMMA ReadDoes ==
  ASSUME SkipInv, TurnInv, OnReadEvent, NEW e, e = Head(tasks)
  PROVE  /\ up /\ tasks # <<>> /\ e.kind = "row" /\ e.table \in Tables /\ e.row \in Nat
         /\ tasks' = Tail(tasks) /\ ~finished
         /\ out' = [out EXCEPT ![e.table] = Append(@, e.row)] /\ out' \in [Tables -> Seq(Nat)]
         /\ emitted' = [emitted EXCEPT ![e.table] = @ \cup {e.row}]
         /\ UNCHANGED <<config, up, context, file, queue, worker, handled, finished, dropped, fresh>>
<1>1. /\ up /\ tasks # <<>> /\ e.kind = "row" /\ tasks' = Tail(tasks)
      /\ out' = [out EXCEPT ![e.table] = Append(@, e.row)]
      /\ emitted' = [emitted EXCEPT ![e.table] = @ \cup {e.row}]
      /\ UNCHANGED <<config, up, context, file, queue, worker, handled, finished, dropped, fresh>>
  BY Zenon  DEF OnReadEvent, Running, server
<1>2. e \in TaskSet
  BY <1>1, QueuedTypes, Taken, Zenon
<1>3. e.table \in Tables /\ e.row \in Nat
  BY <1>1, <1>2, Zenon DEF TaskSet
<1>4. out \in [Tables -> Seq(Nat)] /\ ~finished
  BY <1>1, Zenon DEF TurnInv, EndTurns
<1>5. Append(out[e.table], e.row) \in Seq(Nat)
  BY <1>3, <1>4, AppendProperties, Zenon
<1> QED
  BY <1>1, <1>3, <1>4, <1>5, Zenon

(***************************************************************************)
(* What a worker that has a table has.                                     *)
(***************************************************************************)
LEMMA BusyHas ==
  ASSUME SkipInv, TurnInv, NEW p \in Partitions, Busy(p)
  PROVE  /\ worker[p].table \in Tables /\ PartitionOf[worker[p].table] = p
         /\ worker[p] \in WorkerStates /\ WorkerOK(worker[p])
         /\ OnlyRows /\ ~finished /\ Turn(worker[p].table) /\ queue[p] = <<>>
         /\ \A q \in Partitions : q # p => ~Busy(q) /\ queue[q] = <<>>
<1>1. worker[p] \in WorkerStates /\ WorkerOK(worker[p])
  BY WorkerHas, Zenon
<1>2. worker[p].table \in Tables
  BY <1>1, Zenon DEF Busy, WorkerOK
<1> QED
  BY <1>1, <1>2, Zenon DEF TurnInv, WorkerTurns

(* A step of one worker that leaves these alone. *)
OneWorker(p, w) ==
  /\ up /\ worker' = [worker EXCEPT ![p] = w]
  /\ UNCHANGED <<config, up, file, handled, finished, out, emitted, dropped, fresh>>

(***************************************************************************)
(* The steps of a worker.                                                  *)
(***************************************************************************)
LEMMA TakeDoes ==
  ASSUME NEW p \in Partitions, TakeSnapshot(p)
  PROVE  /\ OneWorker(p, [Idle EXCEPT !.at = "begin", !.table = Head(queue[p]).table,
                                      !.next = Head(queue[p]).next])
         /\ worker[p].at = "idle" /\ queue[p] # <<>> /\ queue' = [queue EXCEPT ![p] = Tail(@)]
         /\ UNCHANGED <<tasks, context>>
BY Zenon DEF TakeSnapshot, OneWorker, At, Goes, server, storage, history

(***************************************************************************)
(* The context is read, or made.                                           *)
(***************************************************************************)
LEMMA ContextDoes ==
  ASSUME NEW p \in Partitions, GetOrCreateContext(p), ~Fatal
  PROVE  /\ OneWorker(p, [worker[p] EXCEPT !.at = "create", !.local = context'])
         /\ worker[p].at = "begin" /\ context' = IF context = None THEN EmptyContext ELSE context
         /\ UNCHANGED <<tasks, queue>>
BY Zenon DEF GetOrCreateContext, OneWorker, At, Goes, server, storage, history

(***************************************************************************)
(* The high watermark is stored.                                           *)
(***************************************************************************)
LEMMA HighDoes ==
  ASSUME NEW p \in Partitions, StoreHighWatermark(p), ~Fatal
  PROVE  /\ OneWorker(p, [worker[p] EXCEPT !.at = "load"])
         /\ worker[p].at = "create"
         /\ context' = WithHigh(worker[p].local, worker[p].table, worker[p].next)
         /\ UNCHANGED <<tasks, queue>>
BY Zenon DEF StoreHighWatermark, OneWorker, At, Goes, server, storage, history

(***************************************************************************)
(* A batch is read.                                                        *)
(***************************************************************************)
LEMMA FetchDoes ==
  ASSUME NEW p \in Partitions, FetchBatch(p), ~Fatal, NEW t, t = worker[p].table
  PROVE  /\ OneWorker(p, [worker[p] EXCEPT !.at = "rows", !.local = context, !.lsn = commits,
                                           !.batch = Batch(t, context[t].low, context[t].high)])
         /\ worker[p].at = "load" /\ context # None /\ Decodes(context) /\ context[t] # None
         /\ UNCHANGED <<tasks, queue, context>>
BY Zenon DEF FetchBatch, OneWorker, At, Goes, Readable, server, storage

(***************************************************************************)
(* A row is handed on.                                                     *)
(***************************************************************************)
LEMMA RowDoes ==
  ASSUME NEW p \in Partitions, EnqueueRow(p), NEW t, t = worker[p].table
  PROVE  /\ OneWorker(p, [worker[p] EXCEPT !.local[t] = SetLowWatermark(@, Key(t, Head(worker[p].batch))),
                                           !.batch = Tail(@)])
         /\ worker[p].at = "rows" /\ worker[p].batch # <<>>
         /\ tasks' = Append(tasks, ReadEvent(t, Head(worker[p].batch), worker[p].lsn))
         /\ UNCHANGED <<queue, context>>
BY Zenon DEF EnqueueRow, OneWorker, At, Goes, server, storage, history

(***************************************************************************)
(* The low watermark is stored.                                            *)
(***************************************************************************)
LEMMA LowDoes ==
  ASSUME NEW p \in Partitions, StoreLowWatermark(p)
  PROVE  /\ OneWorker(p, [worker[p] EXCEPT !.at = "check"])
         /\ worker[p].at = "rows" /\ context' = worker[p].local
         /\ UNCHANGED <<tasks, queue>>
BY Zenon DEF StoreLowWatermark, OneWorker, At, Goes, server, storage, history

(***************************************************************************)
(* The end of a batch.                                                     *)
(***************************************************************************)
LEMMA CheckDoes ==
  ASSUME NEW p \in Partitions, EndBatch(p), ~Fatal, NEW t, t = worker[p].table
  PROVE  /\ worker[p].at = "check" /\ context # None /\ context[t] # None /\ UNCHANGED context
         /\ \/ /\ OneWorker(p, [worker[p] EXCEPT !.at = "wait", !.local = context])
               /\ context[t].complete /\ tasks' = Append(tasks, Task("done", t)) /\ UNCHANGED queue
            \/ /\ OneWorker(p, [worker[p] EXCEPT !.at = "release", !.local = context])
               /\ queue' = [queue EXCEPT ![p] = Append(@, [table |-> t, next |-> TRUE])] /\ UNCHANGED tasks
BY ZenonT(60) DEF EndBatch, OneWorker, At, Goes, Readable, server, storage, history

(***************************************************************************)
(* The end of a transaction.                                               *)
(***************************************************************************)
LEMMA ReleaseDoes ==
  ASSUME NEW p \in Partitions, EndTransaction(p)
  PROVE  /\ OneWorker(p, Idle) /\ worker[p].at = "release" /\ context' = worker[p].local
         /\ UNCHANGED <<tasks, queue>>
BY Zenon DEF EndTransaction, OneWorker, At, Goes, server, storage, history

-----------------------------------------------------------------------------
(***************************************************************************)
(* Every step keeps the turns.                                             *)
(***************************************************************************)
LEMMA TurnStep == SkipInv /\ TurnInv /\ [Next]_vars => TurnInv'
  (***************************************************************************)
  (* A table has its turn with its worker, who has it or will take it.       *)
  (***************************************************************************)
<1>TurnOf. ASSUME NEW t \in Tables, PartitionOf[t] \in Partitions, up', ~finished', Turn(t)', OnlyRows',
                  out' \in [Tables -> Seq(Nat)], handled' \subseteq Tables,
                  \A q \in Partitions : q # PartitionOf[t] => ~Busy(q)' /\ queue'[q] = <<>>,
                  \/ Busy(PartitionOf[t])' /\ worker'[PartitionOf[t]].table = t /\ queue'[PartitionOf[t]] = <<>>
                  \/ /\ ~Busy(PartitionOf[t])'
                     /\ Len(queue'[PartitionOf[t]]) = 1 /\ Head(queue'[PartitionOf[t]]).table = t
           PROVE  TurnInv'
  <2> USE <1>TurnOf
  <2>1. TaskTurns'
    BY Zenon  DEF TaskTurns, OnlyRows, Turn
  <2>2. WorkerTurns'
    BY Zenon  DEF WorkerTurns
  <2>3. EndTurns'
    BY Zenon  DEF EndTurns
  <2> QED
    BY <2>1, <2>2, <2>3, Zenon DEF TurnInv

  (***************************************************************************)
  (* Nobody has a table; the one task there is, if any, is of the handler.   *)
  (***************************************************************************)
<1>HandlerTurn. ASSUME up', out' \in [Tables -> Seq(Nat)], handled' \subseteq Tables,
                       \A q \in Partitions : ~Busy(q)' /\ queue'[q] = <<>>,
                       \/ tasks' = <<>> /\ (finished' => Tables \subseteq handled')
                       \/ /\ ~finished' /\ Len(tasks') = 1 /\ DOMAIN tasks' = {1} /\ Untouched(Tables \ handled)'
                          /\ \/ tasks'[1].kind = "started" /\ handled' = {}
                             \/ tasks'[1].kind = "table" /\ tasks'[1].table \notin handled'
                             \/ tasks'[1].kind = "finished" /\ Tables \subseteq handled'
                PROVE  TurnInv'
  <2> USE <1>HandlerTurn
  <2>1. TaskTurns'
    <3>1. CASE tasks' = <<>>
      BY <3>1, SMTT(30) DEF TaskTurns
    <3>2. CASE tasks' # <<>>
      BY <3>2, Zenon DEF TaskTurns
    <3> QED
      BY <3>1, <3>2, Zenon
  <2>2. WorkerTurns'
    BY Zenon DEF WorkerTurns
  <2>3. EndTurns'
    BY Zenon DEF EndTurns
  <2> QED
    BY <2>1, <2>2, <2>3, Zenon DEF TurnInv

  (***************************************************************************)
  (* Steps that change none of the queues, workers and rows.                 *)
  (***************************************************************************)
<1>TurnsRest. ASSUME TurnInv, UNCHANGED <<up, tasks, queue, worker, handled, finished, out>>
              PROVE  TurnInv'
  <2> USE <1>TurnsRest
  <2>1. TaskTurns'
    BY DEF TurnInv, TaskTurns, Turn, Untouched
  <2>2. WorkerTurns'
    BY DEF TurnInv, WorkerTurns, Turn, Busy, OnlyRows, Untouched
  <2>3. EndTurns'
    BY Zenon DEF TurnInv, EndTurns
  <2> QED
    BY <2>1, <2>2, <2>3, Zenon DEF TurnInv

  (***************************************************************************)
  (* Nothing has its turn when the program has ended.                        *)
  (***************************************************************************)
<1>EndsTurns. ASSUME TurnInv, Ends
              PROVE  TurnInv'
  <2> USE <1>EndsTurns
  <2>1. /\ ~up' /\ tasks' = <<>> /\ handled' = {} /\ ~finished' /\ out' = out
        /\ \A p \in Partitions : queue'[p] = <<>> /\ worker'[p] = Idle
    BY EndsDoes, Zenon
  <2>2. \A p \in Partitions : ~Busy(p)'
    BY <2>1 DEF Busy, Idle
  <2>3. TaskTurns'
    BY <2>1 DEF TaskTurns
  <2>4. WorkerTurns'
    BY <2>1, <2>2, Zenon DEF WorkerTurns
  <2>5. EndTurns'
    BY <2>1, Zenon DEF EndTurns, TurnInv
  <2> QED
    BY <2>3, <2>4, <2>5, Zenon DEF TurnInv

  (***************************************************************************)
  (* A start.                                                                *)
  (***************************************************************************)
<1>StartTurns. ASSUME SkipInv, TurnInv, StartReplicationChannel
               PROVE  TurnInv'
  <2> USE <1>StartTurns
  <2>1. /\ up' /\ out' \in [Tables -> Seq(Nat)] /\ handled' = {} /\ ~finished'
        /\ \A t \in Tables : out'[t] = <<>>
        /\ \A p \in Partitions : queue'[p] = <<>> /\ worker'[p] = Idle
        /\ tasks' = <<Task("started", None)>> \/ tasks' = <<>>
    BY StartDoes
  <2>2. \A p \in Partitions : ~Busy(p)' /\ queue'[p] = <<>>
    BY <2>1 DEF Busy, Idle
  <2>3. Untouched(Tables \ handled)'
    BY <2>1, Zenon DEF Untouched
  <2>4. CASE tasks' = <<Task("started", None)>>
    <3>1. Len(tasks') = 1 /\ DOMAIN tasks' = {1} /\ tasks'[1].kind = "started"
      BY <2>4, SMTT(30) DEF Task
    <3> QED
      BY <2>1, <2>2, <2>3, <3>1, <1>HandlerTurn, Zenon
  <2>5. CASE tasks' = <<>>
    BY <2>1, <2>2, <2>5, <1>HandlerTurn, Zenon
  <2> QED
    BY <2>1, <2>4, <2>5, Zenon

  (***************************************************************************)
  (* The handler goes on to the next table, or gives one to its worker.      *)
  (***************************************************************************)
<1>HandlerTurns. ASSUME SkipInv, TurnInv, OnSnapshottingStarted \/ OnTableSnapshotStarted \/ OnSnapshottingFinished
                 PROVE  TurnInv'
  <2> USE <1>HandlerTurns
  <2> PICK t : t = Head(tasks).table
    BY Zenon
  <2>1. /\ up /\ tasks # <<>> /\ Head(tasks).kind \in {"started", "table", "finished"}
        /\ UNCHANGED <<config, up, context, file, worker, handled, out, emitted, dropped, fresh>>
    BY HandlerDoes, Zenon
  <2>2. /\ ~finished /\ \A p \in Partitions : ~Busy(p) /\ queue[p] = <<>>
        /\ Untouched(Tables \ handled) /\ 1 \in DOMAIN tasks /\ Head(tasks) = tasks[1]
        /\ Head(tasks).kind = "table" => t \notin handled
    BY <2>1, HandlerAlone, Zenon
  <2>3. /\ \A p \in Partitions : ~Busy(p)' 
        /\ Untouched(Tables \ handled)' /\ out' \in [Tables -> Seq(Nat)] /\ handled' \subseteq Tables
    BY <2>1, <2>2, Zenon DEF Busy, Untouched, TurnInv, EndTurns
  <2>4. CASE /\ tasks' = <<>> /\ UNCHANGED queue
             /\ UNCHANGED finished \/ (finished' /\ Tables \subseteq handled)
    BY <2>1, <2>2, <2>3, <2>4, <1>HandlerTurn, SMTT(30)
  <2>5. CASE /\ UNCHANGED <<queue, finished>>
             /\ \E x \in NextTask(Unhandled(handled)) : tasks' = Append(<<>>, x)
    <3> PICK x \in NextTask(Unhandled(handled)) : tasks' = Append(<<>>, x)
      BY <2>5, Zenon
    <3>1. /\ x \in TaskSet
          /\ \/ x.kind = "table" /\ x.table \notin handled
             \/ x.kind = "finished" /\ Tables \subseteq handled
      BY NextIs, Zenon
    <3>2. Len(tasks') = 1 /\ DOMAIN tasks' = {1} /\ tasks'[1] = x
      BY <3>1, One, Zenon
    <3> QED
      BY <2>1, <2>2, <2>3, <2>5, <3>1, <3>2, <1>HandlerTurn, Zenon
  <2>6. CASE tasks' = <<>> /\ UNCHANGED finished /\ Head(tasks).kind = "table" /\ SnapshotBaseTable(t)
    <3> DEFINE entry == [table |-> t, next |-> FALSE]
               p == PartitionOf[t]
    <3>1. t \in Tables /\ p \in Partitions /\ queue \in [Partitions -> Seq(Entries)]
      BY <2>2, <2>6, QueuedTypes, Zenon
    <3>2. entry \in Entries
      BY <3>1, Zenon DEF Entries
    <3>3. queue'[p] = Append(<<>>, entry) /\ \A q \in Partitions : q # p => queue'[q] = <<>>
      BY <2>2, <2>6, <3>1, Zenon DEF SnapshotBaseTable
    <3>4. Len(queue'[p]) = 1 /\ Head(queue'[p]).table = t
      <4>1. Len(Append(<<>>, entry)) = 1 /\ Head(Append(<<>>, entry)) = entry
        BY <3>2, One, Zenon
      <4> QED
        BY <3>3, <4>1
    <3>5. Turn(t)' /\ OnlyRows'
      BY <2>1, <2>2, <2>3, <2>6, SMTT(30) DEF Turn, OnlyRows, Untouched
    <3> QED
      BY <2>1, <2>2, <2>3, <2>6, <3>1, <3>3, <3>4, <3>5, <1>TurnOf, ZenonT(60)
  <2> QED
    BY <2>4, <2>5, <2>6, HandlerDoes, Zenon

  (***************************************************************************)
  (* A table is finished.                                                    *)
  (***************************************************************************)
<1>DoneTurns. ASSUME SkipInv, TurnInv, OnTableSnapshotFinished
              PROVE  TurnInv'
  <2> USE <1>DoneTurns
  <2> DEFINE t == Head(tasks).table
             p == PartitionOf[t]
             w == [worker[p] EXCEPT !.at = "release"]
  <2>1. /\ up /\ tasks # <<>> /\ Head(tasks).kind = "done" /\ t \in Tables /\ p \in Partitions
        /\ UNCHANGED <<up, queue, finished, out>> /\ worker' = [worker EXCEPT ![p] = w]
        /\ \/ tasks' = <<>> /\ UNCHANGED handled
           \/ /\ handled' = handled \cup {t}
              /\ \E x \in NextTask(Unhandled(handled')) : tasks' = Append(<<>>, x)
    BY DoneDoes, Zenon
  <2>2. ~finished /\ Turn(t) /\ \A q \in Partitions : ~Busy(q) /\ queue[q] = <<>>
    BY <2>1, HandlerAlone, Zenon
  <2>3. w.at = "release"
    BY <2>1, WorkerHas, Zenon DEF WorkerStates
  <2> HIDE DEF w
  <2>4. worker'[p] = w /\ \A q \in Partitions : q # p => worker'[q] = worker[q]
    BY <2>1, WorkersAfter, ZenonT(60)
  <2>5. \A q \in Partitions : ~Busy(q)'
    BY <2>1, <2>2, <2>3, <2>4, ZenonT(60) DEF Busy
  <2>6. out' \in [Tables -> Seq(Nat)] /\ handled' \subseteq Tables
    BY <2>1, Zenon DEF TurnInv, EndTurns
  <2>7. CASE tasks' = <<>> /\ UNCHANGED handled
    BY <2>1, <2>2, <2>5, <2>6, <2>7, <1>HandlerTurn, Zenon
  <2>8. CASE /\ handled' = handled \cup {t}
             /\ \E x \in NextTask(Unhandled(handled')) : tasks' = Append(<<>>, x)
    <3> PICK x \in NextTask(Unhandled(handled')) : tasks' = Append(<<>>, x)
      BY <2>8, Zenon
    <3>1. /\ x \in TaskSet
          /\ \/ x.kind = "table" /\ x.table \notin handled'
             \/ x.kind = "finished" /\ Tables \subseteq handled'
      BY NextIs, Zenon
    <3>2. Len(tasks') = 1 /\ DOMAIN tasks' = {1} /\ tasks'[1] = x
      BY <3>1, One, Zenon
    <3>3. Untouched(Tables \ handled)'
      BY <2>1, <2>2, <2>8, Zenon DEF Turn, Untouched
    <3> QED
      BY <2>1, <2>2, <2>5, <2>6, <3>1, <3>2, <3>3, <1>HandlerTurn, Zenon
  <2> QED
    BY <2>1, <2>7, <2>8, Zenon

  (***************************************************************************)
  (* A row is emitted: it is of the table that has its turn.                 *)
  (***************************************************************************)
<1>ReadTurns. ASSUME SkipInv, TurnInv, OnReadEvent
              PROVE  TurnInv'
  <2> USE <1>ReadTurns
  <2> PICK e : e = Head(tasks)
    BY Zenon
  <2>1. /\ up /\ tasks # <<>> /\ e.kind = "row" /\ e.table \in Tables /\ tasks' = Tail(tasks) /\ ~finished
        /\ out' = [out EXCEPT ![e.table] = Append(@, e.row)] /\ out' \in [Tables -> Seq(Nat)]
        /\ UNCHANGED <<up, queue, worker, handled, finished>>
    BY ReadDoes, ZenonT(60)
  <2>2. /\ e = tasks[1] /\ Len(tasks) \in Nat /\ DOMAIN tasks = 1..Len(tasks) /\ 1 \in DOMAIN tasks
        /\ Len(tasks') = Len(tasks) - 1 /\ DOMAIN tasks' = 1..(Len(tasks) - 1)
        /\ \A i \in DOMAIN tasks' : tasks'[i] = tasks[i + 1] /\ i + 1 \in DOMAIN tasks
    BY <2>1, QueuedTypes, Taken, SMTT(30)
  <2>3. \A u \in Tables : u # e.table => out'[u] = out[u]
    BY <2>1, Zenon DEF TurnInv, EndTurns
  <2>4. \A t : Turn(t) => Turn(t)'
    BY <2>1, <2>2, <2>3, SMTT(30) DEF Turn, Untouched
  <2>5. OnlyRows => OnlyRows'
    BY <2>2, Zenon DEF OnlyRows
  <2>6. \A i \in DOMAIN tasks : tasks[i].kind \notin {"started", "table", "finished"}
    <3> SUFFICES ASSUME NEW i \in DOMAIN tasks, tasks[i].kind \in {"started", "table", "finished"} PROVE FALSE
      BY Zenon
    <3>1. Len(tasks) = 1
      BY Zenon  DEF TurnInv, TaskTurns
    <3> QED
      BY <2>1, <2>2, <3>1, SMTT(30)
  <2>7. TaskTurns'
    <3>1. \A i, j \in DOMAIN tasks' : tasks'[i].table = tasks'[j].table
      BY <2>2, SMTT(30) DEF TurnInv, TaskTurns
    <3>2. \A i \in DOMAIN tasks' : tasks'[i].kind # "row" => i = Len(tasks')
      BY <2>2, SMTT(30) DEF TurnInv, TaskTurns
    <3>3. (\A i \in DOMAIN tasks : tasks[i].kind = "done" =>
             Turn(tasks[i].table) /\ worker[PartitionOf[tasks[i].table]].at = "wait")'
      <4> SUFFICES ASSUME NEW i \in DOMAIN tasks', tasks'[i].kind = "done"
                   PROVE  (Turn(tasks[i].table) /\ worker[PartitionOf[tasks[i].table]].at = "wait")'
        BY Zenon
      <4>1. PICK k : k = i + 1
        BY Zenon
      <4>2. k \in DOMAIN tasks /\ tasks'[i] = tasks[k]
        BY <2>2, <4>1, Zenon
      <4>3. PICK t : t = tasks[k].table
        BY Zenon
      <4>4. Turn(t) /\ worker[PartitionOf[t]].at = "wait"
        BY <4>2, <4>3, Zenon DEF TurnInv, TaskTurns
      <4>5. Turn(t)' /\ tasks'[i].table = t
        BY <2>4, <4>2, <4>3, <4>4, ZenonT(60)
      <4> QED
        BY <2>1, <4>4, <4>5, ZenonT(30) DEF Turn, Untouched
    <3>4. \A i \in DOMAIN tasks' : tasks'[i].kind \notin {"started", "table", "finished"}
      BY <2>2, <2>6, ZenonT(60)
    <3> QED
      BY <3>1, <3>2, <3>3, <3>4, ZenonT(60) DEF TaskTurns
  <2>8. WorkerTurns'
    BY <2>1, <2>4, <2>5, SMTT(30) DEF TurnInv, WorkerTurns, Busy
  <2>9. EndTurns'
    BY <2>1, ZenonT(60) DEF TurnInv, EndTurns
  <2> QED
    BY <2>7, <2>8, <2>9, Zenon DEF TurnInv

  (***************************************************************************)
  (* A worker that keeps its table, and may hand on a row of it.             *)
  (***************************************************************************)
<1>BusyTurns. ASSUME SkipInv, TurnInv, NEW p \in Partitions, Busy(p), NEW w, OneWorker(p, w),
                     w.at \in {"begin", "create", "load", "rows", "check"}, w.table = worker[p].table, UNCHANGED queue,
                     \/ UNCHANGED tasks
                     \/ \E x \in TaskSet : x.kind = "row" /\ x.table = worker[p].table /\ tasks' = Append(tasks, x)
              PROVE  TurnInv'
  <2> USE <1>BusyTurns
  <2> PICK t : t = worker[p].table
    BY Zenon
  <2>1. /\ t \in Tables /\ PartitionOf[t] = p /\ OnlyRows /\ ~finished /\ Turn(t) /\ queue[p] = <<>>
        /\ \A q \in Partitions : q # p => ~Busy(q) /\ queue[q] = <<>>
    BY BusyHas, Zenon
  <2>2. worker'[p] = w /\ \A q \in Partitions : q # p => worker'[q] = worker[q]
    BY WorkersAfter, Zenon DEF OneWorker
  <2>3. \A i \in DOMAIN tasks' : tasks'[i].kind = "row" /\ tasks'[i].table = t
    <3>1. CASE UNCHANGED tasks
      BY <2>1, <3>1, Zenon DEF Turn, OnlyRows
    <3>2. CASE \E x \in TaskSet : x.kind = "row" /\ x.table = t /\ tasks' = Append(tasks, x)
      <4>1. PICK x \in TaskSet : x.kind = "row" /\ x.table = t /\ tasks' = Append(tasks, x)
        BY <3>2, Zenon
      <4>2. \A i \in DOMAIN tasks' : (i \in DOMAIN tasks /\ tasks'[i] = tasks[i]) \/ tasks'[i] = x
        BY <4>1, QueuedTypes, AppendedEach, SMTT(60)
      <4> QED
        BY <2>1, <4>1, <4>2, ZenonT(60) DEF Turn, OnlyRows
    <3> QED
      BY <3>1, <3>2, Zenon
  <2>4. Turn(t)' /\ OnlyRows'
    BY <2>1, <2>3, Zenon DEF OneWorker, Turn, OnlyRows, Untouched
  <2>5. Busy(p)' /\ \A q \in Partitions : q # p => ~Busy(q)'
    BY <2>1, <2>2, Zenon DEF Busy
  <2>6. out' \in [Tables -> Seq(Nat)] /\ handled' \subseteq Tables
    BY ZenonT(60) DEF OneWorker, TurnInv, EndTurns
  <2> QED
    BY <2>1, <2>2, <2>4, <2>5, <2>6, <1>TurnOf, SMTT(30) DEF OneWorker

  (***************************************************************************)
  (* A worker takes its table.                                               *)
  (***************************************************************************)
<1>TakeTurns. ASSUME SkipInv, TurnInv, NEW p \in Partitions, TakeSnapshot(p)
              PROVE  TurnInv'
  <2> USE <1>TakeTurns
  <2> PICK t : t = Head(queue[p]).table
    BY Zenon
  <2> DEFINE w == [Idle EXCEPT !.at = "begin", !.table = Head(queue[p]).table, !.next = Head(queue[p]).next]
  <2>1. OneWorker(p, w) /\ queue[p] # <<>> /\ queue' = [queue EXCEPT ![p] = Tail(@)] /\ UNCHANGED tasks
    BY TakeDoes, Zenon
  <2>2. w.at = "begin" /\ w.table = t
    BY Zenon  DEF Idle
  <2> HIDE DEF w
  <2>3. /\ PartitionOf[t] = p /\ OnlyRows /\ ~finished /\ Turn(t) /\ Len(queue[p]) = 1
        /\ \A q \in Partitions : q # p => ~Busy(q) /\ queue[q] = <<>>
    BY <2>1, Zenon DEF TurnInv, WorkerTurns
  <2>4. queue[p] \in Seq(Entries) /\ queue \in [Partitions -> Seq(Entries)]
    BY QueuedTypes, Zenon
  <2>5. t \in Tables
    <3>1. Head(queue[p]) \in Entries
      BY <2>1, <2>4, Taken, Zenon
    <3> QED
      BY <3>1, Zenon DEF Entries
  <2>6. queue'[p] = <<>> /\ \A q \in Partitions : q # p => queue'[q] = <<>>
    BY <2>1, <2>3, <2>4, Single, Zenon
  <2>7. worker'[p] = w /\ \A q \in Partitions : q # p => worker'[q] = worker[q]
    BY <2>1, WorkersAfter, Zenon DEF OneWorker
  <2>8. Turn(t)' /\ OnlyRows' /\ out' \in [Tables -> Seq(Nat)] /\ handled' \subseteq Tables
    BY <2>1, <2>3, Zenon DEF OneWorker, Turn, OnlyRows, Untouched, TurnInv, EndTurns
  <2>9. Busy(p)' /\ \A q \in Partitions : q # p => ~Busy(q)'
    BY <2>2, <2>3, <2>7, Zenon DEF Busy
  <2> QED
    BY <2>1, <2>2, <2>3, <2>5, <2>6, <2>7, <2>8, <2>9, <1>TurnOf, SMTT(30) DEF OneWorker

  (***************************************************************************)
  (* A worker waits for the dispatcher, or has queued the next batch.        *)
  (***************************************************************************)
<1>CheckTurns. ASSUME SkipInv, TurnInv, NEW p \in Partitions, EndBatch(p), ~Fatal
               PROVE  TurnInv'
  <2> USE <1>CheckTurns
  <2> PICK t : t = worker[p].table
    BY Zenon
  <2> DEFINE w(place) == [worker[p] EXCEPT !.at = place, !.local = context]
             entry == [table |-> t, next |-> TRUE]
             x == Task("done", t)
  <2>1. /\ worker[p].at = "check"
        /\ \/ OneWorker(p, w("wait")) /\ tasks' = Append(tasks, x) /\ UNCHANGED queue
           \/ OneWorker(p, w("release")) /\ queue' = [queue EXCEPT ![p] = Append(@, entry)] /\ UNCHANGED tasks
    BY CheckDoes, Zenon
  <2>2. Busy(p)
    BY <2>1, Zenon DEF Busy
  <2>3. /\ t \in Tables /\ PartitionOf[t] = p /\ OnlyRows /\ ~finished /\ Turn(t) /\ queue[p] = <<>>
        /\ worker[p] \in WorkerStates
        /\ \A q \in Partitions : q # p => ~Busy(q) /\ queue[q] = <<>>
    BY <2>2, BusyHas, Zenon
  <2>4. \A place : w(place).at = place
    BY <2>3, Zenon DEF WorkerStates
  <2> HIDE DEF w
  <2>5. ASSUME NEW place \in {"wait", "release"}, OneWorker(p, w(place))
        PROVE  /\ worker'[p].at = place /\ \A q \in Partitions : ~Busy(q)'
               /\ out' \in [Tables -> Seq(Nat)] /\ handled' \subseteq Tables /\ up' /\ ~finished'
    <3>1. worker'[p] = w(place) /\ \A q \in Partitions : q # p => worker'[q] = worker[q]
      BY <2>5, WorkersAfter, ZenonT(60) DEF OneWorker
    <3> QED
      BY <2>3, <2>4, <2>5, <3>1, SMTT(30) DEF OneWorker, Busy, TurnInv, EndTurns
  <2>6. CASE OneWorker(p, w("wait")) /\ tasks' = Append(tasks, x) /\ UNCHANGED queue
    <3>1. x \in TaskSet /\ x.kind = "done" /\ x.table = t
      BY <2>3, TasksAre, Zenon DEF Task
    <3> HIDE DEF x
    <3>2. \A i \in DOMAIN tasks' : (i \in DOMAIN tasks /\ tasks'[i] = tasks[i]) \/ (i = Len(tasks') /\ tasks'[i] = x)
      BY <2>6, <3>1, QueuedTypes, AppendedEach, SMTT(30)
    <3>4. \A i \in DOMAIN tasks' : tasks'[i].table = t /\ (tasks'[i].kind = "row" \/ (i = Len(tasks') /\ tasks'[i].kind = "done"))
      BY <2>3, <3>1, <3>2, Zenon DEF Turn, OnlyRows
    <3>5. Turn(t)'
      BY <2>3, <2>6, <3>4, Zenon DEF OneWorker, Turn, Untouched
    <3>6. worker'[PartitionOf[t]].at = "wait"
      BY <2>3, <2>5, <2>6, Zenon
    <3>7. TaskTurns'
      <4>1. (\A i \in DOMAIN tasks : tasks[i].kind = "done" =>
               Turn(tasks[i].table) /\ worker[PartitionOf[tasks[i].table]].at = "wait")'
        <5> SUFFICES ASSUME NEW i \in DOMAIN tasks'
                     PROVE  (Turn(tasks[i].table) /\ worker[PartitionOf[tasks[i].table]].at = "wait")'
          BY Zenon
        <5>1. tasks'[i].table = t
          BY <3>4, Zenon
        <5> QED
          BY <3>5, <3>6, <5>1, Zenon DEF Turn, Untouched
      <4> QED
        BY <3>4, <4>1, Zenon DEF TaskTurns
    <3>8. WorkerTurns'
      BY <2>3, <2>5, <2>6, ZenonT(60) DEF WorkerTurns
    <3> QED
      BY <2>5, <2>6, <3>7, <3>8, ZenonT(60) DEF TurnInv, EndTurns
  <2>7. CASE OneWorker(p, w("release")) /\ queue' = [queue EXCEPT ![p] = Append(@, entry)] /\ UNCHANGED tasks
    <3>1. entry \in Entries /\ queue \in [Partitions -> Seq(Entries)]
      BY <2>3, QueuedTypes, ZenonT(60) DEF Entries
    <3>2. queue'[p] = Append(<<>>, entry) /\ \A q \in Partitions : q # p => queue'[q] = <<>>
      BY <2>3, <2>7, <3>1, Zenon
    <3>3. Len(queue'[p]) = 1 /\ Head(queue'[p]).table = t
      <4>1. Len(Append(<<>>, entry)) = 1 /\ Head(Append(<<>>, entry)) = entry
        BY <3>1, One, Zenon
      <4> QED
        BY <3>2, <4>1
    <3>4. Turn(t)' /\ OnlyRows'
      BY <2>3, <2>7, Zenon DEF OneWorker, Turn, OnlyRows, Untouched
    <3> QED
      BY <2>3, <2>5, <2>7, <3>2, <3>3, <3>4, <1>TurnOf, ZenonT(60)
  <2> QED
    BY <2>1, <2>6, <2>7, Zenon

  (***************************************************************************)
  (* A worker is idle again.                                                 *)
  (***************************************************************************)
<1>ReleaseTurns. ASSUME SkipInv, TurnInv, NEW p \in Partitions, EndTransaction(p)
                 PROVE  TurnInv'
  <2> USE <1>ReleaseTurns
  <2>1. OneWorker(p, Idle) /\ worker[p].at = "release" /\ UNCHANGED <<tasks, queue>>
    BY ReleaseDoes, Zenon
  <2>2. worker'[p] = Idle /\ \A q \in Partitions : q # p => worker'[q] = worker[q]
    BY <2>1, WorkersAfter, ZenonT(60) DEF OneWorker
  <2>3. \A q \in Partitions : /\ Busy(q)' = Busy(q) /\ (worker[q].at = "wait" => worker'[q].at = "wait")
                              /\ Busy(q) => worker'[q] = worker[q]
    BY <2>1, <2>2 DEF Busy, Idle
  <2>4. \A i \in DOMAIN tasks : tasks[i].kind = "done" => PartitionOf[tasks[i].table] \in Partitions
    BY QueuedTypes, Zenon
  <2>5. /\ \A t : Turn(t)' = Turn(t)
        /\ OnlyRows' = OnlyRows /\ Untouched(Tables \ handled)' = Untouched(Tables \ handled)
    BY <2>1, ZenonT(60) DEF OneWorker, Turn, OnlyRows, Untouched
  <2>6. TaskTurns'
    BY <2>1, <2>3, <2>4, SMTT(60) DEF OneWorker, TurnInv, TaskTurns, Turn, Untouched
  <2>7. WorkerTurns'
    BY <2>1, <2>3, <2>5, ZenonT(60) DEF OneWorker, TurnInv, WorkerTurns
  <2>8. EndTurns'
    BY <2>1, ZenonT(60) DEF OneWorker, TurnInv, EndTurns
  <2> QED
    BY <2>6, <2>7, <2>8, Zenon DEF TurnInv

  (***************************************************************************)
  (* The steps of a worker that end the program, or none of them.            *)
  (***************************************************************************)
<1>WorkerTurnsKept. ASSUME SkipInv, TurnInv, NEW p \in Partitions,
                           TakeSnapshot(p) \/ GetOrCreateContext(p) \/ StoreHighWatermark(p) \/ FetchBatch(p)
                             \/ EnqueueRow(p) \/ StoreLowWatermark(p) \/ EndBatch(p) \/ EndTransaction(p)
                    PROVE  TurnInv'
  <2> USE <1>WorkerTurnsKept
  <2>1. worker[p] \in WorkerStates
    BY WorkerHas, Zenon
  <2>2. CASE Fatal
    BY <2>2, <1>EndsTurns, Zenon DEF Fatal
  <2>3. CASE GetOrCreateContext(p) /\ ~Fatal
    <3> DEFINE w == [worker[p] EXCEPT !.at = "create", !.local = context']
    <3>1. OneWorker(p, w) /\ worker[p].at = "begin" /\ UNCHANGED <<tasks, queue>>
      BY <2>3, ContextDoes, Zenon
    <3>2. Busy(p) /\ w.at = "create" /\ w.table = worker[p].table
      BY <2>1, <3>1, Zenon DEF Busy, WorkerStates
    <3> HIDE DEF w
    <3> QED
      BY <3>1, <3>2, <1>BusyTurns, ZenonT(60)
  <2>4. CASE StoreHighWatermark(p) /\ ~Fatal
    <3> DEFINE w == [worker[p] EXCEPT !.at = "load"]
    <3>1. OneWorker(p, w) /\ worker[p].at = "create" /\ UNCHANGED <<tasks, queue>>
      BY <2>4, HighDoes, Zenon
    <3>2. Busy(p) /\ w.at = "load" /\ w.table = worker[p].table
      BY <2>1, <3>1, Zenon DEF Busy, WorkerStates
    <3> HIDE DEF w
    <3> QED
      BY <3>1, <3>2, <1>BusyTurns, ZenonT(60)
  <2>5. CASE FetchBatch(p) /\ ~Fatal
    <3> DEFINE t == worker[p].table
               w == [worker[p] EXCEPT !.at = "rows", !.local = context, !.lsn = commits,
                                      !.batch = Batch(t, context[t].low, context[t].high)]
    <3>1. OneWorker(p, w) /\ worker[p].at = "load" /\ UNCHANGED <<tasks, queue>>
      BY <2>5, FetchDoes, Zenon
    <3>2. Busy(p) /\ w.at = "rows" /\ w.table = worker[p].table
      BY <2>1, <3>1, Zenon DEF Busy, WorkerStates
    <3> HIDE DEF w
    <3> QED
      BY <3>1, <3>2, <1>BusyTurns, Zenon
  <2>6. CASE EnqueueRow(p)
    <3> DEFINE t == worker[p].table
               row == Head(worker[p].batch)
               w == [worker[p] EXCEPT !.local[t] = SetLowWatermark(@, Key(t, row)), !.batch = Tail(@)]
               x == ReadEvent(t, row, worker[p].lsn)
    <3>1. OneWorker(p, w) /\ worker[p].at = "rows" /\ worker[p].batch # <<>> /\ tasks' = Append(tasks, x) /\ UNCHANGED queue
      BY <2>6, RowDoes, Zenon
    <3>2. Busy(p) /\ w.at = "rows" /\ w.table = worker[p].table
      BY <2>1, <3>1, Zenon DEF Busy, WorkerStates
    <3>3. t \in Tables /\ row \in Nat /\ worker[p].lsn \in Nat
      <4>1. worker[p].batch \in Seq(Nat) /\ worker[p].lsn \in Nat
        BY <2>1, Zenon DEF WorkerStates
      <4> QED
        BY <3>1, <3>2, <4>1, BusyHas, Taken, Zenon
    <3>4. x \in TaskSet /\ x.kind = "row" /\ x.table = t
      BY <3>3, TasksAre, ZenonT(60) DEF ReadEvent
    <3> HIDE DEF w, x
    <3> QED
      BY <3>1, <3>2, <3>4, <1>BusyTurns, Zenon
  <2>7. CASE StoreLowWatermark(p)
    <3> DEFINE w == [worker[p] EXCEPT !.at = "check"]
    <3>1. OneWorker(p, w) /\ worker[p].at = "rows" /\ UNCHANGED <<tasks, queue>>
      BY <2>7, LowDoes, Zenon
    <3>2. Busy(p) /\ w.at = "check" /\ w.table = worker[p].table
      BY <2>1, <3>1, Zenon DEF Busy, WorkerStates
    <3> HIDE DEF w
    <3> QED
      BY <3>1, <3>2, <1>BusyTurns, Zenon
  <2> QED
    BY <2>2, <2>3, <2>4, <2>5, <2>6, <2>7, <1>TakeTurns, <1>CheckTurns, <1>ReleaseTurns, Zenon

<1> SUFFICES ASSUME SkipInv, TurnInv, [Next]_vars PROVE TurnInv'
  BY Zenon
<1>1. CASE UNCHANGED vars
  BY <1>1, <1>TurnsRest, Zenon DEF vars, history
<1>2. CASE AwaitShutdown \/ AutoStore \/ Commit
  BY <1>2, <1>TurnsRest, Zenon DEF AwaitShutdown, AutoStore, Commit, history
<1>3. CASE StopReplication \/ Crash
  BY <1>3, <1>EndsTurns, ZenonT(60) DEF StopReplication, Crash
<1> QED
  BY <1>1, <1>2, <1>3, <1>StartTurns, <1>HandlerTurns, <1>DoneTurns, <1>ReadTurns, <1>WorkerTurnsKept, Zenon DEF Next

(***************************************************************************)
(* Nobody has a turn before the first start.                               *)
(***************************************************************************)
LEMMA InitTurns == Init => TurnInv
<1> SUFFICES ASSUME Init PROVE TurnInv
  BY Zenon
<1>1. tasks = <<>> /\ handled = {} /\ ~finished /\ out \in [Tables -> Seq(Nat)]
      /\ \A p \in Partitions : queue[p] = <<>> /\ worker[p] = Idle
  BY SMTT(30) DEF Init
<1>2. Idle.at = "idle"
  BY Zenon DEF Idle
<1> QED
  BY <1>1, <1>2, SMTT(30) DEF TurnInv, TaskTurns, WorkerTurns, EndTurns, Busy

(***************************************************************************)
(* One table has its turn at a time, from the task that schedules it to    *)
(* the one that marks it as handled (OnTableSnapshotStartedEvent,          *)
(* snapshotBaseTable, OnTableSnapshotFinishedEvent), for any number of     *)
(* workers, tables, starts and crashes.                                    *)
(***************************************************************************)
THEOREM OneTableAtATime == Spec => []TurnInv
BY InitCovers, InitTurns, SkipStep, TurnStep, PTL DEF Spec

-----------------------------------------------------------------------------
(* The rows that were handed on.                                           *)

(* A step that leaves them as they are. *)
RowsKept ==
  /\ config' = config
  /\ \A t \in Tables : Size(t)' = Size(t) /\ \A i \in 1..Size(t) : Nth(t, i)' = Nth(t, i)

(***************************************************************************)
(* Their number is a number.                                               *)
(***************************************************************************)
LEMMA SizeIs ==
  ASSUME SkipInv, TurnInv, NEW t \in Tables
  PROVE  /\ Len(out[t]) \in Nat /\ Pending(t) \in Nat /\ Size(t) \in Nat /\ Size(t) = Len(out[t]) + Pending(t)
         /\ out[t] \in Seq(Nat) /\ DOMAIN out[t] = 1..Len(out[t])
<1>1. out[t] \in Seq(Nat)
  BY Zenon DEF TurnInv, EndTurns
<1>2. Len(out[t]) \in Nat /\ DOMAIN out[t] = 1..Len(out[t])
  BY <1>1, LenProperties, Zenon
<1>3. Pending(t) \in Nat
  <2>1. CASE tasks = <<>>
    BY <2>1, Zenon DEF Pending
  <2>2. CASE tasks # <<>>
    <3>1. Len(tasks) \in Nat /\ Len(tasks) >= 1
      BY <2>2, QueuedTypes, Taken, Zenon
    <3>2. Len(tasks) - 1 \in Nat
      BY <3>1
    <3> QED
      BY <3>1, <3>2, Zenon DEF Pending
  <2> QED
    BY <2>1, <2>2, Zenon
<1> QED
  BY <1>1, <1>2, <1>3 DEF Size

(***************************************************************************)
(* Without a change of the queue and what was emitted, they are kept.      *)
(***************************************************************************)
LEMMA RowsRest ==
  ASSUME UNCHANGED <<config, tasks, out>>
  PROVE  RowsKept
BY ZenonT(60) DEF RowsKept, Size, Pending, Nth

(***************************************************************************)
(* A task of the handler in a queue of its own is no row.                  *)
(***************************************************************************)
LEMMA RowsHandler ==
  ASSUME SkipInv, TurnInv, tasks # <<>>, Head(tasks).kind # "row", UNCHANGED <<config, out>>,
         tasks' = <<>> \/ \E x \in TaskSet : x.kind # "row" /\ tasks' = Append(<<>>, x)
  PROVE  RowsKept
<1>1. Len(tasks) = 1 /\ tasks[1].kind # "row"
  BY HandlerAlone, Zenon
<1>2. \A t : Pending(t) = 0
  BY <1>1, SMTT(30) DEF Pending
<1>3. \A t : Pending(t)' = 0
  <2>1. CASE tasks' = <<>>
    BY <2>1, Zenon DEF Pending
  <2>2. CASE \E x \in TaskSet : x.kind # "row" /\ tasks' = Append(<<>>, x)
    <3>1. PICK x \in TaskSet : x.kind # "row" /\ tasks' = Append(<<>>, x)
      BY <2>2, Zenon
    <3>2. Len(tasks') = 1 /\ tasks'[1] = x
      BY <3>1, One, Zenon
    <3> QED
      BY <3>1, <3>2 DEF Pending
  <2> QED
    BY <2>1, <2>2, Zenon
<1>4. \A t \in Tables : Size(t) = Len(out[t]) /\ Size(t)' = Len(out[t])
  <2> TAKE t \in Tables
  <2>1. Len(out[t]) \in Nat
    BY SizeIs, Zenon
  <2> QED
    BY <1>2, <1>3, <2>1 DEF Size
<1>5. \A t \in Tables : \A i \in 1..Size(t) : Nth(t, i)' = Nth(t, i)
  BY <1>4, SizeIs DEF Nth
<1> QED
  BY <1>4, <1>5, Zenon DEF RowsKept

(***************************************************************************)
(* The rows in a queue that has nothing but rows of a table.               *)
(***************************************************************************)
LEMMA PendingTurn ==
  ASSUME SkipInv, OnlyRows, NEW t, \A i \in DOMAIN tasks : tasks[i].table = t
  PROVE  Pending(t) = Len(tasks) /\ \A u : u # t => Pending(u) = 0
<1>1. CASE tasks = <<>>
  BY <1>1, Zenon DEF Pending
<1>2. CASE tasks # <<>>
  <2>1. Head(tasks) = tasks[1] /\ 1 \in DOMAIN tasks /\ Len(tasks) \in DOMAIN tasks
    <3>1. Head(tasks) = tasks[1] /\ 1 \in DOMAIN tasks /\ Len(tasks) \in Nat /\ Len(tasks) >= 1 /\ DOMAIN tasks = 1..Len(tasks)
      BY <1>2, QueuedTypes, Taken, Zenon
    <3> QED
      BY <3>1
  <2> QED
    BY <1>2, <2>1, Zenon DEF Pending, OnlyRows
<1> QED
  BY <1>1, <1>2, Zenon

(***************************************************************************)
(* The first of a sequence with one element more.                          *)
(***************************************************************************)
LEMMA AppendedFirst ==
  ASSUME NEW S, NEW q \in Seq(S), NEW x \in S, NEW r, r = Append(q, x)
  PROVE  /\ r # <<>> /\ Head(r) = r[1]
         /\ (q = <<>> /\ r[1] = x) \/ (1 \in DOMAIN q /\ r[1] = q[1])
<1>1. /\ r \in Seq(S) /\ r # <<>> /\ Len(q) \in Nat /\ DOMAIN q = 1..Len(q)
      /\ \A i \in 1..Len(q) : r[i] = q[i]
      /\ r[Len(q) + 1] = x
  BY Appended
<1>2. Head(r) = r[1]
  BY <1>1, Taken, Zenon
<1>3. CASE q = <<>>
  BY <1>1, <1>2, <1>3, EmptySeq, SMTT(30)
<1>4. CASE q # <<>>
  <2>1. 1 \in DOMAIN q
    BY <1>4, Taken, Zenon
  <2> QED
    BY <1>1, <1>2, <2>1, Zenon
<1> QED
  BY <1>3, <1>4, ZenonT(60)

(***************************************************************************)
(* A worker announces that its table is finished.                          *)
(***************************************************************************)
LEMMA RowsDone ==
  ASSUME SkipInv, TurnInv, OnlyRows, NEW t \in Tables, \A i \in DOMAIN tasks : tasks[i].table = t,
         NEW x \in TaskSet, x.kind # "row", x.table = t, tasks' = Append(tasks, x), UNCHANGED <<config, out>>
  PROVE  RowsKept
<1>1. Pending(t) = Len(tasks) /\ \A u : u # t => Pending(u) = 0
  BY PendingTurn, Zenon
<1>2. /\ Len(tasks') = Len(tasks) + 1 /\ tasks'[Len(tasks')] = x /\ Len(tasks) \in Nat /\ DOMAIN tasks = 1..Len(tasks)
      /\ \A i \in DOMAIN tasks : tasks'[i] = tasks[i]
  BY QueuedTypes, AppendedEach, SMTT(30)
<1>3. tasks' # <<>> /\ Head(tasks').table = t
  BY QueuedTypes, AppendedFirst, SMTT(30)
<1>4. Pending(t)' = Len(tasks) /\ \A u : u # t => Pending(u)' = 0
  BY <1>2, <1>3 DEF Pending
<1>5. \A u \in Tables : Size(u)' = Size(u)
  BY <1>1, <1>4, Zenon DEF Size
<1>6. ASSUME NEW u \in Tables, NEW i \in 1..Size(u) PROVE Nth(u, i)' = Nth(u, i)
  <2>1. Len(out[u]) \in Nat /\ Size(u) = Len(out[u]) + Pending(u)
    BY SizeIs, Zenon
  <2>2. CASE i <= Len(out[u])
    BY <2>2, Zenon DEF Nth
  <2>3. CASE ~(i <= Len(out[u]))
    <3>1. i - Len(out[u]) \in 1..Len(tasks)
      BY <1>1, <1>2, <2>1, <2>3, SMTT(30)
    <3> QED
      BY <1>2, <2>3, <3>1, ZenonT(60) DEF Nth
  <2> QED
    BY <2>2, <2>3, Zenon
<1> QED
  BY <1>5, <1>6, Zenon DEF RowsKept

(***************************************************************************)
(* A row is emitted: it moves from the one place to the other.             *)
(***************************************************************************)
LEMMA RowsRead ==
  ASSUME SkipInv, TurnInv, OnReadEvent
  PROVE  RowsKept
<1> PICK e : e = Head(tasks)
  BY Zenon
<1> PICK t : t = e.table
  BY Zenon
<1>1. /\ tasks # <<>> /\ e.kind = "row" /\ t \in Tables /\ e.row \in Nat /\ tasks' = Tail(tasks) /\ config' = config
      /\ out' = [out EXCEPT ![t] = Append(@, e.row)]
  BY ReadDoes, Zenon
<1>2. /\ e = tasks[1] /\ Len(tasks) \in Nat /\ Len(tasks) >= 1 /\ DOMAIN tasks = 1..Len(tasks)
      /\ Len(tasks') = Len(tasks) - 1 /\ DOMAIN tasks' = 1..(Len(tasks) - 1)
      /\ \A i \in 1..(Len(tasks) - 1) : tasks'[i] = tasks[i + 1] /\ i + 1 \in DOMAIN tasks
      /\ tasks' \in Seq(TaskSet) /\ 1 \in DOMAIN tasks
  BY <1>1, QueuedTypes, Taken, Zenon
<1>3. \A i \in DOMAIN tasks : tasks[i].table = t
  BY <1>2, SMTT(30) DEF TurnInv, TaskTurns
<1>4. /\ out[t] \in Seq(Nat) /\ Len(out[t]) \in Nat /\ out'[t] = Append(out[t], e.row)
      /\ \A u \in Tables : u # t => out'[u] = out[u]
  BY <1>1, SizeIs, ZenonT(60) DEF TurnInv, EndTurns
<1>5. /\ Len(out'[t]) = Len(out[t]) + 1 /\ out'[t][Len(out[t]) + 1] = e.row
      /\ \A i \in 1..Len(out[t]) : out'[t][i] = out[t][i]
  <2>1. e.row \in Nat
    BY <1>1, Zenon
  <2> QED
    BY <1>4, <2>1, Appended
<1>6. Pending(t)' = Pending(t) - 1 /\ Pending(t) >= 1 /\ Pending(t) <= Len(tasks) /\ Pending(t) \in Nat
  <2>1. Pending(t) = IF tasks[Len(tasks)].kind = "row" THEN Len(tasks) ELSE Len(tasks) - 1
    BY <1>1, <1>2, Zenon DEF Pending
  <2>2. CASE Len(tasks) = 1
    <3>1. tasks' = <<>>
      BY <1>1, <1>2, <2>2, EmptySeq, SMTT(30)
    <3> QED
      BY <1>1, <1>2, <2>1, <2>2, <3>1, Zenon DEF Pending
  <2>3. CASE Len(tasks) # 1
    <3>1. 1 \in 1..(Len(tasks) - 1) /\ Len(tasks) - 1 \in 1..(Len(tasks) - 1) /\ Len(tasks) - 1 + 1 = Len(tasks)
      BY <1>2, <2>3, SMTT(30)
    <3>2. tasks' # <<>> 
      BY <1>2, <2>3, EmptySeq, SMTT(30)
    <3>3. Head(tasks') = tasks'[1] /\ tasks'[1].table = t
      BY <1>2, <1>3, <3>1, <3>2, Taken, SMTT(30)
    <3>4. tasks'[Len(tasks')] = tasks[Len(tasks)]
      BY <1>2, <3>1, Zenon
    <3>5. Pending(t)' = IF tasks[Len(tasks)].kind = "row" THEN Len(tasks) - 1 ELSE Len(tasks) - 1 - 1
      BY <1>2, <3>2, <3>3, <3>4, ZenonT(60) DEF Pending
    <3> QED
      BY <1>2, <2>1, <2>3, <3>5, SMTT(30)
  <2> QED
    BY <2>2, <2>3, Zenon
<1>7. \A u : u # t => Pending(u) = 0 /\ Pending(u)' = 0
  <2>1. tasks' # <<>> => Head(tasks').table = t
    <3> SUFFICES ASSUME tasks' # <<>> PROVE Head(tasks').table = t
      BY Zenon
    <3>1. Head(tasks') = tasks'[1] /\ 1 \in DOMAIN tasks'
      BY <1>2, Taken, ZenonT(60)
    <3> QED
      BY <1>2, <1>3, <3>1, Zenon
  <2> QED
    BY <1>1, <2>1, ZenonT(60) DEF Pending
<1>8. \A u \in Tables : u # t => Size(u)' = Size(u) /\ \A i \in 1..Size(u) : Nth(u, i)' = Nth(u, i)
  <2> SUFFICES ASSUME NEW u \in Tables, u # t
               PROVE  Size(u)' = Size(u) /\ \A i \in 1..Size(u) : Nth(u, i)' = Nth(u, i)
    BY Zenon
  <2>1. Len(out[u]) \in Nat /\ Size(u) = Len(out[u]) /\ Size(u)' = Len(out[u])
    <3>1. Pending(u) = 0 /\ Pending(u)' = 0 /\ out'[u] = out[u]
      BY <1>4, <1>7, Zenon
    <3>2. Len(out[u]) \in Nat
      BY SizeIs, Zenon
    <3> QED
      BY <3>1, <3>2, SMTT(30) DEF Size
  <2> QED
    BY <1>4, <2>1, SMTT(30) DEF Nth
<1>9. Size(t)' = Size(t) /\ Size(t) = Len(out[t]) + Pending(t)
  <2>1. Size(t)' = Len(out'[t]) + Pending(t)' /\ Size(t) = Len(out[t]) + Pending(t)
    BY Zenon DEF Size
  <2>2. /\ Len(out'[t]) = Len(out[t]) + 1 /\ Len(out[t]) \in Nat
        /\ Pending(t)' = Pending(t) - 1 /\ Pending(t) \in Nat
    BY <1>4, <1>5, <1>6, Zenon
  <2>3. Size(t)' = (Len(out[t]) + 1) + (Pending(t) - 1)
    BY <2>1, <2>2, Zenon
  <2>4. \A m, n \in Nat : (m + 1) + (n - 1) = m + n
    OBVIOUS
  <2>5. (Len(out[t]) + 1) + (Pending(t) - 1) = Len(out[t]) + Pending(t)
    BY <2>2, <2>4, ZenonT(60)
  <2> QED
    BY <2>1, <2>3, <2>5, ZenonT(60)
<1>10. ASSUME NEW i \in 1..Size(t) PROVE Nth(t, i)' = Nth(t, i)
  <2>1. CASE i <= Len(out[t])
    <3>1. i \in 1..Len(out[t]) /\ i <= Len(out'[t])
      BY <1>4, <1>5, <1>6, <1>9, <2>1, SMTT(30)
    <3> QED
      BY <1>5, <2>1, <3>1, ZenonT(60) DEF Nth
  <2>2. CASE i = Len(out[t]) + 1
    <3>1. ~(i <= Len(out[t])) /\ i <= Len(out'[t]) /\ i - Len(out[t]) = 1
      <4>1. Len(out'[t]) = Len(out[t]) + 1 /\ Len(out[t]) \in Nat
        BY <1>4, <1>5, Zenon
      <4>2. ~(i <= Len(out[t])) /\ i - Len(out[t]) = 1
        <5> PICK m : m = Len(out[t])
          BY Zenon
        <5>1. m \in Nat /\ i = m + 1
          BY <2>2, <4>1, Zenon
        <5>2. ~(i <= m) /\ i - m = 1
          BY <5>1
        <5> QED
          BY <5>2, Zenon
      <4> QED
        BY <2>2, <4>1, <4>2
    <3> QED
      BY <1>2, <1>5, <2>2, <3>1, ZenonT(60) DEF Nth
  <2>3. CASE i > Len(out[t]) + 1
    <3>1. PICK j : j = i - Len(out'[t])
      BY Zenon
    <3>2. /\ ~(i <= Len(out[t])) /\ ~(i <= Len(out'[t])) /\ j \in 1..(Len(tasks) - 1) /\ i - Len(out[t]) = j + 1
      <4> PICK m : m = Len(out[t])
        BY Zenon
      <4> PICK k : k = Len(tasks)
        BY Zenon
      <4> PICK n : n = Pending(t)
        BY Zenon
      <4>1. m \in Nat /\ k \in Nat /\ n \in Nat /\ n <= k /\ i \in 1..(m + n) /\ i > m + 1 /\ Len(out'[t]) = m + 1 /\ j = i - (m + 1)
        BY <1>2, <1>4, <1>5, <1>6, <1>9, <2>3, <3>1, ZenonT(30)
      <4>2. ~(i <= m) /\ ~(i <= m + 1) /\ j \in 1..(k - 1) /\ i - m = j + 1
        BY <4>1, SMTT(30)
      <4> QED
        BY <4>1, <4>2, Zenon
    <3>3. Nth(t, i)' = tasks'[j].row /\ Nth(t, i) = tasks[j + 1].row
      BY <3>1, <3>2, Zenon DEF Nth
    <3> QED
      BY <1>2, <3>2, <3>3, Zenon
  <2> QED
    BY <1>4, <1>6, <1>9, <2>1, <2>2, <2>3, SMTT(30)
<1> QED
  BY <1>1, <1>8, <1>9, <1>10, Zenon DEF RowsKept

-----------------------------------------------------------------------------
(* The order of the rows.                                                  *)

(***************************************************************************)
(* A worker hands on a row of its table: the one more there is.            *)
(***************************************************************************)
LEMMA RowsMore ==
  ASSUME SkipInv, TurnInv, NEW t \in Tables, OnlyRows, Turn(t), NEW x \in TaskSet, x.kind = "row", x.table = t,
         tasks' = Append(tasks, x), UNCHANGED <<config, out>>, NEW n, n = Size(t)
  PROVE  /\ Size(t)' = n + 1 /\ Nth(t, n + 1)' = x.row
         /\ \A i \in 1..n : Nth(t, i)' = Nth(t, i)
         /\ \A u \in Tables : u # t => Size(u)' = Size(u) /\ \A i \in 1..Size(u) : Nth(u, i)' = Nth(u, i)
<1>1. Pending(t) = Len(tasks) /\ \A u : u # t => Pending(u) = 0
  BY PendingTurn, ZenonT(60) DEF Turn
<1>2. /\ Len(tasks') = Len(tasks) + 1 /\ tasks'[Len(tasks')] = x /\ Len(tasks) \in Nat /\ DOMAIN tasks = 1..Len(tasks)
      /\ \A i \in DOMAIN tasks : tasks'[i] = tasks[i]
  BY QueuedTypes, AppendedEach, SMTT(30)
<1>3. tasks' # <<>> /\ Head(tasks').table = t
  <2>1. \A i \in DOMAIN tasks : tasks[i].table = t
    BY Zenon DEF Turn
  <2>2. /\ tasks' # <<>> /\ Head(tasks') = tasks'[1]
        /\ (tasks = <<>> /\ tasks'[1] = x) \/ (1 \in DOMAIN tasks /\ tasks'[1] = tasks[1])
    BY QueuedTypes, AppendedFirst, SMTT(30)
  <2> QED
    BY <2>1, <2>2, Zenon
<1>4. Pending(t)' = Len(tasks) + 1 /\ \A u : u # t => Pending(u)' = 0
  BY <1>2, <1>3, Zenon DEF Pending
<1>5. Len(out[t]) \in Nat /\ n = Len(out[t]) + Len(tasks)
  BY <1>1, SizeIs, Zenon
<1>6. Size(t)' = n + 1
  <2>1. Size(t)' = Len(out[t]) + (Len(tasks) + 1)
    BY <1>4, ZenonT(60) DEF Size
  <2>2. \A a, b \in Nat : a + (b + 1) = (a + b) + 1
    OBVIOUS
  <2> QED
    BY <1>2, <1>5, <2>1, <2>2, Zenon
<1>7. Nth(t, n + 1)' = x.row
  <2>1. PICK m : m = n + 1
    BY Zenon
  <2>2. ASSUME NEW a \in Nat, NEW b \in Nat, n = a + b PROVE ~(m <= a) /\ m - a = b + 1
    BY <2>1, <2>2, SMTT(30)
  <2>3. ~(m <= Len(out[t])) /\ m - Len(out[t]) = Len(tasks')
    <3>1. Len(tasks) \in Nat /\ Len(tasks') = Len(tasks) + 1
      BY <1>2, Zenon
    <3>2. ~(m <= Len(out[t])) /\ m - Len(out[t]) = Len(tasks) + 1
      BY <1>5, <2>1, <2>2, <3>1, ZenonT(60)
    <3> QED
      BY <3>1, <3>2, Zenon
  <2>4. Nth(t, m)' = IF m <= Len(out[t]) THEN out[t][m] ELSE tasks'[m - Len(out[t])].row
    BY Zenon DEF Nth
  <2>5. Nth(t, m)' = tasks'[m - Len(out[t])].row
    BY <2>3, <2>4, ZenonT(60)
  <2>6. Nth(t, m)' = x.row
    BY <1>2, <2>3, <2>5, ZenonT(60)
  <2> QED
    BY <2>1, <2>6, Zenon
<1>8. ASSUME NEW i \in 1..n PROVE Nth(t, i)' = Nth(t, i)
  <2>1. CASE i <= Len(out[t])
    BY <2>1, Zenon DEF Nth
  <2>2. CASE ~(i <= Len(out[t]))
    <3>1. i - Len(out[t]) \in 1..Len(tasks)
      BY <1>2, <1>5, <2>2, SMTT(30)
    <3> QED
      BY <1>2, <2>2, <3>1, ZenonT(60) DEF Nth
  <2> QED
    BY <2>1, <2>2, ZenonT(60)
<1>9. ASSUME NEW u \in Tables, u # t PROVE Size(u)' = Size(u) /\ \A i \in 1..Size(u) : Nth(u, i)' = Nth(u, i)
  <2>1. Len(out[u]) \in Nat /\ Size(u) = Len(out[u]) /\ Size(u)' = Len(out[u])
    BY <1>1, <1>4, <1>9, SizeIs, SMTT(30) DEF Size
  <2> QED
    BY <2>1, SMTT(30) DEF Nth
<1> QED
  BY <1>6, <1>7, <1>8, <1>9, ZenonT(60)

(***************************************************************************)
(* The watermark of a table in a context, or the one it is given first.    *)
(***************************************************************************)
LEMMA WatermarkOf ==
  ASSUME NEW c \in Contexts, NEW t \in Tables, NEW old, old = IF c[t] = None THEN NewWatermark ELSE c[t]
  PROVE  /\ old \in Watermarks /\ old.low = Low(c, t)
         /\ old.complete => c[t] # None /\ c[t].complete
         /\ old.high = 0 \/ (c[t] # None /\ old.high = c[t].high)
<1>1. NewWatermark \in Watermarks /\ NewWatermark.low = 0 /\ NewWatermark.high = 0 /\ ~NewWatermark.complete
  BY Zenon DEF NewWatermark, Watermarks
<1>2. c[t] \in Watermarks \cup {None} /\ c # None
  BY NoneAssumption, Zenon DEF Contexts
<1>3. CASE c[t] = None
  BY <1>1, <1>2, <1>3, Zenon DEF Low
<1>4. CASE c[t] # None
  BY <1>2, <1>4, Zenon DEF Low
<1> QED
  BY <1>3, <1>4, ZenonT(60)

(***************************************************************************)
(* The greatest key of a table.                                            *)
(***************************************************************************)
LEMMA LastKeyIs ==
  ASSUME NEW t \in Tables, config \in Configs
  PROVE  LastKey(t) \in Nat
<1>1. config.rows[t] \in Nat
  BY ConfigsAssumption, Zenon
<1>2. CASE config.rows[t] = 0
  BY <1>2, Zenon DEF LastKey
<1>3. CASE config.rows[t] # 0
  BY <1>1, <1>3, KeySteps, Zenon DEF LastKey
<1> QED
  BY <1>2, <1>3, Zenon

(***************************************************************************)
(* The context with which a high watermark is stored.                      *)
(***************************************************************************)
LEMMA HighIs ==
  ASSUME NEW c \in Contexts, NEW t \in Tables, config \in Configs, NEW next, NEW d, d = WithHigh(c, t, next)
  PROVE  \/ d = c
         \/ /\ d \in Contexts /\ d[t] \in Watermarks /\ \A u \in Tables : u # t => d[u] = c[u]
            /\ d[t].low = Low(c, t) /\ d[t].high = LastKey(t)
            /\ d[t].complete => c[t] # None /\ c[t].complete
<1>1. PICK old : old = IF c[t] = None THEN NewWatermark ELSE c[t]
  BY Zenon
<1>2. PICK w : w = SetHighWatermark(old, LastKey(t))
  BY Zenon
<1>3. w \in Watermarks /\ w.low = old.low /\ w.high = LastKey(t) /\ w.complete = old.complete
  BY <1>1, <1>2, WatermarkOf, LastKeyIs, SMTT(30) DEF SetHighWatermark, Watermarks
<1>4. d = c \/ d = [c EXCEPT ![t] = w]
  <2>1. CASE c[t] = None
    <3>1. w = SetHighWatermark(NewWatermark, LastKey(t))
      BY <1>1, <1>2, <2>1, ZenonT(60)
    <3> QED
      BY <2>1, <3>1, Zenon DEF WithHigh
  <2>2. CASE c[t] # None
    <3>1. w = SetHighWatermark(c[t], LastKey(t))
      BY <1>1, <1>2, <2>2, ZenonT(60)
    <3>2. [c EXCEPT ![t] = SetHighWatermark(@, LastKey(t))] = [c EXCEPT ![t] = w]
      BY <3>1, ZenonT(60) DEF Contexts
    <3> QED
      BY <2>2, <3>2, ZenonT(60) DEF WithHigh
  <2> QED
    BY <2>1, <2>2, Zenon
<1>5. CASE d = [c EXCEPT ![t] = w]
  <2>1. d \in Contexts /\ d[t] = w /\ \A u \in Tables : u # t => d[u] = c[u]
    BY <1>3, <1>5, ZenonT(60) DEF Contexts
  <2> QED
    BY <1>1, <1>3, <2>1, WatermarkOf, SMTT(30)
<1> QED
  BY <1>4, <1>5, Zenon

(***************************************************************************)
(* The context in which a table is marked as complete.                     *)
(***************************************************************************)
LEMMA MarkedIs ==
  ASSUME NEW c \in Contexts, NEW t \in Tables, NEW d, d = MarkedComplete(c, t)
  PROVE  /\ d \in Contexts /\ d[t] \in Watermarks /\ \A u \in Tables : u # t => d[u] = c[u]
         /\ d[t].low = Low(c, t)
         /\ d[t].high = 0 \/ (c[t] # None /\ d[t].high = c[t].high)
<1>1. PICK old : old = IF c[t] = None THEN NewWatermark ELSE c[t]
  BY Zenon
<1>2. PICK w : w = [old EXCEPT !.complete = TRUE]
  BY Zenon
<1>3. w \in Watermarks /\ w.low = old.low /\ w.high = old.high
  <2>1. old \in Watermarks
    BY <1>1, WatermarkOf, Zenon
  <2> QED
    BY <1>2, <2>1, Zenon DEF Watermarks
<1>4. d = [c EXCEPT ![t] = w]
  <2>1. CASE c[t] = None
    <3>1. w = [NewWatermark EXCEPT !.complete = TRUE]
      BY <1>1, <1>2, <2>1, ZenonT(60)
    <3> QED
      BY <2>1, <3>1, Zenon DEF MarkedComplete, Contexts
  <2>2. CASE c[t] # None
    <3>1. w = [c[t] EXCEPT !.complete = TRUE]
      BY <1>1, <1>2, <2>2, ZenonT(60)
    <3> QED
      BY <2>2, <3>1, ZenonT(60) DEF MarkedComplete, Contexts
  <2> QED
    BY <2>1, <2>2, Zenon
<1>5. d \in Contexts /\ d[t] = w /\ \A u \in Tables : u # t => d[u] = c[u]
  BY <1>3, <1>4, ZenonT(60) DEF Contexts
<1> QED
  BY <1>1, <1>3, <1>5, WatermarkOf, SMTT(30)

(***************************************************************************)
(* What is left of a batch begins with the row behind the one taken.       *)
(***************************************************************************)
LEMMA RestBegins ==
  ASSUME NEW b \in Seq(Nat), b # <<>>, \A i \in DOMAIN b : b[i] = b[1] + i - 1 /\ b[i] > 0
  PROVE  /\ Head(b) = b[1] /\ 1 \in DOMAIN b /\ b[1] \in Nat \ {0}
         /\ Tail(b) # <<>> => Tail(b)[1] = b[1] + 1
         /\ \A i \in DOMAIN Tail(b) : \E j \in DOMAIN b : Tail(b)[i] = b[j]
<1>1. /\ Len(b) \in Nat /\ Len(b) >= 1 /\ DOMAIN b = 1..Len(b) /\ Head(b) = b[1] /\ Tail(b) \in Seq(Nat)
      /\ DOMAIN Tail(b) = 1..(Len(b) - 1) /\ Len(Tail(b)) = Len(b) - 1 /\ 1 \in DOMAIN b
      /\ \A i \in 1..(Len(b) - 1) : Tail(b)[i] = b[i + 1] /\ i + 1 \in DOMAIN b
  BY Taken, Zenon
<1>2. b[1] \in Nat \ {0}
  BY <1>1, ElementOfSeq, SMTT(30)
<1>3. Tail(b) # <<>> => Tail(b)[1] = b[1] + 1
  <2> SUFFICES ASSUME Tail(b) # <<>> PROVE Tail(b)[1] = b[1] + 1
    BY Zenon
  <2>1. Len(Tail(b)) # 0
    BY <1>1, EmptySeq, Zenon
  <2>2. 1 \in 1..(Len(b) - 1) /\ 1 + 1 = 2
    BY <1>1, <2>1
  <2>3. Tail(b)[1] = b[2] /\ 2 \in DOMAIN b
    BY <1>1, <2>2, Zenon
  <2>4. b[2] = b[1] + 2 - 1
    BY <2>3, Zenon
  <2> QED
    BY <1>2, <2>3, <2>4, SMTT(30)
<1>4. \A i \in DOMAIN Tail(b) : \E j \in DOMAIN b : Tail(b)[i] = b[j]
  BY <1>1, Zenon
<1> QED
  BY <1>1, <1>2, <1>3, <1>4, ZenonT(60)

(* A worker hands on the first row of its batch, and moves the low         *)
(* watermark of its copy.                                                  *)
RowHanded(p, t, b, c) ==
  /\ up /\ Busy(p) /\ t \in Tables \ handled /\ PartitionOf[t] = p /\ OnlyRows /\ Turn(t)
  /\ UNCHANGED <<config, up, file, context, handled, finished, out, emitted, dropped, fresh>>
  /\ worker[p].at = "rows" /\ worker'[p].at = "rows" /\ worker'[p].table = t
  /\ b \in Seq(Nat) /\ b # <<>> /\ worker'[p].batch = Tail(b)
  /\ \A i \in DOMAIN b : b[i] = b[1] + i - 1 /\ b[i] > 0
  /\ c \in Contexts /\ c[t] \in Watermarks /\ worker'[p].local \in Contexts
  /\ b[1] \in Nat \ {0} /\ Key(t, b[1]) \in Nat \ {0}
  /\ worker'[p].local[t] \in Watermarks /\ worker'[p].local[t] = SetLowWatermark(c[t], Key(t, b[1]))
  /\ worker'[p].local[t].low = Key(t, b[1])
  /\ \A u \in Tables : u # t => worker'[p].local[u] = c[u]
  /\ \A q \in Partitions : q # p => worker'[q] = worker[q]
  /\ \E x \in TaskSet : x.kind = "row" /\ x.table = t /\ x.row = b[1] /\ tasks' = Append(tasks, x)

(***************************************************************************)
(* That is what EnqueueRow does.                                           *)
(***************************************************************************)
LEMMA RowIs ==
  ASSUME SkipInv, TurnInv, NEW p \in Partitions, EnqueueRow(p),
         NEW t, t = worker[p].table, NEW b, b = worker[p].batch, NEW c, c = worker[p].local
  PROVE  RowHanded(p, t, b, c)
<1>1. PICK w : w = [worker[p] EXCEPT !.local[t] = SetLowWatermark(@, Key(t, Head(b))), !.batch = Tail(@)]
  BY Zenon
<1>2. PICK x : x = ReadEvent(t, Head(b), worker[p].lsn)
  BY Zenon
<1>3. OneWorker(p, w) /\ worker[p].at = "rows" /\ b # <<>> /\ tasks' = Append(tasks, x) /\ UNCHANGED <<queue, context>>
  BY <1>1, <1>2, RowDoes, ZenonT(60)
<1>4. Busy(p)
  BY <1>3, Zenon DEF Busy
<1>5. t \in Tables \ handled /\ PartitionOf[t] = p /\ OnlyRows /\ Turn(t)
  BY <1>4, BusyHas, Zenon DEF Turn
<1>6. /\ worker[p] \in WorkerStates /\ b \in Seq(Nat) /\ worker[p].lsn \in Nat /\ c \in Contexts /\ c[t] \in Watermarks
      /\ \A i \in DOMAIN b : b[i] = b[1] + i - 1 /\ b[i] > 0
  BY <1>3, WorkerHas, Zenon DEF WorkerOK, WorkerStates, BatchOK
<1>7. Head(b) = b[1] /\ b[1] \in Nat \ {0} /\ Tail(b) \in Seq(Nat)
  BY <1>3, <1>6, RestBegins, Taken, ZenonT(60)
<1>8. Key(t, b[1]) \in Nat \ {0}
  BY <1>7, KeySteps, Zenon
<1>9. PICK mark : mark = SetLowWatermark(c[t], Key(t, b[1]))
  BY Zenon
<1>10. mark \in Watermarks /\ mark.low = Key(t, b[1])
  BY <1>6, <1>8, <1>9, ZenonT(60) DEF SetLowWatermark, CheckComplete, Watermarks
<1>11. x \in TaskSet /\ x.kind = "row" /\ x.table = t /\ x.row = b[1]
  BY <1>2, <1>5, <1>6, <1>7, TasksAre, ZenonT(60) DEF ReadEvent
<1>12. PICK d : d = [c EXCEPT ![t] = mark]
  BY Zenon
<1>13. d \in Contexts /\ d[t] = mark /\ \A u \in Tables : u # t => d[u] = c[u]
  BY <1>5, <1>6, <1>10, <1>12, ZenonT(60) DEF Contexts
<1>14. w.at = "rows" /\ w.table = t /\ w.local = d /\ w.batch = Tail(b)
  <2>1. w = [worker[p] EXCEPT !.local = d, !.batch = Tail(b)]
    BY <1>1, <1>5, <1>6, <1>7, <1>9, <1>12, ZenonT(60) DEF WorkerStates, Contexts
  <2> QED
    BY <1>3, <1>6, <1>7, <2>1, Zenon DEF WorkerStates
<1>15. worker'[p] = w /\ \A q \in Partitions : q # p => worker'[q] = worker[q]
  BY <1>3, WorkersAfter, Zenon DEF OneWorker
<1>16. /\ up /\ UNCHANGED <<config, up, file, context, handled, finished, out, emitted, dropped, fresh>>
  BY <1>3, Zenon DEF OneWorker
<1>17. /\ worker'[p].at = "rows" /\ worker'[p].table = t /\ worker'[p].batch = Tail(b) /\ worker'[p].local \in Contexts
       /\ worker'[p].local[t] \in Watermarks /\ worker'[p].local[t] = SetLowWatermark(c[t], Key(t, b[1]))
       /\ worker'[p].local[t].low = Key(t, b[1])
       /\ \A u \in Tables : u # t => worker'[p].local[u] = c[u]
  BY <1>9, <1>10, <1>13, <1>14, <1>15, Zenon
<1>18. \E y \in TaskSet : y.kind = "row" /\ y.table = t /\ y.row = b[1] /\ tasks' = Append(tasks, y)
  BY <1>3, <1>11, Zenon
<1> QED
  BY <1>3, <1>4, <1>5, <1>6, <1>7, <1>8, <1>15, <1>16, <1>17, <1>18, ZenonT(60) DEF RowHanded
===============================================================================
