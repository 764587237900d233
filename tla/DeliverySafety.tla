---------------------------- MODULE DeliverySafety ----------------------------
(***************************************************************************)
(* PathInv and DeliveryInv are inductive, and the theorems that follow.    *)
(* PathInv needs no condition on the WAL.  On top of it, an event          *)
(* acknowledges the end of its own message, and no unsettled row precedes  *)
(* the event at the head of the queue (HeadLeast), so the acknowledged     *)
(* position stays behind every row that is not settled; all the rest of    *)
(* the invariant serves this step.                                         *)
(***************************************************************************)
EXTENDS DeliveryProofs

-------------------------------------------------------------------------------
\* Decompression markers

(***************************************************************************)
(* Rows are discarded on the same grounds as before the step, unless an    *)
(* end marker leaves the queue.                                            *)
(***************************************************************************)
LEMMA MarksKeep ==
  ASSUME MarksInv, phase' = "up" => phase = "up", UNCHANGED <<restart, cursor, finalLSN>>,
         active' => active, ongoing' => ongoing, decompression' => decompression \/ Mode = "window",
         \/ Waiting(tasks') = Waiting(tasks)
         \/ \E i \in Positions : Kind(i) # "endmark" /\ Waiting(tasks') = Waiting(tasks) \ {i}
         \/ ~active'
         \/ ~ongoing'
  PROVE  MarksInv'
<1>1. (Mode # "window" => ~decompression') /\ (ongoing' => Mode = "markers")
  BY Zenon DEF MarksInv
<1> SUFFICES ASSUME phase' = "up", active', ongoing'
             PROVE  \E k \in Positions : /\ Kind(k) = "startmark" /\ Stream[k].final = finalLSN
                                         /\ Passed(k, Waiting(tasks'), restart, cursor)
  BY <1>1, Zenon DEF MarksInv
<1>2. PICK k \in Positions : /\ Kind(k) = "startmark" /\ Stream[k].final = finalLSN
                             /\ Passed(k, Waiting(tasks), restart, cursor)
  BY Zenon DEF MarksInv
<1>3. CASE Waiting(tasks') = Waiting(tasks)
  BY <1>2, <1>3, Zenon
<1>4. CASE \E i \in Positions : Kind(i) # "endmark" /\ Waiting(tasks') = Waiting(tasks) \ {i}
  <2>1. PICK i \in Positions : Kind(i) # "endmark" /\ Waiting(tasks') = Waiting(tasks) \ {i}
    BY <1>4, Zenon
  <2>2. ~Closes(i, k)
    BY <1>2, <2>1, Zenon DEF Closes
  <2>3. Passed(k, Waiting(tasks) \ {i}, restart, cursor)
    BY <1>2, <2>2, PassedPop, Zenon
  <2> QED BY <1>2, <2>1, <2>3, Zenon
<1> QED BY <1>3, <1>4, Zenon

(***************************************************************************)
(* The dispatcher keeps the grounds on which rows are discarded.           *)
(***************************************************************************)
LEMMA DispatchMarks == PathInv /\ Dispatch => MarksInv'
  (***************************************************************************)
  (* Collecting a message or handing it to the resolver takes it off the     *)
  (* queue and leaves the transaction alone.                                 *)
  (***************************************************************************)
<1>PushOrResolveWaits. ASSUME PathInv, Dispatches(Kinds), PushOrResolve(Head(tasks).at)
                       PROVE  /\ UNCHANGED <<phase, active, finalLSN, closing>>
                              /\ Waiting(tasks') = Waiting(tasks) \ {Head(tasks).at}
  <2> USE <1>PushOrResolveWaits
  <2> DEFINE i == Head(tasks).at
             q == Tail(tasks)
  <2>1. phase = "up" /\ tasks # <<>> /\ Head(tasks).op = "logical" /\ UNCHANGED <<active, finalLSN, closing>>
    BY Zenon DEF Dispatches, PushOrResolve
  <2>2. /\ tasks \in Seq(Task) /\ i \in Positions /\ q \in Seq(Task)
        /\ Waiting(q) = Waiting(tasks) \ {i}
    BY <2>1, HeadTask, TakenFromWaiting, Zenon DEF PathInv, TypeOK
  <2>3. CASE Collects
    BY <2>1, <2>2, <2>3, Zenon DEF PushOrResolve, Push
  <2>4. CASE ~Collects
    <3>1. HasRelation(i) => Stream[i].relation \in resolved
      BY <2>1, FittingHolds, FittingPop, Zenon DEF PathInv, SessionInv, TypeOK
    <3>2. phase' = phase /\ (tasks' = q \/ tasks' = Append(q, NewTask("record", i)))
      BY <2>2, <2>4, <3>1, ResolveKnown, Zenon DEF PushOrResolve
    <3>3. Waiting(Append(q, NewTask("record", i))) = Waiting(q)
      BY <2>2, NewTaskType, WaitingAppend, Zenon DEF NewTask
    <3> QED BY <2>1, <2>2, <3>2, <3>3, Zenon
  <2> QED BY <2>3, <2>4, Zenon

  (***************************************************************************)
  (* A start marker belongs to the open transaction.                         *)
  (***************************************************************************)
<1>StartMark. ASSUME PathInv, Dispatches({"startmark"}), Mode = "markers", tasks' = Tail(tasks),
                     UNCHANGED <<phase, restart, cursor, active, finalLSN, decompression>>
              PROVE  MarksInv'
  <2> USE <1>StartMark
  <2> DEFINE i == Head(tasks).at
             w == Waiting(tasks)
  <2>1. phase = "up" /\ ~draining /\ tasks # <<>> /\ Head(tasks).op = "logical" /\ Kind(i) = "startmark"
    BY Zenon DEF Dispatches, Kind
  <2>2. i \in Positions /\ i < cursor /\ cursor \in Nat
    BY <2>1, HeadMessage, Zenon
  <2>3. /\ w \in SUBSET Positions /\ i \in w /\ \A m \in w : i <= m
        /\ Paired(w, restart, cursor) /\ Waiting(tasks') = w \ {i}
    BY <2>1, TakenFromWaiting, Zenon
  <2>4. Passed(i, w \ {i}, restart, cursor)
    BY <2>2, <2>3, PairedPop, Zenon
  <2>5. active => Stream[i].final = finalLSN
    <3> SUFFICES ASSUME active PROVE Stream[i].final = finalLSN
      BY Zenon
    <3>1. PICK b \in Positions : /\ Kind(b) = "begin" /\ Stream[b].final = finalLSN
                                 /\ Passed(b, w, restart, cursor)
      BY <2>1, Zenon DEF PathInv, OpenInv
    <3>2. b < i
      BY <2>3, <3>1, Zenon DEF Passed
    <3> QED BY <2>2, <2>3, <3>1, <3>2, SameTransaction
  <2>6. ~decompression
    BY Zenon DEF PathInv, MarksInv
  <2> QED BY <2>1, <2>2, <2>3, <2>4, <2>5, <2>6, Zenon DEF MarksInv

<1> SUFFICES ASSUME PathInv, Dispatch PROVE MarksInv'
  BY Zenon
<1> DEFINE i == Head(tasks).at
           Taken == Waiting(tasks') = Waiting(tasks) \ {i}
<1>1. MarksInv /\ phase = "up"
  BY SlotUntouched, Zenon DEF PathInv
<1>2. ASSUME NEW S \in SUBSET Kinds, Dispatches(S)
      PROVE  /\ Dispatches(Kinds) /\ i \in Positions /\ tasks # <<>>
             /\ tasks' = Tail(tasks) => Taken
  <2>1. Dispatches(Kinds) /\ phase = "up" /\ tasks # <<>> /\ Head(tasks).op = "logical"
    BY <1>2, Zenon DEF Dispatches
  <2> QED BY <2>1, HeadTask, TakenFromWaiting, Zenon DEF PathInv
<1>3. CASE OnRelationEvent \/ OnRecordEvent \/ OnTransactionFinishedEvent
  <2>1. /\ tasks # <<>> /\ Head(tasks).op # "logical" /\ tasks' = Tail(tasks)
        /\ UNCHANGED <<phase, restart, cursor, finalLSN, active, ongoing, decompression>>
    BY <1>3, Zenon DEF OnRelationEvent, OnRecordEvent, OnTransactionFinishedEvent, session, server, tracker, flags
  <2>2. Waiting(tasks') = Waiting(tasks)
    BY <1>1, <2>1, TakenFromWaiting, ZenonT(30)
  <2> QED BY <1>1, <2>1, <2>2, MarksKeep, ZenonT(30)
<1>4. CASE OnBeginEvent
  <2>1. Dispatches({"begin"}) /\ tasks' = Tail(tasks) /\ UNCHANGED <<phase, restart, cursor>>
    BY <1>4, Zenon DEF OnBeginEvent, session, server
  <2>2. CASE ~Tracking
    <3>1. UNCHANGED <<finalLSN, active, ongoing, decompression>>
      BY <1>4, <2>2, Zenon DEF OnBeginEvent, tracker, flags
    <3>2. ~ongoing
      BY <1>1, <2>2, Zenon DEF MarksInv, Tracking
    <3> QED BY <1>1, <2>1, <3>1, <3>2, MarksKeep, ZenonT(30)
  <2>3. CASE Tracking
    BY <1>4, <2>3, Zenon DEF OnBeginEvent, MarksInv
  <2> QED BY <2>2, <2>3, Zenon
<1>5. CASE OnCommitEvent
  <2>1. active' = FALSE /\ UNCHANGED <<phase, restart, cursor, finalLSN, ongoing, decompression>>
    BY <1>5, Zenon DEF OnCommitEvent, session, server, flags
  <2> QED BY <1>1, <2>1, Zenon DEF MarksInv
<1>6. CASE OnInsertEvent
  <2>1. Dispatches({"insert"}) /\ Kind(i) # "endmark" /\ UNCHANGED <<restart, cursor>>
    BY <1>6, Zenon DEF OnInsertEvent, Dispatches, Kind, server
  <2>2. Dispatches(Kinds) /\ i \in Positions /\ (tasks' = Tail(tasks) => Taken)
    BY <1>2, <2>1, Zenon DEF Kinds, RowKinds
  <2>3. Taken /\ UNCHANGED <<phase, finalLSN, active, ongoing, decompression>>
    <3>1. CASE tasks' = Tail(tasks) /\ UNCHANGED <<phase, tracker>>
      BY <2>2, <3>1, Zenon DEF tracker, flags
    <3>2. CASE PushOrResolve(i) /\ UNCHANGED flags
      BY <2>2, <3>2, <1>PushOrResolveWaits, Zenon DEF flags
    <3> QED BY <1>6, <3>1, <3>2, Zenon DEF OnInsertEvent
  <2> QED BY <1>1, <2>1, <2>2, <2>3, MarksKeep, ZenonT(30)
<1>7. CASE OnChangeEvent \/ OnChunkUpdateEvent
  <2>1. /\ Dispatches({"change", "drop", "compress", "decompress"}) /\ Kind(i) # "endmark"
        /\ PushOrResolve(i) /\ UNCHANGED <<restart, cursor, ongoing>>
        /\ decompression' => decompression \/ Mode = "window"
    <3>1. CASE OnChangeEvent
      BY <3>1, Zenon DEF OnChangeEvent, Dispatches, Kind, server, flags
    <3>2. CASE OnChunkUpdateEvent
      <4>1. decompression' => decompression \/ Mode = "window"
        BY <3>2, Zenon DEF OnChunkUpdateEvent
      <4> QED BY <3>2, <4>1, Zenon DEF OnChunkUpdateEvent, Dispatches, Kind, server
    <3> QED BY <1>7, <3>1, <3>2, Zenon
  <2>2. Dispatches(Kinds) /\ i \in Positions
    BY <1>2, <2>1, Zenon DEF Kinds, RowKinds, ChunkKinds
  <2>3. Taken /\ UNCHANGED <<phase, finalLSN, active>>
    BY <2>1, <2>2, <1>PushOrResolveWaits, Zenon
  <2> QED BY <1>1, <2>1, <2>2, <2>3, MarksKeep, ZenonT(30)
<1>8. CASE OnMarkerEvent
  <2>1. Dispatches(MarkKinds) /\ UNCHANGED <<restart, cursor, decompression>>
    BY <1>8, Zenon DEF OnMarkerEvent, server
  <2>2. Dispatches(Kinds) /\ i \in Positions /\ Kind(i) \in {"startmark", "endmark"}
    BY <1>2, <2>1, ZenonT(60) DEF Kinds, MarkKinds, Dispatches, Kind
  <2>3. CASE Mode = "markers" /\ Kind(i) = "startmark"
    <3>1. tasks' = Tail(tasks) /\ UNCHANGED <<phase, active, finalLSN>>
      BY <1>8, <2>3, ZenonT(30) DEF OnMarkerEvent, Kind
    <3>2. Dispatches({"startmark"})
      BY <2>2, <2>3, ZenonT(30) DEF Dispatches, Kind
    <3> QED BY <2>1, <2>3, <3>1, <3>2, <1>StartMark, ZenonT(30)
  <2>4. CASE Mode = "markers" /\ Kind(i) # "startmark" /\ active /\ ongoing
    <3>1. ongoing' = FALSE
      BY <1>8, <2>4, Zenon DEF OnMarkerEvent, Kind
    <3> QED BY <1>1, <2>1, <3>1, ZenonT(30) DEF MarksInv
  <2>5. CASE ~(Mode = "markers" /\ (Kind(i) = "startmark" \/ (active /\ ongoing)))
    <3>1. PushOrResolve(i) /\ UNCHANGED ongoing
      BY <1>8, <2>5, ZenonT(30) DEF OnMarkerEvent, Kind
    <3>2. Taken /\ UNCHANGED <<phase, finalLSN, active>>
      BY <2>2, <3>1, <1>PushOrResolveWaits, ZenonT(30)
    <3>3. ~(active' /\ ongoing')
      BY <1>1, <2>5, <3>1, <3>2, ZenonT(30) DEF MarksInv
    <3> QED BY <1>1, <2>1, <3>1, <3>2, <3>3, MarksKeep, ZenonT(30)
  <2> QED BY <2>3, <2>4, <2>5, Zenon
<1>9. CASE Drain
  <2>1. /\ phase' = "up" /\ Waiting(tasks') = Waiting(tasks)
        /\ UNCHANGED <<restart, cursor, active, finalLSN, ongoing, decompression>>
    BY <1>9, DrainTasks, Zenon DEF Drain, flags
  <2> QED BY <1>1, <2>1, MarksKeep, ZenonT(30)
<1> QED BY <1>3, <1>4, <1>5, <1>6, <1>7, <1>8, <1>9, Zenon DEF Dispatch

-------------------------------------------------------------------------------
\* The path as a whole

(***************************************************************************)
(* The dispatcher keeps the shape of the pipeline.                         *)
(***************************************************************************)
LEMMA DispatchShape == PathInv /\ Dispatch => ShapeInv'
  (***************************************************************************)
  (* A message behind all collected ones may be collected.                   *)
  (***************************************************************************)
<1>OrderPush. ASSUME NEW q \in Seq(Task), NEW h \in Seq(Positions), Ordered(q, h, 0),
                     NEW i \in Positions,
                     \A n \in Events(q) : q[n].at < i,
                     \A n \in Messages(q) : i < q[n].at,
                     \A n \in DOMAIN h : h[n] < i
              PROVE  Ordered(q, Append(h, i), 0)
  <2> USE <1>OrderPush
  <2> DEFINE r == Append(h, i)
  <2>1. \A n \in DOMAIN r : \/ n \in DOMAIN h /\ r[n] = h[n] /\ n \in Nat /\ n < Len(h) + 1
                            \/ n = Len(h) + 1 /\ r[n] = i /\ Len(h) \in Nat
    BY AppendElements
  <2> HIDE DEF r
  <2>2. \A m, n \in DOMAIN r : m < n => r[m] < r[n]
    BY <2>1, SMTT(30) DEF Ordered
  <2> QED BY <2>1, <2>2, SMTT(30) DEF Ordered

  (***************************************************************************)
  (* Collecting the next message keeps the pipeline.                         *)
  (***************************************************************************)
<1>PipelinePush. ASSUME NEW q \in Seq(Task), NEW h \in Seq(Positions), NEW next, Pipeline(q, h, 0, next),
                        NEW i \in Positions,
                        \A n \in Events(q) : q[n].at < i,
                        \A n \in Messages(q) : i < q[n].at,
                        \A n \in DOMAIN h : h[n] < i,
                        i < next, Kind(i) # "begin"
                 PROVE  Pipeline(q, Append(h, i), 0, next)
  <2> USE <1>PipelinePush
  <2>1. Ordered(q, Append(h, i), 0)
    BY <1>OrderPush, ZenonT(30) DEF Pipeline
  <2>2. \A n \in DOMAIN Append(h, i) : \/ n \in DOMAIN h /\ Append(h, i)[n] = h[n]
                                       \/ Append(h, i)[n] = i
    BY AppendElements
  <2>3. Below(q, Append(h, i), 0, next)
    BY <2>2, Zenon DEF Pipeline, Below
  <2>4. KindsFit(q, Append(h, i), 0)
    BY <2>2, ZenonT(30) DEF Pipeline, KindsFit
  <2> QED BY <2>1, <2>3, <2>4, ZenonT(30) DEF Pipeline

  (***************************************************************************)
  (* A commit taken from the head of the queue may be processed while the    *)
  (* collected messages are drained.                                         *)
  (***************************************************************************)
<1>PipelineClosing. ASSUME NEW q \in Seq(Task), NEW h \in Seq(Positions), NEW next, Pipeline(q, h, 0, next),
                           NEW i \in Positions,
                           \A n \in Events(q) : q[n].at < i,
                           \A n \in Messages(q) : i < q[n].at,
                           \A n \in DOMAIN h : h[n] < i,
                           i < next, Kind(i) = "commit"
                    PROVE  Pipeline(q, h, i, next)
  BY <1>PipelineClosing, ZenonT(30) DEF Pipeline, Ordered, Below, KindsFit

  (***************************************************************************)
  (* Taking the first task off the queue, unless it is a commit.             *)
  (***************************************************************************)
<1>PopShape. ASSUME PathInv, phase = "up", tasks # <<>>, tasks' = Tail(tasks),
                    UNCHANGED <<phase, restart, cursor, active, finalLSN, spilled, held, draining, closing>>,
                    Head(tasks).op = "logical" => Kind(Head(tasks).at) # "commit"
             PROVE  ShapeInv'
  <2> USE <1>PopShape
  <2>1. tasks \in Seq(Task) /\ Held \in Seq(Positions) /\ Held' = Held /\ Head(tasks).at \in Positions
    BY HeldType, HeadTask, ZenonT(30) DEF PathInv, TypeOK, Held
  <2>2. PipelineInv'
    BY <2>1, PipelineTail, ZenonT(30) DEF PathInv, PipelineInv
  <2>3. PairedInv'
    BY TakenFromWaiting, ZenonT(30) DEF PairedInv
  <2>4. OpenInv'
    <3>1. \A n \in Events(tasks') : \E m \in Events(tasks) : tasks'[n].at = tasks[m].at
      BY <2>1, TailStages, ZenonT(60)
    <3>2. \/ Waiting(tasks') = Waiting(tasks)
          \/ \E i \in Positions : Kind(i) # "commit" /\ Waiting(tasks') = Waiting(tasks) \ {i}
      BY <2>1, TakenFromWaiting, ZenonT(30)
    <3>3. Collects' <=> Collects
      BY ZenonT(30) DEF Collects
    <3> QED BY <3>1, <3>2, <3>3, OpenKeeps, Zenon
  <2>5. WindowState'
    BY ZenonT(30) DEF PathInv, WindowState
  <2> QED BY <2>2, <2>3, <2>4, <2>5, ZenonT(30) DEF ShapeInv

  (***************************************************************************)
  (* While nothing is drained, messages that pass the tracker find it empty. *)
  (***************************************************************************)
<1>PassFindsEmpty. ASSUME PathInv, phase = "up", ~draining, ~Collects
                   PROVE  Held = <<>>
  BY <1>PassFindsEmpty, ZenonT(30) DEF PathInv, WindowState, Collects, Held

  (***************************************************************************)
  (* Turning the message at the head of the queue into an event at its end.  *)
  (***************************************************************************)
<1>RecordShape. ASSUME PathInv, phase = "up", phase' = "up", tasks # <<>>, ~draining, ~Collects,
                       UNCHANGED <<restart, cursor, active, finalLSN, spilled, held, draining, closing>>,
                       Head(tasks).op = "logical", Kind(Head(tasks).at) \notin {"begin", "commit"},
                       tasks' = Append(Tail(tasks), NewTask("record", Head(tasks).at))
                PROVE  ShapeInv'
  <2> USE <1>RecordShape
  <2> DEFINE i == Head(tasks).at
             q == Tail(tasks)
             t == NewTask("record", i)
  <2>1. /\ tasks \in Seq(Task) /\ q \in Seq(Task) /\ i \in Positions /\ i \in Nat
        /\ closing = 0 /\ i < cursor /\ Pipeline(q, Held, 0, cursor)
        /\ \A n \in Events(q) : q[n].at < i
        /\ \A n \in Messages(q) : i < q[n].at
    BY HeadMessage, ZenonT(60)
  <2>2. Held = <<>> /\ Held' = <<>> /\ <<>> \in Seq(Positions)
    BY <1>PassFindsEmpty, EmptySeq, ZenonT(30) DEF Held
  <2>3. PipelineInv'
    <3>1. \A n \in Events(q) : q[n].at <= i
      BY <2>1, QueueElements, SMTT(30) DEF Events
    <3>2. \A n \in DOMAIN <<>> : i < <<>>[n]
      BY EmptySeq, LenProperties
    <3>3. Pipeline(Append(q, t), <<>>, 0, cursor)
      BY <2>1, <2>2, <3>1, <3>2, PipelineEvent, ZenonT(60)
    <3> QED BY <2>1, <2>2, <3>3, ZenonT(30) DEF PipelineInv
  <2>4. Waiting(tasks') = Waiting(q)
    BY <2>1, NewTaskType, WaitingAppend, Zenon DEF NewTask
  <2>5. PairedInv'
    BY <2>4, TakenFromWaiting, ZenonT(30) DEF PairedInv
  <2>6. OpenInv'
    <3>1. \E k \in Positions : Kind(k) # "commit" /\ Waiting(tasks') = Waiting(tasks) \ {k}
      BY <2>1, <2>4, TakenFromWaiting, ZenonT(30)
    <3>2. ~Collects'
      BY ZenonT(30) DEF Collects
    <3> QED BY <3>1, <3>2, OpenKeeps, ZenonT(30)
  <2>7. WindowState'
    BY ZenonT(30) DEF PathInv, WindowState
  <2> QED BY <2>3, <2>5, <2>6, <2>7, ZenonT(30) DEF ShapeInv

  (***************************************************************************)
  (* Moving the message at the head of the queue into the window.            *)
  (***************************************************************************)
<1>PushShape. ASSUME PathInv, phase = "up", phase' = "up", tasks # <<>>, ~draining, Collects,
                     UNCHANGED <<restart, cursor, active, finalLSN, closing>>,
                     Head(tasks).op = "logical", Kind(Head(tasks).at) \notin {"begin", "commit"},
                     tasks' = Tail(tasks), held' = Append(held, Head(tasks).at), draining' = spilled'
              PROVE  ShapeInv'
  <2> USE <1>PushShape
  <2> DEFINE i == Head(tasks).at
             q == Tail(tasks)
  <2>1. /\ tasks \in Seq(Task) /\ q \in Seq(Task) /\ i \in Positions
        /\ closing = 0 /\ i < cursor /\ Pipeline(q, Held, 0, cursor)
        /\ \A n \in Events(q) : q[n].at < i
        /\ \A n \in Messages(q) : i < q[n].at
        /\ \A n \in DOMAIN Held : Held[n] < i
    BY HeadMessage, ZenonT(60)
  <2>2. Held = held /\ Held' = Append(held, i) /\ held \in Seq(Positions)
    BY ZenonT(30) DEF Held, Collects, PathInv, TypeOK
  <2>3. PipelineInv'
    <3>1. Pipeline(q, Append(held, i), 0, cursor)
      BY <2>1, <2>2, <1>PipelinePush, ZenonT(60)
    <3> QED BY <2>1, <2>2, <3>1, ZenonT(30) DEF PipelineInv
  <2>4. PairedInv'
    BY TakenFromWaiting, ZenonT(30) DEF PairedInv
  <2>5. OpenInv'
    <3>1. \E k \in Positions : Kind(k) # "commit" /\ Waiting(tasks') = Waiting(tasks) \ {k}
      BY <2>1, TakenFromWaiting, ZenonT(30)
    <3>2. \A n \in DOMAIN held' : held'[n] \in Waiting(tasks) \/ \E m \in DOMAIN held : held'[n] = held[m]
      BY <2>1, <2>2, AppendElements, TakenFromWaiting, SMTT(30)
    <3>3. \A n \in Events(tasks') : \E m \in Events(tasks) : tasks'[n].at = tasks[m].at
      BY <2>1, TailStages, Zenon
    <3> QED BY <3>1, <3>2, <3>3, OpenKeeps, Zenon
  <2>6. WindowState'
    BY <2>1, ZenonT(30) DEF PathInv, WindowState, Collects
  <2> QED BY <2>3, <2>4, <2>5, <2>6, ZenonT(30) DEF ShapeInv

  (***************************************************************************)
  (* Collecting a message or handing it to the resolver.                     *)
  (***************************************************************************)
<1>PushOrResolveShape. ASSUME PathInv, Dispatches(Kinds), Kind(Head(tasks).at) \notin {"begin", "commit"},
                              UNCHANGED <<restart, cursor>>, PushOrResolve(Head(tasks).at)
                       PROVE  ShapeInv'
  <2> USE <1>PushOrResolveShape
  <2> DEFINE i == Head(tasks).at
  <2>1. phase = "up" /\ tasks # <<>> /\ ~draining /\ Head(tasks).op = "logical"
    BY ZenonT(30) DEF Dispatches
  <2>2. i \in Positions
    BY <2>1, HeadTask, ZenonT(30) DEF PathInv
  <2>3. CASE Collects
    <3>1. /\ UNCHANGED <<phase, active, finalLSN, closing>>
          /\ tasks' = Tail(tasks) /\ held' = Append(held, i) /\ draining' = spilled'
      BY <2>3, ZenonT(30) DEF PushOrResolve, Push
    <3> QED BY <2>1, <2>3, <3>1, <1>PushShape, ZenonT(30)
  <2>4. CASE ~Collects
    <3>1. /\ Resolve(i, Tail(tasks))
          /\ UNCHANGED <<spilled, held, draining, active, finalLSN, closing>>
      BY <2>4, ZenonT(60) DEF PushOrResolve
    <3>2. HasRelation(i) => Stream[i].relation \in resolved
      BY <2>1, FittingHolds, FittingPop, ZenonT(30) DEF PathInv, SessionInv, TypeOK
    <3>3. /\ phase' = phase
          /\ tasks' = Tail(tasks) \/ tasks' = Append(Tail(tasks), NewTask("record", i))
      BY <2>2, <3>1, <3>2, ResolveKnown, Zenon
    <3>4. CASE tasks' = Append(Tail(tasks), NewTask("record", i))
      BY <2>1, <2>4, <3>1, <3>3, <3>4, <1>RecordShape, ZenonT(30)
    <3>5. CASE tasks' = Tail(tasks)
      BY <2>1, <3>1, <3>3, <3>5, <1>PopShape, ZenonT(30)
    <3> QED BY <3>3, <3>4, <3>5, ZenonT(30)
  <2> QED BY <2>3, <2>4, ZenonT(30)

  (***************************************************************************)
  (* OnBeginEvent.                                                           *)
  (***************************************************************************)
<1>BeginShape. ASSUME PathInv, OnBeginEvent
               PROVE  ShapeInv'
  <2> USE <1>BeginShape
  <2> DEFINE i == Head(tasks).at
             q == Tail(tasks)
  <2>1. /\ phase = "up" /\ ~draining /\ tasks # <<>> /\ Head(tasks).op = "logical"
        /\ Kind(i) = "begin" /\ tasks' = q /\ ~active
        /\ UNCHANGED <<phase, restart, cursor>>
    BY BeginFindsClosed, ZenonT(30) DEF OnBeginEvent, Dispatches, Kind, session, server
  <2>2. CASE ~Tracking
    <3>1. UNCHANGED <<active, finalLSN, spilled, held, draining, closing>>
      BY <2>2, ZenonT(30) DEF OnBeginEvent, tracker
    <3> QED BY <2>1, <3>1, <1>PopShape, ZenonT(30)
  <2>3. CASE Tracking
    <3>1. /\ active' = TRUE /\ finalLSN' = Stream[i].final /\ spilled' = FALSE /\ held' = <<>>
          /\ UNCHANGED <<draining, closing>>
      BY <2>3, ZenonT(30) DEF OnBeginEvent
    <3>2. /\ i \in Positions /\ i < cursor /\ closing = 0 /\ Pipeline(q, Held, 0, cursor)
          /\ \A n \in Events(q) : q[n].at < i
      BY <2>1, HeadMessage, Zenon
    <3>3. Held' = <<>> /\ DOMAIN <<>> = {}
      BY <3>1, EmptySeq, LenProperties, SMTT(30) DEF Held
    <3>4. PipelineInv'
      BY <2>1, <3>1, <3>2, <3>3, PipelineNoHeld, ZenonT(30) DEF PipelineInv
    <3>5. PairedInv'
      BY <2>1, TakenFromWaiting, ZenonT(30) DEF PairedInv
    <3>6. OpenInv'
      <4>1. Passed(i, Waiting(tasks) \ {i}, restart, cursor) /\ Waiting(q) = Waiting(tasks) \ {i}
        BY <2>1, <3>2, TakenFromWaiting, PairedPop, ZenonT(30)
      <4>2. Passed(i, Waiting(q), restart, cursor)
        BY <4>1, ZenonT(30)
      <4> QED BY <2>1, <3>1, <3>2, <3>3, <4>2, ZenonT(60) DEF OpenInv
    <3>7. WindowState'
      BY <2>1, <3>1, <3>2, ZenonT(30) DEF WindowState
    <3> QED BY <3>4, <3>5, <3>6, <3>7, ZenonT(30) DEF ShapeInv
  <2> QED BY <2>2, <2>3, ZenonT(30)

  (***************************************************************************)
  (* OnCommitEvent, whether it passes the commit on, ends a compression or   *)
  (* starts to drain.                                                        *)
  (***************************************************************************)
<1>CommitShape. ASSUME PathInv, OnCommitEvent
                PROVE  ShapeInv'
  <2> USE <1>CommitShape
  <2> DEFINE i == Head(tasks).at
             q == Tail(tasks)
  <2>1. /\ phase = "up" /\ ~draining /\ tasks # <<>> /\ Head(tasks).op = "logical"
        /\ Kind(i) = "commit" /\ active' = FALSE
        /\ UNCHANGED <<phase, restart, cursor, spilled, held>>
        /\ Waiting(tasks') = Waiting(q)
    BY CommitTasks, ZenonT(30)
  <2>2. PairedInv' /\ OpenInv'
    BY <2>1, TakenFromWaiting, ZenonT(30) DEF PairedInv, OpenInv
  <2>3. /\ i \in Positions /\ i < cursor /\ closing = 0
        /\ q \in Seq(Task) /\ Held \in Seq(Positions) /\ Pipeline(q, Held, 0, cursor)
        /\ \A n \in Events(q) : q[n].at < i
        /\ \A n \in Messages(q) : i < q[n].at
        /\ \A n \in DOMAIN Held : Held[n] < i
    BY <2>1, HeadMessage, ZenonT(60)
  <2>4. CASE Fits(tasks', i) /\ UNCHANGED <<draining, closing>>
    <3>1. Held' = <<>>
      BY <2>1, <2>4, ZenonT(30) DEF Held
    <3>2. PipelineInv'
      BY <2>1, <2>3, <2>4, <3>1, ZenonT(30) DEF PipelineInv, Fits
    <3>3. WindowState'
      BY <2>1, <2>4, ZenonT(30) DEF PathInv, WindowState
    <3> QED BY <2>2, <3>2, <3>3, ZenonT(30) DEF ShapeInv
  <2>5. CASE /\ Mode = "window" /\ active
             /\ tasks' = q /\ draining' = TRUE /\ closing' = i
    <3>1. Held' = Held
      BY <2>1, <2>5, ZenonT(30) DEF Held
    <3>2. Pipeline(q, Held, i, cursor)
      BY <2>1, <2>3, <1>PipelineClosing, ZenonT(60)
    <3>3. PipelineInv' /\ WindowState'
      BY <2>1, <2>5, <3>1, <3>2, ZenonT(30) DEF PipelineInv, WindowState
    <3> QED BY <2>2, <3>3, ZenonT(30) DEF ShapeInv
  <2> QED BY <2>4, <2>5, CommitTasks, Zenon

  (***************************************************************************)
  (* A step of drain(), and the commit after its last one.                   *)
  (***************************************************************************)
<1>DrainShape. ASSUME PathInv, Drain
               PROVE  ShapeInv'
  <2> USE <1>DrainShape
  <2>1. /\ phase = "up" /\ phase' = "up" /\ draining
        /\ UNCHANGED <<restart, cursor, active, finalLSN, spilled>>
        /\ Waiting(tasks') = Waiting(tasks)
        /\ Pipeline(tasks', Held', closing', cursor)
        /\ \/ held # <<>> /\ held' = Tail(held) /\ UNCHANGED <<draining, closing>>
           \/ held = <<>> /\ held' = <<>> /\ draining' = FALSE /\ closing' = 0
    BY DrainTasks, Zenon
  <2>2. PipelineInv' /\ PairedInv'
    BY <2>1, ZenonT(30) DEF PathInv, PipelineInv, PairedInv
  <2>3. OpenInv'
    <3>1. \A n \in DOMAIN held' : \E m \in DOMAIN held : held'[n] = held[m]
      <4>1. held \in Seq(Positions)
        BY ZenonT(30) DEF PathInv, TypeOK
      <4>2. held = <<>> => DOMAIN held = {}
        BY EmptySeq, LenProperties
      <4>3. held # <<>> => \A n \in DOMAIN Tail(held) : n + 1 \in DOMAIN held /\ Tail(held)[n] = held[n + 1]
        BY <4>1, TailElements, ZenonT(30)
      <4>4. CASE held = <<>>
        BY <2>1, <4>2, <4>4, ZenonT(30)
      <4>5. CASE held # <<>>
        BY <2>1, <4>3, <4>5, Zenon
      <4> QED BY <4>4, <4>5, ZenonT(30)
    <3>2. ~Collects'
      BY <2>1, ZenonT(30) DEF Collects, PathInv, WindowState
    <3> QED BY <2>1, <3>1, <3>2, OpenKeeps, ZenonT(30)
  <2>4. WindowState'
    <3>1. Mode # "window" => held = <<>>
      BY <2>1, ZenonT(30) DEF PathInv, WindowState
    <3>2. active /\ draining => spilled
      BY <2>1, ZenonT(30) DEF PathInv, WindowState
    <3> QED BY <2>1, <3>1, <3>2, Zenon DEF WindowState
  <2> QED BY <2>2, <2>3, <2>4, ZenonT(30) DEF ShapeInv

<1> SUFFICES ASSUME PathInv, Dispatch PROVE ShapeInv'
  BY ZenonT(30)
<1> DEFINE i == Head(tasks).at
<1>1. CASE OnRelationEvent \/ OnRecordEvent \/ OnTransactionFinishedEvent
  <2>1. /\ phase = "up" /\ tasks # <<>> /\ Head(tasks).op # "logical" /\ tasks' = Tail(tasks)
        /\ UNCHANGED <<phase, restart, cursor, active, finalLSN, spilled, held, draining, closing>>
    BY <1>1, ZenonT(30) DEF OnRelationEvent, OnRecordEvent, OnTransactionFinishedEvent, session, server, tracker
  <2> QED BY <2>1, <1>PopShape, ZenonT(30)
<1>2. ASSUME NEW S, Dispatches(S), \A k \in S : k \notin {"begin", "commit"} /\ k \in Kinds
      PROVE  /\ Dispatches(Kinds) /\ Kind(i) \notin {"begin", "commit"}
             /\ phase = "up" /\ tasks # <<>>
  BY <1>2, ZenonT(30) DEF Dispatches, Kind
<1>3. CASE OnInsertEvent
  <2>1. /\ Dispatches(Kinds) /\ Kind(i) \notin {"begin", "commit"}
        /\ phase = "up" /\ tasks # <<>> /\ UNCHANGED <<restart, cursor>>
    BY <1>2, <1>3, ZenonT(60) DEF OnInsertEvent, Kinds, RowKinds, server
  <2>2. CASE PushOrResolve(i)
    BY <2>1, <2>2, <1>PushOrResolveShape, ZenonT(30)
  <2>3. CASE tasks' = Tail(tasks) /\ UNCHANGED <<phase, tracker>>
    BY <2>1, <2>3, <1>PopShape, ZenonT(30) DEF tracker
  <2> QED BY <1>3, <2>2, <2>3, Zenon DEF OnInsertEvent
<1>4. CASE OnChangeEvent
  <2>1. Dispatches(Kinds) /\ Kind(i) \notin {"begin", "commit"}
    BY <1>2, <1>4, ZenonT(30) DEF OnChangeEvent, Kinds, RowKinds, ChunkKinds
  <2> QED BY <1>4, <2>1, <1>PushOrResolveShape, ZenonT(30) DEF OnChangeEvent, server
<1>5. CASE OnChunkUpdateEvent
  <2>1. Dispatches(Kinds) /\ Kind(i) \notin {"begin", "commit"}
    BY <1>2, <1>5, ZenonT(30) DEF OnChunkUpdateEvent, Kinds, RowKinds, ChunkKinds
  <2> QED BY <1>5, <2>1, <1>PushOrResolveShape, ZenonT(30) DEF OnChunkUpdateEvent, server
<1>6. CASE OnMarkerEvent
  <2>1. /\ Dispatches(Kinds) /\ Kind(i) \notin {"begin", "commit"}
        /\ phase = "up" /\ tasks # <<>> /\ UNCHANGED <<restart, cursor>>
    BY <1>2, <1>6, Zenon DEF OnMarkerEvent, Kinds, MarkKinds, server
  <2>2. CASE PushOrResolve(i)
    BY <2>1, <2>2, <1>PushOrResolveShape, Zenon
  <2>3. CASE /\ tasks' = Tail(tasks)
             /\ UNCHANGED <<phase, active, finalLSN, spilled, held, draining, closing>>
    BY <2>1, <2>3, <1>PopShape, ZenonT(30)
  <2> QED BY <1>6, <2>2, <2>3, ZenonT(30) DEF OnMarkerEvent
<1> QED BY <1>1, <1>3, <1>4, <1>5, <1>6, <1>BeginShape, <1>CommitShape, <1>DrainShape, ZenonT(30) DEF Dispatch

(***************************************************************************)
(* PathInv is inductive.                                                   *)
(***************************************************************************)
LEMMA PathStep ==
  ASSUME PathInv, [Next]_vars
  PROVE  PathInv'
<1>1. TypeOK'
  BY TypeStep, ZenonT(30) DEF PathInv
<1>2. TypeOK /\ SessionInv /\ MarksInv
  BY Zenon DEF PathInv, SessionInv
<1>3. CASE Dispatch
  BY <1>1, <1>2, <1>3, DispatchFits, DispatchShape, DispatchMarks, ZenonT(30) DEF PathInv, SessionInv, ShapeInv
<1>4. CASE ReceiveRelation
  <2>1. SessionInv' /\ ShapeInv'
    BY <1>2, <1>4, ReceiveFits, ReceiveRelationShape, ZenonT(30) DEF Receive
  <2>2. /\ phase = "up" /\ cursor \in Positions
        /\ tasks' = tasks \/ tasks' = Append(tasks, NewTask("relation", cursor))
        /\ UNCHANGED <<phase, restart, cursor, active, finalLSN, ongoing, decompression>>
    BY <1>4, ZenonT(30) DEF ReceiveRelation, session, tracker, flags
  <2>3. Waiting(tasks') = Waiting(tasks)
    <3>1. Waiting(Append(tasks, NewTask("relation", cursor))) = Waiting(tasks)
      BY <1>2, <2>2, NewTaskType, WaitingAppend, ZenonT(30) DEF NewTask, TypeOK
    <3> QED BY <2>2, <3>1, ZenonT(60)
  <2>4. MarksInv'
    BY <1>2, <2>2, <2>3, MarksKeep, ZenonT(30)
  <2> QED BY <1>1, <2>1, <2>4, ZenonT(30) DEF PathInv, SessionInv, ShapeInv
<1>5. CASE ReceiveMessage
  <2>1. SessionInv' /\ ShapeInv'
    BY <1>2, <1>5, ReceiveFits, ReceiveMessageShape, ZenonT(30) DEF Receive
  <2>2. phase = "up" /\ UNCHANGED <<restart, active, finalLSN, ongoing, decompression>>
    BY <1>5, ZenonT(30) DEF ReceiveMessage, tracker, flags
  <2>3. MarksInv'
    <3>1. \A k \in Positions : Passed(k, Waiting(tasks), restart, cursor)
                                 => Passed(k, Waiting(tasks'), restart, cursor')
      BY <1>5, ReceivedWait, ZenonT(30)
    <3> QED BY <1>2, <2>2, <3>1, ZenonT(30) DEF MarksInv
  <2> QED BY <1>1, <2>1, <2>3, Zenon DEF PathInv, SessionInv, ShapeInv
<1>6. CASE StartReplication
  <2>1. ShapeInv'
    BY <1>1, <1>6, StartShape, ZenonT(30)
  <2>2. SessionInv'
    BY <1>2, <1>6, SessionStep, ZenonT(30) DEF Next
  <2>3. MarksInv'
    BY <1>6, ZenonT(30) DEF StartReplication, MarksInv
  <2> QED BY <1>1, <2>1, <2>2, <2>3, ZenonT(30) DEF PathInv, SessionInv, ShapeInv
<1>7. CASE Crash \/ Save \/ SendStatusUpdate \/ UNCHANGED vars
  <2>1. /\ phase' \in {phase, "down"}
        /\ UNCHANGED <<restart, cursor, described, received, resolved, tasks, active, finalLSN,
                       spilled, decompression, ongoing, held, draining, closing>>
    BY <1>7, ZenonT(30) DEF Crash, Save, SendStatusUpdate, vars, session, server, tracker, flags
  <2>2. SessionInv'
    BY <1>2, SessionStep, ZenonT(30)
  <2>3. Held' = Held /\ (Collects' <=> Collects)
    BY <2>1, ZenonT(30) DEF Held, Collects
  <2>4. PipelineInv' /\ PairedInv' /\ WindowState' /\ MarksInv'
    BY <2>1, <2>3, ZenonT(30) DEF PathInv, PipelineInv, PairedInv, WindowState, MarksInv
  <2>5. OpenInv'
    BY <2>1, <2>3, ZenonT(30) DEF PathInv, OpenInv
  <2> QED BY <1>1, <2>2, <2>4, <2>5, ZenonT(30) DEF PathInv, SessionInv
<1> QED BY <1>3, <1>4, <1>5, <1>6, <1>7, ZenonT(30) DEF Next, Receive

(***************************************************************************)
(* Whatever the WAL looks like and however the streamer is configured, the *)
(* pipeline is in order, no Begin meets an open transaction, the window    *)
(* holds one transaction, and every relation is described in time.         *)
(***************************************************************************)
THEOREM PathHolds == Spec => []PathInv
<1>1. Init => PathInv
  <2> SUFFICES ASSUME Init PROVE PathInv
    BY Zenon
  <2>1. TypeOK
    BY TypeInit, ZenonT(30)
  <2>2. phase = "down" /\ ~decompression /\ ~ongoing
    BY Zenon DEF Init
  <2> QED BY <2>1, <2>2, ZenonT(30) DEF PathInv, ResumedInv, KnownInv, PipelineInv, PairedInv, OpenInv, MarksInv,
                            WindowState
<1>2. PathInv /\ [Next]_vars => PathInv'
  BY PathStep, ZenonT(30)
<1> QED BY <1>1, <1>2, PTL DEF Spec

(***************************************************************************)
(* The stages of the pipeline never overtake each other: for every stream, *)
(* every mode of the tracker and every number of restarts.                 *)
(***************************************************************************)
THEOREM NothingOvertakes == Spec => []PipelineOrder
<1>1. PathInv => PipelineOrder
  BY ZenonT(30) DEF PathInv, PipelineInv, Pipeline, PipelineOrder
<1> QED BY <1>1, PathHolds, PTL

(***************************************************************************)
(* The transaction window collects whole transactions, one at a time: as   *)
(* long as it is open no event of its transaction is on its way, and it    *)
(* holds nothing of another one.                                           *)
(***************************************************************************)
THEOREM TransactionsWhole == Spec => []WholeTransactions
<1>1. PathInv => WholeTransactions
  <2> SUFFICES ASSUME PathInv, phase = "up", Collects
               PROVE  /\ \A n \in DOMAIN tasks :
                           tasks[n].op = "record" => Stream[tasks[n].at].final # finalLSN
                      /\ \A n \in DOMAIN held : Stream[held[n]].final = finalLSN
    BY Zenon DEF WholeTransactions
  <2>1. active /\ Held = held
    BY ZenonT(30)  DEF Collects, Held
  <2>2. PICK b \in Positions :
          /\ Kind(b) = "begin" /\ Stream[b].final = finalLSN
          /\ Passed(b, Waiting(tasks), restart, cursor)
          /\ \A n \in DOMAIN held : b < held[n]
          /\ \A n \in Events(tasks) : tasks[n].at < b
    BY <2>1, ZenonT(30) DEF PathInv, OpenInv
  <2>3. ASSUME NEW n \in DOMAIN tasks, tasks[n].op = "record"
        PROVE  Stream[tasks[n].at].final # finalLSN
    <3> DEFINE j == tasks[n].at
    <3>1. j \in Positions /\ Stream[j].final \in Nat /\ Stream[b].final \in Nat
      BY QueueElements, MessageTypes, ZenonT(30) DEF PathInv, TypeOK
    <3>2. j < b
      BY <2>2, <2>3, ZenonT(30) DEF Events
    <3>3. Stream[j].final < Stream[b].final
      BY <2>2, <3>1, <3>2, StreamAssumption, Zenon DEF Kind
    <3>4. Stream[j].final # Stream[b].final
      BY <3>1, <3>3
    <3> QED BY <2>2, <3>4, ZenonT(30)
  <2>4. ASSUME NEW n \in DOMAIN held
        PROVE  Stream[held[n]].final = finalLSN
    <3>1. held[n] \in Positions /\ held[n] \in Nat /\ cursor \in Nat
      BY WindowElements, SMTT(30) DEF PathInv, TypeOK
    <3>2. held[n] < cursor /\ \A m \in Waiting(tasks) : held[n] < m
      BY <2>1, ZenonT(60) DEF PathInv, PipelineInv, Pipeline, Below, Ordered, Waiting
    <3>3. \A m \in Waiting(tasks) : held[n] <= m
      <4>1. \A m \in Waiting(tasks) : m \in Nat
        BY WaitingPositions, MessageTypes, ZenonT(60) DEF PathInv, TypeOK
      <4> QED BY <3>1, <3>2, <4>1, SMTT(30)
    <3> QED BY <2>2, <3>1, <3>2, <3>3, SameTransaction, ZenonT(60)
  <2> QED BY <2>3, <2>4, ZenonT(30)
<1> QED BY <1>1, PathHolds, PTL

(***************************************************************************)
(* An insert that is discarded between decompression markers lies between  *)
(* those of its own transaction.                                           *)
(***************************************************************************)
LEMMA MarkedInsert ==
  ASSUME PathInv, Dispatches({"insert"}), active, ongoing
  PROVE  Reinserted(Head(tasks).at)
<1> DEFINE i == Head(tasks).at
           w == Waiting(tasks)
<1>1. phase = "up" /\ ~draining /\ tasks # <<>> /\ Head(tasks).op = "logical" /\ Kind(i) = "insert"
  BY Zenon  DEF Dispatches, Kind
<1>2. i \in Positions /\ i \in Nat /\ i < cursor /\ cursor \in Nat
  BY <1>1, HeadMessage, Zenon
<1>3. i \in w /\ \A m \in w : i <= m
  BY <1>1, TakenFromWaiting, Zenon
<1>4. PICK b \in Positions : /\ Kind(b) = "begin" /\ Stream[b].final = finalLSN
                             /\ Passed(b, w, restart, cursor)
  BY <1>1, Zenon DEF PathInv, OpenInv
<1>5. PICK k \in Positions : /\ Kind(k) = "startmark" /\ Stream[k].final = finalLSN
                             /\ Passed(k, w, restart, cursor)
  BY <1>1, ZenonT(60) DEF PathInv, MarksInv
<1>6. b < i /\ k < i
  BY <1>3, <1>4, <1>5, Zenon DEF Passed
<1>7. Stream[i].final = finalLSN
  BY <1>2, <1>3, <1>4, <1>6, SameTransaction, ZenonT(30)
<1>8. ASSUME NEW m \in k..i, Kind(m) = "endmark"
      PROVE  FALSE
  <2>1. m \in Positions /\ k < m /\ m < i /\ m < cursor
    <3>1. k \in Nat /\ k >= 1 /\ m # k /\ m # i /\ i <= Len(Stream) /\ Len(Stream) \in Nat
      BY <1>1, <1>2, <1>5, <1>8, MessageTypes, Zenon
    <3> QED BY <1>2, <1>8, <3>1 DEF Positions
  <2>2. Stream[m].final = Stream[k].final
    <3>1. Stream[k].final <= Stream[m].final /\ Stream[m].final <= Stream[i].final
      BY <1>2, <2>1, StreamAssumption, Zenon
    <3>2. Stream[k].final \in Nat /\ Stream[m].final \in Nat /\ Stream[i].final = Stream[k].final
      BY <1>5, <1>7, <2>1, MessageTypes, Zenon
    <3> QED BY <3>1, <3>2
  <2>3. m \in w
    BY <1>5, <1>8, <2>1, <2>2, Zenon DEF Passed, ClosersWait, Closes
  <2> QED BY <1>2, <1>3, <2>1, <2>3
<1> QED BY <1>1, <1>5, <1>6, <1>7, <1>8, Zenon DEF Reinserted, Kind

(***************************************************************************)
(* Without a transaction window, the tracker discards only rows that a     *)
(* decompression writes back: an insert between the markers of its own     *)
(* transaction, also when a session resumes in the middle of one.          *)
(***************************************************************************)
THEOREM MarkersDropReinserted ==
  ASSUME Mode # "window"
  PROVE  Spec => []OnlyReinsertedDropped
<1>1. Init => OnlyReinsertedDropped
  BY Zenon DEF Init, OnlyReinsertedDropped
<1>2. ASSUME PathInv, OnlyReinsertedDropped, [Next]_vars
      PROVE  OnlyReinsertedDropped'
  <2>1. CASE OnInsertEvent
    <3>1. CASE active /\ (decompression \/ ongoing)
      <4>1. dropped' = dropped \cup {Head(tasks).at} /\ Dispatches({"insert"})
        BY <2>1, <3>1, Zenon DEF OnInsertEvent
      <4>2. ongoing
        BY <1>2, <3>1, Zenon DEF PathInv, MarksInv
      <4>3. Reinserted(Head(tasks).at)
        BY <1>2, <3>1, <4>1, <4>2, MarkedInsert, Zenon
      <4> QED BY <1>2, <4>1, <4>3, Zenon DEF OnlyReinsertedDropped
    <3>2. CASE ~(active /\ (decompression \/ ongoing))
      BY <1>2, <2>1, <3>2, Zenon DEF OnInsertEvent, OnlyReinsertedDropped
    <3> QED BY <3>1, <3>2, Zenon
  <2>2. CASE OnCommitEvent
    BY <1>2, <2>2, Zenon DEF OnCommitEvent, OnlyReinsertedDropped
  <2>3. CASE \/ UNCHANGED vars \/ StartReplication \/ Crash \/ Save \/ SendStatusUpdate \/ Receive
             \/ OnRelationEvent \/ OnBeginEvent \/ OnChangeEvent \/ OnChunkUpdateEvent
             \/ OnMarkerEvent \/ Drain \/ OnRecordEvent \/ OnTransactionFinishedEvent
    <3>1. dropped' = dropped
      BY <2>3, ZenonT(60) DEF vars, StartReplication, Crash, Save, SendStatusUpdate, Receive,
           ReceiveRelation, ReceiveMessage, OnRelationEvent, OnBeginEvent, OnChangeEvent,
           OnChunkUpdateEvent, OnMarkerEvent, Drain, OnRecordEvent, OnTransactionFinishedEvent, history
    <3> QED BY <1>2, <3>1, Zenon DEF OnlyReinsertedDropped
  <2> QED BY <1>2, <2>1, <2>2, <2>3, Zenon DEF Next, Dispatch
<1> QED BY <1>1, <1>2, PathHolds, PTL DEF Spec

-------------------------------------------------------------------------------
\* What is acknowledged

(***************************************************************************)
(* A step that leaves the positions alone and settles what it settles.     *)
(***************************************************************************)
LEMMA BoundsKeep ==
  ASSUME DeliveryInv, phase' = "up" => phase = "up",
         UNCHANGED <<slot, disk, starts, restart, processed, offset, emitted>>,
         Settled \subseteq Settled'
  PROVE  AckBound' /\ SessionBound' /\ InOrder'
<1>1. Unsettled' \subseteq Unsettled
  BY Zenon DEF Unsettled
<1>2. AckBound' /\ SessionBound'
  BY <1>1, Zenon DEF DeliveryInv, AckBound, SessionBound, Spare
<1>3. InOrder'
  BY Zenon DEF DeliveryInv, InOrder
<1> QED BY <1>2, <1>3, Zenon

(***************************************************************************)
(* No unsettled row precedes the event at the head of the queue, so every  *)
(* other one starts behind the position the event acknowledges.            *)
(***************************************************************************)
LEMMA HeadLeast ==
  ASSUME Spaced, DeliveryInv, phase = "up", tasks # <<>>,
         Head(tasks).op \in {"record", "finished"},
         NEW j \in Unsettled
  PROVE  /\ Head(tasks).at <= j
         /\ Head(tasks).op = "finished" => Head(tasks).at # j
         /\ Head(tasks).at # j => End(Head(tasks).at) + MaxStarts + 1 <= Lsn(j)
<1> DEFINE i == Head(tasks).at
<1>1. tasks \in Seq(Task) /\ i \in Positions /\ i \in Nat /\ j \in Rows /\ j \in Positions /\ j \in Nat
  BY HeadTask, MessageTypes, Zenon DEF DeliveryInv, PathInv, TypeOK, Unsettled, Rows
<1>2. tasks[1] = Head(tasks) /\ 1 \in Events(tasks)
  BY <1>1, TailElements, Zenon DEF Events
<1>3. Pipeline(tasks, Held, closing, cursor)
  BY Zenon DEF DeliveryInv, PathInv, PipelineInv
<1>4. i <= j
  <2>1. CASE j < cursor
    <3>1. InFlight(j, tasks, Held)
      BY <1>1, <2>1, Zenon DEF DeliveryInv, NothingForgotten, Unsettled
    <3>2. CASE \E n \in DOMAIN Held : Held[n] = j
      BY <1>1, <1>2, <1>3, <3>2, SMTT(30) DEF Pipeline, Ordered
    <3>3. CASE \E n \in DOMAIN tasks : tasks[n].op \in {"logical", "record"} /\ tasks[n].at = j
      <4>1. PICK n \in DOMAIN tasks : tasks[n].op \in {"logical", "record"} /\ tasks[n].at = j
        BY <3>3, Zenon
      <4>2. CASE n \in Messages(tasks)
        BY <1>1, <1>2, <1>3, <4>1, <4>2, SMTT(30) DEF Pipeline, Ordered
      <4>3. CASE n \in Events(tasks)
        <5>1. n = 1 \/ 1 < n
          BY <1>1, QueueElements
        <5> QED BY <1>1, <1>2, <1>3, <4>1, <4>3, <5>1, SMTT(60) DEF Pipeline, Ordered
      <4> QED BY <4>1, <4>2, <4>3, Zenon DEF Messages, Events
    <3> QED BY <3>1, <3>2, <3>3, Zenon DEF InFlight
  <2>2. CASE ~(j < cursor)
    <3>1. i < cursor /\ cursor \in Int
      BY <1>2, <1>3, SMTT(30) DEF Pipeline, Below, DeliveryInv, PathInv, TypeOK
    <3> QED BY <1>1, <2>2, <3>1, SMTT(30)
  <2> QED BY <2>1, <2>2, Zenon
<1>5. Kind(i) # "begin" /\ (Head(tasks).op = "finished" => Kind(i) = "commit")
  BY <1>2, <1>3, Zenon DEF Pipeline, KindsFit
<1>6. Kind(j) # "commit"
  BY <1>1, Zenon DEF Rows, RowKinds, Kind
<1>7. i # j => i < j
  BY <1>1, <1>4
<1> QED BY <1>1, <1>4, <1>5, <1>6, <1>7, ZenonT(60) DEF Spaced

-------------------------------------------------------------------------------
\* A message that is neither Begin nor Commit leaves the queue

(***************************************************************************)
(* Taking the first task off the queue forgets nothing, if the row it      *)
(* concerns is settled.                                                    *)
(***************************************************************************)
LEMMA PopForgetsNothing ==
  ASSUME DeliveryInv, phase = "up", tasks # <<>>, tasks' = Tail(tasks),
         UNCHANGED <<cursor, active, held, draining>>, Settled \subseteq Settled',
         Head(tasks).op \in {"logical", "record"} /\ Head(tasks).at \in Rows => Head(tasks).at \in Settled'
  PROVE  NothingForgotten'
<1>1. tasks \in Seq(Task) /\ Held' = Held
  BY Zenon DEF DeliveryInv, PathInv, TypeOK, Held
<1> SUFFICES ASSUME NEW j \in Rows, j < cursor, j \notin Settled'
             PROVE  InFlight(j, tasks', Held')
  BY Zenon DEF NothingForgotten
<1>2. InFlight(j, tasks, Held)
  BY Zenon DEF DeliveryInv, NothingForgotten
<1>3. Head(tasks).op \in {"logical", "record"} => Head(tasks).at # j
  BY Zenon
<1> QED BY <1>1, <1>2, <1>3, FlightTail, Zenon

(***************************************************************************)
(* Taking a relation or a message off the queue without collecting it      *)
(* keeps the invariant, provided a row is counted as discarded.            *)
(***************************************************************************)
LEMMA Discarded ==
  ASSUME DeliveryInv, PathInv', phase = "up", tasks # <<>>, tasks' = Tail(tasks),
         UNCHANGED <<slot, disk, phase, starts, restart, processed, offset, cursor, emitted, failed>>,
         UNCHANGED <<active, held, draining>>,
         dropped \subseteq dropped',
         Head(tasks).op \in {"relation", "logical"},
         Head(tasks).op = "logical" /\ Head(tasks).at \in Rows => Head(tasks).at \in dropped'
  PROVE  DeliveryInv'
<1>1. Settled \subseteq Settled' /\ dropped' \subseteq Settled'
  BY Zenon DEF Settled
<1>2. AckBound' /\ SessionBound' /\ InOrder'
  BY <1>1, BoundsKeep, Zenon
<1>3. NothingForgotten'
  BY <1>1, PopForgetsNothing, Zenon
<1> QED BY <1>2, <1>3, Zenon DEF DeliveryInv

(***************************************************************************)
(* Turning the message at the head of the queue into an event at its end   *)
(* keeps the invariant.                                                    *)
(***************************************************************************)
LEMMA Recorded ==
  ASSUME DeliveryInv, PathInv', phase = "up", tasks # <<>>,
         UNCHANGED <<slot, disk, phase, starts, restart, processed, offset, cursor, emitted, failed>>,
         UNCHANGED <<active, held, draining, dropped>>,
         Head(tasks).op = "logical",
         tasks' = Append(Tail(tasks), NewTask("record", Head(tasks).at))
  PROVE  DeliveryInv'
<1> DEFINE i == Head(tasks).at
           q == Tail(tasks)
           t == NewTask("record", i)
<1>1. Settled' = Settled /\ Held' = Held
  BY Zenon DEF Settled, Held
<1>2. AckBound' /\ SessionBound' /\ InOrder'
  BY <1>1, BoundsKeep, Zenon
<1>3. /\ tasks \in Seq(Task) /\ q \in Seq(Task) /\ i \in Positions
      /\ t \in Task /\ t.op = "record" /\ t.at = i
  BY HeadTask, NewTaskType, ZenonT(60) DEF DeliveryInv, PathInv, TypeOK, NewTask
<1>4. NothingForgotten'
  <2> SUFFICES ASSUME NEW j \in Rows, j < cursor, j \notin Settled
               PROVE  InFlight(j, Append(q, t), Held)
    BY <1>1, Zenon DEF NothingForgotten
  <2>1. InFlight(j, tasks, Held)
    BY Zenon DEF DeliveryInv, NothingForgotten
  <2>2. j # i => InFlight(j, q, Held)
    BY <1>3, <2>1, FlightTail, Zenon
  <2> QED BY <1>3, <2>2, FlightAppend, Zenon
<1> QED BY <1>2, <1>4, Zenon DEF DeliveryInv

(***************************************************************************)
(* Moving the message at the head of the queue into the window keeps the   *)
(* invariant.                                                              *)
(***************************************************************************)
LEMMA Collected ==
  ASSUME DeliveryInv, PathInv', phase = "up", tasks # <<>>, Collects,
         UNCHANGED <<slot, disk, phase, starts, restart, processed, offset, cursor, emitted, failed>>,
         UNCHANGED <<active, dropped>>,
         Head(tasks).op = "logical",
         tasks' = Tail(tasks), held' = Append(held, Head(tasks).at)
  PROVE  DeliveryInv'
<1> DEFINE i == Head(tasks).at
           q == Tail(tasks)
<1>1. Settled' = Settled /\ Held = held /\ Held' = Append(held, i)
  BY Zenon DEF Settled, Held, Collects
<1>2. AckBound' /\ SessionBound' /\ InOrder'
  BY <1>1, BoundsKeep, Zenon
<1>3. tasks \in Seq(Task) /\ i \in Positions /\ held \in Seq(Positions)
  BY HeadTask, Zenon DEF DeliveryInv, PathInv, TypeOK
<1>4. NothingForgotten'
  <2> SUFFICES ASSUME NEW j \in Rows, j < cursor, j \notin Settled
               PROVE  InFlight(j, q, Append(held, i))
    BY <1>1, Zenon DEF NothingForgotten
  <2>1. InFlight(j, tasks, held)
    BY <1>1, Zenon DEF DeliveryInv, NothingForgotten
  <2>2. j # i => InFlight(j, q, held)
    BY <1>3, <2>1, FlightTail, Zenon
  <2> QED BY <1>3, <2>2, FlightPush, Zenon
<1> QED BY <1>2, <1>4, Zenon DEF DeliveryInv

(***************************************************************************)
(* The resolver acknowledges nothing by itself, and enqueues an event for  *)
(* every row of a relation it knows.                                       *)
(***************************************************************************)
LEMMA ResolveOutcome ==
  ASSUME NothingAtOnce, NEW i \in Positions, NEW q, Resolve(i, q),
         HasRelation(i) => Stream[i].relation \in resolved
  PROVE  /\ UNCHANGED <<phase, processed, offset, emitted, failed>>
         /\ tasks' = Append(q, NewTask("record", i)) \/ (tasks' = q /\ i \notin Rows)
<1>1. PICK record \in Records(i) :
        IF record /\ Stream[i].kind = "drop" /\ Marking
          THEN EmitEvent(i) /\ tasks' = q
          ELSE /\ tasks' = IF record THEN Append(q, NewTask("record", i)) ELSE q
               /\ UNCHANGED <<context, emitted, failed>>
  BY ZenonT(60) DEF Resolve
<1>2. phase' = phase
  BY Zenon DEF Resolve
<1>3. Stream[i].kind = "drop" => record \in {FALSE, GenDecompression}
  BY <1>1, Zenon DEF Records, RowKinds, MarkKinds
<1>4. i \in Rows => record = TRUE
  <2>1. i \in Rows => Stream[i].kind \in RowKinds \cup MarkKinds
    BY Zenon DEF Rows
  <2>2. Stream[i].kind \in RowKinds \cup MarkKinds => Records(i) = {TRUE}
    BY Zenon DEF Records, RowKinds, MarkKinds
  <2> QED BY <1>1, <2>1, <2>2, Zenon
<1>5. ~(record /\ Stream[i].kind = "drop" /\ Marking)
  BY <1>1, <1>3, ConfigAssumption, ZenonT(60) DEF NothingAtOnce
<1>6. /\ tasks' = IF record THEN Append(q, NewTask("record", i)) ELSE q
      /\ UNCHANGED <<context, emitted, failed>>
  BY <1>1, <1>5, ZenonT(60)
<1> QED BY <1>2, <1>4, <1>6, Zenon DEF context

(***************************************************************************)
(* Collecting a message or handing it to the resolver keeps the invariant. *)
(***************************************************************************)
LEMMA PushOrResolveKeeps ==
  ASSUME NothingAtOnce, DeliveryInv, PathInv', Dispatches(Kinds),
         UNCHANGED <<slot, disk, starts, restart, cursor, dropped>>,
         PushOrResolve(Head(tasks).at)
  PROVE  DeliveryInv'
<1> DEFINE i == Head(tasks).at
<1>1. phase = "up" /\ tasks # <<>> /\ Head(tasks).op = "logical" /\ i \in Positions
  BY HeadTask, Zenon DEF Dispatches, DeliveryInv, PathInv
<1>2. CASE Collects
  <2>1. /\ UNCHANGED <<phase, processed, offset, emitted, failed, active>>
        /\ tasks' = Tail(tasks) /\ held' = Append(held, i)
    BY <1>2, Zenon DEF PushOrResolve, Push, context
  <2> QED BY <1>1, <1>2, <2>1, Collected, Zenon
<1>3. CASE ~Collects
  <2>1. Resolve(i, Tail(tasks)) /\ UNCHANGED <<held, draining, active>>
    BY <1>3, ZenonT(60) DEF PushOrResolve
  <2>2. HasRelation(i) => Stream[i].relation \in resolved
    BY <1>1, FittingHolds, FittingPop, ZenonT(60) DEF DeliveryInv, PathInv, SessionInv, TypeOK
  <2>3. /\ UNCHANGED <<phase, processed, offset, emitted, failed>>
        /\ \/ tasks' = Append(Tail(tasks), NewTask("record", i))
           \/ tasks' = Tail(tasks) /\ i \notin Rows
    BY <1>1, <2>1, <2>2, ResolveOutcome, ZenonT(60)
  <2>4. CASE tasks' = Append(Tail(tasks), NewTask("record", i))
    BY <1>1, <2>1, <2>3, <2>4, Recorded, ZenonT(60)
  <2>5. CASE tasks' = Tail(tasks) /\ i \notin Rows
    BY <1>1, <2>1, <2>3, <2>5, Discarded, ZenonT(60)
  <2> QED BY <2>3, <2>4, <2>5, Zenon
<1> QED BY <1>2, <1>3, Zenon

-------------------------------------------------------------------------------
\* The actions

(***************************************************************************)
(* OnInsertEvent keeps the invariant.                                      *)
(***************************************************************************)
LEMMA InsertKeeps ==
  ASSUME NothingAtOnce, DeliveryInv, PathInv', OnInsertEvent
  PROVE  DeliveryInv'
<1> DEFINE i == Head(tasks).at
<1>1. /\ Dispatches(Kinds) /\ phase = "up" /\ tasks # <<>> /\ Head(tasks).op = "logical"
      /\ UNCHANGED <<slot, disk, starts, restart, cursor>>
  BY Zenon  DEF OnInsertEvent, Dispatches, Kinds, RowKinds, durable, server
<1>2. CASE PushOrResolve(i) /\ UNCHANGED <<flags, dropped>>
  BY <1>1, <1>2, PushOrResolveKeeps, Zenon
<1>3. CASE /\ dropped' = dropped \cup {i} /\ tasks' = Tail(tasks)
           /\ UNCHANGED <<phase, context, tracker, emitted, failed>>
  BY <1>1, <1>3, Discarded, ZenonT(60) DEF context, tracker
<1> QED BY <1>2, <1>3, Zenon DEF OnInsertEvent

(***************************************************************************)
(* OnUpdateEvent, OnDeleteEvent, OnTruncateEvent and OnMessageEvent for    *)
(* user data, and those for a chunk of the catalog, keep the invariant.    *)
(***************************************************************************)
LEMMA ChangeKeeps ==
  ASSUME NothingAtOnce, DeliveryInv, PathInv', OnChangeEvent \/ OnChunkUpdateEvent
  PROVE  DeliveryInv'
<1>1. /\ Dispatches(Kinds) /\ PushOrResolve(Head(tasks).at)
      /\ UNCHANGED <<slot, disk, starts, restart, cursor, dropped>>
  <2>1. CASE OnChangeEvent
    BY <2>1, Zenon DEF OnChangeEvent, Dispatches, Kinds, RowKinds, ChunkKinds, durable, server
  <2>2. CASE OnChunkUpdateEvent
    BY <2>2, Zenon DEF OnChunkUpdateEvent, Dispatches, Kinds, ChunkKinds, durable, server
  <2> QED BY <2>1, <2>2, Zenon
<1> QED BY <1>1, PushOrResolveKeeps, Zenon

(***************************************************************************)
(* OnMessageEvent for a decompression marker keeps the invariant.          *)
(***************************************************************************)
LEMMA MarkerKeeps ==
  ASSUME NothingAtOnce, DeliveryInv, PathInv', OnMarkerEvent
  PROVE  DeliveryInv'
<1> DEFINE i == Head(tasks).at
<1>1. /\ Dispatches(Kinds) /\ phase = "up" /\ tasks # <<>> /\ Head(tasks).op = "logical"
      /\ i \notin Rows
      /\ UNCHANGED <<slot, disk, starts, restart, cursor, dropped>>
  BY Zenon DEF OnMarkerEvent, Dispatches, Kinds, durable, server, MarkKinds, Rows, RowKinds
<1>2. CASE PushOrResolve(i) /\ UNCHANGED ongoing
  BY <1>1, <1>2, PushOrResolveKeeps, Zenon
<1>3. CASE /\ tasks' = Tail(tasks)
           /\ UNCHANGED <<phase, context, active, finalLSN, spilled, held, draining,
                          closing, emitted, failed>>
  BY <1>1, <1>3, Discarded, Zenon DEF context
<1> QED BY <1>2, <1>3, Zenon DEF OnMarkerEvent

(***************************************************************************)
(* OnRelationEvent keeps the invariant.                                    *)
(***************************************************************************)
LEMMA RelationKeeps ==
  ASSUME DeliveryInv, PathInv', OnRelationEvent
  PROVE  DeliveryInv'
BY Discarded, Zenon DEF OnRelationEvent, durable, session, context, server, tracker, history

(***************************************************************************)
(* OnBeginEvent keeps the invariant: the queue that startTransaction       *)
(* clears holds nothing that would still be drained.                       *)
(***************************************************************************)
LEMMA BeginKeeps ==
  ASSUME DeliveryInv, PathInv', OnBeginEvent
  PROVE  DeliveryInv'
<1> DEFINE i == Head(tasks).at
           q == Tail(tasks)
<1>1. /\ phase = "up" /\ ~draining /\ tasks # <<>> /\ Head(tasks).op = "logical"
      /\ Kind(i) = "begin" /\ tasks' = q /\ ~active
      /\ UNCHANGED <<slot, disk, phase, starts, restart, processed, offset, cursor, draining>>
      /\ UNCHANGED <<emitted, failed, dropped>>
      /\ held' = <<>> \/ UNCHANGED <<active, held>>
  BY BeginFindsClosed, ZenonT(60) DEF OnBeginEvent, Dispatches, Kind, durable, session, context, server, history,
     tracker, DeliveryInv
<1>2. tasks \in Seq(Task) /\ i \notin Rows
  BY <1>1, ZenonT(60) DEF DeliveryInv, PathInv, TypeOK, Rows, RowKinds, Kind
<1>3. Settled' = Settled /\ Held = <<>> /\ Held' = <<>>
  BY <1>1 DEF Settled, Held
<1>4. AckBound' /\ SessionBound' /\ InOrder'
  BY <1>1, <1>3, BoundsKeep, Zenon
<1>5. NothingForgotten'
  <2> SUFFICES ASSUME NEW j \in Rows, j < cursor, j \notin Settled
               PROVE  InFlight(j, q, <<>>)
    BY <1>1, <1>3, Zenon DEF NothingForgotten
  <2>1. InFlight(j, tasks, <<>>)
    BY <1>1, <1>3, Zenon DEF DeliveryInv, NothingForgotten
  <2> QED BY <1>1, <1>2, <2>1, FlightTail, Zenon
<1> QED BY <1>4, <1>5, Zenon DEF DeliveryInv

(***************************************************************************)
(* Acknowledging what the event at the head of the queue stands for keeps  *)
(* the position behind every unsettled row.                                *)
(***************************************************************************)
LEMMA AckKeeps ==
  ASSUME Spaced, DeliveryInv, phase = "up", tasks # <<>>,
         Head(tasks).op \in {"record", "finished"},
         UNCHANGED <<slot, disk, phase, starts, restart>>,
         Settled \subseteq Settled',
         Head(tasks).op = "record" => Head(tasks).at \in Settled',
         emitted' \subseteq emitted \cup {Head(tasks).at},
         NEW lsn \in Nat, lsn <= End(Head(tasks).at), AcknowledgeProcessed(lsn)
  PROVE  AckBound' /\ SessionBound' /\ InOrder'
<1> DEFINE i == Head(tasks).at
<1>1. /\ i \in Positions /\ i \in Nat /\ End(i) \in Nat /\ MaxStarts \in Nat
      /\ \A j \in Rows : j \in Nat /\ Lsn(j) \in Nat
      /\ starts \in Nat /\ starts <= MaxStarts /\ processed \in Nat
  <2>1. i \in Positions /\ i \in Nat /\ End(i) \in Nat
    BY HeadTask, MessageTypes, SMTT(30) DEF DeliveryInv, PathInv, End
  <2>2. \A j \in Rows : j \in Nat /\ Lsn(j) \in Nat
    BY MessageTypes, ZenonT(60) DEF Lsn, Rows
  <2>3. MaxStarts \in Nat /\ starts \in Nat /\ starts <= MaxStarts /\ processed \in Nat
    BY ConfigAssumption, SMTT(30) DEF DeliveryInv, PathInv, TypeOK
  <2> QED BY <2>1, <2>2, <2>3, Zenon
<1>2. Unsettled' \subseteq Unsettled
  BY Zenon DEF Unsettled
<1>3. AckBound'
  BY <1>2, Zenon DEF DeliveryInv, AckBound, Spare
<1>4. SessionBound'
  <2> SUFFICES ASSUME NEW j \in Unsettled'
               PROVE  /\ restart <= Lsn(j)
                      /\ processed' + 1 + Spare <= Lsn(j)
                      /\ offset' + Spare <= Lsn(j)
    BY Zenon DEF SessionBound, Spare
  <2>1. j \in Unsettled /\ j \in Rows /\ j # i
    BY <1>2, HeadLeast, Zenon DEF Unsettled
  <2>2. End(i) + MaxStarts + 1 <= Lsn(j)
    BY <2>1, HeadLeast, Zenon
  <2>3. restart <= Lsn(j) /\ processed + 1 + Spare <= Lsn(j)
    BY <2>1, Zenon DEF DeliveryInv, SessionBound
  <2>4. offset' = processed' /\ (processed' = processed \/ processed' = lsn)
    BY Zenon  DEF AcknowledgeProcessed, Larger
  <2> QED BY <1>1, <2>1, <2>2, <2>3, <2>4, SMTT(30) DEF Spare
<1>5. InOrder'
  <2> SUFFICES ASSUME NEW e \in emitted', NEW j \in Rows, j < e, j \notin Settled'
               PROVE  FALSE
    BY Zenon DEF InOrder
  <2>1. j \in Unsettled /\ j \notin Settled
    BY Zenon DEF Unsettled
  <2>2. e \notin emitted
    BY <2>1, Zenon DEF DeliveryInv, InOrder
  <2>3. e = i /\ i <= j
    BY <2>1, <2>2, HeadLeast, Zenon
  <2> QED BY <1>1, <2>3, SMTT(30)
<1> QED BY <1>3, <1>4, <1>5, Zenon

(***************************************************************************)
(* The emitter's handling of an event keeps the invariant.                 *)
(***************************************************************************)
LEMMA RecordKeeps ==
  ASSUME Spaced, DeliveryInv, PathInv', OnRecordEvent
  PROVE  DeliveryInv'
<1> DEFINE i == Head(tasks).at
<1>1. /\ phase = "up" /\ tasks # <<>> /\ Head(tasks).op = "record" /\ tasks' = Tail(tasks)
      /\ UNCHANGED <<slot, disk, phase, starts, restart, cursor, dropped, active, held, draining>>
      /\ EmitEvent(i)
  BY Zenon  DEF OnRecordEvent, durable, session, server, tracker
<1>2. Settled \subseteq Settled' /\ i \in Settled'
  BY <1>1, Zenon DEF EmitEvent, Settled
<1>3. AckBound' /\ SessionBound' /\ InOrder'
  <2>1. CASE UNCHANGED <<context, emitted>>
    BY <1>1, <1>2, <2>1, BoundsKeep, Zenon DEF context
  <2>2. CASE emitted' = emitted \cup {i} /\ AcknowledgeProcessed(Stream[i].lsn + Stream[i].size)
    <3>1. i \in Positions
      BY <1>1, HeadTask, ZenonT(60) DEF DeliveryInv, PathInv
    <3>2. End(i) \in Nat /\ End(i) <= End(i)
      BY <3>1, MessageTypes, SMTT(30) DEF End
    <3>3. AcknowledgeProcessed(End(i))
      BY <2>2, Zenon DEF End
    <3> QED BY <1>1, <1>2, <2>2, <3>2, <3>3, AckKeeps, ZenonT(60)
  <2> QED BY <1>1, <2>1, <2>2, Zenon DEF EmitEvent
<1>4. NothingForgotten'
  BY <1>1, <1>2, PopForgetsNothing, ZenonT(30)
<1> QED BY <1>3, <1>4, Zenon DEF DeliveryInv

(***************************************************************************)
(* OnTransactionFinishedEvent keeps the invariant.                         *)
(***************************************************************************)
LEMMA FinishedKeeps ==
  ASSUME Spaced, DeliveryInv, PathInv', OnTransactionFinishedEvent
  PROVE  DeliveryInv'
<1> DEFINE i == Head(tasks).at
<1>1. /\ phase = "up" /\ tasks # <<>> /\ Head(tasks).op = "finished" /\ tasks' = Tail(tasks)
      /\ UNCHANGED <<slot, disk, phase, starts, restart, cursor, emitted, failed, dropped>>
      /\ UNCHANGED <<active, held, draining>>
      /\ AcknowledgeProcessed(Lsn(i))
  BY Zenon DEF OnTransactionFinishedEvent, durable, session, server, tracker, history, Lsn
<1>2. Settled' = Settled
  BY <1>1, Zenon DEF Settled
<1>3. Lsn(i) \in Nat /\ Lsn(i) <= End(i)
  <2>1. i \in Positions
    BY <1>1, HeadTask, ZenonT(60) DEF DeliveryInv, PathInv
  <2> QED BY <2>1, MessageTypes, SMTT(30) DEF End, Lsn
<1>4. AckBound' /\ SessionBound' /\ InOrder'
  BY <1>1, <1>2, <1>3, AckKeeps, ZenonT(60)
<1>5. NothingForgotten'
  BY <1>1, <1>2, PopForgetsNothing, ZenonT(60)
<1> QED BY <1>4, <1>5, Zenon DEF DeliveryInv

(***************************************************************************)
(* OnCommitEvent keeps the invariant, whether it passes the commit on,     *)
(* ends a compression or starts to drain.                                  *)
(***************************************************************************)
LEMMA CommitKeeps ==
  ASSUME DeliveryInv, PathInv', OnCommitEvent
  PROVE  DeliveryInv'
<1> DEFINE i == Head(tasks).at
           q == Tail(tasks)
<1>1. PathInv
  BY Zenon DEF DeliveryInv
<1>2. /\ phase = "up" /\ ~draining /\ tasks # <<>> /\ Head(tasks).op = "logical"
      /\ Kind(i) = "commit" /\ active' = FALSE
      /\ UNCHANGED <<phase, restart, cursor, held>>
      /\ \A j : InFlight(j, q, <<>>) => InFlight(j, tasks', <<>>)
  BY <1>1, CommitTasks, ZenonT(60)
<1>3. UNCHANGED <<slot, disk, starts, processed, offset, emitted, failed>>
  BY Zenon DEF OnCommitEvent, durable, session, context
<1>4. \/ /\ draining' = draining
         /\ \/ (Mode # "window" \/ ~active) /\ dropped' = dropped
            \/ active /\ dropped' = dropped \cup {held[n] : n \in DOMAIN held}
      \/ active /\ tasks' = q /\ draining' = TRUE /\ dropped' = dropped
  BY <1>1, CommitTasks, Zenon
<1>5. Settled \subseteq Settled'
  BY <1>3, <1>4, Zenon DEF Settled
<1>6. AckBound' /\ SessionBound' /\ InOrder'
  BY <1>2, <1>3, <1>5, BoundsKeep, Zenon
<1>7. NothingForgotten'
  <2> SUFFICES ASSUME NEW j \in Rows, j < cursor, j \notin Settled'
               PROVE  InFlight(j, tasks', Held')
    BY <1>2, ZenonT(60) DEF NothingForgotten
  <2>1. InFlight(j, tasks, Held) /\ j # i /\ tasks \in Seq(Task)
    BY <1>2, <1>5, ZenonT(60) DEF DeliveryInv, PathInv, TypeOK, NothingForgotten, Rows, RowKinds, Kind
  <2>2. InFlight(j, q, Held)
    BY <1>2, <2>1, FlightTail, Zenon
  <2>3. CASE draining' = draining
    <3>1. Held' = <<>>
      BY <1>2, <2>3, ZenonT(60) DEF Held
    <3>2. \A n \in DOMAIN Held : Held[n] # j
      <4>1. DOMAIN <<>> = {}
        BY EmptySeq, LenProperties, SMTT(30)
      <4>2. CASE (Mode # "window" \/ ~active)
        <5>1. Held = <<>>
          BY <1>1, <1>2, <4>2, ZenonT(60) DEF Held, PathInv, WindowState
        <5> QED BY <4>1, <5>1, Zenon
      <4>3. CASE active /\ dropped' = dropped \cup {held[n] : n \in DOMAIN held}
        BY <4>3, ZenonT(60) DEF Held, Settled
      <4> QED BY <1>2, <1>4, <2>3, <4>2, <4>3, ZenonT(60)
    <3>3. InFlight(j, q, <<>>)
      BY <2>2, <3>2, Zenon DEF InFlight
    <3> QED BY <1>2, <3>1, <3>3, Zenon
  <2>4. CASE active /\ tasks' = q /\ draining' = TRUE
    BY <1>2, <2>2, <2>4, ZenonT(60) DEF Held
  <2> QED BY <1>4, <2>3, <2>4, Zenon
<1> QED BY <1>6, <1>7, Zenon DEF DeliveryInv

(***************************************************************************)
(* A step of drain(), and the commit after its last one, keep the          *)
(* invariant.                                                              *)
(***************************************************************************)
LEMMA DrainKeeps ==
  ASSUME NothingAtOnce, DeliveryInv, PathInv', Drain
  PROVE  DeliveryInv'
<1>1. PathInv /\ tasks \in Seq(Task) /\ held \in Seq(Positions)
  BY Zenon  DEF DeliveryInv, PathInv, TypeOK
<1>2. /\ phase = "up" /\ phase' = "up" /\ draining /\ Held = held
      /\ UNCHANGED <<slot, disk, starts, restart, cursor, dropped>>
  BY <1>1, DrainTasks, ZenonT(60) DEF Drain, durable, Held
<1>3. CASE held # <<>>
  <2> DEFINE i == Head(held)
             t == NewTask("record", i)
  <2>1. Resolve(i, tasks) /\ Held' = Tail(held) /\ i \in Positions
    BY <1>1, <1>3, DrainTasks, HeadHeld, ZenonT(60) DEF PathInv
  <2>2. HasRelation(i) => Stream[i].relation \in resolved
    BY <1>1, <1>2, <1>3, AheadHeld, ZenonT(60) DEF PathInv, KnownInv
  <2>3. /\ UNCHANGED <<phase, processed, offset, emitted, failed>>
        /\ tasks' = Append(tasks, t) \/ (tasks' = tasks /\ i \notin Rows)
    BY <2>1, <2>2, ResolveOutcome, Zenon
  <2>4. Settled' = Settled
    BY <1>2, <2>3, Zenon DEF Settled
  <2>5. AckBound' /\ SessionBound' /\ InOrder'
    BY <1>2, <2>3, <2>4, BoundsKeep, ZenonT(60)
  <2>6. NothingForgotten'
    <3> SUFFICES ASSUME NEW j \in Rows, j < cursor, j \notin Settled
                 PROVE  InFlight(j, tasks', Tail(held))
      BY <1>2, <2>1, <2>4, ZenonT(60) DEF NothingForgotten
    <3>1. InFlight(j, tasks, held)
      BY <1>2, Zenon DEF DeliveryInv, NothingForgotten
    <3>2. j # i => InFlight(j, tasks, Tail(held))
      BY <1>1, <1>3, <3>1, FlightHeldTail, Zenon
    <3>3. t \in Task /\ t.op = "record" /\ t.at = i
      BY <2>1, NewTaskType, Zenon DEF NewTask
    <3>4. CASE tasks' = Append(tasks, t)
      BY <1>1, <3>2, <3>3, <3>4, FlightAppend, ZenonT(60)
    <3>5. CASE tasks' = tasks /\ i \notin Rows
      BY <3>2, <3>5, ZenonT(60)
    <3> QED BY <2>3, <3>4, <3>5, ZenonT(60)
  <2> QED BY <2>5, <2>6, Zenon DEF DeliveryInv
<1>4. CASE held = <<>>
  <2>1. /\ Held' = <<>> /\ UNCHANGED <<processed, offset, emitted, failed>>
        /\ \A j : InFlight(j, tasks, <<>>) => InFlight(j, tasks', <<>>)
    BY <1>1, <1>4, DrainTasks, ZenonT(60)
  <2>2. Settled' = Settled
    BY <1>2, <2>1, Zenon DEF Settled
  <2>3. AckBound' /\ SessionBound' /\ InOrder'
    BY <1>2, <2>1, <2>2, BoundsKeep, Zenon
  <2>4. NothingForgotten'
    BY <1>2, <1>4, <2>1, <2>2, Zenon DEF DeliveryInv, NothingForgotten
  <2> QED BY <2>3, <2>4, Zenon DEF DeliveryInv
<1> QED BY <1>3, <1>4, ZenonT(60)

(***************************************************************************)
(* Receiving a relation message keeps the invariant.                       *)
(***************************************************************************)
LEMMA ReceiveRelationKeeps ==
  ASSUME DeliveryInv, PathInv', ReceiveRelation
  PROVE  DeliveryInv'
<1> DEFINE t == NewTask("relation", cursor)
<1>1. /\ phase = "up" /\ cursor \in Positions
      /\ tasks' = tasks \/ tasks' = Append(tasks, t)
      /\ UNCHANGED <<slot, disk, phase, starts, restart, processed, offset, cursor>>
      /\ UNCHANGED <<emitted, failed, dropped, active, held, draining>>
  BY Zenon  DEF ReceiveRelation, durable, session, context, tracker, history
<1>2. Settled' = Settled /\ Held' = Held /\ tasks \in Seq(Task) /\ t \in Task
  BY <1>1, NewTaskType, ZenonT(60) DEF Settled, Held, DeliveryInv, PathInv, TypeOK
<1>3. AckBound' /\ SessionBound' /\ InOrder'
  BY <1>1, <1>2, BoundsKeep, ZenonT(60)
<1>4. NothingForgotten'
  BY <1>1, <1>2, FlightAppend, ZenonT(60) DEF DeliveryInv, NothingForgotten
<1> QED BY <1>3, <1>4, Zenon DEF DeliveryInv

(***************************************************************************)
(* Receiving, skipping or failing to decode a message keeps the invariant: *)
(* no skipped row is unsettled.                                            *)
(***************************************************************************)
LEMMA ReceiveMessageKeeps ==
  ASSUME DeliveryInv, PathInv', ReceiveMessage
  PROVE  DeliveryInv'
<1> DEFINE i == cursor
           t == NewTask("logical", i)
<1>1. /\ phase = "up" /\ phase' = "up" /\ i \in Positions /\ cursor' = i + 1
      /\ UNCHANGED <<slot, disk, starts, restart, processed, offset, emitted, dropped>>
      /\ UNCHANGED <<active, held, draining>>
      /\ \/ Lsn(i) < restart /\ UNCHANGED <<tasks, failed>>
         \/ Lsn(i) >= restart /\ tasks' = Append(tasks, t) /\ UNCHANGED failed
         \/ failed' = failed \cup {i} /\ UNCHANGED tasks
  BY ReceiveOutcome, ZenonT(60) DEF DeliveryInv
<1>2. Settled \subseteq Settled' /\ Held' = Held
  BY <1>1, Zenon DEF Settled, Held
<1>3. AckBound' /\ SessionBound' /\ InOrder'
  BY <1>1, <1>2, BoundsKeep, ZenonT(60)
<1>4. /\ tasks \in Seq(Task) /\ i \in Nat /\ restart \in Nat
      /\ t \in Task /\ t.op = "logical" /\ t.at = i
  BY <1>1, NewTaskType, MessageTypes, ZenonT(60) DEF DeliveryInv, PathInv, TypeOK, NewTask
<1>5. NothingForgotten'
  <2> SUFFICES ASSUME NEW j \in Rows, j < i + 1, j \notin Settled'
               PROVE  InFlight(j, tasks', Held)
    BY <1>1, <1>2, Zenon DEF NothingForgotten
  <2>1. j \in Nat /\ Lsn(j) \in Nat /\ j \notin Settled
    BY <1>2, MessageTypes, Zenon DEF Rows, Lsn
  <2>2. CASE j = i
    <3>1. restart <= Lsn(i)
      BY <1>1, <2>1, <2>2, Zenon DEF DeliveryInv, SessionBound, Unsettled
    <3>2. ~(Lsn(i) < restart)
      BY <1>4, <2>1, <2>2, <3>1, SMTT(30)
    <3>3. failed' # failed \cup {i}
      BY <2>2, Zenon DEF Settled
    <3> QED BY <1>1, <1>4, <2>2, <3>2, <3>3, FlightAppend, Zenon
  <2>3. CASE j # i
    <3>1. InFlight(j, tasks, Held)
      BY <1>1, <1>4, <2>1, <2>3, SMTT(30) DEF DeliveryInv, NothingForgotten
    <3> QED BY <1>1, <1>4, <3>1, FlightAppend, ZenonT(60)
  <2> QED BY <2>2, <2>3, Zenon
<1> QED BY <1>3, <1>5, Zenon DEF DeliveryInv

(***************************************************************************)
(* A start keeps the invariant: it resumes before every unsettled row.     *)
(***************************************************************************)
LEMMA StartKeeps ==
  ASSUME DeliveryInv, PathInv', StartReplication
  PROVE  DeliveryInv'
<1>1. /\ phase' = "up" /\ starts' = starts + 1 /\ restart' = locateRestartLSN
      /\ processed' = restart' /\ offset' = disk /\ ResumesAt(cursor', restart')
      /\ tasks' = <<>> /\ active' = FALSE /\ held' = <<>> /\ draining' = FALSE /\ closing' = 0
      /\ UNCHANGED <<slot, disk, emitted, failed, dropped>>
  BY Zenon DEF StartReplication, durable, history
<1>2. /\ slot \in Nat /\ slot >= 1 /\ disk \in Nat /\ starts \in Nat /\ MaxStarts \in Nat
      /\ starts < MaxStarts /\ cursor' \in Nat \ {0}
      /\ \A j \in Rows : j \in Nat /\ Lsn(j) \in Nat
  <2>1. \A j \in Rows : j \in Nat /\ Lsn(j) \in Nat
    BY MessageTypes, Zenon DEF Rows, Lsn
  <2>2. TypeOK /\ AckBound
    BY Zenon DEF DeliveryInv, PathInv
  <2>3. slot \in Nat /\ disk \in Nat /\ starts \in Nat
    BY <2>2, SMTT(30) DEF TypeOK
  <2>4. cursor' \in Nat \ {0} /\ starts < MaxStarts
    BY SMTT(30) DEF PathInv, TypeOK, StartReplication
  <2> QED BY <2>1, <2>2, <2>3, <2>4, ConfigAssumption, ZenonT(30) DEF AckBound
<1>3. restart' = slot \/ restart' = disk
  BY <1>1, <1>2, SMTT(30) DEF locateRestartLSN, Larger
<1>4. Settled' = Settled /\ Unsettled' = Unsettled /\ Held' = <<>>
  BY <1>1, Zenon DEF Settled, Unsettled, Held
<1>5. \A j \in Unsettled : /\ j \in Rows
                           /\ slot + Spare <= Lsn(j) /\ disk + Spare <= Lsn(j)
                           /\ restart' + Spare <= Lsn(j)
  BY <1>3, Zenon DEF DeliveryInv, AckBound, Unsettled
<1>6. AckBound' /\ SessionBound'
  <2>1. Spare' = Spare - 1 /\ Spare \in Nat /\ restart' \in Nat
    BY <1>1, <1>2, <1>3, SMTT(30) DEF Spare
  <2>2. AckBound'
    BY <1>1, <1>2, <1>4, <1>5, <2>1, SMTT(30) DEF AckBound
  <2>3. SessionBound'
    <3> SUFFICES ASSUME NEW j \in Unsettled
                 PROVE  /\ restart' <= Lsn(j)
                        /\ processed' + 1 + Spare' <= Lsn(j)
                        /\ offset' + Spare' <= Lsn(j)
      BY <1>4, Zenon DEF SessionBound
    <3>1. Lsn(j) \in Nat /\ disk + Spare <= Lsn(j) /\ restart' + Spare <= Lsn(j)
      BY <1>2, <1>5, Zenon
    <3> QED BY <1>1, <1>2, <2>1, <3>1, SMTT(30)
  <2> QED BY <2>2, <2>3, Zenon
<1>7. InOrder'
  BY <1>1, <1>4, Zenon DEF DeliveryInv, InOrder
<1>8. NothingForgotten'
  <2> SUFFICES ASSUME NEW j \in Rows, j < cursor' PROVE j \in Settled
    BY <1>4, Zenon DEF NothingForgotten
  <2>1. j \in Positions /\ Lsn(j) <= Stream[j].final /\ Stream[j].final \in Nat
    BY StreamAssumption, MessageTypes, Zenon DEF Rows, RowKinds, Lsn
  <2>2. Stream[j].final < restart'
    BY <1>1, <2>1, ZenonT(60) DEF ResumesAt
  <2>3. ~(restart' + Spare <= Lsn(j))
    BY <1>2, <1>3, <2>1, <2>2, SMTT(30) DEF Spare
  <2> QED BY <1>5, <2>3, Zenon DEF Unsettled
<1> QED BY <1>6, <1>7, <1>8, Zenon DEF DeliveryInv

(***************************************************************************)
(* A step that only makes a position durable.                              *)
(***************************************************************************)
LEMMA DurableKeeps ==
  ASSUME DeliveryInv, PathInv', Save \/ SendStatusUpdate
  PROVE  DeliveryInv'
<1>1. /\ phase = "up"
      /\ UNCHANGED <<phase, starts, restart, processed, offset, cursor, tasks>>
      /\ UNCHANGED <<emitted, failed, dropped, active, spilled, held, draining, closing>>
      /\ slot' = slot \/ slot' = processed + 1
      /\ disk' = disk \/ disk' = offset
  BY Zenon DEF Save, SendStatusUpdate, session, context, server, tracker, history
<1>2. Settled' = Settled /\ Unsettled' = Unsettled /\ Held' = Held /\ Spare' = Spare
  BY <1>1, Zenon DEF Settled, Unsettled, Held, Spare
<1>3. AckBound'
  <2>1. /\ slot \in Nat /\ processed \in Nat /\ slot >= 1
        /\ \A j \in Unsettled : slot + Spare <= Lsn(j) /\ disk + Spare <= Lsn(j)
    BY ZenonT(60) DEF DeliveryInv, AckBound, PathInv, TypeOK
  <2>2. \A j \in Unsettled : processed + 1 + Spare <= Lsn(j) /\ offset + Spare <= Lsn(j)
    BY <1>1, Zenon DEF DeliveryInv, SessionBound
  <2>3. slot' >= 1
    BY <1>1, <2>1, SMTT(30)
  <2> QED BY <1>1, <1>2, <2>1, <2>2, <2>3, ZenonT(60) DEF AckBound
<1>4. SessionBound' /\ InOrder'
  BY <1>1, <1>2, ZenonT(60) DEF DeliveryInv, SessionBound, InOrder
<1>5. NothingForgotten'
  BY <1>1, <1>2, ZenonT(60) DEF DeliveryInv, NothingForgotten
<1> QED BY <1>3, <1>4, <1>5, ZenonT(60) DEF DeliveryInv

(***************************************************************************)
(* A crash and a stuttering step keep the invariant.                       *)
(***************************************************************************)
LEMMA IdleKeeps ==
  ASSUME DeliveryInv, PathInv', Crash \/ UNCHANGED vars
  PROVE  DeliveryInv'
<1>1. /\ phase' = "up" => phase = "up"
      /\ UNCHANGED <<slot, disk, starts, restart, processed, offset, cursor, tasks>>
      /\ UNCHANGED <<emitted, failed, dropped, active, held, draining>>
  BY Zenon DEF Crash, vars, durable, session, context, server, tracker, history
<1>2. Settled' = Settled /\ Held' = Held
  BY <1>1, Zenon DEF Settled, Held
<1>3. AckBound' /\ SessionBound' /\ InOrder'
  BY <1>1, <1>2, BoundsKeep, Zenon
<1>4. NothingForgotten'
  BY <1>1, <1>2, Zenon DEF DeliveryInv, NothingForgotten
<1> QED BY <1>3, <1>4, ZenonT(60) DEF DeliveryInv

(***************************************************************************)
(* The bounds hold initially.                                              *)
(***************************************************************************)
LEMMA InitBounds ==
  ASSUME Spaced, Init
  PROVE  AckBound /\ SessionBound /\ InOrder /\ NothingForgotten
<1>1. CreatedAt \in Nat \ {0} /\ MaxStarts \in Nat /\ \A j \in Rows : Lsn(j) \in Nat
  <2>1. \A j \in Rows : Lsn(j) \in Nat
    BY MessageTypes, Zenon DEF Rows, Lsn
  <2> QED BY <2>1, ConfigAssumption, Zenon
<1>2. AckBound
  <2>1. slot = CreatedAt /\ disk = 0 /\ Spare = MaxStarts
    BY <1>1 DEF Init, Spare
  <2>2. \A j \in Unsettled : j \in Rows /\ CreatedAt + MaxStarts <= Lsn(j)
    BY Zenon DEF Spaced, Unsettled
  <2> QED BY <1>1, <2>1, <2>2, SMTT(30) DEF AckBound
<1>3. phase # "up" /\ emitted = {}
  BY Zenon DEF Init
<1> QED BY <1>2, <1>3, Zenon DEF SessionBound, InOrder, NothingForgotten

-------------------------------------------------------------------------------
\* The theorems

(***************************************************************************)
(* The invariant of the replication path holds in every reachable state.   *)
(***************************************************************************)
THEOREM InvariantHolds ==
  ASSUME Spaced, NothingAtOnce
  PROVE  Spec => []DeliveryInv
<1>1. Init /\ PathInv => DeliveryInv
  BY InitBounds, Zenon DEF DeliveryInv
<1>2. DeliveryInv /\ PathInv' /\ [Next]_vars => DeliveryInv'
  <2> SUFFICES ASSUME DeliveryInv, PathInv', [Next]_vars PROVE DeliveryInv'
    BY Zenon
  <2>1. CASE UNCHANGED vars \/ Crash
    BY <2>1, IdleKeeps, Zenon
  <2>2. CASE StartReplication \/ Save \/ SendStatusUpdate
    BY <2>2, StartKeeps, DurableKeeps, Zenon
  <2>3. CASE Receive
    BY <2>3, ReceiveRelationKeeps, ReceiveMessageKeeps, Zenon DEF Receive
  <2>4. CASE Dispatch
    BY <2>4, RelationKeeps, BeginKeeps, CommitKeeps, InsertKeeps, ChangeKeeps, MarkerKeeps,
       DrainKeeps, RecordKeeps, FinishedKeeps, ZenonT(30) DEF Dispatch
  <2> QED BY <2>1, <2>2, <2>3, <2>4, ZenonT(60) DEF Next
<1> QED BY <1>1, <1>2, PathHolds, PTL DEF Spec

(***************************************************************************)
(* At-least-once delivery across crashes, for every history of the WAL in  *)
(* which transactions do not overlap (Spaced), every window size and every *)
(* way to configure the tracker but one (NothingAtOnce): a row before the  *)
(* position a restart resumes from is settled.                             *)
(***************************************************************************)
THEOREM NothingIsLost ==
  ASSUME Spaced, NothingAtOnce
  PROVE  Spec => []NoLoss
<1>1. DeliveryInv => NoLoss
  <2> SUFFICES ASSUME DeliveryInv, NEW j \in Rows, Stream[j].lsn < Larger(slot, disk),
                      j \notin Settled
               PROVE  FALSE
    BY Zenon DEF NoLoss
  <2>1. slot + Spare <= Lsn(j) /\ disk + Spare <= Lsn(j)
    BY Zenon DEF DeliveryInv, AckBound, Unsettled
  <2>2. slot \in Nat /\ disk \in Nat /\ Spare \in Nat /\ Lsn(j) \in Nat
    <3>1. slot \in Nat /\ disk \in Nat /\ starts \in 0..MaxStarts
      BY Zenon DEF DeliveryInv, PathInv, TypeOK
    <3>2. Spare \in Nat
      BY <3>1, ConfigAssumption, SMTT(30) DEF Spare
    <3>3. Lsn(j) \in Nat
      BY MessageTypes, Zenon DEF Lsn, Rows
    <3> QED BY <3>1, <3>2, <3>3, ZenonT(30)
  <2>3. slot <= Lsn(j) /\ disk <= Lsn(j)
    BY <2>1, <2>2, SMTT(30)
  <2>4. Larger(slot, disk) <= Lsn(j)
    BY <2>3, Zenon DEF Larger
  <2>5. Lsn(j) < Larger(slot, disk) /\ Larger(slot, disk) \in Nat
    BY <2>2, Zenon DEF Larger, Lsn
  <2> QED BY <2>2, <2>4, <2>5, SMTT(30)
<1> QED BY <1>1, InvariantHolds, PTL

(***************************************************************************)
(* Under the same condition, events reach the sink in commit order.        *)
(***************************************************************************)
THEOREM DeliveredInOrder ==
  ASSUME Spaced, NothingAtOnce
  PROVE  Spec => []InOrder
<1>1. DeliveryInv => InOrder
  BY Zenon DEF DeliveryInv
<1> QED BY <1>1, InvariantHolds, PTL

(***************************************************************************)
(* Under the same condition, no row falls between two stages.              *)
(***************************************************************************)
THEOREM NothingIsForgotten ==
  ASSUME Spaced, NothingAtOnce
  PROVE  Spec => []NothingForgotten
<1>1. DeliveryInv => NothingForgotten
  BY Zenon DEF DeliveryInv
<1> QED BY <1>1, InvariantHolds, PTL

(***************************************************************************)
(* Under the same condition the receive loop's skip rule does what it says *)
(* ("Skip all entries that were already replicated before the streamer was *)
(* shut down"): every row before the restart position is settled.          *)
(***************************************************************************)
THEOREM SkipsOnlyReplicated ==
  ASSUME Spaced, NothingAtOnce
  PROVE  Spec => []SkippedWereReplicated
<1>1. DeliveryInv => SkippedWereReplicated
  <2> SUFFICES ASSUME DeliveryInv, phase = "up", NEW j \in Rows, Stream[j].lsn < restart
               PROVE  j \in Settled
    BY ZenonT(60) DEF SkippedWereReplicated
  <2>1. restart \in Nat /\ Lsn(j) \in Nat /\ ~(restart <= Lsn(j))
    BY MessageTypes, SMTT(30) DEF DeliveryInv, PathInv, TypeOK, Lsn, Rows
  <2> QED BY <2>1, Zenon DEF DeliveryInv, SessionBound, Unsettled
<1> QED BY <1>1, InvariantHolds, PTL

-------------------------------------------------------------------------------
\* What is acknowledged is done with

(***************************************************************************)
(* Taking the first task brings nothing into flight.                       *)
(***************************************************************************)
LEMMA TailFlight ==
  ASSUME NEW q \in Seq(Task), q # <<>>
  PROVE  /\ \A j, h : InFlight(j, Tail(q), h) => InFlight(j, q, h)
         /\ OnceEach(q) => OnceEach(Tail(q))
<1>0. Tail(q) \in Seq(Task) /\ \A n \in DOMAIN Tail(q) : n + 1 \in DOMAIN q /\ Tail(q)[n] = q[n + 1]
  BY TailElements, Zenon
<1>1. \A j, h : InFlight(j, Tail(q), h) => InFlight(j, q, h)
  BY <1>0, ZenonT(30) DEF InFlight
<1>2. \A n \in Events(Tail(q)) : n \in Nat /\ n + 1 \in Events(q) /\ Tail(q)[n] = q[n + 1]
  BY <1>0, QueueElements, SMTT(30) DEF Events
<1>3. \A m, n \in Nat : m < n => m + 1 < n + 1
  OBVIOUS
<1> QED BY <1>1, <1>2, <1>3, ZenonT(30) DEF OnceEach

(***************************************************************************)
(* Appending a task brings at most its own message into flight, and a row  *)
(* has one event as long as the new one is behind all others.              *)
(***************************************************************************)
LEMMA AppendFlight ==
  ASSUME NEW q \in Seq(Task), NEW t \in Task
  PROVE  /\ \A j, h : InFlight(j, Append(q, t), h) =>
               InFlight(j, q, h) \/ (t.op \in {"logical", "record"} /\ t.at = j)
         /\ OnceEach(q) /\ (\/ t.op \notin {"record", "finished"}
                            \/ t.at \notin Rows
                            \/ \A n \in Events(q) : q[n].at < t.at)
              => OnceEach(Append(q, t))
<1> DEFINE r == Append(q, t)
<1>1. /\ \A n \in DOMAIN r : (n \in DOMAIN q /\ r[n] = q[n]) \/ (n = Len(q) + 1 /\ r[n] = t)
      /\ DOMAIN q = 1..Len(q) /\ Len(q) \in Nat
  BY AppendElements, SMTT(30)
<1>2. \A n \in DOMAIN q : q[n].at \in Nat
  BY QueueElements, ZenonT(30)
<1> HIDE DEF r
<1>3. \A j, h : InFlight(j, r, h) => InFlight(j, q, h) \/ (t.op \in {"logical", "record"} /\ t.at = j)
  BY <1>1, ZenonT(30) DEF InFlight
<1>4. ASSUME OnceEach(q), \/ t.op \notin {"record", "finished"}
                          \/ t.at \notin Rows
                          \/ \A n \in Events(q) : q[n].at < t.at
      PROVE  OnceEach(r)
  <2> SUFFICES ASSUME NEW m \in Events(r), NEW n \in Events(r), m < n, r[m].at = r[n].at
               PROVE  r[m].at \notin Rows
    BY Zenon DEF OnceEach
  <2>1. m \in DOMAIN r /\ n \in DOMAIN r /\ r[n].op \in {"record", "finished"} /\ r[m].op \in {"record", "finished"}
    BY Zenon DEF Events
  <2>2. m \in Events(q) /\ r[m] = q[m] /\ m \in DOMAIN q
    <3>1. m # Len(q) + 1
      BY <1>1, <2>1, SMTT(30)
    <3> QED BY <1>1, <2>1, <3>1, ZenonT(30) DEF Events
  <2>3. CASE n \in DOMAIN q /\ r[n] = q[n]
    BY <1>4, <2>1, <2>2, <2>3, ZenonT(30) DEF OnceEach, Events
  <2>4. CASE r[n] = t
    <3>1. CASE t.at \notin Rows
      BY <2>4, <3>1, Zenon
    <3>2. CASE \A k \in Events(q) : q[k].at < t.at
      BY <1>2, <2>2, <2>4, <3>2, SMTT(30)
    <3> QED BY <1>4, <2>1, <2>4, <3>1, <3>2, Zenon
  <2> QED BY <1>1, <2>1, <2>3, <2>4, Zenon
<1> QED BY <1>3, <1>4, Zenon DEF r

(***************************************************************************)
(* Collecting a message brings only that one into flight, and drain()      *)
(* brings none.                                                            *)
(***************************************************************************)
LEMMA WindowFlight ==
  ASSUME NEW q, NEW h \in Seq(Positions)
  PROVE  /\ \A j, i \in Positions : InFlight(j, q, Append(h, i)) => InFlight(j, q, h) \/ j = i
         /\ h # <<>> => \A j : InFlight(j, q, Tail(h)) \/ j = Head(h) => InFlight(j, q, h)
         /\ \A j : InFlight(j, q, <<>>) => InFlight(j, q, h)
<1>1. ASSUME NEW j \in Positions, NEW i \in Positions, InFlight(j, q, Append(h, i)), j # i PROVE InFlight(j, q, h)
  <2>1. \A n \in DOMAIN Append(h, i) : (n \in DOMAIN h /\ Append(h, i)[n] = h[n]) \/ Append(h, i)[n] = i
    BY AppendElements, SMTT(30)
  <2> QED BY <1>1, <2>1, ZenonT(30) DEF InFlight
<1>2. ASSUME h # <<>>, NEW j, InFlight(j, q, Tail(h)) \/ j = Head(h) PROVE InFlight(j, q, h)
  <2>1. /\ 1 \in DOMAIN h /\ h[1] = Head(h)
        /\ \A n \in DOMAIN Tail(h) : n + 1 \in DOMAIN h /\ Tail(h)[n] = h[n + 1]
    BY <1>2, TailElements, Zenon
  <2> QED BY <1>2, <2>1, ZenonT(30) DEF InFlight
<1>3. DOMAIN <<>> = {}
  BY EmptySeq, LenProperties, SMTT(30)
<1>4. \A j : InFlight(j, q, <<>>) => InFlight(j, q, h)
  BY <1>3, ZenonT(30) DEF InFlight
<1> QED BY <1>1, <1>2, <1>4, Zenon

(***************************************************************************)
(* A step that acknowledges nothing and brings into flight at most what is *)
(* received keeps what is acknowledged behind what is in flight.           *)
(***************************************************************************)
LEMMA DoneKeeps ==
  ASSUME DoneInv, phase' = "up" => phase = "up", UNCHANGED <<processed, restart>>,
         \A j \in Rows : cursor' <= j => cursor <= j,
         phase = "up" => \A j \in Rows : InFlight(j, tasks', Held') =>
           InFlight(j, tasks, Held) \/ (cursor <= j /\ restart <= Lsn(j)),
         phase = "up" /\ OnceEach(tasks) => OnceEach(tasks')
  PROVE  DoneInv'
BY ZenonT(60) DEF DoneInv

(***************************************************************************)
(* What the event at the head of the queue acknowledges lies before every  *)
(* row that is still on its way, for no row has two events.                *)
(***************************************************************************)
LEMMA HeadAcknowledges ==
  ASSUME Spaced, PathInv, DoneInv, phase = "up", tasks # <<>>, Head(tasks).op \in {"record", "finished"},
         NEW j \in Rows, InFlight(j, Tail(tasks), Held) \/ cursor <= j
  PROVE  End(Head(tasks).at) <= Lsn(j)
<1> DEFINE i == Head(tasks).at
<1>1. tasks \in Seq(Task) /\ i \in Positions /\ i \in Nat /\ j \in Positions /\ j \in Nat
  BY HeadTask, MessageTypes, Zenon DEF PathInv, TypeOK, Rows
<1>2. tasks[1] = Head(tasks) /\ 1 \in Events(tasks)
  BY <1>1, TailElements, Zenon DEF Events
<1>3. Pipeline(tasks, Held, closing, cursor) /\ OnceEach(tasks)
  BY Zenon DEF PathInv, PipelineInv, DoneInv
<1>4. i < j
  <2>1. CASE cursor <= j
    <3>1. i < cursor /\ cursor \in Int
      BY <1>2, <1>3, SMTT(30) DEF Pipeline, Below, PathInv, TypeOK
    <3> QED BY <1>1, <2>1, <3>1, SMTT(30)
  <2>2. CASE \E n \in DOMAIN Held : Held[n] = j
    BY <1>2, <1>3, <2>2, Zenon DEF Pipeline, Ordered
  <2>3. CASE \E n \in DOMAIN Tail(tasks) : Tail(tasks)[n].op \in {"logical", "record"} /\ Tail(tasks)[n].at = j
    <3>1. PICK m \in DOMAIN Tail(tasks) : Tail(tasks)[m].op \in {"logical", "record"} /\ Tail(tasks)[m].at = j
      BY <2>3, Zenon
    <3> DEFINE n == m + 1
    <3>2. n \in DOMAIN tasks /\ n > 1 /\ tasks[n].op \in {"logical", "record"} /\ tasks[n].at = j
      BY <1>1, <3>1, TailElements, Zenon
    <3>3. n \in Nat
      BY <1>1, <3>2, QueueElements, SMTT(30)
    <3> HIDE DEF n
    <3>4. CASE n \in Messages(tasks)
      BY <1>2, <1>3, <3>2, <3>4, Zenon DEF Pipeline, Ordered
    <3>5. CASE n \in Events(tasks)
      <4>1. 1 < n
        BY <3>2, <3>3, SMTT(30)
      <4>2. i <= j /\ i # j
        BY <1>2, <1>3, <3>2, <3>5, <4>1, ZenonT(30) DEF Pipeline, Ordered, OnceEach
      <4> QED BY <1>1, <4>2, SMTT(30)
    <3> QED BY <3>2, <3>4, <3>5, Zenon DEF Messages, Events
  <2> QED BY <2>1, <2>2, <2>3, Zenon DEF InFlight
<1>5. Kind(i) # "begin"
  BY <1>2, <1>3, Zenon DEF Pipeline, KindsFit
<1>6. End(i) + MaxStarts + 1 <= Lsn(j)
  BY <1>1, <1>4, <1>5, Zenon DEF Spaced
<1>7. End(i) \in Nat /\ Lsn(j) \in Nat /\ MaxStarts \in Nat
  BY <1>1, MessageTypes, ConfigAssumption, SMTT(30) DEF End, Lsn
<1> QED BY <1>6, <1>7, SMTT(30)

(***************************************************************************)
(* The emitter acknowledges nothing that is still on its way.              *)
(***************************************************************************)
LEMMA AcknowledgedDone ==
  ASSUME Spaced, PathInv, DoneInv, OnRecordEvent \/ OnTransactionFinishedEvent
  PROVE  DoneInv'
<1> DEFINE i == Head(tasks).at
<1>1. /\ phase = "up" /\ tasks # <<>> /\ Head(tasks).op \in {"record", "finished"} /\ tasks' = Tail(tasks)
      /\ UNCHANGED <<restart, cursor, active, held, draining>>
      /\ \/ processed' = processed
         \/ AcknowledgeProcessed(Lsn(i))
         \/ AcknowledgeProcessed(End(i))
  <2>1. CASE OnRecordEvent
    BY <2>1, ZenonT(30) DEF OnRecordEvent, EmitEvent, context, session, server, tracker, End
  <2>2. CASE OnTransactionFinishedEvent
    BY <2>2, ZenonT(30) DEF OnTransactionFinishedEvent, session, server, tracker, Lsn
  <2> QED BY <2>1, <2>2, Zenon
<1>2. Held' = Held /\ tasks \in Seq(Task) /\ i \in Positions
  BY <1>1, HeadTask, Zenon DEF Held, PathInv, TypeOK
<1>3. OnceEach(tasks')
  BY <1>1, <1>2, TailFlight, Zenon DEF DoneInv
<1>4. ASSUME NEW j \in Rows, InFlight(j, tasks', Held') \/ (cursor' <= j /\ restart' <= Lsn(j))
      PROVE  processed' <= Lsn(j)
  <2>1. InFlight(j, Tail(tasks), Held) \/ (cursor <= j /\ restart <= Lsn(j))
    BY <1>1, <1>2, <1>4, Zenon
  <2>2. End(i) <= Lsn(j)
    BY <1>1, <2>1, HeadAcknowledges, Zenon
  <2>3. processed <= Lsn(j)
    BY <1>1, <1>2, <2>1, TailFlight, Zenon DEF DoneInv
  <2>4. Lsn(i) \in Nat /\ End(i) \in Nat /\ Lsn(i) <= End(i) /\ Lsn(j) \in Nat
    BY <1>2, MessageTypes, SMTT(30) DEF End, Lsn, Rows
  <2>5. processed' \in {processed, Lsn(i), End(i)}
    BY <1>1, Zenon DEF AcknowledgeProcessed, Larger
  <2> QED BY <2>2, <2>3, <2>4, <2>5, SMTT(30)
<1> QED BY <1>3, <1>4, Zenon DEF DoneInv

(***************************************************************************)
(* Taking a task off the queue that is not acknowledged.                   *)
(***************************************************************************)
LEMMA TakenDone ==
  ASSUME PathInv, DoneInv, phase = "up", tasks # <<>>, tasks' = Tail(tasks), Held' = Held,
         UNCHANGED <<phase, processed, restart, cursor>>
  PROVE  DoneInv'
<1>1. tasks \in Seq(Task)
  BY Zenon DEF PathInv, TypeOK
<1> QED BY <1>1, TailFlight, DoneKeeps, ZenonT(30)

(***************************************************************************)
(* Collecting a message or handing it to the resolver.                     *)
(***************************************************************************)
LEMMA PushOrResolveDone ==
  ASSUME NothingAtOnce, PathInv, DoneInv, Dispatches(Kinds), UNCHANGED <<restart, cursor>>,
         PushOrResolve(Head(tasks).at)
  PROVE  DoneInv'
<1> DEFINE i == Head(tasks).at
           q == Tail(tasks)
           t == NewTask("record", i)
<1>1. /\ phase = "up" /\ ~draining /\ tasks # <<>> /\ Head(tasks).op = "logical"
  BY Zenon DEF Dispatches
<1>2. /\ tasks \in Seq(Task) /\ q \in Seq(Task) /\ Held \in Seq(Positions) /\ i \in Positions
      /\ \A n \in Events(q) : q[n].at < i
  BY <1>1, HeadMessage, Zenon
<1>3. InFlight(i, tasks, Held)
  BY <1>1, <1>2, TailElements, ZenonT(30) DEF InFlight
<1>4. /\ \A j : InFlight(j, q, Held) => InFlight(j, tasks, Held)
      /\ OnceEach(tasks) => OnceEach(q)
  BY <1>1, <1>2, TailFlight, ZenonT(30)
<1>5. CASE Collects
  <2>1. UNCHANGED <<phase, processed>> /\ tasks' = q /\ Held' = Append(Held, i)
    BY <1>5, ZenonT(30) DEF PushOrResolve, Push, context, Held, Collects
  <2>2. \A j \in Rows : InFlight(j, tasks', Held') => InFlight(j, tasks, Held)
    BY <1>2, <1>3, <1>4, <2>1, WindowFlight, ZenonT(60) DEF Rows
  <2> QED BY <1>1, <1>4, <2>1, <2>2, DoneKeeps, ZenonT(30)
<1>6. CASE ~Collects
  <2>1. Resolve(i, q) /\ Held' = Held
    BY <1>6, ZenonT(60) DEF PushOrResolve, Held
  <2>2. HasRelation(i) => Stream[i].relation \in resolved
    BY <1>1, FittingHolds, FittingPop, ZenonT(60) DEF PathInv, SessionInv, TypeOK
  <2>3. /\ UNCHANGED <<phase, processed>>
        /\ tasks' = Append(q, t) \/ tasks' = q
    BY <1>2, <2>1, <2>2, ResolveOutcome, ZenonT(60)
  <2>4. t \in Task /\ t.op = "record" /\ t.at = i
    BY <1>2, NewTaskType, Zenon DEF NewTask
  <2>5. \A j \in Rows : InFlight(j, tasks', Held') => InFlight(j, tasks, Held)
    BY <1>2, <1>3, <1>4, <2>1, <2>3, <2>4, AppendFlight, ZenonT(60)
  <2>6. OnceEach(tasks) => OnceEach(tasks')
    BY <1>2, <1>4, <2>3, <2>4, AppendFlight, ZenonT(60)
  <2> QED BY <1>1, <2>3, <2>5, <2>6, DoneKeeps, ZenonT(30)
<1> QED BY <1>5, <1>6, Zenon

(***************************************************************************)
(* The handlers of relations, Begin messages, rows, chunks and markers.    *)
(***************************************************************************)
LEMMA MessageDone ==
  ASSUME NothingAtOnce, PathInv, DoneInv,
         OnRelationEvent \/ OnBeginEvent \/ OnInsertEvent \/ OnChangeEvent \/ OnChunkUpdateEvent \/ OnMarkerEvent
  PROVE  DoneInv'
<1>1. CASE OnRelationEvent
  BY <1>1, TakenDone, ZenonT(30) DEF OnRelationEvent, session, context, server, tracker, Held
<1>2. CASE OnBeginEvent
  <2>1. /\ phase = "up" /\ ~draining /\ tasks # <<>> /\ tasks' = Tail(tasks) /\ ~active /\ draining' = draining
        /\ UNCHANGED <<phase, processed, restart, cursor>>
        /\ held' = <<>> \/ UNCHANGED <<active, held>>
    BY <1>2, BeginFindsClosed, ZenonT(60) DEF OnBeginEvent, Dispatches, session, context, server, tracker
  <2>2. Held' = Held
    BY <2>1 DEF Held
  <2> QED BY <2>1, <2>2, TakenDone, ZenonT(30)
<1>3. CASE OnInsertEvent
  <2>1. Dispatches(Kinds) /\ phase = "up" /\ tasks # <<>> /\ UNCHANGED <<restart, cursor>>
    BY <1>3, Zenon DEF OnInsertEvent, Dispatches, Kinds, RowKinds, server
  <2>2. \/ PushOrResolve(Head(tasks).at)
        \/ tasks' = Tail(tasks) /\ Held' = Held /\ UNCHANGED <<phase, processed>>
    BY <1>3, ZenonT(30) DEF OnInsertEvent, context, tracker, Held
  <2> QED BY <2>1, <2>2, PushOrResolveDone, TakenDone, ZenonT(30)
<1>4. CASE OnChangeEvent
  <2>1. Dispatches(Kinds) /\ PushOrResolve(Head(tasks).at) /\ UNCHANGED <<restart, cursor>>
    BY <1>4, Zenon DEF OnChangeEvent, Dispatches, Kinds, RowKinds, ChunkKinds, server
  <2> QED BY <2>1, PushOrResolveDone, Zenon
<1>5. CASE OnChunkUpdateEvent
  <2>1. Dispatches(Kinds) /\ PushOrResolve(Head(tasks).at) /\ UNCHANGED <<restart, cursor>>
    BY <1>5, Zenon DEF OnChunkUpdateEvent, Dispatches, Kinds, ChunkKinds, server
  <2> QED BY <2>1, PushOrResolveDone, Zenon
<1>6. CASE OnMarkerEvent
  <2>1. Dispatches(Kinds) /\ phase = "up" /\ tasks # <<>> /\ UNCHANGED <<restart, cursor>>
    BY <1>6, Zenon DEF OnMarkerEvent, Dispatches, Kinds, MarkKinds, server
  <2>2. \/ PushOrResolve(Head(tasks).at)
        \/ tasks' = Tail(tasks) /\ Held' = Held /\ UNCHANGED <<phase, processed>>
    BY <1>6, ZenonT(30) DEF OnMarkerEvent, context, Held
  <2> QED BY <2>1, <2>2, PushOrResolveDone, TakenDone, ZenonT(30)
<1> QED BY <1>1, <1>2, <1>3, <1>4, <1>5, <1>6, Zenon

(***************************************************************************)
(* A commit brings no row into flight, whatever it enqueues.               *)
(***************************************************************************)
LEMMA CommitDone ==
  ASSUME PathInv, DoneInv, OnCommitEvent
  PROVE  DoneInv'
<1> DEFINE i == Head(tasks).at
           q == Tail(tasks)
           event == <<NewTask("record", i)>>
           Good(r) == /\ r \in Seq(Task) /\ OnceEach(r)
                      /\ \A j \in Rows : \A h : InFlight(j, r, h) => InFlight(j, q, h)
<1>1. /\ phase = "up" /\ ~draining /\ tasks # <<>> /\ Head(tasks).op = "logical" /\ active' = FALSE
      /\ UNCHANGED <<phase, processed, restart, cursor, held>>
      /\ i \notin Rows
  BY ZenonT(30) DEF OnCommitEvent, Dispatches, session, context, server, Rows, RowKinds
<1>2. tasks \in Seq(Task) /\ q \in Seq(Task) /\ Held \in Seq(Positions) /\ i \in Positions
  BY <1>1, HeadMessage, Zenon
<1>3. Good(q) /\ \A j, h : InFlight(j, q, h) => InFlight(j, tasks, h)
  BY <1>1, <1>2, TailFlight, ZenonT(30) DEF DoneInv
<1>4. ASSUME NEW r, Good(r), NEW op \in {"record", "finished"}
      PROVE  Good(Append(r, NewTask(op, i)))
  <2>1. NewTask(op, i) \in Task /\ NewTask(op, i).at = i
    BY <1>2, NewTaskType, Zenon DEF NewTask
  <2>2. Append(r, NewTask(op, i)) \in Seq(Task)
    BY <1>4, <2>1, AppendElements, Zenon
  <2>3. \A j, h : InFlight(j, Append(r, NewTask(op, i)), h) => InFlight(j, r, h) \/ j = i
    BY <1>4, <2>1, AppendFlight, ZenonT(30)
  <2>4. OnceEach(Append(r, NewTask(op, i)))
    BY <1>1, <1>4, <2>1, AppendFlight, ZenonT(30)
  <2> QED BY <1>1, <1>4, <2>2, <2>3, <2>4, ZenonT(60)
<1>5. ASSUME NEW r, Good(r)
      PROVE  Good(r \o event) /\ Good(r \o <<>>)
  <2>1. r \in Seq(Task) /\ NewTask("record", i) \in Task
    BY <1>2, <1>5, NewTaskType, ZenonT(30)
  <2>2. r \o event = Append(r, NewTask("record", i)) /\ r \o <<>> = r
    BY <2>1, AppendIsConcat, ConcatEmptySeq, ZenonT(30)
  <2>3. Good(Append(r, NewTask("record", i)))
    BY <1>4, <1>5, ZenonT(30)
  <2> QED BY <1>5, <2>2, <2>3, ZenonT(60)
<1> HIDE DEF Good, event
<1>6. Good(tasks')
  <2>1. CASE tasks' = Append(q, NewTask("finished", i)) \/ tasks' = q
    BY <1>3, <1>4, <2>1, ZenonT(30)
  <2>2. CASE tasks' = q \o (IF compression /\ GenCompression THEN event ELSE <<>>)
                        \o (IF decompression /\ GenDecompression THEN event ELSE <<>>)
    <3>1. Good(q \o event) /\ Good(q \o <<>>)
      BY <1>3, <1>5, ZenonT(30)
    <3>2. /\ Good((q \o event) \o event) /\ Good((q \o event) \o <<>>)
          /\ Good((q \o <<>>) \o event) /\ Good((q \o <<>>) \o <<>>)
      BY <1>5, <3>1, ZenonT(30)
    <3> QED BY <2>2, <3>2, Zenon
  <2> QED BY <2>1, <2>2, ZenonT(30) DEF OnCommitEvent, event
<1>7. Held' = <<>> \/ Held' = Held
  <2>1. \/ draining' = draining
        \/ active /\ draining' = TRUE
    BY ZenonT(30) DEF OnCommitEvent
  <2> QED BY <1>1, <2>1, SMTT(30) DEF Held
<1>8. \A j \in Rows : InFlight(j, tasks', Held') => InFlight(j, tasks, Held)
  <2>1. \A j : InFlight(j, tasks, <<>>) => InFlight(j, tasks, Held)
    BY <1>2, WindowFlight, Zenon
  <2> QED BY <1>3, <1>6, <1>7, <2>1, ZenonT(30) DEF Good
<1> QED BY <1>1, <1>6, <1>8, DoneKeeps, ZenonT(30) DEF Good

(***************************************************************************)
(* A step of drain(), and the commit after its last one.                   *)
(***************************************************************************)
LEMMA DrainDone ==
  ASSUME NothingAtOnce, PathInv, DoneInv, Drain
  PROVE  DoneInv'
<1>1. /\ phase = "up" /\ phase' = "up" /\ draining /\ Held = held
      /\ UNCHANGED <<restart, cursor>>
      /\ tasks \in Seq(Task) /\ held \in Seq(Positions) /\ closing \in {0} \cup Positions
  BY DrainTasks, ZenonT(60) DEF Held, PathInv, TypeOK
<1>2. CASE held # <<>>
  <2> DEFINE i == Head(held)
             t == NewTask("record", i)
  <2>1. Resolve(i, tasks) /\ Held' = Tail(held) /\ i \in Positions
    BY <1>2, DrainTasks, HeadHeld, ZenonT(60) DEF PathInv
  <2>2. HasRelation(i) => Stream[i].relation \in resolved
    BY <1>1, <1>2, AheadHeld, ZenonT(60) DEF PathInv, KnownInv
  <2>3. /\ processed' = processed
        /\ tasks' = Append(tasks, t) \/ tasks' = tasks
    BY <2>1, <2>2, ResolveOutcome, Zenon
  <2>4. t \in Task /\ t.op = "record" /\ t.at = i
    BY <2>1, NewTaskType, Zenon DEF NewTask
  <2>5. \A n \in Events(tasks) : tasks[n].at < i
    BY <1>1, <1>2, OrderHeldTail, ZenonT(30) DEF PathInv, PipelineInv, Pipeline
  <2>6. \A j \in Rows : InFlight(j, tasks', Held') => InFlight(j, tasks, Held)
    <3>1. \A j : InFlight(j, tasks, Tail(held)) \/ j = i => InFlight(j, tasks, held)
      BY <1>1, <1>2, WindowFlight, ZenonT(30)
    <3> QED BY <1>1, <2>1, <2>3, <2>4, <3>1, AppendFlight, ZenonT(60)
  <2>7. OnceEach(tasks) => OnceEach(tasks')
    BY <1>1, <2>3, <2>4, <2>5, AppendFlight, ZenonT(60)
  <2> QED BY <1>1, <2>3, <2>6, <2>7, DoneKeeps, ZenonT(30)
<1>3. CASE held = <<>>
  <2>1. /\ processed' = processed /\ Held' = <<>>
        /\ tasks' = tasks \/ (closing # 0 /\ tasks' = Append(tasks, NewTask("finished", closing)))
    BY <1>3, DrainTasks, ZenonT(60) DEF Drain
  <2>2. closing # 0 => /\ NewTask("finished", closing) \in Task
                       /\ NewTask("finished", closing).op = "finished"
                       /\ NewTask("finished", closing).at = closing /\ closing \notin Rows
    BY <1>1, NewTaskType, ZenonT(60) DEF NewTask, PathInv, PipelineInv, Pipeline, KindsFit, Kind, Rows, RowKinds
  <2>3. \A j \in Rows : InFlight(j, tasks', Held') => InFlight(j, tasks, Held)
    BY <1>1, <1>3, <2>1, <2>2, AppendFlight, ZenonT(60)
  <2>4. OnceEach(tasks) => OnceEach(tasks')
    BY <1>1, <2>1, <2>2, AppendFlight, ZenonT(60)
  <2> QED BY <1>1, <2>1, <2>3, <2>4, DoneKeeps, ZenonT(30)
<1> QED BY <1>2, <1>3, Zenon

(***************************************************************************)
(* The receive loop lets in only rows that are not acknowledged.           *)
(***************************************************************************)
LEMMA ReceiveDone ==
  ASSUME PathInv, DoneInv, Receive
  PROVE  DoneInv'
<1>1. CASE ReceiveRelation
  <2> DEFINE t == NewTask("relation", cursor)
  <2>1. /\ phase = "up" /\ cursor \in Positions /\ (tasks' = tasks \/ tasks' = Append(tasks, t))
        /\ UNCHANGED <<phase, restart, processed, cursor>> /\ Held' = Held
    BY <1>1, ZenonT(30) DEF ReceiveRelation, session, context, tracker, Held
  <2>2. tasks \in Seq(Task) /\ t \in Task /\ t.op = "relation"
    BY <2>1, NewTaskType, Zenon DEF PathInv, TypeOK, NewTask
  <2>3. \A j \in Rows : InFlight(j, tasks', Held') => InFlight(j, tasks, Held)
    BY <2>1, <2>2, AppendFlight, ZenonT(60)
  <2>4. OnceEach(tasks) => OnceEach(tasks')
    BY <2>1, <2>2, AppendFlight, ZenonT(60)
  <2> QED BY <2>1, <2>3, <2>4, DoneKeeps, ZenonT(30)
<1>2. CASE ReceiveMessage
  <2> DEFINE t == NewTask("logical", cursor)
  <2>1. /\ phase = "up" /\ phase' = "up" /\ cursor \in Positions /\ cursor' = cursor + 1
        /\ UNCHANGED <<restart, processed, active, held, draining>>
        /\ tasks' = tasks \/ (Lsn(cursor) >= restart /\ tasks' = Append(tasks, t))
    BY <1>2, ReceiveOutcome, ZenonT(60)
  <2>2. /\ tasks \in Seq(Task) /\ t \in Task /\ t.op = "logical" /\ t.at = cursor /\ Held' = Held
    BY <2>1, NewTaskType, Zenon DEF PathInv, TypeOK, NewTask, Held
  <2>3. /\ cursor <= cursor /\ (Lsn(cursor) >= restart => restart <= Lsn(cursor))
        /\ \A j \in Rows : cursor' <= j => cursor <= j
    <3>1. cursor \in Nat /\ restart \in Nat /\ Lsn(cursor) \in Nat /\ \A j \in Rows : j \in Nat
      BY <2>1, MessageTypes, ZenonT(30) DEF Lsn, Rows, PathInv, TypeOK
    <3> QED BY <2>1, <3>1, SMTT(30)
  <2>4. \A j \in Rows : InFlight(j, tasks', Held') => InFlight(j, tasks, Held) \/ (cursor <= j /\ restart <= Lsn(j))
    <3>1. \A j : InFlight(j, Append(tasks, t), Held) => InFlight(j, tasks, Held) \/ cursor = j
      BY <2>2, AppendFlight, ZenonT(30)
    <3> HIDE DEF t
    <3> QED BY <2>1, <2>2, <2>3, <3>1, ZenonT(60)
  <2>5. OnceEach(tasks) => OnceEach(tasks')
    BY <2>1, <2>2, AppendFlight, ZenonT(60)
  <2> QED BY <2>1, <2>3, <2>4, <2>5, DoneKeeps, ZenonT(30)
<1> QED BY <1>1, <1>2, Zenon DEF Receive

(***************************************************************************)
(* A start acknowledges up to where it resumes, with nothing in flight.    *)
(***************************************************************************)
LEMMA StartDone ==
  ASSUME StartReplication
  PROVE  DoneInv'
<1>1. tasks' = <<>> /\ held' = <<>> /\ processed' = restart'
  BY Zenon DEF StartReplication
<1>2. DOMAIN <<>> = {} /\ Held' = <<>>
  BY <1>1, EmptySeq, LenProperties, SMTT(30) DEF Held
<1>3. OnceEach(tasks') /\ \A j : ~InFlight(j, tasks', Held')
  BY <1>1, <1>2, ZenonT(30) DEF OnceEach, Events, InFlight
<1> QED BY <1>1, <1>3, ZenonT(30) DEF DoneInv

(***************************************************************************)
(* Saving, reporting, a crash and a stuttering step.                       *)
(***************************************************************************)
LEMMA IdleDone ==
  ASSUME DoneInv, Save \/ SendStatusUpdate \/ Crash \/ UNCHANGED vars
  PROVE  DoneInv'
<1>1. /\ phase' = "up" => phase = "up"
      /\ UNCHANGED <<restart, processed, cursor, tasks, active, held, draining>>
  BY ZenonT(30) DEF Save, SendStatusUpdate, Crash, vars, session, context, server, tracker
<1>2. Held' = Held
  BY <1>1, Zenon DEF Held
<1> QED BY <1>1, <1>2, ZenonT(30) DEF DoneInv

(***************************************************************************)
(* Under the same condition, what is acknowledged is done with: no row     *)
(* before lastProcessedLSN is on its way any more, in whatever session.    *)
(***************************************************************************)
THEOREM NothingAcknowledgedOnItsWay ==
  ASSUME Spaced, NothingAtOnce
  PROVE  Spec => []AcknowledgedIsDone
<1>1. Init => DoneInv
  BY Zenon DEF Init, DoneInv
<1>2. PathInv /\ DoneInv /\ [Next]_vars => DoneInv'
  <2> SUFFICES ASSUME PathInv, DoneInv, [Next]_vars PROVE DoneInv'
    BY Zenon
  <2>1. CASE UNCHANGED vars \/ Crash \/ Save \/ SendStatusUpdate \/ StartReplication
    BY <2>1, IdleDone, StartDone, Zenon
  <2>2. CASE Receive
    BY <2>2, ReceiveDone, Zenon
  <2>3. CASE Dispatch
    BY <2>3, MessageDone, CommitDone, DrainDone, AcknowledgedDone, ZenonT(30) DEF Dispatch
  <2> QED BY <2>1, <2>2, <2>3, ZenonT(60) DEF Next
<1>3. PathInv /\ DoneInv => AcknowledgedIsDone
  <2> SUFFICES ASSUME PathInv, DoneInv, phase = "up", NEW j \in Rows, InFlight(j, tasks, Held)
               PROVE  Stream[j].lsn >= processed
    BY ZenonT(30) DEF AcknowledgedIsDone
  <2>1. processed <= Stream[j].lsn
    BY ZenonT(30) DEF DoneInv, Lsn
  <2>2. processed \in Nat /\ Stream[j].lsn \in Nat
    BY MessageTypes, Zenon DEF PathInv, TypeOK, Rows
  <2> QED BY <2>1, <2>2, SMTT(30)
<1> QED BY <1>1, <1>2, <1>3, PathHolds, PTL DEF Spec

===============================================================================
