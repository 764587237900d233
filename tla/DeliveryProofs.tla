---------------------------- MODULE DeliveryProofs ----------------------------
(***************************************************************************)
(* Type correctness of Delivery, that the position confirmed to the server *)
(* (confirmed_flush_lsn of the slot) never moves backwards, that nothing   *)
(* before the restart position is taken up again, and that the relation of *)
(* every row is known; and what taking from and appending to the task      *)
(* queue and the transaction window does to the order of the pipeline, to  *)
(* the messages in flight, and to the pairing of BEGIN and COMMIT.         *)
(***************************************************************************)
EXTENDS DeliveryInvariant, SequenceTheorems, TLAPS

(***************************************************************************)
(* The fields of a message of the stream have their types.                 *)
(***************************************************************************)
LEMMA MessageTypes ==
  ASSUME NEW i \in Positions
  PROVE  /\ Stream[i].lsn \in Nat /\ Stream[i].size \in Nat /\ Stream[i].final \in Nat
         /\ Stream[i].kind \in Kinds /\ Stream[i].relation \in Relations
         /\ i \in Nat /\ i >= 1 /\ Len(Stream) \in Nat /\ i <= Len(Stream)
<1>1. Stream[i] \in Message
  BY StreamAssumption, ElementOfSeq, Zenon DEF Positions
<1>2. Len(Stream) \in Nat
  BY StreamAssumption, LenProperties, Zenon
<1> HIDE DEF Kinds
<1> QED BY <1>1, <1>2 DEF Message, Positions

(***************************************************************************)
(* The first task of a non-empty task queue is a task.                     *)
(***************************************************************************)
LEMMA HeadTask ==
  ASSUME TypeOK, tasks # <<>>
  PROVE  Head(tasks) \in Task /\ Head(tasks).at \in Positions /\ Tail(tasks) \in Seq(Task)
<1>1. tasks \in Seq(Task)
  BY Zenon DEF TypeOK
<1>2. Head(tasks) \in Task /\ Tail(tasks) \in Seq(Task)
  BY <1>1, HeadTailProperties, Zenon
<1> QED BY <1>2, Zenon DEF Task

(***************************************************************************)
(* The first message of a non-empty transaction window is a message of the *)
(* stream.                                                                 *)
(***************************************************************************)
LEMMA HeadHeld ==
  ASSUME TypeOK, held # <<>>
  PROVE  Head(held) \in Positions /\ Tail(held) \in Seq(Positions)
BY HeadTailProperties, Zenon DEF TypeOK

(***************************************************************************)
(* NewTask (EnqueueTask's closure) makes a task.                           *)
(***************************************************************************)
LEMMA NewTaskType ==
  ASSUME NEW op \in {"relation", "logical", "record", "finished"}, NEW i \in Positions
  PROVE  NewTask(op, i) \in Task
BY Zenon DEF NewTask, Task

(***************************************************************************)
(* The initial state is well typed.                                        *)
(***************************************************************************)
LEMMA TypeInit == Init => TypeOK
<1>1. Len(Stream) \in Nat
  BY StreamAssumption, LenProperties, Zenon
<1>2. <<>> \in Seq(Task) /\ <<>> \in Seq(Positions)
  BY EmptySeq, Zenon
<1>3. 1 \in 1..(Len(Stream) + 1) /\ 0 \in 0..MaxStarts /\ CreatedAt \in Nat
  BY <1>1, ConfigAssumption
<1> SUFFICES ASSUME Init PROVE TypeOK
  BY Zenon
<1>4. /\ slot \in Nat /\ disk \in Nat /\ starts \in 0..MaxStarts /\ cursor \in 1..(Len(Stream) + 1)
      /\ restart \in Nat /\ processed \in Nat /\ offset \in Nat /\ finalLSN \in Nat
  BY <1>3, Zenon DEF Init
<1>5. tasks \in Seq(Task) /\ held \in Seq(Positions)
  BY <1>2, Zenon DEF Init
<1> QED BY <1>4, <1>5, Zenon DEF Init, TypeOK

(***************************************************************************)
(* Every step keeps the types, action by action.                           *)
(***************************************************************************)
LEMMA TypeStep == TypeOK /\ [Next]_vars => TypeOK'
  (***************************************************************************)
  (* EmitEvent keeps the types of the positions and of the history.          *)
  (***************************************************************************)
<1>EmitType. ASSUME TypeOK, NEW i \in Positions, EmitEvent(i)
             PROVE  /\ processed' \in Nat /\ offset' \in Nat
                    /\ emitted' \subseteq Positions /\ failed' \subseteq Positions
  BY <1>EmitType, MessageTypes, SMTT(60) DEF EmitEvent, AcknowledgeProcessed, Larger, TypeOK, context

  (***************************************************************************)
  (* The resolver keeps the types of what it changes.                        *)
  (***************************************************************************)
<1>ResolveType. ASSUME TypeOK, NEW i \in Positions, NEW q \in Seq(Task), Resolve(i, q)
                PROVE  /\ phase' \in {"down", "up", "fatal"}
                       /\ tasks' \in Seq(Task)
                       /\ processed' \in Nat /\ offset' \in Nat
                       /\ emitted' \subseteq Positions /\ failed' \subseteq Positions
  <2> USE <1>ResolveType
  <2>1. phase' \in {"down", "up", "fatal"}
    BY Zenon DEF Resolve, TypeOK
  <2>2. tasks' \in Seq(Task)
    BY NewTaskType DEF Resolve
  <2>3. /\ processed' \in Nat /\ offset' \in Nat
        /\ emitted' \subseteq Positions /\ failed' \subseteq Positions
    BY <1>EmitType, Zenon DEF Resolve, TypeOK, context
  <2> QED BY <2>1, <2>2, <2>3, Zenon

  (***************************************************************************)
  (* Collecting a message, or handing it to the resolver, keeps the types of *)
  (* what it changes.                                                        *)
  (***************************************************************************)
<1>PushOrResolveType. ASSUME TypeOK, NEW i \in Positions, tasks # <<>>, PushOrResolve(i)
                      PROVE  /\ phase' \in {"down", "up", "fatal"}
                             /\ tasks' \in Seq(Task)
                             /\ processed' \in Nat /\ offset' \in Nat
                             /\ emitted' \subseteq Positions /\ failed' \subseteq Positions
                             /\ active' \in BOOLEAN /\ finalLSN' \in Nat /\ spilled' \in BOOLEAN
                             /\ held' \in Seq(Positions)
                             /\ draining' \in BOOLEAN /\ closing' \in {0} \cup Positions
  <2> USE <1>PushOrResolveType
  <2>1. UNCHANGED <<active, finalLSN, closing>>
    BY Zenon DEF PushOrResolve
  <2>2. CASE Push(i)
    <3>1. spilled' \in BOOLEAN /\ draining' \in BOOLEAN
      BY <2>2, Zenon DEF Push
    <3>2. held' \in Seq(Positions) /\ tasks' \in Seq(Task)
      BY <2>2, HeadTask DEF Push, TypeOK
    <3> QED BY <2>1, <2>2, <3>1, <3>2, Zenon DEF Push, TypeOK, context
  <2>3. CASE Resolve(i, Tail(tasks)) /\ UNCHANGED <<spilled, held, draining>>
    BY <2>1, <2>3, HeadTask, <1>ResolveType, Zenon DEF TypeOK
  <2> QED BY <2>2, <2>3, Zenon DEF PushOrResolve

<1> SUFFICES ASSUME TypeOK, [Next]_vars PROVE TypeOK'
  BY Zenon
<1>1. CASE UNCHANGED vars
  BY <1>1, ZenonT(30) DEF TypeOK, vars, durable, session, context, server, tracker, flags, history
<1>2. CASE StartReplication
  <2>1. locateRestartLSN \in Nat
    BY ConfigAssumption, Zenon DEF locateRestartLSN, Larger, TypeOK
  <2>2. starts' \in 0..MaxStarts
    BY <1>2, ConfigAssumption DEF StartReplication, TypeOK
  <2>3. <<>> \in Seq(Task) /\ <<>> \in Seq(Positions)
    BY EmptySeq, Zenon
  <2> QED BY <1>2, <2>1, <2>2, <2>3, Zenon DEF StartReplication, TypeOK, durable, history
<1>3. CASE Crash
  BY <1>3, ZenonT(60) DEF Crash, TypeOK, durable, context, server, tracker, flags, history
<1>4. CASE Save
  BY <1>4, Zenon DEF Save, TypeOK, session, context, server, tracker, flags, history
<1>5. CASE SendStatusUpdate
  BY <1>5 DEF SendStatusUpdate, TypeOK, session, context, server, tracker, flags, history
<1>6. CASE ReceiveRelation
  <2>1. described' \subseteq Relations /\ received' \subseteq Relations
    BY <1>6, MessageTypes DEF ReceiveRelation, TypeOK
  <2>2. tasks' \in Seq(Task)
    <3>1. NewTask("relation", cursor) \in Task
      BY <1>6, NewTaskType, Zenon DEF ReceiveRelation
    <3>2. tasks' = tasks \/ tasks' = Append(tasks, NewTask("relation", cursor))
      BY <1>6, Zenon DEF ReceiveRelation
    <3>3. tasks \in Seq(Task)
      BY Zenon DEF TypeOK
    <3> QED BY <3>1, <3>2, <3>3
  <2> QED BY <1>6, <2>1, <2>2, Zenon
      DEF ReceiveRelation, TypeOK, durable, session, context, tracker, flags, history
<1>7. CASE ReceiveMessage
  <2>1. tasks' \in Seq(Task)
    <3>1. NewTask("logical", cursor) \in Task
      BY <1>7, NewTaskType, Zenon DEF ReceiveMessage
    <3>2. tasks' = tasks \/ tasks' = Append(tasks, NewTask("logical", cursor))
      BY <1>7, Zenon DEF ReceiveMessage
    <3>3. tasks \in Seq(Task)
      BY Zenon DEF TypeOK
    <3> QED BY <3>1, <3>2, <3>3
  <2>2. cursor' \in 1..(Len(Stream) + 1)
    BY <1>7, MessageTypes DEF ReceiveMessage, TypeOK, Positions
  <2>3. phase' \in {"down", "up", "fatal"} /\ failed' \subseteq Positions
    BY <1>7, Zenon DEF ReceiveMessage, TypeOK
  <2> QED BY <1>7, <2>1, <2>2, <2>3, Zenon DEF ReceiveMessage, TypeOK, durable, context, tracker, flags
<1>8. CASE OnRelationEvent
  <2>1. resolved' \subseteq Relations /\ tasks' \in Seq(Task)
    BY <1>8, HeadTask, MessageTypes, Zenon DEF OnRelationEvent, TypeOK
  <2> QED BY <1>8, <2>1, Zenon
      DEF OnRelationEvent, TypeOK, durable, session, context, server, tracker, flags, history
<1>9. CASE OnBeginEvent
  <2>1. tasks' \in Seq(Task) /\ Stream[Head(tasks).at].final \in Nat
    BY <1>9, HeadTask, MessageTypes, Zenon DEF OnBeginEvent, Dispatches
  <2>2. <<>> \in Seq(Positions)
    BY EmptySeq, Zenon
  <2> QED BY <1>9, <2>1, <2>2, ZenonT(60)
      DEF OnBeginEvent, TypeOK, durable, session, context, server, tracker, flags, history
<1>10. CASE OnCommitEvent
  <2> DEFINE i == Head(tasks).at
             event == <<NewTask("record", i)>>
  <2>1. i \in Positions /\ Tail(tasks) \in Seq(Task)
    BY <1>10, HeadTask, Zenon DEF OnCommitEvent, Dispatches
  <2>2. tasks' \in Seq(Task)
    <3>1. NewTask("record", i) \in Task /\ NewTask("finished", i) \in Task
      BY <2>1, NewTaskType, Zenon
    <3>2. event \in Seq(Task) /\ <<>> \in Seq(Task)
      BY <3>1
    <3>3. \A a, b \in {event, <<>>} : (Tail(tasks) \o a) \o b \in Seq(Task)
      BY <2>1, <3>2, ConcatProperties, Zenon
    <3>4. CASE tasks' = Append(Tail(tasks), NewTask("finished", i))
      BY <2>1, <3>1, <3>4
    <3>5. CASE tasks' = (Tail(tasks)
                \o (IF compression /\ GenCompression THEN event ELSE <<>>))
                \o (IF decompression /\ GenDecompression THEN event ELSE <<>>)
      BY <3>3, <3>5, Zenon
    <3>6. CASE tasks' = Tail(tasks)
      BY <2>1, <3>6, Zenon
    <3> QED BY <1>10, <3>4, <3>5, <3>6, Zenon DEF OnCommitEvent
  <2>3. draining' \in BOOLEAN /\ closing' \in {0} \cup Positions
    BY <1>10, <2>1, Zenon DEF OnCommitEvent, TypeOK
  <2>4. dropped' \subseteq Positions
    <3>1. {held[n] : n \in DOMAIN held} \subseteq Positions
      BY ElementOfSeq, LenProperties DEF TypeOK
    <3> QED BY <1>10, <3>1, Zenon DEF OnCommitEvent, TypeOK
  <2> QED BY <1>10, <2>2, <2>3, <2>4, Zenon
      DEF OnCommitEvent, TypeOK, durable, session, context, server, flags
<1>11. CASE OnInsertEvent
  <2> DEFINE i == Head(tasks).at
  <2>1. i \in Positions /\ tasks # <<>> /\ Tail(tasks) \in Seq(Task)
    BY <1>11, HeadTask, Zenon DEF OnInsertEvent, Dispatches
  <2>2. CASE PushOrResolve(i) /\ UNCHANGED <<flags, dropped>>
    BY <1>11, <2>1, <2>2, <1>PushOrResolveType, Zenon DEF OnInsertEvent, TypeOK, durable, server, flags
  <2>3. CASE /\ dropped' = dropped \cup {i} /\ tasks' = Tail(tasks)
             /\ UNCHANGED <<phase, context, tracker, emitted, failed>>
    BY <1>11, <2>1, <2>3, SMTT(30) DEF OnInsertEvent, TypeOK, durable, server, context, tracker, flags
  <2> QED BY <1>11, <2>2, <2>3, Zenon DEF OnInsertEvent
<1>12. CASE OnChangeEvent
  <2>1. Head(tasks).at \in Positions /\ tasks # <<>>
    BY <1>12, HeadTask, Zenon DEF OnChangeEvent, Dispatches
  <2> QED BY <1>12, <2>1, <1>PushOrResolveType, Zenon DEF OnChangeEvent, TypeOK, durable, server, flags
<1>13. CASE OnChunkUpdateEvent
  <2>1. Head(tasks).at \in Positions /\ tasks # <<>>
    BY <1>13, HeadTask, Zenon DEF OnChunkUpdateEvent, Dispatches
  <2>2. compression' \in BOOLEAN /\ decompression' \in BOOLEAN
    BY <1>13, Zenon DEF OnChunkUpdateEvent
  <2> QED BY <1>13, <2>1, <2>2, <1>PushOrResolveType, Zenon DEF OnChunkUpdateEvent, TypeOK, durable, server
<1>14. CASE OnMarkerEvent
  <2> DEFINE i == Head(tasks).at
  <2>1. i \in Positions /\ tasks # <<>> /\ Tail(tasks) \in Seq(Task)
    BY <1>14, HeadTask, Zenon DEF OnMarkerEvent, Dispatches
  <2>2. CASE PushOrResolve(i) /\ UNCHANGED ongoing
    BY <1>14, <2>1, <2>2, <1>PushOrResolveType, Zenon DEF OnMarkerEvent, TypeOK, durable, server
  <2>3. CASE /\ ongoing' = (Stream[i].kind = "startmark")
             /\ tasks' = Tail(tasks)
             /\ UNCHANGED <<phase, context, active, finalLSN, spilled, held, draining,
                            closing, emitted, failed>>
    BY <1>14, <2>1, <2>3, ZenonT(30) DEF OnMarkerEvent, TypeOK, durable, server, context
  <2> QED BY <1>14, <2>2, <2>3, Zenon DEF OnMarkerEvent
<1>15. CASE Drain
  <2>1. CASE held # <<>>
    <3>1. Head(held) \in Positions /\ held' \in Seq(Positions)
      BY <1>15, <2>1, HeadHeld, Zenon DEF Drain
    <3>2. Resolve(Head(held), tasks) /\ tasks \in Seq(Task)
      BY <1>15, <2>1, Zenon DEF Drain, TypeOK
    <3> QED BY <1>15, <2>1, <3>1, <3>2, <1>ResolveType, ZenonT(30) DEF Drain, TypeOK, durable, server, flags
  <2>2. CASE held = <<>>
    <3>1. tasks' \in Seq(Task)
      BY <1>15, <2>2, NewTaskType, SMTT(30) DEF Drain, TypeOK
    <3> QED BY <1>15, <2>2, <3>1, Zenon DEF Drain, TypeOK, durable, server, context, flags
  <2> QED BY <2>1, <2>2, Zenon
<1>16. CASE OnRecordEvent
  <2>1. Head(tasks).at \in Positions /\ tasks' \in Seq(Task)
    BY <1>16, HeadTask, Zenon DEF OnRecordEvent
  <2>2. /\ processed' \in Nat /\ offset' \in Nat
        /\ emitted' \subseteq Positions /\ failed' \subseteq Positions
    BY <1>16, <2>1, <1>EmitType, Zenon DEF OnRecordEvent
  <2> QED BY <1>16, <2>1, <2>2, Zenon DEF OnRecordEvent, TypeOK, durable, session, server, tracker, flags
<1>17. CASE OnTransactionFinishedEvent
  <2>1. processed' \in Nat /\ offset' \in Nat /\ tasks' \in Seq(Task)
    BY <1>17, HeadTask, MessageTypes, Zenon
    DEF OnTransactionFinishedEvent, AcknowledgeProcessed, Larger, TypeOK
  <2> QED BY <1>17, <2>1, Zenon
      DEF OnTransactionFinishedEvent, TypeOK, durable, session, server, tracker, flags, history
<1> QED BY <1>1, <1>2, <1>3, <1>4, <1>5, <1>6, <1>7, <1>8, <1>9, <1>10, <1>11, <1>12,
           <1>13, <1>14, <1>15, <1>16, <1>17, Zenon DEF Next, Receive, Dispatch

(***************************************************************************)
(* Every variable of the replication path keeps its type in every          *)
(* reachable state: in particular every queued task refers to a message of *)
(* the stream, and the receive loop never runs past its end.               *)
(***************************************************************************)
THEOREM TypeCorrect == Spec => []TypeOK
BY TypeInit, TypeStep, PTL DEF Spec

(***************************************************************************)
(* Within a session lastProcessedLSN never falls behind the position that  *)
(* was confirmed.                                                          *)
(***************************************************************************)
ProcessedAhead == phase = "up" => processed + 1 >= slot

(***************************************************************************)
(* Neither the receive loop nor the dispatcher confirms a position to the  *)
(* server by itself.                                                       *)
(***************************************************************************)
LEMMA SlotUntouched ==
  ASSUME Receive \/ Dispatch
  PROVE  slot' = slot /\ phase = "up"
BY Zenon DEF Receive, Dispatch, ReceiveRelation, ReceiveMessage, OnRelationEvent, OnBeginEvent,
       OnCommitEvent, OnInsertEvent, OnChangeEvent, OnChunkUpdateEvent, OnMarkerEvent, Drain,
       OnRecordEvent, OnTransactionFinishedEvent, Dispatches, durable

(***************************************************************************)
(* confirmed_flush_lsn never moves backwards: a session starts at or       *)
(* behind it and only advances.                                            *)
(***************************************************************************)
THEOREM ConfirmedMonotone == Spec => ConfirmedNeverBack
  (***************************************************************************)
  (* AcknowledgeProcessed never lowers lastProcessedLSN.                     *)
  (***************************************************************************)
<1>AckAdvances. ASSUME TypeOK, NEW lsn \in Nat, AcknowledgeProcessed(lsn)
                PROVE  processed' >= processed
  BY <1>AckAdvances DEF AcknowledgeProcessed, Larger, TypeOK

  (***************************************************************************)
  (* Emitting an event never lowers lastProcessedLSN.                        *)
  (***************************************************************************)
<1>EmitAdvances. ASSUME TypeOK, NEW i \in Positions, EmitEvent(i)
                 PROVE  processed' >= processed
  <2> USE <1>EmitAdvances
  <2>1. Stream[i].lsn + Stream[i].size \in Nat /\ processed \in Nat
    BY MessageTypes, SMTT(30) DEF TypeOK
  <2> QED BY <2>1, <1>AckAdvances DEF EmitEvent, context

  (***************************************************************************)
  (* The resolver never lowers lastProcessedLSN.                             *)
  (***************************************************************************)
<1>ResolveAdvances. ASSUME TypeOK, NEW i \in Positions, NEW q, Resolve(i, q)
                    PROVE  processed' >= processed
  <2> USE <1>ResolveAdvances
  <2>1. processed \in Nat
    BY Zenon DEF TypeOK
  <2>2. CASE EmitEvent(i)
    BY <2>2, <1>EmitAdvances, Zenon
  <2>3. CASE UNCHANGED <<context, emitted, failed>>
    BY <2>1, <2>3 DEF context
  <2> QED BY <2>2, <2>3, Zenon DEF Resolve

  (***************************************************************************)
  (* The tracker never lowers lastProcessedLSN.                              *)
  (***************************************************************************)
<1>PushOrResolveAdvances. ASSUME TypeOK, tasks # <<>>, PushOrResolve(Head(tasks).at)
                          PROVE  processed' >= processed
  <2> USE <1>PushOrResolveAdvances
  <2>1. processed \in Nat /\ Head(tasks).at \in Positions
    BY HeadTask, Zenon DEF TypeOK
  <2>2. CASE Push(Head(tasks).at)
    BY <2>1, <2>2 DEF Push, context
  <2>3. CASE Resolve(Head(tasks).at, Tail(tasks))
    BY <2>1, <2>3, <1>ResolveAdvances, Zenon
  <2> QED BY <2>2, <2>3, Zenon DEF PushOrResolve

  (***************************************************************************)
  (* Neither the receive loop nor the dispatcher lowers lastProcessedLSN.    *)
  (***************************************************************************)
<1>DispatchAdvances. ASSUME TypeOK, Receive \/ Dispatch
                     PROVE  processed' >= processed
  <2> USE <1>DispatchAdvances
  <2>2. processed \in Nat
    BY Zenon DEF TypeOK
  <2>3. CASE Receive \/ OnRelationEvent \/ OnBeginEvent \/ OnCommitEvent
    <3>1. processed' = processed
      BY <2>3, ZenonT(60) DEF Receive, ReceiveRelation, ReceiveMessage, OnRelationEvent, OnBeginEvent,
                  OnCommitEvent, context
    <3> QED BY <2>2, <3>1, SMTT(60)
  <2>4. CASE OnInsertEvent
    <3>1. tasks # <<>> /\ (processed' = processed \/ PushOrResolve(Head(tasks).at))
      BY <2>4, Zenon DEF OnInsertEvent, Dispatches, context
    <3>2. CASE processed' = processed
      BY <2>2, <3>2
    <3>3. CASE PushOrResolve(Head(tasks).at)
      BY <3>1, <3>3, <1>PushOrResolveAdvances, Zenon
    <3> QED BY <3>1, <3>2, <3>3, Zenon
  <2>5. CASE OnChangeEvent \/ OnChunkUpdateEvent
    <3>1. tasks # <<>> /\ PushOrResolve(Head(tasks).at)
      BY <2>5, Zenon DEF OnChangeEvent, OnChunkUpdateEvent, Dispatches
    <3> QED BY <3>1, <1>PushOrResolveAdvances, Zenon
  <2>6. CASE OnMarkerEvent
    <3>1. tasks # <<>> /\ (processed' = processed \/ PushOrResolve(Head(tasks).at))
      BY <2>6, Zenon DEF OnMarkerEvent, Dispatches, context
    <3>2. CASE processed' = processed
      BY <2>2, <3>2
    <3>3. CASE PushOrResolve(Head(tasks).at)
      BY <3>1, <3>3, <1>PushOrResolveAdvances, Zenon
    <3> QED BY <3>1, <3>2, <3>3, Zenon
  <2>7. CASE Drain
    <3>1. CASE held # <<>>
      <4>1. Resolve(Head(held), tasks) /\ Head(held) \in Positions
        BY <2>7, <3>1, HeadHeld, Zenon DEF Drain
      <4> QED BY <4>1, <1>ResolveAdvances, Zenon
    <3>2. CASE held = <<>>
      BY <2>2, <2>7, <3>2 DEF Drain, context
    <3> QED BY <3>1, <3>2, Zenon
  <2>8. CASE OnRecordEvent
    BY <2>8, HeadTask, <1>EmitAdvances, Zenon DEF OnRecordEvent
  <2>9. CASE OnTransactionFinishedEvent
    <3>1. Stream[Head(tasks).at].lsn \in Nat
      BY <2>9, HeadTask, MessageTypes, Zenon DEF OnTransactionFinishedEvent
    <3> QED BY <2>9, <3>1, <1>AckAdvances, Zenon DEF OnTransactionFinishedEvent
  <2> QED BY <2>3, <2>4, <2>5, <2>6, <2>7, <2>8, <2>9, Zenon DEF Dispatch

<1>1. Init => TypeOK /\ ProcessedAhead
  BY TypeInit, Zenon DEF Init, ProcessedAhead
<1>2. ASSUME TypeOK, ProcessedAhead, [Next]_vars
      PROVE  TypeOK' /\ ProcessedAhead' /\ slot' >= slot
  <2>1. TypeOK'
    BY <1>2, TypeStep, Zenon
  <2>2. /\ slot \in Nat /\ disk \in Nat /\ processed \in Nat
        /\ slot' \in Nat /\ processed' \in Nat
    BY <1>2, <2>1, Zenon DEF TypeOK
  <2>3. CASE UNCHANGED vars
    BY <1>2, <2>1, <2>2, <2>3 DEF ProcessedAhead, vars, durable, session, context
  <2>4. CASE StartReplication
    <3>1. slot' = slot /\ processed' = locateRestartLSN
      BY <2>4, Zenon DEF StartReplication, durable
    <3>2. locateRestartLSN >= slot
      BY <2>2, ConfigAssumption DEF locateRestartLSN, Larger
    <3> QED BY <2>1, <2>2, <3>1, <3>2 DEF ProcessedAhead
  <2>5. CASE Crash \/ Save
    <3>1. slot' = slot /\ processed' = processed /\ phase = "up"
      BY <2>5, Zenon DEF Crash, Save, durable, context
    <3> QED BY <1>2, <2>1, <2>2, <3>1 DEF ProcessedAhead
  <2>6. CASE SendStatusUpdate
    <3>1. slot' = processed + 1 /\ processed' = processed /\ phase = "up"
      BY <2>6, Zenon DEF SendStatusUpdate, context
    <3> QED BY <1>2, <2>1, <2>2, <3>1 DEF ProcessedAhead
  <2>7. CASE Receive \/ Dispatch
    <3>1. processed' >= processed /\ slot' = slot /\ phase = "up"
      BY <1>2, <2>7, <1>DispatchAdvances, SlotUntouched, Zenon
    <3>2. processed + 1 >= slot
      BY <1>2, <3>1, Zenon DEF ProcessedAhead
    <3>3. \A a, b, c \in Nat : a + 1 >= b /\ c >= a => c + 1 >= b /\ b >= b
      OBVIOUS
    <3>4. processed' + 1 >= slot' /\ slot' >= slot
      BY <2>2, <3>1, <3>2, <3>3, Zenon
    <3> QED BY <2>1, <3>4, Zenon DEF ProcessedAhead
  <2> QED BY <1>2, <2>1, <2>3, <2>4, <2>5, <2>6, <2>7, Zenon DEF Next
<1> QED BY <1>1, <1>2, PTL DEF Spec, ConfirmedNeverBack

-------------------------------------------------------------------------------
\* Queues

(***************************************************************************)
(* The elements of a task queue are tasks at positions of the stream.      *)
(***************************************************************************)
LEMMA QueueElements ==
  ASSUME NEW q \in Seq(Task)
  PROVE  /\ Len(q) \in Nat
         /\ DOMAIN q = 1..Len(q)
         /\ \A n \in DOMAIN q : q[n] \in Task /\ q[n].at \in Positions /\ q[n].at \in Nat
<1>1. Len(q) \in Nat /\ DOMAIN q = 1..Len(q) /\ \A n \in DOMAIN q : q[n] \in Task
  BY LenProperties, ElementOfSeq, Zenon
<1>2. \A t \in Task : t.at \in Positions
  BY Zenon DEF Task
<1>3. \A i \in Positions : i \in Nat
  BY MessageTypes, Zenon
<1> QED BY <1>1, <1>2, <1>3, Zenon

(***************************************************************************)
(* The elements of a transaction window are positions of the stream.       *)
(***************************************************************************)
LEMMA WindowElements ==
  ASSUME NEW h \in Seq(Positions)
  PROVE  /\ Len(h) \in Nat
         /\ DOMAIN h = 1..Len(h)
         /\ \A n \in DOMAIN h : h[n] \in Positions /\ h[n] \in Nat
<1>1. Len(h) \in Nat /\ DOMAIN h = 1..Len(h) /\ \A n \in DOMAIN h : h[n] \in Positions
  BY LenProperties, ElementOfSeq, Zenon
<1>2. \A i \in Positions : i \in Nat
  BY MessageTypes, Zenon
<1> QED BY <1>1, <1>2, Zenon

(***************************************************************************)
(* How the elements of a queue and of its tail correspond.                 *)
(***************************************************************************)
LEMMA TailElements ==
  ASSUME NEW S, NEW q \in Seq(S), q # <<>>
  PROVE  /\ Tail(q) \in Seq(S)
         /\ 1 \in DOMAIN q /\ q[1] = Head(q)
         /\ \A n \in DOMAIN Tail(q) : n + 1 \in DOMAIN q /\ Tail(q)[n] = q[n + 1] /\ n + 1 > 1
         /\ \A n \in DOMAIN q : n # 1 => n - 1 \in DOMAIN Tail(q) /\ Tail(q)[n - 1] = q[n]
<1>1. Len(q) \in Nat /\ Len(q) # 0 /\ DOMAIN q = 1..Len(q)
  BY LenProperties, EmptySeq, Zenon
<1>2. /\ Tail(q) \in Seq(S) /\ Len(Tail(q)) = Len(q) - 1
      /\ \A i \in 1 .. Len(Tail(q)) : Tail(q)[i] = q[i+1]
  BY HeadTailProperties, Zenon
<1>3. DOMAIN Tail(q) = 1..(Len(q) - 1)
  BY <1>2, LenProperties, Zenon
<1>4. q[1] = Head(q)
  BY <1>1
<1> QED BY <1>1, <1>2, <1>3, <1>4

(***************************************************************************)
(* How the elements of a queue and of the queue with one more element      *)
(* correspond.                                                             *)
(***************************************************************************)
LEMMA AppendElements ==
  ASSUME NEW S, NEW q \in Seq(S), NEW t \in S
  PROVE  /\ Append(q, t) \in Seq(S)
         /\ Len(q) \in Nat /\ DOMAIN q = 1..Len(q)
         /\ DOMAIN Append(q, t) = 1..(Len(q) + 1)
         /\ \A n \in DOMAIN q : n \in DOMAIN Append(q, t) /\ Append(q, t)[n] = q[n]
         /\ Append(q, t)[Len(q) + 1] = t
         /\ \A n \in DOMAIN Append(q, t) : n # Len(q) + 1 => n \in DOMAIN q /\ n < Len(q) + 1
<1>1. Len(q) \in Nat /\ DOMAIN q = 1..Len(q)
  BY LenProperties, Zenon
<1>2. Append(q, t) \in Seq(S) /\ Len(Append(q, t)) = Len(q) + 1
  BY AppendProperties, Zenon
<1>3. DOMAIN Append(q, t) = 1..(Len(q) + 1)
  BY <1>2, LenProperties, Zenon
<1> QED BY <1>1, <1>2, <1>3, AppendProperties

-------------------------------------------------------------------------------
\* Where a session resumes, and the relations it knows

(***************************************************************************)
(* Taking the first task: the rest lies behind the restart position, and   *)
(* so does the message or event that was taken.                            *)
(***************************************************************************)
LEMMA ResumedTail ==
  ASSUME NEW q \in Seq(Task), q # <<>>, NEW h, NEW c, NEW from, Resumed(q, h, c, from)
  PROVE  /\ Resumed(Tail(q), h, c, from)
         /\ Head(q).op # "relation" => Lsn(Head(q).at) >= from
BY TailElements, SMTT(30) DEF Resumed

(***************************************************************************)
(* Enqueueing a relation, or a message or event behind the restart         *)
(* position.                                                               *)
(***************************************************************************)
LEMMA ResumedAppend ==
  ASSUME NEW q \in Seq(Task), NEW t \in Task, NEW h, NEW c, NEW from, Resumed(q, h, c, from),
         t.op = "relation" \/ Lsn(t.at) >= from
  PROVE  Resumed(Append(q, t), h, c, from)
BY AppendElements DEF Resumed

(***************************************************************************)
(* Collecting a message behind the restart position.                       *)
(***************************************************************************)
LEMMA ResumedPush ==
  ASSUME NEW q, NEW h \in Seq(Positions), NEW i \in Positions, NEW c, NEW from,
         Resumed(q, h, c, from), Lsn(i) >= from
  PROVE  Resumed(q, Append(h, i), c, from)
BY AppendElements, SMTT(30) DEF Resumed

(***************************************************************************)
(* Taking the first collected message.                                     *)
(***************************************************************************)
LEMMA ResumedHeldTail ==
  ASSUME NEW q, NEW h \in Seq(Positions), h # <<>>, NEW c, NEW from, Resumed(q, h, c, from)
  PROVE  Resumed(q, Tail(h), c, from) /\ Lsn(Head(h)) >= from
BY TailElements, ZenonT(30) DEF Resumed

(***************************************************************************)
(* When the first task is taken, what was known at a later task stays      *)
(* known there, provided a relation taken from the queue becomes known.    *)
(***************************************************************************)
LEMMA KnownTail ==
  ASSUME NEW q \in Seq(Task), q # <<>>, NEW known, NEW more, known \subseteq more,
         Head(q).op = "relation" => Stream[Head(q).at].relation \in more,
         NEW r, NEW n \in Nat, KnownAt(r, n + 1, q, known)
  PROVE  KnownAt(r, n, Tail(q), more)
<1>1. CASE r \in known
  BY <1>1, Zenon DEF KnownAt
<1>2. CASE r \notin known
  <2>1. PICK m \in DOMAIN q : m < n + 1 /\ q[m].op = "relation" /\ Stream[q[m].at].relation = r
    BY <1>2, Zenon DEF KnownAt
  <2>2. CASE m = 1
    BY <2>1, <2>2, TailElements, SMTT(30) DEF KnownAt
  <2>3. CASE m # 1
    <3>1. m - 1 \in DOMAIN Tail(q) /\ Tail(q)[m - 1] = q[m] /\ m \in Nat
      BY <2>3, TailElements, QueueElements
    <3>2. m - 1 < n
      BY <2>1, <3>1
    <3> QED BY <2>1, <3>1, <3>2, Zenon DEF KnownAt
  <2> QED BY <2>2, <2>3, Zenon
<1> QED BY <1>1, <1>2, Zenon

(***************************************************************************)
(* What is known at a task stays known when the queue grows at its end.    *)
(***************************************************************************)
LEMMA KnownAppend ==
  ASSUME NEW q \in Seq(Task), NEW t \in Task, NEW known, NEW r, NEW n \in Nat,
         KnownAt(r, n, q, known)
  PROVE  KnownAt(r, n, Append(q, t), known) /\ KnownAt(r, n + 1, Append(q, t), known)
<1>1. \A m \in DOMAIN q : m \in DOMAIN Append(q, t) /\ Append(q, t)[m] = q[m] /\ m \in Nat
  BY AppendElements
<1>2. \A m \in Nat : m < n => m < n + 1
  OBVIOUS
<1> QED BY <1>1, <1>2, Zenon DEF KnownAt

(***************************************************************************)
(* Taking the first task keeps every relation described ahead of its rows; *)
(* the relation of a row at the head of the queue is known.                *)
(***************************************************************************)
LEMMA AheadTail ==
  ASSUME NEW q \in Seq(Task), q # <<>>, NEW h, NEW taken, NEW known, NEW more,
         known \subseteq more, DescribedAhead(q, h, taken, known),
         Head(q).op = "relation" => Stream[Head(q).at].relation \in more
  PROVE  /\ DescribedAhead(Tail(q), h, taken, more)
         /\ Head(q).op = "logical" /\ HasRelation(Head(q).at) =>
              Stream[Head(q).at].relation \in known
<1>1. Len(Tail(q)) \in Nat /\ Len(Tail(q)) + 1 \in Nat /\ (Len(Tail(q)) + 1) + 1 = Len(q) + 1
  BY HeadTailProperties, LenProperties, EmptySeq
<1>2. \A r \in taken : KnownAt(r, Len(Tail(q)) + 1, Tail(q), more)
  <2> TAKE r \in taken
  <2>1. KnownAt(r, (Len(Tail(q)) + 1) + 1, q, known)
    BY <1>1, Zenon DEF DescribedAhead
  <2> HIDE DEF KnownAt
  <2> QED BY <1>1, <2>1, KnownTail, Zenon
<1>3. ASSUME NEW n \in Messages(Tail(q)), HasRelation(Tail(q)[n].at)
      PROVE  KnownAt(Stream[Tail(q)[n].at].relation, n, Tail(q), more)
  <2>1. n \in Nat /\ n + 1 \in Messages(q) /\ Tail(q)[n] = q[n + 1]
    <3>1. Tail(q) \in Seq(Task)
      BY TailElements, Zenon
    <3> QED BY <3>1, TailElements, QueueElements DEF Messages
  <2>2. KnownAt(Stream[q[n + 1].at].relation, n + 1, q, known)
    BY <1>3, <2>1, ZenonT(60) DEF DescribedAhead
  <2> QED BY <2>1, <2>2, KnownTail, Zenon
<1>4. \A n \in DOMAIN h : HasRelation(h[n]) => Stream[h[n]].relation \in more
  BY Zenon DEF DescribedAhead
<1>5. Head(q).op = "logical" /\ HasRelation(Head(q).at) => Stream[Head(q).at].relation \in known
  <2> SUFFICES ASSUME Head(q).op = "logical", HasRelation(Head(q).at)
               PROVE  Stream[Head(q).at].relation \in known
    BY Zenon
  <2>1. 1 \in Messages(q) /\ q[1] = Head(q)
    BY TailElements, Zenon DEF Messages
  <2>2. KnownAt(Stream[Head(q).at].relation, 1, q, known)
    BY <2>1, Zenon DEF DescribedAhead
  <2>3. \A m \in DOMAIN q : ~(m < 1)
    BY QueueElements, SMTT(30)
  <2> QED BY <2>2, <2>3, Zenon DEF KnownAt
<1> QED BY <1>2, <1>3, <1>4, <1>5, Zenon DEF DescribedAhead

(***************************************************************************)
(* Enqueueing an event, the description of a relation, or a row whose      *)
(* relation the receive loop has taken in.                                 *)
(***************************************************************************)
LEMMA AheadAppend ==
  ASSUME NEW q \in Seq(Task), NEW t \in Task, NEW h, NEW taken, NEW also, NEW known,
         DescribedAhead(q, h, taken, known),
         also = taken \/ (t.op = "relation" /\ also = taken \cup {Stream[t.at].relation}),
         t.op = "logical" /\ HasRelation(t.at) => Stream[t.at].relation \in taken
  PROVE  DescribedAhead(Append(q, t), h, also, known)
<1> DEFINE s == Append(q, t)
<1>1. /\ Len(q) \in Nat /\ Len(q) + 1 \in Nat /\ s[Len(q) + 1] = t /\ Len(s) = Len(q) + 1
      /\ Len(q) + 1 \in DOMAIN s /\ Len(q) + 1 < Len(s) + 1
      /\ \A n \in DOMAIN s : n # Len(q) + 1 => n \in DOMAIN q /\ s[n] = q[n] /\ n \in Nat
  BY AppendElements, AppendProperties
<1>2. \A r \in also : KnownAt(r, Len(s) + 1, s, known)
  <2> SUFFICES ASSUME NEW r \in also PROVE KnownAt(r, Len(s) + 1, s, known)
    BY Zenon
  <2>1. CASE r \in taken
    <3>1. KnownAt(r, Len(q) + 1, q, known)
      BY <2>1, Zenon DEF DescribedAhead
    <3> QED BY <1>1, <3>1, KnownAppend, Zenon
  <2>2. CASE r \notin taken
    <3>1. t.op = "relation" /\ Stream[t.at].relation = r
      BY <2>2, Zenon
    <3> HIDE DEF s
    <3> QED BY <1>1, <3>1, Zenon DEF KnownAt
  <2> QED BY <2>1, <2>2, Zenon
<1>3. ASSUME NEW n \in Messages(s), HasRelation(s[n].at)
      PROVE  KnownAt(Stream[s[n].at].relation, n, s, known)
  <2>1. CASE n = Len(q) + 1
    <3>1. KnownAt(Stream[t.at].relation, Len(q) + 1, q, known)
      BY <1>1, <1>3, <2>1, Zenon DEF DescribedAhead, Messages
    <3> QED BY <1>1, <2>1, <3>1, KnownAppend, Zenon
  <2>2. CASE n # Len(q) + 1
    <3>1. n \in Messages(q) /\ s[n] = q[n] /\ n \in Nat
      BY <1>1, <2>2, Zenon DEF Messages
    <3>2. KnownAt(Stream[q[n].at].relation, n, q, known)
      BY <1>3, <3>1, Zenon DEF DescribedAhead
    <3> QED BY <3>1, <3>2, KnownAppend, Zenon
  <2> QED BY <2>1, <2>2, ZenonT(60)
<1>4. \A n \in DOMAIN h : HasRelation(h[n]) => Stream[h[n]].relation \in known
  BY Zenon  DEF DescribedAhead
<1> QED BY <1>2, <1>3, <1>4, ZenonT(60) DEF DescribedAhead

(***************************************************************************)
(* Collecting a row of a known relation, and taking a collected message.   *)
(***************************************************************************)
LEMMA AheadHeld ==
  ASSUME NEW q, NEW h \in Seq(Positions), NEW taken, NEW known, DescribedAhead(q, h, taken, known)
  PROVE  /\ \A i \in Positions : (HasRelation(i) => Stream[i].relation \in known)
                                  => DescribedAhead(q, Append(h, i), taken, known)
         /\ h # <<>> => /\ DescribedAhead(q, Tail(h), taken, known)
                        /\ HasRelation(Head(h)) => Stream[Head(h)].relation \in known
         /\ DescribedAhead(q, <<>>, taken, known)
<1>1. /\ \A r \in taken : KnownAt(r, Len(q) + 1, q, known)
      /\ \A n \in Messages(q) : HasRelation(q[n].at) => KnownAt(Stream[q[n].at].relation, n, q, known)
      /\ \A n \in DOMAIN h : HasRelation(h[n]) => Stream[h[n]].relation \in known
  BY Zenon  DEF DescribedAhead
<1>2. ASSUME NEW i \in Positions, HasRelation(i) => Stream[i].relation \in known
      PROVE  \A n \in DOMAIN Append(h, i) :
               HasRelation(Append(h, i)[n]) => Stream[Append(h, i)[n]].relation \in known
  BY <1>1, <1>2, AppendElements, SMTT(30)
<1>3. ASSUME h # <<>>
      PROVE  /\ \A n \in DOMAIN Tail(h) : HasRelation(Tail(h)[n]) => Stream[Tail(h)[n]].relation \in known
             /\ HasRelation(Head(h)) => Stream[Head(h)].relation \in known
  BY <1>1, <1>3, TailElements
<1>4. DOMAIN <<>> = {}
  BY EmptySeq, LenProperties
<1> QED BY <1>1, <1>2, <1>3, <1>4, ZenonT(60) DEF DescribedAhead

(***************************************************************************)
(* What is known of the queues q and h and the pending commit c within a   *)
(* session.                                                                *)
(***************************************************************************)
Fitting(q, h, c) == Resumed(q, h, c, restart) /\ DescribedAhead(q, h, received, resolved)

SessionInv == ResumedInv /\ KnownInv

(***************************************************************************)
(* A step within a session has only to keep the queues fitting.            *)
(***************************************************************************)
LEMMA FittingKeeps ==
  ASSUME SessionInv, phase = "up", phase' = "up",
         UNCHANGED <<restart, described, received, resolved>>,
         Fitting(tasks', held', closing')
  PROVE  SessionInv'
<1>1. described \subseteq received
  BY Zenon DEF SessionInv, KnownInv
<1> QED BY <1>1, Zenon DEF SessionInv, ResumedInv, KnownInv, Fitting

(***************************************************************************)
(* In a running session the queues fit.                                    *)
(***************************************************************************)
LEMMA FittingHolds ==
  ASSUME SessionInv, phase = "up"
  PROVE  Fitting(tasks, held, closing)
BY Zenon  DEF SessionInv, ResumedInv, KnownInv, Fitting

(***************************************************************************)
(* Taking a message or an event off the task queue.                        *)
(***************************************************************************)
LEMMA FittingPop ==
  ASSUME NEW q \in Seq(Task), q # <<>>, Head(q).op # "relation", NEW h, NEW c, Fitting(q, h, c)
  PROVE  /\ Fitting(Tail(q), h, c)
         /\ Lsn(Head(q).at) >= restart
         /\ Head(q).op = "logical" /\ HasRelation(Head(q).at) => Stream[Head(q).at].relation \in resolved
<1>1. Resumed(Tail(q), h, c, restart) /\ Lsn(Head(q).at) >= restart
  BY ResumedTail, Zenon DEF Fitting
<1>2. /\ DescribedAhead(Tail(q), h, received, resolved)
      /\ Head(q).op = "logical" /\ HasRelation(Head(q).at) => Stream[Head(q).at].relation \in resolved
  BY AheadTail, Zenon DEF Fitting
<1> QED BY <1>1, <1>2, Zenon DEF Fitting

(***************************************************************************)
(* Appending the event of a message.                                       *)
(***************************************************************************)
LEMMA FittingEvent ==
  ASSUME NEW q \in Seq(Task), NEW h, NEW c, Fitting(q, h, c),
         NEW op \in {"record", "finished"}, NEW i \in Positions, Lsn(i) >= restart
  PROVE  Fitting(Append(q, NewTask(op, i)), h, c)
<1> DEFINE t == NewTask(op, i)
<1>1. t \in Task /\ t.op = op /\ t.at = i /\ t.op # "logical"
  BY NewTaskType, Zenon DEF NewTask
<1>2. Resumed(Append(q, t), h, c, restart)
  BY <1>1, ResumedAppend, Zenon DEF Fitting
<1>3. DescribedAhead(Append(q, t), h, received, resolved)
  BY <1>1, AheadAppend, Zenon DEF Fitting
<1> QED BY <1>2, <1>3, Zenon DEF Fitting

(***************************************************************************)
(* The resolver, given a row of a known relation, enqueues at most one     *)
(* event for it and does not end the process.                              *)
(***************************************************************************)
LEMMA ResolveKnown ==
  ASSUME NEW i \in Positions, NEW q, Resolve(i, q), HasRelation(i) => Stream[i].relation \in resolved
  PROVE  phase' = phase /\ (tasks' = q \/ tasks' = Append(q, NewTask("record", i)))
BY ZenonT(60) DEF Resolve

(***************************************************************************)
(* Collecting a message or handing it to the resolver.                     *)
(***************************************************************************)
LEMMA PushOrResolveFits ==
  ASSUME TypeOK, SessionInv, Dispatches(Kinds), PushOrResolve(Head(tasks).at),
         UNCHANGED <<restart, described, received, resolved>>
  PROVE  SessionInv'
<1> DEFINE i == Head(tasks).at
           q == Tail(tasks)
<1>1. phase = "up" /\ tasks # <<>> /\ Head(tasks).op = "logical"
  BY Zenon DEF Dispatches
<1>2. tasks \in Seq(Task) /\ q \in Seq(Task) /\ i \in Positions /\ held \in Seq(Positions)
  BY <1>1, HeadTask, Zenon DEF TypeOK
<1>3. /\ Fitting(q, held, closing) /\ Lsn(i) >= restart
      /\ HasRelation(i) => Stream[i].relation \in resolved
  BY <1>1, <1>2, FittingHolds, FittingPop, Zenon
<1>4. closing' = closing
  BY Zenon DEF PushOrResolve
<1>5. CASE Push(i)
  <2>1. phase' = phase /\ tasks' = q /\ held' = Append(held, i)
    BY <1>5, Zenon DEF Push
  <2>2. Fitting(q, Append(held, i), closing)
    BY <1>2, <1>3, ResumedPush, AheadHeld, Zenon DEF Fitting
  <2> QED BY <1>1, <1>4, <2>1, <2>2, FittingKeeps, ZenonT(30)
<1>6. CASE Resolve(i, q) /\ UNCHANGED held
  <2>1. phase' = phase /\ (tasks' = q \/ tasks' = Append(q, NewTask("record", i)))
    BY <1>2, <1>3, <1>6, ResolveKnown, Zenon
  <2>2. Fitting(tasks', held, closing)
    BY <1>2, <1>3, <2>1, FittingEvent, Zenon
  <2> QED BY <1>1, <1>4, <1>6, <2>1, <2>2, FittingKeeps, Zenon
<1> QED BY <1>5, <1>6, Zenon DEF PushOrResolve

(***************************************************************************)
(* Every step of the dispatcher keeps the session's invariant.             *)
(***************************************************************************)
LEMMA DispatchFits ==
  ASSUME TypeOK, SessionInv, Dispatch
  PROVE  SessionInv'
<1>1. phase = "up" /\ Fitting(tasks, held, closing) /\ tasks \in Seq(Task) /\ held \in Seq(Positions)
  BY SlotUntouched, FittingHolds, Zenon DEF TypeOK
<1>2. ASSUME NEW S \in SUBSET Kinds, Dispatches(S) PROVE Dispatches(Kinds)
  BY <1>2, Zenon DEF Dispatches
<1>3. CASE OnRelationEvent
  <2>1. /\ tasks # <<>> /\ Head(tasks).op = "relation" /\ tasks' = Tail(tasks)
        /\ resolved' = resolved \cup {Stream[Head(tasks).at].relation}
        /\ UNCHANGED <<phase, restart, described, received, held, closing>>
    BY <1>3, Zenon DEF OnRelationEvent, session, server, tracker
  <2>2. Resumed(Tail(tasks), held, closing, restart)
    BY <1>1, <2>1, ResumedTail, Zenon DEF Fitting
  <2>3. DescribedAhead(Tail(tasks), held, received, resolved')
    BY <1>1, <2>1, AheadTail, Zenon DEF Fitting
  <2> QED BY <1>1, <2>1, <2>2, <2>3, ZenonT(30) DEF SessionInv, ResumedInv, KnownInv
<1>4. CASE OnBeginEvent
  <2>1. /\ tasks # <<>> /\ Head(tasks).op = "logical" /\ tasks' = Tail(tasks)
        /\ UNCHANGED <<phase, restart, described, received, resolved, closing>>
        /\ held' = held \/ held' = <<>>
    BY <1>4, Zenon DEF OnBeginEvent, Dispatches, session, server, tracker
  <2>2. Fitting(Tail(tasks), held, closing)
    BY <1>1, <2>1, FittingPop, Zenon
  <2>3. Fitting(Tail(tasks), <<>>, closing)
    <3>1. DOMAIN <<>> = {}
      BY EmptySeq, LenProperties
    <3> QED BY <1>1, <2>2, <3>1, AheadHeld, ZenonT(60) DEF Fitting, Resumed
  <2> QED BY <1>1, <2>1, <2>2, <2>3, FittingKeeps, ZenonT(30)
<1>5. CASE OnCommitEvent
  <2> DEFINE i == Head(tasks).at
             q == Tail(tasks)
             event == <<NewTask("record", i)>>
  <2>1. /\ tasks # <<>> /\ Head(tasks).op = "logical"
        /\ UNCHANGED <<phase, restart, described, received, resolved, held>>
    BY <1>5, Zenon DEF OnCommitEvent, Dispatches, session, server
  <2>2. /\ Fitting(q, held, closing) /\ q \in Seq(Task) /\ i \in Positions /\ Lsn(i) >= restart
    BY <1>1, <2>1, FittingPop, HeadTask, Zenon
  <2>3. CASE tasks' = Append(q, NewTask("finished", i)) /\ UNCHANGED closing
    BY <1>1, <2>1, <2>2, <2>3, FittingEvent, FittingKeeps, ZenonT(60)
  <2>4. CASE /\ tasks' = q \o (IF compression /\ GenCompression THEN event ELSE <<>>)
                           \o (IF decompression /\ GenDecompression THEN event ELSE <<>>)
             /\ UNCHANGED closing
    <3> DEFINE Good(r) == r \in Seq(Task) /\ Fitting(r, held, closing)
    <3>1. ASSUME NEW r, Good(r) PROVE Good(r \o event) /\ Good(r \o <<>>)
      <4>1. NewTask("record", i) \in Task
        BY <2>2, NewTaskType, Zenon
      <4>2. r \o event = Append(r, NewTask("record", i)) /\ r \o <<>> = r
        BY <3>1, <4>1, AppendIsConcat, ConcatEmptySeq, Zenon
      <4>3. Good(Append(r, NewTask("record", i)))
        BY <2>2, <3>1, <4>1, FittingEvent, AppendElements, ZenonT(30)
      <4> QED BY <3>1, <4>2, <4>3, ZenonT(60)
    <3>2. Good(q)
      BY <2>2, Zenon
    <3>3. Good(tasks')
      <4> HIDE DEF Good, event
      <4>1. Good(q \o event) /\ Good(q \o <<>>)
        BY <3>1, <3>2, Zenon
      <4>2. /\ Good((q \o event) \o event) /\ Good((q \o event) \o <<>>)
            /\ Good((q \o <<>>) \o event) /\ Good((q \o <<>>) \o <<>>)
        BY <3>1, <4>1, Zenon
      <4> QED BY <2>4, <4>2, Zenon
    <3> QED BY <1>1, <2>1, <2>4, <3>3, FittingKeeps, ZenonT(30)
  <2>5. CASE tasks' = q /\ closing' = i
    <3>1. Fitting(q, held, i)
      BY <2>2, Zenon DEF Fitting, Resumed
    <3> QED BY <1>1, <2>1, <2>5, <3>1, FittingKeeps, ZenonT(30)
  <2> QED BY <1>5, <2>3, <2>4, <2>5, Zenon DEF OnCommitEvent
<1>6. CASE OnInsertEvent
  <2>1. /\ Dispatches({"insert"}) /\ UNCHANGED <<restart, described, received, resolved>>
        /\ \/ PushOrResolve(Head(tasks).at)
           \/ tasks' = Tail(tasks) /\ UNCHANGED <<phase, held, closing>>
    BY <1>6, Zenon DEF OnInsertEvent, server, tracker
  <2>2. Dispatches(Kinds)
    BY <1>2, <2>1, Zenon DEF Kinds, RowKinds
  <2>3. CASE tasks' = Tail(tasks) /\ UNCHANGED <<phase, held, closing>>
    <3>1. Fitting(Tail(tasks), held, closing)
      BY <1>1, <2>2, FittingPop, Zenon DEF Dispatches
    <3> QED BY <1>1, <2>1, <2>3, <3>1, FittingKeeps, ZenonT(30)
  <2> QED BY <2>1, <2>2, <2>3, PushOrResolveFits, ZenonT(30)
<1>7. CASE OnChangeEvent \/ OnChunkUpdateEvent
  <2>1. /\ Dispatches({"change", "drop"}) \/ Dispatches({"compress", "decompress"})
        /\ UNCHANGED <<restart, described, received, resolved>> /\ PushOrResolve(Head(tasks).at)
    BY <1>7, Zenon DEF OnChangeEvent, OnChunkUpdateEvent, server
  <2>2. Dispatches(Kinds)
    BY <1>2, <2>1, Zenon DEF Kinds, RowKinds, ChunkKinds
  <2> QED BY <2>1, <2>2, PushOrResolveFits, Zenon
<1>8. CASE OnMarkerEvent
  <2>1. /\ Dispatches(MarkKinds) /\ UNCHANGED <<restart, described, received, resolved>>
        /\ \/ PushOrResolve(Head(tasks).at)
           \/ tasks' = Tail(tasks) /\ UNCHANGED <<phase, held, closing>>
    BY <1>8, Zenon DEF OnMarkerEvent, server
  <2>2. Dispatches(Kinds)
    BY <1>2, <2>1, Zenon DEF Kinds
  <2>3. CASE tasks' = Tail(tasks) /\ UNCHANGED <<phase, held, closing>>
    <3>1. Fitting(Tail(tasks), held, closing)
      BY <1>1, <2>2, FittingPop, Zenon DEF Dispatches
    <3> QED BY <1>1, <2>1, <2>3, <3>1, FittingKeeps, ZenonT(30)
  <2> QED BY <2>1, <2>2, <2>3, PushOrResolveFits, Zenon
<1>9. CASE Drain
  <2>1. UNCHANGED <<restart, described, received, resolved>>
    BY <1>9, Zenon DEF Drain, server
  <2>2. CASE held # <<>>
    <3> DEFINE i == Head(held)
    <3>1. /\ Resolve(i, tasks) /\ held' = Tail(held) /\ closing' = closing /\ i \in Positions
      BY <1>9, <2>2, HeadHeld, ZenonT(30) DEF Drain
    <3>2. /\ Fitting(tasks, Tail(held), closing) /\ Lsn(i) >= restart
          /\ HasRelation(i) => Stream[i].relation \in resolved
      BY <1>1, <2>2, ResumedHeldTail, AheadHeld, Zenon DEF Fitting
    <3>3. phase' = phase /\ (tasks' = tasks \/ tasks' = Append(tasks, NewTask("record", i)))
      BY <3>1, <3>2, ResolveKnown, ZenonT(30)
    <3>4. Fitting(tasks', Tail(held), closing)
      BY <1>1, <3>1, <3>2, <3>3, FittingEvent, Zenon
    <3> QED BY <1>1, <2>1, <3>1, <3>3, <3>4, FittingKeeps, ZenonT(30)
  <2>3. CASE held = <<>>
    <3>1. /\ closing' = 0 /\ UNCHANGED <<phase, held>>
          /\ tasks' = IF closing = 0 THEN tasks ELSE Append(tasks, NewTask("finished", closing))
      BY <1>9, <2>3, Zenon DEF Drain
    <3>2. Fitting(tasks, held, 0) /\ (closing # 0 => closing \in Positions /\ Lsn(closing) >= restart)
      BY <1>1, Zenon DEF Fitting, Resumed, TypeOK
    <3>3. Fitting(tasks', held, 0)
      BY <1>1, <3>1, <3>2, FittingEvent, ZenonT(30)
    <3> QED BY <1>1, <2>1, <3>1, <3>3, FittingKeeps, ZenonT(30)
  <2> QED BY <2>2, <2>3, Zenon
<1>10. CASE OnRecordEvent \/ OnTransactionFinishedEvent
  <2>1. /\ tasks # <<>> /\ Head(tasks).op # "relation" /\ tasks' = Tail(tasks)
        /\ UNCHANGED <<phase, restart, described, received, resolved, held, closing>>
    BY <1>10, Zenon DEF OnRecordEvent, OnTransactionFinishedEvent, session, server, tracker
  <2>2. Fitting(Tail(tasks), held, closing)
    BY <1>1, <2>1, FittingPop, Zenon
  <2> QED BY <1>1, <2>1, <2>2, FittingKeeps, ZenonT(30)
<1> QED BY <1>3, <1>4, <1>5, <1>6, <1>7, <1>8, <1>9, <1>10, ZenonT(30) DEF Dispatch

(***************************************************************************)
(* The receive loop keeps it: a relation message is never skipped, a       *)
(* message is enqueued only if it does not start before the restart        *)
(* position, and its relation was taken in before.                         *)
(***************************************************************************)
LEMMA ReceiveFits ==
  ASSUME TypeOK, SessionInv, Receive
  PROVE  SessionInv'
<1>1. /\ phase = "up" /\ Fitting(tasks, held, closing) /\ tasks \in Seq(Task)
      /\ described \subseteq received /\ restart \in Nat
  BY SlotUntouched, FittingHolds, Zenon DEF TypeOK, SessionInv, KnownInv
<1>2. CASE ReceiveRelation
  <2> DEFINE t == NewTask("relation", cursor)
             r == Stream[cursor].relation
  <2>1. ~Skips("relation", 0)
    BY Zenon DEF Skips
  <2>2. /\ cursor \in Positions /\ described' = described \cup {r} /\ received' = received \cup {r}
        /\ tasks' = Append(tasks, t)
        /\ UNCHANGED <<phase, restart, resolved, held, closing>>
    BY <1>2, <2>1, Zenon DEF ReceiveRelation, session, tracker
  <2>3. t \in Task /\ t.op = "relation" /\ t.at = cursor
    BY <2>2, NewTaskType, Zenon DEF NewTask
  <2>4. Resumed(tasks', held, closing, restart)
    BY <1>1, <2>2, <2>3, ResumedAppend, Zenon DEF Fitting
  <2>5. DescribedAhead(tasks', held, received', resolved)
    BY <1>1, <2>2, <2>3, AheadAppend, ZenonT(30) DEF Fitting
  <2>6. described' \subseteq received'
    BY <1>1, <2>2, Zenon
  <2> QED BY <1>1, <2>2, <2>4, <2>5, <2>6, ZenonT(30) DEF SessionInv, ResumedInv, KnownInv
<1>3. CASE ReceiveMessage
  <2> DEFINE t == NewTask("logical", cursor)
  <2>1. /\ cursor \in Positions /\ (HasRelation(cursor) => Stream[cursor].relation \in received)
        /\ UNCHANGED <<restart, described, received, resolved, held, closing>>
    BY <1>1, <1>3, ZenonT(30) DEF ReceiveMessage, tracker
  <2>2. /\ phase' = phase
        /\ \/ tasks' = tasks
           \/ ~Skips("logical", Stream[cursor].lsn) /\ tasks' = Append(tasks, t)
    BY <1>3, <2>1, Zenon DEF ReceiveMessage
  <2>3. ~Skips("logical", Stream[cursor].lsn) => Lsn(cursor) >= restart
    BY <1>1, <2>1, MessageTypes DEF Skips, Lsn
  <2>4. t \in Task /\ t.op = "logical" /\ t.at = cursor
    BY <2>1, NewTaskType, Zenon DEF NewTask
  <2>5. CASE tasks' = tasks
    BY <1>1, <2>1, <2>2, <2>5, FittingKeeps, ZenonT(30)
  <2>6. CASE tasks' = Append(tasks, t) /\ Lsn(cursor) >= restart
    <3>1. Resumed(tasks', held, closing, restart)
      BY <1>1, <2>4, <2>6, ResumedAppend, ZenonT(30) DEF Fitting
    <3>2. DescribedAhead(tasks', held, received, resolved)
      BY <1>1, <2>1, <2>4, <2>6, AheadAppend, ZenonT(30) DEF Fitting
    <3>3. Fitting(tasks', held', closing')
      BY <2>1, <3>1, <3>2, ZenonT(30) DEF Fitting
    <3> QED BY <1>1, <2>1, <2>2, <3>3, FittingKeeps, ZenonT(30)
  <2> QED BY <2>2, <2>3, <2>5, <2>6, ZenonT(30)
<1> QED BY <1>2, <1>3, Zenon DEF Receive

(***************************************************************************)
(* Every step keeps the session's invariant.                               *)
(***************************************************************************)
LEMMA SessionStep == TypeOK /\ SessionInv /\ [Next]_vars => SessionInv'
<1> SUFFICES ASSUME TypeOK, SessionInv, [Next]_vars PROVE SessionInv'
  BY Zenon
<1>1. CASE UNCHANGED vars
  <2>1. UNCHANGED <<phase, restart, described, received, resolved, tasks, held, closing>>
    BY <1>1, Zenon DEF vars, session, server, tracker
  <2> QED BY <2>1, Zenon DEF SessionInv, ResumedInv, KnownInv
<1>2. CASE StartReplication
  <2>1. /\ phase' = "up" /\ tasks' = <<>> /\ held' = <<>> /\ closing' = 0
        /\ described' = {} /\ received' = {}
    BY <1>2, Zenon DEF StartReplication
  <2>2. DOMAIN <<>> = {}
    BY EmptySeq, LenProperties
  <2>3. Resumed(<<>>, <<>>, 0, restart') /\ DescribedAhead(<<>>, <<>>, {}, resolved')
    BY <2>2, Zenon DEF Resumed, DescribedAhead, Messages
  <2> QED BY <2>1, <2>3, Zenon DEF SessionInv, ResumedInv, KnownInv
<1>3. CASE Crash
  BY <1>3, ZenonT(30) DEF Crash, SessionInv, ResumedInv, KnownInv
<1>4. CASE Save \/ SendStatusUpdate
  <2>1. UNCHANGED <<phase, restart, described, received, resolved, tasks, held, closing>>
    BY <1>4, Zenon DEF Save, SendStatusUpdate, session, server, tracker
  <2> QED BY <2>1, Zenon DEF SessionInv, ResumedInv, KnownInv
<1> QED BY <1>1, <1>2, <1>3, <1>4, ReceiveFits, DispatchFits, ZenonT(30) DEF Next

(***************************************************************************)
(* The session's invariant holds in every reachable state.                 *)
(***************************************************************************)
LEMMA SessionHolds == Spec => [](TypeOK /\ SessionInv)
<1>1. Init => SessionInv
  BY Zenon DEF Init, SessionInv, ResumedInv, KnownInv
<1> QED BY <1>1, SessionStep, TypeInit, TypeStep, PTL DEF Spec

(***************************************************************************)
(* No Fatalf of the receive loop or of the resolver is reached: the        *)
(* description of a relation is ahead of every row of it in each queue,    *)
(* wherever a session resumes.                                             *)
(***************************************************************************)
THEOREM RelationsAlwaysKnown == Spec => []NeverFatal
<1>1. SessionInv => NeverFatal
  BY Zenon DEF SessionInv, KnownInv, NeverFatal
<1> QED BY <1>1, SessionHolds, PTL

-------------------------------------------------------------------------------
\* The order of the stages

(***************************************************************************)
(* Taking the first task keeps the order of the stages.                    *)
(***************************************************************************)
LEMMA OrderTail ==
  ASSUME NEW q \in Seq(Task), q # <<>>, NEW h \in Seq(Positions), NEW c, Ordered(q, h, c)
  PROVE  Ordered(Tail(q), h, c)
<1>1. /\ \A n \in Messages(Tail(q)) : n \in Nat /\ n + 1 \in Messages(q) /\ Tail(q)[n] = q[n + 1]
      /\ \A n \in Events(Tail(q)) : n \in Nat /\ n + 1 \in Events(q) /\ Tail(q)[n] = q[n + 1]
  <2>1. Tail(q) \in Seq(Task)
    BY TailElements, Zenon
  <2> QED BY <2>1, TailElements, QueueElements DEF Messages, Events
<1>2. \A m, n \in Nat : m < n => m + 1 < n + 1
  OBVIOUS
<1> QED BY <1>1, <1>2, Zenon DEF Ordered

(***************************************************************************)
(* A message at the head of the task queue lies behind every event, every  *)
(* collected message and the commit being processed, and before every      *)
(* other message.                                                          *)
(***************************************************************************)
LEMMA OrderHead ==
  ASSUME NEW q \in Seq(Task), q # <<>>, Head(q).op = "logical",
         NEW h \in Seq(Positions), NEW c, Ordered(q, h, c)
  PROVE  /\ \A n \in Events(Tail(q)) : Tail(q)[n].at < Head(q).at
         /\ \A n \in Messages(Tail(q)) : Head(q).at < Tail(q)[n].at
         /\ \A n \in DOMAIN h : h[n] < Head(q).at
         /\ c # 0 => c < Head(q).at
<1>1. 1 \in Messages(q) /\ q[1] = Head(q)
  BY TailElements, Zenon DEF Messages
<1>2. /\ \A n \in Messages(Tail(q)) : n + 1 \in Messages(q) /\ Tail(q)[n] = q[n + 1] /\ 1 < n + 1
      /\ \A n \in Events(Tail(q)) : n + 1 \in Events(q) /\ Tail(q)[n] = q[n + 1]
  <2>1. Tail(q) \in Seq(Task)
    BY TailElements, Zenon
  <2> QED BY <2>1, TailElements, QueueElements DEF Messages, Events
<1> QED BY <1>1, <1>2, ZenonT(60) DEF Ordered

(***************************************************************************)
(* An event that fits between the events and the collected messages may be *)
(* appended to the task queue.                                             *)
(***************************************************************************)
LEMMA OrderEvent ==
  ASSUME NEW q \in Seq(Task), NEW h \in Seq(Positions), NEW c, Ordered(q, h, c),
         NEW op \in {"record", "finished"}, NEW i \in Positions,
         \A n \in Events(q) : q[n].at <= i,
         \A n \in Messages(q) : i < q[n].at,
         \A n \in DOMAIN h : i < h[n],
         c # 0 => i < c
  PROVE  Ordered(Append(q, NewTask(op, i)), h, c)
<1> DEFINE t == NewTask(op, i)
           r == Append(q, t)
<1>1. t \in Task /\ t.op = op /\ t.at = i
  BY NewTaskType, Zenon DEF NewTask
<1>2. /\ \A n \in Messages(r) : n \in Messages(q) /\ r[n] = q[n]
      /\ \A n \in Events(r) : \/ n \in Events(q) /\ r[n] = q[n]
                              \/ n = Len(q) + 1 /\ r[n].at = i
      /\ \A n \in Events(q) : n \in Nat /\ n <= Len(q) /\ Len(q) \in Nat
  BY <1>1, AppendElements, SMTT(30) DEF Messages, Events
<1> HIDE DEF r
<1>3. \A m, n \in Events(r) : m < n => r[m].at <= r[n].at
  BY <1>2, SMTT(30) DEF Ordered
<1>4. Ordered(r, h, c)
  BY <1>2, <1>3, SMTT(30) DEF Ordered
<1> QED BY <1>4, Zenon DEF r

(***************************************************************************)
(* Taking the first collected message keeps the order, and that message    *)
(* lies between the events and everything else.                            *)
(***************************************************************************)
LEMMA OrderHeldTail ==
  ASSUME NEW q \in Seq(Task), NEW h \in Seq(Positions), h # <<>>, NEW c, Ordered(q, h, c)
  PROVE  /\ Ordered(q, Tail(h), c)
         /\ \A n \in Events(q) : q[n].at < Head(h)
         /\ \A n \in Messages(q) : Head(h) < q[n].at
         /\ \A n \in DOMAIN Tail(h) : Head(h) < Tail(h)[n]
         /\ c # 0 => Head(h) < c
<1>1. /\ 1 \in DOMAIN h /\ h[1] = Head(h)
      /\ \A n \in DOMAIN Tail(h) : /\ n \in Nat /\ n + 1 \in DOMAIN h /\ 1 < n + 1
                                   /\ Tail(h)[n] = h[n + 1]
  <2>1. Tail(h) \in Seq(Positions)
    BY TailElements, Zenon
  <2> QED BY <2>1, TailElements, WindowElements
<1>2. \A m, n \in Nat : m < n => m + 1 < n + 1
  BY SMTT(30)
<1> QED BY <1>1, <1>2, SMTT(30) DEF Ordered

(***************************************************************************)
(* The order does not depend on collected messages or a commit being       *)
(* there.                                                                  *)
(***************************************************************************)
LEMMA OrderNoHeld ==
  ASSUME NEW q, NEW h, NEW c, Ordered(q, h, c)
  PROVE  Ordered(q, <<>>, c) /\ Ordered(q, h, 0)
BY SMTT(30) DEF Ordered

-------------------------------------------------------------------------------
\* The pipeline

(***************************************************************************)
(* The messages and events of the tail are those of the queue.             *)
(***************************************************************************)
LEMMA TailStages ==
  ASSUME NEW q \in Seq(Task), q # <<>>
  PROVE  /\ \A n \in Messages(Tail(q)) : n + 1 \in Messages(q) /\ Tail(q)[n] = q[n + 1]
         /\ \A n \in Events(Tail(q)) : n + 1 \in Events(q) /\ Tail(q)[n] = q[n + 1]
<1>1. Tail(q) \in Seq(Task)
  BY TailElements, Zenon
<1> QED BY <1>1, TailElements DEF Messages, Events

(***************************************************************************)
(* Taking the first task keeps the pipeline.                               *)
(***************************************************************************)
LEMMA PipelineTail ==
  ASSUME NEW q \in Seq(Task), q # <<>>, NEW h \in Seq(Positions), NEW c, NEW next,
         Pipeline(q, h, c, next)
  PROVE  Pipeline(Tail(q), h, c, next)
<1>1. Ordered(Tail(q), h, c)
  BY OrderTail, Zenon DEF Pipeline
<1>2. Below(Tail(q), h, c, next)
  BY TailStages, Zenon DEF Pipeline, Below
<1>3. KindsFit(Tail(q), h, c)
  BY TailStages, ZenonT(60) DEF Pipeline, KindsFit
<1> QED BY <1>1, <1>2, <1>3, ZenonT(30) DEF Pipeline

(***************************************************************************)
(* Appending an event that fits keeps the pipeline.                        *)
(***************************************************************************)
LEMMA PipelineEvent ==
  ASSUME NEW q \in Seq(Task), NEW h \in Seq(Positions), NEW c, NEW next,
         Pipeline(q, h, c, next),
         NEW op \in {"record", "finished"}, NEW i \in Positions,
         \A n \in Events(q) : q[n].at <= i,
         \A n \in Messages(q) : i < q[n].at,
         \A n \in DOMAIN h : i < h[n],
         c # 0 => i < c,
         i < next, Kind(i) # "begin", op = "finished" => Kind(i) = "commit"
  PROVE  Pipeline(Append(q, NewTask(op, i)), h, c, next)
<1> DEFINE t == NewTask(op, i)
           r == Append(q, t)
<1>1. t \in Task /\ t.op = op /\ t.at = i /\ t.op # "logical"
  BY NewTaskType, Zenon DEF NewTask
<1>2. /\ \A n \in Messages(r) : n \in Messages(q) /\ r[n] = q[n]
      /\ \A n \in Events(r) : \/ n \in Events(q) /\ r[n] = q[n]
                              \/ r[n].op = op /\ r[n].at = i
  BY <1>1, AppendElements, SMTT(30) DEF Messages, Events
<1>3. Ordered(r, h, c)
  BY OrderEvent, ZenonT(30) DEF Pipeline
<1> HIDE DEF r
<1>4. Below(r, h, c, next)
  BY <1>2, ZenonT(30) DEF Pipeline, Below
<1>5. KindsFit(r, h, c)
  BY <1>2, ZenonT(30) DEF Pipeline, KindsFit
<1>6. Pipeline(r, h, c, next)
  BY <1>3, <1>4, <1>5, ZenonT(30) DEF Pipeline
<1> QED BY <1>6, Zenon DEF r

(***************************************************************************)
(* Taking the first collected message keeps the pipeline.                  *)
(***************************************************************************)
LEMMA PipelineHeldTail ==
  ASSUME NEW q \in Seq(Task), NEW h \in Seq(Positions), h # <<>>, NEW c, NEW next,
         Pipeline(q, h, c, next)
  PROVE  /\ Pipeline(q, Tail(h), c, next)
         /\ Head(h) < next /\ Kind(Head(h)) # "begin"
<1>1. Ordered(q, Tail(h), c)
  BY OrderHeldTail, Zenon DEF Pipeline
<1>2. /\ 1 \in DOMAIN h /\ h[1] = Head(h)
      /\ \A n \in DOMAIN Tail(h) : n + 1 \in DOMAIN h /\ Tail(h)[n] = h[n + 1]
  BY TailElements, Zenon
<1>3. Below(q, Tail(h), c, next) /\ Head(h) < next
  BY <1>2, ZenonT(30) DEF Pipeline, Below
<1>4. KindsFit(q, Tail(h), c) /\ Kind(Head(h)) # "begin"
  BY <1>2, ZenonT(30) DEF Pipeline, KindsFit
<1> QED BY <1>1, <1>3, <1>4, ZenonT(30) DEF Pipeline

(***************************************************************************)
(* Forgetting the collected messages keeps the pipeline.                   *)
(***************************************************************************)
LEMMA PipelineNoHeld ==
  ASSUME NEW q, NEW h, NEW c, NEW next, Pipeline(q, h, c, next)
  PROVE  Pipeline(q, <<>>, c, next)
BY SMTT(30) DEF Pipeline, Ordered, Below, KindsFit

(***************************************************************************)
(* Finishing the commit being processed keeps the pipeline.                *)
(***************************************************************************)
LEMMA PipelineNoClosing ==
  ASSUME NEW q, NEW h, NEW c, NEW next \in Nat \ {0}, Pipeline(q, h, c, next)
  PROVE  Pipeline(q, h, 0, next)
BY SMTT(30) DEF Pipeline, Ordered, Below, KindsFit

-------------------------------------------------------------------------------
\* What is in flight

(***************************************************************************)
(* A message stays in flight when a task for another one is taken.         *)
(***************************************************************************)
LEMMA FlightTail ==
  ASSUME NEW q \in Seq(Task), q # <<>>, NEW h, NEW j, InFlight(j, q, h),
         Head(q).op \in {"logical", "record"} => Head(q).at # j
  PROVE  InFlight(j, Tail(q), h)
<1>1. CASE \E n \in DOMAIN h : h[n] = j
  BY <1>1, ZenonT(30) DEF InFlight
<1>2. CASE \E n \in DOMAIN q : q[n].op \in {"logical", "record"} /\ q[n].at = j
  <2>1. PICK n \in DOMAIN q : q[n].op \in {"logical", "record"} /\ q[n].at = j
    BY <1>2, ZenonT(30)
  <2>2. n # 1
    BY <2>1, TailElements, ZenonT(30)
  <2>3. n - 1 \in DOMAIN Tail(q) /\ Tail(q)[n - 1] = q[n]
    BY <2>2, TailElements, ZenonT(30)
  <2> QED BY <2>1, <2>3, ZenonT(30) DEF InFlight
<1> QED BY <1>1, <1>2, ZenonT(30) DEF InFlight

(***************************************************************************)
(* A message stays in flight when a task is appended, and comes into       *)
(* flight when the task is for it.                                         *)
(***************************************************************************)
LEMMA FlightAppend ==
  ASSUME NEW q \in Seq(Task), NEW t \in Task, NEW h, NEW j,
         InFlight(j, q, h) \/ (t.op \in {"logical", "record"} /\ t.at = j)
  PROVE  InFlight(j, Append(q, t), h)
<1>1. CASE InFlight(j, q, h)
  BY <1>1, AppendElements DEF InFlight
<1>2. CASE t.op \in {"logical", "record"} /\ t.at = j
  <2>1. Len(q) + 1 \in DOMAIN Append(q, t) /\ Append(q, t)[Len(q) + 1] = t
    BY AppendElements
  <2> QED BY <1>2, <2>1, ZenonT(60) DEF InFlight
<1> QED BY <1>1, <1>2, ZenonT(30)

(***************************************************************************)
(* A message stays in flight when one is collected, and comes into flight  *)
(* when it is the one.                                                     *)
(***************************************************************************)
LEMMA FlightPush ==
  ASSUME NEW q, NEW h \in Seq(Positions), NEW i \in Positions, NEW j,
         InFlight(j, q, h) \/ j = i
  PROVE  InFlight(j, q, Append(h, i))
<1>1. CASE InFlight(j, q, h)
  BY <1>1, AppendElements DEF InFlight
<1>2. CASE j = i
  <2>1. Len(h) + 1 \in DOMAIN Append(h, i) /\ Append(h, i)[Len(h) + 1] = i
    BY AppendElements
  <2> QED BY <1>2, <2>1, ZenonT(30) DEF InFlight
<1> QED BY <1>1, <1>2, ZenonT(60)

(***************************************************************************)
(* A message stays in flight when another one leaves the window.           *)
(***************************************************************************)
LEMMA FlightHeldTail ==
  ASSUME NEW q, NEW h \in Seq(Positions), h # <<>>, NEW j, InFlight(j, q, h), j # Head(h)
  PROVE  InFlight(j, q, Tail(h))
<1>1. CASE \E n \in DOMAIN q : q[n].op \in {"logical", "record"} /\ q[n].at = j
  BY <1>1, ZenonT(30) DEF InFlight
<1>2. CASE \E n \in DOMAIN h : h[n] = j
  <2>1. PICK n \in DOMAIN h : h[n] = j
    BY <1>2, ZenonT(30)
  <2>2. n # 1
    BY <2>1, TailElements, ZenonT(30)
  <2>3. n - 1 \in DOMAIN Tail(h) /\ Tail(h)[n - 1] = h[n]
    BY <2>2, TailElements, ZenonT(30)
  <2> QED BY <2>1, <2>3, ZenonT(30) DEF InFlight
<1> QED BY <1>1, <1>2, Zenon DEF InFlight

-------------------------------------------------------------------------------
\* The messages that wait, and the Begin messages among them

(***************************************************************************)
(* The head of the task queue is the first waiting message, if it is a     *)
(* message at all.                                                         *)
(***************************************************************************)
LEMMA WaitingTail ==
  ASSUME NEW q \in Seq(Task), q # <<>>, NEW h \in Seq(Positions), NEW c, Ordered(q, h, c)
  PROVE  /\ Head(q).op # "logical" => Waiting(Tail(q)) = Waiting(q)
         /\ Head(q).op = "logical" => /\ Waiting(Tail(q)) = Waiting(q) \ {Head(q).at}
                                      /\ Head(q).at \in Waiting(q)
                                      /\ \A m \in Waiting(q) : Head(q).at <= m
<1>1. \A n \in Messages(Tail(q)) : n + 1 \in Messages(q) /\ Tail(q)[n] = q[n + 1]
  BY TailStages, Zenon
<1>2. \A n \in Messages(q) : n # 1 => n - 1 \in Messages(Tail(q)) /\ Tail(q)[n - 1] = q[n]
  <2> SUFFICES ASSUME NEW n \in Messages(q)
               PROVE  n # 1 => n - 1 \in Messages(Tail(q)) /\ Tail(q)[n - 1] = q[n]
    BY Zenon
  <2>1. n # 1 => n - 1 \in DOMAIN Tail(q) /\ Tail(q)[n - 1] = q[n]
    BY TailElements, Zenon DEF Messages
  <2> QED BY <2>1, ZenonT(30) DEF Messages
<1>3. q[1] = Head(q) /\ 1 \in DOMAIN q /\ \A n \in Messages(q) : q[n].at \in Nat
  BY TailElements, QueueElements, ZenonT(30) DEF Messages
<1>4. CASE Head(q).op # "logical"
  <2>1. 1 \notin Messages(q)
    BY <1>3, <1>4, ZenonT(30) DEF Messages
  <2>2. Waiting(Tail(q)) \subseteq Waiting(q)
    BY <1>1, Zenon DEF Waiting
  <2>3. Waiting(q) \subseteq Waiting(Tail(q))
    BY <1>2, <2>1, Zenon DEF Waiting
  <2> QED BY <1>4, <2>2, <2>3, Zenon
<1>5. CASE Head(q).op = "logical"
  <2>1. 1 \in Messages(q)
    BY <1>3, <1>5, ZenonT(30) DEF Messages
  <2>2. \A n \in Messages(Tail(q)) : Head(q).at < Tail(q)[n].at
    BY <1>5, OrderHead, Zenon
  <2>3. Waiting(Tail(q)) \subseteq Waiting(q)
    BY <1>1, Zenon DEF Waiting
  <2>4. Head(q).at \notin Waiting(Tail(q))
    <3> SUFFICES ASSUME NEW n \in Messages(Tail(q)) PROVE Tail(q)[n].at # Head(q).at
      BY Zenon DEF Waiting
    <3>1. Tail(q)[n].at \in Nat /\ Head(q).at \in Nat
      BY <1>1, <1>3, <2>1, Zenon
    <3>2. Head(q).at < Tail(q)[n].at
      BY <2>2, Zenon
    <3>3. \A a, b \in Nat : a < b => b # a
      OBVIOUS
    <3> QED BY <3>1, <3>2, <3>3, Zenon
  <2>5. \A m \in Waiting(q) : m = Head(q).at \/ m \in Waiting(Tail(q))
    BY <1>2, <1>3, ZenonT(60) DEF Waiting
  <2>6. \A m \in Waiting(q) : Head(q).at <= m
    <3> SUFFICES ASSUME NEW n \in Messages(q) PROVE Head(q).at <= q[n].at
      BY Zenon DEF Waiting
    <3>1. CASE n = 1
      BY <1>3, <3>1
    <3>2. CASE n # 1
      <4>1. 1 < n
        BY <3>2, QueueElements, SMTT(30) DEF Messages
      <4>2. q[1].at < q[n].at /\ q[1].at \in Nat /\ q[n].at \in Nat
        BY <1>3, <2>1, <4>1, SMTT(30) DEF Ordered
      <4> QED BY <1>3, <4>2
    <3> QED BY <3>1, <3>2, Zenon
  <2> QED BY <1>3, <1>5, <2>1, <2>3, <2>4, <2>5, <2>6, Zenon DEF Waiting
<1> QED BY <1>4, <1>5, ZenonT(30)

(***************************************************************************)
(* Only a message adds to the waiting messages.                            *)
(***************************************************************************)
LEMMA WaitingAppend ==
  ASSUME NEW q \in Seq(Task), NEW t \in Task
  PROVE  /\ t.op # "logical" => Waiting(Append(q, t)) = Waiting(q)
         /\ t.op = "logical" => Waiting(Append(q, t)) = Waiting(q) \cup {t.at}
<1> DEFINE r == Append(q, t)
<1>1. /\ \A n \in Messages(q) : n \in Messages(r) /\ r[n] = q[n]
      /\ \A n \in Messages(r) : \/ n \in Messages(q) /\ r[n] = q[n]
                                \/ t.op = "logical" /\ r[n] = t
      /\ t.op = "logical" => Len(q) + 1 \in Messages(r) /\ r[Len(q) + 1] = t
  BY AppendElements DEF Messages
<1> HIDE DEF r
<1>2. t.op # "logical" => Waiting(r) = Waiting(q)
  BY <1>1, ZenonT(30) DEF Waiting
<1>3. t.op = "logical" => Waiting(r) = Waiting(q) \cup {t.at}
  BY <1>1, Zenon DEF Waiting
<1> QED BY <1>2, <1>3, ZenonT(30) DEF r

(***************************************************************************)
(* The waiting messages are positions of the stream.                       *)
(***************************************************************************)
LEMMA WaitingPositions ==
  ASSUME NEW q \in Seq(Task)
  PROVE  Waiting(q) \subseteq Positions
BY QueueElements, Zenon DEF Waiting, Messages

-------------------------------------------------------------------------------
\* What starts and what ends

(***************************************************************************)
(* Taking the first waiting message keeps the others paired, and it has    *)
(* passed with what ends it still to come.                                 *)
(***************************************************************************)
LEMMA PairedPop ==
  ASSUME NEW w \in SUBSET Positions, NEW from, NEW next, Paired(w, from, next),
         NEW i \in w, \A m \in w : i <= m
  PROVE  /\ Paired(w \ {i}, from, next)
         /\ i < next => Passed(i, w \ {i}, from, next)
<1>1. \A m \in w \ {i} : i < m
  BY MessageTypes, SMTT(30)
<1>2. \A m \in w, k \in Positions : Closes(k, m) => k # i
  BY MessageTypes DEF Closes
<1> QED BY <1>1, <1>2, ZenonT(30) DEF Paired, Passed, ClosersWait

(***************************************************************************)
(* What has passed stays so when a message leaves that does not end it.    *)
(***************************************************************************)
LEMMA PassedPop ==
  ASSUME NEW b \in Positions, NEW w, NEW from, NEW next, Passed(b, w, from, next),
         NEW i, ~Closes(i, b)
  PROVE  Passed(b, w \ {i}, from, next)
BY Zenon DEF Passed, ClosersWait

(***************************************************************************)
(* A message sent after the Begin of the open transaction, before anything *)
(* that still waits, belongs to that transaction: its commit would lie     *)
(* between the two.                                                        *)
(***************************************************************************)
LEMMA SameTransaction ==
  ASSUME NEW b \in Positions, Kind(b) = "begin", NEW w, NEW from, NEW next \in Nat,
         Passed(b, w, from, next),
         NEW i \in Positions, b < i, i < next, \A m \in w : i <= m
  PROVE  Stream[i].final = Stream[b].final /\ Kind(i) # "begin"
<1>1. b \in Nat /\ i \in Nat /\ Stream[i].final \in Nat /\ Stream[b].final \in Nat
  BY MessageTypes, ZenonT(30)
<1>2. Stream[b].final <= Stream[i].final
  BY StreamAssumption, ZenonT(30)
<1>3. ASSUME Stream[b].final < Stream[i].final PROVE FALSE
  <2>1. PICK k \in b..(i - 1) : Stream[k].kind = "commit"
    BY <1>3, StreamAssumption, ZenonT(30) DEF Kind
  <2>2. k \in Positions /\ b < k /\ k < i /\ k < next
    <3>1. k # b
      BY <2>1, ZenonT(30) DEF Kind
    <3> QED BY <1>1, <2>1, <3>1, MessageTypes DEF Positions
  <2>3. k \in w
    BY <2>1, <2>2, ZenonT(30) DEF Passed, ClosersWait, Closes, Kind
  <2> QED BY <1>1, <2>2, <2>3, SMTT(30)
<1>4. Stream[i].final = Stream[b].final
  BY <1>1, <1>2, <1>3, SMTT(30)
<1>5. Kind(i) = "begin" => Stream[b].final < Stream[i].final
  BY StreamAssumption, ZenonT(30) DEF Kind
<1> QED BY <1>1, <1>4, <1>5, SMTT(30)

-------------------------------------------------------------------------------
\* Steps that keep the shape of the pipeline

ShapeInv == PipelineInv /\ PairedInv /\ OpenInv /\ WindowState

(***************************************************************************)
(* What drain() will still hand on is a sequence of messages.              *)
(***************************************************************************)
LEMMA HeldType ==
  ASSUME TypeOK
  PROVE  Held \in Seq(Positions)
BY EmptySeq, ZenonT(30) DEF Held, TypeOK

(***************************************************************************)
(* What is known of a message at the head of the task queue: it is the     *)
(* first of the waiting messages, and lies behind every event and every    *)
(* collected message.                                                      *)
(***************************************************************************)
LEMMA HeadMessage ==
  ASSUME PathInv, phase = "up", ~draining, tasks # <<>>, Head(tasks).op = "logical"
  PROVE  /\ tasks \in Seq(Task) /\ Tail(tasks) \in Seq(Task) /\ Held \in Seq(Positions)
         /\ Head(tasks).at \in Positions /\ Head(tasks).at \in Nat /\ cursor \in Nat
         /\ closing = 0 /\ Head(tasks).at < cursor
         /\ Pipeline(Tail(tasks), Held, 0, cursor)
         /\ \A n \in Events(Tail(tasks)) : Tail(tasks)[n].at < Head(tasks).at
         /\ \A n \in Messages(Tail(tasks)) : Head(tasks).at < Tail(tasks)[n].at
         /\ \A n \in DOMAIN Held : Held[n] < Head(tasks).at
<1>1. /\ tasks \in Seq(Task) /\ Tail(tasks) \in Seq(Task) /\ Held \in Seq(Positions)
      /\ Head(tasks).at \in Positions /\ cursor \in Nat
  BY HeadTask, HeldType DEF PathInv, TypeOK
<1>2. Head(tasks).at \in Nat
  BY <1>1, MessageTypes, ZenonT(30)
<1>3. closing = 0 /\ Pipeline(tasks, Held, 0, cursor)
  BY Zenon DEF PathInv, WindowState, PipelineInv
<1>4. Head(tasks).at < cursor
  BY <1>1, <1>3, TailElements DEF Pipeline, Below, Messages
<1>5. Pipeline(Tail(tasks), Held, 0, cursor)
  BY <1>1, <1>3, PipelineTail, ZenonT(30)
<1>6. /\ \A n \in Events(Tail(tasks)) : Tail(tasks)[n].at < Head(tasks).at
      /\ \A n \in Messages(Tail(tasks)) : Head(tasks).at < Tail(tasks)[n].at
      /\ \A n \in DOMAIN Held : Held[n] < Head(tasks).at
  BY <1>1, <1>3, OrderHead, ZenonT(60) DEF Pipeline
<1> QED BY <1>1, <1>2, <1>3, <1>4, <1>5, <1>6, ZenonT(60)

(***************************************************************************)
(* The messages that still wait once the first task is taken.              *)
(***************************************************************************)
LEMMA TakenFromWaiting ==
  ASSUME PathInv, phase = "up", tasks # <<>>
  PROVE  /\ Waiting(tasks) \in SUBSET Positions
         /\ Paired(Waiting(tasks), restart, cursor)
         /\ Head(tasks).op # "logical" => Waiting(Tail(tasks)) = Waiting(tasks)
         /\ Head(tasks).op = "logical" => /\ Waiting(Tail(tasks)) = Waiting(tasks) \ {Head(tasks).at}
                                          /\ Head(tasks).at \in Waiting(tasks)
                                          /\ \A m \in Waiting(tasks) : Head(tasks).at <= m
         /\ Paired(Waiting(Tail(tasks)), restart, cursor)
<1>1. /\ tasks \in Seq(Task) /\ Held \in Seq(Positions) /\ Ordered(tasks, Held, closing)
      /\ Paired(Waiting(tasks), restart, cursor)
  BY HeldType, ZenonT(30) DEF PathInv, TypeOK, PipelineInv, Pipeline, PairedInv
<1>2. Waiting(tasks) \in SUBSET Positions
  BY <1>1, WaitingPositions, ZenonT(30)
<1>3. /\ Head(tasks).op # "logical" => Waiting(Tail(tasks)) = Waiting(tasks)
      /\ Head(tasks).op = "logical" => /\ Waiting(Tail(tasks)) = Waiting(tasks) \ {Head(tasks).at}
                                       /\ Head(tasks).at \in Waiting(tasks)
                                       /\ \A m \in Waiting(tasks) : Head(tasks).at <= m
  BY <1>1, WaitingTail, ZenonT(30)
<1>4. Paired(Waiting(Tail(tasks)), restart, cursor)
  <2>1. CASE Head(tasks).op # "logical"
    BY <1>1, <1>3, <2>1, ZenonT(30)
  <2>2. CASE Head(tasks).op = "logical"
    <3>1. Paired(Waiting(tasks) \ {Head(tasks).at}, restart, cursor)
      BY <1>1, <1>2, <1>3, <2>2, PairedPop, ZenonT(60)
    <3> QED BY <1>3, <2>2, <3>1, Zenon
  <2> QED BY <2>1, <2>2, ZenonT(30)
<1> QED BY <1>1, <1>2, <1>3, <1>4, ZenonT(30)

(***************************************************************************)
(* The Begin of the open transaction stays its Begin: no commit leaves the *)
(* queue, what is collected was waiting, and an open window lets no event  *)
(* out.                                                                    *)
(***************************************************************************)
LEMMA OpenKeeps ==
  ASSUME PathInv, phase = "up", UNCHANGED <<restart, cursor, finalLSN>>, active' => active,
         NEW w, w = Waiting(tasks'),
         w = Waiting(tasks) \/ \E i \in Positions : Kind(i) # "commit" /\ w = Waiting(tasks) \ {i},
         \A n \in DOMAIN held' : held'[n] \in Waiting(tasks) \/ \E m \in DOMAIN held : held'[n] = held[m],
         Collects' => /\ Collects
                      /\ \A n \in Events(tasks') : \E m \in Events(tasks) : tasks'[n].at = tasks[m].at
  PROVE  OpenInv'
<1> SUFFICES ASSUME active'
             PROVE  \E b \in Positions :
                      /\ Kind(b) = "begin" /\ Stream[b].final = finalLSN
                      /\ Passed(b, w, restart, cursor)
                      /\ \A n \in DOMAIN held' : b < held'[n]
                      /\ Collects' => \A n \in Events(tasks') : tasks'[n].at < b
  BY ZenonT(60) DEF OpenInv
<1>1. PICK b \in Positions :
        /\ Kind(b) = "begin" /\ Stream[b].final = finalLSN
        /\ Passed(b, Waiting(tasks), restart, cursor)
        /\ \A n \in DOMAIN held : b < held[n]
        /\ Collects => \A n \in Events(tasks) : tasks[n].at < b
  BY Zenon  DEF PathInv, OpenInv
<1>2. Passed(b, w, restart, cursor)
  <2>1. CASE w = Waiting(tasks)
    BY <1>1, <2>1, ZenonT(30)
  <2>2. CASE \E i \in Positions : Kind(i) # "commit" /\ w = Waiting(tasks) \ {i}
    <3>1. PICK i \in Positions : Kind(i) # "commit" /\ w = Waiting(tasks) \ {i}
      BY <2>2, ZenonT(30)
    <3>2. ~Closes(i, b)
      BY <1>1, <3>1, SMTT(30) DEF Closes
    <3> QED BY <1>1, <3>1, <3>2, PassedPop, SMTT(30)
  <2> QED BY <2>1, <2>2, ZenonT(30)
<1>3. \A n \in DOMAIN held' : b < held'[n]
  BY <1>1, ZenonT(30) DEF Passed
<1>4. Collects' => \A n \in Events(tasks') : tasks'[n].at < b
  BY <1>1, ZenonT(30)
<1> QED BY <1>1, <1>2, <1>3, <1>4, ZenonT(30)

(***************************************************************************)
(* A Begin at the head of the queue never meets an open transaction.       *)
(***************************************************************************)
LEMMA BeginFindsClosed ==
  ASSUME PathInv, Dispatches({"begin"})
  PROVE  ~active
<1> DEFINE i == Head(tasks).at
<1>1. phase = "up" /\ tasks # <<>> /\ ~draining /\ Head(tasks).op = "logical" /\ Kind(i) = "begin"
  BY SMTT(60) DEF Dispatches, Kind
<1>2. i \in Positions /\ i < cursor /\ cursor \in Nat
  BY <1>1, HeadMessage, Zenon
<1>3. i \in Waiting(tasks) /\ \A m \in Waiting(tasks) : i <= m
  BY <1>1, TakenFromWaiting, ZenonT(30)
<1> SUFFICES ASSUME active PROVE FALSE
  BY Zenon
<1>4. PICK b \in Positions : Kind(b) = "begin" /\ Passed(b, Waiting(tasks), restart, cursor)
  BY <1>1, ZenonT(30) DEF PathInv, OpenInv
<1>5. b < i
  BY <1>3, <1>4, ZenonT(30) DEF Passed
<1> QED BY <1>1, <1>2, <1>3, <1>4, <1>5, SameTransaction, SMTT(30)

(***************************************************************************)
(* A commit puts its events behind all others and before the messages.     *)
(***************************************************************************)
Fits(r, i) ==
  /\ r \in Seq(Task)
  /\ Pipeline(r, <<>>, 0, cursor)
  /\ \A n \in Events(r) : r[n].at <= i
  /\ \A n \in Messages(r) : i < r[n].at

(***************************************************************************)
(* Events of a commit may be appended to what is left of the task queue.   *)
(***************************************************************************)
LEMMA CommitEvent ==
  ASSUME NEW r, NEW i \in Positions, Fits(r, i), i < cursor, Kind(i) = "commit",
         NEW op \in {"record", "finished"}
  PROVE  /\ Fits(Append(r, NewTask(op, i)), i)
         /\ Waiting(Append(r, NewTask(op, i))) = Waiting(r)
         /\ \A j : InFlight(j, r, <<>>) => InFlight(j, Append(r, NewTask(op, i)), <<>>)
<1> DEFINE t == NewTask(op, i)
           s == Append(r, t)
<1>1. t \in Task /\ t.op = op /\ t.at = i /\ t.op # "logical" /\ i \in Nat
  BY NewTaskType, MessageTypes, ZenonT(30) DEF NewTask
<1>2. r \in Seq(Task) /\ <<>> \in Seq(Positions) /\ \A n \in DOMAIN <<>> : i < <<>>[n]
  BY EmptySeq, LenProperties, SMTT(30) DEF Fits
<1>3. s \in Seq(Task)
  BY <1>1, <1>2, AppendElements, ZenonT(30)
<1>4. Pipeline(s, <<>>, 0, cursor)
  BY <1>2, PipelineEvent, ZenonT(60) DEF Fits
<1>5. /\ \A n \in Events(s) : s[n].at <= i
      /\ \A n \in Messages(s) : i < s[n].at
  <2>1. /\ \A n \in Messages(s) : n \in Messages(r) /\ s[n] = r[n]
        /\ \A n \in Events(s) : (n \in Events(r) /\ s[n] = r[n]) \/ s[n].at = i
    BY <1>1, <1>2, AppendElements, SMTT(30) DEF Messages, Events
  <2>2. /\ \A n \in Events(r) : r[n].at <= i
        /\ \A n \in Messages(r) : i < r[n].at
    BY Zenon DEF Fits
  <2>3. i <= i
    BY <1>1
  <2> HIDE DEF s
  <2> QED BY <2>1, <2>2, <2>3, ZenonT(30)
<1>6. Waiting(s) = Waiting(r)
  BY <1>1, <1>2, WaitingAppend, ZenonT(30)
<1>7. \A j : InFlight(j, r, <<>>) => InFlight(j, s, <<>>)
  BY <1>1, <1>2, FlightAppend, ZenonT(30)
<1> QED BY <1>3, <1>4, <1>5, <1>6, <1>7, ZenonT(60) DEF Fits

(***************************************************************************)
(* The task queue that OnCommitEvent leaves: what was queued, followed by  *)
(* events of the commit, unless the window is drained first.               *)
(***************************************************************************)
LEMMA CommitTasks ==
  ASSUME PathInv, OnCommitEvent
  PROVE  /\ phase = "up" /\ ~draining /\ tasks # <<>> /\ Head(tasks).op = "logical"
         /\ Kind(Head(tasks).at) = "commit" /\ active' = FALSE
         /\ UNCHANGED <<phase, restart, cursor, spilled, held>>
         /\ Waiting(tasks') = Waiting(Tail(tasks))
         /\ \A j : InFlight(j, Tail(tasks), <<>>) => InFlight(j, tasks', <<>>)
         /\ \/ /\ Fits(tasks', Head(tasks).at)
               /\ UNCHANGED <<draining, closing>>
               /\ \/ (Mode # "window" \/ ~active) /\ dropped' = dropped
                  \/ active /\ dropped' = dropped \cup {held[n] : n \in DOMAIN held}
            \/ /\ Mode = "window" /\ active
               /\ tasks' = Tail(tasks) /\ draining' = TRUE /\ closing' = Head(tasks).at
               /\ dropped' = dropped
<1> DEFINE i == Head(tasks).at
           q == Tail(tasks)
           event == <<NewTask("record", i)>>
<1>1. /\ phase = "up" /\ ~draining /\ tasks # <<>> /\ Head(tasks).op = "logical"
      /\ Kind(i) = "commit" /\ active' = FALSE
      /\ UNCHANGED <<phase, restart, cursor, spilled, held>>
  BY Zenon DEF OnCommitEvent, Dispatches, Kind, session, server
<1>2. /\ q \in Seq(Task) /\ i \in Positions /\ i \in Nat /\ i < cursor
      /\ Pipeline(q, Held, 0, cursor)
      /\ \A n \in Events(q) : q[n].at < i
      /\ \A n \in Messages(q) : i < q[n].at
  BY <1>1, HeadMessage, Zenon
<1>3. Fits(q, i)
  <2>1. \A n \in Events(q) : q[n].at <= i
    BY <1>2, QueueElements DEF Events
  <2> QED BY <1>2, <2>1, PipelineNoHeld, ZenonT(60) DEF Fits
<1> DEFINE Good(r) == /\ Fits(r, i) /\ Waiting(r) = Waiting(q)
                      /\ \A j : InFlight(j, q, <<>>) => InFlight(j, r, <<>>)
<1>4. Good(q)
  BY <1>3, ZenonT(30)
<1>5. ASSUME NEW r, Good(r), NEW op \in {"record", "finished"}
      PROVE  Good(Append(r, NewTask(op, i)))
  BY <1>1, <1>2, <1>5, CommitEvent, Zenon
<1>6. ASSUME NEW r, Good(r)
      PROVE  Good(r \o event) /\ Good(r \o <<>>)
  <2>1. r \in Seq(Task) /\ NewTask("record", i) \in Task
    BY <1>2, <1>6, NewTaskType, ZenonT(30) DEF Fits
  <2>2. r \o event = Append(r, NewTask("record", i)) /\ r \o <<>> = r
    BY <2>1, AppendIsConcat, ConcatEmptySeq, ZenonT(30)
  <2>3. Good(Append(r, NewTask("record", i)))
    BY <1>5, <1>6, ZenonT(30)
  <2> QED BY <1>6, <2>2, <2>3, ZenonT(60)
<1> HIDE DEF Good
<1>7. CASE /\ Mode # "window" \/ ~active
           /\ tasks' = Append(q, NewTask("finished", i))
           /\ UNCHANGED <<draining, closing, dropped>>
  <2>1. Good(tasks')
    BY <1>4, <1>5, <1>7, ZenonT(30)
  <2> QED BY <1>1, <1>7, <2>1, ZenonT(30) DEF Good
<1>8. CASE /\ Mode = "window" /\ active
           /\ tasks' = q \o (IF compression /\ GenCompression THEN event ELSE <<>>)
                          \o (IF decompression /\ GenDecompression THEN event ELSE <<>>)
           /\ dropped' = dropped \cup {held[n] : n \in DOMAIN held}
           /\ UNCHANGED <<draining, closing>>
  <2>1. Good(tasks')
    <3> HIDE DEF event
    <3>1. Good(q \o event) /\ Good(q \o <<>>)
      BY <1>4, <1>6, ZenonT(30)
    <3>2. /\ Good((q \o event) \o event) /\ Good((q \o event) \o <<>>)
          /\ Good((q \o <<>>) \o event) /\ Good((q \o <<>>) \o <<>>)
      BY <1>6, <3>1, ZenonT(30)
    <3> QED BY <1>8, <3>2, Zenon
  <2> QED BY <1>1, <1>8, <2>1, ZenonT(60) DEF Good
<1>9. CASE /\ Mode = "window" /\ active
           /\ tasks' = q
           /\ draining' = TRUE
           /\ closing' = i
           /\ UNCHANGED dropped
  BY <1>1, <1>9, ZenonT(30)
<1> QED BY <1>7, <1>8, <1>9, ZenonT(60) DEF OnCommitEvent

(***************************************************************************)
(* What a step of drain() does to the queues: the first collected message  *)
(* is resolved, or the commit follows the last one.                        *)
(***************************************************************************)
LEMMA DrainTasks ==
  ASSUME PathInv, Drain
  PROVE  /\ phase = "up" /\ phase' = "up" /\ draining
         /\ UNCHANGED <<restart, cursor, active, finalLSN, spilled, dropped>>
         /\ Waiting(tasks') = Waiting(tasks)
         /\ Pipeline(tasks', Held', closing', cursor)
         /\ \/ /\ held # <<>> /\ Resolve(Head(held), tasks) /\ held' = Tail(held)
               /\ Held' = Tail(held) /\ UNCHANGED <<draining, closing>>
               /\ tasks' = tasks \/ tasks' = Append(tasks, NewTask("record", Head(held)))
            \/ /\ held = <<>> /\ held' = <<>> /\ Held' = <<>> /\ draining' = FALSE /\ closing' = 0
               /\ UNCHANGED <<processed, offset, emitted, failed>>
               /\ \A j : InFlight(j, tasks, <<>>) => InFlight(j, tasks', <<>>)
<1>1. /\ phase = "up" /\ draining
      /\ UNCHANGED <<restart, cursor, active, finalLSN, spilled, dropped>>
  BY ZenonT(30) DEF Drain, server
<1>2. /\ tasks \in Seq(Task) /\ held \in Seq(Positions)
      /\ cursor \in Nat \ {0} /\ closing \in {0} \cup Positions /\ <<>> \in Seq(Positions)
  BY EmptySeq DEF PathInv, TypeOK
<1>3. Held = held /\ Pipeline(tasks, held, closing, cursor)
  BY <1>1, ZenonT(30) DEF Held, PathInv, PipelineInv
<1>4. CASE held # <<>>
  <2> DEFINE i == Head(held)
             h == Tail(held)
             t == NewTask("record", i)
  <2>1. /\ Resolve(i, tasks) /\ held' = h /\ UNCHANGED <<draining, closing>>
        /\ i \in Positions /\ h \in Seq(Positions)
    BY <1>4, HeadHeld, ZenonT(30) DEF Drain, PathInv
  <2>2. HasRelation(i) => Stream[i].relation \in resolved
    BY <1>1, <1>2, <1>4, AheadHeld, ZenonT(60) DEF PathInv, KnownInv
  <2>3. phase' = phase /\ (tasks' = tasks \/ tasks' = Append(tasks, t))
    BY <2>1, <2>2, ResolveKnown, ZenonT(30)
  <2>4. Held' = h
    BY <1>1, <2>1, ZenonT(30) DEF Held
  <2>5. /\ Pipeline(tasks, h, closing, cursor) /\ i < cursor /\ Kind(i) # "begin"
        /\ \A n \in Events(tasks) : tasks[n].at < i
        /\ \A n \in Messages(tasks) : i < tasks[n].at
        /\ \A n \in DOMAIN h : i < h[n]
        /\ closing # 0 => i < closing
    BY <1>2, <1>3, <1>4, PipelineHeldTail, OrderHeldTail, ZenonT(30) DEF Pipeline
  <2>6. \A n \in Events(tasks) : tasks[n].at <= i
    <3>1. i \in Nat /\ \A n \in Events(tasks) : tasks[n].at \in Nat
      BY <1>2, <2>1, QueueElements, MessageTypes, Zenon DEF Events
    <3> QED BY <2>5, <3>1, SMTT(30)
  <2>7. t \in Task /\ t.op = "record" /\ t.at = i
    BY <2>1, NewTaskType, Zenon DEF NewTask
  <2>8. Pipeline(tasks', Held', closing', cursor)
    <3>1. Pipeline(Append(tasks, t), h, closing, cursor)
      BY <1>2, <2>1, <2>5, <2>6, PipelineEvent, Zenon
    <3> QED BY <2>1, <2>3, <2>4, <2>5, <3>1, Zenon
  <2>9. Waiting(tasks') = Waiting(tasks)
    BY <1>2, <2>3, <2>7, WaitingAppend, ZenonT(60)
  <2> QED BY <1>1, <1>4, <2>1, <2>3, <2>4, <2>8, <2>9, Zenon
<1>5. CASE held = <<>>
  <2>1. /\ draining' = FALSE /\ closing' = 0
        /\ tasks' = IF closing = 0 THEN tasks ELSE Append(tasks, NewTask("finished", closing))
        /\ UNCHANGED <<phase, processed, offset, held, emitted, failed>>
    BY <1>5, Zenon DEF Drain, context
  <2>2. Held' = <<>> /\ Pipeline(tasks, <<>>, 0, cursor)
    BY <1>2, <1>3, <1>5, <2>1, PipelineNoClosing, Zenon DEF Held
  <2>3. /\ Pipeline(tasks', <<>>, 0, cursor) /\ Waiting(tasks') = Waiting(tasks)
        /\ \A j : InFlight(j, tasks, <<>>) => InFlight(j, tasks', <<>>)
    <3>1. CASE closing = 0
      BY <2>1, <2>2, <3>1, Zenon
    <3>2. CASE closing # 0
      <4>1. closing \in Positions /\ closing \in Nat /\ closing < cursor /\ Kind(closing) = "commit"
        BY <1>2, <1>3, <3>2, MessageTypes, ZenonT(60) DEF Pipeline, Below, KindsFit
      <4>2. /\ \A n \in Events(tasks) : tasks[n].at < closing
            /\ \A n \in Messages(tasks) : closing < tasks[n].at
        BY <1>3, <3>2, ZenonT(60) DEF Pipeline, Ordered
      <4>3. \A n \in Events(tasks) : tasks[n].at <= closing
        <5>1. \A n \in Events(tasks) : tasks[n].at \in Nat
          BY <1>2, QueueElements, MessageTypes, Zenon DEF Events
        <5> QED BY <4>1, <4>2, <5>1, SMTT(60)
      <4>4. Fits(tasks, closing)
        BY <1>2, <2>2, <4>2, <4>3, Zenon DEF Fits
      <4> QED BY <2>1, <3>2, <4>1, <4>4, CommitEvent, ZenonT(60) DEF Fits
    <3> QED BY <3>1, <3>2, Zenon
  <2> QED BY <1>1, <1>5, <2>1, <2>2, <2>3, ZenonT(60)
<1> QED BY <1>4, <1>5, ZenonT(60)

(***************************************************************************)
(* Receiving a relation message.                                           *)
(***************************************************************************)
LEMMA ReceiveRelationShape == PathInv /\ ReceiveRelation => ShapeInv'
  (***************************************************************************)
  (* A relation message takes no part in the order.                          *)
  (***************************************************************************)
<1>OrderRelation. ASSUME NEW q \in Seq(Task), NEW h \in Seq(Positions), NEW c, Ordered(q, h, c),
                         NEW i \in Positions
                  PROVE  Ordered(Append(q, NewTask("relation", i)), h, c)
  <2> USE <1>OrderRelation
  <2> DEFINE t == NewTask("relation", i)
             r == Append(q, t)
  <2>1. t \in Task /\ t.op = "relation" /\ t.at = i
    BY NewTaskType, Zenon DEF NewTask
  <2>2. /\ \A n \in Events(r) : n \in Events(q) /\ r[n] = q[n]
        /\ \A n \in Messages(r) : n \in Messages(q) /\ r[n] = q[n]
    BY <2>1, AppendElements, SMTT(30) DEF Messages, Events
  <2> HIDE DEF r
  <2>3. Ordered(r, h, c)
    BY <2>2, Zenon DEF Ordered
  <2> QED BY <2>3, Zenon DEF r

  (***************************************************************************)
  (* Receiving a relation message keeps the pipeline.                        *)
  (***************************************************************************)
<1>PipelineRelation. ASSUME NEW q \in Seq(Task), NEW h \in Seq(Positions), NEW c, NEW next,
                            NEW i \in Positions, Pipeline(q, h, c, next)
                     PROVE  Pipeline(Append(q, NewTask("relation", i)), h, c, next)
  <2> USE <1>PipelineRelation
  <2> DEFINE t == NewTask("relation", i)
             r == Append(q, t)
  <2>1. t \in Task /\ t.op = "relation" /\ t.at = i
    BY NewTaskType, Zenon DEF NewTask
  <2>2. /\ \A n \in Messages(r) : n \in Messages(q) /\ r[n] = q[n]
        /\ \A n \in Events(r) : n \in Events(q) /\ r[n] = q[n]
    BY <2>1, AppendElements, SMTT(30) DEF Messages, Events
  <2>3. Ordered(r, h, c)
    BY <1>OrderRelation, Zenon DEF Pipeline
  <2> HIDE DEF r
  <2>4. Below(r, h, c, next) /\ KindsFit(r, h, c)
    BY <2>2, Zenon DEF Pipeline, Below, KindsFit
  <2>5. Pipeline(r, h, c, next)
    BY <2>3, <2>4, Zenon DEF Pipeline
  <2> QED BY <2>5, Zenon DEF r

<1> SUFFICES ASSUME PathInv, ReceiveRelation PROVE ShapeInv'
  BY Zenon
<1> DEFINE t == NewTask("relation", cursor)
<1>1. /\ phase = "up" /\ cursor \in Positions
      /\ tasks' = tasks \/ tasks' = Append(tasks, t)
      /\ UNCHANGED <<phase, restart, cursor, active, finalLSN, spilled, held, draining, closing>>
  BY Zenon  DEF ReceiveRelation, session, tracker
<1>2. Held' = Held /\ Held \in Seq(Positions) /\ tasks \in Seq(Task)
  BY <1>1, HeldType, Zenon DEF Held, PathInv, TypeOK
<1>3. t \in Task /\ t.op = "relation"
  BY <1>1, NewTaskType, Zenon DEF NewTask
<1>4. PipelineInv'
  BY <1>1, <1>2, <1>PipelineRelation, ZenonT(60) DEF PathInv, PipelineInv
<1>5. Waiting(tasks') = Waiting(tasks)
  BY <1>1, <1>2, <1>3, WaitingAppend, ZenonT(60)
<1>6. PairedInv'
  BY <1>1, <1>5, Zenon DEF PathInv, PairedInv
<1>7. OpenInv'
  <2>1. \A n \in Events(tasks') : n \in Events(tasks) /\ tasks'[n] = tasks[n]
    <3>1. \A n \in Events(Append(tasks, t)) : n \in Events(tasks) /\ Append(tasks, t)[n] = tasks[n]
      BY <1>2, <1>3, AppendElements DEF Events
    <3> QED BY <1>1, <3>1, ZenonT(60)
  <2>2. Collects' <=> Collects
    BY <1>1, Zenon DEF Collects
  <2> QED BY <1>1, <1>5, <2>1, <2>2, OpenKeeps, Zenon
<1>8. WindowState'
  BY <1>1, Zenon DEF PathInv, WindowState
<1> QED BY <1>4, <1>6, <1>7, <1>8, Zenon DEF ShapeInv

(***************************************************************************)
(* How the receive loop ends one iteration.  Relations are always known,   *)
(* so it ends in no failure.                                               *)
(***************************************************************************)
LEMMA ReceiveOutcome ==
  ASSUME PathInv, ReceiveMessage
  PROVE  /\ phase = "up" /\ phase' = "up" /\ cursor \in Positions /\ cursor' = cursor + 1
         /\ UNCHANGED <<slot, disk, starts, restart, processed, offset, emitted, dropped>>
         /\ UNCHANGED <<active, finalLSN, spilled, held, draining, closing>>
         /\ \/ Lsn(cursor) < restart /\ UNCHANGED <<tasks, failed>>
            \/ Lsn(cursor) >= restart /\ tasks' = Append(tasks, NewTask("logical", cursor)) /\ UNCHANGED failed
            \/ /\ Kind(cursor) \notin {"commit", "endmark"}
               /\ failed' = failed \cup {cursor} /\ UNCHANGED tasks
<1> DEFINE i == cursor
<1>1. /\ phase = "up" /\ i \in Positions /\ cursor' = i + 1
      /\ UNCHANGED <<slot, disk, starts, restart, processed, offset, emitted, dropped>>
      /\ UNCHANGED <<active, finalLSN, spilled, held, draining, closing>>
  BY Zenon  DEF ReceiveMessage, durable, context, tracker
<1>2. HasRelation(i) => Stream[i].relation \in received
  BY <1>1, Zenon DEF ReceiveMessage, PathInv, KnownInv
<1>3. phase' = "up"
  BY <1>1, <1>2, Zenon DEF ReceiveMessage
<1>4. Lsn(i) \in Nat /\ restart \in Nat
  BY <1>1, MessageTypes, ZenonT(60) DEF Lsn, PathInv, TypeOK
<1>5. HasRelation(i) => Kind(i) \notin {"commit", "endmark"}
  BY Zenon DEF HasRelation, RowKinds, ChunkKinds, Kind
<1>6. Skips("logical", Stream[i].lsn) <=> Lsn(i) < restart
  BY <1>4, Zenon DEF Skips, Lsn
<1>7. CASE Lsn(i) < restart
  <2>1. UNCHANGED <<tasks, failed>>
    BY <1>6, <1>7, Zenon DEF ReceiveMessage
  <2> QED BY <1>1, <1>3, <1>7, <2>1, Zenon
<1>8. CASE Lsn(i) >= restart
  <2>1. ~Skips("logical", Stream[i].lsn)
    BY <1>4, <1>6, <1>8, SMTT(30)
  <2>2. \/ tasks' = Append(tasks, NewTask("logical", i)) /\ UNCHANGED failed
        \/ HasRelation(i) /\ failed' = failed \cup {i} /\ UNCHANGED tasks
    BY <1>2, <2>1, Zenon DEF ReceiveMessage
  <2> QED BY <1>1, <1>3, <1>5, <1>8, <2>2, ZenonT(60)
<1> QED BY <1>4, <1>7, <1>8, SMTT(30)

(***************************************************************************)
(* What an iteration of the receive loop leaves waiting; whatever has been *)
(* taken off the queue before stays so.                                    *)
(***************************************************************************)
LEMMA ReceivedWait ==
  PathInv /\ ReceiveMessage =>
    /\ Paired(Waiting(tasks'), restart, cursor')
    /\ \A b \in Positions : Passed(b, Waiting(tasks), restart, cursor)
                              => Passed(b, Waiting(tasks'), restart, cursor')
  (***************************************************************************)
  (* What ends b does not start before it: a commit lies behind every Begin  *)
  (* sent earlier, and the changes of a transaction are sent in the order    *)
  (* they were written.                                                      *)
  (***************************************************************************)
<1>CloserBehind. ASSUME NEW b \in Positions, NEW k \in Positions, Closes(k, b)
                 PROVE  Lsn(b) <= Lsn(k)
  <2> USE <1>CloserBehind
  <2>1. /\ Stream[b].final \in Nat /\ Stream[k].final \in Nat /\ Lsn(b) \in Nat /\ Lsn(k) \in Nat
    BY MessageTypes, Zenon DEF Lsn
  <2>2. b < k
    BY Zenon  DEF Closes
  <2>3. CASE Kind(b) = "begin" /\ Kind(k) = "commit"
    <3>1. Lsn(b) <= Stream[b].final /\ Stream[b].final <= Stream[k].final /\ Stream[k].final <= Lsn(k)
      BY <2>2, <2>3, StreamAssumption, Zenon DEF Kind, Lsn
    <3> QED BY <2>1, <3>1, SMTT(30)
  <2>4. CASE Stream[k].final = Stream[b].final
    BY <2>2, <2>4, StreamAssumption, Zenon DEF Lsn
  <2> QED BY <2>3, <2>4, Zenon DEF Closes

  (***************************************************************************)
  (* Receiving a message, or skipping it because it starts before the        *)
  (* restart position, or failing to decode a row, keeps the pairing: what   *)
  (* ends b is only skipped together with b.                                 *)
  (***************************************************************************)
<1>PairedReceive. ASSUME NEW w \in SUBSET Positions, NEW from \in Nat, NEW i \in Positions, \A m \in w : m < i,
                         NEW v, \/ v = w \cup {i} /\ Lsn(i) >= from
                                \/ v = w /\ (Lsn(i) < from \/ Kind(i) \notin {"commit", "endmark"})
                  PROVE  /\ Paired(w, from, i) => Paired(v, from, i + 1)
                         /\ \A b \in Positions : Passed(b, w, from, i) => Passed(b, v, from, i + 1)
  <2> USE <1>PairedReceive
  <2>1. i \in Nat /\ \A k \in Positions : k \in Nat /\ (k < i + 1 => k = i \/ k < i)
    BY MessageTypes
  <2>2. ASSUME NEW b \in Positions, Lsn(b) >= from, ClosersWait(b, w, i)
        PROVE  ClosersWait(b, v, i + 1)
    <3> SUFFICES ASSUME NEW k \in Positions, Closes(k, b), k < i + 1
                 PROVE  k \in v
      BY Zenon DEF ClosersWait
    <3>1. CASE k < i
      BY <2>2, <3>1, Zenon DEF ClosersWait
    <3>2. CASE k = i
      <4>1. Lsn(b) <= Lsn(i) /\ Lsn(b) \in Nat /\ Lsn(i) \in Nat
        BY <3>2, <1>CloserBehind, MessageTypes, Zenon DEF Lsn
      <4>2. ~(Lsn(i) < from)
        BY <2>2, <4>1, SMTT(30)
      <4>3. Kind(i) \in {"commit", "endmark"}
        BY <3>2, Zenon DEF Closes
      <4> QED BY <3>2, <4>2, <4>3, Zenon
    <3> QED BY <2>1, <3>1, <3>2, Zenon
  <2>3. ClosersWait(i, v, i + 1)
    <3>1. \A k \in Positions : ~(i < k /\ k < i + 1)
      BY <2>1
    <3> QED BY <3>1, Zenon DEF ClosersWait, Closes
  <2>4. ASSUME Paired(w, from, i) PROVE Paired(v, from, i + 1)
    <3> SUFFICES ASSUME NEW m \in v PROVE Lsn(m) >= from /\ ClosersWait(m, v, i + 1)
      BY Zenon DEF Paired
    <3>1. CASE m \in w
      BY <2>2, <2>4, <3>1, Zenon DEF Paired
    <3>2. CASE m = i /\ Lsn(i) >= from
      BY <2>3, <3>2, Zenon
    <3> QED BY <3>1, <3>2, Zenon
  <2>5. ASSUME NEW b \in Positions, Passed(b, w, from, i) PROVE Passed(b, v, from, i + 1)
    <3>1. Lsn(b) >= from /\ b < i /\ (\A m \in w : b < m) /\ ClosersWait(b, w, i)
      BY <2>5, Zenon DEF Passed
    <3>2. b < i + 1
      BY <2>1, <3>1
    <3>3. \A m \in v : m \in w \/ m = i
      BY Zenon
    <3> QED BY <2>2, <3>1, <3>2, <3>3, Zenon DEF Passed
  <2> QED BY <2>4, <2>5, Zenon

<1> SUFFICES ASSUME PathInv, ReceiveMessage
             PROVE  /\ Paired(Waiting(tasks'), restart, cursor')
                    /\ \A b \in Positions : Passed(b, Waiting(tasks), restart, cursor)
                                              => Passed(b, Waiting(tasks'), restart, cursor')
  BY Zenon
<1> DEFINE i == cursor
           t == NewTask("logical", i)
           w == Waiting(tasks)
<1>1. /\ phase = "up" /\ i \in Positions /\ cursor' = i + 1
      /\ \/ Lsn(i) < restart /\ tasks' = tasks
         \/ Lsn(i) >= restart /\ tasks' = Append(tasks, t)
         \/ Kind(i) \notin {"commit", "endmark"} /\ tasks' = tasks
  BY ReceiveOutcome, ZenonT(60)
<1>2. /\ tasks \in Seq(Task) /\ restart \in Nat /\ Paired(w, restart, i)
      /\ Pipeline(tasks, Held, closing, i)
  BY <1>1, Zenon DEF PathInv, TypeOK, PairedInv, PipelineInv
<1>3. w \in SUBSET Positions /\ \A m \in w : m < i
  BY <1>2, WaitingPositions, Zenon DEF Waiting, Pipeline, Below
<1>4. t \in Task /\ t.op = "logical" /\ t.at = i
  BY <1>1, NewTaskType, Zenon DEF NewTask
<1>5. Waiting(Append(tasks, t)) = w \cup {i}
  BY <1>2, <1>4, WaitingAppend, Zenon
<1> DEFINE v == Waiting(tasks')
<1>6. \/ v = w \cup {i} /\ Lsn(i) >= restart
      \/ v = w /\ (Lsn(i) < restart \/ Kind(i) \notin {"commit", "endmark"})
  BY <1>1, <1>5, Zenon
<1> HIDE DEF v, w
<1>7. /\ Paired(v, restart, i + 1)
      /\ \A b \in Positions : Passed(b, w, restart, i) => Passed(b, v, restart, i + 1)
  BY <1>1, <1>2, <1>3, <1>6, <1>PairedReceive, ZenonT(60)
<1> QED BY <1>1, <1>7, Zenon DEF v, w

(***************************************************************************)
(* Receiving, skipping or failing to decode a message.                     *)
(***************************************************************************)
LEMMA ReceiveMessageShape == PathInv /\ ReceiveMessage => ShapeInv'
  (***************************************************************************)
  (* A newly received message may be appended to the task queue.             *)
  (***************************************************************************)
<1>OrderMessage. ASSUME NEW q \in Seq(Task), NEW h \in Seq(Positions), NEW c, Ordered(q, h, c),
                        NEW i \in Positions, Below(q, h, c, i)
                 PROVE  Ordered(Append(q, NewTask("logical", i)), h, c)
  <2> USE <1>OrderMessage
  <2> DEFINE t == NewTask("logical", i)
             r == Append(q, t)
  <2>1. t \in Task /\ t.op = "logical" /\ t.at = i
    BY NewTaskType, ZenonT(60) DEF NewTask
  <2> HIDE DEF t
  <2>2. /\ \A n \in Events(r) : n \in Events(q) /\ r[n] = q[n]
        /\ \A n \in Messages(r) : \/ n \in Messages(q) /\ r[n] = q[n]
                                  \/ n = Len(q) + 1 /\ r[n].at = i
        /\ \A n \in Messages(q) : n \in Nat /\ n <= Len(q) /\ Len(q) \in Nat
    BY <2>1, AppendElements, SMTT(30) DEF Messages, Events
  <2> HIDE DEF r
  <2>3. \A m, n \in Messages(r) : m < n => r[m].at < r[n].at
    BY <2>2, SMTT(30) DEF Ordered, Below
  <2>4. Ordered(r, h, c)
    BY <2>2, <2>3, SMTT(30) DEF Ordered, Below
  <2> QED BY <2>4, Zenon DEF r, t

  (***************************************************************************)
  (* Receiving a message, or skipping it, keeps the pipeline.                *)
  (***************************************************************************)
<1>PipelineMessage. ASSUME NEW q \in Seq(Task), NEW h \in Seq(Positions), NEW c \in {0} \cup Positions,
                           NEW i \in Positions, Pipeline(q, h, c, i)
                    PROVE  /\ Pipeline(Append(q, NewTask("logical", i)), h, c, i + 1)
                           /\ Pipeline(q, h, c, i + 1)
  <2> USE <1>PipelineMessage
  <2> DEFINE t == NewTask("logical", i)
             r == Append(q, t)
  <2>1. t \in Task /\ t.op = "logical" /\ t.at = i
    BY NewTaskType, Zenon DEF NewTask
  <2>2. /\ i \in Nat /\ c \in Nat
        /\ \A n \in DOMAIN h : h[n] \in Nat
        /\ \A n \in Messages(q) \cup Events(q) : q[n].at \in Nat
    <3>1. i \in Nat /\ c \in Nat
      BY MessageTypes
    <3>2. \A n \in DOMAIN h : h[n] \in Nat
      BY MessageTypes, WindowElements, Zenon
    <3>3. \A n \in DOMAIN q : q[n].at \in Nat
      BY MessageTypes, QueueElements, Zenon
    <3>4. Messages(q) \cup Events(q) \subseteq DOMAIN q
      BY Zenon DEF Messages, Events
    <3> QED BY <3>1, <3>2, <3>3, <3>4, Zenon
  <2>3. Ordered(r, h, c)
    BY <1>OrderMessage, Zenon DEF Pipeline
  <2> HIDE DEF t
  <2>4. /\ \A n \in Messages(r) : (n \in Messages(q) /\ r[n] = q[n]) \/ r[n].at = i
        /\ \A n \in Events(r) : n \in Events(q) /\ r[n] = q[n]
    BY <2>1, AppendElements DEF Messages, Events
  <2> HIDE DEF r
  <2>5. Below(q, h, c, i + 1) /\ Below(r, h, c, i + 1)
    <3>1. Below(q, h, c, i + 1)
      BY <2>2, SMTT(30) DEF Pipeline, Below
    <3>2. \A n \in Messages(r) \cup Events(r) :
            (n \in Messages(q) \cup Events(q) /\ r[n] = q[n]) \/ r[n].at = i
      BY <2>4, Zenon
    <3>3. \A n \in Messages(r) \cup Events(r) : r[n].at < i + 1
      BY <2>2, <3>1, <3>2, SMTT(30) DEF Below
    <3> QED BY <3>1, <3>3, Zenon DEF Below
  <2>6. KindsFit(r, h, c)
    BY <2>4, Zenon DEF Pipeline, KindsFit
  <2>7. Pipeline(r, h, c, i + 1) /\ Pipeline(q, h, c, i + 1)
    BY <2>3, <2>5, <2>6, Zenon DEF Pipeline
  <2> QED BY <2>7, Zenon DEF r, t

<1> SUFFICES ASSUME PathInv, ReceiveMessage PROVE ShapeInv'
  BY Zenon
<1> DEFINE i == cursor
           t == NewTask("logical", i)
<1>1. /\ phase = "up" /\ phase' = "up" /\ i \in Positions /\ cursor' = i + 1
      /\ UNCHANGED <<restart, active, finalLSN, spilled, held, draining, closing>>
      /\ tasks' = tasks \/ tasks' = Append(tasks, t)
  BY ReceiveOutcome, ZenonT(60)
<1>2. /\ Held' = Held /\ Held \in Seq(Positions) /\ tasks \in Seq(Task)
      /\ closing \in {0} \cup Positions /\ Pipeline(tasks, Held, closing, i)
  BY <1>1, HeldType, Zenon DEF Held, PathInv, TypeOK, PipelineInv
<1>3. PipelineInv'
  <2>1. /\ Pipeline(Append(tasks, t), Held, closing, i + 1)
        /\ Pipeline(tasks, Held, closing, i + 1)
    BY <1>1, <1>2, <1>PipelineMessage, Zenon
  <2> QED BY <1>1, <1>2, <2>1, Zenon DEF PipelineInv
<1>4. PairedInv'
  BY <1>1, ReceivedWait, Zenon DEF PairedInv
<1>5. OpenInv'
  <2> SUFFICES ASSUME active
               PROVE  \E b \in Positions :
                        /\ Kind(b) = "begin" /\ Stream[b].final = finalLSN
                        /\ Passed(b, Waiting(tasks'), restart, cursor')
                        /\ \A n \in DOMAIN held : b < held[n]
                        /\ Collects => \A n \in Events(tasks') : tasks'[n].at < b
    BY <1>1, Zenon DEF OpenInv, Collects
  <2>1. PICK b \in Positions :
          /\ Kind(b) = "begin" /\ Stream[b].final = finalLSN
          /\ Passed(b, Waiting(tasks), restart, cursor)
          /\ \A n \in DOMAIN held : b < held[n]
          /\ Collects => \A n \in Events(tasks) : tasks[n].at < b
    BY <1>1, Zenon DEF PathInv, OpenInv
  <2>2. Passed(b, Waiting(tasks'), restart, cursor')
    BY <2>1, ReceivedWait, Zenon
  <2>3. \A n \in Events(tasks') : n \in Events(tasks) /\ tasks'[n] = tasks[n]
    <3>1. t \in Task /\ t.op = "logical"
      BY <1>1, NewTaskType, ZenonT(60) DEF NewTask
    <3>2. \A n \in Events(Append(tasks, t)) : n \in Events(tasks) /\ Append(tasks, t)[n] = tasks[n]
      BY <1>2, <3>1, AppendElements, SMTT(30) DEF Events
    <3> QED BY <1>1, <3>2, Zenon
  <2> QED BY <2>1, <2>2, <2>3, Zenon
<1>6. WindowState'
  BY <1>1, Zenon DEF PathInv, WindowState
<1> QED BY <1>3, <1>4, <1>5, <1>6, Zenon DEF ShapeInv

(***************************************************************************)
(* A start finds every queue empty.                                        *)
(***************************************************************************)
LEMMA StartShape ==
  ASSUME PathInv, TypeOK', StartReplication
  PROVE  ShapeInv'
<1>1. /\ phase' = "up" /\ tasks' = <<>> /\ active' = FALSE /\ held' = <<>>
      /\ draining' = FALSE /\ closing' = 0 /\ cursor' \in Nat \ {0}
  BY DEF StartReplication, TypeOK
<1>2. Held' = <<>>
  BY <1>1, Zenon DEF Held
<1>3. DOMAIN <<>> = {}
  BY EmptySeq, LenProperties
<1>4. Messages(<<>>) = {} /\ Events(<<>>) = {} /\ Waiting(<<>>) = {}
  BY <1>3, Zenon DEF Messages, Events, Waiting
<1>5. PipelineInv'
  <2>1. Ordered(<<>>, <<>>, 0)
    BY <1>3, <1>4, Zenon DEF Ordered
  <2>2. Below(<<>>, <<>>, 0, cursor')
    BY <1>1, <1>3, <1>4 DEF Below
  <2>3. KindsFit(<<>>, <<>>, 0)
    BY <1>3, <1>4, Zenon DEF KindsFit
  <2> QED BY <1>1, <1>2, <2>1, <2>2, <2>3, Zenon DEF PipelineInv, Pipeline
<1>6. PairedInv' /\ OpenInv' /\ WindowState'
  BY <1>1, <1>4, Zenon DEF PairedInv, Paired, OpenInv, WindowState
<1> QED BY <1>5, <1>6, Zenon DEF ShapeInv

===============================================================================
