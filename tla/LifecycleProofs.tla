---------------------------- MODULE LifecycleProofs ----------------------------
(***************************************************************************)
(* A stop of a running streamer leaves nothing behind that it has made and *)
(* may drop, and a running streamer has all tables it was told of in its   *)
(* publication, for any tables, configurations and number of starts.       *)
(***************************************************************************)
EXTENDS Lifecycle, SequenceTheorems, TLAPS

TaskNames == {"stats", "dispatcher", "emitter", "snapshotter", "known", "context", "channel"}

(* No shutdown task stands for a stop that is not under way. *)
NoneApart == None \notin TaskNames

Dropped ==
  /\ ~("slot" \in created /\ config.slotAutoDrop /\ slot)
  /\ ~("publication" \in created /\ config.publicationAutoDrop /\ publication # <<None>>)

(* A streamer that runs has the task of the replication channel; a full    *)
(* stop still has that task to run, or has dropped what it may.            *)
StopInv ==
  /\ tasks \in Seq(TaskNames)
  /\ main = "run" => "channel" \in Range(tasks)
  /\ stopped = "full" =>
       /\ main \in {"run", "down"}
       /\ stopping = <<None>> => Dropped
       /\ stopping # <<None>> => stopping \in Seq(TaskNames) /\ ("channel" \in Range(stopping) \/ Dropped)

(***************************************************************************)
(* A start that takes its last step has the replication channel's task.    *)
(***************************************************************************)
LEMMA StepsAre ==
  /\ "run" \notin Range(Steps) /\ "down" \notin Range(Steps)
  /\ Range(Steps) = {"container", "stats", "dispatcher", "context", "emitter", "snapshotter", "known", "collect",
                     "publication", "slot", "attach", "replicate"}
  /\ \A s \in Range(Steps) : NextStep(s) = "run" => s = "replicate"
<1>1. Len(Steps) = 12 /\ DOMAIN Steps = 1..12
  BY DEF Steps
<1>2. \A i \in 1..12 : i = 1 \/ i = 2 \/ i = 3 \/ i = 4 \/ i = 5 \/ i = 6 \/ i = 7 \/ i = 8 \/ i = 9 \/ i = 10 \/ i = 11 \/ i = 12
  OBVIOUS
<1>3. Range(Steps) = {"container", "stats", "dispatcher", "context", "emitter", "snapshotter", "known", "collect",
                      "publication", "slot", "attach", "replicate"}
  BY <1>1, <1>2 DEF Range, Steps
<1>4. ASSUME NEW s \in Range(Steps), NextStep(s) = "run" PROVE s = "replicate"
  <2> DEFINE i == CHOOSE i \in DOMAIN Steps : Steps[i] = s
  <2>1. i \in DOMAIN Steps /\ Steps[i] = s
    BY Zenon DEF Range
  <2>2. i # 12 => Steps[i + 1] # "run"
    <3> SUFFICES ASSUME i # 12 PROVE Steps[i + 1] # "run"
      BY Zenon
    <3>1. i + 1 \in DOMAIN Steps
      BY <1>1, <2>1
    <3> QED
      BY <1>3, <3>1, Zenon DEF Range
  <2>3. i = 12
    BY <1>1, <1>4, <2>2, Zenon DEF NextStep
  <2> QED
    BY <2>1, <2>3 DEF Steps
<1> QED
  BY <1>3, <1>4, Zenon

(***************************************************************************)
(* Running the last task takes only that one off the list.                 *)
(***************************************************************************)
LEMMA LastRemoved ==
  ASSUME NEW s \in Seq(TaskNames), s # <<>>
  PROVE  /\ SubSeq(s, 1, Len(s) - 1) \in Seq(TaskNames)
         /\ s[Len(s)] \in TaskNames
         /\ \A x \in Range(s) : x = s[Len(s)] \/ x \in Range(SubSeq(s, 1, Len(s) - 1))
<1> DEFINE n == Len(s)
           front == SubSeq(s, 1, n - 1)
<1>1. n \in Nat /\ n # 0 /\ DOMAIN s = 1..n
  BY LenProperties, EmptySeq, Zenon
<1>2. front \in Seq(TaskNames) /\ Len(front) = n - 1 /\ \A i \in 1..(n - 1) : front[i] = s[i]
  BY <1>1, SubSeqProperties
<1>4. SubSeq(s, 1, Len(s) - 1) = front
  BY Zenon
<1>5. ASSUME NEW i \in DOMAIN s, i # n PROVE s[i] \in Range(front)
  <2>1. i \in 1..(n - 1) /\ DOMAIN front = 1..(n - 1)
    BY <1>1, <1>2, <1>5, LenProperties
  <2> QED
    BY <1>2, <2>1, Zenon DEF Range
<1>6. s[n] \in TaskNames
  BY <1>1, ElementOfSeq
<1> QED
  BY <1>2, <1>4, <1>5, <1>6, Zenon DEF Range

(***************************************************************************)
(* A list of tasks does not stand for a stop that is not under way.        *)
(***************************************************************************)
LEMMA NotNone ==
  ASSUME NoneApart, NEW s \in Seq(TaskNames)
  PROVE  s # <<None>>
<1>1. <<None>>[1] = None /\ 1 \in 1..Len(<<None>>)
  OBVIOUS
<1>2. \A i \in 1..Len(s) : s[i] \in TaskNames
  BY ElementOfSeq, Zenon
<1> QED
  BY <1>1, <1>2, Zenon DEF NoneApart

-----------------------------------------------------------------------------
(***************************************************************************)
(* A step of the start but the last: no full stop has been asked for.      *)
(***************************************************************************)
LEMMA StartKeeps ==
  ASSUME StopInv, NEW step \in Range(Steps) \ {"replicate"}, At(step), UNCHANGED <<stopping, stopped>>,
         tasks' = tasks \/ \E x \in TaskNames : tasks' = Append(tasks, x)
  PROVE  StopInv'
<1>1. stopped # "full" /\ main' # "run"
  BY StepsAre, Zenon DEF StopInv, At
<1>2. tasks' \in Seq(TaskNames)
  BY AppendProperties DEF StopInv
<1> QED
  BY <1>1, <1>2, Zenon DEF StopInv

(***************************************************************************)
(* Steps that leave alone what the invariant is about.                     *)
(***************************************************************************)
LEMMA StopRests ==
  ASSUME StopInv, UNCHANGED <<config, slot, main, tasks, stopping, created, stopped>>,
         stopped = "full" => publication' = publication
  PROVE  StopInv'
<1>1. stopped = "full" => Dropped' = Dropped
  BY Zenon DEF Dropped
<1> QED
  BY <1>1, Zenon DEF StopInv

(***************************************************************************)
(* The last step of the start, a step that fails, a signal, the end and    *)
(* another start.                                                          *)
(***************************************************************************)
LEMMA MainKeeps ==
  ASSUME NoneApart, StopInv,
         StartReplicationChannel \/ StartFails \/ Signal \/ Exit \/ Crash \/ StartAgain
  PROVE  StopInv'
<1>1. CASE StartReplicationChannel
  <2>1. stopped' # "full" /\ tasks' = Append(tasks, "channel")
    BY <1>1, StepsAre, Zenon DEF StartReplicationChannel, At, Registers, StopInv
  <2>2. tasks' \in Seq(TaskNames) /\ Len(tasks) + 1 \in DOMAIN tasks' /\ tasks'[Len(tasks) + 1] = "channel"
    <3>1. "channel" \in TaskNames /\ tasks \in Seq(TaskNames) /\ Len(tasks) \in Nat
      BY LenProperties, Zenon DEF TaskNames, StopInv
    <3>2. tasks' \in Seq(TaskNames) /\ Len(tasks') = Len(tasks) + 1 /\ tasks'[Len(tasks) + 1] = "channel"
      BY <2>1, <3>1, AppendProperties, ZenonT(60)
    <3>3. DOMAIN tasks' = 1..(Len(tasks) + 1)
      BY <3>2, LenProperties, Zenon
    <3> QED
      BY <3>1, <3>2, <3>3
  <2> QED
    BY <2>1, <2>2, Zenon DEF StopInv, Range
<1>2. CASE StartFails
  BY <1>2, StepsAre, Zenon DEF StartFails, StopInv
<1>3. CASE Signal
  <2>1. stopping' = tasks /\ UNCHANGED <<main, tasks>> /\ (stopped' = "full" => main = "run")
    BY <1>3, StepsAre, Zenon DEF Signal
  <2>2. tasks # <<None>>
    BY NotNone, Zenon DEF StopInv
  <2> QED
    BY <2>1, <2>2, Zenon DEF StopInv
<1>4. CASE Exit \/ Crash
  <2>1. Dropped' = Dropped /\ main' = "down" /\ UNCHANGED <<tasks, stopping, stopped>>
    BY <1>4 DEF Exit, Crash, database, Dropped
  <2> QED
    BY <2>1, Zenon DEF StopInv
<1>5. CASE StartAgain
  <2>1. <<>> \in Seq(TaskNames)
    OBVIOUS
  <2> QED
    BY <1>5, <2>1, Zenon DEF StartAgain, StopInv
<1> QED
  BY <1>1, <1>2, <1>3, <1>4, <1>5, Zenon

(***************************************************************************)
(* A task of a stop: that of the channel drops what may be dropped.        *)
(***************************************************************************)
LEMMA TaskRunKeeps ==
  ASSUME NoneApart, StopInv, RunTask
  PROVE  StopInv'
<1> DEFINE task == stopping[Len(stopping)]
<1>1. /\ stopping # <<None>> /\ stopping # <<>> /\ stopping' = SubSeq(stopping, 1, Len(stopping) - 1)
      /\ IF task = "channel" THEN DropCreated ELSE UNCHANGED <<slot, publication, created>>
      /\ UNCHANGED <<config, main, tasks, stopped>>
  BY Zenon DEF RunTask
<1>2. CASE stopped # "full"
  BY <1>1, <1>2, Zenon DEF StopInv
<1>3. CASE stopped = "full"
  <2>1. stopping \in Seq(TaskNames) /\ ("channel" \in Range(stopping) \/ Dropped) /\ main \in {"run", "down"}
    BY <1>1, <1>3, Zenon DEF StopInv
  <2>2. /\ stopping' \in Seq(TaskNames)
        /\ "channel" \in Range(stopping) => task = "channel" \/ "channel" \in Range(stopping')
    BY <1>1, <2>1, LastRemoved, Zenon
  <2>3. task = "channel" => Dropped'
    <3> SUFFICES ASSUME task = "channel" PROVE Dropped'
      BY Zenon
    <3>1. PICK dropped \in SUBSET Droppable :
            /\ created' = created \ (Droppable \ dropped) /\ slot' = (slot /\ "slot" \notin dropped)
            /\ publication' = IF "publication" \in dropped THEN <<None>> ELSE publication
      BY <1>1, Zenon DEF DropCreated
    <3>2. "slot" \in created' /\ config.slotAutoDrop => "slot" \in dropped
      BY <3>1, Zenon DEF Droppable
    <3>3. "publication" \in created' /\ config.publicationAutoDrop => "publication" \in dropped
      BY <3>1 DEF Droppable
    <3> QED
      BY <1>1, <3>1, <3>2, <3>3, Zenon DEF Dropped
  <2>4. task # "channel" => Dropped' = Dropped
    BY <1>1, Zenon DEF Dropped
  <2> HIDE DEF task
  <2>5. "channel" \in Range(stopping') \/ Dropped'
    BY <2>1, <2>2, <2>3, <2>4, Zenon
  <2> QED
    BY <1>1, <2>1, <2>2, <2>5, NotNone, Zenon DEF StopInv
<1> QED
  BY <1>2, <1>3, Zenon

(***************************************************************************)
(* A stop that goes on, and one that returns.                              *)
(***************************************************************************)
LEMMA RunKeeps ==
  ASSUME NoneApart, StopInv, RunTask \/ StopReturns
  PROVE  StopInv'
<1>1. CASE StopReturns
  <2>1. UNCHANGED <<config, slot, publication, tasks, created, stopped>> /\ stopping = <<>> /\ stopping' = <<None>>
        /\ (stopped = "full" \/ main = "run" => main' = main) /\ (main' = "run" => main = "run")
    BY <1>1, Zenon DEF StopReturns, database, StopInv
  <2>2. Dropped' = Dropped /\ Range(<<>>) = {}
    BY <2>1 DEF Dropped, Range
  <2>3. <<>> # <<None>>
    BY Zenon
  <2> QED
    BY <2>1, <2>2, <2>3, Zenon DEF StopInv
<1>2. CASE RunTask
  BY <1>2, TaskRunKeeps, Zenon
<1> QED
  BY <1>1, <1>2, Zenon

(***************************************************************************)
(* A stop that was asked for after the start had succeeded leaves neither  *)
(* the slot nor the publication behind if this process made it and may     *)
(* drop it, unless the drop itself fails.                                  *)
(***************************************************************************)
THEOREM StopDrops ==
  ASSUME NoneApart
  PROVE  Spec => []CreatedIsDropped
<1>1. Init => StopInv
  <2>1. <<>> \in Seq(TaskNames)
    OBVIOUS
  <2> QED
    BY <2>1, Zenon DEF Init, StopInv
<1>2. StopInv /\ [Next]_vars => StopInv'
  <2> SUFFICES ASSUME StopInv, [Next]_vars PROVE StopInv'
    BY Zenon
  <2>1. {"container", "stats", "dispatcher", "context", "emitter", "snapshotter", "known", "collect",
         "publication", "slot", "attach"} \subseteq Range(Steps) \ {"replicate"}
    BY StepsAre, Zenon
  <2>2. {"stats", "dispatcher", "emitter", "snapshotter", "known", "context"} \subseteq TaskNames
    BY Zenon DEF TaskNames
  <2>3. CASE UNCHANGED vars \/ CreateChunk \/ CreateTable \/ AutoStore
    BY <2>3, StopRests, Zenon DEF vars, database, process, CreateChunk, CreateTable, AutoStore
  <2>4. CASE OnChunkAddedEvent \/ SnapshotChunk
    BY <2>4, StopRests, Zenon DEF OnChunkAddedEvent, SnapshotChunk, Replicating
  <2>5. CASE ReadCatalog \/ CollectTables \/ CreatePublication \/ CreateReplicationSlot \/ AttachInitialTables
    BY <2>1, <2>5, StartKeeps, Zenon
       DEF ReadCatalog, CollectTables, CreatePublication, CreateReplicationSlot, AttachInitialTables
  <2>6. CASE StartService \/ StartReplicationContext
    BY <2>1, <2>2, <2>6, StartKeeps, Zenon DEF StartService, StartReplicationContext, Registers
  <2> QED
    BY <2>3, <2>4, <2>5, <2>6, MainKeeps, RunKeeps, Zenon DEF Next
<1>3. StopInv => CreatedIsDropped
  BY Zenon DEF StopInv, CreatedIsDropped, Dropped
<1> QED
  BY <1>1, <1>2, <1>3, PTL DEF Spec

-----------------------------------------------------------------------------
(* The tables of the publication.                                          *)

All == Chunks \cup Tables
Lists == {<<S>> : S \in SUBSET All}

(* A list of tables does not stand for one that is not there. *)
ListsApart == None \notin SUBSET All

(* The shutdown tasks, in the order in which they are added. *)
Services == <<"stats", "dispatcher", "context", "emitter", "snapshotter", "known", "channel">>
FirstServices(s) == s \in Seq(TaskNames) /\ Len(s) <= 7 /\ \A i \in 1..Len(s) : s[i] = Services[i]

(* How many of them there are at a step of the start. *)
ServicesOK ==
  /\ FirstServices(tasks)
  /\ main \in {"container", "stats"} => Len(tasks) = 0
  /\ main = "dispatcher" => Len(tasks) = 1
  /\ main = "context" => Len(tasks) = 2
  /\ main = "emitter" => Len(tasks) = 3
  /\ main = "snapshotter" => Len(tasks) = 4
  /\ main = "known" => Len(tasks) = 5
  /\ main \in {"collect", "publication", "slot", "attach", "replicate"} => Len(tasks) = 6
  /\ main = "run" => Len(tasks) = 7
  /\ main = "failed" => Len(tasks) <= 6
  /\ main \in Range(Steps) \cup {"run", "failed", "down"}

(* A stop runs tasks that were added; only a full one runs all of them. *)
StoppingOK ==
  /\ stopping # <<None>> => FirstServices(stopping) /\ Len(stopping) <= Len(tasks)
  /\ stopping # <<None>> /\ stopped # "full" => Len(stopping) <= 6
  /\ stopped \in {"no", "early", "full"}
  /\ stopped = "full" => main \in {"run", "down"}
  /\ stopped = "no" /\ main \notin {"failed", "down"} => stopping = <<None>>

ListsOK ==
  /\ existing \subseteq All /\ catalog \subseteq existing /\ initial \subseteq All /\ snapshotting \subseteq All
  /\ pending \in Seq(All) /\ Range(pending) \subseteq existing
  /\ publication \in Lists \cup {<<None>>} /\ file \in Lists \cup {<<None>>} /\ known \in Lists \cup {<<None>>}
  /\ ~config.file => file = <<None>>
  /\ ~slot => pending = <<>>
  /\ main \notin {"run", "down"} => snapshotting = {}

(* The list in memory is the one in the file, or that of a stop. *)
KnownOK ==
  /\ Len(tasks) >= 3 => known = file \/ (known = <<catalog>> /\ (stopped # "no" \/ main \in {"failed", "down"}))
  /\ stopped = "full" =>
       /\ stopping = <<None>> \/ Len(stopping) < 6 => known = <<catalog>>
       /\ (stopping = <<None>> \/ Len(stopping) < 3) /\ config.file => file = <<catalog>>

Told == missed \cup Range(pending)

(* A process that has read the catalog is told of what is not in it, or    *)
(* has missed it.                                                          *)
ToldOK ==
  main \notin {"container", "failed", "down"} \/ Len(tasks) > 0 => existing \ catalog \subseteq Told

(* The publication is gone, and the list in the file is old. *)
Lost ==
  /\ main \in {"run", "down"} /\ publication = <<None>> /\ file # <<None>>
  /\ ~(stopped = "full" /\ stopping = <<None>>)

(* What the next start finds. *)
FoundOK ==
  \/ file = <<None>> \/ Lost
  \/ existing \subseteq Published \cup Told \cup snapshotting \cup file[1]

(* What this start is about to publish, and has published. *)
StartOK ==
  /\ main \in {"slot", "attach", "replicate"} \/ (main = "run" /\ stopped = "no") => publication # <<None>>
  /\ main \in {"publication", "slot", "attach"} /\ stopped = "no" =>
       /\ catalog \subseteq Published \cup initial \cup Told
       /\ known = <<None>> => catalog \subseteq Published \cup initial
  /\ main \in {"replicate", "run"} /\ stopped = "no" =>
       /\ existing \subseteq Published \cup Told \cup snapshotting
       /\ known = <<None>> => catalog \subseteq Published \cup snapshotting

PublishInv == ServicesOK /\ StoppingOK /\ ListsOK /\ KnownOK /\ ToldOK /\ FoundOK /\ StartOK

(***************************************************************************)
(* The steps follow each other.                                            *)
(***************************************************************************)
LEMMA StepAfter ==
  /\ NextStep("container") = "stats" /\ NextStep("stats") = "dispatcher" /\ NextStep("dispatcher") = "context"
  /\ NextStep("context") = "emitter" /\ NextStep("emitter") = "snapshotter" /\ NextStep("snapshotter") = "known"
  /\ NextStep("known") = "collect" /\ NextStep("collect") = "publication" /\ NextStep("publication") = "slot"
  /\ NextStep("slot") = "attach" /\ NextStep("attach") = "replicate" /\ NextStep("replicate") = "run"
<1>1. Len(Steps) = 12 /\ DOMAIN Steps = 1..12
  BY DEF Steps
<1>2. ASSUME NEW i \in 1..12 PROVE NextStep(Steps[i]) = IF i = 12 THEN "run" ELSE Steps[i + 1]
  <2>1. PICK k : k = CHOOSE j \in DOMAIN Steps : Steps[j] = Steps[i]
    BY Zenon
  <2>2. k \in 1..12 /\ Steps[k] = Steps[i]
    BY <1>1, <2>1, Zenon
  <2>3. \A a, b \in 1..12 : Steps[a] = Steps[b] => a = b
    <3>1. \A a \in 1..12 : a = 1 \/ a = 2 \/ a = 3 \/ a = 4 \/ a = 5 \/ a = 6 \/ a = 7 \/ a = 8 \/ a = 9 \/ a = 10 \/ a = 11 \/ a = 12
      OBVIOUS
    <3>2. /\ Steps[1] = "container" /\ Steps[2] = "stats" /\ Steps[3] = "dispatcher" /\ Steps[4] = "context"
          /\ Steps[5] = "emitter" /\ Steps[6] = "snapshotter" /\ Steps[7] = "known" /\ Steps[8] = "collect"
          /\ Steps[9] = "publication" /\ Steps[10] = "slot" /\ Steps[11] = "attach" /\ Steps[12] = "replicate"
      BY Zenon DEF Steps
    <3> QED
      BY <3>1, <3>2
  <2>4. k = i
    BY <2>2, <2>3, Zenon
  <2> QED
    BY <1>1, <2>1, <2>4, Zenon DEF NextStep
<1> QED
  BY <1>2 DEF Steps

(***************************************************************************)
(* The tasks by their number.                                              *)
(***************************************************************************)
LEMMA ServiceNames ==
  /\ Services[1] = "stats" /\ Services[2] = "dispatcher" /\ Services[3] = "context" /\ Services[4] = "emitter"
  /\ Services[5] = "snapshotter" /\ Services[6] = "known" /\ Services[7] = "channel"
BY Zenon DEF Services

(***************************************************************************)
(* A task is added.                                                        *)
(***************************************************************************)
LEMMA ServiceAdded ==
  ASSUME NEW s, FirstServices(s), NEW n, n = Len(s), n < 7, NEW x, x = Services[n + 1]
  PROVE  FirstServices(Append(s, x)) /\ Len(Append(s, x)) = n + 1
<1>1. s \in Seq(TaskNames) /\ n \in Nat /\ \A i \in 1..n : s[i] = Services[i]
  BY DEF FirstServices
<1>2. x \in TaskNames
  <2>1. \A m \in Nat : m < 7 => m = 0 \/ m = 1 \/ m = 2 \/ m = 3 \/ m = 4 \/ m = 5 \/ m = 6
    OBVIOUS
  <2>2. n = 0 \/ n = 1 \/ n = 2 \/ n = 3 \/ n = 4 \/ n = 5 \/ n = 6
    BY <1>1, <2>1, Zenon
  <2> QED
    BY <2>2, ServiceNames, SMTT(30) DEF TaskNames
<1>3. /\ Append(s, x) \in Seq(TaskNames) /\ Len(Append(s, x)) = n + 1
      /\ \A i \in 1..n : Append(s, x)[i] = s[i]
      /\ Append(s, x)[n + 1] = x
  BY <1>1, <1>2, AppendProperties
<1>4. \A i \in 1..(n + 1) : i \in 1..n \/ i = n + 1
  BY <1>1
<1>5. \A i \in 1..(n + 1) : Append(s, x)[i] = Services[i]
  BY <1>1, <1>3, <1>4, Zenon
<1>6. n + 1 <= 7
  BY <1>1
<1> QED
  BY <1>3, <1>5, <1>6, Zenon DEF FirstServices

(***************************************************************************)
(* The last task is taken off.                                             *)
(***************************************************************************)
LEMMA ServiceRun ==
  ASSUME NEW s, FirstServices(s), s # <<>>
  PROVE  /\ FirstServices(SubSeq(s, 1, Len(s) - 1)) /\ Len(SubSeq(s, 1, Len(s) - 1)) = Len(s) - 1 /\ Len(s) \in 1..7
         /\ (s[Len(s)] = "channel" <=> Len(s) = 7)
         /\ (s[Len(s)] = "known" <=> Len(s) = 6)
         /\ (s[Len(s)] = "context" <=> Len(s) = 3)
<1> PICK n : n = Len(s)
  BY Zenon
<1> PICK r : r = SubSeq(s, 1, n - 1)
  BY Zenon
<1> DEFINE front == SubSeq(s, 1, n - 1)
<1>1. s \in Seq(TaskNames) /\ n \in Nat /\ n # 0 /\ n <= 7 /\ \A i \in 1..n : s[i] = Services[i]
  BY EmptySeq, LenProperties, Zenon DEF FirstServices
<1>2. front \in Seq(TaskNames) /\ Len(front) = n - 1 /\ \A i \in 1..(n - 1) : front[i] = s[i]
  BY <1>1, SubSeqProperties
<1>4. r = front
  BY Zenon
<1>5. n \in 1..7 /\ s[n] = Services[n]
  <2>1. \A m \in Nat : m # 0 /\ m <= 7 => m \in 1..7 /\ m \in 1..m
    OBVIOUS
  <2> QED
    BY <1>1, <2>1, Zenon
<1>6. \A i \in 1..(n - 1) : i \in 1..n
  BY <1>1
<1>7. FirstServices(r) /\ Len(r) = n - 1
  <2>1. n - 1 <= 7
    BY <1>1
  <2> QED
    BY <1>1, <1>2, <1>4, <1>6, <2>1, Zenon DEF FirstServices
<1>8. /\ (Services[n] = "channel" <=> n = 7)
      /\ (Services[n] = "known" <=> n = 6)
      /\ (Services[n] = "context" <=> n = 3)
  <2>1. \A m \in 1..7 : m = 1 \/ m = 2 \/ m = 3 \/ m = 4 \/ m = 5 \/ m = 6 \/ m = 7
    OBVIOUS
  <2>2. n = 1 \/ n = 2 \/ n = 3 \/ n = 4 \/ n = 5 \/ n = 6 \/ n = 7
    BY <1>5, <2>1, Zenon
  <2> QED
    BY <2>2, ServiceNames, Zenon
<1> QED
  BY <1>5, <1>7, <1>8, Zenon

(***************************************************************************)
(* A stop runs a task.                                                     *)
(***************************************************************************)
LEMMA TaskRun ==
  ASSUME StoppingOK, RunTask
  PROVE  /\ FirstServices(stopping) /\ Len(stopping) \in 1..7 /\ Len(stopping) <= Len(tasks)
         /\ FirstServices(stopping') /\ Len(stopping') = Len(stopping) - 1
         /\ (stopping[Len(stopping)] = "channel" <=> Len(stopping) = 7)
         /\ (stopping[Len(stopping)] = "known" <=> Len(stopping) = 6)
         /\ (stopping[Len(stopping)] = "context" <=> Len(stopping) = 3)
         /\ (Len(stopping) = 7 => stopped = "full")
<1>1. stopping # <<None>> /\ stopping # <<>> /\ stopping' = SubSeq(stopping, 1, Len(stopping) - 1)
  BY Zenon DEF RunTask
<1>2. FirstServices(stopping) /\ Len(stopping) <= Len(tasks)
  BY <1>1, Zenon DEF StoppingOK
<1>3. stopped # "full" => Len(stopping) <= 6
  BY <1>1, Zenon DEF StoppingOK
<1>4. /\ Len(stopping) \in 1..7 /\ FirstServices(stopping') /\ Len(stopping') = Len(stopping) - 1
      /\ (stopping[Len(stopping)] = "channel" <=> Len(stopping) = 7)
      /\ (stopping[Len(stopping)] = "known" <=> Len(stopping) = 6)
      /\ (stopping[Len(stopping)] = "context" <=> Len(stopping) = 3)
  BY <1>1, <1>2, ServiceRun, Zenon
<1>5. Len(stopping) = 7 => stopped = "full"
  <2>1. ~(7 <= 6)
    OBVIOUS
  <2> QED
    BY <1>3, <2>1, Zenon
<1> QED
  BY <1>2, <1>4, <1>5, Zenon

(***************************************************************************)
(* Tasks that have one of the storage have three.                          *)
(***************************************************************************)
LEMMA ServiceThere ==
  ASSUME NEW s, FirstServices(s), "context" \in Range(s)
  PROVE  Len(s) \in Nat /\ Len(s) >= 3
<1>1. s \in Seq(TaskNames) /\ Len(s) \in Nat /\ Len(s) <= 7 /\ DOMAIN s = 1..Len(s) /\ \A i \in 1..Len(s) : s[i] = Services[i]
  BY LenProperties, Zenon DEF FirstServices
<1>2. PICK i \in 1..Len(s) : s[i] = "context"
  BY <1>1, Zenon DEF Range
<1>3. i = 1 \/ i = 2 \/ i >= 3
  BY <1>1
<1>4. i # 1 /\ i # 2
  BY <1>1, <1>2 DEF Services
<1> QED
  BY <1>1, <1>3, <1>4

(***************************************************************************)
(* Tables that the slot has to tell of.                                    *)
(***************************************************************************)
LEMMA PendingAdded ==
  ASSUME NEW q \in Seq(All), NEW c \in All
  PROVE  Append(q, c) \in Seq(All) /\ Range(Append(q, c)) = Range(q) \cup {c}
<1>1. /\ Append(q, c) \in Seq(All) /\ Len(q) \in Nat /\ DOMAIN q = 1..Len(q)
      /\ DOMAIN Append(q, c) = 1..(Len(q) + 1)
      /\ \A i \in 1..Len(q) : Append(q, c)[i] = q[i]
      /\ Append(q, c)[Len(q) + 1] = c
  BY AppendProperties, LenProperties
<1>2. \A i : i \in 1..(Len(q) + 1) <=> i \in 1..Len(q) \/ i = Len(q) + 1
  BY <1>1
<1> QED
  BY <1>1, <1>2, Zenon DEF Range

(***************************************************************************)
(* The first of them is taken.                                             *)
(***************************************************************************)
LEMMA PendingTaken ==
  ASSUME NEW q \in Seq(All), q # <<>>
  PROVE  Tail(q) \in Seq(All) /\ Head(q) \in All /\ Range(q) = Range(Tail(q)) \cup {Head(q)}
<1>1. /\ Tail(q) \in Seq(All) /\ Head(q) \in All /\ Head(q) = q[1]
      /\ Len(q) \in Nat /\ Len(q) # 0 /\ DOMAIN q = 1..Len(q) /\ DOMAIN Tail(q) = 1..(Len(q) - 1)
      /\ \A i \in 1..(Len(q) - 1) : Tail(q)[i] = q[i + 1]
  BY HeadTailProperties, LenProperties, EmptySeq
<1>2. \A x : x \in Range(q) => x \in Range(Tail(q)) \cup {Head(q)}
  <2> SUFFICES ASSUME NEW i \in 1..Len(q), i # 1 PROVE q[i] \in Range(Tail(q))
    BY <1>1 DEF Range
  <2>1. i - 1 \in 1..(Len(q) - 1) /\ (i - 1) + 1 = i
    BY <1>1
  <2> QED
    BY <1>1, <2>1, Zenon DEF Range
<1>3. 1 \in 1..Len(q) /\ \A i \in 1..(Len(q) - 1) : i + 1 \in 1..Len(q)
  BY <1>1
<1>4. Head(q) \in Range(q)
  BY <1>1, <1>3, Zenon DEF Range
<1>5. ASSUME NEW i \in 1..(Len(q) - 1) PROVE Tail(q)[i] \in Range(q)
  <2>1. i + 1 \in DOMAIN q /\ Tail(q)[i] = q[i + 1]
    BY <1>1, <1>3, Zenon
  <2> QED
    BY <2>1, Zenon DEF Range
<1>6. \A x : x \in Range(Tail(q)) => x \in Range(q)
  BY <1>1, <1>5, Zenon DEF Range
<1> QED
  BY <1>1, <1>2, <1>4, <1>6, Zenon

(***************************************************************************)
(* A step of the start that adds no task.                                  *)
(***************************************************************************)
LEMMA StepControl ==
  ASSUME ServicesOK, StoppingOK, UNCHANGED <<tasks, stopping, stopped>>,
         At("container") \/ At("collect") \/ At("publication") \/ At("slot") \/ At("attach")
  PROVE  ServicesOK' /\ StoppingOK'
<1>1. \/ main = "container" /\ main' = "stats"
      \/ /\ main \in {"collect", "publication", "slot", "attach"}
         /\ main' \in {"publication", "slot", "attach", "replicate"}
  BY StepAfter, Zenon DEF At
<1>2. ServicesOK'
  BY <1>1, StepsAre, Zenon DEF ServicesOK
<1>3. StoppingOK'
  BY <1>1, Zenon DEF StoppingOK
<1> QED
  BY <1>2, <1>3, Zenon

(***************************************************************************)
(* A step of the start that adds one.                                      *)
(***************************************************************************)
LEMMA ServiceControl ==
  ASSUME ServicesOK, StoppingOK, UNCHANGED <<stopping, stopped>>,
         NEW step \in {"stats", "dispatcher", "context", "emitter", "snapshotter", "known", "replicate"}, At(step),
         NEW task, IF step = "replicate" THEN task = "channel" ELSE task = step, Registers(task)
  PROVE  ServicesOK' /\ StoppingOK'
<1> PICK n : n = Len(tasks)
  BY Zenon
<1>1. main = step /\ main' = NextStep(step) /\ tasks' = Append(tasks, task)
  BY Zenon DEF At, Registers
<1>2. FirstServices(tasks) /\ n \in Nat
  BY DEF ServicesOK, FirstServices
<1>3. \/ step = "stats" /\ n = 0 /\ main' = "dispatcher"
      \/ step = "dispatcher" /\ n = 1 /\ main' = "context"
      \/ step = "context" /\ n = 2 /\ main' = "emitter"
      \/ step = "emitter" /\ n = 3 /\ main' = "snapshotter"
      \/ step = "snapshotter" /\ n = 4 /\ main' = "known"
      \/ step = "known" /\ n = 5 /\ main' = "collect"
      \/ step = "replicate" /\ n = 6 /\ main' = "run"
  BY <1>1, StepAfter DEF ServicesOK
<1>4. n < 7 /\ task = Services[n + 1]
  <2>1. 0 + 1 = 1 /\ 1 + 1 = 2 /\ 2 + 1 = 3 /\ 3 + 1 = 4 /\ 4 + 1 = 5 /\ 5 + 1 = 6 /\ 6 + 1 = 7
    OBVIOUS
  <2>2. n < 7
    BY <1>3
  <2>3. \/ n = 0 /\ n + 1 = 1 /\ task = "stats"
        \/ n = 1 /\ n + 1 = 2 /\ task = "dispatcher"
        \/ n = 2 /\ n + 1 = 3 /\ task = "context"
        \/ n = 3 /\ n + 1 = 4 /\ task = "emitter"
        \/ n = 4 /\ n + 1 = 5 /\ task = "snapshotter"
        \/ n = 5 /\ n + 1 = 6 /\ task = "known"
        \/ n = 6 /\ n + 1 = 7 /\ task = "channel"
    <3>1. /\ step # "replicate" => task = step
          /\ step = "replicate" => task = "channel"
      BY Zenon
    <3>2. /\ "stats" # "replicate" /\ "dispatcher" # "replicate" /\ "context" # "replicate"
          /\ "emitter" # "replicate" /\ "snapshotter" # "replicate" /\ "known" # "replicate"
      OBVIOUS
    <3>3. \/ n = 0 /\ task = "stats"
          \/ n = 1 /\ task = "dispatcher"
          \/ n = 2 /\ task = "context"
          \/ n = 3 /\ task = "emitter"
          \/ n = 4 /\ task = "snapshotter"
          \/ n = 5 /\ task = "known"
          \/ n = 6 /\ task = "channel"
      BY <1>3, <3>1, <3>2, Zenon
    <3> QED
      BY <2>1, <3>3, ZenonT(60)
  <2>4. task = Services[n + 1]
    BY <2>3, ServiceNames, Zenon
  <2> QED
    BY <2>2, <2>4, Zenon
<1>5. FirstServices(tasks') /\ Len(tasks') = n + 1
  BY <1>1, <1>2, <1>4, ServiceAdded
<1>6. PICK m : m = Len(tasks')
  BY Zenon
<1>7. m = n + 1 /\ m \in Nat
  BY <1>2, <1>5, <1>6
<1>8. ServicesOK'
  <2>1. \/ m = 1 /\ main' = "dispatcher"
        \/ m = 2 /\ main' = "context"
        \/ m = 3 /\ main' = "emitter"
        \/ m = 4 /\ main' = "snapshotter"
        \/ m = 5 /\ main' = "known"
        \/ m = 6 /\ main' = "collect"
        \/ m = 7 /\ main' = "run"
    <3>1. 0 + 1 = 1 /\ 1 + 1 = 2 /\ 2 + 1 = 3 /\ 3 + 1 = 4 /\ 4 + 1 = 5 /\ 5 + 1 = 6 /\ 6 + 1 = 7
      OBVIOUS
    <3>2. m = n + 1
      BY <1>7, Zenon
    <3> QED
      BY <1>3, <3>1, <3>2, Zenon
  <2>2. main' \in Range(Steps) \cup {"run"}
    BY <2>1, StepsAre, Zenon
  <2>3. Len(tasks)' = m
    BY <1>6, Zenon
  <2>4. /\ main' = "dispatcher" => m = 1
        /\ main' = "context" => m = 2
        /\ main' = "emitter" => m = 3
        /\ main' = "snapshotter" => m = 4
        /\ main' = "known" => m = 5
        /\ main' = "run" => m = 7
        /\ main' \in {"collect", "publication", "slot", "attach", "replicate"} => m = 6
        /\ main' \notin {"container", "stats", "failed"}
    BY <2>1, Zenon
  <2> QED
    BY <1>5, <2>2, <2>3, <2>4, Zenon DEF ServicesOK
<1>9. StoppingOK'
  <2>1. stopping # <<None>> => Len(stopping) \in Nat
    BY DEF StoppingOK, FirstServices
  <2>2. \A k \in Nat : k <= n => k <= m
    BY <1>2, <1>7
  <2>3. stopping # <<None>> => Len(stopping) <= Len(tasks')
    BY <1>6, <2>1, <2>2, Zenon DEF StoppingOK
  <2> QED
    BY <1>3, <1>1, <2>3, Zenon DEF StoppingOK
<1> QED
  BY <1>8, <1>9, Zenon

(***************************************************************************)
(* A start that is not through has added six tasks at most.                *)
(***************************************************************************)
LEMMA FewTasks ==
  ASSUME ServicesOK, main \in Range(Steps)
  PROVE  Len(tasks) <= 6
<1>1. main \in {"container", "stats", "dispatcher", "context", "emitter", "snapshotter", "known", "collect",
                "publication", "slot", "attach", "replicate"}
  BY StepsAre, Zenon
<1>2. Len(tasks) \in {0, 1, 2, 3, 4, 5, 6}
  <2>1. main \in {"container", "stats"} => Len(tasks) = 0
    BY Zenon DEF ServicesOK
  <2>2. main \in {"collect", "publication", "slot", "attach", "replicate"} => Len(tasks) = 6
    BY Zenon DEF ServicesOK
  <2>3. /\ main = "dispatcher" => Len(tasks) = 1
        /\ main = "context" => Len(tasks) = 2
        /\ main = "emitter" => Len(tasks) = 3
        /\ main = "snapshotter" => Len(tasks) = 4
        /\ main = "known" => Len(tasks) = 5
    BY Zenon DEF ServicesOK
  <2> QED
    BY <1>1, <2>1, <2>2, <2>3, Zenon
<1> QED
  <2>1. \A n \in {0, 1, 2, 3, 4, 5, 6} : n <= 6
    OBVIOUS
  <2> QED
    BY <1>2, <2>1, Zenon

(***************************************************************************)
(* A start that fails, a signal, the end, and another start.               *)
(***************************************************************************)
LEMMA MainControl ==
  ASSUME NoneApart, ServicesOK, StoppingOK, StartFails \/ Signal \/ Exit \/ Crash \/ StartAgain
  PROVE  ServicesOK' /\ StoppingOK'
<1>1. FirstServices(tasks) /\ tasks # <<None>> /\ Len(tasks) \in Nat
  BY NotNone DEF ServicesOK, FirstServices
<1>2. CASE StartFails
  <2>1. main \in Range(Steps) /\ main' = "failed" /\ stopping' = tasks /\ UNCHANGED <<tasks, stopped>>
    BY <1>2, Zenon DEF StartFails
  <2>2. Len(tasks) <= 6
    BY <2>1, FewTasks, Zenon
  <2>3. ServicesOK'
    BY <2>1, <2>2, Zenon DEF ServicesOK
  <2>4. stopped # "full"
    BY <2>1, StepsAre, Zenon DEF StoppingOK
  <2>5. StoppingOK'
    BY <1>1, <2>1, <2>2, <2>4, SMTT(30) DEF StoppingOK
  <2> QED
    BY <2>3, <2>5, Zenon
<1>3. CASE Signal
  <2>1. /\ main \in Range(Steps) \cup {"run"} /\ stopping' = tasks /\ UNCHANGED <<tasks, main>>
        /\ stopped' = IF main = "run" THEN "full" ELSE "early"
    BY <1>3, Zenon DEF Signal
  <2>2. main # "run" => Len(tasks) <= 6
    BY <2>1, FewTasks, Zenon
  <2>3. ServicesOK'
    BY <2>1, Zenon DEF ServicesOK
  <2>4. StoppingOK'
    BY <1>1, <2>1, <2>2 DEF StoppingOK
  <2> QED
    BY <2>3, <2>4, Zenon
<1>4. CASE Exit \/ Crash
  <2>1. main' = "down" /\ UNCHANGED <<tasks, stopping, stopped>>
    BY <1>4, Zenon DEF Exit, Crash
  <2> QED
    BY <2>1, Zenon DEF ServicesOK, StoppingOK
<1>5. CASE StartAgain
  <2>1. main' = "container" /\ tasks' = <<>> /\ stopping' = <<None>> /\ stopped' = "no"
    BY <1>5, Zenon DEF StartAgain
  <2>2. FirstServices(<<>>) /\ Len(<<>>) = 0
    BY DEF FirstServices
  <2> QED
    BY <2>1, <2>2, StepsAre, Zenon DEF ServicesOK, StoppingOK
<1> QED
  BY <1>2, <1>3, <1>4, <1>5, Zenon

(***************************************************************************)
(* A stop goes on, and returns.                                            *)
(***************************************************************************)
LEMMA StopControl ==
  ASSUME NoneApart, ServicesOK, StoppingOK, RunTask \/ StopReturns
  PROVE  ServicesOK' /\ StoppingOK'
<1>1. CASE RunTask
  <2>1. /\ main # "down" /\ stopping # <<None>> /\ stopping # <<>> /\ stopping' = SubSeq(stopping, 1, Len(stopping) - 1)
        /\ UNCHANGED <<main, tasks, stopped>>
    BY <1>1, Zenon DEF RunTask
  <2>2. FirstServices(stopping) /\ Len(stopping) <= Len(tasks) /\ (stopped # "full" => Len(stopping) <= 6)
    BY <2>1, Zenon DEF StoppingOK
  <2>3. FirstServices(stopping') /\ Len(stopping') = Len(stopping) - 1 /\ Len(stopping) \in 1..7
    BY <1>1, TaskRun, Zenon
  <2>4. Len(stopping') <= Len(tasks) /\ (stopped # "full" => Len(stopping') <= 6)
    BY <2>2, <2>3 DEF ServicesOK, FirstServices
  <2>5. ServicesOK'
    BY <2>1, ZenonT(60) DEF ServicesOK
  <2>6. StoppingOK'
    BY <2>1, <2>3, <2>4, Zenon DEF StoppingOK
  <2> QED
    BY <2>5, <2>6, Zenon
<1>2. CASE StopReturns
  <2>1. /\ main # "down" /\ stopping = <<>> /\ stopping' = <<None>> /\ UNCHANGED <<tasks, stopped>>
        /\ main' = IF main = "failed" THEN "down" ELSE main
    BY <1>2, Zenon DEF StopReturns
  <2> QED
    BY <2>1 DEF ServicesOK, StoppingOK
<1> QED
  BY <1>1, <1>2, Zenon

(***************************************************************************)
(* Every step keeps the order of the tasks.                                *)
(***************************************************************************)
LEMMA ControlStep ==
  ASSUME NoneApart, ServicesOK, StoppingOK, [Next]_vars
  PROVE  ServicesOK' /\ StoppingOK'
<1>1. CASE UNCHANGED <<main, tasks, stopping, stopped>>
  BY <1>1 DEF ServicesOK, StoppingOK
<1>2. CASE UNCHANGED vars \/ CreateChunk \/ CreateTable \/ AutoStore \/ OnChunkAddedEvent \/ SnapshotChunk
  BY <1>1, <1>2, Zenon DEF vars, process, CreateChunk, CreateTable, AutoStore, OnChunkAddedEvent, SnapshotChunk
<1>3. CASE ReadCatalog \/ CollectTables \/ CreatePublication \/ CreateReplicationSlot \/ AttachInitialTables
  BY <1>3, StepControl, Zenon DEF ReadCatalog, CollectTables, CreatePublication, CreateReplicationSlot, AttachInitialTables
<1>4. CASE StartService
  <2>1. PICK step \in {"stats", "dispatcher", "emitter", "snapshotter", "known"} : At(step) /\ Registers(step)
    BY <1>4, Zenon DEF StartService
  <2> QED
    BY <1>4, <2>1, ServiceControl, Zenon DEF StartService
<1>5. CASE StartReplicationContext
  BY <1>5, ServiceControl, Zenon DEF StartReplicationContext
<1>6. CASE StartReplicationChannel
  BY <1>6, ServiceControl, Zenon DEF StartReplicationChannel
<1> QED
  BY <1>2, <1>3, <1>4, <1>5, <1>6, MainControl, StopControl, Zenon DEF Next

(***************************************************************************)
(* A list of tables.                                                       *)
(***************************************************************************)
LEMMA ListIs ==
  /\ \A S \in SUBSET All : <<S>> \in Lists /\ <<S>>[1] = S
  /\ \A x \in Lists : x[1] \in SUBSET All /\ x = <<x[1]>>
  /\ ListsApart => <<None>> \notin Lists
<1>1. \A S \in SUBSET All : <<S>> \in Lists
  BY Zenon DEF Lists
<1>2. \A S : <<S>>[1] = S
  BY Zenon
<1>3. ASSUME NEW x \in Lists PROVE x[1] \in SUBSET All /\ x = <<x[1]>>
  <2>1. PICK S \in SUBSET All : x = <<S>>
    BY <1>3, Zenon DEF Lists
  <2> QED
    BY <2>1, <1>2, Zenon
<1>4. ListsApart => <<None>> \notin Lists
  BY <1>2, <1>3, Zenon DEF ListsApart
<1> QED
  BY <1>1, <1>2, <1>3, <1>4, Zenon

(***************************************************************************)
(* The publication.                                                        *)
(***************************************************************************)
LEMMA PublishedIs ==
  ASSUME ListsOK
  PROVE  /\ Published \subseteq All
         /\ publication = <<None>> => Published = {}
         /\ publication # <<None>> => Published = publication[1] /\ publication \in Lists
BY ListIs, Zenon DEF ListsOK, Published

(***************************************************************************)
(* A step that changes none of the lists, and does not start to run.       *)
(***************************************************************************)
LEMMA ListsRest ==
  ASSUME ListsOK,
         UNCHANGED <<config, existing, slot, pending, publication, file, known, catalog, initial, snapshotting>>,
         main' \notin {"run", "down"} => main \notin {"run", "down"}
  PROVE  ListsOK'
BY Zenon DEF ListsOK

(***************************************************************************)
(* What the database and the slot gain and lose.                           *)
(***************************************************************************)
LEMMA DatabaseLists ==
  ASSUME ListsOK, StartOK, CreateChunk \/ CreateTable \/ OnChunkAddedEvent \/ SnapshotChunk
  PROVE  ListsOK'
<1>1. CASE CreateChunk
  <2>1. PICK c \in Chunks \ existing :
          /\ existing' = existing \cup {c}
          /\ pending' = IF slot THEN Append(pending, c) ELSE pending
          /\ UNCHANGED <<config, slot, publication, file, main, known, catalog, initial, snapshotting>>
    BY <1>1, Zenon DEF CreateChunk, process
  <2>2. c \in All
    BY Zenon DEF All
  <2>3. pending' \in Seq(All) /\ Range(pending') \subseteq Range(pending) \cup {c}
    BY <2>1, <2>2, PendingAdded, Zenon DEF ListsOK
  <2>4. existing' \subseteq All /\ catalog' \subseteq existing' /\ Range(pending') \subseteq existing'
    BY <2>1, <2>2, <2>3, Zenon DEF ListsOK
  <2>5. ~slot' => pending' = <<>>
    BY <2>1, Zenon DEF ListsOK
  <2> QED
    BY <2>1, <2>3, <2>4, <2>5, Zenon DEF ListsOK
<1>2. CASE CreateTable
  <2>1. PICK t \in Tables \ existing :
          /\ existing' = existing \cup {t}
          /\ UNCHANGED <<config, slot, pending, publication, file, main, known, catalog, initial, snapshotting>>
    BY <1>2, Zenon DEF CreateTable, process
  <2>2. existing' \subseteq All /\ catalog' \subseteq existing' /\ Range(pending)' \subseteq existing'
    BY <2>1, Zenon DEF ListsOK, All
  <2> QED
    BY <2>1, <2>2, Zenon DEF ListsOK
<1>3. CASE OnChunkAddedEvent
  <2>1. /\ main = "run" /\ pending # <<>> /\ pending' = Tail(pending)
        /\ catalog' = catalog \cup {Head(pending)} /\ snapshotting' = snapshotting \cup {Head(pending)}
        /\ UNCHANGED <<config, existing, slot, publication, file, main, known, initial>>
    BY <1>3, Zenon DEF OnChunkAddedEvent, Replicating
  <2>2. pending' \in Seq(All) /\ Head(pending) \in All /\ Range(pending) = Range(pending') \cup {Head(pending)}
    BY <2>1, PendingTaken, Zenon DEF ListsOK
  <2>3. catalog' \subseteq existing' /\ snapshotting' \subseteq All /\ Range(pending') \subseteq existing'
    BY <2>1, <2>2, Zenon DEF ListsOK
  <2> QED
    BY <2>1, <2>2, <2>3, Zenon DEF ListsOK
<1>4. CASE SnapshotChunk
  <2>1. PICK c \in snapshotting :
          /\ main = "run" /\ stopped = "no"
          /\ snapshotting' = snapshotting \ {c} /\ publication' = <<publication[1] \cup {c}>>
          /\ UNCHANGED <<config, existing, slot, pending, file, main, known, catalog, initial>>
    BY <1>4, Zenon DEF SnapshotChunk, Replicating
  <2>2. publication # <<None>>
    BY <2>1, Zenon DEF StartOK
  <2>3. publication[1] \cup {c} \in SUBSET All
    BY <2>2, PublishedIs, Zenon DEF ListsOK
  <2>4. publication' \in Lists
    BY <2>1, <2>3, ListIs, Zenon
  <2> QED
    BY <2>1, <2>4, Zenon DEF ListsOK
<1> QED
  BY <1>1, <1>2, <1>3, <1>4, Zenon

(***************************************************************************)
(* The steps of the start.                                                 *)
(***************************************************************************)
LEMMA StartLists ==
  ASSUME ListsOK,
         ReadCatalog \/ StartReplicationContext \/ CollectTables \/ CreatePublication \/ CreateReplicationSlot \/ AttachInitialTables
  PROVE  ListsOK'
<1>1. main \notin {"run", "down"} /\ main' \notin {"run", "down"}
  BY StepAfter, Zenon DEF ReadCatalog, StartReplicationContext, CollectTables, CreatePublication, CreateReplicationSlot,
     AttachInitialTables, At
<1>2. CASE ReadCatalog
  BY <1>1, <1>2, Zenon DEF ReadCatalog, ListsOK, database
<1>3. CASE StartReplicationContext
  BY <1>1, <1>3, Zenon DEF StartReplicationContext, ListsOK, database
<1>4. CASE CollectTables
  <2>1. getKnownTables \subseteq All
    BY ListIs, Zenon DEF getKnownTables, ListsOK
  <2>2. initial' \subseteq All
    BY <1>4, <2>1, Zenon DEF CollectTables
  <2> QED
    BY <1>1, <1>4, <2>2, Zenon DEF CollectTables, ListsOK, database
<1>5. CASE CreatePublication
  <2>1. <<{}>> \in Lists
    BY ListIs, Zenon
  <2> QED
    BY <1>1, <1>5, <2>1, Zenon DEF CreatePublication, ListsOK
<1>6. CASE CreateReplicationSlot
  BY <1>1, <1>6, Zenon DEF CreateReplicationSlot, ListsOK
<1>7. CASE AttachInitialTables
  <2>1. initial # {} => publication # <<None>>
    BY <1>7, Zenon DEF AttachInitialTables
  <2>2. initial # {} => publication[1] \cup initial \in SUBSET All
    BY <2>1, PublishedIs, Zenon DEF ListsOK
  <2>3. publication' \in Lists \cup {<<None>>}
    <3>1. publication' = IF initial = {} THEN publication ELSE <<publication[1] \cup initial>>
      BY <1>7, Zenon DEF AttachInitialTables
    <3> QED
      BY <2>2, <3>1, ListIs, Zenon DEF ListsOK
  <2> QED
    BY <1>1, <1>7, <2>3, Zenon DEF AttachInitialTables, ListsOK
<1> QED
  BY <1>2, <1>3, <1>4, <1>5, <1>6, <1>7, Zenon

(***************************************************************************)
(* Every step keeps the lists lists of tables.                             *)
(***************************************************************************)
LEMMA ListsStep ==
  ASSUME StoppingOK, ListsOK, StartOK, [Next]_vars
  PROVE  ListsOK'
<1>1. CASE UNCHANGED vars \/ StartService \/ StartReplicationChannel \/ StartFails \/ Signal \/ StopReturns \/ Exit \/ Crash
  <2>1. UNCHANGED <<config, existing, slot, pending, publication, file, known, catalog, initial, snapshotting>>
    BY <1>1, Zenon DEF vars, database, process, StartService, StartReplicationChannel, StartFails, Signal, StopReturns, Exit, Crash
  <2>2. main' \notin {"run", "down"} => main \notin {"run", "down"}
    BY <1>1, StepsAre, Zenon DEF vars, process, StartService, StartReplicationChannel, At, StartFails, Signal, StopReturns, Exit, Crash
  <2> QED
    BY <2>1, <2>2, ListsRest, Zenon
<1>2. CASE AutoStore
  BY <1>2, Zenon DEF AutoStore, ListsOK, database, process
<1>3. CASE RunTask
  <2>1. /\ pending' = IF slot' THEN pending ELSE <<>>
        /\ known' \in {known, <<catalog>>}
        /\ file' \in {known, file} /\ (~config.file => file' = file)
        /\ UNCHANGED <<config, existing, main, catalog, initial, snapshotting>>
    BY <1>3, Zenon DEF RunTask
  <2>2. publication' \in {publication, <<None>>} /\ (slot' => slot)
    BY <1>3, Zenon DEF RunTask, DropCreated
  <2>3. <<catalog>> \in Lists
    BY ListIs, Zenon DEF ListsOK
  <2>4. pending' \in Seq(All) /\ Range(pending') \subseteq existing'
    <3>1. <<>> \in Seq(All) /\ Range(<<>>) = {}
      BY DEF Range
    <3> QED
      BY <2>1, <3>1, Zenon DEF ListsOK
  <2> QED
    BY <2>1, <2>2, <2>3, <2>4, Zenon DEF ListsOK
<1>4. CASE StartAgain
  BY <1>4, Zenon DEF StartAgain, ListsOK, database
<1> QED
  BY <1>1, <1>2, <1>3, <1>4, DatabaseLists, StartLists, Zenon DEF Next

-----------------------------------------------------------------------------
(***************************************************************************)
(* A step that leaves the lists alone, and any stop where it is.           *)
(***************************************************************************)
LEMMA KnownRests ==
  ASSUME KnownOK, UNCHANGED <<config, file, known, catalog, stopping, stopped>>,
         Len(tasks') >= 3 => Len(tasks) >= 3,
         main \in {"failed", "down"} => main' \in {"failed", "down"}
  PROVE  KnownOK'
BY Zenon DEF KnownOK

(***************************************************************************)
(* No full stop is asked for before the start is through.                  *)
(***************************************************************************)
LEMMA NotFull ==
  ASSUME StoppingOK, main \in Range(Steps)
  PROVE  stopped # "full" /\ main \notin {"run", "down", "failed"}
BY StepsAre, Zenon DEF StoppingOK

(***************************************************************************)
(* A step of the start.                                                    *)
(***************************************************************************)
LEMMA StartKnown ==
  ASSUME ServicesOK, StoppingOK, ListsOK, KnownOK, ReadCatalog \/ StartService \/ StartReplicationContext \/ StartReplicationChannel
  PROVE  KnownOK'
<1>1. main \in Range(Steps) /\ stopped' = stopped
  BY StepsAre, Zenon DEF ReadCatalog, StartService, StartReplicationContext, StartReplicationChannel, At
<1>2. stopped' # "full" /\ main \notin {"run", "down", "failed"}
  BY <1>1, NotFull, Zenon
<1>3. CASE ReadCatalog
  <2>1. Len(tasks') = 0
    BY <1>3, Zenon DEF ReadCatalog, At, ServicesOK
  <2>2. ~(Len(tasks') >= 3)
    BY <2>1
  <2> QED
    BY <1>2, <2>2, Zenon DEF KnownOK
<1>4. CASE StartReplicationContext
  <2>1. known' = file'
    BY <1>4, Zenon DEF StartReplicationContext, ListsOK
  <2> QED
    BY <1>2, <2>1, Zenon DEF KnownOK
<1>5. CASE StartService \/ StartReplicationChannel
  <2>1. UNCHANGED <<config, file, known, catalog, stopping, stopped>>
    BY <1>5, Zenon DEF StartService, StartReplicationChannel
  <2>2. PICK step \in {"stats", "dispatcher", "emitter", "snapshotter", "known", "replicate"}, task \in TaskNames :
          At(step) /\ Registers(task)
    BY <1>5, Zenon DEF StartService, StartReplicationChannel, TaskNames
  <2>3. tasks \in Seq(TaskNames) /\ tasks' = Append(tasks, task) /\ main = step
    BY <2>2, Zenon DEF At, Registers, ServicesOK, FirstServices
  <2>4. Len(tasks) \in Nat /\ Len(tasks') = Len(tasks) + 1
    BY <2>3, AppendProperties, LenProperties, Zenon
  <2>5. Len(tasks) = 0 \/ Len(tasks) = 1 \/ Len(tasks) = 3 \/ Len(tasks) = 4 \/ Len(tasks) = 5 \/ Len(tasks) = 6
    BY <2>3, Zenon DEF ServicesOK
  <2>6. Len(tasks') >= 3 => Len(tasks) >= 3
    <3>1. \A k \in Nat : k = 0 \/ k = 1 \/ k = 3 \/ k = 4 \/ k = 5 \/ k = 6 => (k + 1 >= 3 => k >= 3)
      OBVIOUS
    <3> QED
      BY <2>4, <2>5, <3>1, Zenon
  <2> QED
    BY <1>2, <2>1, <2>6, KnownRests, Zenon
<1> QED
  BY <1>3, <1>4, <1>5, Zenon

(***************************************************************************)
(* A stop runs a task: the list is that of the catalog before it is saved. *)
(***************************************************************************)
LEMMA TaskKnown ==
  ASSUME NoneApart, ServicesOK, StoppingOK, KnownOK, RunTask
  PROVE  KnownOK'
<1> PICK n : n = Len(stopping)
  BY Zenon
<1>1. /\ stopping # <<None>> /\ UNCHANGED <<config, main, tasks, catalog, stopped>>
      /\ known' = IF stopping[n] = "known" THEN <<catalog>> ELSE known
      /\ file' = IF stopping[n] = "context" /\ config.file THEN known ELSE file
  BY Zenon DEF RunTask
<1>2. /\ n \in 1..7 /\ FirstServices(stopping') /\ Len(stopping') = n - 1
      /\ (stopping[n] = "known" <=> n = 6) /\ (stopping[n] = "context" <=> n = 3)
  BY TaskRun, Zenon
<1>3. stopped # "no" \/ main \in {"failed", "down"}
  BY <1>1, Zenon DEF StoppingOK
<1>4. Len(tasks) >= 3 => known' = file' \/ known' = <<catalog>>
  <2>1. Len(tasks) >= 3 => known = file \/ known = <<catalog>>
    BY Zenon DEF KnownOK
  <2>2. ~(6 = 3)
    OBVIOUS
  <2> QED
    BY <1>1, <1>2, <2>1, <2>2, Zenon
<1>5. stopping' # <<None>>
  BY <1>2, NotNone, Zenon DEF FirstServices
<1>6. \A k \in 1..7 : (k - 1 < 6 => k = 6 \/ k < 6) /\ (k - 1 < 3 => k = 3 \/ k < 3) /\ (k = 3 \/ k < 3 => k < 6 /\ k # 6)
  OBVIOUS
<1>7. stopped = "full" => (n < 6 => known = <<catalog>>) /\ (n < 3 /\ config.file => file = <<catalog>>)
  BY Zenon DEF KnownOK
<1>8. stopped = "full" /\ n - 1 < 6 => known' = <<catalog>>
  BY <1>1, <1>2, <1>6, <1>7, Zenon
<1>9. stopped = "full" /\ n - 1 < 3 /\ config.file => file' = <<catalog>>
  BY <1>1, <1>2, <1>6, <1>7, Zenon
<1> QED
  BY <1>1, <1>2, <1>3, <1>4, <1>5, <1>8, <1>9, Zenon DEF KnownOK

(***************************************************************************)
(* Every step keeps what is said of the list in memory.                    *)
(***************************************************************************)
LEMMA KnownStep ==
  ASSUME NoneApart, ServicesOK, StoppingOK, ListsOK, KnownOK, [Next]_vars
  PROVE  KnownOK'
<1>1. CASE UNCHANGED vars \/ CreateChunk \/ CreateTable \/ SnapshotChunk \/ Exit \/ Crash
  <2>1. UNCHANGED <<config, file, known, catalog, tasks, stopping, stopped>>
    BY <1>1, Zenon DEF vars, process, CreateChunk, CreateTable, SnapshotChunk, Exit, Crash
  <2>2. main \in {"failed", "down"} => main' \in {"failed", "down"}
    BY <1>1, Zenon DEF vars, process, CreateChunk, CreateTable, SnapshotChunk, Exit, Crash
  <2> QED
    BY <2>1, <2>2, KnownRests, Zenon
<1>2. CASE CollectTables \/ CreatePublication \/ CreateReplicationSlot \/ AttachInitialTables
  <2>1. UNCHANGED <<config, file, known, catalog, tasks, stopping, stopped>> /\ main \in Range(Steps)
    BY <1>2, StepsAre, Zenon DEF CollectTables, CreatePublication, CreateReplicationSlot, AttachInitialTables, At
  <2> QED
    BY <2>1, NotFull, KnownRests, Zenon
<1>3. CASE StartFails
  <2>1. UNCHANGED <<config, file, known, catalog, tasks, stopped>> /\ main \in Range(Steps) /\ main' = "failed"
    BY <1>3, Zenon DEF StartFails
  <2> QED
    BY <2>1, NotFull, Zenon DEF KnownOK
<1>4. CASE OnChunkAddedEvent
  <2>1. stopped = "no" /\ main = "run" /\ UNCHANGED <<config, file, known, tasks, stopped>>
    BY <1>4, Zenon DEF OnChunkAddedEvent, Replicating
  <2> QED
    BY <2>1, Zenon DEF KnownOK
<1>5. CASE Signal
  <2>1. /\ UNCHANGED <<config, file, known, catalog, tasks, main>> /\ stopping' = tasks /\ stopped = "no"
        /\ stopped' = IF main = "run" THEN "full" ELSE "early"
    BY <1>5, Zenon DEF Signal
  <2>2. main = "run" => Len(tasks) = 7 /\ tasks # <<None>>
    BY NotNone, Zenon DEF ServicesOK, FirstServices
  <2>3. main = "run" => ~(Len(stopping') < 6) /\ ~(Len(stopping') < 3) /\ stopping' # <<None>>
    BY <2>1, <2>2, SMTT(30)
  <2> QED
    BY <2>1, <2>3, Zenon DEF KnownOK
<1>6. CASE StopReturns
  <2>1. /\ UNCHANGED <<config, file, known, catalog, tasks, stopped>> /\ stopping = <<>>
        /\ main \in {"failed", "down"} => main' \in {"failed", "down"}
    BY <1>6, Zenon DEF StopReturns
  <2>2. Len(stopping) < 6 /\ Len(stopping) < 3
    BY <2>1
  <2> QED
    BY <2>1, <2>2, Zenon DEF KnownOK
<1>7. CASE AutoStore
  <2>1. file' = known /\ UNCHANGED <<config, known, catalog, tasks, main, stopping, stopped>>
    BY <1>7, Zenon DEF AutoStore, process
  <2>2. stopping # <<None>> => Len(stopping) \in Nat
    BY DEF StoppingOK, FirstServices
  <2>3. stopping # <<None>> => (Len(stopping) < 3 => Len(stopping) < 6)
    BY <2>2
  <2> QED
    BY <2>1, <2>3, Zenon DEF KnownOK
<1>8. CASE StartAgain
  <2>1. tasks' = <<>> /\ stopped' = "no"
    BY <1>8, Zenon DEF StartAgain
  <2>2. ~(Len(tasks') >= 3)
    BY <2>1
  <2> QED
    BY <2>1, <2>2, Zenon DEF KnownOK
<1> QED
  BY <1>1, <1>2, <1>3, <1>4, <1>5, <1>6, <1>7, <1>8, StartKnown, TaskKnown, Zenon DEF Next

-----------------------------------------------------------------------------
(***************************************************************************)
(* What the streamer is or was not told: a table that is made is in it, a  *)
(* chunk that is heard of leaves it, and a slot that is dropped moves what *)
(* it had to what is missed.                                               *)
(***************************************************************************)
LEMMA ToldIs ==
  ASSUME ListsOK
  PROVE  /\ CreateChunk \/ CreateTable => existing' \subseteq existing \cup Told' /\ Told \subseteq Told'
         /\ OnChunkAddedEvent => Head(pending) \in All /\ Told \subseteq Told' \cup {Head(pending)}
         /\ RunTask => Told' = Told
         /\ StartAgain => Told' = Told \cup snapshotting \cup Unlisted
         /\ UNCHANGED <<pending, missed>> => Told' = Told
<1>1. ASSUME CreateChunk PROVE existing' \subseteq existing \cup Told' /\ Told \subseteq Told'
  <2>1. PICK c \in Chunks \ existing :
          /\ existing' = existing \cup {c}
          /\ pending' = IF slot THEN Append(pending, c) ELSE pending
          /\ missed' = IF slot THEN missed ELSE missed \cup {c}
    BY <1>1, Zenon DEF CreateChunk
  <2>2. c \in All
    BY Zenon DEF All
  <2>3. Range(pending') = IF slot THEN Range(pending) \cup {c} ELSE Range(pending)
    BY <2>1, <2>2, PendingAdded, Zenon DEF ListsOK
  <2>4. Told' = Told \cup {c}
    BY <2>1, <2>3, Zenon DEF Told
  <2> QED
    BY <2>1, <2>4, Zenon
<1>2. CreateTable => existing' \subseteq existing \cup Told' /\ Told \subseteq Told'
  BY Zenon DEF CreateTable, Told
<1>3. ASSUME OnChunkAddedEvent PROVE Head(pending) \in All /\ Told \subseteq Told' \cup {Head(pending)}
  <2>1. pending # <<>> /\ pending' = Tail(pending) /\ missed' = missed
    BY <1>3, Zenon DEF OnChunkAddedEvent
  <2>2. Head(pending) \in All /\ Range(pending) = Range(pending') \cup {Head(pending)}
    BY <2>1, PendingTaken, Zenon DEF ListsOK
  <2> QED
    BY <2>1, <2>2, Zenon DEF Told
<1>4. ASSUME RunTask PROVE Told' = Told
  <2>1. /\ pending' = IF slot' THEN pending ELSE <<>>
        /\ missed' = IF slot' THEN missed ELSE missed \cup Range(pending)
    BY <1>4, Zenon DEF RunTask
  <2>2. Range(<<>>) = {}
    BY DEF Range
  <2>3. Range(pending') = IF slot' THEN Range(pending) ELSE {}
    BY <2>1, <2>2, Zenon
  <2> QED
    BY <2>1, <2>3, Zenon DEF Told
<1>5. StartAgain => Told' = Told \cup snapshotting \cup Unlisted
  BY Zenon DEF StartAgain, database, Told
<1>6. UNCHANGED <<pending, missed>> => Told' = Told
  BY Zenon DEF Told
<1> QED
  BY <1>1, <1>2, <1>3, <1>4, <1>5, <1>6, Zenon

(***************************************************************************)
(* Steps after which less is asked, with the same tables.                  *)
(***************************************************************************)
LEMMA ToldRests ==
  ASSUME ToldOK, existing' = existing, catalog' = catalog, Told' = Told,
         main' \notin {"container", "failed", "down"} \/ Len(tasks') > 0 =>
           main \notin {"container", "failed", "down"} \/ Len(tasks) > 0
  PROVE  ToldOK'
BY Zenon DEF ToldOK

(***************************************************************************)
(* Every step keeps what is said of the tables that are told of.           *)
(***************************************************************************)
LEMMA ToldStep ==
  ASSUME ServicesOK, ListsOK, ToldOK, [Next]_vars
  PROVE  ToldOK'
<1>1. CASE CreateChunk \/ CreateTable
  <2>1. UNCHANGED <<main, tasks, catalog>>
    BY <1>1, Zenon DEF CreateChunk, CreateTable, process
  <2> QED
    BY <1>1, <2>1, ToldIs, Zenon DEF ToldOK
<1>2. CASE ReadCatalog
  BY <1>2, Zenon DEF ReadCatalog, database, ToldOK
<1>3. CASE \/ StartService \/ StartReplicationContext \/ CollectTables \/ CreatePublication \/ CreateReplicationSlot
           \/ AttachInitialTables \/ StartReplicationChannel
  <2>1. UNCHANGED <<existing, pending, missed, catalog>> /\ main \notin {"container", "failed", "down"}
    BY <1>3, Zenon DEF StartService, StartReplicationContext, CollectTables, CreatePublication, CreateReplicationSlot,
       AttachInitialTables, StartReplicationChannel, At, database
  <2> QED
    BY <2>1, ToldIs, ToldRests, Zenon
<1>4. CASE UNCHANGED vars \/ StartFails \/ Signal \/ StopReturns \/ Exit \/ AutoStore \/ Crash \/ SnapshotChunk
  <2>1. UNCHANGED <<existing, pending, missed, catalog, tasks>>
    BY <1>4, Zenon DEF vars, process, database, StartFails, Signal, StopReturns, Exit, AutoStore, Crash, SnapshotChunk
  <2>2. main' \notin {"container", "failed", "down"} => main' = main
    BY <1>4, Zenon DEF vars, process, StartFails, Signal, StopReturns, Exit, AutoStore, Crash, SnapshotChunk
  <2> QED
    BY <2>1, <2>2, ToldIs, ToldRests, Zenon
<1>5. CASE OnChunkAddedEvent
  <2>1. main = "run" /\ existing' = existing /\ catalog' = catalog \cup {Head(pending)}
    BY <1>5, Zenon DEF OnChunkAddedEvent, Replicating
  <2> QED
    BY <1>5, <2>1, ToldIs, Zenon DEF ToldOK
<1>6. CASE RunTask
  <2>1. UNCHANGED <<existing, catalog, main, tasks>>
    BY <1>6, Zenon DEF RunTask
  <2> QED
    BY <1>6, <2>1, ToldIs, ToldRests, Zenon
<1>7. CASE StartAgain
  <2>1. main' = "container" /\ tasks' = <<>>
    BY <1>7, Zenon DEF StartAgain
  <2>2. ~(Len(tasks') > 0)
    BY <2>1
  <2> QED
    BY <2>1, <2>2, Zenon DEF ToldOK
<1> QED
  BY <1>1, <1>2, <1>3, <1>4, <1>5, <1>6, <1>7, Zenon DEF Next

-----------------------------------------------------------------------------
(***************************************************************************)
(* The list that is saved is the one of the file or that of the catalog,   *)
(* and what is not in the catalog is told of.                              *)
(***************************************************************************)
LEMMA SavedCovers ==
  ASSUME ToldOK, main \notin {"container", "failed", "down"} \/ Len(tasks) > 0,
         existing' = existing, Told' = Told, file' = <<catalog>>
  PROVE  FoundOK'
<1>1. file'[1] = catalog
  BY Zenon
<1>2. existing' \subseteq Told' \cup file'[1]
  BY <1>1, Zenon DEF ToldOK
<1> QED
  BY <1>2, Zenon DEF FoundOK

(***************************************************************************)
(* A step with the publication, the file and the process as they were, or  *)
(* the publication with more.                                              *)
(***************************************************************************)
LEMMA FoundRests ==
  ASSUME FoundOK, file' = file, existing' \subseteq existing \cup Told', ~Lost \/ Lost',
         Published \cup Told \cup snapshotting \subseteq Published' \cup Told' \cup snapshotting'
  PROVE  FoundOK'
BY Zenon DEF FoundOK

(***************************************************************************)
(* Before the start is through, and while a streamer runs that is not to   *)
(* stop, nothing is lost.                                                  *)
(***************************************************************************)
LEMMA NotLost ==
  /\ main \in Range(Steps) => ~Lost
  /\ StartOK /\ main = "run" /\ stopped = "no" => ~Lost
BY StepsAre, Zenon DEF Lost, StartOK

(***************************************************************************)
(* The start.                                                              *)
(***************************************************************************)
LEMMA StartFound ==
  ASSUME ListsApart, ListsOK, FoundOK,
         \/ ReadCatalog \/ StartService \/ StartReplicationContext \/ CollectTables \/ CreatePublication
         \/ CreateReplicationSlot \/ AttachInitialTables \/ StartReplicationChannel \/ StartFails
  PROVE  FoundOK'
<1>1. main \in Range(Steps)
  BY StepsAre, Zenon DEF ReadCatalog, StartService, StartReplicationContext, CollectTables, CreatePublication,
         CreateReplicationSlot, AttachInitialTables, StartReplicationChannel, StartFails, At
<1>2. UNCHANGED <<existing, pending, missed, file, snapshotting>>
  BY Zenon DEF ReadCatalog, StartService, StartReplicationContext, CollectTables, CreatePublication,
         CreateReplicationSlot, AttachInitialTables, StartReplicationChannel, StartFails, database
<1>3. Published \subseteq Published'
  <2>1. CASE publication' = publication
    BY <2>1, Zenon DEF Published
  <2>2. CASE CreatePublication
    BY <2>2, Zenon DEF CreatePublication, Published
  <2>3. CASE AttachInitialTables
    <3>1. /\ initial # {} => publication # <<None>>
          /\ publication' = IF initial = {} THEN publication ELSE <<publication[1] \cup initial>>
      BY <2>3, Zenon DEF AttachInitialTables
    <3>2. CASE initial # {}
      <4>1. publication' = <<publication[1] \cup initial>> /\ Published = publication[1] /\ publication[1] \cup initial \in SUBSET All
        BY <3>1, <3>2, PublishedIs, Zenon DEF ListsOK
      <4>2. publication' # <<None>> /\ publication'[1] = publication[1] \cup initial
        BY <4>1, ListIs, Zenon
      <4> QED
        BY <4>1, <4>2, Zenon DEF Published
    <3> QED
      BY <3>1, <3>2, Zenon DEF Published
  <2> QED
    BY <2>1, <2>2, <2>3, Zenon DEF ReadCatalog, StartService, StartReplicationContext, CollectTables,
         CreateReplicationSlot, StartReplicationChannel, StartFails, database
<1> QED
  BY <1>1, <1>2, <1>3, NotLost, FoundRests, ToldIs, Zenon

(***************************************************************************)
(* A stop runs a task: the publication may go, and the list be saved.      *)
(***************************************************************************)
LEMMA TaskFound ==
  ASSUME NoneApart, ServicesOK, StoppingOK, ListsOK, KnownOK, ToldOK, FoundOK, RunTask
  PROVE  FoundOK'
<1> PICK n : n = Len(stopping)
  BY Zenon
<1>1. /\ main # "down" /\ UNCHANGED <<config, existing, main, tasks, catalog, stopped, snapshotting>>
      /\ IF stopping[n] = "channel" THEN DropCreated ELSE UNCHANGED <<slot, publication, created>>
      /\ file' = IF stopping[n] = "context" /\ config.file THEN known ELSE file
  BY Zenon DEF RunTask
<1>2. /\ n \in 1..7 /\ n <= Len(tasks) /\ FirstServices(stopping')
      /\ (stopping[n] = "channel" <=> n = 7) /\ (stopping[n] = "context" <=> n = 3) /\ (n = 7 => stopped = "full")
  BY TaskRun, Zenon
<1>3. Told' = Told /\ stopping' # <<None>>
  BY <1>2, NotNone, ToldIs, Zenon DEF FirstServices
<1>4. publication' = publication \/ (publication' = <<None>> /\ stopped = "full" /\ main = "run")
  BY <1>1, <1>2, Zenon DEF DropCreated, StoppingOK
<1>5. Len(tasks) \in Nat
  BY DEF ServicesOK, FirstServices
<1>6. CASE file' = file
  <2>1. CASE file' = <<None>>
    BY <2>1, Zenon DEF FoundOK
  <2>2. CASE file # <<None>> /\ Lost
    <3>1. Lost'
      BY <1>1, <1>3, <1>4, <1>6, <2>2, Zenon DEF Lost
    <3> QED
      BY <3>1, Zenon DEF FoundOK
  <2>3. CASE file # <<None>> /\ publication' = <<None>> /\ stopped = "full" /\ main = "run"
    <3>1. Lost'
      BY <1>1, <1>3, <1>6, <2>3, Zenon DEF Lost
    <3> QED
      BY <3>1, Zenon DEF FoundOK
  <2>4. CASE ~Lost /\ publication' = publication
    <3>1. Published' = Published
      BY <2>4, Zenon DEF Published
    <3> QED
      BY <1>1, <1>3, <1>6, <2>4, <3>1, FoundRests, Zenon
  <2> QED
    BY <1>4, <1>6, <2>1, <2>2, <2>3, <2>4, Zenon
<1>7. CASE file' # file
  <2>1. n = 3 /\ file' = known
    BY <1>1, <1>2, <1>7, Zenon
  <2>2. Len(tasks) >= 3
    BY <1>2, <1>5, <2>1, Zenon
  <2>3. file' = <<catalog>>
    BY <1>7, <2>1, <2>2, Zenon DEF KnownOK
  <2>4. Len(tasks) > 0
    BY <1>5, <2>2
  <2> QED
    BY <1>1, <1>3, <2>3, <2>4, SavedCovers, Zenon
<1> QED
  BY <1>6, <1>7, Zenon

(***************************************************************************)
(* The stop returns, and a full one has saved the list of the catalog.     *)
(***************************************************************************)
LEMMA ReturnFound ==
  ASSUME StoppingOK, ListsOK, KnownOK, ToldOK, FoundOK, StopReturns
  PROVE  FoundOK'
<1>1. /\ main # "down" /\ stopping = <<>> /\ main' = IF main = "failed" THEN "down" ELSE main
      /\ UNCHANGED <<existing, pending, missed, publication, file, stopped, snapshotting>>
  BY Zenon DEF StopReturns, database
<1>2. Told' = Told /\ Published' = Published
  BY <1>1, ToldIs, Zenon DEF Published
<1>3. CASE stopped = "full"
  <2>1. Len(stopping) < 3 /\ main = "run"
    BY <1>1, <1>3 DEF StoppingOK
  <2>2. config.file => file = <<catalog>>
    BY <1>3, <2>1, Zenon DEF KnownOK
  <2>3. ~config.file => file' = <<None>>
    BY <1>1, Zenon DEF ListsOK
  <2>4. CASE config.file
    BY <1>1, <1>2, <2>1, <2>2, <2>4, SavedCovers, Zenon
  <2> QED
    BY <2>3, <2>4, Zenon DEF FoundOK
<1>4. CASE stopped # "full"
  <2>1. Lost => Lost'
    BY <1>1, <1>4, Zenon DEF Lost
  <2> QED
    BY <1>1, <1>2, <2>1, FoundRests, Zenon
<1> QED
  BY <1>3, <1>4, Zenon

(***************************************************************************)
(* A chunk is snapshotted, and in the publication.                         *)
(***************************************************************************)
LEMMA ChunkPublished ==
  ASSUME ListsApart, ListsOK, StartOK, SnapshotChunk
  PROVE  publication' # <<None>> /\ \E c \in snapshotting : Published' = Published \cup {c} /\ snapshotting' = snapshotting \ {c}
<1>1. PICK c \in snapshotting :
        /\ main = "run" /\ stopped = "no"
        /\ snapshotting' = snapshotting \ {c} /\ publication' = <<publication[1] \cup {c}>>
  BY Zenon DEF SnapshotChunk, Replicating
<1>2. publication # <<None>>
  BY <1>1, Zenon DEF StartOK
<1>3. publication[1] \cup {c} \in SUBSET All /\ Published = publication[1]
  BY <1>2, PublishedIs, Zenon DEF ListsOK
<1>4. publication' # <<None>> /\ publication'[1] = publication[1] \cup {c}
  BY <1>1, <1>3, ListIs, Zenon
<1> QED
  BY <1>1, <1>3, <1>4, Zenon DEF Published

(***************************************************************************)
(* Every step keeps what the next start finds.                             *)
(***************************************************************************)
LEMMA FoundStep ==
  ASSUME NoneApart, ListsApart, ServicesOK, StoppingOK, ListsOK, KnownOK, ToldOK, FoundOK, StartOK, [Next]_vars
  PROVE  FoundOK'
<1>1. CASE UNCHANGED vars \/ CreateChunk \/ CreateTable
  <2>1. UNCHANGED <<publication, file, main, stopped, stopping, snapshotting>>
    BY <1>1, Zenon DEF vars, database, process, CreateChunk, CreateTable
  <2>2. Published' = Published /\ (Lost' <=> Lost)
    BY <2>1, Zenon DEF Published, Lost
  <2>3. existing' \subseteq existing \cup Told' /\ Told \subseteq Told'
    BY <1>1, ToldIs, Zenon DEF vars, database
  <2> QED
    BY <2>1, <2>2, <2>3, FoundRests, Zenon
<1>2. CASE OnChunkAddedEvent
  <2>1. /\ main = "run" /\ stopped = "no" /\ UNCHANGED <<existing, publication, file>>
        /\ snapshotting' = snapshotting \cup {Head(pending)}
    BY <1>2, Zenon DEF OnChunkAddedEvent, Replicating
  <2>2. Published' = Published /\ Told \subseteq Told' \cup {Head(pending)} /\ ~Lost
    BY <1>2, <2>1, ToldIs, NotLost, Zenon DEF Published
  <2> QED
    BY <2>1, <2>2, FoundRests, Zenon
<1>3. CASE SnapshotChunk
  <2>1. main = "run" /\ stopped = "no" /\ UNCHANGED <<existing, pending, missed, file>>
    BY <1>3, Zenon DEF SnapshotChunk, Replicating
  <2>2. Told' = Told /\ ~Lost /\ Published \cup snapshotting \subseteq Published' \cup snapshotting'
    BY <1>3, <2>1, ToldIs, NotLost, ChunkPublished, Zenon
  <2> QED
    BY <2>1, <2>2, FoundRests, Zenon
<1>4. CASE Signal
  <2>1. main \in Range(Steps) \cup {"run"} /\ stopped = "no" /\ UNCHANGED <<existing, pending, missed, publication, file, snapshotting>>
    BY <1>4, Zenon DEF Signal, database
  <2>2. Told' = Told /\ ~Lost /\ Published' = Published
    BY <2>1, ToldIs, NotLost, Zenon DEF Published
  <2> QED
    BY <2>1, <2>2, FoundRests, Zenon
<1>5. CASE Exit \/ Crash
  <2>1. main' = "down" /\ UNCHANGED <<existing, pending, missed, publication, file, snapshotting, stopped, stopping>>
    BY <1>5, Zenon DEF Exit, Crash, database
  <2>2. Told' = Told /\ (Lost => Lost') /\ Published' = Published
    BY <2>1, ToldIs, Zenon DEF Published, Lost
  <2> QED
    BY <2>1, <2>2, FoundRests, Zenon
<1>6. CASE AutoStore
  <2>1. "context" \in Range(tasks) /\ file # known /\ file' = known /\ UNCHANGED <<existing, pending, missed>>
    BY <1>6, Zenon DEF AutoStore, database
  <2>2. Len(tasks) \in Nat /\ Len(tasks) >= 3
    BY <2>1, ServiceThere, Zenon DEF ServicesOK
  <2>3. file' = <<catalog>> /\ Len(tasks) > 0
    BY <2>1, <2>2 DEF KnownOK
  <2> QED
    BY <2>1, <2>3, ToldIs, SavedCovers, Zenon
<1>7. CASE StartAgain
  <2>1. UNCHANGED <<existing, pending, publication, file>> /\ main = "down"
    BY <1>7, Zenon DEF StartAgain, database
  <2>2. Told' = Told \cup snapshotting \cup Unlisted /\ Published' = Published
    BY <1>7, <2>1, ToldIs, Zenon DEF Published
  <2>3. CASE Lost
    <3>1. Unlisted = existing \ (file[1] \cup Range(pending))
      BY <2>3, Zenon DEF Lost, Unlisted
    <3>2. existing' \subseteq Told' \cup file'[1]
      BY <2>1, <2>2, <3>1, Zenon DEF Told
    <3> QED
      BY <3>2, Zenon DEF FoundOK
  <2>4. CASE ~Lost
    BY <2>1, <2>2, <2>4, Zenon DEF FoundOK
  <2> QED
    BY <2>3, <2>4, Zenon
<1> QED
  BY <1>1, <1>2, <1>3, <1>4, <1>5, <1>6, <1>7, StartFound, TaskFound, ReturnFound, Zenon DEF Next

-----------------------------------------------------------------------------
(***************************************************************************)
(* The start collects the tables it is to publish: those it knows, and it  *)
(* is told of, or has missed, the others.                                  *)
(***************************************************************************)
LEMMA CollectStart ==
  ASSUME ServicesOK, ListsOK, KnownOK, FoundOK, CollectTables
  PROVE  StartOK'
<1>1. /\ main = "collect" /\ main' = "publication" /\ initial' = getKnownTables \ Published
      /\ UNCHANGED <<publication, pending, missed, known, catalog, stopped>>
  BY StepAfter, Zenon DEF CollectTables, At, database
<1>2. Published' = Published /\ Told' = Told
  BY <1>1, ToldIs, Zenon DEF Published
<1>3. CASE known = <<None>>
  <2>1. catalog \subseteq Published \cup initial'
    BY <1>1, <1>3, Zenon DEF getKnownTables
  <2> QED
    BY <1>1, <1>2, <2>1, Zenon DEF StartOK
<1>4. CASE known # <<None>> /\ stopped = "no"
  <2>1. Len(tasks) = 6 /\ snapshotting = {}
    BY <1>1, Zenon DEF ServicesOK, ListsOK
  <2>2. known = file
    <3>1. 6 >= 3
      OBVIOUS
    <3> QED
      BY <1>1, <1>4, <2>1, <3>1, Zenon DEF KnownOK
  <2>3. existing \subseteq Published \cup Told \cup known[1]
    BY <1>1, <1>4, <2>1, <2>2, Zenon DEF FoundOK, Lost
  <2>4. catalog \subseteq Published \cup initial' \cup Told
    BY <1>1, <1>4, <2>3, Zenon DEF getKnownTables, ListsOK
  <2> QED
    BY <1>1, <1>2, <1>4, <2>4, Zenon DEF StartOK
<1>5. CASE stopped # "no"
  BY <1>1, <1>5, Zenon DEF StartOK
<1> QED
  BY <1>3, <1>4, <1>5, Zenon

(***************************************************************************)
(* The publication is there, and gets the tables.                          *)
(***************************************************************************)
LEMMA PublishStart ==
  ASSUME ListsApart, ListsOK, ToldOK, StartOK,
         CreatePublication \/ CreateReplicationSlot \/ AttachInitialTables \/ StartReplicationChannel
  PROVE  StartOK'
<1>1. UNCHANGED <<existing, pending, missed, known, catalog, initial, snapshotting, stopped>>
  BY Zenon DEF CreatePublication, CreateReplicationSlot, AttachInitialTables, StartReplicationChannel, database
<1>2. Told' = Told
  BY <1>1, ToldIs, Zenon
<1>3. CASE CreatePublication
  <2>1. main = "publication" /\ main' = "slot" /\ publication' = IF publication = <<None>> THEN <<{}>> ELSE publication
    BY <1>3, StepAfter, Zenon DEF CreatePublication, At
  <2>2. <<{}>> # <<None>> /\ <<{}>>[1] = {}
    BY ListIs, Zenon
  <2>3. publication' # <<None>> /\ Published' = Published
    BY <2>1, <2>2, Zenon DEF Published
  <2> QED
    BY <1>1, <1>2, <2>1, <2>3, Zenon DEF StartOK
<1>4. CASE CreateReplicationSlot
  <2>1. main = "slot" /\ main' = "attach" /\ publication' = publication
    BY <1>4, StepAfter, Zenon DEF CreateReplicationSlot, At
  <2>2. Published' = Published
    BY <2>1, Zenon DEF Published
  <2> QED
    BY <1>1, <1>2, <2>1, <2>2, Zenon DEF StartOK
<1>5. CASE AttachInitialTables
  <2>1. /\ main = "attach" /\ main' = "replicate"
        /\ publication' = IF initial = {} THEN publication ELSE <<publication[1] \cup initial>>
    BY <1>5, StepAfter, Zenon DEF AttachInitialTables, At
  <2>2. publication # <<None>>
    BY <2>1, Zenon DEF StartOK
  <2>3. Published = publication[1] /\ publication[1] \cup initial \in SUBSET All
    BY <2>2, PublishedIs, Zenon DEF ListsOK
  <2>4. publication' # <<None>> /\ publication'[1] = publication[1] \cup initial
    BY <2>1, <2>2, <2>3, ListIs, Zenon
  <2>5. Published' = Published \cup initial
    BY <2>3, <2>4, Zenon DEF Published
  <2>6. existing \ catalog \subseteq Told
    BY <2>1, Zenon DEF ToldOK
  <2>7. stopped = "no" => catalog \subseteq Published \cup initial \cup Told
    BY <2>1, Zenon DEF StartOK
  <2>8. stopped = "no" => existing' \subseteq Published' \cup Told' \cup snapshotting'
    BY <1>1, <1>2, <2>5, <2>6, <2>7, Zenon
  <2>9. stopped = "no" /\ known = <<None>> => catalog \subseteq Published \cup initial
    BY <2>1, Zenon DEF StartOK
  <2> QED
    BY <1>1, <2>1, <2>4, <2>5, <2>8, <2>9, Zenon DEF StartOK
<1>6. CASE StartReplicationChannel
  <2>1. main = "replicate" /\ main' = "run" /\ publication' = publication
    BY <1>6, StepAfter, Zenon DEF StartReplicationChannel, At, database
  <2>2. Published' = Published
    BY <2>1, Zenon DEF Published
  <2> QED
    BY <1>1, <1>2, <2>1, <2>2, Zenon DEF StartOK
<1> QED
  BY <1>3, <1>4, <1>5, <1>6, Zenon

(***************************************************************************)
(* Every step keeps what a start has published and is about to.            *)
(***************************************************************************)
LEMMA StartStep ==
  ASSUME NoneApart, ListsApart, ServicesOK, StoppingOK, ListsOK, KnownOK, ToldOK, FoundOK, StartOK, [Next]_vars
  PROVE  StartOK'
<1>1. CASE UNCHANGED vars \/ CreateChunk \/ CreateTable \/ AutoStore
  <2>1. UNCHANGED <<publication, main, known, catalog, initial, snapshotting, stopped>>
    BY <1>1, Zenon DEF vars, database, process, CreateChunk, CreateTable, AutoStore
  <2>2. Published' = Published
    BY <2>1, Zenon DEF Published
  <2>3. existing' \subseteq existing \cup Told' /\ Told \subseteq Told'
    BY <1>1, ToldIs, Zenon DEF vars, database, AutoStore
  <2> QED
    BY <2>1, <2>2, <2>3, Zenon DEF StartOK
<1>2. CASE ReadCatalog \/ StartService \/ StartReplicationContext \/ StartFails \/ Exit \/ Crash \/ StartAgain
  <2>1. main' \in {"stats", "dispatcher", "context", "emitter", "snapshotter", "known", "collect", "failed", "down", "container"}
    BY <1>2, StepAfter, Zenon DEF ReadCatalog, StartService, StartReplicationContext, StartFails, Exit, Crash, StartAgain, At
  <2> QED
    BY <2>1, Zenon DEF StartOK
<1>3. CASE Signal \/ StopReturns
  <2>1. /\ UNCHANGED <<existing, pending, missed, publication, known, catalog, initial, snapshotting>>
        /\ main' = main \/ main' = "down"
        /\ stopped' = "no" => stopped = "no"
    BY <1>3, Zenon DEF Signal, StopReturns, database
  <2>2. Published' = Published /\ Told' = Told
    BY <2>1, ToldIs, Zenon DEF Published
  <2> QED
    BY <2>1, <2>2, Zenon DEF StartOK
<1>4. CASE RunTask
  <2>1. /\ main # "down" /\ stopping # <<None>> /\ UNCHANGED <<main, stopped>>
        /\ stopping[Len(stopping)] # "channel" => publication' = publication
    BY <1>4, Zenon DEF RunTask
  <2>2. stopped # "no" \/ main = "failed"
    BY <2>1, Zenon DEF StoppingOK
  <2>3. stopping[Len(stopping)] = "channel" => stopped = "full"
    BY <1>4, TaskRun, Zenon
  <2>4. stopped = "full" => main = "run"
    BY <2>1, Zenon DEF StoppingOK
  <2> QED
    BY <2>1, <2>2, <2>3, <2>4, Zenon DEF StartOK
<1>5. CASE OnChunkAddedEvent
  <2>1. /\ main = "run" /\ stopped = "no" /\ UNCHANGED <<existing, publication, main, stopped, known>>
        /\ catalog' = catalog \cup {Head(pending)} /\ snapshotting' = snapshotting \cup {Head(pending)}
    BY <1>5, Zenon DEF OnChunkAddedEvent, Replicating
  <2>2. Published' = Published /\ Told \subseteq Told' \cup {Head(pending)}
    BY <1>5, <2>1, ToldIs, Zenon DEF Published
  <2> QED
    BY <2>1, <2>2, Zenon DEF StartOK
<1>6. CASE SnapshotChunk
  <2>1. main = "run" /\ stopped = "no" /\ UNCHANGED <<existing, pending, missed, main, stopped, known, catalog>>
    BY <1>6, Zenon DEF SnapshotChunk, Replicating
  <2>2. publication' # <<None>> /\ Told' = Told /\ Published \cup snapshotting \subseteq Published' \cup snapshotting'
    BY <1>6, <2>1, ToldIs, ChunkPublished, Zenon
  <2> QED
    BY <2>1, <2>2, Zenon DEF StartOK
<1> QED
  BY <1>1, <1>2, <1>3, <1>4, <1>5, <1>6, CollectStart, PublishStart, Zenon DEF Next

(***************************************************************************)
(* The first start.                                                        *)
(***************************************************************************)
LEMMA InitPublish ==
  ASSUME Init
  PROVE  PublishInv
<1>1. FirstServices(<<>>) /\ Len(<<>>) = 0 /\ <<>> \in Seq(All) /\ Range(<<>>) = {}
  BY DEF FirstServices, Range
<1>2. ~(0 >= 3) /\ ~(0 > 0)
  OBVIOUS
<1>3. ServicesOK /\ StoppingOK
  BY <1>1, StepsAre, Zenon DEF Init, ServicesOK, StoppingOK
<1>4. ListsOK
  BY <1>1, Zenon DEF Init, ListsOK, All
<1>5. KnownOK /\ ToldOK
  BY <1>1, <1>2, Zenon DEF Init, KnownOK, ToldOK
<1>6. FoundOK /\ StartOK
  BY Zenon DEF Init, FoundOK, StartOK
<1> QED
  BY <1>3, <1>4, <1>5, <1>6, Zenon DEF PublishInv

(***************************************************************************)
(* A running streamer that is through with what the slot had for it has    *)
(* all tables in its publication but those it was not told of, after any   *)
(* number of starts, failures, stops and crashes.                          *)
(***************************************************************************)
THEOREM TablesPublished ==
  ASSUME NoneApart, ListsApart
  PROVE  Spec => []AllTablesPublished
<1>1. Init => PublishInv
  BY InitPublish, Zenon
<1>2. PublishInv /\ [Next]_vars => PublishInv'
  BY ControlStep, ListsStep, KnownStep, ToldStep, FoundStep, StartStep, Zenon DEF PublishInv
<1>3. PublishInv => AllTablesPublished
  <2> SUFFICES ASSUME PublishInv, Replicating, pending = <<>>, snapshotting = {}, NEW t \in existing \ Published
               PROVE  t \in missed /\ (known # <<None>> \/ t \notin catalog)
    BY Zenon DEF AllTablesPublished
  <2>1. Range(pending) = {}
    BY DEF Range
  <2>2. /\ existing \subseteq Published \cup Told \cup snapshotting
        /\ known = <<None>> => catalog \subseteq Published \cup snapshotting
    BY Zenon DEF PublishInv, StartOK, Replicating
  <2> QED
    BY <2>1, <2>2, Zenon DEF Told
<1> QED
  BY <1>1, <1>2, <1>3, PTL DEF Spec
=============================================================================
