----------------------------- MODULE TaskManager -----------------------------
(***************************************************************************)
(* The task manager (internal/taskmanager) on its unbounded channel        *)
(* (internal/containers/unboundedchannel.go), the goroutines that use it,  *)
(* and their orderly shutdown (Replicator.StopReplication).                *)
(*                                                                         *)
(* The receive loop enqueues messages.  The dispatcher runs one task at a  *)
(* time; a task may enqueue more tasks, or hand a chunk to the queue of a  *)
(* snapshot worker.  A worker enqueues the rows of its chunk and waits for *)
(* the task that ends the snapshot.                                        *)
(***************************************************************************)
EXTENDS Integers, Sequences, FiniteSets

CONSTANTS
  Workers,       \* the snapshot workers, one per partition
  Receiver,      \* the receive loop
  Dispatcher,
  None,          \* no task
  Capacity,      \* of a worker's queue (128 in the code)
  MaxMessages,   \* bound: messages received
  MaxRecords,    \* bound: events that tasks enqueue
  MaxChunks,     \* bound: chunks to be snapshotted
  MaxRows        \* bound: rows in a chunk

ASSUME GoroutinesDiffer ==
  /\ Receiver # Dispatcher
  /\ Receiver \notin Workers /\ Dispatcher \notin Workers

ASSUME BoundsAreNaturals ==
  /\ Capacity \in Nat /\ MaxMessages \in Nat /\ MaxRecords \in Nat
  /\ MaxChunks \in Nat /\ MaxRows \in Nat

Goroutines == Workers \cup {Receiver, Dispatcher}

Message == [kind |-> "message", worker |-> None]
Record == [kind |-> "record", worker |-> None]
Submit(w) == [kind |-> "submit", worker |-> w]
Row(w) == [kind |-> "row", worker |-> w]
Finish(w) == [kind |-> "finish", worker |-> w]

Tasks == {Message, Record} \cup {Submit(w) : w \in Workers}
           \cup {Row(w) : w \in Workers} \cup {Finish(w) : w \in Workers}

NoTask == [kind |-> "none", worker |-> None]

VARIABLES
  pc,              \* where each goroutine is
  sending,         \* the task it is about to send
  inQueue,         \* the queue of the unbounded channel
  closed,          \* its closed flag
  inClosed,        \* its input channel is closed
  shutdownActive,  \* the flag of the task manager
  running,         \* the task the dispatcher runs
  snapshotQueue,   \* chunks in the queue of each worker
  rows,            \* rows of its chunk that a worker has still to send
  signalled,       \* goroutines that have been told to shut down
  stop,            \* the progress of StopReplication
  messages, records, chunks,   \* counted against the bounds
  refused          \* goroutines whose task was refused (history)

channel == <<inQueue, closed, inClosed>>
counters == <<messages, records, chunks>>
vars == <<pc, sending, channel, shutdownActive, running, snapshotQueue, rows,
          signalled, stop, counters, refused>>

Init ==
  /\ pc = [g \in Goroutines |-> "idle"]
  /\ sending = [g \in Goroutines |-> NoTask]
  /\ inQueue = <<>> /\ closed = FALSE /\ inClosed = FALSE
  /\ shutdownActive = FALSE
  /\ running = NoTask
  /\ snapshotQueue = [w \in Workers |-> 0]
  /\ rows = [w \in Workers |-> 0]
  /\ signalled = {}
  /\ stop = "running"
  /\ messages = 0 /\ records = 0 /\ chunks = 0
  /\ refused = {}

(***************************************************************************)
(* A panic in any goroutine, and Fatalf, end the program.                  *)
(***************************************************************************)
Down == \E g \in Goroutines : pc[g] \in {"panicked", "fatal"}

At(g, place) == ~Down /\ pc[g] = place

-----------------------------------------------------------------------------
(* EnqueueTask and EnqueueTaskAndWait, in the three steps between which    *)
(* other goroutines run: the test of shutdownActive, the test of closed,   *)
(* and the send.                                                           *)

(***************************************************************************)
(* Where a goroutine goes on when its call returns: the worker that has    *)
(* sent the last task of its snapshot waits for it.                        *)
(***************************************************************************)
ReturnsTo(g) ==
  IF g = Dispatcher THEN "running"
  ELSE IF g = Receiver THEN "idle"
  ELSE IF sending[g] = Finish(g) THEN "waiting" ELSE "snapshot"

(***************************************************************************)
(* The receive loop and the dispatcher log a refused task; a snapshot that *)
(* fails is fatal.                                                         *)
(***************************************************************************)
RefusedTo(g) ==
  IF g = Dispatcher THEN "running" ELSE IF g = Receiver THEN "idle" ELSE "fatal"

EnqueueTask(g, task) ==
  IF shutdownActive
    THEN /\ pc' = [pc EXCEPT ![g] = RefusedTo(g)]
         /\ refused' = refused \cup {g}
         /\ UNCHANGED sending
    ELSE /\ pc' = [pc EXCEPT ![g] = "admitted"]
         /\ sending' = [sending EXCEPT ![g] = task]
         /\ UNCHANGED refused

(***************************************************************************)
(* A closed channel takes nothing more, and says nothing.                  *)
(***************************************************************************)
Send(g) ==
  /\ At(g, "admitted")
  /\ IF closed
       THEN /\ pc' = [pc EXCEPT ![g] = ReturnsTo(g)]
            /\ sending' = [sending EXCEPT ![g] = NoTask]
       ELSE /\ pc' = [pc EXCEPT ![g] = "open"]
            /\ UNCHANGED sending
  /\ UNCHANGED <<channel, shutdownActive, running, snapshotQueue, rows,
                 signalled, stop, counters, refused>>

(***************************************************************************)
(* A faulty variant: the newest task is run first.                         *)
(***************************************************************************)
PumpNewest(g) ==
  /\ At(g, "open")
  /\ ~inClosed
  /\ inQueue' = <<sending[g]>> \o inQueue
  /\ pc' = [pc EXCEPT ![g] = ReturnsTo(g)]
  /\ sending' = [sending EXCEPT ![g] = NoTask]
  /\ UNCHANGED <<closed, inClosed, shutdownActive, running, snapshotQueue, rows,
                 signalled, stop, counters, refused>>

(***************************************************************************)
(* The goroutine of the channel takes the task; it always listens until    *)
(* the input is closed.  Sending on a closed channel panics.               *)
(***************************************************************************)
Pump(g) ==
  /\ At(g, "open")
  /\ IF inClosed
       THEN /\ pc' = [pc EXCEPT ![g] = "panicked"]
            /\ UNCHANGED <<inQueue, sending>>
       ELSE /\ inQueue' = Append(inQueue, sending[g])
            /\ pc' = [pc EXCEPT ![g] = ReturnsTo(g)]
            /\ sending' = [sending EXCEPT ![g] = NoTask]
  /\ UNCHANGED <<closed, inClosed, shutdownActive, running, snapshotQueue, rows,
                 signalled, stop, counters, refused>>

-----------------------------------------------------------------------------
(* The receive loop.                                                       *)

Receive ==
  /\ At(Receiver, "idle")
  /\ messages < MaxMessages
  /\ messages' = messages + 1
  /\ EnqueueTask(Receiver, Message)
  /\ UNCHANGED <<channel, shutdownActive, running, snapshotQueue, rows,
                 signalled, stop, records, chunks>>

(***************************************************************************)
(* A goroutine at the top of its loop that has been told to shut down      *)
(* leaves it; the dispatcher does not look at the queue any more.          *)
(***************************************************************************)
Leave(g) ==
  /\ At(g, "idle")
  /\ g \in signalled
  /\ pc' = [pc EXCEPT ![g] = "done"]
  /\ UNCHANGED <<sending, channel, shutdownActive, running, snapshotQueue, rows,
                 signalled, stop, counters, refused>>

-----------------------------------------------------------------------------
(* The dispatcher.                                                         *)

(***************************************************************************)
(* The next task of the queue is run.                                      *)
(***************************************************************************)
Dispatch ==
  /\ At(Dispatcher, "idle")
  /\ inQueue # <<>>
  /\ running' = Head(inQueue)
  /\ inQueue' = Tail(inQueue)
  /\ pc' = [pc EXCEPT ![Dispatcher] = "running"]
  /\ UNCHANGED <<sending, closed, inClosed, shutdownActive, snapshotQueue, rows,
                 signalled, stop, counters, refused>>

(***************************************************************************)
(* A message creates events, or names a new chunk to be snapshotted.       *)
(***************************************************************************)
EnqueueRecord ==
  /\ At(Dispatcher, "running") /\ running.kind = "message"
  /\ records < MaxRecords
  /\ records' = records + 1
  /\ EnqueueTask(Dispatcher, Record)
  /\ UNCHANGED <<channel, shutdownActive, running, snapshotQueue, rows,
                 signalled, stop, messages, chunks>>

EnqueueSnapshot(w) ==
  /\ At(Dispatcher, "running") /\ running.kind = "message"
  /\ chunks < MaxChunks
  /\ chunks' = chunks + 1
  /\ EnqueueTask(Dispatcher, Submit(w))
  /\ UNCHANGED <<channel, shutdownActive, running, snapshotQueue, rows,
                 signalled, stop, messages, records>>

(***************************************************************************)
(* The task that hands a chunk to a worker blocks while its queue is full. *)
(***************************************************************************)
SubmitSnapshot(w) ==
  /\ At(Dispatcher, "running") /\ running = Submit(w)
  /\ snapshotQueue[w] < Capacity
  /\ snapshotQueue' = [snapshotQueue EXCEPT ![w] = @ + 1]
  /\ running' = NoTask
  /\ pc' = [pc EXCEPT ![Dispatcher] = "idle"]
  /\ UNCHANGED <<sending, channel, shutdownActive, rows, signalled, stop, counters, refused>>

(***************************************************************************)
(* A faulty variant: the waiter is not signalled.                          *)
(***************************************************************************)
FinishTaskSilently ==
  /\ At(Dispatcher, "running") /\ running.kind # "submit"
  /\ running' = NoTask
  /\ pc' = [pc EXCEPT ![Dispatcher] = "idle"]
  /\ UNCHANGED <<sending, channel, shutdownActive, snapshotQueue, rows,
                 signalled, stop, counters, refused>>

(***************************************************************************)
(* Any other task ends; the one that a worker waits for signals it.        *)
(***************************************************************************)
FinishTask ==
  /\ At(Dispatcher, "running") /\ running.kind # "submit"
  /\ running' = NoTask
  /\ pc' = [g \in Goroutines |->
              IF g = Dispatcher \/ running = Finish(g) THEN "idle" ELSE pc[g]]
  /\ UNCHANGED <<sending, channel, shutdownActive, snapshotQueue, rows,
                 signalled, stop, counters, refused>>

-----------------------------------------------------------------------------
(* The snapshot workers.                                                   *)

TakeSnapshot(w) ==
  /\ At(w, "idle")
  /\ snapshotQueue[w] > 0
  /\ snapshotQueue' = [snapshotQueue EXCEPT ![w] = @ - 1]
  /\ \E n \in 0 .. MaxRows : rows' = [rows EXCEPT ![w] = n]
  /\ pc' = [pc EXCEPT ![w] = "snapshot"]
  /\ UNCHANGED <<sending, channel, shutdownActive, running, signalled, stop, counters, refused>>

SendRow(w) ==
  /\ At(w, "snapshot")
  /\ rows[w] > 0
  /\ rows' = [rows EXCEPT ![w] = @ - 1]
  /\ EnqueueTask(w, Row(w))
  /\ UNCHANGED <<channel, shutdownActive, running, snapshotQueue, signalled, stop, counters>>

(***************************************************************************)
(* A faulty variant: the snapshot is ended before its last row.            *)
(***************************************************************************)
FinishSnapshotEarly(w) ==
  /\ At(w, "snapshot")
  /\ EnqueueTask(w, Finish(w))
  /\ UNCHANGED <<channel, shutdownActive, running, snapshotQueue, rows, signalled, stop, counters>>

FinishSnapshot(w) ==
  /\ At(w, "snapshot")
  /\ rows[w] = 0
  /\ EnqueueTask(w, Finish(w))
  /\ UNCHANGED <<channel, shutdownActive, running, snapshotQueue, rows, signalled, stop, counters>>

-----------------------------------------------------------------------------
(* StopReplication runs the shutdown tasks in the reverse order of their   *)
(* registration: the replication channel, the snapshotter, then, after the *)
(* stop of the sink and of the state storage, the task manager.            *)

StopIs(from, to) == ~Down /\ stop = from /\ stop' = to

StopReplicationChannel ==
  /\ StopIs("running", "channel")
  /\ signalled' = signalled \cup {Receiver}
  /\ UNCHANGED <<pc, sending, channel, shutdownActive, running, snapshotQueue, rows,
                 counters, refused>>

(***************************************************************************)
(* A faulty variant: the snapshotter is told to stop and not waited for.   *)
(***************************************************************************)
SnapshotterStoppedAtOnce == pc[Receiver] = "done"

SnapshotterStopped == \A w \in Workers : pc[w] = "done"

(***************************************************************************)
(* A faulty variant: the receive loop is not waited for.                   *)
(***************************************************************************)
StopSnapshotterEarly ==
  /\ StopIs("channel", "snapshotter")
  /\ signalled' = signalled \cup Workers
  /\ UNCHANGED <<pc, sending, channel, shutdownActive, running, snapshotQueue, rows,
                 counters, refused>>

StopSnapshotter ==
  /\ StopIs("channel", "snapshotter")
  /\ pc[Receiver] = "done"
  /\ signalled' = signalled \cup Workers
  /\ UNCHANGED <<pc, sending, channel, shutdownActive, running, snapshotQueue, rows,
                 counters, refused>>

(***************************************************************************)
(* StopDispatcher: the flag of the task manager, the signal to the         *)
(* dispatcher, the flag of the channel, and the closing of the channel.    *)
(***************************************************************************)
StopDispatcher ==
  /\ StopIs("snapshotter", "active")
  /\ SnapshotterStopped
  /\ shutdownActive' = TRUE
  /\ UNCHANGED <<pc, sending, channel, running, snapshotQueue, rows, signalled,
                 counters, refused>>

(***************************************************************************)
(* A faulty variant: the dispatcher is never told.                         *)
(***************************************************************************)
SignalNobody ==
  /\ StopIs("active", "signalled")
  /\ UNCHANGED <<pc, sending, channel, shutdownActive, running, snapshotQueue, rows,
                 signalled, counters, refused>>

SignalDispatcher ==
  /\ StopIs("active", "signalled")
  /\ signalled' = signalled \cup {Dispatcher}
  /\ UNCHANGED <<pc, sending, channel, shutdownActive, running, snapshotQueue, rows,
                 counters, refused>>

FlagClosed ==
  /\ StopIs("signalled", "flagged")
  /\ closed' = TRUE
  /\ UNCHANGED <<pc, sending, inQueue, inClosed, shutdownActive, running, snapshotQueue, rows,
                 signalled, counters, refused>>

CloseInput ==
  /\ StopIs("flagged", "closed")
  /\ inClosed' = TRUE
  /\ UNCHANGED <<pc, sending, inQueue, closed, shutdownActive, running, snapshotQueue, rows,
                 signalled, counters, refused>>

StopReturns ==
  /\ StopIs("closed", "stopped")
  /\ pc[Dispatcher] = "done"
  /\ UNCHANGED <<pc, sending, channel, shutdownActive, running, snapshotQueue, rows,
                 signalled, counters, refused>>

Stop == \/ StopReplicationChannel \/ StopSnapshotter \/ StopDispatcher \/ SignalDispatcher
        \/ FlagClosed \/ CloseInput \/ StopReturns

-----------------------------------------------------------------------------

Enqueue(g) == Send(g) \/ Pump(g)

Receiving == Receive \/ Leave(Receiver) \/ Enqueue(Receiver)

Dispatching ==
  \/ Dispatch \/ EnqueueRecord \/ FinishTask \/ Leave(Dispatcher) \/ Enqueue(Dispatcher)
  \/ \E w \in Workers : EnqueueSnapshot(w) \/ SubmitSnapshot(w)

Snapshotting(w) ==
  TakeSnapshot(w) \/ SendRow(w) \/ FinishSnapshot(w) \/ Leave(w) \/ Enqueue(w)

Next == Receiving \/ Dispatching \/ Stop \/ \E w \in Workers : Snapshotting(w)

Spec == Init /\ [][Next]_vars

(***************************************************************************)
(* Every goroutine that can go on does.  Whether and when the streamer is  *)
(* stopped is not up to it, but a StopReplication that was called goes on. *)
(***************************************************************************)
Fairness ==
  /\ WF_vars(Receiving)
  /\ WF_vars(Dispatching)
  /\ WF_vars(stop # "running" /\ Stop)
  /\ \A w \in Workers : WF_vars(Snapshotting(w))

FairSpec == Spec /\ Fairness

-----------------------------------------------------------------------------
(* Properties.                                                             *)

PcValues == {"idle", "admitted", "open", "running", "snapshot", "waiting", "done",
             "panicked", "fatal"}

StopValues == {"running", "channel", "snapshotter", "active", "signalled", "flagged",
               "closed", "stopped"}

(***************************************************************************)
(* The goroutines, the queue and StopReplication are in states they know.  *)
(***************************************************************************)
TypeOK ==
  /\ pc \in [Goroutines -> PcValues]
  /\ sending \in [Goroutines -> Tasks \cup {NoTask}]
  /\ inQueue \in Seq(Tasks)
  /\ closed \in BOOLEAN /\ inClosed \in BOOLEAN /\ shutdownActive \in BOOLEAN
  /\ running \in Tasks \cup {NoTask}
  /\ snapshotQueue \in [Workers -> 0 .. Capacity]
  /\ rows \in [Workers -> 0 .. MaxRows]
  /\ signalled \subseteq Goroutines
  /\ stop \in StopValues
  /\ messages \in 0 .. MaxMessages /\ records \in 0 .. MaxRecords /\ chunks \in 0 .. MaxChunks
  /\ refused \subseteq Goroutines

(***************************************************************************)
(* EnqueueTaskAndWait (taskmanager.go:244) has no timeout: when the        *)
(* dispatcher leaves its loop (taskmanager.go:199), no snapshot worker may *)
(* still wait for a task, or be about to.                                  *)
(***************************************************************************)
NoWaiterLeftBehind == pc[Dispatcher] = "done" => \A w \in Workers : pc[w] = "done"

(***************************************************************************)
(* An orderly shutdown refuses only tasks that the dispatcher itself       *)
(* creates: a row of a snapshot that is refused kills the streamer         *)
(* (snapshotter.go:185), and a message of the WAL would be lost.           *)
(***************************************************************************)
OnlyDispatcherRefused == refused \subseteq {Dispatcher}

(***************************************************************************)
(* When the task runs that ends the snapshot of a chunk                    *)
(* (snapshotter.go:258), every row of the chunk has been handed to the     *)
(* event emitter.                                                          *)
(***************************************************************************)
RowsBeforeFinish ==
  \A w \in Workers :
    running = Finish(w) =>
      /\ rows[w] = 0
      /\ \A n \in DOMAIN inQueue : inQueue[n] # Row(w)

(***************************************************************************)
(* A goroutine sends only tasks, and a worker's tasks are its own.         *)
(***************************************************************************)
SendingInv ==
  /\ \A g \in Goroutines : pc[g] \in {"admitted", "open"} => sending[g] \in Tasks
  /\ \A g \in Goroutines, w \in Workers : sending[g] \in {Row(w), Finish(w)} => g = w
  /\ \A w \in Workers : sending[w] = Finish(w) => /\ rows[w] = 0
                                                  /\ pc[w] \in {"admitted", "open", "panicked"}

(***************************************************************************)
(* Behind the task that ends a snapshot the queue holds no other task of   *)
(* its worker, who waits for it.                                           *)
(***************************************************************************)
FinishInv ==
  /\ \A w \in Workers, n \in DOMAIN inQueue :
       inQueue[n] = Finish(w) =>
         /\ pc[w] = "waiting" /\ rows[w] = 0
         /\ \A m \in DOMAIN inQueue : n < m => inQueue[m] \notin {Row(w), Finish(w)}
  /\ \A w \in Workers :
       running = Finish(w) =>
         /\ pc[w] = "waiting" /\ rows[w] = 0
         /\ \A m \in DOMAIN inQueue : inQueue[m] \notin {Row(w), Finish(w)}

Stopping == {"active", "signalled", "flagged", "closed", "stopped"}

(***************************************************************************)
(* What StopReplication has waited for: the receive loop before it stops   *)
(* the snapshotter, the workers before it stops the dispatcher.            *)
(***************************************************************************)
StopInv ==
  /\ shutdownActive => stop \in Stopping
  /\ stop \in Stopping \cup {"snapshotter"} => pc[Receiver] = "done"
  /\ stop \in Stopping => SnapshotterStopped
  /\ Dispatcher \in signalled => stop \in Stopping
  /\ pc[Dispatcher] = "done" => Dispatcher \in signalled

(***************************************************************************)
(* The inductive invariant behind the three properties above.              *)
(***************************************************************************)
TaskInv == TypeOK /\ SendingInv /\ FinishInv /\ StopInv /\ OnlyDispatcherRefused

(***************************************************************************)
(* A snapshot worker that waits for the dispatcher is released, unless the *)
(* program dies.                                                           *)
(***************************************************************************)
WaitersReleased == \A w \in Workers : pc[w] = "waiting" ~> (pc[w] # "waiting" \/ Down)

(***************************************************************************)
(* StopReplication "blocks until the shutdown process has finished"        *)
(* (replicator.go:233): it returns, unless the program dies.               *)
(***************************************************************************)
StopTerminates == stop # "running" ~> (stop = "stopped" \/ Down)

(***************************************************************************)
(* "Prevent writing to a closed channel" (unboundedchannel.go:77).         *)
(***************************************************************************)
NoSendOnClosed == \A g \in Goroutines : pc[g] # "panicked"

===============================================================================
