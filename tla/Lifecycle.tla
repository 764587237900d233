------------------------------- MODULE Lifecycle -------------------------------
(***************************************************************************)
(* Starts and stops of the streamer and what outlives them: the            *)
(* replication slot, the publication with its tables, and the stored state *)
(* with the tables that were known at the last stop.  The main goroutine   *)
(* runs the steps of the start one after the other, each of which may      *)
(* fail; a signal stops the streamer from a goroutine of its own, during   *)
(* the start as well; the process may also end at any point.  The database *)
(* gains chunks and tables all the while.                                  *)
(***************************************************************************)
EXTENDS Integers, Sequences, FiniteSets, Functions

CONSTANTS None, Chunks, Tables,
          Configs,       \* [file, slotAutoDrop, publicationAutoDrop]
          MaxStarts      \* starts of the process

VARIABLES config,
          existing,      \* the selected chunks and PostgreSQL tables of the database
          slot,          \* TRUE if the replication slot exists
          pending,       \* chunks whose creation the slot still has to send
          publication,   \* its tables; None if there is no publication
          file,          \* the known tables in the state file; None if there are none
          main,          \* the main goroutine: a step of the start, "run", "down"
          tasks,         \* shutdownTasks
          stopping,      \* tasks that a stop has still to run; None if none is under way
          known,         \* the known tables in the loaded state
          catalog,       \* the tables in the system catalog
          initial,       \* the tables to add to the publication
          snapshotting,  \* chunks whose snapshot was asked for
          created,       \* what this process has created and not failed to drop
          stopped,       \* the stop a signal asked for: no, early (during the start), full
          missed,        \* tables the streamer was never told of
          starts

database == <<existing, slot, pending, publication>>
process == <<main, tasks, stopping, known, catalog, initial, snapshotting, created, stopped>>
vars == <<config, database, file, process, missed, starts>>

(* The components in the order they start.  A component has its shutdown   *)
(* task added when it has started.  The container makes them first: the    *)
(* resolver is made at once, and with it the catalog it needs, which reads *)
(* the tables when it is constructed.                                      *)
Steps == <<"container", "stats", "dispatcher", "context", "emitter", "snapshotter", "known", "collect",
           "publication", "slot", "attach", "replicate">>
NextStep(s) == LET i == CHOOSE i \in DOMAIN Steps : Steps[i] = s
               IN IF i = Len(Steps) THEN "run" ELSE Steps[i + 1]

Init ==
  /\ config \in Configs
  /\ existing \in {{}, Tables} /\ slot = FALSE /\ pending = <<>> /\ publication = <<None>>
  /\ file = <<None>>
  /\ main = "container" /\ tasks = <<>> /\ stopping = <<None>> /\ known = <<None>> /\ catalog = {}
  /\ initial = {} /\ snapshotting = {} /\ created = {} /\ stopped = "no"
  /\ missed = {} /\ starts = 1

-----------------------------------------------------------------------------
(* The database.  A chunk's creation is in the log a slot keeps; that of a *)
(* PostgreSQL table tells the streamer nothing.                            *)
CreateChunk ==
  \E c \in Chunks \ existing :
    /\ existing' = existing \cup {c}
    /\ pending' = IF slot THEN Append(pending, c) ELSE pending
    /\ missed' = IF slot THEN missed ELSE missed \cup {c}
    /\ UNCHANGED <<config, slot, publication, file, process, starts>>

CreateTable ==
  \E t \in Tables \ existing :
    /\ existing' = existing \cup {t}
    /\ missed' = missed \cup {t}
    /\ UNCHANGED <<config, slot, pending, publication, file, process, starts>>

-----------------------------------------------------------------------------
(* The start.                                                             *)
At(step) == main = step /\ main' = NextStep(step)
Registers(task) == tasks' = Append(tasks, task)

ReadCatalog ==
  /\ At("container")
  /\ catalog' = existing
  /\ UNCHANGED <<config, database, file, tasks, stopping, known, initial, snapshotting, created, stopped, missed, starts>>

StartService ==
  /\ \E step \in {"stats", "dispatcher", "emitter", "snapshotter", "known"} : At(step) /\ Registers(step)
  /\ UNCHANGED <<config, database, file, stopping, known, catalog, initial, snapshotting, created, stopped, missed, starts>>

(* The storage loads its file before its shutdown task exists: a state     *)
(* that was not loaded is never saved.                                     *)
StartReplicationContext ==
  /\ At("context") /\ Registers("context")
  /\ known' = IF config.file THEN file ELSE <<None>>
  /\ UNCHANGED <<config, database, file, stopping, catalog, initial, snapshotting, created, stopped, missed, starts>>

(* A faulty variant: without a list, none are known. *)
NoneWithoutList == IF known = <<None>> THEN {} ELSE known[1] \cap catalog

(* The known tables that still exist; without a list, all. *)
getKnownTables == IF known = <<None>> THEN catalog ELSE known[1] \cap catalog

(* ReadPublishedTables: none if there is no publication yet. *)
Published == IF publication = <<None>> THEN {} ELSE publication[1]

CollectTables ==
  /\ At("collect")
  /\ initial' = getKnownTables \ Published
  /\ UNCHANGED <<config, database, file, tasks, stopping, known, catalog, snapshotting, created, stopped, missed, starts>>

CreatePublication ==
  /\ At("publication")
  /\ publication' = IF publication = <<None>> THEN <<{}>> ELSE publication
  /\ created' = IF publication = <<None>> THEN created \cup {"publication"} ELSE created
  /\ UNCHANGED <<config, existing, slot, pending, file, tasks, stopping, known, catalog, initial, snapshotting, stopped, missed, starts>>

CreateReplicationSlot ==
  /\ At("slot")
  /\ slot' = TRUE
  /\ created' = IF slot THEN created ELSE created \cup {"slot"}
  /\ UNCHANGED <<config, existing, pending, publication, file, tasks, stopping, known, catalog, initial, snapshotting, stopped, missed, starts>>

(* ALTER PUBLICATION fails for a publication that a stop has dropped. *)
AttachInitialTables ==
  /\ At("attach") /\ (initial # {} => publication # <<None>>)
  /\ publication' = IF initial = {} THEN publication ELSE <<publication[1] \cup initial>>
  /\ UNCHANGED <<config, existing, slot, pending, file, tasks, stopping, known, catalog, initial, snapshotting, created, stopped, missed, starts>>

StartReplicationChannel ==
  /\ At("replicate") /\ Registers("channel")
  /\ UNCHANGED <<config, database, file, stopping, known, catalog, initial, snapshotting, created, stopped, missed, starts>>

(* Any step may fail; main then stops what was started, be a signal's stop *)
(* under way or not.                                                       *)
StartFails ==
  /\ main \in Range(Steps)
  /\ main' = "failed" /\ stopping' = tasks
  /\ UNCHANGED <<config, database, file, tasks, known, catalog, initial, snapshotting, created, stopped, missed, starts>>

-----------------------------------------------------------------------------
(* The running streamer learns of chunks from the stream, acknowledges,    *)
(* and publishes each in a snapshot of its own.                            *)
Replicating == main = "run" /\ stopping = <<None>> /\ stopped = "no"

OnChunkAddedEvent ==
  /\ Replicating /\ pending # <<>>
  /\ pending' = Tail(pending)
  /\ catalog' = catalog \cup {Head(pending)} /\ snapshotting' = snapshotting \cup {Head(pending)}
  /\ UNCHANGED <<config, existing, slot, publication, file, main, tasks, stopping, known, initial, created, stopped, missed, starts>>

SnapshotChunk ==
  /\ Replicating
  /\ \E c \in snapshotting :
       /\ snapshotting' = snapshotting \ {c}
       /\ publication' = <<publication[1] \cup {c}>>
  /\ UNCHANGED <<config, existing, slot, pending, file, main, tasks, stopping, known, catalog, initial, created, stopped, missed, starts>>

-----------------------------------------------------------------------------
(* A signal is handled by a goroutine of its own, which runs the tasks     *)
(* that are there when it comes.                                           *)
Signal ==
  /\ main \in Range(Steps) \cup {"run"} /\ stopping = <<None>> /\ stopped = "no"
  /\ stopping' = tasks
  /\ stopped' = IF main = "run" THEN "full" ELSE "early"
  /\ UNCHANGED <<config, database, file, main, tasks, known, catalog, initial, snapshotting, created, missed, starts>>

(* StopReplicationChannel: what this process created and may drop.  A drop *)
(* that fails is logged, and the stop goes on.                             *)
Droppable == {x \in created : IF x = "slot" THEN config.slotAutoDrop ELSE config.publicationAutoDrop}

DropCreated ==
  \E dropped \in SUBSET Droppable :
    /\ created' = created \ (Droppable \ dropped)
    /\ slot' = (slot /\ "slot" \notin dropped)
    /\ publication' = IF "publication" \in dropped THEN <<None>> ELSE publication

(* StopReplication: the tasks in reverse order.  The known tables are set  *)
(* before the storage saves its file.                                      *)
RunTask ==
  /\ main # "down" /\ stopping # <<None>> /\ stopping # <<>>
  /\ LET task == stopping[Len(stopping)]
     IN /\ stopping' = SubSeq(stopping, 1, Len(stopping) - 1)
        /\ IF task = "channel" THEN DropCreated ELSE UNCHANGED <<slot, publication, created>>
        /\ pending' = IF slot' THEN pending ELSE <<>>
        /\ missed' = IF slot' THEN missed ELSE missed \cup Range(pending)
        /\ known' = IF task = "known" THEN <<catalog>> ELSE known
        /\ file' = IF task = "context" /\ config.file THEN known ELSE file
  /\ UNCHANGED <<config, existing, main, tasks, catalog, initial, snapshotting, stopped, starts>>

(* A faulty variant: the stop does not wait for its tasks. *)
ReturnsAtOnce ==
  /\ main # "down" /\ stopping # <<None>> /\ stopping' = <<None>>
  /\ main' = IF main = "failed" THEN "down" ELSE main
  /\ UNCHANGED <<config, database, file, tasks, known, catalog, initial, snapshotting, created, stopped, missed, starts>>

StopReturns ==
  /\ main # "down" /\ stopping = <<>> /\ stopping' = <<None>>
  /\ main' = IF main = "failed" THEN "down" ELSE main
  /\ UNCHANGED <<config, database, file, tasks, known, catalog, initial, snapshotting, created, stopped, missed, starts>>

(* main waits for the signal's stop, which may have come early. *)
Exit ==
  /\ main = "run" /\ stopped # "no" /\ stopping = <<None>>
  /\ main' = "down"
  /\ UNCHANGED <<config, database, file, tasks, stopping, known, catalog, initial, snapshotting, created, stopped, missed, starts>>

(* The storage saves its file from time to time. *)
AutoStore ==
  /\ "context" \in Range(tasks) /\ main # "down" /\ config.file /\ file # known
  /\ file' = known
  /\ UNCHANGED <<config, database, process, missed, starts>>

Crash ==
  /\ main # "down" /\ main' = "down"
  /\ UNCHANGED <<config, database, file, tasks, stopping, known, catalog, initial, snapshotting, created, stopped, missed, starts>>

(* Tables whose publication is gone and that the stored list does not      *)
(* have, because the stop was not a full one.                              *)
Unlisted == IF publication = <<None>> /\ file # <<None>> /\ ~(stopped = "full" /\ stopping = <<None>>) 
            THEN existing \ (file[1] \cup Range(pending)) ELSE {}

(* A process that is run again.  A chunk whose creation was acknowledged   *)
(* is not heard of again.                                                  *)
StartAgain ==
  /\ main = "down" /\ starts < MaxStarts /\ starts' = starts + 1
  /\ main' = "container" /\ tasks' = <<>> /\ stopping' = <<None>> /\ known' = <<None>> /\ catalog' = {}
  /\ initial' = {} /\ snapshotting' = {} /\ created' = {} /\ stopped' = "no"
  /\ missed' = missed \cup snapshotting \cup Unlisted
  /\ UNCHANGED <<config, database, file>>

-----------------------------------------------------------------------------
Next ==
  \/ CreateChunk
  \/ CreateTable
  \/ ReadCatalog
  \/ StartService
  \/ StartReplicationContext
  \/ CollectTables
  \/ CreatePublication
  \/ CreateReplicationSlot
  \/ AttachInitialTables
  \/ StartReplicationChannel
  \/ StartFails
  \/ OnChunkAddedEvent
  \/ SnapshotChunk
  \/ Signal
  \/ RunTask
  \/ StopReturns
  \/ Exit
  \/ AutoStore
  \/ Crash
  \/ StartAgain

Spec == Init /\ [][Next]_vars

-----------------------------------------------------------------------------
(* A running streamer that is through with what the slot had for it has    *)
(* all selected tables in its publication, whatever starts, stops,         *)
(* failures and crashes came before.  The exceptions are tables it was not *)
(* told of: made while no slot existed, PostgreSQL tables made after the   *)
(* catalog was read, and chunks acknowledged but not published by a        *)
(* process that ended, tables whose publication was dropped by a stop that *)
(* did not get to store the list; and they are found at the next start     *)
(* unless a list of known tables was stored.                               *)
AllTablesPublished ==
  Replicating /\ pending = <<>> /\ snapshotting = {} =>
    \A t \in existing \ Published : t \in missed /\ (known # <<None>> \/ t \notin catalog)

(* A stop that was asked for after the start had succeeded leaves neither  *)
(* the slot nor the publication behind if this process made it and may     *)
(* drop it, unless the drop itself failed; that the one fails keeps the    *)
(* other from being dropped no more than the rest of the stop.             *)
CreatedIsDropped ==
  (main = "down" /\ stopped = "full" /\ stopping = <<None>>) =>
     /\ ~("slot" \in created /\ config.slotAutoDrop /\ slot)
     /\ ~("publication" \in created /\ config.publicationAutoDrop /\ publication # <<None>>)
=============================================================================
