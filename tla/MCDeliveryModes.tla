--------------------------- MODULE MCDeliveryModes ---------------------------
(***************************************************************************)
(* Delivery in six configurations, each with a history of its own: a      *)
(* transaction window and chunks that are compressed and decompressed, a   *)
(* window with rows that do not decode and sinks that fail, decompression  *)
(* alone over a restart, decompression markers, and no transaction window, *)
(* without markers and with them, when a decompression is emitted at once. *)
(* The relation cache of the replication connection is one more.  A        *)
(* behaviour stays in the one it starts in.                                *)
(***************************************************************************)
EXTENDS DeliveryStreams, RelationCache

VARIABLES
  slot, disk, phase, starts, restart, processed, offset, cursor, described,
  received, resolved, tasks, active, finalLSN, spilled, compression,
  decompression, ongoing, held, draining, closing, emitted, failed, dropped,
  mode         \* the configuration, by the name of its instance below

delivery ==
  <<slot, disk, phase, starts, restart, processed, offset, cursor, described,
    received, resolved, tasks, active, finalLSN, spilled, compression,
    decompression, ongoing, held, draining, closing, emitted, failed, dropped>>

Compression == INSTANCE DeliveryInvariant WITH
  Stream <- CompressionStream, Relations <- {metrics, catalog}, CreatedAt <- 10, XLogPos <- 5,
  Mode <- "window", WindowSize <- 3, GenCompression <- TRUE, GenDecompression <- TRUE,
  Faults <- FALSE, MaxStarts <- 1

Faulty == INSTANCE DeliveryInvariant WITH
  Stream <- ShortStream, Relations <- {metrics, catalog}, CreatedAt <- 10, XLogPos <- 5,
  Mode <- "window", WindowSize <- 3, GenCompression <- TRUE, GenDecompression <- TRUE,
  Faults <- TRUE, MaxStarts <- 2

Decompression == INSTANCE DeliveryInvariant WITH
  Stream <- SubSeq(CompressionStream, 5, 8), Relations <- {metrics, catalog}, CreatedAt <- 10, XLogPos <- 5,
  Mode <- "window", WindowSize <- 3, GenCompression <- TRUE, GenDecompression <- TRUE,
  Faults <- FALSE, MaxStarts <- 2

Markers == INSTANCE DeliveryInvariant WITH
  Stream <- MarkerStream, Relations <- {metrics, catalog}, CreatedAt <- 10, XLogPos <- 5,
  Mode <- "markers", WindowSize <- 3, GenCompression <- TRUE, GenDecompression <- FALSE,
  Faults <- FALSE, MaxStarts <- 2

Direct == INSTANCE DeliveryInvariant WITH
  Stream <- SerialStream, Relations <- {metrics, catalog}, CreatedAt <- 10, XLogPos <- 5,
  Mode <- "direct", WindowSize <- 3, GenCompression <- TRUE, GenDecompression <- TRUE,
  Faults <- FALSE, MaxStarts <- 2

DirectMarkers == INSTANCE DeliveryInvariant WITH
  Stream <- DropStream, Relations <- {metrics, catalog}, CreatedAt <- 10, XLogPos <- 5,
  Mode <- "directmarkers", WindowSize <- 3, GenCompression <- TRUE, GenDecompression <- TRUE,
  Faults <- FALSE, MaxStarts <- 2

(* Relation ids with gaps between them, so that the slice of the cache grows *)
(* at both ends by one and by more than one.                                 *)
SparseOids == {3, 4, 6, 9, 11, 12}

In(m) == mode = m /\ mode' = m

MCInit ==
  /\ NewRelationCache
  /\ \/ mode = "compression" /\ Compression!Init
     \/ mode = "faulty" /\ Faulty!Init
     \/ mode = "decompression" /\ Decompression!Init
     \/ mode = "markers" /\ Markers!Init
     \/ mode = "direct" /\ Direct!Init
     \/ mode = "directmarkers" /\ DirectMarkers!Init
     \/ mode = "cache" /\ Direct!Init

Delivers ==
  \/ In("compression") /\ Compression!Next
  \/ In("faulty") /\ Faulty!Next
  \/ In("decompression") /\ Decompression!Next
  \/ In("markers") /\ Markers!Next
  \/ In("direct") /\ Direct!Next
  \/ In("directmarkers") /\ DirectMarkers!Next

MCNext ==
  \/ Delivers /\ UNCHANGED cacheVars
  \/ In("cache") /\ CacheNext /\ UNCHANGED delivery

MCvars == <<mode, delivery, cacheVars>>

StartReplication ==
  \/ In("compression") /\ Compression!StartReplication
  \/ In("faulty") /\ Faulty!StartReplication
  \/ In("decompression") /\ Decompression!StartReplication
  \/ In("markers") /\ Markers!StartReplication
  \/ In("direct") /\ Direct!StartReplication
  \/ In("directmarkers") /\ DirectMarkers!StartReplication
Receive ==
  \/ In("compression") /\ Compression!Receive
  \/ In("faulty") /\ Faulty!Receive
  \/ In("decompression") /\ Decompression!Receive
  \/ In("markers") /\ Markers!Receive
  \/ In("direct") /\ Direct!Receive
  \/ In("directmarkers") /\ DirectMarkers!Receive
Dispatch ==
  \/ In("compression") /\ Compression!Dispatch
  \/ In("faulty") /\ Faulty!Dispatch
  \/ In("decompression") /\ Decompression!Dispatch
  \/ In("markers") /\ Markers!Dispatch
  \/ In("direct") /\ Direct!Dispatch
  \/ In("directmarkers") /\ DirectMarkers!Dispatch

(* The fairness of Delivery. *)
FairSpec ==
  /\ MCInit /\ [][MCNext]_MCvars
  /\ WF_MCvars(StartReplication /\ UNCHANGED cacheVars)
  /\ WF_MCvars(Receive /\ UNCHANGED cacheVars)
  /\ WF_MCvars(Dispatch /\ UNCHANGED cacheVars)

(***************************************************************************)
(* At-least-once delivery in each of the configurations: no row lies       *)
(* before the position from which a restart would resume unless it is      *)
(* settled (locateRestartLSN).                                             *)
(***************************************************************************)
NoLoss ==
  /\ mode = "compression" => Compression!NoLoss
  /\ mode = "faulty" => Faulty!NoLoss
  /\ mode = "decompression" => Decompression!NoLoss
  /\ mode = "markers" => Markers!NoLoss
  /\ mode = "direct" => Direct!NoLoss
  /\ mode = "directmarkers" => DirectMarkers!NoLoss

(***************************************************************************)
(* With decompression markers, and without a window, only the rows that a  *)
(* decompression inserts again are dropped (OnInsertEvent of the tracker). *)
(***************************************************************************)
OnlyReinsertedDropped ==
  /\ mode = "markers" => Markers!OnlyReinsertedDropped
  /\ mode = "direct" => Direct!OnlyReinsertedDropped

(***************************************************************************)
(* Every row of the stream is settled in the end, over a restart.          *)
(***************************************************************************)
EverythingSettled ==
  <>(/\ mode = "faulty" => Faulty!Rows \subseteq Faulty!Settled
     /\ mode = "decompression" => Decompression!Rows \subseteq Decompression!Settled
     /\ mode = "markers" => Markers!Rows \subseteq Markers!Settled
     /\ mode = "direct" => Direct!Rows \subseteq Direct!Settled
     /\ mode = "directmarkers" => DirectMarkers!Rows \subseteq DirectMarkers!Settled)
===============================================================================
