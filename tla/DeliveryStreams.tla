--------------------------- MODULE DeliveryStreams ---------------------------
(***************************************************************************)
(* Small histories of a replication slot.                                  *)
(***************************************************************************)
EXTENDS Integers, Sequences

CONSTANTS metrics, catalog

Msg(kind, lsn, size, final, relation) ==
  [kind |-> kind, lsn |-> lsn, size |-> size, final |-> final, relation |-> relation]

(***************************************************************************)
(* Two transactions, one after the other.  A BEGIN starts where the first  *)
(* change starts; a COMMIT starts at the end of the commit record.         *)
(***************************************************************************)
SerialStream == <<
  Msg("begin", 20, 1, 40, metrics), Msg("insert", 20, 2, 40, metrics),
  Msg("change", 30, 3, 40, metrics), Msg("commit", 44, 1, 40, metrics),
  Msg("begin", 50, 1, 60, metrics), Msg("insert", 50, 2, 60, metrics),
  Msg("commit", 64, 1, 60, metrics) >>

(***************************************************************************)
(* Two transactions; the second one also writes a logical message that     *)
(* looks like a marker, and compresses a chunk.                            *)
(***************************************************************************)
MixedStream == <<
  Msg("begin", 20, 1, 40, metrics), Msg("insert", 20, 2, 40, metrics),
  Msg("change", 30, 3, 40, metrics), Msg("commit", 44, 1, 40, metrics),
  Msg("begin", 50, 1, 70, metrics), Msg("startmark", 50, 1, 70, metrics),
  Msg("compress", 60, 2, 70, catalog), Msg("commit", 74, 1, 70, metrics) >>

(***************************************************************************)
(* Two transactions of one row each.                                       *)
(***************************************************************************)
ShortStream == <<
  Msg("begin", 20, 1, 40, metrics), Msg("insert", 20, 2, 40, metrics),
  Msg("commit", 44, 1, 40, metrics),
  Msg("begin", 50, 1, 60, metrics), Msg("insert", 50, 2, 60, metrics),
  Msg("commit", 64, 1, 60, metrics) >>

(***************************************************************************)
(* A chunk is compressed and decompressed again by transactions that also  *)
(* write rows.                                                             *)
(***************************************************************************)
CompressionStream == <<
  Msg("begin", 20, 1, 50, metrics), Msg("insert", 20, 2, 50, metrics),
  Msg("compress", 30, 3, 50, catalog), Msg("commit", 54, 1, 50, metrics),
  Msg("begin", 60, 1, 80, metrics), Msg("decompress", 60, 2, 80, catalog),
  Msg("insert", 70, 2, 80, metrics), Msg("commit", 84, 1, 80, metrics) >>

(***************************************************************************)
(* A decompression with markers, and the deletion of a compressed chunk.   *)
(***************************************************************************)
MarkerStream == <<
  Msg("begin", 20, 1, 80, metrics), Msg("insert", 20, 2, 80, metrics),
  Msg("startmark", 30, 1, 80, metrics), Msg("insert", 40, 2, 80, metrics),
  Msg("endmark", 50, 1, 80, metrics), Msg("insert", 60, 2, 80, metrics),
  Msg("compress", 70, 1, 80, catalog), Msg("commit", 84, 1, 80, metrics),
  Msg("begin", 90, 1, 100, metrics), Msg("drop", 90, 2, 100, catalog),
  Msg("commit", 104, 1, 100, metrics) >>

(***************************************************************************)
(* The deletion of a compressed chunk, and a row.                          *)
(***************************************************************************)
DropStream == <<
  Msg("begin", 20, 1, 40, metrics), Msg("drop", 20, 2, 40, catalog),
  Msg("commit", 44, 1, 40, metrics),
  Msg("begin", 50, 1, 60, metrics), Msg("insert", 50, 2, 60, metrics),
  Msg("commit", 64, 1, 60, metrics) >>

(***************************************************************************)
(* One transaction of three changes.                                       *)
(***************************************************************************)
LongStream == <<
  Msg("begin", 20, 1, 50, metrics), Msg("insert", 20, 2, 50, metrics),
  Msg("insert", 30, 2, 50, metrics), Msg("insert", 40, 2, 50, metrics),
  Msg("commit", 54, 1, 50, metrics) >>

(***************************************************************************)
(* The first transaction starts writing before the second one, and commits *)
(* after it: its change lies at 20, before the other commit at 44.         *)
(***************************************************************************)
OverlappingStream == <<
  Msg("begin", 30, 1, 40, metrics), Msg("insert", 30, 2, 40, metrics),
  Msg("commit", 44, 1, 40, metrics),
  Msg("begin", 20, 1, 50, metrics), Msg("insert", 20, 2, 50, metrics),
  Msg("commit", 54, 1, 50, metrics) >>
===============================================================================
