----------------------- MODULE InitialSnapshotInvariant -----------------------
(***************************************************************************)
(* The inductive invariant behind RowsInKeyOrder and SnapshotComplete: one *)
(* table has its turn at a time; every copy of the snapshot context has    *)
(* the low watermark of a table either where this process found it or at   *)
(* the row it has handed on last; and a table is complete only when all of *)
(* its keys were handed on.                                                *)
(***************************************************************************)
EXTENDS InitialSnapshot

-----------------------------------------------------------------------------
(* Turns.                                                                  *)

(* A worker that has a table and has not yet waited for the dispatcher or  *)
(* queued the next batch.                                                  *)
Busy(p) == worker[p].at \in {"begin", "create", "load", "rows", "check"}

OnlyRows == \A i \in DOMAIN tasks : tasks[i].kind = "row"

Untouched(ts) == \A t \in ts : out[t] = <<>>

(* The table has its turn: nothing else is queued, and no table behind it  *)
(* has emitted a row.                                                      *)
Turn(t) ==
  /\ t \notin handled
  /\ \A i \in DOMAIN tasks : tasks[i].table = t
  /\ Untouched(Tables \ (handled \cup {t}))

TaskTurns ==
  /\ \A i, j \in DOMAIN tasks : tasks[i].table = tasks[j].table
  /\ \A i \in DOMAIN tasks :
       /\ tasks[i].kind # "row" => i = Len(tasks)
       /\ tasks[i].kind = "done" =>
            Turn(tasks[i].table) /\ worker[PartitionOf[tasks[i].table]].at = "wait"
       /\ tasks[i].kind \in {"started", "table", "finished"} =>
            Len(tasks) = 1 /\ Untouched(Tables \ handled)
       /\ tasks[i].kind = "started" => handled = {}
       /\ tasks[i].kind = "table" => tasks[i].table \notin handled
       /\ tasks[i].kind = "finished" => Tables \subseteq handled

WorkerTurns ==
  /\ \A p \in Partitions :
       /\ Busy(p) => /\ OnlyRows /\ queue[p] = <<>> /\ ~finished
                     /\ Turn(worker[p].table) /\ PartitionOf[worker[p].table] = p
       /\ queue[p] # <<>> => /\ OnlyRows /\ Len(queue[p]) = 1 /\ ~finished
                             /\ Turn(Head(queue[p]).table) /\ PartitionOf[Head(queue[p]).table] = p
  /\ \A p, q \in Partitions :
       p # q /\ (Busy(p) \/ queue[p] # <<>>) => ~Busy(q) /\ queue[q] = <<>>

EndTurns ==
  /\ out \in [Tables -> Seq(Nat)] /\ handled \subseteq Tables
  /\ finished => tasks = <<>> /\ Tables \subseteq handled
  /\ ~up => /\ handled = {} /\ ~finished /\ tasks = <<>>
            /\ \A p \in Partitions : queue[p] = <<>> /\ worker[p] = Idle

TurnInv == TaskTurns /\ WorkerTurns /\ EndTurns

-----------------------------------------------------------------------------
(* The rows of a table that this process has handed on: those it has       *)
(* emitted, then those in the queue, which are of one table and followed   *)
(* by at most one other task.                                              *)

Pending(t) ==
  IF tasks = <<>> \/ Head(tasks).table # t THEN 0
  ELSE IF tasks[Len(tasks)].kind = "row" THEN Len(tasks) ELSE Len(tasks) - 1

Size(t) == Len(out[t]) + Pending(t)
Nth(t, i) == IF i <= Len(out[t]) THEN out[t][i] ELSE tasks[i - Len(out[t])].row
LastRow(t) == Nth(t, Size(t))

(* The low watermark of a table in a copy of the context. *)
Low(c, t) == IF c = None \/ c[t] = None THEN 0 ELSE c[t].low

(* The row at which a pass over the table begins, when this process found  *)
(* its low watermark at this key.                                          *)
FirstRow(t, key) == LastUpTo(t, key) + 1

Passes(t, first) ==
  \A i \in 1..Size(t) :
    /\ Nth(t, i) \in 1..config.rows[t]
    /\ i = 1 => Nth(t, i) = first
    /\ i > 1 => Nth(t, i) > Nth(t, i - 1) \/ Nth(t, i) = first

AtEither(c, t, key) == Low(c, t) = key \/ (Size(t) > 0 /\ Low(c, t) = Key(t, LastRow(t)))

(* What a worker is about to hand on. *)
NextRows(w, t, first) ==
  w.at = "rows" /\ w.table = t =>
    /\ \A i \in DOMAIN w.batch : w.batch[i] \in 1..config.rows[t]
    /\ w.batch # <<>> => w.batch[1] = first \/ (Size(t) > 0 /\ w.batch[1] > LastRow(t))

CopiesAt(t, key) ==
  /\ (\A p \in Partitions : worker[p].at = "rows" => worker[p].table # t) => AtEither(context, t, key)
  /\ \A p \in Partitions :
       worker[p].at \notin {"idle", "begin"} =>
         IF PartitionOf[t] = p THEN AtEither(worker[p].local, t, key)
         ELSE Low(worker[p].local, t) = key

(* "found": the low watermarks with which this process has started. *)
OrderInv(found) ==
  /\ \A t \in Tables : Passes(t, FirstRow(t, found[t]))
  /\ up => \A t \in Tables \ handled : CopiesAt(t, found[t])
  /\ \A p \in Partitions, t \in Tables : NextRows(worker[p], t, FirstRow(t, found[t]))

-----------------------------------------------------------------------------
(* Completeness: what a context says of the tables it has, if the rows     *)
(* that were handed on have these keys.                                    *)

All(t, have) == 1..LastKey(t) \subseteq have[t]

Known(c, have) ==
  \A t \in Tables :
    c # None /\ c[t] # None =>
      /\ 1..c[t].low \subseteq have[t]
      /\ c[t].complete => All(t, have)
      /\ c[t].high \in {0, LastKey(t)}

ReadInv(have) ==
  /\ Known(context, have)
  /\ \A p \in Partitions : Known(worker[p].local, have)
  /\ \A t \in handled : All(t, have)
  /\ \A i \in DOMAIN tasks : tasks[i].kind = "done" => All(tasks[i].table, have)

(* The keys of the rows that any process has handed on, and this process.  *)
Have == [t \in Tables |-> KeysOf(t, emitted[t] \cup dropped[t] \cup QueuedRows(tasks, t))]
Here == [t \in Tables |-> KeysOf(t, {Nth(t, i) : i \in 1..Size(t)})]

(* A worker that hands on rows has a high watermark. *)
HighSet(w) == w.at = "rows" => w.local[w.table].high # 0

CompleteInv ==
  /\ ReadInv(Have) /\ Known(file.context, Have)
  /\ up /\ fresh => ReadInv(Here)
  /\ \A p \in Partitions : HighSet(worker[p])
===============================================================================
