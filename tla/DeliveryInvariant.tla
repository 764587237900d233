--------------------------- MODULE DeliveryInvariant ---------------------------
(***************************************************************************)
(* The inductive invariants behind NoLoss, InOrder and AcknowledgedIsDone, *)
(* and the condition on the WAL under which they hold.                     *)
(***************************************************************************)
EXTENDS Delivery

Lsn(i) == Stream[i].lsn
End(i) == Stream[i].lsn + Stream[i].size
Kind(i) == Stream[i].kind

(***************************************************************************)
(* Transactions do not overlap in the WAL and no message is longer than    *)
(* the record it was decoded from: a row starts behind the end of every    *)
(* message sent before it, with MaxStarts + 1 positions to spare, because  *)
(* the confirmed position moves on by one with every start.  (A Begin      *)
(* message carries the position of the first record of its transaction.)   *)
(***************************************************************************)
Spaced ==
  \A j \in Rows :
    /\ CreatedAt + MaxStarts <= Lsn(j)
    /\ \A i \in Positions : i < j /\ Kind(i) # "begin" => End(i) + MaxStarts + 1 <= Lsn(j)

(***************************************************************************)
(* With decompression markers, decompression events are emitted at once,   *)
(* ahead of the queue.                                                     *)
(***************************************************************************)
NothingAtOnce == ~(Marking /\ GenDecompression)

Unsettled == Rows \ Settled

(***************************************************************************)
(* The starts that are still to come; each may cost one position.          *)
(***************************************************************************)
Spare == MaxStarts - starts

(***************************************************************************)
(* What is durable, the confirmed position and the stored offset, stays    *)
(* before every unsettled row, with room for the starts to come.           *)
(***************************************************************************)
AckBound ==
  /\ slot >= 1
  /\ \A j \in Unsettled : slot + Spare <= Lsn(j) /\ disk + Spare <= Lsn(j)

(***************************************************************************)
(* So do the positions of the running session; lastProcessedLSN is         *)
(* reported to the server plus one.                                        *)
(***************************************************************************)
SessionBound ==
  phase = "up" => \A j \in Unsettled : /\ restart <= Lsn(j)
                                       /\ processed + 1 + Spare <= Lsn(j)
                                       /\ offset + Spare <= Lsn(j)

(***************************************************************************)
(* Whatever is in the pipeline has been received.                          *)
(***************************************************************************)
Below(q, h, c, next) ==
  /\ \A n \in Messages(q) \cup Events(q) : q[n].at < next
  /\ \A n \in DOMAIN h : h[n] < next
  /\ c < next

(***************************************************************************)
(* No event is made for a Begin, and only commits finish a transaction.    *)
(***************************************************************************)
KindsFit(q, h, c) ==
  /\ \A n \in Events(q) : Kind(q[n].at) # "begin"
  /\ \A n \in Events(q) : q[n].op = "finished" => Kind(q[n].at) = "commit"
  /\ \A n \in DOMAIN h : Kind(h[n]) # "begin"
  /\ c # 0 => Kind(c) = "commit"

(***************************************************************************)
(* The pipeline with the task queue q, the collected messages h, the       *)
(* commit c being processed, and the next message to receive.              *)
(***************************************************************************)
Pipeline(q, h, c, next) == Ordered(q, h, c) /\ Below(q, h, c, next) /\ KindsFit(q, h, c)

PipelineInv == phase = "up" => Pipeline(tasks, Held, closing, cursor)

Waiting(q) == {q[n].at : n \in Messages(q)}

(***************************************************************************)
(* k ends what b starts: a transaction, or the rows a decompression writes *)
(* back.                                                                   *)
(***************************************************************************)
Closes(k, b) ==
  /\ b < k
  /\ \/ Kind(b) = "begin" /\ Kind(k) = "commit"
     \/ Kind(b) = "startmark" /\ Kind(k) = "endmark" /\ Stream[k].final = Stream[b].final

(***************************************************************************)
(* What ends b is among the waiting messages w or still to be received.    *)
(***************************************************************************)
ClosersWait(b, w, next) ==
  \A k \in Positions : Closes(k, b) /\ k < next => k \in w

Paired(w, from, next) == \A m \in w : Lsn(m) >= from /\ ClosersWait(m, w, next)

PairedInv == phase = "up" => Paired(Waiting(tasks), restart, cursor)

(***************************************************************************)
(* b has been taken off the task queue, and nothing that ends it has.      *)
(***************************************************************************)
Passed(b, w, from, next) ==
  /\ Lsn(b) >= from /\ b < next
  /\ \A m \in w : b < m
  /\ ClosersWait(b, w, next)

(***************************************************************************)
(* The open transaction has a Begin b whose commit is still to come, so    *)
(* that no other Begin meets it.  What is collected was sent after b, and  *)
(* as long as the window is open every event on its way was sent before b. *)
(***************************************************************************)
OpenInv ==
  phase = "up" /\ active =>
    \E b \in Positions :
      /\ Kind(b) = "begin" /\ Stream[b].final = finalLSN
      /\ Passed(b, Waiting(tasks), restart, cursor)
      /\ \A n \in DOMAIN held : b < held[n]
      /\ Collects => \A n \in Events(tasks) : tasks[n].at < b

(***************************************************************************)
(* Rows are only discarded between the decompression markers of the open   *)
(* transaction, or by a tracker that collects, the only one to recognise   *)
(* chunk updates.                                                          *)
(***************************************************************************)
MarksInv ==
  /\ Mode # "window" => ~decompression
  /\ ongoing => Mode = "markers"
  /\ phase = "up" /\ active /\ ongoing =>
       \E k \in Positions : /\ Kind(k) = "startmark" /\ Stream[k].final = finalLSN
                            /\ Passed(k, Waiting(tasks), restart, cursor)

(***************************************************************************)
(* drain() is the only place where a commit is pending; a tracker that     *)
(* does not collect, or no longer does, has an empty queue.  The window of *)
(* an open transaction is drained because it has timed out.                *)
(***************************************************************************)
WindowState ==
  phase = "up" =>
    /\ ~draining => closing = 0
    /\ Mode # "window" => held = <<>>
    /\ active /\ spilled /\ ~draining => held = <<>>
    /\ active /\ draining => spilled

(***************************************************************************)
(* Everything in the pipeline starts at or behind the restart position.    *)
(***************************************************************************)
Resumed(q, h, c, from) ==
  /\ \A n \in DOMAIN q : q[n].op # "relation" => Lsn(q[n].at) >= from
  /\ \A n \in DOMAIN h : Lsn(h[n]) >= from
  /\ c # 0 => Lsn(c) >= from

ResumedInv == phase = "up" => Resumed(tasks, held, closing, restart)

(***************************************************************************)
(* Relation r is known to the tracker and the resolver, or will be when    *)
(* they get to the n-th task of the queue.                                 *)
(***************************************************************************)
KnownAt(r, n, q, known) ==
  \/ r \in known
  \/ \E m \in DOMAIN q : m < n /\ q[m].op = "relation" /\ Stream[q[m].at].relation = r

(***************************************************************************)
(* The description of a relation is ahead of every row that needs it.      *)
(***************************************************************************)
DescribedAhead(q, h, taken, known) ==
  /\ \A r \in taken : KnownAt(r, Len(q) + 1, q, known)
  /\ \A n \in Messages(q) : HasRelation(q[n].at) => KnownAt(Stream[q[n].at].relation, n, q, known)
  /\ \A n \in DOMAIN h : HasRelation(h[n]) => Stream[h[n]].relation \in known

KnownInv ==
  /\ phase # "fatal"
  /\ phase = "up" => described \subseteq received /\ DescribedAhead(tasks, held, received, resolved)

(***************************************************************************)
(* The part of the invariant that holds whatever the WAL looks like and    *)
(* however the streamer is configured: the pipeline (task queue,           *)
(* transaction window, commit in progress) is in stream order, starts at   *)
(* the restart position and has its relations described; no Begin meets a  *)
(* transaction that is still open, so that startTransaction throws away    *)
(* nothing, and what the window holds belongs to the open transaction.     *)
(***************************************************************************)
PathInv ==
  /\ TypeOK
  /\ ResumedInv
  /\ KnownInv
  /\ PipelineInv
  /\ PairedInv
  /\ OpenInv
  /\ MarksInv
  /\ WindowState

(***************************************************************************)
(* The inductive invariant: everything that is acknowledged, in memory, on *)
(* disk or at the server, lies before every row that is not settled, and   *)
(* the rows in the pipeline are all the unsettled rows received.           *)
(***************************************************************************)
DeliveryInv ==
  /\ PathInv
  /\ AckBound
  /\ SessionBound
  /\ InOrder
  /\ NothingForgotten

(***************************************************************************)
(* A row has one event in the queue; only a commit may have two, for a     *)
(* compression and a decompression.                                        *)
(***************************************************************************)
OnceEach(q) == \A m, n \in Events(q) : m < n /\ q[m].at = q[n].at => q[m].at \notin Rows

(***************************************************************************)
(* Behind AcknowledgedIsDone: what is in flight, and what the receive loop *)
(* may still let in, lies behind lastProcessedLSN.                         *)
(***************************************************************************)
DoneInv ==
  phase = "up" =>
    /\ OnceEach(tasks)
    /\ \A j \in Rows : InFlight(j, tasks, Held) \/ (cursor <= j /\ restart <= Lsn(j)) => processed <= Lsn(j)

===============================================================================
