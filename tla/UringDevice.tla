---------------------------- MODULE UringDevice ----------------------------
(***************************************************************************)
(* The io_uring WAL device: storage/uringwal over the DurableWriter and    *)
(* the Ring of storage/uring.                                              *)
(*                                                                         *)
(* One thread submits and waits; the kernel, which is external, takes a    *)
(* submission when the thread enters it, carries it out at a time of its   *)
(* own, and posts a completion.  Ring counters are unsigned and wrap.  A   *)
(* record fills one block.  The log that uses the device does not go on    *)
(* after an error: the process ends, and the device is opened again.       *)
(***************************************************************************)
EXTENDS Naturals, Sequences, FiniteSets, FiniteSetsExt

CONSTANTS Entries,     \* submission queue entries, and buffers: the depth
          Wrap,        \* the modulus of ring counters, a multiple of the queue sizes
          MaxRecords,  \* bound: records in the log
          MaxCrashes   \* bound: crashes

ASSUME SizesAssumption ==
  /\ Entries \in Nat \ {0} /\ Wrap \in Nat \ {0} /\ Wrap % (2 * Entries) = 0
  /\ MaxRecords \in Nat /\ MaxCrashes \in Nat

VARIABLES dev,       \* uringwal.Device, with the writer's sequence
          buffer,    \* the registered buffers, by slot
          sq,        \* the submission queue: head, tail, and the entries
          cq,        \* the completion queue
          inflight,  \* what the kernel has taken and not completed
          blocks,    \* the blocks of the file
          stable,    \* those that would survive a power loss
          call,      \* the step of Sync, its request, and the head it read
          acked,     \* history: the records for which a Sync has returned nil
          fault,     \* history: the kernel has reported an error to this process
          crashes

ring == <<sq, cq>>
vars == <<dev, buffer, ring, inflight, blocks, stable, call, acked, fault, crashes>>

\* No record, and a block or buffer without one.
None == [seq |-> 0, life |-> 0]

NoRequest == [op |-> "none", block |-> 0, slot |-> 0, userData |-> 0]
NoResult == [userData |-> 0, ok |-> FALSE]

Slots == 0 .. Entries - 1

-----------------------------------------------------------------------------
(***************************************************************************)
(* The queues.  A completion queue has twice the entries.                  *)
(***************************************************************************)

Plus(counter, n) == (counter + n) % Wrap
Minus(a, b) == (a + Wrap - b) % Wrap

EmptyQueue(size, x) == [head |-> 0, tail |-> 0, at |-> [i \in 0 .. size - 1 |-> x]]
Size(queue) == Cardinality(DOMAIN queue.at)
Put(queue, x) ==
  [head |-> queue.head, tail |-> Plus(queue.tail, 1),
   at |-> [queue.at EXCEPT ![queue.tail % Size(queue)] = x]]
Top(queue) == queue.at[queue.head % Size(queue)]

Taken(queue) == [queue EXCEPT !.head = Plus(@, 1)]

\* Slip: the completion is not taken off its queue.
Reaped_not(queue) == queue

Reaped(queue) == Taken(queue)

Full(queue) == Minus(queue.tail, queue.head) >= Size(queue)

\* Slip: the counters are compared as if they did not wrap.
Posted_less(queue) == queue.head < queue.tail

Posted(queue) == queue.head # queue.tail

-----------------------------------------------------------------------------
(***************************************************************************)
(* Open, Append and Sync.                                                  *)
(***************************************************************************)

Pc(pc) == call.pc = pc
At(pc) == [call EXCEPT !.pc = pc]
NoCall == [pc |-> "idle", request |-> NoRequest, head |-> 0]

\* The records that readRecords finds; ring and writer are new.
Opened(records) == [durable |-> records, pending |-> <<>>, sequence |-> 0]

Init ==
  /\ dev = Opened(<<>>)
  /\ buffer = [s \in Slots |-> None]
  /\ sq = EmptyQueue(Entries, NoRequest)
  /\ cq = EmptyQueue(2 * Entries, NoResult)
  /\ inflight = {}
  /\ blocks = <<>> /\ stable = <<>> /\ acked = <<>>
  /\ call = NoCall
  /\ fault = FALSE
  /\ crashes = 0

\* wal.Log.Append numbers its records on from those it has found.
AppendCall ==
  /\ Pc("idle")
  /\ Len(dev.durable) + Len(dev.pending) < MaxRecords
  /\ dev' = [dev EXCEPT !.pending =
               Append(@, [seq |-> Len(dev.durable) + Len(@) + 1, life |-> crashes])]
  /\ UNCHANGED <<buffer, ring, inflight, blocks, stable, call, acked, fault, crashes>>

\* submitAndWait, up to the first io_uring_enter.
Submit(request) ==
  IF Full(sq) THEN call' = At("failed") /\ UNCHANGED sq
  ELSE /\ sq' = Put(sq, request)
       /\ call' = [pc |-> "enter", request |-> request, head |-> sq.head]

\* Slip: the block is where the writer is, not where the file ends.
Block_ofWriter == dev.sequence

Block == Len(dev.durable)

Slot == dev.sequence % Entries

Write(userData) == [op |-> "write", block |-> Block, slot |-> Slot, userData |-> userData]
Fsync(userData) == [op |-> "fsync", block |-> 0, slot |-> 0, userData |-> userData]

\* Sync goes on with the first pending record (AppendDurable).
AppendDurable ==
  /\ Pc("idle") \/ Pc("next")
  /\ dev.pending # <<>>
  /\ buffer' = [buffer EXCEPT ![Slot] = Head(dev.pending)]
  /\ dev' = [dev EXCEPT !.sequence = @ + 1]
  /\ Submit(Write(2 * (dev.sequence + 1)))
  /\ UNCHANGED <<cq, inflight, blocks, stable, acked, fault, crashes>>

\* Nothing is pending: Sync returns nil.
SyncReturn ==
  /\ Pc("next") /\ dev.pending = <<>>
  /\ call' = NoCall
  /\ acked' = dev.durable
  /\ UNCHANGED <<dev, buffer, ring, inflight, blocks, stable, fault, crashes>>

\* Where submitAndWait goes on after io_uring_enter: a submission that was taken is
\* not submitted again, even when a signal interrupted the call.
AfterEnter(queue, code) ==
  CASE code = "error" -> "failed"
    [] code # "error" /\ queue.head # call.head -> "wait"
    [] code = "again" /\ queue.head = call.head -> "enter"
    [] OTHER -> "failed"

\* The kernel takes the submission; the call may be interrupted after that.
Enter ==
  /\ Pc("enter")
  /\ \E code \in {"done", "again"} : call' = At(AfterEnter(Taken(sq), code))
  /\ sq' = Taken(sq)
  /\ inflight' = inflight \cup {Top(sq)}
  /\ UNCHANGED <<dev, buffer, cq, blocks, stable, acked, fault, crashes>>

\* It does not: the call is interrupted, reports none, or fails.
EnterNot ==
  /\ Pc("enter")
  /\ \E code \in {"done", "again", "error"} :
       /\ call' = At(AfterEnter(sq, code))
       /\ fault' = (fault \/ code # "again")
  /\ UNCHANGED <<dev, buffer, ring, inflight, blocks, stable, acked, crashes>>

\* Entering the kernel to wait fails.
WaitFails ==
  /\ Pc("wait") /\ ~Posted(cq)
  /\ call' = At("failed")
  /\ fault' = TRUE
  /\ UNCHANGED <<dev, buffer, ring, inflight, blocks, stable, acked, crashes>>

RecordDurable ==
  /\ dev' = [dev EXCEPT !.durable = Append(@, Head(dev.pending)), !.pending = Tail(@)]
  /\ call' = At("next")
  /\ UNCHANGED sq

\* Slip: the record counts as durable when it is written.
Finished_unsynced == RecordDurable

\* A request was carried out: after the write comes the fsync, and after that the
\* next record.
Finished ==
  IF call.request.op = "write"
  THEN Submit(Fsync(2 * dev.sequence + 1)) /\ UNCHANGED dev
  ELSE RecordDurable

\* The completion is this request's, and reports no error and no short write.
Good(result) == result.userData = call.request.userData /\ result.ok

Reap ==
  /\ Pc("wait") /\ Posted(cq)
  /\ cq' = Reaped(cq)
  /\ IF Good(Top(cq)) THEN Finished
     ELSE call' = At("failed") /\ UNCHANGED <<dev, sq>>
  /\ UNCHANGED <<buffer, inflight, blocks, stable, acked, fault, crashes>>

-----------------------------------------------------------------------------
(***************************************************************************)
(* The kernel, and crashes.                                                *)
(***************************************************************************)

\* The file with block k written; it grows by whole blocks.
WithBlock(file, k, x) ==
  [i \in 1 .. Max({Len(file), k + 1}) |->
     CASE i = k + 1 -> x [] i # k + 1 /\ i <= Len(file) -> file[i] [] OTHER -> None]

Done(r) == IF r.op = "write" THEN WithBlock(blocks, r.block, buffer[r.slot]) ELSE blocks

\* The kernel carries out r; the buffer is read only now.
Complete(r) ==
  /\ inflight' = inflight \ {r}
  /\ blocks' = Done(r)
  /\ stable' = IF r.op = "fsync" THEN blocks ELSE stable
  /\ cq' = Put(cq, [userData |-> r.userData, ok |-> TRUE])
  /\ UNCHANGED <<dev, buffer, sq, call, acked, fault, crashes>>

\* The kernel fails to; a write may have happened nevertheless.
CompleteFails(r) ==
  /\ inflight' = inflight \ {r}
  /\ blocks' \in {blocks, Done(r)}
  /\ cq' = Put(cq, [userData |-> r.userData, ok |-> FALSE])
  /\ fault' = TRUE
  /\ UNCHANGED <<dev, buffer, sq, stable, call, acked, crashes>>

\* What a process that ends leaves in the file: a request in flight is carried out or
\* given up.
Killed == {blocks} \cup {Done(r) : r \in inflight}

\* The blocks of a file that a power loss may take back.
Unsynced(file) == {k \in DOMAIN file : k > Len(stable) \/ file[k] # stable[k]}

\* What a power loss leaves of a file, up to block n: each block that is not stable is
\* kept or not, whatever becomes of the others, and one that is not reads as before it
\* was written, as zeros.
Survivor(file, n, kept) ==
  [k \in 1 .. n |-> CASE k \in kept -> file[k]
                     [] k \notin kept /\ k <= Len(stable) -> stable[k]
                     [] OTHER -> None]

\* wal.Recover, which wal.Open runs on DurableBytes: zeros and a record out of sequence
\* are errors.
Recovers(image) == \A k \in DOMAIN image : image[k].seq = k

\* Open of the blocks that are left, and wal.Open of the device.
Reopen(left) ==
  /\ crashes < MaxCrashes /\ crashes' = crashes + 1
  /\ blocks' = left
  /\ dev' = Opened(left)
  /\ buffer' = [s \in Slots |-> None]
  /\ sq' = EmptyQueue(Entries, NoRequest)
  /\ cq' = EmptyQueue(2 * Entries, NoResult)
  /\ inflight' = {}
  /\ call' = IF Recovers(left) THEN NoCall ELSE [NoCall EXCEPT !.pc = "refused"]
  /\ fault' = FALSE
  /\ UNCHANGED acked

Kill == \E left \in Killed : Reopen(left) /\ UNCHANGED stable

\* A file ends with a block that it keeps: a write extends it with its data.
PowerLoss ==
  \E file \in Killed : \E kept \in SUBSET Unsynced(file), n \in Len(stable) .. Len(file) :
    /\ n \in kept \cup {Len(stable)}
    /\ Reopen(Survivor(file, n, kept))
    /\ stable' = blocks'

Kernel == \E r \in inflight : Complete(r)

Thread == AppendDurable \/ SyncReturn \/ Enter \/ Reap

Next ==
  \/ AppendCall \/ AppendDurable \/ SyncReturn
  \/ Enter \/ EnterNot \/ WaitFails \/ Reap
  \/ \E r \in inflight : Complete(r) \/ CompleteFails(r)
  \/ Kill \/ PowerLoss

\* A Sync that was called goes on, is not interrupted for ever, and the kernel
\* completes what it has taken.
Spec ==
  /\ Init /\ [][Next]_vars
  /\ WF_vars(~Pc("idle") /\ Thread) /\ WF_vars(Kernel)

-----------------------------------------------------------------------------
(***************************************************************************)
(* Properties.                                                             *)
(***************************************************************************)

\* A file that starts with these records.
StartsWith(file, records) ==
  Len(records) <= Len(file) /\ \A k \in 1 .. Len(records) : file[k] = records[k]

\* When Sync has returned nil, everything appended so far survives a power loss, at
\* any time from then on (uringwal.Sync, AppendDurable, submitAndWait).
AckedStable == StartsWith(stable, acked)

\* A block that an earlier process has written and nobody has synced.
Inherited == \E k \in DOMAIN blocks : k > Len(stable) /\ blocks[k].life < crashes

\* Whatever a kill or a power loss leaves, in the middle of a write or between a write
\* and its fsync, the log opens again: it has no gap.  The one exception is a power
\* loss while a block is unsynced that Open has found, which readRecords does not sync
\* (uringwal.Open, Sync; wal.Recover).
OpensAgain == [][call'.pc = "refused" => Pc("refused") \/ Inherited]_vars

\* The log opens after every crash (wal.Open over uringwal.Open).
NeverRefused == ~Pc("refused")

\* A Sync fails only when the kernel has reported an error: the thread never finds the
\* submission queue full, a completion that is not its own, or one that it has
\* already taken (submitAndWait).
NoSpuriousFailure == Pc("failed") => fault

\* DurableBytes "returns a copy of the bytes that would survive a crash"
\* (uringwal.DurableBytes, of what readRecords has read; storage/wal/device.go).
DurableSurvives == StartsWith(stable, dev.durable)

\* Every Sync returns, or its process ends (submitAndWait, with counters that wrap).
SyncReturns ==
  call.pc \in {"enter", "wait", "next"} ~> call.pc \in {"idle", "failed", "refused"}

-----------------------------------------------------------------------------
(***************************************************************************)
(* The inductive invariant behind AckedStable, OpensAgain and              *)
(* NoSpuriousFailure.                                                      *)
(***************************************************************************)

Record == [seq : Nat, life : Nat]
Request == [op : {"none", "write", "fsync"}, block : Nat, slot : Slots, userData : Nat]
Result == [userData : Nat, ok : BOOLEAN]
Pcs == {"idle", "enter", "wait", "next", "failed", "refused"}
Queue(size, X) == [head : 0 .. Wrap - 1, tail : 0 .. Wrap - 1, at : [0 .. size - 1 -> X]]

\* The device, the ring, the file and the running Sync have values of their types.
TypeOK ==
  /\ dev \in [durable : Seq(Record), pending : Seq(Record), sequence : Nat]
  /\ buffer \in [Slots -> Record]
  /\ sq \in Queue(Entries, Request)
  /\ cq \in Queue(2 * Entries, Result)
  /\ inflight \subseteq Request
  /\ blocks \in Seq(Record) /\ stable \in Seq(Record) /\ acked \in Seq(Record)
  /\ call \in [pc : Pcs, request : Request, head : 0 .. Wrap - 1]
  /\ fault \in BOOLEAN
  /\ crashes \in Nat

Empty(queue) == queue.head = queue.tail
Holds(queue, x) == queue.tail = Plus(queue.head, 1) /\ Top(queue) = x

\* The answer to the request of the running Sync, ok or not.
Outcome(ok) == [userData |-> call.request.userData, ok |-> ok]

\* One request is outstanding from its submission until its completion is reaped: in
\* the submission queue, then with the kernel, then in the completion queue.
OneOutstanding ==
  /\ call.pc \in {"idle", "next", "refused"} => Empty(sq) /\ Empty(cq) /\ inflight = {}
  /\ Pc("enter") => /\ Holds(sq, call.request) /\ call.head = sq.head
                    /\ Empty(cq) /\ inflight = {}
  /\ Pc("wait") => /\ Empty(sq)
                   /\ \/ Empty(cq) /\ inflight = {call.request}
                      \/ Holds(cq, Outcome(TRUE)) /\ inflight = {}
                      \/ Holds(cq, Outcome(FALSE)) /\ inflight = {} /\ fault
  /\ Pc("failed") => fault /\ inflight \subseteq {call.request}

\* The file when the record under way has been written.
Grown == Append(dev.durable, Head(dev.pending))

\* The completion that is waited for has arrived and reports no error.
Succeeded == Pc("wait") /\ Holds(cq, Outcome(TRUE))

Writing ==
  /\ call.request.op = "write" /\ call.request.block = Len(dev.durable)
  /\ buffer[call.request.slot] = Head(dev.pending)
  /\ blocks \in {dev.durable, Grown}
  /\ Succeeded => blocks = Grown

Syncing ==
  /\ call.request.op = "fsync"
  /\ blocks = Grown
  /\ Succeeded => stable = blocks

\* The file is what the device says is durable, or that and the record under way,
\* whose buffer is not touched before it is written.
FileFollows ==
  /\ call.pc \in {"idle", "next", "refused"} => blocks = dev.durable
  /\ Pc("next") => stable = blocks
  /\ call.pc \in {"enter", "wait", "failed"} => dev.pending # <<>> /\ (Writing \/ Syncing)

\* Records are numbered from 1, without a gap.
Numbered ==
  ~Pc("refused") =>
    /\ \A k \in 1 .. Len(dev.durable) : dev.durable[k].seq = k
    /\ \A k \in 1 .. Len(dev.pending) : dev.pending[k].seq = Len(dev.durable) + k

\* What this process has written, the device reports as durable only when it is stable.
Lives ==
  /\ \A k \in 1 .. Len(dev.durable) :
       dev.durable[k].life <= crashes /\ (k > Len(stable) => dev.durable[k].life < crashes)
  /\ \A k \in 1 .. Len(dev.pending) : dev.pending[k].life <= crashes

DeviceInv ==
  /\ TypeOK /\ OneOutstanding /\ FileFollows /\ Numbered /\ Lives
  /\ StartsWith(stable, acked) /\ StartsWith(blocks, stable)

=============================================================================
