---------------------------- MODULE UringProofs -----------------------------
(***************************************************************************)
(* What Sync acknowledges is stable, a crash leaves a gap in the log only  *)
(* where Open has taken over a block that was not synced, and a Sync fails *)
(* only when the kernel reports an error, for every depth of the ring,     *)
(* every counter width and any number of records and crashes.              *)
(***************************************************************************)
EXTENDS UringDevice, FiniteSetTheorems, TLAPS

\* Counters can tell an empty queue from one with an entry (Open: the ring's sizes).
LEMMA Sizes == Entries \in Nat /\ Entries >= 1 /\ Wrap \in Nat /\ Wrap >= 2
<1>1. Entries \in Nat /\ Entries >= 1 /\ Wrap \in Nat /\ Wrap >= 1 /\ Wrap % (2 * Entries) = 0
  BY SizesAssumption
<1>2. 1 % (2 * Entries) = 1
  BY <1>1
<1> QED BY <1>1, <1>2

\* Moving a counter on changes it, within its range.
LEMMA PlusOne ==
  ASSUME NEW c \in 0 .. Wrap - 1
  PROVE  Plus(c, 1) \in 0 .. Wrap - 1 /\ Plus(c, 1) # c
<1>1. CASE c + 1 < Wrap
  BY <1>1, Sizes DEF Plus
<1>2. CASE c + 1 = Wrap
  <2>1. (c + 1) % Wrap = 0
    BY <1>2, Sizes
  <2> QED BY <2>1, <1>2, Sizes DEF Plus
<1> QED BY <1>1, <1>2, Sizes

\* The entries of a queue are counted right, and a counter modulo their number is the
\* place of one.
LEMMA QueueSize ==
  ASSUME NEW size \in Nat \ {0}, NEW X, NEW q \in Queue(size, X)
  PROVE  /\ Size(q) = size
         /\ q.head \in 0 .. Wrap - 1 /\ q.tail \in 0 .. Wrap - 1 /\ q.at \in [0 .. size - 1 -> X]
         /\ q.head % Size(q) \in 0 .. size - 1 /\ q.tail % Size(q) \in 0 .. size - 1
<1>1. q.head \in 0 .. Wrap - 1 /\ q.tail \in 0 .. Wrap - 1 /\ q.at \in [0 .. size - 1 -> X]
  BY Zenon DEF Queue
<1>2. DOMAIN q.at = 0 .. size - 1
  BY Zenon, <1>1
<1>3. Cardinality(0 .. size - 1) = size
  BY FS_Interval
<1>4. Size(q) = size
  BY Zenon, <1>2, <1>3 DEF Size
<1> QED BY <1>1, <1>4, Sizes

\* What is put on an empty queue is its top (Ring.push, the kernel's completion).
LEMMA PutTyped ==
  ASSUME NEW size \in Nat \ {0}, NEW X, NEW q \in Queue(size, X), NEW x \in X
  PROVE  /\ Put(q, x) \in Queue(size, X)
         /\ Put(q, x).head = q.head
         /\ Empty(q) => Holds(Put(q, x), x)
<1> DEFINE k == q.tail % Size(q)
           p == [head |-> q.head, tail |-> Plus(q.tail, 1), at |-> [q.at EXCEPT ![k] = x]]
<1>1. k \in 0 .. size - 1 /\ Size(q) = size /\ q.head \in 0 .. Wrap - 1 /\ q.tail \in 0 .. Wrap - 1
      /\ q.at \in [0 .. size - 1 -> X]
  BY Zenon, QueueSize
<1>2. Put(q, x) = p
  BY Zenon DEF Put
<1>3. Plus(q.tail, 1) \in 0 .. Wrap - 1
  BY Zenon, <1>1, PlusOne
<1>4. p \in Queue(size, X)
  BY Zenon, <1>1, <1>3 DEF Queue
<1>5. Size(p) = size
  BY Zenon, <1>4, QueueSize
<1>6. ASSUME Empty(q) PROVE Holds(p, x)
  <2>1. p.head % Size(p) = k
    BY Zenon, <1>1, <1>5, <1>6 DEF Empty
  <2>2. p.at[k] = x
    BY Zenon, <1>1
  <2> QED BY Zenon, <2>1, <2>2, <1>6 DEF Holds, Top, Empty
<1> QED BY <1>2, <1>4, <1>6

\* Taking the only entry of a queue empties it (Ring.reap, io_uring_enter).
LEMMA TakenTyped ==
  ASSUME NEW size \in Nat \ {0}, NEW X, NEW q \in Queue(size, X), NEW x, Holds(q, x)
  PROVE  /\ Taken(q) \in Queue(size, X)
         /\ Empty(Taken(q)) /\ Taken(q).head # q.head /\ Top(q) = x /\ x \in X
<1>1. q.head \in 0 .. Wrap - 1 /\ q.at \in [0 .. size - 1 -> X] /\ q.head % Size(q) \in 0 .. size - 1
  BY Zenon, QueueSize
<1>2. Plus(q.head, 1) \in 0 .. Wrap - 1 /\ Plus(q.head, 1) # q.head
  BY Zenon, <1>1, PlusOne
<1>3. Taken(q) = [head |-> Plus(q.head, 1), tail |-> q.tail, at |-> q.at]
  BY DEF Taken, Queue
<1>4. q.tail = Plus(q.head, 1) /\ Top(q) = x
  BY Zenon DEF Holds
<1>5. Top(q) \in X
  BY Zenon, <1>1 DEF Top
<1> QED BY <1>1, <1>2, <1>3, <1>4, <1>5 DEF Queue, Empty

\* An empty queue is not full and has nothing to reap; one that holds an entry has.
LEMMA QueueState ==
  ASSUME NEW size \in Nat \ {0}, NEW X, NEW q \in Queue(size, X)
  PROVE  /\ Empty(q) => ~Full(q) /\ ~Posted(q)
         /\ \A x : Holds(q, x) => Posted(q)
<1>1. Size(q) = size /\ q.head \in 0 .. Wrap - 1 /\ q.tail \in 0 .. Wrap - 1
  BY Zenon, QueueSize
<1>2. ASSUME Empty(q) PROVE ~Full(q) /\ ~Posted(q)
  <2>1. q.tail + Wrap - q.head = Wrap
    BY <1>1, <1>2, Sizes DEF Empty
  <2>2. Wrap % Wrap = 0
    BY Sizes
  <2> QED BY <1>1, <1>2, <2>1, <2>2 DEF Empty, Full, Posted, Minus
<1>3. Plus(q.head, 1) # q.head
  BY Zenon, <1>1, PlusOne
<1> QED BY Zenon, <1>2, <1>3 DEF Holds, Posted

\* A file that starts with one that starts with these records starts with them.
LEMMA StartsTransitive ==
  ASSUME NEW a \in Seq(Record), NEW b \in Seq(Record), NEW c \in Seq(Record),
         StartsWith(b, a), StartsWith(c, b)
  PROVE  StartsWith(c, a)
BY DEF StartsWith

\* A record that is appended to a file leaves what the file started with.
LEMMA AppendStarts ==
  ASSUME NEW a \in Seq(Record), NEW b \in Seq(Record), NEW x \in Record, StartsWith(a, b)
  PROVE  StartsWith(Append(a, x), b) /\ StartsWith(a, a)
BY DEF StartsWith

\* The larger of two lengths.
LEMMA MaxOfTwo ==
  ASSUME NEW a \in Nat, NEW b \in Nat, b <= a
  PROVE  Max({b, a}) = a /\ Max({a, b}) = a
<1>1. \A x \in {a, b} : (\A y \in {a, b} : x >= y) <=> x = a
  OBVIOUS
<1>2. {a, b} = {b, a}
  BY Zenon
<1> QED BY Zenon, <1>1, <1>2 DEF Max

\* Writing the block after the last, or the last one again, leaves the file with that
\* record at its end (pwrite at the offset of Device.Sync).
LEMMA BlockAppended ==
  ASSUME NEW a \in Seq(Record), NEW x \in Record
  PROVE  /\ WithBlock(a, Len(a), x) = Append(a, x)
         /\ WithBlock(Append(a, x), Len(a), x) = Append(a, x)
<1>1. Len(a) \in Nat /\ Append(a, x) \in Seq(Record) /\ Len(Append(a, x)) = Len(a) + 1
  OBVIOUS
<1>2. Max({Len(a), Len(a) + 1}) = Len(a) + 1 /\ Max({Len(a) + 1, Len(a) + 1}) = Len(a) + 1
  BY <1>1, MaxOfTwo
<1> DEFINE Cell(file, i) == CASE i = Len(a) + 1 -> x
                            [] i # Len(a) + 1 /\ i <= Len(file) -> file[i]
                            [] OTHER -> None
           b == Append(a, x)
<1>3. ASSUME NEW i \in 1 .. Len(a) + 1
      PROVE  Cell(a, i) = b[i] /\ Cell(b, i) = b[i]
  <2>1. CASE i = Len(a) + 1
    BY <1>1, <2>1
  <2>2. CASE i # Len(a) + 1
    BY <1>1, <2>2
  <2> QED BY Zenon, <2>1, <2>2
<1>4. WithBlock(a, Len(a), x) = [i \in 1 .. Len(a) + 1 |-> Cell(a, i)]
  BY <1>2, Zenon DEF WithBlock
<1>5. WithBlock(b, Len(a), x) = [i \in 1 .. Len(a) + 1 |-> Cell(b, i)]
  <2>1. Max({Len(b), Len(a) + 1}) = Len(a) + 1
    BY Zenon, <1>1, <1>2
  <2> QED BY <2>1, Zenon DEF WithBlock
<1>9. b \in Seq(Record) /\ Len(b) = Len(a) + 1
  BY Zenon, <1>1
<1> HIDE DEF Cell, b
<1>6. b = [i \in 1 .. Len(a) + 1 |-> b[i]]
  BY <1>9
<1>7. [i \in 1 .. Len(a) + 1 |-> Cell(a, i)] = [i \in 1 .. Len(a) + 1 |-> b[i]]
  BY <1>3, Zenon
<1>8. [i \in 1 .. Len(a) + 1 |-> Cell(b, i)] = [i \in 1 .. Len(a) + 1 |-> b[i]]
  BY <1>3, Zenon
<1> QED BY Zenon, <1>4, <1>5, <1>6, <1>7, <1>8 DEF b

\* Records numbered from n + 1 on stay so when the next one is appended, and when the
\* first one is taken away (the pending records of Device).
LEMMA NumberedOn ==
  ASSUME NEW n \in Nat, NEW s \in Seq(Record), NEW x \in Record,
         \A k \in 1 .. Len(s) : s[k].seq = n + k
  PROVE  /\ x.seq = n + Len(s) + 1 =>
              \A k \in 1 .. Len(Append(s, x)) : Append(s, x)[k].seq = n + k
         /\ s # <<>> => \A k \in 1 .. Len(Tail(s)) : Tail(s)[k].seq = n + 1 + k
<1>1. ASSUME x.seq = n + Len(s) + 1, NEW k \in 1 .. Len(Append(s, x))
      PROVE  Append(s, x)[k].seq = n + k
  BY <1>1
<1>2. ASSUME s # <<>>, NEW k \in 1 .. Len(Tail(s))
      PROVE  Tail(s)[k].seq = n + 1 + k
  <2>1. Tail(s)[k] = s[k + 1] /\ k + 1 \in 1 .. Len(s)
    BY <1>2
  <2> QED BY <1>2, <2>1
<1> QED BY Zenon, <1>1, <1>2

\* The record under way extends the file by one record, numbered on.
LEMMA GrownFile ==
  ASSUME DeviceInv, dev.pending # <<>>, ~Pc("refused")
  PROVE  /\ dev.durable \in Seq(Record) /\ dev.pending \in Seq(Record)
         /\ Head(dev.pending) \in Record /\ Grown \in Seq(Record)
         /\ Len(Grown) = Len(dev.durable) + 1
         /\ StartsWith(Grown, dev.durable) /\ StartsWith(Grown, Grown)
         /\ \A k \in 1 .. Len(Grown) : Grown[k].seq = k /\ Grown[k].life <= crashes
<1>1. dev.durable \in Seq(Record) /\ dev.pending \in Seq(Record)
  BY Zenon DEF DeviceInv, TypeOK
<1>2. Head(dev.pending) \in Record /\ Head(dev.pending) = dev.pending[1] /\ 1 \in 1 .. Len(dev.pending)
  BY <1>1
<1>3. /\ \A k \in 1 .. Len(dev.durable) : dev.durable[k].seq = k
      /\ Head(dev.pending).seq = Len(dev.durable) + 1
  BY Zenon, <1>1, <1>2 DEF DeviceInv, Numbered
<1>7. /\ \A k \in 1 .. Len(dev.durable) : dev.durable[k].life <= crashes
      /\ Head(dev.pending).life <= crashes
  BY Zenon, <1>1, <1>2 DEF DeviceInv, Lives
<1>4. \A d \in Seq(Record), x \in Record :
        /\ Append(d, x) \in Seq(Record) /\ Len(Append(d, x)) = Len(d) + 1
        /\ StartsWith(Append(d, x), d) /\ StartsWith(Append(d, x), Append(d, x))
        /\ \A k \in 1 .. Len(d) : Append(d, x)[k] = d[k]
        /\ Append(d, x)[Len(d) + 1] = x
  BY DEF StartsWith
<1>5. PICK d \in Seq(Record), x \in Record : d = dev.durable /\ x = Head(dev.pending)
  BY Zenon, <1>1, <1>2
<1>6. \A k \in 1 .. Len(Append(d, x)) : Append(d, x)[k].seq = k /\ Append(d, x)[k].life <= crashes
  BY <1>3, <1>4, <1>5, <1>7
<1> QED BY Zenon, <1>1, <1>2, <1>4, <1>5, <1>6 DEF Grown

\* A request in flight is the one that is waited for, and carrying it out leaves the
\* file with the record under way.
LEMMA InFlight ==
  ASSUME DeviceInv, NEW r \in inflight
  PROVE  /\ r = call.request /\ r \in Request /\ call.pc \in {"wait", "failed"}
         /\ ~Pc("refused") /\ dev.pending # <<>>
         /\ Done(r) = Grown
         /\ StartsWith(Done(r), blocks)
         /\ blocks \in {dev.durable, Grown}
         /\ r.op = "fsync" => blocks = Grown
<1>1. r = call.request /\ r \in Request /\ call.pc \in {"wait", "failed"} /\ ~Pc("refused")
  BY Zenon DEF DeviceInv, TypeOK, OneOutstanding, Pc, Pcs
<1>2. dev.pending # <<>> /\ (Writing \/ Syncing)
  BY Zenon, <1>1 DEF DeviceInv, FileFollows
<1>3. /\ dev.durable \in Seq(Record) /\ Head(dev.pending) \in Record
      /\ StartsWith(Grown, dev.durable) /\ StartsWith(Grown, Grown)
  BY Zenon, <1>1, <1>2, GrownFile
<1>4. CASE Writing
  <2>1. r.op = "write" /\ Done(r) = WithBlock(blocks, Len(dev.durable), Head(dev.pending))
    BY Zenon, <1>1, <1>4 DEF Writing, Done
  <2>2. blocks \in {dev.durable, Grown}
    BY Zenon, <1>4 DEF Writing
  <2>3. Done(r) = Grown
    BY Zenon, <1>3, <2>1, <2>2, BlockAppended DEF Grown
  <2> QED BY Zenon, <1>1, <1>2, <1>3, <2>1, <2>2, <2>3
<1>5. CASE Syncing
  <2>1. r.op = "fsync" /\ blocks = Grown /\ Done(r) = blocks
    BY Zenon, <1>1, <1>5 DEF Syncing, Done
  <2> QED BY Zenon, <1>1, <1>2, <1>3, <2>1
<1> QED BY Zenon, <1>2, <1>4, <1>5

\* What a kill can leave is the file, or the file with the record under way: the
\* records the device reports as durable and at most one more, numbered on.
LEMMA KilledFile ==
  ASSUME DeviceInv, NEW file \in Killed
  PROVE  /\ file \in Seq(Record) /\ StartsWith(file, blocks) /\ StartsWith(file, stable)
         /\ Len(file) <= Len(dev.durable) + 1
         /\ \A k \in 1 .. Len(file) : file[k].life <= crashes
         /\ Pc("refused") => file = blocks
         /\ ~Pc("refused") => \A k \in 1 .. Len(file) : file[k].seq = k
<1>1. /\ blocks \in Seq(Record) /\ stable \in Seq(Record) /\ dev.durable \in Seq(Record)
      /\ call.pc \in Pcs /\ crashes \in Nat
      /\ StartsWith(blocks, stable) /\ Lives
  BY Zenon DEF DeviceInv, TypeOK, Pcs
<1>2. CASE file = dev.durable
  <2>1. blocks = dev.durable
    <3>1. CASE file = blocks
      BY Zenon, <1>2, <3>1
    <3>2. CASE file # blocks
      <4>1. PICK r \in inflight : file = Done(r)
        BY Zenon, <3>2 DEF Killed
      <4>2. file = Grown /\ dev.pending # <<>> /\ ~Pc("refused")
        BY Zenon, <4>1, InFlight
      <4>3. Len(Grown) = Len(dev.durable) + 1
        BY Zenon, <4>2, GrownFile
      <4> QED BY <1>1, <1>2, <4>2, <4>3
    <3> QED BY Zenon, <3>1, <3>2
  <2>2. ~Pc("refused") => \A k \in 1 .. Len(file) : file[k].seq = k
    BY Zenon, <1>2 DEF DeviceInv, Numbered
  <2>3. \A k \in 1 .. Len(file) : file[k].life <= crashes
    BY Zenon, <1>1, <1>2 DEF Lives
  <2>4. Len(file) <= Len(dev.durable) + 1 /\ StartsWith(file, file)
    BY <1>1, <1>2 DEF StartsWith
  <2> QED BY Zenon, <1>1, <1>2, <2>1, <2>2, <2>3, <2>4
<1>3. CASE file # dev.durable
  <2>1. file = Grown /\ dev.pending # <<>> /\ StartsWith(file, blocks) /\ ~Pc("refused")
    <3>1. CASE file = blocks
      <4>1. dev.pending # <<>> /\ blocks = Grown /\ ~Pc("refused")
        BY Zenon, <1>1, <1>3, <3>1 DEF DeviceInv, FileFollows, Writing, Syncing, Pc, Pcs
      <4> QED BY Zenon, <3>1, <4>1, GrownFile
    <3>2. CASE file # blocks
      <4>1. PICK r \in inflight : file = Done(r)
        BY Zenon, <3>2 DEF Killed
      <4> QED BY Zenon, <4>1, InFlight
    <3> QED BY Zenon, <3>1, <3>2
  <2>2. /\ Grown \in Seq(Record) /\ Len(Grown) = Len(dev.durable) + 1
        /\ \A k \in 1 .. Len(Grown) : Grown[k].seq = k /\ Grown[k].life <= crashes
    BY Zenon, <2>1, GrownFile
  <2>3. StartsWith(file, stable)
    BY Zenon, <1>1, <2>1, <2>2, StartsTransitive
  <2>4. Len(file) <= Len(dev.durable) + 1
    BY <1>1, <2>1, <2>2
  <2> QED BY Zenon, <2>1, <2>2, <2>3, <2>4
<1> QED BY Zenon, <1>2, <1>3

\* What a power loss leaves starts with what is stable, and holds nothing that was not
\* written before.
LEMMA SurvivorFile ==
  ASSUME DeviceInv, NEW file \in Killed, NEW n \in Len(stable) .. Len(file),
         NEW kept \in SUBSET Unsynced(file)
  PROVE  /\ Survivor(file, n, kept) \in Seq(Record) /\ Len(Survivor(file, n, kept)) = n
         /\ StartsWith(Survivor(file, n, kept), stable)
         /\ \A k \in 1 .. n : Survivor(file, n, kept)[k].life <= crashes
         /\ \A k \in 1 .. n :
              k \in kept \/ k <= Len(stable) => Survivor(file, n, kept)[k] = file[k]
<1> DEFINE left == Survivor(file, n, kept)
<1>1. /\ file \in Seq(Record) /\ StartsWith(file, stable)
      /\ \A k \in 1 .. Len(file) : file[k].life <= crashes
      /\ stable \in Seq(Record) /\ crashes \in Nat
  BY Zenon, KilledFile DEF DeviceInv, TypeOK
<1>2. n \in Nat /\ Len(stable) <= n /\ n <= Len(file) /\ Len(stable) \in Nat /\ Len(file) \in Nat
  BY <1>1
<1>3. None \in Record /\ None.life = 0
  BY DEF None, Record
<1>4. ASSUME NEW k \in 1 .. n
      PROVE  /\ left[k] \in Record /\ left[k].life <= crashes
             /\ k \in kept \/ k <= Len(stable) => left[k] = file[k]
  <2>1. left[k] = CASE k \in kept -> file[k]
                    [] k \notin kept /\ k <= Len(stable) -> stable[k]
                    [] OTHER -> None
    BY Zenon DEF Survivor
  <2>2. k \in 1 .. Len(file) /\ file[k] \in Record /\ file[k].life <= crashes
    BY <1>1, <1>2
  <2>3. k <= Len(stable) => stable[k] = file[k]
    BY <1>1, <1>2 DEF StartsWith
  <2>4. None.life <= crashes
    BY <1>1, <1>3
  <2> QED BY Zenon, <1>3, <2>1, <2>2, <2>3, <2>4
<1>5. left = [k \in 1 .. n |-> left[k]]
  BY Zenon DEF Survivor
<1> HIDE DEF left
<1>6. left \in Seq(Record) /\ Len(left) = n
  BY <1>2, <1>4, <1>5
<1>7. StartsWith(left, stable)
  <2>1. ASSUME NEW k \in 1 .. Len(stable) PROVE left[k] = stable[k]
    <3>1. k \in 1 .. n /\ k <= Len(stable)
      BY <1>2
    <3>2. file[k] = stable[k]
      BY Zenon, <1>1 DEF StartsWith
    <3> QED BY Zenon, <1>4, <3>1, <3>2
  <2> QED BY Zenon, <1>2, <1>6, <2>1 DEF StartsWith
<1> QED BY Zenon, <1>4, <1>6, <1>7 DEF left

-----------------------------------------------------------------------------
(***************************************************************************)
(* One step per action.                                                    *)
(***************************************************************************)

\* An opened device, over a file that holds what is stable and what earlier processes
\* have written, and that wal.Open refuses if it has a gap.
LEMMA OpenedInv ==
  ASSUME NEW left \in Seq(Record), NEW pc \in {"idle", "refused"},
         pc = "idle" => \A k \in 1 .. Len(left) : left[k].seq = k,
         \A k \in 1 .. Len(left) : left[k].life < crashes',
         dev' = Opened(left), buffer' = [s \in Slots |-> None],
         sq' = EmptyQueue(Entries, NoRequest), cq' = EmptyQueue(2 * Entries, NoResult),
         inflight' = {}, call' = [NoCall EXCEPT !.pc = pc], fault' = FALSE, crashes' \in Nat,
         blocks' = left, stable' \in Seq(Record), acked' \in Seq(Record),
         StartsWith(stable', acked'), StartsWith(blocks', stable')
  PROVE  DeviceInv'
<1>1. dev' = [durable |-> left, pending |-> <<>>, sequence |-> 0]
  BY Zenon DEF Opened
<1>2. TypeOK'
  <2>1. NoRequest \in Request /\ NoResult \in Result /\ None \in Record
    BY Sizes DEF NoRequest, NoResult, None, Request, Result, Record, Slots
  <2>2. sq' \in Queue(Entries, Request) /\ cq' \in Queue(2 * Entries, Result)
    BY <2>1, Sizes DEF EmptyQueue, Queue
  <2>3. buffer' \in [Slots -> Record]
    BY Zenon, <2>1
  <2>4. call' \in [pc : Pcs, request : Request, head : 0 .. Wrap - 1]
    BY <2>1, Sizes DEF NoCall, Pcs
  <2>5. dev' \in [durable : Seq(Record), pending : Seq(Record), sequence : Nat]
    BY <1>1
  <2> QED BY Zenon, <2>2, <2>3, <2>4, <2>5 DEF TypeOK
<1>3. call'.pc = pc /\ sq'.head = sq'.tail /\ cq'.head = cq'.tail
  BY Zenon DEF NoCall, EmptyQueue
<1>4. OneOutstanding' /\ FileFollows'
  <2>1. dev'.durable = left
    BY <1>1
  <2>2. call'.pc \notin {"enter", "wait", "next", "failed"}
    BY <1>3
  <2> QED BY Zenon, <1>3, <2>1, <2>2 DEF OneOutstanding, FileFollows, Pc, Empty
<1>5. Numbered'
  BY <1>1, <1>3 DEF Numbered, Pc
<1>6. Lives'
  <2>2. \A k \in 1 .. Len(left) : left[k] \in Record
    OBVIOUS
  <2>3. \A k \in 1 .. Len(left) : left[k].life \in Nat
    BY Zenon, <2>2 DEF Record
  <2>1. \A k \in 1 .. Len(left) : left[k].life \in Nat /\ left[k].life <= crashes'
    BY <2>3
  <2> QED BY <1>1, <2>1 DEF Lives
<1> QED BY Zenon, <1>2, <1>4, <1>5, <1>6 DEF DeviceInv

\* The device starts with an empty file (Open of a new one).
LEMMA InitInv == Init => DeviceInv
<1> SUFFICES ASSUME Init PROVE DeviceInv
  BY Zenon
<1>1. dev = [durable |-> <<>>, pending |-> <<>>, sequence |-> 0]
  BY Zenon DEF Init, Opened
<1>2. NoRequest \in Request /\ NoResult \in Result /\ None \in Record
  BY Sizes DEF NoRequest, NoResult, None, Request, Result, Record, Slots
<1>3. TypeOK
  <2>1. sq \in Queue(Entries, Request) /\ cq \in Queue(2 * Entries, Result)
    BY <1>2, Sizes DEF Init, EmptyQueue, Queue
  <2>2. call \in [pc : Pcs, request : Request, head : 0 .. Wrap - 1]
    BY <1>2, Sizes DEF Init, NoCall, Pcs
  <2>3. dev \in [durable : Seq(Record), pending : Seq(Record), sequence : Nat]
    BY <1>1
  <2>4. buffer \in [Slots -> Record]
    BY Zenon, <1>2 DEF Init
  <2>5. /\ inflight = {} /\ fault \in BOOLEAN /\ crashes \in Nat
        /\ blocks = <<>> /\ stable = <<>> /\ acked = <<>>
    BY Zenon DEF Init
  <2>6. blocks \in Seq(Record) /\ stable \in Seq(Record) /\ acked \in Seq(Record)
    BY <2>5
  <2> QED BY Zenon, <2>1, <2>2, <2>3, <2>4, <2>5, <2>6 DEF TypeOK
<1>4. call.pc = "idle" /\ sq.head = sq.tail /\ cq.head = cq.tail
  BY Zenon DEF Init, NoCall, EmptyQueue
<1>5. OneOutstanding /\ FileFollows
  BY <1>1, <1>4 DEF Init, OneOutstanding, FileFollows, Pc, Empty
<1>6. Numbered /\ Lives /\ StartsWith(stable, acked) /\ StartsWith(blocks, stable)
  BY <1>1 DEF Init, Numbered, Lives, StartsWith
<1> QED BY Zenon, <1>3, <1>5, <1>6 DEF DeviceInv

\* A process that ends, or a power loss, leaves a file that starts with what is stable,
\* and Open and wal.Open follow.
LEMMA Crashed ==
  ASSUME DeviceInv, Kill \/ PowerLoss
  PROVE  \E left \in Seq(Record) :
           /\ Reopen(left) /\ stable' \in {stable, left} /\ StartsWith(left, stable)
           /\ \A k \in 1 .. Len(left) : left[k].life <= crashes
<1>1. CASE Kill
  <2>1. PICK left \in Killed : Reopen(left) /\ stable' = stable
    BY Zenon, <1>1 DEF Kill
  <2> QED BY Zenon, <2>1, KilledFile
<1>2. CASE PowerLoss
  <2>3. PICK file \in Killed :
          \E kept \in SUBSET Unsynced(file), n \in Len(stable) .. Len(file) :
            Reopen(Survivor(file, n, kept)) /\ stable' = blocks'
    BY Zenon, <1>2 DEF PowerLoss
  <2>1. PICK kept \in SUBSET Unsynced(file), n \in Len(stable) .. Len(file) :
          Reopen(Survivor(file, n, kept)) /\ stable' = blocks'
    BY Zenon, <2>3
  <2>2. blocks' = Survivor(file, n, kept)
    BY Zenon, <2>1 DEF Reopen
  <2> QED BY Zenon, <2>1, <2>2, SurvivorFile
<1> QED BY Zenon, <1>1, <1>2

\* A process that ends, or a power loss, and Open after it.
LEMMA CrashInv ==
  ASSUME DeviceInv, Kill \/ PowerLoss
  PROVE  DeviceInv'
<1>1. PICK left \in Seq(Record) :
         /\ Reopen(left) /\ stable' \in {stable, left} /\ StartsWith(left, stable)
         /\ \A k \in 1 .. Len(left) : left[k].life <= crashes
  BY Zenon, Crashed
<1>2. acked \in Seq(Record) /\ stable \in Seq(Record) /\ StartsWith(stable, acked) /\ crashes \in Nat
  BY Zenon DEF DeviceInv, TypeOK
<1>3. StartsWith(left, acked) /\ StartsWith(left, left)
  <2>1. StartsWith(left, left)
    BY DEF StartsWith
  <2> QED BY Zenon, <1>1, <1>2, <2>1, StartsTransitive
<1>4. PICK pc \in {"idle", "refused"} :
        /\ call' = [NoCall EXCEPT !.pc = pc]
        /\ pc = "idle" => \A k \in 1 .. Len(left) : left[k].seq = k
  <2>1. CASE Recovers(left)
    <3>1. call' = [NoCall EXCEPT !.pc = "idle"]
      BY <1>1, <2>1 DEF Reopen, NoCall
    <3>2. \A k \in 1 .. Len(left) : left[k].seq = k
      BY <2>1 DEF Recovers
    <3> QED BY Zenon, <3>1, <3>2
  <2>2. CASE ~Recovers(left)
    BY Zenon, <1>1, <2>2 DEF Reopen
  <2> QED BY Zenon, <2>1, <2>2
<1>5. /\ dev' = Opened(left) /\ buffer' = [s \in Slots |-> None]
      /\ sq' = EmptyQueue(Entries, NoRequest) /\ cq' = EmptyQueue(2 * Entries, NoResult)
      /\ inflight' = {} /\ fault' = FALSE /\ crashes' = crashes + 1
      /\ blocks' = left /\ acked' = acked
  BY Zenon, <1>1 DEF Reopen
<1>6. crashes' \in Nat /\ \A k \in 1 .. Len(left) : left[k].life < crashes'
  <2>1. \A k \in 1 .. Len(left) : left[k] \in Record
    OBVIOUS
  <2>2. \A k \in 1 .. Len(left) : left[k].life \in Nat
    BY Zenon, <2>1 DEF Record
  <2> QED BY <1>1, <1>2, <1>5, <2>2
<1>7. CASE stable' = stable
  BY Zenon, <1>1, <1>2, <1>4, <1>5, <1>6, <1>7, OpenedInv
<1>8. CASE stable' = left
  BY Zenon, <1>3, <1>2, <1>4, <1>5, <1>6, <1>8, OpenedInv
<1> QED BY Zenon, <1>1, <1>7, <1>8

\* A record is appended in memory (Device.Append).
LEMMA AppendCallInv ==
  ASSUME DeviceInv, AppendCall
  PROVE  DeviceInv'
<1> DEFINE x == [seq |-> Len(dev.durable) + Len(dev.pending) + 1, life |-> crashes]
           p == Append(dev.pending, x)
<1>1. /\ dev \in [durable : Seq(Record), pending : Seq(Record), sequence : Nat]
      /\ dev.durable \in Seq(Record) /\ dev.pending \in Seq(Record) /\ crashes \in Nat
  BY Zenon DEF DeviceInv, TypeOK
<1>2. /\ x \in Record /\ x.seq = Len(dev.durable) + Len(dev.pending) + 1
      /\ x.life <= crashes
  BY <1>1 DEF Record
<1>3. dev' = [durable |-> dev.durable, pending |-> p, sequence |-> dev.sequence]
  BY <1>1, Zenon DEF AppendCall
<1> HIDE DEF x
<1>4. /\ p \in Seq(Record) /\ Len(p) = Len(dev.pending) + 1
      /\ \A k \in 1 .. Len(dev.pending) : p[k] = dev.pending[k]
      /\ p[Len(dev.pending) + 1] = x
  BY <1>1, <1>2
<1> HIDE DEF p
<1>5. UNCHANGED <<buffer, sq, cq, inflight, blocks, stable, call, acked, fault, crashes>>
  BY Zenon DEF AppendCall, ring
<1>6. call.pc = "idle"
  BY Zenon DEF AppendCall, Pc
<1>7. TypeOK'
  BY Zenon, <1>1, <1>3, <1>4, <1>5 DEF DeviceInv, TypeOK
<1>8. OneOutstanding' /\ FileFollows'
  BY Zenon, <1>3, <1>5, <1>6 DEF DeviceInv, OneOutstanding, FileFollows, Pc, Empty
<1>9. Numbered'
  <2>1. /\ \A k \in 1 .. Len(dev.durable) : dev.durable[k].seq = k
        /\ \A k \in 1 .. Len(dev.pending) : dev.pending[k].seq = Len(dev.durable) + k
    BY Zenon, <1>6 DEF DeviceInv, Numbered, Pc
  <2>2. dev'.durable = dev.durable /\ dev'.pending = p
    BY Zenon, <1>3
  <2>3. PICK n \in Nat, t \in Seq(Record) : n = Len(dev.durable) /\ t = dev.pending
    BY <1>1
  <2>4. x.seq = n + Len(t) + 1 /\ \A k \in 1 .. Len(t) : t[k].seq = n + k
    BY Zenon, <1>2, <2>1, <2>3
  <2>5. \A k \in 1 .. Len(Append(t, x)) : Append(t, x)[k].seq = n + k
    BY Zenon, <1>2, <2>3, <2>4, NumberedOn
  <2> QED BY Zenon, <2>1, <2>2, <2>3, <2>5 DEF Numbered, p
<1>10. Lives'
  <2>1. dev'.durable = dev.durable /\ dev'.pending = p
    BY Zenon, <1>3
  <2>2. \A k \in 1 .. Len(dev.pending) : dev.pending[k].life <= crashes
    BY Zenon DEF DeviceInv, Lives
  <2>3. \A k \in 1 .. Len(p) : p[k].life <= crashes
    BY <1>1, <1>2, <1>4, <2>2
  <2> QED BY Zenon, <1>5, <2>1, <2>3 DEF DeviceInv, Lives
<1> QED BY Zenon, <1>5, <1>7, <1>8, <1>9, <1>10 DEF DeviceInv

\* What the steps of Sync rely on: the values of their types.
LEMMA Typed ==
  ASSUME DeviceInv
  PROVE  /\ dev \in [durable : Seq(Record), pending : Seq(Record), sequence : Nat]
         /\ dev.durable \in Seq(Record) /\ dev.pending \in Seq(Record) /\ dev.sequence \in Nat
         /\ Slot \in Slots
         /\ sq \in Queue(Entries, Request) /\ cq \in Queue(2 * Entries, Result)
         /\ Entries \in Nat \ {0} /\ 2 * Entries \in Nat \ {0}
         /\ sq.head \in 0 .. Wrap - 1
         /\ call \in [pc : Pcs, request : Request, head : 0 .. Wrap - 1]
         /\ call.request \in Request /\ call.head \in 0 .. Wrap - 1
<1>1. dev \in [durable : Seq(Record), pending : Seq(Record), sequence : Nat]
  BY Zenon DEF DeviceInv, TypeOK
<1>2. dev.durable \in Seq(Record) /\ dev.pending \in Seq(Record) /\ dev.sequence \in Nat
  BY Zenon, <1>1
<1>3. Slot \in Slots
  BY <1>2, Sizes DEF Slot, Slots
<1>4. call \in [pc : Pcs, request : Request, head : 0 .. Wrap - 1]
  BY Zenon DEF DeviceInv, TypeOK
<1>5. sq \in Queue(Entries, Request) /\ cq \in Queue(2 * Entries, Result)
  BY Zenon DEF DeviceInv, TypeOK
<1>6. sq.head \in 0 .. Wrap - 1
  BY Zenon, <1>5 DEF Queue
<1> QED BY <1>1, <1>2, <1>3, <1>4, <1>5, <1>6, Sizes

\* A submission, to a queue that is empty (submitAndWait).
LEMMA Submitted ==
  ASSUME DeviceInv, Empty(sq), NEW r \in Request, Submit(r)
  PROVE  /\ sq' \in Queue(Entries, Request) /\ Holds(sq', r)
         /\ call' = [pc |-> "enter", request |-> r, head |-> sq'.head]
         /\ call' \in [pc : Pcs, request : Request, head : 0 .. Wrap - 1]
<1>1. sq \in Queue(Entries, Request) /\ Entries \in Nat \ {0} /\ sq.head \in 0 .. Wrap - 1
  BY Zenon, Typed
<1>2. ~Full(sq)
  BY Zenon, <1>1, QueueState
<1>3. sq' = Put(sq, r) /\ call' = [pc |-> "enter", request |-> r, head |-> sq.head]
  BY Zenon, <1>2 DEF Submit
<1>4. Put(sq, r) \in Queue(Entries, Request) /\ Put(sq, r).head = sq.head /\ Holds(Put(sq, r), r)
  BY Zenon, <1>1, PutTyped
<1> QED BY Zenon, <1>1, <1>3, <1>4 DEF Pcs

\* The requests of AppendDurable are requests.
LEMMA Requests ==
  ASSUME DeviceInv, NEW n \in Nat
  PROVE  Write(n) \in Request /\ Fsync(n) \in Request
<1>1. Len(dev.durable) \in Nat /\ Slot \in Slots /\ 0 \in Slots
  BY Typed, Sizes DEF Slots
<1> QED BY Zenon, <1>1 DEF Write, Fsync, Request, Block

\* Sync writes its first pending record into a buffer and submits the write.
LEMMA AppendDurableInv ==
  ASSUME DeviceInv, AppendDurable
  PROVE  DeviceInv'
<1> DEFINE w == Write(2 * (dev.sequence + 1))
<1>1. call.pc \in {"idle", "next"} /\ dev.pending # <<>>
  BY Zenon DEF AppendDurable, Pc
<1>2. Empty(sq) /\ Empty(cq) /\ inflight = {} /\ blocks = dev.durable
  BY Zenon, <1>1 DEF DeviceInv, OneOutstanding, FileFollows
<1>3. w \in Request
  <2>1. 2 * (dev.sequence + 1) \in Nat
    BY Typed
  <2> QED BY Zenon, <2>1, Requests
<1>4. /\ sq' \in Queue(Entries, Request) /\ Holds(sq', w)
      /\ call' = [pc |-> "enter", request |-> w, head |-> sq'.head]
      /\ call' \in [pc : Pcs, request : Request, head : 0 .. Wrap - 1]
  BY Zenon, <1>2, <1>3, Submitted DEF AppendDurable
<1>5. dev' = [durable |-> dev.durable, pending |-> dev.pending, sequence |-> dev.sequence + 1]
  BY Typed, Zenon DEF AppendDurable
<1>6. Head(dev.pending) \in Record
  BY Zenon, <1>1, GrownFile DEF Pc
<1>7. buffer' \in [Slots -> Record] /\ buffer'[Slot] = Head(dev.pending)
  BY Zenon, <1>6, Typed DEF AppendDurable, DeviceInv, TypeOK
<1>8. UNCHANGED <<cq, inflight, blocks, stable, acked, fault, crashes>>
  BY Zenon DEF AppendDurable
<1>9. /\ call'.pc = "enter" /\ call'.request = w /\ call'.head = sq'.head
      /\ w.op = "write" /\ w.block = Len(dev.durable) /\ w.slot = Slot
  BY Zenon, <1>4 DEF Write, Block
<1> HIDE DEF w
<1>10. TypeOK'
  <2>1. dev' \in [durable : Seq(Record), pending : Seq(Record), sequence : Nat]
    BY <1>5, Typed
  <2> QED BY Zenon, <2>1, <1>4, <1>7, <1>8 DEF DeviceInv, TypeOK
<1>11. OneOutstanding'
  BY Zenon, <1>2, <1>4, <1>8, <1>9 DEF OneOutstanding, Pc, Empty
<1>12. dev'.durable = dev.durable /\ dev'.pending = dev.pending
  BY Zenon, <1>5
<1>13. FileFollows'
  BY Zenon, <1>1, <1>2, <1>7, <1>8, <1>9, <1>12 DEF FileFollows, Writing, Succeeded, Pc
<1>14. Numbered' /\ Lives'
  BY Zenon, <1>1, <1>8, <1>12 DEF DeviceInv, Numbered, Lives, Pc
<1> QED BY Zenon, <1>8, <1>10, <1>11, <1>13, <1>14 DEF DeviceInv

\* Sync returns nil.
LEMMA SyncReturnInv ==
  ASSUME DeviceInv, SyncReturn
  PROVE  DeviceInv'
<1>1. UNCHANGED <<dev, buffer, sq, cq, inflight, blocks, stable, fault, crashes>>
  BY Zenon DEF SyncReturn, ring
<1>2. call.pc = "next" /\ call' = NoCall /\ acked' = dev.durable
  BY Zenon DEF SyncReturn, Pc
<1>3. NoCall \in [pc : Pcs, request : Request, head : 0 .. Wrap - 1]
  BY Sizes DEF NoCall, NoRequest, Request, Slots, Pcs
<1>4. call'.pc = "idle"
  BY Zenon, <1>2 DEF NoCall
<1>5. /\ Empty(sq) /\ Empty(cq) /\ inflight = {}
      /\ blocks = dev.durable /\ stable = blocks /\ blocks \in Seq(Record)
  BY Zenon, <1>2 DEF DeviceInv, OneOutstanding, FileFollows, TypeOK, Pc
<1>6. TypeOK'
  BY Zenon, <1>1, <1>2, <1>3, <1>5 DEF DeviceInv, TypeOK
<1>7. OneOutstanding' /\ FileFollows'
  BY Zenon, <1>1, <1>4, <1>5 DEF OneOutstanding, FileFollows, Pc, Empty
<1>9. Numbered' /\ Lives'
  BY Zenon, <1>1, <1>2 DEF DeviceInv, Numbered, Lives, Pc
<1>8. StartsWith(stable', acked')
  BY <1>1, <1>2, <1>5 DEF StartsWith
<1> QED BY Zenon, <1>1, <1>6, <1>7, <1>8, <1>9 DEF DeviceInv

\* The call moves to another step and keeps its request (submitAndWait).
LEMMA CallAt ==
  ASSUME DeviceInv, NEW pc \in Pcs, call' = At(pc)
  PROVE  /\ call'.pc = pc /\ call'.request = call.request /\ call'.head = call.head
         /\ call' \in [pc : Pcs, request : Request, head : 0 .. Wrap - 1]
<1>1. call' = [pc |-> pc, request |-> call.request, head |-> call.head]
  BY Typed, Zenon DEF At
<1> QED BY <1>1, Typed

\* The kernel takes the submission.
LEMMA EnterInv ==
  ASSUME DeviceInv, Enter
  PROVE  DeviceInv'
<1>1. call.pc = "enter"
  BY Zenon DEF Enter, Pc
<1>2. Holds(sq, call.request) /\ call.head = sq.head /\ Empty(cq) /\ inflight = {}
  BY Zenon, <1>1 DEF DeviceInv, OneOutstanding, Pc
<1>3. /\ Taken(sq) \in Queue(Entries, Request) /\ Empty(Taken(sq))
      /\ Taken(sq).head # sq.head /\ Top(sq) = call.request
  BY Zenon, <1>2, Typed, TakenTyped
<1>4. call' = At("wait")
  BY Zenon, <1>2, <1>3 DEF Enter, AfterEnter
<1>5. /\ call'.pc = "wait" /\ call'.request = call.request
      /\ call' \in [pc : Pcs, request : Request, head : 0 .. Wrap - 1]
  BY Zenon, <1>4, CallAt DEF Pcs
<1>6. /\ sq' = Taken(sq) /\ inflight' = {call.request}
      /\ UNCHANGED <<dev, buffer, cq, blocks, stable, acked, fault, crashes>>
  BY Zenon, <1>2, <1>3 DEF Enter
<1>7. TypeOK'
  BY Zenon, <1>3, <1>5, <1>6, Typed DEF DeviceInv, TypeOK
<1>8. OneOutstanding'
  BY Zenon, <1>2, <1>3, <1>5, <1>6 DEF OneOutstanding, Pc, Empty
<1>9. ~Succeeded'
  <2>1. ~Posted(cq) /\ (Holds(cq, Outcome(TRUE)') => Posted(cq))
    BY Zenon, <1>2, Typed, QueueState
  <2> QED BY Zenon, <1>6, <2>1 DEF Succeeded
<1>10. FileFollows'
  <2>1. dev.pending # <<>> /\ (Writing \/ Syncing)
    BY Zenon, <1>1 DEF DeviceInv, FileFollows
  <2> QED BY Zenon, <1>5, <1>6, <1>9, <2>1 DEF FileFollows, Writing, Syncing, Grown, Pc
<1>11. Numbered' /\ Lives'
  BY Zenon, <1>1, <1>6 DEF DeviceInv, Numbered, Lives, Pc
<1> QED BY Zenon, <1>6, <1>7, <1>8, <1>10, <1>11 DEF DeviceInv

\* The call enters the kernel and nothing is taken, or fails to wait there: it is tried
\* again, or an error was reported.
LEMMA FailureInv ==
  ASSUME DeviceInv, EnterNot \/ WaitFails
  PROVE  DeviceInv'
<1>1. UNCHANGED <<dev, buffer, sq, cq, inflight, blocks, stable, acked, crashes>>
  BY Zenon DEF EnterNot, WaitFails, ring
<1>2. \/ call.pc = "enter" /\ call' = At("enter") /\ fault' = fault
      \/ call.pc \in {"enter", "wait"} /\ call' = At("failed") /\ fault' = TRUE
  <2>1. CASE EnterNot
    <3>1. call.pc = "enter" /\ call.head = sq.head
      BY Zenon, <2>1 DEF EnterNot, DeviceInv, OneOutstanding, Pc
    <3>2. PICK code \in {"done", "again", "error"} :
             call' = At(AfterEnter(sq, code)) /\ fault' = (fault \/ code # "again")
      BY Zenon, <2>1 DEF EnterNot
    <3>3. AfterEnter(sq, code) = IF code = "again" THEN "enter" ELSE "failed"
      BY Zenon, <3>1, <3>2 DEF AfterEnter
    <3>4. fault \in BOOLEAN
      BY Zenon DEF DeviceInv, TypeOK
    <3> QED BY Zenon, <3>1, <3>2, <3>3, <3>4
  <2>2. CASE WaitFails
    BY Zenon, <2>2 DEF WaitFails, Pc
  <2> QED BY Zenon, <2>1, <2>2
<1>3. /\ call'.pc \in {"enter", "failed"} /\ call'.request = call.request /\ call'.head = call.head
      /\ call'.pc = "enter" => call.pc = "enter"
      /\ call'.pc = "failed" => fault'
      /\ call' \in [pc : Pcs, request : Request, head : 0 .. Wrap - 1]
  BY Zenon, <1>2, CallAt DEF Pcs
<1>4. call.pc \in {"enter", "wait"} /\ fault' \in BOOLEAN
  BY Zenon, <1>2 DEF DeviceInv, TypeOK
<1>5. TypeOK'
  BY Zenon, <1>1, <1>3, <1>4, Typed DEF DeviceInv, TypeOK
<1>6. OneOutstanding'
  <2>1. inflight \subseteq {call.request}
    BY Zenon, <1>4 DEF DeviceInv, OneOutstanding, Pc
  <2>2. call'.pc = "enter" => /\ Holds(sq, call.request) /\ call.head = sq.head
                             /\ Empty(cq) /\ inflight = {}
    BY Zenon, <1>3 DEF DeviceInv, OneOutstanding, Pc
  <2> QED BY Zenon, <1>1, <1>3, <2>1, <2>2 DEF OneOutstanding, Pc, Empty
<1>7. FileFollows'
  <2>1. dev.pending # <<>> /\ (Writing \/ Syncing)
    BY Zenon, <1>4 DEF DeviceInv, FileFollows
  <2> QED BY Zenon, <1>1, <1>3, <2>1 DEF FileFollows, Writing, Syncing, Grown, Succeeded, Pc
<1>8. Numbered' /\ Lives'
  BY Zenon, <1>1, <1>4 DEF DeviceInv, Numbered, Lives, Pc
<1> QED BY Zenon, <1>1, <1>5, <1>6, <1>7, <1>8 DEF DeviceInv

\* The call that waits finds a completion: its own, with the outcome the kernel had.
LEMMA Reaping ==
  ASSUME DeviceInv, Reap
  PROVE  /\ call.pc = "wait" /\ Empty(sq) /\ inflight = {}
         /\ cq' \in Queue(2 * Entries, Result) /\ Empty(cq')
         /\ dev.pending # <<>> /\ (Writing \/ Syncing)
         /\ \/ Succeeded /\ Finished
            \/ fault /\ call' = At("failed") /\ UNCHANGED <<dev, sq>>
<1>1. call.pc = "wait" /\ Posted(cq) /\ cq' = Taken(cq)
  BY Zenon DEF Reap, Pc, Reaped
<1>2. ~Empty(cq)
  BY Zenon, <1>1, Typed, QueueState
<1>3. Empty(sq) /\ dev.pending # <<>> /\ (Writing \/ Syncing)
  BY Zenon, <1>1 DEF DeviceInv, OneOutstanding, FileFollows, Pc
<1>4. PICK ok \in BOOLEAN : Holds(cq, Outcome(ok)) /\ inflight = {} /\ (~ok => fault)
  BY Zenon, <1>1, <1>2 DEF DeviceInv, OneOutstanding, Pc
<1>5. Taken(cq) \in Queue(2 * Entries, Result) /\ Empty(Taken(cq)) /\ Top(cq) = Outcome(ok)
  BY Zenon, <1>4, Typed, TakenTyped
<1>6. Good(Top(cq)) = ok
  BY <1>5 DEF Good, Outcome
<1>7. CASE ok
  BY Zenon, <1>1, <1>3, <1>4, <1>5, <1>6, <1>7 DEF Reap, Succeeded, Pc
<1>8. CASE ~ok
  BY Zenon, <1>1, <1>3, <1>4, <1>5, <1>6, <1>8 DEF Reap
<1> QED BY Zenon, <1>7, <1>8

\* The completion is reaped: the write is followed by its fsync, and a record that was
\* synced is durable (AppendDurable).
LEMMA ReapInv ==
  ASSUME DeviceInv, Reap
  PROVE  DeviceInv'
<1>1. /\ call.pc = "wait" /\ Empty(sq) /\ inflight = {}
      /\ cq' \in Queue(2 * Entries, Result) /\ Empty(cq')
      /\ dev.pending # <<>> /\ (Writing \/ Syncing)
  BY Zenon, Reaping
<1>2. UNCHANGED <<buffer, inflight, blocks, stable, acked, fault, crashes>>
  BY Zenon DEF Reap
<1>3. CASE Succeeded /\ Finished /\ call.request.op = "write"
  <2> DEFINE f == Fsync(2 * dev.sequence + 1)
  <2>1. f \in Request
    <3>1. 2 * dev.sequence + 1 \in Nat
      BY Typed
    <3> QED BY Zenon, <3>1, Requests
  <2>2. Submit(f) /\ dev' = dev
    BY Zenon, <1>3 DEF Finished
  <2>3. /\ sq' \in Queue(Entries, Request) /\ Holds(sq', f)
        /\ call' = [pc |-> "enter", request |-> f, head |-> sq'.head]
        /\ call' \in [pc : Pcs, request : Request, head : 0 .. Wrap - 1]
    BY Zenon, <1>1, <2>1, <2>2, Submitted
  <2>4. call'.pc = "enter" /\ call'.request = f /\ call'.head = sq'.head /\ f.op = "fsync"
    BY Zenon, <2>3 DEF Fsync
  <2> HIDE DEF f
  <2>5. blocks = Grown
    BY Zenon, <1>1, <1>3 DEF Writing, Syncing
  <2>6. TypeOK'
    BY Zenon, <1>1, <1>2, <2>2, <2>3 DEF DeviceInv, TypeOK
  <2>7. OneOutstanding'
    BY Zenon, <1>1, <1>2, <2>3, <2>4 DEF OneOutstanding, Pc, Empty
  <2>8. FileFollows'
    BY Zenon, <1>1, <1>2, <2>2, <2>4, <2>5 DEF FileFollows, Syncing, Succeeded, Grown, Pc
  <2>9. Numbered' /\ Lives'
    BY Zenon, <1>1, <1>2, <2>2 DEF DeviceInv, Numbered, Lives, Pc
  <2> QED BY Zenon, <1>2, <2>6, <2>7, <2>8, <2>9 DEF DeviceInv
<1>4. CASE Succeeded /\ Finished /\ call.request.op # "write"
  <2>1. Syncing /\ blocks = Grown /\ stable = blocks
    BY Zenon, <1>1, <1>4 DEF Writing, Syncing
  <2>2. dev' = [durable |-> Grown, pending |-> Tail(dev.pending), sequence |-> dev.sequence]
    <3>1. dev' = [dev EXCEPT !.durable = Grown, !.pending = Tail(@)]
      BY <1>4, Zenon DEF Finished, RecordDurable, Grown
    <3> QED BY <3>1, Typed, Zenon
  <2>3. call' = At("next") /\ sq' = sq
    BY Zenon, <1>4 DEF Finished, RecordDurable
  <2>4. /\ call'.pc = "next"
        /\ call' \in [pc : Pcs, request : Request, head : 0 .. Wrap - 1]
    BY Zenon, <2>3, CallAt DEF Pcs
  <2>5. /\ Grown \in Seq(Record) /\ Len(Grown) = Len(dev.durable) + 1
        /\ \A k \in 1 .. Len(Grown) : Grown[k].seq = k /\ Grown[k].life <= crashes
    BY Zenon, <1>1, GrownFile DEF Pc
  <2>6. Tail(dev.pending) \in Seq(Record)
    BY <1>1, Typed
  <2>7. /\ dev' \in [durable : Seq(Record), pending : Seq(Record), sequence : Nat]
        /\ dev'.durable = Grown /\ dev'.pending = Tail(dev.pending)
    BY Zenon, <2>2, <2>5, <2>6, Typed
  <2>8. TypeOK'
    BY Zenon, <1>1, <1>2, <2>3, <2>4, <2>7 DEF DeviceInv, TypeOK
  <2>9. OneOutstanding' /\ FileFollows'
    BY Zenon, <1>1, <1>2, <2>1, <2>3, <2>4, <2>7 DEF OneOutstanding, FileFollows, Pc, Empty
  <2>10. Numbered'
    <3>1. PICK n \in Nat, t \in Seq(Record), x \in Record :
            n = Len(dev.durable) /\ t = dev.pending /\ x = Head(dev.pending)
      <4>1. dev.durable \in Seq(Record) /\ dev.pending \in Seq(Record) /\ Head(dev.pending) \in Record
        BY Zenon, <1>1, GrownFile DEF Pc
      <4> QED BY <4>1
    <3>2. \A k \in 1 .. Len(t) : t[k].seq = n + k
      BY Zenon, <1>1, <3>1 DEF DeviceInv, Numbered, Pc
    <3>3. \A k \in 1 .. Len(Tail(t)) : Tail(t)[k].seq = n + 1 + k
      BY Zenon, <1>1, <3>1, <3>2, NumberedOn
    <3> QED BY Zenon, <2>5, <2>7, <3>1, <3>3 DEF Numbered
  <2>11. Lives'
    <3>1. \A k \in 1 .. Len(dev.pending) : dev.pending[k].life <= crashes
      BY Zenon DEF DeviceInv, Lives
    <3>2. \A k \in 1 .. Len(Tail(dev.pending)) : Tail(dev.pending)[k].life <= crashes
      <4> TAKE k \in 1 .. Len(Tail(dev.pending))
      <4>1. Tail(dev.pending)[k] = dev.pending[k + 1] /\ k + 1 \in 1 .. Len(dev.pending)
        BY <1>1, Typed
      <4> QED BY Zenon, <3>1, <4>1
    <3>3. \A k \in 1 .. Len(Grown) : ~(k > Len(Grown))
      BY <2>5
    <3> QED BY Zenon, <1>2, <2>1, <2>5, <2>7, <3>2, <3>3 DEF Lives
  <2> QED BY Zenon, <1>2, <2>8, <2>9, <2>10, <2>11 DEF DeviceInv
<1>5. CASE fault /\ call' = At("failed") /\ UNCHANGED <<dev, sq>>
  <2>1. /\ call'.pc = "failed" /\ call'.request = call.request
        /\ call' \in [pc : Pcs, request : Request, head : 0 .. Wrap - 1]
    BY Zenon, <1>5, CallAt DEF Pcs
  <2>2. TypeOK'
    BY Zenon, <1>1, <1>2, <1>5, <2>1 DEF DeviceInv, TypeOK
  <2>3. OneOutstanding'
    BY Zenon, <1>1, <1>2, <1>5, <2>1 DEF OneOutstanding, Pc
  <2>4. FileFollows'
    BY Zenon, <1>1, <1>2, <1>5, <2>1
       DEF FileFollows, Writing, Syncing, Grown, Succeeded, Pc
  <2>5. Numbered' /\ Lives'
    BY Zenon, <1>1, <1>2, <1>5 DEF DeviceInv, Numbered, Lives, Pc
  <2> QED BY Zenon, <1>2, <2>2, <2>3, <2>4, <2>5 DEF DeviceInv
<1> QED BY Zenon, <1>3, <1>4, <1>5, Reaping

\* The kernel carries out a request, or fails to.
LEMMA CompleteInv ==
  ASSUME DeviceInv, NEW r \in inflight, Complete(r) \/ CompleteFails(r)
  PROVE  DeviceInv'
<1>1. PICK good \in BOOLEAN :
        /\ good => Complete(r)
        /\ ~good => CompleteFails(r)
  BY Zenon
<1>2. /\ inflight' = inflight \ {r} /\ UNCHANGED <<dev, buffer, sq, call, acked, crashes>>
      /\ cq' = Put(cq, [userData |-> r.userData, ok |-> good])
      /\ fault' = (fault \/ ~good)
      /\ blocks' \in {blocks, Done(r)} /\ (good => blocks' = Done(r))
      /\ stable' \in {stable, blocks}
      /\ good /\ r.op = "fsync" => stable' = blocks
  BY Zenon, <1>1 DEF Complete, CompleteFails, DeviceInv, TypeOK
<1>3. /\ r = call.request /\ r \in Request /\ call.pc \in {"wait", "failed"}
      /\ dev.pending # <<>> /\ Done(r) = Grown /\ StartsWith(Done(r), blocks)
      /\ blocks \in {dev.durable, Grown} /\ (r.op = "fsync" => blocks = Grown)
      /\ ~Pc("refused")
  BY Zenon, InFlight
<1>4. /\ Grown \in Seq(Record) /\ StartsWith(Grown, Grown)
      /\ blocks \in Seq(Record) /\ stable \in Seq(Record) /\ acked \in Seq(Record)
      /\ StartsWith(blocks, stable) /\ StartsWith(stable, acked)
  BY Zenon, <1>3, GrownFile DEF DeviceInv, TypeOK
<1>5. inflight' = {}
  <2>1. inflight \subseteq {call.request}
    BY Zenon, <1>3 DEF DeviceInv, OneOutstanding, Pc
  <2> QED BY Zenon, <1>2, <1>3, <2>1
<1>6. [userData |-> r.userData, ok |-> good] \in Result
  BY Zenon, <1>3 DEF Request, Result
<1>7. cq' \in Queue(2 * Entries, Result)
  BY Zenon, <1>2, <1>6, Typed, PutTyped
<1>8. call.pc = "wait" => Holds(cq', Outcome(good))
  <2> SUFFICES ASSUME call.pc = "wait" PROVE Holds(cq', Outcome(good))
    BY Zenon
  <2>1. Empty(cq)
    BY Zenon DEF DeviceInv, OneOutstanding, Pc
  <2> QED BY Zenon, <1>2, <1>3, <1>6, <2>1, Typed, PutTyped DEF Outcome
<1>9. TypeOK'
  <2>1. blocks' \in Seq(Record) /\ stable' \in Seq(Record) /\ fault' \in BOOLEAN
    BY Zenon, <1>2, <1>3, <1>4 DEF DeviceInv, TypeOK
  <2> QED BY Zenon, <1>2, <1>5, <1>7, <2>1 DEF DeviceInv, TypeOK
<1>10. \A b \in BOOLEAN : Outcome(b)' = Outcome(b)
  BY Zenon, <1>2 DEF Outcome
<1>11. OneOutstanding'
  <2>1. CASE call.pc = "wait"
    <3>1. Empty(sq)
      BY Zenon, <2>1 DEF DeviceInv, OneOutstanding, Pc
    <3>2. CASE good
      BY Zenon, <1>2, <1>5, <1>8, <1>10, <2>1, <3>1, <3>2 DEF OneOutstanding, Pc, Empty
    <3>3. CASE ~good
      BY Zenon, <1>2, <1>5, <1>8, <1>10, <2>1, <3>1, <3>3 DEF OneOutstanding, Pc, Empty
    <3> QED BY Zenon, <3>2, <3>3
  <2>2. CASE call.pc = "failed"
    BY Zenon, <1>2, <1>5, <2>2 DEF DeviceInv, OneOutstanding, Pc
  <2> QED BY Zenon, <1>3, <2>1, <2>2
<1>12. Succeeded' => good
  <2> SUFFICES ASSUME Succeeded' PROVE good
    BY Zenon
  <2>1. Top(cq') = Outcome(TRUE) /\ Top(cq') = Outcome(good)
    BY Zenon, <1>2, <1>8, <1>10 DEF Succeeded, Holds, Pc
  <2> QED BY <2>1 DEF Outcome
<1>13. FileFollows'
  <2>1. Writing \/ Syncing
    BY Zenon, <1>3 DEF DeviceInv, FileFollows
  <2>2. Grown' = Grown
    BY Zenon, <1>2 DEF Grown
  <2>3. CASE Writing
    <3>1. Writing'
      BY Zenon, <1>2, <1>3, <1>12, <2>2, <2>3 DEF Writing
    <3> QED BY Zenon, <1>2, <1>3, <3>1 DEF FileFollows, Pc
  <2>4. CASE Syncing
    <3>1. Syncing'
      BY Zenon, <1>2, <1>3, <1>12, <2>2, <2>4 DEF Syncing
    <3> QED BY Zenon, <1>2, <1>3, <3>1 DEF FileFollows, Pc
  <2> QED BY Zenon, <2>1, <2>3, <2>4
<1>14. Numbered' /\ Lives'
  <2>1. \A k \in 1 .. Len(dev.durable) : k > Len(stable') => k > Len(stable)
    <3>1. Len(stable) \in Nat /\ Len(blocks) \in Nat /\ Len(dev.durable) \in Nat
      BY <1>4, Typed
    <3>2. Len(stable) <= Len(blocks)
      BY Zenon, <1>4 DEF StartsWith
    <3> QED BY <1>2, <3>1, <3>2
  <2> QED BY Zenon, <1>2, <2>1 DEF DeviceInv, Numbered, Lives, Pc
<1>15. StartsWith(stable', acked') /\ StartsWith(blocks', stable')
  <2>1. StartsWith(blocks, acked)
    BY Zenon, <1>4, StartsTransitive
  <2>2. StartsWith(Grown, stable)
    BY Zenon, <1>3, <1>4, StartsTransitive
  <2>3. StartsWith(blocks, blocks)
    BY <1>4 DEF StartsWith
  <2> QED BY Zenon, <1>2, <1>3, <1>4, <2>1, <2>2, <2>3
<1> QED BY Zenon, <1>9, <1>11, <1>13, <1>14, <1>15 DEF DeviceInv

-----------------------------------------------------------------------------
\* Every state of the device satisfies the inductive invariant: one request is
\* outstanding, and the file is what the device counts on (uringwal.Device).
THEOREM DeviceInvariant == Spec => []DeviceInv
<1>1. ASSUME DeviceInv, [Next]_vars PROVE DeviceInv'
  <2>1. CASE AppendCall
    BY Zenon, <1>1, <2>1, AppendCallInv
  <2>2. CASE AppendDurable
    BY Zenon, <1>1, <2>2, AppendDurableInv
  <2>3. CASE SyncReturn
    BY Zenon, <1>1, <2>3, SyncReturnInv
  <2>4. CASE Enter
    BY Zenon, <1>1, <2>4, EnterInv
  <2>5. CASE EnterNot \/ WaitFails
    BY Zenon, <1>1, <2>5, FailureInv
  <2>6. CASE Reap
    BY Zenon, <1>1, <2>6, ReapInv
  <2>7. ASSUME NEW r \in inflight, Complete(r) \/ CompleteFails(r) PROVE DeviceInv'
    BY Zenon, <1>1, <2>7, CompleteInv
  <2>8. CASE Kill \/ PowerLoss
    BY Zenon, <1>1, <2>8, CrashInv
  <2>9. CASE UNCHANGED vars
    BY Zenon, <1>1, <2>9
       DEF vars, ring, DeviceInv, TypeOK, OneOutstanding, FileFollows, Numbered, Lives,
           Writing, Syncing, Grown, Succeeded, Outcome, Empty, Holds, Top, Size, Pc, StartsWith
  <2> QED BY Zenon, <1>1, <2>1, <2>2, <2>3, <2>4, <2>5, <2>6, <2>7, <2>8, <2>9 DEF Next
<1> QED BY <1>1, InitInv, PTL DEF Spec

\* When Sync has returned nil, everything appended so far survives a power loss, at
\* any time from then on (uringwal.Sync, AppendDurable, submitAndWait).
THEOREM AckedStableAlways == Spec => []AckedStable
<1>1. DeviceInv => AckedStable
  BY Zenon DEF DeviceInv, AckedStable
<1> QED BY <1>1, DeviceInvariant, PTL

\* When no block is unsynced that an earlier process wrote, a crash leaves a log without
\* gaps: at most the last block of the file is not stable.
LEMMA LeavesNoGap ==
  ASSUME DeviceInv, ~Pc("refused"), ~Inherited, Kill \/ PowerLoss
  PROVE  call'.pc # "refused"
<1>1. NoCall.pc # "refused"
  BY DEF NoCall
<1>2. ASSUME NEW left, Reopen(left), Recovers(left)
      PROVE  call'.pc # "refused"
  BY Zenon, <1>1, <1>2 DEF Reopen
<1>3. CASE Kill
  <2>1. PICK left \in Killed : Reopen(left)
    BY Zenon, <1>3 DEF Kill
  <2>2. left \in Seq(Record) /\ \A k \in 1 .. Len(left) : left[k].seq = k
    BY Zenon, <2>1, KilledFile
  <2>3. Recovers(left)
    BY <2>2 DEF Recovers
  <2> QED BY Zenon, <1>2, <2>1, <2>3
<1>4. CASE PowerLoss
  <2>1. PICK file \in Killed :
          \E kept \in SUBSET Unsynced(file), n \in Len(stable) .. Len(file) :
            n \in kept \cup {Len(stable)} /\ Reopen(Survivor(file, n, kept))
    BY Zenon, <1>4 DEF PowerLoss
  <2>2. PICK kept \in SUBSET Unsynced(file), n \in Len(stable) .. Len(file) :
          n \in kept \cup {Len(stable)} /\ Reopen(Survivor(file, n, kept))
    BY Zenon, <2>1
  <2> DEFINE left == Survivor(file, n, kept)
  <2>3. /\ file \in Seq(Record) /\ StartsWith(file, blocks)
        /\ Len(file) <= Len(dev.durable) + 1
        /\ \A k \in 1 .. Len(file) : file[k].seq = k
    BY Zenon, KilledFile
  <2>4. /\ left \in Seq(Record) /\ Len(left) = n
        /\ \A k \in 1 .. n : k \in kept \/ k <= Len(stable) => left[k] = file[k]
    BY Zenon, SurvivorFile
  <2> HIDE DEF left
  <2>5. Len(dev.durable) <= Len(stable)
    <3>1. /\ blocks \in Seq(Record) /\ dev.durable \in Seq(Record) /\ stable \in Seq(Record)
          /\ call.pc \in Pcs /\ Lives
      BY Zenon DEF DeviceInv, TypeOK
    <3>2. StartsWith(blocks, dev.durable)
      <4>1. CASE blocks = dev.durable
        BY <3>1, <4>1 DEF StartsWith
      <4>2. CASE blocks # dev.durable
        <5>1. dev.pending # <<>> /\ blocks = Grown
          BY Zenon, <3>1, <4>2 DEF DeviceInv, FileFollows, Writing, Syncing, Pc, Pcs
        <5> QED BY Zenon, <5>1, GrownFile
      <4> QED BY Zenon, <4>1, <4>2
    <3> SUFFICES ASSUME Len(dev.durable) > Len(stable) PROVE FALSE
      BY <3>1
    <3>3. Len(dev.durable) \in 1 .. Len(dev.durable) /\ Len(dev.durable) \in DOMAIN blocks
      BY <3>1, <3>2 DEF StartsWith
    <3>4. blocks[Len(dev.durable)].life < crashes
      BY Zenon, <3>1, <3>2, <3>3 DEF Lives, StartsWith
    <3> QED BY Zenon, <3>3, <3>4 DEF Inherited
  <2>6. \A k \in 1 .. n : k \in 1 .. Len(file) /\ (k \in kept \/ k <= Len(stable))
    <3>1. /\ Len(stable) \in Nat /\ Len(file) \in Nat /\ Len(dev.durable) \in Nat
      BY <2>3, Typed DEF DeviceInv, TypeOK
    <3>2. n \in kept \/ n = Len(stable)
      BY Zenon, <2>2
    <3>3. n \in Nat /\ n <= Len(file) /\ n <= Len(stable) + 1
      BY <2>3, <2>5, <3>1
    <3> TAKE k \in 1 .. n
    <3>4. k = n \/ k <= Len(stable)
      BY <3>1, <3>3
    <3>5. k \in 1 .. Len(file)
      BY <3>1, <3>3
    <3>6. n = Len(stable) => k <= Len(stable)
      BY <3>3
    <3> QED BY Zenon, <3>2, <3>4, <3>5, <3>6
  <2>7. \A k \in 1 .. n : left[k].seq = k
    BY Zenon, <2>3, <2>4, <2>6
  <2>8. Recovers(left)
    BY <2>4, <2>7 DEF Recovers
  <2> QED BY Zenon, <1>2, <2>2, <2>8 DEF left
<1> QED BY Zenon, <1>3, <1>4

\* No step but a crash makes wal.Open refuse the log.
LEMMA RefusedByCrash ==
  ASSUME DeviceInv, [Next]_vars, call'.pc = "refused", ~Pc("refused")
  PROVE  Kill \/ PowerLoss
<1>1. /\ NoCall.pc # "refused" /\ \A r : [pc |-> "enter", request |-> r, head |-> sq.head].pc # "refused"
      /\ \A pc \in Pcs : At(pc).pc = pc
  BY Typed DEF NoCall, At
<1>2. ~AppendCall /\ ~UNCHANGED vars /\ \A r \in inflight : ~Complete(r) /\ ~CompleteFails(r)
  BY Zenon DEF AppendCall, Complete, CompleteFails, Pc, vars
<1>3. \A r : ~Submit(r)
  BY Zenon, <1>1 DEF Submit, Pcs
<1>4. ~AppendDurable /\ ~SyncReturn /\ ~WaitFails
  BY Zenon, <1>1, <1>3 DEF AppendDurable, SyncReturn, WaitFails, Pcs
<1>5. ~Enter /\ ~EnterNot
  <2>1. \A queue, code : AfterEnter(queue, code) \in Pcs \ {"refused"}
    BY Zenon DEF AfterEnter, Pcs
  <2>2. \A queue, code : At(AfterEnter(queue, code)).pc # "refused"
    <3> TAKE queue, code
    <3>1. PICK pc \in Pcs : pc = AfterEnter(queue, code) /\ pc # "refused"
      BY Zenon, <2>1
    <3>2. At(pc).pc = pc
      BY Zenon, <1>1
    <3> QED BY Zenon, <3>1, <3>2
  <2> QED BY Zenon, <2>2 DEF Enter, EnterNot
<1>6. ~Reap
  BY Zenon, <1>1, <1>3 DEF Reap, Finished, RecordDurable, Pcs
<1> QED BY Zenon, <1>2, <1>4, <1>5, <1>6 DEF Next

\* Whatever a kill or a power loss leaves, in the middle of a write or between a write
\* and its fsync, the log opens again, unless the power is lost while a block that Open
\* has found is unsynced (uringwal.Open, Sync; wal.Recover).
THEOREM OpensAgainAlways == Spec => OpensAgain
<1>1. ASSUME DeviceInv, [Next]_vars
      PROVE  [call'.pc = "refused" => Pc("refused") \/ Inherited]_vars
  BY Zenon, <1>1, RefusedByCrash, LeavesNoGap
<1> QED BY <1>1, DeviceInvariant, PTL DEF Spec, OpensAgain

\* A Sync fails only when the kernel has reported an error: the submission queue is
\* never full, and the completion that is reaped is that of the request that waits,
\* even when the ring's counters wrap (submitAndWait).
THEOREM NoSpuriousFailureEver == Spec => []NoSpuriousFailure
<1>1. DeviceInv => NoSpuriousFailure
  BY Zenon DEF DeviceInv, OneOutstanding, NoSpuriousFailure
<1> QED BY <1>1, DeviceInvariant, PTL

=============================================================================
