----------------------------- MODULE RaftStore -----------------------------
(***************************************************************************)
(* The durable store of a Raft node: storage/raftstore over raftwal and    *)
(* wal (one file of records) and snapshot (one file that is replaced).     *)
(*                                                                         *)
(* Every system call is a step of its own, and the process may be killed   *)
(* or the power lost between any two.  A write or a sync may fail, after   *)
(* which the node fail-stops: the store is not called again.               *)
(*                                                                         *)
(* The bytes of a record are one element of the file; bytes that are not a *)
(* whole record are partial.  A failed sync leaves what was written        *)
(* pending, and a later sync can still succeed.                            *)
(***************************************************************************)
EXTENDS RaftDisk, FiniteSets, FiniteSetsExt

CONSTANTS Server,       \* as in RaftNode
          World,        \* what may happen: powerLoss, kill, writeErrors, damage
          MaxTerm,      \* bound: terms
          MaxIndex,     \* bound: log indices
          MaxRecords,   \* bound: records in the WAL
          MaxCrashes    \* bound: kills and power losses

VARIABLES file,    \* the WAL: records durable and pending, and a partial one at the end
          damage,  \* Nil, or a record of the medium that reads as another
          dir,     \* what the snapshot path leads to, now and after a power loss
          tmp,     \* the temporary file of a Save
          store,   \* raftwal.Store and raftstore.Store in memory
          call,    \* the call under way and its next step
          world,   \* what may happen in this behaviour
          crashes,
          disk,    \* history: what a crash leaves behind, as RaftNode's disk
          orphaned \* history: a kill has left a rename that a power loss may take back

files == <<file, dir, disk>>
vars == <<files, damage, tmp, store, call, world, crashes, orphaned>>

Images == [index : Nat, term : Nat, state : {<<>>}, old : {{}}, new : {{}}]

ASSUME StoreAssumption ==
  /\ World \subseteq [powerLoss : BOOLEAN, kill : BOOLEAN, writeErrors : BOOLEAN, damage : BOOLEAN]
  /\ MaxTerm \in Nat /\ MaxIndex \in Nat
  /\ Nil \notin Images

-----------------------------------------------------------------------------
(***************************************************************************)
(* Records.                                                                *)
(***************************************************************************)

HardState(t, v, c) == [kind |-> "hard", term |-> t, vote |-> v, commit |-> c]
LogEntry(k, e) == [kind |-> "entry", index |-> k, entry |-> e]
Fence(kind, k, t) == [kind |-> kind, index |-> k, term |-> t]

Record(n, body) == [seq |-> n, body |-> body]

\* What does not decode: a damaged record, or one that straddles a torn tail.
Bad == [seq |-> 0, body |-> [kind |-> "bad"]]

\* Slip: the sequence number is not compared.
Verified_unnumbered(image, i) == image[i] # Bad

Verified(image, i) == image[i] # Bad /\ image[i].seq = i

\* The longest verified prefix.
Valid(image) == Max({n \in 0 .. Len(image) : \A i \in 1 .. n : Verified(image, i)})

\* Slip: a bad record ends the log.
Recover_prefix(image) == [ok |-> TRUE, records |-> SubSeq(image, 1, Valid(image))]

\* A complete record that is bad or out of sequence is an error.
Recover(image) ==
  [ok |-> Valid(image) = Len(image), records |-> SubSeq(image, 1, Valid(image))]

\* What is read: a damaged medium yields another record in one place.
Image(durable) == IF damage = Nil THEN durable ELSE [durable EXCEPT ![damage.at] = damage.as]

-----------------------------------------------------------------------------
(***************************************************************************)
(* raftwal.Open: one round of the replay.                                  *)
(***************************************************************************)

Empty == [ok |-> TRUE, term |-> 0, vote |-> Nil, commit |-> 0,
          base |-> 0, baseTerm |-> 0, log |-> <<>>]

Regresses(s, t, v, c) ==
  t < s.term \/ c < s.commit \/ (t = s.term /\ s.vote # Nil /\ v # s.vote)

Rejected(s, r) ==
  CASE r.kind = "reset" -> r.index < s.base
    [] r.kind = "compact" -> ~HasIndex(s, r.index)
    [] r.kind = "hard" -> Regresses(s, r.term, r.vote, r.commit)
    [] r.kind = "entry" -> r.index > LastIndex(s) + 1
    [] r.kind = "bad" -> TRUE

\* Slip: a compaction fence is taken for a reset.
Replayed_resets(s, r) ==
  CASE r.kind \in {"reset", "compact"} ->
         [s EXCEPT !.base = r.index, !.baseTerm = r.term, !.log = <<>>]
    [] r.kind = "hard" ->
         [s EXCEPT !.term = r.term, !.vote = r.vote, !.commit = r.commit]
    [] r.kind = "entry" ->
         IF r.index <= s.base THEN s
         ELSE [s EXCEPT !.log = Append(UpTo(s, r.index - 1), r.entry)]

Replayed(s, r) ==
  CASE r.kind = "reset" ->
         [s EXCEPT !.base = r.index, !.baseTerm = r.term, !.log = <<>>]
    [] r.kind = "compact" ->
         [s EXCEPT !.base = r.index, !.baseTerm = TermAt(s, r.index),
                   !.log = After(s, r.index)]
    [] r.kind = "hard" ->
         [s EXCEPT !.term = r.term, !.vote = r.vote, !.commit = r.commit]
    [] r.kind = "entry" ->
         IF r.index <= s.base THEN s
         ELSE [s EXCEPT !.log = Append(UpTo(s, r.index - 1), r.entry)]

ReplayOne(s, r) ==
  CASE ~s.ok -> s
    [] s.ok /\ Rejected(s, r) -> [s EXCEPT !.ok = FALSE]
    [] OTHER -> Replayed(s, r)

Replay(records) ==
  LET upTo[i \in 0 .. Len(records)] ==
        IF i = 0 THEN Empty ELSE ReplayOne(upTo[i - 1], records[i].body)
  IN upTo[Len(records)]

\* The history variable follows the files.  A rename counts when it is sure to
\* survive: at once if only the process may end, otherwise with the directory's sync.
Recalled(s) == [term |-> s.term, vote |-> s.vote, commit |-> s.commit,
                base |-> s.base, baseTerm |-> s.baseTerm, log |-> s.log]

Holds(s, snap) == [term |-> s.term, vote |-> s.vote, commit |-> s.commit,
                   base |-> s.base, baseTerm |-> s.baseTerm, log |-> s.log, snap |-> snap]

FilesBecome(f, d) ==
  /\ file' = f
  /\ dir' = d
  /\ disk' = Holds(Replay(f.durable), (IF world.powerLoss THEN d.synced ELSE d.path).snap)

FileBecomes(f) == FilesBecome(f, dir)
DirBecomes(d) == FilesBecome(file, d)

-----------------------------------------------------------------------------
(***************************************************************************)
(* Memory: what a call leaves behind when its record is durable.           *)
(***************************************************************************)

Remembered(s, r) ==
  CASE r.kind = "hard" -> [s EXCEPT !.term = r.term, !.vote = r.vote, !.commit = r.commit]
    [] r.kind = "entry" -> [s EXCEPT !.log = Append(UpTo(s, r.index - 1), r.entry)]
    [] r.kind = "compact" -> [s EXCEPT !.log = After(s, r.index), !.base = r.index,
                                       !.baseTerm = r.term, !.pending = NoSnapshot]
    [] r.kind = "reset" -> [s EXCEPT !.log = <<>>, !.base = r.index, !.baseTerm = r.term,
                                     !.pending = NoSnapshot]

\* The fence for a snapshot at index k and of term t: the log goes on after it if it
\* has that entry, and otherwise starts anew.
FenceFor(s, k, t) ==
  Fence(IF HasIndex(s, k) /\ TermAt(s, k) = t THEN "compact" ELSE "reset", k, t)

Step(pc) == [call EXCEPT !.pc = pc]
Start(pc, body, snap) == [pc |-> pc, body |-> body, snap |-> snap, valid |-> 0]
Idle == Start("idle", Nil, NoSnapshot)
Closed == Start("closed", Nil, NoSnapshot)

Ready(pc) == call.pc = pc

-----------------------------------------------------------------------------
(***************************************************************************)
(* The calls of a node, and their steps.                                   *)
(***************************************************************************)

\* Bounds.
HardStates == (store.term .. MaxTerm) \X (Server \cup {Nil}) \X (store.commit .. LastIndex(store))
Entries == {Normal(t, Nil) : t \in 1 .. store.term}
Image0(k, t) == [index |-> k, term |-> t, state |-> <<>>, old |-> {}, new |-> {}]
Room == Len(file.durable) + Len(file.pending) < MaxRecords

\* The node saves a snapshot and then compacts, with no other call in between.
Callable == Ready("idle") /\ Room /\ store.pending = NoSnapshot

SaveHardState ==
  /\ Callable
  /\ \E h \in HardStates :
       /\ ~Regresses(store, h[1], h[2], h[3])
       /\ call' = Start("write", HardState(h[1], h[2], h[3]), NoSnapshot)
  /\ UNCHANGED <<files, damage, tmp, store, world, crashes, orphaned>>

StoreAppend ==
  /\ Callable
  /\ \E k \in store.base + 1 .. LastIndex(store) + 1, e \in Entries :
       k <= MaxIndex /\ call' = Start("write", LogEntry(k, e), NoSnapshot)
  /\ UNCHANGED <<files, damage, tmp, store, world, crashes, orphaned>>

\* Its own snapshot, or one of a leader that may lie beyond the log.
SaveSnapshot ==
  /\ Callable
  /\ \E k \in store.base + 1 .. MaxIndex, t \in 1 .. store.term :
       k >= store.last /\ call' = Start("tmp", Nil, Image0(k, t))
  /\ UNCHANGED <<files, damage, tmp, store, world, crashes, orphaned>>

CompactLog ==
  /\ Ready("idle") /\ store.pending # NoSnapshot
  /\ call' = Start("write", FenceFor(store, store.pending.index, store.pending.term), NoSnapshot)
  /\ UNCHANGED <<files, damage, tmp, store, world, crashes, orphaned>>

\* wal.Log.Append.  Behind a partial record nothing decodes.
WriteRecord ==
  /\ Ready("write")
  /\ call' = Step("sync")
  /\ FileBecomes([file EXCEPT !.pending = Append(@, IF file.partial THEN Bad
                                                    ELSE Record(store.nextSeq, call.body))])
  /\ store' = [store EXCEPT !.nextSeq = @ + 1]
  /\ UNCHANGED <<damage, tmp, world, crashes, orphaned>>

Synced(f) == [f EXCEPT !.durable = @ \o f.pending, !.pending = <<>>]

\* wal.Log.Sync, and the call returns.
SyncRecord ==
  /\ Ready("sync")
  /\ call' = Idle
  /\ FileBecomes(Synced(file))
  /\ store' = Remembered(store, call.body)
  /\ UNCHANGED <<damage, tmp, world, crashes, orphaned>>

\* A write fails, perhaps after a part of the record; a sync fails.
WriteFails ==
  /\ world.writeErrors
  /\ call.pc \in {"write", "sync"}
  /\ call' = Step("failed")
  /\ \E cut \in BOOLEAN :
       FileBecomes([file EXCEPT !.partial = @ \/ (call.pc = "write" /\ cut)])
  /\ UNCHANGED <<damage, tmp, store, world, crashes, orphaned>>

\* snapshot.Store.Save: write, sync, rename, sync the directory.
WriteTmp ==
  /\ Ready("tmp")
  /\ call' = Step("tmpsync")
  /\ tmp' = [snap |-> call.snap, safe |-> FALSE]
  /\ UNCHANGED <<files, damage, store, world, crashes, orphaned>>

\* Slip: the temporary file is not synced.
SyncTmp_not ==
  /\ Ready("tmpsync")
  /\ call' = Step("rename")
  /\ UNCHANGED <<files, damage, tmp, store, world, crashes, orphaned>>

SyncTmp ==
  /\ Ready("tmpsync")
  /\ call' = Step("rename")
  /\ tmp' = [tmp EXCEPT !.safe = TRUE]
  /\ UNCHANGED <<files, damage, store, world, crashes, orphaned>>

Rename ==
  /\ Ready("rename")
  /\ call' = Step("dirsync")
  /\ DirBecomes([dir EXCEPT !.path = tmp])
  /\ tmp' = Nil
  /\ UNCHANGED <<damage, store, world, crashes, orphaned>>

\* Slip: SaveSnapshot returns without syncing the directory.
SyncDirectory_not ==
  /\ Ready("dirsync")
  /\ call' = Idle
  /\ store' = [store EXCEPT !.last = call.snap.index, !.pending = call.snap]
  /\ UNCHANGED <<files, damage, tmp, world, crashes, orphaned>>

\* The directory is synced, and SaveSnapshot returns.
SyncDirectory ==
  /\ Ready("dirsync")
  /\ call' = Idle
  /\ DirBecomes([dir EXCEPT !.synced = dir.path])
  /\ store' = [store EXCEPT !.last = call.snap.index, !.pending = call.snap]
  /\ UNCHANGED <<damage, tmp, world, crashes, orphaned>>

\* A step of Save fails; the temporary file is removed.
SaveFails ==
  /\ world.writeErrors
  /\ call.pc \in {"tmp", "tmpsync", "rename", "dirsync"}
  /\ call' = Step("failed")
  /\ tmp' = Nil
  /\ UNCHANGED <<files, damage, store, world, crashes, orphaned>>

-----------------------------------------------------------------------------
(***************************************************************************)
(* raftstore.Open.                                                         *)
(***************************************************************************)

Missing == [snap |-> NoSnapshot, safe |-> TRUE]
Torn == [snap |-> Nil, safe |-> TRUE]

\* snapshot.OpenStore.
OpenSnapshot ==
  /\ Ready("closed")
  /\ call' = IF dir.path = Torn THEN Step("refused") ELSE Start("read", Nil, dir.path.snap)
  /\ UNCHANGED <<files, damage, tmp, store, world, crashes, orphaned>>

LoadedAs(s, n) ==
  [ok |-> s.ok, term |-> s.term, vote |-> s.vote, commit |-> s.commit,
   base |-> s.base, baseTerm |-> s.baseTerm, log |-> s.log,
   nextSeq |-> n, last |-> call.snap.index, pending |-> NoSnapshot]
Loaded(records) == LoadedAs(Replay(records), Len(records) + 1)

\* The first DurableBytes of wal.Open, and Recover.
ReadLog ==
  /\ Ready("read")
  /\ FileBecomes(Synced(file))
  /\ LET read == Recover(Image(Synced(file).durable)) IN
     IF read.ok
       THEN store' = Loaded(read.records) /\ call' = [Step("length") EXCEPT !.valid = Len(read.records)]
       ELSE call' = Step("refused") /\ UNCHANGED store
  /\ UNCHANGED <<damage, tmp, world, crashes, orphaned>>

\* FileDevice.DurableBytes returns nil when its sync or its read fails.
ReadLogFails ==
  /\ Ready("read")
  /\ store' = Loaded(<<>>)
  /\ call' = Step("length")
  /\ UNCHANGED <<files, damage, tmp, world, crashes, orphaned>>

\* Slip: the torn tail is not cut off.
CheckLength_not ==
  /\ Ready("length")
  /\ FileBecomes(Synced(file))
  /\ call' = Step("replay")
  /\ UNCHANGED <<damage, tmp, store, world, crashes, orphaned>>

Truncated(f, n) == [f EXCEPT !.durable = SubSeq(@, 1, n), !.partial = FALSE]

\* The second DurableBytes of wal.Open: what is longer than the valid records is
\* cut off.
CheckLength ==
  /\ Ready("length")
  /\ FileBecomes(Truncated(Synced(file), call.valid))
  /\ call' = Step("replay")
  /\ UNCHANGED <<damage, tmp, store, world, crashes, orphaned>>

\* It fails and reports no bytes: the file is cut unless none were valid.
CheckLengthFails ==
  /\ Ready("length")
  /\ FileBecomes(IF call.valid = 0 THEN file ELSE Truncated(file, call.valid))
  /\ call' = Step("replay")
  /\ UNCHANGED <<damage, tmp, store, world, crashes, orphaned>>

Refuses(s, image) ==
  \/ ~s.ok
  \/ s.base > image.index
  \/ image.index > LastIndex(s)

\* The replay, and the fence that a crash may have cut off.
FinishOpen ==
  /\ Ready("replay")
  /\ call' = CASE Refuses(store, call.snap) -> Step("refused")
               [] ~Refuses(store, call.snap) /\ call.snap.index > store.base ->
                    Start("write", FenceFor(store, call.snap.index, call.snap.term), NoSnapshot)
               [] OTHER -> Idle
  /\ UNCHANGED <<files, damage, tmp, store, world, crashes, orphaned>>

-----------------------------------------------------------------------------
(***************************************************************************)
(* Crashes.                                                                *)
(***************************************************************************)

Down ==
  /\ crashes < MaxCrashes /\ crashes' = crashes + 1
  /\ call' = Closed
  /\ store' = Nil
  /\ tmp' = Nil
  /\ UNCHANGED world

\* The process ends; what it has written stays in the files.  When it ends between
\* the rename and the sync of the directory, no later process makes up for the sync.
Kill ==
  /\ world.kill
  /\ Down
  /\ orphaned' = (orphaned \/ (world.powerLoss /\ dir.path # dir.synced))
  /\ UNCHANGED <<files, damage>>

\* The bytes of a prefix of what is pending reach the medium.
Survivor(k, cut) ==
  [durable |-> file.durable \o SubSeq(file.pending, 1, k), pending |-> <<>>,
   partial |-> cut /\ (k < Len(file.pending) \/ file.partial)]

Survives(image) == IF image.safe THEN {image} ELSE {[image EXCEPT !.safe = TRUE], Torn}

\* A bit flips, or a record was written in the place of another.
Damages(durable) ==
  {[at |-> i, as |-> Bad] : i \in DOMAIN durable} \cup
  UNION {{[at |-> i, as |-> durable[j]] : j \in DOMAIN durable \ {i}} : i \in DOMAIN durable}

PowerLoss ==
  /\ world.powerLoss
  /\ Down
  /\ UNCHANGED orphaned
  /\ \E k \in 0 .. Len(file.pending), cut \in BOOLEAN, image \in {dir.path, dir.synced} :
       \E left \in Survives(image) :
         FilesBecome(Survivor(k, cut), [path |-> left, synced |-> left])
  /\ damage' \in {damage} \cup
       IF world.damage /\ damage = Nil THEN Damages(file'.durable) ELSE {}

Init ==
  /\ world \in World
  /\ file = [durable |-> <<>>, pending |-> <<>>, partial |-> FALSE]
  /\ damage = Nil /\ tmp = Nil /\ store = Nil /\ disk = EmptyDisk
  /\ dir = [path |-> Missing, synced |-> Missing]
  /\ call = Closed
  /\ crashes = 0
  /\ orphaned = FALSE

Next ==
  \/ SaveHardState \/ StoreAppend \/ SaveSnapshot \/ CompactLog
  \/ WriteRecord \/ SyncRecord \/ WriteFails
  \/ WriteTmp \/ SyncTmp \/ Rename \/ SyncDirectory \/ SaveFails
  \/ OpenSnapshot \/ ReadLog \/ CheckLength \/ FinishOpen
  \/ Kill \/ PowerLoss

Spec == Init /\ [][Next]_vars

\* In addition the syncs and reads of wal.Open may fail.
ReadErrorSpec == Init /\ [][Next \/ ReadLogFails \/ CheckLengthFails]_vars

-----------------------------------------------------------------------------
(***************************************************************************)
(* Properties.                                                             *)
(***************************************************************************)

Stable == INSTANCE StableDisk

\* Whenever the process is killed or the power is lost, and whichever write fails,
\* the files hold what the writes of the node made of them, each as a whole or not
\* at all, and what was durable stays (raftwal, wal, snapshot; RaftNode's disk): until
\* a kill leaves an unsynced rename behind.
ImplementsDisk == Stable!Init /\ [][~orphaned => [Stable!Next]_disk]_vars

\* Between two calls the memory of the store is what a crash would leave behind:
\* a call that has returned is durable, and the replay of the records computes the
\* same log as the calls did (raftwal.Open against Append, CompactLog, ResetBase).
\* The snapshot may lag after a kill that left an unsynced rename behind.
MemoryMatchesDisk ==
  Ready("idle") => /\ Recalled(store) = Recalled(disk)
                   /\ ~orphaned => store.last = disk.snap.index

\* Open refuses, on a sound medium, exactly the disks that RaftNode says it refuses,
\* unless a kill left an unsynced rename behind (raftstore.Open, OpenRefuses).
OpenAgrees ==
  /\ Ready("refused") /\ damage = Nil => dir.path # Torn /\ (~orphaned => OpenRefuses(disk))
  /\ Ready("idle") /\ store.pending = NoSnapshot /\ ~orphaned => ~OpenRefuses(disk)

\* The WAL is never fenced beyond the snapshot that a crash would leave: what has been
\* dropped from the log is in it (raftstore.CompactLog and Open after snapshot.Save).
FenceOnDisk == disk.base <= disk.snap.index

\* This holds unless a kill left an unsynced rename behind, which the next Open takes
\* for durable and fences the WAL at (snapshot.OpenStore syncs no directory).
FenceBacked == FenceOnDisk \/ orphaned

\* A damaged record is never taken for a good one: the store does not open ("Corruption
\* of a complete record is fatal", wal.go).
DamageRefused == damage # Nil => call.pc \notin {"idle", "write", "sync", "length", "replay"}

\* The records of a file begin with these.
StartsWith(records, first) ==
  Len(first) <= Len(records) /\ \A k \in 1 .. Len(first) : records[k] = first[k]

\* What Sync has made durable is never removed from the WAL, by an Open either
\* (wal.Open, TruncateDurable).
NothingErased == [][StartsWith(file'.durable, file.durable)]_file

-----------------------------------------------------------------------------
(***************************************************************************)
(* The inductive invariant of the log, in every world.                     *)
(***************************************************************************)

Fences == {"reset", "compact"}

Stored == [term : Nat, kind : {"Normal"}, val : {Nil}, old : {{}}, new : {{}}]
Bodies ==
  [kind : {"hard"}, term : Nat, vote : Server \cup {Nil}, commit : Nat] \cup
  [kind : {"entry"}, index : Nat, entry : Stored] \cup
  [kind : Fences, index : Nat, term : Nat]
Records == [seq : Nat, body : Bodies]
Files == [durable : Seq(Records), pending : Seq(Records), partial : BOOLEAN]
Linked == [snap : Images, safe : {TRUE}]

\* What a replay computes, and the store in memory.
Replays ==
  [ok : BOOLEAN, term : Nat, vote : Server \cup {Nil}, commit : Nat,
   base : Nat, baseTerm : Nat, log : Seq(Stored)]
Stores ==
  [ok : {TRUE}, term : Nat, vote : Server \cup {Nil}, commit : Nat,
   base : Nat, baseTerm : Nat, log : Seq(Stored), nextSeq : Nat, last : Nat, pending : Images]

Saving == {"tmp", "tmpsync", "rename", "dirsync"}
Running == {"idle", "write", "sync"} \cup Saving
Opening == {"length", "replay"}
Calls ==
  [pc : Running \cup Opening \cup {"closed", "read", "refused", "failed"},
   body : Bodies \cup {Nil}, snap : Images, valid : Nat]

TypeOK ==
  /\ world \in World /\ file \in Files /\ dir \in [path : Linked, synced : Linked] /\ call \in Calls
  /\ call.pc \in Running \cup Opening => store \in Stores
  /\ call.pc \in {"write", "sync"} => call.body \in Bodies
  /\ call.pc = "tmpsync" => tmp \in [snap : Images, safe : BOOLEAN]
  /\ call.pc = "rename" => tmp \in Linked

\* What may be appended to a log whose replay is s.
Appendable(s, body) ==
  \/ body.kind = "hard" /\ ~Regresses(s, body.term, body.vote, body.commit)
  \/ body.kind = "entry" /\ s.base < body.index /\ body.index <= LastIndex(s) + 1
  \/ /\ body.kind \in Fences /\ s.base < body.index
     /\ body = FenceFor(s, body.index, body.term)

\* The durable records are numbered and replay, and so does the one that is pending.
LogSound(f) ==
  /\ \A i \in 1 .. Len(f.durable) : f.durable[i].seq = i
  /\ Replay(f.durable) \in Replays /\ Replay(f.durable).ok
  /\ f.pending # <<>> =>
       /\ Len(f.pending) = 1 /\ f.pending[1].seq = Len(f.durable) + 1
       /\ Appendable(Replay(f.durable), f.pending[1].body)

\* A damaged record is not the one that belongs there.
DamageSound ==
  damage # Nil =>
    /\ call.pc \in {"closed", "read", "refused"} /\ file.pending = <<>>
    /\ damage \in [at : 1 .. Len(file.durable), as : Records \cup {Bad}]
    /\ damage.as = Bad \/ damage.as.seq # damage.at

\* The memory is what the records say, and a fence lies beyond the one before.
MemorySound ==
  call.pc \in Running \cup Opening =>
    /\ Recalled(store) = Recalled(Replay(file.durable))
    /\ store.nextSeq = Len(file.durable) + Len(file.pending) + 1
    /\ store.pending = NoSnapshot \/ store.base < store.pending.index
    /\ call.pc \in Saving => store.base < call.snap.index

\* What is on its way to the file is what the call under way writes.
CallSound ==
  /\ call.pc \in {"write", "sync"} => Appendable(Replay(file.durable), call.body)
  /\ call.pc = "sync" => file.pending = <<Record(Len(file.durable) + 1, call.body)>>
  /\ call.pc \in (Running \ {"sync"}) \cup Opening \cup {"refused"} => file.pending = <<>>
  /\ call.pc \in Running \cup {"replay"} => ~file.partial
  /\ call.pc \in Opening => call.valid = Len(file.durable)

LogInv == TypeOK /\ LogSound(file) /\ DamageSound /\ MemorySound /\ CallSound

-----------------------------------------------------------------------------
(***************************************************************************)
(* The inductive invariant of log and snapshot.  Once a kill has left a    *)
(* rename whose directory was never synced, the snapshot may be lost       *)
(* although the WAL is fenced at it, and only the log keeps its invariant. *)
(***************************************************************************)

\* The snapshot that a crash is sure to leave.
Kept == (IF world.powerLoss THEN dir.synced ELSE dir.path).snap

\* A fence is at that snapshot.
AtKept(body) == body.kind \in Fences => body.index = Kept.index /\ body.term = Kept.term

\* What the history variable follows.
DiskSound == disk = Holds(Replay(file.durable), Kept)

FilesSound ==
  /\ DiskSound
  /\ disk.base <= Kept.index /\ Kept.index <= dir.path.snap.index
  /\ file.pending # <<>> => AtKept(file.pending[1].body)

\* What is fenced, and what is still to be.
FencesSound ==
  /\ call.pc \in (Running \ {"dirsync"}) \cup Opening => store.last = dir.path.snap.index
  /\ call.pc = "idle" => \/ store.pending = NoSnapshot /\ store.base = store.last
                         \/ store.pending = dir.path.snap
  /\ call.pc \in {"write", "sync"} => AtKept(call.body)
  /\ call.pc \in Saving \/ (call.pc \in {"write", "sync"} /\ call.body.kind \notin Fences) =>
       store.pending = NoSnapshot /\ store.base = store.last
  /\ call.pc \in Opening => store.pending = NoSnapshot

\* Which snapshot the call under way saves or has read.
SnapshotSound ==
  /\ call.pc \in {"tmpsync", "rename"} => tmp.snap = call.snap
  /\ call.pc \in {"dirsync", "read"} \cup Opening => dir.path.snap = call.snap
  /\ call.pc = "refused" /\ damage = Nil => OpenRefuses(disk)

\* Between a rename and the sync of the directory nothing else is under way.
LinkSound ==
  world.powerLoss /\ dir.path # dir.synced =>
    call.pc \in {"dirsync", "failed"} /\ file.pending = <<>>

SnapshotInv == LogInv /\ FilesSound /\ FencesSound /\ SnapshotSound /\ LinkSound

StoreInv == LogInv /\ DiskSound /\ (~orphaned => SnapshotInv)

=============================================================================
