-------------------------- MODULE RaftStoreProofs --------------------------
(***************************************************************************)
(* What TLAPS proves of the store, in every world: what is durable stays,  *)
(* and a damaged record is not taken for a good one.  Memory, fence and    *)
(* Open agree with the files, and the store is the disk of RaftNode, until *)
(* a kill leaves an unsynced rename behind.                                *)
(***************************************************************************)
EXTENDS RaftStore, WellFoundedInduction, SequenceTheorems, TLAPS

-----------------------------------------------------------------------------
(***************************************************************************)
(* Replay.                                                                 *)
(***************************************************************************)

\* Induction over the naturals, for a set: no least number can be missing from it.
LEMMA SetInduction ==
  ASSUME NEW T \in SUBSET Nat, 0 \in T, \A n \in T : n + 1 \in T
  PROVE  \A n \in Nat : n \in T
<1> SUFFICES ASSUME NEW z \in Nat, z \notin T PROVE FALSE
  BY Zenon
<1> DEFINE R == OpToRel(<, Nat)
           U == Nat \ T
<1>1. IsWellFoundedOn(R, Nat)
  BY Zenon, NatLessThanWellFounded
<1> HIDE DEF R
<1>2. PICK x \in U : \A y \in U : ~(<<y, x>> \in R)
  BY Zenon, <1>1, WFMin, U \subseteq Nat, U # {}
<1>3. x # 0 /\ x \in Nat
  BY Zenon
<1>4. x - 1 \in Nat /\ x - 1 + 1 = x
  BY <1>3
<1>5. x - 1 \in U
  BY Zenon, <1>4
<1>6. <<x - 1, x>> \in R
  BY <1>3, <1>4 DEF R, OpToRel
<1> QED BY Zenon, <1>2, <1>5, <1>6

\* The rounds of the replay loop in raftwal.Open: f[i] is the state after i records.
IsRun(f, records) ==
  f = [i \in 0 .. Len(records) |->
         IF i = 0 THEN Empty ELSE ReplayOne(f[i - 1], records[i].body)]

LEMMA ReplayIsRun ==
  ASSUME NEW records \in Seq(Records)
  PROVE  Replay(records) = (CHOOSE f : IsRun(f, records))[Len(records)]
BY Zenon DEF Replay, IsRun

\* The loop runs.
LEMMA RunExists ==
  ASSUME NEW records \in Seq(Records)
  PROVE  \E f : IsRun(f, records)
<1> DEFINE T == {n \in Nat : \A s \in Seq(Records) : Len(s) = n => \E f : IsRun(f, s)}
<1>1. 0 \in T
  <2> SUFFICES ASSUME NEW s \in Seq(Records), Len(s) = 0 PROVE \E f : IsRun(f, s)
    BY Zenon
  <2>1. IsRun([i \in 0 .. 0 |-> Empty], s)
    BY DEF IsRun
  <2> QED BY Zenon, <2>1
<1>2. ASSUME NEW n \in T PROVE n + 1 \in T
  <2> SUFFICES ASSUME NEW s \in Seq(Records), Len(s) = n + 1 PROVE \E f : IsRun(f, s)
    OBVIOUS
  <2> DEFINE t == SubSeq(s, 1, n)
  <2>1. n \in Nat /\ t \in Seq(Records) /\ Len(t) = n /\ \A i \in 1 .. n : t[i] = s[i]
    OBVIOUS
  <2> HIDE DEF t
  <2>2. PICK f : IsRun(f, t)
    BY Zenon, <2>1
  <2> DEFINE g == [i \in 0 .. n + 1 |-> IF i = n + 1 THEN ReplayOne(f[n], s[n + 1].body) ELSE f[i]]
  <2>3. ASSUME NEW i \in 0 .. n + 1
        PROVE  g[i] = IF i = 0 THEN Empty ELSE ReplayOne(g[i - 1], s[i].body)
    <3>1. CASE i = n + 1
      <4>1. g[i] = ReplayOne(f[n], s[n + 1].body) /\ g[n] = f[n]
        BY <2>1, <3>1
      <4> QED BY <2>1, <3>1, <4>1
    <3>2. CASE i = 0
      <4>1. f[0] = Empty
        BY <2>1, <2>2 DEF IsRun
      <4> QED BY <2>1, <3>2, <4>1
    <3>3. CASE i \in 1 .. n
      <4>1. f[i] = ReplayOne(f[i - 1], t[i].body)
        BY <2>1, <2>2, <3>3 DEF IsRun
      <4>2. g[i] = f[i] /\ g[i - 1] = f[i - 1] /\ t[i] = s[i] /\ i # 0
        BY <2>1, <3>3
      <4> QED BY Zenon, <4>1, <4>2
    <3> QED BY <2>1, <3>1, <3>2, <3>3
  <2> HIDE DEF g
  <2>4. g = [i \in 0 .. Len(s) |-> IF i = 0 THEN Empty ELSE ReplayOne(g[i - 1], s[i].body)]
    <3>1. g = [i \in 0 .. n + 1 |-> g[i]]
      BY Zenon DEF g
    <3> QED BY Zenon, <2>3, <3>1
  <2> QED BY Zenon, <2>4 DEF IsRun
<1>3. \A n \in Nat : n \in T
  <2> HIDE DEF T
  <2>1. T \in SUBSET Nat
    BY Zenon DEF T
  <2> QED BY Zenon, <1>1, <1>2, <2>1, SetInduction
<1>4. Len(records) \in T
  BY <1>3
<1> QED BY Zenon, <1>4

\* Two runs that read the same first records agree after them.
LEMMA RunsAgree ==
  ASSUME NEW s \in Seq(Records), NEW t \in Seq(Records), NEW f, NEW g,
         IsRun(f, s), IsRun(g, t), Len(s) <= Len(t),
         \A i \in 1 .. Len(s) : s[i] = t[i]
  PROVE  \A i \in 0 .. Len(s) : f[i] = g[i]
<1> DEFINE T == {i \in Nat : i <= Len(s) => f[i] = g[i]}
<1>1. 0 \in T
  BY DEF IsRun
<1>2. ASSUME NEW i \in T PROVE i + 1 \in T
  <2> SUFFICES ASSUME i + 1 <= Len(s) PROVE f[i + 1] = g[i + 1]
    OBVIOUS
  <2>1. f[i] = g[i] /\ i \in Nat
    OBVIOUS
  <2>2. f[i + 1] = ReplayOne(f[i], s[i + 1].body)
    BY <2>1 DEF IsRun
  <2>3. g[i + 1] = ReplayOne(g[i], t[i + 1].body)
    BY <2>1 DEF IsRun
  <2>4. s[i + 1] = t[i + 1]
    BY <2>1
  <2> QED BY Zenon, <2>1, <2>2, <2>3, <2>4
<1>3. \A i \in Nat : i \in T
  <2> HIDE DEF T
  <2>1. T \in SUBSET Nat
    BY Zenon DEF T
  <2> QED BY Zenon, <1>1, <1>2, <2>1, SetInduction
<1> QED BY <1>3

\* raftwal.Open of an empty log.
LEMMA ReplayEmpty == Replay(<<>>) = Empty
<1>1. <<>> \in Seq(Records) /\ Len(<<>>) = 0
  OBVIOUS
<1>2. PICK f : f = CHOOSE g : IsRun(g, <<>>)
  BY Zenon
<1>3. IsRun(f, <<>>)
  BY Zenon, <1>1, <1>2, RunExists
<1>4. f[0] = Empty
  BY <1>1, <1>3 DEF IsRun
<1> QED BY Zenon, <1>1, <1>2, <1>4, ReplayIsRun

\* raftwal.Open of one record more is one round more.
LEMMA ReplayAppend ==
  ASSUME NEW records \in Seq(Records), NEW r \in Records
  PROVE  Replay(Append(records, r)) = ReplayOne(Replay(records), r.body)
<1> DEFINE longer == Append(records, r)
           n == Len(records)
<1>1. /\ n \in Nat /\ longer \in Seq(Records) /\ Len(longer) = n + 1
      /\ longer[n + 1] = r /\ \A i \in 1 .. n : records[i] = longer[i]
  OBVIOUS
<1> HIDE DEF longer
<1>2. PICK f : f = CHOOSE g : IsRun(g, records)
  BY Zenon
<1>3. PICK h : h = CHOOSE g : IsRun(g, longer)
  BY Zenon
<1>4. IsRun(f, records) /\ IsRun(h, longer)
  BY Zenon, <1>1, <1>2, <1>3, RunExists
<1>5. f[n] = h[n]
  BY <1>1, <1>4, RunsAgree
<1>6. h[n + 1] = ReplayOne(h[n], longer[n + 1].body)
  BY <1>1, <1>4 DEF IsRun
<1>7. Replay(records) = f[n] /\ Replay(longer) = h[n + 1]
  BY Zenon, <1>1, <1>2, <1>3, ReplayIsRun
<1> QED BY Zenon, <1>1, <1>5, <1>6, <1>7 DEF longer

-----------------------------------------------------------------------------
(***************************************************************************)
(* One record more.                                                        *)
(***************************************************************************)

HardBodies == [kind : {"hard"}, term : Nat, vote : Server \cup {Nil}, commit : Nat]
EntryBodies == [kind : {"entry"}, index : Nat, entry : Stored]
FenceBodies == [kind : Fences, index : Nat, term : Nat]

\* The kind of a record says which fields it has.
LEMMA BodyKinds ==
  ASSUME NEW body \in Bodies
  PROVE  /\ body.kind = "hard" => body \in HardBodies
         /\ body.kind = "entry" => body \in EntryBodies
         /\ body.kind \in Fences => body \in FenceBodies
         /\ body.kind \in {"hard", "entry", "reset", "compact"}
<1>1. body \in HardBodies \/ body \in EntryBodies \/ body \in FenceBodies
  BY Zenon DEF Bodies, HardBodies, EntryBodies, FenceBodies
<1>2. CASE body \in HardBodies
  BY Zenon, <1>2 DEF HardBodies, Fences
<1>3. CASE body \in EntryBodies
  BY Zenon, <1>3 DEF EntryBodies, Fences
<1>4. CASE body \in FenceBodies
  BY Zenon, <1>4 DEF FenceBodies, Fences
<1> QED BY Zenon, <1>1, <1>2, <1>3, <1>4

\* The log and the fields after one record more.
GrownLog(s, body) ==
  IF body.kind = "entry" THEN Append(UpTo(s, body.index - 1), body.entry)
  ELSE IF body.kind = "compact" THEN After(s, body.index)
  ELSE IF body.kind = "reset" THEN <<>>
  ELSE s.log

Grown(s, body) ==
  [ok |-> TRUE,
   term |-> IF body.kind = "hard" THEN body.term ELSE s.term,
   vote |-> IF body.kind = "hard" THEN body.vote ELSE s.vote,
   commit |-> IF body.kind = "hard" THEN body.commit ELSE s.commit,
   base |-> IF body.kind \in Fences THEN body.index ELSE s.base,
   baseTerm |-> IF body.kind \in Fences THEN body.term ELSE s.baseTerm,
   log |-> GrownLog(s, body)]

\* The first and the last part of a sequence.
LEMMA Parts ==
  ASSUME NEW S, NEW q \in Seq(S), NEW a \in Nat
  PROVE  /\ a <= Len(q) => SubSeq(q, 1, a) \in Seq(S) /\ Len(SubSeq(q, 1, a)) = a
         /\ a <= Len(q) => SubSeq(q, a + 1, Len(q)) \in Seq(S)
OBVIOUS

LEMMA GrownLogType ==
  ASSUME NEW s, s.base \in Nat, s.log \in Seq(Stored),
         NEW body \in Bodies, Appendable(s, body)
  PROVE  GrownLog(s, body) \in Seq(Stored)
<1>1. PICK base \in Nat, q \in Seq(Stored) : base = s.base /\ q = s.log
  BY Zenon
<1>2. CASE body.kind = "entry"
  <2>1. body \in EntryBodies /\ base < body.index /\ body.index <= base + Len(q) + 1
    BY Zenon, <1>1, <1>2, BodyKinds DEF Appendable, LastIndex, Fences
  <2>2. PICK k \in Nat : k = body.index - 1 - base
    BY <2>1 DEF EntryBodies
  <2>3. k <= Len(q)
    BY <2>1, <2>2 DEF EntryBodies
  <2>4. SubSeq(q, 1, k) \in Seq(Stored)
    BY Zenon, <2>3, Parts
  <2>5. UpTo(s, body.index - 1) = SubSeq(q, 1, k)
    BY Zenon, <1>1, <2>2 DEF UpTo
  <2>6. body.entry \in Stored
    BY Zenon, <2>1 DEF EntryBodies
  <2> QED BY <1>2, <2>4, <2>5, <2>6 DEF GrownLog
<1>3. CASE body.kind = "compact"
  <2>1. body \in FenceBodies /\ base < body.index /\ HasIndex(s, body.index)
    BY <1>1, <1>3, BodyKinds DEF Appendable, FenceFor, Fence, Fences
  <2>2. PICK k \in Nat : k = body.index - base
    BY <2>1 DEF FenceBodies
  <2>3. k <= Len(q)
    BY <1>1, <2>1, <2>2 DEF FenceBodies, HasIndex, LastIndex
  <2>4. SubSeq(q, k + 1, Len(q)) \in Seq(Stored)
    BY Zenon, <2>3, Parts
  <2>5. After(s, body.index) = SubSeq(q, k + 1, Len(q))
    BY Zenon, <1>1, <2>2 DEF After
  <2> QED BY Zenon, <1>3, <2>4, <2>5 DEF GrownLog
<1>4. CASE body.kind \in {"reset", "hard"}
  BY <1>4 DEF GrownLog
<1> QED BY Zenon, <1>2, <1>3, <1>4, BodyKinds

LEMMA ReplayTyped ==
  ASSUME NEW s \in Replays
  PROVE  s = [ok |-> s.ok, term |-> s.term, vote |-> s.vote, commit |-> s.commit,
              base |-> s.base, baseTerm |-> s.baseTerm, log |-> s.log]
BY Zenon DEF Replays

LEMMA GrownType ==
  ASSUME NEW s \in Replays, NEW body \in Bodies, Appendable(s, body)
  PROVE  Grown(s, body) \in Replays
<1>1. /\ s.term \in Nat /\ s.vote \in Server \cup {Nil} /\ s.commit \in Nat
      /\ s.base \in Nat /\ s.baseTerm \in Nat /\ s.log \in Seq(Stored)
  BY Zenon DEF Replays
<1>2. GrownLog(s, body) \in Seq(Stored)
  BY Zenon, <1>1, GrownLogType
<1>3. body.kind = "hard" => body.term \in Nat /\ body.vote \in Server \cup {Nil} /\ body.commit \in Nat
  BY Zenon, BodyKinds DEF HardBodies
<1>4. body.kind \in Fences => body.index \in Nat /\ body.term \in Nat
  BY Zenon, BodyKinds DEF FenceBodies
<1> QED BY Zenon, <1>1, <1>2, <1>3, <1>4 DEF Grown, Replays

\* A record that may be appended is not rejected by the replay, which makes of it what
\* the call made of it (raftwal.Open against SaveHardState, Append, CompactLog and
\* ResetBase).
LEMMA ReplayGrows ==
  ASSUME NEW s \in Replays, s.ok, NEW body \in Bodies, Appendable(s, body)
  PROVE  ReplayOne(s, body) = Grown(s, body)
<1> DEFINE t == [ok |-> TRUE, term |-> s.term, vote |-> s.vote, commit |-> s.commit,
                 base |-> s.base, baseTerm |-> s.baseTerm, log |-> s.log]
<1>1. s = t /\ s.ok = TRUE
  BY Zenon, ReplayTyped DEF Replays
<1>2. s.base \in Nat /\ s.log \in Seq(Stored)
  BY Zenon DEF Replays
<1>3. CASE body.kind = "hard"
  <2>1. ~Rejected(s, body)
    BY Zenon, <1>3 DEF Rejected, Appendable, Fences
  <2>2. ReplayOne(s, body) = [s EXCEPT !.term = body.term, !.vote = body.vote, !.commit = body.commit]
    BY Zenon, <1>3, <2>1 DEF ReplayOne, Replayed
  <2> QED BY <1>1, <1>3, <2>2, Zenon DEF Grown, GrownLog, Fences
<1>4. CASE body.kind = "entry"
  <2>1. body \in EntryBodies /\ s.base < body.index /\ body.index <= LastIndex(s) + 1
    BY Zenon, <1>4, BodyKinds DEF Appendable, Fences
  <2>2. ~Rejected(s, body) /\ ~(body.index <= s.base)
    BY <1>2, <1>4, <2>1 DEF Rejected, LastIndex, EntryBodies
  <2>3. ReplayOne(s, body) = [s EXCEPT !.log = Append(UpTo(s, body.index - 1), body.entry)]
    BY Zenon, <1>4, <2>2 DEF ReplayOne, Replayed
  <2> QED BY <1>1, <1>4, <2>3, Zenon DEF Grown, GrownLog, Fences
<1>5. CASE body.kind = "compact"
  <2>1. HasIndex(s, body.index) /\ TermAt(s, body.index) = body.term
    BY <1>5, BodyKinds DEF Appendable, FenceFor, Fence, Fences
  <2>2. ~Rejected(s, body)
    BY Zenon, <1>5, <2>1 DEF Rejected
  <2>3. ReplayOne(s, body) = [s EXCEPT !.base = body.index, !.baseTerm = body.term,
                                       !.log = After(s, body.index)]
    BY Zenon, <1>5, <2>1, <2>2 DEF ReplayOne, Replayed
  <2> QED BY <1>1, <1>5, <2>3, Zenon DEF Grown, GrownLog, Fences
<1>6. CASE body.kind = "reset"
  <2>1. s.base < body.index /\ body.index \in Nat
    BY Zenon, <1>6, BodyKinds DEF Appendable, Fences, FenceBodies
  <2>2. ~Rejected(s, body)
    BY <1>2, <1>6, <2>1 DEF Rejected
  <2>3. ReplayOne(s, body) = [s EXCEPT !.base = body.index, !.baseTerm = body.term, !.log = <<>>]
    BY Zenon, <1>6, <2>2 DEF ReplayOne, Replayed
  <2> QED BY <1>1, <1>6, <2>3, Zenon DEF Grown, GrownLog, Fences
<1> QED BY Zenon, <1>3, <1>4, <1>5, <1>6, BodyKinds

StoreTyped(s) ==
  [ok |-> TRUE, term |-> s.term, vote |-> s.vote, commit |-> s.commit,
   base |-> s.base, baseTerm |-> s.baseTerm, log |-> s.log,
   nextSeq |-> s.nextSeq, last |-> s.last, pending |-> s.pending]

\* What Remembered leaves in memory.
RememberedAs(s, body) ==
  [ok |-> TRUE,
   term |-> IF body.kind = "hard" THEN body.term ELSE s.term,
   vote |-> IF body.kind = "hard" THEN body.vote ELSE s.vote,
   commit |-> IF body.kind = "hard" THEN body.commit ELSE s.commit,
   base |-> IF body.kind \in Fences THEN body.index ELSE s.base,
   baseTerm |-> IF body.kind \in Fences THEN body.term ELSE s.baseTerm,
   log |-> GrownLog(s, body),
   nextSeq |-> s.nextSeq, last |-> s.last,
   pending |-> IF body.kind \in Fences THEN NoSnapshot ELSE s.pending]

LEMMA RememberedFields ==
  ASSUME NEW s \in Stores, NEW body \in Bodies
  PROVE  Remembered(s, body) = RememberedAs(s, body)
<1>1. s = StoreTyped(s)
  BY Zenon DEF Stores, StoreTyped
<1> DEFINE t == StoreTyped(s)
<1>2. CASE body.kind = "hard"
  <2>1. Remembered(s, body) = [t EXCEPT !.term = body.term, !.vote = body.vote, !.commit = body.commit]
    BY Zenon, <1>1, <1>2 DEF Remembered
  <2> QED BY <1>2, <2>1, Zenon DEF RememberedAs, GrownLog, Fences, StoreTyped
<1>3. CASE body.kind = "entry"
  <2>1. Remembered(s, body) = [t EXCEPT !.log = Append(UpTo(s, body.index - 1), body.entry)]
    BY Zenon, <1>1, <1>3 DEF Remembered
  <2> QED BY <1>3, <2>1, Zenon DEF RememberedAs, GrownLog, Fences, StoreTyped
<1>4. CASE body.kind = "compact"
  <2>1. Remembered(s, body) = [t EXCEPT !.log = After(s, body.index), !.base = body.index,
                                        !.baseTerm = body.term, !.pending = NoSnapshot]
    BY Zenon, <1>1, <1>4 DEF Remembered
  <2> QED BY <1>4, <2>1, Zenon DEF RememberedAs, GrownLog, Fences, StoreTyped
<1>5. CASE body.kind = "reset"
  <2>1. Remembered(s, body) = [t EXCEPT !.log = <<>>, !.base = body.index,
                                        !.baseTerm = body.term, !.pending = NoSnapshot]
    BY Zenon, <1>1, <1>5 DEF Remembered
  <2> QED BY <1>5, <2>1, Zenon DEF RememberedAs, GrownLog, Fences, StoreTyped
<1> QED BY Zenon, <1>2, <1>3, <1>4, <1>5, BodyKinds

LEMMA NoSnapshotType == NoSnapshot \in Images /\ NoSnapshot.index = 0 /\ NoSnapshot.term = 0
BY Zenon DEF NoSnapshot, Images

\* States with the same Recalled agree on what may be appended, and on what it leaves.
LEMMA SameRecalled ==
  ASSUME NEW s, NEW q, Recalled(s) = Recalled(q)
  PROVE  /\ s.term = q.term /\ s.vote = q.vote /\ s.commit = q.commit
         /\ s.base = q.base /\ s.baseTerm = q.baseTerm /\ s.log = q.log
         /\ LastIndex(s) = LastIndex(q)
         /\ \A body : GrownLog(s, body) = GrownLog(q, body)
         /\ \A k, t : FenceFor(s, k, t) = FenceFor(q, k, t)
<1>1. /\ Recalled(s).term = Recalled(q).term /\ Recalled(s).vote = Recalled(q).vote
      /\ Recalled(s).commit = Recalled(q).commit /\ Recalled(s).base = Recalled(q).base
      /\ Recalled(s).baseTerm = Recalled(q).baseTerm /\ Recalled(s).log = Recalled(q).log
  BY Zenon
<1>2. /\ s.term = q.term /\ s.vote = q.vote /\ s.commit = q.commit
      /\ s.base = q.base /\ s.baseTerm = q.baseTerm /\ s.log = q.log
  BY Zenon, <1>1 DEF Recalled
<1>3. LastIndex(s) = LastIndex(q)
  BY Zenon, <1>2 DEF LastIndex
<1>4. \A body : GrownLog(s, body) = GrownLog(q, body)
  BY <1>2, Zenon DEF GrownLog, UpTo, After
<1>5. \A k, t : FenceFor(s, k, t) = FenceFor(q, k, t)
  BY <1>2, <1>3, Zenon DEF FenceFor, HasIndex, TermAt, EntryAt
<1> QED BY Zenon, <1>2, <1>3, <1>4, <1>5

\* When the record of a call is durable, the memory is again what a replay computes.
LEMMA RememberedGrows ==
  ASSUME NEW s \in Stores, NEW q \in Replays, Recalled(s) = Recalled(q),
         NEW body \in Bodies, Appendable(q, body)
  PROVE  /\ Remembered(s, body) \in Stores
         /\ Recalled(Remembered(s, body)) = Recalled(Grown(q, body))
<1>1. Remembered(s, body) = RememberedAs(s, body)
  BY Zenon, RememberedFields
<1>2. /\ s.term = q.term /\ s.vote = q.vote /\ s.commit = q.commit
      /\ s.base = q.base /\ s.baseTerm = q.baseTerm
      /\ GrownLog(s, body) = GrownLog(q, body)
  BY Zenon, SameRecalled
<1>3. Recalled(RememberedAs(s, body)) = Recalled(Grown(q, body))
  BY <1>2, Zenon DEF Recalled, RememberedAs, Grown
<1>4. Grown(q, body) \in Replays
  BY Zenon, GrownType
<1>5. /\ RememberedAs(s, body).term \in Nat /\ RememberedAs(s, body).vote \in Server \cup {Nil}
      /\ RememberedAs(s, body).commit \in Nat /\ RememberedAs(s, body).base \in Nat
      /\ RememberedAs(s, body).baseTerm \in Nat /\ RememberedAs(s, body).log \in Seq(Stored)
  BY <1>2, <1>4, Zenon DEF Replays, RememberedAs, Grown
<1>6. s.nextSeq \in Nat /\ s.last \in Nat /\ s.pending \in Images
  BY Zenon DEF Stores
<1>7. RememberedAs(s, body).pending \in Images
  BY <1>6, NoSnapshotType, Zenon DEF RememberedAs
<1>8. RememberedAs(s, body) \in Stores
  BY <1>5, <1>6, <1>7, Zenon DEF RememberedAs, Stores
<1> QED BY Zenon, <1>1, <1>3, <1>8

-----------------------------------------------------------------------------
(***************************************************************************)
(* The file.                                                               *)
(***************************************************************************)

LEMMA OneMore ==
  ASSUME NEW S, NEW d \in Seq(S), NEW p \in Seq(S), Len(p) = 1
  PROVE  /\ d \o p \in Seq(S) /\ Len(d \o p) = Len(d) + 1
         /\ (d \o p)[Len(d) + 1] = p[1]
         /\ \A i \in 1 .. Len(d) : (d \o p)[i] = d[i]
         /\ d \o p = Append(d, p[1]) /\ p[1] \in S
<1>1. p[1] \in S
  <2>1. 1 \in 1 .. Len(p)
    OBVIOUS
  <2> QED BY Zenon, <2>1, ElementOfSeq
<1>2. /\ d \o p \in Seq(S) /\ Len(d \o p) = Len(d) + 1
      /\ (d \o p)[Len(d) + 1] = p[1]
      /\ \A i \in 1 .. Len(d) : (d \o p)[i] = d[i]
  <2>1. /\ d \o p \in Seq(S) /\ Len(d \o p) = Len(d) + Len(p)
        /\ \A i \in 1 .. Len(d) + Len(p) : (d \o p)[i] = IF i <= Len(d) THEN d[i] ELSE p[i - Len(d)]
    BY Zenon, ConcatProperties
  <2>2. Len(d) \in Nat /\ ~(Len(d) + 1 <= Len(d)) /\ Len(d) + 1 - Len(d) = 1
    OBVIOUS
  <2> QED BY <2>1, <2>2
<1>3. Append(d, p[1]) \in Seq(S) /\ Len(Append(d, p[1])) = Len(d) + 1
  BY <1>1
<1>4. \A i \in 1 .. Len(d) + 1 : Append(d, p[1])[i] = (d \o p)[i]
  BY <1>1, <1>2
<1>5. d \o p = Append(d, p[1])
  BY Zenon, <1>2, <1>3, <1>4, SeqEqual
<1> QED BY Zenon, <1>1, <1>2, <1>5

\* A file whose pending record has become durable, or has not.
LEMMA LogGrows ==
  ASSUME NEW f \in Files, LogSound(f), f.pending # <<>>
  PROVE  /\ f.durable \o f.pending = Append(f.durable, f.pending[1])
         /\ f.durable \o f.pending \in Seq(Records)
         /\ Len(f.durable \o f.pending) = Len(f.durable) + 1
         /\ \A i \in 1 .. Len(f.durable \o f.pending) : (f.durable \o f.pending)[i].seq = i
         /\ Replay(f.durable \o f.pending) = Grown(Replay(f.durable), f.pending[1].body)
         /\ Grown(Replay(f.durable), f.pending[1].body) \in Replays
         /\ \A i \in 1 .. Len(f.durable) : (f.durable \o f.pending)[i] = f.durable[i]
<1>1. PICK d \in Seq(Records), p \in Seq(Records) : d = f.durable /\ p = f.pending
  BY Zenon DEF Files
<1>2. /\ Len(p) = 1 /\ p[1].seq = Len(d) + 1 /\ Appendable(Replay(d), p[1].body)
      /\ \A i \in 1 .. Len(d) : d[i].seq = i
      /\ Replay(d) \in Replays /\ Replay(d).ok
  BY Zenon, <1>1 DEF LogSound
<1>4. /\ d \o p \in Seq(Records) /\ Len(d \o p) = Len(d) + 1
      /\ (d \o p)[Len(d) + 1] = p[1]
      /\ \A i \in 1 .. Len(d) : (d \o p)[i] = d[i]
      /\ d \o p = Append(d, p[1]) /\ p[1] \in Records
  BY Zenon, <1>2, OneMore
<1>3. p[1].body \in Bodies
  BY Zenon, <1>4 DEF Records
<1>5. \A i \in 1 .. Len(d \o p) : (d \o p)[i].seq = i
  BY <1>2, <1>4
<1>6. Replay(d \o p) = ReplayOne(Replay(d), p[1].body)
  BY Zenon, <1>3, <1>4, ReplayAppend
<1>7. Replay(d \o p) = Grown(Replay(d), p[1].body) /\ Grown(Replay(d), p[1].body) \in Replays
  BY Zenon, <1>2, <1>3, <1>6, ReplayGrows, GrownType
<1> QED BY Zenon, <1>1, <1>4, <1>5, <1>7

-----------------------------------------------------------------------------
(***************************************************************************)
(* Calls that leave the files alone.                                       *)
(***************************************************************************)

Pcs == Running \cup Opening \cup {"closed", "read", "refused", "failed"}

LEMMA StepOf ==
  ASSUME call \in Calls, NEW pc \in Pcs
  PROVE  /\ Step(pc) \in Calls /\ Step(pc).pc = pc /\ Step(pc).body = call.body
         /\ Step(pc).snap = call.snap /\ Step(pc).valid = call.valid
<1>1. PICK p \in Pcs, b \in Bodies \cup {Nil}, s \in Images, v \in Nat :
        call = [pc |-> p, body |-> b, snap |-> s, valid |-> v]
  BY Zenon DEF Calls, Pcs
<1>2. Step(pc) = [pc |-> pc, body |-> b, snap |-> s, valid |-> v]
  BY <1>1 DEF Step
<1> QED BY <1>1, <1>2 DEF Calls, Pcs

LEMMA StartOf ==
  ASSUME NEW pc \in Pcs, NEW body \in Bodies \cup {Nil}, NEW snap \in Images
  PROVE  /\ Start(pc, body, snap) \in Calls /\ Start(pc, body, snap).pc = pc
         /\ Start(pc, body, snap).body = body /\ Start(pc, body, snap).snap = snap
BY Zenon DEF Start, Calls, Pcs

\* What a call may do to keep the invariant, when the file stays as it is.
QuietCall ==
  /\ UNCHANGED <<file, damage, world>> /\ dir' \in [path : Linked, synced : Linked] /\ call' \in Calls
  /\ damage = Nil \/ call'.pc \in {"closed", "read", "refused"}
  /\ call'.pc \in Running \cup Opening => call.pc \in Running \cup Opening /\ store' = store
  /\ call'.pc = "tmpsync" => tmp' \in [snap : Images, safe : BOOLEAN]
  /\ call'.pc = "rename" => tmp' \in Linked
  /\ call'.pc = "write" => call'.body \in Bodies /\ Appendable(Replay(file.durable), call'.body)
  /\ call'.pc # "sync"
  /\ call'.pc \in Saving => store.base < call'.snap.index
  /\ call'.pc \in Running \cup Opening \cup {"refused"} => file.pending = <<>>
  /\ call'.pc \in Running \cup {"replay"} => ~file.partial
  /\ call'.pc \in Opening => call'.valid = Len(file.durable)

LEMMA QuietLog ==
  ASSUME LogInv, QuietCall
  PROVE  LogInv'
<1> USE DEF QuietCall, LogInv
<1>1. TypeOK'
  BY Zenon DEF TypeOK, Running, Opening, Saving
<1>2. LogSound(file)'
  BY Zenon DEF LogSound
<1>3. DamageSound'
  BY Zenon DEF DamageSound
<1>4. MemorySound'
  BY Zenon DEF MemorySound
<1>5. CallSound'
  BY Zenon DEF CallSound, Running
<1> QED BY Zenon, <1>1, <1>2, <1>3, <1>4, <1>5

\* A store that is open: what the invariant says of it.
LEMMA OpenFacts ==
  ASSUME LogInv, call.pc \in Running \cup Opening
  PROVE  /\ store \in Stores /\ damage = Nil /\ file \in Files /\ call \in Calls
         /\ dir \in [path : Linked, synced : Linked] /\ world \in World
         /\ store.term \in Nat /\ store.commit \in Nat /\ store.base \in Nat /\ store.log \in Seq(Stored)
         /\ LastIndex(store) \in Nat /\ store.pending \in Images /\ store.pending.index \in Nat
         /\ store.pending.term \in Nat
         /\ Replay(file.durable) \in Replays /\ Replay(file.durable).ok
         /\ Recalled(store) = Recalled(Replay(file.durable))
<1>1. /\ store \in Stores /\ file \in Files /\ call \in Calls
      /\ dir \in [path : Linked, synced : Linked] /\ world \in World
  BY Zenon DEF LogInv, TypeOK
<1>2. damage = Nil
  BY Zenon DEF LogInv, DamageSound, Running, Opening, Saving
<1>3. /\ store.term \in Nat /\ store.commit \in Nat /\ store.base \in Nat /\ store.log \in Seq(Stored)
      /\ store.pending \in Images
  BY Zenon, <1>1 DEF Stores
<1>4. store.pending.index \in Nat /\ store.pending.term \in Nat
  BY Zenon, <1>3 DEF Images
<1>5. PICK base \in Nat, n \in Nat : base = store.base /\ n = Len(store.log)
  BY <1>3
<1>6. LastIndex(store) \in Nat
  BY <1>5 DEF LastIndex
<1>7. /\ Replay(file.durable) \in Replays /\ Replay(file.durable).ok
      /\ Recalled(store) = Recalled(Replay(file.durable))
  BY Zenon DEF LogInv, LogSound, MemorySound
<1> QED BY Zenon, <1>1, <1>2, <1>3, <1>4, <1>6, <1>7

LEMMA SaveHardStateLog ==
  ASSUME LogInv, SaveHardState
  PROVE  LogInv'
<1>1. call.pc = "idle" /\ call.pc \in Running
  BY Zenon DEF SaveHardState, Callable, Ready, Running
<1>2. PICK h \in HardStates :
        /\ ~Regresses(store, h[1], h[2], h[3])
        /\ call' = Start("write", HardState(h[1], h[2], h[3]), NoSnapshot)
  BY Zenon DEF SaveHardState
<1> DEFINE body == HardState(h[1], h[2], h[3])
<1>3. store.term \in Nat /\ store.commit \in Nat /\ LastIndex(store) \in Nat
  BY Zenon, <1>1, OpenFacts
<1>4. h[1] \in Nat /\ h[2] \in Server \cup {Nil} /\ h[3] \in Nat
  BY <1>3, StoreAssumption DEF HardStates
<1>5. body \in Bodies /\ body.kind = "hard"
  BY Zenon, <1>4 DEF HardState, Bodies
<1>6. Appendable(Replay(file.durable), body)
  <2>1. /\ store.term = Replay(file.durable).term /\ store.vote = Replay(file.durable).vote
        /\ store.commit = Replay(file.durable).commit
    BY Zenon, <1>1, OpenFacts, SameRecalled
  <2> QED BY Zenon, <1>2, <2>1 DEF Appendable, Regresses, HardState
<1> HIDE DEF body
<1>7. call' \in Calls /\ call'.pc = "write" /\ call'.body = body
  BY <1>2, <1>5, StartOf, NoSnapshotType DEF Pcs, Running, body
<1>8. QuietCall
  BY Zenon, <1>1, <1>5, <1>6, <1>7, OpenFacts DEF QuietCall, SaveHardState, files, LogInv, CallSound, Running, Opening, Saving
<1> QED BY Zenon, <1>8, QuietLog

LEMMA StoreAppendLog ==
  ASSUME LogInv, StoreAppend
  PROVE  LogInv'
<1>1. call.pc = "idle" /\ call.pc \in Running
  BY Zenon DEF StoreAppend, Callable, Ready, Running
<1>2. PICK k \in store.base + 1 .. LastIndex(store) + 1, e \in Entries :
        call' = Start("write", LogEntry(k, e), NoSnapshot)
  BY Zenon DEF StoreAppend
<1> DEFINE body == LogEntry(k, e)
<1>3. store.base \in Nat /\ store.term \in Nat /\ LastIndex(store) \in Nat
  BY Zenon, <1>1, OpenFacts
<1>4. k \in Nat /\ store.base < k /\ k <= LastIndex(store) + 1
  BY <1>3
<1>5. e \in Stored
  <2>1. PICK t \in 1 .. store.term : e = Normal(t, Nil)
    BY Zenon DEF Entries
  <2> QED BY <1>3, <2>1 DEF Normal, NewEntry, Stored
<1>6. body \in Bodies /\ body.kind = "entry" /\ body.index = k
  BY Zenon, <1>4, <1>5 DEF LogEntry, Bodies
<1>7. Appendable(Replay(file.durable), body)
  <2>1. store.base = Replay(file.durable).base /\ LastIndex(store) = LastIndex(Replay(file.durable))
    BY Zenon, <1>1, OpenFacts, SameRecalled
  <2> QED BY Zenon, <1>4, <1>6, <2>1 DEF Appendable
<1> HIDE DEF body
<1>8. call' \in Calls /\ call'.pc = "write" /\ call'.body = body
  BY <1>2, <1>6, StartOf, NoSnapshotType DEF Pcs, Running, body
<1>9. QuietCall
  BY Zenon, <1>1, <1>6, <1>7, <1>8, OpenFacts DEF QuietCall, StoreAppend, files, LogInv, CallSound, Running, Opening, Saving
<1> QED BY Zenon, <1>9, QuietLog

LEMMA Image0Type ==
  ASSUME NEW k \in Nat, NEW t \in Nat
  PROVE  Image0(k, t) \in Images /\ Image0(k, t).index = k /\ Image0(k, t).term = t
<1>1. Image0(k, t) = [index |-> k, term |-> t, state |-> <<>>, old |-> {}, new |-> {}]
  BY Zenon DEF Image0
<1> QED BY <1>1 DEF Images

LEMMA SaveSnapshotLog ==
  ASSUME LogInv, SaveSnapshot
  PROVE  LogInv'
<1>1. call.pc = "idle" /\ call.pc \in Running
  BY Zenon DEF SaveSnapshot, Callable, Ready, Running
<1>2. PICK k \in store.base + 1 .. MaxIndex, t \in 1 .. store.term :
        call' = Start("tmp", Nil, Image0(k, t))
  BY Zenon DEF SaveSnapshot
<1>3. store.base \in Nat /\ store.term \in Nat
  BY Zenon, <1>1, OpenFacts
<1>4. k \in Nat /\ t \in Nat /\ store.base < k
  BY <1>3, StoreAssumption
<1>5. call' \in Calls /\ call'.pc = "tmp" /\ call'.snap.index = k
  BY <1>2, <1>4, StartOf, Image0Type DEF Pcs, Running, Saving
<1>6. QuietCall
  BY Zenon, <1>1, <1>4, <1>5, OpenFacts
     DEF QuietCall, SaveSnapshot, files, LogInv, CallSound, Running, Opening, Saving
<1> QED BY Zenon, <1>6, QuietLog

\* A fence beyond the base may be appended.
LEMMA FenceAppendable ==
  ASSUME LogInv, call.pc \in Running \cup Opening,
         NEW k \in Nat, NEW t \in Nat, store.base < k
  PROVE  /\ FenceFor(store, k, t) \in Bodies /\ FenceFor(store, k, t).kind \in Fences
         /\ FenceFor(store, k, t).index = k /\ FenceFor(store, k, t).term = t
         /\ Appendable(Replay(file.durable), FenceFor(store, k, t))
<1> DEFINE body == FenceFor(store, k, t)
<1>1. body \in FenceBodies /\ body.kind \in Fences /\ body.index = k /\ body.term = t
  BY Zenon DEF FenceFor, Fence, FenceBodies, Fences
<1>2. body \in Bodies
  BY <1>1, Zenon DEF FenceBodies, Bodies
<1>3. store.base = Replay(file.durable).base /\ FenceFor(Replay(file.durable), k, t) = body
  BY OpenFacts, SameRecalled
<1> HIDE DEF body
<1>4. Appendable(Replay(file.durable), body)
  BY <1>1, <1>3, Zenon DEF Appendable
<1> QED BY Zenon, <1>1, <1>2, <1>4 DEF body

LEMMA CompactLogLog ==
  ASSUME LogInv, CompactLog
  PROVE  LogInv'
<1>1. call.pc = "idle" /\ call.pc \in Running
  BY Zenon DEF CompactLog, Ready, Running
<1>2. store.pending.index \in Nat /\ store.pending.term \in Nat /\ store.base < store.pending.index
  <2>1. store.pending = NoSnapshot \/ store.base < store.pending.index
    BY <1>1, Zenon DEF LogInv, MemorySound
  <2> QED BY Zenon, <1>1, <2>1, OpenFacts DEF CompactLog
<1>3. PICK fence \in Bodies : /\ fence = FenceFor(store, store.pending.index, store.pending.term)
                             /\ Appendable(Replay(file.durable), fence)
  BY Zenon, <1>1, <1>2, FenceAppendable
<1>4. call' = Start("write", fence, NoSnapshot)
  BY Zenon, <1>3 DEF CompactLog
<1>5. call' \in Calls /\ call'.pc = "write" /\ call'.body = fence
  BY <1>4, StartOf, NoSnapshotType DEF Pcs, Running
<1>6. QuietCall
  BY Zenon, <1>1, <1>3, <1>5, OpenFacts
     DEF QuietCall, CompactLog, files, LogInv, CallSound, Running, Opening, Saving
<1> QED BY Zenon, <1>6, QuietLog

LEMMA WriteTmpLog ==
  ASSUME LogInv, WriteTmp
  PROVE  LogInv'
<1>1. call.pc = "tmp" /\ call.pc \in Running
  BY Zenon DEF WriteTmp, Ready, Running, Saving
<1>2. call' \in Calls /\ call'.pc = "tmpsync" /\ call'.snap = call.snap
  BY Zenon, <1>1, OpenFacts, StepOf DEF WriteTmp, Pcs, Running, Saving
<1>3. tmp' \in [snap : Images, safe : BOOLEAN]
  BY Zenon, <1>1, OpenFacts DEF WriteTmp, Calls
<1>4. store.base < call.snap.index
  BY Zenon, <1>1 DEF LogInv, MemorySound, Running, Saving
<1>5. QuietCall
  BY Zenon, <1>1, <1>2, <1>3, <1>4, OpenFacts
     DEF QuietCall, WriteTmp, files, LogInv, CallSound, Running, Opening, Saving
<1> QED BY Zenon, <1>5, QuietLog

LEMMA SyncTmpLog ==
  ASSUME LogInv, SyncTmp
  PROVE  LogInv'
<1>1. call.pc = "tmpsync" /\ call.pc \in Running
  BY Zenon DEF SyncTmp, Ready, Running, Saving
<1>2. call' \in Calls /\ call'.pc = "rename" /\ call'.snap = call.snap
  BY Zenon, <1>1, OpenFacts, StepOf DEF SyncTmp, Pcs, Running, Saving
<1>3. tmp' \in Linked
  <2>1. tmp \in [snap : Images, safe : BOOLEAN]
    BY Zenon, <1>1 DEF LogInv, TypeOK
  <2>2. tmp' = [snap |-> tmp.snap, safe |-> TRUE]
    BY <2>1, Zenon DEF SyncTmp
  <2> QED BY Zenon, <2>1, <2>2 DEF Linked
<1>4. store.base < call.snap.index
  BY Zenon, <1>1 DEF LogInv, MemorySound, Running, Saving
<1>5. QuietCall
  BY Zenon, <1>1, <1>2, <1>3, <1>4, OpenFacts
     DEF QuietCall, SyncTmp, files, LogInv, CallSound, Running, Opening, Saving
<1> QED BY Zenon, <1>5, QuietLog

LEMMA RenameLog ==
  ASSUME LogInv, Rename
  PROVE  LogInv'
<1>1. call.pc = "rename" /\ call.pc \in Running
  BY Zenon DEF Rename, Ready, Running, Saving
<1>2. call' \in Calls /\ call'.pc = "dirsync" /\ call'.snap = call.snap
  BY Zenon, <1>1, OpenFacts, StepOf DEF Rename, Pcs, Running, Saving
<1>3. tmp \in Linked
  BY Zenon, <1>1 DEF LogInv, TypeOK
<1>4. dir' = [path |-> tmp, synced |-> dir.synced] /\ dir.synced \in Linked
  <2>1. PICK a \in Linked, b \in Linked : dir = [path |-> a, synced |-> b]
    BY <1>1, OpenFacts, Zenon
  <2> QED BY <2>1, Zenon DEF Rename, DirBecomes, FilesBecome
<1>5. store.base < call.snap.index
  BY Zenon, <1>1 DEF LogInv, MemorySound, Running, Saving
<1>6. QuietCall
  BY Zenon, <1>1, <1>2, <1>3, <1>4, <1>5, OpenFacts
     DEF QuietCall, Rename, DirBecomes, FilesBecome, LogInv, CallSound, Running, Opening, Saving
<1> QED BY Zenon, <1>6, QuietLog

LEMMA SaveFailsLog ==
  ASSUME LogInv, SaveFails
  PROVE  LogInv'
<1>1. call.pc \in Running
  BY Zenon DEF SaveFails, Running, Saving
<1>2. call' \in Calls /\ call'.pc = "failed"
  BY Zenon, <1>1, OpenFacts, StepOf DEF SaveFails, Pcs
<1>3. QuietCall
  BY Zenon, <1>1, <1>2, OpenFacts DEF QuietCall, SaveFails, files, Running, Opening, Saving
<1> QED BY Zenon, <1>3, QuietLog

\* The snapshot file is never torn: its temporary file was synced before the rename.
LEMMA OpenSnapshotLog ==
  ASSUME LogInv, OpenSnapshot
  PROVE  /\ LogInv' /\ call' = Start("read", Nil, dir.path.snap)
<1>1. call \in Calls /\ dir.path \in Linked /\ dir \in [path : Linked, synced : Linked] /\ world \in World
  BY Zenon DEF LogInv, TypeOK
<1>2. dir.path.snap \in Images /\ dir.path # Torn
  BY <1>1, StoreAssumption DEF Linked, Torn
<1>3. call' = Start("read", Nil, dir.path.snap)
  BY Zenon, <1>2 DEF OpenSnapshot
<1>4. call' \in Calls /\ call'.pc = "read"
  BY <1>2, <1>3, StartOf DEF Pcs
<1>5. QuietCall
  BY Zenon, <1>1, <1>4 DEF QuietCall, OpenSnapshot, files, Running, Opening, Saving
<1> QED BY Zenon, <1>3, <1>5, QuietLog

LEMMA FinishOpenLog ==
  ASSUME LogInv, FinishOpen
  PROVE  LogInv'
<1>1. call.pc = "replay" /\ call.pc \in Opening
  BY Zenon DEF FinishOpen, Ready, Opening
<1>2. /\ file.pending = <<>> /\ ~file.partial
      /\ store.base \in Nat /\ call.snap \in Images /\ call.snap.index \in Nat /\ call.snap.term \in Nat
  <2>1. call.snap \in Images
    BY Zenon, <1>1, OpenFacts DEF Calls
  <2> QED BY Zenon, <1>1, <2>1, OpenFacts DEF LogInv, CallSound, Running, Opening, Saving, Images
<1>3. CASE call' = Step("refused")
  <2>1. call' \in Calls /\ call'.pc = "refused"
    BY Zenon, <1>1, <1>3, OpenFacts, StepOf DEF Pcs
  <2>2. QuietCall
    BY Zenon, <1>1, <1>2, <2>1, OpenFacts DEF QuietCall, FinishOpen, files, Running, Opening, Saving
  <2> QED BY Zenon, <2>2, QuietLog
<1>4. CASE /\ call' = Start("write", FenceFor(store, call.snap.index, call.snap.term), NoSnapshot)
           /\ call.snap.index > store.base
  <2>1. PICK fence \in Bodies : /\ fence = FenceFor(store, call.snap.index, call.snap.term)
                               /\ Appendable(Replay(file.durable), fence)
    BY Zenon, <1>1, <1>2, <1>4, FenceAppendable
  <2>2. call' = Start("write", fence, NoSnapshot)
    BY Zenon, <1>4, <2>1
  <2>3. call' \in Calls /\ call'.pc = "write" /\ call'.body = fence
    BY <2>2, StartOf, NoSnapshotType DEF Pcs, Running
  <2>4. QuietCall
    BY Zenon, <1>1, <1>2, <2>1, <2>3, OpenFacts DEF QuietCall, FinishOpen, files, Running, Opening, Saving
  <2> QED BY Zenon, <2>4, QuietLog
<1>5. CASE call' = Idle
  <2>1. call' \in Calls /\ call'.pc = "idle"
    BY <1>5, StartOf, NoSnapshotType DEF Idle, Pcs, Running
  <2>2. QuietCall
    BY Zenon, <1>1, <1>2, <2>1, OpenFacts DEF QuietCall, FinishOpen, files, Running, Opening, Saving
  <2> QED BY Zenon, <2>2, QuietLog
<1> QED BY Zenon, <1>3, <1>4, <1>5 DEF FinishOpen

LEMMA KillLog ==
  ASSUME LogInv, Kill
  PROVE  LogInv'
<1>1. call' \in Calls /\ call'.pc = "closed"
  BY StartOf, NoSnapshotType DEF Kill, Down, Closed, Pcs
<1>2. dir \in [path : Linked, synced : Linked] /\ world \in World
  BY Zenon DEF LogInv, TypeOK
<1>3. QuietCall
  BY Zenon, <1>1, <1>2 DEF QuietCall, Kill, Down, files, Running, Opening, Saving
<1> QED BY Zenon, <1>3, QuietLog

-----------------------------------------------------------------------------
(***************************************************************************)
(* Calls that change the file, and crashes.                                *)
(***************************************************************************)

LEMMA RecordType ==
  ASSUME NEW n \in Nat, NEW body \in Bodies
  PROVE  /\ Record(n, body) \in Records /\ Record(n, body).seq = n /\ Record(n, body).body = body
         /\ Record(n, body) # Bad
<1>1. Record(n, body) \in Records /\ Record(n, body).seq = n /\ Record(n, body).body = body
  BY Zenon DEF Record, Records
<1>2. body.kind # "bad"
  BY Zenon, BodyKinds
<1>3. Bad.body.kind = "bad"
  BY Zenon DEF Bad
<1> QED BY Zenon, <1>1, <1>2, <1>3

LEMMA Alone ==
  ASSUME NEW S, NEW r \in S
  PROVE  Append(<<>>, r) = <<r>> /\ <<r>> \in Seq(S) /\ Len(<<r>>) = 1 /\ <<r>>[1] = r /\ <<r>> # <<>>
OBVIOUS

LEMMA WriteRecordLog ==
  ASSUME LogInv, WriteRecord
  PROVE  LogInv'
<1>1. call.pc = "write" /\ call.pc \in Running
  BY Zenon DEF WriteRecord, Ready, Running
<1>2. /\ call.body \in Bodies /\ Appendable(Replay(file.durable), call.body)
      /\ file.pending = <<>> /\ ~file.partial
  BY Zenon, <1>1 DEF LogInv, TypeOK, CallSound, Running, Saving
<1>3. PICK d \in Seq(Records) : file = [durable |-> d, pending |-> <<>>, partial |-> FALSE]
  <2>1. PICK d \in Seq(Records), p \in Seq(Records), q \in BOOLEAN :
          file = [durable |-> d, pending |-> p, partial |-> q]
    BY <1>1, OpenFacts, Zenon DEF Files
  <2>2. p = <<>> /\ q = FALSE
    BY Zenon, <1>2, <2>1
  <2> QED BY Zenon, <2>1, <2>2
<1>4. file.durable = d /\ Len(d) \in Nat
  BY <1>3
<1>5. store.nextSeq = Len(d) + 1
  BY <1>1, <1>3 DEF LogInv, MemorySound
<1>6. PICK r \in Records : /\ r = Record(Len(d) + 1, call.body)
                           /\ r.seq = Len(d) + 1 /\ r.body = call.body
  BY <1>2, <1>4, RecordType
<1>7. file' = [durable |-> d, pending |-> <<r>>, partial |-> FALSE]
  <2>1. file' = [file EXCEPT !.pending = Append(@, r)]
    BY Zenon, <1>2, <1>5, <1>6 DEF WriteRecord, FileBecomes, FilesBecome
  <2>2. file' = [durable |-> d, pending |-> Append(<<>>, r), partial |-> FALSE]
    BY Zenon, <1>3, <2>1
  <2> QED BY Zenon, <2>2, Alone
<1>8. /\ file'.durable = d /\ file'.pending = <<r>> /\ ~file'.partial /\ file' \in Files
      /\ Len(file'.pending) = 1 /\ file'.pending[1] = r /\ file'.pending # <<>>
  BY Zenon, <1>7, Alone DEF Files
<1>9. call' \in Calls /\ call'.pc = "sync" /\ call'.body = call.body /\ call'.snap = call.snap
  BY Zenon, <1>1, OpenFacts, StepOf DEF WriteRecord, Pcs, Running
<1>10. /\ store' \in Stores /\ Recalled(store') = Recalled(store)
       /\ store'.nextSeq = Len(d) + 2 /\ store'.pending = store.pending /\ store'.base = store.base
  <2>1. store' = [StoreTyped(store) EXCEPT !.nextSeq = Len(d) + 2]
    <3>1. store = StoreTyped(store)
      BY <1>1, OpenFacts, Zenon DEF Stores, StoreTyped
    <3>2. store.nextSeq + 1 = Len(d) + 2
      BY <1>4, <1>5
    <3> QED BY Zenon, <3>1, <3>2 DEF WriteRecord
  <2>2. store' = [ok |-> TRUE, term |-> store.term, vote |-> store.vote, commit |-> store.commit,
                  base |-> store.base, baseTerm |-> store.baseTerm, log |-> store.log,
                  nextSeq |-> Len(d) + 2, last |-> store.last, pending |-> store.pending]
    BY Zenon, <2>1 DEF StoreTyped
  <2>3. Len(d) + 2 \in Nat
    BY <1>4
  <2>4. store' \in Stores
    <3>1. store \in Stores
      BY Zenon, <1>1, OpenFacts
    <3> QED BY Zenon, <2>2, <2>3, <3>1 DEF Stores
  <2> QED BY Zenon, <2>2, <2>4 DEF Recalled
<1>11. TypeOK'
  BY Zenon, <1>1, <1>2, <1>8, <1>9, <1>10, OpenFacts
     DEF TypeOK, WriteRecord, FileBecomes, FilesBecome, Running, Opening, Saving
<1>12. LogSound(file)'
  BY Zenon, <1>1, <1>2, <1>4, <1>6, <1>8, OpenFacts DEF LogSound, LogInv
<1>13. DamageSound'
  BY Zenon, <1>1, OpenFacts DEF DamageSound, WriteRecord
<1>14. MemorySound'
  BY <1>1, <1>4, <1>8, <1>9, <1>10, OpenFacts DEF MemorySound, LogInv, Running, Opening, Saving
<1>15. CallSound'
  BY Zenon, <1>2, <1>4, <1>6, <1>8, <1>9 DEF CallSound, Running, Opening, Saving
<1> QED BY Zenon, <1>11, <1>12, <1>13, <1>14, <1>15 DEF LogInv

\* Whether what is pending has become durable or is lost, the log is sound.
LEMMA SettledSound ==
  ASSUME NEW f \in Files, LogSound(f), NEW g \in Files, g.pending = <<>>,
         g.durable = f.durable \/ (f.pending # <<>> /\ g.durable = f.durable \o f.pending)
  PROVE  LogSound(g) /\ StartsWith(g.durable, f.durable)
<1>1. Len(f.durable) \in Nat
  BY DEF Files
<1>2. CASE g.durable = f.durable
  BY <1>1, <1>2 DEF LogSound, StartsWith
<1>3. CASE f.pending # <<>> /\ g.durable = f.durable \o f.pending
  <2>1. /\ Len(g.durable) = Len(f.durable) + 1
        /\ \A i \in 1 .. Len(g.durable) : g.durable[i].seq = i
        /\ Replay(g.durable) = Grown(Replay(f.durable), f.pending[1].body)
        /\ Replay(g.durable) \in Replays
        /\ \A i \in 1 .. Len(f.durable) : g.durable[i] = f.durable[i]
    BY Zenon, <1>3, LogGrows
  <2>2. Replay(g.durable).ok
    BY <2>1 DEF Grown
  <2>3. Len(f.durable) <= Len(g.durable)
    BY <1>1, <2>1
  <2> QED BY <2>1, <2>2, <2>3, Zenon DEF LogSound, StartsWith
<1> QED BY Zenon, <1>2, <1>3

LEMMA SyncedSound ==
  ASSUME NEW f \in Files, LogSound(f)
  PROVE  /\ Synced(f) \in Files /\ Synced(f).pending = <<>> /\ Synced(f).partial = f.partial
         /\ f.pending = <<>> => Synced(f) = f
         /\ f.pending # <<>> => Synced(f).durable = f.durable \o f.pending
         /\ LogSound(Synced(f)) /\ StartsWith(Synced(f).durable, f.durable)
<1>1. PICK d \in Seq(Records), p \in Seq(Records), q \in BOOLEAN :
        f = [durable |-> d, pending |-> p, partial |-> q]
  BY Zenon DEF Files
<1>2. Synced(f) = [durable |-> d \o p, pending |-> <<>>, partial |-> q]
  <2>1. f.durable = d /\ f.pending = p
    BY Zenon, <1>1
  <2>2. PICK e : e = d \o p
    BY Zenon
  <2>3. Synced(f) = [f EXCEPT !.durable = e, !.pending = <<>>]
    BY <2>1, <2>2, Zenon DEF Synced
  <2> QED BY Zenon, <1>1, <2>2, <2>3
<1>3. f.pending = <<>> => Synced(f) = f
  BY Zenon, <1>1, <1>2, ConcatEmptySeq
<1>4. /\ Synced(f).durable = f.durable \o f.pending /\ Synced(f).pending = <<>>
      /\ Synced(f).partial = f.partial
  BY <1>1, <1>2
<1>5. Synced(f) \in Files
  BY <1>2, ConcatProperties DEF Files
<1> QED BY Zenon, <1>3, <1>4, <1>5, SettledSound

LEMMA WriteFailsLog ==
  ASSUME LogInv, WriteFails
  PROVE  LogInv' /\ file'.durable = file.durable /\ file'.pending = file.pending
<1>1. call.pc \in Running
  BY Zenon DEF WriteFails, Running
<1>2. call' \in Calls /\ call'.pc = "failed"
  BY Zenon, <1>1, OpenFacts, StepOf DEF WriteFails, Pcs
<1>3. PICK d \in Seq(Records), p \in Seq(Records), q \in BOOLEAN :
        file = [durable |-> d, pending |-> p, partial |-> q]
  BY <1>1, OpenFacts, Zenon DEF Files
<1>4. PICK c \in BOOLEAN : file' = [durable |-> d, pending |-> p, partial |-> c]
  <2>1. PICK cut \in BOOLEAN : file' = [file EXCEPT !.partial = @ \/ (call.pc = "write" /\ cut)]
    BY Zenon DEF WriteFails, FileBecomes, FilesBecome
  <2>2. PICK c \in BOOLEAN : c = (q \/ (call.pc = "write" /\ cut))
    BY Zenon
  <2> QED BY Zenon, <1>3, <2>1, <2>2
<1>5. file'.durable = file.durable /\ file'.pending = file.pending /\ file' \in Files
  BY Zenon, <1>3, <1>4 DEF Files
<1>6. /\ damage' = Nil /\ world' = world /\ dir' = dir /\ LogSound(file)
      /\ dir \in [path : Linked, synced : Linked] /\ world \in World
  BY Zenon, <1>1, OpenFacts DEF WriteFails, FileBecomes, FilesBecome, LogInv
<1>7. TypeOK'
  BY Zenon, <1>2, <1>5, <1>6 DEF TypeOK, Running, Opening, Saving
<1>8. LogSound(file)'
  BY Zenon, <1>5, <1>6 DEF LogSound
<1>9. DamageSound' /\ MemorySound' /\ CallSound'
  BY Zenon, <1>2, <1>6 DEF DamageSound, MemorySound, CallSound, Running, Opening, Saving
<1> QED BY Zenon, <1>5, <1>7, <1>8, <1>9 DEF LogInv

\* The record of the call is durable, and the call returns.
LEMMA SyncRecordLog ==
  ASSUME LogInv, SyncRecord
  PROVE  /\ LogInv' /\ StartsWith(file'.durable, file.durable)
         /\ call.body \in Bodies /\ Appendable(Replay(file.durable), call.body)
         /\ Replay(file'.durable) = Grown(Replay(file.durable), call.body)
         /\ store' = RememberedAs(store, call.body) /\ file'.pending = <<>>
<1>1. call.pc = "sync" /\ call.pc \in Running
  BY Zenon DEF SyncRecord, Ready, Running
<1>2. file \in Files /\ LogSound(file) /\ damage = Nil /\ Len(file.durable) \in Nat
  BY <1>1, OpenFacts DEF LogInv, Files
<1>3. /\ call.body \in Bodies /\ Appendable(Replay(file.durable), call.body)
      /\ file.pending = <<Record(Len(file.durable) + 1, call.body)>> /\ ~file.partial
  BY Zenon, <1>1 DEF LogInv, TypeOK, CallSound, Running, Saving
<1>4. PICK r \in Records : r = Record(Len(file.durable) + 1, call.body) /\ r.body = call.body
  BY <1>2, <1>3, RecordType
<1>5. file.pending # <<>> /\ file.pending[1].body = call.body
  BY Zenon, <1>3, <1>4, Alone
<1>6. file' = Synced(file)
  BY Zenon DEF SyncRecord, FileBecomes, FilesBecome
<1>7. /\ file' \in Files /\ file'.pending = <<>> /\ ~file'.partial
      /\ file'.durable = file.durable \o file.pending
      /\ LogSound(file') /\ StartsWith(file'.durable, file.durable)
  BY Zenon, <1>2, <1>3, <1>5, <1>6, SyncedSound
<1>8. Len(file'.durable) = Len(file.durable) + 1
      /\ Replay(file'.durable) = Grown(Replay(file.durable), call.body)
  BY Zenon, <1>2, <1>5, <1>7, LogGrows
<1>9. call' \in Calls /\ call'.pc = "idle"
  BY StartOf, NoSnapshotType DEF SyncRecord, Idle, Pcs, Running
<1>10. store' = RememberedAs(store, call.body)
  BY Zenon, <1>1, <1>3, OpenFacts, RememberedFields DEF SyncRecord
<1>11. store' \in Stores /\ Recalled(store') = Recalled(Replay(file'.durable))
  BY Zenon, <1>1, <1>3, <1>8, OpenFacts, RememberedGrows DEF SyncRecord
<1>12. TypeOK'
  BY Zenon, <1>1, <1>7, <1>9, <1>11, OpenFacts DEF TypeOK, SyncRecord, FileBecomes, FilesBecome
<1>13. DamageSound'
  BY Zenon, <1>2 DEF DamageSound, SyncRecord
<1>14. MemorySound'
  <2>1. store.nextSeq = Len(file.durable) + 2
    <3>1. Len(file.pending) = 1
      BY Zenon, <1>3, <1>4, Alone
    <3> QED BY <1>1, <1>2, <3>1 DEF LogInv, MemorySound
  <2>2. store'.nextSeq = Len(file'.durable) + Len(file'.pending) + 1
    BY <1>2, <1>7, <1>8, <1>10, <2>1 DEF RememberedAs
  <2>3. store'.pending = NoSnapshot \/ store'.base < store'.pending.index
    <3>1. store.pending = NoSnapshot \/ store.base < store.pending.index
      BY <1>1, Zenon DEF LogInv, MemorySound
    <3> QED BY Zenon, <1>10, <3>1 DEF RememberedAs
  <2> QED BY Zenon, <1>9, <1>11, <2>2, <2>3 DEF MemorySound, Saving
<1>15. CallSound'
  BY Zenon, <1>7, <1>9 DEF CallSound, Opening
<1> QED BY Zenon, <1>3, <1>7, <1>8, <1>10, <1>12, <1>13, <1>14, <1>15 DEF LogInv

LEMMA SyncDirectoryLog ==
  ASSUME LogInv, SyncDirectory
  PROVE  LogInv'
<1>1. call.pc = "dirsync" /\ call.pc \in Running
  BY Zenon DEF SyncDirectory, Ready, Running, Saving
<1>2. call' \in Calls /\ call'.pc = "idle" /\ file' = file /\ damage' = damage /\ world' = world
  <2>1. call' = Start("idle", Nil, NoSnapshot) /\ file' = file /\ damage' = damage /\ world' = world
    BY Zenon DEF SyncDirectory, Idle, DirBecomes, FilesBecome
  <2> QED BY <2>1, StartOf, NoSnapshotType DEF Pcs, Running
<1>3. dir' = [path |-> dir.path, synced |-> dir.path] /\ dir' \in [path : Linked, synced : Linked]
  <2>1. PICK a \in Linked, b \in Linked : dir = [path |-> a, synced |-> b]
    BY <1>1, OpenFacts, Zenon
  <2>2. dir' = [path |-> a, synced |-> a]
    BY Zenon, <2>1 DEF SyncDirectory, DirBecomes, FilesBecome
  <2> QED BY Zenon, <2>1, <2>2
<1>4. call.snap \in Images /\ call.snap.index \in Nat /\ store.base < call.snap.index
  BY Zenon, <1>1, OpenFacts DEF LogInv, MemorySound, Running, Saving, Calls, Images
<1>5. store' = [ok |-> TRUE, term |-> store.term, vote |-> store.vote, commit |-> store.commit,
                base |-> store.base, baseTerm |-> store.baseTerm, log |-> store.log,
                nextSeq |-> store.nextSeq, last |-> call.snap.index, pending |-> call.snap]
  <2>1. store = StoreTyped(store)
    BY <1>1, OpenFacts, Zenon DEF Stores, StoreTyped
  <2>2. store' = [StoreTyped(store) EXCEPT !.last = call.snap.index, !.pending = call.snap]
    BY Zenon, <2>1 DEF SyncDirectory
  <2> QED BY Zenon, <2>2 DEF StoreTyped
<1>6. store' \in Stores
  <2>1. store \in Stores
    BY Zenon, <1>1, OpenFacts
  <2> QED BY Zenon, <1>4, <1>5, <2>1 DEF Stores
<1>7. Recalled(store') = Recalled(store)
  BY Zenon, <1>5 DEF Recalled
<1>8. TypeOK'
  BY Zenon, <1>1, <1>2, <1>3, <1>6, OpenFacts DEF TypeOK
<1>9. LogSound(file)' /\ DamageSound'
  BY Zenon, <1>1, <1>2, OpenFacts DEF LogInv, LogSound, DamageSound
<1>10. MemorySound'
  BY Zenon, <1>1, <1>2, <1>4, <1>5, <1>7 DEF LogInv, MemorySound, Saving
<1>11. CallSound'
  BY Zenon, <1>1, <1>2 DEF LogInv, CallSound, Running, Opening, Saving
<1> QED BY Zenon, <1>8, <1>9, <1>10, <1>11 DEF LogInv


-----------------------------------------------------------------------------
(***************************************************************************)
(* wal.Open.                                                               *)
(***************************************************************************)

\* A non-empty set of numbers up to n has a greatest one (the last record that Open
\* keeps).
LEMMA MaxOf ==
  ASSUME NEW n \in Nat, NEW S \in SUBSET (0 .. n), S # {}
  PROVE  Max(S) \in S /\ \A y \in S : y <= Max(S)
<1> DEFINE T == {m \in Nat : \A R \in SUBSET (0 .. m) : R # {} => \E x \in R : \A y \in R : x >= y}
<1>1. 0 \in T
  <2> SUFFICES ASSUME NEW R \in SUBSET (0 .. 0), R # {}
               PROVE  \E x \in R : \A y \in R : x >= y
    BY Zenon
  <2>1. \A y \in 0 .. 0 : y = 0
    OBVIOUS
  <2>2. \A y \in R : y \in 0 .. 0
    BY Zenon
  <2>3. \A y \in R : y = 0
    BY <2>1, <2>2, Zenon
  <2>4. 0 \in R
    BY <2>3, Zenon
  <2> QED BY <2>3, <2>4
<1>2. ASSUME NEW m \in T PROVE m + 1 \in T
  <2> SUFFICES ASSUME NEW R \in SUBSET (0 .. m + 1), R # {}
               PROVE  \E x \in R : \A y \in R : x >= y
    OBVIOUS
  <2>1. CASE m + 1 \in R
    BY <2>1
  <2>2. CASE m + 1 \notin R
    <3>1. R \in SUBSET (0 .. m)
      BY <2>2
    <3> QED BY Zenon, <3>1
  <2> QED BY Zenon, <2>1, <2>2
<1>3. \A m \in Nat : m \in T
  <2> HIDE DEF T
  <2>1. T \in SUBSET Nat
    BY Zenon DEF T
  <2> QED BY Zenon, <1>1, <1>2, <2>1, SetInduction
<1>4. \E x \in S : \A y \in S : x >= y
  BY Zenon, <1>3
<1>5. Max(S) \in S /\ \A y \in S : Max(S) >= y
  BY Zenon, <1>4 DEF Max
<1> QED BY Zenon, <1>5

\* wal.Recover takes an image of numbered records as it is.
LEMMA RecoverSound ==
  ASSUME NEW d \in Seq(Records), \A i \in 1 .. Len(d) : d[i].seq = i
  PROVE  Recover(d) = [ok |-> TRUE, records |-> d]
<1> DEFINE S == {n \in 0 .. Len(d) : \A i \in 1 .. n : Verified(d, i)}
<1>1. Len(d) \in Nat
  OBVIOUS
<1>2. ASSUME NEW i \in 1 .. Len(d) PROVE Verified(d, i)
  <2>1. d[i] \in Records
    BY Zenon, ElementOfSeq
  <2>2. d[i] # Bad
    <3>1. d[i].body.kind # "bad"
      BY Zenon, <2>1, BodyKinds DEF Records
    <3> QED BY <3>1 DEF Bad
  <2> QED BY Zenon, <2>2 DEF Verified
<1>3. Len(d) \in S /\ S \in SUBSET (0 .. Len(d))
  BY <1>1, <1>2
<1>4. Max(S) \in S /\ Len(d) <= Max(S)
  BY Zenon, <1>1, <1>3, MaxOf
<1>5. Valid(d) = Len(d)
  <2>1. Max(S) = Len(d)
    BY <1>1, <1>4
  <2> QED BY Zenon, <2>1 DEF Valid
<1>6. SubSeq(d, 1, Len(d)) = d
  OBVIOUS
<1> QED BY Zenon, <1>5, <1>6 DEF Recover

\* wal.Recover refuses an image in which a record does not verify.
LEMMA RecoverDamaged ==
  ASSUME NEW image, Len(image) \in Nat, NEW i \in 1 .. Len(image), ~Verified(image, i)
  PROVE  ~Recover(image).ok
<1> DEFINE S == {n \in 0 .. Len(image) : \A j \in 1 .. n : Verified(image, j)}
<1>1. 0 \in S /\ S \in SUBSET (0 .. Len(image)) /\ Len(image) \notin S
  OBVIOUS
<1>2. Max(S) \in S
  BY Zenon, <1>1, MaxOf
<1>3. Valid(image) # Len(image)
  BY Zenon, <1>1, <1>2 DEF Valid
<1> QED BY Zenon, <1>3 DEF Recover

\* What Open makes of the records it has read.
LEMMA LoadedOf ==
  ASSUME NEW d \in Seq(Records), Replay(d) \in Replays, Replay(d).ok, call.snap \in Images
  PROVE  /\ Loaded(d) \in Stores /\ Recalled(Loaded(d)) = Recalled(Replay(d))
         /\ Loaded(d).nextSeq = Len(d) + 1 /\ Loaded(d).last = call.snap.index
         /\ Loaded(d).pending = NoSnapshot
<1>1. PICK s \in Replays, n \in Nat : s = Replay(d) /\ n = Len(d) + 1
  OBVIOUS
<1>2. s.ok = TRUE
  BY Zenon, <1>1 DEF Replays
<1>3. Loaded(d) = [ok |-> TRUE, term |-> s.term, vote |-> s.vote, commit |-> s.commit,
                   base |-> s.base, baseTerm |-> s.baseTerm, log |-> s.log,
                   nextSeq |-> n, last |-> call.snap.index, pending |-> NoSnapshot]
  BY Zenon, <1>1, <1>2 DEF Loaded, LoadedAs
<1>4. call.snap.index \in Nat
  BY Zenon DEF Images
<1>5. Loaded(d) \in Stores
  BY <1>3, <1>4, NoSnapshotType DEF Stores, Replays
<1> QED BY <1>1, <1>3, <1>5 DEF Recalled

\* Open reads what is durable and takes it as a whole, or the medium is damaged and it
\* refuses.
LEMMA ReadLogLog ==
  ASSUME LogInv, ReadLog
  PROVE  /\ LogInv' /\ file' = Synced(file) /\ StartsWith(file'.durable, file.durable)
         /\ damage = Nil => store' = Loaded(file'.durable) /\ call'.pc = "length"
         /\ damage # Nil => call'.pc = "refused"
         /\ call'.snap = call.snap
<1>1. call.pc = "read"
  BY Zenon DEF ReadLog, Ready
<1>2. /\ file \in Files /\ LogSound(file) /\ call \in Calls /\ world \in World
      /\ dir \in [path : Linked, synced : Linked]
  BY Zenon DEF LogInv, TypeOK
<1>3. file' = Synced(file)
  BY Zenon DEF ReadLog, FileBecomes, FilesBecome
<1>4. /\ file' \in Files /\ file'.pending = <<>> /\ LogSound(file')
      /\ StartsWith(file'.durable, file.durable)
  BY Zenon, <1>2, <1>3, SyncedSound
<1>5. file'.durable \in Seq(Records) /\ Len(file'.durable) \in Nat
  BY <1>4 DEF Files
<1>6. /\ dir' = dir /\ damage' = damage /\ world' = world
      /\ \A i \in 1 .. Len(file'.durable) : file'.durable[i].seq = i
      /\ Replay(file'.durable) \in Replays /\ Replay(file'.durable).ok
  BY Zenon, <1>4 DEF ReadLog, FileBecomes, FilesBecome, LogSound
<1> DEFINE read == Recover(Image(Synced(file).durable))
<1>7. IF read.ok
        THEN store' = Loaded(read.records) /\ call' = [Step("length") EXCEPT !.valid = Len(read.records)]
        ELSE call' = Step("refused") /\ UNCHANGED store
  BY Zenon DEF ReadLog
<1> HIDE DEF read
<1>8. CASE damage = Nil
  <2>1. read = [ok |-> TRUE, records |-> file'.durable]
    BY Zenon, <1>3, <1>5, <1>6, <1>8, RecoverSound DEF Image, read
  <2>2. /\ store' = Loaded(file'.durable)
        /\ call' = [Step("length") EXCEPT !.valid = Len(file'.durable)]
    BY Zenon, <1>7, <2>1
  <2>3. Step("length") \in Calls /\ Step("length").pc = "length" /\ Step("length").snap = call.snap
    BY Zenon, <1>2, StepOf DEF Pcs, Opening
  <2>4. /\ call' \in Calls /\ call'.pc = "length" /\ call'.valid = Len(file'.durable)
        /\ call'.snap = call.snap
    <3>1. PICK p \in Pcs, b \in Bodies \cup {Nil}, s \in Images, v \in Nat :
            Step("length") = [pc |-> p, body |-> b, snap |-> s, valid |-> v]
      BY <2>3, Zenon DEF Calls, Pcs
    <3>2. call' = [pc |-> p, body |-> b, snap |-> s, valid |-> Len(file'.durable)]
      BY <2>2, <3>1
    <3> QED BY <1>5, <2>3, <3>1, <3>2 DEF Calls, Pcs
  <2>5. call.snap \in Images
    BY Zenon, <1>2 DEF Calls
  <2>6. /\ store' \in Stores /\ Recalled(store') = Recalled(Replay(file'.durable))
        /\ store'.nextSeq = Len(file'.durable) + 1 /\ store'.pending = NoSnapshot
    BY Zenon, <1>5, <1>6, <2>2, <2>5, LoadedOf
  <2>7. TypeOK'
    BY Zenon, <1>2, <1>4, <1>6, <2>4, <2>6 DEF TypeOK
  <2>8. DamageSound'
    BY Zenon, <1>6, <1>8 DEF DamageSound
  <2>9. MemorySound'
    BY <1>4, <1>5, <2>4, <2>6 DEF MemorySound, Saving
  <2>10. CallSound'
    BY Zenon, <1>4, <2>4 DEF CallSound, Running, Saving
  <2> QED BY Zenon, <1>3, <1>4, <1>8, <2>2, <2>4, <2>7, <2>8, <2>9, <2>10 DEF LogInv
<1>9. CASE damage # Nil
  <2>1. /\ file.pending = <<>> /\ damage \in [at : 1 .. Len(file.durable), as : Records \cup {Bad}]
        /\ damage.as = Bad \/ damage.as.seq # damage.at
    BY <1>9, Zenon DEF LogInv, DamageSound
  <2>2. file' = file
    BY Zenon, <1>2, <1>3, <2>1, SyncedSound
  <2>11. PICK d \in Seq(Records \cup {Bad}) : d = file.durable
    BY <1>5, <2>2
  <2>3. PICK i \in 1 .. Len(d), r \in Records \cup {Bad} :
          damage.at = i /\ damage.as = r /\ (r = Bad \/ r.seq # i)
    BY Zenon, <2>1, <2>11
  <2>4. Image(file.durable) = [d EXCEPT ![i] = r]
    BY Zenon, <1>9, <2>3, <2>11 DEF Image
  <2>5. PICK image : image = [d EXCEPT ![i] = r]
    BY Zenon
  <2>6. Len(image) = Len(d) /\ image[i] = r
    BY <2>5, ExceptSeq
  <2>7. ~Recover(image).ok
    <3>1. ~Verified(image, i)
      BY Zenon, <2>3, <2>6 DEF Verified
    <3> QED BY <2>6, <3>1, RecoverDamaged
  <2>8. call' = Step("refused") /\ store' = store
    BY Zenon, <1>3, <1>7, <2>2, <2>4, <2>5, <2>7 DEF read
  <2>9. call' \in Calls /\ call'.pc = "refused" /\ call'.snap = call.snap
    BY Zenon, <1>2, <2>8, StepOf DEF Pcs
  <2>10. QuietCall
    BY Zenon, <1>2, <1>6, <2>1, <2>2, <2>9 DEF QuietCall, Running, Opening, Saving
  <2> QED BY Zenon, <1>3, <1>4, <1>9, <2>9, <2>10, QuietLog
<1> QED BY Zenon, <1>8, <1>9

\* The second length that wal.Open reads is that of the records it took: nothing is cut
\* off but a partial record.
LEMMA CheckLengthLog ==
  ASSUME LogInv, CheckLength
  PROVE  LogInv' /\ file'.durable = file.durable /\ file'.pending = <<>>
<1>1. call.pc = "length" /\ call.pc \in Opening
  BY Zenon DEF CheckLength, Ready, Opening
<1>2. file.pending = <<>> /\ call.valid = Len(file.durable) /\ LogSound(file)
  BY Zenon, <1>1 DEF LogInv, CallSound, Opening
<1>3. PICK d \in Seq(Records), q \in BOOLEAN : file = [durable |-> d, pending |-> <<>>, partial |-> q]
  <2>1. PICK d \in Seq(Records), p \in Seq(Records), q \in BOOLEAN :
          file = [durable |-> d, pending |-> p, partial |-> q]
    BY <1>1, OpenFacts, Zenon DEF Files
  <2> QED BY Zenon, <1>2, <2>1
<1>4. file' = [durable |-> d, pending |-> <<>>, partial |-> FALSE]
  <2>1. file' = Truncated(Synced(file), Len(d))
    BY Zenon, <1>2, <1>3 DEF CheckLength, FileBecomes, FilesBecome
  <2>2. Synced(file) = [durable |-> d, pending |-> <<>>, partial |-> q]
    BY Zenon, <1>1, <1>2, <1>3, OpenFacts, SyncedSound
  <2>3. PICK e : e = SubSeq(d, 1, Len(d))
    BY Zenon
  <2>4. e = d
    BY <2>3
  <2>5. file' = [Synced(file) EXCEPT !.durable = e, !.partial = FALSE]
    BY <2>1, <2>2, <2>3 DEF Truncated
  <2>6. file' = [[durable |-> d, pending |-> <<>>, partial |-> q] EXCEPT !.durable = e, !.partial = FALSE]
    BY <2>2, <2>5, Zenon
  <2> QED BY Zenon, <2>4, <2>6
<1>5. call' \in Calls /\ call'.pc = "replay" /\ call'.valid = call.valid
  BY Zenon, <1>1, OpenFacts, StepOf DEF CheckLength, Pcs, Opening
<1>6. /\ file' \in Files /\ file'.durable = file.durable /\ file'.pending = <<>> /\ ~file'.partial
      /\ file.durable = d
  BY <1>3, <1>4 DEF Files
<1>7. store' = store /\ damage' = damage /\ world' = world /\ dir' = dir
  BY Zenon DEF CheckLength, FileBecomes, FilesBecome
<1>8. TypeOK'
  BY Zenon, <1>1, <1>5, <1>6, <1>7, OpenFacts DEF TypeOK
<1>9. LogSound(file)'
  BY <1>2, <1>6 DEF LogSound
<1>10. DamageSound'
  BY Zenon, <1>1, <1>7, OpenFacts DEF DamageSound
<1>11. MemorySound'
  BY Zenon, <1>1, <1>2, <1>5, <1>6, <1>7 DEF LogInv, MemorySound, Saving
<1>12. CallSound'
  BY Zenon, <1>2, <1>5, <1>6 DEF CallSound, Running, Saving
<1> QED BY Zenon, <1>6, <1>8, <1>9, <1>10, <1>11, <1>12 DEF LogInv

\* What a power loss leaves of the file.
LEMMA SurvivorSound ==
  ASSUME LogInv, NEW k \in 0 .. Len(file.pending), NEW cut \in BOOLEAN
  PROVE  /\ Survivor(k, cut) \in Files /\ Survivor(k, cut).pending = <<>>
         /\ \/ Survivor(k, cut).durable = file.durable
            \/ file.pending # <<>> /\ Survivor(k, cut).durable = file.durable \o file.pending
<1>1. PICK d \in Seq(Records), p \in Seq(Records), q \in BOOLEAN :
        file = [durable |-> d, pending |-> p, partial |-> q]
  BY Zenon DEF LogInv, TypeOK, Files
<1>2. file.durable = d /\ file.pending = p /\ file.partial = q /\ Len(p) \in Nat /\ k \in 0 .. Len(p)
  BY <1>1
<1>3. p # <<>> => Len(p) = 1
  BY Zenon, <1>2 DEF LogInv, LogSound
<1>4. PICK e : e = d \o SubSeq(p, 1, k)
  BY Zenon
<1>5. e \in Seq(Records) /\ (e = d \/ (p # <<>> /\ e = d \o p))
  <2>1. CASE k = 0
    <3>1. SubSeq(p, 1, 0) = <<>>
      BY SubSeqEmpty
    <3> QED BY Zenon, <1>4, <2>1, <3>1, ConcatEmptySeq
  <2>2. CASE k # 0
    <3>1. p # <<>>
      BY <1>2, <2>2
    <3>2. Len(p) = 1 /\ k = Len(p)
      <4>1. PICK n \in Nat : n = Len(p) /\ k \in 0 .. n
        BY Zenon, <1>2
      <4>2. n = 1
        BY Zenon, <1>3, <3>1, <4>1
      <4> QED BY <2>2, <4>1, <4>2
    <3>3. SubSeq(p, 1, Len(p)) = p
      OBVIOUS
    <3> QED BY Zenon, <1>4, <3>1, <3>2, <3>3, ConcatProperties
  <2> QED BY Zenon, <2>1, <2>2
<1>6. PICK c \in BOOLEAN : Survivor(k, cut) = [durable |-> e, pending |-> <<>>, partial |-> c]
  <2>1. PICK c \in BOOLEAN : c = (cut /\ (k < Len(p) \/ q))
    BY Zenon
  <2> QED BY Zenon, <1>2, <1>4, <2>1 DEF Survivor
<1> QED BY <1>2, <1>5, <1>6 DEF Files

LEMMA PowerLossLog ==
  ASSUME LogInv, PowerLoss
  PROVE  /\ LogInv' /\ StartsWith(file'.durable, file.durable) /\ call'.pc = "closed"
         /\ \/ file'.durable = file.durable
            \/ file.pending # <<>> /\ file'.durable = file.durable \o file.pending
         /\ \E image \in {dir.path, dir.synced} : dir' = [path |-> image, synced |-> image]
         /\ file'.pending = <<>>
<1>1. /\ file \in Files /\ LogSound(file) /\ world \in World
      /\ dir.path \in Linked /\ dir.synced \in Linked
  BY Zenon DEF LogInv, TypeOK
<1>2. PICK k \in 0 .. Len(file.pending), cut \in BOOLEAN, image \in {dir.path, dir.synced} :
        \E left \in Survives(image) : FilesBecome(Survivor(k, cut), [path |-> left, synced |-> left])
  BY Zenon DEF PowerLoss
<1>3. file' = Survivor(k, cut) /\ dir' = [path |-> image, synced |-> image]
  <2>1. image.safe
    BY Zenon, <1>1 DEF Linked
  <2> QED BY Zenon, <1>2, <2>1 DEF Survives, FilesBecome
<1>4. /\ file' \in Files /\ file'.pending = <<>>
      /\ \/ file'.durable = file.durable
         \/ file.pending # <<>> /\ file'.durable = file.durable \o file.pending
  BY Zenon, <1>3, SurvivorSound
<1>5. LogSound(file') /\ StartsWith(file'.durable, file.durable)
  BY Zenon, <1>1, <1>4, SettledSound
<1>6. call' \in Calls /\ call'.pc = "closed" /\ world' = world
  <2>1. call' = Start("closed", Nil, NoSnapshot) /\ world' = world
    BY Zenon DEF PowerLoss, Down, Closed
  <2>2. "closed" \in Pcs /\ Nil \in Bodies \cup {Nil} /\ NoSnapshot \in Images
    BY Zenon, NoSnapshotType DEF Pcs
  <2>3. Start("closed", Nil, NoSnapshot) \in Calls /\ Start("closed", Nil, NoSnapshot).pc = "closed"
    BY <2>2, StartOf
  <2> QED BY Zenon, <2>1, <2>3
<1>7. TypeOK'
  BY Zenon, <1>1, <1>2, <1>3, <1>4, <1>6 DEF TypeOK, Running, Opening, Saving
<1>8. DamageSound'
  <2> SUFFICES ASSUME damage' # Nil
               PROVE  /\ damage' \in [at : 1 .. Len(file'.durable), as : Records \cup {Bad}]
                      /\ damage'.as = Bad \/ damage'.as.seq # damage'.at
    BY Zenon, <1>4, <1>6 DEF DamageSound
  <2>1. damage' = damage \/ (damage = Nil /\ damage' \in Damages(file'.durable))
    BY Zenon DEF PowerLoss
  <2>2. CASE damage' = damage
    <3>1. /\ file.pending = <<>> /\ damage \in [at : 1 .. Len(file.durable), as : Records \cup {Bad}]
          /\ damage.as = Bad \/ damage.as.seq # damage.at
      BY <2>2, Zenon DEF LogInv, DamageSound
    <3> QED BY Zenon, <1>4, <2>2, <3>1
  <2>3. CASE damage' \in Damages(file'.durable)
    <3>1. PICK d \in Seq(Records) : d = file'.durable /\ \A i \in 1 .. Len(d) : d[i].seq = i
      BY Zenon, <1>4, <1>5 DEF Files, LogSound
    <3>2. DOMAIN d = 1 .. Len(d) /\ \A i \in 1 .. Len(d) : d[i] \in Records
      BY Zenon, LenProperties, ElementOfSeq
    <3>3. CASE \E i \in DOMAIN d : damage' = [at |-> i, as |-> Bad]
      BY <3>1, <3>2, <3>3
    <3>4. CASE \E i \in DOMAIN d : \E j \in DOMAIN d \ {i} : damage' = [at |-> i, as |-> d[j]]
      <4>1. PICK i \in 1 .. Len(d), j \in 1 .. Len(d) : i # j /\ damage' = [at |-> i, as |-> d[j]]
        BY Zenon, <3>2, <3>4
      <4>2. d[j] \in Records /\ d[j].seq = j
        BY Zenon, <3>1, <3>2
      <4> QED BY Zenon, <3>1, <4>1, <4>2
    <3> QED BY <2>3, <3>1, <3>3, <3>4, ZenonT(60) DEF Damages
  <2> QED BY Zenon, <2>1, <2>2, <2>3
<1>9. MemorySound' /\ CallSound'
  BY Zenon, <1>6 DEF MemorySound, CallSound, Running, Opening, Saving
<1> QED BY Zenon, <1>2, <1>3, <1>4, <1>5, <1>6, <1>7, <1>8, <1>9 DEF LogInv

-----------------------------------------------------------------------------
(***************************************************************************)
(* The theorems.                                                           *)
(***************************************************************************)

LEMMA InitLog == Init => LogInv
<1> SUFFICES ASSUME Init PROVE LogInv
  BY Zenon
<1>1. call \in Calls /\ call.pc = "closed"
  <2>1. call = Start("closed", Nil, NoSnapshot)
    BY Zenon DEF Init, Closed
  <2>2. "closed" \in Pcs /\ Nil \in Bodies \cup {Nil} /\ NoSnapshot \in Images
    BY Zenon, NoSnapshotType DEF Pcs
  <2>3. Start("closed", Nil, NoSnapshot) \in Calls /\ Start("closed", Nil, NoSnapshot).pc = "closed"
    BY <2>2, StartOf
  <2> QED BY Zenon, <2>1, <2>3
<1>2. file \in Files /\ file.durable = <<>> /\ file.pending = <<>>
  BY DEF Init, Files
<1>3. dir \in [path : Linked, synced : Linked]
  BY Zenon, NoSnapshotType DEF Init, Missing, Linked
<1>4. TypeOK
  BY Zenon, <1>1, <1>2, <1>3 DEF Init, TypeOK, Running, Opening, Saving
<1>5. Empty \in Replays /\ Empty.ok
  BY DEF Empty, Replays
<1>6. LogSound(file)
  BY <1>2, <1>5, ReplayEmpty DEF LogSound
<1>7. DamageSound /\ MemorySound /\ CallSound
  BY Zenon, <1>1 DEF Init, DamageSound, MemorySound, CallSound, Running, Opening, Saving
<1> QED BY Zenon, <1>4, <1>6, <1>7 DEF LogInv

LEMMA Same ==
  ASSUME file \in Files, file' = file
  PROVE  StartsWith(file'.durable, file.durable)
BY DEF StartsWith, Files

\* Every step keeps the invariant of the log, and what is durable.
LEMMA NextLog ==
  ASSUME LogInv, [Next]_vars
  PROVE  LogInv' /\ StartsWith(file'.durable, file.durable)
<1>1. file \in Files
  BY Zenon DEF LogInv, TypeOK
<1>2. CASE SaveHardState
  BY Zenon, <1>1, <1>2, SaveHardStateLog, Same DEF SaveHardState, files
<1>3. CASE StoreAppend
  BY Zenon, <1>1, <1>3, StoreAppendLog, Same DEF StoreAppend, files
<1>4. CASE SaveSnapshot
  BY Zenon, <1>1, <1>4, SaveSnapshotLog, Same DEF SaveSnapshot, files
<1>5. CASE CompactLog
  BY Zenon, <1>1, <1>5, CompactLogLog, Same DEF CompactLog, files
<1>6. CASE WriteRecord
  <2>1. file'.durable = file.durable
    <3>1. PICK d, p, q : file = [durable |-> d, pending |-> p, partial |-> q]
      BY <1>1, Zenon DEF Files
    <3>2. \E e : file' = [file EXCEPT !.pending = e]
      BY <1>6, Zenon DEF WriteRecord, FileBecomes, FilesBecome
    <3> QED BY Zenon, <3>1, <3>2
  <2> QED BY <1>1, <1>6, <2>1, WriteRecordLog DEF StartsWith, Files
<1>7. CASE SyncRecord
  BY Zenon, <1>7, SyncRecordLog
<1>8. CASE WriteFails
  BY <1>1, <1>8, WriteFailsLog DEF StartsWith, Files
<1>9. CASE WriteTmp
  BY Zenon, <1>1, <1>9, WriteTmpLog, Same DEF WriteTmp, files
<1>10. CASE SyncTmp
  BY Zenon, <1>1, <1>10, SyncTmpLog, Same DEF SyncTmp, files
<1>11. CASE Rename
  BY Zenon, <1>1, <1>11, RenameLog, Same DEF Rename, DirBecomes, FilesBecome
<1>12. CASE SyncDirectory
  BY Zenon, <1>1, <1>12, SyncDirectoryLog, Same DEF SyncDirectory, DirBecomes, FilesBecome
<1>13. CASE SaveFails
  BY Zenon, <1>1, <1>13, SaveFailsLog, Same DEF SaveFails, files
<1>14. CASE OpenSnapshot
  BY Zenon, <1>1, <1>14, OpenSnapshotLog, Same DEF OpenSnapshot, files
<1>15. CASE ReadLog
  BY Zenon, <1>15, ReadLogLog
<1>16. CASE CheckLength
  BY <1>1, <1>16, CheckLengthLog DEF StartsWith, Files
<1>17. CASE FinishOpen
  BY Zenon, <1>1, <1>17, FinishOpenLog, Same DEF FinishOpen, files
<1>18. CASE Kill
  BY Zenon, <1>1, <1>18, KillLog, Same DEF Kill, files
<1>19. CASE PowerLoss
  BY Zenon, <1>19, PowerLossLog
<1>20. CASE UNCHANGED vars
  <2>1. LogInv'
    BY ZenonT(60), <1>20
       DEF vars, files, LogInv, TypeOK, LogSound, DamageSound, MemorySound, CallSound
  <2> QED BY Zenon, <1>1, <1>20, <2>1, Same DEF vars, files
<1> QED
  BY <1>2, <1>3, <1>4, <1>5, <1>6, <1>7, <1>8, <1>9, <1>10, <1>11, <1>12, <1>13, <1>14, <1>15,
     <1>16, <1>17, <1>18, <1>19, <1>20, Zenon DEF Next

\* In every world, with any number of crashes and failing writes: the durable records are
\* numbered and replay without an error, and the memory of an open store is what they
\* say (raftwal, wal.Open, wal.Recover).
THEOREM LogInvariant == Spec => []LogInv
<1>1. LogInv /\ [Next]_vars => LogInv'
  BY Zenon, NextLog
<1> QED BY <1>1, InitLog, PTL DEF Spec

\* Nothing that Sync has made durable is ever removed from the WAL, as long as reads do
\* not fail: the truncation in wal.Open cuts off a torn tail and no more.
THEOREM DurableNeverErased == Spec => NothingErased
<1>1. LogInv /\ [Next]_vars => [StartsWith(file'.durable, file.durable)]_file
  BY Zenon, NextLog
<1> QED BY <1>1, LogInvariant, PTL DEF Spec, NothingErased

\* A store whose medium yields a damaged or a misplaced record does not open
\* (wal.Recover).
THEOREM DamageAlwaysRefused == Spec => []DamageRefused
<1>1. LogInv => DamageRefused
  BY Zenon DEF LogInv, DamageSound, DamageRefused
<1> QED BY <1>1, LogInvariant, PTL

-----------------------------------------------------------------------------
(***************************************************************************)
(* The snapshot.                                                           *)
(***************************************************************************)

LEMMA HoldsFields ==
  ASSUME NEW s, NEW snap
  PROVE  /\ Holds(s, snap).base = s.base /\ Holds(s, snap).snap = snap
         /\ Holds(s, snap).log = s.log /\ Holds(s, snap).baseTerm = s.baseTerm
         /\ Recalled(Holds(s, snap)) = Recalled(s)
BY Zenon DEF Holds, Recalled

LEMMA LinkedFields ==
  ASSUME LogInv
  PROVE  /\ dir.path \in Linked /\ dir.synced \in Linked
         /\ dir.path.snap \in Images /\ dir.path.snap.index \in Nat /\ dir.path.snap.term \in Nat
         /\ dir.synced.snap \in Images /\ dir.synced.snap.index \in Nat
         /\ Kept \in Images /\ Kept.index \in Nat /\ Kept.term \in Nat
         /\ Replay(file.durable).base \in Nat
<1>1. dir.path \in Linked /\ dir.synced \in Linked /\ Replay(file.durable) \in Replays
  BY Zenon DEF LogInv, TypeOK, LogSound
<1>2. dir.path.snap \in Images /\ dir.synced.snap \in Images /\ Replay(file.durable).base \in Nat
  BY Zenon, <1>1 DEF Linked, Replays
<1>3. Kept \in Images
  BY Zenon, <1>2 DEF Kept
<1>4. \A image \in Images : image.index \in Nat /\ image.term \in Nat
  BY Zenon DEF Images
<1> QED BY Zenon, <1>1, <1>2, <1>3, <1>4

\* Except between a rename and the sync of the directory, the snapshot at the path is
\* the one that a crash leaves.
LEMMA KeptAtPath ==
  ASSUME SnapshotInv, call.pc \notin {"dirsync", "failed"} \/ file.pending # <<>>
  PROVE  Kept = dir.path.snap /\ (world.powerLoss => dir.path = dir.synced)
<1>1. world.powerLoss => dir.path = dir.synced
  BY Zenon DEF SnapshotInv, LinkSound
<1> QED BY Zenon, <1>1 DEF Kept

LEMMA OpenAt ==
  ASSUME SnapshotInv, call.pc \in Running \cup Opening
  PROVE  /\ store.base = disk.base /\ store.base \in Nat /\ store.base <= Kept.index
         /\ disk.base = Replay(file.durable).base
         /\ LastIndex(store) = disk.base + Len(disk.log) /\ disk.snap = Kept
         /\ Recalled(store) = Recalled(disk)
<1>1. disk = Holds(Replay(file.durable), Kept) /\ disk.base <= Kept.index
  BY Zenon DEF SnapshotInv, FilesSound, DiskSound
<1>2. Recalled(store) = Recalled(Replay(file.durable)) /\ store.base \in Nat
  BY Zenon, OpenFacts DEF SnapshotInv
<1>3. PICK s : s = Replay(file.durable)
  BY Zenon
<1>4. store.base = s.base /\ store.log = s.log
  BY Zenon, <1>2, <1>3, SameRecalled
<1>5. disk.base = s.base /\ disk.log = s.log /\ disk.snap = Kept /\ Recalled(disk) = Recalled(s)
  BY Zenon, <1>1, <1>3, HoldsFields
<1> QED BY Zenon, <1>1, <1>2, <1>3, <1>4, <1>5 DEF LastIndex

\* With nothing left to fence, the log begins at the snapshot.
LEMMA Fenced ==
  ASSUME SnapshotInv, call.pc = "idle", store.pending = NoSnapshot
  PROVE  store.base = store.last
<1>1. call.pc \in Running /\ call.pc # "dirsync" /\ call.pc # "failed"
  BY Zenon DEF Running
<1>2. CASE store.base = store.last
  BY Zenon, <1>2
<1>3. CASE store.pending = dir.path.snap
  <2>1. Kept.index = 0 /\ dir.path.snap.index = 0
    BY Zenon, <1>1, <1>3, KeptAtPath, NoSnapshotType
  <2>2. store.base = 0
    BY <1>1, <2>1, OpenAt
  <2>3. store.last = dir.path.snap.index
    BY <1>1, Zenon DEF SnapshotInv, FencesSound
  <2> QED BY Zenon, <2>1, <2>2, <2>3
<1> QED BY <1>2, <1>3, Zenon DEF SnapshotInv, FencesSound

LEMMA FilesStay ==
  ASSUME SnapshotInv, UNCHANGED <<file, dir, disk, world>>
  PROVE  FilesSound' /\ Kept' = Kept
BY Zenon DEF SnapshotInv, FilesSound, DiskSound, AtKept, Kept

-----------------------------------------------------------------------------
(***************************************************************************)
(* Each step keeps the invariant.                                          *)
(***************************************************************************)

\* A call begins with a record that is not a fence.
LEMMA StartSnapshot ==
  ASSUME SnapshotInv, LogInv', call.pc = "idle", store.pending = NoSnapshot,
         call'.pc = "write", call'.body.kind \notin Fences,
         UNCHANGED <<file, dir, disk, world, store, damage>>
  PROVE  SnapshotInv'
<1>1. FilesSound' /\ call.pc \in Running
  BY Zenon, FilesStay DEF Running
<1>2. store.base = store.last /\ store.last = dir.path.snap.index
  <2>1. store.last = dir.path.snap.index
    BY <1>1, Zenon DEF SnapshotInv, FencesSound
  <2> QED BY Zenon, <2>1, Fenced
<1>3. FencesSound'
  BY Zenon, <1>2 DEF FencesSound, AtKept, Opening, Saving
<1>4. SnapshotSound'
  BY Zenon DEF SnapshotSound, Opening
<1>5. LinkSound'
  BY Zenon DEF SnapshotInv, LinkSound
<1> QED BY Zenon, <1>1, <1>3, <1>4, <1>5 DEF SnapshotInv

LEMMA SaveHardStateSnapshot ==
  ASSUME SnapshotInv, SaveHardState
  PROVE  SnapshotInv'
<1>1. PICK h : call' = Start("write", HardState(h[1], h[2], h[3]), NoSnapshot)
  BY Zenon DEF SaveHardState
<1>2. call'.pc = "write" /\ call'.body.kind \notin Fences
  BY Zenon, <1>1 DEF Start, HardState, Fences
<1>3. LogInv'
  BY Zenon, SaveHardStateLog DEF SnapshotInv
<1> QED BY Zenon, <1>2, <1>3, StartSnapshot DEF SaveHardState, Callable, Ready, files

LEMMA StoreAppendSnapshot ==
  ASSUME SnapshotInv, StoreAppend
  PROVE  SnapshotInv'
<1>1. PICK k, e : call' = Start("write", LogEntry(k, e), NoSnapshot)
  BY Zenon DEF StoreAppend
<1>2. call'.pc = "write" /\ call'.body.kind \notin Fences
  BY Zenon, <1>1 DEF Start, LogEntry, Fences
<1>3. LogInv'
  BY Zenon, StoreAppendLog DEF SnapshotInv
<1> QED BY Zenon, <1>2, <1>3, StartSnapshot DEF StoreAppend, Callable, Ready, files

LEMMA SaveSnapshotSnapshot ==
  ASSUME SnapshotInv, SaveSnapshot
  PROVE  SnapshotInv'
<1>1. /\ call.pc = "idle" /\ call.pc \in Running /\ store.pending = NoSnapshot
      /\ UNCHANGED <<file, dir, disk, world, store, damage>>
  BY Zenon DEF SaveSnapshot, Callable, Ready, Running, files
<1>2. call'.pc = "tmp"
  <2>1. PICK k, t : call' = Start("tmp", Nil, Image0(k, t))
    BY Zenon DEF SaveSnapshot
  <2> QED BY Zenon, <2>1 DEF Start
<1>3. LogInv' /\ FilesSound'
  BY Zenon, <1>1, SaveSnapshotLog, FilesStay DEF SnapshotInv
<1>4. store.base = store.last /\ store.last = dir.path.snap.index
  <2>1. store.last = dir.path.snap.index
    BY <1>1, Zenon DEF SnapshotInv, FencesSound
  <2> QED BY Zenon, <1>1, <2>1, Fenced
<1>5. FencesSound'
  BY Zenon, <1>1, <1>2, <1>4 DEF FencesSound, Opening
<1>6. SnapshotSound'
  BY Zenon, <1>2 DEF SnapshotSound, Opening
<1>7. LinkSound'
  BY Zenon, <1>1, <1>2 DEF SnapshotInv, LinkSound
<1> QED BY Zenon, <1>3, <1>5, <1>6, <1>7 DEF SnapshotInv

LEMMA CompactLogSnapshot ==
  ASSUME SnapshotInv, CompactLog
  PROVE  SnapshotInv'
<1>1. /\ call.pc = "idle" /\ call.pc \in Running /\ store.pending # NoSnapshot
      /\ UNCHANGED <<file, dir, disk, world, store, damage>>
  BY Zenon DEF CompactLog, Ready, Running, files
<1>2. store.pending = dir.path.snap /\ store.last = dir.path.snap.index
  BY <1>1, Zenon DEF SnapshotInv, FencesSound
<1>3. /\ call'.pc = "write" /\ call'.body.kind \in Fences
      /\ call'.body.index = store.pending.index /\ call'.body.term = store.pending.term
  BY Zenon DEF CompactLog, Start, FenceFor, Fence, Fences
<1>4. Kept = dir.path.snap
  BY Zenon, <1>1, KeptAtPath
<1>5. LogInv' /\ FilesSound' /\ Kept' = Kept
  BY Zenon, <1>1, CompactLogLog, FilesStay DEF SnapshotInv
<1>6. FencesSound'
  BY Zenon, <1>1, <1>2, <1>3, <1>4, <1>5 DEF FencesSound, AtKept, Opening, Saving
<1>7. SnapshotSound'
  BY Zenon, <1>3 DEF SnapshotSound, Opening
<1>8. LinkSound'
  BY Zenon, <1>1, <1>3 DEF SnapshotInv, LinkSound
<1> QED BY Zenon, <1>5, <1>6, <1>7, <1>8 DEF SnapshotInv


\* The history variable follows the files.
LEMMA DiskFollows ==
  ASSUME NEW f, NEW d, FilesBecome(f, d), world' = world
  PROVE  file' = f /\ dir' = d /\ disk' = Holds(Replay(file'.durable), Kept')
BY Zenon DEF FilesBecome, Kept

LEMMA WriteRecordSnapshot ==
  ASSUME SnapshotInv, WriteRecord
  PROVE  SnapshotInv'
<1>1. call.pc = "write" /\ call.pc \in Running /\ world' = world /\ dir' = dir /\ damage' = damage
  BY Zenon DEF WriteRecord, Ready, Running, FileBecomes, FilesBecome
<1>2. LogInv'
  BY Zenon, WriteRecordLog DEF SnapshotInv
<1>3. file'.durable = file.durable
  <2>1. PICK d, p, q : file = [durable |-> d, pending |-> p, partial |-> q]
    BY Zenon DEF SnapshotInv, LogInv, TypeOK, Files
  <2>2. \E e : file' = [file EXCEPT !.pending = e]
    BY Zenon DEF WriteRecord, FileBecomes, FilesBecome
  <2> QED BY Zenon, <2>1, <2>2
<1>4. disk' = disk /\ Kept' = Kept
  <2>1. disk' = Holds(Replay(file'.durable), Kept')
    BY <1>1, DiskFollows, Zenon DEF WriteRecord, FileBecomes
  <2>2. Kept' = Kept
    BY Zenon, <1>1 DEF Kept
  <2> QED BY Zenon, <1>3, <2>1, <2>2 DEF SnapshotInv, FilesSound, DiskSound
<1>5. call'.pc = "sync" /\ call'.body = call.body
  BY Zenon, <1>1, OpenFacts, StepOf DEF WriteRecord, Pcs, Running, SnapshotInv
<1>6. call.body \in Bodies /\ AtKept(call.body)
  BY Zenon, <1>1 DEF SnapshotInv, LogInv, TypeOK, FencesSound
<1>7. file'.pending[1].body = call.body
  <2>1. file'.pending = <<Record(Len(file'.durable) + 1, call'.body)>>
    BY Zenon, <1>2, <1>5 DEF LogInv, CallSound
  <2> QED BY <1>5, <2>1 DEF Record
<1>8. FilesSound'
  BY Zenon, <1>1, <1>3, <1>4, <1>6, <1>7 DEF SnapshotInv, FilesSound, DiskSound, AtKept
<1>9. store'.last = store.last /\ store'.pending = store.pending /\ store'.base = store.base
  <2>1. store' = [store EXCEPT !.nextSeq = store.nextSeq + 1] /\ store \in Stores
    BY Zenon, <1>1, OpenFacts DEF WriteRecord, SnapshotInv
  <2>2. store = StoreTyped(store)
    BY <2>1, Zenon DEF Stores, StoreTyped
  <2>3. PICK m, t : t = store /\ m = store.nextSeq + 1
    BY Zenon
  <2>4. t = StoreTyped(t) /\ store' = [t EXCEPT !.nextSeq = m]
    BY Zenon, <2>1, <2>2, <2>3
  <2>5. store' = [StoreTyped(t) EXCEPT !.nextSeq = m]
    BY <2>4, Zenon
  <2> QED BY Zenon, <2>3, <2>5 DEF StoreTyped
<1>10. FencesSound'
  <2>1. /\ store.last = dir.path.snap.index
        /\ call.body.kind \notin Fences => store.pending = NoSnapshot /\ store.base = store.last
    BY <1>1, Zenon DEF SnapshotInv, FencesSound
  <2> QED BY Zenon, <1>1, <1>4, <1>5, <1>6, <1>9, <2>1 DEF FencesSound, AtKept, Opening, Saving
<1>11. SnapshotSound'
  BY Zenon, <1>5 DEF SnapshotSound, Opening
<1>12. LinkSound'
  BY Zenon, <1>1 DEF SnapshotInv, LinkSound
<1> QED BY Zenon, <1>2, <1>8, <1>10, <1>11, <1>12 DEF SnapshotInv

\* A record that becomes durable keeps the fence at the snapshot.
LEMMA GrownBase ==
  ASSUME LogInv, Replay(file.durable).base <= Kept.index, NEW body, AtKept(body)
  PROVE  Grown(Replay(file.durable), body).base <= Kept.index
<1>1. Kept.index \in Nat
  BY Zenon, LinkedFields
<1> QED BY <1>1 DEF Grown, AtKept

LEMMA SyncRecordSnapshot ==
  ASSUME SnapshotInv, SyncRecord
  PROVE  SnapshotInv'
<1>1. /\ call.pc = "sync" /\ call.pc \in Running /\ world' = world /\ dir' = dir /\ damage' = damage
      /\ call.pc \notin {"dirsync", "failed"}
  BY Zenon DEF SyncRecord, Ready, Running, FileBecomes, FilesBecome
<1>2. /\ LogInv' /\ call.body \in Bodies /\ file'.pending = <<>>
      /\ Replay(file'.durable) = Grown(Replay(file.durable), call.body)
      /\ store' = RememberedAs(store, call.body)
  BY Zenon, SyncRecordLog DEF SnapshotInv
<1>3. /\ AtKept(call.body) /\ store.last = dir.path.snap.index
      /\ call.body.kind \notin Fences => store.pending = NoSnapshot /\ store.base = store.last
  BY <1>1, Zenon DEF SnapshotInv, FencesSound
<1>4. disk' = Holds(Replay(file'.durable), Kept') /\ Kept' = Kept
  <2>1. disk' = Holds(Replay(file'.durable), Kept')
    BY <1>1, DiskFollows, Zenon DEF SyncRecord, FileBecomes
  <2> QED BY Zenon, <1>1, <2>1 DEF Kept
<1>5. call'.pc = "idle"
  BY Zenon DEF SyncRecord, Idle, Start
<1>6. FilesSound'
  <2>1. Grown(Replay(file.durable), call.body).base <= Kept.index
    BY Zenon, <1>1, <1>3, OpenAt, GrownBase DEF SnapshotInv
  <2>2. disk'.base = Grown(Replay(file.durable), call.body).base
    BY <1>2, <1>4, HoldsFields
  <2>3. Kept'.index <= dir'.path.snap.index
    BY Zenon, <1>1, <1>4 DEF SnapshotInv, FilesSound, DiskSound
  <2> QED BY Zenon, <1>2, <1>4, <2>1, <2>2, <2>3 DEF FilesSound, DiskSound
<1>7. FencesSound'
  <2>1. Kept = dir.path.snap
    BY Zenon, <1>1, KeptAtPath
  <2>2. store'.last = dir'.path.snap.index
    BY Zenon, <1>1, <1>2, <1>3 DEF RememberedAs
  <2>3. store'.pending = NoSnapshot /\ store'.base = store'.last
    BY Zenon, <1>2, <1>3, <2>1 DEF RememberedAs, AtKept
  <2> QED BY Zenon, <1>5, <2>2, <2>3 DEF FencesSound, Opening, Saving
<1>8. SnapshotSound'
  BY Zenon, <1>5 DEF SnapshotSound, Opening
<1>9. LinkSound'
  BY Zenon, <1>1, <1>2 DEF SnapshotInv, LinkSound
<1> QED BY Zenon, <1>2, <1>6, <1>7, <1>8, <1>9 DEF SnapshotInv

LEMMA WriteFailsSnapshot ==
  ASSUME SnapshotInv, WriteFails
  PROVE  SnapshotInv'
<1>1. /\ call.pc \in Running /\ call.pc \notin {"dirsync", "failed"}
      /\ world' = world /\ dir' = dir /\ damage' = damage
  BY Zenon DEF WriteFails, Running, FileBecomes, FilesBecome
<1>2. LogInv' /\ file'.durable = file.durable /\ file'.pending = file.pending
  BY Zenon, WriteFailsLog DEF SnapshotInv
<1>3. disk' = disk /\ Kept' = Kept
  <2>1. disk' = Holds(Replay(file'.durable), Kept')
    BY <1>1, DiskFollows, Zenon DEF WriteFails, FileBecomes
  <2>2. Kept' = Kept
    BY Zenon, <1>1 DEF Kept
  <2> QED BY Zenon, <1>2, <2>1, <2>2 DEF SnapshotInv, FilesSound, DiskSound
<1>4. call'.pc = "failed"
  BY Zenon, <1>1, OpenFacts, StepOf DEF WriteFails, Pcs, SnapshotInv
<1>5. FilesSound'
  BY Zenon, <1>1, <1>2, <1>3 DEF SnapshotInv, FilesSound, DiskSound, AtKept
<1>6. FencesSound' /\ SnapshotSound'
  BY Zenon, <1>4 DEF FencesSound, SnapshotSound, Running, Opening, Saving
<1>7. LinkSound'
  BY Zenon, <1>1, <1>2 DEF SnapshotInv, LinkSound
<1> QED BY Zenon, <1>2, <1>5, <1>6, <1>7 DEF SnapshotInv


\* A step of Save before the rename.
LEMMA SavingSnapshot ==
  ASSUME SnapshotInv, LogInv', call.pc \in {"tmp", "tmpsync"},
         call'.pc \in {"tmpsync", "rename"}, tmp'.snap = call'.snap,
         UNCHANGED <<file, dir, disk, world, store, damage>>
  PROVE  SnapshotInv'
<1>1. FilesSound'
  BY Zenon, FilesStay
<1>2. store.last = dir.path.snap.index /\ store.pending = NoSnapshot /\ store.base = store.last
  <2>1. call.pc \in Running \ {"dirsync"} /\ call.pc \in Saving
    BY Zenon DEF Running, Saving
  <2> QED BY <2>1, Zenon DEF SnapshotInv, FencesSound
<1>3. FencesSound'
  BY Zenon, <1>2 DEF FencesSound, Opening
<1>4. SnapshotSound'
  BY Zenon DEF SnapshotSound, Opening
<1>5. LinkSound'
  BY Zenon DEF SnapshotInv, LinkSound
<1> QED BY Zenon, <1>1, <1>3, <1>4, <1>5 DEF SnapshotInv

LEMMA WriteTmpSnapshot ==
  ASSUME SnapshotInv, WriteTmp
  PROVE  SnapshotInv'
<1>1. /\ call.pc = "tmp" /\ call.pc \in Running
      /\ UNCHANGED <<file, dir, disk, world, store, damage>>
  BY Zenon DEF WriteTmp, Ready, Running, Saving, files
<1>2. call'.pc = "tmpsync" /\ call'.snap = call.snap
  BY Zenon, <1>1, OpenFacts, StepOf DEF WriteTmp, Pcs, Running, Saving, SnapshotInv
<1>3. LogInv' /\ tmp'.snap = call.snap
  BY Zenon, WriteTmpLog DEF SnapshotInv, WriteTmp
<1> QED BY Zenon, <1>1, <1>2, <1>3, SavingSnapshot

LEMMA SyncTmpSnapshot ==
  ASSUME SnapshotInv, SyncTmp
  PROVE  SnapshotInv'
<1>1. /\ call.pc = "tmpsync" /\ call.pc \in Running
      /\ UNCHANGED <<file, dir, disk, world, store, damage>>
  BY Zenon DEF SyncTmp, Ready, Running, Saving, files
<1>2. call'.pc = "rename" /\ call'.snap = call.snap
  BY Zenon, <1>1, OpenFacts, StepOf DEF SyncTmp, Pcs, Running, Saving, SnapshotInv
<1>3. tmp'.snap = tmp.snap
  <2>1. PICK s, b : tmp = [snap |-> s, safe |-> b]
    <3>1. tmp \in [snap : Images, safe : BOOLEAN]
      BY Zenon, <1>1 DEF SnapshotInv, LogInv, TypeOK
    <3> QED BY <3>1, Zenon
  <2>2. tmp' = [tmp EXCEPT !.safe = TRUE]
    BY Zenon DEF SyncTmp
  <2> QED BY Zenon, <2>1, <2>2
<1>4. LogInv' /\ tmp.snap = call.snap
  BY Zenon, <1>1, SyncTmpLog DEF SnapshotInv, SnapshotSound
<1> QED BY Zenon, <1>1, <1>2, <1>3, <1>4, SavingSnapshot

LEMMA RenameSnapshot ==
  ASSUME SnapshotInv, Rename
  PROVE  /\ SnapshotInv' /\ file' = file
         /\ disk' = Holds(Replay(file.durable), Kept') /\ Kept' \in Images /\ Kept.index <= Kept'.index
<1>1. /\ call.pc = "rename" /\ call.pc \in Running /\ call.pc \in Running \ {"dirsync"}
      /\ call.pc \in Saving /\ call.pc \notin {"dirsync", "failed"}
      /\ world' = world /\ store' = store /\ damage' = damage
  BY Zenon DEF Rename, Ready, Running, Saving
<1>2. /\ disk' = Holds(Replay(file'.durable), Kept') /\ file' = file
      /\ dir' = [dir EXCEPT !.path = tmp]
  BY <1>1, DiskFollows, Zenon DEF Rename, DirBecomes
<1>3. dir'.path = tmp /\ dir'.synced = dir.synced
  <2>1. PICK p, q : dir = [path |-> p, synced |-> q]
    BY Zenon DEF SnapshotInv, LogInv, TypeOK
  <2> QED BY Zenon, <1>2, <2>1
<1>4. call'.pc = "dirsync" /\ call'.snap = call.snap
  BY Zenon, <1>1, OpenFacts, StepOf DEF Rename, Pcs, SnapshotInv, Running, Saving
<1>5. LogInv'
  BY Zenon, RenameLog DEF SnapshotInv
<1>6. tmp.snap = call.snap
  BY Zenon, <1>1 DEF SnapshotInv, SnapshotSound
<1>7. store.last = dir.path.snap.index /\ store.pending = NoSnapshot /\ store.base = store.last
  BY <1>1, Zenon DEF SnapshotInv, FencesSound
<1>8. /\ store.base = disk.base /\ store.base < call.snap.index /\ Kept = dir.path.snap
      /\ disk.base = Replay(file.durable).base /\ store.base \in Nat
  <2>1. store.base < call.snap.index
    BY <1>1, Zenon DEF SnapshotInv, LogInv, MemorySound
  <2> QED BY Zenon, <1>1, <2>1, OpenAt, KeptAtPath
<1>9. call.snap \in Images /\ call.snap.index \in Nat /\ Kept.index \in Nat /\ Kept \in Images
  <2>1. call.snap \in Images /\ call.snap.index \in Nat
    <3>1. call.snap \in Images
      BY Zenon, <1>1, OpenFacts DEF Calls, SnapshotInv
    <3> QED BY Zenon, <3>1 DEF Images
  <2> QED BY Zenon, <2>1, LinkedFields DEF SnapshotInv
<1>10. Kept' = Kept \/ Kept' = call.snap
  BY Zenon, <1>1, <1>3, <1>6 DEF Kept
<1>11. file.pending = <<>>
  BY <1>1, Zenon DEF SnapshotInv, LogInv, CallSound, Running, Saving
<1>12. FilesSound'
  <2>1. disk'.base = disk.base
    BY <1>2, <1>8, HoldsFields
  <2>2. disk.base <= Kept'.index /\ Kept'.index <= call.snap.index
    <3>1. disk.base = Kept.index
      BY Zenon, <1>7, <1>8
    <3>2. PICK a \in Nat, b \in Nat : a = disk.base /\ b = call.snap.index /\ a < b
      BY Zenon, <1>8, <1>9
    <3> QED BY <1>10, <3>1, <3>2
  <2> QED BY Zenon, <1>2, <1>3, <1>6, <1>11, <2>1, <2>2 DEF FilesSound, DiskSound
<1>13. FencesSound'
  BY Zenon, <1>1, <1>4, <1>7 DEF FencesSound, Opening
<1>14. SnapshotSound'
  BY Zenon, <1>3, <1>4, <1>6 DEF SnapshotSound, Opening
<1>15. LinkSound'
  BY Zenon, <1>2, <1>4, <1>11 DEF LinkSound
<1>16. Kept.index <= Kept'.index
  <2>1. disk.base = Kept.index
    BY Zenon, <1>7, <1>8
  <2>2. PICK a \in Nat, b \in Nat : a = Kept.index /\ b = call.snap.index /\ a < b
    BY Zenon, <1>8, <1>9, <2>1
  <2> QED BY <1>10, <2>2
<1> QED BY Zenon, <1>2, <1>5, <1>9, <1>10, <1>12, <1>13, <1>14, <1>15, <1>16 DEF SnapshotInv

LEMMA SyncDirectorySnapshot ==
  ASSUME SnapshotInv, SyncDirectory
  PROVE  /\ SnapshotInv' /\ file' = file
         /\ disk' = Holds(Replay(file.durable), Kept') /\ Kept' \in Images /\ Kept.index <= Kept'.index
<1>1. /\ call.pc = "dirsync" /\ call.pc \in Running /\ world' = world /\ damage' = damage
  BY Zenon DEF SyncDirectory, Ready, Running, Saving
<1>2. /\ disk' = Holds(Replay(file'.durable), Kept') /\ file' = file
      /\ dir' = [dir EXCEPT !.synced = dir.path]
  BY <1>1, DiskFollows, Zenon DEF SyncDirectory, DirBecomes
<1>3. dir'.path = dir.path /\ dir'.synced = dir.path
  <2>1. PICK p, q : dir = [path |-> p, synced |-> q]
    BY Zenon DEF SnapshotInv, LogInv, TypeOK
  <2> QED BY Zenon, <1>2, <2>1
<1>4. call'.pc = "idle"
  BY Zenon DEF SyncDirectory, Idle, Start
<1>5. LogInv'
  BY Zenon, SyncDirectoryLog DEF SnapshotInv
<1>6. store'.last = call.snap.index /\ store'.pending = call.snap
  <2>1. store = StoreTyped(store)
    <3>1. store \in Stores
      BY Zenon, <1>1, OpenFacts DEF SnapshotInv
    <3> QED BY <3>1, Zenon DEF Stores, StoreTyped
  <2>2. PICK t, i, s : t = store /\ i = call.snap.index /\ s = call.snap
    BY Zenon
  <2>3. store' = [t EXCEPT !.last = i, !.pending = s] /\ t = StoreTyped(t)
    BY Zenon, <2>1, <2>2 DEF SyncDirectory
  <2>4. store' = [StoreTyped(t) EXCEPT !.last = i, !.pending = s]
    BY <2>3, Zenon
  <2> QED BY Zenon, <2>2, <2>4 DEF StoreTyped
<1>7. dir.path.snap = call.snap
  BY Zenon, <1>1 DEF SnapshotInv, SnapshotSound
<1>8. Kept' = dir.path.snap
  BY Zenon, <1>3 DEF Kept
<1>9. /\ disk.base <= Kept.index /\ Kept.index <= dir.path.snap.index
      /\ disk.base = Replay(file.durable).base /\ disk.base \in Nat
      /\ Kept.index \in Nat /\ dir.path.snap.index \in Nat /\ dir.path.snap \in Images
  <2>1. disk.base <= Kept.index /\ Kept.index <= dir.path.snap.index
    BY Zenon DEF SnapshotInv, FilesSound, DiskSound
  <2>2. disk.base = Replay(file.durable).base /\ disk.base \in Nat
    BY Zenon, <1>1, OpenAt
  <2> QED BY Zenon, <2>1, <2>2, LinkedFields DEF SnapshotInv
<1>10. FilesSound'
  <2>1. disk'.base = disk.base
    BY ZenonT(60), <1>2, <1>9, HoldsFields
  <2>2. file.pending = <<>>
    BY <1>1, Zenon DEF SnapshotInv, LogInv, CallSound, Running, Saving
  <2>3. disk.base <= dir.path.snap.index /\ dir.path.snap.index <= dir.path.snap.index
    BY <1>9
  <2> QED BY Zenon, <1>2, <1>3, <1>8, <2>1, <2>2, <2>3 DEF FilesSound, DiskSound
<1>11. FencesSound'
  BY Zenon, <1>3, <1>4, <1>6, <1>7 DEF FencesSound, Opening, Saving
<1>12. SnapshotSound'
  BY Zenon, <1>4 DEF SnapshotSound, Opening
<1>13. LinkSound'
  BY Zenon, <1>3 DEF LinkSound
<1> QED BY Zenon, <1>2, <1>5, <1>8, <1>9, <1>10, <1>11, <1>12, <1>13 DEF SnapshotInv

LEMMA SaveFailsSnapshot ==
  ASSUME SnapshotInv, SaveFails
  PROVE  SnapshotInv'
<1>1. /\ call.pc \in Running /\ UNCHANGED <<file, dir, disk, world, store, damage>>
      /\ call.pc # "sync"
  BY Zenon DEF SaveFails, Running, Saving, files
<1>2. call'.pc = "failed"
  BY Zenon, <1>1, OpenFacts, StepOf DEF SaveFails, Pcs, SnapshotInv
<1>3. LogInv' /\ FilesSound'
  BY Zenon, <1>1, SaveFailsLog, FilesStay DEF SnapshotInv
<1>4. FencesSound' /\ SnapshotSound'
  BY Zenon, <1>2 DEF FencesSound, SnapshotSound, Running, Opening, Saving
<1>5. LinkSound'
  <2>1. file.pending = <<>>
    BY <1>1, Zenon DEF SnapshotInv, LogInv, CallSound
  <2> QED BY Zenon, <1>1, <1>2, <2>1 DEF LinkSound
<1> QED BY Zenon, <1>3, <1>4, <1>5 DEF SnapshotInv


LEMMA OpenSnapshotSnapshot ==
  ASSUME SnapshotInv, OpenSnapshot
  PROVE  SnapshotInv'
<1>1. call.pc = "closed" /\ UNCHANGED <<file, dir, disk, world, store, damage>>
  BY Zenon DEF OpenSnapshot, Ready, files
<1>2. LogInv' /\ call'.pc = "read" /\ call'.snap = dir.path.snap
  <2>1. LogInv' /\ call' = Start("read", Nil, dir.path.snap)
    BY Zenon, OpenSnapshotLog DEF SnapshotInv
  <2> QED BY Zenon, <2>1 DEF Start
<1>3. FilesSound'
  BY Zenon, <1>1, FilesStay
<1>4. FencesSound' /\ SnapshotSound'
  BY Zenon, <1>1, <1>2 DEF FencesSound, SnapshotSound, Running, Opening, Saving
<1>5. LinkSound'
  BY Zenon, <1>1 DEF SnapshotInv, LinkSound
<1> QED BY Zenon, <1>2, <1>3, <1>4, <1>5 DEF SnapshotInv

\* What becomes durable of the record under way, by a sync of Open or by luck.
LEMMA SettledBase ==
  ASSUME SnapshotInv, NEW d,
         \/ d = file.durable
         \/ file.pending # <<>> /\ d = file.durable \o file.pending
  PROVE  Replay(d).base <= Kept.index
<1>1. Replay(file.durable).base <= Kept.index /\ file \in Files /\ LogSound(file)
  BY Zenon, HoldsFields DEF SnapshotInv, FilesSound, DiskSound, LogInv, TypeOK
<1>2. CASE file.pending # <<>> /\ d = file.durable \o file.pending
  <2>1. Replay(d) = Grown(Replay(file.durable), file.pending[1].body)
    BY Zenon, <1>1, <1>2, LogGrows
  <2>2. AtKept(file.pending[1].body)
    BY Zenon, <1>2 DEF SnapshotInv, FilesSound, DiskSound
  <2> QED BY Zenon, <1>1, <2>1, <2>2, GrownBase DEF SnapshotInv
<1> QED BY Zenon, <1>1, <1>2

LEMMA ReadLogSnapshot ==
  ASSUME SnapshotInv, ReadLog
  PROVE  SnapshotInv'
<1>1. call.pc = "read" /\ world' = world /\ dir' = dir /\ damage' = damage
  BY Zenon DEF ReadLog, Ready, FileBecomes, FilesBecome
<1>2. /\ LogInv' /\ file' = Synced(file) /\ call'.snap = call.snap
      /\ damage = Nil => store' = Loaded(file'.durable) /\ call'.pc = "length"
      /\ damage # Nil => call'.pc = "refused"
  BY Zenon, ReadLogLog DEF SnapshotInv
<1>3. disk' = Holds(Replay(file'.durable), Kept') /\ Kept' = Kept
  <2>1. disk' = Holds(Replay(file'.durable), Kept')
    BY <1>1, DiskFollows, Zenon DEF ReadLog, FileBecomes
  <2> QED BY Zenon, <1>1, <2>1 DEF Kept
<1>4. /\ file'.pending = <<>>
      /\ \/ file'.durable = file.durable
         \/ file.pending # <<>> /\ file'.durable = file.durable \o file.pending
  BY Zenon, <1>2, SyncedSound DEF SnapshotInv, LogInv, TypeOK
<1>5. FilesSound'
  <2>1. Replay(file'.durable).base <= Kept.index
    BY Zenon, <1>4, SettledBase
  <2>2. disk'.base = Replay(file'.durable).base
    BY Zenon, <1>3, HoldsFields
  <2>3. Kept.index <= dir.path.snap.index
    BY Zenon DEF SnapshotInv, FilesSound, DiskSound
  <2> QED BY Zenon, <1>1, <1>3, <1>4, <2>1, <2>2, <2>3 DEF FilesSound, DiskSound
<1>6. dir.path.snap = call.snap
  BY Zenon, <1>1 DEF SnapshotInv, SnapshotSound
<1>7. FencesSound'
  <2>1. CASE damage = Nil
    <3>1. store'.last = call.snap.index /\ store'.pending = NoSnapshot
      BY SMTT(30), <1>2, <2>1 DEF Loaded, LoadedAs
    <3> QED BY Zenon, <1>1, <1>2, <1>6, <2>1, <3>1 DEF FencesSound, Running, Saving
  <2>2. CASE damage # Nil
    BY Zenon, <1>2, <2>2 DEF FencesSound, Running, Opening, Saving
  <2> QED BY Zenon, <2>1, <2>2
<1>8. SnapshotSound'
  BY Zenon, <1>1, <1>2, <1>6 DEF SnapshotSound
<1>9. LinkSound'
  BY Zenon, <1>1 DEF SnapshotInv, LinkSound
<1> QED BY Zenon, <1>2, <1>5, <1>7, <1>8, <1>9 DEF SnapshotInv

LEMMA CheckLengthSnapshot ==
  ASSUME SnapshotInv, CheckLength
  PROVE  SnapshotInv'
<1>1. /\ call.pc = "length" /\ call.pc \in Opening
      /\ world' = world /\ dir' = dir /\ damage' = damage /\ store' = store
  BY Zenon DEF CheckLength, Ready, Opening, FileBecomes, FilesBecome
<1>2. LogInv' /\ file'.durable = file.durable /\ file'.pending = <<>>
  BY Zenon, CheckLengthLog DEF SnapshotInv
<1>3. disk' = disk /\ Kept' = Kept
  <2>1. disk' = Holds(Replay(file'.durable), Kept')
    BY <1>1, DiskFollows, Zenon DEF CheckLength, FileBecomes
  <2>2. Kept' = Kept
    BY Zenon, <1>1 DEF Kept
  <2> QED BY Zenon, <1>2, <2>1, <2>2 DEF SnapshotInv, FilesSound, DiskSound
<1>4. call'.pc = "replay" /\ call'.snap = call.snap
  BY Zenon, <1>1, OpenFacts, StepOf DEF CheckLength, Pcs, Opening, SnapshotInv
<1>5. FilesSound'
  BY Zenon, <1>1, <1>2, <1>3 DEF SnapshotInv, FilesSound, DiskSound
<1>6. store.last = dir.path.snap.index /\ store.pending = NoSnapshot /\ dir.path.snap = call.snap
  BY Zenon, <1>1 DEF SnapshotInv, FencesSound, SnapshotSound
<1>7. FencesSound'
  BY Zenon, <1>1, <1>4, <1>6 DEF FencesSound, Running, Saving
<1>8. SnapshotSound'
  BY Zenon, <1>1, <1>4, <1>6 DEF SnapshotSound
<1>9. LinkSound'
  BY Zenon, <1>1 DEF SnapshotInv, LinkSound
<1> QED BY Zenon, <1>2, <1>5, <1>7, <1>8, <1>9 DEF SnapshotInv

LEMMA FinishOpenSnapshot ==
  ASSUME SnapshotInv, FinishOpen
  PROVE  SnapshotInv'
<1>1. /\ call.pc = "replay" /\ call.pc \in Opening /\ call.pc \notin {"dirsync", "failed"}
      /\ UNCHANGED <<file, dir, disk, world, store, damage>>
  BY Zenon DEF FinishOpen, Ready, Opening, files
<1>2. LogInv' /\ FilesSound' /\ Kept' = Kept
  BY Zenon, <1>1, FinishOpenLog, FilesStay DEF SnapshotInv
<1>3. store.last = dir.path.snap.index /\ store.pending = NoSnapshot /\ dir.path.snap = call.snap
  BY Zenon, <1>1 DEF SnapshotInv, FencesSound, SnapshotSound
<1>4. /\ Kept = call.snap /\ disk.snap = Kept /\ store.base = disk.base /\ store.base \in Nat
      /\ store.base <= Kept.index /\ LastIndex(store) = disk.base + Len(disk.log) /\ Kept.index \in Nat
  BY Zenon, <1>1, <1>3, KeptAtPath, OpenAt, LinkedFields DEF SnapshotInv
<1>5. store.ok /\ LastIndex(store) \in Nat /\ store.log \in Seq(Stored) /\ call \in Calls
  <2>1. store \in Stores
    BY Zenon, <1>1, OpenFacts DEF SnapshotInv
  <2> QED BY Zenon, <1>1, <2>1, OpenFacts DEF SnapshotInv, Stores
<1>6. LinkSound'
  BY Zenon, <1>1 DEF SnapshotInv, LinkSound
<1>7. CASE Refuses(store, call.snap)
  <2>1. call'.pc = "refused"
    <3>1. call' = Step("refused")
      BY Zenon, <1>7 DEF FinishOpen
    <3> QED BY Zenon, <1>5, <3>1, StepOf DEF Pcs
  <2>2. OpenRefuses(disk)
    <3>1. PICK a \in Nat, b \in Nat, c \in Nat :
            a = store.base /\ b = LastIndex(store) /\ c = Kept.index /\ a <= b
      BY <1>4, <1>5 DEF LastIndex
    <3>2. a > c \/ c > b
      BY Zenon, <1>4, <1>5, <1>7, <3>1 DEF Refuses
    <3>3. disk.base = a /\ disk.snap.index = c /\ disk.base + Len(disk.log) = b
      BY Zenon, <1>4, <3>1
    <3>4. a > c \/ (c > a /\ c > b)
      BY <3>1, <3>2
    <3> QED BY Zenon, <3>3, <3>4 DEF OpenRefuses
  <2>3. FencesSound' /\ SnapshotSound'
    BY Zenon, <1>1, <2>1, <2>2 DEF FencesSound, SnapshotSound, Running, Opening, Saving
  <2> QED BY Zenon, <1>2, <1>6, <2>3 DEF SnapshotInv
<1>8. CASE ~Refuses(store, call.snap) /\ call.snap.index > store.base
  <2>1. /\ call'.pc = "write" /\ call'.body.kind \in Fences
        /\ call'.body.index = call.snap.index /\ call'.body.term = call.snap.term
    <3>1. call' = Start("write", FenceFor(store, call.snap.index, call.snap.term), NoSnapshot)
      BY Zenon, <1>8 DEF FinishOpen
    <3> QED BY Zenon, <3>1 DEF Start, FenceFor, Fence, Fences
  <2>2. FencesSound'
    BY Zenon, <1>1, <1>2, <1>3, <1>4, <2>1 DEF FencesSound, AtKept, Opening, Saving
  <2>3. SnapshotSound'
    BY Zenon, <2>1 DEF SnapshotSound, Opening
  <2> QED BY Zenon, <1>2, <1>6, <2>2, <2>3 DEF SnapshotInv
<1>9. CASE ~Refuses(store, call.snap) /\ ~(call.snap.index > store.base)
  <2>1. call'.pc = "idle"
    <3>1. call' = Idle
      BY Zenon, <1>9 DEF FinishOpen
    <3> QED BY Zenon, <3>1 DEF Idle, Start
  <2>2. store.base = store.last
    BY <1>3, <1>4, <1>9
  <2>3. FencesSound'
    BY Zenon, <1>1, <1>3, <2>1, <2>2 DEF FencesSound, Opening, Saving
  <2>4. SnapshotSound'
    BY Zenon, <2>1 DEF SnapshotSound, Opening
  <2> QED BY Zenon, <1>2, <1>6, <2>3, <2>4 DEF SnapshotInv
<1> QED BY Zenon, <1>7, <1>8, <1>9


\* A kill keeps the snapshot in step unless it leaves an unsynced rename behind.
LEMMA KillSnapshot ==
  ASSUME SnapshotInv, Kill, ~orphaned'
  PROVE  SnapshotInv'
<1>1. call'.pc = "closed" /\ UNCHANGED <<file, dir, disk, world, damage>>
  BY Zenon DEF Kill, Down, Closed, Start, files
<1>2. LogInv' /\ FilesSound'
  BY Zenon, <1>1, KillLog, FilesStay DEF SnapshotInv
<1>3. FencesSound' /\ SnapshotSound'
  BY Zenon, <1>1 DEF FencesSound, SnapshotSound, Running, Opening, Saving
<1>4. LinkSound'
  <2>1. ~(world.powerLoss /\ dir.path # dir.synced)
    BY Zenon DEF Kill
  <2> QED BY Zenon, <1>1, <2>1 DEF LinkSound
<1> QED BY Zenon, <1>2, <1>3, <1>4 DEF SnapshotInv

\* A power loss leaves the last snapshot or the one before, and the record under way
\* or not: never both undecided.
LEMMA PowerLossSnapshot ==
  ASSUME SnapshotInv, PowerLoss
  PROVE  /\ SnapshotInv' /\ disk' = Holds(Replay(file'.durable), Kept')
         /\ \/ /\ file'.durable = file.durable
               /\ Kept' \in Images /\ Kept.index <= Kept'.index
            \/ /\ file.pending # <<>> /\ Kept' = Kept
               /\ file'.durable = file.durable \o file.pending
<1>1. /\ LogInv' /\ call'.pc = "closed" /\ file'.pending = <<>>
      /\ \/ file'.durable = file.durable
         \/ file.pending # <<>> /\ file'.durable = file.durable \o file.pending
  BY Zenon, PowerLossLog DEF SnapshotInv
<1>2. PICK image \in {dir.path, dir.synced} : dir' = [path |-> image, synced |-> image]
  BY Zenon, PowerLossLog DEF SnapshotInv
<1>3. dir'.path = image /\ dir'.synced = image
  BY Zenon, <1>2
<1>4. world.powerLoss /\ world' = world
  BY Zenon DEF PowerLoss, Down
<1>5. disk' = Holds(Replay(file'.durable), Kept')
  BY <1>4, DiskFollows, Zenon DEF PowerLoss
<1>6. Kept' = image.snap /\ Kept = dir.synced.snap
  BY Zenon, <1>3, <1>4 DEF Kept
<1>7. Kept.index <= dir.path.snap.index
  BY Zenon DEF SnapshotInv, FilesSound, DiskSound
<1>8. Kept.index \in Nat /\ dir.path.snap.index \in Nat /\ Kept \in Images /\ dir.path.snap \in Images
  BY Zenon, LinkedFields DEF SnapshotInv
<1>9. Kept' \in Images /\ Kept.index <= Kept'.index /\ Kept'.index \in Nat
  BY <1>6, <1>7, <1>8
<1>10. file.pending # <<>> => Kept' = Kept
  <2>1. file.pending # <<>> => dir.path = dir.synced
    BY Zenon, <1>4, KeptAtPath
  <2> QED BY Zenon, <1>6, <2>1
<1>11. FilesSound'
  <2>1. Replay(file'.durable).base <= Kept.index
    BY Zenon, <1>1, SettledBase
  <2>2. disk'.base = Replay(file'.durable).base
    BY Zenon, <1>5, HoldsFields
  <2>3. Replay(file'.durable).base \in Nat
    BY Zenon, <1>1 DEF LogInv, LogSound, Replays
  <2>4. disk'.base <= Kept'.index
    BY <1>8, <1>9, <2>1, <2>2, <2>3
  <2>5. Kept'.index <= dir'.path.snap.index
    BY <1>3, <1>6, <1>9
  <2> QED BY Zenon, <1>1, <1>5, <2>4, <2>5 DEF FilesSound, DiskSound
<1>12. FencesSound' /\ SnapshotSound' /\ LinkSound'
  BY Zenon, <1>1, <1>3 DEF FencesSound, SnapshotSound, LinkSound, Running, Opening, Saving
<1> QED BY Zenon, <1>1, <1>5, <1>9, <1>10, <1>11, <1>12 DEF SnapshotInv

LEMMA InitSnapshot == Init => SnapshotInv
<1> SUFFICES ASSUME Init PROVE SnapshotInv
  BY Zenon
<1>1. LogInv
  BY Zenon, InitLog
<1>2. /\ call.pc = "closed" /\ file.durable = <<>> /\ file.pending = <<>>
      /\ dir.path = Missing /\ dir.synced = Missing
  BY Zenon DEF Init, Closed, Start
<1>3. Kept = NoSnapshot
  BY <1>2 DEF Kept, Missing
<1>4. FilesSound
  <2>1. disk = Holds(Empty, NoSnapshot)
    BY Zenon DEF Init, Holds, Empty, EmptyDisk
  <2>2. disk.base = 0 /\ NoSnapshot.index = 0
    BY Zenon, <2>1, NoSnapshotType DEF Holds, Empty
  <2> QED BY <1>2, <1>3, <2>1, <2>2, ReplayEmpty DEF FilesSound, DiskSound, Missing
<1>5. FencesSound /\ SnapshotSound /\ LinkSound
  BY Zenon, <1>2 DEF FencesSound, SnapshotSound, LinkSound, Running, Opening, Saving
<1> QED BY Zenon, <1>1, <1>4, <1>5 DEF SnapshotInv

LEMMA NextSnapshot ==
  ASSUME SnapshotInv, [Next]_vars, ~orphaned'
  PROVE  SnapshotInv'
<1>1. CASE UNCHANGED vars
  <2>1. LogInv'
    BY Zenon, NextLog DEF SnapshotInv
  <2>2. UNCHANGED <<file, dir, disk, world, store, damage, tmp, call>>
    BY Zenon, <1>1 DEF vars, files
  <2>3. FilesSound' /\ Kept' = Kept
    BY Zenon, <2>2, FilesStay
  <2>4. FencesSound'
    BY <2>2, <2>3, Zenon DEF SnapshotInv, FencesSound, AtKept
  <2>5. SnapshotSound' /\ LinkSound'
    BY <2>2, Zenon DEF SnapshotInv, SnapshotSound, LinkSound
  <2> QED BY Zenon, <2>1, <2>3, <2>4, <2>5 DEF SnapshotInv
<1> QED
  BY <1>1, SaveHardStateSnapshot, StoreAppendSnapshot, SaveSnapshotSnapshot, CompactLogSnapshot,
     WriteRecordSnapshot, SyncRecordSnapshot, WriteFailsSnapshot, WriteTmpSnapshot, SyncTmpSnapshot,
     RenameSnapshot, SyncDirectorySnapshot, SaveFailsSnapshot, OpenSnapshotSnapshot, ReadLogSnapshot,
     CheckLengthSnapshot, FinishOpenSnapshot, KillSnapshot, PowerLossSnapshot, Zenon DEF Next

\* The history variable follows the files, and an unsynced rename is not forgotten.
LEMMA NextDisk ==
  ASSUME DiskSound, [Next]_vars
  PROVE  DiskSound' /\ (~orphaned' => ~orphaned)
<1>1. world' = world
  BY Zenon DEF Next, vars, SaveHardState, StoreAppend, SaveSnapshot, CompactLog, WriteRecord, SyncRecord,
     WriteFails, WriteTmp, SyncTmp, Rename, SyncDirectory, SaveFails, OpenSnapshot, ReadLog, CheckLength,
     FinishOpen, Kill, PowerLoss, Down
<1>2. UNCHANGED files \/ \E f, d : FilesBecome(f, d)
  BY Zenon DEF Next, vars, SaveHardState, StoreAppend, SaveSnapshot, CompactLog, WriteRecord, SyncRecord,
     WriteFails, WriteTmp, SyncTmp, Rename, SyncDirectory, SaveFails, OpenSnapshot, ReadLog, CheckLength,
     FinishOpen, Kill, PowerLoss, FileBecomes, DirBecomes
<1>3. DiskSound'
  <2>1. CASE UNCHANGED files
    BY Zenon, <1>1, <2>1 DEF files, DiskSound, Kept
  <2>2. CASE \E f, d : FilesBecome(f, d)
    BY Zenon, <1>1, <2>2, DiskFollows DEF DiskSound
  <2> QED BY Zenon, <1>2, <2>1, <2>2
<1>4. orphaned' = orphaned \/ Kill
  BY Zenon DEF Next, vars, SaveHardState, StoreAppend, SaveSnapshot, CompactLog, WriteRecord, SyncRecord,
     WriteFails, WriteTmp, SyncTmp, Rename, SyncDirectory, SaveFails, OpenSnapshot, ReadLog, CheckLength,
     FinishOpen, PowerLoss
<1>5. Kill => (~orphaned' => ~orphaned)
  BY Zenon DEF Kill
<1>6. orphaned' = orphaned => (~orphaned' => ~orphaned)
  OBVIOUS
<1> QED BY Zenon, <1>3, <1>4, <1>5, <1>6

-----------------------------------------------------------------------------
(***************************************************************************)
(* The theorems.                                                           *)
(***************************************************************************)

\* In every world, kills and power losses in turn included, the disk follows the files,
\* and until a kill leaves an unsynced rename behind the WAL and the snapshot file stay
\* in step with each other and with the call under way (raftstore.SaveSnapshot,
\* CompactLog, Open).
THEOREM StoreInvariant == Spec => []StoreInv
<1>1. Init => StoreInv
  BY Zenon, InitLog, InitSnapshot DEF StoreInv, SnapshotInv, FilesSound
<1>2. StoreInv /\ [Next]_vars => StoreInv'
  <2> SUFFICES ASSUME StoreInv, [Next]_vars PROVE StoreInv'
    BY Zenon
  <2>1. LogInv' /\ DiskSound' /\ (~orphaned' => ~orphaned)
    BY Zenon, NextLog, NextDisk DEF StoreInv
  <2>2. ~orphaned' => SnapshotInv'
    BY Zenon, <2>1, NextSnapshot DEF StoreInv
  <2> QED BY Zenon, <2>1, <2>2 DEF StoreInv
<1> QED BY <1>1, <1>2, PTL DEF Spec

\* Whatever has failed or crashed, between two calls the memory is what the files hold:
\* the replay of raftwal.Open computes what Append, CompactLog and ResetBase did.  The
\* snapshot is the durable one, unless a kill left an unsynced rename behind.
THEOREM MemoryAlwaysOnDisk == Spec => []MemoryMatchesDisk
<1>1. StoreInv => MemoryMatchesDisk
  <2> SUFFICES ASSUME StoreInv, call.pc = "idle"
               PROVE  Recalled(store) = Recalled(disk) /\ (~orphaned => store.last = disk.snap.index)
    BY Zenon DEF MemoryMatchesDisk, Ready
  <2>1. call.pc \in Running /\ call.pc \notin {"dirsync", "failed"}
    BY Zenon DEF Running
  <2>2. Recalled(store) = Recalled(Replay(file.durable))
    BY Zenon, <2>1, OpenFacts DEF StoreInv
  <2>3. Recalled(disk) = Recalled(Replay(file.durable))
    BY Zenon, HoldsFields DEF StoreInv, DiskSound
  <2>4. ASSUME ~orphaned PROVE store.last = disk.snap.index
    <3>1. SnapshotInv
      BY Zenon, <2>4 DEF StoreInv
    <3>2. store.last = dir.path.snap.index
      BY <2>1, <3>1, Zenon DEF SnapshotInv, FencesSound
    <3> QED BY Zenon, <2>1, <3>1, <3>2, OpenAt, KeptAtPath
  <2> QED BY Zenon, <2>2, <2>3, <2>4
<1> QED BY <1>1, StoreInvariant, PTL

\* raftstore.Open refuses exactly the disks that a node may not start from, unless a
\* kill left an unsynced rename behind; the snapshot at the path is never torn.
THEOREM OpenAlwaysAgrees == Spec => []OpenAgrees
<1>1. StoreInv => OpenAgrees
  <2> SUFFICES ASSUME StoreInv PROVE OpenAgrees
    BY Zenon
  <2>1. dir.path # Torn
    BY LinkedFields, StoreAssumption DEF StoreInv, Torn
  <2>2. ASSUME ~orphaned, call.pc = "refused", damage = Nil PROVE OpenRefuses(disk)
    BY Zenon, <2>2 DEF StoreInv, SnapshotInv, SnapshotSound
  <2>3. ASSUME ~orphaned, call.pc = "idle", store.pending = NoSnapshot PROVE ~OpenRefuses(disk)
    <3>1. call.pc \in Running /\ call.pc \notin {"dirsync", "failed"}
      BY Zenon, <2>3 DEF Running
    <3>2. SnapshotInv
      BY Zenon, <2>3 DEF StoreInv
    <3>3. store.last = dir.path.snap.index
      BY <3>1, <3>2, Zenon DEF SnapshotInv, FencesSound
    <3>4. disk.base = disk.snap.index /\ disk.base \in Nat
      BY Zenon, <2>3, <3>1, <3>2, <3>3, OpenAt, KeptAtPath, Fenced
    <3> QED BY <3>4 DEF OpenRefuses
  <2> QED BY Zenon, <2>1, <2>2, <2>3 DEF OpenAgrees, Ready
<1> QED BY <1>1, StoreInvariant, PTL

\* In every world the log is cut beyond the snapshot that a crash leaves only after a
\* kill between the rename of a snapshot and the sync of its directory
\* (raftstore.CompactLog after snapshot.Save; snapshot.OpenStore).
THEOREM FenceAlwaysBacked == Spec => []FenceBacked
<1>1. StoreInv => FenceBacked
  <2> SUFFICES ASSUME StoreInv, ~orphaned PROVE FenceOnDisk
    BY Zenon DEF FenceBacked
  <2>1. DiskSound /\ disk.base <= Kept.index
    BY Zenon DEF StoreInv, SnapshotInv, FilesSound
  <2>2. disk.snap = Kept
    BY Zenon, <2>1, HoldsFields DEF DiskSound
  <2> QED BY Zenon, <2>1, <2>2 DEF FenceOnDisk
<1> QED BY <1>1, StoreInvariant, PTL

-----------------------------------------------------------------------------
(***************************************************************************)
(* The store implements the disk of RaftNode.                              *)
(***************************************************************************)

\* One record more is one write to the disk.
LEMMA RecordIsWrite ==
  ASSUME NEW s \in Replays, NEW snap \in Images, NEW body \in Bodies, Appendable(s, body),
         body.kind \in Fences => body.index = snap.index /\ body.term = snap.term
  PROVE  Stable!Written(Holds(s, snap), Holds(Grown(s, body), snap))
<1>1. PICK t \in Nat, v \in Server \cup {Nil}, c \in Nat, b \in Nat, bt \in Nat, log \in Seq(Stored) :
        /\ s.term = t /\ s.vote = v /\ s.commit = c /\ s.base = b /\ s.baseTerm = bt /\ s.log = log
  BY Zenon DEF Replays
<1> DEFINE d == [term |-> t, vote |-> v, commit |-> c, base |-> b, baseTerm |-> bt, log |-> log, snap |-> snap]
<1>2. Holds(s, snap) = d
  BY Zenon, <1>1 DEF Holds
<1>3. CASE body.kind = "hard"
  <2>1. body \in HardBodies /\ ~Regresses(s, body.term, body.vote, body.commit)
    BY Zenon, <1>3, BodyKinds DEF Appendable, Fences
  <2>2. PICK t1 \in Nat, v1 \in Server \cup {Nil}, c1 \in Nat :
          t1 = body.term /\ v1 = body.vote /\ c1 = body.commit
    BY Zenon, <2>1 DEF HardBodies
  <2> DEFINE e == [term |-> t1, vote |-> v1, commit |-> c1, base |-> b, baseTerm |-> bt, log |-> log, snap |-> snap]
  <2>3. Holds(Grown(s, body), snap) = e
    BY Zenon, <1>1, <1>3, <2>2 DEF Holds, Grown, GrownLog, Fences
  <2>4. Stable!HardStateAccepted(d, t1, v1, c1)
    BY <1>1, <2>1, <2>2 DEF Regresses, Stable!HardStateAccepted
  <2>5. e = Stable!HardStateSaved(d, t1, v1, c1)
    <3>1. PICK x : x = Stable!HardStateSaved(d, t1, v1, c1)
      BY Zenon
    <3>2. x = [d EXCEPT !.term = t1, !.vote = v1, !.commit = c1]
      BY Zenon, <3>1 DEF Stable!HardStateSaved
    <3>3. x = e
      BY <3>2, Zenon
    <3> QED BY Zenon, <3>1, <3>3
  <2>6. Stable!HardStateWritten(d, e)
    BY Zenon, <2>4, <2>5 DEF Stable!HardStateWritten
  <2> QED BY Zenon, <1>2, <2>3, <2>6 DEF Stable!Written
<1>4. CASE body.kind = "entry"
  <2>1. body \in EntryBodies /\ s.base < body.index /\ body.index <= LastIndex(s) + 1
    BY Zenon, <1>4, BodyKinds DEF Appendable, Fences
  <2>2. PICK k \in Nat, entry \in Stored : k = body.index /\ entry = body.entry
    BY Zenon, <2>1 DEF EntryBodies
  <2>3. PICK n \in Nat : n = Len(log)
    OBVIOUS
  <2>4. b < k /\ k <= b + n + 1
    BY Zenon, <1>1, <2>1, <2>2, <2>3 DEF LastIndex
  <2>5. PICK q \in Seq(Stored) : q = SubSeq(log, 1, k - 1 - b) /\ Len(q) = k - 1 - b
    <3>1. PICK a \in Nat : a = k - 1 - b /\ a <= n
      BY <2>4
    <3>2. SubSeq(log, 1, a) \in Seq(Stored) /\ Len(SubSeq(log, 1, a)) = a
      BY Zenon, <2>3, <3>1, Parts
    <3> QED BY Zenon, <3>1, <3>2
  <2>6. PICK log1 : log1 = Append(q, entry)
    BY Zenon
  <2>7. log1 # <<>> /\ b + Len(log1) = k /\ log1[Len(log1)] = entry
    BY <2>4, <2>5, <2>6
  <2> DEFINE e == [term |-> t, vote |-> v, commit |-> c, base |-> b, baseTerm |-> bt, log |-> log1, snap |-> snap]
  <2>8. Holds(Grown(s, body), snap) = e
    BY Zenon, <1>1, <1>4, <2>2, <2>5, <2>6 DEF Holds, Grown, GrownLog, Fences, UpTo
  <2>9. Stable!LastIndex(e) = k /\ e.log = log1
    BY Zenon, <2>7 DEF Stable!LastIndex
  <2>10. Stable!EntryAccepted(d, k)
    BY Zenon, <2>3, <2>4 DEF Stable!EntryAccepted, Stable!LastIndex
  <2>11. e = Stable!EntryStored(d, k, entry)
    <3>1. PICK x : x = Stable!EntryStored(d, k, entry)
      BY Zenon
    <3>2. Stable!UpTo(d, k - 1) = q
      BY Zenon, <2>5 DEF Stable!UpTo
    <3>3. x = [d EXCEPT !.log = log1]
      BY Zenon, <2>6, <3>1, <3>2 DEF Stable!EntryStored
    <3>4. x = e
      BY <3>3, Zenon
    <3> QED BY Zenon, <3>1, <3>4
  <2>12. Stable!EntryWritten(d, e)
    BY Zenon, <2>7, <2>9, <2>10, <2>11 DEF Stable!EntryWritten
  <2> QED BY Zenon, <1>2, <2>8, <2>12 DEF Stable!Written
<1>5. CASE body.kind \in Fences
  <2>1. s.base < body.index /\ body = FenceFor(s, body.index, body.term)
    BY Zenon, <1>5 DEF Appendable, Fences
  <2>2. PICK k \in Nat, kt \in Nat : k = body.index /\ kt = body.term /\ k = snap.index /\ kt = snap.term
    BY Zenon, <1>5, BodyKinds DEF FenceBodies
  <2> DEFINE has == HasIndex(s, k) /\ TermAt(s, k) = kt
  <2>3. body.kind = IF has THEN "compact" ELSE "reset"
    BY <2>1, <2>2 DEF FenceFor, Fence
  <2>4. has <=> Stable!HasIndex(d, k) /\ Stable!TermAt(d, k) = kt
    BY Zenon, <1>1 DEF HasIndex, TermAt, EntryAt, LastIndex, Stable!HasIndex, Stable!TermAt, Stable!EntryAt, Stable!LastIndex
  <2>5. PICK log1 : log1 = IF has THEN SubSeq(log, k - b + 1, Len(log)) ELSE <<>>
    BY Zenon
  <2> DEFINE e == [term |-> t, vote |-> v, commit |-> c, base |-> k, baseTerm |-> kt, log |-> log1, snap |-> snap]
  <2>6. Holds(Grown(s, body), snap) = e
    BY Zenon, <1>1, <1>5, <2>2, <2>3, <2>5 DEF Holds, Grown, GrownLog, Fences, After
  <2>7. Stable!FenceAccepted(d, d.snap)
    BY Zenon, <1>1, <2>1, <2>2 DEF Stable!FenceAccepted
  <2>8. e = Stable!Compacted(d, d.snap)
    <3>1. PICK x : x = Stable!Compacted(d, snap)
      BY Zenon
    <3>2. Stable!After(d, k) = SubSeq(log, k - b + 1, Len(log))
      BY Zenon DEF Stable!After
    <3>3. log1 = IF Stable!HasIndex(d, k) /\ Stable!TermAt(d, k) = kt THEN Stable!After(d, k) ELSE <<>>
      BY Zenon, <2>4, <2>5, <3>2
    <3> HIDE DEF d
    <3>4. x = [d EXCEPT !.base = k, !.baseTerm = kt, !.log = log1]
      BY Zenon, <2>2, <3>1, <3>3 DEF Stable!Compacted
    <3>5. x = e
      BY <3>4, Zenon DEF d
    <3>6. d.snap = snap
      BY Zenon DEF d
    <3> QED BY Zenon, <3>1, <3>5, <3>6
  <2>9. Stable!FenceWritten(d, e)
    BY Zenon, <2>7, <2>8 DEF Stable!FenceWritten
  <2> QED BY Zenon, <1>2, <2>6, <2>9 DEF Stable!Written
<1> QED BY Zenon, <1>3, <1>4, <1>5, BodyKinds DEF Fences

\* Another snapshot is one write to the disk.
LEMMA ImageIsWrite ==
  ASSUME NEW s, NEW old, NEW new, old.index <= new.index, old.index \in Nat, new.index \in Nat
  PROVE  Stable!Written(Holds(s, old), Holds(s, new))
<1>1. PICK t, v, c, b, bt, log :
        /\ s.term = t /\ s.vote = v /\ s.commit = c /\ s.base = b /\ s.baseTerm = bt /\ s.log = log
  BY Zenon
<1> DEFINE d == [term |-> t, vote |-> v, commit |-> c, base |-> b, baseTerm |-> bt, log |-> log, snap |-> old]
           e == [term |-> t, vote |-> v, commit |-> c, base |-> b, baseTerm |-> bt, log |-> log, snap |-> new]
<1>2. Holds(s, old) = d /\ Holds(s, new) = e
  BY Zenon, <1>1 DEF Holds
<1>3. Stable!SnapshotAccepted(d, e.snap)
  BY Zenon DEF Stable!SnapshotAccepted
<1>4. e = Stable!SnapshotSaved(d, e.snap)
  BY DEF Stable!SnapshotSaved
<1> QED BY Zenon, <1>2, <1>3, <1>4 DEF Stable!SnapshotWritten, Stable!Written

\* A step that makes the record under way durable, if there is one, is one write.
LEMMA SettledIsWrite ==
  ASSUME SnapshotInv, Kept' = Kept, disk' = Holds(Replay(file'.durable), Kept'),
         \/ file'.durable = file.durable
         \/ file.pending # <<>> /\ file'.durable = file.durable \o file.pending
  PROVE  disk' = disk \/ Stable!Written(disk, disk')
<1>1. disk = Holds(Replay(file.durable), Kept) /\ file \in Files /\ LogSound(file)
  BY Zenon DEF SnapshotInv, FilesSound, DiskSound, LogInv, TypeOK
<1>2. CASE file'.durable = file.durable
  BY Zenon, <1>1, <1>2
<1>3. CASE file.pending # <<>> /\ file'.durable = file.durable \o file.pending
  <2>1. Replay(file'.durable) = Grown(Replay(file.durable), file.pending[1].body)
    BY Zenon, <1>1, <1>3, LogGrows
  <2>2. AtKept(file.pending[1].body)
    BY Zenon, <1>3 DEF SnapshotInv, FilesSound, DiskSound
  <2>3. /\ Replay(file.durable) \in Replays /\ Kept \in Images
        /\ Appendable(Replay(file.durable), file.pending[1].body)
    BY Zenon, <1>1, <1>3, LinkedFields DEF LogSound, SnapshotInv
  <2>4. file.pending[1].body \in Bodies
    <3>1. file.pending[1] \in Records
      BY Zenon, <1>1, <1>3, OneMore DEF LogSound, Files
    <3> QED BY Zenon, <3>1 DEF Records
  <2>5. PICK s \in Replays, snap \in Images, body \in Bodies :
          /\ s = Replay(file.durable) /\ snap = Kept /\ body = file.pending[1].body
          /\ Appendable(s, body)
          /\ body.kind \in Fences => body.index = snap.index /\ body.term = snap.term
    BY Zenon, <2>2, <2>3, <2>4 DEF AtKept
  <2>6. Stable!Written(Holds(s, snap), Holds(Grown(s, body), snap))
    BY Zenon, <2>5, RecordIsWrite
  <2>7. disk = Holds(s, snap) /\ disk' = Holds(Grown(s, body), snap)
    BY Zenon, <1>1, <2>1, <2>5
  <2> QED BY Zenon, <2>6, <2>7
<1> QED BY Zenon, <1>2, <1>3


LEMMA NextIsWrite ==
  ASSUME SnapshotInv, [Next]_vars
  PROVE  [Stable!Next]_disk
<1> SUFFICES disk' = disk \/ Stable!Written(disk, disk')
  BY Zenon DEF Stable!Next
<1>1. disk = Holds(Replay(file.durable), Kept) /\ file \in Files /\ LogSound(file)
  BY Zenon DEF SnapshotInv, FilesSound, DiskSound, LogInv, TypeOK
<1>2. ASSUME world' = world, dir' = dir, FileBecomes(Synced(file))
      PROVE  disk' = disk \/ Stable!Written(disk, disk')
  <2>1. Kept' = Kept
    BY Zenon, <1>2 DEF Kept
  <2>2. disk' = Holds(Replay(file'.durable), Kept') /\ file' = Synced(file)
    BY Zenon, <1>2, DiskFollows DEF FileBecomes
  <2>3. \/ file'.durable = file.durable
        \/ file.pending # <<>> /\ file'.durable = file.durable \o file.pending
    BY Zenon, <1>1, <2>2, SyncedSound
  <2> QED BY Zenon, <2>1, <2>2, <2>3, SettledIsWrite
<1>3. ASSUME world' = world, dir' = dir, file'.durable = file.durable, NEW f, FileBecomes(f)
      PROVE  disk' = disk
  BY Zenon, <1>1, <1>3, DiskFollows DEF FileBecomes, Kept
<1>4. ASSUME disk' = Holds(Replay(file.durable), Kept'), Kept' \in Images, Kept.index <= Kept'.index
      PROVE  Stable!Written(disk, disk')
  <2>1. Kept.index \in Nat /\ Kept'.index \in Nat
    BY Zenon, <1>4, LinkedFields DEF SnapshotInv, Images
  <2>2. PICK s, old, new :
          /\ s = Replay(file.durable) /\ old = Kept /\ new = Kept'
          /\ old.index <= new.index /\ old.index \in Nat /\ new.index \in Nat
    BY Zenon, <1>4, <2>1
  <2> QED BY Zenon, <1>1, <1>4, <2>2, ImageIsWrite
<1>5. CASE SyncRecord \/ ReadLog
  BY Zenon, <1>2, <1>5 DEF SyncRecord, ReadLog, FileBecomes, FilesBecome
<1>6. CASE WriteRecord
  <2>1. PICK f : FileBecomes(f)
    BY Zenon, <1>6 DEF WriteRecord
  <2>2. file'.durable = file.durable
    <3>1. PICK d, p, q : file = [durable |-> d, pending |-> p, partial |-> q]
      BY <1>1, Zenon DEF Files
    <3>2. \E e : file' = [file EXCEPT !.pending = e]
      BY <1>6, Zenon DEF WriteRecord, FileBecomes, FilesBecome
    <3> QED BY Zenon, <3>1, <3>2
  <2> QED BY Zenon, <1>3, <1>6, <2>1, <2>2 DEF WriteRecord, FileBecomes, FilesBecome
<1>7. CASE WriteFails
  <2>1. PICK f : FileBecomes(f)
    BY Zenon, <1>7 DEF WriteFails
  <2>2. file'.durable = file.durable /\ world' = world
    BY Zenon, <1>7, WriteFailsLog DEF SnapshotInv, WriteFails
  <2> QED BY Zenon, <1>3, <2>1, <2>2 DEF FileBecomes, FilesBecome
<1>8. CASE CheckLength
  <2>1. PICK f : FileBecomes(f)
    BY Zenon, <1>8 DEF CheckLength
  <2>2. file'.durable = file.durable /\ world' = world
    BY Zenon, <1>8, CheckLengthLog DEF SnapshotInv, CheckLength
  <2> QED BY Zenon, <1>3, <2>1, <2>2 DEF FileBecomes, FilesBecome
<1>9. CASE Rename
  BY Zenon, <1>4, <1>9, RenameSnapshot
<1>10. CASE SyncDirectory
  BY Zenon, <1>4, <1>10, SyncDirectorySnapshot
<1>11. CASE PowerLoss
  <2>1. CASE file'.durable = file.durable /\ Kept' \in Images /\ Kept.index <= Kept'.index
    BY Zenon, <1>4, <1>11, <2>1, PowerLossSnapshot
  <2>2. CASE file.pending # <<>> /\ Kept' = Kept /\ file'.durable = file.durable \o file.pending
    BY Zenon, <1>11, <2>2, PowerLossSnapshot, SettledIsWrite
  <2> QED BY Zenon, <1>11, <2>1, <2>2, PowerLossSnapshot
<1>12. CASE UNCHANGED files
  BY Zenon, <1>12 DEF files
<1>13. \/ SyncRecord \/ ReadLog \/ WriteRecord \/ WriteFails \/ CheckLength \/ Rename \/ SyncDirectory
       \/ PowerLoss \/ UNCHANGED files
  BY Zenon DEF Next, vars, SaveHardState, StoreAppend, SaveSnapshot, CompactLog, WriteTmp, SyncTmp, SaveFails,
     OpenSnapshot, FinishOpen, Kill
<1> QED BY Zenon, <1>5, <1>6, <1>7, <1>8, <1>9, <1>10, <1>11, <1>12, <1>13

\* Through any number of crashes, failing writes and reopenings the store is the disk
\* that RaftNode writes to: every step is one of the node's writes as a whole, the repair
\* of an Open, or nothing, until a kill leaves an unsynced rename behind (raftstore,
\* raftwal, wal, snapshot).
THEOREM StoreImplementsDisk == Spec => ImplementsDisk
<1>1. Init => Stable!Init
  BY Zenon DEF Init, Stable!Init, EmptyDisk, NoSnapshot, Stable!EmptyDisk, Stable!NoSnapshot
<1>2. StoreInv /\ [Next]_vars => [~orphaned => [Stable!Next]_disk]_vars
  BY Zenon, NextIsWrite DEF StoreInv
<1> QED BY <1>1, <1>2, StoreInvariant, PTL DEF Spec, ImplementsDisk

=============================================================================
