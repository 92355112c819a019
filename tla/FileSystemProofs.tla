-------------------------- MODULE FileSystemProofs ---------------------------
(***************************************************************************)
(* The properties of FileSystem for every set of inodes, names, blocks and *)
(* contents.  An operation is committed only from home regions that equal  *)
(* the last committed ones, so it is enough that each operation takes good *)
(* regions to good regions, and that replay, however often it is stopped   *)
(* and started again, ends with the committed ones.                        *)
(***************************************************************************)
EXTENDS FileSystemBlocks

-----------------------------------------------------------------------------
\* The calls.

LEMMA InitHolds == Init => IInv
<1> SUFFICES ASSUME Init PROVE IInv
  OBVIOUS
<1>1. PICK d \in [Data -> Value] :
        home = [alloc |-> {}, inodes |-> [i \in {} |-> i], entries |-> {}, data |-> d]
  BY DEF Init
<1>2. /\ home.alloc = {} /\ home.inodes = [i \in {} |-> i] /\ home.entries = {}
      /\ home.data \in [Data -> Value]
      /\ home = Regions(home.alloc, home.inodes, home.entries, home.data)
  BY <1>1 DEF Regions
<1>3. DOMAIN home.inodes = {}
  BY <1>2
<1>4. Homes(home)
  BY <1>2, <1>3 DEF Homes
<1>5. Owned(home)
  BY <1>2, <1>3 DEF Owned, OwnershipOK, NoLeaks
<1>6. Named(home)
  BY <1>2, <1>3 DEF Named, NamespaceOK, Tree
<1>7. home = target /\ old = target /\ touched = {} /\ todo = {} /\ pc = "idle" /\ op = "none"
  BY DEF Init
<1>8. TypeOK /\ Good(target) /\ Replayed
  BY <1>4, <1>5, <1>6, <1>7 DEF TypeOK, Good, Replayed
<1>9. Keeps(old, target, touched) /\ Good(old) /\ Ordered /\ Shape(op, old, target)
  BY <1>7, <1>8 DEF Keeps, Ordered, Shape
<1> QED
  BY <1>8, <1>9 DEF IInv

LEMMA NamesStep == IInv /\ Names => IInv'
<1> SUFFICES ASSUME IInv, Names PROVE IInv'
  OBVIOUS
<1>1. ASSUME NEW p \in Id, NEW n \in Name, NEW i \in Id, HardLink(p, n, i) PROVE IInv'
  BY <1>1, HardLinkStep
<1>2. ASSUME NEW p \in Id, NEW n \in Name, NEW e \in home.entries, Rename(e, p, n)
      PROVE IInv'
  BY <1>2, RenameStep
<1>3. ASSUME NEW e \in home.entries, HardUnlink(e) PROVE IInv'
  BY <1>3, HardUnlinkStep
<1>4. ASSUME NEW e \in home.entries, NEW f \in home.entries,
             Exchange(e, f) \/ RenameOverwrite(e, f) \/ RenameOverwriteLinked(e, f)
      PROVE IInv'
  BY <1>4, ExchangeStep, RenameOverwriteStep, RenameOverwriteLinkedStep
<1> QED
  BY <1>1, <1>2, <1>3, <1>4 DEF Names

LEMMA FilesStep == IInv /\ pc = "idle" /\ Files => IInv'
<1> SUFFICES ASSUME IInv, pc = "idle", Files PROVE IInv'
  OBVIOUS
<1>1. CASE MakeRoot
  BY <1>1, MakeRootStep
<1>2. ASSUME NEW i \in Id, NEW p \in Id, NEW n \in Name, NEW kind \in Kind,
             NEW bs \in Batches(Data), Create(i, kind, p, n, bs)
      PROVE IInv'
  BY <1>2, CreateStep
<1>3. ASSUME NEW r \in Id, NEW e \in home.entries, NEW F \in SUBSET Data, Unlink(r, e, F)
      PROVE IInv'
  BY <1>3, UnlinkStep
<1>4. ASSUME NEW i \in Id, TruncateToZero(i) PROVE IInv'
  BY <1>4, TruncateStep DEF TruncateToZero
<1>5. ASSUME NEW i \in Id, TruncateLastBlock(i) PROVE IInv'
  <2>1. home.inodes[i].blocks \in Seq(Data) /\ home.inodes[i].blocks # << >>
    BY <1>5, IdleIsGood, InodeFacts DEF TruncateLastBlock, NoBlocks
  <2>2. Len(home.inodes[i].blocks) - 1 \in Nat
    BY <2>1
  <2> QED
    BY <1>5, <2>2, TruncateStep DEF TruncateLastBlock
<1>6. ASSUME NEW i \in Id, NEW n \in 0 .. Cardinality(Data), TruncateToBlocks(i, n)
      PROVE IInv'
  BY <1>6, TruncateStep
<1> QED
  BY <1>1, <1>2, <1>3, <1>4, <1>5, <1>6 DEF Files

LEMMA WriteRangeStep ==
  ASSUME IInv, NEW i, NEW k \in Nat \ {0}, NEW vs \in Seq(Value), WriteRange(i, k, vs)
  PROVE  IInv'
<1> DEFINE ks == [m \in 1 .. Len(vs) |-> k + m - 1]
<1>1. ks \in Seq(Nat) /\ Len(ks) = Len(vs)
  OBVIOUS
<1>2. WriteBlocks(i, ks, vs)
  BY DEF WriteRange
<1> HIDE DEF ks
<1>3. vs \in [1 .. Len(ks) -> Value]
  BY <1>1
<1> QED
  BY <1>1, <1>2, <1>3, WriteBlocksStep

LEMMA CopyRangeStep ==
  ASSUME IInv, pc = "idle", NEW i, NEW j, NEW k \in Nat \ {0}, NEW l \in Nat \ {0},
         NEW n \in Nat, CopyRange(i, k, j, l, n)
  PROVE  IInv'
<1> DEFINE s == home.inodes[i].blocks
           vs == [m \in 1 .. n |-> home.data[s[k + m - 1]]]
<1>1. s \in Seq(Data) /\ home.data \in [Data -> Value]
  BY IdleIsGood, InodeFacts DEF CopyRange
<1>2. k + n - 1 <= Len(s) /\ WriteRange(j, l, vs)
  BY DEF CopyRange
<1> HIDE DEF s
<1>3. \A m \in 1 .. n : k + m - 1 \in 1 .. Len(s)
  BY <1>1, <1>2
<1>4. \A m \in 1 .. n : home.data[s[k + m - 1]] \in Value
  BY <1>1, <1>3
<1>5. vs \in Seq(Value)
  BY <1>4
<1> QED
  BY <1>2, <1>5, WriteRangeStep

LEMMA ContentsStep == IInv /\ pc = "idle" /\ Contents => IInv'
<1> SUFFICES ASSUME IInv, pc = "idle", NEW i \in Id,
                    \/ \E b \in Data, v \in Value :
                         \/ AppendBlock(i, b, v)
                         \/ \E n \in 0 .. Cardinality(Data) : InsertBlock(i, n, b, v)
                    \/ \E bs \in Batches(Data) : \E vs \in [DOMAIN bs -> Value] :
                         AppendBlocks(i, bs, vs)
                    \/ \E k \in 1 .. Cardinality(Data) :
                         \/ \E v \in Value : WriteBlock(i, k, v)
                         \/ \E vs \in Batches(Value) : WriteRange(i, k, vs)
                         \/ \E j \in Id, l \in 1 .. Cardinality(Data), n \in 1 .. MaxBatch :
                              CopyRange(i, k, j, l, n)
                    \/ \E ks \in Batches(1 .. Cardinality(Data)) :
                         \E vs \in [DOMAIN ks -> Value] : WriteBlocks(i, ks, vs)
             PROVE  IInv'
  BY DEF Contents
<1>1. IsFile(home, i) => Len(home.inodes[i].blocks) \in Nat
  <2> SUFFICES ASSUME IsFile(home, i) PROVE Len(home.inodes[i].blocks) \in Nat
    OBVIOUS
  <2>1. home.inodes[i].blocks \in Seq(Data)
    BY IdleIsGood, InodeFacts
  <2> QED
    BY <2>1
<1>2. ASSUME NEW b \in Data, NEW v \in Value, NEW n \in Nat, Grow(i, n, <<b>>, <<v>>)
      PROVE IInv'
  <2>1. <<b>> \in Seq(Data) /\ <<v>> \in [1 .. Len(<<b>>) -> Value]
    OBVIOUS
  <2> QED
    BY <1>2, <2>1, GrowStep
<1>3. ASSUME NEW b \in Data, NEW v \in Value, AppendBlock(i, b, v) PROVE IInv'
  BY <1>1, <1>2, <1>3 DEF AppendBlock
<1>4. ASSUME NEW b \in Data, NEW v \in Value, NEW n \in 0 .. Cardinality(Data),
             InsertBlock(i, n, b, v)
      PROVE IInv'
  BY <1>2, <1>4 DEF InsertBlock
<1>5. ASSUME NEW bs \in Batches(Data), NEW vs \in [DOMAIN bs -> Value],
             AppendBlocks(i, bs, vs)
      PROVE IInv'
  <2>1. bs \in Seq(Data) /\ vs \in [1 .. Len(bs) -> Value]
    BY BatchFacts
  <2> QED
    BY <1>1, <1>5, <2>1, GrowStep DEF AppendBlocks
<1>6. ASSUME NEW k \in 1 .. Cardinality(Data), NEW v \in Value, WriteBlock(i, k, v)
      PROVE IInv'
  <2>1. <<k>> \in Seq(Nat) /\ <<v>> \in [1 .. Len(<<k>>) -> Value]
    OBVIOUS
  <2> QED
    BY <1>6, <2>1, WriteBlocksStep DEF WriteBlock
<1>7. ASSUME NEW k \in 1 .. Cardinality(Data), NEW vs \in Batches(Value),
             WriteRange(i, k, vs)
      PROVE IInv'
  BY <1>7, BatchFacts, WriteRangeStep
<1>8. ASSUME NEW k \in 1 .. Cardinality(Data), NEW j \in Id,
             NEW l \in 1 .. Cardinality(Data), NEW n \in 1 .. MaxBatch,
             CopyRange(i, k, j, l, n)
      PROVE IInv'
  BY <1>8, CopyRangeStep
<1>9. ASSUME NEW ks \in Batches(1 .. Cardinality(Data)),
             NEW vs \in [DOMAIN ks -> Value], WriteBlocks(i, ks, vs)
      PROVE IInv'
  <2>1. ks \in Seq(1 .. Cardinality(Data)) /\ vs \in [1 .. Len(ks) -> Value]
    BY BatchFacts
  <2> QED
    BY <1>9, <2>1, WriteBlocksStep
<1> QED
  BY <1>3, <1>4, <1>5, <1>6, <1>7, <1>8, <1>9

-----------------------------------------------------------------------------
THEOREM Invariance == Spec => []IInv
<1>1. IInv /\ [Next]_vars => IInv'
  <2> SUFFICES ASSUME IInv, [Next]_vars PROVE IInv'
    OBVIOUS
  <2>1. CASE Call
    BY <2>1, NamesStep, FilesStep, ContentsStep DEF Call
  <2>2. CASE Install
    BY <2>2, InstallStep
  <2>3. CASE Stop
    BY <2>3, StopStep
  <2>4. CASE Recover
    BY <2>4, RecoverStep
  <2>5. CASE UNCHANGED vars
    BY <2>5 DEF vars, IInv, TypeOK, Replayed, Ordered
  <2> QED
    BY <2>1, <2>2, <2>3, <2>4, <2>5 DEF Next
<1> QED
  BY <1>1, InitHolds, PTL DEF Spec

\* The regions always have the form of allocation, inode, directory and data
\* regions, whichever operation is interrupted where.
THEOREM TypeCorrect == Spec => []TypeOK
  BY Invariance, PTL DEF IInv

\* What the operations commit passes fsck (check_device: blocks owned once and
\* allocated, names unique and leading somewhere, no cycle, everything reached
\* from the root), and between calls it is what the home regions hold.
THEOREM AlwaysConsistent == Spec => []Consistent
<1>1. IInv => Consistent
  BY DEF IInv, Good, Owned, Named, Replayed, Consistent, Fsck
<1> QED
  BY <1>1, Invariance, PTL

\* No operation leaks a block: what is allocated belongs to an inode.
THEOREM NothingLeaks == Spec => []NoLeak
<1>1. IInv => NoLeak
  BY DEF IInv, Good, Owned, NoLeaks, NoLeak
<1> QED
  BY <1>1, Invariance, PTL

\* Directories form a tree, through every sequence of renames, links and
\* unlinks.
THEOREM DirectoriesFormTree == Spec => []DirectoryTree
<1>1. IInv => DirectoryTree
  BY DEF IInv, Good, Named, Tree, DirectoryTree
<1> QED
  BY <1>1, Invariance, PTL

\* An operation changes no file but its own, whatever blocks it frees, reuses,
\* allocates or writes.
THEOREM FilesAreIsolated == Spec => []Isolation
<1>1. IInv => Isolation
  BY DEF IInv, Keeps, Isolation
<1> QED
  BY <1>1, Invariance, PTL
\* The home regions of a release that is partly installed: from the bitmap on
\* some inode refers to a free block, from the inode table on some name leads
\* nowhere.
LEMMA PartialRelease ==
  ASSUME IInv, home \notin {old, target}, op \in {"unlink", "truncate", "overwrite"}
  PROVE  ~ Fsck(home)
<1>1. /\ Homes(home) /\ Homes(old) /\ Homes(target)
      /\ target.alloc \subseteq old.alloc /\ target.data = old.data
      /\ \/ target.entries = old.entries
         \/ \E e \in old.entries : e.target \notin DOMAIN target.inodes
  BY DEF IInv, TypeOK, Shape
<1>2. /\ home.alloc = old.alloc \/ home.alloc = target.alloc
      /\ home.inodes = old.inodes \/ home.inodes = target.inodes
      /\ home.entries = old.entries \/ home.entries = target.entries
      /\ home.data = old.data
  BY <1>1 DEF IInv, Replayed, Region
<1>3. /\ home.inodes # old.inodes => home.alloc = target.alloc
      /\ home.entries # old.entries => home.alloc = target.alloc
      /\ home.entries # old.entries => home.inodes = target.inodes
  BY DEF IInv, Ordered, Region, Rank
<1>4. \A h : /\ Homes(h) /\ h.alloc = home.alloc /\ h.inodes = home.inodes
             /\ h.entries = home.entries /\ h.data = home.data
             => h = home
  BY <1>1 DEF Homes
<1>5. CASE home.inodes = old.inodes
  <2>1. home.alloc = target.alloc /\ target.alloc # old.alloc
    BY <1>1, <1>2, <1>3, <1>4, <1>5
  <2>2. PICK b \in old.alloc : b \notin home.alloc
    BY <1>1, <2>1
  <2>3. PICK i \in DOMAIN old.inodes : b \in Blocks(old, i)
    BY <2>2 DEF IInv, Good, Owned, NoLeaks
  <2>4. Blocks(home, i) = Blocks(old, i) /\ i \in DOMAIN home.inodes
    BY <1>5, <2>3 DEF Blocks
  <2> QED
    BY <2>2, <2>3, <2>4 DEF Fsck, OwnershipOK
<1>6. CASE home.inodes # old.inodes
  <2>1. home.inodes = target.inodes /\ home.alloc = target.alloc
    BY <1>2, <1>3, <1>6
  <2>2. home.entries = old.entries /\ target.entries # old.entries
    BY <1>1, <1>2, <1>4, <2>1
  <2>3. PICK e \in home.entries : e.target \notin DOMAIN home.inodes
    BY <1>1, <2>1, <2>2
  <2> QED
    BY <2>3 DEF Fsck, NamespaceOK
<1> QED
  BY <1>5, <1>6

\* The home regions of a create from the inode table on: the inode has no name.
LEMMA PartialCreate ==
  ASSUME IInv, home \notin {old, target}, op = "create", home.inodes # old.inodes
  PROVE  ~ Fsck(home)
<1>1. /\ Homes(home) /\ Homes(target) /\ target.data = old.data
      /\ \/ target.entries = old.entries
         \/ \E i \in DOMAIN target.inodes : i # Root /\ \A e \in old.entries : e.target # i
  BY DEF IInv, TypeOK, Shape
<1>2. /\ home.inodes = target.inodes /\ home.data = target.data
      /\ home.entries = old.entries \/ home.entries = target.entries
      /\ home.alloc = target.alloc
  BY <1>1 DEF IInv, Replayed, Ordered, Region, Rank
<1>3. home.entries # target.entries
  BY <1>1, <1>2 DEF Homes
<1>4. PICK i \in DOMAIN home.inodes : i # Root /\ \A e \in home.entries : e.target # i
  BY <1>1, <1>2, <1>3
<1> QED
  BY <1>1, <1>4, HasName DEF Fsck

\* fsck (check_device) never takes a partly installed unlink, truncate or
\* overwriting rename, nor a create from its inode table on, for a consistent
\* file system.
THEOREM PartialInstallsRejected == Spec => []PartialInstallRejected
<1>1. IInv => PartialInstallRejected
  BY PartialRelease, PartialCreate DEF PartialInstallRejected
<1> QED
  BY <1>1, Invariance, PTL
=============================================================================
