-------------------------- MODULE FileSystemBlocks --------------------------
(***************************************************************************)
(* The operations of FileSystem that create or remove inodes or change the *)
(* blocks of a file preserve the inductive invariant.                      *)
(***************************************************************************)
EXTENDS FileSystemNames

-----------------------------------------------------------------------------
\* The operations on blocks.

LEMMA BatchFacts ==
  ASSUME NEW S, NEW bs \in Batches(S)
  PROVE  bs \in Seq(S) /\ DOMAIN bs = 1 .. Len(bs)
<1>1. PICK n \in 0 .. MaxBatch : bs \in [1 .. n -> S]
  BY DEF Batches
<1> QED
  BY <1>1, BatchAssumption

\* Allocated blocks were free, and none of them is allocated twice.
Fresh(h, bs) == SeqSet(bs) \subseteq Data \ h.alloc /\ Distinct(bs)

LEMMA AllocatesFacts ==
  ASSUME NEW h, NEW bs \in Seq(Data), Allocates(h, bs)
  PROVE  Fresh(h, bs)
<1>1. \A k \in 1 .. Len(bs) :
        bs[k] \in (Data \ h.alloc) \ {bs[m] : m \in 1 .. (k - 1)}
  BY DEF Allocates
<1>2. \A k, l \in 1 .. Len(bs) : k < l => bs[k] # bs[l]
  <2> SUFFICES ASSUME NEW k \in 1 .. Len(bs), NEW l \in 1 .. Len(bs), k < l
               PROVE bs[k] # bs[l]
    OBVIOUS
  <2>1. k \in 1 .. (l - 1)
    OBVIOUS
  <2> QED
    BY <1>1, <2>1
<1>3. Distinct(bs)
  BY <1>2 DEF Distinct
<1> QED
  BY <1>1, <1>3 DEF SeqSet, Fresh

\* The inode r and its blocks are released.
Removed(h, r, E) == Regions(h.alloc \ Blocks(h, r), WithoutInode(h, r), E, h.data)

LEMMA RemovedInode ==
  ASSUME NEW h, NEW r \in DOMAIN h.inodes, NEW E \in SUBSET Entry, Good(h)
  PROVE  /\ Homes(Removed(h, r, E)) /\ Owned(Removed(h, r, E))
         /\ Keeps(h, Removed(h, r, E), {r})
         /\ \A i : IsDir(Removed(h, r, E), i) <=> IsDir(h, i) /\ i # r
         /\ DOMAIN Removed(h, r, E).inodes = DOMAIN h.inodes \ {r}
         /\ Removed(h, r, E).entries = E
<1> DEFINE t == Removed(h, r, E)
<1>1. /\ t.alloc = h.alloc \ Blocks(h, r) /\ t.inodes = WithoutInode(h, r)
      /\ t.entries = E /\ t.data = h.data
  BY RegionsFacts DEF Removed
<1>2. /\ DOMAIN t.inodes = DOMAIN h.inodes \ {r}
      /\ \A i \in DOMAIN t.inodes : t.inodes[i] = h.inodes[i]
  BY <1>1 DEF WithoutInode
<1>3. Homes(t)
  <2>1. t.inodes \in [DOMAIN t.inodes -> Inode]
    BY <1>1, <1>2 DEF WithoutInode, Good, Homes
  <2> QED
    BY <1>1, <1>2, <2>1 DEF Good, Homes, Removed
<1>4. \A i \in DOMAIN t.inodes : Blocks(t, i) = Blocks(h, i)
  BY <1>2 DEF Blocks
<1>5. OwnershipOK(t)
  BY <1>1, <1>2, <1>4 DEF Good, Owned, OwnershipOK
<1>6. NoLeaks(t)
  <2> SUFFICES ASSUME NEW b \in t.alloc
               PROVE \E i \in DOMAIN t.inodes : b \in Blocks(t, i)
    BY DEF NoLeaks
  <2>1. PICK i \in DOMAIN h.inodes : b \in Blocks(h, i)
    BY <1>1 DEF Good, Owned, NoLeaks
  <2> QED
    BY <1>1, <1>2, <1>4, <2>1
<1>7. Keeps(h, t, {r})
  BY <1>1, <1>2 DEF Keeps, FileContents
<1> QED
  BY <1>1, <1>2, <1>3, <1>5, <1>6, <1>7 DEF Owned, IsDir

LEMMA RenameOverwriteStep ==
  ASSUME IInv, NEW e \in home.entries, NEW f \in home.entries, RenameOverwrite(e, f)
  PROVE  IInv'
<1> DEFINE r == f.target
           t == Removed(home, r, Replaced(e, f))
<1>1. Good(home) /\ "overwrite" \in Ops
  BY IdleIsGood DEF RenameOverwrite, Commit, Ops
<1>2. /\ Commit("overwrite", t, {r}) /\ MayReplace(e, f)
      /\ Links(home, r) = {f}
  BY DEF RenameOverwrite, Removed
<1>3. /\ Replaced(e, f) \in SUBSET Entry
      /\ \A g \in Replaced(e, f) :
           IsDir(home, g.parent) /\ g.target \in DOMAIN home.inodes /\ g.target # r
      /\ \A g, k \in Replaced(e, f) : g.parent = k.parent /\ g.name = k.name => g = k
      /\ \A g : IsDir(home, g.target) => (g \in Replaced(e, f) <=> g \in home.entries)
      /\ \A g \in home.entries \ {f} : \E k \in Replaced(e, f) : k.target = g.target
  BY <1>1, <1>2, ReplacedFacts
<1>4. r \in DOMAIN home.inodes /\ ~ IsDir(home, r) /\ r \in Id
  BY <1>1, <1>2 DEF MayReplace, IsFile, IsDir, Good, Homes
<1> HIDE DEF t
<1>5. /\ Homes(t) /\ Owned(t) /\ Keeps(home, t, {r})
      /\ \A i : IsDir(t, i) <=> IsDir(home, i) /\ i # r
      /\ DOMAIN t.inodes = DOMAIN home.inodes \ {r}
      /\ t.entries = Replaced(e, f)
  BY <1>1, <1>3, <1>4, RemovedInode DEF t
<1>6. ASSUME NEW i \in DOMAIN t.inodes, ~ IsDir(t, i)
      PROVE  \E k \in t.entries : k.target = i
  <2>1. i \in DOMAIN home.inodes /\ i # Root /\ i # r
    BY <1>1, <1>5, <1>6 DEF Good, Named, NamespaceOK
  <2>2. PICK g \in home.entries : g.target = i
    BY <1>1, <2>1, HasName DEF Good, Named
  <2> QED
    BY <1>3, <1>5, <2>1, <2>2
<1>7. \A i : IsDir(home, i) <=> IsDir(t, i)
  BY <1>4, <1>5
<1>8. \A g \in t.entries : IsDir(t, g.parent) /\ g.target \in DOMAIN t.inodes
  BY <1>3, <1>5, <1>7
<1>9. Named(t)
  BY <1>1, <1>3, <1>4, <1>5, <1>6, <1>7, <1>8, FileNames DEF Good
<1>10. Shape("overwrite", home, t)
  <2>1. t.alloc \subseteq home.alloc /\ t.data = home.data
    BY RegionsFacts DEF Removed, t
  <2> QED
    BY <1>5, <2>1 DEF Shape
<1> QED
  BY <1>1, <1>2, <1>4, <1>5, <1>9, <1>10, CommitStep DEF Good
LEMMA UnlinkStep ==
  ASSUME IInv, NEW r \in Id, NEW e \in home.entries, NEW F, Unlink(r, e, F)
  PROVE  IInv'
<1> DEFINE E == home.entries \ {e}
           t == Removed(home, r, E)
<1>1. Good(home) /\ "unlink" \in Ops
  BY IdleIsGood DEF Unlink, Commit, Ops
<1>2. Commit("unlink", t, {r})
  BY DEF Unlink, ValidUnlink, Removed
<1>3. r \in DOMAIN home.inodes /\ r # Root /\ e.target = r /\ Links(home, r) = {e}
  BY DEF Unlink, ValidUnlink
<1>4. \A f \in home.entries : f.parent # r
  <2>1. \A f \in home.entries : IsDir(home, f.parent)
    BY <1>1 DEF Good, Named, NamespaceOK
  <2>2. IsDir(home, r) => \A f \in home.entries : f.parent # r
    BY DEF Unlink, ValidUnlink
  <2> QED
    BY <2>1, <2>2
<1>5. E \in SUBSET Entry
  BY <1>1 DEF Good, Homes
<1>6. /\ Homes(t) /\ Owned(t) /\ Keeps(home, t, {r})
      /\ \A i : IsDir(t, i) <=> IsDir(home, i) /\ i # r
      /\ DOMAIN t.inodes = DOMAIN home.inodes \ {r}
      /\ t.entries = E
  <2> HIDE DEF E
  <2> QED
    BY <1>1, <1>3, <1>5, RemovedInode
<1> HIDE DEF t
<1>7. Acyclic(t)
  <2> SUFFICES ASSUME NEW S \in SUBSET {i \in DOMAIN t.inodes : IsDir(t, i)}, S # {}
               PROVE \E d \in S : \A g \in t.entries : g.parent = d => g.target \notin S
    BY DEF Acyclic
  <2>1. S \in SUBSET {i \in DOMAIN home.inodes : IsDir(home, i)}
    BY <1>6
  <2>2. PICK d \in S : \A g \in home.entries : g.parent = d => g.target \notin S
    BY <1>1, <1>3, <2>1 DEF Good, Named, NamespaceOK, Acyclic
  <2> QED
    BY <1>6, <2>2
<1>8. ASSUME NEW S \in SUBSET Id, Root \in S, Closed(t.entries, S)
      PROVE  DOMAIN t.inodes \subseteq S
  <2>1. Closed(home.entries, S \cup {r})
    BY <1>3, <1>4, <1>6, <1>8 DEF Closed
  <2>2. S \cup {r} \in SUBSET Id /\ Root \in S \cup {r}
    BY <1>8
  <2>3. DOMAIN home.inodes \subseteq S \cup {r}
    BY <1>1, <2>1, <2>2, Reached DEF Good, Named
  <2> QED
    BY <1>6, <2>3
<1>9. DOMAIN t.inodes \subseteq Below(t.entries, Root)
  <2>1. DOMAIN t.inodes \in SUBSET Id
    BY <1>6 DEF Homes
  <2> QED
    BY <1>8, <2>1, Reaches
<1>10. NamespaceOK(t)
  <2>1. \A g \in t.entries : IsDir(t, g.parent) /\ g.target \in DOMAIN t.inodes
    BY <1>1, <1>3, <1>4, <1>6 DEF Good, Named, NamespaceOK, Links
  <2>2. \A g, k \in t.entries : g.parent = k.parent /\ g.name = k.name => g = k
    BY <1>1, <1>6 DEF Good, Named, NamespaceOK
  <2>3. IsDir(t, Root)
    BY <1>1, <1>3, <1>6 DEF Good, Named, NamespaceOK
  <2> QED
    BY <1>7, <1>9, <2>1, <2>2, <2>3 DEF NamespaceOK
<1>11. Tree(t)
  <2> SUFFICES ASSUME NEW i \in DOMAIN t.inodes, IsDir(t, i)
               PROVE IF i = Root THEN Links(t, i) = {}
                     ELSE \E g \in t.entries : Links(t, i) = {g}
    BY DEF Tree
  <2>1. IF i = Root THEN Links(home, i) = {}
        ELSE \E g \in home.entries : Links(home, i) = {g}
    BY <1>1, <1>6 DEF Good, Named, Tree
  <2>2. Links(t, i) = Links(home, i)
    BY <1>3, <1>6 DEF Links
  <2>3. ASSUME NEW g \in home.entries, Links(home, i) = {g} PROVE g \in t.entries
    BY <2>2, <2>3 DEF Links
  <2> QED
    BY <2>1, <2>2, <2>3
<1>12. Shape("unlink", home, t)
  <2>1. t.alloc \subseteq home.alloc /\ t.data = home.data
    BY RegionsFacts DEF Removed, t
  <2> QED
    BY <1>3, <1>6, <2>1 DEF Shape
<1> QED
  BY <1>1, <1>2, <1>6, <1>10, <1>11, <1>12, CommitStep DEF Good, Named

\* A new inode with newly allocated blocks.
Added(h, i, kind, bs, E) ==
  Regions(h.alloc \cup SeqSet(bs), WithInode(h, i, kind, bs), E, h.data)

LEMMA AddedInode ==
  ASSUME NEW h, NEW i \in Id, NEW kind \in Kind, NEW bs \in Seq(Data),
         NEW E \in SUBSET Entry, NEW who, Good(h), i \notin DOMAIN h.inodes,
         Fresh(h, bs)
  PROVE  /\ Homes(Added(h, i, kind, bs, E)) /\ Owned(Added(h, i, kind, bs, E))
         /\ Keeps(h, Added(h, i, kind, bs, E), who)
         /\ \A j : IsDir(Added(h, i, kind, bs, E), j)
                     <=> IsDir(h, j) \/ (j = i /\ kind = "dir")
         /\ DOMAIN Added(h, i, kind, bs, E).inodes = DOMAIN h.inodes \cup {i}
         /\ Added(h, i, kind, bs, E).entries = E
<1> DEFINE t == Added(h, i, kind, bs, E)
<1> USE DEF Fresh
<1>1. /\ t.alloc = h.alloc \cup SeqSet(bs) /\ t.inodes = WithInode(h, i, kind, bs)
      /\ t.entries = E /\ t.data = h.data
  BY RegionsFacts DEF Added
<1>2. /\ DOMAIN t.inodes = DOMAIN h.inodes \cup {i}
      /\ \A j \in DOMAIN h.inodes : t.inodes[j] = h.inodes[j]
      /\ t.inodes[i].kind = kind /\ t.inodes[i].blocks = bs
      /\ t.inodes[i] \in Inode
  BY <1>1 DEF WithInode, Inode
<1>3. Homes(t)
  <2>1. \A j \in DOMAIN t.inodes : t.inodes[j] \in Inode
    BY <1>2 DEF Good, Homes
  <2>2. t.inodes \in [DOMAIN t.inodes -> Inode]
    BY <1>1, <2>1 DEF WithInode
  <2>3. t.alloc \subseteq Data /\ DOMAIN t.inodes \subseteq Id /\ t.data \in [Data -> Value]
    BY <1>1, <1>2 DEF Good, Homes
  <2>4. t = Regions(t.alloc, t.inodes, t.entries, t.data)
    BY <1>1 DEF Added
  <2> QED
    BY <1>1, <2>2, <2>3, <2>4 DEF Homes
<1>4. /\ \A j \in DOMAIN h.inodes : Blocks(t, j) = Blocks(h, j)
      /\ Blocks(t, i) = SeqSet(bs)
  BY <1>2 DEF Blocks, SeqSet
<1> HIDE DEF t
<1>5. OwnershipOK(t)
  <2>1. \A j \in DOMAIN t.inodes : Blocks(t, j) \subseteq t.alloc
    BY <1>1, <1>2, <1>4 DEF Good, Owned, OwnershipOK
  <2>2. \A j \in DOMAIN t.inodes : Distinct(t.inodes[j].blocks)
    BY <1>2 DEF Good, Owned, OwnershipOK
  <2>3. \A j \in DOMAIN h.inodes : Blocks(t, j) \cap Blocks(t, i) = {}
    BY <1>4 DEF Good, Owned, OwnershipOK
  <2>4. \A j, k \in DOMAIN t.inodes : j # k => Blocks(t, j) \cap Blocks(t, k) = {}
    BY <1>2, <1>4, <2>3 DEF Good, Owned, OwnershipOK
  <2> QED
    BY <2>1, <2>2, <2>4 DEF OwnershipOK
<1>6. NoLeaks(t)
  <2> SUFFICES ASSUME NEW b \in t.alloc
               PROVE \E j \in DOMAIN t.inodes : b \in Blocks(t, j)
    BY DEF NoLeaks
  <2>1. CASE b \in h.alloc
    <3>1. PICK j \in DOMAIN h.inodes : b \in Blocks(h, j)
      BY <2>1 DEF Good, Owned, NoLeaks
    <3> QED
      BY <1>2, <1>4, <3>1
  <2>2. CASE b \in SeqSet(bs)
    BY <1>2, <1>4, <2>2
  <2> QED
    BY <1>1, <2>1, <2>2
<1>7. Keeps(h, t, who)
  BY <1>1, <1>2 DEF Keeps, FileContents
<1>8. \A j : IsDir(t, j) <=> IsDir(h, j) \/ (j = i /\ kind = "dir")
  BY <1>2 DEF IsDir
<1> QED
  BY <1>1, <1>2, <1>3, <1>5, <1>6, <1>7, <1>8 DEF Owned, t
LEMMA CreateStep ==
  ASSUME IInv, NEW i \in Id, NEW kind \in Kind, NEW p \in Id, NEW n \in Name,
         NEW bs \in Batches(Data), Create(i, kind, p, n, bs)
  PROVE  IInv'
<1> DEFINE x == [parent |-> p, name |-> n, target |-> i]
           E == home.entries \cup {x}
           t == Added(home, i, kind, bs, E)
<1>1. Good(home) /\ "create" \in Ops
  BY IdleIsGood DEF Create, Commit, Ops
<1>2. Commit("create", t, {i})
  BY DEF Create, Added
<1>3. /\ i \notin DOMAIN home.inodes /\ i # Root /\ IsDir(home, p)
      /\ NameFree(home, p, n)
  BY DEF Create
<1>4. bs \in Seq(Data) /\ Fresh(home, bs)
  BY BatchFacts, AllocatesFacts DEF Create
<1>5. x \in Entry /\ x.parent = p /\ x.name = n /\ x.target = i
  BY DEF Entry
<1> HIDE DEF x
<1>6. E \in SUBSET Entry
  BY <1>1, <1>5 DEF Good, Homes
<1>7. /\ Homes(t) /\ Owned(t) /\ Keeps(home, t, {i})
      /\ \A j : IsDir(t, j) <=> IsDir(home, j) \/ (j = i /\ kind = "dir")
      /\ DOMAIN t.inodes = DOMAIN home.inodes \cup {i}
      /\ t.entries = E
  <2> HIDE DEF E
  <2> QED
    BY <1>1, <1>3, <1>4, <1>6, AddedInode
<1> HIDE DEF t
<1>8. p # i /\ \A g \in home.entries : g.parent # i /\ g.target # i
  BY <1>1, <1>3 DEF Good, Named, NamespaceOK, IsDir
<1>9. Acyclic(t)
  <2> SUFFICES ASSUME NEW S \in SUBSET {j \in DOMAIN t.inodes : IsDir(t, j)}, S # {}
               PROVE \E d \in S : \A g \in t.entries : g.parent = d => g.target \notin S
    BY DEF Acyclic
  <2>1. CASE i \in S
    BY <1>5, <1>7, <1>8, <2>1
  <2>2. CASE i \notin S
    <3>1. S \in SUBSET {j \in DOMAIN home.inodes : IsDir(home, j)}
      BY <1>7, <2>2
    <3>2. PICK d \in S : \A g \in home.entries : g.parent = d => g.target \notin S
      BY <1>1, <1>3, <3>1 DEF Good, Named, NamespaceOK, Acyclic, IsDir
    <3> QED
      BY <1>5, <1>7, <2>2, <3>2
  <2> QED
    BY <2>1, <2>2
<1>10. ASSUME NEW S \in SUBSET Id, Root \in S, Closed(t.entries, S)
       PROVE  DOMAIN t.inodes \subseteq S
  <2>1. Closed(home.entries, S) /\ (p \in S => i \in S)
    BY <1>5, <1>7, <1>10 DEF Closed
  <2>2. DOMAIN home.inodes \subseteq S
    BY <1>1, <1>10, <2>1, Reached DEF Good, Named
  <2> QED
    BY <1>3, <1>7, <2>1, <2>2 DEF IsDir
<1>11. DOMAIN t.inodes \subseteq Below(t.entries, Root)
  <2>1. DOMAIN t.inodes \in SUBSET Id
    BY <1>7 DEF Homes
  <2> QED
    BY <1>10, <2>1, Reaches
<1>12. NamespaceOK(t)
  <2>1. \A g \in t.entries : IsDir(t, g.parent) /\ g.target \in DOMAIN t.inodes
    BY <1>1, <1>3, <1>5, <1>7 DEF Good, Named, NamespaceOK
  <2>2. \A g, k \in t.entries : g.parent = k.parent /\ g.name = k.name => g = k
    BY <1>1, <1>3, <1>5, <1>7 DEF Good, Named, NamespaceOK, NameFree
  <2>3. IsDir(t, Root)
    BY <1>1, <1>3, <1>7 DEF Good, Named, NamespaceOK, IsDir
  <2> QED
    BY <1>9, <1>11, <2>1, <2>2, <2>3 DEF NamespaceOK
<1>13. Tree(t)
  <2> SUFFICES ASSUME NEW j \in DOMAIN t.inodes, IsDir(t, j)
               PROVE IF j = Root THEN Links(t, j) = {}
                     ELSE \E g \in t.entries : Links(t, j) = {g}
    BY DEF Tree
  <2>1. CASE j = i
    <3>1. Links(t, j) = {x}
      BY <1>5, <1>7, <1>8, <2>1 DEF Links
    <3> QED
      BY <1>3, <1>7, <2>1, <3>1
  <2>2. CASE j # i
    <3>1. Links(t, j) = Links(home, j)
      BY <1>5, <1>7, <2>2 DEF Links
    <3>2. IF j = Root THEN Links(home, j) = {}
          ELSE \E g \in home.entries : Links(home, j) = {g}
      BY <1>1, <1>7, <2>2 DEF Good, Named, Tree
    <3> QED
      BY <1>7, <3>1, <3>2
  <2> QED
    BY <2>1, <2>2
<1>14. Shape("create", home, t)
  <2>1. t.data = home.data
    BY RegionsFacts DEF Added, t
  <2> QED
    BY <1>3, <1>7, <1>8, <2>1 DEF Shape
<1> QED
  BY <1>1, <1>2, <1>7, <1>12, <1>13, <1>14, CommitStep DEF Good, Named

LEMMA MakeRootStep == IInv /\ pc = "idle" /\ MakeRoot => IInv'
<1> SUFFICES ASSUME IInv, MakeRoot PROVE IInv'
  OBVIOUS
<1> DEFINE t == Added(home, Root, "dir", NoBlocks, home.entries)
<1>1. Good(home) /\ "create" \in Ops /\ DOMAIN home.inodes = {}
  BY IdleIsGood DEF MakeRoot, Commit, Ops
<1>2. home.entries = {}
  BY <1>1 DEF Good, Named, NamespaceOK
<1>3. /\ NoBlocks \in Seq(Data) /\ SeqSet(NoBlocks) = {} /\ Distinct(NoBlocks)
      /\ "dir" \in Kind /\ home.entries \in SUBSET Entry
  BY <1>2 DEF NoBlocks, SeqSet, Distinct, Kind
<1>4. Commit("create", t, {})
  <2>1. home.alloc = home.alloc \cup SeqSet(NoBlocks)
    BY <1>3
  <2> QED
    BY <2>1 DEF MakeRoot, Added
<1>5. Fresh(home, NoBlocks) /\ Root \notin DOMAIN home.inodes
  BY <1>1, <1>3 DEF Fresh
<1>6. /\ Homes(t) /\ Owned(t) /\ Keeps(home, t, {})
      /\ IsDir(t, Root) /\ DOMAIN t.inodes = {Root} /\ t.entries = {}
  <2>1. Homes(t) /\ Owned(t) /\ Keeps(home, t, {})
    BY <1>1, <1>3, <1>5, AddedInode, IdAssumption
  <2>2. IsDir(t, Root)
    BY DEF Added, Regions, WithInode, IsDir
  <2>3. DOMAIN t.inodes = DOMAIN home.inodes \cup {Root} /\ t.entries = home.entries
    BY DEF Added, Regions, WithInode
  <2> QED
    BY <1>1, <1>2, <2>1, <2>2, <2>3
<1> HIDE DEF t
<1>7. Acyclic(t)
  BY <1>6 DEF Acyclic
<1>8. DOMAIN t.inodes \subseteq Below(t.entries, Root)
  BY <1>6, BelowFacts, IdAssumption
<1>9. NamespaceOK(t)
  BY <1>6, <1>7, <1>8 DEF NamespaceOK
<1>10. Tree(t)
  BY <1>6 DEF Tree, Links
<1>11. Shape("create", home, t)
  <2>1. t.data = home.data
    BY RegionsFacts DEF Added, t
  <2> QED
    BY <1>2, <1>6, <2>1 DEF Shape
<1> QED
  BY <1>1, <1>4, <1>6, <1>9, <1>10, <1>11, CommitStep DEF Good, Named
\* The block list of inode i becomes bs, the bitmap and the contents follow.
Reblocked(h, i, bs, al, da) == Regions(al, WithBlocks(h, i, bs), h.entries, da)

LEMMA ReblockedFacts ==
  ASSUME NEW h, NEW i \in DOMAIN h.inodes, NEW bs \in Seq(Data),
         NEW al \in SUBSET Data, NEW da \in [Data -> Value], Good(h), Distinct(bs),
         \A b : b \in al <=> (b \in h.alloc /\ b \notin Blocks(h, i)) \/ b \in SeqSet(bs),
         \A b \in SeqSet(bs) : b \in h.alloc => b \in Blocks(h, i),
         \A b \in h.alloc : b \notin Blocks(h, i) => da[b] = h.data[b]
  PROVE  Good(Reblocked(h, i, bs, al, da)) /\ Keeps(h, Reblocked(h, i, bs, al, da), {i})
<1> DEFINE t == Reblocked(h, i, bs, al, da)
<1>1. /\ t.alloc = al /\ t.inodes = WithBlocks(h, i, bs)
      /\ t.entries = h.entries /\ t.data = da
  BY RegionsFacts DEF Reblocked
<1>2. h.inodes \in [DOMAIN h.inodes -> Inode]
  BY DEF Good, Homes
<1>3. /\ DOMAIN t.inodes = DOMAIN h.inodes
      /\ \A j \in DOMAIN h.inodes : j # i => t.inodes[j] = h.inodes[j]
      /\ t.inodes[i].kind = h.inodes[i].kind /\ t.inodes[i].blocks = bs
      /\ t.inodes[i] \in Inode
  BY <1>1, <1>2 DEF WithBlocks, Inode
<1>4. Homes(t)
  <2>1. t.inodes \in [DOMAIN t.inodes -> Inode]
    BY <1>1, <1>2, <1>3 DEF WithBlocks
  <2>2. t = Regions(t.alloc, t.inodes, t.entries, t.data)
    BY <1>1 DEF Reblocked
  <2>3. DOMAIN t.inodes \subseteq Id /\ t.entries \subseteq Entry
    BY <1>1, <1>3 DEF Good, Homes
  <2> QED
    BY <1>1, <2>1, <2>2, <2>3 DEF Homes
<1> HIDE DEF t
<1>5. /\ \A j \in DOMAIN h.inodes : j # i => Blocks(t, j) = Blocks(h, j)
      /\ Blocks(t, i) = SeqSet(bs)
  BY <1>3 DEF Blocks, SeqSet
<1>6. /\ \A j \in DOMAIN h.inodes : Blocks(h, j) \subseteq h.alloc
      /\ \A j \in DOMAIN h.inodes : j # i => Blocks(h, j) \cap Blocks(h, i) = {}
      /\ \A j, k \in DOMAIN h.inodes : j # k => Blocks(h, j) \cap Blocks(h, k) = {}
  BY DEF Good, Owned, OwnershipOK
<1>7. OwnershipOK(t)
  <2>1. \A j \in DOMAIN h.inodes : Blocks(t, j) \subseteq t.alloc
    <3> SUFFICES ASSUME NEW j \in DOMAIN h.inodes, NEW b \in Blocks(t, j)
                 PROVE b \in al
      BY <1>1
    <3>1. CASE j = i
      BY <1>5, <3>1
    <3>2. CASE j # i
      BY <1>5, <1>6, <3>2
    <3> QED
      BY <3>1, <3>2
  <2>2. \A j \in DOMAIN h.inodes : Distinct(t.inodes[j].blocks)
    BY <1>3 DEF Good, Owned, OwnershipOK
  <2>3. \A j \in DOMAIN h.inodes : j # i => Blocks(t, j) \cap Blocks(t, i) = {}
    BY <1>5, <1>6
  <2>4. \A j, k \in DOMAIN h.inodes : j # k => Blocks(t, j) \cap Blocks(t, k) = {}
    BY <1>5, <1>6, <2>3
  <2> QED
    BY <1>3, <2>1, <2>2, <2>4 DEF OwnershipOK
<1>8. NoLeaks(t)
  <2> SUFFICES ASSUME NEW b \in t.alloc
               PROVE \E j \in DOMAIN t.inodes : b \in Blocks(t, j)
    BY DEF NoLeaks
  <2>1. CASE b \in SeqSet(bs)
    BY <1>3, <1>5, <2>1
  <2>2. CASE b \notin SeqSet(bs)
    <3>1. b \in h.alloc /\ b \notin Blocks(h, i)
      BY <1>1, <2>2
    <3>2. PICK j \in DOMAIN h.inodes : b \in Blocks(h, j)
      BY <3>1 DEF Good, Owned, NoLeaks
    <3> QED
      BY <1>3, <1>5, <3>1, <3>2
  <2> QED
    BY <2>1, <2>2
<1>9. Named(t)
  BY <1>1, <1>3, SameKinds DEF Good
<1>10. Keeps(h, t, {i})
  <2> SUFFICES ASSUME NEW j \in DOMAIN h.inodes, j # i
               PROVE FileContents(t, j) = FileContents(h, j)
    BY <1>3 DEF Keeps
  <2>1. t.inodes[j] = h.inodes[j]
    BY <1>3
  <2>2. \A k \in 1 .. Len(h.inodes[j].blocks) : h.inodes[j].blocks[k] \in Blocks(h, j)
    BY DEF Blocks
  <2>3. \A b \in Blocks(h, j) : da[b] = h.data[b]
    BY <1>6
  <2>4. \A k \in 1 .. Len(h.inodes[j].blocks) :
          t.data[h.inodes[j].blocks[k]] = h.data[h.inodes[j].blocks[k]]
    BY <1>1, <2>2, <2>3
  <2> QED
    BY <2>1, <2>4 DEF FileContents
<1> QED
  BY <1>4, <1>7, <1>8, <1>9, <1>10 DEF Good, Owned, t

LEMMA InodeFacts ==
  ASSUME Good(home), NEW i, IsFile(home, i)
  PROVE  /\ i \in DOMAIN home.inodes /\ i \in Id
         /\ home.inodes[i].blocks \in Seq(Data)
         /\ Distinct(home.inodes[i].blocks)
         /\ Blocks(home, i) \subseteq home.alloc
         /\ home.alloc \in SUBSET Data /\ home.data \in [Data -> Value]
  BY DEF Good, Homes, Owned, OwnershipOK, IsFile, Inode

LEMMA TruncateStep ==
  ASSUME IInv, NEW i, NEW n \in Nat, TruncateToBlocks(i, n)
  PROVE  IInv'
<1> DEFINE s == home.inodes[i].blocks
           bs == SubSeq(s, 1, n)
           al == home.alloc \ {s[k] : k \in (n + 1) .. Len(s)}
           t == Reblocked(home, i, bs, al, home.data)
<1>1. Good(home) /\ "truncate" \in Ops
  BY IdleIsGood DEF TruncateToBlocks, Commit, Ops
<1>2. Commit("truncate", t, {i}) /\ n < Len(s) /\ IsFile(home, i)
  BY DEF TruncateToBlocks, Reblocked
<1>3. /\ i \in DOMAIN home.inodes /\ i \in Id /\ s \in Seq(Data) /\ Distinct(s)
      /\ Blocks(home, i) \subseteq home.alloc
      /\ home.alloc \in SUBSET Data /\ home.data \in [Data -> Value]
  BY <1>1, <1>2, InodeFacts
<1>4. Blocks(home, i) = {s[k] : k \in 1 .. Len(s)}
  BY DEF Blocks
<1> HIDE DEF s
<1>5. bs \in Seq(Data) /\ Len(bs) = n /\ \A k \in 1 .. n : bs[k] = s[k]
  BY <1>2, <1>3
<1>6. SeqSet(bs) = {s[k] : k \in 1 .. n}
  BY <1>5 DEF SeqSet
<1>7. Distinct(bs)
  BY <1>2, <1>3, <1>5 DEF Distinct
<1>8. \A b \in SeqSet(bs) : b \notin {s[k] : k \in (n + 1) .. Len(s)}
  BY <1>2, <1>3, <1>6 DEF Distinct
<1>9. \A b : b \in Blocks(home, i) <=>
               b \in SeqSet(bs) \/ b \in {s[k] : k \in (n + 1) .. Len(s)}
  BY <1>2, <1>3, <1>4, <1>6
<1>10. \A b : b \in al <=>
                (b \in home.alloc /\ b \notin Blocks(home, i)) \/ b \in SeqSet(bs)
  BY <1>3, <1>8, <1>9
<1>11. al \in SUBSET Data /\ \A b \in SeqSet(bs) : b \in home.alloc => b \in Blocks(home, i)
  BY <1>3, <1>9
<1> HIDE DEF bs, al
<1>12. Good(t) /\ Keeps(home, t, {i})
  BY <1>1, <1>3, <1>5, <1>7, <1>10, <1>11, ReblockedFacts
<1>13. Shape("truncate", home, t)
  <2>1. t.alloc = al /\ t.data = home.data /\ t.entries = home.entries
    BY RegionsFacts DEF Reblocked
  <2> QED
    BY <2>1 DEF Shape, al
<1> HIDE DEF t
<1> QED
  BY <1>1, <1>2, <1>3, <1>12, <1>13, CommitStep
LEMMA WrittenFacts ==
  ASSUME Good(home), NEW ws \in Seq(Data), NEW vs \in [1 .. Len(ws) -> Value]
  PROVE  /\ Written(home, ws, vs) \in [Data -> Value]
         /\ \A b \in Data : b \notin SeqSet(ws) => Written(home, ws, vs)[b] = home.data[b]
<1>1. home.data \in [Data -> Value]
  BY DEF Good, Homes
<1>2. ASSUME NEW b \in Data, \E k \in 1 .. Len(ws) : ws[k] = b
      PROVE  vs[CHOOSE k \in 1 .. Len(ws) : ws[k] = b] \in Value
  BY <1>2
<1>3. Written(home, ws, vs) \in [Data -> Value]
  BY <1>1, <1>2 DEF Written
<1>4. \A b \in Data : b \notin SeqSet(ws) => Written(home, ws, vs)[b] = home.data[b]
  BY DEF Written, SeqSet
<1> QED
  BY <1>3, <1>4

Concat(A, B, C) == A \o B \o C

LEMMA ConcatFacts ==
  ASSUME NEW A \in Seq(Data), NEW B \in Seq(Data), NEW C \in Seq(Data)
  PROVE  /\ Concat(A, B, C) \in Seq(Data)
         /\ Len(Concat(A, B, C)) = Len(A) + Len(B) + Len(C)
         /\ \A k \in 1 .. Len(A) : Concat(A, B, C)[k] = A[k]
         /\ \A k \in 1 .. Len(B) : Concat(A, B, C)[Len(A) + k] = B[k]
         /\ \A k \in 1 .. Len(C) : Concat(A, B, C)[Len(A) + Len(B) + k] = C[k]
<1> DEFINE D == A \o B
<1>1. D \in Seq(Data) /\ Len(D) = Len(A) + Len(B)
  OBVIOUS
<1>2. /\ \A k \in 1 .. Len(A) : D[k] = A[k]
      /\ \A k \in 1 .. Len(B) : D[Len(A) + k] = B[k]
  OBVIOUS
<1> HIDE DEF D
<1>3. D \o C \in Seq(Data) /\ Len(D \o C) = Len(D) + Len(C)
  <2>1. D \in Seq(Data)
    BY <1>1
  <2> QED
    BY <2>1
<1>4. /\ \A k \in 1 .. Len(D) : (D \o C)[k] = D[k]
      /\ \A k \in 1 .. Len(C) : (D \o C)[Len(D) + k] = C[k]
  BY <1>1
<1>5. \A k \in 1 .. Len(A) : (D \o C)[k] = A[k]
  BY <1>1, <1>2, <1>4
<1>6. \A k \in 1 .. Len(B) : (D \o C)[Len(A) + k] = B[k]
  <2> TAKE k \in 1 .. Len(B)
  <2>1. Len(A) + k \in 1 .. Len(D)
    BY <1>1
  <2> QED
    BY <1>2, <1>4, <2>1
<1> QED
  BY <1>1, <1>3, <1>4, <1>5, <1>6 DEF D, Concat

LEMMA InsertedIndex ==
  ASSUME NEW s \in Seq(Data), NEW bs \in Seq(Data), NEW n \in 0 .. Len(s)
  PROVE  /\ Inserted(s, n, bs) \in Seq(Data)
         /\ Len(Inserted(s, n, bs)) = Len(s) + Len(bs)
         /\ \A k \in 1 .. n : Inserted(s, n, bs)[k] = s[k]
         /\ \A k \in 1 .. Len(bs) : Inserted(s, n, bs)[n + k] = bs[k]
         /\ \A k \in (n + 1) .. Len(s) : Inserted(s, n, bs)[Len(bs) + k] = s[k]
<1> DEFINE A == SubSeq(s, 1, n)
           C == SubSeq(s, n + 1, Len(s))
           r == Inserted(s, n, bs)
<1>1. A \in Seq(Data) /\ Len(A) = n /\ \A k \in 1 .. n : A[k] = s[k]
  OBVIOUS
<1>2. C \in Seq(Data) /\ Len(C) = Len(s) - n
  OBVIOUS
<1>3. \A k \in 1 .. (Len(s) - n) : C[k] = s[n + k]
  OBVIOUS
<1>4. r = Concat(A, bs, C)
  BY DEF Concat, Inserted
<1> HIDE DEF A, C, r
<1>5. /\ r \in Seq(Data) /\ Len(r) = n + Len(bs) + (Len(s) - n)
      /\ \A k \in 1 .. n : r[k] = A[k]
      /\ \A k \in 1 .. Len(bs) : r[n + k] = bs[k]
      /\ \A k \in 1 .. (Len(s) - n) : r[n + Len(bs) + k] = C[k]
  <2>1. A \in Seq(Data) /\ bs \in Seq(Data) /\ C \in Seq(Data)
    BY <1>1, <1>2
  <2>2. /\ Concat(A, bs, C) \in Seq(Data)
        /\ Len(Concat(A, bs, C)) = Len(A) + Len(bs) + Len(C)
        /\ \A k \in 1 .. Len(A) : Concat(A, bs, C)[k] = A[k]
        /\ \A k \in 1 .. Len(bs) : Concat(A, bs, C)[Len(A) + k] = bs[k]
        /\ \A k \in 1 .. Len(C) : Concat(A, bs, C)[Len(A) + Len(bs) + k] = C[k]
    BY <2>1, ConcatFacts
  <2>3. Len(A) = n /\ Len(C) = Len(s) - n
    BY <1>1, <1>2
  <2> QED
    BY <1>4, <2>2, <2>3, Zenon
<1>6. ASSUME NEW k \in (n + 1) .. Len(s) PROVE r[Len(bs) + k] = s[k]
  <2>1. k - n \in 1 .. (Len(s) - n) /\ n + Len(bs) + (k - n) = Len(bs) + k /\ n + (k - n) = k
    OBVIOUS
  <2> QED
    BY <1>3, <1>5, <2>1
<1>7. Len(r) = Len(s) + Len(bs)
  BY <1>5
<1> QED
  BY <1>1, <1>5, <1>6, <1>7 DEF r

\* The blocks of bs inserted into s after the first n.
LEMMA InsertedFacts ==
  ASSUME NEW s \in Seq(Data), NEW bs \in Seq(Data), NEW n \in 0 .. Len(s),
         Distinct(s), Distinct(bs),
         \A k \in 1 .. Len(s), l \in 1 .. Len(bs) : s[k] # bs[l]
  PROVE  /\ Inserted(s, n, bs) \in Seq(Data) /\ Distinct(Inserted(s, n, bs))
         /\ \A b : b \in SeqSet(Inserted(s, n, bs))
                      <=> b \in SeqSet(s) \/ b \in SeqSet(bs)
<1> DEFINE m == Len(bs)
           r == Inserted(s, n, bs)
<1>1. r \in Seq(Data) /\ Len(r) = Len(s) + m
  BY InsertedIndex
<1>2. \A k \in 1 .. n : r[k] = s[k]
  BY InsertedIndex
<1>3. \A k \in 1 .. m : r[n + k] = bs[k]
  BY InsertedIndex
<1>4. \A k \in (n + 1) .. Len(s) : r[m + k] = s[k]
  BY InsertedIndex
<1> HIDE DEF r
<1>5. \A k \in 1 .. Len(r) :
        \/ k \in 1 .. n /\ r[k] = s[k]
        \/ k - n \in 1 .. m /\ r[k] = bs[k - n]
        \/ k - m \in (n + 1) .. Len(s) /\ r[k] = s[k - m]
  <2> SUFFICES ASSUME NEW k \in 1 .. Len(r), k \notin 1 .. n, k - n \notin 1 .. m
               PROVE k - m \in (n + 1) .. Len(s) /\ r[k] = s[k - m]
    BY <1>1, <1>2, <1>3
  <2>1. k - m \in (n + 1) .. Len(s) /\ m + (k - m) = k
    BY <1>1
  <2> QED
    BY <1>4, <2>1
<1>6. \A b \in SeqSet(r) : b \in SeqSet(s) \/ b \in SeqSet(bs)
  <2> SUFFICES ASSUME NEW k \in 1 .. Len(r) PROVE r[k] \in SeqSet(s) \/ r[k] \in SeqSet(bs)
    BY DEF SeqSet
  <2>1. CASE k \in 1 .. n /\ r[k] = s[k]
    <3>1. k \in 1 .. Len(s)
      BY <2>1
    <3> QED
      BY <2>1, <3>1 DEF SeqSet
  <2>2. CASE k - n \in 1 .. m /\ r[k] = bs[k - n]
    BY <2>2 DEF SeqSet
  <2>3. CASE k - m \in (n + 1) .. Len(s) /\ r[k] = s[k - m]
    <3>1. k - m \in 1 .. Len(s)
      BY <2>3
    <3> QED
      BY <2>3, <3>1 DEF SeqSet
  <2> QED
    BY <1>5, <2>1, <2>2, <2>3
<1>7. \A b \in SeqSet(bs) : b \in SeqSet(r)
  <2> SUFFICES ASSUME NEW k \in 1 .. m PROVE bs[k] \in SeqSet(r)
    BY DEF SeqSet
  <2>1. n + k \in 1 .. Len(r) /\ r[n + k] = bs[k]
    BY <1>1, <1>3
  <2> QED
    BY <2>1 DEF SeqSet
<1>8. \A b \in SeqSet(s) : b \in SeqSet(r)
  <2> SUFFICES ASSUME NEW k \in 1 .. Len(s) PROVE s[k] \in SeqSet(r)
    BY DEF SeqSet
  <2>1. CASE k <= n
    <3>1. k \in 1 .. Len(r) /\ r[k] = s[k]
      BY <1>1, <1>2, <2>1
    <3> QED
      BY <3>1 DEF SeqSet
  <2>2. CASE k > n
    <3>1. m + k \in 1 .. Len(r) /\ r[m + k] = s[k]
      BY <1>1, <1>4, <2>2
    <3> QED
      BY <3>1 DEF SeqSet
  <2> QED
    BY <2>1, <2>2
<1>9. Distinct(r)
  <2> HIDE DEF m
  <2> SUFFICES ASSUME NEW k \in 1 .. Len(r), NEW l \in 1 .. Len(r), r[k] = r[l], k < l
               PROVE FALSE
    BY <1>1 DEF Distinct
  <2>1. m = Len(bs) /\ m \in Nat /\ n \in Nat /\ Len(s) \in Nat /\ Len(r) \in Nat
    BY <1>1 DEF m
  <2>2. /\ \A a, b \in 1 .. Len(s) : s[a] = s[b] => a = b
        /\ \A a, b \in 1 .. m : bs[a] = bs[b] => a = b
        /\ \A a \in 1 .. Len(s), b \in 1 .. m : s[a] # bs[b]
    BY <2>1 DEF Distinct
  <2>3. CASE k \in 1 .. n /\ r[k] = s[k]
    <3>1. k \in 1 .. Len(s)
      BY <2>1, <2>3
    <3>2. CASE l \in 1 .. n /\ r[l] = s[l]
      <4>1. l \in 1 .. Len(s) /\ k # l
        BY <2>1, <3>2
      <4> QED
        BY <2>2, <2>3, <3>1, <3>2, <4>1
    <3>3. CASE l - n \in 1 .. m /\ r[l] = bs[l - n]
      BY <2>1, <2>2, <2>3, <3>1, <3>3
    <3>4. CASE l - m \in (n + 1) .. Len(s) /\ r[l] = s[l - m]
      <4>1. l - m \in 1 .. Len(s) /\ k # l - m
        BY <2>1, <2>3, <3>4
      <4> QED
        BY <2>2, <2>3, <3>1, <3>4, <4>1
    <3> QED
      BY <1>5, <3>2, <3>3, <3>4
  <2>4. CASE k - n \in 1 .. m /\ r[k] = bs[k - n]
    <3>1. l \notin 1 .. n
      BY <2>1, <2>4
    <3>2. CASE l - n \in 1 .. m /\ r[l] = bs[l - n]
      <4>1. k - n # l - n
        BY <2>1
      <4> QED
        BY <2>2, <2>4, <3>2, <4>1
    <3>3. CASE l - m \in (n + 1) .. Len(s) /\ r[l] = s[l - m]
      <4>1. l - m \in 1 .. Len(s)
        BY <2>1, <3>3
      <4>2. s[l - m] # bs[k - n]
        BY <2>2, <2>4, <4>1
      <4> QED
        BY <2>4, <3>3, <4>2
    <3> QED
      BY <1>5, <3>1, <3>2, <3>3
  <2>5. CASE k - m \in (n + 1) .. Len(s) /\ r[k] = s[k - m]
    <3>1. l \notin 1 .. n /\ l - n \notin 1 .. m
      BY <2>1, <2>5
    <3>2. l - m \in (n + 1) .. Len(s) /\ r[l] = s[l - m]
      BY <1>5, <3>1
    <3>3. k - m \in 1 .. Len(s) /\ l - m \in 1 .. Len(s)
      BY <2>1, <2>5, <3>2
    <3>4. k - m = l - m
      BY <2>2, <2>5, <3>2, <3>3
    <3> QED
      BY <2>1, <3>4
  <2> QED
    BY <1>5, <2>3, <2>4, <2>5
<1> QED
  BY <1>1, <1>6, <1>7, <1>8, <1>9 DEF r
LEMMA GrowStep ==
  ASSUME IInv, NEW i, NEW n \in Nat, NEW bs \in Seq(Data),
         NEW vs \in [1 .. Len(bs) -> Value], Grow(i, n, bs, vs)
  PROVE  IInv'
<1> DEFINE s == home.inodes[i].blocks
           nb == Inserted(s, n, bs)
           al == home.alloc \cup SeqSet(bs)
           da == Written(home, bs, vs)
           t == Reblocked(home, i, nb, al, da)
<1>1. Good(home) /\ "append" \in Ops
  BY IdleIsGood DEF Grow, Commit, Ops
<1>2. Commit("append", t, {i}) /\ n <= Len(s) /\ IsFile(home, i)
  BY DEF Grow, Reblocked
<1>3. /\ i \in DOMAIN home.inodes /\ i \in Id /\ s \in Seq(Data) /\ Distinct(s)
      /\ Blocks(home, i) \subseteq home.alloc
      /\ home.alloc \in SUBSET Data
  BY <1>1, <1>2, InodeFacts
<1>4. Blocks(home, i) = SeqSet(s)
  BY DEF Blocks, SeqSet
<1>5. Distinct(bs) /\ SeqSet(bs) \subseteq Data /\ \A b \in SeqSet(bs) : b \notin home.alloc
  BY AllocatesFacts DEF Grow, Fresh
<1> HIDE DEF s
<1>6. \A k \in 1 .. Len(s), l \in 1 .. Len(bs) : s[k] # bs[l]
  BY <1>3, <1>4, <1>5 DEF SeqSet
<1>7. /\ nb \in Seq(Data) /\ Distinct(nb)
      /\ \A b : b \in SeqSet(nb) <=> b \in SeqSet(s) \/ b \in SeqSet(bs)
  <2>1. n \in 0 .. Len(s)
    BY <1>2, <1>3
  <2> QED
    BY <1>3, <1>5, <1>6, <2>1, InsertedFacts
<1>8. /\ da \in [Data -> Value]
      /\ \A b \in Data : b \notin SeqSet(bs) => da[b] = home.data[b]
  BY <1>1, WrittenFacts
<1> HIDE DEF nb, da
<1>9. al \in SUBSET Data
  BY <1>3, <1>5
<1>10. \A b : b \in al <=>
                (b \in home.alloc /\ b \notin Blocks(home, i)) \/ b \in SeqSet(nb)
  BY <1>3, <1>4, <1>7
<1>11. \A b \in SeqSet(nb) : b \in home.alloc => b \in Blocks(home, i)
  BY <1>4, <1>5, <1>7
<1>12. \A b \in home.alloc : b \notin Blocks(home, i) => da[b] = home.data[b]
  BY <1>3, <1>5, <1>8
<1> HIDE DEF al
<1>13. Good(t) /\ Keeps(home, t, {i})
  BY <1>1, <1>3, <1>7, <1>8, <1>9, <1>10, <1>11, <1>12, ReblockedFacts
<1> HIDE DEF t
<1> QED
  BY <1>1, <1>2, <1>3, <1>13, CommitStep, OtherShape

LEMMA WriteBlocksStep ==
  ASSUME IInv, NEW i, NEW S, NEW ks \in Seq(S), NEW vs \in [1 .. Len(ks) -> Value],
         WriteBlocks(i, ks, vs)
  PROVE  IInv'
<1> DEFINE s == home.inodes[i].blocks
           ws == [m \in 1 .. Len(ks) |-> s[ks[m]]]
           da == Written(home, ws, vs)
           t == Regions(home.alloc, home.inodes, home.entries, da)
<1>1. Good(home) /\ "write" \in Ops
  BY IdleIsGood DEF WriteBlocks, Commit, Ops
<1>2. /\ Commit("write", t, {i}) /\ IsFile(home, i)
      /\ \A m \in 1 .. Len(ks) : ks[m] \in 1 .. Len(s)
  BY DEF WriteBlocks
<1>3. i \in DOMAIN home.inodes /\ i \in Id /\ s \in Seq(Data)
  BY <1>1, <1>2, InodeFacts
<1>4. Blocks(home, i) = SeqSet(s)
  BY DEF Blocks, SeqSet
<1> HIDE DEF s
<1>5. ws \in Seq(Data) /\ Len(ws) = Len(ks) /\ \A m \in 1 .. Len(ks) : ws[m] = s[ks[m]]
  BY <1>2, <1>3
<1> HIDE DEF ws
<1>6. SeqSet(ws) \subseteq SeqSet(s)
  BY <1>2, <1>5 DEF SeqSet
<1>7. /\ da \in [Data -> Value]
      /\ \A b \in Data : b \notin SeqSet(ws) => da[b] = home.data[b]
  <2>1. vs \in [1 .. Len(ws) -> Value]
    BY <1>5
  <2> QED
    BY <1>1, <1>5, <2>1, WrittenFacts
<1>8. /\ t.alloc = home.alloc /\ t.inodes = home.inodes /\ t.entries = home.entries
      /\ t.data = da /\ t = Regions(t.alloc, t.inodes, t.entries, t.data)
  BY RegionsFacts
<1> HIDE DEF da, t
<1>9. Homes(t)
  BY <1>1, <1>7, <1>8 DEF Good, Homes
<1>10. Owned(t)
  <2>1. \A j : Blocks(t, j) = Blocks(home, j)
    BY <1>8 DEF Blocks
  <2> QED
    BY <1>1, <1>8, <2>1 DEF Good, Owned, OwnershipOK, NoLeaks
<1>11. Named(t)
  BY <1>1, <1>8, SameKinds DEF Good
<1>12. Keeps(home, t, {i})
  <2> SUFFICES ASSUME NEW j \in DOMAIN home.inodes, j # i
               PROVE FileContents(t, j) = FileContents(home, j)
    BY <1>8 DEF Keeps
  <2> DEFINE o == home.inodes[j].blocks
  <2>1. \A k \in 1 .. Len(o) : o[k] \in Blocks(home, j)
    BY DEF Blocks
  <2>2. Blocks(home, j) \cap Blocks(home, i) = {} /\ Blocks(home, j) \subseteq Data
    BY <1>1, <1>3 DEF Good, Owned, OwnershipOK, Homes
  <2>3. \A k \in 1 .. Len(o) : t.data[o[k]] = home.data[o[k]]
    BY <1>4, <1>6, <1>7, <1>8, <2>1, <2>2
  <2> QED
    BY <1>8, <2>3 DEF FileContents
<1> QED
  BY <1>1, <1>2, <1>3, <1>9, <1>10, <1>11, <1>12, CommitStep, OtherShape DEF Good
=============================================================================
