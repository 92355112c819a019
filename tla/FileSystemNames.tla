-------------------------- MODULE FileSystemNames ---------------------------
(***************************************************************************)
(* The inductive invariant of FileSystem and the steps that preserve it:   *)
(* the replay of a transaction, and the operations that change names only. *)
(***************************************************************************)
EXTENDS FileSystem, TLAPS

NoLeaks(h) == h.alloc \subseteq UNION {Blocks(h, i) : i \in DOMAIN h.inodes}

Tree(h) ==
  \A i \in DOMAIN h.inodes :
    IsDir(h, i) => IF i = Root THEN Links(h, i) = {}
                   ELSE \E e \in h.entries : Links(h, i) = {e}

Owned(h) == OwnershipOK(h) /\ NoLeaks(h)
Named(h) == NamespaceOK(h) /\ Tree(h)
Good(h) == Homes(h) /\ Owned(h) /\ Named(h)

Keeps(h, t, who) ==
  \A i \in (DOMAIN h.inodes \cap DOMAIN t.inodes) \ who :
    FileContents(t, i) = FileContents(h, i)

\* Every region is that of the one or the other side of the transaction, and
\* the regions that the running replay is done with are those of the target.
Replayed ==
  /\ \A r \in Region : home[r] = old[r] \/ home[r] = target[r]
  /\ pc = "install" => \A r \in Region \ todo : home[r] = target[r]
  /\ pc = "idle" => home = target

\* A region is installed after those of lower rank.
Ordered ==
  \A r, q \in Region : Rank[r] < Rank[q] /\ home[q] # old[q] => home[r] = target[r]

\* What the operations of kind o that release blocks or create inodes change.
Shape(o, h, t) ==
  /\ o \in {"unlink", "truncate", "overwrite"} =>
       /\ t.alloc \subseteq h.alloc /\ t.data = h.data
       /\ t.entries = h.entries \/ \E e \in h.entries : e.target \notin DOMAIN t.inodes
  /\ o = "create" =>
       /\ t.data = h.data
       /\ \/ t.entries = h.entries
          \/ \E i \in DOMAIN t.inodes : i # Root /\ \A e \in h.entries : e.target # i

IInv ==
  /\ TypeOK /\ Good(target) /\ Good(old) /\ Keeps(old, target, touched)
  /\ Replayed /\ Ordered /\ Shape(op, old, target)

-----------------------------------------------------------------------------
\* Regions.

LEMMA SameRegions ==
  ASSUME NEW h, NEW t, Homes(h), Homes(t), \A r \in Region : h[r] = t[r]
  PROVE  h = t
<1>1. h.alloc = t.alloc /\ h.inodes = t.inodes /\ h.entries = t.entries /\ h.data = t.data
  BY DEF Region
<1> QED
  BY <1>1 DEF Homes, Regions

LEMMA PutRegion ==
  ASSUME NEW h, NEW t, Homes(h), Homes(t), NEW r \in Region
  PROVE  /\ Homes([h EXCEPT ![r] = t[r]])
         /\ \A q \in Region : [h EXCEPT ![r] = t[r]][q] = IF q = r THEN t[r] ELSE h[q]
<1>1. CASE r = "alloc"
  <2>1. [h EXCEPT ![r] = t[r]] = Regions(t.alloc, h.inodes, h.entries, h.data)
    <3>1. [h EXCEPT ![r] = t[r]] = [h EXCEPT !.alloc = t.alloc]
      BY <1>1
    <3> QED
      BY <3>1 DEF Homes, Regions
  <2> QED
    BY <1>1, <2>1 DEF Homes, Regions, Region
<1>2. CASE r = "inodes"
  <2>1. [h EXCEPT ![r] = t[r]] = Regions(h.alloc, t.inodes, h.entries, h.data)
    <3>1. [h EXCEPT ![r] = t[r]] = [h EXCEPT !.inodes = t.inodes]
      BY <1>2
    <3> QED
      BY <3>1 DEF Homes, Regions
  <2> QED
    BY <1>2, <2>1 DEF Homes, Regions, Region
<1>3. CASE r = "entries"
  <2>1. [h EXCEPT ![r] = t[r]] = Regions(h.alloc, h.inodes, t.entries, h.data)
    <3>1. [h EXCEPT ![r] = t[r]] = [h EXCEPT !.entries = t.entries]
      BY <1>3
    <3> QED
      BY <3>1 DEF Homes, Regions
  <2> QED
    BY <1>3, <2>1 DEF Homes, Regions, Region
<1>4. CASE r = "data"
  <2>1. [h EXCEPT ![r] = t[r]] = Regions(h.alloc, h.inodes, h.entries, t.data)
    <3>1. [h EXCEPT ![r] = t[r]] = [h EXCEPT !.data = t.data]
      BY <1>4
    <3> QED
      BY <3>1 DEF Homes, Regions
  <2> QED
    BY <1>4, <2>1 DEF Homes, Regions, Region
<1> QED
  BY <1>1, <1>2, <1>3, <1>4 DEF Region

-----------------------------------------------------------------------------
\* The namespace.  Only the kinds of the inodes matter.

LEMMA BelowFacts ==
  ASSUME NEW E \in SUBSET Entry, NEW i \in Id
  PROVE  i \in Below(E, i) /\ Closed(E, Below(E, i)) /\ Below(E, i) \subseteq Id
<1>1. i \in Below(E, i) /\ Below(E, i) \subseteq Id
  BY DEF Below
<1>2. ASSUME NEW e \in E, e.parent \in Below(E, i) PROVE e.target \in Below(E, i)
  <2>1. e.target \in Id
    BY DEF Entry
  <2>2. ASSUME NEW S \in SUBSET Id, i \in S, Closed(E, S) PROVE e.target \in S
    BY <1>2, <2>2 DEF Below, Closed
  <2> QED
    BY <2>1, <2>2 DEF Below
<1> QED
  BY <1>1, <1>2 DEF Closed

\* Every inode is in a set that has the root and is closed under the entries.
LEMMA Reached ==
  ASSUME NEW h, NamespaceOK(h), NEW S \in SUBSET Id, Root \in S,
         Closed(h.entries, S)
  PROVE  DOMAIN h.inodes \subseteq S
  BY DEF NamespaceOK, Below

\* And conversely.
LEMMA Reaches ==
  ASSUME NEW E, NEW D \in SUBSET Id,
         \A S \in SUBSET Id : Root \in S /\ Closed(E, S) => D \subseteq S
  PROVE  D \subseteq Below(E, Root)
  BY DEF Below

LEMMA SameKinds ==
  ASSUME NEW h, NEW t, Named(h), h.entries = t.entries,
         DOMAIN h.inodes = DOMAIN t.inodes,
         \A i \in DOMAIN h.inodes : h.inodes[i].kind = t.inodes[i].kind
  PROVE  Named(t)
<1>1. \A i : IsDir(h, i) <=> IsDir(t, i)
  BY DEF IsDir
<1>2. {i \in DOMAIN h.inodes : IsDir(h, i)} = {i \in DOMAIN t.inodes : IsDir(t, i)}
  BY <1>1
<1>3. Acyclic(h) <=> Acyclic(t)
  BY <1>2 DEF Acyclic
<1>4. NamespaceOK(t)
  BY <1>1, <1>3 DEF Named, NamespaceOK
<1>5. Tree(t)
  BY <1>1 DEF Named, Tree, Links
<1> QED
  BY <1>4, <1>5 DEF Named

\* An inode other than the root has a name.
LEMMA HasName ==
  ASSUME NEW h, Homes(h), NamespaceOK(h), NEW i \in DOMAIN h.inodes, i # Root
  PROVE  \E e \in h.entries : e.target = i
<1> SUFFICES ASSUME \A e \in h.entries : e.target # i PROVE FALSE
  OBVIOUS
<1>1. Closed(h.entries, Id \ {i})
  BY DEF Closed, Homes, Entry
<1>2. DOMAIN h.inodes \subseteq Id \ {i}
  BY <1>1, Reached, IdAssumption
<1> QED
  BY <1>2

\* Names of files come and go, those of directories stay.
LEMMA FileNames ==
  ASSUME NEW h, NEW t, Homes(h), Homes(t), Named(h), DOMAIN h.inodes # {},
         \A i : IsDir(h, i) <=> IsDir(t, i),
         \A e \in t.entries : IsDir(t, e.parent) /\ e.target \in DOMAIN t.inodes,
         \A e, f \in t.entries : e.parent = f.parent /\ e.name = f.name => e = f,
         \A e : IsDir(h, e.target) => (e \in t.entries <=> e \in h.entries),
         \A i \in DOMAIN t.inodes :
           ~ IsDir(t, i) => \E f \in t.entries : f.target = i
  PROVE  Named(t)
<1>1. IsDir(t, Root)
  BY DEF Named, NamespaceOK
<1>2. Acyclic(t)
  <2> SUFFICES ASSUME NEW S \in SUBSET {i \in DOMAIN t.inodes : IsDir(t, i)}, S # {}
               PROVE \E d \in S : \A e \in t.entries : e.parent = d => e.target \notin S
    BY DEF Acyclic
  <2>1. S \in SUBSET {i \in DOMAIN h.inodes : IsDir(h, i)}
    BY DEF IsDir
  <2>2. PICK d \in S : \A e \in h.entries : e.parent = d => e.target \notin S
    BY <2>1 DEF Named, NamespaceOK, Acyclic
  <2>3. ASSUME NEW e \in t.entries, e.parent = d, e.target \in S PROVE FALSE
    BY <2>1, <2>2, <2>3
  <2> QED
    BY <2>2, <2>3
<1>3. ASSUME NEW S \in SUBSET Id, Root \in S, Closed(t.entries, S)
      PROVE  DOMAIN t.inodes \subseteq S
  <2> DEFINE S2 == S \cup {i \in Id : ~ IsDir(h, i)}
  <2>1. Closed(h.entries, S2)
    <3> SUFFICES ASSUME NEW e \in h.entries, e.parent \in S2 PROVE e.target \in S2
      BY DEF Closed
    <3>1. IsDir(h, e.parent) /\ e.target \in Id
      BY DEF Named, NamespaceOK, Homes, Entry
    <3>2. CASE IsDir(h, e.target)
      BY <1>3, <3>1, <3>2 DEF Closed
    <3> QED
      BY <3>1, <3>2
  <2>2. DOMAIN h.inodes \subseteq S2
    BY <1>3, <2>1, Reached DEF Named
  <2>3. \A i : IsDir(t, i) => i \in S
    BY <2>2 DEF IsDir
  <2>4. ASSUME NEW i \in DOMAIN t.inodes, ~ IsDir(t, i) PROVE i \in S
    BY <1>3, <2>3, <2>4 DEF Closed
  <2> QED
    BY <2>3, <2>4
<1>4. DOMAIN t.inodes \subseteq Below(t.entries, Root)
  <2>1. DOMAIN t.inodes \in SUBSET Id
    BY DEF Homes
  <2> QED
    BY <1>3, <2>1, Reaches
<1>5. NamespaceOK(t)
  BY <1>1, <1>2, <1>4 DEF NamespaceOK
<1>6. Tree(t)
  <2> SUFFICES ASSUME NEW i \in DOMAIN t.inodes, IsDir(t, i)
               PROVE IF i = Root THEN Links(t, i) = {}
                     ELSE \E e \in t.entries : Links(t, i) = {e}
    BY DEF Tree
  <2>1. i \in DOMAIN h.inodes /\ IsDir(h, i)
    BY DEF IsDir
  <2>2. Links(t, i) = Links(h, i)
    BY <2>1 DEF Links
  <2>3. IF i = Root THEN Links(h, i) = {} ELSE \E e \in h.entries : Links(h, i) = {e}
    BY <2>1 DEF Named, Tree
  <2>4. ASSUME NEW e \in h.entries, Links(h, i) = {e} PROVE e \in t.entries
    BY <2>1, <2>2, <2>4 DEF Links
  <2> QED
    BY <2>2, <2>3, <2>4
<1> QED
  BY <1>5, <1>6 DEF Named

-----------------------------------------------------------------------------
\* The journal.

Ops == {"create", "unlink", "rename", "exchange", "overwrite", "link", "truncate",
        "append", "write"}

LEMMA OtherShape ==
  ASSUME NEW o \in {"rename", "exchange", "link", "append", "write"}, NEW h, NEW t
  PROVE  Shape(o, h, t)
  BY DEF Shape

LEMMA CommitStep ==
  ASSUME IInv, NEW o \in Ops, NEW t, NEW who \in SUBSET Id,
         Commit(o, t, who), Good(t), Keeps(home, t, who), Shape(o, home, t)
  PROVE  IInv'
<1>1. TypeOK'
  BY DEF IInv, TypeOK, Commit, Good, Ops, Changed
<1>2. Good(target)' /\ Keeps(old, target, touched)' /\ Shape(op, old, target)'
  BY DEF Commit
<1>3. Good(old)'
  BY DEF Commit, IInv, Replayed
<1>4. Replayed' /\ Ordered'
  BY DEF Commit, Replayed, Ordered, Changed
<1> QED
  BY <1>1, <1>2, <1>3, <1>4 DEF IInv

LEMMA InstallStep == IInv /\ Install => IInv'
<1> SUFFICES ASSUME IInv, Install PROVE IInv'
  OBVIOUS
<1>1. PICK r \in todo : /\ \A q \in todo : Rank[r] <= Rank[q]
                        /\ home' = [home EXCEPT ![r] = target[r]] /\ todo' = todo \ {r}
  BY DEF Install
<1>2. r \in Region /\ Homes(home) /\ Homes(target) /\ todo \subseteq Region
  BY DEF IInv, TypeOK
<1>3. Homes(home')
  BY <1>1, <1>2, PutRegion
<1>4. \A q \in Region : home'[q] = IF q = r THEN target[r] ELSE home[q]
  BY <1>1, <1>2, PutRegion
<1>5. \A q \in Region \ todo : home[q] = target[q]
  BY DEF IInv, Replayed, Install
<1>6. \A q \in Region \ todo' : home'[q] = target[q]
  BY <1>1, <1>4, <1>5
<1>7. CASE todo' = {}
  <2>1. home' = target
    BY <1>2, <1>3, <1>6, <1>7, SameRegions
  <2>2. target' = target /\ old' = target /\ pc' = "idle" /\ touched' = {} /\ op' = "none"
    BY <1>7 DEF Install
  <2>3. Keeps(target, target, {}) /\ Shape("none", target, target)
    BY DEF Keeps, Shape
  <2>4. TypeOK' /\ Good(target)' /\ Good(old)'
    BY <1>1, <1>2, <2>1, <2>2 DEF IInv, TypeOK
  <2>5. Replayed' /\ Ordered'
    BY <2>1, <2>2 DEF Replayed, Ordered
  <2> QED
    BY <2>2, <2>3, <2>4, <2>5 DEF IInv
<1>8. CASE todo' # {}
  <2>1. UNCHANGED <<target, old, touched, op, pc>> /\ pc = "install"
    BY <1>8 DEF Install
  <2>2. Replayed'
    BY <1>2, <1>4, <1>6, <2>1 DEF IInv, Replayed
  <2>3. Ordered'
    <3> SUFFICES ASSUME NEW p \in Region, NEW q \in Region, Rank[p] < Rank[q],
                        home'[q] # old[q]
                 PROVE  home'[p] = target[p]
      BY <2>1 DEF Ordered
    <3>1. Rank[p] \in Int /\ Rank[q] \in Int /\ Rank[r] \in Int
      BY <1>2 DEF Rank, Region
    <3>2. CASE q = r
      <4>1. p \notin todo
        BY <1>1, <3>1, <3>2
      <4> QED
        BY <1>4, <1>5, <4>1
    <3>3. CASE q # r
      BY <1>4, <3>3 DEF IInv, Ordered
    <3> QED
      BY <3>2, <3>3
  <2>4. TypeOK'
    BY <1>1, <1>3, <2>1 DEF IInv, TypeOK
  <2> QED
    BY <2>1, <2>2, <2>3, <2>4 DEF IInv
<1> QED
  BY <1>7, <1>8

LEMMA StopStep == IInv /\ Stop => IInv'
<1> SUFFICES ASSUME IInv, Stop PROVE IInv'
  OBVIOUS
<1>1. TypeOK' /\ Replayed' /\ Ordered'
  BY DEF IInv, Stop, TypeOK, Replayed, Ordered
<1> QED
  BY <1>1 DEF IInv, Stop

LEMMA RecoverStep == IInv /\ Recover => IInv'
<1> SUFFICES ASSUME IInv, Recover PROVE IInv'
  OBVIOUS
<1>1. TypeOK' /\ Replayed' /\ Ordered'
  BY DEF IInv, Recover, TypeOK, Replayed, Ordered, Changed
<1> QED
  BY <1>1 DEF IInv, Recover

-----------------------------------------------------------------------------
\* The operations on names.

LEMMA IdleIsGood == IInv /\ pc = "idle" => Good(home)
  BY DEF IInv, Replayed

LEMMA RegionsFacts ==
  ASSUME NEW al, NEW ino, NEW E, NEW da
  PROVE  /\ Regions(al, ino, E, da).alloc = al
         /\ Regions(al, ino, E, da).inodes = ino
         /\ Regions(al, ino, E, da).entries = E
         /\ Regions(al, ino, E, da).data = da
  BY DEF Regions

LEMMA EntriesFacts ==
  ASSUME NEW h, Good(h), NEW E \in SUBSET Entry
  PROVE  /\ Homes(WithEntries(h, E)) /\ Owned(WithEntries(h, E))
         /\ Keeps(h, WithEntries(h, E), {})
         /\ \A i : IsDir(h, i) <=> IsDir(WithEntries(h, E), i)
         /\ WithEntries(h, E).inodes = h.inodes
         /\ WithEntries(h, E).entries = E
<1> DEFINE t == WithEntries(h, E)
<1>1. t.alloc = h.alloc /\ t.inodes = h.inodes /\ t.entries = E /\ t.data = h.data
  BY RegionsFacts DEF WithEntries
<1>2. Homes(t)
  BY <1>1 DEF Good, Homes, WithEntries
<1>3. \A i : Blocks(t, i) = Blocks(h, i)
  BY <1>1 DEF Blocks
<1>4. Owned(t)
  BY <1>1, <1>3 DEF Good, Owned, OwnershipOK, NoLeaks
<1>5. Keeps(h, t, {})
  BY <1>1 DEF Keeps, FileContents
<1> QED
  BY <1>1, <1>2, <1>4, <1>5 DEF IsDir

\* An operation that only changes names of files.
LEMMA FileNamesStep ==
  ASSUME IInv, NEW o \in {"rename", "exchange", "link"}, NEW E \in SUBSET Entry,
         Commit(o, WithEntries(home, E), {}), DOMAIN home.inodes # {},
         \A e \in E : IsDir(home, e.parent) /\ e.target \in DOMAIN home.inodes,
         \A e, f \in E : e.parent = f.parent /\ e.name = f.name => e = f,
         \A e : IsDir(home, e.target) => (e \in E <=> e \in home.entries),
         \A e \in home.entries : \E f \in E : f.target = e.target
  PROVE  IInv'
<1> DEFINE t == WithEntries(home, E)
<1>1. Good(home)
  BY IdleIsGood DEF Commit
<1>2. /\ Homes(t) /\ Owned(t) /\ Keeps(home, t, {})
      /\ \A i : IsDir(home, i) <=> IsDir(t, i)
      /\ t.inodes = home.inodes /\ t.entries = E
  BY <1>1, EntriesFacts
<1>3. ASSUME NEW i \in DOMAIN t.inodes, ~ IsDir(t, i)
      PROVE  \E f \in t.entries : f.target = i
  <2>1. i \in DOMAIN home.inodes /\ i # Root
    BY <1>1, <1>2, <1>3 DEF Good, Named, NamespaceOK
  <2>2. PICK e \in home.entries : e.target = i
    BY <1>1, <2>1, HasName DEF Good, Named
  <2> QED
    BY <1>2, <2>2
<1> HIDE DEF t
<1>4. Named(t)
  BY <1>1, <1>2, <1>3, FileNames DEF Good
<1> QED
  BY <1>2, <1>4, CommitStep, OtherShape DEF Good, Ops, t

LEMMA HardLinkStep ==
  ASSUME IInv, NEW p \in Id, NEW n \in Name, NEW i \in Id, HardLink(p, n, i)
  PROVE  IInv'
<1> DEFINE x == [parent |-> p, name |-> n, target |-> i]
           E == home.entries \cup {x}
<1>1. Good(home) /\ "link" \in Ops
  BY IdleIsGood DEF HardLink, Commit, Ops
<1>2. Commit("link", WithEntries(home, E), {})
  BY DEF HardLink
<1>3. IsDir(home, p) /\ ~ IsDir(home, i) /\ i \in DOMAIN home.inodes /\ NameFree(home, p, n)
  BY DEF HardLink, IsFile, IsDir
<1>4. x \in Entry /\ x.parent = p /\ x.name = n /\ x.target = i
  BY DEF Entry
<1>5. E \in SUBSET Entry
  BY <1>1, <1>4 DEF Good, Homes
<1>6. \A e \in E : IsDir(home, e.parent) /\ e.target \in DOMAIN home.inodes
  BY <1>1, <1>3, <1>4 DEF Good, Named, NamespaceOK
<1>7. \A e, f \in E : e.parent = f.parent /\ e.name = f.name => e = f
  BY <1>1, <1>3, <1>4 DEF Good, Named, NamespaceOK, NameFree
<1> HIDE DEF x
<1>8. \A e : IsDir(home, e.target) => (e \in E <=> e \in home.entries)
  BY <1>3, <1>4
<1>9. \A e \in home.entries : \E f \in E : f.target = e.target
  OBVIOUS
<1> HIDE DEF E
<1> QED
  BY <1>1, <1>2, <1>3, <1>5, <1>6, <1>7, <1>8, <1>9, FileNamesStep

LEMMA HardUnlinkStep ==
  ASSUME IInv, NEW e \in home.entries, HardUnlink(e)
  PROVE  IInv'
<1> DEFINE E == home.entries \ {e}
<1>1. Good(home) /\ "link" \in Ops
  BY IdleIsGood DEF HardUnlink, Commit, Ops
<1>2. Commit("link", WithEntries(home, E), {})
  BY DEF HardUnlink
<1>3. ~ IsDir(home, e.target) /\ e.target \in DOMAIN home.inodes
  BY DEF HardUnlink, IsFile, IsDir
<1>4. E \in SUBSET Entry
  BY <1>1 DEF Good, Homes
<1>5. \A g \in E : IsDir(home, g.parent) /\ g.target \in DOMAIN home.inodes
  BY <1>1 DEF Good, Named, NamespaceOK
<1>6. \A g, f \in E : g.parent = f.parent /\ g.name = f.name => g = f
  BY <1>1 DEF Good, Named, NamespaceOK
<1>7. \A g : IsDir(home, g.target) => (g \in E <=> g \in home.entries)
  BY <1>3
<1>8. PICK f \in home.entries : f.target = e.target /\ f # e
  BY DEF HardUnlink, Links
<1>9. \A g \in home.entries : \E f2 \in E : f2.target = g.target
  BY <1>8
<1> HIDE DEF E
<1> QED
  BY <1>1, <1>2, <1>3, <1>4, <1>5, <1>6, <1>7, <1>9, FileNamesStep
LEMMA Retarget ==
  ASSUME NEW e \in Entry, NEW i \in Id
  PROVE  /\ [e EXCEPT !.target = i] \in Entry
         /\ [e EXCEPT !.target = i].parent = e.parent
         /\ [e EXCEPT !.target = i].name = e.name
         /\ [e EXCEPT !.target = i].target = i
  BY DEF Entry

LEMMA ExchangeStep ==
  ASSUME IInv, NEW e \in home.entries, NEW f \in home.entries, Exchange(e, f)
  PROVE  IInv'
<1> DEFINE x == [e EXCEPT !.target = f.target]
           y == [f EXCEPT !.target = e.target]
           E == (home.entries \ {e, f}) \cup {x, y}
<1>1. Good(home) /\ "exchange" \in Ops
  BY IdleIsGood DEF Exchange, Commit, Ops
<1>2. Commit("exchange", WithEntries(home, E), {})
  BY DEF Exchange
<1>3. /\ ~ IsDir(home, e.target) /\ e.target \in DOMAIN home.inodes
      /\ ~ IsDir(home, f.target) /\ f.target \in DOMAIN home.inodes
      /\ e # f
  BY DEF Exchange, IsFile, IsDir
<1>4. e \in Entry /\ f \in Entry /\ e.target \in Id /\ f.target \in Id
  BY <1>1 DEF Good, Homes, Entry
<1>5. /\ x \in Entry /\ x.parent = e.parent /\ x.name = e.name /\ x.target = f.target
      /\ y \in Entry /\ y.parent = f.parent /\ y.name = f.name /\ y.target = e.target
  BY <1>4, Retarget
<1> HIDE DEF x, y
<1>6. E \in SUBSET Entry
  BY <1>1, <1>5 DEF Good, Homes
<1>7. \A g \in E : IsDir(home, g.parent) /\ g.target \in DOMAIN home.inodes
  BY <1>1, <1>5 DEF Good, Named, NamespaceOK
<1>8. \A g, k \in home.entries : g.parent = k.parent /\ g.name = k.name => g = k
  BY <1>1 DEF Good, Named, NamespaceOK
<1>9. \A g, k \in E : g.parent = k.parent /\ g.name = k.name => g = k
  BY <1>3, <1>5, <1>8
<1>10. \A g : IsDir(home, g.target) => (g \in E <=> g \in home.entries)
  BY <1>3, <1>5
<1>11. \A g \in home.entries : \E k \in E : k.target = g.target
  BY <1>5
<1> HIDE DEF E
<1> QED
  BY <1>1, <1>2, <1>3, <1>6, <1>7, <1>9, <1>10, <1>11, FileNamesStep

\* The entries after e has replaced f.
LEMMA ReplacedFacts ==
  ASSUME Good(home), NEW e \in home.entries, NEW f \in home.entries, MayReplace(e, f)
  PROVE  /\ Replaced(e, f) \in SUBSET Entry
         /\ \A g \in Replaced(e, f) :
              IsDir(home, g.parent) /\ g.target \in DOMAIN home.inodes
         /\ \A g, k \in Replaced(e, f) : g.parent = k.parent /\ g.name = k.name => g = k
         /\ \A g : IsDir(home, g.target) => (g \in Replaced(e, f) <=> g \in home.entries)
         /\ \A g \in home.entries \ {f} : \E k \in Replaced(e, f) : k.target = g.target
         /\ \A g \in home.entries \ {f} :
              g.target = f.target => g \in Replaced(e, f)
         /\ Links(home, f.target) = {f} =>
              \A g \in Replaced(e, f) : g.target # f.target
<1> DEFINE y == [f EXCEPT !.target = e.target]
<1>1. /\ ~ IsDir(home, e.target) /\ e.target \in DOMAIN home.inodes
      /\ ~ IsDir(home, f.target) /\ f.target \in DOMAIN home.inodes
      /\ e.target # f.target
  BY DEF MayReplace, IsFile, IsDir
<1>2. f \in Entry /\ e.target \in Id
  BY DEF Good, Homes, Entry
<1>3. y \in Entry /\ y.parent = f.parent /\ y.name = f.name /\ y.target = e.target
  BY <1>2, Retarget
<1>4. Replaced(e, f) = (home.entries \ {e, f}) \cup {y}
  BY DEF Replaced
<1> HIDE DEF y
<1>5. Replaced(e, f) \in SUBSET Entry
  BY <1>3, <1>4 DEF Good, Homes
<1>6. \A g \in Replaced(e, f) : IsDir(home, g.parent) /\ g.target \in DOMAIN home.inodes
  BY <1>3, <1>4 DEF Good, Named, NamespaceOK
<1>7. \A g, k \in Replaced(e, f) : g.parent = k.parent /\ g.name = k.name => g = k
  BY <1>3, <1>4 DEF Good, Named, NamespaceOK
<1>8. \A g : IsDir(home, g.target) => (g \in Replaced(e, f) <=> g \in home.entries)
  BY <1>1, <1>3, <1>4
<1>9. \A g \in home.entries \ {f} : \E k \in Replaced(e, f) : k.target = g.target
  BY <1>3, <1>4
<1>10. Links(home, f.target) = {f} => \A g \in Replaced(e, f) : g.target # f.target
  BY <1>1, <1>3, <1>4 DEF Links
<1>11. \A g \in home.entries \ {f} : g.target = f.target => g \in Replaced(e, f)
  BY <1>1, <1>4
<1> QED
  BY <1>5, <1>6, <1>7, <1>8, <1>9, <1>10, <1>11

LEMMA RenameOverwriteLinkedStep ==
  ASSUME IInv, NEW e \in home.entries, NEW f \in home.entries,
         RenameOverwriteLinked(e, f)
  PROVE  IInv'
<1> DEFINE E == Replaced(e, f)
<1>1. Good(home) /\ "link" \in Ops
  BY IdleIsGood DEF RenameOverwriteLinked, Commit, Ops
<1>2. Commit("link", WithEntries(home, E), {}) /\ MayReplace(e, f)
  BY DEF RenameOverwriteLinked
<1>3. PICK k \in home.entries : k.target = f.target /\ k # f
  BY DEF RenameOverwriteLinked, Links
<1>4. \A g \in home.entries : \E l \in E : l.target = g.target
  BY <1>1, <1>2, <1>3, ReplacedFacts
<1>5. DOMAIN home.inodes # {}
  BY <1>2 DEF MayReplace, IsFile
<1> QED
  BY <1>1, <1>2, <1>4, <1>5, ReplacedFacts, FileNamesStep
\* The entry e of a directory becomes x; the new parent is not below it.
LEMMA MovedDirectory ==
  ASSUME NEW h, NEW t, Good(h), Homes(t), t.inodes = h.inodes,
         NEW e \in h.entries, IsDir(h, e.target), e.target # Root,
         NEW x \in Entry, x.target = e.target, IsDir(h, x.parent),
         t.entries = (h.entries \ {e}) \cup {x},
         \A f \in h.entries \ {e} : ~ (f.parent = x.parent /\ f.name = x.name),
         x.parent \notin Below(h.entries \ {e}, e.target)
  PROVE  Named(t)
<1> DEFINE d == e.target
           B == Below(h.entries \ {e}, d)
<1>1. \A i : IsDir(h, i) <=> IsDir(t, i)
  BY DEF IsDir
<1>2. /\ Closed(h.entries \ {e}, B) /\ d \in B /\ B \subseteq Id /\ x.parent \notin B
      /\ h.entries \in SUBSET Entry
  <2>1. h.entries \in SUBSET Entry /\ d \in Id
    BY DEF Good, Homes, Entry
  <2> QED
    BY <2>1, BelowFacts
<1> HIDE DEF B
<1>3. Acyclic(t)
  <2> SUFFICES ASSUME NEW S \in SUBSET {i \in DOMAIN t.inodes : IsDir(t, i)}, S # {},
                      \A c \in S : \E g \in t.entries : g.parent = c /\ g.target \in S
               PROVE  FALSE
    BY DEF Acyclic
  <2>1. \A T \in SUBSET S : T # {} =>
          \E c \in T : \A g \in h.entries : g.parent = c => g.target \notin T
    <3>1. S \in SUBSET {i \in DOMAIN h.inodes : IsDir(h, i)} /\ DOMAIN h.inodes # {}
      BY <1>1 DEF IsDir
    <3> QED
      BY <3>1 DEF Good, Named, NamespaceOK, Acyclic
  <2>2. S \cap B = {}
    <3> SUFFICES ASSUME S \cap B # {} PROVE FALSE
      OBVIOUS
    <3>1. PICK c \in S \cap B : \A g \in h.entries : g.parent = c => g.target \notin S \cap B
      BY <2>1
    <3>2. PICK g \in t.entries : g.parent = c /\ g.target \in S
      BY <3>1
    <3>3. g \in h.entries \ {e}
      BY <1>2, <3>1, <3>2
    <3>4. g.target \in B
      BY <1>2, <3>1, <3>2, <3>3 DEF Closed
    <3> QED
      BY <3>1, <3>2, <3>3, <3>4
  <2>3. PICK c \in S : \A g \in h.entries : g.parent = c => g.target \notin S
    BY <2>1
  <2>4. PICK g \in t.entries : g.parent = c /\ g.target \in S
    BY <2>3
  <2>5. g # x
    BY <1>2, <2>2, <2>4
  <2> QED
    BY <2>3, <2>4, <2>5
<1>4. ASSUME NEW S \in SUBSET Id, Root \in S, Closed(t.entries, S)
      PROVE  DOMAIN t.inodes \subseteq S
  <2>1. CASE d \in S
    <3>1. Closed(h.entries, S)
      BY <1>4, <2>1 DEF Closed
    <3> QED
      BY <1>4, <3>1, Reached DEF Good, Named
  <2>2. CASE d \notin S
    <3>1. x.parent \notin S
      BY <1>4, <2>2 DEF Closed
    <3>2. Closed(h.entries, S \cup B)
      BY <1>2, <1>4 DEF Closed
    <3>3. S \cup B \in SUBSET Id
      BY <1>2
    <3>4. DOMAIN h.inodes \subseteq S \cup B
      BY <1>4, <3>2, <3>3, Reached DEF Good, Named
    <3>5. x.parent \in DOMAIN h.inodes
      BY DEF IsDir
    <3> QED
      BY <1>2, <3>1, <3>4, <3>5
  <2> QED
    BY <2>1, <2>2
<1>5. DOMAIN t.inodes \subseteq Below(t.entries, Root)
  <2>1. DOMAIN t.inodes \in SUBSET Id
    BY DEF Homes
  <2> QED
    BY <1>4, <2>1, Reaches
<1>6. NamespaceOK(t)
  <2>1. \A g \in t.entries : IsDir(t, g.parent) /\ g.target \in DOMAIN t.inodes
    BY <1>1 DEF Good, Named, NamespaceOK, IsDir
  <2>2. \A g, k \in t.entries : g.parent = k.parent /\ g.name = k.name => g = k
    BY DEF Good, Named, NamespaceOK
  <2>3. IsDir(t, Root)
    BY <1>1 DEF Good, Named, NamespaceOK, IsDir
  <2> QED
    BY <1>3, <1>5, <2>1, <2>2, <2>3 DEF NamespaceOK
<1>7. Tree(t)
  <2> SUFFICES ASSUME NEW i \in DOMAIN t.inodes, IsDir(t, i)
               PROVE IF i = Root THEN Links(t, i) = {}
                     ELSE \E g \in t.entries : Links(t, i) = {g}
    BY DEF Tree
  <2>1. IF i = Root THEN Links(h, i) = {} ELSE \E g \in h.entries : Links(h, i) = {g}
    BY <1>1 DEF Good, Named, Tree
  <2>2. CASE i = d
    <3>1. PICK g \in h.entries : Links(h, i) = {g}
      BY <2>1, <2>2
    <3>2. Links(h, i) = {e}
      BY <2>2, <3>1 DEF Links
    <3>3. Links(t, i) = {x}
      BY <2>2, <3>2 DEF Links
    <3> QED
      BY <2>2, <3>3
  <2>3. CASE i # d
    <3>1. Links(t, i) = Links(h, i)
      BY <2>3 DEF Links
    <3>2. ASSUME NEW g \in h.entries, Links(h, i) = {g} PROVE g \in t.entries
      BY <3>1, <3>2 DEF Links
    <3> QED
      BY <2>1, <3>1, <3>2
  <2> QED
    BY <2>2, <2>3
<1> QED
  BY <1>6, <1>7 DEF Named

LEMMA RenameStep ==
  ASSUME IInv, NEW e \in home.entries, NEW p \in Id, NEW n \in Name, Rename(e, p, n)
  PROVE  IInv'
<1> DEFINE x == [parent |-> p, name |-> n, target |-> e.target]
           E == (home.entries \ {e}) \cup {x}
           t == WithEntries(home, E)
<1>1. Good(home) /\ "rename" \in Ops
  BY IdleIsGood DEF Rename, Commit, Ops
<1>2. Commit("rename", t, {})
  BY DEF Rename
<1>3. /\ e.target # Root /\ IsDir(home, p)
      /\ \A f \in home.entries \ {e} : ~ (f.parent = p /\ f.name = n)
      /\ e.target \in DOMAIN home.inodes /\ DOMAIN home.inodes # {}
  BY <1>1 DEF Rename, Good, Named, NamespaceOK
<1>4. x \in Entry /\ x.parent = p /\ x.name = n /\ x.target = e.target
  BY <1>1 DEF Entry, Good, Homes
<1> HIDE DEF x
<1>5. E \in SUBSET Entry
  BY <1>1, <1>4 DEF Good, Homes
<1>6. CASE ~ IsDir(home, e.target)
  <2>1. \A g \in E : IsDir(home, g.parent) /\ g.target \in DOMAIN home.inodes
    BY <1>1, <1>3, <1>4 DEF Good, Named, NamespaceOK
  <2>2. \A g, k \in E : g.parent = k.parent /\ g.name = k.name => g = k
    BY <1>1, <1>3, <1>4 DEF Good, Named, NamespaceOK
  <2>3. \A g : IsDir(home, g.target) => (g \in E <=> g \in home.entries)
    BY <1>4, <1>6
  <2>4. \A g \in home.entries : \E k \in E : k.target = g.target
    BY <1>4
  <2> HIDE DEF E
  <2> QED
    BY <1>1, <1>2, <1>3, <1>5, <2>1, <2>2, <2>3, <2>4, FileNamesStep
<1>7. CASE IsDir(home, e.target)
  <2>1. x.parent \notin Below(home.entries \ {e}, e.target)
    BY <1>4, <1>7 DEF Rename, WouldCreateCycle
  <2>2. /\ Homes(t) /\ Owned(t) /\ Keeps(home, t, {})
        /\ t.inodes = home.inodes /\ t.entries = E
    BY <1>1, <1>5, EntriesFacts
  <2> HIDE DEF t
  <2>3. Named(t)
    BY <1>1, <1>3, <1>4, <1>7, <2>1, <2>2, MovedDirectory
  <2> QED
    BY <1>1, <1>2, <2>2, <2>3, CommitStep, OtherShape DEF Good
<1> QED
  BY <1>6, <1>7
=============================================================================
