----------------------------- MODULE FileSystem ------------------------------
(***************************************************************************)
(* The namespace and file operations of filesystem-lab over their durable  *)
(* home state: the allocation bitmap, the inode table, the directory table *)
(* and the data blocks.  An operation computes new contents for some of    *)
(* the four regions from the ones it reads and hands them to the journal;  *)
(* from then on (JournalStore) the transaction is installed region by      *)
(* region, and again from the start by recovery after a fault.             *)
(***************************************************************************)
EXTENDS Integers, Sequences, FiniteSets, FiniteSetsExt

CONSTANTS
  Id,        \* inode identifiers
  Root,      \* the identifier of the root directory
  Name,      \* valid directory-entry names
  Data,      \* block numbers of the data region
  Value,     \* contents of a data block
  TableWords,\* 8-byte words the inode-table region has for records
  MaxBatch   \* bound: blocks a create, an append or an overwrite supplies

NoBlocks == << >>

ASSUME IdAssumption == Root \in Id
ASSUME DataAssumption == Data \subseteq Nat /\ IsFiniteSet(Data)
ASSUME TableAssumption == TableWords \in Nat
ASSUME BatchAssumption == MaxBatch \in Nat

VARIABLES
  home,      \* the four regions as load_allocator, load_inode_table,
             \* load_directory_table and read_block return them
  target,    \* the regions with the last committed transaction applied
  old,       \* the regions without it
  todo,      \* regions the running replay still has to write
  pc,        \* "idle", "install" (replay), "stopped" (after a fault)
  op,        \* the operation being installed
  touched    \* inodes whose contents that operation may change

vars == <<home, target, old, todo, pc, op, touched>>

Kind == {"file", "dir"}
Inode == [kind : Kind, blocks : Seq(Data)]
Entry == [parent : Id, name : Name, target : Id]
Region == {"alloc", "inodes", "entries", "data"}
\* The order in which a transaction logs the regions it changes.
Rank == [alloc |-> 1, inodes |-> 2, entries |-> 3, data |-> 4]

-----------------------------------------------------------------------------
\* Reading the home state h.

Blocks(h, i) == LET s == h.inodes[i].blocks IN {s[k] : k \in 1 .. Len(s)}
Distinct(s) == \A k, l \in 1 .. Len(s) : s[k] = s[l] => k = l
IsDir(h, i) == i \in DOMAIN h.inodes /\ h.inodes[i].kind = "dir"
IsFile(h, i) == i \in DOMAIN h.inodes /\ h.inodes[i].kind = "file"
Links(h, i) == {e \in h.entries : e.target = i}
NameFree(h, p, n) == \A e \in h.entries : ~ (e.parent = p /\ e.name = n)

\* Everything reached from S through the entries E is in every set closed
\* under E that includes S.
Closed(E, S) == \A e \in E : e.parent \in S => e.target \in S
Below(E, i) == {j \in Id : \A S \in SUBSET Id : i \in S /\ Closed(E, S) => j \in S}

\* fsck: audit_inode_ownership, and the decoders' check for duplicates.
OwnershipOK(h) ==
  /\ \A i \in DOMAIN h.inodes : Blocks(h, i) \subseteq h.alloc
  /\ \A i \in DOMAIN h.inodes : Distinct(h.inodes[i].blocks)
  /\ \A i, j \in DOMAIN h.inodes : i # j => Blocks(h, i) \cap Blocks(h, j) = {}

\* fsck: audit_directory_cycle; every set of directories has a member without
\* an entry for another member.
Acyclic(h) ==
  \A S \in SUBSET {i \in DOMAIN h.inodes : IsDir(h, i)} :
    S # {} => \E d \in S : \A e \in h.entries : e.parent = d => e.target \notin S

\* fsck: audit_namespace.
NamespaceOK(h) ==
  /\ \A e \in h.entries : IsDir(h, e.parent) /\ e.target \in DOMAIN h.inodes
  /\ \A e, f \in h.entries : e.parent = f.parent /\ e.name = f.name => e = f
  /\ DOMAIN h.inodes # {} =>
       /\ IsDir(h, Root)
       /\ Acyclic(h)
       /\ DOMAIN h.inodes \subseteq Below(h.entries, Root)

\* check_device accepts the metadata.
Fsck(h) == OwnershipOK(h) /\ NamespaceOK(h)

-----------------------------------------------------------------------------
\* Building the new regions.

Regions(alloc, inodes, entries, data) ==
  [alloc |-> alloc, inodes |-> inodes, entries |-> entries, data |-> data]
WithEntries(h, E) == Regions(h.alloc, h.inodes, E, h.data)

WithInode(h, i, kind, bs) ==
  [j \in DOMAIN h.inodes \cup {i} |->
     IF j = i THEN [kind |-> kind, blocks |-> bs] ELSE h.inodes[j]]
WithoutInode(h, i) == [j \in DOMAIN h.inodes \ {i} |-> h.inodes[j]]
WithBlocks(h, i, bs) == [h.inodes EXCEPT ![i].blocks = bs]

\* Mutant: the search for a free block starts over at the first data block.
AllocatesUsed(h, bs) ==
  \A k \in 1 .. Len(bs) :
    LET free == Data \ {bs[m] : m \in 1 .. (k - 1)} IN
    bs[k] \in free /\ \A b \in free : bs[k] <= b

\* Len(bs) calls of allocate() return the blocks bs, lowest free block first.
Allocates(h, bs) ==
  \A k \in 1 .. Len(bs) :
    LET free == (Data \ h.alloc) \ {bs[m] : m \in 1 .. (k - 1)} IN
    bs[k] \in free /\ \A b \in free : bs[k] <= b

SeqSet(s) == {s[k] : k \in 1 .. Len(s)}
Batches(S) == UNION {[1 .. n -> S] : n \in 0 .. MaxBatch}

\* The data blocks bs written with the contents vs.
Written(h, bs, vs) ==
  [b \in Data |-> IF \E k \in 1 .. Len(bs) : bs[k] = b
                  THEN vs[CHOOSE k \in 1 .. Len(bs) : bs[k] = b] ELSE h.data[b]]

\* encode_image: a record is a header of four words and a word per block.
RecordWords(h) ==
  FoldSet(LAMBDA i, n : n + 4 + Len(h.inodes[i].blocks), 0, DOMAIN h.inodes)

Changed(h, t) == {r \in Region : h[r] # t[r]}

-----------------------------------------------------------------------------
\* The journal under the operations.

\* Operation o commits a transaction that takes the regions to t; one that
\* would change nothing returns without publishing a journal image, and one
\* whose inode table does not fit its region is refused.
Commit(o, t, who) ==
  /\ pc = "idle"
  /\ t # home
  /\ RecordWords(t) <= TableWords
  /\ target' = t
  /\ old' = home
  /\ todo' = Changed(home, t)
  /\ pc' = "install"
  /\ op' = o
  /\ touched' = who
  /\ UNCHANGED home

\* Mutant: the directory table is installed first.
InstallBackwards ==
  /\ pc = "install"
  /\ \E r \in todo :
       /\ \A q \in todo : Rank[q] <= Rank[r]
       /\ home' = [home EXCEPT ![r] = target[r]]
       /\ todo' = todo \ {r}
  /\ pc' = IF todo' = {} THEN "idle" ELSE "install"
  /\ old' = IF todo' = {} THEN target ELSE old
  /\ op' = IF todo' = {} THEN "none" ELSE op
  /\ touched' = IF todo' = {} THEN {} ELSE touched
  /\ UNCHANGED target

\* Replay writes the next region; the operation returns after the last one.
Install ==
  /\ pc = "install"
  /\ \E r \in todo :
       /\ \A q \in todo : Rank[r] <= Rank[q]
       /\ home' = [home EXCEPT ![r] = target[r]]
       /\ todo' = todo \ {r}
  /\ pc' = IF todo' = {} THEN "idle" ELSE "install"
  /\ old' = IF todo' = {} THEN target ELSE old
  /\ op' = IF todo' = {} THEN "none" ELSE op
  /\ touched' = IF todo' = {} THEN {} ELSE touched
  /\ UNCHANGED target

\* A device error or a power loss during replay: the writes so far stay, or
\* they are lost as a whole.
Stop ==
  /\ pc = "install"
  /\ home' \in {home, old}
  /\ pc' = "stopped"
  /\ todo' = {}
  /\ UNCHANGED <<target, old, op, touched>>

\* recover_journal_and_checkpoint starts the replay again.
Recover ==
  /\ pc = "stopped"
  /\ pc' = "install"
  /\ todo' = Changed(old, target)
  /\ UNCHANGED <<home, target, old, op, touched>>

-----------------------------------------------------------------------------
\* The operations.

\* A client formats the device and stores the root directory.
MakeRoot ==
  /\ DOMAIN home.inodes = {}
  /\ Commit("create",
            Regions(home.alloc, WithInode(home, Root, "dir", NoBlocks),
                    home.entries, home.data),
            {})

\* A client composes a create from the snapshots it loaded and the tables'
\* operations and hands it to store_create_metadata_journaled, which takes
\* any snapshots.
Create(i, kind, p, n, bs) ==
  /\ i \notin DOMAIN home.inodes /\ i # Root
  /\ IsDir(home, p) /\ NameFree(home, p, n)
  /\ Allocates(home, bs)
  /\ Commit("create",
            Regions(home.alloc \cup SeqSet(bs),
                    WithInode(home, i, kind, bs),
                    home.entries \cup {[parent |-> p, name |-> n, target |-> i]},
                    home.data),
            {i})

\* Mutant: the blocks freed may be a part of the inode's.
ValidUnlinkPartialFree(r, e, F) ==
  /\ r \in DOMAIN home.inodes /\ r # Root
  /\ e \in home.entries /\ e.target = r
  /\ Links(home, r) = {e}
  /\ IsDir(home, r) => \A f \in home.entries : f.parent # r
  /\ F \subseteq Blocks(home, r)

\* validate_unlink_transition for snapshots that lack the inode r, the entry
\* e and the owned blocks F; any other change is rejected.
ValidUnlink(r, e, F) ==
  /\ r \in DOMAIN home.inodes /\ r # Root
  /\ e \in home.entries /\ e.target = r
  /\ Links(home, r) = {e}
  /\ IsDir(home, r) => \A f \in home.entries : f.parent # r
  /\ F = Blocks(home, r)

Unlink(r, e, F) ==
  /\ ValidUnlink(r, e, F)
  /\ Commit("unlink",
            Regions(home.alloc \ F, WithoutInode(home, r), home.entries \ {e},
                    home.data),
            {r})

\* Mutant: a directory may be moved to its own child.
WouldCreateCycleSelfOnly(e, p) == e.target = p

\* The walk from the moved directory finds its new parent.
WouldCreateCycle(e, p) == p \in Below(home.entries \ {e}, e.target)

Rename(e, p, n) ==
  /\ e \in home.entries /\ e.target # Root
  /\ IsDir(home, e.parent) /\ IsDir(home, p)
  /\ \A f \in home.entries \ {e} : ~ (f.parent = p /\ f.name = n)
  /\ IsDir(home, e.target) => ~ WouldCreateCycle(e, p)
  /\ Commit("rename",
            WithEntries(home,
              (home.entries \ {e}) \cup
                {[parent |-> p, name |-> n, target |-> e.target]}),
            {})

\* Two names of different files trade places.
Exchange(e, f) ==
  /\ Fsck(home)
  /\ e \in home.entries /\ f \in home.entries /\ e.target # f.target
  /\ IsFile(home, e.target) /\ IsFile(home, f.target)
  /\ Commit("exchange",
            WithEntries(home,
              (home.entries \ {e, f}) \cup {[e EXCEPT !.target = f.target],
                                            [f EXCEPT !.target = e.target]}),
            {})

\* The checks the two overwriting renames of e over f share.
MayReplace(e, f) ==
  /\ Fsck(home)
  /\ e \in home.entries /\ f \in home.entries /\ e.target # f.target
  /\ IsFile(home, e.target) /\ IsFile(home, f.target)

Replaced(e, f) == (home.entries \ {e, f}) \cup {[f EXCEPT !.target = e.target]}

\* The destination's only name is replaced, its inode and blocks are released.
RenameOverwrite(e, f) ==
  /\ MayReplace(e, f)
  /\ Links(home, f.target) = {f}
  /\ Commit("overwrite",
            Regions(home.alloc \ Blocks(home, f.target),
                    WithoutInode(home, f.target), Replaced(e, f), home.data),
            {f.target})

\* One of several names of the destination is replaced, its inode stays.
RenameOverwriteLinked(e, f) ==
  /\ MayReplace(e, f)
  /\ Links(home, f.target) # {f}
  /\ Commit("link", WithEntries(home, Replaced(e, f)), {})

\* Mutant: hard links to directories are accepted.
HardLinkAny(p, n, i) ==
  /\ IsDir(home, p) /\ i \in DOMAIN home.inodes
  /\ NameFree(home, p, n)
  /\ Commit("link",
            WithEntries(home,
              home.entries \cup {[parent |-> p, name |-> n, target |-> i]}),
            {})

HardLink(p, n, i) ==
  /\ IsDir(home, p) /\ IsFile(home, i)
  /\ NameFree(home, p, n)
  /\ Commit("link",
            WithEntries(home,
              home.entries \cup {[parent |-> p, name |-> n, target |-> i]}),
            {})

\* Only a name that is not the last one of its file is removed.
HardUnlink(e) ==
  /\ e \in home.entries
  /\ IsFile(home, e.target) /\ Links(home, e.target) # {e}
  /\ Commit("link", WithEntries(home, home.entries \ {e}), {})

\* truncate_file_to_blocks: the blocks after the first n are released.
TruncateToBlocks(i, n) ==
  /\ IsFile(home, i)
  /\ LET bs == home.inodes[i].blocks IN
     /\ n < Len(bs)
     /\ Commit("truncate",
               Regions(home.alloc \ {bs[k] : k \in (n + 1) .. Len(bs)},
                       WithBlocks(home, i, SubSeq(bs, 1, n)),
                       home.entries, home.data),
               {i})

TruncateToZero(i) == IsFile(home, i) /\ TruncateToBlocks(i, 0)

TruncateLastBlock(i) ==
  /\ IsFile(home, i) /\ home.inodes[i].blocks # NoBlocks
  /\ TruncateToBlocks(i, Len(home.inodes[i].blocks) - 1)

\* The block list s with bs inserted after the first n.
Inserted(s, n, bs) == SubSeq(s, 1, n) \o bs \o SubSeq(s, n + 1, Len(s))

\* Blocks bs with contents vs are allocated and inserted after the first n.
Grow(i, n, bs, vs) ==
  /\ IsFile(home, i)
  /\ Allocates(home, bs)
  /\ LET old_bs == home.inodes[i].blocks IN
     /\ n <= Len(old_bs)
     /\ Commit("append",
               Regions(home.alloc \cup SeqSet(bs),
                       WithBlocks(home, i, Inserted(old_bs, n, bs)),
                       home.entries,
                       Written(home, bs, vs)),
               {i})

AppendBlock(i, b, v) ==
  IsFile(home, i) /\ Grow(i, Len(home.inodes[i].blocks), <<b>>, <<v>>)

AppendBlocks(i, bs, vs) ==
  /\ bs # NoBlocks
  /\ IsFile(home, i) /\ Grow(i, Len(home.inodes[i].blocks), bs, vs)

InsertBlock(i, n, b, v) == Grow(i, n, <<b>>, <<v>>)

\* The logical blocks ks of a file, without repetition, get the contents vs.
WriteBlocks(i, ks, vs) ==
  /\ IsFile(home, i) /\ ks # NoBlocks
  /\ LET bs == home.inodes[i].blocks IN
     /\ \A m \in 1 .. Len(ks) : ks[m] \in 1 .. Len(bs)
     /\ Distinct(ks)
     /\ \A m \in 1 .. Len(ks) : bs[ks[m]] \in home.alloc
     /\ Commit("write",
               Regions(home.alloc, home.inodes, home.entries,
                       Written(home, [m \in 1 .. Len(ks) |-> bs[ks[m]]], vs)),
               {i})

WriteBlock(i, k, v) == WriteBlocks(i, <<k>>, <<v>>)

\* The consecutive blocks from k on; a byte range within them gives each
\* block some new contents.
WriteRange(i, k, vs) == WriteBlocks(i, [m \in 1 .. Len(vs) |-> k + m - 1], vs)

\* n blocks of file i from k on are read, then written to file j from l on.
CopyRange(i, k, j, l, n) ==
  /\ IsFile(home, i)
  /\ LET bs == home.inodes[i].blocks IN
     /\ k + n - 1 <= Len(bs)
     /\ \A m \in 0 .. (n - 1) : bs[k + m] \in home.alloc
     /\ WriteRange(j, l, [m \in 1 .. n |-> home.data[bs[k + m - 1]]])

-----------------------------------------------------------------------------
Init ==
  /\ \E d \in [Data -> Value] :
       home = [alloc |-> {}, inodes |-> [i \in {} |-> i], entries |-> {},
               data |-> d]
  /\ target = home
  /\ old = home
  /\ todo = {}
  /\ pc = "idle"
  /\ op = "none"
  /\ touched = {}

Names ==
  \/ \E p \in Id, n \in Name :
       \/ \E i \in Id : HardLink(p, n, i)
       \/ \E e \in home.entries : Rename(e, p, n)
  \/ \E e \in home.entries :
       \/ HardUnlink(e)
       \/ \E f \in home.entries :
            Exchange(e, f) \/ RenameOverwrite(e, f) \/ RenameOverwriteLinked(e, f)

Files ==
  \/ MakeRoot
  \/ \E i, p \in Id, n \in Name, kind \in Kind, bs \in Batches(Data) :
       Create(i, kind, p, n, bs)
  \/ \E r \in Id, e \in home.entries, F \in SUBSET Data : Unlink(r, e, F)
  \/ \E i \in Id :
       \/ TruncateToZero(i) \/ TruncateLastBlock(i)
       \/ \E n \in 0 .. Cardinality(Data) : TruncateToBlocks(i, n)

Contents ==
  \E i \in Id :
    \/ \E b \in Data, v \in Value :
         \/ AppendBlock(i, b, v)
         \/ \E n \in 0 .. Cardinality(Data) : InsertBlock(i, n, b, v)
    \/ \E bs \in Batches(Data) : \E vs \in [DOMAIN bs -> Value] :
         AppendBlocks(i, bs, vs)
    \/ \E k \in 1 .. Cardinality(Data) :
         \/ \E v \in Value : WriteBlock(i, k, v)
         \/ \E vs \in Batches(Value) : WriteRange(i, k, vs)
         \/ \E j \in Id, l \in 1 .. Cardinality(Data), n \in 1 .. MaxBatch :
              CopyRange(i, k, j, l, n)
    \/ \E ks \in Batches(1 .. Cardinality(Data)) :
         \E vs \in [DOMAIN ks -> Value] : WriteBlocks(i, ks, vs)

Call == pc = "idle" /\ (Names \/ Files \/ Contents)

Next == Call \/ Install \/ Stop \/ Recover

Spec == Init /\ [][Next]_vars

-----------------------------------------------------------------------------
\* Properties.

Homes(h) ==
  /\ h.alloc \subseteq Data
  /\ DOMAIN h.inodes \subseteq Id
  /\ h.inodes \in [DOMAIN h.inodes -> Inode]
  /\ h.entries \subseteq Entry
  /\ h.data \in [Data -> Value]
  /\ h = Regions(h.alloc, h.inodes, h.entries, h.data)

\* Every variable has its type: the home image and both sides of the
\* transaction are allocation, inode, directory and data regions.
TypeOK ==
  /\ Homes(home) /\ Homes(target) /\ Homes(old)
  /\ todo \subseteq Region
  /\ pc \in {"idle", "install", "stopped"}
  /\ op \in {"none", "create", "unlink", "rename", "exchange", "overwrite",
             "link", "truncate", "append", "write"}
  /\ touched \subseteq Id

\* Whatever sequence of operations, faults and recoveries: what is committed
\* passes fsck, and between calls it is what the home regions hold.
Consistent == Fsck(target) /\ (pc = "idle" => home = target)

\* Every owned block belongs to some inode, which fsck does not check: no
\* operation leaks blocks.
NoLeak == target.alloc \subseteq UNION {Blocks(target, i) : i \in DOMAIN target.inodes}

\* Every directory but the root has exactly one name and the root has none,
\* which fsck does not check either: the namespace of directories is a tree.
DirectoryTree ==
  \A i \in DOMAIN target.inodes :
    IsDir(target, i) => IF i = Root THEN Links(target, i) = {}
                        ELSE \E e \in target.entries : Links(target, i) = {e}

FileContents(h, i) ==
  [k \in 1 .. Len(h.inodes[i].blocks) |-> h.data[h.inodes[i].blocks[k]]]

\* An operation changes the contents of no file but the one it is about,
\* whichever blocks it frees, reuses or writes.
Isolation ==
  \A i \in (DOMAIN old.inodes \cap DOMAIN target.inodes) \ touched :
    FileContents(target, i) = FileContents(old, i)

\* fsck rejects the home regions while an operation is partly installed
\* (docs/crash-testing.md on the create, unlink, truncate and overwrite
\* matrices): when it releases blocks, because the allocation bitmap is written
\* before the references go away; when it creates a file, because the inode is
\* written before its name, so from the inode table on.  (The bitmap alone is
\* accepted: the ownership audit does not look for unreferenced blocks.)
PartialInstallRejected ==
  /\ home \notin {old, target}
  /\ \/ op \in {"unlink", "truncate", "overwrite"}
     \/ op = "create" /\ home.inodes # old.inodes
  => ~ Fsck(home)
=============================================================================
