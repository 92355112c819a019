----------------------------- MODULE BufferCache -----------------------------
(***************************************************************************)
(* The write-back buffer cache of filesystem-lab (cache.rs) over a block   *)
(* device whose writes are volatile until flush().  A cached block is      *)
(* clean, dirty, or under writeback: written to the device but not yet     *)
(* flushed.  A device call may fail, and a power loss drops the cache and  *)
(* any of the unflushed device writes.                                     *)
(***************************************************************************)
EXTENDS Integers

CONSTANTS Block,   \* the blocks of the device
          Value    \* the contents of a block

ASSUME BlockAssumption == Block \subseteq Nat

VARIABLES
  state, data,     \* per block: buffer state ("absent": not cached), contents
  vdev, ddev,      \* the device: what reads see, what survives a power loss
  pc,              \* "flush" while a flush() call is writing dirty blocks
  result,          \* what the last flush() returned, "none" after a write
  latest,          \* history: what the last write of the block stored
  since            \* history: the values the block had since it last was
                   \* known to be durable

cache == <<state, data>>
device == <<vdev, ddev>>
history == <<latest, since>>
vars == <<cache, device, pc, result, history>>

Dirty == {b \in Block : state[b] = "dirty"}
Writeback == {b \in Block : state[b] = "writeback"}

\* A cache is created over a device without unflushed writes.
Init ==
  /\ state = [b \in Block |-> "absent"]
  /\ vdev \in [Block -> Value]
  /\ ddev = vdev
  /\ data = vdev
  /\ pc = "idle"
  /\ result = "none"
  /\ latest = vdev
  /\ since = [b \in Block |-> {vdev[b]}]

\* read_block on a miss installs a clean entry; a hit, and a miss whose device
\* read fails, change nothing.
Read(b) ==
  /\ pc = "idle" /\ state[b] = "absent"
  /\ state' = [state EXCEPT ![b] = "clean"]
  /\ data' = [data EXCEPT ![b] = vdev[b]]
  /\ UNCHANGED <<device, pc, result, history>>

\* Mutant: a write to a block under writeback leaves it under writeback.
WriteKeepsWriteback(b, v) ==
  /\ pc = "idle"
  /\ state' = [state EXCEPT ![b] = IF @ = "writeback" THEN @ ELSE "dirty"]
  /\ data' = [data EXCEPT ![b] = v]
  /\ latest' = [latest EXCEPT ![b] = v]
  /\ since' = [since EXCEPT ![b] = @ \cup {v}]
  /\ result' = "none"
  /\ UNCHANGED <<device, pc>>

\* write_block replaces the entry, whatever its state was.
Write(b, v) ==
  /\ pc = "idle"
  /\ state' = [state EXCEPT ![b] = "dirty"]
  /\ data' = [data EXCEPT ![b] = v]
  /\ latest' = [latest EXCEPT ![b] = v]
  /\ since' = [since EXCEPT ![b] = @ \cup {v}]
  /\ result' = "none"
  /\ UNCHANGED <<device, pc>>

\* The device write of write_back, for a dirty block.
IssueWrite(b) ==
  /\ state[b] = "dirty"
  /\ vdev' = [vdev EXCEPT ![b] = data[b]]
  /\ state' = [state EXCEPT ![b] = "writeback"]
  /\ UNCHANGED <<data, ddev, result, history>>

\* write_back called by the client: a clean or in-flight block, and a failing
\* device write, change nothing.
WriteBack(b) == pc = "idle" /\ IssueWrite(b) /\ UNCHANGED pc

FlushBegin ==
  /\ pc = "idle"
  /\ pc' = "flush"
  /\ result' = "none"
  /\ UNCHANGED <<cache, device, history>>

\* flush writes its dirty blocks in block order ...
FlushBlock(b) ==
  /\ pc = "flush"
  /\ \A k \in Dirty : b <= k
  /\ IssueWrite(b)
  /\ UNCHANGED pc

\* ... then flushes the device if a block is under writeback, and marks those
\* blocks clean.
FlushEnd ==
  /\ pc = "flush" /\ Dirty = {}
  /\ ddev' = IF Writeback = {} THEN ddev ELSE vdev
  /\ state' = [b \in Block |-> IF b \in Writeback THEN "clean" ELSE state[b]]
  /\ pc' = "idle"
  /\ result' = "flushed"
  /\ since' = [b \in Block |-> {latest[b]}]
  /\ UNCHANGED <<data, vdev, latest>>

\* A write or the device flush of flush() fails: the first error is returned,
\* and blocks already written stay under writeback.
FlushFail ==
  /\ pc = "flush"
  /\ pc' = "idle"
  /\ result' = "failed"
  /\ UNCHANGED <<cache, device, history>>

\* Mutant: eviction only looks for dirty blocks.
EvictUnderWriteback(b) ==
  /\ pc = "idle" /\ state[b] \in {"clean", "writeback"}
  /\ state' = [state EXCEPT ![b] = "absent"]
  /\ UNCHANGED <<data, device, pc, result, history>>

\* Mutant: eviction does not look at the state.
EvictAny(b) ==
  /\ pc = "idle" /\ state[b] # "absent"
  /\ state' = [state EXCEPT ![b] = "absent"]
  /\ UNCHANGED <<data, device, pc, result, history>>

\* evict refuses blocks that are not clean.
Evict(b) ==
  /\ pc = "idle" /\ state[b] = "clean"
  /\ state' = [state EXCEPT ![b] = "absent"]
  /\ UNCHANGED <<data, device, pc, result, history>>

\* Power loss: the cache is gone, of the unflushed writes those to S survive,
\* and a new cache is created over what is left.
Crash(S) ==
  /\ ddev' = [b \in Block |-> IF b \in S THEN vdev[b] ELSE ddev[b]]
  /\ vdev' = ddev'
  /\ data' = ddev'
  /\ state' = [b \in Block |-> "absent"]
  /\ pc' = "idle"
  /\ result' = "none"
  /\ latest' = ddev'
  /\ since' = [b \in Block |-> {ddev'[b]}]

Next ==
  \/ \E b \in Block : Read(b) \/ WriteBack(b) \/ FlushBlock(b) \/ Evict(b)
  \/ \E b \in Block, v \in Value : Write(b, v)
  \/ FlushBegin \/ FlushEnd \/ FlushFail
  \/ \E S \in SUBSET Block : Crash(S)

Spec == Init /\ [][Next]_vars

-----------------------------------------------------------------------------
\* Properties.

\* Every variable has its type; an entry never holds anything but contents
\* that the device or a client supplied.
TypeOK ==
  /\ state \in [Block -> {"absent", "clean", "dirty", "writeback"}]
  /\ data \in [Block -> Value]
  /\ vdev \in [Block -> Value] /\ ddev \in [Block -> Value]
  /\ pc \in {"idle", "flush"}
  /\ result \in {"none", "flushed", "failed"}
  /\ latest \in [Block -> Value]
  /\ since \in [Block -> SUBSET Value]

\* read_block returns the last write, through every writeback, flush failure
\* and eviction in between.
Coherent ==
  \A b \in Block :
    latest[b] = IF state[b] = "absent" THEN vdev[b] ELSE data[b]

\* A block that is clean, and one that evict has dropped, is durable.
CleanIsDurable ==
  \A b \in Block : state[b] \in {"absent", "clean"} => ddev[b] = latest[b]

\* A block under writeback has its last contents on the device, so that the
\* retry of a failed flush need not write it again.
WritebackIssued == \A b \in Writeback : vdev[b] = latest[b]

\* A successful flush() makes everything written before it durable, blocks
\* written back by earlier or failed calls included.
FlushIsDurable == result = "flushed" => ddev = latest

\* A power loss brings back, per block, a value not older than the last
\* successful flush().
DurableIsRecent ==
  \A b \in Block : ddev[b] \in since[b] /\ vdev[b] \in since[b]
=============================================================================
