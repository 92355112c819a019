-------------------------- MODULE BufferCacheProofs --------------------------
(***************************************************************************)
(* The invariants of the buffer cache, for every set of blocks and of      *)
(* contents.  Two facts make them inductive: every block that is not dirty *)
(* reads its last contents from the device, clean ones included, because   *)
(* flush() makes durable whatever the device reads; and the last contents  *)
(* are among the recent ones.                                              *)
(***************************************************************************)
EXTENDS BufferCache, TLAPS

\* The properties of the cache (cache.rs) and what makes them inductive.
IInv ==
  /\ TypeOK /\ Coherent /\ CleanIsDurable
  /\ WritebackIssued /\ FlushIsDurable /\ DurableIsRecent
  /\ \A b \in Block : state[b] # "dirty" => vdev[b] = latest[b]
  /\ \A b \in Block : latest[b] \in since[b]

\* A new cache over a flushed device satisfies the invariant.
LEMMA InitIInv == Init => IInv
BY DEF Init, IInv, TypeOK, Coherent, CleanIsDurable, WritebackIssued,
       Writeback, FlushIsDurable, DurableIsRecent

\* A read miss installs contents that are already durable.
LEMMA ReadIInv ==
  ASSUME IInv, NEW b \in Block, Read(b) PROVE IInv'
BY DEF Read, IInv, TypeOK, Coherent, CleanIsDurable, WritebackIssued,
       Writeback, FlushIsDurable, DurableIsRecent, device, history

\* A write makes the block dirty, about which nothing on the device is claimed.
LEMMA WriteIInv ==
  ASSUME IInv, NEW b \in Block, NEW v \in Value, Write(b, v) PROVE IInv'
BY DEF Write, IInv, TypeOK, Coherent, CleanIsDurable, WritebackIssued,
       Writeback, FlushIsDurable, DurableIsRecent, device

\* Writing a dirty block back changes what the device reads, not what is
\* durable.
LEMMA IssueWriteIInv ==
  ASSUME IInv, NEW b \in Block, IssueWrite(b), pc' \in {"idle", "flush"}
  PROVE  IInv'
BY DEF IssueWrite, IInv, TypeOK, Coherent, CleanIsDurable, WritebackIssued,
       Writeback, FlushIsDurable, DurableIsRecent, history

\* Once no block is dirty, the device reads as the last writes, and these are
\* durable if no block is under writeback: flush() may acknowledge.
LEMMA SettledDevice ==
  ASSUME IInv, Dirty = {}
  PROVE  vdev = latest /\ (Writeback = {} => ddev = latest)
<1>1. \A b \in Block : state[b] # "dirty"
  BY DEF Dirty
<1>2. \A b \in Block : vdev[b] = latest[b]
  BY <1>1 DEF IInv
<1>3. vdev = latest
  BY <1>2 DEF IInv, TypeOK
<1>4. ASSUME Writeback = {} PROVE ddev = latest
  <2>1. \A b \in Block : state[b] \in {"absent", "clean"}
    BY <1>1, <1>4 DEF Writeback, IInv, TypeOK
  <2> QED
    BY <2>1 DEF IInv, TypeOK, CleanIsDurable
<1> QED
  BY <1>3, <1>4

\* A flush that succeeds leaves every block durable and none in flight.
LEMMA FlushEndIInv ==
  ASSUME IInv, FlushEnd PROVE IInv'
<1>1. vdev = latest /\ (Writeback = {} => ddev = latest)
  BY SettledDevice DEF FlushEnd
<1>2. ddev' = latest /\ latest' = latest /\ vdev' = latest /\ data' = data
  BY <1>1 DEF FlushEnd
<1>3. \A b \in Block : /\ state'[b] \in {"absent", "clean"}
                       /\ state'[b] = "absent" <=> state[b] = "absent"
                       /\ since'[b] = {latest[b]}
  BY DEF FlushEnd, IInv, TypeOK, Dirty, Writeback
<1>4. TypeOK'
  BY <1>2, <1>3 DEF FlushEnd, IInv, TypeOK
<1> QED
  BY <1>1, <1>2, <1>3, <1>4 DEF IInv, TypeOK, Coherent, CleanIsDurable,
     WritebackIssued, Writeback, FlushIsDurable, DurableIsRecent

\* Dropping a clean block loses nothing: the device reads its last contents.
LEMMA EvictIInv ==
  ASSUME IInv, NEW b \in Block, Evict(b) PROVE IInv'
BY DEF Evict, IInv, TypeOK, Coherent, CleanIsDurable, WritebackIssued,
       Writeback, FlushIsDurable, DurableIsRecent, device, history

\* Starting a flush, and a flush that fails, touch no buffer.
LEMMA FlushControlIInv ==
  ASSUME IInv, FlushBegin \/ FlushFail PROVE IInv'
BY DEF FlushBegin, FlushFail, IInv, TypeOK, Coherent, CleanIsDurable,
       WritebackIssued, Writeback, FlushIsDurable, DurableIsRecent,
       cache, device, history

\* After a power loss the device reads what is durable and nothing is cached.
LEMMA CrashIInv ==
  ASSUME IInv, NEW S \in SUBSET Block, Crash(S) PROVE IInv'
BY DEF Crash, IInv, TypeOK, Coherent, CleanIsDurable, WritebackIssued,
       Writeback, FlushIsDurable, DurableIsRecent

\* Every step of the cache preserves the invariant.
LEMMA NextIInv == IInv /\ [Next]_vars => IInv'
<1> SUFFICES ASSUME IInv, [Next]_vars PROVE IInv'
  OBVIOUS
<1>1. ASSUME NEW b \in Block, Read(b) PROVE IInv'
  BY <1>1, ReadIInv
<1>2. ASSUME NEW b \in Block, WriteBack(b) PROVE IInv'
  BY <1>2, IssueWriteIInv DEF WriteBack
<1>3. ASSUME NEW b \in Block, FlushBlock(b) PROVE IInv'
  BY <1>3, IssueWriteIInv DEF FlushBlock
<1>4. ASSUME NEW b \in Block, Evict(b) PROVE IInv'
  BY <1>4, EvictIInv
<1>5. ASSUME NEW b \in Block, NEW v \in Value, Write(b, v) PROVE IInv'
  BY <1>5, WriteIInv
<1>6. CASE FlushBegin \/ FlushFail
  BY <1>6, FlushControlIInv
<1>7. CASE FlushEnd
  BY <1>7, FlushEndIInv
<1>8. ASSUME NEW S \in SUBSET Block, Crash(S) PROVE IInv'
  BY <1>8, CrashIInv
<1>9. CASE UNCHANGED vars
  BY <1>9 DEF vars, cache, device, history, IInv, TypeOK, Coherent,
     CleanIsDurable, WritebackIssued, Writeback, FlushIsDurable,
     DurableIsRecent
<1> QED
  BY <1>1, <1>2, <1>3, <1>4, <1>5, <1>6, <1>7, <1>8, <1>9 DEF Next

\* The invariant holds of every reachable state of the cache.
THEOREM Inductive == Spec => []IInv
BY InitIInv, NextIInv, PTL DEF Spec

\* TypeOK holds of every reachable state of the cache.
THEOREM TypeCorrect == Spec => []TypeOK
<1>1. IInv => TypeOK
  BY DEF IInv
<1> QED
  BY Inductive, <1>1, PTL

\* read_block always returns the last write.
THEOREM ReadsLastWrite == Spec => []Coherent
<1>1. IInv => Coherent
  BY DEF IInv
<1> QED
  BY Inductive, <1>1, PTL

\* Eviction, which takes clean blocks only, never drops anything that is not
\* durable.
THEOREM EvictionIsSafe == Spec => []CleanIsDurable
<1>1. IInv => CleanIsDurable
  BY DEF IInv
<1> QED
  BY Inductive, <1>1, PTL

\* A flush may be retried without writing the blocks under writeback again.
THEOREM RetryIsSafe == Spec => []WritebackIssued
<1>1. IInv => WritebackIssued
  BY DEF IInv
<1> QED
  BY Inductive, <1>1, PTL

\* An acknowledged flush() has made every write durable.
THEOREM FlushDurable == Spec => []FlushIsDurable
<1>1. IInv => FlushIsDurable
  BY DEF IInv
<1> QED
  BY Inductive, <1>1, PTL

\* A power loss never undoes a write that an acknowledged flush() covered.
THEOREM BoundedLoss == Spec => []DurableIsRecent
<1>1. IInv => DurableIsRecent
  BY DEF IInv
<1> QED
  BY Inductive, <1>1, PTL
=============================================================================
