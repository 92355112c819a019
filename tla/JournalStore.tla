---------------------------- MODULE JournalStore ----------------------------
(***************************************************************************)
(* The write-ahead log of filesystem-lab: publication of one transaction   *)
(* in the fixed journal reservation (journal_region.rs), committed replay  *)
(* to the home blocks (recovery.rs), checkpointing (journal_checkpoint.rs) *)
(* and the store_*_journaled calls built from them, over a block device    *)
(* whose writes are volatile until flush().  The device may lose power     *)
(* before any write or flush, and a write, flush or read may fail and      *)
(* leave the call's earlier writes in the volatile image.                  *)
(***************************************************************************)
EXTENDS Integers, FiniteSets

CONSTANTS
  Home,           \* home blocks: allocation, inode, directory and data
  JournalBlocks,  \* size of the journal reservation, in blocks
  Value,          \* contents of a home block
  FaultModels     \* the devices considered: tearing, a power loss keeps any
                  \* subset of unflushed writes; errors, a device call can fail
                  \* without a power loss

ASSUME HomeAssumption == Home \subseteq Nat /\ IsFiniteSet(Home)
ASSUME JournalAssumption == JournalBlocks \in Nat \ {0}
ASSUME FaultAssumption == FaultModels \subseteq [tearing : BOOLEAN, errors : BOOLEAN]

JBlocks == 1 .. JournalBlocks

VARIABLES
  faults,         \* the device, a member of FaultModels
  vhome, vjrn,    \* the image reads see: home blocks, journal blocks
  dhome, djrn,    \* the image that survives a power loss
  pc,             \* the step the running call is at
  call,           \* the running call, see Calls
  txn,            \* the write set being published or replayed
  todo,           \* blocks the running write loop still has to write
  logged,         \* home blocks the running transaction logged (changed)
  result,         \* what the last call returned
  before, after   \* history: home contents before and after the last
                  \* published transaction

device == <<vhome, vjrn, dhome, djrn>>
control == <<pc, call, txn, todo, logged, result>>
history == <<faults, before, after>>
vars == <<device, control, history>>

Tearing == faults.tearing
IOErrors == faults.errors

-----------------------------------------------------------------------------
\* Journal images.

\* A transaction is the function from the home blocks it writes to their new
\* contents; the empty one stands for an empty journal.
Txns == UNION {[S -> Value] : S \in SUBSET Home}
NoTxn == [b \in {} |-> b]

\* A region header, Begin, Commit and one full-block Write record per block
\* take 3 * 32 + n * (32 + 4096) bytes.
ImageBytes(t) == 96 + 4128 * Cardinality(DOMAIN t)
Fits(t) == ImageBytes(t) <= 4096 * JournalBlocks
ImageBlocks(t) == IF t = NoTxn THEN 0 ELSE (ImageBytes(t) + 4095) \div 4096

\* A journal block is zero or a part of the image of one transaction: the
\* checksums of the header and of the records tell parts of two images apart.
Zero == [img |-> NoTxn, part |-> 0]
JBlock == [img : Txns, part : 0 .. JournalBlocks]

Image(t) ==
  [i \in JBlocks |-> IF i <= ImageBlocks(t) THEN [img |-> t, part |-> i]
                                            ELSE Zero]

\* load_journal_image: an all-zero region is an empty journal, a region that
\* is not one complete image is InvalidData.
Loadable(j) == j = Image(j[1].img)
Loaded(j) == j[1].img

\* The home contents after the writes of t.
Apply(t, h) == [b \in Home |-> IF b \in DOMAIN t THEN t[b] ELSE h[b]]

\* The home contents recover_journal reaches from a device image; a journal
\* it refuses to load leaves the home blocks alone.
Recovered(h, j) == IF Loadable(j) THEN Apply(Loaded(j), h) ELSE h

-----------------------------------------------------------------------------
\* Calls.  "store" is a store_*_journaled call that only replays,
\* "store_checkpoint" one that replays and checkpoints, "link" a hard-link,
\* hard-unlink, exchange or linked overwrite: a "store" of the directory
\* table followed by a second replay with checkpoint ("link_again").

StoreCalls == {"store", "store_checkpoint", "link"}
RecoveryCalls == {"recover", "recover_checkpoint"}
Calls == StoreCalls \cup RecoveryCalls \cup {"link_again"}

Checkpoints(c) == c \in {"store_checkpoint", "link_again", "recover_checkpoint"}

\* Calls that compare the recovery report with the transaction they logged.
Checked(c) == c \in StoreCalls

ReportMatches(t) == Cardinality(DOMAIN t) = Cardinality(logged)

\* The running call returns, t being the transaction it replayed.
Return(t) ==
  LET ok == Checked(call) => ReportMatches(t) IN
  /\ pc' = IF ok THEN "idle" ELSE "stopped"
  /\ result' = IF ~ ok THEN "mismatch"
               ELSE IF call \in RecoveryCalls THEN "recovered" ELSE "committed"
  /\ txn' = NoTxn
  /\ todo' = {}
  /\ UNCHANGED <<call, logged>>

\* recover_journal is done with transaction t: what its caller does next.
Replayed(t) ==
  \/ /\ call = "link" /\ ReportMatches(t)
     /\ pc' = "load"
     /\ call' = "link_again"
     /\ txn' = NoTxn
     /\ todo' = {}
     /\ UNCHANGED <<logged, result>>
  \/ /\ Checkpoints(call) /\ t # NoTxn
     /\ pc' = "clear"
     /\ txn' = t
     /\ todo' = JBlocks
     /\ UNCHANGED <<call, logged, result>>
  \/ /\ ~ (call = "link" /\ ReportMatches(t))
     /\ ~ (Checkpoints(call) /\ t # NoTxn)
     /\ Return(t)

Flush == dhome' = vhome /\ djrn' = vjrn /\ UNCHANGED <<vhome, vjrn>>

-----------------------------------------------------------------------------
Init ==
  /\ faults \in FaultModels
  /\ vhome \in [Home -> Value]
  /\ dhome = vhome
  /\ vjrn = Image(NoTxn)
  /\ djrn = vjrn
  /\ pc = "idle"
  /\ call = "recover"
  /\ txn = NoTxn
  /\ todo = {}
  /\ logged = {}
  /\ result = "none"
  /\ before = vhome
  /\ after = vhome

\* A store_*_journaled call has computed its changed blocks t.
Begin(t, c) ==
  /\ pc = "idle"
  /\ t # NoTxn /\ Fits(t)
  /\ pc' = "publish"
  /\ call' = c
  /\ txn' = t
  /\ todo' = JBlocks
  /\ logged' = DOMAIN t
  /\ result' = "none"
  /\ before' = vhome
  /\ after' = Apply(t, vhome)
  /\ UNCHANGED <<device, faults>>

\* The image does not fit: InvalidInput before any write.
Reject(t) ==
  /\ pc = "idle"
  /\ ~ Fits(t)
  /\ result' = "rejected"
  /\ UNCHANGED <<device, history, pc, call, txn, todo, logged>>

\* Mutant: a journal that an earlier call retained is not overwritten.
PublishKeepsRetained ==
  /\ pc = "publish"
  /\ \E i \in todo :
       /\ \A k \in todo : k <= i
       /\ vjrn' = [vjrn EXCEPT ![i] = IF vjrn[1] = Zero THEN Image(txn)[i]
                                                       ELSE vjrn[i]]
       /\ todo' = todo \ {i}
  /\ pc' = IF todo' = {} THEN "publish_flush" ELSE "publish"
  /\ UNCHANGED <<vhome, dhome, djrn, call, txn, logged, result, history>>

\* store_journal_image writes the last journal block first, the header last.
PublishBlock ==
  /\ pc = "publish"
  /\ \E i \in todo :
       /\ \A k \in todo : k <= i
       /\ vjrn' = [vjrn EXCEPT ![i] = Image(txn)[i]]
       /\ todo' = todo \ {i}
  /\ pc' = IF todo' = {} THEN "publish_flush" ELSE "publish"
  /\ UNCHANGED <<vhome, dhome, djrn, call, txn, logged, result, history>>

\* Mutant: the journal image is not flushed before the home writes.
PublishWithoutFlush ==
  /\ pc = "publish_flush"
  /\ pc' = "load"
  /\ UNCHANGED <<device, call, txn, todo, logged, result, history>>

PublishFlush ==
  /\ pc = "publish_flush"
  /\ Flush
  /\ pc' = "load"
  /\ UNCHANGED <<call, txn, todo, logged, result, history>>

\* The client runs recovery, at start-up or after a call failed.
Recover(c) ==
  /\ pc \in {"idle", "stopped"}
  /\ pc' = "load"
  /\ call' = c
  /\ logged' = {}
  /\ result' = "none"
  /\ UNCHANGED <<device, txn, todo, history>>

\* recover_journal loads the journal: nothing to replay, ...
LoadEmpty ==
  /\ pc = "load"
  /\ Loadable(vjrn) /\ Loaded(vjrn) = NoTxn
  /\ Replayed(NoTxn)
  /\ UNCHANGED <<device, history>>

\* Mutant: a checkpointing call clears the journal instead of replaying it.
LoadCheckpointsFirst ==
  /\ pc = "load"
  /\ Loadable(vjrn) /\ Loaded(vjrn) # NoTxn
  /\ txn' = Loaded(vjrn)
  /\ todo' = IF Checkpoints(call) THEN JBlocks ELSE DOMAIN Loaded(vjrn)
  /\ pc' = IF Checkpoints(call) THEN "clear" ELSE "replay"
  /\ UNCHANGED <<device, history, call, logged, result>>

\* ... a committed transaction, ...
LoadTxn ==
  /\ pc = "load"
  /\ Loadable(vjrn) /\ Loaded(vjrn) # NoTxn
  /\ txn' = Loaded(vjrn)
  /\ todo' = DOMAIN Loaded(vjrn)
  /\ pc' = "replay"
  /\ UNCHANGED <<device, history, call, logged, result>>

\* ... or an image that is rejected with InvalidData.
LoadCorrupt ==
  /\ pc = "load"
  /\ ~ Loadable(vjrn)
  /\ pc' = "stopped"
  /\ result' = "corrupt"
  /\ txn' = NoTxn
  /\ todo' = {}
  /\ UNCHANGED <<device, history, call, logged>>

\* Mutant: the replay loop leaves out the last write of a longer transaction.
ReplayOneTooFew ==
  /\ pc = "replay"
  /\ \E b \in todo :
       /\ vhome' = [vhome EXCEPT ![b] = txn[b]]
       /\ todo' = todo \ {b}
  /\ pc' = IF Cardinality(todo') <= 1 THEN "replay_flush" ELSE "replay"
  /\ UNCHANGED <<vjrn, dhome, djrn, call, txn, logged, result, history>>

\* One home write.  Log order is the order the caller listed its changes in,
\* which a write set does not record: any order is allowed.
ReplayBlock ==
  /\ pc = "replay"
  /\ \E b \in todo :
       /\ vhome' = [vhome EXCEPT ![b] = txn[b]]
       /\ todo' = todo \ {b}
  /\ pc' = IF todo' = {} THEN "replay_flush" ELSE "replay"
  /\ UNCHANGED <<vjrn, dhome, djrn, call, txn, logged, result, history>>

\* Mutant: the home writes are not flushed.
ReplayWithoutFlush ==
  /\ pc = "replay_flush"
  /\ Replayed(txn)
  /\ UNCHANGED <<device, history>>

ReplayFlush ==
  /\ pc = "replay_flush"
  /\ Flush
  /\ Replayed(txn)
  /\ UNCHANGED history

\* Mutant: every zeroed journal block is flushed at once.
ClearWriteThrough ==
  /\ pc = "clear"
  /\ \E i \in todo :
       /\ \A k \in todo : i <= k
       /\ vjrn' = [vjrn EXCEPT ![i] = Zero]
       /\ todo' = todo \ {i}
  /\ djrn' = vjrn'
  /\ pc' = IF todo' = {} THEN "clear_flush" ELSE "clear"
  /\ UNCHANGED <<vhome, dhome, call, txn, logged, result, history>>

\* checkpoint_journal zeroes the journal blocks from the first to the last.
ClearBlock ==
  /\ pc = "clear"
  /\ \E i \in todo :
       /\ \A k \in todo : i <= k
       /\ vjrn' = [vjrn EXCEPT ![i] = Zero]
       /\ todo' = todo \ {i}
  /\ pc' = IF todo' = {} THEN "clear_flush" ELSE "clear"
  /\ UNCHANGED <<vhome, dhome, djrn, call, txn, logged, result, history>>

ClearFlush ==
  /\ pc = "clear_flush"
  /\ Flush
  /\ Return(txn)
  /\ UNCHANGED history

\* The device call the running operation is at fails: it takes no effect and
\* the error is returned at once, earlier writes staying in the volatile image.
IOFail ==
  /\ IOErrors
  /\ pc \notin {"idle", "stopped"}
  /\ pc' = "stopped"
  /\ result' = "failed"
  /\ txn' = NoTxn
  /\ todo' = {}
  /\ UNCHANGED <<device, history, call, logged>>

\* Power loss and reboot: of the unflushed writes those to S and R survive.
Crash(S, R) ==
  /\ Tearing \/ (S = {} /\ R = {})
  /\ dhome' = [b \in Home |-> IF b \in S THEN vhome[b] ELSE dhome[b]]
  /\ djrn' = [i \in JBlocks |-> IF i \in R THEN vjrn[i] ELSE djrn[i]]
  /\ vhome' = dhome'
  /\ vjrn' = djrn'
  /\ pc' = "stopped"
  /\ result' = "crashed"
  /\ txn' = NoTxn
  /\ todo' = {}
  /\ UNCHANGED <<history, call, logged>>

Store == \E t \in Txns : (\E c \in StoreCalls : Begin(t, c)) \/ Reject(t)
Recovery == \E c \in RecoveryCalls : Recover(c)
Publish == PublishBlock \/ PublishFlush
Replay == LoadEmpty \/ LoadTxn \/ LoadCorrupt \/ ReplayBlock \/ ReplayFlush
Checkpoint == ClearBlock \/ ClearFlush
PowerLoss ==
  \E S \in SUBSET {b \in Home : vhome[b] # dhome[b]} :
    \E R \in SUBSET {i \in JBlocks : vjrn[i] # djrn[i]} : Crash(S, R)

Next == Store \/ Recovery \/ Publish \/ Replay \/ Checkpoint \/ IOFail \/ PowerLoss

Spec == Init /\ [][Next]_vars

\* The scheduling the liveness property needs: a running call takes its next
\* step, a stopped client runs recovery again, and faults stop at some point.
FairSpec ==
  /\ Spec
  /\ WF_vars(Publish) /\ WF_vars(Replay) /\ WF_vars(Checkpoint)
  /\ WF_vars(pc = "stopped" /\ Recovery)
  /\ <>[][~ IOFail /\ ~ PowerLoss]_vars

-----------------------------------------------------------------------------
\* Properties.

PCs == {"idle", "stopped", "publish", "publish_flush", "load", "replay",
        "replay_flush", "clear", "clear_flush"}
Results == {"none", "committed", "recovered", "rejected", "mismatch",
            "failed", "corrupt", "crashed"}

\* Every variable has its type: the two device images hold whole blocks and
\* the running call only has blocks of the device left to write.
TypeOK ==
  /\ faults \in FaultModels
  /\ vhome \in [Home -> Value] /\ dhome \in [Home -> Value]
  /\ vjrn \in [JBlocks -> JBlock] /\ djrn \in [JBlocks -> JBlock]
  /\ pc \in PCs /\ call \in Calls /\ result \in Results
  /\ txn \in Txns
  /\ todo \subseteq (JBlocks \cup Home)
  /\ logged \subseteq Home
  /\ before \in [Home -> Value] /\ after \in [Home -> Value]

\* What a power loss leaves can be recovered to the complete state before or
\* the complete state after the last published transaction, at every step of
\* store_journal_image, recover_journal and checkpoint_journal.
CrashAtomic == Recovered(dhome, djrn) \in {before, after}

\* A store_*_journaled call that returned Ok is durable as a whole, and no
\* fault and no later recovery takes it back before the next transaction.
AckedDurable == result = "committed" => dhome = after /\ vhome = after

\* Between calls the home blocks a caller reads are the ones a power loss and
\* a recovery would bring back: load_inode_table and the like never read
\* contents that are not durable.
IdleReadsDurable == pc = "idle" => vhome = Recovered(dhome, djrn)

\* A committed journal that a replay-only call leaves in the reservation is
\* harmless: between calls replaying it again changes no home block.
RetainedJournalSettled ==
  pc = "idle" => /\ Loadable(djrn) /\ Apply(Loaded(djrn), dhome) = dhome
                 /\ Loadable(vjrn) /\ Apply(Loaded(vjrn), vhome) = vhome

\* The report check of the store_*_journaled calls never fires: what recovery
\* replayed is the transaction the call has just published.
ReportNeverMismatches == result # "mismatch"

\* When unflushed writes are lost as a whole, the durable journal region is
\* empty or one complete image: recovery after a power loss never fails.
DurableJournalLoads == ~ Tearing => Loadable(djrn)

\* Once the last published transaction is durable it stays durable: no step
\* goes back to the state before it, recovery and checkpointing included.
NoRollback ==
  [][(after' = after /\ Recovered(dhome, djrn) = after)
       => Recovered(dhome, djrn)' = after]_vars

\* Given that faults stop, the client's recovery after a power loss completes
\* unless a device call fails: what is durable is never a journal that is
\* rejected, if a power loss takes the unflushed writes as a whole.  And
\* recovery completes whenever it is started with a journal that loads, unless
\* another fault leaves one that does not.  It is such a journal that keeps the
\* process from recovering: half published or half cleared by a call that a
\* device error ended, or torn by a power loss.
RecoveryCompletes ==
  /\ (result = "crashed" /\ ~ Tearing) ~> (pc = "idle" \/ result = "failed")
  /\ (pc = "stopped" /\ Loadable(vjrn)) ~>
       (pc = "idle" \/ (pc = "stopped" /\ ~ Loadable(vjrn)))

\* The home blocks are one atomic value: the flush that makes the journal
\* image durable is the point where the requested snapshot is taken.
Atomic == INSTANCE AtomicStore WITH
            store <- Recovered(dhome, djrn), requested <- after, reply <- result
ImplementsAtomicStore == Atomic!Spec

\* docs/recovery.md: an I/O failure after the durable commit can be repaired
\* by running recovery again.
FailureAfterCommitRepairable ==
  (pc = "stopped" /\ before # after /\ Recovered(dhome, djrn) = after)
     => Loadable(vjrn)
=============================================================================
