------------------------- MODULE JournalStoreProofs -------------------------
(***************************************************************************)
(* Proofs about JournalStore for every device, journal size and contents.  *)
(* They assume that a power loss that keeps part of the unflushed writes   *)
(* and an I/O error without a power loss do not both happen.               *)
(***************************************************************************)
EXTENDS JournalStore, FiniteSetTheorems, TLAPS

\* The fault model of the theorems.
FaultModel == \A f \in FaultModels : ~ (f.tearing /\ f.errors)

-----------------------------------------------------------------------------
\* The inductive invariant.

\* Replaying the header's transaction leaves h as it is.
Settled(j, h) == Apply(Loaded(j), h) = h

\* Nothing but the journal differs between the images, and it is settled.
HomeClean == vhome = dhome /\ Loadable(djrn) /\ Settled(djrn, dhome)

Publishing == pc \in {"publish", "publish_flush"}
Replaying == pc \in {"replay", "replay_flush"}
Clearing == pc \in {"clear", "clear_flush"}

\* What a recovery started now would make of the volatile image.
VolatileInv ==
  Loadable(vjrn) =>
    /\ Apply(Loaded(vjrn), vhome) \in {before, after}
    /\ Recovered(dhome, djrn) = after => Apply(Loaded(vjrn), vhome) = after
    /\ Loaded(vjrn) = NoTxn => HomeClean

IdleInv == pc = "idle" => HomeClean /\ Loadable(vjrn) /\ Settled(vjrn, vhome)

PublishInv ==
  Publishing =>
    /\ HomeClean /\ vhome = before /\ after = Apply(txn, before)
    /\ txn # NoTxn /\ logged = DOMAIN txn /\ call \in StoreCalls
    /\ todo \subseteq JBlocks
    /\ \A i \in JBlocks \ todo : vjrn[i] = Image(txn)[i]
    /\ 1 \in todo => Settled(vjrn, vhome)
    /\ pc = "publish" => 1 \in todo
    /\ pc = "publish_flush" => todo = {}

ReplayInv ==
  Replaying =>
    /\ Loadable(vjrn) /\ txn = Loaded(vjrn) /\ txn # NoTxn
    /\ todo \subseteq DOMAIN txn
    /\ \A b \in DOMAIN txn \ todo : vhome[b] = txn[b]
    /\ pc = "replay_flush" => todo = {}

ClearInv ==
  Clearing =>
    /\ HomeClean /\ Settled(vjrn, vhome)
    /\ todo \subseteq JBlocks
    /\ \A i \in JBlocks \ todo : vjrn[i] = Zero
    /\ pc = "clear_flush" => todo = {}

\* A store call past its journal flush is committed, and what it replays is
\* what it logged.
StoreInv ==
  call \notin RecoveryCalls =>
    /\ (pc = "load" \/ Replaying \/ Clearing) => Recovered(dhome, djrn) = after
    /\ (pc = "load" \/ Replaying) =>
         Loadable(vjrn) /\ Loaded(vjrn) # NoTxn /\ DOMAIN Loaded(vjrn) = logged
    /\ Clearing => DOMAIN txn = logged

ResultInv ==
  /\ result = "committed" => pc = "idle" /\ dhome = after /\ vhome = after
  /\ result # "mismatch"

\* Without I/O errors the two images only differ where the running loop wrote.
TearingInv ==
  Tearing =>
    /\ pc \in {"idle", "stopped", "load"} => vhome = dhome /\ vjrn = djrn
    /\ Replaying => /\ vjrn = djrn
                    /\ \A b \in Home \ DOMAIN txn : vhome[b] = dhome[b]

IInv ==
  /\ TypeOK /\ CrashAtomic /\ DurableJournalLoads
  /\ VolatileInv /\ IdleInv /\ PublishInv /\ ReplayInv /\ ClearInv
  /\ StoreInv /\ ResultInv /\ TearingInv

USE DEF Tearing, IOErrors

-----------------------------------------------------------------------------
\* Facts about journal images and write sets.

HomeImage == [Home -> Value]
JournalRegion == [JBlocks -> JBlock]

\* A transaction writes home blocks only, with block contents.
LEMMA TxnDomain ==
  ASSUME NEW t \in Txns
  PROVE  DOMAIN t \subseteq Home /\ \A b \in DOMAIN t : t[b] \in Value
  BY DEF Txns

\* The empty write set is a transaction, and replaying it changes nothing.
LEMMA NoTxnFacts ==
  /\ NoTxn \in Txns /\ DOMAIN NoTxn = {}
  /\ \A h \in HomeImage : Apply(NoTxn, h) = h
  <1>1. NoTxn \in [{} -> Value] /\ DOMAIN NoTxn = {}
    BY DEF NoTxn
  <1>2. NoTxn \in Txns
    BY <1>1 DEF Txns
  <1>3. \A h \in HomeImage : Apply(NoTxn, h) = h
    BY <1>1 DEF Apply, HomeImage
  <1>4. QED
    BY <1>1, <1>2, <1>3

\* Replay (recover_journal's home writes) yields home contents.
LEMMA ApplyType ==
  ASSUME NEW t \in Txns, NEW h \in HomeImage
  PROVE  Apply(t, h) \in HomeImage
  BY TxnDomain DEF Apply, HomeImage

\* Writing one block of t does not change what replaying t leads to.
LEMMA ApplyStep ==
  ASSUME NEW t \in Txns, NEW h \in HomeImage, NEW b \in DOMAIN t
  PROVE  Apply(t, [h EXCEPT ![b] = t[b]]) = Apply(t, h)
  BY TxnDomain DEF Apply, HomeImage

\* Once every block of t is written, replaying t changes nothing.
LEMMA ApplyDone ==
  ASSUME NEW t \in Txns, NEW h \in HomeImage, \A b \in DOMAIN t : h[b] = t[b]
  PROVE  Apply(t, h) = h
  BY TxnDomain DEF Apply, HomeImage

\* Replaying t a second time changes nothing: recovery is idempotent.
LEMMA ApplyIdempotent ==
  ASSUME NEW t \in Txns, NEW h \in HomeImage
  PROVE  Apply(t, Apply(t, h)) = Apply(t, h)
  BY TxnDomain DEF Apply, HomeImage

\* Only the blocks t does not write matter for the outcome of replaying t.
LEMMA ApplyAgree ==
  ASSUME NEW t \in Txns, NEW h \in HomeImage, NEW g \in HomeImage,
         \A b \in Home \ DOMAIN t : h[b] = g[b]
  PROVE  Apply(t, h) = Apply(t, g)
  BY TxnDomain DEF Apply, HomeImage

\* A non-empty image takes at least the block with the region header.
LEMMA ImageBlocksPositive ==
  ASSUME NEW t \in Txns
  PROVE  /\ ImageBlocks(t) \in Nat
         /\ t # NoTxn => ImageBlocks(t) >= 1
         /\ t = NoTxn => ImageBlocks(t) = 0
  <1>1. IsFiniteSet(DOMAIN t)
    BY TxnDomain, HomeAssumption, FS_Subset
  <1>2. Cardinality(DOMAIN t) \in Nat
    BY <1>1, FS_CardinalityType
  <1>3. QED
    BY <1>2 DEF ImageBlocks, ImageBytes

\* store_journal_image writes a region that load_journal_image accepts and
\* reads back as the same transaction; block 1 alone tells which one it is.
LEMMA ImageFacts ==
  ASSUME NEW t \in Txns
  PROVE  /\ Image(t) \in JournalRegion
         /\ Image(t)[1].img = t
         /\ Loadable(Image(t)) /\ Loaded(Image(t)) = t
  <1>0. 1 \in JBlocks
    BY JournalAssumption DEF JBlocks
  <1>1. Zero \in JBlock
    BY NoTxnFacts, JournalAssumption DEF Zero, JBlock
  <1>2. \A i \in JBlocks : [img |-> t, part |-> i] \in JBlock
    BY JournalAssumption DEF JBlocks, JBlock
  <1>3. Image(t) \in JournalRegion
    BY <1>1, <1>2 DEF Image, JournalRegion
  <1>4. Image(t)[1].img = t
    BY <1>0, ImageBlocksPositive DEF Image, Zero
  <1>5. QED
    BY <1>3, <1>4 DEF Loadable, Loaded

\* The empty journal is the all-zero region.
LEMMA EmptyImage == Image(NoTxn) = [i \in JBlocks |-> Zero]
  <1>1. \A i \in JBlocks : ~ (i <= ImageBlocks(NoTxn))
    BY NoTxnFacts, ImageBlocksPositive DEF JBlocks
  <1>2. QED
    BY <1>1 DEF Image

\* What load_journal_image reads is a transaction.
LEMMA LoadedType ==
  ASSUME NEW j \in JournalRegion
  PROVE  Loaded(j) \in Txns
  BY JournalAssumption DEF Loaded, JournalRegion, JBlock, JBlocks

\* Two loadable regions with the same first block are the same region.
LEMMA SameHead ==
  ASSUME NEW j, NEW k, Loadable(j), Loadable(k), j[1] = k[1]
  PROVE  j = k
  BY DEF Loadable

-----------------------------------------------------------------------------
\* The invariant holds initially and every action preserves it.

\* A freshly formatted device has an empty journal and clean home blocks.
LEMMA InitIInv == Init => IInv
  <1> SUFFICES ASSUME Init PROVE IInv
    OBVIOUS
  <1>1. vhome \in HomeImage /\ dhome = vhome /\ before = vhome /\ after = vhome
    BY DEF Init, HomeImage
  <1>2. /\ vjrn = Image(NoTxn) /\ djrn = vjrn /\ vjrn \in JournalRegion
        /\ Loadable(vjrn) /\ Loaded(vjrn) = NoTxn
    BY NoTxnFacts, ImageFacts DEF Init
  <1>3. Apply(NoTxn, vhome) = vhome
    BY <1>1, NoTxnFacts
  <1>4. TypeOK
    BY <1>1, <1>2, NoTxnFacts
    DEF Init, TypeOK, HomeImage, JournalRegion, PCs, Calls, RecoveryCalls, Results
  <1>5. QED
    BY <1>1, <1>2, <1>3, <1>4
    DEF Init, IInv, CrashAtomic, DurableJournalLoads, VolatileInv, IdleInv,
        PublishInv, ReplayInv, ClearInv, StoreInv, ResultInv, TearingInv,
        HomeClean, Settled, Recovered, Publishing, Replaying, Clearing,
        RecoveryCalls

\* Begin: the transaction is in memory only.
LEMMA BeginIInv ==
  ASSUME IInv, NEW t \in Txns, NEW c \in StoreCalls, Begin(t, c)
  PROVE  IInv'
  <1>1. vhome \in HomeImage /\ Apply(t, vhome) \in HomeImage
    BY ApplyType DEF IInv, TypeOK, HomeImage
  <1>2. HomeClean /\ Loadable(vjrn) /\ Settled(vjrn, vhome)
    BY DEF IInv, IdleInv, Begin
  <1>3. Recovered(dhome, djrn) = vhome
    BY <1>2 DEF HomeClean, Settled, Recovered
  <1>4. 1 \in JBlocks
    BY JournalAssumption DEF JBlocks
  <1>5. TypeOK'
    BY <1>1, TxnDomain
    DEF IInv, TypeOK, Begin, device, HomeImage, PCs, Calls, Results
  <1>6. (CrashAtomic /\ DurableJournalLoads /\ VolatileInv)'
    BY <1>2, <1>3
    DEF IInv, CrashAtomic, DurableJournalLoads, VolatileInv, Begin, device,
        HomeClean, Settled
  <1>7. PublishInv'
    BY <1>2, <1>4 DEF PublishInv, Begin, device, HomeClean, Settled, Publishing
  <1>8. QED
    BY <1>5, <1>6, <1>7
    DEF IInv, IdleInv, ReplayInv, ClearInv, StoreInv, ResultInv, TearingInv,
        Begin, Replaying, Clearing

\* Reject: nothing but the returned error changes.
LEMMA RejectIInv ==
  ASSUME IInv, NEW t \in Txns, Reject(t)
  PROVE  IInv'
  BY DEF IInv, TypeOK, CrashAtomic, DurableJournalLoads, VolatileInv, IdleInv,
         PublishInv, ReplayInv, ClearInv, StoreInv, ResultInv, TearingInv,
         Reject, device, history, HomeClean, Publishing, Replaying, Clearing,
         Results

\* PublishBlock: the header goes last, so until then the region is not an
\* image of the new transaction and the old header is settled.
LEMMA PublishBlockIInv ==
  ASSUME IInv, PublishBlock
  PROVE  IInv'
  <1>1. PICK i \in todo : /\ \A k \in todo : k <= i
                          /\ vjrn' = [vjrn EXCEPT ![i] = Image(txn)[i]]
                          /\ todo' = todo \ {i}
    BY DEF PublishBlock
  <1>2. /\ HomeClean /\ vhome = before /\ after = Apply(txn, before)
        /\ txn # NoTxn /\ logged = DOMAIN txn /\ call \in StoreCalls
        /\ todo \subseteq JBlocks /\ 1 \in todo /\ Settled(vjrn, vhome)
        /\ \A k \in JBlocks \ todo : vjrn[k] = Image(txn)[k]
    BY DEF IInv, PublishInv, PublishBlock, Publishing
  <1>3. /\ vhome \in HomeImage /\ txn \in Txns
        /\ vjrn \in JournalRegion /\ Image(txn) \in JournalRegion
        /\ Image(txn)[1].img = txn
    BY ImageFacts DEF IInv, TypeOK, HomeImage, JournalRegion
  <1>4. vjrn' \in JournalRegion
    BY <1>1, <1>2, <1>3 DEF JournalRegion
  <1>5. \A k \in JBlocks \ todo' : vjrn'[k] = Image(txn)[k]
    BY <1>1, <1>2, <1>3 DEF JournalRegion
  <1>6. CASE i = 1
    <2>1. todo' = {}
      BY <1>1, <1>2, <1>6 DEF JBlocks
    <2>2. vjrn' = Image(txn)
      BY <1>3, <1>4, <1>5, <2>1 DEF JournalRegion
    <2>3. Loaded(vjrn') = txn
      BY <2>2, <1>3, ImageFacts
    <2>4. VolatileInv'
      BY <2>3, <1>2
      DEF VolatileInv, PublishBlock, history, HomeClean, Settled, Recovered
    <2>5. QED
      BY <1>1, <1>2, <1>4, <1>5, <2>1, <2>4
      DEF IInv, TypeOK, CrashAtomic, DurableJournalLoads, IdleInv, PublishInv,
          ReplayInv, ClearInv, StoreInv, ResultInv, TearingInv, PublishBlock,
          history, HomeClean, Publishing, Replaying, Clearing, JournalRegion, PCs
  <1>7. CASE i # 1
    <2>1. 1 \in todo' /\ vjrn'[1] = vjrn[1] /\ Loaded(vjrn') = Loaded(vjrn)
      BY <1>1, <1>2, <1>3, <1>7 DEF JournalRegion, Loaded
    <2>2. Settled(vjrn, vhome)'
      BY <2>1, <1>2 DEF Settled, PublishBlock
    <2>3. VolatileInv'
      BY <2>2, <1>2
      DEF VolatileInv, PublishBlock, history, HomeClean, Settled, Recovered
    <2>4. QED
      BY <1>1, <1>2, <1>4, <1>5, <2>1, <2>2, <2>3
      DEF IInv, TypeOK, CrashAtomic, DurableJournalLoads, IdleInv, PublishInv,
          ReplayInv, ClearInv, StoreInv, ResultInv, TearingInv, PublishBlock,
          history, HomeClean, Publishing, Replaying, Clearing, JournalRegion, PCs
  <1>8. QED
    BY <1>6, <1>7

\* PublishFlush: the commit point.
LEMMA PublishFlushIInv ==
  ASSUME IInv, PublishFlush
  PROVE  IInv'
  <1>1. /\ HomeClean /\ vhome = before /\ after = Apply(txn, before)
        /\ txn # NoTxn /\ logged = DOMAIN txn /\ call \in StoreCalls
        /\ \A k \in JBlocks : vjrn[k] = Image(txn)[k]
    BY DEF IInv, PublishInv, PublishFlush, Publishing
  <1>2. vhome \in HomeImage /\ vjrn \in JournalRegion /\ txn \in Txns
    BY DEF IInv, TypeOK, HomeImage, JournalRegion
  <1>3. vjrn = Image(txn)
    BY <1>1, <1>2, ImageFacts DEF JournalRegion
  <1>4. Loadable(vjrn) /\ Loaded(vjrn) = txn
    BY <1>2, <1>3, ImageFacts
  <1>5. /\ vhome' = vhome /\ vjrn' = vjrn /\ dhome' = vhome /\ djrn' = vjrn
        /\ pc' = "load"
        /\ UNCHANGED <<call, txn, todo, logged, result, faults, before, after>>
    BY DEF PublishFlush, Flush, history
  <1>6. Recovered(dhome, djrn)' = after
    BY <1>1, <1>4, <1>5 DEF Recovered
  <1>7. QED
    BY <1>1, <1>4, <1>5, <1>6, SMTT(30)
    DEF IInv, TypeOK, CrashAtomic, DurableJournalLoads, VolatileInv, IdleInv,
        PublishInv, ReplayInv, ClearInv, StoreInv, ResultInv, TearingInv,
        HomeClean, Publishing, Replaying, Clearing, PCs, PublishFlush

\* Recover and LoadCorrupt only move control.
LEMMA RecoverIInv ==
  ASSUME IInv, NEW c \in RecoveryCalls, Recover(c)
  PROVE  IInv'
  BY SMTT(30) DEF IInv, TypeOK, CrashAtomic, DurableJournalLoads, VolatileInv, IdleInv,
         PublishInv, ReplayInv, ClearInv, StoreInv, ResultInv, TearingInv,
         Recover, device, history, HomeClean, Publishing, Replaying, Clearing,
         PCs, Calls, Results

LEMMA LoadCorruptIInv ==
  ASSUME IInv, LoadCorrupt
  PROVE  IInv'
  BY NoTxnFacts, SMTT(30)
  DEF IInv, TypeOK, CrashAtomic, DurableJournalLoads, VolatileInv, IdleInv,
      PublishInv, ReplayInv, ClearInv, StoreInv, ResultInv, TearingInv,
      LoadCorrupt, device, history, HomeClean, Publishing, Replaying, Clearing,
      PCs, Results

\* LoadTxn: the replay loop starts on the loaded transaction.
LEMMA LoadTxnIInv ==
  ASSUME IInv, LoadTxn
  PROVE  IInv'
  <1>1. Loaded(vjrn) \in Txns /\ DOMAIN Loaded(vjrn) \subseteq Home
    BY LoadedType, TxnDomain, SMTT(30) DEF IInv, TypeOK, JournalRegion
  <1>2. QED
    BY <1>1
    DEF IInv, TypeOK, CrashAtomic, DurableJournalLoads, VolatileInv, IdleInv,
        PublishInv, ReplayInv, ClearInv, StoreInv, ResultInv, TearingInv,
        LoadTxn, device, history, HomeClean, Publishing, Replaying, Clearing,
        PCs

\* ReplayBlock: a home write of the loaded transaction.
LEMMA ReplayBlockIInv ==
  ASSUME IInv, ReplayBlock
  PROVE  IInv'
  <1>1. PICK b \in todo : /\ vhome' = [vhome EXCEPT ![b] = txn[b]]
                          /\ todo' = todo \ {b}
    BY DEF ReplayBlock
  <1>2. /\ Loadable(vjrn) /\ txn = Loaded(vjrn) /\ txn # NoTxn
        /\ todo \subseteq DOMAIN txn /\ b \in DOMAIN txn
        /\ \A k \in DOMAIN txn \ todo : vhome[k] = txn[k]
    BY <1>1 DEF IInv, ReplayInv, ReplayBlock, Replaying
  <1>3. vhome \in HomeImage /\ txn \in Txns /\ DOMAIN txn \subseteq Home
    BY TxnDomain DEF IInv, TypeOK, HomeImage
  <1>4. vhome' \in HomeImage
    BY <1>1, <1>2, <1>3, TxnDomain DEF HomeImage
  <1>5. Apply(txn, vhome') = Apply(txn, vhome)
    BY <1>1, <1>2, <1>3, ApplyStep
  <1>6. \A k \in DOMAIN txn \ todo' : vhome'[k] = txn[k]
    BY <1>1, <1>2, <1>3 DEF HomeImage
  <1>7. \A k \in Home \ DOMAIN txn : vhome'[k] = vhome[k]
    BY <1>1, <1>2, <1>3 DEF HomeImage
  <1>8. VolatileInv'
    BY <1>2, <1>5 DEF IInv, VolatileInv, ReplayBlock, history
  <1>9. TypeOK'
    BY <1>1, <1>4, SMTT(30) DEF IInv, TypeOK, ReplayBlock, history, HomeImage, PCs
  <1>10. QED
    BY <1>1, <1>2, <1>6, <1>7, <1>8, <1>9
    DEF IInv, CrashAtomic, DurableJournalLoads, IdleInv, PublishInv, ReplayInv,
        ClearInv, StoreInv, ResultInv, TearingInv, ReplayBlock, history,
        Publishing, Replaying, Clearing

\* LoadEmpty: only a recovery finds an empty journal, and then there is
\* nothing that a flush has still to make durable.
LEMMA LoadEmptyIInv ==
  ASSUME IInv, LoadEmpty
  PROVE  IInv'
  <1>1. call \in RecoveryCalls
    BY DEF IInv, StoreInv, LoadEmpty
  <1>2. /\ pc' = "idle" /\ result' = "recovered" /\ txn' = NoTxn /\ todo' = {}
        /\ UNCHANGED <<device, history, call, logged>>
    BY <1>1 DEF LoadEmpty, Replayed, Return, Checked, Checkpoints, RecoveryCalls,
                StoreCalls
  <1>3. HomeClean /\ Loadable(vjrn) /\ Settled(vjrn, vhome)
    BY NoTxnFacts
    DEF IInv, VolatileInv, LoadEmpty, Settled, TypeOK, HomeImage
  <1>4. CrashAtomic' /\ DurableJournalLoads' /\ VolatileInv'
    BY <1>2
    DEF IInv, CrashAtomic, DurableJournalLoads, VolatileInv, HomeClean, device,
        history
  <1>5. QED
    BY <1>1, <1>2, <1>3, <1>4, NoTxnFacts
    DEF IInv, TypeOK, IdleInv, PublishInv, ReplayInv, ClearInv, StoreInv,
        ResultInv, TearingInv, LoadEmpty, device, history, HomeClean,
        Publishing, Replaying, Clearing, PCs, Results

\* ReplayFlush: every home write of the transaction is durable, and replaying
\* the journal again would change nothing.
LEMMA ReplayFlushIInv ==
  ASSUME IInv, ReplayFlush
  PROVE  IInv'
  <1>1. /\ Loadable(vjrn) /\ txn = Loaded(vjrn) /\ txn # NoTxn
        /\ \A b \in DOMAIN txn : vhome[b] = txn[b]
    BY DEF IInv, ReplayInv, ReplayFlush, Replaying
  <1>2. vhome \in HomeImage /\ txn \in Txns
    BY DEF IInv, TypeOK, HomeImage
  <1>3. Apply(txn, vhome) = vhome
    BY <1>1, <1>2, ApplyDone
  <1>4. /\ vhome' = vhome /\ vjrn' = vjrn /\ dhome' = vhome /\ djrn' = vjrn
        /\ UNCHANGED history
    BY DEF ReplayFlush, Flush
  <1>5. HomeClean' /\ Loadable(vjrn') /\ Settled(vjrn', vhome')
    BY <1>1, <1>3, <1>4 DEF HomeClean, Settled
  <1>6. vhome \in {before, after} /\ Recovered(dhome, djrn)' = vhome
    BY <1>1, <1>3, <1>4 DEF IInv, VolatileInv, Recovered
  <1>7. call \notin RecoveryCalls => vhome = after /\ DOMAIN txn = logged
    BY <1>1, <1>3 DEF IInv, StoreInv, VolatileInv, ReplayFlush, Replaying
  <1>8. /\ CrashAtomic' /\ DurableJournalLoads' /\ VolatileInv'
        /\ vhome' \in HomeImage /\ dhome' \in HomeImage
    BY <1>1, <1>2, <1>3, <1>4, <1>5, <1>6, SMTT(30)
    DEF CrashAtomic, DurableJournalLoads, VolatileInv, history
  <1>9. CASE /\ pc' = "load" /\ call = "link" /\ call' = "link_again"
             /\ txn' = NoTxn /\ todo' = {} /\ UNCHANGED <<logged, result>>
    BY <1>1, <1>4, <1>5, <1>6, <1>7, <1>8, <1>9, NoTxnFacts, SMTT(30)
    DEF IInv, TypeOK, IdleInv, PublishInv, ReplayInv, ClearInv, StoreInv,
        ResultInv, TearingInv, history, Publishing, Replaying, Clearing, PCs,
        Calls, RecoveryCalls, HomeImage, ReplayFlush
  <1>10. CASE /\ pc' = "clear" /\ txn' = txn /\ todo' = JBlocks
              /\ UNCHANGED <<call, logged, result>>
    BY <1>1, <1>4, <1>5, <1>6, <1>7, <1>8, <1>10, SMTT(30)
    DEF IInv, TypeOK, IdleInv, PublishInv, ReplayInv, ClearInv, StoreInv,
        ResultInv, TearingInv, history, Publishing, Replaying, Clearing, PCs,
        HomeImage, ReplayFlush
  <1>11. CASE Return(txn)
    <2>1. Checked(call) => ReportMatches(txn)
      BY <1>7 DEF Checked, ReportMatches, StoreCalls, RecoveryCalls
    <2>2. /\ pc' = "idle" /\ txn' = NoTxn /\ todo' = {}
          /\ result' \in {"recovered", "committed"}
          /\ result' = "committed" => call \notin RecoveryCalls
          /\ UNCHANGED <<call, logged>>
      BY <1>11, <2>1, SMTT(30) DEF Return
    <2>3. QED
      BY <1>1, <1>4, <1>5, <1>6, <1>7, <1>8, <2>2, NoTxnFacts
      DEF IInv, TypeOK, IdleInv, PublishInv, ReplayInv, ClearInv, StoreInv,
          ResultInv, TearingInv, history, Publishing, Replaying, Clearing, PCs,
          HomeImage, Results
  <1>12. QED
    BY <1>9, <1>10, <1>11 DEF ReplayFlush, Replayed

\* ClearBlock: block 1 goes first, and a zeroed header has nothing to replay.
LEMMA ClearBlockIInv ==
  ASSUME IInv, ClearBlock
  PROVE  IInv'
  <1>1. PICK i \in todo : /\ \A k \in todo : i <= k
                          /\ vjrn' = [vjrn EXCEPT ![i] = Zero]
                          /\ todo' = todo \ {i}
    BY DEF ClearBlock
  <1>2. /\ HomeClean /\ Settled(vjrn, vhome) /\ todo \subseteq JBlocks
        /\ \A k \in JBlocks \ todo : vjrn[k] = Zero
    BY DEF IInv, ClearInv, ClearBlock, Clearing
  <1>3. /\ vhome \in HomeImage /\ vjrn \in JournalRegion
        /\ Zero \in JBlock /\ Zero.img = NoTxn /\ 1 \in JBlocks
    BY NoTxnFacts, JournalAssumption
    DEF IInv, TypeOK, HomeImage, JournalRegion, Zero, JBlock, JBlocks
  <1>4. /\ vjrn' \in JournalRegion /\ vjrn'[1] = Zero
        /\ \A k \in JBlocks \ todo' : vjrn'[k] = Zero
    <2>1. vjrn' \in JournalRegion /\ \A k \in JBlocks \ todo' : vjrn'[k] = Zero
      BY <1>1, <1>2, <1>3 DEF JournalRegion
    <2>2. 1 \notin todo'
      BY <1>1, <1>2 DEF JBlocks
    <2>3. QED
      BY <2>1, <2>2, <1>3
  <1>5. Loaded(vjrn') = NoTxn
    BY <1>3, <1>4 DEF Loaded
  <1>6. Settled(vjrn', vhome)
    BY <1>3, <1>5, NoTxnFacts DEF Settled
  <1>7. HomeClean' /\ Recovered(dhome, djrn) = vhome
    BY <1>2 DEF HomeClean, ClearBlock, Recovered, Settled
  <1>8. VolatileInv'
    BY <1>6, <1>7, SMTT(30)
    DEF IInv, CrashAtomic, VolatileInv, ClearBlock, history, Settled
  <1>9. QED
    BY <1>1, <1>2, <1>4, <1>6, <1>7, <1>8
    DEF IInv, TypeOK, CrashAtomic, DurableJournalLoads, IdleInv, PublishInv,
        ReplayInv, ClearInv, StoreInv, ResultInv, TearingInv, ClearBlock,
        history, Publishing, Replaying, Clearing, PCs, JournalRegion

\* ClearFlush: the empty journal is durable and the call returns.
LEMMA ClearFlushIInv ==
  ASSUME IInv, ClearFlush
  PROVE  IInv'
  <1>1. /\ HomeClean /\ \A k \in JBlocks : vjrn[k] = Zero
    BY DEF IInv, ClearInv, ClearFlush, Clearing
  <1>2. vhome \in HomeImage /\ vjrn \in JournalRegion
    BY DEF IInv, TypeOK, HomeImage, JournalRegion
  <1>3. vjrn = Image(NoTxn)
    BY <1>1, <1>2, EmptyImage DEF JournalRegion
  <1>4. Loadable(vjrn) /\ Loaded(vjrn) = NoTxn
    BY <1>3, ImageFacts, NoTxnFacts
  <1>5. /\ vhome' = vhome /\ vjrn' = vjrn /\ dhome' = vhome /\ djrn' = vjrn
        /\ UNCHANGED history
    BY DEF ClearFlush, Flush
  <1>6. Apply(NoTxn, vhome) = vhome
    BY <1>2, NoTxnFacts
  <1>7. Recovered(dhome, djrn) = vhome
    BY <1>1 DEF HomeClean, Recovered, Settled
  <1>8. Recovered(dhome, djrn)' = vhome
    BY <1>4, <1>5, <1>6 DEF Recovered
  <1>9. HomeClean' /\ Settled(vjrn', vhome')
    BY <1>4, <1>5, <1>6 DEF HomeClean, Settled
  <1>10. CrashAtomic' /\ DurableJournalLoads' /\ VolatileInv'
    BY <1>4, <1>5, <1>6, <1>7, <1>8, <1>9
    DEF IInv, CrashAtomic, DurableJournalLoads, VolatileInv, history
  <1>11. call \notin RecoveryCalls => vhome = after /\ DOMAIN txn = logged
    BY <1>7 DEF IInv, StoreInv, ClearFlush, Clearing
  <1>12. Checked(call) => ReportMatches(txn)
    BY <1>11 DEF Checked, ReportMatches, StoreCalls, RecoveryCalls
  <1>13. /\ pc' = "idle" /\ txn' = NoTxn /\ todo' = {}
         /\ result' \in {"recovered", "committed"}
         /\ result' = "committed" => call \notin RecoveryCalls
         /\ UNCHANGED <<call, logged>>
    BY <1>12, SMTT(30) DEF ClearFlush, Return
  <1>14. QED
    BY <1>4, <1>5, <1>9, <1>10, <1>11, <1>13, NoTxnFacts
    DEF IInv, TypeOK, IdleInv, PublishInv, ReplayInv, ClearInv, StoreInv,
        ResultInv, TearingInv, history, Publishing, Replaying, Clearing, PCs,
        Results

\* IOFail: the volatile image keeps what it holds, and it is one that the next
\* recovery completes or refuses.
LEMMA IOFailIInv ==
  ASSUME FaultModel, IInv, IOFail
  PROVE  IInv'
  <1>1. ~ Tearing
    BY DEF FaultModel, IOFail, IInv, TypeOK
  <1>2. CrashAtomic' /\ DurableJournalLoads' /\ VolatileInv'
    BY SMTT(30) DEF IInv, IOFail, CrashAtomic, DurableJournalLoads, VolatileInv,
           HomeClean, device, history
  <1>3. QED
    BY <1>1, <1>2, NoTxnFacts
    DEF IInv, TypeOK, IdleInv, PublishInv, ReplayInv, ClearInv, StoreInv,
        ResultInv, TearingInv, IOFail, device, history, Publishing, Replaying,
        Clearing, PCs, Results

-----------------------------------------------------------------------------
\* Power loss.

\* What a power loss leaves recovers to what it would have recovered to
\* before the loss, or to the state the volatile image recovers to.
CrashOutcome(h, j) ==
  /\ Recovered(h, j) \in {before, after}
  /\ Recovered(dhome, djrn) = after => Recovered(h, j) = after
  /\ Loadable(j) => Apply(Loaded(j), h) \in {before, after}
  /\ (Loadable(j) /\ Loaded(j) = NoTxn) => Settled(j, h)

\* The control part of a crash, given its effect on the device.
LEMMA CrashControl ==
  ASSUME IInv, NEW S \in SUBSET Home, NEW R \in SUBSET JBlocks, Crash(S, R),
         CrashOutcome(dhome', djrn'), ~ Tearing => Loadable(djrn')
  PROVE  IInv'
  <1>1. /\ vhome' = dhome' /\ vjrn' = djrn'
        /\ UNCHANGED <<faults, before, after>>
    BY DEF Crash, history
  <1>2. dhome' \in HomeImage /\ djrn' \in JournalRegion
    BY DEF IInv, TypeOK, Crash, HomeImage, JournalRegion
  <1>3. CrashAtomic' /\ DurableJournalLoads'
    BY <1>1 DEF CrashAtomic, DurableJournalLoads, CrashOutcome, Recovered
  <1>4. VolatileInv'
    BY <1>1 DEF VolatileInv, CrashOutcome, HomeClean, Recovered, Settled
  <1>5. QED
    BY <1>1, <1>2, <1>3, <1>4, NoTxnFacts, SMTT(30)
    DEF IInv, TypeOK, IdleInv, PublishInv, ReplayInv, ClearInv, StoreInv,
        ResultInv, TearingInv, Crash, Publishing, Replaying, Clearing, PCs,
        Results, HomeImage, JournalRegion

\* Keeping the durable image keeps its outcome.
LEMMA SameImageOutcome ==
  ASSUME IInv
  PROVE  CrashOutcome(dhome, djrn)
  BY NoTxnFacts
  DEF IInv, CrashAtomic, CrashOutcome, TypeOK, HomeImage, Recovered, Settled

\* A journal whose header is settled recovers to the home blocks as they are.
LEMMA SettledOutcome ==
  ASSUME IInv, HomeClean, NEW j, Settled(j, dhome)
  PROVE  CrashOutcome(dhome, j)
  BY DEF IInv, CrashAtomic, CrashOutcome, HomeClean, Recovered, Settled

\* A power loss during any call, with any part of the unflushed writes lost.
LEMMA CrashKeepsCommit ==
  ASSUME IInv, NEW S \in SUBSET Home, NEW R \in SUBSET JBlocks, Crash(S, R)
  PROVE  /\ CrashOutcome(dhome', djrn')
         /\ ~ Tearing => Loadable(djrn')
  <1>1. /\ vhome \in HomeImage /\ dhome \in HomeImage
        /\ vjrn \in JournalRegion /\ djrn \in JournalRegion
        /\ txn \in Txns /\ pc \in PCs /\ 1 \in JBlocks
    BY JournalAssumption DEF IInv, TypeOK, HomeImage, JournalRegion, JBlocks
  <1>2. /\ dhome' \in HomeImage /\ djrn' \in JournalRegion
        /\ \A b \in Home : dhome'[b] \in {vhome[b], dhome[b]}
        /\ \A i \in JBlocks : djrn'[i] \in {vjrn[i], djrn[i]}
    BY <1>1 DEF Crash, HomeImage, JournalRegion
  <1>3. CASE ~ Tearing
    <2>1. dhome' = dhome /\ djrn' = djrn
      BY <1>1, <1>3 DEF Crash, HomeImage, JournalRegion
    <2>2. QED
      BY <2>1, <1>3, SameImageOutcome
      DEF IInv, DurableJournalLoads
  <1>4. CASE Tearing
    <2>1. CASE pc \in {"idle", "stopped", "load"}
      <3>1. vhome = dhome /\ vjrn = djrn
        BY <1>4, <2>1 DEF IInv, TearingInv
      <3>2. dhome' = dhome /\ djrn' = djrn
        BY <1>1, <1>2, <3>1 DEF HomeImage, JournalRegion
      <3>3. QED
        BY <1>4, <3>2, SameImageOutcome
    <2>2. CASE Publishing \/ Clearing
      <3>1. HomeClean /\ vhome = dhome
        BY <2>2 DEF IInv, PublishInv, ClearInv, HomeClean
      <3>2. dhome' = dhome
        BY <1>1, <1>2, <3>1 DEF HomeImage
      <3>3. djrn'[1] \in {vjrn[1], djrn[1]}
        BY <1>1, <1>2
      <3>4. CASE Settled(djrn', dhome)
        BY <1>4, <3>1, <3>2, <3>4, SettledOutcome
      <3>5. CASE ~ Settled(djrn', dhome)
        <4>1. djrn'[1] = vjrn[1] /\ ~ Settled(vjrn, vhome)
          BY <3>1, <3>3, <3>5 DEF HomeClean, Settled, Loaded
        <4>2. /\ Publishing /\ vjrn[1] = Image(txn)[1]
              /\ vhome = before /\ after = Apply(txn, before)
              /\ txn # NoTxn
          BY <1>1, <2>2, <4>1 DEF IInv, PublishInv, ClearInv
        <4>3. Loaded(djrn') = txn
          BY <1>1, <4>1, <4>2, ImageFacts DEF Loaded
        <4>4. CrashOutcome(dhome, djrn')
          BY <3>1, <4>2, <4>3 DEF CrashOutcome, HomeClean, Recovered, Settled
        <4>5. QED
          BY <1>4, <3>2, <4>4
      <3>6. QED
        BY <3>4, <3>5
    <2>3. CASE Replaying
      <3>1. /\ vjrn = djrn /\ Loadable(djrn) /\ txn = Loaded(djrn)
            /\ txn # NoTxn
            /\ \A b \in Home \ DOMAIN txn : vhome[b] = dhome[b]
        BY <1>4, <2>3 DEF IInv, TearingInv, ReplayInv
      <3>2. djrn' = djrn
        BY <1>1, <1>2, <3>1 DEF JournalRegion
      <3>3. Apply(txn, dhome') = Apply(txn, dhome)
        BY <1>1, <1>2, <3>1, ApplyAgree
      <3>4. CrashOutcome(dhome', djrn')
        BY <3>1, <3>2, <3>3
        DEF IInv, CrashAtomic, CrashOutcome, Recovered
      <3>5. QED
        BY <1>4, <3>4
    <2>4. QED
      BY <1>1, <2>1, <2>2, <2>3 DEF PCs, Publishing, Replaying, Clearing
  <1>5. QED
    BY <1>3, <1>4

LEMMA CrashIInv ==
  ASSUME IInv, NEW S \in SUBSET Home, NEW R \in SUBSET JBlocks, Crash(S, R)
  PROVE  IInv'
  BY CrashKeepsCommit, CrashControl

-----------------------------------------------------------------------------
\* Every step, and the theorems.

LEMMA NextIInv ==
  ASSUME FaultModel, IInv, [Next]_vars
  PROVE  IInv'
  <1>1. ASSUME NEW t \in Txns, NEW c \in StoreCalls, Begin(t, c) PROVE IInv'
    BY <1>1, BeginIInv
  <1>2. ASSUME NEW t \in Txns, Reject(t) PROVE IInv'
    BY <1>2, RejectIInv
  <1>3. ASSUME NEW c \in RecoveryCalls, Recover(c) PROVE IInv'
    BY <1>3, RecoverIInv
  <1>4. CASE Publish
    BY <1>4, PublishBlockIInv, PublishFlushIInv DEF Publish
  <1>5. CASE Replay
    BY <1>5, LoadEmptyIInv, LoadTxnIInv, LoadCorruptIInv, ReplayBlockIInv,
       ReplayFlushIInv DEF Replay
  <1>6. CASE Checkpoint
    BY <1>6, ClearBlockIInv, ClearFlushIInv DEF Checkpoint
  <1>7. CASE IOFail
    BY <1>7, IOFailIInv
  <1>8. ASSUME NEW S \in SUBSET Home, NEW R \in SUBSET JBlocks, Crash(S, R)
        PROVE  IInv'
    BY <1>8, CrashIInv, SMTT(30)
  <1>9. CASE UNCHANGED vars
    BY <1>9
    DEF vars, device, control, history, IInv, TypeOK, CrashAtomic,
        DurableJournalLoads, VolatileInv, IdleInv, PublishInv, ReplayInv,
        ClearInv, StoreInv, ResultInv, TearingInv, HomeClean, Publishing,
        Replaying, Clearing
  <1>10. QED
    BY <1>1, <1>2, <1>3, <1>4, <1>5, <1>6, <1>7, <1>8, <1>9
    DEF Next, Store, Recovery, PowerLoss

\* A step never goes back to the state before a durable transaction.
LEMMA NextNoRollback ==
  ASSUME FaultModel, IInv, [Next]_vars,
         after' = after, Recovered(dhome, djrn) = after
  PROVE  Recovered(dhome, djrn)' = after
  <1>1. IInv'
    BY NextIInv
  <1>2. CASE dhome' = dhome /\ djrn' = djrn
    BY <1>2, SMTT(30)
  <1>3. CASE PublishFlush
    <2>1. /\ HomeClean /\ after = Apply(txn, before) /\ vhome = before
          /\ \A k \in JBlocks : vjrn[k] = Image(txn)[k]
      BY <1>3 DEF IInv, PublishInv, PublishFlush, Publishing
    <2>2. txn \in Txns /\ vjrn \in JournalRegion
      BY DEF IInv, TypeOK, JournalRegion
    <2>3. Loadable(vjrn) /\ Loaded(vjrn) = txn
      BY <2>1, <2>2, ImageFacts DEF JournalRegion
    <2>4. QED
      BY <1>3, <2>1, <2>3 DEF PublishFlush, Flush, Recovered
  <1>4. CASE ReplayFlush
    BY <1>4 DEF IInv, ReplayInv, VolatileInv, ReplayFlush, Replaying, Flush,
                Recovered
  <1>5. CASE ClearFlush
    <2>1. HomeClean /\ Clearing
      BY <1>5 DEF IInv, ClearInv, ClearFlush, Clearing
    <2>2. vhome = after
      BY <2>1 DEF HomeClean, Recovered, Settled
    <2>3. /\ vjrn \in JournalRegion /\ vhome \in HomeImage
          /\ \A k \in JBlocks : vjrn[k] = Zero
      BY <1>5 DEF IInv, TypeOK, JournalRegion, HomeImage, ClearInv, ClearFlush,
                  Clearing
    <2>4. vjrn = Image(NoTxn)
      BY <2>3, EmptyImage DEF JournalRegion
    <2>5. Loadable(vjrn) /\ Loaded(vjrn) = NoTxn
      BY <2>4, ImageFacts, NoTxnFacts
    <2>6. QED
      BY <1>5, <2>2, <2>3, <2>5, NoTxnFacts DEF ClearFlush, Flush, Recovered
  <1>6. ASSUME NEW S \in SUBSET Home, NEW R \in SUBSET JBlocks, Crash(S, R)
        PROVE  Recovered(dhome, djrn)' = after
    BY <1>6, CrashKeepsCommit DEF CrashOutcome, Recovered
  <1>7. QED
    BY <1>2, <1>3, <1>4, <1>5, <1>6
    DEF Next, Store, Recovery, Publish, Replay, Checkpoint, PowerLoss, vars,
        device, Begin, Reject, Recover, PublishBlock, LoadEmpty, LoadTxn,
        LoadCorrupt, ReplayBlock, ClearBlock, IOFail

\* IInv holds at every step of every call: publication, replay, checkpointing,
\* recovery, device errors and power losses.
THEOREM Inductive ==
  ASSUME FaultModel
  PROVE  Spec => []IInv
  <1>1. Init => IInv
    BY InitIInv
  <1>2. IInv /\ [Next]_vars => IInv'
    BY NextIInv
  <1>3. QED
    BY <1>1, <1>2, PTL DEF Spec

\* Type correctness: the write loops of store_journal_image, recover_journal
\* and checkpoint_journal stay on the device and write whole blocks.
THEOREM TypeCorrect ==
  ASSUME FaultModel
  PROVE  Spec => []TypeOK
  <1>1. IInv => TypeOK
    BY DEF IInv
  <1>2. QED
    BY <1>1, Inductive, PTL

\* Crash atomicity of the store_*_journaled calls: wherever the power is lost,
\* in a call or in recovery itself, recovery reaches the complete state before
\* or the complete state after the transaction.
THEOREM Atomicity ==
  ASSUME FaultModel
  PROVE  Spec => []CrashAtomic
  <1>1. IInv => CrashAtomic
    BY DEF IInv
  <1>2. QED
    BY <1>1, Inductive, PTL

\* Durability of acknowledged calls: while Ok is the last answer of a
\* store_*_journaled call, its home blocks are durable and are what is read.
THEOREM Durability ==
  ASSUME FaultModel
  PROVE  Spec => []AckedDurable
  <1>1. IInv => AckedDurable
    BY DEF IInv, ResultInv, AckedDurable
  <1>2. QED
    BY <1>1, Inductive, PTL

\* Between calls load_inode_table and the like read what a power loss and a
\* recovery would bring back.
THEOREM IdleReads ==
  ASSUME FaultModel
  PROVE  Spec => []IdleReadsDurable
  <1>1. IInv => IdleReadsDurable
    BY DEF IInv, IdleInv, HomeClean, Settled, IdleReadsDurable, Recovered
  <1>2. QED
    BY <1>1, Inductive, PTL

\* Between calls the journal that a replay-only call retained can be replayed
\* again by any later recover_journal without effect.
THEOREM RetainedJournal ==
  ASSUME FaultModel
  PROVE  Spec => []RetainedJournalSettled
  <1>1. IInv => RetainedJournalSettled
    BY DEF IInv, IdleInv, HomeClean, Settled, RetainedJournalSettled
  <1>2. QED
    BY <1>1, Inductive, PTL

\* The "journal recovery report does not match" error of the store calls is
\* unreachable: recovery replays the transaction that was just published.
THEOREM ReportsMatch ==
  ASSUME FaultModel
  PROVE  Spec => []ReportNeverMismatches
  <1>1. IInv => ReportNeverMismatches
    BY DEF IInv, ResultInv, ReportNeverMismatches
  <1>2. QED
    BY <1>1, Inductive, PTL

\* If a power loss takes all unflushed writes, load_journal_image accepts the
\* durable journal after it.
THEOREM JournalLoads ==
  ASSUME FaultModel
  PROVE  Spec => []DurableJournalLoads
  <1>1. IInv => DurableJournalLoads
    BY DEF IInv
  <1>2. QED
    BY <1>1, Inductive, PTL

\* A durable transaction stays durable through replay, checkpointing, device
\* errors, power losses and the recoveries after them.
THEOREM CommitsAreFinal ==
  ASSUME FaultModel
  PROVE  Spec => NoRollback
  <1>1. IInv /\ [Next]_vars =>
          [(after' = after /\ Recovered(dhome, djrn) = after)
              => Recovered(dhome, djrn)' = after]_vars
    BY NextNoRollback
  <1>2. QED
    BY <1>1, Inductive, PTL DEF Spec, NoRollback

-----------------------------------------------------------------------------
\* Refinement.

\* A step of the log is a step of the atomic store, or leaves it alone.
LEMMA StepRefines ==
  ASSUME FaultModel, IInv, [Next]_vars
  PROVE  [Atomic!Next]_(Atomic!vars)
  <1>1. IInv'
    BY NextIInv
  <1>2. ASSUME NEW t \in Txns, NEW c \in StoreCalls, Begin(t, c)
        PROVE  \E d \in [Home -> Value] : Atomic!Request(d)
    <2>1. after' \in [Home -> Value]
      BY <1>1 DEF IInv, TypeOK
    <2>2. Atomic!Request(after')
      BY <1>2 DEF Begin, device, Atomic!Request
    <2>3. QED
      BY <2>1, <2>2
  <1>3. CASE before' = before /\ after' = after
    <2>1. Recovered(dhome, djrn)' \in {Recovered(dhome, djrn), after}
      <3>1. /\ Recovered(dhome, djrn) \in {before, after}
            /\ Recovered(dhome, djrn)' \in {before, after}
        BY <1>1, <1>3 DEF IInv, CrashAtomic
      <3>2. Recovered(dhome, djrn) = after => Recovered(dhome, djrn)' = after
        BY <1>3, NextNoRollback
      <3>3. QED
        BY <3>1, <3>2
    <2>2. result' = "committed" => Recovered(dhome, djrn)' = after
      <3>1. IdleReadsDurable' /\ AckedDurable' /\ ResultInv'
        BY <1>1 DEF IInv, IdleInv, HomeClean, Settled, IdleReadsDurable,
                    Recovered, ResultInv, AckedDurable
      <3>2. QED
        BY <1>3, <3>1 DEF IdleReadsDurable, AckedDurable, ResultInv
    <2>3. result' \in Atomic!Replies
      BY <1>1 DEF IInv, TypeOK, Results, Atomic!Replies
    <2>4. Atomic!Advance(result')
      BY <1>3, <2>1, <2>2 DEF Atomic!Advance
    <2>5. QED
      BY <2>3, <2>4 DEF Atomic!Next
  <1>4. QED
    BY <1>2, <1>3
    DEF Next, Store, Recovery, Publish, Replay, Checkpoint, PowerLoss, vars,
        history, Reject, Recover, PublishBlock, PublishFlush, LoadEmpty, LoadTxn,
        LoadCorrupt, ReplayBlock, ReplayFlush, ClearBlock, ClearFlush, IOFail,
        Crash, Atomic!Next

\* The write-ahead log implements one atomic value of all home blocks: seen
\* through recovery, a store_*_journaled call replaces it as a whole or not
\* at all, and has replaced it when it returns Ok.
THEOREM Refinement ==
  ASSUME FaultModel
  PROVE  Spec => ImplementsAtomicStore
  <1>1. Init => Atomic!Init
    <2> SUFFICES ASSUME Init PROVE Atomic!Init
      OBVIOUS
    <2>1. Recovered(dhome, djrn) = vhome
      BY NoTxnFacts, ImageFacts DEF Init, Recovered, HomeImage
    <2>2. QED
      BY <2>1 DEF Init, Atomic!Init
  <1>2. IInv /\ [Next]_vars => [Atomic!Next]_(Atomic!vars)
    BY StepRefines
  <1>3. QED
    BY <1>1, <1>2, Inductive, PTL DEF Spec, ImplementsAtomicStore, Atomic!Spec
=============================================================================
