----------------------- MODULE MetadataRegionsProofs ------------------------
(***************************************************************************)
(* The properties of MetadataRegions for every number of tables, blocks    *)
(* and contents, and for every kind of device fault.                       *)
(***************************************************************************)
EXTENDS MetadataRegions, TLAPS

\* A block that the running call has still to write.
Pending(t, i) ==
  \E k \in DOMAIN rest : rest[k] = t /\ (k > 1 \/ i <= next)

\* The running call writes only its own tables; each of their blocks has been
\* written or is still to be written.
Written ==
  pc = "write" =>
    /\ result = "none"
    /\ \A k \in DOMAIN rest : rest[k] \in Table => Affected(rest[k])
    /\ \A t \in Table : Affected(t) =>
         /\ new \in legit[t]
         /\ \A i \in Index : vreg[t][i] = BlockOf(new, i) \/ Pending(t, i)

\* Checksums are those of records that were stored.
Sums ==
  \A t \in Table : /\ vreg[t][1].sum \in legit[t] \cup revived[t] \cup {NoSum}
                   /\ dreg[t][1].sum \in legit[t] \cup revived[t] \cup {NoSum}

\* Between calls nothing is unflushed, and only a table that is being stored, or
\* over which an outdated journal was replayed, does not load, as long as
\* nothing has failed.
Sound ==
  ~ faulty =>
    /\ pc = "idle" => dreg = vreg /\ dsup = vsup
    /\ dsup => \A t \in Table : revived[t] = {} => Loads(dreg[t])
    /\ pc = "write" /\ call # "format" =>
         \A t \in Table : t # call /\ revived[t] = {} => Loads(vreg[t])

\* The blocks of a journal that is not outdated are in its region, on both
\* images; the running call leaves that region alone.
Current ==
  journal # NoStore /\ ~ outdated =>
    /\ pc = "write" => ~ Affected(journal.table)
    /\ \A i \in DOMAIN journal.blocks : /\ vreg[journal.table][i] = journal.blocks[i]
                                        /\ dreg[journal.table][i] = journal.blocks[i]

IInv ==
  /\ TypeOK /\ Written /\ Sums /\ StoredIsDurable /\ Sound /\ UnchangedIsDurable
  /\ Current

-----------------------------------------------------------------------------
LEMMA IndexFacts == Index \subseteq Int /\ 1 \in Index /\ Size \in Index
  BY SizeAssumption DEF Index

LEMMA NoSumFacts == NoSum \notin Records
<1> SUFFICES ASSUME NoSum \in Records PROVE FALSE
  OBVIOUS
<1>1. DOMAIN NoSum = Index
  BY DEF Records
<1>2. DOMAIN NoSum = {}
  BY DEF NoSum
<1> QED
  BY <1>1, <1>2, IndexFacts

LEMMA BlockType ==
  ASSUME NEW recs \in Records, NEW i \in Index
  PROVE  BlockOf(recs, i) \in Block
  BY DEF BlockOf, Block, Records

LEMMA ImageFacts ==
  ASSUME NEW recs \in Records
  PROVE  /\ Image(recs) \in [Index -> Block]
         /\ Loads(Image(recs))
         /\ Image(recs)[1].sum = recs
<1>1. Image(recs) \in [Index -> Block]
  BY BlockType DEF Image
<1>2. Image(recs)[1].sum = recs
  BY IndexFacts DEF Image, BlockOf
<1>3. \A i \in Index : Image(recs)[i].payload = recs[i]
  BY DEF Image, BlockOf
<1> QED
  BY <1>1, <1>2, <1>3, NoSumFacts DEF Loads

\* A region that loads holds the records its checksum was computed from.
LEMMA LoadedIsSum ==
  ASSUME NEW r \in [Index -> Block], Loads(r)
  PROVE  Loaded(r) = r[1].sum
<1>1. r[1].sum \in Records
  BY IndexFacts DEF Block, Loads
<1>2. \A i \in Index : Loaded(r)[i] = r[1].sum[i]
  BY DEF Loads, Loaded
<1> QED
  BY <1>1, <1>2 DEF Records, Loaded

LEMMA EmptyType == Empty \in Records
  BY ItemAssumption DEF Empty, Records

LEMMA TableFacts ==
  ASSUME setup \in Setups
  PROVE  /\ Tables \in Seq(Table) /\ Table \subseteq STRING
         /\ "super" \notin Table /\ "format" \notin Table /\ "none" \notin Table
         /\ setup.stores \subseteq Records
  BY SetupAssumption DEF Table, Tables

\* What the journal holds are blocks of one table.
LEMMA JournalFacts ==
  ASSUME TypeOK, journal # NoStore
  PROVE  /\ journal.table \in Table
         /\ DOMAIN journal.blocks \subseteq Index
         /\ \A i \in DOMAIN journal.blocks : journal.blocks[i] \in Block
<1>1. journal \in [table : Table, blocks : UNION {[S -> Block] : S \in SUBSET Index}]
  BY DEF TypeOK
<1>2. PICK S \in SUBSET Index : journal.blocks \in [S -> Block]
  BY <1>1
<1> QED
  BY <1>1, <1>2

LEMMA InitIInv == Init => IInv
<1> SUFFICES ASSUME Init PROVE IInv
  OBVIOUS
<1> USE DEF Init
<1>1. Unformatted \in [Index -> Block]
  BY ItemAssumption DEF Unformatted, Block
<1>2. TypeOK
  <2>1. vreg \in [Table -> [Index -> Block]] /\ dreg \in [Table -> [Index -> Block]]
    BY <1>1
  <2>2. legit \in [Table -> SUBSET Records]
    OBVIOUS
  <2>3. journal = NoStore /\ revived \in [Table -> SUBSET (Records \cup {NoSum})]
    OBVIOUS
  <2>4. rest \in Seq(Table \cup {"super"}) /\ next \in Index
    BY IndexFacts
  <2> QED
    BY <2>1, <2>2, <2>3, <2>4, EmptyType DEF TypeOK
<1>3. Unformatted[1].sum = NoSum
  BY IndexFacts DEF Unformatted
<1>4. Sums
  BY <1>3 DEF Sums
<1> QED
  BY <1>2, <1>4 DEF IInv, Written, StoredIsDurable, Sound, UnchangedIsDurable, Current

-----------------------------------------------------------------------------
\* Every step keeps the device's tables.
LEMMA SameTables ==
  ASSUME UNCHANGED setup
  PROVE  Table' = Table /\ Tables' = Tables
  BY DEF Table, Tables

LEMMA StartIInv ==
  ASSUME IInv, UNCHANGED setup,
         NEW c \in Table \cup {"format"}, NEW recs \in Records,
         NEW regions \in Seq(Table \cup {"super"}),
         \A t \in Table : c \in {t, "format"} => \E k \in DOMAIN regions : regions[k] = t,
         \A k \in DOMAIN regions : regions[k] \in Table => c \in {regions[k], "format"},
         c # "format" => vsup,
         Start(c, recs, regions)
  PROVE  IInv'
<1> USE SameTables, TableFacts DEF IInv, Start, device
<1>1. TypeOK'
  <2>1. legit' \in [Table -> SUBSET Records]
    BY DEF TypeOK
  <2> QED
    BY <2>1, IndexFacts DEF TypeOK
<1>2. Written'
  <2> SUFFICES ASSUME NEW t \in Table, c \in {t, "format"}
               PROVE  /\ recs \in legit'[t]
                      /\ \A i \in Index : Pending(t, i)'
    BY DEF Written, Affected
  <2>1. recs \in legit'[t]
    BY DEF TypeOK
  <2>2. PICK k \in DOMAIN regions : regions[k] = t
    OBVIOUS
  <2>3. \A i \in Index : i <= Size
    BY SizeAssumption DEF Index
  <2> QED
    BY <2>1, <2>2, <2>3 DEF Pending
<1>3. Sums'
  BY DEF Sums, TypeOK
<1>4. StoredIsDurable' /\ UnchangedIsDurable'
  BY DEF StoredIsDurable, UnchangedIsDurable
<1>5. Sound'
  BY DEF Sound
<1>6. Current'
  BY DEF Current, Affected
<1> QED
  BY <1>1, <1>2, <1>3, <1>4, <1>5, <1>6

LEMMA FormatIInv == IInv /\ UNCHANGED setup /\ Format => IInv'
<1> SUFFICES ASSUME IInv, UNCHANGED setup, Format PROVE IInv'
  OBVIOUS
<1>1. Tables \in Seq(Table)
  BY TableFacts DEF IInv, TypeOK
<1>2. Append(Tables, "super") \in Seq(Table \cup {"super"})
  BY <1>1
<1>3. \A t \in Table : \E k \in DOMAIN Append(Tables, "super") : Append(Tables, "super")[k] = t
  <2> TAKE t \in Table
  <2>1. PICK k \in DOMAIN Tables : Tables[k] = t
    BY DEF Table
  <2>2. k \in DOMAIN Append(Tables, "super") /\ Append(Tables, "super")[k] = t
    BY <1>1, <2>1
  <2> QED
    BY <2>2
<1> QED
  BY <1>2, <1>3, EmptyType, StartIInv DEF Format

LEMMA StoreIInv ==
  ASSUME NEW t \in Table, NEW recs \in Records, IInv, UNCHANGED setup, Store(t, recs)
  PROVE  IInv'
<1>1. <<t>> \in Seq(Table \cup {"super"}) /\ 1 \in DOMAIN <<t>> /\ <<t>>[1] = t
  OBVIOUS
<1>2. t # "format"
  BY TableFacts DEF IInv, TypeOK
<1>4. \A k \in DOMAIN <<t>> : <<t>>[k] = t
  OBVIOUS
<1>3. \A u \in Table : t \in {u, "format"} => \E k \in DOMAIN <<t>> : <<t>>[k] = u
  BY <1>1, <1>2
<1> QED
  BY <1>1, <1>3, <1>4, StartIInv DEF Store

-----------------------------------------------------------------------------
LEMMA WriteImageBlockIInv == IInv /\ UNCHANGED setup /\ WriteImageBlock => IInv'
<1> SUFFICES ASSUME IInv, UNCHANGED setup, WriteImageBlock PROVE IInv'
  OBVIOUS
<1> USE SameTables DEF IInv, WriteImageBlock, history
<1> DEFINE h == Head(rest)
<1>1. rest \in Seq(Table \cup {"super"}) /\ 1 \in DOMAIN rest /\ rest[1] = h /\ h \in Table
  BY DEF TypeOK
<1>2. Affected(h) /\ new \in legit[h]
  BY <1>1 DEF Written
<1>3. BlockOf(new, next) \in Block
  BY BlockType DEF TypeOK
<1>4. vreg' \in [Table -> [Index -> Block]]
  BY <1>1, <1>3 DEF TypeOK
<1>5. \A t \in Table, i \in Index :
        vreg'[t][i] = IF t = h /\ i = next THEN BlockOf(new, next) ELSE vreg[t][i]
  BY <1>1 DEF TypeOK
<1>6. rest' \in Seq(Table \cup {"super"}) /\ next' \in Index
  BY <1>1, SizeAssumption DEF TypeOK, Advance, Index
<1>7. TypeOK'
  BY <1>4, <1>6 DEF TypeOK
<1>8. Written'
  <2>1. \A k \in DOMAIN rest' : \E m \in DOMAIN rest : rest'[k] = rest[m]
    BY <1>1 DEF Advance
  <2>2. \A k \in DOMAIN rest' : rest'[k] \in Table => Affected(rest'[k])
    BY <2>1 DEF Written
  <2>3. ASSUME NEW t \in Table, NEW i \in Index, Pending(t, i), ~ (t = h /\ i = next)
        PROVE  Pending(t, i)'
    <3>1. PICK k \in DOMAIN rest : rest[k] = t /\ (k > 1 \/ i <= next)
      BY <2>3 DEF Pending
    <3>2. CASE next # 1
      <4>1. rest' = rest /\ next' = next - 1
        BY <3>2 DEF Advance
      <4>2. k > 1 \/ i <= next - 1
        BY <1>1, <2>3, <3>1, IndexFacts DEF TypeOK
      <4> QED
        BY <3>1, <4>1, <4>2 DEF Pending
    <3>3. CASE next = 1
      <4>1. rest' = Tail(rest) /\ next' = Size
        BY <3>3 DEF Advance
      <4>2. k > 1
        BY <1>1, <2>3, <3>1, <3>3 DEF Index
      <4>3. k - 1 \in DOMAIN rest' /\ rest'[k - 1] = t
        BY <1>1, <3>1, <4>1, <4>2
      <4>4. i <= next'
        BY <4>1, SizeAssumption DEF Index
      <4> QED
        BY <4>3, <4>4 DEF Pending
    <3> QED
      BY <3>2, <3>3
  <2> QED
    BY <1>5, <2>2, <2>3 DEF Written, Affected
<1>9. Sums'
  <2>1. vreg'[h][1].sum \in legit[h] \cup revived[h] \cup {NoSum}
    BY <1>1, <1>2, <1>5, IndexFacts DEF Sums, BlockOf
  <2> QED
    BY <1>1, <1>5, <2>1, IndexFacts DEF Sums
<1>10. Sound'
  <2>1. \A t \in Table : t # h => vreg'[t] = vreg[t]
    BY <1>1 DEF TypeOK
  <2> QED
    BY <1>2, <2>1 DEF Sound, Affected
<1>11. StoredIsDurable' /\ UnchangedIsDurable'
  <2>1. result = "none"
    BY DEF Written
  <2> QED
    BY <2>1 DEF StoredIsDurable, UnchangedIsDurable
<1>12. Current'
  <2> SUFFICES ASSUME journal # NoStore, ~ outdated
               PROVE  /\ ~ Affected(journal.table)
                      /\ \A i \in DOMAIN journal.blocks :
                           /\ vreg'[journal.table][i] = journal.blocks[i]
                           /\ dreg[journal.table][i] = journal.blocks[i]
    BY DEF Current, Affected
  <2>1. ~ Affected(journal.table)
    BY DEF Current
  <2>2. journal.table # h
    BY <1>2, <2>1
  <2> QED
    BY <1>5, <2>1, <2>2, JournalFacts DEF Current
<1> QED
  BY <1>7, <1>8, <1>9, <1>10, <1>11, <1>12

LEMMA WriteSuperblockIInv == IInv /\ UNCHANGED setup /\ WriteSuperblock => IInv'
<1> SUFFICES ASSUME IInv, UNCHANGED setup, WriteSuperblock PROVE IInv'
  OBVIOUS
<1> USE SameTables, TableFacts DEF IInv, WriteSuperblock, history
<1>1. rest \in Seq(Table \cup {"super"}) /\ 1 \in DOMAIN rest /\ rest[1] \notin Table
  BY DEF TypeOK
<1>2. rest' \in Seq(Table \cup {"super"}) /\ next' \in Index
  BY <1>1, IndexFacts
<1>3. TypeOK'
  BY <1>2 DEF TypeOK
<1>4. Written'
  <2>1. \A k \in DOMAIN rest' : rest'[k] = rest[k + 1] /\ k + 1 \in DOMAIN rest
    BY <1>1
  <2>2. ASSUME NEW t \in Table, NEW i \in Index, Pending(t, i)
        PROVE  Pending(t, i)'
    <3>1. PICK k \in DOMAIN rest : rest[k] = t /\ (k > 1 \/ i <= next)
      BY <2>2 DEF Pending
    <3>2. k > 1
      BY <1>1, <3>1
    <3>3. k - 1 \in DOMAIN rest' /\ rest'[k - 1] = t
      BY <1>1, <3>1, <3>2
    <3>4. i <= next'
      BY SizeAssumption DEF Index
    <3> QED
      BY <3>3, <3>4 DEF Pending
  <2> QED
    BY <2>1, <2>2 DEF Written, Affected
<1>5. Sums' /\ Sound' /\ Current'
  BY DEF Sums, Sound, Current, Affected
<1>6. StoredIsDurable' /\ UnchangedIsDurable'
  BY DEF Written, StoredIsDurable, UnchangedIsDurable
<1> QED
  BY <1>3, <1>4, <1>5, <1>6

LEMMA FlushIInv == IInv /\ UNCHANGED setup /\ Flush => IInv'
<1> SUFFICES ASSUME IInv, UNCHANGED setup, Flush PROVE IInv'
  OBVIOUS
<1> USE SameTables, TableFacts DEF IInv, Flush, Completed
<1>1. \A t \in Table : Affected(t) => vreg[t] = Image(new)
  <2> SUFFICES ASSUME NEW t \in Table, Affected(t) PROVE vreg[t] = Image(new)
    OBVIOUS
  <2>1. \A i \in Index : vreg[t][i] = BlockOf(new, i)
    BY DEF Written, Pending
  <2>2. vreg[t] \in [Index -> Block]
    BY DEF TypeOK
  <2> QED
    BY <2>1, <2>2 DEF Image
<1>2. TypeOK'
  <2>1. legit' \in [Table -> SUBSET Records]
        /\ revived' \in [Table -> SUBSET (Records \cup {NoSum})]
    BY DEF TypeOK
  <2> QED
    BY <2>1 DEF TypeOK
<1>3. Sums'
  <2> SUFFICES ASSUME NEW t \in Table
               PROVE  vreg[t][1].sum \in legit'[t] \cup revived'[t] \cup {NoSum}
    BY DEF Sums
  <2>1. CASE Affected(t)
    BY <1>1, <2>1, ImageFacts DEF TypeOK
  <2>2. CASE ~ Affected(t)
    BY <2>2 DEF Sums
  <2> QED
    BY <2>1, <2>2
<1>4. StoredIsDurable'
  BY <1>1 DEF StoredIsDurable, Affected
<1>5. ~ faulty => \A t \in Table : revived'[t] = {} => Loads(vreg[t])
  <2> SUFFICES ASSUME ~ faulty, NEW t \in Table, revived'[t] = {} PROVE Loads(vreg[t])
    OBVIOUS
  <2>1. CASE Affected(t)
    BY <1>1, <2>1, ImageFacts DEF TypeOK
  <2>2. CASE ~ Affected(t)
    BY <2>2 DEF Sound, Affected
  <2> QED
    BY <2>1, <2>2
<1>6. Sound'
  BY <1>5 DEF Sound
<1>7. Current'
  BY DEF Current
<1> QED
  BY <1>2, <1>3, <1>4, <1>6, <1>7 DEF Written, UnchangedIsDurable

\* Replay touches one region.
LEMMA ReplayFacts ==
  ASSUME TypeOK, NEW t \in Table, NEW blocks, DOMAIN blocks \subseteq Index,
         \A i \in DOMAIN blocks : blocks[i] \in Block, Replay(t, blocks)
  PROVE  /\ vreg' \in [Table -> [Index -> Block]] /\ dreg' = vreg' /\ dsup' = vsup'
         /\ \A i \in Index :
              vreg'[t][i] = IF i \in DOMAIN blocks THEN blocks[i] ELSE vreg[t][i]
         /\ \A u \in Table : u # t => vreg'[u] = vreg[u]
<1> USE DEF Replay
<1>1. Replayed(blocks, vreg[t]) \in [Index -> Block]
  BY DEF Replayed, TypeOK
<1>2. vreg'[t] = Replayed(blocks, vreg[t])
  BY DEF TypeOK
<1>3. vreg' \in [Table -> [Index -> Block]]
  BY <1>1 DEF TypeOK
<1>4. \A u \in Table : u # t => vreg'[u] = vreg[u]
  BY DEF TypeOK
<1> QED
  BY <1>2, <1>3, <1>4 DEF Replayed

LEMMA StoreJournaledIInv ==
  ASSUME NEW t \in Table, NEW recs \in Records, IInv, UNCHANGED setup,
         StoreJournaled(t, recs)
  PROVE  IInv'
<1> USE SameTables, TableFacts DEF IInv
<1> DEFINE blocks == [i \in Logged(t, recs) |-> BlockOf(recs, i)]
<1>1. Logged(t, recs) \subseteq Index
  BY DEF Logged
<1>2. \A i \in DOMAIN blocks : blocks[i] = BlockOf(recs, i) /\ blocks[i] \in Block
  BY <1>1, BlockType
<1>3. DOMAIN blocks = Logged(t, recs) /\ blocks \in [Logged(t, recs) -> Block]
  BY <1>2
<1>4. Replay(t, blocks)
  BY DEF StoreJournaled
<1> HIDE DEF blocks
<1>5. /\ vreg' \in [Table -> [Index -> Block]] /\ dreg' = vreg' /\ dsup' = vsup'
      /\ \A i \in Index : vreg'[t][i] = IF i \in DOMAIN blocks THEN blocks[i] ELSE vreg[t][i]
      /\ \A u \in Table : u # t => vreg'[u] = vreg[u]
  BY <1>1, <1>2, <1>3, <1>4, ReplayFacts
<1>6. vreg'[t] = Image(recs)
  <2>1. \A i \in Index : vreg'[t][i] = BlockOf(recs, i)
    BY <1>2, <1>3, <1>5 DEF Logged
  <2> QED
    BY <1>5, <2>1 DEF Image
<1>7. /\ journal' = [table |-> t, blocks |-> blocks]
      /\ call' = t /\ new' = recs /\ result' = "ok" /\ outdated' = FALSE
      /\ legit' = [legit EXCEPT ![t] = {recs}] /\ revived' = [revived EXCEPT ![t] = {}]
  BY DEF StoreJournaled, blocks
<1>8. UNCHANGED <<vsup, pc, rest, next, faulty>> /\ pc = "idle" /\ vsup
  BY <1>4 DEF Replay
<1>9. legit' \in [Table -> SUBSET Records] /\ legit'[t] = {recs}
      /\ revived' \in [Table -> SUBSET (Records \cup {NoSum})] /\ revived'[t] = {}
  BY <1>7 DEF TypeOK
<1>10. \A u \in Table : u # t => legit'[u] = legit[u] /\ revived'[u] = revived[u]
  BY <1>7 DEF TypeOK
<1>11. TypeOK'
  <2>1. journal' \in [table : Table, blocks : UNION {[S -> Block] : S \in SUBSET Index}]
    BY <1>1, <1>3, <1>7
  <2> QED
    BY <1>5, <1>7, <1>8, <1>9, <2>1 DEF TypeOK
<1>12. Sums'
  BY <1>5, <1>6, <1>9, <1>10, ImageFacts DEF Sums
<1>13. StoredIsDurable'
  <2>1. t # "format"
    BY DEF TypeOK
  <2>2. \A u \in Table : Affected(u)' => u = t
    BY <1>7, <2>1 DEF Affected
  <2> QED
    BY <1>5, <1>6, <1>7, <2>2 DEF StoredIsDurable
<1>14. Sound'
  BY <1>5, <1>6, <1>8, <1>10, ImageFacts DEF Sound
<1>15. Current'
  <2>1. \A i \in DOMAIN blocks : vreg'[t][i] = blocks[i]
    BY <1>1, <1>3, <1>5
  <2> QED
    BY <1>5, <1>7, <1>8, <2>1 DEF Current
<1> QED
  BY <1>7, <1>8, <1>11, <1>12, <1>13, <1>14, <1>15 DEF Written, UnchangedIsDurable

LEMMA RecoverIInv ==
  ASSUME NEW checkpoint \in BOOLEAN, IInv, UNCHANGED setup, Recover(checkpoint)
  PROVE  IInv'
<1> USE SameTables, TableFacts DEF IInv
<1> DEFINE t == journal.table
           blocks == journal.blocks
           sum == LoggedSum(blocks)
<1>1. journal # NoStore /\ Replay(t, blocks)
  BY DEF Recover
<1>2. /\ t \in Table /\ DOMAIN blocks \subseteq Index
      /\ \A i \in DOMAIN blocks : blocks[i] \in Block
  BY <1>1, JournalFacts
<1>3. /\ vreg' \in [Table -> [Index -> Block]] /\ dreg' = vreg' /\ dsup' = vsup'
      /\ \A i \in Index : vreg'[t][i] = IF i \in DOMAIN blocks THEN blocks[i] ELSE vreg[t][i]
      /\ \A u \in Table : u # t => vreg'[u] = vreg[u]
  BY <1>1, <1>2, ReplayFacts
<1>4. UNCHANGED <<vsup, pc, rest, next, faulty>> /\ pc = "idle" /\ vsup
  BY <1>1 DEF Replay
<1>5. /\ journal' = IF checkpoint THEN NoStore ELSE journal
      /\ call' = "none" /\ new' = Empty /\ result' = "recovered" /\ legit' = legit
      /\ revived' = IF outdated THEN [revived EXCEPT ![t] = revived[t] \cup {sum}] ELSE revived
      /\ outdated' = (outdated /\ ~ checkpoint)
  BY DEF Recover
<1>6. sum \in Records \cup {NoSum}
  BY <1>2 DEF LoggedSum, Block
<1>7. 1 \in DOMAIN blocks => blocks[1].sum = sum
  BY DEF LoggedSum
<1> HIDE DEF t, blocks, sum
<1>8. revived' \in [Table -> SUBSET (Records \cup {NoSum})]
      /\ \A u \in Table : revived[u] \subseteq revived'[u]
  BY <1>2, <1>5, <1>6 DEF TypeOK
<1>9. outdated => sum \in revived'[t]
  BY <1>2, <1>5 DEF TypeOK
<1>10. ~ outdated => vreg' = vreg
  <2> SUFFICES ASSUME ~ outdated PROVE vreg' = vreg
    OBVIOUS
  <2>1. \A i \in DOMAIN blocks : vreg[t][i] = blocks[i]
    BY <1>1 DEF Current, t, blocks
  <2>2. \A i \in Index : vreg'[t][i] = vreg[t][i]
    BY <1>3, <2>1
  <2>3. vreg'[t] = vreg[t]
    BY <1>2, <1>3, <2>2 DEF TypeOK
  <2> QED
    BY <1>3, <2>3 DEF TypeOK
<1>11. TypeOK'
  BY <1>3, <1>4, <1>5, <1>8, EmptyType DEF TypeOK
<1>12. Sums'
  <2> SUFFICES ASSUME NEW u \in Table
               PROVE  vreg'[u][1].sum \in legit[u] \cup revived'[u] \cup {NoSum}
    BY <1>3, <1>5 DEF Sums
  <2>1. CASE ~ outdated \/ u # t
    <3>1. vreg'[u] = vreg[u]
      BY <1>3, <1>10, <2>1
    <3> QED
      BY <1>8, <3>1 DEF Sums
  <2>2. CASE outdated /\ u = t
    <3>1. CASE 1 \in DOMAIN blocks
      BY <1>3, <1>7, <1>9, <2>2, <3>1, IndexFacts
    <3>2. CASE 1 \notin DOMAIN blocks
      BY <1>3, <1>8, <2>2, <3>2, IndexFacts DEF Sums
    <3> QED
      BY <3>1, <3>2
  <2> QED
    BY <2>1, <2>2
<1>13. Sound'
  <2> SUFFICES ASSUME ~ faulty, vsup, NEW u \in Table, revived'[u] = {}
               PROVE  Loads(vreg'[u])
    BY <1>3, <1>4 DEF Sound
  <2>1. ~ outdated \/ u # t
    BY <1>9
  <2>2. vreg'[u] = vreg[u]
    BY <1>3, <1>10, <2>1
  <2> QED
    BY <1>4, <1>8, <2>2 DEF Sound
<1>14. Current'
  <2> SUFFICES ASSUME journal' # NoStore, ~ outdated'
               PROVE  \A i \in DOMAIN blocks : vreg'[t][i] = blocks[i]
    BY <1>3, <1>4, <1>5 DEF Current, t, blocks
  <2> QED
    BY <1>2, <1>3
<1> QED
  BY <1>4, <1>5, <1>11, <1>12, <1>13, <1>14 DEF Written, StoredIsDurable, UnchangedIsDurable

LEMMA StoreUnchangedIInv ==
  ASSUME NEW t \in Table, NEW recs \in Records, IInv, UNCHANGED setup,
         StoreUnchanged(t, recs)
  PROVE  IInv'
<1> USE SameTables DEF IInv, StoreUnchanged, device, history
<1>1. TypeOK'
  BY DEF TypeOK
<1>2. Sums' /\ Sound' /\ Current'
  BY DEF Sums, Sound, Current
<1>3. vreg[t] = Image(recs)
  <2>1. \A i \in Index : vreg[t][i] = BlockOf(recs, i)
    BY DEF Logged
  <2> QED
    BY <2>1 DEF Image, TypeOK
<1>4. UnchangedIsDurable'
  BY <1>3 DEF UnchangedIsDurable, Sound
<1> QED
  BY <1>1, <1>2, <1>4 DEF Written, StoredIsDurable

LEMMA IOFailIInv == IInv /\ UNCHANGED setup /\ IOFail => IInv'
<1> SUFFICES ASSUME IInv, UNCHANGED setup, IOFail PROVE IInv'
  OBVIOUS
<1> USE SameTables DEF IInv, IOFail, device
<1>1. TypeOK'
  BY EmptyType, IndexFacts DEF TypeOK
<1>2. Sums' /\ Sound' /\ Current'
  BY DEF Sums, Sound, Current
<1> QED
  BY <1>1, <1>2 DEF Written, StoredIsDurable, UnchangedIsDurable

LEMMA CrashIInv ==
  ASSUME NEW S \in SUBSET (Table \X Index), NEW sup \in BOOLEAN,
         IInv, UNCHANGED setup, Crash(S, sup)
  PROVE  IInv'
<1> USE SameTables DEF IInv, Crash
<1>1. dreg' \in [Table -> [Index -> Block]]
  BY DEF TypeOK
<1>2. TypeOK'
  BY <1>1, EmptyType, IndexFacts DEF TypeOK
<1>3. \A t \in Table : dreg'[t][1] \in {vreg[t][1], dreg[t][1]}
  BY IndexFacts
<1>4. Sums'
  BY <1>3 DEF Sums
<1>5. ASSUME ~ faulty' PROVE dreg' = dreg /\ dsup' = dsup /\ ~ faulty
  <2>1. S = {} /\ ~ sup /\ ~ faulty
    BY <1>5
  <2>2. \A t \in Table : dreg'[t] = dreg[t]
    BY <2>1 DEF TypeOK
  <2> QED
    BY <1>1, <2>1, <2>2 DEF TypeOK
<1>6. Sound'
  BY <1>5 DEF Sound
<1>7. Current'
  <2> SUFFICES ASSUME journal # NoStore, ~ outdated, NEW i \in DOMAIN journal.blocks
               PROVE  dreg'[journal.table][i] = journal.blocks[i]
    BY DEF Current
  <2>1. journal.table \in Table /\ i \in Index
    BY JournalFacts
  <2> QED
    BY <2>1 DEF Current
<1> QED
  BY <1>2, <1>4, <1>6, <1>7 DEF Written, StoredIsDurable, UnchangedIsDurable

LEMMA NextIInv == IInv /\ [Next]_vars => IInv'
<1> SUFFICES ASSUME IInv, [Next]_vars PROVE IInv'
  OBVIOUS
<1>1. CASE Next
  <2>1. UNCHANGED setup
    BY <1>1 DEF Next
  <2>2. CASE Format \/ WriteImageBlock \/ WriteSuperblock \/ Flush \/ IOFail
    BY <2>1, <2>2, FormatIInv, WriteImageBlockIInv, WriteSuperblockIInv, FlushIInv, IOFailIInv
  <2>6. setup.stores \subseteq Records
    BY TableFacts DEF IInv, TypeOK
  <2>3. ASSUME NEW t \in Table, NEW recs \in setup.stores,
               Store(t, recs) \/ StoreJournaled(t, recs) \/ StoreUnchanged(t, recs)
        PROVE  IInv'
    BY <2>1, <2>3, <2>6, StoreIInv, StoreJournaledIInv, StoreUnchangedIInv
  <2>4. ASSUME NEW checkpoint \in BOOLEAN, Recover(checkpoint) PROVE IInv'
    BY <2>1, <2>4, RecoverIInv
  <2>5. ASSUME NEW S \in SUBSET (Table \X Index), NEW sup \in BOOLEAN, Crash(S, sup)
        PROVE  IInv'
    BY <2>1, <2>5, CrashIInv
  <2> QED
    BY <1>1, <2>2, <2>3, <2>4, <2>5 DEF Next
<1>2. CASE UNCHANGED vars
  <2> USE <1>2 DEF vars, device, control, history, IInv, Table, Tables
  <2>1. TypeOK'
    BY DEF TypeOK
  <2>2. Written'
    BY DEF Written, Affected, Pending
  <2>3. Sums' /\ Sound' /\ Current'
    BY DEF Sums, Sound, Current, Affected
  <2>4. StoredIsDurable' /\ UnchangedIsDurable'
    BY DEF StoredIsDurable, UnchangedIsDurable, Affected
  <2> QED
    BY <2>1, <2>2, <2>3, <2>4
<1> QED
  BY <1>1, <1>2

-----------------------------------------------------------------------------
\* The strengthening is an invariant.
THEOREM Invariance == Spec => []IInv
  BY InitIInv, NextIInv, PTL DEF Spec

\* Every call of format_device and of the direct stores stays within the
\* regions: write_region's loops never leave a table.
THEOREM TypeCorrect == Spec => []TypeOK
<1>1. IInv => TypeOK
  BY DEF IInv
<1> QED
  BY <1>1, Invariance, PTL

\* Whatever is lost, torn or fails while write_region rewrites a table in place
\* and whatever recover_journal replays over it, a table that decode_image
\* accepts has the records of one store, not of a mix: the last completed one,
\* one interrupted since, or the older one that an outdated journal brought back.
THEOREM OnlyStoredLoads == Spec => []LoadsStored
<1>1. IInv => LoadsStored
  <2> SUFFICES ASSUME IInv, NEW t \in Table, NEW r \in {vreg[t], dreg[t]}, Loads(r)
               PROVE  Loaded(r) \in legit[t] \cup revived[t]
    BY DEF LoadsStored
  <2>1. r \in [Index -> Block]
    BY DEF IInv, TypeOK
  <2>2. Loaded(r) = r[1].sum
    BY <2>1, LoadedIsSum
  <2>3. r[1].sum \in legit[t] \cup revived[t] \cup {NoSum}
    BY DEF IInv, Sums
  <2> QED
    BY <2>2, <2>3 DEF Loads
<1> QED
  BY <1>1, Invariance, PTL

\* A direct store or format that returned Ok has flushed its whole region,
\* whatever failed before.
THEOREM AcknowledgedIsDurable == Spec => []StoredIsDurable
<1>1. IInv => StoredIsDurable
  BY DEF IInv
<1> QED
  BY <1>1, Invariance, PTL

\* format_device publishes the superblock after the tables, and a recovery of a
\* journal that is not outdated changes nothing, so without faults other than
\* power losses a table of a formatted device loads, unless an outdated journal
\* was replayed over it.
THEOREM FormattedLoads == Spec => []DurableTablesLoad
<1>1. IInv => DurableTablesLoad
  BY DEF IInv, Sound, DurableTablesLoad
<1> QED
  BY <1>1, Invariance, PTL

\* The journaled stores may skip an unchanged region without a flush, as long
\* as nothing has failed.
THEOREM SkippedIsDurable == Spec => []UnchangedIsDurable
<1>1. IInv => UnchangedIsDurable
  BY DEF IInv
<1> QED
  BY <1>1, Invariance, PTL

\* A store call that returned Ok, flushing or skipping, has its table on the
\* durable image.
THEOREM ReturnsAreDurable == Spec => []ReturnedIsDurable
<1>1. StoredIsDurable /\ UnchangedIsDurable => ReturnedIsDurable
  BY DEF ReturnedIsDurable
<1> QED
  BY <1>1, AcknowledgedIsDurable, SkippedIsDurable, PTL
=============================================================================
