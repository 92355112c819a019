--------------------------- MODULE MetadataRegions ---------------------------
(***************************************************************************)
(* The direct persistence of the metadata tables of filesystem-lab: the    *)
(* formatter (format.rs) and store_allocator, store_inode_table and        *)
(* store_directory_table, which rewrite a multi-block region in place,     *)
(* tail blocks first and the checksummed header block last, and flush.     *)
(* The journaled stores appear by their outcome (JournalStore): the blocks *)
(* that they logged are replaced as a whole, and the committed journal may *)
(* stay behind and be replayed by a later recovery.                        *)
(***************************************************************************)
EXTENDS Integers, Sequences

CONSTANTS
  Size,       \* blocks of a table region
  Item,       \* contents of the payload of one block
  Blank,      \* payload of a block without records, a member of Item
  Setups      \* the devices considered: tables, the table regions in the
              \* order in which they are formatted; stores, the records that
              \* are stored; tearing, a power loss keeps any subset of unflushed
              \* writes; errors, a write or flush can fail

ASSUME SizeAssumption == Size \in Nat \ {0}
ASSUME ItemAssumption == Blank \in Item
Index == 1 .. Size

\* The records of a table, cut into the payloads of its blocks.
Records == [Index -> Item]

ASSUME SetupAssumption ==
  \A s \in Setups : /\ s.tables \in Seq(STRING \ {"super", "format", "none"})
                    /\ s.stores \subseteq Records
                    /\ s.tearing \in BOOLEAN /\ s.errors \in BOOLEAN

Empty == [i \in Index |-> Blank]
NoSum == [i \in {} |-> i]
NoBlocks == [i \in {} |-> i]
NoStore == [table |-> "none", blocks |-> NoBlocks]

VARIABLES
  setup,        \* the device, a member of Setups
  vreg, dreg,   \* the table regions that reads see, that survive power loss
  vsup, dsup,   \* is the superblock written?
  journal,      \* the committed store that the journal still holds: the
                \* blocks of the table that were logged
  pc,           \* "write" while a call is writing blocks, else "idle"
  rest,         \* the regions that the running call has still to write
  next,         \* the block of the first of them that it writes next
  call,         \* the last call: "none", "format" or the table it stored
  new,          \* the records that call stored
  result,       \* what the last call returned
  legit,        \* history: per table, the records of the last completed
                \* store and of the stores that were interrupted since
  outdated,     \* history: a direct store or format of the journal's table
                \* began since the journal was written
  revived,      \* history: per table, the checksums that the outdated journals
                \* had logged (NoSum for none) that were replayed since the
                \* last completed store
  faulty        \* history: a device call failed or a power loss tore writes

Tables == setup.tables
Table == {Tables[i] : i \in DOMAIN Tables}

device == <<vreg, dreg, vsup, dsup>>
control == <<pc, rest, next, call, new>>
history == <<legit, outdated, revived, faulty>>
vars == <<setup, device, journal, control, result, history>>

-----------------------------------------------------------------------------
\* Table images.  The header block has the checksum of all records.

BlockOf(t, i) == [sum |-> IF i = 1 THEN t ELSE NoSum, payload |-> t[i]]
Image(t) == [i \in Index |-> BlockOf(t, i)]
Unformatted == [i \in Index |-> [sum |-> NoSum, payload |-> Blank]]

\* Mutant: the checksum covers the header block only.
LoadsHeaderOnly(r) == r[1].sum # NoSum /\ r[1].sum[1] = r[1].payload

\* decode_image: magic, checksum over the used length, zero padding.
Loads(r) == r[1].sum # NoSum /\ \A i \in Index : r[i].payload = r[1].sum[i]
Loaded(r) == [i \in Index |-> r[i].payload]

-----------------------------------------------------------------------------
Init ==
  /\ setup \in Setups
  /\ vreg = [t \in Table |-> Unformatted]
  /\ dreg = vreg
  /\ vsup = FALSE /\ dsup = FALSE
  /\ journal = NoStore
  /\ pc = "idle"
  /\ rest = << >>
  /\ next = Size
  /\ call = "none"
  /\ new = Empty
  /\ result = "none"
  /\ legit = [t \in Table |-> {}]
  /\ outdated = FALSE
  /\ revived = [t \in Table |-> {}]
  /\ faulty = FALSE

\* The tables that the running call is about.
Affected(t) == call \in {t, "format"}

Start(c, recs, regions) ==
  /\ pc = "idle"
  /\ pc' = "write"
  /\ call' = c
  /\ new' = recs
  /\ rest' = regions
  /\ next' = Size
  /\ result' = "none"
  /\ legit' = [t \in Table |-> IF c \in {t, "format"} THEN legit[t] \cup {recs}
                                                      ELSE legit[t]]
  /\ outdated' = (outdated \/ (journal # NoStore /\ c \in {journal.table, "format"}))
  /\ UNCHANGED <<device, journal, revived, faulty>>

\* format_device initializes the three regions and then writes the
\* superblock; the journal reservation is left as it is.
Format ==
  Start("format", Empty, Append(Tables, "super"))

\* store_allocator, store_inode_table, store_directory_table.
Store(t, recs) == vsup /\ Start(t, recs, <<t>>)

\* write_region goes from the last block of the region to the first.
Advance ==
  /\ rest' = IF next = 1 THEN Tail(rest) ELSE rest
  /\ next' = IF next = 1 THEN Size ELSE next - 1

\* Mutant: every block is flushed when it has been written.
WriteThrough ==
  /\ pc = "write" /\ rest # << >> /\ Head(rest) # "super"
  /\ vreg' = [vreg EXCEPT ![Head(rest)][next] = BlockOf(new, next)]
  /\ dreg' = vreg'
  /\ Advance
  /\ UNCHANGED <<vsup, dsup, journal, pc, call, new, result, history>>

WriteImageBlock ==
  /\ pc = "write" /\ rest # << >> /\ Head(rest) # "super"
  /\ vreg' = [vreg EXCEPT ![Head(rest)][next] = BlockOf(new, next)]
  /\ Advance
  /\ UNCHANGED <<dreg, vsup, dsup, journal, pc, call, new, result, history>>

WriteSuperblock ==
  /\ pc = "write" /\ rest # << >> /\ Head(rest) = "super"
  /\ vsup' = TRUE
  /\ rest' = Tail(rest) /\ next' = Size
  /\ UNCHANGED <<vreg, dreg, dsup, journal, pc, call, new, result, history>>

\* The records of the running call are the ones that its tables have now.
Completed ==
  /\ legit' = [t \in Table |-> IF Affected(t) THEN {new} ELSE legit[t]]
  /\ revived' = [t \in Table |-> IF Affected(t) THEN {} ELSE revived[t]]
  /\ UNCHANGED <<outdated, faulty>>

\* Mutant: the call returns without a flush.
ReturnWithoutFlush ==
  /\ pc = "write" /\ rest = << >>
  /\ pc' = "idle"
  /\ result' = "ok"
  /\ Completed
  /\ UNCHANGED <<device, journal, rest, next, call, new>>

\* The flush at the end of the call.
Flush ==
  /\ pc = "write" /\ rest = << >>
  /\ dreg' = vreg /\ dsup' = vsup
  /\ pc' = "idle"
  /\ result' = "ok"
  /\ Completed
  /\ UNCHANGED <<vreg, vsup, journal, rest, next, call, new>>

\* Replay writes the blocks of a committed transaction over a region and leaves
\* the other blocks as they are.
Replayed(blocks, r) == [i \in Index |-> IF i \in DOMAIN blocks THEN blocks[i] ELSE r[i]]

\* The flush of recover_journal makes all earlier writes durable too.
Replay(t, blocks) ==
  /\ pc = "idle" /\ vsup
  /\ vreg' = [vreg EXCEPT ![t] = Replayed(blocks, vreg[t])]
  /\ dreg' = vreg' /\ dsup' = vsup
  /\ UNCHANGED <<vsup, pc, rest, next, faulty>>

\* The blocks that a journaled store logs: store_allocator_journaled its whole
\* region, store_inode_table_journaled and store_directory_table_journaled the
\* ones that differ from what they read.
Logged(t, recs) == {i \in Index : t = "alloc" \/ vreg[t][i] # BlockOf(recs, i)}

\* A journaled store: published, replayed, not checkpointed.
StoreJournaled(t, recs) ==
  LET blocks == [i \in Logged(t, recs) |-> BlockOf(recs, i)] IN
  /\ Logged(t, recs) # {}
  /\ Replay(t, blocks)
  /\ journal' = [table |-> t, blocks |-> blocks]
  /\ call' = t
  /\ new' = recs
  /\ result' = "ok"
  /\ legit' = [legit EXCEPT ![t] = {recs}]
  /\ outdated' = FALSE
  /\ revived' = [revived EXCEPT ![t] = {}]

\* A journaled store that has nothing to log returns at once.
StoreUnchanged(t, recs) ==
  /\ pc = "idle" /\ vsup
  /\ Logged(t, recs) = {}
  /\ call' = t
  /\ new' = recs
  /\ result' = "unchanged"
  /\ UNCHANGED <<device, journal, pc, rest, next, history>>

LoggedSum(blocks) == IF 1 \in DOMAIN blocks THEN blocks[1].sum ELSE NoSum

\* Recovery replays a committed journal, whatever was stored since; the journal
\* stays unless it is checkpointed.
Recover(checkpoint) ==
  LET t == journal.table IN
  /\ journal # NoStore
  /\ Replay(t, journal.blocks)
  /\ journal' = IF checkpoint THEN NoStore ELSE journal
  /\ call' = "none" /\ new' = Empty
  /\ result' = "recovered"
  /\ revived' = IF outdated THEN [revived EXCEPT ![t] = @ \cup {LoggedSum(journal.blocks)}]
                            ELSE revived
  /\ outdated' = (outdated /\ ~ checkpoint)
  /\ UNCHANGED legit

\* A write or the flush fails; the call's earlier writes stay.
IOFail ==
  /\ setup.errors /\ pc = "write"
  /\ pc' = "idle"
  /\ rest' = << >> /\ next' = Size
  /\ call' = "none" /\ new' = Empty
  /\ result' = "failed"
  /\ faulty' = TRUE
  /\ UNCHANGED <<device, journal, legit, outdated, revived>>

\* Power loss: of the unflushed writes those to the blocks S survive.
Crash(S, sup) ==
  /\ setup.tearing \/ (S = {} /\ ~ sup)
  /\ dreg' = [t \in Table |-> [i \in Index |->
                IF <<t, i>> \in S THEN vreg[t][i] ELSE dreg[t][i]]]
  /\ dsup' = IF sup THEN vsup ELSE dsup
  /\ vreg' = dreg' /\ vsup' = dsup'
  /\ pc' = "idle"
  /\ rest' = << >> /\ next' = Size
  /\ call' = "none" /\ new' = Empty
  /\ result' = "crashed"
  /\ faulty' = (faulty \/ S # {} \/ sup)
  /\ UNCHANGED <<journal, legit, outdated, revived>>

Next ==
  /\ \/ Format \/ WriteImageBlock \/ WriteSuperblock \/ Flush \/ IOFail
     \/ \E t \in Table, recs \in setup.stores :
          Store(t, recs) \/ StoreJournaled(t, recs) \/ StoreUnchanged(t, recs)
     \/ \E checkpoint \in BOOLEAN : Recover(checkpoint)
     \/ \E S \in SUBSET (Table \X Index), sup \in BOOLEAN : Crash(S, sup)
  /\ UNCHANGED setup

Spec == Init /\ [][Next]_vars

-----------------------------------------------------------------------------
\* Properties.

Block == [sum : Records \cup {NoSum}, payload : Item]

\* Every variable has its type; a call never writes outside the regions.
TypeOK ==
  /\ setup \in Setups
  /\ vreg \in [Table -> [Index -> Block]] /\ dreg \in [Table -> [Index -> Block]]
  /\ vsup \in BOOLEAN /\ dsup \in BOOLEAN
  /\ journal \in [table : Table, blocks : UNION {[S -> Block] : S \in SUBSET Index}]
                 \cup {NoStore}
  /\ pc \in {"idle", "write"}
  /\ rest \in Seq(Table \cup {"super"}) /\ next \in Index
  /\ call \in Table \cup {"none", "format"}
  /\ new \in Records
  /\ result \in {"none", "ok", "unchanged", "recovered", "failed", "crashed"}
  /\ legit \in [Table -> SUBSET Records]
  /\ outdated \in BOOLEAN
  /\ revived \in [Table -> SUBSET (Records \cup {NoSum})]
  /\ faulty \in BOOLEAN

\* A table that loads has the records of the last completed store or of one
\* that was interrupted since; only a recovery that replayed an older store from
\* the retained journal over it can have brought back that one's.  A mix of the
\* blocks of two stores never loads.
LoadsStored ==
  \A t \in Table : \A r \in {vreg[t], dreg[t]} :
    Loads(r) => Loaded(r) \in legit[t] \cup revived[t]

\* A store or format that returned Ok is durable as a whole, whatever faults and
\* replays came before: a journaled store logs every block that differs.
StoredIsDurable ==
  result = "ok" => /\ dreg = vreg /\ dsup = vsup
                   /\ \A t \in Table : Affected(t) => dreg[t] = Image(new)

\* As long as no device call fails and a power loss drops the unflushed writes
\* as a whole, every table of a formatted device loads after a power loss, and
\* so it does after a replay of a journal that is not outdated.  A journal that
\* is holds only some blocks of an older image, and its replay over a direct
\* store or a format leaves a region that does not load until the next store.
DurableTablesLoad ==
  ~ faulty /\ dsup => \A t \in Table : revived[t] = {} => Loads(dreg[t])

\* A journaled store that finds nothing to change returns without a flush; the
\* records it was given are durable nevertheless, unless a fault came before
\* (inode_tx.rs:15, "blocks whose rendered contents differ from the current
\* durable inode region"; after a failed flush the region that is read is not
\* the durable one).
UnchangedIsDurable == ~ faulty /\ result = "unchanged" => dreg[call] = Image(new)

\* What a store call that returned Ok promises, by either of its two ways out:
\* through the flush of write_region, or through the early return of a
\* journaled store.
ReturnedIsDurable == StoredIsDurable /\ UnchangedIsDurable

\* docs/journal-region-format.md:20, "A completely zeroed reservation is the
\* canonical freshly formatted / never-written journal state": so a recovery
\* of a device that format_device has just formatted finds nothing to replay,
\* and leaves the empty tables that it wrote.
FormattedIsEmpty ==
  call = "format" /\ result = "ok" =>
    \A t \in Table : dreg[t] = Image(Empty)
                     /\ journal.table = t => Replayed(journal.blocks, dreg[t]) = dreg[t]
=============================================================================
