--------------------------- MODULE MCJournalStore ---------------------------
(* Small instances of JournalStore for TLC. *)
EXTENDS JournalStore

CONSTANTS a, b

MCHome == 1 .. 3
MCValue == {a, b}

\* Torn power losses and device errors, but not both.
MCFaultModels == {[tearing |-> FALSE, errors |-> TRUE], [tearing |-> TRUE, errors |-> FALSE]}
=============================================================================
