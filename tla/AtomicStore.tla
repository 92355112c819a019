---------------------------- MODULE AtomicStore ----------------------------
(***************************************************************************)
(* What the write-ahead log of filesystem-lab promises to its callers: the *)
(* home blocks behave as one value that is replaced as a whole.  A caller  *)
(* requests a new value; the store either keeps the old one or takes the   *)
(* requested one, whatever faults happen; and a call that returned Ok has  *)
(* taken it.  JournalStore.tla is shown to implement this module.          *)
(***************************************************************************)
CONSTANTS Home,    \* the home blocks of the filesystem
          Value    \* the contents a block can have

Replies == {"none", "committed", "recovered", "rejected", "mismatch",
            "failed", "corrupt", "crashed"}

VARIABLES store,      \* the home contents that survive a power loss now
          requested,  \* the contents the last accepted transaction asked for
          reply       \* what the last call returned, "none" while one runs

vars == <<store, requested, reply>>

Init ==
  /\ store \in [Home -> Value]
  /\ requested = store
  /\ reply = "none"

\* A caller hands in the snapshot the home blocks should have.
Request(d) ==
  /\ requested' = d
  /\ reply' = "none"
  /\ UNCHANGED store

\* Any other step: the store keeps its value or takes the requested one as a
\* whole, and "committed" may be reported only if it has taken it.
Advance(r) ==
  /\ store' \in {store, requested}
  /\ r = "committed" => store' = requested
  /\ reply' = r
  /\ UNCHANGED requested

Next ==
  \/ \E d \in [Home -> Value] : Request(d)
  \/ \E r \in Replies : Advance(r)

Spec == Init /\ [][Next]_vars
=============================================================================
