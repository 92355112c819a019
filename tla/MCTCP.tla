-------------------------------- MODULE MCTCP --------------------------------
(***************************************************************************)
(* Instances of TCP for TLC.                                               *)
(***************************************************************************)
EXTENDS TCP

CONSTANTS cl, sv

MCIsn == cl :> 25 @@ sv :> 12

Load(connect, close, abort, m, n, write, read, cap, k) ==
  [connect |-> connect, close |-> close, abort |-> abort, unlisten |-> abort # {},
   bytes |-> cl :> m @@ sv :> n, write |-> write, read |-> read, cap |-> cap,
   faults |-> k]

\* Loss; segments of other sizes that overtake each other; more loss and a
\* close; a slow reader; both ends close; the server answers; simultaneous open;
\* abort and a closed listener.
MCLoads ==
  {Load({cl}, {}, {}, 3, 0, {3}, {3}, 3, 1),
   Load({cl}, {}, {}, 3, 0, {1, 2}, {3}, 3, 0),
   Load({cl}, {cl}, {}, 2, 0, {2}, {2}, 3, 2),
   Load({cl}, {}, {}, 4, 0, {4}, {1}, 2, 1),
   Load({cl}, {cl, sv}, {}, 0, 0, {}, {1}, 3, 2),
   Load({cl}, {cl}, {}, 0, 1, {1}, {1}, 3, 1),
   Load({cl, sv}, {cl}, {}, 1, 0, {1}, {1}, 3, 1),
   Load({cl}, {cl}, {cl, sv}, 1, 0, {1}, {1}, 3, 0)}

\* A receiver that is slow to read, on a network that loses nothing.
MCSlowReader == {Load({cl}, {}, {}, 4, 0, {4}, {3}, 3, 0)}
=============================================================================
