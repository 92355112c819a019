---------------------------- MODULE MCFileSystem -----------------------------
(* Small instances of FileSystem for TLC.  Nothing orders inode identifiers, *)
(* names and contents; block numbers are ordered by the allocator.           *)
EXTENDS FileSystem, TLC

CONSTANTS a, b, x, y, root, i, j, k

MCIds4 == {root, i, j, k}
MCNames == {x, y}
MCData3 == 7 .. 9
MCValue2 == {a, b}
Symmetry == Permutations({x, y}) \cup Permutations({a, b}) \cup Permutations({i, j, k})
=============================================================================
