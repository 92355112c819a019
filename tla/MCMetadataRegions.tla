------------------------- MODULE MCMetadataRegions --------------------------
(* Two-block table regions with a record or none in each block, for TLC: two *)
(* tables on a device that only loses power, and one with every fault.  With *)
(* two tables three contents are stored: any two of them differ in a block,  *)
(* and two pairs agree in the other one, so that both blocks are logged, or  *)
(* only the header.                                                          *)
EXTENDS MetadataRegions

CONSTANTS blank, x

MCItem == {blank, x}
MCSetups ==
  {[tables |-> <<"alloc", "inodes">>, stores |-> Records \ {<<x, blank>>},
    tearing |-> FALSE, errors |-> FALSE],
   [tables |-> <<"inodes">>, stores |-> Records,
    tearing |-> TRUE, errors |-> TRUE]}
=============================================================================
