----------------------------- MODULE MCGranules -----------------------------
(***************************************************************************)
(* Two bytes per granule and two granules per descriptor.  Level 0: a      *)
(* table and a block of root memory.  The table has two descriptors of     *)
(* single granules, or one and a contiguous one.                           *)
(***************************************************************************)
EXTENDS GranuleTransition

\* The granules of the table, one that is not aligned, the block, and beyond.
MCPA == {0, 2, 4, 6, 1, 8, 16}

MCL0 == [i \in 0 .. 1 |->
           IF i = 0 THEN [tag |-> 3, gpi |-> 0, table |-> 0]
           ELSE [tag |-> 1, gpi |-> Root, table |-> 0]]

Single(a, b) == [f \in 0 .. 1 |-> IF f = 0 THEN a ELSE b]
Contig(a) == Single(1, a)
Rest == [i \in 0 .. 1 |-> Single(0, 0)]

MCInitialL1 ==
  {[t \in 0 .. 1 |-> IF t = 1 THEN Rest
      ELSE [i \in 0 .. 1 |-> IF i = 0 THEN d ELSE e]] :
    d \in {Single(NonSecure, Realm)},
    e \in {Single(Realm, Secure), Contig(NonSecure)}}
=============================================================================
