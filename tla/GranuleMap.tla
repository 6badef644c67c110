----------------------------- MODULE GranuleMap -----------------------------
(***************************************************************************)
(* What the granule transition service promises the worlds: every granule  *)
(* belongs to one physical address space; only the normal and the realm    *)
(* world exchange granules, one at a time, and a granule on its way back   *)
(* to the normal world is accessible to nobody.                            *)
(***************************************************************************)
CONSTANTS Granules, GPI, NormalGpi, RealmGpi, NobodyGpi, NoGranule

VARIABLES gpi,                   \* [Granules -> GPI]
          returning              \* the granule on its way back, or NoGranule

Init == gpi \in [Granules -> GPI] /\ returning = NoGranule

Move(g, from, to) ==
  /\ gpi[g] = from
  /\ gpi' = [gpi EXCEPT ![g] = to]

Delegate(g) ==
  /\ returning = NoGranule
  /\ Move(g, NormalGpi, RealmGpi)
  /\ UNCHANGED returning

Withdraw(g) ==
  /\ returning = NoGranule /\ returning' = g
  /\ Move(g, RealmGpi, NobodyGpi)

Return(g) ==
  /\ returning = g /\ returning' = NoGranule
  /\ Move(g, NobodyGpi, NormalGpi)

Next == \E g \in Granules : Delegate(g) \/ Withdraw(g) \/ Return(g)

Spec == Init /\ [][Next]_<<gpi, returning>>
=============================================================================
