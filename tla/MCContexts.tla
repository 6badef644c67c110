----------------------------- MODULE MCContexts -----------------------------
(***************************************************************************)
(* The registers of one core, in two parts that do not depend on each      *)
(* other: vector registers and what goes with them (WorldSwitch), and      *)
(* system registers (RegisterContexts).  A behaviour is about one of them. *)
(*                                                                         *)
(* System registers: cores with every feature, with one feature missing,   *)
(* with none and with each number of MPAM virtual partition registers;     *)
(* both builds, with and without the erratum, one with the realm world.    *)
(***************************************************************************)
EXTENDS RegisterContexts

CONSTANTS World, Build

AllFeatures ==
  {"VHE", "AMU", "FGT2", "HCX", "MPAM", "MTE2", "SCTLR2", "TCR2", "SPE",
   "TRACE", "TRBE", "TRF", "MTPMU"}

Hw(sel2, feats, vpmr_max, erratum) ==
  [sel2 |-> sel2, rme |-> FALSE, feats |-> feats, erratum |-> erratum,
   vpmr_max |-> IF "MPAM" \in feats THEN vpmr_max ELSE -1]

\* One feature missing, with another number of partition registers each.
OneMissing ==
  <<"MPAM", "VHE", "AMU", "FGT2", "HCX", "MTE2", "SCTLR2", "TCR2", "SPE",
    "TRACE", "TRBE", "TRF", "MTPMU">>

NoFeature == Hw(FALSE, {}, -1, FALSE)

MCConfig ==
  {Hw(TRUE, AllFeatures \ {OneMissing[i]}, (i % 9) - 1, i % 2 = 1) : i \in 1 .. 13}
    \cup {Hw(FALSE, AllFeatures \ {f}, 7, FALSE) :
            f \in {"VHE", "HCX", "MTE2", "TRBE"}}
    \cup {NoFeature, Hw(TRUE, {}, -1, FALSE)}
    \cup {[Hw(TRUE, AllFeatures, 7, TRUE) EXCEPT !.rme = TRUE]}

VARIABLES part, build, vec_world, vec_core, vec_left

vec_vars == <<build, vec_world, vec_core, vec_left>>

Vec == INSTANCE WorldSwitch WITH
  world <- vec_world, core <- vec_core, left <- vec_left

ASSUME ConfigOk == ConfigAssumption /\ Vec!BuildAssumption

\* The part a behaviour is not about stays in one initial state.
MCInit ==
  /\ Init /\ Vec!Init
  /\ part \in {"vectors", "sysregs"}
  /\ part = "vectors" => hw = NoFeature
  /\ part = "sysregs" => build = "Simd" /\ vec_core.regs["el1"] = 0

MCNext ==
  \/ part = "vectors" /\ Vec!Next /\ UNCHANGED <<part, vars>>
  \/ part = "sysregs" /\ Next /\ UNCHANGED <<part, vec_vars>>

MCSpec == MCInit /\ [][MCNext]_<<part, vars, vec_vars>>

\* A world finds every vector register and extension context it has access to as
\* it last saw it (switch_world, SveCpuContext, AmuContext).
FoundAsLeft == Vec!FoundAsLeft

\* EL3 never executes an instruction that traps to itself while it saves or
\* restores (CPTR_EL3 in Simd, should_save_restore_ffr).
NoFaultAtEl3 == Vec!NoFaultAtEl3
=============================================================================
