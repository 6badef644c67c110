----------------------------- MODULE WorldSwitch -----------------------------
(***************************************************************************)
(* The register state of one core across world switches, in a build        *)
(* without Secure EL2: EL1 system registers, the contexts of CPU           *)
(* extensions, and the FP, SIMD, SVE and SME state that Simd saves and      *)
(* restores in a fixed order because its steps overwrite one another.      *)
(*                                                                         *)
(* A switch runs with exceptions masked on its own core, so it is one      *)
(* step; the order inside it is the order in which the operators below are *)
(* applied to the record `core`, which holds the registers and everything  *)
(* EL3 has saved.  A register is 0 (also its reset value) or 1.            *)
(***************************************************************************)
CONSTANTS World,
          Build         \* combinations of configured and present extensions

\* Only the normal world's SVE state has a context of its own, and it is used
\* only where FEAT_SVE is present.
BuildAssumption ==
  /\ {"Secure", "NonSecure"} \subseteq World
  /\ World \subseteq {"Secure", "NonSecure", "Realm"}
  /\ Build \subseteq {"Simd", "Sve", "Sme", "SmeFa64"}
  /\ "Realm" \in World => Build = {"Simd"}

VARIABLES build,        \* the build and the core this behaviour is about
          world,        \* the world that runs
          core,         \* registers and saved contexts
          left          \* what each world last saw in the registers

vars == <<build, world, core, left>>

has_sve == build # "Simd"
has_sme == build \in {"Sme", "SmeFa64"}
has_fa64 == build = "SmeFa64"

Value == {0, 1}

\* el1: EL1 system registers.  ext: registers of an extension that copies them
\* as they are (MTE2, RAS, SCTLR2, TCR2).  q, z: the low 128 bits of the vector
\* registers and the rest.  p: predicates.  fp: FPSR and FPCR.  sm: SVCR.SM.
\* amu: the activity monitors.
Reg == {"el1", "ext", "q", "z", "p", "ffr", "fp", "sm", "amu"}
Wiped == {"q", "z", "p", "ffr", "fp"}
Unknown == 2

Trap == {"TAM", "TFP", "EZ", "ESM"}

SimdCpuContext == [q : Value, fp : Value]
SveCpuContext == [q : Value, z : Value, p : Value, ffr : Value, fp : Value,
                  svcr : Value]

TypeOK ==
  /\ build \in Build
  /\ world \in World
  /\ core.regs \in [Reg -> Value]
  /\ core.cptr \subseteq Trap
  /\ core.fault \in BOOLEAN
  /\ core.el1 \in [World -> Value] /\ core.ext \in [World -> Value]
  /\ core.simd \in [World -> SimdCpuContext]
  /\ core.sve \in SveCpuContext
  /\ core.amu \in Value
  /\ left \in [World -> [Reg -> Value \cup {Unknown}]]

-----------------------------------------------------------------------------
(* The processor.                                                          *)

\* Loading a Q register clears the rest of the vector register.
WriteQ(m, v) == [m EXCEPT !.regs.q = v, !.regs.z = 0]

\* Entering or leaving streaming mode clears vectors, predicates and FP status.
WriteSvcr(m, v) ==
  IF m.regs.sm = v THEN m
  ELSE [m EXCEPT !.regs = [r \in Reg |-> IF r = "sm" THEN v
                                         ELSE IF r \in Wiped THEN 0 ELSE @[r]]]

\* FFR does not exist in streaming mode unless the core has FEAT_SME_FA64.
FfrExists(m) == m.regs.sm = 0 \/ has_fa64

Accessible(m) ==
  {"el1", "ext"}
    \cup (IF "TFP" \in m.cptr THEN {} ELSE {"q", "fp"})
    \cup (IF "EZ" \in m.cptr THEN {"z", "p"} ELSE {})
    \cup (IF "EZ" \in m.cptr /\ FfrExists(m) THEN {"ffr"} ELSE {})
    \cup (IF "ESM" \in m.cptr THEN {"sm"} ELSE {})
    \cup (IF "TAM" \in m.cptr THEN {} ELSE {"amu"})

View(m) == [r \in Reg |-> IF r \in Accessible(m) THEN m.regs[r] ELSE Unknown]

\* EL3 uses registers rs: an exception to EL3 itself if it may not.
Using(m, rs) == [m EXCEPT !.fault = @ \/ ~(rs \subseteq Accessible(m))]

-----------------------------------------------------------------------------
(* Per-world configuration of CPTR_EL3.                                    *)

needs_sve_sme(w) == w \in {"NonSecure", "Realm"}

\* initialise_common, then the normal world's AMU access, then Simd.
world_context(w) ==
  (IF w = "NonSecure" THEN {} ELSE {"TAM"})
    \cup (IF has_sve /\ needs_sve_sme(w) THEN {"EZ"} ELSE {})
    \cup (IF has_sme /\ needs_sve_sme(w) THEN {"ESM"} ELSE {})

restore_el3_sysregs(m, w) == [m EXCEPT !.cptr = world_context(w)]

-----------------------------------------------------------------------------
(* SimdCpuContext and SveCpuContext.                                       *)

SimdSave(m, w) ==
  [Using(m, {"q", "fp"}) EXCEPT !.simd[w] = [q |-> m.regs.q, fp |-> m.regs.fp]]

SimdRestore(m, w) ==
  [WriteQ(Using(m, {"q", "fp"}), m.simd[w].q)
     EXCEPT !.regs.fp = m.simd[w].fp]

save_predicates(m) == [Using(m, {"p"}) EXCEPT !.sve.p = m.regs.p]
restore_predicates(m) == [Using(m, {"p"}) EXCEPT !.regs.p = m.sve.p]

\* FFR can only be copied through predicate register p0.
save_ffr(m) ==
  [Using(m, {"p", "ffr"}) EXCEPT !.regs.p = m.regs.ffr, !.sve.ffr = m.regs.ffr]
restore_ffr(m) ==
  [Using(m, {"p", "ffr"}) EXCEPT !.regs.p = m.sve.ffr, !.regs.ffr = m.sve.ffr]

save_vectors(m) ==
  [Using(m, {"q", "z"}) EXCEPT !.sve.q = m.regs.q, !.sve.z = m.regs.z]
restore_vectors(m) ==
  [Using(m, {"q", "z"}) EXCEPT !.regs.q = m.sve.q, !.regs.z = m.sve.z]

save_fp_state(m) == [Using(m, {"fp"}) EXCEPT !.sve.fp = m.regs.fp]
restore_fp_state(m) == [Using(m, {"fp"}) EXCEPT !.regs.fp = m.sve.fp]

save_svcr(m) ==
  IF has_sme THEN [Using(m, {"sm"}) EXCEPT !.sve.svcr = m.regs.sm] ELSE m
restore_svcr(m) ==
  IF has_sme THEN WriteSvcr(Using(m, {"sm"}), m.sve.svcr) ELSE m

\* Mutant: the streaming mode is not looked at.
AlwaysFfr(m) == TRUE

should_save_restore_ffr(m) == has_sme /\ m.sve.svcr = 1 => has_fa64

SaveFfrIfAny(m) == IF should_save_restore_ffr(m) THEN save_ffr(m) ELSE m
RestoreFfrIfAny(m) == IF should_save_restore_ffr(m) THEN restore_ffr(m) ELSE m

\* Mutant: FFR goes through p0 before p0 is saved.
FfrFirst(m) ==
  save_fp_state(save_vectors(save_predicates(SaveFfrIfAny(save_svcr(m)))))

SveSave(m) ==
  save_fp_state(save_vectors(SaveFfrIfAny(save_svcr(save_predicates(m)))))

SveRestore(m) ==
  restore_fp_state(restore_vectors(restore_predicates(
    RestoreFfrIfAny(restore_svcr(m)))))

-----------------------------------------------------------------------------
(* Extensions and the switch.                                              *)

Open(m) == [m EXCEPT !.cptr = (@ \ {"TFP"}) \cup {"EZ", "ESM"}]

\* Simd::save_context and Simd::restore_context: CPTR_EL3 is opened and put back.
save_context(m, w) ==
  LET saved == IF w = "NonSecure" /\ has_sve
               THEN SveSave(Open(m)) ELSE SimdSave(Open(m), w)
  IN  [saved EXCEPT !.cptr = m.cptr]

restore_context(m, w) ==
  LET restored == IF w = "NonSecure" /\ has_sve
                  THEN SveRestore(Open(m)) ELSE SimdRestore(Open(m), w)
  IN  [restored EXCEPT !.cptr = m.cptr]

\* An extension whose context is a copy of its registers.
SaveRegisters(m, w) == [m EXCEPT !.ext[w] = m.regs.ext]
RestoreRegisters(m, w) == [m EXCEPT !.regs.ext = m.ext[w]]

save_lower_el_sysregs(m, w) == [m EXCEPT !.el1[w] = m.regs.el1]
restore_lower_el_sysregs(m, w) == [m EXCEPT !.regs.el1 = m.el1[w]]

restore_world(m, w) ==
  restore_lower_el_sysregs(
    restore_context(RestoreRegisters(restore_el3_sysregs(m, w), w), w), w)

switch_world(m, old, new) ==
  restore_world(
    save_context(SaveRegisters(save_lower_el_sysregs(m, old), old), old), new)

set_initial_world(m, w) == restore_world(m, w)

\* Reset: every register holds anything, SVCR and the activity monitors zero.
Reset(m, v) ==
  [m EXCEPT !.regs = [r \in Reg |-> IF r \in {"sm", "amu"} THEN 0 ELSE v]]

initialise_common(m, w) == [m EXCEPT !.el1[w] = 0]

AmuSave(m) == [m EXCEPT !.amu = m.regs.amu]
AmuRestore(m) == [m EXCEPT !.regs.amu = m.amu]

-----------------------------------------------------------------------------
(* Behaviours.                                                             *)

EMPTY ==
  [regs |-> [r \in Reg |-> 0], cptr |-> {}, fault |-> FALSE,
   el1 |-> [w \in World |-> 0], ext |-> [w \in World |-> 0],
   simd |-> [w \in World |-> [q |-> 0, fp |-> 0]],
   sve |-> [q |-> 0, z |-> 0, p |-> 0, ffr |-> 0, fp |-> 0, svcr |-> 0],
   amu |-> 0]

\* Cold boot enters the secure world first.
Init ==
  /\ build \in Build
  /\ world = "Secure"
  /\ \E v \in Value : core = set_initial_world(Reset(EMPTY, v), "Secure")
  /\ left = [w \in World |-> [r \in Reg |-> 0]]

\* The running world leaves ones in these of the registers it has access to, and
\* zeroes in the others; if it changes the streaming mode it does that first.
UseWith(ones) ==
  LET value(r) == IF r \in ones THEN 1 ELSE 0
      moded == IF "sm" \in Accessible(core)
               THEN WriteSvcr(core, value("sm")) ELSE core
      vectored == WriteQ(moded, value("q"))
  IN  /\ core' = [vectored EXCEPT !.regs =
                    [r \in Reg |-> IF r \in Accessible(moded) THEN value(r)
                                   ELSE @[r]]]
      /\ left' = [left EXCEPT ![world] = View(core')]
      /\ UNCHANGED <<build, world>>

\* Bound: the sets of registers a world leaves nonzero.
Pattern == {{}, Reg} \cup {{r} : r \in Reg}

Use == \E ones \in Pattern : UseWith(ones)

Switch ==
  \E w \in World \ {world} :
    /\ core' = switch_world(core, world, w)
    /\ world' = w
    /\ UNCHANGED <<build, left>>

\* The normal world suspends to power down and the core warm boots: only the
\* normal world starts anew, and may rely on its activity monitors alone.
update_contexts_suspend(m) == AmuRestore(initialise_common(m, "NonSecure"))

SuspendToPowerDown ==
  /\ world = "NonSecure"
  /\ \E v \in Value :
       core' = set_initial_world(
                 update_contexts_suspend(Reset(AmuSave(core), v)), "Secure")
  /\ world' = "Secure"
  /\ left' = [left EXCEPT !["NonSecure"] =
                [r \in Reg |-> CASE r = "el1" -> 0
                                 [] r = "amu" -> @[r]
                                 [] OTHER     -> Unknown]]
  /\ UNCHANGED build

\* The power down is abandoned after the activity monitors were saved.
PowerDownAbandoned ==
  /\ world = "NonSecure"
  /\ core' = AmuSave(core)
  /\ UNCHANGED <<build, world, left>>

\* CPU_OFF and a later CPU_ON: initialise_contexts for every world.
initialise_contexts(m) ==
  [m EXCEPT !.el1 = [w \in World |-> initialise_common(m, w).el1[w]]]

TurnOffAndOn ==
  /\ world = "NonSecure"
  /\ \E v \in Value :
       core' = set_initial_world(initialise_contexts(Reset(core, v)), "Secure")
  /\ world' = "Secure"
  /\ left' = [w \in World |->
                [r \in Reg |-> IF r = "el1" THEN 0 ELSE Unknown]]
  /\ UNCHANGED build

Next == Use \/ Switch \/ SuspendToPowerDown \/ PowerDownAbandoned \/ TurnOffAndOn

Spec == Init /\ [][Next]_vars

-----------------------------------------------------------------------------
(* Properties.                                                             *)

\* A world finds every register it has access to as it last saw it, whatever
\* the other worlds did and through power down: the contexts saved by
\* switch_world, SveCpuContext and AmuContext are complete, and no step of a
\* restore overwrites what an earlier one wrote.
FoundAsLeft ==
  \A r \in Accessible(core) : left[world][r] \in {Unknown, core.regs[r]}

\* EL3 never executes an instruction that traps to itself while it saves or
\* restores: CPTR_EL3 is open, and FFR is left alone where it does not exist.
NoFaultAtEl3 == ~core.fault

\* The normal world woke from power down and has not run yet: of what it left
\* only the activity monitors are promised to it.
NormalWorldRestarting ==
  /\ world # "NonSecure"
  /\ left["NonSecure"]["ext"] = Unknown /\ left["NonSecure"]["amu"] # Unknown

\* After a suspend to power down the normal world starts from reset values in
\* all its saved system registers, as update_contexts_suspend says of
\* initialise_nonsecure; the contexts of the extensions are not among them.
RestartsFromReset ==
  NormalWorldRestarting =>
    core.el1["NonSecure"] = 0 /\ core.ext["NonSecure"] = 0
=============================================================================
