-------------------------- MODULE RegisterContexts --------------------------
(***************************************************************************)
(* The system registers of the lower exception levels on one core, each by *)
(* name: CpuContext with El1Sysregs or El2Sysregs, the contexts of the CPU *)
(* extensions, the traps EL3 sets for each world, and the undefined        *)
(* exceptions it injects when a trap is hit.  What a core implements and   *)
(* what the build enables is the record `hw`, chosen once.                 *)
(*                                                                         *)
(* A register holds 0 (its EMPTY or initial value), 1 or 2 (written by a   *)
(* world or, for it, by an injected exception; in HCR_EL2 the bit TGE is   *)
(* set in 2) or 3 (what reset or a lost write leaves).                     *)
(***************************************************************************)
EXTENDS Integers

CONSTANT Config         \* the builds and cores to consider

\* sel2, rme (only with sel2): features of the build.  feats: features of the
\* core.  vpmr_max: MPAMIDR_EL1.VPMR_MAX, -1 without HAS_HCR.  erratum: one of
\* the ICH_VMCR_EL2 errata applies.
VARIABLES hw, world, core, left

vars == <<hw, world, core, left>>

\* What a configuration is: the realm world needs Secure EL2, and VPMR_MAX has
\* three bits.
ConfigAssumption ==
  \A c \in Config :
    /\ c.sel2 \in BOOLEAN /\ c.rme \in BOOLEAN /\ c.erratum \in BOOLEAN
    /\ c.rme => c.sel2
    /\ c.vpmr_max \in -1 .. 7

Worlds == {"Secure", "NonSecure"} \cup (IF hw.rme THEN {"Realm"} ELSE {})

has(feature) == feature \in hw.feats
If(condition, set) == IF condition THEN set ELSE {}

-----------------------------------------------------------------------------
(* The registers of the structs.                                           *)

El1Sysregs ==
  {"spsr_el1", "elr_el1", "sctlr_el1", "tcr_el1", "cpacr_el1", "csselr_el1",
   "sp_el1", "esr_el1", "ttbr0_el1", "ttbr1_el1", "mair_el1", "amair_el1",
   "actlr_el1", "tpidr_el1", "tpidr_el0", "tpidrro_el0", "par_el1", "far_el1",
   "afsr0_el1", "afsr1_el1", "contextidr_el1", "vbar_el1", "mdccint_el1",
   "mdscr_el1"}

El2Vhe == {"contextidr_el2", "ttbr1_el2"}

El2Sysregs ==
  {"actlr_el2", "afsr0_el2", "afsr1_el2", "amair_el2", "cnthctl_el2",
   "cntvoff_el2", "cptr_el2", "elr_el2", "esr_el2", "far_el2", "hacr_el2",
   "hcr_el2", "hpfar_el2", "hstr_el2", "icc_sre_el2", "ich_hcr_el2",
   "ich_vmcr_el2", "mair_el2", "mdcr_el2", "sctlr_el2", "spsr_el2", "sp_el2",
   "tcr_el2", "tpidr_el2", "ttbr0_el2", "vbar_el2", "vmpidr_el2", "vpidr_el2",
   "vtcr_el2", "vttbr_el2"} \cup El2Vhe

FgtCpuContext == {"hafgrtr_el2", "hdfgrtr_el2", "hdfgwtr_el2", "hfgitr_el2",
                  "hfgrtr_el2", "hfgwtr_el2"}
Fgt2CpuContext == {"hfgitr2_el2", "hfgrtr2_el2", "hfgwtr2_el2",
                   "hdfgrtr2_el2", "hdfgwtr2_el2"}
HcxCpuContext == {"hcrx_el2"}
Vpm == <<"mpamvpm1_el2", "mpamvpm2_el2", "mpamvpm3_el2", "mpamvpm4_el2",
         "mpamvpm5_el2", "mpamvpm6_el2", "mpamvpm7_el2">>
MpamHcr == {"mpamhcr_el2", "mpamvpmv_el2", "mpamvpm0_el2"}
MpamCpuContext == {"mpam2_el2"} \cup MpamHcr \cup {Vpm[i] : i \in 1 .. 7}
Mte2Sel1 == {"tfsre0_el1", "tfsr_el1", "rgsr_el1", "gcr_el1"}
Mte2CpuContext(sel2) == IF sel2 THEN {"tfsr_el2"} ELSE Mte2Sel1
RasSel1 == {"disr_el1"}
RasCpuContext(sel2) == IF sel2 THEN {"vdisr_el2", "vsesr_el2"} ELSE RasSel1
Sctlr2Sel1 == {"sctlr2_el1"}
Sctlr2CpuContext(sel2) == IF sel2 THEN {"sctlr2_el2"} ELSE Sctlr2Sel1
Tcr2Sel1 == {"tcr2_el1"}
Tcr2CpuContext(sel2) == IF sel2 THEN {"tcr2_el2"} ELSE Tcr2Sel1

Both(Context(_)) == Context(TRUE) \cup Context(FALSE)

\* Registers that are never switched: the normal world has them to itself.
Unswitched == {"trace", "pmscr_el1", "trblimitr_el1"}

Register ==
  El1Sysregs \cup El2Sysregs \cup FgtCpuContext \cup Fgt2CpuContext
    \cup HcxCpuContext \cup MpamCpuContext \cup Both(Mte2CpuContext)
    \cup Both(RasCpuContext) \cup Both(Sctlr2CpuContext)
    \cup Both(Tcr2CpuContext) \cup Unswitched \cup {"mpam3_el3"}

Lost == 3
Value == {0, 1, 2, Lost}
Unknown == 4

TypeOK ==
  /\ hw \in Config
  /\ world \in Worlds
  /\ core.reg \in [Register -> Value]
  /\ core.saved \in [Worlds -> [Register -> Value]]
  /\ core.scr \subseteq STRING
  /\ core.fault \in BOOLEAN
  /\ left \in [Worlds -> [Register -> Value \cup {Unknown}]]

-----------------------------------------------------------------------------
(* The processor.                                                          *)

\* The registers the core implements; naming another one is undefined.
Implemented ==
  Register
    \ (If(~has("VHE"), El2Vhe) \cup If(~has("AMU"), {"hafgrtr_el2"})
         \cup If(~has("FGT2"), Fgt2CpuContext) \cup If(~has("HCX"), HcxCpuContext)
         \cup If(~has("MPAM"), MpamCpuContext \cup {"mpam3_el3"})
         \cup If(hw.vpmr_max = -1, MpamHcr)
         \cup {Vpm[i] : i \in {j \in 1 .. 7 : j > hw.vpmr_max}}
         \cup If(~has("MTE2"), Both(Mte2CpuContext))
         \cup If(~has("SCTLR2"), Both(Sctlr2CpuContext))
         \cup If(~has("TCR2"), Both(Tcr2CpuContext))
         \cup If(~has("TRACE"), {"trace"}) \cup If(~has("SPE"), {"pmscr_el1"})
         \cup If(~has("TRBE"), {"trblimitr_el1"}))

\* EL3 names registers rs: an exception to EL3 itself where one is not
\* implemented or is an EL2 register while EL2 is off.
Using(m, rs) ==
  LET el2_on == m.scr \cap {"NS", "EEL2"} # {}
  IN  [m EXCEPT !.fault =
         \/ @
         \/ ~(rs \subseteq Implemented)
         \/ ~el2_on /\ rs \cap El2Sysregs # {}]

\* Registers rs from `new`, the others from `old`.
Only(rs, new, old) == [r \in Register |-> IF r \in rs THEN new[r] ELSE old[r]]
All(v) == [r \in Register |-> v]

\* A copy of registers rs to the context of world w, and back.
Save(m, w, rs) == [Using(m, rs) EXCEPT !.saved[w] = Only(rs, m.reg, @)]
Restore(m, w, rs) == [Using(m, rs) EXCEPT !.reg = Only(rs, m.saved[w], @)]

-----------------------------------------------------------------------------
(* Traps: what EL3 lets a world do.                                        *)

set_routing_model(w) == If(w = "NonSecure", {"FIQ"})

\* What configure_per_world of an extension that is present adds to SCR_EL3, or
\* takes from CPTR_EL3.
Fgt2Scr == If(has("FGT2"), {"FGTEN2"})
HcxScr == If(has("HCX"), {"HXEN"})
Mte2Scr(w) == If(has("MTE2") /\ w \in {"NonSecure", "Secure"}, {"ATA"})
Sctlr2Scr == If(has("SCTLR2"), {"SCTLR2EN"})
Tcr2Scr == If(has("TCR2"), {"TCR2EN"})
TraceCptr(w) == If(has("TRACE") /\ w = "NonSecure", {"TTA"})

\* PerWorldContext: initialise_common and initialise_per_world_contexts.
CommonScr == {"HCE", "SIF", "RW", "APK", "API", "ECVEN"} \cup If(hw.sel2, {"EEL2"})
scr_el3(w) ==
  CommonScr
    \cup If(w = "NonSecure", {"NS", "FGTEN"})
    \cup If(w = "Secure", {"ST"})
    \cup If(w = "Realm", {"NS", "NSE", "FGTEN"})
    \cup set_routing_model(w)
    \cup Fgt2Scr \cup HcxScr \cup Mte2Scr(w) \cup Sctlr2Scr \cup Tcr2Scr

cptr_el3(w) == {"TAM", "TTA"} \ (If(w = "NonSecure", {"TAM"}) \cup TraceCptr(w))

mpam3_el3(w) ==
  IF has("MPAM") /\ w # "Secure" THEN {"MPAMEN"} ELSE {"TRAPLOWER"}

\* El3State::mdcr_el3: initialise_common, pmuv3, and configure_per_cpu of every
\* extension that is present.
CommonMdcr ==
  ({"SDD", "SPD32", "SCCD", "MCCD", "ENPM2"} \cup If(has("TRF"), {"TTRF"}))
    \ {"MPMX", "SPME", "TPM"}
Spe(w, bits) ==
  IF has("SPE") /\ w = "NonSecure"
  THEN (bits \cup {"NSPB_NS", "ENPMSN", "ENPMS3"}) \ {"NSPBE"} ELSE bits
Trbe(w, bits) ==
  CASE ~has("TRBE") -> bits
    [] has("TRBE") /\ w = "NonSecure" ->
         (bits \cup {"NSTB_EN", "NSTB_SS"}) \ {"NSTBE"}
    [] OTHER -> (bits \ {"NSTB_EN", "NSTBE"}) \cup {"NSTB_SS"}
Trf(bits) == IF has("TRF") THEN bits \ {"TTRF"} ELSE bits
Mtpmu(bits) == bits \cup If(has("MTPMU"), {"MTPME"})
mdcr_el3(w) == Trf(Trbe(w, Spe(w, Mtpmu(CommonMdcr))))

\* The security state that owns the trace buffer.
BufferOwner(mdcr) ==
  IF "NSTBE" \in mdcr THEN "Realm"
  ELSE IF "NSTB_SS" \in mdcr THEN "NonSecure" ELSE "Secure"

\* The registers that software of world w can use.  In a build with Secure EL2
\* the EL1 registers are the business of each world's EL2.
HasEl2(w) == hw.sel2 \/ w = "NonSecure"
Accessible(w) ==
  LET scr == scr_el3(w)
  IN  Implemented \cap
        (If(HasEl2(w), El2Sysregs \cup RasCpuContext(TRUE))
           \cup If(~hw.sel2, El1Sysregs \cup RasCpuContext(FALSE))
           \cup If(HasEl2(w) /\ "FGTEN" \in scr, FgtCpuContext)
           \cup If(HasEl2(w) /\ "FGTEN2" \in scr, Fgt2CpuContext)
           \cup If(HasEl2(w) /\ "HXEN" \in scr, HcxCpuContext)
           \cup If(HasEl2(w) /\ "TRAPLOWER" \notin mpam3_el3(w), MpamCpuContext)
           \cup If("ATA" \in scr, Mte2CpuContext(hw.sel2))
           \cup If("SCTLR2EN" \in scr, Sctlr2CpuContext(hw.sel2))
           \cup If("TCR2EN" \in scr, Tcr2CpuContext(hw.sel2))
           \cup If("TTA" \notin cptr_el3(w), {"trace"})
           \cup If("NSPB_NS" \in mdcr_el3(w) /\ w = "NonSecure", {"pmscr_el1"})
           \cup If("NSTB_EN" \in mdcr_el3(w) /\ BufferOwner(mdcr_el3(w)) = w,
                   {"trblimitr_el1"}))

-----------------------------------------------------------------------------
(* What each extension reads and writes on a switch.                       *)

fgt_save == (FgtCpuContext \ {"hafgrtr_el2"}) \cup If(has("AMU"), {"hafgrtr_el2"})
fgt_restore ==
  If(has("AMU"), {"hafgrtr_el2"}) \cup (FgtCpuContext \ {"hafgrtr_el2"})

fgt2_save == If(has("FGT2"), Fgt2CpuContext)
fgt2_restore == If(has("FGT2"), Fgt2CpuContext)

hcx_save == If(has("HCX"), HcxCpuContext)
hcx_restore == If(has("HCX"), HcxCpuContext)

\* Mutant: one virtual partition register too many.
VpmOffByOne == {Vpm[i] : i \in {j \in 1 .. 7 : hw.vpmr_max >= j - 1}}

VpmRegisters ==
  {Vpm[i] : i \in {j \in 1 .. 7 :
                     IF j = 7 THEN hw.vpmr_max = 7 ELSE hw.vpmr_max >= j}}

mpam_save ==
  If(has("MPAM"), {"mpam2_el2"} \cup If(hw.vpmr_max # -1, MpamHcr \cup VpmRegisters))
mpam_restore ==
  If(has("MPAM"), {"mpam2_el2"} \cup If(hw.vpmr_max # -1, MpamHcr \cup VpmRegisters))

mte2_context == If(has("MTE2"), Mte2CpuContext(hw.sel2))
ras_context == RasCpuContext(hw.sel2)
sctlr2_context == If(has("SCTLR2"), Sctlr2CpuContext(hw.sel2))
tcr2_context == If(has("TCR2"), Tcr2CpuContext(hw.sel2))

save_context(m, w) ==
  Save(m, w, If(hw.sel2, fgt_save \cup fgt2_save \cup hcx_save \cup mpam_save)
               \cup mte2_context \cup ras_context \cup sctlr2_context
               \cup tcr2_context)
restore_context(m, w) ==
  Restore(m, w,
    If(hw.sel2, fgt_restore \cup fgt2_restore \cup hcx_restore \cup mpam_restore)
      \cup mte2_context \cup ras_context \cup sctlr2_context \cup tcr2_context)

-----------------------------------------------------------------------------
(* CpuContext.                                                             *)

El2Save(m, w) == Save(m, w, (El2Sysregs \ El2Vhe) \cup If(has("VHE"), El2Vhe))

\* On an affected core a write to ICH_VMCR_EL2 is lost unless SCR_EL3.NS is that
\* of the world it is for.
WriteVmcr(m, w) ==
  LET lost == hw.erratum /\ ("NS" \in m.scr) # (w # "Secure")
  IN  [Using(m, {"ich_vmcr_el2"}) EXCEPT !.reg["ich_vmcr_el2"] =
         IF lost THEN Lost ELSE m.saved[w]["ich_vmcr_el2"]]

\* The workaround; SCR_EL3 is not put back.
SetNsForVmcr(m, w) ==
  IF ~hw.erratum THEN m
  ELSE IF w = "Secure" THEN [m EXCEPT !.scr = @ \ {"NS"}]
  ELSE [m EXCEPT !.scr = @ \cup {"NS"}]

\* ICH_VMCR_EL2 is written between two groups of registers.
El2BeforeVmcr ==
  {"actlr_el2", "afsr0_el2", "afsr1_el2", "amair_el2", "cnthctl_el2",
   "cntvoff_el2", "cptr_el2", "elr_el2", "esr_el2", "far_el2", "hacr_el2",
   "hcr_el2", "hpfar_el2", "hstr_el2", "icc_sre_el2", "ich_hcr_el2"}
El2AfterVmcr ==
  {"mair_el2", "mdcr_el2", "sctlr_el2", "spsr_el2", "sp_el2", "tcr_el2",
   "tpidr_el2", "ttbr0_el2", "vbar_el2", "vmpidr_el2", "vpidr_el2", "vtcr_el2",
   "vttbr_el2"}

El2Restore(m, w) ==
  Restore(WriteVmcr(SetNsForVmcr(Restore(m, w, El2BeforeVmcr), w), w), w,
          El2AfterVmcr \cup If(has("VHE"), El2Vhe))

save_lower_el_sysregs(m, w) ==
  IF hw.sel2 THEN El2Save(m, w) ELSE Save(m, w, El1Sysregs)
restore_lower_el_sysregs(m, w) ==
  IF hw.sel2 THEN El2Restore(m, w) ELSE Restore(m, w, El1Sysregs)

\* MPAM3_EL3 exists only with FEAT_MPAM.
restore_el3_sysregs(m, w) ==
  Using(m, If(has("MPAM"), {"mpam3_el3"}))

restore_world(m, w) ==
  restore_lower_el_sysregs(restore_context(restore_el3_sysregs(m, w), w), w)

\* el3_exit: the world runs under its own SCR_EL3.
el3_exit(m, w) == [m EXCEPT !.scr = scr_el3(w)]

switch_world(m, old, new) ==
  restore_world(save_context(save_lower_el_sysregs(m, old), old), new)

set_initial_world(m, w) ==
  restore_world([m EXCEPT !.scr = scr_el3(w)], w)

-----------------------------------------------------------------------------
(* Boot.                                                                   *)

Reset(m) == [m EXCEPT !.reg = All(Lost), !.scr = {}]

\* The init functions write registers that are not switched, or not yet.
HfgInit == {"hfgitr_el2", "hfgrtr_el2", "hfgwtr_el2"}
initialise_el3_sysregs(m) ==
  LET rs == If(has("HCX"), HcxCpuContext) \cup If(~hw.sel2, HfgInit)
  IN  [m EXCEPT !.reg = Only(rs, All(0), @)]

\* CpuContext::EMPTY with fixed values for some registers; pmuv3 keeps what
\* MDCR_EL2 holds.
LowerElSysregs == IF hw.sel2 THEN El2Sysregs ELSE El1Sysregs
initialise_common(m, w) ==
  LET emptied == [m EXCEPT !.saved[w] = Only(LowerElSysregs, All(0), @)]
  IN  IF hw.sel2 THEN [emptied EXCEPT !.saved[w]["mdcr_el2"] = m.reg["mdcr_el2"]]
      ELSE emptied

initialise_contexts(m) ==
  LET n == initialise_el3_sysregs(m)
      saved == [w \in Worlds |-> initialise_common(n, w).saved[w]]
  IN  [n EXCEPT !.saved = saved]

update_contexts_suspend(m) ==
  initialise_common(initialise_el3_sysregs(m), "NonSecure")

\* What software that starts may count on: its context is EMPTY, but for
\* MDCR_EL2, and the registers of the init functions.
Fresh ==
  Only((LowerElSysregs \ {"mdcr_el2"})
         \cup If(~hw.sel2, HfgInit \cup HcxCpuContext),
       All(0), All(Unknown))

Init ==
  /\ hw \in Config
  /\ world = "Secure"
  /\ core = LET off == [reg |-> All(Lost), scr |-> {},
                        saved |-> [w \in Worlds |-> All(0)],
                        fault |-> FALSE]
            IN  el3_exit(set_initial_world(initialise_contexts(off), "Secure"),
                         "Secure")
  /\ left = [w \in Worlds |-> Fresh]

-----------------------------------------------------------------------------
(* Behaviours.                                                             *)

\* The world that runs writes all the registers it can.  Bound: only the normal
\* world, whose TGE another world may find, writes two different values.
Use ==
  \E v \in IF world = "NonSecure" THEN {1, 2} ELSE {1} :
    LET usable == Accessible(world)
    IN  /\ core' = [core EXCEPT !.reg = Only(usable, All(v), @)]
        /\ left' = [left EXCEPT ![world] = Only(usable, All(v), All(Unknown))]
        /\ UNCHANGED <<hw, world>>

Switch ==
  \E w \in Worlds \ {world} :
    /\ core' = el3_exit(switch_world(core, world, w), w)
    /\ world' = w
    /\ UNCHANGED <<hw, left>>

is_tge_enabled == has("VHE") /\ core.reg["hcr_el2"] = 2
is_secure_trap_without_sel2(scr) == "NS" \notin scr /\ "EEL2" \notin scr

\* Mutant: TGE is believed whoever set it.
BelieveTge(from, scr) ==
  IF from > 1 THEN from ELSE IF is_tge_enabled THEN 2 ELSE 1

target_el(from, scr) ==
  IF from > 1 THEN from
  ELSE IF is_tge_enabled /\ ~is_secure_trap_without_sel2(scr) THEN 2 ELSE 1

\* A world hits a trap at exception level `from`: EL3 enters its handler for an
\* undefined instruction by writing the registers of the target level.
InjectedRegisters(el) ==
  IF el = 1 THEN {"elr_el1", "esr_el1", "spsr_el1"}
  ELSE {"elr_el2", "esr_el2", "spsr_el2"}

inject_undef64 ==
  \E from \in 0 .. (IF HasEl2(world) THEN 2 ELSE 1) :
    LET rs == InjectedRegisters(target_el(from, scr_el3(world)))
        seen == rs \cap Accessible(world)
    IN  /\ core' = [core EXCEPT !.reg = Only(rs, All(1), @)]
        /\ left' = [left EXCEPT ![world] = Only(seen, All(1), @)]
        /\ UNCHANGED <<hw, world>>

\* The normal world suspends to power down and the core warm boots.
SuspendToPowerDown ==
  /\ world = "NonSecure"
  /\ LET saved == save_context(save_lower_el_sysregs(core, world), world)
     IN  core' = el3_exit(set_initial_world(
                   update_contexts_suspend(Reset(saved)), "Secure"), "Secure")
  /\ world' = "Secure"
  /\ left' = [left EXCEPT !["NonSecure"] = Fresh]
  /\ UNCHANGED hw

\* CPU_OFF and a later CPU_ON.
TurnOffAndOn ==
  /\ world = "NonSecure"
  /\ core' = el3_exit(set_initial_world(
               initialise_contexts(Reset(core)), "Secure"), "Secure")
  /\ world' = "Secure"
  /\ left' = [w \in Worlds |-> Fresh]
  /\ UNCHANGED hw

Next == Use \/ Switch \/ inject_undef64 \/ SuspendToPowerDown \/ TurnOffAndOn

Spec == Init /\ [][Next]_vars

-----------------------------------------------------------------------------
(* Properties.                                                             *)

\* A world finds every register it can use as it last saw it, whatever the
\* other worlds did with theirs and through power down: every register that
\* two worlds can use is saved and restored by switch_world, on every core and
\* in both builds, an injected exception stays in the world it is for, and the
\* ICH_VMCR_EL2 workaround looks at the right world.
RegistersKept ==
  \A r \in Accessible(world) : left[world][r] \in {Unknown, core.reg[r]}

\* EL3 names no register that the core lacks and no EL2 register while EL2 is
\* off: each context tests for its feature, VPMR_MAX is compared right, and
\* set_initial_world writes SCR_EL3 before the rest.
NoUndefinedAccess == ~core.fault
=============================================================================
