--------------------------- MODULE PlatformProofs ----------------------------
(***************************************************************************)
(* Power management below PSCI.  QEMU, for every number of cores: nothing  *)
(* leaves the hold pen but what CPU_ON started.  The CPUs of cpu/, for     *)
(* every revision: what EL3 says of its errata is so, and a standby state  *)
(* keeps the core's power.  The FVP, for every number of cores and         *)
(* clusters: what PSCI, the power controller and the GIC know of a core    *)
(* agrees; and the distributor survives SYSTEM_SUSPEND, if the last core   *)
(* does not go off while it starts another.                                *)
(***************************************************************************)
EXTENDS FvpPower, Sequences, TLAPS

CONSTANTS CORE_COUNT, REV, Geometry, WORD_BITS

VARIABLES slot, pen_pc, init, event, pen_target, pen_affinity_info,
          per_cpu_powerdown_kinds, awake, pen_panicked,
          midr, caches, core_pc, patched, pwrdn, dirty, off_level, answer

Qemu == INSTANCE QemuPower WITH
  pc <- pen_pc, target <- pen_target, affinity_info <- pen_affinity_info,
  panicked <- pen_panicked

Cpu == INSTANCE CpuOps WITH pc <- core_pc, level <- off_level

-----------------------------------------------------------------------------
(* QEMU: the inductive invariant.                                          *)

\* Where a core can be.
Place == Qemu!Polling \cup {"init", "boot", "run", "signal", "power_down", "wfi", "garbage"}

\* plat_hold_pen_init has written the entry of c's slot.
Prepared(c) == init.core > c \/ (init.core = c /\ init.step # "entry")

\* Whether the primary core is done with it.
PenDone == pen_pc[Qemu!PrimaryCore] # "init"

\* A core that is off, or that was asked to start and has not begun to boot.
Parked(c) ==
  \/ pen_pc[c] \in Qemu!Polling
  \/ pen_pc[c] = "power_down" /\ per_cpu_powerdown_kinds[c] = "Off"

\* A core that is on.
Live(c) ==
  \/ pen_pc[c] \in {"run", "signal", "wfi"}
  \/ pen_pc[c] = "power_down" /\ per_cpu_powerdown_kinds[c] = "Suspend"
  \/ pen_pc[c] = "boot" /\ pen_affinity_info[c] # "OnPending"

\* The slot of a core: nobody reads an entry before it is written.
SlotInv(c) ==
  /\ Prepared(c) => slot[c].entry # "garbage"
  /\ ~Prepared(c) => ~(slot[c].magic1 /\ slot[c].magic2)
  /\ pen_pc[c] = "magic2" => slot[c].magic1
  /\ pen_pc[c] \in {"entry", "reset"} => Prepared(c)
  /\ Prepared(c) /\ slot[c].entry = "warm" =>
       pen_affinity_info[c] = "OnPending" /\ Parked(c)
  /\ pen_pc[c] = "reset" => pen_affinity_info[c] = "OnPending"

\* PSCI and the GIC agree with what a core does.
StateInv(c) ==
  /\ pen_pc[c] # "garbage"
  /\ pen_pc[c] = "init" => c = Qemu!PrimaryCore /\ pen_affinity_info[c] = "On"
  /\ Parked(c) => pen_affinity_info[c] # "On" /\ c \notin awake
  /\ Live(c) => pen_affinity_info[c] = "On" /\ c \in awake /\ PenDone
  /\ pen_affinity_info[c] = "OnPending" => PenDone /\ c \notin awake

\* The inductive invariant: every core's slot and state fit where the core is.
QemuInv ==
  /\ Qemu!TypeOK /\ pen_panicked = FALSE
  /\ PenDone => init.core = CORE_COUNT
  /\ \A c \in Qemu!Cores : SlotInv(c) /\ StateInv(c)

\* At reset no slot is valid, so no core gets as far as an entry.
LEMMA QemuStarts ==
  ASSUME Qemu!CoreCountAssumption, Qemu!Init
  PROVE  QemuInv
<1>1. Qemu!TypeOK
  <2>1. slot \in [Qemu!Cores -> Qemu!HoldSlot]
    BY ZenonT(40) DEF Qemu!Init
  <2>2. init \in [core : 0 .. CORE_COUNT, step : {"entry", "magic1", "magic2"}]
    BY DEF Qemu!CoreCountAssumption, Qemu!Init
  <2>3. /\ pen_pc \in [Qemu!Cores -> Place]
        /\ pen_affinity_info \in [Qemu!Cores -> {"On", "Off", "OnPending"}]
        /\ pen_target \in [Qemu!Cores -> Qemu!Cores]
        /\ per_cpu_powerdown_kinds \in [Qemu!Cores -> {"Off", "Suspend"}]
    BY DEF Qemu!Init, Place, Qemu!Polling
  <2>4. event = {} /\ awake = {} /\ pen_panicked = FALSE
    BY DEF Qemu!Init
  <2> QED
    BY <2>1, <2>2, <2>3, <2>4, ZenonT(40) DEF Qemu!TypeOK, Place
<1>2. ASSUME NEW c \in Qemu!Cores PROVE SlotInv(c) /\ StateInv(c)
  BY SMTT(40)
  DEF Qemu!CoreCountAssumption, Qemu!Init, Qemu!Cores, Qemu!HoldSlot, SlotInv, StateInv,
      Prepared, Parked, Live, PenDone, Qemu!PrimaryCore, Qemu!Polling
<1>3. pen_panicked = FALSE /\ ~PenDone
  BY DEF Qemu!Init, PenDone, Qemu!PrimaryCore, Qemu!Cores, Qemu!CoreCountAssumption
<1> QED
  BY <1>1, <1>2, <1>3 DEF QemuInv

\* A step that changes nothing of core d.
LEMMA QemuFrame ==
  ASSUME NEW d \in Qemu!Cores, SlotInv(d), StateInv(d),
         slot'[d] = slot[d], pen_pc'[d] = pen_pc[d], 
         pen_affinity_info'[d] = pen_affinity_info[d],
         per_cpu_powerdown_kinds'[d] = per_cpu_powerdown_kinds[d],
         d \in awake' <=> d \in awake, init' = init, PenDone => PenDone'
  PROVE  SlotInv(d)' /\ StateInv(d)'
<1>1. (Prepared(d)' <=> Prepared(d)) /\ (Parked(d)' <=> Parked(d)) /\ (Live(d)' <=> Live(d))
  BY DEF Prepared, Parked, Live, Qemu!Polling
<1> QED
  BY <1>1, ZenonT(40) DEF SlotInv, StateInv, Qemu!PrimaryCore

\* A step of core c that leaves the other cores alone, and is not one of
\* plat_hold_pen_init.
LEMMA QemuOwn ==
  ASSUME QemuInv, NEW c \in Qemu!Cores, init' = init, pen_pc[c] # "init",
         NEW l \in Place \ {"init"}, pen_pc' = [pen_pc EXCEPT ![c] = l],
         \A d \in Qemu!Cores \ {c} :
           /\ slot'[d] = slot[d]
           /\ pen_affinity_info'[d] = pen_affinity_info[d]
           /\ per_cpu_powerdown_kinds'[d] = per_cpu_powerdown_kinds[d]
           /\ d \in awake' <=> d \in awake,
         slot' \in [Qemu!Cores -> Qemu!HoldSlot],
         event' \subseteq Qemu!Cores, pen_target' \in [Qemu!Cores -> Qemu!Cores],
         pen_affinity_info' \in [Qemu!Cores -> {"On", "Off", "OnPending"}],
         per_cpu_powerdown_kinds' \in [Qemu!Cores -> {"Off", "Suspend"}],
         awake' \subseteq Qemu!Cores, pen_panicked' = FALSE,
         (PenDone' <=> PenDone) => SlotInv(c)' /\ StateInv(c)'
  PROVE  QemuInv'
<1>1. Qemu!TypeOK' /\ pen_pc'[c] = l /\ \A d \in Qemu!Cores \ {c} : pen_pc'[d] = pen_pc[d]
  <2>1. pen_pc \in [Qemu!Cores -> Place]
    BY DEF QemuInv, Qemu!TypeOK, Place
  <2>2. /\ pen_pc' \in [Qemu!Cores -> Place] /\ pen_pc'[c] = l
        /\ \A d \in Qemu!Cores \ {c} : pen_pc'[d] = pen_pc[d]
    BY <2>1
  <2>3. init \in [core : 0 .. CORE_COUNT, step : {"entry", "magic1", "magic2"}]
    BY DEF QemuInv, Qemu!TypeOK
  <2> QED
    BY <2>2, <2>3, ZenonT(40)
    DEF Qemu!TypeOK, Place, Qemu!Cores, Qemu!HoldSlot, Qemu!Entry, Qemu!Polling
<1>2. PenDone' <=> PenDone
  <2>1. CASE c = Qemu!PrimaryCore
    BY <1>1, <2>1, ZenonT(40) DEF PenDone, Qemu!PrimaryCore
  <2>2. CASE c # Qemu!PrimaryCore
    BY <1>1, <2>2 DEF PenDone, Qemu!PrimaryCore, Qemu!Cores
  <2> QED
    BY <2>1, <2>2
<1>3. ASSUME NEW d \in Qemu!Cores PROVE SlotInv(d)' /\ StateInv(d)'
  <2>1. CASE d = c
    BY <1>2, <2>1
  <2>2. CASE d # c
    BY <1>1, <1>2, <2>2, QemuFrame, ZenonT(40) DEF QemuInv
  <2> QED
    BY <2>1, <2>2
<1>4. Qemu!Cores' = Qemu!Cores
  BY DEF Qemu!Cores
<1> QED
  BY <1>1, <1>2, <1>3, <1>4, ZenonT(40) DEF QemuInv

\* A core that polls its slot reads the entry only once it is written, and
\* leaves the pen only when it was started.
LEMMA LoadStep ==
  ASSUME QemuInv, NEW c \in Qemu!Cores, Qemu!Load(c)
  PROVE  QemuInv'
<1>1. /\ UNCHANGED <<slot, init, event, pen_target, pen_affinity_info,
                     per_cpu_powerdown_kinds, awake, pen_panicked>>
      /\ pen_pc[c] \in {"magic1", "magic2", "entry"}
  BY ZenonT(40) DEF Qemu!Load
<1>2. SlotInv(c) /\ StateInv(c) /\ Qemu!TypeOK /\ pen_panicked = FALSE
  BY ZenonT(40) DEF QemuInv
<1>3. slot[c].entry \in {"wait", "warm", "garbage"}
  BY <1>2 DEF Qemu!TypeOK, Qemu!HoldSlot, Qemu!Entry
<1>4. PICK l \in {"magic2", "wfe", "entry", "reset"} :
        /\ pen_pc' = [pen_pc EXCEPT ![c] = l]
        /\ l = "magic2" => slot[c].magic1
        /\ l \in {"entry", "reset"} => Prepared(c)
        /\ l = "reset" => slot[c].entry = "warm"
  <2>1. CASE pen_pc[c] = "magic1"
    BY <2>1 DEF Qemu!Load, Qemu!Goto
  <2>2. CASE pen_pc[c] = "magic2"
    BY <1>2, <2>2 DEF Qemu!Load, Qemu!Goto, SlotInv
  <2>3. CASE pen_pc[c] = "entry"
    <3>1. slot[c].entry # "garbage" /\ Prepared(c)
      BY <1>2, <2>3 DEF SlotInv
    <3> QED
      BY <1>3, <2>3, <3>1 DEF Qemu!Load, Qemu!Goto
  <2> QED
    BY <1>1, <2>1, <2>2, <2>3
<1>5. l \in Place \ {"init"} /\ pen_pc[c] # "init"
  BY <1>1 DEF Place, Qemu!Polling
<1>6. pen_pc'[c] = l
  BY <1>2, <1>4 DEF Qemu!TypeOK
<1>7. Parked(c) /\ Parked(c)' /\ ~Live(c)' /\ Prepared(c)' = Prepared(c)
  BY <1>1, <1>6 DEF Parked, Live, Qemu!Polling, Prepared
<1>8. ASSUME PenDone' <=> PenDone PROVE SlotInv(c)' /\ StateInv(c)'
  BY <1>1, <1>2, <1>4, <1>6, <1>7, <1>8 DEF SlotInv, StateInv, Qemu!PrimaryCore
<1> QED
  BY <1>1, <1>2, <1>4, <1>5, <1>8, QemuOwn, ZenonT(40) DEF Qemu!TypeOK

\* WFE.
LEMMA WfeStep ==
  ASSUME QemuInv, NEW c \in Qemu!Cores, Qemu!Wfe(c)
  PROVE  QemuInv'
<1>1. /\ UNCHANGED <<slot, init, pen_target, pen_affinity_info,
                     per_cpu_powerdown_kinds, awake, pen_panicked>>
      /\ pen_pc[c] \in {"wfe", "asleep"}
      /\ event' \subseteq event
  BY DEF Qemu!Wfe
<1>2. PICK l \in {"magic1", "asleep"} : pen_pc' = [pen_pc EXCEPT ![c] = l]
  BY DEF Qemu!Wfe, Qemu!Goto
<1>3. SlotInv(c) /\ StateInv(c) /\ Qemu!TypeOK /\ pen_panicked = FALSE
  BY ZenonT(40) DEF QemuInv
<1>4. l \in Place \ {"init"} /\ pen_pc[c] # "init"
  BY <1>1 DEF Place, Qemu!Polling
<1>5. pen_pc'[c] = l
  BY <1>2, <1>3 DEF Qemu!TypeOK
<1>6. Parked(c) /\ Parked(c)' /\ ~Live(c)' /\ Prepared(c)' = Prepared(c)
  BY <1>1, <1>5, SMTT(40) DEF Parked, Live, Qemu!Polling, Prepared
<1>7. ASSUME PenDone' <=> PenDone PROVE SlotInv(c)' /\ StateInv(c)'
  BY <1>1, <1>3, <1>5, <1>6, <1>7 DEF SlotInv, StateInv, Qemu!PrimaryCore
<1> QED
  BY <1>1, <1>2, <1>3, <1>4, <1>7, QemuOwn, ZenonT(40) DEF Qemu!TypeOK

\* The entry is taken back before the branch to it.
LEMMA BranchStep ==
  ASSUME QemuInv, NEW c \in Qemu!Cores, Qemu!ResetAndBranch(c)
  PROVE  QemuInv'
<1>1. /\ UNCHANGED <<init, event, pen_target, pen_affinity_info,
                     per_cpu_powerdown_kinds, awake, pen_panicked>>
      /\ pen_pc[c] = "reset" /\ pen_pc' = [pen_pc EXCEPT ![c] = "boot"]
      /\ slot' = [slot EXCEPT ![c].entry = "wait"]
  BY ZenonT(40) DEF Qemu!ResetAndBranch, Qemu!Goto
<1>2. SlotInv(c) /\ StateInv(c) /\ Qemu!TypeOK /\ pen_panicked = FALSE
  BY ZenonT(40) DEF QemuInv
<1>3. /\ slot' \in [Qemu!Cores -> Qemu!HoldSlot]
      /\ slot'[c].entry = "wait"
      /\ \A d \in Qemu!Cores \ {c} : slot'[d] = slot[d]
  BY <1>1, <1>2 DEF Qemu!TypeOK, Qemu!HoldSlot, Qemu!Entry
<1>4. "boot" \in Place \ {"init"} /\ pen_pc[c] # "init"
  BY <1>1 DEF Place
<1>5. pen_pc'[c] = "boot"
  BY <1>1, <1>2 DEF Qemu!TypeOK
<1>6. pen_affinity_info[c] = "OnPending" /\ Prepared(c)
  BY <1>1, <1>2 DEF SlotInv
<1>7. ~Parked(c)' /\ ~Live(c)' /\ Prepared(c)'
  BY <1>1, <1>5, <1>6 DEF Parked, Live, Qemu!Polling, Prepared
<1>8. ASSUME PenDone' <=> PenDone PROVE SlotInv(c)' /\ StateInv(c)'
  BY <1>1, <1>2, <1>3, <1>5, <1>6, <1>7, <1>8 DEF SlotInv, StateInv, Qemu!PrimaryCore
<1> QED
  BY <1>1, <1>2, <1>3, <1>4, <1>8, QemuOwn, ZenonT(40) DEF Qemu!TypeOK

\* plat_hold_pen_signal sends the event.
LEMMA SevStep ==
  ASSUME QemuInv, NEW c \in Qemu!Cores, Qemu!sev(c)
  PROVE  QemuInv'
<1>1. /\ UNCHANGED <<slot, init, pen_affinity_info, per_cpu_powerdown_kinds, awake,
                     pen_panicked>>
      /\ pen_pc[c] = "signal" /\ pen_pc' = [pen_pc EXCEPT ![c] = "run"]
      /\ event' = Qemu!Cores /\ pen_target' = [pen_target EXCEPT ![c] = c]
  BY ZenonT(40) DEF Qemu!sev, Qemu!Goto
<1>2. SlotInv(c) /\ StateInv(c) /\ Qemu!TypeOK /\ pen_panicked = FALSE
  BY ZenonT(40) DEF QemuInv
<1>3. event' \subseteq Qemu!Cores /\ pen_target' \in [Qemu!Cores -> Qemu!Cores]
  BY <1>1, <1>2 DEF Qemu!TypeOK
<1>4. "run" \in Place \ {"init"} /\ pen_pc[c] # "init"
  BY <1>1 DEF Place
<1>5. pen_pc'[c] = "run"
  BY <1>1, <1>2 DEF Qemu!TypeOK
<1>6. ~Parked(c) /\ ~Parked(c)' /\ Live(c) /\ Live(c)' /\ Prepared(c)' = Prepared(c)
  BY <1>1, <1>5, SMTT(40) DEF Parked, Live, Qemu!Polling, Prepared
<1>7. ASSUME PenDone' <=> PenDone PROVE SlotInv(c)' /\ StateInv(c)'
  BY <1>1, <1>2, <1>5, <1>6, <1>7 DEF SlotInv, StateInv, Qemu!PrimaryCore
<1> QED
  BY <1>1, <1>2, <1>3, <1>4, <1>7, QemuOwn, ZenonT(40) DEF Qemu!TypeOK

\* CPU_OFF finds the redistributor awake.
LEMMA OffStep ==
  ASSUME QemuInv, NEW c \in Qemu!Cores, Qemu!power_domain_off(c)
  PROVE  QemuInv'
<1>1. /\ UNCHANGED <<slot, init, event, pen_target>>
      /\ pen_pc[c] = "run" /\ pen_pc' = [pen_pc EXCEPT ![c] = "power_down"]
      /\ pen_panicked' = (c \notin awake) /\ awake' = awake \ {c}
      /\ per_cpu_powerdown_kinds' = [per_cpu_powerdown_kinds EXCEPT ![c] = "Off"]
      /\ pen_affinity_info' = [pen_affinity_info EXCEPT ![c] = "Off"]
  BY ZenonT(40) DEF Qemu!power_domain_off, Qemu!Goto, Qemu!Running
<1>2. SlotInv(c) /\ StateInv(c) /\ Qemu!TypeOK
  BY ZenonT(40) DEF QemuInv
<1>3. /\ per_cpu_powerdown_kinds' \in [Qemu!Cores -> {"Off", "Suspend"}]
      /\ pen_affinity_info' \in [Qemu!Cores -> {"On", "Off", "OnPending"}]
      /\ awake' \subseteq Qemu!Cores /\ c \notin awake'
      /\ per_cpu_powerdown_kinds'[c] = "Off" /\ pen_affinity_info'[c] = "Off"
      /\ \A d \in Qemu!Cores \ {c} :
           /\ pen_affinity_info'[d] = pen_affinity_info[d]
           /\ per_cpu_powerdown_kinds'[d] = per_cpu_powerdown_kinds[d]
           /\ d \in awake' <=> d \in awake
  BY <1>1, <1>2 DEF Qemu!TypeOK
<1>4. "power_down" \in Place \ {"init"} /\ pen_pc[c] # "init"
  BY <1>1 DEF Place
<1>5. pen_pc'[c] = "power_down"
  BY <1>1, <1>2 DEF Qemu!TypeOK
<1>6. ~Parked(c) /\ Parked(c)' /\ Live(c) /\ ~Live(c)' /\ Prepared(c)' = Prepared(c)
  BY <1>1, <1>3, <1>5 DEF Parked, Live, Qemu!Polling, Prepared
<1>7. c \in awake /\ pen_affinity_info[c] = "On"
  BY <1>2, <1>6 DEF StateInv
<1>8. pen_panicked' = FALSE
  BY <1>1, <1>7, ZenonT(40)
<1>9. ASSUME PenDone' <=> PenDone PROVE SlotInv(c)' /\ StateInv(c)'
  BY <1>1, <1>2, <1>3, <1>5, <1>6, <1>7, <1>9 DEF SlotInv, StateInv, Qemu!PrimaryCore
<1> QED
  BY <1>1, <1>2, <1>3, <1>4, <1>8, <1>9, QemuOwn, ZenonT(40) DEF Qemu!TypeOK

\* CPU_SUSPEND to a power down.
LEMMA PenSuspendStep ==
  ASSUME QemuInv, NEW c \in Qemu!Cores, Qemu!power_domain_suspend(c)
  PROVE  QemuInv'
<1>1. /\ UNCHANGED <<slot, init, event, pen_target, pen_affinity_info, awake, pen_panicked>>
      /\ pen_pc[c] = "run" /\ pen_pc' = [pen_pc EXCEPT ![c] = "power_down"]
      /\ per_cpu_powerdown_kinds' = [per_cpu_powerdown_kinds EXCEPT ![c] = "Suspend"]
  BY ZenonT(40) DEF Qemu!power_domain_suspend, Qemu!Goto, Qemu!Running
<1>2. SlotInv(c) /\ StateInv(c) /\ Qemu!TypeOK /\ pen_panicked = FALSE
  BY ZenonT(40) DEF QemuInv
<1>3. /\ per_cpu_powerdown_kinds' \in [Qemu!Cores -> {"Off", "Suspend"}]
      /\ per_cpu_powerdown_kinds'[c] = "Suspend"
      /\ \A d \in Qemu!Cores \ {c} : per_cpu_powerdown_kinds'[d] = per_cpu_powerdown_kinds[d]
  BY <1>1, <1>2 DEF Qemu!TypeOK
<1>4. "power_down" \in Place \ {"init"} /\ pen_pc[c] # "init"
  BY <1>1 DEF Place
<1>5. pen_pc'[c] = "power_down"
  BY <1>1, <1>2 DEF Qemu!TypeOK
<1>6. ~Parked(c) /\ ~Parked(c)' /\ Live(c) /\ Live(c)' /\ Prepared(c)' = Prepared(c)
  BY <1>1, <1>3, <1>5, SMTT(40) DEF Parked, Live, Qemu!Polling, Prepared
<1>7. ASSUME PenDone' <=> PenDone PROVE SlotInv(c)' /\ StateInv(c)'
  BY <1>1, <1>2, <1>3, <1>5, <1>6, <1>7 DEF SlotInv, StateInv, Qemu!PrimaryCore
<1> QED
  BY <1>1, <1>2, <1>3, <1>4, <1>7, QemuOwn, ZenonT(40) DEF Qemu!TypeOK

\* power_domain_power_down parks the core or waits for an interrupt.
LEMMA PowerDownStep ==
  ASSUME QemuInv, NEW c \in Qemu!Cores, Qemu!power_domain_power_down(c)
  PROVE  QemuInv'
<1>1. /\ UNCHANGED <<slot, init, event, pen_target, pen_affinity_info,
                     per_cpu_powerdown_kinds, awake, pen_panicked>>
      /\ pen_pc[c] = "power_down"
  BY ZenonT(40) DEF Qemu!power_domain_power_down
<1>2. SlotInv(c) /\ StateInv(c) /\ Qemu!TypeOK /\ pen_panicked = FALSE
  BY ZenonT(40) DEF QemuInv
<1>3. per_cpu_powerdown_kinds[c] \in {"Off", "Suspend"}
  BY <1>2 DEF Qemu!TypeOK
<1>4. PICK l \in {"magic1", "wfi"} :
        /\ pen_pc' = [pen_pc EXCEPT ![c] = l]
        /\ l = "magic1" <=> per_cpu_powerdown_kinds[c] = "Off"
  BY ZenonT(40) DEF Qemu!power_domain_power_down, Qemu!Goto
<1>5. l \in Place \ {"init"} /\ pen_pc[c] # "init"
  BY <1>1 DEF Place, Qemu!Polling
<1>6. pen_pc'[c] = l
  BY <1>2, <1>4 DEF Qemu!TypeOK
<1>7. (Parked(c)' <=> Parked(c)) /\ (Live(c)' <=> Live(c)) /\ Prepared(c)' = Prepared(c)
  BY <1>1, <1>3, <1>4, <1>6, SMTT(40) DEF Parked, Live, Qemu!Polling, Prepared
<1>8. ASSUME PenDone' <=> PenDone PROVE SlotInv(c)' /\ StateInv(c)'
  BY <1>1, <1>2, <1>6, <1>7, <1>8 DEF SlotInv, StateInv, Qemu!PrimaryCore
<1> QED
  BY <1>1, <1>2, <1>4, <1>5, <1>8, QemuOwn, ZenonT(40) DEF Qemu!TypeOK

\* An interrupt wakes a suspended core.
LEMMA PenWakeStep ==
  ASSUME QemuInv, NEW c \in Qemu!Cores, Qemu!Wake(c)
  PROVE  QemuInv'
<1>1. /\ UNCHANGED <<slot, init, event, pen_target, pen_affinity_info,
                     per_cpu_powerdown_kinds, awake, pen_panicked>>
      /\ pen_pc[c] = "wfi" /\ pen_pc' = [pen_pc EXCEPT ![c] = "boot"]
  BY ZenonT(40) DEF Qemu!Wake, Qemu!Goto
<1>2. SlotInv(c) /\ StateInv(c) /\ Qemu!TypeOK /\ pen_panicked = FALSE
  BY ZenonT(40) DEF QemuInv
<1>3. "boot" \in Place \ {"init"} /\ pen_pc[c] # "init"
  BY <1>1 DEF Place
<1>4. pen_pc'[c] = "boot"
  BY <1>1, <1>2 DEF Qemu!TypeOK
<1>5. Live(c) /\ ~Parked(c) /\ ~Parked(c)' /\ Prepared(c)' = Prepared(c)
  BY <1>1, <1>4, SMTT(40) DEF Parked, Live, Qemu!Polling, Prepared
<1>6. ASSUME PenDone' <=> PenDone PROVE SlotInv(c)' /\ StateInv(c)'
  BY <1>1, <1>2, <1>4, <1>5, <1>6 DEF SlotInv, StateInv, Qemu!PrimaryCore
<1> QED
  BY <1>1, <1>2, <1>3, <1>6, QemuOwn, ZenonT(40) DEF Qemu!TypeOK

\* A core boots only if it was started or suspended, and finds its
\* redistributor asleep or awake accordingly.
LEMMA BootStep ==
  ASSUME QemuInv, NEW c \in Qemu!Cores, Qemu!handle_cpu_boot(c)
  PROVE  QemuInv'
<1>1. /\ UNCHANGED <<slot, init, event, pen_target, per_cpu_powerdown_kinds>>
      /\ pen_pc[c] = "boot" /\ pen_pc' = [pen_pc EXCEPT ![c] = "run"]
      /\ pen_panicked' = (\/ pen_affinity_info[c] = "Off"
                          \/ pen_affinity_info[c] = "OnPending" /\ c \in awake)
      /\ awake' = IF pen_affinity_info[c] = "OnPending" THEN awake \cup {c} ELSE awake
      /\ pen_affinity_info' = [pen_affinity_info EXCEPT ![c] = "On"]
  BY ZenonT(40) DEF Qemu!handle_cpu_boot, Qemu!Goto
<1>2. SlotInv(c) /\ StateInv(c) /\ Qemu!TypeOK
  BY ZenonT(40) DEF QemuInv
<1>3. /\ pen_affinity_info' \in [Qemu!Cores -> {"On", "Off", "OnPending"}]
      /\ awake' \subseteq Qemu!Cores /\ pen_affinity_info'[c] = "On"
      /\ pen_affinity_info[c] \in {"On", "Off", "OnPending"}
      /\ \A d \in Qemu!Cores \ {c} :
           /\ pen_affinity_info'[d] = pen_affinity_info[d]
           /\ d \in awake' <=> d \in awake
  BY <1>1, <1>2 DEF Qemu!TypeOK
<1>4. "run" \in Place \ {"init"} /\ pen_pc[c] # "init"
  BY <1>1 DEF Place
<1>5. pen_pc'[c] = "run"
  BY <1>1, <1>2 DEF Qemu!TypeOK
<1>6. /\ ~Parked(c) /\ ~Parked(c)' /\ Live(c)' /\ Prepared(c)' = Prepared(c)
      /\ Live(c) <=> pen_affinity_info[c] # "OnPending"
  BY <1>1, <1>3, <1>5, SMTT(40) DEF Parked, Live, Qemu!Polling, Prepared
<1>7. /\ pen_affinity_info[c] # "Off" /\ PenDone
      /\ c \in awake <=> pen_affinity_info[c] # "OnPending"
  BY <1>2, <1>6 DEF StateInv
<1>8. pen_panicked' = FALSE
  BY <1>1, <1>7, ZenonT(40)
<1>9. c \in awake'
  BY <1>1, <1>7, SMTT(40)
<1>10. ASSUME PenDone' <=> PenDone PROVE SlotInv(c)' /\ StateInv(c)'
  BY <1>1, <1>2, <1>3, <1>5, <1>6, <1>7, <1>9, <1>10 DEF SlotInv, StateInv, Qemu!PrimaryCore
<1> QED
  BY <1>1, <1>2, <1>3, <1>4, <1>8, <1>10, QemuOwn, ZenonT(40) DEF Qemu!TypeOK

\* CPU_ON writes the entry of a core that is parked.
LEMMA PenOnStep ==
  ASSUME Qemu!CoreCountAssumption, QemuInv, NEW c \in Qemu!Cores, Qemu!CpuOn(c)
  PROVE  QemuInv'
<1>1. PICK t \in Qemu!Cores :
        /\ pen_affinity_info[t] = "Off"
        /\ pen_affinity_info' = [pen_affinity_info EXCEPT ![t] = "OnPending"]
        /\ slot' = [slot EXCEPT ![t].entry = "warm"]
        /\ pen_target' = [pen_target EXCEPT ![c] = t]
  BY ZenonT(40) DEF Qemu!CpuOn
<1>2. /\ UNCHANGED <<init, event, per_cpu_powerdown_kinds, awake, pen_panicked>>
      /\ pen_pc[c] = "run" /\ pen_pc' = [pen_pc EXCEPT ![c] = "signal"]
  BY ZenonT(40) DEF Qemu!CpuOn, Qemu!Goto, Qemu!Running
<1>3. /\ Qemu!TypeOK /\ pen_panicked = FALSE
      /\ \A d \in Qemu!Cores : SlotInv(d) /\ StateInv(d)
  BY ZenonT(40) DEF QemuInv
<1>4. /\ slot' \in [Qemu!Cores -> Qemu!HoldSlot]
      /\ pen_target' \in [Qemu!Cores -> Qemu!Cores]
      /\ pen_affinity_info' \in [Qemu!Cores -> {"On", "Off", "OnPending"}]
      /\ pen_pc \in [Qemu!Cores -> Place] /\ pen_pc' \in [Qemu!Cores -> Place]
  BY <1>1, <1>2, <1>3, SMTT(40) DEF Qemu!TypeOK, Qemu!HoldSlot, Qemu!Entry, Place
<1>5. Qemu!TypeOK'
  BY <1>2, <1>3, <1>4, ZenonT(40) DEF Qemu!TypeOK, Place, Qemu!Cores, Qemu!HoldSlot,
     Qemu!Entry, Qemu!Polling
<1>6. Live(c) /\ pen_affinity_info[c] = "On" /\ c \in awake /\ PenDone
  <2>1. Live(c)
    BY <1>2, ZenonT(40) DEF Live
  <2> QED
    BY <1>3, <2>1, ZenonT(40) DEF StateInv
<1>7. c # t
  BY <1>1, <1>6
<1>8. PenDone'
  <2>1. pen_pc'[c] = "signal" /\ \A d \in Qemu!Cores \ {c} : pen_pc'[d] = pen_pc[d]
    BY <1>2, <1>4
  <2>2. Qemu!PrimaryCore \in Qemu!Cores
    BY SMTT(40) DEF Qemu!CoreCountAssumption, Qemu!PrimaryCore, Qemu!Cores
  <2> QED
    BY <1>6, <2>1, <2>2, SMTT(40) DEF PenDone, Qemu!PrimaryCore
<1>9. SlotInv(c)' /\ StateInv(c)'
  <2>1. /\ pen_pc'[c] = "signal" /\ slot'[c] = slot[c]
        /\ pen_affinity_info'[c] = pen_affinity_info[c]
    BY <1>1, <1>2, <1>3, <1>4, <1>7, SMTT(40) DEF Qemu!TypeOK
  <2>2. ~Parked(c) /\ ~Parked(c)' /\ Live(c)' /\ Prepared(c)' = Prepared(c)
    BY <1>2, <2>1, SMTT(40) DEF Parked, Live, Qemu!Polling, Prepared
  <2> QED
    BY <1>2, <1>3, <1>6, <1>8, <2>1, <2>2 DEF SlotInv, StateInv, Qemu!PrimaryCore
<1>10. SlotInv(t)' /\ StateInv(t)'
  <2>1. /\ pen_pc'[t] = pen_pc[t] /\ slot'[t].entry = "warm"
        /\ slot'[t].magic1 = slot[t].magic1 /\ slot'[t].magic2 = slot[t].magic2
        /\ pen_affinity_info'[t] = "OnPending"
    BY <1>1, <1>2, <1>3, <1>4, <1>7 DEF Qemu!TypeOK, Qemu!HoldSlot
  <2>2. ~Live(t) /\ pen_pc[t] \notin {"init", "reset"} /\ pen_pc[t] \in Place \ {"garbage"}
    BY <1>1, <1>3, <1>4 DEF SlotInv, StateInv
  <2>3. per_cpu_powerdown_kinds[t] \in {"Off", "Suspend"}
    BY <1>3 DEF Qemu!TypeOK
  <2>4. pen_pc[t] # "boot"
    BY <1>1, <2>2 DEF Live
  <2>5. Parked(t)
    BY <2>2, <2>3, <2>4, SMTT(40) DEF Parked, Live, Place
  <2>6. Parked(t)' /\ ~Live(t)' /\ Prepared(t)' = Prepared(t)
    BY <1>2, <2>1, <2>2, <2>4, <2>5 DEF Parked, Live, Qemu!Polling, Prepared
  <2> QED
    BY <1>2, <1>3, <1>8, <2>1, <2>2, <2>5, <2>6, SMTT(40) DEF SlotInv, StateInv, Qemu!PrimaryCore
<1>11. ASSUME NEW d \in Qemu!Cores \ {c, t} PROVE SlotInv(d)' /\ StateInv(d)'
  <2>1. /\ pen_pc'[d] = pen_pc[d] /\ slot'[d] = slot[d]
        /\ pen_affinity_info'[d] = pen_affinity_info[d]
    BY <1>1, <1>2, <1>3, <1>4 DEF Qemu!TypeOK
  <2> QED
    BY <1>2, <1>3, <1>8, <2>1, QemuFrame, ZenonT(40)
<1>12. \A d \in Qemu!Cores : SlotInv(d)' /\ StateInv(d)'
  BY <1>9, <1>10, <1>11, ZenonT(40)
<1>13. init.core = CORE_COUNT
  BY <1>6 DEF QemuInv
<1>14. Qemu!Cores' = Qemu!Cores
  BY DEF Qemu!Cores
<1> QED
  BY <1>2, <1>3, <1>5, <1>12, <1>13, <1>14, ZenonT(40) DEF QemuInv

\* plat_hold_pen_init writes the entry of a slot before the magic numbers that
\* make it valid.
LEMMA PenInitStep ==
  ASSUME Qemu!CoreCountAssumption, QemuInv, Qemu!plat_hold_pen_init
  PROVE  QemuInv'
<1>1. /\ UNCHANGED <<event, pen_target, pen_affinity_info, per_cpu_powerdown_kinds,
                     pen_panicked>>
      /\ pen_pc[0] = "init"
  BY ZenonT(40) DEF Qemu!plat_hold_pen_init, Qemu!PrimaryCore
<1>2. /\ Qemu!TypeOK /\ pen_panicked = FALSE
      /\ \A d \in Qemu!Cores : SlotInv(d) /\ StateInv(d)
  BY ZenonT(40) DEF QemuInv
<1>3. 0 \in Qemu!Cores /\ Qemu!Cores' = Qemu!Cores /\ Qemu!PrimaryCore = 0
  BY DEF Qemu!CoreCountAssumption, Qemu!Cores, Qemu!PrimaryCore
<1>4. /\ pen_pc \in [Qemu!Cores -> Place] /\ awake \subseteq Qemu!Cores
      /\ slot \in [Qemu!Cores -> Qemu!HoldSlot]
      /\ init \in [core : 0 .. CORE_COUNT, step : {"entry", "magic1", "magic2"}]
  BY <1>2 DEF Qemu!TypeOK, Place
<1>5. CASE init.core = CORE_COUNT
  <2>1. /\ pen_pc' = [pen_pc EXCEPT ![0] = "run"] /\ awake' = awake \cup {0}
        /\ UNCHANGED <<slot, init>>
    BY <1>3, <1>5, ZenonT(40) DEF Qemu!plat_hold_pen_init, Qemu!Goto
  <2>2. /\ pen_pc' \in [Qemu!Cores -> Place] /\ pen_pc'[0] = "run" /\ awake' \subseteq Qemu!Cores
        /\ \A d \in Qemu!Cores \ {0} :
             pen_pc'[d] = pen_pc[d] /\ (d \in awake' <=> d \in awake)
        /\ 0 \in awake'
    BY <1>3, <1>4, <2>1 DEF Place
  <2>3. Qemu!TypeOK'
    BY <1>1, <1>2, <2>1, <2>2, ZenonT(40) DEF Qemu!TypeOK, Place, Qemu!Cores, Qemu!HoldSlot,
       Qemu!Entry, Qemu!Polling
  <2>4. PenDone'
    BY <1>3, <2>2, SMTT(40) DEF PenDone, Qemu!PrimaryCore
  <2>5. SlotInv(0)' /\ StateInv(0)'
    <3>1. pen_affinity_info[0] = "On" /\ SlotInv(0)
      BY <1>1, <1>2, <1>3, ZenonT(40) DEF StateInv
    <3>2. ~Parked(0) /\ ~Parked(0)' /\ Live(0)' /\ Prepared(0)' = Prepared(0)
      BY <1>1, <2>1, <2>2 DEF Parked, Live, Qemu!Polling, Prepared
    <3> QED
      BY <1>1, <2>1, <2>2, <2>4, <3>1, <3>2 DEF SlotInv, StateInv
  <2>6. ASSUME NEW d \in Qemu!Cores \ {0} PROVE SlotInv(d)' /\ StateInv(d)'
    BY <1>1, <1>2, <2>1, <2>2, <2>4, QemuFrame, ZenonT(40)
  <2>7. \A d \in Qemu!Cores : SlotInv(d)' /\ StateInv(d)'
    BY <2>5, <2>6, ZenonT(40)
  <2> QED
    BY <1>1, <1>2, <1>3, <1>5, <2>1, <2>3, <2>7, ZenonT(40) DEF QemuInv
<1>6. CASE init.core # CORE_COUNT
  <2>0. PICK i \in Nat : i = init.core
    BY <1>4 DEF Qemu!CoreCountAssumption
  <2>1. /\ i = init.core /\ i \in Qemu!Cores /\ i \in Nat
        /\ init.step \in {"entry", "magic1", "magic2"}
    BY <1>4, <1>6, <2>0 DEF Qemu!CoreCountAssumption, Qemu!Cores
  <2>2. UNCHANGED <<pen_pc, awake>> /\ ~PenDone /\ ~PenDone'
    BY <1>1, <1>3, <1>6, ZenonT(40) DEF Qemu!plat_hold_pen_init, PenDone
  <2>3. \/ /\ init.step = "entry" /\ init' = [core |-> i, step |-> "magic1"]
           /\ slot' = [slot EXCEPT ![i].entry = "wait"]
        \/ /\ init.step = "magic1" /\ init' = [core |-> i, step |-> "magic2"]
           /\ slot' = [slot EXCEPT ![i].magic1 = TRUE]
        \/ /\ init.step = "magic2" /\ init' = [core |-> i + 1, step |-> "entry"]
           /\ slot' = [slot EXCEPT ![i].magic2 = TRUE]
    BY <1>6, <2>1 DEF Qemu!plat_hold_pen_init, Qemu!InitOrder
  <2>4. /\ slot' \in [Qemu!Cores -> Qemu!HoldSlot]
        /\ \A d \in Qemu!Cores \ {i} : slot'[d] = slot[d]
    <3>1. slot[i] \in Qemu!HoldSlot
      BY <1>4, <2>1
    <3>2. PICK s \in Qemu!HoldSlot : slot' = [slot EXCEPT ![i] = s]
      <4>1. CASE init.step = "entry"
        BY <2>3, <3>1, <4>1 DEF Qemu!HoldSlot, Qemu!Entry
      <4>2. CASE init.step = "magic1"
        BY <2>3, <3>1, <4>2, ZenonT(40) DEF Qemu!HoldSlot, Qemu!Entry
      <4>3. CASE init.step = "magic2"
        BY <2>3, <3>1, <4>3, ZenonT(40) DEF Qemu!HoldSlot, Qemu!Entry
      <4> QED
        BY <2>1, <4>1, <4>2, <4>3
    <3> QED
      BY <1>4, <2>1, <3>2
  <2>5. init' \in [core : 0 .. CORE_COUNT, step : {"entry", "magic1", "magic2"}]
    BY <1>4, <1>6, <2>1, <2>3 DEF Qemu!CoreCountAssumption
  <2>6. Qemu!TypeOK'
    BY <1>1, <1>2, <2>2, <2>4, <2>5, ZenonT(40) DEF Qemu!TypeOK, Place, Qemu!Cores,
       Qemu!HoldSlot, Qemu!Entry, Qemu!Polling
  <2>7. ASSUME NEW d \in Qemu!Cores
        PROVE  /\ Parked(d)' <=> Parked(d)
               /\ Live(d)' <=> Live(d)
               /\ d # i => (Prepared(d)' <=> Prepared(d))
    <3>1. d \in Int
      BY DEF Qemu!Cores
    <3>2. (Parked(d)' <=> Parked(d)) /\ (Live(d)' <=> Live(d))
      BY <1>1, <2>2 DEF Parked, Live, Qemu!Polling
    <3>3. d # i => (Prepared(d)' <=> Prepared(d))
      BY <2>1, <2>3, <3>1 DEF Prepared
    <3> QED
      BY <3>2, <3>3
  <2>8. ASSUME NEW d \in Qemu!Cores PROVE StateInv(d)'
    BY <1>1, <1>2, <2>2, <2>7, ZenonT(40) DEF StateInv, Qemu!PrimaryCore
  <2>9. ASSUME NEW d \in Qemu!Cores, d # i PROVE SlotInv(d)'
    BY <1>1, <1>2, <2>2, <2>4, <2>7, <2>9, ZenonT(40) DEF SlotInv
  <2>10. SlotInv(i)'
    <3>1. Prepared(i)' /\ (init.step # "entry" => Prepared(i))
      BY <2>1, <2>3 DEF Prepared
    <3>2. /\ init.step = "entry" => slot'[i].entry = "wait" /\ slot'[i].magic1 = slot[i].magic1
          /\ init.step # "entry" => slot'[i].entry = slot[i].entry
          /\ slot[i].magic1 => slot'[i].magic1
      BY <1>4, <2>1, <2>3 DEF Qemu!HoldSlot
    <3>3. SlotInv(i) /\ (Parked(i)' <=> Parked(i))
      BY <1>2, <2>1, <2>7
    <3> QED
      BY <1>1, <2>2, <3>1, <3>2, <3>3 DEF SlotInv
  <2>11. \A d \in Qemu!Cores : SlotInv(d)' /\ StateInv(d)'
    BY <2>8, <2>9, <2>10, ZenonT(40)
  <2> QED
    BY <1>1, <1>2, <1>3, <2>2, <2>6, <2>11, ZenonT(40) DEF QemuInv
<1> QED
  BY <1>5, <1>6

\* Every step of the QEMU platform keeps the invariant.
LEMMA QemuStep ==
  ASSUME Qemu!CoreCountAssumption, QemuInv, [Qemu!Next]_Qemu!vars
  PROVE  QemuInv'
<1>1. CASE UNCHANGED Qemu!vars
  <2>1. UNCHANGED <<slot, pen_pc, init, event, pen_target, pen_affinity_info,
                    per_cpu_powerdown_kinds, awake, pen_panicked>>
    BY <1>1 DEF Qemu!vars
  <2>2. \A d \in Qemu!Cores : SlotInv(d)' /\ StateInv(d)'
    BY <2>1, QemuFrame, ZenonT(40) DEF QemuInv, PenDone
  <2>3. Qemu!TypeOK' /\ Qemu!Cores' = Qemu!Cores /\ (PenDone' <=> PenDone)
    BY <2>1, ZenonT(40) DEF QemuInv, Qemu!TypeOK, PenDone, Qemu!Cores, Qemu!HoldSlot, Qemu!Entry,
       Qemu!Polling, Qemu!PrimaryCore
  <2> QED
    BY <2>1, <2>2, <2>3, ZenonT(40) DEF QemuInv
<1>2. CASE Qemu!plat_hold_pen_init
  BY <1>2, PenInitStep
<1>3. ASSUME NEW c \in Qemu!Cores, Qemu!Handlers(c) PROVE QemuInv'
  BY <1>3, SevStep, LoadStep, WfeStep, BranchStep, PowerDownStep, BootStep DEF Qemu!Handlers
<1>4. ASSUME NEW c \in Qemu!Cores,
             \/ Qemu!CpuOn(c) \/ Qemu!power_domain_off(c)
             \/ Qemu!power_domain_suspend(c) \/ Qemu!Wake(c)
      PROVE  QemuInv'
  BY <1>4, PenOnStep, OffStep, PenSuspendStep, PenWakeStep
<1> QED
  BY <1>1, <1>2, <1>3, <1>4, ZenonT(40) DEF Qemu!Next

\* On the QEMU platform, with any number of cores and whatever the hold pen
\* holds at reset, no core leaves the pen for an address that CPU_ON did not
\* write, boots without being started, or trips over its GIC interface.
THEOREM QemuNeverPanics ==
  ASSUME Qemu!CoreCountAssumption PROVE Qemu!Spec => []Qemu!NoPanic
<1>1. Qemu!Init => QemuInv
  BY QemuStarts
<1>2. QemuInv /\ [Qemu!Next]_Qemu!vars => QemuInv'
  BY QemuStep
<1>3. QemuInv => Qemu!NoPanic
  BY ZenonT(40) DEF QemuInv, StateInv, Qemu!NoPanic
<1> QED
  BY <1>1, <1>2, <1>3, PTL DEF Qemu!Spec

-----------------------------------------------------------------------------
(* The CPUs: errata, and the hooks around a power down.                    *)

\* What the list of errata looks like.
Versions == (0 .. 15) \X (0 .. 15)
IchVmcr == {3300099, 3658374, 3773617}

\* An entry that names versions that fit its fields, and is of a kind that
\* something in EL3 works around.
GoodEntry(e) ==
  /\ e.apply_from \in Versions
  /\ e.fixed_in \in Versions \cup {Cpu!NOT_FIXED}
  /\ e.apply_on = "Reset" \/ e.id \in IchVmcr \cup {3686597}
  /\ e.id \in Nat \ {0}

\* Every entry of ERRATA_LIST is one.
LEMMA EntryShape ==
  ASSUME NEW e \in Cpu!Errata
  PROVE  GoodEntry(e)
<1>1. PICK i \in DOMAIN Cpu!ERRATA_LIST : e = Cpu!ERRATA_LIST[i]
  BY DEF Cpu!Errata
<1>2. i \in 1 .. 14
  BY DEF Cpu!ERRATA_LIST
<1>3. \/ e = Cpu!Erratum3300099 \/ e = Cpu!Erratum3773617 \/ e = Cpu!Erratum3619847
      \/ e = Cpu!Erratum3686597 \/ e = Cpu!Erratum3694158 \/ e = Cpu!Erratum3684268
      \/ e = Cpu!Erratum3706576 \/ e = Cpu!Erratum3658374 \/ e = Cpu!Erratum3705939
      \/ e = Cpu!Erratum3815514 \/ e = Cpu!Erratum3865171 \/ e = Cpu!Erratum3926381
      \/ e = Cpu!Erratum4102704 \/ e = Cpu!DsuErratum3396010
  BY <1>1, <1>2, SMTT(40) DEF Cpu!ERRATA_LIST
<1>4. GoodEntry(Cpu!Erratum3300099)
  BY SMTT(40) DEF GoodEntry, Versions, IchVmcr, Cpu!NOT_FIXED, Cpu!Erratum, Cpu!Erratum3300099
<1>5. GoodEntry(Cpu!Erratum3773617)
  BY SMTT(40) DEF GoodEntry, Versions, IchVmcr, Cpu!NOT_FIXED, Cpu!Erratum, Cpu!Erratum3773617
<1>6. GoodEntry(Cpu!Erratum3619847)
  BY SMTT(40) DEF GoodEntry, Versions, IchVmcr, Cpu!NOT_FIXED, Cpu!Erratum, Cpu!Erratum3619847
<1>7. GoodEntry(Cpu!Erratum3686597)
  BY SMTT(40) DEF GoodEntry, Versions, IchVmcr, Cpu!NOT_FIXED, Cpu!Erratum, Cpu!Erratum3686597
<1>8. GoodEntry(Cpu!Erratum3694158)
  BY SMTT(40) DEF GoodEntry, Versions, IchVmcr, Cpu!NOT_FIXED, Cpu!Erratum, Cpu!Erratum3694158
<1>9. GoodEntry(Cpu!Erratum3684268)
  BY SMTT(40) DEF GoodEntry, Versions, IchVmcr, Cpu!NOT_FIXED, Cpu!Erratum, Cpu!Erratum3684268
<1>10. GoodEntry(Cpu!Erratum3706576)
  BY SMTT(40) DEF GoodEntry, Versions, IchVmcr, Cpu!NOT_FIXED, Cpu!Erratum, Cpu!Erratum3706576
<1>11. GoodEntry(Cpu!Erratum3658374)
  BY SMTT(40) DEF GoodEntry, Versions, IchVmcr, Cpu!NOT_FIXED, Cpu!Erratum, Cpu!Erratum3658374
<1>12. GoodEntry(Cpu!Erratum3705939)
  BY SMTT(40) DEF GoodEntry, Versions, IchVmcr, Cpu!NOT_FIXED, Cpu!Erratum, Cpu!Erratum3705939
<1>13. GoodEntry(Cpu!Erratum3815514)
  BY SMTT(40) DEF GoodEntry, Versions, IchVmcr, Cpu!NOT_FIXED, Cpu!Erratum, Cpu!Erratum3815514
<1>14. GoodEntry(Cpu!Erratum3865171)
  BY SMTT(40) DEF GoodEntry, Versions, IchVmcr, Cpu!NOT_FIXED, Cpu!Erratum, Cpu!Erratum3865171
<1>15. GoodEntry(Cpu!Erratum3926381)
  BY SMTT(40) DEF GoodEntry, Versions, IchVmcr, Cpu!NOT_FIXED, Cpu!Erratum, Cpu!Erratum3926381
<1>16. GoodEntry(Cpu!Erratum4102704)
  BY SMTT(40) DEF GoodEntry, Versions, IchVmcr, Cpu!NOT_FIXED, Cpu!Erratum, Cpu!Erratum4102704
<1>17. GoodEntry(Cpu!DsuErratum3396010)
  BY SMTT(40) DEF GoodEntry, Versions, IchVmcr, Cpu!NOT_FIXED, Cpu!Erratum, Cpu!DsuErratum3396010
<1> QED
  BY <1>3, <1>4, <1>5, <1>6, <1>7, <1>8, <1>9, <1>10, <1>11, <1>12, <1>13,
     <1>14, <1>15, <1>16, <1>17, ZenonT(40)

\* No two entries have the same number.
LEMMA EntryIds ==
  ASSUME NEW i \in DOMAIN Cpu!ERRATA_LIST, NEW j \in DOMAIN Cpu!ERRATA_LIST,
         Cpu!ERRATA_LIST[i].id = Cpu!ERRATA_LIST[j].id
  PROVE  i = j
<1>1. i \in 1 .. 14 /\ j \in 1 .. 14
  BY DEF Cpu!ERRATA_LIST
<1> QED
  BY <1>1, SMTT(60)
  DEF Cpu!ERRATA_LIST, Cpu!Erratum,
      Cpu!Erratum3300099, Cpu!Erratum3773617, Cpu!Erratum3619847, Cpu!Erratum3686597,
      Cpu!Erratum3694158, Cpu!Erratum3684268, Cpu!Erratum3706576, Cpu!Erratum3658374,
      Cpu!Erratum3705939, Cpu!Erratum3815514, Cpu!Erratum3865171, Cpu!Erratum3926381,
      Cpu!Erratum4102704, Cpu!DsuErratum3396010

\* The comparison of packed versions is the order of RevisionVariant.
LEMMA PackedOrder ==
  ASSUME NEW v \in Versions, NEW w \in Versions \cup {Cpu!NOT_FIXED}
  PROVE  (Cpu!Packed(v) < Cpu!Packed(w)) <=> Cpu!Before(v, w)
<1>1. PICK a \in 0 .. 15, b \in 0 .. 15 : v = <<a, b>>
  BY DEF Versions
<1>2. v # Cpu!NOT_FIXED /\ Cpu!Packed(v) = 16 * a + b
  BY <1>1 DEF Cpu!NOT_FIXED, Cpu!Packed
<1>3. CASE w = Cpu!NOT_FIXED
  <2>1. Cpu!Packed(w) = 4095
    BY <1>3, ZenonT(40) DEF Cpu!Packed
  <2>2. Cpu!Before(v, w)
    BY <1>1, <1>3, SMTT(40) DEF Cpu!Before, Cpu!NOT_FIXED
  <2> QED
    BY <1>2, <2>1, <2>2, SMTT(40)
<1>4. CASE w \in Versions
  <2>1. PICK c \in 0 .. 15, d \in 0 .. 15 : w = <<c, d>>
    BY <1>4 DEF Versions
  <2>2. Cpu!Packed(w) = 16 * c + d
    BY <2>1 DEF Cpu!NOT_FIXED, Cpu!Packed
  <2>3. Cpu!Before(v, w) <=> a < c \/ (a = c /\ b < d)
    BY <1>1, <2>1 DEF Cpu!Before
  <2> QED
    BY <1>2, <2>2, <2>3, SMTT(40)
<1> QED
  BY <1>3, <1>4

\* A packed version is a number.
LEMMA PackedNat ==
  ASSUME NEW w \in Versions \cup {Cpu!NOT_FIXED}
  PROVE  Cpu!Packed(w) \in Nat
BY DEF Versions, Cpu!Packed

\* The core as MIDR_EL1 and CLUSTERIDR_EL1 describe it.
MidrType ==
  midr \in [part : Cpu!CPU_OPS \cup {"Other"}, revision : REV, variant : REV,
            clusteridr : {0, 1}]

\* The check of an erratum finds the affected versions.
LEMMA CheckIsAffected ==
  ASSUME Cpu!RevisionAssumption, MidrType, NEW e \in Cpu!Errata
  PROVE  Cpu!check(e) <=> Cpu!Affected(e)
<1> DEFINE v == <<midr.revision, midr.variant>>
<1>1. v \in Versions
  BY ZenonT(40) DEF Cpu!RevisionAssumption, MidrType, Versions
<1>2. e.apply_from \in Versions /\ e.fixed_in \in Versions \cup {Cpu!NOT_FIXED}
  BY EntryShape, SMTT(40) DEF GoodEntry
<1>3. /\ (Cpu!Packed(v) < Cpu!Packed(e.fixed_in)) <=> Cpu!Before(v, e.fixed_in)
      /\ (Cpu!Packed(v) < Cpu!Packed(e.apply_from)) <=> Cpu!Before(v, e.apply_from)
  BY <1>1, <1>2, PackedOrder
<1>4. Cpu!Packed(v) \in Nat /\ Cpu!Packed(e.apply_from) \in Nat
  BY <1>1, <1>2, PackedNat, SMTT(40)
<1>5. (Cpu!Packed(v) >= Cpu!Packed(e.apply_from)) <=> ~Cpu!Before(v, e.apply_from)
  BY <1>3, <1>4
<1>6. CASE e.part = "Dsu"
  <2>1. midr.clusteridr <= 0 <=> midr.clusteridr = 0
    BY DEF MidrType
  <2> QED
    BY <1>6, <2>1 DEF Cpu!check, Cpu!DsuCheck, Cpu!Affected
<1>7. CASE e.part # "Dsu"
  BY <1>3, <1>5, <1>7 DEF Cpu!check, Cpu!implement_erratum_check, Cpu!Affected
<1> QED
  BY <1>6, <1>7

\* The core runs, or is on its way down.
Booted == core_pc \in {"run", "wfi", "powering_down"}

\* CORE_PWRDN_EN: a reset may leave it set, but only on a CPU whose handler
\* clears it.
PowerInv ==
  /\ Booted => midr.part \in Cpu!CPU_OPS
  /\ core_pc \in {"run", "wfi"} => pwrdn = FALSE
  /\ midr.part \notin {"C1Pro", "C1Ultra"} => pwrdn = FALSE

\* The workarounds of a core that booted, and the answer that it last gave.
Answered ==
  \A e \in Cpu!Errata : answer.id = e.id =>
    /\ answer.status = "HigherElMitigation" => Cpu!check(e)
    /\ answer.status = "NotAffected" => ~Cpu!check(e)
    /\ answer.status # "UnknownErratum"
ReportInv ==
  /\ MidrType
  /\ Booted => Cpu!apply_reset_errata \subseteq patched
  /\ answer.id # 0 => core_pc = "run"
  /\ Answered

\* After reset nothing is reported yet, and CORE_PWRDN_EN is clear.
LEMMA CpuStarts ==
  ASSUME Cpu!Init
  PROVE  PowerInv /\ ReportInv
<1>1. /\ core_pc = "reset" /\ pwrdn = FALSE /\ answer.id = 0 /\ MidrType
  BY DEF Cpu!Init, Cpu!NoAnswer, MidrType
<1>2. Answered
  BY <1>1, EntryShape, SMTT(40) DEF Answered, GoodEntry
<1> QED
  BY <1>1, <1>2 DEF PowerInv, ReportInv, Booted

\* A boot, an abandoned power down and the default hooks leave CORE_PWRDN_EN clear.
LEMMA PowerStep ==
  ASSUME PowerInv, [Cpu!Next]_Cpu!vars
  PROVE  PowerInv'
<1>1. CASE UNCHANGED Cpu!vars
  BY <1>1 DEF PowerInv, Booted, Cpu!vars, Cpu!CPU_OPS
<1>2. CASE Cpu!Boot
  <2>1. CASE Cpu!find_cpu_ops = {}
    BY <1>2, <2>1 DEF PowerInv, Booted, Cpu!Boot, Cpu!CPU_OPS
  <2>2. CASE Cpu!find_cpu_ops # {}
    <3>1. midr.part \in Cpu!CPU_OPS
      BY <2>2 DEF Cpu!find_cpu_ops
    <3>2. midr' = midr /\ core_pc' = "run" /\ pwrdn' = Cpu!reset_handler(pwrdn)
      BY <1>2, <2>2, ZenonT(40) DEF Cpu!Boot
    <3>3. Cpu!reset_handler(pwrdn) = FALSE
      BY DEF PowerInv, Cpu!reset_handler, Cpu!C1ProReset, Cpu!C1UltraReset
    <3> QED
      BY <3>1, <3>2, <3>3 DEF PowerInv, Booted, Cpu!CPU_OPS
  <2> QED
    BY <2>1, <2>2
<1>3. ASSUME NEW l \in 0 .. 2, Cpu!cpu_power_down(l) PROVE PowerInv'
  <2>1. /\ midr' = midr /\ core_pc = "run" /\ core_pc' = "powering_down"
        /\ pwrdn' = Cpu!PowerDownHook(l).pwrdn
    BY <1>3 DEF Cpu!cpu_power_down
  <2>2. midr.part \in Cpu!CPU_OPS
    BY <2>1 DEF PowerInv, Booted
  <2>3. midr.part \notin {"C1Pro", "C1Ultra"} => Cpu!PowerDownHook(l).pwrdn = FALSE
    BY <2>2 DEF Cpu!CPU_OPS, Cpu!PowerDownHook, Cpu!QemuMaxPowerDown, Cpu!AemPowerDown
  <2> QED
    BY <2>1, <2>2, <2>3 DEF PowerInv, Booted, Cpu!CPU_OPS
<1>4. CASE Cpu!PowerOff
  BY <1>4, ZenonT(40) DEF PowerInv, Booted, Cpu!PowerOff, Cpu!CPU_OPS
<1>5. CASE Cpu!Abandon
  BY <1>5, SMTT(40) DEF PowerInv, Booted, Cpu!Abandon, Cpu!handle_power_down_abandon, Cpu!CPU_OPS
<1>6. CASE Cpu!Standby
  BY <1>6 DEF PowerInv, Booted, Cpu!Standby, Cpu!CPU_OPS
<1>7. ASSUME NEW id, NEW f, NEW o, NEW r, Cpu!Ask(id, f, o, r) PROVE PowerInv'
  BY <1>7 DEF PowerInv, Booted, Cpu!Ask, Cpu!CPU_OPS
<1> QED
  BY <1>1, <1>2, <1>3, <1>4, <1>5, <1>6, <1>7, ZenonT(40) DEF Cpu!Next

\* Nothing changes what the core is.
LEMMA SameChecks ==
  ASSUME midr' = midr
  PROVE  /\ \A e : Cpu!check(e)' <=> Cpu!check(e)
         /\ Cpu!apply_reset_errata' = Cpu!apply_reset_errata
         /\ MidrType => MidrType'
<1>1. \A e : Cpu!check(e)' <=> Cpu!check(e)
  BY ZenonT(40) DEF Cpu!check, Cpu!DsuCheck, Cpu!implement_erratum_check
<1>2. Cpu!apply_reset_errata' = Cpu!apply_reset_errata
  BY <1>1, ZenonT(40) DEF Cpu!apply_reset_errata, Cpu!ERRATA_LIST
<1>3. MidrType => MidrType'
  BY ZenonT(40) DEF MidrType, Cpu!CPU_OPS
<1> QED
  BY <1>1, <1>2, <1>3

\* What EM_CPU_ERRATUM_FEATURES answers.
LEMMA AnswerRight ==
  ASSUME NEW id, NEW f, NEW o, NEW r, NEW e \in Cpu!Errata, e.id = id,
         NEW s, s = Cpu!cpu_erratum_features(id, f, o, r)
  PROVE  /\ s = "HigherElMitigation" => Cpu!check(e)
         /\ s = "NotAffected" => ~Cpu!check(e)
         /\ s # "UnknownErratum"
<1> DEFINE known == {i \in DOMAIN Cpu!ERRATA_LIST : Cpu!ERRATA_LIST[i].id = id}
           first == CHOOSE i \in known : \A j \in known : i <= j
<1>1. PICK k \in DOMAIN Cpu!ERRATA_LIST : e = Cpu!ERRATA_LIST[k]
  BY DEF Cpu!Errata
<1>2. known = {k}
  BY <1>1, EntryIds
<1>3. k \in Int
  BY <1>1 DEF Cpu!ERRATA_LIST
<1>4. first = k
  BY <1>2, <1>3
<1>5. s \in {"InvalidParameters", IF Cpu!check(Cpu!ERRATA_LIST[first]) THEN "HigherElMitigation"
                                  ELSE "NotAffected"}
  <2>1. known # {}
    BY <1>2
  <2> QED
    BY <2>1, SMTT(40) DEF Cpu!cpu_erratum_features
<1> QED
  BY <1>1, <1>4, <1>5, ZenonT(40)

\* A step that leaves the answer alone, or takes it back, and the workarounds
\* of a core that is up.
LEMMA ReportKept ==
  ASSUME ReportInv, midr' = midr, answer' = answer \/ answer' = Cpu!NoAnswer,
         answer'.id # 0 => core_pc' = "run",
         Booted' => Cpu!apply_reset_errata \subseteq patched'
  PROVE  ReportInv'
<1>1. MidrType' /\ Cpu!apply_reset_errata' = Cpu!apply_reset_errata
  BY SameChecks, ZenonT(40) DEF ReportInv
<1>2. Answered'
  <2>1. Cpu!Errata' = Cpu!Errata
    BY ZenonT(40) DEF Cpu!Errata
  <2>2. CASE answer' = answer
    BY <2>1, <2>2, SameChecks, ZenonT(40) DEF ReportInv, Answered
  <2>3. CASE answer' = Cpu!NoAnswer
    <3>1. answer'.id = 0
      BY <2>3, SMTT(40) DEF Cpu!NoAnswer
    <3> QED
      BY <2>1, <3>1, EntryShape, SMTT(40) DEF Answered, GoodEntry
  <2> QED
    BY <2>2, <2>3
<1> QED
  BY <1>1, <1>2, ZenonT(40) DEF ReportInv

\* Each boot applies what the last one did, and a report ends with the next WFI.
LEMMA ReportStep ==
  ASSUME ReportInv, [Cpu!Next]_Cpu!vars
  PROVE  ReportInv'
<1>0. Cpu!NoAnswer.id = 0
  BY DEF Cpu!NoAnswer
<1>1. CASE UNCHANGED Cpu!vars
  BY <1>1, ReportKept DEF ReportInv, Booted, Cpu!vars
<1>2. CASE Cpu!Boot
  <2>1. /\ midr' = midr /\ answer' = answer /\ core_pc = "reset"
        /\ core_pc' = "panic" \/ patched' = Cpu!apply_reset_errata
    BY <1>2, ZenonT(40) DEF Cpu!Boot
  <2>2. ~(answer'.id # 0)
    BY <2>1 DEF ReportInv
  <2>3. Booted' => Cpu!apply_reset_errata \subseteq patched'
    BY <2>1, SMTT(40) DEF Booted
  <2> QED
    BY <2>1, <2>2, <2>3, ReportKept
<1>3. ASSUME NEW l \in 0 .. 2, Cpu!cpu_power_down(l) PROVE ReportInv'
  <2>1. /\ midr' = midr /\ answer' = Cpu!NoAnswer /\ core_pc = "run"
        /\ patched' = patched \cup Cpu!PowerDownHook(l).sets
    BY <1>3, ZenonT(40) DEF Cpu!cpu_power_down
  <2>2. Cpu!apply_reset_errata \subseteq patched'
    BY <2>1, SMTT(40) DEF ReportInv, Booted
  <2> QED
    BY <1>0, <2>1, <2>2, ReportKept
<1>4. CASE Cpu!PowerOff
  <2>1. /\ midr' = midr /\ answer' = answer /\ core_pc = "powering_down"
        /\ core_pc' = "reset"
    BY <1>4 DEF Cpu!PowerOff
  <2> QED
    BY <2>1, ReportKept DEF ReportInv, Booted
<1>5. CASE Cpu!Abandon
  <2>1. /\ midr' = midr /\ answer' = answer /\ core_pc = "powering_down"
        /\ patched' = patched /\ core_pc' = "run"
    BY <1>5, ZenonT(40) DEF Cpu!Abandon
  <2> QED
    BY <2>1, ReportKept DEF ReportInv, Booted
<1>6. CASE Cpu!Standby
  <2>1. /\ midr' = midr /\ answer' = Cpu!NoAnswer /\ core_pc \in {"run", "wfi"}
        /\ patched' = patched
    BY <1>6, ZenonT(40) DEF Cpu!Standby
  <2> QED
    BY <1>0, <2>1, ReportKept DEF ReportInv, Booted
<1>7. ASSUME NEW id, NEW f, NEW o, NEW r, Cpu!Ask(id, f, o, r) PROVE ReportInv'
  <2> DEFINE s == Cpu!cpu_erratum_features(id, f, o, r)
  <2>1. /\ midr' = midr /\ core_pc = "run" /\ core_pc' = "run" /\ patched' = patched
        /\ answer' = [id |-> id, status |-> s]
    BY <1>7, ZenonT(40) DEF Cpu!Ask
  <2>2. answer'.id = id /\ answer'.status = s
    BY <2>1
  <2>3. Answered'
    <3>1. ASSUME NEW e \in Cpu!Errata, id = e.id
          PROVE  /\ s = "HigherElMitigation" => Cpu!check(e)
                 /\ s = "NotAffected" => ~Cpu!check(e)
                 /\ s # "UnknownErratum"
      BY <3>1, AnswerRight, ZenonT(40)
    <3>2. Cpu!Errata' = Cpu!Errata
      BY ZenonT(40) DEF Cpu!Errata
    <3> QED
      BY <2>1, <2>2, <3>1, <3>2, SameChecks, ZenonT(40) DEF Answered
  <2>4. MidrType' /\ Cpu!apply_reset_errata' = Cpu!apply_reset_errata
    BY <2>1, SameChecks, ZenonT(40) DEF ReportInv
  <2> QED
    BY <2>1, <2>3, <2>4, ZenonT(40) DEF ReportInv, Booted
<1> QED
  BY <1>1, <1>2, <1>3, <1>4, <1>5, <1>6, <1>7, ZenonT(40) DEF Cpu!Next

\* An erratum that is called mitigated is.
LEMMA CheckedIsMitigated ==
  ASSUME ReportInv, core_pc = "run", NEW e \in Cpu!Errata, Cpu!check(e)
  PROVE  Cpu!Mitigated(e)
<1>1. e.apply_on = "Reset" \/ e.id \in IchVmcr \/ e.id = 3686597
  BY EntryShape, SMTT(40) DEF GoodEntry
<1>2. CASE e.apply_on = "Reset"
  <2>1. PICK i \in DOMAIN Cpu!ERRATA_LIST : e = Cpu!ERRATA_LIST[i]
    BY ZenonT(40) DEF Cpu!Errata
  <2>2. e.sets \subseteq Cpu!apply_reset_errata
    BY <1>2, <2>1, SMTT(40) DEF Cpu!apply_reset_errata
  <2>3. e.sets \subseteq patched
    BY <2>2 DEF ReportInv, Booted
  <2> QED
    BY <1>2, <2>3, SMTT(40) DEF Cpu!Mitigated
<1>3. CASE e.id \in IchVmcr
  <2>1. Cpu!erratum_applies(e.id)
    BY ZenonT(40) DEF Cpu!erratum_applies
  <2>2. Cpu!errata_ich_vmcr_el2_applies
    BY <1>3, <2>1, SMTT(40) DEF IchVmcr, Cpu!errata_ich_vmcr_el2_applies
  <2> QED
    BY <1>3, <2>2, SMTT(40) DEF IchVmcr, Cpu!Mitigated
<1>4. CASE e.id = 3686597
  <2>1. PICK i \in DOMAIN Cpu!ERRATA_LIST : e = Cpu!ERRATA_LIST[i]
    BY ZenonT(40) DEF Cpu!Errata
  <2>2. 4 \in DOMAIN Cpu!ERRATA_LIST /\ Cpu!ERRATA_LIST[4] = Cpu!Erratum3686597
    BY SMTT(40) DEF Cpu!ERRATA_LIST
  <2>3. Cpu!Erratum3686597.id = 3686597
    BY SMTT(40) DEF Cpu!Erratum3686597, Cpu!Erratum
  <2>4. e = Cpu!Erratum3686597
    BY <1>4, <2>1, <2>2, <2>3, EntryIds, SMTT(40)
  <2>5. Cpu!C1ProPowerDown.sets = Cpu!Erratum3686597.sets
    <3>1. Cpu!check(Cpu!Erratum3686597)
      BY <2>4, ZenonT(40)
    <3> QED
      BY <3>1, ZenonT(40) DEF Cpu!C1ProPowerDown
  <2>6. e.sets \subseteq Cpu!C1ProPowerDown.sets
    BY <2>4, <2>5
  <2> QED
    BY <1>4, <2>6, SMTT(40) DEF Cpu!Mitigated
<1> QED
  BY <1>1, <1>2, <1>3, <1>4, SMTT(40)

\* On every CPU of cpu/, whatever CORE_PWRDN_EN is after a reset: it is clear
\* while the core runs or waits in a standby state, so no WFI but that of a
\* power down takes the core's power.
THEOREM StandbyAlwaysKeepsPower == Cpu!Spec => []Cpu!StandbyKeepsPower
<1>1. Cpu!Init => PowerInv
  BY CpuStarts
<1>2. PowerInv /\ [Cpu!Next]_Cpu!vars => PowerInv'
  BY PowerStep
<1>3. PowerInv => Cpu!StandbyKeepsPower
  BY ZenonT(40) DEF PowerInv, Cpu!StandbyKeepsPower
<1> QED
  BY <1>1, <1>2, <1>3, PTL DEF Cpu!Spec

\* For every revision and variant that fits its field of MIDR_EL1, what
\* EM_CPU_ERRATUM_FEATURES tells the normal world is so: an erratum that it
\* calls mitigated has its workaround in force, also after the core went off
\* and came back, and one that it calls fixed is fixed in this revision.
THEOREM ErrataReportsTrue ==
  ASSUME Cpu!RevisionAssumption PROVE Cpu!Spec => []Cpu!ReportsTheTruth
<1>1. Cpu!Init => ReportInv
  BY CpuStarts
<1>2. ReportInv /\ [Cpu!Next]_Cpu!vars => ReportInv'
  BY ReportStep
<1>3. ReportInv => Cpu!ReportsTheTruth
  <2>1. ASSUME ReportInv, NEW e \in Cpu!Errata, answer.id = e.id
        PROVE  /\ answer.status = "HigherElMitigation" =>
                    Cpu!Affected(e) /\ Cpu!Mitigated(e)
               /\ answer.status = "NotAffected" => ~Cpu!Affected(e)
               /\ answer.status # "UnknownErratum"
    <3>1. /\ answer.status = "HigherElMitigation" => Cpu!check(e)
          /\ answer.status = "NotAffected" => ~Cpu!check(e)
          /\ answer.status # "UnknownErratum"
      BY <2>1, ZenonT(40) DEF ReportInv, Answered
    <3>2. Cpu!check(e) <=> Cpu!Affected(e)
      BY <2>1, CheckIsAffected, ZenonT(40) DEF ReportInv
    <3>3. core_pc = "run"
      BY <2>1, EntryShape, SMTT(40) DEF ReportInv, GoodEntry
    <3>4. Cpu!check(e) => Cpu!Mitigated(e)
      BY <2>1, <3>3, CheckedIsMitigated, ZenonT(40)
    <3> QED
      BY <3>1, <3>2, <3>4, ZenonT(40)
  <2> QED
    BY <2>1, ZenonT(40) DEF Cpu!ReportsTheTruth
<1> QED
  BY <1>1, <1>2, <1>3, PTL DEF Cpu!Spec

-----------------------------------------------------------------------------
\* Leaves that name no prover go to Zenon, then to the SMT solver.
USE ZenonT(40), SMTT(40)

-----------------------------------------------------------------------------
(* The FVP: the inductive invariant.                                       *)

\* Core c executes the normal world, or its CPU_ON.
Up(c) == pc[c] \in {"run", "spin"}

\* Core c is in SYSTEM_SUSPEND.
SystemSuspended(c) == affinity_info[c] = "On" /\ requested[c] = 2

\* PSCI, power controller and GIC agree on a core that is up.
UpInv(c) ==
  Up(c) =>
    /\ affinity_info[c] = "On" /\ requested[c] = -1
    /\ c \in power.l0 /\ c \notin power.off /\ c \notin power.wen
    /\ c \in gic.on /\ c \in gic.awake
    /\ local_state[Cluster[c]] = "Run"

\* They agree on a core that is not: suspended, off, or on its way.
DownInv(c) ==
  ~Up(c) =>
    /\ c \notin gic.awake /\ requested[c] \in Level
    /\ affinity_info[c] # "On" => c \notin power.wen /\ requested[c] = 2
    /\ affinity_info[c] = "On" =>
         c \in power.wen /\ (c \in gic.on \/ gic.gicd = "lost")
    /\ pc[c] = "off_wfi" => affinity_info[c] # "On"
    /\ pc[c] = "suspend_wfi" => affinity_info[c] = "On"
    /\ pc[c] = "boot" => affinity_info[c] # "Off"
    /\ pc[c] \in {"off_wfi", "suspend_wfi"} => c \in power.l0 /\ c \in power.off
    /\ pc[c] = "off" => c \notin power.l0 /\ c \notin power.off
    /\ pc[c] = "boot" => c \in power.l0 /\ c \notin power.off

\* One CPU_ON at a time starts a core, which has not come up yet.
StartInv(c) ==
  /\ pc[c] = "spin" => /\ affinity_info[target[c]] = "OnPending"
                       /\ pc[target[c]] \in {"off_wfi", "off"}
                       /\ \A d \in Core : pc[d] = "spin" /\ target[d] = target[c]
                                           => d = c
  /\ affinity_info[c] = "OnPending" => pc[c] = "boot" \/ Locked(c)

\* The system is down only if every core lets it, and SYSTEM_SUSPEND is for the
\* last core.
SystemInv ==
  /\ \A c, d \in Core : SystemSuspended(c) /\ d # c => affinity_info[d] = "Off"
  /\ local_state["system"] = "Off" => \A c \in Core : requested[c] = 2
  /\ gic.gicd = "lost" => local_state["system"] = "Off"
  /\ gic.context # "lost"

FInv ==
  /\ TypeOK /\ ~panicked /\ SystemInv
  /\ \A c \in Core : UpInv(c) /\ DownInv(c) /\ StartInv(c)
  /\ \A d \in power.cluster_off : d # "system" /\ local_state[d] = "Off"

\* What the normal world wrote to the distributor is there, or saved by the core
\* that is in SYSTEM_SUSPEND.
KeptInv ==
  /\ local_state["system"] = "Off" =>
       gic.context = written /\ \E c \in Core : SystemSuspended(c)
  /\ gic.gicd \in {"lost", written}

-----------------------------------------------------------------------------
(* Cores, clusters and the system.                                         *)

\* Domains are clusters and the system, which is none of them.
LEMMA Domains ==
  /\ "system" \in Domain
  /\ \A c \in Core : Cluster[c] \in Domain /\ Cluster[c] # "system"
BY FvpAssumption DEF Domain

\* While a core is up, the system is: no core is in SYSTEM_SUSPEND, and the
\* distributor is powered.
LEMMA SystemUp ==
  ASSUME FInv, NEW c \in Core, Up(c)
  PROVE  /\ \A d \in Core : ~SystemSuspended(d)
         /\ local_state["system"] = "Run" /\ gic.gicd # "lost"
<1>1. affinity_info[c] = "On" /\ requested[c] = -1
  BY DEF FInv, UpInv
<1>2. -1 # 2
  BY SMT
<1>3. \A d \in Core : ~SystemSuspended(d)
  BY <1>1, <1>2 DEF FInv, SystemInv, SystemSuspended
<1>4. local_state["system"] = "Run"
  BY <1>1, <1>2, Domains DEF FInv, SystemInv, TypeOK
<1> QED
  BY <1>3, <1>4 DEF FInv, SystemInv

\* A cluster stays up while one of its cores is, and the system goes down only
\* if every core lets it.
Agreed(c, level, states) ==
  /\ states \in [Domain -> {"Run", "Off"}]
  /\ \A d \in Core : d # c /\ Up(d) => states[Cluster[d]] = "Run"
  /\ \A d \in Domain : d # "system" /\ d # Cluster[c] => states[d] = local_state[d]
  /\ states["system"] = "Off" => level = 2 /\ \A d \in Core : d # c => requested[d] = 2

\* That is what coordinate_state sees to.
LEMMA Coordinated ==
  ASSUME FInv, NEW c \in Core, Up(c), NEW level \in Level
  PROVE  Agreed(c, level, coordinate_state(c, level))
<1> DEFINE lets(d) == IF d = c THEN level ELSE requested[d]
           cluster == \A d \in Siblings(c) : lets(d) >= 1
           system == cluster /\ \A d \in Core : lets(d) = 2
           cs == coordinate_state(c, level)
<1>1. cs = [d \in Domain |->
              CASE d = Cluster[c] -> IF cluster THEN "Off" ELSE "Run"
                [] d = "system" -> IF system THEN "Off" ELSE "Run"
                [] OTHER -> local_state[d]]
  BY DEF coordinate_state
<1>2. local_state \in [Domain -> {"Run", "Off"}]
  BY DEF FInv, TypeOK
<1> HIDE DEF cs, cluster, system
<1>3. /\ cs[Cluster[c]] = IF cluster THEN "Off" ELSE "Run"
      /\ cs["system"] = IF system THEN "Off" ELSE "Run"
      /\ \A d \in Domain : d # "system" /\ d # Cluster[c] =>
           cs[d] = local_state[d]
  BY <1>1, Domains
<1>4. cs \in [Domain -> {"Run", "Off"}]
  <2>1. \A d \in Domain : cs[d] \in {"Run", "Off"}
    BY <1>2, <1>3
  <2> QED
    BY <1>1, <2>1
<1>5. ASSUME NEW d \in Core, d # c, Up(d) PROVE cs[Cluster[d]] = "Run"
  <2>1. requested[d] = -1 /\ local_state[Cluster[d]] = "Run"
    BY <1>5 DEF FInv, UpInv
  <2>2. CASE Cluster[d] = Cluster[c]
    <3>1. d \in Siblings(c) /\ ~(lets(d) >= 1)
      BY <1>5, <2>1, <2>2, SMT DEF Siblings
    <3>2. ~cluster
      BY <3>1 DEF cluster
    <3> QED
      BY <2>2, <3>2, <1>3
  <2>3. CASE Cluster[d] # Cluster[c]
    BY <2>1, <2>3, <1>3, Domains
  <2> QED
    BY <2>2, <2>3
<1>6. cs["system"] = "Off" =>
        level = 2 /\ \A d \in Core : d # c => requested[d] = 2
  BY <1>3 DEF system
<1> QED
  BY <1>3, <1>4, <1>5, <1>6 DEF cs, Agreed

-----------------------------------------------------------------------------
(* Steps of other cores.                                                   *)

PowerType == [l0 : SUBSET Core, wen : SUBSET Core, off : SUBSET Core,
              cluster_off : SUBSET Domain]
GicType == [gicd : Gicd, context : Gicd, on : SUBSET Core, awake : SUBSET Core]

\* Nothing that is known of core d changes.
Same(d) ==
  /\ pc'[d] = pc[d] /\ affinity_info'[d] = affinity_info[d]
  /\ requested'[d] = requested[d]
  /\ d \in power'.l0 <=> d \in power.l0
  /\ d \in power'.off <=> d \in power.off
  /\ d \in power'.wen <=> d \in power.wen
  /\ d \in gic'.on <=> d \in gic.on
  /\ d \in gic'.awake <=> d \in gic.awake

\* A core stays as it is, if its cluster does and the distributor that was lost
\* is not restored under a suspended core.
LEMMA SameCore ==
  ASSUME NEW d \in Core, UpInv(d), DownInv(d), Same(d),
         Up(d) => local_state'[Cluster[d]] = "Run",
         gic.gicd = "lost" /\ affinity_info[d] = "On" => gic'.gicd = "lost"
  PROVE  UpInv(d)' /\ DownInv(d)'
<1>1. Up(d)' <=> Up(d)
  BY DEF Up, Same
<1>2. UpInv(d)'
  BY <1>1 DEF UpInv, Same
<1>3. DownInv(d)'
  BY <1>1 DEF DownInv, Same
<1> QED
  BY <1>2, <1>3

\* Who starts whom does not change with a step of a core that starts nobody, and
\* that is started by nobody or stays down.
LEMMA SameStart ==
  ASSUME FInv, NEW c \in Core, pc[c] # "spin", pc'[c] # "spin", target' = target,
         \A d \in Core : d # c =>
           pc'[d] = pc[d] /\ affinity_info'[d] = affinity_info[d],
         \/ affinity_info[c] # "OnPending"
         \/ pc[c] = "boot"
         \/ affinity_info'[c] = affinity_info[c] /\ pc'[c] \in {"off_wfi", "off"},
         affinity_info'[c] = "OnPending" => affinity_info[c] = "OnPending",
         pc[c] = "boot" => affinity_info'[c] # "OnPending"
  PROVE  \A d \in Core : StartInv(d)'
<1>1. ASSUME NEW d \in Core PROVE StartInv(d)'
  <2>1. StartInv(d) /\ TypeOK
    BY DEF FInv
  <2>2. \A x \in Core : pc'[x] = "spin" <=> pc[x] = "spin"
    OBVIOUS
  <2>3. ASSUME pc'[d] = "spin"
        PROVE  /\ affinity_info'[target'[d]] = "OnPending"
               /\ pc'[target'[d]] \in {"off_wfi", "off"}
               /\ \A x \in Core : pc'[x] = "spin" /\ target'[x] = target'[d]
                                   => x = d
    <3>1. /\ affinity_info[target[d]] = "OnPending"
          /\ pc[target[d]] \in {"off_wfi", "off"}
          /\ \A x \in Core : pc[x] = "spin" /\ target[x] = target[d] => x = d
      BY <2>1, <2>2, <2>3 DEF StartInv
    <3>2. target[d] \in Core
      BY <2>1 DEF TypeOK
    <3>3. CASE target[d] # c
      BY <2>2, <3>1, <3>2, <3>3
    <3>4. CASE target[d] = c
      BY <2>2, <3>1, <3>4
    <3> QED
      BY <3>3, <3>4
  <2>4. ASSUME affinity_info'[d] = "OnPending"
        PROVE  pc'[d] = "boot" \/ Locked(d)'
    <3>1. affinity_info[d] = "OnPending"
      BY <2>4
    <3>2. pc[d] = "boot" \/ Locked(d)
      BY <2>1, <3>1 DEF StartInv
    <3>3. Locked(d) => Locked(d)'
      BY <2>2 DEF Locked
    <3> QED
      BY <2>4, <3>2, <3>3
  <2> QED
    BY <2>3, <2>4 DEF StartInv
<1> QED
  BY <1>1

-----------------------------------------------------------------------------
(* Each step keeps the invariant.                                          *)

\* CPU_ON claims its target.
LEMMA CpuOnInv ==
  ASSUME FInv, NEW c \in Core, CpuOn(c)
  PROVE  FInv'
<1>1. TypeOK /\ pc[c] = "run" /\ Up(c) /\ ~panicked
  BY DEF FInv, CpuOn, Running, Up
<1>2. PICK t \in Core :
        /\ affinity_info[t] = "Off"
        /\ affinity_info' = [affinity_info EXCEPT ![t] = "OnPending"]
        /\ target' = [target EXCEPT ![c] = t]
  BY DEF CpuOn
<1>3. /\ pc' = [pc EXCEPT ![c] = "spin"]
      /\ UNCHANGED <<requested, local_state, power, gic, written, panicked>>
  BY DEF CpuOn
<1>4. affinity_info[c] = "On" /\ t # c
  BY <1>1, <1>2 DEF FInv, UpInv
<1>5. /\ TypeOK'
      /\ pc'[c] = "spin" /\ target'[c] = t /\ affinity_info'[t] = "OnPending"
      /\ \A d \in Core : d # c => pc'[d] = pc[d] /\ target'[d] = target[d]
      /\ \A d \in Core : d # t => affinity_info'[d] = affinity_info[d]
  BY <1>1, <1>2, <1>3 DEF TypeOK
<1>6. ~Up(t) /\ pc[t] \in {"off_wfi", "off"}
  <2>1. UpInv(t) /\ DownInv(t)
    BY DEF FInv
  <2>2. ~Up(t)
    BY <1>2, <2>1 DEF UpInv
  <2> QED
    BY <1>1, <1>2, <2>1, <2>2 DEF DownInv, TypeOK, Up
<1>7. SystemInv'
  <2>1. \A d \in Core : ~SystemSuspended(d)
    BY <1>1, SystemUp
  <2>2. \A d \in Core : ~SystemSuspended(d)'
    BY <1>3, <1>5, <2>1 DEF SystemSuspended
  <2>3. local_state["system"] = "Run"
    BY <1>1, SystemUp
  <2> QED
    BY <1>3, <2>2, <2>3 DEF FInv, SystemInv
<1>8. ASSUME NEW d \in Core PROVE UpInv(d)' /\ DownInv(d)'
  <2>1. UpInv(d) /\ DownInv(d)
    BY DEF FInv
  <2>2. Up(d)' <=> Up(d)
    BY <1>1, <1>5 DEF Up
  <2>3. CASE d = t
    BY <1>2, <1>3, <1>4, <1>5, <1>6, <2>1, <2>2, <2>3 DEF UpInv, DownInv
  <2>4. CASE d = c
    BY <1>1, <1>3, <1>4, <1>5, <2>1, <2>2, <2>4 DEF UpInv, DownInv
  <2>5. CASE d # t /\ d # c
    <3>1. Same(d)
      BY <1>3, <1>5, <2>5 DEF Same
    <3> QED
      BY <1>3, <2>1, <3>1, SameCore DEF UpInv
  <2> QED
    BY <2>3, <2>4, <2>5
<1>9. ASSUME NEW d \in Core PROVE StartInv(d)'
  <2>1. StartInv(d) /\ target[d] \in Core
    BY <1>1 DEF FInv, TypeOK
  <2>2. \A x \in Core : x # c /\ pc[x] = "spin" => target[x] # t /\ target[x] # c
    BY <1>2, <1>4 DEF FInv, StartInv
  <2>3. ASSUME pc'[d] = "spin"
        PROVE  /\ affinity_info'[target'[d]] = "OnPending"
               /\ pc'[target'[d]] \in {"off_wfi", "off"}
               /\ \A x \in Core : pc'[x] = "spin" /\ target'[x] = target'[d]
                                   => x = d
    <3>1. CASE d = c
      BY <1>4, <1>5, <1>6, <2>2, <3>1
    <3>2. CASE d # c
      BY <1>5, <2>1, <2>2, <2>3, <3>2 DEF StartInv
    <3> QED
      BY <3>1, <3>2
  <2>4. ASSUME affinity_info'[d] = "OnPending"
        PROVE  pc'[d] = "boot" \/ Locked(d)'
    <3>1. CASE d = t
      BY <1>5, <3>1 DEF Locked
    <3>2. CASE d # t
      <4>1. d # c /\ (pc[d] = "boot" \/ Locked(d))
        BY <1>4, <1>5, <2>1, <2>4, <3>2 DEF StartInv
      <4>2. Locked(d) => Locked(d)'
        BY <1>1, <1>5 DEF Locked
      <4> QED
        BY <1>5, <4>1, <4>2
    <3> QED
      BY <3>1, <3>2
  <2> QED
    BY <2>3, <2>4 DEF StartInv
<1> QED
  BY <1>3, <1>5, <1>7, <1>8, <1>9 DEF FInv

\* power_domain_on starts its target once that is off.
LEMMA PowerDomainOnInv ==
  ASSUME FInv, NEW c \in Core, power_domain_on(c)
  PROVE  FInv'
<1>1. TypeOK /\ pc[c] = "spin" /\ Up(c) /\ ~panicked
  BY DEF FInv, power_domain_on, Up
<1>2. PICK t \in Core : t = target[c]
  BY <1>1 DEF TypeOK
<1>3. /\ t \notin power.l0 /\ power' = power_on_processor(power, t)
      /\ pc' = [pc EXCEPT ![c] = "run",
                          ![t] = Started(t, power_on_processor(power, t))]
      /\ target' = [target EXCEPT ![c] = c]
      /\ UNCHANGED <<psci, gic, written, panicked>>
  BY <1>2 DEF power_domain_on
<1>4. /\ affinity_info[t] = "OnPending" /\ pc[t] \in {"off_wfi", "off"}
      /\ \A d \in Core : pc[d] = "spin" /\ target[d] = t => d = c
  BY <1>1, <1>2 DEF FInv, StartInv
<1>5. affinity_info[c] = "On" /\ t # c /\ ~Up(t)
  BY <1>1, <1>4 DEF FInv, UpInv, Up
<1>6. pc[t] = "off"
  BY <1>3, <1>4, <1>5 DEF FInv, DownInv
<1>7. /\ power' \in PowerType
      /\ power'.l0 = power.l0 \cup {t} /\ power'.off = power.off \ {t}
      /\ power'.wen = power.wen
      /\ power'.cluster_off = power.cluster_off \ {Cluster[t]}
  BY <1>1, <1>3 DEF TypeOK, power_on_processor, PowerType
<1>8. Started(t, power_on_processor(power, t)) = "boot"
  BY <1>3, <1>6, <1>7 DEF Started
<1>9. /\ pc'[c] = "run" /\ pc'[t] = "boot"
      /\ \A d \in Core : d # c /\ d # t => pc'[d] = pc[d]
      /\ \A d \in Core : d # c => target'[d] = target[d]
      /\ pc' \in [Core -> {"run", "spin", "off_wfi", "suspend_wfi", "off", "boot"}]
      /\ target' \in [Core -> Core]
  BY <1>1, <1>3, <1>5, <1>8 DEF TypeOK
<1>10. UNCHANGED <<affinity_info, requested, local_state, gic, written, panicked>>
  BY <1>3 DEF psci
<1>11. TypeOK'
  BY <1>1, <1>7, <1>9, <1>10 DEF TypeOK, PowerType
<1>12. SystemInv'
  BY <1>10 DEF FInv, SystemInv, SystemSuspended
<1>13. ASSUME NEW d \in Core PROVE UpInv(d)' /\ DownInv(d)'
  <2>1. UpInv(d) /\ DownInv(d)
    BY DEF FInv
  <2>2. CASE d = t
    <3>1. ~Up(d) /\ ~Up(d)'
      BY <1>5, <1>9, <2>2 DEF Up
    <3> QED
      BY <1>4, <1>6, <1>7, <1>9, <1>10, <2>1, <2>2, <3>1 DEF UpInv, DownInv
  <2>3. CASE d = c
    <3>1. Up(d) /\ Up(d)'
      BY <1>1, <1>9, <2>3 DEF Up
    <3> QED
      BY <1>5, <1>7, <1>10, <2>1, <2>3, <3>1 DEF UpInv, DownInv
  <2>4. CASE d # t /\ d # c
    <3>1. Same(d)
      BY <1>7, <1>9, <1>10, <2>4 DEF Same
    <3> QED
      BY <1>10, <2>1, <3>1, SameCore DEF UpInv
  <2> QED
    BY <2>2, <2>3, <2>4
<1>14. ASSUME NEW d \in Core PROVE StartInv(d)'
  <2>1. StartInv(d) /\ target[d] \in Core
    BY <1>1 DEF FInv, TypeOK
  <2>2. ASSUME pc'[d] = "spin"
        PROVE  /\ affinity_info'[target'[d]] = "OnPending"
               /\ pc'[target'[d]] \in {"off_wfi", "off"}
               /\ \A x \in Core : pc'[x] = "spin" /\ target'[x] = target'[d]
                                   => x = d
    <3>1. d # c /\ d # t /\ pc[d] = "spin" /\ target'[d] = target[d]
      BY <1>9, <2>2
    <3>2. target[d] # t /\ target[d] # c
      BY <1>4, <1>5, <2>1, <3>1 DEF StartInv
    <3>3. \A x \in Core : pc'[x] = "spin" => pc[x] = "spin" /\ target'[x] = target[x]
      BY <1>9
    <3> QED
      BY <1>9, <1>10, <2>1, <3>1, <3>2, <3>3 DEF StartInv
  <2>3. ASSUME affinity_info'[d] = "OnPending"
        PROVE  pc'[d] = "boot" \/ Locked(d)'
    <3>1. CASE d = t
      BY <1>9, <3>1
    <3>2. CASE d # t
      <4>1. d # c /\ (pc[d] = "boot" \/ Locked(d))
        BY <1>5, <1>10, <2>1, <2>3 DEF StartInv
      <4>2. ASSUME Locked(d) PROVE Locked(d)'
        <5>1. PICK x \in Core : pc[x] = "spin" /\ target[x] = d
          BY <4>2 DEF Locked
        <5>2. x # c /\ x # t
          BY <1>2, <1>6, <3>2, <5>1
        <5> QED
          BY <1>9, <5>1, <5>2 DEF Locked
      <4> QED
        BY <1>9, <3>2, <4>1, <4>2
    <3> QED
      BY <3>1, <3>2
  <2> QED
    BY <2>2, <2>3 DEF StartInv
<1> QED
  BY <1>1, <1>7, <1>10, <1>11, <1>12, <1>13, <1>14 DEF FInv

\* A core that goes down: what power_domain_off and power_domain_suspend have in
\* common, for a core that lets the levels up to `level` go off.
GoesDown(c, level, where) ==
  LET states == coordinate_state(c, level)
  IN  /\ pc' = [pc EXCEPT ![c] = where]
      /\ requested' = [requested EXCEPT ![c] = level]
      /\ local_state' = states
      /\ panicked' = (c \notin gic.awake)
      /\ power' \in PowerType /\ gic' \in GicType
      /\ power'.l0 = power.l0 /\ power'.off = power.off \cup {c}
      /\ power'.cluster_off = IF states[Cluster[c]] = "Off"
                              THEN power.cluster_off \cup {Cluster[c]}
                              ELSE power.cluster_off
      /\ gic'.awake = gic.awake \ {c} /\ gic'.gicd = gic.gicd
      /\ \A d \in Core : d # c => /\ affinity_info'[d] = affinity_info[d]
                                  /\ d \in power'.wen <=> d \in power.wen
                                  /\ d \in gic'.on <=> d \in gic.on
      /\ UNCHANGED <<target, written>>

\* Then the other cores stay as they are, and so do the types and the pending
\* power offs.
LEMMA GoesDownInv ==
  ASSUME FInv, NEW c \in Core, pc[c] = "run", NEW level \in Level,
         NEW where \in {"off_wfi", "suspend_wfi"}, GoesDown(c, level, where),
         affinity_info' \in [Core -> {"On", "Off", "OnPending"}],
         affinity_info'[c] # "OnPending"
  PROVE  /\ TypeOK' /\ ~panicked'
         /\ \A d \in Core : d # c => UpInv(d)' /\ DownInv(d)'
         /\ \A d \in Core : StartInv(d)'
         /\ \A d \in power'.cluster_off : d # "system" /\ local_state'[d] = "Off"
<1>1. TypeOK /\ Up(c) /\ UpInv(c)
  BY DEF FInv, Up
<1>2. affinity_info[c] = "On" /\ c \in gic.awake /\ local_state[Cluster[c]] = "Run"
  BY <1>1 DEF UpInv
<1>3. PICK cs : cs = coordinate_state(c, level)
  OBVIOUS
<1>4. /\ cs \in [Domain -> {"Run", "Off"}]
      /\ \A d \in Core : d # c /\ Up(d) => cs[Cluster[d]] = "Run"
      /\ \A d \in Domain : d # "system" /\ d # Cluster[c] => cs[d] = local_state[d]
  <2>1. Agreed(c, level, cs)
    BY <1>1, <1>3, Coordinated
  <2> QED
    BY <2>1 DEF Agreed
<1>5. /\ local_state' = cs /\ panicked' = FALSE /\ UNCHANGED <<target, written>>
      /\ power'.cluster_off = IF cs[Cluster[c]] = "Off"
                              THEN power.cluster_off \cup {Cluster[c]}
                              ELSE power.cluster_off
  BY <1>2, <1>3 DEF GoesDown
<1>6. /\ pc'[c] = where /\ \A d \in Core : d # c => pc'[d] = pc[d]
      /\ \A d \in Core : d # c => requested'[d] = requested[d]
      /\ pc' \in [Core -> {"run", "spin", "off_wfi", "suspend_wfi", "off", "boot"}]
      /\ requested' \in [Core -> Level \cup {-1}]
  BY <1>1 DEF GoesDown, TypeOK
<1>7. TypeOK'
  <2>1. power' \in PowerType /\ gic' \in GicType
    BY DEF GoesDown
  <2> QED
    BY <1>1, <1>4, <1>5, <1>6, <2>1 DEF TypeOK, PowerType, GicType
<1>8. ASSUME NEW d \in Core, d # c PROVE UpInv(d)' /\ DownInv(d)'
  <2>1. Same(d)
    BY <1>6, <1>8 DEF Same, GoesDown
  <2>2. UpInv(d) /\ DownInv(d)
    BY DEF FInv
  <2>3. Up(d) => local_state'[Cluster[d]] = "Run"
    BY <1>4, <1>5, <1>8
  <2>4. gic'.gicd = gic.gicd
    BY DEF GoesDown
  <2> QED
    BY <2>1, <2>2, <2>3, <2>4, SameCore
<1>9. \A d \in Core : StartInv(d)'
  <2>1. \A d \in Core : d # c =>
          pc'[d] = pc[d] /\ affinity_info'[d] = affinity_info[d]
    BY <1>6 DEF GoesDown
  <2>2. pc'[c] # "spin" /\ pc[c] # "boot" /\ affinity_info[c] # "OnPending"
    BY <1>2, <1>6
  <2> QED
    BY <1>5, <2>1, <2>2, SameStart
<1>10. ASSUME NEW d \in power'.cluster_off
       PROVE  d # "system" /\ local_state'[d] = "Off"
  <2>1. CASE d \in power.cluster_off
    <3>1. d # "system" /\ local_state[d] = "Off" /\ d \in Domain
      BY <1>1, <2>1 DEF FInv, TypeOK
    <3>2. d # Cluster[c]
      BY <1>2, <3>1
    <3> QED
      BY <1>4, <1>5, <3>1, <3>2
  <2>2. CASE d \notin power.cluster_off
    <3>1. cs[Cluster[c]] = "Off" /\ d = Cluster[c]
      BY <1>5, <1>10, <2>2
    <3> QED
      BY <1>5, <3>1, Domains
  <2> QED
    BY <2>1, <2>2
<1> QED
  BY <1>5, <1>7, <1>8, <1>9, <1>10

\* CPU_OFF: the core lets every level go off.
LEMMA PowerDomainOffInv ==
  ASSUME FInv, NEW c \in Core, power_domain_off(c)
  PROVE  FInv'
<1>1. TypeOK /\ pc[c] = "run" /\ Up(c) /\ UpInv(c) /\ 2 \in Level
  <2>1. 2 \in Level
    BY SMT DEF Level
  <2> QED
    BY <2>1 DEF FInv, power_domain_off, Running, Up
<1>2. power \in PowerType /\ gic \in GicType
  BY <1>1 DEF TypeOK, PowerType, GicType
<1>3. /\ affinity_info' = [affinity_info EXCEPT ![c] = "Off"]
      /\ gic' = redistributor_off(cpu_interface_disable(gic, c), c)
      /\ power' = IF coordinate_state(c, 2)[Cluster[c]] = "Off"
                  THEN power_off_cluster(power_off_processor(power, c), c)
                  ELSE power_off_processor(power, c)
  BY DEF power_domain_off
<1>4. /\ gic' \in GicType /\ gic'.awake = gic.awake \ {c}
      /\ gic'.gicd = gic.gicd /\ gic'.on = gic.on \ {c}
      /\ gic'.context = gic.context
  BY <1>2, <1>3 DEF redistributor_off, cpu_interface_disable, GicType
<1>5. /\ power' \in PowerType /\ power'.l0 = power.l0
      /\ power'.off = power.off \cup {c} /\ power'.wen = power.wen
      /\ power'.cluster_off = IF coordinate_state(c, 2)[Cluster[c]] = "Off"
                              THEN power.cluster_off \cup {Cluster[c]}
                              ELSE power.cluster_off
  <2>1. CASE coordinate_state(c, 2)[Cluster[c]] = "Off"
    BY <1>2, <1>3, <2>1, Domains
    DEF power_off_cluster, power_off_processor, PowerType
  <2>2. CASE coordinate_state(c, 2)[Cluster[c]] # "Off"
    BY <1>2, <1>3, <2>2 DEF power_off_processor, PowerType
  <2> QED
    BY <2>1, <2>2
<1>6. /\ affinity_info' \in [Core -> {"On", "Off", "OnPending"}]
      /\ affinity_info'[c] = "Off"
      /\ \A d \in Core : d # c => affinity_info'[d] = affinity_info[d]
  BY <1>1, <1>3 DEF TypeOK
<1>7. GoesDown(c, 2, "off_wfi")
  <2>1. /\ pc' = [pc EXCEPT ![c] = "off_wfi"]
        /\ requested' = [requested EXCEPT ![c] = 2]
        /\ local_state' = coordinate_state(c, 2)
        /\ panicked' = (c \notin gic.awake) /\ UNCHANGED <<target, written>>
    BY DEF power_domain_off
  <2> QED
    BY <1>4, <1>5, <1>6, <2>1 DEF GoesDown
<1>8. /\ TypeOK' /\ ~panicked'
      /\ \A d \in Core : d # c => UpInv(d)' /\ DownInv(d)'
      /\ \A d \in Core : StartInv(d)'
      /\ \A d \in power'.cluster_off : d # "system" /\ local_state'[d] = "Off"
  BY <1>1, <1>6, <1>7, GoesDownInv
<1>9. pc'[c] = "off_wfi" /\ requested'[c] = 2
      /\ \A d \in Core : d # c => requested'[d] = requested[d]
  BY <1>1, <1>7 DEF GoesDown, TypeOK
<1>10. UpInv(c)' /\ DownInv(c)'
  <2>1. ~Up(c)'
    BY <1>9 DEF Up
  <2> QED
    BY <1>1, <1>4, <1>5, <1>6, <1>9, <2>1 DEF UpInv, DownInv
<1>11. SystemInv'
  <2>1. \A d \in Core : ~SystemSuspended(d)
    BY <1>1, SystemUp
  <2>2. \A d \in Core : ~SystemSuspended(d)'
    BY <1>6, <1>9, <2>1 DEF SystemSuspended
  <2>3. local_state'["system"] = "Off" => \A d \in Core : requested'[d] = 2
    <3>1. Agreed(c, 2, local_state')
      BY <1>1, <1>7, Coordinated DEF GoesDown
    <3> QED
      BY <1>9, <3>1 DEF Agreed
  <2>4. gic'.gicd # "lost" /\ gic'.context # "lost"
    BY <1>1, <1>4, SystemUp DEF FInv, SystemInv
  <2> QED
    BY <2>2, <2>3, <2>4 DEF SystemInv
<1> QED
  BY <1>8, <1>10, <1>11 DEF FInv

\* CPU_SUSPEND and SYSTEM_SUSPEND: the system goes down with the last core only.
LEMMA SuspendInv ==
  ASSUME FInv, NEW c \in Core, CpuSuspend(c) \/ SystemSuspend(c)
  PROVE  FInv'
<1>1. PICK level \in Level :
        /\ Running(c) /\ power_domain_suspend(c, level)
        /\ level = 2 => \A d \in Core \ {c} : affinity_info[d] = "Off"
  BY SMT DEF CpuSuspend, SystemSuspend, Level
<1>2. TypeOK /\ pc[c] = "run" /\ Up(c) /\ UpInv(c)
  BY <1>1 DEF FInv, Running, Up
<1>3. power \in PowerType /\ gic \in GicType
  BY <1>2 DEF TypeOK, PowerType, GicType
<1>4. PICK cs : cs = coordinate_state(c, level)
  OBVIOUS
<1>5. /\ gic' = IF cs["system"] = "Off"
                THEN save_system_power_domain(cpu_interface_disable(gic, c))
                ELSE cpu_interface_disable(gic, c)
      /\ power' = power_off_processor(
                    IF cs[Cluster[c]] = "Off"
                    THEN power_off_cluster(enable_wakeup_requests(power, c), c)
                    ELSE enable_wakeup_requests(power, c), c)
  BY <1>1, <1>4 DEF power_domain_suspend
<1>6. /\ gic' \in GicType /\ gic'.awake = gic.awake \ {c}
      /\ gic'.gicd = gic.gicd /\ gic'.on = gic.on
      /\ gic'.context \in {gic.context, gic.gicd}
  <2>1. CASE cs["system"] = "Off"
    BY <1>3, <1>5, <2>1
    DEF save_system_power_domain, distributor_save, cpu_interface_disable, GicType
  <2>2. CASE cs["system"] # "Off"
    BY <1>3, <1>5, <2>2 DEF cpu_interface_disable, GicType
  <2> QED
    BY <2>1, <2>2
<1>7. /\ power' \in PowerType /\ power'.l0 = power.l0
      /\ power'.off = power.off \cup {c} /\ power'.wen = power.wen \cup {c}
      /\ power'.cluster_off = IF cs[Cluster[c]] = "Off"
                              THEN power.cluster_off \cup {Cluster[c]}
                              ELSE power.cluster_off
  <2>1. CASE cs[Cluster[c]] = "Off"
    BY <1>3, <1>5, <2>1, Domains
    DEF power_off_cluster, power_off_processor, enable_wakeup_requests, PowerType
  <2>2. CASE cs[Cluster[c]] # "Off"
    BY <1>3, <1>5, <2>2
    DEF power_off_processor, enable_wakeup_requests, PowerType
  <2> QED
    BY <2>1, <2>2
<1>8. affinity_info' = affinity_info /\ affinity_info[c] = "On"
  BY <1>1, <1>2 DEF power_domain_suspend, UpInv
<1>9. GoesDown(c, level, "suspend_wfi")
  <2>1. /\ pc' = [pc EXCEPT ![c] = "suspend_wfi"]
        /\ requested' = [requested EXCEPT ![c] = level]
        /\ local_state' = coordinate_state(c, level)
        /\ panicked' = (c \notin gic.awake) /\ UNCHANGED <<target, written>>
    BY <1>1 DEF power_domain_suspend
  <2> QED
    BY <1>4, <1>6, <1>7, <1>8, <2>1 DEF GoesDown
<1>10. /\ TypeOK' /\ ~panicked'
       /\ \A d \in Core : d # c => UpInv(d)' /\ DownInv(d)'
       /\ \A d \in Core : StartInv(d)'
       /\ \A d \in power'.cluster_off : d # "system" /\ local_state'[d] = "Off"
  BY <1>2, <1>8, <1>9, GoesDownInv DEF TypeOK
<1>11. pc'[c] = "suspend_wfi" /\ requested'[c] = level
       /\ \A d \in Core : d # c => requested'[d] = requested[d]
  BY <1>2, <1>9 DEF GoesDown, TypeOK
<1>12. UpInv(c)' /\ DownInv(c)'
  <2>1. ~Up(c)'
    BY <1>11 DEF Up
  <2> QED
    BY <1>2, <1>6, <1>7, <1>8, <1>11, <2>1 DEF UpInv, DownInv
<1>13. SystemInv'
  <2>1. \A d \in Core : ~SystemSuspended(d)
    BY <1>2, SystemUp
  <2>2. \A d \in Core : d # c => ~SystemSuspended(d)'
    BY <1>8, <1>11, <2>1 DEF SystemSuspended
  <2>3. SystemSuspended(c)' <=> level = 2
    BY <1>8, <1>11 DEF SystemSuspended
  <2>4. \A x, d \in Core : SystemSuspended(x)' /\ d # x => affinity_info'[d] = "Off"
    BY <1>1, <1>8, <2>2, <2>3
  <2>5. gic'.gicd # "lost" /\ gic'.context # "lost"
    BY <1>2, <1>6, SystemUp DEF FInv, SystemInv
  <2>6. local_state'["system"] = "Off" => \A d \in Core : requested'[d] = 2
    <3>1. Agreed(c, level, local_state')
      <4>1. local_state' = coordinate_state(c, level)
        BY <1>9 DEF GoesDown
      <4> QED
        BY <1>2, <4>1, Coordinated
    <3> QED
      BY <1>11, <3>1 DEF Agreed
  <2> QED
    BY <2>4, <2>5, <2>6 DEF SystemInv
<1> QED
  BY <1>10, <1>12, <1>13 DEF FInv

\* handle_cpu_boot: the core comes up with its cluster and the system, and
\* restores the distributor if the system was down.
LEMMA BootInv ==
  ASSUME FInv, NEW c \in Core, handle_cpu_boot(c)
  PROVE  FInv'
<1>1. /\ TypeOK /\ pc[c] = "boot" /\ ~Locked(c)
      /\ power' = FinishPower(c)
      /\ gic' = IF affinity_info[c] = "OnPending" THEN power_domain_on_finish(c)
                ELSE power_domain_suspend_finish(c)
      /\ affinity_info' = [affinity_info EXCEPT ![c] = "On"]
      /\ requested' = [requested EXCEPT ![c] = -1]
      /\ local_state' = set_running(c) /\ pc' = [pc EXCEPT ![c] = "run"]
      /\ panicked' = (affinity_info[c] = "Off" \/ c \in gic.awake
                        \/ requested[c] = -1)
      /\ UNCHANGED <<target, written>>
  BY DEF FInv, handle_cpu_boot
<1>2. power \in PowerType /\ gic \in GicType
  BY <1>1 DEF TypeOK, PowerType, GicType
<1>3. ~Up(c) /\ DownInv(c)
  BY <1>1 DEF FInv, Up
<1>4. /\ c \notin gic.awake /\ requested[c] \in Level /\ affinity_info[c] # "Off"
      /\ c \in power.l0 /\ c \notin power.off
      /\ affinity_info[c] = "On" => c \in gic.on \/ gic.gicd = "lost"
  BY <1>1, <1>3 DEF DownInv
<1>5. panicked' = FALSE
  <2>1. requested[c] # -1
    BY <1>4, SMT DEF Level
  <2> QED
    BY <1>1, <1>4, <2>1
<1>6. /\ affinity_info'[c] = "On" /\ requested'[c] = -1 /\ pc'[c] = "run"
      /\ \A d \in Core : d # c => /\ affinity_info'[d] = affinity_info[d]
                                  /\ requested'[d] = requested[d]
                                  /\ pc'[d] = pc[d]
      /\ affinity_info' \in [Core -> {"On", "Off", "OnPending"}]
      /\ requested' \in [Core -> Level \cup {-1}]
      /\ pc' \in [Core -> {"run", "spin", "off_wfi", "suspend_wfi", "off", "boot"}]
  BY <1>1 DEF TypeOK
<1>7. /\ local_state' \in [Domain -> {"Run", "Off"}]
      /\ local_state'[Cluster[c]] = "Run" /\ local_state'["system"] = "Run"
      /\ \A d \in Domain : d # Cluster[c] /\ d # "system" =>
           local_state'[d] = local_state[d]
      /\ \A d \in Domain : local_state[d] = "Run" => local_state'[d] = "Run"
  BY <1>1, Domains DEF set_running, TypeOK
<1>8. /\ power' \in PowerType /\ power'.l0 = power.l0 /\ power'.off = power.off
      /\ power'.wen = power.wen \ {c}
      /\ power'.cluster_off \subseteq power.cluster_off
      /\ Cluster[c] \notin power'.cluster_off
  <2>1. CASE local_state[Cluster[c]] = "Off"
    <3>1. power.l0 \cup {c} = power.l0 /\ power.off \ {c} = power.off
      BY <1>4
    <3>2. power' = disable_wakeup_requests(power_on_processor(power, c), c)
      BY <1>1, <2>1 DEF FinishPower
    <3>3. /\ power' \in PowerType /\ power'.l0 = power.l0 \cup {c}
          /\ power'.off = power.off \ {c} /\ power'.wen = power.wen \ {c}
          /\ power'.cluster_off = power.cluster_off \ {Cluster[c]}
      BY <1>2, <3>2 DEF disable_wakeup_requests, power_on_processor, PowerType
    <3> QED
      BY <3>1, <3>3
  <2>2. CASE local_state[Cluster[c]] # "Off"
    <3>1. Cluster[c] \notin power.cluster_off
      BY <2>2 DEF FInv
    <3>2. power' = disable_wakeup_requests(power, c)
      BY <1>1, <2>2 DEF FinishPower
    <3>3. /\ power' \in PowerType /\ power'.l0 = power.l0
          /\ power'.off = power.off /\ power'.wen = power.wen \ {c}
          /\ power'.cluster_off = power.cluster_off
      BY <1>2, <3>2 DEF disable_wakeup_requests, PowerType
    <3> QED
      BY <3>1, <3>3
  <2> QED
    BY <2>1, <2>2
<1>9. PICK g \in GicType : g = FinishGic(c)
  <2>1. FinishGic(c) \in GicType
    BY <1>2
    DEF FinishGic, restore_system_power_domain, redistributor_restore,
        distributor_restore, GicType
  <2> QED
    BY <2>1
<1>10. /\ local_state["system"] = "Off" =>
            g.gicd = gic.context /\ g.on = gic.on \cup {c}
       /\ g.context = gic.context
       /\ local_state["system"] # "Off" => g.gicd = gic.gicd /\ g.on = gic.on
       /\ g.awake = gic.awake
  BY <1>2, <1>9
  DEF FinishGic, restore_system_power_domain, redistributor_restore,
      distributor_restore, GicType
<1>11. /\ gic' \in GicType /\ gic'.gicd = g.gicd /\ gic'.awake = g.awake \cup {c}
       /\ gic'.context = g.context
       /\ affinity_info[c] = "OnPending" => gic'.on = g.on \cup {c}
       /\ affinity_info[c] # "OnPending" => gic'.on = g.on
  <2>1. CASE affinity_info[c] = "OnPending"
    <3>1. gic' = cpu_interface_enable(redistributor_init(g, c), c)
      BY <1>1, <1>9, <2>1 DEF power_domain_on_finish
    <3> QED
      BY <1>9, <2>1, <3>1 DEF cpu_interface_enable, redistributor_init, GicType
  <2>2. CASE affinity_info[c] # "OnPending"
    <3>1. gic' = cpu_interface_enable(g, c)
      BY <1>1, <1>9, <2>2 DEF power_domain_suspend_finish
    <3> QED
      BY <1>9, <2>2, <3>1 DEF cpu_interface_enable, GicType
  <2> QED
    BY <2>1, <2>2
<1>12. local_state["system"] = "Off" =>
         \A d \in Core : d # c => affinity_info[d] # "On"
  BY <1>4 DEF FInv, SystemInv, SystemSuspended
<1>13. c \in gic'.on
  <2>1. CASE local_state["system"] = "Off"
    BY <1>10, <1>11, <2>1
  <2>2. CASE local_state["system"] # "Off"
    <3>1. gic.gicd # "lost"
      BY <2>2 DEF FInv, SystemInv
    <3>2. affinity_info[c] \in {"On", "OnPending"}
      BY <1>1, <1>4 DEF TypeOK
    <3> QED
      BY <1>4, <1>10, <1>11, <2>2, <3>1, <3>2
  <2> QED
    BY <2>1, <2>2
<1>14. TypeOK'
  BY <1>1, <1>5, <1>6, <1>7, <1>8, <1>11 DEF TypeOK, PowerType, GicType
<1>15. UpInv(c)' /\ DownInv(c)'
  <2>1. Up(c)'
    BY <1>6 DEF Up
  <2> QED
    BY <1>4, <1>6, <1>7, <1>8, <1>11, <1>13, <2>1 DEF UpInv, DownInv
<1>16. ASSUME NEW d \in Core, d # c PROVE UpInv(d)' /\ DownInv(d)'
  <2>1. Same(d)
    BY <1>6, <1>8, <1>10, <1>11, <1>16 DEF Same
  <2>2. UpInv(d) /\ DownInv(d)
    BY DEF FInv
  <2>3. Up(d) => local_state'[Cluster[d]] = "Run"
    BY <1>7, <2>2, Domains DEF UpInv
  <2>4. gic.gicd = "lost" => affinity_info[d] # "On"
    BY <1>12, <1>16 DEF FInv, SystemInv
  <2> QED
    BY <2>1, <2>2, <2>3, <2>4, SameCore
<1>17. \A d \in Core : StartInv(d)'
  BY <1>1, <1>6, SameStart
<1>18. SystemInv'
  <2>1. -1 # 2
    BY SMT
  <2>2. \A d \in Core : d # c => ~SystemSuspended(d)
    BY <1>4 DEF FInv, SystemInv
  <2>3. \A d \in Core : ~SystemSuspended(d)'
    BY <1>6, <2>1, <2>2 DEF SystemSuspended
  <2>4. gic'.gicd # "lost" /\ gic'.context # "lost"
    BY <1>10, <1>11 DEF FInv, SystemInv
  <2> QED
    BY <1>7, <2>3, <2>4 DEF SystemInv
<1>19. ASSUME NEW d \in power'.cluster_off
       PROVE  d # "system" /\ local_state'[d] = "Off"
  <2>1. d # Cluster[c] /\ d \in power.cluster_off /\ d \in Domain
    BY <1>2, <1>8, <1>19 DEF PowerType
  <2> QED
    BY <1>7, <2>1 DEF FInv
<1> QED
  BY <1>5, <1>14, <1>15, <1>16, <1>17, <1>18, <1>19 DEF FInv

-----------------------------------------------------------------------------
(* The hardware, and the normal world.                                     *)

\* The power controller moves core c, which is down, between off and boot: the
\* others, PSCI and the GIC stay as they are.
LEMMA CoreMoves ==
  ASSUME FInv, NEW c \in Core, ~Up(c), UNCHANGED <<psci, target, gic, written, panicked>>,
         power' \in PowerType, power'.wen = power.wen,
         power'.cluster_off = power.cluster_off,
         \A d \in Core : d # c => /\ d \in power'.l0 <=> d \in power.l0
                                  /\ d \in power'.off <=> d \in power.off,
         NEW s \in {"off", "boot"}, pc' = [pc EXCEPT ![c] = s],
         s = "off" => /\ pc[c] # "boot"
                      /\ c \notin power'.l0 /\ c \notin power'.off,
         s = "boot" => /\ affinity_info[c] = "On"
                       /\ c \in power'.l0 /\ c \notin power'.off
  PROVE  FInv'
<1>1. /\ TypeOK /\ affinity_info' = affinity_info /\ requested' = requested
      /\ local_state' = local_state
  BY DEF FInv, psci
<1>2. /\ pc' \in [Core -> {"run", "spin", "off_wfi", "suspend_wfi", "off", "boot"}]
      /\ pc'[c] = s /\ \A d \in Core : d # c => pc'[d] = pc[d]
  BY <1>1 DEF TypeOK
<1>3. TypeOK'
  BY <1>1, <1>2 DEF TypeOK, PowerType
<1>4. UpInv(c)' /\ DownInv(c)'
  <2>1. ~Up(c)' /\ DownInv(c)
    BY <1>2 DEF Up, FInv
  <2>2. s = "boot" => affinity_info[c] = "On" /\ s # "off"
    OBVIOUS
  <2> QED
    BY <1>1, <1>2, <2>1, <2>2 DEF UpInv, DownInv
<1>5. ASSUME NEW d \in Core, d # c PROVE UpInv(d)' /\ DownInv(d)'
  <2>1. Same(d)
    BY <1>1, <1>2, <1>5 DEF Same
  <2>2. UpInv(d) /\ DownInv(d)
    BY DEF FInv
  <2>3. Up(d) => local_state'[Cluster[d]] = "Run"
    BY <1>1, <2>2 DEF UpInv
  <2> QED
    BY <2>1, <2>2, <2>3, SameCore
<1>6. \A d \in Core : StartInv(d)'
  <2>1. pc[c] # "spin" /\ pc'[c] # "spin"
    BY <1>2 DEF Up
  <2>2. \/ affinity_info[c] # "OnPending"
        \/ pc[c] = "boot"
        \/ affinity_info'[c] = affinity_info[c] /\ pc'[c] \in {"off_wfi", "off"}
    BY <1>1, <1>2
  <2>3. affinity_info'[c] = "OnPending" => affinity_info[c] = "OnPending"
    BY <1>1
  <2>4. pc[c] = "boot" => affinity_info'[c] # "OnPending"
    BY <1>1
  <2> QED
    BY <1>1, <1>2, <2>1, <2>2, <2>3, <2>4, SameStart
<1>7. SystemInv'
  BY <1>1 DEF FInv, SystemInv, SystemSuspended
<1>8. \A d \in power'.cluster_off : d # "system" /\ local_state'[d] = "Off"
  BY <1>1 DEF FInv
<1>9. ~panicked'
  BY DEF FInv
<1> QED
  BY <1>3, <1>4, <1>5, <1>6, <1>7, <1>8, <1>9 DEF FInv

\* A core in WFI with its power off pending goes off.
LEMMA PowerOffInv ==
  ASSUME FInv, NEW c \in Core, PowerOff(c)
  PROVE  FInv'
<1>1. power \in PowerType
  BY DEF FInv, TypeOK, PowerType
<1>2. power' = [power EXCEPT !.l0 = @ \ {c}, !.off = @ \ {c}]
  BY DEF PowerOff
<1>3. /\ power' \in PowerType /\ power'.l0 = power.l0 \ {c}
      /\ power'.off = power.off \ {c} /\ power'.wen = power.wen
      /\ power'.cluster_off = power.cluster_off
  BY <1>1, <1>2 DEF PowerType
<1>4. /\ ~Up(c) /\ pc[c] # "boot" /\ pc' = [pc EXCEPT ![c] = "off"]
      /\ UNCHANGED <<psci, target, gic, written, panicked>>
  BY DEF PowerOff, Up
<1> QED
  BY <1>3, <1>4, CoreMoves

\* An interrupt starts a core that is suspended.
LEMMA WakeInv ==
  ASSUME FInv, NEW c \in Core, Wake(c)
  PROVE  FInv'
<1>1. power \in PowerType /\ affinity_info \in [Core -> {"On", "Off", "OnPending"}]
  BY DEF FInv, TypeOK, PowerType
<1>2. power' = [power EXCEPT !.l0 = @ \cup {c}]
  BY DEF Wake
<1>3. /\ power' \in PowerType /\ power'.l0 = power.l0 \cup {c}
      /\ power'.off = power.off /\ power'.wen = power.wen
      /\ power'.cluster_off = power.cluster_off
  BY <1>1, <1>2 DEF PowerType
<1>4. /\ ~Up(c) /\ pc[c] = "off" /\ c \in power.wen /\ pc' = [pc EXCEPT ![c] = "boot"]
      /\ UNCHANGED <<psci, target, gic, written, panicked>>
  BY DEF Wake, Up
<1>5. affinity_info[c] = "On" /\ c \notin power.off
  BY <1>4 DEF FInv, DownInv
<1> QED
  BY <1>3, <1>4, <1>5, CoreMoves

\* Cores, PSCI and power controller stay as they are when the distributor is
\* lost, written, or left alone.
LEMMA CoresStay ==
  ASSUME FInv, UNCHANGED <<psci, pc, target, panicked>>, TypeOK', SystemInv',
         power'.l0 = power.l0, power'.off = power.off, power'.wen = power.wen,
         power'.cluster_off \subseteq power.cluster_off,
         gic'.awake = gic.awake,
         \/ gic'.on = gic.on /\ gic'.gicd = gic.gicd
         \/ gic'.on = gic.on /\ gic.gicd # "lost"
         \/ gic'.gicd = "lost" /\ \A c \in Core : ~Up(c)
  PROVE  FInv'
<1>1. /\ affinity_info' = affinity_info /\ requested' = requested
      /\ local_state' = local_state /\ pc' = pc /\ target' = target
  BY DEF psci
<1>2. ASSUME NEW c \in Core PROVE UpInv(c)' /\ DownInv(c)' /\ StartInv(c)'
  <2>1. UpInv(c) /\ DownInv(c) /\ StartInv(c)
    BY DEF FInv
  <2>2. Up(c)' <=> Up(c)
    BY <1>1 DEF Up
  <2>3. UpInv(c)'
    BY <1>1, <2>1, <2>2 DEF UpInv
  <2>4. DownInv(c)'
    BY <1>1, <2>1, <2>2 DEF DownInv
  <2>5. StartInv(c)'
    BY <1>1, <2>1 DEF StartInv, Locked
  <2> QED
    BY <2>3, <2>4, <2>5
<1>3. \A d \in power'.cluster_off : d # "system" /\ local_state'[d] = "Off"
  BY <1>1 DEF FInv
<1>4. ~panicked'
  BY DEF FInv
<1> QED
  BY <1>2, <1>3, <1>4 DEF FInv

\* The power controller takes a cluster down.
LEMMA ClusterOffInv ==
  ASSUME FInv, NEW d \in Domain, ClusterOff(d)
  PROVE  FInv'
<1>1. power \in PowerType /\ TypeOK /\ SystemInv
  BY DEF FInv, TypeOK, PowerType
<1>2. /\ power' = [power EXCEPT !.cluster_off = @ \ {d}]
      /\ UNCHANGED <<psci, pc, target, gic, written, panicked>>
  BY DEF ClusterOff
<1>3. /\ power' \in PowerType /\ power'.l0 = power.l0
      /\ power'.off = power.off /\ power'.wen = power.wen
      /\ power'.cluster_off \subseteq power.cluster_off
  BY <1>1, <1>2 DEF PowerType
<1>4. TypeOK'
  BY <1>1, <1>2, <1>3 DEF TypeOK, PowerType, psci
<1>5. SystemInv'
  BY <1>1, <1>2 DEF SystemInv, SystemSuspended, psci
<1> QED
  BY <1>2, <1>3, <1>4, <1>5, CoresStay

\* The system goes down, with every core down already.
LEMMA SystemOffInv ==
  ASSUME FInv, SystemOff
  PROVE  FInv'
<1>1. gic \in GicType /\ TypeOK /\ SystemInv
  BY DEF FInv, TypeOK, GicType
<1>2. /\ power.l0 = {} /\ local_state["system"] = "Off"
      /\ gic' = [gic EXCEPT !.gicd = "lost", !.on = {}]
      /\ UNCHANGED <<psci, pc, target, power, written, panicked>>
  BY DEF SystemOff
<1>3. /\ gic' \in GicType /\ gic'.gicd = "lost" /\ gic'.context = gic.context
      /\ gic'.awake = gic.awake
  BY <1>1, <1>2 DEF GicType, Gicd
<1>4. TypeOK'
  BY <1>1, <1>2, <1>3 DEF TypeOK, GicType, psci
<1>5. SystemInv'
  BY <1>1, <1>2, <1>3 DEF SystemInv, SystemSuspended, psci
<1>6. \A c \in Core : ~Up(c)
  BY <1>2 DEF FInv, UpInv
<1> QED
  BY <1>2, <1>3, <1>4, <1>5, <1>6, CoresStay

\* The normal world writes to the distributor, which is there while a core runs.
LEMMA ConfigureInv ==
  ASSUME FInv, NEW c \in Core, Configure(c)
  PROVE  FInv'
<1>1. gic \in GicType /\ TypeOK /\ SystemInv
  BY DEF FInv, TypeOK, GicType
<1>2. /\ Up(c) /\ written' = "b" /\ gic' = [gic EXCEPT !.gicd = written']
      /\ UNCHANGED <<psci, pc, target, power, panicked>>
  BY DEF Configure, Running, Up
<1>3. local_state["system"] = "Run" /\ gic.gicd # "lost"
  BY <1>2, SystemUp
<1>4. /\ gic' \in GicType /\ gic'.gicd = written' /\ gic'.on = gic.on
      /\ gic'.awake = gic.awake /\ gic'.context = gic.context
      /\ written' \in Written
  BY <1>1, <1>2 DEF GicType, Gicd, Written
<1>5. TypeOK'
  BY <1>1, <1>2, <1>4 DEF TypeOK, GicType, psci
<1>6. SystemInv'
  <2>1. written' # "lost"
    BY <1>2
  <2> QED
    BY <1>1, <1>2, <1>3, <1>4, <2>1 DEF SystemInv, SystemSuspended, psci
<1> QED
  BY <1>2, <1>3, <1>4, <1>5, <1>6, CoresStay

-----------------------------------------------------------------------------
(* Init and Next.                                                          *)

\* The invariant holds at first: the primary core is up, the others are off.
LEMMA InitInv == Init => FInv
<1> SUFFICES ASSUME Init PROVE FInv
  OBVIOUS
<1>1. /\ \A c \in Core : /\ affinity_info[c] = IF c = Primary THEN "On" ELSE "Off"
                         /\ requested[c] = IF c = Primary THEN -1 ELSE 2
                         /\ pc[c] = IF c = Primary THEN "run" ELSE "off"
      /\ power.l0 = {Primary} /\ power.wen = {} /\ power.off = {}
      /\ power.cluster_off = {}
      /\ gic.gicd = "a" /\ gic.context = "zeroed"
      /\ gic.on = {Primary} /\ gic.awake = {Primary}
      /\ written = "a" /\ panicked = FALSE
  BY DEF Init
<1>2. local_state[Cluster[Primary]] = "Run" /\ local_state["system"] = "Run"
  BY FvpAssumption, Domains DEF Init
<1>3. -1 # 2 /\ 2 \in Level /\ -1 \in Level \cup {-1}
  BY SMT DEF Level
<1>4. TypeOK
  <2>1. /\ affinity_info \in [Core -> {"On", "Off", "OnPending"}]
        /\ pc \in [Core -> {"run", "spin", "off_wfi", "suspend_wfi", "off", "boot"}]
        /\ target \in [Core -> Core] /\ local_state \in [Domain -> {"Run", "Off"}]
    BY DEF Init
  <2>2. requested \in [Core -> Level \cup {-1}]
    BY <1>3 DEF Init
  <2>3. power \in [l0 : SUBSET Core, wen : SUBSET Core, off : SUBSET Core,
                   cluster_off : SUBSET Domain]
    BY FvpAssumption DEF Init
  <2>4. gic \in [gicd : Gicd, context : Gicd, on : SUBSET Core,
                 awake : SUBSET Core]
    BY FvpAssumption DEF Init, Gicd, Written
  <2> QED
    BY <1>1, <2>1, <2>2, <2>3, <2>4 DEF TypeOK, Written
<1>5. ASSUME NEW c \in Core PROVE UpInv(c) /\ DownInv(c) /\ StartInv(c)
  <2>1. CASE c = Primary
    BY <1>1, <1>2, <2>1 DEF UpInv, DownInv, StartInv, Up
  <2>2. CASE c # Primary
    BY <1>1, <1>3, <2>2 DEF UpInv, DownInv, StartInv, Up
  <2> QED
    BY <2>1, <2>2
<1>6. SystemInv
  <2>1. \A c \in Core : ~SystemSuspended(c)
    BY <1>1, <1>3 DEF SystemSuspended
  <2> QED
    BY <1>1, <1>2, <2>1 DEF SystemInv
<1> QED
  BY <1>1, <1>4, <1>5, <1>6 DEF FInv

\* Every step keeps the invariant.
LEMMA NextInv ==
  ASSUME FInv, [Next]_vars
  PROVE  FInv'
<1>1. ASSUME NEW c \in Core, Handlers(c) PROVE FInv'
  BY <1>1, PowerDomainOnInv, BootInv, PowerOffInv DEF Handlers
<1>2. ASSUME NEW c \in Core, CpuOn(c) PROVE FInv'
  BY <1>2, CpuOnInv
<1>3. ASSUME NEW c \in Core, power_domain_off(c) PROVE FInv'
  BY <1>3, PowerDomainOffInv
<1>4. ASSUME NEW c \in Core, CpuSuspend(c) \/ SystemSuspend(c) PROVE FInv'
  BY <1>4, SuspendInv
<1>5. ASSUME NEW c \in Core, Wake(c) \/ Configure(c) PROVE FInv'
  BY <1>5, WakeInv, ConfigureInv
<1>6. ASSUME NEW d \in Domain, ClusterOff(d) PROVE FInv'
  BY <1>6, ClusterOffInv
<1>7. CASE UNCHANGED vars
  <2>1. UNCHANGED <<pc, affinity_info, requested, local_state, power, gic, target, written,
                    panicked>>
    BY <1>7, SMT DEF vars, psci
  <2>2. TypeOK' /\ ~panicked'
    BY <2>1 DEF FInv, TypeOK
  <2>3. SystemInv'
    BY <2>1 DEF FInv, SystemInv, SystemSuspended
  <2>4. ASSUME NEW c \in Core PROVE UpInv(c)' /\ DownInv(c)' /\ StartInv(c)'
    <3>1. UpInv(c) /\ DownInv(c) /\ StartInv(c)
      BY DEF FInv
    <3> QED
      BY <2>1, <3>1 DEF UpInv, DownInv, StartInv, Locked, Up
  <2> QED
    BY <2>1, <2>2, <2>3, <2>4 DEF FInv
<1> QED
  BY <1>1, <1>2, <1>3, <1>4, <1>5, <1>6, <1>7, SystemOffInv DEF Next

-----------------------------------------------------------------------------
(* The distributor.                                                        *)

\* CPU_OFF leaves another core that is on, and not in SYSTEM_SUSPEND: the system
\* stays up.
LEMMA OffKeeps ==
  ASSUME ~OffWhileStarting, FInv, KeptInv, NEW c \in Core, power_domain_off(c)
  PROVE  KeptInv'
<1>1. Up(c) /\ 2 \in Level
  BY DEF power_domain_off, Running, Up, Level
<1>2. PICK d \in Core \ {c} : affinity_info[d] = "On"
  BY DEF power_domain_off
<1>3. requested[d] # 2
  BY <1>1, <1>2, SystemUp DEF SystemSuspended
<1>4. local_state'["system"] # "Off"
  <2>1. Agreed(c, 2, local_state')
    <3>1. local_state' = coordinate_state(c, 2)
      BY DEF power_domain_off
    <3> QED
      BY <1>1, <3>1, Coordinated
  <2> QED
    BY <1>2, <1>3, <2>1 DEF Agreed
<1>5. gic \in GicType
  BY DEF FInv, TypeOK, GicType
<1>6. gic'.gicd = gic.gicd /\ written' = written
  BY <1>5 DEF power_domain_off, redistributor_off, cpu_interface_disable, GicType
<1> QED
  BY <1>4, <1>6 DEF KeptInv

\* The core that takes the system down is in SYSTEM_SUSPEND, and saves the
\* distributor.
LEMMA SuspendKeeps ==
  ASSUME FInv, KeptInv, NEW c \in Core, CpuSuspend(c) \/ SystemSuspend(c)
  PROVE  KeptInv'
<1>1. PICK level \in Level : Running(c) /\ power_domain_suspend(c, level)
  BY SMT DEF CpuSuspend, SystemSuspend, Level
<1>2. Up(c) /\ UpInv(c) /\ TypeOK /\ gic \in GicType
  BY <1>1 DEF Running, Up, FInv, TypeOK, GicType
<1>3. gic.gicd = written
  BY <1>2, SystemUp DEF KeptInv
<1>4. PICK cs : cs = coordinate_state(c, level)
  OBVIOUS
<1>5. /\ local_state' = cs /\ written' = written
      /\ requested' = [requested EXCEPT ![c] = level]
      /\ affinity_info' = affinity_info
      /\ gic' = IF cs["system"] = "Off"
                THEN save_system_power_domain(cpu_interface_disable(gic, c))
                ELSE cpu_interface_disable(gic, c)
  BY <1>1, <1>4 DEF power_domain_suspend
<1>6. CASE cs["system"] = "Off"
  <2>1. level = 2
    <3>1. Agreed(c, level, cs)
      BY <1>2, <1>4, Coordinated
    <3> QED
      BY <1>6, <3>1 DEF Agreed
  <2>2. SystemSuspended(c)'
    BY <1>2, <1>5, <2>1 DEF SystemSuspended, UpInv, TypeOK
  <2>3. gic'.context = gic.gicd /\ gic'.gicd = gic.gicd
    BY <1>2, <1>5, <1>6
    DEF save_system_power_domain, distributor_save, cpu_interface_disable, GicType
  <2> QED
    BY <1>3, <1>5, <2>2, <2>3 DEF KeptInv
<1>7. CASE cs["system"] # "Off"
  <2>1. gic'.gicd = gic.gicd
    BY <1>2, <1>5, <1>7 DEF cpu_interface_disable, GicType
  <2> QED
    BY <1>3, <1>5, <1>7, <2>1 DEF KeptInv
<1> QED
  BY <1>6, <1>7

\* The core that brings the system up restores what was saved.
LEMMA BootKeeps ==
  ASSUME FInv, KeptInv, NEW c \in Core, handle_cpu_boot(c)
  PROVE  KeptInv'
<1>1. gic \in GicType
  BY DEF FInv, TypeOK, GicType
<1>2. PICK g \in GicType : g = FinishGic(c)
  <2>1. FinishGic(c) \in GicType
    BY <1>1
    DEF FinishGic, restore_system_power_domain, redistributor_restore,
        distributor_restore, GicType
  <2> QED
    BY <2>1
<1>3. g.gicd = IF local_state["system"] = "Off" THEN gic.context ELSE gic.gicd
  BY <1>1, <1>2
  DEF FinishGic, restore_system_power_domain, redistributor_restore,
      distributor_restore, GicType
<1>4. g.gicd \in {"lost", written}
  BY <1>3 DEF KeptInv
<1>5. gic' \in {cpu_interface_enable(redistributor_init(g, c), c),
                cpu_interface_enable(g, c)}
  BY <1>2
  DEF handle_cpu_boot, power_domain_on_finish, power_domain_suspend_finish
<1>6. gic'.gicd = g.gicd
  BY <1>2, <1>5 DEF cpu_interface_enable, redistributor_init, GicType
<1>7. written' = written /\ local_state'["system"] = "Run"
  BY Domains DEF handle_cpu_boot, set_running
<1> QED
  BY <1>4, <1>6, <1>7 DEF KeptInv

\* The normal world writes while the system is up; a power off happens only to a
\* system that is down, and leaves the saved context.
LEMMA WriteKeeps ==
  ASSUME FInv, KeptInv, SystemOff \/ \E c \in Core : Configure(c)
  PROVE  KeptInv'
<1>1. gic \in GicType
  BY DEF FInv, TypeOK, GicType
<1>2. CASE SystemOff
  <2>1. gic'.gicd = "lost" /\ gic'.context = gic.context
    BY <1>1, <1>2 DEF SystemOff, GicType
  <2> QED
    BY <1>2, <2>1 DEF SystemOff, KeptInv, SystemSuspended, psci
<1>3. ASSUME NEW c \in Core, Configure(c) PROVE KeptInv'
  <2>1. local_state["system"] = "Run"
    BY <1>3, SystemUp DEF Configure, Running, Up
  <2>2. gic'.gicd = written' /\ local_state' = local_state
    BY <1>1, <1>3 DEF Configure, GicType, psci
  <2> QED
    BY <2>1, <2>2 DEF KeptInv
<1> QED
  BY <1>2, <1>3

\* Every step keeps the distributor, unless the last core goes off while it
\* starts another.
LEMMA NextKeeps ==
  ASSUME ~OffWhileStarting, FInv, KeptInv, [Next]_vars
  PROVE  KeptInv'
<1>1. ASSUME NEW c \in Core, CpuOn(c) PROVE KeptInv'
  <2>1. local_state["system"] = "Run"
    BY <1>1, SystemUp DEF CpuOn, Running, Up
  <2> QED
    BY <1>1, <2>1 DEF CpuOn, KeptInv
<1>2. ASSUME UNCHANGED <<psci, gic, written>> PROVE KeptInv'
  BY <1>2 DEF psci, KeptInv, SystemSuspended
<1>3. ASSUME NEW c \in Core, power_domain_on(c) \/ PowerOff(c) \/ Wake(c)
      PROVE  KeptInv'
  BY <1>2, <1>3 DEF power_domain_on, PowerOff, Wake
<1>4. ASSUME NEW d \in Domain, ClusterOff(d) PROVE KeptInv'
  BY <1>2, <1>4 DEF ClusterOff
<1>5. CASE UNCHANGED vars
  BY <1>2, <1>5 DEF vars
<1> QED
  BY <1>1, <1>3, <1>4, <1>5, OffKeeps, SuspendKeeps, BootKeeps, WriteKeeps
  DEF Next, Handlers

-----------------------------------------------------------------------------
(* The theorems.                                                           *)

\* In every behaviour, PSCI, power controller and GIC agree on every core.
THEOREM FvpInvariance == Spec => []FInv
<1>1. FInv /\ [Next]_vars => FInv'
  BY NextInv
<1> QED
  BY <1>1, InitInv, PTL DEF Spec

\* No assert!, unwrap() or panic! of the handlers and hooks fails.
THEOREM FvpNeverPanics == Spec => []NoPanic
<1>1. FInv => NoPanic
  BY DEF FInv, NoPanic
<1> QED
  BY <1>1, FvpInvariance, PTL

\* The power controller does with every core what PSCI believes of it: WFI goes
\* down if and only if it was asked to, and a suspended core can be woken.
THEOREM PowerControllerAlwaysInStep == Spec => []PowerControllerInStep
<1>1. ASSUME FInv PROVE PowerControllerInStep
  <2>1. PowersDown
    BY <1>1 DEF FInv, DownInv, Up, PowersDown
  <2>2. PlainWfiReturns
    BY <1>1 DEF FInv, UpInv, Up, PlainWfiReturns
  <2>3. ASSUME NEW c \in Core, pc[c] = "off"
        PROVE  /\ affinity_info[c] = "On" =>
                    c \in power.wen /\ (c \in gic.on \/ gic.gicd = "lost")
               /\ affinity_info[c] # "On" => c \notin power.wen
    BY <1>1, <2>3 DEF FInv, DownInv, Up
  <2>4. WakesIfSuspended
    BY <2>3 DEF WakesIfSuspended
  <2> QED
    BY <2>1, <2>2, <2>4 DEF PowerControllerInStep
<1> QED
  BY <1>1, FvpInvariance, PTL

\* What the normal world wrote to the distributor is never gone for good, if the
\* last core does not go off while it starts another.
THEOREM KeptInvariance ==
  ASSUME ~OffWhileStarting
  PROVE  Spec => []KeptInv
<1>1. Init => KeptInv
  <2>1. ASSUME Init PROVE local_state["system"] = "Run"
    BY <2>1, Domains DEF Init
  <2>2. ASSUME Init PROVE gic.gicd = written
    BY <2>2 DEF Init
  <2> QED
    BY <2>1, <2>2 DEF KeptInv
<1>2. FInv /\ KeptInv /\ [Next]_vars => KeptInv'
  BY NextKeeps
<1> QED
  BY <1>1, <1>2, FvpInvariance, PTL DEF Spec

\* Then a core that runs finds the distributor as the normal world left it.
THEOREM GicAlwaysKept ==
  ASSUME ~OffWhileStarting
  PROVE  Spec => []GicKept
<1>1. FInv /\ KeptInv => GicKept
  BY SystemUp DEF KeptInv, GicKept, Up
<1> QED
  BY <1>1, FvpInvariance, KeptInvariance, PTL

\* And a core that is started leaves the distributor alone: only the resume from
\* SYSTEM_SUSPEND restores it.
THEOREM StartLeavesDistributor ==
  ASSUME ~OffWhileStarting
  PROVE  Spec => RestoredOnlyOnResume
<1>1. ASSUME FInv, KeptInv, NEW c \in Core, handle_cpu_boot(c),
             affinity_info[c] = "OnPending"
      PROVE  gic'.gicd = gic.gicd
  <2>1. gic \in GicType
    BY <1>1 DEF FInv, TypeOK, GicType
  <2>2. local_state["system"] # "Off"
    BY <1>1 DEF FInv, KeptInv, SystemInv, SystemSuspended
  <2>3. gic' = cpu_interface_enable(redistributor_init(gic, c), c)
    BY <1>1, <2>2 DEF handle_cpu_boot, power_domain_on_finish, FinishGic
  <2> QED
    BY <2>1, <2>3 DEF cpu_interface_enable, redistributor_init, GicType
<1>2. FInv /\ KeptInv =>
        [\A c \in Core : handle_cpu_boot(c) /\ affinity_info[c] = "OnPending"
           => gic'.gicd = gic.gicd]_vars
  BY <1>1
<1> QED
  BY <1>2, FvpInvariance, KeptInvariance, PTL DEF RestoredOnlyOnResume
=============================================================================
