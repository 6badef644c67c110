----------------------------- MODULE QemuPower ------------------------------
(***************************************************************************)
(* Power management of the QEMU platform below PSCI.  A core that is off   *)
(* polls its slot of the hold pen in shared memory; CPU_ON writes the      *)
(* entry point there.  Cold boot is part of the model: the memory holds    *)
(* anything but a valid slot, and secondary cores poll while the primary   *)
(* initialises it.  Each access to a slot is a step; the barriers of the   *)
(* code order them.  (Affinity: as in Psci::cpu_on, cpu_off and            *)
(* handle_cpu_boot.)                                                       *)
(***************************************************************************)
EXTENDS Naturals

CONSTANTS CORE_COUNT

VARIABLES
  slot,                     \* [Cores -> HoldSlot]
  pc,                       \* [Cores -> where the core is]
  init,                     \* the next step of plat_hold_pen_init
  event,                    \* cores whose event register is set
  target,                   \* [Cores -> the core that its CPU_ON starts]
  affinity_info,            \* [Cores -> On, Off or OnPending]
  per_cpu_powerdown_kinds,  \* [Cores -> Off or Suspend]
  awake,                    \* cores whose redistributor is awake
  panicked                  \* an assert!, unwrap() or panic! of EL3 failed

vars == <<slot, pc, init, event, target, affinity_info, per_cpu_powerdown_kinds,
          awake, panicked>>

\* There is a primary core.
CoreCountAssumption == CORE_COUNT \in Nat \ {0}

Cores == 0 .. CORE_COUNT - 1
PrimaryCore == 0

\* An entry is HOLD_STATE_WAIT, bl31_warm_entrypoint or what memory held.
Entry == {"wait", "warm", "garbage"}
HoldSlot == [entry : Entry, magic1 : BOOLEAN, magic2 : BOOLEAN]

Polling == {"magic1", "magic2", "entry", "reset", "wfe", "asleep"}

\* Types of the variables.
TypeOK ==
  /\ slot \in [Cores -> HoldSlot]
  /\ pc \in [Cores -> Polling \cup {"init", "boot", "run", "signal", "power_down",
                                   "wfi", "garbage"}]
  /\ init \in [core : 0 .. CORE_COUNT, step : {"entry", "magic1", "magic2"}]
  /\ event \subseteq Cores
  /\ target \in [Cores -> Cores]
  /\ affinity_info \in [Cores -> {"On", "Off", "OnPending"}]
  /\ per_cpu_powerdown_kinds \in [Cores -> {"Off", "Suspend"}]
  /\ awake \subseteq Cores
  /\ panicked \in BOOLEAN

Goto(c, label) == pc' = [pc EXCEPT ![c] = label]

-----------------------------------------------------------------------------
(* The hold pen.                                                           *)

\* The order in which a slot is written, after its entry.
InitOrder(step) ==
  CASE step = "entry" -> "magic1" [] step = "magic1" -> "magic2"
    [] step = "magic2" -> "done"

\* The cold boot of the primary core; after the last slot it goes on to boot the
\* normal world, with its GIC interface enabled.
plat_hold_pen_init ==
  /\ pc[PrimaryCore] = "init"
  /\ IF init.core = CORE_COUNT
     THEN Goto(PrimaryCore, "run") /\ awake' = awake \cup {PrimaryCore}
            /\ UNCHANGED <<slot, init>>
     ELSE LET i == init.core
              next == InitOrder(init.step)
          IN  /\ slot' = [slot EXCEPT ![i] =
                   CASE init.step = "entry" -> [@ EXCEPT !.entry = "wait"]
                     [] init.step = "magic1" -> [@ EXCEPT !.magic1 = TRUE]
                     [] init.step = "magic2" -> [@ EXCEPT !.magic2 = TRUE]]
              /\ init' = IF next = "done" THEN [core |-> i + 1, step |-> "entry"]
                         ELSE [core |-> i, step |-> next]
              /\ UNCHANGED <<pc, awake>>
  /\ UNCHANGED <<event, target, affinity_info, per_cpu_powerdown_kinds, panicked>>

\* Mutant: the slot keeps the entry.
BranchAtOnce(c) ==
  /\ pc[c] = "reset"
  /\ Goto(c, "boot")
  /\ UNCHANGED <<slot, init, event, target, affinity_info,
                 per_cpu_powerdown_kinds, awake, panicked>>

\* The entry is taken back before the branch.
ResetAndBranch(c) ==
  /\ pc[c] = "reset"
  /\ slot' = [slot EXCEPT ![c].entry = "wait"]
  /\ Goto(c, "boot")
  /\ UNCHANGED <<init, event, target, affinity_info, per_cpu_powerdown_kinds,
                 awake, panicked>>

\* plat_secondary_cold_boot_setup: the loads.  A load of the entry that is
\* neither "wait" nor "warm" is a branch to nowhere.
Load(c) ==
  /\ \/ /\ pc[c] = "magic1"
        /\ Goto(c, IF slot[c].magic1 THEN "magic2" ELSE "wfe")
     \/ /\ pc[c] = "magic2"
        /\ Goto(c, IF slot[c].magic2 THEN "entry" ELSE "wfe")
     \/ /\ pc[c] = "entry"
        /\ Goto(c, CASE slot[c].entry = "wait" -> "wfe"
                     [] slot[c].entry = "warm" -> "reset"
                     [] OTHER -> "garbage")
  /\ UNCHANGED <<slot, init, event, target, affinity_info,
                 per_cpu_powerdown_kinds, awake, panicked>>

\* WFE clears the event register if it is set, and else waits until it is.
Wfe(c) ==
  /\ \/ /\ pc[c] \in {"wfe", "asleep"} /\ c \in event
        /\ event' = event \ {c}
        /\ Goto(c, "magic1")
     \/ /\ pc[c] = "wfe" /\ c \notin event
        /\ Goto(c, "asleep")
        /\ UNCHANGED event
  /\ UNCHANGED <<slot, init, target, affinity_info, per_cpu_powerdown_kinds,
                 awake, panicked>>

-----------------------------------------------------------------------------
(* Handlers and hooks.                                                     *)

Running(c) == pc[c] = "run" /\ ~panicked

\* Psci::cpu_on with power_domain_on: plat_hold_pen_signal writes the entry, and
\* then sends the event; the lock of the target is taken until then.
CpuOn(c) ==
  /\ Running(c)
  /\ \E t \in Cores :
       /\ affinity_info[t] = "Off"
       /\ affinity_info' = [affinity_info EXCEPT ![t] = "OnPending"]
       /\ slot' = [slot EXCEPT ![t].entry = "warm"]
       /\ target' = [target EXCEPT ![c] = t]
  /\ Goto(c, "signal")
  /\ UNCHANGED <<init, event, per_cpu_powerdown_kinds, awake, panicked>>

\* Mutant: only the cores that sleep see the event.
SignalWaiting(c) ==
  /\ pc[c] = "signal"
  /\ event' = event \cup {d \in Cores : pc[d] = "asleep"}
  /\ target' = [target EXCEPT ![c] = c]
  /\ Goto(c, "run")
  /\ UNCHANGED <<slot, init, affinity_info, per_cpu_powerdown_kinds,
                 awake, panicked>>

sev(c) ==
  /\ pc[c] = "signal"
  /\ event' = Cores
  /\ target' = [target EXCEPT ![c] = c]
  /\ Goto(c, "run")
  /\ UNCHANGED <<slot, init, affinity_info, per_cpu_powerdown_kinds,
                 awake, panicked>>

\* Psci::cpu_off with power_domain_off.
power_domain_off(c) ==
  /\ Running(c)
  /\ panicked' = (c \notin awake)
  /\ awake' = awake \ {c}
  /\ per_cpu_powerdown_kinds' = [per_cpu_powerdown_kinds EXCEPT ![c] = "Off"]
  /\ affinity_info' = [affinity_info EXCEPT ![c] = "Off"]
  /\ Goto(c, "power_down")
  /\ UNCHANGED <<slot, init, event, target>>

\* Psci::cpu_suspend_start with power_domain_suspend, for a power down.
power_domain_suspend(c) ==
  /\ Running(c)
  /\ per_cpu_powerdown_kinds' = [per_cpu_powerdown_kinds EXCEPT ![c] = "Suspend"]
  /\ Goto(c, "power_down")
  /\ UNCHANGED <<slot, init, event, target, affinity_info, awake, panicked>>

power_domain_power_down(c) ==
  /\ pc[c] = "power_down"
  /\ Goto(c, IF per_cpu_powerdown_kinds[c] = "Off" THEN "magic1" ELSE "wfi")
  /\ UNCHANGED <<slot, init, event, target, affinity_info,
                 per_cpu_powerdown_kinds, awake, panicked>>

\* An interrupt ends WFI, and the core goes to the warm boot entry point.
Wake(c) ==
  /\ pc[c] = "wfi"
  /\ Goto(c, "boot")
  /\ UNCHANGED <<slot, init, event, target, affinity_info,
                 per_cpu_powerdown_kinds, awake, panicked>>

\* Psci::handle_cpu_boot with power_domain_on_finish, which enables the GIC
\* interface, or power_domain_suspend_finish, which does nothing.
handle_cpu_boot(c) ==
  LET starting == affinity_info[c] = "OnPending"
  IN  /\ pc[c] = "boot" /\ ~panicked
      /\ ~\E d \in Cores : pc[d] = "signal" /\ target[d] = c
      /\ panicked' = (affinity_info[c] = "Off" \/ (starting /\ c \in awake))
      /\ awake' = IF starting THEN awake \cup {c} ELSE awake
      /\ affinity_info' = [affinity_info EXCEPT ![c] = "On"]
      /\ Goto(c, "run")
      /\ UNCHANGED <<slot, init, event, target, per_cpu_powerdown_kinds>>

Init ==
  /\ slot \in [Cores -> {s \in HoldSlot : ~(s.magic1 /\ s.magic2)}]
  /\ pc = [c \in Cores |-> IF c = PrimaryCore THEN "init" ELSE "magic1"]
  /\ init = [core |-> 0, step |-> "entry"]
  /\ event = {}
  /\ target = [c \in Cores |-> c]
  /\ affinity_info = [c \in Cores |-> IF c = PrimaryCore THEN "On" ELSE "Off"]
  /\ per_cpu_powerdown_kinds = [c \in Cores |-> "Off"]
  /\ awake = {}
  /\ panicked = FALSE

Handlers(c) ==
  \/ sev(c) \/ Load(c) \/ Wfe(c) \/ ResetAndBranch(c) \/ power_domain_power_down(c)
  \/ handle_cpu_boot(c)

Next ==
  \/ plat_hold_pen_init
  \/ \E c \in Cores : \/ Handlers(c) \/ CpuOn(c) \/ power_domain_off(c)
                     \/ power_domain_suspend(c) \/ Wake(c)

\* A core that can go on does.
Spec == Init /\ [][Next]_vars /\ \A c \in Cores : WF_vars(Handlers(c))

-----------------------------------------------------------------------------
(* Properties.                                                             *)

\* No core leaves the hold pen for an address that CPU_ON did not write, boots
\* without being started, or trips over its GIC interface.
NoPanic == ~panicked /\ \A c \in Cores : pc[c] # "garbage"

\* A core that was started leaves the hold pen and runs, whenever the entry and
\* the event arrive.
StartedCoresRun ==
  \A c \in Cores : (affinity_info[c] = "OnPending") ~> (pc[c] = "run")
=============================================================================
