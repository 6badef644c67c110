------------------------------ MODULE FvpPower ------------------------------
(***************************************************************************)
(* Power management of the FVP platform below PSCI: the power controller,  *)
(* the GIC, and the hooks power_domain_* of FvpPsciPlatformImpl as the     *)
(* PSCI handlers of psci.rs call them, in platform-coordinated mode.       *)
(*                                                                         *)
(* A handler runs its hook with the locks of the power domains that it     *)
(* changes, so that part of it is one action.  CPU_ON holds the lock of    *)
(* its target only, and spins on the power controller with it.  The power  *)
(* domains have the states Run and Off: the platform has retention at the  *)
(* level of the core only, which is plain WFI.                             *)
(***************************************************************************)
EXTENDS Integers

CONSTANTS Core, Primary,
          Cluster,          \* [Core -> clusters]
          OffWhileStarting  \* may the last core go off while it starts another?

ASSUME FvpAssumption == Primary \in Core /\ \A c \in Core : Cluster[c] # "system"

VARIABLES
  affinity_info,  \* [Core -> On, Off or OnPending]
  requested,      \* [Core -> highest level it lets go off; -1 while it runs]
  local_state,    \* [clusters and "system" -> Run or Off]
  pc,             \* [Core -> where the core is in its handler]
  target,         \* [Core -> the core that its CPU_ON starts]
  power,          \* the power controller
  gic,            \* distributor, redistributors, and the saved context
  written,        \* what the normal world last wrote to the distributor
  panicked        \* an assert!, unwrap() or panic! of EL3 failed

psci == <<affinity_info, requested, local_state>>
vars == <<psci, pc, target, power, gic, written, panicked>>

Level == 0 .. 2
Domain == {Cluster[c] : c \in Core} \cup {"system"}
Siblings(c) == {d \in Core : Cluster[d] = Cluster[c]}

\* Distributor registers: what the normal world wrote, the zeroes of an unused
\* context, or what a power off leaves.
Written == {"a", "b"}
Gicd == Written \cup {"zeroed", "lost"}

\* Types of the variables.
TypeOK ==
  /\ affinity_info \in [Core -> {"On", "Off", "OnPending"}]
  /\ requested \in [Core -> Level \cup {-1}]
  /\ local_state \in [Domain -> {"Run", "Off"}]
  /\ pc \in [Core -> {"run", "spin", "off_wfi", "suspend_wfi", "off", "boot"}]
  /\ target \in [Core -> Core]
  /\ power \in [l0 : SUBSET Core, wen : SUBSET Core, off : SUBSET Core,
                cluster_off : SUBSET Domain]
  /\ gic \in [gicd : Gicd, context : Gicd, on : SUBSET Core,
              awake : SUBSET Core]
  /\ written \in Written
  /\ panicked \in BOOLEAN

-----------------------------------------------------------------------------
(* The power controller.                                                   *)

enable_wakeup_requests(p, c) == [p EXCEPT !.wen = @ \cup {c}]
disable_wakeup_requests(p, c) == [p EXCEPT !.wen = @ \ {c}]
power_off_processor(p, c) == [p EXCEPT !.off = @ \cup {c}]
power_off_cluster(p, c) == [p EXCEPT !.cluster_off = @ \cup {Cluster[c]}]

\* Powers the core on, and cancels what is pending for it and its cluster.
power_on_processor(p, c) ==
  [p EXCEPT !.l0 = @ \cup {c}, !.off = @ \ {c},
            !.cluster_off = @ \ {Cluster[c]}]

-----------------------------------------------------------------------------
(* The GIC.  unwrap() in the two operations on the CPU interface fails when *)
(* the core is marked awake, or asleep, already.                            *)

redistributor_init(g, c) == [g EXCEPT !.on = @ \cup {c}]
redistributor_off(g, c) == [g EXCEPT !.on = @ \ {c}]
cpu_interface_enable(g, c) == [g EXCEPT !.awake = @ \cup {c}]
cpu_interface_disable(g, c) == [g EXCEPT !.awake = @ \ {c}]

\* What each redistributor holds is not modelled.
distributor_save(g) == [g EXCEPT !.context = g.gicd]
distributor_restore(g) == [g EXCEPT !.gicd = g.context]
redistributor_restore(g, c) == [g EXCEPT !.on = @ \cup {c}]

save_system_power_domain(g) == distributor_save(g)
restore_system_power_domain(g, c) ==
  redistributor_restore(distributor_restore(g), c)

-----------------------------------------------------------------------------
(* The power domain tree, as far as the hooks look at it.                  *)

\* PsciCompositePowerState::coordinate_state for core c that lets levels up to
\* `level` go off.
coordinate_state(c, level) ==
  LET lets(d) == IF d = c THEN level ELSE requested[d]
      cluster == \A d \in Siblings(c) : lets(d) >= 1
      system == cluster /\ \A d \in Core : lets(d) = 2
  IN  [d \in Domain |-> CASE d = Cluster[c] -> IF cluster THEN "Off" ELSE "Run"
                          [] d = "system" -> IF system THEN "Off" ELSE "Run"
                          [] OTHER -> local_state[d]]

set_running(c) == [d \in Domain |->
  IF d \in {Cluster[c], "system"} THEN "Run" ELSE local_state[d]]

-----------------------------------------------------------------------------
(* Handlers and hooks.                                                     *)

Running(c) == pc[c] = "run" /\ ~panicked

\* Psci::cpu_on: the affinity of the target is checked and set with its lock,
\* which stays taken while power_domain_on spins.
CpuOn(c) ==
  /\ Running(c)
  /\ \E t \in Core :
       /\ affinity_info[t] = "Off"
       /\ affinity_info' = [affinity_info EXCEPT ![t] = "OnPending"]
       /\ target' = [target EXCEPT ![c] = t]
  /\ pc' = [pc EXCEPT ![c] = "spin"]
  /\ UNCHANGED <<requested, local_state, power, gic, written, panicked>>

Locked(t) == \E c \in Core : pc[c] = "spin" /\ target[c] = t

\* A core that was off starts when it is powered on.
Started(t, p) == IF pc[t] = "off" /\ t \in p.l0 THEN "boot" ELSE pc[t]

\* Mutant: the power off in flight is not waited for.
DoNotWait(c) ==
  LET t == target[c]
      p == power_on_processor(power, t)
  IN  /\ pc[c] = "spin" /\ ~panicked
      /\ power' = p
      /\ pc' = [pc EXCEPT ![c] = "run", ![t] = Started(t, p)]
      /\ target' = [target EXCEPT ![c] = c]
      /\ UNCHANGED <<psci, gic, written, panicked>>

power_domain_on(c) ==
  LET t == target[c]
      p == power_on_processor(power, t)
  IN  /\ pc[c] = "spin" /\ ~panicked
      /\ t \notin power.l0
      /\ power' = p
      /\ pc' = [pc EXCEPT ![c] = "run", ![t] = Started(t, p)]
      /\ target' = [target EXCEPT ![c] = c]
      /\ UNCHANGED <<psci, gic, written, panicked>>

\* Psci::cpu_off with power_domain_off.
power_domain_off(c) ==
  LET states == coordinate_state(c, 2)
      p == power_off_processor(power, c)
  IN  /\ Running(c)
      /\ OffWhileStarting \/ \E d \in Core \ {c} : affinity_info[d] = "On"
      /\ requested' = [requested EXCEPT ![c] = 2]
      /\ local_state' = states
      /\ affinity_info' = [affinity_info EXCEPT ![c] = "Off"]
      /\ panicked' = (c \notin gic.awake)
      /\ gic' = redistributor_off(cpu_interface_disable(gic, c), c)
      /\ power' = IF states[Cluster[c]] = "Off" THEN power_off_cluster(p, c) ELSE p
      /\ pc' = [pc EXCEPT ![c] = "off_wfi"]
      /\ UNCHANGED <<target, written>>

\* Psci::cpu_suspend_start with power_domain_suspend, for a power down.
power_domain_suspend(c, level) ==
  LET states == coordinate_state(c, level)
      p == enable_wakeup_requests(power, c)
      q == IF states[Cluster[c]] = "Off" THEN power_off_cluster(p, c) ELSE p
      g == cpu_interface_disable(gic, c)
  IN  /\ requested' = [requested EXCEPT ![c] = level]
      /\ local_state' = states
      /\ panicked' = (c \notin gic.awake)
      /\ gic' = IF states["system"] = "Off" THEN save_system_power_domain(g) ELSE g
      /\ power' = power_off_processor(q, c)
      /\ pc' = [pc EXCEPT ![c] = "suspend_wfi"]
      /\ UNCHANGED <<affinity_info, target, written>>

\* try_parse_power_state never asks for the system level.
CpuSuspend(c) == Running(c) /\ \E level \in {0, 1} : power_domain_suspend(c, level)

SystemSuspend(c) ==
  /\ Running(c)
  /\ \A d \in Core \ {c} : affinity_info[d] = "Off"
  /\ power_domain_suspend(c, 2)

\* power_domain_on_finish_common: the power controller, then the GIC.
FinishPower(c) ==
  LET p == IF local_state[Cluster[c]] = "Off" THEN power_on_processor(power, c)
           ELSE power
  IN  disable_wakeup_requests(p, c)

\* Mutant: the system is taken for lost with the cluster.
RestoreWithCluster(c) ==
  IF local_state[Cluster[c]] = "Off" THEN restore_system_power_domain(gic, c)
  ELSE gic

FinishGic(c) ==
  IF local_state["system"] = "Off" THEN restore_system_power_domain(gic, c)
  ELSE gic

power_domain_on_finish(c) ==
  cpu_interface_enable(redistributor_init(FinishGic(c), c), c)
power_domain_suspend_finish(c) == cpu_interface_enable(FinishGic(c), c)

\* Psci::handle_cpu_boot with the hooks.
handle_cpu_boot(c) ==
  LET starting == affinity_info[c] = "OnPending"
  IN  /\ pc[c] = "boot" /\ ~Locked(c) /\ ~panicked
      /\ panicked' = (affinity_info[c] = "Off" \/ c \in gic.awake
                        \/ requested[c] = -1)
      /\ power' = FinishPower(c)
      /\ gic' = IF starting THEN power_domain_on_finish(c)
                ELSE power_domain_suspend_finish(c)
      /\ affinity_info' = [affinity_info EXCEPT ![c] = "On"]
      /\ requested' = [requested EXCEPT ![c] = -1]
      /\ local_state' = set_running(c)
      /\ pc' = [pc EXCEPT ![c] = "run"]
      /\ UNCHANGED <<target, written>>

-----------------------------------------------------------------------------
(* The hardware, and the normal world.                                     *)

\* WFI with a power off pending: the power controller takes the core down.
PowerOff(c) ==
  /\ pc[c] \in {"off_wfi", "suspend_wfi"} /\ c \in power.off
  /\ pc' = [pc EXCEPT ![c] = "off"]
  /\ power' = [power EXCEPT !.l0 = @ \ {c}, !.off = @ \ {c}]
  /\ UNCHANGED <<psci, target, gic, written, panicked>>

\* The last core of a cluster with a power off pending is off.
ClusterOff(d) ==
  /\ d \in power.cluster_off
  /\ \A c \in Core : Cluster[c] = d => c \notin power.l0
  /\ power' = [power EXCEPT !.cluster_off = @ \ {d}]
  /\ UNCHANGED <<psci, pc, target, gic, written, panicked>>

\* The system went down: the distributor forgets.
SystemOff ==
  /\ power.l0 = {} /\ local_state["system"] = "Off" /\ gic.gicd # "lost"
  /\ gic' = [gic EXCEPT !.gicd = "lost", !.on = {}]
  /\ UNCHANGED <<psci, pc, target, power, written, panicked>>

\* An interrupt for a core that is off.
Wake(c) ==
  /\ pc[c] = "off" /\ c \in power.wen /\ (c \in gic.on \/ gic.gicd = "lost")
  /\ power' = [power EXCEPT !.l0 = @ \cup {c}]
  /\ pc' = [pc EXCEPT ![c] = "boot"]
  /\ UNCHANGED <<psci, target, gic, written, panicked>>

\* Bound: the normal world changes the configuration once.
Configure(c) ==
  /\ Running(c) /\ written = "a"
  /\ written' = "b"
  /\ gic' = [gic EXCEPT !.gicd = written']
  /\ UNCHANGED <<psci, pc, target, power, panicked>>

Init ==
  /\ affinity_info = [c \in Core |-> IF c = Primary THEN "On" ELSE "Off"]
  /\ requested = [c \in Core |-> IF c = Primary THEN -1 ELSE 2]
  /\ local_state = [d \in Domain |->
                      IF d \in {Cluster[Primary], "system"} THEN "Run" ELSE "Off"]
  /\ pc = [c \in Core |-> IF c = Primary THEN "run" ELSE "off"]
  /\ target = [c \in Core |-> c]
  /\ power = [l0 |-> {Primary}, wen |-> {}, off |-> {}, cluster_off |-> {}]
  /\ gic = [gicd |-> "a", context |-> "zeroed", on |-> {Primary},
            awake |-> {Primary}]
  /\ written = "a"
  /\ panicked = FALSE

Handlers(c) == power_domain_on(c) \/ handle_cpu_boot(c) \/ PowerOff(c)

Next ==
  \/ \E c \in Core : \/ Handlers(c) \/ CpuOn(c) \/ power_domain_off(c)
                     \/ CpuSuspend(c) \/ SystemSuspend(c) \/ Wake(c)
                     \/ Configure(c)
  \/ \E d \in Domain : ClusterOff(d)
  \/ SystemOff

\* A handler that can go on does, and WFI is reached.
Spec == Init /\ [][Next]_vars /\ \A c \in Core : WF_vars(Handlers(c))

-----------------------------------------------------------------------------
(* Properties.                                                             *)

\* No assert!, unwrap() or panic! fails: no core boots that nobody started
\* and that is not suspended, and the CPU interface of a core is never enabled
\* or disabled twice in a row.
NoPanic == ~panicked

\* A core that was told to power down by CPU_OFF or CPU_SUSPEND does so in its
\* WFI: CPU_ON for it does not cancel the request ("a zombie wfi").
PowersDown ==
  \A c \in Core : pc[c] \in {"off_wfi", "suspend_wfi"} => c \in power.off

\* A core that runs may use WFI to wait: no power off is pending for it or its
\* cluster, even if it woke while the cluster was going down.
PlainWfiReturns ==
  \A c \in Core :
    pc[c] = "run" => c \notin power.off /\ Cluster[c] \notin power.cluster_off

\* An interrupt wakes a core that is suspended, and does not wake one that was
\* turned off.
WakesIfSuspended ==
  \A c \in Core : pc[c] = "off" =>
    CASE affinity_info[c] = "On" ->
           c \in power.wen /\ (c \in gic.on \/ gic.gicd = "lost")
      [] OTHER -> c \notin power.wen

\* The power controller does with every core what PSCI believes of it, at any
\* point of the handlers of the other cores: the three of them together.
PowerControllerInStep == PowersDown /\ PlainWfiReturns /\ WakesIfSuspended

\* Whoever runs finds the distributor as the normal world left it, through
\* SYSTEM_SUSPEND and whatever the cores do before.
GicKept == (\E c \in Core : pc[c] = "run") => gic.gicd = written

\* The distributor is restored on resume from system suspend, and only then.
RestoredOnlyOnResume ==
  [][\A c \in Core : handle_cpu_boot(c) /\ affinity_info[c] = "OnPending" =>
       gic'.gicd = gic.gicd]_vars

\* A core that is started runs: power_domain_on stops spinning and the core
\* gets through handle_cpu_boot.
StartedCoresRun ==
  \A c \in Core : (affinity_info[c] = "OnPending") ~> (pc[c] = "run")
=============================================================================
