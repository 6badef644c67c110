---------------------------- MODULE MCPlatforms -----------------------------
(***************************************************************************)
(* What PSCI relies on below it: a behaviour is about the power control of *)
(* the FVP (FvpPower, two clusters of two cores and one) or of QEMU        *)
(* (QemuPower, three cores), about the hooks of one core's CPU driver      *)
(* (CpuOps), about the platforms' power states (PowerStates), or about the *)
(* construction of the power domain tree (TreeBuild).  The variables of    *)
(* the parts it is not about do not change, and are 0 except for those of  *)
(* FvpPower.                                                               *)
(***************************************************************************)
EXTENDS FvpPower, TLC, SequencesExt

MCCluster == (1 :> "x") @@ (2 :> "x") @@ (3 :> "y")

VARIABLES
  part,
  slot, pen_pc, init, event, pen_target, pen_affinity_info,
  per_cpu_powerdown_kinds, awake, pen_panicked,
  midr, caches, core_pc, patched, pwrdn, dirty, off_level, answer,
  board, argument, parsed, path,
  topology, level, left, next_level_node_count, parent_node_index, parent_node,
  parent, cpu_parent, cpu_range, non_cpu_range, contiguous

pen_vars == <<slot, pen_pc, init, event, pen_target, pen_affinity_info,
              per_cpu_powerdown_kinds, awake, pen_panicked>>
core_vars == <<midr, caches, core_pc, patched, pwrdn, dirty, off_level, answer>>
state_vars == <<board, argument, parsed, path>>
tree_vars == <<topology, level, left, next_level_node_count, parent_node_index, parent_node,
               parent, cpu_parent, cpu_range, non_cpu_range, contiguous>>

Qemu == INSTANCE QemuPower WITH
  CORE_COUNT <- 3, pc <- pen_pc, target <- pen_target,
  affinity_info <- pen_affinity_info, panicked <- pen_panicked

\* No cache, one of two sets and two ways, and the smallest one.
MCGeometry ==
  {[type |-> "NoCache"],
   [type |-> "Data", num_sets |-> 2, associativity |-> 2, line_size_log |-> 0],
   [type |-> "Unified", num_sets |-> 0, associativity |-> 0, line_size_log |-> 1]}

Cpu == INSTANCE CpuOps WITH
  REV <- {0, 1, 2}, Geometry <- MCGeometry, WORD_BITS <- 16, pc <- core_pc, level <- off_level

ASSUME SizesOk == Qemu!CoreCountAssumption /\ Cpu!RevisionAssumption

States == INSTANCE PowerStates

\* One or two roots, up to two clusters in each and up to two CPUs in those.
FromSeq(s) == [i \in 0..(Len(s) - 1) |-> s[i + 1]]
SumSeq(s) == FoldSeq(LAMBDA a, b : a + b, 0, s)
MCTopologies ==
  UNION {UNION {{FromSeq(<<r>> \o k \o c) : c \in [1..SumSeq(k) -> 0..2]} :
                k \in [1..r -> 0..2]} : r \in 1..2}

Tree == INSTANCE TreeBuild WITH MAX_POWER_LEVEL <- 2, Topologies <- MCTopologies

MCInit ==
  /\ part \in {"Fvp", "Qemu", "Cpu", "States", "Tree"}
  /\ Init
  /\ IF part = "Qemu" THEN Qemu!Init
     ELSE /\ slot = 0 /\ pen_pc = 0 /\ init = 0 /\ event = 0 /\ pen_target = 0
          /\ pen_affinity_info = 0 /\ per_cpu_powerdown_kinds = 0 /\ awake = 0
          /\ pen_panicked = 0
  /\ IF part = "Cpu" THEN Cpu!Init
     ELSE /\ midr = 0 /\ caches = 0 /\ core_pc = 0 /\ patched = 0 /\ pwrdn = 0
          /\ dirty = 0 /\ off_level = 0 /\ answer = 0
  /\ IF part = "States" THEN States!Init
     ELSE board = 0 /\ argument = 0 /\ parsed = 0 /\ path = 0
  /\ IF part = "Tree" THEN Tree!Init
     ELSE /\ topology = 0 /\ level = 0 /\ left = 0 /\ next_level_node_count = 0
          /\ parent_node_index = 0 /\ parent_node = 0 /\ parent = 0 /\ cpu_parent = 0
          /\ cpu_range = 0 /\ non_cpu_range = 0 /\ contiguous = 0

MCNext ==
  /\ UNCHANGED part
  /\ \/ part = "Fvp" /\ Next /\ UNCHANGED <<pen_vars, core_vars, state_vars, tree_vars>>
     \/ part = "Qemu" /\ Qemu!Next /\ UNCHANGED <<vars, core_vars, state_vars, tree_vars>>
     \/ part = "Cpu" /\ Cpu!Next /\ UNCHANGED <<vars, pen_vars, state_vars, tree_vars>>
     \/ part = "States" /\ States!Next /\ UNCHANGED <<vars, pen_vars, core_vars, tree_vars>>
     \/ part = "Tree" /\ Tree!Next /\ UNCHANGED <<vars, pen_vars, core_vars, state_vars>>

MCSpec ==
  /\ MCInit /\ [][MCNext]_<<part, vars, pen_vars, core_vars, state_vars, tree_vars>>
  /\ \A c \in Core : WF_vars(part = "Fvp" /\ Handlers(c))
  /\ \A c \in 0 .. 2 : WF_pen_vars(part = "Qemu" /\ Qemu!Handlers(c))

\* FVP: no assert!, unwrap() or panic! fails.  QEMU: nor does one there, and no
\* core leaves the hold pen for an address that CPU_ON did not write.
BootsInOrder == NoPanic /\ (part = "Qemu" => Qemu!NoPanic)

\* A core that is started comes to run.  FVP: power_domain_on stops spinning.
\* QEMU: the core leaves the hold pen, whenever the entry and the event of
\* plat_hold_pen_signal arrive.
StartedCoresBoot ==
  /\ StartedCoresRun
  /\ \A c \in 0 .. 2 :
       (part = "Qemu" /\ pen_affinity_info[c] = "OnPending")
         ~> (part = "Qemu" /\ pen_pc[c] = "run")

\* An erratum is reported as the state its workaround really has.
ReportsTheTruth == part = "Cpu" => Cpu!ReportsTheTruth

\* A WFI powers the core down only on the way to a power down.
StandbyKeepsPower == part = "Cpu" => Cpu!StandbyKeepsPower

\* No dirty line is lost when the core's caches lose power.
CachesFlushed == part = "Cpu" => Cpu!CachesFlushed

\* The platforms parse every power_state into a request PSCI accepts, or none.
RequestsAdmitted == part = "States" => States!RequestsAdmitted

\* The power domain tree is the one the platform describes.
TreeAsDescribed == part = "Tree" => Tree!TreeAsDescribed
=============================================================================
