-------------------------------- MODULE Psci --------------------------------
(***************************************************************************)
(* The PSCI service (src/services/psci.rs): every core runs the handlers   *)
(* CPU_SUSPEND, CPU_OFF, CPU_ON, SYSTEM_SUSPEND, PSCI_SET_SUSPEND_MODE and *)
(* the warm boot path, interleaved at the spin locks of the power domain   *)
(* tree.  A handler takes its locks one at a time, works through the       *)
(* ancestor nodes one level at a time, and drops its locks in one step.    *)
(* suspend_mode has a lock of its own that is only held for one load or    *)
(* store, so those are single steps.  An assertion of the code is a guard: *)
(* a core whose assertion fails panics and takes no further step.          *)
(*                                                                         *)
(* call[c] holds the parameters of the handler core c is in, pc[c] where   *)
(* it is, level[c] its loop variable, lock_to[c] how many ancestors it     *)
(* locks, states[c] its PsciCompositePowerState.                           *)
(***************************************************************************)
EXTENDS PowerDomainTree

CONSTANTS Primary,               \* the core that runs Psci::new
          SuspendRequest,        \* what try_parse_power_state can return
          OsiSupported,          \* platform feature OS_INITIATED_MODE
          SystemSuspendSupported,\* platform feature SYSTEM_SUSPEND
          PowerDownAbandon,      \* cores may resume after a power down WFI
          LastLevelInPcMode,     \* callers may name a last_at_power_level
                                 \* outside OS-initiated mode
          PowerOnWaits           \* power_domain_on waits for the target to
                                 \* be physically off (FVP)

VARIABLES suspend_mode, call, pc, level, lock_to, states,
          power_on,              \* platform: boot request latched for a core
          ns_entry               \* where a core last entered the normal world

coreVars == <<call, pc, level, lock_to, states>>
vars == <<cpuNodeVars, nodeVars, lockVars, coreVars,
          suspend_mode, power_on, ns_entry>>

Levels == 0 .. MAX_POWER_LEVEL
Mode == {"PlatformCoordinated", "OsInitiated"}
AllRun == [l \in Levels |-> RUN]         \* PsciCompositePowerState::RUN
AllOff == [l \in Levels |-> OFF]         \* PsciCompositePowerState::OFF

NoCall == [op |-> "none", highest |-> 0, power_down |-> FALSE, last |-> NONE,
           entry |-> NoEntry, target |-> NONE, mode |-> "PlatformCoordinated"]

Op == {"none", "suspend", "system_suspend", "off", "on", "boot", "wake",
       "set_mode"}
Pc == {"nwd", "standby", "cpu", "mode", "lock", "coordinate", "last",
       "validate", "votes", "local", "wfi", "run", "power", "scan_on",
       "scan_last", "store", "off_wfi", "off"}

\* PsciCompositePowerState::is_valid_suspend_request, which the handler asserts
\* of every composite state the platform parses.
find_highest_non_run_level(s) == Max({0} \cup {l \in Levels : s[l] # RUN})
is_valid_suspend_request(r) ==
  /\ \E l \in Levels : r.states[l] # RUN
  /\ \A l \in Level : r.states[l - 1] >= r.states[l]
  /\ r.last \in Levels \cup {NONE}
  /\ r.power_down <=> \E l \in Levels : r.states[l] = OFF

ASSUME PsciAssumption ==
  /\ Primary \in CPU
  /\ SuspendRequest \subseteq
       [states : [Levels -> PowerState], last : Levels \cup {NONE},
        power_down : BOOLEAN]
  /\ \A r \in SuspendRequest : is_valid_suspend_request(r)
  /\ OsiSupported \in BOOLEAN /\ SystemSuspendSupported \in BOOLEAN
  /\ PowerDownAbandon \in BOOLEAN /\ PowerOnWaits \in BOOLEAN
  /\ LastLevelInPcMode \in BOOLEAN

CallRecord ==
  [op : Op, highest : Levels, power_down : BOOLEAN, last : Levels \cup {NONE},
   entry : EntryPoint \cup {NoEntry}, target : CPU \cup {NONE}, mode : Mode]

TypeOK ==
  /\ TreeTypeOK
  /\ suspend_mode \in Mode
  /\ call \in [CPU -> CallRecord]
  /\ pc \in [CPU -> Pc]
  /\ level \in [CPU -> Nat]
  /\ lock_to \in [CPU -> Levels]
  /\ states \in [CPU -> [Levels -> PowerState]]
  /\ power_on \in [CPU -> BOOLEAN]
  /\ ns_entry \in [CPU -> EntryPoint \cup {NoEntry}]

\* Psci::new, run by the primary core before the normal world starts.
Init ==
  /\ TreeInit(Primary)
  /\ suspend_mode = "PlatformCoordinated"
  /\ call = [c \in CPU |-> NoCall]
  /\ pc = [c \in CPU |-> IF c = Primary THEN "nwd" ELSE "off"]
  /\ level = [c \in CPU |-> 0]
  /\ lock_to = [c \in CPU |-> 0]
  /\ states = [c \in CPU |-> AllRun]
  /\ power_on = [c \in CPU |-> FALSE]
  /\ ns_entry = [c \in CPU |-> NoEntry]

-----------------------------------------------------------------------------
(* Control.                                                                *)

is_in_osi_mode == OsiSupported /\ suspend_mode = "OsInitiated"

Goto(c, label) == pc' = [pc EXCEPT ![c] = label]
AtLevel(c, l) == level' = [level EXCEPT ![c] = l]

\* Core c stops being inside a handler, at label.
Leave(c, label) ==
  /\ Goto(c, label)
  /\ AtLevel(c, 0)
  /\ call' = [call EXCEPT ![c] = NoCall]
  /\ lock_to' = [lock_to EXCEPT ![c] = 0]
  /\ states' = [states EXCEPT ![c] = AllRun]

\* The SMC returns to the normal world with every lock dropped.
Return(c) == Leave(c, "nwd") /\ UnlockAll(c)

\* Handler `op` is entered with parameters `args` (a call record).
Enter(c, label, args, composite) ==
  /\ Goto(c, label)
  /\ call' = [call EXCEPT ![c] = args]
  /\ states' = [states EXCEPT ![c] = composite]
  /\ AtLevel(c, 0)
  /\ lock_to' = [lock_to EXCEPT ![c] = 0]

AncestorsLocked(c, op) ==
  pc[c] = "lock" /\ call[c].op = op /\ level[c] > lock_to[c]

NodeAt(c) == Ancestor[c][level[c]]

\* with_ancestors_locked_to_max_level, from the CPU's parent upwards.
StartLocking(c, max_level) ==
  /\ Goto(c, "lock")
  /\ AtLevel(c, 1)
  /\ lock_to' = [lock_to EXCEPT ![c] = max_level]

LockAncestor(c) ==
  /\ pc[c] = "lock" /\ level[c] <= lock_to[c]
  /\ LockNode(c, NodeAt(c))
  /\ AtLevel(c, level[c] + 1)
  /\ UNCHANGED <<cpuNodeVars, nodeVars, cpu_lock, call, pc, lock_to, states,
                 suspend_mode, power_on, ns_entry>>

-----------------------------------------------------------------------------
(* CPU_SUSPEND.                                                            *)

\* A standby request for the CPU level only: no ancestor is involved, the CPU
\* node is locked just for the store, on both sides of the WFI.
CpuStandby(c) ==
  /\ pc[c] = "nwd" /\ cpu_lock[c] = NONE
  /\ \E r \in SuspendRequest :
       /\ ~r.power_down /\ find_highest_non_run_level(r.states) = 0
       /\ cpu_local_state' = [cpu_local_state EXCEPT ![c] = r.states[0]]
  /\ Goto(c, "standby")
  /\ UNCHANGED <<affinity_info, entry_point, nodeVars, lockVars, call, level,
                 lock_to, states, suspend_mode, power_on, ns_entry>>

CpuStandbyWake(c) ==
  /\ pc[c] = "standby" /\ cpu_lock[c] = NONE
  /\ cpu_local_state' = [cpu_local_state EXCEPT ![c] = RUN]
  /\ Goto(c, "nwd")
  /\ UNCHANGED <<affinity_info, entry_point, nodeVars, lockVars, call, level,
                 lock_to, states, suspend_mode, power_on, ns_entry>>

\* Every other request goes to cpu_suspend_start.
CpuSuspend(c) ==
  /\ pc[c] = "nwd"
  /\ \E r \in SuspendRequest, e \in EntryPoint :
       LET highest == find_highest_non_run_level(r.states)
       IN  /\ r.power_down \/ highest > 0
           /\ r.last > 0 => is_in_osi_mode \/ LastLevelInPcMode
           /\ Enter(c, "cpu",
                [NoCall EXCEPT !.op = "suspend", !.highest = highest,
                   !.power_down = r.power_down, !.last = r.last, !.entry = e],
                r.states)
  /\ UNCHANGED <<cpuNodeVars, nodeVars, lockVars, suspend_mode, power_on,
                 ns_entry>>

SuspendLockCpu(c) ==
  /\ pc[c] = "cpu" /\ call[c].op = "suspend"
  /\ LockCpuNode(c, c)
  /\ Goto(c, "mode")
  /\ UNCHANGED <<cpuNodeVars, nodeVars, node_lock, call, level, lock_to,
                 states, suspend_mode, power_on, ns_entry>>

\* The first of the two reads of the suspend mode picks level_to_lock_to.
SuspendReadMode(c) ==
  /\ pc[c] = "mode"
  /\ StartLocking(c, IF is_in_osi_mode THEN MAX_POWER_LEVEL
                     ELSE call[c].highest)
  /\ UNCHANGED <<cpuNodeVars, nodeVars, lockVars, call, states, suspend_mode,
                 power_on, ns_entry>>

SuspendPendingInterrupt(c) ==
  /\ AncestorsLocked(c, "suspend")
  /\ Return(c)
  /\ UNCHANGED <<cpuNodeVars, nodeVars, suspend_mode, power_on, ns_entry>>

\* The second read picks the coordination.
SuspendStart(c) ==
  /\ AncestorsLocked(c, "suspend")
  /\ Goto(c, IF is_in_osi_mode THEN "last" ELSE "coordinate")
  /\ AtLevel(c, 1)
  /\ UNCHANGED <<cpuNodeVars, nodeVars, lockVars, call, lock_to, states,
                 suspend_mode, power_on, ns_entry>>

\* One iteration of coordinate_state (CPU_SUSPEND and CPU_OFF): record the
\* request, and unless a lower level already has to run, go as deep as the
\* requests of the node's CPUs allow.
CoordinateLevel(c) ==
  LET n == NodeAt(c)
      l == level[c]
      requests == [requested_states[n] EXCEPT ![c] = states[c][l]]
      higher_levels_are_run == l > 1 /\ states[c][l - 1] = RUN
      coordinated == IF higher_levels_are_run THEN RUN
                     ELSE minimal_allowed_state(n, requests)
  IN  /\ pc[c] = "coordinate" /\ l <= lock_to[c]
      /\ requested_states' = [requested_states EXCEPT ![n] = requests]
      /\ local_state' = IF higher_levels_are_run THEN local_state
                        ELSE [local_state EXCEPT ![n] = coordinated]
      /\ states' = [states EXCEPT ![c][l] = coordinated]
      /\ CopyChildState(c, l, states[c][l - 1])
      /\ AtLevel(c, l + 1)
      /\ UNCHANGED <<cpuNodeVars, suspend_states, lockVars, call, pc, lock_to,
                     suspend_mode, power_on, ns_entry>>

\* What the test of last_at_power_level takes for granted: the level is in the
\* list of locked ancestors and the votes there pass the assertion.
LastCheckable(c) ==
  call[c].last > 0 =>
    /\ call[c].last <= lock_to[c]
    /\ OsiVotesConsistent(Ancestor[c][call[c].last], c)

\* validate_state_coordination, first half: last_at_power_level.
ValidateLast(c) ==
  LET last == call[c].last
  IN  /\ pc[c] = "last"
      /\ LastCheckable(c)
      /\ \/ last = NONE /\ Return(c)                     \* InvalidParameters
         \/ /\ last # NONE /\ ~is_last_cpu_to_idle_at_power_level(c, last)
            /\ Return(c)                                 \* Denied
         \/ /\ last # NONE /\ is_last_cpu_to_idle_at_power_level(c, last)
            /\ Goto(c, "validate")
            /\ UNCHANGED <<lockVars, call, level, lock_to, states>>
      /\ UNCHANGED <<cpuNodeVars, nodeVars, suspend_mode, power_on, ns_entry>>

\* Second half, one iteration: the request may not be deeper than what the
\* other CPUs and child nodes below this ancestor allow.
ValidateLevel(c) ==
  LET n == NodeAt(c)
      l == level[c]
      shallowest ==
        get_osi_minimal_allowed_state_without_core(n, c, ChildAt(c, l))
  IN  /\ pc[c] = "validate" /\ l <= call[c].highest
      /\ OsiVotesConsistent(n, c)
      /\ UNCHANGED <<cpuNodeVars, nodeVars, suspend_mode, power_on, ns_entry>>
      /\ \/ states[c][l] > shallowest /\ Return(c) \* Denied, InvalidParameters
         \/ /\ states[c][l] <= shallowest
            /\ AtLevel(c, l + 1)
            /\ UNCHANGED <<lockVars, call, pc, lock_to, states>>

\* power_domain_validate_suspend: the platform may still refuse.
ValidatePlatform(c) ==
  /\ pc[c] = "validate" /\ level[c] > call[c].highest
  /\ UNCHANGED <<cpuNodeVars, nodeVars, suspend_mode, power_on, ns_entry>>
  /\ \/ Return(c)
     \/ /\ Goto(c, "votes")
        /\ AtLevel(c, 1)
        /\ UNCHANGED <<lockVars, call, lock_to, states>>

\* create_highest_affected_level_resolved_state.
resolved_state(c) ==
  [l \in Levels |-> states[c][IF l > call[c].highest THEN call[c].highest
                              ELSE l]]

\* apply_coordinated_state_to_power_domain_tree: the votes of every locked
\* ancestor, then the local states up to the highest affected level and the
\* copy in the node above it.
ApplyVote(c) ==
  LET l == level[c]
  IN  /\ pc[c] = "votes" /\ l <= lock_to[c]
      /\ suspend_states' =
           [suspend_states EXCEPT ![NodeAt(c)][c] = resolved_state(c)[l]]
      /\ AtLevel(c, l + 1)
      /\ UNCHANGED <<cpuNodeVars, local_state, requested_states,
                     non_cpu_states, lockVars, call, pc, lock_to, states,
                     suspend_mode, power_on, ns_entry>>

ApplyVotesDone(c) ==
  /\ pc[c] = "votes" /\ level[c] > lock_to[c]
  /\ Goto(c, "local")
  /\ AtLevel(c, 1)
  /\ UNCHANGED <<cpuNodeVars, nodeVars, lockVars, call, lock_to, states,
                 suspend_mode, power_on, ns_entry>>

set_nodes_from_local_states(c) ==
  LET n == NodeAt(c)
      l == level[c]
      highest == call[c].highest
  IN  /\ pc[c] = "local" /\ highest > 0
      /\ l <= highest + 1 /\ l <= lock_to[c]
      /\ local_state' = IF l > highest THEN local_state
                        ELSE [local_state EXCEPT ![n] = states[c][l]]
      /\ CopyChildState(c, l, states[c][l - 1])
      /\ AtLevel(c, l + 1)
      /\ UNCHANGED <<cpuNodeVars, requested_states, suspend_states, lockVars,
                     call, pc, lock_to, states, suspend_mode, power_on,
                     ns_entry>>

Coordinated(c) ==
  \/ pc[c] = "coordinate" /\ level[c] > lock_to[c]
  \/ /\ pc[c] = "local"
     /\ \/ call[c].highest = 0
        \/ level[c] > call[c].highest + 1 \/ level[c] > lock_to[c]

\* The tree is up to date: store the CPU's own state and, for a power down,
\* its entry point (set_entry_point asserts there is none), and unlock.  The
\* composite state is not read again before the wake-up overwrites it.
SuspendCommit(c) ==
  /\ Coordinated(c) /\ call[c].op = "suspend"
  /\ call[c].power_down => entry_point[c] = NoEntry
  /\ cpu_local_state' = [cpu_local_state EXCEPT ![c] = states[c][0]]
  /\ entry_point' = IF call[c].power_down
                    THEN [entry_point EXCEPT ![c] = call[c].entry]
                    ELSE entry_point
  /\ Enter(c, "wfi", call[c], AllRun)
  /\ UnlockAll(c)
  /\ UNCHANGED <<affinity_info, nodeVars, suspend_mode, power_on, ns_entry>>

\* WFI completes with the core's state kept: retention, or a power down that
\* the core abandoned.
SuspendWake(c) ==
  /\ pc[c] = "wfi"
  /\ call[c].power_down => PowerDownAbandon
  /\ Enter(c, "cpu", [call[c] EXCEPT !.op = "wake"], states[c])
  /\ UNCHANGED <<cpuNodeVars, nodeVars, lockVars, suspend_mode, power_on,
                 ns_entry>>

\* The power down happened: the core restarts from the warm boot entry point.
SuspendWarmBoot(c) ==
  /\ pc[c] = "wfi" /\ call[c].power_down
  /\ Enter(c, "cpu", [NoCall EXCEPT !.op = "boot"], AllRun)
  /\ UNCHANGED <<cpuNodeVars, nodeVars, lockVars, suspend_mode, power_on,
                 ns_entry>>

-----------------------------------------------------------------------------
(* Resuming and booting.                                                   *)

ResumeLockCpu(c) ==
  /\ pc[c] = "cpu" /\ call[c].op \in {"wake", "boot"}
  /\ LockCpuNode(c, c)
  /\ StartLocking(c, MAX_POWER_LEVEL)
  /\ UNCHANGED <<cpuNodeVars, nodeVars, node_lock, call, states, suspend_mode,
                 power_on, ns_entry>>

\* set_local_states_from_nodes.
local_states_from_nodes(c) ==
  [l \in Levels |-> IF l = 0 THEN cpu_local_state[c]
                    ELSE local_state[Ancestor[c][l]]]

\* Mutant: an abandoned power down keeps its entry point.
WakeKeepsEntryPoint(c) ==
  /\ AncestorsLocked(c, "wake")
  /\ states' = [states EXCEPT ![c] = local_states_from_nodes(c)]
  /\ cpu_local_state' = [cpu_local_state EXCEPT ![c] = RUN]
  /\ Goto(c, "run")
  /\ AtLevel(c, 1)
  /\ UNCHANGED <<affinity_info, entry_point, nodeVars, lockVars, call, lock_to,
                 suspend_mode, power_on, ns_entry>>

\* After the WFI in cpu_suspend_start; an abandoned power down drops the entry
\* point it will not use.
WakeFinish(c) ==
  /\ AncestorsLocked(c, "wake")
  /\ states' = [states EXCEPT ![c] = local_states_from_nodes(c)]
  /\ entry_point' = IF call[c].power_down
                    THEN [entry_point EXCEPT ![c] = NoEntry] ELSE entry_point
  /\ cpu_local_state' = [cpu_local_state EXCEPT ![c] = RUN]
  /\ Goto(c, "run")
  /\ AtLevel(c, 1)
  /\ UNCHANGED <<affinity_info, nodeVars, lockVars, call, lock_to,
                 suspend_mode, power_on, ns_entry>>

\* handle_cpu_boot up to set_running, for a core turned on and for one waking
\* from a power down, with the assertions on the latter; power_down keeps
\* wake_from_suspend, which becomes the WakeUpReason.
BootFinish(c) ==
  /\ AncestorsLocked(c, "boot")
  /\ affinity_info[c] # "Off"
  /\ affinity_info[c] = "On" => cpu_local_state[c] = OFF
  /\ states' = [states EXCEPT ![c] = local_states_from_nodes(c)]
  /\ affinity_info' = [affinity_info EXCEPT ![c] = "On"]
  /\ cpu_local_state' = [cpu_local_state EXCEPT ![c] = RUN]
  /\ call' = [call EXCEPT ![c].power_down = (affinity_info[c] = "On")]
  /\ Goto(c, "run")
  /\ AtLevel(c, 1)
  /\ UNCHANGED <<entry_point, nodeVars, lockVars, lock_to, suspend_mode,
                 power_on, ns_entry>>

SetRunning(c) ==
  /\ pc[c] = "run" /\ level[c] <= lock_to[c]
  /\ SetRunningAt(c, level[c])
  /\ AtLevel(c, level[c] + 1)
  /\ UNCHANGED <<cpuNodeVars, lockVars, call, pc, lock_to, states,
                 suspend_mode, power_on, ns_entry>>

\* Mutant: the node locks outlive the handler.
ResumeKeepsLocks(c) ==
  /\ pc[c] = "run" /\ level[c] > lock_to[c]
  /\ entry_point' = [entry_point EXCEPT ![c] = NoEntry]
  /\ Leave(c, "nwd")
  /\ cpu_lock' = [cpu_lock EXCEPT ![c] = NONE]
  /\ UNCHANGED <<affinity_info, cpu_local_state, nodeVars, node_lock,
                 suspend_mode, power_on, ns_entry>>

ResumeDone(c) ==
  /\ pc[c] = "run" /\ level[c] > lock_to[c]
  /\ UNCHANGED <<affinity_info, cpu_local_state, nodeVars, suspend_mode,
                 power_on>>
  /\ \/ /\ call[c].op = "wake"
        /\ Return(c)
        /\ UNCHANGED <<entry_point, ns_entry>>
     \/ /\ call[c].op = "boot" /\ entry_point[c] # NoEntry
        /\ entry_point' = [entry_point EXCEPT ![c] = NoEntry]
        /\ ns_entry' = [ns_entry EXCEPT ![c] = entry_point[c]]
        /\ Return(c)

-----------------------------------------------------------------------------
(* CPU_OFF.                                                                *)

CpuOff(c) ==
  /\ pc[c] = "nwd"
  /\ Enter(c, "cpu", [NoCall EXCEPT !.op = "off", !.power_down = TRUE], AllOff)
  /\ UNCHANGED <<cpuNodeVars, nodeVars, lockVars, suspend_mode, power_on,
                 ns_entry>>

\* power_domain_off_early runs with the CPU node locked and may refuse.
OffLockCpu(c) ==
  /\ pc[c] = "cpu" /\ call[c].op = "off"
  /\ UNCHANGED <<cpuNodeVars, nodeVars, suspend_mode, power_on, ns_entry>>
  /\ \/ /\ LockCpuNode(c, c)
        /\ StartLocking(c, MAX_POWER_LEVEL)
        /\ UNCHANGED <<node_lock, call, states>>
     \/ cpu_lock[c] = NONE /\ Return(c)

OffStart(c) ==
  /\ AncestorsLocked(c, "off")
  /\ cpu_local_state' = [cpu_local_state EXCEPT ![c] = OFF]
  /\ Goto(c, "coordinate")
  /\ AtLevel(c, 1)
  /\ UNCHANGED <<affinity_info, entry_point, nodeVars, lockVars, call,
                 lock_to, states, suspend_mode, power_on, ns_entry>>

OffCommit(c) ==
  /\ Coordinated(c) /\ call[c].op = "off"
  /\ affinity_info' = [affinity_info EXCEPT ![c] = "Off"]
  /\ UnlockAll(c)
  /\ Leave(c, "off_wfi")
  /\ UNCHANGED <<cpu_local_state, entry_point, nodeVars, suspend_mode,
                 power_on, ns_entry>>

\* One of the WFIs after CPU_OFF lets the power controller remove power.
PowerOff(c) ==
  /\ pc[c] = "off_wfi"
  /\ Goto(c, "off")
  /\ UNCHANGED <<cpuNodeVars, nodeVars, lockVars, call, level, lock_to,
                 states, suspend_mode, power_on, ns_entry>>

-----------------------------------------------------------------------------
(* CPU_ON.                                                                 *)

CpuOn(c) ==
  /\ pc[c] = "nwd"
  /\ \E t \in CPU, e \in EntryPoint :
       Enter(c, "cpu", [NoCall EXCEPT !.op = "on", !.target = t, !.entry = e],
             AllRun)
  /\ UNCHANGED <<cpuNodeVars, nodeVars, lockVars, suspend_mode, power_on,
                 ns_entry>>

\* Mutants: a pending CPU_ON is not noticed; the target may be anything.
OnLockPendingTarget(c) ==
  LET t == call[c].target
  IN  /\ pc[c] = "cpu" /\ call[c].op = "on" /\ affinity_info[t] # "On"
      /\ LockCpuNode(c, t)
      /\ affinity_info' = [affinity_info EXCEPT ![t] = "OnPending"]
      /\ Goto(c, "power")
      /\ UNCHANGED <<cpu_local_state, entry_point, nodeVars, node_lock, call,
                     level, lock_to, states, suspend_mode, power_on, ns_entry>>

OnLockAnyTarget(c) ==
  LET t == call[c].target
  IN  /\ pc[c] = "cpu" /\ call[c].op = "on"
      /\ LockCpuNode(c, t)
      /\ affinity_info' = [affinity_info EXCEPT ![t] = "OnPending"]
      /\ Goto(c, "power")
      /\ UNCHANGED <<cpu_local_state, entry_point, nodeVars, node_lock, call,
                     level, lock_to, states, suspend_mode, power_on, ns_entry>>

\* The target's node is locked until the platform has been told.
OnLockTarget(c) ==
  LET t == call[c].target
  IN  /\ pc[c] = "cpu" /\ call[c].op = "on" /\ cpu_lock[t] = NONE
      /\ UNCHANGED <<cpu_local_state, entry_point, nodeVars, suspend_mode,
                     power_on, ns_entry>>
      /\ \/ /\ affinity_info[t] = "Off"
            /\ LockCpuNode(c, t)
            /\ affinity_info' = [affinity_info EXCEPT ![t] = "OnPending"]
            /\ Goto(c, "power")
            /\ UNCHANGED <<node_lock, call, level, lock_to, states>>
         \/ /\ affinity_info[t] # "Off"            \* AlreadyOn, OnPending
            /\ Return(c)
            /\ UNCHANGED affinity_info

\* Mutant: the platform is not told.
OnWithoutPower(c) ==
  LET t == call[c].target
  IN  /\ pc[c] = "power" /\ entry_point[t] = NoEntry
      /\ entry_point' = [entry_point EXCEPT ![t] = call[c].entry]
      /\ Return(c)
      /\ UNCHANGED <<affinity_info, cpu_local_state, nodeVars, suspend_mode,
                     power_on, ns_entry>>

\* power_domain_on, and what cpu_on does with its result.
OnPower(c) ==
  LET t == call[c].target
  IN  /\ pc[c] = "power"
      /\ UNCHANGED <<cpu_local_state, nodeVars, suspend_mode, ns_entry>>
      /\ \/ /\ PowerOnWaits => pc[t] = "off"
            /\ power_on' = [power_on EXCEPT ![t] = TRUE]
            /\ UNCHANGED affinity_info
            /\ entry_point[t] = NoEntry
            /\ entry_point' = [entry_point EXCEPT ![t] = call[c].entry]
            /\ Return(c)
         \/ /\ affinity_info' = [affinity_info EXCEPT ![t] = "Off"]
            /\ Return(c)
            /\ UNCHANGED <<entry_point, power_on>>

\* The platform starts the core at bl31_warm_entrypoint.
PowerOn(c) ==
  /\ pc[c] = "off" /\ power_on[c]
  /\ power_on' = [power_on EXCEPT ![c] = FALSE]
  /\ Enter(c, "cpu", [NoCall EXCEPT !.op = "boot"], AllRun)
  /\ UNCHANGED <<cpuNodeVars, nodeVars, lockVars, suspend_mode, ns_entry>>

-----------------------------------------------------------------------------
(* SYSTEM_SUSPEND and PSCI_SET_SUSPEND_MODE.                               *)

SystemSuspend(c) ==
  /\ pc[c] = "nwd" /\ SystemSuspendSupported
  /\ \E e \in EntryPoint :
       Enter(c, "scan_last",
             [NoCall EXCEPT !.op = "system_suspend", !.entry = e], AllRun)
  /\ UNCHANGED <<cpuNodeVars, nodeVars, lockVars, suspend_mode, power_on,
                 ns_entry>>

\* Asking for the mode that is already set returns at once.
SetSuspendMode(c) ==
  /\ pc[c] = "nwd" /\ OsiSupported
  /\ \E m \in Mode \ {suspend_mode} :
       Enter(c, IF m = "OsInitiated" THEN "scan_on" ELSE "scan_last",
             [NoCall EXCEPT !.op = "set_mode", !.mode = m], AllRun)
  /\ UNCHANGED <<cpuNodeVars, nodeVars, lockVars, suspend_mode, power_on,
                 ns_entry>>

\* are_all_cpus_on: each CPU node is locked for its own test only.
ScanOn(c) ==
  LET i == level[c]
  IN  /\ pc[c] = "scan_on"
      /\ i \in CPU => cpu_lock[i] = NONE
      /\ IF i \notin CPU THEN Goto(c, "store") /\ AtLevel(c, 0)
         ELSE IF affinity_info[i] = "On" THEN AtLevel(c, i + 1) /\ UNCHANGED pc
         ELSE Goto(c, "scan_last") /\ AtLevel(c, 0)
      /\ UNCHANGED <<cpuNodeVars, nodeVars, lockVars, call, lock_to, states,
                     suspend_mode, power_on, ns_entry>>

\* is_last_cpu: likewise; it asserts that the calling CPU is On.
ScanLast(c) ==
  LET i == level[c]
  IN  /\ pc[c] = "scan_last" /\ i \in CPU /\ cpu_lock[i] = NONE
      /\ i = c => affinity_info[c] = "On"
      /\ UNCHANGED <<cpuNodeVars, nodeVars, suspend_mode, power_on, ns_entry>>
      /\ \/ /\ i = c \/ affinity_info[i] = "Off"
            /\ AtLevel(c, i + 1)
            /\ UNCHANGED <<lockVars, call, pc, lock_to, states>>
         \/ i # c /\ affinity_info[i] # "Off" /\ Return(c)          \* Denied

\* The caller was found to be the last CPU: SYSTEM_SUSPEND continues in
\* cpu_suspend_start with the state OFF, which has no last_at_power_level.
ScanLastDone(c) ==
  /\ pc[c] = "scan_last" /\ level[c] \notin CPU
  /\ \/ /\ call[c].op = "system_suspend"
        /\ Enter(c, "cpu",
             [call[c] EXCEPT !.op = "suspend", !.power_down = TRUE,
                             !.highest = MAX_POWER_LEVEL], AllOff)
     \/ /\ call[c].op = "set_mode"
        /\ Goto(c, "store")
        /\ AtLevel(c, 0)
        /\ UNCHANGED <<call, lock_to, states>>
  /\ UNCHANGED <<cpuNodeVars, nodeVars, lockVars, suspend_mode, power_on,
                 ns_entry>>

StoreMode(c) ==
  /\ pc[c] = "store"
  /\ suspend_mode' = call[c].mode
  /\ Return(c)
  /\ UNCHANGED <<cpuNodeVars, nodeVars, power_on, ns_entry>>

-----------------------------------------------------------------------------
\* Steps the normal world decides on, wake-ups from WFI, and the steps of the
\* firmware and of the power controller.
Call(c) ==
  \/ CpuStandby(c) \/ CpuSuspend(c) \/ CpuOff(c) \/ CpuOn(c)
  \/ SystemSuspend(c) \/ SetSuspendMode(c)

WakeUp(c) == CpuStandbyWake(c) \/ SuspendWake(c) \/ SuspendWarmBoot(c)

Step(c) ==
  \/ LockAncestor(c)
  \/ SuspendLockCpu(c) \/ SuspendReadMode(c) \/ SuspendPendingInterrupt(c)
  \/ SuspendStart(c) \/ CoordinateLevel(c)
  \/ ValidateLast(c) \/ ValidateLevel(c) \/ ValidatePlatform(c)
  \/ ApplyVote(c) \/ ApplyVotesDone(c) \/ set_nodes_from_local_states(c)
  \/ SuspendCommit(c)
  \/ ResumeLockCpu(c) \/ WakeFinish(c) \/ BootFinish(c) \/ SetRunning(c)
  \/ ResumeDone(c)
  \/ OffLockCpu(c) \/ OffStart(c) \/ OffCommit(c) \/ PowerOff(c)
  \/ OnLockTarget(c) \/ OnPower(c) \/ PowerOn(c)
  \/ ScanOn(c) \/ ScanLast(c) \/ ScanLastDone(c) \/ StoreMode(c)

Next == \E c \in CPU : Call(c) \/ WakeUp(c) \/ Step(c)

Spec == Init /\ [][Next]_vars

-----------------------------------------------------------------------------
(* Properties.                                                             *)

\* The core has not given up its power: it is in the normal world, or in a
\* handler that has not changed the tree yet, or in CPU-level standby.
Awake(c) ==
  \/ pc[c] \in {"nwd", "standby", "mode", "last", "validate", "power",
                "scan_on", "scan_last", "store"}
  \/ pc[c] \in {"cpu", "lock"} /\ call[c].op \in {"suspend", "off", "on"}

\* No power domain above a core that is awake is recorded as anything but RUN:
\* cpu_suspend_start and cpu_off of the other cores never put a shared ancestor
\* into a low power state under it.
PoweredWhileAwake ==
  \A c \in CPU : Awake(c) =>
    /\ pc[c] # "standby" => cpu_local_state[c] = RUN
    /\ \A n \in Ancestors[c] : local_state[n] = RUN

\* A node is never in a deeper state than any CPU below it voted for, whatever
\* mixture of CPU_OFF, platform-coordinated and OS-initiated votes it holds
\* (set_minimal_allowed_state, validate_state_coordination).
VotesRespected ==
  \A n \in NODE : \A c \in Cpus[n] : local_state[n] <= OsiVote(n, c)

\* The assertions, indexings and `expect`s of the handlers, each at the point
\* where the code evaluates it.
AssertionsHold ==
  \A c \in CPU :
    /\ pc[c] = "last" => LastCheckable(c)
    /\ pc[c] = "validate" /\ level[c] <= call[c].highest =>
         OsiVotesConsistent(NodeAt(c), c)
    /\ Coordinated(c) /\ call[c].op = "suspend" /\ call[c].power_down =>
         entry_point[c] = NoEntry
    /\ pc[c] = "power" => entry_point[call[c].target] = NoEntry
    /\ AncestorsLocked(c, "boot") =>
         \/ affinity_info[c] = "OnPending"
         \/ affinity_info[c] = "On" /\ cpu_local_state[c] = OFF
    /\ pc[c] = "run" /\ call[c].op = "boot" => entry_point[c] # NoEntry
    /\ pc[c] = "scan_last" => affinity_info[c] = "On"

\* Every ancestor that OS-initiated coordination works on is locked by the core
\* that coordinates ("power cordination is only possible with the proper locks
\* acquired", with_ancestors_locked_to_max_level).
ProperLocksHeld ==
  \A c \in CPU : pc[c] = "last" =>
    \A l \in Level : l <= call[c].highest \/ l <= call[c].last =>
      node_lock[Ancestor[c][l]] = c

\* A parent domain is never deeper than a child domain, once nobody is working
\* on either: turning a parent off takes its children with it.
HierarchyRespected ==
  \A n \in NODE : \A m \in Children[n] :
    node_lock[n] = NONE /\ node_lock[m] = NONE =>
      local_state[n] <= local_state[m]

\* A parent's copy of a child's state, which OS-initiated validation relies on,
\* is never deeper than the child is, when it can be read.
ChildCopyConservative ==
  \A n \in NODE : \A m \in Children[n] :
    node_lock[n] = NONE => non_cpu_states[n][m] <= local_state[m]

\* Without OS-initiated mode a node nobody is working on is exactly as deep as
\* its CPUs allow, also where coordinate_state stops computing because a lower
\* level runs: "it can only be in running state".
CoordinatedExactly ==
  \A n \in NODE : node_lock[n] = NONE =>
    local_state[n] = minimal_allowed_state(n, requested_states[n])

\* The core whose progress core c needs before its own next step: the holder of
\* the lock it spins on, or the core power_domain_on waits to see off.
WaitsFor(c) ==
  CASE pc[c] = "cpu" /\ call[c].op = "on" -> cpu_lock[call[c].target]
    [] pc[c] = "cpu" /\ call[c].op # "on" -> cpu_lock[c]
    [] pc[c] = "lock" /\ level[c] <= lock_to[c] -> node_lock[NodeAt(c)]
    [] pc[c] \in {"scan_on", "scan_last"} /\ level[c] \in CPU ->
         cpu_lock[level[c]]
    [] pc[c] = "power" /\ PowerOnWaits /\ pc[call[c].target] # "off" ->
         call[c].target
    [] OTHER -> NONE

\* No set of cores wait for each other, and none for itself: CPU node before
\* ancestors, ancestors from the lowest to the highest level, at most one other
\* CPU's node (with_ancestors_locked_to_max_level "avoid[s] deadlocks by always
\* locking the nodes from the lowest level to the highest").
NoCircularWait ==
  \A S \in (SUBSET CPU) \ {{}} : \E c \in S : WaitsFor(c) \notin S

\* The lifecycle of CPU c as the normal world sees it.
LifePower(c) ==
  CASE \/ affinity_info[c] = "Off"
       \/ affinity_info[c] = "OnPending" /\ entry_point[c] = NoEntry -> "off"
    [] \/ affinity_info[c] = "OnPending" /\ entry_point[c] # NoEntry
       \/ pc[c] = "run" /\ call[c].op = "boot" /\ ~call[c].power_down ->
         "starting"
    [] /\ affinity_info[c] = "On"
       /\ \/ pc[c] = "wfi" \/ call[c].op = "wake"
          \/ call[c].op = "boot" /\ (pc[c] = "run" => call[c].power_down) ->
         "sleeping"
    [] OTHER -> "on"

Lifecycle ==
  INSTANCE CpuLifecycle
  WITH CpuSet <- CPU, EntryPoints <- EntryPoint, None <- NoEntry,
       First <- Primary, power <- [c \in CPU |-> LifePower(c)],
       pending <- entry_point, entered <- ns_entry

\* The handlers, with all their locks and races between CPU_ON, CPU_OFF, warm
\* boot and suspend, implement the lifecycle PSCI promises.
ImplementsLifecycle == Lifecycle!LifeSpec
=============================================================================
