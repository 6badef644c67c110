----------------------------- MODULE PsciProofs -----------------------------
(***************************************************************************)
(* The proof that IInv is an invariant of Psci, for every number of CPUs,  *)
(* every tree, every number of power levels and every set of suspend       *)
(* requests, and the safety theorems that follow from it.  First types,    *)
(* and that a step of one core leaves alone what the bookkeeping of others *)
(* relies on; then the bookkeeping of the core that takes the step; then   *)
(* the nodes: no step makes a power domain deeper than the vote of any CPU *)
(* below it.                                                               *)
(***************************************************************************)
EXTENDS PsciInv, TLAPS, WellFoundedInduction

\* Leaves go to Zenon unless they name another prover.
USE ZenonT(40)

-----------------------------------------------------------------------------
(* Shallowest and deepest of a set of levels or power states.              *)

\* A non-empty set of naturals has a least element, which is its Min.
LEMMA MinNat ==
  ASSUME NEW S, S \subseteq Nat, S # {}
  PROVE  Min(S) \in S /\ \A x \in S : Min(S) <= x
<1> DEFINE R == {ss \in Nat \X Nat : ss[1] < ss[2]}
<1>1. IsWellFoundedOn(R, Nat)
  BY NatLessThanWellFounded DEF OpToRel
<1> HIDE DEF R
<1>2. PICK m \in S : \A y \in S : <<y, m>> \notin R
  BY <1>1, WFMin
<1>3. ASSUME NEW y \in S, y < m PROVE FALSE
  <2>1. <<y, m>> \in R
    BY <1>3 DEF R
  <2> QED
    BY <1>2, <2>1
<1>4. \A y \in S : m <= y
  BY <1>3, SMTT(40)
<1> QED
  BY <1>4 DEF Min

\* A non-empty set of naturals with an upper bound has a greatest element.
LEMMA MaxNat ==
  ASSUME NEW N \in Nat, NEW S, S \subseteq 0 .. N, S # {}
  PROVE  Max(S) \in S /\ \A x \in S : Max(S) >= x
<1> DEFINE T == {N - x : x \in S}
<1>0. PICK s \in S : TRUE
  OBVIOUS
<1>1. T \subseteq Nat /\ N - s \in T
  BY <1>0, SMTT(40)
<1>2. PICK m \in T : \A y \in T : m <= y
  BY <1>1, MinNat
<1>3. PICK k \in S : m = N - k
  BY <1>2
<1>4. \A x \in S : k >= x
  BY <1>2, <1>3, SMTT(40)
<1> QED
  BY <1>4 DEF Max

-----------------------------------------------------------------------------
(* Types.                                                                  *)

\* Members of the sets the variables range over.
LEMMA Constants ==
  /\ RUN \in PowerState /\ OFF \in PowerState
  /\ AllRun \in [Levels -> PowerState] /\ AllOff \in [Levels -> PowerState]
  /\ 0 \in Levels /\ MAX_POWER_LEVEL \in Levels
  /\ \A l \in Level : l \in Levels /\ l - 1 \in Levels /\ l \in Nat
  /\ Levels \subseteq Nat /\ PowerState \subseteq Nat
BY TreeAssumption, SMTT(40) DEF RUN, PowerState, AllRun, AllOff, Level, Levels

\* PowerDomainTree::new gives every CPU a non-CPU node at every level.
LEMMA Ancestry ==
  ASSUME NEW c \in CPU, NEW l \in Level
  PROVE  Ancestor[c][l] \in NODE
BY TreeAssumption, SMTT(40)

\* The parameters the handlers are called with.
LEMMA Calls ==
  /\ NoCall \in CallRecord
  /\ [NoCall EXCEPT !.op = "boot"] \in CallRecord
  /\ [NoCall EXCEPT !.op = "off", !.power_down = TRUE] \in CallRecord
  /\ \A r \in CallRecord : [r EXCEPT !.op = "wake"] \in CallRecord
  /\ \A r \in CallRecord, b \in BOOLEAN :
       [r EXCEPT !.power_down = b] \in CallRecord
  /\ \A r \in CallRecord :
       [r EXCEPT !.op = "suspend", !.power_down = TRUE,
                 !.highest = MAX_POWER_LEVEL] \in CallRecord
<1>1. NoCall \in CallRecord
  BY Constants DEF CallRecord, NoCall, Op, Mode
<1>2. \A r \in CallRecord, x \in Op, b \in BOOLEAN :
        /\ [r EXCEPT !.op = x] \in CallRecord
        /\ [r EXCEPT !.power_down = b] \in CallRecord
        /\ [r EXCEPT !.op = x, !.power_down = b] \in CallRecord
  BY DEF CallRecord
<1>3. \A r \in CallRecord, x \in Op, b \in BOOLEAN, k \in Levels :
        [r EXCEPT !.op = x, !.power_down = b, !.highest = k] \in CallRecord
  BY DEF CallRecord
<1>4. "boot" \in Op /\ "off" \in Op /\ "wake" \in Op /\ "suspend" \in Op
  BY DEF Op
<1> QED
  BY <1>1, <1>2, <1>3, <1>4, Constants

\* The types of the variables Enter, Leave and Return assign.
CoreTypes ==
  /\ call \in [CPU -> CallRecord] /\ pc \in [CPU -> Pc]
  /\ level \in [CPU -> Nat] /\ lock_to \in [CPU -> Levels]
  /\ states \in [CPU -> [Levels -> PowerState]]

\* The loops only touch levels of the tree.
LEMMA LoopLevel ==
  ASSUME TypeOK, NEW c \in CPU, ControlInv(c), level[c] <= lock_to[c],
         pc[c] = "lock" \/ pc[c] \in Critical
  PROVE  /\ level[c] \in Level /\ NodeAt(c) \in NODE
         /\ NodeAt(c) = Ancestor[c][level[c]]
<1>1. level[c] \in Nat \ {0} /\ lock_to[c] \in 0 .. MAX_POWER_LEVEL
  BY SMTT(40) DEF TypeOK, ControlInv, Levels
<1>2. level[c] \in Level
  BY <1>1, TreeAssumption, SMTT(40) DEF Level
<1> QED
  BY <1>2, Ancestry DEF NodeAt

\* The coordinated state of a node is one of its CPUs' requests, the shallowest.
LEMMA MinimalState ==
  ASSUME NEW c \in CPU, NEW l \in Level, NEW requests \in [CPU -> PowerState]
  PROVE  /\ minimal_allowed_state(Ancestor[c][l], requests) \in PowerState
         /\ \A d \in Cpus[Ancestor[c][l]] :
              minimal_allowed_state(Ancestor[c][l], requests) <= requests[d]
<1> DEFINE n == Ancestor[c][l]
           S == {requests[d] : d \in Cpus[n]}
<1>1. n \in NODE /\ c \in Cpus[n] /\ Cpus[n] \subseteq CPU
  BY Ancestry DEF Cpus, Ancestors
<1>2. requests[c] \in S /\ S \subseteq PowerState /\ PowerState \subseteq Nat
  BY <1>1, Constants
<1>3. Min(S) \in S /\ \A x \in S : Min(S) <= x
  BY <1>2, MinNat
<1> QED
  BY <1>2, <1>3 DEF minimal_allowed_state

\* One step preserves the types of every variable.
LEMMA TypeStep ==
  ASSUME TypeOK, NEW c \in CPU, ControlInv(c),
         Call(c) \/ WakeUp(c) \/ Step(c)
  PROVE  TypeOK'
\* The highest affected level of a composite state is a level of the tree.
<1>HighestType.
  ASSUME NEW s \in [Levels -> PowerState]
  PROVE  find_highest_non_run_level(s) \in Levels
  <2> USE <1>HighestType
  <2> DEFINE S == {0} \cup {l \in Levels : s[l] # RUN}
  <2>1. S \subseteq 0 .. MAX_POWER_LEVEL /\ S # {} /\ MAX_POWER_LEVEL \in Nat
    BY TreeAssumption, SMTT(40) DEF Levels
  <2>2. Max(S) \in S
    BY <2>1, MaxNat
  <2> QED
    BY <2>1, <2>2 DEF find_highest_non_run_level, Levels
\* The parameters of CPU_SUSPEND make a well typed call.
<1>SuspendCall.
  ASSUME NEW r \in CallRecord, NEW h \in Levels, NEW b \in BOOLEAN,
         NEW k \in Levels \cup {NONE}, NEW e \in EntryPoint
  PROVE  [r EXCEPT !.op = "suspend", !.highest = h, !.power_down = b,
                   !.last = k, !.entry = e] \in CallRecord
  <2> USE <1>SuspendCall
  <2>1. "suspend" \in Op
    BY DEF Op
  <2> QED
    BY <2>1 DEF CallRecord
\* The parameters of CPU_ON make a well typed call.
<1>OnCall.
  ASSUME NEW r \in CallRecord, NEW x \in Op, NEW t \in CPU,
         NEW e \in EntryPoint
  PROVE  [r EXCEPT !.op = x, !.target = t, !.entry = e] \in CallRecord
  BY <1>OnCall DEF CallRecord
\* The parameters of SYSTEM_SUSPEND make a well typed call.
<1>SystemSuspendCall.
  ASSUME NEW r \in CallRecord, NEW x \in Op, NEW e \in EntryPoint
  PROVE  [r EXCEPT !.op = x, !.entry = e] \in CallRecord
  BY <1>SystemSuspendCall DEF CallRecord
\* The parameters of PSCI_SET_SUSPEND_MODE make a well typed call.
<1>SetModeCall.
  ASSUME NEW r \in CallRecord, NEW x \in Op, NEW m \in Mode
  PROVE  [r EXCEPT !.op = x, !.mode = m] \in CallRecord
  BY <1>SetModeCall DEF CallRecord
\* The handlers that scan the CPU nodes are operations.
<1>OpNames.
  "on" \in Op /\ "system_suspend" \in Op /\ "set_mode" \in Op
  BY DEF Op
\* What cpu_suspend unpacks from a request is well typed.
<1>RequestTypes.
  ASSUME NEW r \in SuspendRequest
  PROVE  /\ r.states \in [Levels -> PowerState]
         /\ r.last \in Levels \cup {NONE} /\ r.power_down \in BOOLEAN
         /\ find_highest_non_run_level(r.states) \in Levels
  BY <1>RequestTypes, PsciAssumption, <1>HighestType
\* The composite state read back from the nodes is one.
<1>LocalStatesType.
  local_states_from_nodes(c) \in [Levels -> PowerState]
  <2>1. \A l \in Levels : l # 0 => l \in Level
    BY TreeAssumption, SMTT(40) DEF Levels, Level
  <2>2. \A l \in Level : local_state[Ancestor[c][l]] \in PowerState
    BY Ancestry DEF TypeOK, TreeTypeOK
  <2> QED
    BY <2>1, <2>2 DEF local_states_from_nodes, TypeOK, TreeTypeOK
\* Entering a handler keeps the types of the core's own variables.
<1>EnterType.
  ASSUME NEW label \in Pc, NEW args \in CallRecord,
         NEW composite \in [Levels -> PowerState],
         Enter(c, label, args, composite)
  PROVE  CoreTypes'
  BY <1>EnterType, Constants DEF TypeOK, CoreTypes, Enter, Goto, AtLevel
\* Leaving for a label keeps the types of the core's own variables.
<1>LeaveType.
  ASSUME NEW label \in Pc, Leave(c, label)
  PROVE  CoreTypes'
  BY <1>LeaveType, Constants, Calls DEF TypeOK, CoreTypes, Leave, Goto, AtLevel
\* Dropping the guards keeps the types of the locks.
<1>UnlockType.
  ASSUME UnlockAll(c)
  PROVE  /\ cpu_lock' \in [CPU -> CPU \cup {NONE}]
         /\ node_lock' \in [NODE -> CPU \cup {NONE}]
  BY <1>UnlockType DEF TypeOK, TreeTypeOK, UnlockAll
\* Returning to the normal world keeps both.
<1>ReturnType.
  ASSUME Return(c)
  PROVE  /\ CoreTypes'
         /\ cpu_lock' \in [CPU -> CPU \cup {NONE}]
         /\ node_lock' \in [NODE -> CPU \cup {NONE}]
  <2> USE <1>ReturnType
  <2>1. "nwd" \in Pc
    BY DEF Pc
  <2> QED
    BY <2>1, <1>LeaveType, <1>UnlockType DEF Return
\* The loops over levels keep the loop variable a number.
<1>LevelType.
  /\ AtLevel(c, 0) \/ AtLevel(c, 1) => level' \in [CPU -> Nat]
  /\ AtLevel(c, level[c] + 1) => level' \in [CPU -> Nat]
  <2>1. level[c] + 1 \in Nat
    BY SMTT(40) DEF TypeOK
  <2>2. ASSUME NEW k \in Nat, AtLevel(c, k) PROVE level' \in [CPU -> Nat]
    BY <2>2 DEF TypeOK, AtLevel
  <2> QED
    BY <2>1, <2>2
\* A jump inside a handler keeps the type of pc.
<1>GotoType.
  ASSUME NEW label \in Pc, Goto(c, label)
  PROVE  pc' \in [CPU -> Pc]
  BY <1>GotoType DEF TypeOK, Goto
<1> USE DEF TypeOK, TreeTypeOK, CoreTypes, cpuNodeVars, nodeVars, lockVars, Pc
<1>1. CASE CpuStandby(c)
  BY <1>1, <1>RequestTypes, Constants, SMTT(40) DEF CpuStandby, Goto
<1>2. CASE CpuStandbyWake(c)
  BY <1>2, Constants DEF CpuStandbyWake, Goto
<1>3. CASE CpuSuspend(c)
  <2>1. PICK r \in SuspendRequest, e \in EntryPoint :
          Enter(c, "cpu",
                [NoCall EXCEPT !.op = "suspend",
                   !.highest = find_highest_non_run_level(r.states),
                   !.power_down = r.power_down, !.last = r.last, !.entry = e],
                r.states)
    BY <1>3 DEF CpuSuspend
  <2>2. [NoCall EXCEPT !.op = "suspend",
           !.highest = find_highest_non_run_level(r.states),
           !.power_down = r.power_down, !.last = r.last, !.entry = e]
          \in CallRecord
    <3>1. /\ find_highest_non_run_level(r.states) \in Levels
          /\ r.power_down \in BOOLEAN /\ r.last \in Levels \cup {NONE}
      BY <1>RequestTypes
    <3>2. NoCall \in CallRecord
      BY Calls
    <3> QED
      BY <3>1, <3>2, <1>SuspendCall
  <2>3. r.states \in [Levels -> PowerState]
    BY <1>RequestTypes
  <2>4. CoreTypes'
    BY <2>1, <2>2, <2>3, <1>EnterType
  <2> QED
    BY <1>3, <2>4 DEF CpuSuspend
<1>4. CASE CpuOff(c)
  <2>1. CoreTypes'
    BY <1>4, <1>EnterType, Calls, Constants DEF CpuOff
  <2> QED
    BY <1>4, <2>1 DEF CpuOff
<1>5. CASE CpuOn(c)
  <2>1. PICK t \in CPU, e \in EntryPoint :
          Enter(c, "cpu",
                [NoCall EXCEPT !.op = "on", !.target = t, !.entry = e], AllRun)
    BY <1>5 DEF CpuOn
  <2>2. [NoCall EXCEPT !.op = "on", !.target = t, !.entry = e] \in CallRecord
    BY Calls, <1>OnCall, <1>OpNames
  <2>3. CoreTypes'
    BY <2>1, <2>2, <1>EnterType, Constants
  <2> QED
    BY <1>5, <2>3 DEF CpuOn
<1>6. CASE SystemSuspend(c)
  <2>1. PICK e \in EntryPoint :
          Enter(c, "scan_last",
                [NoCall EXCEPT !.op = "system_suspend", !.entry = e], AllRun)
    BY <1>6 DEF SystemSuspend
  <2>2. [NoCall EXCEPT !.op = "system_suspend", !.entry = e] \in CallRecord
    BY Calls, <1>SystemSuspendCall, <1>OpNames
  <2>3. CoreTypes'
    BY <2>1, <2>2, <1>EnterType, Constants
  <2> QED
    BY <1>6, <2>3 DEF SystemSuspend
<1>7. CASE SetSuspendMode(c)
  <2>1. PICK m \in Mode, label \in {"scan_on", "scan_last"} :
          Enter(c, label, [NoCall EXCEPT !.op = "set_mode", !.mode = m], AllRun)
    BY <1>7 DEF SetSuspendMode
  <2>2. [NoCall EXCEPT !.op = "set_mode", !.mode = m] \in CallRecord
    BY Calls, <1>SetModeCall, <1>OpNames
  <2>3. CoreTypes'
    BY <2>1, <2>2, <1>EnterType, Constants, SMTT(40)
  <2> QED
    BY <1>7, <2>3 DEF SetSuspendMode
<1>8. CASE SuspendWake(c)
  <2>1. CoreTypes'
    BY <1>8, <1>EnterType, Calls DEF SuspendWake
  <2> QED
    BY <1>8, <2>1 DEF SuspendWake
<1>9. CASE SuspendWarmBoot(c)
  <2>1. CoreTypes'
    BY <1>9, <1>EnterType, Calls, Constants DEF SuspendWarmBoot
  <2> QED
    BY <1>9, <2>1 DEF SuspendWarmBoot
<1>10. CASE LockAncestor(c)
  BY <1>10, <1>LevelType DEF LockAncestor, LockNode
<1>11. CASE SuspendLockCpu(c)
  BY <1>11 DEF SuspendLockCpu, LockCpuNode, Goto
<1>12. CASE SuspendReadMode(c)
  <2>1. call[c].highest \in Levels
    BY DEF CallRecord
  <2> QED
    BY <1>12, <2>1, Constants DEF SuspendReadMode, StartLocking, Goto, AtLevel
<1>13. CASE SuspendPendingInterrupt(c)
  BY <1>13, <1>ReturnType DEF SuspendPendingInterrupt
<1>14. CASE SuspendStart(c)
  BY <1>14 DEF SuspendStart, Goto, AtLevel
<1>15. CASE CoordinateLevel(c)
  <2> DEFINE n == NodeAt(c)
             l == level[c]
             requests == [requested_states[n] EXCEPT ![c] = states[c][l]]
  <2>1. l \in Level /\ n \in NODE /\ n = Ancestor[c][l]
    BY <1>15, LoopLevel DEF CoordinateLevel, Critical
  <2>2. states[c][l] \in PowerState /\ states[c][l - 1] \in PowerState
    BY <2>1, Constants, SMTT(40)
  <2>3. requests \in [CPU -> PowerState]
    BY <2>1, <2>2
  <2>4. minimal_allowed_state(n, requests) \in PowerState
    BY <2>1, <2>3, MinimalState
  <2> HIDE DEF n, l, requests
  <2>5. CASE l > 1 /\ states[c][l - 1] = RUN
    BY <1>15, <2>1, <2>2, <2>3, <2>5, Constants, <1>LevelType
       DEF CoordinateLevel, CopyChildState, n, l, requests
  <2>6. CASE ~(l > 1 /\ states[c][l - 1] = RUN)
    BY <1>15, <2>1, <2>2, <2>3, <2>4, <2>6, Constants, <1>LevelType
       DEF CoordinateLevel, CopyChildState, n, l, requests
  <2> QED
    BY <2>5, <2>6
<1>16. CASE ValidateLast(c)
  BY <1>16, <1>ReturnType DEF ValidateLast, Goto
<1>17. CASE ValidateLevel(c)
  BY <1>17, <1>ReturnType, <1>LevelType DEF ValidateLevel
<1>18. CASE ValidatePlatform(c)
  BY <1>18, <1>ReturnType, <1>LevelType, <1>GotoType DEF ValidatePlatform
<1>19. CASE ApplyVote(c)
  <2>1. level[c] \in Level /\ NodeAt(c) \in NODE
    BY <1>19, LoopLevel DEF ApplyVote, Critical
  <2>2. resolved_state(c)[level[c]] \in PowerState
    <3>1. call[c].highest \in Levels /\ level[c] \in Levels
      BY <2>1, Constants DEF CallRecord
    <3> QED
      BY <3>1, SMTT(40) DEF resolved_state
  <2> QED
    BY <1>19, <2>1, <2>2, <1>LevelType DEF ApplyVote
<1>20. CASE ApplyVotesDone(c)
  BY <1>20 DEF ApplyVotesDone, Goto, AtLevel
<1>21. CASE set_nodes_from_local_states(c)
  <2>1. level[c] \in Level /\ NodeAt(c) \in NODE
    BY <1>21, LoopLevel DEF set_nodes_from_local_states, Critical
  <2>2. /\ states[c][level[c]] \in PowerState
        /\ states[c][level[c] - 1] \in PowerState
    BY <2>1, Constants, SMTT(40)
  <2> QED
    BY <1>21, <2>1, <2>2, <1>LevelType
       DEF set_nodes_from_local_states, CopyChildState
<1>22. CASE SuspendCommit(c)
  <2>1. CoreTypes'
    BY <1>22, <1>EnterType, Constants DEF SuspendCommit
  <2>2. /\ states[c][0] \in PowerState
        /\ call[c].entry \in EntryPoint \cup {NoEntry}
    BY Constants DEF CallRecord
  <2> QED
    BY <1>22, <2>1, <2>2, <1>UnlockType DEF SuspendCommit
<1>23. CASE ResumeLockCpu(c)
  BY <1>23, Constants DEF ResumeLockCpu, LockCpuNode, StartLocking, Goto,
     AtLevel
<1>24. CASE WakeFinish(c)
  <2>1. local_states_from_nodes(c) \in [Levels -> PowerState]
    BY <1>LocalStatesType
  <2> QED
    BY <1>24, <2>1, Constants DEF WakeFinish, Goto, AtLevel
<1>25. CASE BootFinish(c)
  <2>1. local_states_from_nodes(c) \in [Levels -> PowerState]
    BY <1>LocalStatesType
  <2>2. [call[c] EXCEPT !.power_down = (affinity_info[c] = "On")]
          \in CallRecord
    BY Calls
  <2> QED
    BY <1>25, <2>1, <2>2, Constants DEF BootFinish, Goto, AtLevel
<1>26. CASE SetRunning(c)
  <2>1. level[c] \in Level
    BY <1>26, LoopLevel DEF SetRunning, Critical
  <2> QED
    BY <1>26, <2>1, Constants, <1>LevelType
       DEF SetRunning, SetRunningAt, CopyChildState
<1>27. CASE ResumeDone(c)
  BY <1>27, <1>ReturnType DEF ResumeDone
<1>28. CASE OffLockCpu(c)
  <2>1. CASE Return(c)
    BY <1>28, <2>1, <1>ReturnType DEF OffLockCpu
  <2>2. CASE /\ LockCpuNode(c, c) /\ StartLocking(c, MAX_POWER_LEVEL)
             /\ UNCHANGED <<node_lock, call, states>>
    <3>1. CoreTypes'
      BY <2>2, <1>LevelType, <1>GotoType, Constants DEF StartLocking
    <3> QED
      BY <1>28, <2>2, <3>1 DEF OffLockCpu, LockCpuNode
  <2> QED
    BY <1>28, <2>1, <2>2 DEF OffLockCpu
<1>29. CASE OffStart(c)
  BY <1>29, Constants DEF OffStart, Goto, AtLevel
<1>30. CASE OffCommit(c)
  BY <1>30, <1>LeaveType, <1>UnlockType DEF OffCommit
<1>31. CASE PowerOff(c)
  BY <1>31 DEF PowerOff, Goto
<1>32. CASE OnLockTarget(c)
  <2>1. CASE Return(c)
    BY <1>32, <2>1, <1>ReturnType DEF OnLockTarget
  <2>2. CASE /\ LockCpuNode(c, call[c].target) /\ Goto(c, "power")
             /\ affinity_info' =
                  [affinity_info EXCEPT ![call[c].target] = "OnPending"]
             /\ UNCHANGED <<node_lock, call, level, lock_to, states>>
    <3>1. pc' \in [CPU -> Pc]
      BY <2>2, <1>GotoType
    <3> QED
      BY <1>32, <2>2, <3>1 DEF OnLockTarget, LockCpuNode
  <2> QED
    BY <1>32, <2>1, <2>2 DEF OnLockTarget
<1>33. CASE OnPower(c)
  <2>1. call[c].entry \in EntryPoint \cup {NoEntry}
    BY DEF CallRecord
  <2> QED
    BY <1>33, <2>1, <1>ReturnType DEF OnPower
<1>34. CASE PowerOn(c)
  <2>1. CoreTypes'
    BY <1>34, <1>EnterType, Calls, Constants DEF PowerOn
  <2> QED
    BY <1>34, <2>1 DEF PowerOn
<1>35. CASE ScanOn(c)
  BY <1>35, <1>LevelType, <1>GotoType DEF ScanOn
<1>36. CASE ScanLast(c)
  BY <1>36, <1>ReturnType, SMTT(40) DEF ScanLast, AtLevel, CPU
<1>37. CASE ScanLastDone(c)
  <2>1. CASE call[c].op = "system_suspend"
    <3>1. CoreTypes'
      BY <1>37, <2>1, <1>EnterType, Calls, Constants DEF ScanLastDone
    <3> QED
      BY <1>37, <3>1 DEF ScanLastDone
  <2>2. CASE call[c].op = "set_mode"
    BY <1>37, <2>2, <1>LevelType, <1>GotoType DEF ScanLastDone
  <2> QED
    BY <1>37, <2>1, <2>2 DEF ScanLastDone
<1>38. CASE StoreMode(c)
  <2>1. call[c].mode \in Mode
    BY DEF CallRecord
  <2> QED
    BY <1>38, <2>1, <1>ReturnType DEF StoreMode
<1> QED
  BY <1>1, <1>2, <1>3, <1>4, <1>5, <1>6, <1>7, <1>8, <1>9, <1>10, <1>11,
     <1>12, <1>13, <1>14, <1>15, <1>16, <1>17, <1>18, <1>19, <1>20, <1>21,
     <1>22, <1>23, <1>24, <1>25, <1>26, <1>27, <1>28, <1>29, <1>30, <1>31,
     <1>32, <1>33, <1>34, <1>35, <1>36, <1>37, <1>38
     DEF Call, WakeUp, Step

-----------------------------------------------------------------------------
(* What the bookkeeping of a core depends on.                              *)

\* What core d's bookkeeping depends on does not change.
Keeps(d) ==
  /\ pc'[d] = pc[d] /\ level'[d] = level[d] /\ lock_to'[d] = lock_to[d]
  /\ states'[d] = states[d] /\ call'[d] = call[d]
  /\ cpu_local_state'[d] = cpu_local_state[d]
  /\ \A n \in NODE : /\ requested_states'[n][d] = requested_states[n][d]
                     /\ suspend_states'[n][d] = suspend_states[n][d]
  /\ \A n \in NODE : node_lock[n] = d =>
       /\ node_lock'[n] = d
       /\ \A e \in CPU : /\ requested_states'[n][e] = requested_states[n][e]
                         /\ suspend_states'[n][e] = suspend_states[n][e]

\* Then core d's part of the invariant is kept as well.
LEMMA Frame ==
  ASSUME TypeOK, NEW d \in CPU, CoreInv(d), Keeps(d)
  PROVE  CoreInv(d)'
<1>1. ControlInv(d)'
  BY DEF CoreInv, ControlInv, Keeps, Critical
<1>2. LockInv(d)'
  BY Ancestry DEF CoreInv, LockInv, Keeps, Critical
<1>3. \A l \in Level : VotesRun(d, l)' <=> VotesRun(d, l)
  BY Ancestry DEF Keeps, VotesRun
<1>4. Awake(d)' <=> Awake(d)
  BY DEF Keeps, Awake
<1>5. resolved_state(d)' = resolved_state(d)
  BY DEF Keeps, resolved_state
<1>6. VoteInv(d)'
  BY <1>3, <1>4, <1>5, Ancestry, SMTT(40) DEF CoreInv, VoteInv, Keeps
<1>7. ASSUME NEW l \in Level, node_lock[Ancestor[d][l]] = d, ValidatedAt(d, l)
      PROVE  ValidatedAt(d, l)'
  <2>1. Ancestor[d][l] \in NODE /\ Cpus[Ancestor[d][l]] \subseteq CPU
    BY Ancestry DEF Cpus
  <2>2. \A e \in CPU : OsiVote(Ancestor[d][l], e)' = OsiVote(Ancestor[d][l], e)
    BY <1>7, <2>1 DEF OsiVote, Keeps
  <2>3. states'[d] = states[d]
    BY DEF Keeps
  <2> QED
    BY <1>7, <2>1, <2>2, <2>3 DEF ValidatedAt
<1>8. ValidatedInv(d)'
  <2>1. CASE pc[d] \in {"validate", "votes", "local"}
    <3>1. \A l \in Level : l <= call[d].highest => node_lock[Ancestor[d][l]] = d
      <4>1. call[d].highest <= lock_to[d]
        BY <2>1 DEF CoreInv, ControlInv, Critical
      <4>2. call[d].highest \in Nat /\ lock_to[d] \in Nat
        BY Constants DEF TypeOK, CallRecord
      <4> QED
        BY <2>1, <4>1, <4>2, Constants, SMTT(40) DEF CoreInv, LockInv, Critical
    <3> QED
      BY <3>1, <1>7 DEF CoreInv, ValidatedInv, Keeps
  <2> QED
    BY <2>1 DEF ValidatedInv, Keeps
<1>9. CpuNodeInv(d)'
  BY <1>4 DEF CoreInv, CpuNodeInv, Keeps
<1> QED
  BY <1>1, <1>2, <1>6, <1>8, <1>9 DEF CoreInv

\* The parts of Keeps that the control operators are responsible for.
CoreKept(d) ==
  /\ pc'[d] = pc[d] /\ level'[d] = level[d] /\ lock_to'[d] = lock_to[d]
  /\ states'[d] = states[d] /\ call'[d] = call[d]

\* An unlocked node is owned by no core.
LEMMA NoOwner == NONE \notin CPU
BY SMTT(40) DEF CPU, NONE

\* Votes are only written on a node whose lock the writer holds.
LEMMA OthersKeep ==
  ASSUME TypeOK, NEW c \in CPU, ControlInv(c), LockInv(c),
         Call(c) \/ WakeUp(c) \/ Step(c), NEW d \in CPU \ {c}
  PROVE  Keeps(d)
\* Entering a handler on core c is no change to core d.
<1>EnterKeeps.
  ASSUME NEW label, NEW args, NEW composite, Enter(c, label, args, composite)
  PROVE  CoreKept(d)
  BY <1>EnterKeeps DEF TypeOK, Enter, Goto, AtLevel, CoreKept
\* Leaving a handler on core c is no change to core d.
<1>LeaveKeeps.
  ASSUME NEW label, Leave(c, label)
  PROVE  CoreKept(d)
  BY <1>LeaveKeeps DEF TypeOK, Leave, Goto, AtLevel, CoreKept
\* Dropping c's guards does not drop d's.
<1>UnlockKeeps.
  ASSUME UnlockAll(c)
  PROVE  \A n \in NODE : node_lock[n] = d => node_lock'[n] = d
  BY <1>UnlockKeeps DEF TypeOK, TreeTypeOK, UnlockAll
\* Returning to the normal world on core c is no change to core d.
<1>ReturnKeeps.
  ASSUME Return(c)
  PROVE  /\ CoreKept(d)
         /\ \A n \in NODE : node_lock[n] = d => node_lock'[n] = d
  BY <1>ReturnKeeps, <1>LeaveKeeps, <1>UnlockKeeps DEF Return
<1> USE DEF TypeOK, TreeTypeOK, CoreKept, Keeps, cpuNodeVars, nodeVars, lockVars
<1>1. CASE CpuStandby(c)
  BY <1>1 DEF CpuStandby, Goto
<1>2. CASE CpuStandbyWake(c)
  BY <1>2 DEF CpuStandbyWake, Goto
<1>3. CASE CpuSuspend(c)
  BY <1>3, <1>EnterKeeps DEF CpuSuspend
<1>4. CASE CpuOff(c)
  BY <1>4, <1>EnterKeeps DEF CpuOff
<1>5. CASE CpuOn(c)
  BY <1>5, <1>EnterKeeps DEF CpuOn
<1>6. CASE SystemSuspend(c)
  BY <1>6, <1>EnterKeeps DEF SystemSuspend
<1>7. CASE SetSuspendMode(c)
  BY <1>7, <1>EnterKeeps DEF SetSuspendMode
<1>8. CASE SuspendWake(c)
  BY <1>8, <1>EnterKeeps DEF SuspendWake
<1>9. CASE SuspendWarmBoot(c)
  BY <1>9, <1>EnterKeeps DEF SuspendWarmBoot
<1>10. CASE LockAncestor(c)
  BY <1>10, NoOwner DEF LockAncestor, LockNode, AtLevel
<1>11. CASE SuspendLockCpu(c)
  BY <1>11 DEF SuspendLockCpu, Goto
<1>12. CASE SuspendReadMode(c)
  BY <1>12 DEF SuspendReadMode, StartLocking, Goto, AtLevel
<1>13. CASE SuspendPendingInterrupt(c)
  BY <1>13, <1>ReturnKeeps DEF SuspendPendingInterrupt
<1>14. CASE SuspendStart(c)
  BY <1>14 DEF SuspendStart, Goto, AtLevel
<1>15. CASE CoordinateLevel(c)
  <2>1. level[c] \in Level /\ NodeAt(c) \in NODE
        /\ NodeAt(c) = Ancestor[c][level[c]]
    BY <1>15, LoopLevel DEF CoordinateLevel, Critical
  <2>2. node_lock[NodeAt(c)] = c
    BY <1>15, <2>1 DEF CoordinateLevel, LockInv, Critical
  <2> QED
    BY <1>15, <2>1, <2>2 DEF CoordinateLevel, AtLevel
<1>16. CASE ValidateLast(c)
  BY <1>16, <1>ReturnKeeps, SMTT(40) DEF ValidateLast, Goto
<1>17. CASE ValidateLevel(c)
  BY <1>17, <1>ReturnKeeps DEF ValidateLevel, AtLevel
<1>18. CASE ValidatePlatform(c)
  BY <1>18, <1>ReturnKeeps, SMTT(40) DEF ValidatePlatform, Goto, AtLevel
<1>19. CASE ApplyVote(c)
  <2>1. level[c] \in Level /\ NodeAt(c) \in NODE
        /\ NodeAt(c) = Ancestor[c][level[c]]
    BY <1>19, LoopLevel DEF ApplyVote, Critical
  <2>2. node_lock[NodeAt(c)] = c
    BY <1>19, <2>1 DEF ApplyVote, LockInv, Critical
  <2> QED
    BY <1>19, <2>1, <2>2 DEF ApplyVote, AtLevel
<1>20. CASE ApplyVotesDone(c)
  BY <1>20 DEF ApplyVotesDone, Goto, AtLevel
<1>21. CASE set_nodes_from_local_states(c)
  BY <1>21 DEF set_nodes_from_local_states, AtLevel
<1>22. CASE SuspendCommit(c)
  BY <1>22, <1>EnterKeeps, <1>UnlockKeeps DEF SuspendCommit
<1>23. CASE ResumeLockCpu(c)
  BY <1>23 DEF ResumeLockCpu, StartLocking, Goto, AtLevel
<1>24. CASE WakeFinish(c)
  BY <1>24 DEF WakeFinish, Goto, AtLevel
<1>25. CASE BootFinish(c)
  BY <1>25 DEF BootFinish, Goto, AtLevel
<1>26. CASE SetRunning(c)
  <2>1. level[c] \in Level /\ NodeAt(c) \in NODE
        /\ NodeAt(c) = Ancestor[c][level[c]]
    BY <1>26, LoopLevel DEF SetRunning, Critical
  <2>2. node_lock[NodeAt(c)] = c
    BY <1>26, <2>1 DEF SetRunning, LockInv, Critical
  <2>3. \A m \in NODE \ {NodeAt(c)} : /\ requested_states'[m] = requested_states[m]
                                       /\ suspend_states'[m] = suspend_states[m]
    BY <1>26, <2>1 DEF SetRunning, SetRunningAt, TypeOK, TreeTypeOK
  <2>4. \A e \in CPU \ {c} :
          /\ requested_states'[NodeAt(c)][e] = requested_states[NodeAt(c)][e]
          /\ suspend_states'[NodeAt(c)][e] = suspend_states[NodeAt(c)][e]
    BY <1>26, <2>1 DEF SetRunning, SetRunningAt, TypeOK, TreeTypeOK
  <2> QED
    BY <1>26, <2>1, <2>2, <2>3, <2>4 DEF SetRunning, AtLevel
<1>27. CASE ResumeDone(c)
  BY <1>27, <1>ReturnKeeps, SMTT(40) DEF ResumeDone
<1>28. CASE OffLockCpu(c)
  BY <1>28, <1>ReturnKeeps, SMTT(40) DEF OffLockCpu, StartLocking, Goto, AtLevel
<1>29. CASE OffStart(c)
  BY <1>29 DEF OffStart, Goto, AtLevel
<1>30. CASE OffCommit(c)
  BY <1>30, <1>LeaveKeeps, <1>UnlockKeeps DEF OffCommit
<1>31. CASE PowerOff(c)
  BY <1>31 DEF PowerOff, Goto
<1>32. CASE OnLockTarget(c)
  BY <1>32, <1>ReturnKeeps, SMTT(40) DEF OnLockTarget, Goto
<1>33. CASE OnPower(c)
  BY <1>33, <1>ReturnKeeps DEF OnPower
<1>34. CASE PowerOn(c)
  BY <1>34, <1>EnterKeeps DEF PowerOn
<1>35. CASE ScanOn(c)
  BY <1>35 DEF ScanOn, Goto, AtLevel
<1>36. CASE ScanLast(c)
  BY <1>36, <1>ReturnKeeps DEF ScanLast, AtLevel
<1>37. CASE ScanLastDone(c)
  BY <1>37, <1>EnterKeeps, SMTT(40) DEF ScanLastDone, Goto, AtLevel
<1>38. CASE StoreMode(c)
  BY <1>38, <1>ReturnKeeps DEF StoreMode
<1> QED
  BY <1>1, <1>2, <1>3, <1>4, <1>5, <1>6, <1>7, <1>8, <1>9, <1>10, <1>11,
     <1>12, <1>13, <1>14, <1>15, <1>16, <1>17, <1>18, <1>19, <1>20, <1>21,
     <1>22, <1>23, <1>24, <1>25, <1>26, <1>27, <1>28, <1>29, <1>30, <1>31,
     <1>32, <1>33, <1>34, <1>35, <1>36, <1>37, <1>38
     DEF Call, WakeUp, Step

-----------------------------------------------------------------------------
(* What a step does to the bookkeeping of the core that takes it.          *)

\* Distinct levels of one core's path are distinct nodes.
LEMMA Distinct ==
  ASSUME NEW c \in CPU, NEW k \in Level, NEW l \in Level, k # l
  PROVE  Ancestor[c][k] # Ancestor[c][l]
BY TreeAssumption, SMTT(40)

\* A node is at one level, whichever CPU it is seen from.
LEMMA SameLevel ==
  ASSUME NEW c \in CPU, NEW d \in CPU, NEW k \in Level, NEW l \in Level,
         Ancestor[c][k] = Ancestor[d][l]
  PROVE  k = l
BY TreeAssumption, SMTT(40)

\* Where Enter, Leave and Return put a core.
LEMMA EnterEffect ==
  ASSUME TypeOK, NEW c \in CPU, NEW label, NEW args, NEW composite,
         Enter(c, label, args, composite)
  PROVE  pc'[c] = label /\ call'[c] = args /\ states'[c] = composite
BY DEF TypeOK, Enter, Goto, AtLevel

\* Leave puts a core at the label it names.
LEMMA LeaveEffect ==
  ASSUME TypeOK, NEW c \in CPU, NEW label, Leave(c, label)
  PROVE  pc'[c] = label
BY DEF TypeOK, Leave, Goto

\* Return puts a core in the normal world.
LEMMA ReturnEffect ==
  ASSUME TypeOK, NEW c \in CPU, Return(c)
  PROVE  pc'[c] = "nwd"
BY LeaveEffect DEF Return

\* Levels and power states are numbers.
LEMMA LevelNat == \A l \in Level : l \in Nat /\ l >= 1 /\ l <= MAX_POWER_LEVEL
BY TreeAssumption, SMTT(40) DEF Level

\* The variables of a handler's loops are numbers.
LEMMA CoreNat ==
  ASSUME TypeOK, NEW c \in CPU
  PROVE  /\ level[c] \in Nat /\ lock_to[c] \in Nat /\ call[c].highest \in Nat
         /\ call[c] \in CallRecord
         /\ \A l \in Level : states[c][l] \in PowerState /\ states[c][l] \in Nat
<1>1. level[c] \in Nat /\ lock_to[c] \in Levels /\ call[c] \in CallRecord
  BY DEF TypeOK
<1>2. call[c].highest \in Levels
  BY <1>1 DEF CallRecord
<1>3. Levels \subseteq Nat /\ PowerState \subseteq Nat /\ Level \subseteq Levels
  BY Constants
<1>4. \A l \in Level : states[c][l] \in PowerState
  BY <1>3 DEF TypeOK
<1> QED
  BY <1>1, <1>2, <1>3, <1>4

\* A loop over the levels goes on to the next number.
LEMMA Counting ==
  /\ 1 \in Nat \ {0}
  /\ \A n \in Nat : n + 1 \in Nat \ {0} /\ 1 \in 1 .. (n + 1)
  /\ \A n, m \in Nat : n <= m => n + 1 \in 1 .. (m + 1)
BY SMTT(40)

\* What a loop that has got to n has done, has still to do, and leaves out.
LEMMA LevelCount ==
  ASSUME NEW n \in Nat, NEW l \in Level
  PROVE  /\ l < n + 1 => l = n \/ (l < n /\ l # n)
         /\ l >= n + 1 => l >= n /\ l # n
         /\ \A m \in Nat : n > m /\ l <= m => l < n
         /\ l = n => l >= n
         /\ n >= n
         /\ ~(l < 1)
<1>1. l \in Nat /\ l >= 1
  BY LevelNat
<1> QED
  BY <1>1, SMTT(40)

\* Levels are numbers up to the highest level.
LEMMA Bounded ==
  /\ MAX_POWER_LEVEL \in Nat
  /\ \A l \in Levels : l \in Nat /\ l <= l /\ l <= MAX_POWER_LEVEL
BY TreeAssumption, SMTT(40) DEF Levels

\* A core that resumes runs the wake operation.
LEMMA WakeOp ==
  ASSUME NEW r \in CallRecord
  PROVE  [r EXCEPT !.op = "wake"].op = "wake"
BY DEF CallRecord

\* The validation loop stays inside the locked ancestors.
LEMMA ValidateAt ==
  ASSUME TypeOK, NEW c \in CPU, ControlInv(c), pc[c] = "validate",
         level[c] <= call[c].highest
  PROVE  level[c] \in Level /\ NodeAt(c) = Ancestor[c][level[c]]
<1>1. call[c].highest <= lock_to[c]
  BY DEF ControlInv, Critical
<1>2. call[c].highest \in Nat /\ lock_to[c] \in Nat /\ level[c] \in Nat
  BY CoreNat
<1>3. level[c] <= lock_to[c]
  BY <1>1, <1>2, SMTT(40)
<1> QED
  BY <1>3, LoopLevel DEF Critical

\* A CPU's vote is a power state.
LEMMA VoteType ==
  ASSUME TypeOK, NEW n \in NODE, NEW d \in CPU
  PROVE  OsiVote(n, d) \in PowerState
BY Constants, SMTT(40) DEF TypeOK, TreeTypeOK, OsiVote

\* The acting core keeps its own bookkeeping.
LEMMA CoreStep ==
  ASSUME TypeOK, NEW c \in CPU, CoreInv(c), Call(c) \/ WakeUp(c) \/ Step(c)
  PROVE  CoreInv(c)'
\* A core that ends up outside the locked part of a handler only has to vote
\* RUN and to be recorded as running if it is awake.
<1>Settled.
  ASSUME pc'[c] \notin Critical \cup {"lock", "mode"},
         Awake(c)' => \A l \in Level : VotesRun(c, l)',
         Awake(c)' /\ pc'[c] # "standby" => cpu_local_state'[c] = RUN
  PROVE  CoreInv(c)'
  BY <1>Settled DEF CoreInv, ControlInv, LockInv, VoteInv, ValidatedInv, CpuNodeInv, Critical
\* The common case: an awake core stays awake and changes neither its votes nor
\* its own state.
<1>StaysAwake.
  ASSUME Awake(c), pc[c] # "standby", UNCHANGED <<cpu_local_state, nodeVars>>,
         pc'[c] \notin Critical \cup {"lock", "mode"}
  PROVE  CoreInv(c)'
  <2> USE <1>StaysAwake
  <2>1. \A l \in Level : VotesRun(c, l)'
    BY DEF CoreInv, VoteInv, VotesRun, nodeVars
  <2>2. cpu_local_state'[c] = RUN
    BY DEF CoreInv, CpuNodeInv
  <2> QED
    BY <2>1, <2>2, <1>Settled
\* A core that goes to sleep, or is on its way up, promises nothing.
<1>Asleep.
  ASSUME ~Awake(c)', pc'[c] \notin Critical \cup {"lock", "mode"}
  PROVE  CoreInv(c)'
  BY <1>Asleep, <1>Settled
\* When the locking loop ends, every ancestor up to lock_to is locked.
<1>LockedAll.
  ASSUME LockInv(c), pc[c] = "lock", level[c] > lock_to[c]
  PROVE  \A l \in Level : l <= lock_to[c] => node_lock[Ancestor[c][l]] = c
  <2> USE <1>LockedAll
  <2>1. \A l \in Level : l <= lock_to[c] => l < level[c]
    BY LevelNat, CoreNat, SMTT(40)
  <2> QED
    BY <2>1 DEF LockInv
\* Moving about between locking the ancestors and dropping the locks.
<1>StaysCritical.
  ASSUME ControlInv(c), LockInv(c), pc[c] \in Critical, pc'[c] \in Critical,
         level'[c] \in Nat \ {0}, UNCHANGED <<call, lock_to, node_lock>>,
         \/ pc'[c] = pc[c] /\ pc[c] # "last"
         \/ /\ pc[c] \in {"last", "validate", "votes", "local"}
            /\ pc'[c] \in {"validate", "votes", "local"}
  PROVE  ControlInv(c)' /\ LockInv(c)'
  <2> USE <1>StaysCritical
  <2>1. LockInv(c)'
    BY DEF LockInv, Critical
  <2>2. ControlInv(c)'
    BY DEF ControlInv, Critical
  <2> QED
    BY <2>1, <2>2
\* The locking loop is over.
<1>EntersCritical.
  ASSUME ControlInv(c), LockInv(c), pc[c] = "lock", level[c] > lock_to[c],
         UNCHANGED <<lock_to, node_lock>>, call'[c].op = call[c].op,
         call'[c].highest = call[c].highest, level'[c] = 1,
         \/ call[c].op = "suspend" /\ pc'[c] \in {"last", "coordinate"}
         \/ call[c].op = "off" /\ pc'[c] = "coordinate"
         \/ call[c].op \in {"wake", "boot"} /\ pc'[c] = "run"
  PROVE  ControlInv(c)' /\ LockInv(c)'
  <2> USE <1>EntersCritical
  <2>1. LockInv(c)'
    BY <1>LockedAll DEF LockInv, Critical
  <2>2. IF call[c].op = "suspend" THEN call[c].highest <= lock_to[c]
        ELSE lock_to[c] = MAX_POWER_LEVEL
    BY DEF ControlInv
  <2>3. ControlInv(c)'
    BY <2>2, SMTT(40) DEF ControlInv, Critical
  <2> QED
    BY <2>1, <2>3
\* A call that has its CPU lock goes on to lock all ancestors, the lowest first.
<1>LockingStarts.
  ASSUME pc'[c] = "lock", level'[c] = 1, lock_to'[c] = MAX_POWER_LEVEL,
         call'[c].op \in {"off", "wake", "boot"}
  PROVE  ControlInv(c)' /\ LockInv(c)'
  <2> USE <1>LockingStarts
  <2>1. 1 \in 1 .. (MAX_POWER_LEVEL + 1) /\ \A l \in Level : ~(l < 1)
    BY TreeAssumption, LevelNat, SMTT(40)
  <2>2. ControlInv(c)'
    BY <2>1 DEF ControlInv, Critical
  <2>3. LockInv(c)'
    BY <2>1 DEF LockInv, Critical
  <2> QED
    BY <2>2, <2>3
\* The acting core's own bookkeeping, one step per action.
<1>HandlerKeepsInv.
  ASSUME CpuStandby(c) \/ CpuStandbyWake(c) \/ CpuSuspend(c) \/ CpuOff(c)
         \/ CpuOn(c) \/ SystemSuspend(c) \/ SetSuspendMode(c)
         \/ SuspendWake(c) \/ SuspendWarmBoot(c) \/ SuspendLockCpu(c)
         \/ SuspendPendingInterrupt(c) \/ SuspendCommit(c)
         \/ ResumeLockCpu(c) \/ WakeFinish(c) \/ BootFinish(c)
         \/ SetRunning(c) \/ ResumeDone(c) \/ OffLockCpu(c) \/ OffStart(c)
         \/ OffCommit(c) \/ PowerOff(c) \/ OnLockTarget(c) \/ OnPower(c)
         \/ PowerOn(c) \/ ScanOn(c) \/ ScanLast(c) \/ ScanLastDone(c)
         \/ StoreMode(c)
  PROVE  CoreInv(c)'
  <2> USE <1>HandlerKeepsInv
  <2>1. CASE CpuStandby(c)
    <3>1. pc'[c] = "standby" /\ UNCHANGED nodeVars /\ Awake(c)
      BY <2>1 DEF CpuStandby, Goto, TypeOK, Awake
    <3>2. \A l \in Level : VotesRun(c, l)'
      BY <3>1 DEF CoreInv, VoteInv, VotesRun, nodeVars
    <3> QED
      BY <3>1, <3>2, <1>Settled DEF Critical
  <2>2. CASE CpuStandbyWake(c)
    <3>1. pc'[c] = "nwd" /\ UNCHANGED nodeVars /\ Awake(c)
      BY <2>2 DEF CpuStandbyWake, Goto, TypeOK, Awake
    <3>2. \A l \in Level : VotesRun(c, l)'
      BY <3>1 DEF CoreInv, VoteInv, VotesRun, nodeVars
    <3>3. cpu_local_state'[c] = RUN
      BY <2>2 DEF CpuStandbyWake, TypeOK, TreeTypeOK
    <3> QED
      BY <3>1, <3>2, <3>3, <1>Settled DEF Critical
  <2>3. CASE CpuSuspend(c)
    <3>1. Awake(c) /\ pc[c] # "standby"
      BY <2>3 DEF CpuSuspend, Awake
    <3>4. pc'[c] = "cpu"
      BY <2>3, EnterEffect DEF CpuSuspend
    <3>2. pc'[c] \notin Critical \cup {"lock", "mode"}
      BY <3>4 DEF Critical
    <3>3. UNCHANGED <<cpu_local_state, nodeVars>>
      BY <2>3 DEF CpuSuspend, cpuNodeVars
    <3> QED
      BY <3>1, <3>2, <3>3, <1>StaysAwake DEF CoreInv
  <2>4. CASE CpuOff(c)
    <3>1. Awake(c) /\ pc[c] # "standby"
      BY <2>4 DEF CpuOff, Awake
    <3>2. pc'[c] \notin Critical \cup {"lock", "mode"}
      BY <2>4, EnterEffect, SMTT(40) DEF CpuOff, Critical, TypeOK
    <3>3. UNCHANGED <<cpu_local_state, nodeVars>>
      BY <2>4 DEF CpuOff, cpuNodeVars
    <3> QED
      BY <3>1, <3>2, <3>3, <1>StaysAwake DEF CoreInv
  <2>5. CASE CpuOn(c)
    <3>1. Awake(c) /\ pc[c] # "standby"
      BY <2>5 DEF CpuOn, Awake
    <3>4. pc'[c] = "cpu"
      BY <2>5, EnterEffect DEF CpuOn
    <3>2. pc'[c] \notin Critical \cup {"lock", "mode"}
      BY <3>4 DEF Critical
    <3>3. UNCHANGED <<cpu_local_state, nodeVars>>
      BY <2>5 DEF CpuOn, cpuNodeVars
    <3> QED
      BY <3>1, <3>2, <3>3, <1>StaysAwake DEF CoreInv
  <2>6. CASE SystemSuspend(c)
    <3>1. Awake(c) /\ pc[c] # "standby"
      BY <2>6 DEF SystemSuspend, Awake
    <3>4. pc'[c] = "scan_last"
      BY <2>6, EnterEffect DEF SystemSuspend
    <3>2. pc'[c] \notin Critical \cup {"lock", "mode"}
      BY <3>4 DEF Critical
    <3>3. UNCHANGED <<cpu_local_state, nodeVars>>
      BY <2>6 DEF SystemSuspend, cpuNodeVars
    <3> QED
      BY <3>1, <3>2, <3>3, <1>StaysAwake DEF CoreInv
  <2>7. CASE SetSuspendMode(c)
    <3>1. Awake(c) /\ pc[c] # "standby"
      BY <2>7 DEF SetSuspendMode, Awake
    <3>4. pc'[c] \in {"scan_on", "scan_last"}
      BY <2>7, EnterEffect DEF SetSuspendMode
    <3>2. pc'[c] \notin Critical \cup {"lock", "mode"}
      BY <3>4 DEF Critical
    <3>3. UNCHANGED <<cpu_local_state, nodeVars>>
      BY <2>7 DEF SetSuspendMode, cpuNodeVars
    <3> QED
      BY <3>1, <3>2, <3>3, <1>StaysAwake DEF CoreInv
  <2>8. CASE SuspendWake(c)
    <3>1. Enter(c, "cpu", [call[c] EXCEPT !.op = "wake"], states[c])
      BY <2>8 DEF SuspendWake
    <3>2. pc'[c] = "cpu" /\ call'[c] = [call[c] EXCEPT !.op = "wake"]
      BY <3>1, EnterEffect, SMTT(40)
    <3>3. call'[c].op = "wake"
      BY <3>2, CoreNat, WakeOp
    <3> QED
      BY <3>2, <3>3, <1>Asleep DEF Awake, Critical
  <2>9. CASE SuspendWarmBoot(c)
    <3>1. ~Awake(c)' /\ pc'[c] \notin Critical \cup {"lock", "mode"}
      BY <2>9, EnterEffect, SMTT(40) DEF SuspendWarmBoot, Awake, Critical,
         TypeOK, NoCall
    <3> QED
      BY <3>1, <1>Asleep
  <2>10. CASE SuspendLockCpu(c)
    <3>1. pc'[c] = "mode" /\ Awake(c) /\ call' = call /\ call[c].op = "suspend"
          /\ UNCHANGED <<nodeVars, cpuNodeVars>> /\ pc[c] = "cpu"
      BY <2>10 DEF SuspendLockCpu, Goto, TypeOK, Awake
    <3>2. \A l \in Level : VotesRun(c, l)'
      BY <3>1 DEF CoreInv, VoteInv, VotesRun, nodeVars
    <3> QED
      BY <3>1, <3>2
      DEF CoreInv, ControlInv, LockInv, VoteInv, ValidatedInv, CpuNodeInv,
          Critical, cpuNodeVars
  <2>11. CASE SuspendPendingInterrupt(c)
    <3>1. Awake(c) /\ pc[c] # "standby"
      BY <2>11 DEF SuspendPendingInterrupt, Awake, AncestorsLocked
    <3>2. pc'[c] \notin Critical \cup {"lock", "mode"}
      BY <2>11, ReturnEffect DEF SuspendPendingInterrupt, Critical, TypeOK
    <3>3. UNCHANGED <<cpu_local_state, nodeVars>>
      BY <2>11 DEF SuspendPendingInterrupt, cpuNodeVars
    <3> QED
      BY <3>1, <3>2, <3>3, <1>StaysAwake DEF CoreInv
  <2>12. CASE SuspendCommit(c)
    <3>1. ~Awake(c)' /\ pc'[c] \notin Critical \cup {"lock", "mode"}
      BY <2>12, EnterEffect DEF SuspendCommit, Awake, Critical, TypeOK
    <3> QED
      BY <3>1, <1>Asleep
  <2>13. CASE ResumeLockCpu(c)
    <3>1. pc'[c] = "lock" /\ call' = call /\ call[c].op \in {"wake", "boot"}
          /\ level'[c] = 1 /\ lock_to'[c] = MAX_POWER_LEVEL
      BY <2>13 DEF ResumeLockCpu, StartLocking, Goto, AtLevel, TypeOK
    <3>2. ControlInv(c)' /\ LockInv(c)'
      BY <3>1, <1>LockingStarts
    <3> QED
      BY <3>1, <3>2 DEF CoreInv, VoteInv, ValidatedInv, CpuNodeInv,
         Awake
  <2>14. CASE WakeFinish(c)
    <3>1. pc[c] = "lock" /\ pc'[c] = "run" /\ level'[c] = 1
          /\ call[c].op = "wake" /\ call'[c].op = "wake"
          /\ call'[c].highest = call[c].highest
          /\ cpu_local_state'[c] = RUN /\ level[c] > lock_to[c]
          /\ UNCHANGED <<node_lock, lock_to>>
      BY <2>14 DEF WakeFinish, AncestorsLocked, Goto, AtLevel, TypeOK, TreeTypeOK,
                  lockVars, CallRecord
    <3>2. ControlInv(c)' /\ LockInv(c)'
      BY <3>1, <1>EntersCritical DEF CoreInv
    <3>3. \A l \in Level : ~(l < 1)
      BY LevelNat, SMTT(40)
    <3>4. VoteInv(c)'
      BY <3>1, <3>3 DEF VoteInv, Awake
    <3> QED
      BY <3>1, <3>2, <3>4 DEF CoreInv, ValidatedInv, CpuNodeInv, Awake
  <2>15. CASE BootFinish(c)
    <3>1. pc[c] = "lock" /\ pc'[c] = "run" /\ level'[c] = 1
          /\ call[c].op = "boot" /\ call'[c].op = "boot"
          /\ call'[c].highest = call[c].highest
          /\ cpu_local_state'[c] = RUN /\ level[c] > lock_to[c]
          /\ UNCHANGED <<node_lock, lock_to>>
      BY <2>15, SMTT(40) DEF BootFinish, AncestorsLocked, Goto, AtLevel, TypeOK,
         TreeTypeOK,
                  lockVars, CallRecord
    <3>2. ControlInv(c)' /\ LockInv(c)'
      BY <3>1, <1>EntersCritical DEF CoreInv
    <3>3. \A l \in Level : ~(l < 1)
      BY LevelNat, SMTT(40)
    <3>4. VoteInv(c)'
      BY <3>1, <3>3 DEF VoteInv, Awake
    <3> QED
      BY <3>1, <3>2, <3>4 DEF CoreInv, ValidatedInv, CpuNodeInv, Awake
  <2>16. CASE SetRunning(c)
    <3>1. level[c] \in Level /\ NodeAt(c) = Ancestor[c][level[c]]
          /\ NodeAt(c) \in NODE
      BY <2>16, LoopLevel DEF SetRunning, Critical, CoreInv
    <3>2. pc' = pc /\ level'[c] = level[c] + 1 /\ call' = call /\ pc[c] = "run"
          /\ UNCHANGED <<node_lock, lock_to, cpu_local_state>> /\ level[c] \in Nat
      BY <2>16 DEF SetRunning, AtLevel, TypeOK, lockVars, cpuNodeVars
    <3>3. ControlInv(c)' /\ LockInv(c)'
      <4>1. level[c] + 1 \in Nat \ {0}
        BY <3>2, Counting
      <4> QED
        BY <3>2, <4>1, <1>StaysCritical DEF CoreInv, Critical
    <3>4. /\ requested_states' = [requested_states EXCEPT ![NodeAt(c)][c] = RUN]
          /\ suspend_states' = [suspend_states EXCEPT ![NodeAt(c)][c] = NONE]
      BY <2>16, <3>1 DEF SetRunning, SetRunningAt
    <3>5. /\ requested_states'[Ancestor[c][level[c]]][c] = RUN
          /\ suspend_states'[Ancestor[c][level[c]]][c] = NONE
      BY <3>1, <3>4 DEF TypeOK, TreeTypeOK
    <3>6. \A l \in Level : l # level[c] /\ VotesRun(c, l) => VotesRun(c, l)'
      <4> SUFFICES ASSUME NEW l \in Level, l # level[c], VotesRun(c, l)
                   PROVE  VotesRun(c, l)'
        OBVIOUS
      <4>1. Ancestor[c][l] \in NODE \ {NodeAt(c)}
        BY <3>1, Distinct, Ancestry
      <4>2. /\ requested_states'[Ancestor[c][l]] = requested_states[Ancestor[c][l]]
            /\ suspend_states'[Ancestor[c][l]] = suspend_states[Ancestor[c][l]]
        BY <3>4, <4>1 DEF TypeOK, TreeTypeOK
      <4> QED
        BY <4>2 DEF VotesRun
    <3>7. \A l \in Level : l < level[c] + 1 =>
            (l < level[c] /\ l # level[c]) \/ l = level[c]
      BY <3>2, LevelCount
    <3>8. ASSUME NEW l \in Level, l < level'[c]
          PROVE  VotesRun(c, l)'
      <4>1. CASE l = level[c]
        BY <3>5, <4>1 DEF VotesRun
      <4>2. CASE l < level[c] /\ l # level[c]
        BY <3>2, <3>6, <4>2 DEF CoreInv, VoteInv
      <4> QED
        BY <3>2, <3>7, <3>8, <4>1, <4>2
    <3>9. VoteInv(c)'
      BY <3>2, <3>8 DEF VoteInv, Awake
    <3> QED
      BY <3>2, <3>3, <3>9 DEF CoreInv, ValidatedInv, CpuNodeInv, Awake
  <2>17. CASE ResumeDone(c)
    <3>1. pc[c] = "run" /\ level[c] > lock_to[c]
          /\ UNCHANGED <<cpu_local_state, nodeVars>> /\ pc'[c] = "nwd"
      BY <2>17, ReturnEffect DEF ResumeDone
    <3>2. lock_to[c] = MAX_POWER_LEVEL
      BY <3>1 DEF CoreInv, ControlInv, Critical
    <3>3. \A l \in Level : l < level[c]
      BY <3>1, <3>2, TreeAssumption, SMTT(40) DEF Level, TypeOK
    <3>4. \A l \in Level : VotesRun(c, l)'
      BY <3>1, <3>3 DEF CoreInv, VoteInv, VotesRun, nodeVars
    <3>5. cpu_local_state'[c] = RUN
      BY <3>1 DEF CoreInv, CpuNodeInv
    <3> QED
      BY <3>1, <3>4, <3>5, <1>Settled DEF Critical
  <2>18. CASE OffLockCpu(c)
    <3>1. Awake(c) /\ pc[c] = "cpu" /\ call[c].op = "off"
          /\ UNCHANGED <<nodeVars, cpuNodeVars>>
      BY <2>18 DEF OffLockCpu, Awake
    <3>2. CASE Return(c)
      BY <3>1, <3>2, ReturnEffect, <1>StaysAwake DEF Critical, cpuNodeVars
    <3>3. CASE StartLocking(c, MAX_POWER_LEVEL) /\ UNCHANGED <<node_lock, call, states>>
      <4>1. pc'[c] = "lock" /\ level'[c] = 1 /\ lock_to'[c] = MAX_POWER_LEVEL
            /\ call' = call
        BY <3>3 DEF StartLocking, Goto, AtLevel, TypeOK
      <4>2. ControlInv(c)' /\ LockInv(c)'
        BY <3>1, <4>1, <1>LockingStarts
      <4>3. VoteInv(c)' /\ CpuNodeInv(c)'
        BY <3>1, <4>1 DEF CoreInv, VoteInv, CpuNodeInv, VotesRun,
           nodeVars,
                          cpuNodeVars
      <4> QED
        BY <4>1, <4>2, <4>3 DEF CoreInv, ValidatedInv
    <3> QED
      BY <2>18, <3>2, <3>3 DEF OffLockCpu
  <2>19. CASE OffStart(c)
    <3>1. pc'[c] = "coordinate" /\ Awake(c) /\ call' = call
          /\ call[c].op = "off" /\ pc[c] = "lock" /\ level'[c] = 1
          /\ UNCHANGED <<nodeVars, node_lock, lock_to>>
          /\ level[c] > lock_to[c]
      BY <2>19 DEF OffStart, AncestorsLocked, Goto, AtLevel, TypeOK, Awake,
         lockVars
    <3>2. \A l \in Level : VotesRun(c, l)'
      BY <3>1 DEF CoreInv, VoteInv, VotesRun, nodeVars
    <3>3. ControlInv(c)' /\ LockInv(c)'
      BY <3>1, <1>EntersCritical DEF CoreInv
    <3>4. \A l \in Level : l >= 1
      BY LevelNat
    <3> QED
      BY <3>1, <3>2, <3>3, <3>4 DEF CoreInv, VoteInv, ValidatedInv,
         CpuNodeInv, Awake
  <2>20. CASE OffCommit(c)
    <3>1. ~Awake(c)' /\ pc'[c] \notin Critical \cup {"lock", "mode"}
      BY <2>20, LeaveEffect DEF OffCommit, Awake, Critical, TypeOK
    <3> QED
      BY <3>1, <1>Asleep
  <2>21. CASE PowerOff(c)
    <3>1. ~Awake(c)' /\ pc'[c] \notin Critical \cup {"lock", "mode"}
      BY <2>21 DEF PowerOff, Awake, Critical, TypeOK, Goto
    <3> QED
      BY <3>1, <1>Asleep
  <2>22. CASE OnLockTarget(c)
    <3>1. Awake(c) /\ pc[c] # "standby"
      BY <2>22 DEF OnLockTarget, Awake
    <3>2. pc'[c] \notin Critical \cup {"lock", "mode"}
      BY <2>22, ReturnEffect DEF OnLockTarget, Critical, TypeOK, Goto
    <3>3. UNCHANGED <<cpu_local_state, nodeVars>>
      BY <2>22 DEF OnLockTarget, cpuNodeVars
    <3> QED
      BY <3>1, <3>2, <3>3, <1>StaysAwake DEF CoreInv
  <2>23. CASE OnPower(c)
    <3>1. Awake(c) /\ pc[c] # "standby"
      BY <2>23 DEF OnPower, Awake
    <3>2. pc'[c] \notin Critical \cup {"lock", "mode"}
      BY <2>23, ReturnEffect DEF OnPower, Critical, TypeOK
    <3>3. UNCHANGED <<cpu_local_state, nodeVars>>
      BY <2>23 DEF OnPower, cpuNodeVars
    <3> QED
      BY <3>1, <3>2, <3>3, <1>StaysAwake DEF CoreInv
  <2>24. CASE PowerOn(c)
    <3>1. ~Awake(c)' /\ pc'[c] \notin Critical \cup {"lock", "mode"}
      BY <2>24, EnterEffect, SMTT(40) DEF PowerOn, Awake, Critical, TypeOK, NoCall
    <3> QED
      BY <3>1, <1>Asleep
  <2>25. CASE ScanOn(c)
    <3>1. Awake(c) /\ pc[c] # "standby"
      BY <2>25 DEF ScanOn, Awake
    <3>2. pc'[c] \notin Critical \cup {"lock", "mode"}
      BY <2>25, ReturnEffect DEF ScanOn, Critical, TypeOK, Goto
    <3>3. UNCHANGED <<cpu_local_state, nodeVars>>
      BY <2>25 DEF ScanOn, cpuNodeVars
    <3> QED
      BY <3>1, <3>2, <3>3, <1>StaysAwake DEF CoreInv
  <2>26. CASE ScanLast(c)
    <3>1. Awake(c) /\ pc[c] # "standby"
      BY <2>26 DEF ScanLast, Awake
    <3>2. pc'[c] \notin Critical \cup {"lock", "mode"}
      BY <2>26, ReturnEffect DEF ScanLast, Critical, TypeOK
    <3>3. UNCHANGED <<cpu_local_state, nodeVars>>
      BY <2>26 DEF ScanLast, cpuNodeVars
    <3> QED
      BY <3>1, <3>2, <3>3, <1>StaysAwake DEF CoreInv
  <2>27. CASE ScanLastDone(c)
    <3>1. Awake(c) /\ pc[c] # "standby"
      BY <2>27 DEF ScanLastDone, Awake
    <3>2. pc'[c] \notin Critical \cup {"lock", "mode"}
      BY <2>27, EnterEffect, SMTT(40) DEF ScanLastDone, Critical, TypeOK, Goto
    <3>3. UNCHANGED <<cpu_local_state, nodeVars>>
      BY <2>27 DEF ScanLastDone, cpuNodeVars
    <3> QED
      BY <3>1, <3>2, <3>3, <1>StaysAwake DEF CoreInv
  <2>28. CASE StoreMode(c)
    <3>1. Awake(c) /\ pc[c] # "standby"
      BY <2>28 DEF StoreMode, Awake
    <3>2. pc'[c] \notin Critical \cup {"lock", "mode"}
      BY <2>28, ReturnEffect DEF StoreMode, Critical, TypeOK
    <3>3. UNCHANGED <<cpu_local_state, nodeVars>>
      BY <2>28 DEF StoreMode, cpuNodeVars
    <3> QED
      BY <3>1, <3>2, <3>3, <1>StaysAwake DEF CoreInv
  <2> QED
    BY <2>1, <2>2, <2>3, <2>4, <2>5, <2>6, <2>7, <2>8, <2>9, <2>10, <2>11,
       <2>12, <2>13, <2>14, <2>15, <2>16, <2>17, <2>18, <2>19, <2>20, <2>21,
       <2>22, <2>23, <2>24, <2>25, <2>26, <2>27, <2>28
\* A request that get_osi_minimal_allowed_state_without_core does not find too
\* deep is allowed by every other CPU below the node.
<1>Shallowest.
  ASSUME NEW l \in Level,
         states[c][l] <= get_osi_minimal_allowed_state_without_core(
                           Ancestor[c][l], c, ChildAt(c, l))
  PROVE  ValidatedAt(c, l)
  <2> USE <1>Shallowest
  <2> DEFINE n == Ancestor[c][l]
             votes == {OsiVote(n, d) : d \in Cpus[n] \ {c}}
             copies == IF ChildAt(c, l) = NONE THEN {}
                       ELSE {non_cpu_states[n][m] :
                               m \in Children[n] \ {ChildAt(c, l)}}
             S == {OFF} \cup votes \cup copies
  <2>1. n \in NODE
    BY Ancestry
  <2>2. Cpus[n] \subseteq CPU /\ Children[n] \subseteq NODE
    BY <2>1 DEF Cpus, Children
  <2>3. votes \subseteq Nat
    BY <2>1, <2>2, VoteType, Constants
  <2>4. copies \subseteq Nat
    <3>1. \A m \in Children[n] : non_cpu_states[n][m] \in PowerState
      BY <2>1, <2>2 DEF TypeOK, TreeTypeOK
    <3>2. PowerState \subseteq Nat
      BY Constants
    <3> QED
      BY <3>1, <3>2
  <2>5. S \subseteq Nat /\ S # {}
    BY <2>3, <2>4, Constants
  <2>6. get_osi_minimal_allowed_state_without_core(n, c, ChildAt(c, l)) = Min(S)
    BY DEF get_osi_minimal_allowed_state_without_core
  <2>7. Min(S) \in Nat /\ \A v \in votes : Min(S) <= v
    <3> HIDE DEF votes, copies
    <3> QED
      BY <2>5, MinNat
  <2>8. states[c][l] \in Nat
    BY CoreNat
  <2>9. \A d \in Cpus[n] \ {c} : Min(S) <= OsiVote(n, d) /\ OsiVote(n, d) \in Nat
    <3> HIDE DEF S
    <3> QED
      BY <2>3, <2>7
  <2>10. states[c][l] <= Min(S)
    BY <2>6
  <2> HIDE DEF S
  <2>11. \A d \in Cpus[n] \ {c} : states[c][l] <= OsiVote(n, d)
    BY <2>7, <2>8, <2>9, <2>10, SMTT(40)
  <2> QED
    BY <2>11 DEF ValidatedAt
\* The acting core's own bookkeeping, one step per action.
<1>CoordinationKeepsInv.
  ASSUME LockAncestor(c) \/ SuspendReadMode(c) \/ SuspendStart(c)
         \/ CoordinateLevel(c) \/ ValidateLast(c) \/ ValidateLevel(c)
         \/ ValidatePlatform(c) \/ ApplyVote(c) \/ ApplyVotesDone(c)
         \/ set_nodes_from_local_states(c)
  PROVE  CoreInv(c)'
  <2> USE <1>CoordinationKeepsInv
  <2>1. CASE LockAncestor(c)
    <3>1. level[c] \in Level /\ NodeAt(c) = Ancestor[c][level[c]]
          /\ NodeAt(c) \in NODE
      BY <2>1, LoopLevel DEF LockAncestor, CoreInv
    <3>2. pc' = pc /\ level'[c] = level[c] + 1 /\ call' = call
          /\ lock_to' = lock_to /\ UNCHANGED nodeVars /\ UNCHANGED cpuNodeVars
          /\ pc[c] = "lock" /\ node_lock' = [node_lock EXCEPT ![NodeAt(c)] = c]
          /\ level[c] \in Nat /\ lock_to[c] \in Nat /\ level[c] <= lock_to[c]
      BY <2>1, CoreNat DEF LockAncestor, LockNode, AtLevel, TypeOK
    <3>3. ControlInv(c)'
      <4>1. level[c] + 1 \in 1 .. (lock_to[c] + 1)
        BY <3>2, Counting
      <4> QED
        BY <3>2, <4>1 DEF CoreInv, ControlInv, Critical
    <3>4. LockInv(c)'
      <4>1. \A l \in Level : l < level[c] + 1 => l < level[c] \/ l = level[c]
        BY <3>2, LevelCount
      <4>2. \A n \in NODE : node_lock[n] = c \/ n = NodeAt(c) => node_lock'[n] = c
        BY <3>2 DEF TypeOK, TreeTypeOK
      <4>3. \A l \in Level : l < level[c] => node_lock[Ancestor[c][l]] = c
        BY <3>2 DEF CoreInv, LockInv
      <4>4. \A l \in Level : l < level'[c] => node_lock'[Ancestor[c][l]] = c
        BY <3>1, <3>2, <4>1, <4>2, <4>3, Ancestry
      <4> QED
        BY <3>2, <4>4 DEF LockInv, Critical
    <3>5. (Awake(c)' <=> Awake(c)) /\ \A l \in Level : VotesRun(c, l)' <=> VotesRun(c, l)
      BY <3>2 DEF Awake, VotesRun, nodeVars
    <3> QED
      BY <3>2, <3>3, <3>4, <3>5
      DEF CoreInv, VoteInv, ValidatedInv, CpuNodeInv, cpuNodeVars
  <2>2. CASE SuspendReadMode(c)
    <3>1. pc'[c] = "lock" /\ Awake(c) /\ call' = call /\ call[c].op = "suspend"
          /\ UNCHANGED <<nodeVars, cpuNodeVars>> /\ pc[c] = "mode" /\ level'[c] = 1
      BY <2>2 DEF SuspendReadMode, StartLocking, Goto, AtLevel, TypeOK, Awake,
                  CoreInv, ControlInv
    <3>2. \A l \in Level : VotesRun(c, l)'
      BY <3>1 DEF CoreInv, VoteInv, VotesRun, nodeVars
    <3>3. lock_to'[c] \in Nat /\ call[c].highest <= lock_to'[c]
      <4>1. call[c].highest \in Levels
        BY DEF TypeOK, CallRecord
      <4>2. lock_to'[c] \in {MAX_POWER_LEVEL, call[c].highest}
        BY <2>2 DEF SuspendReadMode, StartLocking, TypeOK
      <4> QED
        BY <4>1, <4>2, Bounded
    <3>4. ControlInv(c)'
      <4>1. 1 \in 1 .. (lock_to'[c] + 1)
        BY <3>3, Counting
      <4> QED
        BY <3>1, <3>3, <4>1 DEF ControlInv, Critical
    <3>5. LockInv(c)'
      BY <3>1, Counting, LevelCount DEF LockInv, Critical
    <3> QED
      BY <3>1, <3>2, <3>4, <3>5
      DEF CoreInv, VoteInv, ValidatedInv, CpuNodeInv, cpuNodeVars
  <2>3. CASE SuspendStart(c)
    <3>1. pc'[c] \in {"last", "coordinate"} /\ Awake(c) /\ call' = call
          /\ call[c].op = "suspend" /\ pc[c] = "lock" /\ level'[c] = 1
          /\ UNCHANGED <<nodeVars, cpuNodeVars, node_lock, lock_to>>
          /\ level[c] > lock_to[c]
      BY <2>3 DEF SuspendStart, AncestorsLocked, Goto, AtLevel, TypeOK, Awake,
                  lockVars
    <3>2. \A l \in Level : VotesRun(c, l)'
      BY <3>1 DEF CoreInv, VoteInv, VotesRun, nodeVars
    <3>3. ControlInv(c)' /\ LockInv(c)'
      BY <3>1, <1>EntersCritical DEF CoreInv
    <3>4. \A l \in Level : l >= 1
      BY LevelNat
    <3> QED
      BY <3>1, <3>2, <3>3, <3>4
      DEF CoreInv, VoteInv, ValidatedInv, CpuNodeInv, cpuNodeVars
  <2>4. CASE CoordinateLevel(c)
    <3>1. level[c] \in Level /\ NodeAt(c) = Ancestor[c][level[c]]
          /\ NodeAt(c) \in NODE
      BY <2>4, LoopLevel DEF CoordinateLevel, Critical, CoreInv
    <3>2. pc' = pc /\ level'[c] = level[c] + 1 /\ call' = call
          /\ pc[c] = "coordinate" /\ UNCHANGED <<node_lock, lock_to, suspend_states>>
          /\ level[c] \in Nat
      BY <2>4 DEF CoordinateLevel, AtLevel, TypeOK, lockVars
    <3>3. level[c] + 1 \in Nat \ {0}
      BY <3>2, Counting
    <3>4. ControlInv(c)' /\ LockInv(c)'
      BY <3>2, <3>3, <1>StaysCritical DEF CoreInv, Critical
    <3>5. \A n \in NODE \ {NodeAt(c)} : requested_states'[n] = requested_states[n]
      BY <2>4 DEF CoordinateLevel, TypeOK, TreeTypeOK
    <3>6. \A l \in Level : l >= level[c] + 1 => VotesRun(c, l) /\ l # level[c]
      <4>1. \A l \in Level : l >= level[c] + 1 => l >= level[c] /\ l # level[c]
        BY <3>2, LevelCount
      <4> QED
        BY <3>2, <4>1 DEF CoreInv, VoteInv
    <3>7. \A l \in Level : l >= level[c] + 1 => VotesRun(c, l)'
      <4>1. ASSUME NEW l \in Level, l >= level[c] + 1
            PROVE  /\ requested_states'[Ancestor[c][l]] = requested_states[Ancestor[c][l]]
                   /\ VotesRun(c, l) /\ suspend_states' = suspend_states
        <5>1. Ancestor[c][l] # Ancestor[c][level[c]] /\ Ancestor[c][l] \in NODE
          BY <3>1, <3>6, <4>1, Distinct, Ancestry
        <5> QED
          BY <3>1, <3>2, <3>5, <3>6, <4>1, <5>1
      <4> QED
        BY <4>1 DEF VotesRun
    <3> QED
      BY <3>2, <3>3, <3>4, <3>7
      DEF CoreInv, VoteInv, ValidatedInv, CpuNodeInv, Awake
  <2>5. CASE ValidateLast(c)
    <3>1. CASE Return(c)
      <4>1. Awake(c) /\ pc[c] # "standby" /\ UNCHANGED <<cpu_local_state, nodeVars>>
        BY <2>5 DEF ValidateLast, Awake, cpuNodeVars
      <4> QED
        BY <3>1, <4>1, ReturnEffect, <1>StaysAwake DEF Critical
    <3>2. CASE Goto(c, "validate")
               /\ UNCHANGED <<lockVars, call, level, lock_to, states>>
      <4>1. pc[c] = "last" /\ pc'[c] = "validate" /\ level[c] = 1
            /\ UNCHANGED <<cpuNodeVars, nodeVars>>
        BY <2>5, <3>2 DEF ValidateLast, Goto, TypeOK, CoreInv, ControlInv
      <4>2. ControlInv(c)' /\ LockInv(c)'
        BY <3>2, <4>1, Counting, <1>StaysCritical DEF CoreInv, Critical, lockVars
      <4>3. VoteInv(c)' /\ CpuNodeInv(c)'
        BY <3>2, <4>1 DEF CoreInv, VoteInv, CpuNodeInv, Awake, VotesRun, nodeVars,
                          cpuNodeVars
      <4>4. ValidatedInv(c)'
        BY <3>2, <4>1, Counting, LevelCount DEF ValidatedInv
      <4> QED
        BY <4>2, <4>3, <4>4 DEF CoreInv
    <3> QED
      BY <2>5, <3>1, <3>2 DEF ValidateLast
  <2>6. CASE ValidateLevel(c)
    <3>1. CASE Return(c)
      <4>1. Awake(c) /\ pc[c] # "standby" /\ UNCHANGED <<cpu_local_state, nodeVars>>
        BY <2>6 DEF ValidateLevel, Awake, cpuNodeVars
      <4> QED
        BY <3>1, <4>1, ReturnEffect, <1>StaysAwake DEF Critical
    <3>2. CASE /\ states[c][level[c]] <=
                    get_osi_minimal_allowed_state_without_core(
                      NodeAt(c), c, ChildAt(c, level[c]))
               /\ AtLevel(c, level[c] + 1)
               /\ UNCHANGED <<lockVars, call, pc, lock_to, states>>
      <4>1. pc[c] = "validate" /\ level[c] <= call[c].highest
            /\ UNCHANGED <<cpuNodeVars, nodeVars, cpu_lock, node_lock, call, pc,
                           lock_to, states>>
            /\ level'[c] = level[c] + 1
        BY <2>6, <3>2 DEF ValidateLevel, AtLevel, TypeOK, lockVars
      <4>2. level[c] \in Level /\ NodeAt(c) = Ancestor[c][level[c]]
        BY <4>1, ValidateAt DEF CoreInv
      <4>3. ControlInv(c)' /\ LockInv(c)'
        <5>1. level[c] + 1 \in Nat \ {0}
          BY CoreNat, Counting
        <5> QED
          BY <4>1, <5>1, <1>StaysCritical DEF CoreInv, Critical
      <4>4. VoteInv(c)' /\ CpuNodeInv(c)'
        BY <4>1 DEF CoreInv, VoteInv, CpuNodeInv, Awake, VotesRun, nodeVars,
                    cpuNodeVars
      <4>5. ValidatedAt(c, level[c])
        BY <3>2, <4>2, <1>Shallowest
      <4>6. \A l \in Level : ValidatedAt(c, l) => ValidatedAt(c, l)'
        BY <4>1 DEF ValidatedAt, OsiVote, nodeVars
      <4>7. \A l \in Level : l < level[c] + 1 => l < level[c] \/ l = level[c]
        BY CoreNat, LevelCount
      <4>8. ValidatedInv(c)'
        BY <4>1, <4>5, <4>6, <4>7 DEF CoreInv, ValidatedInv
      <4> QED
        BY <4>3, <4>4, <4>8 DEF CoreInv
    <3> QED
      BY <2>6, <3>1, <3>2 DEF ValidateLevel
  <2>7. CASE ValidatePlatform(c)
    <3>1. CASE Return(c)
      <4>1. Awake(c) /\ pc[c] # "standby" /\ UNCHANGED <<cpu_local_state, nodeVars>>
        BY <2>7 DEF ValidatePlatform, Awake, cpuNodeVars
      <4> QED
        BY <3>1, <4>1, ReturnEffect, <1>StaysAwake DEF Critical
    <3>2. CASE /\ Goto(c, "votes") /\ AtLevel(c, 1)
               /\ UNCHANGED <<lockVars, call, lock_to, states>>
      <4>1. pc[c] = "validate" /\ pc'[c] = "votes" /\ level'[c] = 1
            /\ level[c] > call[c].highest
            /\ UNCHANGED <<cpuNodeVars, nodeVars, node_lock, call, lock_to, states>>
        BY <2>7, <3>2 DEF ValidatePlatform, Goto, AtLevel, TypeOK, lockVars
      <4>2. ControlInv(c)' /\ LockInv(c)'
        BY <4>1, Counting, <1>StaysCritical DEF CoreInv, Critical
      <4>3. \A l \in Level : VotesRun(c, l)' /\ ~(l < 1)
        <5>1. \A l \in Level : VotesRun(c, l)
          BY <4>1 DEF CoreInv, VoteInv, Awake
        <5>2. \A l \in Level : VotesRun(c, l)'
          BY <4>1, <5>1 DEF VotesRun, nodeVars
        <5> QED
          BY <5>2, Counting, LevelCount
      <4>4. VoteInv(c)' /\ CpuNodeInv(c)'
        BY <4>1, <4>3 DEF VoteInv, CpuNodeInv, Awake
      <4>5. \A l \in Level : ValidatedAt(c, l) => ValidatedAt(c, l)'
        BY <4>1 DEF ValidatedAt, OsiVote, nodeVars
      <4>6. \A l \in Level : l <= call[c].highest => l < level[c]
        BY <4>1, CoreNat, LevelCount
      <4>7. ValidatedInv(c)'
        BY <4>1, <4>5, <4>6 DEF CoreInv, ValidatedInv
      <4> QED
        BY <4>2, <4>4, <4>7 DEF CoreInv
    <3> QED
      BY <2>7, <3>1, <3>2 DEF ValidatePlatform
  <2>8. CASE ApplyVote(c)
    <3>1. level[c] \in Level /\ NodeAt(c) = Ancestor[c][level[c]]
          /\ NodeAt(c) \in NODE
      BY <2>8, LoopLevel DEF ApplyVote, Critical, CoreInv
    <3>2. pc' = pc /\ level'[c] = level[c] + 1 /\ call' = call /\ pc[c] = "votes"
          /\ UNCHANGED <<node_lock, lock_to, requested_states, states>>
          /\ level[c] \in Nat
      BY <2>8 DEF ApplyVote, AtLevel, TypeOK, lockVars
    <3>3. suspend_states' =
            [suspend_states EXCEPT ![NodeAt(c)][c] = resolved_state(c)[level[c]]]
      BY <2>8 DEF ApplyVote
    <3>4. ControlInv(c)' /\ LockInv(c)'
      <4>1. level[c] + 1 \in Nat \ {0}
        BY <3>2, Counting
      <4> QED
        BY <3>2, <4>1, <1>StaysCritical DEF CoreInv, Critical
    <3>5. resolved_state(c)' = resolved_state(c)
      BY <3>2 DEF resolved_state
    <3>6. \A l \in Level : l # level[c] =>
            suspend_states'[Ancestor[c][l]][c] = suspend_states[Ancestor[c][l]][c]
      BY <3>1, <3>3, Distinct, Ancestry DEF TypeOK, TreeTypeOK
    <3>7. suspend_states'[NodeAt(c)][c] = resolved_state(c)[level[c]]
      BY <3>1, <3>3 DEF TypeOK, TreeTypeOK
    <3>8. \A l \in Level : /\ l >= level[c] + 1 => l >= level[c] /\ l # level[c]
                           /\ l < level[c] + 1 => l < level[c] \/ l = level[c]
                           /\ level[c] >= level[c]
      BY <3>2, LevelCount
    <3>9. VoteInv(c)'
      <4>1. \A l \in Level : l >= level'[c] => VotesRun(c, l)'
        BY <3>2, <3>6, <3>8 DEF CoreInv, VoteInv, VotesRun
      <4>2. requested_states[NodeAt(c)][c] = RUN
        BY <3>1, <3>2, <3>8 DEF CoreInv, VoteInv, VotesRun
      <4>3. \A l \in Level : l < level'[c] =>
              /\ requested_states'[Ancestor[c][l]][c] = RUN
              /\ suspend_states'[Ancestor[c][l]][c] = resolved_state(c)'[l]
        BY <3>1, <3>2, <3>5, <3>6, <3>7, <3>8, <4>2 DEF CoreInv, VoteInv
      <4> QED
        BY <3>2, <4>1, <4>3 DEF VoteInv, Awake
    <3>10. \A n \in NODE, d \in CPU \ {c} : OsiVote(n, d)' = OsiVote(n, d)
      BY <3>1, <3>2, <3>3 DEF OsiVote, TypeOK, TreeTypeOK
    <3>11. \A l \in Level : ValidatedAt(c, l) => ValidatedAt(c, l)'
      <4>1. \A l \in Level : Cpus[Ancestor[c][l]] \subseteq CPU
        BY Ancestry DEF Cpus
      <4> QED
        BY <3>2, <3>10, <4>1, Ancestry DEF ValidatedAt
    <3>12. ValidatedInv(c)'
      BY <3>2, <3>11 DEF CoreInv, ValidatedInv
    <3> QED
      BY <3>2, <3>4, <3>9, <3>12 DEF CoreInv, CpuNodeInv, Awake
  <2>9. CASE ApplyVotesDone(c)
    <3>1. pc[c] = "votes" /\ pc'[c] = "local" /\ level'[c] = 1
          /\ level[c] > lock_to[c] /\ lock_to[c] \in Nat /\ level[c] \in Nat
          /\ UNCHANGED <<nodeVars, node_lock, call, lock_to, states>>
      BY <2>9, CoreNat DEF ApplyVotesDone, Goto, AtLevel, TypeOK, lockVars
    <3>2. ControlInv(c)' /\ LockInv(c)'
      BY <3>1, <1>StaysCritical, Counting DEF CoreInv, Critical
    <3>3. \A l \in Level : l <= lock_to[c] => l < level[c]
      BY <3>1, LevelCount
    <3>4. VoteInv(c)'
      BY <3>1, <3>3 DEF CoreInv, VoteInv, Awake, nodeVars, resolved_state
    <3>5. ValidatedInv(c)'
      BY <3>1 DEF CoreInv, ValidatedInv, ValidatedAt, OsiVote, nodeVars
    <3> QED
      BY <3>1, <3>2, <3>4, <3>5 DEF CoreInv, CpuNodeInv, Awake
  <2>10. CASE set_nodes_from_local_states(c)
    <3>1. pc[c] = "local" /\ level'[c] = level[c] + 1 /\ level[c] \in Nat
          /\ UNCHANGED <<requested_states, suspend_states, node_lock, call, pc,
                         lock_to, states>>
      BY <2>10 DEF set_nodes_from_local_states, AtLevel, TypeOK, lockVars
    <3>2. ControlInv(c)' /\ LockInv(c)'
      <4>1. level[c] + 1 \in Nat \ {0}
        BY <3>1, Counting
      <4> QED
        BY <3>1, <4>1, <1>StaysCritical DEF CoreInv, Critical
    <3>3. VoteInv(c)'
      BY <3>1 DEF CoreInv, VoteInv, Awake, resolved_state
    <3>4. ValidatedInv(c)'
      BY <3>1 DEF CoreInv, ValidatedInv, ValidatedAt, OsiVote
    <3> QED
      BY <3>1, <3>2, <3>3, <3>4 DEF CoreInv, CpuNodeInv, Awake
  <2> QED
    BY <2>1, <2>2, <2>3, <2>4, <2>5, <2>6, <2>7, <2>8, <2>9, <2>10
<1> QED
  BY <1>HandlerKeepsInv, <1>CoordinationKeepsInv DEF Call, WakeUp, Step

-----------------------------------------------------------------------------
(* Nodes and votes.                                                        *)

\* The CPUs below a node are CPUs, and a core is below its own ancestors.
LEMMA Below ==
  /\ \A n \in NODE : Cpus[n] \subseteq CPU
  /\ \A c \in CPU, l \in Level : c \in Cpus[Ancestor[c][l]]
BY Ancestry DEF Cpus, Ancestors

\* A node with a CPU that votes RUN is running.
LEMMA RunVote ==
  ASSUME TypeOK, VotesRespected, NEW c \in CPU, NEW l \in Level, VotesRun(c, l)
  PROVE  local_state[Ancestor[c][l]] = RUN
<1> DEFINE n == Ancestor[c][l]
<1>1. n \in NODE /\ c \in Cpus[n]
  BY Ancestry, Below
<1>2. OsiVote(n, c) = RUN
  BY DEF VotesRun, OsiVote
<1>3. local_state[n] <= RUN
  BY <1>1, <1>2 DEF VotesRespected
<1>4. local_state[n] \in Nat
  BY <1>1, Constants DEF TypeOK, TreeTypeOK
<1> QED
  BY <1>3, <1>4, SMTT(40) DEF RUN

\* Only four actions touch the votes or the local states of the nodes.
NodeWriter(c) ==
  CoordinateLevel(c) \/ ApplyVote(c) \/ set_nodes_from_local_states(c)
  \/ SetRunning(c)

\* Without a change to the nodes no vote is overridden.
LEMMA VotesUntouched ==
  ASSUME VotesRespected, UNCHANGED nodeVars
  PROVE  VotesRespected'
BY DEF VotesRespected, OsiVote, nodeVars

\* Every other action leaves the non-CPU nodes as they are.
LEMMA NodesUntouched ==
  ASSUME NEW c \in CPU, Call(c) \/ WakeUp(c) \/ Step(c), ~NodeWriter(c)
  PROVE  UNCHANGED nodeVars
<1>1. CASE Call(c)
  BY <1>1 DEF Call, CpuStandby, CpuSuspend, CpuOff, CpuOn, SystemSuspend,
              SetSuspendMode
<1>2. CASE WakeUp(c)
  BY <1>2 DEF WakeUp, CpuStandbyWake, SuspendWake, SuspendWarmBoot
<1>3. CASE Step(c)
  BY <1>3 DEF Step, NodeWriter, LockAncestor, SuspendLockCpu, SuspendReadMode,
     SuspendPendingInterrupt, SuspendStart, ValidateLast, ValidateLevel,
     ValidatePlatform, ApplyVotesDone, SuspendCommit, ResumeLockCpu, WakeFinish,
     BootFinish, ResumeDone, OffLockCpu, OffStart, OffCommit, PowerOff,
     OnLockTarget, OnPower, PowerOn, ScanOn, ScanLast, ScanLastDone, StoreMode
<1> QED
  BY <1>1, <1>2, <1>3

\* No step leaves a node deeper than one of the votes on it.
LEMMA VotesStep ==
  ASSUME TypeOK, TypeOK', VotesRespected, NEW c \in CPU, CoreInv(c),
         Call(c) \/ WakeUp(c) \/ Step(c)
  PROVE  VotesRespected'
\* If only node n changes, only node n has to be looked at.
<1>OneNode.
  ASSUME NEW n \in NODE,
         \A m \in NODE \ {n} : /\ local_state'[m] = local_state[m]
                               /\ requested_states'[m] = requested_states[m]
                               /\ suspend_states'[m] = suspend_states[m],
         \A d \in Cpus[n] : local_state'[n] <= OsiVote(n, d)'
  PROVE  VotesRespected'
  BY <1>OneNode, SMTT(40) DEF VotesRespected, OsiVote
<1>0. \A m \in NODE : \A d \in Cpus[m] : d \in CPU /\ OsiVote(m, d)' \in Nat
  <2>1. RUN \in PowerState /\ PowerState \subseteq Nat
    BY Constants
  <2>2. \A m \in NODE, d \in CPU : OsiVote(m, d)' \in PowerState
    BY <2>1, SMTT(40) DEF TypeOK, TreeTypeOK, OsiVote
  <2> QED
    BY <2>1, <2>2, Below
<1>1. CASE CoordinateLevel(c)
  <2>1. PICK n \in NODE, l \in Level :
          n = NodeAt(c) /\ l = level[c] /\ n = Ancestor[c][l]
          /\ pc[c] = "coordinate"
    BY <1>1, LoopLevel DEF CoordinateLevel, Critical, CoreInv
  <2>2. VotesRun(c, l)
    BY <2>1, LevelNat, LevelCount DEF CoreInv, VoteInv
  <2>3. local_state[n] = RUN
    BY <2>1, <2>2, RunVote
  <2> DEFINE requests == [requested_states[n] EXCEPT ![c] = states[c][l]]
  <2>4. requests \in [CPU -> PowerState]
    BY <2>1, CoreNat DEF TypeOK, TreeTypeOK
  <2>5. /\ requested_states' = [requested_states EXCEPT ![n] = requests]
        /\ suspend_states' = suspend_states
        /\ \/ local_state' = local_state
           \/ local_state' =
                [local_state EXCEPT ![n] = minimal_allowed_state(n, requests)]
    BY <1>1, <2>1 DEF CoordinateLevel
  <2> HIDE DEF requests
  <2>6. requested_states'[n] = requests
    BY <2>1, <2>5 DEF TypeOK, TreeTypeOK
  <2>7. \A d \in CPU : requests[d] \in Nat
    BY <2>4, Constants
  <2>8. \A d \in Cpus[n] : requests[d] <= OsiVote(n, d)'
    <3> SUFFICES ASSUME NEW d \in Cpus[n]
                 PROVE  requests[d] <= OsiVote(n, d)'
      OBVIOUS
    <3>1. d \in CPU
      BY <1>0
    <3>2. requests[d] = RUN \/ OsiVote(n, d)' = requests[d]
      BY <2>6 DEF OsiVote
    <3>3. requests[d] \in Nat /\ OsiVote(n, d)' \in Nat
      BY <1>0, <2>7, <3>1
    <3> QED
      BY <3>2, <3>3, SMTT(40) DEF RUN
  <2>9. \A d \in Cpus[n] : local_state'[n] <= OsiVote(n, d)'
    <3>1. CASE local_state' = local_state
      <4>1. local_state'[n] = 0
        BY <2>3, <3>1 DEF RUN
      <4>2. \A d \in Cpus[n] : OsiVote(n, d)' \in Nat
        BY <1>0
      <4> QED
        BY <4>1, <4>2, SMTT(40)
    <3>2. CASE local_state' =
                 [local_state EXCEPT ![n] = minimal_allowed_state(n, requests)]
      <4>1. local_state'[n] = minimal_allowed_state(n, requests)
        BY <2>1, <3>2 DEF TypeOK, TreeTypeOK
      <4>2. /\ minimal_allowed_state(n, requests) \in Nat
            /\ \A d \in Cpus[n] : minimal_allowed_state(n, requests) <= requests[d]
        BY <2>1, <2>4, MinimalState, Constants
      <4>3. \A d \in Cpus[n] : requests[d] \in Nat /\ OsiVote(n, d)' \in Nat
        BY <1>0, <2>7
      <4> QED
        BY <2>8, <4>1, <4>2, <4>3, SMTT(40)
    <3> QED
      BY <2>5, <3>1, <3>2
  <2>10. \A m \in NODE \ {n} : /\ local_state'[m] = local_state[m]
                               /\ requested_states'[m] = requested_states[m]
                               /\ suspend_states'[m] = suspend_states[m]
    BY <2>1, <2>5 DEF TypeOK, TreeTypeOK
  <2> QED
    BY <2>1, <2>9, <2>10, <1>OneNode
<1>2. CASE ApplyVote(c)
  <2>1. PICK n \in NODE, l \in Level :
          n = NodeAt(c) /\ l = level[c] /\ n = Ancestor[c][l]
          /\ pc[c] = "votes"
    BY <1>2, LoopLevel DEF ApplyVote, Critical, CoreInv
  <2>2. VotesRun(c, l)
    <3>1. l >= level[c]
      BY <2>1, LevelNat, SMTT(40)
    <3> QED
      BY <2>1, <3>1 DEF CoreInv, VoteInv
  <2>3. local_state[n] = RUN
    BY <2>1, <2>2, RunVote
  <2>4. /\ suspend_states' =
             [suspend_states EXCEPT ![n][c] = resolved_state(c)[l]]
        /\ UNCHANGED <<local_state, requested_states>>
    BY <1>2, <2>1 DEF ApplyVote
  <2>5. \A m \in NODE \ {n} : suspend_states'[m] = suspend_states[m]
    <3>1. suspend_states \in [NODE -> [CPU -> PowerState \cup {NONE}]]
      BY DEF TypeOK, TreeTypeOK
    <3> QED
      BY <2>4, <3>1
  <2>6. \A d \in Cpus[n] : local_state'[n] <= OsiVote(n, d)'
    <3>1. local_state'[n] = 0
      BY <2>3, <2>4 DEF RUN
    <3>2. \A d \in Cpus[n] : OsiVote(n, d)' \in Nat
      BY <1>0
    <3> QED
      BY <3>1, <3>2, SMTT(40)
  <2> QED
    BY <2>1, <2>4, <2>5, <2>6, <1>OneNode
<1>3. CASE set_nodes_from_local_states(c)
  <2>1. PICK n \in NODE, l \in Level :
          n = NodeAt(c) /\ l = level[c] /\ n = Ancestor[c][l]
          /\ pc[c] = "local" /\ l <= lock_to[c]
    BY <1>3, LoopLevel DEF set_nodes_from_local_states, Critical, CoreInv
  <2>2. /\ UNCHANGED <<requested_states, suspend_states>>
        /\ local_state' = IF l > call[c].highest THEN local_state
                          ELSE [local_state EXCEPT ![n] = states[c][l]]
    BY <1>3, <2>1 DEF set_nodes_from_local_states
  <2>3. CASE l > call[c].highest
    <3>1. local_state' = local_state
      BY <2>2, <2>3
    <3> QED
      BY <2>2, <3>1 DEF VotesRespected, OsiVote
  <2>4. CASE ~(l > call[c].highest)
    <3>1. l <= call[c].highest
      BY <2>1, <2>4, CoreNat, LevelNat, SMTT(40)
    <3>2. local_state' = [local_state EXCEPT ![n] = states[c][l]]
      BY <2>2, <2>4
    <3>3. local_state'[n] = states[c][l]
      BY <2>1, <3>2 DEF TypeOK, TreeTypeOK
    <3>4. \A d \in Cpus[n] \ {c} : states[c][l] <= OsiVote(n, d)
      BY <2>1, <3>1 DEF CoreInv, ValidatedInv, ValidatedAt
    <3>5. resolved_state(c)[l] = states[c][l]
      BY <2>1, <2>4, Constants DEF resolved_state
    <3>6. requested_states[n][c] = RUN /\ suspend_states[n][c] = states[c][l]
      BY <2>1, <3>5 DEF CoreInv, VoteInv
    <3>7. states[c][l] \in Nat /\ states[c][l] # NONE
      BY <2>1, CoreNat, SMTT(40) DEF NONE
    <3>8. OsiVote(n, c) = states[c][l]
      BY <3>6, <3>7 DEF OsiVote
    <3>9. \A d \in Cpus[n] : OsiVote(n, d)' = OsiVote(n, d)
      BY <2>2 DEF OsiVote
    <3>10. \A d \in Cpus[n] : local_state'[n] <= OsiVote(n, d)'
      BY <3>3, <3>4, <3>7, <3>8, <3>9, SMTT(40)
    <3>11. \A m \in NODE \ {n} : local_state'[m] = local_state[m]
      BY <2>1, <3>2 DEF TypeOK, TreeTypeOK
    <3> QED
      BY <2>1, <2>2, <3>10, <3>11, <1>OneNode
  <2> QED
    BY <2>3, <2>4
<1>4. CASE SetRunning(c)
  <2>1. PICK n \in NODE, l \in Level :
          n = NodeAt(c) /\ l = level[c] /\ n = Ancestor[c][l]
    BY <1>4, LoopLevel DEF SetRunning, Critical, CoreInv
  <2>2. /\ requested_states' = [requested_states EXCEPT ![n][c] = RUN]
        /\ suspend_states' = [suspend_states EXCEPT ![n][c] = NONE]
        /\ local_state' = [local_state EXCEPT ![n] = RUN]
    BY <1>4, <2>1 DEF SetRunning, SetRunningAt
  <2>3. \A m \in NODE \ {n} : /\ local_state'[m] = local_state[m]
                              /\ requested_states'[m] = requested_states[m]
                              /\ suspend_states'[m] = suspend_states[m]
    <3>1. \A m \in NODE \ {n} : local_state'[m] = local_state[m]
      BY <2>1, <2>2 DEF TypeOK, TreeTypeOK
    <3>2. \A m \in NODE \ {n} : requested_states'[m] = requested_states[m]
      BY <2>1, <2>2 DEF TypeOK, TreeTypeOK
    <3>3. \A m \in NODE \ {n} : suspend_states'[m] = suspend_states[m]
      BY <2>1, <2>2 DEF TypeOK, TreeTypeOK
    <3> QED
      BY <3>1, <3>2, <3>3
  <2>4. \A d \in Cpus[n] : local_state'[n] <= OsiVote(n, d)'
    <3>1. local_state'[n] = 0
      BY <2>1, <2>2 DEF RUN, TypeOK, TreeTypeOK
    <3>2. \A d \in Cpus[n] : OsiVote(n, d)' \in Nat
      BY <1>0
    <3> QED
      BY <3>1, <3>2, SMTT(40)
  <2> QED
    BY <2>1, <2>3, <2>4, <1>OneNode
<1>5. CASE ~NodeWriter(c)
  BY <1>5, NodesUntouched, VotesUntouched
<1> QED
  BY <1>1, <1>2, <1>3, <1>4, <1>5 DEF NodeWriter

-----------------------------------------------------------------------------
(* The theorems.                                                           *)

\* Psci::new establishes the inductive invariant.
LEMMA InitInv == Init => IInv
<1> SUFFICES ASSUME Init
             PROVE  IInv
  OBVIOUS
<1>1. TypeOK
  <2>1. TreeTypeOK
    BY Constants DEF Init, TreeInit, TreeTypeOK
  <2>2. pc \in [CPU -> Pc] /\ call \in [CPU -> CallRecord]
    BY Calls DEF Init, Pc
  <2>3. /\ level \in [CPU -> Nat] /\ lock_to \in [CPU -> Levels]
        /\ states \in [CPU -> [Levels -> PowerState]]
    BY Constants DEF Init
  <2> QED
    BY <2>1, <2>2, <2>3 DEF Init, TypeOK, Mode
<1>2. ASSUME NEW c \in CPU
      PROVE  CoreInv(c)
  <2>1. pc[c] \in {"nwd", "off"} /\ (pc[c] = "nwd" => c = Primary)
    BY DEF Init
  <2>2. ControlInv(c) /\ LockInv(c) /\ ValidatedInv(c)
    BY <2>1 DEF ControlInv, LockInv, ValidatedInv, Critical
  <2>3. ASSUME c = Primary
        PROVE  cpu_local_state[c] = RUN /\ \A l \in Level : VotesRun(c, l)
    <3>1. \A l \in Level : Ancestor[c][l] \in NODE /\ Ancestor[c][l] \in Ancestors[c]
      BY Ancestry DEF Ancestors
    <3> QED
      BY <2>3, <3>1 DEF Init, TreeInit, VotesRun
  <2>4. VoteInv(c) /\ CpuNodeInv(c)
    BY <2>1, <2>3 DEF VoteInv, CpuNodeInv, Awake
  <2> QED
    BY <2>2, <2>4 DEF CoreInv
<1>3. VotesRespected
  <2> SUFFICES ASSUME NEW n \in NODE, NEW d \in Cpus[n]
               PROVE  local_state[n] <= OsiVote(n, d)
    BY DEF VotesRespected
  <2>1. d \in CPU
    BY Below
  <2>2. CASE n \in Ancestors[Primary]
    <3>1. local_state[n] = 0
      BY <2>2 DEF Init, TreeInit, RUN
    <3>2. OsiVote(n, d) \in Nat
      BY <1>1, <2>1, VoteType, Constants
    <3> QED
      BY <3>1, <3>2, SMTT(40)
  <2>3. CASE n \notin Ancestors[Primary]
    <3>1. local_state[n] = OFF /\ requested_states[n][d] = OFF
      BY <2>1, <2>3 DEF Init, TreeInit
    <3>2. OsiVote(n, d) = OFF /\ OFF <= OFF
      BY <3>1, TreeAssumption, SMTT(40) DEF OsiVote, RUN
    <3> QED
      BY <3>1, <3>2
  <2> QED
    BY <2>2, <2>3
<1> QED
  BY <1>1, <1>2, <1>3 DEF IInv

\* The inductive invariant is preserved by every step.
LEMMA NextInv == IInv /\ [Next]_vars => IInv'
<1> SUFFICES ASSUME IInv, [Next]_vars
             PROVE  IInv'
  OBVIOUS
<1>1. CASE UNCHANGED vars
  <2>1. TypeOK'
    BY <1>1 DEF IInv, vars, TypeOK, TreeTypeOK, cpuNodeVars, nodeVars, lockVars,
                coreVars
  <2>2. ASSUME NEW c \in CPU
        PROVE  CoreInv(c)'
    <3>1. Keeps(c)
      BY <1>1 DEF Keeps, vars, cpuNodeVars, nodeVars, lockVars, coreVars
    <3> QED
      BY <3>1, Frame DEF IInv
  <2>3. VotesRespected'
    BY <1>1, VotesUntouched DEF IInv, vars
  <2> QED
    BY <2>1, <2>2, <2>3 DEF IInv
<1>2. ASSUME NEW c \in CPU, Call(c) \/ WakeUp(c) \/ Step(c)
      PROVE  IInv'
  <2>1. TypeOK /\ CoreInv(c) /\ ControlInv(c) /\ LockInv(c) /\ VotesRespected
    BY DEF IInv, CoreInv
  <2>2. TypeOK'
    BY <1>2, <2>1, TypeStep
  <2>3. CoreInv(c)'
    BY <1>2, <2>1, CoreStep
  <2>4. \A d \in CPU \ {c} : CoreInv(d)'
    BY <1>2, <2>1, OthersKeep, Frame DEF IInv
  <2>5. VotesRespected'
    BY <1>2, <2>1, <2>2, VotesStep
  <2> QED
    BY <2>2, <2>3, <2>4, <2>5 DEF IInv
<1> QED
  BY <1>1, <1>2 DEF Next

\* The inductive invariant implies the property it was built for.
LEMMA InvPowered == IInv => PoweredWhileAwake
<1> SUFFICES ASSUME IInv, NEW c \in CPU, Awake(c)
             PROVE  /\ pc[c] # "standby" => cpu_local_state[c] = RUN
                    /\ \A n \in Ancestors[c] : local_state[n] = RUN
  BY DEF PoweredWhileAwake
<1>1. TypeOK /\ CoreInv(c) /\ VotesRespected
  BY DEF IInv
<1>2. pc[c] # "standby" => cpu_local_state[c] = RUN
  BY <1>1 DEF CoreInv, CpuNodeInv
<1>3. \A l \in Level : VotesRun(c, l)
  BY <1>1 DEF CoreInv, VoteInv
<1>4. \A l \in Level : local_state[Ancestor[c][l]] = RUN
  BY <1>1, <1>3, RunVote
<1>5. \A n \in Ancestors[c] : \E l \in Level : n = Ancestor[c][l]
  BY DEF Ancestors
<1> QED
  BY <1>2, <1>4, <1>5

\* IInv holds in every reachable state, whatever the topology, the requests and
\* the platform's features.
THEOREM Invariance == Spec => []IInv
BY InitInv, NextInv, PTL DEF Spec

\* The variables keep their types: in particular no loop of the handlers runs
\* past the root of the tree.
THEOREM TypeCorrect == Spec => []TypeOK
<1>1. IInv => TypeOK
  BY DEF IInv
<1> QED
  BY <1>1, Invariance, PTL

\* No interleaving of CPU_OFF, platform-coordinated and OS-initiated suspends,
\* mode changes and resumes puts a node into a state deeper than a CPU below it
\* voted for.
THEOREM VotesAlwaysRespected == Spec => []VotesRespected
<1>1. IInv => VotesRespected
  BY DEF IInv
<1> QED
  BY <1>1, Invariance, PTL

\* A core that has not given up its power never has a power domain above it
\* recorded as anything but RUN.
THEOREM AwakeCoresArePowered == Spec => []PoweredWhileAwake
BY Invariance, InvPowered, PTL
=============================================================================
