--------------------------- MODULE PsciLifeProofs ---------------------------
(***************************************************************************)
(* Locks and lifecycle: LifeInv is an invariant of Psci, from which it     *)
(* follows that no set of cores wait for each other, and that the handlers *)
(* implement CpuLifecycle.                                                 *)
(***************************************************************************)
EXTENDS PsciProofs

\* Leaves go to Zenon unless they name another prover.
USE ZenonT(40)

-----------------------------------------------------------------------------
(* Locks.                                                                  *)

\* Core c holds the guard of its own CPU node.
HasGuard(c) == pc[c] \in Locking \cup {"mode"}

\* Core c has locked its ancestor at level l.
HasLocked(c, l) ==
  \/ pc[c] = "lock" /\ l < level[c]
  \/ pc[c] \in Critical /\ l <= lock_to[c]

\* What a step can do with the locks: nothing, outside and inside the locked
\* part of a handler; take the core's own node, an ancestor or the node of the
\* CPU to turn on; drop everything.
NoLocks(c) ==
  /\ UNCHANGED lockVars
  /\ ~HasGuard(c) /\ ~HasGuard(c)' /\ pc[c] # "power" /\ pc'[c] # "power"
KeepsLocks(c) ==
  /\ UNCHANGED lockVars
  /\ HasGuard(c) /\ HasGuard(c)'
  /\ \A l \in Level : HasLocked(c, l) => HasLocked(c, l)'
TakesGuard(c) ==
  /\ LockCpuNode(c, c) /\ UNCHANGED node_lock
  /\ ~HasGuard(c) /\ HasGuard(c)' /\ pc[c] # "power"
TakesAncestor(c) ==
  /\ level[c] \in Level /\ LockNode(c, Ancestor[c][level[c]])
  /\ UNCHANGED <<cpu_lock, pc, call>>
  /\ pc[c] = "lock" /\ level'[c] = level[c] + 1
TakesTarget(c) ==
  /\ LockCpuNode(c, call[c].target) /\ UNCHANGED <<node_lock, call>>
  /\ call[c].op = "on" /\ ~HasGuard(c) /\ pc[c] # "power" /\ pc'[c] = "power"
  /\ affinity_info[call[c].target] = "Off"
  /\ affinity_info' = [affinity_info EXCEPT ![call[c].target] = "OnPending"]
  /\ UNCHANGED entry_point
DropsLocks(c) == UnlockAll(c) /\ ~HasGuard(c)' /\ pc'[c] # "power"
LockEffect(c) ==
  \/ NoLocks(c) \/ KeepsLocks(c) \/ TakesGuard(c) \/ TakesAncestor(c)
  \/ TakesTarget(c) \/ DropsLocks(c)

\* One of these is what every step does.
LEMMA LockStep ==
  ASSUME TypeOK, NEW c \in CPU, ControlInv(c),
         Call(c) \/ WakeUp(c) \/ Step(c)
  PROVE  LockEffect(c)
\* A handler that returns has dropped its locks.
<1>ReturnDrops.
  ASSUME Return(c)
  PROVE  DropsLocks(c)
  BY <1>ReturnDrops, ReturnEffect DEF Return, DropsLocks, HasGuard, Locking, Critical
\* A call that enters a handler touches no lock yet.
<1>EnterNoLocks.
  ASSUME NEW label, NEW args, NEW composite, Enter(c, label, args, composite),
         UNCHANGED lockVars, label \in {"cpu", "scan_on", "scan_last"},
         pc[c] \in {"nwd", "wfi", "off", "scan_last"}
  PROVE  NoLocks(c)
  BY <1>EnterNoLocks, EnterEffect DEF NoLocks, HasGuard, Locking, Critical
\* Going on inside the locked part.
<1>StaysLocked.
  ASSUME UNCHANGED <<lockVars, lock_to>>,
         pc[c] \in Critical \/ (pc[c] = "lock" /\ level[c] > lock_to[c]
                                /\ level[c] \in 1 .. (lock_to[c] + 1)),
         pc'[c] \in Critical
  PROVE  KeepsLocks(c)
  <2> USE <1>StaysLocked
  <2>1. HasGuard(c) /\ HasGuard(c)'
    BY DEF HasGuard, Locking
  <2>2. ASSUME NEW l \in Level, HasLocked(c, l) PROVE l <= lock_to[c]
    BY <2>2, LevelNat, CoreNat, SMTT(40) DEF HasLocked, Critical
  <2> QED
    BY <2>1, <2>2 DEF KeepsLocks, HasLocked
<1> USE DEF LockEffect
<1>1. CASE CpuStandby(c)
  BY <1>1 DEF CpuStandby, Goto, NoLocks, HasGuard, Locking, Critical, TypeOK
<1>2. CASE CpuStandbyWake(c)
  BY <1>2 DEF CpuStandbyWake, Goto, NoLocks, HasGuard, Locking, Critical, TypeOK
<1>3. CASE CpuSuspend(c)
  BY <1>3, <1>EnterNoLocks DEF CpuSuspend
<1>4. CASE CpuOff(c)
  BY <1>4, <1>EnterNoLocks DEF CpuOff
<1>5. CASE CpuOn(c)
  BY <1>5, <1>EnterNoLocks DEF CpuOn
<1>6. CASE SystemSuspend(c)
  BY <1>6, <1>EnterNoLocks DEF SystemSuspend
<1>7. CASE SetSuspendMode(c)
  BY <1>7, <1>EnterNoLocks DEF SetSuspendMode
<1>8. CASE SuspendWake(c)
  BY <1>8, <1>EnterNoLocks DEF SuspendWake
<1>9. CASE SuspendWarmBoot(c)
  BY <1>9, <1>EnterNoLocks DEF SuspendWarmBoot
<1>10. CASE LockAncestor(c)
  <2>1. level[c] \in Level /\ NodeAt(c) = Ancestor[c][level[c]]
    BY <1>10, LoopLevel DEF LockAncestor
  <2> QED
    BY <1>10, <2>1 DEF LockAncestor, TakesAncestor, AtLevel, TypeOK
<1>11. CASE SuspendLockCpu(c)
  BY <1>11 DEF SuspendLockCpu, TakesGuard, HasGuard, Goto, Locking, Critical,
     TypeOK
<1>12. CASE SuspendReadMode(c)
  <2>1. HasGuard(c) /\ HasGuard(c)' /\ \A l \in Level : ~HasLocked(c, l)
    BY <1>12 DEF SuspendReadMode, StartLocking, Goto, HasGuard, HasLocked,
       Locking, Critical, TypeOK
  <2> QED
    BY <1>12, <2>1 DEF SuspendReadMode, KeepsLocks
<1>13. CASE SuspendPendingInterrupt(c)
  BY <1>13, <1>ReturnDrops DEF SuspendPendingInterrupt
<1>14. CASE SuspendStart(c)
  <2>1. pc[c] = "lock" /\ pc'[c] \in Critical /\ UNCHANGED <<lockVars, lock_to>>
        /\ level[c] > lock_to[c]
    BY <1>14 DEF SuspendStart, AncestorsLocked, Goto, Critical, TypeOK
  <2> QED
    BY <2>1, <1>StaysLocked DEF ControlInv
<1>15. CASE CoordinateLevel(c)
  BY <1>15, <1>StaysLocked DEF CoordinateLevel, Critical
<1>16. CASE ValidateLast(c)
  <2>1. CASE Return(c)
    BY <2>1, <1>ReturnDrops
  <2>2. CASE Goto(c, "validate") /\ UNCHANGED <<lockVars, call, level, lock_to, states>>
    BY <1>16, <2>2, <1>StaysLocked DEF ValidateLast, Goto, Critical, TypeOK
  <2> QED
    BY <1>16, <2>1, <2>2, SMTT(40) DEF ValidateLast
<1>17. CASE ValidateLevel(c)
  <2>1. CASE Return(c)
    BY <2>1, <1>ReturnDrops
  <2>2. CASE UNCHANGED <<lockVars, call, pc, lock_to, states>>
    BY <1>17, <2>2, <1>StaysLocked DEF ValidateLevel, Critical
  <2> QED
    BY <1>17, <2>1, <2>2, SMTT(40) DEF ValidateLevel
<1>18. CASE ValidatePlatform(c)
  <2>1. CASE Return(c)
    BY <2>1, <1>ReturnDrops
  <2>2. CASE Goto(c, "votes") /\ UNCHANGED <<lockVars, call, lock_to, states>>
    BY <1>18, <2>2, <1>StaysLocked DEF ValidatePlatform, Goto, Critical, TypeOK
  <2> QED
    BY <1>18, <2>1, <2>2, SMTT(40) DEF ValidatePlatform
<1>19. CASE ApplyVote(c)
  BY <1>19, <1>StaysLocked DEF ApplyVote, Critical
<1>20. CASE ApplyVotesDone(c)
  BY <1>20, <1>StaysLocked DEF ApplyVotesDone, Goto, Critical, TypeOK
<1>21. CASE set_nodes_from_local_states(c)
  BY <1>21, <1>StaysLocked DEF set_nodes_from_local_states, Critical
<1>22. CASE SuspendCommit(c)
  BY <1>22, EnterEffect DEF SuspendCommit, DropsLocks, HasGuard, Locking,
     Critical
<1>23. CASE ResumeLockCpu(c)
  BY <1>23 DEF ResumeLockCpu, StartLocking, TakesGuard, HasGuard, Goto, Locking,
     Critical, TypeOK
<1>24. CASE WakeFinish(c)
  <2>1. pc[c] = "lock" /\ pc'[c] \in Critical /\ UNCHANGED <<lockVars, lock_to>>
        /\ level[c] > lock_to[c]
    BY <1>24 DEF WakeFinish, AncestorsLocked, Goto, Critical, TypeOK
  <2> QED
    BY <2>1, <1>StaysLocked DEF ControlInv
<1>25. CASE BootFinish(c)
  <2>1. pc[c] = "lock" /\ pc'[c] \in Critical /\ UNCHANGED <<lockVars, lock_to>>
        /\ level[c] > lock_to[c]
    BY <1>25 DEF BootFinish, AncestorsLocked, Goto, Critical, TypeOK
  <2> QED
    BY <2>1, <1>StaysLocked DEF ControlInv
<1>26. CASE SetRunning(c)
  BY <1>26, <1>StaysLocked DEF SetRunning, Critical
<1>27. CASE ResumeDone(c)
  BY <1>27, <1>ReturnDrops DEF ResumeDone
<1>28. CASE OffLockCpu(c)
  <2>1. CASE Return(c)
    BY <2>1, <1>ReturnDrops
  <2>2. CASE LockCpuNode(c, c) /\ StartLocking(c, MAX_POWER_LEVEL)
             /\ UNCHANGED <<node_lock, call, states>>
    BY <1>28, <2>2 DEF OffLockCpu, StartLocking, TakesGuard, HasGuard, Goto,
       Locking, Critical, TypeOK
  <2> QED
    BY <1>28, <2>1, <2>2 DEF OffLockCpu
<1>29. CASE OffStart(c)
  <2>1. pc[c] = "lock" /\ pc'[c] \in Critical /\ UNCHANGED <<lockVars, lock_to>>
        /\ level[c] > lock_to[c]
    BY <1>29 DEF OffStart, AncestorsLocked, Goto, Critical, TypeOK
  <2> QED
    BY <2>1, <1>StaysLocked DEF ControlInv
<1>30. CASE OffCommit(c)
  BY <1>30, LeaveEffect DEF OffCommit, DropsLocks, HasGuard, Locking, Critical
<1>31. CASE PowerOff(c)
  BY <1>31 DEF PowerOff, Goto, NoLocks, HasGuard, Locking, Critical, TypeOK
<1>32. CASE OnLockTarget(c)
  <2>1. CASE Return(c)
    BY <2>1, <1>ReturnDrops
  <2>2. CASE /\ affinity_info[call[c].target] = "Off"
             /\ LockCpuNode(c, call[c].target) /\ Goto(c, "power")
             /\ affinity_info' =
                  [affinity_info EXCEPT ![call[c].target] = "OnPending"]
             /\ UNCHANGED <<node_lock, call, level, lock_to, states>>
    BY <1>32, <2>2 DEF OnLockTarget, TakesTarget, HasGuard, Goto, Locking,
       Critical, TypeOK
  <2> QED
    BY <1>32, <2>1, <2>2, SMTT(40) DEF OnLockTarget
<1>33. CASE OnPower(c)
  BY <1>33, <1>ReturnDrops DEF OnPower
<1>34. CASE PowerOn(c)
  BY <1>34, <1>EnterNoLocks DEF PowerOn
<1>35. CASE ScanOn(c)
  BY <1>35 DEF ScanOn, Goto, NoLocks, HasGuard, Locking, Critical, TypeOK
<1>36. CASE ScanLast(c)
  <2>1. CASE Return(c)
    BY <2>1, <1>ReturnDrops
  <2>2. CASE UNCHANGED <<lockVars, call, pc, lock_to, states>>
    BY <1>36, <2>2 DEF ScanLast, NoLocks, HasGuard, Locking, Critical
  <2> QED
    BY <1>36, <2>1, <2>2, SMTT(40) DEF ScanLast
<1>37. CASE ScanLastDone(c)
  <2>1. CASE call[c].op = "system_suspend"
    BY <1>37, <2>1, <1>EnterNoLocks DEF ScanLastDone
  <2>2. CASE Goto(c, "store") /\ UNCHANGED call
    BY <1>37, <2>2 DEF ScanLastDone, Goto, NoLocks, HasGuard, Locking, Critical,
       TypeOK
  <2> QED
    BY <1>37, <2>1, <2>2 DEF ScanLastDone
<1>38. CASE StoreMode(c)
  BY <1>38, <1>ReturnDrops DEF StoreMode
<1> QED
  BY <1>1, <1>2, <1>3, <1>4, <1>5, <1>6, <1>7, <1>8, <1>9, <1>10, <1>11,
     <1>12, <1>13, <1>14, <1>15, <1>16, <1>17, <1>18, <1>19, <1>20, <1>21,
     <1>22, <1>23, <1>24, <1>25, <1>26, <1>27, <1>28, <1>29, <1>30, <1>31,
     <1>32, <1>33, <1>34, <1>35, <1>36, <1>37, <1>38
     DEF Call, WakeUp, Step

\* Locks change hands as their holders' positions say.
LEMMA LocksKept ==
  ASSUME TypeOK, TypeOK', NEW c \in CPU, LockEffect(c),
         \A d \in CPU : HandlerInv(d) /\ CpuLockInv(d),
         \A n \in NODE : NodeLockInv(n),
         \A d \in CPU \ {c} : CoreKept(d)
  PROVE  (\A d \in CPU : CpuLockInv(d)') /\ (\A n \in NODE : NodeLockInv(n)')
<1> DEFINE Holds(d, h) == \/ h = d /\ HasGuard(h)
                          \/ pc[h] = "power" /\ call[h].target = d
<1>t. /\ cpu_lock \in [CPU -> CPU \cup {NONE}]
      /\ node_lock \in [NODE -> CPU \cup {NONE}]
  BY DEF TypeOK, TreeTypeOK
<1>a. \A d \in CPU : pc[d] = "power" => call[d].target \in CPU
  BY DEF HandlerInv
<1>b. ASSUME NEW d \in CPU, NEW h \in CPU
      PROVE  cpu_lock[d] = h <=> Holds(d, h)
  <2>1. CpuLockInv(d) /\ CpuLockInv(h) /\ h # NONE
    BY NoOwner
  <2>2. cpu_lock[d] = h => Holds(d, h)
    BY <2>1 DEF CpuLockInv, HasGuard
  <2>3. Holds(d, h) => cpu_lock[d] = h
    BY <2>1 DEF CpuLockInv, HasGuard
  <2> QED
    BY <2>2, <2>3
<1>c. ASSUME \A d, h \in CPU : cpu_lock'[d] = h => Holds(d, h)',
             \A d, h \in CPU : Holds(d, h)' => cpu_lock'[d] = h,
             pc'[c] = "power" => call'[c].target \in CPU
      PROVE  \A d \in CPU : CpuLockInv(d)'
  <2>1. \A d \in CPU : cpu_lock'[d] \in CPU \cup {NONE}
    BY DEF TypeOK, TreeTypeOK
  <2>2. \A d \in CPU : pc'[d] = "power" => call'[d].target \in CPU
    BY <1>a, <1>c DEF CoreKept
  <2>3. ASSUME NEW d \in CPU PROVE CpuLockInv(d)'
    <3>1. cpu_lock'[d] # NONE =>
            \/ cpu_lock'[d] = d /\ HasGuard(d)'
            \/ pc'[cpu_lock'[d]] = "power" /\ call'[cpu_lock'[d]].target = d
      BY <1>c, <2>1 DEF HasGuard
    <3>2. HasGuard(d)' => cpu_lock'[d] = d
      BY <1>c
    <3>3. pc'[d] = "power" => cpu_lock'[call'[d].target] = d
      BY <1>c, <2>2
    <3> QED
      BY <3>1, <3>2, <3>3 DEF CpuLockInv, HasGuard
  <2> QED
    BY <2>3
<1>d. \A d \in CPU, h \in CPU \ {c} : Holds(d, h)' <=> Holds(d, h)
  BY DEF CoreKept, HasGuard
<1> HIDE DEF Holds
<1>e. \A n \in NODE, h \in CPU : node_lock[n] = h =>
        \E l \in Level : n = Ancestor[h][l] /\ HasLocked(h, l)
  BY NoOwner DEF NodeLockInv, HasLocked
<1>f. ASSUME NEW n \in NODE,
             \A h \in CPU : node_lock'[n] = h =>
               \E l \in Level : n = Ancestor[h][l] /\ HasLocked(h, l)'
      PROVE  NodeLockInv(n)'
  <2>1. node_lock'[n] \in CPU \cup {NONE}
    BY DEF TypeOK, TreeTypeOK
  <2> QED
    BY <1>f, <2>1 DEF NodeLockInv, HasLocked
<1>g. \A h \in CPU \ {c}, l \in Level : HasLocked(h, l) => HasLocked(h, l)'
  BY DEF CoreKept, HasLocked
<1>h. ASSUME UNCHANGED node_lock,
             \A l \in Level : HasLocked(c, l) => HasLocked(c, l)'
      PROVE  \A n \in NODE : NodeLockInv(n)'
  <2>1. \A h \in CPU, l \in Level : HasLocked(h, l) => HasLocked(h, l)'
    BY <1>h, <1>g
  <2> QED
    BY <1>h, <2>1, <1>e, <1>f
\* A step that moves no CPU lock and leaves the core's claims as they are.
<1>i. ASSUME UNCHANGED cpu_lock, pc'[c] # "power",
             \A d \in CPU : Holds(d, c)' <=> Holds(d, c)
      PROVE  \A d \in CPU : CpuLockInv(d)'
  <2>1. ASSUME NEW d \in CPU, NEW h \in CPU
        PROVE  cpu_lock'[d] = h <=> Holds(d, h)'
    <3>1. cpu_lock[d] = h <=> Holds(d, h)
      BY <1>b
    <3>2. Holds(d, h)' <=> Holds(d, h)
      BY <1>i, <1>d
    <3> QED
      BY <1>i, <3>1, <3>2
  <2> QED
    BY <1>i, <2>1, <1>c
<1>1. CASE NoLocks(c)
  <2>1. UNCHANGED <<cpu_lock, node_lock>> /\ \A l \in Level : ~HasLocked(c, l)
    BY <1>1 DEF NoLocks, lockVars, HasLocked, HasGuard, Locking
  <2>2. \A d \in CPU : ~Holds(d, c) /\ ~Holds(d, c)' /\ pc'[c] # "power"
    BY <1>1 DEF NoLocks, Holds
  <2>3. \A d \in CPU : CpuLockInv(d)'
    BY <2>1, <2>2, <1>i
  <2>4. \A n \in NODE : NodeLockInv(n)'
    BY <2>1, <1>h
  <2> QED
    BY <2>3, <2>4
<1>2. CASE KeepsLocks(c)
  <2>1. UNCHANGED <<cpu_lock, node_lock>>
    BY <1>2 DEF KeepsLocks, lockVars
  <2>2. pc[c] # "power" /\ pc'[c] # "power"
    BY <1>2 DEF KeepsLocks, HasGuard, Locking, Critical
  <2>3. \A d \in CPU : Holds(d, c)' <=> Holds(d, c)
    BY <1>2, <2>2 DEF KeepsLocks, Holds
  <2>4. \A d \in CPU : CpuLockInv(d)'
    BY <2>1, <2>2, <2>3, <1>i
  <2>5. \A n \in NODE : NodeLockInv(n)'
    BY <1>2, <2>1, <1>h DEF KeepsLocks
  <2> QED
    BY <2>4, <2>5
<1>3. CASE TakesGuard(c)
  <2>1. /\ cpu_lock[c] = NONE /\ cpu_lock'[c] = c
        /\ \A d \in CPU \ {c} : cpu_lock'[d] = cpu_lock[d]
    BY <1>3, <1>t, SMTT(40) DEF TakesGuard, LockCpuNode
  <2>2. pc'[c] # "power" /\ \A l \in Level : ~HasLocked(c, l)
    BY <1>3 DEF TakesGuard, HasGuard, HasLocked, Locking, Critical
  <2>3. \A d \in CPU : ~Holds(d, c) /\ (Holds(d, c)' <=> d = c)
    BY <1>3, <2>2 DEF TakesGuard, Holds
  <2>4. \A h \in CPU : ~Holds(c, h)
    BY <2>1, <1>b, NoOwner
  <2>5. ASSUME NEW d \in CPU, NEW h \in CPU
        PROVE  cpu_lock'[d] = h <=> Holds(d, h)'
    <3>1. cpu_lock[d] = h <=> Holds(d, h)
      BY <1>b
    <3>2. CASE h = c
      BY <3>1, <3>2, <2>1, <2>3
    <3>3. CASE h # c
      <4>1. Holds(d, h)' <=> Holds(d, h)
        BY <3>3, <1>d
      <4> QED
        BY <3>1, <3>3, <4>1, <2>1, <2>4
    <3> QED
      BY <3>2, <3>3
  <2>6. \A d \in CPU : CpuLockInv(d)'
    BY <2>2, <2>5, <1>c
  <2>7. \A n \in NODE : NodeLockInv(n)'
    BY <1>3, <2>2, <1>h DEF TakesGuard
  <2> QED
    BY <2>6, <2>7
<1>4. CASE TakesAncestor(c)
  <2>1. UNCHANGED <<cpu_lock, pc, call>> /\ pc[c] = "lock"
    BY <1>4 DEF TakesAncestor
  <2>2. \A d \in CPU : CpuLockInv(d)'
    <3>1. \A d \in CPU : Holds(d, c)' <=> Holds(d, c)
      BY <2>1 DEF Holds, HasGuard
    <3> QED
      BY <2>1, <3>1, <1>i
  <2>3. \A l \in Level : HasLocked(c, l) \/ l = level[c] => HasLocked(c, l)'
    BY <1>4, LevelNat, CoreNat, SMTT(40) DEF TakesAncestor, HasLocked, Critical
  <2>4. /\ node_lock'[Ancestor[c][level[c]]] = c
        /\ \A n \in NODE \ {Ancestor[c][level[c]]} : node_lock'[n] = node_lock[n]
    <3>1. Ancestor[c][level[c]] \in NODE
      BY <1>4, Ancestry DEF TakesAncestor
    <3>2. node_lock' = [node_lock EXCEPT ![Ancestor[c][level[c]]] = c]
      BY <1>4 DEF TakesAncestor, LockNode
    <3> QED
      BY <1>t, <3>1, <3>2, SMTT(40)
  <2>5. \A h \in CPU, l \in Level : HasLocked(h, l) => HasLocked(h, l)'
    BY <2>3, <1>g
  <2>6. level[c] \in Level
    BY <1>4 DEF TakesAncestor
  <2>7. ASSUME NEW n \in NODE PROVE NodeLockInv(n)'
    <3>1. CASE n = Ancestor[c][level[c]]
      <4>1. PICK k \in Level : k = level[c]
        BY <2>6
      <4>2. n = Ancestor[c][k] /\ HasLocked(c, k)'
        BY <2>3, <3>1, <4>1
      <4>3. ASSUME NEW h \in CPU, node_lock'[n] = h
            PROVE  \E l \in Level : n = Ancestor[h][l] /\ HasLocked(h, l)'
        <5>1. h = c
          BY <2>4, <3>1, <4>3
        <5> QED
          BY <4>2, <5>1 DEF HasLocked
      <4> QED
        BY <4>3, <1>f
    <3>2. CASE n # Ancestor[c][level[c]]
      <4>1. ASSUME NEW h \in CPU, node_lock'[n] = h
            PROVE  \E l \in Level : n = Ancestor[h][l] /\ HasLocked(h, l)'
        <5>1. node_lock[n] = h
          BY <2>4, <3>2, <4>1
        <5> QED
          BY <2>5, <5>1, <1>e
      <4> QED
        BY <4>1, <1>f
    <3> QED
      BY <3>1, <3>2
  <2> QED
    BY <2>2, <2>7
<1>5. CASE TakesTarget(c)
  <2> DEFINE t == call[c].target
  <2>0. t \in CPU
    BY <1>5 DEF TakesTarget, HandlerInv
  <2>1. /\ cpu_lock[t] = NONE /\ cpu_lock'[t] = c
        /\ \A d \in CPU \ {t} : cpu_lock'[d] = cpu_lock[d]
    BY <1>5, <1>t, <2>0, SMTT(40) DEF TakesTarget, LockCpuNode
  <2>2. ~HasGuard(c)' /\ \A l \in Level : ~HasLocked(c, l)
    BY <1>5 DEF TakesTarget, HasGuard, HasLocked, Locking, Critical
  <2>3. \A d \in CPU : ~Holds(d, c) /\ (Holds(d, c)' <=> d = t)
    BY <1>5, <2>2 DEF TakesTarget, Holds
  <2>4. \A h \in CPU : ~Holds(t, h)
    BY <2>0, <2>1, <1>b, NoOwner
  <2>5. call'[c].target \in CPU
    BY <1>5, <2>0 DEF TakesTarget
  <2> HIDE DEF t
  <2>6. ASSUME NEW d \in CPU, NEW h \in CPU
        PROVE  cpu_lock'[d] = h <=> Holds(d, h)'
    <3>1. cpu_lock[d] = h <=> Holds(d, h)
      BY <1>b
    <3>2. CASE h = c
      BY <3>1, <3>2, <2>0, <2>1, <2>3
    <3>3. CASE h # c
      <4>1. Holds(d, h)' <=> Holds(d, h)
        BY <3>3, <1>d
      <4> QED
        BY <3>1, <3>3, <4>1, <2>0, <2>1, <2>4
    <3> QED
      BY <3>2, <3>3
  <2>7. \A d \in CPU : CpuLockInv(d)'
    BY <2>5, <2>6, <1>c
  <2>8. \A n \in NODE : NodeLockInv(n)'
    BY <1>5, <2>2, <1>h DEF TakesTarget
  <2> QED
    BY <2>7, <2>8
<1>6. CASE DropsLocks(c)
  <2>1. /\ \A d \in CPU : cpu_lock'[d] = IF cpu_lock[d] = c THEN NONE ELSE cpu_lock[d]
        /\ \A n \in NODE : node_lock'[n] = IF node_lock[n] = c THEN NONE
                                           ELSE node_lock[n]
    BY <1>6 DEF DropsLocks, UnlockAll
  <2>2. \A d \in CPU : ~Holds(d, c)' /\ pc'[c] # "power"
    BY <1>6 DEF DropsLocks, Holds
  <2>3. ASSUME NEW d \in CPU, NEW h \in CPU
        PROVE  cpu_lock'[d] = h <=> Holds(d, h)'
    <3>1. cpu_lock[d] = h <=> Holds(d, h)
      BY <1>b
    <3>2. CASE h = c
      BY <3>1, <3>2, <2>1, <2>2, NoOwner
    <3>3. CASE h # c
      <4>1. Holds(d, h)' <=> Holds(d, h)
        BY <3>3, <1>d
      <4> QED
        BY <3>1, <3>3, <4>1, <2>1, NoOwner
    <3> QED
      BY <3>2, <3>3
  <2>4. ASSUME NEW n \in NODE, NEW h \in CPU, node_lock'[n] = h
        PROVE  \E l \in Level : n = Ancestor[h][l] /\ HasLocked(h, l)'
    <3>1. h # c /\ node_lock[n] = h
      BY <2>1, <2>4, NoOwner
    <3> QED
      BY <3>1, <1>e, <1>g
  <2> QED
    <3>1. \A d \in CPU : CpuLockInv(d)'
      BY <2>2, <2>3, <1>c
    <3>2. \A n \in NODE : NodeLockInv(n)'
      BY <2>4, <1>f
    <3> QED
      BY <3>1, <3>2
<1> QED
  BY <1>1, <1>2, <1>3, <1>4, <1>5, <1>6 DEF LockEffect

-----------------------------------------------------------------------------
(* Handlers and their parameters.                                          *)

\* The fields of the calls the handlers build.
LEMMA CallFields ==
  /\ NoCall.op = "none" /\ NoCall.power_down = FALSE
  /\ \A r \in CallRecord :
       LET w == [r EXCEPT !.op = "wake"]
       IN  w.op = "wake" /\ w.power_down = r.power_down
  /\ LET b == [NoCall EXCEPT !.op = "boot"]
     IN  b.op = "boot" /\ b.power_down = FALSE
  /\ LET o == [NoCall EXCEPT !.op = "off", !.power_down = TRUE] IN o.op = "off"
  /\ \A h, p, k, e :
       LET s == [NoCall EXCEPT !.op = "suspend", !.highest = h,
                   !.power_down = p, !.last = k, !.entry = e]
       IN  s.op = "suspend" /\ s.entry = e /\ s.power_down = p
  /\ \A t, e : LET o == [NoCall EXCEPT !.op = "on", !.target = t, !.entry = e]
               IN  o.op = "on" /\ o.target = t /\ o.entry = e
  /\ \A e : LET s == [NoCall EXCEPT !.op = "system_suspend", !.entry = e]
            IN  s.op = "system_suspend" /\ s.entry = e
  /\ \A m : LET s == [NoCall EXCEPT !.op = "set_mode", !.mode = m]
            IN  s.op = "set_mode"
  /\ \A r \in CallRecord :
       LET s == [r EXCEPT !.op = "suspend", !.power_down = TRUE,
                          !.highest = MAX_POWER_LEVEL]
       IN  s.op = "suspend" /\ s.entry = r.entry /\ s.power_down = TRUE
  /\ \A r \in CallRecord, b \in BOOLEAN :
       LET p == [r EXCEPT !.power_down = b]
       IN  p.op = r.op /\ p.power_down = b /\ p.entry = r.entry
BY DEF NoCall, CallRecord

\* A core that has left its handler has no parameters to go by.
LEMMA LeaveHandler ==
  ASSUME TypeOK, NEW c \in CPU, NEW label, Leave(c, label),
         label \in {"nwd", "off_wfi"}
  PROVE  HandlerInv(c)' /\ call'[c] = NoCall /\ call'[c].op = "none"
<1>1. pc'[c] = label /\ call'[c] = NoCall
  BY DEF Leave, Goto, TypeOK
<1>2. call'[c].op = "none"
  BY <1>1, CallFields
<1> QED
  BY <1>1, <1>2 DEF HandlerInv

\* A handler that returns likewise.
LEMMA ReturnHandler ==
  ASSUME TypeOK, NEW c \in CPU, Return(c)
  PROVE  /\ HandlerInv(c)' /\ pc'[c] = "nwd"
         /\ call'[c] = NoCall /\ call'[c].op = "none"
BY LeaveHandler, ReturnEffect DEF Return

\* A handler moves on with the same parameters.
LEMMA MovesOn ==
  ASSUME NEW c \in CPU, HandlerInv(c), call'[c].op = call[c].op,
         call'[c].entry = call[c].entry, call'[c].target = call[c].target,
         \/ pc'[c] = pc[c]
         \/ pc'[c] \in Locking \cup {"mode"}
         \/ call[c].op = "none" /\ pc'[c] \in {"nwd", "standby", "off"}
         \/ call[c].op = "set_mode" /\ pc'[c] \in {"store", "scan_last"}
         \/ call[c].op = "on" /\ pc'[c] = "power"
         \/ call[c].op = "suspend" /\ pc'[c] = "wfi"
  PROVE  HandlerInv(c)'
BY DEF HandlerInv, Locking, Critical

\* A core is in the handler its position says, with that handler's parameters.
LEMMA HandlerStep ==
  ASSUME TypeOK, NEW c \in CPU, ControlInv(c), HandlerInv(c),
         Call(c) \/ WakeUp(c) \/ Step(c)
  PROVE  HandlerInv(c)'
\* A handler is entered with the parameters it needs.
<1>Enters.
  ASSUME NEW label, NEW args, NEW composite, Enter(c, label, args, composite),
         args.op = "on" => args.target \in CPU,
         args.op \in {"suspend", "system_suspend", "on"} =>
           args.entry \in EntryPoint,
         \/ label = "cpu" /\ args.op \in {"suspend", "off", "on", "wake", "boot"}
         \/ label = "scan_on" /\ args.op = "set_mode"
         \/ label = "scan_last" /\ args.op \in {"system_suspend", "set_mode"}
  PROVE  HandlerInv(c)' /\ pc'[c] = label /\ call'[c] = args
  <2> USE <1>Enters
  <2>1. pc'[c] = label /\ call'[c] = args
    BY EnterEffect
  <2> QED
    BY <2>1 DEF HandlerInv
<1>0. call[c] \in CallRecord
  BY DEF TypeOK
<1>1. CASE CpuStandby(c)
  <2>1. call' = call /\ call[c].op = "none" /\ pc'[c] = "standby"
    BY <1>1 DEF CpuStandby, Goto, TypeOK, HandlerInv
  <2> QED
    BY <2>1, MovesOn
<1>2. CASE CpuStandbyWake(c)
  <2>1. call' = call /\ call[c].op = "none" /\ pc'[c] = "nwd"
    BY <1>2 DEF CpuStandbyWake, Goto, TypeOK, HandlerInv
  <2> QED
    BY <2>1, MovesOn
<1>3. CASE CpuSuspend(c)
  <2>1. PICK r \in SuspendRequest, e \in EntryPoint :
          Enter(c, "cpu",
            [NoCall EXCEPT !.op = "suspend",
               !.highest = find_highest_non_run_level(r.states),
               !.power_down = r.power_down, !.last = r.last, !.entry = e],
            r.states)
    BY <1>3 DEF CpuSuspend
  <2> DEFINE a == [NoCall EXCEPT !.op = "suspend",
                     !.highest = find_highest_non_run_level(r.states),
                     !.power_down = r.power_down, !.last = r.last, !.entry = e]
  <2>2. a.op = "suspend" /\ a.entry \in EntryPoint
    BY DEF NoCall
  <2>3. Enter(c, "cpu", a, r.states)
    BY <2>1
  <2> HIDE DEF a
  <2> QED
    BY <2>2, <2>3, <1>Enters
<1>4. CASE CpuOff(c)
  <2> DEFINE a == [NoCall EXCEPT !.op = "off", !.power_down = TRUE]
  <2>1. a.op = "off"
    BY DEF NoCall
  <2>2. Enter(c, "cpu", a, AllOff)
    BY <1>4 DEF CpuOff
  <2> HIDE DEF a
  <2> QED
    BY <2>1, <2>2, <1>Enters
<1>5. CASE CpuOn(c)
  <2>1. PICK t \in CPU, e \in EntryPoint :
          Enter(c, "cpu", [NoCall EXCEPT !.op = "on", !.target = t, !.entry = e],
                AllRun)
    BY <1>5 DEF CpuOn
  <2> DEFINE a == [NoCall EXCEPT !.op = "on", !.target = t, !.entry = e]
  <2>2. a.op = "on" /\ a.target \in CPU /\ a.entry \in EntryPoint
    BY DEF NoCall
  <2>3. Enter(c, "cpu", a, AllRun)
    BY <2>1
  <2> HIDE DEF a
  <2> QED
    BY <2>2, <2>3, <1>Enters
<1>6. CASE SystemSuspend(c)
  <2>1. PICK e \in EntryPoint :
          Enter(c, "scan_last",
                [NoCall EXCEPT !.op = "system_suspend", !.entry = e], AllRun)
    BY <1>6 DEF SystemSuspend
  <2> DEFINE a == [NoCall EXCEPT !.op = "system_suspend", !.entry = e]
  <2>2. a.op = "system_suspend" /\ a.entry \in EntryPoint
    BY DEF NoCall
  <2>3. Enter(c, "scan_last", a, AllRun)
    BY <2>1
  <2> HIDE DEF a
  <2> QED
    BY <2>2, <2>3, <1>Enters
<1>7. CASE SetSuspendMode(c)
  <2>1. PICK m \in Mode :
          Enter(c, IF m = "OsInitiated" THEN "scan_on" ELSE "scan_last",
                [NoCall EXCEPT !.op = "set_mode", !.mode = m], AllRun)
    BY <1>7 DEF SetSuspendMode
  <2> DEFINE a == [NoCall EXCEPT !.op = "set_mode", !.mode = m]
  <2>2. a.op = "set_mode"
    BY DEF NoCall
  <2>3. Enter(c, "scan_on", a, AllRun) \/ Enter(c, "scan_last", a, AllRun)
    BY <2>1
  <2> HIDE DEF a
  <2> QED
    BY <2>2, <2>3, <1>Enters
<1>8. CASE SuspendWake(c)
  <2>1. [call[c] EXCEPT !.op = "wake"].op = "wake"
    BY <1>0, CallFields
  <2> QED
    BY <1>8, <2>1, <1>Enters DEF SuspendWake
<1>9. CASE SuspendWarmBoot(c)
  <2> DEFINE a == [NoCall EXCEPT !.op = "boot"]
  <2>1. a.op = "boot"
    BY DEF NoCall
  <2>2. Enter(c, "cpu", a, AllRun)
    BY <1>9 DEF SuspendWarmBoot
  <2> HIDE DEF a
  <2> QED
    BY <2>1, <2>2, <1>Enters
<1>10. CASE LockAncestor(c)
  BY <1>10, MovesOn DEF LockAncestor
<1>11. CASE SuspendLockCpu(c)
  BY <1>11, MovesOn DEF SuspendLockCpu, Goto, TypeOK
<1>12. CASE SuspendReadMode(c)
  BY <1>12, MovesOn DEF SuspendReadMode, StartLocking, Goto, TypeOK, Locking
<1>13. CASE SuspendPendingInterrupt(c)
  BY <1>13, ReturnHandler DEF SuspendPendingInterrupt
<1>14. CASE SuspendStart(c)
  BY <1>14, MovesOn DEF SuspendStart, Goto, TypeOK, Locking, Critical
<1>15. CASE CoordinateLevel(c)
  BY <1>15, MovesOn DEF CoordinateLevel
<1>16. CASE ValidateLast(c)
  <2>1. Return(c) \/ (Goto(c, "validate") /\ UNCHANGED call)
    BY <1>16, SMTT(40) DEF ValidateLast
  <2> QED
    BY <2>1, ReturnHandler, MovesOn DEF Goto, TypeOK, Locking, Critical
<1>17. CASE ValidateLevel(c)
  <2>1. Return(c) \/ UNCHANGED <<pc, call>>
    BY <1>17, SMTT(40) DEF ValidateLevel
  <2> QED
    BY <2>1, ReturnHandler, MovesOn
<1>18. CASE ValidatePlatform(c)
  <2>1. Return(c) \/ (Goto(c, "votes") /\ UNCHANGED call)
    BY <1>18, SMTT(40) DEF ValidatePlatform
  <2> QED
    BY <2>1, ReturnHandler, MovesOn DEF Goto, TypeOK, Locking, Critical
<1>19. CASE ApplyVote(c)
  BY <1>19, MovesOn DEF ApplyVote
<1>20. CASE ApplyVotesDone(c)
  BY <1>20, MovesOn DEF ApplyVotesDone, Goto, TypeOK, Locking, Critical
<1>21. CASE set_nodes_from_local_states(c)
  BY <1>21, MovesOn DEF set_nodes_from_local_states
<1>22. CASE SuspendCommit(c)
  <2>1. pc'[c] = "wfi" /\ call'[c] = call[c] /\ call[c].op = "suspend"
    BY <1>22, EnterEffect DEF SuspendCommit
  <2> QED
    BY <2>1, MovesOn
<1>23. CASE ResumeLockCpu(c)
  BY <1>23, MovesOn DEF ResumeLockCpu, StartLocking, Goto, TypeOK, Locking
<1>24. CASE WakeFinish(c)
  BY <1>24, MovesOn DEF WakeFinish, Goto, TypeOK, Locking, Critical
<1>25. CASE BootFinish(c)
  <2>1. call'[c] = [call[c] EXCEPT !.power_down = (affinity_info[c] = "On")]
        /\ pc'[c] = "run"
    BY <1>25 DEF BootFinish, Goto, TypeOK
  <2>2. call'[c].op = call[c].op /\ call'[c].entry = call[c].entry
        /\ call'[c].target = call[c].target
    BY <2>1, <1>0 DEF CallRecord
  <2> QED
    BY <2>1, <2>2, MovesOn DEF Locking, Critical
<1>26. CASE SetRunning(c)
  BY <1>26, MovesOn DEF SetRunning
<1>27. CASE ResumeDone(c)
  BY <1>27, ReturnHandler DEF ResumeDone
<1>28. CASE OffLockCpu(c)
  <2>1. Return(c) \/ (StartLocking(c, MAX_POWER_LEVEL) /\ UNCHANGED call)
    BY <1>28 DEF OffLockCpu
  <2> QED
    BY <2>1, ReturnHandler, MovesOn DEF StartLocking, Goto, TypeOK, Locking
<1>29. CASE OffStart(c)
  BY <1>29, MovesOn DEF OffStart, Goto, TypeOK, Locking, Critical
<1>30. CASE OffCommit(c)
  BY <1>30, LeaveHandler DEF OffCommit
<1>31. CASE PowerOff(c)
  <2>1. call' = call /\ call[c].op = "none" /\ pc'[c] = "off"
    BY <1>31 DEF PowerOff, Goto, TypeOK, HandlerInv
  <2> QED
    BY <2>1, MovesOn
<1>32. CASE OnLockTarget(c)
  <2>1. Return(c) \/ (Goto(c, "power") /\ UNCHANGED call)
    BY <1>32, SMTT(40) DEF OnLockTarget
  <2>2. call[c].op = "on"
    BY <1>32 DEF OnLockTarget
  <2> QED
    BY <2>1, <2>2, ReturnHandler, MovesOn DEF Goto, TypeOK
<1>33. CASE OnPower(c)
  BY <1>33, ReturnHandler DEF OnPower
<1>34. CASE PowerOn(c)
  <2> DEFINE a == [NoCall EXCEPT !.op = "boot"]
  <2>1. a.op = "boot"
    BY DEF NoCall
  <2>2. Enter(c, "cpu", a, AllRun)
    BY <1>34 DEF PowerOn
  <2> HIDE DEF a
  <2> QED
    BY <2>1, <2>2, <1>Enters
<1>35. CASE ScanOn(c)
  <2>1. call' = call /\ call[c].op = "set_mode"
        /\ pc'[c] \in {pc[c], "store", "scan_last"}
    BY <1>35 DEF ScanOn, HandlerInv, Goto, TypeOK
  <2> QED
    BY <2>1, MovesOn
<1>36. CASE ScanLast(c)
  <2>1. Return(c) \/ UNCHANGED <<pc, call>>
    BY <1>36, SMTT(40) DEF ScanLast
  <2> QED
    BY <2>1, ReturnHandler, MovesOn
<1>37. CASE ScanLastDone(c)
  <2>1. CASE call[c].op = "system_suspend"
    <3> DEFINE r == [call[c] EXCEPT !.op = "suspend", !.power_down = TRUE,
                                    !.highest = MAX_POWER_LEVEL]
    <3>1. r.op = "suspend" /\ r.entry \in EntryPoint
      BY <2>1, <1>0, CallFields DEF HandlerInv
    <3>2. Enter(c, "cpu", r, AllOff)
      BY <1>37, <2>1 DEF ScanLastDone
    <3> QED
      BY <3>1, <3>2, <1>Enters
  <2>2. CASE call[c].op = "set_mode"
    BY <1>37, <2>2, MovesOn, SMTT(40) DEF ScanLastDone, Goto, TypeOK
  <2> QED
    BY <1>37, <2>1, <2>2 DEF ScanLastDone
<1>38. CASE StoreMode(c)
  BY <1>38, ReturnHandler DEF StoreMode
<1> QED
  BY <1>1, <1>2, <1>3, <1>4, <1>5, <1>6, <1>7, <1>8, <1>9, <1>10, <1>11,
     <1>12, <1>13, <1>14, <1>15, <1>16, <1>17, <1>18, <1>19, <1>20, <1>21,
     <1>22, <1>23, <1>24, <1>25, <1>26, <1>27, <1>28, <1>29, <1>30, <1>31,
     <1>32, <1>33, <1>34, <1>35, <1>36, <1>37, <1>38
     DEF Call, WakeUp, Step

-----------------------------------------------------------------------------
(* The lifecycle of the CPUs.                                              *)

\* Core c sleeps, or is on its way back from sleep; or it starts.
Sleeping(c) ==
  \/ pc[c] = "wfi" \/ call[c].op = "wake"
  \/ call[c].op = "boot" /\ (pc[c] = "run" => call[c].power_down)
FirstRun(c) == pc[c] = "run" /\ call[c].op = "boot" /\ ~call[c].power_down

\* A core that runs and will not be found doing anything else by its call.
Plain(c) ==
  pc[c] \notin {"off_wfi", "off", "wfi"} /\ call[c].op \notin {"wake", "boot"}

\* A step with which c's place in the lifecycle does not change.
Quiet(c) ==
  /\ UNCHANGED <<affinity_info, entry_point, power_on, ns_entry>>
  /\ pc'[c] \in {"off_wfi", "off"} <=> pc[c] \in {"off_wfi", "off"}
  /\ Booting(c) => Booting(c)'
  /\ Loaded(c)' <=> Loaded(c)
  /\ Sleeping(c)' <=> Sleeping(c)
  /\ FirstRun(c)' <=> FirstRun(c)

\* The steps that change a core's place in the lifecycle.
Turn(c) ==
  \/ SuspendCommit(c) \/ WakeFinish(c) \/ BootFinish(c) \/ ResumeDone(c)
  \/ OffCommit(c) \/ OnLockTarget(c) \/ OnPower(c) \/ PowerOn(c)

\* All others are quiet.
LEMMA QuietStep ==
  ASSUME TypeOK, NEW c \in CPU, ControlInv(c), HandlerInv(c), HandlerInv(c)',
         Call(c) \/ WakeUp(c) \/ Step(c), ~Turn(c)
  PROVE  Quiet(c)
\* Moving from one plain position to another is one.
<1>PlainQuiet.
  ASSUME Plain(c), Plain(c)',
         UNCHANGED <<affinity_info, entry_point, power_on, ns_entry>>
  PROVE  Quiet(c)
  BY <1>PlainQuiet DEF Plain, Quiet, Booting, Loaded, PoweringDown, Sleeping, FirstRun
\* So is staying where one is.
<1>SameQuiet.
  ASSUME pc'[c] = pc[c], call'[c] = call[c],
         UNCHANGED <<affinity_info, entry_point, power_on, ns_entry>>
  PROVE  Quiet(c)
  BY <1>SameQuiet DEF Quiet, Booting, Loaded, PoweringDown, Sleeping, FirstRun
\* Returning from a plain position.
<1>ReturnQuiet.
  ASSUME Plain(c), Return(c),
         UNCHANGED <<affinity_info, entry_point, power_on, ns_entry>>
  PROVE  Quiet(c)
  <2> USE <1>ReturnQuiet
  <2>1. Plain(c)'
    BY ReturnHandler DEF Plain
  <2> QED
    BY <2>1, <1>PlainQuiet
\* Entering a handler from the normal world.
<1>EnterQuiet.
  ASSUME NEW label, NEW args, NEW composite, pc[c] = "nwd",
         Enter(c, label, args, composite),
         label \in {"cpu", "scan_on", "scan_last"},
         args.op \notin {"wake", "boot"},
         UNCHANGED <<cpuNodeVars, power_on, ns_entry>>
  PROVE  Quiet(c)
  <2> USE <1>EnterQuiet
  <2>0. call[c].op = "none"
    BY DEF HandlerInv
  <2>1. Plain(c)
    BY <2>0 DEF Plain
  <2>3. pc'[c] = label /\ call'[c] = args
    BY EnterEffect
  <2>4. Plain(c)'
    BY <2>3 DEF Plain
  <2>2. UNCHANGED <<affinity_info, entry_point, power_on, ns_entry>>
    BY DEF cpuNodeVars
  <2> QED
    BY <2>1, <2>2, <2>4, <1>PlainQuiet
<1>0. call[c] \in CallRecord
  BY DEF TypeOK
<1> USE DEF cpuNodeVars
<1>1. CASE CpuStandby(c)
  <2>1. call' = call /\ call[c].op = "none" /\ pc[c] = "nwd" /\ pc'[c] = "standby"
    BY <1>1 DEF CpuStandby, Goto, TypeOK, HandlerInv
  <2> QED
    BY <1>1, <2>1, <1>PlainQuiet DEF CpuStandby, Plain
<1>2. CASE CpuStandbyWake(c)
  <2>1. call' = call /\ call[c].op = "none" /\ pc[c] = "standby" /\ pc'[c] = "nwd"
    BY <1>2 DEF CpuStandbyWake, Goto, TypeOK, HandlerInv
  <2> QED
    BY <1>2, <2>1, <1>PlainQuiet DEF CpuStandbyWake, Plain
<1>3. CASE CpuSuspend(c)
  <2>1. PICK r \in SuspendRequest, e \in EntryPoint :
          Enter(c, "cpu",
            [NoCall EXCEPT !.op = "suspend",
               !.highest = find_highest_non_run_level(r.states),
               !.power_down = r.power_down, !.last = r.last, !.entry = e],
            r.states)
    BY <1>3 DEF CpuSuspend
  <2> DEFINE a == [NoCall EXCEPT !.op = "suspend",
                     !.highest = find_highest_non_run_level(r.states),
                     !.power_down = r.power_down, !.last = r.last, !.entry = e]
  <2>2. a.op = "suspend"
    BY DEF NoCall
  <2>3. Enter(c, "cpu", a, r.states)
    BY <2>1
  <2> HIDE DEF a
  <2> QED
    BY <1>3, <2>2, <2>3, <1>EnterQuiet DEF CpuSuspend
<1>4. CASE CpuOff(c)
  <2> DEFINE a == [NoCall EXCEPT !.op = "off", !.power_down = TRUE]
  <2>1. a.op = "off"
    BY DEF NoCall
  <2>2. Enter(c, "cpu", a, AllOff)
    BY <1>4 DEF CpuOff
  <2> HIDE DEF a
  <2> QED
    BY <1>4, <2>1, <2>2, <1>EnterQuiet DEF CpuOff
<1>5. CASE CpuOn(c)
  <2>1. PICK t \in CPU, e \in EntryPoint :
          Enter(c, "cpu", [NoCall EXCEPT !.op = "on", !.target = t, !.entry = e],
                AllRun)
    BY <1>5 DEF CpuOn
  <2> DEFINE a == [NoCall EXCEPT !.op = "on", !.target = t, !.entry = e]
  <2>2. a.op = "on"
    BY DEF NoCall
  <2>3. Enter(c, "cpu", a, AllRun)
    BY <2>1
  <2> HIDE DEF a
  <2> QED
    BY <1>5, <2>2, <2>3, <1>EnterQuiet DEF CpuOn
<1>6. CASE SystemSuspend(c)
  <2>1. PICK e \in EntryPoint :
          Enter(c, "scan_last",
                [NoCall EXCEPT !.op = "system_suspend", !.entry = e], AllRun)
    BY <1>6 DEF SystemSuspend
  <2> DEFINE a == [NoCall EXCEPT !.op = "system_suspend", !.entry = e]
  <2>2. a.op = "system_suspend"
    BY DEF NoCall
  <2>3. Enter(c, "scan_last", a, AllRun)
    BY <2>1
  <2> HIDE DEF a
  <2> QED
    BY <1>6, <2>2, <2>3, <1>EnterQuiet DEF SystemSuspend
<1>7. CASE SetSuspendMode(c)
  <2>1. PICK m \in Mode :
          Enter(c, IF m = "OsInitiated" THEN "scan_on" ELSE "scan_last",
                [NoCall EXCEPT !.op = "set_mode", !.mode = m], AllRun)
    BY <1>7 DEF SetSuspendMode
  <2> DEFINE a == [NoCall EXCEPT !.op = "set_mode", !.mode = m]
  <2>2. a.op = "set_mode"
    BY DEF NoCall
  <2>3. Enter(c, "scan_on", a, AllRun) \/ Enter(c, "scan_last", a, AllRun)
    BY <2>1
  <2> HIDE DEF a
  <2> QED
    BY <1>7, <2>2, <2>3, <1>EnterQuiet DEF SetSuspendMode
<1>8. CASE SuspendWake(c)
  <2>1. [call[c] EXCEPT !.op = "wake"].op = "wake"
        /\ [call[c] EXCEPT !.op = "wake"].power_down = call[c].power_down
    BY <1>0, CallFields
  <2>a. Enter(c, "cpu", [call[c] EXCEPT !.op = "wake"], states[c])
    BY <1>8 DEF SuspendWake
  <2>b. pc'[c] = "cpu" /\ call'[c] = [call[c] EXCEPT !.op = "wake"]
    BY <2>a, EnterEffect, SMTT(40)
  <2>2. pc[c] = "wfi" /\ pc'[c] = "cpu" /\ call[c].op = "suspend"
        /\ call'[c].op = "wake" /\ call'[c].power_down = call[c].power_down
    BY <1>8, <2>1, <2>b DEF SuspendWake, HandlerInv
  <2>3. ~Booting(c) /\ (Loaded(c)' <=> Loaded(c))
    BY <2>2 DEF Booting, Loaded, PoweringDown
  <2>4. Sleeping(c) /\ Sleeping(c)' /\ ~FirstRun(c) /\ ~FirstRun(c)'
    BY <2>2 DEF Sleeping, FirstRun
  <2> QED
    BY <1>8, <2>2, <2>3, <2>4 DEF SuspendWake, Quiet
<1>9. CASE SuspendWarmBoot(c)
  <2>a. Enter(c, "cpu", [NoCall EXCEPT !.op = "boot"], AllRun)
    BY <1>9 DEF SuspendWarmBoot
  <2>b. pc'[c] = "cpu" /\ call'[c] = [NoCall EXCEPT !.op = "boot"]
    BY <2>a, EnterEffect, SMTT(40)
  <2>1. pc[c] = "wfi" /\ pc'[c] = "cpu" /\ call[c].op = "suspend"
        /\ call'[c].op = "boot" /\ call[c].power_down
    BY <1>9, <2>b, CallFields DEF SuspendWarmBoot, HandlerInv
  <2>2. ~Booting(c) /\ Loaded(c)' /\ Loaded(c)
    BY <2>1 DEF Booting, Loaded, PoweringDown
  <2>3. Sleeping(c) /\ Sleeping(c)' /\ ~FirstRun(c) /\ ~FirstRun(c)'
    BY <2>1 DEF Sleeping, FirstRun
  <2> QED
    BY <1>9, <2>1, <2>2, <2>3 DEF SuspendWarmBoot, Quiet
<1>10. CASE LockAncestor(c)
  BY <1>10, <1>SameQuiet DEF LockAncestor
<1>11. CASE SuspendLockCpu(c)
  BY <1>11, <1>PlainQuiet DEF SuspendLockCpu, Goto, TypeOK, Plain
<1>12. CASE SuspendReadMode(c)
  BY <1>12, <1>PlainQuiet DEF SuspendReadMode, StartLocking, Goto, TypeOK, Plain,
     ControlInv
<1>13. CASE SuspendPendingInterrupt(c)
  BY <1>13, <1>ReturnQuiet DEF SuspendPendingInterrupt, AncestorsLocked, Plain
<1>14. CASE SuspendStart(c)
  BY <1>14, <1>PlainQuiet DEF SuspendStart, AncestorsLocked, Goto, TypeOK, Plain
<1>15. CASE CoordinateLevel(c)
  BY <1>15, <1>SameQuiet DEF CoordinateLevel
<1>16. CASE ValidateLast(c)
  <2>1. Return(c) \/ (Goto(c, "validate") /\ UNCHANGED call)
    BY <1>16, SMTT(40) DEF ValidateLast
  <2>2. Plain(c) /\ UNCHANGED <<affinity_info, entry_point, power_on, ns_entry>>
    BY <1>16 DEF ValidateLast, ControlInv, Plain
  <2>3. Goto(c, "validate") /\ UNCHANGED call => Plain(c)'
    BY <2>2 DEF Goto, TypeOK, Plain
  <2> QED
    BY <2>1, <2>2, <2>3, <1>ReturnQuiet, <1>PlainQuiet
<1>17. CASE ValidateLevel(c)
  <2>1. Return(c) \/ UNCHANGED <<pc, call>>
    BY <1>17, SMTT(40) DEF ValidateLevel
  <2>2. Plain(c) /\ UNCHANGED <<affinity_info, entry_point, power_on, ns_entry>>
    BY <1>17 DEF ValidateLevel, ControlInv, Plain
  <2> QED
    BY <2>1, <2>2, <1>ReturnQuiet, <1>SameQuiet
<1>18. CASE ValidatePlatform(c)
  <2>1. Return(c) \/ (Goto(c, "votes") /\ UNCHANGED call)
    BY <1>18, SMTT(40) DEF ValidatePlatform
  <2>2. Plain(c) /\ UNCHANGED <<affinity_info, entry_point, power_on, ns_entry>>
    BY <1>18 DEF ValidatePlatform, ControlInv, Plain
  <2>3. Goto(c, "votes") /\ UNCHANGED call => Plain(c)'
    BY <2>2 DEF Goto, TypeOK, Plain
  <2> QED
    BY <2>1, <2>2, <2>3, <1>ReturnQuiet, <1>PlainQuiet
<1>19. CASE ApplyVote(c)
  BY <1>19, <1>SameQuiet DEF ApplyVote
<1>20. CASE ApplyVotesDone(c)
  BY <1>20, <1>PlainQuiet DEF ApplyVotesDone, Goto, TypeOK, Plain, ControlInv
<1>21. CASE set_nodes_from_local_states(c)
  BY <1>21, <1>SameQuiet DEF set_nodes_from_local_states
<1>22. CASE ResumeLockCpu(c)
  <2>1. pc[c] = "cpu" /\ pc'[c] = "lock" /\ call' = call
    BY <1>22 DEF ResumeLockCpu, StartLocking, Goto, TypeOK
  <2> QED
    BY <1>22, <2>1 DEF ResumeLockCpu, Quiet, Booting, Loaded, PoweringDown,
       Sleeping, FirstRun
<1>23. CASE SetRunning(c)
  BY <1>23, <1>SameQuiet DEF SetRunning
<1>24. CASE OffLockCpu(c)
  <2>1. Return(c) \/ (StartLocking(c, MAX_POWER_LEVEL) /\ UNCHANGED call)
    BY <1>24 DEF OffLockCpu
  <2>2. Plain(c) /\ UNCHANGED <<affinity_info, entry_point, power_on, ns_entry>>
    BY <1>24 DEF OffLockCpu, Plain
  <2>3. StartLocking(c, MAX_POWER_LEVEL) /\ UNCHANGED call => Plain(c)'
    BY <2>2 DEF StartLocking, Goto, TypeOK, Plain
  <2> QED
    BY <2>1, <2>2, <2>3, <1>ReturnQuiet, <1>PlainQuiet
<1>25. CASE OffStart(c)
  BY <1>25, <1>PlainQuiet DEF OffStart, AncestorsLocked, Goto, TypeOK, Plain
<1>26. CASE PowerOff(c)
  <2>1. call' = call /\ call[c].op = "none" /\ pc[c] = "off_wfi" /\ pc'[c] = "off"
    BY <1>26 DEF PowerOff, Goto, TypeOK, HandlerInv
  <2> QED
    BY <1>26, <2>1 DEF PowerOff, Quiet, Booting, Loaded, PoweringDown, Sleeping,
       FirstRun
<1>27. CASE ScanOn(c)
  <2>1. call' = call /\ call[c].op = "set_mode" /\ pc[c] = "scan_on"
        /\ pc'[c] \in {pc[c], "store", "scan_last"}
    BY <1>27 DEF ScanOn, HandlerInv, Goto, TypeOK
  <2> QED
    BY <1>27, <2>1, <1>PlainQuiet DEF ScanOn, Plain
<1>28. CASE ScanLast(c)
  <2>1. Return(c) \/ UNCHANGED <<pc, call>>
    BY <1>28, SMTT(40) DEF ScanLast
  <2>2. Plain(c) /\ UNCHANGED <<affinity_info, entry_point, power_on, ns_entry>>
    BY <1>28 DEF ScanLast, HandlerInv, Plain
  <2> QED
    BY <2>1, <2>2, <1>ReturnQuiet, <1>SameQuiet
<1>29. CASE ScanLastDone(c)
  <2>1. Plain(c) /\ UNCHANGED <<affinity_info, entry_point, power_on, ns_entry>>
    BY <1>29 DEF ScanLastDone, Plain
  <2>2. CASE call[c].op = "system_suspend"
    <3> DEFINE r == [call[c] EXCEPT !.op = "suspend", !.power_down = TRUE,
                                    !.highest = MAX_POWER_LEVEL]
    <3>0. r.op = "suspend" /\ Enter(c, "cpu", r, AllOff)
      BY <1>29, <2>2, <1>0, CallFields DEF ScanLastDone
    <3> HIDE DEF r
    <3>1. pc'[c] = "cpu" /\ call'[c].op = "suspend"
      BY <3>0, EnterEffect
    <3> QED
      BY <2>1, <3>1, <1>PlainQuiet DEF Plain
  <2>3. CASE call[c].op = "set_mode"
    <3>1. pc'[c] = "store" /\ call'[c].op = "set_mode"
      BY <1>29, <2>3 DEF ScanLastDone, Goto, TypeOK
    <3> QED
      BY <2>1, <3>1, <1>PlainQuiet DEF Plain
  <2> QED
    BY <1>29, <2>2, <2>3 DEF ScanLastDone
<1>30. CASE StoreMode(c)
  BY <1>30, <1>ReturnQuiet DEF StoreMode, HandlerInv, Plain
<1> QED
  BY <1>1, <1>2, <1>3, <1>4, <1>5, <1>6, <1>7, <1>8, <1>9, <1>10, <1>11,
     <1>12, <1>13, <1>14, <1>15, <1>16, <1>17, <1>18, <1>19, <1>20, <1>21,
     <1>22, <1>23, <1>24, <1>25, <1>26, <1>27, <1>28, <1>29, <1>30
     DEF Call, WakeUp, Step, Turn

\* A core that runs and does not restart is recorded as on, and its node holds
\* an entry point only while it powers down.
LEMMA Running ==
  ASSUME TypeOK, NEW c \in CPU, AffinityInv(c), ~Booting(c),
         pc[c] \notin {"off_wfi", "off"}
  PROVE  /\ affinity_info[c] = "On" /\ ~power_on[c]
         /\ entry_point[c] # NoEntry <=> Loaded(c)
<1>1. affinity_info[c] \in {"Off", "OnPending", "On"}
  BY DEF TypeOK, TreeTypeOK
<1> QED
  BY <1>1 DEF AffinityInv

\* The record of every CPU stays in step with where the CPU is.
LEMMA AffinityStep ==
  ASSUME TypeOK, NEW c \in CPU, ControlInv(c), HandlerInv(c)',
         \A d \in CPU : /\ HandlerInv(d) /\ CpuLockInv(d)
                        /\ AffinityInv(d) /\ TargetInv(d),
         \A d \in CPU \ {c} : CoreKept(d),
         Call(c) \/ WakeUp(c) \/ Step(c)
  PROVE  \A d \in CPU : AffinityInv(d)'
\* What the record of a CPU depends on.
<1>AffinityKept.
  ASSUME NEW d \in CPU, AffinityInv(d), affinity_info'[d] = affinity_info[d],
         entry_point'[d] = entry_point[d], power_on'[d] = power_on[d],
         pc'[d] \in {"off_wfi", "off"} <=> pc[d] \in {"off_wfi", "off"},
         Booting(d) => Booting(d)', Loaded(d)' <=> Loaded(d)
  PROVE  AffinityInv(d)'
  BY <1>AffinityKept DEF AffinityInv
\* Another core's step changes nothing about d unless it is a CPU_ON for d.
<1>AffinityFrame.
  ASSUME NEW d \in CPU, AffinityInv(d), CoreKept(d),
         affinity_info'[d] = affinity_info[d],
         entry_point'[d] = entry_point[d], power_on'[d] = power_on[d]
  PROVE  AffinityInv(d)'
  <2> USE <1>AffinityFrame
  <2>1. (Booting(d)' <=> Booting(d)) /\ (Loaded(d)' <=> Loaded(d))
    BY DEF CoreKept, Booting, Loaded, PoweringDown
  <2>2. pc'[d] = pc[d]
    BY DEF CoreKept
  <2> QED
    BY <2>1, <2>2, <1>AffinityKept
<1>a. c \in CPU /\ HandlerInv(c) /\ AffinityInv(c) /\ TargetInv(c)
  OBVIOUS
<1>b. ASSUME \A d \in CPU \ {c} : /\ affinity_info'[d] = affinity_info[d]
                                  /\ entry_point'[d] = entry_point[d]
                                  /\ power_on'[d] = power_on[d],
             AffinityInv(c)'
      PROVE  \A d \in CPU : AffinityInv(d)'
  <2>1. \A d \in CPU \ {c} : AffinityInv(d)'
    BY <1>b, <1>AffinityFrame
  <2> QED
    BY <1>b, <2>1
<1>c. NoEntry \notin EntryPoint
  BY TreeAssumption
<1>1. CASE Quiet(c)
  <2>1. AffinityInv(c)'
    BY <1>1, <1>a, <1>AffinityKept DEF Quiet
  <2> QED
    BY <1>1, <2>1, <1>b DEF Quiet
<1>2. CASE SuspendCommit(c)
  <2>1. /\ pc[c] \in {"coordinate", "local"} /\ call[c].op = "suspend"
        /\ pc'[c] = "wfi" /\ call'[c] = call[c]
        /\ affinity_info' = affinity_info /\ power_on' = power_on
        /\ entry_point' = IF call[c].power_down
                          THEN [entry_point EXCEPT ![c] = call[c].entry]
                          ELSE entry_point
    BY <1>2, EnterEffect DEF SuspendCommit, Coordinated
  <2>2. /\ affinity_info[c] = "On" /\ ~power_on[c]
        /\ entry_point[c] # NoEntry <=> Loaded(c)
    BY <2>1, <1>a, Running DEF Booting
  <2>3. ~Loaded(c) /\ (Loaded(c)' <=> call[c].power_down)
    BY <2>1 DEF Loaded, PoweringDown, Booting
  <2>4. call[c].entry # NoEntry
    BY <2>1, <1>a, <1>c DEF HandlerInv
  <2>5. entry_point'[c] # NoEntry <=> call[c].power_down
    BY <2>1, <2>2, <2>3, <2>4 DEF TypeOK, TreeTypeOK
  <2>6. AffinityInv(c)'
    BY <2>1, <2>2, <2>3, <2>5 DEF AffinityInv
  <2>7. \A d \in CPU \ {c} : entry_point'[d] = entry_point[d]
    BY <2>1 DEF TypeOK, TreeTypeOK
  <2> QED
    BY <2>1, <2>6, <2>7, <1>b
<1>3. CASE WakeFinish(c)
  <2>1. /\ pc[c] = "lock" /\ call[c].op = "wake" /\ pc'[c] = "run"
        /\ call'[c] = call[c]
        /\ affinity_info' = affinity_info /\ power_on' = power_on
        /\ entry_point' = IF call[c].power_down
                          THEN [entry_point EXCEPT ![c] = NoEntry]
                          ELSE entry_point
    BY <1>3 DEF WakeFinish, AncestorsLocked, Goto, TypeOK
  <2>2. /\ affinity_info[c] = "On" /\ ~power_on[c]
        /\ entry_point[c] # NoEntry <=> Loaded(c)
    BY <2>1, <1>a, Running DEF Booting
  <2>3. ~Loaded(c)' /\ (Loaded(c) <=> call[c].power_down)
    BY <2>1 DEF Loaded, PoweringDown, Booting
  <2>4. entry_point'[c] = NoEntry
    BY <2>1, <2>2, <2>3 DEF TypeOK, TreeTypeOK
  <2>5. AffinityInv(c)'
    BY <2>1, <2>2, <2>3, <2>4 DEF AffinityInv
  <2>6. \A d \in CPU \ {c} : entry_point'[d] = entry_point[d]
    BY <2>1 DEF TypeOK, TreeTypeOK
  <2> QED
    BY <2>1, <2>5, <2>6, <1>b
<1>4. CASE BootFinish(c)
  <2>1. /\ pc[c] = "lock" /\ call[c].op = "boot" /\ pc'[c] = "run"
        /\ affinity_info[c] # "Off"
        /\ affinity_info' = [affinity_info EXCEPT ![c] = "On"]
        /\ entry_point' = entry_point /\ power_on' = power_on
    BY <1>4 DEF BootFinish, AncestorsLocked, Goto, TypeOK
  <2>2. call'[c].op = "boot"
    BY <1>4, <2>1, SMTT(40) DEF BootFinish, TypeOK, CallRecord
  <2>3. Booting(c) /\ Loaded(c) /\ Loaded(c)'
    BY <2>1, <2>2 DEF Booting, Loaded
  <2>4. entry_point[c] # NoEntry /\ ~power_on[c]
    <3>1. affinity_info[c] \in {"OnPending", "On"}
      BY <2>1 DEF TypeOK, TreeTypeOK
    <3> QED
      BY <2>1, <2>3, <3>1, <1>a DEF AffinityInv
  <2>5. affinity_info'[c] = "On"
    BY <2>1 DEF TypeOK, TreeTypeOK
  <2>6. AffinityInv(c)'
    BY <2>1, <2>3, <2>4, <2>5 DEF AffinityInv
  <2>7. \A d \in CPU \ {c} : affinity_info'[d] = affinity_info[d]
    BY <2>1 DEF TypeOK, TreeTypeOK
  <2> QED
    BY <2>1, <2>6, <2>7, <1>b
<1>5. CASE ResumeDone(c)
  <2>1. /\ pc[c] = "run" /\ Return(c)
        /\ affinity_info' = affinity_info /\ power_on' = power_on
        /\ \/ call[c].op = "wake" /\ entry_point' = entry_point
           \/ entry_point' = [entry_point EXCEPT ![c] = NoEntry]
    BY <1>5 DEF ResumeDone
  <2>2. /\ affinity_info[c] = "On" /\ ~power_on[c]
        /\ entry_point[c] # NoEntry <=> Loaded(c)
    BY <2>1, <1>a, Running DEF Booting
  <2>3. entry_point'[c] = NoEntry
    BY <2>1, <2>2 DEF Loaded, PoweringDown, Booting, TypeOK, TreeTypeOK
  <2>4. pc'[c] = "nwd" /\ ~Loaded(c)'
    BY <2>1, ReturnEffect DEF Loaded, PoweringDown, Booting
  <2>5. AffinityInv(c)'
    BY <2>1, <2>2, <2>3, <2>4 DEF AffinityInv
  <2>6. \A d \in CPU \ {c} : entry_point'[d] = entry_point[d]
    BY <2>1 DEF TypeOK, TreeTypeOK
  <2> QED
    BY <2>1, <2>5, <2>6, <1>b
<1>6. CASE OffCommit(c)
  <2>1. /\ pc[c] \in {"coordinate", "local"} /\ pc'[c] = "off_wfi"
        /\ affinity_info' = [affinity_info EXCEPT ![c] = "Off"]
        /\ entry_point' = entry_point /\ power_on' = power_on
    BY <1>6, LeaveEffect DEF OffCommit, Coordinated
  <2>2. ~power_on[c] /\ entry_point[c] = NoEntry
    BY <2>1, <1>a, Running DEF Booting, Loaded, PoweringDown
  <2>3. affinity_info'[c] = "Off"
    BY <2>1 DEF TypeOK, TreeTypeOK
  <2>4. AffinityInv(c)'
    BY <2>1, <2>2, <2>3 DEF AffinityInv
  <2>5. \A d \in CPU \ {c} : affinity_info'[d] = affinity_info[d]
    BY <2>1 DEF TypeOK, TreeTypeOK
  <2> QED
    BY <2>1, <2>4, <2>5, <1>b
<1>7. CASE OnLockTarget(c)
  <2>a. PICK t \in CPU : t = call[c].target
    BY <1>7, <1>a DEF OnLockTarget, HandlerInv
  <2>0. Plain(c) /\ pc[c] = "cpu"
    BY <1>7, <1>a DEF OnLockTarget, Plain
  <2>1. entry_point' = entry_point /\ power_on' = power_on
    BY <1>7 DEF OnLockTarget
  <2>2. CASE Return(c) /\ UNCHANGED affinity_info
    <3>1. Plain(c)'
      BY <2>2, ReturnHandler DEF Plain
    <3>2. AffinityInv(c)'
      BY <2>0, <2>1, <2>2, <3>1, <1>a, <1>AffinityKept
         DEF Plain, Booting, Loaded, PoweringDown
    <3> QED
      BY <2>1, <2>2, <3>2, <1>b
  <2>3. CASE /\ affinity_info[t] = "Off" /\ Goto(c, "power") /\ UNCHANGED call
             /\ affinity_info' = [affinity_info EXCEPT ![t] = "OnPending"]
    <3>1. t # c
      BY <2>0, <2>3, <1>a DEF AffinityInv
    <3>2. /\ affinity_info'[t] = "OnPending"
          /\ \A d \in CPU \ {t} : affinity_info'[d] = affinity_info[d]
      BY <2>0, <2>3 DEF TypeOK, TreeTypeOK
    <3>3. /\ pc[t] \in {"off_wfi", "off"} /\ entry_point[t] = NoEntry
          /\ ~power_on[t] /\ pc'[t] = pc[t]
      BY <2>0, <2>3, <3>1 DEF AffinityInv, CoreKept
    <3>4. AffinityInv(t)'
      BY <2>1, <3>2, <3>3 DEF AffinityInv
    <3>5. pc'[c] = "power" /\ Plain(c)'
      BY <2>0, <2>3 DEF Plain, Goto, TypeOK
    <3>6. AffinityInv(c)'
      BY <2>0, <2>1, <3>1, <3>2, <3>5, <1>a, <1>AffinityKept
         DEF Plain, Booting, Loaded, PoweringDown
    <3>7. \A d \in CPU \ {c, t} : AffinityInv(d)'
      BY <2>1, <3>2, <1>AffinityFrame
    <3> QED
      BY <3>4, <3>6, <3>7
  <2> QED
    BY <1>7, <2>a, <2>2, <2>3 DEF OnLockTarget
<1>8. CASE OnPower(c)
  <2>a. PICK t \in CPU : t = call[c].target
    BY <1>8, <1>a DEF OnPower, HandlerInv
  <2>0. /\ Plain(c) /\ pc[c] = "power" /\ Return(c)
        /\ call[c].entry # NoEntry
    BY <1>8, <1>a, <1>c DEF OnPower, HandlerInv, Plain
  <2>1. affinity_info[t] = "OnPending" /\ entry_point[t] = NoEntry
    BY <2>a, <2>0, <1>a DEF TargetInv
  <2>2. pc[t] \in {"off_wfi", "off"} /\ ~power_on[t]
    BY <2>0, <2>1 DEF AffinityInv
  <2>3. t # c /\ pc'[t] = pc[t]
    BY <2>0, <2>2 DEF CoreKept
  <2>4. \A d \in CPU \ {t} : /\ affinity_info'[d] = affinity_info[d]
                             /\ entry_point'[d] = entry_point[d]
                             /\ power_on'[d] = power_on[d]
    BY <1>8, <2>a DEF OnPower, TypeOK, TreeTypeOK
  <2>5. \/ /\ affinity_info'[t] = "OnPending" /\ power_on'[t] = TRUE
           /\ entry_point'[t] = call[c].entry
        \/ /\ affinity_info'[t] = "Off" /\ ~power_on'[t]
           /\ entry_point'[t] = NoEntry
    BY <1>8, <2>a, <2>1, <2>2 DEF OnPower, TypeOK, TreeTypeOK
  <2>6. AffinityInv(t)'
    BY <2>0, <2>2, <2>3, <2>5 DEF AffinityInv
  <2>7. Plain(c)'
    BY <2>0, ReturnHandler DEF Plain
  <2>8. AffinityInv(c)'
    BY <2>0, <2>3, <2>4, <2>7, <1>a, <1>AffinityKept
       DEF Plain, Booting, Loaded, PoweringDown
  <2>9. \A d \in CPU \ {c, t} : AffinityInv(d)'
    BY <2>4, <1>AffinityFrame
  <2> QED
    BY <2>6, <2>8, <2>9
<1>9. CASE PowerOn(c)
  <2>1. /\ pc[c] = "off" /\ power_on[c]
        /\ power_on' = [power_on EXCEPT ![c] = FALSE]
        /\ affinity_info' = affinity_info /\ entry_point' = entry_point
    BY <1>9 DEF PowerOn, cpuNodeVars
  <2>2. affinity_info[c] = "OnPending" /\ entry_point[c] # NoEntry
    <3>1. affinity_info[c] \in {"Off", "OnPending", "On"}
      BY DEF TypeOK, TreeTypeOK
    <3> QED
      BY <2>1, <3>1, <1>a DEF AffinityInv
  <2>a. Enter(c, "cpu", [NoCall EXCEPT !.op = "boot"], AllRun)
    BY <1>9 DEF PowerOn
  <2>b. pc'[c] = "cpu" /\ call'[c] = [NoCall EXCEPT !.op = "boot"]
    BY <2>a, EnterEffect, SMTT(40)
  <2>3. Booting(c)'
    BY <2>b, CallFields DEF Booting
  <2>4. ~power_on'[c] /\ \A d \in CPU \ {c} : power_on'[d] = power_on[d]
    BY <2>1 DEF TypeOK
  <2>5. AffinityInv(c)'
    BY <2>1, <2>2, <2>3, <2>4 DEF AffinityInv
  <2> QED
    BY <2>1, <2>4, <2>5, <1>b
<1> QED
  BY <1>1, <1>2, <1>3, <1>4, <1>5, <1>6, <1>7, <1>8, <1>9, QuietStep DEF Turn

\* The target of a CPU_ON waits for its entry point.
LEMMA TargetStep ==
  ASSUME TypeOK, NEW c \in CPU, ControlInv(c), HandlerInv(c)',
         \A d \in CPU : /\ HandlerInv(d) /\ CpuLockInv(d)
                        /\ AffinityInv(d) /\ TargetInv(d),
         \A d \in CPU \ {c} : CoreKept(d),
         Call(c) \/ WakeUp(c) \/ Step(c),
         NEW d \in CPU
  PROVE  TargetInv(d)'
\* Two cores never turn on the same CPU.
<1>OneCaller.
  ASSUME CpuLockInv(c), CpuLockInv(d), pc[c] = "power", pc[d] = "power",
         call[c].target = call[d].target
  PROVE  c = d
  BY <1>OneCaller DEF CpuLockInv
<1> SUFFICES ASSUME pc'[d] = "power"
             PROVE  /\ affinity_info'[call'[d].target] = "OnPending"
                    /\ entry_point'[call'[d].target] = NoEntry
  BY DEF TargetInv
<1>1. CASE d = c
  <2>1. TakesTarget(c)
    BY <1>1, LockStep DEF LockEffect, NoLocks, KeepsLocks, TakesGuard,
       TakesAncestor, DropsLocks, HasGuard, Locking, Critical
  <2>2. PICK t \in CPU : t = call[c].target
    BY <2>1 DEF TakesTarget, HandlerInv
  <2>3. entry_point[t] = NoEntry
    BY <2>1, <2>2 DEF TakesTarget, AffinityInv
  <2> QED
    BY <1>1, <2>1, <2>2, <2>3 DEF TakesTarget, TypeOK, TreeTypeOK
<1>2. CASE d # c
  <2>1. pc[d] = "power" /\ call'[d] = call[d]
    BY <1>2 DEF CoreKept
  <2>2. PICK t \in CPU : t = call[d].target
    BY <2>1 DEF HandlerInv
  <2>3. /\ affinity_info[t] = "OnPending" /\ entry_point[t] = NoEntry
        /\ cpu_lock[t] = d
    BY <2>1, <2>2 DEF TargetInv, CpuLockInv
  <2>4. pc[t] \in {"off_wfi", "off"}
    BY <2>3 DEF AffinityInv
  <2>5. affinity_info'[t] = affinity_info[t] /\ entry_point'[t] = entry_point[t]
    <3>1. CASE Quiet(c)
      BY <3>1 DEF Quiet
    <3>2. CASE PowerOn(c)
      BY <3>2 DEF PowerOn, cpuNodeVars
    <3>3. CASE SuspendCommit(c) \/ WakeFinish(c) \/ BootFinish(c)
               \/ ResumeDone(c) \/ OffCommit(c)
      <4>1. t # c
        BY <2>4, <3>3 DEF SuspendCommit, WakeFinish, BootFinish, ResumeDone,
           OffCommit, Coordinated, AncestorsLocked
      <4>2. \A x \in CPU \ {c} : /\ affinity_info'[x] = affinity_info[x]
                                 /\ entry_point'[x] = entry_point[x]
        <5>1. /\ affinity_info \in [CPU -> {"Off", "OnPending", "On"}]
              /\ entry_point \in [CPU -> EntryPoint \cup {NoEntry}]
          BY DEF TypeOK, TreeTypeOK
        <5> QED
          BY <3>3, <5>1, SMTT(40) DEF SuspendCommit, WakeFinish, BootFinish, ResumeDone,
             OffCommit
      <4> QED
        BY <4>1, <4>2
    <3>4. CASE OnLockTarget(c)
      <4>1. t # call[c].target
        BY <2>3, <3>4, NoOwner DEF OnLockTarget
      <4> QED
        BY <3>4, <4>1 DEF OnLockTarget, TypeOK, TreeTypeOK
    <3>5. CASE OnPower(c)
      <4>1. t # call[c].target
        BY <1>2, <2>1, <2>2, <3>5, <1>OneCaller DEF OnPower
      <4> QED
        BY <3>5, <4>1 DEF OnPower, TypeOK, TreeTypeOK
    <3> QED
      BY <3>1, <3>2, <3>3, <3>4, <3>5, QuietStep DEF Turn
  <2> QED
    BY <2>1, <2>2, <2>3, <2>5
<1> QED
  BY <1>1, <1>2

\* The core that takes the step keeps its part.
LEMMA PowerDownStep ==
  ASSUME TypeOK, NEW c \in CPU, ControlInv(c), HandlerInv(c), HandlerInv(c)',
         AffinityInv(c), TargetInv(c), PowerDownInv(c),
         Call(c) \/ WakeUp(c) \/ Step(c)
  PROVE  PowerDownInv(c)'
\* A power down request powers down the core itself.
<1>PowerDownRequest.
  ASSUME NEW r \in SuspendRequest, r.power_down
  PROVE  r.states[0] = OFF
  <2> USE <1>PowerDownRequest
  <2>1. /\ r.states \in [Levels -> PowerState]
        /\ \A l \in Level : r.states[l - 1] >= r.states[l]
        /\ \E l \in Levels : r.states[l] = OFF
    BY PsciAssumption DEF is_valid_suspend_request
  <2> DEFINE S == {l \in Levels : r.states[l] = OFF}
  <2>2. S \subseteq Nat /\ S # {}
    BY <2>1, Constants
  <2>3. PICK k \in S : \A x \in S : k <= x
    BY <2>2, MinNat
  <2>4. CASE k # 0
    <3>1. k \in Level /\ k - 1 \in Levels
      BY <2>3, <2>4, TreeAssumption, SMTT(40) DEF Level, Levels
    <3>2. r.states[k - 1] >= OFF /\ r.states[k - 1] \in PowerState
      BY <2>1, <2>3, <3>1
    <3>3. r.states[k - 1] = OFF
      <4>1. \A x \in PowerState : x >= OFF => x = OFF
        BY TreeAssumption, SMTT(40) DEF PowerState, RUN
      <4> QED
        BY <3>2, <4>1
    <3>4. k - 1 \in S /\ ~(k <= k - 1)
      BY <2>2, <2>3, <3>1, <3>3, SMTT(40)
    <3> QED
      BY <2>3, <3>4
  <2> QED
    BY <2>3, <2>4
\* A handler that powers its core down keeps the core's own state OFF.
<1>PowerDownKept.
  ASSUME states'[c][0] = states[c][0], call'[c] = call[c], pc[c] # "wfi",
         pc'[c] # "wfi", cpu_local_state'[c] = cpu_local_state[c],
         affinity_info'[c] = affinity_info[c], Booting(c)' => Booting(c)
  PROVE  PowerDownInv(c)'
  BY <1>PowerDownKept DEF PowerDownInv
\* A core outside suspend and warm boot has nothing to keep.
<1>NoPowerDown.
  ASSUME call'[c].op \notin {"suspend", "boot"}, pc'[c] # "wfi"
  PROVE  PowerDownInv(c)'
  BY <1>NoPowerDown DEF PowerDownInv, Booting
<1>0. call[c] \in CallRecord
  BY DEF TypeOK
<1> USE DEF cpuNodeVars
<1>r. ASSUME Return(c) PROVE PowerDownInv(c)'
  BY <1>r, ReturnHandler, <1>NoPowerDown
<1>1. CASE CpuStandby(c)
  <2>1. call' = call /\ call[c].op = "none" /\ pc'[c] = "standby"
    BY <1>1 DEF CpuStandby, Goto, TypeOK, HandlerInv
  <2> QED
    BY <2>1, <1>NoPowerDown
<1>2. CASE CpuStandbyWake(c)
  <2>1. call' = call /\ call[c].op = "none" /\ pc'[c] = "nwd"
    BY <1>2 DEF CpuStandbyWake, Goto, TypeOK, HandlerInv
  <2> QED
    BY <2>1, <1>NoPowerDown
<1>3. CASE CpuSuspend(c)
  <2>1. PICK r \in SuspendRequest, e \in EntryPoint :
          Enter(c, "cpu",
            [NoCall EXCEPT !.op = "suspend",
               !.highest = find_highest_non_run_level(r.states),
               !.power_down = r.power_down, !.last = r.last, !.entry = e],
            r.states)
    BY <1>3 DEF CpuSuspend
  <2> DEFINE a == [NoCall EXCEPT !.op = "suspend",
                     !.highest = find_highest_non_run_level(r.states),
                     !.power_down = r.power_down, !.last = r.last, !.entry = e]
  <2>2. a.op = "suspend" /\ a.power_down = r.power_down
    BY DEF NoCall
  <2>3. Enter(c, "cpu", a, r.states)
    BY <2>1
  <2> HIDE DEF a
  <2>4. pc'[c] = "cpu" /\ call'[c].op = "suspend" /\ states'[c] = r.states
        /\ call'[c].power_down = r.power_down
    BY <2>2, <2>3, EnterEffect
  <2> QED
    BY <2>4, <1>PowerDownRequest DEF PowerDownInv, Booting
<1>4. CASE CpuOff(c)
  <2>1. Enter(c, "cpu", [NoCall EXCEPT !.op = "off", !.power_down = TRUE], AllOff)
    BY <1>4 DEF CpuOff
  <2>2. pc'[c] = "cpu"
        /\ call'[c] = [NoCall EXCEPT !.op = "off", !.power_down = TRUE]
    BY <2>1, EnterEffect, SMTT(40)
  <2>3. call'[c].op = "off"
    BY <2>2, CallFields
  <2> QED
    BY <2>2, <2>3, <1>NoPowerDown
<1>5. CASE CpuOn(c)
  <2>1. PICK t \in CPU, e \in EntryPoint :
          Enter(c, "cpu", [NoCall EXCEPT !.op = "on", !.target = t, !.entry = e],
                AllRun)
    BY <1>5 DEF CpuOn
  <2> DEFINE a == [NoCall EXCEPT !.op = "on", !.target = t, !.entry = e]
  <2>2. a.op = "on"
    BY DEF NoCall
  <2>3. Enter(c, "cpu", a, AllRun)
    BY <2>1
  <2> HIDE DEF a
  <2>4. pc'[c] = "cpu" /\ call'[c].op = "on"
    BY <2>2, <2>3, EnterEffect
  <2> QED
    BY <2>4, <1>NoPowerDown
<1>6. CASE SystemSuspend(c)
  <2>1. PICK e \in EntryPoint :
          Enter(c, "scan_last",
                [NoCall EXCEPT !.op = "system_suspend", !.entry = e], AllRun)
    BY <1>6 DEF SystemSuspend
  <2> DEFINE a == [NoCall EXCEPT !.op = "system_suspend", !.entry = e]
  <2>2. a.op = "system_suspend"
    BY DEF NoCall
  <2>3. Enter(c, "scan_last", a, AllRun)
    BY <2>1
  <2> HIDE DEF a
  <2>4. pc'[c] = "scan_last" /\ call'[c].op = "system_suspend"
    BY <2>2, <2>3, EnterEffect
  <2> QED
    BY <2>4, <1>NoPowerDown
<1>7. CASE SetSuspendMode(c)
  <2>1. PICK m \in Mode :
          Enter(c, IF m = "OsInitiated" THEN "scan_on" ELSE "scan_last",
                [NoCall EXCEPT !.op = "set_mode", !.mode = m], AllRun)
    BY <1>7 DEF SetSuspendMode
  <2> DEFINE a == [NoCall EXCEPT !.op = "set_mode", !.mode = m]
  <2>2. a.op = "set_mode"
    BY DEF NoCall
  <2>3. Enter(c, "scan_on", a, AllRun) \/ Enter(c, "scan_last", a, AllRun)
    BY <2>1
  <2> HIDE DEF a
  <2>4. pc'[c] \in {"scan_on", "scan_last"} /\ call'[c].op = "set_mode"
    BY <2>2, <2>3, EnterEffect
  <2> QED
    BY <2>4, <1>NoPowerDown
<1>8. CASE SuspendWake(c)
  <2>1. Enter(c, "cpu", [call[c] EXCEPT !.op = "wake"], states[c])
    BY <1>8 DEF SuspendWake
  <2>2. pc'[c] = "cpu" /\ call'[c] = [call[c] EXCEPT !.op = "wake"]
    BY <2>1, EnterEffect, SMTT(40)
  <2>3. call'[c].op = "wake"
    BY <2>2, CoreNat, WakeOp
  <2> QED
    BY <2>2, <2>3, <1>NoPowerDown
<1>9. CASE SuspendWarmBoot(c)
  <2>1. Enter(c, "cpu", [NoCall EXCEPT !.op = "boot"], AllRun)
    BY <1>9 DEF SuspendWarmBoot
  <2>2. pc'[c] = "cpu" /\ call'[c] = [NoCall EXCEPT !.op = "boot"]
    BY <2>1, EnterEffect, SMTT(40)
  <2>3. call'[c].op = "boot" /\ pc[c] = "wfi" /\ call[c].power_down
        /\ cpu_local_state' = cpu_local_state
    BY <1>9, <2>2, CallFields DEF SuspendWarmBoot
  <2> QED
    BY <2>2, <2>3 DEF PowerDownInv, Booting
<1>10. CASE LockAncestor(c)
  BY <1>10, <1>PowerDownKept DEF LockAncestor, Booting
<1>11. CASE SuspendLockCpu(c)
  BY <1>11, <1>PowerDownKept DEF SuspendLockCpu, Goto, TypeOK, Booting
<1>12. CASE SuspendReadMode(c)
  BY <1>12, <1>PowerDownKept DEF SuspendReadMode, StartLocking, Goto, TypeOK,
     Booting, ControlInv
<1>13. CASE SuspendPendingInterrupt(c)
  BY <1>13, <1>r DEF SuspendPendingInterrupt
<1>14. CASE SuspendStart(c)
  BY <1>14, <1>PowerDownKept DEF SuspendStart, AncestorsLocked, Goto, TypeOK, Booting
<1>15. CASE CoordinateLevel(c)
  <2>1. level[c] \in Level
    BY <1>15, LoopLevel DEF CoordinateLevel, Critical
  <2>2. level[c] # 0 /\ 0 \in Levels
    BY <2>1, LevelNat, Constants, SMTT(40)
  <2>3. states'[c][0] = states[c][0]
    BY <1>15, <2>2 DEF CoordinateLevel, TypeOK
  <2> QED
    BY <1>15, <2>3, <1>PowerDownKept DEF CoordinateLevel, Booting
<1>16. CASE ValidateLast(c)
  <2>1. Return(c) \/ (Goto(c, "validate") /\ UNCHANGED <<call, states>>)
    BY <1>16, SMTT(40) DEF ValidateLast
  <2> QED
    BY <1>16, <2>1, <1>r, <1>PowerDownKept DEF ValidateLast, Goto, TypeOK, Booting
<1>17. CASE ValidateLevel(c)
  <2>1. Return(c) \/ UNCHANGED <<pc, call, states>>
    BY <1>17, SMTT(40) DEF ValidateLevel
  <2> QED
    BY <1>17, <2>1, <1>r, <1>PowerDownKept DEF ValidateLevel, Booting
<1>18. CASE ValidatePlatform(c)
  <2>1. Return(c) \/ (Goto(c, "votes") /\ UNCHANGED <<call, states>>)
    BY <1>18, SMTT(40) DEF ValidatePlatform
  <2> QED
    BY <1>18, <2>1, <1>r, <1>PowerDownKept DEF ValidatePlatform, Goto, TypeOK,
       Booting
<1>19. CASE ApplyVote(c)
  BY <1>19, <1>PowerDownKept DEF ApplyVote, Booting
<1>20. CASE ApplyVotesDone(c)
  BY <1>20, <1>PowerDownKept DEF ApplyVotesDone, Goto, TypeOK, Booting
<1>21. CASE set_nodes_from_local_states(c)
  BY <1>21, <1>PowerDownKept DEF set_nodes_from_local_states, Booting
<1>22. CASE SuspendCommit(c)
  <2>1. pc'[c] = "wfi" /\ call'[c] = call[c] /\ call[c].op = "suspend"
        /\ pc[c] # "wfi"
    BY <1>22, EnterEffect DEF SuspendCommit, Coordinated
  <2>2. cpu_local_state'[c] = states[c][0]
    BY <1>22 DEF SuspendCommit, TypeOK, TreeTypeOK
  <2> QED
    BY <2>1, <2>2 DEF PowerDownInv, Booting
<1>23. CASE ResumeLockCpu(c)
  BY <1>23, <1>PowerDownKept DEF ResumeLockCpu, StartLocking, Goto, TypeOK, Booting
<1>24. CASE WakeFinish(c)
  BY <1>24, <1>NoPowerDown DEF WakeFinish, AncestorsLocked, Goto, TypeOK
<1>25. CASE BootFinish(c)
  <2>1. pc'[c] = "run"
    BY <1>25 DEF BootFinish, Goto, TypeOK
  <2>2. call'[c].op = "boot"
    BY <1>25, SMTT(40) DEF BootFinish, AncestorsLocked, TypeOK, CallRecord
  <2> QED
    BY <2>1, <2>2 DEF PowerDownInv, Booting
<1>26. CASE SetRunning(c)
  BY <1>26, <1>PowerDownKept DEF SetRunning, Booting
<1>27. CASE ResumeDone(c)
  BY <1>27, <1>r DEF ResumeDone
<1>28. CASE OffLockCpu(c)
  <2>1. Return(c) \/ (StartLocking(c, MAX_POWER_LEVEL) /\ UNCHANGED call)
    BY <1>28 DEF OffLockCpu
  <2> QED
    BY <1>28, <2>1, <1>r, <1>NoPowerDown DEF OffLockCpu, StartLocking, Goto, TypeOK
<1>29. CASE OffStart(c)
  BY <1>29, <1>NoPowerDown DEF OffStart, AncestorsLocked, Goto, TypeOK
<1>30. CASE OffCommit(c)
  BY <1>30, LeaveHandler, LeaveEffect, <1>NoPowerDown DEF OffCommit
<1>31. CASE PowerOff(c)
  <2>1. call' = call /\ call[c].op = "none" /\ pc'[c] = "off"
    BY <1>31 DEF PowerOff, Goto, TypeOK, HandlerInv
  <2> QED
    BY <2>1, <1>NoPowerDown
<1>32. CASE OnLockTarget(c)
  <2>1. Return(c) \/ (Goto(c, "power") /\ UNCHANGED call)
    BY <1>32, SMTT(40) DEF OnLockTarget
  <2> QED
    BY <1>32, <2>1, <1>r, <1>NoPowerDown DEF OnLockTarget, Goto, TypeOK
<1>33. CASE OnPower(c)
  BY <1>33, <1>r DEF OnPower
<1>34. CASE PowerOn(c)
  <2>1. Enter(c, "cpu", [NoCall EXCEPT !.op = "boot"], AllRun)
    BY <1>34 DEF PowerOn
  <2>2. pc'[c] = "cpu" /\ call'[c] = [NoCall EXCEPT !.op = "boot"]
    BY <2>1, EnterEffect, SMTT(40)
  <2>3. call'[c].op = "boot" /\ affinity_info' = affinity_info /\ pc[c] = "off"
    BY <1>34, <2>2, CallFields DEF PowerOn
  <2>4. affinity_info[c] # "On"
    BY <2>3 DEF AffinityInv
  <2> QED
    BY <2>2, <2>3, <2>4 DEF PowerDownInv
<1>35. CASE ScanOn(c)
  <2>1. call' = call /\ call[c].op = "set_mode" /\ pc[c] = "scan_on"
        /\ pc'[c] \in {pc[c], "store", "scan_last"}
    BY <1>35 DEF ScanOn, HandlerInv, Goto, TypeOK
  <2> QED
    BY <2>1, <1>NoPowerDown
<1>36. CASE ScanLast(c)
  <2>1. Return(c) \/ UNCHANGED <<pc, call, states>>
    BY <1>36, SMTT(40) DEF ScanLast
  <2> QED
    BY <1>36, <2>1, <1>r, <1>PowerDownKept DEF ScanLast, Booting
<1>37. CASE ScanLastDone(c)
  <2>1. CASE call[c].op = "system_suspend"
    <3> DEFINE r == [call[c] EXCEPT !.op = "suspend", !.power_down = TRUE,
                                    !.highest = MAX_POWER_LEVEL]
    <3>1. r.op = "suspend" /\ Enter(c, "cpu", r, AllOff)
      BY <1>37, <2>1, <1>0, CallFields DEF ScanLastDone
    <3> HIDE DEF r
    <3>2. pc'[c] = "cpu" /\ call'[c].op = "suspend" /\ states'[c] = AllOff
      BY <3>1, EnterEffect
    <3>3. AllOff[0] = OFF
      BY Constants DEF AllOff
    <3> QED
      BY <3>2, <3>3 DEF PowerDownInv, Booting
  <2>2. CASE call[c].op = "set_mode"
    <3>1. pc'[c] = "store" /\ call'[c].op = "set_mode"
      BY <1>37, <2>2 DEF ScanLastDone, Goto, TypeOK
    <3> QED
      BY <3>1, <1>NoPowerDown
  <2> QED
    BY <1>37, <2>1, <2>2 DEF ScanLastDone
<1>38. CASE StoreMode(c)
  BY <1>38, <1>r DEF StoreMode
<1> QED
  BY <1>1, <1>2, <1>3, <1>4, <1>5, <1>6, <1>7, <1>8, <1>9, <1>10, <1>11,
     <1>12, <1>13, <1>14, <1>15, <1>16, <1>17, <1>18, <1>19, <1>20, <1>21,
     <1>22, <1>23, <1>24, <1>25, <1>26, <1>27, <1>28, <1>29, <1>30, <1>31,
     <1>32, <1>33, <1>34, <1>35, <1>36, <1>37, <1>38
     DEF Call, WakeUp, Step

-----------------------------------------------------------------------------
(* The invariant.                                                          *)

\* LifeInv holds when the primary core has run Psci::new.
LEMMA InitLife == Init => LifeInv
<1> SUFFICES ASSUME Init
             PROVE  LifeInv
  OBVIOUS
<1>1. ASSUME NEW c \in CPU
      PROVE  /\ HandlerInv(c) /\ CpuLockInv(c) /\ AffinityInv(c)
             /\ TargetInv(c) /\ PowerDownInv(c)
  <2>1. /\ pc[c] = IF c = Primary THEN "nwd" ELSE "off"
        /\ affinity_info[c] = IF c = Primary THEN "On" ELSE "Off"
        /\ call[c] = NoCall /\ entry_point[c] = NoEntry /\ ~power_on[c]
        /\ cpu_lock[c] = NONE
    BY DEF Init, TreeInit
  <2>2. call[c].op = "none" /\ ~call[c].power_down
    BY <2>1, CallFields
  <2>3. HandlerInv(c)
    BY <2>1, <2>2 DEF HandlerInv
  <2>4. CpuLockInv(c) /\ TargetInv(c)
    BY <2>1 DEF CpuLockInv, TargetInv, Locking, Critical
  <2>5. AffinityInv(c) /\ PowerDownInv(c)
    BY <2>1, <2>2 DEF AffinityInv, PowerDownInv, Booting, Loaded, PoweringDown
  <2> QED
    BY <2>3, <2>4, <2>5
<1>2. \A n \in NODE : NodeLockInv(n)
  BY DEF Init, TreeInit, NodeLockInv
<1> QED
  BY <1>1, <1>2 DEF LifeInv

\* Every step keeps it.
LEMMA NextLife == IInv /\ IInv' /\ LifeInv /\ [Next]_vars => LifeInv'
<1> SUFFICES ASSUME IInv, IInv', LifeInv, [Next]_vars
             PROVE  LifeInv'
  OBVIOUS
<1>1. CASE UNCHANGED vars
  <2> USE DEF vars, cpuNodeVars, nodeVars, lockVars, coreVars
  <2>1. \A c \in CPU : HandlerInv(c)' /\ CpuLockInv(c)' /\ TargetInv(c)'
    <3>1. ASSUME NEW c \in CPU
          PROVE  HandlerInv(c)' /\ CpuLockInv(c)' /\ TargetInv(c)'
      <4>1. HandlerInv(c) /\ CpuLockInv(c) /\ TargetInv(c)
        BY DEF LifeInv
      <4> QED
        BY <1>1, <4>1 DEF HandlerInv, CpuLockInv, TargetInv
    <3> QED
      BY <3>1
  <2>2. \A c \in CPU : AffinityInv(c)' /\ PowerDownInv(c)'
    <3>1. ASSUME NEW c \in CPU PROVE AffinityInv(c)' /\ PowerDownInv(c)'
      <4>1. AffinityInv(c) /\ PowerDownInv(c)
        BY DEF LifeInv
      <4> QED
        BY <1>1, <4>1 DEF AffinityInv, PowerDownInv, Booting, Loaded, PoweringDown
    <3> QED
      BY <3>1
  <2>3. \A n \in NODE : NodeLockInv(n)'
    BY <1>1 DEF LifeInv, NodeLockInv
  <2> QED
    BY <2>1, <2>2, <2>3 DEF LifeInv
<1>2. ASSUME NEW c \in CPU, Call(c) \/ WakeUp(c) \/ Step(c)
      PROVE  LifeInv'
  <2>1. TypeOK /\ TypeOK' /\ ControlInv(c) /\ LockInv(c)
    BY DEF IInv, CoreInv
  <2>2. /\ \A d \in CPU : /\ HandlerInv(d) /\ CpuLockInv(d) /\ AffinityInv(d)
                          /\ TargetInv(d) /\ PowerDownInv(d)
        /\ \A n \in NODE : NodeLockInv(n)
    BY DEF LifeInv
  <2>3. \A d \in CPU \ {c} : Keeps(d) /\ CoreKept(d)
    <3>1. \A d \in CPU \ {c} : Keeps(d)
      BY <1>2, <2>1, OthersKeep
    <3> QED
      BY <3>1 DEF Keeps, CoreKept
  <2>4. \A d \in CPU : HandlerInv(d)'
    <3>1. HandlerInv(c)'
      BY <1>2, <2>1, <2>2, HandlerStep
    <3>2. ASSUME NEW d \in CPU \ {c} PROVE HandlerInv(d)'
      <4>1. pc'[d] = pc[d] /\ call'[d] = call[d] /\ HandlerInv(d)
        BY <2>2, <2>3 DEF CoreKept
      <4> QED
        BY <4>1, MovesOn
    <3> QED
      BY <3>1, <3>2
  <2>5. (\A d \in CPU : CpuLockInv(d)') /\ (\A n \in NODE : NodeLockInv(n)')
    <3>1. LockEffect(c)
      BY <1>2, <2>1, LockStep
    <3> QED
      BY <2>1, <2>2, <2>3, <3>1, LocksKept
  <2>6. \A d \in CPU : AffinityInv(d)'
    BY <1>2, <2>1, <2>2, <2>3, <2>4, AffinityStep
  <2>7. \A d \in CPU : TargetInv(d)'
    BY <1>2, <2>1, <2>2, <2>3, <2>4, TargetStep
  <2>8. \A d \in CPU : PowerDownInv(d)'
    <3>1. PowerDownInv(c)'
      BY <1>2, <2>1, <2>2, <2>4, PowerDownStep
    <3>2. ASSUME NEW d \in CPU \ {c} PROVE PowerDownInv(d)'
      <4>1. /\ pc'[d] = pc[d] /\ call'[d] = call[d] /\ states'[d] = states[d]
            /\ cpu_local_state'[d] = cpu_local_state[d]
        BY <2>3 DEF Keeps
      <4>2. (Booting(d)' <=> Booting(d)) /\ PowerDownInv(d)
        BY <2>2, <4>1 DEF Booting
      <4>3. affinity_info'[d] = "On" => affinity_info[d] = "On"
        <5>1. CASE Quiet(c)
          BY <5>1 DEF Quiet
        <5>2. CASE Turn(c)
          BY <2>1, <5>2 DEF Turn, SuspendCommit, WakeFinish, BootFinish,
             ResumeDone, OffCommit, OnLockTarget, OnPower, PowerOn, TypeOK,
             TreeTypeOK, cpuNodeVars
        <5> QED
          BY <1>2, <2>1, <2>2, <2>4, <5>1, <5>2, QuietStep
      <4> QED
        BY <4>1, <4>2, <4>3 DEF PowerDownInv
    <3> QED
      BY <3>1, <3>2
  <2> QED
    BY <2>4, <2>5, <2>6, <2>7, <2>8 DEF LifeInv
<1> QED
  BY <1>1, <1>2 DEF Next

\* The bookkeeping of locks, handlers and CPU records is right in every
\* reachable state: a lock is held exactly by the core that is between taking and
\* dropping it, a CPU recorded as on or pending is where that record says, and
\* its node holds an entry point exactly while one is due.
THEOREM LifeInvariance == Spec => []LifeInv
BY InitLife, NextLife, Invariance, PTL DEF Spec

-----------------------------------------------------------------------------
(* No circular wait.                                                       *)

\* How far a waiting core has got: at a CPU node, at the power controller with
\* a CPU node locked, or at an ancestor with the levels below it locked.
Rank(c) == CASE pc[c] = "lock" -> 1 + level[c]
             [] pc[c] = "power" -> 1
             [] OTHER -> 0

\* So no set of cores wait for each other.
LEMMA LifeNoWait == IInv /\ LifeInv => NoCircularWait
\* The core that holds a CPU node waits for nothing, or further up.
<1>GuardHolder.
  ASSUME LifeInv, NEW t \in CPU, cpu_lock[t] \in CPU
  PROVE  pc[cpu_lock[t]] \in Critical \cup {"lock", "mode", "power"}
  <2> USE <1>GuardHolder
  <2>1. CpuLockInv(t) /\ cpu_lock[t] # NONE
    BY NoOwner DEF LifeInv
  <2> QED
    BY <2>1 DEF CpuLockInv, Locking
\* A core waits at a CPU node, for a CPU to power off, or at an ancestor.
<1>WhereWaiting.
  ASSUME TypeOK, LifeInv, NEW c \in CPU, WaitsFor(c) \in CPU
  PROVE  \/ /\ pc[c] \in {"cpu", "scan_on", "scan_last"}
            /\ \E t \in CPU : WaitsFor(c) = cpu_lock[t]
         \/ pc[c] = "power" /\ WaitsFor(c) = call[c].target
         \/ /\ pc[c] = "lock" /\ level[c] <= lock_to[c]
            /\ WaitsFor(c) = node_lock[NodeAt(c)]
  <2> USE <1>WhereWaiting
  <2>1. call[c].op = "on" => call[c].target \in CPU
    BY DEF LifeInv, HandlerInv
  <2> QED
    BY <2>1, NoOwner DEF WaitsFor
\* Whoever is waited for and waits in turn has got further.
<1>RankGrows.
  ASSUME IInv, LifeInv, NEW c \in CPU, NEW d \in CPU, d = WaitsFor(c),
         WaitsFor(d) \in CPU
  PROVE  Rank(d) > Rank(c)
  <2> USE <1>RankGrows
  <2>0. TypeOK /\ level[c] \in Nat /\ level[d] \in Nat /\ ControlInv(c)
    BY CoreNat DEF IInv, CoreInv
  <2>1. pc[d] \in {"cpu", "scan_on", "scan_last", "power", "lock"}
    BY <2>0, <1>WhereWaiting
  <2>2. CASE /\ pc[c] \in {"cpu", "scan_on", "scan_last"}
             /\ \E t \in CPU : d = cpu_lock[t]
    <3>1. pc[d] \in {"lock", "power"}
      BY <2>1, <2>2, <1>GuardHolder DEF Critical
    <3>2. Rank(c) = 0 /\ Rank(d) \in {1, 1 + level[d]}
      BY <2>2, <3>1 DEF Rank
    <3> QED
      BY <2>0, <3>2, SMTT(40)
  <2>3. CASE pc[c] = "power" /\ d = call[c].target
    <3>1. AffinityInv(d) /\ TargetInv(c)
      BY DEF LifeInv
    <3>2. pc[d] \in {"off_wfi", "off"}
      BY <2>3, <3>1 DEF AffinityInv, TargetInv
    <3> QED
      BY <2>1, <3>2
  <2>4. CASE pc[c] = "lock" /\ level[c] <= lock_to[c] /\ d = node_lock[NodeAt(c)]
    <3>1. level[c] \in Level /\ NodeAt(c) \in NODE
          /\ NodeAt(c) = Ancestor[c][level[c]]
      BY <2>0, <2>4, LoopLevel
    <3>2. NodeLockInv(NodeAt(c)) /\ node_lock[NodeAt(c)] # NONE
      BY <2>4, <3>1, NoOwner DEF LifeInv
    <3>3. PICK k \in Level : /\ NodeAt(c) = Ancestor[d][k]
                             /\ \/ pc[d] = "lock" /\ k < level[d]
                                \/ pc[d] \in Critical /\ k <= lock_to[d]
      BY <2>4, <3>2 DEF NodeLockInv
    <3>4. k = level[c]
      BY <3>1, <3>3, SameLevel
    <3>5. pc[d] = "lock" /\ level[c] < level[d]
      BY <2>1, <3>3, <3>4 DEF Critical
    <3>6. Rank(c) = 1 + level[c] /\ Rank(d) = 1 + level[d]
      BY <2>4, <3>5 DEF Rank
    <3> QED
      BY <2>0, <3>5, <3>6, SMTT(40)
  <2> QED
    BY <2>0, <2>2, <2>3, <2>4, <1>WhereWaiting
<1> SUFFICES ASSUME IInv, LifeInv, NEW S \in SUBSET CPU, S # {},
                    \A c \in S : WaitsFor(c) \in S
             PROVE  FALSE
  BY DEF NoCircularWait
<1> DEFINE R == {Rank(c) : c \in S}
<1>0. TypeOK /\ MAX_POWER_LEVEL \in Nat
  BY TreeAssumption DEF IInv
<1>1. ASSUME NEW c \in S PROVE Rank(c) \in 0 .. (MAX_POWER_LEVEL + 2)
  <2>1. c \in CPU /\ ControlInv(c) /\ level[c] \in Nat /\ lock_to[c] \in Levels
    BY <1>0, CoreNat DEF IInv, CoreInv, TypeOK
  <2>2. pc[c] = "lock" => level[c] <= MAX_POWER_LEVEL + 1
    BY <1>0, <2>1, SMTT(40) DEF ControlInv, Levels
  <2>3. Rank(c) = (IF pc[c] = "lock" THEN 1 + level[c] ELSE 0)
        \/ Rank(c) = 1
    BY DEF Rank
  <2> QED
    BY <1>0, <2>1, <2>2, <2>3, SMTT(40)
<1>2. R \subseteq 0 .. (MAX_POWER_LEVEL + 2) /\ R # {}
  BY <1>1
<1>3. MAX_POWER_LEVEL + 2 \in Nat
  BY <1>0, SMTT(40)
<1>4. PICK m \in R : \A x \in R : m >= x
  BY <1>2, <1>3, MaxNat
<1>5. PICK c \in S : m = Rank(c)
  BY <1>4
<1>6. WaitsFor(c) \in S /\ c \in CPU /\ WaitsFor(c) \in CPU
  BY <1>5
<1>7. PICK d \in S : d = WaitsFor(c)
  BY <1>6
<1>8. Rank(d) > Rank(c)
  BY <1>6, <1>7, <1>RankGrows
<1>9. Rank(c) >= Rank(d) /\ Rank(c) \in Nat /\ Rank(d) \in Nat
  BY <1>1, <1>4, <1>5, <1>7, <1>0, SMTT(40)
<1> QED
  BY <1>8, <1>9, SMTT(40)

\* The handlers never deadlock: with_ancestors_locked_to_max_level, the CPU
\* guards, the scans of the CPU nodes and the wait of power_domain_on never form
\* a cycle, on any tree and with any number of cores.
THEOREM NeverCircularWait == Spec => []NoCircularWait
BY Invariance, LifeInvariance, LifeNoWait, PTL

-----------------------------------------------------------------------------
(* The refinement.                                                         *)

\* The place of a CPU in the lifecycle, by disjoint cases.
PowerCases(c) ==
  /\ affinity_info[c] # "On" =>
       LifePower(c) = IF entry_point[c] = NoEntry THEN "off" ELSE "starting"
  /\ affinity_info[c] = "On" =>
       LifePower(c) = IF FirstRun(c) THEN "starting"
                      ELSE IF Sleeping(c) THEN "sleeping" ELSE "on"

\* The initial states of the handlers are initial states of CpuLifecycle.
LEMMA LifecycleInit == Init => Lifecycle!LifeInit
<1> SUFFICES ASSUME Init PROVE Lifecycle!LifeInit
  OBVIOUS
<1>1. ASSUME NEW c \in CPU
      PROVE  LifePower(c) = IF c = Primary THEN "on" ELSE "off"
  <2>1. /\ affinity_info[c] = IF c = Primary THEN "On" ELSE "Off"
        /\ pc[c] \notin {"wfi", "run"} /\ call[c] = NoCall
    BY DEF Init, TreeInit
  <2>2. call[c].op = "none"
    BY <2>1, SMTT(40) DEF NoCall
  <2> QED
    BY <2>1, <2>2 DEF LifePower
<1>2. [c \in CPU |-> LifePower(c)] =
        [c \in CPU |-> IF c = Primary THEN "on" ELSE "off"]
  BY <1>1
<1> QED
  BY <1>2 DEF Init, TreeInit, Lifecycle!LifeInit

\* Every step of the handlers is a step of CpuLifecycle, or a stutter.
LEMMA LifecycleNext ==
  IInv /\ IInv' /\ LifeInv /\ LifeInv' /\ [Next]_vars =>
    [Lifecycle!LifeNext]_Lifecycle!lifeVars
\* The place of a CPU in the lifecycle falls in one of those cases.
<1>PowerIs.
  TypeOK => \A c \in CPU : AffinityInv(c) => PowerCases(c)
  <2> SUFFICES ASSUME TypeOK, NEW c \in CPU, AffinityInv(c) PROVE PowerCases(c)
    OBVIOUS
  <2>1. affinity_info[c] \in {"Off", "OnPending", "On"}
    BY DEF TypeOK, TreeTypeOK
  <2>2. CASE affinity_info[c] = "Off"
    <3>1. entry_point[c] = NoEntry /\ pc[c] # "run"
      BY <2>2 DEF AffinityInv
    <3> QED
      BY <2>2, <3>1 DEF LifePower, PowerCases
  <2>3. CASE affinity_info[c] = "OnPending"
    <3>1. pc[c] # "run"
      BY <2>3 DEF AffinityInv, Booting
    <3> QED
      BY <2>3, <3>1 DEF LifePower, PowerCases
  <2>4. CASE affinity_info[c] = "On"
    <3>1. FirstRun(c) => ~Sleeping(c)
      BY DEF FirstRun, Sleeping
    <3> QED
      BY <2>4, <3>1 DEF LifePower, PowerCases, FirstRun, Sleeping
  <2> QED
    BY <2>1, <2>2, <2>3, <2>4
\* The same of the next state.
<1>PowerWillBe.
  (TypeOK => \A c \in CPU : AffinityInv(c) => PowerCases(c))'
  BY <1>PowerIs, PTL
\* It does not change with what it does not depend on.
<1>PowerKept.
  ASSUME NEW c \in CPU, affinity_info'[c] = affinity_info[c],
         entry_point'[c] = entry_point[c], FirstRun(c)' <=> FirstRun(c),
         Sleeping(c)' <=> Sleeping(c), TypeOK, TypeOK', AffinityInv(c),
         AffinityInv(c)'
  PROVE  LifePower(c)' = LifePower(c)
  <2> USE <1>PowerKept
  <2>1. PowerCases(c) /\ PowerCases(c)'
    BY <1>PowerIs, <1>PowerWillBe
  <2>2. CASE affinity_info[c] # "On"
    BY <2>1, <2>2, SMTT(40) DEF PowerCases
  <2>3. CASE affinity_info[c] = "On"
    BY <2>1, <2>3 DEF PowerCases
  <2> QED
    BY <2>2, <2>3
\* A CPU that runs and does nothing special is on.
<1>PlainIsOn.
  TypeOK => \A c \in CPU : AffinityInv(c) /\ Plain(c) =>
                            LifePower(c) = "on" /\ entry_point[c] = NoEntry
  <2> SUFFICES ASSUME TypeOK, NEW c \in CPU, AffinityInv(c), Plain(c)
               PROVE  LifePower(c) = "on" /\ entry_point[c] = NoEntry
    OBVIOUS
  <2>1. ~FirstRun(c) /\ ~Sleeping(c) /\ ~Booting(c) /\ ~Loaded(c)
        /\ pc[c] \notin {"off_wfi", "off"}
    BY DEF Plain, FirstRun, Sleeping, Booting, Loaded, PoweringDown
  <2>2. affinity_info[c] = "On" /\ entry_point[c] = NoEntry
    BY <2>1, Running
  <2> QED
    BY <2>1, <2>2, <1>PowerIs DEF PowerCases
\* The same in the next state.
<1>PlainWillBeOn.
  (TypeOK => \A c \in CPU : AffinityInv(c) /\ Plain(c) =>
                             LifePower(c) = "on" /\ entry_point[c] = NoEntry)'
  BY <1>PlainIsOn, PTL
\* One CPU changes its place.
<1>OneMove.
  ASSUME NEW c \in CPU, NEW from, NEW to, LifePower(c) = from,
         LifePower(c)' = to, \A d \in CPU \ {c} : LifePower(d)' = LifePower(d)
  PROVE  Lifecycle!Move(c, from, to)
  <2> USE <1>OneMove
  <2>1. [d \in CPU |-> LifePower(d)][c] = from
    OBVIOUS
  <2>2. [d \in CPU |-> LifePower(d)'] =
          [[d \in CPU |-> LifePower(d)] EXCEPT ![c] = to]
    OBVIOUS
  <2> QED
    BY <2>1, <2>2 DEF Lifecycle!Move
\* Nobody does.
<1>NoMove.
  ASSUME \A d \in CPU : LifePower(d)' = LifePower(d),
         entry_point' = entry_point, ns_entry' = ns_entry
  PROVE  UNCHANGED Lifecycle!lifeVars
  <2> USE <1>NoMove
  <2>1. [d \in CPU |-> LifePower(d)'] = [d \in CPU |-> LifePower(d)]
    OBVIOUS
  <2> QED
    BY <2>1 DEF Lifecycle!lifeVars
\* Every step of the handlers is a step of the lifecycle, or none.
<1>LifecycleStep.
  ASSUME TypeOK, TypeOK', NEW c \in CPU, ControlInv(c), HandlerInv(c),
         HandlerInv(c)', TargetInv(c),
         \A d \in CPU : AffinityInv(d) /\ AffinityInv(d)',
         \A d \in CPU \ {c} : CoreKept(d), Call(c) \/ WakeUp(c) \/ Step(c)
  PROVE  Lifecycle!LifeNext \/ UNCHANGED Lifecycle!lifeVars
  <2> USE <1>LifecycleStep
  <2>a. c \in CPU /\ AffinityInv(c) /\ AffinityInv(c)'
    OBVIOUS
  <2>b. ASSUME NEW d \in CPU \ {c}, affinity_info'[d] = affinity_info[d],
               entry_point'[d] = entry_point[d]
        PROVE  LifePower(d)' = LifePower(d)
    <3>1. (FirstRun(d)' <=> FirstRun(d)) /\ (Sleeping(d)' <=> Sleeping(d))
      BY DEF CoreKept, FirstRun, Sleeping
    <3>2. AffinityInv(d) /\ AffinityInv(d)' /\ d \in CPU
      OBVIOUS
    <3> QED
      BY <2>b, <3>1, <3>2, <1>PowerKept
  <2>1. CASE Quiet(c)
    <3>1. affinity_info' = affinity_info /\ entry_point' = entry_point
          /\ ns_entry' = ns_entry
      BY <2>1 DEF Quiet
    <3>2. LifePower(c)' = LifePower(c)
      BY <2>1, <2>a, <3>1, <1>PowerKept DEF Quiet
    <3>3. \A d \in CPU : LifePower(d)' = LifePower(d)
      BY <2>b, <3>1, <3>2
    <3> QED
      BY <3>1, <3>3, <1>NoMove
  <2>2. CASE SuspendCommit(c)
    <3>1. /\ pc[c] \in {"coordinate", "local"} /\ call[c].op = "suspend"
          /\ pc'[c] = "wfi" /\ call'[c] = call[c]
          /\ affinity_info' = affinity_info /\ ns_entry' = ns_entry
          /\ entry_point' = IF call[c].power_down
                            THEN [entry_point EXCEPT ![c] = call[c].entry]
                            ELSE entry_point
      BY <2>2, EnterEffect DEF SuspendCommit, Coordinated
    <3>2. Plain(c) /\ Sleeping(c)' /\ ~FirstRun(c)' /\ ~Booting(c)
      BY <3>1 DEF Plain, Sleeping, FirstRun, Booting
    <3>3. LifePower(c) = "on" /\ entry_point[c] = NoEntry
      BY <3>2, <2>a, <1>PlainIsOn, <1>PlainWillBeOn
    <3>4. affinity_info[c] = "On"
      BY <3>1, <3>2, <2>a, Running
    <3>5. LifePower(c)' = "sleeping"
      BY <3>1, <3>2, <3>4, <2>a, <1>PowerIs, <1>PowerWillBe DEF PowerCases
    <3>6. \A d \in CPU \ {c} : entry_point'[d] = entry_point[d]
      BY <3>1 DEF TypeOK, TreeTypeOK
    <3>7. \A d \in CPU \ {c} : LifePower(d)' = LifePower(d)
      BY <2>b, <3>1, <3>6
    <3>8. Lifecycle!Move(c, "on", "sleeping")
      BY <3>3, <3>5, <3>7, <1>OneMove
    <3>9. \E e \in EntryPoint \cup {NoEntry} :
            entry_point' = [entry_point EXCEPT ![c] = e]
      <4>1. CASE call[c].power_down
        BY <4>1, <3>1 DEF HandlerInv
      <4>2. CASE ~call[c].power_down
        <5>1. entry_point' = [entry_point EXCEPT ![c] = NoEntry]
          BY <4>2, <3>1, <3>3 DEF TypeOK, TreeTypeOK
        <5> QED
          BY <5>1
      <4> QED
        BY <4>1, <4>2
    <3>10. Lifecycle!Sleep(c)
      BY <3>1, <3>3, <3>8, <3>9 DEF Lifecycle!Sleep
    <3> QED
      BY <3>10 DEF Lifecycle!LifeNext
  <2>3. CASE WakeFinish(c)
    <3>1. /\ pc[c] = "lock" /\ call[c].op = "wake" /\ pc'[c] = "run"
          /\ call'[c] = call[c]
          /\ affinity_info' = affinity_info /\ ns_entry' = ns_entry
          /\ entry_point' = IF call[c].power_down
                            THEN [entry_point EXCEPT ![c] = NoEntry]
                            ELSE entry_point
      BY <2>3 DEF WakeFinish, AncestorsLocked, Goto, TypeOK
    <3>2. /\ Sleeping(c) /\ Sleeping(c)' /\ ~FirstRun(c) /\ ~FirstRun(c)'
          /\ ~Booting(c) /\ (call[c].power_down => Loaded(c))
      BY <3>1 DEF Sleeping, FirstRun, Booting, Loaded, PoweringDown
    <3>3. affinity_info[c] = "On" /\ (call[c].power_down => entry_point[c] # NoEntry)
      BY <3>1, <3>2, <2>a, Running
    <3>4. LifePower(c) = "sleeping" /\ LifePower(c)' = "sleeping"
      BY <3>1, <3>2, <3>3, <2>a, <1>PowerIs, <1>PowerWillBe DEF PowerCases
    <3>5. \A d \in CPU \ {c} : entry_point'[d] = entry_point[d]
      BY <3>1 DEF TypeOK, TreeTypeOK
    <3>6. \A d \in CPU : LifePower(d)' = LifePower(d)
      BY <2>b, <3>1, <3>4, <3>5
    <3>7. CASE call[c].power_down
      <4>1. UNCHANGED [d \in CPU |-> LifePower(d)]
        BY <3>6
      <4>2. Lifecycle!Abandon(c)
        BY <3>1, <3>3, <3>4, <3>7, <4>1 DEF Lifecycle!Abandon
      <4> QED
        BY <4>2 DEF Lifecycle!LifeNext
    <3>8. CASE ~call[c].power_down
      BY <3>1, <3>6, <3>8, <1>NoMove
    <3> QED
      BY <3>7, <3>8
  <2>4. CASE BootFinish(c)
    <3>1. /\ pc[c] = "lock" /\ call[c].op = "boot" /\ pc'[c] = "run"
          /\ affinity_info[c] # "Off"
          /\ affinity_info' = [affinity_info EXCEPT ![c] = "On"]
          /\ entry_point' = entry_point /\ ns_entry' = ns_entry
      BY <2>4 DEF BootFinish, AncestorsLocked, Goto, TypeOK
    <3>2. call'[c].op = "boot" /\ call'[c].power_down = (affinity_info[c] = "On")
      BY <2>4, <3>1, SMTT(40) DEF BootFinish, TypeOK, CallRecord
    <3>3. /\ affinity_info[c] \in {"OnPending", "On"} /\ affinity_info'[c] = "On"
          /\ \A d \in CPU \ {c} : affinity_info'[d] = affinity_info[d]
      BY <3>1 DEF TypeOK, TreeTypeOK
    <3>4. CASE affinity_info[c] = "On"
      <4>1. Sleeping(c) /\ Sleeping(c)' /\ ~FirstRun(c) /\ ~FirstRun(c)'
        BY <3>1, <3>2, <3>4 DEF Sleeping, FirstRun
      <4> QED
        BY <4>1, <3>1, <3>3, <3>4, <2>a, <2>b, <1>NoMove,
           <1>PowerIs, <1>PowerWillBe DEF PowerCases
    <3>5. CASE affinity_info[c] = "OnPending"
      <4>1. FirstRun(c)'
        BY <3>1, <3>2, <3>5 DEF FirstRun
      <4>2. entry_point[c] # NoEntry
        BY <3>1, <3>5, <2>a DEF AffinityInv
      <4>3. LifePower(c) = "starting" /\ LifePower(c)' = "starting"
        BY <4>1, <4>2, <3>3, <3>5, <2>a, <1>PowerIs, <1>PowerWillBe DEF PowerCases
      <4> QED
        BY <4>3, <3>1, <3>3, <2>b, <1>NoMove
    <3> QED
      BY <3>3, <3>4, <3>5
  <2>5. CASE ResumeDone(c)
    <3>1. /\ pc[c] = "run" /\ Return(c) /\ affinity_info' = affinity_info
          /\ \/ /\ call[c].op = "wake"
                /\ entry_point' = entry_point /\ ns_entry' = ns_entry
             \/ /\ call[c].op = "boot" /\ entry_point[c] # NoEntry
                /\ entry_point' = [entry_point EXCEPT ![c] = NoEntry]
                /\ ns_entry' = [ns_entry EXCEPT ![c] = entry_point[c]]
      BY <2>5 DEF ResumeDone
    <3>2. ~Booting(c) /\ Plain(c)'
      BY <3>1, ReturnHandler DEF Booting, Plain
    <3>3. affinity_info[c] = "On" /\ (entry_point[c] # NoEntry <=> Loaded(c))
      BY <3>1, <3>2, <2>a, Running
    <3>4. LifePower(c)' = "on"
      BY <3>2, <2>a, <1>PlainIsOn, <1>PlainWillBeOn
    <3>5. \A d \in CPU \ {c} : entry_point'[d] = entry_point[d]
      BY <3>1 DEF TypeOK, TreeTypeOK
    <3>6. \A d \in CPU \ {c} : LifePower(d)' = LifePower(d)
      BY <2>b, <3>1, <3>5
    <3>7. CASE call[c].op = "wake"
      <4>1. Sleeping(c) /\ ~FirstRun(c) /\ ~Loaded(c)
        BY <3>1, <3>7 DEF Sleeping, FirstRun, Loaded, PoweringDown, Booting
      <4>2. LifePower(c) = "sleeping" /\ entry_point[c] = NoEntry
        BY <4>1, <3>3, <2>a, <1>PowerIs, <1>PowerWillBe DEF PowerCases
      <4>3. Lifecycle!Move(c, "sleeping", "on")
        BY <4>2, <3>4, <3>6, <1>OneMove
      <4>4. Lifecycle!Resume(c)
        BY <4>2, <4>3, <3>1, <3>7 DEF Lifecycle!Resume
      <4> QED
        BY <4>4 DEF Lifecycle!LifeNext
    <3>8. CASE call[c].op = "boot"
      <4>1. FirstRun(c) \/ Sleeping(c)
        BY <3>1, <3>8 DEF Sleeping, FirstRun
      <4>2. LifePower(c) = "starting" \/ LifePower(c) = "sleeping"
        BY <4>1, <3>3, <2>a, <1>PowerIs, <1>PowerWillBe DEF PowerCases
      <4>3. Lifecycle!Move(c, "starting", "on") \/ Lifecycle!Move(c, "sleeping", "on")
        BY <4>2, <3>4, <3>6, <1>OneMove
      <4>4. Lifecycle!Start(c)
        BY <4>3, <3>1, <3>8 DEF Lifecycle!Start
      <4> QED
        BY <4>4 DEF Lifecycle!LifeNext
    <3> QED
      BY <3>1, <3>7, <3>8
  <2>6. CASE OffCommit(c)
    <3>1. /\ pc[c] \in {"coordinate", "local"} /\ call[c].op = "off"
          /\ affinity_info' = [affinity_info EXCEPT ![c] = "Off"]
          /\ entry_point' = entry_point /\ ns_entry' = ns_entry
      BY <2>6 DEF OffCommit, Coordinated
    <3>2. LifePower(c) = "on" /\ entry_point[c] = NoEntry
      BY <3>1, <2>a, <1>PlainIsOn, <1>PlainWillBeOn DEF Plain
    <3>3. /\ affinity_info'[c] # "On"
          /\ \A d \in CPU \ {c} : affinity_info'[d] = affinity_info[d]
      BY <3>1 DEF TypeOK, TreeTypeOK
    <3>4. LifePower(c)' = "off"
      BY <3>1, <3>2, <3>3, <2>a, <1>PowerIs, <1>PowerWillBe DEF PowerCases
    <3>5. Lifecycle!Move(c, "on", "off")
      BY <3>1, <3>2, <3>3, <3>4, <2>b, <1>OneMove
    <3>6. Lifecycle!TurnOff(c)
      BY <3>1, <3>5 DEF Lifecycle!TurnOff
    <3> QED
      BY <3>6 DEF Lifecycle!LifeNext
  <2>7. CASE OnLockTarget(c)
    <3>a. PICK t \in CPU : t = call[c].target
      BY <2>7 DEF OnLockTarget, HandlerInv
    <3>1. /\ Plain(c) /\ pc[c] = "cpu"
          /\ entry_point' = entry_point /\ ns_entry' = ns_entry
      BY <2>7 DEF OnLockTarget, Plain
    <3>2. CASE Return(c) /\ UNCHANGED affinity_info
      <4>1. Plain(c)'
        BY <3>2, ReturnHandler DEF Plain
      <4>2. LifePower(c) = "on" /\ LifePower(c)' = "on"
        BY <3>1, <4>1, <2>a, <1>PlainIsOn, <1>PlainWillBeOn
      <4> QED
        BY <3>1, <3>2, <4>2, <2>b, <1>NoMove
    <3>3. CASE /\ affinity_info[t] = "Off" /\ Goto(c, "power") /\ UNCHANGED call
               /\ affinity_info' = [affinity_info EXCEPT ![t] = "OnPending"]
      <4>1. t # c
        BY <3>1, <3>3, <2>a DEF AffinityInv
      <4>2. /\ affinity_info'[t] = "OnPending"
            /\ \A d \in CPU \ {t} : affinity_info'[d] = affinity_info[d]
        BY <3>3 DEF TypeOK, TreeTypeOK
      <4>3. entry_point[t] = NoEntry
        BY <3>3 DEF AffinityInv
      <4>4. LifePower(t) = "off" /\ LifePower(t)' = "off"
        BY <3>1, <3>3, <4>2, <4>3, <1>PowerIs, <1>PowerWillBe DEF PowerCases
      <4>5. Plain(c)'
        BY <3>1, <3>3 DEF Plain, Goto, TypeOK
      <4>6. LifePower(c) = "on" /\ LifePower(c)' = "on"
        BY <3>1, <4>5, <2>a, <1>PlainIsOn, <1>PlainWillBeOn
      <4>7. \A d \in CPU \ {c, t} : LifePower(d)' = LifePower(d)
        BY <3>1, <4>2, <2>b
      <4> QED
        BY <3>1, <4>4, <4>6, <4>7, <1>NoMove
    <3> QED
      BY <2>7, <3>a, <3>2, <3>3 DEF OnLockTarget
  <2>8. CASE OnPower(c)
    <3>a. PICK t \in CPU : t = call[c].target
      BY <2>8 DEF OnPower, HandlerInv
    <3>1. /\ Plain(c) /\ pc[c] = "power" /\ Return(c) /\ ns_entry' = ns_entry
          /\ call[c].entry \in EntryPoint
          /\ \/ /\ affinity_info' = affinity_info
                /\ entry_point' = [entry_point EXCEPT ![t] = call[c].entry]
             \/ /\ affinity_info' = [affinity_info EXCEPT ![t] = "Off"]
                /\ entry_point' = entry_point
      BY <2>8, <3>a DEF OnPower, HandlerInv, Plain
    <3>2. affinity_info[t] = "OnPending" /\ entry_point[t] = NoEntry
      BY <3>a, <3>1 DEF TargetInv
    <3>3. t # c
      BY <3>1, <3>2, <2>a DEF AffinityInv
    <3>4. Plain(c)'
      BY <3>1, ReturnHandler DEF Plain
    <3>5. LifePower(c) = "on" /\ LifePower(c)' = "on" /\ LifePower(t) = "off"
      BY <3>1, <3>2, <3>4, <2>a, <1>PlainIsOn, <1>PlainWillBeOn, <1>PowerIs DEF PowerCases
    <3>6. /\ \A d \in CPU \ {t} : /\ affinity_info'[d] = affinity_info[d]
                                  /\ entry_point'[d] = entry_point[d]
      BY <3>1 DEF TypeOK, TreeTypeOK
    <3>7. \A d \in CPU \ {t} : LifePower(d)' = LifePower(d)
      BY <3>5, <3>6, <2>b
    <3>8. CASE /\ affinity_info' = affinity_info
               /\ entry_point' = [entry_point EXCEPT ![t] = call[c].entry]
      <4>1. entry_point'[t] # NoEntry
        BY <3>1, <3>8, TreeAssumption DEF TypeOK, TreeTypeOK
      <4>2. LifePower(t)' = "starting"
        BY <3>2, <3>8, <4>1, <1>PowerIs, <1>PowerWillBe DEF PowerCases
      <4>3. Lifecycle!Move(t, "off", "starting")
        BY <3>5, <3>7, <4>2, <1>OneMove
      <4>4. \E d \in CPU : [x \in CPU |-> LifePower(x)][d] = "on"
        BY <3>5
      <4>5. Lifecycle!TurnOn(t)
        BY <3>1, <3>2, <3>8, <4>3, <4>4 DEF Lifecycle!TurnOn
      <4> QED
        BY <4>5 DEF Lifecycle!LifeNext
    <3>9. CASE /\ affinity_info' = [affinity_info EXCEPT ![t] = "Off"]
               /\ entry_point' = entry_point
      <4>1. affinity_info'[t] = "Off"
        BY <3>9 DEF TypeOK, TreeTypeOK
      <4>2. LifePower(t)' = "off"
        BY <3>2, <3>9, <4>1, <1>PowerIs, <1>PowerWillBe DEF PowerCases
      <4> QED
        BY <3>1, <3>5, <3>7, <3>9, <4>2, <1>NoMove
    <3> QED
      BY <3>1, <3>8, <3>9
  <2>9. CASE PowerOn(c)
    <3>1. /\ pc[c] = "off" /\ power_on[c]
          /\ affinity_info' = affinity_info /\ entry_point' = entry_point
          /\ ns_entry' = ns_entry
      BY <2>9 DEF PowerOn, cpuNodeVars
    <3>2. affinity_info[c] = "OnPending" /\ entry_point[c] # NoEntry
      <4>1. affinity_info[c] \in {"Off", "OnPending", "On"}
        BY DEF TypeOK, TreeTypeOK
      <4> QED
        BY <3>1, <4>1, <2>a DEF AffinityInv
    <3>3. LifePower(c) = "starting" /\ LifePower(c)' = "starting"
      BY <3>1, <3>2, <2>a, <1>PowerIs, <1>PowerWillBe DEF PowerCases
    <3> QED
      BY <3>1, <3>3, <2>b, <1>NoMove
  <2> QED
    BY <2>1, <2>2, <2>3, <2>4, <2>5, <2>6, <2>7, <2>8, <2>9, QuietStep DEF Turn
<1> SUFFICES ASSUME IInv, IInv', LifeInv, LifeInv', [Next]_vars
             PROVE  Lifecycle!LifeNext \/ UNCHANGED Lifecycle!lifeVars
  OBVIOUS
<1>1. CASE UNCHANGED vars
  <2>1. /\ affinity_info' = affinity_info /\ entry_point' = entry_point
        /\ ns_entry' = ns_entry /\ pc' = pc /\ call' = call
    BY <1>1 DEF vars, cpuNodeVars, coreVars
  <2>2. \A c \in CPU : LifePower(c)' = LifePower(c)
    BY <2>1 DEF LifePower
  <2> QED
    BY <2>1, <2>2, <1>NoMove
<1>2. ASSUME NEW c \in CPU, Call(c) \/ WakeUp(c) \/ Step(c)
      PROVE  Lifecycle!LifeNext \/ UNCHANGED Lifecycle!lifeVars
  <2>1. TypeOK /\ TypeOK' /\ ControlInv(c) /\ LockInv(c)
    BY DEF IInv, CoreInv
  <2>2. HandlerInv(c) /\ HandlerInv(c)' /\ TargetInv(c)
    BY DEF LifeInv
  <2>3. \A d \in CPU : AffinityInv(d) /\ AffinityInv(d)'
    BY DEF LifeInv
  <2>4. \A d \in CPU \ {c} : CoreKept(d)
    <3>1. \A d \in CPU \ {c} : Keeps(d)
      BY <1>2, <2>1, OthersKeep
    <3> QED
      BY <3>1 DEF Keeps, CoreKept
  <2> QED
    BY <1>2, <2>1, <2>2, <2>3, <2>4, <1>LifecycleStep
<1>3. Next \/ UNCHANGED vars
  OBVIOUS
<1> QED
  BY <1>1, <1>2, <1>3 DEF Next

\* The handlers implement the lifecycle PSCI promises, on any tree, with any
\* number of cores and whatever the platform supports: a CPU starts only at the
\* entry point of the one CPU_ON accepted for it or of its own suspend, consumes
\* it exactly once, and an abandoned power down gives its entry point up.
THEOREM LifecycleImplemented == Spec => ImplementsLifecycle
<1>1. Init => Lifecycle!LifeInit
  BY LifecycleInit
<1>2. IInv /\ IInv' /\ LifeInv /\ LifeInv' /\ [Next]_vars =>
        [Lifecycle!LifeNext]_Lifecycle!lifeVars
  BY LifecycleNext
<1> QED
  BY <1>1, <1>2, Invariance, LifeInvariance, PTL
     DEF Spec, ImplementsLifecycle, Lifecycle!LifeSpec
=============================================================================
