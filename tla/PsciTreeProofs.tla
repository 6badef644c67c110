--------------------------- MODULE PsciTreeProofs ---------------------------
(***************************************************************************)
(* The invariants of the power domain tree, for every tree: the steps that *)
(* write no node move a core between the points the invariants speak of,   *)
(* those that do are the subject of PsciTreeWrites.                        *)
(***************************************************************************)
EXTENDS PsciTreeWrites, PsciLifeProofs

USE ZenonT(40)

-----------------------------------------------------------------------------
(* Steps that write no node.                                               *)

\* Core c is where it was on its way up its path, if it is on one.
RaisesAlike(c) == \A k \in Upper : Raising(c, k)' <=> Raising(c, k)

\* Only what the core that takes the step is about to do has to be looked at.
LEMMA TreeFromStep ==
  ASSUME TreeInv, NEW c \in CPU, UNCHANGED nodeVars, RaisesAlike(c),
         \A d \in CPU \ {c} : CoreKept(d),
         CompositeInv(c)', AppliedInv(c)', ChildrenInv(c)'
  PROVE  TreeInv'
<1>1. ASSUME NEW d \in CPU \ {c}
      PROVE  CompositeInv(d)' /\ AppliedInv(d)' /\ ChildrenInv(d)'
  <2>1. CompositeInv(d) /\ AppliedInv(d) /\ ChildrenInv(d) /\ CoreKept(d)
    BY DEF TreeInv
  <2>2. CompositeInv(d)'
    BY <2>1 DEF CompositeInv, CoreKept, Descending, nodeVars
  <2>3. /\ local_state' = local_state /\ requested_states' = requested_states
        /\ pc'[d] = pc[d] /\ level'[d] = level[d] /\ lock_to'[d] = lock_to[d]
        /\ states'[d] = states[d] /\ call'[d] = call[d]
    BY <2>1 DEF CoreKept, nodeVars
  <2>4. AppliedInv(d)'
    BY <2>1, <2>3, SMTT(40) DEF AppliedInv
  <2>5. ChildrenInv(d)'
    BY <2>1 DEF ChildrenInv, ChildrenAllow, CoreKept, nodeVars
  <2> QED
    BY <2>2, <2>4, <2>5
<1>2. \A d \in CPU : OneKind(d)'
  BY DEF TreeInv, OneKind, nodeVars
<1>3. \A d \in CPU, k \in Upper : Raising(d, k)' <=> Raising(d, k)
  BY DEF RaisesAlike, Raising, CoreKept
<1>4. ASSUME NEW d \in CPU, NEW k \in Upper PROVE PathInv(d, k)'
  <2>1. PathInv(d, k)
    BY DEF TreeInv
  <2> QED
    BY <1>3, <2>1 DEF PathInv, nodeVars
<1>5. \A d \in CPU : \A k \in Level : WitnessInv(Ancestor[d][k])'
  BY DEF TreeInv, WitnessInv, nodeVars
<1> QED
  BY <1>1, <1>2, <1>4, <1>5 DEF TreeInv

\* A step to a point outside the coordination, with a composite state that
\* descends if it is still needed.
Elsewhere(c) ==
  /\ pc'[c] \notin Critical
  /\ pc[c] = "run" => level[c] \notin Upper
  /\ call'[c].op \in {"suspend", "off"} /\ pc'[c] # "wfi" =>
       Descending(states'[c], 0)

\* Such a step keeps the invariant.
LEMMA ElsewhereTree ==
  ASSUME TreeInv, NEW c \in CPU, UNCHANGED nodeVars, Elsewhere(c),
         \A d \in CPU \ {c} : CoreKept(d)
  PROVE  TreeInv'
<1>1. RaisesAlike(c)
  BY DEF RaisesAlike, Raising, Elsewhere, Critical
<1>2. CompositeInv(c)'
  <2>1. Descending(states[c], 0)' <=> Descending(states'[c], 0)
    BY DEF Descending
  <2> QED
    BY <2>1 DEF CompositeInv, Elsewhere, Critical
<1>3. AppliedInv(c)' /\ ChildrenInv(c)'
  BY DEF AppliedInv, ChildrenInv, Elsewhere, Critical
<1> QED
  BY <1>1, <1>2, <1>3, TreeFromStep

\* Steps that end in the coordination, besides the ones that write the tree.
Coordinating(c) ==
  \/ SuspendStart(c) \/ OffStart(c) \/ ApplyVotesDone(c)
  \/ WakeFinish(c) \/ BootFinish(c)
  \/ ~Return(c) /\ (ValidateLast(c) \/ ValidateLevel(c) \/ ValidatePlatform(c))

\* All the others end elsewhere.
LEMMA ElsewhereStep ==
  ASSUME TypeOK, NEW c \in CPU, ControlInv(c), HandlerInv(c), CompositeInv(c),
         Call(c) \/ WakeUp(c) \/ Step(c), ~NodeWriter(c), ~Coordinating(c)
  PROVE  Elsewhere(c)
\* Returning to the normal world is one.
<1>LeaveElsewhere.
  ASSUME NEW label, Leave(c, label), label \notin Critical,
         pc[c] = "run" => level[c] \notin Upper
  PROVE  Elsewhere(c)
  <2> USE <1>LeaveElsewhere
  <2>1. pc'[c] = label /\ call'[c] = NoCall
    BY DEF Leave, Goto, TypeOK
  <2>2. call'[c].op \notin {"suspend", "off"}
    BY <2>1, CallFields
  <2> QED
    BY <2>1, <2>2 DEF Elsewhere
\* So is entering a handler, with a composite state if it needs one.
<1>EnterElsewhere.
  ASSUME pc[c] # "run", NEW label, NEW args, NEW composite,
         Enter(c, label, args, composite), label \notin Critical,
         \/ label = "wfi" \/ args.op \notin {"suspend", "off"}
         \/ Descending(composite, 0)
  PROVE  Elsewhere(c)
  <2> USE <1>EnterElsewhere
  <2>1. pc'[c] = label /\ call'[c] = args /\ states'[c] = composite
    BY EnterEffect
  <2> QED
    BY <2>1 DEF Elsewhere
\* So is moving on with the same parameters.
<1>MoveElsewhere.
  ASSUME pc[c] \notin {"run", "coordinate", "wfi"}, pc'[c] \notin Critical,
         call'[c].op = call[c].op, states'[c] = states[c]
  PROVE  Elsewhere(c)
  BY <1>MoveElsewhere DEF CompositeInv, Elsewhere, Descending
\* The composite states handlers start with descend.
<1>Descends.
  /\ \A r \in SuspendRequest : Descending(r.states, 0)
  /\ Descending(AllOff, 0) /\ Descending(AllRun, 0)
  <2>1. \A r \in SuspendRequest : Descending(r.states, 0)
    BY PsciAssumption DEF is_valid_suspend_request, Descending
  <2>2. ASSUME NEW l \in Level PROVE AllOff[l - 1] >= AllOff[l] /\ AllRun[l - 1] >= AllRun[l]
    <3>1. l \in Levels /\ l - 1 \in Levels
      BY LevelNat, TreeAssumption, SMTT(40) DEF Levels
    <3>2. AllOff[l - 1] = OFF /\ AllOff[l] = OFF /\ AllRun[l - 1] = RUN /\ AllRun[l] = RUN
      BY <3>1 DEF AllOff, AllRun
    <3>3. OFF \in Nat /\ RUN \in Nat
      BY Constants, TreeAssumption, SMTT(40) DEF RUN
    <3> QED
      BY <3>2, <3>3, SMTT(40)
  <2> QED
    BY <2>1, <2>2 DEF Descending
<1>0. call[c] \in CallRecord
  BY DEF TypeOK
<1>1. CASE CpuStandby(c)
  BY <1>1, <1>MoveElsewhere DEF CpuStandby, Goto, TypeOK, Critical
<1>2. CASE CpuStandbyWake(c)
  BY <1>2, <1>MoveElsewhere DEF CpuStandbyWake, Goto, TypeOK, Critical
<1>3. CASE CpuSuspend(c)
  <2>1. PICK r \in SuspendRequest, e \in EntryPoint :
          Enter(c, "cpu",
            [NoCall EXCEPT !.op = "suspend",
               !.highest = find_highest_non_run_level(r.states),
               !.power_down = r.power_down, !.last = r.last, !.entry = e],
            r.states)
    BY <1>3 DEF CpuSuspend
  <2> DEFINE a == [NoCall EXCEPT !.op = "suspend",
                     !.highest = find_highest_non_run_level(r.states),
                     !.power_down = r.power_down, !.last = r.last, !.entry = e]
  <2>2. Enter(c, "cpu", a, r.states) /\ pc[c] = "nwd" /\ Descending(r.states, 0)
    BY <1>3, <2>1, <1>Descends DEF CpuSuspend
  <2> HIDE DEF a
  <2> QED
    BY <2>2, <1>EnterElsewhere DEF Critical
<1>4. CASE CpuOff(c)
  BY <1>4, <1>EnterElsewhere, <1>Descends DEF CpuOff, Critical
<1>5. CASE CpuOn(c)
  <2>1. PICK t \in CPU, e \in EntryPoint :
          Enter(c, "cpu", [NoCall EXCEPT !.op = "on", !.target = t, !.entry = e],
                AllRun)
    BY <1>5 DEF CpuOn
  <2> DEFINE a == [NoCall EXCEPT !.op = "on", !.target = t, !.entry = e]
  <2>2. Enter(c, "cpu", a, AllRun) /\ pc[c] = "nwd"
    BY <1>5, <2>1 DEF CpuOn
  <2> HIDE DEF a
  <2> QED
    BY <2>2, <1>EnterElsewhere, <1>Descends DEF Critical
<1>6. CASE SystemSuspend(c)
  <2>1. PICK e \in EntryPoint :
          Enter(c, "scan_last",
                [NoCall EXCEPT !.op = "system_suspend", !.entry = e], AllRun)
    BY <1>6 DEF SystemSuspend
  <2> DEFINE a == [NoCall EXCEPT !.op = "system_suspend", !.entry = e]
  <2>2. Enter(c, "scan_last", a, AllRun) /\ pc[c] = "nwd"
    BY <1>6, <2>1 DEF SystemSuspend
  <2> HIDE DEF a
  <2> QED
    BY <2>2, <1>EnterElsewhere, <1>Descends DEF Critical
<1>7. CASE SetSuspendMode(c)
  <2>1. PICK m \in Mode :
          Enter(c, IF m = "OsInitiated" THEN "scan_on" ELSE "scan_last",
                [NoCall EXCEPT !.op = "set_mode", !.mode = m], AllRun)
    BY <1>7 DEF SetSuspendMode
  <2> DEFINE a == [NoCall EXCEPT !.op = "set_mode", !.mode = m]
  <2>2. Enter(c, "scan_on", a, AllRun) \/ Enter(c, "scan_last", a, AllRun)
    BY <2>1
  <2>3. pc[c] = "nwd"
    BY <1>7 DEF SetSuspendMode
  <2> HIDE DEF a
  <2> QED
    BY <2>2, <2>3, <1>EnterElsewhere, <1>Descends DEF Critical
<1>8. CASE SuspendWake(c)
  <2> DEFINE a == [call[c] EXCEPT !.op = "wake"]
  <2>1. a.op = "wake" /\ Enter(c, "cpu", a, states[c]) /\ pc[c] = "wfi"
    BY <1>0, <1>8, CallFields DEF SuspendWake
  <2> HIDE DEF a
  <2> QED
    BY <2>1, <1>EnterElsewhere DEF Critical
<1>9. CASE SuspendWarmBoot(c)
  BY <1>9, <1>EnterElsewhere, <1>Descends DEF SuspendWarmBoot, Critical
<1>10. CASE LockAncestor(c)
  BY <1>10, <1>MoveElsewhere DEF LockAncestor, Critical
<1>11. CASE SuspendLockCpu(c)
  BY <1>11, <1>MoveElsewhere DEF SuspendLockCpu, Goto, TypeOK, Critical
<1>12. CASE SuspendReadMode(c)
  BY <1>12, <1>MoveElsewhere DEF SuspendReadMode, StartLocking, Goto, TypeOK, Critical
<1>13. CASE SuspendPendingInterrupt(c)
  BY <1>13, <1>LeaveElsewhere DEF SuspendPendingInterrupt, AncestorsLocked, Return, Critical
<1>14. CASE ValidateLast(c) \/ ValidateLevel(c) \/ ValidatePlatform(c)
  <2>1. Return(c)
    BY <1>14 DEF Coordinating
  <2>2. pc[c] # "run"
    BY <1>14 DEF ValidateLast, ValidateLevel, ValidatePlatform
  <2> QED
    BY <2>1, <2>2, <1>LeaveElsewhere DEF Return, Critical
<1>15. CASE SuspendCommit(c)
  <2>1. pc[c] # "run" /\ Enter(c, "wfi", call[c], AllRun)
    BY <1>15 DEF SuspendCommit, Coordinated
  <2> QED
    BY <2>1, <1>EnterElsewhere DEF Critical
<1>16. CASE ResumeLockCpu(c)
  BY <1>16, <1>MoveElsewhere DEF ResumeLockCpu, StartLocking, Goto, TypeOK, Critical
<1>17. CASE ResumeDone(c)
  <2>1. Leave(c, "nwd")
    BY <1>17 DEF ResumeDone, Return
  <2>2. pc[c] = "run" /\ level[c] > lock_to[c] /\ lock_to[c] = MAX_POWER_LEVEL
    BY <1>17 DEF ResumeDone, ControlInv, Critical
  <2>3. level[c] \notin Level
    BY <2>2, TreeAssumption, SMTT(40) DEF Level
  <2>4. level[c] \notin Upper
    BY <2>3 DEF Upper
  <2> QED
    BY <2>1, <2>4, <1>LeaveElsewhere DEF Critical
<1>18. CASE OffLockCpu(c)
  <2>1. CASE Return(c)
    BY <1>18, <2>1, <1>LeaveElsewhere DEF OffLockCpu, Return, Critical
  <2>2. CASE ~Return(c)
    BY <1>18, <2>2, <1>MoveElsewhere DEF OffLockCpu, StartLocking, Goto, TypeOK, Critical
  <2> QED
    BY <2>1, <2>2
<1>19. CASE OffCommit(c)
  <2>1. pc[c] # "run" /\ Leave(c, "off_wfi")
    BY <1>19 DEF OffCommit, Coordinated
  <2> QED
    BY <2>1, <1>LeaveElsewhere DEF Critical
<1>20. CASE PowerOff(c)
  BY <1>20, <1>MoveElsewhere DEF PowerOff, Goto, TypeOK, Critical
<1>21. CASE OnLockTarget(c)
  <2>1. CASE Return(c)
    BY <1>21, <2>1, <1>LeaveElsewhere DEF OnLockTarget, Return, Critical
  <2>2. CASE ~Return(c)
    BY <1>21, <2>2, <1>MoveElsewhere DEF OnLockTarget, Goto, TypeOK, Critical
  <2> QED
    BY <2>1, <2>2
<1>22. CASE OnPower(c)
  BY <1>22, <1>LeaveElsewhere DEF OnPower, Return, Critical
<1>23. CASE PowerOn(c)
  BY <1>23, <1>EnterElsewhere, <1>Descends DEF PowerOn, Critical
<1>24. CASE ScanOn(c)
  <2>1. pc[c] = "scan_on" /\ call' = call /\ states' = states
        /\ pc'[c] \in {"scan_on", "store", "scan_last"}
    BY <1>24 DEF ScanOn, Goto, TypeOK
  <2> QED
    BY <2>1, <1>MoveElsewhere DEF Critical
<1>25. CASE ScanLast(c)
  <2>1. CASE Return(c)
    BY <1>25, <2>1, <1>LeaveElsewhere DEF ScanLast, Return, Critical
  <2>2. CASE ~Return(c)
    <3>1. pc[c] = "scan_last" /\ pc' = pc /\ call' = call /\ states' = states
      BY <1>25, <2>2 DEF ScanLast
    <3> QED
      BY <3>1, <1>MoveElsewhere DEF Critical
  <2> QED
    BY <2>1, <2>2
<1>26. CASE ScanLastDone(c)
  <2>1. CASE call[c].op = "system_suspend"
    <3> DEFINE r == [call[c] EXCEPT !.op = "suspend", !.power_down = TRUE,
                                    !.highest = MAX_POWER_LEVEL]
    <3>1. Enter(c, "cpu", r, AllOff) /\ pc[c] = "scan_last"
      BY <1>26, <2>1 DEF ScanLastDone
    <3> HIDE DEF r
    <3> QED
      BY <3>1, <1>EnterElsewhere, <1>Descends DEF Critical
  <2>2. CASE call[c].op # "system_suspend"
    <3>1. pc[c] = "scan_last" /\ pc'[c] = "store" /\ call' = call /\ states' = states
      BY <1>26, <2>2 DEF ScanLastDone, Goto, TypeOK
    <3> QED
      BY <3>1, <1>MoveElsewhere DEF Critical
  <2> QED
    BY <2>1, <2>2
<1>27. CASE StoreMode(c)
  BY <1>27, <1>LeaveElsewhere DEF StoreMode, Return, Critical
<1> QED
  BY <1>1, <1>2, <1>3, <1>4, <1>5, <1>6, <1>7, <1>8, <1>9, <1>10, <1>11,
     <1>12, <1>13, <1>14, <1>15, <1>16, <1>17, <1>18, <1>19, <1>20, <1>21,
     <1>22, <1>23, <1>24, <1>25, <1>26, <1>27
     DEF Call, WakeUp, Step, Coordinating, NodeWriter

\* The steps between the points of the coordination keep the invariant of the
\* core that takes them.
LEMMA CoordinatingStep ==
  ASSUME IInv, TreeInv, NEW c \in CPU, UNCHANGED nodeVars, Coordinating(c)
  PROVE  RaisesAlike(c) /\ CompositeInv(c)' /\ AppliedInv(c)' /\ ChildrenInv(c)'
\* A level that validate_state_coordination accepts is one the other children
\* of the node allow: their copies in the node are no deeper than they are.
<1>LevelAllowed.
  ASSUME NEW l \in Upper, pc[c] # "run", node_lock[Ancestor[c][l]] = c,
         states[c][l] <= get_osi_minimal_allowed_state_without_core(
                           Ancestor[c][l], c, ChildAt(c, l))
  PROVE  ChildrenAllow(c, l)
  <2> USE <1>LevelAllowed
  <2>0. TypeOK /\ l \in Level /\ l # 1 /\ l - 1 \in Level
    BY UpperLevel DEF IInv, Upper
  <2> DEFINE n == Ancestor[c][l]
             votes == {OsiVote(n, d) : d \in Cpus[n] \ {c}}
             copies == {non_cpu_states[n][m] : m \in Children[n] \ {Ancestor[c][l - 1]}}
             S == {OFF} \cup votes \cup copies
  <2>1. n \in NODE
    BY <2>0, Ancestry
  <2>2. Cpus[n] \subseteq CPU /\ Children[n] \subseteq NODE
    BY <2>1 DEF Cpus, Children
  <2>3. votes \subseteq Nat
    BY <2>0, <2>1, <2>2, VoteType, Constants
  <2>4. copies \subseteq Nat
    BY <2>0, <2>1, <2>2, NodeNat DEF NodeNumbers
  <2>5. S \subseteq Nat /\ S # {}
    BY <2>3, <2>4, Constants
  <2>6. get_osi_minimal_allowed_state_without_core(n, c, ChildAt(c, l)) = Min(S)
    <3>1. ChildAt(c, l) = Ancestor[c][l - 1] /\ Ancestor[c][l - 1] # NONE
      <4>1. Ancestor[c][l - 1] \in NODE /\ NONE \notin NODE
        BY <2>0, Ancestry, TreeAssumption
      <4> QED
        BY <2>0, <4>1 DEF ChildAt
    <3> QED
      BY <3>1 DEF get_osi_minimal_allowed_state_without_core
  <2>7. Min(S) \in Nat /\ \A v \in copies : Min(S) <= v
    <3> HIDE DEF votes, copies
    <3> QED
      BY <2>5, MinNat
  <2>8. states[c][l] \in Nat /\ states[c][l] <= Min(S)
    BY <2>0, <2>6, CoreNat
  <2> HIDE DEF S
  <2> SUFFICES ASSUME NEW d \in CPU, Ancestor[d][l] = Ancestor[c][l],
                      Ancestor[d][l - 1] # Ancestor[c][l - 1]
               PROVE  states[c][l] <= local_state[Ancestor[d][l - 1]]
    BY DEF ChildrenAllow
  <2>9. PICK m \in NODE : m = Ancestor[d][l - 1]
    BY <2>0, Ancestry
  <2>10. m \in Children[n] \ {Ancestor[c][l - 1]}
    BY <2>0, <2>1, <2>9 DEF Children, Upper
  <2>11. Min(S) <= non_cpu_states[n][m]
    BY <2>7, <2>10
  <2>12. non_cpu_states[n][m] <= local_state[m]
    <3>1. ~Raising(c, l)
      BY DEF Raising
    <3>2. Ordered(d, l)
      BY <3>1, LockedInOrder
    <3> QED
      BY <2>9, <3>2 DEF Ordered
  <2>13. non_cpu_states[n][m] \in Nat /\ local_state[m] \in Nat
    BY <2>0, <2>1, NodeNat DEF NodeNumbers
  <2>14. states[c][l] <= local_state[m]
    BY <2>7, <2>8, <2>11, <2>12, <2>13, SMTT(40)
  <2> QED
    BY <2>9, <2>14
<1>0. /\ TypeOK /\ CoreInv(c) /\ ControlInv(c) /\ LockInv(c) /\ VotesRespected
      /\ CompositeInv(c) /\ AppliedInv(c) /\ ChildrenInv(c)
  BY DEF IInv, CoreInv, TreeInv
<1>1. 1 \notin Upper /\ \A l \in Level : l >= 1 /\ ~(l < 1) /\ l > 0 /\ l \in Nat
  BY LevelNat, SMTT(40) DEF Upper
<1>2. CASE SuspendStart(c) \/ OffStart(c)
  <2>1. /\ pc[c] = "lock" /\ pc'[c] \in {"last", "coordinate"} /\ level'[c] = 1
        /\ call'[c] = call[c] /\ states'[c] = states[c]
        /\ call[c].op \in {"suspend", "off"}
    BY <1>0, <1>2 DEF SuspendStart, OffStart, AncestorsLocked, Goto, AtLevel, TypeOK
  <2>2. Descending(states[c], 0)
    BY <1>0, <2>1 DEF CompositeInv
  <2>3. \A l \in Level : states'[c][l - 1] >= states'[c][l]
    BY <1>1, <2>1, <2>2 DEF Descending
  <2>4. CompositeInv(c)'
    BY <1>1, <2>1, <2>3 DEF CompositeInv, Descending
  <2>5. RaisesAlike(c) /\ AppliedInv(c)' /\ ChildrenInv(c)'
    BY <1>1, <2>1 DEF RaisesAlike, Raising, AppliedInv, ChildrenInv
  <2> QED
    BY <2>4, <2>5
<1>3. CASE ApplyVotesDone(c)
  <2>1. /\ pc[c] = "votes" /\ pc'[c] = "local" /\ level'[c] = 1
        /\ call'[c] = call[c] /\ states'[c] = states[c] /\ lock_to'[c] = lock_to[c]
        /\ local_state' = local_state
    BY <1>0, <1>3 DEF ApplyVotesDone, Goto, AtLevel, TypeOK, nodeVars
  <2>2. CompositeInv(c)' /\ RaisesAlike(c)
    BY <1>0, <2>1 DEF CompositeInv, Descending, RaisesAlike, Raising
  <2>3. AppliedInv(c)'
    BY <1>0, <1>1, <2>1 DEF AppliedInv
  <2>4. ChildrenInv(c)'
    BY <1>0, <2>1 DEF ChildrenInv, ChildrenAllow
  <2> QED
    BY <2>2, <2>3, <2>4
<1>4. CASE WakeFinish(c) \/ BootFinish(c)
  <2>1. pc[c] = "lock" /\ pc'[c] = "run" /\ level'[c] = 1
        /\ call[c].op \in {"wake", "boot"}
    BY <1>0, <1>4 DEF WakeFinish, BootFinish, AncestorsLocked, Goto, AtLevel, TypeOK
  <2>2. call'[c].op = call[c].op
    <3>1. CASE WakeFinish(c)
      BY <3>1 DEF WakeFinish
    <3>2. CASE BootFinish(c)
      <4>1. call'[c] = [call[c] EXCEPT !.power_down = (affinity_info[c] = "On")]
        BY <1>0, <3>2 DEF BootFinish, TypeOK
      <4>2. call[c] \in CallRecord
        BY <1>0 DEF TypeOK
      <4> QED
        BY <4>1, <4>2 DEF CallRecord
    <3> QED
      BY <1>4, <3>1, <3>2
  <2> QED
    BY <1>1, <2>1, <2>2 DEF RaisesAlike, Raising, CompositeInv, AppliedInv, ChildrenInv
<1>5. CASE ~Return(c) /\ ValidateLast(c)
  <2>1. /\ pc[c] = "last" /\ pc'[c] = "validate" /\ level'[c] = 1
        /\ call'[c] = call[c] /\ states'[c] = states[c]
    BY <1>0, <1>5 DEF ValidateLast, Goto, TypeOK, ControlInv
  <2>2. CompositeInv(c)'
    BY <1>0, <2>1 DEF CompositeInv, Descending
  <2> QED
    BY <1>1, <2>1, <2>2 DEF RaisesAlike, Raising, AppliedInv, ChildrenInv, Upper
<1>6. CASE ~Return(c) /\ ValidateLevel(c)
  <2>1. PICK l \in Level : l = level[c] /\ NodeAt(c) = Ancestor[c][l]
    BY <1>0, <1>6, ValidateAt DEF ValidateLevel
  <2>2. /\ pc[c] = "validate" /\ pc'[c] = "validate" /\ level'[c] = l + 1
        /\ call'[c] = call[c] /\ states'[c] = states[c] /\ l <= call[c].highest
        /\ states[c][l] <= get_osi_minimal_allowed_state_without_core(
                             Ancestor[c][l], c, ChildAt(c, l))
    BY <1>0, <1>6, <2>1 DEF ValidateLevel, AtLevel, TypeOK
  <2>3. CompositeInv(c)' /\ RaisesAlike(c) /\ AppliedInv(c)'
    BY <1>0, <2>2 DEF CompositeInv, Descending, RaisesAlike, Raising, AppliedInv
  <2>4. ASSUME NEW k \in Upper, k <= call[c].highest, k < l + 1
        PROVE  ChildrenAllow(c, k)
    <3>1. CASE k = l
      <4>1. call[c].highest <= lock_to[c]
        BY <1>0, <2>2 DEF ControlInv, Critical
      <4>2. l <= lock_to[c]
        BY <1>0, <1>1, <2>2, <4>1, CoreNat, SMTT(40)
      <4>3. node_lock[Ancestor[c][l]] = c
        BY <1>0, <2>2, <4>2 DEF LockInv, Critical
      <4> QED
        BY <2>2, <3>1, <4>3, <1>LevelAllowed
    <3>2. CASE k # l
      <4>1. k < level[c]
        <5>1. k \in Nat /\ l \in Nat
          BY <1>1, UpperLevel
        <5> QED
          BY <2>1, <2>4, <3>2, <5>1, SMTT(40)
      <4> QED
        BY <1>0, <2>2, <2>4, <4>1 DEF ChildrenInv
    <3> QED
      BY <3>1, <3>2
  <2>5. ChildrenInv(c)'
    <3>1. local_state' = local_state
      BY DEF nodeVars
    <3> QED
      BY <2>2, <2>4, <3>1 DEF ChildrenInv, ChildrenAllow
  <2> QED
    BY <2>3, <2>5
<1>7. CASE ~Return(c) /\ ValidatePlatform(c)
  <2>1. /\ pc[c] = "validate" /\ pc'[c] = "votes" /\ level[c] > call[c].highest
        /\ call'[c] = call[c] /\ states'[c] = states[c] /\ local_state' = local_state
    BY <1>0, <1>7 DEF ValidatePlatform, Goto, TypeOK, nodeVars
  <2>2. CompositeInv(c)' /\ RaisesAlike(c)
    BY <1>0, <2>1 DEF CompositeInv, Descending, RaisesAlike, Raising
  <2>3. \A l \in Level : local_state[Ancestor[c][l]] = RUN
    <3>1. \A l \in Level : VotesRun(c, l)
      BY <1>0, <2>1 DEF CoreInv, VoteInv, Awake
    <3> QED
      BY <1>0, <3>1, RunVote
  <2>4. AppliedInv(c)'
    BY <2>1, <2>3 DEF AppliedInv
  <2>5. \A l \in Level : l <= call[c].highest => l < level[c]
    BY <1>0, <1>1, <2>1, CoreNat, SMTT(40)
  <2>6. ChildrenInv(c)'
    BY <1>0, <2>1, <2>5, UpperLevel DEF ChildrenInv, ChildrenAllow
  <2> QED
    BY <2>2, <2>4, <2>6
<1> QED
  BY <1>2, <1>3, <1>4, <1>5, <1>6, <1>7 DEF Coordinating

-----------------------------------------------------------------------------
(* The invariant of the tree.                                              *)

\* The tree Psci::new builds is in order.
LEMMA InitTree == Init => TreeInv
<1> SUFFICES ASSUME Init
             PROVE  TreeInv
  OBVIOUS
<1>0. Primary \in CPU /\ RUN = 0 /\ OFF \in Nat /\ RUN <= RUN /\ OFF <= OFF /\ RUN <= OFF
  BY PsciAssumption, Constants, TreeAssumption, SMTT(40) DEF RUN
<1>1. /\ local_state =
           [n \in NODE |-> IF n \in Ancestors[Primary] THEN RUN ELSE OFF]
      /\ requested_states =
           [n \in NODE |-> [c \in CPU |->
              IF c = Primary /\ n \in Ancestors[Primary] THEN RUN ELSE OFF]]
      /\ suspend_states = [n \in NODE |-> [c \in CPU |-> NONE]]
      /\ non_cpu_states =
           [n \in NODE |-> [m \in NODE |->
              IF {n, m} \subseteq Ancestors[Primary] /\ m \in Children[n]
              THEN RUN ELSE OFF]]
  BY DEF Init, TreeInit
<1>2. ASSUME NEW c \in CPU
      PROVE  CompositeInv(c) /\ AppliedInv(c) /\ ChildrenInv(c) /\ OneKind(c)
  <2>1. call[c].op = "none" /\ pc[c] \in {"nwd", "off"}
    BY CallFields DEF Init
  <2>2. OneKind(c)
    BY <1>1, Ancestry DEF OneKind
  <2> QED
    BY <2>1, <2>2 DEF CompositeInv, AppliedInv, ChildrenInv
<1>3. \A n \in NODE : n \in Ancestors[Primary] <=> \E j \in Level : n = Ancestor[Primary][j]
  BY <1>0 DEF Ancestors
<1>4. ASSUME NEW c \in CPU, NEW k \in Upper PROVE PathInv(c, k)
  <2>1. k \in Level /\ k - 1 \in Level /\ k - 1 <= k
    BY UpperLevel, LevelNat, SMTT(40)
  <2>2. PICK n \in NODE, m \in NODE : n = Ancestor[c][k] /\ m = Ancestor[c][k - 1]
    BY <2>1, Ancestry
  <2>3. CASE m \in Ancestors[Primary]
    <3>1. PICK j \in Level : m = Ancestor[Primary][j]
      BY <1>3, <2>3
    <3>2. j = k - 1
      BY <1>0, <2>1, <2>2, <3>1, SameLevel
    <3>3. Ancestor[Primary][k - 1] = Ancestor[c][k - 1]
      BY <2>2, <3>1, <3>2
    <3>4. Ancestor[Primary][k] = Ancestor[c][k]
      BY <1>0, <2>1, <3>3, SharedAbove
    <3>5. n \in Ancestors[Primary]
      BY <1>3, <2>1, <2>2, <3>4
    <3>6. m \in Children[n]
      BY <2>2 DEF Children, Upper
    <3>7. local_state[n] = RUN /\ local_state[m] = RUN /\ non_cpu_states[n][m] = RUN
      BY <1>1, <2>3, <3>5, <3>6
    <3>8. requested_states[n][c] = requested_states[m][c]
          /\ requested_states[n][c] \in {RUN, OFF}
      BY <1>1, <2>3, <3>5
    <3> QED
      BY <1>0, <2>2, <3>7, <3>8 DEF PathInv
  <2>4. CASE m \notin Ancestors[Primary]
    <3>1. local_state[m] = OFF /\ requested_states[m][c] = OFF
      BY <1>1, <2>4
    <3>2. /\ local_state[n] \in {RUN, OFF} /\ non_cpu_states[n][m] \in {RUN, OFF}
          /\ requested_states[n][c] \in {RUN, OFF}
      BY <1>1
    <3> QED
      BY <1>0, <2>2, <3>1, <3>2 DEF PathInv
  <2> QED
    BY <2>3, <2>4
<1>5. ASSUME NEW c \in CPU, NEW l \in Level PROVE WitnessInv(Ancestor[c][l])
  <2>1. PICK n \in NODE : n = Ancestor[c][l]
    BY Ancestry
  <2>2. CASE n \in Ancestors[Primary]
    <3>1. Primary \in Cpus[n]
      BY <1>0, <2>2 DEF Cpus
    <3>2. requested_states[n][Primary] <= local_state[n]
      BY <1>0, <1>1, <2>2
    <3> QED
      BY <2>1, <3>1, <3>2 DEF WitnessInv
  <2>3. CASE n \notin Ancestors[Primary]
    <3>1. c \in Cpus[n]
      BY <2>1, CpusAt
    <3>2. requested_states[n][c] <= local_state[n]
      BY <1>0, <1>1, <2>3
    <3> QED
      BY <2>1, <3>1, <3>2 DEF WitnessInv
  <2> QED
    BY <2>2, <2>3
<1> QED
  BY <1>2, <1>4, <1>5 DEF TreeInv

\* Every step keeps the tree in order.
LEMMA NextTree == IInv /\ LifeInv /\ TypeOK' /\ TreeInv /\ [Next]_vars => TreeInv'
<1> SUFFICES ASSUME IInv, LifeInv, TypeOK', TreeInv, [Next]_vars
             PROVE  TreeInv'
  OBVIOUS
<1>1. CASE UNCHANGED vars
  <2>1. PICK c \in CPU : c = Primary
    BY PsciAssumption
  <2>2. UNCHANGED nodeVars /\ \A d \in CPU \ {c} : CoreKept(d)
    BY <1>1 DEF vars, coreVars, CoreKept
  <2>3. CoreKept(c)
    BY <1>1 DEF vars, coreVars, CoreKept
  <2>4. CompositeInv(c) /\ AppliedInv(c) /\ ChildrenInv(c)
    BY DEF TreeInv
  <2>5. /\ local_state' = local_state /\ requested_states' = requested_states
        /\ pc'[c] = pc[c] /\ level'[c] = level[c] /\ lock_to'[c] = lock_to[c]
        /\ states'[c] = states[c] /\ call'[c] = call[c]
    BY <2>2, <2>3 DEF CoreKept, nodeVars
  <2>6. CompositeInv(c)' /\ ChildrenInv(c)' /\ RaisesAlike(c)
    BY <2>4, <2>5 DEF CompositeInv, Descending, ChildrenInv, ChildrenAllow,
       RaisesAlike, Raising
  <2>7. AppliedInv(c)'
    BY <2>4, <2>5, SMTT(40) DEF AppliedInv
  <2> QED
    BY <2>2, <2>6, <2>7, TreeFromStep
<1>2. ASSUME NEW c \in CPU, Call(c) \/ WakeUp(c) \/ Step(c)
      PROVE  TreeInv'
  <2>1. /\ TypeOK /\ CoreInv(c) /\ ControlInv(c) /\ LockInv(c) /\ HandlerInv(c)
        /\ VotesRespected /\ CompositeInv(c)
    BY DEF IInv, CoreInv, LifeInv, TreeInv
  <2>2. CASE NodeWriter(c)
    <3>1. CASE CoordinateLevel(c)
      BY <2>1, <3>1, CoordinateEffect, CoordinateTree
    <3>2. CASE ApplyVote(c)
      BY <2>1, <3>2, ApplyEffect, ApplyTree
    <3>3. CASE set_nodes_from_local_states(c)
      BY <2>1, <3>3, LocalEffect, LocalTree
    <3>4. CASE SetRunning(c)
      BY <2>1, <3>4, RunningEffect, RunningTree
    <3> QED
      BY <2>2, <3>1, <3>2, <3>3, <3>4 DEF NodeWriter
  <2>3. CASE ~NodeWriter(c)
    <3>1. UNCHANGED nodeVars
      BY <1>2, <2>3, NodesUntouched
    <3>2. ASSUME NEW d \in CPU \ {c} PROVE CoreKept(d)
      <4>1. Keeps(d)
        BY <1>2, <2>1, OthersKeep
      <4> QED
        BY <4>1 DEF Keeps, CoreKept
    <3>3. CASE Coordinating(c)
      BY <3>1, <3>2, <3>3, CoordinatingStep, TreeFromStep
    <3>4. CASE ~Coordinating(c)
      <4>1. Elsewhere(c)
        BY <1>2, <2>1, <2>3, <3>4, ElsewhereStep
      <4> QED
        BY <3>1, <3>2, <4>1, ElsewhereTree
    <3> QED
      BY <3>3, <3>4
  <2> QED
    BY <2>2, <2>3
<1> QED
  BY <1>1, <1>2 DEF Next

\* TreeInv holds in every reachable state: parents and children stay in order
\* whatever the topology and whichever cores are at work on their paths.
THEOREM TreeInvariance == Spec => []TreeInv
<1>1. IInv /\ IInv' /\ LifeInv /\ TreeInv /\ [Next]_vars => TreeInv'
  BY NextTree DEF IInv
<1> QED
  BY <1>1, InitTree, Invariance, LifeInvariance, PTL DEF Spec

-----------------------------------------------------------------------------
(* Parents and children.                                                   *)

\* Nobody is putting back a child of a node that is not locked.
LEMMA UnlockedInOrder ==
  ASSUME IInv, TreeInv, NEW n \in NODE, NEW m \in Children[n], node_lock[n] = NONE
  PROVE  local_state[n] <= local_state[m] /\ non_cpu_states[n][m] <= local_state[m]
<1>1. PICK c \in CPU, l \in Upper : Ancestor[c][l] = n /\ Ancestor[c][l - 1] = m
  BY DEF Children, Upper
<1>2. PathInv(c, l)
  BY DEF TreeInv
<1>3. ASSUME NEW d \in CPU, Ancestor[d][l] = n, Raising(d, l) PROVE FALSE
  <2>1. ControlInv(d) /\ LockInv(d) /\ pc[d] = "run" /\ l \in Level
    BY <1>3, UpperLevel DEF IInv, CoreInv, Raising
  <2>2. lock_to[d] = MAX_POWER_LEVEL
    BY <2>1 DEF ControlInv, Critical
  <2>3. node_lock[n] = d
    BY <1>3, <2>1, <2>2, LevelNat DEF LockInv, Critical
  <2> QED
    BY <2>3, NoOwner
<1> QED
  BY <1>1, <1>2, <1>3 DEF PathInv

\* HierarchyRespected holds in every reachable state: coordinate_state,
\* apply_coordinated_state_to_power_domain_tree and set_running never leave a
\* parent domain deeper than one of its children, in any tree and with any
\* number of cores at work.
THEOREM HierarchyAlwaysRespected == Spec => []HierarchyRespected
<1>1. IInv /\ TreeInv => HierarchyRespected
  BY UnlockedInOrder DEF HierarchyRespected
<1> QED
  BY <1>1, Invariance, TreeInvariance, PTL

\* ChildCopyConservative holds in every reachable state: what a parent knows of
\* a child, and OS-initiated validation relies on, is never deeper than the
\* child is.
THEOREM ChildCopiesConservative == Spec => []ChildCopyConservative
<1>1. IInv /\ TreeInv => ChildCopyConservative
  BY UnlockedInOrder DEF ChildCopyConservative
<1> QED
  BY <1>1, Invariance, TreeInvariance, PTL

-----------------------------------------------------------------------------
(* Platform coordination.                                                  *)

\* Without OS-initiated mode no step enters its coordination.
LEMMA OsiStep ==
  ASSUME TypeOK, TypeOK', NEW c \in CPU, CoreInv(c), HandlerInv(c), CompositeInv(c),
         VotesRespected, ~OsiSupported, OsiInv, Call(c) \/ WakeUp(c) \/ Step(c)
  PROVE  /\ pc'[c] \notin {"last", "validate", "votes", "local"}
         /\ \A n \in NODE, d \in CPU : suspend_states'[n][d] = NONE
<1>0. /\ pc[c] \notin {"last", "validate", "votes", "local"}
      /\ \A n \in NODE, d \in CPU : suspend_states[n][d] = NONE
      /\ ControlInv(c)
  BY DEF OsiInv, CoreInv
<1>1. CASE CoordinateLevel(c)
  BY <1>0, <1>1 DEF CoordinateLevel
<1>2. CASE ApplyVote(c) \/ set_nodes_from_local_states(c)
  BY <1>0, <1>2 DEF ApplyVote, set_nodes_from_local_states
<1>3. CASE SetRunning(c)
  <2>1. PICK l \in Level : Runs(c, l)
    BY <1>3, RunningEffect
  <2> QED
    BY <1>0, <2>1 DEF Runs, Writes
<1>4. CASE ~NodeWriter(c)
  <2>1. \A n \in NODE, d \in CPU : suspend_states'[n][d] = NONE
    BY <1>0, <1>4, NodesUntouched DEF nodeVars
  <2>2. CASE Coordinating(c)
    <3>1. SuspendStart(c) \/ OffStart(c) \/ WakeFinish(c) \/ BootFinish(c)
      BY <1>0, <2>2 DEF Coordinating, ApplyVotesDone, ValidateLast, ValidateLevel,
         ValidatePlatform
    <3>2. pc'[c] \in {"coordinate", "run"}
      BY <3>1 DEF SuspendStart, OffStart, WakeFinish, BootFinish, is_in_osi_mode,
         Goto, TypeOK
    <3> QED
      BY <2>1, <3>2
  <2>3. CASE ~Coordinating(c)
    <3>1. Elsewhere(c)
      BY <1>0, <1>4, <2>3, ElsewhereStep
    <3> QED
      BY <2>1, <3>1 DEF Elsewhere, Critical
  <2> QED
    BY <2>2, <2>3
<1> QED
  BY <1>1, <1>2, <1>3, <1>4 DEF NodeWriter

\* OsiInv holds in every reachable state: on a platform without OS-initiated
\* mode nobody casts an OS-initiated vote.
THEOREM OsiInvariance == Spec => []OsiInv
<1>1. Init => OsiInv
  <2> SUFFICES ASSUME Init PROVE OsiInv
    OBVIOUS
  <2>1. \A c \in CPU : pc[c] \in {"nwd", "off"}
    BY DEF Init
  <2>2. \A n \in NODE, c \in CPU : suspend_states[n][c] = NONE
    BY DEF Init, TreeInit
  <2> QED
    BY <2>1, <2>2 DEF OsiInv
<1>2. IInv /\ IInv' /\ LifeInv /\ TreeInv /\ OsiInv /\ [Next]_vars => OsiInv'
  <2> SUFFICES ASSUME IInv, TypeOK', LifeInv, TreeInv, OsiInv, [Next]_vars, ~OsiSupported
               PROVE  /\ \A c \in CPU : pc'[c] \notin {"last", "validate", "votes", "local"}
                      /\ \A n \in NODE, c \in CPU : suspend_states'[n][c] = NONE
    BY DEF OsiInv, IInv
  <2>1. CASE UNCHANGED vars
    BY <2>1 DEF OsiInv, vars, nodeVars, coreVars
  <2>2. ASSUME NEW c \in CPU, Call(c) \/ WakeUp(c) \/ Step(c)
        PROVE  /\ \A d \in CPU : pc'[d] \notin {"last", "validate", "votes", "local"}
               /\ \A n \in NODE, d \in CPU : suspend_states'[n][d] = NONE
    <3>1. /\ TypeOK /\ CoreInv(c) /\ ControlInv(c) /\ LockInv(c) /\ HandlerInv(c)
          /\ VotesRespected /\ CompositeInv(c)
      BY DEF IInv, CoreInv, LifeInv, TreeInv
    <3>2. /\ pc'[c] \notin {"last", "validate", "votes", "local"}
          /\ \A n \in NODE, d \in CPU : suspend_states'[n][d] = NONE
      BY <2>2, <3>1, OsiStep
    <3>3. ASSUME NEW d \in CPU \ {c}
          PROVE  pc'[d] \notin {"last", "validate", "votes", "local"}
      <4>1. Keeps(d)
        BY <2>2, <3>1, OthersKeep
      <4> QED
        BY <4>1 DEF Keeps, OsiInv
    <3> QED
      BY <3>2, <3>3
  <2> QED
    BY <2>1, <2>2 DEF Next
<1> QED
  BY <1>1, <1>2, Invariance, LifeInvariance, TreeInvariance, PTL DEF Spec

\* CoordinatedExactly holds in every reachable state of a platform without
\* OS-initiated mode all of whose nodes have CPUs below them: a node is neither
\* deeper nor shallower than its CPUs allow, also where coordinate_state stops
\* computing because a lower level has to run.
THEOREM ExactCoordination ==
  ASSUME ~OsiSupported, \A n \in NODE : Cpus[n] # {}
  PROVE  Spec => []CoordinatedExactly
<1>1. IInv /\ TreeInv /\ OsiInv => CoordinatedExactly
  <2> SUFFICES ASSUME IInv, TreeInv, OsiInv, NEW n \in NODE
               PROVE  local_state[n] = minimal_allowed_state(n, requested_states[n])
    BY DEF CoordinatedExactly
  <2>1. PICK c \in CPU, l \in Level : n = Ancestor[c][l]
    BY DEF Cpus, Ancestors
  <2>2. TypeOK /\ VotesRespected /\ Cpus[n] \subseteq CPU
    BY Below DEF IInv
  <2>3. PICK r \in [CPU -> PowerState] : r = requested_states[n]
    BY <2>2 DEF TypeOK, TreeTypeOK
  <2>4. PICK d \in Cpus[n] : r[d] = minimal_allowed_state(n, r)
    BY <2>1, MinimumAttained
  <2>5. local_state[n] <= r[d]
    <3>1. OsiVote(n, d) = r[d]
      BY <2>2, <2>3 DEF OsiVote, OsiInv
    <3> QED
      BY <2>2, <3>1 DEF VotesRespected
  <2>6. PICK e \in Cpus[n] : r[e] <= local_state[n]
    BY <2>1, <2>3 DEF TreeInv, WitnessInv
  <2>7. minimal_allowed_state(n, r) <= r[e]
    BY <2>1, <2>6, MinimalState
  <2>8. r[d] \in Nat /\ r[e] \in Nat /\ local_state[n] \in Nat
    BY <2>2, <2>3, NodeNat DEF NodeNumbers
  <2>9. local_state[n] = r[d]
    BY <2>4, <2>5, <2>6, <2>7, <2>8, SMTT(40)
  <2> QED
    BY <2>3, <2>4, <2>9
<1> QED
  BY <1>1, Invariance, TreeInvariance, OsiInvariance, PTL

-----------------------------------------------------------------------------
(* The assertions of the handlers.                                         *)

\* The votes on the node of a core at work are of one kind.
LEMMA VotesConsistent ==
  ASSUME TreeInv, NEW c \in CPU, NEW l \in Level
  PROVE  OsiVotesConsistent(Ancestor[c][l], c)
<1> SUFFICES ASSUME NEW d \in Cpus[Ancestor[c][l]] \ {c},
                    requested_states[Ancestor[c][l]][d] # RUN
             PROVE  suspend_states[Ancestor[c][l]][d] = NONE
  BY DEF OsiVotesConsistent
<1>1. d \in CPU /\ Ancestor[d][l] = Ancestor[c][l]
  BY CpusAt
<1>2. OneKind(d)
  BY <1>1 DEF TreeInv
<1> QED
  BY <1>1, <1>2 DEF OneKind

\* The level a caller names as its last one is among those it has locked.
LastLocked == \A c \in CPU : pc[c] = "last" => call[c].last <= lock_to[c]

\* That is the only thing the assertions need besides the invariants.
LEMMA AssertionsFollow == IInv /\ LifeInv /\ TreeInv /\ LastLocked => AssertionsHold
<1> SUFFICES ASSUME IInv, LifeInv, TreeInv, LastLocked, NEW c \in CPU
             PROVE  /\ pc[c] = "last" => LastCheckable(c)
                    /\ pc[c] = "validate" /\ level[c] <= call[c].highest =>
                         OsiVotesConsistent(NodeAt(c), c)
                    /\ Coordinated(c) /\ call[c].op = "suspend" /\ call[c].power_down =>
                         entry_point[c] = NoEntry
                    /\ pc[c] = "power" => entry_point[call[c].target] = NoEntry
                    /\ AncestorsLocked(c, "boot") =>
                         \/ affinity_info[c] = "OnPending"
                         \/ affinity_info[c] = "On" /\ cpu_local_state[c] = OFF
                    /\ pc[c] = "run" /\ call[c].op = "boot" => entry_point[c] # NoEntry
                    /\ pc[c] = "scan_last" => affinity_info[c] = "On"
  BY DEF AssertionsHold
<1>1. /\ TypeOK /\ ControlInv(c) /\ HandlerInv(c) /\ AffinityInv(c) /\ TargetInv(c)
      /\ PowerDownInv(c)
  BY DEF IInv, CoreInv, LifeInv
<1>2. ASSUME pc[c] = "last" PROVE LastCheckable(c)
  <2> SUFFICES ASSUME call[c].last > 0
               PROVE  /\ call[c].last <= lock_to[c]
                      /\ OsiVotesConsistent(Ancestor[c][call[c].last], c)
    BY DEF LastCheckable
  <2>1. call[c].last <= lock_to[c]
    BY <1>2 DEF LastLocked
  <2>2. call[c].last \in Level
    <3>1. call[c].last \in Levels \cup {NONE}
      BY <1>1 DEF TypeOK, CallRecord
    <3> QED
      BY <3>1, TreeAssumption, SMTT(40) DEF Levels, Level, NONE
  <2>3. PICK l \in Level : l = call[c].last
    BY <2>2
  <2>4. OsiVotesConsistent(Ancestor[c][l], c)
    BY VotesConsistent
  <2> QED
    BY <2>1, <2>3, <2>4
<1>3. ASSUME pc[c] = "validate", level[c] <= call[c].highest
      PROVE  OsiVotesConsistent(NodeAt(c), c)
  <2>1. PICK l \in Level : l = level[c] /\ NodeAt(c) = Ancestor[c][l]
    BY <1>1, <1>3, ValidateAt
  <2>2. OsiVotesConsistent(Ancestor[c][l], c)
    BY VotesConsistent
  <2> QED
    BY <2>1, <2>2
<1>4. ASSUME Coordinated(c), call[c].op = "suspend"
      PROVE  entry_point[c] = NoEntry
  <2>1. pc[c] \in {"coordinate", "local"}
    BY <1>4 DEF Coordinated
  <2>2. ~Loaded(c) /\ ~Booting(c)
    BY <2>1 DEF Loaded, PoweringDown, Booting
  <2> QED
    BY <1>1, <2>1, <2>2, Running
<1>5. pc[c] = "power" => entry_point[call[c].target] = NoEntry
  BY <1>1 DEF TargetInv
<1>6. ASSUME AncestorsLocked(c, "boot")
      PROVE  \/ affinity_info[c] = "OnPending"
             \/ affinity_info[c] = "On" /\ cpu_local_state[c] = OFF
  <2>1. Booting(c) /\ pc[c] \notin {"off_wfi", "off"}
    BY <1>6 DEF AncestorsLocked, Booting
  <2>2. affinity_info[c] \in {"Off", "OnPending", "On"}
    BY <1>1 DEF TypeOK, TreeTypeOK
  <2> QED
    BY <1>1, <2>1, <2>2 DEF AffinityInv, PowerDownInv
<1>7. ASSUME pc[c] = "run", call[c].op = "boot" PROVE entry_point[c] # NoEntry
  <2>1. Loaded(c) /\ ~Booting(c)
    BY <1>7 DEF Loaded, Booting
  <2> QED
    BY <1>1, <1>7, <2>1, Running
<1>8. ASSUME pc[c] = "scan_last" PROVE affinity_info[c] = "On"
  <2>1. ~Booting(c)
    BY <1>8 DEF Booting
  <2> QED
    BY <1>1, <1>8, <2>1, Running
<1> QED
  BY <1>2, <1>3, <1>4, <1>5, <1>6, <1>7, <1>8

\* The assertions, indexings and `expect`s of the PSCI handlers hold in every
\* reachable state in which OS-initiated coordination has locked the level the
\* caller names: the two reads of the suspend mode are the only thing that can
\* make one of them fail.
THEOREM AssertionsHoldWhenLocked == Spec => [](LastLocked => AssertionsHold)
<1>1. IInv /\ LifeInv /\ TreeInv => (LastLocked => AssertionsHold)
  BY AssertionsFollow
<1> QED
  BY <1>1, Invariance, LifeInvariance, TreeInvariance, PTL

\* The level a caller names is not above the highest one it affects.
LastAffected(r) == r.last <= r.highest

\* It is so without a call, and what else the handlers do to their parameters
\* keeps it.
LEMMA LastFields ==
  /\ LastAffected(NoCall)
  /\ \A x : LastAffected([NoCall EXCEPT !.op = x])
  /\ LastAffected([NoCall EXCEPT !.op = "off", !.power_down = TRUE])
  /\ \A t, e : LastAffected([NoCall EXCEPT !.op = "on", !.target = t, !.entry = e])
  /\ \A e : LastAffected([NoCall EXCEPT !.op = "system_suspend", !.entry = e])
  /\ \A m : LastAffected([NoCall EXCEPT !.op = "set_mode", !.mode = m])
<1>1. NONE <= 0
  BY SMTT(40) DEF NONE
<1> QED
  BY <1>1 DEF NoCall, LastAffected

\* The same for the changes to a call that is under way.
LEMMA LastChanges ==
  ASSUME NEW r \in CallRecord
  PROVE  /\ LastAffected(r) => LastAffected([r EXCEPT !.op = "wake"])
         /\ \A b \in BOOLEAN :
              LastAffected(r) => LastAffected([r EXCEPT !.power_down = b])
         /\ LastAffected([r EXCEPT !.op = "suspend", !.power_down = TRUE,
                                   !.highest = MAX_POWER_LEVEL])
<1>1. r.last <= MAX_POWER_LEVEL
  <2>1. r.last \in Levels \cup {NONE}
    BY DEF CallRecord
  <2> QED
    BY <2>1, TreeAssumption, SMTT(40) DEF Levels, NONE
<1>2. LastAffected(r) => LastAffected([r EXCEPT !.op = "wake"])
  BY DEF CallRecord, LastAffected
<1>3. ASSUME NEW b \in BOOLEAN
      PROVE  LastAffected(r) => LastAffected([r EXCEPT !.power_down = b])
  BY DEF CallRecord, LastAffected
<1>4. LastAffected([r EXCEPT !.op = "suspend", !.power_down = TRUE,
                             !.highest = MAX_POWER_LEVEL])
  BY <1>1 DEF CallRecord, LastAffected
<1> QED
  BY <1>2, <1>3, <1>4

\* A request that names no level above the highest one it affects.
LEMMA LastRequested ==
  ASSUME NEW r \in SuspendRequest, r.last <= find_highest_non_run_level(r.states),
         NEW e
  PROVE  LastAffected([NoCall EXCEPT !.op = "suspend",
                         !.highest = find_highest_non_run_level(r.states),
                         !.power_down = r.power_down, !.last = r.last, !.entry = e])
BY DEF NoCall, LastAffected

\* Every step of a core keeps it, if the requests are like that.
LEMMA LastStep ==
  ASSUME TypeOK, NEW c \in CPU, ControlInv(c), HandlerInv(c), LastAffected(call[c]),
         \A r \in SuspendRequest : r.last <= find_highest_non_run_level(r.states),
         Call(c) \/ WakeUp(c) \/ Step(c)
  PROVE  LastAffected(call'[c])
<1>0. call[c] \in CallRecord
  BY DEF TypeOK
<1>1. ASSUME NEW label, Leave(c, label) PROVE LastAffected(call'[c])
  <2>1. call'[c] = NoCall
    BY <1>1 DEF Leave, TypeOK
  <2> QED
    BY <2>1, LastFields
<1>2. Return(c) => LastAffected(call'[c])
  BY <1>1 DEF Return
<1>3. ASSUME NEW label, NEW args, NEW composite, Enter(c, label, args, composite),
             LastAffected(args)
      PROVE  LastAffected(call'[c])
  <2>1. call'[c] = args
    BY <1>3, EnterEffect
  <2> QED
    BY <1>3, <2>1
<1>4. call'[c] = call[c] => LastAffected(call'[c])
  OBVIOUS
<1>5. CASE CpuSuspend(c)
  <2>1. PICK r \in SuspendRequest, e \in EntryPoint :
          Enter(c, "cpu",
            [NoCall EXCEPT !.op = "suspend",
               !.highest = find_highest_non_run_level(r.states),
               !.power_down = r.power_down, !.last = r.last, !.entry = e],
            r.states)
    BY <1>5 DEF CpuSuspend
  <2> DEFINE a == [NoCall EXCEPT !.op = "suspend",
                     !.highest = find_highest_non_run_level(r.states),
                     !.power_down = r.power_down, !.last = r.last, !.entry = e]
  <2>2. LastAffected(a) /\ Enter(c, "cpu", a, r.states)
    BY <2>1, LastRequested
  <2> HIDE DEF a
  <2> QED
    BY <1>3, <2>2
<1>6. CASE CpuOff(c)
  BY <1>3, <1>6, LastFields DEF CpuOff
<1>7. CASE CpuOn(c)
  <2>1. PICK t \in CPU, e \in EntryPoint :
          Enter(c, "cpu", [NoCall EXCEPT !.op = "on", !.target = t, !.entry = e],
                AllRun)
    BY <1>7 DEF CpuOn
  <2> QED
    BY <1>3, <2>1, LastFields
<1>8. CASE SystemSuspend(c)
  <2>1. PICK e \in EntryPoint :
          Enter(c, "scan_last",
                [NoCall EXCEPT !.op = "system_suspend", !.entry = e], AllRun)
    BY <1>8 DEF SystemSuspend
  <2> QED
    BY <1>3, <2>1, LastFields
<1>9. CASE SetSuspendMode(c)
  <2>1. PICK m \in Mode, label \in {"scan_on", "scan_last"} :
          Enter(c, label, [NoCall EXCEPT !.op = "set_mode", !.mode = m], AllRun)
    BY <1>9 DEF SetSuspendMode
  <2> QED
    BY <1>3, <2>1, LastFields
<1>10. CASE SuspendWake(c)
  <2> DEFINE a == [call[c] EXCEPT !.op = "wake"]
  <2>1. LastAffected(a) /\ Enter(c, "cpu", a, states[c])
    BY <1>0, <1>10, LastChanges DEF SuspendWake
  <2> HIDE DEF a
  <2> QED
    BY <1>3, <2>1
<1>11. CASE SuspendWarmBoot(c) \/ PowerOn(c)
  BY <1>3, <1>11, LastFields DEF SuspendWarmBoot, PowerOn
<1>12. CASE SuspendCommit(c)
  BY <1>3, <1>12 DEF SuspendCommit
<1>13. CASE BootFinish(c)
  <2>1. PICK b \in BOOLEAN : b = (affinity_info[c] = "On")
    OBVIOUS
  <2>2. call'[c] = [call[c] EXCEPT !.power_down = b]
    BY <1>13, <2>1 DEF BootFinish, TypeOK
  <2>3. LastAffected([call[c] EXCEPT !.power_down = b])
    BY <1>0, LastChanges
  <2> QED
    BY <2>2, <2>3
<1>14. CASE ScanLastDone(c)
  <2>1. CASE call[c].op = "system_suspend"
    <3> DEFINE r == [call[c] EXCEPT !.op = "suspend", !.power_down = TRUE,
                                    !.highest = MAX_POWER_LEVEL]
    <3>1. LastAffected(r) /\ Enter(c, "cpu", r, AllOff)
      BY <1>0, <1>14, <2>1, LastChanges DEF ScanLastDone
    <3> HIDE DEF r
    <3> QED
      BY <1>3, <3>1
  <2>2. CASE call[c].op # "system_suspend"
    BY <1>4, <1>14, <2>2 DEF ScanLastDone
  <2> QED
    BY <2>1, <2>2
<1>15. CASE \/ CpuStandby(c) \/ CpuStandbyWake(c) \/ LockAncestor(c)
            \/ SuspendLockCpu(c) \/ SuspendReadMode(c) \/ SuspendStart(c)
            \/ CoordinateLevel(c) \/ ApplyVote(c) \/ ApplyVotesDone(c)
            \/ set_nodes_from_local_states(c) \/ ResumeLockCpu(c)
            \/ WakeFinish(c) \/ SetRunning(c) \/ OffStart(c) \/ PowerOff(c)
            \/ ScanOn(c)
  BY <1>4, <1>15 DEF CpuStandby, CpuStandbyWake, LockAncestor, SuspendLockCpu,
     SuspendReadMode, SuspendStart, CoordinateLevel, ApplyVote, ApplyVotesDone,
     set_nodes_from_local_states, ResumeLockCpu, WakeFinish, SetRunning, OffStart,
     PowerOff, ScanOn
<1>16. CASE \/ SuspendPendingInterrupt(c) \/ ValidateLast(c) \/ ValidateLevel(c)
            \/ ValidatePlatform(c) \/ ResumeDone(c) \/ OffLockCpu(c)
            \/ OnLockTarget(c) \/ OnPower(c) \/ ScanLast(c) \/ StoreMode(c)
  <2>1. ValidateLast(c) \/ ValidateLevel(c) \/ ValidatePlatform(c) =>
          Return(c) \/ call' = call
    BY DEF ValidateLast, ValidateLevel, ValidatePlatform
  <2>2. OffLockCpu(c) \/ OnLockTarget(c) \/ OnPower(c) => Return(c) \/ call' = call
    BY DEF OffLockCpu, OnLockTarget, OnPower
  <2>3. SuspendPendingInterrupt(c) \/ ResumeDone(c) \/ ScanLast(c) \/ StoreMode(c) =>
          Return(c) \/ call' = call
    BY DEF SuspendPendingInterrupt, ResumeDone, ScanLast, StoreMode
  <2> QED
    BY <1>2, <1>4, <1>16, <2>1, <2>2, <2>3
<1>17. CASE OffCommit(c)
  BY <1>1, <1>17 DEF OffCommit
<1> QED
  BY <1>5, <1>6, <1>7, <1>8, <1>9, <1>10, <1>11, <1>12, <1>13, <1>14, <1>15,
     <1>16, <1>17 DEF Call, WakeUp, Step

\* AssertionsHold holds in every reachable state if the platform has no
\* OS-initiated mode, or if no caller can name a last level above the highest
\* one it affects: then level_to_lock_to covers it in either mode, and no
\* assertion of the PSCI handlers can fail.
THEOREM AssertionsAlwaysHold ==
  ASSUME OsiSupported =>
           \A r \in SuspendRequest : r.last <= find_highest_non_run_level(r.states)
  PROVE  Spec => []AssertionsHold
<1> DEFINE LastInv == OsiSupported => \A c \in CPU : LastAffected(call[c])
<1>1. Init => LastInv
  BY LastFields DEF Init
<1>2. IInv /\ LifeInv /\ LastInv /\ [Next]_vars => LastInv'
  <2> SUFFICES ASSUME IInv, LifeInv, LastInv, [Next]_vars, OsiSupported,
                      NEW d \in CPU
               PROVE  LastAffected(call'[d])
    BY DEF LastAffected
  <2>1. CASE UNCHANGED vars
    BY <2>1 DEF vars, coreVars
  <2>2. ASSUME NEW c \in CPU, Call(c) \/ WakeUp(c) \/ Step(c)
        PROVE  LastAffected(call'[d])
    <3>1. TypeOK /\ ControlInv(c) /\ LockInv(c) /\ HandlerInv(c) /\ LastAffected(call[c])
      BY DEF IInv, CoreInv, LifeInv
    <3>2. CASE d = c
      BY <2>2, <3>1, <3>2, LastStep
    <3>3. CASE d # c
      <4>1. Keeps(d)
        BY <2>2, <3>1, <3>3, OthersKeep
      <4> QED
        BY <4>1 DEF Keeps
    <3> QED
      BY <3>2, <3>3
  <2> QED
    BY <2>1, <2>2 DEF Next
<1>3. IInv /\ OsiInv /\ LastInv => LastLocked
  <2> SUFFICES ASSUME IInv, OsiInv, LastInv, NEW c \in CPU, pc[c] = "last"
               PROVE  call[c].last <= lock_to[c]
    BY DEF LastLocked
  <2>1. call[c].last <= call[c].highest /\ TypeOK /\ ControlInv(c)
    BY DEF LastAffected, IInv, CoreInv, OsiInv
  <2>2. call[c].highest <= lock_to[c]
    BY <2>1 DEF ControlInv, Critical
  <2>3. call[c].highest \in Nat /\ lock_to[c] \in Nat /\ call[c].last \in Levels \cup {NONE}
    BY <2>1, CoreNat DEF CallRecord
  <2>4. call[c].last \in Int
    BY <2>3, TreeAssumption, SMTT(40) DEF Levels, NONE
  <2> QED
    BY <2>1, <2>2, <2>3, <2>4, SMTT(40)
<1>4. IInv /\ LifeInv /\ TreeInv /\ OsiInv /\ LastInv => AssertionsHold
  BY <1>3, AssertionsFollow
<1> HIDE DEF LastInv
<1> QED
  BY <1>1, <1>2, <1>4, Invariance, LifeInvariance, TreeInvariance, OsiInvariance, PTL
     DEF Spec
=============================================================================
