------------------------------- MODULE PsciInv -------------------------------
(***************************************************************************)
(* The inductive invariants of Psci.  IInv is behind PoweredWhileAwake and *)
(* VotesRespected.  VotesRespected alone is not inductive: an OS-initiated *)
(* suspend reads the other CPUs' votes in one step and writes the node in  *)
(* a later one, so the invariant says which locks a core holds at each     *)
(* point, that what it validated stays valid while it holds them, and how  *)
(* far it has got in changing its own votes.  LifeInv is behind the        *)
(* lifecycle, the absence of circular waits and the assertions; TreeInv    *)
(* and OsiInv are behind what parents and children know of one another.    *)
(***************************************************************************)
EXTENDS Psci

\* Core c votes RUN on its ancestor at level l.
VotesRun(c, l) ==
  /\ requested_states[Ancestor[c][l]][c] = RUN
  /\ suspend_states[Ancestor[c][l]][c] = NONE

\* The points between locking the ancestors and dropping the locks.
Critical == {"coordinate", "last", "validate", "votes", "local", "run"}

\* Where the loops may be.
ControlInv(c) ==
  /\ pc[c] = "lock" => level[c] \in 1 .. (lock_to[c] + 1)
  /\ pc[c] \in Critical => level[c] \in Nat \ {0}
  /\ pc[c] = "lock" \/ pc[c] \in Critical =>
       call[c].op \in {"suspend", "off", "wake", "boot"}
  /\ pc[c] = "lock" \/ pc[c] \in Critical =>
       IF call[c].op = "suspend" THEN call[c].highest <= lock_to[c]
       ELSE lock_to[c] = MAX_POWER_LEVEL
  /\ pc[c] \in {"mode", "last", "validate", "votes", "local"} =>
       call[c].op = "suspend"
  /\ pc[c] = "last" => level[c] = 1
  /\ pc[c] = "coordinate" => call[c].op \in {"suspend", "off"}
  /\ pc[c] = "run" => call[c].op \in {"wake", "boot"}

\* The ancestors core c has locked.
LockInv(c) ==
  /\ pc[c] = "lock" =>
       \A l \in Level : l < level[c] => node_lock[Ancestor[c][l]] = c
  /\ pc[c] \in Critical =>
       \A l \in Level : l <= lock_to[c] => node_lock[Ancestor[c][l]] = c

\* The votes core c has not changed yet, has changed, or has taken back.
VoteInv(c) ==
  /\ Awake(c) => \A l \in Level : VotesRun(c, l)
  /\ pc[c] \in {"coordinate", "votes"} =>
       \A l \in Level : l >= level[c] => VotesRun(c, l)
  /\ pc[c] = "votes" =>
       \A l \in Level : l < level[c] =>
         /\ requested_states[Ancestor[c][l]][c] = RUN
         /\ suspend_states[Ancestor[c][l]][c] = resolved_state(c)[l]
  /\ pc[c] = "local" =>
       \A l \in Level : l <= lock_to[c] =>
         /\ requested_states[Ancestor[c][l]][c] = RUN
         /\ suspend_states[Ancestor[c][l]][c] = resolved_state(c)[l]
  /\ pc[c] = "run" => \A l \in Level : l < level[c] => VotesRun(c, l)

\* The other CPUs allow what core c is about to apply.
ValidatedAt(c, l) ==
  \A d \in Cpus[Ancestor[c][l]] \ {c} :
    states[c][l] <= OsiVote(Ancestor[c][l], d)
ValidatedInv(c) ==
  /\ pc[c] = "validate" =>
       \A l \in Level : l < level[c] /\ l <= call[c].highest =>
         ValidatedAt(c, l)
  /\ pc[c] \in {"votes", "local"} =>
       \A l \in Level : l <= call[c].highest => ValidatedAt(c, l)

\* The CPU node's own state.
CpuNodeInv(c) ==
  (Awake(c) /\ pc[c] # "standby") \/ pc[c] = "run" => cpu_local_state[c] = RUN

CoreInv(c) ==
  ControlInv(c) /\ LockInv(c) /\ VoteInv(c) /\ ValidatedInv(c) /\ CpuNodeInv(c)

\* The inductive invariant: types, every core's bookkeeping, and no node deeper
\* than a vote below it.  It rules out that a node changes under a core between
\* validate_state_coordination and apply_coordinated_state_to_power_domain_tree.
IInv == TypeOK /\ (\A c \in CPU : CoreInv(c)) /\ VotesRespected
-----------------------------------------------------------------------------
(* Locks and the lifecycle of the CPUs.                                    *)

\* Which handler a core can be in at each point outside ControlInv's, and what
\* its parameters are good for.
HandlerInv(c) ==
  /\ pc[c] \in {"nwd", "standby", "off_wfi", "off"} => call[c].op = "none"
  /\ pc[c] = "cpu" => call[c].op \in {"suspend", "off", "on", "wake", "boot"}
  /\ pc[c] = "wfi" => call[c].op = "suspend"
  /\ pc[c] = "power" => call[c].op = "on"
  /\ pc[c] \in {"scan_on", "store"} => call[c].op = "set_mode"
  /\ pc[c] = "scan_last" => call[c].op \in {"system_suspend", "set_mode"}
  /\ call[c].op = "on" => call[c].target \in CPU
  /\ call[c].op \in {"suspend", "system_suspend", "on"} =>
       call[c].entry \in EntryPoint

\* A SpinMutex is held by a core that is between taking and dropping it.
Locking == Critical \cup {"lock"}
CpuLockInv(c) ==
  /\ cpu_lock[c] # NONE =>
       \/ cpu_lock[c] = c /\ pc[c] \in Locking \cup {"mode"}
       \/ /\ pc[cpu_lock[c]] = "power"
          /\ call[cpu_lock[c]].target = c
  /\ pc[c] \in Locking \cup {"mode"} => cpu_lock[c] = c
  /\ pc[c] = "power" => cpu_lock[call[c].target] = c
NodeLockInv(n) ==
  LET h == node_lock[n]
  IN  h # NONE =>
        \E l \in Level :
          /\ n = Ancestor[h][l]
          /\ \/ pc[h] = "lock" /\ l < level[h]
             \/ pc[h] \in Critical /\ l <= lock_to[h]

\* A core that restarts: it runs from the warm boot entry point on.
Booting(c) == pc[c] \in {"cpu", "lock"} /\ call[c].op = "boot"

\* The power down of a core, from the WFI to where it can no longer be abandoned.
PoweringDown(c) ==
  \/ pc[c] = "wfi" /\ call[c].power_down
  \/ pc[c] \in {"cpu", "lock"} /\ call[c].op = "wake" /\ call[c].power_down

\* A running core whose node holds an entry point.
Loaded(c) ==
  PoweringDown(c) \/ Booting(c) \/ (pc[c] = "run" /\ call[c].op = "boot")

\* What affinity_info says about where the core is, and when its node holds an
\* entry point.
AffinityInv(c) ==
  /\ affinity_info[c] = "Off" =>
       pc[c] \in {"off_wfi", "off"} /\ entry_point[c] = NoEntry /\ ~power_on[c]
  /\ affinity_info[c] = "OnPending" /\ entry_point[c] = NoEntry =>
       pc[c] \in {"off_wfi", "off"} /\ ~power_on[c]
  /\ affinity_info[c] = "OnPending" /\ entry_point[c] # NoEntry =>
       \/ pc[c] \in {"off_wfi", "off"} /\ power_on[c]
       \/ Booting(c) /\ ~power_on[c]
  /\ affinity_info[c] = "On" =>
       /\ pc[c] \notin {"off_wfi", "off"} /\ ~power_on[c]
       /\ entry_point[c] # NoEntry <=> Loaded(c)

\* The target of a CPU_ON waits for its entry point.
TargetInv(c) ==
  pc[c] = "power" =>
    /\ affinity_info[call[c].target] = "OnPending"
    /\ entry_point[call[c].target] = NoEntry

\* A core powers down with its own state OFF.
PowerDownInv(c) ==
  /\ call[c].power_down /\ call[c].op = "suspend" /\ pc[c] # "wfi" =>
       states[c][0] = OFF
  /\ pc[c] = "wfi" /\ call[c].power_down => cpu_local_state[c] = OFF
  /\ Booting(c) /\ affinity_info[c] = "On" => cpu_local_state[c] = OFF

LifeInv ==
  /\ \A c \in CPU : /\ HandlerInv(c) /\ CpuLockInv(c) /\ AffinityInv(c)
                    /\ TargetInv(c) /\ PowerDownInv(c)
  /\ \A n \in NODE : NodeLockInv(n)

-----------------------------------------------------------------------------
(* Parents and children in the tree.                                       *)

Upper == Level \ {1}

\* Core c is putting its path back: it has done the child at level l - 1 and
\* not yet the parent at level l.
Raising(c, l) == pc[c] = "run" /\ level[c] = l

\* The composite state c has asked for is still the one of the request above
\* the level c has got to, and no level is deeper than the one below it.
Descending(s, from) == \A l \in Level : l > from => s[l - 1] >= s[l]
CompositeInv(c) ==
  /\ call[c].op \in {"suspend", "off"} /\ pc[c] \notin {"coordinate", "wfi"} =>
       Descending(states[c], 0)
  /\ pc[c] = "coordinate" => Descending(states[c], level[c])
  /\ pc[c] = "coordinate" /\ level[c] \in Upper =>
       states[c][level[c]] <= requested_states[Ancestor[c][level[c] - 1]][c]

\* How far c has got in applying the composite state.
AppliedInv(c) ==
  /\ pc[c] = "coordinate" =>
       \A l \in Level : l < level[c] /\ l <= lock_to[c] =>
         /\ states[c][l] <= local_state[Ancestor[c][l]]
         /\ states[c][l] = RUN =>
              \E d \in Cpus[Ancestor[c][l]] :
                requested_states[Ancestor[c][l]][d] = RUN
  /\ pc[c] = "votes" =>
       \A l \in Level : l <= lock_to[c] => local_state[Ancestor[c][l]] = RUN
  /\ pc[c] = "local" =>
       \A l \in Level : l <= lock_to[c] =>
         /\ l < level[c] /\ l <= call[c].highest =>
              local_state[Ancestor[c][l]] = states[c][l]
         /\ l >= level[c] => local_state[Ancestor[c][l]] = RUN

\* The other children of an ancestor are as deep as what c is about to apply.
ChildrenAllow(c, l) ==
  \A d \in CPU :
    Ancestor[d][l] = Ancestor[c][l] /\ Ancestor[d][l - 1] # Ancestor[c][l - 1] =>
      states[c][l] <= local_state[Ancestor[d][l - 1]]
ChildrenInv(c) ==
  \A l \in Upper : l <= call[c].highest =>
    /\ pc[c] = "validate" /\ l < level[c] => ChildrenAllow(c, l)
    /\ pc[c] \in {"votes", "local"} => ChildrenAllow(c, l)

\* Seen from CPU c: the node at level l is no deeper than its child at level
\* l - 1 and knows nothing deeper of it, and c asks for no more there.
PathInv(c, l) ==
  LET n == Ancestor[c][l]
      m == Ancestor[c][l - 1]
  IN  /\ \/ \E d \in CPU :
              Ancestor[d][l] = n /\ Ancestor[d][l - 1] = m /\ Raising(d, l)
         \/ local_state[n] <= local_state[m] /\ non_cpu_states[n][m] <= local_state[m]
      /\ Raising(c, l) \/ requested_states[n][c] <= requested_states[m][c]

\* A node is as deep as one of the requests on it.
WitnessInv(n) == \E d \in Cpus[n] : requested_states[n][d] <= local_state[n]

\* A CPU has votes of one kind on a node.
OneKind(c) ==
  \A l \in Level : \/ requested_states[Ancestor[c][l]][c] = RUN
                    \/ suspend_states[Ancestor[c][l]][c] = NONE

TreeInv ==
  /\ \A c \in CPU :
       CompositeInv(c) /\ AppliedInv(c) /\ ChildrenInv(c) /\ OneKind(c)
  /\ \A c \in CPU : \A l \in Upper : PathInv(c, l)
  /\ \A c \in CPU : \A l \in Level : WitnessInv(Ancestor[c][l])

\* Without OS-initiated mode nobody casts an OS-initiated vote.
OsiInv ==
  ~OsiSupported =>
    /\ \A c \in CPU : pc[c] \notin {"last", "validate", "votes", "local"}
    /\ \A n \in NODE : \A c \in CPU : suspend_states[n][c] = NONE
=============================================================================
