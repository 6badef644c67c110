--------------------------- MODULE PowerDomainTree ---------------------------
(***************************************************************************)
(* The PSCI power domain tree: CPU nodes, non-CPU nodes, the spin lock on  *)
(* each node, and the operations the PSCI handlers run on them.            *)
(*                                                                         *)
(* A power state is a number: RUN is 0, a larger number is a deeper state, *)
(* OFF is the deepest and the only power down state; what lies between is  *)
(* retention.  The tree is given by Ancestor[c][l], the non-CPU node that  *)
(* contains CPU c at power level l.                                        *)
(***************************************************************************)
EXTENDS Integers, FiniteSets, FiniteSetsExt

CONSTANTS CPU_DOMAIN_COUNT,      \* number of CPU nodes
          NODE,                  \* indices of the non-CPU nodes
          MAX_POWER_LEVEL,       \* level of the root; CPUs are level 0
          Ancestor,              \* Ancestor[c][l]
          OFF,                   \* the deepest power state
          EntryPoint,            \* non-secure entry points
          NoEntry                \* Option::None for an entry point

CPU == 0 .. (CPU_DOMAIN_COUNT - 1)
Level == 1 .. MAX_POWER_LEVEL
RUN == 0
PowerState == RUN .. OFF
NONE == -1                       \* Option::None; an unlocked SpinMutex

\* What PowerDomainTree::new guarantees: every CPU has one ancestor per level,
\* a node belongs to one level, and CPUs that share a node share everything
\* above it.
ASSUME TreeAssumption ==
  /\ CPU_DOMAIN_COUNT \in Nat \ {0}
  /\ MAX_POWER_LEVEL \in Nat \ {0}
  /\ OFF \in Nat \ {0}
  /\ NoEntry \notin EntryPoint
  /\ NONE \notin NODE
  /\ Ancestor \in [CPU -> [Level -> NODE]]
  /\ \A c, d \in CPU : \A k, l \in Level :
       Ancestor[c][k] = Ancestor[d][l] =>
         k = l /\ \A m \in Level : m >= k => Ancestor[c][m] = Ancestor[d][m]

VARIABLES affinity_info,         \* CPU node: "Off", "OnPending" or "On"
          cpu_local_state,       \* CPU node: local power state
          entry_point,           \* CPU node: entry point of the next boot
          local_state,           \* non-CPU node: local power state
          requested_states,      \* non-CPU node: platform-coordinated votes
          suspend_states,        \* non-CPU node: OS-initiated votes
          non_cpu_states,        \* non-CPU node: copies of children's states
          cpu_lock,              \* owner of each CPU node's SpinMutex
          node_lock              \* owner of each non-CPU node's SpinMutex

cpuNodeVars == <<affinity_info, cpu_local_state, entry_point>>
nodeVars == <<local_state, requested_states, suspend_states, non_cpu_states>>
lockVars == <<cpu_lock, node_lock>>

TreeTypeOK ==
  /\ affinity_info \in [CPU -> {"Off", "OnPending", "On"}]
  /\ cpu_local_state \in [CPU -> PowerState]
  /\ entry_point \in [CPU -> EntryPoint \cup {NoEntry}]
  /\ local_state \in [NODE -> PowerState]
  /\ requested_states \in [NODE -> [CPU -> PowerState]]
  /\ suspend_states \in [NODE -> [CPU -> PowerState \cup {NONE}]]
  /\ non_cpu_states \in [NODE -> [NODE -> PowerState]]
  /\ cpu_lock \in [CPU -> CPU \cup {NONE}]
  /\ node_lock \in [NODE -> CPU \cup {NONE}]

-----------------------------------------------------------------------------
(* The shape of the tree.                                                  *)

Ancestors == [c \in CPU |-> {Ancestor[c][l] : l \in Level}]
Cpus == [n \in NODE |-> {c \in CPU : n \in Ancestors[c]}]
Children ==
  [n \in NODE |-> {m \in NODE : \E c \in CPU : \E l \in Level \ {1} :
                     Ancestor[c][l] = n /\ Ancestor[c][l - 1] = m}]

-----------------------------------------------------------------------------
(* Initial state and locks.                                                *)

\* The primary core runs Psci::new before any other core is started: every
\* node starts OFF and the primary's path is set running.
TreeInit(primary) ==
  /\ affinity_info = [c \in CPU |-> IF c = primary THEN "On" ELSE "Off"]
  /\ cpu_local_state = [c \in CPU |-> IF c = primary THEN RUN ELSE OFF]
  /\ entry_point = [c \in CPU |-> NoEntry]
  /\ local_state =
       [n \in NODE |-> IF n \in Ancestors[primary] THEN RUN ELSE OFF]
  /\ requested_states =
       [n \in NODE |-> [c \in CPU |->
          IF c = primary /\ n \in Ancestors[primary] THEN RUN ELSE OFF]]
  /\ suspend_states = [n \in NODE |-> [c \in CPU |-> NONE]]
  /\ non_cpu_states =
       [n \in NODE |-> [m \in NODE |->
          IF {n, m} \subseteq Ancestors[primary] /\ m \in Children[n]
          THEN RUN ELSE OFF]]
  /\ cpu_lock = [c \in CPU |-> NONE]
  /\ node_lock = [n \in NODE |-> NONE]

LockCpuNode(c, target) ==
  /\ cpu_lock[target] = NONE
  /\ cpu_lock' = [cpu_lock EXCEPT ![target] = c]

LockNode(c, n) ==
  /\ node_lock[n] = NONE
  /\ node_lock' = [node_lock EXCEPT ![n] = c]

\* Dropping AncestorPowerDomains and the CPU guard at the end of a handler.
\* Releasing is a left mover, so one step stands for the sequence.
UnlockAll(c) ==
  /\ cpu_lock' = [d \in CPU |-> IF cpu_lock[d] = c THEN NONE ELSE cpu_lock[d]]
  /\ node_lock' =
       [n \in NODE |-> IF node_lock[n] = c THEN NONE ELSE node_lock[n]]

-----------------------------------------------------------------------------
(* Operations on one locked non-CPU node.                                  *)

\* The vote a CPU has on a node: a platform-coordinated request, or else an
\* OS-initiated one, or else RUN.
OsiVote(n, c) ==
  IF requested_states[n][c] # RUN THEN requested_states[n][c]
  ELSE IF suspend_states[n][c] # NONE THEN suspend_states[n][c] ELSE RUN

\* The assertion inside get_osi_minimal_allowed_state_without_core.
OsiVotesConsistent(n, c) ==
  \A d \in Cpus[n] \ {c} :
    requested_states[n][d] # RUN => suspend_states[n][d] = NONE

\* Mutant: the votes of the other CPUs are not looked at.
OsiMinimumIgnoringVotes(n, c, child) ==
  IF child = NONE THEN OFF
  ELSE Min({OFF} \cup {non_cpu_states[n][m] : m \in Children[n] \ {child}})

\* `child` is the caller's child node below n, or NONE when n is level 1.
get_osi_minimal_allowed_state_without_core(n, c, child) ==
  Min({OFF} \cup {OsiVote(n, d) : d \in Cpus[n] \ {c}}
            \cup (IF child = NONE THEN {}
                  ELSE {non_cpu_states[n][m] : m \in Children[n] \ {child}}))

is_last_cpu_to_idle(n, c, child) ==
  get_osi_minimal_allowed_state_without_core(n, c, child) # RUN

\* Mutant: the deepest request wins.
DeepestRequest(n, requests) == Max({requests[c] : c \in Cpus[n]})

\* set_minimal_allowed_state: the shallowest of the requests, given as a
\* function so that it can be applied to the request just written.
minimal_allowed_state(n, requests) == Min({requests[c] : c \in Cpus[n]})

ChildAt(c, l) == IF l = 1 THEN NONE ELSE Ancestor[c][l - 1]

\* AncestorPowerDomains::is_last_cpu_to_idle_at_power_level.
is_last_cpu_to_idle_at_power_level(c, l) ==
  l > 0 => is_last_cpu_to_idle(Ancestor[c][l], c, ChildAt(c, l))

\* set_non_cpu_state on the node at level l for the caller's child below it.
CopyChildState(c, l, state) ==
  non_cpu_states' =
    IF l = 1 THEN non_cpu_states
    ELSE [non_cpu_states EXCEPT ![Ancestor[c][l]][Ancestor[c][l - 1]] = state]

\* Mutants: the request stays; the node's own state is only reset in the CPU's
\* parent; the copy of the child's state is missing.
RequestKept(c, l) ==
  LET n == Ancestor[c][l]
  IN  /\ suspend_states' = [suspend_states EXCEPT ![n][c] = NONE]
      /\ local_state' = [local_state EXCEPT ![n] = RUN]
      /\ CopyChildState(c, l, RUN)
      /\ UNCHANGED requested_states

ParentOnly(c, l) ==
  LET n == Ancestor[c][l]
  IN  /\ requested_states' = [requested_states EXCEPT ![n][c] = RUN]
      /\ suspend_states' = [suspend_states EXCEPT ![n][c] = NONE]
      /\ local_state' = IF l > 1 THEN local_state
                        ELSE [local_state EXCEPT ![n] = RUN]
      /\ CopyChildState(c, l, RUN)

ChildNotCopied(c, l) ==
  LET n == Ancestor[c][l]
  IN  /\ requested_states' = [requested_states EXCEPT ![n][c] = RUN]
      /\ suspend_states' = [suspend_states EXCEPT ![n][c] = NONE]
      /\ local_state' = [local_state EXCEPT ![n] = RUN]
      /\ UNCHANGED non_cpu_states

\* One iteration of AncestorPowerDomains::set_running.
SetRunningAt(c, l) ==
  LET n == Ancestor[c][l]
  IN  /\ requested_states' = [requested_states EXCEPT ![n][c] = RUN]
      /\ suspend_states' = [suspend_states EXCEPT ![n][c] = NONE]
      /\ local_state' = [local_state EXCEPT ![n] = RUN]
      /\ CopyChildState(c, l, RUN)
=============================================================================
