--------------------------- MODULE PsciTreeWrites ---------------------------
(***************************************************************************)
(* The steps that write the nodes of the tree keep TreeInv.  Only four     *)
(* actions do, each writes one node its core has locked, and every write   *)
(* but SetRunning deepens a node that was running.                         *)
(***************************************************************************)
EXTENDS PsciProofs

\* Leaves go to Zenon unless they name another prover.
USE ZenonT(40)

-----------------------------------------------------------------------------
(* Levels, nodes and numbers.                                              *)

\* Below an upper level there is another one.
LEMMA UpperLevel ==
  ASSUME NEW l \in Upper
  PROVE  /\ l \in Level /\ l - 1 \in Level /\ l \in Nat /\ l > 1
         /\ l - 1 \in Nat /\ l - 1 < l /\ l - 1 # l
BY TreeAssumption, SMTT(40) DEF Upper, Level

\* Levels are numbers and can be used as indices of composite states.
LEMMA LevelIndex ==
  /\ \A l \in Level : l \in Levels /\ l - 1 \in Levels
  /\ \A l \in Level : l # 1 => l \in Upper
BY TreeAssumption, SMTT(40) DEF Levels, Level, Upper

\* CPUs that share a node share everything above it.
LEMMA SharedAbove ==
  ASSUME NEW c \in CPU, NEW d \in CPU, NEW k \in Level, NEW l \in Level, k <= l,
         Ancestor[c][k] = Ancestor[d][k]
  PROVE  Ancestor[c][l] = Ancestor[d][l]
BY TreeAssumption, LevelNat, SMTT(40)

\* What the nodes hold are numbers.
NodeNumbers ==
  /\ \A n \in NODE : local_state[n] \in Nat
  /\ \A n \in NODE, d \in CPU : requested_states[n][d] \in Nat
  /\ \A n \in NODE, m \in NODE : non_cpu_states[n][m] \in Nat
  /\ \A c \in CPU, k \in Levels : states[c][k] \in Nat

\* Power states, kept in nodes or in a call, are numbers.
LEMMA NodeNat == TypeOK => NodeNumbers
<1>1. PowerState \subseteq Nat
  BY Constants
<1> QED
  BY <1>1 DEF TypeOK, TreeTypeOK, NodeNumbers

\* Also in the next state.
LEMMA NodeNatNext == (TypeOK => NodeNumbers)'
BY NodeNat, PTL

\* The CPUs below a node, by level.
LEMMA CpusAt ==
  ASSUME NEW c \in CPU, NEW l \in Level, NEW d
  PROVE  d \in Cpus[Ancestor[c][l]] <=>
           d \in CPU /\ Ancestor[d][l] = Ancestor[c][l]
<1>1. Ancestor[c][l] \in NODE
  BY Ancestry
<1>2. d \in Cpus[Ancestor[c][l]] <=>
        d \in CPU /\ \E k \in Level : Ancestor[c][l] = Ancestor[d][k]
  BY <1>1 DEF Cpus, Ancestors
<1>3. ASSUME d \in CPU, NEW k \in Level, Ancestor[c][l] = Ancestor[d][k]
      PROVE  Ancestor[d][l] = Ancestor[c][l]
  BY <1>3, SameLevel
<1> QED
  BY <1>2, <1>3

\* The minimum of the requests is one of them.
LEMMA MinimumAttained ==
  ASSUME NEW c \in CPU, NEW l \in Level, NEW requests \in [CPU -> PowerState]
  PROVE  \E d \in Cpus[Ancestor[c][l]] :
           requests[d] = minimal_allowed_state(Ancestor[c][l], requests)
<1> DEFINE n == Ancestor[c][l]
           S == {requests[d] : d \in Cpus[n]}
<1>1. n \in NODE /\ c \in Cpus[n] /\ Cpus[n] \subseteq CPU
  BY Ancestry, Below
<1>2. requests[c] \in S /\ S \subseteq PowerState /\ PowerState \subseteq Nat
  BY <1>1, Constants
<1>3. Min(S) \in S
  BY <1>2, MinNat
<1> QED
  BY <1>3 DEF minimal_allowed_state

-----------------------------------------------------------------------------
(* The writes.                                                             *)

\* Core c writes its ancestor at level l, which it has locked: its own votes,
\* the node's state and the node's copy of the child's state on c's path.
Writes(c, l) ==
  /\ l = level[c] /\ l <= lock_to[c] /\ node_lock[Ancestor[c][l]] = c
  /\ UNCHANGED <<pc, call, lock_to, node_lock>> /\ level'[c] = l + 1
  /\ \A d \in CPU \ {c} : level'[d] = level[d] /\ states'[d] = states[d]
  /\ \A n \in NODE : n # Ancestor[c][l] =>
       local_state'[n] = local_state[n] /\ non_cpu_states'[n] = non_cpu_states[n]
  /\ \A n \in NODE, d \in CPU : n # Ancestor[c][l] \/ d # c =>
       /\ requested_states'[n][d] = requested_states[n][d]
       /\ suspend_states'[n][d] = suspend_states[n][d]
  /\ \A m \in NODE : l = 1 \/ m # Ancestor[c][l - 1] =>
       non_cpu_states'[Ancestor[c][l]][m] = non_cpu_states[Ancestor[c][l]][m]

\* The copy of the child's state is the only one CopyChildState changes.
CopiesOnly(c, l, s) ==
  /\ \A n \in NODE : n # Ancestor[c][l] =>
       non_cpu_states'[n] = non_cpu_states[n]
  /\ \A m \in NODE : l = 1 \/ m # Ancestor[c][l - 1] =>
       non_cpu_states'[Ancestor[c][l]][m] = non_cpu_states[Ancestor[c][l]][m]
  /\ l # 1 => non_cpu_states'[Ancestor[c][l]][Ancestor[c][l - 1]] = s

\* CopyChildState writes at most the parent's copy of one child.
LEMMA CopyEffect ==
  ASSUME TypeOK, NEW c \in CPU, NEW l \in Level, NEW s, CopyChildState(c, l, s)
  PROVE  CopiesOnly(c, l, s)
<1>1. non_cpu_states \in [NODE -> [NODE -> PowerState]]
  BY DEF TypeOK, TreeTypeOK
<1>2. CASE l = 1
  BY <1>2 DEF CopyChildState, CopiesOnly
<1>3. CASE l # 1
  <2>1. PICK n \in NODE : n = Ancestor[c][l]
    BY Ancestry
  <2>2. PICK m \in NODE : m = Ancestor[c][l - 1]
    BY <1>3, LevelIndex, UpperLevel, Ancestry
  <2>3. non_cpu_states' = [non_cpu_states EXCEPT ![n][m] = s]
    BY <1>3, <2>1, <2>2 DEF CopyChildState
  <2>4. /\ \A k \in NODE \ {n} : non_cpu_states'[k] = non_cpu_states[k]
        /\ \A k \in NODE \ {m} : non_cpu_states'[n][k] = non_cpu_states[n][k]
        /\ non_cpu_states'[n][m] = s
    BY <1>1, <2>3
  <2> QED
    BY <1>3, <2>1, <2>2, <2>4 DEF CopiesOnly
<1> QED
  BY <1>2, <1>3

\* coordinate_state: the request is written, and the node runs on because a
\* level below it does, or goes as deep as the requests allow.
Coordinates(c, l) ==
  /\ Writes(c, l) /\ pc[c] = "coordinate"
  /\ VotesRun(c, l) /\ local_state[Ancestor[c][l]] = RUN
  /\ requested_states'[Ancestor[c][l]][c] = states[c][l]
  /\ suspend_states' = suspend_states
  /\ \A k \in Levels : k # l => states'[c][k] = states[c][k]
  /\ \/ /\ l \in Upper /\ states[c][l - 1] = RUN
        /\ local_state'[Ancestor[c][l]] = RUN /\ states'[c][l] = RUN
     \/ /\ local_state'[Ancestor[c][l]] =
             minimal_allowed_state(Ancestor[c][l],
                                   requested_states'[Ancestor[c][l]])
        /\ states'[c][l] = local_state'[Ancestor[c][l]]
  /\ l \in Upper => non_cpu_states'[Ancestor[c][l]][Ancestor[c][l - 1]]
                     = states[c][l - 1]

\* CoordinateLevel works on one node of its core's path, as Coordinates says.
LEMMA CoordinateEffect ==
  ASSUME TypeOK, VotesRespected, NEW c \in CPU, CoreInv(c), CoordinateLevel(c)
  PROVE  \E l \in Level : Coordinates(c, l)
<1>1. PICK n \in NODE, l \in Level :
        n = NodeAt(c) /\ l = level[c] /\ n = Ancestor[c][l]
        /\ pc[c] = "coordinate" /\ l <= lock_to[c]
  BY LoopLevel DEF CoordinateLevel, Critical, CoreInv
<1>2. node_lock[n] = c
  BY <1>1 DEF CoreInv, LockInv, Critical
<1>3. VotesRun(c, l) /\ local_state[n] = RUN
  <2>1. VotesRun(c, l)
    <3>1. l >= level[c]
      BY <1>1, LevelNat, SMTT(40)
    <3> QED
      BY <1>1, <3>1 DEF CoreInv, VoteInv
  <2> QED
    BY <1>1, <2>1, RunVote
<1> DEFINE requests == [requested_states[n] EXCEPT ![c] = states[c][l]]
           run == l > 1 /\ states[c][l - 1] = RUN
           coordinated == IF run THEN RUN ELSE minimal_allowed_state(n, requests)
<1>4. /\ requested_states' = [requested_states EXCEPT ![n] = requests]
      /\ local_state' = IF run THEN local_state
                        ELSE [local_state EXCEPT ![n] = coordinated]
      /\ states' = [states EXCEPT ![c][l] = coordinated]
      /\ CopyChildState(c, l, states[c][l - 1])
      /\ level' = [level EXCEPT ![c] = l + 1]
      /\ UNCHANGED <<suspend_states, node_lock, call, pc, lock_to>>
  BY <1>1 DEF CoordinateLevel, AtLevel, lockVars
<1>5. /\ requested_states'[n] = requests /\ requests[c] = states[c][l]
      /\ \A d \in CPU \ {c} : requests[d] = requested_states[n][d]
      /\ \A m \in NODE \ {n} : requested_states'[m] = requested_states[m]
  <2>1. requested_states \in [NODE -> [CPU -> PowerState]]
    BY DEF TypeOK, TreeTypeOK
  <2> QED
    BY <1>1, <1>4, <2>1
<1>6. l \in Levels /\ (run => l \in Upper) /\ (l \in Upper => l # 1)
  BY LevelIndex, LevelNat, SMTT(40) DEF Upper
<1>7. /\ \A d \in CPU \ {c} : states'[d] = states[d] /\ level'[d] = level[d]
      /\ \A k \in Levels : k # l => states'[c][k] = states[c][k]
      /\ states'[c][l] = coordinated /\ level'[c] = l + 1
  <2>1. states \in [CPU -> [Levels -> PowerState]] /\ level \in [CPU -> Nat]
    BY DEF TypeOK
  <2> HIDE DEF coordinated
  <2> QED
    BY <1>4, <1>6, <2>1
<1>8. /\ \A m \in NODE \ {n} : local_state'[m] = local_state[m]
      /\ run => local_state'[n] = RUN
      /\ ~run => local_state'[n] = coordinated
  BY <1>3, <1>4 DEF TypeOK, TreeTypeOK
<1>9. CopyChildState(c, l, states[c][l - 1])
      /\ UNCHANGED <<suspend_states, node_lock, call, pc, lock_to>>
  BY <1>4
<1> HIDE DEF requests, run, coordinated
<1>10. /\ \A m \in NODE : m # n => non_cpu_states'[m] = non_cpu_states[m]
       /\ \A m \in NODE : l = 1 \/ m # Ancestor[c][l - 1] =>
            non_cpu_states'[n][m] = non_cpu_states[n][m]
       /\ l # 1 => non_cpu_states'[n][Ancestor[c][l - 1]] = states[c][l - 1]
  <2>1. CopiesOnly(c, l, states[c][l - 1])
    BY <1>9, CopyEffect
  <2> QED
    BY <1>1, <2>1 DEF CopiesOnly
<1>11. Writes(c, l)
  <2>1. \A m \in NODE : m # n => /\ local_state'[m] = local_state[m]
                                 /\ non_cpu_states'[m] = non_cpu_states[m]
    BY <1>8, <1>10
  <2>2. \A m \in NODE, d \in CPU : m # n \/ d # c =>
          requested_states'[m][d] = requested_states[m][d]
    BY <1>5
  <2>3. \A m \in NODE, d \in CPU : m # n \/ d # c =>
          /\ requested_states'[m][d] = requested_states[m][d]
          /\ suspend_states'[m][d] = suspend_states[m][d]
    BY <1>9, <2>2
  <2>4. \A d \in CPU \ {c} : level'[d] = level[d] /\ states'[d] = states[d]
    BY <1>7
  <2>5. \A m \in NODE : l = 1 \/ m # Ancestor[c][l - 1] =>
          non_cpu_states'[n][m] = non_cpu_states[n][m]
    BY <1>10
  <2>6. /\ l = level[c] /\ l <= lock_to[c] /\ node_lock[n] = c
        /\ UNCHANGED <<pc, call, lock_to, node_lock>> /\ level'[c] = l + 1
        /\ n = Ancestor[c][l]
    BY <1>1, <1>2, <1>7, <1>9
  <2> QED
    BY <2>1, <2>3, <2>4, <2>5, <2>6, SMTT(40) DEF Writes
<1>12. /\ requested_states'[n][c] = states[c][l]
       /\ l \in Upper =>
            non_cpu_states'[n][Ancestor[c][l - 1]] = states[c][l - 1]
  BY <1>5, <1>6, <1>10
<1>13. \/ /\ l \in Upper /\ states[c][l - 1] = RUN
          /\ local_state'[n] = RUN /\ states'[c][l] = RUN
       \/ /\ local_state'[n] = minimal_allowed_state(n, requested_states'[n])
          /\ states'[c][l] = local_state'[n]
  <2>1. CASE run
    <3>1. l \in Upper /\ states[c][l - 1] = RUN
      BY <1>6, <2>1 DEF run
    <3>2. coordinated = RUN
      BY <2>1 DEF coordinated
    <3> QED
      BY <1>7, <1>8, <2>1, <3>1, <3>2
  <2>2. CASE ~run
    <3>1. coordinated = minimal_allowed_state(n, requests)
      BY <2>2 DEF coordinated
    <3> QED
      BY <1>5, <1>7, <1>8, <2>2, <3>1
  <2> QED
    BY <2>1, <2>2
<1> QED
  BY <1>1, <1>3, <1>7, <1>9, <1>11, <1>12, <1>13 DEF Coordinates

\* apply_coordinated_state_to_power_domain_tree, the votes.
Applies(c, l) ==
  /\ Writes(c, l) /\ pc[c] = "votes" /\ VotesRun(c, l)
  /\ UNCHANGED <<local_state, requested_states, non_cpu_states, states>>

\* ApplyVote works on one node of its core's path, as Applies says.
LEMMA ApplyEffect ==
  ASSUME TypeOK, NEW c \in CPU, CoreInv(c), ApplyVote(c)
  PROVE  \E l \in Level : Applies(c, l)
<1>1. PICK n \in NODE, l \in Level :
        n = NodeAt(c) /\ l = level[c] /\ n = Ancestor[c][l]
        /\ pc[c] = "votes" /\ l <= lock_to[c]
  BY LoopLevel DEF ApplyVote, Critical, CoreInv
<1>2. node_lock[n] = c
  BY <1>1 DEF CoreInv, LockInv, Critical
<1>3. VotesRun(c, l)
  <2>1. l >= level[c]
    BY <1>1, LevelNat, SMTT(40)
  <2> QED
    BY <1>1, <2>1 DEF CoreInv, VoteInv
<1>4. PICK v : v = resolved_state(c)[l]
  OBVIOUS
<1>5. /\ suspend_states' = [suspend_states EXCEPT ![n][c] = v]
      /\ level' = [level EXCEPT ![c] = l + 1]
      /\ UNCHANGED <<local_state, requested_states, non_cpu_states, node_lock,
                     call, pc, lock_to, states>>
  BY <1>1, <1>4 DEF ApplyVote, AtLevel, lockVars
<1>6. \A m \in NODE, d \in CPU : m # n \/ d # c =>
        suspend_states'[m][d] = suspend_states[m][d]
  <2>1. suspend_states \in [NODE -> [CPU -> PowerState \cup {NONE}]]
    BY DEF TypeOK, TreeTypeOK
  <2> QED
    BY <1>5, <2>1
<1>7. level'[c] = l + 1 /\ \A d \in CPU \ {c} : level'[d] = level[d]
  BY <1>5 DEF TypeOK
<1>8. Writes(c, l)
  BY <1>1, <1>2, <1>5, <1>6, <1>7 DEF Writes
<1> QED
  BY <1>1, <1>3, <1>5, <1>8 DEF Applies

\* apply_coordinated_state_to_power_domain_tree, the local states.
SetsLocal(c, l) ==
  /\ Writes(c, l) /\ pc[c] = "local" /\ l <= call[c].highest + 1
  /\ UNCHANGED <<requested_states, suspend_states, states>>
  /\ local_state'[Ancestor[c][l]] = IF l <= call[c].highest THEN states[c][l]
                                    ELSE local_state[Ancestor[c][l]]
  /\ l \in Upper => non_cpu_states'[Ancestor[c][l]][Ancestor[c][l - 1]]
                     = states[c][l - 1]

\* set_nodes_from_local_states works on one node of its core's path.
LEMMA LocalEffect ==
  ASSUME TypeOK, NEW c \in CPU, CoreInv(c), set_nodes_from_local_states(c)
  PROVE  \E l \in Level : SetsLocal(c, l)
<1>1. PICK n \in NODE, l \in Level :
        n = NodeAt(c) /\ l = level[c] /\ n = Ancestor[c][l]
        /\ pc[c] = "local" /\ l <= lock_to[c] /\ l <= call[c].highest + 1
  BY LoopLevel DEF set_nodes_from_local_states, Critical, CoreInv
<1>2. node_lock[n] = c
  BY <1>1 DEF CoreInv, LockInv, Critical
<1>3. /\ local_state' = IF l > call[c].highest THEN local_state
                        ELSE [local_state EXCEPT ![n] = states[c][l]]
      /\ CopyChildState(c, l, states[c][l - 1])
      /\ level' = [level EXCEPT ![c] = l + 1]
      /\ UNCHANGED <<requested_states, suspend_states, node_lock, call, pc,
                     lock_to, states>>
  BY <1>1 DEF set_nodes_from_local_states, AtLevel, lockVars
<1>4. level'[c] = l + 1 /\ \A d \in CPU \ {c} : level'[d] = level[d]
  BY <1>3 DEF TypeOK
<1>5. \A m \in NODE : m # n => local_state'[m] = local_state[m]
  BY <1>3 DEF TypeOK, TreeTypeOK
<1>6. local_state'[n] = IF l <= call[c].highest THEN states[c][l]
                        ELSE local_state[n]
  <2>1. l <= call[c].highest <=> ~(l > call[c].highest)
    BY CoreNat, LevelNat, SMTT(40)
  <2> QED
    BY <1>3, <2>1 DEF TypeOK, TreeTypeOK
<1>7. CopiesOnly(c, l, states[c][l - 1])
  BY <1>3, CopyEffect
<1>8. Writes(c, l)
  BY <1>1, <1>2, <1>3, <1>4, <1>5, <1>7 DEF Writes, CopiesOnly
<1>9. l \in Upper => l # 1
  BY DEF Upper
<1> QED
  BY <1>1, <1>3, <1>6, <1>7, <1>8, <1>9 DEF CopiesOnly, SetsLocal

\* set_running.
Runs(c, l) ==
  /\ Writes(c, l) /\ pc[c] = "run" /\ states' = states
  /\ local_state'[Ancestor[c][l]] = RUN
  /\ requested_states'[Ancestor[c][l]][c] = RUN
  /\ suspend_states'[Ancestor[c][l]][c] = NONE
  /\ l \in Upper => non_cpu_states'[Ancestor[c][l]][Ancestor[c][l - 1]] = RUN

\* SetRunning works on one node of its core's path, as Runs says.
LEMMA RunningEffect ==
  ASSUME TypeOK, NEW c \in CPU, CoreInv(c), SetRunning(c)
  PROVE  \E l \in Level : Runs(c, l)
<1>1. PICK n \in NODE, l \in Level :
        n = NodeAt(c) /\ l = level[c] /\ n = Ancestor[c][l]
        /\ pc[c] = "run" /\ l <= lock_to[c]
  BY LoopLevel DEF SetRunning, Critical, CoreInv
<1>2. node_lock[n] = c
  BY <1>1 DEF CoreInv, LockInv, Critical
<1>3. /\ requested_states' = [requested_states EXCEPT ![n][c] = RUN]
      /\ suspend_states' = [suspend_states EXCEPT ![n][c] = NONE]
      /\ local_state' = [local_state EXCEPT ![n] = RUN]
      /\ CopyChildState(c, l, RUN)
      /\ level' = [level EXCEPT ![c] = l + 1]
      /\ UNCHANGED <<node_lock, call, pc, lock_to, states>>
  BY <1>1 DEF SetRunning, SetRunningAt, AtLevel, lockVars
<1>4. level'[c] = l + 1 /\ \A d \in CPU \ {c} : level'[d] = level[d]
  BY <1>3 DEF TypeOK
<1>5. /\ \A m \in NODE : m # n => local_state'[m] = local_state[m]
      /\ local_state'[n] = RUN
  BY <1>3 DEF TypeOK, TreeTypeOK
<1>6. /\ \A m \in NODE, d \in CPU : m # n \/ d # c =>
           requested_states'[m][d] = requested_states[m][d]
      /\ requested_states'[n][c] = RUN
  <2>1. requested_states \in [NODE -> [CPU -> PowerState]]
    BY DEF TypeOK, TreeTypeOK
  <2> QED
    BY <1>3, <2>1
<1>7. /\ \A m \in NODE, d \in CPU : m # n \/ d # c =>
           suspend_states'[m][d] = suspend_states[m][d]
      /\ suspend_states'[n][c] = NONE
  <2>1. suspend_states \in [NODE -> [CPU -> PowerState \cup {NONE}]]
    BY DEF TypeOK, TreeTypeOK
  <2> QED
    BY <1>3, <2>1
<1>8. CopiesOnly(c, l, RUN)
  BY <1>3, CopyEffect
<1>9. Writes(c, l)
  <2>1. \A m \in NODE : m # n => /\ local_state'[m] = local_state[m]
                                 /\ non_cpu_states'[m] = non_cpu_states[m]
    BY <1>1, <1>5, <1>8 DEF CopiesOnly
  <2>2. \A m \in NODE, d \in CPU : m # n \/ d # c =>
          /\ requested_states'[m][d] = requested_states[m][d]
          /\ suspend_states'[m][d] = suspend_states[m][d]
    BY <1>6, <1>7
  <2>3. \A m \in NODE : l = 1 \/ m # Ancestor[c][l - 1] =>
          non_cpu_states'[n][m] = non_cpu_states[n][m]
    BY <1>1, <1>8 DEF CopiesOnly
  <2>4. /\ l = level[c] /\ l <= lock_to[c] /\ node_lock[n] = c
        /\ UNCHANGED <<pc, call, lock_to, node_lock>> /\ level'[c] = l + 1
        /\ n = Ancestor[c][l]
    BY <1>1, <1>2, <1>3, <1>4
  <2>5. \A d \in CPU \ {c} : level'[d] = level[d] /\ states'[d] = states[d]
    BY <1>3, <1>4
  <2> QED
    BY <2>1, <2>2, <2>3, <2>4, <2>5, SMTT(40) DEF Writes
<1>10. l \in Upper => l # 1
  BY DEF Upper
<1> QED
  BY <1>1, <1>3, <1>5, <1>6, <1>7, <1>8, <1>9, <1>10 DEF CopiesOnly, Runs

-----------------------------------------------------------------------------
(* A write, and the other cores.                                           *)

\* No other core can be setting a node running that a core has locked.
LEMMA NotRaising ==
  ASSUME NEW c \in CPU, NEW d \in CPU, ControlInv(d), LockInv(d),
         NEW l \in Level, Raising(d, l), NEW k \in Level, l <= k,
         node_lock[Ancestor[d][k]] = c
  PROVE  d = c
<1>1. lock_to[d] = MAX_POWER_LEVEL
  BY DEF ControlInv, Critical, Raising
<1>2. k <= lock_to[d]
  BY <1>1, LevelNat
<1> QED
  BY <1>2 DEF LockInv, Critical, Raising

-----------------------------------------------------------------------------
(* A write, and the order of parents and children.                         *)

\* The node at level l above CPU d and its child at level l - 1 are in order.
Ordered(d, l) ==
  /\ local_state[Ancestor[d][l]] <= local_state[Ancestor[d][l - 1]]
  /\ non_cpu_states[Ancestor[d][l]][Ancestor[d][l - 1]]
       <= local_state[Ancestor[d][l - 1]]

\* Some core is putting that child back.
BeingRaised(d, l) ==
  \E e \in CPU : /\ Ancestor[e][l] = Ancestor[d][l]
                 /\ Ancestor[e][l - 1] = Ancestor[d][l - 1] /\ Raising(e, l)

\* A core that has locked a node knows that its children are in order, but for
\* the one it may be putting back itself.
LEMMA LockedInOrder ==
  ASSUME IInv, TreeInv, NEW c \in CPU, NEW d \in CPU, NEW l \in Upper,
         Ancestor[d][l] = Ancestor[c][l], node_lock[Ancestor[c][l]] = c,
         ~Raising(c, l)
  PROVE  Ordered(d, l) /\ requested_states[Ancestor[d][l]][d]
                            <= requested_states[Ancestor[d][l - 1]][d]
<1>1. l \in Level /\ l <= l
  BY UpperLevel, LevelNat, SMTT(40)
<1>2. ASSUME NEW e \in CPU, Ancestor[e][l] = Ancestor[c][l], Raising(e, l)
      PROVE  FALSE
  <2>1. ControlInv(e) /\ LockInv(e)
    BY DEF IInv, CoreInv
  <2>2. node_lock[Ancestor[e][l]] = c
    BY <1>2
  <2>3. e = c
    BY <1>1, <1>2, <2>1, <2>2, NotRaising
  <2> QED
    BY <1>2, <2>3
<1>3. PathInv(d, l)
  BY DEF TreeInv
<1> QED
  BY <1>2, <1>3 DEF PathInv, Ordered

\* A core that writes does not start or stop putting a child back, unless that
\* is what it does.
LEMMA WriteRaises ==
  ASSUME NEW c \in CPU, NEW l \in Level, Writes(c, l), pc[c] # "run"
  PROVE  \A e \in CPU, k \in Level : Raising(e, k)' <=> Raising(e, k)
<1>1. pc' = pc /\ \A e \in CPU \ {c} : level'[e] = level[e]
  BY DEF Writes
<1> QED
  BY <1>1 DEF Raising

\* It keeps the order if it deepens a running node and no further than the
\* node's children are.
LEMMA WritePath ==
  ASSUME TypeOK, TypeOK', NEW c \in CPU, NEW l \in Level, Writes(c, l),
         pc[c] # "run", local_state[Ancestor[c][l]] = RUN,
         NEW d \in CPU, NEW k \in Upper, PathInv(d, k),
         k = l /\ Ancestor[d][l] = Ancestor[c][l] => Ordered(d, k)',
         d = c => requested_states'[Ancestor[c][k]][c]
                    <= requested_states'[Ancestor[c][k - 1]][c]
  PROVE  PathInv(d, k)'
<1>1. k \in Level /\ k - 1 \in Level /\ k - 1 # k
  BY UpperLevel
<1>2. PICK n \in NODE, m \in NODE : n = Ancestor[d][k] /\ m = Ancestor[d][k - 1]
  BY <1>1, Ancestry
<1>3. \A e \in CPU : Raising(e, k)' <=> Raising(e, k)
  BY <1>1, WriteRaises
<1>4. Raising(d, k)' \/ requested_states'[n][d] <= requested_states'[m][d]
  <2>1. CASE d = c
    BY <1>2, <2>1
  <2>2. CASE d # c
    BY <1>2, <1>3, <2>2 DEF Writes, PathInv
  <2> QED
    BY <2>1, <2>2
<1>5. CASE BeingRaised(d, k)
  <2>1. BeingRaised(d, k)'
    BY <1>3, <1>5 DEF BeingRaised
  <2> QED
    BY <1>2, <1>4, <2>1 DEF PathInv, BeingRaised
<1>6. CASE ~BeingRaised(d, k)
  <2>1. local_state[n] <= local_state[m] /\ non_cpu_states[n][m] <= local_state[m]
    BY <1>2, <1>6 DEF PathInv, BeingRaised
  <2>2. CASE n = Ancestor[c][l]
    <3>1. k = l
      BY <1>1, <1>2, <2>2, SameLevel
    <3>2. Ordered(d, k)'
      BY <1>2, <2>2, <3>1
    <3> QED
      BY <1>2, <1>4, <3>2 DEF PathInv, Ordered
  <2>3. CASE n # Ancestor[c][l]
    <3>1. local_state'[n] = local_state[n] /\ non_cpu_states'[n] = non_cpu_states[n]
      BY <2>3 DEF Writes
    <3>2. local_state[m] <= local_state'[m]
      <4>1. local_state'[m] \in Nat /\ local_state[m] \in Nat
        BY NodeNat, NodeNatNext DEF NodeNumbers
      <4>2. local_state'[m] = local_state[m] \/ local_state[m] = 0
        BY DEF Writes, RUN
      <4> QED
        BY <4>1, <4>2, SMTT(40)
    <3>3. /\ local_state[n] \in Nat /\ local_state[m] \in Nat
          /\ local_state'[m] \in Nat /\ non_cpu_states[n][m] \in Nat
      BY NodeNat, NodeNatNext DEF NodeNumbers
    <3>4. local_state'[n] <= local_state'[m] /\ non_cpu_states'[n][m] <= local_state'[m]
      BY <2>1, <3>1, <3>2, <3>3, SMTT(40)
    <3> QED
      BY <1>2, <1>4, <3>4 DEF PathInv
  <2> QED
    BY <2>2, <2>3
<1> QED
  BY <1>5, <1>6

\* The invariant of the tree, from its parts.
LEMMA TreeFromWrite ==
  ASSUME IInv, TypeOK', TreeInv, NEW c \in CPU, NEW l \in Level, Writes(c, l),
         pc[c] = "run"
           \/ local_state[Ancestor[c][l]] <= local_state'[Ancestor[c][l]],
         CompositeInv(c)', AppliedInv(c)', ChildrenInv(c)', OneKind(c)',
         \A d \in CPU, k \in Upper : PathInv(d, k)',
         \E e \in Cpus[Ancestor[c][l]] : requested_states'[Ancestor[c][l]][e]
                                           <= local_state'[Ancestor[c][l]]
  PROVE  TreeInv'
\* The composite state of another core, and its votes.
<1>WriteComposite.
  ASSUME NEW d \in CPU \ {c}, CompositeInv(d), OneKind(d)
  PROVE  CompositeInv(d)' /\ OneKind(d)'
  <2> USE <1>WriteComposite
  <2>1. /\ pc'[d] = pc[d] /\ call'[d] = call[d] /\ level'[d] = level[d]
        /\ states'[d] = states[d]
    BY DEF Writes
  <2>2. \A n \in NODE : /\ requested_states'[n][d] = requested_states[n][d]
                        /\ suspend_states'[n][d] = suspend_states[n][d]
    BY DEF Writes
  <2>3. OneKind(d)'
    BY <2>2, Ancestry DEF OneKind
  <2>4. Descending(states[d], 0) => Descending(states[d], 0)'
    BY <2>1 DEF Descending
  <2>5. Descending(states[d], level[d]) => Descending(states[d], level[d])'
    BY <2>1 DEF Descending
  <2>6. level[d] \in Upper => Ancestor[d][level[d] - 1] \in NODE
    BY UpperLevel, Ancestry
  <2> QED
    BY <2>1, <2>2, <2>3, <2>4, <2>5, <2>6 DEF CompositeInv
\* How far another core has got in applying its state.
<1>WriteApplied.
  ASSUME NEW d \in CPU \ {c}, LockInv(d), AppliedInv(d)
  PROVE  AppliedInv(d)'
  <2> USE <1>WriteApplied
  <2>1. /\ pc'[d] = pc[d] /\ call'[d] = call[d] /\ level'[d] = level[d]
        /\ states'[d] = states[d] /\ lock_to'[d] = lock_to[d]
    BY DEF Writes
  <2>2. ASSUME NEW k \in Level, k <= lock_to[d], pc[d] \in Critical
        PROVE  /\ Ancestor[d][k] \in NODE
               /\ local_state'[Ancestor[d][k]] = local_state[Ancestor[d][k]]
               /\ \A e \in CPU : requested_states'[Ancestor[d][k]][e]
                                   = requested_states[Ancestor[d][k]][e]
    <3>1. node_lock[Ancestor[d][k]] = d
      BY <2>2 DEF LockInv
    <3>2. PICK n \in NODE : n = Ancestor[d][k]
      BY Ancestry
    <3>3. node_lock[n] = d
      BY <3>1, <3>2
    <3>4. /\ local_state'[n] = local_state[n]
          /\ \A e \in CPU : requested_states'[n][e] = requested_states[n][e]
      BY <3>3 DEF Writes
    <3> QED
      BY <3>2, <3>4
  <2>3. \A n \in NODE : Cpus[n] \subseteq CPU
    BY Below
  <2>4. CASE pc[d] = "coordinate"
    <3> SUFFICES ASSUME NEW k \in Level, k < level[d], k <= lock_to[d]
                 PROVE  /\ states[d][k] <= local_state'[Ancestor[d][k]]
                        /\ states[d][k] = RUN =>
                             \E e \in Cpus[Ancestor[d][k]] :
                               requested_states'[Ancestor[d][k]][e] = RUN
      BY <2>1, <2>4 DEF AppliedInv
    <3>1. /\ states[d][k] <= local_state[Ancestor[d][k]]
          /\ states[d][k] = RUN =>
               \E e \in Cpus[Ancestor[d][k]] :
                 requested_states[Ancestor[d][k]][e] = RUN
      BY <2>4 DEF AppliedInv
    <3>2. /\ Ancestor[d][k] \in NODE
          /\ local_state'[Ancestor[d][k]] = local_state[Ancestor[d][k]]
          /\ \A e \in CPU : requested_states'[Ancestor[d][k]][e]
                              = requested_states[Ancestor[d][k]][e]
      BY <2>2, <2>4 DEF Critical
    <3> QED
      BY <3>1, <3>2, <2>3
  <2>5. CASE pc[d] \in {"votes", "local"}
    <3>1. \A k \in Level : k <= lock_to[d] =>
            local_state'[Ancestor[d][k]] = local_state[Ancestor[d][k]]
      BY <2>2, <2>5 DEF Critical
    <3>2. CASE pc[d] = "votes"
      <4>1. pc'[d] = "votes" /\ lock_to'[d] = lock_to[d]
        BY <2>1, <3>2
      <4>2. \A k \in Level : k <= lock_to[d] => local_state[Ancestor[d][k]] = RUN
        BY <3>2 DEF AppliedInv
      <4>3. \A k \in Level : k <= lock_to'[d] => local_state'[Ancestor[d][k]] = RUN
        BY <3>1, <4>1, <4>2
      <4> QED
        BY <4>1, <4>3 DEF AppliedInv
    <3>3. CASE pc[d] = "local"
      <4>1. /\ pc'[d] = "local" /\ lock_to'[d] = lock_to[d] /\ level'[d] = level[d]
            /\ call'[d] = call[d] /\ states'[d] = states[d]
        BY <2>1, <3>3
      <4>2. \A k \in Level : k <= lock_to[d] =>
              /\ k < level[d] /\ k <= call[d].highest =>
                   local_state[Ancestor[d][k]] = states[d][k]
              /\ k >= level[d] => local_state[Ancestor[d][k]] = RUN
        BY <3>3 DEF AppliedInv
      <4>3. \A k \in Level : k <= lock_to[d] =>
              /\ k < level[d] /\ k <= call[d].highest =>
                   local_state'[Ancestor[d][k]] = states[d][k]
              /\ k >= level[d] => local_state'[Ancestor[d][k]] = RUN
        BY <3>1, <4>2
      <4>4. \A k \in Level : k <= lock_to'[d] =>
              /\ k < level'[d] /\ k <= call'[d].highest =>
                   local_state'[Ancestor[d][k]] = states'[d][k]
              /\ k >= level'[d] => local_state'[Ancestor[d][k]] = RUN
        BY <4>1, <4>3, SMTT(40)
      <4>5. pc'[d] # "coordinate" /\ pc'[d] # "votes"
        BY <4>1
      <4> QED
        BY <4>4, <4>5 DEF AppliedInv
    <3> QED
      BY <2>5, <3>2, <3>3
  <2>6. CASE pc[d] \notin {"coordinate", "votes", "local"}
    BY <2>1, <2>6 DEF AppliedInv
  <2> QED
    BY <2>4, <2>5, <2>6
\* The other children of a locked node only get deeper.
<1>WriteChildren.
  ASSUME TypeOK, NEW d \in CPU \ {c}, ControlInv(c), LockInv(c),
         ControlInv(d), LockInv(d), ChildrenInv(d)
  PROVE  ChildrenInv(d)'
  <2> USE <1>WriteChildren
  <2>1. pc'[d] = pc[d] /\ call'[d] = call[d] /\ level'[d] = level[d]
        /\ states'[d] = states[d]
    BY DEF Writes
  <2>2. ASSUME NEW k \in Upper, k <= call[d].highest, ChildrenAllow(d, k),
               pc[d] \in {"validate", "votes", "local"}
        PROVE  ChildrenAllow(d, k)'
    <3> SUFFICES ASSUME NEW e \in CPU, Ancestor[e][k] = Ancestor[d][k],
                        Ancestor[e][k - 1] # Ancestor[d][k - 1]
                 PROVE  states[d][k] <= local_state'[Ancestor[e][k - 1]]
      BY <2>1 DEF ChildrenAllow
    <3>1. k \in Level /\ k - 1 \in Level /\ k - 1 <= k
      BY UpperLevel, LevelNat, SMTT(40)
    <3>2. states[d][k] <= local_state[Ancestor[e][k - 1]]
      BY <2>2 DEF ChildrenAllow
    <3>3. CASE Ancestor[e][k - 1] # Ancestor[c][l]
      BY <3>1, <3>2, <3>3, Ancestry DEF Writes
    <3>4. CASE Ancestor[e][k - 1] = Ancestor[c][l]
      <4>1. k - 1 = l
        BY <3>1, <3>4, SameLevel
      <4>2. Ancestor[e][k] = Ancestor[c][k]
        BY <3>1, <3>4, <4>1, SharedAbove
      <4>3. k <= lock_to[d] /\ node_lock[Ancestor[d][k]] = d
        <5>1. call[d].highest <= lock_to[d]
          BY <2>2 DEF ControlInv, Critical
        <5>2. k <= lock_to[d]
          BY <2>2, <3>1, <5>1, CoreNat, LevelNat, SMTT(40)
        <5> QED
          BY <2>2, <3>1, <5>2 DEF LockInv, Critical
      <4>4. pc[c] # "run"
        <5> SUFFICES ASSUME pc[c] = "run" PROVE FALSE
          OBVIOUS
        <5>1. Raising(c, l)
          BY DEF Raising, Writes
        <5>2. node_lock[Ancestor[c][k]] = d
          BY <4>2, <4>3
        <5>3. l <= k
          BY <3>1, <4>1
        <5> QED
          BY <3>1, <5>1, <5>2, <5>3, NotRaising
      <4>5. local_state[Ancestor[e][k - 1]] <= local_state'[Ancestor[e][k - 1]]
        BY <3>4, <4>4
      <4>6. /\ states[d][k] \in Nat /\ local_state[Ancestor[e][k - 1]] \in Nat
            /\ local_state'[Ancestor[e][k - 1]] \in Nat
        BY <3>1, CoreNat, Ancestry, NodeNat, NodeNatNext DEF NodeNumbers
      <4> QED
        BY <3>2, <4>5, <4>6, SMTT(40)
    <3> QED
      BY <3>3, <3>4
  <2>3. ASSUME NEW k \in Upper, k <= call[d].highest
        PROVE  /\ pc[d] = "validate" /\ k < level[d] => ChildrenAllow(d, k)'
               /\ pc[d] \in {"votes", "local"} => ChildrenAllow(d, k)'
    BY <2>2, <2>3 DEF ChildrenInv
  <2> QED
    BY <2>1, <2>3 DEF ChildrenInv
\* Only the node that is written needs a new witness.
<1>WriteWitness.
  ASSUME \A d \in CPU, k \in Level : WitnessInv(Ancestor[d][k])
  PROVE  \A d \in CPU, k \in Level : WitnessInv(Ancestor[d][k])'
  <2> USE <1>WriteWitness
  <2> SUFFICES ASSUME NEW d \in CPU, NEW k \in Level
               PROVE  \E e \in Cpus[Ancestor[d][k]] :
                        requested_states'[Ancestor[d][k]][e]
                          <= local_state'[Ancestor[d][k]]
    BY DEF WitnessInv
  <2>1. CASE Ancestor[d][k] = Ancestor[c][l]
    BY <2>1
  <2>2. CASE Ancestor[d][k] # Ancestor[c][l]
    <3>1. PICK n \in NODE : n = Ancestor[d][k]
      BY Ancestry
    <3>2. PICK e \in Cpus[n] : requested_states[n][e] <= local_state[n]
      BY <3>1 DEF WitnessInv
    <3>3. e \in CPU
      BY Below
    <3>4. /\ requested_states'[n][e] = requested_states[n][e]
          /\ local_state'[n] = local_state[n]
      BY <2>2, <3>1, <3>3 DEF Writes
    <3> QED
      BY <3>1, <3>2, <3>4
  <2> QED
    BY <2>1, <2>2
<1>1. /\ TypeOK
      /\ \A d \in CPU : ControlInv(d) /\ LockInv(d)
      /\ \A d \in CPU : /\ CompositeInv(d) /\ AppliedInv(d) /\ ChildrenInv(d)
                        /\ OneKind(d)
      /\ \A d \in CPU, k \in Level : WitnessInv(Ancestor[d][k])
  BY DEF IInv, CoreInv, TreeInv
<1>2. \A d \in CPU, k \in Level : WitnessInv(Ancestor[d][k])'
  BY <1>1, <1>WriteWitness
<1>3. ASSUME NEW d \in CPU \ {c}
      PROVE  CompositeInv(d)' /\ AppliedInv(d)' /\ ChildrenInv(d)' /\ OneKind(d)'
  <2>1. CompositeInv(d)' /\ OneKind(d)'
    BY <1>1, <1>WriteComposite
  <2>2. AppliedInv(d)'
    BY <1>1, <1>WriteApplied
  <2>3. ChildrenInv(d)'
    BY <1>1, <1>WriteChildren
  <2> QED
    BY <2>1, <2>2, <2>3
<1> QED
  BY <1>2, <1>3 DEF TreeInv

-----------------------------------------------------------------------------
(* coordinate_state.                                                       *)

\* One iteration of coordinate_state keeps the tree in order.
LEMMA CoordinateTree ==
  ASSUME IInv, TypeOK', TreeInv, NEW c \in CPU, NEW l \in Level, Coordinates(c, l)
  PROVE  TreeInv'
\* No CPU below a child of the node asks for more of the node than of the child.
<1>RequestBelow.
  ASSUME l \in Upper, NEW e \in CPU, Ancestor[e][l] = Ancestor[c][l]
  PROVE  requested_states'[Ancestor[c][l]][e]
           <= requested_states[Ancestor[e][l - 1]][e]
  <2> USE <1>RequestBelow
  <2>1. l \in Level /\ Ancestor[c][l] \in NODE
    BY UpperLevel, Ancestry
  <2>2. CASE e = c
    <3>1. states[c][l] <= requested_states[Ancestor[c][l - 1]][c]
      BY DEF TreeInv, CompositeInv, Coordinates, Writes
    <3> QED
      BY <2>2, <3>1 DEF Coordinates
  <2>3. CASE e # c
    <3>1. requested_states'[Ancestor[c][l]][e] = requested_states[Ancestor[c][l]][e]
      BY <2>1, <2>3 DEF Coordinates, Writes
    <3>2. ~Raising(c, l) /\ node_lock[Ancestor[c][l]] = c
      BY DEF Coordinates, Writes, Raising
    <3>3. requested_states[Ancestor[e][l]][e] <= requested_states[Ancestor[e][l - 1]][e]
      BY <3>2, LockedInOrder
    <3> QED
      BY <3>1, <3>3
  <2> QED
    BY <2>2, <2>3
\* The node is as deep as one of the requests, and so is what c goes on with.
<1>CoordinateWitness.
  /\ states'[c][l] <= local_state'[Ancestor[c][l]]
  /\ \E e \in Cpus[Ancestor[c][l]] :
       requested_states'[Ancestor[c][l]][e] <= states'[c][l]
  <2>1. PICK n \in NODE : n = Ancestor[c][l]
    BY Ancestry
  <2>2. local_state'[n] \in Nat /\ \A e \in CPU : requested_states'[n][e] \in Nat
    BY NodeNatNext DEF NodeNumbers
  <2>3. CASE /\ l \in Upper /\ states[c][l - 1] = RUN
             /\ local_state'[n] = RUN /\ states'[c][l] = RUN
    <3>1. l - 1 \in Level /\ l - 1 < l /\ l - 1 \in Nat /\ l \in Nat
      BY <2>3, UpperLevel
    <3>2. l - 1 < level[c] /\ l - 1 <= lock_to[c]
      <4>1. l = level[c] /\ l <= lock_to[c] /\ TypeOK
        BY DEF Coordinates, Writes, IInv
      <4> QED
        BY <3>1, <4>1, CoreNat, SMTT(40)
    <3>3. AppliedInv(c) /\ pc[c] = "coordinate"
      BY DEF TreeInv, Coordinates
    <3>4. PICK e \in Cpus[Ancestor[c][l - 1]] :
            requested_states[Ancestor[c][l - 1]][e] = RUN
      BY <2>3, <3>1, <3>2, <3>3 DEF AppliedInv
    <3>5. e \in CPU /\ Ancestor[e][l - 1] = Ancestor[c][l - 1]
      BY <3>1, <3>4, CpusAt
    <3>6. l - 1 <= l
      BY <3>1, SMTT(40)
    <3>7. Ancestor[e][l] = Ancestor[c][l] /\ e \in Cpus[n]
      <4>1. Ancestor[e][l] = Ancestor[c][l]
        BY <3>1, <3>5, <3>6, SharedAbove
      <4> QED
        BY <2>1, <3>5, <4>1, CpusAt
    <3>8. requested_states'[n][e] <= requested_states[Ancestor[e][l - 1]][e]
      <4>1. l \in Upper /\ Ancestor[e][l] = Ancestor[c][l] /\ e \in CPU
        BY <2>3, <3>5, <3>7
      <4>2. requested_states'[Ancestor[c][l]][e]
              <= requested_states[Ancestor[e][l - 1]][e]
        BY <4>1, <1>RequestBelow
      <4> QED
        BY <2>1, <4>2
    <3>9. requested_states'[n][e] <= states'[c][l]
      BY <2>3, <3>4, <3>5, <3>8
    <3>10. RUN <= RUN
      BY SMTT(40) DEF RUN
    <3> QED
      BY <2>1, <2>3, <3>7, <3>9, <3>10
  <2>4. CASE /\ local_state'[n] = minimal_allowed_state(n, requested_states'[n])
             /\ states'[c][l] = local_state'[n]
    <3>1. requested_states'[n] \in [CPU -> PowerState]
      BY DEF TypeOK, TreeTypeOK
    <3>2. PICK r \in [CPU -> PowerState] : r = requested_states'[n]
      BY <3>1
    <3>3. PICK e \in Cpus[n] : r[e] = minimal_allowed_state(n, r)
      BY <2>1, MinimumAttained
    <3>4. local_state'[n] <= local_state'[n]
      BY <2>2, SMTT(40)
    <3> QED
      BY <2>1, <2>4, <3>2, <3>3, <3>4
  <2> QED
    BY <2>1, <2>3, <2>4 DEF Coordinates
\* And no deeper than any of its children.
<1>CoordinateOrdered.
  ASSUME l \in Upper, NEW d \in CPU, Ancestor[d][l] = Ancestor[c][l]
  PROVE  Ordered(d, l)'
  <2> USE <1>CoordinateOrdered
  <2>0. TypeOK /\ l \in Level /\ l - 1 \in Level /\ l - 1 # l /\ l - 1 < l
        /\ l - 1 <= l /\ l - 1 \in Nat /\ l \in Nat
    BY UpperLevel, SMTT(40) DEF IInv
  <2>1. PICK n \in NODE, m \in NODE : n = Ancestor[d][l] /\ m = Ancestor[d][l - 1]
    BY <2>0, Ancestry
  <2>2. m # n /\ local_state'[m] = local_state[m]
    <3>1. m # n
      BY <2>0, <2>1, Distinct
    <3> QED
      BY <2>1, <3>1 DEF Coordinates, Writes
  <2>3. local_state'[n] \in Nat /\ local_state[m] \in Nat
    BY <2>0, NodeNat, NodeNatNext DEF NodeNumbers
  <2>4. local_state'[n] <= local_state[m]
    <3>1. CASE local_state'[n] = RUN
      BY <2>3, <3>1, SMTT(40) DEF RUN
    <3>2. CASE local_state'[n] = minimal_allowed_state(n, requested_states'[n])
      <4>1. PICK e \in Cpus[m] : requested_states[m][e] <= local_state[m]
        BY <2>0, <2>1 DEF TreeInv, WitnessInv
      <4>2. e \in CPU /\ Ancestor[e][l - 1] = Ancestor[d][l - 1]
        <5>1. e \in Cpus[Ancestor[d][l - 1]]
          BY <2>1, <4>1
        <5> QED
          BY <2>0, <5>1, CpusAt
      <4>3. Ancestor[e][l] = Ancestor[d][l] /\ e \in Cpus[n]
        <5>1. Ancestor[e][l] = Ancestor[d][l]
          <6>1. l \in Level /\ l - 1 \in Level /\ l - 1 <= l
            BY <2>0
          <6> QED
            BY <4>2, <6>1, SharedAbove
        <5> QED
          BY <2>1, <4>2, <5>1, CpusAt
      <4>4. requested_states'[n][e] <= requested_states[m][e]
        <5>1. Ancestor[e][l] = Ancestor[c][l] /\ e \in CPU
          BY <4>2, <4>3
        <5>2. requested_states'[Ancestor[c][l]][e]
                <= requested_states[Ancestor[e][l - 1]][e]
          BY <5>1, <1>RequestBelow
        <5> QED
          BY <2>1, <4>2, <5>2
      <4>5. PICK r \in [CPU -> PowerState] : r = requested_states'[n]
        BY DEF TypeOK, TreeTypeOK
      <4>6. minimal_allowed_state(n, r) <= r[e]
        BY <2>0, <2>1, <4>3, MinimalState
      <4>7. requested_states'[n][e] \in Nat /\ requested_states[m][e] \in Nat
        BY <2>0, <4>2, NodeNat, NodeNatNext DEF NodeNumbers
      <4>8. local_state'[n] <= requested_states'[n][e]
        BY <3>2, <4>5, <4>6
      <4> QED
        BY <2>3, <4>1, <4>4, <4>7, <4>8, SMTT(40)
    <3> QED
      BY <2>1, <3>1, <3>2 DEF Coordinates
  <2>5. non_cpu_states'[n][m] <= local_state[m]
    <3>1. CASE m = Ancestor[c][l - 1]
      <4>1. non_cpu_states'[n][m] = states[c][l - 1]
        BY <2>1, <3>1 DEF Coordinates
      <4>2. l - 1 < level[c] /\ l - 1 <= lock_to[c]
        <5>1. l = level[c] /\ l <= lock_to[c]
          BY DEF Coordinates, Writes
        <5> QED
          BY <2>0, <5>1, CoreNat, SMTT(40)
      <4>3. AppliedInv(c) /\ pc[c] = "coordinate"
        BY DEF TreeInv, Coordinates
      <4>4. states[c][l - 1] <= local_state[Ancestor[c][l - 1]]
        BY <2>0, <4>2, <4>3 DEF AppliedInv
      <4> QED
        BY <3>1, <4>1, <4>4
    <3>2. CASE m # Ancestor[c][l - 1]
      <4>1. non_cpu_states'[n][m] = non_cpu_states[n][m]
        <5>1. \A k \in NODE : l = 1 \/ k # Ancestor[c][l - 1] =>
                non_cpu_states'[Ancestor[c][l]][k] = non_cpu_states[Ancestor[c][l]][k]
          BY DEF Coordinates, Writes
        <5>2. n = Ancestor[c][l]
          BY <2>1
        <5> QED
          BY <3>2, <5>1, <5>2
      <4>2. ~Raising(c, l) /\ node_lock[Ancestor[c][l]] = c
        BY DEF Coordinates, Writes, Raising
      <4>3. Ordered(d, l)
        BY <4>2, LockedInOrder
      <4> QED
        BY <2>1, <4>1, <4>3 DEF Ordered
    <3> QED
      BY <3>1, <3>2
  <2> QED
    <3>1. local_state'[n] <= local_state'[m] /\ non_cpu_states'[n][m] <= local_state'[m]
      BY <2>2, <2>4, <2>5
    <3> QED
      BY <2>1, <3>1 DEF Ordered
<1>0. /\ TypeOK /\ VoteInv(c) /\ CompositeInv(c) /\ AppliedInv(c) /\ OneKind(c)
      /\ \A d \in CPU, k \in Upper : PathInv(d, k)
  BY DEF IInv, CoreInv, TreeInv
<1>1. PICK n \in NODE : n = Ancestor[c][l]
  BY Ancestry
<1>2. /\ Writes(c, l) /\ pc[c] = "coordinate" /\ pc'[c] = "coordinate"
      /\ level[c] = l /\ level'[c] = l + 1 /\ lock_to' = lock_to
      /\ local_state[n] = RUN /\ requested_states'[n][c] = states[c][l]
      /\ \A k \in Levels : k # l => states'[c][k] = states[c][k]
  BY <1>1 DEF Coordinates, Writes
<1>3. l \in Nat /\ l \in Levels
  BY LevelNat, LevelIndex
<1>4. /\ states'[c][l] <= local_state'[n]
      /\ \E e \in Cpus[n] : requested_states'[n][e] <= states'[c][l]
  BY <1>1, <1>CoordinateWitness
<1>5. local_state[n] <= local_state'[n] /\ local_state'[n] \in Nat
  <2>1. local_state'[n] \in Nat
    BY NodeNatNext DEF NodeNumbers
  <2> QED
    BY <1>2, <2>1, SMTT(40) DEF RUN
<1>6. \E e \in Cpus[n] : requested_states'[n][e] <= local_state'[n]
  <2>1. PICK e \in Cpus[n] : requested_states'[n][e] <= states'[c][l]
    BY <1>4
  <2>2. requested_states'[n][e] \in Nat /\ states'[c][l] \in Nat
    BY <1>3, Below, NodeNatNext DEF NodeNumbers
  <2> QED
    BY <1>4, <1>5, <2>1, <2>2, SMTT(40)
<1>7. CompositeInv(c)'
  <2>1. Descending(states'[c], l + 1)
    <3> SUFFICES ASSUME NEW k \in Level, k > l + 1
                 PROVE  states'[c][k - 1] >= states'[c][k]
      BY DEF Descending
    <3>1. k # l /\ k - 1 # l /\ k \in Levels /\ k - 1 \in Levels /\ k > l
      BY <1>3, LevelIndex, LevelNat, SMTT(40)
    <3>2. states[c][k - 1] >= states[c][k]
      BY <1>0, <1>2, <3>1 DEF CompositeInv, Descending
    <3> QED
      BY <1>2, <3>1, <3>2
  <2>2. ASSUME l + 1 \in Upper
        PROVE  states'[c][l + 1] <= requested_states'[Ancestor[c][(l + 1) - 1]][c]
    <3>1. PICK k \in Upper : k = l + 1
      BY <2>2
    <3>2. k # l /\ k \in Level /\ k > l /\ k - 1 = l
      BY <1>3, <3>1, UpperLevel, SMTT(40)
    <3>3. states[c][l] >= states[c][k]
      BY <1>0, <1>2, <3>2 DEF CompositeInv, Descending
    <3>4. states'[c][k] = states[c][k]
      BY <1>2, <3>2, LevelIndex
    <3>5. states[c][k] \in Nat /\ states[c][l] \in Nat
      BY <1>0, <3>2, CoreNat
    <3>6. states'[c][k] <= requested_states'[n][c]
      BY <1>2, <3>3, <3>4, <3>5, SMTT(40)
    <3> QED
      BY <1>1, <3>1, <3>2, <3>6
  <2> QED
    BY <1>2, <2>1, <2>2 DEF CompositeInv
<1>8. AppliedInv(c)'
  <2> SUFFICES ASSUME NEW k \in Level, k < l + 1, k <= lock_to[c]
               PROVE  /\ states'[c][k] <= local_state'[Ancestor[c][k]]
                      /\ states'[c][k] = RUN =>
                           \E e \in Cpus[Ancestor[c][k]] :
                             requested_states'[Ancestor[c][k]][e] = RUN
    BY <1>2 DEF AppliedInv
  <2>1. CASE k = l
    <3>1. ASSUME states'[c][l] = RUN
          PROVE  \E e \in Cpus[n] : requested_states'[n][e] = RUN
      <4>1. PICK e \in Cpus[n] : requested_states'[n][e] <= 0
        BY <1>4, <3>1 DEF RUN
      <4>2. requested_states'[n][e] \in Nat
        BY Below, NodeNatNext DEF NodeNumbers
      <4>3. requested_states'[n][e] = 0
        BY <4>1, <4>2, SMTT(40)
      <4> QED
        BY <4>3 DEF RUN
    <3> QED
      BY <1>1, <1>4, <2>1, <3>1
  <2>2. CASE k # l
    <3>1. k < l /\ k \in Levels
      BY <1>3, <2>2, LevelNat, LevelIndex, SMTT(40)
    <3>2. /\ states[c][k] <= local_state[Ancestor[c][k]]
          /\ states[c][k] = RUN =>
               \E e \in Cpus[Ancestor[c][k]] :
                 requested_states[Ancestor[c][k]][e] = RUN
      BY <1>0, <1>2, <3>1 DEF AppliedInv
    <3>3. PICK m \in NODE : m = Ancestor[c][k]
      BY Ancestry
    <3>4. m # Ancestor[c][l] /\ Cpus[m] \subseteq CPU
      BY <2>2, <3>3, Distinct, Below
    <3>5. /\ local_state'[m] = local_state[m]
          /\ \A e \in CPU : requested_states'[m][e] = requested_states[m][e]
      BY <1>2, <3>4 DEF Writes
    <3>6. states'[c][k] = states[c][k]
      BY <1>2, <2>2, <3>1
    <3> QED
      BY <3>2, <3>3, <3>4, <3>5, <3>6
  <2> QED
    BY <2>1, <2>2
<1>9. ChildrenInv(c)'
  BY <1>2 DEF ChildrenInv
<1>10. OneKind(c)'
  <2> SUFFICES ASSUME NEW k \in Level
               PROVE  \/ requested_states'[Ancestor[c][k]][c] = RUN
                      \/ suspend_states'[Ancestor[c][k]][c] = NONE
    BY DEF OneKind
  <2>1. suspend_states' = suspend_states /\ VotesRun(c, l)
    BY DEF Coordinates
  <2>2. CASE k = l
    BY <2>1, <2>2 DEF VotesRun
  <2>3. CASE k # l
    <3>1. Ancestor[c][k] \in NODE /\ Ancestor[c][k] # Ancestor[c][l]
      BY <2>3, Ancestry, Distinct
    <3>2. requested_states'[Ancestor[c][k]][c] = requested_states[Ancestor[c][k]][c]
      BY <1>2, <3>1 DEF Writes
    <3> QED
      BY <1>0, <2>1, <3>2 DEF OneKind
  <2> QED
    BY <2>2, <2>3
<1>11. ASSUME NEW d \in CPU, NEW k \in Upper PROVE PathInv(d, k)'
  <2>0. k \in Level /\ k - 1 \in Level /\ k - 1 # k /\ k \in Nat
    BY UpperLevel
  <2>1. k = l /\ Ancestor[d][l] = Ancestor[c][l] => Ordered(d, k)'
    BY <1>CoordinateOrdered
  <2>2. requested_states'[Ancestor[c][k]][c] <= requested_states'[Ancestor[c][k - 1]][c]
    <3>0. /\ requested_states'[Ancestor[c][k - 1]][c] \in Nat
          /\ Ancestor[c][k] \in NODE /\ Ancestor[c][k - 1] \in NODE
      BY <2>0, Ancestry, NodeNatNext DEF NodeNumbers
    <3>1. CASE k = l
      <4>1. Ancestor[c][k - 1] # Ancestor[c][l]
        BY <2>0, <3>1, Distinct
      <4>2. requested_states'[Ancestor[c][k - 1]][c] = requested_states[Ancestor[c][k - 1]][c]
        BY <1>2, <3>0, <4>1 DEF Writes
      <4>3. requested_states'[Ancestor[c][l]][c] <= requested_states[Ancestor[c][k - 1]][c]
        BY <3>1, <1>RequestBelow
      <4> QED
        BY <3>1, <4>2, <4>3
    <3>2. CASE k > l
      <4>1. k >= level[c] /\ k # l
        BY <1>2, <1>3, <2>0, <3>2, SMTT(40)
      <4>2. requested_states[Ancestor[c][k]][c] = RUN
        BY <1>0, <1>2, <2>0, <4>1 DEF VoteInv, VotesRun
      <4>3. Ancestor[c][k] # Ancestor[c][l]
        BY <2>0, <4>1, Distinct
      <4>4. requested_states'[Ancestor[c][k]][c] = 0
        BY <1>2, <3>0, <4>2, <4>3 DEF Writes, RUN
      <4> QED
        BY <3>0, <4>4, SMTT(40)
    <3>3. CASE k < l
      <4>1. k # l /\ k - 1 # l
        BY <1>3, <2>0, <3>3, SMTT(40)
      <4>2. Ancestor[c][k] # Ancestor[c][l] /\ Ancestor[c][k - 1] # Ancestor[c][l]
        BY <2>0, <4>1, Distinct
      <4>3. /\ requested_states'[Ancestor[c][k]][c] = requested_states[Ancestor[c][k]][c]
            /\ requested_states'[Ancestor[c][k - 1]][c]
                 = requested_states[Ancestor[c][k - 1]][c]
        BY <1>2, <3>0, <4>2 DEF Writes
      <4>4. ~Raising(c, k) /\ PathInv(c, k)
        BY <1>0, <1>2 DEF Raising
      <4> QED
        BY <4>3, <4>4 DEF PathInv
    <3> QED
      BY <1>3, <2>0, <3>1, <3>2, <3>3, SMTT(40)
  <2>3. PathInv(d, k) /\ pc[c] # "run" /\ local_state[Ancestor[c][l]] = RUN
    BY <1>0, <1>1, <1>2
  <2> QED
    BY <1>0, <1>2, <2>1, <2>2, <2>3, WritePath
<1> QED
  BY <1>0, <1>1, <1>2, <1>5, <1>6, <1>7, <1>8, <1>9, <1>10, <1>11, TreeFromWrite

-----------------------------------------------------------------------------
(* apply_coordinated_state_to_power_domain_tree.                           *)

\* Core c's requests are in order while it is not putting its path back.
LEMMA OwnRequests ==
  ASSUME TreeInv, NEW c \in CPU, pc[c] # "run", NEW k \in Upper
  PROVE  requested_states[Ancestor[c][k]][c] <= requested_states[Ancestor[c][k - 1]][c]
BY DEF TreeInv, PathInv, Raising

\* Writing a vote keeps the tree in order.
LEMMA ApplyTree ==
  ASSUME IInv, TypeOK', TreeInv, NEW c \in CPU, NEW l \in Level, Applies(c, l)
  PROVE  TreeInv'
<1>0. /\ TypeOK /\ CompositeInv(c) /\ AppliedInv(c) /\ ChildrenInv(c) /\ OneKind(c)
      /\ \A d \in CPU, k \in Upper : PathInv(d, k)
  BY DEF IInv, CoreInv, TreeInv
<1>1. /\ Writes(c, l) /\ pc[c] = "votes" /\ pc' = pc /\ call' = call
      /\ lock_to' = lock_to /\ states' = states /\ local_state' = local_state
      /\ requested_states' = requested_states /\ non_cpu_states' = non_cpu_states
      /\ node_lock[Ancestor[c][l]] = c
  BY DEF Applies, Writes
<1>2. local_state[Ancestor[c][l]] = RUN
  BY <1>0, <1>1 DEF AppliedInv, Writes
<1>3. Descending(states[c], 0)' <=> Descending(states[c], 0)
  BY <1>1 DEF Descending
<1>4. CompositeInv(c)' /\ AppliedInv(c)'
  BY <1>0, <1>1, <1>3 DEF CompositeInv, AppliedInv
<1>5. ChildrenInv(c)'
  BY <1>0, <1>1 DEF ChildrenInv, ChildrenAllow
<1>6. OneKind(c)'
  <2> SUFFICES ASSUME NEW k \in Level
               PROVE  \/ requested_states[Ancestor[c][k]][c] = RUN
                      \/ suspend_states'[Ancestor[c][k]][c] = NONE
    BY <1>1 DEF OneKind
  <2>1. CASE k = l
    BY <2>1 DEF Applies, VotesRun
  <2>2. CASE k # l
    <3>1. Ancestor[c][k] \in NODE /\ Ancestor[c][k] # Ancestor[c][l]
      BY <2>2, Ancestry, Distinct
    <3>2. suspend_states'[Ancestor[c][k]][c] = suspend_states[Ancestor[c][k]][c]
      BY <1>1, <3>1 DEF Writes
    <3>3. \/ requested_states[Ancestor[c][k]][c] = RUN
          \/ suspend_states[Ancestor[c][k]][c] = NONE
      BY <1>0 DEF OneKind
    <3> QED
      BY <3>2, <3>3
  <2> QED
    BY <2>1, <2>2
<1>7. ASSUME NEW d \in CPU, NEW k \in Upper PROVE PathInv(d, k)'
  <2>1. ASSUME k = l, Ancestor[d][l] = Ancestor[c][l] PROVE Ordered(d, k)'
    <3>1. ~Raising(c, k)
      BY <1>1 DEF Raising
    <3>2. Ordered(d, k)
      BY <1>1, <2>1, <3>1, LockedInOrder
    <3> QED
      BY <1>1, <3>2 DEF Ordered
  <2>2. requested_states'[Ancestor[c][k]][c] <= requested_states'[Ancestor[c][k - 1]][c]
    BY <1>1, OwnRequests
  <2>3. PathInv(d, k)
    BY <1>0
  <2> QED
    BY <1>0, <1>1, <1>2, <2>1, <2>2, <2>3, WritePath
<1>8. \E e \in Cpus[Ancestor[c][l]] : requested_states'[Ancestor[c][l]][e]
                                        <= local_state'[Ancestor[c][l]]
  BY <1>1 DEF TreeInv, WitnessInv
<1>9. local_state[Ancestor[c][l]] <= local_state'[Ancestor[c][l]]
  <2>1. local_state'[Ancestor[c][l]] = 0 /\ local_state[Ancestor[c][l]] = 0
    BY <1>1, <1>2 DEF RUN
  <2> QED
    BY <2>1, SMTT(40)
<1> QED
  BY <1>1, <1>4, <1>5, <1>6, <1>7, <1>8, <1>9, TreeFromWrite

\* Writing a local state keeps the tree in order.
LEMMA LocalTree ==
  ASSUME IInv, TypeOK', TreeInv, NEW c \in CPU, NEW l \in Level, SetsLocal(c, l)
  PROVE  TreeInv'
\* Once c has written its local state a node is no deeper than its children:
\* c's own because the composite state descends, the others because c has
\* validated it against them.
<1>LocalOrdered.
  ASSUME l \in Upper, local_state[Ancestor[c][l]] = RUN, NEW d \in CPU,
         Ancestor[d][l] = Ancestor[c][l]
  PROVE  Ordered(d, l)'
  <2> USE <1>LocalOrdered
  <2>0. TypeOK /\ l \in Level /\ l - 1 \in Level /\ l - 1 # l /\ l \in Nat
        /\ l - 1 \in Nat /\ call[c].highest \in Nat /\ lock_to[c] \in Nat
    BY UpperLevel, CoreNat, SMTT(40) DEF IInv
  <2>1. PICK n \in NODE, m \in NODE : n = Ancestor[d][l] /\ m = Ancestor[d][l - 1]
    BY <2>0, Ancestry
  <2>2. m # n /\ local_state'[m] = local_state[m]
    <3>1. m # n
      BY <2>0, <2>1, Distinct
    <3> QED
      BY <2>1, <3>1 DEF SetsLocal, Writes
  <2>3. /\ local_state'[n] \in Nat /\ local_state[m] \in Nat
        /\ l <= call[c].highest => local_state'[n] = states[c][l]
        /\ ~(l <= call[c].highest) => local_state'[n] = RUN
    BY <2>0, <2>1, NodeNat, NodeNatNext DEF NodeNumbers, SetsLocal
  <2>4. /\ pc[c] = "local" /\ l = level[c] /\ l <= lock_to[c]
        /\ l <= call[c].highest + 1 /\ call[c].op = "suspend"
        /\ CompositeInv(c) /\ AppliedInv(c) /\ ChildrenInv(c)
    <3>1. pc[c] = "local" /\ ControlInv(c)
      BY DEF SetsLocal, IInv, CoreInv
    <3>2. call[c].op = "suspend"
      BY <3>1 DEF ControlInv
    <3> QED
      BY <3>1, <3>2 DEF SetsLocal, Writes, TreeInv
  <2>5. CASE m = Ancestor[c][l - 1]
    <3>1. l - 1 < level[c] /\ l - 1 <= call[c].highest /\ l - 1 <= lock_to[c] /\ l > 0
      BY <2>0, <2>4, SMTT(40)
    <3>2. local_state[m] = states[c][l - 1]
      BY <2>0, <2>4, <2>5, <3>1 DEF AppliedInv
    <3>3. states[c][l - 1] >= states[c][l]
      <4>1. Descending(states[c], 0)
        BY <2>4 DEF CompositeInv
      <4> QED
        BY <2>0, <3>1, <4>1 DEF Descending
    <3>4. local_state'[n] <= local_state[m]
      <4>1. CASE l <= call[c].highest
        BY <2>3, <3>2, <3>3, <4>1, SMTT(40)
      <4>2. CASE ~(l <= call[c].highest)
        BY <2>3, <4>2, SMTT(40) DEF RUN
      <4> QED
        BY <4>1, <4>2
    <3>5. non_cpu_states'[n][m] = local_state[m]
      BY <2>1, <2>5, <3>2 DEF SetsLocal
    <3>6. non_cpu_states'[n][m] <= local_state[m]
      BY <2>3, <3>5, SMTT(40)
    <3>7. local_state'[n] <= local_state'[m] /\ non_cpu_states'[n][m] <= local_state'[m]
      BY <2>2, <3>4, <3>6
    <3> QED
      BY <2>1, <3>7 DEF Ordered
  <2>6. CASE m # Ancestor[c][l - 1]
    <3>1. non_cpu_states'[n][m] = non_cpu_states[n][m]
      <4>1. \A k \in NODE : l = 1 \/ k # Ancestor[c][l - 1] =>
              non_cpu_states'[Ancestor[c][l]][k] = non_cpu_states[Ancestor[c][l]][k]
        BY DEF SetsLocal, Writes
      <4>2. n = Ancestor[c][l]
        BY <2>1
      <4> QED
        BY <2>6, <4>1, <4>2
    <3>2. ~Raising(c, l) /\ node_lock[Ancestor[c][l]] = c
      BY DEF SetsLocal, Writes, Raising
    <3>3. Ordered(d, l)
      BY <3>2, LockedInOrder
    <3>4. local_state'[n] <= local_state[m]
      <4>1. CASE l <= call[c].highest
        BY <2>1, <2>3, <2>4, <2>6, <4>1 DEF ChildrenInv, ChildrenAllow
      <4>2. CASE ~(l <= call[c].highest)
        BY <2>3, <4>2, SMTT(40) DEF RUN
      <4> QED
        BY <4>1, <4>2
    <3> QED
      BY <2>1, <2>2, <3>1, <3>3, <3>4 DEF Ordered
  <2> QED
    BY <2>5, <2>6
<1>0. /\ TypeOK /\ ControlInv(c)
      /\ CompositeInv(c) /\ AppliedInv(c) /\ ChildrenInv(c) /\ OneKind(c)
      /\ \A d \in CPU, k \in Upper : PathInv(d, k)
  BY DEF IInv, CoreInv, TreeInv
<1>1. /\ Writes(c, l) /\ pc[c] = "local" /\ pc' = pc /\ call' = call
      /\ lock_to' = lock_to /\ states' = states
      /\ requested_states' = requested_states /\ suspend_states' = suspend_states
      /\ level[c] = l /\ level'[c] = l + 1 /\ l <= lock_to[c]
      /\ l <= call[c].highest + 1 /\ node_lock[Ancestor[c][l]] = c
  BY DEF SetsLocal, Writes
<1>2. /\ l \in Nat /\ l <= l /\ lock_to[c] \in Nat /\ call[c].highest \in Nat
      /\ call[c].op = "suspend"
  BY <1>0, <1>1, LevelNat, CoreNat, SMTT(40) DEF ControlInv
<1>3. PICK n \in NODE : n = Ancestor[c][l]
  BY Ancestry
<1>4. local_state[n] = RUN
  <2>1. l >= level[c]
    BY <1>1, <1>2, SMTT(40)
  <2> QED
    BY <1>0, <1>1, <1>3, <2>1 DEF AppliedInv
<1>5. /\ l <= call[c].highest => local_state'[n] = states[c][l]
      /\ ~(l <= call[c].highest) => local_state'[n] = RUN
  BY <1>3, <1>4 DEF SetsLocal
<1>6. CompositeInv(c)' /\ OneKind(c)'
  <2>1. Descending(states[c], 0)' <=> Descending(states[c], 0)
    BY <1>1 DEF Descending
  <2> QED
    BY <1>0, <1>1, <2>1 DEF CompositeInv, OneKind
<1>7. AppliedInv(c)'
  <2> SUFFICES ASSUME NEW k \in Level, k <= lock_to[c]
               PROVE  /\ k < l + 1 /\ k <= call[c].highest =>
                           local_state'[Ancestor[c][k]] = states[c][k]
                      /\ k >= l + 1 => local_state'[Ancestor[c][k]] = RUN
    BY <1>1 DEF AppliedInv
  <2>1. CASE k = l
    <3>1. ~(k >= l + 1)
      BY <1>2, <2>1, SMTT(40)
    <3> QED
      BY <1>3, <1>5, <2>1, <3>1
  <2>2. CASE k # l
    <3>1. (k < l + 1 => k < l) /\ (k >= l + 1 => k >= l)
      BY <1>2, <2>2, LevelNat, SMTT(40)
    <3>2. Ancestor[c][k] \in NODE /\ Ancestor[c][k] # Ancestor[c][l]
      BY <2>2, Ancestry, Distinct
    <3>3. local_state'[Ancestor[c][k]] = local_state[Ancestor[c][k]]
      BY <1>1, <3>2 DEF Writes
    <3> QED
      BY <1>0, <1>1, <3>1, <3>3 DEF AppliedInv
  <2> QED
    BY <2>1, <2>2
<1>8. ChildrenInv(c)'
  <2> SUFFICES ASSUME NEW k \in Upper, k <= call[c].highest,
                      NEW d \in CPU, Ancestor[d][k] = Ancestor[c][k],
                      Ancestor[d][k - 1] # Ancestor[c][k - 1]
               PROVE  states[c][k] <= local_state'[Ancestor[d][k - 1]]
    BY <1>1 DEF ChildrenInv, ChildrenAllow
  <2>1. k - 1 \in Level /\ Ancestor[d][k - 1] \in NODE
    BY UpperLevel, Ancestry
  <2>2. Ancestor[d][k - 1] # Ancestor[c][l]
    <3>1. ASSUME Ancestor[d][k - 1] = Ancestor[c][l] PROVE FALSE
      <4>1. k - 1 = l
        BY <2>1, <3>1, SameLevel
      <4> QED
        BY <3>1, <4>1
    <3> QED
      BY <3>1
  <2>3. local_state'[Ancestor[d][k - 1]] = local_state[Ancestor[d][k - 1]]
    BY <1>1, <2>1, <2>2 DEF Writes
  <2>4. states[c][k] <= local_state[Ancestor[d][k - 1]]
    BY <1>0, <1>1 DEF ChildrenInv, ChildrenAllow
  <2> QED
    BY <2>3, <2>4
<1>9. local_state'[n] \in Nat /\ local_state[n] <= local_state'[n]
  <2>1. local_state'[n] \in Nat
    BY NodeNatNext DEF NodeNumbers
  <2> QED
    BY <1>4, <2>1, SMTT(40) DEF RUN
<1>10. \E e \in Cpus[n] : requested_states'[n][e] <= local_state'[n]
  <2>1. PICK e \in Cpus[n] : requested_states[n][e] <= local_state[n]
    BY <1>3 DEF TreeInv, WitnessInv
  <2>2. requested_states[n][e] \in Nat /\ local_state[n] \in Nat
    BY <1>0, Below, NodeNat DEF NodeNumbers
  <2>3. requested_states[n][e] <= local_state'[n]
    BY <1>9, <2>1, <2>2, SMTT(40)
  <2> QED
    BY <1>1, <2>3
<1>11. ASSUME NEW d \in CPU, NEW k \in Upper PROVE PathInv(d, k)'
  <2>1. ASSUME k = l, Ancestor[d][l] = Ancestor[c][l] PROVE Ordered(d, k)'
    <3>1. l \in Upper /\ local_state[Ancestor[c][l]] = RUN
      BY <1>3, <1>4, <2>1
    <3> QED
      BY <2>1, <3>1, <1>LocalOrdered
  <2>2. requested_states'[Ancestor[c][k]][c] <= requested_states'[Ancestor[c][k - 1]][c]
    BY <1>1, OwnRequests
  <2>3. PathInv(d, k)
    BY <1>0
  <2> QED
    BY <1>0, <1>1, <1>3, <1>4, <2>1, <2>2, <2>3, WritePath
<1> QED
  BY <1>1, <1>3, <1>6, <1>7, <1>8, <1>9, <1>10, <1>11, TreeFromWrite

-----------------------------------------------------------------------------
(* set_running.                                                            *)

\* One iteration of set_running keeps the tree in order.
LEMMA RunningTree ==
  ASSUME IInv, TypeOK', TreeInv, NEW c \in CPU, NEW l \in Level, Runs(c, l)
  PROVE  TreeInv'
\* What set_running does to the requests of a path: c's own get shallower from
\* the bottom up, and the next level is the one it is putting back.
<1>RunningRequests.
  ASSUME TypeOK, NEW d \in CPU, NEW k \in Upper, PathInv(d, k)
  PROVE  \/ Raising(d, k)'
         \/ requested_states'[Ancestor[d][k]][d] <= requested_states'[Ancestor[d][k - 1]][d]
  <2> USE <1>RunningRequests
  <2>1. k \in Level /\ k - 1 \in Level /\ k - 1 # k /\ l \in Nat
    BY UpperLevel, LevelNat
  <2>2. PICK n \in NODE, m \in NODE : n = Ancestor[d][k] /\ m = Ancestor[d][k - 1]
    BY <2>1, Ancestry
  <2>3. CASE d # c
    BY <2>2, <2>3 DEF Runs, Writes, PathInv, Raising
  <2>4. CASE d = c /\ k = l
    <3>1. requested_states'[n][d] = 0 /\ requested_states'[m][d] \in Nat
      BY <2>2, <2>4, NodeNatNext DEF Runs, NodeNumbers, RUN
    <3>2. requested_states'[n][d] <= requested_states'[m][d]
      BY <3>1, SMTT(40)
    <3> QED
      BY <2>2, <3>2
  <2>5. CASE d = c /\ k = l + 1
    BY <2>5 DEF Runs, Writes, Raising
  <2>6. CASE d = c /\ k # l /\ k # l + 1
    <3>1. k - 1 # l
      BY <2>1, <2>6, LevelNat, SMTT(40)
    <3>2. n # Ancestor[c][l] /\ m # Ancestor[c][l]
      BY <2>1, <2>2, <2>6, <3>1, Distinct
    <3>3. ~Raising(d, k)
      BY <2>6 DEF Runs, Writes, Raising
    <3> QED
      BY <2>2, <3>2, <3>3 DEF Runs, Writes, PathInv
  <2> QED
    BY <2>3, <2>4, <2>5, <2>6
\* What it does to the states: the node it has set running is no deeper than
\* any child, and its own parent is next.
<1>RunningStates.
  ASSUME NEW d \in CPU, NEW k \in Upper
  PROVE  BeingRaised(d, k)' \/ Ordered(d, k)'
  <2> USE <1>RunningStates
  <2>0. TypeOK /\ PathInv(d, k)
    BY DEF IInv, TreeInv
  <2>1. k \in Level /\ k - 1 \in Level /\ k - 1 # k /\ k - 1 <= k
    BY UpperLevel, LevelNat, SMTT(40)
  <2>2. PICK n \in NODE, m \in NODE : n = Ancestor[d][k] /\ m = Ancestor[d][k - 1]
    BY <2>1, Ancestry
  <2>3. n # m
    BY <2>1, <2>2, Distinct
  <2>4. CASE n = Ancestor[c][l]
    <3>1. k = l /\ l \in Upper
      BY <2>1, <2>2, <2>4, SameLevel
    <3>2. local_state'[n] = 0 /\ local_state'[m] = local_state[m] /\ local_state[m] \in Nat
      BY <2>0, <2>3, <2>4, NodeNat DEF Runs, Writes, NodeNumbers, RUN
    <3>3. local_state'[n] <= local_state'[m]
      BY <3>2, SMTT(40)
    <3>4. non_cpu_states'[n][m] <= local_state'[m]
      <4>1. CASE m = Ancestor[c][l - 1]
        <5>1. non_cpu_states'[n][m] = 0
          BY <2>4, <3>1, <4>1 DEF Runs, RUN
        <5> QED
          BY <3>2, <5>1, SMTT(40)
      <4>2. CASE m # Ancestor[c][l - 1]
        <5>1. ~BeingRaised(d, k)
          <6>1. ASSUME NEW e \in CPU, Ancestor[e][k] = n, Ancestor[e][k - 1] = m,
                       Raising(e, k)
                PROVE  FALSE
            <7>1. ControlInv(e) /\ LockInv(e) /\ k <= k
              BY <2>1, LevelNat, SMTT(40) DEF IInv, CoreInv
            <7>2. node_lock[Ancestor[e][k]] = c
              BY <2>4, <6>1 DEF Runs, Writes
            <7>3. e = c
              BY <2>1, <6>1, <7>1, <7>2, NotRaising
            <7> QED
              BY <3>1, <4>2, <6>1, <7>3
          <6> QED
            BY <2>2, <6>1 DEF BeingRaised
        <5>2. non_cpu_states[n][m] <= local_state[m]
          BY <2>0, <2>2, <5>1 DEF PathInv, BeingRaised
        <5>3. non_cpu_states'[n][m] = non_cpu_states[n][m]
          BY <2>4, <4>2 DEF Runs, Writes
        <5> QED
          BY <3>2, <5>2, <5>3
      <4> QED
        BY <4>1, <4>2
    <3> QED
      BY <2>2, <3>3, <3>4 DEF Ordered
  <2>5. CASE m = Ancestor[c][l]
    <3>1. k - 1 = l
      BY <2>1, <2>2, <2>5, SameLevel
    <3>2. k = l + 1
      BY <2>1, <3>1, LevelNat, SMTT(40)
    <3>3. Raising(c, k)'
      BY <3>2 DEF Runs, Writes, Raising
    <3>4. Ancestor[c][k - 1] = Ancestor[d][k - 1]
      BY <2>2, <2>5, <3>1
    <3>5. Ancestor[c][k] = Ancestor[d][k]
      BY <2>1, <3>4, SharedAbove
    <3> QED
      BY <3>3, <3>4, <3>5 DEF BeingRaised
  <2>6. CASE n # Ancestor[c][l] /\ m # Ancestor[c][l]
    <3>1. /\ local_state'[n] = local_state[n] /\ local_state'[m] = local_state[m]
          /\ non_cpu_states'[n] = non_cpu_states[n]
      BY <2>6 DEF Runs, Writes
    <3>2. CASE BeingRaised(d, k)
      <4>1. PICK e \in CPU : Ancestor[e][k] = n /\ Ancestor[e][k - 1] = m /\ Raising(e, k)
        BY <2>2, <3>2 DEF BeingRaised
      <4>2. e # c
        BY <2>6, <4>1 DEF Raising, Runs, Writes
      <4>3. Raising(e, k)'
        BY <4>1, <4>2 DEF Raising, Runs, Writes
      <4> QED
        BY <2>2, <4>1, <4>3 DEF BeingRaised
    <3>3. CASE ~BeingRaised(d, k)
      <4>1. Ordered(d, k)
        BY <2>0, <3>3 DEF PathInv, BeingRaised, Ordered
      <4> QED
        BY <2>2, <3>1, <4>1 DEF Ordered
    <3> QED
      BY <3>2, <3>3
  <2> QED
    BY <2>4, <2>5, <2>6
<1>0. TypeOK /\ ControlInv(c) /\ OneKind(c)
  BY DEF IInv, CoreInv, TreeInv
<1>1. /\ Writes(c, l) /\ pc[c] = "run" /\ pc' = pc /\ call' = call
  BY DEF Runs, Writes
<1>2. CompositeInv(c)' /\ AppliedInv(c)' /\ ChildrenInv(c)'
  <2>1. call[c].op \notin {"suspend", "off"}
    BY <1>0, <1>1 DEF ControlInv, Critical
  <2> QED
    BY <1>1, <2>1 DEF CompositeInv, AppliedInv, ChildrenInv
<1>3. OneKind(c)'
  <2> SUFFICES ASSUME NEW k \in Level
               PROVE  \/ requested_states'[Ancestor[c][k]][c] = RUN
                      \/ suspend_states'[Ancestor[c][k]][c] = NONE
    BY DEF OneKind
  <2>1. CASE k = l
    BY <2>1 DEF Runs
  <2>2. CASE k # l
    <3>1. Ancestor[c][k] \in NODE /\ Ancestor[c][k] # Ancestor[c][l]
      BY <2>2, Ancestry, Distinct
    <3>2. /\ suspend_states'[Ancestor[c][k]][c] = suspend_states[Ancestor[c][k]][c]
          /\ requested_states'[Ancestor[c][k]][c] = requested_states[Ancestor[c][k]][c]
      BY <1>1, <3>1 DEF Writes
    <3>3. \/ requested_states[Ancestor[c][k]][c] = RUN
          \/ suspend_states[Ancestor[c][k]][c] = NONE
      BY <1>0 DEF OneKind
    <3> QED
      BY <3>2, <3>3
  <2> QED
    BY <2>1, <2>2
<1>4. ASSUME NEW d \in CPU, NEW k \in Upper PROVE PathInv(d, k)'
  <2>1. PathInv(d, k)
    BY DEF TreeInv
  <2>2. \/ Raising(d, k)'
        \/ requested_states'[Ancestor[d][k]][d] <= requested_states'[Ancestor[d][k - 1]][d]
    BY <1>0, <2>1, <1>RunningRequests
  <2>3. BeingRaised(d, k)' \/ Ordered(d, k)'
    BY <1>RunningStates
  <2> QED
    BY <2>2, <2>3 DEF PathInv, BeingRaised, Ordered
<1>5. \E e \in Cpus[Ancestor[c][l]] : requested_states'[Ancestor[c][l]][e]
                                        <= local_state'[Ancestor[c][l]]
  <2>1. c \in Cpus[Ancestor[c][l]]
    BY CpusAt
  <2>2. requested_states'[Ancestor[c][l]][c] <= local_state'[Ancestor[c][l]]
    BY SMTT(40) DEF Runs, RUN
  <2> QED
    BY <2>1, <2>2
<1> QED
  BY <1>1, <1>2, <1>3, <1>4, <1>5, TreeFromWrite
=============================================================================
