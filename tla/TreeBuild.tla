----------------------------- MODULE TreeBuild -----------------------------
(***************************************************************************)
(* PowerDomainTree::new: the power domain tree from a topology description *)
(* in breadth-first order, where topology[0] is the number of roots and    *)
(* topology[n + 1] the number of children of non-CPU node n.  One step is  *)
(* one iteration of a loop over the description.  What comes out is what   *)
(* PowerDomainTree assumes of Ancestor.                                    *)
(***************************************************************************)
EXTENDS Integers, FiniteSets, FiniteSetsExt

CONSTANTS
  MAX_POWER_LEVEL,   \* level of the roots
  Topologies         \* descriptions: functions on 0..n

VARIABLES
  topology,          \* the description
  level,             \* level of the nodes that are created, 0 for CPUs
  left,              \* iterations left at this level
  next_level_node_count,
  parent_node_index, parent_node,
  parent,            \* NonCpuPowerNode::parent of the nodes created so far
  cpu_parent,        \* CpuPowerNode::parent of the CPUs created so far
  cpu_range, non_cpu_range,
  contiguous         \* the debug_assert_eq! of assign_cpu and assign_non_cpu

treeVars == <<topology, level, left, next_level_node_count, parent_node_index, parent_node,
              parent, cpu_parent, cpu_range, non_cpu_range, contiguous>>

NONE == -1
Empty == [start |-> 0, end |-> 0]

Created == Cardinality(DOMAIN parent)
CpusCreated == Cardinality(DOMAIN cpu_parent)

\* An index appended to a range: an empty range is placed, any other one grows.
Assign(range, index) ==
  IF range.start = range.end THEN [start |-> index, end |-> index + 1]
  ELSE [range EXCEPT !.end = @ + 1]

\* count consecutive indices from first on, appended one by one.
AssignAll(range, first, count) ==
  IF count = 0 THEN range ELSE [Assign(range, first) EXCEPT !.end = @ + count - 1]

Extends(range, first, count) ==
  count > 0 => range.start = range.end \/ range.end = first

Init ==
  /\ topology \in Topologies
  /\ level = MAX_POWER_LEVEL /\ left = 1 /\ next_level_node_count = 0
  /\ parent_node_index = 0 /\ parent_node = NONE
  /\ parent = <<>> /\ cpu_parent = <<>>
  /\ cpu_range = <<>> /\ non_cpu_range = <<>>
  /\ contiguous = TRUE

\* f extended by the points of S, all with value v.
With(f, S, v) == [x \in DOMAIN f \cup S |-> IF x \in S THEN v ELSE f[x]]

\* One group of siblings among the non-CPU nodes.
CreateNodes ==
  LET count == topology[parent_node_index]
      new == Created..(Created + count - 1) IN
  /\ level > 0 /\ left > 0
  /\ parent' = With(parent, new, parent_node)
  /\ cpu_range' = With(cpu_range, new, Empty)
  /\ LET ranges == With(non_cpu_range, new, Empty) IN
     non_cpu_range' = IF parent_node = NONE THEN ranges
                      ELSE [ranges EXCEPT ![parent_node] = AssignAll(@, Created, count)]
  /\ contiguous' = (contiguous /\ (parent_node # NONE =>
                      Extends(non_cpu_range[parent_node], Created, count)))
  /\ parent_node' = parent_node_index
  /\ next_level_node_count' = next_level_node_count + count
  /\ parent_node_index' = parent_node_index + 1
  /\ left' = left - 1
  /\ UNCHANGED <<topology, level, cpu_parent>>

NextLevel ==
  /\ level > 0 /\ left = 0
  /\ level' = level - 1
  /\ left' = next_level_node_count
  /\ next_level_node_count' = 0
  /\ UNCHANGED <<topology, parent_node_index, parent_node, parent, cpu_parent,
                 cpu_range, non_cpu_range, contiguous>>

\* Node n and the nodes above it, where a CPU below n is assigned.
AncestorsOf(n) ==
  LET up[k \in 0..MAX_POWER_LEVEL] ==
        IF k = 0 THEN {n}
        ELSE up[k - 1] \cup {parent[x] : x \in {y \in up[k - 1] : parent[y] # NONE}}
  IN  up[MAX_POWER_LEVEL]

\* A plausible slip: the CPU is assigned to its own node only.
OwnNode(n) == {n}

assign_cpu(n) == AncestorsOf(n)

\* One group of CPUs below the same node.
CreateCpus ==
  LET count == topology[parent_node_index]
      node == parent_node_index - 1
      new == CpusCreated..(CpusCreated + count - 1) IN
  /\ level = 0 /\ parent_node_index \in DOMAIN topology
  /\ cpu_parent' = With(cpu_parent, new, node)
  /\ cpu_range' = [n \in DOMAIN cpu_range |->
       IF n \in assign_cpu(node) THEN AssignAll(cpu_range[n], CpusCreated, count)
       ELSE cpu_range[n]]
  /\ contiguous' = (contiguous /\ \A n \in assign_cpu(node) :
                      Extends(cpu_range[n], CpusCreated, count))
  /\ parent_node_index' = parent_node_index + 1
  /\ UNCHANGED <<topology, level, left, next_level_node_count, parent_node,
                 parent, non_cpu_range>>

Next == CreateNodes \/ NextLevel \/ CreateCpus

Spec == Init /\ [][Next]_treeVars

(***************************************************************************)
(* Properties.                                                             *)
(***************************************************************************)
Done == level = 0 /\ parent_node_index \notin DOMAIN topology

\* Reference: nodes and then CPUs, numbered together in breadth-first order.
FirstChild(n) == topology[0] + MapThenSumSet(LAMBDA q : topology[q + 1], 0..(n - 1))
Children(n) == FirstChild(n)..(FirstChild(n) + topology[n + 1] - 1)

Indices(range) == range.start..(range.end - 1)
Ancestors(c) == AncestorsOf(cpu_parent[c])

\* The tree is the one that is described: a node's parent is the node whose
\* children it is counted among, the ranges of a node are exactly its children
\* and the CPUs below it, without a gap, and, what PowerDomainTree takes for
\* granted, every CPU has one ancestor at each level and CPUs that share one
\* share everything above it.
TreeAsDescribed ==
  Done =>
    /\ contiguous
    /\ \A n \in DOMAIN parent :
         IF n < topology[0] THEN parent[n] = NONE ELSE n \in Children(parent[n])
    /\ \A c \in DOMAIN cpu_parent : Created + c \in Children(cpu_parent[c])
    /\ \A n \in DOMAIN parent :
         /\ Indices(cpu_range[n]) = {c \in DOMAIN cpu_parent : n \in Ancestors(c)}
         /\ Indices(non_cpu_range[n]) = {m \in DOMAIN parent : parent[m] = n}
    /\ \A c, d \in DOMAIN cpu_parent :
         /\ Cardinality(Ancestors(c)) = MAX_POWER_LEVEL
         /\ \A n \in Ancestors(c) \cap Ancestors(d) :
              AncestorsOf(n) \subseteq Ancestors(c) \cap Ancestors(d)
=============================================================================
