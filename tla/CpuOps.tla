------------------------------- MODULE CpuOps -------------------------------
(***************************************************************************)
(* What is specific to the CPU: the errata of errata_framework.rs and of   *)
(* cpu/*.rs, the hooks of the trait Cpu around a power down, and the       *)
(* Errata Management service, on one core.                                 *)
(*                                                                         *)
(* The model is a platform with every CPU of cpu/ in its CPU_OPS and every *)
(* erratum in its ERRATA_LIST; MIDR_EL1 tells which CPU the core is.  A    *)
(* workaround is the set of register bits or instruction patches that it   *)
(* leaves behind.  Nothing interrupts a hook, so a hook is one action.     *)
(***************************************************************************)
EXTENDS Integers, Sequences

CONSTANTS REV,        \* values of MIDR_EL1.Revision and MIDR_EL1.Variant
          Geometry,   \* descriptions of a cache
          WORD_BITS   \* width of the operand of DC CISW (32 in the code)

VARIABLES
  midr,    \* [part, revision, variant], and clusteridr_el1
  caches,  \* [1 .. 3 -> Geometry]
  pc,      \* "reset", "run", "powering_down", "wfi", "panic"
  patched, \* the workarounds in force
  pwrdn,   \* CORE_PWRDN_EN of IMP_CPUPWRCTLR_EL1
  dirty,   \* cache lines not written back
  level,   \* highest power level that goes down
  answer   \* of EM_CPU_ERRATUM_FEATURES, until the core's next WFI

vars == <<midr, caches, pc, patched, pwrdn, dirty, level, answer>>

\* The fields Revision and Variant have four bits.
RevisionAssumption == REV \subseteq 0 .. 15

-----------------------------------------------------------------------------
(* The errata.                                                             *)

NOT_FIXED == <<255, 255>>

Erratum(id, part, on, from, fixed_in, sets) ==
  [id |-> id, part |-> part, apply_on |-> on, apply_from |-> from,
   fixed_in |-> fixed_in, sets |-> sets]

Erratum3300099 == Erratum(3300099, "C1Pro", "Runtime", <<0, 0>>, <<1, 1>>, {})
Erratum3773617 == Erratum(3773617, "C1Pro", "Runtime", <<1, 1>>, <<1, 2>>, {})
Erratum3619847 ==
  Erratum(3619847, "C1Pro", "Reset", <<0, 0>>, <<1, 0>>, {<<"actlr2", 42>>})
Erratum3686597 ==
  Erratum(3686597, "C1Pro", "Runtime", <<0, 0>>, <<1, 1>>, {<<"ectlr", 57>>})
Erratum3694158 ==
  Erratum(3694158, "C1Pro", "Reset", <<0, 0>>, <<1, 2>>, {<<"patch", 5>>})
Erratum3684268 ==
  Erratum(3684268, "C1Pro", "Reset", <<0, 0>>, <<1, 1>>, {<<"ectlr2", 49>>})
Erratum3706576 ==
  Erratum(3706576, "C1Pro", "Reset", <<0, 0>>, <<1, 1>>, {<<"actlr2", 37>>})

Erratum3658374 ==
  Erratum(3658374, "C1Ultra", "Runtime", <<0, 0>>, NOT_FIXED, {})
Erratum3705939 ==
  Erratum(3705939, "C1Ultra", "Reset", <<0, 0>>, NOT_FIXED, {<<"actlr", 48>>})
Erratum3815514 ==
  Erratum(3815514, "C1Ultra", "Reset", <<0, 0>>, NOT_FIXED, {<<"actlr5", 13>>})
Erratum3865171 ==
  Erratum(3865171, "C1Ultra", "Reset", <<0, 0>>, NOT_FIXED, {<<"actlr2", 22>>})
Erratum3926381 ==
  Erratum(3926381, "C1Ultra", "Reset", <<1, 0>>, NOT_FIXED,
          {<<"patch", 0>>, <<"patch", 1>>})
Erratum4102704 ==
  Erratum(4102704, "C1Ultra", "Reset", <<0, 0>>, NOT_FIXED, {<<"actlr4", 23>>})

DsuErratum3396010 ==
  Erratum(3396010, "Dsu", "Reset", <<0, 0>>, <<0, 1>>, {<<"clusteractlr", 15>>})

ERRATA_LIST ==
  <<Erratum3300099, Erratum3773617, Erratum3619847, Erratum3686597,
    Erratum3694158, Erratum3684268, Erratum3706576, Erratum3658374,
    Erratum3705939, Erratum3815514, Erratum3865171, Erratum3926381,
    Erratum4102704, DsuErratum3396010>>
Errata == {ERRATA_LIST[i] : i \in DOMAIN ERRATA_LIST}

\* The revision above the variant, each a field of four bits; the fields of
\* NOT_FIXED overlap.
Packed(rv) == IF rv = NOT_FIXED THEN 4095 ELSE 16 * rv[1] + rv[2]

implement_erratum_check(e) ==
  /\ e.part = midr.part
  /\ Packed(<<midr.revision, midr.variant>>) >= Packed(e.apply_from)
  /\ Packed(<<midr.revision, midr.variant>>) < Packed(e.fixed_in)

DsuCheck == midr.clusteridr <= 0

check(e) == IF e.part = "Dsu" THEN DsuCheck ELSE implement_erratum_check(e)

erratum_applies(id) == \E e \in Errata : e.id = id /\ check(e)

errata_ich_vmcr_el2_applies ==
  \/ erratum_applies(3300099)
  \/ erratum_applies(3658374)
  \/ erratum_applies(3773617)

\* A bug: the loop stops at the last entry instead of after it.
SkipLastEntry ==
  UNION {ERRATA_LIST[i].sets :
          i \in {j \in DOMAIN ERRATA_LIST \ {Len(ERRATA_LIST)} :
                  ERRATA_LIST[j].apply_on = "Reset" /\ check(ERRATA_LIST[j])}}
apply_reset_errata ==
  UNION {ERRATA_LIST[i].sets :
          i \in {j \in DOMAIN ERRATA_LIST :
                  ERRATA_LIST[j].apply_on = "Reset" /\ check(ERRATA_LIST[j])}}

-----------------------------------------------------------------------------
(* Caches by set and way.                                                  *)

HasData(l) == caches[l].type \notin {"NoCache", "InstructionOnly"}

\* num_sets and associativity are one less than the numbers of sets and ways.
Lines(l) == IF HasData(l)
            THEN (0 .. caches[l].associativity) \X (0 .. caches[l].num_sets)
            ELSE {}
AllLines == UNION {{<<l, line>> : line \in Lines(l)} : l \in 1 .. 3}

leading_zeros(n) == CHOOSE z \in 0 .. WORD_BITS :
                      /\ n < 2 ^ (WORD_BITS - z)
                      /\ z = WORD_BITS \/ n >= 2 ^ (WORD_BITS - z - 1)

\* The line that DC CISW finds in its operand: the way in the highest bits, as
\* many as number the ways of the cache, the set above the offset in a line.
cisw(l, operand) ==
  LET way_shift == leading_zeros(caches[l].associativity)
  IN  <<operand \div 2 ^ way_shift,
        (operand % 2 ^ way_shift) \div 2 ^ (caches[l].line_size_log + 4)>>

\* A bug: the ways are counted, not shifted to the top of the operand.
UnshiftedWays(l) ==
  LET line_length == 2 ^ (caches[l].line_size_log + 4)
  IN  {cisw(l, 2 * l + way + set * line_length) :
        way \in 0 .. caches[l].associativity, set \in 0 .. caches[l].num_sets}
\* The operands in steps of a way and of a set.  In a build that does not check
\* for overflow a shift by the whole word is no shift.
FlushLevel(l) ==
  LET assoc_shift == leading_zeros(caches[l].associativity)
      ways_aligned == caches[l].associativity * 2 ^ (assoc_shift % WORD_BITS)
      way_step == 2 ^ assoc_shift
      line_length == 2 ^ (caches[l].line_size_log + 4)
      max_set_num == caches[l].num_sets * line_length
  IN  {cisw(l, 2 * l + way_step * w + line_length * s) :
        w \in 0 .. ways_aligned \div way_step,
        s \in 0 .. max_set_num \div line_length}

flush_cache_levels(levels) ==
  UNION {{<<l, line>> : line \in FlushLevel(l)} :
          l \in {k \in levels : HasData(k)}}

-----------------------------------------------------------------------------
(* The hooks of the trait Cpu.                                             *)

CPU_OPS == {"AemGeneric", "C1Pro", "C1Ultra", "QemuMax"}
find_cpu_ops == {ops \in CPU_OPS : ops = midr.part}

\* A bug: the handler trusts the reset value of CORE_PWRDN_EN.
TrustReset(p) == p
\* A reset may have left CORE_PWRDN_EN set.
C1ProReset(p) == FALSE
C1UltraReset(p) == FALSE
reset_handler(p) ==
  CASE midr.part = "C1Pro" -> C1ProReset(p)
    [] midr.part = "C1Ultra" -> C1UltraReset(p)
    [] OTHER -> p

\* What the power_down hooks of a CPU do: the workarounds that they run, the
\* lines that they clean, and CORE_PWRDN_EN.
C1ProPowerDown ==
  [sets |-> IF check(Erratum3686597) THEN Erratum3686597.sets ELSE {},
   cleaned |-> {}, pwrdn |-> TRUE]
C1UltraPowerDown == [sets |-> {}, cleaned |-> {}, pwrdn |-> TRUE]
QemuMaxPowerDown == [sets |-> {}, cleaned |-> {}, pwrdn |-> FALSE]
AemPowerDown(l) ==
  LET own == {1} \cup IF caches[3].type # "NoCache" THEN {2} ELSE {}
  IN  [sets |-> {}, pwrdn |-> FALSE,
       cleaned |-> flush_cache_levels(IF l = 0 THEN own ELSE 1 .. 3)]

PowerDownHook(l) ==
  CASE midr.part = "C1Pro" -> C1ProPowerDown
    [] midr.part = "C1Ultra" -> C1UltraPowerDown
    [] midr.part = "QemuMax" -> QemuMaxPowerDown
    [] midr.part = "AemGeneric" -> AemPowerDown(l)

\* The CPUs that may abandon a power down; the default hook panics.
Abandons == midr.part \in {"C1Pro", "C1Ultra"}
handle_power_down_abandon == FALSE

-----------------------------------------------------------------------------
NoAnswer == [id |-> 0, status |-> "none"]

Init ==
  /\ midr \in [part : CPU_OPS \cup {"Other"}, revision : REV, variant : REV,
               clusteridr : {0, 1}]
  /\ midr.part \notin {"C1Pro", "C1Ultra"} => midr.clusteridr = 1
  /\ midr.part \notin {"C1Pro", "C1Ultra"} =>
       midr.revision = 0 /\ midr.variant = 0
  /\ caches \in IF midr.part = "AemGeneric" THEN [1 .. 3 -> Geometry]
                ELSE {[l \in 1 .. 3 |-> [type |-> "NoCache"]]}
  /\ pc = "reset"
  /\ patched = {}
  /\ pwrdn = FALSE
  /\ dirty = {}
  /\ level = 0
  /\ answer = NoAnswer

\* bl31_entrypoint and bl31_warm_entrypoint: apply_reset_errata, then
\* cpu_reset_handler, which panics for a CPU that the platform does not know.
Boot ==
  /\ pc = "reset"
  /\ IF find_cpu_ops = {}
     THEN pc' = "panic" /\ UNCHANGED <<patched, pwrdn, dirty>>
     ELSE /\ pc' = "run"
          /\ patched' = apply_reset_errata
          /\ pwrdn' = reset_handler(pwrdn)
          /\ dirty' = AllLines
  /\ UNCHANGED <<midr, caches, level, answer>>

\* cpu_power_down(l).  Until then any line of a cache may be dirty.
cpu_power_down(l) ==
  /\ pc = "run"
  /\ pc' = "powering_down"
  /\ level' = l
  /\ LET hook == PowerDownHook(l)
     IN  /\ pwrdn' = hook.pwrdn
         /\ patched' = patched \cup hook.sets
         /\ dirty' = dirty \ hook.cleaned
  /\ answer' = NoAnswer
  /\ UNCHANGED <<midr, caches>>

\* The WFI of a power down takes the core's power: it comes back by a reset,
\* which keeps no register but may leave CORE_PWRDN_EN set.
PowerOff ==
  /\ pc = "powering_down"
  /\ pc' = "reset"
  /\ patched' = {}
  /\ pwrdn' \in {FALSE, pwrdn}
  /\ dirty' = {}
  /\ UNCHANGED <<midr, caches, level, answer>>

\* An interrupt ends the WFI before the point of no return.  Only the C1 CPUs
\* abandon a power down.
Abandon ==
  /\ pc = "powering_down"
  /\ Abandons
  /\ pwrdn' = handle_power_down_abandon
  /\ pc' = "run"
  /\ UNCHANGED <<midr, caches, patched, dirty, level, answer>>

\* The WFI of a standby or retention state, and its end.
Standby ==
  /\ pc \in {"run", "wfi"}
  /\ pc' = IF pc = "run" THEN "wfi" ELSE "run"
  /\ answer' = NoAnswer
  /\ UNCHANGED <<midr, caches, patched, pwrdn, dirty, level>>

-----------------------------------------------------------------------------
(* EM_CPU_ERRATUM_FEATURES.                                                *)

cpu_erratum_features(id, forward, originator, reserved) ==
  CASE reserved # 0 -> "InvalidParameters"
    [] reserved = 0 /\ forward /\ originator # "El2" -> "InvalidParameters"
    [] OTHER ->
         LET known == {i \in DOMAIN ERRATA_LIST : ERRATA_LIST[i].id = id}
         IN  IF known = {} THEN "UnknownErratum"
             ELSE LET first == CHOOSE i \in known : \A j \in known : i <= j
                  IN  IF check(ERRATA_LIST[first]) THEN "HigherElMitigation"
                                                   ELSE "NotAffected"

Ask(id, forward, originator, reserved) ==
  /\ pc = "run"
  /\ answer' = [id |-> id, status |-> cpu_erratum_features(id, forward,
                                                          originator, reserved)]
  /\ UNCHANGED <<midr, caches, pc, patched, pwrdn, dirty, level>>

Next ==
  \/ Boot
  \/ \E l \in 0 .. 2 : cpu_power_down(l)
  \/ PowerOff
  \/ Abandon
  \/ Standby
  \/ \E id \in {e.id : e \in Errata} \cup {1}, forward \in BOOLEAN,
        originator \in {"El1", "El2"}, reserved \in {0, 1} :
       Ask(id, forward, originator, reserved)

Spec == Init /\ [][Next]_vars

-----------------------------------------------------------------------------
(* Properties.                                                             *)

\* The order derived for RevisionVariant: first the revision, then the variant.
Before(a, b) == a[1] < b[1] \/ (a[1] = b[1] /\ a[2] < b[2])
Affected(e) ==
  IF e.part = "Dsu" THEN midr.clusteridr = 0
  ELSE LET rv == <<midr.revision, midr.variant>>
       IN  e.part = midr.part /\ ~Before(rv, e.apply_from)
           /\ Before(rv, e.fixed_in)

\* Whether EL3 works around an erratum on this core.
Mitigated(e) ==
  \/ e.apply_on = "Reset" /\ e.sets \subseteq patched
  \/ e.id \in {3300099, 3658374, 3773617} /\ errata_ich_vmcr_el2_applies
  \/ e.id = 3686597 /\ e.sets \subseteq C1ProPowerDown.sets

\* What EM_CPU_ERRATUM_FEATURES tells the normal world is so: an erratum that
\* it calls mitigated has its workaround in force on this core, also after the
\* core went off and came back, and one that it calls fixed is fixed in this
\* revision (cpu_erratum_features, apply_reset_errata, C1Pro::power_down_level0
\* and errata_ich_vmcr_el2_applies walk the list on their own).
ReportsTheTruth ==
  \A e \in Errata : answer.id = e.id =>
    /\ answer.status = "HigherElMitigation" => Affected(e) /\ Mitigated(e)
    /\ answer.status = "NotAffected" => ~Affected(e)
    /\ answer.status # "UnknownErratum"

\* CORE_PWRDN_EN is set from cpu_power_down to the reset or to the abandoned
\* WFI, and at no other time: the WFI of a standby state, or of the normal
\* world, would lose the core (reset_handler, handle_power_down_abandon).
StandbyKeepsPower == pc \in {"run", "wfi"} => ~pwrdn

\* When the core powers down its private caches hold no dirty line, and the
\* caches of the cluster none when the cluster goes down: flush_cache_levels
\* reaches every set and way of every level with data, for every geometry.
PrivateLevels == {1} \cup IF caches[3].type # "NoCache" THEN {2} ELSE {}
CachesFlushed ==
  pc = "powering_down" =>
    \A line \in dirty : level = 0 /\ line[1] \notin PrivateLevels
=============================================================================
