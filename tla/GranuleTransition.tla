-------------------------- MODULE GranuleTransition --------------------------
(***************************************************************************)
(* The granule transition service of the RMMD (GTSI_DELEGATE and           *)
(* GTSI_UNDELEGATE in src/services/rmmd.rs) on the granule protection      *)
(* table, while the worlds go on using memory.                             *)
(*                                                                         *)
(* The caches are external.  Of a granule, per physical address space, a   *)
(* cache holds nothing, "data" read or written through that space, or a    *)
(* line "left" from before the checks were enabled.  An access goes        *)
(* through if the table allows it, or a TLB that has not been told.        *)
(***************************************************************************)
EXTENDS Gpt, Sequences

CONSTANTS Core,
          NoCore,
          PA,                    \* addresses the RMM passes
          InitialL1              \* level 1 tables set up by the boot loader

ASSUME TransitionAssumption == NoCore \notin Core /\ 0 \in PA /\ PA \subseteq Nat

\* What the boot loader hands over: level 0 entries are tables of their own or
\* blocks, and the tables are programmed correctly.
ASSUME BootAssumption ==
  /\ \A i \in L0Index :
       is_table(L0[i]) \/ (is_block(L0[i]) /\ L0[i].gpi \in GPIAccessType)
  /\ \A i, j \in L0Index :
       is_table(L0[i]) /\ is_table(L0[j]) /\ L0[i].table = L0[j].table => i = j
  /\ \A tables \in InitialL1 : ProgrammedCorrectly(tables)

VARIABLES gpt_lock,              \* owner of the SpinMutex around the table
          todo,                  \* steps left of the core's call
          base_pa,               \* argument of the core's call
          lines,                 \* cache lines of each granule
          tlb                    \* address spaces the TLBs let through

callVars == <<todo, base_pa>>
vars == <<l1, gpt_lock, callVars, lines, tlb>>

PAS == {NonSecure, Realm}

\* The steps of a handler, in order: a flush of the granule's lines in one
\* address space, a write of its GPI, the invalidation that ends `set`.
Step(op, gpi) == [op |-> op, gpi |-> gpi]
Steps == [op : {"flush", "set", "tlbi"}, gpi : PAS \cup {NoAccess}]

\* Mutant: set returns without the invalidation.
SetWithoutTlbi(gpi) == <<Step("set", gpi)>>

Set(gpi) == <<Step("set", gpi), Step("tlbi", gpi)>>

\* Mutant: a flush is missing.
DelegateWithoutTargetFlush == Set(Realm) \o <<Step("flush", NonSecure)>>

GtsiDelegate ==
  <<Step("flush", Realm)>> \o Set(Realm) \o <<Step("flush", NonSecure)>>

GtsiUndelegate ==
  Set(NoAccess) \o <<Step("flush", Realm), Step("flush", NonSecure)>>
  \o Set(NonSecure)

TypeOK ==
  /\ GptTypeOK
  /\ gpt_lock \in Core \cup {NoCore}
  /\ todo \in [Core -> Seq(Steps)]
  /\ base_pa \in [Core -> PA]
  /\ lines \in [Granule -> [PAS -> {"none", "left", "data"}]]
  /\ tlb \in [Granule -> SUBSET PAS]

Init ==
  /\ l1 \in InitialL1
  /\ gpt_lock = NoCore
  /\ todo = [c \in Core |-> <<>>]
  /\ base_pa = [c \in Core |-> 0]
  /\ lines \in [Granule -> {[p \in PAS |-> "none"]} \cup
                           {[p \in PAS |-> IF p = q THEN "left" ELSE "none"] :
                              q \in PAS}]
  /\ \A g \in Granule : \A p \in PAS :
       lines[g][p] = "left" => lookup(GranuleBase(g)) \in PAS \ {p}
  /\ tlb = [g \in Granule |-> {}]

-----------------------------------------------------------------------------
(* The handlers.                                                           *)

\* What the checks before the first change answer, under the lock.  "panic"
\* stands for a table that is not programmed correctly.
Checks(pa, from) ==
  IF pa % PgsSize # 0 THEN "Unknown"
  ELSE IF lookup(pa) = InvalidRequest THEN "BadAddress"
  ELSE IF lookup(pa) = InvalidEntry THEN "panic"
  ELSE IF lookup(pa) # from THEN "BadPas" ELSE "Ok"

\* The RMM calls: the lock is taken, and released at once when a check fails.
Call(c, from, steps) ==
  /\ gpt_lock = NoCore
  /\ \E pa \in PA :
       \/ /\ Checks(pa, from) # "Ok"
          /\ UNCHANGED <<gpt_lock, callVars>>
       \/ /\ Checks(pa, from) = "Ok"
          /\ gpt_lock' = c
          /\ base_pa' = [base_pa EXCEPT ![c] = pa]
          /\ todo' = [todo EXCEPT ![c] = steps]
  /\ UNCHANGED <<l1, lines, tlb>>

\* The handler returns, with Ok or an error; the guard of the lock is dropped.
Return(c) ==
  /\ gpt_lock' = NoCore
  /\ base_pa' = [base_pa EXCEPT ![c] = 0]
  /\ todo' = [todo EXCEPT ![c] = <<>>]

Delegate(c) == Call(c, NonSecure, GtsiDelegate)
Undelegate(c) == Call(c, Realm, GtsiUndelegate)

Doing(c, op) == todo[c] # <<>> /\ Head(todo[c]).op = op
Done(c) == todo' = [todo EXCEPT ![c] = Tail(@)]

\* flush_dcache_to_popa_range on the granule.
Flush(c) ==
  /\ Doing(c, "flush")
  /\ lines' = [lines EXCEPT ![GranuleOf(base_pa[c])][Head(todo[c]).gpi] = "none"]
  /\ Done(c)
  /\ UNCHANGED <<l1, gpt_lock, base_pa, tlb>>

\* A granule in a block or contiguous descriptor can be looked up, not set.
SetStep(c) ==
  /\ Doing(c, "set")
  /\ \/ /\ set_result(base_pa[c]) = Ok
        /\ set_gpi(base_pa[c], Head(todo[c]).gpi)
        /\ Done(c)
        /\ UNCHANGED <<gpt_lock, base_pa>>
     \/ /\ set_result(base_pa[c]) # Ok
        /\ Return(c)
        /\ UNCHANGED l1
  /\ UNCHANGED <<lines, tlb>>

Tlbi(c) ==
  /\ Doing(c, "tlbi")
  /\ tlb' = [tlb EXCEPT ![GranuleOf(base_pa[c])] = {}]
  /\ Done(c)
  /\ UNCHANGED <<l1, gpt_lock, base_pa, lines>>

Finish(c) ==
  /\ gpt_lock = c /\ todo[c] = <<>>
  /\ Return(c)
  /\ UNCHANGED <<l1, lines, tlb>>

\* A world reads or writes a granule through its address space.
Access(g, p) ==
  /\ lookup(GranuleBase(g)) = p \/ p \in tlb[g]
  /\ lines' = [lines EXCEPT ![g][p] = IF @ = "none" THEN "data" ELSE @]
  /\ tlb' = [tlb EXCEPT ![g] = @ \cup {p}]
  /\ UNCHANGED <<l1, gpt_lock, callVars>>

Handler(c) == Flush(c) \/ SetStep(c) \/ Tlbi(c) \/ Finish(c)

Next ==
  \/ \E c \in Core : Delegate(c) \/ Undelegate(c) \/ Handler(c)
  \/ \E g \in Granule : \E p \in PAS : Access(g, p)

Spec == Init /\ [][Next]_vars /\ \A c \in Core : WF_vars(Handler(c))

-----------------------------------------------------------------------------
(* Properties.                                                             *)

Gpi == [g \in Granule |-> lookup(GranuleBase(g))]

\* The core that is moving granule g.
Moving(g) ==
  gpt_lock # NoCore /\ GranuleOf(base_pa[gpt_lock]) = g

\* The granule on its way back to the normal world, if there is one.
Returning ==
  IF gpt_lock # NoCore /\ lookup(base_pa[gpt_lock]) = NoAccess
  THEN GranuleOf(base_pa[gpt_lock]) ELSE -1

\* After a call, the world that owns a granule finds no line from before it
\* owned it, and no line of the other world can be written back over its data
\* (the flushes of GTSI_DELEGATE and GTSI_UNDELEGATE, in their order).  While a
\* granule is delegated the realm world has not been told that it owns it; one
\* that is undelegated is clean as soon as it can be accessed.
CachesClean ==
  \A g \in Granule : \A p, q \in PAS :
    Gpi[g] = p /\ (Moving(g) => p = NonSecure) =>
      /\ lines[g][p] # "left"
      /\ q # p => lines[g][q] # "data"

\* Unless a call is moving it, a granule is accessible to its owner only: no TLB
\* holds an older answer (the end of GranuleProtection::set).
OwnerOnly ==
  \A g \in Granule : ~Moving(g) => tlb[g] \subseteq {Gpi[g]}

\* The handlers move single granules between the two worlds and nothing else,
\* although sixteen granules share a word and a descriptor's kind is encoded in
\* the field of its first granule.
Map == INSTANCE GranuleMap WITH
  Granules <- Granule, GPI <- GPIAccessType, gpi <- Gpi,
  NormalGpi <- NonSecure, RealmGpi <- Realm, NobodyGpi <- NoAccess,
  NoGranule <- -1, returning <- Returning
ImplementsGranuleMap == Map!Spec

\* A granule taken from the realm world reaches the normal world: no path of
\* GTSI_UNDELEGATE leaves it inaccessible.
NothingStranded ==
  \A g \in {h \in Granule : is_table(L0Entry(GranuleBase(h)))} :
    Moving(g) /\ Gpi[g] \notin PAS ~> Gpi[g] = NonSecure
=============================================================================
