--------------------------- MODULE ContextProofs ---------------------------
(***************************************************************************)
(* The registers of one core across world switches: the theorems of        *)
(* WorldSwitch (vector registers) come first, then those of                *)
(* RegisterContexts (system registers).                                    *)
(*                                                                         *)
(* RegistersKept and NoUndefinedAccess for every core and build: any set   *)
(* of features, any number of MPAM partition registers, either build, with *)
(* and without the realm world and the erratum; and for worlds that write  *)
(* whatever they like to the registers they have.                          *)
(*                                                                         *)
(* What a world left in a register is still in that register, or, while    *)
(* another world runs and the register is one of those that switch_world   *)
(* copies, in the world's saved context.  It stays there because a         *)
(* register that is not copied is used by the normal world only.           *)
(*                                                                         *)
(* FoundAsLeft and NoFaultAtEl3 for every build and any registers a world  *)
(* leaves nonzero: what a world that is not running left is in its         *)
(* contexts.  A save changes no register but p0, which is in its context   *)
(* by then; a restore sets the streaming mode, which wipes registers,      *)
(* before it writes those, and FFR, which goes through p0, before p0.      *)
(***************************************************************************)
EXTENDS RegisterContexts, TLAPS

CONSTANTS World, Build
VARIABLES build, vec_world, vec_core, vec_left

\* The vector registers and what goes with them.
Vec == INSTANCE WorldSwitch WITH
  world <- vec_world, core <- vec_core, left <- vec_left

-----------------------------------------------------------------------------
(* The vector registers: WorldSwitch, for every build and set of worlds.   *)

\* The registers and everything EL3 has saved.
CoreType ==
  [regs : [Vec!Reg -> Vec!Value], cptr : SUBSET Vec!Trap, fault : BOOLEAN,
   el1 : [World -> Vec!Value], ext : [World -> Vec!Value],
   simd : [World -> Vec!SimdCpuContext], sve : Vec!SveCpuContext, amu : Vec!Value]

\* Whether the state of FFR is kept: it exists in the mode that was saved.
FfrKept(m) == Vec!has_sme /\ m.sve.svcr = 1 => Vec!has_fa64

\* What a world w left, l, is what EL3 has saved of it; its activity monitors stay
\* in their registers.
Saved(m, l, w) ==
  /\ l["el1"] \in {Vec!Unknown, m.el1[w]} /\ l["ext"] \in {Vec!Unknown, m.ext[w]}
  /\ w = "NonSecure" => l["amu"] \in {Vec!Unknown, m.regs["amu"]}
  /\ IF w = "NonSecure" /\ Vec!has_sve
     THEN /\ l["q"] \in {Vec!Unknown, m.sve.q} /\ l["z"] \in {Vec!Unknown, m.sve.z}
          /\ l["p"] \in {Vec!Unknown, m.sve.p} /\ l["fp"] \in {Vec!Unknown, m.sve.fp}
          /\ Vec!has_sme => l["sm"] \in {Vec!Unknown, m.sve.svcr}
          /\ FfrKept(m) => l["ffr"] \in {Vec!Unknown, m.sve.ffr}
     ELSE l["q"] \in {Vec!Unknown, m.simd[w].q} /\ l["fp"] \in {Vec!Unknown, m.simd[w].fp}

\* What a world left, l, is in the registers it has access to.
Found(m, l) == \A r \in Vec!Accessible(m) : l[r] \in {Vec!Unknown, m.regs[r]}

\* The streaming mode is off for good on a core without it.
ModeInv(m) == ~Vec!has_sme => m.regs["sm"] = 0

\* What each world last saw.
LeftType == [World -> [Vec!Reg -> Vec!Value \cup {Vec!Unknown}]]

\* The inductive invariant, of any registers and contexts m, worlds' views l and
\* running world w.
Good(m, l, w) ==
  /\ w \in World /\ m \in CoreType /\ l \in LeftType
  /\ m.cptr = Vec!world_context(w) /\ m.fault = FALSE /\ ModeInv(m)
  /\ Found(m, l[w])
  /\ \A v \in World \ {w} : Saved(m, l[v], v)

\* The invariant of the model.
VecInv == build \in Build /\ Good(vec_core, vec_left, vec_world)

-----------------------------------------------------------------------------
(* Accesses that do not trap.                                              *)

\* A use that is allowed leaves no trace.
LEMMA Allowed ==
  ASSUME NEW m \in CoreType, NEW rs, rs \subseteq Vec!Accessible(m)
  PROVE  Vec!Using(m, rs) = m
<1>1. (m.fault \/ ~(rs \subseteq Vec!Accessible(m))) = m.fault
  BY DEF CoreType
<1> QED
  BY <1>1 DEF Vec!Using, CoreType

\* EL3 with CPTR_EL3 open.
Opened(m) == "TFP" \notin m.cptr /\ {"EZ", "ESM"} \subseteq m.cptr

\* With CPTR_EL3 open EL3 may use every vector register that exists.
LEMMA OpenedAll ==
  ASSUME NEW m, Opened(m)
  PROVE  /\ {"q", "z", "p", "fp", "sm"} \subseteq Vec!Accessible(m)
         /\ m.regs["sm"] = 0 \/ Vec!has_fa64 => "ffr" \in Vec!Accessible(m)
BY ZenonT(40) DEF Opened, Vec!Accessible, Vec!FfrExists

\* What a step that leaves most of the core alone leaves alone.
Rest(n, m) ==
  /\ n.cptr = m.cptr /\ n.fault = m.fault /\ n.el1 = m.el1 /\ n.ext = m.ext
  /\ n.simd = m.simd /\ n.amu = m.amu

\* save_predicates copies the predicates and changes no register.
LEMMA SavePredicates ==
  ASSUME NEW m \in CoreType, Opened(m), NEW n, n = Vec!save_predicates(m)
  PROVE  /\ n \in CoreType /\ n.regs = m.regs /\ Rest(n, m)
         /\ n.sve = [m.sve EXCEPT !.p = m.regs["p"]]
<1>1. Vec!Using(m, {"p"}) = m
  BY OpenedAll, Allowed, ZenonT(40)
<1>2. n = [m EXCEPT !.sve = [m.sve EXCEPT !.p = m.regs["p"]]]
  BY <1>1 DEF Vec!save_predicates
<1> QED
  BY <1>2 DEF CoreType, Rest, Vec!SveCpuContext, Vec!Reg

\* save_svcr copies the streaming mode where there is one.
LEMMA SaveSvcr ==
  ASSUME NEW m \in CoreType, Opened(m), NEW n, n = Vec!save_svcr(m)
  PROVE  /\ n \in CoreType /\ n.regs = m.regs /\ Rest(n, m)
         /\ n.sve = IF Vec!has_sme THEN [m.sve EXCEPT !.svcr = m.regs["sm"]] ELSE m.sve
<1>1. Vec!Using(m, {"sm"}) = m
  BY OpenedAll, Allowed, ZenonT(40)
<1>2. CASE Vec!has_sme
  <2>1. n = [m EXCEPT !.sve = [m.sve EXCEPT !.svcr = m.regs["sm"]]]
    BY <1>1, <1>2 DEF Vec!save_svcr
  <2> QED
    BY <1>2, <2>1, SMTT(40) DEF CoreType, Rest, Vec!SveCpuContext, Vec!Reg
<1>3. CASE ~Vec!has_sme
  BY <1>3 DEF Vec!save_svcr, Rest
<1> QED
  BY <1>2, <1>3

\* save_ffr copies FFR, and p0 is lost on the way.
LEMMA SaveFfr ==
  ASSUME NEW m \in CoreType, Opened(m), m.regs["sm"] = 0 \/ Vec!has_fa64, NEW n, n = Vec!save_ffr(m)
  PROVE  /\ n \in CoreType /\ Rest(n, m)
         /\ n.regs = [m.regs EXCEPT !["p"] = m.regs["ffr"]]
         /\ n.sve = [m.sve EXCEPT !.ffr = m.regs["ffr"]]
<1>1. Vec!Using(m, {"p", "ffr"}) = m
  BY OpenedAll, Allowed, ZenonT(40)
<1>2. n = [m EXCEPT !.regs = [m.regs EXCEPT !["p"] = m.regs["ffr"]],
                    !.sve = [m.sve EXCEPT !.ffr = m.regs["ffr"]]]
  BY <1>1, ZenonT(40) DEF Vec!save_ffr
<1>3. PICK f : f = [m.regs EXCEPT !["p"] = m.regs["ffr"]]
  BY ZenonT(40)
<1>4. PICK s : s = [m.sve EXCEPT !.ffr = m.regs["ffr"]]
  BY ZenonT(40)
<1>5. f \in [Vec!Reg -> Vec!Value] /\ s \in Vec!SveCpuContext
  BY <1>3, <1>4 DEF CoreType, Vec!SveCpuContext, Vec!Reg
<1>6. n = [m EXCEPT !.regs = f, !.sve = s]
  BY <1>2, <1>3, <1>4, ZenonT(40)
<1>7. n \in CoreType /\ Rest(n, m) /\ n.regs = f /\ n.sve = s
  BY <1>5, <1>6, ZenonT(40) DEF CoreType, Rest
<1> QED
  BY <1>3, <1>4, <1>7, ZenonT(40)

\* save_vectors copies the vector registers.
LEMMA SaveVectors ==
  ASSUME NEW m \in CoreType, Opened(m), NEW n, n = Vec!save_vectors(m)
  PROVE  /\ n \in CoreType /\ n.regs = m.regs /\ Rest(n, m)
         /\ n.sve = [m.sve EXCEPT !.q = m.regs["q"], !.z = m.regs["z"]]
<1>1. Vec!Using(m, {"q", "z"}) = m
  BY OpenedAll, Allowed, ZenonT(40)
<1>2. n = [m EXCEPT !.sve = [m.sve EXCEPT !.q = m.regs["q"], !.z = m.regs["z"]]]
  BY <1>1, ZenonT(40) DEF Vec!save_vectors
<1>3. PICK s : s = [m.sve EXCEPT !.q = m.regs["q"], !.z = m.regs["z"]]
  OBVIOUS
<1>4. s \in Vec!SveCpuContext
  BY <1>3, ZenonT(40) DEF CoreType, Vec!SveCpuContext, Vec!Reg
<1>5. n = [m EXCEPT !.sve = s]
  BY <1>2, <1>3, ZenonT(40)
<1>6. n \in CoreType /\ Rest(n, m) /\ n.regs = m.regs /\ n.sve = s
  BY <1>4, <1>5 DEF CoreType, Rest
<1> QED
  BY <1>3, <1>6, ZenonT(40)

\* save_fp_state copies FPSR and FPCR.
LEMMA SaveFpState ==
  ASSUME NEW m \in CoreType, Opened(m), NEW n, n = Vec!save_fp_state(m)
  PROVE  /\ n \in CoreType /\ n.regs = m.regs /\ Rest(n, m)
         /\ n.sve = [m.sve EXCEPT !.fp = m.regs["fp"]]
<1>1. Vec!Using(m, {"fp"}) = m
  BY OpenedAll, Allowed, ZenonT(40)
<1>2. n = [m EXCEPT !.sve = [m.sve EXCEPT !.fp = m.regs["fp"]]]
  BY <1>1 DEF Vec!save_fp_state
<1> QED
  BY <1>2 DEF CoreType, Rest, Vec!SveCpuContext, Vec!Reg

\* SveCpuContext::save: every register is in the context, and only p0 was used.
SveHolds(n, m) ==
  /\ n \in CoreType /\ Rest(n, m)
  /\ \A r \in Vec!Reg \ {"p"} : n.regs[r] = m.regs[r]
  /\ n.sve.q = m.regs["q"] /\ n.sve.z = m.regs["z"] /\ n.sve.p = m.regs["p"]
  /\ n.sve.fp = m.regs["fp"] /\ (Vec!has_sme => n.sve.svcr = m.regs["sm"])
  /\ FfrKept(n) => n.sve.ffr = m.regs["ffr"]

\* SveCpuContext::save fills the context: the predicates are copied before FFR
\* goes through p0.
LEMMA SveSaved ==
  ASSUME NEW m \in CoreType, Opened(m), ModeInv(m), NEW n, n = Vec!SveSave(m)
  PROVE  SveHolds(n, m)
<1>1. PICK a : a = Vec!save_predicates(m)
  OBVIOUS
<1>2. PICK b : b = Vec!save_svcr(a)
  OBVIOUS
<1>3. PICK c : c = Vec!SaveFfrIfAny(b)
  OBVIOUS
<1>4. PICK d : d = Vec!save_vectors(c)
  OBVIOUS
<1>5. n = Vec!save_fp_state(d)
  BY <1>1, <1>2, <1>3, <1>4 DEF Vec!SveSave
<1>6. /\ a \in CoreType /\ a.regs = m.regs /\ Rest(a, m)
      /\ a.sve = [m.sve EXCEPT !.p = m.regs["p"]]
  BY <1>1, SavePredicates, ZenonT(40)
<1>7. Opened(a)
  BY <1>6 DEF Opened, Rest
<1>8. /\ b \in CoreType /\ b.regs = m.regs /\ Rest(b, m)
      /\ b.sve = IF Vec!has_sme THEN [a.sve EXCEPT !.svcr = m.regs["sm"]] ELSE a.sve
  <2>1. /\ b \in CoreType /\ b.regs = a.regs /\ Rest(b, a)
        /\ b.sve = IF Vec!has_sme THEN [a.sve EXCEPT !.svcr = a.regs["sm"]] ELSE a.sve
    BY <1>2, <1>6, <1>7, SaveSvcr, ZenonT(40)
  <2> QED
    BY <1>6, <2>1 DEF Rest
<1>9. Opened(b)
  BY <1>8 DEF Opened, Rest
<1>10. /\ b.sve.p = m.regs["p"] /\ (Vec!has_sme => b.sve.svcr = m.regs["sm"])
  BY <1>6, <1>8 DEF CoreType, Vec!SveCpuContext
<1>11. /\ c \in CoreType /\ Rest(c, m) /\ c.sve.p = m.regs["p"] /\ c.sve.svcr = b.sve.svcr
       /\ \A r \in Vec!Reg \ {"p"} : c.regs[r] = m.regs[r]
       /\ FfrKept(b) => c.sve.ffr = m.regs["ffr"]
  <2>1. CASE Vec!should_save_restore_ffr(b)
    <3>1. b.regs["sm"] = 0 \/ Vec!has_fa64
      BY <1>8, <1>10, <2>1 DEF Vec!should_save_restore_ffr, ModeInv, CoreType, Vec!Reg, Vec!Value
    <3>2. c = Vec!save_ffr(b)
      BY <1>3, <2>1 DEF Vec!SaveFfrIfAny
    <3>3. /\ c \in CoreType /\ Rest(c, b)
          /\ c.regs = [b.regs EXCEPT !["p"] = b.regs["ffr"]]
          /\ c.sve = [b.sve EXCEPT !.ffr = b.regs["ffr"]]
      BY <1>8, <1>9, <3>1, <3>2, SaveFfr, ZenonT(40)
    <3>4. c.sve.ffr = m.regs["ffr"] /\ c.sve.p = b.sve.p /\ c.sve.svcr = b.sve.svcr
      BY <1>8, <3>3 DEF CoreType, Vec!SveCpuContext
    <3>5. \A r \in Vec!Reg \ {"p"} : c.regs[r] = m.regs[r]
      BY <1>8, <3>3 DEF CoreType
    <3> QED
      BY <1>8, <1>10, <3>3, <3>4, <3>5 DEF Rest
  <2>2. CASE ~Vec!should_save_restore_ffr(b)
    <3>1. c = b /\ ~FfrKept(b)
      BY <1>3, <2>2 DEF Vec!SaveFfrIfAny, FfrKept, Vec!should_save_restore_ffr
    <3> QED
      BY <1>8, <1>10, <3>1, ZenonT(40)
  <2> QED
    BY <2>1, <2>2
<1>12. Opened(c)
  BY <1>11 DEF Opened, Rest
<1>13. /\ d \in CoreType /\ d.regs = c.regs /\ Rest(d, c)
       /\ d.sve = [c.sve EXCEPT !.q = c.regs["q"], !.z = c.regs["z"]]
  BY <1>4, <1>11, <1>12, SaveVectors, ZenonT(40)
<1>14. Opened(d)
  BY <1>12, <1>13 DEF Opened, Rest
<1>15. /\ n \in CoreType /\ n.regs = d.regs /\ Rest(n, d)
       /\ n.sve = [d.sve EXCEPT !.fp = d.regs["fp"]]
  BY <1>5, <1>13, <1>14, SaveFpState, ZenonT(40)
<1>16. /\ d.sve.q = m.regs["q"] /\ d.sve.z = m.regs["z"] /\ d.sve.p = m.regs["p"]
       /\ d.sve.svcr = b.sve.svcr /\ d.sve.ffr = c.sve.ffr
  BY <1>11, <1>13 DEF CoreType, Vec!SveCpuContext, Vec!Reg
<1>17. /\ n.sve.q = d.sve.q /\ n.sve.z = d.sve.z /\ n.sve.p = d.sve.p
       /\ n.sve.svcr = d.sve.svcr /\ n.sve.ffr = d.sve.ffr /\ n.sve.fp = m.regs["fp"]
  BY <1>11, <1>13, <1>15 DEF CoreType, Vec!SveCpuContext, Vec!Reg
<1>18. FfrKept(n) <=> FfrKept(b)
  BY <1>16, <1>17 DEF FfrKept
<1>19. Rest(n, m)
  BY <1>11, <1>13, <1>15 DEF Rest
<1> QED
  BY <1>10, <1>11, <1>13, <1>15, <1>16, <1>17, <1>18, <1>19 DEF SveHolds

\* A restore step: registers rs change, and nothing else.
Loads(n, m, rs) ==
  /\ n \in CoreType /\ Rest(n, m) /\ n.sve = m.sve
  /\ \A r \in Vec!Reg \ rs : n.regs[r] = m.regs[r]

\* One that leaves f in the registers.
LEMMA LoadsFile ==
  ASSUME NEW m \in CoreType, NEW f \in [Vec!Reg -> Vec!Value], NEW n, n = [m EXCEPT !.regs = f],
         NEW rs, \A r \in Vec!Reg \ rs : f[r] = m.regs[r]
  PROVE  Loads(n, m, rs) /\ n.regs = f
<1>1. n \in CoreType /\ Rest(n, m) /\ n.regs = f /\ n.sve = m.sve
  BY DEF CoreType, Rest
<1> QED
  BY <1>1, ZenonT(40) DEF Loads

\* restore_svcr sets the streaming mode, and wipes the rest if that changes it.
LEMMA RestoreSvcr ==
  ASSUME NEW m \in CoreType, Opened(m), NEW n, n = Vec!restore_svcr(m)
  PROVE  /\ Loads(n, m, Vec!Wiped \cup {"sm"})
         /\ Vec!has_sme => n.regs["sm"] = m.sve.svcr
         /\ ~Vec!has_sme => n.regs = m.regs
<1>1. Vec!Using(m, {"sm"}) = m
  BY OpenedAll, Allowed, ZenonT(40)
<1>2. CASE n = m /\ (Vec!has_sme => m.regs["sm"] = m.sve.svcr)
  BY <1>2, ZenonT(40) DEF Loads, Rest
<1>3. CASE Vec!has_sme /\ m.regs["sm"] # m.sve.svcr
  <2>1. PICK f : f = [r \in Vec!Reg |-> IF r = "sm" THEN m.sve.svcr
                                   ELSE IF r \in Vec!Wiped THEN 0 ELSE m.regs[r]]
    BY ZenonT(40)
  <2>2. n = [m EXCEPT !.regs = f]
    BY <1>1, <1>3, <2>1, ZenonT(40) DEF Vec!restore_svcr, Vec!WriteSvcr
  <2>3. m.sve.svcr \in Vec!Value /\ 0 \in Vec!Value /\ m.regs \in [Vec!Reg -> Vec!Value] /\ "sm" \in Vec!Reg
    BY DEF CoreType, Vec!SveCpuContext, Vec!Value, Vec!Reg
  <2>4. f \in [Vec!Reg -> Vec!Value] /\ f["sm"] = m.sve.svcr
    BY <2>1, <2>3
  <2>5. \A r \in Vec!Reg \ (Vec!Wiped \cup {"sm"}) : f[r] = m.regs[r]
    BY <2>1
  <2>6. Loads(n, m, Vec!Wiped \cup {"sm"}) /\ n.regs = f
    BY <2>2, <2>4, <2>5, LoadsFile, SMTT(40)
  <2> QED
    BY <1>3, <2>4, <2>6, ZenonT(40)
<1>4. CASE ~Vec!has_sme
  <2>1. n = m
    BY <1>4 DEF Vec!restore_svcr
  <2> QED
    BY <1>2, <1>4, <2>1
<1>5. CASE Vec!has_sme /\ m.regs["sm"] = m.sve.svcr
  <2>1. n = m
    BY <1>1, <1>5, ZenonT(40) DEF Vec!restore_svcr, Vec!WriteSvcr
  <2> QED
    BY <1>2, <1>5, <2>1
<1> QED
  BY <1>3, <1>4, <1>5

\* restore_ffr writes FFR and p0.
LEMMA RestoreFfr ==
  ASSUME NEW m \in CoreType, Opened(m), m.regs["sm"] = 0 \/ Vec!has_fa64, NEW n, n = Vec!restore_ffr(m)
  PROVE  Loads(n, m, {"p", "ffr"}) /\ n.regs["ffr"] = m.sve.ffr
<1>1. Vec!Using(m, {"p", "ffr"}) = m
  BY OpenedAll, Allowed, ZenonT(40)
<1>2. PICK f : f = [m.regs EXCEPT !["p"] = m.sve.ffr, !["ffr"] = m.sve.ffr]
  BY ZenonT(40)
<1>3. m.sve.ffr \in Vec!Value /\ m.regs \in [Vec!Reg -> Vec!Value] /\ {"p", "ffr"} \subseteq Vec!Reg
  BY DEF CoreType, Vec!SveCpuContext, Vec!Reg
<1>4. /\ f \in [Vec!Reg -> Vec!Value] /\ f["ffr"] = m.sve.ffr
      /\ \A r \in Vec!Reg \ {"p", "ffr"} : f[r] = m.regs[r]
  BY <1>2, <1>3
<1>5. n = [m EXCEPT !.regs = f]
  BY <1>1, <1>2, ZenonT(40) DEF Vec!restore_ffr
<1> QED
  BY <1>4, <1>5, LoadsFile, SMTT(40)

\* restore_predicates writes the predicates only.
LEMMA RestorePredicates ==
  ASSUME NEW m \in CoreType, Opened(m), NEW n, n = Vec!restore_predicates(m)
  PROVE  Loads(n, m, {"p"}) /\ n.regs["p"] = m.sve.p
<1>1. Vec!Using(m, {"p"}) = m
  BY OpenedAll, Allowed, ZenonT(40)
<1>2. PICK f : f = [m.regs EXCEPT !["p"] = m.sve.p]
  BY ZenonT(40)
<1>3. m.sve.p \in Vec!Value /\ m.regs \in [Vec!Reg -> Vec!Value] /\ {"p"} \subseteq Vec!Reg
  BY DEF CoreType, Vec!SveCpuContext, Vec!Reg
<1>4. /\ f \in [Vec!Reg -> Vec!Value] /\ f["p"] = m.sve.p
      /\ \A r \in Vec!Reg \ {"p"} : f[r] = m.regs[r]
  BY <1>2, <1>3
<1>5. n = [m EXCEPT !.regs = f]
  BY <1>1, <1>2, ZenonT(40) DEF Vec!restore_predicates
<1> QED
  BY <1>4, <1>5, LoadsFile, SMTT(40)

\* restore_vectors writes the vector registers only.
LEMMA RestoreVectors ==
  ASSUME NEW m \in CoreType, Opened(m), NEW n, n = Vec!restore_vectors(m)
  PROVE  Loads(n, m, {"q", "z"}) /\ n.regs["q"] = m.sve.q /\ n.regs["z"] = m.sve.z
<1>1. Vec!Using(m, {"q", "z"}) = m
  BY OpenedAll, Allowed, ZenonT(40)
<1>2. PICK f : f = [m.regs EXCEPT !["q"] = m.sve.q, !["z"] = m.sve.z]
  BY ZenonT(40)
<1>3. /\ m.sve.q \in Vec!Value /\ m.sve.z \in Vec!Value /\ m.regs \in [Vec!Reg -> Vec!Value]
      /\ {"q", "z"} \subseteq Vec!Reg
  BY DEF CoreType, Vec!SveCpuContext, Vec!Reg
<1>4. /\ f \in [Vec!Reg -> Vec!Value] /\ f["q"] = m.sve.q /\ f["z"] = m.sve.z
      /\ \A r \in Vec!Reg \ {"q", "z"} : f[r] = m.regs[r]
  BY <1>2, <1>3
<1>5. n = [m EXCEPT !.regs = f]
  BY <1>1, <1>2, ZenonT(40) DEF Vec!restore_vectors
<1> QED
  BY <1>4, <1>5, LoadsFile, SMTT(40)

\* restore_fp_state writes FPSR and FPCR only.
LEMMA RestoreFpState ==
  ASSUME NEW m \in CoreType, Opened(m), NEW n, n = Vec!restore_fp_state(m)
  PROVE  Loads(n, m, {"fp"}) /\ n.regs["fp"] = m.sve.fp
<1>1. Vec!Using(m, {"fp"}) = m
  BY OpenedAll, Allowed, ZenonT(40)
<1>2. PICK f : f = [m.regs EXCEPT !["fp"] = m.sve.fp]
  BY ZenonT(40)
<1>3. m.sve.fp \in Vec!Value /\ m.regs \in [Vec!Reg -> Vec!Value] /\ {"fp"} \subseteq Vec!Reg
  BY DEF CoreType, Vec!SveCpuContext, Vec!Reg
<1>4. /\ f \in [Vec!Reg -> Vec!Value] /\ f["fp"] = m.sve.fp
      /\ \A r \in Vec!Reg \ {"fp"} : f[r] = m.regs[r]
  BY <1>2, <1>3
<1>5. n = [m EXCEPT !.regs = f]
  BY <1>1, <1>2, ZenonT(40) DEF Vec!restore_fp_state
<1> QED
  BY <1>4, <1>5, LoadsFile, SMTT(40)

\* A step keeps CPTR_EL3 open.
LEMMA LoadsOpened ==
  ASSUME NEW n, NEW m, NEW rs, Loads(n, m, rs), Opened(m)
  PROVE  Opened(n)
BY SMTT(40) DEF Loads, Rest, Opened

\* SveCpuContext::restore: every register is what the context says, and no step
\* spoils what an earlier one restored.
LEMMA SveRestored ==
  ASSUME NEW m \in CoreType, Opened(m), ModeInv(m), NEW n, n = Vec!SveRestore(m)
  PROVE  /\ Loads(n, m, Vec!Wiped \cup {"sm"})
         /\ n.regs["q"] = m.sve.q /\ n.regs["z"] = m.sve.z /\ n.regs["p"] = m.sve.p
         /\ n.regs["fp"] = m.sve.fp /\ (Vec!has_sme => n.regs["sm"] = m.sve.svcr)
         /\ FfrKept(m) => n.regs["ffr"] = m.sve.ffr
         /\ ModeInv(n)
<1>1. PICK a : a = Vec!restore_svcr(m)
  BY ZenonT(40)
<1>2. PICK b : b = Vec!RestoreFfrIfAny(a)
  BY ZenonT(40)
<1>3. PICK c : c = Vec!restore_predicates(b)
  BY ZenonT(40)
<1>4. PICK d : d = Vec!restore_vectors(c)
  BY ZenonT(40)
<1>5. n = Vec!restore_fp_state(d)
  BY <1>1, <1>2, <1>3, <1>4, ZenonT(40) DEF Vec!SveRestore
<1>6. /\ Loads(a, m, Vec!Wiped \cup {"sm"})
      /\ Vec!has_sme => a.regs["sm"] = m.sve.svcr
      /\ ~Vec!has_sme => a.regs = m.regs
  BY <1>1, RestoreSvcr, ZenonT(40)
<1>7. Opened(a)
  BY <1>6, LoadsOpened, ZenonT(40)
<1>8. a \in CoreType /\ a.sve = m.sve
  BY <1>6 DEF Loads
<1>9. /\ Loads(b, a, {"p", "ffr"})
      /\ FfrKept(m) => b.regs["ffr"] = m.sve.ffr
  <2>1. CASE Vec!should_save_restore_ffr(a)
    <3>1. a.regs["sm"] = 0 \/ Vec!has_fa64
      <4>1. a.regs["sm"] \in Vec!Value
        BY <1>8 DEF CoreType, Vec!Reg
      <4> QED
        BY <1>6, <1>8, <2>1, <4>1 DEF Vec!should_save_restore_ffr, ModeInv, Vec!Value
    <3>2. b = Vec!restore_ffr(a)
      BY <1>2, <2>1, ZenonT(40) DEF Vec!RestoreFfrIfAny
    <3> QED
      BY <1>7, <1>8, <3>1, <3>2, RestoreFfr, SMTT(40)
  <2>2. CASE ~Vec!should_save_restore_ffr(a)
    <3>1. b = a /\ ~FfrKept(m)
      BY <1>2, <1>8, <2>2 DEF Vec!RestoreFfrIfAny, FfrKept, Vec!should_save_restore_ffr
    <3> QED
      BY <1>8, <3>1, ZenonT(40) DEF Loads, Rest
  <2> QED
    BY <2>1, <2>2
<1>10. Opened(b) /\ b \in CoreType /\ b.sve = m.sve
  BY <1>7, <1>8, <1>9, LoadsOpened, SMTT(40) DEF Loads
<1>11. Loads(c, b, {"p"}) /\ c.regs["p"] = m.sve.p
  BY <1>3, <1>10, RestorePredicates, SMTT(40)
<1>12. Opened(c) /\ c \in CoreType /\ c.sve = m.sve
  BY <1>10, <1>11, LoadsOpened, SMTT(40) DEF Loads
<1>13. Loads(d, c, {"q", "z"}) /\ d.regs["q"] = m.sve.q /\ d.regs["z"] = m.sve.z
  BY <1>4, <1>12, RestoreVectors, SMTT(40)
<1>14. Opened(d) /\ d \in CoreType /\ d.sve = m.sve
  BY <1>12, <1>13, LoadsOpened, SMTT(40) DEF Loads
<1>15. Loads(n, d, {"fp"}) /\ n.regs["fp"] = m.sve.fp
  BY <1>5, <1>14, RestoreFpState, SMTT(40)
<1>16. n \in CoreType /\ n.sve = m.sve
  BY <1>14, <1>15, SMTT(40) DEF Loads
<1>17. Rest(n, m)
  BY <1>6, <1>9, <1>11, <1>13, <1>15, SMTT(40) DEF Loads, Rest
<1>18. \A r \in Vec!Reg \ (Vec!Wiped \cup {"sm"}) : n.regs[r] = m.regs[r]
  BY <1>6, <1>9, <1>11, <1>13, <1>15, SMTT(40) DEF Loads, Vec!Wiped
<1>19. /\ n.regs["q"] = d.regs["q"] /\ n.regs["z"] = d.regs["z"]
       /\ n.regs["p"] = c.regs["p"] /\ n.regs["ffr"] = b.regs["ffr"]
       /\ n.regs["sm"] = a.regs["sm"]
  BY <1>9, <1>11, <1>13, <1>15 DEF Loads, Vec!Reg
<1>20. ModeInv(n)
  BY <1>6, <1>19 DEF ModeInv
<1> QED
  BY <1>6, <1>9, <1>11, <1>13, <1>15, <1>16, <1>17, <1>18, <1>19, <1>20 DEF Loads

\* The context of world w in m holds register file f.
InContext(m, f, w) ==
  IF w = "NonSecure" /\ Vec!has_sve
  THEN /\ m.sve.q = f["q"] /\ m.sve.z = f["z"] /\ m.sve.p = f["p"]
       /\ m.sve.fp = f["fp"] /\ (Vec!has_sme => m.sve.svcr = f["sm"])
       /\ FfrKept(m) => m.sve.ffr = f["ffr"]
  ELSE m.simd[w].q = f["q"] /\ m.simd[w].fp = f["fp"]

\* The contexts of the worlds other than w are the same in n as in m.
OthersKept(n, m, w) ==
  \A v \in World \ {w} :
    /\ n.el1[v] = m.el1[v] /\ n.ext[v] = m.ext[v] /\ n.simd[v] = m.simd[v]
    /\ v = "NonSecure" /\ Vec!has_sve => n.sve = m.sve

\* n differs from m at most in CPTR_EL3.
OnlyCptr(n, m) ==
  /\ n \in CoreType /\ n.regs = m.regs /\ n.fault = m.fault
  /\ n.el1 = m.el1 /\ n.ext = m.ext /\ n.simd = m.simd /\ n.sve = m.sve
  /\ n.amu = m.amu

\* Opening CPTR_EL3 changes nothing else.
LEMMA OpenOpens ==
  ASSUME NEW m \in CoreType, NEW n, n = Vec!Open(m)
  PROVE  Opened(n) /\ OnlyCptr(n, m)
BY DEF Vec!Open, CoreType, Opened, OnlyCptr, Vec!Trap

\* Putting CPTR_EL3 back changes nothing else.
LEMMA PutBack ==
  ASSUME NEW m \in CoreType, NEW c \in SUBSET Vec!Trap, NEW n, n = [m EXCEPT !.cptr = c]
  PROVE  n.cptr = c /\ OnlyCptr(n, m)
BY DEF CoreType, OnlyCptr

\* SimdCpuContext of world w holds the registers of m, and only it differs.
SimdHolds(n, m, w) ==
  /\ n \in CoreType /\ n.regs = m.regs /\ n.cptr = m.cptr /\ n.fault = m.fault
  /\ n.el1 = m.el1 /\ n.ext = m.ext /\ n.sve = m.sve /\ n.amu = m.amu
  /\ n.simd[w].q = m.regs["q"] /\ n.simd[w].fp = m.regs["fp"]
  /\ \A v \in World \ {w} : n.simd[v] = m.simd[v]

\* SimdCpuContext::save writes the context of one world.
LEMMA SimdSaved ==
  ASSUME NEW m \in CoreType, Opened(m), NEW w \in World, NEW n, n = Vec!SimdSave(m, w)
  PROVE  SimdHolds(n, m, w)
<1>1. Vec!Using(m, {"q", "fp"}) = m
  BY OpenedAll, Allowed, ZenonT(40)
<1>2. PICK s : s = [q |-> m.regs["q"], fp |-> m.regs["fp"]]
  BY ZenonT(40)
<1>3. n = [m EXCEPT !.simd[w] = s]
  BY <1>1, <1>2 DEF Vec!SimdSave
<1>4. s \in Vec!SimdCpuContext /\ s.q = m.regs["q"] /\ s.fp = m.regs["fp"]
  BY <1>2 DEF Vec!SimdCpuContext, CoreType, Vec!Reg
<1>5. n.simd = [m.simd EXCEPT ![w] = s] /\ m.simd \in [World -> Vec!SimdCpuContext]
  BY <1>3 DEF CoreType
<1> QED
  BY <1>3, <1>4, <1>5, SMTT(40) DEF CoreType, SimdHolds

\* SimdCpuContext::restore writes vectors and FP status.
LEMMA SimdRestored ==
  ASSUME NEW m \in CoreType, Opened(m), NEW w \in World, NEW n, n = Vec!SimdRestore(m, w)
  PROVE  /\ Loads(n, m, {"q", "z", "fp"})
         /\ n.regs["q"] = m.simd[w].q /\ n.regs["fp"] = m.simd[w].fp
<1>1. Vec!Using(m, {"q", "fp"}) = m
  BY OpenedAll, Allowed, ZenonT(40)
<1>2. m.simd[w] \in Vec!SimdCpuContext /\ m.regs \in [Vec!Reg -> Vec!Value]
  BY DEF CoreType
<1>3. PICK f : f = [m.regs EXCEPT !["q"] = m.simd[w].q, !["z"] = 0,
                                  !["fp"] = m.simd[w].fp]
  BY ZenonT(40)
<1>4. /\ f \in [Vec!Reg -> Vec!Value] /\ f["q"] = m.simd[w].q /\ f["fp"] = m.simd[w].fp
      /\ \A r \in Vec!Reg \ {"q", "z", "fp"} : f[r] = m.regs[r]
  BY <1>2, <1>3 DEF Vec!Reg, Vec!Value, Vec!SimdCpuContext
<1>5. n = [m EXCEPT !.regs = f]
  BY <1>1, <1>3, ZenonT(40) DEF Vec!SimdRestore, Vec!WriteQ, CoreType
<1> QED
  BY <1>4, <1>5, LoadsFile, ZenonT(40)

\* The vector context of world w holds the registers of m, and only it differs.
ContextHolds(n, m, w) ==
  /\ n \in CoreType /\ n.cptr = m.cptr /\ n.fault = m.fault
  /\ n.el1 = m.el1 /\ n.ext = m.ext /\ n.amu = m.amu
  /\ n.regs["sm"] = m.regs["sm"] /\ n.regs["amu"] = m.regs["amu"]
  /\ InContext(n, m.regs, w) /\ OthersKept(n, m, w)

\* Simd::save_context: the context of the world takes what the registers hold.
LEMMA ContextSaved ==
  ASSUME NEW m \in CoreType, ModeInv(m), NEW w \in World, NEW n, n = Vec!save_context(m, w)
  PROVE  ContextHolds(n, m, w)
<1>1. PICK o : o = Vec!Open(m)
  BY ZenonT(40)
<1>a. Opened(o) /\ OnlyCptr(o, m)
  BY <1>1, OpenOpens, ZenonT(40)
<1>2. /\ o \in CoreType /\ Opened(o)
      /\ o.regs = m.regs /\ o.fault = m.fault /\ o.el1 = m.el1 /\ o.ext = m.ext
      /\ o.simd = m.simd /\ o.sve = m.sve /\ o.amu = m.amu
  BY <1>a DEF OnlyCptr
<1>3. m.cptr \in SUBSET Vec!Trap
  BY DEF CoreType
<1>4. CASE w = "NonSecure" /\ Vec!has_sve
  <2>1. PICK s : s = Vec!SveSave(o)
    BY ZenonT(40)
  <2>2. n = [s EXCEPT !.cptr = m.cptr]
    BY <1>1, <1>4, <2>1 DEF Vec!save_context
  <2>3. ModeInv(o)
    BY <1>2 DEF ModeInv
  <2>4. /\ s \in CoreType /\ Rest(s, o)
        /\ \A r \in Vec!Reg \ {"p"} : s.regs[r] = o.regs[r]
        /\ s.sve.q = o.regs["q"] /\ s.sve.z = o.regs["z"] /\ s.sve.p = o.regs["p"]
        /\ s.sve.fp = o.regs["fp"] /\ (Vec!has_sme => s.sve.svcr = o.regs["sm"])
        /\ FfrKept(s) => s.sve.ffr = o.regs["ffr"]
    <3>1. SveHolds(s, o)
      BY <1>2, <2>1, <2>3, SveSaved, ZenonT(40)
    <3> QED
      BY <3>1 DEF SveHolds
  <2>b. n.cptr = m.cptr /\ OnlyCptr(n, s)
    BY <1>3, <2>2, <2>4, PutBack, ZenonT(40)
  <2>5. /\ n \in CoreType /\ n.cptr = m.cptr
        /\ n.regs = s.regs /\ n.fault = s.fault /\ n.el1 = s.el1 /\ n.ext = s.ext
        /\ n.simd = s.simd /\ n.sve = s.sve /\ n.amu = s.amu
    BY <2>b, SMTT(40) DEF OnlyCptr
  <2>6. /\ n.fault = m.fault /\ n.el1 = m.el1 /\ n.ext = m.ext /\ n.simd = m.simd
        /\ n.amu = m.amu
    BY <1>2, <2>4, <2>5, SMTT(40) DEF Rest
  <2>7. n.regs["sm"] = m.regs["sm"] /\ n.regs["amu"] = m.regs["amu"]
    BY <1>2, <2>4, <2>5, SMTT(40) DEF Vec!Reg
  <2>8. InContext(n, m.regs, w)
    BY <1>2, <1>4, <2>4, <2>5 DEF InContext, FfrKept
  <2>9. OthersKept(n, m, w)
    BY <1>4, <2>6, ZenonT(40) DEF OthersKept
  <2> QED
    BY <2>5, <2>6, <2>7, <2>8, <2>9 DEF ContextHolds
<1>5. CASE ~(w = "NonSecure" /\ Vec!has_sve)
  <2>1. PICK s : s = Vec!SimdSave(o, w)
    BY ZenonT(40)
  <2>2. n = [s EXCEPT !.cptr = m.cptr]
    BY <1>1, <1>5, <2>1, SMTT(40) DEF Vec!save_context
  <2>3. /\ s \in CoreType /\ s.regs = o.regs /\ s.cptr = o.cptr /\ s.fault = o.fault
        /\ s.el1 = o.el1 /\ s.ext = o.ext /\ s.sve = o.sve /\ s.amu = o.amu
        /\ s.simd[w].q = o.regs["q"] /\ s.simd[w].fp = o.regs["fp"]
        /\ \A v \in World \ {w} : s.simd[v] = o.simd[v]
    <3>1. SimdHolds(s, o, w)
      BY <1>2, <2>1, SimdSaved, ZenonT(40)
    <3> QED
      BY <3>1 DEF SimdHolds
  <2>b. n.cptr = m.cptr /\ OnlyCptr(n, s)
    BY <1>3, <2>2, <2>3, PutBack, ZenonT(40)
  <2>4. /\ n \in CoreType /\ n.cptr = m.cptr
        /\ n.regs = s.regs /\ n.fault = s.fault /\ n.el1 = s.el1 /\ n.ext = s.ext
        /\ n.simd = s.simd /\ n.sve = s.sve /\ n.amu = s.amu
    BY <2>b DEF OnlyCptr
  <2>5. InContext(n, m.regs, w)
    BY <1>2, <1>5, <2>3, <2>4 DEF InContext
  <2>6. OthersKept(n, m, w)
    BY <1>2, <2>3, <2>4, ZenonT(40) DEF OthersKept
  <2> QED
    BY <1>2, <2>3, <2>4, <2>5, <2>6 DEF ContextHolds
<1> QED
  BY <1>4, <1>5

\* Simd::restore_context: the registers take what the context of the world holds.
LEMMA ContextRestored ==
  ASSUME NEW m \in CoreType, ModeInv(m), NEW w \in World, NEW n, n = Vec!restore_context(m, w)
  PROVE  /\ Loads(n, m, Vec!Wiped \cup {"sm"}) /\ InContext(n, n.regs, w) /\ ModeInv(n)
<1>1. PICK o : o = Vec!Open(m)
  BY ZenonT(40)
<1>a. Opened(o) /\ OnlyCptr(o, m)
  BY <1>1, OpenOpens, ZenonT(40)
<1>2. /\ o \in CoreType /\ Opened(o)
      /\ o.regs = m.regs /\ o.fault = m.fault /\ o.el1 = m.el1 /\ o.ext = m.ext
      /\ o.simd = m.simd /\ o.sve = m.sve /\ o.amu = m.amu
  BY <1>a DEF OnlyCptr
<1>3. m.cptr \in SUBSET Vec!Trap /\ ModeInv(o)
  BY <1>2 DEF CoreType, ModeInv
<1>4. PICK s : s = IF w = "NonSecure" /\ Vec!has_sve THEN Vec!SveRestore(o) ELSE Vec!SimdRestore(o, w)
  BY ZenonT(40)
<1>5. n = [s EXCEPT !.cptr = m.cptr]
  BY <1>1, <1>4, ZenonT(40) DEF Vec!restore_context
<1>6. Loads(s, o, Vec!Wiped \cup {"sm"}) /\ InContext(s, s.regs, w) /\ ModeInv(s)
  <2>1. CASE w = "NonSecure" /\ Vec!has_sve
    <3>1. s = Vec!SveRestore(o)
      BY <1>4, <2>1
    <3>2. /\ Loads(s, o, Vec!Wiped \cup {"sm"})
          /\ s.regs["q"] = o.sve.q /\ s.regs["z"] = o.sve.z /\ s.regs["p"] = o.sve.p
          /\ s.regs["fp"] = o.sve.fp /\ (Vec!has_sme => s.regs["sm"] = o.sve.svcr)
          /\ FfrKept(o) => s.regs["ffr"] = o.sve.ffr
          /\ ModeInv(s)
      BY <1>2, <1>3, <3>1, SveRestored, ZenonT(40)
    <3>3. s.sve = o.sve
      BY <3>2 DEF Loads
    <3> QED
      BY <2>1, <3>2, <3>3 DEF InContext, FfrKept
  <2>2. CASE ~(w = "NonSecure" /\ Vec!has_sve)
    <3>1. s = Vec!SimdRestore(o, w)
      BY <1>4, <2>2
    <3>2. /\ Loads(s, o, {"q", "z", "fp"})
          /\ s.regs["q"] = o.simd[w].q /\ s.regs["fp"] = o.simd[w].fp
      BY <1>2, <3>1, SimdRestored, ZenonT(40)
    <3>3. s.simd = o.simd /\ s.regs["sm"] = o.regs["sm"]
      BY <3>2, SMTT(40) DEF Loads, Rest, Vec!Reg
    <3>4. Loads(s, o, Vec!Wiped \cup {"sm"})
      BY <3>2, SMTT(40) DEF Loads, Vec!Wiped
    <3> QED
      BY <1>3, <2>2, <3>2, <3>3, <3>4 DEF InContext, ModeInv
  <2> QED
    BY <2>1, <2>2, SMTT(40)
<1>7. s \in CoreType /\ Rest(s, o) /\ s.sve = o.sve
  BY <1>6 DEF Loads
<1>b. n.cptr = m.cptr /\ OnlyCptr(n, s)
  BY <1>3, <1>5, <1>7, PutBack, ZenonT(40)
<1>8. /\ n \in CoreType /\ n.cptr = m.cptr
      /\ n.regs = s.regs /\ n.fault = s.fault /\ n.el1 = s.el1 /\ n.ext = s.ext
      /\ n.simd = s.simd /\ n.sve = s.sve /\ n.amu = s.amu
  BY <1>b DEF OnlyCptr
<1>9. Rest(n, m) /\ n.sve = m.sve
  BY <1>2, <1>7, <1>8 DEF Rest
<1>10. \A r \in Vec!Reg \ (Vec!Wiped \cup {"sm"}) : n.regs[r] = m.regs[r]
  BY <1>2, <1>6, <1>8, ZenonT(40) DEF Loads
<1>11. InContext(n, n.regs, w) /\ ModeInv(n)
  BY <1>6, <1>8 DEF InContext, FfrKept, ModeInv
<1> QED
  BY <1>8, <1>9, <1>10, <1>11, ZenonT(40) DEF Loads

-----------------------------------------------------------------------------
(* switch_world.                                                           *)

\* Everything of world w is in its contexts, and the other worlds' contexts are
\* as they were.
Taken(n, m, w) ==
  /\ n \in CoreType /\ n.fault = m.fault /\ ModeInv(n)
  /\ n.el1[w] = m.regs["el1"] /\ n.ext[w] = m.regs["ext"]
  /\ InContext(n, m.regs, w) /\ OthersKept(n, m, w)
  /\ n.regs["amu"] = m.regs["amu"]

\* The saving half of switch_world.
LEMMA WorldSaved ==
  ASSUME NEW m \in CoreType, ModeInv(m), NEW w \in World,
         NEW n, n = Vec!save_context(Vec!SaveRegisters(Vec!save_lower_el_sysregs(m, w), w), w)
  PROVE  Taken(n, m, w)
<1>1. PICK a : a = Vec!save_lower_el_sysregs(m, w)
  BY ZenonT(40)
<1>2. PICK b : b = Vec!SaveRegisters(a, w)
  BY ZenonT(40)
<1>3. n = Vec!save_context(b, w)
  BY <1>1, <1>2
<1>4. /\ a \in CoreType /\ a.regs = m.regs /\ a.cptr = m.cptr /\ a.fault = m.fault
      /\ a.el1 = [m.el1 EXCEPT ![w] = m.regs["el1"]] /\ a.ext = m.ext
      /\ a.simd = m.simd /\ a.sve = m.sve
  BY <1>1, SMTT(40) DEF Vec!save_lower_el_sysregs, CoreType, Vec!Reg
<1>5. /\ b \in CoreType /\ b.regs = m.regs /\ b.cptr = m.cptr /\ b.fault = m.fault
      /\ b.el1 = a.el1 /\ b.ext = [m.ext EXCEPT ![w] = m.regs["ext"]]
      /\ b.simd = m.simd /\ b.sve = m.sve
  BY <1>2, <1>4, SMTT(40) DEF Vec!SaveRegisters, CoreType, Vec!Reg
<1>6. ModeInv(b)
  BY <1>5 DEF ModeInv
<1>7. ContextHolds(n, b, w)
  BY <1>3, <1>5, <1>6, ContextSaved, ZenonT(40)
<1>8. m.el1 \in [World -> Vec!Value] /\ m.ext \in [World -> Vec!Value]
  BY DEF CoreType
<1>9. \A v \in World \ {w} : b.el1[v] = m.el1[v] /\ b.ext[v] = m.ext[v]
  BY <1>4, <1>5, <1>8, SMTT(40)
<1>10. n.el1[w] = m.regs["el1"] /\ n.ext[w] = m.regs["ext"] /\ n.el1 = b.el1 /\ n.ext = b.ext
  BY <1>4, <1>5, <1>7, <1>8 DEF ContextHolds
<1>11. OthersKept(n, m, w)
  <2>1. OthersKept(n, b, w) /\ b.simd = m.simd /\ b.sve = m.sve
    BY <1>5, <1>7, ZenonT(40) DEF ContextHolds
  <2> QED
    BY <1>9, <1>10, <2>1, ZenonT(40) DEF OthersKept
<1>12. n \in CoreType /\ n.fault = m.fault /\ ModeInv(n) /\ n.regs["amu"] = m.regs["amu"]
  BY <1>5, <1>7 DEF ContextHolds, ModeInv
<1>13. InContext(n, m.regs, w)
  BY <1>5, <1>7, ZenonT(40) DEF ContextHolds
<1> QED
  BY <1>10, <1>11, <1>12, <1>13, ZenonT(40) DEF Taken

\* The registers are those of world w's contexts, which stay as they were.
Back(n, m, w) ==
  /\ n \in CoreType /\ n.cptr = Vec!world_context(w) /\ n.fault = m.fault
  /\ n.el1 = m.el1 /\ n.ext = m.ext /\ n.simd = m.simd /\ n.sve = m.sve
  /\ n.regs["amu"] = m.regs["amu"]
  /\ n.regs["el1"] = n.el1[w] /\ n.regs["ext"] = n.ext[w]
  /\ InContext(n, n.regs, w) /\ ModeInv(n)

\* The restoring half of switch_world, which is also set_initial_world.
LEMMA WorldRestored ==
  ASSUME NEW m \in CoreType, ModeInv(m), NEW w \in World, NEW n, n = Vec!restore_world(m, w)
  PROVE  Back(n, m, w)
<1>1. PICK a : a = Vec!restore_el3_sysregs(m, w)
  BY ZenonT(40)
<1>2. PICK b : b = Vec!RestoreRegisters(a, w)
  BY ZenonT(40)
<1>3. PICK c : c = Vec!restore_context(b, w)
  BY ZenonT(40)
<1>4. n = Vec!restore_lower_el_sysregs(c, w)
  BY <1>1, <1>2, <1>3 DEF Vec!restore_world
<1>5. Vec!world_context(w) \in SUBSET Vec!Trap
  BY DEF Vec!world_context, Vec!Trap
<1>6. a.cptr = Vec!world_context(w) /\ OnlyCptr(a, m)
  BY <1>1, <1>5, PutBack, ZenonT(40) DEF Vec!restore_el3_sysregs
<1>7. /\ b \in CoreType /\ b.cptr = Vec!world_context(w) /\ b.fault = m.fault
      /\ b.el1 = m.el1 /\ b.ext = m.ext /\ b.simd = m.simd /\ b.sve = m.sve
      /\ b.regs = [m.regs EXCEPT !["ext"] = m.ext[w]]
  BY <1>2, <1>6, SMTT(40) DEF Vec!RestoreRegisters, OnlyCptr, CoreType, Vec!Reg
<1>8. /\ b.regs["ext"] = m.ext[w] /\ b.regs["sm"] = m.regs["sm"]
      /\ b.regs["amu"] = m.regs["amu"]
  BY <1>7 DEF CoreType, Vec!Reg
<1>9. ModeInv(b)
  BY <1>8 DEF ModeInv
<1>10. Loads(c, b, Vec!Wiped \cup {"sm"}) /\ InContext(c, c.regs, w) /\ ModeInv(c)
  BY <1>3, <1>7, <1>9, ContextRestored, ZenonT(40)
<1>11. /\ c \in CoreType /\ c.cptr = Vec!world_context(w) /\ c.fault = m.fault
       /\ c.el1 = m.el1 /\ c.ext = m.ext /\ c.simd = m.simd /\ c.sve = m.sve
       /\ c.regs["ext"] = m.ext[w] /\ c.regs["amu"] = m.regs["amu"]
  BY <1>7, <1>8, <1>10, SMTT(40) DEF Loads, Rest, Vec!Reg, Vec!Wiped
<1>12. /\ n \in CoreType /\ n.cptr = c.cptr /\ n.fault = c.fault
       /\ n.el1 = c.el1 /\ n.ext = c.ext /\ n.simd = c.simd /\ n.sve = c.sve
       /\ n.regs = [c.regs EXCEPT !["el1"] = c.el1[w]]
  BY <1>4, <1>11, SMTT(40) DEF Vec!restore_lower_el_sysregs, CoreType, Vec!Reg
<1>13. n.regs["el1"] = c.el1[w] /\ \A r \in Vec!Reg \ {"el1"} : n.regs[r] = c.regs[r]
  BY <1>11, <1>12 DEF CoreType, Vec!Reg
<1>14. InContext(n, n.regs, w) /\ ModeInv(n)
  BY <1>10, <1>12, <1>13, SMTT(40) DEF InContext, FfrKept, ModeInv, Vec!Reg
<1>15. n.regs["amu"] = m.regs["amu"] /\ n.regs["ext"] = m.ext[w]
  BY <1>11, <1>13, SMTT(40) DEF Vec!Reg
<1> QED
  BY <1>11, <1>12, <1>13, <1>14, <1>15 DEF Back

-----------------------------------------------------------------------------
(* What a world left, in its contexts and in the registers.                *)

\* The contexts of world u, and the activity monitors, are the same in n as in m.
SameContext(n, m, u) ==
  /\ n.el1[u] = m.el1[u] /\ n.ext[u] = m.ext[u] /\ n.simd[u] = m.simd[u]
  /\ u = "NonSecure" /\ Vec!has_sve => n.sve = m.sve
  /\ n.regs["amu"] = m.regs["amu"]

\* What a world left stays saved while its contexts are left alone.
LEMMA SavedKept ==
  ASSUME NEW m, NEW n, NEW l, NEW u, Saved(m, l, u), SameContext(n, m, u)
  PROVE  Saved(n, l, u)
BY DEF Saved, SameContext, FfrKept

\* Saving a world that finds its registers as it left them saves what it left.
LEMMA SavedFromFound ==
  ASSUME NEW m \in CoreType, NEW n, NEW l, NEW w \in World, ModeInv(m),
         m.cptr = Vec!world_context(w), Found(m, l), Taken(n, m, w)
  PROVE  Saved(n, l, w)
<1>1. {"el1", "ext", "q", "fp"} \subseteq Vec!Accessible(m)
  BY DEF Vec!Accessible, Vec!world_context
<1>2. l["el1"] \in {Vec!Unknown, n.el1[w]} /\ l["ext"] \in {Vec!Unknown, n.ext[w]}
  BY <1>1 DEF Found, Taken
<1>3. ASSUME w = "NonSecure" PROVE l["amu"] \in {Vec!Unknown, n.regs["amu"]}
  <2>1. "amu" \in Vec!Accessible(m)
    BY <1>3, SMTT(40) DEF Vec!Accessible, Vec!world_context
  <2> QED
    BY <2>1, SMTT(40) DEF Found, Taken
<1>4. CASE w = "NonSecure" /\ Vec!has_sve
  <2>1. "EZ" \in m.cptr /\ {"z", "p"} \subseteq Vec!Accessible(m)
    BY <1>4, SMTT(40) DEF Vec!Accessible, Vec!world_context, Vec!needs_sve_sme
  <2>2. /\ n.sve.q = m.regs["q"] /\ n.sve.z = m.regs["z"] /\ n.sve.p = m.regs["p"]
        /\ n.sve.fp = m.regs["fp"] /\ (Vec!has_sme => n.sve.svcr = m.regs["sm"])
        /\ FfrKept(n) => n.sve.ffr = m.regs["ffr"]
    BY <1>4, SMTT(40) DEF Taken, InContext
  <2>3. /\ l["q"] \in {Vec!Unknown, n.sve.q} /\ l["z"] \in {Vec!Unknown, n.sve.z}
        /\ l["p"] \in {Vec!Unknown, n.sve.p} /\ l["fp"] \in {Vec!Unknown, n.sve.fp}
    BY <1>1, <2>1, <2>2, SMTT(40) DEF Found
  <2>4. ASSUME Vec!has_sme PROVE l["sm"] \in {Vec!Unknown, n.sve.svcr}
    <3>1. "sm" \in Vec!Accessible(m)
      BY <1>4, <2>4, SMTT(40) DEF Vec!Accessible, Vec!world_context, Vec!needs_sve_sme
    <3> QED
      BY <2>2, <2>4, <3>1 DEF Found
  <2>5. ASSUME FfrKept(n) PROVE l["ffr"] \in {Vec!Unknown, n.sve.ffr}
    <3>1. m.regs["sm"] \in {0, 1}
      BY SMTT(40) DEF CoreType, Vec!Reg, Vec!Value
    <3>2. Vec!FfrExists(m)
      BY <2>2, <2>5, <3>1, SMTT(40) DEF FfrKept, Vec!FfrExists, ModeInv
    <3>3. "ffr" \in Vec!Accessible(m)
      BY <2>1, <3>2, SMTT(40) DEF Vec!Accessible
    <3> QED
      BY <2>2, <2>5, <3>3 DEF Found
  <2> QED
    BY <1>2, <1>3, <1>4, <2>3, <2>4, <2>5, SMTT(40) DEF Saved
<1>5. CASE ~(w = "NonSecure" /\ Vec!has_sve)
  <2>1. n.simd[w].q = m.regs["q"] /\ n.simd[w].fp = m.regs["fp"]
    BY <1>5 DEF Taken, InContext
  <2>2. l["q"] \in {Vec!Unknown, n.simd[w].q} /\ l["fp"] \in {Vec!Unknown, n.simd[w].fp}
    BY <1>1, <2>1, SMTT(40) DEF Found
  <2> QED
    BY <1>2, <1>3, <1>5, <2>2, SMTT(40) DEF Saved
<1> QED
  BY <1>4, <1>5

\* Restoring a world whose contexts hold what it left puts that in its registers.
LEMMA FoundFromSaved ==
  ASSUME Vec!BuildAssumption, build \in Build, NEW m, NEW n, NEW l, NEW w \in World,
         Back(n, m, w), Saved(m, l, w)
  PROVE  Found(n, l)
<1>1. Saved(n, l, w)
  <2>1. SameContext(n, m, w)
    BY DEF Back, SameContext
  <2> QED
    BY <2>1, SavedKept, ZenonT(40)
<1>2. w = "Realm" => ~Vec!has_sve /\ ~Vec!has_sme
  BY DEF Vec!BuildAssumption, Vec!has_sve, Vec!has_sme
<1>3. Vec!has_sme => Vec!has_sve
  BY SMTT(40) DEF Vec!has_sve, Vec!has_sme
<1>4. n.cptr = Vec!world_context(w) /\ InContext(n, n.regs, w) /\ ModeInv(n)
  BY SMTT(40) DEF Back
<1> SUFFICES ASSUME NEW r \in Vec!Accessible(n) PROVE l[r] \in {Vec!Unknown, n.regs[r]}
  BY SMTT(40) DEF Found
<1>5. CASE r \in {"el1", "ext"}
  BY <1>1, <1>5, SMTT(40) DEF Saved, Back
<1>6. CASE r = "amu"
  <2>1. w = "NonSecure"
    BY <1>4, <1>6, SMTT(40) DEF Vec!Accessible, Vec!world_context
  <2> QED
    BY <1>1, <1>6, <2>1, SMTT(40) DEF Saved
<1>7. CASE r \in {"q", "fp"}
  BY <1>1, <1>4, <1>7, SMTT(40) DEF Saved, InContext
<1>8. CASE r \in {"z", "p"}
  <2>1. w = "NonSecure" /\ Vec!has_sve
    BY <1>2, <1>4, <1>8, SMTT(40) DEF Vec!Accessible, Vec!world_context, Vec!needs_sve_sme
  <2> QED
    BY <1>1, <1>4, <1>8, <2>1, SMTT(40) DEF Saved, InContext
<1>9. CASE r = "sm"
  <2>1. w = "NonSecure" /\ Vec!has_sve /\ Vec!has_sme
    BY <1>2, <1>3, <1>4, <1>9, SMTT(40) DEF Vec!Accessible, Vec!world_context, Vec!needs_sve_sme
  <2> QED
    BY <1>1, <1>4, <1>9, <2>1, SMTT(40) DEF Saved, InContext
<1>10. CASE r = "ffr"
  <2>1. w = "NonSecure" /\ Vec!has_sve /\ Vec!FfrExists(n)
    BY <1>2, <1>4, <1>10, SMTT(40) DEF Vec!Accessible, Vec!world_context, Vec!needs_sve_sme
  <2>2. FfrKept(n)
    BY <1>4, <2>1, SMTT(40) DEF FfrKept, Vec!FfrExists, InContext
  <2> QED
    BY <1>1, <1>4, <1>10, <2>1, <2>2, SMTT(40) DEF Saved, InContext
<1>11. Vec!Accessible(n) \subseteq {"el1", "ext", "amu", "q", "fp", "z", "p", "sm", "ffr"}
  BY DEF Vec!Accessible
<1> QED
  BY <1>5, <1>6, <1>7, <1>8, <1>9, <1>10, <1>11, SMTT(40)

-----------------------------------------------------------------------------
(* The steps keep the invariant.                                           *)

\* The world that set_initial_world or switch_world enters finds what it left, and
\* what the others left stays saved.
LEMMA EnterGood ==
  ASSUME Vec!BuildAssumption, build \in Build, NEW m \in CoreType, ModeInv(m),
         m.fault = FALSE, NEW l \in LeftType, NEW w \in World,
         \A v \in World : Saved(m, l[v], v),
         NEW n, n = Vec!restore_world(m, w)
  PROVE  Good(n, l, w)
<1>1. Back(n, m, w)
  BY WorldRestored, ZenonT(40)
<1>2. Found(n, l[w])
  BY <1>1, FoundFromSaved, ZenonT(40)
<1>3. ASSUME NEW v \in World PROVE Saved(n, l[v], v)
  <2>1. SameContext(n, m, v)
    BY <1>1, SMTT(40) DEF Back, SameContext
  <2> QED
    BY <2>1, SavedKept, ZenonT(40)
<1>4. n \in CoreType /\ n.cptr = Vec!world_context(w) /\ n.fault = FALSE /\ ModeInv(n)
  BY <1>1 DEF Back
<1> QED
  BY <1>2, <1>3, <1>4, ZenonT(40) DEF Good

\* switch_world.
LEMMA SwitchGood ==
  ASSUME Vec!BuildAssumption, build \in Build, NEW m, NEW l, NEW w, Good(m, l, w),
         NEW v \in World, NEW n, n = Vec!switch_world(m, w, v)
  PROVE  Good(n, l, v)
<1>1. PICK t : t = Vec!save_context(Vec!SaveRegisters(Vec!save_lower_el_sysregs(m, w), w), w)
  BY ZenonT(40)
<1>2. n = Vec!restore_world(t, v)
  BY <1>1, ZenonT(40) DEF Vec!switch_world
<1>3. /\ w \in World /\ m \in CoreType /\ l \in LeftType /\ m.cptr = Vec!world_context(w)
      /\ m.fault = FALSE /\ ModeInv(m) /\ Found(m, l[w])
  BY ZenonT(40) DEF Good
<1>4. Taken(t, m, w)
  BY <1>1, <1>3, WorldSaved, ZenonT(40)
<1>5. Saved(t, l[w], w)
  BY <1>3, <1>4, SavedFromFound, ZenonT(40)
<1>6. ASSUME NEW u \in World \ {w} PROVE Saved(t, l[u], u)
  <2>1. SameContext(t, m, u)
    BY <1>4 DEF Taken, OthersKept, SameContext
  <2>2. Saved(m, l[u], u)
    BY SMTT(40) DEF Good
  <2> QED
    BY <2>1, <2>2, SavedKept, ZenonT(40)
<1>7. t \in CoreType /\ ModeInv(t) /\ t.fault = FALSE
  BY <1>3, <1>4 DEF Taken
<1>8. \A u \in World : Saved(t, l[u], u)
  BY <1>5, <1>6, ZenonT(40)
<1> QED
  BY <1>2, <1>3, <1>7, <1>8, EnterGood, ZenonT(40)

\* A world that writes only what it has access to writes neither the activity
\* monitors nor the streaming mode behind CPTR_EL3.
LEMMA UseGood ==
  ASSUME NEW m, NEW l, NEW w, Good(m, l, w),
         NEW f \in [Vec!Reg -> Vec!Value], NEW n, n = [m EXCEPT !.regs = f],
         \A r \in {"sm", "amu"} \ Vec!Accessible(m) : f[r] = m.regs[r],
         NEW k, k = [l EXCEPT ![w] = Vec!View(n)]
  PROVE  Good(n, k, w)
<1>1. /\ w \in World /\ m \in CoreType /\ l \in LeftType /\ m.cptr = Vec!world_context(w)
      /\ m.fault = FALSE /\ ModeInv(m)
  BY ZenonT(40) DEF Good
<1>2. /\ n \in CoreType /\ n.regs = f /\ n.cptr = m.cptr /\ n.fault = FALSE
      /\ n.el1 = m.el1 /\ n.ext = m.ext /\ n.simd = m.simd /\ n.sve = m.sve
  BY <1>1, SMTT(40) DEF CoreType
<1>3. Vec!View(n) \in [Vec!Reg -> Vec!Value \cup {Vec!Unknown}]
  BY <1>2 DEF Vec!View
<1>4. Found(n, Vec!View(n))
  <2>1. Vec!Accessible(n) \subseteq Vec!Reg
    BY DEF Vec!Accessible, Vec!Reg
  <2> QED
    BY <2>1 DEF Found, Vec!View
<1>5. k \in LeftType /\ k[w] = Vec!View(n) /\ \A v \in World \ {w} : k[v] = l[v]
  BY ZenonT(40), <1>1, <1>3 DEF LeftType
<1>6. ModeInv(n)
  <2>1. ASSUME ~Vec!has_sme PROVE "sm" \notin Vec!Accessible(m)
    BY <1>1, <2>1 DEF Vec!Accessible, Vec!world_context
  <2> QED
    BY <1>1, <1>2, <2>1 DEF ModeInv
<1>7. ASSUME NEW v \in World \ {w} PROVE Saved(n, k[v], v)
  <2>1. Saved(m, l[v], v)
    BY DEF Good
  <2>2. CASE v = "NonSecure"
    <3>1. "amu" \notin Vec!Accessible(m)
      BY <1>1, <2>2 DEF Vec!Accessible, Vec!world_context
    <3>2. SameContext(n, m, v)
      BY <1>2, <3>1, SMTT(40) DEF SameContext
    <3> QED
      BY <1>5, <2>1, <3>2, SavedKept, ZenonT(40)
  <2>3. CASE v # "NonSecure"
    BY <1>2, <1>5, <2>1, <2>3 DEF Saved
  <2> QED
    BY <2>2, <2>3
<1>8. Found(n, k[w])
  BY <1>4, <1>5, SMTT(40)
<1> QED
  BY <1>1, <1>2, <1>5, <1>6, <1>7, <1>8, ZenonT(40) DEF Good

\* A step that keeps the build and leads to a good core leads to the invariant.
LEMMA GoodNext ==
  ASSUME build \in Build, build' = build, Good(vec_core', vec_left', vec_world')
  PROVE  VecInv'
BY DEF VecInv, Good, Saved, Found, FfrKept, ModeInv, Vec!world_context, Vec!needs_sve_sme,
       Vec!Accessible, Vec!FfrExists, Vec!has_sve, Vec!has_sme, Vec!has_fa64, CoreType, LeftType

\* Software of the running world leaves anything in its registers.
LEMMA UseWithGood ==
  ASSUME VecInv, NEW ones, Vec!UseWith(ones)
  PROVE  VecInv'
<1> DEFINE value(r) == IF r \in ones THEN 1 ELSE 0
           moded == IF "sm" \in Vec!Accessible(vec_core) THEN Vec!WriteSvcr(vec_core, value("sm")) ELSE vec_core
           vectored == Vec!WriteQ(moded, value("q"))
           f == [r \in Vec!Reg |-> IF r \in Vec!Accessible(moded) THEN value(r)
                               ELSE vectored.regs[r]]
<1>1. /\ vec_core' = [vectored EXCEPT !.regs = f]
      /\ vec_left' = [vec_left EXCEPT ![vec_world] = Vec!View(vec_core')]
      /\ build' = build /\ vec_world' = vec_world
  BY DEF Vec!UseWith
<1>2. vec_core \in CoreType /\ Good(vec_core, vec_left, vec_world) /\ build \in Build
  BY DEF VecInv, Good
<1>3. \A r : value(r) \in Vec!Value
  BY DEF Vec!Value
<1>4. PICK g \in [Vec!Reg -> Vec!Value] :
        /\ moded = [vec_core EXCEPT !.regs = g] /\ g["amu"] = vec_core.regs["amu"]
        /\ "sm" \notin Vec!Accessible(vec_core) => g["sm"] = vec_core.regs["sm"]
  <2> HIDE DEF value
  <2> DEFINE h == [r \in Vec!Reg |-> IF r = "sm" THEN value("sm")
                                 ELSE IF r \in Vec!Wiped THEN 0 ELSE vec_core.regs[r]]
  <2>1. CASE moded = vec_core
    <3>1. vec_core = [vec_core EXCEPT !.regs = vec_core.regs] /\ vec_core.regs \in [Vec!Reg -> Vec!Value]
      BY <1>2 DEF CoreType
    <3> QED
      BY <2>1, <3>1
  <2>2. CASE "sm" \in Vec!Accessible(vec_core) /\ moded = [vec_core EXCEPT !.regs = h]
    <3>1. h \in [Vec!Reg -> Vec!Value] /\ h["amu"] = vec_core.regs["amu"]
      BY <1>2, <1>3 DEF CoreType, Vec!Reg, Vec!Wiped, Vec!Value
    <3> QED
      BY <2>2, <3>1, SMTT(40)
  <2>3. moded = vec_core \/ ("sm" \in Vec!Accessible(vec_core) /\ moded = [vec_core EXCEPT !.regs = h])
    BY DEF Vec!WriteSvcr
  <2> QED
    BY <2>1, <2>2, <2>3, ZenonT(40)
<1> HIDE DEF moded, value
<1>5. PICK k \in [Vec!Reg -> Vec!Value] :
        /\ vectored = [vec_core EXCEPT !.regs = k]
        /\ k["amu"] = g["amu"] /\ k["sm"] = g["sm"]
  <2> DEFINE h == [g EXCEPT !["q"] = value("q"), !["z"] = 0]
  <2>1. h \in [Vec!Reg -> Vec!Value] /\ h["amu"] = g["amu"] /\ h["sm"] = g["sm"]
    BY <1>3 DEF Vec!Reg, Vec!Value
  <2>2. vectored = [vec_core EXCEPT !.regs = h]
    BY <1>2, <1>4, ZenonT(40) DEF Vec!WriteQ, CoreType
  <2> QED
    BY <2>1, <2>2, ZenonT(40)
<1>6. \A r \in {"sm", "amu"} : r \in Vec!Accessible(moded) <=> r \in Vec!Accessible(vec_core)
  <2>1. moded.cptr = vec_core.cptr
    BY <1>2, <1>4 DEF CoreType
  <2> QED
    BY <2>1 DEF Vec!Accessible
<1>7. vectored.regs = k
  BY <1>2, <1>5, SMTT(40) DEF CoreType
<1> HIDE DEF vectored
<1>8. f \in [Vec!Reg -> Vec!Value]
  BY <1>3, <1>7
<1>9. \A r \in {"sm", "amu"} \ Vec!Accessible(vec_core) : f[r] = vec_core.regs[r]
  BY <1>4, <1>5, <1>6, <1>7, SMTT(40) DEF Vec!Reg
<1> HIDE DEF f
<1>10. vec_core' = [vec_core EXCEPT !.regs = f]
  BY <1>1, <1>2, <1>5, ZenonT(40) DEF CoreType
<1>11. Good(vec_core', vec_left', vec_world')
  BY <1>1, <1>2, <1>8, <1>9, <1>10, UseGood, ZenonT(40)
<1> QED
  BY <1>1, <1>2, <1>11, GoodNext, ZenonT(40)

\* switch_world as a step.
LEMMA VecSwitchStep ==
  ASSUME Vec!BuildAssumption, VecInv, Vec!Switch
  PROVE  VecInv'
<1>1. PICK w \in World \ {vec_world} :
        vec_core' = Vec!switch_world(vec_core, vec_world, w) /\ vec_world' = w /\ build' = build /\ vec_left' = vec_left
  BY DEF Vec!Switch
<1>2. build \in Build /\ Good(vec_core, vec_left, vec_world)
  BY DEF VecInv
<1>3. Good(vec_core', vec_left', vec_world')
  BY <1>1, <1>2, SwitchGood, ZenonT(40)
<1> QED
  BY <1>1, <1>2, <1>3, GoodNext, ZenonT(40)

\* Only the registers of n differ from those of m; some are reset.
AfterReset(n, m) ==
  /\ n \in CoreType /\ n.regs["sm"] = 0 /\ n.regs["amu"] = 0
  /\ n.fault = m.fault /\ n.el1 = m.el1 /\ n.ext = m.ext /\ n.simd = m.simd
  /\ n.sve = m.sve /\ n.amu = m.amu

\* Reset leaves the saved contexts alone.
LEMMA ResetKeeps ==
  ASSUME NEW m \in CoreType, NEW v \in Vec!Value, NEW n, n = Vec!Reset(m, v)
  PROVE  AfterReset(n, m)
<1>1. PICK f : f = [r \in Vec!Reg |-> IF r \in {"sm", "amu"} THEN 0 ELSE v]
  BY ZenonT(40)
<1>2. f \in [Vec!Reg -> Vec!Value] /\ f["sm"] = 0 /\ f["amu"] = 0
  BY <1>1 DEF Vec!Reg, Vec!Value
<1>3. n = [m EXCEPT !.regs = f]
  BY <1>1 DEF Vec!Reset
<1> QED
  BY <1>2, <1>3, SMTT(40) DEF CoreType, AfterReset

\* A suspend to power down: of what the normal world left, its activity monitors
\* survive and its EL1 registers are reset; the other worlds' contexts survive.
LEMMA VecSuspendStep ==
  ASSUME Vec!BuildAssumption, VecInv, Vec!SuspendToPowerDown
  PROVE  VecInv'
<1>1. /\ vec_world = "NonSecure" /\ vec_world' = "Secure" /\ build' = build
      /\ vec_left' = [vec_left EXCEPT !["NonSecure"] =
                    [r \in Vec!Reg |-> CASE r = "el1" -> 0
                                     [] r = "amu" -> @[r]
                                     [] OTHER     -> Vec!Unknown]]
  BY SMTT(40) DEF Vec!SuspendToPowerDown
<1>2. /\ build \in Build /\ Good(vec_core, vec_left, vec_world) /\ vec_core \in CoreType
      /\ vec_left \in LeftType /\ vec_core.cptr = Vec!world_context(vec_world) /\ vec_core.fault = FALSE
  BY DEF VecInv, Good
<1>3. {"Secure", "NonSecure"} \subseteq World
  BY DEF Vec!BuildAssumption
<1>4. PICK v \in Vec!Value :
        vec_core' = Vec!restore_world(Vec!update_contexts_suspend(Vec!Reset(Vec!AmuSave(vec_core), v)), "Secure")
  BY DEF Vec!SuspendToPowerDown, Vec!set_initial_world
<1>5. PICK a : a = Vec!AmuSave(vec_core)
  BY ZenonT(40)
<1>6. PICK b : b = Vec!Reset(a, v)
  BY ZenonT(40)
<1>7. PICK t : t = Vec!update_contexts_suspend(b)
  BY ZenonT(40)
<1>8. /\ a \in CoreType /\ a.fault = FALSE /\ a.el1 = vec_core.el1 /\ a.ext = vec_core.ext
      /\ a.simd = vec_core.simd /\ a.sve = vec_core.sve /\ a.amu = vec_core.regs["amu"]
  BY <1>2, <1>5 DEF Vec!AmuSave, CoreType, Vec!Reg
<1>9. /\ b \in CoreType /\ b.regs["sm"] = 0 /\ b.regs["amu"] = 0
      /\ b.fault = a.fault /\ b.el1 = a.el1 /\ b.ext = a.ext /\ b.simd = a.simd
      /\ b.sve = a.sve /\ b.amu = a.amu
  <2>1. AfterReset(b, a)
    BY <1>6, <1>8, ResetKeeps, ZenonT(40)
  <2> QED
    BY <2>1, ZenonT(40) DEF AfterReset
<1>10. /\ t \in CoreType /\ t.fault = FALSE /\ t.ext = vec_core.ext /\ t.simd = vec_core.simd
       /\ t.sve = vec_core.sve /\ t.el1 = [vec_core.el1 EXCEPT !["NonSecure"] = 0]
       /\ t.regs = [b.regs EXCEPT !["amu"] = vec_core.regs["amu"]]
  BY <1>3, <1>7, <1>8, <1>9, ZenonT(40) DEF Vec!update_contexts_suspend, Vec!AmuRestore, Vec!initialise_common,
     CoreType, Vec!Value, Vec!Reg
<1>11. /\ t.regs["sm"] = 0 /\ t.regs["amu"] = vec_core.regs["amu"]
       /\ t.el1["NonSecure"] = 0 /\ \A w \in World \ {"NonSecure"} : t.el1[w] = vec_core.el1[w]
  BY <1>2, <1>3, <1>9, <1>10, SMTT(40) DEF CoreType, Vec!Reg
<1>12. /\ vec_left' \in LeftType /\ \A w \in World \ {"NonSecure"} : vec_left'[w] = vec_left[w]
       /\ vec_left'["NonSecure"] = [r \in Vec!Reg |-> CASE r = "el1" -> 0
                                                [] r = "amu" -> vec_left["NonSecure"][r]
                                                [] OTHER     -> Vec!Unknown]
  BY <1>1, <1>2, <1>3, SMTT(40) DEF LeftType, Vec!Value, Vec!Reg
<1>13. Saved(t, vec_left'["NonSecure"], "NonSecure")
  <2>1. vec_left'["NonSecure"]["el1"] = 0
    BY <1>12 DEF Vec!Reg
  <2>2. vec_left'["NonSecure"]["amu"] = vec_left["NonSecure"]["amu"]
    BY <1>12 DEF Vec!Reg
  <2>3. \A r \in {"ext", "q", "z", "p", "fp", "sm", "ffr"} : vec_left'["NonSecure"][r] = Vec!Unknown
    BY <1>12 DEF Vec!Reg
  <2>4. vec_left["NonSecure"]["amu"] \in {Vec!Unknown, vec_core.regs["amu"]}
    <3>1. "amu" \in Vec!Accessible(vec_core)
      BY <1>1, <1>2 DEF Vec!Accessible, Vec!world_context
    <3> QED
      BY <1>1, <1>2, <3>1 DEF Good, Found
  <2> QED
    BY <1>11, <2>1, <2>2, <2>3, <2>4, SMTT(40) DEF Saved
<1>14. ASSUME NEW w \in World \ {"NonSecure"} PROVE Saved(t, vec_left'[w], w)
  <2>1. Saved(vec_core, vec_left[w], w)
    BY <1>1, <1>2, SMTT(40) DEF Good
  <2>2. SameContext(t, vec_core, w)
    BY <1>10, <1>11 DEF SameContext
  <2> QED
    BY <1>12, <2>1, <2>2, SavedKept, ZenonT(40)
<1>15. \A w \in World : Saved(t, vec_left'[w], w)
  BY <1>13, <1>14, ZenonT(40)
<1>16. vec_core' = Vec!restore_world(t, "Secure") /\ ModeInv(t)
  BY <1>4, <1>5, <1>6, <1>7, <1>11 DEF ModeInv
<1>17. Good(vec_core', vec_left', "Secure")
  BY <1>2, <1>3, <1>10, <1>12, <1>15, <1>16, EnterGood, ZenonT(40)
<1> QED
  BY <1>1, <1>2, <1>17, GoodNext, ZenonT(40)

\* A power down that is abandoned.
LEMMA AbandonStep ==
  ASSUME VecInv, Vec!PowerDownAbandoned
  PROVE  VecInv'
<1>1. vec_core' = Vec!AmuSave(vec_core) /\ build' = build /\ vec_world' = vec_world /\ vec_left' = vec_left
  BY DEF Vec!PowerDownAbandoned
<1>2. vec_core \in CoreType /\ build \in Build /\ Good(vec_core, vec_left, vec_world)
  BY DEF VecInv, Good
<1>3. /\ vec_core' \in CoreType /\ vec_core'.regs = vec_core.regs /\ vec_core'.cptr = vec_core.cptr
      /\ vec_core'.fault = vec_core.fault /\ vec_core'.el1 = vec_core.el1 /\ vec_core'.ext = vec_core.ext
      /\ vec_core'.simd = vec_core.simd /\ vec_core'.sve = vec_core.sve
  BY <1>1, <1>2, SMTT(40) DEF Vec!AmuSave, CoreType, Vec!Reg
<1>4. Good(vec_core', vec_left, vec_world)
  BY <1>2, <1>3 DEF Good, Saved, Found, FfrKept, ModeInv, Vec!Accessible, Vec!FfrExists
<1> QED
  BY <1>1, <1>2, <1>4, GoodNext, ZenonT(40)

\* CPU_OFF and CPU_ON: nothing of what a world left is promised to it.
LEMMA TurnOffStep ==
  ASSUME Vec!BuildAssumption, VecInv, Vec!TurnOffAndOn
  PROVE  VecInv'
<1>1. /\ vec_world' = "Secure" /\ build' = build
      /\ vec_left' = [w \in World |-> [r \in Vec!Reg |-> IF r = "el1" THEN 0 ELSE Vec!Unknown]]
  BY DEF Vec!TurnOffAndOn
<1>2. build \in Build /\ vec_core \in CoreType /\ vec_core.fault = FALSE
  BY DEF VecInv, Good
<1>3. "Secure" \in World
  BY DEF Vec!BuildAssumption
<1>4. PICK v \in Vec!Value : vec_core' = Vec!restore_world(Vec!initialise_contexts(Vec!Reset(vec_core, v)), "Secure")
  BY DEF Vec!TurnOffAndOn, Vec!set_initial_world
<1>5. PICK b : b = Vec!Reset(vec_core, v)
  BY ZenonT(40)
<1>6. PICK t : t = Vec!initialise_contexts(b)
  BY ZenonT(40)
<1>7. b \in CoreType /\ b.regs["sm"] = 0 /\ b.fault = vec_core.fault
  <2>1. AfterReset(b, vec_core)
    BY <1>2, <1>5, ResetKeeps, ZenonT(40)
  <2> QED
    BY <2>1, ZenonT(40) DEF AfterReset
<1>8. \A w \in World : Vec!initialise_common(b, w).el1[w] = 0
  BY <1>7 DEF Vec!initialise_common, CoreType
<1>9. t = [b EXCEPT !.el1 = [w \in World |-> 0]]
  BY <1>6, <1>8 DEF Vec!initialise_contexts
<1>10. t \in CoreType /\ t.regs = b.regs /\ t.fault = b.fault /\ \A w \in World : t.el1[w] = 0
  BY <1>7, <1>9 DEF CoreType, Vec!Value
<1>11. vec_left' \in LeftType
  BY <1>1, SMTT(40) DEF LeftType, Vec!Value
<1>12. ASSUME NEW w \in World PROVE Saved(t, vec_left'[w], w)
  <2>1. /\ vec_left'[w]["el1"] = 0
        /\ \A r \in {"ext", "amu", "q", "z", "p", "fp", "sm", "ffr"} : vec_left'[w][r] = Vec!Unknown
    BY <1>1, SMTT(40) DEF Vec!Reg
  <2> QED
    BY <1>10, <2>1 DEF Saved
<1>13. vec_core' = Vec!restore_world(t, "Secure") /\ ModeInv(t) /\ t.fault = FALSE
  BY <1>2, <1>4, <1>5, <1>6, <1>7, <1>10, SMTT(40) DEF ModeInv
<1>14. Good(vec_core', vec_left', "Secure")
  BY <1>2, <1>3, <1>10, <1>11, <1>12, <1>13, EnterGood, ZenonT(40)
<1> QED
  BY <1>1, <1>2, <1>14, GoodNext, ZenonT(40)

\* Cold boot: every context is zero, as every world is taken to have left it.
LEMMA VecInit ==
  ASSUME Vec!BuildAssumption, Vec!Init
  PROVE  VecInv
<1>1. /\ build \in Build /\ vec_world = "Secure"
      /\ vec_left = [w \in World |-> [r \in Vec!Reg |-> 0]]
  BY DEF Vec!Init
<1>2. PICK v \in Vec!Value : vec_core = Vec!restore_world(Vec!Reset(Vec!EMPTY, v), "Secure")
  BY DEF Vec!Init, Vec!set_initial_world
<1>3. PICK t : t = Vec!Reset(Vec!EMPTY, v)
  BY ZenonT(40)
<1>4. /\ Vec!EMPTY \in CoreType /\ Vec!EMPTY.fault = FALSE
      /\ \A w \in World : Vec!EMPTY.el1[w] = 0 /\ Vec!EMPTY.ext[w] = 0
      /\ \A w \in World : Vec!EMPTY.simd[w].q = 0 /\ Vec!EMPTY.simd[w].fp = 0
      /\ Vec!EMPTY.sve = [q |-> 0, z |-> 0, p |-> 0, ffr |-> 0, fp |-> 0, svcr |-> 0]
  BY DEF Vec!EMPTY, CoreType, Vec!SimdCpuContext, Vec!SveCpuContext, Vec!Value
<1>5. /\ t \in CoreType /\ t.regs["sm"] = 0 /\ t.regs["amu"] = 0
      /\ t.fault = Vec!EMPTY.fault /\ t.el1 = Vec!EMPTY.el1 /\ t.ext = Vec!EMPTY.ext
      /\ t.simd = Vec!EMPTY.simd /\ t.sve = Vec!EMPTY.sve /\ t.amu = Vec!EMPTY.amu
  <2>1. AfterReset(t, Vec!EMPTY)
    BY <1>3, <1>4, ResetKeeps, ZenonT(40)
  <2> QED
    BY <2>1, ZenonT(40) DEF AfterReset
<1>6. "Secure" \in World /\ vec_left \in LeftType
  BY <1>1, SMTT(40) DEF Vec!BuildAssumption, LeftType, Vec!Value
<1>7. ASSUME NEW w \in World PROVE Saved(t, vec_left[w], w)
  <2>1. \A r \in Vec!Reg : vec_left[w][r] = 0
    BY <1>1, SMTT(40)
  <2> QED
    BY <1>4, <1>5, <2>1 DEF Saved, Vec!Reg
<1>8. ModeInv(t) /\ t.fault = FALSE /\ vec_core = Vec!restore_world(t, "Secure")
  BY <1>2, <1>3, <1>4, <1>5 DEF ModeInv
<1>9. Good(vec_core, vec_left, "Secure")
  BY <1>1, <1>5, <1>6, <1>7, <1>8, EnterGood, ZenonT(40)
<1> QED
  BY <1>1, <1>9, ZenonT(40) DEF VecInv

\* A world may leave ones in any set of registers, not only in the sets of Pattern.
LeavesAnything == \E ones \in SUBSET Vec!Reg : Vec!UseWith(ones)

\* The specification without the bound on what the worlds leave.
VecSpec == Vec!Init /\ [][Vec!Next \/ LeavesAnything]_Vec!vars

\* One step.
LEMMA VecStep ==
  ASSUME Vec!BuildAssumption, VecInv, [Vec!Next \/ LeavesAnything]_Vec!vars
  PROVE  VecInv'
<1>1. CASE Vec!Use \/ LeavesAnything
  BY <1>1, UseWithGood, ZenonT(40) DEF Vec!Use, LeavesAnything
<1>2. CASE Vec!Switch
  BY <1>2, VecSwitchStep, ZenonT(40)
<1>3. CASE Vec!SuspendToPowerDown
  BY <1>3, VecSuspendStep, ZenonT(40)
<1>4. CASE Vec!PowerDownAbandoned
  BY <1>4, AbandonStep, ZenonT(40)
<1>5. CASE Vec!TurnOffAndOn
  BY <1>5, TurnOffStep, ZenonT(40)
<1>6. CASE UNCHANGED Vec!vars
  <2>1. build \in Build /\ Good(vec_core, vec_left, vec_world)
    BY DEF VecInv
  <2>2. build' = build /\ Good(vec_core', vec_left', vec_world')
    BY <1>6, <2>1, ZenonT(40) DEF Vec!vars
  <2> QED
    BY <2>1, <2>2, GoodNext, ZenonT(40)
<1> QED
  BY <1>1, <1>2, <1>3, <1>4, <1>5, <1>6, ZenonT(40) DEF Vec!Next

\* The bound only removes steps.
LEMMA BoundedIsVec == Vec!Spec => VecSpec
<1>1. [Vec!Next]_Vec!vars => [Vec!Next \/ LeavesAnything]_Vec!vars
  OBVIOUS
<1> QED
  BY <1>1, PTL DEF Vec!Spec, VecSpec

\* Through switches, power down and anything the worlds leave in the registers
\* they have access to, VecInv holds.
THEOREM VectorsInvariance ==
  ASSUME Vec!BuildAssumption
  PROVE  VecSpec => []VecInv
<1>1. Vec!Init => VecInv
  BY VecInit
<1>2. VecInv /\ [Vec!Next \/ LeavesAnything]_Vec!vars => VecInv'
  BY VecStep
<1> QED
  BY <1>1, <1>2, PTL DEF VecSpec

\* A world finds every register it has access to as it last saw it: FP, SIMD, SVE
\* and SME state, EL1 registers, extension contexts and activity monitors.
THEOREM VectorsFoundAsLeft ==
  ASSUME Vec!BuildAssumption
  PROVE  VecSpec => []Vec!FoundAsLeft
<1>1. VecInv => Vec!FoundAsLeft
  BY DEF VecInv, Good, Found, Vec!FoundAsLeft
<1> QED
  BY <1>1, VectorsInvariance, PTL

\* switch_world never executes an instruction that traps to EL3 itself.
THEOREM NeverFaultsAtEl3 ==
  ASSUME Vec!BuildAssumption
  PROVE  VecSpec => []Vec!NoFaultAtEl3
<1>1. VecInv => Vec!NoFaultAtEl3
  BY DEF VecInv, Good, Vec!NoFaultAtEl3
<1> QED
  BY <1>1, VectorsInvariance, PTL

\* Both in the specification that the model checker explores.
THEOREM BoundedVectors ==
  ASSUME Vec!BuildAssumption
  PROVE  Vec!Spec => [](Vec!FoundAsLeft /\ Vec!NoFaultAtEl3)
<1> QED
  BY BoundedIsVec, VectorsFoundAsLeft, NeverFaultsAtEl3, PTL

-----------------------------------------------------------------------------
(* The system registers: RegisterContexts.                                 *)

\* The registers of the extensions that switch_world copies.
Extensions ==
  If(hw.sel2, fgt_save \cup fgt2_save \cup hcx_save \cup mpam_save)
    \cup mte2_context \cup ras_context \cup sctlr2_context \cup tcr2_context
\* The lower exception level registers that CpuContext copies.
LowerEl ==
  IF hw.sel2 THEN (El2Sysregs \ El2Vhe) \cup If(has("VHE"), El2Vhe)
  ELSE El1Sysregs
\* All the registers that switch_world copies.
Switched == Extensions \cup LowerEl

\* A core that has not faulted.
Sound(reg, saved, scr) ==
  [reg |-> reg, saved |-> saved, scr |-> scr, fault |-> FALSE]

\* The values of all registers.
RegFile == [Register -> Value]
\* What a world last saw in each, where that is known.
LeftFile == [Register -> Value \cup {Unknown}]

\* Where the value of register r that world w goes by is kept.
Kept(w, r) ==
  IF w = world \/ r \notin Switched THEN core.reg[r] ELSE core.saved[w][r]

\* The inductive invariant: a core that has not faulted, and in it what every
\* world goes by, where it belongs.
ContextInv ==
  /\ hw \in Config /\ world \in Worlds
  /\ core = Sound(core.reg, core.saved, scr_el3(world))
  /\ core.reg \in RegFile /\ core.saved \in [Worlds -> RegFile]
  /\ left \in [Worlds -> LeftFile]
  /\ \A w \in Worlds : \A r \in Accessible(w) :
       left[w][r] \in {Unknown, Kept(w, r)}

-----------------------------------------------------------------------------
(* Which registers there are.                                              *)

\* The virtual partition registers by name.
VpmSet == {"mpamvpm1_el2", "mpamvpm2_el2", "mpamvpm3_el2", "mpamvpm4_el2",
           "mpamvpm5_el2", "mpamvpm6_el2", "mpamvpm7_el2"}

\* They are those that Vpm lists.
LEMMA VpmNames ==
  \A i \in 1 .. 7 : Vpm[i] \in VpmSet
<1> SUFFICES ASSUME NEW i \in 1 .. 7 PROVE Vpm[i] \in VpmSet
  OBVIOUS
<1>1. i = 1 \/ i = 2 \/ i = 3 \/ i = 4 \/ i = 5 \/ i = 6 \/ i = 7
  BY SMTT(40)
<1> QED
  BY <1>1 DEF Vpm, VpmSet

\* What the core implements, register by register.
LEMMA Implements ==
  ASSUME NEW r
  PROVE  r \in Implemented <=>
           /\ r \in Register
           /\ r \in El2Vhe => has("VHE")
           /\ r = "hafgrtr_el2" => has("AMU")
           /\ r \in Fgt2CpuContext => has("FGT2")
           /\ r \in HcxCpuContext => has("HCX")
           /\ r \in MpamCpuContext \cup {"mpam3_el3"} => has("MPAM")
           /\ r \in MpamHcr => hw.vpmr_max # -1
           /\ \A i \in 1 .. 7 : r = Vpm[i] => ~(i > hw.vpmr_max)
           /\ r \in Both(Mte2CpuContext) => has("MTE2")
           /\ r \in Both(Sctlr2CpuContext) => has("SCTLR2")
           /\ r \in Both(Tcr2CpuContext) => has("TCR2")
           /\ r = "trace" => has("TRACE")
           /\ r = "pmscr_el1" => has("SPE")
           /\ r = "trblimitr_el1" => has("TRBE")
<1> DEFINE Beyond == {Vpm[i] : i \in {j \in 1 .. 7 : j > hw.vpmr_max}}
<1>1. r \notin Beyond <=> \A i \in 1 .. 7 : r = Vpm[i] => ~(i > hw.vpmr_max)
  BY ZenonT(40)
<1> DEFINE Lacks(p, S) == If(~p, S)
<1>2. \A p \in BOOLEAN : \A S : r \notin Lacks(p, S) <=> (r \in S => p)
  BY DEF If
<1>3. (hw.vpmr_max # -1) \in BOOLEAN /\ \A f : has(f) \in BOOLEAN
  BY DEF has
<1>4. r \notin If(hw.vpmr_max = -1, MpamHcr) <=> (r \in MpamHcr => hw.vpmr_max # -1)
  BY DEF If
<1>5. r \in Implemented <=>
        /\ r \in Register
        /\ r \notin Lacks(has("VHE"), El2Vhe) /\ r \notin Lacks(has("AMU"), {"hafgrtr_el2"})
        /\ r \notin Lacks(has("FGT2"), Fgt2CpuContext)
        /\ r \notin Lacks(has("HCX"), HcxCpuContext)
        /\ r \notin Lacks(has("MPAM"), MpamCpuContext \cup {"mpam3_el3"})
        /\ r \notin If(hw.vpmr_max = -1, MpamHcr) /\ r \notin Beyond
        /\ r \notin Lacks(has("MTE2"), Both(Mte2CpuContext))
        /\ r \notin Lacks(has("SCTLR2"), Both(Sctlr2CpuContext))
        /\ r \notin Lacks(has("TCR2"), Both(Tcr2CpuContext))
        /\ r \notin Lacks(has("TRACE"), {"trace"}) /\ r \notin Lacks(has("SPE"), {"pmscr_el1"})
        /\ r \notin Lacks(has("TRBE"), {"trblimitr_el1"})
  BY ZenonT(40) DEF Implemented
<1> HIDE DEF Lacks, Beyond
<1>6. \A f, S : r \notin Lacks(has(f), S) <=> (r \in S => has(f))
  BY <1>2, <1>3, ZenonT(40)
<1>7. /\ r \in {"hafgrtr_el2"} <=> r = "hafgrtr_el2"
      /\ r \in {"trace"} <=> r = "trace"
      /\ r \in {"pmscr_el1"} <=> r = "pmscr_el1"
      /\ r \in {"trblimitr_el1"} <=> r = "trblimitr_el1"
  OBVIOUS
<1> QED
  BY <1>1, <1>4, <1>5, <1>6, <1>7, SMTT(40)

\* The registers that not every core has.
Optional ==
  {"contextidr_el2", "ttbr1_el2", "hafgrtr_el2", "hfgitr2_el2", "hfgrtr2_el2",
   "hfgwtr2_el2", "hdfgrtr2_el2", "hdfgwtr2_el2", "hcrx_el2", "mpam2_el2",
   "mpamhcr_el2", "mpamvpmv_el2", "mpamvpm0_el2", "mpam3_el3", "tfsr_el2",
   "tfsre0_el1", "tfsr_el1", "rgsr_el1", "gcr_el1", "sctlr2_el2", "sctlr2_el1",
   "tcr2_el2", "tcr2_el1", "trace", "pmscr_el1", "trblimitr_el1"} \cup VpmSet

\* The others are implemented everywhere.
LEMMA AlwaysImplemented ==
  ASSUME NEW r \in Register, r \notin Optional
  PROVE  r \in Implemented
<1>1. \A i \in 1 .. 7 : r # Vpm[i]
  BY VpmNames DEF Optional
<1>2. r \notin MpamCpuContext
  BY <1>1 DEF Optional, MpamCpuContext, MpamHcr
<1>3. r \notin Both(Mte2CpuContext) \cup Both(Sctlr2CpuContext) \cup Both(Tcr2CpuContext)
  BY DEF Optional, Both, Mte2CpuContext, Mte2Sel1, Sctlr2CpuContext, Sctlr2Sel1,
         Tcr2CpuContext, Tcr2Sel1
<1>4. r \notin El2Vhe \cup Fgt2CpuContext \cup HcxCpuContext
  BY DEF Optional, El2Vhe, Fgt2CpuContext, HcxCpuContext
<1>5. r \notin {"hafgrtr_el2", "mpam3_el3", "trace", "pmscr_el1", "trblimitr_el1"}
  BY DEF Optional
<1>6. r \notin MpamHcr
  BY <1>2 DEF MpamCpuContext
<1> QED
  BY <1>1, <1>2, <1>3, <1>4, <1>5, <1>6, Implements, ZenonT(40)

\* Among them are these.
LEMMA AlwaysThere ==
  /\ El1Sysregs \subseteq Implemented
  /\ El2Sysregs \ El2Vhe \subseteq Implemented
  /\ FgtCpuContext \ {"hafgrtr_el2"} \subseteq Implemented
  /\ \A b \in BOOLEAN : RasCpuContext(b) \subseteq Implemented
<1>1. El1Sysregs \cap Optional = {}
  BY DEF El1Sysregs, Optional, VpmSet
<1>2. (El2Sysregs \ El2Vhe) \cap Optional = {}
  BY DEF El2Sysregs, El2Vhe, Optional, VpmSet
<1>3. (FgtCpuContext \ {"hafgrtr_el2"}) \cap Optional = {}
  BY DEF FgtCpuContext, Optional, VpmSet
<1>4. \A b \in BOOLEAN : RasCpuContext(b) \cap Optional = {}
  BY DEF RasCpuContext, RasSel1, Optional, VpmSet
<1>5. \A b \in BOOLEAN : RasCpuContext(b) \subseteq Register
  BY ZenonT(40) DEF RasCpuContext, Both, Register
<1>6. /\ El1Sysregs \subseteq Register /\ El2Sysregs \subseteq Register
      /\ FgtCpuContext \subseteq Register
  BY DEF Register
<1> QED
  BY <1>1, <1>2, <1>3, <1>4, <1>5, <1>6, AlwaysImplemented, ZenonT(40)

\* And these where the feature is present.
LEMMA ThereWithFeature ==
  /\ has("VHE") => El2Vhe \subseteq Implemented
  /\ has("AMU") => "hafgrtr_el2" \in Implemented
  /\ has("FGT2") => Fgt2CpuContext \subseteq Implemented
  /\ has("HCX") => HcxCpuContext \subseteq Implemented
  /\ has("MTE2") => \A b \in BOOLEAN : Mte2CpuContext(b) \subseteq Implemented
  /\ has("SCTLR2") => \A b \in BOOLEAN : Sctlr2CpuContext(b) \subseteq Implemented
  /\ has("TCR2") => \A b \in BOOLEAN : Tcr2CpuContext(b) \subseteq Implemented
<1> DEFINE Plain == El2Vhe \cup {"hafgrtr_el2"} \cup Fgt2CpuContext \cup HcxCpuContext
           Two == Both(Mte2CpuContext) \cup Both(Sctlr2CpuContext)
                    \cup Both(Tcr2CpuContext)
<1>1. ASSUME NEW r \in Plain \cup Two
      PROVE  /\ r \in Register
             /\ r \notin MpamCpuContext \cup {"mpam3_el3"} \cup MpamHcr
             /\ \A i \in 1 .. 7 : r # Vpm[i]
             /\ r \notin Unswitched
  <2>1. r \in Register
    BY <1>1, ZenonT(40) DEF Register, El2Sysregs, FgtCpuContext
  <2>2. r \notin VpmSet \cup {"mpam2_el2", "mpam3_el3"} \cup MpamHcr \cup Unswitched
    BY <1>1 DEF El2Vhe, Fgt2CpuContext, HcxCpuContext, Both, Mte2CpuContext, Mte2Sel1,
         Sctlr2CpuContext, Sctlr2Sel1, Tcr2CpuContext, Tcr2Sel1, VpmSet, MpamHcr,
         Unswitched
  <2>3. \A i \in 1 .. 7 : r # Vpm[i]
    BY <2>2, VpmNames
  <2> QED
    BY <2>1, <2>2, <2>3, ZenonT(40) DEF MpamCpuContext
<1>2. ASSUME NEW r \in Two
      PROVE  r \notin Plain
  BY <1>2 DEF El2Vhe, Fgt2CpuContext, HcxCpuContext, Both, Mte2CpuContext, Mte2Sel1,
         Sctlr2CpuContext, Sctlr2Sel1, Tcr2CpuContext, Tcr2Sel1
<1>3. /\ El2Vhe \cap ({"hafgrtr_el2"} \cup Fgt2CpuContext \cup HcxCpuContext) = {}
      /\ "hafgrtr_el2" \notin Fgt2CpuContext \cup HcxCpuContext
      /\ Fgt2CpuContext \cap HcxCpuContext = {}
  BY DEF El2Vhe, Fgt2CpuContext, HcxCpuContext
<1>4. /\ Both(Mte2CpuContext) \cap (Both(Sctlr2CpuContext) \cup Both(Tcr2CpuContext)) = {}
      /\ Both(Sctlr2CpuContext) \cap Both(Tcr2CpuContext) = {}
  BY DEF Both, Mte2CpuContext, Mte2Sel1, Sctlr2CpuContext, Sctlr2Sel1, Tcr2CpuContext,
         Tcr2Sel1
<1>5. \A b \in BOOLEAN : /\ Mte2CpuContext(b) \subseteq Both(Mte2CpuContext)
                         /\ Sctlr2CpuContext(b) \subseteq Both(Sctlr2CpuContext)
                         /\ Tcr2CpuContext(b) \subseteq Both(Tcr2CpuContext)
  BY ZenonT(40) DEF Both, Mte2CpuContext, Sctlr2CpuContext, Tcr2CpuContext
<1>u. \A r : r \in {"trace", "pmscr_el1", "trblimitr_el1"} => r \in Unswitched
  BY DEF Unswitched
<1>6. has("VHE") => El2Vhe \subseteq Implemented
  BY <1>1, <1>2, <1>3, <1>u, Implements, ZenonT(40)
<1>7. has("AMU") => "hafgrtr_el2" \in Implemented
  BY <1>1, <1>2, <1>3, <1>u, Implements, ZenonT(40)
<1>8. has("FGT2") => Fgt2CpuContext \subseteq Implemented
  BY <1>1, <1>2, <1>3, <1>u, Implements, ZenonT(40)
<1>9. has("HCX") => HcxCpuContext \subseteq Implemented
  BY <1>1, <1>2, <1>3, <1>u, Implements, ZenonT(40)
<1>10. has("MTE2") => Both(Mte2CpuContext) \subseteq Implemented
  BY <1>1, <1>2, <1>4, <1>u, Implements, ZenonT(40)
<1>11. has("SCTLR2") => Both(Sctlr2CpuContext) \subseteq Implemented
  BY <1>1, <1>2, <1>4, <1>u, Implements, ZenonT(40)
<1>12. has("TCR2") => Both(Tcr2CpuContext) \subseteq Implemented
  BY <1>1, <1>2, <1>4, <1>u, Implements, ZenonT(40)
<1> QED
  BY <1>5, <1>6, <1>7, <1>8, <1>9, <1>10, <1>11, <1>12, ZenonT(40)

\* With FEAT_MPAM: its registers, the virtual ones where MPAMHCR_EL2 is there,
\* and as many virtual partition registers as VPMR_MAX says, which is how many
\* MpamCpuContext copies.
LEMMA MpamThere ==
  ASSUME has("MPAM"), hw.vpmr_max \in -1 .. 7
  PROVE  /\ "mpam2_el2" \in Implemented
         /\ "mpam3_el3" \in Implemented
         /\ hw.vpmr_max # -1 => MpamHcr \subseteq Implemented
         /\ \A i \in 1 .. 7 : /\ Vpm[i] \in Implemented <=> i <= hw.vpmr_max
                              /\ Vpm[i] \in VpmRegisters <=> i <= hw.vpmr_max
<1> DEFINE Mpam == {"mpam2_el2", "mpam3_el3"} \cup MpamHcr \cup VpmSet
<1>1. ASSUME NEW r \in Mpam
      PROVE  /\ r \notin El2Vhe \cup {"hafgrtr_el2"} \cup Fgt2CpuContext
                           \cup HcxCpuContext
             /\ r \notin Both(Mte2CpuContext) \cup Both(Sctlr2CpuContext)
                           \cup Both(Tcr2CpuContext)
             /\ r \notin Unswitched
  BY <1>1 DEF El2Vhe, Fgt2CpuContext, HcxCpuContext, Both, Mte2CpuContext, Mte2Sel1,
         Sctlr2CpuContext, Sctlr2Sel1, Tcr2CpuContext, Tcr2Sel1, VpmSet, MpamHcr,
         Unswitched
<1>2. \A i, j \in 1 .. 7 : Vpm[i] = Vpm[j] => i = j
  <2> SUFFICES ASSUME NEW i \in 1 .. 7, NEW j \in 1 .. 7, Vpm[i] = Vpm[j]
               PROVE  i = j
    OBVIOUS
  <2>1. i = 1 \/ i = 2 \/ i = 3 \/ i = 4 \/ i = 5 \/ i = 6 \/ i = 7
    OBVIOUS
  <2>2. j = 1 \/ j = 2 \/ j = 3 \/ j = 4 \/ j = 5 \/ j = 6 \/ j = 7
    OBVIOUS
  <2> QED
    BY <2>1, <2>2, SMTT(40) DEF Vpm
<1>3. VpmSet \cap ({"mpam2_el2", "mpam3_el3"} \cup MpamHcr) = {}
  BY DEF VpmSet, MpamHcr
<1>u. \A r : r \in {"trace", "pmscr_el1", "trblimitr_el1"} => r \in Unswitched
  BY DEF Unswitched
<1>4. \A r \in {"mpam2_el2", "mpam3_el3"} \cup MpamHcr : \A i \in 1 .. 7 : r # Vpm[i]
  BY <1>3, VpmNames
<1>5. \A r \in Mpam \ VpmSet : r \in Register
  BY ZenonT(40) DEF Register, MpamCpuContext
<1>6. "mpam2_el2" \in Implemented /\ "mpam3_el3" \in Implemented
  <2>1. "mpam2_el2" \notin MpamHcr /\ "mpam3_el3" \notin MpamHcr
    BY DEF MpamHcr
  <2>2. "mpam2_el2" \notin VpmSet /\ "mpam3_el3" \notin VpmSet
    BY DEF VpmSet
  <2> QED
    BY <1>1, <1>4, <1>5, <1>u, <2>1, <2>2, Implements, ZenonT(40)
<1>7. hw.vpmr_max # -1 => MpamHcr \subseteq Implemented
  BY <1>1, <1>3, <1>4, <1>5, <1>u, Implements, ZenonT(40)
<1>8. ASSUME NEW i \in 1 .. 7
      PROVE  /\ Vpm[i] \in Implemented <=> i <= hw.vpmr_max
             /\ Vpm[i] \in VpmRegisters <=> i <= hw.vpmr_max
  <2>1. Vpm[i] \in Register /\ Vpm[i] \in VpmSet
    BY <1>8, VpmNames, ZenonT(40) DEF Register, MpamCpuContext
  <2>2. Vpm[i] \notin MpamHcr
    BY <2>1, <1>3
  <2>3. ~(i > hw.vpmr_max) <=> i <= hw.vpmr_max
    BY <1>8
  <2>4. Vpm[i] \in Implemented <=> \A j \in 1 .. 7 : Vpm[i] = Vpm[j] => ~(j > hw.vpmr_max)
    BY <1>1, <1>u, <2>1, <2>2, Implements, ZenonT(40)
  <2>5. Vpm[i] \in Implemented <=> i <= hw.vpmr_max
    BY <1>8, <1>2, <2>3, <2>4, ZenonT(40)
  <2>6. (IF i = 7 THEN hw.vpmr_max = 7 ELSE hw.vpmr_max >= i) <=> i <= hw.vpmr_max
    BY <1>8
  <2>7. Vpm[i] \in VpmRegisters <=>
          (IF i = 7 THEN hw.vpmr_max = 7 ELSE hw.vpmr_max >= i)
    BY <1>8, <1>2, ZenonT(40) DEF VpmRegisters
  <2> QED
    BY <2>5, <2>6, <2>7
<1> QED
  BY <1>6, <1>7, <1>8, SMTT(40)

-----------------------------------------------------------------------------
(* What switch_world copies.                                               *)

\* What the assumption says of the core and build that were chosen.
HwOk ==
  /\ hw.sel2 \in BOOLEAN /\ hw.rme \in BOOLEAN /\ hw.erratum \in BOOLEAN
  /\ hw.rme => hw.sel2
  /\ hw.vpmr_max \in -1 .. 7

\* The sets of the extensions and of CpuContext, member by member.
LEMMA Members ==
  ASSUME HwOk, NEW r
  PROVE  /\ r \in Extensions <=>
              \/ hw.sel2 /\ \/ r \in FgtCpuContext \ {"hafgrtr_el2"}
                            \/ has("AMU") /\ r = "hafgrtr_el2"
                            \/ has("FGT2") /\ r \in Fgt2CpuContext
                            \/ has("HCX") /\ r \in HcxCpuContext
                            \/ has("MPAM") /\ r = "mpam2_el2"
                            \/ /\ has("MPAM") /\ hw.vpmr_max # -1
                               /\ r \in MpamHcr \cup VpmRegisters
              \/ has("MTE2") /\ r \in Mte2CpuContext(hw.sel2)
              \/ r \in RasCpuContext(hw.sel2)
              \/ has("SCTLR2") /\ r \in Sctlr2CpuContext(hw.sel2)
              \/ has("TCR2") /\ r \in Tcr2CpuContext(hw.sel2)
         /\ r \in LowerEl <=>
              \/ ~hw.sel2 /\ r \in El1Sysregs
              \/ hw.sel2 /\ r \in El2Sysregs \ El2Vhe
              \/ hw.sel2 /\ has("VHE") /\ r \in El2Vhe
<1>2. r \in mpam_save <=>
        \/ has("MPAM") /\ r = "mpam2_el2"
        \/ has("MPAM") /\ hw.vpmr_max # -1 /\ r \in MpamHcr \cup VpmRegisters
  BY ZenonT(40) DEF mpam_save, If
<1>3. /\ r \in fgt_save <=> \/ r \in FgtCpuContext \ {"hafgrtr_el2"}
                            \/ has("AMU") /\ r = "hafgrtr_el2"
      /\ r \in fgt2_save <=> has("FGT2") /\ r \in Fgt2CpuContext
      /\ r \in hcx_save <=> has("HCX") /\ r \in HcxCpuContext
  BY ZenonT(40) DEF fgt_save, fgt2_save, hcx_save, If
<1>4. /\ r \in mte2_context <=> has("MTE2") /\ r \in Mte2CpuContext(hw.sel2)
      /\ r \in ras_context <=> r \in RasCpuContext(hw.sel2)
      /\ r \in sctlr2_context <=> has("SCTLR2") /\ r \in Sctlr2CpuContext(hw.sel2)
      /\ r \in tcr2_context <=> has("TCR2") /\ r \in Tcr2CpuContext(hw.sel2)
  BY ZenonT(40)
     DEF mte2_context, ras_context, sctlr2_context, tcr2_context, If
<1>6. r \in Extensions <=>
        \/ hw.sel2 /\ (r \in fgt_save \/ r \in fgt2_save \/ r \in hcx_save \/ r \in mpam_save)
        \/ r \in mte2_context \/ r \in ras_context \/ r \in sctlr2_context
        \/ r \in tcr2_context
  BY ZenonT(40) DEF Extensions, If
<1>7. r \in LowerEl <=>
              \/ ~hw.sel2 /\ r \in El1Sysregs
              \/ hw.sel2 /\ r \in El2Sysregs \ El2Vhe
              \/ hw.sel2 /\ has("VHE") /\ r \in El2Vhe
  BY ZenonT(40) DEF LowerEl, If
<1> QED
  BY <1>2, <1>3, <1>4, <1>6, <1>7, ZenonT(40)

\* The core has every register that is copied.
LEMMA SwitchedImplemented ==
  ASSUME HwOk
  PROVE  Extensions \subseteq Implemented /\ LowerEl \subseteq Implemented
<1>5. hw.sel2 \in BOOLEAN /\ hw.vpmr_max \in -1 .. 7
  BY DEF HwOk
<1>1. ASSUME NEW r \in VpmRegisters, has("MPAM")
      PROVE  r \in Implemented
  <2>1. PICK i \in 1 .. 7 : r = Vpm[i]
    BY <1>1, ZenonT(40) DEF VpmRegisters
  <2> QED
    BY <1>1, <1>5, <2>1, MpamThere
<1>2. ASSUME NEW r \in Extensions PROVE r \in Implemented
  BY <1>1, <1>2, <1>5, Members, MpamThere, AlwaysThere, ThereWithFeature, ZenonT(40)
<1>3. ASSUME NEW r \in LowerEl PROVE r \in Implemented
  BY <1>3, Members, AlwaysThere, ThereWithFeature, ZenonT(40)
<1> QED
  BY <1>2, <1>3

\* Which bits the traps of a world have.
LEMMA TrapBits ==
  ASSUME NEW w, w # "NonSecure"
  PROVE  "TTA" \in cptr_el3(w) /\ "NSTB_EN" \notin mdcr_el3(w)
<1>1. "TTA" \in cptr_el3(w)
  BY ZenonT(40) DEF cptr_el3, TraceCptr, If
<1>2. "NSTB_EN" \notin Mtpmu(CommonMdcr)
  BY DEF Mtpmu, CommonMdcr, If
<1>3. "NSTB_EN" \notin Spe(w, Mtpmu(CommonMdcr))
  BY <1>2 DEF Spe
<1>4. "NSTB_EN" \notin Trbe(w, Spe(w, Mtpmu(CommonMdcr)))
  BY <1>3 DEF Trbe, has
<1> QED
  BY <1>1, <1>4 DEF mdcr_el3, Trf

\* What a world can use, where it is one that EL3 gives no more than it copies.
LEMMA AccessibleMember ==
  ASSUME NEW w, NEW r \in Accessible(w)
  PROVE  /\ r \in Implemented
         /\ \/ HasEl2(w) /\ \/ r \in El2Sysregs \cup RasCpuContext(TRUE)
                            \/ r \in FgtCpuContext \cup Fgt2CpuContext
                            \/ r \in HcxCpuContext \cup MpamCpuContext
            \/ ~hw.sel2 /\ r \in El1Sysregs \cup RasCpuContext(FALSE)
            \/ r \in Mte2CpuContext(hw.sel2)
            \/ r \in Sctlr2CpuContext(hw.sel2) \cup Tcr2CpuContext(hw.sel2)
            \/ "TTA" \notin cptr_el3(w)
            \/ w = "NonSecure"
            \/ "NSTB_EN" \in mdcr_el3(w)
<1> DEFINE scr == scr_el3(w)
           Some == /\ HasEl2(w)
                   /\ \/ r \in El2Sysregs \cup RasCpuContext(TRUE)
                      \/ r \in FgtCpuContext \cup Fgt2CpuContext
                      \/ r \in HcxCpuContext \cup MpamCpuContext
<1>1. /\ r \in Implemented
      /\ \/ r \in If(HasEl2(w), El2Sysregs \cup RasCpuContext(TRUE))
         \/ r \in If(~hw.sel2, El1Sysregs \cup RasCpuContext(FALSE))
         \/ r \in If(HasEl2(w) /\ "FGTEN" \in scr, FgtCpuContext)
         \/ r \in If(HasEl2(w) /\ "FGTEN2" \in scr, Fgt2CpuContext)
         \/ r \in If(HasEl2(w) /\ "HXEN" \in scr, HcxCpuContext)
         \/ r \in If(HasEl2(w) /\ "TRAPLOWER" \notin mpam3_el3(w), MpamCpuContext)
         \/ r \in If("ATA" \in scr, Mte2CpuContext(hw.sel2))
         \/ r \in If("SCTLR2EN" \in scr, Sctlr2CpuContext(hw.sel2))
         \/ r \in If("TCR2EN" \in scr, Tcr2CpuContext(hw.sel2))
         \/ r \in If("TTA" \notin cptr_el3(w), {"trace"})
         \/ r \in If("NSPB_NS" \in mdcr_el3(w) /\ w = "NonSecure", {"pmscr_el1"})
         \/ r \in If("NSTB_EN" \in mdcr_el3(w) /\ BufferOwner(mdcr_el3(w)) = w,
                     {"trblimitr_el1"})
  BY ZenonT(40) DEF Accessible
<1>2. /\ r \in If(HasEl2(w), El2Sysregs \cup RasCpuContext(TRUE)) => Some
      /\ r \in If(HasEl2(w) /\ "FGTEN" \in scr, FgtCpuContext) => Some
      /\ r \in If(HasEl2(w) /\ "FGTEN2" \in scr, Fgt2CpuContext) => Some
      /\ r \in If(HasEl2(w) /\ "HXEN" \in scr, HcxCpuContext) => Some
      /\ r \in If(HasEl2(w) /\ "TRAPLOWER" \notin mpam3_el3(w), MpamCpuContext) => Some
  BY ZenonT(40) DEF If
<1>3. /\ r \in If(~hw.sel2, El1Sysregs \cup RasCpuContext(FALSE))
           => ~hw.sel2 /\ r \in El1Sysregs \cup RasCpuContext(FALSE)
      /\ r \in If("ATA" \in scr, Mte2CpuContext(hw.sel2)) => r \in Mte2CpuContext(hw.sel2)
      /\ r \in If("SCTLR2EN" \in scr, Sctlr2CpuContext(hw.sel2))
           => r \in Sctlr2CpuContext(hw.sel2)
      /\ r \in If("TCR2EN" \in scr, Tcr2CpuContext(hw.sel2)) => r \in Tcr2CpuContext(hw.sel2)
  BY ZenonT(40) DEF If
<1>4. /\ r \in If("TTA" \notin cptr_el3(w), {"trace"}) => "TTA" \notin cptr_el3(w)
      /\ r \in If("NSPB_NS" \in mdcr_el3(w) /\ w = "NonSecure", {"pmscr_el1"})
           => w = "NonSecure"
      /\ r \in If("NSTB_EN" \in mdcr_el3(w) /\ BufferOwner(mdcr_el3(w)) = w,
                  {"trblimitr_el1"})
           => "NSTB_EN" \in mdcr_el3(w)
  BY ZenonT(40) DEF If
<1> HIDE DEF Some
<1> QED
  BY <1>1, <1>2, <1>3, <1>4, ZenonT(40) DEF Some

\* Every register that a world other than the normal world can use is copied.
LEMMA OnlyNormalWorld ==
  ASSUME HwOk, NEW w, w # "NonSecure"
  PROVE  Accessible(w) \subseteq Switched
<1> SUFFICES ASSUME NEW r \in Accessible(w) PROVE r \in Switched
  OBVIOUS
<1>1. hw.sel2 \in BOOLEAN /\ hw.vpmr_max \in -1 .. 7
  BY DEF HwOk
<1>2. r \in Implemented
  BY AccessibleMember, ZenonT(40)
<1>3. \/ hw.sel2 /\ \/ r \in El2Sysregs \cup RasCpuContext(TRUE)
                    \/ r \in FgtCpuContext \cup Fgt2CpuContext
                    \/ r \in HcxCpuContext \cup MpamCpuContext
      \/ ~hw.sel2 /\ r \in El1Sysregs \cup RasCpuContext(FALSE)
      \/ r \in Mte2CpuContext(hw.sel2)
      \/ r \in Sctlr2CpuContext(hw.sel2) \cup Tcr2CpuContext(hw.sel2)
  BY AccessibleMember, TrapBits, ZenonT(40) DEF HasEl2
<1>4. CASE hw.sel2 /\ r \in El2Sysregs
  BY <1>2, <1>4, Implements, Members, ZenonT(40) DEF Switched
<1>5. CASE r \in RasCpuContext(hw.sel2)
  BY <1>5, Members, ZenonT(40) DEF Switched
<1>6. CASE hw.sel2 /\ r \in FgtCpuContext \cup Fgt2CpuContext \cup HcxCpuContext
  BY <1>2, <1>6, Implements, Members, ZenonT(40) DEF Switched
<1>7. CASE hw.sel2 /\ r \in MpamCpuContext
  <2>1. has("MPAM")
    BY <1>2, <1>7, Implements, ZenonT(40)
  <2>2. CASE r = "mpam2_el2"
    BY <1>7, <2>1, <2>2, Members, ZenonT(40) DEF Switched
  <2>3. CASE r \in MpamHcr
    <3>1. hw.vpmr_max # -1
      BY <1>2, <2>3, Implements, ZenonT(40)
    <3> QED
      BY <1>7, <2>1, <2>3, <3>1, Members, ZenonT(40) DEF Switched
  <2>4. CASE \E i \in 1 .. 7 : r = Vpm[i]
    <3>1. PICK i \in 1 .. 7 : r = Vpm[i]
      BY <2>4, SMTT(40)
    <3>2. i <= hw.vpmr_max /\ r \in VpmRegisters
      BY <1>1, <1>2, <2>1, <3>1, MpamThere, SMTT(40)
    <3>3. hw.vpmr_max # -1
      BY <1>1, <3>2
    <3> QED
      BY <1>7, <2>1, <3>2, <3>3, Members, ZenonT(40) DEF Switched
  <2> QED
    BY <1>7, <2>2, <2>3, <2>4, ZenonT(40) DEF MpamCpuContext
<1>8. CASE ~hw.sel2 /\ r \in El1Sysregs
  BY <1>8, Members, ZenonT(40) DEF Switched
<1>9. CASE r \in Mte2CpuContext(hw.sel2)
  <2>1. r \in Both(Mte2CpuContext)
    BY <1>9, ZenonT(40) DEF Both, Mte2CpuContext
  <2> QED
    BY <1>2, <1>9, <2>1, Implements, Members, ZenonT(40) DEF Switched
<1>10. CASE r \in Sctlr2CpuContext(hw.sel2)
  <2>1. r \in Both(Sctlr2CpuContext)
    BY <1>10, ZenonT(40) DEF Both, Sctlr2CpuContext
  <2> QED
    BY <1>2, <1>10, <2>1, Implements, Members, ZenonT(40) DEF Switched
<1>11. CASE r \in Tcr2CpuContext(hw.sel2)
  <2>1. r \in Both(Tcr2CpuContext)
    BY <1>11, ZenonT(40) DEF Both, Tcr2CpuContext
  <2> QED
    BY <1>2, <1>11, <2>1, Implements, Members, ZenonT(40) DEF Switched
<1>12. /\ hw.sel2 => RasCpuContext(hw.sel2) = RasCpuContext(TRUE)
       /\ ~hw.sel2 => RasCpuContext(hw.sel2) = RasCpuContext(FALSE)
  BY DEF RasCpuContext
<1> QED
  BY <1>3, <1>4, <1>5, <1>6, <1>7, <1>8, <1>9, <1>10, <1>11, <1>12, ZenonT(40)

\* The members of LowerElSysregs that the core has.
LEMMA LowerElThere ==
  ASSUME HwOk
  PROVE  LowerElSysregs \cap Implemented \subseteq LowerEl
<1> SUFFICES ASSUME NEW r \in LowerElSysregs, r \in Implemented
             PROVE  r \in LowerEl
  OBVIOUS
<1> QED
  BY Implements, Members, ZenonT(40) DEF LowerElSysregs

\* Nothing that is copied is an EL2 register in a build without Secure EL2, nor
\* one of those that the init functions write once.
LEMMA SwitchedWithoutEl2 ==
  ASSUME HwOk, ~hw.sel2
  PROVE  Switched \cap (El2Sysregs \cup HfgInit \cup HcxCpuContext) = {}
<1>1. El1Sysregs \cap (El2Sysregs \cup HfgInit \cup HcxCpuContext) = {}
  BY DEF El1Sysregs, El2Sysregs, El2Vhe, HfgInit, HcxCpuContext
<1>2. (Mte2Sel1 \cup RasSel1 \cup Sctlr2Sel1 \cup Tcr2Sel1)
         \cap (El2Sysregs \cup HfgInit \cup HcxCpuContext) = {}
  BY DEF El2Sysregs, El2Vhe, HfgInit, HcxCpuContext, Mte2Sel1, RasSel1, Sctlr2Sel1,
         Tcr2Sel1
<1>3. Switched \subseteq El1Sysregs \cup (Mte2Sel1 \cup RasSel1 \cup Sctlr2Sel1 \cup Tcr2Sel1)
  <2> SUFFICES ASSUME NEW r \in Switched
               PROVE  r \in El1Sysregs \cup (Mte2Sel1 \cup RasSel1 \cup Sctlr2Sel1 \cup Tcr2Sel1)
    OBVIOUS
  <2> QED
    BY Members, ZenonT(40) DEF Switched, Mte2CpuContext, RasCpuContext, Sctlr2CpuContext,
       Tcr2CpuContext
<1> QED
  BY <1>1, <1>2, <1>3, ZenonT(40)

\* EL1 registers are the business of EL2 in a build with Secure EL2.
LEMMA NoEl1WithEl2 ==
  ASSUME HwOk, hw.sel2, NEW w
  PROVE  Accessible(w) \cap {"elr_el1", "esr_el1", "spsr_el1"} = {}
<1> SUFFICES ASSUME NEW r \in Accessible(w), r \in {"elr_el1", "esr_el1", "spsr_el1"}
             PROVE  FALSE
  OBVIOUS
<1>1. r \notin El2Sysregs \cup RasCpuContext(TRUE)
  BY DEF El2Sysregs, El2Vhe, RasCpuContext
<1>2. r \notin FgtCpuContext \cup Fgt2CpuContext \cup HcxCpuContext
  BY DEF FgtCpuContext, Fgt2CpuContext, HcxCpuContext
<1>3. r \notin VpmSet \cup {"mpam2_el2"} \cup MpamHcr
  BY DEF VpmSet, MpamHcr
<1>4. r \notin MpamCpuContext
  BY <1>3, VpmNames, ZenonT(40) DEF MpamCpuContext
<1>5. r \notin Mte2CpuContext(hw.sel2) \cup Sctlr2CpuContext(hw.sel2) \cup Tcr2CpuContext(hw.sel2)
  BY DEF Mte2CpuContext, Sctlr2CpuContext, Tcr2CpuContext
<1>6. r \notin {"trace", "pmscr_el1", "trblimitr_el1"}
  OBVIOUS
<1> QED
  BY <1>1, <1>2, <1>4, <1>5, <1>6, ZenonT(90) DEF Accessible, If

-----------------------------------------------------------------------------
(* What the steps of EL3 do to a core.                                     *)

\* Contexts with that of world w replaced.
With(saved, w, context) == [saved EXCEPT ![w] = context]

\* EL3 may name registers rs.
Usable(rs, scr) ==
  /\ rs \subseteq Implemented
  /\ scr \cap {"NS", "EEL2"} # {} \/ rs \cap El2Sysregs = {}

\* A change of one part.
LEMMA SoundExcept ==
  ASSUME NEW reg, NEW saved, NEW scr, NEW x
  PROVE  /\ [Sound(reg, saved, scr) EXCEPT !.reg = x] = Sound(x, saved, scr)
         /\ [Sound(reg, saved, scr) EXCEPT !.saved = x] = Sound(reg, x, scr)
         /\ [Sound(reg, saved, scr) EXCEPT !.scr = x] = Sound(reg, saved, x)
<1> DEFINE a == [Sound(reg, saved, scr) EXCEPT !.reg = x]
           b == [Sound(reg, saved, scr) EXCEPT !.saved = x]
           c == [Sound(reg, saved, scr) EXCEPT !.scr = x]
<1>1. /\ a = [Sound(reg, saved, scr) EXCEPT !.reg = x]
      /\ b = [Sound(reg, saved, scr) EXCEPT !.saved = x]
      /\ c = [Sound(reg, saved, scr) EXCEPT !.scr = x]
  OBVIOUS
<1> HIDE DEF a, b, c
<1>2. a = Sound(x, saved, scr)
  BY <1>1, ZenonT(40) DEF Sound
<1>3. b = Sound(reg, x, scr)
  BY <1>1, ZenonT(40) DEF Sound
<1>4. c = Sound(reg, saved, x)
  BY <1>1, ZenonT(40) DEF Sound
<1> QED
  BY <1>1, <1>2, <1>3, <1>4, ZenonT(40)

\* Naming registers that the core has changes nothing.
LEMMA UsingEffect ==
  ASSUME NEW reg, NEW saved, NEW scr, NEW rs, Usable(rs, scr)
  PROVE  Using(Sound(reg, saved, scr), rs) = Sound(reg, saved, scr)
<1> DEFINE m == Sound(reg, saved, scr)
           bad == \/ m.fault
                  \/ ~(rs \subseteq Implemented)
                  \/ ~(m.scr \cap {"NS", "EEL2"} # {}) /\ rs \cap El2Sysregs # {}
<1>1. Using(m, rs) = [m EXCEPT !.fault = bad]
  BY SMTT(40) DEF Using
<1>2. ~m.fault /\ m.scr = scr
  BY DEF Sound
<1>3. ~bad
  BY <1>2, ZenonT(40) DEF Usable
<1> HIDE DEF bad
<1>4. bad = FALSE
  BY <1>3
<1> QED
  BY <1>1, <1>4, ZenonT(40) DEF Sound

\* A copy to the context of a world.
LEMMA SaveEffect ==
  ASSUME NEW reg, NEW saved, NEW scr, NEW w, NEW rs, Usable(rs, scr)
  PROVE  Save(Sound(reg, saved, scr), w, rs)
           = Sound(reg, With(saved, w, Only(rs, reg, saved[w])), scr)
<1> DEFINE m == Sound(reg, saved, scr)
<1>1. Using(m, rs) = m
  BY UsingEffect, ZenonT(40)
<1>2. m.reg = reg /\ m.saved = saved
  BY DEF Sound
<1> HIDE DEF m
<1>3. Save(m, w, rs) = [m EXCEPT !.saved[w] = Only(rs, reg, @)]
  BY <1>1, <1>2, ZenonT(40) DEF Save
<1> QED
  BY <1>3, ZenonT(40) DEF Sound, m, With

\* A copy from the context of a world.
LEMMA RestoreEffect ==
  ASSUME NEW reg, NEW saved, NEW scr, NEW w, NEW rs, Usable(rs, scr)
  PROVE  Restore(Sound(reg, saved, scr), w, rs)
           = Sound(Only(rs, saved[w], reg), saved, scr)
<1> DEFINE m == Sound(reg, saved, scr)
<1>1. Using(m, rs) = m
  BY UsingEffect, ZenonT(40)
<1>2. m.reg = reg /\ m.saved = saved
  BY DEF Sound
<1> HIDE DEF m
<1>3. Restore(m, w, rs) = [m EXCEPT !.reg = Only(rs, saved[w], @)]
  BY <1>1, <1>2, ZenonT(40) DEF Restore
<1> QED
  BY <1>3, ZenonT(40) DEF Sound, m

\* Two copies from one place are one.
LEMMA OnlyTwice ==
  ASSUME NEW rs, NEW ss, NEW new, NEW old
  PROVE  Only(rs, new, Only(ss, new, old)) = Only(ss \cup rs, new, old)
BY DEF Only

\* One register at a time.
LEMMA OnlyValue ==
  ASSUME NEW rs, NEW new, NEW old, NEW r \in Register
  PROVE  Only(rs, new, old)[r] = IF r \in rs THEN new[r] ELSE old[r]
BY SMTT(40) DEF Only

\* A copy keeps the type of a register file.
LEMMA OnlyType ==
  ASSUME NEW rs, NEW S, NEW new \in [Register -> S], NEW old \in [Register -> S]
  PROVE  Only(rs, new, old) \in [Register -> S]
BY DEF Only

\* The registers that are copied can be named while EL2 is on where the build
\* has it.
LEMMA SwitchedUsable ==
  ASSUME HwOk, NEW scr, hw.sel2 => "EEL2" \in scr, NEW rs,
         rs \subseteq Extensions \/ rs \subseteq LowerEl
  PROVE  Usable(rs, scr)
<1>1. rs \subseteq Implemented
  BY SwitchedImplemented, ZenonT(40)
<1>2. ~hw.sel2 => rs \cap El2Sysregs = {}
  BY SwitchedWithoutEl2, ZenonT(40) DEF Switched
<1>3. hw.sel2 => scr \cap {"NS", "EEL2"} # {}
  BY ZenonT(40)
<1> QED
  BY <1>1, <1>2, <1>3, ZenonT(40) DEF Usable

\* switch_world and cpu_suspend save what is copied, and nothing else.
LEMMA SaveWorld ==
  ASSUME HwOk, NEW reg, NEW saved, NEW scr, NEW w, w \in DOMAIN saved,
         hw.sel2 => "EEL2" \in scr
  PROVE  save_context(save_lower_el_sysregs(Sound(reg, saved, scr), w), w)
           = Sound(reg, With(saved, w, Only(Switched, reg, saved[w])), scr)
<1> DEFINE low == With(saved, w, Only(LowerEl, reg, saved[w]))
           all == With(low, w, Only(Extensions, reg, low[w]))
           m == Sound(reg, saved, scr)
<1>u. Usable(LowerEl, scr) /\ Usable(Extensions, scr)
  BY SwitchedUsable, ZenonT(40)
<1>1. save_lower_el_sysregs(m, w) = Save(m, w, LowerEl)
  BY SMTT(40) DEF save_lower_el_sysregs, El2Save, LowerEl
<1>2. Save(m, w, LowerEl) = Sound(reg, low, scr)
  BY <1>u, SaveEffect
<1>5. low[w] = Only(LowerEl, reg, saved[w])
  BY ZenonT(40) DEF With
<1>8. all = With(saved, w, Only(Extensions, reg, low[w]))
  BY ZenonT(40) DEF With
<1> HIDE DEF m, low
<1>3. save_context(Sound(reg, low, scr), w) = Save(Sound(reg, low, scr), w, Extensions)
  BY ZenonT(40) DEF save_context, Extensions
<1>4. Save(Sound(reg, low, scr), w, Extensions) = Sound(reg, all, scr)
  BY <1>u, SaveEffect, SMTT(40)
<1>6. Only(Extensions, reg, Only(LowerEl, reg, saved[w]))
        = Only(LowerEl \cup Extensions, reg, saved[w])
  BY OnlyTwice
<1>7. LowerEl \cup Extensions = Switched
  BY ZenonT(40) DEF Switched
<1> HIDE DEF all
<1>9. all = With(saved, w, Only(Switched, reg, saved[w]))
  BY <1>5, <1>6, <1>7, <1>8, ZenonT(40)
<1> QED
  BY <1>1, <1>2, <1>3, <1>4, <1>9, ZenonT(40) DEF m

\* The extensions restore what they save.
LEMMA RestoreContext ==
  ASSUME HwOk, NEW reg, NEW saved, NEW scr, NEW w, hw.sel2 => "EEL2" \in scr
  PROVE  restore_context(Sound(reg, saved, scr), w)
           = Sound(Only(Extensions, saved[w], reg), saved, scr)
<1>1. /\ fgt_restore = fgt_save /\ fgt2_restore = fgt2_save
      /\ hcx_restore = hcx_save /\ mpam_restore = mpam_save
  BY ZenonT(40) DEF fgt_restore, fgt_save, fgt2_restore, fgt2_save, hcx_restore, hcx_save,
     mpam_restore, mpam_save
<1>2. restore_context(Sound(reg, saved, scr), w) = Restore(Sound(reg, saved, scr), w, Extensions)
  BY <1>1, ZenonT(40) DEF restore_context, Extensions
<1> QED
  BY <1>2, SwitchedUsable, RestoreEffect, ZenonT(40)

\* SCR_EL3 after the workaround.
NsFor(scr, w) ==
  IF ~hw.erratum THEN scr
  ELSE IF w = "Secure" THEN scr \ {"NS"} ELSE scr \cup {"NS"}

\* CpuContext restores what it saves, ICH_VMCR_EL2 included.
LEMMA El2RestoreEffect ==
  ASSUME HwOk, hw.sel2, NEW reg, NEW saved, NEW scr, "EEL2" \in scr, NEW w
  PROVE  El2Restore(Sound(reg, saved, scr), w)
           = Sound(Only(LowerEl, saved[w], reg), saved, NsFor(scr, w))
<1> DEFINE new == saved[w]
           c == NsFor(scr, w)
           vmcr == {"ich_vmcr_el2"}
           rest == El2AfterVmcr \cup If(has("VHE"), El2Vhe)
           r1 == Only(El2BeforeVmcr, new, reg)
           r2 == Only(El2BeforeVmcr \cup vmcr, new, reg)
<1>1. El2Sysregs \ El2Vhe = El2BeforeVmcr \cup vmcr \cup El2AfterVmcr
  <2>1. El2Sysregs \ El2Vhe \subseteq El2BeforeVmcr \cup vmcr \cup El2AfterVmcr
    BY DEF El2Sysregs, El2BeforeVmcr, El2AfterVmcr
  <2>2. El2BeforeVmcr \cup vmcr \cup El2AfterVmcr \subseteq El2Sysregs
    BY DEF El2Sysregs, El2BeforeVmcr, El2AfterVmcr
  <2>3. (El2BeforeVmcr \cup vmcr \cup El2AfterVmcr) \cap El2Vhe = {}
    BY DEF El2Vhe, El2BeforeVmcr, El2AfterVmcr
  <2> QED
    BY <2>1, <2>2, <2>3, ZenonT(40)
<1>2. LowerEl = El2BeforeVmcr \cup vmcr \cup rest
  BY <1>1, ZenonT(40) DEF LowerEl
<1>3. "EEL2" \in c
  BY ZenonT(40) DEF NsFor
<1>4. Usable(El2BeforeVmcr, scr) /\ Usable(vmcr, c) /\ Usable(rest, c)
  BY <1>2, <1>3, SwitchedUsable, ZenonT(40)
<1>5. Restore(Sound(reg, saved, scr), w, El2BeforeVmcr) = Sound(r1, saved, scr)
  BY <1>4, RestoreEffect
<1>6. ASSUME NEW a PROVE SetNsForVmcr(Sound(a, saved, scr), w) = Sound(a, saved, c)
  BY ZenonT(40) DEF SetNsForVmcr, NsFor, Sound
<1>7. hw.erratum => ("NS" \in c <=> w # "Secure")
  BY ZenonT(40) DEF NsFor
<1>8. ASSUME NEW a
      PROVE  WriteVmcr(Sound(a, saved, c), w)
               = Sound([a EXCEPT !["ich_vmcr_el2"] = new["ich_vmcr_el2"]], saved, c)
  <2> DEFINE m == Sound(a, saved, c)
  <2>1. Using(m, vmcr) = m
    BY <1>4, UsingEffect, SMTT(40)
  <2>2. m.scr = c /\ m.saved = saved
    BY SMTT(40) DEF Sound
  <2> HIDE DEF m, c, new
  <2>3. ~(hw.erratum /\ ("NS" \in m.scr) # (w # "Secure"))
    BY <1>7, <2>2, SMTT(40)
  <2>4. WriteVmcr(m, w) = [m EXCEPT !.reg["ich_vmcr_el2"] = new["ich_vmcr_el2"]]
    BY <2>1, <2>2, <2>3, ZenonT(40) DEF WriteVmcr, new
  <2> QED
    BY <2>4, ZenonT(40) DEF Sound, m
<1>9. [r1 EXCEPT !["ich_vmcr_el2"] = new["ich_vmcr_el2"]] = r2
  <2>1. "ich_vmcr_el2" \in Register
    BY SMTT(40) DEF Register, El2Sysregs
  <2> HIDE DEF new
  <2> QED
    BY <2>1, ZenonT(40) DEF Only
<1>10. Restore(Sound(r2, saved, c), w, rest) = Sound(Only(rest, new, r2), saved, c)
  BY <1>4, RestoreEffect, SMTT(40)
<1>11. Only(rest, new, r2) = Only(LowerEl, new, reg)
  BY <1>2, OnlyTwice
<1>12. El2Restore(Sound(reg, saved, scr), w)
         = Restore(WriteVmcr(SetNsForVmcr(Sound(r1, saved, scr), w), w), w, rest)
  BY <1>5, ZenonT(40) DEF El2Restore
<1> HIDE DEF r1, r2, c, rest, new
<1>13. WriteVmcr(SetNsForVmcr(Sound(r1, saved, scr), w), w) = Sound(r2, saved, c)
  BY <1>6, <1>8, <1>9, ZenonT(40)
<1> QED
  BY <1>10, <1>11, <1>12, <1>13, ZenonT(40) DEF c, new

\* restore_world, with el3_exit, loads what is copied from the context of a world.
LEMMA RestoreWorld ==
  ASSUME HwOk, NEW reg, NEW saved, NEW scr, NEW w, hw.sel2 => "EEL2" \in scr
  PROVE  el3_exit(restore_world(Sound(reg, saved, scr), w), w)
           = Sound(Only(Switched, saved[w], reg), saved, scr_el3(w))
<1> DEFINE new == saved[w]
           r1 == Only(Extensions, new, reg)
           r2 == Only(LowerEl, new, r1)
           Exit(m) == el3_exit(m, w)
<1>0. hw.sel2 \in BOOLEAN
  BY SMTT(40) DEF HwOk
<1>1. restore_el3_sysregs(Sound(reg, saved, scr), w) = Sound(reg, saved, scr)
  <2>1. If(has("MPAM"), {"mpam3_el3"}) \subseteq Implemented
    BY MpamThere, SMTT(40) DEF If, HwOk
  <2>2. "mpam3_el3" \notin El2Sysregs
    BY DEF El2Sysregs, El2Vhe
  <2>3. If(has("MPAM"), {"mpam3_el3"}) \cap El2Sysregs = {}
    BY <2>2, ZenonT(40) DEF If
  <2> QED
    BY <2>1, <2>3, UsingEffect, SMTT(40) DEF restore_el3_sysregs, Usable
<1>2. restore_context(Sound(reg, saved, scr), w) = Sound(r1, saved, scr)
  BY RestoreContext, SMTT(40)
<1>3. r2 = Only(Switched, new, reg)
  BY OnlyTwice, SMTT(40) DEF Switched
<1> HIDE DEF new
<1>4. \E c : restore_lower_el_sysregs(Sound(r1, saved, scr), w) = Sound(r2, saved, c)
  <2> HIDE DEF r1
  <2>1. CASE hw.sel2
    <3>1. El2Restore(Sound(r1, saved, scr), w) = Sound(r2, saved, NsFor(scr, w))
      BY <2>1, El2RestoreEffect, SMTT(40) DEF new
    <3> QED
      BY <2>1, <3>1, ZenonT(40) DEF restore_lower_el_sysregs
  <2>2. CASE ~hw.sel2
    <3>1. LowerEl = El1Sysregs /\ Usable(LowerEl, scr)
      BY <2>2, SwitchedUsable, ZenonT(40) DEF LowerEl
    <3>2. Restore(Sound(r1, saved, scr), w, LowerEl) = Sound(r2, saved, scr)
      BY <3>1, RestoreEffect, SMTT(40) DEF new
    <3> QED
      BY <2>2, <3>1, <3>2, ZenonT(40) DEF restore_lower_el_sysregs
  <2> QED
    BY <1>0, <2>1, <2>2, SMTT(40)
<1>5. PICK c : restore_lower_el_sysregs(Sound(r1, saved, scr), w) = Sound(r2, saved, c)
  BY <1>4
<1> HIDE DEF r1, r2
<1>6. restore_world(Sound(reg, saved, scr), w) = Sound(r2, saved, c)
  BY <1>1, <1>2, <1>5, ZenonT(40) DEF restore_world
<1>7. el3_exit(Sound(r2, saved, c), w) = Sound(r2, saved, scr_el3(w))
  BY SoundExcept, SMTT(20) DEF el3_exit
<1> QED
  BY <1>3, <1>6, <1>7, ZenonT(40) DEF new

\* A world's SCR_EL3 turns Secure EL2 on where the build has it.
LEMMA ScrHasEel2 ==
  ASSUME NEW w, hw.sel2
  PROVE  "EEL2" \in scr_el3(w)
BY ZenonT(40) DEF scr_el3, CommonScr, If

\* switch_world as a whole.
LEMMA SwitchWorld ==
  ASSUME HwOk, NEW reg, NEW saved, NEW old \in DOMAIN saved, NEW new
  PROVE  LET left_at == With(saved, old, Only(Switched, reg, saved[old]))
         IN  el3_exit(switch_world(Sound(reg, saved, scr_el3(old)), old, new), new)
               = Sound(Only(Switched, left_at[new], reg), left_at, scr_el3(new))
<1> DEFINE left_at == With(saved, old, Only(Switched, reg, saved[old]))
           m == Sound(reg, saved, scr_el3(old))
<1>0. hw.sel2 => "EEL2" \in scr_el3(old)
  BY ScrHasEel2, SMTT(40)
<1>1. save_context(save_lower_el_sysregs(m, old), old) = Sound(reg, left_at, scr_el3(old))
  BY <1>0, SaveWorld, SMTT(40)
<1> HIDE DEF m, left_at
<1>2. el3_exit(restore_world(Sound(reg, left_at, scr_el3(old)), new), new)
        = Sound(Only(Switched, left_at[new], reg), left_at, scr_el3(new))
  BY RestoreWorld, ScrHasEel2, ZenonT(40)
<1> QED
  BY <1>1, <1>2, ZenonT(40) DEF switch_world, m, left_at

\* set_initial_world turns EL2 on before it restores.
LEMMA SetInitialWorld ==
  ASSUME HwOk, NEW reg, NEW saved, NEW scr, NEW w
  PROVE  el3_exit(set_initial_world(Sound(reg, saved, scr), w), w)
           = Sound(Only(Switched, saved[w], reg), saved, scr_el3(w))
<1>1. [Sound(reg, saved, scr) EXCEPT !.scr = scr_el3(w)] = Sound(reg, saved, scr_el3(w))
  BY SoundExcept, SMTT(20)
<1>2. el3_exit(restore_world(Sound(reg, saved, scr_el3(w)), w), w)
        = Sound(Only(Switched, saved[w], reg), saved, scr_el3(w))
  BY RestoreWorld, ScrHasEel2, ZenonT(40)
<1> QED
  BY <1>1, <1>2, ZenonT(40) DEF set_initial_world

\* What is chosen once stays.
LEMMA HwStep ==
  ASSUME hw' = hw
  PROVE  /\ Worlds' = Worlds /\ Switched' = Switched
         /\ \A w : Accessible(w)' = Accessible(w) /\ scr_el3(w)' = scr_el3(w)
<1>1. Worlds' = Worlds
  BY ZenonT(40) DEF Worlds
<1>2. \A f : has(f)' = has(f)
  BY ZenonT(40) DEF has
<1>3. Implemented' = Implemented
  BY <1>2, SMTT(40) DEF Implemented, If
<1>4. /\ mpam_save' = mpam_save /\ fgt_save' = fgt_save /\ fgt2_save' = fgt2_save
      /\ hcx_save' = hcx_save
  BY <1>2, ZenonT(40) DEF mpam_save, fgt_save, fgt2_save, hcx_save, VpmRegisters, If
<1>5. /\ mte2_context' = mte2_context /\ ras_context' = ras_context
      /\ sctlr2_context' = sctlr2_context /\ tcr2_context' = tcr2_context
  BY <1>2, ZenonT(40) DEF mte2_context, ras_context, sctlr2_context, tcr2_context, If
<1>6. Switched' = Switched
  BY <1>2, <1>4, <1>5, ZenonT(40) DEF Switched, Extensions, LowerEl, If
<1>7. \A w : scr_el3(w)' = scr_el3(w)
  BY <1>2, SMTT(40) DEF scr_el3, CommonScr, Fgt2Scr, HcxScr, Mte2Scr, Sctlr2Scr, Tcr2Scr,
     set_routing_model, If
<1>8. \A w : cptr_el3(w)' = cptr_el3(w) /\ mpam3_el3(w)' = mpam3_el3(w)
  BY <1>2, ZenonT(40) DEF cptr_el3, TraceCptr, mpam3_el3, If
<1>9. \A w : mdcr_el3(w)' = mdcr_el3(w)
  BY <1>2, ZenonT(40) DEF mdcr_el3, Trf, Trbe, Spe, Mtpmu, CommonMdcr, If
<1>10. \A w : HasEl2(w)' = HasEl2(w)
  BY ZenonT(40) DEF HasEl2
<1>11. \A w : Accessible(w)' = Accessible(w)
  BY <1>3, <1>7, <1>8, <1>9, <1>10, ZenonT(40) DEF Accessible
<1> QED
  BY <1>1, <1>6, <1>7, <1>11, SMTT(40)

-----------------------------------------------------------------------------
(* Boot.                                                                   *)

\* The registers that the init functions write.
InitRegs == If(has("HCX"), HcxCpuContext) \cup If(~hw.sel2, HfgInit)

\* A context that initialise_common has emptied.
Emptied(reg, old) ==
  IF hw.sel2
  THEN [Only(LowerElSysregs, All(0), old) EXCEPT !["mdcr_el2"] = reg["mdcr_el2"]]
  ELSE Only(LowerElSysregs, All(0), old)

\* All but MDCR_EL2 of the registers in it are EMPTY.
LEMMA EmptiedValue ==
  ASSUME NEW reg \in RegFile, NEW old \in RegFile
  PROVE  /\ Emptied(reg, old) \in RegFile
         /\ \A r \in Register : r \in LowerElSysregs \ {"mdcr_el2"} =>
              Emptied(reg, old)[r] = 0
<1> DEFINE e == Only(LowerElSysregs, All(0), old)
<1>1. "mdcr_el2" \in Register
  BY ZenonT(40) DEF Register, El2Sysregs
<1>2. All(0) \in RegFile /\ \A r \in Register : All(0)[r] = 0
  BY DEF All, RegFile, Value
<1>3. e \in RegFile /\ \A r \in Register : r \in LowerElSysregs => e[r] = 0
  BY <1>2, OnlyType, OnlyValue, SMTT(40) DEF RegFile
<1>4. reg["mdcr_el2"] \in Value
  BY <1>1, SMTT(40) DEF RegFile
<1> HIDE DEF e
<1>5. [e EXCEPT !["mdcr_el2"] = reg["mdcr_el2"]] \in RegFile
  BY <1>1, <1>3, <1>4, SMTT(40) DEF RegFile
<1>6. \A r \in Register : r # "mdcr_el2" =>
        [e EXCEPT !["mdcr_el2"] = reg["mdcr_el2"]][r] = e[r]
  BY <1>3 DEF RegFile
<1> QED
  BY <1>3, <1>5, <1>6, ZenonT(40) DEF Emptied, e

\* initialise_el3_sysregs.
LEMMA InitialiseEl3 ==
  ASSUME NEW reg, NEW saved, NEW scr
  PROVE  initialise_el3_sysregs(Sound(reg, saved, scr))
           = Sound(Only(InitRegs, All(0), reg), saved, scr)
<1> DEFINE m == Sound(reg, saved, scr)
<1>1. m.reg = reg
  BY DEF Sound
<1>2. [m EXCEPT !.reg = Only(InitRegs, All(0), reg)]
        = Sound(Only(InitRegs, All(0), reg), saved, scr)
  BY SoundExcept, SMTT(40)
<1> HIDE DEF m
<1>3. initialise_el3_sysregs(m) = [m EXCEPT !.reg = Only(InitRegs, All(0), reg)]
  BY <1>1, ZenonT(40) DEF initialise_el3_sysregs, InitRegs
<1> QED
  BY <1>2, <1>3, SMTT(40) DEF m

\* initialise_common.
LEMMA InitialiseCommon ==
  ASSUME NEW reg, NEW saved, NEW scr, NEW w \in DOMAIN saved
  PROVE  initialise_common(Sound(reg, saved, scr), w)
           = Sound(reg, With(saved, w, Emptied(reg, saved[w])), scr)
<1> DEFINE m == Sound(reg, saved, scr)
           e == Only(LowerElSysregs, All(0), saved[w])
           s == [saved EXCEPT ![w] = e]
           n == [m EXCEPT !.saved[w] = e]
<1>1. m.reg = reg /\ m.saved = saved
  BY DEF Sound
<1>2. n = [m EXCEPT !.saved[w] = e]
  OBVIOUS
<1> HIDE DEF n, e
<1>3. n = Sound(reg, s, scr)
  BY <1>2, ZenonT(40) DEF Sound
<1>4. s[w] = e /\ w \in DOMAIN s
  BY ZenonT(40)
<1>5. CASE hw.sel2
  <2> DEFINE x == reg["mdcr_el2"]
             p == [n EXCEPT !.saved[w]["mdcr_el2"] = x]
             q == [s EXCEPT ![w]["mdcr_el2"] = x]
  <2>1. p = [n EXCEPT !.saved[w]["mdcr_el2"] = x]
    OBVIOUS
  <2>2. [s EXCEPT ![w]["mdcr_el2"] = x] = [saved EXCEPT ![w] = [e EXCEPT !["mdcr_el2"] = x]]
    BY ZenonT(40)
  <2> HIDE DEF p, x, s
  <2>3. p = Sound(reg, q, scr)
    BY <1>3, <2>1, ZenonT(40) DEF Sound
  <2>4. initialise_common(m, w) = p
    BY <1>1, <1>5, ZenonT(40) DEF initialise_common, p, x, n, e
  <2> QED
    BY <1>5, <2>2, <2>3, <2>4, ZenonT(40) DEF With, Emptied, e, x
<1>6. CASE ~hw.sel2
  <2>1. initialise_common(m, w) = n
    BY <1>1, <1>6, ZenonT(40) DEF initialise_common, n, e
  <2> QED
    BY <1>3, <1>6, <2>1, ZenonT(40) DEF With, Emptied, e
<1> QED
  BY <1>5, <1>6, SMTT(40)

\* initialise_contexts, when a core starts.
LEMMA InitialiseContexts ==
  ASSUME NEW reg, NEW saved, DOMAIN saved = Worlds, NEW scr
  PROVE  LET init == Only(InitRegs, All(0), reg)
         IN  initialise_contexts(Sound(reg, saved, scr))
               = Sound(init, [w \in Worlds |-> Emptied(init, saved[w])], scr)
<1> DEFINE init == Only(InitRegs, All(0), reg)
           n == Sound(init, saved, scr)
           all == [w \in Worlds |-> Emptied(init, saved[w])]
<1>1. initialise_el3_sysregs(Sound(reg, saved, scr)) = n
  BY InitialiseEl3
<1>2. ASSUME NEW w \in Worlds
      PROVE  initialise_common(n, w).saved[w] = Emptied(init, saved[w])
  <2> DEFINE one == With(saved, w, Emptied(init, saved[w]))
  <2>1. w \in DOMAIN saved
    BY <1>2
  <2>2. one[w] = Emptied(init, saved[w])
    BY <2>1, ZenonT(40) DEF With
  <2>3. initialise_common(n, w) = Sound(init, one, scr)
    BY <2>1, InitialiseCommon, SMTT(20)
  <2> HIDE DEF init, one
  <2>4. Sound(init, one, scr).saved = one
    BY DEF Sound
  <2> QED
    BY <2>2, <2>3, <2>4, ZenonT(40)
<1>3. [w \in Worlds |-> initialise_common(n, w).saved[w]] = all
  BY <1>2, ZenonT(40)
<1> HIDE DEF init, all
<1> DEFINE k == [n EXCEPT !.saved = all]
<1>4. k = [n EXCEPT !.saved = all]
  OBVIOUS
<1> HIDE DEF k
<1>5. k = Sound(init, all, scr)
  BY <1>4, ZenonT(40) DEF Sound
<1> HIDE DEF n
<1>6. initialise_contexts(Sound(reg, saved, scr)) = k
  BY <1>1, <1>3, <1>4, ZenonT(40) DEF initialise_contexts
<1> QED
  BY <1>5, <1>6, ZenonT(40) DEF all, init

\* update_contexts_suspend, when it resumes.
LEMMA UpdateContexts ==
  ASSUME NEW reg, NEW saved, DOMAIN saved = Worlds, NEW scr
  PROVE  LET init == Only(InitRegs, All(0), reg)
         IN  update_contexts_suspend(Sound(reg, saved, scr))
               = Sound(init, With(saved, "NonSecure", Emptied(init, saved["NonSecure"])), scr)
<1> DEFINE init == Only(InitRegs, All(0), reg)
<1>1. "NonSecure" \in DOMAIN saved
  BY SMTT(40) DEF Worlds
<1>2. initialise_el3_sysregs(Sound(reg, saved, scr)) = Sound(init, saved, scr)
  BY InitialiseEl3, SMTT(40)
<1> HIDE DEF init
<1>3. initialise_common(Sound(init, saved, scr), "NonSecure")
        = Sound(init, With(saved, "NonSecure", Emptied(init, saved["NonSecure"])), scr)
  BY <1>1, InitialiseCommon, SMTT(20)
<1> QED
  BY <1>2, <1>3, ZenonT(40) DEF update_contexts_suspend, init

-----------------------------------------------------------------------------
(* The inductive invariant.                                                *)

\* The place of a register in a core that is given by its parts.
Place(w, r, at, reg, saved) ==
  IF w = at \/ r \notin Switched THEN reg[r] ELSE saved[w][r]

\* What the invariant says of the core.
LEMMA CoreIs ==
  ASSUME ContextInv
  PROVE  /\ core = Sound(core.reg, core.saved, scr_el3(world))
         /\ core.reg \in RegFile /\ core.saved \in [Worlds -> RegFile]
         /\ \A w \in Worlds : \A r \in Accessible(w) :
              left[w][r] \in {Unknown, Place(w, r, world, core.reg, core.saved)}
BY ZenonT(40) DEF ContextInv, Kept, Place

\* A step keeps the invariant if the new core, given by its parts, holds what
\* each world goes by.
LEMMA Establish ==
  ASSUME hw \in Config, hw' = hw, world' \in Worlds,
         NEW reg \in RegFile, NEW saved \in [Worlds -> RegFile],
         core' = Sound(reg, saved, scr_el3(world')),
         left' \in [Worlds -> LeftFile],
         \A w \in Worlds : \A r \in Accessible(w) :
           left'[w][r] \in {Unknown, Place(w, r, world', reg, saved)}
  PROVE  ContextInv'
<1>1. /\ Worlds' = Worlds /\ Switched' = Switched
      /\ \A w : Accessible(w)' = Accessible(w) /\ scr_el3(w)' = scr_el3(w)
  BY HwStep, SMTT(40)
<1>2. /\ core'.reg = reg /\ core'.saved = saved /\ core'.scr = scr_el3(world')
      /\ core'.fault = FALSE
  BY DEF Sound
<1>3. core' = Sound(core.reg, core.saved, scr_el3(world))'
  BY <1>1, <1>2, ZenonT(40) DEF Sound
<1>4. \A w \in Worlds : \A r \in Accessible(w) :
        left'[w][r] \in {Unknown, Kept(w, r)'}
  BY <1>1, <1>2, ZenonT(40) DEF Kept, Place
<1> QED
  BY <1>1, <1>2, <1>3, <1>4, ZenonT(40) DEF ContextInv

\* The normal world and the secure world are always there.
LEMMA TwoWorlds == "Secure" \in Worlds /\ "NonSecure" \in Worlds
BY DEF Worlds

\* What any world may do with the registers it can use: write any values to any
\* of them.
AnyUse ==
  \E rs \in SUBSET Accessible(world), new \in RegFile :
    /\ core' = [core EXCEPT !.reg = Only(rs, new, @)]
    /\ left' = [left EXCEPT ![world] = Only(rs, new, @)]
    /\ UNCHANGED <<hw, world>>

\* The core with registers rs written.
Written(rs, new) == [core EXCEPT !.reg = Only(rs, new, @)]

\* A world that writes, or has written for it, registers rs disturbs no other:
\* those of them that another world goes by are copied.
LEMMA WriteStep ==
  ASSUME ContextInv, HwOk, NEW rs, NEW new \in RegFile,
         NEW mine \in LeftFile,
         core' = Written(rs, new), left' = With(left, world, mine),
         UNCHANGED <<hw, world>>,
         \A w \in Worlds \ {world} : \A r \in Accessible(w) \cap rs : r \in Switched,
         \A r \in Accessible(world) :
           \/ r \in rs /\ mine[r] \in {Unknown, new[r]}
           \/ r \notin rs /\ mine[r] \in {Unknown, left[world][r]}
  PROVE  ContextInv'
<1> DEFINE reg == Only(rs, new, core.reg)
           saved == core.saved
<1>1. /\ core = Sound(core.reg, saved, scr_el3(world))
      /\ core.reg \in RegFile /\ saved \in [Worlds -> RegFile]
      /\ \A w \in Worlds : \A r \in Accessible(w) :
           left[w][r] \in {Unknown, Place(w, r, world, core.reg, saved)}
  BY CoreIs, ZenonT(40)
<1>2. core' = Sound(reg, saved, scr_el3(world))
  <2>1. core' = [core EXCEPT !.reg = reg]
    BY ZenonT(40) DEF Written
  <2>2. PICK a, b, c : a = core.reg /\ b = saved /\ c = scr_el3(world)
    OBVIOUS
  <2> HIDE DEF reg, saved
  <2>3. core = Sound(a, b, c)
    BY <1>1, <2>2, ZenonT(40)
  <2>4. core' = Sound(reg, b, c)
    BY <2>1, <2>3, ZenonT(40) DEF Sound
  <2> QED
    BY <2>2, <2>4, ZenonT(40)
<1>3. reg \in RegFile
  BY <1>1, OnlyType, ZenonT(40) DEF RegFile
<1>4. world \in Worlds /\ hw \in Config /\ left \in [Worlds -> LeftFile]
  BY ZenonT(40) DEF ContextInv
<1>5. left' \in [Worlds -> LeftFile]
  BY <1>4, ZenonT(40) DEF With
<1>6. ASSUME NEW w \in Worlds, NEW r \in Accessible(w)
      PROVE  left'[w][r] \in {Unknown, Place(w, r, world, reg, saved)}
  <2>1. r \in Register
    BY <1>6, ZenonT(40) DEF Accessible, Implemented
  <2>2. reg[r] = IF r \in rs THEN new[r] ELSE core.reg[r]
    BY <2>1, OnlyValue, SMTT(40)
  <2> HIDE DEF reg, saved
  <2>3. CASE w = world
    <3>1. left'[w] = mine
      BY <1>4, <2>3, ZenonT(40) DEF With
    <3>2. Place(w, r, world, reg, saved) = reg[r]
      BY <2>3, ZenonT(40) DEF Place
    <3>3. left[w][r] \in {Unknown, core.reg[r]}
      BY <1>1, <1>6, <2>3, ZenonT(40) DEF Place
    <3> QED
      BY <1>6, <2>2, <2>3, <3>1, <3>2, <3>3, ZenonT(40)
  <2>4. CASE w # world
    <3>1. left'[w] = left[w]
      BY <1>4, <1>6, <2>4, ZenonT(40) DEF With
    <3>2. Place(w, r, world, reg, saved) = Place(w, r, world, core.reg, saved)
      BY <1>6, <2>2, <2>4, ZenonT(40) DEF Place
    <3> QED
      BY <1>1, <1>6, <3>1, <3>2, ZenonT(40)
  <2> QED
    BY <2>3, <2>4, SMTT(40)
<1>7. world' = world /\ hw' = hw
  BY ZenonT(40)
<1> HIDE DEF reg, saved
<1> QED
  BY <1>1, <1>2, <1>3, <1>4, <1>5, <1>6, <1>7, Establish, ZenonT(40)

\* What one value in every register is.
LEMMA AllType ==
  /\ \A v \in Value : All(v) \in RegFile /\ All(v) \in LeftFile
  /\ All(Unknown) \in LeftFile
  /\ \A v : \A r \in Register : All(v)[r] = v
BY DEF All, RegFile, LeftFile

\* A register that two worlds can use is copied.
LEMMA SharedSwitched ==
  ASSUME HwOk, NEW w, NEW v, w # v, NEW r, r \in Accessible(w), r \in Accessible(v)
  PROVE  r \in Switched
BY OnlyNormalWorld, ZenonT(40)

\* A world can use registers only.
LEMMA AccessibleRegisters == \A w : Accessible(w) \subseteq Register
BY ZenonT(40) DEF Accessible, Implemented

\* A world uses its registers, as the runs have it.
LEMMA UseStep ==
  ASSUME ContextInv, HwOk, Use
  PROVE  ContextInv'
<1> DEFINE rs == Accessible(world)
<1>1. PICK v \in {1, 2} :
        /\ core' = [core EXCEPT !.reg = Only(rs, All(v), @)]
        /\ left' = [left EXCEPT ![world] = Only(rs, All(v), All(Unknown))]
        /\ UNCHANGED <<hw, world>>
  BY ZenonT(40) DEF Use
<1>2. v \in Value
  BY DEF Value
<1> DEFINE mine == Only(rs, All(v), All(Unknown))
<1>3. mine \in LeftFile
  BY <1>2, AllType, OnlyType, ZenonT(40) DEF LeftFile
<1>4. \A r \in rs : mine[r] = All(v)[r]
  BY AccessibleRegisters, ZenonT(40) DEF Only
<1>5. \A w \in Worlds \ {world} : \A r \in Accessible(w) \cap rs : r \in Switched
  BY SharedSwitched, ZenonT(40)
<1>6. All(v) \in RegFile
  BY <1>2, AllType, ZenonT(40)
<1>7. left' = With(left, world, mine) /\ core' = Written(rs, All(v))
  BY <1>1, ZenonT(40) DEF With, Written
<1> HIDE DEF mine
<1>8. \A r \in Accessible(world) :
        \/ r \in rs /\ mine[r] \in {Unknown, All(v)[r]}
        \/ r \notin rs /\ mine[r] \in {Unknown, left[world][r]}
  BY <1>4, ZenonT(40)
<1>9. UNCHANGED <<hw, world>>
  BY <1>1, SMTT(40)
<1> HIDE DEF rs
<1> QED
  BY <1>3, <1>5, <1>6, <1>7, <1>8, <1>9, WriteStep, SMTT(40)

\* A world writes what it likes to what it has.
LEMMA AnyUseStep ==
  ASSUME ContextInv, HwOk, AnyUse
  PROVE  ContextInv'
<1>1. PICK rs \in SUBSET Accessible(world), new \in RegFile :
        /\ core' = [core EXCEPT !.reg = Only(rs, new, @)]
        /\ left' = [left EXCEPT ![world] = Only(rs, new, @)]
        /\ UNCHANGED <<hw, world>>
  BY ZenonT(40) DEF AnyUse
<1> DEFINE mine == Only(rs, new, left[world])
<1>2. world \in Worlds /\ left \in [Worlds -> LeftFile]
  BY ZenonT(40) DEF ContextInv
<1>3. mine \in LeftFile
  <2>1. new \in LeftFile /\ left[world] \in LeftFile
    BY <1>2, SMTT(40) DEF RegFile, LeftFile
  <2> QED
    BY <2>1, OnlyType, ZenonT(40) DEF LeftFile
<1>4. \A r \in Accessible(world) : mine[r] = IF r \in rs THEN new[r] ELSE left[world][r]
  BY AccessibleRegisters, ZenonT(40) DEF Only
<1>5. \A w \in Worlds \ {world} : \A r \in Accessible(w) \cap rs : r \in Switched
  BY SharedSwitched, ZenonT(40)
<1>6. left' = With(left, world, mine) /\ core' = Written(rs, new)
  BY <1>1, <1>2, ZenonT(40) DEF With, Written
<1> HIDE DEF mine
<1>8. \A r \in Accessible(world) :
        \/ r \in rs /\ mine[r] \in {Unknown, new[r]}
        \/ r \notin rs /\ mine[r] \in {Unknown, left[world][r]}
  BY <1>4, ZenonT(40)
<1>9. UNCHANGED <<hw, world>>
  BY <1>1
<1> QED
  BY <1>3, <1>5, <1>6, <1>8, <1>9, WriteStep, SMTT(40)

\* Without Secure EL2, an exception for EL2 is injected into the normal world
\* only: a TGE that it left behind is not believed of the secure world.
LEMMA InjectedAtEl2 ==
  ASSUME HwOk, ~hw.sel2, world \in Worlds,
         NEW from \in 0 .. (IF HasEl2(world) THEN 2 ELSE 1),
         target_el(from, scr_el3(world)) # 1
  PROVE  world = "NonSecure"
<1> SUFFICES ASSUME world # "NonSecure" PROVE FALSE
  OBVIOUS
<1>1. world = "Secure"
  BY ZenonT(40) DEF Worlds, HwOk
<1>2. ~(from > 1)
  <2>1. ~HasEl2(world)
    BY SMTT(40) DEF HasEl2
  <2> QED
    BY <2>1, SMTT(40)
<1>3. "NS" \notin CommonScr /\ "EEL2" \notin CommonScr
  BY SMTT(40) DEF CommonScr, If
<1>4. /\ "NS" \notin Fgt2Scr \cup HcxScr \cup Mte2Scr("Secure") \cup Sctlr2Scr \cup Tcr2Scr
      /\ "EEL2" \notin Fgt2Scr \cup HcxScr \cup Mte2Scr("Secure") \cup Sctlr2Scr \cup Tcr2Scr
  BY SMTT(40) DEF Fgt2Scr, HcxScr, Mte2Scr, Sctlr2Scr, Tcr2Scr, If
<1>5. "NS" \notin scr_el3("Secure") /\ "EEL2" \notin scr_el3("Secure")
  BY <1>3, <1>4, SMTT(40) DEF scr_el3, set_routing_model, If
<1> QED
  BY <1>1, <1>2, <1>5, ZenonT(40) DEF target_el, is_secure_trap_without_sel2

\* An injected exception is seen by the world it is for, and by no other.
LEMMA InjectStep ==
  ASSUME ContextInv, HwOk, inject_undef64
  PROVE  ContextInv'
<1>1. PICK from \in 0 .. (IF HasEl2(world) THEN 2 ELSE 1) :
        LET rs == InjectedRegisters(target_el(from, scr_el3(world)))
            seen == rs \cap Accessible(world)
        IN  /\ core' = [core EXCEPT !.reg = Only(rs, All(1), @)]
            /\ left' = [left EXCEPT ![world] = Only(seen, All(1), @)]
            /\ UNCHANGED <<hw, world>>
  BY ZenonT(40) DEF inject_undef64
<1> DEFINE el == target_el(from, scr_el3(world))
           rs == InjectedRegisters(el)
           seen == rs \cap Accessible(world)
           mine == Only(seen, All(1), left[world])
<1>2. world \in Worlds /\ left \in [Worlds -> LeftFile] /\ hw.sel2 \in BOOLEAN
  BY ZenonT(40) DEF ContextInv, HwOk
<1>3. All(1) \in RegFile /\ All(1) \in LeftFile
  BY AllType DEF Value
<1>4. mine \in LeftFile
  <2>1. left[world] \in LeftFile
    BY <1>2
  <2> QED
    BY <1>3, <2>1, OnlyType, ZenonT(40) DEF LeftFile
<1>5. \A r \in Accessible(world) : mine[r] = IF r \in seen THEN All(1)[r] ELSE left[world][r]
  BY AccessibleRegisters, ZenonT(40) DEF Only
<1>6. left' = With(left, world, mine) /\ core' = Written(rs, All(1))
  BY <1>1, <1>2, ZenonT(40) DEF With, Written
<1>7. \A w \in Worlds \ {world} : \A r \in Accessible(w) \cap rs : r \in Switched
  <2> SUFFICES ASSUME NEW w \in Worlds \ {world}, NEW r \in Accessible(w), r \in rs,
                      w = "NonSecure"
               PROVE  r \in Switched
    BY OnlyNormalWorld, ZenonT(40)
  <2>1. CASE el = 1
    <3>1. r \in {"elr_el1", "esr_el1", "spsr_el1"}
      BY <2>1, ZenonT(40) DEF InjectedRegisters
    <3>2. ~hw.sel2
      BY <1>2, <3>1, NoEl1WithEl2, ZenonT(40)
    <3>3. r \in El1Sysregs
      BY <3>1, ZenonT(40) DEF El1Sysregs
    <3> QED
      BY <3>2, <3>3, ZenonT(40) DEF Switched, LowerEl
  <2>2. CASE el # 1
    <3>1. r \in {"elr_el2", "esr_el2", "spsr_el2"}
      BY <2>2, ZenonT(40) DEF InjectedRegisters
    <3>2. hw.sel2
      BY <1>2, <2>2, InjectedAtEl2, ZenonT(40)
    <3>3. r \in El2Sysregs \ El2Vhe
      BY <3>1, SMTT(40) DEF El2Sysregs, El2Vhe
    <3> QED
      BY <3>2, <3>3, ZenonT(40) DEF Switched, LowerEl
  <2> QED
    BY <2>1, <2>2, SMTT(40)
<1>8. \A r \in Accessible(world) :
        \/ r \in rs /\ mine[r] \in {Unknown, All(1)[r]}
        \/ r \notin rs /\ mine[r] \in {Unknown, left[world][r]}
  BY <1>5, ZenonT(40)
<1>9. UNCHANGED <<hw, world>>
  BY <1>1
<1> HIDE DEF mine, rs
<1> QED
  BY <1>3, <1>4, <1>6, <1>7, <1>8, <1>9, WriteStep, SMTT(40)

\* The contexts with one replaced.
LEMMA WithValue ==
  ASSUME NEW saved, NEW w, NEW context, NEW v \in DOMAIN saved
  PROVE  With(saved, w, context)[v] = IF v = w THEN context ELSE saved[v]
BY ZenonT(40) DEF With

\* Replacing one keeps their type.
LEMMA WithType ==
  ASSUME NEW S, NEW T, NEW saved \in [S -> T], NEW w, NEW context \in T
  PROVE  With(saved, w, context) \in [S -> T]
BY ZenonT(40) DEF With

\* A switch moves what each world goes by to its new place.
LEMMA SwitchStep ==
  ASSUME ContextInv, HwOk, Switch
  PROVE  ContextInv'
<1>1. PICK w \in Worlds \ {world} :
        /\ core' = el3_exit(switch_world(core, world, w), w)
        /\ world' = w /\ UNCHANGED <<hw, left>>
  BY ZenonT(40) DEF Switch
<1> DEFINE reg == Only(Switched, core.saved[w], core.reg)
           saved == With(core.saved, world, Only(Switched, core.reg, core.saved[world]))
<1>2. /\ core = Sound(core.reg, core.saved, scr_el3(world))
      /\ core.reg \in RegFile /\ core.saved \in [Worlds -> RegFile]
      /\ \A v \in Worlds : \A r \in Accessible(v) :
           left[v][r] \in {Unknown, Place(v, r, world, core.reg, core.saved)}
  BY CoreIs, ZenonT(40)
<1>3. world \in Worlds /\ hw \in Config /\ left \in [Worlds -> LeftFile]
  BY ZenonT(40) DEF ContextInv
<1>4. core' = Sound(reg, saved, scr_el3(w))
  <2>1. PICK a, b : a = core.reg /\ b = core.saved
    OBVIOUS
  <2> DEFINE at == With(b, world, Only(Switched, a, b[world]))
  <2>2. core = Sound(a, b, scr_el3(world)) /\ DOMAIN b = Worlds
    BY <1>2, <1>3, <2>1, ZenonT(40)
  <2>3. el3_exit(switch_world(Sound(a, b, scr_el3(world)), world, w), w)
          = Sound(Only(Switched, at[w], a), at, scr_el3(w))
    BY <1>3, <2>2, SwitchWorld, SMTT(40)
  <2>4. at[w] = b[w]
    BY <1>1, <2>2, WithValue, SMTT(40)
  <2> HIDE DEF at
  <2> QED
    BY <1>1, <2>1, <2>2, <2>3, <2>4, ZenonT(40) DEF at
<1>5. reg \in RegFile
  <2>1. core.saved[w] \in RegFile
    BY <1>1, <1>2, ZenonT(40)
  <2> QED
    BY <1>2, <2>1, OnlyType, ZenonT(40) DEF RegFile
<1>6. saved \in [Worlds -> RegFile]
  <2>1. Only(Switched, core.reg, core.saved[world]) \in RegFile
    BY <1>2, <1>3, OnlyType, ZenonT(40) DEF RegFile
  <2> QED
    BY <1>2, <2>1, WithType, ZenonT(40)
<1>7. \A v \in Worlds : \A r \in Accessible(v) :
        Place(v, r, w, reg, saved) = Place(v, r, world, core.reg, core.saved)
  <2> SUFFICES ASSUME NEW v \in Worlds, NEW r \in Accessible(v)
               PROVE  Place(v, r, w, reg, saved) = Place(v, r, world, core.reg, core.saved)
    OBVIOUS
  <2>1. r \in Register
    BY AccessibleRegisters, ZenonT(40)
  <2>2. reg[r] = IF r \in Switched THEN core.saved[w][r] ELSE core.reg[r]
    BY <2>1, OnlyValue, SMTT(40)
  <2>3. saved[v] = IF v = world THEN Only(Switched, core.reg, core.saved[world])
                                ELSE core.saved[v]
    <3>1. v \in DOMAIN core.saved
      BY <1>2, ZenonT(40)
    <3> QED
      BY <3>1, WithValue, SMTT(40)
  <2>4. Only(Switched, core.reg, core.saved[world])[r]
          = IF r \in Switched THEN core.reg[r] ELSE core.saved[world][r]
    BY <2>1, OnlyValue, SMTT(40)
  <2> HIDE DEF reg, saved
  <2> QED
    BY <1>1, <2>2, <2>3, <2>4, ZenonT(40) DEF Place
<1>8. \A v \in Worlds : \A r \in Accessible(v) :
        left'[v][r] \in {Unknown, Place(v, r, w, reg, saved)}
  BY <1>1, <1>2, <1>7, ZenonT(40)
<1> HIDE DEF reg, saved
<1>9. left' \in [Worlds -> LeftFile] /\ hw' = hw /\ world' = w /\ world' \in Worlds
  BY <1>1, <1>3, SMTT(40)
<1> QED
  BY <1>3, <1>4, <1>5, <1>6, <1>8, <1>9, Establish, SMTT(40)

\* Reset loses the registers.
LEMMA ResetEffect ==
  ASSUME NEW reg, NEW saved, NEW scr
  PROVE  Reset(Sound(reg, saved, scr)) = Sound(All(Lost), saved, {})
<1> DEFINE m == [Sound(reg, saved, scr) EXCEPT !.reg = All(Lost), !.scr = {}]
           n == [Sound(reg, saved, scr) EXCEPT !.reg = All(Lost)]
<1>1. m = [n EXCEPT !.scr = {}] /\ n = Sound(All(Lost), saved, scr)
  BY SoundExcept
<1>2. [Sound(All(Lost), saved, scr) EXCEPT !.scr = {}] = Sound(All(Lost), saved, {})
  BY SoundExcept, SMTT(20)
<1>3. m = Sound(All(Lost), saved, {})
  <2> HIDE DEF n
  <2> QED
    BY <1>1, <1>2
<1> QED
  BY <1>3, SMTT(40) DEF Reset

\* What the init functions have written, and the types of what they leave.
LEMMA InitValue ==
  ASSUME NEW reg \in RegFile
  PROVE  /\ Only(InitRegs, All(0), reg) \in RegFile
         /\ \A r \in Register : r \in InitRegs => Only(InitRegs, All(0), reg)[r] = 0
<1>1. All(0) \in RegFile /\ \A r \in Register : All(0)[r] = 0
  BY AllType DEF Value
<1>2. Only(InitRegs, All(0), reg) \in RegFile
  BY <1>1, OnlyType, ZenonT(40) DEF RegFile
<1> QED
  BY <1>1, <1>2, OnlyValue, SMTT(40)

\* What software that starts may count on: zeros, or nothing.
LEMMA FreshValue ==
  /\ Fresh \in LeftFile
  /\ \A r \in Register :
       \/ Fresh[r] = Unknown
       \/ Fresh[r] = 0 /\ \/ r \in LowerElSysregs \ {"mdcr_el2"}
                          \/ ~hw.sel2 /\ r \in HfgInit \cup HcxCpuContext
<1> DEFINE rs == (LowerElSysregs \ {"mdcr_el2"}) \cup If(~hw.sel2, HfgInit \cup HcxCpuContext)
<1>1. All(0) \in LeftFile /\ All(Unknown) \in LeftFile
  BY AllType, SMTT(40) DEF Value
<1>2. \A v : \A r \in Register : All(v)[r] = v
  BY AllType, SMTT(40)
<1>3. Fresh = Only(rs, All(0), All(Unknown))
  BY DEF Fresh
<1>4. \A r : r \in rs => \/ r \in LowerElSysregs \ {"mdcr_el2"}
                         \/ ~hw.sel2 /\ r \in HfgInit \cup HcxCpuContext
  BY ZenonT(40) DEF If
<1> HIDE DEF rs
<1>5. Fresh \in LeftFile
  BY <1>1, <1>3, OnlyType, ZenonT(40) DEF LeftFile
<1>6. \A r \in Register : Fresh[r] = IF r \in rs THEN All(0)[r] ELSE All(Unknown)[r]
  BY <1>3, OnlyValue, SMTT(40)
<1> QED
  BY <1>2, <1>4, <1>5, <1>6, ZenonT(40)

\* Software that starts finds what it may count on, once its context is emptied
\* and the init functions have run.
LEMMA FreshPlace ==
  ASSUME HwOk, NEW init, NEW saved, NEW at,
         NEW w, NEW r \in Accessible(w),
         r \in InitRegs => init[r] = 0,
         r \in LowerElSysregs \ {"mdcr_el2"} => saved[w][r] = 0
  PROVE  Fresh[r] \in {Unknown, Place(w, r, at, Only(Switched, saved[at], init), saved)}
<1> DEFINE reg == Only(Switched, saved[at], init)
<1>1. r \in Register /\ r \in Implemented
  BY AccessibleRegisters, AccessibleMember, ZenonT(40)
<1>2. reg[r] = IF r \in Switched THEN saved[at][r] ELSE init[r]
  BY <1>1, OnlyValue, SMTT(40)
<1>3. CASE r \in LowerElSysregs \ {"mdcr_el2"}
  <2>1. r \in Switched
    BY <1>1, <1>3, LowerElThere, ZenonT(40) DEF Switched
  <2>2. Place(w, r, at, reg, saved) = 0
    <3> HIDE DEF reg
    <3> QED
      BY <1>2, <1>3, <2>1, ZenonT(40) DEF Place
  <2> HIDE DEF reg
  <2> QED
    BY <1>1, <2>2, FreshValue, ZenonT(40) DEF reg
<1>4. CASE ~hw.sel2 /\ r \in HfgInit \cup HcxCpuContext
  <2>1. r \notin Switched
    BY <1>4, SwitchedWithoutEl2, ZenonT(40)
  <2>2. r \in HcxCpuContext => has("HCX")
    BY <1>1, Implements, ZenonT(40)
  <2>3. r \in InitRegs
    BY <1>4, <2>2, ZenonT(40) DEF InitRegs, If
  <2>4. Place(w, r, at, reg, saved) = 0
    <3> HIDE DEF reg
    <3> QED
      BY <1>2, <2>1, <2>3, ZenonT(40) DEF Place
  <2> HIDE DEF reg
  <2> QED
    BY <1>1, <2>4, FreshValue, ZenonT(40) DEF reg
<1> QED
  BY <1>1, <1>3, <1>4, FreshValue, ZenonT(40)

\* A core that comes on, whatever its contexts hold.
LEMMA ColdBoot ==
  ASSUME HwOk, NEW old \in [Worlds -> RegFile]
  PROVE  \E reg \in RegFile, saved \in [Worlds -> RegFile] :
           /\ el3_exit(set_initial_world(initialise_contexts(
                         Sound(All(Lost), old, {})), "Secure"), "Secure")
                = Sound(reg, saved, scr_el3("Secure"))
           /\ \A w \in Worlds : \A r \in Accessible(w) :
                Fresh[r] \in {Unknown, Place(w, r, "Secure", reg, saved)}
<1> DEFINE init == Only(InitRegs, All(0), All(Lost))
           saved == [w \in Worlds |-> Emptied(init, old[w])]
           reg == Only(Switched, saved["Secure"], init)
<1>1. /\ init \in RegFile
      /\ \A r \in Register : r \in InitRegs => init[r] = 0
  <2>1. All(Lost) \in RegFile
    BY AllType, SMTT(40) DEF Value
  <2> QED
    BY <2>1, InitValue, SMTT(40)
<1>2. initialise_contexts(Sound(All(Lost), old, {})) = Sound(init, saved, {})
  BY InitialiseContexts, SMTT(40)
<1> HIDE DEF init
<1>3. saved \in [Worlds -> RegFile]
  BY <1>1, EmptiedValue, ZenonT(40)
<1>4. \A w \in Worlds : \A r \in Register :
        r \in LowerElSysregs \ {"mdcr_el2"} => saved[w][r] = 0
  <2> SUFFICES ASSUME NEW w \in Worlds, NEW r \in Register,
                      r \in LowerElSysregs \ {"mdcr_el2"}
               PROVE  saved[w][r] = 0
    BY ZenonT(40)
  <2>1. saved[w] = Emptied(init, old[w]) /\ old[w] \in RegFile
    BY ZenonT(40)
  <2> QED
    BY <1>1, <2>1, EmptiedValue, SMTT(40)
<1> HIDE DEF saved
<1>5. el3_exit(set_initial_world(Sound(init, saved, {}), "Secure"), "Secure")
        = Sound(reg, saved, scr_el3("Secure"))
  BY SetInitialWorld, SMTT(40)
<1>6. reg \in RegFile
  BY <1>1, <1>3, TwoWorlds, OnlyType, ZenonT(40) DEF RegFile
<1>7. ASSUME NEW w \in Worlds, NEW r \in Accessible(w)
      PROVE  Fresh[r] \in {Unknown, Place(w, r, "Secure", reg, saved)}
  <2>1. /\ r \in InitRegs => init[r] = 0
        /\ r \in LowerElSysregs \ {"mdcr_el2"} => saved[w][r] = 0
    BY <1>1, <1>4, AccessibleRegisters, ZenonT(40)
  <2> QED
    BY <2>1, FreshPlace, SMTT(40)
<1> HIDE DEF reg
<1> QED
  BY <1>2, <1>3, <1>5, <1>6, <1>7, ZenonT(40)

\* CPU_OFF and CPU_ON: every world starts afresh.
LEMMA OffAndOnStep ==
  ASSUME ContextInv, HwOk, TurnOffAndOn
  PROVE  ContextInv'
<1>1. /\ core = Sound(core.reg, core.saved, scr_el3(world))
      /\ core.saved \in [Worlds -> RegFile]
  BY CoreIs, ZenonT(40)
<1>2. Reset(core) = Sound(All(Lost), core.saved, {})
  BY <1>1, ResetEffect, SMTT(40)
<1>3. PICK reg \in RegFile, saved \in [Worlds -> RegFile] :
        /\ el3_exit(set_initial_world(initialise_contexts(
                      Sound(All(Lost), core.saved, {})), "Secure"), "Secure")
             = Sound(reg, saved, scr_el3("Secure"))
        /\ \A w \in Worlds : \A r \in Accessible(w) :
             Fresh[r] \in {Unknown, Place(w, r, "Secure", reg, saved)}
  BY <1>1, ColdBoot, ZenonT(40)
<1>4. /\ core' = Sound(reg, saved, scr_el3("Secure"))
      /\ world' = "Secure" /\ left' = [w \in Worlds |-> Fresh] /\ hw' = hw
  BY <1>2, <1>3, ZenonT(40) DEF TurnOffAndOn
<1>5. /\ left' \in [Worlds -> LeftFile]
      /\ \A w \in Worlds : left'[w] = Fresh
  BY <1>4, FreshValue, ZenonT(40)
<1>6. \A w \in Worlds : \A r \in Accessible(w) :
        left'[w][r] \in {Unknown, Place(w, r, world', reg, saved)}
  BY <1>3, <1>4, <1>5, ZenonT(40)
<1>7. hw \in Config /\ world' \in Worlds
  BY <1>4, TwoWorlds, ZenonT(40) DEF ContextInv
<1>8. core' = Sound(reg, saved, scr_el3(world'))
  BY <1>4, ZenonT(40)
<1> QED
  BY <1>4, <1>5, <1>6, <1>7, <1>8, Establish, SMTT(40)

\* A core that starts.
LEMMA Starts ==
  ASSUME Init, HwOk
  PROVE  ContextInv
<1> DEFINE off == [w \in Worlds |-> All(0)]
<1>1. off \in [Worlds -> RegFile]
  <2>1. All(0) \in RegFile
    BY AllType DEF Value
  <2> QED
    BY <2>1, ZenonT(40)
<1> DEFINE boot == el3_exit(set_initial_world(initialise_contexts(
                      Sound(All(Lost), off, {})), "Secure"), "Secure")
<1>2. core = boot
  BY ZenonT(40) DEF Init, Sound
<1> HIDE DEF off
<1>3. PICK reg \in RegFile, saved \in [Worlds -> RegFile] :
        /\ boot = Sound(reg, saved, scr_el3("Secure"))
        /\ \A w \in Worlds : \A r \in Accessible(w) :
             Fresh[r] \in {Unknown, Place(w, r, "Secure", reg, saved)}
  BY <1>1, ColdBoot, ZenonT(40)
<1>4. /\ world = "Secure" /\ left = [w \in Worlds |-> Fresh] /\ hw \in Config
      /\ world \in Worlds
  BY TwoWorlds, ZenonT(40) DEF Init
<1>5. /\ left \in [Worlds -> LeftFile]
      /\ \A w \in Worlds : left[w] = Fresh
  BY <1>4, FreshValue, ZenonT(40)
<1> HIDE DEF boot
<1>6. core.reg = reg /\ core.saved = saved
  BY <1>2, <1>3, ZenonT(40) DEF Sound
<1>7. core = Sound(core.reg, core.saved, scr_el3(world))
  BY <1>2, <1>3, <1>4, <1>6, ZenonT(40)
<1>8. \A w \in Worlds : \A r \in Accessible(w) :
        left[w][r] \in {Unknown, Kept(w, r)}
  BY <1>3, <1>4, <1>5, <1>6, ZenonT(40) DEF Kept, Place
<1> QED
  BY <1>4, <1>5, <1>6, <1>7, <1>8, ZenonT(40) DEF ContextInv

\* Suspend to power down: the normal world starts afresh, the others resume.
LEMMA SuspendStep ==
  ASSUME ContextInv, HwOk, SuspendToPowerDown
  PROVE  ContextInv'
<1>1. /\ core = Sound(core.reg, core.saved, scr_el3(world))
      /\ core.reg \in RegFile /\ core.saved \in [Worlds -> RegFile]
      /\ \A v \in Worlds : \A r \in Accessible(v) :
           left[v][r] \in {Unknown, Place(v, r, world, core.reg, core.saved)}
  BY CoreIs, ZenonT(40)
<1>2. /\ world = "NonSecure" /\ world' = "Secure" /\ hw' = hw
      /\ left' = With(left, "NonSecure", Fresh)
  BY ZenonT(40) DEF SuspendToPowerDown, With
<1>3. /\ left \in [Worlds -> LeftFile] /\ hw \in Config
      /\ world \in Worlds /\ "Secure" \in Worlds /\ "NonSecure" \in Worlds
  BY TwoWorlds, ZenonT(40) DEF ContextInv
<1> DEFINE mine == Only(Switched, core.reg, core.saved["NonSecure"])
           at == With(core.saved, "NonSecure", mine)
           init == Only(InitRegs, All(0), All(Lost))
           saved == With(at, "NonSecure", Emptied(init, at["NonSecure"]))
           reg == Only(Switched, saved["Secure"], init)
<1>4. /\ init \in RegFile
      /\ \A r \in Register : r \in InitRegs => init[r] = 0
  <2>1. All(Lost) \in RegFile
    BY AllType DEF Value
  <2> QED
    BY <2>1, InitValue, SMTT(40)
<1>5. at \in [Worlds -> RegFile] /\ at["NonSecure"] \in RegFile
  <2>1. mine \in RegFile
    BY <1>1, <1>3, OnlyType, ZenonT(40) DEF RegFile
  <2>2. at \in [Worlds -> RegFile]
    <3> HIDE DEF mine
    <3> QED
      BY <1>1, <2>1, WithType, ZenonT(40)
  <2> QED
    BY <1>3, <2>2, ZenonT(40)
<1>6. save_context(save_lower_el_sysregs(core, world), world)
        = Sound(core.reg, at, scr_el3(world))
  <2>1. PICK a, b : a = core.reg /\ b = core.saved
    OBVIOUS
  <2>2. "NonSecure" \in DOMAIN b
    BY <1>1, <1>3, <2>1, ZenonT(40)
  <2>3. hw.sel2 => "EEL2" \in scr_el3("NonSecure")
    BY ScrHasEel2, ZenonT(40)
  <2>4. save_context(save_lower_el_sysregs(Sound(a, b, scr_el3("NonSecure")), "NonSecure"),
                     "NonSecure")
          = Sound(a, With(b, "NonSecure", Only(Switched, a, b["NonSecure"])),
                  scr_el3("NonSecure"))
    BY <2>2, <2>3, SaveWorld, SMTT(40)
  <2>5. core = Sound(a, b, scr_el3("NonSecure"))
    BY <1>1, <1>2, <2>1, ZenonT(40)
  <2> QED
    BY <1>2, <2>1, <2>4, <2>5, ZenonT(40)
<1> HIDE DEF at
<1>7. Reset(Sound(core.reg, at, scr_el3(world))) = Sound(All(Lost), at, {})
  BY ResetEffect, SMTT(40)
<1>8. update_contexts_suspend(Sound(All(Lost), at, {})) = Sound(init, saved, {})
  <2>1. DOMAIN at = Worlds
    BY <1>5, ZenonT(40)
  <2> QED
    BY <2>1, UpdateContexts, SMTT(40)
<1> HIDE DEF init
<1> DEFINE empty == Emptied(init, at["NonSecure"])
<1>9. /\ empty \in RegFile
      /\ \A r \in Register : r \in LowerElSysregs \ {"mdcr_el2"} => empty[r] = 0
  BY <1>4, <1>5, EmptiedValue, ZenonT(40)
<1> HIDE DEF empty
<1>10. /\ saved \in [Worlds -> RegFile] /\ saved["NonSecure"] = empty
       /\ \A v \in Worlds \ {"NonSecure"} : saved[v] = core.saved[v]
  <2>1. saved = With(at, "NonSecure", empty)
    BY DEF empty
  <2>2. With(at, "NonSecure", empty) \in [Worlds -> RegFile]
    BY <1>5, <1>9, WithType, ZenonT(40)
  <2>3. \A v \in Worlds :
          With(at, "NonSecure", empty)[v] = IF v = "NonSecure" THEN empty ELSE at[v]
    BY <1>5, WithValue, SMTT(40)
  <2>4. \A v \in Worlds : at[v] = IF v = "NonSecure" THEN mine ELSE core.saved[v]
    <3> HIDE DEF mine
    <3> QED
      BY <1>1, WithValue, SMTT(40) DEF at
  <2> HIDE DEF saved, mine
  <2> QED
    BY <1>3, <2>1, <2>2, <2>3, <2>4, ZenonT(40)
<1> HIDE DEF saved
<1>11. el3_exit(set_initial_world(Sound(init, saved, {}), "Secure"), "Secure")
         = Sound(reg, saved, scr_el3("Secure"))
  BY SetInitialWorld, SMTT(40)
<1>12. core' = Sound(reg, saved, scr_el3(world'))
  <2>1. core' = el3_exit(set_initial_world(update_contexts_suspend(Reset(
                  save_context(save_lower_el_sysregs(core, world), world))),
                  "Secure"), "Secure")
    BY ZenonT(40) DEF SuspendToPowerDown
  <2> QED
    BY <1>2, <1>6, <1>7, <1>8, <1>11, <2>1, ZenonT(40)
<1>13. reg \in RegFile
  BY <1>3, <1>4, <1>10, OnlyType, ZenonT(40) DEF RegFile
<1>14. left' \in [Worlds -> LeftFile] /\ left'["NonSecure"] = Fresh
  <2>1. Fresh \in LeftFile
    BY FreshValue, SMTT(40)
  <2> QED
    BY <1>2, <1>3, <2>1, ZenonT(40) DEF With
<1>15. ASSUME NEW v \in Worlds, NEW r \in Accessible(v)
       PROVE  left'[v][r] \in {Unknown, Place(v, r, world', reg, saved)}
  <2>1. r \in Register
    BY AccessibleRegisters, ZenonT(40)
  <2>2. CASE v = "NonSecure"
    <3>1. /\ r \in InitRegs => init[r] = 0
          /\ r \in LowerElSysregs \ {"mdcr_el2"} => saved[v][r] = 0
      BY <1>4, <1>9, <1>10, <2>1, <2>2, ZenonT(40)
    <3>2. Fresh[r] \in {Unknown, Place(v, r, "Secure", reg, saved)}
      BY <3>1, FreshPlace, SMTT(40)
    <3> QED
      BY <1>2, <1>14, <2>2, <3>2, ZenonT(40)
  <2>3. CASE v # "NonSecure"
    <3>1. r \in Switched
      BY <2>3, OnlyNormalWorld, ZenonT(40)
    <3>2. left'[v] = left[v]
      BY <1>2, <1>3, <2>3, ZenonT(40) DEF With
    <3>3. left[v][r] \in {Unknown, core.saved[v][r]}
      BY <1>1, <1>2, <2>3, <3>1, ZenonT(40) DEF Place
    <3>4. reg[r] = saved["Secure"][r]
      BY <2>1, <3>1, OnlyValue, SMTT(40)
    <3>5. Place(v, r, "Secure", reg, saved) = core.saved[v][r]
      <4> HIDE DEF reg
      <4> QED
        BY <1>10, <2>3, <3>1, <3>4, ZenonT(40) DEF Place
    <3> HIDE DEF reg
    <3> QED
      BY <1>2, <3>2, <3>3, <3>5, ZenonT(40)
  <2> QED
    BY <2>2, <2>3, SMTT(40)
<1> HIDE DEF reg
<1>16. world' \in Worlds
  BY <1>2, <1>3, SMTT(40)
<1> QED
  BY <1>2, <1>3, <1>10, <1>12, <1>13, <1>14, <1>15, <1>16, Establish, SMTT(40)

-----------------------------------------------------------------------------
(* Together.                                                               *)

\* The core is one of those that are considered.
LEMMA HwConfig ==
  ASSUME ConfigAssumption, hw \in Config
  PROVE  HwOk
BY ZenonT(40) DEF ConfigAssumption, HwOk

\* Nothing happens.
LEMMA StutterStep ==
  ASSUME ContextInv, UNCHANGED vars
  PROVE  ContextInv'
<1>1. hw' = hw /\ world' = world /\ core' = core /\ left' = left
  BY DEF vars
<1>2. /\ core = Sound(core.reg, core.saved, scr_el3(world))
      /\ core.reg \in RegFile /\ core.saved \in [Worlds -> RegFile]
      /\ \A w \in Worlds : \A r \in Accessible(w) :
           left[w][r] \in {Unknown, Place(w, r, world, core.reg, core.saved)}
  BY CoreIs, ZenonT(40)
<1>3. hw \in Config /\ world \in Worlds /\ left \in [Worlds -> LeftFile]
  BY ZenonT(40) DEF ContextInv
<1>4. PICK reg \in RegFile, saved \in [Worlds -> RegFile] :
        /\ core = Sound(reg, saved, scr_el3(world))
        /\ \A w \in Worlds : \A r \in Accessible(w) :
             left[w][r] \in {Unknown, Place(w, r, world, reg, saved)}
  BY <1>2, ZenonT(40)
<1>5. /\ core' = Sound(reg, saved, scr_el3(world')) /\ world' \in Worlds
      /\ left' \in [Worlds -> LeftFile]
      /\ \A w \in Worlds : \A r \in Accessible(w) :
           left'[w][r] \in {Unknown, Place(w, r, world', reg, saved)}
  BY <1>1, <1>3, <1>4, ZenonT(40)
<1> QED
  BY <1>1, <1>3, <1>5, Establish, SMTT(40)

\* Every step keeps the invariant.
LEMMA ContextStep ==
  ASSUME ConfigAssumption, ContextInv, [Next \/ AnyUse]_vars
  PROVE  ContextInv'
<1>1. HwOk
  BY HwConfig, SMTT(40) DEF ContextInv
<1>2. CASE Use
  BY <1>1, <1>2, UseStep, SMTT(40)
<1>3. CASE Switch
  BY <1>1, <1>3, SwitchStep, SMTT(40)
<1>4. CASE inject_undef64
  BY <1>1, <1>4, InjectStep
<1>5. CASE SuspendToPowerDown
  BY <1>1, <1>5, SuspendStep
<1>6. CASE TurnOffAndOn
  BY <1>1, <1>6, OffAndOnStep
<1>7. CASE AnyUse
  BY <1>1, <1>7, AnyUseStep, SMTT(40)
<1>8. CASE UNCHANGED vars
  BY <1>8, StutterStep, SMTT(40)
<1> QED
  BY <1>2, <1>3, <1>4, <1>5, <1>6, <1>7, <1>8, SMTT(40) DEF Next

\* What the invariant says of the world that runs.
LEMMA ContextSays ==
  ASSUME ContextInv
  PROVE  RegistersKept /\ NoUndefinedAccess
<1>1. RegistersKept
  BY ZenonT(40) DEF ContextInv, Kept, RegistersKept
<1>2. core = Sound(core.reg, core.saved, scr_el3(world))
  BY ZenonT(40) DEF ContextInv
<1>3. NoUndefinedAccess
  <2>1. PICK a, b, c : core = Sound(a, b, c)
    BY <1>2, ZenonT(40)
  <2> QED
    BY <2>1, ZenonT(40) DEF Sound, NoUndefinedAccess
<1> QED
  BY <1>1, <1>3, SMTT(40)

\* The model's own behaviours, and those of worlds that write what they like.
AnySpec == Init /\ [][Next \/ AnyUse]_vars

\* The invariant holds at the start.
LEMMA ContextStart ==
  ASSUME ConfigAssumption, Init
  PROVE  ContextInv
<1>1. HwOk
  BY HwConfig DEF Init
<1> QED
  BY <1>1, Starts, SMTT(40)

\* The runs' behaviours are among those of AnySpec.
LEMMA SpecIsAny == Spec => AnySpec
<1>1. [Next]_vars => [Next \/ AnyUse]_vars
  OBVIOUS
<1> QED
  BY <1>1, PTL DEF Spec, AnySpec

\* On every core and in every build, a world finds each register it can use as
\* it last saw it: every register that two worlds can use is saved and restored
\* by switch_world, an injected exception stays in the world it is for, and
\* power down and a new start lose nothing that software may count on.
THEOREM WorldsKeepTheirRegisters ==
  ASSUME ConfigAssumption
  PROVE  AnySpec => []RegistersKept
<1>1. Init => ContextInv
  BY ContextStart
<1>2. ContextInv /\ [Next \/ AnyUse]_vars => ContextInv'
  BY ContextStep
<1>3. ContextInv => RegistersKept
  BY ContextSays, SMTT(40)
<1> QED
  BY <1>1, <1>2, <1>3, PTL DEF AnySpec

\* EL3 names no register that the core lacks and no EL2 register while EL2 is
\* off, on every core and in every build.
THEOREM El3NamesWhatIsThere ==
  ASSUME ConfigAssumption
  PROVE  AnySpec => []NoUndefinedAccess
<1>1. Init => ContextInv
  BY ContextStart
<1>2. ContextInv /\ [Next \/ AnyUse]_vars => ContextInv'
  BY ContextStep
<1>3. ContextInv => NoUndefinedAccess
  BY ContextSays
<1> QED
  BY <1>1, <1>2, <1>3, PTL DEF AnySpec

\* The same two of the worlds that the runs are checked with.
COROLLARY ContextsCorrect ==
  ASSUME ConfigAssumption
  PROVE  Spec => []RegistersKept /\ []NoUndefinedAccess
BY WorldsKeepTheirRegisters, El3NamesWhatIsThere, SpecIsAny, PTL
=============================================================================
