--------------------------- MODULE RunLoopProofs ---------------------------
(***************************************************************************)
(* The properties of RunLoop for every number of cores.                    *)
(*                                                                         *)
(* A step of the loop is a step of one core, and the cores share only      *)
(* rmm_boot_state and spmc_secondary_ep.  So the invariant is a predicate  *)
(* on one core, CoreInv; a step establishes it anew for its own core, and  *)
(* all that can happen to the others is that the RMM's boot state moves.   *)
(***************************************************************************)
EXTENDS RunLoop, TLAPS

\* Leaves that name no prover go to Zenon.
USE ZenonT(40)

\* Past its boot, and not on its way through power down.
Up == {"Loop", "SuspendRequest", "OffRequest", "Abandoned", "PowerDown"}

\* Which world runs, by where the core is.
WorldInStep(c) ==
  /\ phase[c] \in {"BootSecure", "SuspendRequest", "OffRequest", "Abandoned"} =>
       world[c] = "Secure"
  /\ phase[c] = "BootRealm" => world[c] = "Realm"
  /\ phase[c] = "PowerDown" => world[c] = "NonSecure"
  /\ boot_complete[c] # "none" =>
       phase[c] \in {"BootRealm", "Loop"} /\ world[c] = "Realm"

\* What the worlds that do not run wait for: it has to be known when they are left,
\* because the next entry is decided by the handler of another world's exit.
\* The realm world waits for an answer unless the core skipped its boot, and
\* then the RMM has failed for good.
Owed(c) ==
  /\ phase[c] \in Running /\ boot_complete[c] = "none" => regs[c] = owed[c][world[c]]
  /\ boot_complete[c] # "none" => owed[c]["Realm"] = TRUE
  /\ phase[c] \in {"BootSecure", "BootRealm"} => owed[c]["NonSecure"] = FALSE
  /\ phase[c] = "BootSecure" /\ Rme => owed[c]["Realm"] = FALSE
  /\ phase[c] \in Up \cup {"BootRealm"} /\ world[c] # "Secure" => owed[c]["Secure"] = TRUE
  /\ phase[c] = "Loop" /\ world[c] = "Secure" =>
       owed[c]["NonSecure"] = (spmc_state[c] = "Runtime")
  /\ phase[c] = "Loop" /\ world[c] = "Realm" => owed[c]["NonSecure"] = TRUE
  /\ phase[c] \in Up \ {"Loop"} => owed[c]["NonSecure"] = TRUE
  /\ phase[c] \in Up /\ Rme /\ ~boot_failure /\ world[c] # "Realm" =>
       owed[c]["Realm"] = TRUE

Contexts(c) ==
  /\ phase[c] \in Running => live[c] = world[c] /\ World \ {world[c]} \subseteq saved[c]
  /\ phase[c] = "PowerDown" => live[c] = "NonSecure"
  /\ phase[c] \in {"PowerDown", "Woken"} => saved[c] = World

CoreInv(c) ==
  /\ WorldInStep(c)
  /\ spmc_state[c] \in SpmcStates(c)
  /\ Owed(c)
  /\ Contexts(c)

\* The RMM's boot as one core sees it.  No core is past its boot before the
\* primary core's RMM has reported; a core that is past it has its token, unless
\* the RMM failed; and a core other than the primary one that runs with the cold
\* boot arguments got them from a failure.
BootInv(c) ==
  /\ Rme /\ rmm_boot_state = "Unknown" =>
       \/ phase[c] \in {"Off", "Panic"}
       \/ c = Primary /\ phase[c] \in {"BootSecure", "BootRealm"}
  /\ activation_token[c] => rmm_boot_state # "Unknown"
  /\ Rme /\ phase[c] \in Up /\ ~boot_failure => activation_token[c]
  /\ phase[c] = "Loop" /\ world[c] = "Realm" => activation_token[c]
  /\ /\ Rme /\ c # Primary /\ rmm_args[c] = "cold"
     /\ phase[c] \notin {"Off", "TurnedOn", "Panic"}
     => boot_failure
  /\ phase[c] = "BootRealm" => Rme
  /\ phase[c] = "BootRealm" /\ rmm_args[c] = "cold" => c = Primary

LoopInv == TypeOK /\ \A c \in Core : CoreInv(c)
RmmInv == \A c \in Core : BootInv(c)

-----------------------------------------------------------------------------
(* Lemmas on the operators.                                                *)

\* The worlds, and the two ways the feature "rme" can be set.
LEMMA Worlds ==
  /\ "Secure" \in World /\ "NonSecure" \in World
  /\ "Realm" \in World <=> Rme
  /\ World \subseteq {"Secure", "NonSecure", "Realm"}
BY DEF World

\* What the SPMD decides on a call of the secure world: it stays there with an
\* answer and in the same state, or goes back to the normal world in Runtime, with
\* a message just when the SPMC was answering the normal world.
LEMMA SecureOutcome ==
  ASSUME TypeOK, NEW c \in Core, NEW m \in SecureMsg, NEW o, o = handle_secure_smc(c, m)
  PROVE  /\ o.next \in {"Secure", "NonSecure", "panic"}
         /\ o.state \in SpmcState /\ o.has_msg \in BOOLEAN
         /\ o.next = "Secure" => o.has_msg = TRUE /\ o.state = spmc_state[c]
         /\ o.next = "NonSecure" =>
              o.state = "Runtime" /\ o.has_msg = (spmc_state[c] = "Runtime")
<1> USE DEF Outcome, Refused
<1>0. spmc_state[c] \in SpmcState
  BY DEF TypeOK, SpmdTypeOK
<1>1. CASE m.kind = "Invalid"
  BY <1>0, <1>1 DEF handle_secure_smc, SpmcState
<1>2. CASE m.kind # "Invalid" /\ spmc_state[c] = "Boot"
  BY <1>2 DEF handle_secure_smc, SpmcState, handle_secure_call_boot
<1>3. CASE m.kind # "Invalid" /\ spmc_state[c] = "Runtime"
  BY <1>3 DEF handle_secure_smc, SpmcState, handle_secure_call_runtime
<1>4. CASE m.kind # "Invalid" /\ spmc_state[c] = "SecureInterrupt"
  BY <1>4 DEF handle_secure_smc, SpmcState, handle_secure_call_interrupt
<1>5. CASE m.kind # "Invalid" /\ spmc_state[c] = "PsciEventHandling"
  BY <1>5 DEF handle_secure_smc, SpmcState, handle_secure_call_psci_event
<1>6. CASE m.kind # "Invalid" /\ spmc_state[c] = "Off"
  BY <1>6 DEF handle_secure_smc, SpmcState
<1> QED
  BY <1>0, <1>1, <1>2, <1>3, <1>4, <1>5, <1>6 DEF SpmcState

-----------------------------------------------------------------------------
(* What the parts of an action do to the core that takes it, and that they *)
(* do nothing to another one.                                              *)

LocalTypes ==
  /\ phase \in [Core -> Phase]
  /\ world \in [Core -> World]
  /\ regs \in [Core -> BOOLEAN]
  /\ live \in [Core -> World \cup {Nothing}]
  /\ saved \in [Core -> SUBSET World]

LocalOthers(c) ==
  \A d \in Core \ {c} :
    /\ phase'[d] = phase[d] /\ world'[d] = world[d] /\ regs'[d] = regs[d]
    /\ live'[d] = live[d] /\ saved'[d] = saved[d]

\* The registers of the running world are loaded, those of the others saved.
Loaded(c) == live[c] = world[c] /\ World \ {world[c]} \subseteq saved[c]

\* switch_and_enter changes its core only, and leaves the next world's registers loaded.
LEMMA SwitchStep ==
  ASSUME TypeOK, NEW c \in Core, NEW ph \in Phase, NEW w \in World, NEW b \in BOOLEAN,
         SwitchAndEnter(c, ph, w, b)
  PROVE  /\ LocalTypes' /\ LocalOthers(c)
         /\ phase'[c] = ph /\ world'[c] = w /\ regs'[c] = b
         /\ Loaded(c) => Loaded(c)'
BY SMTT(40) DEF TypeOK, SwitchAndEnter, SavedAfter, LocalTypes, LocalOthers, Loaded

\* Going back to the same world changes its core only.
LEMMA ReenterStep ==
  ASSUME TypeOK, NEW c \in Core, NEW b \in BOOLEAN, Reenter(c, b)
  PROVE  /\ LocalTypes' /\ LocalOthers(c)
         /\ phase'[c] = phase[c] /\ world'[c] = world[c] /\ regs'[c] = b
         /\ Loaded(c) => Loaded(c)'
BY DEF TypeOK, Reenter, LocalTypes, LocalOthers, Loaded

\* A panic stops its core and no other.
LEMMA PanicStep ==
  ASSUME TypeOK, NEW c \in Core, Panic(c)
  PROVE  LocalTypes' /\ LocalOthers(c) /\ phase'[c] = "Panic" /\ world'[c] = world[c]
BY DEF TypeOK, Panic, LocalTypes, LocalOthers, Phase

\* The four ways a handler's result can take a core.
LEMMA ContinueStep ==
  ASSUME TypeOK, NEW c \in Core, NEW next, NEW b \in BOOLEAN, Continue(c, next, b)
  PROVE  /\ LocalTypes' /\ LocalOthers(c)
         /\ phase'[c] # "Panic" /\ Loaded(c) => Loaded(c)'
         /\ \/ next = "panic" /\ phase'[c] = "Panic"
            \/ /\ next = world[c]
               /\ phase'[c] = phase[c] /\ world'[c] = world[c] /\ regs'[c] = b
            \/ /\ next \in World \ {world[c]} /\ phase[c] = "Loop"
               /\ phase'[c] = "Loop" /\ world'[c] = next /\ regs'[c] = b
            \/ /\ next = "NonSecure" /\ phase[c] = "BootSecure" /\ Rme /\ ~boot_failure
               /\ phase'[c] = "BootRealm" /\ world'[c] = "Realm" /\ regs'[c] = FALSE
            \/ /\ next = "NonSecure" /\ phase[c] \in {"BootSecure", "BootRealm"}
               /\ phase[c] = "BootSecure" => ~Rme \/ boot_failure
               /\ phase'[c] = "Loop" /\ world'[c] = "NonSecure" /\ regs'[c] = FALSE
<1>1. CASE next = "panic" /\ Panic(c)
  BY <1>1, PanicStep
<1>2. CASE next = world[c] /\ Reenter(c, b)
  BY <1>2, ReenterStep
<1>3. CASE next \in World \ {world[c]} /\ phase[c] = "Loop" /\ SwitchAndEnter(c, "Loop", next, b)
  BY <1>3, SwitchStep DEF Phase
<1>4. CASE /\ next = "NonSecure" /\ phase[c] \in {"BootSecure", "BootRealm"}
           /\ Booted(c, b)
  <2>1. CASE phase[c] = "BootSecure" /\ Rme /\ ~boot_failure
    <3>1. SwitchAndEnter(c, "BootRealm", "Realm", FALSE)
      BY <1>4, <2>1 DEF Booted
    <3> QED
      BY <1>4, <2>1, <3>1, SwitchStep, Worlds DEF Phase
  <2>2. CASE ~(phase[c] = "BootSecure" /\ Rme /\ ~boot_failure)
    <3>1. SwitchAndEnter(c, "Loop", "NonSecure", FALSE)
      BY <1>4, <2>2 DEF Booted
    <3> QED
      BY <1>4, <2>2, <3>1, SwitchStep, Worlds DEF Phase
  <2> QED
    BY <2>1, <2>2
<1> QED
  BY <1>1, <1>2, <1>3, <1>4 DEF Continue

\* In the loop at the end of run_loop the handler names the world to enter.
LEMMA LoopStep ==
  ASSUME TypeOK, NEW c \in Core, NEW next \in World, NEW b \in BOOLEAN,
         phase[c] = "Loop", Continue(c, next, b)
  PROVE  /\ LocalTypes' /\ LocalOthers(c) /\ (Loaded(c) => Loaded(c)')
         /\ phase'[c] = "Loop" /\ world'[c] = next /\ regs'[c] = b
<1>1. next # "panic"
  BY Worlds
<1>2. CASE next = world[c] /\ Reenter(c, b)
  BY <1>2, ReenterStep
<1>3. CASE SwitchAndEnter(c, "Loop", next, b)
  BY <1>3, SwitchStep DEF Phase
<1> QED
  BY <1>1, <1>2, <1>3 DEF Continue

\* The same for the secure world, which may be booting.
LEMMA SecureStep ==
  ASSUME TypeOK, NEW c \in Core, NEW next \in {"Secure", "NonSecure", "panic"},
         NEW b \in BOOLEAN, world[c] = "Secure", phase[c] # "BootRealm",
         Continue(c, next, b)
  PROVE  /\ LocalTypes' /\ LocalOthers(c)
         /\ phase'[c] # "Panic" /\ Loaded(c) => Loaded(c)'
         /\ \/ next = "panic" /\ phase'[c] = "Panic"
            \/ /\ next = "Secure" /\ phase'[c] = phase[c] /\ world'[c] = "Secure"
               /\ regs'[c] = b
            \/ /\ next = "NonSecure" /\ phase[c] = "Loop"
               /\ phase'[c] = "Loop" /\ world'[c] = "NonSecure" /\ regs'[c] = b
            \/ /\ next = "NonSecure" /\ phase[c] = "BootSecure" /\ Rme /\ ~boot_failure
               /\ phase'[c] = "BootRealm" /\ world'[c] = "Realm" /\ regs'[c] = FALSE
            \/ /\ next = "NonSecure" /\ phase[c] = "BootSecure" /\ (~Rme \/ boot_failure)
               /\ phase'[c] = "Loop" /\ world'[c] = "NonSecure" /\ regs'[c] = FALSE
<1>1. /\ LocalTypes' /\ LocalOthers(c)
      /\ phase'[c] # "Panic" /\ Loaded(c) => Loaded(c)'
  BY ContinueStep
<1>2. CASE next = "panic"
  BY <1>1, <1>2, ContinueStep, Worlds
<1>3. CASE next = "Secure"
  BY <1>1, <1>3, ContinueStep
<1>4. CASE next = "NonSecure"
  BY <1>1, <1>4, ContinueStep
<1> QED
  BY <1>2, <1>3, <1>4

\* And for the realm world.
LEMMA RealmStep ==
  ASSUME TypeOK, NEW c \in Core, NEW next \in {"NonSecure", "Realm"}, NEW b \in BOOLEAN,
         phase[c] \in {"BootRealm", "Loop"}, world[c] = "Realm", Continue(c, next, b)
  PROVE  /\ LocalTypes' /\ LocalOthers(c)
         /\ phase'[c] # "Panic" /\ Loaded(c) => Loaded(c)'
         /\ \/ next = "Realm" /\ phase'[c] = phase[c] /\ world'[c] = "Realm" /\ regs'[c] = b
            \/ /\ next = "NonSecure" /\ phase[c] = "Loop"
               /\ phase'[c] = "Loop" /\ world'[c] = "NonSecure" /\ regs'[c] = b
            \/ /\ next = "NonSecure" /\ phase[c] = "BootRealm"
               /\ phase'[c] = "Loop" /\ world'[c] = "NonSecure" /\ regs'[c] = FALSE
<1>1. /\ LocalTypes' /\ LocalOthers(c)
      /\ phase'[c] # "Panic" /\ Loaded(c) => Loaded(c)'
  BY ContinueStep
<1>2. CASE next = "Realm"
  BY <1>1, <1>2, ContinueStep
<1>3. CASE next = "NonSecure"
  BY <1>1, <1>3, ContinueStep
<1> QED
  BY <1>2, <1>3

\* An exit notes what the world that was left waits for.
LEMMA ExitStep ==
  ASSUME TypeOK, NEW c \in Core, NEW w \in World, NEW a \in BOOLEAN, Exit(c, w, a)
  PROVE  /\ owed' \in [Core -> [World -> BOOLEAN]]
         /\ owed'[c][w] = a
         /\ \A v \in World \ {w} : owed'[c][v] = owed[c][v]
         /\ \A d \in Core \ {c} : owed'[d] = owed[d]
         /\ phase[c] \in Running /\ world[c] = w /\ boot_complete[c] = "none"
BY DEF TypeOK, Exit

-----------------------------------------------------------------------------
(* CoreInv: one lemma per action, for the core that takes it.              *)

Others(c) ==
  /\ LocalOthers(c)
  /\ \A d \in Core \ {c} :
       /\ owed'[d] = owed[d] /\ spmc_state'[d] = spmc_state[d]
       /\ boot_complete'[d] = boot_complete[d] /\ rmm_args'[d] = rmm_args[d]
       /\ activation_token'[d] = activation_token[d]

\* A core that panics owes nothing to anyone.
LEMMA PanicInv ==
  ASSUME TypeOK, NEW c \in Core, Panic(c), boot_complete[c] = "none",
         owed' \in [Core -> [World -> BOOLEAN]],
         \A d \in Core \ {c} : owed'[d] = owed[d],
         UNCHANGED <<spmdVars, rmmVars, bootVars, boot_complete>>
  PROVE  TypeOK' /\ Others(c) /\ CoreInv(c)'
<1>1. LocalTypes' /\ LocalOthers(c) /\ phase'[c] = "Panic"
  BY PanicStep
<1>2. TypeOK' /\ Others(c)
  BY <1>1
  DEF TypeOK, Others, LocalTypes, spmdVars, rmmVars, bootVars, SpmdTypeOK, RmmTypeOK
<1>3. spmc_state'[c] \in SpmcStates(c)'
  BY <1>1, <1>2 DEF TypeOK, SpmdTypeOK, SpmcStates
<1>4. WorldInStep(c)' /\ Owed(c)' /\ Contexts(c)'
  BY <1>1 DEF WorldInStep, Owed, Contexts, Running, Up
<1> QED
  BY <1>2, <1>3, <1>4 DEF CoreInv

\* An SMC answered in place, and a trapped system register access.
LEMMA InPlaceInv ==
  ASSUME TypeOK, NEW c \in Core, CoreInv(c), AnsweredSmc(c) \/ SysregTrap(c)
  PROVE  TypeOK' /\ Others(c) /\ CoreInv(c)'
<1>1. PICK b \in BOOLEAN : Exit(c, world[c], b) /\ Reenter(c, b)
  BY DEF AnsweredSmc, SysregTrap
<1>2. phase[c] \in InLoop /\ UNCHANGED <<spmdVars, rmmVars, bootVars, boot_complete>>
  BY DEF AnsweredSmc, SysregTrap
<1>3. world[c] \in World
  BY DEF TypeOK
<1>4. /\ owed' \in [Core -> [World -> BOOLEAN]]
      /\ owed'[c][world[c]] = b
      /\ \A v \in World \ {world[c]} : owed'[c][v] = owed[c][v]
      /\ \A d \in Core \ {c} : owed'[d] = owed[d]
      /\ phase[c] \in Running /\ boot_complete[c] = "none"
  BY <1>1, <1>3, ExitStep, SMTT(40)
<1>5. /\ LocalTypes' /\ LocalOthers(c)
      /\ phase'[c] = phase[c] /\ world'[c] = world[c] /\ regs'[c] = b
      /\ Loaded(c) => Loaded(c)'
  BY <1>1, ReenterStep
<1>6. TypeOK' /\ Others(c)
  BY <1>2, <1>4, <1>5
  DEF TypeOK, Others, LocalTypes, spmdVars, rmmVars, bootVars, SpmdTypeOK, RmmTypeOK
<1>7. WorldInStep(c)' /\ spmc_state'[c] \in SpmcStates(c)'
  BY <1>2, <1>5 DEF CoreInv, WorldInStep, SpmcStates, spmdVars
<1>8. Owed(c)'
  BY <1>2, <1>3, <1>4, <1>5, Worlds
  DEF CoreInv, WorldInStep, Owed, spmdVars, rmmVars, boot_failure, InLoop
<1>9. Contexts(c)'
  BY <1>2, <1>4, <1>5 DEF CoreInv, Contexts, Loaded, InLoop, Running
<1> QED
  BY <1>6, <1>7, <1>8, <1>9 DEF CoreInv

\* handle_interrupt.
LEMMA InterruptInv ==
  ASSUME TypeOK, NEW c \in Core, CoreInv(c), Interrupt(c)
  PROVE  TypeOK' /\ Others(c) /\ CoreInv(c)'
<1>1. /\ phase[c] = "Loop" /\ Exit(c, "NonSecure", FALSE)
      /\ UNCHANGED <<spmc_secondary_ep, rmmVars, bootVars, boot_complete>>
  BY DEF Interrupt
<1>2. /\ owed' \in [Core -> [World -> BOOLEAN]]
      /\ owed'[c]["NonSecure"] = FALSE
      /\ \A v \in World \ {"NonSecure"} : owed'[c][v] = owed[c][v]
      /\ \A d \in Core \ {c} : owed'[d] = owed[d]
      /\ world[c] = "NonSecure" /\ boot_complete[c] = "none"
  BY <1>1, ExitStep, Worlds
<1>3. CASE switch_spmc_local_state(c, "Runtime", "SecureInterrupt") /\ Continue(c, "Secure", TRUE)
  <2>1. /\ LocalTypes' /\ LocalOthers(c) /\ (Loaded(c) => Loaded(c)')
        /\ phase'[c] = "Loop" /\ world'[c] = "Secure" /\ regs'[c] = TRUE
    BY <1>1, <1>3, LoopStep, Worlds
  <2>2. TypeOK' /\ Others(c) /\ spmc_state'[c] = "SecureInterrupt"
    BY <1>1, <1>2, <1>3, <2>1
    DEF TypeOK, Others, LocalTypes, switch_spmc_local_state, rmmVars, bootVars, SpmdTypeOK,
        RmmTypeOK, SpmcState
  <2>3. WorldInStep(c)' /\ spmc_state'[c] \in SpmcStates(c)'
    BY <1>1, <1>2, <2>1, <2>2 DEF WorldInStep, SpmcStates
  <2>4. Owed(c)'
    BY <1>1, <1>2, <2>1, <2>2, Worlds DEF CoreInv, Owed, rmmVars, boot_failure, Up
  <2>5. Contexts(c)'
    BY <1>1, <2>1 DEF CoreInv, Contexts, Loaded, Running
  <2> QED
    BY <2>2, <2>3, <2>4, <2>5 DEF CoreInv
<1>4. CASE UNCHANGED spmc_state /\ Continue(c, "NonSecure", FALSE)
  <2>1. /\ LocalTypes' /\ LocalOthers(c) /\ (Loaded(c) => Loaded(c)')
        /\ phase'[c] = "Loop" /\ world'[c] = "NonSecure" /\ regs'[c] = FALSE
    BY <1>1, <1>4, LoopStep, Worlds
  <2>2. TypeOK' /\ Others(c)
    BY <1>1, <1>2, <1>4, <2>1
    DEF TypeOK, Others, LocalTypes, rmmVars, bootVars, SpmdTypeOK, RmmTypeOK
  <2>3. WorldInStep(c)' /\ spmc_state'[c] \in SpmcStates(c)'
    BY <1>1, <1>2, <1>4, <2>1 DEF CoreInv, WorldInStep, SpmcStates
  <2>4. Owed(c)'
    BY <1>1, <1>2, <1>4, <2>1, Worlds DEF CoreInv, Owed, rmmVars, boot_failure, Up
  <2>5. Contexts(c)'
    BY <1>1, <2>1 DEF CoreInv, Contexts, Loaded, Running
  <2> QED
    BY <2>2, <2>3, <2>4, <2>5 DEF CoreInv
<1>5. CASE UNCHANGED spmc_state /\ Panic(c)
  BY <1>1, <1>2, <1>5, PanicInv DEF spmdVars
<1> QED
  BY <1>3, <1>4, <1>5 DEF Interrupt

\* The calls of the normal world that another world may get: FF-A and RMI.
LEMMA NonSecureCallInv ==
  ASSUME TypeOK, NEW c \in Core, CoreInv(c), NEW next \in World,
         phase[c] = "Loop", Exit(c, "NonSecure", TRUE), Continue(c, next, TRUE),
         next = "Realm" => boot_success,
         UNCHANGED <<spmdVars, rmmVars, bootVars, boot_complete>>
  PROVE  TypeOK' /\ Others(c) /\ CoreInv(c)'
<1>1. /\ owed' \in [Core -> [World -> BOOLEAN]]
      /\ owed'[c]["NonSecure"] = TRUE
      /\ \A v \in World \ {"NonSecure"} : owed'[c][v] = owed[c][v]
      /\ \A d \in Core \ {c} : owed'[d] = owed[d]
      /\ world[c] = "NonSecure" /\ boot_complete[c] = "none"
  BY ExitStep, Worlds
<1>2. /\ LocalTypes' /\ LocalOthers(c) /\ (Loaded(c) => Loaded(c)')
      /\ phase'[c] = "Loop" /\ world'[c] = next /\ regs'[c] = TRUE
  BY LoopStep
<1>3. TypeOK' /\ Others(c)
  BY <1>1, <1>2
  DEF TypeOK, Others, LocalTypes, spmdVars, rmmVars, bootVars, SpmdTypeOK, RmmTypeOK
<1>4. spmc_state[c] = "Runtime" /\ spmc_state'[c] = "Runtime"
  BY <1>1 DEF CoreInv, SpmcStates, spmdVars
<1>5. WorldInStep(c)' /\ spmc_state'[c] \in SpmcStates(c)'
  BY <1>1, <1>2, <1>4 DEF WorldInStep, SpmcStates
<1>6. Owed(c)'
  <2>1. /\ owed[c]["Secure"] = TRUE
        /\ Rme /\ ~boot_failure => owed[c]["Realm"] = TRUE
    BY <1>1 DEF CoreInv, Owed, Up
  <2>2. next = "Realm" => Rme /\ ~boot_failure
    BY Worlds DEF boot_success, boot_failure
  <2>3. boot_failure' = boot_failure
    BY DEF rmmVars, boot_failure
  <2>4. next \in {"Secure", "NonSecure", "Realm"}
    BY Worlds
  <2>5. owed'[c][next] = TRUE /\ (Rme /\ ~boot_failure => owed'[c]["Realm"] = TRUE)
        /\ owed'[c]["Secure"] = TRUE
    BY <1>1, <2>1, <2>2, <2>4, Worlds
  <2> QED
    BY <1>1, <1>2, <1>4, <2>3, <2>5 DEF Owed
<1>7. Contexts(c)'
  BY <1>2 DEF CoreInv, Contexts, Loaded, Running
<1> QED
  BY <1>3, <1>5, <1>6, <1>7 DEF CoreInv

\* Calls of the normal world to the SPMC and the RMM keep the bookkeeping.
LEMMA NonSecureInv ==
  ASSUME TypeOK, NEW c \in Core, CoreInv(c), NonSecureFfa(c) \/ NonSecureRmi(c)
  PROVE  TypeOK' /\ Others(c) /\ CoreInv(c)'
<1>1. ASSUME NEW m \in NonSecureMsg, phase[c] = "Loop", Exit(c, "NonSecure", TRUE),
             Continue(c, handle_non_secure_call(m), TRUE),
             UNCHANGED <<spmdVars, rmmVars, bootVars, boot_complete>>
      PROVE  TypeOK' /\ Others(c) /\ CoreInv(c)'
  <2>1. /\ handle_non_secure_call(m) \in World
        /\ handle_non_secure_call(m) # "Realm"
    BY Worlds DEF handle_non_secure_call
  <2> QED
    BY <1>1, <2>1, NonSecureCallInv
<1>2. CASE NonSecureRmi(c)
  <2>1. CASE boot_success
    BY <1>2, <2>1, NonSecureCallInv, Worlds DEF NonSecureRmi
  <2>2. CASE ~boot_success
    BY <1>2, <2>2, NonSecureCallInv, Worlds DEF NonSecureRmi
  <2> QED
    BY <2>1, <2>2
<1> QED
  BY <1>1, <1>2 DEF NonSecureFfa

\* FF-A calls of the secure world, at boot and at run time.
LEMMA SecureFfaInv ==
  ASSUME TypeOK, NEW c \in Core, CoreInv(c), SecureFfa(c)
  PROVE  TypeOK' /\ Others(c) /\ CoreInv(c)'
<1>1. PICK m \in SecureMsg :
        /\ phase[c] \in InLoop /\ Exit(c, "Secure", TRUE)
        /\ spmc_state' = [spmc_state EXCEPT ![c] = handle_secure_smc(c, m).state]
        /\ RegisterSecondaryEp(c, m)
        /\ Continue(c, handle_secure_smc(c, m).next, handle_secure_smc(c, m).has_msg)
        /\ UNCHANGED <<rmmVars, bootVars, boot_complete>>
  BY DEF SecureFfa
<1> DEFINE o == handle_secure_smc(c, m)
<1>2. /\ o.next \in {"Secure", "NonSecure", "panic"}
      /\ o.state \in SpmcState /\ o.has_msg \in BOOLEAN
      /\ o.next = "Secure" => o.has_msg = TRUE /\ o.state = spmc_state[c]
      /\ o.next = "NonSecure" =>
           o.state = "Runtime" /\ o.has_msg = (spmc_state[c] = "Runtime")
  BY SecureOutcome
<1> HIDE DEF o
<1>3. /\ owed' \in [Core -> [World -> BOOLEAN]]
      /\ owed'[c]["Secure"] = TRUE
      /\ \A v \in World \ {"Secure"} : owed'[c][v] = owed[c][v]
      /\ \A d \in Core \ {c} : owed'[d] = owed[d]
      /\ phase[c] \in Running /\ world[c] = "Secure" /\ boot_complete[c] = "none"
  BY <1>1, ExitStep, Worlds
<1>4. /\ LocalTypes' /\ LocalOthers(c)
      /\ phase'[c] # "Panic" /\ Loaded(c) => Loaded(c)'
      /\ \/ o.next = "panic" /\ phase'[c] = "Panic"
         \/ /\ o.next = "Secure" /\ phase'[c] = phase[c] /\ world'[c] = "Secure"
            /\ regs'[c] = o.has_msg
         \/ /\ o.next = "NonSecure" /\ phase[c] = "Loop"
            /\ phase'[c] = "Loop" /\ world'[c] = "NonSecure" /\ regs'[c] = o.has_msg
         \/ /\ o.next = "NonSecure" /\ phase[c] = "BootSecure" /\ Rme /\ ~boot_failure
            /\ phase'[c] = "BootRealm" /\ world'[c] = "Realm" /\ regs'[c] = FALSE
         \/ /\ o.next = "NonSecure" /\ phase[c] = "BootSecure" /\ (~Rme \/ boot_failure)
            /\ phase'[c] = "Loop" /\ world'[c] = "NonSecure" /\ regs'[c] = FALSE
  <2>1. Continue(c, o.next, o.has_msg)
    BY <1>1 DEF o
  <2>2. phase[c] # "BootRealm"
    BY <1>3 DEF CoreInv, WorldInStep
  <2>3. o.next \in {"Secure", "NonSecure", "panic"} /\ o.has_msg \in BOOLEAN
    BY <1>2
  <2>4. world[c] = "Secure"
    BY <1>3
  <2> QED
    BY <2>1, <2>2, <2>3, <2>4, SecureStep
<1>5. spmc_state'[c] = o.state /\ \A d \in Core \ {c} : spmc_state'[d] = spmc_state[d]
  BY <1>1 DEF TypeOK, SpmdTypeOK, o
<1>6. TypeOK' /\ Others(c)
  <2>1. SpmdTypeOK'
    <3>1. spmc_state' \in [Core -> SpmcState]
      BY <1>1, <1>2 DEF TypeOK, SpmdTypeOK, o
    <3> QED
      BY <1>1, <3>1 DEF TypeOK, SpmdTypeOK, RegisterSecondaryEp
  <2> QED
    BY <1>1, <1>3, <1>4, <1>5, <2>1
    DEF TypeOK, Others, LocalTypes, rmmVars, bootVars, RmmTypeOK
<1>7. WorldInStep(c)'
  BY <1>1, <1>3, <1>4 DEF CoreInv, WorldInStep
<1>8. spmc_state'[c] \in SpmcStates(c)'
  BY <1>1, <1>2, <1>3, <1>4, <1>5, <1>6, SMTT(40) DEF CoreInv, SpmcStates, InLoop
<1>9. Owed(c)'
  <2>1. boot_failure' = boot_failure /\ boot_complete'[c] = "none"
    BY <1>1, <1>3 DEF rmmVars, boot_failure
  <2>2. /\ "NonSecure" \in World \ {"Secure"} /\ (Rme => "Realm" \in World \ {"Secure"})
        /\ owed'[c]["NonSecure"] = owed[c]["NonSecure"]
        /\ Rme => owed'[c]["Realm"] = owed[c]["Realm"]
    BY <1>3, Worlds
  <2>3. CASE phase'[c] = "Panic"
    BY <2>1, <2>3 DEF Owed, Running, Up
  <2>4. CASE /\ o.next = "Secure" /\ phase'[c] = phase[c] /\ world'[c] = "Secure"
             /\ regs'[c] = o.has_msg
    BY <1>1, <1>2, <1>3, <1>5, <2>1, <2>2, <2>4 DEF CoreInv, Owed, InLoop
  <2>5. CASE /\ o.next = "NonSecure" /\ phase[c] = "Loop"
             /\ phase'[c] = "Loop" /\ world'[c] = "NonSecure" /\ regs'[c] = o.has_msg
    BY <1>2, <1>3, <2>1, <2>2, <2>5 DEF CoreInv, Owed, Up
  <2>6. CASE /\ o.next = "NonSecure" /\ phase[c] = "BootSecure" /\ Rme
             /\ phase'[c] = "BootRealm" /\ world'[c] = "Realm" /\ regs'[c] = FALSE
    BY <1>3, <2>1, <2>2, <2>6 DEF CoreInv, Owed, Up
  <2>7. CASE /\ o.next = "NonSecure" /\ phase[c] = "BootSecure" /\ (~Rme \/ boot_failure)
             /\ phase'[c] = "Loop" /\ world'[c] = "NonSecure" /\ regs'[c] = FALSE
    BY <1>3, <2>1, <2>2, <2>7 DEF CoreInv, Owed
  <2> QED
    BY <1>4, <2>3, <2>4, <2>5, <2>6, <2>7
<1>10. Contexts(c)'
  BY <1>1, <1>3, <1>4 DEF CoreInv, Contexts, Loaded, Running, InLoop
<1> QED
  BY <1>6, <1>7, <1>8, <1>9, <1>10 DEF CoreInv

\* The end of a call of the realm world: it is answered, or the core goes on to
\* the normal world.
LEMMA RealmReturnInv ==
  ASSUME TypeOK, RmmTypeOK', NEW c \in Core, CoreInv(c),
         phase[c] \in {"BootRealm", "Loop"}, world[c] = "Realm",
         NEW next \in {"NonSecure", "Realm"}, Continue(c, next, TRUE),
         owed' \in [Core -> [World -> BOOLEAN]], owed'[c]["Realm"] = TRUE,
         \A v \in World \ {"Realm"} : owed'[c][v] = owed[c][v],
         boot_complete' \in [Core -> {"none", "ok", "failed"}], boot_complete'[c] = "none",
         \A d \in Core \ {c} : /\ owed'[d] = owed[d]
                              /\ boot_complete'[d] = boot_complete[d]
                              /\ activation_token'[d] = activation_token[d],
         boot_failure => boot_failure',
         UNCHANGED <<spmdVars, bootVars>>
  PROVE  TypeOK' /\ Others(c) /\ CoreInv(c)'
<1>1. /\ LocalTypes' /\ LocalOthers(c)
      /\ phase'[c] # "Panic" /\ Loaded(c) => Loaded(c)'
      /\ \/ /\ next = "Realm" /\ phase'[c] = phase[c] /\ world'[c] = "Realm"
            /\ regs'[c] = TRUE
         \/ /\ next = "NonSecure" /\ phase[c] = "Loop"
            /\ phase'[c] = "Loop" /\ world'[c] = "NonSecure" /\ regs'[c] = TRUE
         \/ /\ next = "NonSecure" /\ phase[c] = "BootRealm"
            /\ phase'[c] = "Loop" /\ world'[c] = "NonSecure" /\ regs'[c] = FALSE
  BY RealmStep
<1>2. TypeOK' /\ Others(c)
  BY <1>1 DEF TypeOK, Others, LocalTypes, spmdVars, bootVars, SpmdTypeOK
<1>3. spmc_state[c] = "Runtime" /\ spmc_state'[c] = "Runtime"
  BY DEF CoreInv, SpmcStates, spmdVars
<1>4. WorldInStep(c)' /\ spmc_state'[c] \in SpmcStates(c)'
  BY <1>1, <1>3 DEF WorldInStep, SpmcStates
<1>5. Owed(c)'
  <2>1. /\ owed'[c]["NonSecure"] = owed[c]["NonSecure"]
        /\ owed'[c]["Secure"] = owed[c]["Secure"]
    BY Worlds
  <2>2. /\ owed[c]["Secure"] = TRUE
        /\ phase[c] = "Loop" => owed[c]["NonSecure"] = TRUE
        /\ phase[c] = "BootRealm" => owed[c]["NonSecure"] = FALSE
    BY DEF CoreInv, Owed, Up
  <2>3. CASE world'[c] = "Realm"
    BY <1>1, <2>1, <2>2, <2>3 DEF Owed, Up
  <2>4. CASE world'[c] = "NonSecure"
    BY <1>1, <2>1, <2>2, <2>4 DEF Owed, Up
  <2> QED
    BY <1>1, <2>3, <2>4
<1>6. Contexts(c)'
  BY <1>1 DEF CoreInv, Contexts, Loaded, Running
<1> QED
  BY <1>2, <1>4, <1>5, <1>6 DEF CoreInv

\* The calls of the RMM, up to the test of boot_failure.
LEMMA RealmSmcInv ==
  ASSUME TypeOK, NEW c \in Core, CoreInv(c), RealmSmc(c)
  PROVE  TypeOK' /\ Others(c) /\ CoreInv(c)'
<1>1. /\ Rme /\ phase[c] \in InLoop /\ Exit(c, "Realm", TRUE)
      /\ UNCHANGED <<spmdVars, rmmVars, bootVars>>
  BY DEF RealmSmc
<1>2. /\ owed' \in [Core -> [World -> BOOLEAN]]
      /\ owed'[c]["Realm"] = TRUE
      /\ \A v \in World \ {"Realm"} : owed'[c][v] = owed[c][v]
      /\ \A d \in Core \ {c} : owed'[d] = owed[d]
      /\ phase[c] \in Running /\ world[c] = "Realm" /\ boot_complete[c] = "none"
  BY <1>1, ExitStep, Worlds
<1>3. phase[c] \in {"BootRealm", "Loop"}
  BY <1>1, <1>2 DEF CoreInv, WorldInStep, InLoop
<1>4. RmmTypeOK' /\ boot_failure' = boot_failure /\ activation_token' = activation_token
  BY <1>1 DEF TypeOK, RmmTypeOK, rmmVars, boot_failure
<1>5. ASSUME NEW next \in {"NonSecure", "Realm"}, Continue(c, next, TRUE), UNCHANGED boot_complete
      PROVE  TypeOK' /\ Others(c) /\ CoreInv(c)'
  <2>1. boot_complete' \in [Core -> {"none", "ok", "failed"}] /\ boot_complete'[c] = "none"
    BY <1>2, <1>5 DEF TypeOK
  <2>2. \A d \in Core \ {c} : /\ owed'[d] = owed[d]
                              /\ boot_complete'[d] = boot_complete[d]
                              /\ activation_token'[d] = activation_token[d]
    BY <1>2, <1>4, <1>5
  <2> QED
    BY <1>1, <1>2, <1>3, <1>4, <1>5, <2>1, <2>2, RealmReturnInv
<1>6. ASSUME NEW r \in {"ok", "failed"}, boot_complete' = [boot_complete EXCEPT ![c] = r],
             UNCHANGED <<phase, world, regs, live, saved>>
      PROVE  TypeOK' /\ Others(c) /\ CoreInv(c)'
  <2>1. TypeOK' /\ Others(c)
    BY <1>1, <1>2, <1>6
    DEF TypeOK, Others, LocalOthers, spmdVars, rmmVars, bootVars, SpmdTypeOK, RmmTypeOK
  <2>2. WorldInStep(c)' /\ spmc_state'[c] \in SpmcStates(c)'
    BY <1>1, <1>2, <1>3, <1>6 DEF CoreInv, WorldInStep, SpmcStates, spmdVars
  <2>3. boot_complete'[c] # "none"
    BY <1>6 DEF TypeOK
  <2>4. /\ owed'[c]["NonSecure"] = owed[c]["NonSecure"]
        /\ owed'[c]["Secure"] = owed[c]["Secure"]
    BY <1>2, Worlds
  <2>5. Owed(c)'
    BY <1>2, <1>3, <1>6, <2>3, <2>4 DEF CoreInv, Owed
  <2>6. Contexts(c)'
    BY <1>6 DEF CoreInv, Contexts
  <2> QED
    BY <2>1, <2>2, <2>5, <2>6 DEF CoreInv
<1> QED
  BY <1>5, <1>6 DEF RealmSmc

\* The boot state moves to Error, or from Unknown to ColdBootDone.
LEMMA BootCompleteStep ==
  ASSUME TypeOK, NEW c \in Core, NEW ok \in BOOLEAN, NEW next, handle_boot_complete(c, ok, next)
  PROVE  /\ RmmTypeOK' /\ next \in {"NonSecure", "Realm"}
         /\ boot_failure => boot_failure'
         /\ \A d \in Core \ {c} : activation_token'[d] = activation_token[d]
         /\ activation_token[c] => activation_token'[c]
         /\ next = "NonSecure" => boot_failure' \/ activation_token'[c]
         /\ next = "NonSecure" => rmm_boot_state' # "Unknown"
         /\ rmm_boot_state' = "Unknown" => rmm_boot_state = "Unknown" /\ UNCHANGED activation_token
BY RunLoopAssumption
DEF TypeOK, RmmTypeOK, rmmVars, boot_failure, handle_boot_complete, set_boot_failure,
    set_boot_success

\* The RMM's boot report keeps the bookkeeping.
LEMMA RealmBootCompleteInv ==
  ASSUME TypeOK, NEW c \in Core, CoreInv(c), RealmBootComplete(c)
  PROVE  TypeOK' /\ Others(c) /\ CoreInv(c)'
<1>1. PICK next \in World : /\ handle_boot_complete(c, boot_complete[c] = "ok", next)
                            /\ Continue(c, next, TRUE)
  BY DEF RealmBootComplete
<1>2. /\ boot_complete[c] # "none" /\ boot_complete' = [boot_complete EXCEPT ![c] = "none"]
      /\ UNCHANGED <<spmdVars, owed, bootVars>>
  BY DEF RealmBootComplete
<1>3. /\ RmmTypeOK' /\ next \in {"NonSecure", "Realm"} /\ (boot_failure => boot_failure')
      /\ \A d \in Core \ {c} : activation_token'[d] = activation_token[d]
  BY <1>1, BootCompleteStep
<1>4. phase[c] \in {"BootRealm", "Loop"} /\ world[c] = "Realm"
  BY <1>2 DEF CoreInv, WorldInStep
<1>5. owed' \in [Core -> [World -> BOOLEAN]] /\ owed'[c]["Realm"] = TRUE
  BY <1>2 DEF TypeOK, CoreInv, Owed
<1>6. /\ boot_complete' \in [Core -> {"none", "ok", "failed"}] /\ boot_complete'[c] = "none"
      /\ \A d \in Core \ {c} : boot_complete'[d] = boot_complete[d]
  BY <1>2 DEF TypeOK
<1> QED
  BY <1>1, <1>2, <1>3, <1>4, <1>5, <1>6, RealmReturnInv

\* PSCI tells the SPMC of a suspend or of CPU_OFF.
LEMMA PowerDownRequestInv ==
  ASSUME TypeOK, NEW c \in Core, CoreInv(c), PowerDownRequest(c)
  PROVE  TypeOK' /\ Others(c) /\ CoreInv(c)'
<1>1. /\ phase[c] = "Loop" /\ Exit(c, "NonSecure", TRUE)
      /\ UNCHANGED <<spmdVars, rmmVars, bootVars, boot_complete>>
  BY DEF PowerDownRequest
<1>2. PICK ph \in {"SuspendRequest", "OffRequest"} : SwitchAndEnter(c, ph, "Secure", TRUE)
  BY DEF PowerDownRequest
<1>3. /\ owed' \in [Core -> [World -> BOOLEAN]]
      /\ owed'[c]["NonSecure"] = TRUE
      /\ \A v \in World \ {"NonSecure"} : owed'[c][v] = owed[c][v]
      /\ \A d \in Core \ {c} : owed'[d] = owed[d]
      /\ world[c] = "NonSecure" /\ boot_complete[c] = "none"
  BY <1>1, ExitStep, Worlds
<1>4. /\ LocalTypes' /\ LocalOthers(c) /\ (Loaded(c) => Loaded(c)')
      /\ phase'[c] = ph /\ world'[c] = "Secure" /\ regs'[c] = TRUE
  BY <1>2, SwitchStep, Worlds DEF Phase
<1>5. TypeOK' /\ Others(c)
  BY <1>1, <1>3, <1>4
  DEF TypeOK, Others, LocalTypes, spmdVars, rmmVars, bootVars, SpmdTypeOK, RmmTypeOK
<1>6. WorldInStep(c)' /\ spmc_state'[c] \in SpmcStates(c)'
  BY <1>1, <1>2, <1>3, <1>4 DEF CoreInv, WorldInStep, SpmcStates, spmdVars
<1>7. Owed(c)'
  <2>1. /\ owed'[c]["Secure"] = TRUE
        /\ Rme /\ ~boot_failure => owed'[c]["Realm"] = TRUE
    BY <1>1, <1>3, Worlds DEF CoreInv, Owed, Up
  <2> QED
    BY <1>1, <1>2, <1>3, <1>4, <2>1 DEF Owed, rmmVars, boot_failure
<1>8. Contexts(c)'
  BY <1>1, <1>2, <1>4 DEF CoreInv, Contexts, Loaded, Running
<1> QED
  BY <1>5, <1>6, <1>7, <1>8 DEF CoreInv

\* The SPMC has answered: back to the normal world's registers.
LEMMA PowerDownAnsweredInv ==
  ASSUME TypeOK, NEW c \in Core, CoreInv(c), PowerDownAnswered(c)
  PROVE  TypeOK' /\ Others(c) /\ CoreInv(c)'
<1>1. /\ phase[c] \in {"SuspendRequest", "OffRequest"} /\ Exit(c, "Secure", TRUE)
      /\ UNCHANGED <<spmc_secondary_ep, rmmVars, bootVars, boot_complete>>
  BY DEF PowerDownAnswered
<1>2. PICK m \in SecureMsg : Answered(c, m)
  BY DEF PowerDownAnswered
<1>3. /\ owed' \in [Core -> [World -> BOOLEAN]]
      /\ owed'[c]["Secure"] = TRUE
      /\ \A v \in World \ {"Secure"} : owed'[c][v] = owed[c][v]
      /\ \A d \in Core \ {c} : owed'[d] = owed[d]
      /\ world[c] = "Secure" /\ boot_complete[c] = "none"
  BY <1>1, ExitStep, Worlds
<1>4. CASE Panic(c) /\ UNCHANGED spmc_state
  BY <1>1, <1>3, <1>4, PanicInv DEF spmdVars
<1>5. ASSUME SwitchBack(c), UNCHANGED regs
      PROVE  /\ world' \in [Core -> World] /\ regs' \in [Core -> BOOLEAN]
             /\ live' \in [Core -> World \cup {Nothing}] /\ saved' \in [Core -> SUBSET World]
             /\ world'[c] = "NonSecure" /\ live'[c] = "NonSecure" /\ saved'[c] = World
             /\ \A d \in Core \ {c} : /\ world'[d] = world[d] /\ regs'[d] = regs[d]
                                      /\ live'[d] = live[d] /\ saved'[d] = saved[d]
  <2>1. live[c] = "Secure" /\ World \ {"Secure"} \subseteq saved[c]
    BY <1>1, <1>3 DEF CoreInv, Contexts, Running
  <2>2. SavedAfter(c, "Secure") = World
    BY <2>1, Worlds DEF TypeOK, SavedAfter
  <2> QED
    BY <1>5, <2>2, Worlds DEF TypeOK, SwitchBack
<1>6. CASE /\ SwitchBack(c) /\ UNCHANGED regs
           /\ phase[c] = "SuspendRequest" /\ phase' = [phase EXCEPT ![c] = "PowerDown"]
           /\ UNCHANGED spmc_state
  <2>1. LocalTypes' /\ LocalOthers(c) /\ phase'[c] = "PowerDown"
    BY <1>5, <1>6 DEF TypeOK, LocalTypes, LocalOthers, Phase
  <2>2. TypeOK' /\ Others(c)
    BY <1>1, <1>3, <1>6, <2>1
    DEF TypeOK, Others, LocalTypes, rmmVars, bootVars, SpmdTypeOK, RmmTypeOK
  <2>3. WorldInStep(c)' /\ spmc_state'[c] \in SpmcStates(c)'
    BY <1>1, <1>3, <1>5, <1>6, <2>1 DEF CoreInv, WorldInStep, SpmcStates
  <2>4. Owed(c)'
    <3>1. /\ owed'[c]["NonSecure"] = TRUE
          /\ Rme /\ ~boot_failure => owed'[c]["Realm"] = TRUE
      BY <1>3, <1>6, Worlds DEF CoreInv, Owed, Up
    <3> QED
      BY <1>1, <1>3, <1>5, <1>6, <2>1, <3>1 DEF Owed, Running, rmmVars, boot_failure
  <2>5. Contexts(c)'
    BY <1>5, <1>6, <2>1 DEF Contexts, Running
  <2> QED
    BY <2>2, <2>3, <2>4, <2>5 DEF CoreInv
<1>7. CASE /\ SwitchBack(c) /\ UNCHANGED regs
           /\ phase[c] = "OffRequest" /\ phase' = [phase EXCEPT ![c] = "Off"]
           /\ switch_spmc_local_state(c, "Runtime", "Off")
  <2>1. LocalTypes' /\ LocalOthers(c) /\ phase'[c] = "Off"
    BY <1>5, <1>7 DEF TypeOK, LocalTypes, LocalOthers, Phase
  <2>2. TypeOK' /\ Others(c) /\ spmc_state'[c] = "Off"
    BY <1>1, <1>3, <1>7, <2>1
    DEF TypeOK, Others, LocalTypes, switch_spmc_local_state, rmmVars, bootVars, SpmdTypeOK,
        RmmTypeOK, SpmcState
  <2>3. WorldInStep(c)' /\ spmc_state'[c] \in SpmcStates(c)'
    BY <1>1, <1>3, <2>1, <2>2 DEF WorldInStep, SpmcStates
  <2>4. Owed(c)' /\ Contexts(c)'
    BY <1>1, <1>3, <2>1 DEF Owed, Contexts, Running, Up
  <2> QED
    BY <2>2, <2>3, <2>4 DEF CoreInv
<1> QED
  BY <1>2, <1>4, <1>6, <1>7 DEF Answered

\* Power goes, and takes the loaded registers with it.
LEMMA PowerDownHappensInv ==
  ASSUME TypeOK, NEW c \in Core, CoreInv(c), PowerDownHappens(c)
  PROVE  TypeOK' /\ Others(c) /\ CoreInv(c)'
<1>1. TypeOK' /\ Others(c)
  BY DEF PowerDownHappens, TypeOK, Others, LocalOthers, spmdVars, rmmVars, bootVars,
         SpmdTypeOK, RmmTypeOK, Phase
<1>2. /\ phase[c] = "PowerDown" /\ phase'[c] = "Woken"
      /\ UNCHANGED <<spmc_state, world, saved, boot_complete>>
  BY DEF PowerDownHappens, TypeOK, spmdVars
<1>3. WorldInStep(c)' /\ spmc_state'[c] \in SpmcStates(c)'
  BY <1>2 DEF CoreInv, WorldInStep, SpmcStates
<1>4. Owed(c)' /\ Contexts(c)'
  BY <1>2 DEF CoreInv, WorldInStep, Owed, Contexts, Running, Up
<1> QED
  BY <1>1, <1>3, <1>4 DEF CoreInv

\* An interrupt came first: the SPMC is told.
LEMMA PowerDownAbandonedInv ==
  ASSUME TypeOK, NEW c \in Core, CoreInv(c), PowerDownAbandoned(c)
  PROVE  TypeOK' /\ Others(c) /\ CoreInv(c)'
<1>1. /\ phase[c] = "PowerDown" /\ SwitchAndEnter(c, "Abandoned", "Secure", TRUE)
      /\ switch_spmc_local_state(c, "Runtime", "PsciEventHandling")
      /\ UNCHANGED <<spmc_secondary_ep, rmmVars, owed, bootVars, boot_complete>>
  BY DEF PowerDownAbandoned
<1>2. /\ LocalTypes' /\ LocalOthers(c) /\ (Loaded(c) => Loaded(c)')
      /\ phase'[c] = "Abandoned" /\ world'[c] = "Secure" /\ regs'[c] = TRUE
  BY <1>1, SwitchStep, Worlds DEF Phase
<1>3. TypeOK' /\ Others(c) /\ spmc_state'[c] = "PsciEventHandling"
  BY <1>1, <1>2
  DEF TypeOK, Others, LocalTypes, switch_spmc_local_state, rmmVars, bootVars, SpmdTypeOK,
      RmmTypeOK, SpmcState
<1>4. world[c] = "NonSecure" /\ boot_complete[c] = "none"
  BY <1>1 DEF CoreInv, WorldInStep
<1>5. WorldInStep(c)' /\ spmc_state'[c] \in SpmcStates(c)'
  BY <1>1, <1>2, <1>3, <1>4 DEF WorldInStep, SpmcStates
<1>6. Owed(c)'
  BY <1>1, <1>2, <1>4 DEF CoreInv, Owed, Up, rmmVars, boot_failure
<1>7. Contexts(c)'
  BY <1>1, <1>2, <1>4, Worlds DEF CoreInv, Contexts, Loaded, Running
<1> QED
  BY <1>3, <1>5, <1>6, <1>7 DEF CoreInv

\* The answer to an abandoned call keeps the bookkeeping.
LEMMA AbandonAnsweredInv ==
  ASSUME TypeOK, NEW c \in Core, CoreInv(c), AbandonAnswered(c)
  PROVE  TypeOK' /\ Others(c) /\ CoreInv(c)'
<1>1. /\ phase[c] = "Abandoned" /\ Exit(c, "Secure", TRUE)
      /\ UNCHANGED <<spmc_secondary_ep, rmmVars, bootVars, boot_complete>>
  BY DEF AbandonAnswered
<1>2. /\ owed' \in [Core -> [World -> BOOLEAN]]
      /\ owed'[c]["Secure"] = TRUE
      /\ \A v \in World \ {"Secure"} : owed'[c][v] = owed[c][v]
      /\ \A d \in Core \ {c} : owed'[d] = owed[d]
      /\ world[c] = "Secure" /\ boot_complete[c] = "none"
  BY <1>1, ExitStep, Worlds
<1>3. CASE Panic(c) /\ UNCHANGED spmc_state
  BY <1>1, <1>2, <1>3, PanicInv DEF spmdVars
<1>4. CASE /\ switch_spmc_local_state(c, "PsciEventHandling", "Runtime")
           /\ SwitchAndEnter(c, "Loop", "NonSecure", TRUE)
  <2>1. /\ LocalTypes' /\ LocalOthers(c) /\ (Loaded(c) => Loaded(c)')
        /\ phase'[c] = "Loop" /\ world'[c] = "NonSecure" /\ regs'[c] = TRUE
    BY <1>4, SwitchStep, Worlds DEF Phase
  <2>2. TypeOK' /\ Others(c) /\ spmc_state'[c] = "Runtime"
    BY <1>1, <1>2, <1>4, <2>1
    DEF TypeOK, Others, LocalTypes, switch_spmc_local_state, rmmVars, bootVars, SpmdTypeOK,
        RmmTypeOK, SpmcState
  <2>3. WorldInStep(c)' /\ spmc_state'[c] \in SpmcStates(c)'
    BY <1>1, <1>2, <2>1, <2>2 DEF WorldInStep, SpmcStates
  <2>4. Owed(c)'
    <3>1. /\ owed'[c]["NonSecure"] = TRUE
          /\ Rme /\ ~boot_failure => owed'[c]["Realm"] = TRUE
      BY <1>1, <1>2, Worlds DEF CoreInv, Owed, Up
    <3> QED
      BY <1>1, <1>2, <2>1, <3>1 DEF Owed, rmmVars, boot_failure
  <2>5. Contexts(c)'
    BY <1>1, <2>1 DEF CoreInv, Contexts, Loaded, Running
  <2> QED
    BY <2>2, <2>3, <2>4, <2>5 DEF CoreInv
<1> QED
  BY <1>3, <1>4 DEF AbandonAnswered

\* Warm boot: the secure world is entered first, with nothing owed to any world.
LEMMA EnterRunLoopStep ==
  ASSUME TypeOK, NEW c \in Core, NEW contexts, contexts = World, EnterRunLoop(c, contexts)
  PROVE  /\ LocalTypes' /\ LocalOthers(c)
         /\ owed' \in [Core -> [World -> BOOLEAN]]
         /\ \A d \in Core \ {c} : owed'[d] = owed[d]
         /\ phase'[c] = "BootSecure" /\ world'[c] = "Secure" /\ regs'[c] = FALSE
         /\ \A w \in World : owed'[c][w] = FALSE
         /\ Loaded(c)'
<1>1. /\ LocalTypes' /\ LocalOthers(c) /\ Loaded(c)'
      /\ phase'[c] = "BootSecure" /\ world'[c] = "Secure" /\ regs'[c] = FALSE
  BY Worlds DEF TypeOK, EnterRunLoop, LocalTypes, LocalOthers, Loaded, Phase
<1>2. /\ owed' \in [Core -> [World -> BOOLEAN]]
      /\ \A d \in Core \ {c} : owed'[d] = owed[d]
      /\ \A w \in World : owed'[c][w] = FALSE
  BY DEF TypeOK, EnterRunLoop
<1> QED
  BY <1>1, <1>2

\* A warm boot, after a sleep or of a core turned on, keeps the bookkeeping.
LEMMA WarmBootInv ==
  ASSUME TypeOK, NEW c \in Core, CoreInv(c), WarmBootWoken(c) \/ WarmBootTurnedOn(c)
  PROVE  TypeOK' /\ Others(c) /\ CoreInv(c)'
<1>1. /\ phase[c] \in {"Woken", "TurnedOn"} /\ EnterRunLoop(c, World)
      /\ UNCHANGED <<spmc_secondary_ep, rmmVars, secure_pc, boot_complete>>
  <2>1. CASE WarmBootWoken(c)
    <3>1. saved[c] \cup {"NonSecure"} = World
      BY <2>1, Worlds DEF WarmBootWoken, CoreInv, Contexts
    <3> QED
      BY <2>1, <3>1 DEF WarmBootWoken, bootVars
  <2>2. CASE WarmBootTurnedOn(c)
    BY <2>2 DEF WarmBootTurnedOn
  <2> QED
    BY <2>1, <2>2
<1>2. /\ spmc_state'[c] \in {"Boot", "PsciEventHandling"}
      /\ spmc_state' \in [Core -> SpmcState]
      /\ \A d \in Core \ {c} : spmc_state'[d] = spmc_state[d]
  BY DEF WarmBootWoken, WarmBootTurnedOn, switch_spmc_local_state, TypeOK, SpmdTypeOK, SpmcState
<1>3. /\ rmm_args' \in [Core -> {"cold", "warm"}]
      /\ \A d \in Core \ {c} : rmm_args'[d] = rmm_args[d]
  BY DEF WarmBootWoken, WarmBootTurnedOn, entrypoint_args, TypeOK, bootVars
<1>4. /\ LocalTypes' /\ LocalOthers(c)
      /\ owed' \in [Core -> [World -> BOOLEAN]]
      /\ \A d \in Core \ {c} : owed'[d] = owed[d]
      /\ phase'[c] = "BootSecure" /\ world'[c] = "Secure" /\ regs'[c] = FALSE
      /\ \A w \in World : owed'[c][w] = FALSE
      /\ Loaded(c)'
  BY <1>1, EnterRunLoopStep
<1>5. TypeOK' /\ Others(c)
  BY <1>1, <1>2, <1>3, <1>4 DEF TypeOK, Others, LocalTypes, rmmVars, SpmdTypeOK, RmmTypeOK
<1>6. boot_complete'[c] = "none"
  BY <1>1 DEF CoreInv, WorldInStep
<1>7. WorldInStep(c)' /\ spmc_state'[c] \in SpmcStates(c)'
  BY <1>2, <1>4, <1>6 DEF WorldInStep, SpmcStates
<1>8. Owed(c)'
  <2>1. /\ owed'[c]["Secure"] = FALSE /\ owed'[c]["NonSecure"] = FALSE
        /\ Rme => owed'[c]["Realm"] = FALSE
    BY <1>4, Worlds
  <2> QED
    BY <1>4, <1>6, <2>1 DEF Owed, Up
<1>9. Contexts(c)'
  BY <1>4 DEF Contexts, Loaded
<1> QED
  BY <1>5, <1>7, <1>8, <1>9 DEF CoreInv

\* Turning a core on keeps the bookkeeping.
LEMMA CpuTurnedOnInv ==
  ASSUME TypeOK, NEW c \in Core, CoreInv(c), CpuTurnedOn(c)
  PROVE  TypeOK' /\ Others(c) /\ CoreInv(c)'
<1>1. TypeOK' /\ Others(c)
  BY DEF CpuTurnedOn, TypeOK, Others, LocalOthers, spmdVars, rmmVars, SpmdTypeOK, RmmTypeOK,
         Phase
<1>2. /\ phase[c] = "Off" /\ phase'[c] = "TurnedOn"
      /\ UNCHANGED <<spmc_state, world, saved, boot_complete>>
  BY DEF CpuTurnedOn, TypeOK, spmdVars
<1>3. WorldInStep(c)' /\ spmc_state'[c] \in SpmcStates(c)'
  BY <1>2 DEF CoreInv, WorldInStep, SpmcStates
<1>4. Owed(c)' /\ Contexts(c)'
  BY <1>2 DEF CoreInv, WorldInStep, Owed, Contexts, Running, Up
<1> QED
  BY <1>1, <1>3, <1>4 DEF CoreInv

\* All actions of a core.
LEMMA OwnInv ==
  ASSUME TypeOK, NEW c \in Core, CoreInv(c), Step(c)
  PROVE  TypeOK' /\ Others(c) /\ CoreInv(c)'
BY InPlaceInv, InterruptInv, SecureFfaInv, NonSecureInv, RealmSmcInv, RealmBootCompleteInv,
   PowerDownRequestInv, PowerDownAnsweredInv, PowerDownHappensInv, PowerDownAbandonedInv,
   AbandonAnsweredInv, WarmBootInv, CpuTurnedOnInv
DEF Step

-----------------------------------------------------------------------------
(* The other cores, and the invariant.                                     *)

\* The boot state never goes back, and never leaves Error.
LEMMA BootStateMoves ==
  ASSUME TypeOK, NEW c \in Core, Step(c)
  PROVE  /\ rmm_boot_state' = "Unknown" => rmm_boot_state = "Unknown"
         /\ boot_failure => boot_failure'
<1>1. CASE UNCHANGED rmmVars
  BY <1>1 DEF rmmVars, boot_failure
<1>2. CASE RealmBootComplete(c)
  <2>1. PICK next \in World : handle_boot_complete(c, boot_complete[c] = "ok", next)
    BY <1>2 DEF RealmBootComplete
  <2> QED
    BY <2>1, BootCompleteStep
<1>3. RealmBootComplete(c) \/ UNCHANGED rmmVars
  BY DEF Step, AnsweredSmc, SysregTrap, Interrupt, SecureFfa, NonSecureFfa, NonSecureRmi,
         RealmSmc, PowerDownRequest, PowerDownAnswered, PowerDownHappens, PowerDownAbandoned,
         AbandonAnswered, WarmBootWoken, CpuTurnedOn, WarmBootTurnedOn
<1> QED
  BY <1>1, <1>2, <1>3

\* A core keeps its invariant while others step.
LEMMA OthersInv ==
  ASSUME NEW c \in Core, NEW d \in Core \ {c}, CoreInv(d), Others(c),
         boot_failure => boot_failure'
  PROVE  CoreInv(d)'
<1>1. /\ phase'[d] = phase[d] /\ world'[d] = world[d] /\ regs'[d] = regs[d]
      /\ live'[d] = live[d] /\ saved'[d] = saved[d] /\ owed'[d] = owed[d]
      /\ spmc_state'[d] = spmc_state[d] /\ boot_complete'[d] = boot_complete[d]
  BY DEF Others, LocalOthers
<1>2. WorldInStep(d)' /\ spmc_state'[d] \in SpmcStates(d)' /\ Contexts(d)'
  BY <1>1 DEF CoreInv, WorldInStep, SpmcStates, Contexts
<1>3. Owed(d)'
  BY <1>1 DEF CoreInv, Owed
<1> QED
  BY <1>2, <1>3 DEF CoreInv

\* The invariant holds initially.
LEMMA LoopInit == Init => LoopInv
<1> SUFFICES ASSUME Init PROVE LoopInv
  OBVIOUS
<1>1. TypeOK
  BY RunLoopAssumption, Worlds
  DEF Init, TypeOK, SpmdInit, RmmInit, SpmdTypeOK, RmmTypeOK, SpmcState, Phase
<1>2. ASSUME NEW c \in Core PROVE CoreInv(c)
  <2>1. WorldInStep(c) /\ spmc_state[c] \in SpmcStates(c)
    BY DEF Init, SpmdInit, WorldInStep, SpmcStates
  <2>2. Owed(c)
    <3>1. /\ phase[c] \in {"BootSecure", "Off"} /\ world[c] = "Secure" /\ regs[c] = FALSE
          /\ boot_complete[c] = "none"
      BY DEF Init
    <3>2. \A w \in World : owed[c][w] = FALSE
      BY DEF Init
    <3>3. /\ owed[c]["Secure"] = FALSE /\ owed[c]["NonSecure"] = FALSE
          /\ Rme => owed[c]["Realm"] = FALSE
      BY <3>2, Worlds
    <3> QED
      BY <3>1, <3>3 DEF Owed, Up, Running
  <2>3. Contexts(c)
    BY Worlds DEF Init, Contexts, Running
  <2> QED
    BY <2>1, <2>2, <2>3 DEF CoreInv
<1> QED
  BY <1>1, <1>2 DEF LoopInv

\* Every step keeps the invariant.
LEMMA LoopInvStep ==
  ASSUME LoopInv, [Next]_vars
  PROVE  LoopInv'
<1>1. CASE UNCHANGED vars
  <2>1. TypeOK'
    BY <1>1 DEF LoopInv, TypeOK, vars, spmdVars, rmmVars, coreVars, SpmdTypeOK, RmmTypeOK
  <2>2. ASSUME NEW c \in Core PROVE CoreInv(c)'
    <3>1. CoreInv(c)
      BY DEF LoopInv
    <3>2. WorldInStep(c)' /\ spmc_state'[c] \in SpmcStates(c)' /\ Contexts(c)'
      BY <1>1, <3>1
      DEF CoreInv, WorldInStep, SpmcStates, Contexts, vars, spmdVars, coreVars
    <3>3. Owed(c)'
      BY <1>1, <3>1 DEF CoreInv, Owed, boot_failure, vars, spmdVars, rmmVars, coreVars
    <3> QED
      BY <3>2, <3>3 DEF CoreInv
  <2> QED
    BY <2>1, <2>2 DEF LoopInv
<1>2. ASSUME NEW c \in Core, Step(c) PROVE LoopInv'
  <2>1. TypeOK /\ CoreInv(c)
    BY DEF LoopInv
  <2>2. TypeOK' /\ Others(c) /\ CoreInv(c)'
    BY <1>2, <2>1, OwnInv
  <2>3. boot_failure => boot_failure'
    BY <1>2, <2>1, BootStateMoves
  <2>4. ASSUME NEW d \in Core \ {c} PROVE CoreInv(d)'
    BY <2>2, <2>3, OthersInv DEF LoopInv
  <2> QED
    BY <2>2, <2>4 DEF LoopInv
<1> QED
  BY <1>1, <1>2 DEF Next

-----------------------------------------------------------------------------
(* The theorems.                                                           *)

\* LoopInv is an inductive invariant of run_loop.
THEOREM LoopInvariance == Spec => []LoopInv
<1>1. LoopInv /\ [Next]_vars => LoopInv'
  BY LoopInvStep
<1> QED
  BY <1>1, LoopInit, PTL DEF Spec

\* On every core the state the SPMD keeps for the SPMC is one that run_loop,
\* warmboot and PSCI expect where the core is, so no assertion of
\* switch_spmc_local_state fails.
THEOREM SpmcAlwaysInStep == Spec => []SpmcInStep
<1>1. LoopInv => SpmcInStep
  BY DEF LoopInv, CoreInv, SpmcInStep
<1> QED
  BY <1>1, LoopInvariance, PTL

\* Every world is always resumed with the registers it expects: an answer where it
\* made a call, its own ones otherwise.
THEOREM AlwaysResumedFaithfully == Spec => []ResumedFaithfully
<1>1. LoopInv => ResumedFaithfully
  BY DEF LoopInv, CoreInv, Owed, ResumedFaithfully
<1> QED
  BY <1>1, LoopInvariance, PTL

\* switch_world, the nested loops of PSCI and warmboot never lose a world's context.
THEOREM ContextsAlwaysIntact == Spec => []ContextsIntact
<1>1. LoopInv => ContextsIntact
  BY DEF LoopInv, CoreInv, Contexts, ContextsIntact
<1> QED
  BY <1>1, LoopInvariance, PTL

\* The RMM stays disabled once it has failed on any core (set_boot_success).
THEOREM FailureAlwaysFinal == Spec => FailureIsFinal
<1>1. LoopInv /\ [Next]_vars => [rmm_boot_state = "Error" => rmm_boot_state' = "Error"]_vars
  <2> SUFFICES ASSUME LoopInv, Next
               PROVE  rmm_boot_state = "Error" => rmm_boot_state' = "Error"
    OBVIOUS
  <2>1. PICK c \in Core : Step(c)
    BY DEF Next
  <2> QED
    BY <2>1, BootStateMoves DEF LoopInv, boot_failure
<1> QED
  BY <1>1, LoopInvariance, PTL DEF Spec, FailureIsFinal

-----------------------------------------------------------------------------
(* The RMM's boot: how a step can move a core, as far as BootInv is        *)
(* concerned.                                                              *)

Kept(c) == UNCHANGED rmmVars /\ rmm_args'[c] = rmm_args[c]

Stopped(c) == Kept(c) /\ phase'[c] \in {"Off", "Panic"}

\* Within the boot or within the loop; the realm world is entered from another one
\* only for a call, after its boot.
Stays(c) ==
  /\ Kept(c)
  /\ phase'[c] = phase[c] \/ {phase[c], phase'[c]} \subseteq Up
  /\ phase'[c] = "Loop" /\ world'[c] = "Realm" =>
       phase[c] = "Loop" /\ (world[c] = "Realm" \/ (Rme /\ boot_success))

BootsRealm(c) ==
  /\ Kept(c) /\ phase[c] = "BootSecure" /\ phase'[c] = "BootRealm"
  /\ Rme /\ ~boot_failure

LeavesBoot(c) ==
  /\ Kept(c) /\ phase'[c] = "Loop" /\ world'[c] = "NonSecure"
  /\ \/ phase[c] = "BootSecure" /\ (~Rme \/ boot_failure)
     \/ phase[c] = "BootRealm" /\ (boot_failure \/ activation_token[c])

Warms(c) ==
  /\ Kept(c)
  /\ \/ phase[c] = "PowerDown" /\ phase'[c] = "Woken"
     \/ phase[c] = "Woken" /\ phase'[c] = "BootSecure"

TurnsOn(c) ==
  \/ /\ Kept(c) /\ phase'[c] = "TurnedOn" /\ \E d \in Core : phase[d] = "Loop"
  \/ /\ UNCHANGED rmmVars /\ phase[c] = "TurnedOn" /\ phase'[c] = "BootSecure"
     /\ rmm_args'[c] = entrypoint_args

Reports(c) ==
  /\ rmm_args'[c] = rmm_args[c]
  /\ phase[c] \in {"BootRealm", "Loop"} /\ world[c] = "Realm"
  /\ rmm_boot_state' = "Unknown" => rmm_boot_state = "Unknown" /\ UNCHANGED activation_token
  /\ boot_failure => boot_failure'
  /\ activation_token[c] => activation_token'[c]
  /\ \/ phase'[c] = phase[c] /\ world'[c] = "Realm"
     \/ /\ phase'[c] = "Loop" /\ world'[c] = "NonSecure" /\ rmm_boot_state' # "Unknown"
        /\ boot_failure' \/ activation_token'[c]

Moves(c) == \/ Stopped(c) \/ Stays(c) \/ BootsRealm(c) \/ LeavesBoot(c)
            \/ Warms(c) \/ TurnsOn(c) \/ Reports(c)

\* Every step of a core is, for the RMM boot state, one of those moves.
LEMMA StepMoves ==
  ASSUME TypeOK, NEW c \in Core, CoreInv(c), ~RmmSkipsBootComplete, Step(c)
  PROVE  Moves(c)
<1>1. CASE AnsweredSmc(c) \/ SysregTrap(c)
  BY <1>1 DEF AnsweredSmc, SysregTrap, Reenter, bootVars, Moves, Stays, Kept
<1>2. CASE Interrupt(c)
  <2>1. phase[c] = "Loop" /\ Kept(c) /\ world[c] = "NonSecure"
    BY <1>2 DEF Interrupt, Exit, Kept, bootVars
  <2>2. CASE Continue(c, "Secure", TRUE)
    BY <2>1, <2>2, LoopStep, Worlds DEF Moves, Stays
  <2>3. CASE Continue(c, "NonSecure", FALSE)
    BY <2>1, <2>3, LoopStep, Worlds DEF Moves, Stays
  <2>4. CASE Panic(c)
    BY <2>1, <2>4, PanicStep DEF Moves, Stopped
  <2> QED
    BY <1>2, <2>2, <2>3, <2>4 DEF Interrupt
<1>3. CASE SecureFfa(c)
  <2>1. PICK m \in SecureMsg :
          /\ Exit(c, "Secure", TRUE) /\ Kept(c)
          /\ Continue(c, handle_secure_smc(c, m).next, handle_secure_smc(c, m).has_msg)
    BY <1>3 DEF SecureFfa, Kept, bootVars
  <2> DEFINE next == handle_secure_smc(c, m).next
             b == handle_secure_smc(c, m).has_msg
  <2>2. next \in {"Secure", "NonSecure", "panic"} /\ b \in BOOLEAN
    BY SecureOutcome
  <2>3. world[c] = "Secure" /\ phase[c] # "BootRealm"
    BY <2>1 DEF Exit, CoreInv, WorldInStep
  <2>4. Continue(c, next, b)
    BY <2>1
  <2> HIDE DEF next, b
  <2>5. \/ phase'[c] = "Panic"
        \/ phase'[c] = phase[c] /\ world'[c] # "Realm"
        \/ /\ phase[c] = "BootSecure" /\ Rme /\ ~boot_failure
           /\ phase'[c] = "BootRealm"
        \/ /\ phase[c] = "BootSecure" /\ (~Rme \/ boot_failure)
           /\ phase'[c] = "Loop" /\ world'[c] = "NonSecure"
    BY <2>2, <2>3, <2>4, SecureStep
  <2> QED
    BY <2>1, <2>5 DEF Moves, Stopped, Stays, BootsRealm, LeavesBoot
<1>4. CASE NonSecureFfa(c)
  <2>1. PICK m \in NonSecureMsg : phase[c] = "Loop" /\ Continue(c, handle_non_secure_call(m), TRUE)
    BY <1>4 DEF NonSecureFfa
  <2>2. handle_non_secure_call(m) \in World /\ handle_non_secure_call(m) # "Realm"
    BY Worlds DEF handle_non_secure_call
  <2>3. phase'[c] = "Loop" /\ world'[c] # "Realm"
    BY <2>1, <2>2, LoopStep
  <2> QED
    BY <1>4, <2>1, <2>3 DEF NonSecureFfa, Moves, Stays, Kept, bootVars
<1>5. CASE NonSecureRmi(c)
  <2>1. Kept(c) /\ Rme /\ phase[c] = "Loop"
    BY <1>5 DEF NonSecureRmi, Kept, bootVars
  <2>2. CASE boot_success
    <3>1. Continue(c, "Realm", TRUE)
      BY <1>5, <2>2 DEF NonSecureRmi
    <3> QED
      BY <2>1, <2>2, <3>1, LoopStep, Worlds DEF Moves, Stays
  <2>3. CASE ~boot_success
    <3>1. Continue(c, "NonSecure", TRUE)
      BY <1>5, <2>3 DEF NonSecureRmi
    <3> QED
      BY <2>1, <3>1, LoopStep, Worlds DEF Moves, Stays
  <2> QED
    BY <2>2, <2>3
<1>6. CASE RealmSmc(c)
  <2>1. Kept(c) /\ phase[c] \in {"BootRealm", "Loop"} /\ world[c] = "Realm"
    BY <1>6 DEF RealmSmc, Exit, Kept, bootVars, CoreInv, WorldInStep, InLoop
  <2>2. CASE UNCHANGED <<phase, world, regs, live, saved>>
    BY <2>1, <2>2 DEF Moves, Stays
  <2>3. CASE Continue(c, "Realm", TRUE)
    <3>1. phase'[c] = phase[c]
      BY <2>1, <2>3, RealmStep
    <3> QED
      BY <2>1, <3>1 DEF Moves, Stays
  <2>4. CASE /\ Continue(c, "NonSecure", TRUE)
             /\ phase[c] = "BootRealm" => boot_failure \/ activation_token[c]
    <3>1. phase'[c] = "Loop" /\ world'[c] = "NonSecure"
      BY <2>1, <2>4, RealmStep
    <3> QED
      BY <2>1, <2>4, <3>1 DEF Moves, Stays, LeavesBoot
  <2> QED
    BY <1>6, <2>2, <2>3, <2>4 DEF RealmSmc
<1>7. CASE RealmBootComplete(c)
  <2>1. PICK next \in World : /\ handle_boot_complete(c, boot_complete[c] = "ok", next)
                              /\ Continue(c, next, TRUE)
    BY <1>7 DEF RealmBootComplete
  <2>2. rmm_args'[c] = rmm_args[c] /\ phase[c] \in {"BootRealm", "Loop"} /\ world[c] = "Realm"
    BY <1>7 DEF RealmBootComplete, bootVars, CoreInv, WorldInStep
  <2>3. /\ next \in {"NonSecure", "Realm"} /\ (boot_failure => boot_failure')
        /\ activation_token[c] => activation_token'[c]
        /\ next = "NonSecure" => boot_failure' \/ activation_token'[c]
        /\ next = "NonSecure" => rmm_boot_state' # "Unknown"
        /\ rmm_boot_state' = "Unknown" => rmm_boot_state = "Unknown" /\ UNCHANGED activation_token
    BY <2>1, BootCompleteStep
  <2>4. \/ next = "Realm" /\ phase'[c] = phase[c] /\ world'[c] = "Realm"
        \/ next = "NonSecure" /\ phase'[c] = "Loop" /\ world'[c] = "NonSecure"
    BY <2>1, <2>2, <2>3, RealmStep
  <2> QED
    BY <2>2, <2>3, <2>4 DEF Moves, Reports
<1>8. CASE PowerDownRequest(c)
  <2>1. PICK ph \in {"SuspendRequest", "OffRequest"} : SwitchAndEnter(c, ph, "Secure", TRUE)
    BY <1>8 DEF PowerDownRequest
  <2>2. phase'[c] = ph
    BY <2>1 DEF SwitchAndEnter, TypeOK
  <2> QED
    BY <1>8, <2>2 DEF PowerDownRequest, Moves, Stays, Kept, bootVars, Up
<1>9. CASE PowerDownAnswered(c)
  <2>1. Kept(c)
    BY <1>9 DEF PowerDownAnswered, Kept, bootVars
  <2>2. phase'[c] \in {"Panic", "Off"} \/ (phase[c] = "SuspendRequest" /\ phase'[c] = "PowerDown")
    BY <1>9 DEF PowerDownAnswered, Answered, Panic, TypeOK
  <2> QED
    BY <2>1, <2>2 DEF Moves, Stopped, Stays, Up
<1>10. CASE PowerDownHappens(c)
  BY <1>10 DEF PowerDownHappens, TypeOK, Moves, Warms, Kept, bootVars
<1>11. CASE PowerDownAbandoned(c)
  BY <1>11
  DEF PowerDownAbandoned, SwitchAndEnter, TypeOK, Moves, Stays, Kept, bootVars, Up
<1>12. CASE AbandonAnswered(c)
  <2>1. Kept(c) /\ phase[c] = "Abandoned"
    BY <1>12 DEF AbandonAnswered, Kept, bootVars
  <2>2. phase'[c] = "Panic" \/ (phase'[c] = "Loop" /\ world'[c] = "NonSecure")
    BY <1>12 DEF AbandonAnswered, SwitchAndEnter, Panic, TypeOK
  <2> QED
    BY <2>1, <2>2 DEF Moves, Stopped, Stays, Up
<1>13. CASE WarmBootWoken(c)
  BY <1>13 DEF WarmBootWoken, EnterRunLoop, TypeOK, Moves, Warms, Kept, bootVars
<1>14. CASE CpuTurnedOn(c)
  BY <1>14 DEF CpuTurnedOn, TypeOK, Moves, TurnsOn, Kept
<1>15. CASE WarmBootTurnedOn(c)
  BY <1>15 DEF WarmBootTurnedOn, EnterRunLoop, TypeOK, Moves, TurnsOn
<1> QED
  BY <1>1, <1>2, <1>3, <1>4, <1>5, <1>6, <1>7, <1>8, <1>9, <1>10, <1>11, <1>12, <1>13, <1>14,
     <1>15 DEF Step

\* BootInv for the core that moves, and for the others.
LEMMA OwnBootInv ==
  ASSUME TypeOK, NEW c \in Core, CoreInv(c), RmmInv, Moves(c), TypeOK'
  PROVE  BootInv(c)'
<1>0. BootInv(c)
  BY DEF RmmInv
<1>1. CASE Stopped(c)
  BY <1>0, <1>1 DEF Stopped, Kept, rmmVars, BootInv, Up, boot_failure
<1>2. CASE Stays(c)
  BY <1>0, <1>2 DEF Stays, Kept, rmmVars, BootInv, Up, boot_failure, boot_success
<1>3. CASE BootsRealm(c)
  BY <1>0, <1>3 DEF BootsRealm, Kept, rmmVars, BootInv, Up, boot_failure
<1>4. CASE LeavesBoot(c)
  BY <1>0, <1>4 DEF LeavesBoot, Kept, rmmVars, BootInv, Up, boot_failure
<1>5. CASE Warms(c)
  BY <1>0, <1>5 DEF Warms, Kept, rmmVars, BootInv, Up, boot_failure
<1>6. CASE TurnsOn(c)
  BY <1>0, <1>6
  DEF TurnsOn, Kept, rmmVars, RmmInv, BootInv, Up, boot_failure, boot_success,
      entrypoint_args, TypeOK, RmmTypeOK
<1>7. CASE Reports(c)
  BY <1>0, <1>7 DEF Reports, BootInv, Up, boot_failure
<1> QED
  BY <1>1, <1>2, <1>3, <1>4, <1>5, <1>6, <1>7 DEF Moves

\* A step of another core keeps a core's part of the RMM boot invariant.
LEMMA OthersBootInv ==
  ASSUME NEW c \in Core, NEW d \in Core \ {c}, BootInv(d), Others(c),
         rmm_boot_state' = "Unknown" => rmm_boot_state = "Unknown",
         boot_failure => boot_failure'
  PROVE  BootInv(d)'
<1>1. /\ phase'[d] = phase[d] /\ world'[d] = world[d] /\ rmm_args'[d] = rmm_args[d]
      /\ activation_token'[d] = activation_token[d]
  BY DEF Others, LocalOthers
<1> QED
  BY <1>1 DEF BootInv

\* Every step keeps the RMM boot invariant.
LEMMA RmmInvStep ==
  ASSUME ~RmmSkipsBootComplete, LoopInv, RmmInv, [Next]_vars
  PROVE  RmmInv'
<1>1. CASE UNCHANGED vars
  BY <1>1 DEF RmmInv, BootInv, vars, rmmVars, coreVars, boot_failure
<1>2. ASSUME NEW c \in Core, Step(c) PROVE RmmInv'
  <2>1. TypeOK /\ CoreInv(c)
    BY DEF LoopInv
  <2>2. TypeOK' /\ Others(c)
    BY <1>2, <2>1, OwnInv
  <2>3. BootInv(c)'
    BY <1>2, <2>1, <2>2, StepMoves, OwnBootInv
  <2>4. /\ rmm_boot_state' = "Unknown" => rmm_boot_state = "Unknown"
        /\ boot_failure => boot_failure'
    BY <1>2, <2>1, BootStateMoves
  <2>5. ASSUME NEW d \in Core \ {c} PROVE BootInv(d)'
    BY <2>2, <2>4, OthersBootInv DEF RmmInv
  <2> QED
    BY <2>3, <2>5 DEF RmmInv
<1> QED
  BY <1>1, <1>2 DEF Next

\* For any number of cores, RMI calls reach the realm world only on cores whose RMM
\* has booted, and no core but the primary one boots its RMM with the cold boot
\* arguments, provided that an RMM does not end its first boot on a core with
\* RMI_REQ_COMPLETE instead of RMM_BOOT_COMPLETE.
THEOREM RmmBootAlwaysRespected ==
  ASSUME ~RmmSkipsBootComplete PROVE Spec => []RmmBootRespected
<1>1. Init => RmmInv
  BY RunLoopAssumption, SMTT(40) DEF Init, RmmInit, RmmInv, BootInv, Up
<1>2. LoopInv /\ RmmInv /\ [Next]_vars => RmmInv'
  BY RmmInvStep
<1>3. RmmInv => RmmBootRespected
  BY DEF RmmInv, BootInv, RmmBootRespected
<1> QED
  BY <1>1, <1>2, <1>3, LoopInvariance, PTL DEF Spec
=============================================================================
