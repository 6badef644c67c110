------------------------------ MODULE RunLoop ------------------------------
(***************************************************************************)
(* The main loop of EL3 on every core (src/services.rs): it boots the      *)
(* secure, the realm and the normal world, then dispatches what comes back *)
(* from the lower exception levels.  Composed with the SPMD, the RMM's     *)
(* boot state, the parts of PSCI that enter the secure world on their own, *)
(* and the register contexts of src/context.rs.                            *)
(*                                                                         *)
(* What the worlds do is arbitrary.  A step is one exit from a world, the  *)
(* handler, and the entry of the next world; a handler that touches the    *)
(* shared RMM state twice takes two steps.                                 *)
(***************************************************************************)
EXTENDS Spmd, RmmBoot

CONSTANTS Rme,                   \* feature "rme"
          RmmSkipsBootComplete   \* the RMM may end its first boot on a core
                                 \* with RMI_REQ_COMPLETE

VARIABLES phase,                 \* where the core is in run_loop and in PSCI
          world,                 \* the world running below EL3
          regs,                  \* whether that world was entered with a
                                 \* message in its registers
          owed,                  \* whether each world waits for one
          live,                  \* the world whose registers are loaded
          saved,                 \* worlds whose saved context is up to date
          rmm_args,              \* entry arguments of the core's RMM
          secure_pc,             \* where the core last entered the SPMC
          boot_complete          \* RMM_BOOT_COMPLETE past the failure test

coreVars == <<phase, world, regs, owed, live, saved, rmm_args, secure_pc,
              boot_complete>>
vars == <<spmdVars, rmmVars, coreVars>>

World == {"Secure", "NonSecure"} \cup (IF Rme THEN {"Realm"} ELSE {})
Nothing == "nothing"

\* "Loop" is the loop at the end of run_loop.  In the next three PSCI runs the
\* secure world in a loop of its own.  "Woken" and "TurnedOn" are the two
\* branches of warmboot.
Phase == {"Off", "TurnedOn", "Woken", "BootSecure", "BootRealm", "Loop",
          "SuspendRequest", "OffRequest", "Abandoned", "PowerDown", "Panic"}
Running == {"BootSecure", "BootRealm", "Loop", "SuspendRequest", "OffRequest",
            "Abandoned"}

ASSUME RunLoopAssumption ==
  /\ Primary \in Core
  /\ RmmCore = Core
  /\ Rme \in BOOLEAN /\ RmmSkipsBootComplete \in BOOLEAN

TypeOK ==
  /\ SpmdTypeOK /\ RmmTypeOK
  /\ phase \in [Core -> Phase]
  /\ world \in [Core -> World]
  /\ regs \in [Core -> BOOLEAN]
  /\ owed \in [Core -> [World -> BOOLEAN]]
  /\ live \in [Core -> World \cup {Nothing}]
  /\ saved \in [Core -> SUBSET World]
  /\ rmm_args \in [Core -> {"cold", "warm"}]
  /\ secure_pc \in [Core -> SecondaryEp \cup {PrimaryEp}]
  /\ boot_complete \in [Core -> {"none", "ok", "failed"}]

\* bl31_main has run on the primary core: contexts initialised, secure world
\* entered.
Init ==
  /\ SpmdInit /\ RmmInit
  /\ phase = [c \in Core |-> IF c = Primary THEN "BootSecure" ELSE "Off"]
  /\ world = [c \in Core |-> "Secure"]
  /\ regs = [c \in Core |-> FALSE]
  /\ owed = [c \in Core |-> [w \in World |-> FALSE]]
  /\ live = [c \in Core |-> IF c = Primary THEN "Secure" ELSE Nothing]
  /\ saved = [c \in Core |-> IF c = Primary THEN World \ {"Secure"} ELSE {}]
  /\ rmm_args = [c \in Core |-> "cold"]
  /\ secure_pc = [c \in Core |-> PrimaryEp]
  /\ boot_complete = [c \in Core |-> "none"]

-----------------------------------------------------------------------------
(* Contexts and entries.                                                   *)

\* switch_world stores what is loaded as the old world's context.
SavedAfter(c, old) ==
  IF live[c] = old THEN saved[c] \cup {old} ELSE saved[c] \ {old}

\* The loop enters world w again: with a message or with no change.
Reenter(c, has_msg) ==
  /\ regs' = [regs EXCEPT ![c] = has_msg]
  /\ UNCHANGED <<phase, world, live, saved>>

\* switch_world to w, then enter_world, which makes w's saved context stale.
SwitchAndEnter(c, ph, w, has_msg) ==
  /\ phase' = [phase EXCEPT ![c] = ph]
  /\ world' = [world EXCEPT ![c] = w]
  /\ live' = [live EXCEPT ![c] = w]
  /\ saved' = [saved EXCEPT ![c] = SavedAfter(c, world[c]) \ {w}]
  /\ regs' = [regs EXCEPT ![c] = has_msg]

\* World w trapped to EL3: `answer` is whether it waits for return values.
Exit(c, w, answer) ==
  /\ phase[c] \in Running /\ world[c] = w /\ boot_complete[c] = "none"
  /\ owed' = [owed EXCEPT ![c][w] = answer]

Panic(c) ==
  /\ phase' = [phase EXCEPT ![c] = "Panic"]
  /\ UNCHANGED <<world, regs, live, saved>>

\* Mutant: the realm world is booted although the RMM failed on another core.
BootedRegardless(c, has_msg) ==
  IF phase[c] = "BootSecure" /\ Rme
  THEN SwitchAndEnter(c, "BootRealm", "Realm", FALSE)
  ELSE SwitchAndEnter(c, "Loop", "NonSecure", FALSE)

\* run_loop after the boot loop of a world returned "NonSecure": boot the realm
\* world unless the RMM failed somewhere, then the normal world, each entered
\* with empty registers.
Booted(c, has_msg) ==
  IF phase[c] = "BootSecure" /\ Rme /\ ~boot_failure
  THEN SwitchAndEnter(c, "BootRealm", "Realm", FALSE)
  ELSE SwitchAndEnter(c, "Loop", "NonSecure", FALSE)

\* per_world_loop and run_loop with the result of a handler.
Continue(c, next, has_msg) ==
  \/ next = "panic" /\ Panic(c)
  \/ next = world[c] /\ Reenter(c, has_msg)
  \/ /\ next \in World \ {world[c]} /\ phase[c] = "Loop"
     /\ SwitchAndEnter(c, "Loop", next, has_msg)
  \/ /\ next = "NonSecure" /\ phase[c] \in {"BootSecure", "BootRealm"}
     /\ Booted(c, has_msg)

InLoop == {"BootSecure", "BootRealm", "Loop"}
bootVars == <<rmm_args, secure_pc>>

-----------------------------------------------------------------------------
(* Exits from the worlds into per_world_loop.                              *)

\* An SMC that its service answers in place: arch, TRNG, errata, platform, the
\* PSCI calls that do not power down, and everything that is not supported.
AnsweredSmc(c) ==
  /\ phase[c] \in InLoop
  /\ Exit(c, world[c], TRUE)
  /\ Reenter(c, TRUE)
  /\ UNCHANGED <<spmdVars, rmmVars, bootVars, boot_complete>>

SysregTrap(c) ==
  /\ phase[c] \in InLoop
  /\ Exit(c, world[c], FALSE)
  /\ Reenter(c, FALSE)
  /\ UNCHANGED <<spmdVars, rmmVars, bootVars, boot_complete>>

\* handle_interrupt: only the normal world's FIQs are routed to EL3.
Interrupt(c) ==
  /\ phase[c] = "Loop"
  /\ Exit(c, "NonSecure", FALSE)
  /\ \/ /\ switch_spmc_local_state(c, "Runtime", "SecureInterrupt")   \* Secure
        /\ Continue(c, "Secure", TRUE)
     \/ UNCHANGED spmc_state /\ Continue(c, "NonSecure", FALSE) \* El3, Invalid
     \/ UNCHANGED spmc_state /\ Panic(c)                               \* other
  /\ UNCHANGED <<spmc_secondary_ep, rmmVars, bootVars, boot_complete>>

SecureFfa(c) ==
  \E m \in SecureMsg :
    LET o == handle_secure_smc(c, m)
    IN  /\ phase[c] \in InLoop
        /\ Exit(c, "Secure", TRUE)
        /\ spmc_state' = [spmc_state EXCEPT ![c] = o.state]
        /\ RegisterSecondaryEp(c, m)
        /\ Continue(c, o.next, o.has_msg)
        /\ UNCHANGED <<rmmVars, bootVars, boot_complete>>

NonSecureFfa(c) ==
  \E m \in NonSecureMsg :
    /\ phase[c] = "Loop"
    /\ Exit(c, "NonSecure", TRUE)
    /\ m.kind # "Invalid" => NormalWorldReady(c)
    /\ Continue(c, handle_non_secure_call(m), TRUE)
    /\ UNCHANGED <<spmdVars, rmmVars, bootVars, boot_complete>>

\* Rmmd::handle_non_secure_smc: RMI calls are for an RMM that booted.
NonSecureRmi(c) ==
  /\ Rme /\ phase[c] = "Loop"
  /\ Exit(c, "NonSecure", TRUE)
  /\ Continue(c, IF boot_success THEN "Realm" ELSE "NonSecure", TRUE)
  /\ UNCHANGED <<spmdVars, rmmVars, bootVars, boot_complete>>

\* Rmmd::handle_realm_smc up to its test of boot_failure and, for calls other
\* than RMM_BOOT_COMPLETE, to its end.
RealmSmc(c) ==
  /\ Rme /\ phase[c] \in InLoop
  /\ Exit(c, "Realm", TRUE)
  /\ \/ /\ boot_failure
        /\ Continue(c, "NonSecure", TRUE)
        /\ UNCHANGED boot_complete
     \/ /\ ~boot_failure
        /\ boot_complete' \in {[boot_complete EXCEPT ![c] = r] :
                                r \in {"ok", "failed"}}
        /\ UNCHANGED <<phase, world, regs, live, saved>>
     \/ /\ ~boot_failure                                 \* RMI_REQ_COMPLETE
        /\ phase[c] = "BootRealm" =>
             activation_token[c] \/ RmmSkipsBootComplete
        /\ Continue(c, "NonSecure", TRUE)
        /\ UNCHANGED boot_complete
     \/ /\ ~boot_failure                          \* GTSI and attestation calls
        /\ Continue(c, "Realm", TRUE)
        /\ UNCHANGED boot_complete
  /\ UNCHANGED <<spmdVars, rmmVars, bootVars>>

RealmBootComplete(c) ==
  /\ boot_complete[c] # "none"
  /\ \E next \in World :
       /\ handle_boot_complete(c, boot_complete[c] = "ok", next)
       /\ Continue(c, next, TRUE)
  /\ boot_complete' = [boot_complete EXCEPT ![c] = "none"]
  /\ UNCHANGED <<spmdVars, owed, bootVars>>

-----------------------------------------------------------------------------
(* PSCI and the secure world.                                              *)

\* forward_psci_request: CPU_SUSPEND, SYSTEM_SUSPEND or CPU_OFF tells the SPMC.
PowerDownRequest(c) ==
  /\ phase[c] = "Loop"
  /\ Exit(c, "NonSecure", TRUE)
  /\ \E ph \in {"SuspendRequest", "OffRequest"} :
       SwitchAndEnter(c, ph, "Secure", TRUE)
  /\ UNCHANGED <<spmdVars, rmmVars, bootVars, boot_complete>>

\* Mutant: the secure world's registers stay loaded and unsaved.
NoSwitchBack(c) ==
  /\ world' = [world EXCEPT ![c] = "NonSecure"]
  /\ UNCHANGED <<live, saved>>

\* The end of the nested loops: back to the normal world's registers.
SwitchBack(c) ==
  /\ world' = [world EXCEPT ![c] = "NonSecure"]
  /\ live' = [live EXCEPT ![c] = "NonSecure"]
  /\ saved' = [saved EXCEPT ![c] = SavedAfter(c, "Secure")]

\* Mutant: cpu_off does not call notify_cpu_off.
AnsweredWithoutNotify(c, m) ==
  /\ IsPowerPsciResp(m)
  /\ SwitchBack(c)
  /\ UNCHANGED <<regs, spmc_state>>
  /\ phase' = [phase EXCEPT ![c] = IF phase[c] = "SuspendRequest"
                                   THEN "PowerDown" ELSE "Off"]

\* The SPMC's answer m: anything but FFA_PSCI_RESP panics; cpu_off goes on to
\* notify_cpu_off.
Answered(c, m) ==
  \/ /\ ~IsPowerPsciResp(m)
     /\ Panic(c)
     /\ UNCHANGED spmc_state
  \/ /\ IsPowerPsciResp(m)
     /\ SwitchBack(c)
     /\ UNCHANGED regs
     /\ \/ /\ phase[c] = "SuspendRequest"
           /\ phase' = [phase EXCEPT ![c] = "PowerDown"]
           /\ UNCHANGED spmc_state
        \/ /\ phase[c] = "OffRequest"
           /\ phase' = [phase EXCEPT ![c] = "Off"]
           /\ switch_spmc_local_state(c, "Runtime", "Off")

PowerDownAnswered(c) ==
  /\ phase[c] \in {"SuspendRequest", "OffRequest"}
  /\ Exit(c, "Secure", TRUE)
  /\ \E m \in SecureMsg : Answered(c, m)
  /\ UNCHANGED <<spmc_secondary_ep, rmmVars, bootVars, boot_complete>>

\* The core loses its registers; or an interrupt arrives first, and the SPMC is
\* told (notify_cpu_suspend_powerdown_abandoned).
PowerDownHappens(c) ==
  /\ phase[c] = "PowerDown"
  /\ phase' = [phase EXCEPT ![c] = "Woken"]
  /\ live' = [live EXCEPT ![c] = Nothing]
  /\ UNCHANGED <<spmdVars, rmmVars, world, regs, owed, saved, bootVars,
                 boot_complete>>

PowerDownAbandoned(c) ==
  /\ phase[c] = "PowerDown"
  /\ switch_spmc_local_state(c, "Runtime", "PsciEventHandling")
  /\ SwitchAndEnter(c, "Abandoned", "Secure", TRUE)
  /\ UNCHANGED <<spmc_secondary_ep, rmmVars, owed, bootVars, boot_complete>>

AbandonAnswered(c) ==
  /\ phase[c] = "Abandoned"
  /\ Exit(c, "Secure", TRUE)
  /\ \E m \in SecureMsg :
       \/ ~IsPowerPsciResp(m) /\ Panic(c) /\ UNCHANGED spmc_state
       \/ /\ IsPowerPsciResp(m)
          /\ switch_spmc_local_state(c, "PsciEventHandling", "Runtime")
          /\ SwitchAndEnter(c, "Loop", "NonSecure", TRUE)
  /\ UNCHANGED <<spmc_secondary_ep, rmmVars, bootVars, boot_complete>>

-----------------------------------------------------------------------------
(* Warm boot.                                                              *)

\* set_initial_world and the first entry of run_loop.
EnterRunLoop(c, contexts) ==
  /\ phase' = [phase EXCEPT ![c] = "BootSecure"]
  /\ world' = [world EXCEPT ![c] = "Secure"]
  /\ live' = [live EXCEPT ![c] = "Secure"]
  /\ saved' = [saved EXCEPT ![c] = contexts \ {"Secure"}]
  /\ regs' = [regs EXCEPT ![c] = FALSE]
  /\ owed' = [owed EXCEPT ![c] = [w \in World |-> FALSE]]

\* WakeUpReason::SuspendFinished: the normal world's context is made anew, the
\* messages for the other two are written into their saved contexts.
WarmBootWoken(c) ==
  /\ phase[c] = "Woken"
  /\ switch_spmc_local_state(c, "Runtime", "PsciEventHandling")
  /\ EnterRunLoop(c, saved[c] \cup {"NonSecure"})
  /\ UNCHANGED <<spmc_secondary_ep, rmmVars, bootVars, boot_complete>>

\* WakeUpReason::CpuOn, after a CPU_ON of another core.
CpuTurnedOn(c) ==
  /\ phase[c] = "Off"
  /\ \E d \in Core : phase[d] = "Loop" /\ world[d] = "NonSecure"
  /\ phase' = [phase EXCEPT ![c] = "TurnedOn"]
  /\ live' = [live EXCEPT ![c] = Nothing]
  /\ secure_pc' = [secure_pc EXCEPT ![c] = spmc_secondary_ep]
  /\ UNCHANGED <<spmdVars, rmmVars, world, regs, owed, saved, rmm_args,
                 boot_complete>>

WarmBootTurnedOn(c) ==
  /\ phase[c] = "TurnedOn"
  /\ switch_spmc_local_state(c, "Off", "Boot")
  /\ rmm_args' = [rmm_args EXCEPT ![c] = entrypoint_args]
  /\ EnterRunLoop(c, World)
  /\ UNCHANGED <<spmc_secondary_ep, rmmVars, secure_pc, boot_complete>>

Step(c) ==
  \/ AnsweredSmc(c) \/ SysregTrap(c) \/ Interrupt(c)
  \/ SecureFfa(c) \/ NonSecureFfa(c) \/ NonSecureRmi(c)
  \/ RealmSmc(c) \/ RealmBootComplete(c)
  \/ PowerDownRequest(c) \/ PowerDownAnswered(c) \/ PowerDownHappens(c)
  \/ PowerDownAbandoned(c) \/ AbandonAnswered(c)
  \/ WarmBootWoken(c) \/ CpuTurnedOn(c) \/ WarmBootTurnedOn(c)

Next == \E c \in Core : Step(c)

Spec == Init /\ [][Next]_vars

-----------------------------------------------------------------------------
(* Properties.                                                             *)

\* The states of the SPMC that go with where the core is.  It implies every
\* assertion of switch_spmc_local_state and that FF-A calls of the normal world
\* find the SPMC in Runtime.
SpmcStates(c) ==
  CASE phase[c] \in {"Off", "TurnedOn"} -> {"Off"}
    [] phase[c] = "BootSecure" -> {"Boot", "PsciEventHandling"}
    [] phase[c] = "Loop" /\ world[c] = "Secure" ->
         {"Runtime", "SecureInterrupt"}
    [] phase[c] = "Abandoned" -> {"PsciEventHandling"}
    [] phase[c] = "Panic" -> SpmcState
    [] OTHER -> {"Runtime"}

\* The SPMD's record of the SPMC never loses step with run_loop, warmboot and
\* PSCI, whichever way a core goes down and comes back.
SpmcInStep == \A c \in Core : spmc_state[c] \in SpmcStates(c)

\* A world that made a call is entered with an answer in its registers; one that
\* was preempted, trapped or is entered for the first time finds its registers
\* as they were (SmcReturn::EMPTY), also when other worlds ran in between.
ResumedFaithfully ==
  \A c \in Core :
    phase[c] \in Running /\ boot_complete[c] = "none" =>
      regs[c] = owed[c][world[c]]

\* The running world runs with its own registers and those of every other world
\* are saved; when power goes, all of them are.
ContextsIntact ==
  \A c \in Core :
    /\ phase[c] \in Running =>
         live[c] = world[c] /\ World \ {world[c]} \subseteq saved[c]
    /\ phase[c] \in {"PowerDown", "Woken"} => saved[c] = World

\* Once the RMM failed to boot on one core it stays disabled on all cores,
\* whatever another core that is booting reports (set_boot_success).
FailureIsFinal ==
  [][rmm_boot_state = "Error" => rmm_boot_state' = "Error"]_vars

\* What one core knows of the RMM holds on the others: the normal world's calls
\* reach the realm world only on cores on which the RMM itself has booted,
\* although Rmmd::handle_non_secure_smc tests a state that all cores share and a
\* core skips the boot once another one failed; and only the primary core's RMM
\* boots with the cold boot arguments: the others get them only when "no more RMM
\* boots will be attempted using these args" (entrypoint_args).
RmmBootRespected ==
  \A c \in Core :
    /\ phase[c] = "Loop" /\ world[c] = "Realm" => activation_token[c]
    /\ phase[c] = "BootRealm" /\ rmm_args[c] = "cold" => c = Primary
=============================================================================
