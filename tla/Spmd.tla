-------------------------------- MODULE Spmd --------------------------------
(***************************************************************************)
(* The Secure Partition Manager Dispatcher (src/services/ffa/spmd.rs): the *)
(* state it keeps for the SPMC on every core, and what it does with each   *)
(* FF-A call.  A call is abstracted to its kind and the endpoints it names *)
(* (those that carry none have "vm" for both).                             *)
(***************************************************************************)
EXTENDS Integers, FiniteSets

CONSTANTS Core,                  \* the cores
          Primary,               \* the core of the cold boot
          SecondaryEp            \* entry points the SPMC may register

VARIABLES spmc_state,            \* core-local state of the SPMC
          spmc_secondary_ep      \* where secondary cores enter the SPMC

spmdVars == <<spmc_state, spmc_secondary_ep>>

PrimaryEp == "primary_ep"
SpmcState == {"Off", "Boot", "Runtime", "SecureInterrupt", "PsciEventHandling"}

\* OWN_ID, spmc_id, any other secure endpoint, and the normal world's.
Endpoint == {"spmd", "spmc", "sp", "vm"}
is_secure_id(e) == e # "vm"

Msg(kind) == [kind |-> kind, src |-> "vm", dst |-> "vm"]
Direct(kinds) == [kind : kinds, src : Endpoint, dst : Endpoint]

\* "Query": FFA_FEATURES, FFA_ID_GET, FFA_SPM_ID_GET, FFA_PARTITION_INFO_GET_REGS.
\* "Answer": the kinds handle_secure_call_runtime forwards as they are, besides
\* FFA_ERROR and FFA_MSG_WAIT.  "Other": a call the handler has no case for.
\* "Invalid": registers that do not decode to a call.
SecureMsg ==
  {Msg(k) : k \in {"Error", "Version", "MsgWait", "EpRegister", "Query",
                   "Resume", "Answer", "Other", "Invalid"}}
  \cup Direct({"VersionResp", "PowerPsciResp", "DirectResp", "DirectResp2"})

\* Here "Query" is FFA_ID_GET and FFA_SPM_ID_GET, which the SPMD answers itself;
\* "Forward" the kinds handle_non_secure_call forwards without a check.
NonSecureMsg ==
  {Msg(k) : k \in {"Version", "Query", "Forward", "Other", "Invalid"}}
  \cup Direct({"DirectReq"}) \cup [kind : {"Send2"}, src : Endpoint, dst : {"vm"}]

\* What a handler decides: whether the registers hold a message for the next
\* world, which world is next, and the SPMC's state.
Outcome(has_msg, next, state) ==
  [has_msg |-> has_msg, next |-> next, state |-> state]

SpmdInit ==
  /\ spmc_state = [c \in Core |-> IF c = Primary THEN "Boot" ELSE "Off"]
  /\ spmc_secondary_ep = PrimaryEp

SpmdTypeOK ==
  /\ spmc_state \in [Core -> SpmcState]
  /\ spmc_secondary_ep \in SecondaryEp \cup {PrimaryEp}

switch_spmc_local_state(c, expected, new) ==
  /\ spmc_state[c] = expected
  /\ spmc_state' = [spmc_state EXCEPT ![c] = new]

-----------------------------------------------------------------------------
(* Calls from the secure world, by the state of the SPMC.                  *)

\* The SPMC is told that it may not do that now; it stays in control.
Refused(state) == Outcome(TRUE, "Secure", state)

\* FFA_ERROR ends the boot with a panic, FFA_MSG_WAIT ends it well.
handle_secure_call_boot(m) ==
  CASE m.kind = "Error"   -> Outcome(FALSE, "panic", "Boot")
    [] m.kind = "MsgWait" -> Outcome(FALSE, "NonSecure", "Runtime")
    [] OTHER              -> Refused("Boot")

\* Whether a call at run time is an answer that the normal world may get.
ForwardedAtRuntime(m) ==
  \/ m.kind \in {"Error", "MsgWait", "Answer"}
  \/ m.kind = "DirectResp2" /\ is_secure_id(m.src) /\ ~is_secure_id(m.dst)
  \/ /\ m.kind \in {"DirectResp", "VersionResp", "PowerPsciResp"}
     /\ is_secure_id(m.src) /\ ~is_secure_id(m.dst)
  \/ m.kind = "VersionResp" /\ m.src = "spmc" /\ m.dst = "spmd"

handle_secure_call_runtime(m) ==
  Outcome(TRUE, IF ForwardedAtRuntime(m) THEN "NonSecure" ELSE "Secure",
          "Runtime")

\* Mutant: FFA_NORMAL_WORLD_RESUME itself is forwarded.
ResumeForwarded(m) ==
  IF m.kind = "Resume" THEN Outcome(TRUE, "NonSecure", "Runtime")
  ELSE Refused("SecureInterrupt")

handle_secure_call_interrupt(m) ==
  IF m.kind = "Resume" THEN Outcome(FALSE, "NonSecure", "Runtime")
  ELSE Refused("SecureInterrupt")

IsPowerPsciResp(m) ==
  m.kind = "PowerPsciResp" /\ m.src = "spmc" /\ m.dst = "spmd"

handle_secure_call_psci_event(m) ==
  IF IsPowerPsciResp(m) THEN Outcome(FALSE, "NonSecure", "Runtime")
  ELSE Refused("PsciEventHandling")

\* handle_secure_smc; a call while the SPMC is off panics.
handle_secure_smc(c, m) ==
  IF m.kind = "Invalid" THEN Refused(spmc_state[c])
  ELSE CASE spmc_state[c] = "Boot"              -> handle_secure_call_boot(m)
         [] spmc_state[c] = "Runtime"           -> handle_secure_call_runtime(m)
         [] spmc_state[c] = "SecureInterrupt"   -> handle_secure_call_interrupt(m)
         [] spmc_state[c] = "PsciEventHandling" -> handle_secure_call_psci_event(m)
         [] OTHER                               -> Outcome(FALSE, "panic", "Off")

\* FFA_SECONDARY_EP_REGISTER, accepted on every core while its SPMC boots.
RegisterSecondaryEp(c, m) ==
  IF m.kind = "EpRegister" /\ spmc_state[c] = "Boot"
  THEN spmc_secondary_ep' \in SecondaryEp
  ELSE UNCHANGED spmc_secondary_ep

-----------------------------------------------------------------------------
(* Calls from the normal world.                                            *)

ForwardedToSecure(m) ==
  \/ m.kind \in {"Version", "Forward"}
  \/ m.kind = "DirectReq" /\ ~is_secure_id(m.src) /\ is_secure_id(m.dst)
  \/ m.kind = "Send2" /\ ~is_secure_id(m.src)

\* handle_non_secure_smc; the assertion on the state is NormalWorldReady.
handle_non_secure_call(m) ==
  IF ForwardedToSecure(m) THEN "Secure" ELSE "NonSecure"

NormalWorldReady(c) == spmc_state[c] = "Runtime"
=============================================================================
