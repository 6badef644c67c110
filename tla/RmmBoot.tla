------------------------------- MODULE RmmBoot -------------------------------
(***************************************************************************)
(* The boot state the Realm Management Monitor Dispatcher keeps            *)
(* (src/services/rmmd.rs): one state for all cores, in an atomic, and an   *)
(* activation token per core.                                              *)
(***************************************************************************)
EXTENDS Integers

CONSTANT RmmCore

VARIABLES rmm_boot_state,        \* "Unknown", "ColdBootDone" or "Error"
          activation_token       \* whether a core's token has been set

rmmVars == <<rmm_boot_state, activation_token>>

RmmInit ==
  /\ rmm_boot_state = "Unknown"
  /\ activation_token = [c \in RmmCore |-> FALSE]

RmmTypeOK ==
  /\ rmm_boot_state \in {"Unknown", "ColdBootDone", "Error"}
  /\ activation_token \in [RmmCore -> BOOLEAN]

boot_success == rmm_boot_state = "ColdBootDone"
boot_failure == rmm_boot_state = "Error"

\* Mutant: a plain store.
OverwriteBootState == rmm_boot_state' = "ColdBootDone"

\* A compare and exchange, so that a failure on another core is not lost.
set_boot_success ==
  rmm_boot_state' = IF rmm_boot_state = "Unknown" THEN "ColdBootDone"
                    ELSE rmm_boot_state

set_boot_failure == rmm_boot_state' = "Error"

\* entrypoint_args: the arguments a core's RMM starts with.
entrypoint_args == IF boot_success THEN "warm" ELSE "cold"

\* handle_boot_complete: a failure, the first success on a core, or a repeated
\* one, which is refused.  `next` is the world it returns to.
handle_boot_complete(c, ok, next) ==
  \/ /\ ~ok /\ next = "NonSecure"
     /\ set_boot_failure
     /\ UNCHANGED activation_token
  \/ /\ ok /\ ~activation_token[c] /\ next = "NonSecure"
     /\ activation_token' = [activation_token EXCEPT ![c] = TRUE]
     /\ set_boot_success
  \/ /\ ok /\ activation_token[c] /\ next = "Realm"
     /\ UNCHANGED rmmVars
=============================================================================
