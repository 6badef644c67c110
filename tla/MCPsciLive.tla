----------------------------- MODULE MCPsciLive -----------------------------
(***************************************************************************)
(* Progress of the PSCI handlers.  The spin locks are not queued: a core   *)
(* that spins can lose every race against cores that keep calling PSCI.    *)
(* What the code does guarantee is progress once the other cores stop      *)
(* calling, so here the normal worlds make at most MaxCalls calls between  *)
(* them, and each core's firmware is scheduled fairly (each core is its    *)
(* own processor).  Nothing is assumed about wake-up interrupts.           *)
(***************************************************************************)
EXTENDS MCPsci

CONSTANT MaxCalls

VARIABLE calls

liveVars == <<vars, calls>>

LiveInit == Init /\ calls = 0

LiveNext ==
  \E c \in CPU :
    \/ Call(c) /\ calls < MaxCalls /\ calls' = calls + 1
    \/ (WakeUp(c) \/ Step(c)) /\ UNCHANGED calls

LiveSpec ==
  /\ LiveInit /\ [][LiveNext]_liveVars
  /\ \A c \in CPU : WF_liveVars(Step(c) /\ UNCHANGED calls)

\* Every handler runs to its end: whatever locks it needs, in whatever order the
\* cores got there, the core ends up back in the normal world, waiting for an
\* interrupt, or off.
HandlersFinish ==
  \A c \in CPU :
    []<>(pc[c] \in {"nwd", "standby", "wfi", "off"})

\* A CPU_ON that was accepted brings the target up: the CPU leaves OnPending by
\* becoming On, even when it was still on its way down.
StartedCpusComeUp ==
  \A c \in CPU :
    affinity_info[c] = "OnPending" /\ entry_point[c] # NoEntry
      ~> affinity_info[c] = "On" /\ pc[c] = "nwd"
=============================================================================
