---------------------------- MODULE CpuLifecycle ----------------------------
(***************************************************************************)
(* What PSCI promises the normal world about the life of each CPU, without *)
(* locks, nodes or votes: a CPU starts only after an accepted CPU_ON, at   *)
(* that call's entry point; a suspended CPU either resumes where it was or *)
(* starts at the entry point of its own suspend call; nothing else moves.  *)
(***************************************************************************)
EXTENDS Integers

CONSTANTS CpuSet, EntryPoints, None, First

VARIABLES power,                 \* "off", "starting", "on" or "sleeping"
          pending,               \* entry point the CPU will start at, or None
          entered                \* where it last started, or None

lifeVars == <<power, pending, entered>>

LifeInit ==
  /\ power = [c \in CpuSet |-> IF c = First THEN "on" ELSE "off"]
  /\ pending = [c \in CpuSet |-> None]
  /\ entered = [c \in CpuSet |-> None]

Move(c, from, to) == power[c] = from /\ power' = [power EXCEPT ![c] = to]

\* A running CPU's CPU_ON is accepted; no other request is outstanding.
TurnOn(c) ==
  /\ Move(c, "off", "starting")
  /\ \E d \in CpuSet : power[d] = "on"
  /\ pending[c] = None
  /\ \E e \in EntryPoints : pending' = [pending EXCEPT ![c] = e]
  /\ UNCHANGED entered

\* A CPU that starts consumes the entry point, exactly once.
Start(c) ==
  /\ Move(c, "starting", "on") \/ Move(c, "sleeping", "on")
  /\ pending[c] # None
  /\ entered' = [entered EXCEPT ![c] = pending[c]]
  /\ pending' = [pending EXCEPT ![c] = None]

TurnOff(c) ==
  /\ Move(c, "on", "off")
  /\ UNCHANGED <<pending, entered>>

\* With an entry point for a power down, without one for retention.
Sleep(c) ==
  /\ Move(c, "on", "sleeping")
  /\ pending[c] = None
  /\ \E e \in EntryPoints \cup {None} : pending' = [pending EXCEPT ![c] = e]
  /\ UNCHANGED entered

\* A power down that did not happen gives its entry point up.
Abandon(c) ==
  /\ power[c] = "sleeping" /\ pending[c] # None
  /\ pending' = [pending EXCEPT ![c] = None]
  /\ UNCHANGED <<power, entered>>

Resume(c) ==
  /\ Move(c, "sleeping", "on")
  /\ pending[c] = None
  /\ UNCHANGED <<pending, entered>>

LifeNext ==
  \E c \in CpuSet :
    TurnOn(c) \/ Start(c) \/ TurnOff(c) \/ Sleep(c) \/ Abandon(c) \/ Resume(c)

LifeSpec == LifeInit /\ [][LifeNext]_lifeVars
=============================================================================
