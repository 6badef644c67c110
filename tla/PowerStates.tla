---------------------------- MODULE PowerStates ----------------------------
(***************************************************************************)
(* From the power_state argument of CPU_SUSPEND to the request that Psci   *)
(* coordinates: try_parse_power_state of QEMU and FVP, then the decisions  *)
(* and assertions of Psci::cpu_suspend and of the platforms' cpu_standby.  *)
(* An argument is its type and its state identifier, the latter as one     *)
(* nibble per level from the core up, one for the last level, and the bits *)
(* above them.                                                             *)
(***************************************************************************)
EXTENDS Integers, FiniteSets, FiniteSetsExt

VARIABLES
  board,         \* "qemu" or "fvp"
  argument,      \* the power_state of the current CPU_SUSPEND
  parsed,        \* what try_parse_power_state makes of it
  path           \* where cpu_suspend goes with it

stateVars == <<board, argument, parsed, path>>

MAX_POWER_LEVEL == 2
Levels == 0..MAX_POWER_LEVEL
RUN == 0
RETENTION == 1
OFF == 2
NONE == -1

Nibble == 0..3
Argument ==
  [down : BOOLEAN, states : [Levels -> Nibble], last : Nibble, upper : 0..1]

Composite(core, cluster, system) ==
  [l \in Levels |-> <<core, cluster, system>>[l + 1]]
Request(s, last) == [states |-> s, last |-> last]
Nothing == Request(Composite(RUN, RUN, RUN), NONE)          \* Option::None

\* StandbyOrRetention(0x1): the whole identifier is 1.
IsStandby(a) ==
  ~a.down /\ a.states = Composite(1, 0, 0) /\ a.last = 0 /\ a.upper = 0

\* A plausible slip: the identifier of a system power down taken literally.
Literal(s, known) ==
  IF s \in known \cup {Composite(2, 2, 2)} THEN s ELSE Nothing.states

\* The identifiers of power down states, by the nibbles of the levels.  The
\* system level is left running: only SYSTEM_SUSPEND powers it down.
PowerDown(s, known) ==
  IF s = Composite(2, 2, 2) THEN Composite(OFF, OFF, RUN)
  ELSE IF s \in known THEN s ELSE Nothing.states

qemu_try_parse(a) ==
  LET s == PowerDown(a.states,
             {Composite(2, 0, 0), Composite(2, 1, 0), Composite(2, 2, 0)}) IN
  CASE a.last > MAX_POWER_LEVEL -> Nothing
    [] a.last <= MAX_POWER_LEVEL /\ IsStandby(a) ->
         Request(Composite(RETENTION, RUN, RUN), a.last)
    [] a.last <= MAX_POWER_LEVEL /\ a.down /\ s # Nothing.states -> Request(s, a.last)
    [] OTHER -> Nothing

fvp_try_parse(a) ==
  LET s == PowerDown(a.states, {Composite(2, 0, 0), Composite(2, 2, 0)}) IN
  CASE IsStandby(a) -> Request(Composite(RETENTION, RUN, RUN), NONE)
    [] a.down /\ s # Nothing.states /\ a.last <= MAX_POWER_LEVEL -> Request(s, a.last)
    [] OTHER -> Nothing

NonRun(s) == {l \in Levels : s[l] # RUN}
find_highest_non_run_level(s) == Max(NonRun(s))

\* PsciCompositePowerState::is_valid_suspend_request.
is_valid_suspend_request(r, is_power_down_state) ==
  /\ NonRun(r.states) # {}
  /\ \A l \in 1..MAX_POWER_LEVEL : r.states[l - 1] >= r.states[l]
  /\ r.last <= MAX_POWER_LEVEL
  /\ is_power_down_state <=> \E l \in Levels : r.states[l] = OFF

Idle == [down |-> FALSE, states |-> Nothing.states, last |-> 0, upper |-> 0]

Init ==
  /\ board \in {"qemu", "fvp"}
  /\ argument = Idle /\ parsed = Nothing /\ path = "none"

\* CPU_SUSPEND with the argument a and an entry point that is valid or not.
CpuSuspend(a, valid) ==
  LET r == IF board = "qemu" THEN qemu_try_parse(a) ELSE fvp_try_parse(a) IN
  /\ path = "none"
  /\ argument' = a /\ parsed' = r
  /\ path' =
       CASE r = Nothing -> "InvalidParameters"
         [] r # Nothing /\ ~is_valid_suspend_request(r, a.down) -> "panic"
         [] OTHER -> IF ~a.down /\ find_highest_non_run_level(r.states) = 0
                     THEN "cpu_standby"
                     ELSE IF a.down /\ ~valid THEN "InvalidAddress"
                     ELSE "cpu_suspend_start"
  /\ UNCHANGED board

Return ==
  /\ path \notin {"none", "panic"}
  /\ argument' = Idle /\ parsed' = Nothing /\ path' = "none"
  /\ UNCHANGED board

Next == (\E a \in Argument, valid \in BOOLEAN : CpuSuspend(a, valid)) \/ Return

Spec == Init /\ [][Next]_stateVars

\* Whatever word the caller passes, the platform parses it into a request that
\* Psci's handler accepts, as Psci assumes of SuspendRequest, or into none: its
\* assertion never fires, a standby reaches cpu_standby with a retention state
\* (which cpu_standby asserts) and a power down does not, no request names a
\* level that the tree does not have, and CPU_SUSPEND never powers down the
\* system, which both platforms keep for SYSTEM_SUSPEND.
RequestsAdmitted ==
  /\ path # "panic"
  /\ path = "cpu_standby" => parsed.states[0] = RETENTION /\ ~argument.down
  /\ path = "cpu_suspend_start" => argument.down /\ parsed.last \in Levels
  /\ parsed.states[MAX_POWER_LEVEL] = RUN
=============================================================================
