------------------------------ MODULE Dispatch ------------------------------
(***************************************************************************)
(* How EL3 routes an SMC to a service (services.rs), and how the discovery *)
(* calls of the services (SMCCC_ARCH_FEATURES, PSCI_FEATURES, EM_FEATURES, *)
(* TRNG_FEATURES) relate to what the discovered calls then do.  A caller   *)
(* asks, and calls later; the suspend mode and the boot of the RMM change  *)
(* in between.  A call's effect on the power domains, the pool of entropy  *)
(* or another world is in Psci, Trng and RunLoop: here it is its answer.   *)
(***************************************************************************)
EXTENDS Integers

VARIABLES
  build,        \* what the platform and the build provide, fixed at Init
  osi,          \* suspend_mode is OsInitiated
  booted,       \* rmm_boot_state is ColdBootDone
  asked,        \* the last discovery call: its world, function and answer
  last          \* the last call: was it the function asked about, its answer

dispatchVars == <<build, osi, booted, asked, last>>

World == {"NonSecure", "Secure", "Realm"}

\* A function identifier by the fields smccc.rs takes apart.
Fid(type, oen, number) ==
  [type |-> type, oen |-> oen, number |-> number, sve |-> FALSE, reserved |-> FALSE]

\* A plausible slip: clearing the reserved bits instead of the hint.
ClearReserved(f) == [f EXCEPT !.reserved = FALSE]

clear_sve_hint(f) == [f EXCEPT !.sve = FALSE]
valid(f) == f.type = "Yielding" \/ ~f.reserved

ARM_ARCHITECTURE == 0
STANDARD_SECURE == 4

owns(f, oen, range) ==
  f.oen = oen /\ f.number \in range /\ f.type \in {"Fast32", "Fast64"}

(***************************************************************************)
(* Arm architecture calls.  An answer is one word: "Ok" for any result     *)
(* that is not an error, "Empty" when no register is written.              *)
(***************************************************************************)
SMCCC_VERSION       == Fid("Fast32", ARM_ARCHITECTURE, \h0000)
SMCCC_ARCH_FEATURES == Fid("Fast32", ARM_ARCHITECTURE, \h0001)
SMCCC_ARCH_SOC_ID   == {Fid(t, ARM_ARCHITECTURE, \h0002) : t \in {"Fast32", "Fast64"}}
WORKAROUND(n) ==
  Fid("Fast32", ARM_ARCHITECTURE, <<\h8000, \h7FFF, \h3FFF, \h0004>>[n])

\* WorkaroundSupport: Required or SafeButNotRequired.
arch_features(f) ==
  CASE f \in {SMCCC_VERSION, SMCCC_ARCH_FEATURES} \cup SMCCC_ARCH_SOC_ID -> "Ok"
    [] \E n \in build.required : f = WORKAROUND(n) -> "Ok"
    [] \E n \in (1..4) \ build.required : f = WORKAROUND(n) -> "SafeButNotRequired"
    [] OTHER -> "NotSupported"

\* Workaround n is performed when the platform says that it is Required.
arch_workaround(n) == IF n \in build.required THEN "Mitigated" ELSE "Empty"

\* The name of the SoC is offered to 64-bit callers only.
arch_soc_id(f, type) ==
  IF type \in {0, 1} \/ (type = 2 /\ f.type = "Fast64") THEN "Ok" ELSE "InvalidParameter"

handle_common_smc(f, arg) ==
  CASE f = SMCCC_VERSION         -> "Ok"
    [] f = SMCCC_ARCH_FEATURES   -> arch_features(arg)
    [] f \in SMCCC_ARCH_SOC_ID   -> arch_soc_id(f, arg.number)
    [] \E n \in 1..3 : f = WORKAROUND(n) ->
         arch_workaround(CHOOSE n \in 1..3 : f = WORKAROUND(n))
    [] OTHER                     -> "NotSupported"

(***************************************************************************)
(* PSCI.                                                                   *)
(***************************************************************************)
\* The function numbers and the widths the arm-psci crate decodes.
Only32 ==
  [PsciVersion |-> \h00, CpuOff |-> \h02, MigrateInfoType |-> \h06, SystemOff |-> \h08,
   SystemReset |-> \h09, PsciFeatures |-> \h0A, CpuFreeze |-> \h0B,
   PsciSetSuspendMode |-> \h0F, MemProtect |-> \h13]
Both ==
  [CpuSuspend |-> \h01, CpuOn |-> \h03, AffinityInfo |-> \h04, Migrate |-> \h05,
   MigrateInfoUpCpu |-> \h07, CpuDefaultSuspend |-> \h0C, NodeHwState |-> \h0D,
   SystemSuspend |-> \h0E, PsciStatResidency |-> \h10, PsciStatCount |-> \h11,
   SystemReset2 |-> \h12, MemProtectCheckRange |-> \h14, SystemOff2 |-> \h15]

\* The name of a PSCI function identifier, "unknown" when the crate has none.
Decode(f) ==
  LET names == {name \in DOMAIN Only32 : Only32[name] = f.number /\ f.type = "Fast32"}
               \cup {name \in DOMAIN Both : Both[name] = f.number}
  IN  IF f.oen # STANDARD_SECURE \/ f.sve \/ f.reserved \/ names = {} THEN "unknown"
      ELSE CHOOSE name \in names : TRUE

PsciFids ==
  {f \in {Fid(t, STANDARD_SECURE, n) : t \in {"Fast32", "Fast64"}, n \in 0..\h1F} :
     Decode(f) # "unknown"}

\* What PSCI_FEATURES looks up in the FEATURES of the platform.
check_optional_feature ==
  [SystemOff2 |-> "SYSTEM_OFF2", SystemReset2 |-> "SYSTEM_RESET2",
   MemProtect |-> "MEM_PROTECT", MemProtectCheckRange |-> "MEM_PROTECT_CHECK_RANGE",
   CpuFreeze |-> "CPU_FREEZE", CpuDefaultSuspend |-> "CPU_DEFAULT_SUSPEND",
   NodeHwState |-> "NODE_HW_STATE", SystemSuspend |-> "SYSTEM_SUSPEND",
   PsciSetSuspendMode |-> "OS_INITIATED_MODE"]

handle_features(f) ==
  LET name == Decode(f) IN
  IF \/ name \in {"unknown", "Migrate", "MigrateInfoUpCpu",
                  "PsciStatResidency", "PsciStatCount"} /\ f # SMCCC_VERSION
     \/ /\ name \in DOMAIN check_optional_feature
        /\ check_optional_feature[name] \notin build.FEATURES
  THEN "NotSupported" ELSE "Ok"

\* A function of PsciPlatformInterface whose default is unimplemented!().
Platform(function) == IF function \in build.implemented THEN "Ok" ELSE "Unimplemented"

\* The handlers of the optional functions: each tests FEATURES first, and the
\* platform function it then calls is a default unless the platform has its own.
Optional(feature, function) ==
  IF feature \notin build.FEATURES THEN "NotSupported" ELSE Platform(function)

system_off2             == Optional("SYSTEM_OFF2", "system_off2")
system_reset2           == Optional("SYSTEM_RESET2", "system_reset2")
mem_protect             == Optional("MEM_PROTECT", "mem_protect")
mem_protect_check_range == Optional("MEM_PROTECT_CHECK_RANGE", "mem_protect_check_range")
cpu_freeze              == Optional("CPU_FREEZE", "cpu_freeze")

\* A plausible slip: NODE_HW_STATE without the test of FEATURES.
Untested                == Platform("node_hw_state")
node_hw_state           == Optional("NODE_HW_STATE", "node_hw_state")
set_suspend_mode ==
  IF "OS_INITIATED_MODE" \in build.FEATURES THEN "Ok" ELSE "NotSupported"

is_in_osi_mode == "OS_INITIATED_MODE" \in build.FEATURES /\ osi

\* A suspend beyond a standby of the core asks the platform, in OS-initiated
\* mode, to validate the request.
cpu_suspend == IF is_in_osi_mode THEN Platform("power_domain_validate_suspend") ELSE "Ok"

cpu_default_suspend ==
  LET parsed == Optional("CPU_DEFAULT_SUSPEND", "cpu_default_suspend_power_state") IN
  IF parsed = "Ok" THEN cpu_suspend ELSE parsed

\* The state of SYSTEM_SUSPEND names no last level: OS-initiated mode refuses it.
system_suspend ==
  LET state == Optional("SYSTEM_SUSPEND", "sys_suspend_power_state") IN
  IF state = "Ok" /\ is_in_osi_mode THEN "InvalidParameters" ELSE state

handle_smc_inner(f, arg) ==
  LET name == Decode(f) IN
  CASE name \in {"unknown", "Migrate", "MigrateInfoUpCpu",
                 "PsciStatResidency", "PsciStatCount"} -> "NotSupported"
    [] name \in {"PsciVersion", "CpuOff", "CpuOn", "AffinityInfo", "MigrateInfoType"} -> "Ok"
    [] name \in {"SystemOff", "SystemReset"} -> "Down"
    [] name = "PsciFeatures"         -> handle_features(arg)
    [] name = "CpuSuspend"           -> cpu_suspend
    [] name = "SystemOff2"           -> system_off2
    [] name = "SystemReset2"         -> system_reset2
    [] name = "MemProtect"           -> mem_protect
    [] name = "MemProtectCheckRange" -> mem_protect_check_range
    [] name = "CpuFreeze"            -> cpu_freeze
    [] name = "CpuDefaultSuspend"    -> cpu_default_suspend
    [] name = "NodeHwState"          -> node_hw_state
    [] name = "SystemSuspend"        -> system_suspend
    [] name = "PsciSetSuspendMode"   -> set_suspend_mode

(***************************************************************************)
(* Errata management, TRNG and RMMD.                                       *)
(***************************************************************************)
EmFid(n) == Fid("Fast32", STANDARD_SECURE, n)
EM_VERSION == EmFid(\h00F0)
EM_FEATURES == EmFid(\h00F1)
EM_CPU_ERRATUM_FEATURES == EmFid(\h00F2)
EmFunctions == {EM_VERSION, EM_FEATURES, EM_CPU_ERRATUM_FEATURES}

features(f) == IF f \in EmFunctions THEN "Ok" ELSE "NotSupported"

handle_errata_smc(f, arg) ==
  CASE f \in {EM_VERSION, EM_CPU_ERRATUM_FEATURES} -> "Ok"
    [] f = EM_FEATURES -> features(arg)
    [] OTHER -> "NotSupported"

ARM_TRNG_FEATURES == Fid("Fast32", STANDARD_SECURE, \h51)
TrngFunctions ==
  {Fid("Fast32", STANDARD_SECURE, n) : n \in \h50..\h53} \cup {Fid("Fast64", STANDARD_SECURE, \h53)}
is_trng_fid(f) == f \in TrngFunctions

\* A platform without a TRNG has a nil TRNG_UUID and answers nothing.
handle_smc_common(f, arg) ==
  IF ~build.trng \/ ~is_trng_fid(f) \/ (f = ARM_TRNG_FEATURES /\ ~is_trng_fid(arg))
  THEN "NotSupported" ELSE "Ok"

RmiFuncId == {Fid("Fast64", STANDARD_SECURE, n) : n \in (\h150..\h169) \ {\h156, \h160, \h163}}

\* An RMI call goes to the realm world once the RMM has booted.  The identifier
\* is compared as it came, with the SVE hint.
handle_non_secure_rmi(f) == IF f \in RmiFuncId /\ booted THEN "Forwarded" ELSE "NotSupported"

(***************************************************************************)
(* Services::handle_smc: the services in the order they are asked, each    *)
(* with the worlds it serves; the trait's default answers NOT_SUPPORTED.   *)
(***************************************************************************)
Owner(f) ==
  CASE owns(f, ARM_ARCHITECTURE, 0..\hFFFF)          -> "arch"
    [] owns(f, STANDARD_SECURE, \h0000..\h001F)      -> "psci"
    [] owns(f, STANDARD_SECURE, \h0060..\h00EF)      -> "spmd"
    [] owns(f, STANDARD_SECURE, \h00F0..\h010F)      -> "errata_management"
    [] owns(f, STANDARD_SECURE, \h0050..\h0053)      -> "trng"
    [] build.rme /\ owns(f, STANDARD_SECURE, \h0150..\h01CF) -> "rmmd"
    [] OTHER                                         -> "none"

Answer(w, f, arg) ==
  LET owner == Owner(f)  plain == clear_sve_hint(f) IN
  CASE ~valid(f) \/ owner = "none"                      -> "NotSupported"
    [] owner = "arch"                                   -> handle_common_smc(plain, arg)
    [] owner = "psci" /\ w = "NonSecure"                -> handle_smc_inner(plain, arg)
    [] owner = "errata_management" /\ w = "NonSecure"   -> handle_errata_smc(plain, arg)
    [] owner = "trng"                                   -> handle_smc_common(plain, arg)
    [] owner = "rmmd" /\ w = "NonSecure"                -> handle_non_secure_rmi(f)
    [] owner = "spmd" \/ (owner = "rmmd" /\ w = "Realm") -> "Dispatcher"
    [] OTHER                                            -> "NotSupported"

(***************************************************************************)
(* Callers.                                                                *)
(***************************************************************************)
\* The discovery calls and the service each is about.
Queries ==
  [arch |-> SMCCC_ARCH_FEATURES, psci |-> Fid("Fast32", STANDARD_SECURE, \h0A),
   errata_management |-> EM_FEATURES, trng |-> ARM_TRNG_FEATURES]

\* The functions of each service, and a number next to them that has none.
Functions(s) ==
  CASE s = "arch" ->
         {SMCCC_VERSION, SMCCC_ARCH_FEATURES, Fid("Fast32", ARM_ARCHITECTURE, \h0003)}
           \cup SMCCC_ARCH_SOC_ID \cup {WORKAROUND(n) : n \in 1..4}
    [] s = "psci" -> PsciFids \cup {SMCCC_VERSION, Fid("Fast64", STANDARD_SECURE, \h0F)}
    [] s = "errata_management" -> EmFunctions \cup {EmFid(\h00F3)}
    [] s = "trng" -> TrngFunctions \cup {Fid("Fast64", STANDARD_SECURE, \h51)}

\* Functions that nothing discovers: RMI calls, and identifiers nobody serves.
Others ==
  {Fid("Fast64", STANDARD_SECURE, n) : n \in {\h150, \h169, \h160, \h1D0}}
    \cup {[SMCCC_VERSION EXCEPT !.reserved = TRUE], [SMCCC_VERSION EXCEPT !.type = "Yielding"]}

\* The platforms: FVP and QEMU, and one with every optional function.
Fvp ==
  [FEATURES |-> {"NODE_HW_STATE", "SYSTEM_SUSPEND", "OS_INITIATED_MODE"},
   implemented |-> {"node_hw_state", "sys_suspend_power_state", "power_domain_validate_suspend"}]
Qemu ==
  [FEATURES |-> {"OS_INITIATED_MODE"}, implemented |-> {"power_domain_validate_suspend"}]
Full ==
  [FEATURES |-> {check_optional_feature[name] : name \in DOMAIN check_optional_feature},
   implemented |-> {"system_off2", "system_reset2", "mem_protect", "mem_protect_check_range",
     "cpu_freeze", "cpu_default_suspend_power_state", "node_hw_state",
     "sys_suspend_power_state", "power_domain_validate_suspend"}]

Builds ==
  {[FEATURES |-> p.FEATURES, implemented |-> p.implemented, rme |-> with, trng |-> with,
    required |-> IF with THEN {1} ELSE {2, 3, 4}] : p \in {Fvp, Qemu, Full}, with \in BOOLEAN}

Nothing == [same |-> FALSE, answer |-> "Ok", plain |-> "Ok"]

\* A caller has a function in mind, and has not asked about it.
Intends(w, f) == [world |-> w, fid |-> f, about |-> "none", answer |-> "Ok"]

Init ==
  /\ build \in Builds
  /\ osi = FALSE /\ booted = FALSE
  /\ asked \in {Intends("NonSecure", f) :
                f \in Others \cup UNION {Functions(s) : s \in DOMAIN Queries}}
  /\ last = Nothing

\* EL3 runs on after every call but a panic and a call that stops the system.
Running == last.answer \notin {"Unimplemented", "Down"}

\* The RMM completes its cold boot.
RmmBoots ==
  /\ Running /\ build.rme /\ ~booted
  /\ booted' = TRUE
  /\ UNCHANGED <<build, osi, asked, last>>

\* World w asks service s about function f.
Discover(w, s, f) ==
  /\ Running /\ (w = "Realm" => build.rme)
  /\ asked' = [world |-> w, fid |-> f, about |-> s, answer |-> Answer(w, Queries[s], f)]
  /\ last' = Nothing
  /\ UNCHANGED <<build, osi, booted>>

\* The caller makes the call it has in mind, with or without the SVE hint.
Call(hint, arg) ==
  LET fid == [asked.fid EXCEPT !.sve = hint] IN
  /\ Running
  /\ last' = [same |-> TRUE, answer |-> Answer(asked.world, fid, arg),
              plain |-> Answer(asked.world, asked.fid, arg)]
  /\ UNCHANGED <<build, osi, booted, asked>>

\* PSCI_SET_SUSPEND_MODE, which another call may follow.
SetSuspendMode(mode) ==
  /\ Running
  /\ handle_smc_inner(Fid("Fast32", STANDARD_SECURE, \h0F), SMCCC_VERSION) = "Ok"
  /\ osi' = mode
  /\ last' = Nothing
  /\ UNCHANGED <<build, booted, asked>>

Next ==
  \/ RmmBoots
  \/ \E s \in DOMAIN Queries : \E f \in Functions(s), w \in World : Discover(w, s, f)
  \/ \E hint \in BOOLEAN, n \in 0..2 : Call(hint, Fid("Fast32", ARM_ARCHITECTURE, n))
  \/ \E mode \in BOOLEAN : SetSuspendMode(mode)

Spec == Init /\ [][Next]_dispatchVars

(***************************************************************************)
(* Properties.                                                             *)
(***************************************************************************)
\* ARCH_FEATURES says of WORKAROUND_4 whether the core needs it, the mitigation
\* is not a call; and the answer of a discovery call is about its argument.
DiscoveryOnly == {WORKAROUND(4)} \cup {Queries[s] : s \in DOMAIN Queries}

\* What a discovery call said of a function is what calling it does, in the same
\* world, whatever happened in between and with or without the SVE hint: a
\* function reported as supported is not answered NOT_SUPPORTED, one its own
\* service reports as missing is, and a workaround is performed where it was
\* reported as required.  The tables of handle_features, arch_features, features
\* and is_trng_fid are kept apart from the handlers they describe.
DiscoveryHolds ==
  last.same /\ asked.about # "none" /\ asked.fid \notin DiscoveryOnly =>
    /\ last.answer = "NotSupported" => asked.answer = "NotSupported"
    /\ asked.answer = "NotSupported" /\ Owner(asked.fid) = asked.about =>
         last.answer = "NotSupported"
    /\ (\E n \in 1..3 : asked.fid = WORKAROUND(n)) =>
         (asked.answer = "Ok" <=> last.answer = "Mitigated")

\* No sequence of calls reaches a default of PsciPlatformInterface that is
\* unimplemented!(): the FEATURES of a platform and the functions it implements
\* are in sync, and the suspend mode that needs one more function is only entered
\* where the platform has it.
NothingUnimplemented == last.answer # "Unimplemented"

\* "the implementation must disregard the SVE hint bit in the function ID and
\* consider it to be 0 for the purpose of function identification" (trait
\* Service, services.rs): a call is answered the same with and without it.
HintDisregarded == last.answer = last.plain
=============================================================================
