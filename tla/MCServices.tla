----------------------------- MODULE MCServices -----------------------------
(***************************************************************************)
(* The run loop and the services: a behaviour is about RunLoop, about the  *)
(* RMM's attestation calls, the dispatch of SMCs, the TRNG or the log.     *)
(* The variables of the parts it is not about do not change, and are 0     *)
(* except for those of RunLoop.                                            *)
(***************************************************************************)
EXTENDS RunLoop

VARIABLES part,
          idx, got, reading, touched, attest_answer,
          build, osi, booted, asked, last,
          entropy, entropy_bit_index, entropy_bit_size, call, answer, drawn,
          next_offset, logged_bytes_count, buffer, log

attest_vars == <<idx, got, reading, touched, attest_answer>>
smc_vars == <<build, osi, booted, asked, last>>
rng_vars == <<entropy, entropy_bit_index, entropy_bit_size, call, answer, drawn>>
log_vars == <<next_offset, logged_bytes_count, buffer, log>>

Attest == INSTANCE RmmAttest WITH
  START <- 2, SIZE <- 4, WORD <- 8, TOKEN <- 5, KEY <- 2, HASHES <- {1, 3},
  Reader <- Core, answer <- attest_answer
Smc == INSTANCE Dispatch
Rng == INSTANCE Trng WITH BITS_PER_WORD <- 4, REQ_WORDS <- 2
Log == INSTANCE MemoryLogger WITH BUFFER_SIZE <- 5, CharLen <- {1, 2, 4}, MaxChars <- 2

ASSUME AttestConstants == Attest!AttestAssumption

MCInit ==
  /\ part \in {"RunLoop", "Attest", "Smc", "Rng", "Log"}
  /\ Init
  /\ IF part = "Attest" THEN Attest!Init
       ELSE idx = 0 /\ got = 0 /\ reading = 0 /\ touched = 0 /\ attest_answer = 0
  /\ IF part = "Smc" THEN Smc!Init
       ELSE build = 0 /\ osi = 0 /\ booted = 0 /\ asked = 0 /\ last = 0
  /\ IF part = "Rng" THEN Rng!Init
       ELSE entropy = 0 /\ entropy_bit_index = 0 /\ entropy_bit_size = 0
            /\ call = 0 /\ answer = 0 /\ drawn = 0
  /\ IF part = "Log" THEN Log!Init
       ELSE next_offset = 0 /\ logged_bytes_count = 0 /\ buffer = 0 /\ log = 0

MCNext ==
  /\ UNCHANGED part
  /\ \/ part = "RunLoop" /\ Next
        /\ UNCHANGED <<attest_vars, smc_vars, rng_vars, log_vars>>
     \/ part = "Attest" /\ Attest!Next
        /\ UNCHANGED <<vars, smc_vars, rng_vars, log_vars>>
     \/ part = "Smc" /\ Smc!Next
        /\ UNCHANGED <<vars, attest_vars, rng_vars, log_vars>>
     \/ part = "Rng" /\ Rng!Next
        /\ UNCHANGED <<vars, attest_vars, smc_vars, log_vars>>
     \/ part = "Log" /\ Log!Next
        /\ UNCHANGED <<vars, attest_vars, smc_vars, rng_vars>>

MCSpec ==
  MCInit /\ [][MCNext]_<<part, vars, attest_vars, smc_vars, rng_vars, log_vars>>

\* The token reaches each reader whole, however the readers' calls interleave.
TokenWhole == part = "Attest" => Attest!TokenWhole

\* EL3 accesses nothing outside the buffer it shares with the RMM.
StaysInBuffer == part = "Attest" => Attest!StaysInBuffer

\* What a service advertises, it provides to the same caller, and nothing else.
DiscoveryHolds == part = "Smc" => Smc!DiscoveryHolds

\* No call reaches a platform function that is not implemented.
NothingUnimplemented == part = "Smc" => Smc!NothingUnimplemented

\* Each bit of entropy is held, and given out, once and in its place, also when
\* a call fails half-way.
EntropyOnce ==
  [][part = "Rng" => /\ Rng!GivesOutWhatItReturns
                     /\ Rng!PoolExact' /\ Rng!AnswerExact']_rng_vars

\* The log holds and shows the latest bytes, and whole characters only.
LogFaithful == part = "Log" => Log!HoldsTheTail /\ Log!ReadsWholeCharacters
=============================================================================
