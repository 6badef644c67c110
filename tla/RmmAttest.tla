----------------------------- MODULE RmmAttest -----------------------------
(***************************************************************************)
(* The calls of the RMM to EL3 other than boot and granules: decoding      *)
(* (rmmd/svc.rs) and the two attestation calls of rmmd.rs, which exchange  *)
(* keys and tokens through a shared buffer.  A platform token is handed    *)
(* out in hunks under one read index that all cores share, so the calls of *)
(* several cores interleave between the hunks of a token.                  *)
(***************************************************************************)
EXTENDS Integers, Sequences

CONSTANTS
  START, SIZE,   \* RMM_SHARED_BUFFER_START, RMM_SHARED_BUFFER_SIZE
  WORD,          \* addresses and sizes are 0..WORD-1
  TOKEN, KEY,    \* lengths of the platform's token and of its realm key
  HASHES,        \* VALID_HASH_SIZES
  Reader         \* cores of the RMM that fetch a token

VARIABLES
  idx,           \* attestation_token_read_index
  got,           \* the positions of the token each reader has collected
  reading,       \* readers that were told that more of their token remains
  touched,       \* what EL3 accessed on the last call
  answer         \* what the last call returned

\* The buffer lies within the address space, and a challenge is not empty.
AttestAssumption ==
  /\ START \in Nat /\ SIZE \in Nat /\ WORD \in Nat /\ START + SIZE <= WORD
  /\ TOKEN \in Nat \ {0} /\ KEY \in Nat
  /\ HASHES \subseteq Nat \ {0}

attestVars == <<idx, got, reading, touched, answer>>

SharedBuffer == START..(START + SIZE - 1)
Min(a, b) == IF a < b THEN a ELSE b
Max(a, b) == IF a > b THEN a ELSE b

\* A plausible slip: the end computed without the checks for overflow.
Wrapping(buf_pa, buf_size) ==
  IF buf_pa \notin SharedBuffer THEN "BadAddress"
  ELSE IF (buf_pa + buf_size + WORD - 1) % WORD \in SharedBuffer THEN "Ok" ELSE "InvalidValue"

\* buf_pa..buf_pa+buf_size is a subrange of the buffer.  checked_add and
\* checked_sub fail where the word would wrap.
check_shared_buffer_range(buf_pa, buf_size) ==
  IF buf_pa \notin SharedBuffer THEN "BadAddress"
  ELSE IF /\ buf_pa + buf_size \in 1..(WORD - 1)
          /\ buf_pa + buf_size - 1 \in SharedBuffer
       THEN "Ok" ELSE "InvalidValue"

(***************************************************************************)
(* RmmCall::from_regs: the functions, and the arguments that can be        *)
(* refused.  x is the sequence of the argument registers x1..x4.           *)
(***************************************************************************)
RmmFuncId ==
  {"RmiReqComplete", "GtsiDelegate", "GtsiUndelegate", "AttestGetRealmKey",
   "AttestGetPlatToken", "El3Features", "El3TokenSign", "MecRefresh", "IdeKeyProg",
   "IdeKeySetGo", "IdeKeySetStop", "IdeKmPullResponse", "ReserveMemory"}
EccCurve == {0}
El3TokenSignOpcode == 1..3

from_regs(fid, x) ==
  CASE fid \notin RmmFuncId -> "NotSupported"
    [] fid = "AttestGetRealmKey" /\ x[3] \notin EccCurve -> "InvalidValue"
    [] fid = "El3TokenSign" /\ (x[1] \notin El3TokenSignOpcode \/ x[4] \notin EccCurve) ->
         "InvalidValue"
    [] OTHER -> "Ok"

\* Calls whose handler is still todo!().
Todo == {"El3TokenSign", "IdeKeyProg", "IdeKeySetGo", "IdeKeySetStop",
         "IdeKmPullResponse", "ReserveMemory"}

Init ==
  /\ idx = 0
  /\ got = [r \in Reader |-> <<>>]
  /\ reading = {}
  /\ touched = {} /\ answer = "Ok"

\* No call follows a todo!(), which panics.
Running == answer # "Panic"

\* A call that is refused, or that is answered without the buffer.
Answered(a) ==
  /\ answer' = a
  /\ touched' = {}
  /\ UNCHANGED <<idx, got, reading>>

OtherCall(fid, x) ==
  /\ Running
  /\ fid \notin {"RmiReqComplete", "GtsiDelegate", "GtsiUndelegate",
                 "AttestGetRealmKey", "AttestGetPlatToken"}
  /\ Answered(CASE from_regs(fid, x) # "Ok" -> from_regs(fid, x)
                [] fid \in Todo             -> "Panic"
                [] fid = "El3Features"      -> "Ok"
                [] fid = "MecRefresh"       -> "NotSupported")

(***************************************************************************)
(* ATTEST_GET_REALM_KEY, with the platform's read_attestation_key.         *)
(***************************************************************************)
AttestGetRealmKey(buf_pa, buf_size, curve) ==
  LET decoded == from_regs("AttestGetRealmKey", <<buf_pa, buf_size, curve, 0>>)
      range == check_shared_buffer_range(buf_pa, buf_size) IN
  /\ Running
  /\ \/ decoded # "Ok" /\ Answered(decoded)
     \/ decoded = "Ok" /\ range # "Ok" /\ Answered(range)
     \/ decoded = "Ok" /\ range = "Ok" /\ buf_size < KEY /\ Answered("InvalidValue")
     \/ /\ decoded = "Ok" /\ range = "Ok" /\ buf_size >= KEY
        /\ touched' = buf_pa..(buf_pa + KEY - 1)
        /\ answer' = "Ok"
        /\ UNCHANGED <<idx, got, reading>>

(***************************************************************************)
(* ATTEST_GET_PLAT_TOKEN, under the lock of the read index.                *)
(***************************************************************************)
\* A plausible slip: a new challenge accepted in the middle of a token.
RefusedAtStart(c_size) == idx = 0 /\ c_size \notin HASHES

\* The challenge comes with the first hunk, and only with it.
Refused(c_size) ==
  \/ idx = 0 /\ c_size \notin HASHES
  \/ idx # 0 /\ c_size # 0

\* The size of the hunk from start_index, and what remains after it.
read_attestation_token(buf_size, start_index) ==
  LET hunk_size == Min(buf_size, TOKEN - start_index) IN
  [size |-> hunk_size, rem |-> TOKEN - (start_index + hunk_size)]

\* Reader r asks for a hunk.  The buffer holds the challenge, then the hunk.
AttestGetPlatToken(r, buf_pa, buf_size, c_size) ==
  LET range == check_shared_buffer_range(buf_pa, Max(buf_size, c_size))
      hunk == read_attestation_token(buf_size, idx)
      collected == [i \in 1..hunk.size |-> idx + i - 1] IN
  /\ Running
  /\ \/ Refused(c_size) /\ Answered("InvalidValue")
     \/ ~Refused(c_size) /\ range # "Ok" /\ Answered(range)
     \/ /\ ~Refused(c_size) /\ range = "Ok"
        /\ touched' = buf_pa..(buf_pa + Max(c_size, hunk.size) - 1)
        /\ idx' = IF hunk.rem > 0 THEN idx + hunk.size ELSE 0
        /\ got' = [got EXCEPT ![r] = IF r \in reading THEN @ \o collected ELSE collected]
        /\ reading' = IF hunk.rem > 0 /\ (hunk.size > 0 \/ r \in reading)
                      THEN reading \cup {r} ELSE reading \ {r}
        /\ answer' = "Ok"

\* The RMM: a reader that has part of a token asks on with no challenge, any
\* other one with a challenge.  Addresses and sizes are any words.
Size == 0..(WORD - 1)

Next ==
  \/ \E fid \in RmmFuncId \cup {"unknown"}, opcode \in 0..1, curve \in 0..1 :
       OtherCall(fid, <<opcode, 0, 0, curve>>)
  \/ \E buf_pa, buf_size \in Size, curve \in 0..1 : AttestGetRealmKey(buf_pa, buf_size, curve)
  \/ \E r \in Reader, buf_pa, buf_size, c_size \in Size :
       /\ (c_size = 0) = (r \in reading)
       /\ AttestGetPlatToken(r, buf_pa, buf_size, c_size)

Spec == Init /\ [][Next]_attestVars

(***************************************************************************)
(* Properties.                                                             *)
(***************************************************************************)
\* What a reader has collected is the token from its first byte on, without a
\* gap or a hunk of another reader's, and a reader that was told that nothing
\* remains has all of it; the read index is the length of the only token that is
\* being read.  The readers share attestation_token_read_index and nothing tells
\* EL3 which of them is calling.
TokenWhole ==
  /\ \A r \in Reader :
       /\ got[r] = [i \in 1..Len(got[r]) |-> i - 1]
       /\ r \in reading => Len(got[r]) = idx /\ idx > 0
       /\ r \notin reading => Len(got[r]) \in {0, TOKEN}
  /\ idx # 0 => \E r \in Reader : reading = {r}

\* EL3 accesses nothing outside the buffer it shares with the RMM, whatever
\* address and sizes the RMM passes: neither the challenge it reads nor the key
\* or the hunk it writes (check_shared_buffer_range, with the larger of the sizes).
StaysInBuffer == touched \subseteq SharedBuffer
=============================================================================
