------------------------------ MODULE RmmProofs ------------------------------
(***************************************************************************)
(* What EL3 does for the RMM.  Attestation, for every buffer, token, set   *)
(* of hash sizes and any number of readers: TokenWhole and StaysInBuffer.  *)
(* The granule transition service, for every size of the granule           *)
(* protection table and every number of cores: the caches are clean, a     *)
(* granule at rest is accessible to its owner only, and the handlers       *)
(* implement GranuleMap.  The argument there has three parts: an address   *)
(* is cut into indices that tell granules apart; so `set` changes the GPI  *)
(* of one granule; so each step of a call takes its granule one step       *)
(* further, and nobody else moves it.                                      *)
(***************************************************************************)
EXTENDS GranuleTransition, SequenceTheorems, TLAPS

CONSTANTS START, SIZE, WORD, TOKEN, KEY, HASHES, Reader

VARIABLES idx, got, reading, touched, attest_answer

Attest == INSTANCE RmmAttest WITH answer <- attest_answer

-----------------------------------------------------------------------------
(* Attestation.                                                            *)

\* The first n positions of the token.
Prefix(n) == [i \in 1..n |-> i - 1]

\* The inductive invariant: TokenWhole, with the types, and with got spelled out
\* as a prefix so that a step only has to say how long it is.
AttestInv ==
  /\ idx \in 0..(TOKEN - 1)
  /\ reading \subseteq Reader
  /\ got \in [Reader -> Seq(Nat)]
  /\ \A r \in Reader : \E n \in 0..TOKEN :
       /\ got[r] = Prefix(n)
       /\ r \in reading => n = idx /\ idx > 0
       /\ r \notin reading => n \in {0, TOKEN}
  /\ idx # 0 => \E r \in Reader : reading = {r}

\* A prefix is a sequence of that length.
LEMMA PrefixSeq ==
  ASSUME NEW n \in Nat
  PROVE  Prefix(n) \in Seq(Nat) /\ Len(Prefix(n)) = n
BY DEF Prefix

\* A prefix, and the hunk that starts where it ends: read_attestation_token goes
\* on at the index that the hunks so far add up to.
LEMMA PrefixGrows ==
  ASSUME NEW m \in Nat, NEW k \in Nat
  PROVE  Prefix(m) \o [i \in 1..k |-> m + i - 1] = Prefix(m + k)
BY DEF Prefix

\* The hunk that read_attestation_token returns.
LEMMA Hunk ==
  ASSUME Attest!AttestAssumption, idx \in 0..(TOKEN - 1), NEW buf_size \in Nat,
         NEW hunk, hunk = Attest!read_attestation_token(buf_size, idx)
  PROVE  /\ hunk.size \in 0..(TOKEN - idx) /\ hunk.size <= buf_size
         /\ hunk.rem = TOKEN - (idx + hunk.size)
BY DEF Attest!AttestAssumption, Attest!read_attestation_token, Attest!Min

\* AttestInv holds initially.
LEMMA AttestInit == Attest!AttestAssumption /\ Attest!Init => AttestInv
<1> SUFFICES ASSUME Attest!AttestAssumption, Attest!Init PROVE AttestInv
  OBVIOUS
<1>1. Prefix(0) = <<>>
  BY DEF Prefix
<1> QED
  BY <1>1 DEF AttestInv, Attest!Init, Attest!AttestAssumption

\* A refused call, and every call other than ATTEST_GET_PLAT_TOKEN, leaves the
\* token alone.
LEMMA AttestOther ==
  ASSUME AttestInv, UNCHANGED <<idx, got, reading>>
  PROVE  AttestInv'
BY DEF AttestInv

\* ATTEST_GET_PLAT_TOKEN hands out the next hunk.
LEMMA AttestToken ==
  ASSUME Attest!AttestAssumption, AttestInv,
         NEW r \in Reader, NEW buf_pa \in Attest!Size, NEW buf_size \in Attest!Size, NEW c_size \in Attest!Size,
         (c_size = 0) = (r \in reading),
         Attest!AttestGetPlatToken(r, buf_pa, buf_size, c_size)
  PROVE  AttestInv'
<1> DEFINE hunk == Attest!read_attestation_token(buf_size, idx)
           collected == [i \in 1..hunk.size |-> idx + i - 1]
<1>1. CASE Attest!Refused(c_size) \/ Attest!check_shared_buffer_range(buf_pa, Attest!Max(buf_size, c_size)) # "Ok"
  BY <1>1, AttestOther DEF Attest!AttestGetPlatToken, Attest!Answered
<1>2. CASE /\ ~Attest!Refused(c_size)
           /\ Attest!check_shared_buffer_range(buf_pa, Attest!Max(buf_size, c_size)) = "Ok"
  <2>1. /\ idx' = IF hunk.rem > 0 THEN idx + hunk.size ELSE 0
        /\ got' = [got EXCEPT ![r] = IF r \in reading THEN @ \o collected ELSE collected]
        /\ reading' = IF hunk.rem > 0 /\ (hunk.size > 0 \/ r \in reading)
                      THEN reading \cup {r} ELSE reading \ {r}
    BY <1>2, ZenonT(40) DEF Attest!AttestGetPlatToken
  <2>2. buf_size \in Nat /\ c_size \in Nat
    BY DEF Attest!Size, Attest!AttestAssumption
  <2>3. /\ hunk.size \in 0..(TOKEN - idx)
        /\ hunk.rem = TOKEN - (idx + hunk.size)
    BY <2>2, Hunk DEF AttestInv
  <2>4. TOKEN \in Nat /\ TOKEN > 0 /\ idx \in Nat /\ idx < TOKEN
    BY DEF AttestInv, Attest!AttestAssumption
  <2>5. reading = IF idx = 0 THEN {} ELSE {r}
    <3>1. CASE idx = 0
      BY <3>1 DEF AttestInv
    <3>2. CASE idx # 0
      <4>1. c_size = 0
        BY <3>2, <1>2 DEF Attest!Refused
      <4>2. PICK q \in Reader : reading = {q}
        BY <3>2 DEF AttestInv
      <4> QED
        BY <3>2, <4>1, <4>2
    <3> QED
      BY <3>1, <3>2
  <2>6. \A q \in Reader : \E n \in 0..TOKEN :
          /\ got[q] = Prefix(n)
          /\ q \in reading => n = idx /\ idx > 0
          /\ q \notin reading => n \in {0, TOKEN}
    BY DEF AttestInv
  <2>7. got'[r] = Prefix(idx + hunk.size)
    <3>1. got'[r] = IF r \in reading THEN got[r] \o collected ELSE collected
      BY <2>1 DEF AttestInv
    <3>2. Prefix(idx) \o collected = Prefix(idx + hunk.size)
      <4>1. idx \in Nat /\ hunk.size \in Nat
        BY <2>3, <2>4
      <4> QED
        BY ONLY <4>1, PrefixGrows, Zenon
    <3>3. CASE r \in reading
      BY <3>1, <3>2, <3>3, <2>6, ZenonT(40)
    <3>4. CASE r \notin reading
      <4>1. idx = 0
        BY <3>4, <2>5
      <4>2. collected = Prefix(idx + hunk.size)
        BY <4>1, <2>3 DEF Prefix
      <4> QED
        BY <4>2, <3>1, <3>4
    <3> QED
      BY <3>3, <3>4
  <2>8. idx' \in 0..(TOKEN - 1) /\ reading' \subseteq Reader
    BY <2>1, <2>3, <2>4, <2>5, SMTT(40)
  <2>9. got' \in [Reader -> Seq(Nat)]
    <3>1. Prefix(idx + hunk.size) \in Seq(Nat)
      <4>1. idx + hunk.size \in Nat
        BY <2>3, <2>4
      <4> QED
        BY ONLY <4>1, PrefixSeq, Zenon
    <3> QED
      BY <3>1, <2>1, <2>7, ZenonT(40) DEF AttestInv
  <2>10. ASSUME NEW q \in Reader
         PROVE  \E n \in 0..TOKEN :
                  /\ got'[q] = Prefix(n)
                  /\ q \in reading' => n = idx' /\ idx' > 0
                  /\ q \notin reading' => n \in {0, TOKEN}
    <3>1. CASE q = r
      <4>1. idx + hunk.size \in 0..TOKEN
        BY <2>3, <2>4
      <4>2. /\ r \in reading' => idx + hunk.size = idx' /\ idx' > 0
            /\ r \notin reading' => idx + hunk.size \in {0, TOKEN}
        BY <2>1, <2>3, <2>4, <2>5
      <4> QED
        BY <3>1, <4>1, <4>2, <2>7
    <3>2. CASE q # r
      <4>1. got'[q] = got[q] /\ q \notin reading /\ q \notin reading'
        BY <3>2, <2>1, <2>5 DEF AttestInv
      <4> QED
        BY <4>1, <2>6
    <3> QED
      BY <3>1, <3>2
  <2>11. idx' # 0 => reading' = {r}
    BY <2>1, <2>3, <2>4, <2>5
  <2> QED
    BY <2>8, <2>9, <2>10, <2>11 DEF AttestInv
<1> QED
  BY <1>1, <1>2

\* AttestInv is inductive.
LEMMA AttestStep ==
  ASSUME Attest!AttestAssumption, AttestInv, [Attest!Next]_Attest!attestVars
  PROVE  AttestInv'
<1>1. CASE UNCHANGED Attest!attestVars
  BY <1>1, AttestOther DEF Attest!attestVars
<1>2. ASSUME NEW fid, NEW x, Attest!OtherCall(fid, x) PROVE AttestInv'
  BY <1>2, AttestOther DEF Attest!OtherCall, Attest!Answered
<1>3. ASSUME NEW buf_pa, NEW buf_size, NEW curve, Attest!AttestGetRealmKey(buf_pa, buf_size, curve)
      PROVE  AttestInv'
  BY <1>3, AttestOther DEF Attest!AttestGetRealmKey, Attest!Answered
<1>4. ASSUME NEW r \in Reader, NEW buf_pa \in Attest!Size, NEW buf_size \in Attest!Size, NEW c_size \in Attest!Size,
             (c_size = 0) = (r \in reading), Attest!AttestGetPlatToken(r, buf_pa, buf_size, c_size)
      PROVE  AttestInv'
  BY <1>4, AttestToken
<1> QED
  BY <1>1, <1>2, <1>3, <1>4 DEF Attest!Next

\* AttestInv says what TokenWhole says.
LEMMA AttestImplies == Attest!AttestAssumption /\ AttestInv => Attest!TokenWhole
<1> SUFFICES ASSUME Attest!AttestAssumption, AttestInv PROVE Attest!TokenWhole
  OBVIOUS
<1>1. ASSUME NEW r \in Reader
      PROVE  /\ got[r] = [i \in 1..Len(got[r]) |-> i - 1]
             /\ r \in reading => Len(got[r]) = idx /\ idx > 0
             /\ r \notin reading => Len(got[r]) \in {0, TOKEN}
  <2>1. PICK n \in 0..TOKEN :
          /\ got[r] = Prefix(n)
          /\ r \in reading => n = idx /\ idx > 0
          /\ r \notin reading => n \in {0, TOKEN}
    BY DEF AttestInv
  <2>2. Len(got[r]) = n
    BY <2>1, PrefixSeq DEF Attest!AttestAssumption
  <2>3. got[r] = [i \in 1..Len(got[r]) |-> i - 1]
    BY <2>1, <2>2 DEF Prefix
  <2> QED
    BY <2>1, <2>2, <2>3
<1> QED
  BY <1>1 DEF Attest!TokenWhole, AttestInv

-----------------------------------------------------------------------------
(* The theorems.                                                           *)

\* Every reader of a platform token gets it whole, for every number of readers and
\* every interleaving of their calls of ATTEST_GET_PLAT_TOKEN: the refusal of a
\* challenge in the middle of a token is all the protection the shared index needs
\* from an RMM whose readers ask on until their token is complete.
THEOREM TokensAlwaysWhole ==
  ASSUME Attest!AttestAssumption PROVE Attest!Spec => []Attest!TokenWhole
<1>1. Attest!Init => AttestInv
  BY AttestInit
<1>2. AttestInv /\ [Attest!Next]_Attest!attestVars => AttestInv'
  BY AttestStep
<1>3. AttestInv => Attest!TokenWhole
  BY AttestImplies
<1> QED
  BY <1>1, <1>2, <1>3, PTL DEF Attest!Spec

\* What the range check admits lies in the buffer, for all words.
LEMMA RangeInBuffer ==
  ASSUME Attest!AttestAssumption, NEW buf_pa \in Nat, NEW buf_size \in Nat,
         Attest!check_shared_buffer_range(buf_pa, buf_size) = "Ok", NEW n \in Int, n <= buf_size
  PROVE  buf_pa..(buf_pa + n - 1) \subseteq Attest!SharedBuffer
BY DEF Attest!AttestAssumption, Attest!check_shared_buffer_range, Attest!SharedBuffer

\* EL3 stays within the shared buffer for every address and size the RMM passes,
\* wherever the buffer lies (check_shared_buffer_range before the challenge is read
\* and before the key or the hunk is written).
THEOREM AlwaysInBuffer ==
  ASSUME Attest!AttestAssumption PROVE Attest!Spec => []Attest!StaysInBuffer
<1> DEFINE Inv == Attest!StaysInBuffer /\ idx \in 0..(TOKEN - 1)
<1>1. Attest!Init => Inv
  BY DEF Attest!Init, Attest!StaysInBuffer, Attest!AttestAssumption
<1>2. Inv /\ [Attest!Next]_Attest!attestVars => Inv'
  <2> SUFFICES ASSUME Inv, [Attest!Next]_Attest!attestVars PROVE Inv'
    OBVIOUS
  <2>1. CASE UNCHANGED Attest!attestVars
    BY <2>1 DEF Attest!attestVars, Attest!StaysInBuffer
  <2>2. ASSUME NEW fid, NEW x, Attest!OtherCall(fid, x) PROVE Inv'
    BY <2>2 DEF Attest!OtherCall, Attest!Answered, Attest!StaysInBuffer
  <2>3. ASSUME NEW buf_pa \in Attest!Size, NEW buf_size \in Attest!Size, NEW curve,
               Attest!AttestGetRealmKey(buf_pa, buf_size, curve)
        PROVE  Inv'
    <3>1. buf_pa \in Nat /\ buf_size \in Nat /\ KEY \in Int
      BY DEF Attest!Size, Attest!AttestAssumption
    <3>2. CASE touched' = {} /\ UNCHANGED idx
      BY <3>2 DEF Attest!StaysInBuffer
    <3>3. CASE /\ Attest!check_shared_buffer_range(buf_pa, buf_size) = "Ok" /\ buf_size >= KEY
               /\ touched' = buf_pa..(buf_pa + KEY - 1) /\ UNCHANGED idx
      <4>1. KEY <= buf_size
        BY <3>1, <3>3, SMTT(40)
      <4> QED
        BY <3>1, <3>3, <4>1, RangeInBuffer DEF Attest!StaysInBuffer
    <3> QED
      BY <2>3, <3>2, <3>3 DEF Attest!AttestGetRealmKey, Attest!Answered
  <2>4. ASSUME NEW r \in Reader, NEW buf_pa \in Attest!Size, NEW buf_size \in Attest!Size,
               NEW c_size \in Attest!Size, Attest!AttestGetPlatToken(r, buf_pa, buf_size, c_size)
        PROVE  Inv'
    <3> DEFINE hunk == Attest!read_attestation_token(buf_size, idx)
               n == Attest!Max(c_size, hunk.size)
    <3>1. buf_pa \in Nat /\ buf_size \in Nat /\ c_size \in Nat /\ TOKEN \in Nat
      BY DEF Attest!Size, Attest!AttestAssumption
    <3>2. /\ hunk.size \in 0..(TOKEN - idx) /\ hunk.size <= buf_size
          /\ hunk.rem = TOKEN - (idx + hunk.size)
      BY <3>1, Hunk
    <3>3. CASE touched' = {} /\ UNCHANGED idx
      BY <3>3 DEF Attest!StaysInBuffer
    <3>4. CASE /\ Attest!check_shared_buffer_range(buf_pa, Attest!Max(buf_size, c_size)) = "Ok"
               /\ touched' = buf_pa..(buf_pa + n - 1)
               /\ idx' = IF hunk.rem > 0 THEN idx + hunk.size ELSE 0
      <4>1. Attest!Max(buf_size, c_size) \in Nat /\ n \in Int /\ n <= Attest!Max(buf_size, c_size)
        BY <3>1, <3>2 DEF Attest!Max
      <4>2. touched' \subseteq Attest!SharedBuffer
        BY <3>1, <3>4, <4>1, RangeInBuffer, SMTT(40)
      <4>3. idx' \in 0..(TOKEN - 1)
        BY <3>1, <3>2, <3>4, SMTT(40) DEF Attest!AttestAssumption
      <4> QED
        BY <4>2, <4>3 DEF Attest!StaysInBuffer, Attest!SharedBuffer
    <3> QED
      BY <2>4, <3>3, <3>4 DEF Attest!AttestGetPlatToken, Attest!Answered
  <2> QED
    BY <2>1, <2>2, <2>3, <2>4 DEF Attest!Next
<1> QED
  BY <1>1, <1>2, PTL DEF Attest!Spec

-----------------------------------------------------------------------------
(* Granules.                                                               *)

\* Leaves that name no prover go to Zenon, then to the SMT solver.
USE ZenonT(40), SMTT(40)

-----------------------------------------------------------------------------
(* Addresses.                                                              *)

\* Multiplication keeps the order.
LEMMA Monotonic ==
  ASSUME NEW n \in Nat, NEW x \in Nat, NEW y \in Nat, x <= y
  PROVE  n * x <= n * y
BY SMT

\* What \div and % return.
LEMMA Division ==
  ASSUME NEW a \in Nat, NEW n \in Nat \ {0}
  PROVE  /\ a \div n \in Nat /\ a % n \in Nat /\ a % n < n
         /\ a = n * (a \div n) + (a % n)
BY SMT

\* The same, naming the quotient and the remainder.
LEMMA Quotient ==
  ASSUME NEW a \in Nat, NEW n \in Nat \ {0}
  PROVE  \E q \in Nat : \E r \in Nat : r < n /\ a = n * q + r /\ a % n = r
<1>1. \E r \in Nat : r < n /\ a = n * (a \div n) + r /\ a % n = r
  BY Division
<1> QED
  BY <1>1, Division

\* Quotient and remainder are the only such numbers.
LEMMA DivisionUnique ==
  ASSUME NEW a \in Nat, NEW n \in Nat \ {0}, NEW q \in Nat, NEW r \in Nat,
         r < n, a = n * q + r
  PROVE  a \div n = q /\ a % n = r
<1>1. PICK Q \in Nat, R \in Nat :
        R < n /\ a = n * Q + R /\ Q = a \div n /\ R = a % n
  BY Division
<1>2. CASE Q < q
  <2>1. n * (Q + 1) <= n * q
    BY <1>2, SMT
  <2> QED
    BY <1>1, <2>1, SMT
<1>3. CASE q < Q
  <2>1. n * (q + 1) <= n * Q
    BY <1>3, SMT
  <2> QED
    BY <1>1, <2>1, SMT
<1>4. CASE Q = q
  BY <1>1, <1>4, SMT
<1> QED
  BY <1>1, <1>2, <1>3, <1>4, SMT

\* A granule number is a level 0 index a, a level 1 index b and a field f, and
\* the bit ranges that the table walk takes from the granule's address are
\* these (P bytes per granule, F fields, R entries per table, S tables).
CutAs(P, F, R, S, g) ==
  \E a \in 0 .. (S - 1), b \in 0 .. (R - 1), f \in 0 .. (F - 1) :
    /\ g = F * (R * a + b) + f
    /\ (g * P) \div ((P * F) * R) = a
    /\ ((g * P) % ((P * F) * R)) \div (P * F) = b
    /\ ((g * P) \div P) % F = f

\* The numbers of the granules that the table covers are cut in this way.
LEMMA CutNumber ==
  ASSUME NEW P \in Nat \ {0}, NEW F \in Nat \ {0}, NEW R \in Nat \ {0},
         NEW S \in Nat, NEW g \in Nat, g * P < ((P * F) * R) * S
  PROVE  CutAs(P, F, R, S, g)
<1>1. PICK k \in Nat, f \in Nat : f < F /\ g = F * k + f /\ g % F = f
  BY Quotient
<1>2. PICK a \in Nat, b \in Nat : b < R /\ k = R * a + b
  <2>1. \E q \in Nat : \E r \in Nat : r < R /\ k = R * q + r /\ k % R = r
    BY Quotient
  <2> QED
    BY <2>1
<1> DEFINE Q == P * F
           Z == Q * R
           low == Q * b + P * f
<1>3. Q \in Nat \ {0} /\ Q = P * F
  BY SMT
<1>4. Z \in Nat \ {0} /\ Z = Q * R
  BY <1>3, SMT
<1>5. P * f \in Nat /\ P * f < Q
  <2>1. P * (f + 1) <= P * F
    BY <1>1, Monotonic, SMT
  <2> QED
    BY <2>1, <1>3, SMT
<1>6. low \in Nat /\ low = Q * b + P * f /\ low < Z
  <2>1. Q * (b + 1) <= Q * R
    BY <1>2, <1>3, Monotonic, SMT
  <2>2. Q * (b + 1) = Q * b + Q
    BY <1>2, <1>3, SMT
  <2> QED
    BY <2>1, <2>2, <1>2, <1>3, <1>4, <1>5, SMT
<1>7. g * P = Z * a + low
  <2>1. g * P = (F * (R * a + b)) * P + f * P
    BY <1>1, <1>2, SMT
  <2>2. (F * (R * a + b)) * P = ((P * F) * R) * a + (P * F) * b
    BY <1>2, SMT
  <2>3. f * P = P * f
    BY <1>1, SMT
  <2> QED
    BY <2>1, <2>2, <2>3
<1>8. g * P \in Nat /\ g * P < Z * S
  BY SMT
<1> HIDE DEF Z, low, Q
<1>9. (g * P) \div Z = a /\ (g * P) % Z = low
  <2>1. PICK pa \in Nat : pa = g * P
    BY <1>8
  <2>2. pa = Z * a + low
    BY <2>1, <1>7
  <2>3. pa \div Z = a /\ pa % Z = low
    BY <2>2, <1>4, <1>6, DivisionUnique
  <2> QED
    BY <2>1, <2>3
<1>10. low \div Q = b
  BY <1>2, <1>3, <1>5, <1>6, DivisionUnique, SMTT(60)
<1>11. (g * P) \div P = g
  <2>1. g * P = P * g + 0
    BY SMT
  <2> QED
    BY <2>1, <1>8, DivisionUnique, SMTT(60)
<1>12. a < S
  <2>1. SUFFICES ASSUME S <= a PROVE FALSE
    BY <1>2, SMT
  <2>2. Z * S <= Z * a
    BY <2>1, <1>2, <1>4, Monotonic
  <2> QED
    BY <2>2, <1>2, <1>4, <1>6, <1>7, <1>8, SMT
<1>13. a \in 0 .. (S - 1) /\ b \in 0 .. (R - 1) /\ f \in 0 .. (F - 1)
  BY <1>1, <1>2, <1>12, SMT
<1> QED
  BY <1>1, <1>2, <1>9, <1>10, <1>11, <1>13 DEF Z, Q, CutAs

\* The indices of granule g, and that they make up its number.
Indexed(g) ==
  LET a == l0_resolve(GranuleBase(g))
      b == l1_resolve(GranuleBase(g))
      f == granule_resolve(GranuleBase(g))
  IN  /\ a \in L0Index /\ b \in L1Index /\ f \in Field
      /\ g = 2 ^ FIELD_BITS * (2 ^ (L0GPTSZ - (PGS + FIELD_BITS)) * a + b) + f

\* Every granule has an address in the table's range and indices of its own.
LEMMA Cut ==
  ASSUME NEW g \in Granule
  PROVE  /\ GranuleBase(g) \in Nat /\ ~(GranuleBase(g) >= 2 ^ PPS)
         /\ GranuleOf(GranuleBase(g)) = g
         /\ Indexed(g)
<1>1. PICK P \in Nat \ {0} : P = 2 ^ PGS
  BY SizeAssumption
<1>2. PICK F \in Nat \ {0} : F = 2 ^ FIELD_BITS
  BY SizeAssumption
<1>3. PICK R \in Nat \ {0} : R = 2 ^ (L0GPTSZ - (PGS + FIELD_BITS))
  BY SizeAssumption
<1>4. PICK S \in Nat \ {0} : S = 2 ^ (PPS - L0GPTSZ)
  BY SizeAssumption
<1>5. /\ 2 ^ (PGS + FIELD_BITS) = P * F /\ 2 ^ L0GPTSZ = (P * F) * R
      /\ 2 ^ PPS = ((P * F) * R) * S /\ 2 ^ PPS = P * 2 ^ (PPS - PGS)
  BY <1>1, <1>2, <1>3, <1>4, SizeAssumption
<1>6. PICK T \in Nat : T = ((P * F) * R) * S
  BY SMT
<1>7. g \in Nat /\ g * P \in Nat /\ g * P < T
  <2>1. PICK G : G = 2 ^ (PPS - PGS)
    OBVIOUS
  <2>2. T = P * G /\ g \in 0 .. (G - 1)
    BY <2>1, <1>5, <1>6 DEF Granule
  <2>3. G \in Int
    BY <2>1, SizeAssumption
  <2>4. g \in Nat /\ G \in Nat /\ g + 1 <= G
    BY <2>2, <2>3, SMT
  <2>5. P * (g + 1) <= P * G
    BY <2>4, Monotonic, SMT
  <2>6. P * (g + 1) = g * P + P
    BY <2>4, SMT
  <2>7. g * P \in Nat
    BY <2>4, SMT
  <2> QED
    BY <2>2, <2>4, <2>5, <2>6, <2>7, <1>6, SMTT(40)
<1>8. PICK a \in 0 .. (S - 1), b \in 0 .. (R - 1), f \in 0 .. (F - 1) :
        /\ g = F * (R * a + b) + f
        /\ (g * P) \div ((P * F) * R) = a
        /\ ((g * P) % ((P * F) * R)) \div (P * F) = b
        /\ ((g * P) \div P) % F = f
  <2>1. g * P < ((P * F) * R) * S /\ g \in Nat /\ S \in Nat
    BY <1>6, <1>7
  <2>2. CutAs(P, F, R, S, g)
    BY <2>1, CutNumber
  <2> QED
    BY <2>2 DEF CutAs
<1>9. (g * P) \div P = g
  <2>1. PICK pa \in Nat : pa = g * P
    BY <1>7
  <2>2. pa = P * g + 0
    BY <2>1, <1>7, SMT
  <2>3. pa \div P = g
    BY <2>2, <1>7, DivisionUnique, SMT
  <2> QED
    BY <2>1, <2>3
<1>10. (g * P) % T = g * P
  <2>1. PICK pa \in Nat : pa = g * P
    BY <1>7
  <2>2. T \in Nat \ {0} /\ pa < T /\ pa = T * 0 + pa
    BY <2>1, <1>6, <1>7, SMT
  <2>3. pa % T = pa
    BY <2>2, DivisionUnique, SMT
  <2> QED
    BY <2>1, <2>3
<1>11. GranuleBase(g) = g * P
  BY <1>1 DEF GranuleBase, PgsSize
<1>12. GranuleOf(GranuleBase(g)) = g
  BY <1>1, <1>9, <1>11 DEF GranuleOf, PgsSize
<1>13. l0_resolve(GranuleBase(g)) = a
  BY <1>5, <1>6, <1>8, <1>10, <1>11 DEF l0_resolve
<1>14. l1_resolve(GranuleBase(g)) = b
  BY <1>5, <1>8, <1>11 DEF l1_resolve
<1>15. granule_resolve(GranuleBase(g)) = f
  BY <1>1, <1>2, <1>8, <1>11 DEF granule_resolve
<1>16. Indexed(g)
  BY <1>2, <1>3, <1>4, <1>8, <1>13, <1>14, <1>15
  DEF Indexed, L0Index, L1Index, Field
<1>17. ~(GranuleBase(g) >= 2 ^ PPS)
  <2>1. 2 ^ PPS = T
    BY <1>5, <1>6
  <2> QED
    BY <2>1, <1>6, <1>7, <1>11, SMT
<1> QED
  BY <1>7, <1>11, <1>12, <1>16, <1>17

\* Granules with the same indices are the same.
LEMMA Apart ==
  ASSUME NEW g \in Granule, NEW h \in Granule,
         l0_resolve(GranuleBase(g)) = l0_resolve(GranuleBase(h)),
         l1_resolve(GranuleBase(g)) = l1_resolve(GranuleBase(h)),
         granule_resolve(GranuleBase(g)) = granule_resolve(GranuleBase(h))
  PROVE  g = h
<1>1. Indexed(g) /\ Indexed(h)
  BY Cut
<1> QED
  BY <1>1, Zenon DEF Indexed

\* An aligned address in the table's range is the base of a granule.
LEMMA Aligned ==
  ASSUME NEW pa \in Nat, pa % PgsSize = 0, ~(pa >= 2 ^ PPS)
  PROVE  GranuleOf(pa) \in Granule /\ pa = GranuleBase(GranuleOf(pa))
<1>1. PICK P \in Nat \ {0} : P = 2 ^ PGS
  BY SizeAssumption
<1>2. PICK G \in Nat \ {0} : G = 2 ^ (PPS - PGS)
  BY SizeAssumption
<1>3. 2 ^ PPS = P * G
  BY <1>1, <1>2, SizeAssumption
<1>4. PICK q : q = pa \div P
  OBVIOUS
<1>5. pa % P = 0
  BY <1>1 DEF PgsSize
<1>6. q \in Nat /\ pa = P * q + (pa % P)
  BY <1>4, Division
<1>7. pa = q * P /\ pa = P * q
  BY <1>5, <1>6, SMT
<1>8. q < G
  <2>1. SUFFICES ASSUME G <= q PROVE FALSE
    BY <1>6, SMT
  <2>2. P * G <= P * q
    BY <2>1, <1>6, Monotonic
  <2>3. PICK T \in Nat : T = P * G
    BY SMT
  <2>4. ~(pa >= T) /\ T <= pa
    BY <2>2, <2>3, <1>3, <1>7
  <2> QED
    BY <2>3, <2>4, SMT
<1>9. q \in 0 .. (G - 1)
  BY <1>6, <1>8, SMT
<1> QED
  BY <1>1, <1>2, <1>4, <1>7, <1>9 DEF Granule, GranuleOf, GranuleBase, PgsSize

-----------------------------------------------------------------------------
(* The table.                                                              *)

\* GPIs are nibbles, and none of them is the mark of a contiguous descriptor
\* or an error.
LEMMA Gpis ==
  /\ GPIAccessType \subseteq Nibble /\ 1 \notin GPIAccessType
  /\ InvalidEntry \notin GPIAccessType /\ InvalidRequest \notin GPIAccessType
  /\ Ok # InvalidEntry /\ Ok # InvalidRequest
  /\ PAS \subseteq GPIAccessType /\ NoAccess \in GPIAccessType
  /\ NoAccess \notin PAS /\ NonSecure # Realm
BY SMT DEF GPIAccessType, Nibble, NoAccess, Secure, NonSecure, Root, Realm, Any,
           InvalidEntry, InvalidRequest, Ok, PAS

\* A descriptor has a first and a second field.
LEMMA FirstFields == 0 \in Field /\ 1 \in Field
<1>1. PICK F \in Nat \ {0, 1} : F = 2 ^ FIELD_BITS
  BY SizeAssumption
<1> QED
  BY <1>1, SMT DEF Field

\* The walk from the address of a granule stays in the tables.
LEMMA Walk ==
  ASSUME GptTypeOK, NEW g \in Granule
  PROVE  /\ l0_resolve(GranuleBase(g)) \in L0Index
         /\ L0Entry(GranuleBase(g)).table \in L0Index
         /\ l1_resolve(GranuleBase(g)) \in L1Index
         /\ granule_resolve(GranuleBase(g)) \in Field
         /\ L1Entry(GranuleBase(g)) \in Level1Descriptor
<1>1. /\ l0_resolve(GranuleBase(g)) \in L0Index
      /\ l1_resolve(GranuleBase(g)) \in L1Index
      /\ granule_resolve(GranuleBase(g)) \in Field
  BY Cut DEF Indexed
<1>2. L0Entry(GranuleBase(g)) \in Level0Descriptor
  BY <1>1, GptAssumption DEF L0Entry
<1>3. L0Entry(GranuleBase(g)).table \in L0Index
  BY <1>2 DEF Level0Descriptor
<1>4. l1 \in [L0Index -> [L1Index -> Level1Descriptor]]
  BY DEF GptTypeOK, ProgrammedCorrectly
<1>5. L1Entry(GranuleBase(g)) \in Level1Descriptor
  BY <1>1, <1>3, <1>4 DEF L1Entry
<1> QED
  BY <1>1, <1>3, <1>5

\* In a table that is programmed correctly every granule has a GPI.
LEMMA EveryGpi ==
  ASSUME GptTypeOK, NEW g \in Granule
  PROVE  Gpi[g] \in GPIAccessType
<1>1. Gpi[g] = lookup(GranuleBase(g))
  BY DEF Gpi
<1>2. ~(GranuleBase(g) >= 2 ^ PPS)
  BY Cut
<1>3. PICK pa : pa = GranuleBase(g)
  OBVIOUS
<1>4. \/ is_table(L0Entry(pa))
      \/ is_block(L0Entry(pa)) /\ L0Entry(pa).gpi \in GPIAccessType
  BY <1>3, Walk, BootAssumption DEF L0Entry
<1>5. \/ is_contig(L1Entry(pa)) /\ L1Entry(pa)[1] \in GPIAccessType
      \/ \A f \in Field : L1Entry(pa)[f] \in GPIAccessType
  BY <1>3, Walk DEF L1Entry, GptTypeOK, ProgrammedCorrectly
<1>6. granule_resolve(pa) \in Field
  BY <1>3, Walk
<1>7. CASE is_block(L0Entry(pa))
  <2>1. L0Entry(pa).gpi \in GPIAccessType
    BY <1>4, <1>7, SMT DEF is_block, is_table
  <2> QED
    BY <1>1, <1>2, <1>3, <1>7, <2>1 DEF lookup, AsGpi
<1>8. CASE ~is_block(L0Entry(pa))
  <2>1. is_table(L0Entry(pa))
    BY <1>4, <1>8
  <2>2. CASE is_contig(L1Entry(pa))
    <3>1. L1Entry(pa)[1] \in GPIAccessType
      BY <1>5, FirstFields
    <3> QED
      BY <1>1, <1>2, <1>3, <1>8, <2>1, <2>2, <3>1 DEF lookup, AsGpi
  <2>3. CASE ~is_contig(L1Entry(pa))
    <3>1. /\ is_granule(L1Entry(pa))
          /\ L1Entry(pa)[granule_resolve(pa)] \in GPIAccessType
      BY <1>5, <1>6, <2>3, FirstFields DEF is_granule
    <3> QED
      BY <1>1, <1>2, <1>3, <1>8, <2>1, <2>3, <3>1 DEF lookup, AsGpi
  <2> QED
    BY <2>2, <2>3
<1> QED
  BY <1>7, <1>8

\* A granule that `set` accepts is in a table, in a row of single granules.
LEMMA Settable ==
  ASSUME GptTypeOK, NEW g \in Granule, set_result(GranuleBase(g)) = Ok
  PROVE  /\ is_table(L0Entry(GranuleBase(g)))
         /\ ~is_block(L0Entry(GranuleBase(g)))
         /\ \A f \in Field : L1Entry(GranuleBase(g))[f] \in GPIAccessType
<1>1. PICK pa : pa = GranuleBase(g)
  OBVIOUS
<1>2. /\ is_table(L0Entry(pa)) /\ ~is_block(L0Entry(pa))
      /\ ~is_contig(L1Entry(pa))
  BY <1>1, Gpis DEF set_result
<1>3. \/ is_contig(L1Entry(pa)) /\ L1Entry(pa)[1] \in GPIAccessType
      \/ \A f \in Field : L1Entry(pa)[f] \in GPIAccessType
  BY <1>1, Walk DEF L1Entry, GptTypeOK, ProgrammedCorrectly
<1> QED
  BY <1>1, <1>2, <1>3

\* The level 1 tables change in one field of one descriptor.
FieldSet(t, i, f, x) ==
  /\ l1' \in [L0Index -> [L1Index -> Level1Descriptor]]
  /\ \A u \in L0Index, j \in L1Index : u # t \/ j # i => l1'[u][j] = l1[u][j]
  /\ \A k \in Field : l1'[t][i][k] = IF k = f THEN x ELSE l1[t][i][k]

\* set_gpi changes the field of the granule it is called for.
LEMMA SetField ==
  ASSUME GptTypeOK, NEW g \in Granule, NEW x \in GPIAccessType,
         set_gpi(GranuleBase(g), x)
  PROVE  FieldSet(L0Entry(GranuleBase(g)).table, l1_resolve(GranuleBase(g)),
                  granule_resolve(GranuleBase(g)), x)
<1>1. PICK t \in L0Index : t = L0Entry(GranuleBase(g)).table
  BY Walk
<1>2. PICK i \in L1Index : i = l1_resolve(GranuleBase(g))
  BY Walk
<1>3. PICK f \in Field : f = granule_resolve(GranuleBase(g))
  BY Walk
<1>4. l1 \in [L0Index -> [L1Index -> [Field -> Nibble]]] /\ x \in Nibble
  BY Gpis DEF GptTypeOK, ProgrammedCorrectly, Level1Descriptor
<1>5. l1' = [l1 EXCEPT ![t][i][f] = x]
  BY <1>1, <1>2, <1>3 DEF set_gpi
<1>6. FieldSet(t, i, f, x)
  BY <1>4, <1>5 DEF FieldSet, Level1Descriptor
<1> QED
  BY <1>1, <1>2, <1>3, <1>6

\* `set` changes the GPI of its granule and of no other, although granules
\* share descriptors; the table stays correct, and the granule can be set again.
LEMMA SetMoves ==
  ASSUME GptTypeOK, NEW g \in Granule, NEW x \in GPIAccessType,
         set_result(GranuleBase(g)) = Ok, set_gpi(GranuleBase(g), x)
  PROVE  /\ GptTypeOK' /\ Gpi' = [Gpi EXCEPT ![g] = x]
         /\ set_result(GranuleBase(g))' = Ok
<1>1. PICK t \in L0Index : t = L0Entry(GranuleBase(g)).table
  BY Walk
<1>2. PICK i \in L1Index : i = l1_resolve(GranuleBase(g))
  BY Walk
<1>3. PICK f \in Field : f = granule_resolve(GranuleBase(g))
  BY Walk
<1>4. FieldSet(t, i, f, x)
  BY <1>1, <1>2, <1>3, SetField
<1>5. \A k \in Field : l1[t][i][k] \in GPIAccessType
  BY <1>1, <1>2, Settable DEF L1Entry
<1>6. \A k \in Field : l1'[t][i][k] \in GPIAccessType
  BY <1>4, <1>5 DEF FieldSet
<1>7. /\ ~is_contig(l1[t][i]) /\ is_granule(l1[t][i])
      /\ ~is_contig(l1'[t][i]) /\ is_granule(l1'[t][i])
  BY <1>5, <1>6, FirstFields, Gpis DEF is_contig, is_granule
<1>8. GptTypeOK'
  <2>1. ASSUME NEW u \in L0Index, NEW j \in L1Index
        PROVE  \/ is_contig(l1'[u][j]) /\ l1'[u][j][1] \in GPIAccessType
               \/ \A k \in Field : l1'[u][j][k] \in GPIAccessType
    <3>1. CASE u = t /\ j = i
      BY <3>1, <1>6
    <3>2. CASE u # t \/ j # i
      <4>1. l1'[u][j] = l1[u][j]
        BY <3>2, <1>4 DEF FieldSet
      <4> QED
        BY <4>1 DEF GptTypeOK, ProgrammedCorrectly
    <3> QED
      BY <3>1, <3>2
  <2>2. l1' \in [L0Index -> [L1Index -> Level1Descriptor]]
    BY <1>4 DEF FieldSet
  <2> QED
    BY <2>1, <2>2 DEF GptTypeOK, ProgrammedCorrectly
<1>9. set_result(GranuleBase(g))' = Ok
  <2>1. L1Entry(GranuleBase(g))' = l1'[t][i]
    BY <1>1, <1>2 DEF L1Entry, L0Entry
  <2>2. ~(GranuleBase(g) >= 2 ^ PPS)
    BY Cut
  <2> QED
    BY <2>1, <2>2, <1>7, Settable DEF set_result, L0Entry
<1>10. lookup(GranuleBase(g))' = x
  <2>1. L1Entry(GranuleBase(g))' = l1'[t][i] /\ l1'[t][i][f] = x
    BY <1>1, <1>2, <1>4 DEF L1Entry, L0Entry, FieldSet
  <2>2. ~(GranuleBase(g) >= 2 ^ PPS)
    BY Cut
  <2> QED
    BY <2>1, <2>2, <1>3, <1>7, Settable DEF lookup, L0Entry, AsGpi
<1>11. ASSUME NEW h \in Granule, h # g
       PROVE  lookup(GranuleBase(h))' = lookup(GranuleBase(h))
  <2>1. PICK u \in L0Index : u = L0Entry(GranuleBase(h)).table
    BY Walk
  <2>2. PICK j \in L1Index : j = l1_resolve(GranuleBase(h))
    BY Walk
  <2>3. PICK k \in Field : k = granule_resolve(GranuleBase(h))
    BY Walk
  <2>4. /\ L1Entry(GranuleBase(h)) = l1[u][j]
        /\ L1Entry(GranuleBase(h))' = l1'[u][j]
    BY <2>1, <2>2 DEF L1Entry, L0Entry
  <2>5. CASE ~is_table(L0Entry(GranuleBase(h)))
    BY <2>5 DEF lookup, L0Entry
  <2>6. CASE u # t \/ j # i
    <3>1. l1'[u][j] = l1[u][j]
      BY <2>6, <1>4 DEF FieldSet
    <3> QED
      BY <3>1, <2>4 DEF lookup, L0Entry
  <2>7. CASE is_table(L0Entry(GranuleBase(h))) /\ u = t /\ j = i
    <3>1. l0_resolve(GranuleBase(h)) = l0_resolve(GranuleBase(g))
      BY <1>1, <2>1, <2>7, Walk, Settable, BootAssumption DEF L0Entry
    <3>2. k # f
      BY <3>1, <1>2, <1>3, <2>2, <2>3, <2>7, <1>11, Apart
    <3>3. l1'[t][i][k] = l1[t][i][k]
      BY <3>2, <1>4 DEF FieldSet
    <3> QED
      BY <3>3, <1>7, <2>3, <2>4, <2>7 DEF lookup, L0Entry
  <2> QED
    BY <2>5, <2>6, <2>7
<1>12. Gpi' = [Gpi EXCEPT ![g] = x]
  BY <1>10, <1>11 DEF Gpi
<1> QED
  BY <1>8, <1>9, <1>12

-----------------------------------------------------------------------------
(* The steps of a call.                                                    *)

\* A sequence of one element followed by two more.
LEMMA Join12 ==
  ASSUME NEW S, NEW a \in S, NEW b \in S, NEW c \in S
  PROVE  <<a>> \o <<b, c>> = <<a, b, c>>
<1>1. <<a>> \in Seq(S) /\ <<b, c>> \in Seq(S) /\ <<a, b, c>> \in Seq(S)
  BY SMT
<1>2. PICK s \in Seq(S) : s = <<a>> \o <<b, c>>
  BY <1>1, ConcatProperties
<1>3. PICK t \in Seq(S) : t = <<a, b, c>>
  BY <1>1
<1>4. Len(s) = 3 /\ Len(t) = 3
  BY <1>1, <1>2, <1>3, SMT
<1>5. \A i \in 1 .. 3 : s[i] = t[i]
  <2>1. \A i \in 1 .. 1 : s[i] = t[i]
    BY <1>1, <1>2, <1>3, SMTT(30)
  <2>2. \A i \in 2 .. 3 : s[i] = t[i]
    BY <1>1, <1>2, <1>3, SMTT(30)
  <2> QED
    BY <2>1, <2>2, SMTT(40)
<1>6. s = t
  BY <1>4, <1>5, SeqEqual
<1> QED
  BY <1>2, <1>3, <1>6

\* Three elements and one more.
LEMMA Join31 ==
  ASSUME NEW S, NEW a \in S, NEW b \in S, NEW c \in S, NEW d \in S
  PROVE  <<a, b, c>> \o <<d>> = <<a, b, c, d>>
<1>1. <<a, b, c>> \in Seq(S) /\ <<d>> \in Seq(S) /\ <<a, b, c, d>> \in Seq(S)
  BY SMT
<1>2. PICK s \in Seq(S) : s = <<a, b, c>> \o <<d>>
  BY <1>1, ConcatProperties
<1>3. PICK t \in Seq(S) : t = <<a, b, c, d>>
  BY <1>1
<1>4. Len(s) = 4 /\ Len(t) = 4
  BY <1>1, <1>2, <1>3, SMT
<1>5. \A i \in 1 .. 4 : s[i] = t[i]
  <2>1. \A i \in 1 .. 3 : s[i] = t[i]
    BY <1>1, <1>2, <1>3, SMTT(30)
  <2>2. \A i \in 4 .. 4 : s[i] = t[i]
    BY <1>1, <1>2, <1>3, SMTT(30)
  <2> QED
    BY <2>1, <2>2, SMTT(40)
<1>6. s = t
  BY <1>4, <1>5, SeqEqual
<1> QED
  BY <1>2, <1>3, <1>6

\* Two elements and two more.
LEMMA Join22 ==
  ASSUME NEW S, NEW a \in S, NEW b \in S, NEW c \in S, NEW d \in S
  PROVE  <<a, b>> \o <<c, d>> = <<a, b, c, d>>
<1>1. <<a, b>> \in Seq(S) /\ <<c, d>> \in Seq(S) /\ <<a, b, c, d>> \in Seq(S)
  BY SMT
<1>2. PICK s \in Seq(S) : s = <<a, b>> \o <<c, d>>
  BY <1>1, ConcatProperties
<1>3. PICK t \in Seq(S) : t = <<a, b, c, d>>
  BY <1>1
<1>4. Len(s) = 4 /\ Len(t) = 4
  BY <1>1, <1>2, <1>3, SMT
<1>5. \A i \in 1 .. 4 : s[i] = t[i]
  <2>1. \A i \in 1 .. 2 : s[i] = t[i]
    BY <1>1, <1>2, <1>3, SMTT(30)
  <2>2. \A i \in 3 .. 4 : s[i] = t[i]
    BY <1>1, <1>2, <1>3, SMTT(30)
  <2> QED
    BY <2>1, <2>2, SMTT(40)
<1>6. s = t
  BY <1>4, <1>5, SeqEqual
<1> QED
  BY <1>2, <1>3, <1>6

\* Four elements and two more.
LEMMA Join42 ==
  ASSUME NEW S, NEW a \in S, NEW b \in S, NEW c \in S,
         NEW d \in S, NEW e \in S, NEW f \in S
  PROVE  <<a, b, c, d>> \o <<e, f>> = <<a, b, c, d, e, f>>
<1>1. /\ <<a, b, c, d>> \in Seq(S) /\ <<e, f>> \in Seq(S)
      /\ <<a, b, c, d, e, f>> \in Seq(S)
  BY SMT
<1>2. PICK s \in Seq(S) : s = <<a, b, c, d>> \o <<e, f>>
  BY <1>1, ConcatProperties
<1>3. PICK t \in Seq(S) : t = <<a, b, c, d, e, f>>
  BY <1>1
<1>4. Len(s) = 6 /\ Len(t) = 6
  BY <1>1, <1>2, <1>3, SMT
<1>5. \A i \in 1 .. 6 : s[i] = t[i]
  <2>1. \A i \in 1 .. 4 : s[i] = t[i]
    BY <1>1, <1>2, <1>3, SMTT(30)
  <2>2. \A i \in 5 .. 6 : s[i] = t[i]
    BY <1>1, <1>2, <1>3, SMTT(30)
  <2> QED
    BY <2>1, <2>2, SMTT(40)
<1>6. s = t
  BY <1>4, <1>5, SeqEqual
<1> QED
  BY <1>2, <1>3, <1>6

\* The steps of the two calls, written out.
LEMMA Handlers ==
  /\ GtsiDelegate = <<Step("flush", Realm), Step("set", Realm),
                      Step("tlbi", Realm), Step("flush", NonSecure)>>
  /\ GtsiUndelegate = <<Step("set", NoAccess), Step("tlbi", NoAccess),
                        Step("flush", Realm), Step("flush", NonSecure),
                        Step("set", NonSecure), Step("tlbi", NonSecure)>>
<1>1. \A op \in {"flush", "set", "tlbi"}, x \in PAS \cup {NoAccess} :
        Step(op, x) \in Steps
  BY DEF Step, Steps
<1>2. /\ Step("flush", Realm) \in Steps /\ Step("set", Realm) \in Steps
      /\ Step("tlbi", Realm) \in Steps /\ Step("flush", NonSecure) \in Steps
      /\ Step("set", NoAccess) \in Steps /\ Step("tlbi", NoAccess) \in Steps
      /\ Step("set", NonSecure) \in Steps /\ Step("tlbi", NonSecure) \in Steps
  BY <1>1 DEF PAS
<1>3. GtsiDelegate = (<<Step("flush", Realm)>>
                      \o <<Step("set", Realm), Step("tlbi", Realm)>>)
                     \o <<Step("flush", NonSecure)>>
  BY DEF GtsiDelegate, Set
<1>4. GtsiUndelegate = (<<Step("set", NoAccess), Step("tlbi", NoAccess)>>
                        \o <<Step("flush", Realm), Step("flush", NonSecure)>>)
                       \o <<Step("set", NonSecure), Step("tlbi", NonSecure)>>
  BY DEF GtsiUndelegate, Set
<1>5. <<Step("flush", Realm)>> \o <<Step("set", Realm), Step("tlbi", Realm)>> =
      <<Step("flush", Realm), Step("set", Realm), Step("tlbi", Realm)>>
  BY <1>2, Join12, ZenonT(60)
<1>6. <<Step("flush", Realm), Step("set", Realm), Step("tlbi", Realm)>>
        \o <<Step("flush", NonSecure)>> =
      <<Step("flush", Realm), Step("set", Realm), Step("tlbi", Realm),
        Step("flush", NonSecure)>>
  BY <1>2, Join31, SMTT(60)
<1>7. <<Step("set", NoAccess), Step("tlbi", NoAccess)>>
        \o <<Step("flush", Realm), Step("flush", NonSecure)>> =
      <<Step("set", NoAccess), Step("tlbi", NoAccess), Step("flush", Realm),
        Step("flush", NonSecure)>>
  BY <1>2, Join22, SMTT(60)
<1>8. <<Step("set", NoAccess), Step("tlbi", NoAccess), Step("flush", Realm),
        Step("flush", NonSecure)>>
        \o <<Step("set", NonSecure), Step("tlbi", NonSecure)>> =
      <<Step("set", NoAccess), Step("tlbi", NoAccess), Step("flush", Realm),
        Step("flush", NonSecure), Step("set", NonSecure),
        Step("tlbi", NonSecure)>>
  BY <1>2, Join42, SMTT(60)
<1> QED
  BY <1>3, <1>4, <1>5, <1>6, <1>7, <1>8, Zenon

-----------------------------------------------------------------------------
(* The inductive invariant.                                                *)

\* What is left of the two calls, after each of their steps.
D1 == GtsiDelegate
D2 == Tail(D1)
D3 == Tail(D2)
D4 == Tail(D3)
U1 == GtsiUndelegate
U2 == Tail(U1)
U3 == Tail(U2)
U4 == Tail(U3)
U5 == Tail(U4)
U6 == Tail(U5)

\* Granule g belongs to address space p, and nothing of another owner is left.
Owned(g, p) ==
  /\ Gpi[g] = p /\ tlb[g] \subseteq {p} /\ lines[g][p] # "left"
  /\ \A q \in PAS \ {p} : lines[g][q] # "data"

\* Granule g is accessible to nobody, and can be given back.
Withdrawn(g) == Gpi[g] = NoAccess /\ set_result(GranuleBase(g)) = Ok

\* How far the core that holds the lock has got in moving its granule.
MoveInv(c, g) ==
  \/ todo[c] = D1 /\ Owned(g, NonSecure)
  \/ todo[c] = D2 /\ Owned(g, NonSecure) /\ lines[g][Realm] = "none"
  \/ todo[c] = D3 /\ Gpi[g] = Realm /\ lines[g][Realm] # "left"
  \/ /\ todo[c] = D4
     /\ Gpi[g] = Realm /\ lines[g][Realm] # "left" /\ tlb[g] \subseteq {Realm}
  \/ todo[c] = U1 /\ Owned(g, Realm)
  \/ todo[c] = U2 /\ Withdrawn(g)
  \/ todo[c] = U3 /\ Withdrawn(g) /\ tlb[g] = {}
  \/ todo[c] = U4 /\ Withdrawn(g) /\ tlb[g] = {} /\ lines[g][Realm] = "none"
  \/ /\ todo[c] = U5 /\ Withdrawn(g) /\ tlb[g] = {}
     /\ \A q \in PAS : lines[g][q] = "none"
  \/ todo[c] = U6 /\ Owned(g, NonSecure)
  \/ todo[c] = <<>> /\ \E p \in PAS : Owned(g, p)

HolderInv ==
  gpt_lock # NoCore =>
    \E g \in Granule : base_pa[gpt_lock] = GranuleBase(g) /\ MoveInv(gpt_lock, g)

\* Granules that no call is moving belong to their owner alone.
RestInv ==
  \A g \in Granule : ~Moving(g) =>
    IF Gpi[g] \in PAS THEN Owned(g, Gpi[g]) ELSE tlb[g] = {}

GInv ==
  /\ TypeOK
  /\ \A c \in Core : c # gpt_lock => todo[c] = <<>>
  /\ HolderInv /\ RestInv

\* What each stage of a call does next, and what is left after it.
LEMMA Stages ==
  /\ D1 # <<>> /\ Head(D1) = Step("flush", Realm)
  /\ D2 # <<>> /\ Head(D2) = Step("set", Realm)
  /\ D3 # <<>> /\ Head(D3) = Step("tlbi", Realm)
  /\ D4 # <<>> /\ Head(D4) = Step("flush", NonSecure) /\ Tail(D4) = <<>>
  /\ U1 # <<>> /\ Head(U1) = Step("set", NoAccess)
  /\ U2 # <<>> /\ Head(U2) = Step("tlbi", NoAccess)
  /\ U3 # <<>> /\ Head(U3) = Step("flush", Realm)
  /\ U4 # <<>> /\ Head(U4) = Step("flush", NonSecure)
  /\ U5 # <<>> /\ Head(U5) = Step("set", NonSecure)
  /\ U6 # <<>> /\ Head(U6) = Step("tlbi", NonSecure) /\ Tail(U6) = <<>>
  /\ D1 \in Seq(Steps) /\ U1 \in Seq(Steps)
<1>1. PICK a, b, d, e :
        /\ a = Step("flush", Realm) /\ b = Step("set", Realm)
        /\ d = Step("tlbi", Realm) /\ e = Step("flush", NonSecure)
        /\ D1 = <<a, b, d, e>>
  BY Handlers, Zenon DEF D1
<1>2. PICK k, l, m, n, o, p :
        /\ k = Step("set", NoAccess) /\ l = Step("tlbi", NoAccess)
        /\ m = Step("flush", Realm) /\ n = Step("flush", NonSecure)
        /\ o = Step("set", NonSecure) /\ p = Step("tlbi", NonSecure)
        /\ U1 = <<k, l, m, n, o, p>>
  BY Handlers, Zenon DEF U1
<1>3. D2 = <<b, d, e>> /\ D3 = <<d, e>> /\ D4 = <<e>>
  BY <1>1, SMT DEF D2, D3, D4
<1>4. /\ U2 = <<l, m, n, o, p>> /\ U3 = <<m, n, o, p>> /\ U4 = <<n, o, p>>
      /\ U5 = <<o, p>> /\ U6 = <<p>>
  BY <1>2, SMT DEF U2, U3, U4, U5, U6
<1>5. /\ D1 # <<>> /\ Head(D1) = a /\ D2 # <<>> /\ Head(D2) = b
      /\ D3 # <<>> /\ Head(D3) = d /\ D4 # <<>> /\ Head(D4) = e
      /\ Tail(D4) = <<>>
  BY <1>1, <1>3, SMT
<1>6. /\ U1 # <<>> /\ Head(U1) = k /\ U2 # <<>> /\ Head(U2) = l
      /\ U3 # <<>> /\ Head(U3) = m /\ U4 # <<>> /\ Head(U4) = n
      /\ U5 # <<>> /\ Head(U5) = o /\ U6 # <<>> /\ Head(U6) = p
      /\ Tail(U6) = <<>>
  BY <1>2, <1>4, SMTT(40)
<1>7. /\ a \in Steps /\ b \in Steps /\ d \in Steps /\ e \in Steps
      /\ k \in Steps /\ l \in Steps /\ m \in Steps /\ n \in Steps
      /\ o \in Steps /\ p \in Steps
  BY <1>1, <1>2, SMT DEF Step, Steps, PAS
<1>8. D1 \in Seq(Steps) /\ U1 \in Seq(Steps)
  BY <1>1, <1>2, <1>7, SMT
<1> QED
  BY <1>1, <1>2, <1>5, <1>6, <1>8

\* The address space or GPI that each stage is about.
LEMMA StageGpis ==
  /\ Head(D1).gpi = Realm /\ Head(D2).gpi = Realm /\ Head(D4).gpi = NonSecure
  /\ Head(U1).gpi = NoAccess /\ Head(U3).gpi = Realm
  /\ Head(U4).gpi = NonSecure /\ Head(U5).gpi = NonSecure
<1>1. \A op, x : Step(op, x).gpi = x
  BY DEF Step
<1> QED
  BY <1>1, Stages

-----------------------------------------------------------------------------
(* Each step keeps the invariant.                                          *)

\* A step that leaves the level 1 tables alone changes no GPI.
LEMMA SameTable ==
  ASSUME UNCHANGED l1
  PROVE  /\ Gpi' = Gpi /\ (GptTypeOK => GptTypeOK')
         /\ \A pa : lookup(pa)' = lookup(pa) /\ set_result(pa)' = set_result(pa)
<1>1. \A pa : lookup(pa)' = lookup(pa) /\ set_result(pa)' = set_result(pa)
  BY DEF lookup, set_result, L1Entry, L0Entry
<1>2. Gpi' = Gpi
  BY DEF Gpi, lookup, L1Entry, L0Entry
<1> QED
  BY <1>1, <1>2 DEF GptTypeOK, ProgrammedCorrectly

\* Nothing of granule h changes.
Untouched(h) ==
  Gpi'[h] = Gpi[h] /\ tlb'[h] = tlb[h] /\ lines'[h] = lines[h]

\* A step of the core that holds the lock keeps the invariant, if it touches
\* the granule of its call only and takes that from stage to stage.
LEMMA HolderStep ==
  ASSUME GInv, TypeOK', NEW c \in Core, gpt_lock = c, NEW g \in Granule,
         base_pa[c] = GranuleBase(g), UNCHANGED <<gpt_lock, base_pa>>,
         \A d \in Core : d # c => todo'[d] = todo[d],
         \A h \in Granule \ {g} : Untouched(h), MoveInv(c, g)'
  PROVE  GInv'
<1>1. c # NoCore
  BY TransitionAssumption
<1>2. \A d \in Core : d # gpt_lock' => todo'[d] = <<>>
  BY DEF GInv
<1>3. HolderInv'
  <2>1. gpt_lock' = c /\ base_pa'[c] = GranuleBase(g)
    OBVIOUS
  <2>2. MoveInv(gpt_lock, g)'
    BY <2>1 DEF MoveInv
  <2> QED
    BY <2>1, <2>2 DEF HolderInv
<1>4. RestInv'
  <2>1. SUFFICES ASSUME NEW h \in Granule, ~Moving(h)'
                 PROVE  IF Gpi'[h] \in PAS THEN Owned(h, Gpi[h])' ELSE tlb'[h] = {}
    BY DEF RestInv
  <2>2. h # g /\ ~Moving(h)
    BY <2>1, <1>1, Cut DEF Moving
  <2>3. Untouched(h)
    BY <2>2
  <2>4. IF Gpi[h] \in PAS THEN Owned(h, Gpi[h]) ELSE tlb[h] = {}
    BY <2>2 DEF GInv, RestInv
  <2> QED
    BY <2>3, <2>4 DEF Untouched, Owned
<1> QED
  BY <1>2, <1>3, <1>4 DEF GInv

\* A call may return when its granule belongs to one of the worlds.
LEMMA ReturnStep ==
  ASSUME GInv, NEW c \in Core, gpt_lock = c, NEW g \in Granule,
         base_pa[c] = GranuleBase(g), Return(c), UNCHANGED <<l1, lines, tlb>>,
         NEW p \in PAS, Owned(g, p)
  PROVE  GInv'
<1>1. TypeOK'
  <2>1. GptTypeOK' /\ 0 \in PA /\ <<>> \in Seq(Steps)
    BY SameTable, TransitionAssumption, SMTT(60) DEF GInv, TypeOK
  <2> QED
    BY <2>1 DEF GInv, TypeOK, Return
<1>2. \A d \in Core : todo'[d] = <<>>
  BY DEF GInv, TypeOK, Return
<1>3. Gpi' = Gpi /\ tlb' = tlb /\ lines' = lines /\ gpt_lock' = NoCore
  BY SameTable DEF Return
<1>4. RestInv'
  <2>1. SUFFICES ASSUME NEW h \in Granule
                 PROVE  IF Gpi'[h] \in PAS THEN Owned(h, Gpi[h])' ELSE tlb'[h] = {}
    BY DEF RestInv
  <2>2. IF Gpi[h] \in PAS THEN Owned(h, Gpi[h]) ELSE tlb[h] = {}
    <3>1. CASE h = g
      BY <3>1 DEF Owned
    <3>2. CASE h # g
      <4>1. ~Moving(h)
        BY <3>2, Cut DEF Moving
      <4> QED
        BY <4>1 DEF GInv, RestInv
    <3> QED
      BY <3>1, <3>2
  <2> QED
    BY <1>3, <2>2 DEF Owned
<1> QED
  BY <1>1, <1>2, <1>3, <1>4 DEF GInv, HolderInv

\* The core that has steps left holds the lock, for the granule of its call.
LEMMA Holder ==
  ASSUME GInv, NEW c \in Core, todo[c] # <<>> \/ gpt_lock = c
  PROVE  /\ gpt_lock = c
         /\ \E g \in Granule : base_pa[c] = GranuleBase(g) /\ MoveInv(c, g)
<1>1. gpt_lock = c /\ c # NoCore
  BY TransitionAssumption DEF GInv
<1> QED
  BY <1>1 DEF GInv, HolderInv

\* The step that is next tells how far the call has got.
LEMMA NextStep ==
  ASSUME NEW c \in Core, NEW g, MoveInv(c, g)
  PROVE  /\ Doing(c, "flush") =>
              \/ todo[c] = D1 /\ Owned(g, NonSecure)
              \/ /\ todo[c] = D4 /\ Gpi[g] = Realm /\ lines[g][Realm] # "left"
                 /\ tlb[g] \subseteq {Realm}
              \/ todo[c] = U3 /\ Withdrawn(g) /\ tlb[g] = {}
              \/ /\ todo[c] = U4 /\ Withdrawn(g) /\ tlb[g] = {}
                 /\ lines[g][Realm] = "none"
         /\ Doing(c, "set") =>
              \/ /\ todo[c] = D2 /\ Owned(g, NonSecure)
                 /\ lines[g][Realm] = "none"
              \/ todo[c] = U1 /\ Owned(g, Realm)
              \/ /\ todo[c] = U5 /\ Withdrawn(g) /\ tlb[g] = {}
                 /\ \A q \in PAS : lines[g][q] = "none"
         /\ Doing(c, "tlbi") =>
              \/ todo[c] = D3 /\ Gpi[g] = Realm /\ lines[g][Realm] # "left"
              \/ todo[c] = U2 /\ Withdrawn(g)
              \/ todo[c] = U6 /\ Owned(g, NonSecure)
         /\ todo[c] = <<>> => \E p \in PAS : Owned(g, p)
<1>1. \A op, x : Step(op, x).op = op
  BY DEF Step
<1>2. /\ Head(D1).op = "flush" /\ Head(D2).op = "set" /\ Head(D3).op = "tlbi"
      /\ Head(D4).op = "flush" /\ Head(U1).op = "set" /\ Head(U2).op = "tlbi"
      /\ Head(U3).op = "flush" /\ Head(U4).op = "flush" /\ Head(U5).op = "set"
      /\ Head(U6).op = "tlbi"
  BY <1>1, Stages
<1> QED
  BY <1>2, Stages DEF Doing, MoveInv

\* What a step leaves to do.
LEMMA DoneStep ==
  ASSUME TypeOK, NEW c \in Core, todo[c] # <<>>, Done(c)
  PROVE  /\ todo' \in [Core -> Seq(Steps)] /\ todo'[c] = Tail(todo[c])
         /\ \A d \in Core : d # c => todo'[d] = todo[d]
<1>1. todo \in [Core -> Seq(Steps)]
  BY DEF TypeOK
<1>2. Tail(todo[c]) \in Seq(Steps)
  BY <1>1, SMT
<1> QED
  BY <1>1, <1>2 DEF Done

\* A flush keeps the invariant.
LEMMA FlushInv ==
  ASSUME GInv, NEW c \in Core, Flush(c)
  PROVE  GInv'
<1>1. TypeOK /\ Doing(c, "flush") /\ todo[c] # <<>>
  BY DEF GInv, Flush, Doing
<1>2. gpt_lock = c
  BY <1>1, Holder
<1>3. PICK g \in Granule : base_pa[c] = GranuleBase(g) /\ MoveInv(c, g)
  BY <1>1, Holder
<1>4. GranuleOf(base_pa[c]) = g
  BY <1>3, Cut
<1>5. PICK x : x = Head(todo[c]).gpi
  OBVIOUS
<1>6. lines' = [lines EXCEPT ![g][x] = "none"]
  BY <1>4, <1>5 DEF Flush
<1>7. lines \in [Granule -> [PAS -> {"none", "left", "data"}]]
  BY <1>1 DEF TypeOK
<1>8. /\ todo' \in [Core -> Seq(Steps)] /\ todo'[c] = Tail(todo[c])
      /\ \A d \in Core : d # c => todo'[d] = todo[d]
  BY <1>1, DoneStep DEF Flush
<1>9. /\ lines' \in [Granule -> [PAS -> {"none", "left", "data"}]]
      /\ \A h \in Granule \ {g} : lines'[h] = lines[h]
      /\ \A q \in PAS : lines'[g][q] = IF q = x THEN "none" ELSE lines[g][q]
  BY <1>6, <1>7
<1>10. /\ UNCHANGED <<l1, gpt_lock, base_pa, tlb>> /\ Gpi' = Gpi
       /\ GptTypeOK' /\ set_result(GranuleBase(g))' = set_result(GranuleBase(g))
  BY <1>1, SameTable DEF Flush, TypeOK
<1>11. TypeOK'
  BY <1>1, <1>8, <1>9, <1>10 DEF TypeOK
<1>12. MoveInv(c, g)'
  <2> USE DEF PAS
  <2>2. CASE todo[c] = D1 /\ Owned(g, NonSecure)
    <3>1. x = Realm /\ todo'[c] = D2
      <4>1. x = Realm
        BY <2>2, <1>5, StageGpis
      <4>2. todo'[c] = D2
        BY <2>2, <1>8 DEF D2
      <4> QED
        BY <4>1, <4>2
    <3> QED
      BY <2>2, <3>1, <1>9, <1>10, Gpis DEF MoveInv, Owned
  <2>3. CASE /\ todo[c] = D4 /\ Gpi[g] = Realm /\ lines[g][Realm] # "left"
             /\ tlb[g] \subseteq {Realm}
    <3>1. x = NonSecure /\ todo'[c] = <<>>
      <4>1. x = NonSecure
        BY <2>3, <1>5, StageGpis
      <4>2. todo'[c] = <<>>
        BY <2>3, <1>8, Stages
      <4> QED
        BY <4>1, <4>2
    <3>2. Owned(g, Realm)'
      BY <2>3, <3>1, <1>9, <1>10, Gpis DEF Owned
    <3> QED
      BY <3>1, <3>2 DEF MoveInv
  <2>4. CASE todo[c] = U3 /\ Withdrawn(g) /\ tlb[g] = {}
    <3>1. x = Realm /\ todo'[c] = U4
      <4>1. x = Realm
        BY <2>4, <1>5, StageGpis
      <4>2. todo'[c] = U4
        BY <2>4, <1>8 DEF U4
      <4> QED
        BY <4>1, <4>2
    <3> QED
      BY <2>4, <3>1, <1>9, <1>10 DEF MoveInv, Withdrawn
  <2>5. CASE /\ todo[c] = U4 /\ Withdrawn(g) /\ tlb[g] = {}
             /\ lines[g][Realm] = "none"
    <3>1. x = NonSecure /\ todo'[c] = U5
      <4>1. x = NonSecure
        BY <2>5, <1>5, StageGpis
      <4>2. todo'[c] = U5
        BY <2>5, <1>8 DEF U5
      <4> QED
        BY <4>1, <4>2
    <3> QED
      BY <2>5, <3>1, <1>9, <1>10 DEF MoveInv, Withdrawn
  <2> QED
    BY <1>1, <1>3, <2>2, <2>3, <2>4, <2>5, NextStep
<1>13. \A h \in Granule \ {g} : Untouched(h)
  BY <1>9, <1>10 DEF Untouched
<1> QED
  BY <1>2, <1>3, <1>8, <1>10, <1>11, <1>12, <1>13, HolderStep

\* The invalidation at the end of `set` keeps the invariant.
LEMMA TlbiInv ==
  ASSUME GInv, NEW c \in Core, Tlbi(c)
  PROVE  GInv'
<1>1. TypeOK /\ Doing(c, "tlbi") /\ todo[c] # <<>>
  BY DEF GInv, Tlbi, Doing
<1>2. gpt_lock = c
  BY <1>1, Holder
<1>3. PICK g \in Granule : base_pa[c] = GranuleBase(g) /\ MoveInv(c, g)
  BY <1>1, Holder
<1>4. GranuleOf(base_pa[c]) = g
  BY <1>3, Cut
<1>5. /\ todo' \in [Core -> Seq(Steps)] /\ todo'[c] = Tail(todo[c])
      /\ \A d \in Core : d # c => todo'[d] = todo[d]
  BY <1>1, DoneStep DEF Tlbi
<1>6. /\ tlb' \in [Granule -> SUBSET PAS] /\ tlb'[g] = {}
      /\ \A h \in Granule \ {g} : tlb'[h] = tlb[h]
  BY <1>1, <1>4 DEF TypeOK, Tlbi
<1>7. /\ UNCHANGED <<l1, gpt_lock, base_pa, lines>> /\ Gpi' = Gpi
      /\ GptTypeOK' /\ set_result(GranuleBase(g))' = set_result(GranuleBase(g))
  BY <1>1, SameTable DEF Tlbi, TypeOK
<1>8. TypeOK'
  BY <1>1, <1>5, <1>6, <1>7 DEF TypeOK
<1>9. MoveInv(c, g)'
  <2>1. CASE todo[c] = D3 /\ Gpi[g] = Realm /\ lines[g][Realm] # "left"
    <3>1. todo'[c] = D4
      BY <2>1, <1>5 DEF D4
    <3> QED
      BY <2>1, <3>1, <1>6, <1>7 DEF MoveInv
  <2>2. CASE todo[c] = U2 /\ Withdrawn(g)
    <3>1. todo'[c] = U3
      BY <2>2, <1>5 DEF U3
    <3> QED
      BY <2>2, <3>1, <1>6, <1>7 DEF MoveInv, Withdrawn
  <2>3. CASE todo[c] = U6 /\ Owned(g, NonSecure)
    <3>1. todo'[c] = <<>>
      BY <2>3, <1>5, Stages
    <3>2. Owned(g, NonSecure)' /\ NonSecure \in PAS
      BY <2>3, <1>6, <1>7 DEF Owned, PAS
    <3> QED
      BY <3>1, <3>2 DEF MoveInv
  <2> QED
    BY <1>1, <1>3, <2>1, <2>2, <2>3, NextStep
<1>10. \A h \in Granule \ {g} : Untouched(h)
  BY <1>6, <1>7 DEF Untouched
<1> QED
  BY <1>2, <1>3, <1>5, <1>7, <1>8, <1>9, <1>10, HolderStep

\* What a write of the table does to the granule of the call, stage by stage.
SetMovesTo(c, g) ==
  \/ /\ Gpi[g] = NonSecure /\ Gpi' = [Gpi EXCEPT ![g] = Realm]
     /\ MoveInv(c, g)'
  \/ /\ Gpi[g] = Realm /\ Gpi' = [Gpi EXCEPT ![g] = NoAccess]
     /\ MoveInv(c, g)'
  \/ /\ Gpi[g] = NoAccess /\ Gpi' = [Gpi EXCEPT ![g] = NonSecure]
     /\ MoveInv(c, g)'

\* A write of the table that succeeds moves the granule to the next owner.
LEMMA SetOk ==
  ASSUME GInv, NEW c \in Core, SetStep(c), set_result(base_pa[c]) = Ok,
         NEW g \in Granule, base_pa[c] = GranuleBase(g), MoveInv(c, g)
  PROVE  SetMovesTo(c, g) /\ GptTypeOK' /\ Done(c)
         /\ UNCHANGED <<gpt_lock, base_pa, lines, tlb>>
<1>1. TypeOK /\ GptTypeOK /\ Doing(c, "set") /\ todo[c] # <<>>
  BY DEF GInv, TypeOK, SetStep, Doing
<1>2. PICK x : x = Head(todo[c]).gpi
  OBVIOUS
<1>3. /\ set_gpi(GranuleBase(g), x) /\ Done(c)
      /\ UNCHANGED <<gpt_lock, base_pa, lines, tlb>>
  BY <1>2 DEF SetStep
<1>4. todo'[c] = Tail(todo[c])
  BY <1>1, <1>3, DoneStep
<1>6. x \in GPIAccessType =>
        /\ GptTypeOK' /\ Gpi' = [Gpi EXCEPT ![g] = x]
        /\ set_result(GranuleBase(g))' = Ok
  BY <1>1, <1>3, SetMoves
<1>7. Gpi \in [Granule -> GPIAccessType]
  BY <1>1, EveryGpi DEF Gpi
<1>8. CASE /\ todo[c] = D2 /\ Owned(g, NonSecure) /\ lines[g][Realm] = "none"
  <2>1. x = Realm /\ todo'[c] = D3
    <3>1. x = Realm
      BY <1>8, <1>2, StageGpis
    <3>2. todo'[c] = D3
      BY <1>8, <1>4 DEF D3
    <3> QED
      BY <3>1, <3>2
  <2>2. Gpi[g] = NonSecure /\ Gpi' = [Gpi EXCEPT ![g] = Realm] /\ GptTypeOK'
    BY <1>6, <1>8, <2>1, Gpis DEF Owned, PAS
  <2>3. Gpi'[g] = Realm
    BY <2>2, <1>7
  <2>4. MoveInv(c, g)'
    BY <2>1, <2>3, <1>3, <1>8 DEF MoveInv
  <2> QED
    BY <2>2, <2>4, <1>3 DEF SetMovesTo
<1>9. CASE todo[c] = U1 /\ Owned(g, Realm)
  <2>1. x = NoAccess /\ todo'[c] = U2
    <3>1. x = NoAccess
      BY <1>9, <1>2, StageGpis
    <3>2. todo'[c] = U2
      BY <1>9, <1>4 DEF U2
    <3> QED
      BY <3>1, <3>2
  <2>2. /\ Gpi[g] = Realm /\ Gpi' = [Gpi EXCEPT ![g] = NoAccess] /\ GptTypeOK'
        /\ set_result(GranuleBase(g))' = Ok
    BY <1>6, <1>9, <2>1, Gpis DEF Owned
  <2>3. Gpi'[g] = NoAccess
    BY <2>2, <1>7
  <2>4. MoveInv(c, g)'
    BY <2>1, <2>2, <2>3 DEF MoveInv, Withdrawn
  <2> QED
    BY <2>2, <2>4, <1>3 DEF SetMovesTo
<1>10. CASE /\ todo[c] = U5 /\ Withdrawn(g) /\ tlb[g] = {}
            /\ \A q \in PAS : lines[g][q] = "none"
  <2>1. x = NonSecure /\ todo'[c] = U6
    <3>1. x = NonSecure
      BY <1>10, <1>2, StageGpis
    <3>2. todo'[c] = U6
      BY <1>10, <1>4 DEF U6
    <3> QED
      BY <3>1, <3>2
  <2>2. Gpi[g] = NoAccess /\ Gpi' = [Gpi EXCEPT ![g] = NonSecure] /\ GptTypeOK'
    BY <1>6, <1>10, <2>1, Gpis DEF Withdrawn, PAS
  <2>3. Gpi'[g] = NonSecure
    BY <2>2, <1>7
  <2>4. Owned(g, NonSecure)'
    BY <2>3, <1>3, <1>10 DEF Owned, PAS
  <2>5. MoveInv(c, g)'
    BY <2>1, <2>4 DEF MoveInv
  <2> QED
    BY <2>2, <2>5, <1>3 DEF SetMovesTo
<1> QED
  BY <1>1, <1>8, <1>9, <1>10, NextStep

\* When `set` refuses, the granule has not been taken from its owner: only the
\* first write of a call can be refused.
LEMMA SetRefused ==
  ASSUME GInv, NEW c \in Core, SetStep(c), set_result(base_pa[c]) # Ok,
         NEW g \in Granule, base_pa[c] = GranuleBase(g), MoveInv(c, g)
  PROVE  /\ \E p \in PAS : Owned(g, p)
         /\ Return(c) /\ UNCHANGED <<l1, lines, tlb>>
<1>1. Doing(c, "set")
  BY DEF SetStep
<1>2. Owned(g, NonSecure) \/ Owned(g, Realm)
  BY <1>1, NextStep DEF Withdrawn
<1>3. Return(c) /\ UNCHANGED <<l1, lines, tlb>>
  BY DEF SetStep
<1> QED
  BY <1>2, <1>3 DEF PAS

\* A write of the table keeps the invariant.
LEMMA SetInv ==
  ASSUME GInv, NEW c \in Core, SetStep(c)
  PROVE  GInv'
<1>1. TypeOK /\ Doing(c, "set") /\ todo[c] # <<>>
  BY DEF GInv, SetStep, Doing
<1>2. gpt_lock = c
  BY <1>1, Holder
<1>3. PICK g \in Granule : base_pa[c] = GranuleBase(g) /\ MoveInv(c, g)
  BY <1>1, Holder
<1>4. CASE set_result(base_pa[c]) = Ok
  <2>1. /\ SetMovesTo(c, g) /\ GptTypeOK' /\ Done(c)
        /\ UNCHANGED <<gpt_lock, base_pa, lines, tlb>>
    BY <1>3, <1>4, SetOk
  <2>2. /\ todo' \in [Core -> Seq(Steps)]
        /\ \A d \in Core : d # c => todo'[d] = todo[d]
    BY <1>1, <2>1, DoneStep
  <2>3. TypeOK'
    BY <1>1, <2>1, <2>2 DEF TypeOK
  <2>4. MoveInv(c, g)'
    BY <2>1 DEF SetMovesTo
  <2>5. \E x : Gpi' = [Gpi EXCEPT ![g] = x]
    BY <2>1 DEF SetMovesTo
  <2>6. \A h \in Granule \ {g} : Gpi'[h] = Gpi[h]
    BY <2>5 DEF Gpi
  <2>7. \A h \in Granule \ {g} : Untouched(h)
    BY <2>1, <2>6 DEF Untouched
  <2> QED
    BY <1>2, <1>3, <2>1, <2>2, <2>3, <2>4, <2>7, HolderStep
<1>5. CASE set_result(base_pa[c]) # Ok
  <2>1. /\ \E p \in PAS : Owned(g, p)
        /\ Return(c) /\ UNCHANGED <<l1, lines, tlb>>
    BY <1>3, <1>5, SetRefused
  <2> QED
    BY <1>2, <1>3, <2>1, ReturnStep
<1> QED
  BY <1>4, <1>5

\* The end of a call keeps the invariant.
LEMMA FinishInv ==
  ASSUME GInv, NEW c \in Core, Finish(c)
  PROVE  GInv'
<1>1. /\ gpt_lock = c /\ todo[c] = <<>>
      /\ Return(c) /\ UNCHANGED <<l1, lines, tlb>>
  BY DEF Finish
<1>2. PICK g \in Granule : base_pa[c] = GranuleBase(g) /\ MoveInv(c, g)
  BY <1>1, Holder
<1>3. \E p \in PAS : Owned(g, p)
  BY <1>1, <1>2, NextStep
<1> QED
  BY <1>1, <1>2, <1>3, ReturnStep

\* A call that passes its checks is for a granule that belongs to the world the
\* call expects.
LEMMA Checked ==
  ASSUME GInv, gpt_lock = NoCore, NEW pa \in PA, NEW from \in PAS,
         Checks(pa, from) = "Ok"
  PROVE  \E g \in Granule : pa = GranuleBase(g) /\ Owned(g, from)
<1>1. pa \in Nat /\ pa % PgsSize = 0 /\ lookup(pa) = from
  BY TransitionAssumption DEF Checks
<1>2. ~(pa >= 2 ^ PPS)
  BY <1>1, Gpis DEF lookup
<1>3. PICK g \in Granule : pa = GranuleBase(g)
  BY <1>1, <1>2, Aligned
<1>4. Gpi[g] = from
  BY <1>1, <1>3 DEF Gpi
<1>5. ~Moving(g)
  BY DEF Moving
<1>6. Owned(g, from)
  BY <1>4, <1>5 DEF GInv, RestInv
<1> QED
  BY <1>3, <1>6

\* A call keeps the invariant.
LEMMA CallInv ==
  ASSUME GInv, NEW c \in Core, Delegate(c) \/ Undelegate(c)
  PROVE  GInv'
<1>1. PICK from \in PAS, steps \in Seq(Steps) :
        /\ Call(c, from, steps)
        /\ (from = NonSecure /\ steps = D1) \/ (from = Realm /\ steps = U1)
  <2>1. /\ NonSecure \in PAS /\ Realm \in PAS
        /\ D1 \in Seq(Steps) /\ U1 \in Seq(Steps)
    BY Stages DEF PAS
  <2>2. CASE Delegate(c)
    <3>1. Call(c, NonSecure, D1)
      BY <2>2 DEF Delegate, D1
    <3> QED
      BY <2>1, <3>1, Zenon
  <2>3. CASE Undelegate(c)
    <3>1. Call(c, Realm, U1)
      BY <2>3 DEF Undelegate, U1
    <3> QED
      BY <2>1, <3>1, Zenon
  <2> QED
    BY <2>2, <2>3
<1>2. /\ gpt_lock = NoCore /\ UNCHANGED <<l1, lines, tlb>>
      /\ Gpi' = Gpi /\ GptTypeOK' /\ TypeOK
  BY <1>1, SameTable DEF Call, GInv, TypeOK
<1>3. CASE UNCHANGED <<gpt_lock, callVars>>
  <2>1. TypeOK'
    BY <1>2, <1>3 DEF TypeOK, callVars
  <2>2. RestInv'
    BY <1>2, <1>3 DEF GInv, RestInv, Owned, Moving, callVars
  <2> QED
    BY <1>2, <1>3, <2>1, <2>2 DEF GInv, HolderInv, callVars
<1>4. ASSUME NEW pa \in PA, Checks(pa, from) = "Ok", gpt_lock' = c,
             base_pa' = [base_pa EXCEPT ![c] = pa],
             todo' = [todo EXCEPT ![c] = steps]
      PROVE  GInv'
  <2>1. PICK g \in Granule : pa = GranuleBase(g) /\ Owned(g, from)
    BY <1>2, <1>4, Checked
  <2>2. base_pa'[c] = GranuleBase(g) /\ todo'[c] = steps
    BY <1>2, <1>4, <2>1 DEF TypeOK
  <2>3. TypeOK'
    BY <1>2, <1>4 DEF TypeOK
  <2>4. Owned(g, from)'
    BY <1>2, <2>1 DEF Owned
  <2>5. MoveInv(gpt_lock, g)'
    BY <1>1, <1>4, <2>2, <2>4 DEF MoveInv
  <2>6. HolderInv'
    BY <1>4, <2>2, <2>5 DEF HolderInv
  <2>7. RestInv'
    BY <1>2 DEF GInv, RestInv, Owned, Moving
  <2>8. \A d \in Core : d # gpt_lock' => todo'[d] = <<>>
    BY <1>2, <1>4, TransitionAssumption DEF GInv, TypeOK
  <2> QED
    BY <2>3, <2>6, <2>7, <2>8 DEF GInv
<1> QED
  BY <1>1, <1>3, <1>4 DEF Call

\* An access keeps a granule with its owner.
LEMMA AccessOwned ==
  ASSUME TypeOK, NEW g \in Granule, NEW p \in PAS, NEW q \in PAS,
         Owned(g, p), Access(g, q)
  PROVE  q = p /\ Owned(g, p)'
<1>1. Gpi' = Gpi /\ Gpi[g] = lookup(GranuleBase(g))
  BY SameTable DEF Access, Gpi
<1>2. q = p
  BY <1>1 DEF Access, Owned
<1>3. /\ tlb'[g] = tlb[g] \cup {q}
      /\ \A r \in PAS : lines'[g][r] = IF r = q /\ lines[g][r] = "none"
                                       THEN "data" ELSE lines[g][r]
  BY DEF TypeOK, Access
<1> QED
  BY <1>1, <1>2, <1>3 DEF Owned

\* An access keeps the invariant, also while a call moves the granule.
LEMMA AccessInv ==
  ASSUME GInv, NEW g \in Granule, NEW q \in PAS, Access(g, q)
  PROVE  GInv'
<1>1. /\ TypeOK /\ UNCHANGED <<l1, gpt_lock, todo, base_pa>> /\ Gpi' = Gpi
      /\ GptTypeOK' /\ set_result(GranuleBase(g))' = set_result(GranuleBase(g))
      /\ Gpi[g] = lookup(GranuleBase(g))
  BY SameTable DEF Access, GInv, TypeOK, callVars, Gpi
<1>2. /\ tlb'[g] = tlb[g] \cup {q}
      /\ \A r \in PAS : lines'[g][r] = IF r = q /\ lines[g][r] = "none"
                                       THEN "data" ELSE lines[g][r]
      /\ Gpi[g] = q \/ q \in tlb[g]
  BY <1>1 DEF TypeOK, Access
<1>3. \A h \in Granule \ {g} : Untouched(h)
  BY <1>1 DEF TypeOK, Access, Untouched
<1>4. TypeOK'
  <2>1. /\ lines' \in [Granule -> [PAS -> {"none", "left", "data"}]]
        /\ tlb' \in [Granule -> SUBSET PAS]
    BY <1>1 DEF TypeOK, Access
  <2> QED
    BY <1>1, <2>1 DEF TypeOK
<1>5. HolderInv'
  <2>1. SUFFICES ASSUME gpt_lock # NoCore PROVE HolderInv'
    BY <1>1 DEF HolderInv
  <2>2. PICK c \in Core : gpt_lock = c
    BY <1>1, <2>1 DEF TypeOK
  <2>3. PICK h \in Granule : base_pa[c] = GranuleBase(h) /\ MoveInv(c, h)
    BY <2>2, Holder
  <2>4. MoveInv(c, h)'
    <3>1. CASE h # g
      <4>1. Untouched(h)
        BY <3>1, <1>3
      <4>2. set_result(GranuleBase(h))' = set_result(GranuleBase(h))
        BY <1>1, SameTable
      <4>3. \A p : Owned(h, p) => Owned(h, p)'
        BY <4>1 DEF Owned, Untouched
      <4> QED
        BY <2>3, <4>1, <4>2, <4>3, <1>1 DEF MoveInv, Withdrawn, Untouched
    <3>2. CASE h = g
      <4>1. \A p \in PAS : Owned(g, p) => q = p /\ Owned(g, p)'
        BY <1>1, AccessOwned
      <4>2. NonSecure \in PAS /\ Realm \in PAS /\ NonSecure # Realm
            /\ NoAccess \notin PAS
        BY Gpis DEF PAS
      <4>3. Withdrawn(g) => Withdrawn(g)'
        BY <1>1 DEF Withdrawn
      <4>4. Withdrawn(g) /\ tlb[g] = {} => FALSE
        BY <1>2, <4>2 DEF Withdrawn
      <4>5. lines[g][Realm] # "left" => lines'[g][Realm] # "left"
        BY <1>2, <4>2
      <4>6. Owned(g, NonSecure) /\ lines[g][Realm] = "none"
            => lines'[g][Realm] = "none"
        BY <1>2, <4>1, <4>2
      <4>7. Gpi[g] = Realm /\ tlb[g] \subseteq {Realm} => tlb'[g] \subseteq {Realm}
        BY <1>2
      <4> QED
        BY <2>3, <3>2, <1>1, <4>1, <4>2, <4>3, <4>4, <4>5, <4>6, <4>7 DEF MoveInv
    <3> QED
      BY <3>1, <3>2
  <2>5. MoveInv(gpt_lock, h)'
    BY <2>2, <2>4, <1>1 DEF MoveInv
  <2> QED
    BY <2>2, <2>3, <2>5, <1>1 DEF HolderInv
<1>6. RestInv'
  <2>1. SUFFICES ASSUME NEW h \in Granule, ~Moving(h)'
                 PROVE  IF Gpi'[h] \in PAS THEN Owned(h, Gpi[h])' ELSE tlb'[h] = {}
    BY DEF RestInv
  <2>2. ~Moving(h)
    BY <2>1, <1>1 DEF Moving
  <2>3. IF Gpi[h] \in PAS THEN Owned(h, Gpi[h]) ELSE tlb[h] = {}
    BY <2>2 DEF GInv, RestInv
  <2>4. CASE h # g
    <3>1. Untouched(h)
      BY <2>4, <1>3
    <3> QED
      BY <2>3, <3>1 DEF Untouched, Owned
  <2>5. CASE h = g
    <3>1. CASE Gpi[g] \in PAS
      <4>1. PICK p \in PAS : p = Gpi[g]
        BY <3>1
      <4>2. Owned(g, p)'
        BY <2>3, <2>5, <3>1, <4>1, <1>1, AccessOwned
      <4> QED
        BY <2>5, <3>1, <4>1, <4>2, <1>1 DEF Owned
    <3>2. CASE Gpi[g] \notin PAS
      BY <2>3, <2>5, <3>2, <1>2
    <3> QED
      BY <3>1, <3>2
  <2> QED
    BY <2>4, <2>5
<1> QED
  BY <1>1, <1>4, <1>5, <1>6 DEF GInv

\* The invariant holds when the boot loader has set the tables up.
LEMMA GInit == Init => GInv
<1> SUFFICES ASSUME Init PROVE GInv
  OBVIOUS
<1>1. /\ \A g \in Granule : lines[g] \in [PAS -> {"none", "left"}]
      /\ lines \in [Granule -> [PAS -> {"none", "left", "data"}]]
  BY SMTT(60) DEF Init
<1>2. GptTypeOK
  BY BootAssumption DEF Init, GptTypeOK
<1>3. TypeOK
  <2>1. <<>> \in Seq(Steps) /\ 0 \in PA
    BY TransitionAssumption
  <2> QED
    BY <1>1, <1>2, <2>1 DEF Init, TypeOK
<1>4. RestInv
  <2>1. SUFFICES ASSUME NEW g \in Granule
                 PROVE  IF Gpi[g] \in PAS THEN Owned(g, Gpi[g]) ELSE tlb[g] = {}
    BY DEF RestInv
  <2>2. tlb[g] = {} /\ Gpi[g] = lookup(GranuleBase(g))
    BY DEF Init, Gpi
  <2>3. \A p \in PAS : lines[g][p] = "left" => Gpi[g] \in PAS \ {p}
    BY <2>2 DEF Init
  <2>4. \A p \in PAS : lines[g][p] # "data"
    BY <1>1
  <2> QED
    BY <2>2, <2>3, <2>4 DEF Owned
<1> QED
  BY <1>3, <1>4 DEF Init, GInv, HolderInv

\* Every step keeps the invariant.
LEMMA GNext == GInv /\ [Next]_vars => GInv'
<1> SUFFICES ASSUME GInv, [Next]_vars PROVE GInv'
  OBVIOUS
<1>1. ASSUME NEW c \in Core, Delegate(c) \/ Undelegate(c) PROVE GInv'
  BY <1>1, CallInv
<1>2. ASSUME NEW c \in Core, Flush(c) PROVE GInv'
  BY <1>2, FlushInv
<1>3. ASSUME NEW c \in Core, SetStep(c) PROVE GInv'
  BY <1>3, SetInv
<1>4. ASSUME NEW c \in Core, Tlbi(c) PROVE GInv'
  BY <1>4, TlbiInv
<1>5. ASSUME NEW c \in Core, Finish(c) PROVE GInv'
  BY <1>5, FinishInv
<1>6. ASSUME NEW g \in Granule, NEW p \in PAS, Access(g, p) PROVE GInv'
  BY <1>6, AccessInv
<1>7. CASE UNCHANGED vars
  <2>1. UNCHANGED <<l1, gpt_lock, todo, base_pa, lines, tlb>>
    BY <1>7 DEF vars, callVars
  <2>2. Gpi' = Gpi /\ GptTypeOK' /\ \A pa : set_result(pa)' = set_result(pa)
    BY <2>1, SameTable DEF GInv, TypeOK
  <2>3. TypeOK' /\ RestInv'
    BY <2>1, <2>2 DEF GInv, TypeOK, RestInv, Owned, Moving
  <2>4. HolderInv'
    BY <2>1, <2>2, ZenonT(60) DEF GInv, HolderInv, MoveInv, Owned, Withdrawn
  <2> QED
    BY <2>1, <2>3, <2>4 DEF GInv
<1> QED
  BY <1>1, <1>2, <1>3, <1>4, <1>5, <1>6, <1>7 DEF Next, Handler

\* GInv is an invariant: a granule is at a known stage of the one call that
\* moves it, or belongs to its owner alone.
THEOREM GranuleInvariance == Spec => []GInv
BY GInit, GNext, PTL DEF Spec

-----------------------------------------------------------------------------
(* What the worlds rely on.                                                *)

\* The world that owns a granule finds no older line in the caches, and none of
\* the other world that could be written back over its data.
THEOREM CachesAlwaysClean == Spec => []CachesClean
<1>1. GInv => CachesClean
  <2> SUFFICES ASSUME GInv, NEW g \in Granule, NEW p \in PAS, NEW q \in PAS,
                      Gpi[g] = p, Moving(g) => p = NonSecure
               PROVE  lines[g][p] # "left" /\ (q # p => lines[g][q] # "data")
    BY DEF CachesClean
  <2>1. Owned(g, p)
    <3>1. CASE ~Moving(g)
      BY <3>1 DEF GInv, RestInv
    <3>2. CASE Moving(g)
      <4>1. PICK c \in Core : gpt_lock = c /\ GranuleOf(base_pa[c]) = g
        BY <3>2 DEF Moving, GInv, TypeOK
      <4>2. PICK h \in Granule : base_pa[c] = GranuleBase(h) /\ MoveInv(c, h)
        BY <4>1, Holder
      <4>3. h = g
        BY <4>1, <4>2, Cut
      <4>4. Gpi[g] = NonSecure /\ NonSecure # Realm /\ NonSecure # NoAccess
        BY <3>2, Gpis DEF PAS
      <4>5. \E r \in PAS : Owned(g, r)
        BY <4>2, <4>3, <4>4 DEF MoveInv, Withdrawn, PAS
      <4> QED
        BY <4>5 DEF Owned
    <3> QED
      BY <3>1, <3>2
  <2> QED
    BY <2>1 DEF Owned
<1> QED
  BY <1>1, GranuleInvariance, PTL

\* Unless a call is moving it, no TLB lets anyone but the owner through to a
\* granule.
THEOREM OnlyOwnersAccess == Spec => []OwnerOnly
<1>1. GInv => OwnerOnly
  BY DEF GInv, RestInv, OwnerOnly, Owned
<1> QED
  BY <1>1, GranuleInvariance, PTL

-----------------------------------------------------------------------------
(* The refinement.                                                         *)

\* Which granule is on its way back, by what the lock's owner is doing.
ReturningCases ==
  /\ gpt_lock = NoCore => Returning = -1
  /\ \A c \in Core, g \in Granule :
       gpt_lock = c /\ base_pa[c] = GranuleBase(g) =>
         /\ Gpi[g] = NoAccess => Returning = g
         /\ Gpi[g] # NoAccess => Returning = -1

\* These are the values of Returning.
LEMMA ReturningIs == ReturningCases
<1>1. gpt_lock = NoCore => Returning = -1
  BY DEF Returning
<1>2. ASSUME NEW c \in Core, NEW g \in Granule,
             gpt_lock = c, base_pa[c] = GranuleBase(g)
      PROVE  /\ Gpi[g] = NoAccess => Returning = g
             /\ Gpi[g] # NoAccess => Returning = -1
  <2>1. c # NoCore /\ GranuleOf(GranuleBase(g)) = g
    BY TransitionAssumption, Cut
  <2>2. Gpi[g] = lookup(base_pa[gpt_lock])
    BY <1>2 DEF Gpi
  <2> QED
    BY <1>2, <2>1, <2>2 DEF Returning
<1> QED
  BY <1>1, <1>2 DEF ReturningCases

\* The same in the next state.
LEMMA ReturningWillBe == ReturningCases'
BY ReturningIs, PTL

\* The initial states are initial states of GranuleMap.
LEMMA MapInit == Init => Map!Init
<1> SUFFICES ASSUME Init PROVE Map!Init
  OBVIOUS
<1>1. GptTypeOK
  BY GInit DEF GInv, TypeOK
<1>2. Gpi \in [Granule -> GPIAccessType]
  BY <1>1, EveryGpi DEF Gpi
<1>3. Returning = -1
  BY ReturningIs DEF ReturningCases, Init
<1> QED
  BY <1>2, <1>3 DEF Map!Init

\* A write of the table is a move of GranuleMap, or is refused.
LEMMA SetMapped ==
  ASSUME GInv, NEW c \in Core, SetStep(c)
  PROVE  Map!Next \/ UNCHANGED <<Gpi, Returning>>
<1>1. Doing(c, "set") /\ todo[c] # <<>> /\ GptTypeOK /\ TypeOK
  BY DEF SetStep, Doing, GInv, TypeOK
<1>2. gpt_lock = c
  BY <1>1, Holder
<1>3. PICK g \in Granule : base_pa[c] = GranuleBase(g) /\ MoveInv(c, g)
  BY <1>1, Holder
<1>4. Realm # NoAccess /\ NonSecure # NoAccess
  BY Gpis DEF PAS
<1>5. CASE set_result(base_pa[c]) = Ok
  <2>1. SetMovesTo(c, g) /\ UNCHANGED <<gpt_lock, base_pa>>
    BY <1>3, <1>5, SetOk
  <2>2. gpt_lock' = c /\ base_pa'[c] = GranuleBase(g)
    BY <1>2, <1>3, <2>1
  <2>3. Gpi \in [Granule -> GPIAccessType]
    BY <1>1, EveryGpi DEF Gpi
  <2>4. CASE Gpi[g] = NonSecure /\ Gpi' = [Gpi EXCEPT ![g] = Realm]
    <3>1. Gpi'[g] = Realm
      BY <2>3, <2>4
    <3>2. Returning = -1 /\ Returning' = -1
      BY <1>2, <1>3, <1>4, <2>2, <2>4, <3>1, ReturningIs, ReturningWillBe
      DEF ReturningCases
    <3>3. Map!Delegate(g)
      BY <2>4, <3>2 DEF Map!Delegate, Map!Move
    <3> QED
      BY <3>3 DEF Map!Next
  <2>5. CASE Gpi[g] = Realm /\ Gpi' = [Gpi EXCEPT ![g] = NoAccess]
    <3>1. Gpi'[g] = NoAccess
      BY <2>3, <2>5
    <3>2. Returning = -1 /\ Returning' = g
      BY <1>2, <1>3, <1>4, <2>2, <2>5, <3>1, ReturningIs, ReturningWillBe
      DEF ReturningCases
    <3>3. Map!Withdraw(g)
      BY <2>5, <3>2 DEF Map!Withdraw, Map!Move
    <3> QED
      BY <3>3 DEF Map!Next
  <2>6. CASE Gpi[g] = NoAccess /\ Gpi' = [Gpi EXCEPT ![g] = NonSecure]
    <3>1. Gpi'[g] = NonSecure
      BY <2>3, <2>6
    <3>2. Returning = g /\ Returning' = -1
      BY <1>2, <1>3, <1>4, <2>2, <2>6, <3>1, ReturningIs, ReturningWillBe
      DEF ReturningCases
    <3>3. Map!Return(g)
      BY <2>6, <3>2 DEF Map!Return, Map!Move
    <3> QED
      BY <3>3 DEF Map!Next
  <2> QED
    BY <2>1, <2>4, <2>5, <2>6 DEF SetMovesTo
<1>6. CASE set_result(base_pa[c]) # Ok
  <2>1. PICK p \in PAS : Owned(g, p)
    BY <1>3, <1>6, SetRefused
  <2>2. gpt_lock' = NoCore /\ Gpi' = Gpi
    BY <1>3, <1>6, SetRefused, SameTable DEF Return
  <2>3. Gpi[g] # NoAccess
    BY <2>1, Gpis DEF Owned
  <2>4. Returning = -1 /\ Returning' = -1
    BY <1>2, <1>3, <2>2, <2>3, ReturningIs, ReturningWillBe DEF ReturningCases
  <2> QED
    BY <2>2, <2>4
<1> QED
  BY <1>5, <1>6

\* The other steps move no granule.
LEMMA OthersMapped ==
  ASSUME GInv, NEW c \in Core,
         Delegate(c) \/ Undelegate(c) \/ Flush(c) \/ Tlbi(c) \/ Finish(c)
  PROVE  UNCHANGED <<Gpi, Returning>>
<1>1. l1' = l1 /\ Gpi' = Gpi
  BY SameTable DEF Delegate, Undelegate, Call, Flush, Tlbi, Finish
<1>2. CASE UNCHANGED <<gpt_lock, base_pa>>
  BY <1>1, <1>2, SameTable DEF Returning
<1>3. CASE Finish(c)
  <2>1. gpt_lock = c /\ todo[c] = <<>> /\ gpt_lock' = NoCore
    BY <1>3 DEF Finish, Return
  <2>2. PICK g \in Granule : base_pa[c] = GranuleBase(g) /\ MoveInv(c, g)
    BY <2>1, Holder
  <2>3. PICK p \in PAS : Owned(g, p)
    BY <2>1, <2>2, NextStep
  <2>4. Gpi[g] # NoAccess
    BY <2>3, Gpis DEF Owned
  <2> QED
    BY <1>1, <2>1, <2>2, <2>4, ReturningIs, ReturningWillBe DEF ReturningCases
<1>4. ASSUME NEW from \in PAS, NEW pa \in PA, gpt_lock = NoCore,
             Checks(pa, from) = "Ok", gpt_lock' = c,
             base_pa' = [base_pa EXCEPT ![c] = pa]
      PROVE  UNCHANGED <<Gpi, Returning>>
  <2>1. PICK g \in Granule : pa = GranuleBase(g) /\ Owned(g, from)
    BY <1>4, Checked
  <2>2. base_pa'[c] = GranuleBase(g)
    BY <1>4, <2>1 DEF GInv, TypeOK
  <2>3. Gpi'[g] # NoAccess
    BY <1>1, <2>1, Gpis DEF Owned
  <2> QED
    BY <1>1, <1>4, <2>2, <2>3, ReturningIs, ReturningWillBe DEF ReturningCases
<1>5. NonSecure \in PAS /\ Realm \in PAS
  BY DEF PAS
<1> QED
  BY <1>2, <1>3, <1>4, <1>5
  DEF Delegate, Undelegate, Call, Flush, Tlbi, callVars

\* Every step is a step of GranuleMap, or a stutter.
LEMMA MapNext ==
  GInv /\ [Next]_vars => [Map!Next]_<<Gpi, Returning>>
<1> SUFFICES ASSUME GInv, [Next]_vars
             PROVE  Map!Next \/ UNCHANGED <<Gpi, Returning>>
  OBVIOUS
<1>1. ASSUME NEW g \in Granule, NEW p \in PAS, Access(g, p)
      PROVE  UNCHANGED <<Gpi, Returning>>
  BY <1>1, SameTable DEF Access, callVars, Returning
<1>2. CASE UNCHANGED vars
  BY <1>2, SameTable DEF vars, callVars, Returning
<1> QED
  BY <1>1, <1>2, SetMapped, OthersMapped DEF Next, Handler

\* GTSI_DELEGATE and GTSI_UNDELEGATE move single granules between the normal
\* and the realm world, and nothing else, for every size of the table.
THEOREM GranuleMapImplemented == Spec => ImplementsGranuleMap
BY GranuleInvariance, MapInit, MapNext, PTL
DEF Spec, ImplementsGranuleMap, Map!Spec
=============================================================================
