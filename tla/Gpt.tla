--------------------------------- MODULE Gpt ---------------------------------
(***************************************************************************)
(* The Granule Protection Table (src/gpt.rs, src/gpt/table.rs): two levels *)
(* of descriptors that say which physical address space each granule of    *)
(* memory belongs to.  A descriptor is a row of four bit fields, field 0   *)
(* the lowest; that a level 1 descriptor is told apart by the same field   *)
(* that holds the GPI of its first granule is kept.                        *)
(***************************************************************************)
EXTENDS Integers

CONSTANTS PPS,                   \* address bits protected by the table
          L0GPTSZ,               \* address bits per level 0 entry
          PGS,                   \* address bits per granule
          FIELD_BITS,            \* fields per level 1 descriptor: 4 in the code
          L0                     \* level 0 table, which is never written

VARIABLE l1                      \* the level 1 tables: [table][index][field]

\* GPIAccessType.
NoAccess == 0
Secure == 8
NonSecure == 9
Root == 10
Realm == 11
Any == 15
GPIAccessType == {NoAccess, Secure, NonSecure, Root, Realm, Any}

\* GranuleError and success.
Ok == -1
InvalidRequest == -2
InvalidEntry == -3               \* InvalidL0Entry, InvalidL1Entry, and unwrap
                                 \* of a GPI in a block or contiguous descriptor

Nibble == 0 .. 15
Field == 0 .. (2 ^ FIELD_BITS - 1)
L1Index == 0 .. (2 ^ (L0GPTSZ - (PGS + FIELD_BITS)) - 1)
L0Index == 0 .. (2 ^ (PPS - L0GPTSZ) - 1)
Level1Descriptor == [Field -> Nibble]
Level0Descriptor == [tag : Nibble, gpi : Nibble, table : L0Index]

ASSUME GptAssumption ==
  /\ PPS \in Nat /\ L0GPTSZ \in Nat /\ PGS \in Nat /\ FIELD_BITS \in Nat \ {0}
  /\ PGS + FIELD_BITS <= L0GPTSZ /\ L0GPTSZ <= PPS
  /\ L0 \in [L0Index -> Level0Descriptor]

\* The laws of exponents, for the sizes the address is cut into.
ASSUME SizeAssumption ==
  /\ 2 ^ PGS \in Nat \ {0} /\ 2 ^ FIELD_BITS \in Nat \ {0, 1}
  /\ 2 ^ (L0GPTSZ - (PGS + FIELD_BITS)) \in Nat \ {0}
  /\ 2 ^ (PPS - L0GPTSZ) \in Nat \ {0} /\ 2 ^ (PPS - PGS) \in Nat \ {0}
  /\ 2 ^ (PGS + FIELD_BITS) = 2 ^ PGS * 2 ^ FIELD_BITS
  /\ 2 ^ L0GPTSZ = 2 ^ (PGS + FIELD_BITS) * 2 ^ (L0GPTSZ - (PGS + FIELD_BITS))
  /\ 2 ^ PPS = 2 ^ L0GPTSZ * 2 ^ (PPS - L0GPTSZ)
  /\ 2 ^ PPS = 2 ^ PGS * 2 ^ (PPS - PGS)

PgsSize == 2 ^ PGS
Granule == 0 .. (2 ^ (PPS - PGS) - 1)
GranuleBase(g) == g * PgsSize
GranuleOf(pa) == pa \div PgsSize

\* Mutant: the fields of a descriptor are numbered from the wrong bit.
ResolveOneBitUp(pa) == (pa \div 2 ^ (PGS + 1)) % 2 ^ FIELD_BITS

l0_resolve(pa) == (pa % 2 ^ PPS) \div 2 ^ L0GPTSZ
l1_resolve(pa) == (pa % 2 ^ L0GPTSZ) \div 2 ^ (PGS + FIELD_BITS)
granule_resolve(pa) == (pa \div 2 ^ PGS) % 2 ^ FIELD_BITS

is_block(d) == d.tag = 1
is_table(d) == d.tag = 3
is_contig(d) == d[0] = 1

\* Mutant: a first granule that nobody may access makes the descriptor invalid.
GranuleUnlessNoAccess(d) == d[0] \in GPIAccessType \ {NoAccess}

is_granule(d) == d[0] \in GPIAccessType

\* A table is programmed correctly: all level 1 descriptors are contiguous ones
\* or rows of GPIs.
ProgrammedCorrectly(tables) ==
  /\ tables \in [L0Index -> [L1Index -> Level1Descriptor]]
  /\ \A t \in L0Index : \A i \in L1Index :
       \/ is_contig(tables[t][i]) /\ tables[t][i][1] \in GPIAccessType
       \/ \A f \in Field : tables[t][i][f] \in GPIAccessType

GptTypeOK == ProgrammedCorrectly(l1)

AsGpi(n) == IF n \in GPIAccessType THEN n ELSE InvalidEntry

L0Entry(pa) == L0[l0_resolve(pa)]
L1Entry(pa) == l1[L0Entry(pa).table][l1_resolve(pa)]

\* GranuleProtection::lookup: the GPI of an address, or an error.
lookup(pa) ==
  IF pa >= 2 ^ PPS THEN InvalidRequest
  ELSE IF is_block(L0Entry(pa)) THEN AsGpi(L0Entry(pa).gpi)
  ELSE IF ~is_table(L0Entry(pa)) THEN InvalidEntry
  ELSE IF is_contig(L1Entry(pa)) THEN AsGpi(L1Entry(pa)[1])
  ELSE IF is_granule(L1Entry(pa)) THEN AsGpi(L1Entry(pa)[granule_resolve(pa)])
  ELSE InvalidEntry

\* GranuleProtection::set, what it returns: only single granules can change.
set_result(pa) ==
  IF pa >= 2 ^ PPS \/ is_block(L0Entry(pa)) THEN InvalidRequest
  ELSE IF ~is_table(L0Entry(pa)) THEN InvalidEntry
  ELSE IF is_contig(L1Entry(pa)) THEN InvalidRequest
  ELSE IF is_granule(L1Entry(pa)) THEN Ok
  ELSE InvalidEntry

\* GranuleProtection::set, what it writes (set_gpi).
set_gpi(pa, gpi) ==
  l1' = [l1 EXCEPT ![L0Entry(pa).table][l1_resolve(pa)][granule_resolve(pa)]
                     = gpi]
=============================================================================
