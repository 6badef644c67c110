-------------------------------- MODULE Trng --------------------------------
(***************************************************************************)
(* The TRNG service (src/services/trng.rs): a ring buffer of bits between  *)
(* an entropy source that delivers whole words and callers that ask for    *)
(* any number of bits.  A call holds the pool's SpinMutex from its first   *)
(* draw to its answer, so there is one call at a time.                     *)
(*                                                                         *)
(* A bit is the serial number under which the source delivered it, modulo  *)
(* a number larger than what the pool and one answer can hold together.    *)
(***************************************************************************)
EXTENDS Integers, SequencesExt

CONSTANTS BITS_PER_WORD,         \* 64 in the code, an even number
          REQ_WORDS              \* words per request to the source

VARIABLES entropy,               \* the words of the pool
          entropy_bit_index,     \* position of the oldest bit
          entropy_bit_size,      \* number of bits in the pool
          call,                  \* the call that holds the lock
          answer,                \* what the last call returned
          drawn                  \* serial number of the source's next bit

vars == <<entropy, entropy_bit_index, entropy_bit_size, call, answer, drawn>>

W == BITS_PER_WORD
TRNG_RND64_ENTROPY_MAXBITS == 3 * W
TRNG_RND32_ENTROPY_MAXBITS == 3 * (W \div 2)

words_in_pool(req_words) == TRNG_RND64_ENTROPY_MAXBITS \div W + req_words
WORDS_IN_POOL == words_in_pool(REQ_WORDS)
bits_in_pool == WORDS_IN_POOL * W

Serials == 2 * bits_in_pool
Zero == -1                       \* a bit that was cleared
Mixed == -2                      \* two source bits combined by an `or`
Bit == 0 .. (Serials - 1) \cup {Zero, Mixed}
Word == [0 .. (W - 1) -> Bit]
Zeros == [b \in 0 .. (W - 1) |-> Zero]

Nobody == [size |-> 0, nbits |-> 0]
Calls == [size : {32}, nbits : 1 .. TRNG_RND32_ENTROPY_MAXBITS]
         \cup [size : {64}, nbits : 1 .. TRNG_RND64_ENTROPY_MAXBITS]
NoRegs == [r \in 1 .. 3 |-> Zeros]
Answers == [code : {"none", "Ok", "InvalidParams", "NoEntropy"},
            call : Calls \cup {Nobody}, regs : [1 .. 3 -> Word]]

\* The last conjunct is the assertion of fill_entropy.
TypeOK ==
  /\ entropy \in [0 .. (WORDS_IN_POOL - 1) -> Word]
  /\ entropy_bit_index \in 0 .. (bits_in_pool - 1)
  /\ call \in Calls \cup {Nobody}
  /\ answer \in Answers
  /\ drawn \in 0 .. (Serials - 1)
  /\ entropy_bit_size \in 0 .. bits_in_pool

Init ==
  /\ entropy = [w \in 0 .. (WORDS_IN_POOL - 1) |-> Zeros]
  /\ entropy_bit_index = 0 /\ entropy_bit_size = 0
  /\ call = Nobody
  /\ answer = [code |-> "none", call |-> Nobody, regs |-> NoRegs]
  /\ drawn = 0

-----------------------------------------------------------------------------
(* Operations on words.                                                    *)

Or(v, w) == [b \in 0 .. (W - 1) |->
               IF v[b] = Zero THEN w[b] ELSE IF w[b] = Zero THEN v[b] ELSE Mixed]
Shr(w, n) == [b \in 0 .. (W - 1) |-> IF b + n < W THEN w[b + n] ELSE Zero]
Shl(w, n) == [b \in 0 .. (W - 1) |-> IF b >= n THEN w[b - n] ELSE Zero]
KeepFrom(w, n) == [b \in 0 .. (W - 1) |-> IF b >= n THEN w[b] ELSE Zero]
KeepBelow(w, n) == [b \in 0 .. (W - 1) |-> IF b < n THEN w[b] ELSE Zero]

-----------------------------------------------------------------------------
(* The handlers.                                                           *)

Answer(code, regs) == answer' = [code |-> code, call |-> call, regs |-> regs]

\* trng_rnd32 and trng_rnd64 take the lock unless the length is out of range.
Request ==
  /\ call = Nobody
  /\ \/ call' \in Calls /\ UNCHANGED answer
     \/ Answer("InvalidParams", NoRegs) /\ UNCHANGED call
  /\ UNCHANGED <<entropy, entropy_bit_index, entropy_bit_size, drawn>>

\* One round of the loop of fill_entropy.
fill_entropy ==
  LET free_word == ((entropy_bit_size + entropy_bit_index) \div W) % WORDS_IN_POOL
      \* Offset of pool word w among the words drawn, if it is below REQ_WORDS.
      Offset(w) == (w - free_word) % WORDS_IN_POOL
  IN  /\ call.nbits > entropy_bit_size
      /\ entropy' = [w \in DOMAIN entropy |->
           IF Offset(w) < REQ_WORDS
           THEN [b \in 0 .. (W - 1) |-> (drawn + Offset(w) * W + b) % Serials]
           ELSE entropy[w]]
      /\ entropy_bit_size' = entropy_bit_size + REQ_WORDS * W
      /\ drawn' = (drawn + REQ_WORDS * W) % Serials
      /\ UNCHANGED <<entropy_bit_index, call, answer>>

\* get_entropy fails; what earlier rounds drew stays in the pool.
SourceFails ==
  /\ call.nbits > entropy_bit_size
  /\ Answer("NoEntropy", NoRegs)
  /\ call' = Nobody
  /\ UNCHANGED <<entropy, entropy_bit_index, entropy_bit_size, drawn>>

\* Mutant: the bits left in the upper word are discarded with it.
PackWordGreedily(s, idx) ==
  LET rshift == entropy_bit_index % W
      i0 == (entropy_bit_index \div W + idx) % WORDS_IN_POOL
      i1 == (i0 + 1) % WORDS_IN_POOL
  IN  [entropy |-> [s.entropy EXCEPT ![i0] = Zeros, ![i1] = Zeros],
       out |-> [s.out EXCEPT ![idx + 1] =
                  IF rshift = 0 THEN s.entropy[i0]
                  ELSE Or(Shr(s.entropy[i0], rshift),
                          Shl(s.entropy[i1], W - rshift))],
       discard |-> s.discard]

\* One iteration of the loop of pack_entropy: an output word is put together
\* from two words of the pool, and the bits used are cleared there.
PackWord(s, idx) ==
  LET rshift == entropy_bit_index % W
      i0 == (entropy_bit_index \div W + idx) % WORDS_IN_POOL
      i1 == (entropy_bit_index \div W + idx + 1) % WORDS_IN_POOL
      lower == [s.entropy EXCEPT ![i0] =
                  IF s.discard < W - rshift THEN KeepFrom(@, s.discard + rshift)
                  ELSE Zeros]
      left == IF s.discard < W - rshift THEN 0 ELSE s.discard - (W - rshift)
      word == Shr(s.entropy[i0], rshift)
  IN  IF rshift = 0
      THEN [entropy |-> lower, out |-> [s.out EXCEPT ![idx + 1] = word],
            discard |-> left]
      ELSE [entropy |-> [lower EXCEPT ![i1] =
                           KeepFrom(@, IF left < rshift THEN left ELSE rshift)],
            out |-> [s.out EXCEPT ![idx + 1] =
                       Or(word, Shl(lower[i1], W - rshift))],
            discard |-> IF left < rshift THEN 0 ELSE left - rshift]

\* The higher bits of the last word are masked off.
Masked(out, nbits) ==
  IF nbits % W = 0 THEN out
  ELSE [out EXCEPT ![nbits \div W + 1] = KeepBelow(@, nbits % W)]

\* The registers of the answer, x3 first: w1 to w3 hold half a word each.
Registers(out) ==
  IF call.size = 64 THEN out
  ELSE [r \in 1 .. 3 |-> IF r = 1 THEN KeepBelow(out[1], W \div 2)
                         ELSE IF r = 2 THEN Shr(out[1], W \div 2) ELSE out[2]]

\* The end of pack_entropy, the pool being filled.
pack_entropy ==
  LET nbits == call.nbits
      to_fill == (nbits + W - 1) \div W
      s == FoldLeft(PackWord,
                    [entropy |-> entropy, out |-> NoRegs, discard |-> nbits],
                    [k \in 1 .. to_fill |-> k - 1])
  IN  /\ call # Nobody /\ nbits <= entropy_bit_size
      /\ entropy' = s.entropy
      /\ entropy_bit_index' = (entropy_bit_index + nbits) % bits_in_pool
      /\ entropy_bit_size' = entropy_bit_size - nbits
      /\ Answer("Ok", Registers(Masked(s.out, nbits)))
      /\ call' = Nobody
      /\ UNCHANGED drawn

Next == Request \/ fill_entropy \/ SourceFails \/ pack_entropy

Spec == Init /\ [][Next]_vars

-----------------------------------------------------------------------------
(* Properties.                                                             *)

\* Serial number of the oldest bit that was not given out.
Oldest == (drawn - entropy_bit_size) % Serials

\* The pool holds the bits that were drawn and not given out, in their order,
\* and zeros everywhere else: no draw overwrites one of them, whatever the
\* position in the ring, and no bit that was given out can be read again.
PoolExact ==
  \A i \in 0 .. (bits_in_pool - 1) :
    LET p == (entropy_bit_index + i) % bits_in_pool
    IN  entropy[p \div W][p % W] =
          IF i < entropy_bit_size THEN (Oldest + i) % Serials ELSE Zero

\* An answer holds the bits that were oldest, each once and in its place, and
\* zeros above them, whichever two words of the pool each register came from.
AnswerExact ==
  answer.code = "Ok" /\ call = Nobody =>
    LET width == IF answer.call.size = 64 THEN W ELSE W \div 2
        nbits == answer.call.nbits
    IN  \A r \in 1 .. 3 : \A b \in 0 .. (W - 1) :
          answer.regs[r][b] =
            IF b < width /\ (r - 1) * width + b < nbits
            THEN (Oldest - nbits + (r - 1) * width + b) % Serials
            ELSE Zero

\* Every bit is given out exactly once: a step gives out what it returns, and a
\* call that fails after it drew some words loses none of them.
GivesOutWhatItReturns ==
  Oldest' = IF call # Nobody /\ call' = Nobody /\ answer'.code = "Ok"
            THEN (Oldest + call.nbits) % Serials ELSE Oldest

\* The three together, for every step.
BitsGivenOutOnce == [][GivesOutWhatItReturns /\ PoolExact' /\ AnswerExact']_vars
=============================================================================
