---------------------------- MODULE MemoryLogger ----------------------------
(***************************************************************************)
(* The in-memory logger (src/logger/inmemory.rs): a circular buffer of     *)
(* bytes into which strings are written whole, whose oldest bytes are      *)
(* overwritten, and which is read back as text.                            *)
(*                                                                         *)
(* A byte is its place in a UTF-8 character and a serial number; `log` is  *)
(* the history of the bytes written since the last reset, as far back as   *)
(* the character that contains the oldest byte of the buffer.              *)
(***************************************************************************)
EXTENDS Integers, Sequences, SequencesExt, FiniteSetsExt

CONSTANTS BUFFER_SIZE,
          CharLen,               \* the lengths of UTF-8 characters in use
          MaxChars               \* bound: characters in one written string

VARIABLES next_offset, logged_bytes_count, buffer, log

vars == <<next_offset, logged_bytes_count, buffer, log>>

\* A serial number is unique among the bytes the buffer and the log can hold.
Serials == BUFFER_SIZE + 4
Byte == [pos : 0 .. 3, len : CharLen, serial : 0 .. (Serials - 1)]
Blank == [pos |-> 0, len |-> 1, serial |-> Serials]

TypeOK ==
  /\ next_offset \in 0 .. (BUFFER_SIZE - 1)
  /\ logged_bytes_count \in 0 .. BUFFER_SIZE
  /\ logged_bytes_count < BUFFER_SIZE => next_offset = logged_bytes_count
  /\ buffer \in [0 .. (BUFFER_SIZE - 1) -> Byte \cup {Blank}]
  /\ \A i \in DOMAIN log : log[i] \in Byte

Init ==
  /\ next_offset = 0 /\ logged_bytes_count = 0
  /\ buffer = [i \in 0 .. (BUFFER_SIZE - 1) |-> Blank]
  /\ log = <<>>

-----------------------------------------------------------------------------
(* Writing.                                                                *)

\* The bytes of one character, and of a string of characters.
Encode(len, first) ==
  [i \in 1 .. len |-> [pos |-> i - 1, len |-> len,
                       serial |-> (first + i - 1) % Serials]]
EncodeAll(lens, first) ==
  FoldLeft(LAMBDA bytes, len : bytes \o Encode(len, first + Len(bytes)),
           <<>>, lens)

\* The history, without the characters that have left the buffer.
Recent(bytes) ==
  LET oldest == Max({1, Len(bytes) - BUFFER_SIZE + 1})
      start == Max({i \in 1 .. oldest : i = 1 \/ bytes[i].pos = 0})
  IN  SubSeq(bytes, start, Len(bytes))

\* What is kept of a string that does not fit: its end.
Fitting(bytes) ==
  IF Len(bytes) > BUFFER_SIZE
  THEN SubSeq(bytes, Len(bytes) - BUFFER_SIZE + 1, Len(bytes)) ELSE bytes

\* The count is only ever compared with BUFFER_SIZE, and saturates there.
add_bytes(all) ==
  LET bytes == Fitting(all)
      buffer_end_len == Min({Len(bytes), BUFFER_SIZE - next_offset})
  IN  /\ logged_bytes_count' = Min({BUFFER_SIZE, logged_bytes_count + Len(all)})
      /\ buffer' = [i \in DOMAIN buffer |->
           IF next_offset <= i /\ i < next_offset + buffer_end_len
           THEN bytes[i - next_offset + 1]
           ELSE IF i < Len(bytes) - buffer_end_len
           THEN bytes[buffer_end_len + i + 1]
           ELSE buffer[i]]
      /\ next_offset' = (next_offset + Len(bytes)) % BUFFER_SIZE

write_str ==
  \E n \in 0 .. MaxChars : \E lens \in [1 .. n -> CharLen] :
    LET first == IF log = <<>> THEN 0 ELSE Last(log).serial + 1
        bytes == EncodeAll(lens, first)
    IN  add_bytes(bytes) /\ log' = Recent(log \o bytes)

reset ==
  /\ next_offset' = 0 /\ logged_bytes_count' = 0
  /\ log' = <<>>
  /\ UNCHANGED buffer

-----------------------------------------------------------------------------
(* Reading.                                                                *)

Rotated == [i \in DOMAIN buffer |-> buffer[(i + next_offset) % BUFFER_SIZE]]

\* Mutant: the offset of the oldest byte is not reset.
OffsetKept ==
  IF logged_bytes_count < BUFFER_SIZE THEN UNCHANGED <<buffer, next_offset>>
  ELSE buffer' = Rotated /\ UNCHANGED next_offset

shift_to_start ==
  IF logged_bytes_count < BUFFER_SIZE THEN UNCHANGED <<buffer, next_offset>>
  ELSE buffer' = Rotated /\ next_offset' = 0

\* The bytes as_str looks at, the oldest first.
Contents ==
  LET b == IF logged_bytes_count < BUFFER_SIZE THEN buffer ELSE Rotated
  IN  [i \in 1 .. Min({BUFFER_SIZE, logged_bytes_count}) |-> b[i - 1]]

\* str::from_utf8: the bytes from i on are those of a whole character.
CharAt(s, i) ==
  /\ s[i].pos = 0 /\ i + s[i].len - 1 <= Len(s)
  /\ \A k \in 1 .. (s[i].len - 1) :
       s[i + k].pos = k /\ s[i + k].serial = (s[i].serial + k) % Serials
Valid(s) == \A i \in DOMAIN s : \E j \in 1 .. i : CharAt(s, j) /\ i < j + s[j].len

\* Utf8Error::error_len of the first error, 0 for None: a byte that starts no
\* character is one byte long, a character cut short as long as what is there.
ErrorLen(s) ==
  LET i == Min({i \in DOMAIN s :
                  ~ \E j \in 1 .. i : CharAt(s, j) /\ i < j + s[j].len})
      run == Max({n \in 1 .. (Len(s) - i + 1) :
                    \A k \in 0 .. (n - 1) : s[i + k].pos = k})
  IN  IF s[i].pos > 0 THEN 1 ELSE IF i + run > Len(s) THEN 0 ELSE run

\* The loop of as_str: errors are dropped from the front of the bytes.
ValidSuffix(s) ==
  LET text[k \in 0 .. Len(s)] ==
        LET current == SubSeq(s, k + 1, Len(s))
        IN  IF Valid(current) THEN current
            ELSE IF ErrorLen(current) = 0 THEN <<>>
            ELSE text[k + ErrorLen(current)]
  IN  text[0]

as_str == shift_to_start /\ UNCHANGED <<logged_bytes_count, log>>

Next == write_str \/ reset \/ as_str

Spec == Init /\ [][Next]_vars

-----------------------------------------------------------------------------
(* Properties.                                                             *)

\* However writes, reads (which rotate the buffer in place) and resets follow
\* one another, the buffer holds the last bytes logged since the reset, in
\* order, as many of them as fit, and nothing older.
HoldsTheTail ==
  LET kept == Min({BUFFER_SIZE, Len(log)})
  IN  Contents = SubSeq(log, Len(log) - kept + 1, Len(log))

\* as_str returns every character that is whole in the buffer and no part of
\* one that was overwritten: nothing readable is dropped with the broken bytes,
\* even when the buffer is smaller than the character it starts in.
ReadsWholeCharacters ==
  ValidSuffix(Contents) =
    LET start == {i \in 1 .. Len(log) : log[i].pos = 0
                                        /\ Len(log) - i < BUFFER_SIZE}
    IN  IF start = {} THEN <<>> ELSE SubSeq(log, Min(start), Len(log))
=============================================================================
