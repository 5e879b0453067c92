------------------------------- MODULE Sha256 -------------------------------
(***************************************************************************)
(* The buffering and the padding of SHA-256 (src/sha256.h), for blocks of  *)
(* any size.  The compression of a block is taken as free of collisions:   *)
(* the hash is the sequence of the blocks that have been compressed.       *)
(***************************************************************************)
EXTENDS Integers, SequencesExt, FiniteSetsExt

CONSTANTS
  Block,    \* bytes of a block (64)
  LenSize   \* bytes of the length at its end (8)

ASSUME Sha256Assumption == LenSize \in Nat \ {0} /\ Block \in Nat /\ LenSize < Block

Mark == 128

\* The state: h, total and the part of buf in use, which is never all of it.
State == [h : Seq(Seq(Nat)), total : Nat, buf : {b \in Seq(Nat) : Len(b) < Block}]

Start == [h |-> <<>>, total |-> 0, buf |-> <<>>]

Process(s) == [h |-> Append(s.h, s.buf), total |-> s.total, buf |-> <<>>]

\* The loop of update(), for a state and the data that are left.
Absorb[x \in State \X Seq(Nat)] ==
  LET s    == x[1]
      data == x[2]
      take == Min({Block - Len(s.buf), Len(data)})
      t    == [s EXCEPT !.buf = @ \o SubSeq(data, 1, take)]
  IN  IF data = <<>> THEN s
      ELSE Absorb[<<IF Len(t.buf) = Block THEN Process(t) ELSE t,
                    SubSeq(data, take + 1, Len(data))>>]

Update(s, data) == Absorb[<<[s EXCEPT !.total = @ + Len(data)], data>>]

PadZeros[s \in State] ==
  IF Len(s.buf) = Block - LenSize THEN s ELSE PadZeros[Update(s, <<0>>)]

\* n as LenSize bytes, the highest first.
LengthBytes(n) ==
  LET shifted[k \in 0..LenSize] == IF k = 0 THEN n ELSE shifted[k - 1] \div 256
  IN  [i \in 1..LenSize |-> shifted[LenSize - i] % 256]

\* The length is taken when it is written, with the padding in it.
FinishCountsPadding(s) ==
  LET t == PadZeros[Update(s, <<Mark>>)]
  IN  Update(t, LengthBytes(8 * t.total)).h

\* The length is taken before the padding, which update() counts too.
Finish(s) ==
  LET bits == 8 * s.total
  IN  Update(PadZeros[Update(s, <<Mark>>)], LengthBytes(bits)).h

Hash(data) == Finish(Update(Start, data))

-----------------------------------------------------------------------------

Zeros(k) == [i \in 1..k |-> 0]

\* The padded message of FIPS 180-4: a mark, the least number of zeros, the
\* length in bits.
Padded(data) ==
  LET zeros == CHOOSE k \in 0..Block - 1 : (Len(data) + 1 + k + LenSize) % Block = 0
  IN  data \o <<Mark>> \o Zeros(zeros) \o LengthBytes(8 * Len(data))

\* What a message has of whole blocks.
Blocks(p) == [b \in 1 .. Len(p) \div Block |-> SubSeq(p, Block * (b - 1) + 1, Block * b)]

\* What a hash should be.
Digest(data) == Blocks(Padded(data))
=============================================================================
