---------------------------- MODULE ReplayWindow ----------------------------
(***************************************************************************)
(* crypto::ReplayWindow: the multi-word bitmap that a session keeps of the *)
(* nonces it has received.  Bit 0 of word 0 stands for `highest`, higher   *)
(* offsets for older nonces.                                               *)
(*                                                                         *)
(* A machine word is the set of its bits that are one, so `<<`, `>>`, `|`  *)
(* and `&` are operations on sets of bit positions.  The code has          *)
(* WordBits = 64 and Words = 16; everything here is for any size.          *)
(***************************************************************************)
EXTENDS Integers

CONSTANTS
    WordBits,   \* bits in a word (64)
    Words,      \* REPLAY_WORDS
    MaxNonce    \* largest nonce (u64::MAX)

ASSUME WordBitsAssumption == WordBits \in Nat \ {0}
ASSUME WordsAssumption == Words \in Nat \ {0}
ASSUME MaxNonceAssumption == MaxNonce \in Nat

VARIABLES
    highest,
    bitmap,
    accepted,   \* history: the nonces check_and_update said true to
    verdict     \* the last call and its result

vars == <<highest, bitmap, accepted, verdict>>

Nonce == 0 .. MaxNonce
WordIndex == 0 .. Words - 1
Word == SUBSET (0 .. WordBits - 1)

\* REPLAY_WINDOW
Window == Words * WordBits

Zeroes == [i \in WordIndex |-> {}]

-----------------------------------------------------------------------------
(* Machine words. *)

\* Mutation of Shl: the bits shifted out of the word stay.
ShlWide(w, k) == {b + k : b \in w}

Shl(w, k) == {b \in 0 .. WordBits - 1 : b - k \in w}

Shr(w, k) == {b \in 0 .. WordBits - 1 : b + k \in w}

test_bit(bits, offset) ==
    LET word == offset \div WordBits
        bit == offset % WordBits
    IN  word < Words /\ bit \in bits[word]

set_bit(bits, offset) ==
    LET word == offset \div WordBits
        bit == offset % WordBits
    IN  IF word < Words
        THEN [bits EXCEPT ![word] = @ \cup {bit}]
        ELSE bits

\* The first loop of shift_left: from the last word down, so that every word
\* is read before it is overwritten.
MoveWords(bits, word_shift) ==
    [i \in WordIndex |-> IF i - word_shift >= 0 THEN bits[i - word_shift] ELSE {}]

\* Mutation of MoveBits: the carry between words is dropped.
MoveBitsNoCarry(bits, bit_shift) == [i \in WordIndex |-> Shl(bits[i], bit_shift)]

\* The second loop: every word takes the carry of the one before it.
MoveBits(bits, bit_shift) ==
    [i \in WordIndex |->
        Shl(bits[i], bit_shift)
            \cup (IF i = 0 THEN {} ELSE Shr(bits[i - 1], WordBits - bit_shift))]

shift_left(bits, shift) ==
    IF shift >= Window
    THEN Zeroes
    ELSE LET word_shift == shift \div WordBits
             bit_shift == shift % WordBits
             moved == IF word_shift > 0 THEN MoveWords(bits, word_shift) ELSE bits
         IN  IF bit_shift > 0 THEN MoveBits(moved, bit_shift) ELSE moved

-----------------------------------------------------------------------------
Init ==
    /\ highest = 0
    /\ bitmap = Zeroes
    /\ accepted = {}
    /\ verdict = [nonce |-> 0, ok |-> TRUE]     \* nothing was refused yet

Returns(nonce, ok) ==
    /\ verdict' = [nonce |-> nonce, ok |-> ok]
    /\ accepted' = IF ok THEN accepted \cup {nonce} ELSE accepted

\* nonce > self.highest: slide the window up to the new nonce.
Advance(nonce) ==
    /\ nonce > highest
    /\ LET shift == nonce - highest
           slid == IF shift >= Window THEN Zeroes ELSE shift_left(bitmap, shift)
       IN  bitmap' = set_bit(slid, 0)
    /\ highest' = nonce
    /\ Returns(nonce, TRUE)

\* A nonce at or below `highest`, still covered and not yet marked.
Fill(nonce) ==
    /\ nonce <= highest
    /\ highest - nonce < Window
    /\ ~ test_bit(bitmap, highest - nonce)
    /\ bitmap' = set_bit(bitmap, highest - nonce)
    /\ Returns(nonce, TRUE)
    /\ UNCHANGED highest

\* Mutation of Refuse: a nonce too old to be covered passes.
RefuseMarked(nonce) ==
    /\ nonce <= highest
    /\ \/ highest - nonce >= Window /\ Returns(nonce, TRUE)
       \/ highest - nonce < Window /\ test_bit(bitmap, highest - nonce) /\ Returns(nonce, FALSE)
    /\ UNCHANGED <<highest, bitmap>>

\* Mutation of Refuse: the oldest nonce that the window covers is too old.
RefuseOldest(nonce) ==
    /\ nonce <= highest
    /\ \/ highest - nonce >= Window - 1
       \/ test_bit(bitmap, highest - nonce)
    /\ Returns(nonce, FALSE)
    /\ UNCHANGED <<highest, bitmap>>

\* Too old, or already marked.
Refuse(nonce) ==
    /\ nonce <= highest
    /\ \/ highest - nonce >= Window
       \/ test_bit(bitmap, highest - nonce)
    /\ Returns(nonce, FALSE)
    /\ UNCHANGED <<highest, bitmap>>

check_and_update(nonce) == Advance(nonce) \/ Fill(nonce) \/ Refuse(nonce)

Next == \E nonce \in Nonce : check_and_update(nonce)

Spec == Init /\ [][Next]_vars

-----------------------------------------------------------------------------
(* Properties. *)

\* The state is well typed: `highest` is a nonce, the bitmap an array of words.
TypeOK ==
    /\ highest \in Nonce
    /\ bitmap \in [WordIndex -> Word]
    /\ accepted \in SUBSET Nonce
    /\ verdict \in [nonce : Nonce, ok : BOOLEAN]

\* The bitmap is exact: the bit at an offset is set if and only if the nonce
\* that far behind `highest` was accepted.  A bit lost when words are shifted
\* would let a packet in twice, a bit left over would drop a good packet.
WindowExact ==
    /\ \A offset \in 0 .. Window - 1 :
          test_bit(bitmap, offset) <=>
             (offset <= highest /\ highest - offset \in accepted)
    /\ \A n \in accepted : n <= highest

\* check_and_update implements the abstract replay filter: it says true exactly
\* to the nonces that were never accepted and that the window covers.
Abstract == INSTANCE AntiReplay WITH filter <- [top |-> highest, taken |-> accepted]
ImplementsAntiReplay == Abstract!Spec
=============================================================================
