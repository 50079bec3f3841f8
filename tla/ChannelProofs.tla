---------------------------- MODULE ChannelProofs ----------------------------
(***************************************************************************)
(* Proofs about crypto::ReplayWindow, for every word size, number of words *)
(* and range of nonces: the bitmap is exact, and the window implements the *)
(* abstract replay filter; and about Channel, for every set of payloads.   *)
(*                                                                         *)
(* A step of the channel does to the receiver's window what a step of      *)
(* ReplayWindow does, or nothing, so that its invariant is at hand here.   *)
(* The rest is about the datagrams: they are numbered without gaps and     *)
(* without repetition, and the window has taken exactly the numbers of     *)
(* those that were delivered or that came in damaged.                      *)
(***************************************************************************)
EXTENDS Channel, TLAPS

USE WordBitsAssumption, WordsAssumption, MaxNonceAssumption

-----------------------------------------------------------------------------
(* Arithmetic of offset / 64 and offset % 64. *)

\* A positive multiple of B is at least B.
LEMMA MultipleBound ==
    ASSUME NEW B \in Nat \ {0}, NEW k \in Nat \ {0}
    PROVE  k * B >= B
BY SMT

\* Products distribute over a difference.
LEMMA MultipleOfDifference ==
    ASSUME NEW B \in Nat, NEW a \in Int, NEW b \in Int
    PROVE  /\ (a - b) * B = a * B - b * B
           /\ a * B \in Int
           /\ b * B \in Int
BY SMT

\* Quotient and remainder make up the number.
LEMMA DivMod ==
    ASSUME NEW B \in Nat \ {0}, NEW x \in Nat
    PROVE  /\ x \div B \in Nat
           /\ x % B \in 0 .. B - 1
           /\ x = (x \div B) * B + (x % B)
BY SMT

\* A number has only one quotient and one remainder.
LEMMA DivModUnique ==
    ASSUME NEW B \in Nat \ {0}, NEW x \in Nat, NEW q \in Int, NEW r \in 0 .. B - 1,
           x = q * B + r
    PROVE  x \div B = q /\ x % B = r
<1> DEFINE p == x \div B
<1> DEFINE s == x % B
<1>1. p \in Nat /\ s \in 0 .. B - 1 /\ x = p * B + s
  BY DivMod
<1> HIDE DEF p, s
<1>2. ASSUME p > q PROVE FALSE
  <2>1. (p - q) * B >= B
    BY <1>1, <1>2, MultipleBound
  <2>2. (p - q) * B = p * B - q * B /\ p * B \in Int /\ q * B \in Int
    BY <1>1, MultipleOfDifference
  <2> QED BY <1>1, <2>1, <2>2
<1>3. ASSUME q > p PROVE FALSE
  <2>1. (q - p) * B >= B
    BY <1>1, <1>3, MultipleBound
  <2>2. (q - p) * B = q * B - p * B /\ p * B \in Int /\ q * B \in Int
    BY <1>1, MultipleOfDifference
  <2> QED BY <1>1, <2>1, <2>2
<1>4. p = q /\ s = r
  BY <1>1, <1>2, <1>3
<1> QED BY <1>4 DEF p, s

\* The offsets of the window are those whose word is in the array.
LEMMA OffsetSplit ==
    ASSUME NEW offset \in Nat
    PROVE  /\ offset \div WordBits \in Nat
           /\ offset % WordBits \in 0 .. WordBits - 1
           /\ offset = (offset \div WordBits) * WordBits + (offset % WordBits)
           /\ offset < Window <=> offset \div WordBits < Words
<1> DEFINE q == offset \div WordBits
<1> DEFINE r == offset % WordBits
<1>1. q \in Nat /\ r \in 0 .. WordBits - 1 /\ offset = q * WordBits + r
  BY DivMod
<1> HIDE DEF q, r
<1>2. /\ (Words - q) * WordBits = Words * WordBits - q * WordBits
      /\ Words * WordBits \in Int
      /\ q * WordBits \in Int
  BY <1>1, MultipleOfDifference
<1>3. ASSUME q < Words PROVE offset < Window
  <2>1. (Words - q) * WordBits >= WordBits
    BY <1>1, <1>3, MultipleBound
  <2> QED BY <1>1, <1>2, <2>1 DEF Window
<1>4. ASSUME q >= Words PROVE ~(offset < Window)
  <2>1. CASE q = Words
    BY <1>1, <1>2, <2>1 DEF Window
  <2>2. CASE q > Words
    <3>1. (q - Words) * WordBits >= WordBits
      BY <1>1, <2>2, MultipleBound
    <3>2. (q - Words) * WordBits = q * WordBits - Words * WordBits
      BY <1>1, MultipleOfDifference
    <3> QED BY <1>1, <1>2, <3>1, <3>2 DEF Window
  <2> QED BY <1>1, <1>4, <2>1, <2>2
<1> QED BY <1>1, <1>3, <1>4 DEF q, r

\* An offset of the window names a word of the array and a bit of that word.
LEMMA OffsetInWindow ==
    ASSUME NEW offset \in 0 .. Window - 1
    PROVE  /\ offset \div WordBits \in WordIndex
           /\ offset % WordBits \in 0 .. WordBits - 1
           /\ offset = (offset \div WordBits) * WordBits + (offset % WordBits)
<1>1. Window \in Nat
  BY DEF Window
<1>2. offset \in Nat /\ offset < Window
  BY <1>1
<1>3. /\ offset \div WordBits \in Nat
      /\ offset % WordBits \in 0 .. WordBits - 1
      /\ offset = (offset \div WordBits) * WordBits + (offset % WordBits)
      /\ offset < Window <=> offset \div WordBits < Words
  BY <1>2, OffsetSplit
<1> QED BY <1>2, <1>3 DEF WordIndex

-----------------------------------------------------------------------------
(* The operations on the bitmap. *)

Bitmap == [WordIndex -> Word]

\* Fresh words have no bit set.
LEMMA ZeroesBits ==
    /\ Zeroes \in Bitmap
    /\ \A offset \in 0 .. Window - 1 : ~ test_bit(Zeroes, offset)
<1>1. Zeroes \in Bitmap
  BY DEF Zeroes, Bitmap, Word
<1>2. ASSUME NEW offset \in 0 .. Window - 1 PROVE ~ test_bit(Zeroes, offset)
  <2>1. offset \div WordBits \in WordIndex
    BY OffsetInWindow
  <2> QED BY <2>1 DEF test_bit, Zeroes
<1> QED BY <1>1, <1>2

\* Setting a bit of the window sets that bit and no other.
LEMMA SetBit ==
    ASSUME NEW bits \in Bitmap, NEW at \in 0 .. Window - 1
    PROVE  /\ set_bit(bits, at) \in Bitmap
           /\ \A offset \in 0 .. Window - 1 :
                 test_bit(set_bit(bits, at), offset) <=>
                    (offset = at \/ test_bit(bits, offset))
<1> DEFINE w == at \div WordBits
<1> DEFINE b == at % WordBits
<1>0. Window \in Nat
  BY DEF Window
<1>1. w \in WordIndex /\ b \in 0 .. WordBits - 1 /\ at = w * WordBits + b
  BY OffsetInWindow
<1> HIDE DEF w, b
<1>2. set_bit(bits, at) = [bits EXCEPT ![w] = @ \cup {b}]
  BY <1>1 DEF set_bit, w, b, WordIndex
<1>3. set_bit(bits, at) \in Bitmap
  BY <1>1, <1>2 DEF Bitmap, Word
<1>4. ASSUME NEW offset \in 0 .. Window - 1
      PROVE  test_bit(set_bit(bits, at), offset) <=>
                (offset = at \/ test_bit(bits, offset))
  <2> DEFINE q == offset \div WordBits
  <2> DEFINE r == offset % WordBits
  <2>1. q \in WordIndex /\ r \in 0 .. WordBits - 1 /\ offset = q * WordBits + r
    BY OffsetInWindow
  <2>2. \A x : test_bit(x, offset) <=> r \in x[q]
    BY <2>1 DEF test_bit, WordIndex
  <2>3. offset = at <=> (q = w /\ r = b)
    BY <1>1, <2>1 DEF w, b
  <2> HIDE DEF q, r
  <2>4. r \in set_bit(bits, at)[q] <=> ((q = w /\ r = b) \/ r \in bits[q])
    BY <1>1, <1>2, <2>1 DEF Bitmap
  <2> QED BY <2>2, <2>3, <2>4
<1> QED BY <1>3, <1>4

\* The two loops of shift_left, on the bits of word q.
LEMMA MoveWordsBits ==
    ASSUME NEW bits \in Bitmap, NEW w \in Nat
    PROVE  /\ MoveWords(bits, w) \in Bitmap
           /\ \A q \in WordIndex :
                 MoveWords(bits, w)[q] = IF q >= w THEN bits[q - w] ELSE {}
BY DEF MoveWords, Bitmap, WordIndex, Word

\* The second loop: a bit comes from its own word, or as the carry of the word before.
LEMMA MoveBitsBits ==
    ASSUME NEW bits \in Bitmap, NEW k \in 1 .. WordBits - 1
    PROVE  /\ MoveBits(bits, k) \in Bitmap
           /\ \A q \in WordIndex, r \in 0 .. WordBits - 1 :
                 r \in MoveBits(bits, k)[q] <=>
                    IF r >= k THEN r - k \in bits[q]
                              ELSE q # 0 /\ r - k + WordBits \in bits[q - 1]
<1>1. MoveBits(bits, k) \in Bitmap
  BY DEF MoveBits, Bitmap, Word, Shl, Shr
<1>2. ASSUME NEW q \in WordIndex, NEW r \in 0 .. WordBits - 1
      PROVE  r \in MoveBits(bits, k)[q] <=>
                IF r >= k THEN r - k \in bits[q]
                          ELSE q # 0 /\ r - k + WordBits \in bits[q - 1]
  <2>1. r \in MoveBits(bits, k)[q] <=>
           \/ r - k \in bits[q]
           \/ q # 0 /\ r + (WordBits - k) \in bits[q - 1]
    BY DEF MoveBits, Shl, Shr
  <2>2. \A x \in bits[q] : x \in 0 .. WordBits - 1
    BY DEF Bitmap, Word
  <2>3. q # 0 => \A x \in bits[q - 1] : x \in 0 .. WordBits - 1
    BY DEF Bitmap, Word, WordIndex
  <2>4. r + (WordBits - k) = r - k + WordBits
    OBVIOUS
  <2>5. CASE r >= k
    BY <2>1, <2>2, <2>3, <2>5
  <2>6. CASE r < k
    BY <2>1, <2>2, <2>3, <2>4, <2>6
  <2> QED BY <2>5, <2>6
<1> QED BY <1>1, <1>2

\* Shifting left by s moves every bit s offsets up: the bit at an offset is the
\* one that was s below, and the s lowest offsets are clear.
LEMMA ShiftLeft ==
    ASSUME NEW bits \in Bitmap, NEW s \in 0 .. Window - 1
    PROVE  /\ shift_left(bits, s) \in Bitmap
           /\ \A offset \in 0 .. Window - 1 :
                 test_bit(shift_left(bits, s), offset) <=>
                    (offset >= s /\ test_bit(bits, offset - s))
<1> DEFINE w == s \div WordBits
<1> DEFINE k == s % WordBits
<1> DEFINE moved == IF w > 0 THEN MoveWords(bits, w) ELSE bits
<1> DEFINE out == IF k > 0 THEN MoveBits(moved, k) ELSE moved
<1>0. Window \in Nat
  BY DEF Window
<1>1. w \in WordIndex /\ k \in 0 .. WordBits - 1 /\ s = w * WordBits + k
  BY OffsetInWindow
<1>2. shift_left(bits, s) = out
  BY <1>0 DEF shift_left
<1> HIDE DEF w, k
<1>3. /\ moved \in Bitmap
      /\ \A q \in WordIndex : moved[q] = IF q >= w THEN bits[q - w] ELSE {}
  <2>1. CASE w > 0
    <3>1. w \in Nat /\ moved = MoveWords(bits, w)
      BY <1>1, <2>1 DEF WordIndex
    <3> HIDE DEF moved
    <3> QED BY <3>1, MoveWordsBits
  <2>2. CASE w = 0
    BY <1>1, <2>2 DEF WordIndex, Bitmap
  <2> QED BY <1>1, <2>1, <2>2 DEF WordIndex
<1> HIDE DEF moved
<1>4. /\ out \in Bitmap
      /\ \A q \in WordIndex, r \in 0 .. WordBits - 1 :
            r \in out[q] <=>
               IF r >= k THEN r - k \in moved[q]
                         ELSE q # 0 /\ r - k + WordBits \in moved[q - 1]
  <2>1. CASE k > 0
    BY <1>1, <1>3, <2>1, MoveBitsBits
  <2>2. CASE k = 0
    BY <1>1, <1>3, <2>2
  <2> QED BY <1>1, <2>1, <2>2
<1> HIDE DEF out
<1>5. ASSUME NEW offset \in 0 .. Window - 1
      PROVE  test_bit(out, offset) <=>
                (offset >= s /\ test_bit(bits, offset - s))
  <2> DEFINE q == offset \div WordBits
  <2> DEFINE r == offset % WordBits
  <2>1. q \in WordIndex /\ r \in 0 .. WordBits - 1 /\ offset = q * WordBits + r
    BY OffsetInWindow
  <2>2. test_bit(out, offset) <=> r \in out[q]
    BY <2>1 DEF test_bit, WordIndex
  <2> HIDE DEF q, r
  <2>3. (q - w) * WordBits = q * WordBits - w * WordBits
        /\ q * WordBits \in Int /\ w * WordBits \in Int
    BY <1>1, <2>1, MultipleOfDifference DEF WordIndex
  <2>4. CASE r >= k
    <3>1. offset - s = (q - w) * WordBits + (r - k) /\ r - k \in 0 .. WordBits - 1
      BY <1>1, <2>1, <2>3, <2>4
    <3>2. CASE q >= w
      <4>1. q - w \in WordIndex
        BY <1>1, <2>1, <3>2 DEF WordIndex
      <4>0. q - w \in Int
        BY <4>1 DEF WordIndex
      <4>2. offset >= s /\ offset - s \in Nat
        BY <1>0, <3>1, <4>1 DEF WordIndex
      <4>3. (offset - s) \div WordBits = q - w /\ (offset - s) % WordBits = r - k
        BY <3>1, <4>0, <4>2, DivModUnique
      <4>4. test_bit(bits, offset - s) <=> r - k \in bits[q - w]
        BY <4>1, <4>3 DEF test_bit, WordIndex
      <4> QED BY <1>3, <1>4, <2>1, <2>2, <2>4, <3>2, <4>2, <4>4
    <3>3. CASE q < w
      <4>1. (w - q) * WordBits >= WordBits
        BY <1>1, <2>1, <3>3, MultipleBound DEF WordIndex
      <4>2. (w - q) * WordBits = w * WordBits - q * WordBits
        BY <1>1, <2>1, MultipleOfDifference DEF WordIndex
      <4>3. offset < s
        BY <1>0, <1>1, <2>1, <2>3, <4>1, <4>2
      <4>4. moved[q] = {}
        BY <1>1, <1>3, <2>1, <3>3 DEF WordIndex
      <4> QED BY <1>0, <1>4, <2>1, <2>2, <2>4, <4>3, <4>4
    <3> QED BY <1>1, <2>1, <3>2, <3>3 DEF WordIndex
  <2>5. CASE r < k
    <3>0. (q - 1 - w) * WordBits = (q - 1) * WordBits - w * WordBits
          /\ (q - 1) * WordBits = q * WordBits - WordBits
      BY <1>1, <2>1, MultipleOfDifference DEF WordIndex
    <3>1. offset - s = (q - 1 - w) * WordBits + (r - k + WordBits)
          /\ r - k + WordBits \in 0 .. WordBits - 1
      BY <1>1, <2>1, <2>3, <2>5, <3>0
    <3>2. CASE q > w
      <4>1. q - 1 - w \in WordIndex /\ q - 1 \in WordIndex /\ q # 0 /\ q - 1 >= w
        BY <1>1, <2>1, <3>2 DEF WordIndex
      <4>0. q - 1 - w \in Int
        BY <4>1 DEF WordIndex
      <4>2. offset >= s /\ offset - s \in Nat
        BY <1>0, <3>1, <4>1 DEF WordIndex
      <4>3. /\ (offset - s) \div WordBits = q - 1 - w
            /\ (offset - s) % WordBits = r - k + WordBits
        BY <3>1, <4>0, <4>2, DivModUnique
      <4>4. test_bit(bits, offset - s) <=> r - k + WordBits \in bits[q - 1 - w]
        BY <4>1, <4>3 DEF test_bit, WordIndex
      <4>5. moved[q - 1] = bits[q - 1 - w]
        BY <1>3, <4>1
      <4>6. r \in out[q] <=> r - k + WordBits \in moved[q - 1]
        BY <1>1, <1>4, <2>1, <2>5, <4>1
      <4> QED BY <2>2, <4>2, <4>4, <4>5, <4>6
    <3>3. CASE q <= w
      <4>1. offset < s
        <5>1. CASE q = w
          BY <1>0, <1>1, <2>1, <2>3, <2>5, <5>1
        <5>2. CASE q < w
          <6>1. (w - q) * WordBits >= WordBits
            BY <1>1, <2>1, <5>2, MultipleBound DEF WordIndex
          <6>2. (w - q) * WordBits = w * WordBits - q * WordBits
            BY <1>1, <2>1, MultipleOfDifference DEF WordIndex
          <6> QED BY <1>0, <1>1, <2>1, <2>3, <6>1, <6>2
        <5> QED BY <1>1, <2>1, <3>3, <5>1, <5>2 DEF WordIndex
      <4>2. q # 0 => moved[q - 1] = {}
        BY <1>1, <1>3, <2>1, <3>3 DEF WordIndex
      <4>3. ~(r \in out[q])
        BY <1>1, <1>4, <2>1, <2>5, <4>2
      <4> QED BY <1>0, <1>1, <2>1, <2>2, <4>1, <4>3
    <3> QED BY <1>1, <2>1, <3>2, <3>3 DEF WordIndex
  <2> QED BY <1>1, <2>1, <2>4, <2>5
<1> QED BY <1>2, <1>4, <1>5

-----------------------------------------------------------------------------
(* The invariant. *)

\* Inductive: no step of check_and_update breaks either part, and WindowExact
\* needs the types.
Inv == TypeOK /\ WindowExact

\* The empty window is exact.
LEMMA InitInv == Init => Inv
<1> SUFFICES ASSUME Init PROVE Inv
  OBVIOUS
<1>1. TypeOK
  BY ZeroesBits DEF Init, TypeOK, Nonce, Bitmap
<1>2. WindowExact
  BY ZeroesBits DEF Init, WindowExact
<1> QED BY <1>1, <1>2 DEF Inv

\* A nonce above `highest` shifts the bits of the accepted nonces to their new
\* offsets, or out of the window.
LEMMA AdvanceInv ==
    ASSUME Inv, NEW nonce \in Nonce, Advance(nonce)
    PROVE  Inv'
<1> DEFINE shift == nonce - highest
<1> DEFINE slid == IF shift >= Window THEN Zeroes ELSE shift_left(bitmap, shift)
<1>0. Window \in Nat \ {0}
  <2>1. Words * WordBits >= WordBits /\ Words * WordBits \in Int
    BY MultipleBound
  <2> QED BY <2>1 DEF Window
<1>1. /\ highest \in Nat /\ nonce \in Nat /\ nonce > highest
      /\ shift \in Nat \ {0}
      /\ highest' = nonce /\ accepted' = accepted \cup {nonce}
      /\ verdict' = [nonce |-> nonce, ok |-> TRUE]
      /\ bitmap' = set_bit(slid, 0)
      /\ bitmap \in Bitmap
  BY DEF Inv, TypeOK, Advance, Returns, Nonce, Bitmap
<1>2. /\ slid \in Bitmap
      /\ \A offset \in 0 .. Window - 1 :
            test_bit(slid, offset) <=>
               (offset >= shift /\ test_bit(bitmap, offset - shift))
  <2>1. CASE shift >= Window
    BY <1>0, <1>1, <2>1, ZeroesBits
  <2>2. CASE shift < Window
    <3>1. shift \in 0 .. Window - 1
      BY <1>0, <1>1, <2>2
    <3>2. slid = shift_left(bitmap, shift)
      BY <1>0, <1>1, <2>2
    <3> HIDE DEF shift, slid
    <3> QED BY <1>1, <3>1, <3>2, ShiftLeft
  <2> QED BY <1>0, <1>1, <2>1, <2>2
<1> HIDE DEF slid
<1>3. /\ bitmap' \in Bitmap
      /\ \A offset \in 0 .. Window - 1 :
            test_bit(bitmap', offset) <=> (offset = 0 \/ test_bit(slid, offset))
  <2>1. 0 \in 0 .. Window - 1
    BY <1>0
  <2> QED BY <1>1, <1>2, <2>1, SetBit
<1>4. TypeOK'
  BY <1>1, <1>3 DEF Inv, TypeOK, Bitmap, Nonce
<1>5. ASSUME NEW n \in accepted' PROVE n <= highest'
  BY <1>1 DEF Inv, TypeOK, WindowExact, Nonce
<1>6. ASSUME NEW offset \in 0 .. Window - 1
      PROVE  test_bit(bitmap', offset) <=>
                (offset <= highest' /\ highest' - offset \in accepted')
  <2>1. test_bit(bitmap', offset) <=>
           \/ offset = 0
           \/ offset >= shift /\ test_bit(bitmap, offset - shift)
    BY <1>2, <1>3
  <2>2. CASE offset = 0
    BY <1>1, <2>1, <2>2
  <2>3. CASE offset # 0 /\ offset >= shift
    <3>1. offset - shift \in 0 .. Window - 1
      BY <1>0, <1>1, <2>3
    <3>2. test_bit(bitmap, offset - shift) <=>
             (offset - shift <= highest /\ highest - (offset - shift) \in accepted)
      BY <3>1 DEF Inv, WindowExact
    <3>3. /\ highest - (offset - shift) = nonce - offset
          /\ offset - shift <= highest <=> offset <= nonce
      BY <1>0, <1>1
    <3>4. nonce - offset # nonce
      BY <1>0, <1>1, <2>3
    <3> QED BY <1>1, <2>1, <2>3, <3>2, <3>3, <3>4
  <2>4. CASE offset # 0 /\ offset < shift
    <3>1. nonce - offset > highest /\ nonce - offset # nonce
      BY <1>0, <1>1, <2>4
    <3>2. nonce - offset \notin accepted
      BY <1>0, <1>1, <3>1 DEF Inv, WindowExact, TypeOK, Nonce
    <3> QED BY <1>0, <1>1, <2>1, <2>4, <3>1, <3>2
  <2> QED BY <1>0, <1>1, <2>2, <2>3, <2>4
<1>7. WindowExact'
  <2>1. WindowExact' <=>
           /\ \A offset \in 0 .. Window - 1 :
                 test_bit(bitmap', offset) <=>
                    (offset <= highest' /\ highest' - offset \in accepted')
           /\ \A n \in accepted' : n <= highest'
    BY DEF WindowExact, test_bit, Window
  <2> QED BY <1>5, <1>6, <2>1
<1> QED BY <1>4, <1>7 DEF Inv

\* A late nonce marks its own offset and leaves the others.
LEMMA FillInv ==
    ASSUME Inv, NEW nonce \in Nonce, Fill(nonce)
    PROVE  Inv'
<1> DEFINE at == highest - nonce
<1>0. Window \in Nat
  BY DEF Window
<1>1. /\ highest \in Nat /\ nonce \in Nat /\ nonce <= highest
      /\ at \in 0 .. Window - 1
      /\ highest' = highest /\ accepted' = accepted \cup {nonce}
      /\ verdict' = [nonce |-> nonce, ok |-> TRUE]
      /\ bitmap' = set_bit(bitmap, at)
      /\ bitmap \in Bitmap
  BY <1>0 DEF Inv, TypeOK, Fill, Returns, Nonce, Bitmap
<1>2. /\ bitmap' \in Bitmap
      /\ \A offset \in 0 .. Window - 1 :
            test_bit(bitmap', offset) <=> (offset = at \/ test_bit(bitmap, offset))
  BY <1>1, SetBit
<1>3. TypeOK'
  BY <1>1, <1>2 DEF Inv, TypeOK, Bitmap, Nonce
<1>4. ASSUME NEW n \in accepted' PROVE n <= highest'
  BY <1>1 DEF Inv, TypeOK, WindowExact, Nonce
<1>5. ASSUME NEW offset \in 0 .. Window - 1
      PROVE  test_bit(bitmap', offset) <=>
                (offset <= highest' /\ highest' - offset \in accepted')
  <2>1. test_bit(bitmap, offset) <=>
           (offset <= highest /\ highest - offset \in accepted)
    BY DEF Inv, WindowExact
  <2>2. offset = at <=> highest - offset = nonce
    BY <1>0, <1>1
  <2>3. highest - offset = nonce => offset <= highest
    BY <1>0, <1>1
  <2> QED BY <1>1, <1>2, <2>1, <2>2, <2>3
<1>6. WindowExact'
  <2>1. WindowExact' <=>
           /\ \A offset \in 0 .. Window - 1 :
                 test_bit(bitmap', offset) <=>
                    (offset <= highest' /\ highest' - offset \in accepted')
           /\ \A n \in accepted' : n <= highest'
    BY DEF WindowExact, test_bit, Window
  <2> QED BY <1>4, <1>5, <2>1
<1> QED BY <1>3, <1>6 DEF Inv

\* A refused nonce changes nothing.
LEMMA RefuseInv ==
    ASSUME Inv, NEW nonce \in Nonce, Refuse(nonce)
    PROVE  Inv'
BY DEF Inv, TypeOK, WindowExact, Refuse, Returns, Nonce, test_bit

\* check_and_update keeps the bitmap exact.
LEMMA NextInv == Inv /\ [Next]_vars => Inv'
<1> SUFFICES ASSUME Inv, [Next]_vars PROVE Inv'
  OBVIOUS
<1>1. ASSUME NEW nonce \in Nonce, check_and_update(nonce) PROVE Inv'
  BY <1>1, AdvanceInv, FillInv, RefuseInv DEF check_and_update
<1>2. CASE UNCHANGED vars
  BY <1>2 DEF vars, Inv, TypeOK, WindowExact, test_bit
<1> QED BY <1>1, <1>2 DEF Next

\* For every word size, window size and nonce range: the state of ReplayWindow
\* stays well typed.
THEOREM TypeCorrect == Spec => []TypeOK
<1>1. Inv => TypeOK
  BY DEF Inv
<1> QED BY <1>1, InitInv, NextInv, PTL DEF Spec

\* For every word size, window size and nonce range: bit `offset` of the bitmap
\* is set exactly when nonce `highest - offset` was accepted.
THEOREM Exact == Spec => []WindowExact
<1>1. Inv => WindowExact
  BY DEF Inv
<1> QED BY <1>1, InitInv, NextInv, PTL DEF Spec

-----------------------------------------------------------------------------
(* Refinement. *)

\* A step of the bitmap is a step of the abstract replay filter.
LEMMA StepRefines ==
    ASSUME Inv, NEW nonce \in Nonce, check_and_update(nonce)
    PROVE  Abstract!Ask(nonce)
<1> DEFINE Filter == [top |-> highest, taken |-> accepted]
<1>0. Window \in Nat \ {0}
  <2>1. Words * WordBits >= WordBits /\ Words * WordBits \in Int
    BY MultipleBound
  <2> QED BY <2>1 DEF Window
<1>1. highest \in Nat /\ nonce \in Nat
  BY DEF Inv, TypeOK, Nonce
<1>2. CASE Advance(nonce)
  <2>1. nonce \notin accepted /\ nonce + Window > highest
    BY <1>0, <1>1, <1>2 DEF Advance, Inv, WindowExact, TypeOK, Nonce
  <2> QED BY <1>1, <1>2, <2>1 
          DEF Advance, Returns, Abstract!Ask, Abstract!IsFresh, Abstract!Checked
<1>3. ASSUME nonce <= highest, highest - nonce < Window
      PROVE  test_bit(bitmap, highest - nonce) <=> nonce \in accepted
  <2>1. highest - nonce \in 0 .. Window - 1
    BY <1>0, <1>1, <1>3
  <2>2. highest - (highest - nonce) = nonce /\ highest - nonce <= highest
    BY <1>1
  <2> QED BY <2>1, <2>2 DEF Inv, WindowExact
<1>4. CASE Fill(nonce)
  <2>1. nonce <= highest /\ highest - nonce < Window
    BY <1>4 DEF Fill
  <2>2. nonce \notin accepted
    BY <1>3, <1>4, <2>1 DEF Fill
  <2>3. nonce + Window > highest /\ ~(nonce > highest)
    BY <1>0, <1>1, <2>1
  <2> QED BY <1>4, <2>2, <2>3 
          DEF Fill, Returns, Abstract!Ask, Abstract!IsFresh, Abstract!Checked
<1>5. CASE Refuse(nonce)
  <2>1. nonce <= highest
    BY <1>5 DEF Refuse
  <2>2. ~ Abstract!IsFresh(Filter, nonce)
    <3>1. CASE highest - nonce >= Window
      BY <1>0, <1>1, <2>1, <3>1 DEF Abstract!IsFresh
    <3>2. CASE highest - nonce < Window
      <4>1. test_bit(bitmap, highest - nonce)
        BY <1>0, <1>1, <1>5, <3>2 DEF Refuse
      <4> QED BY <1>3, <2>1, <3>2, <4>1 DEF Abstract!IsFresh
    <3> QED BY <1>0, <1>1, <3>1, <3>2
  <2>3. Abstract!IsFresh(Filter, nonce) = FALSE
    BY <2>2 DEF Abstract!IsFresh
  <2> QED BY <1>5, <2>3 DEF Refuse, Returns, Abstract!Ask, Abstract!Checked
<1> QED BY <1>2, <1>4, <1>5 DEF check_and_update

\* For every word size, window size and nonce range: check_and_update accepts a
\* nonce exactly when it was never accepted before and lies in the window, so
\* that no packet of a session is let in twice and no fresh one is refused.
THEOREM Refinement == Spec => ImplementsAntiReplay
<1>1. Init => Abstract!Init
  BY DEF Init, Abstract!Init, Abstract!EmptyFilter
<1>2. Inv /\ [Next]_vars => [Abstract!Next]_(Abstract!vars)
  <2> SUFFICES ASSUME Inv, [Next]_vars PROVE [Abstract!Next]_(Abstract!vars)
    OBVIOUS
  <2>1. ASSUME NEW nonce \in Nonce, check_and_update(nonce)
        PROVE  Abstract!Next
    BY <2>1, StepRefines DEF Abstract!Next, Abstract!Nonce, Nonce
  <2>2. CASE UNCHANGED vars
    BY <2>2 DEF vars, Abstract!vars
  <2> QED BY <2>1, <2>2 DEF Next
<1> QED BY <1>1, <1>2, InitInv, NextInv, PTL DEF Spec, ImplementsAntiReplay, Abstract!Spec

-----------------------------------------------------------------------------
(* The channel. *)

SenderType ==
    [index : {TheIndex}, key : {TheKey}, send_nonce : Nonce, snow_nonce : Nonce,
     replay : {Noise!EmptyFilter}]

\* What is on the network is sealed under the session's key and below the largest
\* nonce, so that it opens.
NetOpens == \A p \in net : p.index = TheIndex /\ p.nonce \in Nonce /\ Opens(p)

\* The window and the history of what was delivered go together.
DeliveredTaken ==
    /\ delivered \subseteq net
    /\ \A p \in delivered : p.nonce \in accepted
    /\ accepted \subseteq Shown
    /\ highest # 0 => highest \in accepted

\* Inductive.
ChannelInv ==
    /\ Inv
    /\ tx \in SenderType
    /\ Lockstep
    /\ NetOpens
    /\ DeliveredTaken
    /\ DeliveredAtMostOnce
    /\ RefusedForAReason

\* Both ends start empty.
LEMMA ChannelInitInv == ChannelInit => ChannelInv
<1> SUFFICES ASSUME ChannelInit PROVE ChannelInv
  OBVIOUS
<1>1. Inv
  BY InitInv DEF ChannelInit
<1>2. tx \in SenderType /\ Lockstep
  BY MaxNonceAssumption
     DEF ChannelInit, SenderType, Lockstep, Nonce, Noise!NewSession
<1>3. NetOpens /\ DeliveredTaken /\ DeliveredAtMostOnce /\ RefusedForAReason
  BY DEF ChannelInit, Init, NetOpens, DeliveredTaken, DeliveredAtMostOnce, RefusedForAReason
<1> QED BY <1>1, <1>2, <1>3 DEF ChannelInv

\* A datagram gets the next number, which no other has.
LEMMA EncryptInv ==
    ASSUME ChannelInv, NEW plain \in Plain, encrypt(plain)
    PROVE  ChannelInv'
<1> DEFINE n == tx.snow_nonce
<1> DEFINE wire == Noise!Encrypted(tx, plain)
<1>1. /\ n \in Nat /\ n < MaxNonce /\ tx.send_nonce = n /\ MaxNonce \in Nat
      /\ tx.index = TheIndex /\ tx.key = TheKey
  BY MaxNonceAssumption
     DEF ChannelInv, SenderType, Lockstep, encrypt, Noise!CanEncrypt, Nonce
<1>2. /\ wire = [index |-> TheIndex, nonce |-> n, key |-> TheKey,
                 sealed_with |-> n, plain |-> plain]
      /\ net' = net \cup {wire}
  BY <1>1 DEF encrypt, Noise!Encrypted
<1>3. (n + 1) % (MaxNonce + 1) = n + 1
  BY <1>1
<1>4. tx' = [tx EXCEPT !.send_nonce = n + 1, !.snow_nonce = n + 1]
  BY <1>1, <1>3 DEF encrypt, Noise!AfterEncrypt
<1>5. /\ tx' \in SenderType
      /\ tx'.send_nonce = n + 1 /\ tx'.snow_nonce = n + 1
  <2>1. n + 1 \in Nonce
    BY <1>1 DEF Nonce
  <2>2. tx \in SenderType
    BY DEF ChannelInv
  <2> QED BY <1>4, <2>1, <2>2 DEF SenderType
<1>6. UNCHANGED <<highest, bitmap, accepted, verdict, delivered, repeats, damaged>>
  BY DEF encrypt, window
<1>7. Inv'
  BY <1>6, NextInv DEF ChannelInv, vars
<1>8. Lockstep'
  <2>1. \A p \in net : p.nonce = p.sealed_with /\ p.nonce < n /\ p.nonce \in Nat
    BY DEF ChannelInv, Lockstep, NetOpens, Nonce
  <2>2. ASSUME NEW p \in net', NEW q \in net'
        PROVE  /\ p.nonce = p.sealed_with
               /\ p.nonce < n + 1
               /\ p.nonce = q.nonce => p = q
    BY <1>1, <1>2, <2>1 DEF ChannelInv, Lockstep
  <2>3. n + 1 \in Nonce
    BY <1>1 DEF Nonce
  <2> QED BY <1>5, <2>2, <2>3 DEF Lockstep, Nonce
<1>9. NetOpens'
  BY <1>1, <1>2 DEF ChannelInv, NetOpens, Opens, Nonce
<1>10. DeliveredTaken' /\ DeliveredAtMostOnce' /\ RefusedForAReason'
  BY <1>2, <1>6 DEF ChannelInv, DeliveredTaken, DeliveredAtMostOnce, RefusedForAReason, Shown
<1> QED BY <1>5, <1>7, <1>8, <1>9, <1>10 DEF ChannelInv

\* check_and_update says true only to a nonce that was not accepted before, and
\* records it; otherwise the set of accepted nonces stays.  It says false only to a
\* nonce that was accepted or is a window below the highest.
LEMMA VerdictIsFresh ==
    ASSUME Inv, NEW nonce \in Nonce, check_and_update(nonce)
    PROVE  /\ verdict'.ok \in BOOLEAN /\ verdict'.nonce = nonce
           /\ verdict'.ok => nonce \notin accepted /\ accepted' = accepted \cup {nonce}
           /\ ~ verdict'.ok => /\ accepted' = accepted
                               /\ nonce \in accepted \/ highest >= nonce + Window
           /\ highest' = IF nonce > highest THEN nonce ELSE highest
           /\ nonce > highest => verdict'.ok
<1>1. Abstract!Ask(nonce)
  BY StepRefines
<1>2. highest \in Nat /\ nonce \in Nat /\ Window \in Nat
  BY WordBitsAssumption, WordsAssumption DEF Inv, TypeOK, Nonce, Window
<1>3. /\ highest' = IF nonce > highest THEN nonce ELSE highest
      /\ nonce > highest => verdict'.ok
  BY <1>2 DEF check_and_update, Advance, Fill, Refuse, Returns
<1>4. ~ verdict'.ok => nonce \in accepted \/ highest >= nonce + Window
  <2>1. nonce \notin accepted /\ nonce + Window > highest => verdict'.ok
    BY <1>1 DEF Abstract!Ask, Abstract!IsFresh
  <2> QED BY <1>2, <2>1
<1> QED BY <1>1, <1>3, <1>4
        DEF Abstract!Ask, Abstract!IsFresh, Abstract!Checked,
            check_and_update, Advance, Fill, Refuse, Returns

\* What the answer on one nonce does to the histories, once the datagrams shown are
\* known to include it if it was accepted.
LEMMA AnsweredInv ==
    ASSUME ChannelInv, NEW nonce \in Nonce, check_and_update(nonce),
           Shown \subseteq Shown', verdict'.ok => nonce \in Shown'
    PROVE  /\ accepted' \subseteq Shown'
           /\ highest' # 0 => highest' \in accepted'
           /\ RefusedForAReason'
<1>1. highest \in Nat /\ nonce \in Nat /\ Window \in Nat \ {0}
  <2>1. Words * WordBits >= WordBits /\ Words * WordBits \in Int
    BY MultipleBound
  <2> QED BY <2>1, WordBitsAssumption DEF ChannelInv, Inv, TypeOK, Nonce, Window
<1>2. Window' = Window
  BY DEF Window
<1>3. accepted \subseteq Shown /\ (highest # 0 => highest \in accepted)
  BY DEF ChannelInv, DeliveredTaken
<1>4. accepted' \subseteq Shown' /\ (highest' # 0 => highest' \in accepted')
  BY <1>3, VerdictIsFresh DEF ChannelInv
<1>5. ASSUME ~ verdict'.ok
      PROVE  \E n \in Shown' : n = nonce \/ n >= nonce + Window
  <2>1. CASE nonce \in accepted
    BY <1>3, <2>1
  <2>2. CASE highest >= nonce + Window
    <3>1. highest \in Shown'
      BY <1>1, <1>3, <2>2
    <3> QED BY <2>2, <3>1
  <2> QED BY <1>5, <2>1, <2>2, VerdictIsFresh DEF ChannelInv
<1>6. verdict'.nonce = nonce
  BY VerdictIsFresh DEF ChannelInv
<1> QED BY <1>2, <1>4, <1>5, <1>6 DEF RefusedForAReason

\* A datagram is delivered when its nonce is taken, and only then.
LEMMA ReceiveInv ==
    ASSUME ChannelInv, NEW packet \in net, Receive(packet)
    PROVE  ChannelInv'
<1>1. /\ packet.nonce \in Nonce /\ Opens(packet)
      /\ check_and_update(packet.nonce)
      /\ UNCHANGED <<tx, net, damaged>>
  BY DEF ChannelInv, NetOpens, Receive, decrypt
<1>2. Inv'
  BY <1>1, NextInv DEF ChannelInv, Next
<1>3. tx' \in SenderType /\ Lockstep' /\ NetOpens'
  BY <1>1 DEF ChannelInv, Lockstep, NetOpens, Opens
<1>4. CASE verdict'.ok
  <2>1. /\ packet.nonce \notin accepted
        /\ accepted' = accepted \cup {packet.nonce}
    BY <1>1, <1>4, VerdictIsFresh DEF ChannelInv
  <2>2. packet \notin delivered
    BY <2>1 DEF ChannelInv, DeliveredTaken
  <2>3. delivered' = delivered \cup {packet} /\ repeats' = repeats
    BY <1>1, <1>4, <2>2 DEF Receive, decrypt, Delivers
  <2>4. Shown \subseteq Shown' /\ packet.nonce \in Shown'
    BY <1>1, <2>3 DEF Shown
  <2>5. /\ accepted' \subseteq Shown' /\ (highest' # 0 => highest' \in accepted')
        /\ RefusedForAReason'
    BY <1>1, <2>4, AnsweredInv
  <2>6. DeliveredTaken' /\ DeliveredAtMostOnce'
    BY <1>1, <2>1, <2>3, <2>5 DEF ChannelInv, DeliveredTaken, DeliveredAtMostOnce
  <2> QED BY <1>2, <1>3, <2>5, <2>6 DEF ChannelInv
<1>5. CASE ~ verdict'.ok
  <2>1. accepted' = accepted
    BY <1>1, <1>5, VerdictIsFresh DEF ChannelInv
  <2>2. UNCHANGED <<delivered, repeats>>
    BY <1>5 DEF Receive, decrypt
  <2>3. /\ accepted' \subseteq Shown' /\ (highest' # 0 => highest' \in accepted')
        /\ RefusedForAReason'
    <3>1. Shown' = Shown
      BY <1>1, <2>2 DEF Shown
    <3> QED BY <1>1, <1>5, <3>1, AnsweredInv
  <2>4. DeliveredTaken' /\ DeliveredAtMostOnce'
    BY <1>1, <2>1, <2>2, <2>3 DEF ChannelInv, DeliveredTaken, DeliveredAtMostOnce
  <2> QED BY <1>2, <1>3, <2>3, <2>4 DEF ChannelInv
<1> QED BY <1>4, <1>5

\* A damaged datagram may take a nonce, but is not delivered.
LEMMA ReceiveDamagedInv ==
    ASSUME ChannelInv, NEW nonce \in Nonce, ReceiveDamaged(nonce)
    PROVE  ChannelInv'
<1> DEFINE packet == [index |-> TheIndex, nonce |-> nonce, key |-> NoKey,
                      sealed_with |-> nonce, plain |-> NoKey]
<1>1. /\ packet.nonce = nonce /\ ~ Opens(packet)
      /\ check_and_update(nonce)
      /\ UNCHANGED <<tx, net, delivered, repeats>>
      /\ damaged' = damaged \cup {nonce}
  BY DEF ReceiveDamaged, decrypt, Opens, NoKey, TheKey
<1>2. Inv'
  BY <1>1, NextInv DEF ChannelInv, Next
<1>3. tx' \in SenderType /\ Lockstep' /\ NetOpens'
  BY <1>1 DEF ChannelInv, Lockstep, NetOpens, Opens
<1>4. accepted \subseteq accepted' /\ accepted' \subseteq accepted \cup {nonce}
  BY <1>1, VerdictIsFresh DEF ChannelInv
<1>5. Shown \subseteq Shown' /\ nonce \in Shown'
  BY <1>1 DEF Shown
<1>6. /\ accepted' \subseteq Shown' /\ (highest' # 0 => highest' \in accepted')
      /\ RefusedForAReason'
  BY <1>1, <1>5, AnsweredInv
<1>7. DeliveredTaken' /\ DeliveredAtMostOnce'
  BY <1>1, <1>4, <1>6 DEF ChannelInv, DeliveredTaken, DeliveredAtMostOnce
<1> QED BY <1>2, <1>3, <1>6, <1>7 DEF ChannelInv

\* No step of sender, receiver or network breaks the invariant.
LEMMA ChannelNextInv == ChannelInv /\ [ChannelNext]_channel_vars => ChannelInv'
<1> SUFFICES ASSUME ChannelInv, [ChannelNext]_channel_vars PROVE ChannelInv'
  OBVIOUS
<1>1. CASE ChannelNext
  BY <1>1, EncryptInv, ReceiveInv, ReceiveDamagedInv DEF ChannelNext
<1>2. CASE UNCHANGED channel_vars
  <2>1. UNCHANGED <<vars, tx, net, delivered, repeats, damaged>>
    BY <1>2 DEF channel_vars, window, vars
  <2>2. Inv'
    BY <2>1, NextInv DEF ChannelInv
  <2> QED BY <2>1, <2>2 DEF vars, ChannelInv, Lockstep, NetOpens, Opens, DeliveredTaken,
                            Shown, DeliveredAtMostOnce, RefusedForAReason
<1> QED BY <1>1, <1>2

\* The invariant holds throughout.
LEMMA ChannelInvariant == ChannelSpec => []ChannelInv
BY ChannelInitInv, ChannelNextInv, PTL DEF ChannelSpec

-----------------------------------------------------------------------------
(* Theorems. *)

\* The counter in the header, which is reduced modulo 2^64, and the one inside snow
\* never part, and no two datagrams of a session share a nonce.
THEOREM CountersInLockstep == ChannelSpec => []Lockstep
<1>1. ChannelInv => Lockstep
  BY DEF ChannelInv
<1> QED BY <1>1, ChannelInvariant, PTL

\* decrypt lets no datagram through twice.
THEOREM NeverDeliveredTwice == ChannelSpec => []DeliveredAtMostOnce
<1>1. ChannelInv => DeliveredAtMostOnce
  BY DEF ChannelInv
<1> QED BY <1>1, ChannelInvariant, PTL

\* RefusedForAReason, for every word size, window size and nonce range: what decrypt
\* turns away was delivered, was hit by damage or is a whole window behind.
THEOREM RefusalsExplained == ChannelSpec => []RefusedForAReason
<1>1. ChannelInv => RefusedForAReason
  BY DEF ChannelInv
<1> QED BY <1>1, ChannelInvariant, PTL

\* What the channel does to the receiver's window is a behaviour of ReplayWindow: the
\* bitmap is exact here as well and answers as the abstract filter.
THEOREM ChannelUsesWindow == ChannelSpec => Spec /\ []WindowExact /\ ImplementsAntiReplay
<1>1. ChannelInit => Init
  BY DEF ChannelInit
<1>2. ChannelInv /\ [ChannelNext]_channel_vars => [Next]_vars
  BY DEF ChannelInv, NetOpens, ChannelNext, channel_vars, window, vars, Next, encrypt,
         Receive, ReceiveDamaged, decrypt
<1>3. ChannelSpec => Spec
  BY <1>1, <1>2, ChannelInvariant, PTL DEF ChannelSpec, Spec
<1> QED BY <1>3, Exact, Refinement, PTL
=============================================================================
