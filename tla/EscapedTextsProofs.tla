-------------------------- MODULE EscapedTextsProofs --------------------------
(***************************************************************************)
(* Proofs about UTF8, for every code point wherever it is in a string, and *)
(* about EscapedTexts, for every text: what is refused is reported, what   *)
(* is read is well formed, the readers of a text agree, and what is        *)
(* written for it is read back.                                            *)
(***************************************************************************)
EXTENDS EscapedTexts, SequenceTheorems, WellFoundedInduction, TLAPS

-----------------------------------------------------------------------------
(* UTF-8: get and inc read what is written in UTF-8 and what               *)
(* extractRegexCharToBytes writes, which is longer than UTF-8 for two code *)
(* points, and dec stops short on what has more than one byte.             *)

FourByteLast == 2097151

(* The ways a number is written: the fewest bytes that hold it, or one *)
(* more for the last of two and of three bytes.                            *)
writes(t, c) ==
    \/ c < 128 /\ t = bytes1(c)
    \/ 128 <= c /\ c < 2048 /\ t = bytes2(c)
    \/ 2047 <= c /\ c < 65536 /\ t = bytes3(c)
    \/ 65535 <= c /\ c <= FourByteLast /\ t = bytes4(c)

(* The bytes of t are those of s from position i on. *)
writtenAt(s, i, t) == \A k \in 1 .. Len(t) : s[i + k] = t[k]

(* A first byte, and the bytes that follow it. *)
starts(b, n) ==
    \/ n = 2 /\ 192 <= b /\ b < 224
    \/ n = 3 /\ 224 <= b /\ b < 240
    \/ n = 4 /\ 240 <= b /\ b < 248
follows(b) == b \in Nat /\ 128 <= b /\ b < 192

-----------------------------------------------------------------------------
(* Numbers in base 64. *)

LEMMA Digit ==
    ASSUME NEW c \in Nat
    PROVE  /\ c \div 64 \in Nat /\ c % 64 \in Nat /\ c % 64 < 64
           /\ c = 64 * (c \div 64) + (c % 64)
  BY SMT

LEMMA Digits ==
    ASSUME NEW c \in Nat
    PROVE  /\ c \div 4096 = (c \div 64) \div 64
           /\ c \div 262144 = (c \div 4096) \div 64
  BY SMT

LEMMA Payload ==
    ASSUME NEW h \in Nat
    PROVE  /\ h < 64 => (128 + h) % 64 = h
           /\ h < 32 => (192 + h) % 32 = h
           /\ h < 16 => (224 + h) % 16 = h
           /\ h < 8 => (240 + h) % 8 = h
  BY SMT

(* UTF8_ENCODING_BYTE_COUNT tells the first bytes apart. *)
LEMMA StartByte ==
    ASSUME NEW b \in Nat, NEW n, starts(b, n)
    PROVE  encodingByteCount(b) = n /\ ~isSingleByte(b) /\ ~isContinuationByte(b)
  <1>1. /\ n = 2 => b \div 16 \in {12, 13} /\ b \div 64 = 3
        /\ n = 3 => b \div 16 = 14 /\ b \div 64 = 3
        /\ n = 4 => b \div 16 = 15 /\ b \div 64 = 3
        /\ n \in {2, 3, 4} /\ b >= 192
    BY SMT DEF starts
  <1> QED
    BY <1>1 DEF encodingByteCount, isSingleByte, isContinuationByte

LEMMA FollowingByte ==
    ASSUME NEW b, follows(b)
    PROVE  ~isSingleByte(b) /\ isContinuationByte(b)
  <1>1. b \in Nat /\ 128 <= b /\ b \div 64 = 2
    BY SMT DEF follows
  <1> QED
    BY <1>1 DEF isSingleByte, isContinuationByte

-----------------------------------------------------------------------------
(* What the encodings are made of, and what they spell. *)

LEMMA Encoding2 ==
    ASSUME NEW c \in Nat, 128 <= c, c < 2048
    PROVE  LET t == bytes2(c)
           IN  /\ Len(t) = 2 /\ t[1] \in Nat /\ starts(t[1], 2) /\ follows(t[2])
               /\ (t[1] % 32) * 64 + (t[2] % 64) = c
  <1> DEFINE h == c \div 64
             l == c % 64
  <1>1. h \in Nat /\ h >= 2 /\ h < 32 /\ l \in Nat /\ l < 64 /\ h * 64 + l = c
    BY Digit
  <1> HIDE DEF h, l
  <1>2. (192 + h) % 32 = h /\ (128 + l) % 64 = l
    BY <1>1, Payload
  <1>3. bytes2(c) = <<192 + h, 128 + l>>
    BY DEF bytes2, h, l
  <1> QED
    BY <1>1, <1>2, <1>3 DEF starts, follows

LEMMA Encoding3 ==
    ASSUME NEW c \in Nat, 2047 <= c, c < 65536
    PROVE  LET t == bytes3(c)
           IN  /\ Len(t) = 3 /\ t[1] \in Nat /\ starts(t[1], 3) /\ follows(t[2]) /\ follows(t[3])
               /\ (t[1] % 16) * 4096 + (t[2] % 64) * 64 + (t[3] % 64) = c
  <1> DEFINE q == c \div 64
             h == q \div 64
             m == q % 64
             l == c % 64
  <1>1. q \in Nat /\ l \in Nat /\ l < 64 /\ c = 64 * q + l /\ c \div 4096 = h
    BY Digit, Digits
  <1> HIDE DEF q
  <1>2. h \in Nat /\ m \in Nat /\ m < 64 /\ q = 64 * h + m
    BY <1>1, Digit
  <1>3. bytes3(c) = <<224 + h, 128 + m, 128 + l>>
    BY <1>1 DEF bytes3, q
  <1> HIDE DEF h, m, l
  <1>4. h < 16 /\ h * 4096 + m * 64 + l = c
    BY <1>1, <1>2
  <1>5. (224 + h) % 16 = h /\ (128 + m) % 64 = m /\ (128 + l) % 64 = l
    BY <1>1, <1>2, <1>4, Payload
  <1> DEFINE t == bytes3(c)
  <1>6. Len(t) = 3 /\ t[1] = 224 + h /\ t[2] = 128 + m /\ t[3] = 128 + l
    BY <1>3
  <1> HIDE DEF t
  <1>7. t[1] \in Nat /\ starts(t[1], 3) /\ follows(t[2]) /\ follows(t[3])
    BY <1>1, <1>2, <1>4, <1>6 DEF starts, follows
  <1>8. (t[1] % 16) * 4096 + (t[2] % 64) * 64 + (t[3] % 64) = c
    BY <1>4, <1>5, <1>6
  <1> QED
    BY <1>6, <1>7, <1>8 DEF t

LEMMA Encoding4 ==
    ASSUME NEW c \in Nat, 65535 <= c, c <= FourByteLast
    PROVE  LET t == bytes4(c)
           IN  /\ Len(t) = 4 /\ t[1] \in Nat /\ starts(t[1], 4)
               /\ follows(t[2]) /\ follows(t[3]) /\ follows(t[4])
               /\ (t[1] % 8) * 262144 + (t[2] % 64) * 4096 + (t[3] % 64) * 64 + (t[4] % 64) = c
  <1> DEFINE q == c \div 64
             r == q \div 64
             h == r \div 64
             n == r % 64
             m == q % 64
             l == c % 64
  <1>1. q \in Nat /\ l \in Nat /\ l < 64 /\ c = 64 * q + l
        /\ c \div 4096 = r /\ c \div 262144 = h
    BY Digit, Digits
  <1> HIDE DEF q
  <1>2. r \in Nat /\ m \in Nat /\ m < 64 /\ q = 64 * r + m
    BY <1>1, Digit
  <1> HIDE DEF r
  <1>3. h \in Nat /\ n \in Nat /\ n < 64 /\ r = 64 * h + n
    BY <1>2, Digit
  <1>4. bytes4(c) = <<240 + h, 128 + n, 128 + m, 128 + l>>
    BY <1>1 DEF bytes4, q
  <1> HIDE DEF h, n, m, l
  <1>5. h < 8 /\ h * 262144 + n * 4096 + m * 64 + l = c
    BY <1>1, <1>2, <1>3 DEF FourByteLast
  <1>6. (240 + h) % 8 = h /\ (128 + n) % 64 = n /\ (128 + m) % 64 = m /\ (128 + l) % 64 = l
    BY <1>1, <1>2, <1>3, <1>5, Payload
  <1> DEFINE t == bytes4(c)
  <1>7. Len(t) = 4 /\ t[1] = 240 + h /\ t[2] = 128 + n /\ t[3] = 128 + m /\ t[4] = 128 + l
    BY <1>4
  <1> HIDE DEF t
  <1>8. t[1] \in Nat /\ starts(t[1], 4) /\ follows(t[2]) /\ follows(t[3]) /\ follows(t[4])
    BY <1>1, <1>2, <1>3, <1>5, <1>7 DEF starts, follows
  <1>9. (t[1] % 8) * 262144 + (t[2] % 64) * 4096 + (t[3] % 64) * 64 + (t[4] % 64) = c
    BY <1>5, <1>6, <1>7
  <1> QED
    BY <1>7, <1>8, <1>9 DEF t

-----------------------------------------------------------------------------
(* The bytes of a code point of more than one byte, found in a string. *)

LEMMA Written ==
    ASSUME NEW c \in Nat, NEW t, writes(t, c), 128 <= c,
           NEW s, NEW i \in Nat, writtenAt(s, i, t)
    PROVE  /\ Len(t) \in {2, 3, 4} /\ t[1] \in Nat /\ starts(t[1], Len(t))
           /\ byte(s, i) = t[1]
           /\ \A k \in 1 .. Len(t) - 1 : follows(t[k + 1]) /\ byte(s, i + k) = t[k + 1]
           /\ Len(t) = 2 => (t[1] % 32) * 64 + (t[2] % 64) = c
           /\ Len(t) = 3 => (t[1] % 16) * 4096 + (t[2] % 64) * 64 + (t[3] % 64) = c
           /\ Len(t) = 4 =>
                (t[1] % 8) * 262144 + (t[2] % 64) * 4096 + (t[3] % 64) * 64 + (t[4] % 64) = c
  <1>1. CASE c < 2048 /\ t = bytes2(c)
    <2>1. /\ Len(t) = 2 /\ t[1] \in Nat /\ starts(t[1], 2) /\ follows(t[2])
          /\ (t[1] % 32) * 64 + (t[2] % 64) = c
      BY <1>1, Encoding2, SMT
    <2>2. byte(s, i) = t[1] /\ byte(s, i + 1) = t[2]
      BY <2>1, SMT DEF byte, writtenAt
    <2> QED
      BY <2>1, <2>2, SMT
  <1>2. CASE 2047 <= c /\ c < 65536 /\ t = bytes3(c)
    <2>1. /\ Len(t) = 3 /\ t[1] \in Nat /\ starts(t[1], 3) /\ follows(t[2]) /\ follows(t[3])
          /\ (t[1] % 16) * 4096 + (t[2] % 64) * 64 + (t[3] % 64) = c
      BY <1>2, Encoding3, SMT
    <2>2. byte(s, i) = t[1] /\ byte(s, i + 1) = t[2] /\ byte(s, i + 2) = t[3]
      BY <2>1, SMT DEF byte, writtenAt
    <2> QED
      BY <2>1, <2>2, SMT
  <1>3. CASE 65535 <= c /\ c <= FourByteLast /\ t = bytes4(c)
    <2>1. /\ Len(t) = 4 /\ t[1] \in Nat /\ starts(t[1], 4)
          /\ follows(t[2]) /\ follows(t[3]) /\ follows(t[4])
          /\ (t[1] % 8) * 262144 + (t[2] % 64) * 4096 + (t[3] % 64) * 64 + (t[4] % 64) = c
      BY <1>3, Encoding4, SMT
    <2>2. /\ byte(s, i) = t[1] /\ byte(s, i + 1) = t[2]
          /\ byte(s, i + 2) = t[3] /\ byte(s, i + 3) = t[4]
      BY <2>1, SMT DEF byte, writtenAt
    <2> QED
      BY <2>1, <2>2, SMT
  <1> QED
    BY <1>1, <1>2, <1>3, SMT DEF writes

LEMMA WrittenSingle ==
    ASSUME NEW c \in Nat, NEW t, writes(t, c), c < 128,
           NEW s, NEW i \in Nat, writtenAt(s, i, t)
    PROVE  Len(t) = 1 /\ byte(s, i) = c /\ isSingleByte(c) /\ encodingByteCount(c) = 1
  <1>1. t = <<c>>
    BY SMT DEF writes, bytes1
  <1>2. c \div 16 < 12
    BY SMT
  <1> QED
    BY <1>1, <1>2, SMT DEF writtenAt, byte, isSingleByte, encodingByteCount

(* get returns the code point written at the position, whatever stands     *)
(* around it, and 0 if the interval ends before its last byte; inc moves   *)
(* over exactly its bytes.                                                 *)
THEOREM GetReadsWhatIsWritten ==
    ASSUME NEW c \in Nat, NEW t, writes(t, c),
           NEW s, NEW i \in Nat, writtenAt(s, i, t), NEW epos \in Int
    PROVE  /\ charCodeByteCount(s, i) = Len(t)
           /\ i + Len(t) - 1 <= epos => decode(s, i, epos) = c
           /\ i + Len(t) - 1 > epos /\ Len(t) > 1 => decode(s, i, epos) = 0
  <1>1. CASE c < 128
    <2>1. /\ Len(t) = 1 /\ byte(s, i) = c
          /\ isSingleByte(c) /\ encodingByteCount(c) = 1
      BY <1>1, WrittenSingle, SMT
    <2>2. charCodeByteCount(s, i) = Len(t)
      BY <2>1, SMT DEF charCodeByteCount
    <2>3. decode(s, i, epos) = c
      BY <2>1, SMT DEF decode
    <2> QED
      BY <2>1, <2>2, <2>3, SMT
  <1>2. CASE 128 <= c
    <2>1. /\ Len(t) \in {2, 3, 4} /\ t[1] \in Nat /\ starts(t[1], Len(t))
          /\ byte(s, i) = t[1]
          /\ \A k \in 1 .. Len(t) - 1 : follows(t[k + 1]) /\ byte(s, i + k) = t[k + 1]
          /\ Len(t) = 2 => (t[1] % 32) * 64 + (t[2] % 64) = c
          /\ Len(t) = 3 => (t[1] % 16) * 4096 + (t[2] % 64) * 64 + (t[3] % 64) = c
          /\ Len(t) = 4 =>
                (t[1] % 8) * 262144 + (t[2] % 64) * 4096 + (t[3] % 64) * 64 + (t[4] % 64) = c
      BY <1>2, Written, SMT
    <2>2. encodingByteCount(byte(s, i)) = Len(t) /\ ~isSingleByte(byte(s, i))
      BY <2>1, StartByte, SMT
    <2>3. charCodeByteCount(s, i) = Len(t)
      BY <2>2, SMT DEF charCodeByteCount
    <2>4. /\ payload(s, i, 1) = t[2] % 64
          /\ Len(t) >= 3 => payload(s, i, 2) = t[3] % 64
          /\ Len(t) = 4 => payload(s, i, 3) = t[4] % 64
      <3>1. /\ byte(s, i + 1) = t[2]
            /\ Len(t) >= 3 => byte(s, i + 2) = t[3]
            /\ Len(t) = 4 => byte(s, i + 3) = t[4]
        BY <2>1, SMT
      <3> QED
        BY <3>1, SMT DEF payload
    <2>5. i + Len(t) - 1 > epos => decode(s, i, epos) = 0
      BY <2>2, SMT DEF decode
    <2>6. ASSUME i + Len(t) - 1 <= epos
          PROVE  decode(s, i, epos) = c
      <3>1. ~(i + Len(t) - 1 > epos)
        BY <2>1, <2>6, SMT
      <3>2. CASE Len(t) = 2
        BY <2>1, <2>2, <2>4, <3>1, <3>2, SMT DEF decode
      <3>3. CASE Len(t) = 3
        BY <2>1, <2>2, <2>4, <3>1, <3>3, SMT DEF decode
      <3>4. CASE Len(t) = 4
        BY <2>1, <2>2, <2>4, <3>1, <3>4, SMT DEF decode
      <3> QED
        BY <2>1, <3>2, <3>3, <3>4, SMT
    <2> QED
      BY <2>3, <2>5, <2>6, SMT
  <1> QED
    BY <1>1, <1>2, SMT

(* dec, from the last byte of a code point, moves before it only when that *)
(* is its only byte; otherwise it stops at the first byte.                 *)
THEOREM DecStopsAtTheFirstByte ==
    ASSUME NEW c \in Nat, NEW t, writes(t, c),
           NEW s, NEW i \in Nat, writtenAt(s, i, t)
    PROVE  charCodeByteCountReverse(s, i + Len(t) - 1) = IF Len(t) = 1 THEN 1 ELSE Len(t) - 1
  <1>1. CASE c < 128
    <2>1. Len(t) = 1 /\ isSingleByte(byte(s, i))
      BY <1>1, WrittenSingle, SMT
    <2>2. i + Len(t) - 1 = i
      BY <2>1, SMT
    <2> QED
      BY <2>1, <2>2, SMT DEF charCodeByteCountReverse
  <1>2. CASE 128 <= c
    <2> DEFINE m == Len(t) - 1
               last == i + m
               stops(count) ==
                  /\ \A k \in 0 .. count - 1 : isContinuationByte(byte(s, last - k))
                  /\ ~isContinuationByte(byte(s, last - count))
    <2>1. m \in 1 .. 3 /\ m \in Nat /\ last \in Nat /\ i + Len(t) - 1 = last
      BY <1>2, Written, SMT
    <2>2. ASSUME NEW k \in 0 .. m - 1
          PROVE  isContinuationByte(byte(s, last - k)) /\ ~isSingleByte(byte(s, last - k))
      <3> DEFINE n == m - k
      <3>1. n \in 1 .. Len(t) - 1 /\ last - k = i + n
        BY <2>1, SMT
      <3>2. \A j \in 1 .. Len(t) - 1 : follows(t[j + 1]) /\ byte(s, i + j) = t[j + 1]
        BY <1>2, Written, SMT
      <3> HIDE DEF m, last, n
      <3>3. follows(byte(s, i + n))
        BY <3>1, <3>2, SMT
      <3>4. follows(byte(s, last - k))
        BY <3>1, <3>3, SMT
      <3> QED
        BY <3>4, FollowingByte, SMT
    <2>3. ~isContinuationByte(byte(s, last - m))
      <3>1. last - m = i
        BY <2>1, SMT
      <3> QED
        BY <1>2, <3>1, Written, StartByte, SMT
    <2>4. ~isSingleByte(byte(s, last))
      <3>1. 0 \in 0 .. m - 1 /\ last - 0 = last
        BY <2>1, SMT
      <3> HIDE DEF m, last
      <3>2. ~isSingleByte(byte(s, last - 0))
        BY <2>2, <3>1, SMT
      <3> QED
        BY <3>1, <3>2, SMT
    <2> HIDE DEF m, last
    <2>5. m \in 0 .. last /\ stops(m)
      BY <2>1, <2>2, <2>3, SMT DEF last
    <2>6. ASSUME NEW count \in 0 .. last, stops(count)
          PROVE  count = m
      <3>1. CASE count < m
        <4>1. count \in 0 .. m - 1
          BY <2>1, <3>1, SMT
        <4> QED
          BY <2>2, <2>6, <4>1, SMT
      <3>2. CASE count > m
        <4>1. m \in 0 .. count - 1
          BY <2>1, <3>2, SMT
        <4> QED
          BY <2>3, <2>6, <4>1, SMT
      <3> QED
        BY <2>1, <3>1, <3>2, SMT
    <2>7. charCodeByteCountReverse(s, last) = CHOOSE count \in 0 .. last : stops(count)
      BY <2>4, SMT DEF charCodeByteCountReverse
    <2> HIDE DEF stops
    <2>8. charCodeByteCountReverse(s, last) = m
      BY <2>5, <2>6, <2>7, SMT
    <2>9. Len(t) # 1 /\ Len(t) - 1 = m
      BY <1>2, Written, SMT DEF m
    <2> QED
      BY <2>1, <2>8, <2>9, SMT
  <1> QED
    BY <1>1, <1>2, SMT

(* extractRegexCharToBytes writes every code point readably, but not as    *)
(* UTF-8 has it: 0x7FF and 0xFFFF, the last of two and of three bytes, get *)
(* a byte too many.                                                        *)
THEOREM TwoCodePointsAreOverlong ==
    ASSUME NEW c \in Nat, c <= FourByteLast
    PROVE  /\ writes(utf8(c), c) /\ writes(extractRegexCharToBytes(c), c)
           /\ extractRegexCharToBytes(c) = utf8(c) <=> c \notin {2047, 65535}
  <1>1. writes(utf8(c), c) /\ writes(extractRegexCharToBytes(c), c)
    BY SMT DEF writes, utf8, extractRegexCharToBytes
  <1>2. c \notin {2047, 65535} => extractRegexCharToBytes(c) = utf8(c)
    BY SMT DEF utf8, extractRegexCharToBytes
  <1>3. ASSUME c = 2047
        PROVE  extractRegexCharToBytes(c) # utf8(c)
    <2>1. extractRegexCharToBytes(c) = bytes3(c) /\ utf8(c) = bytes2(c)
      BY <1>3, SMT DEF utf8, extractRegexCharToBytes
    <2>2. Len(bytes3(c)) = 3 /\ Len(bytes2(c)) = 2
      BY SMT DEF bytes3, bytes2
    <2> QED
      BY <2>1, <2>2, SMT
  <1>4. ASSUME c = 65535
        PROVE  extractRegexCharToBytes(c) # utf8(c)
    <2>1. extractRegexCharToBytes(c) = bytes4(c) /\ utf8(c) = bytes3(c)
      BY <1>4, SMT DEF utf8, extractRegexCharToBytes
    <2>2. Len(bytes4(c)) = 4 /\ Len(bytes3(c)) = 3
      BY SMT DEF bytes4, bytes3
    <2> QED
      BY <2>1, <2>2, SMT
  <1> QED
    BY <1>1, <1>2, <1>3, <1>4, SMT
-----------------------------------------------------------------------------
(* Numbers. *)

\* A set of numbers that is not empty has a least element.
LEMMA LeastNumber ==
    ASSUME NEW S \in SUBSET Nat, S # {}
    PROVE  \E n \in S : \A m \in S : n <= m
  <1>1. PICK n \in S : \A m \in S : ~(<<m, n>> \in OpToRel(<, Nat))
    BY NatLessThanWellFounded, WFMin
  <1>2. \A m \in S : ~(m < n)
    BY <1>1, Zenon DEF OpToRel
  <1> QED
    BY <1>2

\* So Min of one is its least element.
LEMMA MinIsLeast ==
    ASSUME NEW S \in SUBSET Nat, S # {}
    PROVE  Min(S) \in S /\ \A m \in S : Min(S) <= m
  BY LeastNumber DEF Min

\* And one up to n has a greatest.
LEMMA GreatestNumber ==
    ASSUME NEW n \in Nat, NEW S \in SUBSET (0 .. n), S # {}
    PROVE  \E k \in S : \A m \in S : m <= k
  <1> DEFINE T == {m \in 0 .. n : n - m \in S}
  <1>1. T \in SUBSET Nat /\ T # {}
    <2>1. PICK k \in S : TRUE
      OBVIOUS
    <2>2. n - k \in 0 .. n /\ n - (n - k) = k
      OBVIOUS
    <2>3. n - k \in T
      BY <2>1, <2>2
    <2>4. T \in SUBSET Nat
      OBVIOUS
    <2> HIDE DEF T
    <2> QED
      BY <2>3, <2>4
  <1>2. PICK t \in T : \A m \in T : t <= m
    <2> HIDE DEF T
    <2> QED
      BY <1>1, LeastNumber
  <1>3. n - t \in S
    OBVIOUS
  <1>4. ASSUME NEW m \in S
        PROVE  m <= n - t
    <2>1. n - m \in T
      <3>1. n - m \in 0 .. n /\ n - (n - m) = m
        OBVIOUS
      <3> QED
        BY <3>1
    <2>2. t <= n - m
      BY <1>2, <2>1
    <2> QED
      BY <2>2
  <1> QED
    BY <1>3, <1>4

-----------------------------------------------------------------------------
(* FlattenSeq, by what it has gathered of the first i sequences. *)

isGathered(f, p) == f = [i \in 1 .. Len(p) |-> IF i = 1 THEN p[i] ELSE f[i - 1] \o p[i]]
gathered(p, i) == IF i = 0 THEN <<>> ELSE (CHOOSE f : isGathered(f, p))[i]

LEMMA GatheredExists ==
    ASSUME NEW S, NEW p \in Seq(Seq(S))
    PROVE  \E f : isGathered(f, p)
  <1> DEFINE upTo(f, n) == f = [i \in 1 .. n |-> IF i = 1 THEN p[i] ELSE f[i - 1] \o p[i]]
             Bad == {n \in 0 .. Len(p) : ~\E f : upTo(f, n)}
  <1>1. ASSUME Bad # {}
        PROVE  FALSE
    <2>1. Bad \in SUBSET Nat
      <3> HIDE DEF upTo
      <3> QED
        OBVIOUS
    <2>2. PICK n \in Bad : \A b \in Bad : n <= b
      <3> HIDE DEF Bad
      <3> QED
        BY <1>1, <2>1, LeastNumber
    <2>3. n \in 0 .. Len(p) /\ ~\E f : upTo(f, n)
      BY <2>2
    <2>4. n # 0
      <3>1. upTo(<<>>, 0)
        OBVIOUS
      <3> QED
        BY <2>3, <3>1
    <2>5. n - 1 \in 0 .. Len(p)
      BY <2>3, <2>4
    <2>6. n - 1 \notin Bad
      <3> HIDE DEF Bad
      <3> QED
        BY <2>2, <2>3
    <2>7. PICK f : upTo(f, n - 1)
      BY <2>5, <2>6
    <2> DEFINE g == [i \in 1 .. n |-> IF i = n THEN IF i = 1 THEN p[i] ELSE f[i - 1] \o p[i] ELSE f[i]]
    <2>8. ASSUME NEW i \in 1 .. n
          PROVE  g[i] = IF i = 1 THEN p[i] ELSE g[i - 1] \o p[i]
      <3>1. i # 1 => i - 1 \in 1 .. n /\ i - 1 # n
        BY <2>3
      <3>2. i # 1 => g[i - 1] = f[i - 1]
        BY <3>1
      <3>3. CASE i = n
        BY <3>2, <3>3
      <3>4. CASE i # n
        <4>1. i \in 1 .. n - 1
          BY <2>3, <3>4
        <4>2. f[i] = IF i = 1 THEN p[i] ELSE f[i - 1] \o p[i]
          BY <2>7, <4>1
        <4> QED
          BY <3>2, <3>4, <4>2
      <3> QED
        BY <3>3, <3>4
    <2>9. upTo(g, n)
      <3>1. g = [i \in 1 .. n |-> g[i]]
        OBVIOUS
      <3> HIDE DEF g
      <3> QED
        BY <2>8, <3>1
    <2> QED
      BY <2>3, <2>9
  <1>2. Len(p) \in 0 .. Len(p)
    OBVIOUS
  <1>3. \E f : upTo(f, Len(p))
    <2> HIDE DEF upTo
    <2> QED
      BY <1>1, <1>2
  <1> QED
    BY <1>3 DEF isGathered

\* Each sequence adds its elements to what the ones before it gave.
LEMMA Gathering ==
    ASSUME NEW S, NEW p \in Seq(Seq(S))
    PROVE  /\ gathered(p, 0) = <<>>
           /\ \A i \in 0 .. Len(p) : gathered(p, i) \in Seq(S)
           /\ \A i \in 1 .. Len(p) : gathered(p, i) = gathered(p, i - 1) \o p[i]
           /\ FlattenSeq(p) = gathered(p, Len(p))
  <1> DEFINE f == CHOOSE g : isGathered(g, p)
  <1>1. isGathered(f, p)
    BY GatheredExists
  <1>2. \A i \in 1 .. Len(p) : gathered(p, i) = f[i]
    BY DEF gathered
  <1>3. gathered(p, 0) = <<>>
    BY DEF gathered
  <1>4. FlattenSeq(p) = gathered(p, Len(p))
    <2>1. CASE Len(p) = 0
      BY <2>1, <1>3 DEF FlattenSeq
    <2>2. CASE Len(p) # 0
      <3>1. FlattenSeq(p) = f[Len(p)]
        BY <2>2 DEF FlattenSeq, isGathered
      <3> QED
        BY <1>2, <2>2, <3>1
    <2> QED
      BY <2>1, <2>2
  <1> HIDE DEF f
  <1>5. ASSUME NEW i \in 1 .. Len(p)
        PROVE  gathered(p, i) = gathered(p, i - 1) \o p[i]
    <2>1. f[i] = IF i = 1 THEN p[i] ELSE f[i - 1] \o p[i]
      BY <1>1 DEF isGathered
    <2>2. p[i] \in Seq(S)
      OBVIOUS
    <2>3. CASE i = 1
      <3>1. gathered(p, i) = p[i] /\ gathered(p, i - 1) = <<>>
        BY <1>2, <1>3, <2>1, <2>3
      <3> QED
        BY <2>2, <3>1, ConcatEmptySeq
    <2>4. CASE i # 1
      <3>1. i - 1 \in 1 .. Len(p)
        BY <2>4
      <3> QED
        BY <1>2, <2>1, <2>4, <3>1
    <2> QED
      BY <2>3, <2>4
  <1>6. ASSUME NEW i \in 0 .. Len(p), gathered(p, i) \notin Seq(S)
        PROVE  FALSE
    <2> DEFINE Bad == {j \in 0 .. Len(p) : gathered(p, j) \notin Seq(S)}
    <2>1. Bad \in SUBSET Nat /\ i \in Bad
      BY <1>6
    <2>2. PICK j \in Bad : \A b \in Bad : j <= b
      <3> HIDE DEF Bad
      <3> QED
        BY <2>1, LeastNumber
    <2>3. j \in 0 .. Len(p) /\ gathered(p, j) \notin Seq(S)
      BY <2>2
    <2>4. j # 0
      <3>1. <<>> \in Seq(S)
        OBVIOUS
      <3> QED
        BY <1>3, <2>3, <3>1
    <2>5. j - 1 \in 0 .. Len(p) /\ j - 1 < j /\ j \in 1 .. Len(p)
      BY <2>3, <2>4
    <2>6. gathered(p, j - 1) \in Seq(S)
      BY <2>2, <2>5
    <2>7. p[j] \in Seq(S)
      BY <2>5
    <2>8. gathered(p, j) = gathered(p, j - 1) \o p[j]
      BY <1>5, <2>5
    <2>9. gathered(p, j) \in Seq(S)
      BY <2>6, <2>7, <2>8, ConcatProperties
    <2> QED
      BY <2>3, <2>9
  <1> QED
    BY <1>3, <1>4, <1>5, <1>6

\* Its elements are theirs.
LEMMA FlattenedElements ==
    ASSUME NEW S, NEW p \in Seq(Seq(S)), NEW T,
           \A i \in 1 .. Len(p) : \A k \in 1 .. Len(p[i]) : p[i][k] \in T
    PROVE  FlattenSeq(p) \in Seq(S) /\ FlattenSeq(p) \in Seq(T)
  <1>1. FlattenSeq(p) \in Seq(S)
    <2>1. Len(p) \in 0 .. Len(p)
      OBVIOUS
    <2> QED
      BY <2>1, Gathering
  <1>2. p \in Seq(Seq(T))
    <2>1. ASSUME NEW i \in 1 .. Len(p)
          PROVE  p[i] \in Seq(T)
      <3>1. p[i] \in Seq(S)
        OBVIOUS
      <3>2. p[i] = [k \in 1 .. Len(p[i]) |-> p[i][k]] /\ Len(p[i]) \in Nat
        BY <3>1
      <3>3. [k \in 1 .. Len(p[i]) |-> p[i][k]] \in [1 .. Len(p[i]) -> T]
        OBVIOUS
      <3> DEFINE n == Len(p[i])
                 e == p[i]
      <3>4. n \in Nat /\ e \in [1 .. n -> T]
        BY <3>2, <3>3
      <3> HIDE DEF n, e
      <3>5. e \in Seq(T)
        BY <3>4, SeqDef
      <3> QED
        BY <3>5 DEF e
    <2> QED
      BY <2>1
  <1>3. FlattenSeq(p) \in Seq(T)
    <2>1. Len(p) \in 0 .. Len(p)
      OBVIOUS
    <2> QED
      BY <1>2, <2>1, Gathering
  <1> QED
    BY <1>1, <1>3

\* One sequence is not changed.
LEMMA FlattenedOne ==
    ASSUME NEW S, NEW s \in Seq(S)
    PROVE  FlattenSeq(<<s>>) = s
  <1>1. <<s>> \in Seq(Seq(S)) /\ Len(<<s>>) = 1 /\ <<s>>[1] = s
    OBVIOUS
  <1>2. FlattenSeq(<<s>>) = gathered(<<s>>, 1)
    BY <1>1, Gathering
  <1>3. gathered(<<s>>, 1) = gathered(<<s>>, 0) \o s
    <2>1. 1 \in 1 .. Len(<<s>>) /\ 1 - 1 = 0
      BY <1>1
    <2>2. \A i \in 1 .. Len(<<s>>) : gathered(<<s>>, i) = gathered(<<s>>, i - 1) \o <<s>>[i]
      BY <1>1, Gathering
    <2> QED
      BY <1>1, <2>1, <2>2
  <1>4. gathered(<<s>>, 0) = <<>>
    BY <1>1, Gathering
  <1> QED
    BY <1>2, <1>3, <1>4, ConcatEmptySeq
\* Where the elements of each sequence are.
LEMMA FlattenedPositions ==
    ASSUME NEW S, NEW p \in Seq(Seq(S))
    PROVE  /\ Len(gathered(p, 0)) = 0
           /\ \A i \in 0 .. Len(p) : Len(gathered(p, i)) \in 0 .. Len(FlattenSeq(p))
           /\ Len(FlattenSeq(p)) = Len(gathered(p, Len(p)))
           /\ \A i \in 1 .. Len(p) :
                 /\ Len(gathered(p, i)) = Len(gathered(p, i - 1)) + Len(p[i])
                 /\ \A k \in 1 .. Len(p[i]) : FlattenSeq(p)[Len(gathered(p, i - 1)) + k] = p[i][k]
  <1> DEFINE g(i) == gathered(p, i)
             n == Len(p)
             agrees(i, j) == Len(g(i)) <= Len(g(j)) /\ \A x \in 1 .. Len(g(i)) : g(j)[x] = g(i)[x]
  <1>1. /\ g(0) = <<>> /\ n \in Nat /\ FlattenSeq(p) = g(n)
        /\ \A i \in 0 .. n : g(i) \in Seq(S) /\ Len(g(i)) \in Nat
    <2>1. \A i \in 0 .. n : g(i) \in Seq(S)
      BY Gathering
    <2>2. \A i \in 0 .. n : Len(g(i)) \in Nat
      BY <2>1, LenProperties
    <2>3. g(0) = <<>> /\ FlattenSeq(p) = g(n)
      BY Gathering
    <2>4. n \in Nat
      OBVIOUS
    <2> HIDE DEF g, n
    <2> QED
      BY <2>1, <2>2, <2>3, <2>4
  <1>2. \A i \in 1 .. n : g(i) = g(i - 1) \o p[i] /\ p[i] \in Seq(S) /\ i - 1 \in 0 .. n /\ i \in 0 .. n
    <2>1. \A i \in 1 .. n : g(i) = g(i - 1) \o p[i]
      BY Gathering
    <2>2. \A i \in 1 .. n : p[i] \in Seq(S)
      OBVIOUS
    <2>3. \A i \in 1 .. n : i - 1 \in 0 .. n /\ i \in 0 .. n
      BY <1>1
    <2> HIDE DEF g, n
    <2> QED
      BY <2>1, <2>2, <2>3
  <1> HIDE DEF g, n
  <1>3. ASSUME NEW i \in 1 .. n
        PROVE  /\ Len(g(i)) = Len(g(i - 1)) + Len(p[i])
               /\ \A x \in 1 .. Len(g(i - 1)) : g(i)[x] = g(i - 1)[x]
               /\ \A k \in 1 .. Len(p[i]) : g(i)[Len(g(i - 1)) + k] = p[i][k]
    <2> DEFINE a == g(i - 1)
               b == p[i]
    <2>1. a \in Seq(S) /\ b \in Seq(S) /\ g(i) = a \o b
      BY <1>1, <1>2
    <2> HIDE DEF a, b
    <2>2. Len(a \o b) = Len(a) + Len(b) /\ Len(a) \in Nat /\ Len(b) \in Nat
      BY <2>1, ConcatProperties, LenProperties
    <2>3. \A x \in 1 .. Len(a) + Len(b) : (a \o b)[x] = IF x <= Len(a) THEN a[x] ELSE b[x - Len(a)]
      BY <2>1, ConcatProperties
    <2>4. \A x \in 1 .. Len(a) : (a \o b)[x] = a[x]
      BY <2>2, <2>3
    <2>5. ASSUME NEW k \in 1 .. Len(b)
          PROVE  (a \o b)[Len(a) + k] = b[k]
      <3>1. Len(a) + k \in 1 .. Len(a) + Len(b) /\ ~(Len(a) + k <= Len(a)) /\ Len(a) + k - Len(a) = k
        BY <2>2
      <3> QED
        BY <2>3, <3>1
    <2>6. /\ Len(a \o b) = Len(a) + Len(b)
          /\ \A x \in 1 .. Len(a) : (a \o b)[x] = a[x]
          /\ \A k \in 1 .. Len(b) : (a \o b)[Len(a) + k] = b[k]
      BY <2>2, <2>4, <2>5
    <2> QED
      BY <2>1, <2>6 DEF a, b
  <1>4. ASSUME NEW i \in 0 .. n, NEW j \in i .. n
        PROVE  agrees(i, j)
    <2> DEFINE Bad == {m \in 0 .. n : i <= m /\ ~agrees(i, m)}
    <2>1. ASSUME Bad # {}
          PROVE  FALSE
      <3>1. Bad \in SUBSET Nat
        <4> HIDE DEF agrees
        <4> QED
          BY <1>1
      <3>2. PICK m \in Bad : \A b \in Bad : m <= b
        <4> HIDE DEF Bad
        <4> QED
          BY <2>1, <3>1, LeastNumber
      <3>3. m \in 0 .. n /\ i <= m /\ ~agrees(i, m)
        BY <3>2
      <3>4. agrees(i, i)
        BY <1>1
      <3>5. m # i
        BY <3>3, <3>4
      <3>6. m - 1 \in 0 .. n /\ i <= m - 1 /\ m \in 1 .. n /\ m - 1 < m
        BY <1>1, <3>3, <3>5
      <3>7. m - 1 \notin Bad
        <4> HIDE DEF Bad
        <4> QED
          BY <3>2, <3>6
      <3>8. agrees(i, m - 1)
        BY <3>6, <3>7
      <3>9. Len(g(m)) = Len(g(m - 1)) + Len(p[m]) /\ Len(p[m]) \in Nat
        BY <1>2, <1>3, <3>6, LenProperties
      <3>10. \A x \in 1 .. Len(g(m - 1)) : g(m)[x] = g(m - 1)[x]
        BY <1>3, <3>6
      <3>11. Len(g(i)) \in Nat /\ Len(g(m - 1)) \in Nat
        BY <1>1, <3>6
      <3>12. agrees(i, m)
        <4> DEFINE a == g(i)
                   b == g(m - 1)
                   c == g(m)
        <4>1. Len(a) <= Len(b) /\ (\A x \in 1 .. Len(a) : b[x] = a[x]) /\ Len(a) \in Nat /\ Len(b) \in Nat
          BY <3>8, <3>11
        <4>2. \A x \in 1 .. Len(b) : c[x] = b[x]
          BY <3>10
        <4>3. Len(c) = Len(b) + Len(p[m])
          BY <3>9
        <4> HIDE DEF a, b, c
        <4>4. Len(c) \in Nat /\ Len(a) <= Len(c)
          BY <3>9, <4>1, <4>3
        <4>5. \A x \in 1 .. Len(a) : c[x] = a[x]
          BY <4>1, <4>2, <4>4
        <4> QED
          BY <4>4, <4>5 DEF a, c
      <3> QED
        BY <3>3, <3>12
    <2>2. j \in 0 .. n /\ i <= j
      BY <1>1
    <2> HIDE DEF agrees
    <2> QED
      BY <2>1, <2>2
  <1>5. ASSUME NEW i \in 0 .. n
        PROVE  Len(g(i)) \in 0 .. Len(g(n)) /\ \A x \in 1 .. Len(g(i)) : g(n)[x] = g(i)[x]
    <2>1. n \in i .. n
      BY <1>1
    <2>2. agrees(i, n)
      BY <1>4, <2>1
    <2>3. Len(g(i)) \in Nat /\ Len(g(n)) \in Nat
      BY <1>1
    <2> QED
      BY <2>2, <2>3
  <1>6. ASSUME NEW i \in 1 .. n, NEW k \in 1 .. Len(p[i])
        PROVE  g(n)[Len(g(i - 1)) + k] = p[i][k]
    <2>1. Len(g(i - 1)) \in Nat /\ Len(p[i]) \in Nat
      BY <1>1, <1>2, LenProperties
    <2>2. Len(g(i - 1)) + k \in 1 .. Len(g(i))
      <3>1. Len(g(i)) = Len(g(i - 1)) + Len(p[i])
        BY <1>3
      <3> QED
        BY <2>1, <3>1
    <2>3. g(i)[Len(g(i - 1)) + k] = p[i][k]
      BY <1>3
    <2>4. g(n)[Len(g(i - 1)) + k] = g(i)[Len(g(i - 1)) + k]
      BY <1>2, <1>5, <2>2
    <2> QED
      BY <2>3, <2>4
  <1>7. Len(g(0)) = 0
    BY <1>1
  <1>8. \A i \in 1 .. n : Len(g(i)) = Len(g(i - 1)) + Len(p[i])
    BY <1>3
  <1>9. \A i \in 0 .. n : Len(g(i)) \in 0 .. Len(FlattenSeq(p))
    BY <1>1, <1>5
  <1>10. \A i \in 1 .. n : \A k \in 1 .. Len(p[i]) : FlattenSeq(p)[Len(g(i - 1)) + k] = p[i][k]
    BY <1>1, <1>6
  <1> QED
    BY <1>1, <1>7, <1>8, <1>9, <1>10 DEF g, n
-----------------------------------------------------------------------------
(* Units and their codes. *)

(* The numbers a text may name: of its own table. *)
namedCodes(char) == {c \in 0 .. 127 : char => isLegalCChar(c)}

LEMMA LegalCodes ==
    ASSUME NEW char \in BOOLEAN, NEW c \in Int, c \in 32 .. 126 \/ c = 9 \/ c = 10
    PROVE  c \in namedCodes(char)
  BY DEF namedCodes, isLegalCChar, isprint, Newline

LEMMA SharedTable ==
    /\ SharedNames = [i \in 1 .. 31 |-> SharedNames[i]]
    /\ Len(SharedNames) = 31
    /\ \A i \in 1 .. 31 : SharedNames[i][1] \in 32 .. 126
  BY DEF SharedNames

\* Both tables are sequences of such numbers and names.
LEMMA NamesAreOfCodes ==
    ASSUME NEW char \in BOOLEAN
    PROVE  /\ DOMAIN namesOf(char) \in SUBSET Nat
           /\ \A i \in DOMAIN namesOf(char) : namesOf(char)[i][1] \in namedCodes(char)
  <1>1. ASSUME NEW first, NEW n \in Nat, first = [i \in 1 .. n |-> first[i]], Len(first) = n,
               namesOf(char) = first \o SharedNames,
               \A i \in 1 .. n : first[i][1] \in namedCodes(char)
        PROVE  /\ DOMAIN namesOf(char) \in SUBSET Nat
               /\ \A i \in DOMAIN namesOf(char) : namesOf(char)[i][1] \in namedCodes(char)
    <2> DEFINE E == {first[i] : i \in 1 .. n} \cup {SharedNames[i] : i \in 1 .. 31}
    <2>1. first \in Seq(E) /\ SharedNames \in Seq(E)
      <3>1. \A i \in 1 .. n : first[i] \in E
        OBVIOUS
      <3>2. \A i \in 1 .. 31 : SharedNames[i] \in E
        OBVIOUS
      <3> HIDE DEF E
      <3>3. [i \in 1 .. n |-> first[i]] \in Seq(E) /\ [i \in 1 .. 31 |-> SharedNames[i]] \in Seq(E)
        BY <3>1, <3>2
      <3> QED
        BY <1>1, <3>3, SharedTable
    <2>2. ASSUME NEW e \in E
          PROVE  e[1] \in namedCodes(char)
      <3>1. CASE e \in {SharedNames[i] : i \in 1 .. 31}
        BY <3>1, SharedTable, LegalCodes, SMTT(30)
      <3>2. CASE e \in {first[i] : i \in 1 .. n}
        BY <1>1, <3>2
      <3> QED
        BY <3>1, <3>2
    <2> HIDE DEF E
    <2>3. namesOf(char) \in Seq(E)
      BY <1>1, <2>1, ConcatProperties
    <2> QED
      BY <2>2, <2>3
  <1>2. CASE char = TRUE
    <2> DEFINE first == <<<<9, "t">>, <<10, "n">>, <<34, "quote">>, <<39, "">>, <<39, "tick">>, <<59, "semi">>>>
    <2>1. namesOf(char) = first \o SharedNames
      BY <1>2 DEF namesOf, charNames
    <2>2. first = [i \in 1 .. 6 |-> first[i]] /\ Len(first) = 6
      OBVIOUS
    <2>3. /\ first[1][1] = 9 /\ first[2][1] = 10 /\ first[3][1] = 34
          /\ first[4][1] = 39 /\ first[5][1] = 39 /\ first[6][1] = 59
      OBVIOUS
    <2> HIDE DEF first
    <2>4. ASSUME NEW i \in 1 .. 6
          PROVE  first[i][1] \in namedCodes(char)
      <3>1. i \in {1, 2, 3, 4, 5, 6}
        OBVIOUS
      <3> QED
        BY <2>3, <3>1, LegalCodes
    <2> QED
      BY <1>1, <2>1, <2>2, <2>4
  <1>3. CASE char = FALSE
    <2> DEFINE control == [c \in 1 .. 32 |-> <<c - 1, ControlNames[c]>>]
               others == <<<<127, "DEL">>, <<34, "">>, <<34, "quote">>, <<39, "tick">>, <<59, "semicolon">>>>
               first == control \o others
               E == {control[i] : i \in 1 .. 32} \cup {others[i] : i \in 1 .. 5}
    <2>1. namesOf(char) = first \o SharedNames
      BY <1>3 DEF namesOf, unicodeNames
    <2>2. others = [i \in 1 .. 5 |-> others[i]] /\ Len(others) = 5
      OBVIOUS
    <2>3. /\ others[1][1] = 127 /\ others[2][1] = 34 /\ others[3][1] = 34
          /\ others[4][1] = 39 /\ others[5][1] = 59
      OBVIOUS
    <2>4. control = [i \in 1 .. 32 |-> control[i]] /\ \A i \in 1 .. 32 : control[i][1] \in 0 .. 127
      OBVIOUS
    <2> HIDE DEF control, others
    <2>5. control \in Seq(E) /\ others \in Seq(E)
      <3>1. (\A i \in 1 .. 32 : control[i] \in E) /\ \A i \in 1 .. 5 : others[i] \in E
        OBVIOUS
      <3> HIDE DEF E
      <3>2. [i \in 1 .. 32 |-> control[i]] \in Seq(E) /\ [i \in 1 .. 5 |-> others[i]] \in Seq(E)
        BY <3>1
      <3> QED
        BY <2>2, <2>4, <3>2
    <2>6. ASSUME NEW e \in E
          PROVE  e[1] \in namedCodes(char)
      <3>1. \A c \in 0 .. 127 : c \in namedCodes(char)
        BY <1>3 DEF namedCodes
      <3>2. \A i \in 1 .. 5 : others[i][1] \in 0 .. 127
        <4>1. ASSUME NEW i \in 1 .. 5
              PROVE  i \in {1, 2, 3, 4, 5}
          OBVIOUS
        <4> QED
          BY <2>3, <4>1
      <3>3. e[1] \in 0 .. 127
        BY <2>4, <3>2
      <3> QED
        BY <3>1, <3>3
    <2> HIDE DEF E
    <2>7. first \in Seq(E)
      BY <2>5, ConcatProperties
    <2> HIDE DEF first
    <2>8. /\ Len(first) \in Nat /\ first = [i \in 1 .. Len(first) |-> first[i]]
          /\ \A i \in 1 .. Len(first) : first[i][1] \in namedCodes(char)
      BY <2>6, <2>7
    <2> QED
      BY <1>1, <2>1, <2>8
  <1> QED
    BY <1>2, <1>3

LEMMA NameIsOfACode ==
    ASSUME NEW char \in BOOLEAN, NEW name, fromName(name, char) # Null
    PROVE  \E c \in namedCodes(char) : fromName(name, char) = <<c>>
  <1> DEFINE names == namesOf(char)
             named == {i \in DOMAIN names : names[i][2] = name}
  <1>1. named # {} /\ fromName(name, char) = <<names[Min(named)][1]>>
    BY DEF fromName
  <1>2. named \in SUBSET Nat
    BY NamesAreOfCodes
  <1>3. Min(named) \in named
    <2> HIDE DEF named
    <2> QED
      BY <1>1, <1>2, MinIsLeast
  <1>4. Min(named) \in DOMAIN names
    BY <1>3
  <1>5. names[Min(named)][1] \in namedCodes(char)
    <2> HIDE DEF named
    <2> QED
      BY <1>4, NamesAreOfCodes
  <1> QED
    BY <1>1, <1>5

LEMMA HexIsOfACode ==
    ASSUME NEW char \in BOOLEAN, NEW u, NEW err, decodeHexEscape(u, char, err) # Null
    PROVE  /\ decodeHexEscape(u, char, err) = <<u.val>>
           /\ u.val \in CodePoints \/ isLegalCChar(u.val)
           /\ char => isLegalCChar(u.val)
           /\ ~char => u.val \in CodePoints
           /\ err # "ERANGE" /\ ~(u.digits > IF char THEN 2 ELSE 6)
  <1>1. CASE char = TRUE
    BY <1>1 DEF decodeHexEscape
  <1>2. CASE char = FALSE
    BY <1>2 DEF decodeHexEscape
  <1> QED
    BY <1>1, <1>2

LEMMA BytesAreNumbers == \A b \in Bytes : b \in Nat /\ b < 256
  BY DEF Bytes

(* What four bytes hold. *)
Numbers == {c \in Nat : c <= FourByteLast}

\* A number of four bytes is written in one to four.
LEMMA CodeBytes ==
    ASSUME NEW c \in Numbers
    PROVE  /\ extractRegexCharToBytes(c) \in Seq(Bytes)
           /\ Len(extractRegexCharToBytes(c)) \in 1 .. 4
           /\ writes(extractRegexCharToBytes(c), c)
  <1>0. c \in Nat /\ c <= FourByteLast
    BY DEF Numbers
  <1>1. writes(extractRegexCharToBytes(c), c)
    BY <1>0, SMT DEF writes, extractRegexCharToBytes
  <1> DEFINE w == extractRegexCharToBytes(c)
  <1>2. CASE c <= 127
    <2>1. extractRegexCharToBytes(c) = <<c>> /\ c \in Bytes
      BY <1>0, <1>2, SMT DEF extractRegexCharToBytes, bytes1, Bytes
    <2> QED
      BY <1>1, <2>1
  <1>3. CASE 127 < c /\ c < 2047
    <2> DEFINE t == bytes2(c)
    <2>1. extractRegexCharToBytes(c) = t
      BY <1>0, <1>3, SMT DEF extractRegexCharToBytes
    <2>2. Len(t) = 2 /\ t[1] \in Nat /\ starts(t[1], 2) /\ follows(t[2])
      BY <1>0, <1>3, Encoding2, SMT
    <2>3. t = <<t[1], t[2]>>
      BY DEF bytes2
    <2> HIDE DEF t
    <2>4. t[1] \in Bytes /\ t[2] \in Bytes
      BY <2>2 DEF starts, follows, Bytes
    <2>5. <<t[1], t[2]>> \in Seq(Bytes)
      BY <2>4
    <2>6. w \in Seq(Bytes) /\ Len(w) = 2
      BY <2>1, <2>2, <2>3, <2>5
    <2> HIDE DEF w
    <2>7. Len(w) \in 1 .. 4
      BY <2>6
    <2> QED
      BY <1>1, <2>6, <2>7 DEF w
  <1>4. CASE 2047 <= c /\ c < 65535
    <2> DEFINE t == bytes3(c)
    <2>1. extractRegexCharToBytes(c) = t
      BY <1>0, <1>4, SMT DEF extractRegexCharToBytes
    <2>2. Len(t) = 3 /\ t[1] \in Nat /\ starts(t[1], 3) /\ follows(t[2]) /\ follows(t[3])
      BY <1>0, <1>4, Encoding3, SMT
    <2>3. t = <<t[1], t[2], t[3]>>
      BY DEF bytes3
    <2> HIDE DEF t
    <2>4. t[1] \in Bytes /\ t[2] \in Bytes /\ t[3] \in Bytes
      BY <2>2 DEF starts, follows, Bytes
    <2>5. <<t[1], t[2], t[3]>> \in Seq(Bytes)
      BY <2>4
    <2>6. w \in Seq(Bytes) /\ Len(w) = 3
      BY <2>1, <2>2, <2>3, <2>5
    <2> HIDE DEF w
    <2>7. Len(w) \in 1 .. 4
      BY <2>6
    <2> QED
      BY <1>1, <2>6, <2>7 DEF w
  <1>5. CASE 65535 <= c
    <2> DEFINE t == bytes4(c)
    <2>1. extractRegexCharToBytes(c) = t
      BY <1>0, <1>5, SMT DEF extractRegexCharToBytes
    <2>2. Len(t) = 4 /\ t[1] \in Nat /\ starts(t[1], 4) /\ follows(t[2]) /\ follows(t[3]) /\ follows(t[4])
      BY <1>0, <1>5, Encoding4, SMT
    <2>3. t = <<t[1], t[2], t[3], t[4]>>
      BY DEF bytes4
    <2> HIDE DEF t
    <2>4. t[1] \in Bytes /\ t[2] \in Bytes /\ t[3] \in Bytes /\ t[4] \in Bytes
      BY <2>2 DEF starts, follows, Bytes
    <2>5. <<t[1], t[2], t[3], t[4]>> \in Seq(Bytes)
      BY <2>4
    <2>6. w \in Seq(Bytes) /\ Len(w) = 4
      BY <2>1, <2>2, <2>3, <2>5
    <2> HIDE DEF w
    <2>7. Len(w) \in 1 .. 4
      BY <2>6
    <2> QED
      BY <1>1, <2>6, <2>7 DEF w
  <1> QED
    BY <1>0, <1>2, <1>3, <1>4, <1>5, SMT

\* get gives no more than four bytes hold.
LEMMA Remainders ==
    ASSUME NEW b \in Nat
    PROVE  /\ b % 64 \in Nat /\ b % 64 < 64 /\ b % 32 \in Nat /\ b % 32 < 32
           /\ b % 16 \in Nat /\ b % 16 < 16 /\ b % 8 \in Nat /\ b % 8 < 8
  BY SMT

LEMMA DecodedFits ==
    ASSUME NEW s \in Seq(Bytes), NEW i \in Nat, i < Len(s)
    PROVE  decode(s, i, Len(s) - 1) \in Numbers
  <1> DEFINE b == byte(s, i)
             n == encodingByteCount(b)
             pay(k) == payload(s, i, k)
  <1>1. b \in Nat /\ b < 256
    <2>1. i + 1 \in 1 .. Len(s)
      OBVIOUS
    <2>2. s[i + 1] \in Bytes
      BY <2>1
    <2>3. b \in Bytes
      BY <2>2 DEF byte
    <2> HIDE DEF b
    <2> QED
      BY <2>3 DEF Bytes
  <1>2. n \in Nat /\ n >= 1 /\ n <= 4
    BY DEF encodingByteCount
  <1>3. ASSUME NEW k \in Nat, i + k < Len(s)
        PROVE  pay(k) \in Nat /\ pay(k) < 64
    <2>1. i + k + 1 \in 1 .. Len(s)
      BY <1>3
    <2> DEFINE x == s[i + k + 1]
    <2>2. x \in Bytes /\ pay(k) = x % 64
      BY <2>1 DEF payload, byte
    <2> HIDE DEF x
    <2>3. x \in Nat
      BY <2>2 DEF Bytes
    <2> QED
      BY <2>2, <2>3, Remainders
  <1>4. /\ b % 32 \in Nat /\ b % 32 < 32 /\ b % 16 \in Nat /\ b % 16 < 16
        /\ b % 8 \in Nat /\ b % 8 < 8
    BY <1>1, Remainders
  <1>5. ASSUME n > 1, i + n - 1 <= Len(s) - 1
        PROVE  pay(1) \in Nat /\ pay(1) < 64
    <2>1. i + 1 < Len(s)
      BY <1>5, <1>2
    <2> QED
      BY <1>3, <2>1
  <1>6. ASSUME n > 2, i + n - 1 <= Len(s) - 1
        PROVE  pay(2) \in Nat /\ pay(2) < 64
    <2>1. i + 2 < Len(s)
      BY <1>6, <1>2
    <2> QED
      BY <1>3, <2>1
  <1>7. ASSUME n > 3, i + n - 1 <= Len(s) - 1
        PROVE  pay(3) \in Nat /\ pay(3) < 64
    <2>1. i + 3 < Len(s)
      BY <1>7, <1>2
    <2> QED
      BY <1>3, <2>1
  <1>8. decode(s, i, Len(s) - 1) =
            IF isSingleByte(b) THEN b
            ELSE IF i + n - 1 > Len(s) - 1 THEN 0
            ELSE IF n = 1 THEN b
            ELSE IF n = 2 THEN (b % 32) * 64 + pay(1)
            ELSE IF n = 3 THEN (b % 16) * 4096 + pay(1) * 64 + pay(2)
            ELSE (b % 8) * 262144 + pay(1) * 4096 + pay(2) * 64 + pay(3)
    BY DEF decode
  <1> HIDE DEF b, n, pay
  <1> DEFINE d == decode(s, i, Len(s) - 1)
  <1>9. CASE isSingleByte(b) \/ i + n - 1 > Len(s) - 1 \/ n = 1
    BY <1>1, <1>8, <1>9, SMT DEF Numbers, FourByteLast
  <1> DEFINE long == ~isSingleByte(b) /\ ~(i + n - 1 > Len(s) - 1)
  <1>10. long => i + n - 1 <= Len(s) - 1
    BY <1>2
  <1>11. CASE long /\ n = 2
    <2>1. d = (b % 32) * 64 + pay(1)
      BY <1>8, <1>11
    <2>2. pay(1) \in Nat /\ pay(1) < 64
      BY <1>5, <1>10, <1>11
    <2>3. d \in Nat /\ d <= 2097151
      BY <1>4, <2>1, <2>2, SMT
    <2> QED
      BY <2>3, SMT DEF Numbers, FourByteLast
  <1>12. CASE long /\ n = 3
    <2>1. d = (b % 16) * 4096 + pay(1) * 64 + pay(2)
      BY <1>8, <1>12
    <2>2. pay(1) \in Nat /\ pay(1) < 64
      BY <1>5, <1>10, <1>12
    <2>3. pay(2) \in Nat /\ pay(2) < 64
      BY <1>6, <1>10, <1>12
    <2>4. d \in Nat /\ d <= 2097151
      BY <1>4, <2>1, <2>2, <2>3, SMTT(30)
    <2> QED
      BY <2>4, SMT DEF Numbers, FourByteLast
  <1>13. CASE long /\ n = 4
    <2>1. d = (b % 8) * 262144 + pay(1) * 4096 + pay(2) * 64 + pay(3)
      BY <1>8, <1>13
    <2>2. pay(1) \in Nat /\ pay(1) < 64
      BY <1>5, <1>10, <1>13
    <2>3. pay(2) \in Nat /\ pay(2) < 64
      BY <1>6, <1>10, <1>13
    <2>4. pay(3) \in Nat /\ pay(3) < 64
      BY <1>7, <1>10, <1>13
    <2> DEFINE first == b % 8
               x == pay(1)
               y == pay(2)
               z == pay(3)
    <2>5. /\ first \in Nat /\ first <= 7 /\ x \in Nat /\ x <= 63
          /\ y \in Nat /\ y <= 63 /\ z \in Nat /\ z <= 63
          /\ d = first * 262144 + x * 4096 + y * 64 + z
      <3>1. first \in Nat /\ first <= 7
        BY <1>4
      <3>2. x \in Nat /\ x <= 63
        BY <2>2
      <3>3. y \in Nat /\ y <= 63
        BY <2>3
      <3>4. z \in Nat /\ z <= 63
        BY <2>4
      <3>5. d = first * 262144 + x * 4096 + y * 64 + z
        BY <2>1, SMT
      <3> HIDE DEF first, x, y, z, d
      <3> QED
        BY <3>1, <3>2, <3>3, <3>4, <3>5, SMT
    <2> HIDE DEF first, x, y, z, d
    <2>6. d \in Nat /\ d <= 2097151
      BY <2>5, SMTT(30)
    <2> QED
      BY <2>6, SMT DEF d, Numbers, FourByteLast
  <1>14. n \in {1, 2, 3, 4}
    BY <1>2
  <1> QED
    BY <1>9, <1>11, <1>12, <1>13, <1>14
LEMMA CodesFit ==
    ASSUME NEW char \in BOOLEAN, NEW c \in Nat, c \in namedCodes(char) \/ c \in CodePoints \/ isLegalCChar(c)
    PROVE  c \in Numbers
  <1>1. isLegalCChar(c) => c <= 127
    BY SMT DEF isLegalCChar, isprint, Newline
  <1>2. c \in namedCodes(char) => c <= 127
    BY SMT DEF namedCodes
  <1>3. c \in CodePoints => c <= LastCodePoint
    <2>1. LastCodePoint \in Int
      BY SMT DEF LastCodePoint
    <2> QED
      BY <2>1, SMT DEF CodePoints
  <1> QED
    BY <1>1, <1>2, <1>3, SMT DEF Numbers, FourByteLast, LastCodePoint

LEMMA TextUnits ==
    ASSUME NEW t, isText(t)
    PROVE  /\ t \in Seq(Range(t)) /\ Len(t) \in Nat /\ DOMAIN t = 1 .. Len(t)
           /\ \A i \in 1 .. Len(t) : isUnit(t[i])
           /\ rawBytes(t) \in Seq(Bytes) /\ Len(rawBytes(t)) = Len(t)
           /\ \A i \in 1 .. Len(t) : rawBytes(t)[i] = IF isRaw(t[i]) THEN t[i].byte ELSE Percent
  <1>1. t \in Seq(Range(t)) /\ Len(t) \in Nat /\ DOMAIN t = 1 .. Len(t)
    <2>1. t \in Seq(Range(t))
      BY DEF isText
    <2> QED
      BY <2>1, LenProperties
  <1>2. \A i \in 1 .. Len(t) : isUnit(t[i])
    BY <1>1 DEF isText, Range
  <1>3. ASSUME NEW i \in 1 .. Len(t)
        PROVE  (IF isRaw(t[i]) THEN t[i].byte ELSE Percent) \in Bytes
    <2>1. isUnit(t[i])
      BY <1>2
    <2>2. Percent \in Bytes
      BY DEF Percent, Bytes
    <2> QED
      BY <2>1, <2>2 DEF isUnit, isRaw
  <1>4. rawBytes(t) = [i \in 1 .. Len(t) |-> IF isRaw(t[i]) THEN t[i].byte ELSE Percent]
    BY <1>1 DEF rawBytes
  <1>5. rawBytes(t) \in [1 .. Len(t) -> Bytes]
    BY <1>3, <1>4
  <1>6. rawBytes(t) \in Seq(Bytes) /\ Len(rawBytes(t)) = Len(t)
    BY <1>1, <1>5
  <1> QED
    BY <1>1, <1>2, <1>4, <1>6

LEMMA UnitsMakeAText ==
    ASSUME NEW S, NEW t \in Seq(S), \A i \in 1 .. Len(t) : isUnit(t[i])
    PROVE  isText(t)
  <1>1. Len(t) \in Nat /\ DOMAIN t = 1 .. Len(t) /\ t = [i \in 1 .. Len(t) |-> t[i]]
    OBVIOUS
  <1>2. \A i \in 1 .. Len(t) : t[i] \in Range(t)
    BY <1>1 DEF Range
  <1>3. [i \in 1 .. Len(t) |-> t[i]] \in [1 .. Len(t) -> Range(t)]
    BY <1>2
  <1>4. t \in Seq(Range(t))
    BY <1>1, <1>3
  <1> QED
    BY <1>1, <1>4 DEF isText, Range

LEMMA RestOfText ==
    ASSUME NEW t, isText(t), NEW char \in BOOLEAN
    PROVE  /\ isText(upToQuote(t, char))
           /\ \E n \in 0 .. Len(t) :
                 /\ upToQuote(t, char) = SubSeq(t, 1, n) /\ Len(upToQuote(t, char)) = n
                 /\ \A i \in 1 .. n : upToQuote(t, char)[i] = t[i] /\ t[i] # Raw(quoteOf(char))
                 /\ n = Len(t) \/ t[n + 1] = Raw(quoteOf(char))
  <1> DEFINE ends == {n \in 0 .. Len(t) : n = Len(t) \/ t[n + 1] = Raw(quoteOf(char))}
             m == Min(ends)
  <1>1. t \in Seq(Range(t)) /\ Len(t) \in Nat /\ \A i \in 1 .. Len(t) : isUnit(t[i])
    BY TextUnits
  <1>2. ends \in SUBSET Nat /\ Len(t) \in ends
    BY <1>1
  <1>3. m \in ends /\ \A k \in ends : m <= k
    <2> HIDE DEF ends
    <2> QED
      BY <1>2, MinIsLeast
  <1>4. upToQuote(t, char) = SubSeq(t, 1, m)
    BY DEF upToQuote
  <1>5. m \in 0 .. Len(t) /\ (m = Len(t) \/ t[m + 1] = Raw(quoteOf(char)))
    BY <1>3
  <1>6. ASSUME NEW i \in 1 .. m
        PROVE  t[i] # Raw(quoteOf(char))
    <2>1. i - 1 \in 0 .. Len(t) /\ i - 1 < m /\ (i - 1) + 1 = i
      BY <1>1, <1>5
    <2>2. i - 1 \notin ends
      <3> HIDE DEF ends
      <3> QED
        BY <1>3, <1>5, <2>1
    <2> QED
      BY <2>1, <2>2
  <1> HIDE DEF m
  <1> DEFINE u == SubSeq(t, 1, m)
  <1>7. u \in Seq(Range(t)) /\ Len(u) = m /\ \A i \in 1 .. m : u[i] = t[i]
    BY <1>1, <1>5
  <1> HIDE DEF u
  <1>8. isText(u)
    <2>1. \A i \in 1 .. Len(u) : isUnit(u[i])
      BY <1>1, <1>5, <1>7
    <2> QED
      BY <1>7, <2>1, UnitsMakeAText
  <1>9. \A i \in 1 .. m : u[i] = t[i] /\ t[i] # Raw(quoteOf(char))
    BY <1>6, <1>7
  <1>10. upToQuote(t, char) = u /\ u = SubSeq(t, 1, m)
    BY <1>4 DEF u
  <1> QED
    BY <1>5, <1>7, <1>8, <1>9, <1>10

-----------------------------------------------------------------------------
(* What the units of a text stand for. *)

\* A number in an escape gives the bytes extractRegexCharToBytes has for it.
LEMMA BytesOfHex ==
    ASSUME NEW u, u.u = "hex", u.val \in Nat, NEW char \in BOOLEAN, NEW err,
           decodeHexEscape(u, char, err) # Null
    PROVE  stringBytes(u, char, err) = extractRegexCharToBytes(u.val)
  <1>1. decodeHexEscape(u, char, err) = <<u.val>> /\ (char => isLegalCChar(u.val))
    BY HexIsOfACode
  <1>2. stringBytes(u, char, err) = hexEscapeBytes(u.val, char)
    BY <1>1 DEF stringBytes
  <1>3. char => u.val <= 127
    BY <1>1, SMT DEF isLegalCChar, isprint, Newline
  <1> QED
    BY <1>2, <1>3, SMT DEF hexEscapeBytes, extractRegexCharToBytes

LEMMA BytesOfUnit ==
    ASSUME NEW u, isUnit(u), NEW char \in BOOLEAN, NEW err, ~badEscape(u, char, err)
    PROVE  stringBytes(u, char, err) \in Seq(Bytes)
  <1>1. CASE u.u = "raw"
    BY <1>1 DEF isUnit, stringBytes
  <1>2. CASE u.u = "hex"
    <2>1. decodeHexEscape(u, char, err) # Null /\ u.val \in Nat
      BY <1>2 DEF badEscape, isUnit
    <2>2. decodeHexEscape(u, char, err) = <<u.val>> /\ (u.val \in CodePoints \/ isLegalCChar(u.val))
      BY <2>1, HexIsOfACode
    <2>3. u.val \in Numbers
      BY <2>1, <2>2, CodesFit
    <2>4. stringBytes(u, char, err) = extractRegexCharToBytes(u.val)
      BY <1>2, <2>1, BytesOfHex
    <2> QED
      BY <2>3, <2>4, CodeBytes
  <1>3. CASE u.u = "name"
    <2>1. fromName(u.name, char) # Null
      BY <1>3 DEF badEscape
    <2>2. PICK c \in namedCodes(char) : fromName(u.name, char) = <<c>>
      BY <2>1, NameIsOfACode
    <2>3. c \in Bytes
      BY DEF namedCodes, Bytes
    <2>4. stringBytes(u, char, err) = <<c>>
      BY <1>3, <2>2 DEF stringBytes
    <2> QED
      BY <2>3, <2>4
  <1> QED
    BY <1>1, <1>2, <1>3 DEF isUnit

LEMMA CodesOfUnit ==
    ASSUME NEW t, isText(t), NEW i \in 1 .. Len(t), NEW char \in BOOLEAN, NEW err,
           unitCodes(t, i, char, err) # Null
    PROVE  unitCodes(t, i, char, err) \in Seq(Numbers)
  <1> DEFINE u == t[i]
             codes == unitCodes(t, i, char, err)
  <1>0. isUnit(u)
    BY TextUnits
  <1> HIDE DEF u
  <1>1. CASE u.u = "raw"
    <2> DEFINE s == rawBytes(t)
               d == decode(s, i - 1, Len(t) - 1)
    <2>1. s \in Seq(Bytes) /\ Len(s) = Len(t) /\ i - 1 \in Nat /\ i - 1 < Len(s)
      BY TextUnits
    <2>2. decode(s, i - 1, Len(s) - 1) \in Numbers
      <3> HIDE DEF s
      <3> QED
        BY <2>1, DecodedFits
    <2>3. d \in Numbers
      BY <2>1, <2>2
    <2>4. codes = IF isOpen(u) THEN Null ELSE IF isContinuationByte(u.byte) THEN <<>> ELSE <<d>>
      BY <1>1 DEF unitCodes, u
    <2> HIDE DEF d, codes
    <2>5. codes \in {<<>>, <<d>>}
      BY <2>4 DEF codes
    <2>6. <<d>> \in Seq(Numbers) /\ <<>> \in Seq(Numbers)
      BY <2>3
    <2>7. codes \in Seq(Numbers)
      BY <2>5, <2>6
    <2> QED
      BY <2>7 DEF codes
  <1>2. CASE u.u = "hex"
    <2>1. codes = (IF u.clean THEN decodeHexEscape(u, char, err) ELSE Null) /\ u.val \in Nat
      BY <1>0, <1>2 DEF unitCodes, decodeHexEscapeAsRegex, isUnit, u
    <2>2. decodeHexEscape(u, char, err) # Null /\ codes = decodeHexEscape(u, char, err)
      BY <2>1
    <2>3. codes = <<u.val>> /\ (u.val \in CodePoints \/ isLegalCChar(u.val))
      BY <2>2, HexIsOfACode
    <2>4. u.val \in Numbers
      BY <2>1, <2>3, CodesFit
    <2> QED
      BY <2>3, <2>4
  <1>3. CASE u.u = "name"
    <2>1. codes = fromName(u.name, char)
      BY <1>3 DEF unitCodes, u
    <2>2. PICK c \in namedCodes(char) : codes = <<c>>
      BY <2>1, NameIsOfACode
    <2>3. c \in Nat
      BY DEF namedCodes
    <2>4. c \in Numbers
      BY <2>3, CodesFit
    <2> QED
      BY <2>2, <2>4
  <1> QED
    BY <1>0, <1>1, <1>2, <1>3 DEF isUnit

\* A unit that stands for nothing is an escape the checks report.
LEMMA RefusedUnitIsBad ==
    ASSUME NEW t, isText(t), NEW i \in 1 .. Len(t), NEW char \in BOOLEAN, NEW err
    PROVE  unitCodes(t, i, char, err) = Null <=> badEscape(t[i], char, err)
  <1> DEFINE u == t[i]
             codes == unitCodes(t, i, char, err)
  <1>0. isUnit(u)
    BY TextUnits
  <1> HIDE DEF u
  <1>1. CASE u.u = "raw"
    <2> DEFINE d == decode(rawBytes(t), i - 1, Len(t) - 1)
    <2>1. rawBytes(t) \in Seq(Bytes) /\ Len(rawBytes(t)) = Len(t) /\ i - 1 \in Nat /\ i - 1 < Len(rawBytes(t))
      BY TextUnits
    <2>2. decode(rawBytes(t), i - 1, Len(rawBytes(t)) - 1) \in Numbers
      BY <2>1, DecodedFits
    <2>3. d \in Nat
      BY <2>1, <2>2 DEF Numbers
    <2>4. codes = IF isOpen(u) THEN Null ELSE IF isContinuationByte(u.byte) THEN <<>> ELSE <<d>>
      BY <1>1 DEF unitCodes, u
    <2> HIDE DEF d
    <2>5. <<d>> # Null /\ <<>> # Null
      BY <2>3 DEF Null
    <2>6. codes = Null <=> isOpen(u)
      BY <2>4, <2>5
    <2>7. badEscape(u, char, err) <=> isOpen(u)
      BY <1>1 DEF badEscape
    <2> QED
      BY <2>6, <2>7 DEF u
  <1>2. CASE u.u = "hex"
    <2>1. codes = (IF u.clean THEN decodeHexEscape(u, char, err) ELSE Null) /\ u.clean \in BOOLEAN
      BY <1>0, <1>2 DEF unitCodes, decodeHexEscapeAsRegex, isUnit, u
    <2>2. badEscape(u, char, err) <=> ~u.clean \/ decodeHexEscape(u, char, err) = Null
      BY <1>2 DEF badEscape
    <2> QED
      BY <2>1, <2>2 DEF u
  <1>3. CASE u.u = "name"
    BY <1>3 DEF unitCodes, badEscape, u
  <1> QED
    BY <1>0, <1>1, <1>2, <1>3 DEF isUnit
-----------------------------------------------------------------------------
(* What is read, piece by piece. *)

isLegal(c, char) == IF char THEN isLegalCChar(c) ELSE c > 127 \/ isprint(c) \/ isspace(c)
isReadable(t, char, multiline, err) ==
    /\ validBytes(rawBytes(t), char)
    /\ ~badEscapes(t, char, err)
    /\ \A i \in keptUnits(t, multiline) : isRaw(t[i]) => isLegal(t[i].byte, char)
stringPieces(t, char, multiline, err) ==
    [i \in DOMAIN t |-> IF i \in keptUnits(t, multiline) THEN stringBytes(t[i], char, err) ELSE <<>>]
literalPieces(t, char, err) == [i \in DOMAIN t |-> unitCodes(t, i, char, err)]

LEMMA StringIsRead ==
    ASSUME NEW t, isText(t), NEW char \in BOOLEAN, NEW multiline \in BOOLEAN, NEW err
    PROVE  LET p == stringPieces(t, char, multiline, err)
               s == unescapeString(t, char, multiline, err)
           IN  /\ isReadable(t, char, multiline, err) =>
                     p \in Seq(Seq(Bytes)) /\ Len(p) = Len(t) /\ s = FlattenSeq(p) /\ s \in Seq(Bytes)
               /\ ~isReadable(t, char, multiline, err) => s = Null
  <1> DEFINE p == stringPieces(t, char, multiline, err)
             s == unescapeString(t, char, multiline, err)
             readable == isReadable(t, char, multiline, err)
  <1>1. Len(t) \in Nat /\ DOMAIN t = 1 .. Len(t) /\ \A i \in 1 .. Len(t) : isUnit(t[i])
    BY TextUnits
  <1>2. s = IF readable THEN FlattenSeq(p) ELSE Null
    <2>1. CASE readable
      BY <2>1 DEF isReadable, stringPieces, unescapeString, isLegal
    <2>2. CASE ~readable
      BY <2>2 DEF isReadable, stringPieces, unescapeString, isLegal
    <2> QED
      BY <2>1, <2>2
  <1>3. ASSUME readable
        PROVE  p \in Seq(Seq(Bytes)) /\ Len(p) = Len(t) /\ FlattenSeq(p) \in Seq(Bytes)
    <2>1. ASSUME NEW i \in 1 .. Len(t)
          PROVE  (IF i \in keptUnits(t, multiline) THEN stringBytes(t[i], char, err) ELSE <<>>) \in Seq(Bytes)
      <3>1. ~badEscape(t[i], char, err)
        BY <1>1, <1>3 DEF isReadable, badEscapes
      <3>2. stringBytes(t[i], char, err) \in Seq(Bytes)
        BY <1>1, <3>1, BytesOfUnit
      <3> QED
        BY <3>2
    <2>2. p = [i \in 1 .. Len(t) |-> IF i \in keptUnits(t, multiline) THEN stringBytes(t[i], char, err) ELSE <<>>]
      BY <1>1 DEF stringPieces
    <2>3. p \in [1 .. Len(t) -> Seq(Bytes)]
      BY <2>1, <2>2
    <2>4. p \in Seq(Seq(Bytes)) /\ Len(p) = Len(t)
      BY <1>1, <2>3
    <2> HIDE DEF p
    <2>5. Len(p) \in 0 .. Len(p)
      BY <1>1, <2>4
    <2>6. FlattenSeq(p) \in Seq(Bytes)
      BY <2>4, <2>5, Gathering
    <2> QED
      BY <2>4, <2>6
  <1> HIDE DEF p, s, readable
  <1>4. /\ readable => p \in Seq(Seq(Bytes)) /\ Len(p) = Len(t) /\ s = FlattenSeq(p) /\ s \in Seq(Bytes)
        /\ ~readable => s = Null
    BY <1>2, <1>3
  <1> QED
    BY <1>4 DEF p, s, readable

LEMMA BytesAreRead ==
    ASSUME NEW s \in Seq(Nat)
    PROVE  s # Null
  <1>1. -1 \notin Nat /\ Len(Null) = 1 /\ Null[1] = -1
    BY DEF Null
  <1>2. ASSUME s = Null
        PROVE  FALSE
    <2>1. 1 \in 1 .. Len(s)
      BY <1>1, <1>2
    <2>2. s[1] \in Nat
      BY <2>1, ElementOfSeq
    <2> QED
      BY <1>1, <1>2, <2>2
  <1> QED
    BY <1>2

LEMMA ReadIsNotNull ==
    /\ \A s \in Seq(Bytes) : s # Null
    /\ \A s \in Seq(Numbers) : s # Null
  <1>1. Bytes \subseteq Nat /\ Numbers \subseteq Nat
    BY DEF Bytes, Numbers
  <1>2. ASSUME NEW s \in Seq(Bytes)
        PROVE  s # Null
    <2>1. s \in Seq(Nat)
      BY <1>1, SeqMonotonic
    <2> QED
      BY <2>1, BytesAreRead
  <1>3. ASSUME NEW s \in Seq(Numbers)
        PROVE  s # Null
    <2>1. s \in Seq(Nat)
      BY <1>1, SeqMonotonic
    <2> QED
      BY <2>1, BytesAreRead
  <1> QED
    BY <1>2, <1>3

LEMMA LiteralIsRead ==
    ASSUME NEW t, isText(t), NEW char \in BOOLEAN, NEW err
    PROVE  LET p == literalPieces(t, char, err)
               codes == unescapeLiteral(t, char, err)
           IN  /\ ~badEscapes(t, char, err) =>
                     /\ p \in Seq(Seq(Numbers)) /\ Len(p) = Len(t)
                     /\ codes = FlattenSeq(p) /\ codes \in Seq(Numbers) /\ codes # Null
               /\ badEscapes(t, char, err) => codes = Null
  <1> DEFINE p == literalPieces(t, char, err)
             codes == unescapeLiteral(t, char, err)
             bad == badEscapes(t, char, err)
  <1>1. Len(t) \in Nat /\ DOMAIN t = 1 .. Len(t) /\ \A i \in 1 .. Len(t) : isUnit(t[i])
    BY TextUnits
  <1>2. bad <=> \E i \in DOMAIN t : p[i] = Null
    BY <1>1, RefusedUnitIsBad DEF badEscapes, literalPieces
  <1>3. codes = IF bad THEN Null ELSE FlattenSeq(p)
    BY <1>2 DEF unescapeLiteral, literalPieces
  <1>4. ASSUME ~bad
        PROVE  p \in Seq(Seq(Numbers)) /\ Len(p) = Len(t) /\ FlattenSeq(p) \in Seq(Numbers)
    <2>1. ASSUME NEW i \in 1 .. Len(t)
          PROVE  unitCodes(t, i, char, err) \in Seq(Numbers)
      <3>1. unitCodes(t, i, char, err) # Null
        BY <1>1, <1>2, <1>4 DEF literalPieces
      <3> QED
        BY <3>1, CodesOfUnit
    <2>2. p = [i \in 1 .. Len(t) |-> unitCodes(t, i, char, err)]
      BY <1>1 DEF literalPieces
    <2>3. p \in [1 .. Len(t) -> Seq(Numbers)]
      BY <2>1, <2>2
    <2>4. p \in Seq(Seq(Numbers)) /\ Len(p) = Len(t)
      BY <1>1, <2>3
    <2> HIDE DEF p
    <2>5. Len(p) \in 0 .. Len(p)
      BY <1>1, <2>4
    <2>6. FlattenSeq(p) \in Seq(Numbers)
      BY <2>4, <2>5, Gathering
    <2> QED
      BY <2>4, <2>6
  <1> HIDE DEF p, codes, bad
  <1>5. /\ ~bad => /\ p \in Seq(Seq(Numbers)) /\ Len(p) = Len(t)
                   /\ codes = FlattenSeq(p) /\ codes \in Seq(Numbers) /\ codes # Null
        /\ bad => codes = Null
    BY <1>3, <1>4, ReadIsNotNull
  <1> QED
    BY <1>5 DEF p, codes, bad

-----------------------------------------------------------------------------
(* What is written is a text. *)

LEMMA StringsAreTexts ==
    ASSUME NEW s \in Seq(Bytes), NEW char \in BOOLEAN
    PROVE  isText(escapeString(s, char)) /\ Len(escapeString(s, char)) = Len(s)
  <1> DEFINE unit(i) == IF s[i] \in {Percent, quoteOf(char)} \/ (s[i] <= 127 /\ ~isprint(s[i]))
                        THEN fromCode(s[i], char) ELSE Raw(s[i])
             t == escapeString(s, char)
             S == {unit(i) : i \in 1 .. Len(s)}
  <1>1. t = [i \in 1 .. Len(s) |-> unit(i)] /\ Len(s) \in Nat
    BY DEF escapeString
  <1>2. ASSUME NEW i \in 1 .. Len(s)
        PROVE  isUnit(unit(i))
    <2>1. isUnit(Raw(s[i]))
      BY DEF isUnit, Raw
    <2>2. isUnit(fromCode(s[i], char))
      BY DEF isUnit, fromCode, Name
    <2> QED
      BY <2>1, <2>2
  <1> HIDE DEF unit, t
  <1>3. t \in Seq(S) /\ Len(t) = Len(s) /\ \A i \in 1 .. Len(s) : t[i] = unit(i)
    <2>1. \A i \in 1 .. Len(s) : unit(i) \in S
      OBVIOUS
    <2> HIDE DEF S
    <2> QED
      BY <1>1, <2>1
  <1>4. isText(t)
    BY <1>2, <1>3, UnitsMakeAText
  <1> QED
    BY <1>3, <1>4 DEF t

\* The units written for one code of an expression.
codeUnits(c, char, inRange) ==
    IF c \in {Percent, quoteOf(char), Slash, Backslash} \cup (IF inRange THEN Brackets ELSE {})
       \/ (c <= 127 /\ ~isprint(c))
    THEN <<fromCode(c, char)>>
    ELSE [k \in DOMAIN extractRegexCharToBytes(c) |-> Raw(extractRegexCharToBytes(c)[k])]
codePieces(codes, char, inRange) == [i \in DOMAIN codes |-> codeUnits(codes[i], char, inRange)]
unitsFor(char) == {Raw(b) : b \in Bytes} \cup {fromCode(c, char) : c \in Nat}

LEMMA CodeUnits ==
    ASSUME NEW c \in Numbers, NEW char \in BOOLEAN, NEW inRange \in BOOLEAN
    PROVE  codeUnits(c, char, inRange) \in Seq(unitsFor(char))
  <1> DEFINE b == extractRegexCharToBytes(c)
  <1>1. b \in Seq(Bytes)
    BY CodeBytes
  <1>2. c \in Nat
    BY DEF Numbers
  <1>3. <<fromCode(c, char)>> \in Seq(unitsFor(char))
    <2>1. fromCode(c, char) \in unitsFor(char)
      BY <1>2 DEF unitsFor
    <2> QED
      BY <2>1
  <1>4. [k \in DOMAIN b |-> Raw(b[k])] \in Seq(unitsFor(char))
    <2> HIDE DEF b
    <2>1. DOMAIN b = 1 .. Len(b) /\ Len(b) \in Nat /\ \A k \in 1 .. Len(b) : Raw(b[k]) \in unitsFor(char)
      BY <1>1 DEF unitsFor
    <2>2. [k \in 1 .. Len(b) |-> Raw(b[k])] \in [1 .. Len(b) -> unitsFor(char)]
      BY <2>1
    <2> QED
      BY <2>1, <2>2
  <1> QED
    BY <1>3, <1>4 DEF codeUnits

LEMMA CodesAreTexts ==
    ASSUME NEW codes \in Seq(Numbers), NEW char \in BOOLEAN, NEW inRange \in BOOLEAN
    PROVE  LET p == codePieces(codes, char, inRange)
           IN  /\ p \in Seq(Seq(unitsFor(char))) /\ Len(p) = Len(codes)
               /\ escapeCodes(codes, char, inRange) = FlattenSeq(p)
               /\ isText(escapeCodes(codes, char, inRange))
  <1> DEFINE p == codePieces(codes, char, inRange)
             t == escapeCodes(codes, char, inRange)
  <1>1. p = [i \in 1 .. Len(codes) |-> codeUnits(codes[i], char, inRange)] /\ Len(codes) \in Nat
    BY DEF codePieces
  <1>2. p \in [1 .. Len(codes) -> Seq(unitsFor(char))]
    BY <1>1, CodeUnits
  <1>3. p \in Seq(Seq(unitsFor(char))) /\ Len(p) = Len(codes)
    BY <1>1, <1>2
  <1>4. t = FlattenSeq(p)
    BY DEF escapeCodes, codePieces, codeUnits
  <1> HIDE DEF p, t
  <1>5. t \in Seq(unitsFor(char))
    <2>1. Len(p) \in 0 .. Len(p)
      BY <1>1, <1>3
    <2> QED
      BY <1>3, <1>4, <2>1, Gathering
  <1>6. ASSUME NEW u \in unitsFor(char)
        PROVE  isUnit(u)
    <2>1. \A b \in Bytes : isUnit(Raw(b))
      BY DEF isUnit, Raw
    <2>2. \A c \in Nat : isUnit(fromCode(c, char))
      BY DEF isUnit, fromCode, Name
    <2> QED
      BY <2>1, <2>2 DEF unitsFor
  <1>7. isText(t)
    BY <1>5, <1>6, UnitsMakeAText
  <1> QED
    BY <1>3, <1>4, <1>7 DEF p, t

LEMMA HexDigits ==
    ASSUME NEW c \in Numbers
    PROVE  hexDigits(c) \in 1 .. 6
  <1> DEFINE pow == <<16, 256, 4096, 65536, 1048576, 16777216>>
             ns == {n \in 1 .. 6 : c < pow[n]}
  <1>1. hexDigits(c) = Min(ns)
    BY DEF hexDigits
  <1>2. 6 \in ns
    <2>1. pow[6] = 16777216
      BY SMT
    <2>2. c < 16777216
      BY SMT DEF Numbers, FourByteLast
    <2> HIDE DEF pow
    <2> QED
      BY <2>1, <2>2, SMT
  <1> HIDE DEF pow
  <1>3. ns \in SUBSET Nat /\ ns # {}
    BY <1>2
  <1>4. Min(ns) \in ns
    <2> HIDE DEF ns
    <2> QED
      BY <1>3, MinIsLeast
  <1> QED
    BY <1>1, <1>4

LEMMA StandardIsAText ==
    ASSUME NEW codes \in Seq(Numbers)
    PROVE  isText(standardCodes(codes)) /\ Len(standardCodes(codes)) = Len(codes)
  <1> DEFINE unit(i) == IF isprint(codes[i]) /\ codes[i] \notin {Percent, 34, 39, Slash, Backslash} \cup Brackets
                        THEN Raw(codes[i]) ELSE Hex(codes[i], hexDigits(codes[i]), TRUE)
             t == standardCodes(codes)
             S == {unit(i) : i \in 1 .. Len(codes)}
  <1>1. t = [i \in 1 .. Len(codes) |-> unit(i)] /\ Len(codes) \in Nat
    BY DEF standardCodes
  <1>2. ASSUME NEW i \in 1 .. Len(codes)
        PROVE  isUnit(unit(i))
    <2>1. isprint(codes[i]) => isUnit(Raw(codes[i]))
      BY DEF isUnit, Raw, isprint, Bytes
    <2>2. isUnit(Hex(codes[i], hexDigits(codes[i]), TRUE))
      <3>1. codes[i] \in Nat /\ hexDigits(codes[i]) \in Nat
        BY HexDigits DEF Numbers
      <3> QED
        BY <3>1 DEF isUnit, Hex
    <2> QED
      BY <2>1, <2>2
  <1> HIDE DEF unit, t
  <1>3. t \in Seq(S) /\ Len(t) = Len(codes) /\ \A i \in 1 .. Len(codes) : t[i] = unit(i)
    <2>1. \A i \in 1 .. Len(codes) : unit(i) \in S
      OBVIOUS
    <2> HIDE DEF S
    <2> QED
      BY <1>1, <2>1
  <1>4. isText(t)
    BY <1>2, <1>3, UnitsMakeAText
  <1> QED
    BY <1>3, <1>4 DEF t
-----------------------------------------------------------------------------
(* The invariant: what was read last is what the text reads as now. *)

LastRead ==
    \/ got = NothingRead
    \/ /\ got.op \in Ops /\ got = read(got.op, text, errno)
       /\ got.op = "range" => text # <<>>

TextsInv ==
    /\ ischar \in BOOLEAN
    /\ isText(text)
    /\ LastRead

LEMMA FirstUnit ==
    ASSUME NEW t, isText(t), t # <<>>
    PROVE  1 \in 1 .. Len(t)
  <1>1. t \in Seq(Range(t)) /\ Len(t) \in Nat
    BY TextUnits
  <1>2. Len(t) # 0
    BY <1>1, EmptySeq
  <1> QED
    BY <1>1, <1>2

LEMMA RangeIsRead ==
    ASSUME NEW t, isText(t), t # <<>>, NEW char \in BOOLEAN, NEW err
    PROVE  LET r == readRangeChar(t, char, err)
           IN  /\ r.value # Null => r.value \in Seq(Numbers) /\ r.value = unitCodes(t, 1, char, err)
               /\ r.value = Null => r.reported
  <1> DEFINE r == readRangeChar(t, char, err)
             codes == unitCodes(t, 1, char, err)
             bad == badEscape(t[1], char, err)
  <1>1. 1 \in 1 .. Len(t)
    BY FirstUnit
  <1>2. \/ r = [value |-> Null, reported |-> TRUE]
        \/ r = [value |-> codes, reported |-> codes = Null /\ bad]
    BY DEF readRangeChar
  <1>3. codes = Null => bad
    BY <1>1, RefusedUnitIsBad
  <1>4. codes # Null => codes \in Seq(Numbers)
    BY <1>1, CodesOfUnit
  <1> HIDE DEF r, codes, bad
  <1>5. /\ r.value # Null => r.value \in Seq(Numbers) /\ r.value = codes
        /\ r.value = Null => r.reported
    <2>1. CASE r = [value |-> Null, reported |-> TRUE]
      BY <2>1
    <2>2. CASE r = [value |-> codes, reported |-> codes = Null /\ bad]
      <3>1. r.value = codes /\ (codes = Null => r.reported)
        BY <1>3, <2>2
      <3> QED
        BY <1>4, <3>1
    <2> QED
      BY <1>2, <2>1, <2>2
  <1> QED
    BY <1>5 DEF r, codes

LEMMA LiteralValue ==
    ASSUME NEW text_, isText(text_), NEW char \in BOOLEAN, NEW err
    PROVE  LET r == readLiteral(text_, char, err)
               t == upToQuote(text_, char)
           IN  /\ r.value # Null <=>
                     /\ \A i \in DOMAIN t : isRaw(t[i]) => allowedRaw(t[i].byte)
                     /\ validBytes(rawBytes(t), char) /\ ~badEscapes(t, char, err)
               /\ r.value # Null => r.value \in Seq(Numbers) /\ r.value = FlattenSeq(literalPieces(t, char, err))
               /\ r.value = Null => r.reported
  <1> DEFINE r == readLiteral(text_, char, err)
             t == upToQuote(text_, char)
             codes == unescapeLiteral(t, char, err)
             bad == badEscapes(t, char, err)
             checked == /\ \A i \in DOMAIN t : isRaw(t[i]) => allowedRaw(t[i].byte)
                        /\ validBytes(rawBytes(t), char)
             p == literalPieces(t, char, err)
  <1>1. isText(t)
    BY RestOfText
  <1>2. r = IF checked THEN [value |-> codes, reported |-> codes = Null /\ bad]
            ELSE [value |-> Null, reported |-> TRUE]
    <2>1. CASE checked
      BY <2>1 DEF readLiteral
    <2>2. CASE ~checked
      BY <2>2 DEF readLiteral
    <2> QED
      BY <2>1, <2>2
  <1> HIDE DEF t
  <1>3. /\ ~bad => codes = FlattenSeq(p) /\ codes \in Seq(Numbers) /\ codes # Null
        /\ bad => codes = Null
    BY <1>1, LiteralIsRead
  <1> HIDE DEF r, codes, bad, checked, p
  <1>4. /\ r.value # Null <=> checked /\ ~bad
        /\ r.value # Null => r.value \in Seq(Numbers) /\ r.value = FlattenSeq(p)
        /\ r.value = Null => r.reported
    BY <1>2, <1>3
  <1> QED
    BY <1>4 DEF r, t, codes, bad, checked, p

LEMMA ReadValues ==
    ASSUME TextsInv, got # NothingRead
    PROVE  /\ got.op \in {"string", "aligned"} => got.value = unescapeString(text, ischar, got.op = "aligned", errno)
           /\ got.op \in {"string", "aligned"} /\ got.value # Null => got.value \in Seq(Bytes)
           /\ got.op = "literal" => got.value = readLiteral(text, ischar, errno).value
           /\ got.op = "range" => text # <<>> /\ got.value = readRangeChar(text, ischar, errno).value
           /\ got.op \in {"literal", "range"} /\ got.value # Null => got.value \in Seq(Numbers)
           /\ got.op \in Ops
           /\ got.value = Null => got.reported
  <1>1. got.op \in Ops /\ got = read(got.op, text, errno) /\ (got.op = "range" => text # <<>>)
    BY DEF TextsInv, LastRead
  <1>2. ischar \in BOOLEAN /\ isText(text)
    BY DEF TextsInv
  <1>3. CASE got.op \in {"string", "aligned"}
    <2> DEFINE multiline == got.op = "aligned"
               s == unescapeString(text, ischar, multiline, errno)
    <2>1. got.value = s /\ (s = Null => got.reported)
      <3>1. CASE got.op = "string"
        <4>1. got = [op |-> "string", value |-> s, reported |-> s = Null]
          BY <1>1, <3>1 DEF read
        <4> HIDE DEF s
        <4> QED
          BY <4>1
      <3>2. CASE got.op = "aligned"
        <4>1. got = [op |-> "aligned", value |-> s, reported |-> s = Null]
          BY <1>1, <3>2 DEF read
        <4> HIDE DEF s
        <4> QED
          BY <4>1
      <3> QED
        BY <1>3, <3>1, <3>2
    <2>2. multiline \in BOOLEAN
      OBVIOUS
    <2>3. s # Null => s \in Seq(Bytes)
      BY <1>2, <2>2, StringIsRead
    <2> QED
      BY <1>1, <1>3, <2>1, <2>3
  <1>4. CASE got.op = "literal"
    <2>1. /\ got.value = readLiteral(text, ischar, errno).value
          /\ got.reported = readLiteral(text, ischar, errno).reported
      BY <1>1, <1>4 DEF read
    <2> QED
      BY <1>1, <1>2, <1>4, <2>1, LiteralValue
  <1>5. CASE got.op = "range"
    <2>1. /\ got.value = readRangeChar(text, ischar, errno).value
          /\ got.reported = readRangeChar(text, ischar, errno).reported
      BY <1>1, <1>5 DEF read
    <2> QED
      BY <1>1, <1>2, <1>5, <2>1, RangeIsRead
  <1> QED
    BY <1>1, <1>3, <1>4, <1>5 DEF Ops

LEMMA WriteKeepsTexts ==
    ASSUME TextsInv, NEW written, isText(written), Write(written)
    PROVE  TextsInv'
  <1>1. text' = written /\ got' = NothingRead /\ ischar' = ischar
    BY DEF Write
  <1>2. ischar \in BOOLEAN
    BY DEF TextsInv
  <1>3. isText(text)'
    BY <1>1 DEF isText, isUnit
  <1>4. LastRead'
    BY <1>1 DEF LastRead, NothingRead
  <1> QED
    BY <1>1, <1>2, <1>3, <1>4 DEF TextsInv

LEMMA TextsInvInitially == Init => TextsInv
  <1> SUFFICES ASSUME Init
               PROVE  TextsInv
    OBVIOUS
  <1>1. ischar \in BOOLEAN /\ got = NothingRead
    BY DEF Init
  <1>2. text \in CharTexts \cup UnicodeTexts
    BY DEF Init
  <1>3. isText(text)
    BY <1>2, TextsAssumption
  <1> QED
    BY <1>1, <1>3 DEF TextsInv, LastRead

LEMMA TextsInvKept == TextsInv /\ [Next]_vars => TextsInv'
  <1> SUFFICES ASSUME TextsInv, [Next]_vars
               PROVE  TextsInv'
    OBVIOUS
  <1>1. ischar \in BOOLEAN /\ isText(text)
    BY DEF TextsInv
  <1>2. ASSUME NEW op \in Ops, Read(op)
        PROVE  TextsInv'
    <2>1. text' = text /\ ischar' = ischar /\ errno' = errno
      BY <1>2 DEF Read
    <2>2. got' = read(op, text, errno) /\ (op = "range" => text # <<>>)
      BY <1>2 DEF Read
    <2>3. read(op, text, errno).op = op
      BY DEF read
    <2>4. LastRead'
      <3>1. got'.op = op /\ got'.op \in Ops
        BY <2>2, <2>3
      <3>2. got' = read(op, text, errno)'
        BY <2>1, <2>2 DEF read
      <3> QED
        BY <2>1, <2>2, <3>1, <3>2 DEF LastRead
    <2> QED
      BY <1>1, <2>1, <2>4 DEF TextsInv
  <1>3. CASE EscapeString
    <2>1. got.op \in {"string", "aligned"} /\ got.value # Null /\ Write(escapeString(got.value, ischar))
      BY <1>3 DEF EscapeString, isRead
    <2>2. got.value \in Seq(Bytes)
      BY <2>1, ReadValues DEF NothingRead
    <2>3. isText(escapeString(got.value, ischar))
      BY <1>1, <2>2, StringsAreTexts
    <2> QED
      BY <2>1, <2>3, WriteKeepsTexts
  <1>4. CASE EscapeCodes
    <2>1. /\ got.op \in {"literal", "range"} /\ got.value # Null
          /\ Write(escapeCodes(got.value, ischar, got.op = "range"))
      BY <1>4 DEF EscapeCodes, isRead
    <2>2. got.value \in Seq(Numbers)
      BY <2>1, ReadValues DEF NothingRead
    <2>3. isText(escapeCodes(got.value, ischar, got.op = "range"))
      BY <1>1, <2>2, CodesAreTexts
    <2> QED
      BY <2>1, <2>3, WriteKeepsTexts
  <1>5. CASE StandardCodes
    <2>1. got.op \in {"literal", "range"} /\ got.value # Null /\ Write(standardCodes(got.value))
      BY <1>5 DEF StandardCodes, isRead
    <2>2. got.value \in Seq(Numbers)
      BY <2>1, ReadValues DEF NothingRead
    <2>3. isText(standardCodes(got.value))
      BY <2>2, StandardIsAText
    <2> QED
      BY <2>1, <2>3, WriteKeepsTexts
  <1>6. CASE ParseLongBound
    <2>1. text' = text /\ ischar' = ischar /\ got' = NothingRead
      BY <1>6 DEF ParseLongBound
    <2> QED
      BY <1>1, <2>1 DEF TextsInv, LastRead
  <1>7. CASE UNCHANGED vars
    <2>1. text' = text /\ ischar' = ischar /\ errno' = errno /\ got' = got
      BY <1>7 DEF vars
    <2>2. LastRead
      BY DEF TextsInv
    <2>3. LastRead'
      <3>1. read(got.op, text, errno)' = read(got.op, text, errno)
        BY <2>1 DEF read
      <3> QED
        BY <2>1, <2>2, <3>1 DEF LastRead
    <2> QED
      BY <1>1, <2>1, <2>3 DEF TextsInv
  <1> QED
    BY <1>2, <1>3, <1>4, <1>5, <1>6, <1>7 DEF Next

(* In every reachable state what was read last is what the text still      *)
(* reads as, so the properties can be about the text.                      *)
THEOREM TextsStayTexts == Spec => []TextsInv
  BY TextsInvInitially, TextsInvKept, PTL DEF Spec

(* A text the readers refuse is reported: none of the three turns one into *)
(* an empty string, literal or range without an error.                     *)
THEOREM RefusalsAreReported == Spec => []RefusedIsReported
  <1>1. TextsInv => RefusedIsReported
    <2> SUFFICES ASSUME TextsInv, got.op \in Ops, got.value = Null
                 PROVE  got.reported
      BY DEF RefusedIsReported
    <2>1. got # NothingRead
      BY DEF NothingRead, Ops
    <2> QED
      BY <2>1, ReadValues
  <1> QED
    BY <1>1, TextsStayTexts, PTL
-----------------------------------------------------------------------------
(* What the alignment of a literal over several lines leaves out. *)

LEMMA LeftOut ==
    ASSUME NEW t, isText(t), NEW i \in 1 .. Len(t), msScanCount(t, i) # 0
    PROVE  \E n \in i + 2 .. Len(t) + 1 :
              /\ msScanCount(t, i) = n - i
              /\ n = Len(t) + 1 \/ isBackslash(t[n])
              /\ \A k \in i + 1 .. n - 1 : isWhite(t[k])
  <1> DEFINE ends == {j \in i + 1 .. Len(t) + 1 : j = Len(t) + 1 \/ isBackslash(t[j])}
             n == Min(ends)
  <1>1. Len(t) \in Nat
    BY TextUnits
  <1>2. ends \in SUBSET Nat /\ Len(t) + 1 \in ends
    BY <1>1
  <1>3. n \in ends
    <2> HIDE DEF ends
    <2> QED
      BY <1>2, MinIsLeast
  <1>4. n \in i + 1 .. Len(t) + 1 /\ (n = Len(t) + 1 \/ isBackslash(t[n]))
    BY <1>3
  <1>5. msScanCount(t, i) = IF n - i - 1 >= 1 /\ \A k \in i + 1 .. n - 1 : isWhite(t[k]) THEN n - i - 1 + 1 ELSE 0
    BY DEF msScanCount
  <1> HIDE DEF n
  <1>6. n - i - 1 >= 1 /\ \A k \in i + 1 .. n - 1 : isWhite(t[k])
    BY <1>5
  <1>7. n \in i + 2 .. Len(t) + 1 /\ msScanCount(t, i) = n - i
    BY <1>1, <1>4, <1>5, <1>6
  <1> QED
    BY <1>4, <1>6, <1>7

LEMMA KeptUnits ==
    ASSUME NEW t, isText(t)
    PROVE  /\ keptUnits(t, FALSE) = 1 .. Len(t)
           /\ \A multiline \in BOOLEAN : keptUnits(t, multiline) \subseteq 1 .. Len(t)
           /\ \A multiline \in BOOLEAN : \A k \in (1 .. Len(t)) \ keptUnits(t, multiline) :
                 isWhite(t[k]) \/ isBackslash(t[k])
  <1>1. Len(t) \in Nat /\ DOMAIN t = 1 .. Len(t)
    BY TextUnits
  <1>2. keptUnits(t, FALSE) = 1 .. Len(t)
    BY <1>1 DEF keptUnits
  <1>3. ASSUME NEW k \in (1 .. Len(t)) \ keptUnits(t, TRUE)
        PROVE  isWhite(t[k]) \/ isBackslash(t[k])
    <2>1. PICK i \in 1 .. Len(t) : k \in i + 1 .. i + msScanCount(t, i)
      BY <1>1 DEF keptUnits
    <2>2. msScanCount(t, i) # 0
      BY <2>1
    <2>3. PICK n \in i + 2 .. Len(t) + 1 :
             /\ msScanCount(t, i) = n - i
             /\ n = Len(t) + 1 \/ isBackslash(t[n])
             /\ \A j \in i + 1 .. n - 1 : isWhite(t[j])
      BY <2>2, LeftOut
    <2>4. k \in i + 1 .. n
      BY <1>1, <2>1, <2>3
    <2> QED
      BY <1>1, <2>3, <2>4
  <1>4. \A multiline \in BOOLEAN : keptUnits(t, multiline) \subseteq 1 .. Len(t)
    BY <1>1 DEF keptUnits
  <1> QED
    BY <1>2, <1>3, <1>4

(* Of a text without a backslash, alignment leaves nothing out but the     *)
(* blanks that end it.                                                     *)
THEOREM AlignmentNeedsABackslash == Spec => []AlignmentHasBackslash
  <1>1. TextsInv => AlignmentHasBackslash
    <2> SUFFICES ASSUME TextsInv, isRead({"aligned"}), ~endsBlank, ~(\E i \in DOMAIN text : isBackslash(text[i]))
                 PROVE  got.value = unescapeString(text, ischar, FALSE, errno)
      BY DEF AlignmentHasBackslash
    <2>1. got.op = "aligned" /\ got # NothingRead
      BY DEF isRead, NothingRead
    <2>2. got.value = unescapeString(text, ischar, TRUE, errno)
      BY <2>1, ReadValues
    <2>3. isText(text)
      BY DEF TextsInv
    <2>4. Len(text) \in Nat /\ DOMAIN text = 1 .. Len(text)
      BY <2>3, TextUnits
    <2>5. ASSUME NEW i \in 1 .. Len(text), isNewline(text[i])
          PROVE  msScanCount(text, i) = 0
      <3> SUFFICES ASSUME msScanCount(text, i) # 0
                   PROVE  FALSE
        OBVIOUS
      <3>1. PICK n \in i + 2 .. Len(text) + 1 :
               /\ n = Len(text) + 1 \/ isBackslash(text[n])
               /\ \A k \in i + 1 .. n - 1 : isWhite(text[k])
        BY <2>3, LeftOut
      <3>2. n \in 1 .. Len(text) \/ n = Len(text) + 1
        BY <2>4
      <3>3. n = Len(text) + 1
        BY <2>4, <3>1, <3>2
      <3>4. i < Len(text) /\ \A k \in i + 1 .. Len(text) : isWhite(text[k])
        BY <2>4, <3>1, <3>3
      <3> QED
        BY <2>4, <2>5, <3>4 DEF endsBlank
    <2>6. UNION {i + 1 .. i + msScanCount(text, i) : i \in {j \in DOMAIN text : isNewline(text[j])}} = {}
      <3>1. ASSUME NEW i \in {j \in DOMAIN text : isNewline(text[j])}
            PROVE  i + 1 .. i + msScanCount(text, i) = {}
        <4>1. msScanCount(text, i) = 0 /\ i \in Nat
          BY <2>4, <2>5
        <4> QED
          BY <4>1
      <3> QED
        BY <3>1
    <2>7. keptUnits(text, TRUE) = keptUnits(text, FALSE)
      BY <2>6 DEF keptUnits
    <2>8. unescapeString(text, ischar, TRUE, errno) = unescapeString(text, ischar, FALSE, errno)
      BY <2>7 DEF unescapeString
    <2> QED
      BY <2>2, <2>8
  <1> QED
    BY <1>1, TextsStayTexts, PTL
-----------------------------------------------------------------------------
(* Walking over the characters of a string: whole(s) are the positions     *)
(* from which parserValidateUTF8ByteEncoding gets to the end of s.         *)

leads(i, P, s) ==
    \/ i = Len(s)
    \/ i < Len(s) /\ isSingleByte(byte(s, i)) /\ i + 1 \in P
    \/ /\ i < Len(s) /\ charCodeByteCount(s, i) > 1 /\ i + charCodeByteCount(s, i) <= Len(s)
       /\ \A k \in 1 .. charCodeByteCount(s, i) - 1 : isContinuationByte(byte(s, i + k))
       /\ i + charCodeByteCount(s, i) \in P
whole(s) == UNION {P \in SUBSET (0 .. Len(s)) : \A i \in P : leads(i, P, s)}

LEMMA WholeIsFixed ==
    ASSUME NEW s
    PROVE  /\ whole(s) \subseteq 0 .. Len(s)
           /\ \A i \in 0 .. Len(s) : i \in whole(s) <=> leads(i, whole(s), s)
           /\ \A P \in SUBSET (0 .. Len(s)) : (\A i \in P : leads(i, P, s)) => P \subseteq whole(s)
  <1> DEFINE W == whole(s)
  <1>1. W \subseteq 0 .. Len(s)
    BY DEF whole
  <1>2. \A P \in SUBSET (0 .. Len(s)) : (\A i \in P : leads(i, P, s)) => P \subseteq W
    BY DEF whole
  <1>3. \A i, P, Q : P \subseteq Q /\ leads(i, P, s) => leads(i, Q, s)
    BY DEF leads
  <1>4. \A i \in W : leads(i, W, s)
    <2> TAKE i \in W
    <2>1. PICK P \in SUBSET (0 .. Len(s)) : i \in P /\ \A j \in P : leads(j, P, s)
      BY DEF whole
    <2>2. P \subseteq W
      BY <1>2, <2>1
    <2> QED
      BY <1>3, <2>1, <2>2
  <1>5. ASSUME NEW i \in 0 .. Len(s), leads(i, W, s)
        PROVE  i \in W
    <2> DEFINE P == W \cup {i}
    <2>1. P \in SUBSET (0 .. Len(s))
      BY <1>1
    <2>2. \A j \in P : leads(j, P, s)
      BY <1>3, <1>4, <1>5
    <2>3. P \subseteq W
      <3> HIDE DEF P
      <3> QED
        BY <1>2, <2>1, <2>2
    <2> QED
      BY <2>3
  <1> QED
    BY <1>1, <1>2, <1>4, <1>5

\* validBytes is whether one gets there from the beginning.
isWalk(w, s) ==
    w = [i \in 0 .. Len(s) |->
            \/ i = Len(s)
            \/ /\ isSingleByte(byte(s, i))
               /\ w[i + 1]
            \/ LET count == charCodeByteCount(s, i)
               IN  /\ count > 1 /\ i + count <= Len(s)
                   /\ \A k \in 1 .. count - 1 : isContinuationByte(byte(s, i + k))
                   /\ w[i + count]]

LEMMA CountIsNumber ==
    ASSUME NEW s, NEW i
    PROVE  charCodeByteCount(s, i) \in {1, 2, 3, 4}
  BY DEF charCodeByteCount, encodingByteCount

LEMMA ValidIsWhole ==
    ASSUME NEW s \in Seq(Bytes)
    PROVE  validBytes(s, FALSE) <=> 0 \in whole(s)
  <1> DEFINE n == Len(s)
             W == whole(s)
             count(i) == charCodeByteCount(s, i)
             first == CHOOSE w : isWalk(w, s)
  <1>1. n \in Nat /\ W \subseteq 0 .. n /\ (\A i \in 0 .. n : i \in W <=> leads(i, W, s))
        /\ \A i : count(i) \in {1, 2, 3, 4}
    BY WholeIsFixed, CountIsNumber
  <1>2. isWalk([i \in 0 .. n |-> i \in W], s)
    <2> DEFINE w == [i \in 0 .. n |-> i \in W]
    <2>1. ASSUME NEW i \in 0 .. n
          PROVE  (i \in W) = (\/ i = n
                              \/ isSingleByte(byte(s, i)) /\ w[i + 1]
                              \/ /\ count(i) > 1 /\ i + count(i) <= n
                                 /\ \A k \in 1 .. count(i) - 1 : isContinuationByte(byte(s, i + k))
                                 /\ w[i + count(i)])
      <3>1. i < n => (w[i + 1] <=> i + 1 \in W)
        BY <1>1
      <3>2. i + count(i) <= n => (w[i + count(i)] <=> i + count(i) \in W)
        BY <1>1
      <3>3. i # n => i < n
        BY <1>1
      <3> HIDE DEF w, count
      <3>4. i \in W <=> leads(i, W, s)
        BY <1>1
      <3> DEFINE all == \A k \in 1 .. count(i) - 1 : isContinuationByte(byte(s, i + k))
                 one == isSingleByte(byte(s, i))
                 more == count(i) > 1
      <3>5. i \in W <=>
                       \/ i = n
                       \/ i < n /\ one /\ i + 1 \in W
                       \/ i < n /\ more /\ i + count(i) <= n /\ all /\ i + count(i) \in W
        BY <3>4 DEF leads, count
      <3> HIDE DEF all, one, more, n
      <3>6. i \in W <=>
                       \/ i = n
                       \/ one /\ w[i + 1]
                       \/ more /\ i + count(i) <= n /\ all /\ w[i + count(i)]
        BY <3>1, <3>2, <3>3, <3>5
      <3>7. (i \in W) \in BOOLEAN
        OBVIOUS
      <3> QED
        BY <3>6, <3>7, Zenon DEF all, one, more
    <2> QED
      BY <2>1 DEF isWalk
  <1>3. isWalk(first, s)
    BY <1>2
  <1>4. validBytes(s, FALSE) = first[0]
    BY DEF validBytes, isWalk
  <1> HIDE DEF first
  <1>5. \A i \in 0 .. n : first[i] <=>
            \/ i = n
            \/ isSingleByte(byte(s, i)) /\ first[i + 1]
            \/ /\ count(i) > 1 /\ i + count(i) <= n
               /\ \A k \in 1 .. count(i) - 1 : isContinuationByte(byte(s, i + k))
               /\ first[i + count(i)]
    BY <1>3 DEF isWalk
  <1> HIDE DEF n, W, count
  <1> DEFINE P == {i \in 0 .. n : first[i]}
  <1>6. P \subseteq W
    <2>1. ASSUME NEW i \in P
          PROVE  leads(i, P, s)
      <3>1. i \in 0 .. n /\ first[i]
        OBVIOUS
      <3>2. i = n \/ i < n
        BY <1>1, <3>1
      <3>3. i < n /\ first[i + 1] => i + 1 \in P
        BY <1>1, <3>1
      <3>4. i + count(i) <= n /\ first[i + count(i)] => i + count(i) \in P
        BY <1>1, <3>1
      <3> HIDE DEF P
      <3> QED
        BY <1>5, <3>1, <3>2, <3>3, <3>4 DEF leads, n, count
    <2> HIDE DEF P
    <2>2. P \in SUBSET (0 .. Len(s))
      BY DEF P, n
    <2> QED
      BY <2>1, <2>2, WholeIsFixed DEF W
  <1>7. ASSUME NEW j \in W
        PROVE  first[j]
    <2> DEFINE Bad == {i \in W : ~first[i]}
    <2>1. ASSUME Bad # {}
          PROVE  FALSE
      <3>1. Bad \in SUBSET (0 .. n)
        BY <1>1
      <3>2. PICK i \in Bad : \A b \in Bad : b <= i
        <4> HIDE DEF Bad
        <4> QED
          BY <1>1, <2>1, <3>1, GreatestNumber
      <3>3. i \in W /\ ~first[i] /\ i \in 0 .. n
        BY <1>1
      <3>4. \A b \in W : b > i => first[b]
        <4> TAKE b \in W
        <4>1. b \in 0 .. n
          BY <1>1
        <4> HAVE b > i
        <4>2. b \notin Bad
          <5> HIDE DEF Bad
          <5> QED
            BY <1>1, <3>2, <3>3, <4>1
        <4> QED
          BY <4>2
      <3>5. leads(i, W, s)
        BY <1>1, <3>3
      <3>6. i + 1 \in W => first[i + 1]
        BY <1>1, <3>3, <3>4
      <3>7. i + count(i) \in W => first[i + count(i)]
        BY <1>1, <3>3, <3>4
      <3> QED
        BY <1>5, <3>3, <3>5, <3>6, <3>7 DEF leads, n, count
    <2> QED
      BY <2>1
  <1>8. 0 \in 0 .. n
    BY <1>1
  <1> QED
    BY <1>4, <1>6, <1>7, <1>8 DEF W
\* Single bytes are characters, so a char string is one of these too.
LEMMA SingleBytesAreWhole ==
    ASSUME NEW s \in Seq(Bytes), \A i \in 1 .. Len(s) : isSingleByte(s[i])
    PROVE  0 \in whole(s)
  <1>1. Len(s) \in Nat
    OBVIOUS
  <1>2. ASSUME NEW i \in 0 .. Len(s)
        PROVE  leads(i, 0 .. Len(s), s)
    <2>1. CASE i = Len(s)
      BY <2>1 DEF leads
    <2>2. CASE i # Len(s)
      <3>1. i < Len(s) /\ i + 1 \in 1 .. Len(s) /\ i + 1 \in 0 .. Len(s)
        BY <1>1, <2>2
      <3>2. isSingleByte(byte(s, i))
        BY <3>1 DEF byte
      <3> QED
        BY <3>1, <3>2 DEF leads
    <2> QED
      BY <2>1, <2>2
  <1>3. 0 .. Len(s) \subseteq whole(s)
    BY <1>2, WholeIsFixed
  <1> QED
    BY <1>1, <1>3

LEMMA ValidBytesAreWhole ==
    ASSUME NEW s \in Seq(Bytes), NEW char \in BOOLEAN, validBytes(s, char)
    PROVE  0 \in whole(s) /\ (char => \A i \in 1 .. Len(s) : isSingleByte(s[i]))
  <1>1. CASE char = TRUE
    <2>1. \A i \in 1 .. Len(s) : isSingleByte(s[i])
      BY <1>1 DEF validBytes
    <2> QED
      BY <2>1, SingleBytesAreWhole
  <1>2. CASE char = FALSE
    BY <1>2, ValidIsWhole
  <1> QED
    BY <1>1, <1>2

(* The bytes of a character, or of none. *)
isCharacter(b) ==
    \/ Len(b) = 0
    \/ Len(b) = 1 /\ isSingleByte(b[1])
    \/ /\ Len(b) \in {2, 3, 4} /\ starts(b[1], Len(b))
       /\ \A k \in 2 .. Len(b) : follows(b[k])

LEMMA CodeIsCharacter ==
    ASSUME NEW c \in Numbers
    PROVE  isCharacter(extractRegexCharToBytes(c))
  <1> DEFINE t == extractRegexCharToBytes(c)
  <1>1. writes(t, c) /\ t \in Seq(Bytes) /\ c \in Nat
    BY CodeBytes DEF Numbers
  <1> HIDE DEF t
  <1>2. writtenAt(t, 0, t)
    BY DEF writtenAt
  <1>3. CASE c < 128
    <2>1. Len(t) = 1 /\ byte(t, 0) = c /\ isSingleByte(c)
      BY <1>1, <1>2, <1>3, WrittenSingle
    <2> QED
      BY <2>1 DEF isCharacter, byte, t
  <1>4. CASE 128 <= c
    <2>1. /\ Len(t) \in {2, 3, 4} /\ starts(t[1], Len(t))
          /\ \A k \in 1 .. Len(t) - 1 : follows(t[k + 1])
      BY <1>1, <1>2, <1>4, Written
    <2>2. ASSUME NEW k \in 2 .. Len(t)
          PROVE  follows(t[k])
      <3>1. k - 1 \in 1 .. Len(t) - 1 /\ (k - 1) + 1 = k
        BY <2>1
      <3>2. follows(t[(k - 1) + 1])
        BY <2>1, <3>1
      <3> QED
        BY <3>1, <3>2
    <2> QED
      BY <2>1, <2>2 DEF isCharacter, t
  <1> QED
    BY <1>1, <1>3, <1>4

LEMMA EscapeIsCharacter ==
    ASSUME NEW u, isUnit(u), u.u # "raw", NEW char \in BOOLEAN, NEW err, ~badEscape(u, char, err)
    PROVE  isCharacter(stringBytes(u, char, err))
  <1>1. CASE u.u = "hex"
    <2>1. decodeHexEscape(u, char, err) # Null /\ u.val \in Nat
      BY <1>1 DEF badEscape, isUnit
    <2>2. decodeHexEscape(u, char, err) = <<u.val>> /\ (u.val \in CodePoints \/ isLegalCChar(u.val))
      BY <2>1, HexIsOfACode
    <2>3. u.val \in Numbers
      BY <2>1, <2>2, CodesFit
    <2>4. stringBytes(u, char, err) = extractRegexCharToBytes(u.val)
      BY <1>1, <2>1, BytesOfHex
    <2> QED
      BY <2>3, <2>4, CodeIsCharacter
  <1>2. CASE u.u = "name"
    <2>1. fromName(u.name, char) # Null
      BY <1>2 DEF badEscape
    <2>2. PICK c \in namedCodes(char) : fromName(u.name, char) = <<c>>
      BY <2>1, NameIsOfACode
    <2>3. isSingleByte(c)
      BY DEF namedCodes, isSingleByte
    <2>4. stringBytes(u, char, err) = <<c>>
      BY <1>2, <2>2 DEF stringBytes
    <2> QED
      BY <2>3, <2>4 DEF isCharacter
  <1> QED
    BY <1>1, <1>2 DEF isUnit

\* A character before a position one gets from is no obstacle.
LEMMA CharacterIsPassed ==
    ASSUME NEW s \in Seq(Bytes), NEW b \in Seq(Bytes), isCharacter(b), NEW x \in Nat,
           x + Len(b) <= Len(s), \A k \in 1 .. Len(b) : s[x + k] = b[k],
           x + Len(b) \in whole(s)
    PROVE  x \in whole(s)
  <1>1. Len(b) \in Nat /\ Len(s) \in Nat /\ x \in 0 .. Len(s)
    OBVIOUS
  <1>2. CASE Len(b) = 0
    BY <1>1, <1>2
  <1>3. CASE Len(b) = 1 /\ isSingleByte(b[1])
    <2>1. byte(s, x) = b[1] /\ x + 1 \in whole(s) /\ x < Len(s)
      BY <1>1, <1>3 DEF byte
    <2>2. leads(x, whole(s), s)
      BY <1>3, <2>1 DEF leads
    <2> QED
      BY <1>1, <2>2, WholeIsFixed
  <1>4. CASE Len(b) \in {2, 3, 4} /\ starts(b[1], Len(b)) /\ \A k \in 2 .. Len(b) : follows(b[k])
    <2>1. byte(s, x) = b[1] /\ b[1] \in Nat
      <3>1. 1 \in 1 .. Len(b)
        BY <1>4
      <3>2. s[x + 1] = b[1] /\ b[1] \in Bytes
        BY <3>1
      <3>3. b[1] \in Nat
        BY <3>2, BytesAreNumbers
      <3> QED
        BY <3>2, <3>3 DEF byte
    <2>2. charCodeByteCount(s, x) = Len(b)
      BY <1>4, <2>1, StartByte DEF charCodeByteCount
    <2>3. ASSUME NEW k \in 1 .. Len(b) - 1
          PROVE  isContinuationByte(byte(s, x + k))
      <3>1. k + 1 \in 2 .. Len(b) /\ byte(s, x + k) = b[k + 1]
        <4>1. k + 1 \in 2 .. Len(b) /\ k + 1 \in 1 .. Len(b) /\ x + k + 1 = x + (k + 1)
          BY <1>1
        <4>2. s[x + (k + 1)] = b[k + 1]
          BY <4>1
        <4> QED
          BY <4>1, <4>2 DEF byte
      <3>2. follows(b[k + 1])
        BY <1>4, <3>1
      <3> QED
        BY <3>1, <3>2, FollowingByte
    <2>4. leads(x, whole(s), s)
      <3> DEFINE n == charCodeByteCount(s, x)
      <3>1. x < Len(s) /\ n > 1 /\ x + n <= Len(s) /\ x + n \in whole(s)
        BY <1>1, <1>4, <2>2
      <3>2. \A k \in 1 .. n - 1 : isContinuationByte(byte(s, x + k))
        BY <2>2, <2>3
      <3> QED
        BY <3>1, <3>2 DEF leads
    <2> QED
      BY <1>1, <2>4, WholeIsFixed
  <1> QED
    BY <1>2, <1>3, <1>4 DEF isCharacter
LEMMA HighByteIsRaw ==
    ASSUME NEW t, isText(t), NEW i \in 1 .. Len(t),
           ~isSingleByte(rawBytes(t)[i]) \/ isContinuationByte(rawBytes(t)[i])
    PROVE  /\ isRaw(t[i]) /\ t[i].byte = rawBytes(t)[i] /\ t[i].byte >= 128
           /\ \A multiline \in BOOLEAN : i \in keptUnits(t, multiline)
           /\ \A char \in BOOLEAN : \A err : stringBytes(t[i], char, err) = <<rawBytes(t)[i]>>
  <1> DEFINE b == rawBytes(t)[i]
  <1>1. b \in Bytes /\ b = IF isRaw(t[i]) THEN t[i].byte ELSE Percent
    BY TextUnits
  <1>2. b >= 128
    <2>1. b \in Nat /\ (isContinuationByte(b) => b >= 128)
      <3> HIDE DEF b
      <3>1. b \in Nat
        BY <1>1, BytesAreNumbers
      <3> QED
        BY <3>1, Digit DEF isContinuationByte
    <2> QED
      BY <2>1 DEF isSingleByte
  <1> HIDE DEF b
  <1>3. isRaw(t[i]) /\ t[i].byte = b
    BY <1>1, <1>2 DEF Percent
  <1>4. ~isWhite(t[i]) /\ ~isBackslash(t[i])
    BY <1>1, <1>2, <1>3 DEF isWhite, isBackslash, isspace, Space, Backslash, Bytes
  <1>5. \A multiline \in BOOLEAN : i \in keptUnits(t, multiline)
    BY <1>4, KeptUnits
  <1>6. \A char \in BOOLEAN : \A err : stringBytes(t[i], char, err) = <<b>>
    BY <1>3 DEF stringBytes, isRaw
  <1> QED
    BY <1>2, <1>3, <1>5, <1>6 DEF b

\* A run of single elements stays a run.
LEMMA RunOfPieces ==
    ASSUME NEW S, NEW p \in Seq(Seq(S)), NEW k \in Nat, NEW c \in {2, 3, 4}, k + c <= Len(p),
           \A j \in 1 .. c : Len(p[k + j]) = 1
    PROVE  /\ \A j \in 0 .. c : Len(gathered(p, k + j)) = Len(gathered(p, k)) + j
           /\ \A j \in 1 .. c : FlattenSeq(p)[Len(gathered(p, k)) + j] = p[k + j][1]
           /\ Len(gathered(p, k)) + c <= Len(FlattenSeq(p))
  <1> DEFINE L(i) == Len(gathered(p, i))
             f == FlattenSeq(p)
  <1>1. /\ \A i \in 0 .. Len(p) : L(i) \in 0 .. Len(f)
        /\ \A i \in 1 .. Len(p) : L(i) = L(i - 1) + Len(p[i])
        /\ \A i \in 1 .. Len(p) : \A x \in 1 .. Len(p[i]) : f[L(i - 1) + x] = p[i][x]
    BY FlattenedPositions, ZenonT(60)
  <1>2. Len(p) \in Nat /\ Len(f) \in Nat
    <2>1. Len(p) \in Nat /\ Len(p) \in 0 .. Len(p)
      OBVIOUS
    <2>2. f \in Seq(S)
      BY <2>1, Gathering
    <2> QED
      BY <2>1, <2>2, LenProperties
  <1> HIDE DEF L, f
  <1>3. ASSUME NEW j \in 1 .. c
        PROVE  L(k + j) = L(k + (j - 1)) + 1 /\ f[L(k + (j - 1)) + 1] = p[k + j][1] /\ L(k + j) \in Nat
    <2>1. k + j \in 1 .. Len(p) /\ k + j \in 0 .. Len(p) /\ (k + j) - 1 = k + (j - 1)
      BY <1>2
    <2>2. L(k + j) = L((k + j) - 1) + Len(p[k + j])
      BY <1>1, <2>1
    <2>3. 1 \in 1 .. Len(p[k + j]) /\ Len(p[k + j]) = 1
      <3>1. Len(p[k + j]) = 1
        OBVIOUS
      <3> QED
        BY <3>1
    <2>4. f[L((k + j) - 1) + 1] = p[k + j][1]
      BY <1>1, <2>1, <2>3
    <2>5. L(k + j) \in Nat
      BY <1>1, <2>1
    <2> QED
      BY <2>1, <2>2, <2>4, <2>5
  <1>4. L(k) \in Nat /\ k + 0 = k
    BY <1>1, <1>2
  <1>5. L(k + 1) = L(k) + 1 /\ f[L(k) + 1] = p[k + 1][1]
    <2>1. 1 \in 1 .. c /\ k + (1 - 1) = k
      OBVIOUS
    <2> QED
      BY <1>3, <2>1
  <1>6. L(k + 2) = L(k) + 2 /\ f[L(k) + 2] = p[k + 2][1]
    <2>1. 2 \in 1 .. c /\ k + (2 - 1) = k + 1
      OBVIOUS
    <2>2. L(k + 2) = L(k + 1) + 1 /\ f[L(k + 1) + 1] = p[k + 2][1]
      BY <1>3, <2>1
    <2>3. L(k) + 1 + 1 = L(k) + 2
      BY <1>4
    <2> QED
      BY <1>5, <2>2, <2>3
  <1>7. c >= 3 => L(k + 3) = L(k) + 3 /\ f[L(k) + 3] = p[k + 3][1]
    <2> HAVE c >= 3
    <2>1. 3 \in 1 .. c /\ k + (3 - 1) = k + 2
      OBVIOUS
    <2>2. L(k + 3) = L(k + 2) + 1 /\ f[L(k + 2) + 1] = p[k + 3][1]
      BY <1>3, <2>1
    <2>3. L(k) + 2 + 1 = L(k) + 3
      BY <1>4
    <2> QED
      BY <1>6, <2>2, <2>3
  <1>8. c = 4 => L(k + 4) = L(k) + 4 /\ f[L(k) + 4] = p[k + 4][1]
    <2> HAVE c = 4
    <2>1. 4 \in 1 .. c /\ k + (4 - 1) = k + 3
      OBVIOUS
    <2>2. L(k + 4) = L(k + 3) + 1 /\ f[L(k + 3) + 1] = p[k + 4][1]
      BY <1>3, <2>1
    <2>3. L(k) + 3 + 1 = L(k) + 4
      BY <1>4
    <2> QED
      BY <1>7, <2>2, <2>3
  <1>9. \A j \in 0 .. c : L(k + j) = L(k) + j
    <2> TAKE j \in 0 .. c
    <2>1. j = 0 \/ j = 1 \/ j = 2 \/ (j = 3 /\ c >= 3) \/ (j = 4 /\ c = 4)
      OBVIOUS
    <2>2. CASE j = 0
      BY <1>4, <2>2
    <2>3. CASE j # 0
      BY <1>5, <1>6, <1>7, <1>8, <2>1, <2>3
    <2> QED
      BY <2>2, <2>3
  <1>10. \A j \in 1 .. c : f[L(k) + j] = p[k + j][1]
    <2> TAKE j \in 1 .. c
    <2>1. j = 1 \/ j = 2 \/ (j = 3 /\ c >= 3) \/ (j = 4 /\ c = 4)
      OBVIOUS
    <2> QED
      BY <1>5, <1>6, <1>7, <1>8, <2>1
  <1>11. L(k) + c <= Len(f)
    <2>1. k + c \in 0 .. Len(p) /\ c \in 0 .. c
      BY <1>2
    <2>2. L(k + c) = L(k) + c /\ L(k + c) <= Len(f)
      BY <1>1, <1>2, <1>9, <2>1
    <2> QED
      BY <2>2
  <1> QED
    BY <1>9, <1>10, <1>11 DEF L, f
LEMMA SingleCount ==
    ASSUME NEW b \in Nat
    PROVE  isSingleByte(b) => encodingByteCount(b) = 1
  <1>1. b < 128 => b \div 16 < 12
    BY SMT
  <1> QED
    BY <1>1 DEF isSingleByte, encodingByteCount

(* A character of c bytes, more than one. *)
longAt(r, k, c) ==
    /\ c \in {2, 3, 4} /\ c = charCodeByteCount(r, k) /\ k + c <= Len(r)
    /\ \A j \in 1 .. c - 1 : isContinuationByte(byte(r, k + j))

(* The c elements of r after the k-th follow the first k pieces of p. *)
keeps(p, r, k, c) ==
    /\ \A j \in 0 .. c : Len(gathered(p, k + j)) = Len(gathered(p, k)) + j
    /\ \A j \in 1 .. c : FlattenSeq(p)[Len(gathered(p, k)) + j] = r[k + j]
    /\ Len(gathered(p, k)) + c <= Len(FlattenSeq(p))

(* The bytes of a longer character of a text are raw ones, and stay        *)
(* together in what is read.                                               *)
LEMMA LongCharacterStays ==
    ASSUME NEW t, isText(t), NEW char \in BOOLEAN, NEW multiline \in BOOLEAN, NEW err,
           isReadable(t, char, multiline, err), NEW k \in Nat, NEW c, longAt(rawBytes(t), k, c)
    PROVE  /\ \A j \in 1 .. c : isRaw(t[k + j]) /\ t[k + j].byte = rawBytes(t)[k + j] /\ rawBytes(t)[k + j] >= 128
           /\ keeps(stringPieces(t, char, multiline, err), rawBytes(t), k, c)
  <1> DEFINE p == stringPieces(t, char, multiline, err)
             s == FlattenSeq(p)
             r == rawBytes(t)
             n == Len(t)
             L(i) == Len(gathered(p, i))
  <1>1. /\ n \in Nat /\ DOMAIN t = 1 .. n
        /\ r \in Seq(Bytes) /\ Len(r) = n
    BY TextUnits
  <1>0. c \in {2, 3, 4} /\ k + c <= n
    BY <1>1 DEF longAt
  <1>2. p \in Seq(Seq(Bytes)) /\ Len(p) = n
    BY StringIsRead
  <1>3. \A i \in 1 .. n : i \in keptUnits(t, multiline) => p[i] = stringBytes(t[i], char, err)
    BY <1>1 DEF stringPieces
  <1>4. c = encodingByteCount(r[k + 1])
    BY DEF charCodeByteCount, byte, longAt
  <1>5. \A j \in 1 .. c - 1 : isContinuationByte(r[k + j + 1])
    BY DEF byte, longAt
  <1> HIDE DEF p, s, r, n, L
  <1>6. ~isSingleByte(r[k + 1])
    <2>1. k + 1 \in 1 .. n
      BY <1>0, <1>1
    <2>2. r[k + 1] \in Bytes
      BY <1>1, <2>1
    <2>3. r[k + 1] \in Nat
      BY <2>2, BytesAreNumbers
    <2> QED
      BY <1>0, <1>4, <2>3, SingleCount
  <1>7. ASSUME NEW j \in 1 .. c
        PROVE  p[k + j] = <<r[k + j]>> /\ isRaw(t[k + j]) /\ t[k + j].byte = r[k + j] /\ r[k + j] >= 128
    <2>1. k + j \in 1 .. n
      BY <1>0, <1>1
    <2>2. ~isSingleByte(r[k + j]) \/ isContinuationByte(r[k + j])
      <3>1. CASE j = 1
        BY <1>6, <3>1
      <3>2. CASE j # 1
        <4>1. j - 1 \in 1 .. c - 1 /\ k + (j - 1) + 1 = k + j
          BY <1>0, <3>2
        <4> QED
          BY <1>5, <4>1
      <3> QED
        BY <3>1, <3>2
    <2>3. /\ k + j \in keptUnits(t, multiline) /\ stringBytes(t[k + j], char, err) = <<r[k + j]>>
          /\ isRaw(t[k + j]) /\ t[k + j].byte = r[k + j] /\ r[k + j] >= 128
      <3>1. k + j \in 1 .. Len(t) /\ (~isSingleByte(rawBytes(t)[k + j]) \/ isContinuationByte(rawBytes(t)[k + j]))
        BY <2>1, <2>2 DEF n, r
      <3>2. /\ isRaw(t[k + j]) /\ t[k + j].byte = rawBytes(t)[k + j] /\ t[k + j].byte >= 128
            /\ \A m \in BOOLEAN : k + j \in keptUnits(t, m)
            /\ \A h \in BOOLEAN : \A e : stringBytes(t[k + j], h, e) = <<rawBytes(t)[k + j]>>
        BY <3>1, HighByteIsRaw
      <3> QED
        BY <3>2 DEF r
    <2> QED
      BY <1>3, <2>1, <2>3
  <1>8. \A j \in 1 .. c : Len(p[k + j]) = 1 /\ p[k + j][1] = r[k + j]
    <2> TAKE j \in 1 .. c
    <2>1. p[k + j] = <<r[k + j]>>
      BY <1>7
    <2> QED
      BY <2>1
  <1>9. k + c <= Len(p)
    BY <1>0, <1>2
  <1>10. /\ \A j \in 0 .. c : Len(gathered(p, k + j)) = Len(gathered(p, k)) + j
         /\ \A j \in 1 .. c : FlattenSeq(p)[Len(gathered(p, k)) + j] = p[k + j][1]
         /\ Len(gathered(p, k)) + c <= Len(FlattenSeq(p))
    BY <1>0, <1>2, <1>8, <1>9, RunOfPieces
  <1>11. keeps(p, r, k, c)
    BY <1>8, <1>10 DEF keeps
  <1> QED
    BY <1>7, <1>11 DEF p, r

(* A string that is read is whole: every unit of the text gives whole      *)
(* characters, and the bytes of one stay together.                         *)
LEMMA StringIsWhole ==
    ASSUME NEW t, isText(t), NEW char \in BOOLEAN, NEW multiline \in BOOLEAN, NEW err,
           isReadable(t, char, multiline, err)
    PROVE  0 \in whole(FlattenSeq(stringPieces(t, char, multiline, err)))
  <1> DEFINE p == stringPieces(t, char, multiline, err)
             s == FlattenSeq(p)
             r == rawBytes(t)
             n == Len(t)
             L(k) == Len(gathered(p, k))
             Bad == {k \in whole(r) : L(k) \notin whole(s)}
  <1>1. /\ n \in Nat /\ DOMAIN t = 1 .. n /\ (\A i \in 1 .. n : isUnit(t[i]))
        /\ r \in Seq(Bytes) /\ Len(r) = n
        /\ \A i \in 1 .. n : r[i] = IF isRaw(t[i]) THEN t[i].byte ELSE Percent
    BY TextUnits
  <1>2. p \in Seq(Seq(Bytes)) /\ Len(p) = n /\ s \in Seq(Bytes)
    BY StringIsRead
  <1>3. /\ L(0) = 0 /\ Len(s) = L(n)
        /\ \A i \in 0 .. n : L(i) \in 0 .. Len(s)
    BY <1>2, FlattenedPositions
  <1>4. \A i \in 1 .. n : L(i) = L(i - 1) + Len(p[i]) /\ \A x \in 1 .. Len(p[i]) : s[L(i - 1) + x] = p[i][x]
    <2> HIDE DEF p, n
    <2>1. \A i \in 1 .. Len(p) : L(i) = L(i - 1) + Len(p[i]) /\ \A x \in 1 .. Len(p[i]) : s[L(i - 1) + x] = p[i][x]
      BY <1>2, FlattenedPositions
    <2> QED
      BY <1>2, <2>1
  <1>5. /\ \A i \in 1 .. n : i \in keptUnits(t, multiline) => p[i] = stringBytes(t[i], char, err)
        /\ \A i \in 1 .. n : i \notin keptUnits(t, multiline) => p[i] = <<>>
        /\ \A i \in 1 .. n : ~badEscape(t[i], char, err)
    BY <1>1 DEF stringPieces, isReadable, badEscapes
  <1>6. 0 \in whole(r) /\ whole(r) \subseteq 0 .. n
    BY <1>1, ValidBytesAreWhole, WholeIsFixed DEF isReadable
  <1> HIDE DEF p, s, r, n, L
  <1>7. \A i \in 1 .. n : p[i] \in Seq(Bytes)
    BY <1>2
  <1>8. ASSUME Bad # {}
        PROVE  FALSE
    <2>1. Bad \in SUBSET (0 .. n)
      BY <1>6
    <2>2. PICK k \in Bad : \A b \in Bad : b <= k
      <3> HIDE DEF Bad
      <3> QED
        BY <1>1, <1>8, <2>1, GreatestNumber
    <2>3. k \in whole(r) /\ L(k) \notin whole(s) /\ k \in 0 .. n
      BY <1>6, <2>2
    <2>4. \A m \in whole(r) : m > k => L(m) \in whole(s)
      <3> TAKE m \in whole(r)
      <3>1. m \in 0 .. n
        BY <1>6
      <3> HAVE m > k
      <3>2. m \notin Bad
        <4> HIDE DEF Bad
        <4> QED
          BY <1>1, <2>2, <2>3, <3>1
      <3> QED
        BY <3>2
    <2>5. L(k) \in Nat /\ Len(s) \in Nat
      BY <1>2, <1>3, <2>3
    <2>6. leads(k, whole(r), r)
      BY <1>1, <2>3, WholeIsFixed
    <2>7. CASE k = n
      <3>1. leads(Len(s), whole(s), s) /\ Len(s) \in 0 .. Len(s)
        BY <2>5 DEF leads
      <3>2. Len(s) \in whole(s)
        BY <3>1, WholeIsFixed
      <3> QED
        BY <1>3, <2>3, <2>7, <3>2
    <2>8. CASE k < n /\ isSingleByte(byte(r, k)) /\ k + 1 \in whole(r)
      <3> DEFINE i == k + 1
      <3>1. i \in 1 .. n /\ i - 1 = k /\ i \in 0 .. n
        BY <1>1, <2>3, <2>8
      <3>2. L(i) \in whole(s)
        BY <2>3, <2>4, <2>8
      <3>3. r[i] = (IF isRaw(t[i]) THEN t[i].byte ELSE Percent) /\ isSingleByte(r[i])
        BY <1>1, <2>8, <3>1 DEF byte
      <3> HIDE DEF i
      <3>4. isCharacter(p[i])
        <4>1. CASE i \notin keptUnits(t, multiline)
          BY <1>5, <3>1, <4>1 DEF isCharacter
        <4>2. CASE i \in keptUnits(t, multiline) /\ t[i].u = "raw"
          <5>1. p[i] = <<t[i].byte>> /\ isSingleByte(t[i].byte)
            BY <1>5, <3>1, <3>3, <4>2 DEF stringBytes, isRaw
          <5> QED
            BY <5>1 DEF isCharacter
        <4>3. CASE i \in keptUnits(t, multiline) /\ t[i].u # "raw"
          BY <1>1, <1>5, <3>1, <4>3, EscapeIsCharacter
        <4> QED
          BY <4>1, <4>2, <4>3
      <3>5. L(i) = L(k) + Len(p[i]) /\ \A x \in 1 .. Len(p[i]) : s[L(k) + x] = p[i][x]
        BY <1>4, <3>1
      <3>6. L(i) <= Len(s) /\ p[i] \in Seq(Bytes)
        BY <1>3, <1>7, <2>5, <3>1
      <3>7. L(k) \in whole(s)
        BY <1>2, <2>5, <3>2, <3>4, <3>5, <3>6, CharacterIsPassed
      <3> QED
        BY <2>3, <3>7
    <2>9. CASE /\ k < n /\ charCodeByteCount(r, k) > 1 /\ k + charCodeByteCount(r, k) <= n
               /\ \A j \in 1 .. charCodeByteCount(r, k) - 1 : isContinuationByte(byte(r, k + j))
               /\ k + charCodeByteCount(r, k) \in whole(r)
      <3> DEFINE c == charCodeByteCount(r, k)
      <3>1. c \in {2, 3, 4} /\ k \in Nat /\ k + c <= n /\ k + c \in whole(r)
        BY <2>3, <2>9, CountIsNumber
      <3>2. c = encodingByteCount(r[k + 1])
        BY DEF charCodeByteCount, byte
      <3>3. \A j \in 1 .. c - 1 : isContinuationByte(r[k + j + 1])
        BY <2>9 DEF byte
      <3> HIDE DEF c
      <3>7. /\ \A j \in 0 .. c : L(k + j) = L(k) + j
            /\ \A j \in 1 .. c : s[L(k) + j] = r[k + j]
            /\ L(k) + c <= Len(s)
        <4>1. c = charCodeByteCount(r, k) /\ k + c <= Len(r)
          BY <1>1, <3>1 DEF c
        <4>2. longAt(rawBytes(t), k, c)
          BY <3>1, <3>3, <4>1 DEF longAt, byte, r
        <4>3. keeps(stringPieces(t, char, multiline, err), rawBytes(t), k, c)
          BY <3>1, <4>2, LongCharacterStays
        <4> QED
          BY <4>3 DEF keeps, L, s, p, r
      <3>8. charCodeByteCount(s, L(k)) = c
        <4>1. 1 \in 1 .. c
          BY <3>1
        <4>2. s[L(k) + 1] = r[k + 1]
          BY <3>7, <4>1
        <4> QED
          BY <3>2, <4>2 DEF charCodeByteCount, byte
      <3>9. ASSUME NEW j \in 1 .. c - 1
            PROVE  isContinuationByte(byte(s, L(k) + j))
        <4>1. j + 1 \in 1 .. c /\ L(k) + (j + 1) = L(k) + j + 1 /\ k + (j + 1) = k + j + 1
          BY <2>5, <3>1
        <4>2. s[L(k) + (j + 1)] = r[k + (j + 1)]
          BY <3>7, <4>1
        <4>3. isContinuationByte(r[k + j + 1])
          BY <3>3
        <4> QED
          BY <4>1, <4>2, <4>3 DEF byte
      <3>10. L(k) + c \in whole(s)
        <4>1. k + c > k /\ c \in 0 .. c
          BY <3>1
        <4>2. L(k + c) \in whole(s) /\ L(k + c) = L(k) + c
          BY <2>4, <3>1, <3>7, <4>1
        <4> QED
          BY <4>2
      <3>11. leads(L(k), whole(s), s)
        <4>1. L(k) < Len(s) /\ c > 1 /\ L(k) + c <= Len(s)
          BY <2>5, <3>1, <3>7
        <4> QED
          BY <3>8, <3>9, <3>10, <4>1 DEF leads
      <3>12. L(k) \in whole(s)
        <4>1. L(k) \in 0 .. Len(s)
          BY <1>3, <2>3
        <4> QED
          BY <3>11, <4>1, WholeIsFixed
      <3> QED
        BY <2>3, <3>12
    <2> QED
      BY <1>1, <2>6, <2>7, <2>8, <2>9 DEF leads
  <1>9. L(0) \in whole(s)
    BY <1>6, <1>8
  <1> QED
    BY <1>3, <1>9 DEF s, p
\* What stringBytes puts into a char string is legal there.
LEMMA CharBytesAreLegal ==
    ASSUME NEW u, isUnit(u), NEW char \in BOOLEAN, char # FALSE, NEW err,
           ~badEscape(u, char, err), isRaw(u) => isLegal(u.byte, char)
    PROVE  \A k \in 1 .. Len(stringBytes(u, char, err)) : isLegalCChar(stringBytes(u, char, err)[k])
  <1> DEFINE b == stringBytes(u, char, err)
  <1>1. ASSUME NEW c, b = <<c>>, isLegalCChar(c)
        PROVE  \A k \in 1 .. Len(b) : isLegalCChar(b[k])
    <2> HIDE DEF b
    <2>1. Len(b) = 1 /\ b[1] = c
      BY <1>1
    <2> QED
      BY <1>1, <2>1
  <1>2. CASE u.u = "raw"
    <2>1. b = <<u.byte>> /\ isLegalCChar(u.byte)
      BY <1>2 DEF stringBytes, isRaw, isLegal
    <2> QED
      BY <1>1, <2>1
  <1>3. CASE u.u = "hex"
    <2>1. decodeHexEscape(u, char, err) # Null /\ u.val \in Nat
      BY <1>3 DEF badEscape, isUnit
    <2>2. decodeHexEscape(u, char, err) = <<u.val>> /\ isLegalCChar(u.val)
      BY <2>1, HexIsOfACode
    <2>3. u.val <= 127
      BY <2>1, <2>2, SMT DEF isLegalCChar, isprint, Newline
    <2>4. b = extractRegexCharToBytes(u.val)
      BY <1>3, <2>1, BytesOfHex
    <2> HIDE DEF b
    <2>5. b = <<u.val>>
      BY <2>3, <2>4, SMT DEF extractRegexCharToBytes, bytes1
    <2> QED
      BY <1>1, <2>2, <2>5 DEF b
  <1>4. CASE u.u = "name"
    <2>1. fromName(u.name, char) # Null
      BY <1>4 DEF badEscape
    <2>2. PICK c \in namedCodes(char) : fromName(u.name, char) = <<c>>
      BY <2>1, NameIsOfACode
    <2>3. b = <<c>> /\ isLegalCChar(c)
      BY <1>4, <2>2 DEF stringBytes, namedCodes
    <2> QED
      BY <1>1, <2>3
  <1> QED
    BY <1>2, <1>3, <1>4 DEF isUnit

LEMMA CharStringIsLegal ==
    ASSUME NEW t, isText(t), NEW char \in BOOLEAN, char # FALSE, NEW multiline \in BOOLEAN,
           NEW err, isReadable(t, char, multiline, err)
    PROVE  LET s == FlattenSeq(stringPieces(t, char, multiline, err))
           IN  \A i \in 1 .. Len(s) : isLegalCChar(s[i])
  <1> DEFINE p == stringPieces(t, char, multiline, err)
             s == FlattenSeq(p)
             T == {c \in Bytes : isLegalCChar(c)}
  <1>1. p \in Seq(Seq(Bytes)) /\ Len(p) = Len(t)
    BY StringIsRead
  <1>2. DOMAIN t = 1 .. Len(t) /\ \A i \in 1 .. Len(t) : isUnit(t[i])
    BY TextUnits
  <1>3. ASSUME NEW i \in 1 .. Len(p), NEW k \in 1 .. Len(p[i])
        PROVE  p[i][k] \in T
    <2>1. i \in 1 .. Len(t) /\ ~badEscape(t[i], char, err)
      BY <1>1, <1>2 DEF isReadable, badEscapes
    <2>2. p[i] = IF i \in keptUnits(t, multiline) THEN stringBytes(t[i], char, err) ELSE <<>>
      BY <1>2, <2>1 DEF stringPieces
    <2>3. p[i] \in Seq(Bytes) /\ p[i][k] \in Bytes
      <3> HIDE DEF p
      <3>1. p[i] \in Seq(Bytes)
        BY <1>1
      <3> QED
        BY <3>1
    <2>4. CASE i \in keptUnits(t, multiline)
      <3>1. isRaw(t[i]) => isLegal(t[i].byte, char)
        BY <2>4 DEF isReadable
      <3>2. \A j \in 1 .. Len(stringBytes(t[i], char, err)) : isLegalCChar(stringBytes(t[i], char, err)[j])
        BY <1>2, <2>1, <3>1, CharBytesAreLegal
      <3> HIDE DEF p
      <3> QED
        BY <2>2, <2>3, <2>4, <3>2
    <2>5. CASE i \notin keptUnits(t, multiline)
      <3> HIDE DEF p
      <3>1. Len(p[i]) = 0
        BY <2>2, <2>5
      <3> QED
        BY <3>1
    <2> QED
      BY <2>4, <2>5
  <1> HIDE DEF p
  <1>4. s \in Seq(T)
    <2> HIDE DEF T
    <2> QED
      BY <1>1, <1>3, FlattenedElements
  <1> HIDE DEF s
  <1>5. \A i \in 1 .. Len(s) : isLegalCChar(s[i])
    BY <1>4
  <1> QED
    BY <1>5 DEF s, p

LEMMA StringsReadAreWhole == TextsInv => StringsAreWellFormed
  <1> SUFFICES ASSUME TextsInv, isRead({"string", "aligned"})
               PROVE  /\ validBytes(got.value, ischar)
                      /\ ischar => \A i \in DOMAIN got.value : isLegalCChar(got.value[i])
    BY DEF StringsAreWellFormed
  <1> DEFINE multiline == got.op = "aligned"
             s == got.value
             p == stringPieces(text, ischar, multiline, errno)
  <1>1. got.op \in {"string", "aligned"} /\ got # NothingRead /\ s # Null
    BY DEF isRead, NothingRead
  <1>2. s = unescapeString(text, ischar, multiline, errno) /\ s \in Seq(Bytes)
    BY <1>1, ReadValues
  <1>3. isText(text) /\ ischar \in BOOLEAN /\ multiline \in BOOLEAN
    BY DEF TextsInv
  <1> HIDE DEF multiline, s
  <1>4. isReadable(text, ischar, multiline, errno) /\ s = FlattenSeq(p)
    BY <1>1, <1>2, <1>3, StringIsRead
  <1>5. 0 \in whole(s)
    BY <1>3, <1>4, StringIsWhole
  <1>6. DOMAIN s = 1 .. Len(s)
    BY <1>2
  <1>7. CASE ischar = FALSE
    <2>1. validBytes(s, ischar)
      BY <1>2, <1>5, <1>7, ValidIsWhole
    <2> QED
      BY <1>7, <2>1 DEF s
  <1>8. CASE ischar = TRUE
    <2>1. \A i \in DOMAIN s : isLegalCChar(s[i])
      BY <1>3, <1>4, <1>6, <1>8, CharStringIsLegal
    <2>2. \A i \in DOMAIN s : isSingleByte(s[i])
      BY <2>1 DEF isLegalCChar, isprint, Newline, isSingleByte
    <2>3. validBytes(s, ischar)
      BY <1>8, <2>2 DEF validBytes
    <2> QED
      BY <2>1, <2>3 DEF s
  <1> QED
    BY <1>3, <1>7, <1>8

(* Strings that are read are whole characters, so the iterators can walk   *)
(* over them, and of legal ones where chars are: whatever mix of raw bytes, *)
(* numbers and names the text is, and whatever alignment leaves out of it. *)
THEOREM ReadStringsAreWellFormed == Spec => []StringsAreWellFormed
  BY StringsReadAreWhole, TextsStayTexts, PTL

-----------------------------------------------------------------------------
(* Reading codes from bytes. *)

\* A piece of one element and empty ones after it add that element.
LEMMA OneThenNothing ==
    ASSUME NEW S, NEW p \in Seq(Seq(S)), NEW k \in Nat, NEW c \in {1, 2, 3, 4}, k + c <= Len(p),
           \A j \in 2 .. c : p[k + j] = <<>>
    PROVE  gathered(p, k + c) = gathered(p, k) \o p[k + 1]
  <1> DEFINE g(i) == gathered(p, i)
  <1>1. \A i \in 1 .. Len(p) : g(i) = g(i - 1) \o p[i]
    BY Gathering
  <1>2. \A i \in 0 .. Len(p) : g(i) \in Seq(S)
    BY Gathering
  <1>3. Len(p) \in Nat
    OBVIOUS
  <1> HIDE DEF g
  <1>4. g(k + 1) = g(k) \o p[k + 1]
    <2>1. k + 1 \in 1 .. Len(p) /\ (k + 1) - 1 = k
      BY <1>3
    <2> QED
      BY <1>1, <2>1
  <1>5. ASSUME NEW j \in 2 .. c
        PROVE  g(k + j) = g(k + (j - 1))
    <2>1. k + j \in 1 .. Len(p) /\ (k + j) - 1 = k + (j - 1) /\ k + (j - 1) \in 0 .. Len(p)
      BY <1>3
    <2>2. g(k + j) = g(k + (j - 1)) \o <<>>
      BY <1>1, <2>1
    <2>3. g(k + (j - 1)) \in Seq(S)
      BY <1>2, <2>1
    <2> QED
      BY <2>2, <2>3, ConcatEmptySeq
  <1>6. c >= 2 => g(k + 2) = g(k + 1)
    <2> HAVE c >= 2
    <2>1. 2 \in 2 .. c /\ 2 - 1 = 1
      OBVIOUS
    <2> QED
      BY <1>5, <2>1
  <1>7. c >= 3 => g(k + 3) = g(k + 2)
    <2> HAVE c >= 3
    <2>1. 3 \in 2 .. c /\ 3 - 1 = 2
      OBVIOUS
    <2> QED
      BY <1>5, <2>1
  <1>8. c >= 4 => g(k + 4) = g(k + 3)
    <2> HAVE c >= 4
    <2>1. 4 \in 2 .. c /\ 4 - 1 = 3
      OBVIOUS
    <2> QED
      BY <1>5, <2>1
  <1>9. g(k + c) = g(k + 1)
    <2>1. CASE c = 1
      BY <2>1
    <2>2. CASE c = 2
      BY <1>6, <2>2
    <2>3. CASE c = 3
      BY <1>6, <1>7, <2>3
    <2>4. CASE c = 4
      BY <1>6, <1>7, <1>8, <2>4
    <2> QED
      BY <2>1, <2>2, <2>3, <2>4
  <1>10. g(k + c) = g(k) \o p[k + 1]
    BY <1>4, <1>9
  <1> QED
    BY <1>10 DEF g

LEMMA FirstByte ==
    ASSUME NEW b \in Bytes
    PROVE  /\ encodingByteCount(b) > 1 => ~isSingleByte(b) /\ ~isContinuationByte(b) /\ b >= 192
           /\ isSingleByte(b) => ~isContinuationByte(b)
  <1>1. b \in Nat
    BY BytesAreNumbers
  <1>2. b = 64 * (b \div 64) + (b % 64) /\ b % 64 < 64 /\ b % 64 \in Nat /\ b \div 64 \in Nat
    BY <1>1, Digit
  <1>3. b < 192 => b \div 16 < 12
    BY <1>1, SMT
  <1>4. encodingByteCount(b) > 1 => b >= 192
    BY <1>1, <1>3 DEF encodingByteCount
  <1>5. b >= 192 => b \div 64 >= 3
    BY <1>1, <1>2
  <1>6. b < 128 => b \div 64 < 2
    BY <1>1, <1>2
  <1> QED
    BY <1>1, <1>4, <1>5, <1>6 DEF isSingleByte, isContinuationByte

sameBytes(r, i, s, x, c) == x + c <= Len(s) /\ \A j \in 1 .. c : s[x + j] = r[i + j]

\* get reads the same from the same bytes, wherever they are.
LEMMA SameBytesSameCode ==
    ASSUME NEW r \in Seq(Bytes), NEW s \in Seq(Bytes), NEW i \in Nat, NEW x \in Nat, NEW c \in {1, 2, 3, 4},
           c = charCodeByteCount(r, i), i + c <= Len(r), sameBytes(r, i, s, x, c)
    PROVE  decode(r, i, Len(r) - 1) = decode(s, x, Len(s) - 1)
  <1>0. x + c <= Len(s) /\ \A j \in 1 .. c : s[x + j] = r[i + j]
    BY DEF sameBytes
  <1>1. byte(s, x) = byte(r, i)
    <2>1. 1 \in 1 .. c
      OBVIOUS
    <2> QED
      BY <1>0, <2>1 DEF byte
  <1>2. ASSUME NEW k \in 1 .. c - 1
        PROVE  payload(s, x, k) = payload(r, i, k)
    <2>1. k + 1 \in 1 .. c /\ x + (k + 1) = x + k + 1 /\ i + (k + 1) = i + k + 1
      OBVIOUS
    <2>2. s[x + (k + 1)] = r[i + (k + 1)]
      BY <1>0, <2>1
    <2> QED
      BY <2>1, <2>2 DEF payload, byte
  <1>3. Len(r) \in Nat /\ Len(s) \in Nat
    OBVIOUS
  <1>4. ~(i + c - 1 > Len(r) - 1) /\ ~(x + c - 1 > Len(s) - 1)
    BY <1>0, <1>3
  <1>5. encodingByteCount(byte(r, i)) = c
    BY DEF charCodeByteCount
  <1>6. c > 1 => payload(s, x, 1) = payload(r, i, 1)
    BY <1>2
  <1>7. c > 2 => payload(s, x, 2) = payload(r, i, 2)
    BY <1>2
  <1>8. c > 3 => payload(s, x, 3) = payload(r, i, 3)
    BY <1>2
  <1> DEFINE value(b, c1, p1, p2, p3) ==
                 IF isSingleByte(b) THEN b
                 ELSE IF c1 = 1 THEN b
                 ELSE IF c1 = 2 THEN (b % 32) * 64 + p1
                 ELSE IF c1 = 3 THEN (b % 16) * 4096 + p1 * 64 + p2
                 ELSE (b % 8) * 262144 + p1 * 4096 + p2 * 64 + p3
  <1>9. decode(r, i, Len(r) - 1) = value(byte(r, i), c, payload(r, i, 1), payload(r, i, 2), payload(r, i, 3))
    BY <1>4, <1>5, SMT DEF decode
  <1>10. decode(s, x, Len(s) - 1) = value(byte(s, x), c, payload(s, x, 1), payload(s, x, 2), payload(s, x, 3))
    BY <1>1, <1>4, <1>5, SMT DEF decode
  <1>11. CASE c = 1
    BY <1>1, <1>9, <1>10, <1>11, SMT
  <1>12. CASE c = 2
    BY <1>1, <1>6, <1>9, <1>10, <1>12, SMT
  <1>13. CASE c = 3
    BY <1>1, <1>6, <1>7, <1>9, <1>10, <1>13, SMT
  <1>14. CASE c = 4
    BY <1>1, <1>6, <1>7, <1>8, <1>9, <1>10, <1>14, SMT
  <1> QED
    BY <1>11, <1>12, <1>13, <1>14

\* The code points of a string, byte by byte.
codesAt(s) == [i \in DOMAIN s |-> IF isContinuationByte(s[i]) THEN <<>> ELSE <<decode(s, i - 1, Len(s) - 1)>>]

LEMMA CodePointsAreGathered ==
    ASSUME NEW s \in Seq(Bytes)
    PROVE  /\ codesAt(s) \in Seq(Seq(Numbers)) /\ Len(codesAt(s)) = Len(s)
           /\ codePoints(s) = FlattenSeq(codesAt(s))
           /\ \A i \in 1 .. Len(s) :
                 codesAt(s)[i] = IF isContinuationByte(s[i]) THEN <<>> ELSE <<decode(s, i - 1, Len(s) - 1)>>
  <1>1. DOMAIN s = 1 .. Len(s) /\ Len(s) \in Nat
    OBVIOUS
  <1>2. ASSUME NEW i \in 1 .. Len(s)
        PROVE  (IF isContinuationByte(s[i]) THEN <<>> ELSE <<decode(s, i - 1, Len(s) - 1)>>) \in Seq(Numbers)
    <2> DEFINE d == decode(s, i - 1, Len(s) - 1)
    <2>1. i - 1 \in Nat /\ i - 1 < Len(s)
      BY <1>1
    <2>2. d \in Numbers
      BY <2>1, DecodedFits
    <2> HIDE DEF d
    <2>3. <<d>> \in Seq(Numbers) /\ <<>> \in Seq(Numbers)
      BY <2>2
    <2> QED
      BY <2>3 DEF d
  <1>3. codesAt(s) = [i \in 1 .. Len(s) |->
                          IF isContinuationByte(s[i]) THEN <<>> ELSE <<decode(s, i - 1, Len(s) - 1)>>]
    BY <1>1 DEF codesAt
  <1>4. codesAt(s) \in [1 .. Len(s) -> Seq(Numbers)]
    BY <1>2, <1>3
  <1>5. codesAt(s) \in Seq(Seq(Numbers)) /\ Len(codesAt(s)) = Len(s)
    BY <1>1, <1>4
  <1>6. codePoints(s) = FlattenSeq(codesAt(s))
    BY DEF codePoints, codesAt
  <1> QED
    BY <1>3, <1>5, <1>6

LEMMA ReadsOn ==
    ASSUME NEW s \in Seq(Bytes), NEW x \in Nat, NEW c \in {1, 2, 3, 4}, x + c <= Len(s),
           ~isContinuationByte(s[x + 1]), \A j \in 1 .. c - 1 : isContinuationByte(s[x + j + 1])
    PROVE  gathered(codesAt(s), x + c) = gathered(codesAt(s), x) \o <<decode(s, x, Len(s) - 1)>>
  <1> DEFINE q == codesAt(s)
             d == decode(s, x, Len(s) - 1)
  <1>1. /\ q \in Seq(Seq(Numbers)) /\ Len(q) = Len(s)
        /\ \A i \in 1 .. Len(s) : q[i] = IF isContinuationByte(s[i]) THEN <<>> ELSE <<decode(s, i - 1, Len(s) - 1)>>
    BY CodePointsAreGathered
  <1>2. Len(s) \in Nat
    OBVIOUS
  <1> HIDE DEF q
  <1>3. q[x + 1] = <<d>>
    <2>1. x + 1 \in 1 .. Len(s) /\ (x + 1) - 1 = x
      BY <1>2
    <2> QED
      BY <1>1, <2>1
  <1>4. ASSUME NEW j \in 2 .. c
        PROVE  q[x + j] = <<>>
    <2>1. x + j \in 1 .. Len(s) /\ j - 1 \in 1 .. c - 1 /\ x + (j - 1) + 1 = x + j
      BY <1>2
    <2>2. isContinuationByte(s[x + j])
      BY <2>1
    <2> QED
      BY <1>1, <2>1, <2>2
  <1> HIDE DEF d
  <1>5. gathered(q, x + c) = gathered(q, x) \o <<d>>
    <2>1. x + c <= Len(q) /\ q \in Seq(Seq(Numbers))
      BY <1>1
    <2>2. \A j \in 2 .. c : q[x + j] = <<>>
      BY <1>4
    <2>3. gathered(q, x + c) = gathered(q, x) \o q[x + 1]
      BY <2>1, <2>2, OneThenNothing
    <2> QED
      BY <1>3, <2>1, <2>2, <2>3
  <1> QED
    BY <1>5 DEF q, d
\* An escape means the same in a literal as in a string.
LEMMA EscapeCode ==
    ASSUME NEW t, isText(t), NEW i \in 1 .. Len(t), t[i].u # "raw", NEW char \in BOOLEAN, NEW err,
           ~badEscape(t[i], char, err)
    PROVE  LET b == stringBytes(t[i], char, err)
           IN  \E c \in Numbers : /\ unitCodes(t, i, char, err) = <<c>>
                                  /\ writes(b, c) /\ b \in Seq(Bytes) /\ Len(b) \in {1, 2, 3, 4}
  <1> DEFINE u == t[i]
             b == stringBytes(t[i], char, err)
             codes == unitCodes(t, i, char, err)
  <1>1. isUnit(u)
    BY TextUnits
  <1>2. CASE u.u = "hex"
    <2>1. decodeHexEscape(u, char, err) # Null /\ u.val \in Nat /\ u.clean
      BY <1>1, <1>2 DEF badEscape, isUnit
    <2>2. decodeHexEscape(u, char, err) = <<u.val>> /\ (u.val \in CodePoints \/ isLegalCChar(u.val))
      BY <2>1, HexIsOfACode
    <2>3. u.val \in Numbers
      BY <2>1, <2>2, CodesFit
    <2>4. b = extractRegexCharToBytes(u.val)
      BY <1>2, <2>1, BytesOfHex
    <2>5. codes = <<u.val>>
      BY <1>2, <2>1, <2>2 DEF unitCodes, decodeHexEscapeAsRegex
    <2>6. writes(b, u.val) /\ b \in Seq(Bytes) /\ Len(b) \in 1 .. 4
      BY <2>3, <2>4, CodeBytes
    <2> HIDE DEF b, u, codes
    <2>7. Len(b) \in {1, 2, 3, 4}
      BY <2>6
    <2> QED
      BY <2>3, <2>5, <2>6, <2>7 DEF b, codes
  <1>3. CASE u.u = "name"
    <2>1. fromName(u.name, char) # Null
      BY <1>3 DEF badEscape
    <2>2. PICK c \in namedCodes(char) : fromName(u.name, char) = <<c>>
      BY <2>1, NameIsOfACode
    <2>3. b = <<c>> /\ codes = <<c>>
      BY <1>3, <2>2 DEF stringBytes, unitCodes
    <2>4. c \in Nat /\ c \in Bytes /\ c < 128
      BY DEF namedCodes, Bytes
    <2>5. c \in Numbers
      BY <2>4, CodesFit
    <2>6. writes(<<c>>, c)
      BY <2>4 DEF writes, bytes1
    <2>7. <<c>> \in Seq(Bytes) /\ Len(<<c>>) \in {1, 2, 3, 4}
      BY <2>4
    <2> QED
      BY <2>3, <2>5, <2>6, <2>7
  <1> QED
    BY <1>1, <1>2, <1>3 DEF isUnit

\* The code of what is written at x is read there, and nothing after it.
LEMMA WrittenIsRead ==
    ASSUME NEW s \in Seq(Bytes), NEW x \in Nat, NEW b \in Seq(Bytes), NEW c \in Numbers, writes(b, c),
           Len(b) \in {1, 2, 3, 4}, x + Len(b) <= Len(s), \A k \in 1 .. Len(b) : s[x + k] = b[k]
    PROVE  gathered(codesAt(s), x + Len(b)) = gathered(codesAt(s), x) \o <<c>>
  <1> DEFINE n == Len(b)
  <1>1. c \in Nat /\ Len(s) \in Nat /\ Len(s) - 1 \in Int
    BY DEF Numbers
  <1>2. writtenAt(s, x, b)
    BY DEF writtenAt
  <1>3. decode(s, x, Len(s) - 1) = c
    <2>1. x + Len(b) - 1 <= Len(s) - 1
      BY <1>1
    <2> QED
      BY <1>1, <1>2, <2>1, GetReadsWhatIsWritten
  <1>4. ~isContinuationByte(s[x + 1]) /\ \A j \in 1 .. Len(b) - 1 : isContinuationByte(s[x + j + 1])
    <2>1. CASE c < 128
      <3>1. Len(b) = 1 /\ byte(s, x) = c
        BY <1>1, <1>2, <2>1, WrittenSingle
      <3>2. c \in Bytes /\ isSingleByte(c)
        BY <1>1, <2>1 DEF Bytes, isSingleByte
      <3>3. ~isContinuationByte(c)
        BY <3>2, FirstByte
      <3> QED
        BY <3>1, <3>3 DEF byte
    <2>2. CASE 128 <= c
      <3>1. /\ b[1] \in Nat /\ starts(b[1], Len(b)) /\ byte(s, x) = b[1]
            /\ \A k \in 1 .. Len(b) - 1 : follows(b[k + 1]) /\ byte(s, x + k) = b[k + 1]
        BY <1>1, <1>2, <2>2, Written
      <3>2. ~isContinuationByte(b[1])
        BY <3>1, StartByte
      <3>3. \A k \in 1 .. Len(b) - 1 : isContinuationByte(b[k + 1])
        BY <3>1, FollowingByte
      <3> QED
        BY <3>1, <3>2, <3>3 DEF byte
    <2> QED
      BY <1>1, <2>1, <2>2
  <1> QED
    BY <1>3, <1>4, ReadsOn

LEMMA WholeLiteral ==
    ASSUME NEW t, isText(t), NEW char \in BOOLEAN
    PROVE  Raw(quoteOf(char)) \notin Range(t) => upToQuote(t, char) = t
  <1> SUFFICES ASSUME Raw(quoteOf(char)) \notin Range(t)
               PROVE  upToQuote(t, char) = t
    OBVIOUS
  <1>1. t \in Seq(Range(t)) /\ Len(t) \in Nat /\ DOMAIN t = 1 .. Len(t)
    BY TextUnits
  <1>2. PICK n \in 0 .. Len(t) : upToQuote(t, char) = SubSeq(t, 1, n) /\ (n = Len(t) \/ t[n + 1] = Raw(quoteOf(char)))
    BY RestOfText
  <1>3. n = Len(t)
    <2>1. ASSUME n # Len(t)
          PROVE  FALSE
      <3>1. n \in 0 .. Len(t) /\ t[n + 1] = Raw(quoteOf(char))
        BY <1>2, <2>1
      <3>2. n + 1 \in 1 .. Len(t)
        <4> DEFINE m == Len(t)
        <4>1. m \in Nat /\ n \in 0 .. m /\ n # m
          BY <1>1, <2>1, <3>1
        <4> HIDE DEF m
        <4>2. n + 1 \in 1 .. m
          BY <4>1
        <4> QED
          BY <4>2 DEF m
      <3> QED
        BY <1>1, <3>1, <3>2 DEF Range
    <2> QED
      BY <2>1
  <1> QED
    BY <1>1, <1>2, <1>3, SubSeqFull

LEMMA LiteralIsReadable ==
    ASSUME NEW t, isText(t), NEW char \in BOOLEAN, NEW err,
           \A i \in DOMAIN t : isRaw(t[i]) => allowedRaw(t[i].byte),
           validBytes(rawBytes(t), char), ~badEscapes(t, char, err)
    PROVE  isReadable(t, char, FALSE, err)
  <1>1. /\ DOMAIN t = 1 .. Len(t) /\ rawBytes(t) \in Seq(Bytes) /\ Len(rawBytes(t)) = Len(t)
        /\ \A i \in 1 .. Len(t) : rawBytes(t)[i] = IF isRaw(t[i]) THEN t[i].byte ELSE Percent
    BY TextUnits
  <1>2. char => \A i \in 1 .. Len(t) : isSingleByte(rawBytes(t)[i])
    BY <1>1, ValidBytesAreWhole
  <1>3. ASSUME NEW i \in 1 .. Len(t), isRaw(t[i])
        PROVE  isLegal(t[i].byte, char)
    <2>1. allowedRaw(t[i].byte) /\ rawBytes(t)[i] = t[i].byte
      BY <1>1, <1>3
    <2>2. t[i].byte \in Bytes
      BY <1>1, <2>1
    <2>3. t[i].byte \in Nat
      BY <2>2, BytesAreNumbers
    <2>4. CASE char
      <3>1. isSingleByte(t[i].byte)
        BY <1>2, <2>1, <2>4
      <3>2. isLegalCChar(t[i].byte)
        <4> DEFINE b == t[i].byte
        <4>1. b \in Nat /\ b < 128 /\ allowedRaw(b)
          BY <2>1, <2>3, <3>1 DEF isSingleByte
        <4> HIDE DEF b
        <4>2. ~(b > 127)
          BY <4>1
        <4>3. isprint(b) \/ b = 9 \/ b = 32
          BY <4>1, <4>2 DEF allowedRaw, isblank, Space
        <4>4. b = 32 => isprint(b)
          BY DEF isprint
        <4>5. isLegalCChar(b)
          BY <4>3, <4>4 DEF isLegalCChar
        <4> QED
          BY <4>5 DEF b
      <3> QED
        BY <2>4, <3>2 DEF isLegal
    <2>5. CASE ~char
      <3>1. isblank(t[i].byte) => isspace(t[i].byte)
        BY DEF isblank, isspace
      <3> QED
        BY <2>1, <2>5, <3>1 DEF allowedRaw, isLegal
    <2> QED
      BY <2>4, <2>5
  <1>4. \A i \in keptUnits(t, FALSE) : isRaw(t[i]) => isLegal(t[i].byte, char)
    BY <1>3, KeptUnits
  <1> QED
    BY <1>4 DEF isReadable
\* So does a single byte: one unit, one code.
LEMMA UnitCode ==
    ASSUME NEW t, isText(t), NEW i \in 1 .. Len(t), isSingleByte(rawBytes(t)[i]), NEW char \in BOOLEAN, NEW err,
           ~badEscape(t[i], char, err)
    PROVE  LET b == stringBytes(t[i], char, err)
           IN  \E c \in Numbers : /\ unitCodes(t, i, char, err) = <<c>>
                                  /\ writes(b, c) /\ b \in Seq(Bytes) /\ Len(b) \in {1, 2, 3, 4}
  <1>1. CASE t[i].u = "raw"
    <2> DEFINE b == rawBytes(t)[i]
               d == decode(rawBytes(t), i - 1, Len(t) - 1)
    <2>1. b = t[i].byte /\ b \in Bytes
      BY <1>1, TextUnits DEF isRaw
    <2>2. byte(rawBytes(t), i - 1) = b
      BY DEF byte
    <2>3. d = b
      BY <2>2 DEF decode
    <2>4. ~isOpen(t[i])
      BY <1>1 DEF badEscape
    <2> HIDE DEF b, d
    <2>5. b \in Nat /\ b < 128 /\ isSingleByte(b)
      BY <2>1, BytesAreNumbers DEF isSingleByte, b
    <2>6. ~isContinuationByte(b)
      BY <2>1, <2>5, FirstByte
    <2>7. unitCodes(t, i, char, err) = <<b>>
      BY <1>1, <2>1, <2>3, <2>4, <2>6 DEF unitCodes, d
    <2>8. stringBytes(t[i], char, err) = <<b>>
      BY <1>1, <2>1 DEF stringBytes
    <2>9. writes(<<b>>, b)
      BY <2>5 DEF writes, bytes1
    <2>10. b \in Numbers
      <3>1. b <= FourByteLast
        BY <2>5, SMT DEF FourByteLast
      <3> QED
        BY <2>5, <3>1, SMT DEF Numbers
    <2>11. <<b>> \in Seq(Bytes) /\ Len(<<b>>) \in {1, 2, 3, 4}
      BY <2>1
    <2> QED
      BY <2>7, <2>8, <2>9, <2>10, <2>11
  <1>2. CASE t[i].u # "raw"
    BY <1>2, EscapeCode
  <1> QED
    BY <1>1, <1>2

(* The code points of the string that a text between quotes stands for are *)
(* those of the literal: unit by unit, or character by character where the *)
(* bytes are raw, both have read the same.                                 *)
LEMMA LiteralIsItsString ==
    ASSUME NEW t, isText(t), NEW char \in BOOLEAN, NEW err, isReadable(t, char, FALSE, err)
    PROVE  codePoints(FlattenSeq(stringPieces(t, char, FALSE, err))) = FlattenSeq(literalPieces(t, char, err))
  <1> DEFINE p == stringPieces(t, char, FALSE, err)
             s == FlattenSeq(p)
             q == literalPieces(t, char, err)
             a == codesAt(s)
             r == rawBytes(t)
             n == Len(t)
             L(k) == Len(gathered(p, k))
             K == {k \in whole(r) : gathered(a, L(k)) = gathered(q, k)}
  <1>1. /\ n \in Nat /\ DOMAIN t = 1 .. n /\ (\A i \in 1 .. n : isUnit(t[i]))
        /\ r \in Seq(Bytes) /\ Len(r) = n
    BY TextUnits
  <1>2. p \in Seq(Seq(Bytes)) /\ Len(p) = n /\ s \in Seq(Bytes)
    BY StringIsRead, ZenonT(60)
  <1>3. q \in Seq(Seq(Numbers)) /\ Len(q) = n
    BY LiteralIsRead DEF isReadable
  <1>4. a \in Seq(Seq(Numbers)) /\ Len(a) = Len(s) /\ codePoints(s) = FlattenSeq(a) /\ Len(s) \in Nat
    BY <1>2, CodePointsAreGathered, LenProperties
  <1>5. \A i \in 1 .. n : /\ p[i] = stringBytes(t[i], char, err) /\ q[i] = unitCodes(t, i, char, err)
                          /\ ~badEscape(t[i], char, err)
    BY <1>1 DEF stringPieces, literalPieces, keptUnits, isReadable, badEscapes
  <1>6. 0 \in whole(r) /\ whole(r) \subseteq 0 .. n
    BY <1>1, ValidBytesAreWhole, WholeIsFixed DEF isReadable
  <1>7. /\ L(0) = 0 /\ Len(s) = L(n) /\ \A i \in 0 .. n : L(i) \in 0 .. Len(s)
    BY <1>2, FlattenedPositions
  <1>8. \A i \in 1 .. n : L(i) = L(i - 1) + Len(p[i]) /\ \A x \in 1 .. Len(p[i]) : s[L(i - 1) + x] = p[i][x]
    <2> HIDE DEF p, n
    <2>1. \A i \in 1 .. Len(p) : L(i) = L(i - 1) + Len(p[i]) /\ \A x \in 1 .. Len(p[i]) : s[L(i - 1) + x] = p[i][x]
      BY <1>2, FlattenedPositions
    <2> QED
      BY <1>2, <2>1
  <1> HIDE DEF p, s, q, a, r, n, L
  <1>9. FlattenSeq(a) = gathered(a, Len(a)) /\ FlattenSeq(q) = gathered(q, n)
    <2>1. Len(a) \in 0 .. Len(a) /\ Len(q) \in 0 .. Len(q)
      BY <1>1, <1>3, <1>4
    <2>2. FlattenSeq(a) = gathered(a, Len(a))
      BY <1>4, Gathering
    <2>3. FlattenSeq(q) = gathered(q, Len(q))
      BY <1>3, Gathering
    <2> QED
      BY <1>3, <2>2, <2>3
  <1>10. gathered(a, 0) = <<>> /\ gathered(q, 0) = <<>>
    BY <1>3, <1>4, Gathering
  <1>11. \A i \in 1 .. n : gathered(q, i) = gathered(q, i - 1) \o q[i]
    BY <1>3, Gathering
  <1>12. K \in SUBSET (0 .. n) /\ K # {}
    BY <1>6, <1>7, <1>10
  <1>13. PICK k \in K : \A m \in K : m <= k
    <2> HIDE DEF K
    <2> QED
      BY <1>1, <1>12, GreatestNumber
  <1>14. k \in whole(r) /\ gathered(a, L(k)) = gathered(q, k) /\ k \in 0 .. n
    BY <1>12
  <1>15. \A m \in whole(r) : m > k => gathered(a, L(m)) # gathered(q, m)
    <2> TAKE m \in whole(r)
    <2>1. m \in 0 .. n
      BY <1>6
    <2> HAVE m > k
    <2>2. m \notin K
      <3> HIDE DEF K
      <3> QED
        BY <1>1, <1>13, <1>14, <2>1
    <2> QED
      BY <2>2
  <1>16. L(k) \in Nat /\ L(k) <= Len(s)
    BY <1>4, <1>7, <1>14
  <1>17. CASE k = n
    BY <1>4, <1>7, <1>9, <1>14, <1>17 DEF s, q, p
  <1>18. CASE k < n /\ isSingleByte(byte(r, k)) /\ k + 1 \in whole(r)
    <2> DEFINE i == k + 1
    <2>1. i \in 1 .. n /\ i - 1 = k /\ i \in 0 .. n
      BY <1>1, <1>14, <1>18
    <2>2. isSingleByte(r[i])
      BY <1>18 DEF byte
    <2> HIDE DEF i
    <2>3. PICK c \in Numbers : q[i] = <<c>> /\ writes(p[i], c) /\ p[i] \in Seq(Bytes) /\ Len(p[i]) \in {1, 2, 3, 4}
      BY <1>5, <2>1, <2>2, UnitCode DEF n, r
    <2>4. L(i) = L(k) + Len(p[i]) /\ \A x \in 1 .. Len(p[i]) : s[L(k) + x] = p[i][x]
      BY <1>8, <2>1
    <2>5. L(k) + Len(p[i]) <= Len(s)
      <3>1. L(i) \in 0 .. Len(s)
        BY <1>7, <2>1
      <3> QED
        BY <1>4, <2>4, <3>1
    <2>6. gathered(a, L(k) + Len(p[i])) = gathered(a, L(k)) \o <<c>>
      BY <1>2, <1>16, <2>3, <2>4, <2>5, WrittenIsRead DEF a
    <2>7. gathered(q, i) = gathered(q, k) \o <<c>>
      BY <1>11, <2>1, <2>3
    <2>8. gathered(a, L(i)) = gathered(q, i)
      BY <1>14, <2>4, <2>6, <2>7
    <2>9. i \in whole(r) /\ i > k
      BY <1>14, <1>18 DEF i
    <2> QED
      BY <1>15, <2>8, <2>9
  <1>19. CASE /\ k < n /\ charCodeByteCount(r, k) > 1 /\ k + charCodeByteCount(r, k) <= n
              /\ \A j \in 1 .. charCodeByteCount(r, k) - 1 : isContinuationByte(byte(r, k + j))
              /\ k + charCodeByteCount(r, k) \in whole(r)
    <2> DEFINE c == charCodeByteCount(r, k)
               d == decode(r, k, Len(r) - 1)
    <2>1. c \in {2, 3, 4} /\ k \in Nat /\ k + c <= n /\ k + c \in whole(r)
      BY <1>14, <1>19, CountIsNumber
    <2>2. \A j \in 1 .. c - 1 : isContinuationByte(byte(r, k + j))
      BY <1>19
    <2>3. c = charCodeByteCount(r, k) /\ c = encodingByteCount(r[k + 1])
      BY DEF charCodeByteCount, byte
    <2> HIDE DEF c
    <2>4. /\ \A j \in 1 .. c : isRaw(t[k + j]) /\ t[k + j].byte = r[k + j] /\ r[k + j] >= 128
          /\ keeps(p, r, k, c)
      <3>1. longAt(rawBytes(t), k, c)
        BY <1>1, <2>1, <2>2, <2>3 DEF longAt, r
      <3>2. /\ \A j \in 1 .. c : isRaw(t[k + j]) /\ t[k + j].byte = rawBytes(t)[k + j] /\ rawBytes(t)[k + j] >= 128
            /\ keeps(stringPieces(t, char, FALSE, err), rawBytes(t), k, c)
        BY <2>1, <3>1, LongCharacterStays, ZenonT(60)
      <3> QED
        BY <3>2 DEF p, r
    <2>5. L(k + c) = L(k) + c /\ L(k) + c <= Len(s) /\ \A j \in 1 .. c : s[L(k) + j] = r[k + j]
      <3>1. c \in 0 .. c
        BY <2>1
      <3> QED
        BY <2>4, <3>1 DEF keeps, L, s
    <2>6. ~isContinuationByte(r[k + 1])
      <3>1. k + 1 \in 1 .. n
        BY <1>1, <2>1
      <3>2. r[k + 1] \in Bytes /\ c > 1
        BY <1>1, <2>1, <3>1
      <3> QED
        BY <2>3, <3>2, FirstByte
    <2>7. \A j \in 1 .. c - 1 : isContinuationByte(r[k + j + 1])
      BY <2>2 DEF byte
    <2>8. ASSUME NEW j \in 1 .. c
          PROVE  q[k + j] = IF isContinuationByte(r[k + j]) THEN <<>> ELSE <<decode(r, (k + j) - 1, n - 1)>>
      <3>1. k + j \in 1 .. n
        BY <1>1, <2>1
      <3>2. isRaw(t[k + j]) /\ t[k + j].byte = r[k + j] /\ ~isOpen(t[k + j])
        <4>1. isRaw(t[k + j]) /\ t[k + j].byte = r[k + j] /\ r[k + j] >= 128
          BY <2>4
        <4> QED
          BY <4>1 DEF isOpen, Percent
      <3>3. q[k + j] = unitCodes(t, k + j, char, err)
        BY <1>5, <3>1
      <3> QED
        BY <3>2, <3>3 DEF unitCodes, isRaw, r, n
    <2>9. q[k + 1] = <<d>>
      <3>1. 1 \in 1 .. c /\ (k + 1) - 1 = k
        BY <2>1
      <3> QED
        BY <1>1, <2>6, <2>8, <3>1
    <2>10. \A j \in 2 .. c : q[k + j] = <<>>
      <3> TAKE j \in 2 .. c
      <3>1. j \in 1 .. c /\ j - 1 \in 1 .. c - 1 /\ k + (j - 1) + 1 = k + j
        BY <2>1
      <3>2. isContinuationByte(r[k + j])
        BY <2>7, <3>1
      <3> QED
        BY <2>8, <3>1, <3>2
    <2>11. gathered(q, k + c) = gathered(q, k) \o <<d>>
      <3>1. c \in {1, 2, 3, 4} /\ k + c <= Len(q)
        BY <1>3, <2>1
      <3>2. gathered(q, k + c) = gathered(q, k) \o q[k + 1]
        BY <1>3, <2>1, <2>10, <3>1, OneThenNothing
      <3> QED
        BY <2>9, <3>2
    <2>12. \A j \in 1 .. c - 1 : isContinuationByte(s[L(k) + j + 1])
      <3> TAKE j \in 1 .. c - 1
      <3>1. j + 1 \in 1 .. c /\ L(k) + (j + 1) = L(k) + j + 1 /\ k + (j + 1) = k + j + 1
        BY <1>16, <2>1
      <3>2. s[L(k) + (j + 1)] = r[k + (j + 1)]
        BY <2>5, <3>1
      <3> QED
        BY <2>7, <3>1, <3>2
    <2>13. ~isContinuationByte(s[L(k) + 1])
      <3>1. 1 \in 1 .. c
        BY <2>1
      <3> QED
        BY <2>5, <2>6, <3>1
    <2>14. gathered(a, L(k) + c) = gathered(a, L(k)) \o <<decode(s, L(k), Len(s) - 1)>>
      <3>1. c \in {1, 2, 3, 4}
        BY <2>1
      <3> QED
        BY <1>2, <1>16, <2>5, <2>12, <2>13, <3>1, ReadsOn DEF a
    <2>15. decode(s, L(k), Len(s) - 1) = d
      <3> DEFINE x == L(k)
      <3>1. c \in {1, 2, 3, 4} /\ k + c <= Len(r)
        BY <1>1, <2>1
      <3>2. x \in Nat /\ x + c <= Len(s) /\ \A j \in 1 .. c : s[x + j] = r[k + j]
        BY <1>16, <2>5
      <3>5. sameBytes(r, k, s, x, c)
        BY <3>2 DEF sameBytes
      <3> HIDE DEF x
      <3>3. r \in Seq(Bytes) /\ s \in Seq(Bytes) /\ k \in Nat /\ c = charCodeByteCount(r, k)
        BY <1>1, <1>2, <2>1, <2>3
      <3>4. decode(r, k, Len(r) - 1) = decode(s, x, Len(s) - 1)
        BY <3>1, <3>2, <3>3, <3>5, SameBytesSameCode
      <3> QED
        BY <3>4 DEF x
    <2>16. gathered(a, L(k + c)) = gathered(q, k + c)
      BY <1>14, <2>5, <2>11, <2>14, <2>15
    <2>17. k + c > k
      BY <2>1
    <2> QED
      BY <1>15, <2>1, <2>16, <2>17
  <1>20. leads(k, whole(r), r)
    <2>1. k \in 0 .. Len(r)
      BY <1>1, <1>14
    <2> QED
      BY <1>14, <2>1, WholeIsFixed
  <1> QED
    BY <1>1, <1>17, <1>18, <1>19, <1>20 DEF leads, s, p, q

(* One unit, or one long character, is read alike in a range and alone in  *)
(* a literal.                                                              *)
refusedFirst(t, char, err) ==
    LET u == t[1]
        s == rawBytes(t)
        count == charCodeByteCount(s, 0)
    IN  CASE u.u = "hex" -> ~u.clean \/ (char /\ decodeHexEscapeAsRegex(u, char, err) = Null)
          [] u.u = "name" -> FALSE
          [] OTHER -> \/ ~allowedRaw(u.byte) \/ isOpen(u)
                      \/ u.byte > 127 /\ (char \/ count > Len(t) \/ ~validBytes(SubSeq(s, 1, count), FALSE))

LEMMA RangeValue ==
    ASSUME NEW t, NEW char, NEW err
    PROVE  readRangeChar(t, char, err).value = IF refusedFirst(t, char, err) THEN Null ELSE unitCodes(t, 1, char, err)
  <1> DEFINE codes == unitCodes(t, 1, char, err)
             bad == badEscape(t[1], char, err)
             refused == refusedFirst(t, char, err)
  <1>1. readRangeChar(t, char, err) = IF refused THEN [value |-> Null, reported |-> TRUE]
                                      ELSE [value |-> codes, reported |-> codes = Null /\ bad]
    BY DEF readRangeChar, refusedFirst
  <1> HIDE DEF codes, bad, refused
  <1>2. readRangeChar(t, char, err).value = IF refused THEN Null ELSE codes
    BY <1>1
  <1> QED
    BY <1>2 DEF codes, refused

LEMMA OneValidByte ==
    ASSUME NEW b \in Bytes, NEW char \in BOOLEAN
    PROVE  validBytes(<<b>>, char) <=> isSingleByte(b)
  <1> DEFINE s == <<b>>
  <1>1. s \in Seq(Bytes) /\ Len(s) = 1 /\ s[1] = b /\ DOMAIN s = {1}
    BY SMT
  <1>2. byte(s, 0) = b
    BY <1>1 DEF byte
  <1> HIDE DEF s
  <1>3. isSingleByte(b) => 0 \in whole(s)
    <2> HAVE isSingleByte(b)
    <2>1. \A i \in 1 .. Len(s) : isSingleByte(s[i])
      BY <1>1
    <2> QED
      BY <1>1, <2>1, SingleBytesAreWhole
  <1>4. 0 \in whole(s) => isSingleByte(b)
    <2> HAVE 0 \in whole(s)
    <2>1. leads(0, whole(s), s)
      BY <1>1, WholeIsFixed
    <2>2. charCodeByteCount(s, 0) \in {1, 2, 3, 4}
      BY CountIsNumber
    <2> QED
      BY <1>1, <1>2, <2>1, <2>2 DEF leads
  <1>5. validBytes(s, FALSE) <=> 0 \in whole(s)
    BY <1>1, ValidIsWhole
  <1>6. validBytes(s, TRUE) <=> isSingleByte(b)
    BY <1>1 DEF validBytes
  <1>7. CASE char = TRUE
    BY <1>6, <1>7 DEF s
  <1>8. CASE char = FALSE
    BY <1>3, <1>4, <1>5, <1>8 DEF s
  <1> QED
    BY <1>7, <1>8

\* What is left in a literal without a quote is all of it.
literalValue(t, char, err) ==
    IF /\ \A i \in DOMAIN t : isRaw(t[i]) => allowedRaw(t[i].byte)
       /\ validBytes(rawBytes(t), char) /\ ~badEscapes(t, char, err)
    THEN FlattenSeq(literalPieces(t, char, err)) ELSE Null

LEMMA LiteralWithoutQuote ==
    ASSUME NEW t, isText(t), NEW char \in BOOLEAN, NEW err, Raw(quoteOf(char)) \notin Range(t)
    PROVE  readLiteral(t, char, err).value = literalValue(t, char, err)
  <1> DEFINE v == readLiteral(t, char, err).value
             checked == /\ \A i \in DOMAIN t : isRaw(t[i]) => allowedRaw(t[i].byte)
                        /\ validBytes(rawBytes(t), char) /\ ~badEscapes(t, char, err)
             f == FlattenSeq(literalPieces(t, char, err))
  <1>1. upToQuote(t, char) = t
    BY WholeLiteral
  <1>2. /\ v # Null <=> checked
        /\ v # Null => v = f
    BY <1>1, LiteralValue
  <1> HIDE DEF v, checked, f
  <1>3. v = IF checked THEN f ELSE Null
    BY <1>2
  <1> QED
    BY <1>3 DEF v, checked, f, literalValue

LEMMA OneUnitAlike ==
    ASSUME NEW t, isText(t), Len(t) = 1, NEW char \in BOOLEAN, NEW err
    PROVE  readRangeChar(t, char, err).value = literalValue(t, char, err)
  <1> DEFINE u == t[1]
             codes == unitCodes(t, 1, char, err)
             refused == refusedFirst(t, char, err)
             checked == (isRaw(u) => allowedRaw(u.byte)) /\ validBytes(rawBytes(t), char) /\ ~badEscape(u, char, err)
             v == literalValue(t, char, err)
             b == rawBytes(t)[1]
  <1>1. /\ DOMAIN t = {1} /\ isUnit(u) /\ 1 \in 1 .. Len(t)
        /\ b \in Bytes /\ b = IF isRaw(u) THEN u.byte ELSE Percent
        /\ rawBytes(t) \in Seq(Bytes) /\ Len(rawBytes(t)) = 1
    <2>1. 1 \in 1 .. Len(t) /\ 1 .. Len(t) = {1}
      OBVIOUS
    <2> QED
      BY <2>1, TextUnits
  <1>2. literalPieces(t, char, err) = <<codes>>
    BY <1>1 DEF literalPieces
  <1>3. rawBytes(t) = <<b>>
    BY <1>1
  <1>4. codes = Null <=> badEscape(u, char, err)
    BY <1>1, RefusedUnitIsBad
  <1>5. codes # Null => FlattenSeq(<<codes>>) = codes
    <2> HAVE codes # Null
    <2>1. codes \in Seq(Numbers)
      BY <1>1, CodesOfUnit
    <2> HIDE DEF codes
    <2> QED
      BY <2>1, FlattenedOne
  <1>6. validBytes(rawBytes(t), char) <=> isSingleByte(b)
    BY <1>1, <1>3, OneValidByte
  <1>7. v = IF checked THEN FlattenSeq(<<codes>>) ELSE Null
    <2>1. badEscapes(t, char, err) <=> badEscape(u, char, err)
      BY <1>1 DEF badEscapes
    <2>2. (\A i \in DOMAIN t : isRaw(t[i]) => allowedRaw(t[i].byte)) <=> (isRaw(u) => allowedRaw(u.byte))
      BY <1>1
    <2> QED
      BY <1>2, <2>1, <2>2 DEF literalValue
  <1>8. refused => ~checked
    <2>1. CASE u.u = "hex"
      <3>1. refused => ~u.clean \/ decodeHexEscapeAsRegex(u, char, err) = Null
        BY <2>1 DEF refusedFirst
      <3>2. codes = decodeHexEscapeAsRegex(u, char, err)
        BY <2>1 DEF unitCodes
      <3>3. ~u.clean => badEscape(u, char, err)
        BY <2>1 DEF badEscape
      <3> QED
        BY <1>4, <3>1, <3>2, <3>3
    <2>2. CASE u.u = "name"
      BY <2>2 DEF refusedFirst
    <2>3. CASE u.u = "raw"
      <3>1. refused => ~allowedRaw(u.byte) \/ isOpen(u) \/ u.byte > 127
        BY <2>3 DEF refusedFirst
      <3>2. isOpen(u) => badEscape(u, char, err)
        BY <2>3 DEF badEscape
      <3>3. u.byte > 127 => ~isSingleByte(b)
        <4>1. b = u.byte /\ b \in Nat
          BY <1>1, <2>3, BytesAreNumbers DEF isRaw
        <4> HIDE DEF b
        <4> QED
          BY <4>1 DEF isSingleByte
      <3> QED
        BY <1>6, <2>3, <3>1, <3>2, <3>3 DEF isRaw
    <2> QED
      BY <1>1, <2>1, <2>2, <2>3 DEF isUnit
  <1>9. ~refused /\ codes # Null => checked
    <2> HAVE ~refused /\ codes # Null
    <2>1. CASE u.u # "raw"
      <3>1. b = 37
        BY <1>1, <2>1 DEF isRaw, Percent
      <3>2. isSingleByte(b)
        BY <3>1 DEF isSingleByte
      <3> QED
        BY <1>4, <1>6, <2>1, <3>2 DEF isRaw
    <2>2. CASE u.u = "raw"
      <3>1. b = u.byte /\ b \in Nat /\ b < 256
        BY <1>1, <2>2, BytesAreNumbers DEF isRaw
      <3>2. allowedRaw(u.byte)
        BY <2>2 DEF refusedFirst
      <3>3. ASSUME ~isSingleByte(b)
            PROVE  FALSE
        <4> DEFINE count == charCodeByteCount(rawBytes(t), 0)
        <4>1. u.byte > 127
          BY <3>1, <3>3 DEF isSingleByte
        <4>2. count \in {1, 2, 3, 4} /\ ~(count > Len(t)) /\ validBytes(SubSeq(rawBytes(t), 1, count), FALSE)
          BY <2>2, <4>1, CountIsNumber DEF refusedFirst
        <4> HIDE DEF count
        <4>3. count = 1
          BY <4>2
        <4>4. SubSeq(rawBytes(t), 1, 1) = rawBytes(t)
          <5>1. rawBytes(t) \in Seq(Bytes) /\ Len(rawBytes(t)) = 1
            BY <1>1
          <5> QED
            BY <5>1, SubSeqFull
        <4>5. validBytes(<<b>>, FALSE)
          BY <1>3, <4>2, <4>3, <4>4
        <4> QED
          BY <1>1, <3>3, <4>5, OneValidByte
      <3> QED
        BY <1>4, <1>6, <3>2, <3>3
    <2> QED
      BY <2>1, <2>2
  <1>10. checked => codes # Null
    BY <1>4
  <1>11. readRangeChar(t, char, err).value = IF refused THEN Null ELSE codes
    BY RangeValue
  <1> HIDE DEF codes, refused, checked, v
  <1>12. readRangeChar(t, char, err).value = v
    BY <1>5, <1>7, <1>8, <1>9, <1>10, <1>11
  <1> QED
    BY <1>12 DEF v

isLong(t) == Len(t) \in {2, 3, 4} /\ Len(t) = charCodeByteCount(rawBytes(t), 0) /\ ~isSingleByte(rawBytes(t)[1])

LEMMA LongCharacterAlike ==
    ASSUME NEW t, isText(t), NEW char \in BOOLEAN, NEW err, isLong(t)
    PROVE  readRangeChar(t, char, err).value = literalValue(t, char, err)
  <1> DEFINE u == t[1]
             s == rawBytes(t)
             c == Len(t)
             codes == unitCodes(t, 1, char, err)
             refused == refusedFirst(t, char, err)
             q == literalPieces(t, char, err)
  <1>0. c \in {2, 3, 4} /\ c = charCodeByteCount(s, 0) /\ ~isSingleByte(s[1])
    BY DEF isLong
  <1>1. /\ DOMAIN t = 1 .. c /\ c \in Nat /\ s \in Seq(Bytes) /\ Len(s) = c
        /\ 1 \in 1 .. c
    BY <1>0, TextUnits
  <1>2. isRaw(u) /\ u.byte >= 128 /\ u.byte = s[1]
    BY <1>0, <1>1, HighByteIsRaw
  <1>3. allowedRaw(u.byte) /\ ~isOpen(u)
    <2>1. u.byte \in Nat
      <3>1. s[1] \in Bytes
        BY <1>1
      <3> QED
        BY <1>2, <3>1, BytesAreNumbers
    <2> DEFINE b == u.byte
    <2>2. b \in Nat /\ b >= 128
      BY <1>2, <2>1
    <2> HIDE DEF b
    <2>3. b > 127 /\ b # 37
      BY <2>2
    <2> QED
      BY <2>3 DEF allowedRaw, isOpen, Percent, b
  <1>4. SubSeq(s, 1, c) = s
    BY <1>1, SubSeqFull
  <1>5. refused <=> char \/ ~validBytes(s, FALSE)
    <2>1. u.byte > 127
      <3>1. u.byte \in Nat
        <4>1. s[1] \in Bytes
          BY <1>1
        <4> QED
          BY <1>2, <4>1, BytesAreNumbers
      <3> QED
        BY <1>2, <3>1
    <2>2. charCodeByteCount(s, 0) = c /\ ~(c > c)
      BY <1>0
    <2> HIDE DEF c
    <2> QED
      BY <1>2, <1>3, <1>4, <2>1, <2>2 DEF refusedFirst, isRaw, c
  <1>6. readRangeChar(t, char, err).value = IF refused THEN Null ELSE codes
    BY RangeValue
  <1>7. CASE char
    <2>1. ~validBytes(s, char)
      <3>1. ASSUME validBytes(s, char)
            PROVE  FALSE
        <4>1. \A i \in 1 .. Len(s) : isSingleByte(s[i])
          BY <1>1, <1>7, <3>1, ValidBytesAreWhole
        <4> QED
          BY <1>0, <1>1, <4>1
      <3> QED
        BY <3>1
    <2>2. literalValue(t, char, err) = Null
      BY <2>1 DEF literalValue
    <2> QED
      BY <1>5, <1>6, <1>7, <2>2
  <1>8. CASE ~char
    <2>0. validBytes(s, char) <=> validBytes(s, FALSE)
      <3>1. char = FALSE
        BY <1>8
      <3> QED
        BY <3>1
    <2>1. CASE ~validBytes(s, FALSE)
      <3>1. literalValue(t, char, err) = Null
        BY <2>0, <2>1 DEF literalValue
      <3> QED
        BY <1>5, <1>6, <2>1, <3>1
    <2>2. CASE validBytes(s, FALSE)
      <3>1. 0 \in whole(s) /\ leads(0, whole(s), s)
        <4>1. 0 \in whole(s)
          BY <1>1, <2>2, ValidIsWhole
        <4>2. 0 \in 0 .. Len(s)
          BY <1>1
        <4> QED
          BY <4>1, <4>2, WholeIsFixed
      <3>2. \A j \in 1 .. c - 1 : isContinuationByte(s[j + 1])
        <4>1. byte(s, 0) = s[1] /\ 0 # Len(s)
          BY <1>0, <1>1 DEF byte
        <4>2. \A j \in 1 .. charCodeByteCount(s, 0) - 1 : isContinuationByte(byte(s, 0 + j))
          BY <1>0, <3>1, <4>1 DEF leads
        <4>3. \A j \in 1 .. c - 1 : byte(s, 0 + j) = s[j + 1]
          BY DEF byte
        <4> QED
          BY <1>0, <4>2, <4>3
      <3>3. ASSUME NEW i \in 1 .. c
            PROVE  isRaw(t[i]) /\ t[i].byte = s[i] /\ s[i] >= 128
        <4>1. ~isSingleByte(s[i]) \/ isContinuationByte(s[i])
          <5>1. CASE i = 1
            BY <1>0, <5>1
          <5>2. CASE i # 1
            <6>1. i - 1 \in 1 .. c - 1 /\ (i - 1) + 1 = i
              BY <1>1, <5>2
            <6> QED
              BY <3>2, <6>1
          <5> QED
            BY <5>1, <5>2
        <4> QED
          BY <4>1, HighByteIsRaw
      <3>4. ASSUME NEW i \in 1 .. c
            PROVE  allowedRaw(t[i].byte) /\ ~badEscape(t[i], char, err) /\ ~isOpen(t[i])
        <4> DEFINE b == t[i].byte
        <4>1. s[i] \in Bytes
          BY <1>1
        <4>2. b \in Nat /\ b >= 128 /\ isRaw(t[i])
          BY <3>3, <4>1, BytesAreNumbers
        <4> HIDE DEF b
        <4>3. b > 127 /\ b # 37
          BY <4>2
        <4>4. allowedRaw(b) /\ ~isOpen(t[i])
          BY <4>3 DEF allowedRaw, isOpen, Percent, b
        <4>5. ~badEscape(t[i], char, err)
          BY <4>2, <4>4 DEF badEscape, isRaw
        <4> QED
          BY <4>4, <4>5 DEF b
      <3>5. ~badEscapes(t, char, err)
        BY <1>1, <3>4 DEF badEscapes
      <3>6. literalValue(t, char, err) = FlattenSeq(q)
        <4>1. \A i \in DOMAIN t : allowedRaw(t[i].byte)
          BY <1>1, <3>4
        <4> QED
          BY <2>0, <2>2, <3>5, <4>1 DEF literalValue
      <3>7. q \in Seq(Seq(Numbers)) /\ Len(q) = c
        BY <3>5, LiteralIsRead
      <3>8. \A i \in 1 .. c : q[i] = unitCodes(t, i, char, err)
        BY <1>1 DEF literalPieces
      <3>9. \A j \in 2 .. c : q[0 + j] = <<>>
        <4> TAKE j \in 2 .. c
        <4>1. j \in 1 .. c /\ j - 1 \in 1 .. c - 1 /\ (j - 1) + 1 = j /\ 0 + j = j
          BY <1>1
        <4>2. isContinuationByte(s[j])
          BY <3>2, <4>1
        <4>3. t[j].u = "raw" /\ isContinuationByte(t[j].byte) /\ ~isOpen(t[j])
          BY <3>3, <3>4, <4>1, <4>2 DEF isRaw
        <4>4. unitCodes(t, j, char, err) = <<>>
          BY <4>3 DEF unitCodes
        <4> QED
          BY <3>8, <4>1, <4>4
      <3> HIDE DEF q
      <3>10. FlattenSeq(q) = q[1]
        <4> DEFINE k == 0
        <4>0. c \in {1, 2, 3, 4} /\ Len(q) = c
          BY <1>0, <3>7
        <4>1. k \in Nat /\ k + c <= Len(q) /\ (\A j \in 2 .. c : q[k + j] = <<>>)
          <5>1. 0 + c <= Len(q)
            BY <1>0, <3>7
          <5> QED
            BY <3>9, <5>1
        <4>2. k + 1 = 1 /\ k + c = Len(q)
          BY <1>1, <3>7
        <4>3. gathered(q, k) = <<>>
          BY <3>7, Gathering
        <4> HIDE DEF k
        <4>4. gathered(q, k + c) = gathered(q, k) \o q[k + 1]
          BY <3>7, <4>0, <4>1, OneThenNothing
        <4>5. FlattenSeq(q) = gathered(q, Len(q))
          BY <3>7, Gathering
        <4>6. q[1] \in Seq(Numbers)
          BY <1>1, <3>7
        <4>7. <<>> \o q[1] = q[1]
          BY <4>6, ConcatEmptySeq
        <4> QED
          BY <4>2, <4>3, <4>4, <4>5, <4>7
      <3>11. literalValue(t, char, err) = codes
        BY <1>1, <3>6, <3>8, <3>10
      <3> QED
        BY <1>5, <1>6, <1>8, <2>2, <3>11
    <2> QED
      BY <2>1, <2>2
  <1> QED
    BY <1>7, <1>8

(* The readers of ranges, of literals and of strings agree.                *)
THEOREM ReadersGiveOneMeaning == Spec => []ReadersAgree
  <1>1. TextsInv => ReadersAgree
    <2> SUFFICES ASSUME TextsInv
                 PROVE  literalMeansItsString /\ rangeAgreesWithLiteral
      BY DEF ReadersAgree
    <2> DEFINE noQuote == Raw(quoteOf(ischar)) \notin Range(text)
    <2>1. isText(text) /\ ischar \in BOOLEAN
      BY DEF TextsInv
    <2>2. literalMeansItsString
      <3> SUFFICES ASSUME isRead({"literal"}), noQuote
                   PROVE  LET s == unescapeString(text, ischar, FALSE, errno)
                          IN  s # Null /\ codePoints(s) = got.value
        BY DEF literalMeansItsString
      <3>1. got.op = "literal" /\ got.value # Null /\ got # NothingRead
        BY DEF isRead, NothingRead
      <3>2. got.value = readLiteral(text, ischar, errno).value
        BY <3>1, ReadValues
      <3>3. got.value = literalValue(text, ischar, errno)
        BY <2>1, <3>2, LiteralWithoutQuote
      <3>4. /\ \A i \in DOMAIN text : isRaw(text[i]) => allowedRaw(text[i].byte)
            /\ validBytes(rawBytes(text), ischar) /\ ~badEscapes(text, ischar, errno)
            /\ got.value = FlattenSeq(literalPieces(text, ischar, errno))
        BY <3>1, <3>3 DEF literalValue
      <3>5. isReadable(text, ischar, FALSE, errno)
        BY <2>1, <3>4, LiteralIsReadable
      <3>6. /\ unescapeString(text, ischar, FALSE, errno) = FlattenSeq(stringPieces(text, ischar, FALSE, errno))
            /\ unescapeString(text, ischar, FALSE, errno) \in Seq(Bytes)
        BY <2>1, <3>5, StringIsRead
      <3>7. codePoints(FlattenSeq(stringPieces(text, ischar, FALSE, errno))) = got.value
        BY <2>1, <3>4, <3>5, LiteralIsItsString
      <3> QED
        BY <3>6, <3>7, ReadIsNotNull
    <2>3. rangeAgreesWithLiteral
      <3> SUFFICES ASSUME got.op = "range", oneCharacter, noQuote
                   PROVE  got.value = readLiteral(text, ischar, errno).value
        BY DEF rangeAgreesWithLiteral
      <3>1. got # NothingRead
        BY DEF NothingRead
      <3>2. text # <<>> /\ got.value = readRangeChar(text, ischar, errno).value
        BY <3>1, ReadValues
      <3>3. readLiteral(text, ischar, errno).value = literalValue(text, ischar, errno)
        BY <2>1, LiteralWithoutQuote
      <3>4. readRangeChar(text, ischar, errno).value = literalValue(text, ischar, errno)
        <4>1. CASE Len(text) = 1
          BY <2>1, <4>1, OneUnitAlike
        <4>2. CASE Len(text) # 1
          <5>1. ~isSingleByte(rawBytes(text)[1]) /\ Len(text) = charCodeByteCount(rawBytes(text), 0)
            BY <4>2 DEF oneCharacter
          <5>2. Len(text) \in {2, 3, 4}
            <6>1. charCodeByteCount(rawBytes(text), 0) \in {1, 2, 3, 4}
              BY CountIsNumber
            <6> QED
              BY <4>2, <5>1, <6>1
          <5>3. isLong(text)
            BY <5>1, <5>2 DEF isLong
          <5> QED
            BY <2>1, <5>3, LongCharacterAlike
        <4> QED
          BY <4>1, <4>2
      <3> QED
        BY <3>2, <3>3, <3>4
    <2> QED
      BY <2>2, <2>3
  <1> QED
    BY <1>1, TextsStayTexts, PTL

-----------------------------------------------------------------------------
(* The tables of names, there and back. *)

wordEntries(char) ==
    IF char THEN {<<9, "t">>, <<10, "n">>, <<34, "quote">>, <<39, "tick">>, <<59, "semi">>}
    ELSE {<<c - 1, ControlNames[c]>> : c \in 1 .. 32}
         \cup {<<127, "DEL">>, <<34, "quote">>, <<39, "tick">>, <<59, "semicolon">>}
firstEntries(char) == wordEntries(char) \cup {<<quoteOf(char), "">>}
entriesOf(char) == firstEntries(char) \cup {SharedNames[i] : i \in 1 .. 31}

otherWords == {"DEL", "t", "n", "quote", "tick", "semi", "semicolon"}
controlWords == {"NUL", "SOH", "STX", "ETX", "EOT", "ENQ", "ACK", "a", "b", "t", "n", "v", "f", "r",
                 "SO", "SI", "DLE", "DC1", "DC2", "DC3", "DC4", "NAK", "SYN", "ETB", "CAN", "EM",
                 "SUB", "e", "FS", "GS", "RS", "US"}
sharedWords == {"space", "bang", "hash", "dollar", "%", "percent", "amp", "lparen", "rparen", "star",
                "plus", "comma", "dash", "dot", "slash", "colon", "langle", "equal", "rangle",
                "question", "at", "lbracket", "backslash", "rbracket", "caret", "underscore",
                "backtick", "lbrace", "pipe", "rbrace", "tilde"}

LEMMA WordsAreNotEmpty ==
    ASSUME NEW char \in BOOLEAN
    PROVE  /\ \A i \in 1 .. 31 : SharedNames[i][2] \in sharedWords
           /\ \A x \in wordEntries(char) : x[2] \in otherWords \cup controlWords
           /\ "" \notin sharedWords /\ "" \notin otherWords /\ "" \notin controlWords
  <1>1. \A i \in 1 .. 31 : SharedNames[i][2] \in sharedWords
    BY SMTT(30) DEF SharedNames, sharedWords
  <1>2. \A c \in 1 .. 32 : ControlNames[c] \in controlWords
    BY SMTT(30) DEF ControlNames, controlWords
  <1>3. \A x \in wordEntries(char) : x[2] \in otherWords \cup controlWords
    <2>1. CASE char = TRUE
      BY <2>1, SMTT(30) DEF wordEntries, otherWords
    <2>2. CASE char = FALSE
      BY <1>2, <2>2, SMTT(30) DEF wordEntries, otherWords
    <2> QED
      BY <2>1, <2>2
  <1>4. "" \notin sharedWords /\ "" \notin otherWords /\ "" \notin controlWords
    BY Zenon DEF sharedWords, otherWords, controlWords
  <1> QED
    BY <1>1, <1>3, <1>4

\* Only equal codes have equal names.
LEMMA OneCodeForAName ==
    ASSUME NEW char \in BOOLEAN, NEW d \in entriesOf(char), NEW e \in entriesOf(char), d[2] = e[2]
    PROVE  d[1] = e[1]
  <1> DEFINE T == wordEntries(char)
             S == {SharedNames[i] : i \in 1 .. 31}
             q == <<quoteOf(char), "">>
             alike(x, y) == x[2] = y[2] => x[1] = y[1]
  <1>1. \A x \in S : \A y \in S : alike(x, y)
    <2>1. \A i \in 1 .. 31 : \A j \in 1 .. 31 : alike(SharedNames[i], SharedNames[j])
      BY SMTT(30) DEF SharedNames
    <2> HIDE DEF alike
    <2> QED
      BY <2>1
  <1>2. \A x \in T : \A y \in S : x[2] # y[2]
    <2>1. \A i \in 1 .. 31 : SharedNames[i][2] \notin otherWords
      BY SMTT(30) DEF SharedNames, otherWords
    <2>2. \A i \in 1 .. 31 : SharedNames[i][2] \notin controlWords
      BY SMTT(30) DEF SharedNames, controlWords
    <2> QED
      BY <2>1, <2>2, WordsAreNotEmpty
  <1>3. \A x \in T : \A y \in T : alike(x, y)
    <2>1. CASE char = TRUE
      BY <2>1, SMTT(30) DEF wordEntries
    <2>2. CASE char = FALSE
      <3>1. \A c \in 1 .. 32 : \A b \in 1 .. 32 : ControlNames[b] = ControlNames[c] => b = c
        BY SMTT(30) DEF ControlNames
      <3> DEFINE W == {<<127, "DEL">>, <<34, "quote">>, <<39, "tick">>, <<59, "semicolon">>}
                 C == {<<c - 1, ControlNames[c]>> : c \in 1 .. 32}
      <3>2. \A x \in W : \A y \in W : alike(x, y)
        BY SMTT(30)
      <3>3. \A x \in C : \A y \in C : alike(x, y)
        BY <3>1
      <3>4. \A x \in W : \A y \in C : x[2] # y[2]
        <4>1. \A c \in 1 .. 32 : /\ ControlNames[c] # "DEL" /\ ControlNames[c] # "quote"
                                 /\ ControlNames[c] # "tick" /\ ControlNames[c] # "semicolon"
          BY SMTT(30) DEF ControlNames
        <4> QED
          BY <4>1
      <3>5. T = C \cup W
        BY <2>2 DEF wordEntries
      <3> HIDE DEF T, C, W
      <3> QED
        BY <3>2, <3>3, <3>4, <3>5
    <2> QED
      BY <2>1, <2>2
  <1>4. \A x \in T \cup S : x[2] # ""
    BY WordsAreNotEmpty
  <1>5. q[2] = ""
    OBVIOUS
  <1>6. (d \in T \/ d \in S \/ d = q) /\ (e \in T \/ e \in S \/ e = q)
    BY DEF entriesOf, firstEntries
  <1> HIDE DEF T, S, q
  <1> QED
    BY <1>1, <1>2, <1>3, <1>4, <1>5, <1>6

LEMMA ConcatRange ==
    ASSUME NEW S, NEW a \in Seq(S), NEW b \in Seq(S)
    PROVE  /\ a \o b \in Seq(S)
           /\ \A i \in DOMAIN (a \o b) : (a \o b)[i] \in Range(a) \cup Range(b)
           /\ \A e \in Range(a) \cup Range(b) : \E i \in DOMAIN (a \o b) : (a \o b)[i] = e
  <1> DEFINE c == a \o b
  <1>1. /\ c \in Seq(S) /\ Len(c) = Len(a) + Len(b) /\ Len(a) \in Nat /\ Len(b) \in Nat
        /\ DOMAIN a = 1 .. Len(a) /\ DOMAIN b = 1 .. Len(b)
    BY ConcatProperties, LenProperties
  <1>2. \A i \in 1 .. Len(a) + Len(b) : c[i] = IF i <= Len(a) THEN a[i] ELSE b[i - Len(a)]
    BY ConcatProperties
  <1> HIDE DEF c
  <1>3. DOMAIN c = 1 .. Len(a) + Len(b)
    BY <1>1
  <1>4. ASSUME NEW i \in DOMAIN c
        PROVE  c[i] \in Range(a) \cup Range(b)
    <2>1. CASE i <= Len(a)
      <3>1. i \in DOMAIN a /\ c[i] = a[i]
        BY <1>1, <1>2, <1>3, <2>1
      <3> QED
        BY <3>1 DEF Range
    <2>2. CASE ~(i <= Len(a))
      <3>1. i - Len(a) \in DOMAIN b /\ c[i] = b[i - Len(a)]
        BY <1>1, <1>2, <1>3, <2>2
      <3> QED
        BY <3>1 DEF Range
    <2> QED
      BY <2>1, <2>2
  <1>5. ASSUME NEW e \in Range(a)
        PROVE  \E i \in DOMAIN c : c[i] = e
    <2>1. PICK i \in DOMAIN a : e = a[i]
      BY DEF Range
    <2>2. i \in DOMAIN c /\ c[i] = a[i]
      BY <1>1, <1>2, <1>3
    <2> QED
      BY <2>1, <2>2
  <1>6. ASSUME NEW e \in Range(b)
        PROVE  \E i \in DOMAIN c : c[i] = e
    <2>1. PICK i \in DOMAIN b : e = b[i]
      BY DEF Range
    <2>2. Len(a) + i \in DOMAIN c /\ ~(Len(a) + i <= Len(a)) /\ Len(a) + i - Len(a) = i
      BY <1>1, <1>3
    <2>3. c[Len(a) + i] = b[i]
      BY <1>2, <1>3, <2>2
    <2> QED
      BY <2>1, <2>2, <2>3
  <1> QED
    BY <1>1, <1>4, <1>5, <1>6 DEF c

\* A tuple or a function over 1 .. n is a sequence of what it holds.
LEMMA ItsOwnSeq ==
    ASSUME NEW n \in Nat, NEW f, f = [i \in 1 .. n |-> f[i]], NEW E, Range(f) \subseteq E
    PROVE  f \in Seq(E)
  <1>1. DOMAIN f = 1 .. n
    OBVIOUS
  <1>2. \A i \in 1 .. n : f[i] \in E
    BY <1>1 DEF Range
  <1>3. [i \in 1 .. n |-> f[i]] \in [1 .. n -> E]
    BY <1>2
  <1> QED
    BY <1>3

LEMMA TablesAreTheirEntries ==
    ASSUME NEW char \in BOOLEAN
    PROVE  /\ DOMAIN namesOf(char) \in SUBSET Nat
           /\ \A i \in DOMAIN namesOf(char) : namesOf(char)[i] \in entriesOf(char)
           /\ \A e \in entriesOf(char) : \E i \in DOMAIN namesOf(char) : namesOf(char)[i] = e
  <1> DEFINE E == entriesOf(char)
             shared == {SharedNames[i] : i \in 1 .. 31}
  <1>1. SharedNames \in Seq(E) /\ Range(SharedNames) = shared
    <2>1. SharedNames = [i \in 1 .. 31 |-> SharedNames[i]]
      BY SharedTable
    <2>2. DOMAIN SharedNames = 1 .. 31
      BY <2>1
    <2>3. Range(SharedNames) = shared
      BY <2>2 DEF Range
    <2>4. shared \subseteq E
      BY DEF entriesOf
    <2> HIDE DEF E, shared
    <2> QED
      BY <2>1, <2>3, <2>4, ItsOwnSeq
  <1>2. ASSUME NEW first \in Seq(E), Range(first) = firstEntries(char), namesOf(char) = first \o SharedNames
        PROVE  /\ DOMAIN namesOf(char) \in SUBSET Nat
               /\ \A i \in DOMAIN namesOf(char) : namesOf(char)[i] \in E
               /\ \A e \in E : \E i \in DOMAIN namesOf(char) : namesOf(char)[i] = e
    <2>1. E = Range(first) \cup Range(SharedNames)
      BY <1>1, <1>2 DEF entriesOf
    <2> HIDE DEF E
    <2>2. LET c == first \o SharedNames
          IN  /\ c \in Seq(E)
              /\ \A i \in DOMAIN c : c[i] \in Range(first) \cup Range(SharedNames)
              /\ \A e \in Range(first) \cup Range(SharedNames) : \E i \in DOMAIN c : c[i] = e
      <3> DEFINE b == SharedNames
      <3>1. first \in Seq(E) /\ b \in Seq(E)
        BY <1>1, <1>2
      <3> HIDE DEF b
      <3>2. /\ first \o b \in Seq(E)
            /\ \A i \in DOMAIN (first \o b) : (first \o b)[i] \in Range(first) \cup Range(b)
            /\ \A e \in Range(first) \cup Range(b) : \E i \in DOMAIN (first \o b) : (first \o b)[i] = e
        BY <3>1, ConcatRange
      <3> QED
        BY <3>2 DEF b
    <2>3. namesOf(char) \in Seq(E)
      BY <1>2, <2>2
    <2>4. DOMAIN namesOf(char) = 1 .. Len(namesOf(char)) /\ Len(namesOf(char)) \in Nat
      BY <2>3, LenProperties
    <2> QED
      BY <1>2, <2>1, <2>2, <2>4
  <1>3. CASE char = TRUE
    <2> DEFINE first == <<<<9, "t">>, <<10, "n">>, <<34, "quote">>, <<39, "">>, <<39, "tick">>, <<59, "semi">>>>
    <2>1. namesOf(char) = first \o SharedNames
      BY <1>3 DEF namesOf, charNames
    <2>2. first = [i \in 1 .. 6 |-> first[i]] /\ DOMAIN first = {1, 2, 3, 4, 5, 6}
      OBVIOUS
    <2>3. Range(first) = firstEntries(char)
      <3>1. /\ first[1] = <<9, "t">> /\ first[2] = <<10, "n">> /\ first[3] = <<34, "quote">>
            /\ first[4] = <<39, "">> /\ first[5] = <<39, "tick">> /\ first[6] = <<59, "semi">>
        OBVIOUS
      <3>2. quoteOf(char) = 39
        BY <1>3 DEF quoteOf
      <3> HIDE DEF first
      <3>3. Range(first) = {first[1], first[2], first[3], first[4], first[5], first[6]}
        BY <2>2 DEF Range
      <3>4. wordEntries(char) = {first[1], first[2], first[3], first[5], first[6]}
        BY <1>3, <3>1 DEF wordEntries
      <3>5. first[4] = <<quoteOf(char), "">>
        BY <3>1, <3>2
      <3> QED
        BY <3>3, <3>4, <3>5 DEF firstEntries
    <2>4. Range(first) \subseteq E
      BY <2>3 DEF entriesOf
    <2> HIDE DEF first, E
    <2>5. first \in Seq(E)
      BY <2>2, <2>4, ItsOwnSeq
    <2> QED
      BY <1>2, <2>1, <2>3, <2>5 DEF E
  <1>4. CASE char = FALSE
    <2> DEFINE control == [c \in 1 .. 32 |-> <<c - 1, ControlNames[c]>>]
               others == <<<<127, "DEL">>, <<34, "">>, <<34, "quote">>, <<39, "tick">>, <<59, "semicolon">>>>
               first == control \o others
    <2>1. namesOf(char) = first \o SharedNames
      BY <1>4 DEF namesOf, unicodeNames
    <2>2. others = [i \in 1 .. 5 |-> others[i]] /\ DOMAIN others = {1, 2, 3, 4, 5}
      OBVIOUS
    <2>3. control = [i \in 1 .. 32 |-> control[i]] /\ DOMAIN control = 1 .. 32
      OBVIOUS
    <2>4. /\ others[2] = <<quoteOf(char), "">>
          /\ Range(others) = {<<127, "DEL">>, <<34, "quote">>, <<39, "tick">>, <<59, "semicolon">>} \cup {others[2]}
      <3>1. /\ others[1] = <<127, "DEL">> /\ others[2] = <<34, "">> /\ others[3] = <<34, "quote">>
            /\ others[4] = <<39, "tick">> /\ others[5] = <<59, "semicolon">>
        OBVIOUS
      <3>2. quoteOf(char) = 34
        BY <1>4 DEF quoteOf
      <3> HIDE DEF others
      <3>3. Range(others) = {others[1], others[2], others[3], others[4], others[5]}
        BY <2>2 DEF Range
      <3>4. {<<127, "DEL">>, <<34, "quote">>, <<39, "tick">>, <<59, "semicolon">>}
                = {others[1], others[3], others[4], others[5]}
        BY <3>1
      <3> QED
        BY <3>1, <3>2, <3>3, <3>4
    <2>5. Range(control) = {<<c - 1, ControlNames[c]>> : c \in 1 .. 32}
      BY <2>3 DEF Range
    <2>6. firstEntries(char) = Range(control) \cup Range(others)
      BY <1>4, <2>4, <2>5 DEF firstEntries, wordEntries
    <2>7. firstEntries(char) \subseteq E
      BY DEF entriesOf
    <2> HIDE DEF control, others, E
    <2>8. control \in Seq(E) /\ others \in Seq(E)
      BY <2>2, <2>3, <2>6, <2>7, ItsOwnSeq
    <2>9. /\ first \in Seq(E)
          /\ \A i \in DOMAIN first : first[i] \in Range(control) \cup Range(others)
          /\ \A e \in Range(control) \cup Range(others) : \E i \in DOMAIN first : first[i] = e
      BY <2>8, ConcatRange
    <2> HIDE DEF first
    <2>10. Range(first) = firstEntries(char)
      BY <2>6, <2>9 DEF Range
    <2> QED
      BY <1>2, <2>1, <2>9, <2>10 DEF E
  <1> QED
    BY <1>3, <1>4

\* The name a code is written with is read as that code.
LEMMA NamesAreReadBack ==
    ASSUME NEW char \in BOOLEAN, NEW e \in entriesOf(char)
    PROVE  \E name : fromCode(e[1], char) = Name(name) /\ fromName(name, char) = <<e[1]>>
  <1> DEFINE names == namesOf(char)
             c == e[1]
             coded == {i \in DOMAIN names : names[i][1] = c}
             m == Min(coded)
             name == names[m][2]
             named == {i \in DOMAIN names : names[i][2] = name}
             k == Min(named)
  <1>1. /\ DOMAIN names \in SUBSET Nat
        /\ \A i \in DOMAIN names : names[i] \in entriesOf(char)
        /\ \A d \in entriesOf(char) : \E i \in DOMAIN names : names[i] = d
    BY TablesAreTheirEntries
  <1> HIDE DEF names
  <1>2. coded # {} /\ coded \in SUBSET Nat
    BY <1>1
  <1>3. m \in coded
    <2> HIDE DEF coded
    <2> QED
      BY <1>2, MinIsLeast
  <1>4. fromCode(c, char) = Name(name)
    BY <1>2 DEF fromCode, names
  <1>5. m \in DOMAIN names /\ names[m][1] = c
    BY <1>3
  <1> HIDE DEF m, name
  <1>6. named # {} /\ named \in SUBSET Nat
    BY <1>1, <1>5 DEF name
  <1>7. k \in named
    <2> HIDE DEF named
    <2> QED
      BY <1>6, MinIsLeast
  <1>8. k \in DOMAIN names /\ names[k][2] = name
    BY <1>7
  <1>9. fromName(name, char) = <<names[k][1]>>
    BY <1>6 DEF fromName, names
  <1> HIDE DEF k
  <1>10. names[k][1] = names[m][1]
    BY <1>1, <1>5, <1>8, OneCodeForAName DEF name
  <1> QED
    BY <1>4, <1>5, <1>9, <1>10

(* The codes the writers give by their names. *)
namedInTable(c, char) ==
    IF char THEN c \in {9, 10, 37, 39, 47, 91, 92, 93}
    ELSE c \in 0 .. 31 \/ c \in {34, 37, 47, 91, 92, 93, 127}

LEMMA NamedCodesAreReadBack ==
    ASSUME NEW char \in BOOLEAN, NEW c \in Int, namedInTable(c, char)
    PROVE  \E name : fromCode(c, char) = Name(name) /\ fromName(name, char) = <<c>>
  <1>1. \A d \in {37, 47, 91, 92, 93} : \E i \in 1 .. 31 : SharedNames[i][1] = d
    <2>1. SharedNames[5][1] = 37 /\ SharedNames[15][1] = 47 /\ SharedNames[22][1] = 91
      BY DEF SharedNames
    <2>2. SharedNames[23][1] = 92 /\ SharedNames[24][1] = 93
      BY DEF SharedNames
    <2> QED
      BY <2>1, <2>2
  <1>2. c \in {37, 47, 91, 92, 93} => \E e \in entriesOf(char) : e[1] = c
    BY <1>1 DEF entriesOf
  <1>3. ~char /\ c \in 0 .. 31 => \E e \in entriesOf(char) : e[1] = c
    <2> HAVE ~char /\ c \in 0 .. 31
    <2>1. c + 1 \in 1 .. 32 /\ (c + 1) - 1 = c
      OBVIOUS
    <2>2. <<(c + 1) - 1, ControlNames[c + 1]>> \in entriesOf(char)
      BY <2>1 DEF entriesOf, firstEntries, wordEntries
    <2> QED
      BY <2>1, <2>2
  <1> DEFINE named(d) == \E e \in entriesOf(char) : e[1] = d
  <1>4. ASSUME NEW d, NEW name, <<d, name>> \in entriesOf(char) PROVE named(d)
    <2>1. <<d, name>>[1] = d
      OBVIOUS
    <2> QED
      BY <1>4, <2>1
  <1>5. c \in {37, 47, 91, 92, 93} => named(c)
    BY <1>2
  <1>6. ~char /\ c \in 0 .. 31 => named(c)
    BY <1>3
  <1> HIDE DEF named
  <1>7. char /\ c \in {9, 10, 39} => named(c)
    <2>1. char => <<9, "t">> \in entriesOf(char) /\ <<10, "n">> \in entriesOf(char) /\ <<39, "">> \in entriesOf(char)
      BY DEF entriesOf, firstEntries, wordEntries, quoteOf
    <2>2. char => named(9) /\ named(10) /\ named(39)
      BY <1>4, <2>1
    <2> QED
      BY <2>2
  <1>8. ~char /\ c \in {34, 127} => named(c)
    <2>1. ~char => <<34, "">> \in entriesOf(char) /\ <<127, "DEL">> \in entriesOf(char)
      BY DEF entriesOf, firstEntries, wordEntries, quoteOf
    <2>2. ~char => named(34) /\ named(127)
      BY <1>4, <2>1
    <2> QED
      BY <2>2
  <1>9. named(c)
    BY <1>5, <1>6, <1>7, <1>8 DEF namedInTable
  <1> QED
    BY <1>9, NamesAreReadBack DEF named

-----------------------------------------------------------------------------
(* Strings as they are escaped, read back. *)

\* Sequences of one element each are put together in order.
LEMMA FlattenedSingles ==
    ASSUME NEW S, NEW v \in Seq(S), NEW p \in Seq(Seq(S)), Len(p) = Len(v),
           \A i \in 1 .. Len(v) : p[i] = <<v[i]>>
    PROVE  FlattenSeq(p) = v
  <1> DEFINE L(i) == Len(gathered(p, i))
             f == FlattenSeq(p)
             n == Len(v)
             Bad == {i \in 0 .. n : L(i) # i}
  <1>1. n \in Nat /\ Len(p) = n /\ n \in 0 .. n
    OBVIOUS
  <1>2. f \in Seq(S)
    BY <1>1, Gathering
  <1>3. L(0) = 0 /\ Len(f) = L(n)
    BY <1>1, FlattenedPositions
  <1>4. \A i \in 1 .. n : L(i) = L(i - 1) + Len(p[i]) /\ \A x \in 1 .. Len(p[i]) : f[L(i - 1) + x] = p[i][x]
    <2>1. \A i \in 1 .. Len(p) : L(i) = L(i - 1) + Len(p[i]) /\ \A x \in 1 .. Len(p[i]) : f[L(i - 1) + x] = p[i][x]
      BY FlattenedPositions
    <2> HIDE DEF L, f, n
    <2> QED
      BY <1>1, <2>1
  <1> HIDE DEF L, f
  <1>5. ASSUME NEW i \in 1 .. n
        PROVE  L(i) = L(i - 1) + 1 /\ f[L(i - 1) + 1] = v[i]
    <2>1. p[i] = <<v[i]>>
      OBVIOUS
    <2>2. Len(p[i]) = 1 /\ p[i][1] = v[i]
      BY <2>1
    <2>3. 1 \in 1 .. Len(p[i])
      BY <2>2
    <2> QED
      BY <1>4, <2>2, <2>3
  <1>6. ASSUME Bad # {}
        PROVE  FALSE
    <2>1. Bad \in SUBSET Nat
      BY <1>1
    <2>2. PICK i \in Bad : \A b \in Bad : i <= b
      <3> HIDE DEF Bad
      <3> QED
        BY <1>6, <2>1, LeastNumber
    <2>3. i \in 0 .. n /\ L(i) # i
      BY <2>2
    <2>4. i \in 1 .. n /\ i - 1 \in 0 .. n /\ i - 1 < i
      BY <1>1, <1>3, <2>3
    <2>5. i - 1 \notin Bad
      <3> HIDE DEF Bad
      <3> QED
        BY <2>2, <2>4
    <2>6. L(i - 1) = i - 1
      BY <2>4, <2>5
    <2> QED
      BY <1>5, <2>3, <2>4, <2>6
  <1>7. \A i \in 0 .. n : L(i) = i
    BY <1>6
  <1>8. Len(f) = n
    BY <1>1, <1>3, <1>7
  <1>9. ASSUME NEW i \in 1 .. n
        PROVE  f[i] = v[i]
    <2>1. i - 1 \in 0 .. n /\ (i - 1) + 1 = i
      BY <1>1
    <2> QED
      BY <1>5, <1>7, <2>1
  <1>10. f = v
    BY <1>2, <1>8, <1>9, SeqEqual
  <1> QED
    BY <1>10 DEF f

\* A byte of a string is written as itself, or by a name that stands for it.
LEMMA EscapedUnits ==
    ASSUME NEW s \in Seq(Bytes), NEW char \in BOOLEAN, char => \A i \in 1 .. Len(s) : isLegalCChar(s[i]),
           NEW i \in 1 .. Len(s)
    PROVE  LET u == escapeString(s, char)[i]
           IN  \/ s[i] < 128 /\ \E name : u = Name(name) /\ fromName(name, char) = <<s[i]>>
               \/ u = Raw(s[i]) /\ s[i] # Percent /\ s[i] # quoteOf(char) /\ (s[i] > 127 \/ isprint(s[i]))
  <1> DEFINE b == s[i]
             u == escapeString(s, char)[i]
  <1>1. b \in Nat /\ b < 256 /\ (char => isLegalCChar(b))
    <2>1. b \in Bytes
      OBVIOUS
    <2> QED
      BY <2>1, BytesAreNumbers
  <1>2. u = IF b \in {Percent, quoteOf(char)} \/ (b <= 127 /\ ~isprint(b)) THEN fromCode(b, char) ELSE Raw(b)
    BY DEF escapeString
  <1> HIDE DEF b, u
  <1>3. CASE b \in {Percent, quoteOf(char)} \/ (b <= 127 /\ ~isprint(b))
    <2>1. CASE char = TRUE
      <3>1. b \in {9, 10, 37, 39}
        BY <1>1, <1>3, <2>1 DEF Percent, quoteOf, isLegalCChar, Newline
      <3>2. b < 128 /\ namedInTable(b, char)
        BY <2>1, <3>1 DEF namedInTable
      <3> QED
        BY <1>1, <1>2, <1>3, <3>2, NamedCodesAreReadBack DEF b, u
    <2>2. CASE char = FALSE
      <3>1. b \in {34, 37} \/ (b <= 127 /\ ~isprint(b))
        BY <1>3, <2>2 DEF Percent, quoteOf
      <3>2. b \in {34, 37, 127} \/ b \in 0 .. 31
        BY <1>1, <3>1 DEF isprint
      <3>3. b < 128
        BY <1>1, <3>2
      <3>4. namedInTable(b, char)
        <4>1. ~char
          BY <2>2
        <4> QED
          BY <3>2, <4>1, SMT DEF namedInTable
      <3> QED
        BY <1>1, <1>2, <1>3, <3>3, <3>4, NamedCodesAreReadBack DEF b, u
    <2> QED
      BY <2>1, <2>2
  <1>4. CASE ~(b \in {Percent, quoteOf(char)} \/ (b <= 127 /\ ~isprint(b)))
    <2>1. b > 127 \/ isprint(b)
      BY <1>1, <1>4
    <2> QED
      BY <1>2, <1>4, <2>1 DEF b, u
  <1> QED
    BY <1>3, <1>4

\* What is not ASCII stays, so valid bytes stay valid.
LEMMA StaysValid ==
    ASSUME NEW v \in Seq(Bytes), NEW r \in Seq(Bytes), Len(r) = Len(v), NEW char \in BOOLEAN, validBytes(v, char),
           \A i \in 1 .. Len(v) : r[i] = v[i] \/ (isSingleByte(v[i]) /\ isSingleByte(r[i]))
    PROVE  validBytes(r, char)
  <1>1. Len(v) \in Nat /\ DOMAIN r = 1 .. Len(v)
    OBVIOUS
  <1>2. 0 \in whole(v) /\ (char => \A i \in 1 .. Len(v) : isSingleByte(v[i]))
    BY ValidBytesAreWhole
  <1>3. CASE char = TRUE
    <2>1. \A i \in DOMAIN r : isSingleByte(r[i])
      BY <1>1, <1>2, <1>3
    <2> QED
      BY <1>3, <2>1 DEF validBytes
  <1>4. CASE char = FALSE
    <2>1. whole(v) \subseteq 0 .. Len(v) /\ \A i \in whole(v) : leads(i, whole(v), v)
      BY WholeIsFixed
    <2>2. ASSUME NEW i \in whole(v)
          PROVE  leads(i, whole(v), r)
      <3>1. i \in 0 .. Len(v) /\ leads(i, whole(v), v)
        BY <2>1
      <3>2. CASE i = Len(v)
        BY <3>2 DEF leads
      <3>3. CASE i < Len(v) /\ isSingleByte(byte(v, i)) /\ i + 1 \in whole(v)
        <4>1. i + 1 \in 1 .. Len(v)
          BY <1>1, <3>1, <3>3
        <4>2. isSingleByte(byte(r, i))
          BY <3>3, <4>1 DEF byte
        <4> QED
          BY <3>3, <4>2 DEF leads
      <3>4. CASE /\ i < Len(v) /\ charCodeByteCount(v, i) > 1 /\ i + charCodeByteCount(v, i) <= Len(v)
                 /\ \A k \in 1 .. charCodeByteCount(v, i) - 1 : isContinuationByte(byte(v, i + k))
                 /\ i + charCodeByteCount(v, i) \in whole(v)
        <4> DEFINE c == charCodeByteCount(v, i)
        <4>1. i + 1 \in 1 .. Len(v) /\ c \in {2, 3, 4} /\ i + c <= Len(v)
          BY <1>1, <3>1, <3>4, CountIsNumber
        <4>2. ~isSingleByte(v[i + 1])
          <5>1. v[i + 1] \in Bytes /\ c = encodingByteCount(v[i + 1])
            BY <4>1 DEF charCodeByteCount, byte
          <5> HIDE DEF c
          <5> QED
            BY <4>1, <5>1, FirstByte
        <4>3. charCodeByteCount(r, i) = c
          BY <4>1, <4>2 DEF charCodeByteCount, byte
        <4> HIDE DEF c
        <4>4. ASSUME NEW k \in 1 .. c - 1
              PROVE  isContinuationByte(byte(r, i + k))
          <5>1. i + k + 1 \in 1 .. Len(v)
            BY <1>1, <3>1, <4>1
          <5>2. isContinuationByte(v[i + k + 1])
            BY <3>4 DEF byte, c
          <5>3. v[i + k + 1] \in Bytes
            BY <5>1
          <5>4. ~isSingleByte(v[i + k + 1])
            BY <5>2, <5>3, FirstByte
          <5> QED
            BY <5>1, <5>2, <5>4 DEF byte
        <4>5. i + c \in whole(v)
          BY <3>4 DEF c
        <4> QED
          BY <3>4, <4>1, <4>3, <4>4, <4>5 DEF leads
      <3> QED
        BY <3>1, <3>2, <3>3, <3>4 DEF leads
    <2>3. whole(v) \in SUBSET (0 .. Len(r))
      BY <2>1
    <2>4. 0 \in whole(r)
      BY <1>2, <2>2, <2>3, WholeIsFixed
    <2> QED
      BY <1>4, <2>4, ValidIsWhole
  <1> QED
    BY <1>3, <1>4

LEMMA StringsAreReadBack ==
    ASSUME NEW v \in Seq(Bytes), NEW char \in BOOLEAN, char => \A i \in 1 .. Len(v) : isLegalCChar(v[i]),
           validBytes(v, char), NEW multiline \in BOOLEAN, NEW err
    PROVE  unescapeString(escapeString(v, char), char, multiline, err) = v
  <1> DEFINE t == escapeString(v, char)
             r == rawBytes(t)
             n == Len(v)
             p == stringPieces(t, char, multiline, err)
             named(i) == v[i] < 128 /\ \E name : t[i] = Name(name) /\ fromName(name, char) = <<v[i]>>
             plain(i) == t[i] = Raw(v[i]) /\ v[i] # Percent /\ v[i] # quoteOf(char) /\ (v[i] > 127 \/ isprint(v[i]))
  <1>1. isText(t) /\ Len(t) = n /\ n \in Nat
    BY StringsAreTexts
  <1>2. \A i \in 1 .. n : named(i) \/ plain(i)
    BY EscapedUnits
  <1> HIDE DEF t
  <1>3. /\ DOMAIN t = 1 .. n /\ r \in Seq(Bytes) /\ Len(r) = n
        /\ \A i \in 1 .. n : r[i] = IF isRaw(t[i]) THEN t[i].byte ELSE Percent
    BY <1>1, TextUnits
  <1> HIDE DEF named, plain, r
  <1>4. ASSUME NEW i \in 1 .. n
        PROVE  /\ r[i] = v[i] \/ (isSingleByte(v[i]) /\ isSingleByte(r[i]))
               /\ ~badEscape(t[i], char, err)
               /\ isRaw(t[i]) => isLegal(t[i].byte, char)
               /\ ~isNewline(t[i])
               /\ stringBytes(t[i], char, err) = <<v[i]>>
    <2>0. v[i] \in Nat
      <3>1. v[i] \in Bytes
        OBVIOUS
      <3> QED
        BY <3>1, BytesAreNumbers
    <2>1. CASE named(i)
      <3>1. PICK name : t[i] = Name(name) /\ fromName(name, char) = <<v[i]>> /\ v[i] < 128
        BY <2>1 DEF named
      <3>2. t[i].u = "name" /\ t[i].name = name
        BY <3>1 DEF Name
      <3>3. <<v[i]>> # Null
        BY <2>0 DEF Null
      <3>4. ~badEscape(t[i], char, err)
        BY <3>1, <3>2, <3>3 DEF badEscape
      <3>5. stringBytes(t[i], char, err) = <<v[i]>>
        BY <3>1, <3>2 DEF stringBytes
      <3>6. ~isRaw(t[i]) /\ ~isNewline(t[i])
        BY <3>2 DEF isRaw, isNewline
      <3>7. isSingleByte(v[i]) /\ isSingleByte(r[i])
        BY <1>3, <3>1, <3>6 DEF isSingleByte, Percent
      <3> QED
        BY <3>4, <3>5, <3>6, <3>7
    <2>2. CASE plain(i)
      <3> DEFINE b == v[i]
      <3>1. t[i] = Raw(b) /\ b # Percent /\ (b > 127 \/ isprint(b)) /\ b \in Nat
        BY <2>0, <2>2 DEF plain
      <3>2. char => isLegalCChar(b)
        OBVIOUS
      <3> HIDE DEF b
      <3>3. t[i].u = "raw" /\ t[i].byte = b
        BY <3>1 DEF Raw
      <3>4. ~badEscape(t[i], char, err)
        BY <3>1, <3>3 DEF badEscape, isOpen
      <3>5. stringBytes(t[i], char, err) = <<b>>
        BY <3>3 DEF stringBytes
      <3>6. isLegal(b, char)
        BY <3>1, <3>2 DEF isLegal
      <3>7. b # 10
        BY <3>1 DEF isprint
      <3>8. ~isNewline(t[i])
        BY <3>3, <3>7 DEF isNewline, Newline
      <3>9. r[i] = b
        BY <1>3, <3>3 DEF isRaw
      <3> QED
        BY <3>3, <3>4, <3>5, <3>6, <3>8, <3>9 DEF b
    <2> QED
      BY <1>2, <2>1, <2>2
  <1>5. validBytes(r, char)
    BY <1>3, <1>4, StaysValid
  <1>6. ~badEscapes(t, char, err)
    BY <1>3, <1>4 DEF badEscapes
  <1>7. keptUnits(t, multiline) = 1 .. n
    <2>1. {j \in DOMAIN t : isNewline(t[j])} = {}
      BY <1>3, <1>4
    <2>2. UNION {i + 1 .. i + msScanCount(t, i) : i \in {j \in DOMAIN t : isNewline(t[j])}} = {}
      BY <2>1
    <2> QED
      BY <1>3, <2>2 DEF keptUnits
  <1>8. isReadable(t, char, multiline, err)
    BY <1>4, <1>5, <1>6, <1>7 DEF isReadable, r
  <1>9. p \in Seq(Seq(Bytes)) /\ Len(p) = Len(t) /\ unescapeString(t, char, multiline, err) = FlattenSeq(p)
    BY <1>1, <1>8, StringIsRead
  <1>10. \A i \in 1 .. n : p[i] = <<v[i]>>
    BY <1>3, <1>4, <1>7 DEF stringPieces
  <1> HIDE DEF p
  <1>11. FlattenSeq(p) = v
    BY <1>1, <1>9, <1>10, FlattenedSingles
  <1> QED
    BY <1>9, <1>11 DEF t

-----------------------------------------------------------------------------
(* Literals and ranges as they are escaped. *)

(* The units of a code: a name that stands for it, or its bytes. *)
isNamed(u, c, char) == c < 128 /\ \E name : u = <<Name(name)>> /\ fromName(name, char) = <<c>>
isSpelled(u, c, char) ==
    LET b == extractRegexCharToBytes(c)
    IN  /\ u \in Seq(unitsFor(char)) /\ Len(u) = Len(b) /\ \A k \in 1 .. Len(b) : u[k] = Raw(b[k])
        /\ c \notin {Percent, quoteOf(char)} /\ (c > 127 \/ isprint(c))

LEMMA CodeIsWritten ==
    ASSUME NEW c \in Numbers, NEW char \in BOOLEAN, NEW inRange \in BOOLEAN, char => isLegalCChar(c)
    PROVE  LET u == codeUnits(c, char, inRange)
           IN  isNamed(u, c, char) \/ isSpelled(u, c, char)
  <1> DEFINE u == codeUnits(c, char, inRange)
             b == extractRegexCharToBytes(c)
             special == c \in {Percent, quoteOf(char), Slash, Backslash} \cup (IF inRange THEN Brackets ELSE {})
                        \/ (c <= 127 /\ ~isprint(c))
  <1>1. c \in Nat /\ c \in Int
    BY DEF Numbers
  <1>2. u \in Seq(unitsFor(char)) /\ b \in Seq(Bytes)
    BY CodeUnits, CodeBytes
  <1>3. u = IF special THEN <<fromCode(c, char)>> ELSE [k \in DOMAIN b |-> Raw(b[k])]
    BY DEF codeUnits
  <1> HIDE DEF u, b
  <1>4. CASE special
    <2>1. c \in {34, 37, 39, 47, 91, 92, 93} \/ (c <= 127 /\ ~isprint(c))
      BY <1>4 DEF Percent, quoteOf, Slash, Backslash, Brackets
    <2>2. c < 128
      BY <1>1, <2>1
    <2>3. namedInTable(c, char)
      <3>1. CASE char
        <4>1. isLegalCChar(c) /\ (c \in {37, 39, 47, 91, 92, 93} \/ (c <= 127 /\ ~isprint(c)))
          BY <1>4, <3>1 DEF Percent, quoteOf, Slash, Backslash, Brackets
        <4>2. c \in {9, 10, 37, 39, 47, 91, 92, 93}
          BY <4>1 DEF isLegalCChar, Newline
        <4> QED
          BY <3>1, <4>2 DEF namedInTable
      <3>2. CASE ~char
        <4>1. c \in {34, 37, 47, 91, 92, 93} \/ (c <= 127 /\ ~isprint(c))
          BY <1>4, <3>2 DEF Percent, quoteOf, Slash, Backslash, Brackets
        <4>2. c \in 0 .. 31 \/ c \in {34, 37, 47, 91, 92, 93, 127}
          BY <1>1, <4>1 DEF isprint
        <4> QED
          BY <3>2, <4>2, SMT DEF namedInTable
      <3> QED
        BY <3>1, <3>2
    <2>4. \E name : fromCode(c, char) = Name(name) /\ fromName(name, char) = <<c>>
      BY <1>1, <2>3, NamedCodesAreReadBack
    <2>5. u = <<fromCode(c, char)>>
      BY <1>3, <1>4
    <2> QED
      BY <2>2, <2>4, <2>5 DEF isNamed, u
  <1>5. CASE ~special
    <2>1. u = [k \in 1 .. Len(b) |-> Raw(b[k])] /\ Len(b) \in Nat
      BY <1>2, <1>3, <1>5
    <2>2. Len(u) = Len(b) /\ \A k \in 1 .. Len(b) : u[k] = Raw(b[k])
      BY <2>1
    <2>3. c \notin {Percent, quoteOf(char)} /\ (c > 127 \/ isprint(c))
      <3>1. c \notin {Percent, quoteOf(char)} /\ ~(c <= 127 /\ ~isprint(c))
        BY <1>5
      <3> QED
        BY <1>1, <3>1
    <2> QED
      BY <1>2, <2>2, <2>3 DEF isSpelled, u, b
  <1> QED
    BY <1>4, <1>5

(* A unit that is no quote and is read. *)
isWrittenUnit(u, char) ==
    \/ \E name : u = Name(name) /\ fromName(name, char) # Null
    \/ /\ u.u = "raw" /\ u.byte \in Nat /\ u.byte \notin {Percent, quoteOf(char)}
       /\ u.byte > 127 \/ isprint(u.byte)
       /\ char => u.byte < 128

\* The bytes of a code above ASCII are above it too.
LEMMA BytesAboveAscii ==
    ASSUME NEW c \in Numbers, c > 127
    PROVE  LET b == extractRegexCharToBytes(c)
           IN  /\ Len(b) \in {2, 3, 4} /\ b[1] \in Nat /\ starts(b[1], Len(b)) /\ b[1] >= 128
               /\ \A k \in 2 .. Len(b) : follows(b[k])
               /\ \A k \in 1 .. Len(b) : b[k] \in Nat /\ b[k] >= 128
  <1> DEFINE b == extractRegexCharToBytes(c)
  <1>1. b \in Seq(Bytes) /\ writes(b, c) /\ c \in Nat
    BY CodeBytes DEF Numbers
  <1> HIDE DEF b
  <1>2. writtenAt(b, 0, b) /\ 128 <= c
    BY <1>1 DEF writtenAt
  <1>3. /\ Len(b) \in {2, 3, 4} /\ b[1] \in Nat /\ starts(b[1], Len(b))
        /\ \A k \in 1 .. Len(b) - 1 : follows(b[k + 1])
    BY <1>1, <1>2, Written
  <1>4. b[1] >= 128
    BY <1>3 DEF starts
  <1>5. ASSUME NEW k \in 2 .. Len(b)
        PROVE  follows(b[k])
    <2>1. k - 1 \in 1 .. Len(b) - 1 /\ (k - 1) + 1 = k
      BY <1>3
    <2>2. follows(b[(k - 1) + 1])
      BY <1>3, <2>1
    <2> QED
      BY <2>1, <2>2
  <1>6. ASSUME NEW k \in 1 .. Len(b)
        PROVE  b[k] \in Nat /\ b[k] >= 128
    <2>1. CASE k = 1
      BY <1>3, <1>4, <2>1
    <2>2. CASE k # 1
      <3>1. k \in 2 .. Len(b)
        BY <1>3, <2>2
      <3>2. follows(b[k])
        BY <1>5, <3>1
      <3> QED
        BY <3>2 DEF follows
    <2> QED
      BY <2>1, <2>2
  <1> QED
    BY <1>3, <1>4, <1>5, <1>6 DEF b

LEMMA AsciiIsItsByte ==
    ASSUME NEW c \in Numbers, ~(c > 127)
    PROVE  extractRegexCharToBytes(c) = <<c>> /\ c \in Nat /\ c < 128 /\ c \in Bytes
  <1>1. c \in Nat
    BY DEF Numbers
  <1>2. c <= 127 /\ c < 128
    BY <1>1
  <1>3. extractRegexCharToBytes(c) = <<c>>
    BY <1>2 DEF extractRegexCharToBytes, bytes1
  <1>4. c \in Bytes
    BY <1>1, <1>2 DEF Bytes
  <1> QED
    BY <1>1, <1>2, <1>3, <1>4

LEMMA WrittenUnits ==
    ASSUME NEW c \in Numbers, NEW char \in BOOLEAN, NEW inRange \in BOOLEAN, char => isLegalCChar(c),
           NEW k \in 1 .. Len(codeUnits(c, char, inRange))
    PROVE  isWrittenUnit(codeUnits(c, char, inRange)[k], char)
  <1> DEFINE u == codeUnits(c, char, inRange)
             b == extractRegexCharToBytes(c)
  <1>1. isNamed(u, c, char) \/ isSpelled(u, c, char)
    BY CodeIsWritten
  <1>2. c \in Nat
    BY DEF Numbers
  <1>0. k \in 1 .. Len(u)
    OBVIOUS
  <1> HIDE DEF u
  <1>3. CASE isNamed(u, c, char)
    <2>1. PICK name : u = <<Name(name)>> /\ fromName(name, char) = <<c>>
      BY <1>3 DEF isNamed
    <2>2. k = 1 /\ u[k] = Name(name)
      BY <1>0, <2>1
    <2>3. <<c>> # Null
      BY <1>2 DEF Null
    <2> QED
      BY <2>1, <2>2, <2>3 DEF isWrittenUnit, u
  <1>4. CASE isSpelled(u, c, char)
    <2>1. /\ k \in 1 .. Len(b) /\ u[k] = Raw(b[k])
          /\ c \notin {Percent, quoteOf(char)} /\ (c > 127 \/ isprint(c))
      BY <1>0, <1>4 DEF isSpelled
    <2>2. u[k].u = "raw" /\ u[k].byte = b[k]
      BY <2>1 DEF Raw
    <2>3. CASE c > 127
      <3>1. b[k] \in Nat /\ b[k] >= 128
        BY <2>1, <2>3, BytesAboveAscii
      <3>2. ~char
        <4>1. ~isLegalCChar(c)
          BY <1>2, <2>3 DEF isLegalCChar, isprint, Newline
        <4> QED
          BY <4>1
      <3> HIDE DEF b
      <3>3. b[k] \notin {Percent, quoteOf(char)} /\ b[k] > 127
        BY <3>1 DEF Percent, quoteOf
      <3> QED
        BY <2>2, <3>1, <3>2, <3>3 DEF isWrittenUnit, u
    <2>4. CASE ~(c > 127)
      <3>1. b = <<c>> /\ c < 128
        BY <2>4, AsciiIsItsByte
      <3> HIDE DEF b
      <3>2. k = 1 /\ b[k] = c
        BY <2>1, <3>1
      <3> QED
        BY <1>2, <2>1, <2>2, <3>1, <3>2 DEF isWrittenUnit, u
    <2> QED
      BY <2>3, <2>4
  <1> QED
    BY <1>1, <1>3, <1>4

\* So a text of them is read, but for its bytes, and has no raw quote.
LEMMA WrittenText ==
    ASSUME NEW v \in Seq(Numbers), NEW char \in BOOLEAN, NEW inRange \in BOOLEAN,
           char => \A i \in 1 .. Len(v) : isLegalCChar(v[i]), NEW err
    PROVE  LET t == escapeCodes(v, char, inRange)
           IN  /\ isText(t)
               /\ \A i \in 1 .. Len(t) : isWrittenUnit(t[i], char)
               /\ \A i \in DOMAIN t : isRaw(t[i]) => allowedRaw(t[i].byte)
               /\ ~badEscapes(t, char, err)
               /\ Raw(quoteOf(char)) \notin Range(t)
               /\ char => validBytes(rawBytes(t), char)
  <1> DEFINE t == escapeCodes(v, char, inRange)
             p == codePieces(v, char, inRange)
             T == {u \in unitsFor(char) : isWrittenUnit(u, char)}
  <1>1. p \in Seq(Seq(unitsFor(char))) /\ Len(p) = Len(v) /\ t = FlattenSeq(p) /\ isText(t)
    BY CodesAreTexts
  <1>2. \A i \in 1 .. Len(v) : p[i] = codeUnits(v[i], char, inRange)
    BY DEF codePieces
  <1> HIDE DEF p, t
  <1>3. ASSUME NEW i \in 1 .. Len(p), NEW k \in 1 .. Len(p[i])
        PROVE  p[i][k] \in T
    <2>1. i \in 1 .. Len(v) /\ p[i] = codeUnits(v[i], char, inRange)
      BY <1>1, <1>2
    <2>2. v[i] \in Numbers /\ (char => isLegalCChar(v[i]))
      BY <2>1
    <2>3. isWrittenUnit(p[i][k], char)
      BY <2>1, <2>2, WrittenUnits
    <2>4. p[i] \in Seq(unitsFor(char))
      BY <1>1
    <2>5. p[i][k] \in unitsFor(char)
      BY <2>4
    <2> QED
      BY <2>3, <2>5
  <1>4. t \in Seq(T)
    <2> HIDE DEF T
    <2> QED
      BY <1>1, <1>3, FlattenedElements
  <1>5. /\ DOMAIN t = 1 .. Len(t) /\ rawBytes(t) \in Seq(Bytes) /\ Len(rawBytes(t)) = Len(t)
        /\ \A i \in 1 .. Len(t) : rawBytes(t)[i] = IF isRaw(t[i]) THEN t[i].byte ELSE Percent
    BY <1>1, TextUnits
  <1>6. \A i \in 1 .. Len(t) : isWrittenUnit(t[i], char)
    BY <1>4
  <1>7. ASSUME NEW i \in 1 .. Len(t)
        PROVE  /\ isRaw(t[i]) => allowedRaw(t[i].byte)
               /\ ~badEscape(t[i], char, err)
               /\ t[i] # Raw(quoteOf(char))
               /\ char => isSingleByte(rawBytes(t)[i])
    <2> DEFINE u == t[i]
    <2>1. isWrittenUnit(u, char)
      BY <1>6
    <2>2. rawBytes(t)[i] = IF isRaw(u) THEN u.byte ELSE Percent
      BY <1>5
    <2> HIDE DEF u
    <2>3. CASE \E name : u = Name(name) /\ fromName(name, char) # Null
      <3>1. PICK name : u = Name(name) /\ fromName(name, char) # Null
        BY <2>3
      <3>2. u.u = "name" /\ u.name = name
        BY <3>1 DEF Name
      <3>3. ~isRaw(u) /\ ~badEscape(u, char, err)
        BY <3>1, <3>2 DEF isRaw, badEscape
      <3>4. Raw(quoteOf(char)).u = "raw"
        BY DEF Raw
      <3>5. u # Raw(quoteOf(char))
        BY <3>2, <3>4
      <3>6. isSingleByte(rawBytes(t)[i])
        BY <2>2, <3>3 DEF isSingleByte, Percent
      <3> QED
        BY <3>3, <3>5, <3>6 DEF u
    <2>4. CASE /\ u.u = "raw" /\ u.byte \in Nat /\ u.byte \notin {Percent, quoteOf(char)}
               /\ u.byte > 127 \/ isprint(u.byte)
               /\ char => u.byte < 128
      <3>1. isRaw(u) /\ ~isOpen(u)
        BY <2>4 DEF isRaw, isOpen
      <3>2. allowedRaw(u.byte) /\ ~badEscape(u, char, err)
        BY <2>4, <3>1 DEF allowedRaw, badEscape
      <3>3. u # Raw(quoteOf(char))
        <4>1. Raw(quoteOf(char)).byte = quoteOf(char)
          BY DEF Raw
        <4> QED
          BY <2>4, <4>1
      <3>4. char => isSingleByte(rawBytes(t)[i])
        BY <2>2, <2>4, <3>1 DEF isSingleByte
      <3> QED
        BY <3>1, <3>2, <3>3, <3>4 DEF u
    <2> QED
      BY <2>1, <2>3, <2>4 DEF isWrittenUnit
  <1>8. Raw(quoteOf(char)) \notin Range(t)
    BY <1>5, <1>7 DEF Range
  <1>9. char => validBytes(rawBytes(t), char)
    <2> HAVE char
    <2>1. DOMAIN rawBytes(t) = 1 .. Len(t)
      BY <1>5
    <2>2. \A i \in 1 .. Len(t) : isSingleByte(rawBytes(t)[i])
      BY <1>7
    <2> QED
      BY <2>1, <2>2 DEF validBytes
  <1>10. ~badEscapes(t, char, err)
    BY <1>5, <1>7 DEF badEscapes
  <1> QED
    BY <1>1, <1>5, <1>6, <1>7, <1>8, <1>9, <1>10 DEF t

(* The units after the x-th of t are those of u. *)
unitsAt(t, x, u) == x + Len(u) <= Len(t) /\ \A k \in 1 .. Len(u) : t[x + k] = u[k]

\* The bytes of a spelled code are in the text.
LEMMA SpelledBytes ==
    ASSUME NEW t, isText(t), NEW x \in Nat, NEW c \in Numbers, NEW char \in BOOLEAN, NEW u,
           isSpelled(u, c, char), unitsAt(t, x, u)
    PROVE  LET b == extractRegexCharToBytes(c)
               r == rawBytes(t)
           IN  /\ Len(u) = Len(b) /\ Len(b) \in {1, 2, 3, 4} /\ x + Len(b) <= Len(r)
               /\ \A k \in 1 .. Len(b) : r[x + k] = b[k] /\ t[x + k] = Raw(b[k])
  <1> DEFINE b == extractRegexCharToBytes(c)
             r == rawBytes(t)
  <1>1. /\ Len(t) \in Nat /\ r \in Seq(Bytes) /\ Len(r) = Len(t)
        /\ \A i \in 1 .. Len(t) : r[i] = IF isRaw(t[i]) THEN t[i].byte ELSE Percent
    BY TextUnits
  <1>2. Len(b) \in 1 .. 4
    BY CodeBytes
  <1>3. Len(u) = Len(b) /\ \A k \in 1 .. Len(b) : u[k] = Raw(b[k])
    BY DEF isSpelled
  <1>4. x + Len(u) <= Len(t) /\ \A k \in 1 .. Len(u) : t[x + k] = u[k]
    BY DEF unitsAt
  <1> HIDE DEF b, r
  <1>5. ASSUME NEW k \in 1 .. Len(b)
        PROVE  r[x + k] = b[k] /\ t[x + k] = Raw(b[k])
    <2>1. x + k \in 1 .. Len(t) /\ t[x + k] = Raw(b[k])
      BY <1>1, <1>2, <1>3, <1>4
    <2>2. isRaw(Raw(b[k])) /\ Raw(b[k]).byte = b[k]
      BY DEF isRaw, Raw
    <2> QED
      BY <1>1, <2>1, <2>2
  <1>6. Len(b) \in {1, 2, 3, 4} /\ x + Len(b) <= Len(r)
    BY <1>1, <1>2, <1>3, <1>4
  <1> QED
    BY <1>3, <1>5, <1>6 DEF b, r

LEMMA CodeIsPassed ==
    ASSUME NEW t, isText(t), NEW x \in Nat, NEW c \in Numbers, NEW char \in BOOLEAN, NEW u,
           isNamed(u, c, char) \/ isSpelled(u, c, char), unitsAt(t, x, u),
           x + Len(u) \in whole(rawBytes(t))
    PROVE  x \in whole(rawBytes(t))
  <1> DEFINE r == rawBytes(t)
  <1>1. /\ Len(t) \in Nat /\ r \in Seq(Bytes) /\ Len(r) = Len(t)
        /\ \A i \in 1 .. Len(t) : r[i] = IF isRaw(t[i]) THEN t[i].byte ELSE Percent
    BY TextUnits
  <1>2. CASE isNamed(u, c, char)
    <2>1. PICK name : u = <<Name(name)>>
      BY <1>2 DEF isNamed
    <2>2. Len(u) = 1 /\ u[1] = Name(name)
      BY <2>1
    <2>3. x + 1 <= Len(t) /\ t[x + 1] = Name(name)
      <3>1. 1 \in 1 .. Len(u)
        BY <2>2
      <3> QED
        BY <2>2, <3>1 DEF unitsAt
    <2>4. r[x + 1] = 37
      <3>1. x + 1 \in 1 .. Len(t)
        BY <1>1, <2>3
      <3>2. ~isRaw(Name(name))
        BY DEF isRaw, Name
      <3> QED
        BY <1>1, <2>3, <3>1, <3>2 DEF Percent
    <2> DEFINE b == <<37>>
    <2>5. b \in Seq(Bytes) /\ Len(b) = 1 /\ b[1] = 37
      BY DEF Bytes
    <2> HIDE DEF b, r
    <2>6. isCharacter(b)
      BY <2>5 DEF isCharacter, isSingleByte
    <2>7. x + Len(b) <= Len(r) /\ (\A k \in 1 .. Len(b) : r[x + k] = b[k]) /\ x + Len(b) \in whole(r)
      <3>1. x + Len(b) <= Len(r) /\ x + Len(b) \in whole(r)
        BY <1>1, <2>2, <2>3, <2>5 DEF r
      <3>2. \A k \in 1 .. Len(b) : k = 1
        BY <2>5
      <3> QED
        BY <2>4, <2>5, <3>1, <3>2
    <2> QED
      BY <1>1, <2>5, <2>6, <2>7, CharacterIsPassed DEF r
  <1>3. CASE isSpelled(u, c, char)
    <2> DEFINE b == extractRegexCharToBytes(c)
    <2>1. Len(u) = Len(b) /\ x + Len(b) <= Len(r) /\ \A k \in 1 .. Len(b) : r[x + k] = b[k]
      BY <1>3, SpelledBytes
    <2>2. isCharacter(b) /\ b \in Seq(Bytes)
      BY CodeIsCharacter, CodeBytes
    <2> HIDE DEF b, r
    <2>3. x + Len(b) \in whole(r)
      BY <2>1 DEF r
    <2> QED
      BY <1>1, <2>1, <2>2, <2>3, CharacterIsPassed DEF r
  <1> QED
    BY <1>2, <1>3

LEMMA CodeIsReadThere ==
    ASSUME NEW t, isText(t), NEW x \in Nat, NEW c \in Numbers, NEW char \in BOOLEAN, NEW u,
           isNamed(u, c, char) \/ isSpelled(u, c, char), unitsAt(t, x, u),
           NEW err, ~badEscapes(t, char, err)
    PROVE  gathered(literalPieces(t, char, err), x + Len(u)) = gathered(literalPieces(t, char, err), x) \o <<c>>
  <1> DEFINE r == rawBytes(t)
             q == literalPieces(t, char, err)
  <1>1. /\ Len(t) \in Nat /\ DOMAIN t = 1 .. Len(t) /\ r \in Seq(Bytes) /\ Len(r) = Len(t)
    BY TextUnits
  <1>2. q \in Seq(Seq(Numbers)) /\ Len(q) = Len(t)
    BY LiteralIsRead
  <1>3. \A i \in 1 .. Len(t) : q[i] = unitCodes(t, i, char, err)
    BY <1>1 DEF literalPieces
  <1> HIDE DEF q
  <1>4. CASE isNamed(u, c, char)
    <2>1. PICK name : u = <<Name(name)>> /\ fromName(name, char) = <<c>>
      BY <1>4 DEF isNamed
    <2>2. Len(u) = 1 /\ u[1] = Name(name)
      BY <2>1
    <2>3. x + 1 <= Len(t) /\ t[x + 1] = Name(name)
      <3>1. 1 \in 1 .. Len(u)
        BY <2>2
      <3> QED
        BY <2>2, <3>1 DEF unitsAt
    <2>4. q[x + 1] = <<c>>
      <3>1. x + 1 \in 1 .. Len(t)
        BY <1>1, <2>3
      <3>2. t[x + 1].u = "name" /\ t[x + 1].name = name
        BY <2>3 DEF Name
      <3> QED
        BY <1>3, <2>1, <3>1, <3>2 DEF unitCodes
    <2>5. gathered(q, x + 1) = gathered(q, x) \o q[x + 1]
      <3> DEFINE n == 1
      <3>1. n \in {1, 2, 3, 4} /\ x + n <= Len(q) /\ \A j \in 2 .. n : q[x + j] = <<>>
        BY <1>2, <2>3
      <3> HIDE DEF n
      <3>2. gathered(q, x + n) = gathered(q, x) \o q[x + 1]
        BY <1>2, <3>1, OneThenNothing
      <3> QED
        BY <3>2 DEF n
    <2> QED
      BY <2>2, <2>4, <2>5 DEF q
  <1>5. CASE isSpelled(u, c, char)
    <2> DEFINE b == extractRegexCharToBytes(c)
               n == Len(b)
    <2>1. /\ Len(u) = n /\ n \in {1, 2, 3, 4} /\ x + n <= Len(r)
          /\ \A k \in 1 .. n : r[x + k] = b[k] /\ t[x + k] = Raw(b[k])
      BY <1>5, SpelledBytes
    <2>2. b \in Seq(Bytes) /\ writes(b, c) /\ c \in Nat
      BY CodeBytes DEF Numbers
    <2>3. c # Percent /\ c \notin {Percent, quoteOf(char)}
      BY <1>5 DEF isSpelled
    <2>4. decode(r, x, Len(r) - 1) = c
      <3>1. writtenAt(r, x, b)
        BY <2>1 DEF writtenAt
      <3> HIDE DEF b, r
      <3>2. x + Len(b) - 1 <= Len(r) - 1 /\ Len(r) - 1 \in Int
        BY <1>1, <2>1
      <3> QED
        BY <2>2, <3>1, <3>2, GetReadsWhatIsWritten
    <2>5. /\ b[1] # Percent /\ ~isContinuationByte(b[1])
          /\ \A k \in 2 .. n : isContinuationByte(b[k]) /\ b[k] # Percent
      <3>1. CASE c > 127
        <4>1. /\ b[1] \in Nat /\ starts(b[1], n) /\ b[1] >= 128
              /\ \A k \in 2 .. n : follows(b[k])
          BY <3>1, BytesAboveAscii
        <4> HIDE DEF b, n
        <4>2. ~isContinuationByte(b[1])
          BY <4>1, StartByte
        <4>3. \A k \in 2 .. n : isContinuationByte(b[k])
          BY <4>1, FollowingByte
        <4>4. \A k \in 2 .. n : b[k] # Percent
          BY <4>1 DEF follows, Percent
        <4>5. b[1] # Percent
          BY <4>1 DEF Percent
        <4> QED
          BY <4>2, <4>3, <4>4, <4>5
      <3>2. CASE ~(c > 127)
        <4>1. b = <<c>> /\ c \in Bytes /\ isSingleByte(c)
          BY <3>2, AsciiIsItsByte DEF isSingleByte
        <4>2. ~isContinuationByte(c)
          BY <4>1, FirstByte
        <4> HIDE DEF b
        <4>3. b[1] = c /\ 2 .. n = {}
          BY <4>1
        <4> QED
          BY <2>3, <4>2, <4>3
      <3> QED
        BY <3>1, <3>2
    <2> HIDE DEF b, n, r
    <2>6. ASSUME NEW k \in 1 .. n
          PROVE  q[x + k] = IF isContinuationByte(b[k]) THEN <<>> ELSE <<decode(r, (x + k) - 1, Len(t) - 1)>>
      <3>1. x + k \in 1 .. Len(t) /\ t[x + k] = Raw(b[k])
        BY <1>1, <2>1
      <3>2. b[k] # Percent
        <4>1. k = 1 \/ k \in 2 .. n
          BY <2>1
        <4> QED
          BY <2>5, <4>1
      <3>3. t[x + k].u = "raw" /\ t[x + k].byte = b[k]
        BY <3>1 DEF Raw
      <3>4. ~isOpen(t[x + k])
        BY <3>2, <3>3 DEF isOpen
      <3> QED
        BY <1>3, <3>1, <3>3, <3>4 DEF unitCodes, r
    <2>7. q[x + 1] = <<c>>
      <3>1. 1 \in 1 .. n /\ (x + 1) - 1 = x
        BY <2>1
      <3> QED
        BY <1>1, <2>4, <2>5, <2>6, <3>1
    <2>8. \A j \in 2 .. n : q[x + j] = <<>>
      <3> TAKE j \in 2 .. n
      <3>1. j \in 1 .. n
        BY <2>1
      <3> QED
        BY <2>5, <2>6, <3>1
    <2>9. x + n <= Len(q)
      BY <1>1, <1>2, <2>1
    <2>10. gathered(q, x + n) = gathered(q, x) \o q[x + 1]
      BY <1>2, <2>1, <2>8, <2>9, OneThenNothing
    <2> QED
      BY <2>1, <2>7, <2>10 DEF q
  <1> QED
    BY <1>4, <1>5

\* What is written for a literal or a range means what was read.
LEMMA CodesAreReadBack ==
    ASSUME NEW v \in Seq(Numbers), NEW char \in BOOLEAN, NEW inRange \in BOOLEAN,
           char => \A i \in 1 .. Len(v) : isLegalCChar(v[i]), NEW err
    PROVE  literalValue(escapeCodes(v, char, inRange), char, err) = v
  <1> DEFINE t == escapeCodes(v, char, inRange)
             p == codePieces(v, char, inRange)
             q == literalPieces(t, char, err)
             w == [i \in 1 .. Len(v) |-> <<v[i]>>]
             r == rawBytes(t)
             n == Len(v)
             L(i) == Len(gathered(p, i))
  <1>1. n \in Nat /\ p \in Seq(Seq(unitsFor(char))) /\ Len(p) = n /\ t = FlattenSeq(p) /\ isText(t)
    BY CodesAreTexts
  <1>2. /\ \A i \in DOMAIN t : isRaw(t[i]) => allowedRaw(t[i].byte)
        /\ ~badEscapes(t, char, err)
        /\ char => validBytes(r, char)
    BY WrittenText
  <1>3. \A i \in 1 .. n : p[i] = codeUnits(v[i], char, inRange)
    BY DEF codePieces
  <1>4. ASSUME NEW i \in 1 .. n
        PROVE  isNamed(p[i], v[i], char) \/ isSpelled(p[i], v[i], char)
    <2>1. v[i] \in Numbers /\ (char => isLegalCChar(v[i]))
      OBVIOUS
    <2>2. p[i] = codeUnits(v[i], char, inRange)
      BY <1>3
    <2> HIDE DEF p
    <2> QED
      BY <2>1, <2>2, CodeIsWritten
  <1>5. L(0) = 0 /\ Len(t) = L(n) /\ \A i \in 0 .. n : L(i) \in 0 .. Len(t)
    BY <1>1, FlattenedPositions
  <1>6. \A i \in 1 .. n : L(i) = L(i - 1) + Len(p[i]) /\ \A x \in 1 .. Len(p[i]) : t[L(i - 1) + x] = p[i][x]
    <2>1. /\ \A i \in 1 .. Len(p) : L(i) = L(i - 1) + Len(p[i])
          /\ \A i \in 1 .. Len(p) : \A x \in 1 .. Len(p[i]) : FlattenSeq(p)[L(i - 1) + x] = p[i][x]
      <3> HIDE DEF p
      <3> QED
        BY <1>1, FlattenedPositions
    <2> HIDE DEF p, t, n, L
    <2> QED
      BY <1>1, <2>1
  <1>7. Len(t) \in Nat /\ r \in Seq(Bytes) /\ Len(r) = Len(t)
    BY <1>1, TextUnits
  <1>8. q \in Seq(Seq(Numbers)) /\ Len(q) = Len(t)
    BY <1>1, <1>2, LiteralIsRead
  <1>9. w \in Seq(Seq(Numbers)) /\ Len(w) = n /\ \A i \in 1 .. n : w[i] = <<v[i]>>
    <2>1. \A i \in 1 .. Len(v) : <<v[i]>> \in Seq(Numbers)
      OBVIOUS
    <2>2. w \in [1 .. Len(v) -> Seq(Numbers)]
      BY <2>1
    <2> QED
      BY <2>2
  <1>10. FlattenSeq(w) = v
    <2> HIDE DEF w
    <2> QED
      BY <1>9, FlattenedSingles
  <1>11. FlattenSeq(w) = gathered(w, n) /\ FlattenSeq(q) = gathered(q, Len(t)) /\ gathered(w, 0) = <<>> /\ gathered(q, 0) = <<>>
    <2> HIDE DEF w, q, n
    <2> QED
      BY <1>8, <1>9, Gathering
  <1>12. \A i \in 1 .. n : gathered(w, i) = gathered(w, i - 1) \o <<v[i]>>
    <2> HIDE DEF w, n
    <2>1. \A i \in 1 .. Len(w) : gathered(w, i) = gathered(w, i - 1) \o w[i]
      BY <1>9, Gathering
    <2> QED
      BY <1>9, <2>1
  <1> HIDE DEF t, p, q, w, r, L
  <1>13. ASSUME NEW i \in 1 .. n
         PROVE  /\ L(i - 1) \in Nat /\ unitsAt(t, L(i - 1), p[i]) /\ L(i) = L(i - 1) + Len(p[i])
                /\ i - 1 \in 0 .. n /\ i - 1 < i
    <2>1. i \in 0 .. n /\ i - 1 \in 0 .. n /\ i - 1 < i
      BY <1>1
    <2>2. L(i - 1) \in Nat /\ L(i) = L(i - 1) + Len(p[i]) /\ L(i) <= Len(t)
      BY <1>5, <1>6, <1>7, <2>1
    <2>3. \A x \in 1 .. Len(p[i]) : t[L(i - 1) + x] = p[i][x]
      BY <1>6
    <2> QED
      BY <2>1, <2>2, <2>3 DEF unitsAt
  <1>14. 0 \in whole(r)
    <2> DEFINE Good == {i \in 0 .. n : L(i) \in whole(r)}
    <2>1. n \in Good
      <3>1. leads(Len(r), whole(r), r) /\ Len(r) \in 0 .. Len(r)
        BY <1>7 DEF leads
      <3>2. Len(r) \in whole(r)
        BY <3>1, WholeIsFixed
      <3> QED
        BY <1>1, <1>5, <1>7, <3>2
    <2>2. Good \in SUBSET Nat /\ Good # {}
      BY <2>1
    <2>3. PICK i \in Good : \A j \in Good : i <= j
      <3> HIDE DEF Good
      <3> QED
        BY <2>2, LeastNumber
    <2>4. i \in 0 .. n /\ L(i) \in whole(r)
      OBVIOUS
    <2>5. ASSUME i # 0
          PROVE  FALSE
      <3>1. i \in 1 .. n
        BY <1>1, <2>4, <2>5
      <3>2. /\ L(i - 1) \in Nat /\ unitsAt(t, L(i - 1), p[i]) /\ L(i - 1) + Len(p[i]) \in whole(rawBytes(t))
            /\ i - 1 \in 0 .. n /\ i - 1 < i
        BY <1>13, <2>4, <3>1 DEF r
      <3>3. v[i] \in Numbers /\ (isNamed(p[i], v[i], char) \/ isSpelled(p[i], v[i], char))
        BY <1>4, <3>1
      <3>4. L(i - 1) \in whole(rawBytes(t))
        BY <1>1, <3>2, <3>3, CodeIsPassed
      <3>5. i - 1 \in Good
        BY <3>2, <3>4 DEF r
      <3> HIDE DEF Good
      <3>6. i <= i - 1
        BY <2>3, <3>5
      <3> QED
        BY <3>1, <3>6
    <2> QED
      BY <1>5, <2>4, <2>5
  <1>15. validBytes(r, char)
    <2>1. CASE char = TRUE
      BY <1>2, <2>1
    <2>2. CASE char = FALSE
      BY <1>7, <1>14, <2>2, ValidIsWhole
    <2> QED
      BY <2>1, <2>2
  <1>16. gathered(q, L(n)) = gathered(w, n)
    <2> DEFINE Bad == {i \in 0 .. n : gathered(q, L(i)) # gathered(w, i)}
    <2>1. ASSUME Bad # {}
          PROVE  FALSE
      <3>1. Bad \in SUBSET Nat
        OBVIOUS
      <3>2. PICK i \in Bad : \A j \in Bad : i <= j
        <4> HIDE DEF Bad
        <4> QED
          BY <2>1, <3>1, LeastNumber
      <3>3. i \in 0 .. n /\ gathered(q, L(i)) # gathered(w, i)
        OBVIOUS
      <3>4. i \in 1 .. n
        <4>1. i # 0
          BY <1>5, <1>11, <3>3
        <4> QED
          BY <1>1, <3>3, <4>1
      <3>5. /\ L(i - 1) \in Nat /\ unitsAt(t, L(i - 1), p[i]) /\ L(i) = L(i - 1) + Len(p[i])
            /\ i - 1 \in 0 .. n /\ i - 1 < i
        BY <1>13, <3>4
      <3>6. v[i] \in Numbers /\ (isNamed(p[i], v[i], char) \/ isSpelled(p[i], v[i], char))
        BY <1>4, <3>4
      <3>7. gathered(q, L(i - 1) + Len(p[i])) = gathered(q, L(i - 1)) \o <<v[i]>>
        <4> DEFINE x == L(i - 1)
                   c == v[i]
                   u == p[i]
        <4>1. x \in Nat /\ unitsAt(t, x, u) /\ c \in Numbers /\ (isNamed(u, c, char) \/ isSpelled(u, c, char))
          BY <3>5, <3>6
        <4>2. isText(t) /\ ~badEscapes(t, char, err)
          BY <1>1, <1>2
        <4> HIDE DEF x, c, u
        <4>3. gathered(q, x + Len(u)) = gathered(q, x) \o <<c>>
          BY <4>1, <4>2, CodeIsReadThere DEF q
        <4> QED
          BY <4>3 DEF x, c, u
      <3>8. i - 1 \notin Bad
        <4> HIDE DEF Bad
        <4>1. ASSUME i - 1 \in Bad
              PROVE  FALSE
          <5>1. i <= i - 1
            BY <3>2, <4>1
          <5> QED
            BY <3>4, <5>1
        <4> QED
          BY <4>1
      <3>9. gathered(q, L(i - 1)) = gathered(w, i - 1)
        BY <3>5, <3>8
      <3>10. gathered(w, i) = gathered(w, i - 1) \o <<v[i]>>
        BY <1>12, <3>4
      <3> QED
        BY <3>3, <3>5, <3>7, <3>9, <3>10
    <2>2. n \in 0 .. n
      BY <1>1
    <2> QED
      BY <2>1, <2>2
  <1>17. FlattenSeq(q) = v
    BY <1>5, <1>10, <1>11, <1>16
  <1>18. literalValue(t, char, err) = FlattenSeq(q)
    BY <1>2, <1>15 DEF literalValue, q, r
  <1> QED
    BY <1>17, <1>18 DEF t

(* The standard form: printable characters and numbers.                    *)
isStandardUnit(u, c) ==
    \/ u = Raw(c) /\ isprint(c) /\ c \notin {Percent, 34, 39}
    \/ u = Hex(c, hexDigits(c), TRUE)

LEMMA StandardUnits ==
    ASSUME NEW v \in Seq(Numbers), NEW i \in 1 .. Len(v)
    PROVE  isStandardUnit(standardCodes(v)[i], v[i])
  <1> DEFINE c == v[i]
             u == standardCodes(v)[i]
  <1>1. u = IF isprint(c) /\ c \notin {Percent, 34, 39, Slash, Backslash} \cup Brackets
            THEN Raw(c) ELSE Hex(c, hexDigits(c), TRUE)
    <2>1. i \in DOMAIN v
      OBVIOUS
    <2> QED
      BY <2>1 DEF standardCodes
  <1> HIDE DEF c, u
  <1> QED
    BY <1>1 DEF isStandardUnit, c, u

\* A legal char has two digits at most.
LEMMA TwoDigits ==
    ASSUME NEW c \in Numbers, isLegalCChar(c)
    PROVE  hexDigits(c) <= 2
  <1> DEFINE pow == <<16, 256, 4096, 65536, 1048576, 16777216>>
             ns == {n \in 1 .. 6 : c < pow[n]}
  <1>1. hexDigits(c) = Min(ns)
    BY DEF hexDigits
  <1>2. pow[2] = 256
    BY SMT
  <1>3. c < 256
    BY DEF isLegalCChar, isprint, Newline
  <1> HIDE DEF pow
  <1>4. 2 \in ns
    BY <1>2, <1>3
  <1>5. ns \in SUBSET Nat /\ ns # {}
    BY <1>4
  <1>6. Min(ns) <= 2
    <2> HIDE DEF ns
    <2> QED
      BY <1>4, <1>5, MinIsLeast
  <1> QED
    BY <1>1, <1>6

(* What reading what was written for v answers.                            *)
isReadBack(x, v, err) == x = v \/ (x = Null /\ (err = "ERANGE" \/ Range(v) \ CodePoints # {}))

LEMMA StandardIsReadBack ==
    ASSUME NEW v \in Seq(Numbers), NEW char \in BOOLEAN, char => \A i \in 1 .. Len(v) : isLegalCChar(v[i]), NEW err
    PROVE  /\ Raw(quoteOf(char)) \notin Range(standardCodes(v))
           /\ isReadBack(literalValue(standardCodes(v), char, err), v, err)
  <1> DEFINE t == standardCodes(v)
             q == literalPieces(t, char, err)
             r == rawBytes(t)
             n == Len(v)
  <1>1. isText(t) /\ Len(t) = n /\ n \in Nat
    BY StandardIsAText
  <1>2. \A i \in 1 .. n : isStandardUnit(t[i], v[i])
    BY StandardUnits
  <1> HIDE DEF t
  <1>3. /\ DOMAIN t = 1 .. n /\ r \in Seq(Bytes) /\ Len(r) = n
        /\ \A i \in 1 .. n : r[i] = IF isRaw(t[i]) THEN t[i].byte ELSE Percent
    BY <1>1, TextUnits
  <1> HIDE DEF r
  <1>4. ASSUME NEW i \in 1 .. n
        PROVE  /\ isRaw(t[i]) => allowedRaw(t[i].byte)
               /\ t[i] # Raw(quoteOf(char)) /\ isSingleByte(r[i])
               /\ badEscape(t[i], char, err) => err = "ERANGE" \/ v[i] \notin CodePoints
               /\ ~badEscape(t[i], char, err) => unitCodes(t, i, char, err) = <<v[i]>>
    <2> DEFINE c == v[i]
               u == t[i]
    <2>0. c \in Numbers /\ c \in Nat /\ (char => isLegalCChar(c))
      <3>1. c \in Numbers /\ (char => isLegalCChar(c))
        OBVIOUS
      <3> QED
        BY <3>1 DEF Numbers
    <2>1. isStandardUnit(u, c) /\ r[i] = IF isRaw(u) THEN u.byte ELSE Percent
      BY <1>2, <1>3
    <2>2. CASE u = Raw(c) /\ isprint(c) /\ c \notin {Percent, 34, 39}
      <3>1. isRaw(u) /\ u.u = "raw" /\ u.byte = c
        BY <2>2 DEF Raw, isRaw
      <3>2. allowedRaw(c) /\ isSingleByte(c) /\ c \in Bytes
        <4>1. isprint(c) /\ c \in Nat
          BY <2>0, <2>2
        <4> HIDE DEF c
        <4>2. c < 127
          BY <4>1 DEF isprint
        <4> QED
          BY <4>1, <4>2 DEF allowedRaw, isSingleByte, Bytes
      <3>3. c # quoteOf(char)
        BY <2>2 DEF quoteOf
      <3>4. Raw(quoteOf(char)).byte = quoteOf(char)
        BY DEF Raw
      <3>5. ~isOpen(u) /\ ~badEscape(u, char, err)
        BY <2>2, <3>1 DEF isOpen, badEscape
      <3>6. ~isContinuationByte(c)
        BY <3>2, FirstByte
      <3>7. decode(rawBytes(t), i - 1, Len(t) - 1) = c
        <4>1. byte(rawBytes(t), i - 1) = c
          <5>1. (i - 1) + 1 = i
            OBVIOUS
          <5> QED
            BY <2>1, <3>1, <5>1 DEF byte, r
        <4> QED
          BY <3>2, <4>1 DEF decode
      <3>8. unitCodes(t, i, char, err) = <<c>>
        BY <3>1, <3>5, <3>6, <3>7 DEF unitCodes
      <3> HIDE DEF c
      <3>9. r[i] = c /\ u # Raw(quoteOf(char))
        BY <2>1, <3>1, <3>3, <3>4
      <3> QED
        BY <3>1, <3>2, <3>5, <3>8, <3>9 DEF c
    <2>3. CASE u = Hex(c, hexDigits(c), TRUE)
      <3>1. u.u = "hex" /\ u.val = c /\ u.digits = hexDigits(c) /\ u.clean
        BY <2>3 DEF Hex
      <3>2. ~isRaw(u) /\ u # Raw(quoteOf(char))
        BY <3>1 DEF isRaw, Raw
      <3>3. isSingleByte(r[i])
        BY <2>1, <3>2 DEF isSingleByte, Percent
      <3>4. hexDigits(c) \in 1 .. 6 /\ (char => hexDigits(c) <= 2)
        BY <2>0, HexDigits, TwoDigits
      <3>5. badEscape(u, char, err) <=> decodeHexEscape(u, char, err) = Null
        BY <3>1 DEF badEscape
      <3>6. decodeHexEscape(u, char, err) = Null => err = "ERANGE" \/ c \notin CodePoints
        <4> DEFINE m == IF char THEN 2 ELSE 6
        <4>1. ~(u.digits > m)
          BY <3>1, <3>4
        <4>2. <<c>> # Null
          BY <2>0 DEF Null
        <4>3. decodeHexEscape(u, char, err) =
                  IF u.digits > m \/ err = "ERANGE" \/ ~(IF char THEN isLegalCChar(u.val) ELSE u.val \in CodePoints)
                  THEN Null ELSE <<u.val>>
          BY DEF decodeHexEscape
        <4> HIDE DEF m, c
        <4>4. CASE char
          BY <2>0, <3>1, <4>1, <4>2, <4>3, <4>4
        <4>5. CASE ~char
          BY <3>1, <4>1, <4>2, <4>3, <4>5
        <4> QED
          BY <4>4, <4>5
      <3>7. decodeHexEscape(u, char, err) # Null => unitCodes(t, i, char, err) = <<c>>
        <4> HAVE decodeHexEscape(u, char, err) # Null
        <4>1. decodeHexEscape(u, char, err) = <<c>>
          BY <3>1, HexIsOfACode
        <4> QED
          BY <3>1, <4>1 DEF unitCodes, decodeHexEscapeAsRegex
      <3> HIDE DEF c
      <3> QED
        BY <3>2, <3>3, <3>5, <3>6, <3>7 DEF c
    <2> QED
      BY <2>1, <2>2, <2>3 DEF isStandardUnit
  <1>5. validBytes(r, char)
    <2>1. 0 \in whole(r)
      BY <1>3, <1>4, SingleBytesAreWhole
    <2>2. CASE char = TRUE
      <3>1. DOMAIN r = 1 .. n
        BY <1>3
      <3>2. \A i \in 1 .. n : isSingleByte(r[i])
        BY <1>4
      <3> QED
        BY <2>2, <3>1, <3>2 DEF validBytes
    <2>3. CASE char = FALSE
      BY <1>3, <2>1, <2>3, ValidIsWhole
    <2> QED
      BY <2>2, <2>3
  <1>6. \A i \in DOMAIN t : isRaw(t[i]) => allowedRaw(t[i].byte)
    BY <1>3, <1>4
  <1>7. literalValue(t, char, err) = IF badEscapes(t, char, err) THEN Null ELSE FlattenSeq(q)
    BY <1>5, <1>6 DEF literalValue, r
  <1>8. ~badEscapes(t, char, err) => FlattenSeq(q) = v
    <2> HAVE ~badEscapes(t, char, err)
    <2>1. q \in Seq(Seq(Numbers)) /\ Len(q) = n
      BY <1>1, LiteralIsRead
    <2>2. \A i \in 1 .. n : q[i] = <<v[i]>>
      BY <1>3, <1>4 DEF literalPieces, badEscapes
    <2> HIDE DEF q
    <2> QED
      BY <2>1, <2>2, FlattenedSingles
  <1>9. badEscapes(t, char, err) => err = "ERANGE" \/ Range(v) \ CodePoints # {}
    <2> HAVE badEscapes(t, char, err)
    <2>1. PICK i \in 1 .. n : badEscape(t[i], char, err)
      BY <1>3 DEF badEscapes
    <2>2. err = "ERANGE" \/ v[i] \notin CodePoints
      BY <1>4, <2>1
    <2>3. v[i] \in Range(v)
      BY DEF Range
    <2> QED
      BY <2>2, <2>3
  <1>10. Raw(quoteOf(char)) \notin Range(t)
    BY <1>3, <1>4 DEF Range
  <1>11. \/ literalValue(t, char, err) = v
         \/ literalValue(t, char, err) = Null /\ (err = "ERANGE" \/ Range(v) \ CodePoints # {})
    BY <1>7, <1>8, <1>9
  <1>12. isReadBack(literalValue(t, char, err), v, err)
    BY <1>11 DEF isReadBack
  <1> QED
    BY <1>10, <1>12 DEF t

-----------------------------------------------------------------------------
(* Chars that are read are legal. *)

LEMMA AllowedIsLegal ==
    ASSUME NEW b \in Nat, isSingleByte(b), allowedRaw(b)
    PROVE  isLegalCChar(b)
  <1>1. b < 128
    BY DEF isSingleByte
  <1>2. ~(b > 127)
    BY <1>1
  <1>3. isprint(b) \/ b = 9 \/ b = 32
    BY <1>2 DEF allowedRaw, isblank, Space
  <1>4. b = 32 => isprint(b)
    BY DEF isprint
  <1> QED
    BY <1>3, <1>4 DEF isLegalCChar

LEMMA LegalUnit ==
    ASSUME NEW t, isText(t), NEW i \in 1 .. Len(t), NEW char \in BOOLEAN, char # FALSE, NEW err,
           isSingleByte(rawBytes(t)[i]), ~badEscape(t[i], char, err), isRaw(t[i]) => allowedRaw(t[i].byte)
    PROVE  \E c \in Numbers : unitCodes(t, i, char, err) = <<c>> /\ isLegalCChar(c)
  <1> DEFINE b == stringBytes(t[i], char, err)
  <1>1. PICK c \in Numbers : /\ unitCodes(t, i, char, err) = <<c>>
                             /\ writes(b, c) /\ b \in Seq(Bytes) /\ Len(b) \in {1, 2, 3, 4}
    BY UnitCode
  <1>2. isUnit(t[i]) /\ rawBytes(t)[i] = (IF isRaw(t[i]) THEN t[i].byte ELSE Percent) /\ rawBytes(t)[i] \in Bytes
    BY TextUnits
  <1>3. isRaw(t[i]) => isLegal(t[i].byte, char)
    <2> HAVE isRaw(t[i])
    <2>1. t[i].byte = rawBytes(t)[i] /\ allowedRaw(t[i].byte)
      BY <1>2
    <2>2. t[i].byte \in Nat
      BY <1>2, <2>1, BytesAreNumbers
    <2>3. isLegalCChar(t[i].byte)
      BY <2>1, <2>2, AllowedIsLegal
    <2> QED
      BY <2>3 DEF isLegal
  <1>4. \A k \in 1 .. Len(b) : isLegalCChar(b[k])
    BY <1>2, <1>3, CharBytesAreLegal
  <1>5. isLegalCChar(b[1])
    <2> HIDE DEF b
    <2>1. 1 \in 1 .. Len(b)
      <3>1. Len(b) \in {1, 2, 3, 4}
        BY <1>1
      <3> QED
        BY <3>1
    <2> QED
      BY <1>4, <2>1
  <1>6. c \in Nat
    BY DEF Numbers
  <1> HIDE DEF b
  <1>7. writtenAt(b, 0, b)
    BY DEF writtenAt
  <1>8. CASE c < 128
    <2>1. byte(b, 0) = c
      BY <1>1, <1>6, <1>7, <1>8, WrittenSingle
    <2>2. b[1] = c
      BY <2>1 DEF byte
    <2> QED
      BY <1>1, <1>5, <2>2
  <1>9. CASE 128 <= c
    <2>1. b[1] \in Nat /\ starts(b[1], Len(b))
      BY <1>1, <1>6, <1>7, <1>9, Written
    <2>2. ~isLegalCChar(b[1])
      <3> DEFINE first == b[1]
      <3>1. first \in Nat /\ first >= 192
        BY <2>1 DEF starts
      <3> HIDE DEF first
      <3>2. ~isLegalCChar(first)
        BY <3>1 DEF isLegalCChar, isprint, Newline
      <3> QED
        BY <3>2 DEF first
    <2> QED
      BY <1>5, <2>2
  <1> QED
    BY <1>6, <1>8, <1>9

LEMMA CharLiteralIsLegal ==
    ASSUME NEW text_, isText(text_), NEW char \in BOOLEAN, char # FALSE, NEW err,
           readLiteral(text_, char, err).value # Null
    PROVE  LET v == readLiteral(text_, char, err).value
           IN  \A i \in 1 .. Len(v) : isLegalCChar(v[i])
  <1> DEFINE v == readLiteral(text_, char, err).value
             t == upToQuote(text_, char)
             q == literalPieces(t, char, err)
             T == {c \in Numbers : isLegalCChar(c)}
  <1>1. /\ \A i \in DOMAIN t : isRaw(t[i]) => allowedRaw(t[i].byte)
        /\ validBytes(rawBytes(t), char) /\ ~badEscapes(t, char, err)
        /\ v = FlattenSeq(q)
    BY LiteralValue
  <1>2. isText(t)
    BY RestOfText
  <1> HIDE DEF t, v
  <1>3. DOMAIN t = 1 .. Len(t) /\ rawBytes(t) \in Seq(Bytes) /\ Len(rawBytes(t)) = Len(t)
    BY <1>2, TextUnits
  <1>4. q \in Seq(Seq(Numbers)) /\ Len(q) = Len(t)
    BY <1>1, <1>2, LiteralIsRead
  <1>5. \A i \in 1 .. Len(t) : isSingleByte(rawBytes(t)[i])
    <2>1. \A i \in 1 .. Len(rawBytes(t)) : isSingleByte(rawBytes(t)[i])
      BY <1>1, <1>3, ValidBytesAreWhole
    <2> QED
      BY <1>3, <2>1
  <1>6. ASSUME NEW i \in 1 .. Len(q), NEW k \in 1 .. Len(q[i])
        PROVE  q[i][k] \in T
    <2>1. i \in 1 .. Len(t) /\ ~badEscape(t[i], char, err) /\ (isRaw(t[i]) => allowedRaw(t[i].byte))
      BY <1>1, <1>3, <1>4 DEF badEscapes
    <2>2. PICK c \in Numbers : unitCodes(t, i, char, err) = <<c>> /\ isLegalCChar(c)
      BY <1>2, <1>5, <2>1, LegalUnit
    <2>3. q[i] = <<c>>
      BY <1>3, <2>1, <2>2 DEF literalPieces
    <2> HIDE DEF q
    <2>4. q[i][k] = c
      BY <2>3
    <2> QED
      BY <2>2, <2>4
  <1> HIDE DEF q
  <1>7. v \in Seq(T)
    <2> HIDE DEF T
    <2> QED
      BY <1>1, <1>4, <1>6, FlattenedElements
  <1>8. \A i \in 1 .. Len(v) : isLegalCChar(v[i])
    BY <1>7
  <1> QED
    BY <1>8 DEF v

\* A range is one code, and a legal one where chars are.
LEMMA RangeIsOneCode ==
    ASSUME NEW t, isText(t), t # <<>>, NEW char \in BOOLEAN, NEW err,
           readRangeChar(t, char, err).value # Null
    PROVE  LET v == readRangeChar(t, char, err).value
           IN  \E c \in Numbers : v = <<c>> /\ (char => isLegalCChar(c))
  <1> DEFINE v == readRangeChar(t, char, err).value
             u == t[1]
             s == rawBytes(t)
  <1>1. 1 \in 1 .. Len(t)
    BY FirstUnit
  <1>2. /\ isUnit(u) /\ s \in Seq(Bytes) /\ Len(s) = Len(t) /\ Len(t) \in Nat
        /\ s[1] = (IF isRaw(u) THEN u.byte ELSE Percent) /\ s[1] \in Bytes
    BY <1>1, TextUnits
  <1>3. v = unitCodes(t, 1, char, err) /\ v # Null /\ ~refusedFirst(t, char, err) /\ v \in Seq(Numbers)
    BY RangeValue, RangeIsRead
  <1>4. ~badEscape(u, char, err)
    BY <1>1, <1>3, RefusedUnitIsBad
  <1>5. isRaw(u) => allowedRaw(u.byte) /\ ~isOpen(u) /\ (u.byte > 127 => ~char)
    BY <1>3 DEF refusedFirst, isRaw
  <1> HIDE DEF v, u
  <1>6. CASE isSingleByte(s[1])
    <2>1. CASE char
      <3>1. char # FALSE /\ ~badEscape(t[1], char, err) /\ isSingleByte(rawBytes(t)[1]) /\ (isRaw(t[1]) => allowedRaw(t[1].byte))
        BY <1>4, <1>5, <1>6, <2>1 DEF u
      <3>2. \E c \in Numbers : unitCodes(t, 1, char, err) = <<c>> /\ isLegalCChar(c)
        BY <1>1, <3>1, LegalUnit
      <3> QED
        BY <1>3, <3>2 DEF v
    <2>2. CASE ~char
      <3>1. \E c \in Numbers : unitCodes(t, 1, char, err) = <<c>>
        <4>1. ~badEscape(t[1], char, err) /\ isSingleByte(rawBytes(t)[1])
          BY <1>4, <1>6 DEF u
        <4> QED
          BY <1>1, <4>1, UnitCode
      <3> QED
        BY <1>3, <2>2, <3>1 DEF v
    <2> QED
      BY <2>1, <2>2
  <1>7. CASE ~isSingleByte(s[1])
    <2> DEFINE n == charCodeByteCount(s, 0)
               z == SubSeq(s, 1, n)
    <2>1. isRaw(u) /\ u.byte = s[1] /\ u.u = "raw"
      <3>1. isSingleByte(Percent)
        BY DEF isSingleByte, Percent
      <3> QED
        BY <1>2, <1>7, <3>1 DEF isRaw
    <2>2. s[1] \in Nat /\ s[1] > 127
      <3> DEFINE b == s[1]
      <3>1. b \in Nat
        BY <1>2, BytesAreNumbers
      <3> HIDE DEF b, s
      <3>2. b > 127
        BY <1>7, <3>1 DEF isSingleByte, b
      <3> QED
        BY <3>1, <3>2 DEF b
    <2>3. ~char /\ ~(n > Len(t)) /\ validBytes(z, FALSE)
      BY <1>3, <2>1, <2>2 DEF refusedFirst, u
    <2>4. n \in {1, 2, 3, 4} /\ n = encodingByteCount(s[1])
      <3>1. n = encodingByteCount(s[1])
        BY DEF charCodeByteCount, byte
      <3>2. n \in {1, 2, 3, 4}
        BY CountIsNumber
      <3> QED
        BY <3>1, <3>2
    <2> HIDE DEF n
    <2>5. z \in Seq(Bytes) /\ Len(z) = n /\ z[1] = s[1]
      <3> HIDE DEF s
      <3>1. n \in Nat /\ n >= 1 /\ n <= Len(s)
        BY <1>2, <2>3, <2>4
      <3>2. s \in Seq(Bytes)
        BY <1>2
      <3> QED
        BY <3>1, <3>2
    <2> HIDE DEF z, s
    <2>6. leads(0, whole(z), z)
      <3>1. 0 \in whole(z)
        BY <2>3, <2>5, ValidIsWhole
      <3>2. 0 \in 0 .. Len(z)
        BY <2>4, <2>5
      <3> QED
        BY <3>1, <3>2, WholeIsFixed
    <2>7. charCodeByteCount(z, 0) > 1
      <3>1. byte(z, 0) = s[1]
        BY <2>5 DEF byte
      <3> QED
        BY <1>7, <2>4, <2>5, <2>6, <3>1 DEF leads
    <2>8. encodingByteCount(s[1]) > 1
      BY <2>5, <2>7 DEF charCodeByteCount, byte
    <2>9. ~isContinuationByte(u.byte)
      BY <1>2, <2>1, <2>8, FirstByte
    <2> DEFINE d == decode(rawBytes(t), 1 - 1, Len(t) - 1)
    <2>10. v = <<d>>
      BY <1>3, <1>5, <2>1, <2>9 DEF unitCodes, u
    <2>11. d \in Numbers
      <3> HIDE DEF d
      <3>1. v[1] = d /\ 1 \in 1 .. Len(v)
        BY <2>10
      <3> QED
        BY <1>3, <3>1
    <2> QED
      BY <2>3, <2>10, <2>11 DEF v
  <1> QED
    BY <1>6, <1>7

\* What is written for one code is one unit or one longer character.
LEMMA OneCodeIsOneCharacter ==
    ASSUME NEW v \in Seq(Numbers), Len(v) = 1, NEW char \in BOOLEAN, NEW inRange \in BOOLEAN,
           char => \A i \in 1 .. Len(v) : isLegalCChar(v[i])
    PROVE  LET t == escapeCodes(v, char, inRange)
           IN  isText(t) /\ (Len(t) = 1 \/ isLong(t))
  <1> DEFINE t == escapeCodes(v, char, inRange)
             p == codePieces(v, char, inRange)
             c == v[1]
             u == codeUnits(c, char, inRange)
  <1>1. p \in Seq(Seq(unitsFor(char))) /\ Len(p) = 1 /\ t = FlattenSeq(p) /\ isText(t)
    BY CodesAreTexts
  <1>2. c \in Numbers /\ (char => isLegalCChar(c)) /\ 1 \in DOMAIN v
    <2>1. 1 \in 1 .. Len(v)
      OBVIOUS
    <2> QED
      BY <2>1
  <1>3. p[1] = u
    BY <1>2 DEF codePieces
  <1>4. u \in Seq(unitsFor(char))
    BY <1>2, CodeUnits
  <1> HIDE DEF p, t, u, c
  <1>5. p = <<u>>
    BY <1>1, <1>3
  <1>6. t = u
    BY <1>1, <1>4, <1>5, FlattenedOne
  <1>7. isNamed(t, c, char) \/ isSpelled(t, c, char)
    BY <1>2, <1>6, CodeIsWritten DEF u
  <1>8. CASE isNamed(t, c, char)
    <2>1. PICK name : t = <<Name(name)>>
      BY <1>8 DEF isNamed
    <2>2. Len(t) = 1
      BY <2>1
    <2> QED
      BY <1>1, <2>2 DEF t
  <1>9. CASE isSpelled(t, c, char)
    <2> DEFINE b == extractRegexCharToBytes(c)
               r == rawBytes(t)
    <2>1. unitsAt(t, 0, t)
      <3>1. t \in Seq(unitsFor(char))
        BY <1>4, <1>6
      <3>2. 0 + Len(t) <= Len(t) /\ \A k \in 1 .. Len(t) : t[0 + k] = t[k]
        BY <3>1
      <3> QED
        BY <3>2 DEF unitsAt
    <2>2. Len(t) = Len(b) /\ \A k \in 1 .. Len(b) : r[0 + k] = b[k]
      <3> DEFINE x == 0
      <3>1. x \in Nat /\ unitsAt(t, x, t)
        BY <2>1
      <3> HIDE DEF x
      <3>2. Len(t) = Len(b) /\ \A k \in 1 .. Len(b) : r[x + k] = b[k]
        BY <1>1, <1>2, <1>9, <3>1, SpelledBytes
      <3> QED
        BY <3>2 DEF x
    <2>3. CASE c > 127
      <3>1. Len(b) \in {2, 3, 4} /\ b[1] \in Nat /\ starts(b[1], Len(b))
        BY <1>2, <2>3, BytesAboveAscii
      <3> HIDE DEF b, r
      <3>2. r[1] = b[1]
        <4>1. 1 \in 1 .. Len(b) /\ 0 + 1 = 1
          BY <3>1
        <4>2. r[0 + 1] = b[1]
          BY <2>2, <4>1
        <4> QED
          BY <4>1, <4>2
      <3>3. encodingByteCount(r[1]) = Len(b) /\ ~isSingleByte(r[1])
        BY <3>1, <3>2, StartByte
      <3>4. charCodeByteCount(r, 0) = Len(b)
        BY <3>3 DEF charCodeByteCount, byte
      <3>5. isLong(t)
        BY <2>2, <3>1, <3>3, <3>4 DEF isLong, r
      <3> QED
        BY <1>1, <3>5 DEF t
    <2>4. CASE ~(c > 127)
      <3>1. b = <<c>>
        BY <1>2, <2>4, AsciiIsItsByte
      <3> HIDE DEF b
      <3>2. Len(t) = 1
        BY <2>2, <3>1
      <3> QED
        BY <1>1, <3>2 DEF t
    <2> QED
      BY <2>3, <2>4
  <1> QED
    BY <1>7, <1>8, <1>9

LEMMA RangesAreReadBack ==
    ASSUME NEW v \in Seq(Numbers), Len(v) = 1, NEW char \in BOOLEAN,
           char => \A i \in 1 .. Len(v) : isLegalCChar(v[i]), NEW err
    PROVE  /\ readRangeChar(escapeCodes(v, char, TRUE), char, err).value = v
           /\ isReadBack(readRangeChar(standardCodes(v), char, err).value, v, err)
  <1>1. readRangeChar(escapeCodes(v, char, TRUE), char, err).value = v
    <2> DEFINE inRange == TRUE
               t == escapeCodes(v, char, inRange)
    <2>1. inRange \in BOOLEAN
      OBVIOUS
    <2> HIDE DEF inRange
    <2>2. isText(t) /\ (Len(t) = 1 \/ isLong(t))
      BY <2>1, OneCodeIsOneCharacter
    <2>3. literalValue(t, char, err) = v
      BY <2>1, CodesAreReadBack
    <2> HIDE DEF t
    <2>4. readRangeChar(t, char, err).value = literalValue(t, char, err)
      BY <2>2, OneUnitAlike, LongCharacterAlike
    <2>5. readRangeChar(t, char, err).value = v
      BY <2>3, <2>4
    <2> QED
      BY <2>5 DEF t, inRange
  <1>2. /\ isText(standardCodes(v)) /\ Len(standardCodes(v)) = 1
    BY StandardIsAText
  <1>3. readRangeChar(standardCodes(v), char, err).value = literalValue(standardCodes(v), char, err)
    BY <1>2, OneUnitAlike
  <1>4. isReadBack(literalValue(standardCodes(v), char, err), v, err)
    BY StandardIsReadBack
  <1> QED
    BY <1>1, <1>3, <1>4

LEMMA LiteralsAreReadBack ==
    ASSUME NEW v \in Seq(Numbers), NEW char \in BOOLEAN,
           char => \A i \in 1 .. Len(v) : isLegalCChar(v[i]), NEW err
    PROVE  /\ readLiteral(escapeCodes(v, char, FALSE), char, err).value = v
           /\ isReadBack(readLiteral(standardCodes(v), char, err).value, v, err)
  <1>1. readLiteral(escapeCodes(v, char, FALSE), char, err).value = v
    <2> DEFINE inRange == FALSE
               t == escapeCodes(v, char, inRange)
    <2>1. inRange \in BOOLEAN
      OBVIOUS
    <2> HIDE DEF inRange
    <2>2. isText(t) /\ Raw(quoteOf(char)) \notin Range(t)
      BY <2>1, WrittenText
    <2>3. literalValue(t, char, err) = v
      BY <2>1, CodesAreReadBack
    <2> HIDE DEF t
    <2>4. readLiteral(t, char, err).value = v
      BY <2>2, <2>3, LiteralWithoutQuote
    <2> QED
      BY <2>4 DEF t, inRange
  <1>2. isText(standardCodes(v)) /\ Raw(quoteOf(char)) \notin Range(standardCodes(v))
    BY StandardIsAText, StandardIsReadBack
  <1>3. readLiteral(standardCodes(v), char, err).value = literalValue(standardCodes(v), char, err)
    BY <1>2, LiteralWithoutQuote
  <1>4. isReadBack(literalValue(standardCodes(v), char, err), v, err)
    BY StandardIsReadBack
  <1> QED
    BY <1>1, <1>3, <1>4

-----------------------------------------------------------------------------
(* The invariant: a text that was written is what one of the functions     *)
(* writes for something that one of the readers reads.                     *)

isString(v, char) ==
    v \in Seq(Bytes) /\ validBytes(v, char) /\ (char => \A i \in 1 .. Len(v) : isLegalCChar(v[i]))
areCodes(v, char, op) ==
    /\ v \in Seq(Numbers) /\ (char => \A i \in 1 .. Len(v) : isLegalCChar(v[i]))
    /\ op = "range" => Len(v) = 1

writtenString == source.op \in {"string", "aligned"} /\ isString(source.value, ischar)
                 /\ text = escapeString(source.value, ischar)
writtenCodes == source.op \in {"literal", "range"} /\ areCodes(source.value, ischar, source.op)
                /\ (text = escapeCodes(source.value, ischar, source.op = "range") \/ text = standardCodes(source.value))
WrittenInv == source = Given \/ writtenString \/ writtenCodes

LEMMA WhatIsRead ==
    ASSUME TextsInv
    PROVE  /\ isRead({"string", "aligned"}) => isString(got.value, ischar)
           /\ isRead({"literal", "range"}) => areCodes(got.value, ischar, got.op)
  <1>0. isText(text) /\ ischar \in BOOLEAN
    BY DEF TextsInv
  <1>1. isRead({"string", "aligned"}) => isString(got.value, ischar)
    <2> HAVE isRead({"string", "aligned"})
    <2>1. got.op \in {"string", "aligned"} /\ got # NothingRead /\ got.value # Null
      BY DEF isRead, NothingRead
    <2>2. got.value \in Seq(Bytes)
      BY <2>1, ReadValues
    <2>3. validBytes(got.value, ischar) /\ (ischar => \A i \in DOMAIN got.value : isLegalCChar(got.value[i]))
      BY StringsReadAreWhole DEF StringsAreWellFormed
    <2>4. DOMAIN got.value = 1 .. Len(got.value)
      BY <2>2
    <2> QED
      BY <2>2, <2>3, <2>4 DEF isString
  <1>2. isRead({"literal", "range"}) => areCodes(got.value, ischar, got.op)
    <2> HAVE isRead({"literal", "range"})
    <2>1. got.op \in {"literal", "range"} /\ got # NothingRead /\ got.value # Null
      BY DEF isRead, NothingRead
    <2>2. got.value \in Seq(Numbers)
      BY <2>1, ReadValues
    <2>3. CASE got.op = "literal"
      <3>1. got.value = readLiteral(text, ischar, errno).value
        BY <2>1, <2>3, ReadValues
      <3>2. ischar => \A i \in 1 .. Len(got.value) : isLegalCChar(got.value[i])
        BY <1>0, <2>1, <3>1, CharLiteralIsLegal
      <3> QED
        BY <2>2, <2>3, <3>2 DEF areCodes
    <2>4. CASE got.op = "range"
      <3>1. text # <<>> /\ got.value = readRangeChar(text, ischar, errno).value
        BY <2>1, <2>4, ReadValues
      <3>2. PICK c \in Numbers : got.value = <<c>> /\ (ischar => isLegalCChar(c))
        BY <1>0, <2>1, <3>1, RangeIsOneCode
      <3>3. Len(got.value) = 1 /\ got.value[1] = c
        BY <3>2
      <3>4. \A i \in 1 .. Len(got.value) : got.value[i] = c
        BY <3>3
      <3> QED
        BY <2>2, <3>2, <3>3, <3>4 DEF areCodes
    <2> QED
      BY <2>1, <2>3, <2>4
  <1> QED
    BY <1>1, <1>2

LEMMA WrittenInvKept == TextsInv /\ WrittenInv /\ [Next]_vars => WrittenInv'
  <1> SUFFICES ASSUME TextsInv, WrittenInv, [Next]_vars
               PROVE  WrittenInv'
    OBVIOUS
  <1>1. ASSUME text' = text, source' = source, ischar' = ischar
        PROVE  WrittenInv'
    <2>1. writtenString => writtenString'
      BY <1>1 DEF writtenString
    <2>2. writtenCodes => writtenCodes'
      BY <1>1 DEF writtenCodes
    <2>3. source = Given => source' = Given
      BY <1>1
    <2> QED
      BY <2>1, <2>2, <2>3 DEF WrittenInv, Given
  <1>2. ASSUME NEW written, Write(written)
        PROVE  /\ text' = written /\ ischar' = ischar /\ source'.op = got.op /\ source'.value = got.value
    BY <1>2 DEF Write
  <1>3. ASSUME NEW op \in Ops, Read(op)
        PROVE  WrittenInv'
    BY <1>1, <1>3 DEF Read
  <1>4. CASE EscapeString
    <2>1. isRead({"string", "aligned"}) /\ Write(escapeString(got.value, ischar))
      BY <1>4 DEF EscapeString
    <2>2. /\ text' = escapeString(got.value, ischar) /\ ischar' = ischar
          /\ source'.op = got.op /\ source'.value = got.value
      BY <1>2, <2>1
    <2>3. isString(got.value, ischar) /\ got.op \in {"string", "aligned"}
      BY <2>1, WhatIsRead DEF isRead
    <2>4. writtenString'
      BY <2>2, <2>3 DEF writtenString
    <2> QED
      BY <2>4 DEF WrittenInv
  <1>5. CASE EscapeCodes
    <2>1. isRead({"literal", "range"}) /\ Write(escapeCodes(got.value, ischar, got.op = "range"))
      BY <1>5 DEF EscapeCodes
    <2>2. /\ text' = escapeCodes(got.value, ischar, got.op = "range") /\ ischar' = ischar
          /\ source'.op = got.op /\ source'.value = got.value
      BY <1>2, <2>1
    <2>3. areCodes(got.value, ischar, got.op) /\ got.op \in {"literal", "range"}
      BY <2>1, WhatIsRead DEF isRead
    <2>4. writtenCodes'
      BY <2>2, <2>3 DEF writtenCodes
    <2> QED
      BY <2>4 DEF WrittenInv
  <1>6. CASE StandardCodes
    <2>1. isRead({"literal", "range"}) /\ Write(standardCodes(got.value))
      BY <1>6 DEF StandardCodes
    <2>2. /\ text' = standardCodes(got.value) /\ ischar' = ischar
          /\ source'.op = got.op /\ source'.value = got.value
      BY <1>2, <2>1
    <2>3. areCodes(got.value, ischar, got.op) /\ got.op \in {"literal", "range"}
      BY <2>1, WhatIsRead DEF isRead
    <2>4. writtenCodes'
      BY <2>2, <2>3 DEF writtenCodes
    <2> QED
      BY <2>4 DEF WrittenInv
  <1>7. CASE ParseLongBound
    BY <1>1, <1>7 DEF ParseLongBound
  <1>8. CASE UNCHANGED vars
    BY <1>1, <1>8 DEF vars
  <1> QED
    BY <1>3, <1>4, <1>5, <1>6, <1>7, <1>8 DEF Next

(* What escapeString, escapeRegexCharsAsCodes and the printer of literals  *)
(* and ranges write for something that was read is read back by the same   *)
(* reader as that; only the digits of numbers may be refused, after an     *)
(* ERANGE or past the last code point.                                     *)
THEOREM WhatIsWrittenIsReadBack == Spec => []WrittenReadsBack
  <1>1. TextsInv /\ WrittenInv => WrittenReadsBack
    <2> SUFFICES ASSUME TextsInv, WrittenInv, source # Given, got.op = source.op
                 PROVE  \/ got.value = source.value
                        \/ /\ got.value = Null
                           /\ errno = "ERANGE" \/ Range(source.value) \ CodePoints # {}
      BY DEF WrittenReadsBack
    <2> DEFINE v == source.value
    <2>1. ischar \in BOOLEAN
      BY DEF TextsInv
    <2>2. CASE writtenString
      <3>1. got.op \in {"string", "aligned"} /\ isString(v, ischar) /\ text = escapeString(v, ischar)
        BY <2>2 DEF writtenString
      <3> HIDE DEF v
      <3>2. got # NothingRead
        BY <3>1 DEF NothingRead
      <3> DEFINE multiline == got.op = "aligned"
      <3>3. got.value = unescapeString(text, ischar, multiline, errno) /\ multiline \in BOOLEAN
        BY <3>1, <3>2, ReadValues
      <3> HIDE DEF multiline
      <3>4. unescapeString(escapeString(v, ischar), ischar, multiline, errno) = v
        BY <2>1, <3>1, <3>3, StringsAreReadBack DEF isString
      <3> QED
        BY <3>1, <3>3, <3>4 DEF v
    <2>3. CASE writtenCodes
      <3>1. /\ got.op \in {"literal", "range"} /\ areCodes(v, ischar, got.op)
            /\ text = escapeCodes(v, ischar, got.op = "range") \/ text = standardCodes(v)
        BY <2>3 DEF writtenCodes
      <3> HIDE DEF v
      <3>2. got # NothingRead
        BY <3>1 DEF NothingRead
      <3>3. v \in Seq(Numbers) /\ (ischar => \A i \in 1 .. Len(v) : isLegalCChar(v[i])) /\ (got.op = "range" => Len(v) = 1)
        BY <3>1 DEF areCodes
      <3>4. CASE got.op = "literal"
        <4>1. got.value = readLiteral(text, ischar, errno).value
          BY <3>2, <3>4, ReadValues
        <4>2. text = escapeCodes(v, ischar, FALSE) \/ text = standardCodes(v)
          <5>1. (got.op = "range") = FALSE
            BY <3>4
          <5> QED
            BY <3>1, <5>1
        <4>3. /\ readLiteral(escapeCodes(v, ischar, FALSE), ischar, errno).value = v
              /\ isReadBack(readLiteral(standardCodes(v), ischar, errno).value, v, errno)
          BY <2>1, <3>3, LiteralsAreReadBack
        <4>4. isReadBack(got.value, v, errno)
          BY <4>1, <4>2, <4>3 DEF isReadBack
        <4> QED
          BY <4>4 DEF v, isReadBack
      <3>5. CASE got.op = "range"
        <4>1. got.value = readRangeChar(text, ischar, errno).value
          BY <3>2, <3>5, ReadValues
        <4>2. text = escapeCodes(v, ischar, TRUE) \/ text = standardCodes(v)
          <5>1. (got.op = "range") = TRUE
            BY <3>5
          <5> QED
            BY <3>1, <5>1
        <4>3. /\ readRangeChar(escapeCodes(v, ischar, TRUE), ischar, errno).value = v
              /\ isReadBack(readRangeChar(standardCodes(v), ischar, errno).value, v, errno)
          BY <2>1, <3>3, <3>5, RangesAreReadBack
        <4>4. isReadBack(got.value, v, errno)
          BY <4>1, <4>2, <4>3 DEF isReadBack
        <4> QED
          BY <4>4 DEF v, isReadBack
      <3> QED
        BY <3>1, <3>4, <3>5
    <2> QED
      BY <2>2, <2>3 DEF WrittenInv
  <1>2. Init => WrittenInv
    BY DEF Init, WrittenInv
  <1> QED
    BY <1>1, <1>2, TextsInvInitially, TextsInvKept, WrittenInvKept, PTL DEF Spec

=============================================================================
