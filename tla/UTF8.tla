-------------------------------- MODULE UTF8 --------------------------------
(***************************************************************************)
(* UTF-8 as src/src/common.h and common.cpp read and write it: strings are *)
(* sequences of bytes, positions count bytes from 0.                       *)
(***************************************************************************)
EXTENDS Integers, Sequences

Bytes == 0 .. 255
LastCodePoint == 1114111         \* 0x10FFFF
CodePoints == 0 .. LastCodePoint

byte(s, i) == s[i + 1]           \* sstr->at(i)

(* UTF8_ENCODING_BYTE_COUNT: a table over the four high bits, which has 1  *)
(* for a continuation byte.                                                *)
encodingByteCount(b) ==
    LET high == b \div 16
    IN  IF high < 12 THEN 1 ELSE IF high < 14 THEN 2 ELSE IF high = 14 THEN 3 ELSE 4

isSingleByte(b) == b < 128
isContinuationByte(b) == b \div 64 = 2

(* The payload of the byte k places after the first of a character. *)
payload(s, curr, k) == byte(s, curr + k) % 64

(* Mutant: the last byte of the interval is taken for its end. *)
decodeExclusive(s, curr, epos) ==
    LET b == byte(s, curr)
        n == encodingByteCount(b)
    IN  IF isSingleByte(b) THEN b
        ELSE IF curr + n - 1 >= epos THEN 0
        ELSE IF n = 1 THEN b
        ELSE IF n = 2 THEN (b % 32) * 64 + payload(s, curr, 1)
        ELSE IF n = 3 THEN (b % 16) * 4096 + payload(s, curr, 1) * 64 + payload(s, curr, 2)
        ELSE (b % 8) * 262144 + payload(s, curr, 1) * 4096 + payload(s, curr, 2) * 64 + payload(s, curr, 3)

(* UnicodeRegexIterator::get: a character cut off by the end of the        *)
(* interval is 0, a continuation byte is itself.                           *)
decode(s, curr, epos) ==
    LET b == byte(s, curr)
        n == encodingByteCount(b)
    IN  IF isSingleByte(b) THEN b
        ELSE IF curr + n - 1 > epos THEN 0
        ELSE IF n = 1 THEN b
        ELSE IF n = 2 THEN (b % 32) * 64 + payload(s, curr, 1)
        ELSE IF n = 3 THEN (b % 16) * 4096 + payload(s, curr, 1) * 64 + payload(s, curr, 2)
        ELSE (b % 8) * 262144 + payload(s, curr, 1) * 4096 + payload(s, curr, 2) * 64 + payload(s, curr, 3)

(* What inc moves by, and what dec moves by: the number of continuation    *)
(* bytes up to and including the current one, 0 on the first byte of a     *)
(* character.  Where there are only continuation bytes before, there is no *)
(* such count: at(-1) throws.                                              *)
byteCountAfterFirst(s, curr) == encodingByteCount(byte(s, curr)) - 1    \* mutant
charCodeByteCount(s, curr) == encodingByteCount(byte(s, curr))

charCodeByteCountReverse(s, curr) ==
    IF isSingleByte(byte(s, curr)) THEN 1
    ELSE CHOOSE count \in 0 .. curr :
            /\ \A k \in 0 .. count - 1 : isContinuationByte(byte(s, curr - k))
            /\ ~isContinuationByte(byte(s, curr - count))

(* The encodings of a code point in 1, 2, 3 and 4 bytes. *)
bytes1(c) == <<c>>
bytes2(c) == <<192 + (c \div 64), 128 + (c % 64)>>
bytes3(c) == <<224 + (c \div 4096), 128 + ((c \div 64) % 64), 128 + (c % 64)>>
bytes4(c) == <<240 + (c \div 262144), 128 + ((c \div 4096) % 64),
               128 + ((c \div 64) % 64), 128 + (c % 64)>>

extractRegexCharToBytes(c) ==
    IF c <= 127 THEN bytes1(c)
    ELSE IF c < 2047 THEN bytes2(c)
    ELSE IF c < 65535 THEN bytes3(c)
    ELSE bytes4(c)

(* The encoding of the standard: the fewest bytes that hold the code point. *)
utf8(c) ==
    IF c < 128 THEN bytes1(c) ELSE IF c < 2048 THEN bytes2(c) ELSE IF c < 65536 THEN bytes3(c) ELSE bytes4(c)

=============================================================================
