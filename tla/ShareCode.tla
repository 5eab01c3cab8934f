----------------------------- MODULE ShareCode -----------------------------
(***************************************************************************)
(* DecodeShareCode (sharecode.go): a sharecode is a number in base 57,     *)
(* least significant digit first, whose bytes are three fields.            *)
(***************************************************************************)
EXTENDS Naturals, Sequences

CONSTANTS Length,           \* characters of a sharecode: 25
          Chars,            \* characters that the regular expression admits: 62
          Base,             \* and that the dictionary has: 57
          Byte,             \* 256
          MatchBytes, ReservationBytes, PortBytes    \* 8, 8 and 2

Bytes == MatchBytes + ReservationBytes + PortBytes

\* What the regular expression lets through: each character by its place in
\* the dictionary, those outside it from Base on.
Words == [1..Length -> 0..(Chars - 1)]

\* The number whose digits are a sequence, most significant first.
Value(base, digits) ==
    LET acc[i \in 0..Len(digits)] == IF i = 0 THEN 0 ELSE acc[i - 1] * base + digits[i]
    IN acc[Len(digits)]

Backwards(s) == [i \in 1..Len(s) |-> s[Len(s) + 1 - i]]

\* What is left of a number as its digits are peeled off, the least
\* significant first.
Quotients(number, base, n) ==
    LET left[i \in 0..n] == IF i = 0 THEN number ELSE left[i - 1] \div base
    IN left

\* The digits peeled off, in that order.
Digits(number, base, n) ==
    LET left == Quotients(number, base, n)
    IN [i \in 1..n |-> left[i - 1] % base]

Number(word) == Value(Base, Backwards(word))

\* Mutant: only what is too large by a whole byte is oversized.
FitsAlmost(number) == Quotients(number, Byte, Bytes + 1)[Bytes + 1] = 0

\* At most 18 bytes: nothing is left after them.
Fits(number) == Quotients(number, Byte, Bytes)[Bytes] = 0

\* be: the bytes of the number, padded on the left.
BigEndian(number) == Backwards(Digits(number, Byte, Bytes))

\* leUint64 and leUint16.
LittleEndian(bytes) == Value(Byte, Backwards(bytes))

\* The error of DecodeShareCode.
Malformed == [error |-> "not a valid sharecode"]

DecodeShareCode(word) ==
    LET le == Backwards(BigEndian(Number(word)))
        From(first, n) == LittleEndian(SubSeq(le, first, first + n - 1))
    IN IF (\A i \in 1..Length : word[i] < Base) /\ Fits(Number(word))
       THEN [matchID       |-> From(1, MatchBytes),
             reservationID |-> From(1 + MatchBytes, ReservationBytes),
             tvPort        |-> From(1 + MatchBytes + ReservationBytes, PortBytes)]
       ELSE Malformed

\* 57^25 exceeds 2^144: the largest number of 18 bytes has room in the
\* characters of a sharecode.
ASSUME ShareCodeAssumption ==
    /\ {Length, Base, MatchBytes, ReservationBytes, PortBytes} \subseteq Nat \ {0}
    /\ Chars \in Nat /\ Base <= Chars
    /\ Byte \in Nat \ {0, 1}
    /\ Quotients(Value(Byte, [i \in 1..Bytes |-> Byte - 1]), Base, Length)[Length] = 0

-----------------------------------------------------------------------------
(* The encoder of sharecode_test.go, as the reference.                     *)

\* The numbers that n bytes can hold: uint64 and uint16.
Held(n) == {LittleEndian(bytes) : bytes \in [1..n -> 0..(Byte - 1)]}

Ids == [matchID : Held(MatchBytes), reservationID : Held(ReservationBytes),
        tvPort : Held(PortBytes)]

\* The fields one after the other, read as one number; the first remainder
\* peeled off is the first character.
Encode(id) ==
    LET le == Digits(id.matchID, Byte, MatchBytes)
              \o Digits(id.reservationID, Byte, ReservationBytes)
              \o Digits(id.tvPort, Byte, PortBytes)
    IN Digits(Value(Byte, Backwards(le)), Base, Length)

\* Decoding undoes encoding, and encoding undoes decoding.
DecodeIsExact ==
    /\ \A id \in Ids : DecodeShareCode(Encode(id)) = id
    /\ \A word \in Words : DecodeShareCode(word) # Malformed =>
                               Encode(DecodeShareCode(word)) = word
=============================================================================
