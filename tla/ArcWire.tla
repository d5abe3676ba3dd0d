------------------------------ MODULE ArcWire ------------------------------
(* Integers on the wire, as every message codec of arc_messages_*.c writes   *)
(* them: big-endian, two's complement, one, two or four bytes.               *)
EXTENDS Integers, Sequences

CONSTANT BYTE      \* values of an uint8_t (2^8 in the code)

ASSUME EvenByte == BYTE \in Nat \ {0} /\ BYTE % 2 = 0

Bytes == 0 .. BYTE - 1

Unsigned(width) == [width |-> width, signed |-> FALSE]
Signed(width)   == [width |-> width, signed |-> TRUE]

uint8_t  == Unsigned(1)
uint16_t == Unsigned(2)
uint32_t == Unsigned(4)
int8_t   == Signed(1)
int16_t  == Signed(2)
int32_t  == Signed(4)

Modulus(type) == BYTE ^ type.width

Values(type) ==
  IF type.signed THEN -(Modulus(type) \div 2) .. Modulus(type) \div 2 - 1
                 ELSE 0 .. Modulus(type) - 1

\* (uint8_t)((v >> 8 * k) & 0xFF) for each byte, after the cast to unsigned.
ToWire(v, type) ==
  [k \in 1 .. type.width |->
     ((v % Modulus(type)) \div BYTE ^ (type.width - k)) % BYTE]

\* The bytes shifted into an unsigned integer.
Shifted(bytes) ==
  LET u[k \in 0 .. Len(bytes)] == IF k = 0 THEN 0 ELSE u[k - 1] * BYTE + bytes[k]
  IN  u[Len(bytes)]

FromWire(bytes, type) ==
  IF type.signed /\ Shifted(bytes) >= Modulus(type) \div 2
  THEN Shifted(bytes) - Modulus(type) ELSE Shifted(bytes)

----------------------------------------------------------------------------
(* What encoders and decoders return: the bytes, and the struct as the     *)
(* decoder leaves it.                                                      *)

Encoded(bytes)   == [rc |-> "ARC_OK", out |-> bytes]
Refused(rc)      == [rc |-> rc, out |-> <<>>]
Decoded(rc, msg) == [rc |-> rc, msg |-> msg]

=============================================================================
