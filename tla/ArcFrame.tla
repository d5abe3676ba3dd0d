------------------------------ MODULE ArcFrame ------------------------------
(***************************************************************************)
(* CRC, frame build and parse, the ACK frame and the in-place flag update  *)
(* of arc_protocol.c, on sequences of bytes:                               *)
(*   LEN SRC DST FLAGS SESSION SEQ_HI SEQ_LO FAMILY TYPE payload CRC CRC   *)
(* A byte has BITS bits, and every size is derived from it as in the code. *)
(* An arc_frame_t is a record; NULL arguments are not modelled.            *)
(***************************************************************************)
EXTENDS ArcCobs, Bitwise

CONSTANTS
  BITS,       \* bits of a byte (8 in the code)
  CRC_POLY    \* 0x1021 in the code

ASSUME BitWidth == BITS \in Nat /\ BYTE = 2 ^ BITS

ARC_HEADER_SIZE == 9
ARC_CRC_SIZE    == 2
ARC_OVERHEAD    == ARC_HEADER_SIZE + ARC_CRC_SIZE
ARC_MAX_PAYLOAD_SIZE == ARC_MAX_FRAME_SIZE - ARC_OVERHEAD

ARC_FLAG_ACK       == 4
ARC_FAMILY_NETMGMT == 0
ARC_NETMGMT_ACK    == 2

WORD == BYTE * BYTE      \* values of an uint16_t

arc_frame_t(Payloads) ==
  [src : Bytes, dst : Bytes, flags : Bytes, session : Bytes, seq : 0 .. WORD - 1,
   family : Bytes, type : Bytes, payload : Payloads]

Pair(w)     == <<w \div BYTE, w % BYTE>>      \* high byte first
Word(hi, lo) == hi * BYTE + lo

----------------------------------------------------------------------------
\* One bit of the CRC register.
CrcShift(crc) ==
  IF crc >= WORD \div 2 THEN ((2 * crc) % WORD) ^^ CRC_POLY ELSE 2 * crc

\* The register after n of the inner loop's turns.
CrcShifts[n \in 0 .. BITS, crc \in 0 .. WORD - 1] ==
  IF n = 0 THEN crc ELSE CrcShift(CrcShifts[n - 1, crc])

CrcByte(crc, b) == CrcShifts[BITS, crc ^^ (b * BYTE)]

\* Faulty variant: the last byte is left out.
arc_crc16_Short(data) ==
  LET crc[i \in 0 .. Len(data)] == IF i = 0 THEN WORD - 1 ELSE CrcByte(crc[i - 1], data[i])
  IN  crc[Len(data) - 1]

arc_crc16(data) ==
  LET crc[i \in 0 .. Len(data)] == IF i = 0 THEN WORD - 1 ELSE CrcByte(crc[i - 1], data[i])
  IN  crc[Len(data)]

\* LEN through the payload, followed by its CRC.
Sealed(body) == body \o Pair(arc_crc16(body))

Body(frame) == SubSeq(frame, 1, Len(frame) - ARC_CRC_SIZE)

\* LEN counts everything that follows it, the CRC included.
Header(f) ==
  <<ARC_OVERHEAD + Len(f.payload) - 1, f.src, f.dst, f.flags, f.session>>
    \o Pair(f.seq) \o <<f.family, f.type>>

arc_frame_build(out_capacity, f) ==
  IF Len(f.payload) > ARC_MAX_PAYLOAD_SIZE
  THEN [rc |-> "ARC_ERR_TOO_LONG", out |-> <<>>]
  ELSE IF out_capacity < ARC_OVERHEAD + Len(f.payload)
  THEN [rc |-> "ARC_ERR_BUFFER", out |-> <<>>]
  ELSE [rc |-> "ARC_OK", out |-> Sealed(Header(f) \o f.payload)]

\* The length checks shared by arc_frame_parse and arc_frame_set_flag.
LengthCheck(in) ==
  IF Len(in) < ARC_OVERHEAD THEN "ARC_ERR_TOO_SHORT"
  ELSE IF Len(in) > ARC_MAX_FRAME_SIZE THEN "ARC_ERR_TOO_LONG"
  ELSE IF in[1] + 1 # Len(in) THEN "ARC_ERR_BAD_LENGTH"
  ELSE "ARC_OK"

ParsedFields(in) ==
  [src |-> in[2], dst |-> in[3], flags |-> in[4], session |-> in[5],
   seq |-> Word(in[6], in[7]), family |-> in[8], type |-> in[9],
   payload |-> SubSeq(in, ARC_HEADER_SIZE + 1, Len(in) - ARC_CRC_SIZE)]

arc_frame_parse(in) ==
  IF LengthCheck(in) # "ARC_OK" THEN [rc |-> LengthCheck(in)]
  ELSE IF in # Sealed(Body(in)) THEN [rc |-> "ARC_ERR_BAD_CRC"]
  ELSE [rc |-> "ARC_OK", frame |-> ParsedFields(in)]

\* Faulty variant: the addresses are not swapped.
arc_frame_build_ack_NotSwapped(out_capacity, original, my_session, my_seq) ==
  arc_frame_build(out_capacity,
    [src |-> original.src, dst |-> original.dst, flags |-> ARC_FLAG_ACK,
     session |-> my_session, seq |-> my_seq, family |-> ARC_FAMILY_NETMGMT,
     type |-> ARC_NETMGMT_ACK, payload |-> Pair(original.seq)])

arc_frame_build_ack(out_capacity, original, my_session, my_seq) ==
  arc_frame_build(out_capacity,
    [src |-> original.dst, dst |-> original.src, flags |-> ARC_FLAG_ACK,
     session |-> my_session, seq |-> my_seq, family |-> ARC_FAMILY_NETMGMT,
     type |-> ARC_NETMGMT_ACK, payload |-> Pair(original.seq)])

\* Faulty variant: the flag is added, not OR'd.
arc_frame_set_flag_Added(frame, flag) ==
  IF LengthCheck(frame) # "ARC_OK" THEN [rc |-> LengthCheck(frame), frame |-> frame]
  ELSE [rc |-> "ARC_OK",
        frame |-> Sealed([Body(frame) EXCEPT ![4] = (@ + flag) % BYTE])]

\* The CRC is computed anew and the old one is not looked at.
arc_frame_set_flag(frame, flag) ==
  IF LengthCheck(frame) # "ARC_OK" THEN [rc |-> LengthCheck(frame), frame |-> frame]
  ELSE [rc |-> "ARC_OK", frame |-> Sealed([Body(frame) EXCEPT ![4] = @ | flag])]

=============================================================================
