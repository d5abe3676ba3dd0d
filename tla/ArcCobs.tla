------------------------------ MODULE ArcCobs ------------------------------
(***************************************************************************)
(* The COBS byte stuffing of arc_protocol.c as operators on sequences of   *)
(* byte values.  A byte has BYTE values (2^8 in the code), so the largest  *)
(* code byte is BYTE - 1 (0xFF) and a run has at most BYTE - 2 literals.   *)
(* Each loop of the code is a step operator on the loop's variables; the   *)
(* coder of module CobsCoder takes them one at a time, and the functions   *)
(* below run them to the end.                                              *)
(***************************************************************************)
EXTENDS Integers, Sequences

CONSTANT BYTE     \* values of an uint8_t

ASSUME ByteWidth == BYTE \in Nat /\ BYTE >= 5

Bytes    == 0 .. BYTE - 1
MAX_CODE == BYTE - 1

ARC_COBS_OVERHEAD    == 2
ARC_MAX_ENCODED_SIZE == BYTE - 2
ARC_MAX_FRAME_SIZE   == ARC_MAX_ENCODED_SIZE - ARC_COBS_OVERHEAD

----------------------------------------------------------------------------
(* arc_cobs_encode.  e.out holds what was written so far, with a zero in   *)
(* the hole at e.code_idx (counted from 1) until the run is closed.        *)

EncodeStart == [out |-> <<0>>, code_idx |-> 1, code |-> 1]

\* Fill the hole of the current run and open a new one.
CloseRun(e) ==
  [out      |-> Append([e.out EXCEPT ![e.code_idx] = e.code], 0),
   code_idx |-> Len(e.out) + 1,
   code     |-> 1]

Literal(e, b) == [e EXCEPT !.out = Append(@, b), !.code = @ + 1]

\* Faulty variant, not used in the model: a long run is not closed, so that the
\* code byte wraps to zero.
EncodeByte_NoMaxRun(e, b) ==
  IF b = 0 THEN CloseRun(e) ELSE [Literal(e, b) EXCEPT !.code = @ % BYTE]

\* One turn of the loop over the input.  A run of the greatest length is closed
\* at once, at the end of the input too.
EncodeByte(e, b) ==
  IF b = 0 THEN CloseRun(e)
  ELSE IF e.code + 1 = MAX_CODE THEN CloseRun(Literal(e, b)) ELSE Literal(e, b)

\* The last code and the delimiter.
EncodeEnd(e) == Append([e.out EXCEPT ![e.code_idx] = e.code], 0)

\* Faulty variant: the delimiter is not counted.
EncodeFits_NoDelimiter(len, out_capacity) == out_capacity >= len + 1

EncodeFits(len, out_capacity) == out_capacity >= len + 2

arc_cobs_encode(in, out_capacity) ==
  LET loop[i \in 0 .. Len(in)] ==
        IF i = 0 THEN EncodeStart ELSE EncodeByte(loop[i - 1], in[i])
  IN  IF EncodeFits(Len(in), out_capacity)
      THEN [rc |-> "ARC_OK", out |-> EncodeEnd(loop[Len(in)])]
      ELSE [rc |-> "ARC_ERR_BUFFER", out |-> <<>>]

----------------------------------------------------------------------------
(* arc_cobs_decode.  d.in_idx counts the bytes consumed.                   *)

DecodeStart == [in_idx |-> 0, out |-> <<>>, rc |-> "ARC_OK"]

DecodeAccepts(in) == Len(in) >= 2 /\ in[Len(in)] = 0

\* Faulty variants: a zero follows every run, or every run but the longest.
ImplicitZero_Always(code, in_idx, encoded_end) == in_idx < encoded_end
ImplicitZero_AtEnd(code, in_idx, encoded_end)  == code # MAX_CODE

\* A zero follows the literals unless the run has the greatest length or the
\* encoded data end with it.
ImplicitZero(code, in_idx, encoded_end) == code # MAX_CODE /\ in_idx < encoded_end

\* One turn of the loop over the runs, with the checks in the code's order.
DecodeRun(in, out_capacity, d) ==
  LET encoded_end == Len(in) - 1
      code        == in[d.in_idx + 1]
      in_idx      == d.in_idx + code      \* after the literals
      copied      == d.out \o SubSeq(in, d.in_idx + 2, in_idx)
  IN  IF code = 0 \/ in_idx > encoded_end
      THEN [d EXCEPT !.rc = "ARC_ERR_BAD_COBS"]
      ELSE IF Len(copied) > out_capacity
      THEN [d EXCEPT !.rc = "ARC_ERR_BUFFER"]
      ELSE IF ~ImplicitZero(code, in_idx, encoded_end)
      THEN [d EXCEPT !.in_idx = in_idx, !.out = copied]
      ELSE IF Len(copied) >= out_capacity
      THEN [d EXCEPT !.in_idx = in_idx, !.out = copied, !.rc = "ARC_ERR_BUFFER"]
      ELSE [d EXCEPT !.in_idx = in_idx, !.out = Append(copied, 0)]

DecodeDone(in, d) == d.rc # "ARC_OK" \/ d.in_idx >= Len(in) - 1

arc_cobs_decode(in, out_capacity) ==
  LET loop[n \in 0 .. Len(in)] ==
        IF n = 0 THEN DecodeStart
        ELSE LET d == loop[n - 1]
             IN  IF DecodeDone(in, d) THEN d ELSE DecodeRun(in, out_capacity, d)
  IN  IF DecodeAccepts(in) THEN loop[Len(in)]
      ELSE [DecodeStart EXCEPT !.rc = "ARC_ERR_BAD_COBS"]

=============================================================================
