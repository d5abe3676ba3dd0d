----------------------------- MODULE CobsCoder -----------------------------
(***************************************************************************)
(* One call of arc_cobs_encode whose result goes to arc_cobs_decode, or    *)
(* one call of arc_cobs_decode on bytes from a link, one turn of the code's *)
(* loops per step.  The encoder's buffer has the size the header asks for  *)
(* or one byte less, the decoder's the size the header asks for.           *)
(***************************************************************************)
EXTENDS ArcCobs

CONSTANTS
  Inputs,     \* what callers encode
  Chunks      \* what links hand to the decoder

ASSUME ByteStrings == Inputs \subseteq Seq(Bytes) /\ Chunks \subseteq Seq(Bytes)

VARIABLES
  pc,           \* "encode", "refused", "decode" or "done"
  in,           \* the input of the encoder; <<>> when there was none
  out_capacity, \* the encoder's
  i, e,         \* the encoder's loop
  wire,         \* the input of the decoder
  encoded,      \* TRUE when wire comes from the encoder
  d             \* the decoder's loop

vars == <<pc, in, out_capacity, i, e, wire, encoded, d>>

Init ==
  /\ i = 0 /\ e = EncodeStart /\ encoded = FALSE /\ d = DecodeStart
  /\ \/ /\ pc = "encode" /\ wire = <<>> /\ in \in Inputs
        /\ out_capacity \in {Len(in) + 1, Len(in) + 2}
     \/ pc = "decode" /\ wire \in Chunks /\ in = <<>> /\ out_capacity = 0

----------------------------------------------------------------------------
EncodeRefused ==
  /\ pc = "encode"
  /\ ~EncodeFits(Len(in), out_capacity)
  /\ pc' = "refused"
  /\ UNCHANGED <<in, out_capacity, i, e, wire, encoded, d>>

EncodeStep ==
  /\ pc = "encode"
  /\ EncodeFits(Len(in), out_capacity)
  /\ i < Len(in)
  /\ e' = EncodeByte(e, in[i + 1])
  /\ i' = i + 1
  /\ UNCHANGED <<pc, in, out_capacity, wire, encoded, d>>

EncodeReturn ==
  /\ pc = "encode"
  /\ EncodeFits(Len(in), out_capacity)
  /\ i = Len(in)
  /\ wire' = EncodeEnd(e)
  /\ encoded' = TRUE
  /\ pc' = "decode"
  /\ UNCHANGED <<in, out_capacity, i, e, d>>

DecodeRefused ==
  /\ pc = "decode"
  /\ ~DecodeAccepts(wire)
  /\ d' = [d EXCEPT !.rc = "ARC_ERR_BAD_COBS"]
  /\ pc' = "done"
  /\ UNCHANGED <<in, out_capacity, i, e, wire, encoded>>

DecodeStep ==
  /\ pc = "decode"
  /\ DecodeAccepts(wire)
  /\ ~DecodeDone(wire, d)
  /\ d' = DecodeRun(wire, Len(wire) - 2, d)
  /\ UNCHANGED <<pc, in, out_capacity, i, e, wire, encoded>>

DecodeReturn ==
  /\ pc = "decode"
  /\ DecodeAccepts(wire)
  /\ DecodeDone(wire, d)
  /\ pc' = "done"
  /\ UNCHANGED <<in, out_capacity, i, e, wire, encoded, d>>

Next == \/ EncodeRefused \/ EncodeStep \/ EncodeReturn
        \/ DecodeRefused \/ DecodeStep \/ DecodeReturn

Spec == Init /\ [][Next]_vars

----------------------------------------------------------------------------
(* Properties.                                                             *)

\* No input as long as a frame makes the encoder write past the out_capacity
\* it was given, although it checks it once and before it knows the runs.
EncodedFits ==
  encoded /\ Len(in) <= ARC_MAX_FRAME_SIZE => Len(wire) <= out_capacity

\* The same for an input of any length, as the header has it: a buffer of len + 2
\* bytes is enough ("worst case: 1 pointer + delimiter").
AnyInputFits == encoded => Len(wire) <= out_capacity

\* The delimiter is the only zero of an encoded frame, whatever its runs are:
\* a receiver that splits at zeros sees one frame.
DelimiterIsOnlyZero ==
  encoded => \A k \in 1 .. Len(wire) : wire[k] = 0 <=> k = Len(wire)

\* Decoding gives back the input, for runs up to and beyond the longest one.
RoundTrip == encoded /\ pc = "done" => d.rc = "ARC_OK" /\ d.out = in

\* The buffer of len - 2 bytes that the header asks for holds whatever the
\* decoder makes of len bytes, from the encoder or from a noisy link: the
\* decoder never runs out of room and never reads past the delimiter.
DecodedFits ==
  /\ d.rc # "ARC_ERR_BUFFER"
  /\ Len(d.out) <= Len(wire)
  /\ pc = "done" /\ d.rc = "ARC_OK" => Len(d.out) <= Len(wire) - 2

=============================================================================
