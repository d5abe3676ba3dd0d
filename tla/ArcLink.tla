------------------------------ MODULE ArcLink ------------------------------
(***************************************************************************)
(* A frame on its way over two links: the originator builds it and sends   *)
(* it raw over a radio link that may damage one byte, a forwarder may set  *)
(* flags in place ("e.g. the superframe MAC tagging telemetry with         *)
(* ARC_FLAG_MORE") and passes it on over a serial link with COBS, where    *)
(* the receiver decodes and parses it and answers with an ACK.             *)
(***************************************************************************)
EXTENDS ArcFrame

CONSTANTS
  Sent,        \* the frames that are built
  FragileAt,   \* where the radio link damages a frame
  FlagsSet,    \* the flags a forwarder sets
  MaxSetFlag   \* bound on the calls of arc_frame_set_flag

VARIABLES
  pc,
  sent,       \* the arguments of arc_frame_build
  raw,        \* the frame's bytes at the forwarder
  damaged,    \* the radio link changed a byte ...
  restamped,  \* ... before a forwarder called arc_frame_set_flag
  flags,      \* the flags set by the forwarder
  wire,       \* the bytes on the serial link
  got         \* what arc_frame_parse returned at the receiver

vars == <<pc, sent, raw, damaged, restamped, flags, wire, got>>

NoFrame == [rc |-> "none"]

Init ==
  /\ pc = "idle" /\ sent \in Sent /\ raw = <<>> /\ wire = <<>> /\ got = NoFrame
  /\ damaged = FALSE /\ restamped = FALSE /\ flags = <<>>

----------------------------------------------------------------------------
Build ==
  /\ pc = "idle"
  /\ LET b == arc_frame_build(ARC_MAX_FRAME_SIZE, sent)
     IN  /\ raw' = b.out
         /\ pc' = IF b.rc = "ARC_OK" THEN "radio" ELSE "refused"
  /\ UNCHANGED <<sent, damaged, restamped, flags, wire, got>>

\* The radio link changes byte k by the bits of noise.
Damage(k, noise) ==
  /\ pc = "radio"
  /\ ~damaged /\ flags = <<>>
  /\ k <= Len(raw)
  /\ raw' = [raw EXCEPT ![k] = @ ^^ noise]
  /\ damaged' = TRUE
  /\ UNCHANGED <<pc, sent, restamped, flags, wire, got>>

\* A frame that arc_frame_set_flag refuses is passed on as it is.
SetFlag(flag) ==
  /\ pc = "radio"
  /\ Len(flags) < MaxSetFlag
  /\ LET s == arc_frame_set_flag(raw, flag)
     IN  /\ raw' = s.frame
         /\ restamped' = (restamped \/ (damaged /\ s.rc = "ARC_OK"))
  /\ flags' = Append(flags, flag)
  /\ UNCHANGED <<pc, sent, damaged, wire, got>>

\* The buffers have the sizes the header defines for them.
SendSerial ==
  /\ pc = "radio"
  /\ wire' = arc_cobs_encode(raw, ARC_MAX_ENCODED_SIZE).out
  /\ pc' = "serial"
  /\ UNCHANGED <<sent, raw, damaged, restamped, flags, got>>

Receive ==
  /\ pc = "serial"
  /\ LET dec == arc_cobs_decode(wire, ARC_MAX_FRAME_SIZE)
     IN  got' = IF dec.rc = "ARC_OK" THEN arc_frame_parse(dec.out) ELSE [rc |-> dec.rc]
  /\ pc' = "received"
  /\ UNCHANGED <<sent, raw, damaged, restamped, flags, wire>>

Next ==
  \/ Build
  \/ \E k \in FragileAt, noise \in Bytes \ {0} : Damage(k, noise)
  \/ \E flag \in FlagsSet : SetFlag(flag)
  \/ SendSerial
  \/ Receive

Spec == Init /\ [][Next]_vars

----------------------------------------------------------------------------
(* Properties.                                                             *)

AllFlags == LET f[n \in 0 .. Len(flags)] == IF n = 0 THEN sent.flags ELSE f[n - 1] | flags[n]
            IN  f[Len(flags)]

\* What the receiver parses is what the originator built, with the flags the
\* forwarder set, across build, arc_frame_set_flag, COBS both ways and parse.
CleanFrameArrives ==
  pc = "received" /\ ~damaged
    => got = [rc |-> "ARC_OK", frame |-> [sent EXCEPT !.flags = AllFlags]]

\* A frame that one damaged byte reached is never accepted, wherever the byte
\* is (LEN, header, payload or CRC), unless a forwarder set a flag in it.
DamageIsDetected ==
  pc = "received" /\ damaged /\ ~restamped => got.rc # "ARC_OK"

\* The ACK built from the received frame can be built and parsed, goes back to
\* the originator and names the SEQ the originator gave the frame.
AckFindsItsWayBack ==
  pc = "received" /\ got.rc = "ARC_OK" /\ ~damaged
    => LET ack == arc_frame_parse(
                    arc_frame_build_ack(ARC_MAX_FRAME_SIZE, got.frame, 0, 0).out)
       IN  /\ ack.rc = "ARC_OK"
           /\ ack.frame.src = sent.dst /\ ack.frame.dst = sent.src
           /\ Len(ack.frame.payload) = 2
           /\ Word(ack.frame.payload[1], ack.frame.payload[2]) = sent.seq

=============================================================================
