---------------------------- MODULE ArcMessages ----------------------------
(***************************************************************************)
(* A node that has a struct for one kind of message: it fills it, or       *)
(* decodes one payload after the other into it, whatever arrives, and at   *)
(* some time encodes its content and sends it on.                          *)
(***************************************************************************)
EXTENDS FixedMessages, ReportMessages

CONSTANTS
  Payloads,       \* the payloads that may arrive, for each kind of message
  MaxDecodes      \* bound on the number of payloads

Fixed   == DOMAIN FixedCodecs
Reports == {"fc_video_status", "fc_video_layouts", "fc_video_overlay", "power_status",
            "video_info"}

ASSUME PayloadsAreBytes ==
  \A kind \in Fixed \cup Reports : Payloads[kind] \subseteq Seq(Bytes)

\* A struct before its first use: zeroed, or with what its memory held before.
Fills == {0, 2}

Filled(kind, fill) ==
  CASE kind = "fc_video_status"  -> arc_fc_video_status_report_t(fill)
    [] kind = "fc_video_layouts" -> arc_fc_video_layouts_report_t(fill)
    [] kind = "fc_video_overlay" -> overlay_text(fill)
    [] kind = "power_status"     -> arc_power_status_report_t(fill)
    [] kind = "video_info"       -> arc_video_info_report_t(fill)

encode(kind, msg, out_capacity) ==
  CASE kind \in Fixed            -> fixed_encode(FixedCodecs[kind], msg, out_capacity)
    [] kind = "fc_video_status"  -> arc_fc_video_status_report_encode(msg, out_capacity)
    [] kind = "fc_video_layouts" -> arc_fc_video_layouts_report_encode(msg, out_capacity)
    [] kind = "fc_video_overlay" -> arc_fc_video_set_overlay_encode(msg, out_capacity)
    [] kind = "power_status"     -> arc_power_status_report_encode(msg, out_capacity)
    [] kind = "video_info"       -> arc_video_info_report_encode(msg, out_capacity)

decode(kind, in, msg) ==
  CASE kind \in Fixed            -> fixed_decode(FixedCodecs[kind], in, msg)
    [] kind = "fc_video_status"  -> arc_fc_video_status_report_decode(in, msg)
    [] kind = "fc_video_layouts" -> arc_fc_video_layouts_report_decode(in, msg)
    [] kind = "fc_video_overlay" -> arc_fc_video_set_overlay_decode(in, msg)
    [] kind = "power_status"     -> arc_power_status_report_decode(in, msg)
    [] kind = "video_info"       -> arc_video_info_report_decode(in, msg)

----------------------------------------------------------------------------
(* What an application puts into a struct of fixed size: one field at an   *)
(* edge of a type, the others with values that tell them apart.            *)

Edges(type) ==
  {v \in {0, 1, -1, Modulus(type) \div 2 - 1, Modulus(type) \div 2,
          -(Modulus(type) \div 2), Modulus(type) - 1} : v \in Values(type)}

Samples(c) ==
  UNION {{[name \in Names(c) |-> IF name = c.fields[k].name THEN v
                                 ELSE (Position(c, name) * 7) % (BYTE \div 2)] :
            v \in Edges(c.fields[k].type)} : k \in DOMAIN c.fields}

VARIABLES kind, msg, zeroed, payload, rc, decodes, encoded, out_capacity

mvars == <<kind, msg, zeroed, payload, rc, decodes, encoded, out_capacity>>

Init ==
  /\ \/ kind \in Fixed /\ msg \in Samples(FixedCodecs[kind]) /\ zeroed = TRUE
     \/ /\ kind \in Reports
        /\ \E fill \in Fills : msg = Filled(kind, fill) /\ zeroed = (fill = 0)
  /\ payload = <<>> /\ rc = "none" /\ decodes = 0
  /\ encoded = Refused("none") /\ out_capacity = 0

Decode(in) ==
  /\ decodes < MaxDecodes /\ out_capacity = 0
  /\ LET d == decode(kind, in, msg) IN rc' = d.rc /\ msg' = d.msg
  /\ payload' = in
  /\ decodes' = decodes + 1
  /\ UNCHANGED <<kind, zeroed, encoded, out_capacity>>

\* The struct has content: of the application, or of an accepted payload.
HasContent == zeroed \/ rc = "ARC_OK"

Encode(capacity) ==
  /\ out_capacity = 0 /\ HasContent
  /\ out_capacity' = capacity
  /\ encoded' = encode(kind, msg, capacity)
  /\ UNCHANGED <<kind, msg, zeroed, payload, rc, decodes>>

\* The size that always suffices.
Room == IF kind \in Fixed THEN FixedCodecs[kind].size ELSE ARC_MAX_PAYLOAD_SIZE

Capacities == IF kind \in Fixed THEN {Room - 1, Room} ELSE 1 .. Room

Next == \/ \E in \in Payloads[kind] : Decode(in)
        \/ \E capacity \in Capacities : Encode(capacity)

Spec == Init /\ [][Next]_mvars

----------------------------------------------------------------------------
(* Properties.                                                             *)

\* The decoder of SET_OUTPUT accepts states that its encoder rejects.
ReservedState == kind \in Fixed /\ Rejected(FixedCodecs[kind], msg)

\* An INFO_REPORT is decoded by its length: a name with a NUL inside is cut
\* when it is sent on.
CutByNul == kind = "video_info" /\ Nuls(SubSeq(payload, 2, Len(payload) - 1)) # {}

\* A payload that is accepted replaces all that it speaks of, whatever earlier
\* payloads, accepted or refused halfway, left in the struct: the node can send
\* on exactly the bytes it got.
PayloadComesBack ==
  rc = "ARC_OK" /\ ~CutByNul /\ ~ReservedState => encode(kind, msg, Room) = Encoded(payload)

\* A peer decodes the message of fixed size that was encoded, at the edges of
\* every type and with the fields in their places.
MessageComesBack ==
  kind \in Fixed /\ encoded.rc = "ARC_OK"
    => decode(kind, encoded.out, msg) = Decoded("ARC_OK", msg)

\* No sequence of payloads, refused ones included, leaves a struct with a count
\* out of range or a name without a terminator, which the encoder refuses as the
\* caller's mistake.  A struct that was not zeroed is excepted while the last
\* payload was refused: its count may be new and its names still unset.
StaysEncodable ==
  HasContent /\ ~ReservedState => encode(kind, msg, Room).rc # "ARC_ERR_BAD_ARG"

\* An encoder writes no more bytes than its caller provides, though it checks a
\* size that is computed, or defined in the header, apart from the writing.
WritesWithinCapacity == Len(encoded.out) <= out_capacity

=============================================================================
