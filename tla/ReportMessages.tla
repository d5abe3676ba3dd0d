--------------------------- MODULE ReportMessages ---------------------------
(***************************************************************************)
(* The messages of variable size: counted arrays and terminated strings.   *)
(* A decoder writes into the struct of its caller while it still checks    *)
(* the payload, so a payload that is refused may leave the struct half     *)
(* written.  Each struct is given with the value that fills it before it   *)
(* is used: zero, or whatever its memory held.                             *)
(***************************************************************************)
EXTENDS ArcWire, SequencesExt

CONSTANTS
  ARC_MAX_PAYLOAD_SIZE,
  ARC_FC_VIDEO_STATUS_MAX_SLOTS, ARC_FC_VIDEO_STATUS_MAX_SENDERS,
  ARC_FC_VIDEO_MAX_LAYOUTS, ARC_FC_VIDEO_LAYOUT_NAME_CAP,
  ARC_POWER_MAX_CHANNELS, ARC_VIDEO_NAME_CAP,
  TextCap         \* the buffer that the caller of set_overlay_decode provides

ASSUME CapsArePositive ==
  /\ ARC_MAX_PAYLOAD_SIZE > 0
  /\ ARC_FC_VIDEO_LAYOUT_NAME_CAP > 0 /\ ARC_VIDEO_NAME_CAP > 0

----------------------------------------------------------------------------
(* What the codecs have in common.                                         *)

\* The checks of an encoder that knows how many bytes it needs.
Written(needed, bytes, out_capacity) ==
  IF needed > ARC_MAX_PAYLOAD_SIZE THEN Refused("ARC_ERR_TOO_LONG")
  ELSE IF out_capacity < needed THEN Refused("ARC_ERR_BUFFER")
  ELSE Encoded(bytes)

\* memcpy(array, values): the rest of the array keeps its old content.
Overwrite(array, values) ==
  [i \in DOMAIN array |-> IF i <= Len(values) THEN values[i] ELSE array[i]]

Nuls(chars) == {i \in DOMAIN chars : chars[i] = 0}

\* The characters before the first NUL; a char array without one has no string.
Terminated(chars) == Nuls(chars) # {}
String(chars) ==
  SubSeq(chars, 1, (CHOOSE i \in Nuls(chars) : \A j \in Nuls(chars) : i <= j) - 1)

\* Faulty variant, not used: the terminator is forgotten.
NameTooLong_NoTerminator(name, cap) == Len(name) > cap

NameTooLong(name, cap) == Len(name) + 1 > cap

\* Faulty variant, not used: the old name shows behind a shorter new one.
StoredName_NoTerminator(chars, name) == Overwrite(chars, name)

StoredName(chars, name) == Overwrite(chars, Append(name, 0))

\* The k-th of the groups of `width` bytes that follow the first `off` bytes.
Group(in, off, width, k) == SubSeq(in, off + (k - 1) * width + 1, off + k * width)

----------------------------------------------------------------------------
(* FC_VIDEO STATUS_REPORT.                                                 *)

arc_fc_video_status_report_t(fill) ==
  [slot_count |-> fill, slots |-> [i \in 1 .. ARC_FC_VIDEO_STATUS_MAX_SLOTS |-> fill],
   sender_count |-> fill,
   senders |-> [i \in 1 .. ARC_FC_VIDEO_STATUS_MAX_SENDERS |-> <<fill, fill>>]]

ARC_FC_VIDEO_STATUS_REPORT_SIZE(slot_count, sender_count) ==
  2 + slot_count + 2 * sender_count

arc_fc_video_status_report_encode(msg, out_capacity) ==
  IF \/ msg.slot_count > ARC_FC_VIDEO_STATUS_MAX_SLOTS
     \/ msg.sender_count > ARC_FC_VIDEO_STATUS_MAX_SENDERS
  THEN Refused("ARC_ERR_BAD_ARG")
  ELSE Written(ARC_FC_VIDEO_STATUS_REPORT_SIZE(msg.slot_count, msg.sender_count),
               <<msg.slot_count>> \o SubSeq(msg.slots, 1, msg.slot_count)
                 \o <<msg.sender_count>>
                 \o FlattenSeq(SubSeq(msg.senders, 1, msg.sender_count)),
               out_capacity)

arc_fc_video_status_report_decode(in, msg) ==
  LET slot_count   == in[1]
      withSlots    == [msg EXCEPT !.slot_count = slot_count,
                         !.slots = Overwrite(@, SubSeq(in, 2, slot_count + 1))]
      sender_count == in[slot_count + 2]
  IN  IF Len(in) < 2 THEN Decoded("ARC_ERR_BAD_LENGTH", msg)
      ELSE IF slot_count > ARC_FC_VIDEO_STATUS_MAX_SLOTS
        THEN Decoded("ARC_ERR_TOO_LONG", msg)
      ELSE IF Len(in) < 1 + slot_count + 1 THEN Decoded("ARC_ERR_BAD_LENGTH", msg)
      ELSE IF sender_count > ARC_FC_VIDEO_STATUS_MAX_SENDERS
        THEN Decoded("ARC_ERR_TOO_LONG", withSlots)
      ELSE IF Len(in) # ARC_FC_VIDEO_STATUS_REPORT_SIZE(slot_count, sender_count)
        THEN Decoded("ARC_ERR_BAD_LENGTH", withSlots)
      ELSE Decoded("ARC_OK",
             [withSlots EXCEPT !.sender_count = sender_count,
                !.senders = Overwrite(@, [k \in 1 .. sender_count |->
                              Group(in, slot_count + 2, 2, k)])])

----------------------------------------------------------------------------
(* FC_VIDEO LAYOUTS_REPORT.                                                *)

arc_fc_video_layouts_report_t(fill) ==
  [count |-> fill,
   names |-> [i \in 1 .. ARC_FC_VIDEO_MAX_LAYOUTS |->
                [k \in 1 .. ARC_FC_VIDEO_LAYOUT_NAME_CAP |-> fill]]]

\* Faulty variant, not used: the terminators are forgotten.
layouts_needed_NoTerminators(names) == FoldSeq(LAMBDA name, n : n + Len(String(name)), 1, names)

\* The first loop adds up what the second one will write.
layouts_needed(names) == FoldSeq(LAMBDA name, n : n + Len(String(name)) + 1, 1, names)

arc_fc_video_layouts_report_encode(msg, out_capacity) ==
  LET names == SubSeq(msg.names, 1, msg.count)
      out   == <<msg.count>>
                 \o FlattenSeq([i \in DOMAIN names |-> Append(String(names[i]), 0)])
  IN  IF \/ msg.count > ARC_FC_VIDEO_MAX_LAYOUTS
         \/ \E i \in DOMAIN names : ~Terminated(names[i])
      THEN Refused("ARC_ERR_BAD_ARG")
      ELSE Written(layouts_needed(names), out, out_capacity)

\* The names of the payload, one for each NUL after the count; what follows the
\* last NUL is not terminated.  `bad` are the names at which the loop stops.
arc_fc_video_layouts_report_decode(in, msg) ==
  LET count   == in[1]
      ends    == SetToSortSeq(Nuls(in) \ {1}, <)
      Name(i) == SubSeq(in, IF i = 1 THEN 2 ELSE ends[i - 1] + 1, ends[i] - 1)
      bad     == {i \in 1 .. count : \/ i > Len(ends)
                                     \/ NameTooLong(Name(i), ARC_FC_VIDEO_LAYOUT_NAME_CAP)}
      stop    == CHOOSE i \in bad : \A j \in bad : i <= j
      read    == IF bad = {} THEN count ELSE stop - 1
      off     == IF count = 0 THEN 1 ELSE ends[count]
      stored  == [count |-> count,
                  names |-> [i \in DOMAIN msg.names |->
                               IF i <= read THEN StoredName(msg.names[i], Name(i))
                                            ELSE msg.names[i]]]
  IN  IF Len(in) < 1 THEN Decoded("ARC_ERR_BAD_LENGTH", msg)
      ELSE IF count > ARC_FC_VIDEO_MAX_LAYOUTS THEN Decoded("ARC_ERR_TOO_LONG", msg)
      ELSE IF bad # {}
        THEN Decoded(IF stop > Len(ends) THEN "ARC_ERR_BAD_LENGTH"
                                         ELSE "ARC_ERR_TOO_LONG", stored)
      ELSE Decoded(IF off # Len(in) THEN "ARC_ERR_BAD_LENGTH" ELSE "ARC_OK", stored)

----------------------------------------------------------------------------
(* FC_VIDEO SET_OVERLAY: the buffer, and the length that decode returned.  *)

overlay_text(fill) == [text |-> [k \in 1 .. TextCap |-> fill], text_len |-> fill]

arc_fc_video_set_overlay_encode(msg, out_capacity) ==
  Written(msg.text_len + 1, Append(SubSeq(msg.text, 1, msg.text_len), 0), out_capacity)

arc_fc_video_set_overlay_decode(in, msg) ==
  IF Len(in) = 0 \/ in[Len(in)] # 0 THEN Decoded("ARC_ERR_BAD_LENGTH", msg)
  ELSE IF TextCap < Len(in) THEN Decoded("ARC_ERR_BUFFER", msg)
  ELSE Decoded("ARC_OK", [text |-> Overwrite(msg.text, in), text_len |-> Len(in) - 1])

----------------------------------------------------------------------------
(* POWER STATUS_REPORT.                                                    *)

arc_power_status_report_t(fill) ==
  [channel_count |-> fill,
   channels |-> [i \in 1 .. ARC_POWER_MAX_CHANNELS |-> [state |-> fill, current_ma |-> fill]],
   bus_voltage_mv |-> fill, temp_c |-> fill]

ARC_POWER_STATUS_REPORT_SIZE(channel_count) == 1 + 3 * channel_count + 3

arc_power_status_report_encode(msg, out_capacity) ==
  IF msg.channel_count > ARC_POWER_MAX_CHANNELS THEN Refused("ARC_ERR_BAD_ARG")
  ELSE Written(ARC_POWER_STATUS_REPORT_SIZE(msg.channel_count),
               <<msg.channel_count>>
                 \o FlattenSeq([i \in 1 .. msg.channel_count |->
                      <<msg.channels[i].state>>
                        \o ToWire(msg.channels[i].current_ma, uint16_t)])
                 \o ToWire(msg.bus_voltage_mv, uint16_t) \o ToWire(msg.temp_c, int8_t),
               out_capacity)

arc_power_status_report_decode(in, msg) ==
  LET count == in[1]
      off   == 1 + 3 * count
      Channel(c) == [state |-> c[1], current_ma |-> FromWire(Tail(c), uint16_t)]
  IN  IF Len(in) < 1 THEN Decoded("ARC_ERR_BAD_LENGTH", msg)
      ELSE IF count > ARC_POWER_MAX_CHANNELS THEN Decoded("ARC_ERR_TOO_LONG", msg)
      ELSE IF Len(in) # ARC_POWER_STATUS_REPORT_SIZE(count)
        THEN Decoded("ARC_ERR_BAD_LENGTH", msg)
      ELSE Decoded("ARC_OK",
             [channel_count  |-> count,
              channels       |-> Overwrite(msg.channels,
                                   [k \in 1 .. count |-> Channel(Group(in, 1, 3, k))]),
              bus_voltage_mv |-> FromWire(SubSeq(in, off + 1, off + 2), uint16_t),
              temp_c         |-> FromWire(SubSeq(in, off + 3, off + 3), int8_t)])

----------------------------------------------------------------------------
(* VIDEO INFO_REPORT.                                                      *)

arc_video_info_report_t(fill) ==
  [paired_fc |-> fill, name |-> [k \in 1 .. ARC_VIDEO_NAME_CAP |-> fill]]

arc_video_info_report_encode(msg, out_capacity) ==
  LET name_len == Len(String(msg.name))
  IN  IF ~Terminated(msg.name) THEN Refused("ARC_ERR_BAD_ARG")
      ELSE Written(1 + name_len + 1,
                   <<msg.paired_fc>> \o Append(SubSeq(msg.name, 1, name_len), 0),
                   out_capacity)

arc_video_info_report_decode(in, msg) ==
  LET name == SubSeq(in, 2, Len(in) - 1)
  IN  IF Len(in) < 2 \/ in[Len(in)] # 0 THEN Decoded("ARC_ERR_BAD_LENGTH", msg)
      ELSE IF NameTooLong(name, ARC_VIDEO_NAME_CAP) THEN Decoded("ARC_ERR_TOO_LONG", msg)
      ELSE Decoded("ARC_OK", [paired_fc |-> in[1], name |-> StoredName(msg.name, name)])

=============================================================================
