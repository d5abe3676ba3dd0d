--------------------------- MODULE FixedMessages ---------------------------
(***************************************************************************)
(* The messages of fixed size.  A struct is the sequence of its fields.    *)
(* Encoder and decoder check the size that the header defines, and each    *)
(* has its own list of indices into the payload, one for each field.       *)
(***************************************************************************)
EXTENDS ArcWire, SequencesExt

F(name, type) == [name |-> name, type |-> type]

Fields(names, type) == [k \in 1 .. Len(names) |-> F(names[k], type)]

\* Field k is written to out[writes_at[k]] and the bytes after it, and read from
\* in[reads_at[k]] and the bytes after it.
Codec(size, fields, writes_at, reads_at) ==
  [size |-> size, fields |-> fields, writes_at |-> writes_at, reads_at |-> reads_at]

----------------------------------------------------------------------------
(* NETMGMT and RADIO.                                                      *)

arc_netmgmt_ack_t == <<F("seq", uint16_t)>>
arc_netmgmt_ack   == Codec(2, arc_netmgmt_ack_t, <<0>>, <<0>>)

arc_netmgmt_beacon_t ==
  <<F("hop_index", uint32_t), F("frame_count", uint8_t), F("flags", uint8_t)>>
arc_netmgmt_beacon == Codec(6, arc_netmgmt_beacon_t, <<0, 4, 5>>, <<0, 4, 5>>)

arc_radio_set_frequency_t == <<F("frequency_hz", uint32_t)>>
arc_radio_set_frequency   == Codec(4, arc_radio_set_frequency_t, <<0>>, <<0>>)

arc_radio_set_tx_power_t == <<F("tx_power_dbm", int8_t)>>
arc_radio_set_tx_power   == Codec(1, arc_radio_set_tx_power_t, <<0>>, <<0>>)

arc_radio_set_phy_profile_t == <<F("profile_id", uint8_t)>>
arc_radio_set_phy_profile   == Codec(1, arc_radio_set_phy_profile_t, <<0>>, <<0>>)

arc_radio_status_report_t ==
  <<F("frequency_hz", uint32_t)>> \o Fields(<<"tx_power_dbm", "rssi_dbm", "snr_db">>, int8_t)
    \o <<F("error_flags", uint8_t)>> \o Fields(<<"packets_rx", "packets_tx">>, uint16_t)
arc_radio_status_report ==
  Codec(12, arc_radio_status_report_t,
        <<0, 4, 5, 6, 7, 8, 10>>,
        <<0, 4, 5, 6, 7, 8, 10>>)

----------------------------------------------------------------------------
(* FC_COORD.                                                               *)

\* How all three telemetry messages begin, and what two of them share.
Motion ==
  <<F("time_ms", uint32_t), F("stage", uint8_t)>>
    \o Fields(<<"accel_x_mg", "accel_y_mg", "accel_z_mg",
                "vel_x_cms", "vel_y_cms", "vel_z_cms">>, int16_t)
Power    == <<F("temp_cdeg", int16_t), F("voltage_mv", uint16_t)>>
Attitude == Fields(<<"roll_cdeg", "pitch_cdeg", "yaw_cdeg">>, int16_t)

arc_fc_coord_flight_telemetry_t ==
  Motion \o Fields(<<"lat_e7", "lon_e7", "alt_cm">>, int32_t) \o Power
    \o <<F("gps_fix_quality", uint8_t)>> \o Attitude
arc_fc_coord_flight_telemetry ==
  Codec(40, arc_fc_coord_flight_telemetry_t,
        <<0, 4, 5, 7, 9, 11, 13, 15, 17, 21, 25, 29, 31, 33, 34, 36, 38>>,
        <<0, 4, 5, 7, 9, 11, 13, 15, 17, 21, 25, 29, 31, 33, 34, 36, 38>>)

arc_fc_coord_airbrake_telemetry_t ==
  Motion \o Power \o Attitude \o <<F("airbrake_angle_cdeg", int16_t)>>
    \o Fields(<<"predicted_apogee_cm", "original_apogee_estimate_cm",
                "blueraven_alt_cm">>, int32_t)
arc_fc_coord_airbrake_telemetry ==
  Codec(41, arc_fc_coord_airbrake_telemetry_t,
        <<0, 4, 5, 7, 9, 11, 13, 15, 17, 19, 21, 23, 25, 27, 29, 33, 37>>,
        <<0, 4, 5, 7, 9, 11, 13, 15, 17, 19, 21, 23, 25, 27, 29, 33, 37>>)

arc_fc_coord_payload_telemetry_t ==
  Motion \o Power \o Attitude \o Fields(<<"motor_x_um", "motor_y_um">>, int32_t)
    \o <<F("percent_complete", uint8_t)>>
\* Faulty variant, not used: motor_y_um is read where motor_x_um is.
arc_fc_coord_payload_telemetry_SameMotor ==
  Codec(36, arc_fc_coord_payload_telemetry_t,
        <<0, 4, 5, 7, 9, 11, 13, 15, 17, 19, 21, 23, 25, 27, 31, 35>>,
        <<0, 4, 5, 7, 9, 11, 13, 15, 17, 19, 21, 23, 25, 27, 27, 35>>)

arc_fc_coord_payload_telemetry ==
  Codec(36, arc_fc_coord_payload_telemetry_t,
        <<0, 4, 5, 7, 9, 11, 13, 15, 17, 19, 21, 23, 25, 27, 31, 35>>,
        <<0, 4, 5, 7, 9, 11, 13, 15, 17, 19, 21, 23, 25, 27, 31, 35>>)

arc_fc_coord_set_airbrake_angle_t == <<F("angle_cdeg", int16_t)>>
arc_fc_coord_set_airbrake_angle ==
  Codec(2, arc_fc_coord_set_airbrake_angle_t,
        <<0>>,
        <<0>>)

----------------------------------------------------------------------------
(* POWER, VIDEO and FC_VIDEO.                                              *)

arc_power_set_output_t == Fields(<<"channel", "state">>, uint8_t)
arc_power_set_output   == Codec(2, arc_power_set_output_t, <<0, 1>>, <<0, 1>>)

arc_power_set_output_mask_t == Fields(<<"enable_mask", "state_mask">>, uint8_t)
arc_power_set_output_mask   == Codec(2, arc_power_set_output_mask_t, <<0, 1>>, <<0, 1>>)

arc_power_board_telemetry_t ==
  Fields(<<"output_on_mask", "output_fault_mask">>, uint8_t)
    \o <<F("battery_voltage_mv", uint16_t), F("charge_status", uint8_t),
         F("charge_voltage_mv", uint16_t)>>
arc_power_board_telemetry ==
  Codec(7, arc_power_board_telemetry_t,
        <<0, 1, 2, 4, 5>>,
        <<0, 1, 2, 4, 5>>)

arc_video_set_bitrate_t == <<F("bitrate_bps", uint32_t)>>
arc_video_set_bitrate   == Codec(4, arc_video_set_bitrate_t, <<0>>, <<0>>)

arc_video_status_report_t ==
  Fields(<<"state", "cpu_temp_c", "cpu_load_pct">>, uint8_t)
    \o <<F("free_disk_mb", uint16_t), F("rssi_dbm", int8_t)>>
    \o Fields(<<"tx_frames", "dropped_frames">>, uint16_t)
arc_video_status_report ==
  Codec(10, arc_video_status_report_t,
        <<0, 1, 2, 3, 5, 6, 8>>,
        <<0, 1, 2, 3, 5, 6, 8>>)

arc_fc_video_set_layout_t == <<F("layout_id", uint8_t)>>
arc_fc_video_set_layout   == Codec(1, arc_fc_video_set_layout_t, <<0>>, <<0>>)

arc_fc_video_set_source_t == Fields(<<"slot_id", "sender_addr">>, uint8_t)
arc_fc_video_set_source   == Codec(2, arc_fc_video_set_source_t, <<0, 1>>, <<0, 1>>)

FixedCodecs ==
  [netmgmt_ack |-> arc_netmgmt_ack,
   netmgmt_beacon |-> arc_netmgmt_beacon,
   radio_set_frequency |-> arc_radio_set_frequency,
   radio_set_tx_power |-> arc_radio_set_tx_power,
   radio_set_phy_profile |-> arc_radio_set_phy_profile,
   radio_status_report |-> arc_radio_status_report,
   fc_coord_flight_telemetry |-> arc_fc_coord_flight_telemetry,
   fc_coord_airbrake_telemetry |-> arc_fc_coord_airbrake_telemetry,
   fc_coord_payload_telemetry |-> arc_fc_coord_payload_telemetry,
   fc_coord_set_airbrake_angle |-> arc_fc_coord_set_airbrake_angle,
   power_set_output |-> arc_power_set_output,
   power_set_output_mask |-> arc_power_set_output_mask,
   power_board_telemetry |-> arc_power_board_telemetry,
   video_set_bitrate |-> arc_video_set_bitrate,
   video_status_report |-> arc_video_status_report,
   fc_video_set_layout |-> arc_fc_video_set_layout,
   fc_video_set_source |-> arc_fc_video_set_source]

----------------------------------------------------------------------------
ARC_POWER_OFF == 0
ARC_POWER_ON  == 1

\* Only SET_OUTPUT looks at a value, and only when it is encoded.
Rejected(codec, msg) ==
  codec = arc_power_set_output /\ msg["state"] \notin {ARC_POWER_OFF, ARC_POWER_ON}

\* The bytes that are assigned, in the order of the fields; Unset is what the
\* caller's buffer held before.
Unset == -1

Assigned(codec, msg) ==
  LET Width(k) == codec.fields[k].type.width
      At(b)    == {k \in DOMAIN codec.fields :
                     b \in codec.writes_at[k] .. codec.writes_at[k] + Width(k) - 1}
      Byte(b, k) == ToWire(msg[codec.fields[k].name], codec.fields[k].type)
                      [b - codec.writes_at[k] + 1]
      used     == Max({codec.size} \cup
                      {codec.writes_at[k] + Width(k) : k \in DOMAIN codec.fields})
  IN  [i \in 1 .. used |-> IF At(i - 1) = {} THEN Unset ELSE Byte(i - 1, Max(At(i - 1)))]

fixed_encode(codec, msg, out_capacity) ==
  IF out_capacity < codec.size THEN Refused("ARC_ERR_BUFFER")
  ELSE IF Rejected(codec, msg) THEN Refused("ARC_ERR_BAD_ARG")
  ELSE Encoded(Assigned(codec, msg))

FieldBytes(codec, in, k) ==
  SubSeq(in, codec.reads_at[k] + 1, codec.reads_at[k] + codec.fields[k].type.width)

Names(codec) == {codec.fields[k].name : k \in DOMAIN codec.fields}
Position(codec, name) == CHOOSE k \in DOMAIN codec.fields : codec.fields[k].name = name

fixed_decode(codec, in, msg) ==
  IF Len(in) # codec.size THEN Decoded("ARC_ERR_BAD_LENGTH", msg)
  ELSE Decoded("ARC_OK",
         [name \in Names(codec) |->
            LET k == Position(codec, name)
            IN  FromWire(FieldBytes(codec, in, k), codec.fields[k].type)])

=============================================================================
