--------------------------- MODULE MCArcMessages ---------------------------
(* Payloads: for fixed sizes a few of the right size and of its neighbours, *)
(* for strings all up to a length, and for arrays all with the counts, and  *)
(* few values, that matter.                                                 *)
EXTENDS ArcMessages

Strings(values, n) == UNION {[1 .. k -> values] : k \in 0 .. n}

OfSize(n) == {[k \in 1 .. n |-> v] : v \in {0, 1, (BYTE - 1)}} \cup {[k \in 1 .. n |-> k % BYTE]}

MCPayloads ==
  [kd \in Fixed \cup Reports |->
     CASE kd \in Fixed -> UNION {OfSize(FixedCodecs[kd].size + n) : n \in -1 .. 1}
       [] kd = "fc_video_status"  -> Strings({0, 1, 2}, 6) \cup {<<3, 0, 0, 0, 0>>}
       [] kd = "fc_video_layouts" ->
            Strings({0, 1}, 6) \cup {<<2>> \o t : t \in Strings({0, 1}, 5)} \cup {<<3, 0>>}
       [] kd = "fc_video_overlay" -> Strings({0, 1}, 6)
       [] kd = "power_status"     ->
            Strings({0, (BYTE - 1)}, 4)
              \cup {<<c>> \o t : c \in 1 .. 2, t \in [1 .. 6 -> {0, (BYTE - 1)}]}
       [] kd = "video_info"       -> Strings({0, 1}, 6)]

=============================================================================
