----------------------------- MODULE MCArcLink -----------------------------
EXTENDS ArcLink

MCFrame(dst, fl, q, p) ==
  [src |-> 1, dst |-> dst, flags |-> fl, session |-> MAX_CODE, seq |-> q,
   family |-> 3, type |-> 1, payload |-> p]

\* Headers with and without zero bytes and flags that are set again, and payloads
\* of every interesting length: none, few bytes, full size with and without
\* zeros, and one byte too long.
MCSent ==
  {MCFrame(0, 0, 0, <<>>),
   MCFrame(2, 9, BYTE, <<MAX_CODE, 0>>),
   MCFrame(2, 9, WORD - 1, [n \in 1 .. ARC_MAX_PAYLOAD_SIZE |-> n]),
   MCFrame(2, 0, WORD - 1, [n \in 1 .. ARC_MAX_PAYLOAD_SIZE |-> 0]),
   MCFrame(2, 9, 1, [n \in 1 .. ARC_MAX_PAYLOAD_SIZE + 1 |-> 1])}

MCFragileAt == 1 .. ARC_MAX_FRAME_SIZE

=============================================================================
