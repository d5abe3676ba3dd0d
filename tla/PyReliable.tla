----------------------------- MODULE PyReliable -----------------------------
(***************************************************************************)
(* ReliableEndpoint of reliable.py as operators on a record: the state     *)
(* machine of arc_reliable.c without fixed tables.  _pending is a dict,    *)
(* which keeps the order in which keys were added; it is the sequence of   *)
(* its values.  _seen is a set and _source_sessions a function.  A frame   *)
(* has the fields of the C model.                                          *)
(*                                                                         *)
(* The clock is a float that does not wrap, and only the difference of a   *)
(* deadline and the present matters: due is that difference, 0 when it is  *)
(* not positive.                                                           *)
(***************************************************************************)
EXTENDS Integers, SequencesExt

CONSTANTS
  BYTE,         \* values of a byte
  timeout_s,    \* in steps of the clock
  max_retries

ASSUME PyParameters ==
  BYTE \in Nat \ {0} /\ timeout_s \in Nat \ {0} /\ max_retries \in Nat

SEQ_VALUES == BYTE * BYTE

ReliableEndpoint(my_addr, session, first_seq) ==
  [my_addr |-> my_addr, session |-> session, next_seq |-> first_seq % SEQ_VALUES,
   pending |-> <<>>, seen |-> {}, source_sessions |-> <<>>]

take_seq(e) == [e EXCEPT !.next_seq = (@ + 1) % SEQ_VALUES]

----------------------------------------------------------------------------
(* The sending side.                                                       *)

\* The frame of a send, before it takes its SEQ.  FLAG_RELIABLE is in its flags
\* when the caller put it there or the argument reliable added it.
Frame(e, dst, flagged, payload) ==
  [src |-> e.my_addr, dst |-> dst, reliable |-> flagged, ack |-> FALSE,
   session |-> e.session, seq |-> e.next_seq, payload |-> payload]

pending_key(f) == <<f.dst, f.session, f.seq>>

Has(e, key) == \E i \in DOMAIN e.pending : pending_key(e.pending[i].frame) = key

\* The entries that change do so where they are in the dict.
Updated(e, key, P(_)) ==
  [e EXCEPT !.pending = [i \in DOMAIN @ |->
     IF pending_key(@[i].frame) = key THEN P(@[i]) ELSE @[i]]]

\* Where the dict has a key; no two of its entries have the same.
Position(e, key) == CHOOSE i \in DOMAIN e.pending : pending_key(e.pending[i].frame) = key

Pop(e, key) ==
  IF Has(e, key) THEN [e EXCEPT !.pending = RemoveAt(@, Position(e, key))] ELSE e

\* An entry with the same key is replaced.
Park(e, f) ==
  LET p == [frame |-> f, due |-> timeout_s, retries |-> 0]
  IN  IF Has(e, pending_key(f)) THEN Updated(e, pending_key(f), LAMBDA old : p)
                                ELSE [e EXCEPT !.pending = Append(@, p)]

handle_ack(e, f) ==
  IF Len(f.payload) # 2 THEN e
  ELSE Pop(e, <<f.src, e.session, f.payload[1] * BYTE + f.payload[2]>>)

\* Faulty variant, not used: entries without retries left are not listed.
expired_Retryable(e) ==
  SelectSeq(e.pending, LAMBDA p : p.due = 0 /\ p.retries < max_retries)

\* The list that tick makes before it works on any of it.  The code keeps the
\* keys of these entries.
expired(e) == SelectSeq(e.pending, LAMBDA p : p.due = 0)

\* Faulty variant, not used: one retry too few.
Exhausted_Early(p) == p.retries + 1 >= max_retries

\* Faulty variant, not used: one retry too many.
Exhausted_Late(p) == p.retries > max_retries

Exhausted(p) == p.retries >= max_retries

\* An expired entry that is sent again, by a tick that was called `lag` ago.
Retried(e, key, lag) ==
  Updated(e, key, LAMBDA p :
    [p EXCEPT !.retries = @ + 1, !.due = IF lag > timeout_s THEN 0 ELSE timeout_s - lag])

\* A whole tick that finds the keys of S expired, with callbacks that return.
\* rest[i] is what it leaves of the first i entries.
tick(e, S) ==
  LET Due(p)   == pending_key(p.frame) \in S
      Again(p) == IF Due(p) THEN [p EXCEPT !.retries = @ + 1, !.due = timeout_s] ELSE p
      rest[i \in 0 .. Len(e.pending)] ==
        IF i = 0 THEN <<>>
        ELSE IF Due(e.pending[i]) /\ Exhausted(e.pending[i]) THEN rest[i - 1]
        ELSE Append(rest[i - 1], Again(e.pending[i]))
  IN  [e EXCEPT !.pending = rest[Len(e.pending)]]

\* The deadline of an entry comes nearer, for all entries.
Sooner(p) == [p EXCEPT !.due = IF @ = 0 THEN 0 ELSE @ - 1]

Elapse(e) == [e EXCEPT !.pending = [i \in DOMAIN @ |-> Sooner(@[i])]]

----------------------------------------------------------------------------
(* The receiving side.                                                     *)

seen_key(f) == <<f.src, f.session, f.seq>>

send_ack(e, f) ==
  [src |-> e.my_addr, dst |-> f.src, reliable |-> FALSE, ack |-> TRUE,
   session |-> e.session, seq |-> e.next_seq,
   payload |-> <<f.seq \div BYTE, f.seq % BYTE>>]

SameSession(e, f) ==
  f.src \in DOMAIN e.source_sessions /\ e.source_sessions[f.src] = f.session

\* The session of the frame is noted for its source.
WithSession(sessions, f) ==
  [s \in DOMAIN sessions \cup {f.src} |-> IF s = f.src THEN f.session ELSE sessions[s]]

\* Faulty variant, not used: the keys of all peers are forgotten.
reset_seen_if_session_changed_All(e, f) ==
  IF SameSession(e, f) THEN e
  ELSE [e EXCEPT !.source_sessions = WithSession(@, f), !.seen = {}]

\* Faulty variant, not used: the new session is not noted.
reset_seen_if_session_changed_NotNoted(e, f) ==
  IF SameSession(e, f) THEN e ELSE [e EXCEPT !.seen = {key \in @ : key[1] # f.src}]

reset_seen_if_session_changed(e, f) ==
  IF SameSession(e, f) THEN e
  ELSE [e EXCEPT !.source_sessions = WithSession(@, f),
                 !.seen = {key \in @ : key[1] # f.src}]

\* receive of a reliable frame up to send_frame of the ACK ...
Acknowledge(e, f) == take_seq(reset_seen_if_session_changed(e, f))

IsDuplicate(e, f) == seen_key(f) \in reset_seen_if_session_changed(e, f).seen

\* ... and after it.
Remember(e, f) == [e EXCEPT !.seen = @ \cup {seen_key(f)}]

=============================================================================
