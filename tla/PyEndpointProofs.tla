-------------------------- MODULE PyEndpointProofs --------------------------
(***************************************************************************)
(* Proofs about PyEndpoint, for every set of calls and inbound frames, all *)
(* timers and all behaviours of callbacks.                                 *)
(***************************************************************************)
EXTENDS PyEndpoint, SequenceTheorems, FiniteSetTheorems, TLAPS

----------------------------------------------------------------------------
(* Types.                                                                  *)

PySeqs == 0 .. SEQ_VALUES - 1

FrameT == [src : {my_addr}, dst : {c.dst : c \in Calls}, reliable : {TRUE}, ack : {FALSE},
           session : {session}, seq : PySeqs, payload : {<<c>> : c \in Calls}]

PendingT == [frame : FrameT, due : Nat, retries : Nat]

Peers == {f.src : f \in Inbound}
PeerSessions == {f.session : f \in Inbound}

EndpointT ==
  [my_addr : {my_addr}, session : {session}, next_seq : PySeqs, pending : Seq(PendingT),
   seen : SUBSET {seen_key(f) : f \in Inbound},
   source_sessions : UNION {[A -> PeerSessions] : A \in SUBSET Peers}]

Outcomes == {"unused", "sent", "parked", "acked", "failed"}

PyTypes ==
  /\ e \in EndpointT
  /\ lag \in Nat /\ draws \in Nat
  /\ status \in [Calls -> Outcomes] /\ attempts \in [Calls -> Nat]

----------------------------------------------------------------------------
(* The inductive invariant of the sending side.                            *)

Key(i) == pending_key(e.pending[i].frame)

\* s is one of the last d SEQs before a.
TakenBefore(s, a, d) == \E j \in 1 .. d : s = a - j \/ s = a - j + SEQ_VALUES

\* The SEQs of parked frames were drawn before.
SeqInv ==
  \A i \in DOMAIN e.pending : TakenBefore(e.pending[i].frame.seq, e.next_seq, draws)

\* The entries of the dict are those of the calls that wait.
EntriesInv ==
  /\ \A i \in DOMAIN e.pending :
       /\ e.pending[i].retries <= max_retries
       /\ status[CallOf(e.pending[i])] = "parked"
       /\ attempts[CallOf(e.pending[i])] = e.pending[i].retries + 1
  /\ \A i, j \in DOMAIN e.pending : CallOf(e.pending[i]) = CallOf(e.pending[j]) => i = j
  /\ \A i, j \in DOMAIN e.pending : Key(i) = Key(j) => i = j
  /\ \A c \in Calls : status[c] = "parked" =>
       \E i \in DOMAIN e.pending : CallOf(e.pending[i]) = c
  /\ \A c \in Calls : status[c] = "failed" => attempts[c] = max_retries + 1

SendingInv == PyTypes /\ SeqInv /\ EntriesInv

\* No SEQ is drawn twice.
SeqsAreEnough == MaxDraws <= SEQ_VALUES

----------------------------------------------------------------------------
(* Operators.                                                              *)

\* SEQs and their successor.
LEMMA SeqRange ==
  /\ SEQ_VALUES \in Nat \ {0}
  /\ first_seq % SEQ_VALUES \in PySeqs
  /\ \A a \in PySeqs : /\ (a + 1) % SEQ_VALUES \in PySeqs
                       /\ (a + 1) % SEQ_VALUES = IF a + 1 < SEQ_VALUES THEN a + 1 ELSE 0
<1>1. SEQ_VALUES \in Nat \ {0}
  BY PyParameters DEF SEQ_VALUES
<1> QED BY <1>1, PyArguments DEF PySeqs

\* A SEQ drawn before is not the next one while there are unused ones, and has
\* been drawn before the one after it; and so has the next one then.
LEMMA SeqDrawn ==
  ASSUME NEW a \in PySeqs, NEW d \in Nat, d < SEQ_VALUES,
         NEW b, b = (a + 1) % SEQ_VALUES
  PROVE  /\ TakenBefore(a, b, d + 1)
         /\ \A s \in PySeqs : TakenBefore(s, a, d) => s # a /\ TakenBefore(s, b, d + 1)
<1>1. SEQ_VALUES \in Nat /\ a \in Nat /\ a < SEQ_VALUES
  BY SeqRange DEF PySeqs
<1>2. b = IF a + 1 < SEQ_VALUES THEN a + 1 ELSE 0
  BY SeqRange
<1>3. TakenBefore(a, b, d + 1)
  <2>1. 1 \in 1 .. d + 1 /\ (a = b - 1 \/ a = b - 1 + SEQ_VALUES)
    BY <1>1, <1>2
  <2> QED BY <2>1 DEF TakenBefore
<1>4. ASSUME NEW s \in PySeqs, TakenBefore(s, a, d)
      PROVE  s # a /\ TakenBefore(s, b, d + 1)
  <2>1. PICK j \in 1 .. d : s = a - j \/ s = a - j + SEQ_VALUES
    BY <1>4 DEF TakenBefore
  <2>2. s # a
    BY <1>1, <2>1
  <2>3. s \in Nat /\ s < SEQ_VALUES
    BY <1>1 DEF PySeqs
  <2>4. j + 1 \in 1 .. d + 1 /\ (s = b - (j + 1) \/ s = b - (j + 1) + SEQ_VALUES)
    BY <1>1, <1>2, <2>1, <2>3
  <2> QED BY <2>2, <2>4 DEF TakenBefore
<1> QED BY <1>3, <1>4

\* del and pop of a dict: the entries behind move up.
LEMMA Removed ==
  ASSUME NEW S, NEW s \in Seq(S), NEW k \in DOMAIN s, NEW t, t = RemoveAt(s, k)
  PROVE  /\ t \in Seq(S) /\ DOMAIN t = 1 .. Len(s) - 1
         /\ \A j \in DOMAIN t : \E i \in DOMAIN s \ {k} :
              t[j] = s[i] /\ i = IF j < k THEN j ELSE j + 1
         /\ \A i \in DOMAIN s \ {k} : \E j \in DOMAIN t : t[j] = s[i]
<1>0. Len(s) \in Nat /\ k \in 1 .. Len(s) /\ DOMAIN s = 1 .. Len(s)
  OBVIOUS
<1>1. PICK u : u = SubSeq(s, 1, k - 1)
  OBVIOUS
<1>2. PICK v : v = SubSeq(s, k + 1, Len(s))
  OBVIOUS
<1>3. u \in Seq(S) /\ Len(u) = k - 1 /\ \A j \in 1 .. k - 1 : u[j] = s[j]
  BY <1>0, <1>1, SubSeqProperties
<1>4. v \in Seq(S) /\ Len(v) = Len(s) - k /\ \A j \in 1 .. Len(s) - k : v[j] = s[k + j]
  BY <1>0, <1>2, SubSeqProperties
<1>5. t = u \o v
  BY <1>1, <1>2 DEF RemoveAt
<1>6. t \in Seq(S) /\ Len(t) = Len(s) - 1 /\ DOMAIN t = 1 .. Len(s) - 1
  <2>1. t \in Seq(S) /\ Len(t) = Len(u) + Len(v)
    BY <1>3, <1>4, <1>5
  <2>2. Len(t) = Len(s) - 1
    BY <1>0, <1>3, <1>4, <2>1
  <2> QED BY <2>1, <2>2
<1>7. \A j \in 1 .. k - 1 : t[j] = s[j]
  BY <1>0, <1>3, <1>4, <1>5
<1>8. ASSUME NEW j \in k .. Len(s) - 1 PROVE t[j] = s[j + 1]
  <2>1. t[j] = v[j - (k - 1)]
    BY <1>0, <1>3, <1>4, <1>5
  <2>2. j - (k - 1) \in 1 .. Len(s) - k /\ k + (j - (k - 1)) = j + 1
    BY <1>0
  <2> QED BY <1>4, <2>1, <2>2
<1>9. ASSUME NEW j \in DOMAIN t
      PROVE  \E i \in DOMAIN s \ {k} : t[j] = s[i] /\ i = IF j < k THEN j ELSE j + 1
  <2>1. CASE j < k
    BY <1>0, <1>6, <1>7, <2>1
  <2>2. CASE ~(j < k)
    <3>1. j \in k .. Len(s) - 1 /\ j + 1 \in DOMAIN s \ {k}
      BY <1>0, <1>6, <2>2
    <3> QED BY <1>8, <2>2, <3>1
  <2> QED BY <2>1, <2>2
<1>10. ASSUME NEW i \in DOMAIN s \ {k} PROVE \E j \in DOMAIN t : t[j] = s[i]
  <2>1. CASE i < k
    <3>1. i \in 1 .. k - 1 /\ i \in DOMAIN t
      BY <1>0, <1>6, <2>1
    <3> QED BY <1>7, <3>1
  <2>2. CASE ~(i < k)
    <3>1. i - 1 \in k .. Len(s) - 1 /\ i - 1 \in DOMAIN t /\ (i - 1) + 1 = i
      BY <1>0, <1>6, <2>2
    <3> QED BY <1>8, <3>1
  <2> QED BY <2>1, <2>2
<1> QED BY <1>6, <1>9, <1>10

\* The entry of the dict at position i.
LEMMA EntryAt ==
  ASSUME PyTypes, NEW i \in DOMAIN e.pending, NEW p, p = e.pending[i]
  PROVE  /\ p \in PendingT /\ CallOf(p) \in Calls /\ p.frame.payload = <<CallOf(p)>>
         /\ p.retries \in Nat
<1>1. p \in PendingT
  BY DEF PyTypes, EndpointT
<1>2. PICK c \in Calls : p.frame.payload = <<c>>
  BY <1>1 DEF PendingT, FrameT
<1> QED BY <1>1, <1>2 DEF CallOf, PendingT

----------------------------------------------------------------------------
(* What a step does to the entries.                                        *)

\* Every entry keeps its frame and its count.
LEMMA EntriesKept ==
  ASSUME PyTypes, EntriesInv, DOMAIN e'.pending = DOMAIN e.pending,
         \A i \in DOMAIN e.pending : /\ e'.pending[i].frame = e.pending[i].frame
                                     /\ e'.pending[i].retries = e.pending[i].retries,
         \A c \in Calls : \/ status'[c] = status[c] /\ attempts'[c] = attempts[c]
                          \/ status[c] = "unused" /\ status'[c] = "sent"
  PROVE  EntriesInv'
<1>1. \A i \in DOMAIN e.pending :
        /\ CallOf(e'.pending[i]) = CallOf(e.pending[i]) /\ Key(i)' = Key(i)
        /\ CallOf(e.pending[i]) \in Calls
  BY EntryAt DEF CallOf, Key
<1>2. \A i \in DOMAIN e.pending :
        /\ status'[CallOf(e.pending[i])] = "parked"
        /\ attempts'[CallOf(e.pending[i])] = e.pending[i].retries + 1
  BY <1>1 DEF EntriesInv
<1>3. \A i \in DOMAIN e'.pending :
        /\ e'.pending[i].retries <= max_retries
        /\ status'[CallOf(e'.pending[i])] = "parked"
        /\ attempts'[CallOf(e'.pending[i])] = e'.pending[i].retries + 1
  BY <1>1, <1>2 DEF EntriesInv
<1>4. \A c \in Calls : status'[c] = "parked" =>
        \E i \in DOMAIN e'.pending : CallOf(e'.pending[i]) = c
  BY <1>1 DEF EntriesInv
<1>5. \A c \in Calls : status'[c] = "failed" => attempts'[c] = max_retries + 1
  BY DEF EntriesInv
<1>6. \A i, j \in DOMAIN e'.pending : CallOf(e'.pending[i]) = CallOf(e'.pending[j]) => i = j
  BY <1>1 DEF EntriesInv
<1>7. \A i, j \in DOMAIN e'.pending : Key(i)' = Key(j)' => i = j
  BY <1>1 DEF EntriesInv
<1> QED BY <1>3, <1>4, <1>5, <1>6, <1>7 DEF EntriesInv

\* One is sent again.
LEMMA EntryRetried ==
  ASSUME PyTypes, EntriesInv, DOMAIN e'.pending = DOMAIN e.pending,
         NEW k \in DOMAIN e.pending,
         \A i \in DOMAIN e.pending : e'.pending[i].frame = e.pending[i].frame,
         \A i \in DOMAIN e.pending \ {k} : e'.pending[i].retries = e.pending[i].retries,
         e'.pending[k].retries = e.pending[k].retries + 1, e.pending[k].retries < max_retries,
         status' = status,
         attempts' = [attempts EXCEPT ![CallOf(e.pending[k])] = @ + 1]
  PROVE  EntriesInv'
<1> DEFINE d == CallOf(e.pending[k])
<1>1. \A i \in DOMAIN e.pending :
        /\ CallOf(e'.pending[i]) = CallOf(e.pending[i]) /\ Key(i)' = Key(i)
        /\ CallOf(e.pending[i]) \in Calls
  BY EntryAt DEF CallOf, Key
<1>2. d \in Calls /\ status[d] = "parked" /\ attempts[d] = e.pending[k].retries + 1
  BY <1>1 DEF EntriesInv
<1>3. e.pending[k].retries \in Nat /\ attempts \in [Calls -> Nat]
  BY EntryAt, PyParameters DEF PyTypes
<1>4. attempts'[d] = attempts[d] + 1 /\ \A c \in Calls \ {d} : attempts'[c] = attempts[c]
  BY <1>2, <1>3
<1>5. ASSUME NEW i \in DOMAIN e.pending
      PROVE  attempts'[CallOf(e'.pending[i])] = e'.pending[i].retries + 1
  <2>1. CASE i = k
    BY <1>1, <1>2, <1>3, <1>4, <2>1
  <2>2. CASE i # k
    <3>1. CallOf(e.pending[i]) # d
      BY <2>2 DEF EntriesInv
    <3>2. attempts[CallOf(e.pending[i])] = e.pending[i].retries + 1
      BY DEF EntriesInv
    <3> QED BY <1>1, <1>4, <2>2, <3>1, <3>2
  <2> QED BY <2>1, <2>2
<1>6. \A i \in DOMAIN e'.pending :
        /\ e'.pending[i].retries <= max_retries
        /\ status'[CallOf(e'.pending[i])] = "parked"
        /\ attempts'[CallOf(e'.pending[i])] = e'.pending[i].retries + 1
  <2>1. e'.pending[k].retries <= max_retries
    BY <1>3, PyParameters
  <2> QED BY <1>1, <1>5, <2>1 DEF EntriesInv
<1>7. \A c \in Calls : status'[c] = "parked" =>
        \E i \in DOMAIN e'.pending : CallOf(e'.pending[i]) = c
  BY <1>1 DEF EntriesInv
<1>8. \A c \in Calls : status'[c] = "failed" => attempts'[c] = max_retries + 1
  BY <1>2, <1>4 DEF EntriesInv
<1>9. \A i, j \in DOMAIN e'.pending : CallOf(e'.pending[i]) = CallOf(e'.pending[j]) => i = j
  BY <1>1 DEF EntriesInv
<1>10. \A i, j \in DOMAIN e'.pending : Key(i)' = Key(j)' => i = j
  BY <1>1 DEF EntriesInv
<1> QED BY <1>6, <1>7, <1>8, <1>9, <1>10 DEF EntriesInv

\* One leaves the dict.
LEMMA EntryPopped ==
  ASSUME PyTypes, EntriesInv, NEW k \in DOMAIN e.pending,
         e'.pending = RemoveAt(e.pending, k), attempts' = attempts,
         NEW s \in {"acked", "failed"},
         s = "failed" => attempts[CallOf(e.pending[k])] = max_retries + 1,
         status'[CallOf(e.pending[k])] = s,
         \A c \in Calls \ {CallOf(e.pending[k])} : status'[c] = status[c]
  PROVE  EntriesInv'
<1> DEFINE d == CallOf(e.pending[k])
<1>1. e.pending \in Seq(PendingT)
  BY DEF PyTypes, EndpointT
<1>2. /\ \A j \in DOMAIN e'.pending : \E i \in DOMAIN e.pending \ {k} :
           e'.pending[j] = e.pending[i] /\ i = IF j < k THEN j ELSE j + 1
      /\ \A i \in DOMAIN e.pending \ {k} : \E j \in DOMAIN e'.pending : e'.pending[j] = e.pending[i]
      /\ DOMAIN e'.pending \in SUBSET Int
  BY <1>1, Removed
<1>3. d \in Calls
  BY EntryAt
<1>4. ASSUME NEW i \in DOMAIN e.pending \ {k}
      PROVE  CallOf(e.pending[i]) \in Calls \ {d}
  BY EntryAt DEF EntriesInv
<1>5. ASSUME NEW j \in DOMAIN e'.pending
      PROVE  /\ e'.pending[j].retries <= max_retries
             /\ status'[CallOf(e'.pending[j])] = "parked"
             /\ attempts'[CallOf(e'.pending[j])] = e'.pending[j].retries + 1
  <2>1. PICK i \in DOMAIN e.pending \ {k} : e'.pending[j] = e.pending[i]
    BY <1>2
  <2> QED BY <1>4, <2>1 DEF EntriesInv
<1>6. ASSUME NEW a \in DOMAIN e'.pending, NEW b \in DOMAIN e'.pending,
             CallOf(e'.pending[a]) = CallOf(e'.pending[b]) \/ Key(a)' = Key(b)'
      PROVE  a = b
  <2>1. PICK i \in DOMAIN e.pending \ {k} :
          e'.pending[a] = e.pending[i] /\ i = IF a < k THEN a ELSE a + 1
    BY <1>2
  <2>2. PICK j \in DOMAIN e.pending \ {k} :
          e'.pending[b] = e.pending[j] /\ j = IF b < k THEN b ELSE b + 1
    BY <1>2
  <2>3. i = j
    BY <1>6, <2>1, <2>2 DEF EntriesInv, Key
  <2>4. a \in Int /\ b \in Int /\ k \in Int
    BY <1>1, <1>2
  <2> QED BY <2>1, <2>2, <2>3, <2>4
<1>7. ASSUME NEW c \in Calls, status'[c] = "parked"
      PROVE  \E j \in DOMAIN e'.pending : CallOf(e'.pending[j]) = c
  <2>1. c # d /\ status[c] = "parked"
    BY <1>7
  <2>2. PICK i \in DOMAIN e.pending : CallOf(e.pending[i]) = c
    BY <2>1 DEF EntriesInv
  <2>3. i # k
    BY <2>1, <2>2
  <2> QED BY <1>2, <2>2, <2>3
<1>8. \A c \in Calls : status'[c] = "failed" => attempts'[c] = max_retries + 1
  BY DEF EntriesInv
<1> QED BY <1>5, <1>6, <1>7, <1>8 DEF EntriesInv

\* A new one is appended.
LEMMA EntryAdded ==
  ASSUME PyTypes, EntriesInv, NEW p \in PendingT, NEW c \in Calls,
         e'.pending = Append(e.pending, p), p.frame.payload = <<c>>, p.retries = 0,
         \A i \in DOMAIN e.pending : Key(i) # pending_key(p.frame),
         status[c] = "unused", status' = [status EXCEPT ![c] = "parked"],
         attempts' = [attempts EXCEPT ![c] = 1]
  PROVE  EntriesInv'
<1>1. e.pending \in Seq(PendingT) /\ status \in [Calls -> Outcomes] /\ attempts \in [Calls -> Nat]
  BY DEF PyTypes, EndpointT
<1> DEFINE n == Len(e.pending) + 1
<1>2. /\ n \notin DOMAIN e.pending /\ DOMAIN e'.pending = DOMAIN e.pending \cup {n}
      /\ e'.pending[n] = p
      /\ \A i \in DOMAIN e.pending : e'.pending[i] = e.pending[i]
  BY <1>1
<1> HIDE DEF n
<1>3. CallOf(p) = c
  BY DEF CallOf
<1>4. /\ status'[c] = "parked" /\ attempts'[c] = 1
      /\ \A d \in Calls \ {c} : status'[d] = status[d] /\ attempts'[d] = attempts[d]
  BY <1>1
<1>5. ASSUME NEW i \in DOMAIN e.pending PROVE CallOf(e.pending[i]) \in Calls \ {c}
  BY EntryAt DEF EntriesInv
<1>6. ASSUME NEW i \in DOMAIN e'.pending
      PROVE  /\ e'.pending[i].retries <= max_retries
             /\ status'[CallOf(e'.pending[i])] = "parked"
             /\ attempts'[CallOf(e'.pending[i])] = e'.pending[i].retries + 1
  <2>1. CASE i = n
    BY <1>2, <1>3, <1>4, <2>1, PyParameters
  <2>2. CASE i # n
    <3>1. i \in DOMAIN e.pending /\ e'.pending[i] = e.pending[i]
      BY <1>2, <2>2
    <3> QED BY <1>4, <1>5, <3>1 DEF EntriesInv
  <2> QED BY <2>1, <2>2
<1>7. ASSUME NEW i \in DOMAIN e'.pending, NEW j \in DOMAIN e'.pending,
             CallOf(e'.pending[i]) = CallOf(e'.pending[j]) \/ Key(i)' = Key(j)'
      PROVE  i = j
  <2>1. CASE i = n /\ j # n
    BY <1>2, <1>3, <1>5, <1>7, <2>1 DEF Key
  <2>2. CASE i # n /\ j = n
    BY <1>2, <1>3, <1>5, <1>7, <2>2 DEF Key
  <2>3. CASE i # n /\ j # n
    BY <1>2, <1>7, <2>3 DEF Key, EntriesInv
  <2> QED BY <2>1, <2>2, <2>3
<1>8. ASSUME NEW d \in Calls, status'[d] = "parked"
      PROVE  \E i \in DOMAIN e'.pending : CallOf(e'.pending[i]) = d
  <2>1. CASE d = c
    BY <1>2, <1>3, <2>1
  <2>2. CASE d # c
    BY <1>2, <1>4, <1>8, <2>2 DEF EntriesInv
  <2> QED BY <2>1, <2>2
<1>9. \A d \in Calls : status'[d] = "failed" => attempts'[d] = max_retries + 1
  BY <1>4 DEF EntriesInv
<1> QED BY <1>6, <1>7, <1>8, <1>9 DEF EntriesInv

----------------------------------------------------------------------------
(* What the functions of reliable.py do to the fields of an endpoint.      *)

Rest(x, y) ==
  /\ y.my_addr = x.my_addr /\ y.session = x.session
  /\ y.seen = x.seen /\ y.source_sessions = x.source_sessions

\* The fields of an endpoint.
LEMMA Fields ==
  ASSUME NEW x \in EndpointT
  PROVE  /\ x.my_addr = my_addr /\ x.session = session /\ x.next_seq \in PySeqs
         /\ x.pending \in Seq(PendingT) /\ x.seen \in SUBSET {seen_key(f) : f \in Inbound}
         /\ x.source_sessions \in UNION {[A -> PeerSessions] : A \in SUBSET Peers}
BY DEF EndpointT

\* _take_seq changes next_seq only.
LEMMA TakeSeq ==
  ASSUME NEW x \in EndpointT
  PROVE  /\ take_seq(x) \in EndpointT /\ take_seq(x).pending = x.pending
         /\ take_seq(x).next_seq = (x.next_seq + 1) % SEQ_VALUES /\ Rest(x, take_seq(x))
<1>1. x.next_seq \in PySeqs /\ (x.next_seq + 1) % SEQ_VALUES \in PySeqs
  BY Fields, SeqRange
<1> QED BY <1>1 DEF take_seq, EndpointT, Rest

\* The dict of pending frames changes within its type.
LEMMA NewPending ==
  ASSUME NEW x \in EndpointT, NEW q \in Seq(PendingT), NEW y, y = [x EXCEPT !.pending = q]
  PROVE  y \in EndpointT /\ y.pending = q /\ y.next_seq = x.next_seq /\ Rest(x, y)
BY DEF EndpointT, Rest

\* A frame whose key is not in the dict is added behind the others ...
LEMMA ParkNew ==
  ASSUME NEW x \in EndpointT, NEW f \in FrameT, ~Has(x, pending_key(f)),
         NEW y, y = Park(x, f)
  PROVE  /\ y \in EndpointT /\ y.next_seq = x.next_seq /\ Rest(x, y)
         /\ \E p \in PendingT : p.frame = f /\ p.retries = 0 /\ y.pending = Append(x.pending, p)
<1>1. PICK p : p = [frame |-> f, due |-> timeout_s, retries |-> 0]
  OBVIOUS
<1>2. p \in PendingT /\ p.frame = f /\ p.retries = 0
  BY <1>1, PyParameters DEF PendingT
<1>3. PICK q : q = Append(x.pending, p)
  OBVIOUS
<1>4. q \in Seq(PendingT)
  BY <1>2, <1>3, Fields
<1>5. y = [x EXCEPT !.pending = q]
  BY <1>1, <1>3 DEF Park
<1>6. y \in EndpointT /\ y.pending = q /\ y.next_seq = x.next_seq /\ Rest(x, y)
  BY <1>4, <1>5, NewPending
<1> QED BY <1>2, <1>3, <1>6

\* A function over the positions of a dict is a dict.
LEMMA Mapped ==
  ASSUME NEW s \in Seq(PendingT), NEW q, DOMAIN q = DOMAIN s,
         q = [i \in DOMAIN s |-> q[i]], \A i \in DOMAIN s : q[i] \in PendingT
  PROVE  q \in Seq(PendingT)
<1>1. Len(s) \in Nat /\ DOMAIN s = 1 .. Len(s)
  OBVIOUS
<1>2. q \in [1 .. Len(s) -> PendingT]
  BY <1>1
<1> QED BY <1>1, <1>2

\* ... and one whose key is there takes the place of the old one.
LEMMA ParkOld ==
  ASSUME NEW x \in EndpointT, NEW f \in FrameT, Has(x, pending_key(f)),
         NEW y, y = Park(x, f)
  PROVE  y \in EndpointT /\ y.next_seq = x.next_seq /\ Rest(x, y)
<1>1. PICK p : p = [frame |-> f, due |-> timeout_s, retries |-> 0]
  OBVIOUS
<1>2. p \in PendingT
  BY <1>1, PyParameters DEF PendingT
<1>3. PICK q : q = [i \in DOMAIN x.pending |->
                      IF pending_key(x.pending[i].frame) = pending_key(f) THEN p ELSE x.pending[i]]
  OBVIOUS
<1>4. q \in Seq(PendingT)
  <2>1. x.pending \in Seq(PendingT)
    BY Fields
  <2>2. \A i \in DOMAIN x.pending : x.pending[i] \in PendingT
    BY <2>1
  <2>3. \A i \in DOMAIN x.pending : q[i] \in PendingT
    BY <1>2, <1>3, <2>2
  <2>4. DOMAIN q = DOMAIN x.pending /\ q = [i \in DOMAIN x.pending |-> q[i]]
    BY <1>3
  <2> QED BY <2>1, <2>3, <2>4, Mapped
<1>5. y = [x EXCEPT !.pending = q]
  BY <1>1, <1>3 DEF Park, Updated
<1> QED BY <1>4, <1>5, NewPending

\* pop and del take out the entry of a key, if there is one.
LEMMA PopEntry ==
  ASSUME NEW x \in EndpointT, NEW key, NEW y, y = Pop(x, key)
  PROVE  /\ y \in EndpointT /\ y.next_seq = x.next_seq /\ Rest(x, y)
         /\ ~Has(x, key) => y = x
         /\ Has(x, key) => \E k \in DOMAIN x.pending :
              /\ pending_key(x.pending[k].frame) = key
              /\ y.pending = RemoveAt(x.pending, k)
<1>1. CASE ~Has(x, key)
  <2>1. y = x
    BY <1>1 DEF Pop
  <2> QED BY <1>1, <2>1 DEF Rest
<1>2. CASE Has(x, key)
  <2>1. PICK k : k = Position(x, key)
    OBVIOUS
  <2>2. k \in DOMAIN x.pending /\ pending_key(x.pending[k].frame) = key
    BY <1>2, <2>1 DEF Has, Position
  <2>3. PICK q : q = RemoveAt(x.pending, k)
    OBVIOUS
  <2>4. q \in Seq(PendingT)
    BY <2>2, <2>3, Fields, Removed
  <2>5. y = [x EXCEPT !.pending = q]
    BY <1>2, <2>1, <2>3 DEF Pop
  <2>6. y \in EndpointT /\ y.pending = q /\ y.next_seq = x.next_seq /\ Rest(x, y)
    BY <2>4, <2>5, NewPending
  <2> QED BY <1>2, <2>2, <2>3, <2>6
<1> QED BY <1>1, <1>2

\* A retry counts in the entries of its key and leaves the frames alone.
LEMMA RetryEntries ==
  ASSUME NEW x \in EndpointT, NEW key, NEW l \in Nat, NEW y, y = Retried(x, key, l)
  PROVE  /\ y \in EndpointT /\ y.next_seq = x.next_seq /\ Rest(x, y)
         /\ DOMAIN y.pending = DOMAIN x.pending
         /\ \A i \in DOMAIN x.pending :
              /\ y.pending[i].frame = x.pending[i].frame
              /\ y.pending[i].retries =
                   IF pending_key(x.pending[i].frame) = key THEN x.pending[i].retries + 1
                                                            ELSE x.pending[i].retries
<1>1. PICK d : d = IF l > timeout_s THEN 0 ELSE timeout_s - l
  OBVIOUS
<1>2. d \in Nat
  BY <1>1, PyParameters
<1>3. PICK q : q = [i \in DOMAIN x.pending |->
                      IF pending_key(x.pending[i].frame) = key
                      THEN [x.pending[i] EXCEPT !.retries = @ + 1, !.due = d]
                      ELSE x.pending[i]]
  OBVIOUS
<1>4. ASSUME NEW i \in DOMAIN x.pending
      PROVE  /\ q[i] \in PendingT /\ q[i].frame = x.pending[i].frame
             /\ q[i].retries = IF pending_key(x.pending[i].frame) = key
                               THEN x.pending[i].retries + 1 ELSE x.pending[i].retries
  <2>1. x.pending[i] \in PendingT
    BY Fields
  <2>2. CASE pending_key(x.pending[i].frame) = key
    <3>1. q[i] = [x.pending[i] EXCEPT !.retries = @ + 1, !.due = d]
      BY <1>3, <2>2
    <3>2. PICK p \in PendingT : p = x.pending[i]
      BY <2>1
    <3>3. PICK n \in Nat : n = p.retries + 1
      BY DEF PendingT
    <3>4. q[i] = [p EXCEPT !.retries = n, !.due = d]
      BY <3>1, <3>2, <3>3
    <3>5. q[i] \in PendingT /\ q[i].frame = p.frame /\ q[i].retries = n
      BY <1>2, <3>4 DEF PendingT
    <3> QED BY <2>2, <3>2, <3>3, <3>5
  <2>3. CASE pending_key(x.pending[i].frame) # key
    BY <1>3, <2>1, <2>3
  <2> QED BY <2>2, <2>3
<1>5. DOMAIN q = DOMAIN x.pending /\ q = [i \in DOMAIN x.pending |-> q[i]]
  BY <1>3
<1>6. q \in Seq(PendingT)
  BY <1>4, <1>5, Fields, Mapped
<1>7. y = [x EXCEPT !.pending = q]
  BY <1>1, <1>3 DEF Retried, Updated
<1>8. y \in EndpointT /\ y.pending = q /\ y.next_seq = x.next_seq /\ Rest(x, y)
  BY <1>6, <1>7, NewPending
<1> QED BY <1>4, <1>5, <1>8

\* The passing of time changes deadlines only.
LEMMA ElapseEntries ==
  ASSUME NEW x \in EndpointT, NEW y, y = Elapse(x)
  PROVE  /\ y \in EndpointT /\ y.next_seq = x.next_seq /\ Rest(x, y)
         /\ DOMAIN y.pending = DOMAIN x.pending
         /\ \A i \in DOMAIN x.pending : /\ y.pending[i].frame = x.pending[i].frame
                                        /\ y.pending[i].retries = x.pending[i].retries
<1>1. PICK q : q = [i \in DOMAIN x.pending |-> Sooner(x.pending[i])]
  OBVIOUS
<1>2. ASSUME NEW i \in DOMAIN x.pending
      PROVE  /\ q[i] \in PendingT /\ q[i].frame = x.pending[i].frame
             /\ q[i].retries = x.pending[i].retries
  <2>1. x.pending[i] \in PendingT
    BY Fields
  <2>2. q[i] = Sooner(x.pending[i])
    BY <1>1
  <2> QED BY <2>1, <2>2 DEF Sooner, PendingT
<1>3. DOMAIN q = DOMAIN x.pending /\ q = [i \in DOMAIN x.pending |-> q[i]]
  BY <1>1
<1>4. q \in Seq(PendingT)
  BY <1>2, <1>3, Fields, Mapped
<1>5. y = [x EXCEPT !.pending = q]
  BY <1>1 DEF Elapse
<1>6. y \in EndpointT /\ y.pending = q /\ y.next_seq = x.next_seq /\ Rest(x, y)
  BY <1>4, <1>5, NewPending
<1> QED BY <1>2, <1>3, <1>6

\* The session check of receive.
LEMMA ResetSeen ==
  ASSUME NEW x \in EndpointT, NEW f \in Inbound, NEW y, y = reset_seen_if_session_changed(x, f)
  PROVE  /\ y \in EndpointT /\ y.next_seq = x.next_seq /\ y.pending = x.pending
         /\ \A key : key \in y.seen <=> key \in x.seen /\ (SameSession(x, f) \/ key[1] # f.src)
         /\ f.src \in DOMAIN y.source_sessions /\ y.source_sessions[f.src] = f.session
         /\ \A s \in DOMAIN x.source_sessions \ {f.src} :
              s \in DOMAIN y.source_sessions /\ y.source_sessions[s] = x.source_sessions[s]
<1>1. CASE SameSession(x, f)
  <2>1. y = x
    BY <1>1 DEF reset_seen_if_session_changed
  <2> QED BY <1>1, <2>1 DEF SameSession
<1>2. CASE ~SameSession(x, f)
  <2>1. PICK w : w = WithSession(x.source_sessions, f)
    OBVIOUS
  <2>2. PICK z : z = {key \in x.seen : key[1] # f.src}
    OBVIOUS
  <2>3. y = [x EXCEPT !.source_sessions = w, !.seen = z]
    BY <1>2, <2>1, <2>2 DEF reset_seen_if_session_changed
  <2>4. PICK A \in SUBSET Peers : x.source_sessions \in [A -> PeerSessions]
    BY Fields
  <2>5. DOMAIN w = A \cup {f.src}
    BY <2>1, <2>4 DEF WithSession
  <2>6. w[f.src] = f.session /\ \A s \in A \ {f.src} : w[s] = x.source_sessions[s]
    BY <2>1, <2>4 DEF WithSession
  <2>7. w \in [A \cup {f.src} -> PeerSessions] /\ A \cup {f.src} \in SUBSET Peers
    <3>1. f.session \in PeerSessions /\ f.src \in Peers
      BY DEF PeerSessions, Peers
    <3>2. \A s \in A \cup {f.src} : w[s] \in PeerSessions
      BY <2>4, <2>6, <3>1
    <3>3. w = [s \in A \cup {f.src} |-> w[s]]
      BY <2>1, <2>4, <2>5 DEF WithSession
    <3> QED BY <3>1, <3>2, <3>3
  <2>8. z \in SUBSET {seen_key(g) : g \in Inbound}
    BY <2>2, Fields
  <2>9. /\ y \in EndpointT /\ y.next_seq = x.next_seq /\ y.pending = x.pending
        /\ y.seen = z /\ y.source_sessions = w
    <3>1. w \in UNION {[B -> PeerSessions] : B \in SUBSET Peers}
      BY <2>7
    <3> QED BY <2>3, <2>8, <3>1 DEF EndpointT
  <2>10. DOMAIN x.source_sessions = A
    BY <2>4
  <2> QED BY <1>2, <2>2, <2>5, <2>6, <2>9, <2>10
<1> QED BY <1>1, <1>2

\* _seen.add changes _seen only.
LEMMA RememberKey ==
  ASSUME NEW x \in EndpointT, NEW f \in Inbound, NEW y, y = Remember(x, f)
  PROVE  /\ y \in EndpointT /\ y.next_seq = x.next_seq /\ y.pending = x.pending
         /\ y.seen = x.seen \cup {seen_key(f)} /\ y.source_sessions = x.source_sessions
<1>1. PICK z : z = x.seen \cup {seen_key(f)}
  OBVIOUS
<1>2. z \in SUBSET {seen_key(g) : g \in Inbound}
  BY <1>1, Fields
<1>3. y = [x EXCEPT !.seen = z]
  BY <1>1 DEF Remember
<1>4. /\ y \in EndpointT /\ y.next_seq = x.next_seq /\ y.pending = x.pending
      /\ y.seen = z /\ y.source_sessions = x.source_sessions
  BY <1>2, <1>3 DEF EndpointT
<1> QED BY <1>1, <1>4

----------------------------------------------------------------------------
(* The sending side, action by action.                                     *)

\* No SEQ is drawn, and no frame is new.
LEMMA SeqStays ==
  ASSUME SeqInv, e'.next_seq = e.next_seq, draws' = draws,
         \A j \in DOMAIN e'.pending : \E i \in DOMAIN e.pending :
           e'.pending[j].frame = e.pending[i].frame
  PROVE  SeqInv'
BY DEF SeqInv

\* A SEQ is drawn, and at most the frame that got it is new.
LEMMA SeqTaken ==
  ASSUME PyTypes, SeqInv, draws < SEQ_VALUES, draws' = draws + 1,
         e'.next_seq = (e.next_seq + 1) % SEQ_VALUES,
         \A j \in DOMAIN e'.pending :
           \/ e'.pending[j].frame.seq = e.next_seq
           \/ \E i \in DOMAIN e.pending : e'.pending[j].frame = e.pending[i].frame
  PROVE  SeqInv'
<1>1. e.next_seq \in PySeqs /\ draws \in Nat
  BY Fields DEF PyTypes
<1>2. /\ TakenBefore(e.next_seq, e'.next_seq, draws')
      /\ \A s \in PySeqs : TakenBefore(s, e.next_seq, draws) => TakenBefore(s, e'.next_seq, draws')
  BY <1>1, SeqDrawn
<1>3. \A i \in DOMAIN e.pending : e.pending[i].frame.seq \in PySeqs
  <2>1. \A i \in DOMAIN e.pending : e.pending[i] \in PendingT
    BY EntryAt
  <2>2. \A p \in PendingT : p.frame.seq \in PySeqs
    BY DEF PendingT, FrameT
  <2> QED BY <2>1, <2>2
<1>4. \A j \in DOMAIN e'.pending : TakenBefore(e'.pending[j].frame.seq, e'.next_seq, draws')
  BY <1>2, <1>3 DEF SeqInv
<1> QED BY <1>4 DEF SeqInv

\* The frame that send makes.
LEMMA FrameIs ==
  ASSUME PyTypes, NEW c \in Calls, NEW f, f = Frame(e, c.dst, TRUE, <<c>>)
  PROVE  f \in FrameT /\ f.payload = <<c>> /\ f.seq = e.next_seq
<1>1. e.my_addr = my_addr /\ e.session = session /\ e.next_seq \in PySeqs
  BY Fields DEF PyTypes
<1> QED BY <1>1 DEF Frame, FrameT

\* The types do not depend on how often SEQs are drawn.
LEMMA SendTypes ==
  ASSUME PyTypes, NEW c \in Calls, SendReliable(c) \/ SendUnreliable(c)
  PROVE  PyTypes'
<1>1. /\ lag' = lag /\ draws' = draws + 1 /\ attempts' = [attempts EXCEPT ![c] = 1]
      /\ \/ status' = [status EXCEPT ![c] = "parked"] \/ status' = [status EXCEPT ![c] = "sent"]
  BY DEF SendReliable, SendUnreliable, Draw
<1>2. e' \in EndpointT
  <2>1. e \in EndpointT
    BY DEF PyTypes
  <2>2. CASE SendReliable(c)
    <3>1. PICK f : f = Frame(e, c.dst, TRUE, <<c>>)
      OBVIOUS
    <3>2. f \in FrameT
      BY <3>1, FrameIs
    <3>3. Park(e, f) \in EndpointT
      BY <2>1, <3>2, ParkNew, ParkOld
    <3>4. e' = take_seq(Park(e, f))
      BY <2>2, <3>1 DEF SendReliable
    <3> QED BY <3>3, <3>4, TakeSeq
  <2>3. CASE SendUnreliable(c)
    BY <2>1, <2>3, TakeSeq DEF SendUnreliable
  <2> QED BY <2>2, <2>3
<1>3. lag' \in Nat /\ draws' \in Nat /\ attempts' \in [Calls -> Nat]
  BY <1>1 DEF PyTypes
<1>4. status' \in [Calls -> Outcomes]
  BY <1>1 DEF PyTypes, Outcomes
<1> QED BY <1>2, <1>3, <1>4 DEF PyTypes

\* What a received frame does to the endpoint up to the ACK, and after it.
LEMMA Acknowledged ==
  ASSUME PyTypes, NEW f \in Inbound, NEW h, h = reset_seen_if_session_changed(e, f),
         e' = Acknowledge(e, f) \/ e' = Remember(Acknowledge(e, f), f)
  PROVE  /\ e' \in EndpointT /\ e'.pending = e.pending
         /\ e'.next_seq = (e.next_seq + 1) % SEQ_VALUES
         /\ e'.source_sessions = h.source_sessions
         /\ e' = Acknowledge(e, f) => e'.seen = h.seen
         /\ e' = Remember(Acknowledge(e, f), f) => e'.seen = h.seen \cup {seen_key(f)}
<1>1. PICK g : g = Acknowledge(e, f)
  OBVIOUS
<1>2. h \in EndpointT /\ h.next_seq = e.next_seq /\ h.pending = e.pending
  BY ResetSeen DEF PyTypes
<1>3. g = take_seq(h)
  BY <1>1 DEF Acknowledge
<1>4. /\ g \in EndpointT /\ g.pending = e.pending
      /\ g.next_seq = (e.next_seq + 1) % SEQ_VALUES
      /\ g.seen = h.seen /\ g.source_sessions = h.source_sessions
  BY <1>2, <1>3, TakeSeq DEF Rest
<1>5. PICK y : y = Remember(g, f)
  OBVIOUS
<1>6. /\ y \in EndpointT /\ y.next_seq = g.next_seq /\ y.pending = g.pending
      /\ y.seen = g.seen \cup {seen_key(f)} /\ y.source_sessions = g.source_sessions
  BY <1>4, <1>5, RememberKey
<1>7. e' = g \/ e' = y
  BY <1>1, <1>5
<1>8. e' = Acknowledge(e, f) => e' = g
  BY <1>1
<1>9. e' = Remember(Acknowledge(e, f), f) => e' = y
  BY <1>1, <1>5
<1> QED BY <1>4, <1>6, <1>7, <1>8, <1>9

\* The entries a turn of the loop of tick finds.
LEMMA Found ==
  ASSUME NEW old, NEW p \in get(old)
  PROVE  \E i \in DOMAIN e.pending : p = e.pending[i]
BY DEF get

\* The calls an ACK takes out of the dict: at most one.
LEMMA AckPops ==
  ASSUME PyTypes, NEW f \in Inbound, ReceiveAnAck(f)
  PROVE  /\ e' \in EndpointT /\ e'.next_seq = e.next_seq
         /\ e'.seen = e.seen /\ e'.source_sessions = e.source_sessions
         /\ \/ e' = e
            \/ \E k \in DOMAIN e.pending : e'.pending = RemoveAt(e.pending, k)
<1>1. e \in EndpointT
  BY DEF PyTypes
<1>2. CASE Len(f.payload) # 2
  <2>1. e' = e
    BY <1>2 DEF ReceiveAnAck, handle_ack
  <2> QED BY <1>1, <2>1
<1>3. CASE Len(f.payload) = 2
  <2>1. PICK key : key = <<f.src, e.session, f.payload[1] * BYTE + f.payload[2]>>
    OBVIOUS
  <2>2. e' = Pop(e, key)
    BY <1>3, <2>1 DEF ReceiveAnAck, handle_ack
  <2>3. /\ e' \in EndpointT /\ e'.next_seq = e.next_seq /\ Rest(e, e')
        /\ ~Has(e, key) => e' = e
        /\ Has(e, key) => \E k \in DOMAIN e.pending : e'.pending = RemoveAt(e.pending, k)
    BY <1>1, <2>2, PopEntry
  <2> QED BY <2>3 DEF Rest
<1> QED BY <1>2, <1>3

\* Every step keeps the types.
LEMMA TypesStep ==
  ASSUME PyTypes, [Next]_evars PROVE PyTypes'
<1>1. /\ e \in EndpointT /\ lag \in Nat /\ draws \in Nat
      /\ status \in [Calls -> Outcomes] /\ attempts \in [Calls -> Nat]
  BY DEF PyTypes
<1>2. ASSUME NEW c \in Calls, SendReliable(c) \/ SendUnreliable(c) PROVE PyTypes'
  BY <1>2, SendTypes
<1>3. ASSUME NEW f \in Inbound, ReceiveAnAck(f) PROVE PyTypes'
  <2>1. e' \in EndpointT
    BY <1>3, AckPops
  <2>2. /\ lag' = lag /\ draws' = draws /\ attempts' = attempts
        /\ status' = [c \in Calls |-> IF c \in Popped(e'.pending) THEN "acked" ELSE status[c]]
    BY <1>3 DEF ReceiveAnAck
  <2>3. status' \in [Calls -> Outcomes]
    BY <1>1, <2>2 DEF Outcomes
  <2> QED BY <1>1, <2>1, <2>2, <2>3 DEF PyTypes
<1>4. ASSUME NEW f \in Inbound, ReceiveData(f) \/ AckRaises(f) PROVE PyTypes'
  <2>1. /\ e' = Acknowledge(e, f) \/ e' = Remember(Acknowledge(e, f), f)
        /\ lag' = lag /\ draws' = draws + 1 /\ attempts' = attempts /\ status' = status
    BY <1>4 DEF ReceiveData, AckRaises, Draw
  <2>2. e' \in EndpointT
    BY <1>4, <2>1, Acknowledged
  <2> QED BY <1>1, <2>1, <2>2 DEF PyTypes
<1>5. ASSUME NEW f \in Inbound, ReceivePlain(f) PROVE PyTypes'
  BY <1>1, <1>5 DEF ReceivePlain, evars, PyTypes
<1>6. CASE Tick \/ TickSkips
  <2>1. e' = e /\ lag' \in {lag, 0} /\ UNCHANGED <<draws, status, attempts>>
    BY <1>6 DEF Tick, TickSkips
  <2> QED BY <1>1, <2>1 DEF PyTypes
<1>7. CASE TickFails
  <2>1. PICK p \in get(Head(todo)) :
          /\ e' = Pop(e, pending_key(p.frame))
          /\ status' = [status EXCEPT ![CallOf(p)] = "failed"]
    BY <1>7 DEF TickFails
  <2>2. e' \in EndpointT
    BY <1>1, <2>1, PopEntry
  <2>3. status' \in [Calls -> Outcomes]
    BY <1>1, <2>1 DEF Outcomes
  <2>4. UNCHANGED <<lag, draws, attempts>>
    BY <1>7 DEF TickFails
  <2> QED BY <1>1, <2>2, <2>3, <2>4 DEF PyTypes
<1>8. CASE TickRetries
  <2>1. PICK p \in get(Head(todo)) :
          /\ e' = Retried(e, pending_key(p.frame), lag)
          /\ attempts' = [attempts EXCEPT ![CallOf(p)] = @ + 1]
    BY <1>8 DEF TickRetries
  <2>2. e' \in EndpointT
    BY <1>1, <2>1, RetryEntries
  <2>3. CallOf(p) \in Calls
    BY <2>1, Found, EntryAt
  <2>4. attempts' \in [Calls -> Nat]
    BY <1>1, <2>1, <2>3
  <2>5. UNCHANGED <<lag, draws, status>>
    BY <1>8 DEF TickRetries
  <2> QED BY <1>1, <2>2, <2>4, <2>5 DEF PyTypes
<1>9. CASE AdvanceClock
  <2>1. e' = Elapse(e) /\ lag' \in {lag, lag + 1} /\ UNCHANGED <<draws, status, attempts>>
    BY <1>9 DEF AdvanceClock
  <2>2. e' \in EndpointT
    BY <1>1, <2>1, ElapseEntries
  <2> QED BY <1>1, <2>1, <2>2 DEF PyTypes
<1>10. CASE UNCHANGED evars
  BY <1>1, <1>10 DEF evars, PyTypes
<1> QED BY <1>2, <1>3, <1>4, <1>5, <1>6, <1>7, <1>8, <1>9, <1>10 DEF Next, Called, TickTurn

\* The types hold of a new endpoint.
LEMMA TypesInit == Init => PyTypes
<1> SUFFICES ASSUME Init PROVE PyTypes
  OBVIOUS
<1>1. /\ e = [my_addr |-> my_addr, session |-> session, next_seq |-> first_seq % SEQ_VALUES,
              pending |-> <<>>, seen |-> {}, source_sessions |-> <<>>]
      /\ lag = 0 /\ draws = 0 /\ status = [c \in Calls |-> "unused"]
      /\ attempts = [c \in Calls |-> 0]
  BY DEF Init, ReliableEndpoint
<1>2. <<>> \in UNION {[A -> PeerSessions] : A \in SUBSET Peers}
  <2>1. <<>> \in [{} -> PeerSessions] /\ {} \in SUBSET Peers
    OBVIOUS
  <2> QED BY <2>1
<1>3. e \in EndpointT
  <2>1. <<>> \in Seq(PendingT)
    OBVIOUS
  <2> QED BY <1>1, <1>2, <2>1, SeqRange DEF EndpointT
<1> QED BY <1>1, <1>3 DEF PyTypes, Outcomes

\* The dict is left alone, or only its deadlines change.
LEMMA SendingKept ==
  ASSUME SendingInv, PyTypes', DOMAIN e'.pending = DOMAIN e.pending,
         \A i \in DOMAIN e.pending : /\ e'.pending[i].frame = e.pending[i].frame
                                     /\ e'.pending[i].retries = e.pending[i].retries,
         \A c \in Calls : \/ status'[c] = status[c] /\ attempts'[c] = attempts[c]
                          \/ status[c] = "unused" /\ status'[c] = "sent",
         \/ e'.next_seq = e.next_seq /\ draws' = draws
         \/ /\ e'.next_seq = (e.next_seq + 1) % SEQ_VALUES /\ draws' = draws + 1
            /\ draws < SEQ_VALUES
  PROVE  SendingInv'
<1>1. \A j \in DOMAIN e'.pending : \E i \in DOMAIN e.pending :
        e'.pending[j].frame = e.pending[i].frame
  OBVIOUS
<1>2. SeqInv'
  BY <1>1, SeqStays, SeqTaken DEF SendingInv
<1>3. EntriesInv'
  BY EntriesKept DEF SendingInv
<1> QED BY <1>2, <1>3 DEF SendingInv

\* While a SEQ can be drawn, not all of them were.
LEMMA Drawn ==
  ASSUME SeqsAreEnough, PyTypes, Draw
  PROVE  draws < SEQ_VALUES /\ draws' = draws + 1
BY SeqRange, PyArguments DEF SeqsAreEnough, PyTypes, Draw

\* A reliable send adds the entry of its call, whose key is new.
LEMMA SendReliableStep ==
  ASSUME SeqsAreEnough, SendingInv, PyTypes', NEW c \in Calls, SendReliable(c)
  PROVE  SendingInv'
<1>1. e \in EndpointT /\ PyTypes
  BY DEF SendingInv, PyTypes
<1>2. PICK f : f = Frame(e, c.dst, TRUE, <<c>>)
  OBVIOUS
<1>3. f \in FrameT /\ f.payload = <<c>> /\ f.seq = e.next_seq
  BY <1>1, <1>2, FrameIs
<1>4. PICK x : x = Park(e, f)
  OBVIOUS
<1>5. /\ status[c] = "unused" /\ e' = take_seq(x)
      /\ status' = [status EXCEPT ![c] = "parked"] /\ attempts' = [attempts EXCEPT ![c] = 1]
      /\ draws < SEQ_VALUES /\ draws' = draws + 1
  BY <1>1, <1>2, <1>4, Drawn DEF SendReliable
<1>6. \A i \in DOMAIN e.pending : Key(i) # pending_key(f)
  <2>1. e.next_seq \in PySeqs /\ draws \in Nat
    BY <1>1, Fields DEF PyTypes
  <2>2. \A s \in PySeqs : TakenBefore(s, e.next_seq, draws) => s # e.next_seq
    BY <1>5, <2>1, SeqDrawn
  <2>3. ASSUME NEW i \in DOMAIN e.pending PROVE e.pending[i].frame.seq # e.next_seq
    <3>1. e.pending[i] \in PendingT
      BY <1>1, EntryAt
    <3>2. e.pending[i].frame.seq \in PySeqs
      BY <3>1 DEF PendingT, FrameT
    <3> QED BY <2>2, <3>2 DEF SendingInv, SeqInv
  <2> QED BY <1>3, <2>3 DEF Key, pending_key
<1>7. ~Has(e, pending_key(f))
  BY <1>6 DEF Has, Key
<1>8. x \in EndpointT /\ x.next_seq = e.next_seq
  BY <1>1, <1>3, <1>4, <1>7, ParkNew
<1>9. PICK p \in PendingT : p.frame = f /\ p.retries = 0 /\ x.pending = Append(e.pending, p)
  BY <1>1, <1>3, <1>4, <1>7, ParkNew
<1>10. e'.pending = Append(e.pending, p) /\ e'.next_seq = (e.next_seq + 1) % SEQ_VALUES
  BY <1>5, <1>8, <1>9, TakeSeq
<1>11. EntriesInv'
  BY <1>1, <1>3, <1>5, <1>6, <1>9, <1>10, EntryAdded DEF SendingInv
<1>12. SeqInv'
  <2>1. e.pending \in Seq(PendingT)
    BY <1>1, Fields
  <2>2. \A j \in DOMAIN e'.pending :
          e'.pending[j] = p \/ (j \in DOMAIN e.pending /\ e'.pending[j] = e.pending[j])
    BY <1>10, <2>1
  <2>3. \A j \in DOMAIN e'.pending :
           \/ e'.pending[j].frame.seq = e.next_seq
           \/ \E i \in DOMAIN e.pending : e'.pending[j].frame = e.pending[i].frame
    BY <1>3, <1>9, <2>2
  <2> QED BY <1>1, <1>5, <1>10, <2>3, SeqTaken DEF SendingInv
<1> QED BY <1>11, <1>12 DEF SendingInv

\* An entry leaves the dict.
LEMMA SendingPopped ==
  ASSUME SendingInv, PyTypes', NEW k \in DOMAIN e.pending,
         e'.pending = RemoveAt(e.pending, k), e'.next_seq = e.next_seq, draws' = draws,
         attempts' = attempts, NEW s \in {"acked", "failed"},
         s = "failed" => attempts[CallOf(e.pending[k])] = max_retries + 1,
         status'[CallOf(e.pending[k])] = s,
         \A c \in Calls \ {CallOf(e.pending[k])} : status'[c] = status[c]
  PROVE  SendingInv'
<1>1. EntriesInv'
  BY EntryPopped DEF SendingInv
<1>2. e.pending \in Seq(PendingT)
  BY Fields DEF SendingInv, PyTypes
<1>3. \A j \in DOMAIN e'.pending : \E i \in DOMAIN e.pending : e'.pending[j] = e.pending[i]
  BY <1>2, Removed
<1>4. SeqInv'
  BY <1>3, SeqStays DEF SendingInv
<1> QED BY <1>1, <1>4 DEF SendingInv

\* An ACK takes out at most one entry, and settles its call.
LEMMA ReceiveAnAckStep ==
  ASSUME SendingInv, PyTypes', NEW f \in Inbound, ReceiveAnAck(f)
  PROVE  SendingInv'
<1>1. /\ status' = [c \in Calls |-> IF c \in Popped(e'.pending) THEN "acked" ELSE status[c]]
      /\ draws' = draws /\ attempts' = attempts
  BY DEF ReceiveAnAck
<1>2. PyTypes /\ status \in [Calls -> Outcomes] /\ e.pending \in Seq(PendingT)
  BY Fields DEF SendingInv, PyTypes
<1>3. e'.next_seq = e.next_seq
  BY <1>2, AckPops
<1>4. CASE e' = e
  <2>1. Popped(e'.pending) = {}
    BY <1>4 DEF Popped
  <2>2. status' = status
    BY <1>1, <1>2, <2>1
  <2> QED BY <1>1, <1>4, <2>2, SendingKept
<1>5. ASSUME NEW k \in DOMAIN e.pending, e'.pending = RemoveAt(e.pending, k)
      PROVE  SendingInv'
  <2> DEFINE d == CallOf(e.pending[k])
  <2>1. \A j \in DOMAIN e'.pending : \E i \in DOMAIN e.pending \ {k} :
          e'.pending[j] = e.pending[i] /\ i = IF j < k THEN j ELSE j + 1
    BY <1>2, <1>5, Removed
  <2>2. \A i \in DOMAIN e.pending \ {k} : CallOf(e.pending[i]) # d
    BY DEF SendingInv, EntriesInv
  <2>3. d \in Calls
    BY <1>2, EntryAt
  <2>4. d \in Popped(e'.pending)
    BY <2>1, <2>2 DEF Popped
  <2>5. ASSUME NEW c \in Popped(e'.pending) PROVE c = d
    <3>1. PICK i \in DOMAIN e.pending : c = CallOf(e.pending[i])
      BY DEF Popped
    <3>2. ASSUME i # k PROVE \E j \in DOMAIN e'.pending : e'.pending[j] = e.pending[i]
      BY <1>2, <1>5, <3>2, Removed
    <3> QED BY <3>1, <3>2 DEF Popped
  <2>6. status'[d] = "acked" /\ \A c \in Calls \ {d} : status'[c] = status[c]
    BY <1>1, <2>3, <2>4, <2>5
  <2> QED BY <1>1, <1>3, <1>5, <2>6, SendingPopped
<1> QED BY <1>2, <1>4, <1>5, AckPops

\* The entry that a tick gives up is that of a call with all its attempts.
LEMMA TickFailsStep ==
  ASSUME SendingInv, PyTypes', TickFails PROVE SendingInv'
<1>1. PICK p \in get(Head(todo)) :
        /\ Exhausted(p) /\ e' = Pop(e, pending_key(p.frame))
        /\ status' = [status EXCEPT ![CallOf(p)] = "failed"]
  BY DEF TickFails
<1>2. PICK i \in DOMAIN e.pending : p = e.pending[i]
  BY <1>1, Found
<1>3. PyTypes /\ e \in EndpointT /\ status \in [Calls -> Outcomes]
  BY DEF SendingInv, PyTypes
<1>4. Has(e, pending_key(p.frame))
  BY <1>2 DEF Has
<1>5. PICK k \in DOMAIN e.pending :
        /\ pending_key(e.pending[k].frame) = pending_key(p.frame)
        /\ e'.pending = RemoveAt(e.pending, k)
  BY <1>1, <1>3, <1>4, PopEntry
<1>6. k = i
  BY <1>2, <1>5 DEF SendingInv, EntriesInv, Key
<1>7. e'.next_seq = e.next_seq
  BY <1>1, <1>3, PopEntry
<1>8. draws' = draws /\ attempts' = attempts
  BY DEF TickFails
<1>9. CallOf(p) \in Calls /\ p.retries \in Nat
  BY <1>2, <1>3, EntryAt
<1>10. attempts[CallOf(p)] = max_retries + 1
  <2>1. p.retries <= max_retries /\ attempts[CallOf(p)] = p.retries + 1
    BY <1>2 DEF SendingInv, EntriesInv
  <2>2. p.retries = max_retries
    BY <1>1, <1>9, <2>1, PyParameters DEF Exhausted
  <2> QED BY <2>1, <2>2
<1>11. /\ status'[CallOf(p)] = "failed"
       /\ \A c \in Calls \ {CallOf(p)} : status'[c] = status[c]
  BY <1>1, <1>3, <1>9
<1> QED BY <1>2, <1>5, <1>6, <1>7, <1>8, <1>10, <1>11, SendingPopped

\* The entry that a tick sends again has retries left.
LEMMA TickRetriesStep ==
  ASSUME SendingInv, PyTypes', TickRetries PROVE SendingInv'
<1>1. PICK p \in get(Head(todo)) :
        /\ ~Exhausted(p) /\ e' = Retried(e, pending_key(p.frame), lag)
        /\ attempts' = [attempts EXCEPT ![CallOf(p)] = @ + 1]
  BY DEF TickRetries
<1>2. PICK k \in DOMAIN e.pending : p = e.pending[k]
  BY <1>1, Found
<1>3. PyTypes /\ e \in EndpointT /\ lag \in Nat
  BY DEF SendingInv, PyTypes
<1>4. /\ DOMAIN e'.pending = DOMAIN e.pending /\ e'.next_seq = e.next_seq
      /\ \A i \in DOMAIN e.pending :
           /\ e'.pending[i].frame = e.pending[i].frame
           /\ e'.pending[i].retries =
                IF pending_key(e.pending[i].frame) = pending_key(p.frame)
                THEN e.pending[i].retries + 1 ELSE e.pending[i].retries
  BY <1>1, <1>3, RetryEntries
<1>5. \A i \in DOMAIN e.pending \ {k} : pending_key(e.pending[i].frame) # pending_key(p.frame)
  BY <1>2 DEF SendingInv, EntriesInv, Key
<1>6. /\ \A i \in DOMAIN e.pending \ {k} : e'.pending[i].retries = e.pending[i].retries
      /\ e'.pending[k].retries = e.pending[k].retries + 1
  BY <1>2, <1>4, <1>5
<1>7. e.pending[k].retries < max_retries
  <2>1. p.retries \in Nat
    BY <1>2, <1>3, EntryAt
  <2> QED BY <1>1, <1>2, <2>1, PyParameters DEF Exhausted
<1>8. draws' = draws /\ status' = status
  BY DEF TickRetries
<1>9. EntriesInv'
  BY <1>1, <1>2, <1>3, <1>4, <1>6, <1>7, <1>8, EntryRetried DEF SendingInv
<1>10. SeqInv'
  BY <1>4, <1>8, SeqStays DEF SendingInv
<1> QED BY <1>9, <1>10 DEF SendingInv

\* Every step keeps the invariant of the sending side.
LEMMA SendingStep ==
  ASSUME SeqsAreEnough, SendingInv, [Next]_evars PROVE SendingInv'
<1>1. PyTypes /\ e \in EndpointT /\ status \in [Calls -> Outcomes] /\ attempts \in [Calls -> Nat]
  BY DEF SendingInv, PyTypes
<1>2. PyTypes'
  BY <1>1, TypesStep
<1>3. ASSUME NEW c \in Calls, SendReliable(c) PROVE SendingInv'
  BY <1>2, <1>3, SendReliableStep
<1>4. ASSUME NEW c \in Calls, SendUnreliable(c) PROVE SendingInv'
  <2>1. /\ status[c] = "unused" /\ Draw /\ e' = take_seq(e)
        /\ status' = [status EXCEPT ![c] = "sent"] /\ attempts' = [attempts EXCEPT ![c] = 1]
    BY <1>4 DEF SendUnreliable
  <2>2. e'.pending = e.pending /\ e'.next_seq = (e.next_seq + 1) % SEQ_VALUES
    BY <1>1, <2>1, TakeSeq
  <2>3. \A d \in Calls : \/ status'[d] = status[d] /\ attempts'[d] = attempts[d]
                         \/ status[d] = "unused" /\ status'[d] = "sent"
    BY <1>1, <2>1
  <2>4. draws < SEQ_VALUES /\ draws' = draws + 1
    BY <1>1, <2>1, Drawn
  <2> QED BY <1>2, <2>2, <2>3, <2>4, SendingKept
<1>5. ASSUME NEW f \in Inbound, ReceiveAnAck(f) PROVE SendingInv'
  BY <1>2, <1>5, ReceiveAnAckStep
<1>6. ASSUME NEW f \in Inbound, ReceiveData(f) \/ AckRaises(f) PROVE SendingInv'
  <2>1. /\ e' = Acknowledge(e, f) \/ e' = Remember(Acknowledge(e, f), f)
        /\ Draw /\ attempts' = attempts /\ status' = status
    BY <1>6 DEF ReceiveData, AckRaises
  <2>2. e'.pending = e.pending /\ e'.next_seq = (e.next_seq + 1) % SEQ_VALUES
    BY <1>1, <1>6, <2>1, Acknowledged
  <2>3. draws < SEQ_VALUES /\ draws' = draws + 1
    BY <1>1, <2>1, Drawn
  <2> QED BY <1>2, <2>1, <2>2, <2>3, SendingKept
<1>7. ASSUME e' = e, UNCHANGED <<draws, status, attempts>> PROVE SendingInv'
  BY <1>2, <1>7, SendingKept
<1>8. CASE TickFails
  BY <1>2, <1>8, TickFailsStep
<1>9. CASE TickRetries
  BY <1>2, <1>9, TickRetriesStep
<1>10. CASE AdvanceClock
  <2>1. e' = Elapse(e) /\ UNCHANGED <<draws, status, attempts>>
    BY <1>10 DEF AdvanceClock
  <2>2. /\ DOMAIN e'.pending = DOMAIN e.pending /\ e'.next_seq = e.next_seq
        /\ \A i \in DOMAIN e.pending : /\ e'.pending[i].frame = e.pending[i].frame
                                       /\ e'.pending[i].retries = e.pending[i].retries
    BY <1>1, <2>1, ElapseEntries
  <2> QED BY <1>2, <2>1, <2>2, SendingKept
<1>11. CASE Tick \/ TickSkips \/ UNCHANGED evars \/ \E f \in Inbound : ReceivePlain(f)
  BY <1>7, <1>11 DEF Tick, TickSkips, ReceivePlain, evars
<1> QED BY <1>3, <1>4, <1>5, <1>6, <1>8, <1>9, <1>10, <1>11 DEF Next, Called, TickTurn

\* The invariant holds of a new endpoint.
LEMMA SendingInit == Init => SendingInv
<1> SUFFICES ASSUME Init PROVE SendingInv
  OBVIOUS
<1>1. PyTypes
  BY TypesInit
<1>2. e.pending = <<>> /\ status = [c \in Calls |-> "unused"]
  BY DEF Init, ReliableEndpoint
<1>3. SeqInv
  BY <1>2 DEF SeqInv
<1>4. EntriesInv
  BY <1>2 DEF EntriesInv
<1> QED BY <1>1, <1>3, <1>4 DEF SendingInv

----------------------------------------------------------------------------
(* The theorems about sending.                                             *)

\* However callbacks raise and ACKs arrive in the middle of a tick, a call of send
\* waits for its ACK exactly while the dict has one entry for it, with one attempt
\* per retry, and is given up after max_retries + 1 attempts; while no SEQ is
\* drawn twice, which would replace an entry by another with its key.
THEOREM DictHoldsWaitingCalls == SeqsAreEnough => (Spec => []PendingMatchesCalls)
<1> SUFFICES ASSUME SeqsAreEnough PROVE Spec => []PendingMatchesCalls
  OBVIOUS
<1>1. SendingInv => PendingMatchesCalls
  <2> SUFFICES ASSUME SendingInv, NEW c \in Calls
               PROVE  /\ Cardinality(Entries(c)) = IF status[c] = "parked" THEN 1 ELSE 0
                      /\ \A i \in Entries(c) : attempts[c] = e.pending[i].retries + 1
                      /\ status[c] = "failed" => attempts[c] = max_retries + 1
    BY DEF PendingMatchesCalls
  <2>1. CASE status[c] = "parked"
    <3>1. PICK k \in DOMAIN e.pending : CallOf(e.pending[k]) = c
      BY <2>1 DEF SendingInv, EntriesInv
    <3>2. Entries(c) = {k}
      BY <3>1 DEF Entries, SendingInv, EntriesInv
    <3> QED BY <2>1, <3>1, <3>2, FS_Singleton DEF SendingInv, EntriesInv
  <2>2. CASE status[c] # "parked"
    <3>1. Entries(c) = {}
      BY <2>2 DEF Entries, SendingInv, EntriesInv
    <3>2. Cardinality(Entries(c)) = 0
      BY <3>1, FS_EmptySet
    <3> QED BY <2>2, <3>1, <3>2 DEF SendingInv, EntriesInv
  <2> QED BY <2>1, <2>2
<1>2. Init => SendingInv
  BY SendingInit
<1>3. SendingInv /\ [Next]_evars => SendingInv'
  BY SendingStep
<1> QED BY <1>1, <1>2, <1>3, PTL DEF Spec

\* Neither a tick that goes on with its list nor a late or repeated ACK revises the
\* outcome of a call or sends its frame again.
THEOREM PyOutcomesAreFinal == SeqsAreEnough => (Spec => OutcomeIsFinal)
<1> SUFFICES ASSUME SeqsAreEnough PROVE Spec => OutcomeIsFinal
  OBVIOUS
<1> DEFINE Settled == {"acked", "failed", "sent"}
           Final == \A c \in Calls : status[c] \in Settled
                      => status'[c] = status[c] /\ attempts'[c] = attempts[c]
<1>1. SendingInv /\ [Next]_evars => [Final]_evars
  <2> SUFFICES ASSUME SendingInv, [Next]_evars, NEW c \in Calls, status[c] \in Settled
               PROVE  status'[c] = status[c] /\ attempts'[c] = attempts[c]
    OBVIOUS
  <2>1. PyTypes /\ status \in [Calls -> Outcomes] /\ attempts \in [Calls -> Nat]
    BY DEF SendingInv, PyTypes
  <2>2. ASSUME NEW p, NEW i \in DOMAIN e.pending, p = e.pending[i] PROVE CallOf(p) # c
    BY <2>2 DEF SendingInv, EntriesInv
  <2>3. ASSUME NEW d \in Calls, SendReliable(d) \/ SendUnreliable(d)
        PROVE  status'[c] = status[c] /\ attempts'[c] = attempts[c]
    BY <2>1, <2>3 DEF SendReliable, SendUnreliable
  <2>4. ASSUME NEW f \in Inbound, ReceiveAnAck(f)
        PROVE  status'[c] = status[c] /\ attempts'[c] = attempts[c]
    <3>1. c \notin Popped(e'.pending)
      BY <2>2 DEF Popped
    <3> QED BY <2>4, <3>1 DEF ReceiveAnAck
  <2>5. CASE TickFails
    <3>1. PICK p \in get(Head(todo)) : status' = [status EXCEPT ![CallOf(p)] = "failed"]
      BY <2>5 DEF TickFails
    <3>2. CallOf(p) # c
      BY <2>2, <3>1, Found
    <3> QED BY <2>1, <2>5, <3>1, <3>2 DEF TickFails
  <2>6. CASE TickRetries
    <3>1. PICK p \in get(Head(todo)) : attempts' = [attempts EXCEPT ![CallOf(p)] = @ + 1]
      BY <2>6 DEF TickRetries
    <3>2. CallOf(p) # c
      BY <2>2, <3>1, Found
    <3> QED BY <2>1, <2>6, <3>1, <3>2 DEF TickRetries
  <2>7. ASSUME UNCHANGED <<status, attempts>>
        PROVE  status'[c] = status[c] /\ attempts'[c] = attempts[c]
    BY <2>7
  <2>8. ASSUME NEW f \in Inbound, ReceiveData(f) \/ AckRaises(f) \/ ReceivePlain(f)
        PROVE  UNCHANGED <<status, attempts>>
    BY <2>8 DEF ReceiveData, AckRaises, ReceivePlain, evars
  <2>9. CASE Tick \/ TickSkips \/ AdvanceClock \/ UNCHANGED evars
    BY <2>7, <2>9 DEF Tick, TickSkips, AdvanceClock, evars
  <2> QED BY <2>3, <2>4, <2>5, <2>6, <2>7, <2>8, <2>9 DEF Next, Called, TickTurn
<1>2. Init => SendingInv
  BY SendingInit
<1>3. SendingInv /\ [Next]_evars => SendingInv'
  BY SendingStep
<1> QED BY <1>1, <1>2, <1>3, PTL DEF Spec, OutcomeIsFinal

----------------------------------------------------------------------------
(* The receiving side.                                                     *)

DataForMe == {f \in Inbound : f.dst = my_addr /\ ~f.ack /\ f.reliable}

\* Peers do not give two frames the same source, session and SEQ.
KeysAreFrames == \A f, g \in DataForMe : seen_key(f) = seen_key(g) => f = g

Counts == delivered \in [Inbound -> Nat] /\ acked \in SUBSET Inbound

\* Only frames that were delivered are taken for duplicates.
SeenInv == \A f \in DataForMe : seen_key(f) \in e.seen => delivered[f] > 0

Noted(f) ==
  /\ seen_key(f) \in e.seen
  /\ f.src \in DOMAIN e.source_sessions /\ e.source_sessions[f.src] = f.session

\* A frame of a steady peer that was delivered is remembered ever after.
OnceInv ==
  \A f \in Inbound : Steady(f) => delivered[f] <= 1 /\ (delivered[f] > 0 => Noted(f))

\* What a step does to the receiving side, if anything.
LEMMA ReceivingStep ==
  ASSUME PyTypes, [Next]_evars
  PROVE  \/ \E f \in Inbound : ReceiveData(f) \/ AckRaises(f)
         \/ /\ e'.seen = e.seen /\ e'.source_sessions = e.source_sessions
            /\ delivered' = delivered /\ acked' = acked
<1> DEFINE Same == /\ e'.seen = e.seen /\ e'.source_sessions = e.source_sessions
                   /\ delivered' = delivered /\ acked' = acked
<1>1. e \in EndpointT /\ lag \in Nat
  BY DEF PyTypes
<1>2. ASSUME NEW c \in Calls, SendReliable(c) PROVE Same
  <2>1. PICK f : f = Frame(e, c.dst, TRUE, <<c>>)
    OBVIOUS
  <2>2. f \in FrameT
    BY <2>1, FrameIs
  <2>3. PICK x : x = Park(e, f)
    OBVIOUS
  <2>4. x \in EndpointT /\ Rest(e, x)
    BY <1>1, <2>2, <2>3, ParkNew, ParkOld
  <2>5. e' = take_seq(x) /\ delivered' = delivered /\ acked' = acked
    BY <1>2, <2>1, <2>3 DEF SendReliable
  <2>6. Rest(x, take_seq(x))
    BY <2>4, TakeSeq
  <2> QED BY <2>4, <2>5, <2>6 DEF Rest
<1>3. ASSUME NEW c \in Calls, SendUnreliable(c) PROVE Same
  <2>1. e' = take_seq(e) /\ delivered' = delivered /\ acked' = acked
    BY <1>3 DEF SendUnreliable
  <2> QED BY <1>1, <2>1, TakeSeq DEF Rest
<1>4. ASSUME NEW f \in Inbound, ReceiveAnAck(f) PROVE Same
  <2>1. delivered' = delivered /\ acked' = acked
    BY <1>4 DEF ReceiveAnAck
  <2> QED BY <1>4, <2>1, AckPops
<1>5. CASE TickFails
  <2>1. PICK p : e' = Pop(e, pending_key(p.frame))
    BY <1>5 DEF TickFails
  <2>2. delivered' = delivered /\ acked' = acked
    BY <1>5 DEF TickFails
  <2>3. Rest(e, e')
    BY <1>1, <2>1, PopEntry
  <2> QED BY <2>2, <2>3 DEF Rest
<1>6. CASE TickRetries
  <2>1. PICK p : e' = Retried(e, pending_key(p.frame), lag)
    BY <1>6 DEF TickRetries
  <2>2. delivered' = delivered /\ acked' = acked
    BY <1>6 DEF TickRetries
  <2>3. Rest(e, e')
    BY <1>1, <2>1, RetryEntries
  <2> QED BY <2>2, <2>3 DEF Rest
<1>7. CASE AdvanceClock
  <2>1. e' = Elapse(e) /\ delivered' = delivered /\ acked' = acked
    BY <1>7 DEF AdvanceClock
  <2>2. Rest(e, e')
    BY <1>1, <2>1, ElapseEntries
  <2> QED BY <2>1, <2>2 DEF Rest
<1>8. CASE Tick \/ TickSkips \/ UNCHANGED evars \/ \E f \in Inbound : ReceivePlain(f)
  BY <1>8 DEF Tick, TickSkips, ReceivePlain, evars
<1> QED BY <1>2, <1>3, <1>4, <1>5, <1>6, <1>7, <1>8 DEF Next, Called, TickTurn

\* receive of a reliable frame, whether its ACK leaves or raises.
LEMMA ReceivedData ==
  ASSUME PyTypes, Counts, NEW f \in Inbound, ReceiveData(f) \/ AckRaises(f)
  PROVE  /\ f \in DataForMe /\ Counts'
         /\ e'.seen \subseteq e.seen \cup {seen_key(f)}
         /\ \A key \in e.seen : SameSession(e, f) \/ key[1] # f.src => key \in e'.seen
         /\ f.src \in DOMAIN e'.source_sessions /\ e'.source_sessions[f.src] = f.session
         /\ \A s \in DOMAIN e.source_sessions \ {f.src} :
              s \in DOMAIN e'.source_sessions /\ e'.source_sessions[s] = e.source_sessions[s]
         /\ \A g \in Inbound \ {f} : delivered'[g] = delivered[g]
         /\ \/ AckRaises(f) /\ delivered'[f] = delivered[f] /\ acked' = acked
               /\ e'.seen \subseteq e.seen
            \/ ReceiveData(f) /\ acked' = acked \cup {f} /\ seen_key(f) \in e'.seen
               /\ \/ delivered'[f] = delivered[f] + 1
                     /\ ~(SameSession(e, f) /\ seen_key(f) \in e.seen)
                  \/ delivered'[f] = delivered[f] /\ seen_key(f) \in e.seen
<1>1. /\ e \in EndpointT /\ f \in DataForMe
      /\ delivered \in [Inbound -> Nat] /\ acked \in SUBSET Inbound
  BY DEF PyTypes, Counts, DataForMe, ReceiveData, AckRaises
<1>2. PICK h : h = reset_seen_if_session_changed(e, f)
  OBVIOUS
<1>3. /\ \A key : key \in h.seen <=> key \in e.seen /\ (SameSession(e, f) \/ key[1] # f.src)
      /\ f.src \in DOMAIN h.source_sessions /\ h.source_sessions[f.src] = f.session
      /\ \A s \in DOMAIN e.source_sessions \ {f.src} :
           s \in DOMAIN h.source_sessions /\ h.source_sessions[s] = e.source_sessions[s]
  BY <1>1, <1>2, ResetSeen
<1>4. CASE AckRaises(f)
  <2>1. e' = Acknowledge(e, f) /\ delivered' = delivered /\ acked' = acked
    BY <1>4 DEF AckRaises
  <2>2. e'.source_sessions = h.source_sessions /\ e'.seen = h.seen
    BY <1>2, <2>1, Acknowledged
  <2>3. Counts'
    BY <1>1, <2>1 DEF Counts
  <2> QED BY <1>1, <1>3, <1>4, <2>1, <2>2, <2>3
<1>5. CASE ReceiveData(f)
  <2>1. /\ e' = Remember(Acknowledge(e, f), f) /\ acked' = acked \cup {f}
        /\ delivered' = [delivered EXCEPT ![f] = @ + IF IsDuplicate(e, f) THEN 0 ELSE 1]
    BY <1>5 DEF ReceiveData
  <2>2. e'.source_sessions = h.source_sessions /\ e'.seen = h.seen \cup {seen_key(f)}
    BY <1>2, <2>1, Acknowledged
  <2>3. IsDuplicate(e, f) <=> seen_key(f) \in h.seen
    BY <1>2 DEF IsDuplicate
  <2>4. /\ \A g \in Inbound \ {f} : delivered'[g] = delivered[g]
        /\ delivered' \in [Inbound -> Nat]
        /\ delivered'[f] = IF IsDuplicate(e, f) THEN delivered[f] ELSE delivered[f] + 1
    BY <1>1, <2>1
  <2>5. Counts'
    BY <1>1, <2>1, <2>4 DEF Counts
  <2>6. \/ delivered'[f] = delivered[f] + 1 /\ ~(SameSession(e, f) /\ seen_key(f) \in e.seen)
        \/ delivered'[f] = delivered[f] /\ seen_key(f) \in e.seen
    BY <1>3, <2>3, <2>4
  <2> QED BY <1>1, <1>3, <1>5, <2>1, <2>2, <2>4, <2>5, <2>6
<1> QED BY <1>4, <1>5


----------------------------------------------------------------------------
(* The theorems about receiving.                                           *)

\* A frame whose ACK left was delivered, also when earlier ACKs for it raised: a
\* key is in _seen only if its frame was handed to deliver_frame.
THEOREM PyAckedIsDelivered == KeysAreFrames => (Spec => []AckedIsDelivered)
<1> SUFFICES ASSUME KeysAreFrames PROVE Spec => []AckedIsDelivered
  OBVIOUS
<1> DEFINE Inv == PyTypes /\ Counts /\ SeenInv /\ AckedIsDelivered
<1>1. Init => Inv
  <2> SUFFICES ASSUME Init PROVE Inv
    OBVIOUS
  <2>1. PyTypes
    BY TypesInit
  <2>2. e.seen = {} /\ acked = {} /\ delivered = [f \in Inbound |-> 0]
    BY DEF Init, ReliableEndpoint
  <2> QED BY <2>1, <2>2 DEF Counts, SeenInv, AckedIsDelivered
<1>2. Inv /\ [Next]_evars => Inv'
  <2> SUFFICES ASSUME Inv, [Next]_evars PROVE Inv'
    OBVIOUS
  <2>1. PyTypes'
    BY TypesStep
  <2>2. CASE e'.seen = e.seen /\ delivered' = delivered /\ acked' = acked
    <3>1. Counts'
      BY <2>2 DEF Counts
    <3>2. SeenInv'
      BY <2>2 DEF SeenInv
    <3>3. AckedIsDelivered'
      BY <2>2 DEF AckedIsDelivered
    <3> QED BY <2>1, <3>1, <3>2, <3>3
  <2>3. ASSUME NEW f \in Inbound, ReceiveData(f) \/ AckRaises(f) PROVE Inv'
    <3>1. f \in DataForMe /\ Counts'
      BY <2>3, ReceivedData
    <3>2. \A g \in Inbound : delivered[g] \in Nat /\ delivered'[g] \in Nat
      BY <3>1 DEF Counts
    <3>3. \A g \in Inbound : delivered[g] > 0 => delivered'[g] > 0
      <4>1. /\ \A g \in Inbound \ {f} : delivered'[g] = delivered[g]
            /\ delivered'[f] = delivered[f] \/ delivered'[f] = delivered[f] + 1
        BY <2>3, ReceivedData
      <4> QED BY <3>2, <4>1
    <3>4. ReceiveData(f) \/ seen_key(f) \in e'.seen \ e.seen => delivered'[f] > 0
      <4>1. \/ ReceiveData(f) /\ \/ delivered'[f] = delivered[f] + 1
                                 \/ delivered'[f] = delivered[f] /\ seen_key(f) \in e.seen
            \/ AckRaises(f) /\ e'.seen \subseteq e.seen /\ delivered'[f] = delivered[f]
               /\ acked' = acked
        BY <2>3, ReceivedData
      <4>2. ~(ReceiveData(f) /\ AckRaises(f) /\ acked' = acked) \/ f \in acked
        BY DEF ReceiveData
      <4>3. seen_key(f) \in e.seen => delivered[f] > 0
        BY <3>1 DEF SeenInv
      <4> QED BY <3>2, <4>1, <4>2, <4>3 DEF AckedIsDelivered
    <3>5. SeenInv'
      <4> SUFFICES ASSUME NEW g \in DataForMe, seen_key(g) \in e'.seen PROVE delivered'[g] > 0
        BY DEF SeenInv
      <4>1. g \in Inbound /\ (seen_key(g) \in e.seen \/ seen_key(g) = seen_key(f))
        BY <2>3, ReceivedData DEF DataForMe
      <4>2. CASE seen_key(g) \in e.seen
        BY <3>3, <4>1, <4>2 DEF SeenInv
      <4>3. CASE seen_key(g) \notin e.seen
        BY <3>1, <3>4, <4>1, <4>3 DEF KeysAreFrames
      <4> QED BY <4>2, <4>3
    <3>6. AckedIsDelivered'
      <4>1. acked' = acked \/ (acked' = acked \cup {f} /\ ReceiveData(f))
        BY <2>3, ReceivedData
      <4>2. acked \in SUBSET Inbound
        BY DEF Counts
      <4> QED BY <3>3, <3>4, <4>1, <4>2 DEF AckedIsDelivered
    <3> QED BY <2>1, <3>1, <3>5, <3>6
  <2> QED BY <2>2, <2>3, ReceivingStep
<1>3. Inv => AckedIsDelivered
  OBVIOUS
<1> QED BY <1>1, <1>2, <1>3, PTL DEF Spec

\* However often the frame of a peer that keeps its session arrives, it is
\* delivered once: no other peer makes the endpoint forget its key.
THEOREM PyDeliveredOnce == Spec => []DeliveredOnce
<1> DEFINE Inv == PyTypes /\ Counts /\ OnceInv
<1>1. Init => Inv
  <2> SUFFICES ASSUME Init PROVE Inv
    OBVIOUS
  <2>1. PyTypes
    BY TypesInit
  <2>2. acked = {} /\ delivered = [f \in Inbound |-> 0]
    BY DEF Init
  <2> QED BY <2>1, <2>2 DEF Counts, OnceInv
<1>2. Inv /\ [Next]_evars => Inv'
  <2> SUFFICES ASSUME Inv, [Next]_evars PROVE Inv'
    OBVIOUS
  <2>1. PyTypes'
    BY TypesStep
  <2>2. CASE /\ e'.seen = e.seen /\ e'.source_sessions = e.source_sessions
             /\ delivered' = delivered /\ acked' = acked
    <3>1. Counts'
      BY <2>2 DEF Counts
    <3>2. OnceInv'
      BY <2>2 DEF OnceInv, Noted, Steady
    <3> QED BY <2>1, <3>1, <3>2
  <2>3. ASSUME NEW f \in Inbound, ReceiveData(f) \/ AckRaises(f) PROVE Inv'
    <3>1. f \in DataForMe /\ Counts'
      BY <2>3, ReceivedData
    <3>2. ASSUME NEW g \in Inbound, Steady(g)
          PROVE  /\ delivered[g] \in Nat /\ delivered[g] <= 1
                 /\ delivered[g] > 0 => Noted(g) /\ Noted(g)'
      <4>1. delivered[g] \in Nat /\ delivered[g] <= 1 /\ (delivered[g] > 0 => Noted(g))
        BY <3>2 DEF Counts, OnceInv
      <4>2. ASSUME Noted(g) PROVE Noted(g)'
        <5>1. seen_key(g) \in e.seen /\ seen_key(g)[1] = g.src
          BY <4>2 DEF Noted, seen_key
        <5>2. CASE g.src = f.src
          <6>1. f.session = g.session
            BY <3>1, <3>2, <5>2 DEF Steady, DataForMe
          <6>2. SameSession(e, f)
            BY <4>2, <5>2, <6>1 DEF SameSession, Noted
          <6>3. seen_key(g) \in e'.seen
            BY <2>3, <5>1, <6>2, ReceivedData
          <6>4. f.src \in DOMAIN e'.source_sessions /\ e'.source_sessions[f.src] = f.session
            BY <2>3, ReceivedData
          <6> QED BY <5>2, <6>1, <6>3, <6>4 DEF Noted
        <5>3. CASE g.src # f.src
          <6>1. seen_key(g) \in e'.seen
            BY <2>3, <5>1, <5>3, ReceivedData
          <6>2. /\ g.src \in DOMAIN e'.source_sessions
                /\ e'.source_sessions[g.src] = e.source_sessions[g.src]
            BY <2>3, <4>2, <5>3, ReceivedData DEF Noted
          <6> QED BY <4>2, <6>1, <6>2 DEF Noted
        <5> QED BY <5>2, <5>3
      <4> QED BY <4>1, <4>2
    <3>3. ASSUME NEW g \in Inbound, Steady(g)
          PROVE  delivered'[g] <= 1 /\ (delivered'[g] > 0 => Noted(g)')
      <4>1. CASE g # f
        <5>1. delivered'[g] = delivered[g]
          BY <2>3, <4>1, ReceivedData
        <5> QED BY <3>2, <3>3, <5>1
      <4>2. CASE g = f /\ delivered'[f] = delivered[f]
        BY <3>2, <3>3, <4>2
      <4>3. CASE g = f /\ delivered'[f] # delivered[f]
        <5>1. /\ delivered'[f] = delivered[f] + 1 /\ seen_key(f) \in e'.seen
              /\ ~(SameSession(e, f) /\ seen_key(f) \in e.seen)
          BY <2>3, <4>3, ReceivedData
        <5>2. f.src \in DOMAIN e'.source_sessions /\ e'.source_sessions[f.src] = f.session
          BY <2>3, ReceivedData
        <5>3. ~(delivered[f] > 0)
          BY <3>2, <3>3, <4>3, <5>1 DEF Noted, SameSession
        <5> QED BY <3>2, <3>3, <4>3, <5>1, <5>2, <5>3 DEF Noted
      <4> QED BY <4>1, <4>2, <4>3
    <3>4. OnceInv'
      BY <3>3 DEF OnceInv, Steady
    <3> QED BY <2>1, <3>1, <3>4
  <2> QED BY <2>2, <2>3, ReceivingStep
<1>3. Inv => DeliveredOnce
  BY DEF OnceInv, DeliveredOnce
<1> QED BY <1>1, <1>2, <1>3, PTL DEF Spec


=============================================================================
