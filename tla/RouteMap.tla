------------------------------ MODULE RouteMap ------------------------------
(***************************************************************************)
(* What a static router is: a finite map from destinations to links, with  *)
(* a fallback for the others.  There are no slots; a table has a capacity. *)
(* Every call and its answer appear in out, so an implementation has to    *)
(* give the right answer to the call that was really made.                 *)
(***************************************************************************)
EXTENDS Integers, FiniteSets

CONSTANTS
  Dsts,       \* the destinations
  my_addr,    \* the one that is this node
  MaxLinks,   \* links that can be registered
  Capacity    \* destinations that can be bound

VARIABLES
  open,       \* whether each registered link can send
  table,      \* the link each bound destination uses
  fallback,   \* the link of all other destinations, -1 for none
  out         \* the last call and what it returned

mvars == <<open, table, fallback, out>>

MInit ==
  /\ open = << >>
  /\ table = << >>
  /\ fallback = -1
  /\ out = <<"arc_router_init">>

Bound(f, k, v) == [x \in DOMAIN f \cup {k} |-> IF x = k THEN v ELSE f[x]]

\* A new link gets the next number.
Register(can_send) ==
  LET l == Cardinality(DOMAIN open)
  IN  /\ IF l < MaxLinks
         THEN open' = Bound(open, l, can_send) /\ out' = <<"add_link", can_send, l>>
         ELSE open' = open /\ out' = <<"add_link", can_send, "ARC_ERR_BUFFER">>
      /\ UNCHANGED <<table, fallback>>

\* The answer to a binding: an unregistered link is refused before a full
\* table, and only a new destination can find the table full.
BindResult(d, l) ==
  IF l \notin DOMAIN open THEN "ARC_ERR_BAD_ARG"
  ELSE IF d \notin DOMAIN table /\ Cardinality(DOMAIN table) = Capacity
  THEN "ARC_ERR_BUFFER" ELSE "ARC_OK"

Bind(d, l) ==
  /\ table' = IF BindResult(d, l) = "ARC_OK" THEN Bound(table, d, l) ELSE table
  /\ out' = <<"add_route", d, l, BindResult(d, l)>>
  /\ UNCHANGED <<open, fallback>>

SetFallback(l) ==
  /\ IF l \in DOMAIN open \cup {-1}
     THEN fallback' = l /\ out' = <<"set_default", l, "ARC_OK">>
     ELSE fallback' = fallback /\ out' = <<"set_default", l, "ARC_ERR_BAD_ARG">>
  /\ UNCHANGED <<open, table>>

\* The link a frame for d leaves on, -1 for none.
Link(d) == IF d \in DOMAIN table THEN table[d] ELSE fallback

Forward(d) ==
  /\ out' = IF d = my_addr THEN <<"route", d, "ARC_ROUTE_LOCAL">>
            ELSE IF Link(d) \in DOMAIN open /\ open[Link(d)]
            THEN <<"route", d, "ARC_ROUTE_FORWARDED", Link(d)>>
            ELSE <<"route", d, "ARC_ERR_BAD_ARG">>
  /\ UNCHANGED <<open, table, fallback>>

MNext ==
  \/ \E b \in BOOLEAN : Register(b)
  \/ \E l \in -1 .. MaxLinks : SetFallback(l) \/ \E d \in Dsts : Bind(d, l)
  \/ \E d \in Dsts : Forward(d)

MSpec == MInit /\ [][MNext]_mvars

=============================================================================
