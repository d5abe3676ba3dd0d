--------------------------- MODULE ArcRouterProofs ---------------------------
(* Proofs that the tables of ArcRouter stay well formed, for all sizes of    *)
(* the tables and all sets of destinations.                                  *)
EXTENDS ArcRouter, TableLemmas, FiniteSetTheorems

\* The tables and the default link keep their types.
THEOREM RouterTypes == RSpec => []RTypeOK
<1>1. arc_router_init => RTypeOK
  BY RouterSizes DEF arc_router_init, RTypeOK, EmptyTable, Links, Routes
<1>2. RTypeOK /\ [RNext]_rvars => RTypeOK'
  <2> SUFFICES ASSUME RTypeOK, [RNext]_rvars PROVE RTypeOK'
    OBVIOUS
  <2> USE RouterSizes DEF RTypeOK
  <2>1. ASSUME NEW b \in BOOLEAN, arc_router_add_link(b) PROVE RTypeOK'
    BY <2>1 DEF arc_router_add_link
  <2>2. ASSUME NEW dst \in Dsts, NEW l \in LinkArgs, arc_router_add_route(dst, l)
        PROVE RTypeOK'
    <3>1. LinkInUse(l) => [dst |-> dst, link_idx |-> l] \in arc_router_route_t
      BY DEF LinkInUse, arc_router_route_t
    <3> QED BY <2>2, <3>1 DEF arc_router_add_route
  <2>3. ASSUME NEW l \in LinkArgs, arc_router_set_default(l) PROVE RTypeOK'
    BY <2>3 DEF arc_router_set_default, LinkInUse, Links
  <2>4. ASSUME NEW dst \in Dsts, arc_router_route(dst) PROVE RTypeOK'
    BY <2>4 DEF arc_router_route
  <2>5. CASE UNCHANGED rvars
    BY <2>5 DEF rvars
  <2> QED BY <2>1, <2>2, <2>3, <2>4, <2>5 DEF RNext
<1> QED BY <1>1, <1>2, PTL DEF RSpec

\* A destination never has two routes, because arc_router_add_route takes a
\* free slot only when its scan found no route for the destination.
THEOREM RoutesAreUnique == RSpec => []OneRoutePerDst
<1>1. arc_router_init => OneRoutePerDst
  BY DEF arc_router_init, OneRoutePerDst, UsedSlots, EmptyTable
<1>2. RTypeOK /\ OneRoutePerDst /\ [RNext]_rvars => OneRoutePerDst'
  <2> SUFFICES ASSUME RTypeOK, OneRoutePerDst, [RNext]_rvars PROVE OneRoutePerDst'
    OBVIOUS
  <2>1. ASSUME NEW dst \in Dsts, NEW l \in LinkArgs, arc_router_add_route(dst, l)
        PROVE OneRoutePerDst'
    <3>1. CASE routes' = routes
      BY <3>1 DEF OneRoutePerDst, UsedSlots
    <3>2. CASE routes' # routes
      <4> DEFINE k == FirstSlot(RouteSlots(dst))
      <4>1. /\ RouteSlots(dst) # {}
            /\ routes' = [routes EXCEPT ![k] = [dst |-> dst, link_idx |-> l]]
        BY <2>1, <3>2 DEF arc_router_add_route
      <4>2. k \in RouteSlots(dst)
        <5>1. RouteSlots(dst) \subseteq 0 .. ARC_ROUTER_MAX_ROUTES - 1
          BY DEF RouteSlots, RoutesFor, UsedSlots, FreeSlots, RTypeOK, Routes
        <5> QED BY <4>1, <5>1, RouterSizes, FirstSlotIsMin
      <4>3. \A i \in UsedSlots(routes) : routes[i].dst = dst => i = k
        <5>1. CASE RoutesFor(dst) # {}
          BY <4>2, <5>1 DEF RouteSlots, RoutesFor, OneRoutePerDst
        <5>2. CASE RoutesFor(dst) = {}
          BY <5>2 DEF RoutesFor
        <5> QED BY <5>1, <5>2
      <4> HIDE DEF k
      <4>4. k \in DOMAIN routes
        BY <4>2 DEF RouteSlots, RoutesFor, UsedSlots, FreeSlots
      <4> QED BY <4>1, <4>3, <4>4 DEF OneRoutePerDst, UsedSlots
    <3> QED BY <3>1, <3>2
  <2>2. ASSUME routes' = routes PROVE OneRoutePerDst'
    BY <2>2 DEF OneRoutePerDst, UsedSlots
  <2> QED BY <2>1, <2>2
        DEF RNext, rvars, arc_router_add_link, arc_router_set_default, arc_router_route
<1> QED BY <1>1, <1>2, RouterTypes, PTL DEF RSpec

\* Every route and the default name a registered link: links are checked when
\* they are named and never removed.
THEOREM LinksDoNotDangle == RSpec => []NoDanglingLink
<1>1. arc_router_init => NoDanglingLink
  BY DEF arc_router_init, NoDanglingLink, UsedSlots, EmptyTable
<1>2. RTypeOK /\ NoDanglingLink /\ [RNext]_rvars => NoDanglingLink'
  <2> SUFFICES ASSUME RTypeOK, NoDanglingLink, [RNext]_rvars PROVE NoDanglingLink'
    OBVIOUS
  <2> USE FreeIsNoRoute
  <2>1. ASSUME NEW b \in BOOLEAN, arc_router_add_link(b) PROVE NoDanglingLink'
    <3>1. links' \in [Links -> BOOLEAN \cup {Free}]
      BY <2>1 DEF arc_router_add_link, RTypeOK
    <3>2. \A i \in Links : links[i] # Free => links'[i] # Free
      BY <2>1 DEF arc_router_add_link, RTypeOK
    <3>3. \A i \in UsedSlots(routes) : routes[i].link_idx \in Links
      BY DEF RTypeOK, UsedSlots, arc_router_route_t
    <3>4. default_link_idx # -1 => default_link_idx \in Links
      BY RouterSizes DEF RTypeOK, Links
    <3> QED BY <2>1, <3>2, <3>3, <3>4 DEF arc_router_add_link, NoDanglingLink
  <2>2. ASSUME NEW dst \in Dsts, NEW l \in LinkArgs, arc_router_add_route(dst, l)
        PROVE NoDanglingLink'
    <3>1. \A i \in UsedSlots(routes)' : links[routes'[i].link_idx] # Free
      BY <2>2 DEF arc_router_add_route, NoDanglingLink, UsedSlots, LinkInUse, RTypeOK
    <3> QED BY <2>2, <3>1 DEF arc_router_add_route, NoDanglingLink
  <2>3. ASSUME NEW l \in LinkArgs, arc_router_set_default(l) PROVE NoDanglingLink'
    BY <2>3 DEF arc_router_set_default, NoDanglingLink, LinkInUse, UsedSlots
  <2>4. ASSUME NEW dst \in Dsts, arc_router_route(dst) PROVE NoDanglingLink'
    BY <2>4 DEF arc_router_route, NoDanglingLink, UsedSlots
  <2>5. CASE UNCHANGED rvars
    BY <2>5 DEF rvars, NoDanglingLink, UsedSlots
  <2> QED BY <2>1, <2>2, <2>3, <2>4, <2>5 DEF RNext
<1> QED BY <1>1, <1>2, RouterTypes, PTL DEF RSpec

----------------------------------------------------------------------------
(* The tables implement the map of RouteMap.                               *)

\* The registered links are the first slots of links[].
LinksFilled == \E n \in 0 .. ARC_ROUTER_MAX_LINKS : UsedSlots(links) = 0 .. n - 1

\* When the first n slots are in use, the next one is the first free one.
LEMMA NextLink ==
  ASSUME RTypeOK, NEW n \in 0 .. ARC_ROUTER_MAX_LINKS, UsedSlots(links) = 0 .. n - 1
  PROVE  /\ FreeSlots(links) # {} <=> n < ARC_ROUTER_MAX_LINKS
         /\ n < ARC_ROUTER_MAX_LINKS => FirstSlot(FreeSlots(links)) = n
         /\ Cardinality(UsedSlots(links)) = n
<1>1. n \in Nat /\ ARC_ROUTER_MAX_LINKS \in Nat
  BY RouterSizes
<1>2. FreeSlots(links) = n .. ARC_ROUTER_MAX_LINKS - 1
  <2>1. DOMAIN links = 0 .. ARC_ROUTER_MAX_LINKS - 1
    BY DEF RTypeOK, Links
  <2>2. FreeSlots(links) = (0 .. ARC_ROUTER_MAX_LINKS - 1) \ UsedSlots(links)
    BY <2>1 DEF FreeSlots, UsedSlots
  <2> QED BY <1>1, <2>2
<1>3. FreeSlots(links) # {} <=> n < ARC_ROUTER_MAX_LINKS
  BY <1>1, <1>2
<1>4. ASSUME n < ARC_ROUTER_MAX_LINKS PROVE FirstSlot(FreeSlots(links)) = n
  <2>1. FreeSlots(links) \in SUBSET (0 .. ARC_ROUTER_MAX_LINKS - 1)
    BY <1>1, <1>2
  <2>2. /\ FirstSlot(FreeSlots(links)) \in n .. ARC_ROUTER_MAX_LINKS - 1
        /\ n \in FreeSlots(links) => FirstSlot(FreeSlots(links)) <= n
    BY <1>1, <1>2, <1>3, <1>4, <2>1, FirstSlotIsMin
  <2> QED BY <1>1, <1>2, <1>4, <2>2
<1>5. Cardinality(0 .. n - 1) = n
  <2>1. Cardinality(0 .. n - 1) = IF 0 > n - 1 THEN 0 ELSE (n - 1) - 0 + 1
    BY <1>1, FS_Interval
  <2> QED BY <1>1, <2>1
<1> QED BY <1>3, <1>4, <1>5

\* Links are registered from slot 0 on and never removed.
LEMMA LinksAreFilled == RSpec => []LinksFilled
<1>1. arc_router_init => LinksFilled
  <2> SUFFICES ASSUME arc_router_init PROVE UsedSlots(links) = 0 .. 0 - 1
    BY RouterSizes, SMTT(30) DEF LinksFilled
  <2> QED BY DEF arc_router_init, UsedSlots, EmptyTable
<1>2. RTypeOK /\ LinksFilled /\ [RNext]_rvars => LinksFilled'
  <2> SUFFICES ASSUME RTypeOK, LinksFilled, [RNext]_rvars PROVE LinksFilled'
    OBVIOUS
  <2>1. CASE links' = links
    BY <2>1 DEF LinksFilled, UsedSlots
  <2>2. ASSUME NEW b \in BOOLEAN, arc_router_add_link(b), links' # links
        PROVE  LinksFilled'
    <3>1. PICK n \in 0 .. ARC_ROUTER_MAX_LINKS : UsedSlots(links) = 0 .. n - 1
      BY DEF LinksFilled
    <3>2. n < ARC_ROUTER_MAX_LINKS /\ links' = [links EXCEPT ![n] = b]
      BY <2>2, <3>1, NextLink DEF arc_router_add_link
    <3>3. DOMAIN links = 0 .. ARC_ROUTER_MAX_LINKS - 1 /\ b # Free
      BY FreeIsNoRoute DEF RTypeOK, Links
    <3>4. UsedSlots(links') = UsedSlots(links) \cup {n}
      BY RouterSizes, <3>2, <3>3 DEF UsedSlots
    <3>5. UsedSlots(links') = 0 .. (n + 1) - 1
      BY RouterSizes, <3>1, <3>4
    <3> QED BY RouterSizes, <3>2, <3>5 DEF LinksFilled
  <2> QED BY <2>1, <2>2
        DEF RNext, rvars, arc_router_add_route, arc_router_set_default, arc_router_route
<1> QED BY <1>1, <1>2, RouterTypes, PTL DEF RSpec

\* routes[] is full exactly when as many destinations are bound as it has slots.
LEMMA FullTable ==
  ASSUME RTypeOK, OneRoutePerDst
  PROVE  FreeSlots(routes) = {} <=> Cardinality(BoundDsts) = ARC_ROUTER_MAX_ROUTES
<1> DEFINE f == [i \in UsedSlots(routes) |-> routes[i].dst]
<1>1. DOMAIN routes = Routes /\ UsedSlots(routes) \subseteq Routes
  BY DEF RTypeOK, UsedSlots
<1>2. IsFiniteSet(Routes) /\ Cardinality(Routes) = ARC_ROUTER_MAX_ROUTES
  <2>1. /\ IsFiniteSet(Routes)
        /\ Cardinality(Routes) = IF 0 > ARC_ROUTER_MAX_ROUTES - 1 THEN 0
                                 ELSE (ARC_ROUTER_MAX_ROUTES - 1) - 0 + 1
    BY RouterSizes, FS_Interval DEF Routes
  <2> QED BY RouterSizes, <2>1
<1>3. /\ IsFiniteSet(UsedSlots(routes))
      /\ Cardinality(Routes) = Cardinality(UsedSlots(routes)) => Routes = UsedSlots(routes)
  BY <1>1, <1>2, FS_Subset
<1>4. f \in Bijection(UsedSlots(routes), BoundDsts)
  BY DEF Bijection, Injection, Surjection, IsInjective, BoundDsts, OneRoutePerDst
<1>5. Cardinality(BoundDsts) = Cardinality(UsedSlots(routes))
  BY <1>3, <1>4, FS_Bijection DEF ExistsBijection
<1>6. FreeSlots(routes) = {} <=> UsedSlots(routes) = Routes
  BY <1>1 DEF FreeSlots, UsedSlots
<1> QED BY <1>2, <1>3, <1>5, <1>6

\* The slot that a scan of routes[] for d stops at.
LEMMA RouteOf ==
  ASSUME RTypeOK, OneRoutePerDst, NEW dst \in BoundDsts
  PROVE  \E i \in UsedSlots(routes) :
           /\ RoutesFor(dst) = {i} /\ FirstSlot(RoutesFor(dst)) = i
           /\ (CHOOSE j \in RoutesFor(dst) : TRUE) = i
           /\ routes[i] \in arc_router_route_t /\ routes[i].dst = dst
<1>1. PICK i \in UsedSlots(routes) : routes[i].dst = dst
  BY DEF BoundDsts
<1>2. RoutesFor(dst) = {i}
  BY <1>1 DEF RoutesFor, OneRoutePerDst
<1>3. FirstSlot({i}) = i
  <2>1. i \in 0 .. ARC_ROUTER_MAX_ROUTES - 1
    BY DEF UsedSlots, RTypeOK, Routes
  <2>2. {i} \in SUBSET (0 .. ARC_ROUTER_MAX_ROUTES - 1) /\ {i} # {}
    BY <2>1
  <2> QED BY <2>2, RouterSizes, FirstSlotIsMin
<1>4. routes[i] \in arc_router_route_t
  BY DEF UsedSlots, RTypeOK
<1> QED BY <1>1, <1>2, <1>3, <1>4

\* A destination is bound exactly when the scan finds a route for it.
LEMMA BoundIff == ASSUME NEW dst PROVE dst \in BoundDsts <=> RoutesFor(dst) # {}
BY DEF BoundDsts, RoutesFor

\* The values of RouteMap's variables that the tables stand for.
OpenLinks  == [l \in UsedSlots(links) |-> links[l]]
RouteTable == [d \in BoundDsts |-> routes[CHOOSE i \in RoutesFor(d) : TRUE].link_idx]

\* An element of S, the same one for equal sets.
An(S) == CHOOSE i \in S : TRUE

\* RouteTable before and after a step, with its CHOOSE behind a name.
LEMMA RouteTableIs ==
  /\ RouteTable = [d \in BoundDsts |-> routes[An(RoutesFor(d))].link_idx]
  /\ RouteTable' = [d \in BoundDsts' |-> routes'[An(RoutesFor(d)')].link_idx]
BY DEF RouteTable, An

\* What an unchanged table stands for does not change.
LEMMA SameTables ==
  /\ links' = links => OpenLinks' = OpenLinks
  /\ routes' = routes => RouteTable' = RouteTable /\ BoundDsts' = BoundDsts
<1>1. ASSUME links' = links PROVE OpenLinks' = OpenLinks
  BY <1>1 DEF OpenLinks, UsedSlots
<1>2. ASSUME routes' = routes PROVE RouteTable' = RouteTable /\ BoundDsts' = BoundDsts
  <2>1. BoundDsts' = BoundDsts
    BY <1>2 DEF BoundDsts, UsedSlots
  <2>2. \A d \in BoundDsts : RoutesFor(d)' = RoutesFor(d)
    BY <1>2 DEF RoutesFor, UsedSlots
  <2> QED BY <1>2, <2>1, <2>2, RouteTableIs
<1> QED BY <1>1, <1>2

\* RouteMap counts as this module does.
LEMMA SameCardinality == ASSUME NEW S PROVE Map!Cardinality(S) = Cardinality(S)
BY Zenon DEF Map!Cardinality, Cardinality, Map!IsFiniteSet, IsFiniteSet

\* The actions of RouteMap under the refinement mapping.
LEMMA MapActions ==
  ASSUME NEW d, NEW l, NEW b
  PROVE  /\ Map!Register(b) <=>
              /\ IF Cardinality(DOMAIN OpenLinks) < ARC_ROUTER_MAX_LINKS
                 THEN /\ OpenLinks' = Map!Bound(OpenLinks, Cardinality(DOMAIN OpenLinks), b)
                      /\ out' = <<"add_link", b, Cardinality(DOMAIN OpenLinks)>>
                 ELSE OpenLinks' = OpenLinks /\ out' = <<"add_link", b, "ARC_ERR_BUFFER">>
              /\ UNCHANGED <<RouteTable, default_link_idx>>
         /\ Map!BindResult(d, l) =
              IF l \notin DOMAIN OpenLinks THEN "ARC_ERR_BAD_ARG"
              ELSE IF /\ d \notin DOMAIN RouteTable
                      /\ Cardinality(DOMAIN RouteTable) = ARC_ROUTER_MAX_ROUTES
              THEN "ARC_ERR_BUFFER" ELSE "ARC_OK"
<1>1. Map!Register(b) <=>
        /\ IF Cardinality(DOMAIN OpenLinks) < ARC_ROUTER_MAX_LINKS
           THEN /\ OpenLinks' = Map!Bound(OpenLinks, Cardinality(DOMAIN OpenLinks), b)
                /\ out' = <<"add_link", b, Cardinality(DOMAIN OpenLinks)>>
           ELSE OpenLinks' = OpenLinks /\ out' = <<"add_link", b, "ARC_ERR_BUFFER">>
        /\ UNCHANGED <<RouteTable, default_link_idx>>
  BY SameCardinality DEF Map!Register, OpenLinks, RouteTable
<1>2. Map!BindResult(d, l) =
        IF l \notin DOMAIN OpenLinks THEN "ARC_ERR_BAD_ARG"
        ELSE IF /\ d \notin DOMAIN RouteTable
                /\ Cardinality(DOMAIN RouteTable) = ARC_ROUTER_MAX_ROUTES
        THEN "ARC_ERR_BUFFER" ELSE "ARC_OK"
  BY SameCardinality DEF Map!BindResult, OpenLinks, RouteTable
<1> QED BY <1>1, <1>2

\* add_link numbers the link as Register does.
LEMMA AddLinkRegisters ==
  ASSUME RTypeOK, LinksFilled, NEW b \in BOOLEAN, arc_router_add_link(b)
  PROVE  Map!Register(b)
<1>1. PICK n \in 0 .. ARC_ROUTER_MAX_LINKS : UsedSlots(links) = 0 .. n - 1
  BY DEF LinksFilled
<1>2. /\ FreeSlots(links) # {} <=> n < ARC_ROUTER_MAX_LINKS
      /\ n < ARC_ROUTER_MAX_LINKS => FirstSlot(FreeSlots(links)) = n
      /\ Cardinality(DOMAIN OpenLinks) = n
  BY <1>1, NextLink DEF OpenLinks
<1>3. RouteTable' = RouteTable /\ default_link_idx' = default_link_idx
  BY SameTables DEF arc_router_add_link
<1>4. CASE n < ARC_ROUTER_MAX_LINKS
  <2>1. /\ links' = [links EXCEPT ![n] = b] /\ out' = <<"add_link", b, n>>
    BY <1>2, <1>4 DEF arc_router_add_link
  <2>2. DOMAIN links = 0 .. ARC_ROUTER_MAX_LINKS - 1 /\ b # Free
    BY FreeIsNoRoute DEF RTypeOK, Links
  <2>3. n \in DOMAIN links /\ UsedSlots(links') = UsedSlots(links) \cup {n}
    BY RouterSizes, <1>4, <2>1, <2>2 DEF UsedSlots
  <2>4. \A l \in UsedSlots(links) : links'[l] = IF l = n THEN b ELSE links[l]
    BY <2>1, <2>2 DEF UsedSlots
  <2>5. links'[n] = b
    BY <2>1, <2>3
  <2>6. OpenLinks' = Map!Bound(OpenLinks, n, b)
    BY <2>3, <2>4, <2>5 DEF OpenLinks, Map!Bound
  <2> QED BY <1>2, <1>3, <1>4, <2>1, <2>6, MapActions
<1>5. CASE ~(n < ARC_ROUTER_MAX_LINKS)
  <2>1. links' = links /\ out' = <<"add_link", b, "ARC_ERR_BUFFER">>
    BY <1>2, <1>5 DEF arc_router_add_link
  <2> QED BY <1>2, <1>3, <1>5, <2>1, SameTables, MapActions
<1> QED BY <1>4, <1>5

\* A link is in use exactly when it is registered.
LEMMA InUseIff ==
  ASSUME RTypeOK, NEW l PROVE LinkInUse(l) <=> l \in DOMAIN OpenLinks
BY DEF LinkInUse, OpenLinks, UsedSlots, RTypeOK

\* add_route binds as Bind does: it replaces the route of a bound destination,
\* and refuses a new one only when the table is full.
LEMMA AddRouteBinds ==
  ASSUME RTypeOK, OneRoutePerDst, NEW dst \in Dsts, NEW l \in LinkArgs,
         arc_router_add_route(dst, l)
  PROVE  Map!Bind(dst, l)
<1>1. OpenLinks' = OpenLinks /\ default_link_idx' = default_link_idx
  BY SameTables DEF arc_router_add_route
<1>2. DOMAIN RouteTable = BoundDsts
  BY DEF RouteTable
<1>3. RouteSlots(dst) = {} <=>
        dst \notin BoundDsts /\ Cardinality(BoundDsts) = ARC_ROUTER_MAX_ROUTES
  BY BoundIff, FullTable DEF RouteSlots
<1>4. Map!BindResult(dst, l) =
        IF ~LinkInUse(l) THEN "ARC_ERR_BAD_ARG"
        ELSE IF RouteSlots(dst) = {} THEN "ARC_ERR_BUFFER" ELSE "ARC_OK"
  BY <1>2, <1>3, InUseIff, MapActions
<1>5. CASE ~LinkInUse(l) \/ RouteSlots(dst) = {}
  <2>1. routes' = routes /\ out' = <<"add_route", dst, l, Map!BindResult(dst, l)>>
    BY <1>4, <1>5 DEF arc_router_add_route
  <2>2. Map!BindResult(dst, l) # "ARC_OK" /\ RouteTable' = RouteTable
    BY <1>4, <1>5, <2>1, SameTables
  <2> QED BY <1>1, <2>1, <2>2 DEF Map!Bind, OpenLinks, RouteTable
<1>6. CASE LinkInUse(l) /\ RouteSlots(dst) # {}
  <2> DEFINE k == FirstSlot(RouteSlots(dst))
             new == [dst |-> dst, link_idx |-> l]
  <2>1. /\ routes' = [routes EXCEPT ![k] = new]
        /\ out' = <<"add_route", dst, l, Map!BindResult(dst, l)>>
        /\ Map!BindResult(dst, l) = "ARC_OK"
    BY <1>4, <1>6 DEF arc_router_add_route
  <2>2. k \in RouteSlots(dst) /\ k \in Routes
    <3>1. RouteSlots(dst) \subseteq 0 .. ARC_ROUTER_MAX_ROUTES - 1
      BY DEF RouteSlots, RoutesFor, UsedSlots, FreeSlots, RTypeOK, Routes
    <3> QED BY <1>6, <3>1, RouterSizes, FirstSlotIsMin DEF Routes
  <2>3. new # Free /\ DOMAIN routes = Routes
    BY <1>6, FreeIsNoRoute DEF RTypeOK, LinkInUse, arc_router_route_t
  <2>4. \A i \in UsedSlots(routes) : routes[i].dst = dst <=> i = k /\ k \in UsedSlots(routes)
    <3>1. CASE RoutesFor(dst) # {}
      BY <2>2, <3>1 DEF RouteSlots, RoutesFor, OneRoutePerDst
    <3>2. CASE RoutesFor(dst) = {}
      BY <2>2, <3>2 DEF RouteSlots, RoutesFor, UsedSlots, FreeSlots
    <3> QED BY <3>1, <3>2
  <2> HIDE DEF k
  <2>5. /\ UsedSlots(routes') = UsedSlots(routes) \cup {k}
        /\ routes'[k] = new /\ \A i \in UsedSlots(routes) : i # k => routes'[i] = routes[i]
    BY <2>1, <2>2, <2>3 DEF UsedSlots
  <2>6. new.dst = dst /\ new.link_idx = l
    OBVIOUS
  <2> HIDE DEF new
  <2>7. BoundDsts' = BoundDsts \cup {dst}
    BY <2>4, <2>5, <2>6 DEF BoundDsts
  <2>8. RoutesFor(dst)' = {k}
    BY <2>4, <2>5, <2>6 DEF RoutesFor
  <2>9. ASSUME NEW x \in BoundDsts, x # dst
        PROVE  /\ RoutesFor(x)' = RoutesFor(x)
               /\ \A i \in RoutesFor(x) : routes'[i] = routes[i]
    BY <2>4, <2>5, <2>6, <2>9 DEF RoutesFor
  <2>10. \A x \in BoundDsts : RoutesFor(x) # {}
    BY BoundIff
  <2>11. RouteTable' = [x \in BoundDsts \cup {dst} |-> IF x = dst THEN l ELSE RouteTable[x]]
    <3>1. routes'[An(RoutesFor(dst)')].link_idx = l
      BY <2>5, <2>6, <2>8 DEF An
    <3>2. ASSUME NEW x \in BoundDsts, x # dst
          PROVE  routes'[An(RoutesFor(x)')].link_idx = RouteTable[x]
      <4>1. An(RoutesFor(x)) \in RoutesFor(x)
        BY <2>10 DEF An
      <4> QED BY <2>9, <3>2, <4>1, RouteTableIs
    <3> QED BY <2>7, <3>1, <3>2, RouteTableIs
  <2>12. RouteTable' = Map!Bound(RouteTable, dst, l)
    BY <1>2, <2>11 DEF Map!Bound
  <2> QED BY <1>1, <2>1, <2>12 DEF Map!Bind, OpenLinks, RouteTable
<1> QED BY <1>5, <1>6

\* set_default does what SetFallback does.
LEMMA SetDefaultSets ==
  ASSUME RTypeOK, NEW l \in LinkArgs, arc_router_set_default(l)
  PROVE  Map!SetFallback(l)
<1>1. OpenLinks' = OpenLinks /\ RouteTable' = RouteTable
  BY SameTables DEF arc_router_set_default
<1>2. l < 0 <=> l = -1
  BY RouterSizes DEF LinkArgs
<1>3. l \in DOMAIN OpenLinks \cup {-1} <=> l < 0 \/ LinkInUse(l)
  BY <1>2, InUseIff
<1> QED BY <1>1, <1>2, <1>3
      DEF arc_router_set_default, Map!SetFallback, OpenLinks, RouteTable

\* A frame leaves on the link that the map gives for its destination.
LEMMA RouteForwards ==
  ASSUME RTypeOK, OneRoutePerDst, NoDanglingLink, NEW dst \in Dsts,
         arc_router_route(dst)
  PROVE  Map!Forward(dst)
<1>1. UNCHANGED <<OpenLinks, RouteTable, default_link_idx>>
  BY SameTables DEF arc_router_route
<1>2. RouteLink(dst) = Map!Link(dst)
  <2>1. CASE dst \in BoundDsts
    <3>1. PICK i \in UsedSlots(routes) :
             /\ RoutesFor(dst) = {i} /\ FirstSlot(RoutesFor(dst)) = i
             /\ (CHOOSE j \in RoutesFor(dst) : TRUE) = i
      BY <2>1, RouteOf
    <3>2. RouteLink(dst) = routes[i].link_idx
      BY <3>1 DEF RouteLink
    <3>3. RouteTable[dst] = routes[i].link_idx
      BY <2>1, <3>1 DEF RouteTable
    <3> QED BY <2>1, <3>2, <3>3 DEF Map!Link, RouteTable
  <2>2. CASE dst \notin BoundDsts
    BY <2>2, BoundIff DEF RouteLink, Map!Link
  <2> QED BY <2>1, <2>2
<1>3. RouteLink(dst) = -1 \/ (RouteLink(dst) \in Links /\ links[RouteLink(dst)] # Free)
  <2>1. CASE dst \in BoundDsts
    <3>1. PICK i \in UsedSlots(routes) :
             FirstSlot(RoutesFor(dst)) = i /\ routes[i] \in arc_router_route_t
      BY <2>1, RouteOf
    <3>2. RouteLink(dst) = routes[i].link_idx
      BY <2>1, <3>1, BoundIff DEF RouteLink
    <3> QED BY <3>1, <3>2 DEF NoDanglingLink, arc_router_route_t
  <2>2. CASE dst \notin BoundDsts
    <3>1. RouteLink(dst) = default_link_idx
      BY <2>2, BoundIff DEF RouteLink
    <3> QED BY <3>1, RouterSizes DEF NoDanglingLink, RTypeOK, Links
  <2> QED BY <2>1, <2>2
<1>4. RouteLink(dst) \in DOMAIN OpenLinks <=> ~(RouteLink(dst) < 0)
  BY <1>3, RouterSizes DEF OpenLinks, UsedSlots, RTypeOK, Links
<1>5. RouteLink(dst) \in DOMAIN OpenLinks =>
        (CanSend(RouteLink(dst)) <=> OpenLinks[RouteLink(dst)])
  BY <1>3 DEF OpenLinks, CanSend, RTypeOK, UsedSlots
<1> QED BY <1>1, <1>2, <1>4, <1>5 DEF arc_router_route, Map!Forward, OpenLinks, RouteTable

\* The router implements RouteMap: links are numbered in the order of add_link, a
\* frame leaves on the link its destination was last bound to or on the default,
\* and a table refuses only when it is full.
THEOREM RouterImplementsRouteMap == RSpec => ImplementsRouteMap
<1>1. arc_router_init => Map!MInit
  <2> SUFFICES ASSUME arc_router_init PROVE Map!MInit
    OBVIOUS
  <2>1. UsedSlots(links) = {} /\ UsedSlots(routes) = {}
    BY DEF arc_router_init, UsedSlots, EmptyTable
  <2>2. BoundDsts = {}
    BY <2>1 DEF BoundDsts
  <2>3. OpenLinks = << >> /\ RouteTable = << >>
    BY <2>1, <2>2 DEF OpenLinks, RouteTable
  <2> QED BY <2>3 DEF arc_router_init, Map!MInit, OpenLinks, RouteTable
<1>2. RTypeOK /\ OneRoutePerDst /\ NoDanglingLink /\ LinksFilled /\ [RNext]_rvars
        => [Map!MNext]_(Map!mvars)
  <2> SUFFICES ASSUME RTypeOK, OneRoutePerDst, NoDanglingLink, LinksFilled, [RNext]_rvars
               PROVE  Map!MNext \/ UNCHANGED Map!mvars
    OBVIOUS
  <2>1. ASSUME NEW b \in BOOLEAN, arc_router_add_link(b) PROVE Map!MNext
    BY <2>1, AddLinkRegisters DEF Map!MNext
  <2>2. ASSUME NEW dst \in Dsts, NEW l \in LinkArgs, arc_router_add_route(dst, l)
        PROVE  Map!MNext
    BY <2>2, AddRouteBinds DEF Map!MNext, LinkArgs
  <2>3. ASSUME NEW l \in LinkArgs, arc_router_set_default(l) PROVE Map!MNext
    BY <2>3, SetDefaultSets DEF Map!MNext, LinkArgs
  <2>4. ASSUME NEW dst \in Dsts, arc_router_route(dst) PROVE Map!MNext
    BY <2>4, RouteForwards DEF Map!MNext
  <2>5. CASE UNCHANGED rvars
    BY <2>5, SameTables DEF rvars, Map!mvars, OpenLinks, RouteTable
  <2> QED BY <2>1, <2>2, <2>3, <2>4, <2>5 DEF RNext
<1> QED BY <1>1, <1>2, RouterTypes, RoutesAreUnique, LinksDoNotDangle, LinksAreFilled, PTL
      DEF RSpec, ImplementsRouteMap, Map!MSpec

=============================================================================
