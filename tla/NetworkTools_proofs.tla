------------------------ MODULE NetworkTools_proofs ------------------------
(***************************************************************************)
(* Proofs about NetworkTools, for every set of configurations, routing     *)
(* tables and name server lines.  The invariant says, for every point of   *)
(* get_network and set_network, how many sockets are open, what became of  *)
(* the default routes and which parts of the configuration are in force or *)
(* have been read back.                                                    *)
(***************************************************************************)
EXTENDS NetworkTools, FiniteSetTheorems, WellFoundedInduction, TLAPS

Route == [dest : Nat, gw : Nat]
Config == [ip : Addresses, mask : Addresses, gateway : Addresses]
Answer == [ip : Nat, mask : Nat, gateway : Nat, dns : Nat]

Getting == {"get_ip", "get_mask", "get_gateway", "get_resolv"}
Setting == {"set_ip", "set_mask", "read_old", "delete", "add"}

TypesInv ==
  /\ iface \in [ip : Addresses, mask : Addresses]
  /\ routes \in Seq(Route) /\ resolv \in Seq(Nat)
  /\ step \in {"idle", "flags"} \cup Getting \cup Setting
  /\ param \in Config /\ old_gateway \in Nat /\ got \in Answer
  /\ ret \in Int /\ routed \in Int /\ done \in Nat /\ sockets \in Int

(* The sockets the call under way has open at a step: get_network its one, *)
(* set_network its own and, around the two ioctls on the routes, that of   *)
(* set_dsthost_gateway.                                                    *)
OpenAt(s) == CASE s = "idle" -> 0
               [] s \in {"delete", "add"} -> 2
               [] OTHER -> 1

(* What is open beyond them is what calls that reached the flags left.     *)
SocketsInv == sockets = done + OpenAt(step)

(* No two default routes. *)
OneDefault(table) == \A i, j \in Defaults(table) : i = j

(* No three. *)
TwoDefaults(table) == \E i, j \in Nat : Defaults(table) \subseteq {i, j}

(* Where there was one default route at most, the one that was read is the *)
(* one to be deleted, and a route is added only when there is none.  If it *)
(* could not be read a route is added to one at most.                      *)
RouteInv ==
  /\ step \in {"set_ip", "set_mask", "read_old"} => ~unread
  /\ single /\ ~disturbed =>
       /\ ~unread => /\ OneDefault(routes)
                     /\ step = "delete" => old_gateway = get_dsthost_gateway(0)
                     /\ step = "add" => Defaults(routes) = {}
       /\ unread => /\ TwoDefaults(routes)
                    /\ step \in {"delete", "add"} => OneDefault(routes)

(* What set_network has put in force; once the route is added too it stays *)
(* so until the next call or somebody else's change.                       *)
InForceInv ==
  ~disturbed =>
    /\ step \in {"set_mask", "read_old", "delete", "add", "flags"} => iface.ip = param.ip
    /\ step \in {"read_old", "delete", "add", "flags"} => iface.mask = param.mask
    /\ step \in Setting => routed = 0
    /\ routed = 1 => /\ iface.ip = param.ip /\ iface.mask = param.mask
                     /\ get_dsthost_gateway(0) = param.gateway

(* get_network has succeeded. *)
Answered == step = "idle" /\ ret = 0

(* What get_network has read so far is what was set. *)
ReadBackInv ==
  ~disturbed /\ routed = 1 =>
    /\ step \in {"get_mask", "get_gateway", "get_resolv"} \/ Answered => got.ip = param.ip
    /\ step \in {"get_gateway", "get_resolv"} \/ Answered => got.mask = param.mask
    /\ step = "get_resolv" \/ Answered => got.gateway = param.gateway

ToolsInv == TypesInv /\ SocketsInv /\ RouteInv /\ InForceInv /\ ReadBackInv

-----------------------------------------------------------------------------
(* Lemmas on the tables.                                                   *)

NatLess == {pair \in Nat \X Nat : pair[1] < pair[2]}

LEMMA NatLessWellFounded == IsWellFoundedOn(NatLess, Nat)
  BY NatLessThanWellFounded, Zenon DEF OpToRel, NatLess

(* Least picks a least element: every non-empty set of positions has one.  *)
LEMMA LeastIn ==
  ASSUME NEW S, S \subseteq Nat, S # {}
  PROVE  Least(S) \in S /\ \A j \in S : Least(S) <= j
<1>1. PICK m \in S : \A j \in S : <<j, m>> \notin NatLess
  BY NatLessWellFounded, WFMin
<1>2. \A j \in S : ~(j < m)
  BY <1>1 DEF NatLess
<1>3. \A j \in S : m <= j
  BY <1>2
<1> QED
  BY <1>3 DEF Least

LEMMA DefaultsAreIndices ==
  ASSUME NEW table \in Seq(Route)
  PROVE  Defaults(table) \subseteq 1..Len(table)
  BY DEF Defaults

(* Two elements or more, or one at most. *)
LEMMA AtMostOne ==
  ASSUME NEW S, S \subseteq Nat, IsFiniteSet(S)
  PROVE  Cardinality(S) <= 1 <=> \A i, j \in S : i = j
<1>1. CASE S = {}
  BY <1>1, FS_EmptySet
<1>2. CASE S # {}
  <2>1. PICK i \in S : TRUE
    BY <1>2
  <2>2. /\ IsFiniteSet(S \ {i}) /\ Cardinality(S \ {i}) \in Nat
        /\ Cardinality(S) \in Nat /\ Cardinality(S) = Cardinality(S \ {i}) + 1
    <3>1. IsFiniteSet(S \ {i}) /\ Cardinality(S \ {i}) = Cardinality(S) - 1
      BY <2>1, FS_RemoveElement, Zenon
    <3>2. Cardinality(S) \in Nat /\ Cardinality(S \ {i}) \in Nat
      BY <3>1, FS_CardinalityType, Zenon
    <3> QED
      BY <3>1, <3>2
  <2>3. Cardinality(S \ {i}) = 0 <=> S \ {i} = {}
    BY <2>2, FS_EmptySet
  <2> QED
    BY <2>1, <2>2, <2>3
<1> QED
  BY <1>1, <1>2

LEMMA OneDefaultCardinality ==
  ASSUME NEW table \in Seq(Route)
  PROVE  Cardinality(Defaults(table)) <= 1 <=> OneDefault(table)
<1>1. IsFiniteSet(1..Len(table)) /\ Defaults(table) \subseteq 1..Len(table)
  <2>1. 1 \in Int /\ Len(table) \in Int
    OBVIOUS
  <2> QED
    BY <2>1, FS_Interval, DefaultsAreIndices
<1>2. IsFiniteSet(Defaults(table)) /\ Defaults(table) \subseteq Nat
  BY <1>1, FS_Subset
<1> QED
  BY <1>2, AtMostOne DEF OneDefault

LEMMA OneIsTwo ==
  ASSUME NEW table \in Seq(Route), OneDefault(table)
  PROVE  TwoDefaults(table)
<1>1. Defaults(table) \subseteq Nat
  BY DefaultsAreIndices
<1>2. CASE Defaults(table) = {}
  BY <1>2 DEF TwoDefaults
<1>3. ASSUME NEW i \in Defaults(table) PROVE TwoDefaults(table)
  <2>1. i \in Nat /\ Defaults(table) \subseteq {i, i}
    BY <1>1, <1>3 DEF OneDefault
  <2> QED
    BY <2>1 DEF TwoDefaults
<1> QED
  BY <1>2, <1>3

LEMMA TwoDefaultsCardinality ==
  ASSUME NEW table, TwoDefaults(table)
  PROVE  Cardinality(Defaults(table)) <= 2
<1>1. PICK i, j \in Nat : Defaults(table) \subseteq {i, j}
  BY DEF TwoDefaults
<1>2. IsFiniteSet({i}) /\ Cardinality({i}) = 1
  BY FS_Singleton, Zenon
<1>3. /\ IsFiniteSet({i} \cup {j})
      /\ Cardinality({i} \cup {j}) = IF j \in {i} THEN Cardinality({i}) ELSE Cardinality({i}) + 1
  BY <1>2, FS_AddElement, Zenon
<1>4. Cardinality({i} \cup {j}) <= 2
  BY <1>2, <1>3
<1>5. Defaults(table) \subseteq {i} \cup {j}
  BY <1>1
<1>6. /\ IsFiniteSet(Defaults(table))
      /\ Cardinality(Defaults(table)) <= Cardinality({i} \cup {j})
  BY <1>3, <1>5, FS_Subset, Zenon
<1>7. Cardinality(Defaults(table)) \in Nat /\ Cardinality({i} \cup {j}) \in Nat
  BY <1>3, <1>6, FS_CardinalityType, Zenon
<1> QED
  BY <1>4, <1>6, <1>7

(* Losing some routes. *)
LEMMA SomeKept ==
  ASSUME NEW table \in Seq(Route), NEW n \in 0..Len(table),
         NEW kept \in [1..n -> DOMAIN table],
         \A i, j \in 1..n : i < j => kept[i] < kept[j]
  PROVE  LET rest == [i \in 1..n |-> table[kept[i]]]
         IN rest \in Seq(Route) /\ (OneDefault(table) => OneDefault(rest))
<1> DEFINE rest == [i \in 1..n |-> table[kept[i]]]
<1>1. \A i \in 1..n : kept[i] \in 1..Len(table) /\ table[kept[i]] \in Route
  OBVIOUS
<1>2. rest \in Seq(Route) /\ DOMAIN rest = 1..n
  BY <1>1
<1>3. \A i \in 1..n : rest[i] = table[kept[i]]
  OBVIOUS
<1> HIDE DEF rest
<1>4. ASSUME OneDefault(table), NEW i \in Defaults(rest), NEW j \in Defaults(rest)
      PROVE  i = j
  <2>1. i \in 1..n /\ j \in 1..n /\ kept[i] \in Defaults(table) /\ kept[j] \in Defaults(table)
    BY <1>1, <1>2, <1>3 DEF Defaults
  <2>2. kept[i] = kept[j]
    BY <1>4, <2>1 DEF OneDefault
  <2> QED
    BY <1>1, <2>1, <2>2
<1> QED
  BY <1>2, <1>4 DEF OneDefault, rest

(* Taking a route out. *)
LEMMA WithoutAtType ==
  ASSUME NEW table \in Seq(Route), NEW i \in 1..Len(table)
  PROVE  /\ WithoutAt(table, i) \in Seq(Route)
         /\ Len(WithoutAt(table, i)) = Len(table) - 1
         /\ \A k \in 1..(Len(table) - 1) :
              WithoutAt(table, i)[k] = table[IF k < i THEN k ELSE k + 1]
<1> DEFINE before == SubSeq(table, 1, i - 1)
           after == SubSeq(table, i + 1, Len(table))
<1>1. before \in Seq(Route) /\ Len(before) = i - 1 /\ \A k \in 1..(i - 1) : before[k] = table[k]
  OBVIOUS
<1>2. /\ after \in Seq(Route) /\ Len(after) = Len(table) - i
      /\ \A k \in 1..(Len(table) - i) : after[k] = table[i + k]
  OBVIOUS
<1> HIDE DEF before, after
<1>3. WithoutAt(table, i) = before \o after
  BY DEF WithoutAt, before, after
<1>4. /\ before \o after \in Seq(Route) /\ Len(before \o after) = Len(table) - 1
      /\ \A k \in 1..(i - 1) : (before \o after)[k] = before[k]
      /\ \A k \in i..(Len(table) - 1) : (before \o after)[k] = after[k - (i - 1)]
  <2>1. before \o after \in Seq(Route) /\ Len(before \o after) = Len(table) - 1
    BY <1>1, <1>2
  <2>2. \A k \in 1..(Len(table) - 1) :
          (before \o after)[k] = IF k <= i - 1 THEN before[k] ELSE after[k - (i - 1)]
    BY <1>1, <1>2, <2>1
  <2>3. \A k \in 1..(i - 1) : k \in 1..(Len(table) - 1) /\ k <= i - 1
    OBVIOUS
  <2>4. \A k \in i..(Len(table) - 1) : k \in 1..(Len(table) - 1) /\ ~(k <= i - 1)
    OBVIOUS
  <2>5. \A k \in 1..(i - 1) : (before \o after)[k] = before[k]
    BY <2>2, <2>3
  <2>6. \A k \in i..(Len(table) - 1) : (before \o after)[k] = after[k - (i - 1)]
    BY <2>2, <2>4
  <2> QED
    BY <2>1, <2>5, <2>6
<1>5. \A k \in i..(Len(table) - 1) : after[k - (i - 1)] = table[k + 1]
  <2> TAKE k \in i..(Len(table) - 1)
  <2>1. k - (i - 1) \in 1..(Len(table) - i) /\ i + (k - (i - 1)) = k + 1
    OBVIOUS
  <2> QED
    BY <1>2, <2>1
<1>6. ASSUME NEW k \in 1..(Len(table) - 1)
      PROVE  (before \o after)[k] = table[IF k < i THEN k ELSE k + 1]
  <2>1. CASE k < i
    <3>1. k \in 1..(i - 1)
      BY <2>1
    <3> QED
      BY <1>1, <1>4, <2>1, <3>1
  <2>2. CASE ~(k < i)
    <3>1. k \in i..(Len(table) - 1)
      BY <2>2
    <3> QED
      BY <1>4, <1>5, <2>2, <3>1
  <2> QED
    BY <2>1, <2>2
<1> QED
  BY <1>3, <1>4, <1>6

(* Deleting the only default route leaves none. *)
LEMMA DeletedDefault ==
  ASSUME NEW table \in Seq(Route), OneDefault(table), NEW i \in Defaults(table)
  PROVE  Defaults(WithoutAt(table, i)) = {}
<1>1. i \in 1..Len(table) /\ table[i].dest = 0
  BY DEF Defaults
<1>2. \A k \in 1..Len(table) : k # i => table[k].dest # 0
  BY DEF Defaults, OneDefault
<1>3. \A k \in DOMAIN WithoutAt(table, i) : WithoutAt(table, i)[k].dest # 0
  <2> SUFFICES ASSUME NEW k \in 1..(Len(table) - 1)
               PROVE  WithoutAt(table, i)[k].dest # 0
    BY <1>1, WithoutAtType
  <2>1. WithoutAt(table, i)[k] = table[IF k < i THEN k ELSE k + 1]
    BY <1>1, WithoutAtType
  <2> QED
    BY <1>1, <1>2, <2>1
<1> QED
  BY <1>3 DEF Defaults

(* A route put before a table without one is the only default route. *)
LEMMA AddedDefault ==
  ASSUME NEW table \in Seq(Route), NEW r \in Route, r.dest = 0
  PROVE  /\ <<r>> \o table \in Seq(Route)
         /\ 1 \in Defaults(<<r>> \o table) /\ (<<r>> \o table)[1] = r
         /\ Least(Defaults(<<r>> \o table)) = 1
         /\ Defaults(table) = {} => OneDefault(<<r>> \o table)
         /\ OneDefault(table) => TwoDefaults(<<r>> \o table)
<1> DEFINE longer == <<r>> \o table
<1>1. /\ longer \in Seq(Route) /\ Len(longer) = Len(table) + 1 /\ longer[1] = r
      /\ \A k \in 2..(Len(table) + 1) : longer[k] = table[k - 1]
  OBVIOUS
<1> HIDE DEF longer
<1>2. 1 \in Defaults(longer)
  BY <1>1 DEF Defaults
<1>3. Defaults(longer) \subseteq 1..(Len(table) + 1)
  BY <1>1 DEF Defaults
<1>4. Least(Defaults(longer)) = 1
  <2>1. Defaults(longer) \subseteq Nat /\ Defaults(longer) # {}
    BY <1>2, <1>3
  <2>2. Least(Defaults(longer)) \in Defaults(longer) /\ Least(Defaults(longer)) <= 1
    BY <1>2, <2>1, LeastIn
  <2> QED
    BY <1>3, <2>2
<1>5. ASSUME Defaults(table) = {} PROVE OneDefault(longer)
  <2>1. \A k \in 2..(Len(table) + 1) : longer[k].dest # 0
    <3> TAKE k \in 2..(Len(table) + 1)
    <3>1. k - 1 \in 1..Len(table) /\ k - 1 \notin Defaults(table)
      BY <1>5
    <3> QED
      BY <1>1, <3>1 DEF Defaults
  <2>2. \A k \in Defaults(longer) : k = 1
    BY <1>3, <2>1 DEF Defaults
  <2> QED
    BY <2>2 DEF OneDefault
<1>6. ASSUME OneDefault(table) PROVE TwoDefaults(longer)
  <2>1. \A k \in Defaults(longer) : k = 1 \/ k - 1 \in Defaults(table)
    <3> TAKE k \in Defaults(longer)
    <3>1. k \in 1..(Len(table) + 1) /\ longer[k].dest = 0
      BY <1>3 DEF Defaults
    <3>2. k # 1 => longer[k] = table[k - 1] /\ k - 1 \in 1..Len(table)
      BY <1>1, <3>1
    <3> QED
      BY <3>1, <3>2 DEF Defaults
  <2>2. CASE Defaults(table) = {}
    <3>1. 1 \in Nat /\ Defaults(longer) \subseteq {1, 1}
      BY <2>1, <2>2
    <3> QED
      BY <3>1 DEF TwoDefaults
  <2>3. ASSUME NEW i \in Defaults(table) PROVE TwoDefaults(longer)
    <3>1. i \in Nat /\ \A j \in Defaults(table) : j = i
      BY <1>6, <2>3, DefaultsAreIndices DEF OneDefault
    <3>2. i + 1 \in Nat /\ Defaults(longer) \subseteq {1, i + 1}
      BY <1>3, <2>1, <3>1
    <3> QED
      BY <3>2 DEF TwoDefaults
  <2> QED
    BY <2>2, <2>3
<1> QED
  BY <1>1, <1>2, <1>4, <1>5, <1>6 DEF longer

-----------------------------------------------------------------------------
(* What the actions read and do, in the terms of the invariant.            *)

LEMMA GatewayRead ==
  ASSUME TypesInv
  PROVE  /\ get_dsthost_gateway(0) \in Nat
         /\ Defaults(routes) = {} => get_dsthost_gateway(0) = 0
         /\ \A i \in Defaults(routes) :
              OneDefault(routes) => get_dsthost_gateway(0) = routes[i].gw
<1>1. /\ routes \in Seq(Route) /\ Defaults(routes) \subseteq 1..Len(routes)
      /\ Defaults(routes) \subseteq Nat
  BY DefaultsAreIndices DEF TypesInv
<1>2. get_dsthost_gateway(0) = IF Defaults(routes) = {} THEN 0
                               ELSE routes[Least(Defaults(routes))].gw
  BY DEF get_dsthost_gateway, Defaults
<1>3. Defaults(routes) # {} => Least(Defaults(routes)) \in Defaults(routes)
  BY <1>1, LeastIn
<1>4. \A i \in Defaults(routes) : routes[i].gw \in Nat
  <2> TAKE i \in Defaults(routes)
  <2>1. routes[i] \in Route
    BY <1>1
  <2> QED
    BY <2>1 DEF Route
<1> QED
  BY <1>2, <1>3, <1>4 DEF OneDefault

LEMMA DnsRead ==
  ASSUME TypesInv
  PROVE  get_dns \in Nat
<1> DEFINE known == {i \in DOMAIN resolv : resolv[i] # 0}
<1>1. resolv \in Seq(Nat) /\ known \subseteq Nat
  BY DEF TypesInv
<1>2. get_dns = IF known = {} THEN 0 ELSE resolv[Least(known)]
  BY DEF get_dns
<1> HIDE DEF known
<1>3. known # {} => Least(known) \in known
  BY <1>1, LeastIn
<1> QED
  BY <1>1, <1>2, <1>3 DEF known

LEMMA ErrorIsNegative ==
  \A s \in Getting \cup {"set_ip", "set_mask"} : ErrorOf[s] \in Int /\ ErrorOf[s] # 0
  BY DEF ErrorOf, Getting

(* SIOCDELRT with the gateway that was read from a table with at most one  *)
(* default route empties it of default routes.                             *)
LEMMA DeleteEffect ==
  ASSUME TypesInv, DeleteRoute
  PROVE  /\ routes' \in Seq(Route)
         /\ OneDefault(routes) /\ old_gateway = get_dsthost_gateway(0) =>
              Defaults(routes') = {}
         /\ OneDefault(routes) => OneDefault(routes')
<1>1. /\ routes \in Seq(Route) /\ Defaults(routes) \subseteq 1..Len(routes)
      /\ Matching(old_gateway) \subseteq Defaults(routes) /\ Matching(old_gateway) \subseteq Nat
  BY DefaultsAreIndices DEF TypesInv, Matching
<1>2. CASE Matching(old_gateway) = {}
  <2>1. routes' = routes
    BY <1>2 DEF DeleteRoute
  <2>2. ASSUME OneDefault(routes), old_gateway = get_dsthost_gateway(0), NEW i \in Defaults(routes)
        PROVE  FALSE
    <3>1. old_gateway = routes[i].gw
      BY <2>2, GatewayRead
    <3> QED
      BY <1>2, <2>2, <3>1 DEF Matching
  <2> QED
    BY <1>1, <2>1, <2>2
<1>3. CASE Matching(old_gateway) # {}
  <2> DEFINE i == Least(Matching(old_gateway))
  <2>1. routes' = WithoutAt(routes, i)
    BY <1>3 DEF DeleteRoute
  <2>2. i \in Defaults(routes) /\ i \in 1..Len(routes)
    BY <1>1, <1>3, LeastIn
  <2> HIDE DEF i
  <2>3. routes' \in Seq(Route) /\ (OneDefault(routes) => Defaults(routes') = {})
    BY <1>1, <2>1, <2>2, WithoutAtType, DeletedDefault
  <2> QED
    BY <2>3 DEF OneDefault
<1> QED
  BY <1>2, <1>3

(* SIOCADDRT: the route added is the one that is found afterwards.         *)
LEMMA AddEffect ==
  ASSUME TypesInv, AddRoute
  PROVE  /\ routes' \in Seq(Route)
         /\ get_dsthost_gateway(0)' = param.gateway
         /\ Defaults(routes) = {} => OneDefault(routes')
         /\ OneDefault(routes) => TwoDefaults(routes')
<1> DEFINE r == [dest |-> 0, gw |-> param.gateway]
<1>1. r \in Route /\ r.dest = 0 /\ r.gw = param.gateway
  BY ToolsAssumption DEF TypesInv, Route, Config
<1>2. routes \in Seq(Route) /\ routes' = <<r>> \o routes
  BY DEF TypesInv, AddRoute
<1> HIDE DEF r
<1>3. /\ routes' \in Seq(Route) /\ 1 \in Defaults(routes') /\ routes'[1] = r
      /\ Least(Defaults(routes')) = 1
      /\ Defaults(routes) = {} => OneDefault(routes')
      /\ OneDefault(routes) => TwoDefaults(routes')
  BY <1>1, <1>2, AddedDefault
<1>4. get_dsthost_gateway(0)' = IF Defaults(routes') = {} THEN 0
                                ELSE routes'[Least(Defaults(routes'))].gw
  BY DEF get_dsthost_gateway, Defaults
<1> QED
  BY <1>1, <1>3, <1>4

LEMMA SameGateway ==
  ASSUME routes' = routes
  PROVE  get_dsthost_gateway(0)' = get_dsthost_gateway(0)
  BY DEF get_dsthost_gateway

(* What a new address leaves of the routes. *)
LEMMA SetIpEffect ==
  ASSUME TypesInv, SetIp
  PROVE  routes' \in Seq(Route) /\ (OneDefault(routes) => OneDefault(routes'))
<1>1. PICK n \in 0..Len(routes) : \E kept \in [1..n -> DOMAIN routes] :
        /\ \A i, j \in 1..n : i < j => kept[i] < kept[j]
        /\ routes' = [i \in 1..n |-> routes[kept[i]]]
  BY Zenon DEF SetIp
<1>2. PICK kept \in [1..n -> DOMAIN routes] :
        /\ \A i, j \in 1..n : i < j => kept[i] < kept[j]
        /\ routes' = [i \in 1..n |-> routes[kept[i]]]
  BY <1>1, Zenon
<1>3. routes \in Seq(Route)
  BY DEF TypesInv
<1> QED
  BY <1>2, <1>3, SomeKept, Zenon

-----------------------------------------------------------------------------
(* The invariant holds.                                                    *)

LEMMA InitInv == Init => ToolsInv
<1> SUFFICES ASSUME Init PROVE ToolsInv
  OBVIOUS
<1>1. PICK p \in Params : iface = [ip |-> p.ip, mask |-> p.mask] /\ param = p
  BY DEF Init
<1>2. param \in Config /\ iface \in [ip : Addresses, mask : Addresses]
  BY <1>1, ToolsAssumption DEF Config
<1>3. routes \in Seq(Route) /\ resolv \in Seq(Nat)
  BY ToolsAssumption DEF Init, Route
<1>4. got \in Answer
  BY DEF Init, Answer
<1>5. TypesInv
  BY <1>2, <1>3, <1>4 DEF Init, TypesInv
<1>6. SocketsInv
  BY DEF Init, SocketsInv, OpenAt
<1>7. RouteInv /\ InForceInv /\ ReadBackInv
  BY DEF Init, RouteInv, InForceInv, ReadBackInv
<1> QED
  BY <1>5, <1>6, <1>7 DEF ToolsInv

LEMMA TypesStep ==
  ASSUME TypesInv, [Next]_vars
  PROVE  TypesInv'
<1> USE DEF TypesInv, Move, Getting, Setting, kernel, setState, history
<1>1. CASE GetCalled
  BY <1>1 DEF GetCalled
<1>2. CASE GetIp
  <2>1. iface.ip \in Nat
    BY ToolsAssumption
  <2> QED
    BY <1>2, <2>1 DEF GetIp, Answer
<1>3. CASE GetMask
  <2>1. iface.mask \in Nat
    BY ToolsAssumption
  <2> QED
    BY <1>3, <2>1 DEF GetMask, Answer
<1>4. CASE GetGateway
  <2>1. get_dsthost_gateway(0) \in Nat
    BY GatewayRead
  <2> QED
    BY <1>4, <2>1 DEF GetGateway, Answer
<1>5. CASE GetDns
  <2>1. get_dns \in Nat
    BY DnsRead
  <2>2. got' \in Answer
    BY <1>5, <2>1 DEF GetDns, Answer
  <2>3. ret' \in Int
    BY <1>5 DEF GetDns
  <2> QED
    BY <1>5, <2>2, <2>3 DEF GetDns
<1>6. CASE GetFails
  <2>1. ret' \in Int
    BY <1>6, ErrorIsNegative DEF GetFails
  <2>2. got' \in Answer
    BY <1>6 DEF GetFails, Answer
  <2> QED
    BY <1>6, <2>1, <2>2 DEF GetFails
<1>7. ASSUME NEW p \in Params, SetCalled(p) PROVE TypesInv'
  <2>1. param' \in Config
    BY <1>7, ToolsAssumption DEF SetCalled, Config
  <2> QED
    BY <1>7, <2>1 DEF SetCalled
<1>8. CASE NoSocket
  BY <1>8 DEF NoSocket
<1>9. CASE SetIp
  <2>1. iface' \in [ip : Addresses, mask : Addresses]
    BY <1>9 DEF SetIp, Config
  <2>2. routes' \in Seq(Route)
    BY <1>9, SetIpEffect
  <2> QED
    BY <1>9, <2>1, <2>2 DEF SetIp
<1>10. CASE SetMask
  <2>1. iface' \in [ip : Addresses, mask : Addresses]
    BY <1>10 DEF SetMask, Config
  <2> QED
    BY <1>10, <2>1 DEF SetMask
<1>11. CASE SetFails
  <2>1. ret' \in Int
    BY <1>11, ErrorIsNegative DEF SetFails
  <2> QED
    BY <1>11, <2>1 DEF SetFails
<1>12. CASE RouteSocketFails
  BY <1>12 DEF RouteSocketFails
<1>13. CASE ReadOld
  <2>1. old_gateway' \in Nat
    <3>1. get_dsthost_gateway(0) \in Nat
      BY GatewayRead
    <3>2. Addresses \cup {0} \subseteq Nat
      BY ToolsAssumption
    <3>3. old_gateway' = get_dsthost_gateway(0) \/ old_gateway' \in Addresses \cup {0}
      BY <1>13, Zenon DEF ReadOld
    <3> QED
      BY <3>1, <3>2, <3>3
  <2> QED
    BY <1>13, <2>1 DEF ReadOld
<1>14. CASE DeleteRoute
  <2>1. routes' \in Seq(Route)
    BY <1>14, DeleteEffect
  <2> QED
    BY <1>14, <2>1 DEF DeleteRoute
<1>15. CASE AddRoute
  <2>1. routes' \in Seq(Route)
    BY <1>15, AddEffect
  <2> QED
    BY <1>15, <2>1 DEF AddRoute
<1>16. CASE RouteFails
  BY <1>16 DEF RouteFails
<1>17. CASE SetFlags
  BY <1>17 DEF SetFlags
<1>18. CASE Disturb
  <2>1. routes' \in Seq(Route) /\ resolv' \in Seq(Nat)
    BY <1>18, ToolsAssumption DEF Disturb, Route
  <2>2. iface' \in [ip : Addresses, mask : Addresses]
    BY <1>18 DEF Disturb
  <2> QED
    BY <1>18, <2>1, <2>2 DEF Disturb
<1>19. CASE UNCHANGED vars
  BY <1>19 DEF vars
<1> QED
  BY <1>1, <1>2, <1>3, <1>4, <1>5, <1>6, <1>7, <1>8, <1>9, <1>10, <1>11, <1>12, <1>13,
     <1>14, <1>15, <1>16, <1>17, <1>18, <1>19, Zenon DEF Next

LEMMA SocketsStep ==
  ASSUME TypesInv, SocketsInv, [Next]_vars
  PROVE  SocketsInv'
<1>0. done \in Nat /\ sockets \in Int /\ sockets = done + OpenAt(step)
  BY DEF TypesInv, SocketsInv
<1> USE DEF SocketsInv, OpenAt, Move, Getting, history
<1>1. CASE GetCalled
  BY <1>0, <1>1 DEF GetCalled
<1>2. CASE GetIp \/ GetMask \/ GetGateway
  BY <1>0, <1>2 DEF GetIp, GetMask, GetGateway
<1>3. CASE GetDns
  BY <1>0, <1>3 DEF GetDns
<1>4. CASE GetFails
  BY <1>0, <1>4 DEF GetFails
<1>5. ASSUME NEW p \in Params, SetCalled(p) PROVE SocketsInv'
  BY <1>0, <1>5 DEF SetCalled
<1>6. CASE NoSocket
  BY <1>0, <1>6 DEF NoSocket
<1>7. CASE SetIp \/ SetMask
  BY <1>0, <1>7 DEF SetIp, SetMask
<1>8. CASE SetFails
  BY <1>0, <1>8 DEF SetFails
<1>9. CASE RouteSocketFails
  BY <1>0, <1>9 DEF RouteSocketFails
<1>10. CASE ReadOld
  BY <1>0, <1>10 DEF ReadOld
<1>11. CASE DeleteRoute
  BY <1>0, <1>11 DEF DeleteRoute
<1>12. CASE AddRoute
  BY <1>0, <1>12 DEF AddRoute
<1>13. CASE RouteFails
  BY <1>0, <1>13 DEF RouteFails
<1>14. CASE SetFlags
  BY <1>0, <1>14 DEF SetFlags
<1>15. CASE Disturb
  BY <1>0, <1>15 DEF Disturb
<1>16. CASE UNCHANGED vars
  BY <1>0, <1>16 DEF vars
<1> QED
  BY <1>1, <1>2, <1>3, <1>4, <1>5, <1>6, <1>7, <1>8, <1>9, <1>10, <1>11, <1>12, <1>13,
     <1>14, <1>15, <1>16, Zenon DEF Next

(* The routes change when the address is set, which may cost some of them, *)
(* by the two ioctls and by others.                                        *)
LEMMA RouteStep ==
  ASSUME TypesInv, RouteInv, [Next]_vars
  PROVE  RouteInv'
<1> USE DEF RouteInv, Move, history, kernel
<1>1. CASE GetCalled \/ GetIp \/ GetMask \/ GetGateway \/ GetDns
  BY <1>1 DEF GetCalled, GetIp, GetMask, GetGateway, GetDns
<1>2. CASE GetFails
  BY <1>2 DEF GetFails
<1>3. ASSUME NEW p \in Params, SetCalled(p) PROVE RouteInv'
  <2>1. single' => OneDefault(routes)
    BY <1>3, OneDefaultCardinality DEF SetCalled, TypesInv
  <2>2. routes' = routes /\ step' = "set_ip" /\ ~unread'
    BY <1>3 DEF SetCalled
  <2> QED
    BY <2>1, <2>2
<1>4. CASE NoSocket
  BY <1>4, SameGateway DEF NoSocket
<1>5. CASE SetIp
  <2>1. OneDefault(routes) => OneDefault(routes')
    BY <1>5, SetIpEffect
  <2> QED
    BY <1>5, <2>1 DEF SetIp
<1>6. CASE SetMask \/ SetFails \/ RouteSocketFails \/ SetFlags
  BY <1>6 DEF SetMask, SetFails, RouteSocketFails, SetFlags
<1>7. CASE ReadOld
  <2>1. /\ routes' = routes /\ single' = single /\ step' = "delete" /\ disturbed' = disturbed
        /\ step = "read_old"
        /\ ~unread' => old_gateway' = get_dsthost_gateway(0)
    BY <1>7 DEF ReadOld
  <2>2. get_dsthost_gateway(0)' = get_dsthost_gateway(0)
    BY <2>1, SameGateway
  <2>3. single /\ ~disturbed => OneDefault(routes) /\ TwoDefaults(routes)
    BY <2>1, OneIsTwo DEF TypesInv
  <2> QED
    BY <2>1, <2>2, <2>3
<1>8. CASE DeleteRoute
  <2>1. /\ single' = single /\ disturbed' = disturbed /\ unread' = unread
        /\ step = "delete" /\ step' = "add"
    BY <1>8 DEF DeleteRoute
  <2>2. OneDefault(routes) /\ old_gateway = get_dsthost_gateway(0) => Defaults(routes') = {}
    BY <1>8, DeleteEffect
  <2>3. Defaults(routes') = {} => OneDefault(routes')
    BY DEF OneDefault
  <2>4. OneDefault(routes) => OneDefault(routes') /\ TwoDefaults(routes')
    BY <1>8, DeleteEffect, OneIsTwo
  <2> QED
    BY <2>1, <2>2, <2>3, <2>4
<1>9. CASE AddRoute
  <2>1. /\ single' = single /\ disturbed' = disturbed /\ unread' = unread
        /\ step = "add" /\ step' = "flags"
    BY <1>9 DEF AddRoute
  <2>2. /\ Defaults(routes) = {} => OneDefault(routes')
        /\ OneDefault(routes) => TwoDefaults(routes')
    BY <1>9, AddEffect
  <2> QED
    BY <2>1, <2>2
<1>10. CASE RouteFails
  BY <1>10 DEF RouteFails
<1>11. CASE Disturb
  BY <1>11 DEF Disturb
<1>12. CASE UNCHANGED vars
  BY <1>12, SameGateway DEF vars
<1> QED
  BY <1>1, <1>2, <1>3, <1>4, <1>5, <1>6, <1>7, <1>8, <1>9, <1>10, <1>11, <1>12, Zenon
     DEF Next

LEMMA InForceStep ==
  ASSUME TypesInv, InForceInv, [Next]_vars
  PROVE  InForceInv'
<1> USE DEF InForceInv, Move, Getting, Setting, history, setState
<1>1. CASE GetCalled \/ GetIp \/ GetMask \/ GetGateway \/ GetDns
  <2>1. routes' = routes /\ iface' = iface
    BY <1>1 DEF GetCalled, GetIp, GetMask, GetGateway, GetDns, kernel
  <2> QED
    BY <1>1, <2>1, SameGateway DEF GetCalled, GetIp, GetMask, GetGateway, GetDns
<1>2. CASE GetFails
  <2>1. routes' = routes /\ iface' = iface
    BY <1>2 DEF GetFails, kernel
  <2> QED
    BY <1>2, <2>1, SameGateway DEF GetFails
<1>3. ASSUME NEW p \in Params, SetCalled(p) PROVE InForceInv'
  BY <1>3 DEF SetCalled
<1>4. CASE NoSocket \/ UNCHANGED vars
  <2>1. routes' = routes /\ iface' = iface
    BY <1>4 DEF NoSocket, vars, kernel
  <2> QED
    BY <1>4, <2>1, SameGateway DEF NoSocket, vars
<1>5. CASE SetIp
  <2>1. iface'.ip = param.ip
    BY <1>5 DEF SetIp
  <2> QED
    BY <1>5, <2>1 DEF SetIp
<1>6. CASE SetMask
  <2>1. iface'.ip = iface.ip /\ iface'.mask = param.mask
    BY <1>6 DEF SetMask, TypesInv
  <2> QED
    BY <1>6, <2>1 DEF SetMask
<1>7. CASE SetFails
  BY <1>7 DEF SetFails
<1>8. CASE RouteSocketFails
  BY <1>8 DEF RouteSocketFails, kernel
<1>9. CASE ReadOld
  BY <1>9 DEF ReadOld, kernel
<1>10. CASE DeleteRoute
  BY <1>10 DEF DeleteRoute
<1>11. CASE AddRoute
  <2>1. get_dsthost_gateway(0)' = param.gateway
    BY <1>11, AddEffect
  <2> QED
    BY <1>11, <2>1 DEF AddRoute
<1>12. CASE RouteFails
  BY <1>12 DEF RouteFails, kernel
<1>13. CASE SetFlags
  <2>1. routes' = routes /\ iface' = iface
    BY <1>13 DEF SetFlags, kernel
  <2> QED
    BY <1>13, <2>1, SameGateway DEF SetFlags
<1>14. CASE Disturb
  BY <1>14 DEF Disturb
<1> QED
  BY <1>1, <1>2, <1>3, <1>4, <1>5, <1>6, <1>7, <1>8, <1>9, <1>10, <1>11, <1>12, <1>13,
     <1>14, Zenon DEF Next

LEMMA ReadBackStep ==
  ASSUME TypesInv, InForceInv, ReadBackInv, [Next]_vars
  PROVE  ReadBackInv'
<1> USE DEF ReadBackInv, Answered, Move, history, setState
<1>1. CASE GetCalled
  BY <1>1 DEF GetCalled
<1>2. CASE GetIp
  <2>1. got'.ip = iface.ip
    BY <1>2 DEF GetIp, TypesInv, Answer
  <2> QED
    BY <1>2, <2>1 DEF GetIp, InForceInv
<1>3. CASE GetMask
  <2>1. got'.ip = got.ip /\ got'.mask = iface.mask
    BY <1>3 DEF GetMask, TypesInv, Answer
  <2> QED
    BY <1>3, <2>1 DEF GetMask, InForceInv
<1>4. CASE GetGateway
  <2>1. got'.ip = got.ip /\ got'.mask = got.mask /\ got'.gateway = get_dsthost_gateway(0)
    BY <1>4 DEF GetGateway, TypesInv, Answer
  <2> QED
    BY <1>4, <2>1 DEF GetGateway, InForceInv
<1>5. CASE GetDns
  <2>1. got'.ip = got.ip /\ got'.mask = got.mask /\ got'.gateway = got.gateway
    BY <1>5 DEF GetDns, TypesInv, Answer
  <2> QED
    BY <1>5, <2>1 DEF GetDns
<1>6. CASE GetFails
  <2>1. ret' # 0 /\ step' = "idle"
    BY <1>6, ErrorIsNegative DEF GetFails, Getting
  <2> QED
    BY <2>1
<1>7. ASSUME NEW p \in Params, SetCalled(p) PROVE ReadBackInv'
  BY <1>7 DEF SetCalled
<1>8. CASE NoSocket
  BY <1>8 DEF NoSocket
<1>9. CASE SetIp \/ SetMask
  BY <1>9 DEF SetIp, SetMask
<1>10. CASE SetFails
  <2>1. ret' # 0 /\ step' = "idle"
    BY <1>10, ErrorIsNegative DEF SetFails, Getting
  <2> QED
    BY <2>1
<1>11. CASE RouteSocketFails \/ ReadOld \/ DeleteRoute \/ AddRoute
  BY <1>11 DEF RouteSocketFails, ReadOld, DeleteRoute, AddRoute
<1>12. CASE RouteFails
  BY <1>12 DEF RouteFails
<1>13. CASE SetFlags
  <2>1. ret' # 0 /\ step' = "idle"
    BY <1>13 DEF SetFlags
  <2> QED
    BY <2>1
<1>14. CASE Disturb
  BY <1>14 DEF Disturb
<1>15. CASE UNCHANGED vars
  BY <1>15 DEF vars
<1> QED
  BY <1>1, <1>2, <1>3, <1>4, <1>5, <1>6, <1>7, <1>8, <1>9, <1>10, <1>11, <1>12, <1>13,
     <1>14, <1>15, Zenon DEF Next

LEMMA StepInv == ToolsInv /\ [Next]_vars => ToolsInv'
<1> SUFFICES ASSUME ToolsInv, [Next]_vars PROVE ToolsInv'
  OBVIOUS
<1>1. TypesInv /\ SocketsInv /\ RouteInv /\ InForceInv /\ ReadBackInv
  BY DEF ToolsInv
<1>2. TypesInv'
  BY <1>1, TypesStep
<1>3. SocketsInv'
  BY <1>1, SocketsStep
<1>4. RouteInv'
  BY <1>1, RouteStep
<1>5. InForceInv'
  BY <1>1, InForceStep
<1>6. ReadBackInv'
  BY <1>1, ReadBackStep
<1> QED
  BY <1>2, <1>3, <1>4, <1>5, <1>6 DEF ToolsInv

THEOREM ToolsInvariance == Spec => []ToolsInv
  BY InitInv, StepInv, PTL DEF Spec

(* No way out of get_network leaves a socket open, and every set_network   *)
(* that reaches the flags leaves exactly one, whatever fails and however   *)
(* often either is called.                                                 *)
THEOREM LeaksAreCounted == Spec => []OnlyFinishedSetsLeak
<1>1. ToolsInv => OnlyFinishedSetsLeak
  BY DEF ToolsInv, TypesInv, SocketsInv, OpenAt, OnlyFinishedSetsLeak
<1> QED
  BY <1>1, ToolsInvariance, PTL

(* Setting the configuration makes no second default route, for every      *)
(* routing table, whatever routes a new address costs and whatever ioctl   *)
(* fails; when /proc/net/route cannot be opened, no third.                 *)
THEOREM RoutesDoNotPileUp == Spec => []OneDefaultRoute
<1>1. ToolsInv => OneDefaultRoute
  <2> SUFFICES ASSUME ToolsInv, single, ~disturbed
               PROVE  Cardinality(Defaults(routes)) <= IF unread THEN 2 ELSE 1
    BY DEF OneDefaultRoute
  <2>1. CASE unread
    <3>1. TwoDefaults(routes)
      BY <2>1 DEF ToolsInv, RouteInv
    <3> QED
      BY <2>1, <3>1, TwoDefaultsCardinality
  <2>2. CASE ~unread
    BY <2>2, OneDefaultCardinality DEF ToolsInv, TypesInv, RouteInv
  <2> QED
    BY <2>1, <2>2
<1> QED
  BY <1>1, ToolsInvariance, PTL

(* A get_network that succeeds after set_network has set the route returns *)
(* the address, the mask and the gateway that were set.                    *)
THEOREM SetsAreReadBack == Spec => []ReadsBackWhatWasSet
<1>1. ToolsInv => ReadsBackWhatWasSet
  BY DEF ToolsInv, ReadBackInv, Answered, ReadsBackWhatWasSet
<1> QED
  BY <1>1, ToolsInvariance, PTL
=============================================================================
