---------------------------- MODULE NetworkTools ----------------------------
(***************************************************************************)
(* get_network and set_network of network_tools.cpp against the tables of  *)
(* the kernel.  Each ioctl and each file that is read is a step, between   *)
(* which another process (a DHCP client, ifconfig) may change the tables.  *)
(* An address is a number, 0 is 0.0.0.0 and, as a destination, default.    *)
(***************************************************************************)
EXTENDS Integers, Sequences, FiniteSets

CONSTANTS
  Addresses,      \* addresses, masks and gateways
  Params,         \* the configurations set_network is called with
  Tables,         \* the routing tables other processes make
  Resolvers,      \* the nameserver lines they write, 0 if not an address
  MaxSets,        \* bound: how often set_network is called
  MaxChanges      \* bound: how often another process changes something

ASSUME ToolsAssumption ==
  /\ Addresses \subseteq Nat \ {0} /\ Addresses # {}
  /\ Params \subseteq [ip : Addresses, mask : Addresses, gateway : Addresses]
  /\ Tables \subseteq Seq([dest : Nat, gw : Nat])
  /\ Resolvers \subseteq Seq(Nat)
  /\ MaxSets \in Nat /\ MaxChanges \in Nat

VARIABLES
  iface,          \* kernel: address and mask of the interface
  routes,         \* kernel: /proc/net/route without its header
  resolv,         \* the nameserver lines of /etc/resolv.conf
  step,           \* where the call under way is
  param,          \* network_param of set_network
  old_gateway,    \* old_gateway of set_dsthost_gateway
  got,            \* what get_network filled in
  ret,            \* what the last call returned
  routed,         \* what set_dsthost_gateway returned in the last one
  sockets,        \* how many sockets are open
  sets,           \* how many calls of set_network there were
  done,           \* how many of them came as far as the flags
  single,         \* history: at most one default route when the last began
  disturbed,      \* history: since then someone else changed something
  unread,         \* history: it could not read the routing table
  changes         \* how often somebody did

kernel == <<iface, routes, resolv>>
history == <<sets, done, single, disturbed, unread, changes>>
vars == <<kernel, step, param, old_gateway, got, ret, routed, sockets, history>>

Defaults(table) == {i \in DOMAIN table : table[i].dest = 0}
Least(S) == CHOOSE i \in S : \A j \in S : i <= j
WithoutAt(table, i) == SubSeq(table, 1, i - 1) \o SubSeq(table, i + 1, Len(table))

(* Mutant: the loop does not stop at the first route it looks for. *)
LastGateway(dest_host) ==
  LET found == {i \in DOMAIN routes : routes[i].dest = dest_host}
  IN IF found = {} THEN 0 ELSE routes[CHOOSE i \in found : \A j \in found : j <= i].gw

(* The first route to the destination, of whatever interface: the whole    *)
(* line is compared with the interface's name.  Without one it is what the *)
(* header line left in Gateway, 0, and that counts as found.               *)
get_dsthost_gateway(dest_host) ==
  LET found == {i \in DOMAIN routes : routes[i].dest = dest_host}
  IN IF found = {} THEN 0 ELSE routes[Least(found)].gw

(* The first nameserver that has an address. *)
get_dns == LET known == {i \in DOMAIN resolv : resolv[i] # 0}
           IN IF known = {} THEN 0 ELSE resolv[Least(known)]

Init ==
  /\ \E p \in Params : iface = [ip |-> p.ip, mask |-> p.mask] /\ param = p
  /\ routes \in Tables /\ resolv \in Resolvers
  /\ step = "idle" /\ old_gateway = 0
  /\ got = [ip |-> 0, mask |-> 0, gateway |-> 0, dns |-> 0]
  /\ ret = 0 /\ routed = 0 /\ sockets = 0 /\ sets = 0 /\ done = 0
  /\ single = FALSE /\ disturbed = TRUE /\ unread = FALSE /\ changes = 0

Move(from, to) == step = from /\ step' = to

-----------------------------------------------------------------------------
(* get_network: 0, or the number of the part that failed; parts read       *)
(* before that stay.                                                       *)
setState == <<param, old_gateway, routed>>

GetCalled ==
  /\ Move("idle", "get_ip")
  /\ sockets' = sockets + 1
  /\ UNCHANGED <<kernel, setState, got, ret, history>>

GetIp ==
  /\ Move("get_ip", "get_mask")
  /\ got' = [got EXCEPT !.ip = iface.ip]
  /\ UNCHANGED <<kernel, setState, ret, sockets, history>>

GetMask ==
  /\ Move("get_mask", "get_gateway")
  /\ got' = [got EXCEPT !.mask = iface.mask]
  /\ UNCHANGED <<kernel, setState, ret, sockets, history>>

GetGateway ==
  /\ Move("get_gateway", "get_resolv")
  /\ got' = [got EXCEPT !.gateway = get_dsthost_gateway(0)]
  /\ UNCHANGED <<kernel, setState, ret, sockets, history>>

GetDns ==
  /\ Move("get_resolv", "idle")
  /\ got' = [got EXCEPT !.dns = get_dns]
  /\ ret' = IF get_dns = 0 THEN -6 ELSE 0
  /\ sockets' = sockets - 1
  /\ UNCHANGED <<kernel, setState, history>>

ErrorOf == [s \in {"get_ip", "get_mask", "get_gateway", "get_resolv", "set_ip", "set_mask"} |->
              CASE s \in {"get_ip", "set_ip"} -> -3
                [] s \in {"get_mask", "set_mask"} -> -4
                [] s = "get_gateway" -> -5
                [] s = "get_resolv" -> -6]

(* Mutant: the socket is not closed when the gateway is not found. *)
GetFailsOpen ==
  /\ step \in {"get_ip", "get_mask", "get_gateway", "get_resolv"}
  /\ step' = "idle"
  /\ got' = IF step = "get_resolv" THEN [got EXCEPT !.dns = 0] ELSE got
  /\ ret' = ErrorOf[step]
  /\ sockets' = IF step = "get_gateway" THEN sockets ELSE sockets - 1
  /\ UNCHANGED <<kernel, setState, history>>

(* An ioctl fails or a file cannot be opened; m_dns is cleared before. *)
GetFails ==
  /\ step \in {"get_ip", "get_mask", "get_gateway", "get_resolv"}
  /\ step' = "idle"
  /\ got' = IF step = "get_resolv" THEN [got EXCEPT !.dns = 0] ELSE got
  /\ ret' = ErrorOf[step]
  /\ sockets' = sockets - 1
  /\ UNCHANGED <<kernel, setState, history>>

-----------------------------------------------------------------------------
(* set_network and, from "read_old" to "add", set_dsthost_gateway.         *)

SetCalled(p) ==
  /\ Move("idle", "set_ip")
  /\ sets < MaxSets
  /\ sets' = sets + 1
  /\ param' = p /\ old_gateway' = 0 /\ routed' = 0
  /\ sockets' = sockets + 1
  /\ single' = (Cardinality(Defaults(routes)) <= 1)
  /\ disturbed' = FALSE /\ unread' = FALSE
  /\ UNCHANGED <<kernel, got, ret, done, changes>>

(* No socket for get_network or set_network: -2. *)
NoSocket ==
  /\ step = "idle"
  /\ ret' = -2
  /\ UNCHANGED <<kernel, step, setState, got, sockets, history>>

(* A new address gives the interface a mask of the kernel's choice and may *)
(* cost the routes that go through it: some stay, in their order.          *)
SetIp ==
  /\ Move("set_ip", "set_mask")
  /\ \E m \in Addresses : iface' = [ip |-> param.ip, mask |-> m]
  /\ \E n \in 0..Len(routes) : \E kept \in [1..n -> DOMAIN routes] :
       /\ \A i, j \in 1..n : i < j => kept[i] < kept[j]
       /\ routes' = [i \in 1..n |-> routes[kept[i]]]
  /\ UNCHANGED <<resolv, setState, got, ret, sockets, history>>

SetMask ==
  /\ Move("set_mask", "read_old")
  /\ iface' = [iface EXCEPT !.mask = param.mask]
  /\ UNCHANGED <<routes, resolv, setState, got, ret, sockets, history>>

SetFails ==
  /\ step \in {"set_ip", "set_mask"}
  /\ step' = "idle"
  /\ ret' = ErrorOf[step]
  /\ sockets' = sockets - 1
  /\ UNCHANGED <<kernel, setState, got, history>>

(* The second socket; without it the routes are left as they are. *)
RouteSocketFails ==
  /\ Move("read_old", "flags")
  /\ routed' = -2
  /\ UNCHANGED <<kernel, param, old_gateway, got, ret, sockets, history>>

(* If /proc/net/route cannot be opened old_gateway is what was on the      *)
(* stack.                                                                  *)
ReadOld ==
  /\ Move("read_old", "delete")
  /\ sockets' = sockets + 1
  /\ \/ old_gateway' = get_dsthost_gateway(0) /\ UNCHANGED unread
     \/ old_gateway' \in Addresses \cup {0} /\ unread' = TRUE
  /\ UNCHANGED <<kernel, param, routed, got, ret, sets, done, single, disturbed, changes>>

(* SIOCDELRT takes the first default route with that gateway, with any if  *)
(* it is 0.                                                                *)
Matching(gateway) == {i \in Defaults(routes) : gateway \in {0, routes[i].gw}}

(* Mutant: the new gateway is taken for the old one. *)
DeleteNewRoute ==
  /\ Move("delete", "add")
  /\ routes' = IF Matching(param.gateway) = {} THEN routes
               ELSE WithoutAt(routes, Least(Matching(param.gateway)))
  /\ UNCHANGED <<iface, resolv, setState, got, ret, sockets, history>>

(* That there is none (ESRCH) is no error. *)
DeleteRoute ==
  /\ Move("delete", "add")
  /\ routes' = IF Matching(old_gateway) = {} THEN routes
               ELSE WithoutAt(routes, Least(Matching(old_gateway)))
  /\ UNCHANGED <<iface, resolv, setState, got, ret, sockets, history>>

(* SIOCADDRT puts the new route before others of its kind; one that is     *)
(* there already is refused.                                               *)
AddRoute ==
  /\ Move("add", "flags")
  /\ \A i \in Defaults(routes) : routes[i].gw # param.gateway
  /\ routes' = <<[dest |-> 0, gw |-> param.gateway]>> \o routes
  /\ routed' = 1
  /\ sockets' = sockets - 1
  /\ UNCHANGED <<iface, resolv, param, old_gateway, got, ret, history>>

(* Either ioctl fails: -3 or -4.  After -4 the old route is gone. *)
RouteFails ==
  /\ step \in {"delete", "add"} /\ step' = "flags"
  /\ routed' = IF step = "delete" THEN -3 ELSE -4
  /\ sockets' = sockets - 1
  /\ UNCHANGED <<kernel, param, old_gateway, got, ret, history>>

(* The interface is switched on, whatever became of the route.  The socket *)
(* stays open whether that succeeds or not.                                *)
SetFlags ==
  /\ Move("flags", "idle")
  /\ ret' \in {1, -7}
  /\ done' = done + 1
  /\ UNCHANGED <<kernel, setState, got, sockets, sets, single, disturbed, unread, changes>>

-----------------------------------------------------------------------------
(* Another process. *)
Disturb ==
  /\ changes < MaxChanges
  /\ changes' = changes + 1
  /\ disturbed' = TRUE
  /\ \/ routes' \in Tables /\ UNCHANGED <<iface, resolv>>
     \/ resolv' \in Resolvers /\ UNCHANGED <<iface, routes>>
     \/ /\ \E a \in Addresses : iface' = [iface EXCEPT !.ip = a]
        /\ UNCHANGED <<routes, resolv>>
  /\ UNCHANGED <<step, setState, got, ret, sockets, sets, done, single, unread>>

Next ==
  \/ GetCalled \/ GetIp \/ GetMask \/ GetGateway \/ GetDns \/ GetFails
  \/ \E p \in Params : SetCalled(p)
  \/ NoSocket \/ SetIp \/ SetMask \/ SetFails
  \/ RouteSocketFails \/ ReadOld \/ DeleteRoute \/ AddRoute \/ RouteFails \/ SetFlags
  \/ Disturb

Spec == Init /\ [][Next]_vars

-----------------------------------------------------------------------------
(* What set_network has set is what get_network reads, though the two look *)
(* for the gateway in a table with routes of other interfaces: unless the  *)
(* route was refused or another process intervened, and also when the old  *)
(* gateway could not be read.  Only the address of the name server is not  *)
(* set (network_tools.cpp 280).                                            *)
ReadsBackWhatWasSet ==
  (step = "idle" /\ ret = 0 /\ routed = 1 /\ ~disturbed) =>
    /\ got.ip = param.ip /\ got.mask = param.mask
    /\ got.gateway = param.gateway

(* However often the configuration is set and whatever ioctl fails on the  *)
(* way, default routes do not pile up: where there was one at most there   *)
(* still is.  There is one exception, a call that cannot open              *)
(* /proc/net/route: what it deletes is the route to whatever was on the    *)
(* stack, and it may add a second default route, but no third              *)
(* (network_tools.cpp 70-74, 127-141).                                     *)
OneDefaultRoute ==
  single /\ ~disturbed =>
    Cardinality(Defaults(routes)) <= IF unread THEN 2 ELSE 1

(* get_network, called every second, leaves no socket open on any of its   *)
(* ways out, and neither does a set_network that fails; one that gets as   *)
(* far as the flags leaves one, on success too (network_tools.cpp 286).    *)
OnlyFinishedSetsLeak ==
  step = "idle" => sockets = done
=============================================================================
