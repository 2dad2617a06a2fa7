---------------------------- MODULE ComportList ----------------------------
(***************************************************************************)
(* The serial port library of comport/comport.c: the module context with   *)
(* its doubly linked list of open ports, the ports themselves (a block of  *)
(* memory, a descriptor and a configuration each) and the line settings a  *)
(* port writes to its device with tcsetattr.                               *)
(*                                                                         *)
(* The library takes no lock and one thread calls it, so one call is one   *)
(* action.  The pointers are kept: links name blocks of memory, a block    *)
(* that was freed can be handed out again, and an access through a link to *)
(* a block that is not allocated is recorded in stray.  What the program   *)
(* does after such an access is undefined, so no call follows it.          *)
(***************************************************************************)
EXTENDS Naturals, FiniteSets

CONSTANTS
  Names,          \* the device names callers pass
  Exact,          \* those of exactly 16 bytes, the size of m_name
  Longer,         \* those of more than 16 bytes
  Blocks,         \* the addresses calloc hands out
  ListHead,           \* the address of m_list_head, which is never freed
  Descriptors,    \* the file descriptors the process may have open
  Configs,        \* the configurations callers ask for
  InitialLines,   \* the settings a device may have before it is opened
  MaxFailedOpens, \* how many comport_open fail to set the attributes
  MaxFailedSets,  \* how many attribute calls of comport_set_cfg fail
  Free,           \* a block that is not allocated
  Closed,         \* a descriptor that is not open
  Nil             \* NULL

Bauds == 0..12                       \* com_baud_rate_e, BAUD_RATE_110 = 0
Parities == {"even", "odd", "none"}

(* com_stop_bit_e and com_data_bit_e by the number they stand for. *)
AllConfigs == [baud : Bauds, data : 1..8, parity : Parities, stop : 1..2]

(* The settings of a line that comport_set_dev_attr changes.  rest stands  *)
(* for the flags of c_cflag it never clears, CRTSCTS among them.           *)
AllLines == [speed : Bauds, csize : 5..8, parenb : BOOLEAN, parodd : BOOLEAN,
             cstopb : BOOLEAN, rest : BOOLEAN]

ASSUME ComportAssumption ==
  /\ Exact \subseteq Names
  /\ Longer \subseteq Names
  /\ Exact \cap Longer = {}
  /\ ListHead \notin Blocks
  /\ IsFiniteSet(Blocks) /\ IsFiniteSet(Descriptors)
  /\ Descriptors \subseteq Nat
  /\ Configs \subseteq AllConfigs
  /\ InitialLines \subseteq AllLines
  /\ MaxFailedOpens \in Nat
  /\ MaxFailedSets \in Nat
  /\ Nil \notin Blocks \cup {ListHead} \cup Names
  /\ Closed \notin Names
  /\ Free \notin [name : Names, fd : Descriptors, cfg : AllConfigs]

VARIABLES
  inited,         \* m_inited
  next, prev,     \* m_next and m_prev of the head and of every block
  port,           \* what a block holds: a comport_data_t, or Free
  held,           \* the ports whose handle a caller has and may use
  file,           \* the device an open descriptor names, or Closed
  line,           \* the settings of every device
  stray,          \* an access went to a block that is not allocated
  failedOpens,    \* history: the opens whose attributes could not be set
  failedSets,     \* the attribute calls of comport_set_cfg that failed
  crowded         \* history: a port was added to a list of two or more

fails == <<failedOpens, failedSets>>

vars == <<inited, next, prev, port, held, file, line, stray, fails, crowded>>

Nodes == Blocks \cup {ListHead}
Ports == {b \in Blocks : port[b] # Free}
Links == [next |-> next, prev |-> prev]

-----------------------------------------------------------------------------
(* The list.  A pair of links is [next, prev]; every operator stores in    *)
(* the order of the code.                                                  *)

comport_list_add(l, cur, before, after) ==
  LET p == [l.prev EXCEPT ![cur] = before, ![after] = cur]
      n == [l.next EXCEPT ![cur] = after, ![before] = cur]
  IN [next |-> n, prev |-> p]

comport_list_add_to_tail(l, b) == comport_list_add(l, b, l.next[ListHead], ListHead)

(* Mutant: the node behind cur keeps pointing back to it. *)
DelForwardOnly(l, cur) ==
  [next |-> [l.next EXCEPT ![l.prev[cur]] = l.next[cur], ![cur] = Nil],
   prev |-> [l.prev EXCEPT ![cur] = Nil]]

(* Mutant: the node before cur keeps pointing to it. *)
DelBackwardOnly(l, cur) ==
  [next |-> [l.next EXCEPT ![cur] = Nil],
   prev |-> [l.prev EXCEPT ![l.next[cur]] = l.prev[cur], ![cur] = Nil]]

comport_list_del(l, cur) ==
  LET n == [l.next EXCEPT ![l.prev[cur]] = l.next[cur]]
      p == [l.prev EXCEPT ![l.next[cur]] = l.prev[cur]]
  IN [next |-> [n EXCEPT ![cur] = Nil], prev |-> [p EXCEPT ![cur] = Nil]]

(* The k-th node com_list_for_each_entry comes to; it stops at the head. *)
Walk(n) ==
  LET at[k \in Nat] == IF k = 0 THEN n[ListHead]
                       ELSE IF at[k - 1] \in {ListHead, Nil} THEN at[k - 1]
                       ELSE n[at[k - 1]]
  IN at

Steps == 0..Cardinality(Blocks)

(* Mutant: the search looks at the first port only. *)
FirstListed == {next[ListHead]} \ {ListHead}

Listed == {Walk(next)[k] : k \in Steps} \ {ListHead}

(* The links of b are in memory the library owns. *)
Live(b) == b \in Ports \cup {ListHead}

-----------------------------------------------------------------------------
(* strcmp(pos->m_name, devname).  strncpy stores 16 bytes of a name and no *)
(* terminator behind them when there are as many: the comparison then runs *)
(* into the baud rate, which ends the name only while it is 0.             *)
SameName(p, name) ==
  /\ port[p].name = name
  /\ name \notin Longer
  /\ name \in Exact => port[p].cfg.baud = 0

(* Mutant: a rate one past the end of speer_arr. *)
DefaultConfigPastEnd == [baud |-> 13, data |-> 8, parity |-> "none", stop |-> 1]

(* comport_init_cfg. *)
DefaultConfig == [baud |-> 5, data |-> 8, parity |-> "none", stop |-> 1]

(* The settings comport_set_dev_attr computes from those it reads: |= with *)
(* ~CSTOPB raises every flag but CSTOPB before the others are assigned.    *)
NewLine(l, c) ==
  LET raised == c.stop = 2
  IN [speed  |-> c.baud,
      csize  |-> IF c.data < 5 THEN 5 ELSE c.data,
      parenb |-> c.parity # "none",
      parodd |-> \/ c.parity = "odd"
                 \/ c.parity = "none" /\ (l.parodd \/ raised),
      cstopb |-> raised /\ l.cstopb,
      rest   |-> l.rest \/ raised]

(* comport_set_dev_attr on device name: ok tells whether tcgetattr and     *)
(* tcsetattr succeed; a failing call leaves the device as it is.           *)
comport_set_dev_attr(lines, name, c, ok) ==
  IF ok THEN [lines EXCEPT ![name] = NewLine(lines[name], c)] ELSE lines

-----------------------------------------------------------------------------
comport_list_init_listhead ==
  /\ next' = [next EXCEPT ![ListHead] = ListHead]
  /\ prev' = [prev EXCEPT ![ListHead] = ListHead]

Init ==
  /\ inited = FALSE
  /\ next = [b \in Nodes |-> Nil]
  /\ prev = [b \in Nodes |-> Nil]
  /\ port = [b \in Blocks |-> Free]
  /\ held = {}
  /\ file = [d \in Descriptors |-> Closed]
  /\ line \in [Names -> InitialLines]
  /\ stray = FALSE
  /\ failedOpens = 0
  /\ failedSets = 0
  /\ crowded = FALSE

(* Calls get past the test of m_inited, and no stray access came before. *)
Usable == inited /\ ~stray

(* A caller initialises the library before it opens a port and again after *)
(* it shut it down; the code itself would reset a list in use.             *)
comport_module_init ==
  /\ ~inited
  /\ ~stray
  /\ comport_list_init_listhead
  /\ inited' = TRUE
  /\ UNCHANGED <<port, held, file, line, stray, fails, crowded>>

(* One turn of the loop of comport_module_uninit: the port is unlinked and *)
(* freed; a store to what is not, or no longer, allocated is noted.        *)
Release(s, b) ==
  [links |-> comport_list_del(s.links, b),
   live  |-> s.live \ {b},
   stray |-> s.stray \/ ~ {b, s.links.prev[b], s.links.next[b]} \subseteq s.live]

(* The loop: the k-th turn is for the node the walk came to before it, and *)
(* there is none at the head.                                              *)
ReleaseAll ==
  LET turn[k \in Nat] ==
        IF k = 0 THEN [links |-> Links, live |-> Ports \cup {ListHead}, stray |-> FALSE]
        ELSE IF Walk(next)[k - 1] = ListHead THEN turn[k - 1]
        ELSE Release(turn[k - 1], Walk(next)[k - 1])
  IN turn[Cardinality(Blocks) + 1]

(* Closes, unlinks and frees what the walk over the list comes to.  The    *)
(* handles of the callers end here, those of ports off the list included.  *)
comport_module_uninit ==
  LET end == ReleaseAll
      gone == Ports \ end.live
  IN /\ Usable
     /\ inited' = FALSE
     /\ next' = end.links.next
     /\ prev' = end.links.prev
     /\ port' = [b \in Blocks |-> IF b \in gone THEN Free ELSE port[b]]
     /\ file' = [d \in Descriptors |->
                   IF \E b \in gone : port[b].fd = d THEN Closed ELSE file[d]]
     /\ held' = {}
     /\ stray' = end.stray
     /\ UNCHANGED <<line, fails, crowded>>

-----------------------------------------------------------------------------
(* The search of comport_open finds the device in the list. *)
Busy(name) == \E p \in Listed \cap Ports : SameName(p, name)

(* comport_open returns an error and changes nothing: the library is not   *)
(* initialised, the device is busy, open fails (always when no descriptor  *)
(* is left), or calloc fails, after which the descriptor is closed again.  *)
OpenRefused(name) ==
  /\ ~stray
  /\ stray' = (inited /\ ~ Listed \subseteq Ports)
  /\ UNCHANGED <<inited, next, prev, port, held, file, line, fails, crowded>>

(* open returns the lowest descriptor that is not in use. *)
LowestClosed(d) == /\ file[d] = Closed
                   /\ \A e \in Descriptors : file[e] = Closed => d <= e

(* comport_open past the search: the descriptor is open and the block      *)
(* allocated; the attributes are set, or the block is freed and the        *)
(* descriptor left open.                                                   *)
comport_open(name) ==
  /\ Usable
  /\ ~Busy(name)
  /\ \E d \in Descriptors, b \in Blocks \ Ports :
       /\ LowestClosed(d)
       /\ file' = [file EXCEPT ![d] = name]
       /\ \/ LET links == comport_list_add_to_tail(Links, b)
             IN /\ port' = [port EXCEPT ![b] = [name |-> name, fd |-> d,
                                                cfg |-> DefaultConfig]]
                /\ line' = comport_set_dev_attr(line, name, DefaultConfig, TRUE)
                /\ next' = links.next
                /\ prev' = links.prev
                /\ held' = held \cup {b}
                /\ crowded' = (crowded \/ Cardinality(Listed) >= 2)
                /\ UNCHANGED fails
          \/ /\ failedOpens < MaxFailedOpens
             /\ failedOpens' = failedOpens + 1
             /\ UNCHANGED <<next, prev, port, held, line, crowded, failedSets>>
  /\ stray' = ~ Listed \subseteq Ports
  /\ UNCHANGED inited

(* Mutant: the port is closed but stays in the list, allocated. *)
CloseKeepsPort(b) ==
  /\ Usable
  /\ b \in held
  /\ file' = [file EXCEPT ![port[b].fd] = Closed]
  /\ held' = held \ {b}
  /\ UNCHANGED <<inited, next, prev, port, line, stray, fails, crowded>>

(* Mutant: the descriptor stays open. *)
CloseKeepsDescriptor(b) ==
  /\ Usable
  /\ b \in held
  /\ LET links == comport_list_del(Links, b)
     IN next' = links.next /\ prev' = links.prev
  /\ port' = [port EXCEPT ![b] = Free]
  /\ held' = held \ {b}
  /\ UNCHANGED <<inited, file, line, stray, fails, crowded>>

(* A handle a caller still has; the library does not look for it in the    *)
(* list.                                                                   *)
comport_close(b) ==
  /\ Usable
  /\ b \in held
  /\ LET links == comport_list_del(Links, b)
     IN /\ next' = links.next
        /\ prev' = links.prev
  /\ stray' = (~Live(prev[b]) \/ ~Live(next[b]))
  /\ file' = [file EXCEPT ![port[b].fd] = Closed]
  /\ port' = [port EXCEPT ![b] = Free]
  /\ held' = held \ {b}
  /\ UNCHANGED <<inited, line, fails, crowded>>

(* Mutant: the new configuration stays in m_cfg when the line refuses it. *)
SetCfgKeepsNew(b, c) ==
  /\ Usable
  /\ b \in held
  /\ port' = [port EXCEPT ![b].cfg = c]
  /\ \/ /\ line' = comport_set_dev_attr(line, port[b].name, c, TRUE)
        /\ UNCHANGED fails
     \/ /\ failedSets < MaxFailedSets
        /\ failedSets' = failedSets + 1
        /\ UNCHANGED <<line, failedOpens>>
  /\ UNCHANGED <<inited, next, prev, held, file, stray, crowded>>

(* The new configuration goes to the line; when that fails the old one is  *)
(* put back and written again, which may fail as well.                     *)
comport_set_cfg(b, c) ==
  /\ Usable
  /\ b \in held
  /\ LET name == port[b].name
     IN \/ /\ port' = [port EXCEPT ![b].cfg = c]
           /\ line' = comport_set_dev_attr(line, name, c, TRUE)
           /\ UNCHANGED fails
        \/ \E ok \in BOOLEAN :
             /\ failedSets' = failedSets + (IF ok THEN 1 ELSE 2)
             /\ failedSets' <= MaxFailedSets
             /\ line' = comport_set_dev_attr(line, name, port[b].cfg, ok)
             /\ UNCHANGED <<port, failedOpens>>
  /\ UNCHANGED <<inited, next, prev, held, file, stray, crowded>>

Next ==
  \/ comport_module_init
  \/ comport_module_uninit
  \/ \E name \in Names : OpenRefused(name) \/ comport_open(name)
  \/ \E b \in Blocks : comport_close(b)
  \/ \E b \in Blocks, c \in Configs : comport_set_cfg(b, c)

Spec == Init /\ [][Next]_vars

-----------------------------------------------------------------------------
(* Every variable has its type. *)
TypeOK ==
  /\ inited \in BOOLEAN
  /\ next \in [Nodes -> Nodes \cup {Nil}]
  /\ prev \in [Nodes -> Nodes \cup {Nil}]
  /\ DOMAIN port = Blocks
  /\ \A b \in Ports : /\ port[b].name \in Names
                      /\ port[b].fd \in Descriptors
                      /\ port[b].cfg \in AllConfigs
  /\ held \subseteq Blocks
  /\ file \in [Descriptors -> Names \cup {Closed}]
  /\ DOMAIN line = Names
  /\ stray \in BOOLEAN
  /\ failedOpens \in 0..MaxFailedOpens
  /\ failedSets \in 0..MaxFailedSets
  /\ crowded \in BOOLEAN

(* The forward walk comes to exactly the ports callers have open, and      *)
(* backwards the list is the same.                                         *)
ListIsThePorts ==
  /\ Listed = Ports
  /\ held = Ports
  /\ \A n \in Ports \cup {ListHead} : prev[next[n]] = n /\ next[prev[n]] = n

(* What comport_open searches and comport_module_uninit closes is complete *)
(* whatever the order of opens and closes, as long as no port is added to  *)
(* a list of two.                                                          *)
SmallListIsThePorts == inited /\ ~crowded => ListIsThePorts

(* No call follows a link into memory that was freed, up to the same       *)
(* point.                                                                  *)
NoStrayAccess == stray => crowded

(* Beyond that point ports are missing from the list, but the walk from    *)
(* the head still stays among allocated ports and returns to the head: the *)
(* search of comport_open never loops and reads nothing that was freed.    *)
WalkReturns ==
  inited /\ ~stray => /\ Listed \subseteq Ports
                      /\ Walk(next)[Cardinality(Blocks)] = ListHead

(* A device is open at most once: comport_open turns the second caller     *)
(* away, until the list has lost a port.  Only names shorter than m_name:  *)
(* one of sixteen bytes or more the search may not recognise (376).        *)
OneHolderPerDevice ==
  ~crowded => \A p, q \in Ports :
                /\ port[p].name = port[q].name
                /\ port[p].name \notin Exact \cup Longer
                => p = q

(* Every open port owns the descriptor it reads and writes, alone, and it  *)
(* is the descriptor of its device.                                        *)
OwnDescriptor ==
  ~stray => \A b \in Ports :
              /\ file[port[b].fd] = port[b].name
              /\ \A c \in Ports \ {b} : port[c].fd # port[b].fd

(* As many descriptors belong to no port as opens failed at the           *)
(* attributes (378-382): each of those leaves one behind, and no call      *)
(* besides, also not after a port fell off the list.  Up to the first port *)
(* added to a list of two, a port whose handle nobody has any more is not  *)
(* left behind either; from then on a shutdown leaves the ports the list   *)
(* has lost, each with its descriptor.                                     *)
OnlyFailedOpensLeak ==
  LET used == {d \in Descriptors : file[d] # Closed}
      owned == {port[b].fd : b \in Ports}
  IN /\ Cardinality(used \ owned) = failedOpens
     /\ ~crowded => held = Ports

(* The line of an open port carries the speed, the data bits, the parity   *)
(* and a single stop bit of the port's m_cfg, also after a comport_set_cfg *)
(* that failed half way and put the old configuration back, whether the    *)
(* line took it or refused it again.  Up to the first port added to a list *)
(* of two, and for names shorter than m_name: beyond, a device may have    *)
(* two ports.  Two stop bits and the flags in rest are left out, because   *)
(* comport.c:127 does not set the one and raises the others.               *)
LineFollowsConfig ==
  ~crowded => \A b \in held :
    LET l == line[port[b].name]
        c == port[b].cfg
    IN port[b].name \notin Exact \cup Longer =>
         /\ l.speed = c.baud
         /\ c.data \in 5..8 => l.csize = c.data
         /\ l.parenb = (c.parity # "none")
         /\ l.parenb => l.parodd = (c.parity = "odd")
         /\ c.stop = 1 => ~l.cstopb

-----------------------------------------------------------------------------
(* comport.c:51 "added at the tail of the list": every open port is in the *)
(* list.                                                                   *)
EveryPortListed == inited => held \subseteq Listed
=============================================================================
