---------------------------- MODULE SocketTable ----------------------------
(***************************************************************************)
(* The table of sockets of network.c and the calls of its client interface *)
(* network_client_open, network_client_send and network_client_close; the  *)
(* server interface takes and releases slots in the same way.              *)
(*                                                                         *)
(* A handle is the index of a slot.  A slot is free when its m_sock is 0;  *)
(* network_client_open chooses one, then connects, which may take long,    *)
(* and only then fills it.  No lock protects the table, every slot has a   *)
(* mutex for those who send on it.  The table is allocated by the first    *)
(* open and enlarged by an open that finds it full.                        *)
(*                                                                         *)
(* Memory is modelled in words of an int: a slot takes SlotWords of them,  *)
(* m_sock is the first, m_sock_protocol the second, m_callback the third   *)
(* and the fourth holds the state of m_mutex.                              *)
(*                                                                         *)
(* The search of network_alloc and the stores that fill or clear a slot    *)
(* are one step each.                                                      *)
(***************************************************************************)
EXTENDS Integers, FiniteSets, Sequences

CONSTANTS
  Threads,        \* the threads that send
  Openers,        \* those of them that open and close sockets as well
  Protocols,      \* the values of m_pro_type callers pass
  Descriptors,    \* the descriptors sockets may get
  ArrayDef,       \* SOCK_ARRY_DEF, the size of a new table
  ArrayStep,      \* SOCK_ARRY_STEP, by how much it grows
  SlotWords,      \* sizeof(net_param_t) / sizeof(int)
  MaxSlots,       \* bound: callers let the table grow up to this size
  MaxNoMemory,    \* bound: how often calloc and realloc fail
  MaxSends,       \* bound: how many messages a thread sends
  Chunks          \* the pieces send(2) may split a message into

AllProtocols == {"NULL", "TCP", "UDP", "BROADCAST", "MULTICAST"}
NoThread == "none"

ASSUME SocketAssumption ==
  /\ Openers \subseteq Threads
  /\ NoThread \notin Threads
  /\ Protocols \subseteq AllProtocols
  /\ Descriptors \subseteq Nat
  /\ IsFiniteSet(Descriptors)
  /\ ArrayDef \in Nat \ {0}
  /\ ArrayStep \in Nat \ {0}
  /\ SlotWords \in Nat \ 0..3
  /\ MaxSlots \in Nat
  /\ ArrayDef <= MaxSlots
  /\ MaxNoMemory \in Nat
  /\ MaxSends \in Nat
  /\ Chunks \in Nat \ {0}

NoSocket == -1                       \* what sockfd holds before a socket exists

VARIABLES
  status,         \* m_arry_status
  max,            \* m_cur_arry_max
  slot,           \* m_sock and m_sock_protocol of every slot
  mutex,          \* m_mutex of every slot: who holds it
  wild,           \* an access went through a pointer to no table
  halved,         \* history: growth cleared m_sock of a slot, not its protocol
  open,           \* the descriptors of sockets that are open
  stdin,          \* the standard input, descriptor 0, is open
  handles,        \* what callers got: the handle and the socket made for it
  pc,             \* where each thread is
  id,             \* sock_id of the call a thread makes
  sockfd,         \* sockfd of the call a thread makes
  proto,          \* m_pro_type of the open a thread makes
  left,           \* how many pieces of its message a thread has to send
  sends,          \* how many messages a thread has started to send
  wire,           \* the pieces that left on each descriptor since it is open
  noMemory        \* how often memory ran out

table == <<status, max, slot, mutex, wild, halved>>
local == <<pc, id, sockfd, proto, left, sends>>
vars == <<table, open, stdin, handles, local, wire, noMemory>>

Slots == 0..MaxSlots - 1
Steps == {"idle", "connect", "store", "clear", "shut",
          "lock", "send", "unlock"}
EmptySlot == [sock |-> 0, proto |-> "NULL"]

-----------------------------------------------------------------------------
(* network_alloc.                                                          *)

(* Mutant: the scan runs one slot too far. *)
AvailablePastEnd(i) == /\ i \in 0..max
                       /\ i < MaxSlots => slot[i].sock = 0
                       /\ \A j \in 0..i - 1 : slot[j].sock # 0

(* Mutant: the scan stops at the first slot whatever it holds. *)
AvailableFirst(i) == i = 0 /\ max > 0

(* The first slot that is free. *)
Available(i) == /\ i \in 0..max - 1
                /\ slot[i].sock = 0
                /\ \A j \in 0..i - 1 : slot[j].sock # 0

(* The words memset clears when a table of n slots grows: it adds n to a   *)
(* char pointer, so it starts n bytes into the table, and it clears as     *)
(* many ints as there are new slots.                                       *)
Cleared(n) == {w \in 0..SlotWords * (n + ArrayStep) : /\ 4 * w >= n
                                                      /\ 4 * w < n + 4 * ArrayStep}

(* memset ends between the first two words of a slot.                      *)
ClearsHalf(n) == \E i \in 0..n - 1 : /\ i * SlotWords \in Cleared(n)
                                     /\ i * SlotWords + 1 \notin Cleared(n)

(* The contents of the table after it grew in place from n slots: what     *)
(* memset cleared is 0, the rest of the new slots is not initialised.      *)
Grown(n, junk) ==
  [i \in Slots |->
    LET old == IF i < n THEN slot[i] ELSE junk
    IN [sock  |-> IF i * SlotWords \in Cleared(n) THEN 0 ELSE old.sock,
        proto |-> IF i * SlotWords + 1 \in Cleared(n) THEN "NULL" ELSE old.proto]]

Junk == {EmptySlot, [sock |-> 0, proto |-> "TCP"], [sock |-> 1, proto |-> "NULL"]}

(* A mutex that memset clears is free again, whoever holds it. *)
GrownMutex(n) ==
  [i \in Slots |-> IF i * SlotWords + 3 \in Cleared(n) THEN NoThread ELSE mutex[i]]

(* The three ways to a slot; network_client_open initialises its mutex     *)
(* right away.  Here the table exists and has a free slot.                 *)
AllocFound(i) ==
  /\ status = 1
  /\ Available(i)
  /\ mutex' = [mutex EXCEPT ![i] = NoThread]
  /\ UNCHANGED <<status, max, slot, wild, halved, noMemory>>

(* The first call makes the table. *)
AllocFirst(i) ==
  /\ status = 0
  /\ i = 0
  /\ status' = 1
  /\ max' = ArrayDef
  /\ slot' = [j \in Slots |-> EmptySlot]
  /\ mutex' = [j \in Slots |-> NoThread]
  /\ UNCHANGED <<wild, halved, noMemory>>

(* realloc enlarges a full table; its result is not stored.  The table is  *)
(* lost when the result is not where the table was, as it is when there    *)
(* was no table because calloc had failed: the next access, to the mutex   *)
(* of the new slot, is already wild.                                       *)
AllocGrow(i) ==
  /\ status = 1
  /\ ~ \E j \in Slots : Available(j)
  /\ max + ArrayStep <= MaxSlots
  /\ i = max
  /\ max' = max + ArrayStep
  /\ \/ /\ max > 0
        /\ \E junk \in Junk : slot' = Grown(max, junk)
        /\ mutex' = [GrownMutex(max) EXCEPT ![i] = NoThread]
        /\ halved' = (halved \/ ClearsHalf(max))
        /\ UNCHANGED wild
     \/ /\ wild' = TRUE
        /\ UNCHANGED <<slot, mutex, halved>>
  /\ UNCHANGED <<status, noMemory>>

(* calloc or realloc fails; m_arry_status says that the table exists all   *)
(* the same.                                                               *)
AllocFails ==
  /\ \/ status = 0
     \/ ~ \E j \in Slots : Available(j)
  /\ noMemory < MaxNoMemory
  /\ noMemory' = noMemory + 1
  /\ status' = 1
  /\ UNCHANGED <<max, slot, wild, halved>>

-----------------------------------------------------------------------------
At(t, step) == pc[t] = step /\ ~wild
Goto(t, step) == pc' = [pc EXCEPT ![t] = step]

(* The caller got this handle and nobody is using it. *)
Unused(h) == \A t \in Threads : pc[t] \in {"lock", "send", "unlock"} => id[t] # h.id

Init ==
  /\ status = 0
  /\ max = 0
  /\ slot = [i \in Slots |-> EmptySlot]
  /\ mutex = [i \in Slots |-> NoThread]
  /\ wild = FALSE
  /\ halved = FALSE
  /\ open = {}
  /\ stdin = TRUE
  /\ handles = {}
  /\ pc = [t \in Threads |-> "idle"]
  /\ id = [t \in Threads |-> 0]
  /\ sockfd = [t \in Threads |-> NoSocket]
  /\ proto = [t \in Threads |-> "NULL"]
  /\ left = [t \in Threads |-> 0]
  /\ sends = [t \in Threads |-> 0]
  /\ wire = [d \in Descriptors |-> <<>>]
  /\ noMemory = 0

-----------------------------------------------------------------------------
(* network_client_open, up to the call of open_tcp, open_udp ...: a slot   *)
(* is chosen and its mutex initialised, the slot stays free.               *)
OpenStart(t, p) ==
  /\ At(t, "idle")
  /\ \E i \in Slots :
       /\ AllocFound(i) \/ AllocFirst(i) \/ AllocGrow(i)
       /\ id' = [id EXCEPT ![t] = i]
  /\ proto' = [proto EXCEPT ![t] = p]
  /\ sockfd' = [sockfd EXCEPT ![t] = NoSocket]
  /\ Goto(t, IF p = "NULL" THEN "store" ELSE "connect")
  /\ UNCHANGED <<open, stdin, handles, left, sends, wire>>

(* network_alloc has no memory: network_client_open returns its error. *)
OpenNoMemory(t) ==
  /\ At(t, "idle")
  /\ AllocFails
  /\ UNCHANGED <<mutex, open, stdin, handles, local, wire>>

(* The numbers socket(2) may return. *)
Unopened == Descriptors \ (open \cup IF stdin THEN {0} ELSE {})

(* open_tcp and its like succeed: the socket exists and is connected; it   *)
(* has the lowest number that is free.                                     *)
Connect(t) ==
  /\ At(t, "connect")
  /\ \E d \in Unopened :
       /\ \A e \in Unopened : d <= e
       /\ open' = open \cup {d}
       /\ sockfd' = [sockfd EXCEPT ![t] = d]
       /\ wire' = [wire EXCEPT ![d] = <<>>]
  /\ Goto(t, "store")
  /\ UNCHANGED <<table, stdin, handles, id, proto, left, sends, noMemory>>

(* Mutant: a socket that could not connect stays open. *)
ConnectFailsAndKeeps(t) ==
  /\ At(t, "connect")
  /\ \E d \in Unopened : open' = open \cup {d}
  /\ Goto(t, "idle")
  /\ UNCHANGED <<table, stdin, handles, id, sockfd, proto, left, sends, wire, noMemory>>

(* They fail, having closed the socket if there was one. *)
ConnectFails(t) ==
  /\ At(t, "connect")
  /\ Goto(t, "idle")
  /\ UNCHANGED <<table, open, stdin, handles, id, sockfd, proto, left, sends, wire, noMemory>>

(* The slot is filled and its index returned. *)
OpenReturns(t) ==
  /\ At(t, "store")
  /\ slot' = [slot EXCEPT ![id[t]] = [sock |-> sockfd[t], proto |-> proto[t]]]
  /\ handles' = handles \cup {[id |-> id[t], sock |-> sockfd[t]]}
  /\ Goto(t, "idle")
  /\ UNCHANGED <<status, max, mutex, wild, halved, open, stdin, id, sockfd, proto,
                 left, sends, wire, noMemory>>

-----------------------------------------------------------------------------
(* network_client_close: a slot without a protocol is left as it is, and   *)
(* the socket with it; otherwise close_tcp or close_udp reads the socket.  *)
CloseStart(t) ==
  /\ At(t, "idle")
  /\ \E h \in handles :
       /\ Unused(h)
       /\ handles' = handles \ {h}
       /\ IF slot[h.id].proto = "NULL"
            THEN UNCHANGED <<id, sockfd, pc>>
            ELSE /\ id' = [id EXCEPT ![t] = h.id]
                 /\ sockfd' = [sockfd EXCEPT ![t] = slot[h.id].sock]
                 /\ Goto(t, "clear")
  /\ UNCHANGED <<table, open, stdin, proto, left, sends, wire, noMemory>>

(* Mutant: close_tcp leaves the slot as it was. *)
CloseKeepsSlot(t) ==
  /\ At(t, "clear")
  /\ Goto(t, "shut")
  /\ UNCHANGED <<table, open, stdin, handles, id, sockfd, proto, left, sends, wire,
                 noMemory>>

(* The slot is given free. *)
CloseClears(t) ==
  /\ At(t, "clear")
  /\ slot' = [slot EXCEPT ![id[t]] = EmptySlot]
  /\ Goto(t, "shut")
  /\ UNCHANGED <<status, max, mutex, wild, halved, open, stdin, handles, id, sockfd,
                 proto, left, sends, wire, noMemory>>

(* shutdown and close; of descriptor 0 it is the standard input as long as *)
(* that is open.                                                           *)
CloseReturns(t) ==
  /\ At(t, "shut")
  /\ open' = open \ {sockfd[t]}
  /\ stdin' = (stdin /\ sockfd[t] # 0)
  /\ Goto(t, "idle")
  /\ UNCHANGED <<table, handles, id, sockfd, proto, left, sends, wire, noMemory>>

-----------------------------------------------------------------------------
(* network_client_send reads the socket before it takes the mutex. *)
SendStart(t) ==
  /\ At(t, "idle")
  /\ sends[t] < MaxSends
  /\ \E h \in handles :
       /\ id' = [id EXCEPT ![t] = h.id]
       /\ sockfd' = [sockfd EXCEPT ![t] = slot[h.id].sock]
  /\ sends' = [sends EXCEPT ![t] = @ + 1]
  /\ left' = [left EXCEPT ![t] = Chunks]
  /\ Goto(t, "lock")
  /\ UNCHANGED <<table, open, stdin, handles, proto, wire, noMemory>>

(* Mutant: the mutex is not taken. *)
SendWithoutLock(t) ==
  /\ At(t, "lock")
  /\ Goto(t, IF slot[id[t]].proto = "NULL" THEN "unlock" ELSE "send")
  /\ UNCHANGED <<table, open, stdin, handles, id, sockfd, proto, left, sends, wire, noMemory>>

(* A slot without a protocol sends nothing. *)
SendLocks(t) ==
  /\ At(t, "lock")
  /\ mutex[id[t]] = NoThread
  /\ mutex' = [mutex EXCEPT ![id[t]] = t]
  /\ Goto(t, IF slot[id[t]].proto = "NULL" THEN "unlock" ELSE "send")
  /\ UNCHANGED <<status, max, slot, wild, halved, open, stdin, handles, id, sockfd,
                 proto, left, sends, wire, noMemory>>

(* One turn of the loop of send_tcp: send(2) takes a part of what is left. *)
SendChunk(t) ==
  /\ At(t, "send")
  /\ left[t] > 0
  /\ sockfd[t] \in open
  /\ wire' = [wire EXCEPT ![sockfd[t]] = Append(@, <<t, sends[t]>>)]
  /\ left' = [left EXCEPT ![t] = @ - 1]
  /\ Goto(t, IF left[t] = 1 THEN "unlock" ELSE "send")
  /\ UNCHANGED <<table, open, stdin, handles, id, sockfd, proto, sends, noMemory>>

(* Mutant: an error of send_tcp skips the label client_send. *)
SendFailsLocked(t) ==
  /\ At(t, "send")
  /\ Goto(t, "idle")
  /\ UNCHANGED <<table, open, stdin, handles, id, sockfd, proto, left, sends, wire, noMemory>>

(* send(2) fails, or the time set with SO_SNDTIMEO is over. *)
SendFails(t) ==
  /\ At(t, "send")
  /\ Goto(t, "unlock")
  /\ UNCHANGED <<table, open, stdin, handles, id, sockfd, proto, left, sends, wire, noMemory>>

SendReturns(t) ==
  /\ At(t, "unlock")
  /\ mutex' = [mutex EXCEPT ![id[t]] = NoThread]
  /\ Goto(t, "idle")
  /\ UNCHANGED <<status, max, slot, wild, halved, open, stdin, handles, id, sockfd,
                 proto, left, sends, wire, noMemory>>

Next ==
  \/ \E t \in Openers :
       \/ \E p \in Protocols : OpenStart(t, p)
       \/ OpenNoMemory(t)
       \/ Connect(t) \/ ConnectFails(t) \/ OpenReturns(t)
       \/ CloseStart(t) \/ CloseClears(t) \/ CloseReturns(t)
  \/ \E t \in Threads :
       \/ SendStart(t) \/ SendLocks(t) \/ SendChunk(t) \/ SendFails(t) \/ SendReturns(t)

Spec == Init /\ [][Next]_vars

(* A call in progress goes on: connect and send end, the latter at the     *)
(* latest when SO_SNDTIMEO is over (demo.c sets it), and a mutex that is   *)
(* free again and again is taken in the end.                               *)
Fairness ==
  \A t \in Threads :
    /\ WF_vars(Connect(t) \/ ConnectFails(t)) /\ WF_vars(OpenReturns(t))
    /\ WF_vars(CloseClears(t)) /\ WF_vars(CloseReturns(t))
    /\ SF_vars(SendLocks(t))
    /\ WF_vars(SendChunk(t) \/ SendFails(t)) /\ WF_vars(SendReturns(t))

LiveSpec == Spec /\ Fairness

-----------------------------------------------------------------------------
(* Every variable has its type, the indices of slots in particular. *)
TypeOK ==
  /\ status \in {0, 1}
  /\ max \in 0..MaxSlots
  /\ slot \in [Slots -> [sock : Descriptors \cup {NoSocket, 0, 1}, proto : AllProtocols]]
  /\ mutex \in [Slots -> Threads \cup {NoThread}]
  /\ open \subseteq Descriptors
  /\ halved \in BOOLEAN
  /\ stdin \in BOOLEAN
  /\ \A h \in handles : h.id \in 0..max - 1 /\ h.sock \in Descriptors \cup {NoSocket}
  /\ pc \in [Threads -> Steps]
  /\ \A t \in Threads : pc[t] # "idle" => id[t] \in 0..max - 1
  /\ sockfd \in [Threads -> Descriptors \cup {NoSocket, 0, 1}]
  /\ proto \in [Threads -> AllProtocols]
  /\ left \in [Threads -> 0..Chunks]
  /\ sends \in [Threads -> 0..MaxSends]
  /\ noMemory \in 0..MaxNoMemory

Idle == \A t \in Threads : pc[t] = "idle"

(* The table has its first size and memory did not run out before it had:  *)
(* growing damages it, and without memory there is none.                   *)
Intact == ~wild /\ max <= ArrayDef

(* A handle leads to the socket its open made, and that socket is open,    *)
(* whatever other calls did in between: handles are good until closed.     *)
HandleOwnsSocket ==
  Intact => \A h \in handles : slot[h.id].sock = h.sock /\ h.sock \in open

(* Between calls the open sockets are those callers have a handle for, and *)
(* the slots that are taken too, one for each handle: opens and closes in  *)
(* pairs lose none, neither do opens that fail, and the table never fills  *)
(* up with slots nobody can release (network.h 88: always call both).      *)
NothingLost ==
  Idle /\ Intact =>
    /\ open = {h.sock : h \in handles}
    /\ {i \in 0..max - 1 : slot[i].sock # 0} = {h.id : h \in handles}
    /\ \A g, h \in handles : g.id = h.id => g = h

(* What a close is about to close is a socket that is open, so never the   *)
(* descriptor somebody else has got meanwhile, also after the growth of    *)
(* the table damaged slots and two handles share one.  Once a growth       *)
(* cleared the m_sock of a slot without its protocol, as that from 200 to  *)
(* 250 slots of 36 bytes does to slot 11, and only then, closing such a    *)
(* slot's handle closes descriptor 0 instead (121, 397).                   *)
ClosesWhatIsOpen ==
  \A t \in Threads : pc[t] \in {"clear", "shut"} =>
    sockfd[t] \in open \/ (halved /\ sockfd[t] = 0)

(* The pieces of a message leave one behind the other although several     *)
(* threads send on the same handle.                                        *)
MessagesContiguous ==
  Intact => \A d \in Descriptors : \A i, k \in 1..Len(wire[d]) :
    wire[d][i] = wire[d][k] => \A j \in i..k : wire[d][j] = wire[d][i]

(* A send that started returns, though others send on the same handle and  *)
(* sends fail in the middle.                                               *)
SendsEnd ==
  \A t \in Threads : pc[t] = "lock" ~> (pc[t] = "idle" \/ ~Intact)

-----------------------------------------------------------------------------
(* network.c:120 "clear the memory that was added": the slots in use keep  *)
(* their sockets when the table grows.                                     *)
GrowthKeepsSlots ==
  ~wild => \A h \in handles : slot[h.id].sock = h.sock
=============================================================================
