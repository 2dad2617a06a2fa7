------------------------- MODULE SocketTable_proofs -------------------------
(***************************************************************************)
(* The safety properties of SocketTable for tables of any size, any number *)
(* of senders, any split of the messages and any failures of memory.       *)
(*                                                                         *)
(* Two threads that open at the same time may be given the same slot: the  *)
(* properties of handles are those of a program in which one thread opens  *)
(* and closes, as main() does in demo.c, and others may send.              *)
(***************************************************************************)
EXTENDS SocketTable, TLAPS

OneOpener == \A s, t \in Openers : s = t

\* Callers name a protocol: demo.c opens TCP sockets only.
NamedProtocols == "NULL" \notin Protocols

-----------------------------------------------------------------------------
(* Types.                                                                  *)

SockValues == Descriptors \cup {NoSocket, 0, 1}

TypeInv ==
  /\ TypeOK
  /\ wild \in BOOLEAN
  /\ handles \subseteq [id : 0..max - 1, sock : Descriptors \cup {NoSocket}]
  /\ id \in [Threads -> Slots]
  /\ wire \in [Descriptors -> Seq(Threads \X Nat)]
  /\ status = 0 => max = 0
  /\ wild \/ max = 0 \/ max >= ArrayDef
  /\ \A t \in Threads :
       pc[t] \in {"connect", "store"} => sockfd[t] \in Descriptors \cup {NoSocket}
  /\ \A t \in Threads : pc[t] \in {"connect", "store", "clear", "shut"} => t \in Openers

LEMMA Constants ==
  /\ Openers \subseteq Threads /\ NoThread \notin Threads
  /\ Protocols \subseteq AllProtocols
  /\ Descriptors \subseteq Nat
  /\ ArrayDef \in Nat /\ ArrayDef > 0 /\ ArrayStep \in Nat /\ ArrayStep > 0
  /\ MaxSlots \in Nat /\ ArrayDef <= MaxSlots
  /\ MaxNoMemory \in Nat /\ MaxSends \in Nat /\ Chunks \in Nat /\ Chunks > 0
BY SocketAssumption DEF SocketAssumption

LEMMA InitType == Init => TypeInv
<1> SUFFICES ASSUME Init PROVE TypeInv
  OBVIOUS
<1>1. wild \in BOOLEAN /\ halved \in BOOLEAN /\ stdin \in BOOLEAN
  BY Zenon DEF Init
<1>2. wire = [d \in Descriptors |-> <<>>] /\ wire \in [Descriptors -> Seq(Threads \X Nat)]
  BY DEF Init
<1>3. status = 0 /\ max = 0 /\ handles = {} /\ \A t \in Threads : pc[t] = "idle"
  BY DEF Init
<1>4. TypeOK
  BY <1>1, Constants DEF Init, TypeOK, Slots, Steps, EmptySlot, AllProtocols, NoSocket
<1>5. id \in [Threads -> Slots]
  BY Constants DEF Init, Slots
<1> QED BY <1>1, <1>2, <1>3, <1>4, <1>5, Constants DEF TypeInv

\* The contents of a table that grew have the type of slots.
LEMMA GrownType ==
  ASSUME TypeInv, NEW n \in Nat, NEW junk \in Junk
  PROVE  Grown(n, junk) \in [Slots -> [sock : SockValues, proto : AllProtocols]]
BY DEF TypeInv, TypeOK, Grown, Junk, EmptySlot, SockValues, AllProtocols

\* What the three ways to a slot leave.
LEMMA AllocType ==
  ASSUME TypeInv, NEW i \in Slots, AllocFound(i) \/ AllocFirst(i) \/ AllocGrow(i)
  PROVE  /\ status' \in {0, 1} /\ max' \in max..MaxSlots /\ i \in 0..max' - 1
         /\ slot' \in [Slots -> [sock : SockValues, proto : AllProtocols]]
         /\ mutex' \in [Slots -> Threads \cup {NoThread}]
         /\ wild' \in BOOLEAN /\ halved' \in BOOLEAN /\ noMemory' = noMemory
         /\ status' = 0 => max' = 0
         /\ wild' \/ max' = 0 \/ max' >= ArrayDef
<1>1. CASE AllocFound(i)
  BY <1>1, Constants DEF AllocFound, Available, TypeInv, TypeOK, SockValues
<1>2. CASE AllocFirst(i)
  BY <1>2, Constants DEF AllocFirst, TypeInv, TypeOK, EmptySlot, AllProtocols, SockValues, Slots
<1>3. CASE AllocGrow(i)
  <2>1. slot' \in [Slots -> [sock : SockValues, proto : AllProtocols]]
    <3>1. slot \in [Slots -> [sock : SockValues, proto : AllProtocols]] /\ max \in Nat
      BY Constants DEF TypeInv, TypeOK, SockValues
    <3>2. slot' = slot \/ \E junk \in Junk : slot' = Grown(max, junk)
      BY <1>3 DEF AllocGrow
    <3> QED BY <3>1, <3>2, GrownType
  <2>2. mutex' \in [Slots -> Threads \cup {NoThread}]
    BY <1>3, Constants DEF AllocGrow, GrownMutex, TypeInv, TypeOK
  <2>3. wild' \in BOOLEAN /\ (wild' \/ max' >= ArrayDef)
    <3>1. max' \in Nat /\ (max = 0 \/ max >= ArrayDef => max' > 0 /\ (max > 0 => max' >= ArrayDef))
      BY <1>3, Constants DEF AllocGrow, TypeInv, TypeOK
    <3>2. wild \in BOOLEAN /\ (wild \/ max = 0 \/ max >= ArrayDef)
      BY DEF TypeInv
    <3>3. wild' = TRUE \/ (max > 0 /\ wild' = wild)
      BY <1>3 DEF AllocGrow
    <3> QED BY <3>1, <3>2, <3>3, Zenon
  <2>4. status' = 1 /\ max' \in max..MaxSlots /\ i \in 0..max' - 1 /\ noMemory' = noMemory
    BY <1>3, Constants DEF AllocGrow, TypeInv, TypeOK
  <2>5. wild' \/ max' = 0 \/ max' >= ArrayDef
    BY <2>3, Zenon
  <2>6. status' \in {0, 1} /\ (status' = 0 => max' = 0)
    BY <2>4
  <2>7. halved' \in BOOLEAN
    <3>1. halved' = halved \/ halved' = (halved \/ ClearsHalf(max))
      BY <1>3, Zenon DEF AllocGrow
    <3> QED BY <3>1, Zenon DEF TypeInv, TypeOK
  <2> QED BY <2>1, <2>2, <2>3, <2>4, <2>5, <2>6, <2>7, Zenon
<1> QED BY <1>1, <1>2, <1>3, Zenon

LEMMA StepType ==
  ASSUME TypeInv, [Next]_vars
  PROVE  TypeInv'
<1> USE Constants DEF At, Goto
<1>1. ASSUME NEW t \in Openers, NEW p \in Protocols, OpenStart(t, p)
      PROVE  TypeInv'
  <2>1. PICK i \in Slots : /\ AllocFound(i) \/ AllocFirst(i) \/ AllocGrow(i)
                           /\ id' = [id EXCEPT ![t] = i]
    BY <1>1 DEF OpenStart
  <2>2. /\ status' \in {0, 1} /\ max' \in max..MaxSlots /\ i \in 0..max' - 1
        /\ slot' \in [Slots -> [sock : SockValues, proto : AllProtocols]]
        /\ mutex' \in [Slots -> Threads \cup {NoThread}]
        /\ wild' \in BOOLEAN /\ halved' \in BOOLEAN /\ noMemory' = noMemory
        /\ status' = 0 => max' = 0
        /\ wild' \/ max' = 0 \/ max' >= ArrayDef
    BY <2>1, AllocType
  <2>3. /\ id' \in [Threads -> Slots] /\ id'[t] = i
        /\ \A u \in Threads \ {t} : id'[u] = id[u]
    BY <2>1 DEF TypeInv
  <2>4. /\ pc' \in [Threads -> Steps]
        /\ \A u \in Threads \ {t} : pc'[u] = pc[u]
        /\ sockfd' \in [Threads -> SockValues] /\ sockfd'[t] = NoSocket
        /\ \A u \in Threads \ {t} : sockfd'[u] = sockfd[u]
        /\ proto' \in [Threads -> AllProtocols]
        /\ UNCHANGED <<open, stdin, handles, left, sends, wire>>
    BY <1>1 DEF OpenStart, TypeInv, TypeOK, Steps, SockValues
  <2>5. \A u \in Threads : pc'[u] # "idle" => id'[u] \in 0..max' - 1
    <3>1. max \in Nat /\ max' \in Nat /\ max <= max'
      BY <2>2 DEF TypeInv, TypeOK
    <3>2. \A u \in Threads \ {t} : pc[u] # "idle" => id[u] \in 0..max - 1
      BY DEF TypeInv, TypeOK
    <3>3. \A u \in Threads \ {t} : pc'[u] # "idle" => id'[u] \in 0..max' - 1
      BY <2>3, <2>4, <3>1, <3>2
    <3> QED BY <2>2, <2>3, <3>3
  <2>6. \A h \in handles' : h.id \in 0..max' - 1 /\ h.sock \in Descriptors \cup {NoSocket}
    BY <2>2, <2>4 DEF TypeInv, TypeOK
  <2>7. TypeOK'
    BY <2>2, <2>3, <2>4, <2>5, <2>6 DEF TypeInv, TypeOK, SockValues
  <2> QED BY <2>2, <2>3, <2>4, <2>7 DEF TypeInv, TypeOK
<1>2. ASSUME NEW t \in Openers, OpenNoMemory(t) PROVE TypeInv'
  BY <1>2 DEF OpenNoMemory, AllocFails, local, TypeInv, TypeOK
<1>3. ASSUME NEW t \in Openers, Connect(t) PROVE TypeInv'
  BY <1>3 DEF Connect, Unopened, table, TypeInv, TypeOK, Steps, SockValues
<1>4. ASSUME NEW t \in Openers, ConnectFails(t) PROVE TypeInv'
  BY <1>4 DEF ConnectFails, table, TypeInv, TypeOK, Steps
<1>5. ASSUME NEW t \in Openers, OpenReturns(t) PROVE TypeInv'
  BY <1>5 DEF OpenReturns, TypeInv, TypeOK, Steps, SockValues
<1>6. ASSUME NEW t \in Openers, CloseStart(t) PROVE TypeInv'
  <2>1. PICK h \in handles :
          /\ handles' = handles \ {h}
          /\ IF slot[h.id].proto = "NULL"
               THEN UNCHANGED <<id, sockfd, pc>>
               ELSE /\ id' = [id EXCEPT ![t] = h.id]
                    /\ sockfd' = [sockfd EXCEPT ![t] = slot[h.id].sock]
                    /\ Goto(t, "clear")
    BY <1>6 DEF CloseStart
  <2>2. h.id \in 0..max - 1 /\ h.id \in Slots /\ slot[h.id].sock \in SockValues
    BY DEF TypeInv, TypeOK, Slots, SockValues
  <2>3. UNCHANGED <<table, open, stdin, proto, left, sends, wire, noMemory>>
    BY <1>6 DEF CloseStart
  <2>4. CASE slot[h.id].proto = "NULL"
    BY <2>1, <2>3, <2>4 DEF table, TypeInv, TypeOK
  <2>5. CASE slot[h.id].proto # "NULL"
    BY <2>1, <2>2, <2>3, <2>5 DEF table, TypeInv, TypeOK, Steps, SockValues
  <2> QED BY <2>4, <2>5
<1>7. ASSUME NEW t \in Openers, CloseClears(t) PROVE TypeInv'
  BY <1>7 DEF CloseClears, TypeInv, TypeOK, Steps, EmptySlot, SockValues, AllProtocols
<1>8. ASSUME NEW t \in Openers, CloseReturns(t) PROVE TypeInv'
  BY <1>8 DEF CloseReturns, table, TypeInv, TypeOK, Steps
<1>9. ASSUME NEW t \in Threads, SendStart(t) PROVE TypeInv'
  BY <1>9 DEF SendStart, table, TypeInv, TypeOK, Steps, SockValues, Slots
<1>10. ASSUME NEW t \in Threads, SendLocks(t) PROVE TypeInv'
  BY <1>10 DEF SendLocks, TypeInv, TypeOK, Steps
<1>11. ASSUME NEW t \in Threads, SendChunk(t) PROVE TypeInv'
  <2>1. wire' \in [Descriptors -> Seq(Threads \X Nat)]
    <3>1. sockfd[t] \in Descriptors /\ sends[t] \in Nat
      <4>1. sockfd[t] \in open
        BY <1>11, Zenon DEF SendChunk
      <4>2. open \subseteq Descriptors /\ sends \in [Threads -> 0..MaxSends]
        BY Zenon DEF TypeInv, TypeOK
      <4>3. sockfd[t] \in Descriptors
        BY <4>1, <4>2, Zenon
      <4>4. sends[t] \in 0..MaxSends
        BY <4>2, Zenon
      <4> QED BY <4>3, <4>4
    <3>2. Append(wire[sockfd[t]], <<t, sends[t]>>) \in Seq(Threads \X Nat)
      <4> DEFINE s == wire[sockfd[t]]
                 e == <<t, sends[t]>>
      <4>1. s \in Seq(Threads \X Nat) /\ e \in Threads \X Nat
        BY <3>1 DEF TypeInv
      <4> HIDE DEF s, e
      <4>2. Append(s, e) \in Seq(Threads \X Nat)
        BY <4>1
      <4> QED BY <4>2 DEF s, e
    <3> QED BY <1>11, <3>1, <3>2 DEF SendChunk, TypeInv
  <2>2. UNCHANGED <<table, open, stdin, handles, id, proto, sockfd, sends, noMemory>>
    BY <1>11 DEF SendChunk
  <2>3. /\ left' \in [Threads -> 0..Chunks] /\ pc' \in [Threads -> Steps]
        /\ pc[t] = "send" /\ pc'[t] \in {"unlock", "send"}
        /\ \A u \in Threads \ {t} : pc'[u] = pc[u]
    BY <1>11 DEF SendChunk, TypeInv, TypeOK, Steps
  <2>4. \A u \in Threads : /\ pc'[u] # "idle" => pc[u] # "idle"
                           /\ \A step \in {"connect", "store", "clear", "shut"} :
                                pc'[u] = step => pc[u] = step
    BY <2>3
  <2> QED BY <2>1, <2>2, <2>3, <2>4 DEF table, TypeInv, TypeOK
<1>12. ASSUME NEW t \in Threads, SendFails(t) PROVE TypeInv'
  BY <1>12 DEF SendFails, table, TypeInv, TypeOK, Steps
<1>13. ASSUME NEW t \in Threads, SendReturns(t) PROVE TypeInv'
  BY <1>13 DEF SendReturns, TypeInv, TypeOK, Steps
<1>14. CASE UNCHANGED vars
  BY <1>14 DEF vars, table, local, TypeInv, TypeOK
<1> QED BY <1>1, <1>2, <1>3, <1>4, <1>5, <1>6, <1>7, <1>8, <1>9, <1>10, <1>11, <1>12, <1>13,
           <1>14 DEF Next

\* Every variable keeps its type, the indices of slots above all: no call
\* leaves the table, however often it grew or memory ran out.
THEOREM TypesHold == Spec => []TypeOK
<1>1. TypeInv => TypeOK
  BY DEF TypeInv
<1>2. TypeInv /\ [Next]_vars => TypeInv'
  BY StepType
<1> QED BY <1>1, <1>2, InitType, PTL DEF Spec

-----------------------------------------------------------------------------
(* Handles, slots and descriptors of a table that is intact.               *)

\* A thread in the middle of an open or a close has a socket of its own.
HasSocket(t) == pc[t] \in {"store", "clear", "shut"}

\* The number 0, which marks a free slot, belongs to the standard input.
\* Handles are one to one with slots that are taken and sockets that are open.
HandlesInv ==
  /\ stdin /\ 0 \notin open
  /\ \A h \in handles :
       /\ slot[h.id].sock = h.sock
       /\ slot[h.id].proto # "NULL"
       /\ h.sock \in open
  /\ \A g, h \in handles : g.id = h.id \/ g.sock = h.sock => g = h

\* An opener's slot is still free while it connects, and what it has opened or
\* is about to close is open and nobody else's.
OpenersInv ==
  \A t \in Openers :
    /\ pc[t] \in {"connect", "store"} => slot[id[t]].sock = 0 /\ proto[t] # "NULL"
    /\ HasSocket(t) => sockfd[t] \in open /\ \A h \in handles : h.sock # sockfd[t]
    /\ pc[t] = "clear" => slot[id[t]].sock = sockfd[t] /\ \A h \in handles : h.id # id[t]

\* Nothing else is open and nothing else is taken.
LedgerInv ==
  /\ \A d \in open : \/ \E h \in handles : h.sock = d
                     \/ \E t \in Openers : HasSocket(t) /\ sockfd[t] = d
  /\ \A i \in 0..max - 1 : slot[i].sock # 0 =>
       \/ \E h \in handles : h.id = i
       \/ \E t \in Openers : pc[t] = "clear" /\ id[t] = i

OwnInv == Intact => HandlesInv /\ OpenersInv /\ LedgerInv

\* The types these proofs use, without those of the messages.
LEMMA Shapes ==
  ASSUME TypeInv
  PROVE  /\ max \in Nat /\ max <= MaxSlots /\ open \subseteq Descriptors
         /\ slot \in [Slots -> [sock : SockValues, proto : AllProtocols]]
         /\ mutex \in [Slots -> Threads \cup {NoThread}]
         /\ handles \subseteq [id : 0..max - 1, sock : Descriptors \cup {NoSocket}]
         /\ \A h \in handles : h.id \in Slots
         /\ pc \in [Threads -> Steps] /\ id \in [Threads -> Slots]
         /\ sockfd \in [Threads -> SockValues] /\ proto \in [Threads -> AllProtocols]
         /\ \A t \in Threads : pc[t] # "idle" => id[t] \in 0..max - 1
BY Constants DEF TypeInv, TypeOK, SockValues, Slots

LEMMA InitOwn == Init => OwnInv
<1> SUFFICES ASSUME Init PROVE HandlesInv /\ OpenersInv /\ LedgerInv
  BY DEF OwnInv
<1>1. handles = {} /\ open = {} /\ max = 0
  BY DEF Init
<1>2. stdin /\ \A t \in Openers : pc[t] = "idle"
  BY Constants DEF Init
<1> QED BY <1>1, <1>2 DEF HandlesInv, OpenersInv, LedgerInv, HasSocket

\* As long as the table stays intact a new slot is a free one, and what is
\* taken stays as it is, its mutex included.
LEMMA AllocIntact ==
  ASSUME TypeInv, Intact => HandlesInv, Intact', NEW i \in Slots,
         AllocFound(i) \/ AllocFirst(i) \/ AllocGrow(i)
  PROVE  /\ Intact
         /\ slot'[i].sock = 0
         /\ \A h \in handles : slot'[h.id] = slot[h.id] /\ mutex'[h.id] = mutex[h.id]
         /\ \A j \in 0..max' - 1 : slot'[j].sock # 0 => j \in 0..max - 1 /\ slot'[j] = slot[j]
<1>1. CASE AllocFound(i)
  <2>1. Intact
    BY <1>1 DEF AllocFound, Intact
  <2>2. slot' = slot /\ max' = max /\ slot[i].sock = 0
    BY <1>1 DEF AllocFound, Available
  <2>3. mutex' = [mutex EXCEPT ![i] = NoThread]
    BY <1>1 DEF AllocFound
  <2>4. \A h \in handles : h.id # i /\ h.id \in Slots
    BY <2>1, <2>2, Shapes DEF HandlesInv
  <2> QED BY <2>1, <2>2, <2>3, <2>4, Shapes
<1>2. CASE AllocFirst(i)
  <2>1. max = 0 /\ handles = {}
    BY <1>2, Shapes DEF AllocFirst, TypeInv
  <2>2. Intact
    BY <1>2, <2>1, Constants DEF AllocFirst, Intact
  <2>3. \A j \in Slots : slot'[j].sock = 0
    BY <1>2 DEF AllocFirst, EmptySlot
  <2>4. \A j \in 0..max' - 1 : j \in Slots
    BY <1>2, Constants DEF AllocFirst, Slots
  <2>5. \A j \in 0..max' - 1 : slot'[j].sock = 0
    BY <2>3, <2>4
  <2> QED BY <2>1, <2>2, <2>3, <2>5
<1>3. CASE AllocGrow(i)
  <2>1. max' > ArrayDef \/ max = 0
    <3>1. max' = max + ArrayStep
      BY <1>3 DEF AllocGrow
    <3>2. CASE wild
      <4>1. wild' = TRUE
        BY <1>3, <3>2 DEF AllocGrow
      <4> QED BY <4>1 DEF Intact
    <3>3. CASE ~wild
      <4>1. max = 0 \/ max >= ArrayDef
        BY <3>3, Zenon DEF TypeInv
      <4> QED BY <3>1, <4>1, Shapes, Constants
    <3> QED BY <3>2, <3>3
  <2>2. max > 0 \/ wild' = TRUE
    BY <1>3 DEF AllocGrow
  <2>3. ~wild' /\ max' <= ArrayDef
    BY DEF Intact
  <2>4. max > 0
    BY <2>2, <2>3
  <2> QED BY <1>3, <2>1, <2>3, <2>4, Shapes, Constants DEF AllocGrow
<1> QED BY <1>1, <1>2, <1>3

LEMMA StepOwn ==
  ASSUME OneOpener, NamedProtocols, TypeInv, OwnInv, [Next]_vars
  PROVE  OwnInv'
<1> SUFFICES ASSUME Intact' PROVE (HandlesInv /\ OpenersInv /\ LedgerInv)'
  BY DEF OwnInv
<1> USE Constants, Shapes DEF At, Goto, HasSocket
<1>1. ASSUME NEW t \in Openers, NEW p \in Protocols, OpenStart(t, p)
      PROVE  (HandlesInv /\ OpenersInv /\ LedgerInv)'
  <2>1. PICK i \in Slots : /\ AllocFound(i) \/ AllocFirst(i) \/ AllocGrow(i)
                           /\ id' = [id EXCEPT ![t] = i]
    BY <1>1 DEF OpenStart
  <2>2. /\ Intact
        /\ slot'[i].sock = 0
        /\ \A h \in handles : slot'[h.id] = slot[h.id]
        /\ \A j \in 0..max' - 1 : slot'[j].sock # 0 => j \in 0..max - 1 /\ slot'[j] = slot[j]
    BY <2>1, AllocIntact DEF OwnInv
  <2>3. HandlesInv /\ OpenersInv /\ LedgerInv
    BY <2>2 DEF OwnInv
  <2>4. /\ open' = open /\ stdin' = stdin /\ handles' = handles /\ pc[t] = "idle"
        /\ pc'[t] \in {"connect", "store"} /\ id'[t] = i /\ p # "NULL" /\ proto'[t] = p
        /\ pc'[t] = "connect"
    BY <1>1, <2>1 DEF OpenStart, NamedProtocols
  <2>5. \A u \in Openers : u = t
    BY DEF OneOpener
  <2>6. HandlesInv'
    BY <2>2, <2>3, <2>4 DEF HandlesInv
  <2>7. OpenersInv'
    BY <2>2, <2>4, <2>5 DEF OpenersInv
  <2>8. LedgerInv'
    BY <2>2, <2>3, <2>4, <2>5 DEF LedgerInv
  <2> QED BY <2>6, <2>7, <2>8
<1>2. ASSUME NEW t \in Openers, OpenNoMemory(t)
      PROVE  (HandlesInv /\ OpenersInv /\ LedgerInv)'
  BY <1>2 DEF OpenNoMemory, AllocFails, local, Intact, OwnInv, HandlesInv, OpenersInv, LedgerInv
<1>3. ASSUME NEW t \in Openers, Connect(t) PROVE (HandlesInv /\ OpenersInv /\ LedgerInv)'
  <2>1. PICK d \in Unopened : open' = open \cup {d} /\ sockfd' = [sockfd EXCEPT ![t] = d]
    BY <1>3 DEF Connect
  <2>2. /\ UNCHANGED <<max, slot, stdin, handles, id, proto>> /\ Intact
        /\ pc[t] = "connect" /\ pc' = [pc EXCEPT ![t] = "store"]
    BY <1>3 DEF Connect, table, Intact
  <2>3. HandlesInv /\ OpenersInv /\ LedgerInv
    BY <2>2 DEF OwnInv
  <2>4. \A u \in Openers : u = t
    BY DEF OneOpener
  <2>8. d \in Descriptors \ open /\ d # 0
    BY <2>3 DEF Unopened, HandlesInv
  <2>5. HandlesInv'
    BY <2>1, <2>2, <2>3, <2>8 DEF HandlesInv
  <2>6. OpenersInv'
    BY <2>1, <2>2, <2>3, <2>4, <2>8 DEF OpenersInv, HandlesInv
  <2>7. LedgerInv'
    BY <2>1, <2>2, <2>3, <2>4, <2>8 DEF LedgerInv
  <2> QED BY <2>5, <2>6, <2>7
<1>4. ASSUME NEW t \in Openers, ConnectFails(t)
      PROVE  (HandlesInv /\ OpenersInv /\ LedgerInv)'
  <2>1. /\ UNCHANGED <<max, slot, open, stdin, handles, id, sockfd, proto>> /\ Intact
        /\ pc[t] = "connect" /\ pc' = [pc EXCEPT ![t] = "idle"]
    BY <1>4 DEF ConnectFails, table, Intact
  <2>2. HandlesInv /\ OpenersInv /\ LedgerInv
    BY <2>1 DEF OwnInv
  <2>3. \A u \in Openers : u = t
    BY DEF OneOpener
  <2>4. HandlesInv'
    BY <2>1, <2>2 DEF HandlesInv
  <2>5. OpenersInv'
    BY <2>1, <2>2, <2>3 DEF OpenersInv
  <2>6. LedgerInv'
    BY <2>1, <2>2, <2>3 DEF LedgerInv
  <2> QED BY <2>4, <2>5, <2>6
<1>5. ASSUME NEW t \in Openers, OpenReturns(t)
      PROVE  (HandlesInv /\ OpenersInv /\ LedgerInv)'
  <2> DEFINE g == [id |-> id[t], sock |-> sockfd[t]]
  <2>1. /\ slot' = [slot EXCEPT ![id[t]] = [sock |-> sockfd[t], proto |-> proto[t]]]
        /\ handles' = handles \cup {g} /\ UNCHANGED <<max, open, stdin, id, sockfd>> /\ Intact
        /\ pc[t] = "store" /\ pc' = [pc EXCEPT ![t] = "idle"]
    BY <1>5 DEF OpenReturns, Intact
  <2>2. HandlesInv /\ OpenersInv /\ LedgerInv
    BY <2>1 DEF OwnInv
  <2>3. \A u \in Openers : u = t
    BY DEF OneOpener
  <2>4. /\ g.id = id[t] /\ g.sock = sockfd[t] /\ id[t] \in Slots /\ sockfd[t] \in open
        /\ slot[id[t]].sock = 0 /\ proto[t] # "NULL"
        /\ \A h \in handles : h.id # id[t] /\ h.sock # sockfd[t] /\ h.id \in Slots
    BY <2>1, <2>2 DEF HandlesInv, OpenersInv
  <2>5. /\ slot'[g.id].sock = g.sock /\ slot'[g.id].proto # "NULL"
        /\ \A h \in handles : slot'[h.id] = slot[h.id]
    BY <2>1, <2>4
  <2> HIDE DEF g
  <2>6. HandlesInv'
    BY <2>1, <2>2, <2>4, <2>5 DEF HandlesInv
  <2>7. OpenersInv'
    BY <2>1, <2>3 DEF OpenersInv
  <2>8. LedgerInv'
    BY <2>1, <2>2, <2>3, <2>4 DEF LedgerInv
  <2> QED BY <2>6, <2>7, <2>8
<1>6. ASSUME NEW t \in Openers, CloseStart(t)
      PROVE  (HandlesInv /\ OpenersInv /\ LedgerInv)'
  <2>1. /\ UNCHANGED <<max, slot, open, stdin, proto>> /\ Intact /\ pc[t] = "idle"
    BY <1>6 DEF CloseStart, table, Intact
  <2>2. HandlesInv /\ OpenersInv /\ LedgerInv
    BY <2>1 DEF OwnInv
  <2>3. PICK h \in handles : /\ handles' = handles \ {h}
                             /\ id' = [id EXCEPT ![t] = h.id]
                             /\ sockfd' = [sockfd EXCEPT ![t] = slot[h.id].sock]
                             /\ pc' = [pc EXCEPT ![t] = "clear"]
    BY <1>6, <2>2 DEF CloseStart, HandlesInv
  <2>4. \A u \in Openers : u = t
    BY DEF OneOpener
  <2>5. HandlesInv'
    BY <2>1, <2>2, <2>3 DEF HandlesInv
  <2>6. OpenersInv'
    BY <2>1, <2>2, <2>3, <2>4 DEF OpenersInv, HandlesInv
  <2>7. LedgerInv'
    <3>1. slot[h.id].sock = h.sock /\ sockfd'[t] = h.sock /\ id'[t] = h.id /\ pc'[t] = "clear"
      BY <2>2, <2>3 DEF HandlesInv
    <3>2. \A g \in handles : g = h \/ g \in handles'
      BY <2>3
    <3>3. \A u \in Openers : ~HasSocket(u) /\ pc[u] # "clear"
      BY <2>1, <2>4
    <3>4. /\ \A d \in open : \E g \in handles : g.sock = d
          /\ \A i \in 0..max - 1 : slot[i].sock # 0 => \E g \in handles : g.id = i
      BY <2>2, <3>3 DEF LedgerInv
    <3> QED BY <2>1, <3>1, <3>2, <3>4 DEF LedgerInv
  <2> QED BY <2>5, <2>6, <2>7
<1>7. ASSUME NEW t \in Openers, CloseClears(t)
      PROVE  (HandlesInv /\ OpenersInv /\ LedgerInv)'
  <2>1. /\ slot' = [slot EXCEPT ![id[t]] = EmptySlot] /\ Intact
        /\ UNCHANGED <<max, open, stdin, handles, id, sockfd>>
        /\ pc[t] = "clear" /\ pc' = [pc EXCEPT ![t] = "shut"]
    BY <1>7 DEF CloseClears, Intact
  <2>2. HandlesInv /\ OpenersInv /\ LedgerInv
    BY <2>1 DEF OwnInv
  <2>3. \A u \in Openers : u = t
    BY DEF OneOpener
  <2>4. \A h \in handles : slot'[h.id] = slot[h.id]
    BY <2>1, <2>2 DEF OpenersInv
  <2>5. HandlesInv'
    BY <2>1, <2>2, <2>4 DEF HandlesInv
  <2>6. OpenersInv'
    BY <2>1, <2>2, <2>3 DEF OpenersInv
  <2>7. \A i \in 0..max - 1 : slot'[i].sock # 0 => i # id[t] /\ slot[i].sock # 0
    BY <2>1 DEF EmptySlot, Slots
  <2>8. \A i \in 0..max' - 1 : slot'[i].sock # 0 => \E h \in handles : h.id = i
    BY <2>1, <2>2, <2>3, <2>7 DEF LedgerInv
  <2>9. LedgerInv'
    BY <2>1, <2>2, <2>3, <2>8 DEF LedgerInv
  <2> QED BY <2>5, <2>6, <2>9
<1>8. ASSUME NEW t \in Openers, CloseReturns(t)
      PROVE  (HandlesInv /\ OpenersInv /\ LedgerInv)'
  <2>1. /\ UNCHANGED <<max, slot, handles, id, sockfd>> /\ Intact
        /\ open' = open \ {sockfd[t]} /\ stdin' = (stdin /\ sockfd[t] # 0)
        /\ pc[t] = "shut" /\ pc' = [pc EXCEPT ![t] = "idle"]
    BY <1>8 DEF CloseReturns, table, Intact
  <2>2. HandlesInv /\ OpenersInv /\ LedgerInv
    BY <2>1 DEF OwnInv
  <2>3. \A u \in Openers : u = t
    BY DEF OneOpener
  <2>4. stdin'
    <3>1. stdin /\ sockfd[t] # 0
      BY <2>1, <2>2 DEF HandlesInv, OpenersInv
    <3> QED BY <2>1, <3>1, Zenon
  <2> QED BY <2>1, <2>2, <2>3, <2>4 DEF HandlesInv, OpenersInv, LedgerInv
<1>9. ASSUME NEW t \in Threads, SendStart(t) \/ SendLocks(t) \/ SendChunk(t)
                                  \/ SendFails(t) \/ SendReturns(t)
      PROVE  (HandlesInv /\ OpenersInv /\ LedgerInv)'
  <2>1. /\ UNCHANGED <<max, slot, handles, open, stdin, proto>> /\ Intact
        /\ pc[t] \in {"idle", "lock", "send", "unlock"}
        /\ pc'[t] \in {"idle", "lock", "send", "unlock"}
        /\ \A u \in Threads \ {t} : pc'[u] = pc[u] /\ id'[u] = id[u] /\ sockfd'[u] = sockfd[u]
    BY <1>9 DEF SendStart, SendLocks, SendChunk, SendFails, SendReturns, table, Intact
  <2>2. HandlesInv /\ OpenersInv /\ LedgerInv
    BY <2>1 DEF OwnInv
  <2>3. \A u \in Openers :
          /\ \A step \in {"connect", "store", "clear", "shut"} : pc'[u] = step <=> pc[u] = step
          /\ pc[u] \in {"connect", "store", "clear", "shut"} => id'[u] = id[u] /\ sockfd'[u] = sockfd[u]
    BY <2>1
  <2>4. HandlesInv'
    BY <2>1, <2>2 DEF HandlesInv
  <2>5. OpenersInv'
    BY <2>1, <2>2, <2>3 DEF OpenersInv
  <2>6. LedgerInv'
    <3>1. \A d \in open' : \/ \E h \in handles' : h.sock = d
                           \/ \E u \in Openers : /\ pc'[u] \in {"store", "clear", "shut"}
                                                 /\ sockfd'[u] = d
      <4> SUFFICES ASSUME NEW d \in open, ~ \E h \in handles : h.sock = d
                   PROVE  \E u \in Openers : /\ pc'[u] \in {"store", "clear", "shut"}
                                             /\ sockfd'[u] = d
        BY <2>1
      <4>1. PICK u \in Openers : pc[u] \in {"store", "clear", "shut"} /\ sockfd[u] = d
        BY <2>2 DEF LedgerInv
      <4>2. pc'[u] \in {"store", "clear", "shut"} /\ sockfd'[u] = d
        BY <2>3, <4>1
      <4> QED BY <4>2
    <3>2. \A i \in 0..max' - 1 : slot'[i].sock # 0 =>
            \/ \E h \in handles' : h.id = i
            \/ \E u \in Openers : pc'[u] = "clear" /\ id'[u] = i
      <4> SUFFICES ASSUME NEW i \in 0..max - 1, slot[i].sock # 0,
                          ~ \E h \in handles : h.id = i
                   PROVE  \E u \in Openers : pc'[u] = "clear" /\ id'[u] = i
        BY <2>1
      <4>1. PICK u \in Openers : pc[u] = "clear" /\ id[u] = i
        BY <2>2 DEF LedgerInv
      <4> QED BY <2>3, <4>1
    <3> QED BY <3>1, <3>2 DEF LedgerInv
  <2> QED BY <2>4, <2>5, <2>6
<1>10. CASE UNCHANGED vars
  BY <1>10 DEF vars, table, local, Intact, OwnInv, HandlesInv, OpenersInv, LedgerInv
<1> QED BY <1>1, <1>2, <1>3, <1>4, <1>5, <1>6, <1>7, <1>8, <1>9, <1>10 DEF Next

-----------------------------------------------------------------------------
(* Who sends.                                                              *)

\* A thread that sends uses a handle that is open, and holds its mutex from
\* the moment it got it.
SendInv ==
  Intact => \A t \in Threads :
    /\ pc[t] \in {"lock", "send", "unlock"} =>
         \E h \in handles : h.id = id[t] /\ h.sock = sockfd[t]
    /\ pc[t] \in {"send", "unlock"} => mutex[id[t]] = t

\* The pieces on a descriptor belong to messages that were started, a message
\* that waits for the mutex has none, and one being sent is the last.
StartedInv ==
  \A d \in Descriptors, t \in Threads, n \in Nat : \A i \in 1..Len(wire[d]) :
    wire[d][i] = <<t, n>> => n <= sends[t] /\ (pc[t] = "lock" => n # sends[t])

LastInv ==
  Intact => \A d \in Descriptors, t \in Threads : \A i \in 1..Len(wire[d]) :
    (pc[t] = "send" /\ sockfd[t] = d /\ wire[d][i] = <<t, sends[t]>>) =>
      \A j \in i..Len(wire[d]) : wire[d][j] = wire[d][i]

WireInv == StartedInv /\ LastInv /\ MessagesContiguous

LEMMA InitSend == Init => SendInv
BY DEF Init, SendInv

LEMMA StepSend ==
  ASSUME TypeInv, OwnInv, SendInv, [Next]_vars
  PROVE  SendInv'
<1> SUFFICES ASSUME Intact', NEW u \in Threads
             PROVE  /\ pc'[u] \in {"lock", "send", "unlock"} =>
                         \E h \in handles' : h.id = id'[u] /\ h.sock = sockfd'[u]
                    /\ pc'[u] \in {"send", "unlock"} => mutex'[id'[u]] = u
  BY DEF SendInv
<1> DEFINE Sends == /\ pc[u] \in {"lock", "send", "unlock"} =>
                         \E h \in handles : h.id = id[u] /\ h.sock = sockfd[u]
                    /\ pc[u] \in {"send", "unlock"} => mutex[id[u]] = u
<1>a. ASSUME Intact PROVE Sends /\ HandlesInv
  BY <1>a DEF SendInv, OwnInv
<1> USE Constants, Shapes DEF At, Goto
<1>1. ASSUME NEW t \in Openers, NEW p \in Protocols, OpenStart(t, p) PROVE Sends'
  <2>1. PICK i \in Slots : /\ AllocFound(i) \/ AllocFirst(i) \/ AllocGrow(i)
                           /\ id' = [id EXCEPT ![t] = i]
    BY <1>1 DEF OpenStart
  <2>2. Intact /\ \A h \in handles : mutex'[h.id] = mutex[h.id]
    BY <2>1, AllocIntact DEF OwnInv
  <2>3. /\ UNCHANGED <<open, handles>> /\ pc'[t] \in {"connect", "store"}
        /\ u # t => pc'[u] = pc[u] /\ id'[u] = id[u] /\ sockfd'[u] = sockfd[u]
    BY <1>1, <2>1 DEF OpenStart
  <2>4. CASE u = t
    BY <2>3, <2>4
  <2>5. CASE u # t
    BY <1>a, <2>2, <2>3, <2>5
  <2> QED BY <2>4, <2>5
<1>2. ASSUME NEW t \in Openers, OpenNoMemory(t) PROVE Sends'
  BY <1>2, <1>a DEF OpenNoMemory, AllocFails, local, Intact
<1>3. ASSUME NEW t \in Openers, Connect(t) \/ ConnectFails(t) \/ CloseClears(t)
                                 \/ CloseReturns(t)
      PROVE  Sends'
  BY <1>3, <1>a DEF Connect, ConnectFails, CloseClears, CloseReturns, table, Intact
<1>4. ASSUME NEW t \in Openers, OpenReturns(t) PROVE Sends'
  BY <1>4, <1>a DEF OpenReturns, Intact
<1>5. ASSUME NEW t \in Openers, CloseStart(t) PROVE Sends'
  <2>1. /\ UNCHANGED <<mutex, slot, open>> /\ Intact /\ pc[t] = "idle"
    BY <1>5 DEF CloseStart, table, Intact
  <2>2. PICK g \in handles : /\ Unused(g) /\ handles' = handles \ {g}
                             /\ id' = [id EXCEPT ![t] = g.id]
                             /\ sockfd' = [sockfd EXCEPT ![t] = slot[g.id].sock]
                             /\ pc' = [pc EXCEPT ![t] = "clear"]
    BY <1>5, <1>a, <2>1 DEF CloseStart, HandlesInv
  <2>3. CASE u = t
    BY <2>2, <2>3
  <2>4. CASE u # t
    BY <1>a, <2>1, <2>2, <2>4 DEF Unused
  <2> QED BY <2>3, <2>4
<1>6. ASSUME NEW t \in Threads, SendStart(t) PROVE Sends'
  <2>1. UNCHANGED <<mutex, handles>> /\ Intact
    BY <1>6 DEF SendStart, table, Intact
  <2>2. PICK h \in handles : /\ id' = [id EXCEPT ![t] = h.id]
                             /\ sockfd' = [sockfd EXCEPT ![t] = slot[h.id].sock]
                             /\ pc' = [pc EXCEPT ![t] = "lock"]
    BY <1>6 DEF SendStart
  <2>3. CASE u = t
    BY <1>a, <2>1, <2>2, <2>3 DEF HandlesInv
  <2>4. CASE u # t
    BY <1>a, <2>1, <2>2, <2>4
  <2> QED BY <2>3, <2>4
<1>7. ASSUME NEW t \in Threads, SendLocks(t) PROVE Sends'
  <2>1. /\ UNCHANGED <<handles, id, sockfd>> /\ Intact
        /\ pc[t] = "lock" /\ pc'[t] \in {"send", "unlock"}
        /\ u # t => pc'[u] = pc[u]
        /\ mutex[id[t]] = NoThread /\ mutex' = [mutex EXCEPT ![id[t]] = t]
    BY <1>7 DEF SendLocks, Intact
  <2> QED BY <1>a, <2>1
<1>8. ASSUME NEW t \in Threads, SendChunk(t) \/ SendFails(t) PROVE Sends'
  BY <1>8, <1>a DEF SendChunk, SendFails, table, Intact
<1>9. ASSUME NEW t \in Threads, SendReturns(t) PROVE Sends'
  <2>1. /\ UNCHANGED <<handles, id, sockfd>> /\ Intact
        /\ pc[t] = "unlock" /\ pc' = [pc EXCEPT ![t] = "idle"]
        /\ mutex' = [mutex EXCEPT ![id[t]] = NoThread]
    BY <1>9 DEF SendReturns, Intact
  <2>2. mutex[id[t]] = t
    BY <2>1 DEF SendInv
  <2> QED BY <1>a, <2>1, <2>2
<1>10. CASE UNCHANGED vars
  BY <1>10, <1>a DEF vars, table, local, Intact
<1> QED BY <1>1, <1>2, <1>3, <1>4, <1>5, <1>6, <1>7, <1>8, <1>9, <1>10 DEF Next

LEMMA AppendEntries ==
  ASSUME NEW S, NEW q \in Seq(S), NEW e \in S
  PROVE  /\ Len(q) \in Nat /\ Len(Append(q, e)) = Len(q) + 1
         /\ \A i \in 1..Len(q) : Append(q, e)[i] = q[i]
         /\ Append(q, e)[Len(q) + 1] = e
OBVIOUS

LEMMA InitWire == Init => WireInv
<1> SUFFICES ASSUME Init PROVE WireInv
  OBVIOUS
<1>1. \A d \in Descriptors : wire[d] = <<>>
  BY DEF Init
<1>2. \A d \in Descriptors : 1..Len(wire[d]) = {}
  BY <1>1
<1> QED BY <1>2 DEF WireInv, StartedInv, LastInv, MessagesContiguous

\* A step that adds no piece and starts no message leaves what is said of the
\* messages true.
LEMMA QuietWire ==
  ASSUME WireInv, Intact' => Intact, UNCHANGED <<wire, sends>>,
         \A t \in Threads : /\ pc'[t] = "lock" => pc[t] = "lock"
                            /\ pc'[t] = "send" => pc[t] = "send" /\ sockfd'[t] = sockfd[t]
  PROVE  WireInv'
<1>1. StartedInv'
  <2> SUFFICES ASSUME NEW d \in Descriptors, NEW t \in Threads, NEW n \in Nat,
                      NEW i \in 1..Len(wire'[d]), wire'[d][i] = <<t, n>>
               PROVE  n <= sends'[t] /\ (pc'[t] = "lock" => n # sends'[t])
    BY DEF StartedInv
  <2>1. n <= sends[t] /\ (pc[t] = "lock" => n # sends[t])
    BY DEF WireInv, StartedInv
  <2>2. sends'[t] = sends[t] /\ (pc'[t] = "lock" => pc[t] = "lock")
    <3>1. sends'[t] = sends[t]
      OBVIOUS
    <3> QED BY <3>1, Zenon
  <2>3. n <= sends'[t]
    BY <2>1, <2>2
  <2>4. pc'[t] = "lock" => n # sends'[t]
    BY <2>1, <2>2
  <2> QED BY <2>3, <2>4, Zenon
<1>2. LastInv'
  BY DEF WireInv, LastInv
<1>3. MessagesContiguous'
  BY DEF WireInv, MessagesContiguous
<1> QED BY <1>1, <1>2, <1>3 DEF WireInv

LEMMA StepWire ==
  ASSUME TypeInv, OwnInv, SendInv, WireInv, [Next]_vars
  PROVE  WireInv'
<1> USE DEF At, Goto
<1>0. Openers \subseteq Threads /\ pc \in [Threads -> Steps] /\ sockfd \in [Threads -> SockValues]
  BY Constants, Shapes
<1>1. ASSUME NEW t \in Openers, NEW p \in Protocols, OpenStart(t, p) PROVE WireInv'
  <2>1. PICK i \in Slots : AllocFound(i) \/ AllocFirst(i) \/ AllocGrow(i)
    BY <1>1 DEF OpenStart
  <2>2. Intact' => Intact
    BY <2>1, AllocIntact DEF OwnInv
  <2>3. /\ UNCHANGED <<wire, sends>> /\ pc'[t] \in {"connect", "store"}
        /\ \A u \in Threads \ {t} : pc'[u] = pc[u] /\ sockfd'[u] = sockfd[u]
    BY <1>0, <1>1 DEF OpenStart
  <2> QED BY <2>2, <2>3, QuietWire
<1>2. ASSUME NEW t \in Openers, OpenNoMemory(t) PROVE WireInv'
  BY <1>2, QuietWire DEF OpenNoMemory, AllocFails, local, Intact
<1>3. ASSUME NEW t \in Openers, Connect(t) PROVE WireInv'
  <2>1. PICK d \in Unopened : wire' = [wire EXCEPT ![d] = <<>>]
                              /\ sockfd' = [sockfd EXCEPT ![t] = d]
    BY <1>3 DEF Connect
  <2>8. d \in Descriptors
    BY DEF Unopened
  <2>2. /\ UNCHANGED <<sends, max, wild>> /\ pc' = [pc EXCEPT ![t] = "store"] /\ (Intact' => Intact)
    BY <1>0, <1>3 DEF Connect, table, Intact
  <2>3. 1..Len(wire'[d]) = {}
    BY <2>1, <2>8 DEF TypeInv
  <2>4. \A c \in Descriptors : c = d \/ wire'[c] = wire[c]
    BY <2>1 DEF TypeInv
  <2>5. StartedInv'
    BY <2>2, <2>3, <2>4 DEF WireInv, StartedInv
  <2>6. LastInv'
    BY <2>1, <2>2, <2>3, <2>4 DEF WireInv, LastInv
  <2>7. MessagesContiguous'
    BY <2>2, <2>3, <2>4 DEF WireInv, MessagesContiguous
  <2> QED BY <2>5, <2>6, <2>7 DEF WireInv
<1>4. ASSUME NEW t \in Openers, ConnectFails(t) \/ OpenReturns(t) \/ CloseStart(t)
                                 \/ CloseClears(t) \/ CloseReturns(t)
      PROVE  WireInv'
  <2>1. /\ UNCHANGED <<wire, sends, max, wild>> /\ (Intact' => Intact)
        /\ pc'[t] \in {"idle", "clear", "shut"}
        /\ \A u \in Threads \ {t} : pc'[u] = pc[u] /\ sockfd'[u] = sockfd[u]
    BY <1>0, <1>4 DEF ConnectFails, OpenReturns, CloseStart, CloseClears, CloseReturns, table, Intact
  <2> QED BY <2>1, QuietWire
<1>5. ASSUME NEW t \in Threads, SendStart(t) PROVE WireInv'
  <2>1. /\ UNCHANGED <<wire, max, wild>> /\ (Intact' => Intact)
        /\ pc' = [pc EXCEPT ![t] = "lock"] /\ sends' = [sends EXCEPT ![t] = @ + 1]
        /\ \A u \in Threads \ {t} : sockfd'[u] = sockfd[u]
    BY <1>0, <1>5 DEF SendStart, table, Intact
  <2>2. \A u \in Threads : /\ sends[u] \in Nat
                           /\ sends'[u] = IF u = t THEN sends[u] + 1 ELSE sends[u]
    BY <2>1 DEF TypeInv, TypeOK
  <2>3. StartedInv'
    BY <2>1, <2>2 DEF WireInv, StartedInv
  <2>4. LastInv'
    <3> SUFFICES ASSUME Intact, NEW d \in Descriptors, NEW u \in Threads,
                        NEW i \in 1..Len(wire[d]),
                        pc'[u] = "send", sockfd'[u] = d, wire[d][i] = <<u, sends'[u]>>
                 PROVE  \A j \in i..Len(wire[d]) : wire[d][j] = wire[d][i]
      BY <2>1 DEF LastInv
    <3>1. u # t
      BY <1>0, <2>1
    <3>2. pc[u] = "send" /\ sockfd[u] = d /\ sends'[u] = sends[u]
      BY <2>1, <2>2, <3>1
    <3> QED BY <3>2 DEF WireInv, LastInv
  <2>5. MessagesContiguous'
    BY <2>1 DEF WireInv, MessagesContiguous
  <2> QED BY <2>3, <2>4, <2>5 DEF WireInv
<1>6. ASSUME NEW t \in Threads, SendLocks(t) PROVE WireInv'
  <2>1. /\ UNCHANGED <<wire, sends, sockfd, max, wild>> /\ (Intact' => Intact) /\ pc[t] = "lock"
        /\ \E step \in {"send", "unlock"} : pc' = [pc EXCEPT ![t] = step]
    BY <1>0, <1>6 DEF SendLocks, Intact
  <2>2. \A d \in Descriptors : \A i \in 1..Len(wire[d]) : wire[d][i] # <<t, sends[t]>>
    <3>1. sends[t] \in Nat
      BY DEF TypeInv, TypeOK
    <3> QED BY <2>1, <3>1 DEF WireInv, StartedInv
  <2>3. StartedInv'
    BY <2>1 DEF WireInv, StartedInv
  <2>4. LastInv'
    BY <2>1, <2>2 DEF WireInv, LastInv
  <2>5. MessagesContiguous'
    BY <2>1 DEF WireInv, MessagesContiguous
  <2> QED BY <2>3, <2>4, <2>5 DEF WireInv
<1>7. ASSUME NEW t \in Threads, SendChunk(t) PROVE WireInv'
  <2> DEFINE d == sockfd[t]
             e == <<t, sends[t]>>
             n == Len(wire[d])
  <2>1. /\ UNCHANGED <<sends, sockfd, id, max, wild>> /\ (Intact' => Intact) /\ pc[t] = "send"
        /\ \E step \in {"send", "unlock"} : pc' = [pc EXCEPT ![t] = step]
        /\ wire' = [wire EXCEPT ![d] = Append(wire[d], e)]
    BY <1>0, <1>7 DEF SendChunk, table, Intact
  <2>2. d \in Descriptors /\ sends[t] \in Nat
    <3>1. d \in open
      BY <1>7, Zenon DEF SendChunk
    <3>2. sends[t] \in Nat
      BY DEF TypeInv, TypeOK
    <3> QED BY <3>1, <3>2, Shapes
  <2>3. /\ n \in Nat /\ Len(wire'[d]) = n + 1
        /\ \A i \in 1..n : wire'[d][i] = wire[d][i]
        /\ wire'[d][n + 1] = e
    <3>1. wire[d] \in Seq(Threads \X Nat) /\ e \in Threads \X Nat
      BY <2>2 DEF TypeInv
    <3>2. wire'[d] = Append(wire[d], e)
      BY <2>1, <2>2 DEF TypeInv
    <3> QED BY <3>1, <3>2, AppendEntries
  <2>4. \A c \in Descriptors : c = d \/ wire'[c] = wire[c]
    BY <2>1 DEF TypeInv
  <2>5. e[1] = t /\ e[2] = sends[t]
    OBVIOUS
  <2> HIDE DEF d, n, e
  <2>6. StartedInv'
    BY <2>1, <2>2, <2>3, <2>4, <2>5 DEF WireInv, StartedInv
  <2>7. Intact => \A i \in 1..n : wire[d][i] = e => \A j \in i..n : wire[d][j] = e
    BY <2>1, <2>2 DEF WireInv, LastInv, d, n, e
  <2>8. Intact => \A u \in Threads : pc'[u] = "send" /\ sockfd[u] = d => u = t
    <3> SUFFICES ASSUME Intact, NEW u \in Threads, u # t, pc[u] = "send", sockfd[u] = d
                 PROVE  FALSE
      BY <2>1
    <3>1. PICK g \in handles : g.id = id[u] /\ g.sock = d
      BY DEF SendInv
    <3>2. PICK h \in handles : h.id = id[t] /\ h.sock = d
      BY <2>1 DEF SendInv, d
    <3>3. g = h
      BY <3>1, <3>2 DEF OwnInv, HandlesInv
    <3>4. mutex[id[u]] = u /\ mutex[id[t]] = t
      BY <2>1 DEF SendInv
    <3> QED BY <3>1, <3>2, <3>3, <3>4
  <2>9. LastInv'
    <3> SUFFICES ASSUME Intact, NEW c \in Descriptors, NEW u \in Threads,
                        NEW i \in 1..Len(wire'[c]),
                        pc'[u] = "send", sockfd[u] = c, wire'[c][i] = <<u, sends[u]>>,
                        NEW j \in i..Len(wire'[c])
                 PROVE  wire'[c][j] = wire'[c][i]
      BY <2>1 DEF LastInv
    <3>1. CASE c = d
      <4>1. u = t
        BY <2>8, <3>1
      <4>2. wire'[c][i] = e
        BY <4>1 DEF e
      <4>3. i \in 1..n + 1 /\ j \in 1..n + 1 /\ i <= j
        BY <2>3, <3>1
      <4>4. CASE j = n + 1
        BY <2>3, <3>1, <4>2, <4>4
      <4>5. CASE j # n + 1
        <5>1. i \in 1..n /\ j \in i..n /\ j \in 1..n
          BY <2>3, <4>3, <4>5
        <5>2. wire[d][i] = e
          BY <2>3, <3>1, <4>2, <5>1
        <5>3. wire[d][j] = e
          BY <2>7, <5>1, <5>2
        <5> QED BY <2>3, <3>1, <4>2, <5>1, <5>3
      <4> QED BY <4>4, <4>5
    <3>2. CASE c # d
      <4>1. pc[u] = "send"
        BY <2>1
      <4> QED BY <2>1, <2>4, <3>2, <4>1 DEF WireInv, LastInv
    <3> QED BY <3>1, <3>2
  <2>10. MessagesContiguous'
    <3> SUFFICES ASSUME Intact, NEW c \in Descriptors,
                        NEW i \in 1..Len(wire'[c]), NEW k \in 1..Len(wire'[c]),
                        wire'[c][i] = wire'[c][k], NEW j \in i..k
                 PROVE  wire'[c][j] = wire'[c][i]
      BY <2>1 DEF MessagesContiguous
    <3>1. CASE c # d
      BY <2>4, <3>1 DEF WireInv, MessagesContiguous
    <3>2. CASE c = d /\ k <= n
      <4>1. i \in 1..n /\ k \in 1..n /\ j \in 1..n
        BY <2>3, <3>2
      <4>2. wire[d][i] = wire[d][k]
        BY <2>3, <3>2, <4>1
      <4>3. wire[d][j] = wire[d][i]
        BY <2>2, <3>2, <4>1, <4>2 DEF WireInv, MessagesContiguous, n
      <4> QED BY <2>3, <3>2, <4>1, <4>3
    <3>3. CASE c = d /\ k = n + 1
      <4>1. wire'[c][i] = e
        BY <2>3, <3>3
      <4> QED BY <2>3, <2>7, <3>3, <4>1
    <3> QED BY <2>3, <3>1, <3>2, <3>3
  <2> QED BY <2>6, <2>9, <2>10 DEF WireInv
<1>8. ASSUME NEW t \in Threads, SendFails(t) \/ SendReturns(t) PROVE WireInv'
  <2>1. /\ UNCHANGED <<wire, sends, sockfd, max, wild>> /\ (Intact' => Intact)
        /\ \E step \in {"idle", "unlock"} : pc' = [pc EXCEPT ![t] = step]
    BY <1>0, <1>8 DEF SendFails, SendReturns, table, Intact
  <2> QED BY <2>1, QuietWire
<1>9. CASE UNCHANGED vars
  BY <1>9, QuietWire DEF vars, table, local, Intact
<1> QED BY <1>1, <1>2, <1>3, <1>4, <1>5, <1>6, <1>7, <1>8, <1>9 DEF Next

-----------------------------------------------------------------------------
(* What closes close, also in a table that growth has damaged.             *)

\* Until a growth cleared half of a slot, 0 is the standard input's.
ZeroInv == halved \/ (stdin /\ 0 \notin open)

\* A slot with a handle and a protocol has a socket that is open and that no
\* other such slot has, or has 0 because of that growth.
LiveSlotsInv ==
  /\ \A h \in handles : slot[h.id].proto # "NULL" =>
       slot[h.id].sock \in open \/ (halved /\ slot[h.id].sock = 0)
  /\ \A g, h \in handles :
       (g.id # h.id /\ slot[g.id].proto # "NULL" /\ slot[h.id].proto # "NULL") =>
         slot[g.id].sock # slot[h.id].sock \/ slot[g.id].sock = 0

\* So has an open or a close under way, and its socket is in no slot but the
\* one that is being filled or cleared.
UnderWayInv ==
  \A t \in Openers :
    /\ pc[t] = "connect" => proto[t] # "NULL"
    /\ (pc[t] = "store" /\ proto[t] # "NULL") \/ pc[t] \in {"clear", "shut"} =>
         /\ sockfd[t] \in open \/ (halved /\ sockfd[t] = 0)
         /\ \A h \in handles :
              (slot[h.id].proto # "NULL" /\ slot[h.id].sock = sockfd[t] /\ sockfd[t] # 0) =>
                pc[t] = "clear" /\ h.id = id[t]

CloseInv == ZeroInv /\ LiveSlotsInv /\ UnderWayInv

LEMMA InitClose == Init => CloseInv
<1> SUFFICES ASSUME Init PROVE CloseInv
  OBVIOUS
<1>1. handles = {} /\ stdin /\ open = {} /\ \A t \in Openers : pc[t] = "idle"
  BY Constants DEF Init
<1> QED BY <1>1 DEF CloseInv, ZeroInv, LiveSlotsInv, UnderWayInv

\* Wherever the new slot comes from, a slot that has a handle keeps its socket,
\* or loses its protocol, or is left with 0 by a growth that noted it.
LEMMA AllocKeepsOrForgets ==
  ASSUME TypeInv, NEW i \in Slots, AllocFound(i) \/ AllocFirst(i) \/ AllocGrow(i),
         NEW h \in handles, slot'[h.id].proto # "NULL"
  PROVE  ~wild => /\ slot[h.id].proto # "NULL"
                  /\ \/ slot'[h.id].sock = slot[h.id].sock
                     \/ halved' /\ slot'[h.id].sock = 0
<1>1. h.id \in 0..max - 1 /\ h.id \in Slots /\ max \in Nat
  BY Shapes
<1>2. CASE AllocFound(i)
  BY <1>2 DEF AllocFound
<1>3. CASE AllocFirst(i)
  BY <1>1, <1>3 DEF AllocFirst, TypeInv
<1>4. CASE AllocGrow(i)
  <2>2. CASE slot' = slot
    BY <2>2
  <2>3. ASSUME NEW junk \in Junk, slot' = Grown(max, junk), halved' = (halved \/ ClearsHalf(max))
        PROVE  /\ slot[h.id].proto # "NULL"
               /\ slot'[h.id].sock = slot[h.id].sock \/ (halved' /\ slot'[h.id].sock = 0)
    <3>1. slot'[h.id] =
            [sock  |-> IF h.id * SlotWords \in Cleared(max) THEN 0 ELSE slot[h.id].sock,
             proto |-> IF h.id * SlotWords + 1 \in Cleared(max) THEN "NULL" ELSE slot[h.id].proto]
      BY <1>1, <2>3 DEF Grown
    <3>2. h.id * SlotWords + 1 \notin Cleared(max) /\ slot[h.id].proto # "NULL"
      BY <3>1
    <3>3. CASE h.id * SlotWords \in Cleared(max)
      <4>1. ClearsHalf(max)
        BY <1>1, <3>2, <3>3 DEF ClearsHalf
      <4>2. halved'
        BY <2>3, <4>1, Zenon
      <4>3. slot'[h.id].sock = 0
        BY <3>1, <3>3
      <4> QED BY <3>2, <4>2, <4>3
    <3>4. CASE h.id * SlotWords \notin Cleared(max)
      BY <3>1, <3>2, <3>4
    <3> QED BY <3>3, <3>4
  <2> QED BY <1>4, <2>2, <2>3 DEF AllocGrow
<1> QED BY <1>2, <1>3, <1>4

\* What growth has noted stays noted.
LEMMA AllocNotes ==
  ASSUME NEW i \in Slots, AllocFound(i) \/ AllocFirst(i) \/ AllocGrow(i), halved
  PROVE  halved'
<1>1. halved' = halved \/ halved' = (halved \/ ClearsHalf(max))
  BY Zenon DEF AllocFound, AllocFirst, AllocGrow
<1> QED BY <1>1, Zenon

LEMMA StepClose ==
  ASSUME OneOpener, TypeInv, CloseInv, [Next]_vars
  PROVE  CloseInv'
<1> USE DEF At, Goto, CloseInv
<1>0. /\ Openers \subseteq Threads
      /\ pc \in [Threads -> Steps] /\ id \in [Threads -> Slots]
      /\ sockfd \in [Threads -> SockValues] /\ proto \in [Threads -> AllProtocols]
      /\ \A h \in handles : h.id \in Slots
      /\ slot \in [Slots -> [sock : SockValues, proto : AllProtocols]]
  BY Constants, Shapes
<1>1. ASSUME NEW t \in Openers, NEW p \in Protocols, OpenStart(t, p) PROVE CloseInv'
  <2>1. PICK i \in Slots : /\ AllocFound(i) \/ AllocFirst(i) \/ AllocGrow(i)
                           /\ id' = [id EXCEPT ![t] = i]
    BY <1>1 DEF OpenStart
  <2>2. \A h \in handles : slot'[h.id].proto # "NULL" =>
          /\ slot[h.id].proto # "NULL"
          /\ slot'[h.id].sock = slot[h.id].sock \/ (halved' /\ slot'[h.id].sock = 0)
    BY <1>1, <2>1, AllocKeepsOrForgets DEF OpenStart
  <2>7. halved => halved'
    BY <2>1, AllocNotes
  <2>3. /\ UNCHANGED <<open, stdin, handles>> /\ proto'[t] = p
        /\ pc'[t] = IF p = "NULL" THEN "store" ELSE "connect"
    BY <1>0, <1>1 DEF OpenStart
  <2>4. \A u \in Openers : u = t
    BY DEF OneOpener
  <2>5. LiveSlotsInv'
    BY <2>2, <2>3, <2>7 DEF LiveSlotsInv
  <2>6. UnderWayInv'
    BY <2>2, <2>3, <2>4, <2>7 DEF UnderWayInv
  <2>8. ZeroInv'
    BY <2>3, <2>7, Zenon DEF ZeroInv
  <2> QED BY <2>5, <2>6, <2>8
<1>2. ASSUME NEW t \in Openers, OpenNoMemory(t) PROVE CloseInv'
  BY <1>2 DEF OpenNoMemory, AllocFails, local, ZeroInv, LiveSlotsInv, UnderWayInv
<1>3. ASSUME NEW t \in Openers, Connect(t) PROVE CloseInv'
  <2>1. PICK d \in Unopened : /\ open' = open \cup {d}
                              /\ sockfd' = [sockfd EXCEPT ![t] = d]
    BY <1>3 DEF Connect
  <2>2. /\ UNCHANGED <<slot, halved, stdin, handles>> /\ pc' = [pc EXCEPT ![t] = "store"]
    BY <1>3 DEF Connect, table
  <2>3. \A u \in Openers : u = t
    BY DEF OneOpener
  <2>6. d \in Descriptors /\ d \notin open /\ (stdin => d # 0)
    BY DEF Unopened
  <2>4. LiveSlotsInv'
    BY <2>1, <2>2 DEF LiveSlotsInv
  <2>5. UnderWayInv'
    BY <1>0, <2>1, <2>2, <2>3, <2>6 DEF UnderWayInv, LiveSlotsInv
  <2>7. ZeroInv'
    BY <2>1, <2>2, <2>6 DEF ZeroInv
  <2> QED BY <2>4, <2>5, <2>7
<1>4. ASSUME NEW t \in Openers, ConnectFails(t) PROVE CloseInv'
  <2>1. UNCHANGED <<slot, halved, open, stdin, handles>> /\ pc' = [pc EXCEPT ![t] = "idle"]
    BY <1>4 DEF ConnectFails, table
  <2>2. \A u \in Openers : u = t
    BY DEF OneOpener
  <2> QED BY <1>0, <2>1, <2>2 DEF ZeroInv, LiveSlotsInv, UnderWayInv
<1>5. ASSUME NEW t \in Openers, OpenReturns(t) PROVE CloseInv'
  <2> DEFINE g == [id |-> id[t], sock |-> sockfd[t]]
  <2>1. /\ slot' = [slot EXCEPT ![id[t]] = [sock |-> sockfd[t], proto |-> proto[t]]]
        /\ handles' = handles \cup {g} /\ UNCHANGED <<open, stdin, halved>>
        /\ pc[t] = "store" /\ pc' = [pc EXCEPT ![t] = "idle"]
    BY <1>5 DEF OpenReturns
  <2>2. \A u \in Openers : u = t
    BY DEF OneOpener
  <2>3. \A h \in handles : h.id = id[t] \/ slot'[h.id] = slot[h.id]
    BY <1>0, <2>1
  <2>4. slot'[id[t]].sock = sockfd[t] /\ slot'[id[t]].proto = proto[t] /\ g.id = id[t]
    BY <1>0, <2>1
  <2>5. proto[t] # "NULL" =>
          /\ sockfd[t] \in open \/ (halved /\ sockfd[t] = 0)
          /\ \A h \in handles : slot[h.id].proto # "NULL" =>
               slot[h.id].sock # sockfd[t] \/ sockfd[t] = 0
    BY <2>1 DEF UnderWayInv
  <2> HIDE DEF g
  <2>6. LiveSlotsInv'
    BY <2>1, <2>3, <2>4, <2>5 DEF LiveSlotsInv
  <2>7. UnderWayInv'
    BY <1>0, <2>1, <2>2 DEF UnderWayInv
  <2>8. ZeroInv'
    BY <2>1, Zenon DEF ZeroInv
  <2> QED BY <2>6, <2>7, <2>8
<1>6. ASSUME NEW t \in Openers, CloseStart(t) PROVE CloseInv'
  <2>1. UNCHANGED <<slot, halved, open, stdin>> /\ pc[t] = "idle"
    BY <1>6 DEF CloseStart, table
  <2>2. PICK h \in handles :
          /\ handles' = handles \ {h}
          /\ IF slot[h.id].proto = "NULL"
               THEN UNCHANGED <<id, sockfd, pc>>
               ELSE /\ id' = [id EXCEPT ![t] = h.id]
                    /\ sockfd' = [sockfd EXCEPT ![t] = slot[h.id].sock]
                    /\ pc' = [pc EXCEPT ![t] = "clear"]
    BY <1>6 DEF CloseStart
  <2>3. \A u \in Openers : u = t
    BY DEF OneOpener
  <2>4. LiveSlotsInv'
    BY <2>1, <2>2 DEF LiveSlotsInv
  <2>5. UnderWayInv'
    <3>1. CASE slot[h.id].proto = "NULL"
      BY <2>1, <2>2, <2>3, <3>1 DEF UnderWayInv
    <3>2. CASE slot[h.id].proto # "NULL"
      BY <1>0, <2>1, <2>2, <2>3, <3>2 DEF UnderWayInv, LiveSlotsInv
    <3> QED BY <3>1, <3>2
  <2>6. ZeroInv'
    BY <2>1, Zenon DEF ZeroInv
  <2> QED BY <2>4, <2>5, <2>6
<1>7. ASSUME NEW t \in Openers, CloseClears(t) PROVE CloseInv'
  <2>1. /\ slot' = [slot EXCEPT ![id[t]] = EmptySlot]
        /\ UNCHANGED <<halved, open, stdin, handles, sockfd>>
        /\ pc[t] = "clear" /\ pc' = [pc EXCEPT ![t] = "shut"]
    BY <1>7 DEF CloseClears
  <2>2. \A u \in Openers : u = t
    BY DEF OneOpener
  <2>3. \A h \in handles : slot'[h.id].proto # "NULL" => h.id # id[t] /\ slot'[h.id] = slot[h.id]
    BY <1>0, <2>1 DEF EmptySlot
  <2>4. LiveSlotsInv'
    BY <2>1, <2>3 DEF LiveSlotsInv
  <2>5. UnderWayInv'
    BY <1>0, <2>1, <2>2, <2>3 DEF UnderWayInv
  <2>6. ZeroInv'
    BY <2>1, Zenon DEF ZeroInv
  <2> QED BY <2>4, <2>5, <2>6
<1>8. ASSUME NEW t \in Openers, CloseReturns(t) PROVE CloseInv'
  <2>1. /\ UNCHANGED <<slot, halved, handles>> /\ open' = open \ {sockfd[t]}
        /\ stdin' = (stdin /\ sockfd[t] # 0)
        /\ pc[t] = "shut" /\ pc' = [pc EXCEPT ![t] = "idle"]
    BY <1>8 DEF CloseReturns, table
  <2>2. \A u \in Openers : u = t
    BY DEF OneOpener
  <2>5. sockfd[t] = 0 => halved
    BY <2>1 DEF UnderWayInv, ZeroInv
  <2>3. LiveSlotsInv'
    BY <2>1, <2>5 DEF LiveSlotsInv, UnderWayInv
  <2>4. UnderWayInv'
    BY <1>0, <2>1, <2>2 DEF UnderWayInv
  <2>6. ZeroInv'
    <3>1. CASE halved
      BY <2>1, <3>1 DEF ZeroInv
    <3>2. CASE ~halved
      <4>1. stdin /\ 0 \notin open /\ sockfd[t] # 0
        BY <2>5, <3>2 DEF ZeroInv
      <4>2. stdin'
        BY <2>1, <4>1, Zenon
      <4> QED BY <2>1, <4>1, <4>2 DEF ZeroInv
    <3> QED BY <3>1, <3>2
  <2> QED BY <2>3, <2>4, <2>6
<1>9. ASSUME NEW t \in Threads,
             \/ SendStart(t) \/ SendLocks(t) \/ SendChunk(t)
             \/ SendFails(t) \/ SendReturns(t)
      PROVE  CloseInv'
  <2>1. /\ UNCHANGED <<slot, halved, handles, open, stdin, proto>>
        /\ pc'[t] \in {"idle", "lock", "send", "unlock"}
        /\ \A u \in Threads \ {t} : pc'[u] = pc[u] /\ id'[u] = id[u] /\ sockfd'[u] = sockfd[u]
    BY <1>0, <1>9 DEF SendStart, SendLocks, SendChunk, SendFails, SendReturns, table
  <2>2. LiveSlotsInv'
    BY <2>1 DEF LiveSlotsInv
  <2>3. UnderWayInv'
    BY <1>0, <2>1 DEF UnderWayInv
  <2>4. ZeroInv'
    BY <2>1, Zenon DEF ZeroInv
  <2> QED BY <2>2, <2>3, <2>4
<1>10. CASE UNCHANGED vars
  BY <1>10 DEF vars, table, local, ZeroInv, LiveSlotsInv, UnderWayInv
<1> QED BY <1>1, <1>2, <1>3, <1>4, <1>5, <1>6, <1>7, <1>8, <1>9, <1>10 DEF Next

-----------------------------------------------------------------------------
(* The properties of the runs.                                             *)

SafeInv == TypeInv /\ OwnInv /\ SendInv /\ WireInv

LEMMA Safe ==
  ASSUME OneOpener, NamedProtocols
  PROVE  Spec => []SafeInv
<1>1. Init => SafeInv
  BY InitType, InitOwn, InitSend, InitWire DEF SafeInv
<1>2. SafeInv /\ [Next]_vars => SafeInv'
  BY StepType, StepOwn, StepSend, StepWire DEF SafeInv
<1> QED BY <1>1, <1>2, PTL DEF Spec

\* With one thread that opens and closes, a handle is good until it is closed,
\* whatever the table's size, however many threads send and whatever fails.
THEOREM HandlesAreGood ==
  ASSUME OneOpener, NamedProtocols
  PROVE  Spec => []HandleOwnsSocket
<1>1. SafeInv => HandleOwnsSocket
  BY DEF SafeInv, OwnInv, HandlesInv, HandleOwnsSocket
<1> QED BY <1>1, Safe, PTL

\* Between calls callers have a handle for every socket that is open and every
\* slot that is taken.
THEOREM NothingIsLost ==
  ASSUME OneOpener, NamedProtocols
  PROVE  Spec => []NothingLost
<1>1. SafeInv => NothingLost
  <2> SUFFICES ASSUME SafeInv, Idle, Intact
               PROVE  /\ open = {h.sock : h \in handles}
                      /\ {i \in 0..max - 1 : slot[i].sock # 0} = {h.id : h \in handles}
                      /\ \A g, h \in handles : g.id = h.id => g = h
    BY DEF NothingLost
  <2>1. HandlesInv /\ LedgerInv /\ TypeInv
    BY DEF SafeInv, OwnInv
  <2>2. \A t \in Openers : pc[t] = "idle"
    BY Constants DEF Idle
  <2>3. open = {h.sock : h \in handles}
    BY <2>1, <2>2 DEF HandlesInv, LedgerInv, HasSocket
  <2>4. \A h \in handles : h.id \in 0..max - 1 /\ slot[h.id].sock # 0
    BY <2>1, Shapes DEF HandlesInv
  <2>5. \A i \in 0..max - 1 : slot[i].sock # 0 => \E h \in handles : h.id = i
    BY <2>1, <2>2 DEF LedgerInv
  <2> QED BY <2>1, <2>3, <2>4, <2>5 DEF HandlesInv
<1> QED BY <1>1, Safe, PTL

\* Messages of several senders never mix on a socket: the mutex of the slot is
\* held from a message's first piece to its last, and it is the only mutex for
\* that socket.
THEOREM MessagesStayWhole ==
  ASSUME OneOpener, NamedProtocols
  PROVE  Spec => []MessagesContiguous
<1>1. SafeInv => MessagesContiguous
  BY DEF SafeInv, WireInv
<1> QED BY <1>1, Safe, PTL

\* Closes close sockets that are open and nobody else's, also in a table that
\* growth has damaged, but for descriptor 0 once a growth cleared half of a
\* slot.
THEOREM ClosesOnlyOpenSockets ==
  ASSUME OneOpener
  PROVE  Spec => []ClosesWhatIsOpen
<1>1. Init => TypeInv /\ CloseInv
  BY InitType, InitClose
<1>2. TypeInv /\ CloseInv /\ [Next]_vars => (TypeInv /\ CloseInv)'
  BY StepType, StepClose
<1>3. TypeInv /\ CloseInv => ClosesWhatIsOpen
  BY DEF TypeInv, CloseInv, UnderWayInv, ClosesWhatIsOpen
<1> QED BY <1>1, <1>2, <1>3, PTL DEF Spec
\* The sizes of the source, and a slot of 36 bytes, what it takes on the 32 bit
\* processors the program is built for.
SourceSizes == ArrayDef = 100 /\ ArrayStep = 50 /\ SlotWords = 9

\* The growths to 150 and to 200 slots end memset between two slots.
SizeInv == max >= 250 \/ (~halved /\ (wild \/ max \in {0, 100, 150, 200}))

LEMMA StepSize ==
  ASSUME SourceSizes, TypeInv, SizeInv, [Next]_vars
  PROVE  SizeInv'
<1>1. CASE UNCHANGED <<max, wild, halved>>
  BY <1>1 DEF SizeInv
<1>2. ASSUME NEW t \in Openers, NEW p \in Protocols, OpenStart(t, p) PROVE SizeInv'
  <2>1. PICK i \in Slots : AllocFound(i) \/ AllocFirst(i) \/ AllocGrow(i)
    BY <1>2 DEF OpenStart
  <2>2. CASE AllocFound(i)
    BY <1>1, <2>2 DEF AllocFound
  <2>3. CASE AllocFirst(i)
    <3>1. max = 0 /\ max' = 100 /\ halved' = halved
      BY <2>3 DEF AllocFirst, SourceSizes, TypeInv
    <3>2. ~halved
      BY <3>1 DEF SizeInv
    <3> QED BY <3>1, <3>2, Zenon DEF SizeInv
  <2>4. CASE AllocGrow(i)
    <3>1. max' = max + 50 /\ max \in Nat
      BY <2>4, Shapes DEF AllocGrow, SourceSizes
    <3>2. CASE max' < 250
      <4>1. ~halved /\ ~wild /\ max \in {0, 100, 150}
        BY <1>2, <3>1, <3>2 DEF SizeInv, OpenStart, At
      <4>2. max \in {100, 150} => ~ClearsHalf(max)
        BY DEF ClearsHalf, Cleared, SourceSizes
      <4>3. CASE wild' = TRUE /\ halved' = halved
        BY <4>1, <4>3, Zenon DEF SizeInv
      <4>4. CASE max > 0 /\ halved' = (halved \/ ClearsHalf(max))
        <5>1. max \in {100, 150} /\ max' \in {150, 200}
          BY <3>1, <4>1, <4>4
        <5>2. ~halved'
          BY <4>1, <4>2, <4>4, <5>1, Zenon
        <5> QED BY <5>1, <5>2 DEF SizeInv
      <4>5. \/ wild' = TRUE /\ halved' = halved
            \/ max > 0 /\ halved' = (halved \/ ClearsHalf(max))
        BY <2>4, Zenon DEF AllocGrow
      <4> QED BY <4>3, <4>4, <4>5, Zenon
    <3>3. CASE max' >= 250
      BY <3>3 DEF SizeInv
    <3> QED BY <3>1, <3>2, <3>3
  <2> QED BY <2>1, <2>2, <2>3, <2>4
<1> QED BY <1>1, <1>2, Zenon
        DEF Next, OpenNoMemory, AllocFails, Connect, ConnectFails, OpenReturns, CloseStart,
            CloseClears, CloseReturns, SendStart, SendLocks, SendChunk, SendFails, SendReturns,
            vars, table

\* With these sizes closes close sockets that are open, descriptor 0 never,
\* until the table has grown to 250 slots.
THEOREM ClosesOnlyOpenSocketsBefore250 ==
  ASSUME OneOpener, SourceSizes
  PROVE  Spec => [](max < 250 => \A t \in Threads : pc[t] \in {"clear", "shut"} =>
                                   sockfd[t] \in open)
<1> DEFINE Inv == TypeInv /\ CloseInv /\ SizeInv
           Closes == max < 250 => \A t \in Threads : pc[t] \in {"clear", "shut"} =>
                                    sockfd[t] \in open
<1>1. Init => Inv
  <2>1. Init => SizeInv
    BY Zenon DEF Init, SizeInv
  <2> QED BY <2>1, InitType, InitClose
<1>2. Inv /\ [Next]_vars => Inv'
  BY StepType, StepClose, StepSize
<1>3. Inv => Closes
  <2> SUFFICES ASSUME Inv, max < 250, NEW t \in Threads, pc[t] \in {"clear", "shut"}
               PROVE  sockfd[t] \in open
    OBVIOUS
  <2>1. ~halved
    BY Shapes DEF SizeInv
  <2>2. t \in Openers
    BY DEF TypeInv
  <2> QED BY <2>1, <2>2 DEF CloseInv, UnderWayInv
<1> HIDE DEF Inv, Closes
<1>4. Spec => []Closes
  BY <1>1, <1>2, <1>3, PTL DEF Spec
<1> QED BY <1>4 DEF Closes
=============================================================================
