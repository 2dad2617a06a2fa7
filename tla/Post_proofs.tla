---------------------------- MODULE Post_proofs ----------------------------
(***************************************************************************)
(* The POST of a configuration keeps the safety part of the promise of     *)
(* Delivery for every number of attempts and pieces, every size of the     *)
(* table, all credentials and any failures of memory and connections.      *)
(***************************************************************************)
EXTENDS Post, SocketTable_proofs, Base64_proofs

Places == {"idle", "redo", "open", "opening", "send", "sending", "close", "closing",
           "overrun"}

\* Where the thread is inside network.c when the function is at such a place.
PlaceInv ==
  /\ at \in Places
  /\ at \in {"idle", "redo", "open", "send", "close", "overrun"} => pc[Poster] = "idle"
  /\ at = "opening" => pc[Poster] \in {"connect", "store"} /\ proto[Poster] = "TCP"
  /\ at = "sending" => pc[Poster] \in {"lock", "send", "unlock"}
  /\ at = "closing" => pc[Poster] \in {"clear", "shut", "idle"}

\* What the function holds: a handle, a slot, a connection.  It gets the
\* connection first and loses it last.
HasHandle == at \in {"send", "sending", "close", "overrun"}
HasSlot == HasHandle \/ (at = "closing" /\ pc[Poster] = "clear")
HasConnection ==
  \/ HasSlot
  \/ at = "opening" /\ pc[Poster] = "store"
  \/ at = "closing" /\ pc[Poster] = "shut"

HoldsInv ==
  /\ handles = IF HasHandle THEN {[id |-> id[Poster], sock |-> sockfd[Poster]]} ELSE {}
  /\ HasHandle => net_handle = id[Poster]
  /\ slot = [i \in Slots |-> IF HasSlot /\ i = id[Poster]
                               THEN [sock |-> sockfd[Poster], proto |-> "TCP"]
                               ELSE EmptySlot]
  /\ open = IF HasConnection THEN {sockfd[Poster]} ELSE {}
  /\ HasConnection => sockfd[Poster] \in Descriptors

\* The table has its first size, or was missing and is now anywhere.
TableInv ==
  /\ wild => at = "opening" /\ pc[Poster] = "connect" /\ noMemory > 0 /\ max = ArrayStep
  /\ ~wild => max \in {0, ArrayDef}
  /\ status = 1 /\ max = 0 => noMemory > 0

\* What left on the connection is what is not left to send.
CarriedInv ==
  HasConnection =>
    IF at \in {"opening", "send", "overrun"} THEN Len(wire[sockfd[Poster]]) = 0
    ELSE Len(wire[sockfd[Poster]]) = Chunks - left[Poster]

CountInv ==
  /\ re_cnt \in Int /\ re_cnt >= -1 /\ posts \in Nat
  /\ at # "idle" => re_cnt >= 0 /\ posts > 0
  /\ at = "idle" /\ posts > 0 => result \in {"sent", "gaveUp"}

HeaderInv ==
  /\ \/ credentials \in Credentials
     \/ credentials = [username |-> Null, password |-> Null]
  /\ at \in {"sending", "close", "closing"} =>
       /\ authorization = vc_authorization_base64_encode(credentials)
       /\ Len(authorization) < HeaderSize
  /\ at = "overrun" =>
       Len(vc_authorization_base64_encode(credentials)) >= HeaderSize

PostInv == PlaceInv /\ HoldsInv /\ TableInv /\ CarriedInv /\ CountInv /\ HeaderInv

LEMMA PosterConstants ==
  /\ Poster \in Openers /\ Poster \in Threads /\ "TCP" \in Protocols
  /\ Tries \in Nat /\ MaxPosts \in Nat
BY PostAssumption, SocketAssumption DEF PostAssumption, SocketAssumption

-----------------------------------------------------------------------------
(* Every step of the function is a step of the socket table, or none.      *)

LEMMA TableSteps == [PostNext]_postVars => [Next]_vars
<1> SUFFICES ASSUME [PostNext]_postVars PROVE [Next]_vars
  OBVIOUS
<1> USE PosterConstants
<1>1. ASSUME NEW c \in Credentials, PostCalled(c) PROVE UNCHANGED vars
  BY <1>1 DEF PostCalled
<1>2. ASSUME GivesUp \/ TriesAgain \/ SendOverruns \/ Closed PROVE UNCHANGED vars
  BY <1>2 DEF GivesUp, TriesAgain, SendOverruns, Closed
<1>3. ASSUME OpenCalled PROVE Next
  BY <1>3, Zenon DEF OpenCalled, Next
<1>4. ASSUME Opening PROVE Next
  BY <1>4, Zenon DEF Opening, Next
<1>5. ASSUME OpenFailed PROVE Next
  BY <1>5, Zenon DEF OpenFailed, Next
<1>6. ASSUME Opened PROVE Next
  BY <1>6, Zenon DEF Opened, Next
<1>7. ASSUME SendCalled PROVE Next
  BY <1>7, Zenon DEF SendCalled, Next
<1>8. ASSUME Sending PROVE Next
  BY <1>8, Zenon DEF Sending, Next
<1>9. ASSUME Sent PROVE Next
  BY <1>9, Zenon DEF Sent, Next
<1>10. ASSUME CloseCalled PROVE Next
  BY <1>10, Zenon DEF CloseCalled, Next
<1>11. ASSUME Closing PROVE Next
  BY <1>11, Zenon DEF Closing, Next
<1>12. CASE UNCHANGED postVars
  BY <1>12, Zenon DEF postVars
<1> QED
  BY <1>1, <1>2, <1>3, <1>4, <1>5, <1>6, <1>7, <1>8, <1>9, <1>10, <1>11, <1>12, Zenon
  DEF PostNext, Step

\* The function calls network.c as any other client: what holds of the socket
\* table holds of the one it uses.
THEOREM PostUsesTheTable == PostSpec => Spec
<1>1. PostInit => Init
  BY DEF PostInit
<1> QED BY <1>1, TableSteps, PTL DEF PostSpec, Spec

-----------------------------------------------------------------------------
(* The invariant is inductive.                                             *)

LEMMA InitPost == PostInit => PostInv
<1> SUFFICES ASSUME PostInit PROVE PostInv
  OBVIOUS
<1> USE PosterConstants
<1>1. PlaceInv
  BY DEF PostInit, Init, PlaceInv, Places
<1>2. HoldsInv
  BY DEF PostInit, Init, HoldsInv, HasConnection, HasSlot, HasHandle
<1>3. TableInv
  BY DEF PostInit, Init, TableInv
<1>4. CarriedInv /\ CountInv /\ HeaderInv
  BY DEF PostInit, Init, CarriedInv, HasConnection, HasSlot, HasHandle, CountInv, HeaderInv
<1> QED BY <1>1, <1>2, <1>3, <1>4 DEF PostInv

\* The first slot is free whenever the function asks for one.
LEMMA AllocPost ==
  ASSUME TypeInv, PostInv, at = "open", ~wild,
         NEW i \in Slots, AllocFound(i) \/ AllocFirst(i) \/ AllocGrow(i)
  PROVE  /\ slot' = slot /\ status' = 1 /\ max' # 0 /\ noMemory' = noMemory
         /\ \/ ~wild' /\ max' = ArrayDef
            \/ wild' /\ noMemory' > 0 /\ max' = ArrayStep
<1> USE Constants
<1>1. slot = [j \in Slots |-> EmptySlot]
  BY Zenon DEF PostInv, HoldsInv, HasSlot, HasHandle
<1>2. max \in {0, ArrayDef} /\ (status = 1 /\ max = 0 => noMemory > 0)
  BY DEF PostInv, TableInv
<1>3. CASE AllocFound(i)
  BY <1>2, <1>3 DEF AllocFound, Available
<1>4. CASE AllocFirst(i)
  BY <1>1, <1>4 DEF AllocFirst
<1>5. CASE AllocGrow(i)
  <2>1. max = 0
    <3> SUFFICES ASSUME max # 0 PROVE FALSE
      OBVIOUS
    <3>1. 0 \in Slots /\ 0 \in 0..max - 1
      BY <1>2 DEF Slots
    <3>2. slot[0].sock = 0
      BY <1>1, <3>1 DEF EmptySlot
    <3>3. Available(0)
      BY <3>1, <3>2 DEF Available
    <3> QED BY <1>5, <3>1, <3>3 DEF AllocGrow
  <2>2. status = 1 /\ status' = 1 /\ max' = max + ArrayStep /\ noMemory' = noMemory
    BY <1>5 DEF AllocGrow
  <2>3. wild' = TRUE /\ slot' = slot
    BY <1>5, <2>1 DEF AllocGrow
  <2> QED BY <1>2, <2>1, <2>2, <2>3
<1> QED BY <1>3, <1>4, <1>5, Zenon

\* The types these proofs use.
LEMMA PostShapes ==
  ASSUME TypeInv
  PROVE  /\ pc \in [Threads -> Steps] /\ id \in [Threads -> Slots]
         /\ sockfd \in [Threads -> SockValues] /\ proto \in [Threads -> AllProtocols]
         /\ left \in [Threads -> Nat] /\ left[Poster] \in 0..Chunks
         /\ wire \in [Descriptors -> Seq(Threads \X Nat)]
         /\ id[Poster] \in Slots /\ noMemory \in Nat /\ max \in Nat
BY Shapes, Constants, PosterConstants DEF TypeInv, TypeOK

\* Steps between two calls of network.c.
LEMMA StepOutside ==
  ASSUME TypeInv, PostInv,
         \/ \E c \in Credentials : PostCalled(c)
         \/ GivesUp \/ TriesAgain \/ Closed
  PROVE  PostInv'
<1> USE PosterConstants, PostShapes DEF Move, PostInv, vars, table, local
<1>1. UNCHANGED vars
  BY DEF PostCalled, GivesUp, TriesAgain, Closed
<1>2. ~HasHandle /\ ~HasSlot /\ ~HasConnection /\ ~wild
  BY DEF PostCalled, GivesUp, TriesAgain, Closed, HasHandle, HasSlot, HasConnection, PlaceInv,
         TableInv
<1>3. at' \in {"idle", "redo", "open"} /\ pc[Poster] = "idle"
  BY DEF PostCalled, GivesUp, TriesAgain, Closed, PlaceInv
<1>4. ~HasHandle' /\ ~HasSlot' /\ ~HasConnection'
  BY <1>1, <1>3 DEF HasHandle, HasSlot, HasConnection
<1>5. PlaceInv'
  BY <1>1, <1>3 DEF PlaceInv, Places
<1>6. HoldsInv'
  BY <1>1, <1>2, <1>4 DEF HoldsInv
<1>7. TableInv' /\ CarriedInv'
  BY <1>1, <1>2, <1>4 DEF TableInv, CarriedInv
<1>8. CountInv'
  BY DEF CountInv, PostCalled, GivesUp, TriesAgain, Closed
<1>9. HeaderInv'
  BY <1>3 DEF HeaderInv, PostCalled, GivesUp, TriesAgain, Closed
<1> QED BY <1>5, <1>6, <1>7, <1>8, <1>9

\* A header that does not fit leaves everything where it is.
LEMMA StepOverruns ==
  ASSUME TypeInv, PostInv, SendOverruns
  PROVE  PostInv'
<1> USE PosterConstants, PostShapes DEF Move, PostInv
<1>1. at = "send" /\ at' = "overrun"
  BY DEF SendOverruns
<1>2. UNCHANGED vars /\ UNCHANGED <<re_cnt, net_handle, credentials, authorization, result, posts>>
  BY DEF SendOverruns
<1>3. /\ UNCHANGED <<table, open, handles, wire, noMemory>>
      /\ UNCHANGED <<pc, id, sockfd, proto, left>>
  BY <1>2 DEF vars, local
<1>4. UNCHANGED <<status, max, slot, wild>>
  BY <1>3 DEF table
<1>5. HasHandle /\ HasSlot /\ HasConnection /\ HasHandle' /\ HasSlot' /\ HasConnection'
  BY <1>1 DEF HasHandle, HasSlot, HasConnection
<1>6. PlaceInv'
  BY <1>1, <1>3 DEF PlaceInv, Places
<1>7. HoldsInv'
  BY <1>2, <1>3, <1>4, <1>5 DEF HoldsInv
<1>8. TableInv' /\ CarriedInv'
  BY <1>1, <1>3, <1>4, <1>5 DEF TableInv, CarriedInv
<1>9. CountInv' /\ HeaderInv'
  <2>1. Len(vc_authorization_base64_encode(credentials)) >= HeaderSize
    BY DEF SendOverruns
  <2> QED BY <1>1, <1>2, <2>1 DEF CountInv, HeaderInv
<1> QED BY <1>6, <1>7, <1>8, <1>9

LEMMA StepOpening ==
  ASSUME TypeInv, PostInv, OpenCalled \/ Opening \/ OpenFailed \/ Opened
  PROVE  PostInv'
<1> USE PosterConstants, PostShapes DEF At, Goto, Move, PostInv
<1>1. CountInv'
  BY DEF CountInv, OpenCalled, Opening, OpenFailed, Opened, LeavesCall
<1>2. HeaderInv'
  BY DEF HeaderInv, OpenCalled, Opening, OpenFailed, Opened, LeavesCall
<1>3. CASE OpenCalled
  <2>1. at = "open" /\ at' = "opening" /\ ~wild /\ pc'[Poster] = "connect"
    BY <1>3 DEF OpenCalled, OpenStart
  <2>2. proto'[Poster] = "TCP" /\ open' = open /\ handles' = handles /\ net_handle' = net_handle
    BY <1>3 DEF OpenCalled, OpenStart, LeavesCall
  <2>3. /\ slot' = slot /\ status' = 1 /\ max' # 0 /\ noMemory' = noMemory
        /\ \/ ~wild' /\ max' = ArrayDef
           \/ wild' /\ noMemory' > 0 /\ max' = ArrayStep
    <3>1. PICK i \in Slots : AllocFound(i) \/ AllocFirst(i) \/ AllocGrow(i)
      BY <1>3, Zenon DEF OpenCalled, OpenStart
    <3> QED BY <2>1, <3>1, AllocPost, Zenon
  <2>4. ~HasHandle /\ ~HasSlot /\ ~HasConnection
    BY <2>1 DEF HasHandle, HasSlot, HasConnection
  <2>5. ~HasHandle' /\ ~HasSlot' /\ ~HasConnection'
    BY <2>1 DEF HasHandle, HasSlot, HasConnection
  <2>6. PlaceInv'
    BY <2>1, <2>2 DEF PlaceInv, Places
  <2>7. HoldsInv'
    BY <2>2, <2>3, <2>4, <2>5 DEF HoldsInv
  <2>8. TableInv' /\ CarriedInv'
    BY <2>1, <2>3, <2>5 DEF TableInv, CarriedInv
  <2> QED BY <1>1, <1>2, <2>6, <2>7, <2>8
<1>4. CASE Opening
  <2>1. at = "opening" /\ at' = "opening" /\ ~wild /\ pc[Poster] = "connect" /\ pc'[Poster] = "store"
    BY <1>4 DEF Opening, Connect
  <2>2. PICK d \in Descriptors : /\ open' = open \cup {d}
                                 /\ sockfd' = [sockfd EXCEPT ![Poster] = d]
                                 /\ wire' = [wire EXCEPT ![d] = <<>>]
    BY <1>4 DEF Opening, Connect, Unopened
  <2>3. UNCHANGED <<table, handles, id, proto, left, sends, noMemory, net_handle>>
    BY <1>4 DEF Opening, Connect, LeavesCall
  <2>4. ~HasHandle /\ ~HasSlot /\ ~HasConnection
    BY <2>1 DEF HasHandle, HasSlot, HasConnection
  <2>5. ~HasHandle' /\ ~HasSlot' /\ HasConnection'
    BY <2>1 DEF HasHandle, HasSlot, HasConnection
  <2>6. PlaceInv'
    BY <2>1, <2>3 DEF PlaceInv, Places
  <2>7. sockfd'[Poster] = d /\ wire'[d] = <<>> /\ open = {}
    BY <2>2, <2>4 DEF HoldsInv
  <2>8. HoldsInv'
    BY <2>2, <2>3, <2>4, <2>5, <2>7 DEF HoldsInv, table
  <2>9. TableInv' /\ CarriedInv'
    BY <2>1, <2>3, <2>7 DEF TableInv, CarriedInv, table
  <2> QED BY <1>1, <1>2, <2>6, <2>8, <2>9
<1>5. CASE OpenFailed
  <2>1. at \in {"open", "opening"} /\ at' = "redo" /\ ~wild /\ pc'[Poster] = "idle"
    BY <1>5 DEF OpenFailed, OpenNoMemory, ConnectFails, local
  <2>2. ~HasHandle /\ ~HasSlot /\ ~HasConnection
    BY <1>5 DEF OpenFailed, OpenNoMemory, ConnectFails, HasHandle, HasSlot, HasConnection
  <2>3. ~HasHandle' /\ ~HasSlot' /\ ~HasConnection'
    BY <2>1 DEF HasHandle, HasSlot, HasConnection
  <2>4. UNCHANGED <<slot, open, handles, max, wild>>
    BY <1>5 DEF OpenFailed, OpenNoMemory, ConnectFails, AllocFails, table
  <2>5. (status' = status /\ noMemory' = noMemory) \/ noMemory' > 0
    BY <1>5 DEF OpenFailed, OpenNoMemory, ConnectFails, AllocFails, table
  <2>6. PlaceInv'
    BY <2>1 DEF PlaceInv, Places
  <2>7. HoldsInv'
    BY <2>2, <2>3, <2>4 DEF HoldsInv
  <2>8. TableInv' /\ CarriedInv'
    BY <2>1, <2>3, <2>4, <2>5 DEF TableInv, CarriedInv
  <2> QED BY <1>1, <1>2, <2>6, <2>7, <2>8
<1>6. CASE Opened
  <2>1. at = "opening" /\ at' = "send" /\ ~wild /\ pc[Poster] = "store" /\ pc'[Poster] = "idle"
    BY <1>6 DEF Opened, OpenReturns
  <2>2. /\ slot' = [slot EXCEPT ![id[Poster]] = [sock |-> sockfd[Poster], proto |-> "TCP"]]
        /\ handles' = handles \cup {[id |-> id[Poster], sock |-> sockfd[Poster]]}
    BY <1>6, <2>1 DEF Opened, OpenReturns, PlaceInv
  <2>3. /\ UNCHANGED <<status, max, wild, open, id, sockfd, left, wire, noMemory>>
        /\ net_handle' = id[Poster]
    BY <1>6 DEF Opened, OpenReturns
  <2>4. ~HasHandle /\ ~HasSlot /\ HasConnection
    BY <2>1 DEF HasHandle, HasSlot, HasConnection
  <2>5. HasHandle' /\ HasSlot' /\ HasConnection'
    BY <2>1 DEF HasHandle, HasSlot, HasConnection
  <2>6. PlaceInv'
    BY <2>1 DEF PlaceInv, Places
  <2>7. slot' = [i \in Slots |-> IF HasSlot' /\ i = id'[Poster]
                                   THEN [sock |-> sockfd'[Poster], proto |-> "TCP"]
                                   ELSE EmptySlot]
    BY <2>2, <2>3, <2>4, <2>5 DEF HoldsInv
  <2>8. HoldsInv'
    BY <2>2, <2>3, <2>4, <2>5, <2>7 DEF HoldsInv
  <2>9. TableInv' /\ CarriedInv'
    BY <2>1, <2>3, <2>4 DEF TableInv, CarriedInv
  <2> QED BY <1>1, <1>2, <2>6, <2>8, <2>9
<1> QED BY <1>3, <1>4, <1>5, <1>6

LEMMA StepSending ==
  ASSUME TypeInv, PostInv, SendCalled \/ Sending \/ Sent
  PROVE  PostInv'
<1> USE PosterConstants, PostShapes DEF At, Goto, Move, PostInv
<1>1. CountInv'
  BY DEF CountInv, SendCalled, Sending, Sent, LeavesCall
<1>2. HeaderInv'
  BY DEF HeaderInv, SendCalled, Sending, Sent, LeavesCall
<1>3. CASE SendCalled
  <2>1. at = "send" /\ at' = "sending" /\ ~wild /\ pc'[Poster] = "lock"
    BY <1>3 DEF SendCalled, SendStart
  <2>2. /\ UNCHANGED <<table, open, handles, proto, wire, noMemory, net_handle>>
        /\ left'[Poster] = Chunks
    BY <1>3 DEF SendCalled, SendStart
  <2>3. HasHandle /\ HasSlot /\ HasConnection
    BY <2>1 DEF HasHandle, HasSlot, HasConnection
  <2>4. HasHandle' /\ HasSlot' /\ HasConnection'
    BY <2>1 DEF HasHandle, HasSlot, HasConnection
  <2>5. id'[Poster] = id[Poster] /\ sockfd'[Poster] = sockfd[Poster]
    <3>1. PICK h \in handles : /\ id' = [id EXCEPT ![Poster] = h.id]
                               /\ sockfd' = [sockfd EXCEPT ![Poster] = slot[h.id].sock]
      BY <1>3 DEF SendCalled, SendStart
    <3>2. h.id = id[Poster]
      BY <2>3 DEF HoldsInv
    <3>3. slot[id[Poster]].sock = sockfd[Poster]
      BY <2>3 DEF HoldsInv
    <3> QED BY <3>1, <3>2, <3>3
  <2>6. PlaceInv'
    BY <2>1 DEF PlaceInv, Places
  <2>7. HoldsInv'
    BY <2>2, <2>3, <2>4, <2>5 DEF HoldsInv, table
  <2>8. TableInv'
    BY <2>1, <2>2 DEF TableInv, table
  <2>9. CarriedInv'
    BY <2>1, <2>2, <2>3, <2>5, Constants DEF CarriedInv
  <2> QED BY <1>1, <1>2, <2>6, <2>7, <2>8, <2>9
<1>4. CASE Sending
  <2>1. at = "sending" /\ at' = "sending" /\ ~wild
    BY <1>4 DEF Sending, SendLocks, SendChunk, SendFails
  <2>2. pc'[Poster] \in {"lock", "send", "unlock"}
    BY <1>4 DEF Sending, SendLocks, SendChunk, SendFails
  <2>3. /\ UNCHANGED <<status, max, slot, wild, open, handles, id, sockfd, noMemory, net_handle>>
    BY <1>4 DEF Sending, SendLocks, SendChunk, SendFails, LeavesCall, table
  <2>4. HasHandle /\ HasSlot /\ HasConnection /\ HasHandle' /\ HasSlot' /\ HasConnection'
    BY <2>1 DEF HasHandle, HasSlot, HasConnection
  <2>5. PlaceInv'
    BY <2>1, <2>2 DEF PlaceInv, Places
  <2>6. HoldsInv'
    BY <2>3, <2>4 DEF HoldsInv
  <2>7. TableInv'
    BY <2>1, <2>3 DEF TableInv
  <2>8. CarriedInv'
    <3>1. Len(wire[sockfd[Poster]]) = Chunks - left[Poster] /\ sockfd[Poster] \in Descriptors
      BY <2>1, <2>4 DEF CarriedInv, HoldsInv
    <3>2. CASE UNCHANGED <<wire, left>>
      BY <2>1, <2>3, <3>1, <3>2 DEF CarriedInv
    <3>3. CASE SendChunk(Poster)
      <4>1. /\ wire'[sockfd[Poster]] = Append(wire[sockfd[Poster]], <<Poster, sends[Poster]>>)
            /\ left'[Poster] = left[Poster] - 1
        BY <3>1, <3>3 DEF SendChunk
      <4>2. wire[sockfd[Poster]] \in Seq(Threads \X Nat)
        BY <3>1
      <4>3. Len(wire'[sockfd[Poster]]) = Len(wire[sockfd[Poster]]) + 1
        BY <4>1, <4>2
      <4> QED BY <2>1, <2>3, <3>1, <4>1, <4>3, Constants DEF CarriedInv
    <3> QED BY <1>4, <3>2, <3>3 DEF Sending, SendLocks, SendFails
  <2> QED BY <1>1, <1>2, <2>5, <2>6, <2>7, <2>8
<1>5. CASE Sent
  <2>1. at = "sending" /\ at' = "close" /\ ~wild /\ pc'[Poster] = "idle"
    BY <1>5 DEF Sent, SendReturns
  <2>2. /\ UNCHANGED <<status, max, slot, wild, open, handles, id, sockfd, noMemory, net_handle>>
        /\ UNCHANGED <<wire, left>>
    BY <1>5 DEF Sent, SendReturns, LeavesCall
  <2>3. HasHandle /\ HasSlot /\ HasConnection /\ HasHandle' /\ HasSlot' /\ HasConnection'
    BY <2>1 DEF HasHandle, HasSlot, HasConnection
  <2>4. PlaceInv'
    BY <2>1 DEF PlaceInv, Places
  <2>5. HoldsInv'
    BY <2>2, <2>3 DEF HoldsInv
  <2>6. TableInv' /\ CarriedInv'
    BY <2>1, <2>2, <2>3 DEF TableInv, CarriedInv
  <2> QED BY <1>1, <1>2, <2>4, <2>5, <2>6
<1> QED BY <1>3, <1>4, <1>5

LEMMA StepClosing ==
  ASSUME TypeInv, PostInv, CloseCalled \/ Closing
  PROVE  PostInv'
<1> USE PosterConstants, PostShapes DEF At, Goto, Move, PostInv
<1>1. CountInv' /\ HeaderInv'
  BY DEF CountInv, HeaderInv, CloseCalled, Closing, LeavesCall
<1>2. CASE CloseCalled
  <2>1. at = "close" /\ at' = "closing" /\ ~wild
    BY <1>2 DEF CloseCalled, CloseStart
  <2>2. UNCHANGED <<table, open, proto, left, wire, noMemory>>
    BY <1>2 DEF CloseCalled, CloseStart
  <2>3. HasHandle /\ HasSlot /\ HasConnection
    BY <2>1 DEF HasHandle, HasSlot, HasConnection
  <2>4. /\ handles = {[id |-> id[Poster], sock |-> sockfd[Poster]]}
        /\ slot[id[Poster]] = [sock |-> sockfd[Poster], proto |-> "TCP"]
    BY <2>3 DEF HoldsInv
  <2>5. /\ pc'[Poster] = "clear" /\ handles' = {}
        /\ id'[Poster] = id[Poster] /\ sockfd'[Poster] = sockfd[Poster]
    <3>1. PICK h \in handles : /\ handles' = handles \ {h}
                               /\ slot[h.id].proto # "NULL" =>
                                    /\ id' = [id EXCEPT ![Poster] = h.id]
                                    /\ sockfd' = [sockfd EXCEPT ![Poster] = slot[h.id].sock]
                                    /\ pc' = [pc EXCEPT ![Poster] = "clear"]
      BY <1>2 DEF CloseCalled, CloseStart
    <3>2. h.id = id[Poster] /\ handles' = {}
      BY <2>4, <3>1
    <3>3. slot[h.id].proto = "TCP" /\ slot[h.id].sock = sockfd[Poster]
      BY <2>4, <3>2
    <3> QED BY <3>1, <3>2, <3>3
  <2>6. ~HasHandle' /\ HasSlot' /\ HasConnection'
    BY <2>1, <2>5 DEF HasHandle, HasSlot, HasConnection
  <2>7. PlaceInv'
    BY <2>1, <2>5 DEF PlaceInv, Places
  <2>8. HoldsInv'
    BY <2>2, <2>3, <2>5, <2>6 DEF HoldsInv, table
  <2>9. TableInv' /\ CarriedInv'
    BY <2>1, <2>2, <2>3, <2>5 DEF TableInv, CarriedInv, table
  <2> QED BY <1>1, <2>7, <2>8, <2>9
<1>3. CASE Closing /\ CloseClears(Poster)
  <2>1. /\ at = "closing" /\ at' = "closing" /\ ~wild
        /\ pc[Poster] = "clear" /\ pc'[Poster] = "shut"
    BY <1>3 DEF Closing, CloseClears
  <2>2. /\ slot' = [slot EXCEPT ![id[Poster]] = EmptySlot]
        /\ UNCHANGED <<status, max, wild, open, handles, id, sockfd, left, wire, noMemory>>
    BY <1>3 DEF Closing, CloseClears
  <2>3. ~HasHandle /\ HasSlot /\ HasConnection
    BY <2>1 DEF HasHandle, HasSlot, HasConnection
  <2>4. ~HasHandle' /\ ~HasSlot' /\ HasConnection'
    BY <2>1 DEF HasHandle, HasSlot, HasConnection
  <2>5. PlaceInv'
    BY <2>1 DEF PlaceInv, Places
  <2>6. HoldsInv'
    BY <2>2, <2>3, <2>4 DEF HoldsInv
  <2>7. TableInv' /\ CarriedInv'
    BY <2>1, <2>2, <2>3 DEF TableInv, CarriedInv
  <2> QED BY <1>1, <2>5, <2>6, <2>7
<1>4. CASE Closing /\ CloseReturns(Poster)
  <2>1. /\ at = "closing" /\ at' = "closing" /\ ~wild
        /\ pc[Poster] = "shut" /\ pc'[Poster] = "idle"
    BY <1>4 DEF Closing, CloseReturns
  <2>2. /\ open' = open \ {sockfd[Poster]}
        /\ UNCHANGED <<table, handles, id, sockfd, left, wire, noMemory>>
    BY <1>4 DEF Closing, CloseReturns
  <2>3. ~HasHandle /\ ~HasSlot /\ HasConnection
    BY <2>1 DEF HasHandle, HasSlot, HasConnection
  <2>4. ~HasHandle' /\ ~HasSlot' /\ ~HasConnection'
    BY <2>1 DEF HasHandle, HasSlot, HasConnection
  <2>5. PlaceInv'
    BY <2>1 DEF PlaceInv, Places
  <2>6. HoldsInv'
    BY <2>2, <2>3, <2>4 DEF HoldsInv, table
  <2>7. TableInv' /\ CarriedInv'
    BY <2>1, <2>2, <2>4 DEF TableInv, CarriedInv, table
  <2> QED BY <1>1, <2>5, <2>6, <2>7
<1> QED BY <1>2, <1>3, <1>4 DEF Closing

LEMMA StepPost == TypeInv /\ PostInv /\ [PostNext]_postVars => PostInv'
<1> SUFFICES ASSUME TypeInv, PostInv, [PostNext]_postVars PROVE PostInv'
  OBVIOUS
<1>1. CASE UNCHANGED postVars
  BY <1>1, Zenon DEF postVars, poster, vars, table, local, PostInv, PlaceInv, HoldsInv, HasHandle,
                     HasSlot, HasConnection, TableInv, CarriedInv, CountInv, HeaderInv
<1>2. CASE PostNext
  BY <1>2, StepOutside, StepOverruns, StepOpening, StepSending, StepClosing, Zenon DEF PostNext, Step
<1> QED BY <1>1, <1>2

LEMMA PostInvHolds == PostSpec => [](TypeInv /\ PostInv)
<1>1. PostInit => TypeInv /\ PostInv
  BY InitType, InitPost DEF PostInit
<1>2. TypeInv /\ PostInv /\ [PostNext]_postVars => (TypeInv /\ PostInv)'
  BY TableSteps, StepType, StepPost
<1> QED BY <1>1, <1>2, PTL DEF PostSpec

-----------------------------------------------------------------------------
(* What the invariant gives.                                               *)

\* Every attempt finds a free slot in a table of any size: the function needs
\* the table to grow only after calloc failed (network_alloc).
THEOREM AttemptsFindASlot == PostSpec => []TableSuffices
<1>1. TypeInv /\ PostInv => TableSuffices
  BY Constants DEF PostInv, TableInv, TableSuffices
<1> QED BY <1>1, PostInvHolds, PTL

\* The plain text of the header is a sequence of bytes.
LEMMA PlainTextIsBytes ==
  ASSUME PostInv, credentials.username # Null \/ credentials.password # Null
  PROVE  PlainText(credentials) \in Seq(Byte)
<1> DEFINE c == credentials
<1>1. /\ c.username = Null \/ c.username \in Seq(Byte)
      /\ c.password = Null \/ c.password \in Seq(Byte)
  BY PostAssumption DEF PostAssumption, PostInv, HeaderInv, Byte
<1>2. <<58>> \in Seq(Byte)
  BY DEF Byte
<1>3. CASE c.username = Null
  <2>1. PlainText(c) = <<58>> \o c.password
    BY <1>3, Zenon DEF PlainText
  <2> HIDE DEF c
  <2> QED BY <1>1, <1>2, <1>3, <2>1 DEF c
<1>4. CASE c.username # Null /\ c.password = Null
  <2>1. PlainText(c) = c.username
    BY <1>4, Zenon DEF PlainText
  <2> QED BY <1>1, <1>4, <2>1
<1>5. CASE c.username # Null /\ c.password # Null
  <2>1. PlainText(c) = c.username \o <<58>> \o c.password
    BY <1>5, Zenon DEF PlainText
  <2> HIDE DEF c
  <2> QED BY <1>1, <1>2, <1>5, <2>1 DEF c
<1> QED BY <1>3, <1>4, <1>5

LEMMA BufferSizes ==
  /\ PlainSize \in Nat /\ HeaderSize \in Nat /\ HeaderSize > 0
  /\ (HeaderSize - 1) \div 4 \in Nat /\ Longest \in Nat /\ Longest < PlainSize - 1
BY PostAssumption DEF PostAssumption, Longest

\* A header fits base64 if and only if the text it is made of has at most
\* Longest bytes, and such a text was not cut.
LEMMA HeaderFits ==
  ASSUME NEW text \in Seq(Byte)
  PROVE  LET header == base64_encode(Printed(text))
         IN /\ Len(header) < HeaderSize => header = base64_encode(text)
            /\ Len(header) >= HeaderSize => Len(text) > Longest
<1> DEFINE k == (HeaderSize - 1) \div 4
           n == Len(Printed(text))
<1>1. Printed(text) \in Seq(Byte) /\ n \in Nat
  <2>1. CASE Len(text) < PlainSize
    BY <2>1 DEF Printed
  <2>2. CASE Len(text) >= PlainSize
    <3>1. Printed(text) = SubSeq(text, 1, PlainSize - 1)
      BY <2>2, BufferSizes DEF Printed
    <3>2. \A i \in 1..PlainSize - 1 : i \in 1..Len(text)
      BY <2>2, BufferSizes
    <3>3. SubSeq(text, 1, PlainSize - 1) \in Seq(Byte)
      BY <2>2, <3>2, BufferSizes
    <3> QED BY <3>1, <3>3
  <2> QED BY <2>1, <2>2, BufferSizes
<1>2. Len(base64_encode(Printed(text))) = 4 * ((n + 2) \div 3)
  <2>1. 4 * ((n + 2) \div 3) \in Nat
    BY <1>1
  <2> QED BY <2>1 DEF base64_encode
<1>3. Len(text) < PlainSize => Printed(text) = text
  BY DEF Printed
<1>4. Len(text) >= PlainSize => n = PlainSize - 1
  BY BufferSizes DEF Printed
<1>5. k \in Nat /\ Longest = 3 * k /\ 4 * k < HeaderSize /\ HeaderSize <= 4 * k + 4
  BY BufferSizes DEF Longest
<1> HIDE DEF k, n
<1>6. 4 * ((n + 2) \div 3) >= HeaderSize => n > 3 * k
  BY <1>1, <1>5, BufferSizes
<1>7. n > 3 * k => 4 * ((n + 2) \div 3) >= HeaderSize
  BY <1>1, <1>5, BufferSizes
<1>8. CASE Len(text) < PlainSize
  BY <1>2, <1>3, <1>5, <1>6, <1>8 DEF n
<1>9. CASE Len(text) >= PlainSize
  BY <1>1, <1>2, <1>4, <1>5, <1>7, <1>9, BufferSizes
<1> QED BY <1>8, <1>9, BufferSizes

\* What the service decodes from a header that was sent is the whole text it
\* was made of, and only texts of more than 3 * ((HeaderSize - 1) \div 4) bytes,
\* 765 in the source, run over the end of base64 instead, before snprintf
\* cuts any (vc_authorization_base64_encode and the buffer of its caller).
THEOREM HeaderDecodes == PostSpec => []AuthorizationDecodes
<1>1. TypeInv /\ PostInv => AuthorizationDecodes
  <2> SUFFICES ASSUME PostInv PROVE AuthorizationDecodes
    OBVIOUS
  <2> DEFINE text == PlainText(credentials)
             header == vc_authorization_base64_encode(credentials)
  <2>1. CASE credentials.username = Null /\ credentials.password = Null
    <3>1. header = <<>>
      BY <2>1, Zenon DEF vc_authorization_base64_encode
    <3>2. Len(header) < HeaderSize
      BY <3>1, BufferSizes
    <3> QED BY <3>1, <3>2, BufferSizes DEF AuthorizationDecodes, PostInv, HeaderInv
  <2>2. CASE credentials.username # Null \/ credentials.password # Null
    <3>1. header = base64_encode(Printed(text))
      BY <2>2, Zenon DEF vc_authorization_base64_encode
    <3>2. text \in Seq(Byte)
      BY <2>2, PlainTextIsBytes
    <3>3. /\ Len(header) < HeaderSize => header = base64_encode(text)
          /\ Len(header) >= HeaderSize => Len(text) > Longest
      BY <3>1, <3>2, HeaderFits
    <3>4. base64_decode(base64_encode(text)) = text
      BY <3>2, RoundTrip
    <3>5. /\ at \in {"sending", "close", "closing"} =>
               authorization = header /\ Len(header) < HeaderSize
          /\ at = "overrun" => Len(header) >= HeaderSize
      BY Zenon DEF PostInv, HeaderInv
    <3> QED BY <3>3, <3>4, <3>5, Zenon DEF AuthorizationDecodes
  <2> QED BY <2>1, <2>2
<1> QED BY <1>1, PostInvHolds, PTL

-----------------------------------------------------------------------------
(* The function keeps the promise of Delivery.                             *)

\* How the function's state shows, place by place.
ShownInv ==
  /\ wild => ShownPhase = "dead" /\ ShownTries = re_cnt + 1 /\ ShownCarried = 0
  /\ HasConnection => /\ ShownPhase = IF at = "overrun" THEN "dead" ELSE "connected"
                      /\ ShownTries = re_cnt
                      /\ ShownCarried = Len(wire[sockfd[Poster]])
  /\ ~wild /\ ~HasConnection =>
       /\ ShownCarried = 0
       /\ at = "idle" => ShownPhase = IF posts = 0 THEN "idle" ELSE result
       /\ at = "closing" => ShownPhase = IF left[Poster] = 0 THEN "sent" ELSE "trying"
       /\ at \notin {"idle", "closing"} => ShownPhase = "trying"
       /\ ShownTries = IF at \in {"open", "opening"} THEN re_cnt + 1
                       ELSE IF re_cnt < 0 THEN 0 ELSE re_cnt

LEMMA Shown == TypeInv /\ PostInv => ShownInv
<1> SUFFICES ASSUME TypeInv, PostInv PROVE ShownInv
  OBVIOUS
<1>1. Connected <=> HasConnection
  BY DEF PostInv, HoldsInv, Connected
<1>2. HasConnection => ~wild /\ at # "idle" /\ at # "open" /\ open = {sockfd[Poster]}
  BY DEF PostInv, HoldsInv, HasConnection, HasSlot, HasHandle, TableInv
<1>3. HasConnection => (CHOOSE d \in open : TRUE) = sockfd[Poster]
  BY <1>2
<1>4. wild => ~HasConnection /\ at = "opening"
  BY <1>2 DEF PostInv, TableInv
<1>5. at # "idle" => re_cnt \in Int /\ ~(re_cnt < 0)
  BY DEF PostInv, CountInv
<1>6. wild => ShownPhase = "dead" /\ ShownTries = re_cnt + 1 /\ ShownCarried = 0
  BY <1>1, <1>4, Zenon DEF ShownPhase, Dead, ShownTries, ShownCarried
<1>7. HasConnection => /\ ShownPhase = IF at = "overrun" THEN "dead" ELSE "connected"
                       /\ ShownTries = re_cnt
                       /\ ShownCarried = Len(wire[sockfd[Poster]])
  BY <1>1, <1>2, <1>3, <1>5, Zenon DEF ShownPhase, Dead, ShownTries, ShownCarried
<1>8. ASSUME ~wild, ~HasConnection
      PROVE  /\ ShownCarried = 0
             /\ at = "idle" => ShownPhase = IF posts = 0 THEN "idle" ELSE result
             /\ at = "closing" =>
                  ShownPhase = IF left[Poster] = 0 THEN "sent" ELSE "trying"
             /\ at \notin {"idle", "closing"} => ShownPhase = "trying"
             /\ ShownTries = IF at \in {"open", "opening"} THEN re_cnt + 1
                             ELSE IF re_cnt < 0 THEN 0 ELSE re_cnt
  <2>1. at # "overrun"
    BY <1>8 DEF HasConnection, HasSlot, HasHandle
  <2> QED BY <1>1, <1>8, <2>1 DEF ShownPhase, Dead, ShownTries, ShownCarried
<1> QED BY <1>6, <1>7, <1>8 DEF ShownInv

LEMMA InitShown == PostInit => Promise!Init
BY DEF PostInit, Init, Promise!Init, ShownPhase, Dead, ShownTries, ShownCarried, Connected

\* A step that shows nothing.
Hidden == UNCHANGED <<ShownPhase, ShownTries, ShownCarried>>

LEMMA ShownOutside ==
  ASSUME TypeInv, PostInv, ShownInv, PostInv', ShownInv',
         \/ \E c \in Credentials : PostCalled(c)
         \/ GivesUp \/ TriesAgain \/ Closed
  PROVE  Promise!Next \/ Hidden
<1> USE PosterConstants, PostShapes DEF Move, vars, table, local
<1>1. UNCHANGED vars
  BY DEF PostCalled, GivesUp, TriesAgain, Closed
<1>2. ~HasConnection /\ ~wild /\ ~HasConnection' /\ ~wild'
  BY <1>1 DEF PostCalled, GivesUp, TriesAgain, Closed, HasHandle, HasSlot, HasConnection,
              PostInv, PlaceInv, TableInv
<1>3. CASE \E c \in Credentials : PostCalled(c)
  <2>1. at = "idle" /\ at' = "redo" /\ re_cnt' = Tries
    BY <1>3 DEF PostCalled
  <2>2. ShownPhase \in {"idle", "sent", "gaveUp"} /\ ShownPhase' = "trying"
    BY <1>2, <2>1 DEF ShownInv, PostInv, CountInv
  <2>3. ShownTries' = Tries /\ ShownCarried' = 0
    BY <1>2, <2>1 DEF ShownInv
  <2> QED BY <2>2, <2>3, Zenon DEF Promise!Next, Promise!Begin
<1>4. CASE GivesUp
  <2>1. at = "redo" /\ at' = "idle" /\ re_cnt <= 0 /\ re_cnt' = re_cnt - 1
    BY <1>4 DEF GivesUp
  <2>2. re_cnt = 0 /\ posts > 0 /\ posts' = posts /\ result' = "gaveUp" /\ posts \in Nat
    BY <1>4, <2>1 DEF GivesUp, PostInv, CountInv
  <2>3. ShownPhase = "trying" /\ ShownTries = 0 /\ ShownCarried = 0
    BY <1>2, <2>1, <2>2 DEF ShownInv
  <2>4. ShownPhase' = "gaveUp" /\ ShownTries' = 0 /\ ShownCarried' = 0
    BY <1>2, <2>1, <2>2 DEF ShownInv
  <2> QED BY <2>3, <2>4 DEF Promise!Next, Promise!GiveUp
<1>5. CASE TriesAgain
  <2>1. at = "redo" /\ at' = "open" /\ re_cnt > 0 /\ re_cnt' = re_cnt - 1 /\ re_cnt \in Int
    BY <1>5 DEF TriesAgain, PostInv, CountInv
  <2>2. ShownPhase = "trying" /\ ShownTries = re_cnt /\ ShownCarried = 0
    BY <1>2, <2>1 DEF ShownInv
  <2>3. ShownPhase' = "trying" /\ ShownTries' = re_cnt /\ ShownCarried' = 0
    BY <1>2, <2>1 DEF ShownInv
  <2> QED BY <2>2, <2>3 DEF Hidden
<1>6. CASE Closed
  <2>1. at = "closing" /\ at' = IF left[Poster] = 0 THEN "idle" ELSE "redo"
    BY <1>6 DEF Closed
  <2>2. /\ re_cnt' = re_cnt /\ posts' = posts /\ left' = left
        /\ result' = IF left[Poster] = 0 THEN "sent" ELSE result
    BY <1>6 DEF Closed
  <2>3. re_cnt \in Int /\ re_cnt >= 0 /\ posts > 0 /\ posts \in Nat
    BY <2>1 DEF PostInv, CountInv
  <2>4. /\ ShownPhase = IF left[Poster] = 0 THEN "sent" ELSE "trying"
        /\ ShownTries = re_cnt /\ ShownCarried = 0
    BY <1>2, <2>1, <2>3 DEF ShownInv
  <2>5. /\ ShownPhase' = IF left[Poster] = 0 THEN "sent" ELSE "trying"
        /\ ShownTries' = re_cnt /\ ShownCarried' = 0
    BY <1>2, <2>1, <2>2, <2>3 DEF ShownInv
  <2> QED BY <2>4, <2>5 DEF Hidden
<1> QED BY <1>3, <1>4, <1>5, <1>6

LEMMA ShownOpening ==
  ASSUME TypeInv, PostInv, ShownInv, TypeInv', PostInv', ShownInv',
         OpenCalled \/ Opening \/ OpenFailed \/ Opened
  PROVE  Promise!Next \/ Hidden
<1> USE PosterConstants, PostShapes DEF At, Goto, Move
<1>1. re_cnt' = re_cnt /\ re_cnt \in Int /\ re_cnt >= 0
  BY DEF OpenCalled, Opening, OpenFailed, Opened, LeavesCall, PostInv, CountInv
<1>2. CASE OpenCalled
  <2>1. at = "open" /\ at' = "opening" /\ ~wild /\ pc'[Poster] = "connect"
    BY <1>2 DEF OpenCalled, OpenStart
  <2>2. ~HasConnection /\ ~HasConnection'
    BY <2>1 DEF HasHandle, HasSlot, HasConnection
  <2>3. ShownPhase = "trying" /\ ShownTries = re_cnt + 1 /\ ShownCarried = 0
    BY <2>1, <2>2 DEF ShownInv
  <2>4. CASE wild'
    <3>1. ShownPhase' = "dead" /\ ShownTries' = re_cnt + 1 /\ ShownCarried' = 0
      BY <1>1, <2>4 DEF ShownInv
    <3> QED BY <1>1, <2>3, <3>1 DEF Promise!Next, Promise!Die
  <2>5. CASE ~wild'
    <3>1. ShownPhase' = "trying" /\ ShownTries' = re_cnt + 1 /\ ShownCarried' = 0
      BY <1>1, <2>1, <2>2, <2>5 DEF ShownInv
    <3> QED BY <2>3, <3>1 DEF Hidden
  <2> QED BY <2>4, <2>5
<1>3. CASE Opening
  <2>1. /\ at = "opening" /\ at' = "opening" /\ ~wild
        /\ pc[Poster] = "connect" /\ pc'[Poster] = "store"
    BY <1>3 DEF Opening, Connect
  <2>2. ~HasConnection /\ HasConnection'
    BY <2>1 DEF HasHandle, HasSlot, HasConnection
  <2>3. ShownPhase = "trying" /\ ShownTries = re_cnt + 1
    BY <2>1, <2>2 DEF ShownInv
  <2>4. ShownPhase' = "connected" /\ ShownTries' = re_cnt /\ ShownCarried' = 0
    BY <1>1, <2>1, <2>2 DEF ShownInv, PostInv, CarriedInv
  <2> QED BY <1>1, <2>3, <2>4 DEF Promise!Next, Promise!Connect
<1>4. CASE OpenFailed
  <2>1. at \in {"open", "opening"} /\ at' = "redo" /\ ~wild /\ ~wild'
    BY <1>4 DEF OpenFailed, OpenNoMemory, AllocFails, ConnectFails, table
  <2>2. ~HasConnection /\ ~HasConnection'
    BY <1>4, <2>1 DEF OpenFailed, ConnectFails, HasHandle, HasSlot, HasConnection
  <2>3. ShownPhase = "trying" /\ ShownTries = re_cnt + 1 /\ ShownCarried = 0
    BY <2>1, <2>2 DEF ShownInv
  <2>4. ShownPhase' = "trying" /\ ShownTries' = re_cnt /\ ShownCarried' = 0
    BY <1>1, <2>1, <2>2 DEF ShownInv
  <2> QED BY <1>1, <2>3, <2>4 DEF Promise!Next, Promise!Refused
<1>5. CASE Opened
  <2>1. /\ at = "opening" /\ at' = "send" /\ pc[Poster] = "store"
        /\ sockfd' = sockfd /\ wire' = wire
    BY <1>5 DEF Opened, OpenReturns
  <2>2. HasConnection /\ HasConnection'
    BY <2>1 DEF HasHandle, HasSlot, HasConnection
  <2> QED BY <1>1, <2>1, <2>2 DEF ShownInv, Hidden
<1> QED BY <1>2, <1>3, <1>4, <1>5

LEMMA ShownSending ==
  ASSUME TypeInv, PostInv, ShownInv, TypeInv', PostInv', ShownInv',
         SendCalled \/ Sending \/ Sent
  PROVE  Promise!Next \/ Hidden
<1> USE PosterConstants, PostShapes DEF At, Goto, Move
<1>1. re_cnt' = re_cnt
  BY DEF SendCalled, Sending, Sent, LeavesCall
<1>2. at \in {"send", "sending"} /\ at' \in {"sending", "close"}
  BY DEF SendCalled, Sending, Sent
<1>3. HasConnection /\ HasConnection'
  BY <1>2 DEF HasHandle, HasSlot, HasConnection
<1>4. /\ ShownPhase = "connected" /\ ShownPhase' = "connected" /\ ShownTries' = ShownTries
      /\ ShownCarried = Len(wire[sockfd[Poster]])
      /\ ShownCarried' = Len(wire'[sockfd'[Poster]])
  BY <1>1, <1>2, <1>3 DEF ShownInv
<1>5. CASE SendChunk(Poster) /\ Sending
  <2>1. at = "sending" /\ at' = "sending" /\ left[Poster] > 0 /\ left'[Poster] = left[Poster] - 1
    BY <1>5 DEF Sending, SendChunk
  <2>2. ShownCarried = Chunks - left[Poster] /\ ShownCarried' = Chunks - left'[Poster]
    BY <1>3, <1>4, <2>1 DEF PostInv, CarriedInv
  <2>3. ShownCarried < Chunks /\ ShownCarried' = ShownCarried + 1
    BY <2>1, <2>2, Constants
  <2> QED BY <1>4, <2>3 DEF Promise!Next, Promise!Carry
<1>6. CASE SendCalled
  <2>1. at = "send" /\ at' = "sending" /\ left'[Poster] = Chunks
    BY <1>6 DEF SendCalled, SendStart
  <2>2. ShownCarried = 0 /\ ShownCarried' = 0
    BY <1>3, <1>4, <2>1, Constants DEF PostInv, CarriedInv
  <2> QED BY <1>4, <2>2 DEF Hidden
<1>7. CASE ~SendCalled /\ ~SendChunk(Poster)
  <2>1. UNCHANGED <<sockfd, wire>>
    BY <1>7 DEF Sending, Sent, SendLocks, SendFails, SendReturns
  <2> QED BY <1>4, <2>1 DEF Hidden
<1>8. SendChunk(Poster) => ~Sent
  BY DEF SendChunk, Sent, SendReturns
<1> QED BY <1>5, <1>6, <1>7, <1>8

\* The attempt dies before a piece of the request has left.
LEMMA ShownOverruns ==
  ASSUME TypeInv, PostInv, ShownInv, TypeInv', PostInv', ShownInv', SendOverruns
  PROVE  Promise!Next \/ Hidden
<1> USE PosterConstants, PostShapes DEF Move
<1>1. at = "send" /\ at' = "overrun" /\ re_cnt' = re_cnt
  BY DEF SendOverruns
<1>2. HasConnection /\ HasConnection'
  BY <1>1 DEF HasHandle, HasSlot, HasConnection
<1>3. ShownPhase = "connected" /\ ShownTries = re_cnt /\ ShownCarried = 0
  BY <1>1, <1>2 DEF ShownInv, PostInv, CarriedInv
<1>4. ShownPhase' = "dead" /\ ShownTries' = re_cnt /\ ShownCarried' = 0
  BY <1>1, <1>2 DEF ShownInv, PostInv, CarriedInv
<1> QED BY <1>3, <1>4 DEF Promise!Next, Promise!Die

LEMMA ShownClosing ==
  ASSUME TypeInv, PostInv, ShownInv, TypeInv', PostInv', ShownInv', CloseCalled \/ Closing
  PROVE  Promise!Next \/ Hidden
<1> USE PosterConstants, PostShapes DEF At, Goto, Move
<1>1. re_cnt' = re_cnt /\ re_cnt \in Int /\ re_cnt >= 0
  BY DEF CloseCalled, Closing, LeavesCall, PostInv, CountInv
<1>2. left' = left /\ at' = "closing" /\ ~wild
  BY DEF CloseCalled, CloseStart, Closing, CloseClears, CloseReturns
<1>3. CASE CloseCalled
  <2>1. at = "close"
    BY <1>3 DEF CloseCalled
  <2>2. HasConnection
    BY <2>1 DEF HasHandle, HasSlot, HasConnection
  <2>3. HasConnection'
    <3>1. open # {} /\ open' = open
      BY <1>3, <2>2 DEF CloseCalled, CloseStart, PostInv, HoldsInv
    <3> QED BY <3>1 DEF PostInv, HoldsInv
  <2>4. ShownCarried = Chunks - left[Poster] /\ ShownCarried' = Chunks - left'[Poster]
    BY <1>2, <2>1, <2>2, <2>3 DEF ShownInv, PostInv, CarriedInv
  <2> QED BY <1>1, <1>2, <2>1, <2>2, <2>3, <2>4 DEF ShownInv, Hidden
<1>4. CASE CloseClears(Poster) /\ Closing
  <2>1. /\ at = "closing" /\ pc[Poster] = "clear" /\ pc'[Poster] = "shut"
        /\ sockfd' = sockfd /\ wire' = wire
    BY <1>4 DEF Closing, CloseClears
  <2>2. HasConnection /\ HasConnection'
    BY <1>2, <2>1 DEF HasHandle, HasSlot, HasConnection
  <2> QED BY <1>1, <1>2, <2>1, <2>2 DEF ShownInv, Hidden
<1>5. CASE CloseReturns(Poster) /\ Closing
  <2>1. at = "closing" /\ pc[Poster] = "shut" /\ pc'[Poster] = "idle" /\ wild' = wild
    BY <1>5 DEF Closing, CloseReturns, table
  <2>2. HasConnection /\ ~HasConnection'
    BY <1>2, <2>1 DEF HasHandle, HasSlot, HasConnection
  <2>3. ShownPhase = "connected" /\ ShownTries = re_cnt /\ ShownCarried = Chunks - left[Poster]
    BY <2>1, <2>2 DEF ShownInv, PostInv, CarriedInv
  <2>4. /\ ShownPhase' = IF left[Poster] = 0 THEN "sent" ELSE "trying"
        /\ ShownTries' = re_cnt /\ ShownCarried' = 0
    BY <1>1, <1>2, <2>1, <2>2 DEF ShownInv
  <2>5. left[Poster] = 0 <=> ShownCarried = Chunks
    BY <2>3, Constants
  <2> QED BY <2>3, <2>4, <2>5 DEF Promise!Next, Promise!Disconnect
<1> QED BY <1>3, <1>4, <1>5 DEF Closing

LEMMA StepShown ==
  TypeInv /\ PostInv /\ ShownInv /\ (TypeInv /\ PostInv /\ ShownInv)' /\ [PostNext]_postVars
    => [Promise!Next]_Promise!vars
<1> SUFFICES ASSUME TypeInv, PostInv, ShownInv, TypeInv', PostInv', ShownInv',
                    [PostNext]_postVars
             PROVE  Promise!Next \/ Hidden
  BY DEF Hidden, Promise!vars
<1>1. CASE UNCHANGED postVars
  <2>1. UNCHANGED <<at, re_cnt, posts, result, wild, open, left, wire>>
    BY <1>1 DEF postVars, poster, vars, table, local
  <2>2. ShownCarried' = ShownCarried
    BY <2>1 DEF ShownCarried, Connected
  <2> QED BY <2>1, <2>2 DEF Hidden, ShownPhase, Dead, ShownTries, Connected
<1>2. CASE PostNext
  BY <1>2, ShownOutside, ShownOpening, ShownSending, ShownOverruns, ShownClosing, Zenon DEF PostNext, Step
<1> QED BY <1>1, <1>2

\* Whatever connects, pieces and allocations fail, the function never uses two
\* connections at once nor makes one attempt too many, and it says "sent" only
\* after all pieces of the request left on one connection: the part of
\* DeliversOrGivesUp that is safety (set_Interaction_netparam_by_net).
THEOREM PostKeepsPromise == PostSpec => Promise!Spec
<1>1. TypeInv /\ PostInv => ShownInv
  BY Shown
<1> QED BY <1>1, InitShown, StepShown, PostInvHolds, PTL DEF PostSpec, Promise!Spec
=============================================================================
