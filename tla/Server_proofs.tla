--------------------------- MODULE Server_proofs ---------------------------
(***************************************************************************)
(* The safety properties of Server for any number of servers, clients and  *)
(* descriptors: sessions and descriptors are what they should be until a   *)
(* listener overtakes a session that has not read its socket, or a thread  *)
(* uses a block that was freed.  The second needs a second connection.     *)
(***************************************************************************)
EXTENDS Server, TLAPS

Numbers == Descriptors \cup {None}

Uses == [kind : {"free", "unbound", "listen", "datagram", "client"}, of : Nat]
BlockStates == [live : BOOLEAN, sock : Numbers]
Calls == [step : {"idle", "socket", "bind", "thread", "store"},
          proto : {"NULL", "TCP", "UDP", "BROADCAST", "MULTICAST"}, sock : Numbers]
ServerThreads == [step : {"none", "accept", "spawn", "callback", "done"},
                  sock : Numbers, client : Numbers, number : Clients \cup {None}]
SessionSteps == {"none", "start", "callback", "free", "done"}
SessionThreads == [step : SessionSteps,
                   block : Blocks \cup {None}, client : Numbers, got : Numbers]

UseType == use \in [Descriptors -> Uses]
BlockType == block \in [Blocks -> BlockStates]
CallerType ==
  /\ caller \in Calls
  /\ opens \in 0..MaxOpens
  /\ caller.step # "idle" => opens > 0
  /\ IF caller.step \in {"idle", "socket"} THEN caller.sock = None
                                           ELSE caller.sock \in Descriptors
HandlesType == handles \subseteq [of : Blocks, sock : Descriptors]
ServerType ==
  /\ server \in [Blocks -> ServerThreads]
  /\ \A b \in Blocks : server[b].step = "spawn" => /\ server[b].number \in Clients
                                                   /\ server[b].client \in Descriptors
SessionType ==
  /\ session \in [Clients -> SessionThreads]
  /\ clients \in 0..MaxClients
  /\ \A n \in Clients : session[n].step # "none" => session[n].block \in Blocks
FlagsType == shared \in BOOLEAN /\ overtaken \in BOOLEAN /\ stray \in BOOLEAN

TypeOK ==
  UseType /\ BlockType /\ CallerType /\ HandlesType /\ ServerType /\ SessionType /\ FlagsType

\* The open under way has its socket to itself and its block has no thread yet.
CallerInv ==
  /\ \A b \in Blocks : b > opens => server[b].step = "none"
  /\ caller.step \in {"socket", "bind", "thread"} => server[opens].step = "none"
  /\ caller.step = "bind" => use[caller.sock] = [kind |-> "unbound", of |-> opens]
  /\ caller.step \in {"thread", "store"} =>
       use[caller.sock] \in {Listening(opens), Datagrams(opens)}
  /\ caller.step = "thread" => block[opens] = [live |-> TRUE, sock |-> caller.sock]

\* The socket of a handle is the one made for it.
HandlesInv ==
  \A h \in handles : /\ use[h.sock] \in {Listening(h.of), Datagrams(h.of)}
                     /\ h.of <= opens
                     /\ caller.step # "idle" => h.of < opens

\* A listener that is about to start a session has its socket in the block, and
\* no other session is about to read it there.
ListenersInv ==
  \A b \in Blocks :
    /\ server[b].step = "spawn" =>
         /\ server[b].number <= clients
         /\ session[server[b].number].step = "none"
         /\ use[server[b].client] = Connection(server[b].number)
         /\ block[b].sock = server[b].client
         /\ \A c \in Blocks : server[c].step = "spawn" /\ server[c].number = server[b].number
                                => c = b
         /\ \A n \in Clients : session[n].step = "start" => session[n].block # b

\* A session finds its own connection in the block, of which one session at a
\* time has still to read it.
SessionsInv ==
  \A n \in Clients :
    /\ session[n].step = "none" => session[n].block = None
    /\ session[n].step # "none" =>
         /\ n <= clients
         /\ session[n].block \in Blocks
         /\ server[session[n].block].step \in {"accept", "spawn", "done"}
    /\ session[n].step \in {"start", "callback"} =>
         session[n].client \in Descriptors /\ use[session[n].client] = Connection(n)
    /\ session[n].step = "start" =>
         /\ block[session[n].block].sock = session[n].client
         /\ \A m \in Clients : session[m].step = "start" /\ session[m].block = session[n].block
                                 => m = n
    /\ session[n].step = "callback" => session[n].got = session[n].client

\* Who will close descriptor d.
Owned(d) ==
  \/ d = caller.sock
  \/ \E h \in handles : d = h.sock
  \/ \E b \in Blocks : server[b].step = "spawn" /\ d = server[b].client
  \/ \E n \in Clients : session[n].step \in {"start", "callback"} /\ d = session[n].client

OwnersInv == \A d \in Descriptors : use[d] # Free => Owned(d)

Good == CallerInv /\ HandlesInv /\ ListenersInv /\ SessionsInv /\ OwnersInv

\* A listener without a session, and a session that has its listener's block to
\* itself: the block is not free.
ListenersAlone ==
  \A b \in Blocks :
    /\ server[b].step = "spawn" => block[b].live /\ \A n \in Clients : session[n].block # b
    /\ server[b].step = "callback" => block[b].live
    /\ server[b].step = "accept" /\ (\A n \in Clients : session[n].block # b) => block[b].live

SessionsAlone ==
  \A n \in Clients : session[n].step # "none" =>
    /\ \A m \in Clients : session[m].block = session[n].block => m = n
    /\ session[n].step \in {"start", "callback", "free"} => block[session[n].block].live

Alone == ListenersAlone /\ SessionsAlone

SeparateInv ==
  /\ overtaken => shared
  /\ ~overtaken /\ ~stray => Good
  /\ ~shared => ~stray /\ Alone

-----------------------------------------------------------------------------
(* Types.                                                                  *)

LEMMA Constants ==
  /\ Protocols \subseteq {"TCP", "UDP", "BROADCAST", "MULTICAST"}
  /\ Descriptors \subseteq Nat \ {0} /\ MaxOpens \in Nat /\ MaxClients \in Nat
BY ServerAssumption DEF ServerAssumption

\* None is no descriptor, no block and no client.
LEMMA NoneIsNothing ==
  /\ None \notin Descriptors /\ None \notin Blocks /\ None \notin Clients
  /\ \A b \in Blocks : b \in Nat
  /\ \A n \in Clients : n \in Nat
BY Constants DEF None, Blocks, Clients

LEMMA ServerDone ==
  ASSUME ServerType, NEW b \in Blocks, server' = [server EXCEPT ![b].step = "done"]
  PROVE  /\ ServerType'
         /\ server'[b].step = "done"
         /\ \A c \in Blocks : c # b => server'[c] = server[c]
<1>1. server[b] \in ServerThreads
  BY DEF ServerType
<1>2. [server[b] EXCEPT !.step = "done"] \in ServerThreads
  BY <1>1 DEF ServerThreads
<1>3. server' = [server EXCEPT ![b] = [server[b] EXCEPT !.step = "done"]]
  BY Zenon
<1>4. server'[b] = [server[b] EXCEPT !.step = "done"]
  BY <1>3 DEF ServerType
<1>5. server'[b].step = "done"
  BY <1>1, <1>4 DEF ServerThreads
<1>6. server' \in [Blocks -> ServerThreads] /\ \A c \in Blocks : c # b => server'[c] = server[c]
  BY <1>2, <1>3 DEF ServerType
<1>7. \A c \in Blocks : server'[c].step = "spawn" => c # b
  BY <1>5
<1> QED BY <1>5, <1>6, <1>7 DEF ServerType

LEMMA SessionMoves ==
  ASSUME SessionType, clients' = clients, NEW n \in Clients, session[n].step # "none",
         NEW step \in SessionSteps,
         session' = [session EXCEPT ![n].step = step]
  PROVE  /\ SessionType'
         /\ session'[n].step = step /\ session'[n].got = session[n].got
         /\ session'[n].block = session[n].block /\ session'[n].client = session[n].client
         /\ \A m \in Clients : m # n => session'[m] = session[m]
<1>1. session[n] \in SessionThreads
  BY DEF SessionType
<1> DEFINE new == [session[n] EXCEPT !.step = step]
<1>2. /\ new \in SessionThreads /\ new.step = step /\ new.got = session[n].got
      /\ new.block = session[n].block /\ new.client = session[n].client
  BY <1>1 DEF SessionThreads, SessionSteps
<1>3. session'[n] = new /\ \A m \in Clients : m # n => session'[m] = session[m]
  BY DEF SessionType
<1>4. session' = [session EXCEPT ![n] = new]
  BY DEF SessionType
<1> HIDE DEF new
<1>5. session' \in [Clients -> SessionThreads]
  BY <1>2, <1>4 DEF SessionType
<1> QED BY <1>2, <1>3, <1>5 DEF SessionType

LEMMA SessionCalled ==
  ASSUME SessionType, clients' = clients, NEW n \in Clients, session[n].step # "none",
         NEW got \in Numbers, NEW step \in SessionSteps,
         session' = [session EXCEPT ![n].step = step, ![n].got = got]
  PROVE  /\ SessionType'
         /\ session'[n].step = step /\ session'[n].got = got
         /\ session'[n].block = session[n].block /\ session'[n].client = session[n].client
         /\ \A m \in Clients : m # n => session'[m] = session[m]
<1>1. session[n] \in SessionThreads
  BY DEF SessionType
<1> DEFINE new == [session[n] EXCEPT !.step = step, !.got = got]
<1>2. /\ new \in SessionThreads /\ new.step = step /\ new.got = got
      /\ new.block = session[n].block /\ new.client = session[n].client
  BY <1>1 DEF SessionThreads, SessionSteps
<1>3. session'[n] = new /\ \A m \in Clients : m # n => session'[m] = session[m]
  BY DEF SessionType
<1>4. session' = [session EXCEPT ![n] = new]
  BY DEF SessionType
<1> HIDE DEF new
<1>5. session' \in [Clients -> SessionThreads]
  BY <1>2, <1>4 DEF SessionType
<1> QED BY <1>2, <1>3, <1>5 DEF SessionType

LEMMA InitType == Init => TypeOK
<1> SUFFICES ASSUME Init PROVE TypeOK
  OBVIOUS
<1>1. UseType
  BY DEF Init, UseType, Uses, Free, None
<1>2. BlockType
  BY DEF Init, BlockType, BlockStates, Numbers
<1>3. CallerType /\ HandlesType
  BY Constants DEF Init, CallerType, Calls, Idle, Numbers, HandlesType
<1>4. ServerType
  BY DEF Init, ServerType, ServerThreads, NoServer, Numbers
<1>5. NoSession \in SessionThreads
  BY DEF NoSession, SessionThreads, SessionSteps, Numbers
<1>6. SessionType
  BY <1>5, Constants DEF Init, SessionType, NoSession
<1>7. FlagsType
  BY DEF Init, FlagsType
<1> QED BY <1>1, <1>2, <1>3, <1>4, <1>6, <1>7 DEF TypeOK

LEMMA StepType == TypeOK /\ [Next]_vars => TypeOK'
<1> SUFFICES ASSUME TypeOK, [Next]_vars PROVE TypeOK'
  OBVIOUS
<1> USE DEF TypeOK
<1>1. ASSUME NEW p \in Protocols, OpenStart(p) PROVE TypeOK'
  <2>1. BlockType'
    BY <1>1, Constants DEF OpenStart, CallerAt, BlockType, BlockStates, Numbers, Blocks, CallerType
  <2>2. CallerType'
    BY <1>1, Constants DEF OpenStart, CallerAt, CallerType, Calls, Idle, Numbers, None
  <2>3. UseType' /\ HandlesType' /\ ServerType' /\ SessionType' /\ FlagsType'
    BY <1>1 DEF OpenStart, threads, opener, UseType, HandlesType, ServerType, SessionType, FlagsType
  <2> QED BY <2>1, <2>2, <2>3
<1>2. ASSUME OpenFails PROVE TypeOK'
  <2>1. BlockType'
    BY <1>2, Constants DEF OpenFails, CallerAt, BlockType, BlockStates, Numbers, Blocks, CallerType
  <2>2. CallerType'
    BY <1>2, Constants DEF OpenFails, CallerAt, CallerType, Calls, Idle, Numbers, None
  <2>3. UseType' /\ HandlesType' /\ ServerType' /\ SessionType' /\ FlagsType'
    BY <1>2 DEF OpenFails, threads, opener, UseType, HandlesType, ServerType, SessionType, FlagsType
  <2> QED BY <2>1, <2>2, <2>3
<1>3. ASSUME MakeSocket PROVE TypeOK'
  <2>1. UseType'
    BY <1>3, Constants DEF MakeSocket, CallerAt, UseType, Uses, Free, Listening, Datagrams, Connection, None, Blocks, CallerType
  <2>2. CallerType'
    BY <1>3, Constants DEF MakeSocket, CallerAt, CallerType, Calls, Idle, Numbers, None
  <2>3. BlockType' /\ HandlesType' /\ ServerType' /\ SessionType' /\ FlagsType'
    BY <1>3 DEF MakeSocket, threads, opener, BlockType, HandlesType, ServerType, SessionType, FlagsType
  <2> QED BY <2>1, <2>2, <2>3
<1>4. ASSUME BindFails PROVE TypeOK'
  <2>1. UseType'
    BY <1>4, Constants DEF BindFails, CallerAt, UseType, Uses, Free, Listening, Datagrams, Connection, None, Blocks, CallerType
  <2>2. CallerType'
    BY <1>4, Constants DEF BindFails, CallerAt, CallerType, Calls, Idle, Numbers, None
  <2>3. BlockType' /\ HandlesType' /\ ServerType' /\ SessionType' /\ FlagsType'
    BY <1>4 DEF BindFails, threads, opener, BlockType, HandlesType, ServerType, SessionType, FlagsType
  <2> QED BY <2>1, <2>2, <2>3
<1>5. ASSUME Bind PROVE TypeOK'
  <2>1. UseType'
    BY <1>5, Constants DEF Bind, CallerAt, UseType, Uses, Free, Listening, Datagrams, Connection, None, Blocks, CallerType
  <2>2. BlockType'
    BY <1>5, Constants DEF Bind, CallerAt, BlockType, BlockStates, Numbers, Blocks, CallerType
  <2>3. CallerType'
    BY <1>5, Constants DEF Bind, CallerAt, CallerType, Calls, Idle, Numbers, None
  <2>4. HandlesType' /\ ServerType' /\ SessionType' /\ FlagsType'
    BY <1>5 DEF Bind, threads, opener, HandlesType, ServerType, SessionType, FlagsType
  <2> QED BY <2>1, <2>2, <2>3, <2>4
<1>6. ASSUME ThreadFails PROVE TypeOK'
  <2>1. UseType'
    BY <1>6, Constants DEF ThreadFails, CallerAt, UseType, Uses, Free, Listening, Datagrams, Connection, None, Blocks, CallerType
  <2>2. BlockType'
    BY <1>6, Constants DEF ThreadFails, CallerAt, BlockType, BlockStates, Numbers, Blocks, CallerType
  <2>3. CallerType'
    BY <1>6, Constants DEF ThreadFails, CallerAt, CallerType, Calls, Idle, Numbers, None
  <2>4. HandlesType' /\ ServerType' /\ SessionType' /\ FlagsType'
    BY <1>6 DEF ThreadFails, threads, opener, HandlesType, ServerType, SessionType, FlagsType
  <2> QED BY <2>1, <2>2, <2>3, <2>4
<1>7. ASSUME ThreadStarts PROVE TypeOK'
  <2>1. CallerType'
    BY <1>7, Constants DEF ThreadStarts, CallerAt, CallerType, Calls, Idle, Numbers, None
  <2>2. ServerType'
    BY <1>7, Constants DEF ThreadStarts, CallerAt, ServerType, ServerThreads, Numbers, Clients, None, Blocks, BlockType, BlockStates, CallerType
  <2>3. UseType' /\ BlockType' /\ HandlesType' /\ SessionType' /\ FlagsType'
    BY <1>7 DEF ThreadStarts, threads, opener, UseType, BlockType, HandlesType, SessionType, FlagsType
  <2> QED BY <2>1, <2>2, <2>3
<1>8. ASSUME OpenReturns PROVE TypeOK'
  <2>1. CallerType'
    BY <1>8, Constants DEF OpenReturns, CallerAt, CallerType, Calls, Idle, Numbers, None
  <2>2. HandlesType'
    BY <1>8, Constants DEF OpenReturns, CallerAt, HandlesType, Blocks, CallerType
  <2>3. UseType' /\ BlockType' /\ ServerType' /\ SessionType' /\ FlagsType'
    BY <1>8 DEF OpenReturns, threads, opener, UseType, BlockType, ServerType, SessionType, FlagsType
  <2> QED BY <2>1, <2>2, <2>3
<1>9. ASSUME Close PROVE TypeOK'
  <2>1. UseType'
    <3>1. PICK h \in handles : use' = [use EXCEPT ![h.sock] = Free]
      BY <1>9 DEF Close
    <3> QED BY <3>1 DEF UseType, Uses, Free, None
  <2>2. HandlesType'
    BY <1>9, Constants DEF Close, CallerAt, HandlesType, Blocks, CallerType
  <2>3. BlockType' /\ CallerType' /\ ServerType' /\ SessionType' /\ FlagsType'
    BY <1>9 DEF Close, threads, opener, BlockType, CallerType, ServerType, SessionType, FlagsType
  <2> QED BY <2>1, <2>2, <2>3
<1>10. ASSUME NEW b \in Blocks, Accept(b) PROVE TypeOK'
  <2>1. UseType'
    BY <1>10, Constants DEF Accept, ServerAt, UseType, Uses, Free, Listening, Datagrams, Connection, None, Blocks, SessionType, ServerType
  <2>2. BlockType'
    <3>1. PICK d \in Descriptors : block' = [block EXCEPT ![b].sock = d]
      BY <1>10 DEF Accept
    <3> QED BY <3>1 DEF BlockType, BlockStates, Numbers
  <2>3. ServerType'
    BY <1>10, Constants DEF Accept, ServerAt, ServerType, ServerThreads, Numbers, Clients, None, Blocks, BlockType, BlockStates, SessionType
  <2>4. SessionType'
    BY <1>10, Constants DEF Accept, ServerAt, SessionType, SessionThreads, Numbers, ServerType, ServerThreads, BlockType, BlockStates
  <2>5. FlagsType'
    BY <1>10, Constants DEF Accept, ServerAt, FlagsType, BlockType, BlockStates
  <2>6. CallerType' /\ HandlesType'
    BY <1>10 DEF Accept, threads, opener, CallerType, HandlesType
  <2> QED BY <2>1, <2>2, <2>3, <2>4, <2>5, <2>6
<1>11. ASSUME NEW b \in Blocks, AcceptRefused(b) PROVE TypeOK'
  <2>1. ServerType'
    BY <1>11, ServerDone DEF AcceptRefused
  <2>2. UseType' /\ BlockType' /\ CallerType' /\ HandlesType' /\ SessionType' /\ FlagsType'
    BY <1>11 DEF AcceptRefused, threads, opener, UseType, BlockType, CallerType, HandlesType, SessionType, FlagsType
  <2> QED BY <2>1, <2>2
<1>12. ASSUME NEW b \in Blocks, AcceptBreaks(b) PROVE TypeOK'
  <2>1. ServerType'
    BY <1>12, ServerDone DEF AcceptBreaks
  <2>2. UseType' /\ BlockType' /\ CallerType' /\ HandlesType' /\ SessionType' /\ FlagsType'
    BY <1>12 DEF AcceptBreaks, threads, opener, UseType, BlockType, CallerType, HandlesType, SessionType, FlagsType
  <2> QED BY <2>1, <2>2
<1>13. ASSUME NEW b \in Blocks, Spawn(b) PROVE TypeOK'
  <2>1. ServerType'
    BY <1>13, Constants DEF Spawn, ServerAt, ServerType, ServerThreads, Numbers, Clients, None, Blocks, BlockType, BlockStates, SessionType
  <2>2. SessionType'
    <3> DEFINE new == [step |-> "start", block |-> b, client |-> server[b].client, got |-> None]
    <3>1. session' = [session EXCEPT ![server[b].number] = new] /\ clients' = clients
      BY <1>13 DEF Spawn
    <3>2. new \in SessionThreads /\ new.block \in Blocks
      BY DEF ServerType, ServerThreads, SessionThreads, SessionSteps, Numbers
    <3> HIDE DEF new
    <3> QED BY <3>1, <3>2 DEF SessionType
  <2>3. UseType' /\ BlockType' /\ CallerType' /\ HandlesType' /\ FlagsType'
    BY <1>13 DEF Spawn, threads, opener, UseType, BlockType, CallerType, HandlesType, FlagsType
  <2> QED BY <2>1, <2>2, <2>3
<1>14. ASSUME NEW b \in Blocks, SpawnFails(b) PROVE TypeOK'
  <2>1. UseType'
    BY <1>14, Constants DEF SpawnFails, ServerAt, UseType, Uses, Free, Listening, Datagrams, Connection, None, Blocks, SessionType, ServerType
  <2>2. BlockType'
    BY <1>14, Constants DEF SpawnFails, ServerAt, BlockType, BlockStates, Numbers, Blocks, ServerType, SessionType
  <2>3. ServerType'
    BY <1>14, ServerDone DEF SpawnFails
  <2>4. FlagsType'
    BY <1>14, Constants DEF SpawnFails, ServerAt, FlagsType, BlockType, BlockStates
  <2>5. CallerType' /\ HandlesType' /\ SessionType'
    BY <1>14 DEF SpawnFails, threads, opener, CallerType, HandlesType, SessionType
  <2> QED BY <2>1, <2>2, <2>3, <2>4, <2>5
<1>15. ASSUME NEW b \in Blocks, DatagramEnds(b) PROVE TypeOK'
  <2>1. BlockType'
    BY <1>15, Constants DEF DatagramEnds, ServerAt, BlockType, BlockStates, Numbers, Blocks, ServerType, SessionType
  <2>2. ServerType'
    BY <1>15, ServerDone DEF DatagramEnds
  <2>3. FlagsType'
    BY <1>15, Constants DEF DatagramEnds, ServerAt, FlagsType, BlockType, BlockStates
  <2>4. UseType' /\ CallerType' /\ HandlesType' /\ SessionType'
    BY <1>15 DEF DatagramEnds, threads, opener, UseType, CallerType, HandlesType, SessionType
  <2> QED BY <2>1, <2>2, <2>3, <2>4
<1>16. ASSUME NEW n \in Clients, SessionCalls(n) PROVE TypeOK'
  <2>1. SessionType'
    <3>1. block[session[n].block].sock \in Numbers
      BY <1>16 DEF SessionCalls, SessionAt, SessionType, BlockType, BlockStates
    <3> QED BY <1>16, <3>1, SessionCalled DEF SessionCalls, SessionAt, SessionSteps
  <2>2. FlagsType'
    BY <1>16, Constants DEF SessionCalls, SessionAt, FlagsType, BlockType, BlockStates
  <2>3. UseType' /\ BlockType' /\ CallerType' /\ HandlesType' /\ ServerType'
    BY <1>16 DEF SessionCalls, threads, opener, UseType, BlockType, CallerType, HandlesType, ServerType
  <2> QED BY <2>1, <2>2, <2>3
<1>17. ASSUME NEW n \in Clients, CallbackReturns(n) PROVE TypeOK'
  <2>1. UseType'
    BY <1>17, Constants DEF CallbackReturns, SessionAt, UseType, Uses, Free, Listening, Datagrams, Connection, None, Blocks, SessionType, SessionThreads, Numbers
  <2>2. SessionType'
    BY <1>17, SessionMoves DEF CallbackReturns, SessionAt, SessionSteps
  <2>3. BlockType' /\ CallerType' /\ HandlesType' /\ ServerType' /\ FlagsType'
    BY <1>17 DEF CallbackReturns, threads, opener, BlockType, CallerType, HandlesType, ServerType, FlagsType
  <2> QED BY <2>1, <2>2, <2>3
<1>18. ASSUME NEW n \in Clients, SessionEnds(n) PROVE TypeOK'
  <2>1. BlockType'
    BY <1>18, Constants DEF SessionEnds, SessionAt, BlockType, BlockStates, Numbers, Blocks, ServerType, SessionType
  <2>2. SessionType'
    BY <1>18, SessionMoves DEF SessionEnds, SessionAt, SessionSteps
  <2>3. FlagsType'
    BY <1>18, Constants DEF SessionEnds, SessionAt, FlagsType, BlockType, BlockStates
  <2>4. UseType' /\ CallerType' /\ HandlesType' /\ ServerType'
    BY <1>18 DEF SessionEnds, threads, opener, UseType, CallerType, HandlesType, ServerType
  <2> QED BY <2>1, <2>2, <2>3, <2>4
<1>19. CASE UNCHANGED vars
  BY <1>19 DEF vars, UseType, BlockType, CallerType, HandlesType, ServerType, SessionType, FlagsType
<1> QED BY <1>1, <1>2, <1>3, <1>4, <1>5, <1>6, <1>7, <1>8, <1>9, <1>10, <1>11, <1>12, <1>13, <1>14, <1>15, <1>16, <1>17, <1>18, <1>19, Zenon DEF Next

-----------------------------------------------------------------------------
(* Sessions and descriptors.                                               *)

LEMMA InitSeparate == Init => SeparateInv
<1> SUFFICES ASSUME Init PROVE Good /\ Alone /\ ~stray /\ ~overtaken
  BY DEF SeparateInv
<1>1. CallerInv /\ HandlesInv
  BY DEF Init, CallerInv, HandlesInv, NoServer, Idle
<1>2. ListenersInv /\ SessionsInv /\ Alone
  BY NoneIsNothing DEF Init, ListenersInv, SessionsInv, Alone, ListenersAlone, SessionsAlone,
                       NoServer, NoSession
<1>3. OwnersInv /\ ~stray /\ ~overtaken
  BY DEF Init, OwnersInv
<1> QED BY <1>1, <1>2, <1>3 DEF Good

LEMMA Kinds ==
  /\ Free.kind = "free"
  /\ \A i : /\ Listening(i).kind = "listen" /\ Listening(i).of = i
            /\ Datagrams(i).kind = "datagram" /\ Datagrams(i).of = i
            /\ Connection(i).kind = "client" /\ Connection(i).of = i
BY DEF Free, Listening, Datagrams, Connection

\* A step of the caller that starts no thread, closes no connection and leaves
\* the blocks of threads alone disturbs no thread.
LEMMA QuietThreads ==
  ASSUME TypeOK, ListenersInv, SessionsInv, UNCHANGED <<server, session, clients>>,
         \A d \in Descriptors : use[d].kind = "client" => use'[d] = use[d],
         \A b \in Blocks : server[b].step # "none" => block'[b] = block[b]
  PROVE  ListenersInv' /\ SessionsInv'
<1>1. ListenersInv'
  <2>1. \A b \in Blocks : server[b].step = "spawn" => use'[server[b].client] = use[server[b].client]
    <3> SUFFICES ASSUME NEW b \in Blocks, server[b].step = "spawn"
                 PROVE  use'[server[b].client] = use[server[b].client]
      OBVIOUS
    <3>1. server[b].client \in Descriptors /\ use[server[b].client] = Connection(server[b].number)
      BY DEF ListenersInv, TypeOK, ServerType
    <3> QED BY <3>1, Kinds
  <2> QED BY <2>1 DEF ListenersInv
<1>2. SessionsInv'
  <2> SUFFICES ASSUME NEW n \in Clients, session[n].step # "none"
               PROVE  /\ session[n].step \in {"start", "callback"} =>
                           use'[session[n].client] = use[session[n].client]
                      /\ block'[session[n].block] = block[session[n].block]
    BY DEF SessionsInv
  <2> QED BY Kinds DEF SessionsInv
<1> QED BY <1>1, <1>2

\* A step of a thread that starts with a thread and closes only connections
\* disturbs no caller.
LEMMA QuietCaller ==
  ASSUME TypeOK, CallerInv, HandlesInv, UNCHANGED <<caller, handles, opens>>,
         \A d \in Descriptors :
           use[d].kind \in {"unbound", "listen", "datagram"} => use'[d] = use[d],
         \A b \in Blocks : server[b].step = "none" =>
           server'[b].step = "none" /\ block'[b] = block[b]
  PROVE  CallerInv' /\ HandlesInv'
<1>1. CallerInv'
  <2>1. caller.step # "idle" => opens \in Blocks
    BY Constants DEF TypeOK, CallerType, Blocks
  <2>2. caller.step \in {"bind", "thread", "store"} =>
          caller.sock \in Descriptors /\ use'[caller.sock] = use[caller.sock]
    BY Kinds DEF CallerInv, TypeOK, CallerType, Calls
  <2>3. caller.step = "thread" => block'[opens] = block[opens]
    BY <2>1 DEF CallerInv
  <2>4. caller.step \in {"socket", "bind", "thread"} => server'[opens].step = "none"
    BY <2>1 DEF CallerInv
  <2> QED BY <2>2, <2>3, <2>4 DEF CallerInv
<1>2. HandlesInv'
  <2>1. \A h \in handles : use'[h.sock] = use[h.sock]
    BY Kinds DEF HandlesInv, TypeOK, HandlesType
  <2> QED BY <2>1 DEF HandlesInv
<1> QED BY <1>1, <1>2

LEMMA StepCaller ==
  ASSUME TypeOK, Good,
         \/ \E p \in Protocols : OpenStart(p)
         \/ OpenFails \/ MakeSocket \/ BindFails \/ Bind \/ ThreadFails \/ OpenReturns
  PROVE  Good'
<1> USE NoneIsNothing DEF Good, CallerAt, threads
<1>1. UNCHANGED <<server, session, clients>>
  <2>1. UNCHANGED <<server, session, clients, shared, overtaken, stray>>
    BY Zenon DEF OpenStart, OpenFails, MakeSocket, BindFails, Bind, ThreadFails, OpenReturns
  <2> QED BY <2>1
<1>2. caller.step # "idle" => opens \in Blocks
  BY Constants DEF TypeOK, CallerType, Blocks
<1>3. CASE \E p \in Protocols : OpenStart(p)
  <2>1. PICK p \in Protocols : OpenStart(p)
    BY <1>3
  <2>2. /\ caller.step = "idle" /\ caller'.step = "socket" /\ caller.sock = None /\ caller'.sock = None
        /\ opens' = opens + 1 /\ opens' \in Blocks /\ opens \in Nat
        /\ UNCHANGED <<use, handles>>
    BY <2>1, Constants DEF OpenStart, TypeOK, CallerType, Blocks
  <2>3. server[opens'].step = "none" /\ \A b \in Blocks : b # opens' => block'[b] = block[b]
    BY <2>1, <2>2 DEF OpenStart, CallerInv, TypeOK, BlockType
  <2>4. CallerInv'
    BY <1>1, <2>2, <2>3 DEF CallerInv
  <2>5. HandlesInv'
    BY <2>2, Constants DEF HandlesInv, TypeOK, HandlesType, Blocks
  <2>6. ListenersInv' /\ SessionsInv'
    BY <1>1, <2>2, <2>3, QuietThreads
  <2>7. OwnersInv'
    BY <1>1, <2>2 DEF OwnersInv, Owned
  <2> QED BY <1>1, <2>4, <2>5, <2>6, <2>7
<1>4. CASE OpenFails
  <2>1. /\ caller.step = "socket" /\ caller'.step = "idle" /\ caller.sock = None /\ caller'.sock = None
        /\ UNCHANGED <<use, handles, opens>>
        /\ \A b \in Blocks : b # opens => block'[b] = block[b]
    BY <1>4 DEF OpenFails, Idle, TypeOK, CallerType, BlockType
  <2>2. CallerInv'
    BY <1>1, <2>1 DEF CallerInv
  <2>3. HandlesInv'
    BY <2>1 DEF HandlesInv
  <2>4. ListenersInv' /\ SessionsInv'
    BY <1>1, <2>1, QuietThreads DEF CallerInv
  <2>5. OwnersInv'
    BY <1>1, <2>1 DEF OwnersInv, Owned
  <2> QED BY <1>1, <2>2, <2>3, <2>4, <2>5
<1>5. CASE MakeSocket
  <2>1. PICK d \in Descriptors : /\ Lowest(d)
                                 /\ use' = [use EXCEPT ![d] = [kind |-> "unbound", of |-> opens]]
                                 /\ caller' = [caller EXCEPT !.step = "bind", !.sock = d]
    BY <1>5 DEF MakeSocket
  <2>2. /\ caller.step = "socket" /\ caller'.step = "bind" /\ caller.sock = None /\ caller'.sock = d
        /\ UNCHANGED <<block, handles, opens>>
    BY <1>5, <2>1 DEF MakeSocket, TypeOK, CallerType, Calls
  <2>3. /\ use[d] = Free /\ use'[d] = [kind |-> "unbound", of |-> opens]
        /\ \A e \in Descriptors : e # d => use'[e] = use[e]
    BY <2>1 DEF Lowest, TypeOK, UseType
  <2>4. CallerInv'
    BY <1>1, <2>2, <2>3 DEF CallerInv
  <2>5. HandlesInv'
    <3>1. \A h \in handles : h.sock \in Descriptors /\ h.sock # d
      BY <2>3, Kinds DEF HandlesInv, TypeOK, HandlesType
    <3> QED BY <2>2, <2>3, <3>1 DEF HandlesInv
  <2>6. ListenersInv' /\ SessionsInv'
    BY <1>1, <2>2, <2>3, Kinds, QuietThreads
  <2>7. OwnersInv'
    BY <1>1, <2>2, <2>3 DEF OwnersInv, Owned
  <2> QED BY <1>1, <2>4, <2>5, <2>6, <2>7
<1>6. CASE BindFails \/ ThreadFails
  <2>1. /\ caller.step \in {"bind", "thread"} /\ caller'.step = "idle" /\ caller'.sock = None
        /\ use' = [use EXCEPT ![caller.sock] = Free]
        /\ UNCHANGED <<handles, opens>>
        /\ \A b \in Blocks : b # opens => block'[b] = block[b]
    BY <1>6 DEF BindFails, ThreadFails, Idle, TypeOK, BlockType
  <2>2. /\ caller.sock \in Descriptors /\ use'[caller.sock] = Free
        /\ \A e \in Descriptors : e # caller.sock => use'[e] = use[e]
    BY <2>1 DEF TypeOK, CallerType, UseType
  <2>3. use[caller.sock].kind \in {"unbound", "listen", "datagram"} /\ use[caller.sock].of = opens
    BY <2>1, Kinds DEF CallerInv
  <2>4. CallerInv'
    BY <1>1, <2>1 DEF CallerInv
  <2>5. HandlesInv'
    <3>1. \A h \in handles : h.sock \in Descriptors /\ h.sock # caller.sock
      BY <2>1, <2>3, Kinds DEF HandlesInv, TypeOK, HandlesType, CallerType
    <3> QED BY <2>1, <2>2, <3>1 DEF HandlesInv
  <2>6. ListenersInv' /\ SessionsInv'
    BY <1>1, <2>1, <2>2, <2>3, QuietThreads DEF CallerInv
  <2>7. OwnersInv'
    BY <1>1, <2>1, <2>2 DEF OwnersInv, Owned
  <2> QED BY <1>1, <2>4, <2>5, <2>6, <2>7
<1>7. CASE Bind
  <2>1. /\ caller.step = "bind" /\ caller'.step = "thread" /\ caller'.sock = caller.sock
        /\ UNCHANGED <<handles, opens>>
        /\ caller.sock \in Descriptors
    BY <1>7 DEF Bind, TypeOK, CallerType, Calls
  <2>2. /\ use'[caller.sock] \in {Listening(opens), Datagrams(opens)}
        /\ use[caller.sock] = [kind |-> "unbound", of |-> opens]
        /\ \A e \in Descriptors : e # caller.sock => use'[e] = use[e]
    BY <1>7, <2>1 DEF Bind, TypeOK, UseType, CallerInv
  <2>3. /\ block'[opens] = [live |-> TRUE, sock |-> caller.sock]
        /\ \A b \in Blocks : b # opens => block'[b] = block[b]
    BY <1>2, <1>7, <2>1 DEF Bind, TypeOK, BlockType
  <2>4. CallerInv'
    BY <1>1, <2>1, <2>2, <2>3 DEF CallerInv
  <2>5. HandlesInv'
    <3>1. \A h \in handles : h.sock \in Descriptors /\ h.sock # caller.sock
      BY <2>2, Kinds DEF HandlesInv, TypeOK, HandlesType
    <3> QED BY <2>1, <2>2, <3>1 DEF HandlesInv
  <2>6. ListenersInv' /\ SessionsInv'
    BY <1>1, <2>1, <2>2, <2>3, QuietThreads DEF CallerInv
  <2>7. OwnersInv'
    BY <1>1, <2>1, <2>2, Kinds DEF OwnersInv, Owned
  <2> QED BY <1>1, <2>4, <2>5, <2>6, <2>7
<1>8. CASE OpenReturns
  <2>1. /\ caller.step = "store" /\ caller'.step = "idle" /\ caller'.sock = None
        /\ handles' = handles \cup {[of |-> opens, sock |-> caller.sock]}
        /\ UNCHANGED <<use, block, opens>>
    BY <1>8 DEF OpenReturns, Idle
  <2>2. CallerInv'
    BY <1>1, <2>1 DEF CallerInv
  <2>3. HandlesInv'
    <3>1. use[caller.sock] \in {Listening(opens), Datagrams(opens)} /\ opens \in Nat
      BY <2>1 DEF CallerInv, TypeOK, CallerType
    <3>2. \A h \in handles' : h \in handles \/ (h.of = opens /\ h.sock = caller.sock)
      BY <2>1
    <3> QED BY <2>1, <3>1, <3>2 DEF HandlesInv
  <2>4. ListenersInv' /\ SessionsInv'
    BY <1>1, <2>1, QuietThreads
  <2>5. OwnersInv'
    <3> DEFINE new == [of |-> opens, sock |-> caller.sock]
    <3>1. handles \subseteq handles' /\ new \in handles' /\ new.sock = caller.sock
      BY <2>1
    <3> HIDE DEF new
    <3> QED BY <1>1, <2>1, <3>1 DEF OwnersInv, Owned
  <2> QED BY <1>1, <2>2, <2>3, <2>4, <2>5
<1> QED BY <1>3, <1>4, <1>5, <1>6, <1>7, <1>8

LEMMA StepClose ==
  ASSUME TypeOK, Good, Close
  PROVE  Good'
<1> USE NoneIsNothing DEF Good, CallerAt, threads
<1>1. PICK h \in handles : handles' = handles \ {h} /\ use' = [use EXCEPT ![h.sock] = Free]
  BY DEF Close
<1>2. /\ caller.step = "idle"
      /\ UNCHANGED <<block, caller, opens, server, session, clients>>
  BY DEF Close
<1>3. /\ h.sock \in Descriptors /\ use'[h.sock] = Free
      /\ \A e \in Descriptors : e # h.sock => use'[e] = use[e]
  BY <1>1 DEF TypeOK, HandlesType, UseType
<1>4. use[h.sock] \in {Listening(h.of), Datagrams(h.of)}
  BY DEF HandlesInv
<1>5. CallerInv'
  BY <1>2 DEF CallerInv
<1>6. HandlesInv'
  <2>1. \A g \in handles' : g \in handles /\ g.sock \in Descriptors /\ g.sock # h.sock
    <3> SUFFICES ASSUME NEW g \in handles, g.sock = h.sock PROVE g = h
      BY <1>1 DEF TypeOK, HandlesType
    <3>1. g.of = h.of
      BY <1>4, Kinds DEF HandlesInv
    <3> QED BY <3>1 DEF TypeOK, HandlesType
  <2> QED BY <1>2, <1>3, <2>1 DEF HandlesInv
<1>7. ListenersInv' /\ SessionsInv'
  BY <1>2, <1>3, <1>4, Kinds, QuietThreads
<1>8. OwnersInv'
  <2>1. \A g \in handles : g.sock # h.sock => g \in handles'
    BY <1>1
  <2> QED BY <1>2, <1>3, <2>1 DEF OwnersInv, Owned
<1> QED BY <1>2, <1>5, <1>6, <1>7, <1>8

LEMMA StepThreadStarts ==
  ASSUME TypeOK, Good, ThreadStarts
  PROVE  Good'
<1> USE NoneIsNothing DEF Good, CallerAt, threads
<1>1. /\ caller.step = "thread" /\ caller'.step = "store" /\ caller'.sock = caller.sock
      /\ UNCHANGED <<use, block, handles, opens, session, clients>>
  BY DEF ThreadStarts, TypeOK, CallerType, Calls
<1>2. /\ opens \in Blocks /\ server'[opens].step \in {"accept", "callback"}
      /\ server[opens].step = "none"
      /\ \A b \in Blocks : b # opens => server'[b] = server[b]
  BY <1>1, Constants DEF ThreadStarts, TypeOK, CallerType, Blocks, ServerType, CallerInv
<1>3. CallerInv'
  BY <1>1, <1>2 DEF CallerInv
<1>4. HandlesInv'
  BY <1>1 DEF HandlesInv
<1>6. ListenersInv'
  <2> SUFFICES ASSUME NEW b \in Blocks, b # opens
               PROVE  server'[b] = server[b] /\ \A c \in Blocks : server'[c].step = "spawn" =>
                        c # opens /\ server'[c] = server[c]
    BY <1>1, <1>2 DEF ListenersInv
  <2> QED BY <1>2
<1>7. SessionsInv'
  BY <1>1, <1>2 DEF SessionsInv
<1>8. OwnersInv'
  BY <1>1, <1>2 DEF OwnersInv, Owned
<1> QED BY <1>1, <1>3, <1>4, <1>6, <1>7, <1>8

LEMMA StepListenerEnds ==
  ASSUME TypeOK, Good, NEW b \in Blocks, AcceptRefused(b) \/ AcceptBreaks(b)
  PROVE  Good'
<1> USE NoneIsNothing DEF Good, ServerAt, opener
<1>1. /\ server[b].step = "accept"
      /\ UNCHANGED <<use, block, caller, handles, opens, session, clients>>
  BY DEF AcceptRefused, AcceptBreaks
<1>2. server'[b].step = "done" /\ \A c \in Blocks : c # b => server'[c] = server[c]
  BY ServerDone DEF AcceptRefused, AcceptBreaks, TypeOK
<1>3. CallerInv' /\ HandlesInv'
  BY <1>1, <1>2, QuietCaller
<1>4. ListenersInv'
  BY <1>1, <1>2 DEF ListenersInv
<1>5. SessionsInv'
  BY <1>1, <1>2 DEF SessionsInv
<1>6. OwnersInv'
  BY <1>1, <1>2 DEF OwnersInv, Owned
<1> QED BY <1>1, <1>3, <1>4, <1>5, <1>6

LEMMA StepAccept ==
  ASSUME TypeOK, Good, NEW b \in Blocks, Accept(b), ~overtaken'
  PROVE  Good'
<1> USE NoneIsNothing DEF Good, ServerAt, opener
<1>1. PICK d \in Descriptors :
        /\ Lowest(d)
        /\ use' = [use EXCEPT ![d] = Connection(clients')]
        /\ block' = [block EXCEPT ![b].sock = d]
        /\ server' = [server EXCEPT ![b] = [step |-> "spawn", sock |-> @.sock, client |-> d,
                                            number |-> clients']]
  BY DEF Accept
<1>2. /\ server[b].step = "accept" /\ clients' = clients + 1 /\ clients \in Nat
      /\ UNCHANGED <<caller, handles, opens, session>>
  BY DEF Accept, TypeOK, SessionType
<1>3. \A n \in Clients : session[n].step = "start" => session[n].block # b
  BY DEF Accept
<1>6. /\ use[d] = Free /\ use'[d] = Connection(clients')
      /\ \A e \in Descriptors : e # d => use'[e] = use[e]
  BY <1>1 DEF Lowest, TypeOK, UseType
<1>7. /\ block'[b].sock = d
      /\ \A c \in Blocks : c # b => block'[c] = block[c]
  <2>1. block[b] \in BlockStates
    BY DEF TypeOK, BlockType
  <2>2. block'[b] = [block[b] EXCEPT !.sock = d]
    BY <1>1 DEF TypeOK, BlockType
  <2>3. [block[b] EXCEPT !.sock = d].sock = d
    BY <2>1 DEF BlockStates
  <2>4. block'[b].sock = d
    BY <2>2, <2>3
  <2> QED BY <1>1, <2>4 DEF TypeOK, BlockType
<1>8. /\ server'[b].step = "spawn" /\ server'[b].client = d /\ server'[b].number = clients'
      /\ \A c \in Blocks : c # b => server'[c] = server[c]
  BY <1>1 DEF TypeOK, ServerType
<1>9. CallerInv' /\ HandlesInv'
  BY <1>2, <1>6, <1>7, <1>8, Kinds, QuietCaller
<1>10. clients' \in Clients
  BY <1>2, Constants DEF Accept, TypeOK, SessionType, Clients
<1>11. ListenersInv'
  <2>1. session'[clients'].step = "none"
    BY <1>2, <1>10 DEF SessionsInv
  <2>2. ASSUME NEW c \in Blocks, c # b, server[c].step = "spawn"
        PROVE  /\ server[c].number <= clients /\ server[c].number # clients'
               /\ server[c].number \in Nat
               /\ use'[server[c].client] = use[server[c].client]
    <3>1. server[c].client \in Descriptors /\ use[server[c].client] = Connection(server[c].number)
      BY <2>2 DEF ListenersInv, TypeOK, ServerType
    <3>2. server[c].client # d
      BY <1>6, <3>1, Kinds
    <3>3. server[c].number <= clients /\ server[c].number \in Nat
      BY <2>2 DEF ListenersInv, TypeOK, ServerType
    <3> QED BY <1>2, <1>6, <3>1, <3>2, <3>3
  <2> SUFFICES ASSUME NEW c \in Blocks
               PROVE  server'[c].step = "spawn" =>
                        /\ server'[c].number <= clients'
                        /\ session'[server'[c].number].step = "none"
                        /\ use'[server'[c].client] = Connection(server'[c].number)
                        /\ block'[c].sock = server'[c].client
                        /\ \A e \in Blocks :
                             server'[e].step = "spawn" /\ server'[e].number = server'[c].number
                               => e = c
                        /\ \A n \in Clients :
                             session'[n].step = "start" => session'[n].block # c
    BY DEF ListenersInv
  <2>3. CASE c = b
    <3>1. \A e \in Blocks :
            server'[e].step = "spawn" /\ server'[e].number = server'[c].number => e = c
      BY <1>8, <2>2, <2>3
    <3> QED BY <1>2, <1>3, <1>6, <1>7, <1>8, <2>1, <2>3, <3>1
  <2>4. CASE c # b
    BY <1>2, <1>7, <1>8, <2>2, <2>4 DEF ListenersInv
  <2> QED BY <2>3, <2>4
<1>12. SessionsInv'
  <2> SUFFICES ASSUME NEW n \in Clients, session[n].step # "none"
               PROVE  /\ n <= clients'
                      /\ session[n].step = "start" => session[n].block # b
                      /\ session[n].step \in {"start", "callback"} =>
                           use'[session[n].client] = use[session[n].client]
    BY <1>2, <1>7, <1>8 DEF SessionsInv
  <2>1. session[n].step \in {"start", "callback"} => session[n].client # d
    BY <1>6, Kinds DEF SessionsInv
  <2> QED BY <1>2, <1>3, <1>6, <2>1 DEF SessionsInv
<1>13. OwnersInv'
  BY <1>2, <1>6, <1>8 DEF OwnersInv, Owned
<1> QED BY <1>9, <1>11, <1>12, <1>13

LEMMA StepSpawn ==
  ASSUME TypeOK, Good, NEW b \in Blocks, Spawn(b)
  PROVE  Good'
<1> USE NoneIsNothing DEF Good, ServerAt, opener
<1> DEFINE n == server[b].number
           d == server[b].client
           new == [step |-> "start", block |-> b, client |-> d, got |-> None]
<1>1. /\ server[b].step = "spawn"
      /\ session' = [session EXCEPT ![n] = new]
      /\ UNCHANGED <<use, block, caller, handles, opens, clients>>
  BY DEF Spawn
<1>2. n \in Clients /\ d \in Descriptors
  BY <1>1 DEF TypeOK, ServerType
<1>3. /\ server'[b].step = "accept"
      /\ \A c \in Blocks : c # b => server'[c] = server[c]
  BY DEF Spawn, TypeOK, ServerType
<1>4. /\ session[n].step = "none" /\ use[d] = Connection(n) /\ n <= clients
      /\ block[b].sock = d
      /\ \A c \in Blocks : server[c].step = "spawn" /\ server[c].number = n => c = b
  BY <1>1 DEF ListenersInv
<1>5. /\ session'[n] = new
      /\ \A m \in Clients : m # n => session'[m] = session[m]
  BY <1>1, <1>2 DEF TypeOK, SessionType
<1>6. \A m \in Clients : session[m].step = "start" => session[m].block # b
  BY <1>1 DEF ListenersInv
<1>7. new.step = "start" /\ new.block = b /\ new.client = d
  OBVIOUS
<1> HIDE DEF n, d, new
<1>8. CallerInv' /\ HandlesInv'
  BY <1>1, <1>3, QuietCaller
<1>9. ListenersInv'
  <2>1. \A c \in Blocks : c # b /\ server[c].step = "spawn" =>
          server[c].number # n /\ server[c].number \in Clients
    BY <1>4 DEF TypeOK, ServerType
  <2> QED BY <1>1, <1>3, <1>5, <1>7, <2>1 DEF ListenersInv
<1>10. SessionsInv'
  <2> SUFFICES ASSUME NEW m \in Clients
               PROVE  /\ session'[m].step = "none" => session'[m].block = None
                      /\ session'[m].step # "none" =>
                           /\ m <= clients
                           /\ session'[m].block \in Blocks
                           /\ server'[session'[m].block].step \in {"accept", "spawn", "done"}
                      /\ session'[m].step \in {"start", "callback"} =>
                           /\ session'[m].client \in Descriptors
                           /\ use[session'[m].client] = Connection(m)
                      /\ session'[m].step = "start" =>
                           /\ block[session'[m].block].sock = session'[m].client
                           /\ \A k \in Clients :
                                session'[k].step = "start" /\ session'[k].block = session'[m].block
                                  => k = m
                      /\ session'[m].step = "callback" => session'[m].got = session'[m].client
    BY <1>1 DEF SessionsInv
  <2>1. CASE m = n
    BY <1>2, <1>3, <1>4, <1>5, <1>6, <1>7, <2>1
  <2>2. CASE m # n
    BY <1>3, <1>5, <1>6, <1>7, <2>2 DEF SessionsInv
  <2> QED BY <2>1, <2>2
<1>11. OwnersInv'
  <2> SUFFICES ASSUME NEW e \in Descriptors, use[e] # Free, Owned(e) PROVE Owned(e)'
    BY <1>1 DEF OwnersInv
  <2>1. CASE e = d
    BY <1>2, <1>5, <1>7, <2>1 DEF Owned
  <2>2. CASE e # d
    <3>1. \A m \in Clients : session[m].step \in {"start", "callback"} => session'[m] = session[m]
      BY <1>4, <1>5
    <3>2. \A c \in Blocks : server[c].step = "spawn" /\ e = server[c].client => server'[c] = server[c]
      BY <1>3, <2>2 DEF d
    <3> QED BY <1>1, <3>1, <3>2 DEF Owned
  <2> QED BY <2>1, <2>2
<1> QED BY <1>1, <1>8, <1>9, <1>10, <1>11

LEMMA StepSpawnFails ==
  ASSUME TypeOK, Good, NEW b \in Blocks, SpawnFails(b)
  PROVE  Good'
<1> USE NoneIsNothing DEF Good, ServerAt, opener
<1> DEFINE n == server[b].number
           d == server[b].client
<1>1. /\ server[b].step = "spawn"
      /\ use' = [use EXCEPT ![d] = Free]
      /\ UNCHANGED <<caller, handles, opens, session, clients>>
  BY DEF SpawnFails
<1>2. d \in Descriptors /\ n \in Clients
  BY <1>1 DEF TypeOK, ServerType
<1>3. /\ session[n].step = "none" /\ use[d] = Connection(n)
      /\ \A c \in Blocks : server[c].step = "spawn" /\ server[c].number = n => c = b
  BY <1>1 DEF ListenersInv
<1>5. server'[b].step = "done" /\ \A c \in Blocks : c # b => server'[c] = server[c]
  BY ServerDone DEF SpawnFails, TypeOK
<1>6. \A c \in Blocks : c # b => block'[c] = block[c]
  BY DEF SpawnFails, TypeOK, BlockType
<1>7. use'[d] = Free /\ \A e \in Descriptors : e # d => use'[e] = use[e]
  BY <1>1, <1>2 DEF TypeOK, UseType
<1>8. \A m \in Clients : session[m].step = "start" => session[m].block # b
  BY <1>1 DEF ListenersInv
<1> HIDE DEF n, d
<1>9. CallerInv' /\ HandlesInv'
  BY <1>1, <1>3, <1>5, <1>6, <1>7, Kinds, QuietCaller
<1>10. ListenersInv'
  <2>1. \A c \in Blocks : c # b /\ server[c].step = "spawn" =>
          use'[server[c].client] = use[server[c].client]
    <3> SUFFICES ASSUME NEW c \in Blocks, c # b, server[c].step = "spawn"
                 PROVE  server[c].client \in Descriptors /\ server[c].client # d
      BY <1>7
    <3>1. /\ server[c].client \in Descriptors /\ server[c].number # n
          /\ use[server[c].client] = Connection(server[c].number)
      BY <1>3 DEF ListenersInv, TypeOK, ServerType
    <3> QED BY <1>3, <3>1, Kinds
  <2> QED BY <1>1, <1>5, <1>6, <2>1 DEF ListenersInv
<1>11. SessionsInv'
  <2> SUFFICES ASSUME NEW m \in Clients, session[m].step # "none"
               PROVE  session[m].step \in {"start", "callback"} =>
                        use'[session[m].client] = use[session[m].client]
    BY <1>1, <1>5, <1>6, <1>8 DEF SessionsInv
  <2>1. session[m].step \in {"start", "callback"} =>
          session[m].client \in Descriptors /\ session[m].client # d
    BY <1>3, Kinds DEF SessionsInv
  <2> QED BY <1>7, <2>1
<1>12. OwnersInv'
  <2>1. \A c \in Blocks : server[c].step = "spawn" /\ server[c].client # d => c # b
    BY DEF d
  <2> QED BY <1>1, <1>5, <1>7, <2>1 DEF OwnersInv, Owned
<1> QED BY <1>9, <1>10, <1>11, <1>12

LEMMA StepDatagramEnds ==
  ASSUME TypeOK, Good, NEW b \in Blocks, DatagramEnds(b)
  PROVE  Good'
<1> USE NoneIsNothing DEF Good, ServerAt, opener
<1>1. /\ server[b].step = "callback"
      /\ UNCHANGED <<use, caller, handles, opens, session, clients>>
  BY DEF DatagramEnds
<1>2. server'[b].step = "done" /\ \A c \in Blocks : c # b => server'[c] = server[c]
  BY ServerDone DEF DatagramEnds, TypeOK
<1>3. \A c \in Blocks : c # b => block'[c] = block[c]
  BY DEF DatagramEnds, TypeOK, BlockType
<1>5. CallerInv' /\ HandlesInv'
  BY <1>1, <1>2, <1>3, QuietCaller
<1>6. ListenersInv'
  BY <1>1, <1>2, <1>3 DEF ListenersInv
<1>7. SessionsInv'
  <2>1. \A n \in Clients : session[n].step # "none" => session[n].block # b
    BY <1>1 DEF SessionsInv
  <2> QED BY <1>1, <1>2, <1>3, <2>1 DEF SessionsInv
<1>8. OwnersInv'
  BY <1>1, <1>2 DEF OwnersInv, Owned
<1> QED BY <1>5, <1>6, <1>7, <1>8

LEMMA StepSessionCalls ==
  ASSUME TypeOK, Good, NEW n \in Clients, SessionCalls(n)
  PROVE  Good'
<1> USE NoneIsNothing DEF Good, SessionAt, opener
<1> DEFINE b == session[n].block
<1>1. /\ session[n].step = "start" /\ b \in Blocks
      /\ UNCHANGED <<use, block, caller, handles, opens, server, clients>>
  BY DEF SessionCalls, TypeOK, SessionType
<1>2. block[b].sock = session[n].client
  BY <1>1 DEF SessionsInv
<1>4. block[b].sock \in Numbers
  BY <1>1 DEF TypeOK, BlockType, BlockStates
<1> HIDE DEF b
<1>5. /\ session'[n].step = "callback" /\ session'[n].got = session[n].client
      /\ session'[n].block = session[n].block /\ session'[n].client = session[n].client
      /\ \A m \in Clients : m # n => session'[m] = session[m]
  <2>1. session' = [session EXCEPT ![n].step = "callback", ![n].got = block[b].sock]
    BY DEF SessionCalls, b
  <2> QED BY <1>1, <1>2, <1>4, <2>1, SessionCalled DEF TypeOK, SessionSteps
<1>6. CallerInv' /\ HandlesInv'
  BY <1>1, QuietCaller
<1>7. ListenersInv'
  <2>1. \A c \in Blocks : server[c].step = "spawn" =>
          server[c].number \in Clients /\ server[c].number # n
    BY <1>1 DEF ListenersInv, TypeOK, ServerType
  <2>2. \A m \in Clients : session'[m].block = session[m].block
    BY <1>5
  <2> QED BY <1>1, <1>5, <2>1, <2>2 DEF ListenersInv
<1>8. SessionsInv'
  <2>1. \A m \in Clients : session'[m].block = session[m].block
    BY <1>5
  <2> QED BY <1>1, <1>5, <2>1 DEF SessionsInv
<1>9. OwnersInv'
  <2>1. \A m \in Clients : session[m].step \in {"start", "callback"} =>
          session'[m].step \in {"start", "callback"} /\ session'[m].client = session[m].client
    BY <1>5
  <2> QED BY <1>1, <2>1 DEF OwnersInv, Owned
<1> QED BY <1>6, <1>7, <1>8, <1>9

LEMMA StepCallbackReturns ==
  ASSUME TypeOK, Good, NEW n \in Clients, CallbackReturns(n)
  PROVE  Good'
<1> USE NoneIsNothing DEF Good, SessionAt, opener
<1> DEFINE d == session[n].client
<1>1. /\ session[n].step = "callback"
      /\ session' = [session EXCEPT ![n].step = "free"]
      /\ UNCHANGED <<block, caller, handles, opens, server, clients>>
  BY DEF CallbackReturns
<1>2. d \in Descriptors /\ use[d] = Connection(n) /\ session[n].got = d
  BY <1>1 DEF SessionsInv
<1>3. use' = [use EXCEPT ![d] = Free]
  BY <1>2 DEF CallbackReturns
<1>4. use'[d] = Free /\ \A e \in Descriptors : e # d => use'[e] = use[e]
  BY <1>2, <1>3 DEF TypeOK, UseType
<1>5. /\ session'[n].step = "free" /\ session'[n].block = session[n].block
      /\ \A m \in Clients : m # n => session'[m] = session[m]
  BY <1>1, SessionMoves DEF TypeOK, SessionSteps
<1>6. \A m \in Clients : session'[m].block = session[m].block
  BY <1>5
<1> HIDE DEF d
<1>7. CallerInv' /\ HandlesInv'
  BY <1>1, <1>2, <1>4, Kinds, QuietCaller
<1>8. ListenersInv'
  <2>1. ASSUME NEW c \in Blocks, server[c].step = "spawn"
        PROVE  /\ server[c].number \in Clients /\ server[c].number # n
               /\ use'[server[c].client] = use[server[c].client]
    <3>1. /\ server[c].number \in Clients /\ server[c].number # n
          /\ server[c].client \in Descriptors
          /\ use[server[c].client] = Connection(server[c].number)
      BY <1>1, <2>1 DEF ListenersInv, TypeOK, ServerType
    <3>2. server[c].client # d
      BY <1>2, <3>1, Kinds
    <3> QED BY <1>4, <3>1, <3>2
  <2> QED BY <1>1, <1>5, <1>6, <2>1 DEF ListenersInv
<1>9. SessionsInv'
  <2>1. ASSUME NEW m \in Clients, m # n, session[m].step \in {"start", "callback"}
        PROVE  use'[session[m].client] = use[session[m].client]
    <3>1. session[m].client \in Descriptors /\ use[session[m].client] = Connection(m)
      BY <2>1 DEF SessionsInv
    <3>2. session[m].client # d
      BY <1>2, <2>1, <3>1, Kinds
    <3> QED BY <1>4, <3>1, <3>2
  <2> QED BY <1>1, <1>5, <1>6, <2>1 DEF SessionsInv
<1>10. OwnersInv'
  <2>1. \A m \in Clients : session[m].step \in {"start", "callback"} /\ session[m].client # d
          => session'[m] = session[m]
    BY <1>5 DEF d
  <2> QED BY <1>1, <1>4, <2>1 DEF OwnersInv, Owned
<1> QED BY <1>7, <1>8, <1>9, <1>10

LEMMA StepSessionEnds ==
  ASSUME TypeOK, Good, NEW n \in Clients, SessionEnds(n)
  PROVE  Good'
<1> USE NoneIsNothing DEF Good, SessionAt, opener
<1> DEFINE b == session[n].block
<1>1. /\ session[n].step = "free" /\ b \in Blocks
      /\ session' = [session EXCEPT ![n].step = "done"]
      /\ UNCHANGED <<use, caller, handles, opens, server, clients>>
  BY DEF SessionEnds, TypeOK, SessionType
<1>2. server[b].step # "none"
  BY <1>1 DEF SessionsInv
<1>3. \A c \in Blocks : block'[c].sock = block[c].sock
  <2>1. block' = [block EXCEPT ![b] = [block[b] EXCEPT !.live = FALSE]]
    BY DEF SessionEnds
  <2>2. [block[b] EXCEPT !.live = FALSE].sock = block[b].sock
    BY <1>1 DEF TypeOK, BlockType, BlockStates
  <2> QED BY <1>1, <2>1, <2>2 DEF TypeOK, BlockType
<1>4. \A c \in Blocks : c # b => block'[c] = block[c]
  BY DEF SessionEnds, TypeOK, BlockType
<1>5. /\ session'[n].step = "done" /\ session'[n].block = b
      /\ \A m \in Clients : m # n => session'[m] = session[m]
  BY <1>1, SessionMoves DEF TypeOK, SessionSteps
<1>6. \A m \in Clients : session'[m].block = session[m].block
  BY <1>5
<1>7. session[n].block = b
  OBVIOUS
<1> HIDE DEF b
<1>8. CallerInv' /\ HandlesInv'
  BY <1>1, <1>2, <1>4, QuietCaller
<1>9. ListenersInv'
  <2>1. \A c \in Blocks : server[c].step = "spawn" =>
          server[c].number \in Clients /\ server[c].number # n
    BY <1>1 DEF ListenersInv, TypeOK, ServerType
  <2> QED BY <1>1, <1>3, <1>5, <1>6, <1>7, <2>1 DEF ListenersInv
<1>10. SessionsInv'
  BY <1>1, <1>3, <1>5, <1>6 DEF SessionsInv
<1>11. OwnersInv'
  BY <1>1, <1>5 DEF OwnersInv, Owned
<1> QED BY <1>8, <1>9, <1>10, <1>11

\* What has happened cannot be undone, and nobody moves once stray is set.
LEMMA HistoryStays ==
  ASSUME [Next]_vars
  PROVE  /\ ~shared' => ~shared
         /\ ~overtaken' => ~overtaken
         /\ ~stray' => ~stray
<1>1. ASSUME NEW b \in Blocks, Accept(b)
      PROVE  (~shared' => ~shared) /\ (~overtaken' => ~overtaken) /\ ~stray
  BY <1>1, Zenon DEF Accept, ServerAt
<1>2. ASSUME Next, \A b \in Blocks : ~Accept(b)
      PROVE  (~shared' => ~shared) /\ (~overtaken' => ~overtaken) /\ ~stray
  <2>1. shared' = shared /\ overtaken' = overtaken /\ ~stray
    BY <1>2, Zenon DEF Next, OpenStart, OpenFails, MakeSocket, BindFails, Bind, ThreadFails,
       ThreadStarts, OpenReturns, Close, AcceptRefused, AcceptBreaks, Spawn, SpawnFails,
       DatagramEnds, SessionCalls, CallbackReturns, SessionEnds, threads, opener, CallerAt,
       ServerAt, SessionAt
  <2> QED BY <2>1, Zenon
<1>3. CASE UNCHANGED vars
  <2>1. shared' = shared /\ overtaken' = overtaken /\ stray' = stray
    BY <1>3 DEF vars
  <2> QED BY <2>1, Zenon
<1> QED BY <1>1, <1>2, <1>3, Zenon

\* overtaken is set by an accept that sets shared as well.
LEMMA OvertakenIsShared ==
  ASSUME [Next]_vars, overtaken => shared
  PROVE  overtaken' => shared'
<1> SUFFICES ASSUME overtaken' PROVE shared'
  OBVIOUS
<1>1. ASSUME NEW b \in Blocks, Accept(b) PROVE shared'
  BY <1>1, Zenon DEF Accept
<1>2. ASSUME Next, \A b \in Blocks : ~Accept(b) PROVE shared'
  <2>1. shared' = shared /\ overtaken' = overtaken
    BY <1>2, Zenon DEF Next, threads, opener, OpenStart, OpenFails, MakeSocket, BindFails, Bind,
       ThreadFails, ThreadStarts, OpenReturns, Close, AcceptRefused, AcceptBreaks, Spawn,
       SpawnFails, DatagramEnds, SessionCalls, CallbackReturns, SessionEnds
  <2> QED BY <2>1, Zenon
<1>3. CASE UNCHANGED vars
  <2>1. shared' = shared /\ overtaken' = overtaken
    BY <1>3 DEF vars
  <2> QED BY <2>1, Zenon
<1> QED BY <1>1, <1>2, <1>3, Zenon

\* A step that moves no thread and leaves the blocks of threads alone.
LEMMA QuietAlone ==
  ASSUME TypeOK, SessionsInv, Alone, UNCHANGED <<server, session>>,
         \A b \in Blocks : server[b].step # "none" => block'[b] = block[b]
  PROVE  Alone'
<1>1. ListenersAlone'
  BY DEF Alone, ListenersAlone
<1>2. \A n \in Clients : session[n].step # "none" =>
        block'[session[n].block] = block[session[n].block]
  BY DEF SessionsInv
<1>3. SessionsAlone'
  BY <1>2 DEF Alone, SessionsAlone
<1> QED BY <1>1, <1>3 DEF Alone

LEMMA AloneCaller ==
  ASSUME TypeOK, Good, Alone,
         \/ \E p \in Protocols : OpenStart(p)
         \/ OpenFails \/ MakeSocket \/ BindFails \/ Bind \/ ThreadFails \/ OpenReturns \/ Close
  PROVE  ~stray' /\ Alone'
<1> USE DEF CallerAt, threads
<1>1. UNCHANGED <<server, session>> /\ ~stray'
  <2>1. UNCHANGED <<server, session, clients, shared, overtaken, stray>> /\ ~stray
    BY Zenon DEF OpenStart, OpenFails, MakeSocket, BindFails, Bind, ThreadFails, OpenReturns, Close
  <2> QED BY <2>1
<1>2. \A b \in Blocks : server[b].step # "none" => block'[b] = block[b]
  <2>1. ASSUME NEW p \in Protocols, OpenStart(p), NEW b \in Blocks, server[b].step # "none"
        PROVE  block'[b] = block[b]
    <3>1. b <= opens /\ opens \in Nat
      BY <2>1, NoneIsNothing, Constants DEF Good, CallerInv, TypeOK, CallerType
    <3> QED BY <2>1, <3>1, NoneIsNothing DEF OpenStart, TypeOK, BlockType
  <2>2. ASSUME OpenFails \/ Bind \/ ThreadFails, NEW b \in Blocks, server[b].step # "none"
        PROVE  block'[b] = block[b]
    <3>1. b # opens
      BY <2>2 DEF OpenFails, Bind, ThreadFails, Good, CallerInv
    <3> QED BY <2>2, <3>1 DEF OpenFails, Bind, ThreadFails, TypeOK, BlockType
  <2>3. CASE MakeSocket \/ BindFails \/ OpenReturns \/ Close
    <3>1. block' = block
      BY <2>3, Zenon DEF MakeSocket, BindFails, OpenReturns, Close
    <3> QED BY <3>1
  <2> QED BY <2>1, <2>2, <2>3
<1> QED BY <1>1, <1>2, QuietAlone DEF Good

LEMMA AloneThreadStarts ==
  ASSUME TypeOK, Good, Alone, ThreadStarts
  PROVE  ~stray' /\ Alone'
<1> USE DEF CallerAt, threads
<1>1. /\ caller.step = "thread" /\ ~stray' /\ UNCHANGED <<block, session>>
  BY DEF ThreadStarts
<1>2. /\ opens \in Blocks /\ server'[opens].step \in {"accept", "callback"}
      /\ \A b \in Blocks : b # opens => server'[b] = server[b]
  BY <1>1, Constants DEF ThreadStarts, TypeOK, CallerType, Blocks, ServerType
<1>3. block[opens].live
  BY <1>1 DEF Good, CallerInv
<1>4. ListenersAlone'
  <2> SUFFICES ASSUME NEW b \in Blocks
               PROVE  /\ server'[b].step = "spawn" =>
                           block[b].live /\ \A n \in Clients : session[n].block # b
                      /\ server'[b].step = "callback" => block[b].live
                      /\ (server'[b].step = "accept" /\ \A n \in Clients : session[n].block # b)
                           => block[b].live
    BY <1>1 DEF ListenersAlone
  <2>1. CASE b = opens
    BY <1>2, <1>3, <2>1
  <2>2. CASE b # opens
    BY <1>2, <2>2 DEF Alone, ListenersAlone
  <2> QED BY <2>1, <2>2
<1>5. SessionsAlone'
  BY <1>1 DEF Alone, SessionsAlone
<1> QED BY <1>1, <1>4, <1>5 DEF Alone

LEMMA AloneListenerEnds ==
  ASSUME TypeOK, Alone, NEW b \in Blocks, AcceptRefused(b) \/ AcceptBreaks(b)
  PROVE  ~stray' /\ Alone'
<1>1. ~stray' /\ UNCHANGED <<block, session>>
  BY DEF AcceptRefused, AcceptBreaks, ServerAt
<1>2. server'[b].step = "done" /\ \A c \in Blocks : c # b => server'[c] = server[c]
  BY ServerDone DEF AcceptRefused, AcceptBreaks, TypeOK
<1>3. ListenersAlone' /\ SessionsAlone'
  BY <1>1, <1>2 DEF Alone, ListenersAlone, SessionsAlone
<1> QED BY <1>1, <1>3 DEF Alone

LEMMA AloneAccept ==
  ASSUME TypeOK, Alone, NEW b \in Blocks, Accept(b), ~shared'
  PROVE  ~stray' /\ Alone'
<1> USE DEF ServerAt, opener
<1>1. /\ server[b].step = "accept" /\ UNCHANGED session
      /\ \A n \in Clients : session[n].block # b
  BY DEF Accept
<1>2. block[b].live
  BY <1>1 DEF Alone, ListenersAlone
<1>3. ~stray'
  BY <1>2 DEF Accept
<1>4. \A c \in Blocks : block'[c].live = block[c].live
  <2>1. PICK d \in Descriptors : block' = [block EXCEPT ![b].sock = d]
    BY DEF Accept
  <2>2. block[b] \in BlockStates /\ block'[b] = [block[b] EXCEPT !.sock = d]
    BY <2>1 DEF TypeOK, BlockType
  <2>3. block'[b].live = block[b].live
    BY <2>2 DEF BlockStates
  <2> QED BY <2>1, <2>3 DEF TypeOK, BlockType
<1>5. server'[b].step = "spawn" /\ \A c \in Blocks : c # b => server'[c] = server[c]
  BY DEF Accept, TypeOK, ServerType
<1>6. ListenersAlone'
  <2> SUFFICES ASSUME NEW c \in Blocks
               PROVE  /\ server'[c].step = "spawn" =>
                           block[c].live /\ \A n \in Clients : session[n].block # c
                      /\ server'[c].step = "callback" => block[c].live
                      /\ (server'[c].step = "accept" /\ \A n \in Clients : session[n].block # c)
                           => block[c].live
    BY <1>1, <1>4 DEF ListenersAlone
  <2>1. CASE c = b
    BY <1>1, <1>2, <1>5, <2>1
  <2>2. CASE c # b
    BY <1>5, <2>2 DEF Alone, ListenersAlone
  <2> QED BY <2>1, <2>2
<1>7. SessionsAlone'
  <2>1. \A n \in Clients : session[n].step # "none" => session[n].block \in Blocks
    BY DEF TypeOK, SessionType
  <2> QED BY <1>1, <1>4, <2>1 DEF Alone, SessionsAlone
<1> QED BY <1>3, <1>6, <1>7 DEF Alone

LEMMA AloneSpawn ==
  ASSUME TypeOK, Good, Alone, NEW b \in Blocks, Spawn(b)
  PROVE  ~stray' /\ Alone'
<1> USE NoneIsNothing DEF ServerAt, opener
<1> DEFINE n == server[b].number
           new == [step |-> "start", block |-> b, client |-> server[b].client, got |-> None]
<1>1. /\ server[b].step = "spawn" /\ ~stray' /\ UNCHANGED block
      /\ session' = [session EXCEPT ![n] = new]
  BY DEF Spawn
<1>2. n \in Clients /\ session[n].step = "none" /\ session[n].block = None
  BY <1>1 DEF Good, ListenersInv, SessionsInv, TypeOK, ServerType
<1>3. new.step = "start" /\ new.block = b
  OBVIOUS
<1>4. session'[n] = new /\ \A m \in Clients : m # n => session'[m] = session[m]
  BY <1>1, <1>2 DEF TypeOK, SessionType
<1>5. block[b].live /\ \A m \in Clients : session[m].block # b
  BY <1>1 DEF Alone, ListenersAlone
<1>6. server'[b].step = "accept" /\ \A c \in Blocks : c # b => server'[c] = server[c]
  BY DEF Spawn, TypeOK, ServerType
<1> HIDE DEF n, new
<1>7. ListenersAlone'
  <2> SUFFICES ASSUME NEW c \in Blocks, c # b
               PROVE  /\ server[c].step = "spawn" =>
                           block[c].live /\ \A m \in Clients : session'[m].block # c
                      /\ server[c].step = "callback" => block[c].live
                      /\ (server[c].step = "accept" /\ \A m \in Clients : session'[m].block # c)
                           => block[c].live
    BY <1>1, <1>5, <1>6 DEF ListenersAlone
  <2>1. (\A m \in Clients : session'[m].block # c) <=> (\A m \in Clients : session[m].block # c)
    BY <1>2, <1>3, <1>4
  <2> QED BY <2>1 DEF Alone, ListenersAlone
<1>8. SessionsAlone'
  <2> SUFFICES ASSUME NEW m \in Clients, session'[m].step # "none"
               PROVE  /\ \A k \in Clients : session'[k].block = session'[m].block => k = m
                      /\ session'[m].step \in {"start", "callback", "free"} =>
                           block[session'[m].block].live
    BY <1>1 DEF SessionsAlone
  <2>1. CASE m = n
    BY <1>3, <1>4, <1>5, <2>1
  <2>2. CASE m # n
    BY <1>3, <1>4, <1>5, <2>2 DEF Alone, SessionsAlone
  <2> QED BY <2>1, <2>2
<1> QED BY <1>1, <1>7, <1>8 DEF Alone

\* The listener that cannot start a session frees a block nobody else uses.
LEMMA AloneSpawnFails ==
  ASSUME TypeOK, Good, Alone, NEW b \in Blocks, SpawnFails(b)
  PROVE  ~stray' /\ Alone'
<1> USE DEF ServerAt, opener
<1>1. server[b].step = "spawn" /\ UNCHANGED session
  BY DEF SpawnFails
<1>2. block[b].live /\ \A n \in Clients : session[n].block # b
  BY <1>1 DEF Alone, ListenersAlone
<1>3. ~stray'
  BY <1>2 DEF SpawnFails
<1>4. server'[b].step = "done" /\ \A c \in Blocks : c # b => server'[c] = server[c]
  BY ServerDone DEF SpawnFails, TypeOK
<1>5. \A c \in Blocks : c # b => block'[c] = block[c]
  BY DEF SpawnFails, TypeOK, BlockType
<1>6. ListenersAlone'
  BY <1>1, <1>4, <1>5 DEF Alone, ListenersAlone
<1>7. SessionsAlone'
  <2>1. \A n \in Clients : session[n].step # "none" => session[n].block \in Blocks
    BY DEF TypeOK, SessionType
  <2> QED BY <1>1, <1>2, <1>5, <2>1 DEF Alone, SessionsAlone
<1> QED BY <1>3, <1>6, <1>7 DEF Alone

LEMMA AloneDatagramEnds ==
  ASSUME TypeOK, Good, Alone, NEW b \in Blocks, DatagramEnds(b)
  PROVE  ~stray' /\ Alone'
<1> USE DEF ServerAt, opener
<1>1. server[b].step = "callback" /\ UNCHANGED session
  BY DEF DatagramEnds
<1>2. block[b].live
  BY <1>1 DEF Alone, ListenersAlone
<1>3. ~stray'
  BY <1>2 DEF DatagramEnds
<1>4. server'[b].step = "done" /\ \A c \in Blocks : c # b => server'[c] = server[c]
  BY ServerDone DEF DatagramEnds, TypeOK
<1>5. \A c \in Blocks : c # b => block'[c] = block[c]
  BY DEF DatagramEnds, TypeOK, BlockType
<1>6. \A n \in Clients : session[n].step # "none" => session[n].block \in Blocks \ {b}
  BY <1>1 DEF Good, SessionsInv
<1>7. ListenersAlone'
  BY <1>1, <1>4, <1>5 DEF Alone, ListenersAlone
<1>8. SessionsAlone'
  BY <1>1, <1>5, <1>6 DEF Alone, SessionsAlone
<1> QED BY <1>3, <1>7, <1>8 DEF Alone

LEMMA AloneSession ==
  ASSUME TypeOK, Alone, NEW n \in Clients, SessionCalls(n) \/ CallbackReturns(n)
  PROVE  ~stray' /\ Alone'
<1> USE DEF SessionAt, opener
<1>1. /\ session[n].step \in {"start", "callback"} /\ session[n].block \in Blocks
      /\ UNCHANGED <<block, server>>
  BY DEF SessionCalls, CallbackReturns, TypeOK, SessionType
<1>2. block[session[n].block].live
  BY <1>1 DEF Alone, SessionsAlone
<1>3. ~stray'
  BY <1>2 DEF SessionCalls, CallbackReturns
<1>4. /\ session'[n].step \in {"callback", "free"} /\ session'[n].block = session[n].block
      /\ \A m \in Clients : m # n => session'[m] = session[m]
  <2>1. CASE SessionCalls(n)
    <3>1. block[session[n].block].sock \in Numbers
      BY <1>1 DEF TypeOK, BlockType, BlockStates
    <3> QED BY <1>1, <2>1, <3>1, SessionCalled DEF SessionCalls, TypeOK, SessionSteps
  <2>2. CASE CallbackReturns(n)
    BY <1>1, <2>2, SessionMoves DEF CallbackReturns, TypeOK, SessionSteps
  <2> QED BY <2>1, <2>2
<1>5. \A m \in Clients : session'[m].block = session[m].block
  BY <1>4
<1>6. ListenersAlone'
  BY <1>1, <1>5 DEF Alone, ListenersAlone
<1>7. SessionsAlone'
  BY <1>1, <1>2, <1>4, <1>5 DEF Alone, SessionsAlone
<1> QED BY <1>3, <1>6, <1>7 DEF Alone

\* The session frees the block that only it and its listener know; the listener
\* has a session from now on, so it accepts no other while shared is FALSE.
LEMMA AloneSessionEnds ==
  ASSUME TypeOK, Good, Alone, NEW n \in Clients, SessionEnds(n)
  PROVE  ~stray' /\ Alone'
<1> USE NoneIsNothing DEF SessionAt, opener
<1> DEFINE b == session[n].block
<1>1. /\ session[n].step = "free" /\ b \in Blocks
      /\ session' = [session EXCEPT ![n].step = "done"]
      /\ UNCHANGED <<server, clients>>
  BY DEF SessionEnds, TypeOK, SessionType
<1>2. /\ block[b].live
      /\ server[b].step \in {"accept", "done"}
      /\ \A m \in Clients : session[m].block = b => m = n
  <2>1. server[b].step \in {"accept", "spawn", "done"}
    BY <1>1 DEF Good, SessionsInv
  <2> QED BY <1>1, <2>1 DEF Alone, SessionsAlone, ListenersAlone
<1>3. ~stray'
  BY <1>2 DEF SessionEnds
<1>4. \A c \in Blocks : c # b => block'[c] = block[c]
  BY DEF SessionEnds, TypeOK, BlockType
<1>5. /\ session'[n].step = "done" /\ session'[n].block = b
      /\ \A m \in Clients : m # n => session'[m] = session[m]
  BY <1>1, SessionMoves DEF TypeOK, SessionSteps
<1>6. \A m \in Clients : session'[m].block = session[m].block
  BY <1>5
<1>7. session[n].block = b
  OBVIOUS
<1> HIDE DEF b
<1>8. ListenersAlone'
  BY <1>1, <1>2, <1>4, <1>6, <1>7 DEF Alone, ListenersAlone
<1>9. SessionsAlone'
  <2>1. \A m \in Clients : m # n => session[m].block # b
    BY <1>2
  <2>2. \A m \in Clients : session[m].step # "none" => session[m].block \in Blocks
    BY DEF TypeOK, SessionType
  <2> QED BY <1>1, <1>4, <1>5, <1>6, <2>1, <2>2 DEF Alone, SessionsAlone
<1> QED BY <1>3, <1>8, <1>9 DEF Alone

LEMMA StepGood == TypeOK /\ Good /\ [Next]_vars /\ ~overtaken' => Good'
<1> SUFFICES ASSUME TypeOK, Good, [Next]_vars, ~overtaken' PROVE Good'
  OBVIOUS
<1>1. CASE UNCHANGED vars
  <2>1. CallerInv' /\ HandlesInv' /\ OwnersInv'
    BY <1>1 DEF vars, Good, CallerInv, HandlesInv, OwnersInv, Owned
  <2>2. ListenersInv'
    BY <1>1 DEF vars, Good, ListenersInv
  <2>3. SessionsInv'
    BY <1>1 DEF vars, Good, SessionsInv
  <2> QED BY <2>1, <2>2, <2>3 DEF Good
<1>2. CASE Next
  BY <1>2, StepCaller, StepThreadStarts, StepClose, StepListenerEnds, StepAccept, StepSpawn,
     StepSpawnFails, StepDatagramEnds, StepSessionCalls, StepCallbackReturns, StepSessionEnds,
     Zenon DEF Next
<1> QED BY <1>1, <1>2

LEMMA StepAlone == TypeOK /\ Good /\ Alone /\ ~stray /\ [Next]_vars /\ ~shared' => ~stray' /\ Alone'
<1> SUFFICES ASSUME TypeOK, Good, Alone, ~stray, [Next]_vars, ~shared' PROVE ~stray' /\ Alone'
  OBVIOUS
<1>1. CASE UNCHANGED vars
  BY <1>1 DEF vars, Alone, ListenersAlone, SessionsAlone
<1>2. CASE Next
  BY <1>2, AloneCaller, AloneThreadStarts, AloneListenerEnds, AloneAccept, AloneSpawn,
     AloneSpawnFails, AloneDatagramEnds, AloneSession, AloneSessionEnds, Zenon DEF Next
<1> QED BY <1>1, <1>2

LEMMA StepSeparate == TypeOK /\ SeparateInv /\ [Next]_vars => SeparateInv'
<1> SUFFICES ASSUME TypeOK, SeparateInv, [Next]_vars PROVE SeparateInv'
  OBVIOUS
<1>1. overtaken' => shared'
  BY OvertakenIsShared, Zenon DEF SeparateInv
<1>2. ASSUME ~overtaken', ~stray' PROVE Good'
  <2>1. ~overtaken /\ ~stray
    BY <1>2, HistoryStays, Zenon
  <2> QED BY <1>2, <2>1, StepGood, Zenon DEF SeparateInv
<1>3. ASSUME ~shared' PROVE ~stray' /\ Alone'
  <2>1. ~shared
    BY <1>3, HistoryStays, Zenon
  <2>2. ~overtaken /\ ~stray /\ Alone /\ Good
    BY <2>1, Zenon DEF SeparateInv
  <2> QED BY <1>3, <2>2, StepAlone, Zenon
<1> QED BY <1>1, <1>2, <1>3, Zenon DEF SeparateInv

LEMMA Separate == Spec => [](TypeOK /\ SeparateInv)
<1>1. Init => TypeOK /\ SeparateInv
  BY InitType, InitSeparate
<1>2. TypeOK /\ SeparateInv /\ [Next]_vars => (TypeOK /\ SeparateInv)'
  BY StepType, StepSeparate
<1> QED BY <1>1, <1>2, PTL DEF Spec

\* However many connections its listener accepts, every callback has the socket
\* of its own client, as long as no listener stores a connection before a
\* session has read the one before and no freed block is used; and neither
\* happens before a listener stores a second connection in its block
\* (tcp_server_process, server_accpet), whoever opens and closes servers.
THEOREM SessionsAreSeparate == Spec => []SessionsSeparate
<1>1. TypeOK /\ SeparateInv => SessionsSeparate
  <2> SUFFICES ASSUME SeparateInv PROVE SessionsSeparate
    OBVIOUS
  <2>1. ~shared => ~stray /\ ~overtaken
    BY Zenon DEF SeparateInv
  <2>2. ASSUME ~overtaken, ~stray, NEW n \in Clients, session[n].step = "callback"
        PROVE  session[n].got = session[n].client /\ use[session[n].client] = Connection(n)
    <3>1. SessionsInv
      BY <2>2, Zenon DEF SeparateInv, Good
    <3> QED BY <2>2, <3>1 DEF SessionsInv
  <2> QED BY <2>1, <2>2, Zenon DEF SessionsSeparate
<1> QED BY <1>1, Separate, PTL

-----------------------------------------------------------------------------
(* Who closes what.                                                        *)

LEMMA CloserIs ==
  ASSUME NEW c \in Closers
  PROVE  \/ c = Closer("open", opens, caller.sock) /\ caller.sock # None
         \/ \E h \in handles : c = Closer("handle", h.of, h.sock)
         \/ \E b \in Blocks : server[b].step = "spawn" /\ c = Closer("listener", b, server[b].client)
         \/ \E n \in Clients : /\ session[n].step = "start"
                               /\ c = Closer("session", n, block[session[n].block].sock)
         \/ \E n \in Clients : /\ session[n].step = "callback"
                               /\ c = Closer("session", n, session[n].got)
BY DEF Closers

\* What a closer closes is open, and is its own.
LEMMA CloserOwns ==
  ASSUME TypeOK, Good, NEW c \in Closers
  PROVE  /\ c = Closer(c.by, c.of, c.sock)
         /\ c.sock \in Descriptors
         /\ \/ /\ c.by = "open"
               /\ c.of = opens /\ caller.step # "idle"
               /\ use[c.sock].kind \in {"unbound", "listen", "datagram"} /\ use[c.sock].of = c.of
            \/ /\ c.by = "handle"
               /\ caller.step # "idle" => c.of # opens
               /\ use[c.sock].kind \in {"listen", "datagram"} /\ use[c.sock].of = c.of
            \/ /\ c.by = "listener" /\ c.of \in Blocks /\ server[c.of].step = "spawn"
               /\ use[c.sock] = Connection(server[c.of].number)
            \/ /\ c.by = "session" /\ c.of \in Clients /\ session[c.of].step # "none"
               /\ use[c.sock] = Connection(c.of)
<1> USE DEF Closer
<1>1. CASE c = Closer("open", opens, caller.sock) /\ caller.sock # None
  <2>1. c.by = "open" /\ c.of = opens /\ c.sock = caller.sock /\ c = Closer(c.by, c.of, c.sock)
    BY <1>1
  <2>2. caller.sock \in Descriptors /\ caller.step \in {"bind", "thread", "store"}
    BY <1>1 DEF TypeOK, CallerType, Calls
  <2>3. use[caller.sock].kind \in {"unbound", "listen", "datagram"} /\ use[caller.sock].of = opens
    BY <2>2, Kinds DEF Good, CallerInv
  <2> QED BY <2>1, <2>2, <2>3
<1>2. ASSUME NEW h \in handles, c = Closer("handle", h.of, h.sock)
      PROVE  /\ c.by = "handle" /\ c = Closer(c.by, c.of, c.sock)
             /\ c.sock \in Descriptors
             /\ caller.step # "idle" => c.of # opens
             /\ use[c.sock].kind \in {"listen", "datagram"} /\ use[c.sock].of = c.of
  <2>1. c.by = "handle" /\ c.of = h.of /\ c.sock = h.sock /\ c = Closer(c.by, c.of, c.sock)
    BY <1>2
  <2>2. h.sock \in Descriptors /\ h.of \in Nat /\ opens \in Nat
    BY NoneIsNothing DEF TypeOK, HandlesType, CallerType
  <2>3. /\ use[h.sock].kind \in {"listen", "datagram"} /\ use[h.sock].of = h.of
        /\ caller.step # "idle" => h.of < opens
    BY Kinds DEF Good, HandlesInv
  <2> QED BY <2>1, <2>2, <2>3
<1>3. ASSUME NEW b \in Blocks, server[b].step = "spawn", c = Closer("listener", b, server[b].client)
      PROVE  /\ c.by = "listener" /\ c = Closer(c.by, c.of, c.sock) /\ c.of = b
             /\ c.sock \in Descriptors /\ use[c.sock] = Connection(server[b].number)
  <2>1. c.by = "listener" /\ c.of = b /\ c.sock = server[b].client /\ c = Closer(c.by, c.of, c.sock)
    BY <1>3
  <2>2. server[b].client \in Descriptors /\ use[server[b].client] = Connection(server[b].number)
    BY <1>3 DEF Good, ListenersInv, TypeOK, ServerType
  <2> QED BY <2>1, <2>2
<1>4. ASSUME NEW n \in Clients, session[n].step \in {"start", "callback"}, NEW d,
             d = IF session[n].step = "start" THEN block[session[n].block].sock ELSE session[n].got,
             c = Closer("session", n, d)
      PROVE  /\ c.by = "session" /\ c = Closer(c.by, c.of, c.sock) /\ c.of = n
             /\ c.sock \in Descriptors /\ use[c.sock] = Connection(n)
  <2>1. c.by = "session" /\ c.of = n /\ c.sock = d /\ c = Closer(c.by, c.of, c.sock)
    BY <1>4
  <2>2. d = session[n].client /\ d \in Descriptors /\ use[d] = Connection(n)
    BY <1>4 DEF Good, SessionsInv
  <2> QED BY <2>1, <2>2
<1> HIDE DEF Closer
<1> QED BY <1>1, <1>2, <1>3, <1>4, CloserIs

\* Every descriptor that is open has exactly one who will close it, and nobody
\* is about to close one that is not open: opens that fail and connections
\* without a thread leave none (open_tcp_server, open_udp_server,
\* server_accpet).  This holds for as long as no session was overtaken by the
\* next connection of its listener and no freed block was used.
THEOREM DescriptorsAreAccounted == Spec => []DescriptorsAccounted
<1>1. TypeOK /\ SeparateInv => DescriptorsAccounted
  <2> SUFFICES ASSUME TypeOK, Good
               PROVE  /\ Opened = {c.sock : c \in Closers}
                      /\ \A c, e \in Closers : c.sock = e.sock => c = e
    BY Zenon DEF SeparateInv, DescriptorsAccounted
  <2>1. ASSUME NEW d \in Opened PROVE \E c \in Closers : d = c.sock
    <3>1. d \in Descriptors /\ Owned(d)
      BY DEF Opened, Good, OwnersInv
    <3>2. \A by, of, s : Closer(by, of, s).sock = s
      BY DEF Closer
    <3>3. CASE d = caller.sock
      <4>1. Closer("open", opens, d) \in Closers
        BY <3>1, <3>3, NoneIsNothing DEF Closers
      <4> QED BY <3>2, <4>1
    <3>4. ASSUME NEW h \in handles, d = h.sock PROVE \E c \in Closers : d = c.sock
      <4>1. Closer("handle", h.of, h.sock) \in Closers
        BY DEF Closers
      <4> QED BY <3>2, <3>4, <4>1
    <3>5. ASSUME NEW b \in Blocks, server[b].step = "spawn", d = server[b].client
          PROVE  \E c \in Closers : d = c.sock
      <4>1. Closer("listener", b, server[b].client) \in Closers
        BY <3>5 DEF Closers
      <4> QED BY <3>2, <3>5, <4>1
    <3>6. ASSUME NEW n \in Clients, session[n].step = "start", d = session[n].client
          PROVE  \E c \in Closers : d = c.sock
      <4>1. Closer("session", n, block[session[n].block].sock) \in Closers
        BY <3>6 DEF Closers
      <4>2. block[session[n].block].sock = d
        BY <3>6 DEF Good, SessionsInv
      <4> QED BY <3>2, <4>1, <4>2
    <3>7. ASSUME NEW n \in Clients, session[n].step = "callback", d = session[n].client
          PROVE  \E c \in Closers : d = c.sock
      <4>1. Closer("session", n, session[n].got) \in Closers
        BY <3>7 DEF Closers
      <4>2. session[n].got = d
        BY <3>7 DEF Good, SessionsInv
      <4> QED BY <3>2, <4>1, <4>2
    <3> QED BY <3>1, <3>3, <3>4, <3>5, <3>6, <3>7, Zenon DEF Owned
  <2>2. ASSUME NEW c \in Closers PROVE c.sock \in Opened
    BY CloserOwns, Kinds DEF Opened
  <2>3. ASSUME NEW c \in Closers, NEW e \in Closers, c.sock = e.sock PROVE c = e
    <3>1. /\ c = Closer(c.by, c.of, c.sock) /\ e = Closer(e.by, e.of, e.sock)
      BY CloserOwns, Zenon
    <3>2. c.by = e.by /\ c.of = e.of
      <4>1. \A b, a \in Blocks : server[b].step = "spawn" /\ server[a].step = "spawn"
                                   /\ server[a].number = server[b].number => a = b
        BY DEF Good, ListenersInv
      <4>2. \A b \in Blocks : server[b].step = "spawn" => session[server[b].number].step = "none"
        BY DEF Good, ListenersInv
      <4> QED BY <2>3, <4>1, <4>2, CloserOwns, Kinds
    <3> QED BY <2>3, <3>1, <3>2
  <2> QED BY <2>1, <2>2, <2>3
<1> QED BY <1>1, Separate, PTL
=============================================================================
