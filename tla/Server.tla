------------------------------- MODULE Server -------------------------------
(***************************************************************************)
(* The servers of network.c: what network_server_open starts, the threads  *)
(* of a server and network_server_close.  A TCP server has a listener      *)
(* (server_accpet), which starts a session (tcp_server_process) for every  *)
(* connection; listener and sessions share the one block open_tcp_server   *)
(* allocates.  The UDP, broadcast and multicast servers have one thread,   *)
(* which runs the callback once on the server's socket.                    *)
(*                                                                         *)
(* Slots are taken and released as in SocketTable, so a handle is here the *)
(* socket in its slot.  A descriptor is a number that is used again once   *)
(* it is closed; the threads of a server remember numbers.  socket and     *)
(* accept take the lowest number that is free.                             *)
(***************************************************************************)
EXTENDS Integers, FiniteSets

CONSTANTS
  Protocols,      \* the values of m_pro_type callers pass
  Descriptors,    \* the numbers of descriptors
  MaxOpens,       \* bound: how many servers are opened
  MaxClients      \* bound: how many clients connect

ASSUME ServerAssumption ==
  /\ Protocols \subseteq {"TCP", "UDP", "BROADCAST", "MULTICAST"}
  /\ Descriptors \subseteq Nat \ {0}
  /\ IsFiniteSet(Descriptors)
  /\ MaxOpens \in Nat
  /\ MaxClients \in Nat

Blocks == 1..MaxOpens                \* a block for each open
Clients == 1..MaxClients
None == 0

VARIABLES
  use,            \* what a descriptor is: its kind and whose it is
  block,          \* the contexts: free or not, and the socket they hold
  caller,         \* the network_server_open under way
  handles,        \* the sockets in the slots of the servers that are open
  opens,          \* how many blocks were asked for
  server,         \* the thread of a server and what it remembers
  session,        \* the thread of a connection and what it remembers
  clients,        \* how many clients connected
  shared,         \* history: a listener stored a second connection
  overtaken,      \* history: it did so before a session had read the one before
  stray           \* a thread used or freed a block that was free

vars == <<use, block, caller, handles, opens, server, session, clients, shared, overtaken, stray>>

Free == [kind |-> "free", of |-> None]
Listening(b) == [kind |-> "listen", of |-> b]
Datagrams(b) == [kind |-> "datagram", of |-> b]
Connection(n) == [kind |-> "client", of |-> n]

Opened == {d \in Descriptors : use[d] # Free}

(* The number the next socket gets; none when the process has all it may. *)
Lowest(d) == use[d] = Free /\ \A e \in Descriptors : use[e] = Free => d <= e

Idle == [step |-> "idle", proto |-> "NULL", sock |-> None]
NoServer == [step |-> "none", sock |-> None, client |-> None, number |-> None]
NoSession == [step |-> "none", block |-> None, client |-> None, got |-> None]

Init ==
  /\ use = [d \in Descriptors |-> Free]
  /\ block = [b \in Blocks |-> [live |-> FALSE, sock |-> None]]
  /\ caller = Idle
  /\ handles = {}
  /\ opens = 0
  /\ server = [b \in Blocks |-> NoServer]
  /\ session = [n \in Clients |-> NoSession]
  /\ clients = 0
  /\ shared = FALSE
  /\ overtaken = FALSE
  /\ stray = FALSE

-----------------------------------------------------------------------------
(* network_server_open and open_tcp_server, open_udp_server, ...           *)

CallerAt(step) == caller.step = step /\ ~stray
threads == <<server, session, clients, shared, overtaken, stray>>

(* The datagram servers allocate their block first.  opens is the block of *)
(* the call under way.                                                     *)
OpenStart(p) ==
  /\ CallerAt("idle")
  /\ opens < MaxOpens
  /\ opens' = opens + 1
  /\ caller' = [step |-> "socket", proto |-> p, sock |-> None]
  /\ block' = [block EXCEPT ![opens + 1].live = (p # "TCP")]
  /\ UNCHANGED <<use, handles, threads>>

(* No address, no socket or, for a datagram server, no memory: the call    *)
(* returns.  The block it may have is lost.                                *)
OpenFails ==
  /\ CallerAt("socket")
  /\ caller' = Idle
  /\ \/ UNCHANGED block
     \/ /\ caller.proto # "TCP"
        /\ block' = [block EXCEPT ![opens].live = FALSE]
  /\ UNCHANGED <<use, handles, opens, threads>>

MakeSocket ==
  /\ CallerAt("socket")
  /\ \E d \in Descriptors :
       /\ Lowest(d)
       /\ use' = [use EXCEPT ![d] = [kind |-> "unbound", of |-> opens]]
       /\ caller' = [caller EXCEPT !.step = "bind", !.sock = d]
  /\ UNCHANGED <<block, handles, opens, threads>>

(* Mutant: a socket that cannot be bound stays open. *)
BindFailsAndKeeps ==
  /\ CallerAt("bind")
  /\ caller' = Idle
  /\ UNCHANGED <<use, block, handles, opens, threads>>

(* bind fails, or a TCP server gets no memory for its block. *)
BindFails ==
  /\ CallerAt("bind")
  /\ use' = [use EXCEPT ![caller.sock] = Free]
  /\ caller' = Idle
  /\ UNCHANGED <<block, handles, opens, threads>>

(* bind, and for a TCP server listen and the allocation of the block. *)
Bind ==
  /\ CallerAt("bind")
  /\ use' = [use EXCEPT ![caller.sock] =
               IF caller.proto = "TCP" THEN Listening(opens) ELSE Datagrams(opens)]
  /\ block' = [block EXCEPT ![opens] = [live |-> TRUE, sock |-> caller.sock]]
  /\ caller' = [caller EXCEPT !.step = "thread"]
  /\ UNCHANGED <<handles, opens, threads>>

(* pthread_create fails: socket and block are given back. *)
ThreadFails ==
  /\ CallerAt("thread")
  /\ use' = [use EXCEPT ![caller.sock] = Free]
  /\ block' = [block EXCEPT ![opens].live = FALSE]
  /\ caller' = Idle
  /\ UNCHANGED <<handles, opens, threads>>

(* The thread remembers the socket from now on: nobody changes its block   *)
(* before it has read it.                                                  *)
ThreadStarts ==
  /\ CallerAt("thread")
  /\ server' = [server EXCEPT ![opens] =
                  [step |-> IF caller.proto = "TCP" THEN "accept" ELSE "callback",
                   sock |-> block[opens].sock, client |-> None, number |-> None]]
  /\ caller' = [caller EXCEPT !.step = "store"]
  /\ UNCHANGED <<use, block, handles, opens, session, clients, shared, overtaken, stray>>

(* The slot is filled and the handle returned. *)
OpenReturns ==
  /\ CallerAt("store")
  /\ handles' = handles \cup {[of |-> opens, sock |-> caller.sock]}
  /\ caller' = Idle
  /\ UNCHANGED <<use, block, opens, threads>>

(* Mutant: the socket is not closed. *)
CloseKeepsSocket ==
  /\ CallerAt("idle")
  /\ \E h \in handles : handles' = handles \ {h}
  /\ UNCHANGED <<use, block, caller, opens, threads>>

(* network_server_close: shutdown and close; a thread that waits in accept *)
(* or in its callback's recv wakes up with an error.                       *)
Close ==
  /\ CallerAt("idle")
  /\ \E h \in handles :
       /\ handles' = handles \ {h}
       /\ use' = [use EXCEPT ![h.sock] = Free]
  /\ UNCHANGED <<block, caller, opens, threads>>

-----------------------------------------------------------------------------
(* server_accpet, the listener of block b.                                 *)

ServerAt(b, step) == server[b].step = step /\ ~stray
opener == <<caller, handles, opens>>

(* accept returns a connection; its socket is stored in the block, where   *)
(* the session is to find it.  It is the number that counts: a listener    *)
(* whose server was closed accepts for the one that has its number now.    *)
Accept(b) ==
  /\ ServerAt(b, "accept")
  /\ clients < MaxClients
  /\ use[server[b].sock].kind = "listen"
  /\ clients' = clients + 1
  /\ \E d \in Descriptors :
       /\ Lowest(d)
       /\ use' = [use EXCEPT ![d] = Connection(clients')]
       /\ block' = [block EXCEPT ![b].sock = d]
       /\ server' = [server EXCEPT ![b] =
                       [step |-> "spawn", sock |-> @.sock, client |-> d, number |-> clients']]
  /\ shared' = (shared \/ \E n \in Clients : session[n].block = b)
  /\ overtaken' =
       (overtaken \/ \E n \in Clients : session[n].step = "start" /\ session[n].block = b)
  /\ stray' = ~block[b].live
  /\ UNCHANGED <<opener, session>>

(* The socket does not listen any more. *)
AcceptRefused(b) ==
  /\ ServerAt(b, "accept")
  /\ use[server[b].sock].kind # "listen"
  /\ server' = [server EXCEPT ![b].step = "done"]
  /\ UNCHANGED <<use, block, opener, session, clients, shared, overtaken, stray>>

(* Any other error of accept, too many open files or a connection that is  *)
(* gone, ends the listener as well; the server stays open.                 *)
AcceptBreaks(b) ==
  /\ ServerAt(b, "accept")
  /\ use[server[b].sock].kind = "listen"
  /\ server' = [server EXCEPT ![b].step = "done"]
  /\ UNCHANGED <<use, block, opener, session, clients, shared, overtaken, stray>>

(* A thread is started for the connection. *)
Spawn(b) ==
  /\ ServerAt(b, "spawn")
  /\ session' = [session EXCEPT ![server[b].number] =
                   [step |-> "start", block |-> b, client |-> server[b].client, got |-> None]]
  /\ server' = [server EXCEPT ![b] =
                  [step |-> "accept", sock |-> @.sock, client |-> None, number |-> None]]
  /\ UNCHANGED <<use, block, opener, clients, shared, overtaken, stray>>

(* Mutant: the listener goes on with the block it freed. *)
SpawnFailsAndContinues(b) ==
  /\ ServerAt(b, "spawn")
  /\ use' = [use EXCEPT ![server[b].client] = Free]
  /\ block' = [block EXCEPT ![b].live = FALSE]
  /\ stray' = ~block[b].live
  /\ server' = [server EXCEPT ![b] =
                  [step |-> "accept", sock |-> @.sock, client |-> None, number |-> None]]
  /\ UNCHANGED <<opener, session, clients, shared, overtaken>>

(* It cannot be started: connection and block are released and the         *)
(* listener ends.                                                          *)
SpawnFails(b) ==
  /\ ServerAt(b, "spawn")
  /\ use' = [use EXCEPT ![server[b].client] = Free]
  /\ block' = [block EXCEPT ![b].live = FALSE]
  /\ stray' = ~block[b].live
  /\ server' = [server EXCEPT ![b].step = "done"]
  /\ UNCHANGED <<opener, session, clients, shared, overtaken>>

-----------------------------------------------------------------------------
(* tcp_server_process, the session of client n.                            *)

SessionAt(n, step) == session[n].step = step /\ ~stray

(* The callback is called with the address of what is in the block and     *)
(* reads its socket there.  The callback modelled does so once: one that   *)
(* comes back finds what the listener has stored by then.                  *)
SessionCalls(n) ==
  /\ SessionAt(n, "start")
  /\ session' = [session EXCEPT ![n].step = "callback", ![n].got = block[session[n].block].sock]
  /\ stray' = ~block[session[n].block].live
  /\ UNCHANGED <<use, block, opener, server, clients, shared, overtaken>>

(* Nobody else closes the connection, so the callback does. *)
CallbackReturns(n) ==
  /\ SessionAt(n, "callback")
  /\ use' = [use EXCEPT ![session[n].got] = Free]
  /\ session' = [session EXCEPT ![n].step = "free"]
  /\ UNCHANGED <<block, opener, server, clients, shared, overtaken, stray>>

(* The session frees the block of its listener. *)
SessionEnds(n) ==
  /\ SessionAt(n, "free")
  /\ block' = [block EXCEPT ![session[n].block].live = FALSE]
  /\ stray' = ~block[session[n].block].live
  /\ session' = [session EXCEPT ![n].step = "done"]
  /\ UNCHANGED <<use, opener, server, clients, shared, overtaken>>

(* udp_server_process and its like: the callback returns when it likes, at *)
(* the latest when its socket is shut, and the block is freed.             *)
DatagramEnds(b) ==
  /\ ServerAt(b, "callback")
  /\ server' = [server EXCEPT ![b].step = "done"]
  /\ block' = [block EXCEPT ![b].live = FALSE]
  /\ stray' = ~block[b].live
  /\ UNCHANGED <<use, opener, session, clients, shared, overtaken>>

Next ==
  \/ \E p \in Protocols : OpenStart(p)
  \/ OpenFails \/ MakeSocket \/ BindFails \/ Bind \/ ThreadFails \/ ThreadStarts
  \/ OpenReturns \/ Close
  \/ \E b \in Blocks :
       \/ Accept(b) \/ AcceptRefused(b) \/ AcceptBreaks(b) \/ Spawn(b) \/ SpawnFails(b)
       \/ DatagramEnds(b)
  \/ \E n \in Clients : SessionCalls(n) \/ CallbackReturns(n) \/ SessionEnds(n)

(* Threads are scheduled.  Nobody has to connect or to open a server, and  *)
(* no error is owed but the one of accept on a socket that is shut.        *)
Fairness ==
  /\ \A b \in Blocks : WF_vars(AcceptRefused(b)) /\ WF_vars(Spawn(b) \/ SpawnFails(b))
  /\ WF_vars(OpenReturns)

Spec == Init /\ [][Next]_vars /\ Fairness

-----------------------------------------------------------------------------
(* However many connections a listener accepts, and although servers come  *)
(* and go and numbers are used again, each session's callback gets the     *)
(* connection it was started for, unless                                   *)
(*   - the listener stored the next connection before a session had read   *)
(*     its own (network.c 224-228 and 197): overtaken, or                  *)
(*   - a thread used or freed a block that was free: stray.                *)
(* The second happens only after a listener stored a second connection in  *)
(* its block, which its first session frees (202): shared.  A listener     *)
(* with one connection is free of both.                                    *)
SessionsSeparate ==
  /\ ~shared => ~stray /\ ~overtaken
  /\ ~overtaken /\ ~stray =>
       \A n \in Clients : session[n].step = "callback" =>
         session[n].got = session[n].client /\ use[session[n].client] = Connection(n)

(* Who closes which descriptor: the caller in the middle of an open, a     *)
(* handle, a listener about to start a session and a session.              *)
Closer(by, of, d) == [by |-> by, of |-> of, sock |-> d]

Closers ==
  {Closer("open", opens, d) : d \in {caller.sock} \ {None}}
  \cup {Closer("handle", h.of, h.sock) : h \in handles}
  \cup {Closer("listener", b, server[b].client) :
          b \in {c \in Blocks : server[c].step = "spawn"}}
  \cup {Closer("session", n, block[session[n].block].sock) :
          n \in {m \in Clients : session[m].step = "start"}}
  \cup {Closer("session", n, session[n].got) :
          n \in {m \in Clients : session[m].step = "callback"}}

(* On the same two conditions (no session overtaken, no freed block used)  *)
(* every descriptor that is open has one who will close it, and only one,  *)
(* and nobody is about to close one that is not open.  Opens that fail at  *)
(* any point leave none, neither do connections without a thread.  After   *)
(* an overtaking one connection is lost and another closed twice: nothing  *)
(* is claimed there.                                                       *)
DescriptorsAccounted ==
  ~overtaken /\ ~stray =>
    /\ Opened = {c.sock : c \in Closers}
    /\ \A c, e \in Closers : c.sock = e.sock => c = e

(* The listener of a server that is closed ends, even if it is starting a  *)
(* session at that moment, unless another server gets its number before it *)
(* looks (network.c 213 keeps the number in sockfd): then it accepts that  *)
(* server's connections, which is not forbidden here.  Nor is anything     *)
(* claimed of a listener once a thread used a block that was free.         *)
ListenerEnds ==
  \A b \in Blocks :
    (server[b].step \in {"accept", "spawn"} /\ \A h \in handles : h.of # b)
      ~> \/ server[b].step = "done"
         \/ \E h \in handles : h.of = b
         \/ \E d \in Descriptors : /\ d = server[b].sock
                                   /\ use[d].kind = "listen" /\ use[d].of # b
         \/ stray
=============================================================================
