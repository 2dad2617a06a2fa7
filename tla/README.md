# dev_communicate: a verification development

`dev_communicate` is a small Linux daemon for an ARM board. A microcontroller (the MCU)
on the serial line asks for the board's network configuration (GET) or orders a new one
(SET). The daemon answers with status frames, passes a new configuration to a web service
by HTTP POST, remembers the DHCP mode in a file, and tells the MCU when the configuration
changes. Paths below are relative to `src/`.

The project consists of one specification per component, one that composes the POST with
the socket table and shows it to implement an abstract one, their TLC instances and a module
of proofs for each.

| Module | Models | Instance | Proofs |
|---|---|---|---|
| `SerialReceiver` | `main()` from `read` to a command: byte counter, locator, dispatch loop | `MCSerialReceiver` | `SerialReceiver_proofs` |
| `Gateway` | what `main()` and `ip_change_process()` do with commands and changes | `MCGateway` | `Gateway_proofs` |
| `ComportList` | the serial port library `comport/comport.c` | `MCComportList` | `ComportList_proofs` |
| `SocketTable` | the socket table and client interface of `network.c` | `MCSocketTable` | `SocketTable_proofs` |
| `Delivery` | abstract: what the POST of a configuration promises | - | in `Post_proofs` |
| `Post` | the POST of `demo.c` as a caller of `SocketTable`, with `Base64` | `MCPost` | `Post_proofs` |
| `Base64` | `base64.cpp` | in `MCPost` | `Base64_proofs` |
| `Server` | the servers of `network.c` and their threads | `MCServer` | `Server_proofs` |
| `NetworkTools` | `get_network` and `set_network` against the kernel's tables | `MCNetworkTools` | `NetworkTools_proofs` |

`PROJECT.json` maps every definition that models code to its source lines, and lists the
runs, the mutants, the hazards and the theorems.

## 1. Inventory

### Components

| Component | State | Operations | Behaves correctly when |
|---|---|---|---|
| Serial receiver (`demo.c` 213-244, 409-533) | `buf`, `offset`, `rec_len`, `ret`, `find_offset`, `m_app_quit` | one turn of the main loop per read; `find_mcu_network_code`; dispatch loop | frames come out of the byte stream whatever pieces the driver delivers; no read outside the buffer; no command twice; no frame lost on a clean line; a signal ends it |
| Command service (`demo.c` 87-115, 147-211, 246-286, 481-539) | `network_param`, `dhcp_stat`, `re_cnt`, the DHCP mode file | GET, SET, POST with three attempts, mode file, status frame | a reply is fresh and claims no mode that was not handed over; the file agrees with the web service; each command is answered |
| POST (`demo.c` 117-211) | `re_cnt`, `m_net_handle`, the request | at most `re_cnt` attempts, each open, send, close | the request leaves whole and once, or not; one connection at a time, closed on every path; it ends; the service reads the credentials that were meant |
| Watching thread (`demo.c` 306-334) | `m_network_param`, its snapshot | one round per second: read, compare, announce | lasting changes are noticed; the MCU is kept informed until the first GET |
| Shared context (`demo.c` 288-304, 74-85) | `m_mutex`, `m_is_get_ip`, `m_app_quit` | initialisation, signal handler | frames never interleave; both threads end |
| Serial ports (`comport/comport.c`) | `m_inited`, the linked list, per port descriptor and configuration; the device's line settings | module init/uninit, open, close, set_cfg, get_cfg, recv, send | the list is complete; a device has one holder; descriptors are not lost or mixed up; the line agrees with the configuration |
| Socket table (`network.c` 37-126, 930-1000, 1117-1187) | `m_sock_param_arry_ptr`, `m_cur_arry_max`, `m_arry_status`, a mutex per slot | client open, close, send, recv, check_timeout; growth | a handle leads to its own socket until closed; nothing leaks; messages are contiguous |
| Servers (`network.c` 128-240, 450-803, 1002-1115) | accept contexts, listeners, session threads | server open, close, accept loop, sessions | each session gets its own socket; descriptors are not lost when an open fails; a closed server's threads end |
| Network tools (`network_tools.cpp`) | none of its own; ioctl, `/proc/net/route`, `resolv.conf` | `get_network`, `set_network`, address conversion | what is set is what is read; routes do not pile up; no socket is left open; conversions are inverse |
| Base64 (`base64.cpp`) | none | encode, decode | decode inverts encode |
| cJSON | - | vendored, used by nobody | - |

### Interaction

* The MCU's bytes reach `main()` through `comport_transfer_recv` (select, then read). The
  receiver hands the command service one command at a time, in the same thread.
* A SET calls `network_client_open`/`send`/`close`; `main()` is the only user of the
  socket table, with at most one handle at a time.
* The servers take slots of the same table. Their threads share blocks of the heap with each
  other and remember descriptors that `network_server_close` closes under them.
* `main()` and `ip_change_process()` share the serial port, under `m_mutex`, and
  `m_is_get_ip`, `m_app_quit` and the mode file, under nothing. Each calls `get_network`
  on its own; `main()` does so *before* it takes the mutex.
* `signal_handler` sets `m_app_quit` from any of the signals 1 to 31, SIGPIPE of a broken
  POST included. Both threads poll it.
* The kernel's configuration changes at any time, also while it is read field by field.

### Hard behaviours

Interleaving of the two threads and of the network's changes; snapshots that are stale when
sent; calls that fail half way (`get_network`, POST, `comport_set_cfg`, `comport_open`,
`connect`); crash between POST and mode file; a bounded retry whose failure must not be
recorded; reads of any size; trusting a length byte before validating it; pointer surgery in a
list; a table at its limit; attempts that break in the middle of a request; a heap block shared
by a listener and its sessions; descriptor numbers that are used again; a route that is deleted
before its successor is added; progress of `main()` while commands, signals and the mutex
compete. `PROJECT.json` lists each at its line; those with an empty property list say why.

## 2. Modules

### SerialReceiver

A behaviour chooses a byte stream and how many bytes each `read` returns (1 up to what was
asked for). `LoopTest`, `RecvNothing`, `RecvError` are the loop's condition, its `continue`
and its `break`. The loop body has five mutually exclusive outcomes, one action each:
`HeaderRejected`, `HeaderByte`, `HeaderComplete`, `BodyPart`, `FrameComplete`. Each includes
the store into `buf` (`Take`), the test of the header byte and the update of `offset` and
`rec_len`. In a complete buffer `Codes` is the set of indices at which
`find_mcu_network_code` could stop and `FirstCode` the one at which it does.
`HandleCommand`, `SkipShortCommand` (the `continue` of `demo.c` 483-486, which changes
nothing) and `RestartReceiving` are the dispatch loop. What handling a command does is left
to `Gateway`; here it is logged in `cmds` with its position in the stream.

`buf` has the `DataLen` bytes a frame can use of the code's 256. `find_offset` is reset
when the dispatch loop is left instead of when it is entered, where the code does it; it
is not read in between.

### Gateway

The receiver is abstracted to "a command arrives" (`HandleGet`, `HandleSet`). From there
every call that can block, fail or see shared state is a step: `ReadMode`, `PostFails`,
`PostSent`, `PostGivesUp`, `TruncateFile`/`FlushFile` (fopen "w+" and fclose), `MainReads`
(one field of `get_network`), `MainReadFails` (it returns early, its result is not looked
at), `MainLocks`, `MainSends`. `LeaveLoop`, `ClosePort`, `ReturnFromMain` end the process
with its detached thread. `IpStarts` to `IpSends` are one round of `ip_change_process`.
`Reconfigure`, `Signal`, `Restart` are the environment.

A configuration is a function from fields to values; the last field behaves like `m_dns`,
which `get_dns` clears before it looks for one. Uninitialised locals hold any element of
`Stack`. The mode file distinguishes absent, emptied and written. `mode`, `uncertain` and
`seen` are history variables: what was handed over to the web service, whether an access of
`main()` to the file failed or is unfinished, and per field the values in force since the
snapshot was due. The snapshot at boot may stop early as well (`BootSnapshots`), except where
`MaxFails` is 0 and no call fails.

### ComportList

The library takes no lock and `demo.c` calls its state-changing functions from one thread, so a
call is an action. `links` and blocks are explicit: blocks are reused after `free`, an access
through a link to a freed block sets `stray`, after which behaviour is undefined and no call
follows. `comport_list_add_to_tail` and `comport_list_del` store what the code stores, in its
order. `comport_module_uninit` repeats the unlink-and-free of one port (`Release`) for the nodes
its loop visits (`ReleaseAll`). `comport_set_dev_attr` reads, changes and writes the line
settings; `|= ~CSTOPB` is modelled by what it does to the flags (`NewLine`). Names are model
values; those that fill the 16 bytes of `m_name` (`Exact`, `Longer`) are compared the way
`strcmp` reads on into `m_cfg` (`SameName`).

`comport_list_add_to_tail` inserts between the *first* element and the head. With at most
one port in the list that is the tail; with two it drops the second. The history variable `crowded`
records that a port was added to a list of two or more. The properties with `~crowded` say
that everything is right before that (and `demo.c` opens one port); `WalkReturns` and
`OwnDescriptor` say what remains true after it, and so does the first half of
`OnlyFailedOpensLeak`: descriptors without a port are as many as the opens whose attribute
calls failed (`failedOpens`). Calls of `comport_set_cfg` that fail are counted apart
(`failedSets`); they leave no descriptor behind, and the one that puts the old configuration
back may fail as well.

### SocketTable

A slot is free when `m_sock` is 0; `network_client_open` picks one (`OpenStart`), connects
without reserving it (`Connect`, `ConnectFails`) and then fills it (`OpenReturns`). Close
and send are split at the points where another thread can come between: `CloseStart`,
`CloseClears`, `CloseReturns`; `SendStart` (which reads the descriptor before it locks),
`SendLocks`, `SendChunk`, `SendFails`, `SendReturns`. Growth works on 4-byte words, so the
`memset` of `network.c` 121, which starts at a *byte* offset and counts in ints, clears the
slots it clears in the code (`Cleared`, `Grown`). At the code's sizes (100 slots of 36
bytes, 50 more) that is words 25 to 74: `m_sock` of slots 3 to 8, all of them in use.
`realloc` may move the table; the moved pointer is not stored and the next access is
`wild`. `wild` states have no successors. A growth that ends between `m_sock` and the protocol of
a slot leaves a slot whose close goes to descriptor 0, which is the process's standard input
(`stdin`) until somebody closes it; the history variable `halved` records that there was such a
growth.

Nobody closes a handle that is being sent on (`Unused`): `demo.c` uses its handle in one
thread.

### Post, Delivery and Base64

`Post` extends `SocketTable`. `at` is the position in `set_Interaction_netparam_by_net`;
each of its actions either moves `at` alone (`PostCalled`, `TriesAgain`, `GivesUp`,
`Closed`) or conjoins the move with the steps of the call it makes: `OpenCalled`, `Opening`,
`OpenFailed`, `Opened` are `network_client_open`, `SendCalled`, `Sending`, `Sent`
`network_client_send`, `CloseCalled` and `Closing` `network_client_close`. The 300 ms pause
is the move back to "redo". What `network_client_send` returned is `left = 0`.

`Delivery` knows three variables: a phase, the attempts that are left and the pieces the
connection has carried. `Promise` in `Post` maps the table to them: there is a connection
while a descriptor is open (`Connected`), the attempts are `re_cnt`, plus the one under way
that is neither refused nor connected yet (`ShownTries`), and the pieces are those on
the wire of that descriptor. The program is "dead" when it went through the missing table, or
when the header ran over the end of `base64` (`SendOverruns`): what follows is undefined, and
no step is taken.

The texts of the credentials hold no NUL. `vc_authorization_base64_encode` prints them into
`PlainSize` bytes (`authorrization[1024]`), where `snprintf` cuts what does not fit
(`Printed`), and writes the code with its NUL into the `HeaderSize` bytes of its caller
(`base64[1024]`), where nothing stops it. `Longest`, 765 for 1024 bytes, is the longest text
that fits.

`Base64` works on bytes and on indices into the alphabet. `Encoded` and `Decoded` give a
character or byte by its position, which is what the two loops compute; the alphabet itself
is left out, so is what `base64_decode` does with a text whose length is no multiple of four.

### Server

`use` says what each descriptor is now (a listening socket, a client's connection, ...), so that
a number remembered from before a close is visibly stale. A block of the heap is identified with
the open that asked for it. The opening thread goes through the steps of `network_server_open`
(`OpenStart` to `OpenReturns`) in the order of the code, where TCP allocates its block after
`listen` and the others before they parse the address; each early return releases what it
releases there. `Accept`, `Spawn`, `SpawnFails`, `AcceptRefused` and `AcceptBreaks` are
`server_accpet`; `SessionCalls`, `CallbackReturns`, `SessionEnds` are `tcp_server_process` with
a callback that reads its socket once, through the pointer into the block it is given, and
closes its connection, since nobody else does. `accept` and the stores that follow are one step:
another thread can tell nothing else from that. `UDP` stands for the three datagram protocols,
whose threads are the same function three times.

`server_accpet` gives one block to all its sessions. Three history variables say what came of
it. `shared`: a listener stored a second connection in its block. `overtaken`: it did so before
the session of the one before had read its socket; that session then gets the later one, which
two will close, and its own is lost. `stray`: a thread used or freed a block that was free (the
first session to end frees it), after which nothing follows. The safety properties say that
nothing is wrong before the last two, however many connections a listener has, and that neither
happens without `shared`.

### NetworkTools

`iface`, `routes`, `resolv` are the kernel's and the resolver's tables. `GetCalled` to
`GetDns` and `SetCalled` to `SetFlags` are one step per ioctl or file, with the early returns
`GetFails`, `SetFails`, `RouteSocketFails`, `RouteFails`. The lookup of the gateway is that of
the code: it compares a whole line with the interface's name, so it takes the first default
route of *any* interface, and without one the 0 that parsing the header line leaves behind.
`Matching`, `AddRoute` and `SetIp` hold what the kernel does: which route a deletion takes,
that a new route goes before its equals and that a duplicate is refused, that a new address
may change the mask and cost any of the routes. `Disturb` is any other process. `single`,
`disturbed` and `unread` are history variables: there was one default route at most when the
program started, another process intervened, and `set_dsthost_gateway` could not open
`/proc/net/route`. In the last case what it deletes is the route to whatever is on the stack
(`ReadOld`), and a deletion that finds no such route is not an error.

## 3. Runs

States are distinct states; times are those of two workers.

| Run | Properties | Instance |
|---|---|---|
| `receiver` | `TypeOK` `ReceiveWindow` `BufferIsStream` `LocatorInBounds` `CommandsDisjoint` `ChunkIndependent` `CleanFramesHandled` `SignalEndsMain` | frames of 12 bytes, threshold 7, streams of one or two segments out of ten |
| `receiver_receives_again` | `ReceivesAgain`, violated | the code's sizes 23 and 17, one segment |
| `gateway_safety` | `TypeOK` `NoInterleaving` `FreshReply` `FileIsMode` `ReplyIsMode` | 2 fields, 2 values, 2 modes, 1 attempt, 1 change, 2 commands, 1 failure, 1 crash; 5.2 million states |
| `gateway_liveness` | `CommandAnswered` `QuitEnds` `ChangesNoticed` `StatusFollows` | 1 mode, 1 attempt, 1 change, 1 command, 1 failure; 259 thousand states |
| `gateway_status_converges` | `StatusConverges`, violated | no failures, a complete snapshot at boot, 2 attempts |
| `comport` | `TypeOK` `SmallListIsThePorts` `NoStrayAccess` `WalkReturns` `OneHolderPerDevice` `OwnDescriptor` `OnlyFailedOpensLeak` `LineFollowsConfig` | 3 devices (one with a 16-byte name), 3 blocks, 3 descriptors, 1 failing open, 2 failing `comport_set_cfg`; 236 thousand states up to symmetry |
| `comport_third_port` | `EveryPortListed`, violated | 3 devices |
| `sockets` | `TypeOK` `HandleOwnsSocket` `NothingLost` `ClosesWhatIsOpen` `MessagesContiguous` `SendsEnd` | 2 threads, one of which opens and closes, 2 slots of 6 words growing to 8, 3 descriptors and standard input, 2 pieces per message; 664 thousand states |
| `socket_growth` | `GrowthKeepsSlots`, violated | 4 slots growing to 10 |
| `post` | `DeliversOrGivesUp` `TableSuffices` `AuthorizationDecodes` | 2 POSTs of 3 attempts, 3 pieces, a table of 1 slot, 2 failing allocations, 36 pairs of credentials, buffers of 8 and 12 bytes; 34 thousand states |
| `servers` | `SessionsSeparate` `DescriptorsAccounted` `ListenerEnds` | 2 opens, 3 clients, 4 descriptors; 416 thousand states |
| `tools` | `ReadsBackWhatWasSet` `OneDefaultRoute` `OnlyFinishedSetsLeak` | 2 calls of `set_network`, 5 routing tables of up to 3 routes, 1 foreign change; 4.9 million states |

### What they show

**Receiver.** However reads split the line, `main` asks exactly for what a frame still lacks
(`ReceiveWindow`), the counted bytes are the last ones of the stream (`BufferIsStream`) and
the state equals that of a byte-at-a-time reference splitter (`ChunkIndependent`). The
locator stays inside the buffer although it uses an unvalidated length byte
(`LocatorInBounds`): the held header bytes are what saves index 0. Commands are disjoint pieces
of the stream (`CommandsDisjoint`). On a line whose noise contains no head byte every frame
is handled (`CleanFramesHandled`); on other lines a lone `ee` can swallow the start of a
frame, which the protocol does not exclude. `SignalEndsMain` holds even while a short
command is being skipped for ever, which `ReceivesAgain` shows can happen: `demo.c` 529 says
reception starts again, the `continue` of line 485 prevents it. A length byte of 0 behind `fb
fc` does the same.

**Gateway.** Frames never interleave. Each field `get_network` has read for a reply was in force
after the reply became due (`FreshReply`); the fields it did not reach are, after a SET, those
the MCU asked for, and nothing is claimed of them. Unless a file access failed or the process
died between POST and `fclose`, the file holds the mode last handed over, and so do replies,
across failing POSTs and restarts (`FileIsMode`, `ReplyIsMode`). Every command is answered, a
request to quit ends the process, lasting changes are noticed although a mixture of old and new
fields may be compared first, and until the first GET the MCU learns of every change. Both of
the latter are for finitely many failures: while `eth0` has no address `get_network` fails in
every round (`network_tools.cpp` 212) and later fields go unnoticed. After the first GET the MCU
can be left with an old configuration (`StatusConverges`): `main()` takes its snapshot before
the mutex, the watcher announces a newer one in between, and the older frame goes out last; the
watcher compares with its own copy and sees nothing to do.

**Serial ports.** Until a port is added to a list of two, the list is right in both directions,
a device whose name is shorter than `m_name` has one caller, its line has the speed, data bits,
parity and single stop bit of the configuration through failing `comport_set_cfg` calls, and
every port has a caller who can close it. Descriptors without a port are always as many as the
opens whose attributes could not be set. The third port pushes the second out of the list
(`EveryPortListed`), and a shutdown then leaves that port behind with its descriptor.

**Sockets.** With one opening thread and a table that has not grown, a handle leads to its
socket, and neither sockets nor slots are lost, failing connects included. After growth damaged
the table a close still hits an open socket, with one exception that this instance reaches: when
growth cleared `m_sock` of a slot and left its protocol, the close of that slot goes to
descriptor 0 (`ClosesWhatIsOpen`). Section 4 says from which size on the code's table has such
slots. Messages of two threads are not mixed and every send returns. `GrowthKeepsSlots`
contradicts the comment at `network.c` 120.

**POST.** The composition refines `Delivery` (`DeliversOrGivesUp`): at most `re_cnt` attempts,
one connection at a time and none between calls, "sent" exactly when all pieces left on one
connection (so a request that left whole is never repeated), and an end. Each attempt finds the
slot the last one released, so one slot is enough for ever; if the first `calloc` fails
the next attempt reallocates nothing into a table of 50 slots whose pointer is still null and
the program dies there (`TableSuffices`). The header of a request that is sent decodes to
the whole text of its credentials, of any length modulo three, and only a text longer than
`Longest` overruns the caller's buffer instead (`AuthorizationDecodes`).

**Servers.** As long as no accept overtakes a session that has not read its socket and no freed
block is used, each of a listener's sessions gets its own connection, although servers are
closed and opened around it and numbers are used again (`SessionsSeparate`), and every open
descriptor has exactly one who will close it: no open that fails, no connection without a thread
and no session loses one or closes another's (`DescriptorsAccounted`). A listener with one
connection meets both conditions; one with several does not keep them by itself, and both
properties are silent on what follows. The listener of a closed server ends, unless another
server gets its number first, in which case it accepts that server's clients (`ListenerEnds`).

**Network tools.** `get_network` reads what `set_network` has set even among routes of other
interfaces (`ReadsBackWhatWasSet`), and repeated calls keep one default route although any
ioctl fails (`OneDefaultRoute`); none may be left, see section 5. A call that cannot open
`/proc/net/route` may add a second default route; no call adds a third. Sockets are lost
only by the calls of `set_network` that come as far as the flags (`OnlyFinishedSetsLeak`).

### Why the bounds are enough

* Receiver: sizes 12 and 7 keep the relations of 23 and 17 the locator depends on (one command
  per buffer, a short command and a long one fit into a payload). Two segments put any damage
  before or behind any frame, and a frame across the boundary of an abandoned one.
* Gateway: two fields distinguish "read before" from "read after" a change, and the last one is
  the special `m_dns`. One change suffices for every stale snapshot and one failure for every
  early return. Two commands carry `dhcp_stat` and `param` from one to the next. `Tries = 1` in
  the passing runs; two attempts occur in `gateway_status_converges`, and the proofs cover every
  number. Crashes are left out of the liveness run: after the last restart the process is in a
  state that `Init` allows but for the mode file and what the MCU was told, and the first
  announcement replaces the latter.
* Ports: three ports are the least for which the list goes wrong; three blocks and three
  descriptors allow reuse and exhaustion, the latter with a descriptor that a failed open left.
  Two failing `comport_set_cfg` calls are the one that sets and the one that restores. Blocks
  and ordinary names are interchangeable, hence the symmetry; none of that run's properties is
  temporal.
* Sockets: two slots give "first free" a choice, growth from 2 to 8 damages slots that are in
  use at that size (with slots of six words it clears `m_sock` of slot 1 and not its protocol), and
  the third descriptor allows more sockets than slots.
* POST: the code's three attempts, twice, so that a second POST starts from the slot and
  handle the first one left; two failing allocations are a `calloc` and the `realloc` after
  it. The texts give every remainder modulo 3 together with a colon, pairs that just fit into a
  header of 12 bytes and pairs that do not.
* Servers: two are the least for a number to pass from one to the other; three clients and
  two servers want five descriptors, one more than there are. Three clients of one listener
  occur with and without overtaking.
* Tools: a table with two default routes around a network route lets "first", "last" and
  "any" differ; the second `set_network` meets the routes the first one left.

### Deadlock

`ComportList`, `SocketTable`, `Post` and `Server` runs do not check for deadlock: a state after
a stray or wild access has no successor on purpose, and callers may stop calling. The tools,
receiver and gateway runs do; a process that has returned stutters explicitly (`Exited`,
`Ended`).

### Fairness

* Receiver: weak fairness of `main` (the thread is scheduled) and strong fairness of
  `Receive`: select may time out any number of times, but bytes on the line reach some read.
* Gateway: weak fairness of each thread. `LeaveLoop` is owed only once `m_app_quit` is set.
  Strong fairness of `MainLocks` and `IpLocks`: a pthread mutex is not fair by itself, but
  the holder releases it after one `write` and then waits for the next command or sleeps a
  second, so the other thread finds it free. No fairness for commands, signals, changes,
  failures, restarts or leaving the loop by an error.
* Sockets: weak fairness of the steps of a call in progress. connect returns in the end and
  a send ends at the latest after `SO_SNDTIMEO` (`demo.c` 295 sets 2 seconds). Strong fairness of
  `SendLocks`: the holder sends a bounded message and releases.
* POST: weak fairness of the function's steps, for the same reasons; whether a step succeeds
  or fails is free, so every mixture of failures is covered. Nobody has to post.
* Servers: weak fairness of a listener that holds a connection, and of the error `accept`
  returns on a socket that is shut down or closed. No client has to connect, and no other
  error is owed.

## 4. Proofs

Every safety property that a passing run checks is also a theorem: for all values of the
constants that satisfy the module's named assumption, and for behaviours of any length.
Unless the table names a hypothesis there is no other.

| Module | Theorems | Hypotheses |
|---|---|---|
| `SerialReceiver_proofs` | `TypeCorrect` `WindowCorrect` `BufferCorrect` `CommandsCorrect` `LocatorCorrect` `ChunksDoNotMatter` | - |
| `Gateway_proofs` | `TypeCorrect` `MutualExclusion` `FreshReplies` `FileCorrect` `ReplyCorrect` | - |
| `ComportList_proofs` | `PortsKeepTheirType` `SmallListIsWhole` `NothingFreedIsTouched` `SearchEnds` `DevicesAreNotShared` `DescriptorsAreOwned` `LeaksAreFailedOpens` `LinesFollow` | - |
| `SocketTable_proofs` | `TypesHold` | - |
| | `HandlesAreGood` `NothingIsLost` `MessagesStayWhole` | `OneOpener`, `NamedProtocols` |
| | `ClosesOnlyOpenSockets` | `OneOpener` |
| | `ClosesOnlyOpenSocketsBefore250` | `OneOpener`, `SourceSizes` |
| `Base64_proofs` | `RoundTrip` | - |
| `Post_proofs` | `PostUsesTheTable` `AttemptsFindASlot` `HeaderDecodes` `PostKeepsPromise` | - |
| `Server_proofs` | `SessionsAreSeparate` `DescriptorsAreAccounted` | - |
| `NetworkTools_proofs` | `LeaksAreCounted` `RoutesDoNotPileUp` `SetsAreReadBack` | - |

The hypotheses of the socket table are constant formulas.
  * `OneOpener`: at most one thread opens and closes. In `demo.c` that is `main()`. Two
    overlapping opens can be given the same slot (`network.c` 944).
  * `NamedProtocols`: nobody asks for the protocol `NULL`. `demo.c` 184 asks for TCP. With
    `NULL` the slot is filled with -1 and never released (`network.c` 970).
  * `SourceSizes`: 100 slots of nine words (36 bytes, a 32-bit build), steps of 50.
    `ClosesOnlyOpenSockets` is for all sizes and exempts descriptor 0 once a growth has ended
    between the first two words of a slot; `ClosesOnlyOpenSocketsBefore250` says that at these
    sizes the exemption is not needed before the table has 250 slots. It is needed then: the
    growth from 200 slots clears words 50 to 99, and word 99 is `m_sock` of slot 11.
    With the 14 words of a 64-bit build the same happens at the growth from 250 slots.

### Invariants

**`SerialReceiver_proofs`.** The properties are not inductive. `IInv` adds to them
  * `HeaderHeld`: once a header byte was accepted it stays at the front of the buffer. Without
    it nothing is known about `buf[0]` when the locator runs;
  * `SearchStart`: `find_offset` is 0 outside the dispatch loop;
  * `CommandsBehind`: the commands end before the bytes from which the next may be cut. That
    the next one starts behind them needs `OneCommandPerBuffer`: after a handled command
    fewer than `DataLen` bytes are left, and the locator's first test rejects them.

`ChunksDoNotMatter` is about `Held`, a recursive function over the stream. `SplitterExists`
shows that a function satisfying its equation exists, `HeldEquation` that `Held` is one,
`TakeAgrees` and `HeldRun` that taking a piece of the stream at once is taking its bytes one
by one.

**`Gateway_proofs`.**
  * `MutualExclusion`: a thread is at "send" exactly when it holds the mutex (`MutexInv`);
  * `FreshReplies`: from the moment a snapshot is due, `seen` contains what is in force and
    what was read (`FreshInv`);
  * `FileCorrect` and `ReplyCorrect`: where `dhcp_stat` has been refreshed for this command it
    equals the mode, and between POST and fclose the outcome is marked uncertain (`ModeInv`).

**`ComportList_proofs`.** The walk from the head comes to two ports at most, since a new port
takes the place of the second. `Listable` is that shape together with what is left of it when
ports are missing: a lost port points forward to the head and backward anywhere; only the first
port points back to the head, which is why closing a lost port may cut off another one but
leaves the head on the list. If the block behind its backward link was freed, that close is the
stray access. `LeftOver` is what remains after `comport_module_uninit`. `CompleteInv` adds that
without `crowded` no port is missing. The effects of the list operations and of the loop of
`comport_module_uninit` are lemmas (`DelEffect`, `AddEffect`, `ReleaseAllIs`, `UninitEffect`);
`StepCases` splits `comport_open` and `comport_set_cfg` into their outcomes. On top of the
shape: `OwnInv` (descriptors), `OneHolderPerDevice` (from the search over a complete list), the
counting of descriptors without a port, and `LineInv`, which needs both: a line follows its port
because no other port is on that device.

**`SocketTable_proofs`.** `OwnInv` has three parts: handles are one to one with taken slots and
open sockets (`HandlesInv`); the slot and the socket of an open or close under way are in no
handle (`OpenersInv`); nothing else is open or taken (`LedgerInv`). `SendInv` says that a sender
uses an open handle and holds its mutex, `WireInv` that a message being sent is the last on its
socket. `CloseInv` is what is left of this in a damaged table: it speaks only of slots that
still have a protocol, and allows them a 0 for `m_sock` once `halved` is set. `SizeInv` says
which sizes the table goes through.

**`Base64_proofs`.** The characters of a group determine its bytes, by cases on the length
modulo 3 (`RoundTrip`, for any sequence of bytes). `HeaderDecodes` applies it.

**`Post_proofs`.** `PostInv` ties the position in the function to the state of the table:
which handle, slot and connection the function has (`HoldsInv`), whether the table exists
(`TableInv`), how much of the request is on the wire (`CarriedInv`). `PostUsesTheTable` lets
what holds of the table hold here; `PostKeepsPromise` is the step simulation of `Delivery`:
every step of the function and the table is a step of `Promise` or leaves its variables alone.

**`Server_proofs`.** While `overtaken` and `stray` are false (`Good`), what is in a block
belongs to one thread at a time: the open (`CallerInv`), the listener that is about to start a
session (`ListenersInv`), or the one session that has still to read it (`SessionsInv`), and the
sockets the others remember are still what they were. `OwnersInv` gives every open descriptor
somebody who will close it, `CloserOwns` says what a closer's descriptor is, which makes it the
only one. `Alone`, for as long as `shared` is false, says that a block in use has not been
freed, so that `stray` stays false.

**`NetworkTools_proofs`.** `SocketsInv` counts the sockets the call under way holds at each
step. `RouteInv`: when the old route is deleted it is the one that was read, and a route is
added only to a table without default routes, or, after a read that failed, with one.
`InForceInv` and `ReadBackInv` follow the address, mask and gateway from `set_network` to
`get_network`.

### Recursive functions

`Held`, `Walk` and the loop of `ReleaseAll` are recursive functions on numbers. The
library's induction theorems take an operator as a parameter and cannot be used here.
Instead, a claim about all numbers is proved from a least counterexample:
`WFMin` with `NatLessThanWellFounded` gives a least number in a non-empty set
(`LeastNumber`), and that number's predecessor refutes it. That a recursive definition has
its equation is shown by giving a function that satisfies it.

### Only model-checked

Liveness: `CleanFramesHandled`, `SignalEndsMain`, `CommandAnswered`, `QuitEnds`,
`ChangesNoticed`, `StatusFollows`, `SendsEnd`, `ListenerEnds`, and the part of
`DeliversOrGivesUp` that says a POST ends (`PostKeepsPromise` is its safety part). The prover
handles neither fairness nor ENABLED. The four runs whose property is violated are TLC's
counterexamples.

## 5. Not modelled, and observations without a run

* `str_to_ip`, `ip_to_str` and the text of `resolv.conf` lines: addresses are numbers. They
  have 32 bits, TLC's integers 31, and byte by byte the conversions would be the identity.
* `recv` and `check_timeout` of clients and servers: they keep no state. `close_tcp_server` and
  its three siblings (`network.c` 743-802) are called by nobody.
* cJSON: vendored and included by no file. `src/demo` and `src/TouchSerail` are binaries.
* Wording of HTTP requests, logging, `print_buf`.
* The announcement of mode 0 when the watcher reads the emptied mode file: modelled, but
  nothing says what it should announce.

Met while modelling, and not the subject of a run:

* `demo.c` 451 says only length 0x17 is accepted; the locator also takes a command of 17 to
  22 bytes that starts inside the payload of a frame with a damaged tail.
* `comport.h` 17 (`COMPORT_ERR_BUSY`): a device name of 16 bytes or more is stored without a
  terminator and is not recognised as busy.
* `comport.c` 127: for `STOPBITS_2` the code does `|= ~CSTOPB`, which raises every flag but
  the one meant.
* `network.c` 97: `m_arry_status` says that the table exists before `calloc` is checked.
* `network.c` 970: an unknown protocol stores -1 and returns `NETWORK_OK`, never
  `NETWORK_ERR_PROTOCOL`; closing it leaves the slot taken.
* `network.c` 224-228 and 202: one accept context for all sessions, see `Server`. When a listener
  ends before its first session, nobody frees the context; a datagram server whose address,
  socket or bind fails (530-553) loses its block.
* `network.c` 220: any error of `accept`, too many open files included, ends the listener
  while the handle stays open.
* `network_tools.cpp` 80: the interface's name is compared with the whole line, so
  routes of other interfaces count; 99: without a default route the result is 1 and 0.0.0.0,
  never -5.
* `network_tools.cpp` 127-141: the result of reading the old gateway is ignored. When
  `/proc/net/route` cannot be opened, the deletion names whatever is on the stack, its ESRCH is
  no error, and the new route is added beside the old one.
* `network.c` 121, 397: at the growth from 200 to 250 slots slot 11 loses `m_sock` and
  keeps its protocol; closing its handle shuts descriptor 0.
* `demo.c` 148: credentials whose text is longer than 765 bytes overrun `base64[1024]`;
  `snprintf` (129-137) cuts only at 1023.
* `network_tools.cpp` 129-145: when adding the new route fails the old one is gone;
  `set_network` returns 1 all the same (278-291), and leaves its socket open.
* `network_tools.cpp` 283: the flags are set without having been read, and share their memory
  with the address family: the interface keeps UP and loses MULTICAST.
* `network_tools.cpp` 175: an IPv6 name server is read as some IPv4 address, which is then
  taken for the first one.
* `network.c` 944: a chosen slot is not reserved; two opens that overlap share it
  (`Openers` with two threads shows it).

## 6. Plan

Done: the components of the inventory but for what section 5 lists, and proofs of every safety
property of the passing runs. Left:

1. `Server`: what a table shared with clients does; `network_server_open` uses the slots of
   `SocketTable`, here each server has its own handle.
2. `SocketTable`: which handles survive the first growth at the code's sizes, as a theorem.
3. `Gateway` and `SerialReceiver`: the composition, so that commands are those cut from the
   stream; today `Gateway` takes any command at any time, which allows more than the receiver.
