--------------------------- MODULE SerialReceiver ---------------------------
(***************************************************************************)
(* The receiving half of main() in src/demo.c: the byte counter that cuts  *)
(* frames out of the serial line (lines 409-479), the locator that looks   *)
(* for a command in a complete buffer (find_mcu_network_code) and the loop *)
(* that consumes what the locator finds (481-532).                         *)
(*                                                                         *)
(* A frame is   ee 60 op 17 dhcp ip mask gateway dns fb fc   (23 bytes).   *)
(* read() may return any part of what was asked for, so the environment    *)
(* chooses how many bytes each read delivers.  What handling a command     *)
(* does (HTTP request, reply) is the subject of module Gateway; here a     *)
(* handled command is only logged.                                         *)
(***************************************************************************)
EXTENDS Integers, Sequences, FiniteSets

CONSTANTS
  Streams,     \* the byte sequences the line may carry
  DataLen,     \* data_len = 0x17: length of a frame, and its length byte
  MinCmdLen    \* 17: the shortest command the dispatch loop does not skip

Byte == 0..255

ASSUME ReceiverAssumption ==
  /\ Streams \subseteq Seq(Byte)
  /\ DataLen \in 7..255
  /\ MinCmdLen \in 6..DataLen
  /\ DataLen < 2 * MinCmdLen

Head0   == 238     \* 0xee
Head1   == 96      \* 0x60
Tail0   == 251     \* 0xfb
Tail1   == 252     \* 0xfc
HeadLen == 4       \* ee 60 op len

VARIABLES
  stream,       \* the bytes of this behaviour, in arrival order
  taken,        \* how many of them read() has returned
  phase,        \* where main() is: "loop", "recv", "dispatch" or "exit"
  buf,          \* the frame part of buf[256]
  offset,       \* next index of buf to be filled
  rec_len,      \* bytes asked of the next read
  ret,          \* what the last read returned
  find_offset,  \* where the next search in a complete buffer starts
  quit,         \* m_app_quit = APP_STAT_EXIT
  cmds          \* history: the commands taken out of the stream

frameVars == <<buf, offset, rec_len, ret>>
vars == <<stream, taken, phase, buf, offset, rec_len, ret, find_offset, quit, cmds>>

Index == 0..(DataLen - 1)

Init ==
  /\ stream \in Streams
  /\ taken = 0
  /\ phase = "loop"
  /\ buf = [i \in Index |-> 0]
  /\ offset = 0
  /\ rec_len = 1
  /\ ret = 0
  /\ find_offset = 0
  /\ quit = FALSE
  /\ cmds = <<>>

-----------------------------------------------------------------------------
(* The byte counter.                                                       *)

\* while (APP_STAT_RUN == m_app_quit): leave main's loop or ask for bytes.
LoopTest ==
  /\ phase = "loop"
  /\ phase' = IF quit THEN "exit" ELSE "recv"
  /\ UNCHANGED <<stream, taken, frameVars, find_offset, quit, cmds>>

\* select() timed out, or read() returned 0.
RecvNothing ==
  /\ phase = "recv"
  /\ phase' = "loop"
  /\ UNCHANGED <<stream, taken, frameVars, find_offset, quit, cmds>>

\* select() failed (a signal interrupts it) or read() failed: main breaks out.
RecvError ==
  /\ phase = "recv"
  /\ phase' = "exit"
  /\ UNCHANGED <<stream, taken, frameVars, find_offset, quit, cmds>>

\* buf after a read of n bytes at buf + offset.
Filled(n) ==
  [i \in Index |-> IF offset <= i /\ i < offset + n
                   THEN stream[taken + (i - offset) + 1]
                   ELSE buf[i]]

\* The length byte is not tested (a mistake, see below).
RejectedWithoutLength(b) ==
  /\ rec_len = 1
  /\ \/ offset = 0 /\ b[0] # Head0
     \/ offset = 1 /\ b[1] # Head1

\* The three header tests; a byte that fails one is dropped with all before it.
Rejected(b) ==
  /\ rec_len = 1
  /\ \/ offset = 0 /\ b[0] # Head0
     \/ offset = 1 /\ b[1] # Head1
     \/ offset = 3 /\ b[3] # DataLen

\* n bytes arrive and are stored.
Take(n) ==
  /\ phase = "recv"
  /\ n \in 1..rec_len
  /\ taken + n <= Len(stream)
  /\ taken' = taken + n
  /\ buf' = Filled(n)
  /\ ret' = n
  /\ UNCHANGED <<stream, find_offset, quit, cmds>>

-----------------------------------------------------------------------------
(* Plausible mistakes in the byte counter.  No action uses them: the       *)
(* properties below are shown to fail when one takes an action's place.    *)

\* rec_len -= ret is forgotten.
BodyPartKeepsRecLen(n) ==
  /\ Take(n)
  /\ offset # HeadLen - 1
  /\ offset + n > HeadLen - 1
  /\ offset + n # DataLen
  /\ offset' = offset + n
  /\ phase' = "loop"
  /\ UNCHANGED rec_len

\* The whole frame length is asked for after the header.
HeaderCompleteAsksFrame(n) ==
  /\ Take(n)
  /\ ~Rejected(Filled(n))
  /\ offset = HeadLen - 1
  /\ offset' = HeadLen
  /\ rec_len' = DataLen
  /\ phase' = "loop"

\* offset = 0 is forgotten when a header byte is wrong.
HeaderRejectedKeepsOffset(n) ==
  /\ Take(n)
  /\ Rejected(Filled(n))
  /\ rec_len' = 1
  /\ phase' = "loop"
  /\ UNCHANGED offset

-----------------------------------------------------------------------------
(* The five ways a read goes through the loop body.                        *)

HeaderRejected(n) ==
  /\ Take(n)
  /\ Rejected(Filled(n))
  /\ offset' = 0
  /\ rec_len' = 1
  /\ phase' = "loop"

\* The length byte is in: ask for the rest of the frame.
HeaderComplete(n) ==
  /\ Take(n)
  /\ ~Rejected(Filled(n))
  /\ offset = HeadLen - 1
  /\ offset' = HeadLen
  /\ rec_len' = DataLen - HeadLen
  /\ phase' = "loop"

HeaderByte(n) ==
  /\ Take(n)
  /\ ~Rejected(Filled(n))
  /\ offset # HeadLen - 1
  /\ offset + n <= HeadLen - 1
  /\ offset' = offset + n
  /\ phase' = "loop"
  /\ UNCHANGED rec_len

\* A part of the payload; the next read asks for what is still missing.
BodyPart(n) ==
  /\ Take(n)
  /\ ~Rejected(Filled(n))
  /\ offset # HeadLen - 1
  /\ offset + n > HeadLen - 1
  /\ offset + n # DataLen
  /\ offset' = offset + n
  /\ rec_len' = rec_len - n
  /\ phase' = "loop"

FrameComplete(n) ==
  /\ Take(n)
  /\ ~Rejected(Filled(n))
  /\ offset # HeadLen - 1
  /\ offset + n = DataLen
  /\ offset' = offset + n
  /\ phase' = "dispatch"
  /\ UNCHANGED rec_len

Receive ==
  \E n \in 1..(DataLen - HeadLen) :
    \/ HeaderRejected(n)
    \/ HeaderComplete(n)
    \/ HeaderByte(n)
    \/ BodyPart(n)
    \/ FrameComplete(n)

-----------------------------------------------------------------------------
(* find_mcu_network_code(buf + from, DataLen - from, ...).                 *)

\* The markers of a command at index i of the searched part.
IsCode(from, i) ==
  /\ buf[from + i] = Head0
  /\ buf[from + i + 1] = Head1
  /\ buf[from + i + 3] <= DataLen - from - i
  /\ buf[from + i + buf[from + i + 3] - 1] = Tail1
  /\ buf[from + i + buf[from + i + 3] - 2] = Tail0

\* Every index at which the scan could stop; it stops at the first.
Codes(from) ==
  IF DataLen - from < DataLen
  THEN {}
  ELSE {i \in 0..(DataLen - from - 6) : IsCode(from, i)}

FirstCode(from) == {i \in Codes(from) : \A j \in Codes(from) : i <= j}

-----------------------------------------------------------------------------
(* The dispatch loop.                                                      *)

\* if (cmd_len < 17) continue;  -- nothing moves, the same command is found
\* again at the next iteration.
SkipShortCommand ==
  /\ phase = "dispatch"
  /\ ~quit
  /\ \E i \in FirstCode(find_offset) : buf[find_offset + i + 3] < MinCmdLen
  /\ UNCHANGED vars

\* The command found at buf + at.
Command(at) == [at  |-> taken - DataLen + at + 1,
                len |-> buf[at + 3],
                op  |-> buf[at + 2]]

\* A mistake: find_offset is not advanced past a handled command.
HandleCommandAgain ==
  /\ phase = "dispatch"
  /\ ~quit
  /\ \E i \in FirstCode(find_offset) :
       /\ buf[find_offset + i + 3] >= MinCmdLen
       /\ cmds' = Append(cmds, Command(find_offset + i))
  /\ UNCHANGED <<stream, taken, phase, frameVars, find_offset, quit>>

HandleCommand ==
  /\ phase = "dispatch"
  /\ ~quit
  /\ \E i \in FirstCode(find_offset) :
       /\ buf[find_offset + i + 3] >= MinCmdLen
       /\ cmds' = Append(cmds, Command(find_offset + i))
       /\ find_offset' = find_offset + i + buf[find_offset + i + 3]
  /\ UNCHANGED <<stream, taken, phase, frameVars, quit>>

\* A mistake: rec_len is left as the last read used it.
RestartKeepsRecLen ==
  /\ phase = "dispatch"
  /\ quit \/ Codes(find_offset) = {}
  /\ offset' = 0
  /\ buf' = [i \in Index |-> IF i < ret THEN 0 ELSE buf[i]]
  /\ find_offset' = 0
  /\ phase' = "loop"
  /\ UNCHANGED <<stream, taken, rec_len, ret, quit, cmds>>

\* A mistake: the dispatch loop does not look at m_app_quit.
RestartIgnoresQuit ==
  /\ phase = "dispatch"
  /\ Codes(find_offset) = {}
  /\ offset' = 0
  /\ rec_len' = 1
  /\ buf' = [i \in Index |-> IF i < ret THEN 0 ELSE buf[i]]
  /\ find_offset' = 0
  /\ phase' = "loop"
  /\ UNCHANGED <<stream, taken, ret, quit, cmds>>

\* Nothing (more) to find, or the application quits: start over and clear
\* as many bytes as the last read returned.  The code resets find_offset
\* when it enters the dispatch loop; it has no meaning outside of it.
RestartReceiving ==
  /\ phase = "dispatch"
  /\ quit \/ Codes(find_offset) = {}
  /\ offset' = 0
  /\ rec_len' = 1
  /\ buf' = [i \in Index |-> IF i < ret THEN 0 ELSE buf[i]]
  /\ find_offset' = 0
  /\ phase' = "loop"
  /\ UNCHANGED <<stream, taken, ret, quit, cmds>>

Dispatch == SkipShortCommand \/ HandleCommand \/ RestartReceiving

\* signal_handler: any of the signals 1..31 that can be caught.
Signal ==
  /\ ~quit
  /\ quit' = TRUE
  /\ UNCHANGED <<stream, taken, phase, frameVars, find_offset, cmds>>

\* main() has returned.
Exited ==
  /\ phase = "exit"
  /\ UNCHANGED vars

Main == LoopTest \/ RecvNothing \/ RecvError \/ Receive \/ Dispatch

Next == Main \/ Signal \/ Exited

Spec == Init /\ [][Next]_vars

\* The main thread is scheduled, and bytes on the line reach a waiting read.
Fairness == WF_vars(Main) /\ SF_vars(Receive)

FairSpec == Spec /\ Fairness

-----------------------------------------------------------------------------
(* Properties.                                                             *)

TypeOK ==
  /\ stream \in Seq(Byte)
  /\ taken \in 0..Len(stream)
  /\ phase \in {"loop", "recv", "dispatch", "exit"}
  /\ buf \in [Index -> Byte]
  /\ offset \in 0..DataLen
  /\ rec_len \in 1..(DataLen - HeadLen)
  /\ ret \in 0..(DataLen - HeadLen)
  /\ find_offset \in 0..DataLen
  /\ quit \in BOOLEAN
  /\ cmds \in Seq([at : Nat, len : Byte, op : Byte])

\* Whatever pieces the reads return, main never asks for a byte beyond the
\* frame: up to the length byte it reads one at a time, afterwards exactly
\* what the frame still lacks, and a buffer is searched only when full.
ReceiveWindow ==
  /\ phase = "dispatch" <=> offset = DataLen
  /\ offset < HeadLen => rec_len = 1
  /\ offset \in HeadLen..(DataLen - 1) => offset + rec_len = DataLen

\* The bytes counted in the buffer are the last ones the line delivered,
\* contiguous and in order: no reset leaves a byte of an abandoned frame in
\* the one that is being assembled.
BufferIsStream ==
  /\ offset <= taken
  /\ \A i \in Index : i < offset => buf[i] = stream[taken - offset + i + 1]

\* Every index find_mcu_network_code reads lies inside the buffer, the
\* ones computed from a length byte it has not validated included (a zero
\* length byte makes it look in front of the candidate).
LocatorInBounds ==
  phase = "dispatch" /\ find_offset = 0 =>
    \A i \in 0..(DataLen - 6) :
      LET last == i + buf[i + 3] - 1
      IN  buf[i] = Head0 /\ buf[i + 1] = Head1 /\ buf[i + 3] <= DataLen - i =>
            /\ last \in Index
            /\ buf[last] = Tail1 => last - 1 \in Index

\* Commands are cut out of the stream in order and without overlap: no byte
\* is used for two commands and none lies beyond what has been read.
CommandsDisjoint ==
  /\ \A j, k \in DOMAIN cmds : j < k => cmds[j].at + cmds[j].len <= cmds[k].at
  /\ \A k \in DOMAIN cmds : cmds[k].at + cmds[k].len <= taken + 1

\* The reference splitter: how many bytes of a frame are held after the
\* first k bytes of the line, taken one by one.
Held[k \in 0..Len(stream)] ==
  IF k = 0 THEN 0
  ELSE LET h == Held[k - 1]
       IN  CASE h = 0 /\ stream[k] # Head0   -> 0
             [] h = 1 /\ stream[k] # Head1   -> 0
             [] h = 3 /\ stream[k] # DataLen -> 0
             [] OTHER                        -> (h + 1) % DataLen

\* How the driver splits the stream over reads does not change what the
\* receiver makes of it: the state depends on the bytes alone.
ChunkIndependent == offset % DataLen = Held[taken]

\* A whole frame starts at position p of the line.
FrameAt(p) ==
  /\ p + DataLen - 1 <= Len(stream)
  /\ stream[p] = Head0
  /\ stream[p + 1] = Head1
  /\ stream[p + 3] = DataLen
  /\ stream[p + DataLen - 2] = Tail0
  /\ stream[p + DataLen - 1] = Tail1

\* Noise on the line that contains no head byte.
Clean == \A p \in 1..Len(stream) : stream[p] = Head0 => FrameAt(p)

\* On a clean line every frame sent is handled, unless main stops first.
CleanFramesHandled ==
  Clean => <>(\/ quit \/ phase = "exit"
              \/ \A p \in 1..Len(stream) :
                   FrameAt(p) => \E k \in DOMAIN cmds : cmds[k].at = p)

\* A signal ends main: not even the skip of a short command outlives it.
SignalEndsMain == quit ~> (phase = "exit")

-----------------------------------------------------------------------------
(* What a comment of the source says of the receiver.                      *)

\* demo.c:529 "start receiving again", after the commands of a buffer.
ReceivesAgain == (phase = "dispatch") ~> (phase # "dispatch")

=============================================================================
