------------------------ MODULE SerialReceiver_proofs ------------------------
(***************************************************************************)
(* The safety properties of the receiver, for every set of streams, every  *)
(* frame length and every way the reads split the line.                    *)
(***************************************************************************)
EXTENDS SerialReceiver, WellFoundedInduction, TLAPS

\* The header bytes that were tested are still in front of the buffer.
HeaderHeld ==
  /\ offset >= 1 => buf[0] = Head0
  /\ offset >= HeadLen => buf[3] = DataLen

\* A position other than 0 is searched only after a command was handled.
SearchStart == phase # "dispatch" => find_offset = 0

\* The commands end before the bytes from which the next one may be cut.
Frontier == taken + 1 - (IF find_offset = 0 THEN offset ELSE 0)
CommandsBehind ==
  \A k \in DOMAIN cmds : cmds[k].at + cmds[k].len <= Frontier

CommandsOrdered ==
  \A j, k \in DOMAIN cmds : j < k => cmds[j].at + cmds[j].len <= cmds[k].at

FrameInv == TypeOK /\ ReceiveWindow /\ BufferIsStream /\ HeaderHeld /\ SearchStart

IInv == FrameInv /\ CommandsOrdered /\ CommandsBehind

-----------------------------------------------------------------------------
(* Facts about single operators.                                           *)

LEMMA Lengths ==
  /\ DataLen \in Nat /\ MinCmdLen \in Nat
  /\ 7 <= DataLen /\ DataLen <= 255
  /\ 6 <= MinCmdLen /\ MinCmdLen <= DataLen
  /\ DataLen < 2 * MinCmdLen
BY ReceiverAssumption DEF ReceiverAssumption

LEMMA ByteIsNat == \A b \in Byte : b \in Nat
BY DEF Byte

LEMMA Element ==
  ASSUME NEW S, NEW s \in Seq(S), NEW k \in DOMAIN s
  PROVE  s[k] \in S
OBVIOUS

\* A read stores bytes: the buffer stays a buffer.
LEMMA FilledType ==
  ASSUME FrameInv, NEW n, Take(n)
  PROVE  Filled(n) \in [Index -> Byte]
<1>1. n \in Nat /\ taken + n <= Len(stream) /\ stream \in Seq(Byte)
      /\ taken \in Nat /\ offset \in Nat /\ n >= 1
  BY Lengths DEF Take, FrameInv, TypeOK, HeadLen
<1>2. ASSUME NEW i \in Index, offset <= i, i < offset + n
      PROVE  stream[taken + (i - offset) + 1] \in Byte
  <2>1. taken + (i - offset) + 1 \in 1..Len(stream)
    BY <1>1, <1>2, Lengths DEF Index
  <2> QED BY <2>1, <1>1
<1>3. \A i \in Index : buf[i] \in Byte
  BY DEF FrameInv, TypeOK
<1> QED BY <1>2, <1>3 DEF Filled

\* A second search never finds anything: the locator refuses a part of the
\* buffer shorter than a frame.
LEMMA OneCommandPerBuffer ==
  ASSUME NEW from \in Nat, Codes(from) # {}
  PROVE  from = 0
BY Lengths DEF Codes

\* A command the locator finds lies inside the buffer.
LEMMA CodeInBuffer ==
  ASSUME FrameInv, NEW i \in Codes(find_offset)
  PROVE  /\ find_offset = 0
         /\ i \in Nat
         /\ i + 3 \in Index
         /\ i + 2 \in Index
         /\ buf[i + 3] \in Nat
         /\ i + buf[i + 3] <= DataLen
<1>1. find_offset = 0
  BY OneCommandPerBuffer, Lengths DEF FrameInv, TypeOK
<1>2. i \in 0..(DataLen - 6) /\ IsCode(0, i)
  BY <1>1, Lengths DEF Codes
<1>3. i \in Nat /\ i + 3 \in Index /\ i + 2 \in Index
  BY <1>2, Lengths DEF Index
<1>4. buf[i + 3] \in Byte
  BY <1>3 DEF FrameInv, TypeOK
<1>5. 0 + i + 3 = i + 3 /\ DataLen - 0 - i = DataLen - i
  BY <1>2, Lengths
<1>6. buf[i + 3] <= DataLen - i
  BY <1>2, <1>5 DEF IsCode
<1>7. DataLen \in Nat
  BY Lengths
<1>8. buf[i + 3] \in Nat
  BY <1>4, ByteIsNat
<1>9. i + buf[i + 3] <= DataLen
  BY <1>3, <1>6, <1>7, <1>8
<1> QED BY <1>1, <1>3, <1>8, <1>9

-----------------------------------------------------------------------------
(* The initial state.                                                      *)

LEMMA InitInv ==
  ASSUME Init
  PROVE  IInv
<1>1. TypeOK
  <2>1. stream \in Seq(Byte) /\ Len(stream) \in Nat
    BY ReceiverAssumption DEF Init, ReceiverAssumption
  <2>2. buf \in [Index -> Byte]
    BY DEF Init, Byte
  <2>3. cmds \in Seq([at : Nat, len : Byte, op : Byte])
    BY DEF Init
  <2>4. DataLen \in Nat /\ 1 <= DataLen - HeadLen
    BY Lengths DEF HeadLen
  <2>5. quit \in BOOLEAN
    BY DEF Init
  <2>8. taken \in 0..Len(stream)
    BY <2>1 DEF Init
  <2>6. offset \in 0..DataLen /\ find_offset \in 0..DataLen
        /\ rec_len \in 1..(DataLen - HeadLen) /\ ret \in 0..(DataLen - HeadLen)
    BY <2>4 DEF Init, HeadLen
  <2>7. phase \in {"loop", "recv", "dispatch", "exit"}
    BY DEF Init
  <2> QED BY <2>1, <2>2, <2>3, <2>5, <2>6, <2>7, <2>8 DEF TypeOK
<1>2. ReceiveWindow
  BY Lengths DEF Init, ReceiveWindow, HeadLen
<1>3. BufferIsStream /\ HeaderHeld /\ SearchStart
  BY DEF Init, BufferIsStream, HeaderHeld, SearchStart, HeadLen, Index
<1>4. CommandsOrdered /\ CommandsBehind
  BY DEF Init, CommandsOrdered, CommandsBehind
<1> QED BY <1>1, <1>2, <1>3, <1>4 DEF IInv, FrameInv

-----------------------------------------------------------------------------
(* Steps that change neither the frame nor the commands.                   *)

LEMMA QuietStep ==
  ASSUME IInv,
         UNCHANGED <<stream, taken, frameVars, find_offset, cmds>>,
         \/ phase' = phase
         \/ phase # "dispatch" /\ phase' \in {"loop", "recv", "exit"},
         quit' \in BOOLEAN
  PROVE  IInv'
<1> USE DEF frameVars
<1>1. TypeOK'
  BY DEF IInv, FrameInv, TypeOK, Index
<1>2. ReceiveWindow'
  BY DEF IInv, FrameInv, ReceiveWindow
<1>3. BufferIsStream' /\ HeaderHeld' /\ SearchStart'
  BY DEF IInv, FrameInv, BufferIsStream, HeaderHeld, SearchStart, Index
<1>4. CommandsOrdered' /\ CommandsBehind'
  BY DEF IInv, CommandsOrdered, CommandsBehind, Frontier
<1> QED BY <1>1, <1>2, <1>3, <1>4 DEF IInv, FrameInv

-----------------------------------------------------------------------------
(* The reads.                                                              *)

\* What every read that is not rejected keeps true of buffer and stream.
LEMMA TakeKeepsStream ==
  ASSUME FrameInv, NEW n, Take(n), offset' = offset + n
  PROVE  BufferIsStream'
<1>1. /\ taken \in Nat /\ offset \in Nat /\ n \in Nat /\ offset <= taken
      /\ taken' = taken + n /\ stream' = stream /\ buf' = Filled(n)
  BY Lengths DEF Take, FrameInv, TypeOK, BufferIsStream, HeadLen
<1>2. ASSUME NEW i \in Index, i < offset'
      PROVE  buf'[i] = stream'[taken' - offset' + i + 1]
  <2>0. i \in Int
    BY DEF Index
  <2>1. buf'[i] = IF offset <= i /\ i < offset + n
                  THEN stream[taken + (i - offset) + 1] ELSE buf[i]
    BY <1>1 DEF Filled
  <2>2. CASE offset <= i
    <3>1. taken + (i - offset) + 1 = taken' - offset' + i + 1
      BY <1>1, <2>0
    <3> QED BY <1>1, <1>2, <2>1, <2>2, <3>1
  <2>3. CASE ~(offset <= i)
    <3>1. i < offset /\ taken - offset + i + 1 = taken' - offset' + i + 1
      BY <1>1, <2>0, <2>3
    <3> QED BY <1>1, <2>1, <2>3, <3>1 DEF FrameInv, BufferIsStream
  <2> QED BY <2>2, <2>3
<1>3. offset' <= taken'
  BY <1>1
<1> QED BY <1>2, <1>3 DEF BufferIsStream, Index

\* A read outside a dispatch leaves the commands behind the frontier.
LEMMA TakeKeepsCommands ==
  ASSUME IInv, NEW n, Take(n),
         offset' = offset + n \/ offset' = 0
  PROVE  CommandsOrdered' /\ CommandsBehind'
<1>1. /\ taken \in Nat /\ offset \in Nat /\ n \in Nat
      /\ taken' = taken + n /\ cmds' = cmds
      /\ find_offset = 0 /\ find_offset' = 0
  BY Lengths DEF Take, IInv, FrameInv, TypeOK, SearchStart, HeadLen
<1>2. Frontier = taken + 1 - offset /\ Frontier' = taken' + 1 - offset'
  BY <1>1 DEF Frontier
<1>3. Frontier \in Int /\ Frontier' \in Int /\ Frontier <= Frontier'
  BY <1>1, <1>2
<1>4. ASSUME NEW k \in DOMAIN cmds
      PROVE  cmds[k].at + cmds[k].len \in Int
  <2>1. cmds[k] \in [at : Nat, len : Byte, op : Byte]
    BY <1>4, Element DEF IInv, FrameInv, TypeOK
  <2>2. cmds[k].at \in Nat /\ cmds[k].len \in Nat
    BY <2>1, ByteIsNat
  <2> QED BY <2>2
<1>5. CommandsBehind'
  BY <1>1, <1>3, <1>4 DEF IInv, CommandsBehind
<1>6. CommandsOrdered'
  BY <1>1 DEF IInv, CommandsOrdered
<1> QED BY <1>5, <1>6

\* The variables a read sets, typed.
LEMMA TakeType ==
  ASSUME FrameInv, NEW n, Take(n),
         phase' \in {"loop", "dispatch"},
         offset' \in 0..DataLen, rec_len' \in 1..(DataLen - HeadLen)
  PROVE  TypeOK'
<1>1. buf' \in [Index -> Byte]
  BY FilledType DEF Take
<1>2. taken' \in 0..Len(stream')
  BY Lengths DEF Take, FrameInv, TypeOK, HeadLen
<1>3. ret' \in 0..(DataLen - HeadLen)
  BY Lengths DEF Take, FrameInv, TypeOK, HeadLen
<1> QED BY <1>1, <1>2, <1>3 DEF Take, FrameInv, TypeOK, Index, HeadLen

LEMMA HeaderRejectedStep ==
  ASSUME IInv, NEW n, HeaderRejected(n)
  PROVE  IInv'
<1>1. Take(n) /\ offset' = 0 /\ rec_len' = 1 /\ phase' = "loop"
      /\ phase = "recv" /\ find_offset' = find_offset
  BY DEF HeaderRejected, Take
<1>2. TypeOK'
  BY <1>1, TakeType, Lengths DEF IInv, HeadLen
<1>3. ReceiveWindow' /\ HeaderHeld'
  BY <1>1, Lengths DEF ReceiveWindow, HeaderHeld, HeadLen
<1>4. BufferIsStream' /\ SearchStart'
  BY <1>1, <1>2 DEF BufferIsStream, SearchStart, TypeOK, Index, IInv, FrameInv
<1>5. CommandsOrdered' /\ CommandsBehind'
  BY <1>1, TakeKeepsCommands
<1> QED BY <1>2, <1>3, <1>4, <1>5 DEF IInv, FrameInv

\* The header bytes are not overwritten, and a new one was tested.
LEMMA AcceptedHeader ==
  ASSUME FrameInv, NEW n, Take(n), ~Rejected(Filled(n)), offset' = offset + n
  PROVE  HeaderHeld'
<1>1. /\ offset \in Nat /\ n \in Nat /\ n >= 1 /\ n <= rec_len
      /\ offset < HeadLen => rec_len = 1
      /\ buf' = Filled(n)
  BY Lengths DEF Take, FrameInv, TypeOK, ReceiveWindow, HeadLen
<1>2. \A i \in {0, 3} : i < offset => buf'[i] = buf[i]
  <2>1. 0 \in Index /\ 3 \in Index
    BY Lengths DEF Index
  <2> QED BY <1>1, <2>1 DEF Filled
<1>3. offset = 0 => buf'[0] = Head0
  BY <1>1 DEF Rejected, HeadLen
<1>4. offset = 3 => buf'[3] = DataLen
  BY <1>1 DEF Rejected, HeadLen
<1>5. offset' >= 1 => buf'[0] = Head0
  BY <1>1, <1>2, <1>3 DEF FrameInv, HeaderHeld
<1>6. offset' >= HeadLen => buf'[3] = DataLen
  <2>1. CASE offset >= HeadLen
    BY <1>1, <1>2, <2>1 DEF FrameInv, HeaderHeld, HeadLen
  <2>2. CASE offset < HeadLen
    BY <1>1, <1>4, <2>2 DEF HeadLen
  <2> QED BY <1>1, <2>1, <2>2 DEF HeadLen
<1> QED BY <1>5, <1>6 DEF HeaderHeld

LEMMA AcceptedStep ==
  ASSUME IInv, NEW n,
         HeaderComplete(n) \/ HeaderByte(n) \/ BodyPart(n) \/ FrameComplete(n)
  PROVE  IInv'
<1>1. /\ Take(n) /\ ~Rejected(Filled(n)) /\ phase = "recv"
      /\ find_offset' = find_offset
      /\ offset' = offset + n
  <2>1. CASE HeaderComplete(n)
    BY <2>1, Lengths
    DEF HeaderComplete, Take, IInv, FrameInv, TypeOK, ReceiveWindow, HeadLen
  <2> QED BY <2>1 DEF HeaderByte, BodyPart, FrameComplete, Take
<1>2. /\ offset \in Nat /\ n \in Nat /\ n >= 1 /\ n <= rec_len /\ rec_len \in Nat
      /\ offset < HeadLen => rec_len = 1
      /\ offset \in HeadLen..(DataLen - 1) => offset + rec_len = DataLen
      /\ offset < DataLen
  BY <1>1, Lengths DEF Take, IInv, FrameInv, TypeOK, ReceiveWindow, HeadLen
<1>3. /\ phase' \in {"loop", "dispatch"}
      /\ offset' \in 0..DataLen
      /\ rec_len' \in 1..(DataLen - HeadLen)
      /\ phase' = "dispatch" <=> offset' = DataLen
      /\ offset' < HeadLen => rec_len' = 1
      /\ offset' \in HeadLen..(DataLen - 1) => offset' + rec_len' = DataLen
  <2>1. CASE HeaderComplete(n)
    BY <1>1, <1>2, <2>1, Lengths DEF HeaderComplete, HeadLen
  <2>2. CASE HeaderByte(n)
    BY <1>1, <1>2, <2>2, Lengths DEF HeaderByte, HeadLen
  <2>3. CASE BodyPart(n)
    BY <1>1, <1>2, <2>3, Lengths DEF BodyPart, HeadLen
  <2>4. CASE FrameComplete(n)
    BY <1>1, <1>2, <2>4, Lengths
    DEF FrameComplete, HeadLen, IInv, FrameInv, TypeOK
  <2> QED BY <2>1, <2>2, <2>3, <2>4
<1>4. TypeOK'
  BY <1>1, <1>3, TakeType DEF IInv
<1>5. ReceiveWindow'
  BY <1>3 DEF ReceiveWindow
<1>6. BufferIsStream' /\ HeaderHeld'
  BY <1>1, TakeKeepsStream, AcceptedHeader DEF IInv
<1>7. SearchStart'
  BY <1>1 DEF IInv, FrameInv, SearchStart
<1>8. CommandsOrdered' /\ CommandsBehind'
  BY <1>1, TakeKeepsCommands
<1> QED BY <1>4, <1>5, <1>6, <1>7, <1>8 DEF IInv, FrameInv

-----------------------------------------------------------------------------
(* The dispatch loop.                                                      *)

LEMMA HandleCommandStep ==
  ASSUME IInv, HandleCommand
  PROVE  IInv'
<1> USE DEF frameVars
<1>1. PICK i \in FirstCode(find_offset) :
        /\ buf[find_offset + i + 3] >= MinCmdLen
        /\ cmds' = Append(cmds, Command(find_offset + i))
        /\ find_offset' = find_offset + i + buf[find_offset + i + 3]
  BY DEF HandleCommand
<1>2. i \in Codes(find_offset)
  BY DEF FirstCode
<1>3. /\ find_offset = 0 /\ i \in Nat /\ i + 3 \in Index /\ i + 2 \in Index
      /\ buf[i + 3] \in Nat /\ i + buf[i + 3] <= DataLen
  BY <1>2, CodeInBuffer DEF IInv
<1>4. 0 + i = i /\ find_offset + i + 3 = i + 3
  BY <1>3
<1>5. /\ phase = "dispatch" /\ phase' = phase /\ offset = DataLen
      /\ UNCHANGED <<stream, taken, buf, offset, rec_len, ret, quit>>
      /\ taken \in Nat /\ taken >= DataLen
  BY Lengths
  DEF HandleCommand, IInv, FrameInv, TypeOK, ReceiveWindow, BufferIsStream
<1> DEFINE c == Command(i)
<1>6. /\ c.at = taken - DataLen + i + 1 /\ c.len = buf[i + 3]
      /\ c.at \in Nat /\ c.at + c.len <= taken + 1 /\ c.len \in Nat
  BY <1>3, <1>5, Lengths DEF Command
<1>7. c \in [at : Nat, len : Byte, op : Byte]
  <2>1. buf[i + 3] \in Byte /\ buf[i + 2] \in Byte
    BY <1>3 DEF IInv, FrameInv, TypeOK
  <2> QED BY <1>6, <2>1 DEF Command
<1>8. cmds' = Append(cmds, c)
      /\ cmds \in Seq([at : Nat, len : Byte, op : Byte])
  BY <1>1, <1>3, <1>4 DEF IInv, FrameInv, TypeOK
<1> HIDE DEF c
<1>9. TypeOK'
  <2>1. cmds' \in Seq([at : Nat, len : Byte, op : Byte])
    BY <1>7, <1>8
  <2>2. find_offset' \in 0..DataLen
    BY <1>1, <1>3, <1>4, Lengths
  <2> QED BY <1>5, <2>1, <2>2 DEF IInv, FrameInv, TypeOK, Index
<1>10. ReceiveWindow' /\ BufferIsStream' /\ HeaderHeld' /\ SearchStart'
  BY <1>5 DEF IInv, FrameInv, ReceiveWindow, BufferIsStream, HeaderHeld,
              SearchStart, Index
<1>11. DOMAIN cmds' = DOMAIN cmds \cup {Len(cmds) + 1}
       /\ DOMAIN cmds = 1..Len(cmds) /\ Len(cmds) \in Nat
       /\ cmds'[Len(cmds) + 1] = c
       /\ \A k \in DOMAIN cmds : cmds'[k] = cmds[k]
  BY <1>7, <1>8
<1>12. ASSUME NEW k \in DOMAIN cmds
       PROVE  /\ cmds[k].at + cmds[k].len \in Nat
              /\ cmds[k].at + cmds[k].len <= c.at
  <2>1. cmds[k] \in [at : Nat, len : Byte, op : Byte]
    BY <1>8, Element
  <2>2. cmds[k].at \in Nat /\ cmds[k].len \in Nat
    BY <2>1, ByteIsNat
  <2>3. cmds[k].at + cmds[k].len <= taken + 1 - DataLen
    BY <1>3, <1>5 DEF IInv, CommandsBehind, Frontier
  <2> QED BY <1>3, <1>5, <1>6, <2>2, <2>3, Lengths
<1>13. CommandsOrdered'
  <2>1. ASSUME NEW j \in DOMAIN cmds', NEW k \in DOMAIN cmds', j < k
        PROVE  cmds'[j].at + cmds'[j].len <= cmds'[k].at
    <3>1. j \in DOMAIN cmds
      BY <1>11, <2>1
    <3>2. CASE k \in DOMAIN cmds
      BY <1>11, <2>1, <3>1, <3>2 DEF IInv, CommandsOrdered
    <3>3. CASE k = Len(cmds) + 1
      BY <1>11, <1>12, <3>1, <3>3
    <3> QED BY <1>11, <3>2, <3>3
  <2> QED BY <2>1 DEF CommandsOrdered
<1>14. CommandsBehind'
  <2>1. find_offset' # 0
    BY <1>1, <1>3, <1>4, Lengths
  <2>2. Frontier' = taken + 1 - 0
    BY <1>5, <2>1 DEF Frontier
  <2>3. ASSUME NEW k \in DOMAIN cmds'
        PROVE  cmds'[k].at + cmds'[k].len <= taken + 1
    <3>1. CASE k \in DOMAIN cmds
      BY <1>5, <1>6, <1>11, <1>12, <3>1
    <3>2. CASE k = Len(cmds) + 1
      BY <1>6, <1>11, <3>2
    <3> QED BY <1>11, <3>1, <3>2
  <2> QED BY <1>5, <2>2, <2>3 DEF CommandsBehind
<1> QED BY <1>9, <1>10, <1>13, <1>14 DEF IInv, FrameInv

LEMMA RestartStep ==
  ASSUME IInv, RestartReceiving
  PROVE  IInv'
<1>1. /\ offset' = 0 /\ rec_len' = 1 /\ find_offset' = 0 /\ phase' = "loop"
      /\ buf' = [i \in Index |-> IF i < ret THEN 0 ELSE buf[i]]
      /\ UNCHANGED <<stream, taken, ret, quit, cmds>>
      /\ taken \in Nat /\ offset \in Nat
  BY Lengths DEF RestartReceiving, IInv, FrameInv, TypeOK
<1>2. TypeOK'
  <2>1. buf' \in [Index -> Byte]
    BY <1>1 DEF IInv, FrameInv, TypeOK, Byte
  <2> QED BY <1>1, <2>1, Lengths DEF IInv, FrameInv, TypeOK, HeadLen, Index
<1>3. ReceiveWindow' /\ BufferIsStream' /\ HeaderHeld' /\ SearchStart'
  BY <1>1, Lengths
  DEF ReceiveWindow, BufferIsStream, HeaderHeld, SearchStart, HeadLen, Index
<1>4. CommandsOrdered'
  BY <1>1 DEF IInv, CommandsOrdered
<1>5. CommandsBehind'
  <2>1. /\ Frontier \in Int /\ Frontier <= taken + 1 /\ Frontier' = taken + 1
    BY <1>1, Lengths DEF Frontier, IInv, FrameInv, TypeOK
  <2>2. ASSUME NEW k \in DOMAIN cmds
        PROVE  cmds[k].at + cmds[k].len <= taken + 1
    <3>1. cmds[k] \in [at : Nat, len : Byte, op : Byte]
      BY Element DEF IInv, FrameInv, TypeOK
    <3>2. cmds[k].at \in Nat /\ cmds[k].len \in Nat
      BY <3>1, ByteIsNat
    <3>3. cmds[k].at + cmds[k].len <= Frontier
      BY DEF IInv, CommandsBehind
    <3> QED BY <1>1, <2>1, <3>2, <3>3
  <2> QED BY <1>1, <2>1, <2>2 DEF CommandsBehind
<1> QED BY <1>2, <1>3, <1>4, <1>5 DEF IInv, FrameInv

-----------------------------------------------------------------------------
(* The inductive invariant, and the properties it implies.                 *)

LEMMA StepInv ==
  ASSUME IInv, [Next]_vars
  PROVE  IInv'
<1>1. CASE LoopTest
  BY <1>1, QuietStep DEF LoopTest, IInv, FrameInv, TypeOK
<1>2. CASE RecvNothing
  BY <1>2, QuietStep DEF RecvNothing, IInv, FrameInv, TypeOK
<1>3. CASE RecvError
  BY <1>3, QuietStep DEF RecvError, IInv, FrameInv, TypeOK
<1>4. CASE Receive
  BY <1>4, HeaderRejectedStep, AcceptedStep DEF Receive
<1>5. CASE Dispatch
  <2>1. CASE SkipShortCommand
    BY <2>1, QuietStep DEF SkipShortCommand, vars, IInv, FrameInv, TypeOK, frameVars
  <2>2. CASE HandleCommand
    BY <2>2, HandleCommandStep
  <2>3. CASE RestartReceiving
    BY <2>3, RestartStep
  <2> QED BY <1>5, <2>1, <2>2, <2>3 DEF Dispatch
<1>6. CASE Signal
  BY <1>6, QuietStep DEF Signal
<1>7. CASE UNCHANGED vars
  BY <1>7, QuietStep DEF vars, frameVars, IInv, FrameInv, TypeOK
<1> QED BY <1>1, <1>2, <1>3, <1>4, <1>5, <1>6, <1>7 DEF Next, Main, Exited

\* The inductive invariant: the frame window, the buffer as a window of the
\* stream, the held header and the commands cut so far.
THEOREM Invariance == Spec => []IInv
<1>1. Init => IInv
  BY InitInv
<1>2. IInv /\ [Next]_vars => IInv'
  BY StepInv
<1> QED BY <1>1, <1>2, PTL DEF Spec

\* The variables of the receiver keep their types: in particular the number
\* of bytes asked of a read is never zero, negative or beyond the payload.
THEOREM TypeCorrect == Spec => []TypeOK
<1>1. IInv => TypeOK
  BY DEF IInv, FrameInv
<1> QED BY <1>1, Invariance, PTL

\* However the driver splits the line, the bytes asked for and the bytes
\* held add up to one frame.
THEOREM WindowCorrect == Spec => []ReceiveWindow
<1>1. IInv => ReceiveWindow
  BY DEF IInv, FrameInv
<1> QED BY <1>1, Invariance, PTL

\* The buffer is always a contiguous piece of the line that ends with the
\* last byte read.
THEOREM BufferCorrect == Spec => []BufferIsStream
<1>1. IInv => BufferIsStream
  BY DEF IInv, FrameInv
<1> QED BY <1>1, Invariance, PTL

\* Commands never overlap, for any stream and any nesting of markers.
THEOREM CommandsCorrect == Spec => []CommandsDisjoint
<1>1. IInv => CommandsDisjoint
  <2> SUFFICES ASSUME IInv, NEW k \in DOMAIN cmds
               PROVE  cmds[k].at + cmds[k].len <= taken + 1
    BY DEF IInv, CommandsOrdered, CommandsDisjoint
  <2>1. cmds[k] \in [at : Nat, len : Byte, op : Byte]
    BY Element DEF IInv, FrameInv, TypeOK
  <2>2. cmds[k].at \in Nat /\ cmds[k].len \in Nat
    BY <2>1, ByteIsNat
  <2>3. Frontier \in Int /\ Frontier <= taken + 1
    BY Lengths DEF Frontier, IInv, FrameInv, TypeOK
  <2>4. taken \in Nat
    BY DEF IInv, FrameInv, TypeOK
  <2> QED BY <2>2, <2>3, <2>4 DEF IInv, CommandsBehind
<1> QED BY <1>1, Invariance, PTL

\* The locator stays inside the buffer although it uses length bytes it has
\* not validated: it is the held header that keeps it from looking at
\* index -1, since a zero length byte can only follow the frame's own.
THEOREM LocatorCorrect == Spec => []LocatorInBounds
<1>1. IInv => LocatorInBounds
  <2> SUFFICES ASSUME IInv, phase = "dispatch", NEW i \in 0..(DataLen - 6),
                      buf[i] = Head0, buf[i + 3] <= DataLen - i,
                      NEW last, last = i + buf[i + 3] - 1
               PROVE  /\ last \in Index
                      /\ buf[last] = Tail1 => last - 1 \in Index
    BY DEF LocatorInBounds
  <2>1. i \in Nat /\ i + 3 \in Index /\ DataLen \in Nat
    BY Lengths DEF Index
  <2>2. buf[i + 3] \in Byte
    BY <2>1 DEF IInv, FrameInv, TypeOK
  <2>3. buf[i + 3] \in Nat
    BY <2>2, ByteIsNat
  <2>4. buf[3] = DataLen
    BY Lengths DEF IInv, FrameInv, HeaderHeld, ReceiveWindow, HeadLen
  <2>5. last \in Index
    <3>1. i # 0 \/ buf[i + 3] # 0
      BY <2>4, Lengths
    <3> QED BY <2>1, <2>3, <3>1 DEF Index
  <2>6. ASSUME buf[last] = Tail1 PROVE last - 1 \in Index
    <3>1. buf[0] = Head0
      BY Lengths DEF IInv, FrameInv, HeaderHeld, ReceiveWindow
    <3>2. last # 0
      BY <2>6, <3>1 DEF Head0, Tail1
    <3> QED BY <2>1, <2>5, <3>2 DEF Index
  <2> QED BY <2>5, <2>6
<1> QED BY <1>1, Invariance, PTL

-----------------------------------------------------------------------------
(* The reference splitter.  A recursive function is the choice of a        *)
(* function that satisfies its equation, so first such a function must     *)
(* exist: a shortest prefix of the line without one would have one after   *)
(* all, since every non-empty set of numbers has a least element.          *)

NatLess == {pair \in Nat \X Nat : pair[1] < pair[2]}

LEMMA NatLessWellFounded == IsWellFoundedOn(NatLess, Nat)
  BY NatLessThanWellFounded, Zenon DEF OpToRel, NatLess

LEMMA LeastNumber ==
  ASSUME NEW T, T \subseteq Nat, T # {}
  PROVE  \E m \in T : \A k \in T : m <= k
<1>1. PICK m \in T : \A k \in T : <<k, m>> \notin NatLess
  BY NatLessWellFounded, WFMin
<1>2. \A k \in T : ~(k < m)
  BY <1>1 DEF NatLess
<1>3. \A k \in T : m <= k
  BY <1>2
<1> QED BY <1>3

\* How many bytes of a frame are held after one more byte.
HeldAfter(h, b) ==
  CASE h = 0 /\ b # Head0   -> 0
    [] h = 1 /\ b # Head1   -> 0
    [] h = 3 /\ b # DataLen -> 0
    [] OTHER                -> (h + 1) % DataLen

\* f is the splitter for the first n bytes.
Splits(f, n) ==
  f = [k \in 0..n |-> IF k = 0 THEN 0 ELSE HeldAfter(f[k - 1], stream[k])]

LEMMA SplitterExists ==
  ASSUME NEW n \in Nat
  PROVE  \E f : Splits(f, n)
<1> DEFINE Without == {k \in Nat : ~ \E f : Splits(f, k)}
<1>1. SUFFICES ASSUME Without # {} PROVE FALSE
  OBVIOUS
<1>2. PICK m \in Without : \A k \in Without : m <= k
  <2>1. Without \subseteq Nat
    OBVIOUS
  <2> HIDE DEF Without
  <2> QED BY <1>1, <2>1, LeastNumber
<1>3. m \in Nat /\ ~ \E f : Splits(f, m)
  OBVIOUS
<1>4. CASE m = 0
  <2>1. Splits([k \in 0..0 |-> 0], 0)
    BY DEF Splits
  <2> QED BY <1>3, <1>4, <2>1
<1>5. CASE m # 0
  <2>1. m - 1 \in Nat /\ ~(m <= m - 1)
    BY <1>3, <1>5
  <2>2. m - 1 \notin Without
    BY <1>2, <2>1
  <2>3. PICK f : Splits(f, m - 1)
    BY <2>1, <2>2
  <2> DEFINE g == [k \in 0..m |-> IF k = m THEN HeldAfter(f[m - 1], stream[m]) ELSE f[k]]
  <2>4. \A k \in 0..m : g[k] = IF k = 0 THEN 0 ELSE HeldAfter(g[k - 1], stream[k])
    <3> TAKE k \in 0..m
    <3>1. CASE k = m
      <4>1. m - 1 \in 0..m /\ m - 1 # m /\ m \in 0..m
        BY <1>3, <1>5
      <4> QED BY <1>5, <3>1, <4>1
    <3>2. CASE k # m
      <4>1. k \in 0..(m - 1) /\ g[k] = f[k]
        BY <1>3, <3>2
      <4>2. f[k] = IF k = 0 THEN 0 ELSE HeldAfter(f[k - 1], stream[k])
        BY <2>3, <4>1 DEF Splits
      <4>3. k # 0 => k - 1 \in 0..m /\ k - 1 # m
        BY <1>3
      <4> QED BY <4>1, <4>2, <4>3
    <3> QED BY <3>1, <3>2
  <2>5. Splits(g, m)
    <3>1. g = [k \in 0..m |-> g[k]]
      OBVIOUS
    <3> HIDE DEF g
    <3> QED BY <2>4, <3>1 DEF Splits
  <2> QED BY <1>3, <2>5
<1> QED BY <1>4, <1>5

LEMMA HeldEquation ==
  ASSUME stream \in Seq(Byte)
  PROVE  \A k \in 0..Len(stream) :
           Held[k] = IF k = 0 THEN 0 ELSE HeldAfter(Held[k - 1], stream[k])
<1>1. Len(stream) \in Nat
  OBVIOUS
<1>2. \E f : Splits(f, Len(stream))
  BY <1>1, SplitterExists
<1>3. Held = CHOOSE f : Splits(f, Len(stream))
  BY DEF Held, Splits, HeldAfter
<1>4. Splits(Held, Len(stream))
  BY <1>2, <1>3
<1> QED BY <1>4 DEF Splits
LEMMA Remainders ==
  /\ DataLen % DataLen = 0
  /\ \A h \in 0..(DataLen - 1) : h % DataLen = h
BY Lengths

\* Past the header the splitter counts every byte, up to the end of a frame.
LEMMA HeldRun ==
  ASSUME stream \in Seq(Byte),
         NEW t \in Nat, NEW h \in Nat, NEW n \in Nat,
         t + n <= Len(stream), HeadLen <= h, h + n <= DataLen, h < DataLen,
         Held[t] = h
  PROVE  Held[t + n] = (h + n) % DataLen
<1> DEFINE Wrong == {j \in Nat : j <= n /\ Held[t + j] # (h + j) % DataLen}
<1>0. n \in Nat /\ t \in Nat /\ h \in Nat /\ DataLen \in Nat /\ Len(stream) \in Nat
  BY Lengths
<1>1. SUFFICES ASSUME Wrong # {} PROVE FALSE
  <2>1. ASSUME Held[t + n] # (h + n) % DataLen PROVE n \in Wrong
    BY <1>0, <2>1
  <2> HIDE DEF Wrong
  <2> QED BY <2>1
<1>2. PICK m \in Wrong : \A k \in Wrong : m <= k
  <2>1. Wrong \subseteq Nat
    OBVIOUS
  <2> HIDE DEF Wrong
  <2> QED BY <1>1, <2>1, LeastNumber
<1>3. m \in Nat /\ m <= n /\ Held[t + m] # (h + m) % DataLen
  OBVIOUS
<1>4. m # 0
  <2>1. t + 0 = t /\ h + 0 = h /\ h \in 0..(DataLen - 1)
    BY <1>0, Lengths
  <2>2. h % DataLen = h
    BY <2>1, Remainders
  <2> QED BY <1>3, <2>1, <2>2
<1>5. m - 1 \in Nat /\ m - 1 <= n /\ ~(m <= m - 1)
  BY <1>0, <1>3, <1>4
<1>6. Held[t + (m - 1)] = (h + (m - 1)) % DataLen
  BY <1>2, <1>5
<1>7. (h + (m - 1)) \in 0..(DataLen - 1) /\ HeadLen <= h + (m - 1)
  BY <1>0, <1>3, <1>4, <1>5 DEF HeadLen
<1>8. Held[t + (m - 1)] = h + (m - 1)
  BY <1>6, <1>7, Remainders
<1>9. /\ t + m \in 0..Len(stream) /\ t + m # 0 /\ (t + m) - 1 = t + (m - 1)
      /\ (h + (m - 1)) + 1 = h + m
  BY <1>0, <1>3, <1>4
<1>10. Held[t + m] = HeldAfter(h + (m - 1), stream[t + m])
  BY <1>8, <1>9, HeldEquation
<1>11. HeldAfter(h + (m - 1), stream[t + m]) = (h + m) % DataLen
  BY <1>7, <1>9 DEF HeldAfter, HeadLen
<1> QED BY <1>3, <1>10, <1>11

LEMMA SameSplitter ==
  ASSUME stream' = stream
  PROVE  Held' = Held
BY DEF Held

\* A read agrees with the splitter's steps over the bytes it returned.
LEMMA TakeAgrees ==
  ASSUME IInv, ChunkIndependent, NEW n \in Nat,
         \/ HeaderRejected(n)
         \/ HeaderComplete(n) \/ HeaderByte(n) \/ BodyPart(n) \/ FrameComplete(n)
  PROVE  ChunkIndependent'
<1>1. /\ Take(n) /\ taken' = taken + n /\ stream' = stream /\ buf' = Filled(n)
      /\ stream \in Seq(Byte) /\ taken \in Nat /\ n >= 1 /\ n <= rec_len
      /\ taken + n <= Len(stream) /\ Len(stream) \in Nat
  BY DEF HeaderRejected, HeaderComplete, HeaderByte, BodyPart, FrameComplete, Take,
         IInv, FrameInv, TypeOK
<1>2. /\ offset \in Nat /\ rec_len \in Nat /\ offset < DataLen
      /\ offset < HeadLen => n = 1
      /\ offset >= HeadLen => offset + n <= DataLen
  BY <1>1, Lengths DEF Take, IInv, FrameInv, TypeOK, ReceiveWindow, HeadLen
<1>3. Held[taken] = offset
  BY <1>2, Remainders, Lengths DEF ChunkIndependent
<1>4. Held' = Held
  BY <1>1, SameSplitter
<1>5. SUFFICES offset' % DataLen = Held[taken + n]
  BY <1>1, <1>4 DEF ChunkIndependent
<1>6. CASE offset < HeadLen
  <2>1. n = 1 /\ rec_len = 1
    BY <1>1, <1>2, <1>6 DEF IInv, FrameInv, ReceiveWindow
  <2>2. taken + 1 \in 0..Len(stream) /\ taken + 1 # 0 /\ (taken + 1) - 1 = taken
    BY <1>1, <2>1
  <2>3. Held[taken + 1] = HeldAfter(offset, stream[taken + 1])
    BY <1>1, <1>3, <2>2, HeldEquation
  <2>4. offset \in Index /\ Filled(n)[offset] = stream[taken + 1]
    <3>1. offset \in Index /\ offset <= offset /\ offset < offset + n
          /\ taken + (offset - offset) + 1 = taken + 1
      BY <1>1, <1>2, <2>1, Lengths DEF Index
    <3> QED BY <3>1 DEF Filled
  <2>5. CASE HeaderRejected(n)
    <3>1. offset' = 0 /\ Rejected(Filled(n))
      BY <2>5 DEF HeaderRejected
    <3>2. HeldAfter(offset, stream[taken + 1]) = 0
      BY <2>4, <3>1 DEF Rejected, HeldAfter
    <3>3. 0 % DataLen = 0
      BY Remainders, Lengths
    <3> QED BY <2>1, <2>3, <3>1, <3>2, <3>3
  <2>6. CASE HeaderComplete(n) \/ HeaderByte(n) \/ BodyPart(n) \/ FrameComplete(n)
    <3>1. offset' = offset + 1 /\ ~Rejected(Filled(n))
      BY <2>1, <2>6 DEF HeaderComplete, HeaderByte, BodyPart, FrameComplete, HeadLen
    <3>2. HeldAfter(offset, stream[taken + 1]) = (offset + 1) % DataLen
      BY <2>1, <2>4, <3>1 DEF Rejected, HeldAfter
    <3> QED BY <2>1, <2>3, <3>1, <3>2
  <2> QED BY <2>5, <2>6
<1>7. CASE offset >= HeadLen
  <2>1. ~HeaderRejected(n)
    BY <1>2, <1>7 DEF HeaderRejected, Rejected, HeadLen
  <2>2. offset' = offset + n
    BY <1>2, <1>7, <2>1 DEF HeaderComplete, HeaderByte, BodyPart, FrameComplete, HeadLen
  <2>3. Held[taken + n] = (offset + n) % DataLen
    BY <1>1, <1>2, <1>3, <1>7, HeldRun
  <2> QED BY <2>2, <2>3
<1> QED BY <1>2, <1>6, <1>7 DEF HeadLen

LEMMA ChunkStep ==
  ASSUME IInv, ChunkIndependent, [Next]_vars
  PROVE  ChunkIndependent'
<1>1. CASE Receive
  <2>1. PICK n \in 1..(DataLen - HeadLen) :
          \/ HeaderRejected(n)
          \/ HeaderComplete(n) \/ HeaderByte(n) \/ BodyPart(n) \/ FrameComplete(n)
    BY <1>1 DEF Receive
  <2>2. n \in Nat
    BY Lengths DEF HeadLen
  <2> QED BY <2>1, <2>2, TakeAgrees
<1>2. CASE RestartReceiving
  <2>1. offset = DataLen /\ offset' = 0 /\ stream' = stream /\ taken' = taken
    BY <1>2 DEF RestartReceiving, IInv, FrameInv, ReceiveWindow
  <2>2. Held' = Held /\ 0 % DataLen = 0
    BY <2>1, SameSplitter, Remainders, Lengths
  <2> QED BY <2>1, <2>2, Remainders DEF ChunkIndependent
<1>3. CASE UNCHANGED <<offset, stream, taken>>
  BY <1>3, SameSplitter DEF ChunkIndependent
<1> QED
  BY <1>1, <1>2, <1>3 DEF Next, Main, LoopTest, RecvNothing, RecvError, Dispatch,
     SkipShortCommand, HandleCommand, Signal, Exited, vars, frameVars

\* However the driver splits the line over reads, what the receiver holds is
\* what a receiver that takes the bytes one by one would hold.
THEOREM ChunksDoNotMatter == Spec => []ChunkIndependent
<1>1. Init => ChunkIndependent
  <2> SUFFICES ASSUME Init PROVE ChunkIndependent
    OBVIOUS
  <2>1. stream \in Seq(Byte) /\ taken = 0 /\ offset = 0
    BY ReceiverAssumption DEF Init
  <2>2. Held[0] = 0 /\ 0 % DataLen = 0
    BY <2>1, HeldEquation, Remainders, Lengths
  <2> QED BY <2>1, <2>2 DEF ChunkIndependent
<1>2. IInv /\ ChunkIndependent /\ [Next]_vars => ChunkIndependent'
  BY ChunkStep
<1> QED BY <1>1, <1>2, Invariance, PTL DEF Spec
=============================================================================
