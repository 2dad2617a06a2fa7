--------------------------- MODULE Gateway_proofs ---------------------------
(***************************************************************************)
(* The safety properties of Gateway for any number of fields, values,      *)
(* changes, commands, failing calls and restarts.                          *)
(***************************************************************************)
EXTENDS Gateway, TLAPS

-----------------------------------------------------------------------------
(* The mutex.                                                              *)

\* The mutex and the places at which it is held.
MutexInv ==
  /\ mpc = "send" <=> mutex = "main"
  /\ ipc = "send" <=> mutex = "ip"

LEMMA InitMutex == Init => MutexInv
BY DEF Init, MutexInv, Nobody

LEMMA StepMutex ==
  ASSUME MutexInv, [Next]_vars
  PROVE  MutexInv'
<1> USE DEF MutexInv, MainAt, IpAt, Nobody, mainVars, ipVars
<1>1. CASE Command
  BY <1>1 DEF Command, HandleGet, HandleSet, Receive
<1>2. CASE MainServes
  <2>1. CASE \E failed \in BOOLEAN : ReadMode(failed)
    BY <2>1 DEF ReadMode, AfterMode
  <2>2. CASE \E failed \in BOOLEAN : TruncateFile(failed)
    BY <2>2 DEF TruncateFile
  <2>3. CASE \E failed \in BOOLEAN : FlushFile(failed)
    BY <2>3 DEF FlushFile
  <2>4. CASE \E failed \in BOOLEAN : MainSends(failed)
    BY <2>4 DEF MainSends
  <2>5. CASE \E pipe \in BOOLEAN : PostFails(pipe)
    BY <2>5 DEF PostFails
  <2>6. CASE PostSent \/ PostGivesUp
    BY <2>6 DEF PostSent, PostGivesUp
  <2>7. CASE MainReads \/ MainReadFails
    BY <2>7 DEF MainReads, MainReadFails, AfterSnapshot
  <2>8. CASE MainLocks
    BY <2>8 DEF MainLocks
  <2> QED BY <1>2, <2>1, <2>2, <2>3, <2>4, <2>5, <2>6, <2>7, <2>8 DEF MainServes
<1>3. CASE MainEnds
  BY <1>3 DEF MainEnds, LeaveLoop, ClosePort, ReturnFromMain
<1>4. CASE IpRound
  <2>1. CASE IpStarts \/ IpReads \/ IpReadFails \/ IpCompares
    BY <2>1 DEF IpStarts, IpReads, IpReadFails, IpCompares
  <2>2. CASE IpLocks
    BY <2>2 DEF IpLocks
  <2>3. CASE \E failed \in BOOLEAN : IpReadsMode(failed)
    BY <2>3 DEF IpReadsMode
  <2>4. CASE \E failed \in BOOLEAN : IpSends(failed)
    BY <2>4 DEF IpSends
  <2> QED BY <1>4, <2>1, <2>2, <2>3, <2>4 DEF IpRound
<1>5. CASE Environment
  BY <1>5 DEF Environment, Reconfigure, Signal, Restart
<1>6. CASE UNCHANGED vars
  BY <1>6 DEF vars
<1> QED BY <1>1, <1>2, <1>3, <1>4, <1>5, <1>6 DEF Next, Ended

\* Two frames are never interleaved: each thread is at its write only while
\* it holds the mutex, also after signals, failing calls and restarts.
THEOREM MutualExclusion == Spec => []NoInterleaving
<1>1. MutexInv => NoInterleaving
  BY DEF MutexInv, NoInterleaving
<1>2. MutexInv /\ [Next]_vars => MutexInv'
  BY StepMutex
<1> QED BY <1>1, <1>2, InitMutex, PTL DEF Spec

-----------------------------------------------------------------------------
(* Types.                                                                  *)

\* A snapshot being taken is incomplete, and starts from its first field.
SnapInv ==
  /\ mpc = "snap" => got < NF
  /\ mpc = "flush" => got = 0
  /\ ipc = "snap" => igot < NF
  /\ ipc \notin {"snap", "compare"} => igot = 0

TypeInv == TypeOK /\ SnapInv

LEMMA Constants ==
  /\ NF \in Nat /\ NF >= 2 /\ 0 \in Val /\ 0 \in Flag
  /\ Stack \subseteq Config /\ Requests \subseteq Config
  /\ Tries \in Nat
  /\ MaxChanges \in Nat /\ MaxCommands \in Nat
  /\ MaxFails \in Nat /\ MaxCrashes \in Nat
BY GatewayAssumption DEF GatewayAssumption

LEMMA BootType ==
  ASSUME netcfg \in Config
  PROVE  BootSnapshots \subseteq Config
BY Constants DEF BootSnapshots, Config

LEMMA StoreType ==
  ASSUME NEW cfg \in Config, NEW f \in Field, NEW v \in Val
  PROVE  [cfg EXCEPT ![f] = v] \in Config
BY DEF Config

LEMMA AbandonedType ==
  ASSUME NEW cfg \in Config, NEW k
  PROVE  Abandoned(cfg, k) \in Config
BY Constants DEF Abandoned, Config

LEMMA ReadFlagType ==
  ASSUME TypeOK, NEW old \in Flag
  PROVE  ReadFlag(old) \in Flag
BY DEF TypeOK, ReadFlag

LEMMA OutcomeType ==
  ASSUME TypeOK, NEW failed \in BOOLEAN, Outcome(failed)
  PROVE  /\ fails' \in 0..MaxFails
         /\ changes' = changes /\ commands' = commands /\ crashes' = crashes
BY Constants DEF TypeOK, Outcome

LEMMA InitType == Init => TypeInv
<1> SUFFICES ASSUME Init PROVE TypeInv
  OBVIOUS
<1>1. saved \in Config
  BY BootType DEF Init
<1>2. seen \in [Field -> SUBSET Val]
  BY DEF Init, NotDue
<1>3. mode \in Flag
  BY Constants DEF Init, ReadFlag
<1>4. quit \in BOOLEAN /\ isGetIp \in BOOLEAN /\ uncertain \in BOOLEAN
  BY DEF Init
<1>5. req \in [op : {"get", "set"}, dhcp : Flag]
  BY Constants DEF Init, NoCommand
<1>6. TypeOK
  BY <1>1, <1>2, <1>3, <1>4, <1>5, Constants DEF Init, TypeOK, None, Nobody
<1>7. SnapInv
  BY DEF Init, SnapInv
<1> QED BY <1>6, <1>7 DEF TypeInv

\* The variables of a step that are copied keep their types.
LEMMA QuietType ==
  ASSUME TypeInv, UNCHANGED vars
  PROVE  TypeInv'
BY DEF TypeInv, TypeOK, SnapInv, vars, mainVars, ipVars, bounds, history

LEMMA CommandType ==
  ASSUME TypeInv, Command
  PROVE  TypeInv'
<1> USE Constants DEF ipVars, MainAt, Receive
<1>1. CASE HandleGet
  <2>1. req' \in [op : {"get", "set"}, dhcp : Flag]
    BY <1>1 DEF HandleGet
  <2>2. seen' \in [Field -> SUBSET Val]
    BY <1>1 DEF HandleGet, TypeInv, TypeOK, Config
  <2>3. commands' \in 0..MaxCommands
    BY <1>1 DEF HandleGet, TypeInv, TypeOK
  <2>4. TypeOK'
    BY <1>1, <2>1, <2>2, <2>3 DEF HandleGet, TypeInv, TypeOK
  <2>5. SnapInv'
    BY <1>1 DEF HandleGet, TypeInv, SnapInv
  <2> QED BY <2>4, <2>5 DEF TypeInv
<1>2. ASSUME NEW cfg \in Requests, NEW flag \in Flag, HandleSet(cfg, flag)
      PROVE  TypeInv'
  <2>1. req' \in [op : {"get", "set"}, dhcp : Flag]
    BY <1>2 DEF HandleSet
  <2>2. param' \in Config
    BY <1>2 DEF HandleSet
  <2>3. commands' \in 0..MaxCommands
    BY <1>2 DEF HandleSet, TypeInv, TypeOK
  <2>4. TypeOK'
    BY <1>2, <2>1, <2>2, <2>3 DEF HandleSet, TypeInv, TypeOK
  <2>5. SnapInv'
    BY <1>2 DEF HandleSet, TypeInv, SnapInv
  <2> QED BY <2>4, <2>5 DEF TypeInv
<1> QED BY <1>1, <1>2 DEF Command

LEMMA ServeType ==
  ASSUME TypeInv, MainServes
  PROVE  TypeInv'
<1> USE DEF ipVars, bounds, history, MainAt
<1>1. ASSUME NEW failed \in BOOLEAN, ReadMode(failed)
      PROVE  TypeInv'
  <2>1. dhcpStat' \in Flag
    BY <1>1, ReadFlagType DEF ReadMode, TypeInv, TypeOK
  <2>2. uncertain' \in BOOLEAN
    BY <1>1 DEF ReadMode, TypeInv, TypeOK
  <2>3. /\ fails' \in 0..MaxFails
        /\ changes' = changes /\ commands' = commands /\ crashes' = crashes
    BY <1>1, OutcomeType DEF ReadMode, TypeInv
  <2>4. TypeOK'
    BY <1>1, <2>1, <2>2, <2>3 DEF ReadMode, AfterMode, TypeInv, TypeOK
  <2>5. SnapInv'
    BY <1>1 DEF ReadMode, AfterMode, TypeInv, SnapInv
  <2> QED BY <2>4, <2>5 DEF TypeInv
<1>2. ASSUME NEW failed \in BOOLEAN, TruncateFile(failed)
      PROVE  TypeInv'
  <2>1. seen' \in [Field -> SUBSET Val]
    BY <1>2 DEF TruncateFile, TypeInv, TypeOK, Config
  <2>2. /\ fails' \in 0..MaxFails
        /\ changes' = changes /\ commands' = commands /\ crashes' = crashes
    BY <1>2, OutcomeType DEF TruncateFile, TypeInv
  <2>3. TypeOK'
    BY <1>2, <2>1, <2>2, Constants DEF TruncateFile, TypeInv, TypeOK
  <2>4. SnapInv'
    BY <1>2, Constants DEF TruncateFile, TypeInv, SnapInv
  <2> QED BY <2>3, <2>4 DEF TypeInv
<1>3. ASSUME NEW failed \in BOOLEAN, FlushFile(failed)
      PROVE  TypeInv'
  <2>1. seen' \in [Field -> SUBSET Val]
    BY <1>3 DEF FlushFile, TypeInv, TypeOK, Config
  <2>2. /\ fails' \in 0..MaxFails
        /\ changes' = changes /\ commands' = commands /\ crashes' = crashes
    BY <1>3, OutcomeType DEF FlushFile, TypeInv
  <2>3. TypeOK'
    BY <1>3, <2>1, <2>2 DEF FlushFile, TypeInv, TypeOK
  <2>4. SnapInv'
    BY <1>3, Constants DEF FlushFile, TypeInv, SnapInv
  <2> QED BY <2>3, <2>4 DEF TypeInv
<1>4. ASSUME NEW failed \in BOOLEAN, MainSends(failed)
      PROVE  TypeInv'
  <2>1. seen' \in [Field -> SUBSET Val]
    BY <1>4 DEF MainSends, NotDue
  <2>2. /\ fails' \in 0..MaxFails
        /\ changes' = changes /\ commands' = commands /\ crashes' = crashes
    BY <1>4, OutcomeType DEF MainSends, TypeInv
  <2>3. req' \in [op : {"get", "set"}, dhcp : Flag]
    BY <1>4, Constants DEF MainSends, NoCommand
  <2>4. TypeOK'
    BY <1>4, <2>1, <2>2, <2>3, Constants DEF MainSends, TypeInv, TypeOK, Nobody
  <2>5. SnapInv'
    BY <1>4 DEF MainSends, TypeInv, SnapInv
  <2> QED BY <2>4, <2>5 DEF TypeInv
<1>5. ASSUME NEW pipe \in BOOLEAN, PostFails(pipe)
      PROVE  TypeInv'
  <2>1. tries' \in 0..Tries
    BY <1>5, Constants DEF PostFails, TypeInv, TypeOK
  <2>2. quit' \in BOOLEAN
    BY <1>5 DEF PostFails, TypeInv, TypeOK
  <2>3. TypeOK'
    BY <1>5, <2>1, <2>2 DEF PostFails, TypeInv, TypeOK
  <2>4. SnapInv'
    BY <1>5 DEF PostFails, TypeInv, SnapInv
  <2> QED BY <2>3, <2>4 DEF TypeInv
<1>6. CASE PostSent
  <2>1. TypeOK'
    BY <1>6, Constants DEF PostSent, TypeInv, TypeOK
  <2>2. SnapInv'
    BY <1>6 DEF PostSent, TypeInv, SnapInv
  <2> QED BY <2>1, <2>2 DEF TypeInv
<1>7. CASE PostGivesUp
  <2>1. seen' \in [Field -> SUBSET Val]
    BY <1>7 DEF PostGivesUp, TypeInv, TypeOK, Config
  <2>2. TypeOK'
    BY <1>7, <2>1, Constants DEF PostGivesUp, TypeInv, TypeOK
  <2>3. SnapInv'
    BY <1>7, Constants DEF PostGivesUp, TypeInv, SnapInv
  <2> QED BY <2>2, <2>3 DEF TypeInv
<1>8. CASE MainReads
  <2>1. got + 1 \in Field /\ got' \in 0..NF
    BY <1>8, Constants DEF MainReads, TypeInv, TypeOK, SnapInv, Field
  <2>2. netcfg[got + 1] \in Val
    BY <2>1 DEF TypeInv, TypeOK, Config
  <2>3. param' \in Config
    BY <1>8, <2>1, <2>2, StoreType DEF MainReads, TypeInv, TypeOK
  <2>4. TypeOK'
    BY <1>8, <2>1, <2>3 DEF MainReads, AfterSnapshot, TypeInv, TypeOK
  <2>5. SnapInv'
    BY <1>8, <2>1, Constants DEF MainReads, AfterSnapshot, TypeInv, TypeOK, SnapInv
  <2> QED BY <2>4, <2>5 DEF TypeInv
<1>9. CASE MainReadFails
  <2>1. param' \in Config
    BY <1>9, AbandonedType DEF MainReadFails, TypeInv, TypeOK
  <2>2. /\ fails' \in 0..MaxFails
        /\ changes' = changes /\ commands' = commands /\ crashes' = crashes
    BY <1>9, OutcomeType DEF MainReadFails, TypeInv
  <2>3. TypeOK'
    BY <1>9, <2>1, <2>2 DEF MainReadFails, AfterSnapshot, TypeInv, TypeOK
  <2>4. SnapInv'
    BY <1>9 DEF MainReadFails, AfterSnapshot, TypeInv, SnapInv
  <2> QED BY <2>3, <2>4 DEF TypeInv
<1>10. CASE MainLocks
  <2>1. TypeOK'
    BY <1>10 DEF MainLocks, TypeInv, TypeOK
  <2>2. SnapInv'
    BY <1>10 DEF MainLocks, TypeInv, SnapInv
  <2> QED BY <2>1, <2>2 DEF TypeInv
<1> QED BY <1>1, <1>2, <1>3, <1>4, <1>5, <1>6, <1>7, <1>8, <1>9, <1>10
        DEF MainServes

LEMMA EndType ==
  ASSUME TypeInv, MainEnds
  PROVE  TypeInv'
<1> USE DEF ipVars, bounds, history, MainAt
<1>1. TypeOK'
  BY DEF MainEnds, LeaveLoop, ClosePort, ReturnFromMain, TypeInv, TypeOK
<1>2. SnapInv'
  BY DEF MainEnds, LeaveLoop, ClosePort, ReturnFromMain, TypeInv, SnapInv
<1> QED BY <1>1, <1>2 DEF TypeInv

LEMMA IpType ==
  ASSUME TypeInv, IpRound
  PROVE  TypeInv'
<1> USE DEF mainVars, bounds, history, IpAt
<1>1. CASE IpStarts
  <2>1. TypeOK'
    BY <1>1 DEF IpStarts, TypeInv, TypeOK
  <2>2. SnapInv'
    BY <1>1, Constants DEF IpStarts, TypeInv, SnapInv
  <2> QED BY <2>1, <2>2 DEF TypeInv
<1>2. CASE IpReads
  <2>1. igot + 1 \in Field /\ igot' \in 0..NF
    BY <1>2, Constants DEF IpReads, TypeInv, TypeOK, SnapInv, Field
  <2>2. netcfg[igot + 1] \in Val
    BY <2>1 DEF TypeInv, TypeOK, Config
  <2>3. iparam' \in Config
    BY <1>2, <2>1, <2>2, StoreType DEF IpReads, TypeInv, TypeOK
  <2>4. TypeOK'
    BY <1>2, <2>1, <2>3 DEF IpReads, TypeInv, TypeOK
  <2>5. SnapInv'
    BY <1>2, <2>1, Constants DEF IpReads, TypeInv, TypeOK, SnapInv
  <2> QED BY <2>4, <2>5 DEF TypeInv
<1>3. CASE IpReadFails
  <2>1. iparam' \in Config
    BY <1>3, AbandonedType DEF IpReadFails, TypeInv, TypeOK
  <2>2. /\ fails' \in 0..MaxFails
        /\ changes' = changes /\ commands' = commands /\ crashes' = crashes
    BY <1>3, OutcomeType DEF IpReadFails, TypeInv
  <2>3. TypeOK'
    BY <1>3, <2>1, <2>2 DEF IpReadFails, TypeInv, TypeOK
  <2>4. SnapInv'
    BY <1>3 DEF IpReadFails, TypeInv, SnapInv
  <2> QED BY <2>3, <2>4 DEF TypeInv
<1>4. CASE IpCompares
  <2>1. saved' \in Config
    BY <1>4 DEF IpCompares, TypeInv, TypeOK
  <2>2. TypeOK'
    BY <1>4, <2>1, Constants DEF IpCompares, TypeInv, TypeOK
  <2>3. SnapInv'
    BY <1>4 DEF IpCompares, TypeInv, SnapInv
  <2> QED BY <2>2, <2>3 DEF TypeInv
<1>5. ASSUME NEW failed \in BOOLEAN, IpReadsMode(failed)
      PROVE  TypeInv'
  <2>1. idhcp' \in Flag
    BY <1>5, Constants, ReadFlagType DEF IpReadsMode, TypeInv
  <2>2. /\ fails' \in 0..MaxFails
        /\ changes' = changes /\ commands' = commands /\ crashes' = crashes
    BY <1>5, OutcomeType DEF IpReadsMode, TypeInv
  <2>3. TypeOK'
    BY <1>5, <2>1, <2>2 DEF IpReadsMode, TypeInv, TypeOK
  <2>4. SnapInv'
    BY <1>5 DEF IpReadsMode, TypeInv, SnapInv
  <2> QED BY <2>3, <2>4 DEF TypeInv
<1>6. CASE IpLocks
  <2>1. TypeOK'
    BY <1>6 DEF IpLocks, TypeInv, TypeOK
  <2>2. SnapInv'
    BY <1>6 DEF IpLocks, TypeInv, SnapInv
  <2> QED BY <2>1, <2>2 DEF TypeInv
<1>7. ASSUME NEW failed \in BOOLEAN, IpSends(failed)
      PROVE  TypeInv'
  <2>1. /\ fails' \in 0..MaxFails
        /\ changes' = changes /\ commands' = commands /\ crashes' = crashes
    BY <1>7, OutcomeType DEF IpSends, TypeInv
  <2>2. TypeOK'
    BY <1>7, <2>1, Constants DEF IpSends, TypeInv, TypeOK, Nobody
  <2>3. SnapInv'
    BY <1>7 DEF IpSends, TypeInv, SnapInv
  <2> QED BY <2>2, <2>3 DEF TypeInv
<1> QED BY <1>1, <1>2, <1>3, <1>4, <1>5, <1>6, <1>7 DEF IpRound

LEMMA EnvironmentType ==
  ASSUME TypeInv, Environment
  PROVE  TypeInv'
<1>1. ASSUME NEW f \in Field, NEW v \in Val, Reconfigure(f, v)
      PROVE  TypeInv'
  <2> USE DEF mainVars, ipVars
  <2>1. netcfg' \in Config
    BY <1>1, StoreType DEF Reconfigure, TypeInv, TypeOK
  <2>2. seen' \in [Field -> SUBSET Val]
    BY <1>1 DEF Reconfigure, TypeInv, TypeOK
  <2>3. changes' \in 0..MaxChanges
    BY <1>1, Constants DEF Reconfigure, TypeInv, TypeOK
  <2>4. TypeOK'
    BY <1>1, <2>1, <2>2, <2>3 DEF Reconfigure, TypeInv, TypeOK
  <2>5. SnapInv'
    BY <1>1 DEF Reconfigure, TypeInv, SnapInv
  <2> QED BY <2>4, <2>5 DEF TypeInv
<1>2. CASE Signal
  <2> USE DEF mainVars, ipVars, bounds, history
  <2>1. TypeOK'
    BY <1>2 DEF Signal, TypeInv, TypeOK
  <2>2. SnapInv'
    BY <1>2 DEF Signal, TypeInv, SnapInv
  <2> QED BY <2>1, <2>2 DEF TypeInv
<1>3. CASE Restart
  <2>1. saved' \in Config
    BY <1>3, BootType DEF Restart, TypeInv, TypeOK
  <2>2. seen' \in [Field -> SUBSET Val]
    BY <1>3 DEF Restart, NotDue
  <2>3. req' \in [op : {"get", "set"}, dhcp : Flag]
    BY <1>3, Constants DEF Restart, NoCommand
  <2>4. quit' \in BOOLEAN /\ isGetIp' \in BOOLEAN
    BY <1>3 DEF Restart
  <2>5. crashes' \in 0..MaxCrashes
    BY <1>3, Constants DEF Restart, TypeInv, TypeOK
  <2>6. TypeOK'
    BY <1>3, <2>1, <2>2, <2>3, <2>4, <2>5, Constants
    DEF Restart, TypeInv, TypeOK, Nobody
  <2>7. SnapInv'
    BY <1>3 DEF Restart, SnapInv
  <2> QED BY <2>6, <2>7 DEF TypeInv
<1> QED BY <1>1, <1>2, <1>3 DEF Environment

LEMMA StepType ==
  ASSUME TypeInv, [Next]_vars
  PROVE  TypeInv'
BY CommandType, ServeType, EndType, IpType, EnvironmentType, QuietType
DEF Next, Ended

THEOREM TypeInvariance == Spec => []TypeInv
<1>1. TypeInv /\ [Next]_vars => TypeInv'
  BY StepType
<1> QED BY <1>1, InitType, PTL DEF Spec

\* All variables keep their types, however often calls fail.
THEOREM TypeCorrect == Spec => []TypeOK
<1>1. TypeInv => TypeOK
  BY DEF TypeInv
<1> QED BY <1>1, TypeInvariance, PTL

-----------------------------------------------------------------------------
(* Freshness of replies.                                                   *)

\* A snapshot has been asked for: seen collects the values in force.
Due == \/ mpc \in {"snap", "lock", "send"}
       \/ mpc = "mode" /\ req.op = "get"

FreshInv ==
  Due => /\ \A f \in Field : netcfg[f] \in seen[f]
         /\ \A f \in 1..got : param[f] \in seen[f]

LEMMA StepFresh ==
  ASSUME TypeInv, FreshInv, [Next]_vars
  PROVE  FreshInv'
<1> USE DEF FreshInv, Due, MainAt, IpAt, mainVars, ipVars, bounds, history
<1>0. req.op \in {"get", "set"}
  BY DEF TypeInv, TypeOK
<1>1. CASE Command
  <2>1. CASE HandleGet
    BY <2>1 DEF HandleGet, Receive
  <2>2. ASSUME NEW cfg \in Requests, NEW flag \in Flag, HandleSet(cfg, flag)
        PROVE  FreshInv'
    BY <2>2 DEF HandleSet, Receive
  <2> QED BY <1>1, <2>1, <2>2 DEF Command
<1>2. CASE MainServes
  <2>1. ASSUME NEW failed \in BOOLEAN, ReadMode(failed) PROVE FreshInv'
    BY <1>0, <2>1 DEF ReadMode, AfterMode
  <2>2. ASSUME NEW failed \in BOOLEAN, TruncateFile(failed) PROVE FreshInv'
    BY <2>2 DEF TruncateFile
  <2>3. ASSUME NEW failed \in BOOLEAN, FlushFile(failed) PROVE FreshInv'
    <3>1. got' = 0 /\ 1..0 = {}
      BY <2>3 DEF FlushFile, TypeInv, SnapInv
    <3>2. \A f \in Field : netcfg'[f] \in seen'[f]
      BY <2>3 DEF FlushFile
    <3> QED BY <3>1, <3>2
  <2>4. ASSUME NEW failed \in BOOLEAN, MainSends(failed) PROVE FreshInv'
    BY <2>4 DEF MainSends
  <2>5. ASSUME NEW pipe \in BOOLEAN, PostFails(pipe) PROVE FreshInv'
    BY <2>5 DEF PostFails
  <2>6. CASE PostSent
    BY <2>6 DEF PostSent
  <2>7. CASE PostGivesUp
    BY <2>7 DEF PostGivesUp
  <2>8. CASE MainReads
    <3>1. got \in Nat /\ got' = got + 1 /\ got + 1 \in Field
          /\ seen' = seen /\ netcfg' = netcfg /\ param \in Config
          /\ param' = [param EXCEPT ![got + 1] = netcfg[got + 1]] /\ Due
      BY <2>8, Constants DEF MainReads, TypeInv, TypeOK, SnapInv, Field
    <3>2. ASSUME NEW f \in 1..got' PROVE param'[f] \in seen'[f]
      <4>1. CASE f = got + 1
        BY <3>1, <4>1 DEF Config
      <4>2. CASE f # got + 1
        <5>1. f \in 1..got /\ f \in Int
          BY <3>1, <3>2, <4>2
        <5>2. param'[f] = param[f]
          BY <3>1, <4>2, <5>1 DEF Config, Field
        <5> QED BY <3>1, <5>1, <5>2
      <4> QED BY <4>1, <4>2
    <3> QED BY <3>1, <3>2
  <2>9. CASE MainReadFails
    <3>1. got' = got /\ got \in Nat /\ got < NF /\ Due /\ param \in Config
          /\ seen' = seen /\ netcfg' = netcfg /\ param' = Abandoned(param, got)
      BY <2>9, Constants DEF MainReadFails, TypeInv, TypeOK, SnapInv
    <3>2. ASSUME NEW f \in 1..got PROVE param'[f] = param[f]
      BY <3>1, Constants DEF Abandoned, Config, Field
    <3> QED BY <3>1, <3>2
  <2>10. CASE MainLocks
    BY <2>10 DEF MainLocks
  <2> QED BY <1>2, <2>1, <2>2, <2>3, <2>4, <2>5, <2>6, <2>7, <2>8, <2>9, <2>10
          DEF MainServes
<1>3. CASE MainEnds
  BY <1>3 DEF MainEnds, LeaveLoop, ClosePort, ReturnFromMain
<1>4. CASE IpRound
  <2>1. UNCHANGED <<mpc, req, netcfg, seen, got, param>>
    BY <1>4 DEF IpRound, IpStarts, IpReads, IpReadFails, IpCompares, IpReadsMode,
                IpLocks, IpSends
  <2> QED BY <2>1
<1>5. CASE Environment
  <2>1. ASSUME NEW f \in Field, NEW v \in Val, Reconfigure(f, v) PROVE FreshInv'
    <3>1. UNCHANGED <<mpc, req, got, param>>
          /\ netcfg' = [netcfg EXCEPT ![f] = v]
          /\ netcfg \in Config /\ seen \in [Field -> SUBSET Val]
      BY <2>1 DEF Reconfigure, TypeInv, TypeOK
    <3>2. \A g \in Field : seen[g] \subseteq seen'[g]
      BY <2>1, <3>1 DEF Reconfigure
    <3>3. ASSUME Due, NEW g \in Field PROVE netcfg'[g] \in seen'[g]
      <4>1. netcfg[f] \in seen[f] /\ netcfg[g] \in seen[g]
        BY <3>3
      <4>2. seen' = [seen EXCEPT ![f] = seen[f] \cup {v}]
        BY <2>1, <4>1 DEF Reconfigure
      <4> QED BY <3>1, <4>1, <4>2 DEF Config
    <3>4. ASSUME Due, NEW g \in 1..got PROVE param'[g] \in seen'[g]
      <4>1. g \in Field
        BY Constants DEF TypeInv, TypeOK, Field
      <4> QED BY <3>1, <3>2, <3>4, <4>1
    <3> QED BY <3>1, <3>3, <3>4
  <2>2. CASE Signal
    BY <2>2 DEF Signal
  <2>3. CASE Restart
    BY <2>3 DEF Restart
  <2> QED BY <1>5, <2>1, <2>2, <2>3 DEF Environment
<1>6. CASE UNCHANGED vars
  BY <1>6 DEF vars
<1> QED BY <1>1, <1>2, <1>3, <1>4, <1>5, <1>6 DEF Next, Ended

\* Whatever changes while get_network reads, each field of a reply that it
\* managed to read was in force after the reply was asked for.
THEOREM FreshReplies == Spec => []FreshReply
<1>1. Init => FreshInv
  BY DEF Init, FreshInv, Due
<1>2. TypeInv /\ FreshInv /\ [Next]_vars => FreshInv'
  BY StepFresh
<1>3. FreshInv => FreshReply
  BY DEF FreshInv, Due, FreshReply
<1> QED BY <1>1, <1>2, <1>3, TypeInvariance, PTL DEF Spec

-----------------------------------------------------------------------------
(* The DHCP mode, its file and main()'s copy of it.                        *)

\* Where main()'s copy of the mode has been refreshed for this command.
Refreshed == \/ mpc \in {"post", "lock", "send"}
             \/ mpc = "snap" /\ req.op = "set"

ModeInv ==
  /\ mpc \in {"post", "truncate", "flush"} => req.op = "set"
  /\ mpc \in {"truncate", "flush"} => uncertain /\ dhcpStat = mode
  /\ ~uncertain => \/ dhcpFile = mode
                   \/ dhcpFile = Absent /\ mode = 0 /\ dhcpStat = 0
  /\ ~uncertain /\ Refreshed => dhcpStat = mode

LEMMA FlagIsNoMarker == Absent \notin Flag /\ Empty \notin Flag
BY GatewayAssumption DEF GatewayAssumption, Absent, Empty

LEMMA InitMode == Init => ModeInv
BY FlagIsNoMarker DEF Init, ModeInv, Refreshed, ReadFlag

LEMMA StepMode ==
  ASSUME TypeInv, ModeInv, [Next]_vars
  PROVE  ModeInv'
<1> USE DEF ModeInv, Refreshed, MainAt, IpAt, mainVars, ipVars, bounds, history
<1>0. req.op \in {"get", "set"} /\ mode \in Flag
  BY DEF TypeInv, TypeOK
<1>1. CASE Command
  BY <1>1 DEF Command, HandleGet, HandleSet, Receive
<1>2. CASE MainServes
  <2>1. ASSUME NEW failed \in BOOLEAN, ReadMode(failed) PROVE ModeInv'
    BY <1>0, <2>1, FlagIsNoMarker DEF ReadMode, AfterMode, ReadFlag
  <2>2. ASSUME NEW failed \in BOOLEAN, TruncateFile(failed) PROVE ModeInv'
    BY <2>2 DEF TruncateFile
  <2>3. ASSUME NEW failed \in BOOLEAN, FlushFile(failed) PROVE ModeInv'
    BY <2>3 DEF FlushFile
  <2>4. ASSUME NEW failed \in BOOLEAN, MainSends(failed) PROVE ModeInv'
    BY <2>4 DEF MainSends
  <2>5. ASSUME NEW pipe \in BOOLEAN, PostFails(pipe) PROVE ModeInv'
    BY <2>5 DEF PostFails
  <2>6. CASE PostSent
    BY <2>6 DEF PostSent
  <2>7. CASE PostGivesUp
    BY <2>7 DEF PostGivesUp
  <2>8. CASE MainReads
    BY <1>0, <2>8 DEF MainReads, AfterSnapshot
  <2>9. CASE MainReadFails
    BY <1>0, <2>9 DEF MainReadFails, AfterSnapshot
  <2>10. CASE MainLocks
    BY <2>10 DEF MainLocks
  <2> QED BY <1>2, <2>1, <2>2, <2>3, <2>4, <2>5, <2>6, <2>7, <2>8, <2>9, <2>10
          DEF MainServes
<1>3. CASE MainEnds
  BY <1>3 DEF MainEnds, LeaveLoop, ClosePort, ReturnFromMain
<1>4. CASE IpRound
  <2>1. UNCHANGED <<mpc, req, dhcpFile, dhcpStat, mode, uncertain>>
    BY <1>4 DEF IpRound, IpStarts, IpReads, IpReadFails, IpCompares, IpReadsMode,
                IpLocks, IpSends
  <2> QED BY <2>1
<1>5. CASE Environment
  BY <1>5 DEF Environment, Reconfigure, Signal, Restart
<1>6. CASE UNCHANGED vars
  BY <1>6 DEF vars
<1> QED BY <1>1, <1>2, <1>3, <1>4, <1>5, <1>6 DEF Next, Ended

THEOREM ModeInvariance == Spec => []ModeInv
<1>1. TypeInv /\ ModeInv /\ [Next]_vars => ModeInv'
  BY StepMode
<1> QED BY <1>1, InitMode, TypeInvariance, PTL DEF Spec

\* The file follows the mode across failing POSTs, signals and restarts.
THEOREM FileCorrect == Spec => []FileIsMode
<1>1. ModeInv => FileIsMode
  BY DEF ModeInv, FileIsMode
<1> QED BY <1>1, ModeInvariance, PTL

\* No reply claims a mode that was not handed over to the web service.
THEOREM ReplyCorrect == Spec => []ReplyIsMode
<1>1. ASSUME ModeInv PROVE ReplyIsMode
  BY <1>1 DEF ModeInv, ReplyIsMode, Refreshed
<1>2. ModeInv => ReplyIsMode
  BY <1>1
<1> QED BY <1>2, ModeInvariance, PTL

=============================================================================
