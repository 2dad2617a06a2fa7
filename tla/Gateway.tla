------------------------------ MODULE Gateway ------------------------------
(***************************************************************************)
(* The application of src/demo.c above the serial receiver: main() serves  *)
(* the GET and SET commands of the MCU while ip_change_process(), a second *)
(* thread, watches the network configuration and announces it.             *)
(*                                                                         *)
(* They share the serial port (under m_mutex), m_is_get_ip, m_app_quit and *)
(* the DHCP mode file (under nothing).  The kernel's configuration changes *)
(* while get_network() reads it field by field, and any call can fail.     *)
(***************************************************************************)
EXTENDS Integers

CONSTANTS
  NF,           \* fields of a configuration, in the order get_network reads
                \* them: ip, mask, gateway and dns (the last one)
  Val,          \* values of a field
  Flag,         \* values of the DHCP mode byte
  Stack,        \* configurations an uninitialised local variable may hold
  Requests,     \* configurations the MCU may ask for
  Tries,        \* attempts of a POST: 3
  MaxChanges,   \* bound: changes of the kernel's configuration
  MaxCommands,  \* bound: commands of the MCU
  MaxFails,     \* bound: failing calls (ioctl, fopen, write)
  MaxCrashes    \* bound: crashes

Field  == 1..NF
Config == [Field -> Val]

ASSUME GatewayAssumption ==
  /\ NF \in Nat \ {0, 1}
  /\ 0 \in Val
  /\ 0 \in Flag /\ Flag \subseteq Nat
  /\ Stack \subseteq Config /\ Requests \subseteq Config
  /\ Tries \in Nat \ {0}
  /\ {MaxChanges, MaxCommands, MaxFails, MaxCrashes} \subseteq Nat

Absent == -1            \* DHCPC_FILE does not exist
Empty  == -2            \* it was truncated and not yet written
Nobody == "nobody"      \* m_mutex is free
None   == <<>>          \* the MCU has been told nothing

VARIABLES
  netcfg,     \* the kernel's configuration of eth0
  dhcpFile,   \* contents of DHCPC_FILE
  quit,       \* m_app_quit
  mutex,      \* who holds m_mutex
  isGetIp,    \* m_is_get_ip
  saved,      \* m_network_param: what ip_change_process compares with
  mcu,        \* the configuration in the last status frame on the line
  (* main() *)
  mpc,        \* where it is
  req,        \* the command it serves
  param,      \* network_param (p_c9_network points to it)
  got,        \* fields get_network has stored in this snapshot
  tries,      \* re_cnt
  dhcpStat,   \* dhcp_stat
  (* ip_change_process() *)
  ipc, iparam, igot, idhcp,
  (* bounds *)
  changes, commands, fails, crashes,
  (* history *)
  mode,       \* the DHCP mode last handed over to the web service
  uncertain,  \* an access of main() to the file failed or is unfinished
  seen        \* per field, the values in force since the snapshot was due

mainVars == <<mpc, req, param, got, tries, dhcpStat>>
ipVars == <<ipc, iparam, igot, idhcp>>
bounds == <<changes, commands, fails, crashes>>
history == <<mode, uncertain, seen>>
vars == <<netcfg, dhcpFile, quit, mutex, isGetIp, saved, mcu,
          mainVars, ipVars, bounds, history>>

\* What reading the file leaves in a variable that held the value old:
\* fopen fails, or fread finds nothing, and the variable keeps it.
ReadFlag(old) == IF dhcpFile \in {Absent, Empty} THEN old ELSE dhcpFile

\* get_network at boot may stop early, unless no call fails at all;
\* m_network_param is zero-initialised.
BootSnapshots ==
  {[f \in Field |-> IF f < k THEN netcfg[f] ELSE 0] :
     k \in {j \in 1..(NF + 1) : MaxFails = 0 => j = NF + 1}}

NotDue == [f \in Field |-> {}]

NoCommand == [op |-> "get", dhcp |-> 0]

Init ==
  /\ netcfg \in Config
  /\ dhcpFile \in {Absent} \cup Flag
  /\ mcu = None
  /\ quit = FALSE
  /\ mutex = Nobody
  /\ isGetIp = FALSE
  /\ saved \in BootSnapshots
  /\ mpc = "idle"
  /\ req = NoCommand
  /\ param \in Stack                  \* uninitialised
  /\ got = 0
  /\ tries = 0
  /\ dhcpStat = 0
  /\ ipc = "test"
  /\ iparam \in Stack                 \* uninitialised
  /\ igot = 0
  /\ idhcp = 0
  /\ changes = 0 /\ commands = 0 /\ fails = 0 /\ crashes = 0
  /\ mode = ReadFlag(0)
  /\ uncertain = FALSE
  /\ seen = NotDue

Alive == mpc # "exit"

\* The port is usable until main() has called comport_close.
PortOpen == mpc \notin {"closed", "exit"}

\* A call that may fail, as often as the bound allows.
Outcome(failed) ==
  /\ failed => fails < MaxFails
  /\ fails' = IF failed THEN fails + 1 ELSE fails
  /\ UNCHANGED <<changes, commands, crashes>>

-----------------------------------------------------------------------------
(* main(): the loop and the start of a command.                            *)

MainAt(here, there) == mpc = here /\ mpc' = there

\* The main loop ends: m_app_quit is set, or select/read failed.
LeaveLoop ==
  /\ MainAt("idle", "closing")
  /\ UNCHANGED <<netcfg, dhcpFile, quit, mutex, isGetIp, saved, mcu, req,
                 param, got, tries, dhcpStat, ipVars, bounds, history>>

\* comport_close and comport_module_uninit; the other thread is not told.
ClosePort ==
  /\ MainAt("closing", "closed")
  /\ UNCHANGED <<netcfg, dhcpFile, quit, mutex, isGetIp, saved, mcu, req,
                 param, got, tries, dhcpStat, ipVars, bounds, history>>

\* return 0: the process, with its detached thread, is gone.
ReturnFromMain ==
  /\ MainAt("closed", "exit")
  /\ UNCHANGED <<netcfg, dhcpFile, quit, mutex, isGetIp, saved, mcu, req,
                 param, got, tries, dhcpStat, ipVars, bounds, history>>

\* The receiver has found a command.
Receive(cmd) ==
  /\ ~quit
  /\ commands < MaxCommands
  /\ commands' = commands + 1
  /\ req' = cmd
  /\ UNCHANGED <<netcfg, dhcpFile, quit, mutex, saved, mcu, dhcpStat, ipVars,
                 changes, fails, crashes, mode, uncertain>>

HandleGet ==
  /\ MainAt("idle", "snap")
  /\ Receive([op |-> "get", dhcp |-> 0])
  /\ isGetIp' = TRUE
  /\ got' = 0
  /\ seen' = [f \in Field |-> {netcfg[f]}]
  /\ UNCHANGED <<param, tries>>

HandleSet(cfg, flag) ==
  /\ MainAt("idle", "mode")
  /\ Receive([op |-> "set", dhcp |-> flag])
  /\ param' = cfg
  /\ tries' = Tries
  /\ UNCHANGED <<isGetIp, got, seen>>

-----------------------------------------------------------------------------
(* main(): set_or_get_dhcp_stat and set_Interaction_netparam_by_net.       *)

AfterMode == IF req.op = "set" THEN "post" ELSE "lock"

\* A mistake: a SET does not read the file first.
ReadModeOnlyForGet(failed) ==
  /\ MainAt("mode", AfterMode)
  /\ Outcome(failed)
  /\ dhcpStat' = IF failed \/ req.op = "set" THEN dhcpStat ELSE ReadFlag(dhcpStat)
  /\ uncertain' = (uncertain \/ failed)
  /\ UNCHANGED <<netcfg, dhcpFile, quit, mutex, isGetIp, saved, mcu, req,
                 param, got, tries, ipVars, mode, seen>>

\* set_or_get_dhcp_stat(&dhcp_stat, 0)
ReadMode(failed) ==
  /\ MainAt("mode", AfterMode)
  /\ Outcome(failed)
  /\ dhcpStat' = IF failed THEN dhcpStat ELSE ReadFlag(dhcpStat)
  /\ uncertain' = (uncertain \/ failed)
  /\ UNCHANGED <<netcfg, dhcpFile, quit, mutex, isGetIp, saved, mcu, req,
                 param, got, tries, ipVars, mode, seen>>

\* A mistake: the retry counter is not tested before an attempt.
PostFailsAgain(pipe) ==
  /\ mpc = "post"
  /\ tries' = tries - 1
  /\ quit' = (quit \/ pipe)
  /\ UNCHANGED <<netcfg, dhcpFile, mutex, isGetIp, saved, mcu, mpc, req, param,
                 got, dhcpStat, ipVars, bounds, history>>

\* One attempt: network_client_open or network_client_send fails.  Writing
\* to a connection the peer has closed raises SIGPIPE, which signal_handler
\* takes for a request to quit.
PostFails(pipe) ==
  /\ mpc = "post"
  /\ tries > 0
  /\ tries' = tries - 1
  /\ quit' = (quit \/ pipe)
  /\ UNCHANGED <<netcfg, dhcpFile, mutex, isGetIp, saved, mcu, mpc, req, param,
                 got, dhcpStat, ipVars, bounds, history>>

\* The request is sent; the response is never read.
PostSent ==
  /\ MainAt("post", "truncate")
  /\ tries > 0
  /\ tries' = 0
  /\ dhcpStat' = req.dhcp
  /\ mode' = req.dhcp
  /\ uncertain' = TRUE
  /\ UNCHANGED <<netcfg, dhcpFile, quit, mutex, isGetIp, saved, mcu, req,
                 param, got, ipVars, bounds, seen>>

\* A mistake: the result of the POST is tested with >= 0.
PostGivesUpAndSaves ==
  /\ MainAt("post", "truncate")
  /\ tries = 0
  /\ dhcpStat' = req.dhcp
  /\ UNCHANGED <<netcfg, dhcpFile, quit, mutex, isGetIp, saved, mcu, req,
                 param, got, tries, ipVars, bounds, history>>

PostGivesUp ==
  /\ MainAt("post", "snap")
  /\ tries = 0
  /\ got' = 0
  /\ seen' = [f \in Field |-> {netcfg[f]}]
  /\ UNCHANGED <<netcfg, dhcpFile, quit, mutex, isGetIp, saved, mcu, req,
                 param, tries, dhcpStat, ipVars, bounds, mode, uncertain>>

\* set_or_get_dhcp_stat(&dhcp_stat, 1): fopen "w+" empties the file ...
TruncateFile(failed) ==
  /\ MainAt("truncate", IF failed THEN "snap" ELSE "flush")
  /\ Outcome(failed)
  /\ dhcpFile' = IF failed THEN dhcpFile ELSE Empty
  /\ got' = 0
  /\ seen' = IF failed THEN [f \in Field |-> {netcfg[f]}] ELSE seen
  /\ UNCHANGED <<netcfg, quit, mutex, isGetIp, saved, mcu, req, param, tries,
                 dhcpStat, ipVars, mode, uncertain>>

\* ... and fclose writes the byte.
FlushFile(failed) ==
  /\ MainAt("flush", "snap")
  /\ Outcome(failed)
  /\ dhcpFile' = IF failed THEN dhcpFile ELSE dhcpStat
  /\ uncertain' = failed
  /\ seen' = [f \in Field |-> {netcfg[f]}]
  /\ UNCHANGED <<netcfg, quit, mutex, isGetIp, saved, mcu, req, param, got,
                 tries, dhcpStat, ipVars, mode>>

-----------------------------------------------------------------------------
(* main(): get_network into network_param, then the status frame.          *)

AfterSnapshot == IF req.op = "set" THEN "lock" ELSE "mode"

\* What get_network makes of cfg when the field after the first k fails:
\* get_dns clears its result before it looks for one.
Abandoned(cfg, k) == IF k = NF - 1 THEN [cfg EXCEPT ![NF] = 0] ELSE cfg

\* A mistake: the thread's copy is taken for the kernel's.
MainReadsSaved ==
  /\ mpc = "snap"
  /\ param' = [param EXCEPT ![got + 1] = saved[got + 1]]
  /\ got' = got + 1
  /\ mpc' = IF got' = NF THEN AfterSnapshot ELSE "snap"
  /\ UNCHANGED <<netcfg, dhcpFile, quit, mutex, isGetIp, saved, mcu, req, tries,
                 dhcpStat, ipVars, bounds, history>>

\* The next field is read.
MainReads ==
  /\ mpc = "snap"
  /\ param' = [param EXCEPT ![got + 1] = netcfg[got + 1]]
  /\ got' = got + 1
  /\ mpc' = IF got' = NF THEN AfterSnapshot ELSE "snap"
  /\ UNCHANGED <<netcfg, dhcpFile, quit, mutex, isGetIp, saved, mcu, req, tries,
                 dhcpStat, ipVars, bounds, history>>

\* get_network gives up; its result is not looked at, and the other fields
\* are sent as they are: those of the request after a SET.
MainReadFails ==
  /\ MainAt("snap", AfterSnapshot)
  /\ Outcome(TRUE)
  /\ param' = Abandoned(param, got)
  /\ UNCHANGED <<netcfg, dhcpFile, quit, mutex, isGetIp, saved, mcu, req, got,
                 tries, dhcpStat, ipVars, history>>

\* A mistake: the frame is sent without the mutex.
MainDoesNotLock ==
  /\ MainAt("lock", "send")
  /\ UNCHANGED <<netcfg, dhcpFile, quit, mutex, isGetIp, saved, mcu, req, param,
                 got, tries, dhcpStat, ipVars, bounds, history>>

MainLocks ==
  /\ MainAt("lock", "send")
  /\ mutex = Nobody
  /\ mutex' = "main"
  /\ UNCHANGED <<netcfg, dhcpFile, quit, isGetIp, saved, mcu, req, param, got,
                 tries, dhcpStat, ipVars, bounds, history>>

\* send_meet_network_to_serail, whose write may fail unnoticed, and unlock.
MainSends(failed) ==
  /\ MainAt("send", "idle")
  /\ Outcome(failed)
  /\ mcu' = IF failed THEN mcu ELSE param
  /\ mutex' = Nobody
  /\ req' = NoCommand
  /\ got' = 0
  /\ seen' = NotDue
  /\ UNCHANGED <<netcfg, dhcpFile, quit, isGetIp, saved, param, tries, dhcpStat,
                 ipVars, mode, uncertain>>

MainServes ==
  \/ \E failed \in BOOLEAN : \/ ReadMode(failed)
                            \/ TruncateFile(failed)
                            \/ FlushFile(failed)
                            \/ MainSends(failed)
  \/ \E pipe \in BOOLEAN : PostFails(pipe)
  \/ PostSent
  \/ PostGivesUp
  \/ MainReads
  \/ MainReadFails
  \/ MainLocks

MainEnds == LeaveLoop \/ ClosePort \/ ReturnFromMain

-----------------------------------------------------------------------------
(* ip_change_process(): one round per second.                              *)

IpAt(here, there) == Alive /\ ipc = here /\ ipc' = there

IpStarts ==
  /\ IpAt("test", IF quit THEN "end" ELSE "snap")
  /\ UNCHANGED <<netcfg, dhcpFile, quit, mutex, isGetIp, saved, mcu, mainVars,
                 iparam, igot, idhcp, bounds, history>>

IpReads ==
  /\ Alive
  /\ ipc = "snap"
  /\ iparam' = [iparam EXCEPT ![igot + 1] = netcfg[igot + 1]]
  /\ igot' = igot + 1
  /\ ipc' = IF igot' = NF THEN "compare" ELSE "snap"
  /\ UNCHANGED <<netcfg, dhcpFile, quit, mutex, isGetIp, saved, mcu, mainVars,
                 idhcp, bounds, history>>

\* The fields not read keep what the last round left in them.
IpReadFails ==
  /\ IpAt("snap", "compare")
  /\ Outcome(TRUE)
  /\ iparam' = Abandoned(iparam, igot)
  /\ UNCHANGED <<netcfg, dhcpFile, quit, mutex, isGetIp, saved, mcu, mainVars,
                 igot, idhcp, history>>

\* Mistakes in the condition: the last field is not compared, or the rounds
\* before the first GET are not announced.
ToAnnounceButLast == (\E f \in 1..(NF - 1) : iparam[f] # saved[f]) \/ ~isGetIp
ToAnnounceChanges == \E f \in Field : iparam[f] # saved[f]

ToAnnounce == (\E f \in Field : iparam[f] # saved[f]) \/ ~isGetIp

IpCompares ==
  /\ IpAt("compare", IF ToAnnounce THEN "mode" ELSE "test")
  /\ saved' = IF ToAnnounce THEN iparam ELSE saved
  /\ igot' = 0
  /\ UNCHANGED <<netcfg, dhcpFile, quit, mutex, isGetIp, mcu, mainVars, iparam,
                 idhcp, bounds, history>>

\* sync_cur_network_param_to_dev starts with dhcp_stat = 0 each time.
IpReadsMode(failed) ==
  /\ IpAt("mode", "lock")
  /\ Outcome(failed)
  /\ idhcp' = IF failed THEN 0 ELSE ReadFlag(0)
  /\ UNCHANGED <<netcfg, dhcpFile, quit, mutex, isGetIp, saved, mcu, mainVars,
                 iparam, igot, history>>

IpLocks ==
  /\ IpAt("lock", "send")
  /\ mutex = Nobody
  /\ mutex' = "ip"
  /\ UNCHANGED <<netcfg, dhcpFile, quit, isGetIp, saved, mcu, mainVars, iparam,
                 igot, idhcp, bounds, history>>

\* A mistake: pthread_mutex_unlock is missing.
IpSendsAndKeepsLock(failed) ==
  /\ IpAt("send", "test")
  /\ Outcome(failed)
  /\ mcu' = IF failed \/ ~PortOpen THEN mcu ELSE iparam
  /\ idhcp' = 0
  /\ UNCHANGED <<netcfg, dhcpFile, quit, mutex, isGetIp, saved, mainVars, iparam,
                 igot, history>>

\* When main() has closed the port meanwhile, the handle is dangling: the
\* frame does not reach the MCU.
IpSends(failed) ==
  /\ IpAt("send", "test")
  /\ Outcome(failed)
  /\ mcu' = IF failed \/ ~PortOpen THEN mcu ELSE iparam
  /\ mutex' = Nobody
  /\ idhcp' = 0
  /\ UNCHANGED <<netcfg, dhcpFile, quit, isGetIp, saved, mainVars, iparam, igot,
                 history>>

IpRound ==
  \/ IpStarts \/ IpReads \/ IpReadFails \/ IpCompares \/ IpLocks
  \/ \E failed \in BOOLEAN : IpReadsMode(failed) \/ IpSends(failed)

-----------------------------------------------------------------------------
(* The environment.                                                        *)

\* DHCP, an administrator or the web service changes a field.
Reconfigure(f, v) ==
  /\ changes < MaxChanges
  /\ changes' = changes + 1
  /\ netcfg[f] # v
  /\ netcfg' = [netcfg EXCEPT ![f] = v]
  /\ seen' = IF seen[f] = {} THEN seen ELSE [seen EXCEPT ![f] = @ \cup {v}]
  /\ UNCHANGED <<dhcpFile, quit, mutex, isGetIp, saved, mcu, mainVars, ipVars,
                 commands, fails, crashes, mode, uncertain>>

\* signal_handler
Signal ==
  /\ Alive
  /\ ~quit
  /\ quit' = TRUE
  /\ UNCHANGED <<netcfg, dhcpFile, mutex, isGetIp, saved, mcu, mainVars, ipVars,
                 bounds, history>>

\* The process is killed, or has ended, and is started again.
Restart ==
  /\ crashes < MaxCrashes
  /\ crashes' = crashes + 1
  /\ quit' = FALSE
  /\ mutex' = Nobody
  /\ isGetIp' = FALSE
  /\ saved' \in BootSnapshots
  /\ mpc' = "idle"
  /\ req' = NoCommand
  /\ param' \in Stack
  /\ got' = 0
  /\ tries' = 0
  /\ dhcpStat' = 0
  /\ ipc' = "test"
  /\ iparam' \in Stack
  /\ igot' = 0
  /\ idhcp' = 0
  /\ seen' = NotDue
  /\ UNCHANGED <<netcfg, dhcpFile, mcu, changes, commands, fails, mode, uncertain>>

Ended == ~Alive /\ UNCHANGED vars

Command ==
  \/ HandleGet
  \/ \E cfg \in Requests, flag \in Flag : HandleSet(cfg, flag)

Environment == \/ \E f \in Field, v \in Val : Reconfigure(f, v)
               \/ Signal
               \/ Restart

Next == Command \/ MainServes \/ MainEnds \/ IpRound \/ Environment \/ Ended

Spec == Init /\ [][Next]_vars

\* Both threads are scheduled.  The mutex is strongly fair to each: the
\* other one sleeps a second, or waits for the next command, before it asks
\* for the mutex again.  Leaving the loop without a signal is never owed.
Fairness ==
  /\ WF_vars(MainServes)
  /\ SF_vars(MainLocks)
  /\ WF_vars(quit /\ LeaveLoop)
  /\ WF_vars(ClosePort \/ ReturnFromMain)
  /\ WF_vars(IpRound)
  /\ SF_vars(IpLocks)

FairSpec == Spec /\ Fairness

-----------------------------------------------------------------------------
(* Properties.                                                             *)

TypeOK ==
  /\ netcfg \in Config
  /\ dhcpFile \in {Absent, Empty} \cup Flag
  /\ quit \in BOOLEAN
  /\ mutex \in {Nobody, "main", "ip"}
  /\ isGetIp \in BOOLEAN
  /\ saved \in Config
  /\ mcu \in {None} \cup Config
  /\ mpc \in {"idle", "mode", "post", "truncate", "flush", "snap", "lock", "send",
              "closing", "closed", "exit"}
  /\ req \in [op : {"get", "set"}, dhcp : Flag]
  /\ param \in Config
  /\ got \in 0..NF
  /\ tries \in 0..Tries
  /\ dhcpStat \in Flag
  /\ ipc \in {"test", "snap", "compare", "mode", "lock", "send", "end"}
  /\ iparam \in Config
  /\ igot \in 0..NF
  /\ idhcp \in Flag
  /\ changes \in 0..MaxChanges
  /\ commands \in 0..MaxCommands
  /\ fails \in 0..MaxFails
  /\ crashes \in 0..MaxCrashes
  /\ mode \in Flag
  /\ uncertain \in BOOLEAN
  /\ seen \in [Field -> SUBSET Val]

\* The bytes of two status frames are never interleaved on the line.
NoInterleaving == ~(mpc = "send" /\ ipc = "send")

\* What a reply says of a field that get_network has read was in force at
\* some moment after the command came in and, for a SET, after the web
\* service was asked, whatever changed meanwhile.  Of the fields behind the
\* one get_network stopped at nothing is said: after a SET they are what the
\* MCU asked for (demo.c:509).  Nor is it said that the reply is still true
\* when it is sent, see StatusConverges.
FreshReply ==
  mpc \in {"lock", "send"} => \A f \in 1..got : param[f] \in seen[f]

\* Between commands the file holds the DHCP mode last handed over to the
\* web service, across restarts and failing POSTs, unless an access of
\* main() to it failed or a crash came between the POST and fclose.
FileIsMode ==
  mpc = "idle" /\ ~uncertain =>
    \/ dhcpFile = mode
    \/ dhcpFile = Absent /\ mode = 0

\* A reply carries that mode: a SET whose POST failed does not claim the
\* mode it asked for.
ReplyIsMode == mpc \in {"lock", "send"} /\ ~uncertain => dhcpStat = mode

\* A command that was taken is answered, even when the POST fails, a signal
\* (SIGPIPE from that POST included) asks to quit, or the thread is
\* announcing at that moment.
CommandAnswered ==
  (mpc \notin {"idle", "closing", "closed", "exit"}) ~> (mpc = "idle")

\* A request to quit ends the process, whatever both threads are doing.
QuitEnds == quit ~> (mpc = "exit" \/ ~quit)

Leaving == quit \/ mpc \in {"closing", "closed", "exit"}

\* The thread notices every lasting change of every field, although
\* get_network may fail and leave it with a mixture of old and new.  It fails
\* finitely often here (MaxFails): while eth0 has no address it fails each
\* time (network_tools.cpp:212), and the fields behind that one go unnoticed.
ChangesNoticed == (saved # netcfg) ~> (saved = netcfg \/ Leaving)

\* Until the first GET the MCU learns of every change and forgets nothing:
\* lost frames are repeated, and so is what a late reply to a SET said.  As
\* above, get_network fails finitely often.
StatusFollows == <>[](mcu = netcfg \/ isGetIp \/ Leaving)

-----------------------------------------------------------------------------
(* demo.c:514 "actively refresh ip": when nothing changes any more, the    *)
(* MCU has been shown the configuration that is in force.                  *)
StatusConverges == <>[](mcu = netcfg \/ Leaving)

=============================================================================
