-------------------------------- MODULE Post --------------------------------
(***************************************************************************)
(* set_Interaction_netparam_by_net of demo.c on top of the socket table:   *)
(* every call it makes of network.c is made of steps of SocketTable.  Of   *)
(* the request the model keeps what is encoded, the authorization.         *)
(***************************************************************************)
EXTENDS SocketTable, Base64

CONSTANTS
  Poster,         \* the thread that posts, main()
  Tries,          \* re_cnt as the callers pass it
  Credentials,    \* the user names and passwords, a text may be Null
  Null,           \* the null pointer
  PlainSize,      \* sizeof(authorrization)
  HeaderSize,     \* sizeof(base64)
  MaxPosts        \* bound: how often a configuration is posted

(* The longest plain text whose header fits base64, with the 0 that ends   *)
(* it: 765 bytes.                                                          *)
Longest == 3 * ((HeaderSize - 1) \div 4)

(* Texts are strings, so they hold no 0.  Both buffers of the code have    *)
(* 1024 bytes: what snprintf does not cut may be too long for base64.      *)
ASSUME PostAssumption ==
  /\ Poster \in Openers
  /\ "TCP" \in Protocols
  /\ Tries \in Nat
  /\ MaxPosts \in Nat
  /\ \A c \in Credentials : \A text \in {c.username, c.password} :
       text = Null \/ text \in Seq(1..255)
  /\ PlainSize \in Nat
  /\ HeaderSize \in Nat \ {0}
  /\ Longest < PlainSize - 1

VARIABLES
  at,             \* where the function is
  re_cnt,
  net_handle,     \* m_net_handle
  credentials,    \* username and password
  authorization,  \* base64
  result,         \* what the last call returned
  posts           \* how many calls there were

poster == <<at, re_cnt, net_handle, credentials, authorization, result, posts>>
postVars == <<vars, poster>>

PostInit ==
  /\ Init
  /\ at = "idle" /\ re_cnt = 0 /\ net_handle = 0
  /\ credentials = [username |-> Null, password |-> Null] /\ authorization = <<>>
  /\ result = "none" /\ posts = 0

(* The text of which vc_authorization_base64_encode means to make a        *)
(* header; ':' is 58.                                                      *)
PlainText(c) ==
  CASE c.username # Null /\ c.password # Null -> c.username \o <<58>> \o c.password
    [] c.username # Null /\ c.password = Null -> c.username
    [] c.username = Null -> <<58>> \o c.password

(* What snprintf leaves of a text in authorrization. *)
Printed(text) ==
  IF Len(text) < PlainSize THEN text ELSE SubSeq(text, 1, PlainSize - 1)

(* Without any credentials base64 stays empty. *)
vc_authorization_base64_encode(c) ==
  IF c.username = Null /\ c.password = Null THEN <<>>
  ELSE base64_encode(Printed(PlainText(c)))

Move(from, to) == at = from /\ at' = to

PostCalled(c) ==
  /\ Move("idle", "redo")
  /\ posts < MaxPosts
  /\ posts' = posts + 1
  /\ re_cnt' = Tries
  /\ credentials' = c
  /\ authorization' = <<>>
  /\ result' = "none"
  /\ UNCHANGED <<vars, net_handle>>

(* re_cnt-- <= 0 *)
GivesUp ==
  /\ Move("redo", "idle")
  /\ re_cnt <= 0
  /\ re_cnt' = re_cnt - 1
  /\ result' = "gaveUp"
  /\ UNCHANGED <<vars, net_handle, credentials, authorization, posts>>

TriesAgain ==
  /\ Move("redo", "open")
  /\ re_cnt > 0
  /\ re_cnt' = re_cnt - 1
  /\ UNCHANGED <<vars, net_handle, credentials, authorization, result, posts>>

LeavesCall == UNCHANGED <<re_cnt, net_handle, credentials, authorization, result, posts>>

(* network_client_open; "localhost" is an address, parsing it cannot fail. *)
OpenCalled == Move("open", "opening") /\ OpenStart(Poster, "TCP") /\ LeavesCall
Opening == Move("opening", "opening") /\ Connect(Poster) /\ LeavesCall

(* It fails, and after 300 ms the function tries again. *)
OpenFailed ==
  /\ \/ Move("open", "redo") /\ OpenNoMemory(Poster)
     \/ Move("opening", "redo") /\ ConnectFails(Poster)
  /\ LeavesCall

Opened ==
  /\ Move("opening", "send")
  /\ OpenReturns(Poster)
  /\ net_handle' = id[Poster]
  /\ UNCHANGED <<re_cnt, credentials, authorization, result, posts>>

(* A header that is too long runs over the end of base64: nothing is known *)
(* of what follows.                                                        *)
SendOverruns ==
  /\ Move("send", "overrun")
  /\ Len(vc_authorization_base64_encode(credentials)) >= HeaderSize
  /\ UNCHANGED <<vars, re_cnt, net_handle, credentials, authorization, result, posts>>

(* The request is written and network_client_send called with it. *)
SendCalled ==
  /\ Move("send", "sending")
  /\ Len(vc_authorization_base64_encode(credentials)) < HeaderSize
  /\ SendStart(Poster) /\ id'[Poster] = net_handle
  /\ authorization' = vc_authorization_base64_encode(credentials)
  /\ UNCHANGED <<re_cnt, net_handle, credentials, result, posts>>

Sending ==
  /\ Move("sending", "sending")
  /\ SendLocks(Poster) \/ SendChunk(Poster) \/ SendFails(Poster)
  /\ LeavesCall

(* Mutant: after a failed send the connection is not closed. *)
SentUnclosed ==
  /\ Move("sending", IF left[Poster] = 0 THEN "close" ELSE "redo")
  /\ SendReturns(Poster)
  /\ LeavesCall

(* Sent or not, the connection is closed. *)
Sent == Move("sending", "close") /\ SendReturns(Poster) /\ LeavesCall

CloseCalled ==
  /\ Move("close", "closing")
  /\ CloseStart(Poster)
  /\ \E h \in handles : h.id = net_handle /\ handles' = handles \ {h}
  /\ LeavesCall

Closing ==
  /\ Move("closing", "closing")
  /\ CloseClears(Poster) \/ CloseReturns(Poster)
  /\ LeavesCall

(* m_net_handle is 0 again; what network_client_send returned decides. *)
Closed ==
  /\ Move("closing", IF left[Poster] = 0 THEN "idle" ELSE "redo")
  /\ pc[Poster] = "idle"
  /\ net_handle' = 0
  /\ result' = IF left[Poster] = 0 THEN "sent" ELSE result
  /\ UNCHANGED <<vars, re_cnt, credentials, authorization, posts>>

Step ==
  \/ GivesUp \/ TriesAgain
  \/ OpenCalled \/ Opening \/ OpenFailed \/ Opened
  \/ SendOverruns \/ SendCalled \/ Sending \/ Sent
  \/ CloseCalled \/ Closing \/ Closed

PostNext == Step \/ \E c \in Credentials : PostCalled(c)

(* connect and send return, the latter because SO_SNDTIMEO is 2 seconds    *)
(* (init_global_ctx), and the thread that posts is scheduled.              *)
PostSpec == PostInit /\ [][PostNext]_postVars /\ WF_postVars(Step)

-----------------------------------------------------------------------------
(* How the function's state shows as a delivery.                           *)

(* From the accepted connect to close() there is a connection. *)
Connected == open # {}

Dead == wild \/ at = "overrun"

ShownPhase ==
  CASE Dead -> "dead"
    [] ~Dead /\ Connected -> "connected"
    [] ~Dead /\ ~Connected /\ at = "idle" -> IF posts = 0 THEN "idle" ELSE result
    [] ~Dead /\ ~Connected /\ at = "closing" -> IF left[Poster] = 0 THEN "sent" ELSE "trying"
    [] OTHER -> "trying"

(* An attempt counts when it has failed or is connected, re_cnt counts it  *)
(* when it starts.                                                         *)
ShownTries ==
  IF at \in {"open", "opening"} /\ ~Connected THEN re_cnt + 1
  ELSE IF re_cnt < 0 THEN 0 ELSE re_cnt

ShownCarried == IF Connected THEN Len(wire[CHOOSE d \in open : TRUE]) ELSE 0

Promise == INSTANCE Delivery WITH
  Pieces <- Chunks, phase <- ShownPhase, tries <- ShownTries, carried <- ShownCarried

(* The function keeps the promise of Delivery: whatever connects, pieces   *)
(* and allocations fail, it never uses two connections at once or makes    *)
(* one attempt too many, "sent" means one whole request on one connection, *)
(* and it returns, unless memory ran out or the credentials are too long   *)
(* for its buffers.                                                        *)
DeliversOrGivesUp == Promise!Spec /\ Promise!Ends

(* Every attempt finds the slot the one before it had, so a table of one   *)
(* slot is never full; a table that is missing is used only after calloc   *)
(* failed, by the attempt that follows (network.c 95-113).                 *)
TableSuffices ==
  /\ wild => noMemory > 0 /\ max = ArrayStep
  /\ noMemory = 0 => max <= ArrayDef

(* A request that is sent carries all of its credentials: the service      *)
(* decodes from the header the text they make, of any length modulo three, *)
(* and none that snprintf cut (demo.c 123-137) gets as far, since it runs  *)
(* over base64 first (148).  Only texts of more than Longest bytes do,     *)
(* "admin:admin" does not.                                                 *)
AuthorizationDecodes ==
  /\ (at \in {"sending", "close", "closing"} /\ authorization # <<>>) =>
       base64_decode(authorization) = PlainText(credentials)
  /\ at = "overrun" => Len(PlainText(credentials)) > Longest
=============================================================================
