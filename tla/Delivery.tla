------------------------------ MODULE Delivery ------------------------------
(***************************************************************************)
(* What the POST of a configuration promises its caller, without sockets,  *)
(* handles and mutexes: at most Tries attempts, each on a connection of    *)
(* its own that is gone before the next one starts, and an end.  It says   *)
(* "sent" exactly when all pieces left on one connection, so the service   *)
(* has the whole request once, or not at all.  The program may die in an   *)
(* attempt, but not after a piece of the request has left.                 *)
(***************************************************************************)
EXTENDS Integers

CONSTANTS
  Tries,          \* how often delivery is tried
  Pieces          \* in how many pieces the request travels

VARIABLES
  phase,          \* idle, trying, connected; sent, gaveUp or dead at the end
  tries,          \* how many attempts are left
  carried         \* how many pieces left on the connection

vars == <<phase, tries, carried>>

Init == phase = "idle" /\ tries = 0 /\ carried = 0

Begin ==
  /\ phase \in {"idle", "sent", "gaveUp"}
  /\ phase' = "trying" /\ tries' = Tries /\ carried' = 0

Connect ==
  /\ phase = "trying" /\ tries > 0
  /\ phase' = "connected" /\ tries' = tries - 1 /\ carried' = 0

Refused ==
  /\ phase = "trying" /\ tries > 0
  /\ tries' = tries - 1
  /\ UNCHANGED <<phase, carried>>

Carry ==
  /\ phase = "connected" /\ carried < Pieces
  /\ carried' = carried + 1
  /\ UNCHANGED <<phase, tries>>

(* The connection ends; a request that is complete is not sent again. *)
Disconnect ==
  /\ phase = "connected"
  /\ phase' = IF carried = Pieces THEN "sent" ELSE "trying"
  /\ carried' = 0
  /\ UNCHANGED tries

GiveUp ==
  /\ phase = "trying" /\ tries = 0
  /\ phase' = "gaveUp"
  /\ UNCHANGED <<tries, carried>>

(* An attempt without memory, or whose request does not fit its buffers,   *)
(* may be the end of the program.                                          *)
Die ==
  /\ \/ phase = "trying" /\ tries > 0
     \/ phase = "connected" /\ carried = 0
  /\ phase' = "dead"
  /\ UNCHANGED <<tries, carried>>

Next == Begin \/ Connect \/ Refused \/ Carry \/ Disconnect \/ GiveUp \/ Die

Spec == Init /\ [][Next]_vars

(* A delivery that began ends. *)
Ends == phase \in {"trying", "connected"} ~> phase \in {"sent", "gaveUp", "dead"}
=============================================================================
