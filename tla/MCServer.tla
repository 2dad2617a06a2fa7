------------------------------ MODULE MCServer ------------------------------
(* Values for Server: one kind of datagram server stands for the three,    *)
(* which differ in a socket option only.                                   *)
EXTENDS Server

MCProtocols == {"TCP", "UDP"}
=============================================================================
