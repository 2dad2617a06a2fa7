------------------------------ MODULE MCGateway ------------------------------
(***************************************************************************)
(* Instances of Gateway with two fields, the last of which plays the DNS   *)
(* address.                                                                *)
(***************************************************************************)
EXTENDS Gateway

\* What the MCU asks for differs from the zeroes of a fresh process.
MCStack == {<<1, 0>>}
MCRequests == {<<1, 1>>}

=============================================================================
