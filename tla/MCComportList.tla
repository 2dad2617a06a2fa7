--------------------------- MODULE MCComportList ---------------------------
(* Values for ComportList: the configurations a caller sets and the        *)
(* settings a device has before the library opens it.                      *)
EXTENDS ComportList, TLC

(* BAUD_RATE_110 also ends a stored name of 16 bytes. *)
MCConfigs == {[baud |-> 0, data |-> 7, parity |-> "odd", stop |-> 2]}

MCInitialLines ==
  {[speed |-> 9, csize |-> 8, parenb |-> FALSE, parodd |-> FALSE,
    cstopb |-> TRUE, rest |-> FALSE]}

(* Addresses are interchangeable, and so are device names of the same      *)
(* class: the model compares them for equality only.                       *)
MCSymmetry == Permutations(Blocks) \cup Permutations(Names \ (Exact \cup Longer))
=============================================================================
