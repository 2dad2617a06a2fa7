------------------------------- MODULE MCPost -------------------------------
(* Values for Post.  The texts have all lengths modulo 3 and bytes with    *)
(* every combination of the bits that move to another character; with      *)
(* HeaderSize 12 and PlainSize 8 those of seven bytes and more run over    *)
(* base64, those of eight are cut as well.                                 *)
EXTENDS Post

MCThreads == {"main"}
Texts == {<<>>, <<97>>, <<2, 191>>, <<255, 64, 129>>, <<1, 2, 3, 4>>}
MCCredentials ==
  {[username |-> u, password |-> p] : u, p \in Texts \cup {Null}}
=============================================================================
