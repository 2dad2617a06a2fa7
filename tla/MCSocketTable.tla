--------------------------- MODULE MCSocketTable ---------------------------
(* Values for SocketTable: one thread opens and closes, another one shares *)
(* its handles.                                                            *)
EXTENDS SocketTable

MCOpeners == {"t1"}
MCThreads == {"t1", "t2"}
=============================================================================
