------------------------------ MODULE MCRipcCall ------------------------------
(* What else may happen in the instances of RipcCall.                      *)
EXTENDS RipcCall

Undisturbed == {}
OwnDisconnect == {"disconnect"}
ServerStops == {"server_end"}
Everything == {"disconnect", "server_end", "server_drop", "unserved"}

===============================================================================
