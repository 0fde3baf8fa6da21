---------------------------- MODULE MCRipcManager ----------------------------
(* Two threads, the first of which initializes the library.                *)
EXTENDS RipcManager

MCThread == {"main", "worker"}

===============================================================================
