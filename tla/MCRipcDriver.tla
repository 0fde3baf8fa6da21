---------------------------- MODULE MCRipcDriver ----------------------------
(* Small instances of RipcDriver.  Tasks, names and connection addresses   *)
(* are interchangeable; ids are not, because they are compared.            *)
EXTENDS RipcDriverLinks, TLC

Symmetry == Permutations(Task) \cup Permutations(Name) \cup Permutations(Conn)

=============================================================================
