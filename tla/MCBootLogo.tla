------------------------------ MODULE MCBootLogo ------------------------------
(* Empty runs, runs that fit and runs that do not, on small screens. *)
EXTENDS LogoPicture

Runs == {[n |-> 0, colour |-> 21845], [n |-> 1, colour |-> 0], [n |-> 1, colour |-> 65535],
         [n |-> 2, colour |-> 27469], [n |-> 3, colour |-> 38066]}
Screens == {[width |-> 2, height |-> 2, depth |-> d] : d \in {16, 24, 32}}
             \cup {[width |-> 0, height |-> 1, depth |-> 16]}
=============================================================================
