---------------------------- MODULE MCAesdSocket ----------------------------
(* Model-checking instances of the socket server. *)
EXTENDS AesdSocketProps

\* The connection threads run the same code.  Used where no liveness is checked.
ClientSymmetry == Permutations(Clients)

\* Seek commands: none; or one that may exist, one that never does, and one
\* that is not understood.
NoSeeks   == {}
SomeSeeks == {<<1, 0>>, <<0, 2>>, Malformed}
=============================================================================
