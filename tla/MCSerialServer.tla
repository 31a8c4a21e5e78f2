--------------------------- MODULE MCSerialServer ---------------------------
(* SerialServer on a small instance: connections as model values.          *)
EXTENDS SerialServer, TLC

Symmetry == Permutations(Clients)
=============================================================================
