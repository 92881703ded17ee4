------------------------------ MODULE MCReader ------------------------------
(* Reader with a ring of three slots; MCReader.cfg gives the constants. *)
EXTENDS Reader
=============================================================================
