-------------------------- MODULE MCTokenValidator --------------------------
(* TokenValidator on a small instance: the constants are in the cfg files.   *)
EXTENDS TokenValidator
=============================================================================
