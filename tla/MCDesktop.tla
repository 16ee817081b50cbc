------------------------------ MODULE MCDesktop ------------------------------
(* A small instance of Desktop. *)
EXTENDS Desktop
CONSTANTS d, n, e
=============================================================================
