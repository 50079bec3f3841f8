----------------------------- MODULE MCChannel ------------------------------
(* Eight nonces and a window of six, in three words of two bits: the window   *)
(* slides by bits, by words, by both and by all of its size.                  *)
EXTENDS Channel
=============================================================================
