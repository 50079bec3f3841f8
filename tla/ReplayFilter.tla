---------------------------- MODULE ReplayFilter ----------------------------
(***************************************************************************)
(* The replay filter of a session as a value, without its representation:  *)
(* the highest nonce taken so far and the set of all nonces taken.  The    *)
(* modules that use a session (Server, Client) hold this value where the   *)
(* code holds a crypto::ReplayWindow; ReplayWindow is shown to implement   *)
(* it.                                                                     *)
(***************************************************************************)
EXTENDS Naturals

CONSTANT Window     \* REPLAY_WINDOW: how far behind the highest nonce one may be

EmptyFilter == [top |-> 0, taken |-> {}]

\* A nonce is fresh when it was never taken and the window still covers it.
IsFresh(filter, nonce) ==
    nonce \notin filter.taken /\ nonce + Window > filter.top

\* The filter after check_and_update(nonce), whatever that call returned.
Checked(filter, nonce) ==
    IF IsFresh(filter, nonce)
    THEN [top |-> IF nonce > filter.top THEN nonce ELSE filter.top,
          taken |-> filter.taken \cup {nonce}]
    ELSE filter
=============================================================================
