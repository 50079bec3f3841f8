----------------------------- MODULE AntiReplay -----------------------------
(***************************************************************************)
(* What the sliding replay window promises to the receiver of a session,   *)
(* as a behaviour: asked about one nonce after another, it says yes        *)
(* exactly to the fresh ones.  A nonce is therefore taken at most once,    *)
(* and every new nonce that the window still covers is taken.              *)
(***************************************************************************)
EXTENDS ReplayFilter

CONSTANT MaxNonce   \* the largest nonce (u64::MAX in the code)

VARIABLES
    filter,     \* what was taken so far
    verdict     \* the last question asked and its answer

vars == <<filter, verdict>>

Nonce == 0 .. MaxNonce

Init ==
    /\ filter = EmptyFilter
    /\ verdict = [nonce |-> 0, ok |-> TRUE]     \* nothing was refused yet

Ask(nonce) ==
    /\ verdict' = [nonce |-> nonce, ok |-> IsFresh(filter, nonce)]
    /\ filter' = Checked(filter, nonce)

Next == \E nonce \in Nonce : Ask(nonce)

Spec == Init /\ [][Next]_vars
=============================================================================
