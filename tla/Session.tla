------------------------------ MODULE Session -------------------------------
(***************************************************************************)
(* crypto::Session as a value: the data-plane state the two ends keep      *)
(* after a handshake, and what encrypt and decrypt do to it.               *)
(*                                                                         *)
(* A key stands for the pair of transport keys that one handshake yields;  *)
(* AEAD is ideal: a datagram opens under the key and the nonce it was      *)
(* sealed with and under no other.  snow keeps its own sending counter,    *)
(* snow_nonce, and refuses to seal with the largest nonce.                 *)
(***************************************************************************)
EXTENDS ReplayFilter

CONSTANT MaxNonce   \* u64::MAX

Nonce == 0 .. MaxNonce

NewSession(index, key) ==
    [index |-> index, key |-> key,
     send_nonce |-> 0, snow_nonce |-> 0, replay |-> EmptyFilter]

\* encrypt: the header carries send_nonce, snow seals with its own counter.
CanEncrypt(session) == session.snow_nonce < MaxNonce

Encrypted(session, plain) ==
    [index |-> session.index, nonce |-> session.send_nonce,
     key |-> session.key, sealed_with |-> session.snow_nonce, plain |-> plain]

\* Mutation of AfterEncrypt: the counter of the header is not advanced.
AfterEncryptStuck(session) == [session EXCEPT !.snow_nonce = @ + 1]

AfterEncrypt(session) ==
    [session EXCEPT !.send_nonce = (@ + 1) % (MaxNonce + 1), !.snow_nonce = @ + 1]

\* decrypt: index, then replay window, then AEAD under the header's nonce.
Decrypts(session, packet) ==
    /\ packet.index = session.index
    /\ IsFresh(session.replay, packet.nonce)
    /\ packet.key = session.key
    /\ packet.sealed_with = packet.nonce
    /\ packet.nonce < MaxNonce

\* The nonce is recorded before the packet is authenticated.
AfterDecrypt(session, packet) ==
    IF packet.index = session.index
    THEN [session EXCEPT !.replay = Checked(@, packet.nonce)]
    ELSE session
=============================================================================
