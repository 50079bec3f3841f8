--------------------------- MODULE RateLimitSpec ----------------------------
(***************************************************************************)
(* RateLimit on its own, used by any number of handshakes and by the       *)
(* reaper's gc in any order, with a history of what was really admitted.   *)
(***************************************************************************)
EXTENDS RateLimit

VARIABLE admitted   \* history: admitted[h][a] handshakes of h are a old

vars == <<hits, admitted>>

Ages == 0 .. RateWindow - 1

Init ==
    /\ hits = <<>>
    /\ admitted = [h \in Host |-> [a \in Ages |-> 0]]

allow(host) ==
    \/ /\ Admit(host)
       /\ admitted' = [admitted EXCEPT ![host][0] = @ + 1]
    \/ /\ Deny(host)
       /\ UNCHANGED admitted

Collect ==
    /\ gc
    /\ UNCHANGED admitted

Tick ==
    /\ AgeHits
    /\ admitted' = [h \in Host |->
                      [a \in Ages |-> IF a = 0 THEN 0 ELSE admitted[h][a - 1]]]

Next == Tick \/ Collect \/ \E h \in Host : allow(h)

Spec == Init /\ [][Next]_vars

\* Time passes; nobody has to try.
FairSpec == Spec /\ WF_vars(Tick)

-----------------------------------------------------------------------------
\* The admitted handshakes of a source that are less than a window old.
Admissions(h) == UNION {{a} \X (1 .. admitted[h][a]) : a \in Ages}

\* No source gets more than RateMax handshakes admitted within one window,
\* whatever gc throws away in between.
RateLimited ==
    \A h \in Host : Cardinality(Admissions(h)) <= RateMax

\* The limiter remembers exactly the admitted handshakes that still count: none
\* is lost (the limit would leak), none is kept too long (a peer shut out).
HitsExact ==
    \A h \in Host, a \in Ages :
        admitted[h][a] =
            Cardinality({i \in LiveSlots(h) : Recent(h)[i] = a})

\* A source that keeps trying is not shut out for ever: refused attempts do not
\* count, so room always comes back.
RoomReturns == \A h \in Host : []<>(Cardinality(LiveSlots(h)) < RateMax)
=============================================================================
