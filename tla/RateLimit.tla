----------------------------- MODULE RateLimit ------------------------------
(***************************************************************************)
(* server::RateLimit: how many handshakes one source address may start in  *)
(* a sliding window.  Instants are kept as ages, which every Tick of the   *)
(* clock advances; an age stops at RateWindow, where it no longer counts.  *)
(* The order in a Vec of instants is never used, so its elements stay in   *)
(* the slots where they were put.                                          *)
(***************************************************************************)
EXTENDS Naturals, FiniteSets

CONSTANTS
    Host,           \* source IP addresses
    RateMax,        \* handshake_rate_limit, at least 1
    RateWindow      \* handshake_rate_window_secs, at least 1

ASSUME RateMaxAssumption == RateMax \in Nat \ {0}
ASSUME RateWindowAssumption == RateWindow \in Nat \ {0}

VARIABLE hits       \* the HashMap: host -> slot -> age of an admitted handshake

Live(age) == age < RateWindow

\* The elements that count, and the Vec that entry(ip).or_default() and retain leave
LiveSlots(host) ==
    IF host \in DOMAIN hits THEN {i \in DOMAIN hits[host] : Live(hits[host][i])} ELSE {}
Recent(host) == [i \in LiveSlots(host) |-> hits[host][i]]

\* entry.push(now), into a slot that is free
FreeSlot(slots) == CHOOSE i \in 1 .. Cardinality(slots) + 1 : i \notin slots

Push(ages) ==
    [i \in DOMAIN ages \cup {FreeSlot(DOMAIN ages)} |->
        IF i \in DOMAIN ages THEN ages[i] ELSE 0]

PutHits(host, ages) ==
    hits' = [h \in DOMAIN hits \cup {host} |-> IF h = host THEN ages ELSE hits[h]]

\* Mutation of Admit: one handshake too many.
AdmitOneMore(host) ==
    /\ Cardinality(LiveSlots(host)) <= RateMax
    /\ PutHits(host, Push(Recent(host)))

\* allow returns true
Admit(host) ==
    /\ Cardinality(LiveSlots(host)) < RateMax
    /\ PutHits(host, Push(Recent(host)))

\* Mutation of Deny: a refused attempt starts the window anew.
DenyRenews(host) ==
    /\ Cardinality(LiveSlots(host)) >= RateMax
    /\ PutHits(host, [i \in LiveSlots(host) |-> 0])

\* allow returns false; the expired hits are gone all the same
Deny(host) ==
    /\ Cardinality(LiveSlots(host)) >= RateMax
    /\ PutHits(host, Recent(host))

\* Mutation of Retained: a host goes as soon as one of its hits has expired.
RetainedIfAll == {h \in DOMAIN hits : \A i \in DOMAIN hits[h] : Live(hits[h][i])}

\* Keep the hosts with a hit that still counts.
Retained == {h \in DOMAIN hits : \E i \in DOMAIN hits[h] : Live(hits[h][i])}

gc == hits' = [h \in Retained |-> hits[h]]

\* One unit of time passes.
Older(age) == IF Live(age) THEN age + 1 ELSE age

AgeHits ==
    hits' = [h \in DOMAIN hits |-> [i \in DOMAIN hits[h] |-> Older(hits[h][i])]]
=============================================================================
