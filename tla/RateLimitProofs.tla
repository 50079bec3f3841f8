--------------------------- MODULE RateLimitProofs ---------------------------
(***************************************************************************)
(* Proofs about RateLimit, for any sources, any limit and any window.      *)
(*                                                                         *)
(* That the limiter has a hit for every admitted handshake of every age is *)
(* inductive by itself.  The limit is about their sum, which the proof     *)
(* never computes: an admission adds one to both sides, and when time      *)
(* passes both sides lose the handshakes of the highest age, which are     *)
(* equally many.                                                           *)
(***************************************************************************)
EXTENDS RateLimitSpec, FiniteSetTheorems, TLAPS

USE RateMaxAssumption, RateWindowAssumption

TypeOK ==
    /\ DOMAIN hits \subseteq Host
    /\ \A h \in DOMAIN hits :
          /\ IsFiniteSet(DOMAIN hits[h])
          /\ \A i \in DOMAIN hits[h] : hits[h][i] \in 0 .. RateWindow
    /\ admitted \in [Host -> [Ages -> Nat]]

\* The hits of one age.
Aged(h, a) == {i \in LiveSlots(h) : Recent(h)[i] = a}

\* The hits that count are as many as the handshakes that count, within the limit.
Counted(h) ==
    /\ IsFiniteSet(Admissions(h))
    /\ Cardinality(Admissions(h)) = Cardinality(LiveSlots(h))
    /\ Cardinality(LiveSlots(h)) <= RateMax

Exact(h) == \A a \in Ages : admitted[h][a] = Cardinality(Aged(h, a))

\* Inductive.
Inv == TypeOK /\ \A h \in Host : Exact(h) /\ Counted(h)

-----------------------------------------------------------------------------
(* What one source's part of the state amounts to. *)

\* The hits that count are finitely many.
LEMMA LiveFinite ==
    ASSUME TypeOK, NEW h
    PROVE  IsFiniteSet(LiveSlots(h)) /\ Cardinality(LiveSlots(h)) \in Nat
<1>1. CASE h \in DOMAIN hits
  <2>1. LiveSlots(h) \in SUBSET DOMAIN hits[h]
    BY <1>1 DEF LiveSlots
  <2> QED BY <1>1, <2>1, FS_Subset, FS_CardinalityType DEF TypeOK
<1>2. CASE h \notin DOMAIN hits
  BY <1>2, FS_EmptySet DEF LiveSlots
<1> QED BY <1>1, <1>2

\* An admission is an age and a number.
LEMMA InAdmissions ==
    ASSUME NEW h, NEW x
    PROVE  x \in Admissions(h) <=> \E a \in Ages : \E k \in 1 .. admitted[h][a] : x = <<a, k>>
BY DEF Admissions

\* There is always a free slot.
LEMMA FreeSlotIsFree ==
    ASSUME NEW S, IsFiniteSet(S)
    PROVE  FreeSlot(S) \notin S
<1> DEFINE n == Cardinality(S)
           I == 1 .. n + 1
<1>1. n \in Nat
  BY FS_CardinalityType
<1>2. IsFiniteSet(I) /\ Cardinality(I) = n + 1
  BY <1>1, FS_Interval
<1>3. \E i \in I : i \notin S
  <2> SUFFICES ASSUME I \in SUBSET S PROVE FALSE
    OBVIOUS
  <2> HIDE DEF I
  <2>1. Cardinality(I) <= n
    BY FS_Subset
  <2> QED BY <1>1, <1>2, <2>1
<1> QED BY <1>3 DEF FreeSlot

\* A source whose hits that count, and whose admissions, stay what they are.
LEMMA SourceSame ==
    ASSUME NEW h \in Host, Exact(h), Counted(h),
           LiveSlots(h)' = LiveSlots(h),
           \A i \in LiveSlots(h) : Recent(h)'[i] = Recent(h)[i],
           admitted'[h] = admitted[h]
    PROVE  Exact(h)' /\ Counted(h)'
<1>1. \A a \in Ages : Aged(h, a)' = Aged(h, a)
  BY DEF Aged
<1>2. Admissions(h)' = Admissions(h)
  BY DEF Admissions, Ages
<1> QED BY <1>1, <1>2 DEF Exact, Counted, Ages

-----------------------------------------------------------------------------
(* One lemma per action. *)

\* Nothing is admitted at first.
LEMMA InitInv == Init => Inv
<1> SUFFICES ASSUME Init PROVE Inv
  OBVIOUS
<1>1. DOMAIN hits = {}
  BY DEF Init
<1>2. TypeOK
  BY <1>1 DEF Init, TypeOK
<1>3. ASSUME NEW h \in Host PROVE Exact(h) /\ Counted(h)
  <2>1. LiveSlots(h) = {} /\ \A a \in Ages : Aged(h, a) = {}
    BY <1>1 DEF LiveSlots, Aged
  <2>2. \A a \in Ages : admitted[h][a] = 0
    BY DEF Init
  <2>3. Admissions(h) = {}
    BY <2>2, InAdmissions
  <2> QED BY <2>1, <2>2, <2>3, FS_EmptySet DEF Exact, Counted
<1> QED BY <1>2, <1>3 DEF Inv

\* What PutHits leaves of another source.
LEMMA OtherSources ==
    ASSUME NEW host, NEW ages, PutHits(host, ages), NEW h, h # host
    PROVE  /\ LiveSlots(h)' = LiveSlots(h)
           /\ \A i \in LiveSlots(h) : Recent(h)'[i] = Recent(h)[i]
BY DEF PutHits, LiveSlots, Recent, Live

\* What PutHits leaves of its own source.
LEMMA OwnSource ==
    ASSUME NEW host, NEW ages, PutHits(host, ages)
    PROVE  /\ DOMAIN hits' = DOMAIN hits \cup {host}
           /\ hits'[host] = ages
           /\ LiveSlots(host)' = {i \in DOMAIN ages : Live(ages[i])}
           /\ \A i \in LiveSlots(host)' : Recent(host)'[i] = ages[i]
<1>1. DOMAIN hits' = DOMAIN hits \cup {host} /\ hits'[host] = ages
  BY DEF PutHits
<1>2. LiveSlots(host)' = {i \in DOMAIN ages : Live(ages[i])}
  BY <1>1 DEF LiveSlots, Live
<1> QED BY <1>1, <1>2 DEF Recent

\* An admitted handshake is one more on both sides.
LEMMA AdmitKeeps ==
    ASSUME Inv, NEW host \in Host, Admit(host),
           admitted' = [admitted EXCEPT ![host][0] = @ + 1]
    PROVE  Inv'
<1> DEFINE old == Recent(host)
           L == LiveSlots(host)
           new == FreeSlot(L)
           n == admitted[host][0]
<1>1. IsFiniteSet(L) /\ Cardinality(L) \in Nat /\ Cardinality(L) < RateMax /\ new \notin L
  BY LiveFinite, FreeSlotIsFree DEF Inv, Admit
<1>2. PutHits(host, Push(old)) /\ DOMAIN old = L
  BY DEF Admit, Recent
<1>3. /\ DOMAIN Push(old) = L \cup {new}
      /\ \A i \in L : Push(old)[i] = old[i]
      /\ Push(old)[new] = 0
  BY <1>1, <1>2 DEF Push
<1>4. \A i \in L : old[i] \in Ages
  BY DEF Recent, LiveSlots, Live, Inv, TypeOK, Ages
<1>5. 0 \in Ages /\ n \in Nat
  BY DEF Ages, Inv, TypeOK
<1>6. admitted' \in [Host -> [Ages -> Nat]]
  BY <1>5 DEF Inv, TypeOK
<1>7. /\ DOMAIN hits' = DOMAIN hits \cup {host}
      /\ hits'[host] = Push(old)
      /\ LiveSlots(host)' = {i \in DOMAIN Push(old) : Live(Push(old)[i])}
      /\ \A i \in LiveSlots(host)' : Recent(host)'[i] = Push(old)[i]
  BY <1>2, OwnSource
<1>8. LiveSlots(host)' = L \cup {new}
  BY <1>3, <1>4, <1>5, <1>7 DEF Live, Ages
<1>9. TypeOK'
  <2>1. IsFiniteSet(L \cup {new})
    BY <1>1, FS_AddElement
  <2>2. ASSUME NEW h \in DOMAIN hits'
        PROVE  /\ IsFiniteSet(DOMAIN hits'[h])
               /\ \A i \in DOMAIN hits'[h] : hits'[h][i] \in 0 .. RateWindow
    <3>1. CASE h = host
      BY <1>3, <1>4, <1>7, <2>1, <3>1 DEF Ages
    <3>2. CASE h # host
      BY <1>2, <3>2 DEF PutHits, Inv, TypeOK
    <3> QED BY <3>1, <3>2
  <2> QED BY <1>6, <1>7, <2>2 DEF Inv, TypeOK, Ages
<1>10. Exact(host)'
  <2> SUFFICES ASSUME NEW a \in Ages
               PROVE  admitted'[host][a] = Cardinality(Aged(host, a)')
    BY DEF Exact, Ages
  <2>1. IsFiniteSet(Aged(host, a)) /\ admitted[host][a] = Cardinality(Aged(host, a))
    BY <1>1, FS_Subset DEF Aged, Inv, Exact
  <2>2. CASE a = 0
    <3>1. Aged(host, a)' = Aged(host, a) \cup {new} /\ new \notin Aged(host, a)
      BY <1>1, <1>3, <1>7, <1>8, <2>2 DEF Aged
    <3>2. admitted'[host][a] = admitted[host][a] + 1
      BY <1>5, <2>2 DEF Inv, TypeOK
    <3> QED BY <2>1, <3>1, <3>2, FS_AddElement
  <2>3. CASE a # 0
    <3>1. Aged(host, a)' = Aged(host, a)
      BY <1>1, <1>3, <1>7, <1>8, <2>3 DEF Aged
    <3>2. admitted'[host][a] = admitted[host][a]
      BY <2>3 DEF Inv, TypeOK
    <3> QED BY <2>1, <3>1, <3>2
  <2> QED BY <2>2, <2>3
<1>11. Counted(host)'
  <2> DEFINE A == Admissions(host)
             x == <<0, n + 1>>
  <2>1. x \notin A
    BY <1>5, InAdmissions
  <2>2. Admissions(host)' = A \cup {x}
    <3>1. \A a \in Ages : admitted'[host][a] = IF a = 0 THEN n + 1 ELSE admitted[host][a]
      BY <1>5 DEF Inv, TypeOK
    <3>2. Admissions(host)' = UNION {{a} \X (1 .. admitted'[host][a]) : a \in Ages}
      BY DEF Admissions, Ages
    <3>3. ASSUME NEW y PROVE y \in Admissions(host)' <=> y \in A \cup {x}
      <4>1. y \in Admissions(host)' <=>
              \E a \in Ages : \E k \in 1 .. admitted'[host][a] : y = <<a, k>>
        BY <3>2
      <4>2. 1 .. n + 1 = (1 .. n) \cup {n + 1}
        BY <1>5
      <4> QED BY <1>5, <3>1, <4>1, <4>2, InAdmissions
    <3> QED BY <3>3
  <2>3. IsFiniteSet(A) /\ Cardinality(A) = Cardinality(L)
    BY DEF Inv, Counted
  <2> HIDE DEF A, x
  <2>4. IsFiniteSet(A \cup {x}) /\ Cardinality(A \cup {x}) = Cardinality(L) + 1
    BY <2>1, <2>3, FS_AddElement
  <2>5. Cardinality(L \cup {new}) = Cardinality(L) + 1
    BY <1>1, FS_AddElement
  <2> QED BY <1>1, <1>8, <2>2, <2>4, <2>5 DEF Counted
<1>12. ASSUME NEW h \in Host, h # host PROVE Exact(h)' /\ Counted(h)'
  <2>1. admitted'[h] = admitted[h]
    BY <1>12 DEF Inv, TypeOK
  <2> QED BY <1>2, <1>12, <2>1, OtherSources, SourceSame DEF Inv
<1> QED BY <1>9, <1>10, <1>11, <1>12 DEF Inv

\* A refused handshake only drops the hits that no longer count.
LEMMA DenyKeeps ==
    ASSUME Inv, NEW host \in Host, Deny(host), UNCHANGED admitted
    PROVE  Inv'
<1> DEFINE old == Recent(host)
           L == LiveSlots(host)
<1>1. PutHits(host, old) /\ DOMAIN old = L /\ IsFiniteSet(L)
  BY LiveFinite DEF Deny, Recent, Inv
<1>2. \A i \in L : old[i] \in Ages
  BY DEF Recent, LiveSlots, Live, Inv, TypeOK, Ages
<1>3. /\ DOMAIN hits' = DOMAIN hits \cup {host}
      /\ hits'[host] = old
      /\ LiveSlots(host)' = {i \in DOMAIN old : Live(old[i])}
      /\ \A i \in LiveSlots(host)' : Recent(host)'[i] = old[i]
  BY <1>1, OwnSource
<1>4. LiveSlots(host)' = L
  BY <1>1, <1>2, <1>3 DEF Live, Ages
<1>5. TypeOK'
  <2>1. ASSUME NEW h \in DOMAIN hits'
        PROVE  /\ IsFiniteSet(DOMAIN hits'[h])
               /\ \A i \in DOMAIN hits'[h] : hits'[h][i] \in 0 .. RateWindow
    <3>1. CASE h = host
      BY <1>1, <1>2, <1>3, <3>1 DEF Ages
    <3>2. CASE h # host
      BY <1>1, <3>2 DEF PutHits, Inv, TypeOK
    <3> QED BY <3>1, <3>2
  <2> QED BY <1>3, <2>1 DEF Inv, TypeOK, Ages
<1>6. ASSUME NEW h \in Host PROVE Exact(h)' /\ Counted(h)'
  <2>1. CASE h = host
    BY <1>3, <1>4, <2>1, SourceSame DEF Inv
  <2>2. CASE h # host
    BY <1>1, <2>2, OtherSources, SourceSame DEF Inv
  <2> QED BY <2>1, <2>2
<1> QED BY <1>5, <1>6 DEF Inv

\* gc removes only sources without a hit that counts.
LEMMA CollectKeeps == ASSUME Inv, Collect PROVE Inv'
<1>1. /\ hits' = [h \in Retained |-> hits[h]] /\ Retained \subseteq DOMAIN hits
      /\ admitted' = admitted
  BY DEF Collect, gc, Retained
<1>2. TypeOK'
  BY <1>1 DEF Inv, TypeOK, Ages
<1>3. ASSUME NEW h \in Host PROVE Exact(h)' /\ Counted(h)'
  <2>1. LiveSlots(h)' = LiveSlots(h)
    BY <1>1 DEF LiveSlots, Live, Retained
  <2>2. \A i \in LiveSlots(h) : Recent(h)'[i] = Recent(h)[i]
    <3> SUFFICES ASSUME NEW i \in LiveSlots(h) PROVE hits'[h][i] = hits[h][i]
      BY <2>1 DEF Recent
    <3>1. h \in Retained
      BY DEF LiveSlots, Retained
    <3> QED BY <1>1, <3>1
  <2> QED BY <1>1, <2>1, <2>2, SourceSame DEF Inv
<1> QED BY <1>2, <1>3 DEF Inv

\* When time passes, the hits of the highest age stop to count, and those admissions.
LEMMA TickKeeps == ASSUME Inv, Tick PROVE Inv'
<1> DEFINE top == RateWindow - 1
<1>1. /\ DOMAIN hits' = DOMAIN hits
      /\ \A h \in DOMAIN hits :
            /\ DOMAIN hits'[h] = DOMAIN hits[h]
            /\ \A i \in DOMAIN hits[h] : hits'[h][i] = Older(hits[h][i])
  BY DEF Tick, AgeHits
<1>2. top \in Ages /\ \A a \in Ages : a \in Nat /\ a <= top
  BY DEF Ages
<1>3. /\ \A h \in Host, a \in Ages : admitted[h][a] \in Nat
      /\ \A h \in Host, a \in Ages :
            admitted'[h][a] = IF a = 0 THEN 0 ELSE admitted[h][a - 1]
  BY DEF Tick, Inv, TypeOK
<1>4. TypeOK'
  <2>1. admitted' \in [Host -> [Ages -> Nat]]
    BY DEF Tick, Inv, TypeOK, Ages
  <2> QED BY <1>1, <2>1 DEF Inv, TypeOK, Older, Live, Ages
<1>5. ASSUME NEW h \in Host PROVE Exact(h)' /\ Counted(h)'
  <2> DEFINE L == LiveSlots(h)
             A == Admissions(h)
             n == admitted[h][top]
             gone == {top} \X (1 .. n)
  <2>1. IsFiniteSet(L) /\ Cardinality(L) \in Nat
    BY LiveFinite DEF Inv
  <2>2. \A i \in L : Recent(h)[i] \in Ages
    BY DEF Recent, LiveSlots, Live, Inv, TypeOK, Ages
  <2>3. LiveSlots(h)' = {i \in L : Recent(h)[i] # top}
    BY <1>1 DEF LiveSlots, Recent, Live, Older, Inv, TypeOK
  <2>4. \A i \in LiveSlots(h)' : Recent(h)'[i] = Recent(h)[i] + 1
    BY <1>1 DEF LiveSlots, Recent, Live, Older, Inv, TypeOK
  <2>5. Exact(h)'
    <3> SUFFICES ASSUME NEW a \in Ages
                 PROVE  admitted'[h][a] = Cardinality(Aged(h, a)')
      BY DEF Exact, Ages
    <3>1. CASE a = 0
      <4>1. Aged(h, a)' = {}
        BY <1>2, <2>2, <2>3, <2>4, <3>1 DEF Aged
      <4> QED BY <1>3, <3>1, <4>1, FS_EmptySet
    <3>2. CASE a # 0
      <4>1. a - 1 \in Ages /\ a - 1 # top
        BY <1>2, <3>2 DEF Ages
      <4>2. Aged(h, a)' = Aged(h, a - 1)
        BY <1>2, <2>2, <2>3, <2>4, <4>1 DEF Aged
      <4>3. admitted'[h][a] = admitted[h][a - 1]
        BY <1>3, <3>2
      <4>4. admitted[h][a - 1] = Cardinality(Aged(h, a - 1))
        BY <4>1 DEF Inv, Exact
      <4> QED BY <4>2, <4>3, <4>4
    <3> QED BY <3>1, <3>2
  <2>6. Cardinality(LiveSlots(h)') = Cardinality(L) - n
    <3>1. Aged(h, top) \subseteq L /\ LiveSlots(h)' = L \ Aged(h, top)
      BY <2>3 DEF Aged
    <3>2. Cardinality(L \ Aged(h, top)) = Cardinality(L) - Cardinality(L \cap Aged(h, top))
      BY <2>1, FS_Difference
    <3>3. L \cap Aged(h, top) = Aged(h, top)
      BY <3>1
    <3> QED BY <1>2, <3>1, <3>2, <3>3 DEF Inv, Exact
  <2>7. IsFiniteSet(A) /\ Cardinality(A) = Cardinality(L)
    BY DEF Inv, Counted
  <2>8. IsFiniteSet(gone) /\ Cardinality(gone) = n /\ gone \subseteq A
    <3>1. n \in Nat
      BY <1>2, <1>3
    <3>2. IsFiniteSet(1 .. n) /\ Cardinality(1 .. n) = n
      <4> HIDE DEF n
      <4> QED BY <3>1, FS_Interval
    <3>3. IsFiniteSet({top}) /\ Cardinality({top}) = 1
      BY FS_Singleton
    <3>4. IsFiniteSet(gone) /\ Cardinality(gone) = 1 * n
      BY <3>2, <3>3, FS_Product
    <3>5. gone \subseteq A
      BY <1>2, InAdmissions
    <3> QED BY <3>1, <3>4, <3>5
  <2>9. IsFiniteSet(A \ gone) /\ Cardinality(A \ gone) = Cardinality(L) - n
    <3>1. A \cap gone = gone
      BY <2>8
    <3> HIDE DEF A, gone, n
    <3> QED BY <2>7, <2>8, <3>1, FS_Difference
  <2>10. ExistsBijection(A \ gone, Admissions(h)')
    <3> DEFINE older == [x \in A \ gone |-> <<x[1] + 1, x[2]>>]
    <3>1. ASSUME NEW x
          PROVE  x \in A \ gone <=>
                   \E a \in Ages : a # top /\ \E k \in 1 .. admitted[h][a] : x = <<a, k>>
      BY InAdmissions
    <3>2. ASSUME NEW y
          PROVE  y \in Admissions(h)' <=>
                   \E a \in Ages : a # 0 /\ \E k \in 1 .. admitted[h][a - 1] : y = <<a, k>>
      <4>1. Admissions(h)' = UNION {{a} \X (1 .. admitted'[h][a]) : a \in Ages}
        BY DEF Admissions, Ages
      <4>2. y \in Admissions(h)' <=>
              \E a \in Ages : \E k \in 1 .. admitted'[h][a] : y = <<a, k>>
        BY <4>1
      <4> QED BY <1>3, <4>2
    <3> HIDE DEF A, gone
    <3>3. older \in [A \ gone -> Admissions(h)']
      <4> SUFFICES ASSUME NEW x \in A \ gone PROVE <<x[1] + 1, x[2]>> \in Admissions(h)'
        OBVIOUS
      <4>1. PICK a \in Ages : a # top /\ \E k \in 1 .. admitted[h][a] : x = <<a, k>>
        BY <3>1
      <4>2. PICK k \in 1 .. admitted[h][a] : x = <<a, k>>
        BY <4>1
      <4>3. a + 1 \in Ages /\ a + 1 # 0 /\ (a + 1) - 1 = a
        BY <4>1 DEF Ages
      <4> QED BY <3>2, <4>2, <4>3
    <3>4. \A x, y \in A \ gone : older[x] = older[y] => x = y
      BY <1>2, <3>1
    <3>5. \A y \in Admissions(h)' : \E x \in A \ gone : older[x] = y
      <4> SUFFICES ASSUME NEW y \in Admissions(h)' PROVE \E x \in A \ gone : older[x] = y
        OBVIOUS
      <4>1. PICK a \in Ages : a # 0 /\ \E k \in 1 .. admitted[h][a - 1] : y = <<a, k>>
        BY <3>2
      <4>2. PICK k \in 1 .. admitted[h][a - 1] : y = <<a, k>>
        BY <4>1
      <4>3. a - 1 \in Ages /\ a - 1 # top /\ (a - 1) + 1 = a
        BY <1>2, <4>1 DEF Ages
      <4>4. <<a - 1, k>> \in A \ gone
        BY <3>1, <4>2, <4>3
      <4> QED BY <4>2, <4>3, <4>4
    <3>6. older \in Injection(A \ gone, Admissions(h)')
      BY <3>3, <3>4 DEF Injection, IsInjective
    <3>7. older \in Surjection(A \ gone, Admissions(h)')
      <4> HIDE DEF older
      <4> QED BY <3>3, <3>5 DEF Surjection
    <3> HIDE DEF older
    <3> QED BY <3>6, <3>7 DEF ExistsBijection, Bijection
  <2>11. IsFiniteSet(Admissions(h)') /\ Cardinality(Admissions(h)') = Cardinality(L) - n
    <3> HIDE DEF A, gone, n
    <3> QED BY <2>9, <2>10, FS_Bijection
  <2>12. Cardinality(L) - n <= RateMax
    <3>1. n \in Nat /\ Cardinality(L) <= RateMax
      BY <1>2, <1>3 DEF Inv, Counted
    <3> QED BY <2>1, <3>1
  <2> QED BY <2>5, <2>6, <2>11, <2>12 DEF Counted
<1> QED BY <1>4, <1>5 DEF Inv

-----------------------------------------------------------------------------
(* Theorems. *)

\* The invariant holds in every reachable state of the limiter.
THEOREM StaysInvariant == Spec => []Inv
<1>1. Init => Inv
  BY InitInv
<1>2. Inv /\ [Next]_vars => Inv'
  <2> SUFFICES ASSUME Inv, [Next]_vars PROVE Inv'
    OBVIOUS
  <2>1. CASE Tick
    BY <2>1, TickKeeps
  <2>2. CASE Collect
    BY <2>2, CollectKeeps
  <2>3. ASSUME NEW h \in Host, allow(h) PROVE Inv'
    BY <2>3, AdmitKeeps, DenyKeeps DEF allow
  <2>4. CASE UNCHANGED vars
    <3>1. TypeOK'
      BY <2>4 DEF vars, Inv, TypeOK, Ages
    <3>2. ASSUME NEW h \in Host PROVE Exact(h)' /\ Counted(h)'
      <4>1. LiveSlots(h)' = LiveSlots(h) /\ Recent(h)' = Recent(h)
        BY <2>4 DEF vars, LiveSlots, Recent, Live
      <4> QED BY <2>4, <4>1, SourceSame DEF vars, Inv
    <3> QED BY <3>1, <3>2 DEF Inv
  <2> QED BY <2>1, <2>2, <2>3, <2>4 DEF Next
<1> QED BY <1>1, <1>2, PTL DEF Spec

\* server::RateLimit never admits more than RateMax handshakes of one source within
\* one window, whatever its gc removes in between.
THEOREM LimitHolds == Spec => []RateLimited
<1>1. Inv => RateLimited
  BY DEF Inv, Counted, RateLimited
<1> QED BY <1>1, StaysInvariant, PTL

\* The hits of server::RateLimit that count are, for every source and every age,
\* exactly the handshakes that allow let through.
THEOREM HitsAreExact == Spec => []HitsExact
<1>1. Inv => HitsExact
  BY DEF Inv, Exact, Aged, HitsExact
<1> QED BY <1>1, StaysInvariant, PTL
=============================================================================
