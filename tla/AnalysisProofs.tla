--------------------------- MODULE AnalysisProofs ---------------------------
(***************************************************************************)
(* Proofs about the analysis: the one pass over the sorted events finds    *)
(* the maximal chains, and what the focal set, the claims, the pattern and *)
(* the likelihood promise holds for every input.                           *)
(***************************************************************************)
EXTENDS Analysis, Induction

-----------------------------------------------------------------------------
(***************************************************************************)
(* Events in order of time.                                                *)
(***************************************************************************)
Timed(events) == IsFiniteSet(events) /\ \A e \in events : e.ts \in Nat

InOrder(s) == \A i, j \in DOMAIN s : i < j => s[i].ts <= s[j].ts

\* Of some events one is the latest.
LEMMA LatestEvent ==
  ASSUME NEW events, Timed(events), events # {}
  PROVE  \E e \in events : \A d \in events : d.ts <= e.ts
<1> DEFINE times == {e.ts : e \in events}
           time == [e \in events |-> e.ts]
<1>1. times \in SUBSET Nat /\ times # {}
  BY DEF Timed
<1>2. time \in Surjection(events, times)
  BY DEF Surjection
<1>3. IsFiniteSet(times)
  <2> HIDE DEF time, times
  <2> QED
    BY <1>2, FS_Surjection DEF Timed
<1>4. PICK t \in times : \A u \in times : u <= t
  <2> HIDE DEF times
  <2> QED
    BY <1>1, <1>3, GreatestNatural
<1> QED
  BY <1>4

\* Any finite set of events can be put in order.
LEMMA OrderExists ==
  ASSUME NEW events, Timed(events)
  PROVE  \E s \in SetToSeqs(events) : InOrder(s)
<1> DEFINE G == {T \in SUBSET events : \E s \in SetToSeqs(T) : InOrder(s)}
<1>1. {} \in G
  <2>1. <<>> \in SetToSeqs({})
    BY FS_EmptySet DEF SetToSeqs
  <2>2. InOrder(<<>>)
    BY DEF InOrder
  <2> QED
    BY <2>1, <2>2
<1>2. ASSUME NEW T \in (SUBSET events) \ {{}}, \A x \in T : T \ {x} \in G
      PROVE  T \in G
  <2>1. Timed(T) /\ T # {}
    BY FS_Subset DEF Timed
  <2>2. PICK x \in T : \A d \in T : d.ts <= x.ts
    BY <2>1, LatestEvent
  <2>3. PICK s \in SetToSeqs(T \ {x}) : InOrder(s)
    BY <1>2
  <2> DEFINE n == Cardinality(T \ {x})
             t == [i \in 1..(n + 1) |-> IF i = n + 1 THEN x ELSE s[i]]
  <2>4. n \in Nat /\ Cardinality(T) = n + 1
    <3>1. Cardinality(T) \in Nat /\ IsFiniteSet(T \ {x})
      BY <2>1, FS_RemoveElement, FS_CardinalityType DEF Timed
    <3>2. n = Cardinality(T) - 1
      BY <2>1, FS_RemoveElement DEF Timed
    <3>3. n \in Nat
      BY <3>1, FS_CardinalityType
    <3> QED
      BY <3>1, <3>2, <3>3
  <2>5. /\ s \in [1..n -> T \ {x}]
        /\ \A i, j \in 1..n : i # j => s[i] # s[j]
    BY <2>3 DEF SetToSeqs
  <2> HIDE DEF n
  <2>6. t \in SetToSeqs(T)
    <3>1. t \in [1..(n + 1) -> T]
      BY <2>4, <2>5
    <3>2. \A i, j \in 1..(n + 1) : i # j => t[i] # t[j]
      BY <2>4, <2>5
    <3> HIDE DEF t
    <3> QED
      BY <2>4, <3>1, <3>2 DEF SetToSeqs
  <2>7. InOrder(t)
    <3> SUFFICES ASSUME NEW i \in 1..(n + 1), NEW j \in 1..(n + 1), i < j
                 PROVE  t[i].ts <= t[j].ts
      BY DEF InOrder
    <3>1. i \in 1..n
      BY <2>4
    <3>2. CASE j = n + 1
      BY <2>2, <2>4, <2>5, <3>1, <3>2
    <3>3. CASE j \in 1..n
      BY <2>3, <2>4, <2>5, <3>1, <3>3 DEF InOrder
    <3> QED
      BY <2>4, <3>2, <3>3
  <2> QED
    <3> HIDE DEF t
    <3> QED
      BY <2>6, <2>7
<1>3. SUBSET events \subseteq G
  <2> HIDE DEF G
  <2> QED
    BY <1>1, <1>2, SubsetInduction DEF Timed
<1> QED
  BY <1>3

\* InTime lists every event, in order.
LEMMA InTimeOrders ==
  ASSUME NEW events, Timed(events)
  PROVE  /\ Cardinality(events) \in Nat
         /\ InTime(events) \in [1..Cardinality(events) -> events]
         /\ InTime(events) \in Surjection(1..Cardinality(events), events)
         /\ InOrder(InTime(events))
<1> DEFINE order == InTime(events)
           n == Cardinality(events)
<1>1. order \in SetToSeqs(events) /\ InOrder(order)
  BY OrderExists DEF InTime, InOrder
<1>2. n \in Nat
  BY FS_CardinalityType DEF Timed
<1>3. /\ order \in [1..n -> events]
      /\ \A i, j \in 1..n : i # j => order[i] # order[j]
  BY <1>1 DEF SetToSeqs
<1> HIDE DEF order, n
<1>4. order \in Injection(1..n, events)
  BY <1>3 DEF Injection, IsInjective
<1>5. Cardinality(1..n) = n
  BY <1>2, FS_Interval
<1>6. order \in Surjection(1..n, events)
  BY <1>4, <1>5, FS_Injection DEF n, Timed
<1> QED
  BY <1>1, <1>2, <1>3, <1>6 DEF order, n

-----------------------------------------------------------------------------
(***************************************************************************)
(* The pass over the events: a fold of Place.                              *)
(***************************************************************************)
\* A list of chains is not empty, and neither is any of them.
Chains(events) ==
  {cs \in Seq(Seq(events)) : Len(cs) > 0 /\ \A i \in 1..Len(cs) : Len(cs[i]) > 0}

\* Placing an event extends the last chain or begins one.
LEMMA PlaceExtends ==
  ASSUME NEW events, NEW cs \in Chains(events), NEW e \in events, NEW n
  PROVE  /\ Place(cs, e, n) \in Chains(events)
         /\ Continues(cs[Len(cs)], e, n) =>
              /\ Len(Place(cs, e, n)) = Len(cs)
              /\ \A i \in 1..(Len(cs) - 1) : Place(cs, e, n)[i] = cs[i]
              /\ Place(cs, e, n)[Len(cs)] = Append(cs[Len(cs)], e)
         /\ ~ Continues(cs[Len(cs)], e, n) =>
              /\ Len(Place(cs, e, n)) = Len(cs) + 1
              /\ \A i \in 1..Len(cs) : Place(cs, e, n)[i] = cs[i]
              /\ Place(cs, e, n)[Len(cs) + 1] = <<e>>
<1>1. cs \in Seq(Seq(events)) /\ Len(cs) \in Nat \ {0} /\ \A i \in 1..Len(cs) : Len(cs[i]) > 0
  BY DEF Chains
<1>2. CASE Continues(cs[Len(cs)], e, n)
  <2> DEFINE last == Append(cs[Len(cs)], e)
             ds == [cs EXCEPT ![Len(cs)] = last]
  <2>1. Place(cs, e, n) = ds
    BY <1>2 DEF Place
  <2>2. last \in Seq(events) /\ Len(last) > 0
    BY <1>1
  <2> HIDE DEF last
  <2>3. /\ ds \in Seq(Seq(events)) /\ Len(ds) = Len(cs)
        /\ \A i \in 1..(Len(cs) - 1) : ds[i] = cs[i]
        /\ ds[Len(cs)] = last
    BY <1>1, <2>2
  <2>4. ASSUME NEW i \in 1..Len(ds)
        PROVE  Len(ds[i]) > 0
    <3>1. CASE i = Len(cs)
      BY <2>2, <2>3, <3>1
    <3>2. CASE i \in 1..(Len(cs) - 1)
      <4>1. ds[i] = cs[i] /\ i \in 1..Len(cs)
        BY <1>1, <2>3, <3>2
      <4> HIDE DEF ds
      <4> QED
        BY <1>1, <4>1
    <3> HIDE DEF ds
    <3> QED
      BY <1>1, <2>3, <3>1, <3>2
  <2> HIDE DEF ds
  <2> QED
    BY <1>1, <1>2, <2>1, <2>3, <2>4 DEF Chains, last
<1>3. CASE ~ Continues(cs[Len(cs)], e, n)
  <2> DEFINE ds == Append(cs, <<e>>)
  <2>1. Place(cs, e, n) = ds
    BY <1>3 DEF Place
  <2>2. <<e>> \in Seq(events) /\ Len(<<e>>) = 1
    OBVIOUS
  <2>3. /\ ds \in Seq(Seq(events)) /\ Len(ds) = Len(cs) + 1
        /\ \A i \in 1..Len(cs) : ds[i] = cs[i]
        /\ ds[Len(cs) + 1] = <<e>>
    BY <1>1, <2>2
  <2>4. \A i \in 1..Len(ds) : Len(ds[i]) > 0
    BY <1>1, <2>2, <2>3
  <2> HIDE DEF ds
  <2> QED
    BY <1>1, <1>3, <2>1, <2>3, <2>4 DEF Chains
<1> QED
  BY <1>2, <1>3

PassOver(base, seq, n) == FoldLeft(LAMBDA cs, e : Place(cs, e, n), base, seq)

\* g[k] are the chains after k events of seq.
IsPassOver(g, base, seq, n) ==
  /\ g[0] = base
  /\ \A k \in 1..Len(seq) : g[k] = Place(g[k - 1], seq[k], n)
  /\ PassOver(base, seq, n) = g[Len(seq)]

\* The fold is the last of the chain lists that placing the events one after the
\* other goes through.
LEMMA FoldOfPlace ==
  ASSUME NEW events, NEW seq \in Seq(events), NEW base \in Chains(events), NEW n
  PROVE  \E g \in [0..Len(seq) -> Chains(events)] : IsPassOver(g, base, seq, n)
<1> DEFINE D == 1..Len(seq)
           R == Chains(events)
           latest == [T \in SUBSET D |-> Max(T)]
           place == [p \in D \X R |-> Place(p[2], seq[p[1]], n)]
           IsPass(h) == h = [T \in SUBSET D |-> IF T = {} THEN base
                               ELSE Place(h[T \ {Max(T)}], seq[Max(T)], n)]
           pass == CHOOSE h : IsPass(h)
<1>1. Len(seq) \in Nat /\ DOMAIN seq = D /\ \A i \in D : seq[i] \in events
  OBVIOUS
<1>2. \A T \in (SUBSET D) \ {{}} : Max(T) \in T /\ \A i \in T : i <= Max(T)
  <2> SUFFICES ASSUME NEW T \in (SUBSET D) \ {{}}
               PROVE  \E x \in T : \A i \in T : x >= i
    BY DEF Max
  <2>1. T \in SUBSET Nat /\ \A i \in T : i <= Len(seq)
    BY <1>1
  <2>2. IsFiniteSet(T)
    BY <1>1, <2>1, FS_BoundedSetOfNaturals
  <2> QED
    BY <2>1, <2>2, GreatestNatural
<1>3. place \in [D \X R -> R]
  <2>1. \A i \in D, cs \in R : Place(cs, seq[i], n) \in R
    BY <1>1, PlaceExtends
  <2> HIDE DEF R
  <2> QED
    BY <2>1
<1>4. \E h \in [SUBSET D -> R] : IsPass(h)
  <2>1. \A T \in (SUBSET D) \ {{}} : latest[T] \in T
    BY <1>2
  <2>2. PICK h \in [SUBSET D -> R] : IsFold(h, D, base, place, latest)
    <3>1. base \in R /\ IsFiniteSet(D)
      BY <1>1, FS_Interval
    <3> HIDE DEF place, latest, R, D
    <3> QED
      BY <1>3, <2>1, <3>1, FoldExists
  <2>3. ASSUME NEW T \in (SUBSET D) \ {{}}
        PROVE  place[<<latest[T], h[T \ {latest[T]}]>>] = Place(h[T \ {Max(T)}], seq[Max(T)], n)
    <3>1. latest[T] = Max(T) /\ Max(T) \in D /\ h[T \ {Max(T)}] \in R
      BY <1>2, <2>2
    <3> HIDE DEF R, D, latest
    <3> QED
      BY <3>1
  <2>4. IsPass(h)
    <3> HIDE DEF place, latest, R
    <3> QED
      BY <2>2, <2>3 DEF IsFold
  <2> QED
    BY <2>2, <2>4
<1>5. IsPass(pass)
  <2> HIDE DEF IsPass
  <2> QED
    BY <1>4
<1>6. PassOver(base, seq, n) = pass[D]
  BY <1>1 DEF PassOver, FoldLeft, MapThenFoldSet
<1> DEFINE g == [k \in 0..Len(seq) |-> pass[1..k]]
<1>7. g[0] = base
  <2>1. 1..0 = {} /\ 0 \in 0..Len(seq)
    BY <1>1
  <2>2. ASSUME NEW h, IsPass(h)
        PROVE  h[{}] = base
    BY <2>2
  <2>3. pass[{}] = base
    <3> HIDE DEF pass, IsPass
    <3> QED
      BY <1>5, <2>2
  <2> QED
    BY <2>1, <2>3
<1>8. ASSUME NEW k \in 1..Len(seq)
      PROVE  g[k] = Place(g[k - 1], seq[k], n)
  <2>1. 1..k \in (SUBSET D) \ {{}} /\ k \in 0..Len(seq) /\ k - 1 \in 0..Len(seq)
    BY <1>1
  <2>2. Max(1..k) = k
    BY <1>1, <1>2, <2>1
  <2>3. (1..k) \ {k} = 1..(k - 1)
    BY <1>1
  <2>4. ASSUME NEW h, IsPass(h)
        PROVE  h[1..k] = Place(h[(1..k) \ {Max(1..k)}], seq[Max(1..k)], n)
    BY <2>1, <2>4
  <2>5. pass[1..k] = Place(pass[1..(k - 1)], seq[k], n)
    <3> HIDE DEF pass, IsPass
    <3> QED
      BY <1>5, <2>2, <2>3, <2>4
  <2> QED
    BY <2>1, <2>5
<1>9. \A k \in 0..Len(seq) : g[k] \in R
  <2> DEFINE B == {k \in 0..Len(seq) : g[k] \in R}
  <2>1. 0 \in B
    BY <1>1, <1>7
  <2>2. ASSUME NEW k \in 0..(Len(seq) - 1), k \in B
        PROVE  k + 1 \in B
    <3>1. k + 1 \in 1..Len(seq) /\ g[k] \in R
      BY <1>1, <2>2
    <3>2. (k + 1) - 1 = k
      BY <1>1
    <3>3. g[k + 1] = Place(g[k], seq[k + 1], n)
      <4> HIDE DEF g
      <4> QED
        BY <1>8, <3>1, <3>2
    <3> HIDE DEF g
    <3> QED
      BY <1>1, <3>1, <3>3, PlaceExtends
  <2>3. 0..Len(seq) \subseteq B
    <3> HIDE DEF B
    <3> QED
      BY <1>1, <2>1, <2>2, UpTo
  <2> QED
    BY <2>3
<1> QED
  <2>1. g \in [0..Len(seq) -> R] /\ g[Len(seq)] = pass[D]
    <3>1. Len(seq) \in 0..Len(seq)
      BY <1>1
    <3> HIDE DEF pass, R
    <3> QED
      BY <1>9, <3>1
  <2>2. IsPassOver(g, base, seq, n)
    <3> HIDE DEF g, pass
    <3> QED
      BY <1>6, <1>7, <1>8, <2>1 DEF IsPassOver
  <2> HIDE DEF g
  <2> QED
    BY <2>1, <2>2

-----------------------------------------------------------------------------
(***************************************************************************)
(* The chains the pass ends with are the joined sets of events.            *)
(***************************************************************************)
\* The elements of a chain that is begun or extended.
LEMMA ChainElements ==
  /\ \A e : ToSet(<<e>>) = {e}
  /\ \A S : \A s \in Seq(S), e \in S : ToSet(Append(s, e)) = ToSet(s) \cup {e}
<1>1. ASSUME NEW e PROVE ToSet(<<e>>) = {e}
  BY DEF ToSet
<1>2. ASSUME NEW S, NEW s \in Seq(S), NEW e \in S
      PROVE  ToSet(Append(s, e)) = ToSet(s) \cup {e}
  <2>1. /\ DOMAIN s = 1..Len(s) /\ Len(s) \in Nat
        /\ DOMAIN Append(s, e) = 1..(Len(s) + 1)
        /\ Append(s, e)[Len(s) + 1] = e
        /\ \A i \in 1..Len(s) : Append(s, e)[i] = s[i]
    OBVIOUS
  <2>2. ASSUME NEW x \in ToSet(Append(s, e)) PROVE x \in ToSet(s) \cup {e}
    BY <2>1, <2>2 DEF ToSet
  <2>3. ASSUME NEW x \in ToSet(s) PROVE x \in ToSet(Append(s, e))
    BY <2>1, <2>3 DEF ToSet
  <2>4. e \in ToSet(Append(s, e))
    <3>1. Len(s) + 1 \in DOMAIN Append(s, e)
      BY <2>1
    <3> QED
      BY <2>1, <3>1 DEF ToSet
  <2> QED
    BY <2>2, <2>3, <2>4
<1> QED
  BY <1>1, <1>2

Linked(C, n) ==
  \A d, e \in C : d.ts < e.ts => \E f \in C : d.ts < f.ts /\ WithinMinutes(d, f, n)

Apart(C, D, n) == \A d \in C, e \in D : ~ WithinMinutes(d, e, n)

\* cs are the chains of the first k events.
ChainsOf(cs, order, k, n) ==
  /\ cs[Len(cs)][Len(cs[Len(cs)])] = order[k]
  /\ \A j \in 1..k : \E i \in 1..Len(cs) : order[j] \in ToSet(cs[i])
  /\ \A i \in 1..Len(cs) : ToSet(cs[i]) \subseteq {order[j] : j \in 1..k}
  /\ \A i \in 1..Len(cs) : Linked(ToSet(cs[i]), n)
  /\ \A i, j \in 1..Len(cs) : i # j => Apart(ToSet(cs[i]), ToSet(cs[j]), n)

\* A first event is a chain of its own.
LEMMA PassBegins ==
  ASSUME NEW events, Timed(events), NEW order, NEW n, order[1] \in events
  PROVE  /\ <<<<order[1]>>>> \in Chains(events)
         /\ ChainsOf(<<<<order[1]>>>>, order, 1, n)
<1> DEFINE e == order[1]
           cs == <<<<e>>>>
<1>1. e.ts \in Nat
  BY DEF Timed
<1>2. Len(cs) = 1 /\ cs[1] = <<e>> /\ Len(<<e>>) = 1 /\ <<e>>[1] = e /\ ToSet(<<e>>) = {e}
  BY ChainElements
<1>3. <<e>> \in Seq(events)
  OBVIOUS
<1>4. cs \in Seq(Seq(events))
  BY <1>3
<1>5. cs \in Chains(events)
  <2>1. \A i \in 1..Len(cs) : Len(cs[i]) > 0
    BY <1>2
  <2>2. Len(cs) > 0
    BY <1>2
  <2> HIDE DEF e, cs
  <2> QED
    BY <1>4, <2>1, <2>2 DEF Chains
<1>6. Linked({e}, n)
  BY <1>1 DEF Linked
<1>7. ChainsOf(cs, order, 1, n)
  <2>1. \A i \in 1..1 : i = 1
    OBVIOUS
  <2>2. order[1] = e
    OBVIOUS
  <2>3. \A j \in 1..1 : order[j] \in ToSet(cs[1])
    BY <1>2
  <2>4. ToSet(cs[1]) \subseteq {order[j] : j \in 1..1}
    BY <1>2
  <2> HIDE DEF e, cs
  <2> QED
    BY <1>2, <1>6, <2>1, <2>2, <2>3, <2>4 DEF ChainsOf
<1> QED
  BY <1>5, <1>7

\* The next event belongs to the last chain or to none.
LEMMA PassContinues ==
  ASSUME NEW events, Timed(events), NEW N \in Nat, NEW order \in [1..N -> events],
         InOrder(order), NEW n \in Nat, NEW k \in 1..(N - 1),
         NEW cs \in Chains(events), ChainsOf(cs, order, k, n)
  PROVE  ChainsOf(Place(cs, order[k + 1], n), order, k + 1, n)
<1> DEFINE e == order[k + 1]
           y == order[k]
           m == Len(cs)
           ds == Place(cs, e, n)
<1>1. /\ k \in 1..N /\ k + 1 \in 1..N /\ e \in events /\ y \in events
      /\ m \in Nat \ {0} /\ m \in 1..m /\ cs \in Seq(Seq(events))
      /\ cs[m] \in Seq(events) /\ Len(cs[m]) \in Nat \ {0}
  <2>1. k \in 1..N /\ k + 1 \in 1..N
    OBVIOUS
  <2>2. cs \in Seq(Seq(events)) /\ Len(cs) > 0 /\ \A i \in 1..Len(cs) : Len(cs[i]) > 0
    BY DEF Chains
  <2>3. m \in Nat \ {0} /\ m \in 1..m
    BY <2>2
  <2>4. cs[m] \in Seq(events) /\ Len(cs[m]) > 0
    BY <2>2, <2>3
  <2> QED
    BY <2>1, <2>2, <2>3, <2>4
<1>2. \A i \in 1..m : \A d \in ToSet(cs[i]) :
         /\ d \in events /\ d.ts \in Nat /\ d.ts <= y.ts /\ d.ts <= e.ts
  <2> SUFFICES ASSUME NEW i \in 1..m, NEW d \in ToSet(cs[i])
               PROVE  /\ d \in events /\ d.ts \in Nat /\ d.ts <= y.ts /\ d.ts <= e.ts
    OBVIOUS
  <2>1. PICK j \in 1..k : d = order[j]
    BY DEF ChainsOf
  <2>2. j \in 1..N /\ d \in events /\ d.ts \in Nat /\ y.ts \in Nat /\ e.ts \in Nat
    BY <1>1, <2>1 DEF Timed
  <2>3. d.ts <= e.ts
    BY <1>1, <2>1, <2>2 DEF InOrder
  <2>4. d.ts <= y.ts
    BY <1>1, <2>1, <2>2 DEF InOrder
  <2> QED
    BY <2>2, <2>3, <2>4
<1>3. e.ts \in Nat /\ y.ts \in Nat /\ y.ts <= e.ts
  BY <1>1 DEF InOrder, Timed
<1>4. y \in ToSet(cs[m]) /\ Continues(cs[m], e, n) = WithinMinutes(y, e, n)
  BY <1>1 DEF ChainsOf, ToSet, Continues
<1>5. {order[j] : j \in 1..(k + 1)} = {order[j] : j \in 1..k} \cup {e}
  BY <1>1
<1>6. \A i \in 1..m : /\ Linked(ToSet(cs[i]), n)
                      /\ ToSet(cs[i]) \subseteq {order[j] : j \in 1..k}
  BY DEF ChainsOf
<1>7. \A i, j \in 1..m : i # j => Apart(ToSet(cs[i]), ToSet(cs[j]), n)
  BY DEF ChainsOf
<1>8. \A j \in 1..k : \E i \in 1..m : order[j] \in ToSet(cs[i])
  BY DEF ChainsOf
<1> HIDE DEF y, m
<1>9. CASE WithinMinutes(y, e, n)
  <2>1. /\ Len(ds) = m /\ \A i \in 1..(m - 1) : ds[i] = cs[i]
        /\ ds[m] = Append(cs[m], e)
    <3>1. Continues(cs[m], e, n)
      BY <1>4, <1>9
    <3> HIDE DEF e
    <3>2. e \in events
      BY <1>1
    <3> QED
      BY <3>1, <3>2, PlaceExtends DEF m
  <2>2. ToSet(ds[m]) = ToSet(cs[m]) \cup {e}
    BY <1>1, <2>1, ChainElements
  <2>3. ds[m][Len(ds[m])] = e
    BY <1>1, <2>1
  <2> HIDE DEF e, ds
  <2>4. \A i \in 1..m : i # m => ToSet(ds[i]) = ToSet(cs[i])
    BY <1>1, <2>1
  <2>5. Linked(ToSet(ds[m]), n)
    <3> SUFFICES ASSUME NEW d \in ToSet(ds[m]), NEW f \in ToSet(ds[m]), d.ts < f.ts
                 PROVE  \E g \in ToSet(ds[m]) : d.ts < g.ts /\ WithinMinutes(d, g, n)
      BY DEF Linked
    <3>1. d \in ToSet(cs[m])
      BY <1>1, <1>2, <1>3, <2>2
    <3>2. CASE d.ts < y.ts
      BY <1>1, <1>4, <1>6, <2>2, <3>1, <3>2 DEF Linked
    <3>3. CASE d.ts = y.ts
      <4>1. d.ts < e.ts
        BY <1>1, <1>2, <1>3, <2>2, <3>3
      <4>2. WithinMinutes(d, e, n)
        BY <1>9, <3>3 DEF WithinMinutes
      <4> QED
        BY <2>2, <4>1, <4>2
    <3> QED
      BY <1>1, <1>2, <1>3, <3>1, <3>2, <3>3
  <2>6. ASSUME NEW i \in 1..m, i # m
        PROVE  Apart(ToSet(cs[i]), {e}, n) /\ Apart({e}, ToSet(cs[i]), n)
    <3> SUFFICES ASSUME NEW d \in ToSet(cs[i])
                 PROVE  ~ WithinMinutes(d, e, n) /\ ~ WithinMinutes(e, d, n)
      BY DEF Apart
    <3>1. ~ WithinMinutes(d, y, n)
      BY <1>1, <1>4, <1>7, <2>6 DEF Apart
    <3> QED
      BY <1>2, <1>3, <3>1 DEF WithinMinutes
  <2>7. \A i, j \in 1..m : i # j => Apart(ToSet(ds[i]), ToSet(ds[j]), n)
    <3> SUFFICES ASSUME NEW i \in 1..m, NEW j \in 1..m, i # j
                 PROVE  Apart(ToSet(ds[i]), ToSet(ds[j]), n)
      OBVIOUS
    <3>1. Apart(ToSet(cs[i]), ToSet(cs[j]), n)
      BY <1>7
    <3> QED
      BY <2>2, <2>4, <2>6, <3>1 DEF Apart
  <2>8. \A i \in 1..m : /\ Linked(ToSet(ds[i]), n)
                        /\ ToSet(ds[i]) \subseteq {order[j] : j \in 1..(k + 1)}
    BY <1>5, <1>6, <2>2, <2>4, <2>5
  <2>9. \A j \in 1..(k + 1) : \E i \in 1..m : order[j] \in ToSet(ds[i])
    <3> SUFFICES ASSUME NEW j \in 1..(k + 1)
                 PROVE  \E i \in 1..m : order[j] \in ToSet(ds[i])
      OBVIOUS
    <3>1. CASE j = k + 1
      BY <1>1, <2>2, <3>1 DEF e
    <3>2. CASE j \in 1..k
      BY <1>8, <2>2, <2>4, <3>2
    <3> QED
      BY <3>1, <3>2
  <2> QED
    BY <2>1, <2>3, <2>7, <2>8, <2>9 DEF ChainsOf, e, ds
<1>10. CASE ~ WithinMinutes(y, e, n)
  <2>1. /\ Len(ds) = m + 1 /\ \A i \in 1..m : ds[i] = cs[i]
        /\ ds[m + 1] = <<e>>
    BY <1>1, <1>4, <1>10, PlaceExtends DEF m
  <2>2. ToSet(ds[m + 1]) = {e} /\ ds[m + 1][Len(ds[m + 1])] = e
    BY <2>1, ChainElements
  <2> HIDE DEF e, ds
  <2>3. \A i \in 1..m : ToSet(ds[i]) = ToSet(cs[i])
    BY <2>1
  <2>4. Linked({e}, n)
    BY <1>3 DEF Linked
  <2>5. ASSUME NEW i \in 1..m
        PROVE  Apart(ToSet(cs[i]), {e}, n) /\ Apart({e}, ToSet(cs[i]), n)
    <3> SUFFICES ASSUME NEW d \in ToSet(cs[i])
                 PROVE  ~ WithinMinutes(d, e, n) /\ ~ WithinMinutes(e, d, n)
      BY DEF Apart
    <3> QED
      BY <1>2, <1>3, <1>10 DEF WithinMinutes
  <2>6. \A i, j \in 1..(m + 1) : i # j => Apart(ToSet(ds[i]), ToSet(ds[j]), n)
    <3> SUFFICES ASSUME NEW i \in 1..(m + 1), NEW j \in 1..(m + 1), i # j
                 PROVE  Apart(ToSet(ds[i]), ToSet(ds[j]), n)
      OBVIOUS
    <3>1. CASE i = m + 1
      <4>1. j \in 1..m
        BY <1>1, <3>1
      <4> QED
        BY <2>2, <2>3, <2>5, <3>1, <4>1
    <3>2. CASE j = m + 1
      <4>1. i \in 1..m
        BY <1>1, <3>2
      <4> QED
        BY <2>2, <2>3, <2>5, <3>2, <4>1
    <3>3. CASE i \in 1..m /\ j \in 1..m
      BY <1>7, <2>3, <3>3
    <3> QED
      BY <1>1, <3>1, <3>2, <3>3
  <2>7. \A i \in 1..(m + 1) : /\ Linked(ToSet(ds[i]), n)
                              /\ ToSet(ds[i]) \subseteq {order[j] : j \in 1..(k + 1)}
    <3> SUFFICES ASSUME NEW i \in 1..(m + 1)
                 PROVE  /\ Linked(ToSet(ds[i]), n)
                        /\ ToSet(ds[i]) \subseteq {order[j] : j \in 1..(k + 1)}
      OBVIOUS
    <3>1. i = m + 1 \/ i \in 1..m
      BY <1>1
    <3> QED
      BY <1>5, <1>6, <2>2, <2>3, <2>4, <3>1
  <2>8. \A j \in 1..(k + 1) : \E i \in 1..(m + 1) : order[j] \in ToSet(ds[i])
    <3> SUFFICES ASSUME NEW j \in 1..(k + 1)
                 PROVE  \E i \in 1..(m + 1) : order[j] \in ToSet(ds[i])
      OBVIOUS
    <3>1. CASE j = k + 1
      <4>1. m + 1 \in 1..(m + 1)
        BY <1>1
      <4> QED
        BY <2>2, <3>1, <4>1 DEF e
    <3>2. CASE j \in 1..k
      <4>1. PICK i \in 1..m : order[j] \in ToSet(cs[i])
        BY <1>8, <3>2
      <4>2. i \in 1..(m + 1)
        BY <1>1
      <4> QED
        BY <2>3, <4>1, <4>2
    <3> QED
      BY <3>1, <3>2
  <2> QED
    BY <2>1, <2>2, <2>6, <2>7, <2>8 DEF ChainsOf, e, ds
<1> QED
  BY <1>9, <1>10

\* Two joined sets with an event in common are the same.
LEMMA JoinedOverlap ==
  ASSUME NEW events, Timed(events), NEW n \in Nat, NEW C, NEW D,
         Joined(events, C, n), Joined(events, D, n), NEW x \in C \cap D
  PROVE  D \subseteq C
<1> SUFFICES ASSUME NEW e \in D, e \notin C
             PROVE  FALSE
  OBVIOUS
<1>1. /\ C \subseteq events /\ D \subseteq events
      /\ \A d \in events : d.ts \in Nat
  BY DEF Joined, Timed
<1>2. \A f \in C : ~ WithinMinutes(f, e, n)
  BY <1>1 DEF Joined
<1>3. \A d \in D : d.ts < e.ts \/ d.ts < x.ts =>
        \E f \in D : d.ts < f.ts /\ WithinMinutes(d, f, n)
  BY DEF Joined
<1>4. CASE x.ts <= e.ts
  <2> DEFINE S == {f \in C \cap D : f.ts <= e.ts}
  <2>1. Timed(S) /\ x \in S
    BY <1>1, <1>4, FS_Subset DEF Timed
  <2>2. PICK m \in S : \A f \in S : f.ts <= m.ts
    <3> HIDE DEF S
    <3> QED
      BY <2>1, LatestEvent
  <2>3. m.ts < e.ts
    <3>1. ~ WithinMinutes(m, e, n)
      BY <1>2
    <3> QED
      BY <1>1, <3>1 DEF WithinMinutes
  <2>4. PICK f \in D : m.ts < f.ts /\ WithinMinutes(m, f, n)
    BY <1>3, <2>3
  <2>5. f \in C
    BY <1>1, <2>4 DEF Joined
  <2>6. f.ts > e.ts
    BY <1>1, <2>2, <2>4, <2>5
  <2>7. WithinMinutes(m, e, n)
    BY <1>1, <2>3, <2>4, <2>6 DEF WithinMinutes
  <2> QED
    BY <1>2, <2>7
<1>5. CASE e.ts < x.ts
  <2> DEFINE S == {f \in D \ C : f.ts <= x.ts}
  <2>1. Timed(S) /\ e \in S
    BY <1>1, <1>5, FS_Subset DEF Timed
  <2>2. PICK m \in S : \A f \in S : f.ts <= m.ts
    <3> HIDE DEF S
    <3> QED
      BY <2>1, LatestEvent
  <2>3. \A c \in C : ~ WithinMinutes(c, m, n)
    BY <1>1 DEF Joined
  <2>4. m.ts < x.ts
    BY <1>1, <2>3 DEF WithinMinutes
  <2>5. PICK f \in D : m.ts < f.ts /\ WithinMinutes(m, f, n)
    BY <1>3, <2>4
  <2>6. f \notin C
    BY <1>1, <2>3, <2>5 DEF WithinMinutes
  <2>7. f.ts > x.ts
    BY <1>1, <2>2, <2>5, <2>6
  <2>8. WithinMinutes(x, m, n)
    BY <1>1, <2>4, <2>5, <2>7 DEF WithinMinutes
  <2> QED
    BY <2>3, <2>8
<1> QED
  BY <1>1, <1>4, <1>5

\* The pass ends with the chains of all the events.
LEMMA PassEnds ==
  ASSUME NEW events, Timed(events), events # {}, NEW n \in Nat
  PROVE  \E cs \in Chains(events) :
           /\ Clusters(events, n) = {ToSet(cs[i]) : i \in 1..Len(cs)}
           /\ ChainsOf(cs, InTime(events), Cardinality(events), n)
<1> DEFINE order == InTime(events)
           N == Cardinality(events)
           base == <<<<order[1]>>>>
           rest == Tail(order)
<1>1. /\ N \in Nat /\ N # 0 /\ order \in [1..N -> events]
      /\ InOrder(order)
  BY InTimeOrders, FS_EmptySet DEF Timed
<1>2. /\ order \in Seq(events) /\ Len(order) = N /\ Head(order) = order[1]
      /\ order[1] \in events
  BY <1>1
<1>3. /\ rest \in Seq(events) /\ Len(rest) = N - 1
      /\ \A k \in 1..(N - 1) : rest[k] = order[k + 1]
  <2> HIDE DEF order, N
  <2> QED
    BY <1>1, <1>2
<1>4. base \in Chains(events) /\ ChainsOf(base, order, 1, n)
  <2> HIDE DEF order, N
  <2> QED
    BY <1>2, PassBegins
<1>5. PICK g \in [0..Len(rest) -> Chains(events)] : IsPassOver(g, base, rest, n)
  <2> HIDE DEF rest, base
  <2> QED
    BY <1>3, <1>4, FoldOfPlace
<1> DEFINE last == g[Len(rest)]
<1>6. last \in Chains(events)
  <2>1. Len(rest) \in 0..Len(rest)
    BY <1>1, <1>3
  <2> QED
    BY <1>5, <2>1
<1>7. Clusters(events, n) = {ToSet(last[i]) : i \in 1..Len(last)}
  <2>1. PassOver(<<<<Head(order)>>>>, Tail(order), n) = last
    BY <1>2, <1>5 DEF IsPassOver
  <2>2. Clusters(events, n) = {ToSet(cluster) : cluster \in ToSet(last)}
    BY <2>1 DEF Clusters, PassOver
  <2>3. last \in Seq(Seq(events))
    <3> HIDE DEF last
    <3> QED
      BY <1>6 DEF Chains
  <2>4. ToSet(last) = {last[i] : i \in 1..Len(last)}
    <3> HIDE DEF last
    <3> QED
      BY <2>3 DEF ToSet
  <2> HIDE DEF last
  <2> QED
    BY <2>2, <2>4
<1>8. ChainsOf(last, order, N, n)
  <2> HIDE DEF order, N, rest, base
  <2> DEFINE B == {k \in 0..(N - 1) : ChainsOf(g[k], order, k + 1, n)}
  <2>1. 0 \in B
    <3>1. 0 \in 0..(N - 1) /\ 0 + 1 = 1
      BY <1>1
    <3> QED
      BY <1>4, <1>5, <3>1 DEF IsPassOver
  <2>2. ASSUME NEW k \in 0..(N - 1 - 1), k \in B
        PROVE  k + 1 \in B
    <3>1. k \in 0..Len(rest) /\ k + 1 \in 1..(N - 1) /\ (k + 1) - 1 = k /\ k + 1 \in 0..(N - 1)
      BY <1>1, <1>3
    <3>2. g[k + 1] = Place(g[k], order[(k + 1) + 1], n)
      BY <1>3, <1>5, <3>1 DEF IsPassOver
    <3>3. g[k] \in Chains(events) /\ ChainsOf(g[k], order, k + 1, n)
      BY <1>5, <2>2, <3>1
    <3>4. ChainsOf(Place(g[k], order[(k + 1) + 1], n), order, (k + 1) + 1, n)
      BY <1>1, <3>1, <3>3, PassContinues
    <3> QED
      BY <3>1, <3>2, <3>4
  <2>3. N - 1 \in Nat
    BY <1>1
  <2>4. 0..(N - 1) \subseteq B
    <3> HIDE DEF B
    <3> QED
      BY <2>1, <2>2, <2>3, UpTo
  <2>5. N - 1 \in B /\ (N - 1) + 1 = N
    <3>1. N - 1 \in 0..(N - 1) /\ (N - 1) + 1 = N
      BY <1>1
    <3> HIDE DEF B
    <3> QED
      BY <2>4, <3>1
  <2> QED
    BY <1>3, <2>5
<1> HIDE DEF last, order, N
<1> QED
  BY <1>6, <1>7, <1>8 DEF order, N

\* Clusters are exactly the joined sets, whatever the number of events and their
\* times, ties and gaps of exactly n minutes included.
LEMMA ClustersAreJoined ==
  ASSUME NEW events, Timed(events), NEW n \in Nat
  PROVE  Clusters(events, n) = {C \in SUBSET events : Joined(events, C, n)}
<1>1. CASE events = {}
  <2>1. \A C \in SUBSET events : ~ Joined(events, C, n)
    BY <1>1 DEF Joined
  <2> QED
    BY <1>1, <2>1 DEF Clusters
<1>2. CASE events # {}
  <2> DEFINE order == InTime(events)
             N == Cardinality(events)
  <2>1. PICK cs \in Chains(events) :
          /\ Clusters(events, n) = {ToSet(cs[i]) : i \in 1..Len(cs)}
          /\ ChainsOf(cs, order, N, n)
    BY <1>2, PassEnds
  <2>2. N \in Nat /\ order \in [1..N -> events] /\ order \in Surjection(1..N, events)
    BY InTimeOrders
  <2>3. /\ Len(cs) \in Nat /\ \A i \in 1..Len(cs) : cs[i] \in Seq(events) /\ Len(cs[i]) > 0
    BY DEF Chains
  <2> HIDE DEF order, N
  <2>4. \A e \in events : \E i \in 1..Len(cs) : e \in ToSet(cs[i])
    <3> SUFFICES ASSUME NEW e \in events
                 PROVE  \E i \in 1..Len(cs) : e \in ToSet(cs[i])
      OBVIOUS
    <3>1. PICK j \in 1..N : order[j] = e
      BY <2>2 DEF Surjection
    <3> QED
      BY <2>1, <3>1 DEF ChainsOf
  <2>5. ASSUME NEW i \in 1..Len(cs)
        PROVE  ToSet(cs[i]) \in SUBSET events /\ Joined(events, ToSet(cs[i]), n)
    <3>1. cs[i][1] \in ToSet(cs[i])
      BY <2>3 DEF ToSet
    <3>2. ToSet(cs[i]) \subseteq events
      BY <2>1, <2>2 DEF ChainsOf
    <3>3. Linked(ToSet(cs[i]), n)
      BY <2>1 DEF ChainsOf
    <3>4. ASSUME NEW e \in events \ ToSet(cs[i]), NEW d \in ToSet(cs[i])
          PROVE  ~ WithinMinutes(d, e, n)
      <4>1. PICK j \in 1..Len(cs) : e \in ToSet(cs[j])
        BY <2>4
      <4>2. i # j
        BY <4>1
      <4> QED
        BY <2>1, <4>1, <4>2 DEF ChainsOf, Apart
    <3> QED
      BY <3>1, <3>2, <3>3, <3>4 DEF Joined, Linked
  <2>6. ASSUME NEW C \in SUBSET events, Joined(events, C, n)
        PROVE  \E i \in 1..Len(cs) : C = ToSet(cs[i])
    <3>1. PICK e \in C : TRUE
      BY <2>6 DEF Joined
    <3>2. PICK i \in 1..Len(cs) : e \in ToSet(cs[i])
      BY <2>4
    <3>3. e \in C \cap ToSet(cs[i]) /\ e \in ToSet(cs[i]) \cap C
      BY <3>2
    <3>4. ToSet(cs[i]) \subseteq C
      BY <2>5, <2>6, <3>3, JoinedOverlap
    <3>5. C \subseteq ToSet(cs[i])
      BY <2>5, <2>6, <3>3, JoinedOverlap
    <3>6. C = ToSet(cs[i])
      BY <3>4, <3>5
    <3> QED
      BY <3>6
  <2> QED
    BY <2>1, <2>5, <2>6
<1> QED
  BY <1>1, <1>2

-----------------------------------------------------------------------------
(***************************************************************************)
(* The inductive invariant: what each variable holds follows from the      *)
(* input and the stage, because a step reads only what the earlier left.   *)
(***************************************************************************)
Stages == {"collected", "focused", "aggregated", "claimed", "scored"}

FocalIds == Focal(evidence, input.hint, input.named).ids
AllFacts == AggregateEvidence(evidence, input.events, ids)
AllClaims == BuildClaims(input.events, ids, facts, input.complete)
Pattern == ClassifyPattern(claims)

AnalysisInv ==
  /\ stage \in Stages /\ input \in Inputs
  /\ ids = IF stage = "collected" THEN {} ELSE FocalIds
  /\ facts = IF stage \in {"collected", "focused"} THEN {} ELSE AllFacts
  /\ claims = IF stage \in {"claimed", "scored"} THEN AllClaims ELSE {}
  /\ verdict = IF stage = "scored"
               THEN [pattern |-> Pattern,
                     likelihood |-> ScoreLikelihood(claims, Pattern, evidence)]
               ELSE [pattern |-> "unclear", likelihood |-> "low"]

\* Every step leaves what the operators of the pipeline compute of the input.
LEMMA AnalysisInvariant == Spec => []AnalysisInv
<1>1. Init => AnalysisInv
  BY DEF Init, AnalysisInv, Stages
<1>2. ASSUME AnalysisInv, [Next]_vars PROVE AnalysisInv'
  <2>1. CASE ResolveFocal
    BY <1>2, <2>1 DEF ResolveFocal, AnalysisInv, Stages, FocalIds, AllFacts, AllClaims, Pattern,
                      evidence
  <2>2. CASE Aggregate
    BY <1>2, <2>2 DEF Aggregate, AnalysisInv, Stages, FocalIds, AllFacts, AllClaims, Pattern,
                      evidence
  <2>3. CASE StateClaims
    BY <1>2, <2>3 DEF StateClaims, AnalysisInv, Stages, FocalIds, AllFacts, AllClaims, Pattern,
                      evidence
  <2>4. CASE ScoreAndClassify
    BY <1>2, <2>4 DEF ScoreAndClassify, AnalysisInv, Stages, FocalIds, AllFacts, AllClaims,
                      Pattern, evidence
  <2>5. CASE UNCHANGED vars
    BY <1>2, <2>5 DEF vars, AnalysisInv, Stages, FocalIds, AllFacts, AllClaims, Pattern,
                      evidence
  <2> QED
    BY <1>2, <2>1, <2>2, <2>3, <2>4, <2>5 DEF Next
<1> QED
  BY <1>1, <1>2, PTL DEF Spec

-----------------------------------------------------------------------------
(***************************************************************************)
(* What facts and claims are about.                                        *)
(***************************************************************************)
\* Collected events, their evidence and their targets are finite.
LEMMA InputsAreFinite ==
  ASSUME NEW i \in Inputs
  PROVE  /\ Timed(i.events) /\ Timed(EvidenceOf(i.events))
         /\ EvidenceOf(i.events) \subseteq i.events
         /\ \A e \in i.events : IsFiniteSet(e.targets)
<1>1. EvidenceOf(i.events) \subseteq i.events
  BY DEF EvidenceOf
<1> QED
  BY <1>1, InputsAssumption, FS_Subset DEF Timed

\* The clusters of some events are sets of them.
LEMMA ClustersWithin ==
  ASSUME NEW events, Timed(events), NEW n \in Nat
  PROVE  \A C \in Clusters(events, n) : C \subseteq events
BY ClustersAreJoined

FactCategories ==
  {"lifecycle_chain", "shared_indicator", "credential_sequence", "action_burst"}

ClaimCategories ==
  FactCategories \cup
  {"self_directed", "cross_actor", "no_ip", "single_ip", "shared_ip", "ip_shift",
   "cross_account_credential", "self_credential", "lifecycle_create", "lifecycle_delete",
   "lifecycle_disable", "privilege_failed", "privilege_self_grant", "privilege_grant",
   "temporal_cluster", "failed_outcome", "coverage_gap"}

FactsAbout(events) ==
  [cat : FactCategories, conf : 50..100, about : SUBSET events, of : SUBSET events]

ClaimsAbout(events) ==
  [cat : ClaimCategories, conf : 50..100, about : SUBSET events,
   backing : SUBSET EvidenceOf(events)]

\* A fact rests on collected events, those that tell it apart among them.
LEMMA FactsRestOnEvents ==
  ASSUME NEW i \in Inputs, NEW S
  PROVE  \A f \in AggregateEvidence(EvidenceOf(i.events), i.events, S) :
           f \in FactsAbout(i.events) /\ f.about \subseteq f.of
<1> DEFINE E == EvidenceOf(i.events)
           Good(f) == f \in FactsAbout(i.events) /\ f.about \subseteq f.of
<1>1. Timed(i.events) /\ Timed(E) /\ E \subseteq i.events
  BY InputsAreFinite
<1> HIDE DEF E
<1>2. \A f \in LifecycleChains(E) : Good(f)
  <2> DEFINE acts == {e \in E : e.action \in LifecycleActions}
  <2>1. Timed(acts) /\ acts \subseteq i.events
    BY <1>1, FS_Subset DEF Timed
  <2>2. \A C \in Clusters(acts, 30) : C \subseteq i.events
    <3> HIDE DEF acts
    <3> QED
      BY <2>1, ClustersWithin
  <2> SUFFICES ASSUME NEW f \in LifecycleChains(E)
               PROVE  Good(f)
    OBVIOUS
  <2>3. PICK C \in Clusters(acts, 30) : f = Fact("lifecycle_chain", 85, C, C)
    BY DEF LifecycleChains
  <2> QED
    BY <2>2, <2>3 DEF Fact, FactsAbout, FactCategories
<1>3. \A f \in SharedIndicators(i.events, S) : Good(f)
  <2> SUFFICES ASSUME NEW f \in SharedIndicators(i.events, S)
               PROVE  Good(f)
    OBVIOUS
  <2> DEFINE byFocal == {e \in i.events : e.actor \in S}
  <2>1. PICK ip : f = Fact("shared_indicator", 80, WithIP(byFocal, ip), WithIP(byFocal, ip))
    BY DEF SharedIndicators
  <2>2. WithIP(byFocal, ip) \subseteq i.events
    BY DEF WithIP
  <2> QED
    BY <2>1, <2>2 DEF Fact, FactsAbout, FactCategories
<1>4. \A f \in CredentialSequences(E, i.events, S) : Good(f)
  <2> SUFFICES ASSUME NEW f \in CredentialSequences(E, i.events, S)
               PROVE  Good(f)
    OBVIOUS
  <2>1. PICK op \in E :
          f = Fact("credential_sequence", 90, {op}, {op} \cup FollowOn(op, i.events, S))
    BY DEF CredentialSequences
  <2> QED
    BY <1>1, <2>1 DEF FollowOn, Fact, FactsAbout, FactCategories
<1>5. \A f \in ActionBursts(E) : Good(f)
  <2> SUFFICES ASSUME NEW f \in ActionBursts(E)
               PROVE  Good(f)
    OBVIOUS
  <2>3. PICK a \in {e.action : e \in E} :
          \E C \in Clusters({e \in E : e.action = a}, 15) : f = Fact("action_burst", 70, C, C)
    BY DEF ActionBursts
  <2> DEFINE acts == {e \in E : e.action = a}
  <2>4. PICK C \in Clusters(acts, 15) : f = Fact("action_burst", 70, C, C)
    BY <2>3
  <2>1. Timed(acts) /\ acts \subseteq i.events
    BY <1>1, FS_Subset DEF Timed
  <2>2. C \subseteq i.events
    <3> HIDE DEF acts
    <3> QED
      BY <2>1, <2>4, ClustersWithin
  <2> QED
    BY <2>2, <2>4 DEF Fact, FactsAbout, FactCategories
<1> HIDE DEF Good
<1>6. \A f \in AggregateEvidence(E, i.events, S) : Good(f)
  BY <1>2, <1>3, <1>4, <1>5 DEF AggregateEvidence
<1> QED
  BY <1>6 DEF Good, E

\* A claim speaks of collected events and cites evidence.
LEMMA ClaimsCiteEvidence ==
  ASSUME NEW i \in Inputs, NEW S, NEW F \in SUBSET FactsAbout(i.events), NEW complete
  PROVE  BuildClaims(i.events, S, F, complete) \subseteq ClaimsAbout(i.events)
<1> DEFINE E == EvidenceOf(i.events)
           Good(c) == c \in [cat : ClaimCategories, conf : 50..100,
                             about : SUBSET i.events, backing : SUBSET E]
<1>1. Timed(i.events) /\ Timed(E) /\ E \subseteq i.events
  BY InputsAreFinite
<1> HIDE DEF E
<1>2. \A c \in ActorClaims(E, S, complete) : Good(c)
  BY <1>1 DEF ActorClaims, When, Claim, ClaimCategories
<1>3. \A c \in IPClaims(i.events, E, complete) : Good(c)
  <2> SUFFICES ASSUME NEW c \in IPClaims(i.events, E, complete)
               PROVE  Good(c)
    OBVIOUS
  <2>1. CASE c = Claim("no_ip", 50, {}, E)
    BY <2>1 DEF Claim, ClaimCategories
  <2>2. CASE \E ip : \/ c = Claim("single_ip", IF complete THEN 90 ELSE 50, WithIP(i.events, ip), E)
                     \/ c = Claim("shared_ip", 85, WithIP(i.events, ip), E)
    BY <2>2 DEF WithIP, Claim, ClaimCategories
  <2>3. CASE \E a : c = Claim("ip_shift", 80, {e \in i.events : e.actor = a}, E)
    BY <2>3 DEF Claim, ClaimCategories
  <2> QED
    BY <2>1, <2>2, <2>3 DEF IPClaims, When
<1>4. \A c \in CredentialClaims(E, S) : Good(c)
  BY <1>1 DEF CredentialClaims, Claim, ClaimCategories
<1>5. \A c \in LifecycleClaims(E) : Good(c)
  BY <1>1 DEF LifecycleClaims, LifecycleCategory, LifecycleActions, Claim, ClaimCategories
<1>6. \A c \in PrivilegeClaims(E, S) : Good(c)
  BY <1>1 DEF PrivilegeClaims, Claim, ClaimCategories
<1>7. \A c \in TemporalClaims(E) : Good(c)
  <2>1. \A C \in Clusters(E, 10) : C \subseteq E
    BY <1>1, ClustersWithin
  <2> QED
    BY <1>1, <2>1 DEF TemporalClaims, Claim, ClaimCategories
<1>8. \A c \in FailedClaims(E) : Good(c)
  BY <1>1 DEF FailedClaims, Claim, ClaimCategories
<1>9. \A c \in CoverageClaims(E, complete) : Good(c)
  BY DEF CoverageClaims, When, Claim, ClaimCategories
<1>10. \A c \in FactClaims(F, E) : Good(c)
  BY DEF FactClaims, FactsAbout, CitedBy, Claim, ClaimCategories
<1> HIDE DEF Good
<1>11. \A c \in BuildClaims(i.events, S, F, complete) : Good(c)
  BY <1>2, <1>3, <1>4, <1>5, <1>6, <1>7, <1>8, <1>9, <1>10 DEF BuildClaims, E
<1> QED
  BY <1>11 DEF Good, E, ClaimsAbout

\* So there are finitely many claims.
LEMMA ClaimsAreFinite ==
  ASSUME NEW events, IsFiniteSet(events)
  PROVE  IsFiniteSet(ClaimsAbout(events))
<1> DEFINE names == <<"lifecycle_chain", "shared_indicator", "credential_sequence",
                      "action_burst", "self_directed", "cross_actor", "no_ip", "single_ip",
                      "shared_ip", "ip_shift", "cross_account_credential", "self_credential",
                      "lifecycle_create", "lifecycle_delete", "lifecycle_disable",
                      "privilege_failed", "privilege_self_grant", "privilege_grant",
                      "temporal_cluster", "failed_outcome", "coverage_gap">>
           name == [k \in 1..21 |-> names[k]]
           E == EvidenceOf(events)
           P == (ClaimCategories \X (50..100)) \X ((SUBSET events) \X (SUBSET E))
           claim == [p \in P |-> [cat |-> p[1][1], conf |-> p[1][2],
                                  about |-> p[2][1], backing |-> p[2][2]]]
<1>1. IsFiniteSet(ClaimCategories)
  <2>1. name \in Surjection(1..21, ClaimCategories)
    <3>1. name \in [1..21 -> ClaimCategories]
      BY DEF ClaimCategories, FactCategories
    <3>2. \A c \in ClaimCategories : \E k \in 1..21 : name[k] = c
      BY DEF ClaimCategories, FactCategories
    <3> HIDE DEF name
    <3> QED
      BY <3>1, <3>2 DEF Surjection
  <2>2. IsFiniteSet(1..21)
    <3>1. 1 \in Int /\ 21 \in Int
      OBVIOUS
    <3> HIDE DEF name
    <3> QED
      BY ONLY <3>1, FS_Interval
  <2> HIDE DEF name
  <2> QED
    BY <2>1, <2>2, FS_Surjection
<1>2. IsFiniteSet(50..100)
  <2>1. 50 \in Int /\ 100 \in Int
    OBVIOUS
  <2> QED
    BY ONLY <2>1, FS_Interval
<1>3. IsFiniteSet(SUBSET events) /\ IsFiniteSet(SUBSET E)
  <2>1. IsFiniteSet(E)
    BY FS_Subset DEF EvidenceOf
  <2> HIDE DEF E
  <2> QED
    BY <2>1, FS_SUBSET
<1> HIDE DEF E
<1>4. IsFiniteSet(P)
  <2>1. IsFiniteSet(ClaimCategories \X (50..100))
    BY <1>1, <1>2, FS_Product
  <2>2. IsFiniteSet((SUBSET events) \X (SUBSET E))
    BY <1>3, FS_Product
  <2> QED
    BY <2>1, <2>2, FS_Product
<1>5. claim \in Surjection(P, ClaimsAbout(events))
  <2>1. claim \in [P -> ClaimsAbout(events)]
    BY DEF ClaimsAbout, E
  <2>2. ASSUME NEW c \in ClaimsAbout(events)
        PROVE  \E p \in P : claim[p] = c
    <3> DEFINE p == <<<<c.cat, c.conf>>, <<c.about, c.backing>>>>
    <3>1. p \in P
      BY DEF ClaimsAbout, E
    <3>2. claim[p] = c
      BY <3>1 DEF ClaimsAbout
    <3> HIDE DEF p, claim
    <3> QED
      BY <3>1, <3>2
  <2> HIDE DEF claim, P
  <2> QED
    BY <2>1, <2>2 DEF Surjection
<1> HIDE DEF claim, P
<1> QED
  BY <1>4, <1>5, FS_Surjection

-----------------------------------------------------------------------------
(***************************************************************************)
(* The classifier.                                                         *)
(***************************************************************************)
\* Of finitely many claims finitely many match a pattern.
LEMMA MatchesCounted ==
  ASSUME NEW C, IsFiniteSet(C), NEW pattern
  PROVE  Matching(C, pattern) \in Nat
<1> DEFINE M == {c \in C : c.cat \in Supports(pattern) \cup Contradicts(pattern)}
<1>1. IsFiniteSet(M)
  BY FS_Subset
<1> HIDE DEF M
<1>2. Cardinality(M) \in Nat
  BY <1>1, FS_CardinalityType
<1> QED
  BY <1>2 DEF Matching, M

Candidates(C) == {i \in DOMAIN Patterns : Signalled(Patterns[i], {c.cat : c \in C})}

Best(C) ==
  {i \in Candidates(C) : \A j \in Candidates(C) :
     \/ Matching(C, Patterns[j]) < Matching(C, Patterns[i])
     \/ Matching(C, Patterns[j]) = Matching(C, Patterns[i]) /\ i <= j}

\* The classifier takes one of the best candidates.
LEMMA ClassifierChooses ==
  ASSUME NEW C
  PROVE  ClassifyPattern(C) = IF Candidates(C) = {} THEN "unclear"
                              ELSE Patterns[CHOOSE i \in Best(C) : TRUE]
BY DEF ClassifyPattern, Candidates, Best

\* The classifier answers a pattern that is signalled, and of the signalled ones
\* none has more matching claims; "unclear" is for claims that signal nothing.
LEMMA ClassifierPicks ==
  ASSUME NEW C, IsFiniteSet(C)
  PROVE  \/ Candidates(C) = {} /\ ClassifyPattern(C) = "unclear"
         \/ \E i \in Candidates(C) :
              /\ ClassifyPattern(C) = Patterns[i]
              /\ \A j \in Candidates(C) : Matching(C, Patterns[j]) <= Matching(C, Patterns[i])
<1> DEFINE D == Candidates(C)
           Count(i) == Matching(C, Patterns[i])
           best == Best(C)
<1>1. D \in SUBSET (1..6)
  BY DEF Candidates, Patterns
<1>2. \A i \in D : Count(i) \in Nat
  BY MatchesCounted
<1>3. ClassifyPattern(C) = IF D = {} THEN "unclear" ELSE Patterns[CHOOSE i \in best : TRUE]
  BY ClassifierChooses
<1>4. best = {i \in D : \A j \in D : Count(j) < Count(i) \/ (Count(j) = Count(i) /\ i <= j)}
  BY DEF Best
<1> HIDE DEF best
<1>5. CASE D # {}
  <2> HIDE DEF D
  <2> DEFINE counts == {Count(i) : i \in D}
             count == [i \in D |-> Count(i)]
  <2>1. counts \in SUBSET Nat /\ counts # {}
    BY <1>2, <1>5
  <2>2. count \in Surjection(D, counts)
    BY DEF Surjection
  <2>3. IsFiniteSet(D)
    <3>1. \A i \in D : i \in Nat /\ i <= 6
      BY <1>1
    <3> QED
      BY <3>1, FS_BoundedSetOfNaturals
  <2>4. IsFiniteSet(counts)
    <3> HIDE DEF counts, count
    <3> QED
      BY <2>2, <2>3, FS_Surjection
  <2>5. PICK top \in counts : \A n \in counts : n <= top
    <3> HIDE DEF counts
    <3> QED
      BY <2>1, <2>4, GreatestNatural
  <2> DEFINE tops == {i \in D : Count(i) = top}
  <2>6. tops \in SUBSET Nat /\ tops # {}
    BY <1>1, <2>5
  <2>7. PICK i \in tops : \A j \in tops : i <= j
    <3> HIDE DEF tops
    <3> QED
      BY <2>6, LeastNatural
  <2>8. i \in best
    <3> SUFFICES ASSUME NEW j \in D
                 PROVE  Count(j) < Count(i) \/ (Count(j) = Count(i) /\ i <= j)
      BY <1>4, <2>7
    <3>1. Count(j) \in counts /\ Count(i) = top /\ Count(j) \in Nat /\ Count(i) \in Nat
      BY <1>2, <2>7
    <3>2. Count(j) <= Count(i)
      BY <2>5, <3>1
    <3> HIDE DEF Count
    <3> QED
      BY <2>7, <3>1, <3>2
  <2>9. PICK w \in best : w = CHOOSE k \in best : TRUE
    BY <2>8
  <2>10. \A j \in D : Count(j) <= Count(w)
    <3> SUFFICES ASSUME NEW j \in D
                 PROVE  Count(j) <= Count(w)
      OBVIOUS
    <3>1. /\ Count(j) \in Nat /\ Count(w) \in Nat
          /\ Count(j) < Count(w) \/ Count(j) = Count(w)
      BY <1>2, <1>4
    <3> HIDE DEF Count
    <3> QED
      BY <3>1
  <2>11. ClassifyPattern(C) = Patterns[w] /\ w \in D
    BY <1>3, <1>4, <1>5, <2>9
  <2> HIDE DEF Count
  <2> QED
    BY <2>10, <2>11 DEF Count, D
<1> QED
  BY <1>3, <1>5

\* Whatever the claims, the pattern is one of the six or "unclear".
LEMMA PatternsOnly ==
  ASSUME NEW C, IsFiniteSet(C)
  PROVE  ClassifyPattern(C) \in ToSet(Patterns) \cup {"unclear"}
<1>1. \A i \in Candidates(C) : Patterns[i] \in ToSet(Patterns)
  BY DEF Candidates, ToSet
<1> QED
  BY <1>1, ClassifierPicks

-----------------------------------------------------------------------------
(***************************************************************************)
(* The focal principals.                                                   *)
(***************************************************************************)
\* Activity counts something: it is positive exactly for a principal that acts or
\* that an event of the evidence targets.
LEMMA ActivityCounts ==
  ASSUME NEW i \in Inputs, NEW p \in Principals, NEW e \in EvidenceOf(i.events),
         e.actor = p \/ \E t \in e.targets : p \in Resolve(t, Principals)
  PROVE  p \in Involved(EvidenceOf(i.events))
<1> DEFINE E == EvidenceOf(i.events)
           targets == {d.targets : d \in E}
           acts == {d \in E : d.actor = p}
           hits == {x \in E \X UNION {d.targets : d \in E} :
                      x[2] \in x[1].targets /\ p \in Resolve(x[2], Principals)}
<1>1. IsFiniteSet(E) /\ \A d \in E : IsFiniteSet(d.targets)
  BY InputsAreFinite DEF Timed
<1>2. e \in E
  OBVIOUS
<1> HIDE DEF E
<1>3. IsFiniteSet(acts)
  BY <1>1, FS_Subset
<1>4. IsFiniteSet(hits)
  <2> DEFINE targetsOf == [d \in E |-> d.targets]
  <2>1. targetsOf \in Surjection(E, targets)
    BY DEF Surjection
  <2>2. IsFiniteSet(targets)
    <3> HIDE DEF targetsOf, targets
    <3> QED
      BY <1>1, <2>1, FS_Surjection
  <2>3. \A T \in targets : IsFiniteSet(T)
    BY <1>1
  <2>4. IsFiniteSet(UNION targets)
    <3> HIDE DEF targets
    <3> QED
      BY <2>2, <2>3, FS_UNION
  <2>5. IsFiniteSet(E \X UNION targets)
    <3> HIDE DEF targets
    <3> QED
      BY <1>1, <2>4, FS_Product
  <2>6. hits \in SUBSET (E \X UNION targets)
    OBVIOUS
  <2> HIDE DEF hits, targets
  <2> QED
    BY <2>5, <2>6, FS_Subset
<1>5. acts # {} \/ hits # {}
  <2>1. ASSUME NEW t \in e.targets, p \in Resolve(t, Principals)
        PROVE  hits # {}
    <3>1. <<e, t>> \in hits
      BY <1>2, <2>1
    <3> HIDE DEF hits
    <3> QED
      BY <3>1
  <2>2. e.actor = p => acts # {}
    BY <1>2
  <2> QED
    BY <2>1, <2>2
<1> HIDE DEF acts, hits
<1>6. /\ Cardinality(acts) \in Nat /\ Cardinality(hits) \in Nat
      /\ Cardinality(acts) > 0 \/ Cardinality(hits) > 0
  <2>1. Cardinality(acts) \in Nat /\ (acts # {} => Cardinality(acts) # 0)
    BY <1>3, FS_CardinalityType, FS_EmptySet
  <2>2. Cardinality(hits) \in Nat /\ (hits # {} => Cardinality(hits) # 0)
    BY <1>4, FS_CardinalityType, FS_EmptySet
  <2> QED
    BY <1>5, <2>1, <2>2
<1>7. Activity(p, E) = Cardinality(acts) + Cardinality(hits)
  BY DEF Activity, ActorCount, TargetCount, acts, hits
<1>8. Activity(p, E) > 0
  BY <1>6, <1>7
<1> QED
  BY <1>8 DEF Involved, E

\* Focal principals are principals, and everybody involved is one of them.
LEMMA FocalAreInvolved ==
  ASSUME NEW i \in Inputs
  PROVE  LET chosen == Focal(EvidenceOf(i.events), i.hint, i.named).ids IN
         chosen \subseteq Principals /\ Involved(EvidenceOf(i.events)) \subseteq chosen
<1>1. i.hint \in Principals \cup {Nobody} /\ i.named \subseteq Principals
  BY InputsAssumption
<1>2. Involved(EvidenceOf(i.events)) \subseteq Principals
  BY DEF Involved
<1> QED
  BY <1>1, <1>2 DEF Focal

\* The last owner of a target is the same among all principals and among the
\* focal ones, when it is one of these.
LEMMA OwnersAreStable ==
  ASSUME NEW S \in SUBSET Principals, NEW t, Resolve(t, Principals) \subseteq S
  PROVE  Resolve(t, S) = Resolve(t, Principals)
<1>1. DOMAIN Relationships \in SUBSET Nat /\ IsFiniteSet(DOMAIN Relationships)
  <2>1. DOMAIN Relationships = 1..Len(Relationships) /\ Len(Relationships) \in Nat
    BY RelationshipsAssumption
  <2>2. IsFiniteSet(1..Len(Relationships))
    BY <2>1, FS_Interval
  <2> QED
    BY <2>1, <2>2
<1>2. CASE t \in Principals
  BY <1>2 DEF Resolve
<1>3. CASE t \notin Principals
  <2> DEFINE Owned(T) == {j \in DOMAIN Relationships : \E p \in T : Owns(j, p, t, T)}
  <2>1. \A j, p : Owns(j, p, t, S) <=> Owns(j, p, t, Principals) /\ p \in S
    BY <1>3 DEF Owns
  <2>2. CASE Owned(Principals) = {}
    <3>1. LastClaim(t, S) = {} /\ LastClaim(t, Principals) = {}
      BY <2>1, <2>2 DEF LastClaim
    <3> QED
      BY <1>3, <3>1 DEF Resolve
  <2>3. CASE Owned(Principals) # {}
    <3>1. Owned(Principals) \in SUBSET Nat /\ IsFiniteSet(Owned(Principals))
      BY <1>1, FS_Subset
    <3>2. PICK j \in Owned(Principals) : \A k \in Owned(Principals) : k <= j
      <4> HIDE DEF Owned
      <4> QED
        BY <2>3, <3>1, GreatestNatural
    <3>3. PICK p \in Principals : Owns(j, p, t, Principals)
      BY <3>2
    <3>4. j \in LastClaim(t, Principals)
      BY <1>1, <3>2, <3>3 DEF LastClaim
    <3>5. p \in S
      BY <1>3, <3>3, <3>4 DEF Resolve
    <3>6. LastClaim(t, Principals) = {j} /\ LastClaim(t, S) = {j}
      <4>1. \A k \in LastClaim(t, Principals) : k = j
        BY <1>1, <3>2, <3>3 DEF LastClaim
      <4>2. j \in LastClaim(t, S)
        BY <2>1, <3>3, <3>4, <3>5 DEF LastClaim
      <4>3. \A k \in LastClaim(t, S) : k = j
        BY <1>1, <2>1, <3>2, <3>3, <3>5 DEF LastClaim
      <4> QED
        BY <3>4, <4>1, <4>2, <4>3
    <3>7. \A q \in Principals : Owns(j, q, t, Principals) => q \in S
      BY <1>3, <3>4 DEF Resolve
    <3> QED
      BY <1>3, <2>1, <3>6, <3>7 DEF Resolve
  <2> QED
    BY <2>2, <2>3
<1> QED
  BY <1>2, <1>3

-----------------------------------------------------------------------------
(***************************************************************************)
(* The theorems.                                                           *)
(***************************************************************************)
\* Every step leaves values of the kinds the next one reads: focal principals
\* are principals, facts and claims are about collected events and cite evidence,
\* and the verdict is one the code knows (run_investigation).
THEOREM AnalysisIsTyped == Spec => []TypeOK
<1>1. ASSUME AnalysisInv PROVE TypeOK
  <2>1. input \in Inputs /\ stage \in Stages
    BY <1>1 DEF AnalysisInv
  <2>2. ids \subseteq Principals
    BY <1>1, <2>1, FocalAreInvolved DEF AnalysisInv, FocalIds, evidence
  <2>3. \A f \in facts : f \in FactsAbout(input.events) /\ f.about \subseteq f.of
    BY <1>1, <2>1, FactsRestOnEvents DEF AnalysisInv, AllFacts, evidence
  <2>4. claims \subseteq ClaimsAbout(input.events)
    BY <1>1, <2>1, <2>3, ClaimsCiteEvidence DEF AnalysisInv, AllClaims
  <2>5. IsFiniteSet(claims)
    <3>1. IsFiniteSet(input.events)
      BY <2>1, InputsAreFinite DEF Timed
    <3> QED
      BY <2>4, <3>1, ClaimsAreFinite, FS_Subset
  <2>6. verdict.pattern \in ToSet(Patterns) \cup {"unclear"} /\ verdict.likelihood \in Bands
    <3>1. Pattern \in ToSet(Patterns) \cup {"unclear"}
      BY <2>5, PatternsOnly DEF Pattern
    <3>2. ScoreLikelihood(claims, Pattern, evidence) \in Bands
      BY DEF ScoreLikelihood, Bands
    <3> QED
      BY <1>1, <3>1, <3>2 DEF AnalysisInv, Bands
  <2>7. \A f \in facts : f.about \subseteq f.of /\ f.of \subseteq input.events
    BY <2>3 DEF FactsAbout
  <2>8. \A c \in claims : c.about \subseteq input.events /\ c.backing \subseteq evidence
    BY <2>4 DEF ClaimsAbout, evidence
  <2> QED
    BY <2>1, <2>2, <2>6, <2>7, <2>8 DEF TypeOK, Stages
<1> QED
  BY <1>1, AnalysisInvariant, PTL

\* Whoever an event of the evidence targets is focal, so that resolving among the
\* focal principals only (build_target_to_principal_map with focal_ids) finds the
\* owners that resolving among all of them found, for any ownership history.
THEOREM ResolutionStaysStable == Spec => []ResolutionIsStable
<1>1. ASSUME AnalysisInv PROVE ResolutionIsStable
  <2> SUFFICES ASSUME Focused, NEW e \in evidence
               PROVE  TargetPrincipals(e, ids) = TargetPrincipals(e, Principals)
    BY DEF ResolutionIsStable
  <2>1. input \in Inputs /\ ids = FocalIds
    BY <1>1 DEF AnalysisInv, Focused
  <2>2. ids \subseteq Principals /\ Involved(evidence) \subseteq ids
    BY <2>1, FocalAreInvolved DEF FocalIds, evidence
  <2>3. ASSUME NEW t \in e.targets
        PROVE  Resolve(t, ids) = Resolve(t, Principals)
    <3>1. Resolve(t, Principals) \subseteq Principals
      BY DEF Resolve
    <3>2. Resolve(t, Principals) \subseteq ids
      BY <2>1, <2>2, <3>1, ActivityCounts DEF evidence
    <3> QED
      BY <2>2, <3>2, OwnersAreStable
  <2> QED
    BY <2>3 DEF TargetPrincipals
<1> QED
  BY <1>1, AnalysisInvariant, PTL

\* The one pass over the sorted lifecycle events finds exactly the groups that
\* gaps of up to 30 minutes join, for any number of events and any times
\* (_aggregate_lifecycle_chains).
THEOREM ChainsStayMaximal == Spec => []ChainsAreMaximal
<1>1. ASSUME AnalysisInv PROVE ChainsAreMaximal
  <2> DEFINE acts == {e \in evidence : e.action \in LifecycleActions}
             chains == {C \in SUBSET acts : Joined(acts, C, 30) /\ Cardinality(C) >= 2}
  <2> SUFFICES ASSUME Aggregated
               PROVE  {f.about : f \in {g \in facts : g.cat = "lifecycle_chain"}} = chains
    BY DEF ChainsAreMaximal
  <2>1. input \in Inputs /\ facts = AggregateEvidence(evidence, input.events, ids)
    BY <1>1 DEF AnalysisInv, Aggregated, Focused, AllFacts
  <2>2. Timed(acts)
    BY <2>1, InputsAreFinite, FS_Subset DEF evidence, Timed
  <2>3. chains = {C \in Clusters(acts, 30) : Cardinality(C) >= 2}
    <3> HIDE DEF acts
    <3> QED
      BY <2>2, ClustersAreJoined
  <2>4. LifecycleChains(evidence) = {Fact("lifecycle_chain", 85, C, C) : C \in chains}
    BY <2>3 DEF LifecycleChains
  <2> HIDE DEF chains, acts
  <2>5. {g \in facts : g.cat = "lifecycle_chain"} = LifecycleChains(evidence)
    <3>1. \A g \in LifecycleChains(evidence) : g.cat = "lifecycle_chain"
      BY <2>4 DEF Fact
    <3>2. ASSUME NEW g \in SharedIndicators(input.events, ids)
          PROVE  g.cat = "shared_indicator"
      <4>1. PICK of : g = Fact("shared_indicator", 80, of, of)
        BY DEF SharedIndicators
      <4> QED
        BY <4>1 DEF Fact
    <3>3. \A g \in CredentialSequences(evidence, input.events, ids) :
            g.cat = "credential_sequence"
      BY DEF CredentialSequences, Fact
    <3>4. ASSUME NEW g \in ActionBursts(evidence)
          PROVE  g.cat = "action_burst"
      <4>1. PICK of : g = Fact("action_burst", 70, of, of)
        BY DEF ActionBursts
      <4> QED
        BY <4>1 DEF Fact
    <3> QED
      BY <2>1, <3>1, <3>2, <3>3, <3>4 DEF AggregateEvidence
  <2>6. \A C : Fact("lifecycle_chain", 85, C, C).about = C
    BY DEF Fact
  <2> QED
    BY <2>4, <2>5, <2>6
<1> QED
  BY <1>1, AnalysisInvariant, PTL

-----------------------------------------------------------------------------
(***************************************************************************)
(* Which builder states which categories.                                  *)
(***************************************************************************)
\* The categories of each builder.
LEMMA BuilderCategories ==
  ASSUME NEW events, NEW E, NEW S, NEW F \in SUBSET FactsAbout(events), NEW complete
  PROVE  /\ \A c \in ActorClaims(E, S, complete) : c.cat \in {"cross_actor", "self_directed"}
         /\ \A c \in IPClaims(events, E, complete) :
              c.cat \in {"no_ip", "single_ip", "shared_ip", "ip_shift"}
         /\ \A c \in CredentialClaims(E, S) :
              c.cat \in {"cross_account_credential", "self_credential"}
         /\ \A c \in LifecycleClaims(E) : c.cat \in Lifecycle
         /\ \A c \in PrivilegeClaims(E, S) :
              c.cat \in {"privilege_failed", "privilege_self_grant", "privilege_grant"}
         /\ \A c \in TemporalClaims(E) : c.cat = "temporal_cluster"
         /\ \A c \in FailedClaims(E) : c.cat = "failed_outcome"
         /\ \A c \in CoverageClaims(E, complete) : c.cat = "coverage_gap"
         /\ \A c \in FactClaims(F, E) : c.cat \in FactCategories
<1>1. \A c \in ActorClaims(E, S, complete) : c.cat \in {"cross_actor", "self_directed"}
  BY DEF ActorClaims, When, Claim
<1>2. ASSUME NEW c \in IPClaims(events, E, complete)
      PROVE  c.cat \in {"no_ip", "single_ip", "shared_ip", "ip_shift"}
  <2>1. CASE c = Claim("no_ip", 50, {}, E)
    BY <2>1 DEF Claim
  <2>2. CASE \E ip : \/ c = Claim("single_ip", IF complete THEN 90 ELSE 50, WithIP(events, ip), E)
                     \/ c = Claim("shared_ip", 85, WithIP(events, ip), E)
    BY <2>2 DEF Claim
  <2>3. CASE \E a : c = Claim("ip_shift", 80, {e \in events : e.actor = a}, E)
    BY <2>3 DEF Claim
  <2> QED
    BY <2>1, <2>2, <2>3 DEF IPClaims, When
<1>3. \A c \in CredentialClaims(E, S) : c.cat \in {"cross_account_credential", "self_credential"}
  BY DEF CredentialClaims, Claim
<1>4. \A c \in LifecycleClaims(E) : c.cat \in Lifecycle
  BY DEF LifecycleClaims, LifecycleCategory, LifecycleActions, Lifecycle, Claim
<1>5. \A c \in PrivilegeClaims(E, S) :
        c.cat \in {"privilege_failed", "privilege_self_grant", "privilege_grant"}
  BY DEF PrivilegeClaims, Claim
<1>6. \A c \in TemporalClaims(E) : c.cat = "temporal_cluster"
  BY DEF TemporalClaims, Claim
<1>7. \A c \in FailedClaims(E) : c.cat = "failed_outcome"
  BY DEF FailedClaims, Claim
<1>8. \A c \in CoverageClaims(E, complete) : c.cat = "coverage_gap"
  BY DEF CoverageClaims, When, Claim
<1>9. \A c \in FactClaims(F, E) : c.cat \in FactCategories
  BY DEF FactClaims, FactsAbout, Claim
<1> QED
  BY <1>1, <1>2, <1>3, <1>4, <1>5, <1>6, <1>7, <1>8, <1>9

OwnOf(E, S) ==
  {e \in E : e.action \notin PrivilegeActions /\ TargetPrincipals(e, S) \subseteq {e.actor}}
CrossOf(E, S) ==
  {e \in E : e.action \notin PrivilegeActions /\ ~ TargetPrincipals(e, S) \subseteq {e.actor}}
OwnWeight(E, S, complete) ==
  IF CrossOf(E, S) # {} THEN 70 ELSE IF complete THEN 95 ELSE 60

\* At most one claim about what principals did to others, and one about the rest.
LEMMA ActorClaimsAre ==
  ASSUME NEW E, NEW S, NEW complete
  PROVE  ActorClaims(E, S, complete) =
           {c \in {Claim("cross_actor", 90, CrossOf(E, S), E)} : CrossOf(E, S) # {}}
           \cup {c \in {Claim("self_directed", OwnWeight(E, S, complete), OwnOf(E, S), E)} :
                   OwnOf(E, S) # {}}
<1> DEFINE acts == {e \in E : e.action \notin PrivilegeActions}
           own == {e \in acts : TargetPrincipals(e, S) \subseteq {e.actor}}
<1>1. own = OwnOf(E, S) /\ acts \ own = CrossOf(E, S)
  BY DEF OwnOf, CrossOf
<1> QED
  BY <1>1 DEF ActorClaims, OwnActivity, When, OwnWeight

\* A pattern is only a candidate when a claim in the set supports it.
LEMMA SignalsSupport ==
  ASSUME NEW C, NEW i \in Candidates(C)
  PROVE  Supporting(C, Patterns[i]) # {}
<1> DEFINE cats == {c.cat : c \in C}
<1>1. i \in 1..6 /\ Signalled(Patterns[i], cats)
  BY DEF Candidates, Patterns
<1>2. \A cat \in cats : cat \in Supports(Patterns[i]) => Supporting(C, Patterns[i]) # {}
  BY DEF Supporting
<1>3. \E cat \in cats : cat \in Supports(Patterns[i])
  <2> HIDE DEF cats
  <2>1. CASE i = 1
    BY <1>1, <2>1 DEF Signalled, Supports, Patterns, TakeoverSignals
  <2>2. CASE i = 2
    BY <1>1, <2>2 DEF Signalled, Supports, Patterns
  <2>3. CASE i = 3
    BY <1>1, <2>3 DEF Signalled, Supports, Patterns
  <2>4. CASE i = 4
    BY <1>1, <2>4 DEF Signalled, Supports, Patterns
  <2>5. CASE i = 5
    BY <1>1, <2>5 DEF Signalled, Supports, Patterns, CrossAccountSupport
  <2>6. CASE i = 6
    BY <1>1, <2>6 DEF Signalled, Supports, Patterns
  <2> QED
    BY <1>1, <2>1, <2>2, <2>3, <2>4, <2>5, <2>6
<1> QED
  BY <1>2, <1>3

\* What the claims of an analysis are.
LEMMA ClaimsOfInputs ==
  ASSUME AnalysisInv
  PROVE  /\ input \in Inputs /\ ids \subseteq Principals
         /\ facts \in SUBSET FactsAbout(input.events)
         /\ claims \in SUBSET ClaimsAbout(input.events) /\ IsFiniteSet(claims)
<1>1. input \in Inputs
  BY DEF AnalysisInv
<1>2. ids \subseteq Principals
  BY <1>1, FocalAreInvolved DEF AnalysisInv, FocalIds, evidence
<1>3. \A f \in facts : f \in FactsAbout(input.events)
  BY <1>1, FactsRestOnEvents DEF AnalysisInv, AllFacts, evidence
<1>4. claims \subseteq ClaimsAbout(input.events)
  BY <1>1, <1>3, ClaimsCiteEvidence DEF AnalysisInv, AllClaims
<1>5. IsFiniteSet(claims)
  BY <1>1, <1>4, InputsAreFinite, ClaimsAreFinite, FS_Subset DEF Timed
<1> QED
  BY <1>1, <1>2, <1>3, <1>4, <1>5

\* Each event of the evidence is in a claim: privilege changes in those of
\* _claims_privilege, every other event in one of the two of _claims_actor_pattern.
THEOREM EventsAreClaimed == Spec => []EveryEventIsClaimed
<1>1. ASSUME AnalysisInv PROVE EveryEventIsClaimed
  <2> DEFINE Told(c, e) ==
               /\ c.cat \in {"self_directed", "cross_actor", "privilege_failed",
                             "privilege_self_grant", "privilege_grant"}
               /\ e \in c.about
  <2> SUFFICES ASSUME stage \in {"claimed", "scored"}, NEW e \in evidence
               PROVE  \E c \in claims : Told(c, e)
    BY DEF EveryEventIsClaimed
  <2>1. /\ ActorClaims(evidence, ids, input.complete) \subseteq claims
        /\ PrivilegeClaims(evidence, ids) \subseteq claims
    BY <1>1 DEF AnalysisInv, AllClaims, BuildClaims, evidence
  <2>2. CASE e.action \in PrivilegeActions
    <3>1. PICK c : c = IF e.failed THEN Claim("privilege_failed", 85, {e}, evidence)
                       ELSE IF e.actor \in TargetPrincipals(e, ids) \cup e.targets
                       THEN Claim("privilege_self_grant", 95, {e}, evidence)
                       ELSE Claim("privilege_grant", 80, {e}, evidence)
      OBVIOUS
    <3>2. c \in PrivilegeClaims(evidence, ids)
      BY <2>2, <3>1 DEF PrivilegeClaims
    <3>3. Told(c, e)
      BY <3>1 DEF Claim
    <3> QED
      BY <2>1, <3>2, <3>3
  <2>3. CASE e.action \notin PrivilegeActions
    <3>1. e \in OwnOf(evidence, ids) \/ e \in CrossOf(evidence, ids)
      BY <2>3 DEF OwnOf, CrossOf
    <3>2. CASE e \in OwnOf(evidence, ids)
      <4>1. PICK c : c = Claim("self_directed", OwnWeight(evidence, ids, input.complete),
                              OwnOf(evidence, ids), evidence)
        OBVIOUS
      <4>2. c \in ActorClaims(evidence, ids, input.complete)
        BY <3>2, <4>1, ActorClaimsAre
      <4>3. Told(c, e)
        BY <3>2, <4>1 DEF Claim
      <4> QED
        BY <2>1, <4>2, <4>3
    <3>3. CASE e \in CrossOf(evidence, ids)
      <4>1. PICK c : c = Claim("cross_actor", 90, CrossOf(evidence, ids), evidence)
        OBVIOUS
      <4>2. c \in ActorClaims(evidence, ids, input.complete)
        BY <3>3, <4>1, ActorClaimsAre
      <4>3. Told(c, e)
        BY <3>3, <4>1 DEF Claim
      <4> QED
        BY <2>1, <4>2, <4>3
    <3> QED
      BY <3>1, <3>2, <3>3
  <2> QED
    BY <2>2, <2>3
<1> QED
  BY <1>1, AnalysisInvariant, PTL

\* The dominant pattern is one that a claim supports, whatever the numbers of
\* matching claims are (_classify_pattern, _assign_polarity).
THEOREM VerdictsAreSupported == Spec => []VerdictIsSupported
<1>1. ASSUME AnalysisInv PROVE VerdictIsSupported
  <2>1. IsFiniteSet(claims)
    BY <1>1, ClaimsOfInputs
  <2>2. Scored => verdict.pattern = ClassifyPattern(claims)
    BY <1>1 DEF AnalysisInv, Scored, Pattern
  <2> QED
    BY <2>1, <2>2, ClassifierPicks, SignalsSupport DEF VerdictIsSupported
<1> QED
  BY <1>1, AnalysisInvariant, PTL

\* A verdict that accuses rests on an event whose target is or is related to
\* somebody who did not act: the only claim with category cross_actor is that of
\* _claims_actor_pattern.
THEOREM AccusationsHaveAnEvent == Spec => []AccusationHasAnEvent
<1>1. ASSUME AnalysisInv PROVE AccusationHasAnEvent
  <2> DEFINE Accused(e, p) ==
               \E t \in e.targets :
                 /\ p # e.actor
                 /\ \/ t = p
                    \/ \E i \in DOMAIN Relationships :
                         {Relationships[i].from, Relationships[i].to} = {t, p}
  <2> SUFFICES ASSUME Scored, verdict.pattern \in {"credential_takeover", "cross_account",
                                                   "coordinated_cross_account"}
               PROVE  \E e \in evidence, p \in Principals : Accused(e, p)
    BY DEF AccusationHasAnEvent
  <2>1. /\ input \in Inputs /\ ids \subseteq Principals
        /\ facts \in SUBSET FactsAbout(input.events) /\ IsFiniteSet(claims)
    BY <1>1, ClaimsOfInputs
  <2>2. /\ verdict.pattern = ClassifyPattern(claims)
        /\ claims = BuildClaims(input.events, ids, facts, input.complete)
    BY <1>1 DEF AnalysisInv, Scored, Pattern, AllClaims
  <2>3. PICK c \in claims : c.cat = "cross_actor"
    <3>1. PICK i \in Candidates(claims) : verdict.pattern = Patterns[i]
      BY <2>1, <2>2, ClassifierPicks
    <3>2. Signalled(verdict.pattern, {c.cat : c \in claims})
      BY <3>1 DEF Candidates
    <3>3. "cross_actor" \in {c.cat : c \in claims}
      BY <3>2 DEF Signalled, TakeoverSignals
    <3> QED
      BY <3>3
  <2>4. c \in ActorClaims(evidence, ids, input.complete)
    BY <2>1, <2>2, <2>3, BuilderCategories
       DEF BuildClaims, evidence, Lifecycle, FactCategories
  <2>5. PICK e \in evidence : ~ TargetPrincipals(e, ids) \subseteq {e.actor}
    BY <2>3, <2>4 DEF ActorClaims, When, Claim
  <2>6. PICK t \in e.targets : \E p \in Resolve(t, ids) : p # e.actor
    BY <2>5 DEF TargetPrincipals
  <2>7. PICK p \in Resolve(t, ids) : p # e.actor
    BY <2>6
  <2>8. p \in Principals /\ Accused(e, p)
    <3>1. CASE t \in ids
      BY <2>1, <2>7, <3>1 DEF Resolve
    <3>2. CASE t \notin ids
      <4>1. PICK i \in LastClaim(t, ids) : Owns(i, p, t, ids)
        BY <2>7, <3>2 DEF Resolve
      <4>2. i \in DOMAIN Relationships /\ p \in ids
        BY <4>1 DEF LastClaim, Owns
      <4>3. {Relationships[i].from, Relationships[i].to} = {t, p}
        BY <4>1 DEF Owns
      <4> QED
        BY <2>1, <2>7, <4>2, <4>3
    <3> QED
      BY <3>1, <3>2
  <2> QED
    BY <2>8
<1> QED
  BY <1>1, AnalysisInvariant, PTL

-----------------------------------------------------------------------------
(***************************************************************************)
(* Coverage.                                                               *)
(***************************************************************************)
IPWeight(complete) == IF complete THEN 90 ELSE 50

OnlyIPs(events) == {ip \in IPs(events) : Cardinality(IPs(events)) = 1}

OtherIPClaims(events, E) ==
  {c \in {Claim("no_ip", 50, {}, E)} : IPs(events) = {}}
  \cup {Claim("shared_ip", 85, WithIP(events, ip), E) :
          ip \in {i \in IPs(events) : /\ Cardinality(IPs(events)) > 1
                                      /\ Cardinality({e.actor : e \in WithIP(events, i)}) > 1}}
  \cup {Claim("ip_shift", 80, {e \in events : e.actor = a}, E) :
          a \in {b \in {e.actor : e \in events} :
                   Cardinality(IPs({e \in events : e.actor = b})) > 1}}

\* Of the claims about addresses only that of a single one looks at coverage.
LEMMA IPClaimsAre ==
  ASSUME NEW events, NEW E, NEW complete
  PROVE  IPClaims(events, E, complete) =
           {Claim("single_ip", IPWeight(complete), WithIP(events, ip), E) :
              ip \in OnlyIPs(events)} \cup OtherIPClaims(events, E)
<1> DEFINE none == When(IPs(events) = {}, {Claim("no_ip", 50, {}, E)})
           single == When(Cardinality(IPs(events)) = 1,
                          {Claim("single_ip", IF complete THEN 90 ELSE 50,
                                 WithIP(events, ip), E) : ip \in IPs(events)})
           shared == {Claim("shared_ip", 85, WithIP(events, ip), E) :
                        ip \in {i \in IPs(events) :
                                  /\ Cardinality(IPs(events)) > 1
                                  /\ Cardinality({e.actor : e \in WithIP(events, i)}) > 1}}
           shift == {Claim("ip_shift", 80, {e \in events : e.actor = a}, E) :
                       a \in {b \in {e.actor : e \in events} :
                                Cardinality(IPs({e \in events : e.actor = b})) > 1}}
<1>1. single = {Claim("single_ip", IPWeight(complete), WithIP(events, ip), E) :
                  ip \in OnlyIPs(events)}
  BY DEF When, OnlyIPs, IPWeight
<1>2. none = {c \in {Claim("no_ip", 50, {}, E)} : IPs(events) = {}}
  BY DEF When
<1>3. OtherIPClaims(events, E) = none \cup shared \cup shift
  <2> HIDE DEF none
  <2> QED
    BY <1>2 DEF OtherIPClaims
<1>4. IPClaims(events, E, complete) = none \cup single \cup shared \cup shift
  BY DEF IPClaims
<1> HIDE DEF none, single, shared, shift
<1> QED
  BY <1>1, <1>3, <1>4

\* And no other claim has its category.
LEMMA OtherIPCategories ==
  ASSUME NEW events, NEW E, NEW c \in OtherIPClaims(events, E)
  PROVE  c.cat # "single_ip"
<1>1. CASE c = Claim("no_ip", 50, {}, E)
  BY <1>1 DEF Claim
<1>2. CASE \E about : c = Claim("shared_ip", 85, about, E) \/ c = Claim("ip_shift", 80, about, E)
  BY <1>2 DEF Claim
<1> QED
  BY <1>1, <1>2 DEF OtherIPClaims

\* A claim with the confidence the other coverage status gives it.
Weighed(c, own, single) ==
  IF c.cat = "self_directed" THEN [c EXCEPT !.conf = own]
  ELSE IF c.cat = "single_ip" THEN [c EXCEPT !.conf = single]
  ELSE c

\* Weighing a claim again changes its confidence only.
LEMMA WeighedClaims ==
  ASSUME NEW conf, NEW about, NEW E, NEW own, NEW single
  PROVE  /\ Weighed(Claim("self_directed", conf, about, E), own, single)
              = Claim("self_directed", own, about, E)
         /\ Weighed(Claim("single_ip", conf, about, E), own, single)
              = Claim("single_ip", single, about, E)
BY DEF Weighed, Claim

\* Under the other status the same claims are stated, with other confidences.
LEMMA CoverageReweighs ==
  ASSUME NEW events, NEW S, NEW F \in SUBSET FactsAbout(events),
         NEW complete \in BOOLEAN, NEW other \in BOOLEAN,
         NEW c \in BuildClaims(events, S, F, complete), c.cat # "coverage_gap"
  PROVE  LET d == Weighed(c, OwnWeight(EvidenceOf(events), S, other), IPWeight(other)) IN
         /\ d \in BuildClaims(events, S, F, other) /\ d.cat = c.cat
         /\ Weighed(d, OwnWeight(EvidenceOf(events), S, complete), IPWeight(complete)) = c
<1> DEFINE E == EvidenceOf(events)
           d == Weighed(c, OwnWeight(E, S, other), IPWeight(other))
<1>1. \/ c \in ActorClaims(E, S, complete) \/ c \in IPClaims(events, E, complete)
      \/ c \in CredentialClaims(E, S) \/ c \in LifecycleClaims(E)
      \/ c \in PrivilegeClaims(E, S) \/ c \in TemporalClaims(E)
      \/ c \in FailedClaims(E) \/ c \in FactClaims(F, E)
  BY BuilderCategories DEF BuildClaims
<1>2. /\ ActorClaims(E, S, other) \subseteq BuildClaims(events, S, F, other)
      /\ IPClaims(events, E, other) \subseteq BuildClaims(events, S, F, other)
      /\ CredentialClaims(E, S) \subseteq BuildClaims(events, S, F, other)
      /\ LifecycleClaims(E) \subseteq BuildClaims(events, S, F, other)
      /\ PrivilegeClaims(E, S) \subseteq BuildClaims(events, S, F, other)
      /\ TemporalClaims(E) \subseteq BuildClaims(events, S, F, other)
      /\ FailedClaims(E) \subseteq BuildClaims(events, S, F, other)
      /\ FactClaims(F, E) \subseteq BuildClaims(events, S, F, other)
  BY DEF BuildClaims
<1> HIDE DEF E
<1>3. CASE c.cat \notin {"self_directed", "single_ip"}
  <2>1. d = c /\ Weighed(c, OwnWeight(E, S, complete), IPWeight(complete)) = c
    BY <1>3 DEF Weighed
  <2>2. c \in ActorClaims(E, S, complete) => c \in ActorClaims(E, S, other)
    BY <1>3, ActorClaimsAre DEF Claim
  <2>3. c \in IPClaims(events, E, complete) => c \in IPClaims(events, E, other)
    BY <1>3, IPClaimsAre DEF Claim
  <2> HIDE DEF d
  <2> QED
    BY <1>1, <1>2, <2>1, <2>2, <2>3 DEF E, d
<1>4. CASE c.cat = "self_directed"
  <2>1. c \in ActorClaims(E, S, complete)
    BY <1>1, <1>4, BuilderCategories DEF Lifecycle, FactCategories
  <2>2. c = Claim("self_directed", OwnWeight(E, S, complete), OwnOf(E, S), E) /\ OwnOf(E, S) # {}
    BY <1>4, <2>1, ActorClaimsAre DEF Claim
  <2>3. d = Claim("self_directed", OwnWeight(E, S, other), OwnOf(E, S), E)
    BY <2>2, WeighedClaims
  <2>4. d \in ActorClaims(E, S, other)
    BY <2>2, <2>3, ActorClaimsAre
  <2>5. Weighed(d, OwnWeight(E, S, complete), IPWeight(complete)) = c
    BY <2>2, <2>3, WeighedClaims
  <2>6. d.cat = c.cat
    BY <2>2, <2>3 DEF Claim
  <2> HIDE DEF d
  <2> QED
    BY <1>2, <2>4, <2>5, <2>6 DEF E, d
<1>5. CASE c.cat = "single_ip"
  <2>1. c \in IPClaims(events, E, complete)
    BY <1>1, <1>5, BuilderCategories DEF Lifecycle, FactCategories
  <2>2. PICK ip \in OnlyIPs(events) :
          c = Claim("single_ip", IPWeight(complete), WithIP(events, ip), E)
    BY <1>5, <2>1, IPClaimsAre, OtherIPCategories
  <2>3. d = Claim("single_ip", IPWeight(other), WithIP(events, ip), E)
    BY <2>2, WeighedClaims
  <2>4. d \in IPClaims(events, E, other)
    BY <2>2, <2>3, IPClaimsAre
  <2>5. Weighed(d, OwnWeight(E, S, complete), IPWeight(complete)) = c
    BY <2>2, <2>3, WeighedClaims
  <2>6. d.cat = c.cat
    BY <2>2, <2>3 DEF Claim
  <2> HIDE DEF d
  <2> QED
    BY <1>2, <2>4, <2>5, <2>6 DEF E, d
<1> QED
  BY <1>3, <1>4, <1>5

\* So the categories are the same.
LEMMA CategoriesSurvive ==
  ASSUME NEW events, NEW S, NEW F \in SUBSET FactsAbout(events),
         NEW complete \in BOOLEAN, NEW other \in BOOLEAN
  PROVE  \A c \in BuildClaims(events, S, F, complete) : c.cat # "coverage_gap" =>
           \E d \in BuildClaims(events, S, F, other) : d.cat = c.cat
<1> SUFFICES ASSUME NEW c \in BuildClaims(events, S, F, complete), c.cat # "coverage_gap"
             PROVE  \E d \in BuildClaims(events, S, F, other) : d.cat = c.cat
  OBVIOUS
<1> DEFINE d == Weighed(c, OwnWeight(EvidenceOf(events), S, other), IPWeight(other))
<1>1. d \in BuildClaims(events, S, F, other) /\ d.cat = c.cat
  BY CoverageReweighs
<1> HIDE DEF d
<1> QED
  BY <1>1

\* No pattern speaks of coverage.
LEMMA PatternsIgnoreCoverage ==
  \A pattern \in ToSet(Patterns) :
    "coverage_gap" \notin Supports(pattern) \cup Contradicts(pattern)
<1> SUFFICES ASSUME NEW i \in 1..6
             PROVE  "coverage_gap" \notin Supports(Patterns[i]) \cup Contradicts(Patterns[i])
  BY DEF ToSet, Patterns
<1>1. CASE i = 1
  BY <1>1 DEF Supports, Contradicts, Patterns
<1>2. CASE i = 2
  BY <1>2 DEF Supports, Contradicts, Patterns
<1>3. CASE i = 3
  BY <1>3 DEF Supports, Contradicts, Patterns, Lifecycle
<1>4. CASE i = 4
  BY <1>4 DEF Supports, Contradicts, Patterns
<1>5. CASE i = 5
  BY <1>5 DEF Supports, Contradicts, Patterns, CrossAccountSupport
<1>6. CASE i = 6
  BY <1>6 DEF Supports, Contradicts, Patterns
<1> QED
  BY <1>1, <1>2, <1>3, <1>4, <1>5, <1>6

\* No more claims match under one status than under the other.
LEMMA MatchesSurvive ==
  ASSUME NEW i \in Inputs, NEW S, NEW F \in SUBSET FactsAbout(i.events),
         NEW complete \in BOOLEAN, NEW other \in BOOLEAN, NEW pattern \in ToSet(Patterns)
  PROVE  Matching(BuildClaims(i.events, S, F, complete), pattern)
           <= Matching(BuildClaims(i.events, S, F, other), pattern)
<1> DEFINE cats == Supports(pattern) \cup Contradicts(pattern)
           C == BuildClaims(i.events, S, F, complete)
           D == BuildClaims(i.events, S, F, other)
           M == {c \in C : c.cat \in cats}
           N == {c \in D : c.cat \in cats}
           own(b) == OwnWeight(EvidenceOf(i.events), S, b)
           f == [c \in M |-> Weighed(c, own(other), IPWeight(other))]
<1>1. IsFiniteSet(N)
  <2>1. IsFiniteSet(ClaimsAbout(i.events))
    BY InputsAreFinite, ClaimsAreFinite DEF Timed
  <2>2. N \in SUBSET ClaimsAbout(i.events)
    BY ClaimsCiteEvidence
  <2> HIDE DEF N
  <2> QED
    BY <2>1, <2>2, FS_Subset
<1>2. \A c \in M : /\ f[c] \in N
                   /\ Weighed(f[c], own(complete), IPWeight(complete)) = c
  <2> SUFFICES ASSUME NEW c \in M
               PROVE  /\ f[c] \in N
                      /\ Weighed(f[c], own(complete), IPWeight(complete)) = c
    OBVIOUS
  <2>1. c.cat # "coverage_gap" /\ c \in C
    BY PatternsIgnoreCoverage
  <2>2. f[c] = Weighed(c, own(other), IPWeight(other))
    OBVIOUS
  <2>3. /\ f[c] \in D /\ f[c].cat = c.cat
        /\ Weighed(f[c], own(complete), IPWeight(complete)) = c
    <3> HIDE DEF f
    <3> QED
      BY <2>1, <2>2, CoverageReweighs
  <2> QED
    BY <2>3
<1>3. f \in Injection(M, N)
  <2>1. f \in [M -> N]
    BY <1>2
  <2>2. \A c, d \in M : f[c] = f[d] => c = d
    <3> HIDE DEF f, M
    <3> QED
      BY <1>2
  <2> HIDE DEF f, M, N
  <2> QED
    BY <2>1, <2>2 DEF Injection, IsInjective
<1>4. Cardinality(M) <= Cardinality(N)
  <2> HIDE DEF f, M, N
  <2> QED
    BY <1>1, <1>3, FS_Injection
<1> QED
  BY <1>4 DEF Matching

\* Claims under either status are classified alike.
LEMMA CoverageIsNeutral ==
  ASSUME NEW i \in Inputs, NEW S, NEW F \in SUBSET FactsAbout(i.events),
         NEW complete \in BOOLEAN, NEW other \in BOOLEAN
  PROVE  ClassifyPattern(BuildClaims(i.events, S, F, complete))
           = ClassifyPattern(BuildClaims(i.events, S, F, other))
<1> DEFINE C == BuildClaims(i.events, S, F, complete)
           D == BuildClaims(i.events, S, F, other)
<1>1. ASSUME NEW k \in 1..6
      PROVE  Matching(C, Patterns[k]) = Matching(D, Patterns[k])
  <2>1. Patterns[k] \in ToSet(Patterns)
    BY DEF ToSet, Patterns
  <2>2. /\ Matching(C, Patterns[k]) <= Matching(D, Patterns[k])
        /\ Matching(D, Patterns[k]) <= Matching(C, Patterns[k])
    BY <2>1, MatchesSurvive
  <2>3. C \in SUBSET ClaimsAbout(i.events) /\ D \in SUBSET ClaimsAbout(i.events)
    BY ClaimsCiteEvidence
  <2> HIDE DEF C, D
  <2>4. IsFiniteSet(C) /\ IsFiniteSet(D)
    BY <2>3, InputsAreFinite, ClaimsAreFinite, FS_Subset DEF Timed
  <2>5. Matching(C, Patterns[k]) \in Nat /\ Matching(D, Patterns[k]) \in Nat
    BY <2>4, MatchesCounted
  <2> QED
    BY <2>2, <2>5
<1>2. \A c \in C : c.cat # "coverage_gap" => \E d \in D : d.cat = c.cat
  BY CategoriesSurvive
<1>3. \A d \in D : d.cat # "coverage_gap" => \E c \in C : c.cat = d.cat
  BY CategoriesSurvive
<1> HIDE DEF C, D
<1>4. Candidates(C) = Candidates(D)
  <2> DEFINE cats(X) == {c.cat : c \in X}
  <2>1. \A cat : cat # "coverage_gap" => (cat \in cats(C) <=> cat \in cats(D))
    BY <1>2, <1>3
  <2>2. ASSUME NEW pattern
        PROVE  Signalled(pattern, cats(C)) <=> Signalled(pattern, cats(D))
    <3> HIDE DEF cats
    <3> QED
      BY <2>1 DEF Signalled, TakeoverSignals, Lifecycle
  <2> QED
    BY <2>2 DEF Candidates
<1>5. Candidates(C) \subseteq 1..6
  BY DEF Candidates, Patterns
<1>6. Best(C) = Best(D)
  BY <1>1, <1>4, <1>5 DEF Best
<1>7. ClassifyPattern(C) = ClassifyPattern(D)
  BY <1>4, <1>6, ClassifierChooses
<1> QED
  BY <1>7 DEF C, D

\* Coverage moves weights but not the pattern: the claim of _claims_coverage is
\* neutral everywhere, and confidences are not counted by _classify_pattern.
THEOREM CoverageLeavesThePattern == Spec => []CoverageKeepsThePattern
<1>1. ASSUME AnalysisInv PROVE CoverageKeepsThePattern
  <2>1. input \in Inputs /\ facts \in SUBSET FactsAbout(input.events)
    BY <1>1, ClaimsOfInputs
  <2>2. input.complete \in BOOLEAN
    BY <2>1, InputsAssumption
  <2>3. (~ input.complete) \in BOOLEAN
    OBVIOUS
  <2>4. Scored => verdict.pattern =
                    ClassifyPattern(BuildClaims(input.events, ids, facts, input.complete))
    BY <1>1 DEF AnalysisInv, Scored, Pattern, AllClaims
  <2>5. ClassifyPattern(BuildClaims(input.events, ids, facts, input.complete))
          = ClassifyPattern(BuildClaims(input.events, ids, facts, ~ input.complete))
    BY <2>1, <2>2, <2>3, CoverageIsNeutral
  <2> QED
    BY <2>4, <2>5 DEF CoverageKeepsThePattern
<1> QED
  BY <1>1, AnalysisInvariant, PTL

-----------------------------------------------------------------------------
(***************************************************************************)
(* The likelihood.                                                         *)
(***************************************************************************)
\* The weight of a set of claims lies between 50 and 100 for each of them.
LEMMA WeightOfClaims ==
  ASSUME NEW events, NEW C \in SUBSET ClaimsAbout(events), IsFiniteSet(C)
  PROVE  /\ Weight(C) \in Nat /\ Cardinality(C) \in Nat
         /\ 50 * Cardinality(C) <= Weight(C)
         /\ C = {} => Weight(C) = 0
<1> DEFINE pick == [T \in SUBSET C |-> CHOOSE x \in T : TRUE]
           plus == [p \in C \X Nat |-> p[1].conf + p[2]]
           IsSum(h) == h = [T \in SUBSET C |-> IF T = {} THEN 0
                              ELSE (CHOOSE x \in T : TRUE).conf
                                     + h[T \ {CHOOSE x \in T : TRUE}]]
           sum == CHOOSE h : IsSum(h)
<1>1. \A T \in (SUBSET C) \ {{}} : (CHOOSE x \in T : TRUE) \in T
  OBVIOUS
<1>2. \A c \in C : c.conf \in 50..100 /\ c.conf \in Nat
  BY DEF ClaimsAbout
<1>3. \E g \in [SUBSET C -> Nat] : IsSum(g)
  <2>1. plus \in [C \X Nat -> Nat]
    BY <1>2
  <2>2. \A T \in (SUBSET C) \ {{}} : pick[T] \in T
    BY <1>1
  <2>3. PICK g \in [SUBSET C -> Nat] : IsFold(g, C, 0, plus, pick)
    <3>1. 0 \in Nat
      OBVIOUS
    <3> HIDE DEF plus, pick
    <3> QED
      BY <2>1, <2>2, <3>1, FoldExists
  <2>4. ASSUME NEW T \in (SUBSET C) \ {{}}
        PROVE  plus[<<pick[T], g[T \ {pick[T]}]>>]
                 = (CHOOSE x \in T : TRUE).conf + g[T \ {CHOOSE x \in T : TRUE}]
    <3>1. pick[T] = CHOOSE x \in T : TRUE
      OBVIOUS
    <3>2. pick[T] \in C /\ g[T \ {pick[T]}] \in Nat
      BY <2>2, <2>3
    <3> QED
      BY <3>1, <3>2
  <2>5. IsSum(g)
    <3> HIDE DEF plus, pick
    <3> QED
      BY <2>3, <2>4 DEF IsFold
  <2> QED
    BY <2>5
<1>4. IsSum(sum)
  <2> HIDE DEF IsSum
  <2> QED
    BY <1>3
<1>5. Weight(C) = sum[C]
  BY DEF Weight, MapThenSumSet, MapThenFoldSet
<1>6. /\ sum[{}] = 0
      /\ \A T \in (SUBSET C) \ {{}} : \E x \in T : sum[T] = x.conf + sum[T \ {x}]
  <2>1. ASSUME NEW h, IsSum(h)
        PROVE  /\ h[{}] = 0
               /\ \A T \in (SUBSET C) \ {{}} : \E x \in T : h[T] = x.conf + h[T \ {x}]
    <3>1. ASSUME NEW T \in (SUBSET C) \ {{}}
          PROVE  \E x \in T : h[T] = x.conf + h[T \ {x}]
      BY <1>1, <2>1
    <3> QED
      BY <2>1, <3>1
  <2> HIDE DEF IsSum, sum
  <2> QED
    BY <1>4, <2>1
<1> DEFINE G == {T \in SUBSET C : sum[T] \in Nat /\ 50 * Cardinality(T) <= sum[T]}
<1> HIDE DEF sum
<1>7. {} \in G
  BY <1>6, FS_EmptySet
<1>8. ASSUME NEW T \in (SUBSET C) \ {{}}, \A x \in T : T \ {x} \in G
      PROVE  T \in G
  <2>1. PICK x \in T : sum[T] = x.conf + sum[T \ {x}]
    BY <1>6
  <2>2. /\ x.conf \in 50..100 /\ sum[T \ {x}] \in Nat
        /\ 50 * Cardinality(T \ {x}) <= sum[T \ {x}]
    BY <1>2, <1>8
  <2>3. IsFiniteSet(T) /\ Cardinality(T) \in Nat
    BY FS_Subset, FS_CardinalityType
  <2>4. Cardinality(T \ {x}) = Cardinality(T) - 1
    BY <2>3, FS_RemoveElement
  <2>5. 50 * (Cardinality(T) - 1) <= sum[T \ {x}]
    BY <2>2, <2>4
  <2> QED
    BY <2>1, <2>2, <2>3, <2>5
<1>9. SUBSET C \subseteq G
  <2> HIDE DEF G
  <2> QED
    BY <1>7, <1>8, SubsetInduction
<1>10. Cardinality(C) \in Nat
  BY FS_CardinalityType
<1> QED
  BY <1>5, <1>6, <1>9, <1>10

\* A high likelihood needs more than twice the weight of what contradicts the
\* pattern, a low one with evidence more weight against it than for it, for any
\* claims (score_likelihood).
THEOREM LikelihoodIsBalanced == Spec => []LikelihoodFollowsBalance
<1>1. ASSUME AnalysisInv PROVE LikelihoodFollowsBalance
  <2> DEFINE p == ClassifyPattern(claims)
             S == Supporting(claims, p)
             K == Contradicting(claims, p)
             for == Weight(S)
             against == Weight(K)
             n == Cardinality(S)
  <2> SUFFICES ASSUME Scored
               PROVE  /\ verdict.likelihood = "high" => for > 2 * against
                      /\ verdict.likelihood = "low" /\ evidence # {} => against > for
    BY <1>1 DEF LikelihoodFollowsBalance, AnalysisInv, Scored, Pattern
  <2>1. claims \in SUBSET ClaimsAbout(input.events) /\ IsFiniteSet(claims)
    BY <1>1, ClaimsOfInputs
  <2>2. verdict.likelihood = ScoreLikelihood(claims, p, evidence)
    BY <1>1 DEF AnalysisInv, Scored, Pattern
  <2>3. /\ S \in SUBSET ClaimsAbout(input.events) /\ IsFiniteSet(S)
        /\ K \in SUBSET ClaimsAbout(input.events) /\ IsFiniteSet(K)
    BY <2>1, FS_Subset DEF Supporting, Contradicting
  <2>4. S # {} \/ (S = {} /\ K = {})
    <3>1. CASE p = "unclear"
      BY <3>1 DEF Supporting, Contradicting, Supports, Contradicts
    <3>2. CASE p # "unclear"
      <4>1. PICK i \in Candidates(claims) : p = Patterns[i]
        BY <2>1, <3>2, ClassifierPicks
      <4>2. Supporting(claims, Patterns[i]) # {}
        BY SignalsSupport
      <4>3. Supporting(claims, p) # {}
        <5> HIDE DEF p
        <5> QED
          BY <4>1, <4>2
      <4> QED
        BY <4>3
    <3> QED
      BY <3>1, <3>2
  <2> HIDE DEF S, K, p
  <2>5. /\ for \in Nat /\ against \in Nat /\ n \in Nat /\ 50 * n <= for
        /\ S # {} => n > 0
        /\ K = {} => against = 0
        /\ K # {} => against > 0
    <3>1. for \in Nat /\ n \in Nat /\ 50 * n <= for
      BY <2>3, WeightOfClaims
    <3>2. S # {} => n # 0
      BY <2>3, FS_EmptySet
    <3>3. /\ against \in Nat /\ Cardinality(K) \in Nat /\ 50 * Cardinality(K) <= against
          /\ K = {} => against = 0
      BY <2>3, WeightOfClaims
    <3>4. K # {} => Cardinality(K) # 0
      BY <2>3, FS_EmptySet
    <3> HIDE DEF for, against, n
    <3> QED
      BY <3>1, <3>2, <3>3, <3>4
  <2>6. \A pct \in {50, 70} :
          /\ S # {} /\ K # {} =>
               (AtLeast(pct, claims, p, evidence) <=> 100 * for >= pct * (for + against))
          /\ S # {} /\ K = {} => (AtLeast(pct, claims, p, evidence) <=> for >= pct * n)
          /\ S = {} /\ K = {} =>
               (AtLeast(pct, claims, p, evidence) <=> (IF evidence # {} THEN 50 ELSE 30) >= pct)
    BY DEF AtLeast, S, K
  <2>7. /\ verdict.likelihood = "high" <=> AtLeast(70, claims, p, evidence)
        /\ verdict.likelihood = "low" => ~ AtLeast(50, claims, p, evidence)
    BY <2>2 DEF ScoreLikelihood
  <2> HIDE DEF for, against, n
  <2> QED
    BY <2>4, <2>5, <2>6, <2>7
<1> QED
  BY <1>1, AnalysisInvariant, PTL
=============================================================================
