-------------------------- MODULE CorrelationProofs --------------------------
(***************************************************************************)
(* Proofs about the way from the domains to the case: what the lists of an *)
(* answer hold, wherever a limit cuts them, and what the queries of a case *)
(* make of ingested answers, for any files, requests and limits.           *)
(***************************************************************************)
EXTENDS Correlation, Induction

-----------------------------------------------------------------------------
(***************************************************************************)
(* Lists.                                                                  *)
(***************************************************************************)
\* The smaller of two numbers.
LEMMA SmallerOne ==
  ASSUME NEW a \in Int, NEW b \in Int
  PROVE  Min({a, b}) \in {a, b} /\ Min({a, b}) <= a /\ Min({a, b}) <= b
<1>1. \E x \in {a, b} : \A y \in {a, b} : x <= y
  OBVIOUS
<1> QED
  BY <1>1 DEF Min

\* The greatest of some positions of a list.
LEMMA LatestPosition ==
  ASSUME NEW N \in Nat
  PROVE  /\ \A T \in (SUBSET (1..N)) \ {{}} : Max(T) \in T /\ \A i \in T : i <= Max(T)
         /\ \A k \in 1..N : Max(1..k) = k
<1>1. ASSUME NEW T \in (SUBSET (1..N)) \ {{}}
      PROVE  Max(T) \in T /\ \A i \in T : i <= Max(T)
  <2> SUFFICES \E x \in T : \A i \in T : x >= i
    BY DEF Max
  <2>1. T \in SUBSET Nat /\ \A i \in T : i <= N
    OBVIOUS
  <2>2. IsFiniteSet(T)
    BY <2>1, FS_BoundedSetOfNaturals
  <2> QED
    BY <2>1, <2>2, GreatestNatural
<1>2. ASSUME NEW k \in 1..N
      PROVE  Max(1..k) = k
  <2>1. 1..k \in (SUBSET (1..N)) \ {{}} /\ k \in 1..k
    OBVIOUS
  <2>2. Max(1..k) \in 1..k /\ k <= Max(1..k)
    BY <1>1, <2>1
  <2> QED
    BY <2>2
<1> QED
  BY <1>1, <1>2

\* What a list holds is what it held and what was appended to it.
LEMMA Appended ==
  ASSUME NEW X, NEW s \in Seq(X), NEW x \in X
  PROVE  Append(s, x) \in Seq(X) /\ ToSet(Append(s, x)) = ToSet(s) \cup {x}
<1> DEFINE t == Append(s, x)
<1>1. /\ t \in Seq(X) /\ Len(t) = Len(s) + 1 /\ t[Len(s) + 1] = x
      /\ \A i \in 1..Len(s) : t[i] = s[i]
  OBVIOUS
<1>2. /\ Len(s) \in Nat /\ DOMAIN s = 1..Len(s) /\ DOMAIN t = 1..(Len(s) + 1)
  BY <1>1
<1>3. 1..(Len(s) + 1) = (1..Len(s)) \cup {Len(s) + 1}
  BY <1>2
<1> HIDE DEF t
<1>4. ToSet(t) = {t[i] : i \in 1..Len(s)} \cup {t[Len(s) + 1]}
  BY <1>2, <1>3 DEF ToSet
<1>5. {t[i] : i \in 1..Len(s)} = ToSet(s)
  BY <1>1, <1>2 DEF ToSet
<1>6. t \in Seq(X) /\ ToSet(t) = ToSet(s) \cup {x}
  BY <1>1, <1>4, <1>5
<1> QED
  BY <1>6 DEF t

\* The members of a list are of its type, and the empty list has none.
LEMMA ListMembers ==
  ASSUME NEW X, NEW s \in Seq(X)
  PROVE  /\ ToSet(s) \subseteq X /\ ToSet(<<>>) = {} /\ <<>> \in Seq(X)
         /\ ToSet(s) = {s[i] : i \in 1..Len(s)}
         /\ IsFiniteSet(ToSet(s)) /\ Cardinality(ToSet(s)) <= Len(s)
<1>1. DOMAIN s = 1..Len(s) /\ Len(s) \in Nat /\ \A i \in 1..Len(s) : s[i] \in X
  OBVIOUS
<1>2. s \in Surjection(1..Len(s), ToSet(s))
  BY <1>1 DEF Surjection, ToSet
<1>3. IsFiniteSet(1..Len(s)) /\ Cardinality(1..Len(s)) = Len(s)
  <2>1. 1 \in Int /\ Len(s) \in Int
    BY <1>1
  <2>2. /\ IsFiniteSet(1..Len(s))
        /\ Cardinality(1..Len(s)) = IF 1 > Len(s) THEN 0 ELSE Len(s) - 1 + 1
    BY ONLY <2>1, FS_Interval
  <2> QED
    BY <1>1, <2>2
<1>4. IsFiniteSet(ToSet(s)) /\ Cardinality(ToSet(s)) <= Len(s)
  BY <1>2, <1>3, FS_Surjection
<1> QED
  BY <1>1, <1>4 DEF ToSet

\* Filtering a list appends those of its members that are wanted.
LEMMA HitsAreAppended ==
  ASSUME NEW X, NEW rows \in Seq(X), NEW s \in Seq(X), NEW hits
  PROVE  WithHits(rows, s, hits) \in Seq(X) /\ ToSet(WithHits(rows, s, hits)) = ToSet(rows) \cup (ToSet(s) \cap hits)
<1> DEFINE D == 1..Len(s)
           R == Seq(X)
           latest == [T \in SUBSET D |-> Max(T)]
           step == [p \in D \X R |-> AppendHit(p[2], s[p[1]], hits)]
           IsPass(h) == h = [T \in SUBSET D |-> IF T = {} THEN rows
                               ELSE AppendHit(h[T \ {Max(T)}], s[Max(T)], hits)]
           pass == CHOOSE h : IsPass(h)
           Done(l, k) == l \in R /\ ToSet(l) = ToSet(rows) \cup ({s[i] : i \in 1..k} \cap hits)
<1>1. Len(s) \in Nat /\ DOMAIN s = D /\ \A i \in D : s[i] \in X
  OBVIOUS
<1>2. \A T \in (SUBSET D) \ {{}} : latest[T] = Max(T) /\ Max(T) \in T
  BY <1>1, LatestPosition
<1>3. ASSUME NEW l \in R, NEW i \in D
      PROVE  AppendHit(l, s[i], hits) \in R /\ ToSet(AppendHit(l, s[i], hits)) = ToSet(l) \cup ({s[i]} \cap hits)
  <2>1. s[i] \in X
    BY <1>1
  <2> QED
    BY <2>1, Appended DEF AppendHit
<1>4. step \in [D \X R -> R]
  <2>1. \A i \in D, l \in R : AppendHit(l, s[i], hits) \in R
    BY <1>3
  <2> HIDE DEF R
  <2> QED
    BY <2>1
<1>5. \E h : IsPass(h)
  <2>1. PICK h \in [SUBSET D -> R] : IsFold(h, D, rows, step, latest)
    <3>1. rows \in R /\ IsFiniteSet(D)
      BY <1>1, FS_Interval
    <3>2. \A T \in (SUBSET D) \ {{}} : latest[T] \in T
      BY <1>2
    <3> HIDE DEF step, latest, R, D
    <3> QED
      BY <1>4, <3>1, <3>2, FoldExists
  <2>2. ASSUME NEW T \in (SUBSET D) \ {{}}
        PROVE  step[<<latest[T], h[T \ {latest[T]}]>>] = AppendHit(h[T \ {Max(T)}], s[Max(T)], hits)
    <3>1. latest[T] = Max(T) /\ Max(T) \in D /\ h[T \ {Max(T)}] \in R
      BY <1>2, <2>1
    <3> HIDE DEF R, D, latest
    <3> QED
      BY <3>1
  <2>3. IsPass(h)
    <3> HIDE DEF step, latest, R
    <3> QED
      BY <2>1, <2>2 DEF IsFold
  <2> QED
    BY <2>3
<1>6. IsPass(pass)
  <2> HIDE DEF IsPass
  <2> QED
    BY <1>5
<1>7. WithHits(rows, s, hits) = pass[D]
  BY <1>1 DEF WithHits, FoldLeft, MapThenFoldSet
<1>8. Done(pass[1..0], 0)
  <2>1. 1..0 = {}
    OBVIOUS
  <2>2. ASSUME NEW h, IsPass(h) PROVE h[{}] = rows
    BY <2>2
  <2>3. pass[1..0] = rows
    <3> HIDE DEF pass, IsPass
    <3> QED
      BY <1>6, <2>1, <2>2
  <2> HIDE DEF pass
  <2> QED
    BY <2>1, <2>3
<1>9. ASSUME NEW k \in 0..(Len(s) - 1), Done(pass[1..k], k)
      PROVE  Done(pass[1..(k + 1)], k + 1)
  <2>1. /\ 1..(k + 1) \in (SUBSET D) \ {{}} /\ k + 1 \in D
        /\ (1..(k + 1)) \ {k + 1} = 1..k /\ 1..(k + 1) = (1..k) \cup {k + 1}
    BY <1>1
  <2>2. Max(1..(k + 1)) = k + 1
    BY <1>1, <2>1, LatestPosition
  <2>3. ASSUME NEW h, IsPass(h)
        PROVE  h[1..(k + 1)] = AppendHit(h[1..k], s[k + 1], hits)
    BY <2>1, <2>2, <2>3
  <2> DEFINE l == pass[1..k]
  <2>4. pass[1..(k + 1)] = AppendHit(l, s[k + 1], hits)
    <3> HIDE DEF pass, IsPass
    <3> QED
      BY <1>6, <2>3
  <2> HIDE DEF pass, l
  <2>5. l \in R /\ ToSet(l) = ToSet(rows) \cup ({s[i] : i \in 1..k} \cap hits)
    BY <1>9 DEF l
  <2>6. ToSet(pass[1..(k + 1)]) = ToSet(l) \cup ({s[k + 1]} \cap hits) /\ pass[1..(k + 1)] \in R
    <3>1. AppendHit(l, s[k + 1], hits) \in R /\ ToSet(AppendHit(l, s[k + 1], hits)) = ToSet(l) \cup ({s[k + 1]} \cap hits)
      <4> HIDE DEF R, D
      <4> QED
        BY <1>3, <2>1, <2>5
    <3> QED
      BY <2>4, <3>1
  <2> HIDE DEF R
  <2> QED
    BY <2>1, <2>5, <2>6
<1>10. Done(pass[D], Len(s))
  <2> DEFINE B == {k \in 0..Len(s) : Done(pass[1..k], k)}
  <2>1. 0 \in B
    <3>1. 0 \in 0..Len(s)
      BY <1>1
    <3> HIDE DEF Done, pass
    <3> QED
      BY <1>8, <3>1
  <2>2. \A k \in 0..(Len(s) - 1) : k \in B => k + 1 \in B
    <3> HIDE DEF pass, Done
    <3> QED
      BY <1>1, <1>9
  <2>3. 0..Len(s) \subseteq B
    <3> HIDE DEF B
    <3> QED
      BY <1>1, <2>1, <2>2, UpTo
  <2>4. Len(s) \in 0..Len(s)
    BY <1>1
  <2> HIDE DEF Done, pass
  <2> QED
    BY <2>3, <2>4
<1>11. {s[i] : i \in 1..Len(s)} = ToSet(s)
  BY <1>1 DEF ToSet
<1> HIDE DEF pass
<1> QED
  BY <1>7, <1>10, <1>11

\* Appending what is not yet there leaves a list that holds both lists.
LEMMA NewAreAppended ==
  ASSUME NEW X, NEW rows \in Seq(X), NEW s \in Seq(X)
  PROVE  WithNew(rows, s) \in Seq(X) /\ ToSet(WithNew(rows, s)) = ToSet(rows) \cup ToSet(s)
<1> DEFINE D == 1..Len(s)
           R == Seq(X)
           latest == [T \in SUBSET D |-> Max(T)]
           step == [p \in D \X R |-> AppendNew(p[2], s[p[1]])]
           IsPass(h) == h = [T \in SUBSET D |-> IF T = {} THEN rows
                               ELSE AppendNew(h[T \ {Max(T)}], s[Max(T)])]
           pass == CHOOSE h : IsPass(h)
           Done(l, k) == l \in R /\ ToSet(l) = ToSet(rows) \cup {s[i] : i \in 1..k}
<1>1. Len(s) \in Nat /\ DOMAIN s = D /\ \A i \in D : s[i] \in X
  OBVIOUS
<1>2. \A T \in (SUBSET D) \ {{}} : latest[T] = Max(T) /\ Max(T) \in T
  BY <1>1, LatestPosition
<1>3. ASSUME NEW l \in R, NEW i \in D
      PROVE  AppendNew(l, s[i]) \in R /\ ToSet(AppendNew(l, s[i])) = ToSet(l) \cup {s[i]}
  <2>1. s[i] \in X
    BY <1>1
  <2> QED
    BY <2>1, Appended DEF AppendNew
<1>4. step \in [D \X R -> R]
  <2>1. \A i \in D, l \in R : AppendNew(l, s[i]) \in R
    BY <1>3
  <2> HIDE DEF R
  <2> QED
    BY <2>1
<1>5. \E h : IsPass(h)
  <2>1. PICK h \in [SUBSET D -> R] : IsFold(h, D, rows, step, latest)
    <3>1. rows \in R /\ IsFiniteSet(D)
      BY <1>1, FS_Interval
    <3>2. \A T \in (SUBSET D) \ {{}} : latest[T] \in T
      BY <1>2
    <3> HIDE DEF step, latest, R, D
    <3> QED
      BY <1>4, <3>1, <3>2, FoldExists
  <2>2. ASSUME NEW T \in (SUBSET D) \ {{}}
        PROVE  step[<<latest[T], h[T \ {latest[T]}]>>] = AppendNew(h[T \ {Max(T)}], s[Max(T)])
    <3>1. latest[T] = Max(T) /\ Max(T) \in D /\ h[T \ {Max(T)}] \in R
      BY <1>2, <2>1
    <3> HIDE DEF R, D, latest
    <3> QED
      BY <3>1
  <2>3. IsPass(h)
    <3> HIDE DEF step, latest, R
    <3> QED
      BY <2>1, <2>2 DEF IsFold
  <2> QED
    BY <2>3
<1>6. IsPass(pass)
  <2> HIDE DEF IsPass
  <2> QED
    BY <1>5
<1>7. WithNew(rows, s) = pass[D]
  BY <1>1 DEF WithNew, FoldLeft, MapThenFoldSet
<1>8. Done(pass[1..0], 0)
  <2>1. 1..0 = {}
    OBVIOUS
  <2>2. ASSUME NEW h, IsPass(h) PROVE h[{}] = rows
    BY <2>2
  <2>3. pass[1..0] = rows
    <3> HIDE DEF pass, IsPass
    <3> QED
      BY <1>6, <2>1, <2>2
  <2> HIDE DEF pass
  <2> QED
    BY <2>1, <2>3
<1>9. ASSUME NEW k \in 0..(Len(s) - 1), Done(pass[1..k], k)
      PROVE  Done(pass[1..(k + 1)], k + 1)
  <2>1. /\ 1..(k + 1) \in (SUBSET D) \ {{}} /\ k + 1 \in D
        /\ (1..(k + 1)) \ {k + 1} = 1..k /\ 1..(k + 1) = (1..k) \cup {k + 1}
    BY <1>1
  <2>2. Max(1..(k + 1)) = k + 1
    BY <1>1, <2>1, LatestPosition
  <2>3. ASSUME NEW h, IsPass(h)
        PROVE  h[1..(k + 1)] = AppendNew(h[1..k], s[k + 1])
    BY <2>1, <2>2, <2>3
  <2> DEFINE l == pass[1..k]
  <2>4. pass[1..(k + 1)] = AppendNew(l, s[k + 1])
    <3> HIDE DEF pass, IsPass
    <3> QED
      BY <1>6, <2>3
  <2> HIDE DEF pass, l
  <2>5. l \in R /\ ToSet(l) = ToSet(rows) \cup {s[i] : i \in 1..k}
    BY <1>9 DEF l
  <2>6. ToSet(pass[1..(k + 1)]) = ToSet(l) \cup {s[k + 1]} /\ pass[1..(k + 1)] \in R
    <3>1. AppendNew(l, s[k + 1]) \in R /\ ToSet(AppendNew(l, s[k + 1])) = ToSet(l) \cup {s[k + 1]}
      <4> HIDE DEF R, D
      <4> QED
        BY <1>3, <2>1, <2>5
    <3> QED
      BY <2>4, <3>1
  <2> HIDE DEF R
  <2> QED
    BY <2>1, <2>5, <2>6
<1>10. Done(pass[D], Len(s))
  <2> DEFINE B == {k \in 0..Len(s) : Done(pass[1..k], k)}
  <2>1. 0 \in B
    <3>1. 0 \in 0..Len(s)
      BY <1>1
    <3> HIDE DEF Done, pass
    <3> QED
      BY <1>8, <3>1
  <2>2. \A k \in 0..(Len(s) - 1) : k \in B => k + 1 \in B
    <3> HIDE DEF pass, Done
    <3> QED
      BY <1>1, <1>9
  <2>3. 0..Len(s) \subseteq B
    <3> HIDE DEF B
    <3> QED
      BY <1>1, <2>1, <2>2, UpTo
  <2>4. Len(s) \in 0..Len(s)
    BY <1>1
  <2> HIDE DEF Done, pass
  <2> QED
    BY <2>3, <2>4
<1>11. {s[i] : i \in 1..Len(s)} = ToSet(s)
  BY <1>1 DEF ToSet
<1> HIDE DEF pass
<1> QED
  BY <1>7, <1>10, <1>11

IsFile(f) ==
  /\ f.entities \in Seq(DOMAIN EntityOf)
  /\ f.events \in Seq(DOMAIN EventOf)
  /\ f.rels \in Seq(DOMAIN RelOf)

\* What meets an entity: the relationships that leave and those that enter it.
LEMMA RelsMeet ==
  ASSUME NEW f, IsFile(f), NEW q, NEW e
  PROVE  /\ RelsAt(f, e, q) \in Seq(DOMAIN RelOf)
         /\ ToSet(RelsAt(f, e, q)) = Leaving(f, e, q) \cup Entering(f, e, q)
<1> DEFINE X == DOMAIN RelOf
           none == <<>>
           out == WithHits(none, f.rels, Leaving(f, e, q))
<1>0. f.rels \in Seq(X)
  BY DEF IsFile
<1> HIDE DEF X
<1>1. none \in Seq(X) /\ ToSet(none) = {}
  BY <1>0, ListMembers
<1>2. /\ out \in Seq(X)
      /\ ToSet(out) = ToSet(none) \cup (ToSet(f.rels) \cap Leaving(f, e, q))
  <2> HIDE DEF none
  <2> QED
    BY <1>0, <1>1, HitsAreAppended
<1>3. /\ WithHits(out, f.rels, Entering(f, e, q)) \in Seq(X)
      /\ ToSet(WithHits(out, f.rels, Entering(f, e, q)))
           = ToSet(out) \cup (ToSet(f.rels) \cap Entering(f, e, q))
  <2> HIDE DEF out
  <2> QED
    BY <1>0, <1>2, HitsAreAppended
<1>4. Leaving(f, e, q) \subseteq ToSet(f.rels) /\ Entering(f, e, q) \subseteq ToSet(f.rels)
  BY DEF Leaving, Entering
<1> QED
  BY <1>1, <1>2, <1>3, <1>4 DEF RelsAt, X

AllAt(f, q, ns) == UNION {ToSet(RelsAt(f, n, q)) : n \in ns}

\* The second hop appends the relationships of every neighbour.
LEMMA AllAreFollowed ==
  ASSUME NEW f, IsFile(f), NEW q, NEW rels \in Seq(DOMAIN RelOf), NEW Y, NEW order \in Seq(Y)
  PROVE  /\ FollowAll(f, rels, order, q) \in Seq(DOMAIN RelOf)
         /\ ToSet(FollowAll(f, rels, order, q)) = ToSet(rels) \cup AllAt(f, q, ToSet(order))
<1> DEFINE D == 1..Len(order)
           X == DOMAIN RelOf
           R == Seq(X)
           latest == [T \in SUBSET D |-> Max(T)]
           step == [p \in D \X R |-> WithNew(p[2], RelsAt(f, order[p[1]], q))]
           IsPass(h) == h = [T \in SUBSET D |-> IF T = {} THEN rels
                               ELSE WithNew(h[T \ {Max(T)}], RelsAt(f, order[Max(T)], q))]
           pass == CHOOSE h : IsPass(h)
           Done(l, k) == l \in R /\ ToSet(l) = ToSet(rels) \cup (UNION {ToSet(RelsAt(f, order[i], q)) : i \in 1..k})
<1>1. Len(order) \in Nat /\ DOMAIN order = D /\ \A i \in D : order[i] \in Y
  OBVIOUS
<1>2. \A T \in (SUBSET D) \ {{}} : latest[T] = Max(T) /\ Max(T) \in T
  BY <1>1, LatestPosition
<1>3. ASSUME NEW l \in R, NEW i \in D
      PROVE  WithNew(l, RelsAt(f, order[i], q)) \in R /\ ToSet(WithNew(l, RelsAt(f, order[i], q))) = ToSet(l) \cup ToSet(RelsAt(f, order[i], q))
  <2>1. RelsAt(f, order[i], q) \in Seq(X)
    BY RelsMeet
  <2> QED
    BY <2>1, NewAreAppended
<1>4. step \in [D \X R -> R]
  <2>1. \A i \in D, l \in R : WithNew(l, RelsAt(f, order[i], q)) \in R
    BY <1>3
  <2> HIDE DEF R
  <2> QED
    BY <2>1
<1>5. \E h : IsPass(h)
  <2>1. PICK h \in [SUBSET D -> R] : IsFold(h, D, rels, step, latest)
    <3>1. rels \in R /\ IsFiniteSet(D)
      BY <1>1, FS_Interval
    <3>2. \A T \in (SUBSET D) \ {{}} : latest[T] \in T
      BY <1>2
    <3> HIDE DEF step, latest, R, D
    <3> QED
      BY <1>4, <3>1, <3>2, FoldExists
  <2>2. ASSUME NEW T \in (SUBSET D) \ {{}}
        PROVE  step[<<latest[T], h[T \ {latest[T]}]>>] = WithNew(h[T \ {Max(T)}], RelsAt(f, order[Max(T)], q))
    <3>1. latest[T] = Max(T) /\ Max(T) \in D /\ h[T \ {Max(T)}] \in R
      BY <1>2, <2>1
    <3> HIDE DEF R, D, latest
    <3> QED
      BY <3>1
  <2>3. IsPass(h)
    <3> HIDE DEF step, latest, R
    <3> QED
      BY <2>1, <2>2 DEF IsFold
  <2> QED
    BY <2>3
<1>6. IsPass(pass)
  <2> HIDE DEF IsPass
  <2> QED
    BY <1>5
<1>7. FollowAll(f, rels, order, q) = pass[D]
  BY <1>1 DEF FollowAll, FoldLeft, MapThenFoldSet
<1>8. Done(pass[1..0], 0)
  <2>1. 1..0 = {}
    OBVIOUS
  <2>2. ASSUME NEW h, IsPass(h) PROVE h[{}] = rels
    BY <2>2
  <2>3. pass[1..0] = rels
    <3> HIDE DEF pass, IsPass
    <3> QED
      BY <1>6, <2>1, <2>2
  <2> HIDE DEF pass
  <2> QED
    BY <2>1, <2>3
<1>9. ASSUME NEW k \in 0..(Len(order) - 1), Done(pass[1..k], k)
      PROVE  Done(pass[1..(k + 1)], k + 1)
  <2>1. /\ 1..(k + 1) \in (SUBSET D) \ {{}} /\ k + 1 \in D
        /\ (1..(k + 1)) \ {k + 1} = 1..k /\ 1..(k + 1) = (1..k) \cup {k + 1}
    BY <1>1
  <2>2. Max(1..(k + 1)) = k + 1
    BY <1>1, <2>1, LatestPosition
  <2>3. ASSUME NEW h, IsPass(h)
        PROVE  h[1..(k + 1)] = WithNew(h[1..k], RelsAt(f, order[k + 1], q))
    BY <2>1, <2>2, <2>3
  <2> DEFINE l == pass[1..k]
  <2>4. pass[1..(k + 1)] = WithNew(l, RelsAt(f, order[k + 1], q))
    <3> HIDE DEF pass, IsPass
    <3> QED
      BY <1>6, <2>3
  <2> HIDE DEF pass, l
  <2>5. l \in R /\ ToSet(l) = ToSet(rels) \cup (UNION {ToSet(RelsAt(f, order[i], q)) : i \in 1..k})
    BY <1>9 DEF l
  <2>6. ToSet(pass[1..(k + 1)]) = ToSet(l) \cup ToSet(RelsAt(f, order[k + 1], q)) /\ pass[1..(k + 1)] \in R
    <3>1. WithNew(l, RelsAt(f, order[k + 1], q)) \in R /\ ToSet(WithNew(l, RelsAt(f, order[k + 1], q))) = ToSet(l) \cup ToSet(RelsAt(f, order[k + 1], q))
      <4> HIDE DEF R, D
      <4> QED
        BY <1>3, <2>1, <2>5
    <3> QED
      BY <2>4, <3>1
  <2> HIDE DEF R
  <2> QED
    BY <2>1, <2>5, <2>6
<1>10. Done(pass[D], Len(order))
  <2> DEFINE B == {k \in 0..Len(order) : Done(pass[1..k], k)}
  <2>1. 0 \in B
    <3>1. 0 \in 0..Len(order)
      BY <1>1
    <3> HIDE DEF Done, pass
    <3> QED
      BY <1>8, <3>1
  <2>2. \A k \in 0..(Len(order) - 1) : k \in B => k + 1 \in B
    <3> HIDE DEF pass, Done
    <3> QED
      BY <1>1, <1>9
  <2>3. 0..Len(order) \subseteq B
    <3> HIDE DEF B
    <3> QED
      BY <1>1, <2>1, <2>2, UpTo
  <2>4. Len(order) \in 0..Len(order)
    BY <1>1
  <2> HIDE DEF Done, pass
  <2> QED
    BY <2>3, <2>4
<1>11. {ToSet(RelsAt(f, order[i], q)) : i \in 1..Len(order)} = {ToSet(RelsAt(f, n, q)) : n \in ToSet(order)}
  <2>1. ToSet(order) = {order[i] : i \in 1..Len(order)}
    BY <1>1 DEF ToSet
  <2> HIDE DEF D
  <2> QED
    BY <2>1
<1> HIDE DEF pass
<1> QED
  BY <1>7, <1>10, <1>11 DEF AllAt

\* The members of a list that are wanted, and nothing else, are in the filtered list.
LEMMA Filtered ==
  ASSUME NEW X, NEW s \in Seq(X), NEW hits \in SUBSET ToSet(s)
  PROVE  WithHits(<<>>, s, hits) \in Seq(X) /\ ToSet(WithHits(<<>>, s, hits)) = hits
<1> DEFINE none == <<>>
<1>1. none \in Seq(X) /\ ToSet(none) = {}
  BY ListMembers
<1> HIDE DEF none
<1>2. /\ WithHits(none, s, hits) \in Seq(X)
      /\ ToSet(WithHits(none, s, hits)) = ToSet(none) \cup (ToSet(s) \cap hits)
  BY <1>1, HitsAreAppended
<1> QED
  BY <1>1, <1>2 DEF none

\* A page is part of the list, and all of it if the limit admits it.
LEMMA PageHolds ==
  ASSUME NEW X, NEW s \in Seq(X), NEW n \in Int
  PROVE  Page(s, n) \subseteq ToSet(s) /\ (n >= Len(s) => Page(s, n) = ToSet(s))
<1> DEFINE m == IF n >= 0 THEN Min({n, Len(s)}) ELSE Len(s) + n
<1>1. Len(s) \in Nat
  OBVIOUS
<1>2. m \in Int /\ m <= Len(s) /\ (n >= Len(s) => m = Len(s))
  <2> DEFINE length == Len(s)
             least == Min({n, length})
  <2>1. n \in Int /\ length \in Int /\ length \in Nat
    BY <1>1
  <2> HIDE DEF length, m
  <2>2. least \in {n, length} /\ least <= n /\ least <= length
    BY ONLY <2>1, SmallerOne
  <2> HIDE DEF least
  <2>3. n >= length => n >= 0 /\ least = length
    BY <2>1, <2>2
  <2> QED
    BY <2>1, <2>2, <2>3 DEF least, length, m
<1>3. Page(s, n) = ToSet(SubSeq(s, 1, m))
  BY DEF Page
<1> HIDE DEF m
<1>4. ToSet(SubSeq(s, 1, m)) \subseteq ToSet(s)
  BY <1>2 DEF ToSet
<1>5. SubSeq(s, 1, Len(s)) = s
  OBVIOUS
<1> QED
  BY <1>2, <1>3, <1>4, <1>5

\* A limit that was accepted is a positive number, and at most the greatest one.
LEMMA LimitHolds ==
  ASSUME NEW n \in Int \cup {UNSET}, ValidLimit(n), NEW default \in Nat \ {0}, NEW max \in Nat \ {0}
  PROVE  Clamp(n, default, max) \in Nat \ {0}
<1>1. CASE n = UNSET
  BY <1>1 DEF Clamp
<1>2. CASE n # UNSET
  <2>1. n \in Int /\ n >= 1
    BY <1>2 DEF ValidLimit
  <2>2. n \in Int /\ max \in Int
    BY <2>1
  <2>3. Min({n, max}) \in {n, max}
    BY ONLY <2>2, SmallerOne
  <2> QED
    BY <1>2, <2>1, <2>3 DEF Clamp
<1> QED
  BY <1>1, <1>2

-----------------------------------------------------------------------------
(***************************************************************************)
(* Answers.                                                                *)
(***************************************************************************)
\* A search of entities answers hits, and all of them unless the answer is full.
LEMMA EntitiesFound ==
  ASSUME NEW f, IsFile(f), NEW word, NEW types, NEW kinds, NEW n \in Int, NEW a,
         a = FindEntities(f, word, types, kinds, n)
  PROVE  /\ a.entities \subseteq EntityHits(f, word, types, kinds)
         /\ a.full \/ a.entities = EntityHits(f, word, types, kinds)
         /\ a.ok /\ a.events = {} /\ a.rels = {} /\ a.full \in BOOLEAN
<1> DEFINE found == EntityHits(f, word, types, kinds)
           list == WithHits(<<>>, f.entities, found)
           X == DOMAIN EntityOf
<1>1. f.entities \in Seq(X)
  BY DEF IsFile
<1>2. found \in SUBSET ToSet(f.entities)
  BY DEF EntityHits, Known
<1> HIDE DEF X, found
<1>3. list \in Seq(X) /\ ToSet(list) = found
  BY <1>1, <1>2, Filtered
<1> HIDE DEF list
<1>4. /\ Len(list) \in Nat /\ Page(list, n) \subseteq found
      /\ (Len(list) >= n) \/ Page(list, n) = found
  BY <1>3, PageHolds
<1> DEFINE full == Len(list) >= n
<1>5. a = Answer(Page(list, n), {}, {}, full)
  BY DEF FindEntities, list, found
<1>6. full \in BOOLEAN /\ (full \/ Page(list, n) = found)
  BY <1>4
<1> HIDE DEF full
<1>7. /\ a.entities = Page(list, n) /\ a.full = full
      /\ a.ok = TRUE /\ a.events = {} /\ a.rels = {}
  BY <1>5 DEF Answer
<1> QED
  BY <1>4, <1>6, <1>7 DEF found

\* A search of events answers hits, all of them unless the answer is full, and with
\* them what the file knows of their actors and targets.
LEMMA EventsFound ==
  ASSUME NEW f, IsFile(f), NEW q, NEW n \in Int, NEW a, a = FindEvents(f, q, n)
  PROVE  /\ a.events \subseteq EventHits(f, q) /\ (a.full \/ a.events = EventHits(f, q))
         /\ a.entities = EntitiesOf(f, a.events)
         /\ a.ok /\ a.rels = {} /\ a.full \in BOOLEAN
<1> DEFINE found == EventHits(f, q)
           list == Matching(f, q, n)
           X == DOMAIN EventOf
<1>1. f.events \in Seq(X)
  BY DEF IsFile
<1>2. found \in SUBSET ToSet(f.events)
  BY DEF EventHits
<1>3. list = WithHits(<<>>, f.events, found)
  BY DEF Matching
<1> HIDE DEF X, found, list
<1>4. list \in Seq(X) /\ ToSet(list) = found
  BY <1>1, <1>2, <1>3, Filtered
<1>5. /\ Len(list) \in Nat /\ Page(list, n) \subseteq found
      /\ (Len(list) >= n) \/ Page(list, n) = found
  BY <1>4, PageHolds
<1> DEFINE full == Len(list) >= n
<1>6. a = Answer(EntitiesOf(f, Page(list, n)), Page(list, n), {}, full)
  BY DEF FindEvents, list
<1>7. full \in BOOLEAN /\ (full \/ Page(list, n) = found)
  BY <1>5
<1> HIDE DEF full
<1>8. /\ a.events = Page(list, n) /\ a.full = full
      /\ a.entities = EntitiesOf(f, Page(list, n)) /\ a.ok = TRUE /\ a.rels = {}
  BY <1>6 DEF Answer
<1> QED
  BY <1>5, <1>7, <1>8 DEF found

\* What meets e, who is met there, and what a traversal meets in all.
At(f, e, q) == Leaving(f, e, q) \cup Entering(f, e, q)
Hop(f, e, q) == Others(At(f, e, q), e)
Met(f, q) ==
  (IF q.depth >= 2
   THEN (Hop(f, q.start, q) \cup (UNION {Hop(f, m, q) : m \in Hop(f, q.start, q)})) \ {q.start}
   ELSE Hop(f, q.start, q)) \cap Known(f)
Passed(f, q) ==
  IF q.depth >= 2
  THEN At(f, q.start, q) \cup (UNION {At(f, m, q) : m \in Hop(f, q.start, q)})
  ELSE At(f, q.start, q)

\* The entities one step away are finitely many.
LEMMA HopIsFinite ==
  ASSUME NEW f, IsFile(f), NEW q, NEW e
  PROVE  IsFiniteSet(Hop(f, e, q))
<1> DEFINE rels == At(f, e, q)
           from == [r \in rels |-> RelOf[r].from]
           to == [r \in rels |-> RelOf[r].to]
<1>1. IsFiniteSet(ToSet(f.rels))
  BY ListMembers DEF IsFile
<1>2. IsFiniteSet(rels)
  <2>1. rels \subseteq ToSet(f.rels)
    BY DEF At, Leaving, Entering
  <2> QED
    BY <1>1, <2>1, FS_Subset
<1> HIDE DEF rels
<1>3. IsFiniteSet({from[r] : r \in rels}) /\ IsFiniteSet({to[r] : r \in rels})
  <2>1. /\ from \in Surjection(rels, {from[r] : r \in rels})
        /\ to \in Surjection(rels, {to[r] : r \in rels})
    BY DEF Surjection
  <2> HIDE DEF from, to
  <2> QED
    BY <1>2, <2>1, FS_Surjection
<1>4. IsFiniteSet({from[r] : r \in rels} \cup {to[r] : r \in rels})
  <2> HIDE DEF from, to
  <2> QED
    BY <1>3, FS_Union
<1>5. Hop(f, e, q) \subseteq {from[r] : r \in rels} \cup {to[r] : r \in rels}
  BY DEF Hop, Others, rels
<1> QED
  <2> HIDE DEF from, to
  <2> QED
    BY <1>4, <1>5, FS_Subset

\* An order of a finite set has all of its members.
LEMMA OrderIsOnto ==
  ASSUME NEW S, IsFiniteSet(S), NEW o \in SetToSeqs(S)
  PROVE  o \in Seq(S) /\ ToSet(o) = S
<1> DEFINE n == Cardinality(S)
<1>1. n \in Nat
  BY FS_CardinalityType
<1>2. o \in [1..n -> S] /\ \A i, j \in 1..n : i # j => o[i] # o[j]
  BY DEF SetToSeqs
<1> HIDE DEF n
<1>3. o \in Injection(1..n, S)
  BY <1>2 DEF Injection, IsInjective
<1>4. Cardinality(1..n) = n
  <2>1. 1 \in Int /\ n \in Int
    BY <1>1
  <2>2. Cardinality(1..n) = IF 1 > n THEN 0 ELSE n - 1 + 1
    BY ONLY <2>1, FS_Interval
  <2> QED
    BY <1>1, <2>2
<1>5. o \in Surjection(1..n, S)
  BY <1>3, <1>4, FS_Injection DEF n
<1>6. o \in Seq(S) /\ DOMAIN o = 1..n
  BY <1>1, <1>2
<1> QED
  BY <1>5, <1>6 DEF Surjection, ToSet

\* A traversal answers what it met, and all of it unless the answer is full, in
\* whichever order the neighbours were taken.
LEMMA NeighborsFound ==
  ASSUME NEW f, IsFile(f), NEW q, NEW n \in Nat \ {0}, NEW a \in FindNeighbors(f, q, n)
  PROVE  /\ a.entities \subseteq Met(f, q) /\ a.rels \subseteq Passed(f, q)
         /\ a.full \/ (a.entities = Met(f, q) /\ a.rels = Passed(f, q))
         /\ a.ok /\ a.events = {} /\ a.full \in BOOLEAN
<1> DEFINE X == DOMAIN RelOf
           near == RelsAt(f, q.start, q)
           hop1 == Others(ToSet(near), q.start)
           hop2 == hop1 \cup (UNION {Others(ToSet(RelsAt(f, m, q)), m) : m \in hop1})
           ids == (IF q.depth >= 2 THEN hop2 \ {q.start} ELSE hop1) \cap Known(f)
           lists == IF q.depth >= 2 THEN {FollowAll(f, near, o, q) : o \in SetToSeqs(hop1)}
                    ELSE {near}
           full(rels) == Cardinality(ids) >= n \/ Len(rels) >= n
<1>1. \A e : RelsAt(f, e, q) \in Seq(X) /\ ToSet(RelsAt(f, e, q)) = At(f, e, q)
  BY RelsMeet DEF IsFile, At
<1>2. PICK es \in kSubset(Min({n, Cardinality(ids)}), ids), rels \in lists :
        a = Answer(es, {}, Page(rels, n), full(rels))
  <2>1. FindNeighbors(f, q, n) =
          {Answer(es, {}, Page(rels, n), full(rels)) :
             es \in kSubset(Min({n, Cardinality(ids)}), ids), rels \in lists}
    BY DEF FindNeighbors
  <2> HIDE DEF full, ids, lists
  <2> QED
    BY <2>1
<1>3. /\ a.entities = es /\ a.rels = Page(rels, n) /\ a.full = full(rels)
      /\ a.ok = TRUE /\ a.events = {}
  <2> HIDE DEF full, ids, lists
  <2> QED
    BY <1>2 DEF Answer
<1>4. hop1 = Hop(f, q.start, q)
  BY <1>1 DEF Hop
<1>5. ids = Met(f, q)
  <2>1. \A m : Others(ToSet(RelsAt(f, m, q)), m) = Hop(f, m, q)
    BY <1>1 DEF Hop
  <2> HIDE DEF hop1
  <2>2. hop2 = Hop(f, q.start, q) \cup (UNION {Hop(f, m, q) : m \in Hop(f, q.start, q)})
    BY <1>4, <2>1
  <2> HIDE DEF hop2
  <2> QED
    BY <1>4, <2>2 DEF Met
<1>6. IsFiniteSet(ids) /\ Cardinality(ids) \in Nat
  <2>1. IsFiniteSet(Known(f))
    BY ListMembers DEF Known, IsFile
  <2>2. ids \subseteq Known(f)
    OBVIOUS
  <2> HIDE DEF ids
  <2> QED
    BY <2>1, <2>2, FS_Subset, FS_CardinalityType
<1>7. rels \in Seq(X) /\ ToSet(rels) = Passed(f, q)
  <2>1. near \in Seq(X) /\ ToSet(near) = At(f, q.start, q)
    BY <1>1
  <2>2. CASE q.depth >= 2
    <3>1. PICK o \in SetToSeqs(hop1) : rels = FollowAll(f, near, o, q)
      <4> HIDE DEF near, hop1
      <4> QED
        BY <1>2, <2>2
    <3>2. IsFiniteSet(hop1)
      <4> HIDE DEF hop1
      <4> QED
        BY <1>4, HopIsFinite
    <3>3. o \in Seq(hop1) /\ ToSet(o) = hop1
      <4> HIDE DEF hop1
      <4> QED
        BY <3>1, <3>2, OrderIsOnto
    <3>4. /\ rels \in Seq(X)
          /\ ToSet(rels) = ToSet(near) \cup AllAt(f, q, ToSet(o))
      <4> HIDE DEF near, hop1, X
      <4>2. /\ FollowAll(f, near, o, q) \in Seq(X)
            /\ ToSet(FollowAll(f, near, o, q)) = ToSet(near) \cup AllAt(f, q, ToSet(o))
        BY <2>1, <3>3, AllAreFollowed DEF X
      <4> QED
        BY <3>1, <4>2
    <3>5. AllAt(f, q, ToSet(o)) = UNION {At(f, m, q) : m \in hop1}
      <4> HIDE DEF hop1
      <4> QED
        BY <1>1, <3>3 DEF AllAt
    <3> HIDE DEF near, hop1
    <3> QED
      BY <1>4, <2>1, <2>2, <3>4, <3>5 DEF Passed
  <2>3. CASE ~ (q.depth >= 2)
    <3>1. rels = near
      <4> HIDE DEF near
      <4> QED
        BY <1>2, <2>3
    <3> HIDE DEF near
    <3> QED
      BY <2>1, <2>3, <3>1 DEF Passed
  <2> QED
    BY <2>2, <2>3
<1> HIDE DEF ids, lists, X
<1> DEFINE size == Cardinality(ids)
           part == Min({n, size})
<1>8. es \subseteq ids /\ Cardinality(es) = part
  BY <1>2 DEF kSubset
<1>9. size >= n \/ es = ids
  <2>1. size \in Nat /\ n \in Int /\ size \in Int
    BY <1>6
  <2> HIDE DEF size
  <2>2. part \in {n, size} /\ part <= n /\ part <= size
    BY ONLY <2>1, SmallerOne
  <2> HIDE DEF part
  <2>3. size >= n \/ part = size
    BY <2>1, <2>2
  <2> QED
    BY <1>6, <1>8, <2>3, FS_Subset DEF size
<1>10. /\ Page(rels, n) \subseteq Passed(f, q)
       /\ Len(rels) >= n \/ Page(rels, n) = Passed(f, q)
  <2>1. Len(rels) \in Nat /\ n \in Int
    BY <1>7
  <2> QED
    BY <1>7, <2>1, PageHolds
<1>11. full(rels) \in BOOLEAN /\ (full(rels) \/ (es = ids /\ Page(rels, n) = Passed(f, q)))
  BY <1>9, <1>10
<1> HIDE DEF full, size, part
<1> QED
  BY <1>3, <1>5, <1>8, <1>10, <1>11

\* The limit of a request does not change what its traversal meets: get_neighbors
\* cuts the depth at 2.
LEMMA SameTraversal ==
  ASSUME NEW f, NEW q, q \in NeighborRequests, NEW s, s = [q EXCEPT !.depth = Min({q.depth, 2})]
  PROVE  Met(f, s) = Met(f, q) /\ Passed(f, s) = Passed(f, q)
<1>1. /\ q.depth \in Int /\ s.start = q.start /\ s.types = q.types /\ s.range = q.range
      /\ s.depth = Min({q.depth, 2})
  BY RequestAssumption
<1>2. s.depth >= 2 <=> q.depth >= 2
  <2>1. q.depth \in Int /\ 2 \in Int
    BY <1>1
  <2>2. /\ Min({q.depth, 2}) \in {q.depth, 2} /\ Min({q.depth, 2}) <= q.depth
        /\ Min({q.depth, 2}) <= 2
    BY ONLY <2>1, SmallerOne
  <2> QED
    BY <1>1, <2>1, <2>2
<1>3. \A r : Wanted(r, s) <=> Wanted(r, q)
  BY <1>1 DEF Wanted
<1>4. \A e : At(f, e, s) = At(f, e, q)
  BY <1>3 DEF At, Leaving, Entering
<1>5. \A e : Hop(f, e, s) = Hop(f, e, q)
  BY <1>4 DEF Hop
<1>6. Met(f, s) = Met(f, q)
  BY <1>1, <1>2, <1>5 DEF Met
<1>7. Passed(f, s) = Passed(f, q)
  <2>1. (UNION {At(f, m, s) : m \in Hop(f, s.start, s)})
          = (UNION {At(f, m, q) : m \in Hop(f, q.start, q)})
    BY <1>1, <1>4, <1>5
  <2> QED
    BY <1>1, <1>2, <1>4, <2>1 DEF Passed
<1> QED
  BY <1>6, <1>7

\* The tool answers what the traversal met, or refuses the request.
LEMMA NeighborsAnswered ==
  ASSUME NEW f, IsFile(f), NEW q \in NeighborRequests, NEW a \in GetNeighbors(f, q), a.ok
  PROVE  /\ a.entities \subseteq Met(f, q) /\ a.rels \subseteq Passed(f, q)
         /\ a.full \/ (a.entities = Met(f, q) /\ a.rels = Passed(f, q))
         /\ a.events = {} /\ a.full \in BOOLEAN
<1> DEFINE s == [q EXCEPT !.depth = Min({q.depth, 2})]
           n == Clamp(q.limit, MaxLimit, MaxLimit)
<1>1. ~ Refused.ok
  BY DEF Refused
<1>2. a \in FindNeighbors(f, s, n) /\ ValidLimit(q.limit)
  BY <1>1 DEF GetNeighbors
<1>3. n \in Nat \ {0}
  <2>1. q.limit \in Int \cup {UNSET} /\ MaxLimit \in Nat \ {0}
    BY RequestAssumption, DomainAssumption
  <2> QED
    BY <1>2, <2>1, LimitHolds
<1>4. Met(f, s) = Met(f, q) /\ Passed(f, s) = Passed(f, q)
  BY SameTraversal
<1> HIDE DEF s, n
<1> QED
  BY <1>2, <1>3, <1>4, NeighborsFound

-----------------------------------------------------------------------------
(***************************************************************************)
(* The inductive invariant.  The properties follow from what an answer is  *)
(* in the terms of the file it came from, and from what a case is made of. *)
(***************************************************************************)
Sound(a, f) == Within(a, f) /\ Referenced(a.events) \cap Known(f) \subseteq a.entities

AnswerInv ==
  answer # NoAnswer =>
    /\ answer.domain \in Domains /\ Sound(answer.is, files[answer.domain])
    /\ answer.tool = "search_events" =>
         /\ answer.asked \in EventRequests
         /\ answer.is = SearchEvents(files[answer.domain], answer.asked)
    /\ answer.tool = "get_neighbors" =>
         /\ answer.asked \in NeighborRequests
         /\ answer.is \in GetNeighbors(files[answer.domain], answer.asked)

CaseInv ==
  /\ case.entities \subseteq UNION {Known(files[d]) : d \in Domains}
  /\ case.events \subseteq DOMAIN EventOf /\ case.rels \subseteq DOMAIN RelOf
  /\ IsFiniteSet(case.entities) /\ IsFiniteSet(case.events) /\ IsFiniteSet(case.rels)
  /\ EventsCanBeFollowed

CorrelationInv == files \in Catalog /\ AnswerInv /\ CaseInv

\* The files of a scenario are files.
LEMMA ScenarioFiles ==
  ASSUME files \in Catalog, NEW d \in Domains
  PROVE  IsFile(files[d])
BY CatalogAssumption DEF IsFile

\* A refusal says nothing.
LEMMA RefusalIsSound ==
  ASSUME NEW f
  PROVE  Sound(Refused, f)
<1>1. Referenced({}) = {}
  BY DEF Referenced
<1> QED
  BY <1>1 DEF Sound, Within, Refused

\* Answers of each kind are from the file and describe what it knows of their events.
LEMMA EntityIsSound ==
  ASSUME NEW f, NEW e
  PROVE  Sound(GetEntity(f, e), f)
<1>1. Referenced({}) = {}
  BY DEF Referenced
<1>2. CASE ValidId(e) /\ e \in Known(f)
  BY <1>1, <1>2 DEF Sound, Within, GetEntity, Answer
<1>3. CASE ~ (ValidId(e) /\ e \in Known(f))
  BY <1>3, RefusalIsSound DEF GetEntity
<1> QED
  BY <1>2, <1>3

\* The same for the hits of a search of entities.
LEMMA EntitiesAreSound ==
  ASSUME NEW f, IsFile(f), NEW word, NEW types, NEW kinds, NEW n \in Int
  PROVE  Sound(FindEntities(f, word, types, kinds, n), f)
<1>1. Referenced({}) = {}
  BY DEF Referenced
<1>2. PICK a : a = FindEntities(f, word, types, kinds, n)
  OBVIOUS
<1>3. /\ a.entities \subseteq EntityHits(f, word, types, kinds)
      /\ a.events = {} /\ a.rels = {}
  BY <1>2, EntitiesFound
<1>4. EntityHits(f, word, types, kinds) \subseteq Known(f)
  BY DEF EntityHits
<1> QED
  BY <1>1, <1>2, <1>3, <1>4 DEF Sound, Within

\* The same for the hits of a search of events.
LEMMA EventsAreSound ==
  ASSUME NEW f, IsFile(f), NEW q, NEW n \in Int
  PROVE  Sound(FindEvents(f, q, n), f)
<1>1. PICK a : a = FindEvents(f, q, n)
  OBVIOUS
<1>2. /\ a.events \subseteq EventHits(f, q) /\ a.entities = EntitiesOf(f, a.events)
      /\ a.rels = {}
  BY <1>1, EventsFound
<1>3. EventHits(f, q) \subseteq ToSet(f.events)
  BY DEF EventHits
<1> QED
  BY <1>1, <1>2, <1>3 DEF Sound, Within, EntitiesOf

\* The same for the neighbours of an entity.
LEMMA NeighborsAreSound ==
  ASSUME NEW f, IsFile(f), NEW q \in NeighborRequests, NEW a \in GetNeighbors(f, q)
  PROVE  Sound(a, f)
<1>1. Referenced({}) = {}
  BY DEF Referenced
<1>2. CASE a.ok
  <2>1. a.entities \subseteq Met(f, q) /\ a.rels \subseteq Passed(f, q) /\ a.events = {}
    BY <1>2, NeighborsAnswered
  <2>2. Met(f, q) \subseteq Known(f)
    BY DEF Met
  <2>3. \A e : At(f, e, q) \subseteq ToSet(f.rels)
    BY DEF At, Leaving, Entering
  <2>4. Passed(f, q) \subseteq ToSet(f.rels)
    BY <2>3 DEF Passed
  <2> QED
    BY <1>1, <2>1, <2>2, <2>4 DEF Sound, Within
<1>3. CASE ~ a.ok
  <2> DEFINE s == [q EXCEPT !.depth = Min({q.depth, 2})]
             n == Clamp(q.limit, MaxLimit, MaxLimit)
  <2>1. a = Refused \/ (a \in FindNeighbors(f, s, n) /\ ValidLimit(q.limit))
    BY DEF GetNeighbors
  <2>2. q.limit \in Int \cup {UNSET} /\ MaxLimit \in Nat \ {0}
    BY RequestAssumption, DomainAssumption
  <2>3. ValidLimit(q.limit) => n \in Nat \ {0}
    BY <2>2, LimitHolds
  <2> HIDE DEF s, n
  <2>4. a = Refused
    BY <1>3, <2>1, <2>3, NeighborsFound
  <2> QED
    BY <2>4, RefusalIsSound
<1> QED
  BY <1>2, <1>3

\* An answer keeps the invariant if it is sound and, where a property speaks of it,
\* what the tool says.
LEMMA ToldKeeps ==
  ASSUME CorrelationInv, NEW tool, NEW d \in Domains, NEW q, NEW a, Told(tool, d, q, a),
         Sound(a, files[d]),
         tool = "search_events" => q \in EventRequests /\ a = SearchEvents(files[d], q),
         tool = "get_neighbors" => q \in NeighborRequests /\ a \in GetNeighbors(files[d], q)
  PROVE  CorrelationInv'
<1>1. /\ answer' = [tool |-> tool, domain |-> d, asked |-> q, is |-> a]
      /\ files' = files /\ case' = case
  BY DEF Told
<1>2. /\ answer'.tool = tool /\ answer'.domain = d /\ answer'.asked = q /\ answer'.is = a
  BY <1>1
<1>3. AnswerInv'
  BY <1>1, <1>2 DEF AnswerInv, Sound, Within, Known
<1>4. CaseInv'
  BY <1>1 DEF CorrelationInv, CaseInv, EventsCanBeFollowed, Known
<1> QED
  BY <1>1, <1>3, <1>4 DEF CorrelationInv

\* Each tool answers soundly.
LEMMA AskKeeps ==
  ASSUME CorrelationInv, Ask
  PROVE  CorrelationInv'
<1>1. files \in Catalog /\ "identity" \in Domains
  BY CatalogAssumption DEF CorrelationInv
<1>2. \A d \in Domains : IsFile(files[d])
  BY <1>1, ScenarioFiles
<1>3. {MaxLimit, MaxFound, DefaultFound, MaxPrincipals} \subseteq Nat \ {0}
  BY DomainAssumption
<1>4. ASSUME NEW d \in Domains, AskEntity(d) PROVE CorrelationInv'
  <2>1. PICK e : Told("get_entity", d, e, GetEntity(files[d], e))
    BY <1>4 DEF AskEntity
  <2>2. Sound(GetEntity(files[d], e), files[d])
    BY EntityIsSound
  <2> QED
    BY <2>1, <2>2, ToldKeeps
<1>5. ASSUME NEW d \in Domains, AskEntities(d) PROVE CorrelationInv'
  <2>1. PICK word \in Words, types \in Types, kinds \in Kinds, n \in Limits :
          Told("search_entities", d, [word |-> word, types |-> types],
               SearchEntities(files[d], word, types, kinds, n))
    BY <1>5 DEF AskEntities
  <2>2. Sound(SearchEntities(files[d], word, types, kinds, n), files[d])
    <3>1. CASE ValidLimit(n)
      <4>1. n \in Int \cup {UNSET}
        BY RequestAssumption
      <4>2. Clamp(n, DefaultFound, MaxFound) \in Int
        BY <1>3, <3>1, <4>1, LimitHolds
      <4> QED
        BY <1>2, <3>1, <4>2, EntitiesAreSound DEF SearchEntities
    <3>2. CASE ~ ValidLimit(n)
      BY <3>2, RefusalIsSound DEF SearchEntities
    <3> QED
      BY <3>1, <3>2
  <2> QED
    BY <2>1, <2>2, ToldKeeps
<1>6. ASSUME NEW d \in Domains, AskEvents(d) PROVE CorrelationInv'
  <2>1. PICK q \in EventRequests : Told("search_events", d, q, SearchEvents(files[d], q))
    BY <1>6 DEF AskEvents
  <2>2. Sound(SearchEvents(files[d], q), files[d])
    <3>1. CASE ValidRange(q.range) /\ ValidLimit(q.limit)
      <4>1. q.limit \in Int \cup {UNSET} /\ ValidLimit(q.limit) /\ MaxLimit \in Nat \ {0}
        BY <1>3, <3>1, RequestAssumption
      <4>2. Clamp(q.limit, MaxLimit, MaxLimit) \in Nat \ {0}
        BY ONLY <4>1, LimitHolds
      <4> QED
        BY <1>2, <3>1, <4>2, EventsAreSound DEF SearchEvents
    <3>2. CASE ~ (ValidRange(q.range) /\ ValidLimit(q.limit))
      BY <3>2, RefusalIsSound DEF SearchEvents
    <3> QED
      BY <3>1, <3>2
  <2> QED
    BY <2>1, <2>2, ToldKeeps
<1>7. ASSUME NEW d \in Domains, AskNeighbors(d) PROVE CorrelationInv'
  <2>0. PICK q \in NeighborRequests :
          \E a \in GetNeighbors(files[d], q) : Told("get_neighbors", d, q, a)
    BY <1>7 DEF AskNeighbors
  <2>1. PICK a \in GetNeighbors(files[d], q) : Told("get_neighbors", d, q, a)
    BY <2>0
  <2>2. Sound(a, files[d])
    BY <1>2, NeighborsAreSound
  <2> QED
    BY <2>1, <2>2, ToldKeeps
<1>8. CASE AskPrincipal
  <2>1. PICK word \in Words, n \in Limits \ {UNSET} :
          Told("resolve_principal", "identity", [word |-> word, types |-> {"principal"}],
               ResolvePrincipal(files["identity"], word, n))
    BY <1>8 DEF AskPrincipal
  <2>2. Min({n, MaxPrincipals}) \in Int
    <3>1. n \in Int /\ MaxPrincipals \in Int
      BY <1>3, RequestAssumption
    <3>2. Min({n, MaxPrincipals}) \in {n, MaxPrincipals}
      BY ONLY <3>1, SmallerOne
    <3> QED
      BY <3>1, <3>2
  <2>3. Sound(ResolvePrincipal(files["identity"], word, n), files["identity"])
    BY <1>1, <1>2, <2>2, EntitiesAreSound DEF ResolvePrincipal
  <2> QED
    BY <1>1, <2>1, <2>3, ToldKeeps
<1>9. CASE AskCredentialChanges
  <2>1. PICK p \in Ids, range \in Ranges :
          Told("list_credential_changes", "identity", [actor |-> p, range |-> range],
               ListCredentialChanges(files["identity"], p, range))
    BY <1>9 DEF AskCredentialChanges
  <2>2. Sound(ListCredentialChanges(files["identity"], p, range), files["identity"])
    <3>1. CASE ValidRange(range)
      <4>1. MaxLimit \in Int
        BY <1>3
      <4> QED
        BY <1>1, <1>2, <3>1, <4>1, EventsAreSound DEF ListCredentialChanges
    <3>2. CASE ~ ValidRange(range)
      BY <3>2, RefusalIsSound DEF ListCredentialChanges
    <3> QED
      BY <3>1, <3>2
  <2> QED
    BY <1>1, <2>1, <2>2, ToldKeeps
<1> QED
  BY <1>4, <1>5, <1>6, <1>7, <1>8, <1>9 DEF Ask

\* What is ingested was sound, so the case stays what it promises to be.
LEMMA IngestKeeps ==
  ASSUME CorrelationInv, Ingest
  PROVE  CorrelationInv'
<1> DEFINE a == answer.is
           f == files[answer.domain]
<1>1. /\ files' = files /\ answer' = NoAnswer
      /\ case'.entities = case.entities \cup a.entities
      /\ case'.events = case.events \cup a.events /\ case'.rels = case.rels \cup a.rels
  BY DEF Ingest
<1>2. answer.domain \in Domains /\ Within(a, f) /\ Referenced(a.events) \cap Known(f) \subseteq a.entities
  BY DEF Ingest, CorrelationInv, AnswerInv, Sound
<1>3. IsFile(f)
  BY <1>2, ScenarioFiles DEF CorrelationInv
<1> HIDE DEF a, f
<1>4. /\ a.entities \subseteq Known(f) /\ a.events \subseteq ToSet(f.events)
      /\ a.rels \subseteq ToSet(f.rels)
  BY <1>2 DEF Within
<1>5. /\ IsFiniteSet(Known(f)) /\ IsFiniteSet(ToSet(f.events)) /\ IsFiniteSet(ToSet(f.rels))
      /\ ToSet(f.events) \subseteq DOMAIN EventOf /\ ToSet(f.rels) \subseteq DOMAIN RelOf
  BY <1>3, ListMembers DEF IsFile, Known
<1>6. IsFiniteSet(a.entities) /\ IsFiniteSet(a.events) /\ IsFiniteSet(a.rels)
  BY <1>4, <1>5, FS_Subset
<1>7. /\ IsFiniteSet(case'.entities) /\ IsFiniteSet(case'.events) /\ IsFiniteSet(case'.rels)
  <2>1. /\ IsFiniteSet(case.entities) /\ IsFiniteSet(case.events) /\ IsFiniteSet(case.rels)
    BY DEF CorrelationInv, CaseInv
  <2> QED
    <3>1. IsFiniteSet(case.entities \cup a.entities)
      BY <1>6, <2>1, FS_Union
    <3>2. IsFiniteSet(case.events \cup a.events)
      BY <1>6, <2>1, FS_Union
    <3>3. IsFiniteSet(case.rels \cup a.rels)
      BY <1>6, <2>1, FS_Union
    <3> QED
      BY <1>1, <3>1, <3>2, <3>3
<1>8. /\ case'.events \subseteq DOMAIN EventOf /\ case'.rels \subseteq DOMAIN RelOf
  BY <1>1, <1>4, <1>5 DEF CorrelationInv, CaseInv
<1>9. case'.entities \subseteq UNION {Known(files[d]) : d \in Domains}
  <2>1. Known(f) \subseteq UNION {Known(files[d]) : d \in Domains}
    BY <1>2 DEF f
  <2> QED
    BY <1>1, <1>4, <2>1 DEF CorrelationInv, CaseInv
<1>10. ASSUME NEW k \in case'.events
       PROVE  \E d \in Domains : /\ k \in ToSet(files[d].events)
                                 /\ Referenced({k}) \cap Known(files[d]) \subseteq case'.entities
  <2>1. CASE k \in case.events
    <3>1. PICK d \in Domains : /\ k \in ToSet(files[d].events)
                               /\ Referenced({k}) \cap Known(files[d]) \subseteq case.entities
      BY <2>1 DEF CorrelationInv, CaseInv, EventsCanBeFollowed
    <3> QED
      BY <1>1, <3>1
  <2>2. CASE k \in a.events
    <3>1. Referenced({k}) \subseteq Referenced(a.events)
      BY <2>2 DEF Referenced
    <3>2. k \in ToSet(f.events) /\ Referenced({k}) \cap Known(f) \subseteq case'.entities
      BY <1>1, <1>2, <1>4, <2>2, <3>1
    <3> QED
      BY <1>2, <3>2 DEF f
  <2> QED
    BY <1>1, <2>1, <2>2
<1>11. EventsCanBeFollowed'
  BY <1>1, <1>10 DEF EventsCanBeFollowed, Known
<1>12. CaseInv'
  BY <1>1, <1>7, <1>8, <1>9, <1>11 DEF CaseInv, Known
<1>13. AnswerInv'
  BY <1>1 DEF AnswerInv
<1> QED
  BY <1>1, <1>12, <1>13 DEF CorrelationInv

\* In every state the answer is what its tool says of the file, and the case is made
\* of sound answers.
LEMMA CorrelationInvariant == Spec => []CorrelationInv
<1>1. Init => CorrelationInv
  <2> SUFFICES ASSUME Init PROVE CorrelationInv
    OBVIOUS
  <2>1. /\ files \in Catalog /\ answer = NoAnswer
        /\ case.entities = {} /\ case.events = {} /\ case.rels = {}
    BY DEF Init, EmptyCase
  <2>2. IsFiniteSet({})
    BY FS_EmptySet
  <2> QED
    BY <2>1, <2>2 DEF CorrelationInv, AnswerInv, CaseInv, EventsCanBeFollowed
<1>2. CorrelationInv /\ [Next]_vars => CorrelationInv'
  <2> SUFFICES ASSUME CorrelationInv, [Next]_vars PROVE CorrelationInv'
    OBVIOUS
  <2>1. CASE Ask
    BY <2>1, AskKeeps
  <2>2. CASE Ingest
    BY <2>2, IngestKeeps
  <2>3. CASE UNCHANGED vars
    BY <2>3 DEF vars, CorrelationInv, AnswerInv, CaseInv, EventsCanBeFollowed, Sound, Within, Known
  <2> QED
    BY <2>1, <2>2, <2>3 DEF Next
<1> QED
  BY <1>1, <1>2, PTL DEF Spec

-----------------------------------------------------------------------------
(***************************************************************************)
(* The theorems.                                                           *)
(***************************************************************************)
\* Whatever is answered and stored is from the files, for any files, requests and
\* limits (ReplayDomainIntegration, ingest_records).
THEOREM AnswersAreFromFiles == Spec => []TypeOK
<1>1. CorrelationInv => TypeOK
  BY DEF CorrelationInv, AnswerInv, CaseInv, Sound, TypeOK
<1> QED
  BY <1>1, CorrelationInvariant, PTL

\* Whoever a domain can describe among the actor and the targets of one of its
\* stored events is stored too, wherever search_events cut its list.
THEOREM StoredEventsCanBeFollowed == Spec => []EventsCanBeFollowed
<1>1. CorrelationInv => EventsCanBeFollowed
  BY DEF CorrelationInv, CaseInv
<1> QED
  BY <1>1, CorrelationInvariant, PTL

\* A list of events that is shorter than its limit holds every event asked for:
\* search_events filters first and cuts then, for any file and any limit.
THEOREM ShortAnswersAreComplete == Spec => []ShortAnswerIsComplete
<1>1. ASSUME CorrelationInv PROVE ShortAnswerIsComplete
  <2> SUFFICES ASSUME answer # NoAnswer, answer.tool = "search_events", answer.is.ok,
                      ~ answer.is.full,
                      NEW k \in ToSet(files[answer.domain].events),
                      EventMatches(k, answer.asked)
               PROVE  k \in answer.is.events
    <3>1. \A k, q : (\/ q.actions = {} \/ EventOf[k].action \in q.actions
                    \/ \E p \in q.actions \cap DOMAIN Begins : EventOf[k].action \in Begins[p])
                   => ActionMatches(EventOf[k].action, q.actions)
      BY DomainAssumption DEF ActionMatches
    <3> QED
      BY <3>1 DEF ShortAnswerIsComplete, EventMatches, InRange, Selected
  <2> DEFINE q == answer.asked
             f == files[answer.domain]
             n == Clamp(q.limit, MaxLimit, MaxLimit)
             a == answer.is
  <2>1. q \in EventRequests /\ a = SearchEvents(f, q) /\ IsFile(f)
    BY <1>1, ScenarioFiles DEF CorrelationInv, AnswerInv
  <2>2. ~ Refused.ok
    BY DEF Refused
  <2>3. a = FindEvents(f, q, n) /\ ValidLimit(q.limit)
    BY <2>1, <2>2 DEF SearchEvents
  <2>4. q.limit \in Int \cup {UNSET} /\ ValidLimit(q.limit) /\ MaxLimit \in Nat \ {0}
    BY <2>1, <2>3, RequestAssumption, DomainAssumption
  <2>5. n \in Nat \ {0}
    BY ONLY <2>4, LimitHolds
  <2>6. k \in EventHits(f, q)
    BY DEF EventHits
  <2> HIDE DEF q, f, n
  <2>7. a.events = EventHits(f, q)
    BY <2>1, <2>3, <2>5, EventsFound
  <2> QED
    BY <2>6, <2>7
<1>2. CorrelationInv => ShortAnswerIsComplete
  BY <1>1
<1> QED
  BY <1>2, CorrelationInvariant, PTL

OneStep(usable, e) ==
  {b \in UNION {{RelOf[r].from, RelOf[r].to} : r \in usable} :
     e # b /\ \E r \in usable : Connects(r, e, b)}

\* One step of a traversal leads to those whom a usable relationship connects.
LEMMA HopIsAStep ==
  ASSUME NEW f, NEW q, NEW e, NEW usable, usable = {r \in ToSet(f.rels) : Wanted(r, q)}
  PROVE  Hop(f, e, q) = OneStep(usable, e)
<1>1. At(f, e, q) = {r \in usable : RelOf[r].from = e \/ RelOf[r].to = e}
  BY DEF At, Leaving, Entering
<1>2. ASSUME NEW b \in Hop(f, e, q)
      PROVE  /\ b \in UNION {{RelOf[r].from, RelOf[r].to} : r \in usable}
             /\ e # b /\ \E r \in usable : Connects(r, e, b)
  <2>1. PICK r \in At(f, e, q) : b \in {RelOf[r].from, RelOf[r].to}
    BY DEF Hop, Others
  <2>2. b # e
    BY DEF Hop, Others
  <2> QED
    BY <1>1, <2>1, <2>2 DEF Connects
<1>3. ASSUME NEW b, e # b, NEW r \in usable, Connects(r, e, b)
      PROVE  b \in Hop(f, e, q)
  <2>1. r \in At(f, e, q) /\ b \in {RelOf[r].from, RelOf[r].to}
    BY <1>1, <1>3 DEF Connects
  <2> QED
    BY <1>3, <2>1 DEF Hop, Others
<1> QED
  BY <1>2, <1>3 DEF OneStep

\* A traversal that no limit cut answers exactly the entities within its depth and
\* the relationships it went along (get_neighbors), for any graph of relationships
\* and whichever order the set of neighbours has.
THEOREM TraversalsAreExact == Spec => []TraversalIsExact
<1>1. ASSUME CorrelationInv PROVE TraversalIsExact
  <2> DEFINE q == answer.asked
             f == files[answer.domain]
             usable == {r \in ToSet(f.rels) : Wanted(r, q)}
             ends == UNION {{RelOf[r].from, RelOf[r].to} : r \in usable}
             Step(a, b) == a # b /\ \E r \in usable : Connects(r, a, b)
             near == {b \in ends : Step(q.start, b)}
             far == IF q.depth >= 2 THEN {b \in ends : \E a \in near : Step(a, b)} ELSE {}
             visited == {q.start} \cup (IF q.depth >= 2 THEN near ELSE {})
             a0 == answer.is
  <2> SUFFICES ASSUME answer # NoAnswer, answer.tool = "get_neighbors", a0.ok, ~ a0.full
               PROVE  /\ a0.entities = ((near \cup far) \ {q.start}) \cap Known(f)
                      /\ a0.rels = {r \in usable : {RelOf[r].from, RelOf[r].to} \cap visited # {}}
    BY DEF TraversalIsExact
  <2>1. q \in NeighborRequests /\ a0 \in GetNeighbors(f, q) /\ IsFile(f)
    BY <1>1, ScenarioFiles DEF CorrelationInv, AnswerInv
  <2> HIDE DEF a0, f, q
  <2>2. a0.entities = Met(f, q) /\ a0.rels = Passed(f, q)
    BY <2>1, NeighborsAnswered
  <2>3. \A e : Hop(f, e, q) = {b \in ends : Step(e, b)}
    <3>1. usable = {r \in ToSet(f.rels) : Wanted(r, q)}
      OBVIOUS
    <3> HIDE DEF usable
    <3>2. \A e : Hop(f, e, q) = OneStep(usable, e)
      BY <3>1, HopIsAStep
    <3> QED
      BY <3>2 DEF OneStep
  <2>4. \A e : At(f, e, q) = {r \in usable : RelOf[r].from = e \/ RelOf[r].to = e}
    BY DEF At, Leaving, Entering
  <2> HIDE DEF usable
  <2>5. Hop(f, q.start, q) = near
    BY <2>3
  <2>6. (UNION {Hop(f, m, q) : m \in near}) = {b \in ends : \E a \in near : Step(a, b)}
    <3> HIDE DEF near, ends, Step
    <3> QED
      BY <2>3
  <2>7. q.start \notin near
    OBVIOUS
  <2>8. Met(f, q) = ((near \cup far) \ {q.start}) \cap Known(f)
    <3> HIDE DEF near, ends, Step
    <3>1. CASE q.depth >= 2
      BY <2>5, <2>6, <3>1 DEF Met
    <3>2. CASE ~ (q.depth >= 2)
      BY <2>5, <2>7, <3>2 DEF Met
    <3> QED
      BY <3>1, <3>2
  <2>9. Passed(f, q) = {r \in usable : {RelOf[r].from, RelOf[r].to} \cap visited # {}}
    <3> HIDE DEF near, ends, Step
    <3>1. CASE q.depth >= 2
      <4>1. (UNION {At(f, m, q) : m \in near})
              = {r \in usable : \E m \in near : RelOf[r].from = m \/ RelOf[r].to = m}
        BY <2>4
      <4>2. Passed(f, q) = At(f, q.start, q) \cup (UNION {At(f, m, q) : m \in near})
        BY <2>5, <3>1 DEF Passed
      <4>3. visited = {q.start} \cup near
        BY <3>1
      <4> QED
        BY <2>4, <4>1, <4>2, <4>3
    <3>2. CASE ~ (q.depth >= 2)
      BY <2>4, <3>2 DEF Passed
    <3> QED
      BY <3>1, <3>2
  <2> QED
    BY <2>2, <2>8, <2>9
<1>2. CorrelationInv => TraversalIsExact
  BY <1>1
<1> QED
  BY <1>2, CorrelationInvariant, PTL

\* Rows that LIMIT does not cut are all of them.
LEMMA AllRows ==
  ASSUME NEW rows, IsFiniteSet(rows), NEW S \in kSubset(Min({MaxLimit, MaxLimit, Cardinality(rows)}), rows),
         Cardinality(rows) <= MaxLimit \/ Cardinality(S) < MaxLimit
  PROVE  S = rows
<1> DEFINE c == Cardinality(rows)
           least == Min({MaxLimit, c})
<1>1. c \in Int /\ c \in Nat /\ MaxLimit \in Int
  <2>1. MaxLimit \in Nat
    BY DomainAssumption
  <2>2. c \in Nat
    BY FS_CardinalityType
  <2> HIDE DEF c
  <2> QED
    BY <2>1, <2>2
<1>2. {MaxLimit, MaxLimit, c} = {MaxLimit, c}
  OBVIOUS
<1>3. S \subseteq rows /\ Cardinality(S) = least
  BY <1>2 DEF kSubset
<1> HIDE DEF c
<1>4. least \in {MaxLimit, c} /\ least <= MaxLimit /\ least <= c
  BY ONLY <1>1, SmallerOne
<1> HIDE DEF least
<1>5. c <= MaxLimit \/ least < MaxLimit
  BY <1>3 DEF c
<1>6. least = c
  BY <1>1, <1>4, <1>5
<1> QED
  BY <1>3, <1>6, FS_Subset DEF c

\* The neighbours of a complete one-step answer are those the case names once it is
\* ingested (ingest_records, query_neighbors), whatever else the case holds.
THEOREM NeighborsStay == Spec => NeighborsSurviveIngest
<1> DEFINE A == Ingest /\ answer.tool = "get_neighbors" /\ ~ answer.is.full /\ answer.is.ok
                /\ answer.asked.depth < 2
                /\ Cardinality(Joined(case', answer.asked.start, answer.asked.types)) <= MaxLimit
                => \A e \in answer.is.entities :
                     \A rows \in QueryNeighbors(case', answer.asked.start, answer.asked.types, MaxLimit) :
                       \E r \in answer.is.rels : <<e, r>> \in rows
<1>1. ASSUME CorrelationInv, CorrelationInv' PROVE A
  <2> DEFINE q == answer.asked
             f == files[answer.domain]
             a == answer.is
             joined == Joined(case', q.start, q.types)
  <2> SUFFICES ASSUME Ingest, answer.tool = "get_neighbors", ~ a.full, a.ok, q.depth < 2,
                      Cardinality(joined) <= MaxLimit,
                      NEW e \in a.entities,
                      NEW rows \in QueryNeighbors(case', q.start, q.types, MaxLimit)
               PROVE  \E r \in a.rels : <<e, r>> \in rows
    OBVIOUS
  <2>1. q \in NeighborRequests /\ a \in GetNeighbors(f, q) /\ IsFile(f)
    BY <1>1, ScenarioFiles DEF CorrelationInv, AnswerInv, Ingest
  <2>2. a.entities \subseteq case'.entities /\ a.rels \subseteq case'.rels
    BY DEF Ingest
  <2>3. ~ (q.depth >= 2)
    <3>1. q.depth \in Int
      BY <2>1, RequestAssumption
    <3> QED
      BY <3>1
  <2>4. a.entities = Met(f, q) /\ a.rels = Passed(f, q)
    <3> HIDE DEF a, f, q
    <3> QED
      BY <2>1, NeighborsAnswered
  <2>5. a.entities \subseteq Hop(f, q.start, q) /\ a.rels = At(f, q.start, q)
    <3> HIDE DEF a, f, q
    <3> QED
      BY <2>3, <2>4 DEF Met, Passed
  <2>6. PICK r \in a.rels : e \in {RelOf[r].from, RelOf[r].to} /\ e # q.start
    BY <2>5 DEF Hop, Others
  <2>7. /\ RelOf[r].from = q.start \/ RelOf[r].to = q.start
        /\ Selected(RelOf[r].type, q.types)
    BY <2>5 DEF At, Leaving, Entering, Wanted
  <2>8. <<e, r>> \in joined
    <3>1. <<e, r>> \in case'.entities \X case'.rels
      BY <2>2
    <3>2. \/ RelOf[r].to = e /\ RelOf[r].from = q.start
          \/ RelOf[r].from = e /\ RelOf[r].to = q.start
      BY <2>6, <2>7
    <3> QED
      BY <2>7, <3>1, <3>2 DEF Joined
  <2>9. IsFiniteSet(joined)
    <3>1. IsFiniteSet(case'.entities) /\ IsFiniteSet(case'.rels)
      BY <1>1 DEF CorrelationInv, CaseInv
    <3>2. IsFiniteSet(case'.entities \X case'.rels)
      BY <3>1, FS_Product
    <3>3. joined \subseteq case'.entities \X case'.rels
      BY DEF Joined
    <3> HIDE DEF joined
    <3> QED
      BY <3>2, <3>3, FS_Subset
  <2>10. rows \in kSubset(Min({MaxLimit, MaxLimit, Cardinality(joined)}), joined)
    BY DEF QueryNeighbors
  <2>11. rows = joined
    <3> HIDE DEF joined
    <3> QED
      BY <2>9, <2>10, AllRows
  <2> QED
    BY <2>6, <2>8, <2>11
<1>2. CorrelationInv /\ CorrelationInv' => A
  BY <1>1
<1>3. Spec => [][A]_vars
  <2>1. CorrelationInv /\ CorrelationInv' => [A]_vars
    BY <1>2
  <2> HIDE DEF A
  <2> QED
    BY <2>1, CorrelationInvariant, PTL
<1> QED
  BY <1>3 DEF NeighborsSurviveIngest, A

\* The one member of a set is the one that is chosen.
LEMMA OneMember ==
  ASSUME NEW S, IsFiniteSet(S), Cardinality(S) <= 1, NEW x \in S
  PROVE  (CHOOSE a \in S : TRUE) = x
<1>1. Cardinality(S) \in Nat /\ Cardinality(S) # 0
  BY FS_CardinalityType, FS_EmptySet
<1>2. Cardinality(S) = 1
  BY <1>1
<1>3. PICK y : S = {y}
  BY <1>2, FS_Singleton
<1> QED
  BY <1>3

\* What a domain selects for a request the case selects for the same question.
LEMMA SelectsAlike ==
  ASSUME NEW q \in EventRequests, ValidRange(q.range), Cardinality(q.actors) <= 1,
         Cardinality(q.targets) <= 1, NEW k \in case.events, EventMatches(k, q)
  PROVE  /\ \A outcome : outcome = UNSET \/ EventOf[k].outcome = outcome =>
              k \in MatchingRows(case, Asked(q, outcome))
         /\ k \in MatchingRows(case, [range |-> q.range, actions |-> {},
                                      actor |-> Asked(q, UNSET).actor,
                                      target |-> UNSET, outcome |-> UNSET])
<1> DEFINE actor == IF q.actors = {} THEN UNSET ELSE CHOOSE a \in q.actors : TRUE
           target == IF q.targets = {} THEN UNSET ELSE CHOOSE t \in q.targets : TRUE
<1>1. IsFiniteSet(q.actors) /\ IsFiniteSet(q.targets)
  BY RequestAssumption
<1>2. \A outcome : Asked(q, outcome) = [range |-> q.range, actions |-> q.actions, actor |-> actor,
                                        target |-> target, outcome |-> outcome]
  BY DEF Asked
<1>3. StoredInRange(k, q.range)
  BY DEF EventMatches, InRange, StoredInRange
<1>4. ActionIsLike(EventOf[k].action, q.actions) /\ ActionIsLike(EventOf[k].action, {})
  BY QueryAssumption DEF EventMatches, ActionMatches, ActionIsLike
<1>5. actor = UNSET \/ EventOf[k].actor = actor
  <2>1. q.actors = {} \/ EventOf[k].actor \in q.actors
    BY DEF EventMatches, Selected
  <2> QED
    BY <1>1, <2>1, OneMember
<1>6. target = UNSET \/ target \in EventOf[k].targets
  <2>1. q.targets = {} \/ \E t \in q.targets : t \in EventOf[k].targets
    BY DEF EventMatches
  <2>2. ASSUME NEW t \in q.targets, t \in EventOf[k].targets
        PROVE  target \in EventOf[k].targets
    BY <1>1, <2>2, OneMember
  <2> QED
    BY <2>1, <2>2
<1> HIDE DEF actor, target
<1> QED
  BY <1>2, <1>3, <1>4, <1>5, <1>6 DEF MatchingRows

\* An answer shorter than MaxLimit has all the rows it was selected from.
LEMMA ShortIsAll ==
  ASSUME NEW all, IsFiniteSet(all),
         NEW rows \in kSubset(Min({MaxLimit, MaxLimit, Cardinality(all)}), all),
         Cardinality(rows) < MaxLimit
  PROVE  rows = all
BY AllRows

\* Questions for events (query_events, get_timeline) are answered alike.
LEMMA EventsAgree == CorrelationInv => EventAnswersAgree
<1> SUFFICES ASSUME CorrelationInv, NEW q \in EventRequests, ValidRange(q.range),
                    Cardinality(q.actors) <= 1, Cardinality(q.targets) <= 1
             PROVE  LET known == UNION {FindEvents(files[d], q, MaxLimit).events : d \in Domains}
                    IN /\ \A outcome \in Outcomes :
                            \A rows \in QueryEvents(case, Asked(q, outcome), MaxLimit) :
                              Cardinality(rows) < MaxLimit =>
                                \A k \in known \cap case.events :
                                  outcome = UNSET \/ EventOf[k].outcome = outcome => k \in rows
                       /\ \A rows \in GetTimeline(case, q.range, Asked(q, UNSET).actor, MaxLimit) :
                            Cardinality(rows) < MaxLimit => known \cap case.events \subseteq rows
  BY DEF EventAnswersAgree
<1> DEFINE known == UNION {FindEvents(files[d], q, MaxLimit).events : d \in Domains}
           brief == [range |-> q.range, actions |-> {}, actor |-> Asked(q, UNSET).actor,
                     target |-> UNSET, outcome |-> UNSET]
<1>1. ASSUME NEW k \in known
      PROVE  EventMatches(k, q)
  <2>1. PICK d \in Domains : k \in FindEvents(files[d], q, MaxLimit).events
    OBVIOUS
  <2>2. MaxLimit \in Nat
    BY DomainAssumption
  <2>3. IsFile(files[d]) /\ MaxLimit \in Int
    BY <2>2, ScenarioFiles DEF CorrelationInv
  <2>4. FindEvents(files[d], q, MaxLimit).events \subseteq EventHits(files[d], q)
    BY <2>3, EventsFound
  <2> QED
    BY <2>1, <2>4 DEF EventHits
<1>2. \A s : IsFiniteSet(MatchingRows(case, s))
  <2>1. IsFiniteSet(case.events)
    BY DEF CorrelationInv, CaseInv
  <2>2. \A s : MatchingRows(case, s) \subseteq case.events
    BY DEF MatchingRows
  <2> QED
    BY <2>1, <2>2, FS_Subset
<1>3. ASSUME NEW outcome, NEW rows \in QueryEvents(case, Asked(q, outcome), MaxLimit),
             Cardinality(rows) < MaxLimit, NEW k \in known \cap case.events,
             outcome = UNSET \/ EventOf[k].outcome = outcome
      PROVE  k \in rows
  <2> DEFINE all == MatchingRows(case, Asked(q, outcome))
  <2>1. rows \in kSubset(Min({MaxLimit, MaxLimit, Cardinality(all)}), all)
    BY <1>3 DEF QueryEvents, First
  <2>2. IsFiniteSet(all)
    BY <1>2
  <2>3. k \in all
    BY <1>1, <1>3, SelectsAlike
  <2> HIDE DEF all
  <2> QED
    BY <1>3, <2>1, <2>2, <2>3, ShortIsAll
<1>4. ASSUME NEW rows \in GetTimeline(case, q.range, Asked(q, UNSET).actor, MaxLimit),
             Cardinality(rows) < MaxLimit, NEW k \in known \cap case.events
      PROVE  k \in rows
  <2> DEFINE all == MatchingRows(case, brief)
  <2>1. rows \in kSubset(Min({MaxLimit, MaxLimit, Cardinality(all)}), all)
    BY <1>4 DEF GetTimeline, First
  <2>2. IsFiniteSet(all)
    BY <1>2
  <2>3. k \in all
    BY <1>1, <1>4, SelectsAlike
  <2> HIDE DEF all
  <2> QED
    BY <1>4, <2>1, <2>2, <2>3, ShortIsAll
<1> HIDE DEF known, brief
<1> QED
  BY <1>3, <1>4 DEF known

\* Questions for entities (query_entities) are answered alike but for wildcards.
LEMMA EntitiesAgree == CorrelationInv => EntityAnswersAgree
<1> SUFFICES ASSUME CorrelationInv, NEW word \in Words, NEW types \in Types, NEW kinds \in Kinds,
                    NEW rows \in QueryEntities(case, word, types, kinds, MaxLimit)
             PROVE  LET Found(d) == FindEntities(files[d], word, types, kinds, MaxFound)
                    IN /\ Cardinality(rows) < MaxLimit =>
                            \A d \in Domains : \A e \in Found(d).entities \cap case.entities :
                              word \in EntityOf[e].name => e \in rows
                       /\ ILike[word] = {word} =>
                            \A e \in rows : \E d \in Domains :
                              e \in Found(d).entities \/ (Found(d).full /\ e \in Known(files[d]))
  BY DEF EntityAnswersAgree
<1> DEFINE all == NamedEntities(case, word, types, kinds)
           Found(d) == FindEntities(files[d], word, types, kinds, MaxFound)
<1>1. ASSUME NEW d \in Domains
      PROVE  /\ IsFile(files[d])
             /\ Found(d).entities \subseteq EntityHits(files[d], word, types, kinds)
             /\ Found(d).full \/ Found(d).entities = EntityHits(files[d], word, types, kinds)
  <2>1. MaxFound \in Nat
    BY DomainAssumption
  <2>2. IsFile(files[d]) /\ MaxFound \in Int
    BY <2>1, ScenarioFiles DEF CorrelationInv
  <2> QED
    BY <2>2, EntitiesFound
<1>2. word \in ILike[word]
  BY QueryAssumption, RequestAssumption
<1>3. rows \in kSubset(Min({MaxLimit, MaxLimit, Cardinality(all)}), all)
  BY DEF QueryEntities, First
<1>4. ASSUME Cardinality(rows) < MaxLimit, NEW d \in Domains,
             NEW e \in Found(d).entities \cap case.entities, word \in EntityOf[e].name
      PROVE  e \in rows
  <2>1. e \in all
    BY <1>1, <1>2, <1>4 DEF NamedEntities, EntityHits
  <2>2. IsFiniteSet(all)
    <3>1. all \subseteq case.entities /\ IsFiniteSet(case.entities)
      BY DEF NamedEntities, CorrelationInv, CaseInv
    <3> QED
      BY <3>1, FS_Subset
  <2> HIDE DEF all
  <2> QED
    BY <1>3, <1>4, <2>1, <2>2, ShortIsAll
<1>5. ASSUME ILike[word] = {word}, NEW e \in rows
      PROVE  \E d \in Domains : e \in Found(d).entities \/ (Found(d).full /\ e \in Known(files[d]))
  <2>1. e \in all
    BY <1>3 DEF kSubset
  <2>2. PICK d \in Domains : e \in Known(files[d])
    BY <2>1 DEF NamedEntities, CorrelationInv, CaseInv
  <2>3. e \in DOMAIN EntityOf
    BY <1>1, <2>2, ListMembers DEF IsFile, Known
  <2>4. word \in EntityOf[e].name
    BY <1>5, <2>1, <2>3, DomainAssumption DEF NamedEntities
  <2>5. e \in EntityHits(files[d], word, types, kinds)
    BY <2>1, <2>2, <2>4 DEF NamedEntities, EntityHits
  <2> QED
    BY <1>1, <2>2, <2>5
<1> HIDE DEF Found, all
<1> QED
  BY <1>4, <1>5 DEF Found

\* The case answers like the domains, although the selections are written twice, in
\* Python on files and in SQL on rows (query.py): for any events, entities, words,
\* wildcards and requests.
THEOREM CasesAnswerLikeDomains == Spec => []CaseAnswersLikeDomain
<1>1. CorrelationInv => CaseAnswersLikeDomain
  BY EventsAgree, EntitiesAgree DEF CaseAnswersLikeDomain
<1> QED
  BY <1>1, CorrelationInvariant, PTL
=============================================================================
