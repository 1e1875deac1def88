-------------------------- MODULE CommandRun_proofs --------------------------
(* One run of the command, for every command line, every set of targets and  *)
(* every number of failing file operations: what the run holds, what its      *)
(* reports and analyses say, what a report's file contains at any moment, and *)
(* what exit code 0 promises.                                                 *)
EXTENDS CommandRun, FiniteSetTheorems, WellFoundedInduction, TLAPS

-----------------------------------------------------------------------------
(* Sequences of files *)

\* A set of numbers has a least one.
LEMMA LeastNumber ==
    ASSUME NEW S \in SUBSET Nat, S # {}
    PROVE  \E m \in S : \A n \in S : m <= n
<1>1. PICK m \in S : \A n \in S : <<n, m>> \notin OpToRel(<, Nat)
  BY NatLessThanWellFounded, WFMin
<1>2. \A n \in S : ~(n < m)
  BY <1>1 DEF OpToRel
<1> QED BY <1>2

\* One after another, sequences over a set are one sequence over it.
LEMMA FlattenIsSeq ==
    ASSUME NEW T, NEW seqs \in Seq(Seq(T))
    PROVE  FlattenSeq(seqs) \in Seq(T)
<1> DEFINE Step(g, i) == IF i = 1 THEN seqs[i] ELSE g[i - 1] \o seqs[i]
           Flat(g, n) == g = [i \in 1 .. n |-> Step(g, i)]
           Missing == {n \in Nat : ~\E g : Flat(g, n)}
<1>1. Missing = {}
  <2>1. SUFFICES ASSUME Missing # {} PROVE FALSE
    OBVIOUS
  <2>2. PICK m \in Missing : \A n \in Missing : m <= n
    <3> HIDE DEF Missing
    <3>1. Missing \in SUBSET Nat
      BY DEF Missing
    <3> QED BY <2>1, <3>1, LeastNumber
  <2>3. m # 0
    <3>1. Flat([i \in 1 .. 0 |-> 0], 0)
      OBVIOUS
    <3> QED BY <3>1
  <2>4. m \in Nat /\ m - 1 \in Nat /\ m - 1 \notin Missing
    <3>1. m \in Nat
      BY <2>2
    <3>2. m - 1 \in Nat /\ ~(m <= m - 1)
      BY <2>3, <3>1
    <3> HIDE DEF Missing
    <3> QED BY <2>2, <3>1, <3>2
  <2>5. PICK g : Flat(g, m - 1)
    BY <2>4
  <2> DEFINE h == [i \in 1 .. m |-> Step(g, i)]
  <2>6. \A i \in 1 .. m - 1 : h[i] = g[i]
    <3>1. \A i \in 1 .. m - 1 : i \in 1 .. m
      BY <2>4
    <3> QED BY <2>5, <3>1
  <2>7. \A i \in 1 .. m : Step(h, i) = Step(g, i)
    <3>1. \A i \in 1 .. m : i # 1 => i - 1 \in 1 .. m - 1
      BY <2>4
    <3> HIDE DEF h
    <3> QED BY <2>6, <3>1
  <2>8. Flat(h, m)
    BY <2>7
  <2> QED BY <2>8
<1>2. Len(seqs) \in Nat
  OBVIOUS
<1>3. PICK g : Flat(g, Len(seqs))
  BY <1>1, <1>2
<1>4. CASE Len(seqs) = 0
  BY <1>4 DEF FlattenSeq
<1>5. CASE Len(seqs) # 0
  <2> DEFINE f == CHOOSE f : Flat(f, Len(seqs))
             Bad == {n \in 1 .. Len(seqs) : f[n] \notin Seq(T)}
  <2>1. Flat(f, Len(seqs))
    BY <1>3
  <2>2. FlattenSeq(seqs) = f[Len(seqs)]
    BY <1>5 DEF FlattenSeq
  <2> HIDE DEF f
  <2>3. \A n \in 1 .. Len(seqs) : f[n] = Step(f, n)
    BY <2>1
  <2>4. Bad = {}
    <3>1. SUFFICES ASSUME Bad # {} PROVE FALSE
      OBVIOUS
    <3>2. PICK m \in Bad : \A n \in Bad : m <= n
      <4>1. Bad \in SUBSET Nat
        OBVIOUS
      <4> HIDE DEF Bad
      <4> QED BY <3>1, <4>1, LeastNumber
    <3>3. m # 1
      BY <2>3
    <3>4. m - 1 \in 1 .. Len(seqs) /\ m - 1 \notin Bad
      BY <3>2, <3>3
    <3>5. f[m - 1] \in Seq(T) /\ seqs[m] \in Seq(T)
      BY <3>4
    <3>6. f[m] = f[m - 1] \o seqs[m]
      BY <2>3, <3>3
    <3>7. f[m] \notin Seq(T)
      BY <3>2
    <3> QED BY <3>5, <3>6, <3>7
  <2> QED BY <1>2, <1>5, <2>2, <2>4
<1> QED BY <1>4, <1>5

\* Every file that put has not seen has a place of its own among those that are written,
\* and every place has such a file.
LEMMA PutPlaces ==
    ASSUME NEW T, NEW wanted \in Seq(T)
    PROVE  /\ Cardinality(Fresh(wanted)) \in Nat
           /\ \A n \in 1 .. Cardinality(Fresh(wanted)) :
                \E i \in Fresh(wanted) : Cardinality({j \in Fresh(wanted) : j <= i}) = n
<1> DEFINE fresh == Fresh(wanted)
           upTo(i) == {j \in fresh : j <= i}
           size == Cardinality(fresh)
           place == [i \in fresh |-> Cardinality(upTo(i))]
<1>1. fresh \subseteq 1 .. Len(wanted) /\ Len(wanted) \in Nat
  BY DEF Fresh
<1> HIDE DEF fresh
<1>2. IsFiniteSet(fresh) /\ size \in Nat
  <2>1. 1 \in Int /\ Len(wanted) \in Int
    BY <1>1
  <2>2. IsFiniteSet(1 .. Len(wanted))
    BY <2>1, FS_Interval
  <2>3. IsFiniteSet(fresh)
    BY <1>1, <2>2, FS_Subset
  <2> QED BY <2>3, FS_CardinalityType
<1> HIDE DEF size
<1>3. ASSUME NEW i \in fresh
      PROVE  /\ upTo(i) \in SUBSET fresh /\ i \in upTo(i) /\ IsFiniteSet(upTo(i))
             /\ Cardinality(upTo(i)) \in 1 .. size
  <2>1. upTo(i) \in SUBSET fresh /\ i \in upTo(i)
    BY <1>1
  <2>2. IsFiniteSet(upTo(i)) /\ Cardinality(upTo(i)) <= size
    <3> HIDE DEF upTo
    <3> QED BY <1>2, <2>1, FS_Subset DEF size
  <2>3. Cardinality(upTo(i)) \in Nat /\ Cardinality(upTo(i)) # 0
    <3> HIDE DEF upTo
    <3> QED BY <2>1, <2>2, FS_CardinalityType, FS_EmptySet
  <2>4. \A n, k \in Nat : n # 0 /\ n <= k => n \in 1 .. k
    OBVIOUS
  <2>5. Cardinality(upTo(i)) \in 1 .. size
    <3> HIDE DEF upTo
    <3> QED BY <1>2, <2>2, <2>3, <2>4
  <2> QED BY <2>1, <2>2, <2>5
<1>4. ASSUME NEW i \in fresh, NEW k \in fresh, i < k
      PROVE  Cardinality(upTo(i)) # Cardinality(upTo(k))
  <2>1. \A j \in fresh : j \in Int
    BY <1>1
  <2>2. \A j \in fresh : j <= i => j <= k
    BY <1>4, <2>1
  <2>3. k <= k /\ ~(k <= i)
    BY <1>4, <2>1
  <2>4. upTo(i) \in SUBSET upTo(k) /\ k \in upTo(k) /\ k \notin upTo(i)
    BY <2>2, <2>3
  <2> HIDE DEF upTo
  <2> QED BY <1>3, <2>4, FS_Subset
<1>5. place \in Injection(fresh, 1 .. size)
  <2>1. \A i, k \in fresh : i < k \/ k < i \/ i = k
    BY <1>1
  <2>2. \A i, k \in fresh : place[i] = place[k] => i = k
    <3> HIDE DEF upTo
    <3> QED BY <1>4, <2>1
  <2>3. place \in [fresh -> 1 .. size]
    <3> HIDE DEF upTo
    <3> QED BY <1>3
  <2> HIDE DEF place
  <2> QED BY <2>2, <2>3 DEF Injection, IsInjective
<1>6. IsFiniteSet(1 .. size) /\ Cardinality(1 .. size) = size
  <2>1. 1 \in Int /\ size \in Int
    BY <1>2
  <2>2. IsFiniteSet(1 .. size)
    BY <2>1, FS_Interval
  <2>3. Cardinality(1 .. size) = IF 1 > size THEN 0 ELSE size - 1 + 1
    BY <2>1, FS_Interval
  <2>4. (IF 1 > size THEN 0 ELSE size - 1 + 1) = size
    BY <1>2
  <2> QED BY <2>2, <2>3, <2>4
<1>7. place \in Surjection(fresh, 1 .. size)
  <2> HIDE DEF place
  <2> QED BY <1>2, <1>5, <1>6, FS_Injection DEF size
<1>8. \A n \in 1 .. size : \E i \in fresh : place[i] = n
  <2> HIDE DEF place
  <2> QED BY <1>7 DEF Surjection
<1> QED BY <1>2, <1>8 DEF fresh, size

\* put writes files that were asked for, and none twice.
LEMMA PutFacts ==
    ASSUME NEW T, NEW wanted \in Seq(T)
    PROVE  /\ Put(wanted) \in Seq(T)
           /\ \A n, m \in DOMAIN Put(wanted) : Put(wanted)[n].name = Put(wanted)[m].name => n = m
           /\ \A n \in DOMAIN Put(wanted) : \E i \in DOMAIN wanted : Put(wanted)[n] = wanted[i]
<1> DEFINE fresh == Fresh(wanted)
           size == Cardinality(fresh)
           at(n) == CHOOSE i \in fresh : Cardinality({j \in fresh : j <= i}) = n
<1>1. size \in Nat
  BY PutPlaces
<1>2. \A n \in 1 .. size : at(n) \in fresh /\ Cardinality({j \in fresh : j <= at(n)}) = n
  BY PutPlaces
<1>3. Put(wanted) = [n \in 1 .. size |-> wanted[at(n)]]
  BY DEF Put
<1>4. fresh \subseteq 1 .. Len(wanted) /\ Len(wanted) \in Nat /\ DOMAIN wanted = 1 .. Len(wanted)
  BY DEF Fresh
<1>5. \A i, j \in fresh : i < j => wanted[i].name # wanted[j].name
  <2>1. ASSUME NEW i \in fresh, NEW j \in fresh, i < j PROVE wanted[i].name # wanted[j].name
    <3>1. i \in 1 .. j - 1
      BY <1>4, <2>1
    <3> QED BY <3>1 DEF Fresh
  <2> QED BY <2>1
<1>6. \A n, m \in 1 .. size : at(n) = at(m) => n = m
  <2> HIDE DEF at
  <2> QED BY <1>2
<1> HIDE DEF at, fresh, size
<1>7. \A n \in 1 .. size : at(n) \in 1 .. Len(wanted) /\ wanted[at(n)] \in T
  <2>1. \A i \in 1 .. Len(wanted) : wanted[i] \in T
    OBVIOUS
  <2> QED BY <1>2, <1>4, <2>1
<1>8. Put(wanted) \in [1 .. size -> T]
  BY <1>3, <1>7
<1>9. ASSUME NEW n \in 1 .. size, NEW m \in 1 .. size, wanted[at(n)].name = wanted[at(m)].name
      PROVE  n = m
  <2>1. at(n) \in fresh /\ at(m) \in fresh
    BY <1>2
  <2>2. ~(at(n) < at(m)) /\ ~(at(m) < at(n))
    BY <1>5, <1>9, <2>1
  <2>3. at(n) \in Int /\ at(m) \in Int
    <3>1. \A i \in fresh : i \in Int
      BY <1>4
    <3> QED BY <2>1, <3>1
  <2>4. at(n) = at(m)
    BY <2>2, <2>3
  <2> QED BY <1>6, <2>4
<1> QED BY <1>1, <1>3, <1>4, <1>7, <1>8, <1>9

-----------------------------------------------------------------------------
(* Reports and analyses *)

\* A place counts the elements up to it, which are among all.
LEMMA PlaceBounds ==
    ASSUME NEW n \in Nat, NEW keys \in [1 .. n -> Int], NEW i \in 1 .. n
    PROVE  /\ IsFiniteSet({m \in 1 .. n : keys[m] < keys[i]}) /\ IsFiniteSet({m \in 1 .. n : keys[m] <= keys[i]})
           /\ Place(keys, i) \in 1 .. n
           /\ Cardinality({m \in 1 .. n : keys[m] < keys[i]}) < Place(keys, i)
           /\ Place(keys, i) <= Cardinality({m \in 1 .. n : keys[m] <= keys[i]})
<1> DEFINE below == {m \in 1 .. n : keys[m] < keys[i]}
           upto == {j \in 1 .. n : keys[j] < keys[i] \/ (keys[j] = keys[i] /\ j <= i)}
           atMost == {m \in 1 .. n : keys[m] <= keys[i]}
<1>1. Place(keys, i) = Cardinality(upto)
  <2>1. DOMAIN keys = 1 .. n
    OBVIOUS
  <2> QED BY <2>1 DEF Place
<1>2. IsFiniteSet(1 .. n) /\ Cardinality(1 .. n) = n
  <2>1. 1 \in Int /\ n \in Int /\ (IF 1 > n THEN 0 ELSE n - 1 + 1) = n
    OBVIOUS
  <2> QED BY <2>1, FS_Interval
<1>3. below \in SUBSET upto /\ upto \in SUBSET atMost /\ atMost \in SUBSET (1 .. n) /\ i \in upto /\ i \notin below
  OBVIOUS
<1>4. keys[i] \in Int
  OBVIOUS
<1> HIDE DEF below, upto, atMost
<1>5. IsFiniteSet(atMost) /\ Cardinality(atMost) <= n
  BY <1>2, <1>3, FS_Subset
<1>6. IsFiniteSet(upto) /\ Cardinality(upto) <= Cardinality(atMost)
  BY <1>3, <1>5, FS_Subset
<1>7. IsFiniteSet(below) /\ Cardinality(below) <= Cardinality(upto) /\ Cardinality(below) # Cardinality(upto)
  BY <1>3, <1>6, FS_Subset
<1>8. Cardinality(below) \in Nat /\ Cardinality(upto) \in Nat /\ Cardinality(atMost) \in Nat
  BY <1>5, <1>6, <1>7, FS_CardinalityType
<1>9. Cardinality(upto) >= 1 /\ Cardinality(upto) <= n /\ Cardinality(below) < Cardinality(upto)
  BY <1>5, <1>6, <1>7, <1>8
<1>10. Place(keys, i) \in 1 .. n
  BY <1>1, <1>8, <1>9
<1> QED BY <1>1, <1>5, <1>6, <1>7, <1>9, <1>10 DEF below, atMost

\* Sorting gives each element a place of its own, and fills all places.
LEMMA PlacesFilled ==
    ASSUME NEW n \in Nat, NEW keys \in [1 .. n -> Int]
    PROVE  /\ \A i, j \in 1 .. n : Place(keys, i) = Place(keys, j) => i = j
           /\ \A p \in 1 .. n : \E i \in 1 .. n : Place(keys, i) = p
<1> DEFINE upto(i) == {j \in 1 .. n : keys[j] < keys[i] \/ (keys[j] = keys[i] /\ j <= i)}
           f == [i \in 1 .. n |-> Place(keys, i)]
<1>1. IsFiniteSet(1 .. n)
  <2>1. 1 \in Int /\ n \in Int
    OBVIOUS
  <2> QED BY <2>1, FS_Interval
<1>2. \A i \in 1 .. n : /\ Place(keys, i) = Cardinality(upto(i)) /\ upto(i) \in SUBSET (1 .. n) /\ i \in upto(i)
  <2>1. DOMAIN keys = 1 .. n
    OBVIOUS
  <2> QED BY <2>1 DEF Place
<1>3. \A i, j \in 1 .. n : upto(i) \subseteq upto(j) \/ upto(j) \subseteq upto(i)
  <2> TAKE i \in 1 .. n, j \in 1 .. n
  <2>1. keys[i] \in Int /\ keys[j] \in Int /\ \A k \in 1 .. n : keys[k] \in Int
    OBVIOUS
  <2>2. CASE keys[i] < keys[j] \/ (keys[i] = keys[j] /\ i <= j)
    BY <2>1, <2>2
  <2>3. CASE keys[j] < keys[i] \/ (keys[i] = keys[j] /\ j <= i)
    BY <2>1, <2>3
  <2> QED BY <2>1, <2>2, <2>3
<1>4. \A i, j \in 1 .. n : upto(i) = upto(j) => i = j
  <2> TAKE i \in 1 .. n, j \in 1 .. n
  <2> HAVE upto(i) = upto(j)
  <2>1. i \in upto(j) /\ j \in upto(i)
    BY <1>2
  <2>2. keys[i] \in Int /\ keys[j] \in Int
    OBVIOUS
  <2> QED BY <2>1, <2>2
<1> HIDE DEF upto
<1>5. ASSUME NEW i \in 1 .. n, NEW j \in 1 .. n, Cardinality(upto(i)) = Cardinality(upto(j)),
             upto(i) \subseteq upto(j)
      PROVE  i = j
  <2>1. IsFiniteSet(upto(j))
    BY <1>1, <1>2, FS_Subset
  <2>2. upto(i) = upto(j)
    BY <1>5, <2>1, FS_Subset
  <2> QED BY <1>4, <2>2
<1>6. \A i, j \in 1 .. n : Place(keys, i) = Place(keys, j) => i = j
  BY <1>2, <1>3, <1>5
<1>7. f \in [1 .. n -> 1 .. n] /\ \A i, j \in 1 .. n : f[i] = f[j] => i = j
  BY <1>6, PlaceBounds
<1>8. \A i \in 1 .. n : f[i] = Place(keys, i)
  OBVIOUS
<1> HIDE DEF f
<1>9. f \in Injection(1 .. n, 1 .. n)
  BY <1>7 DEF Injection, IsInjective
<1>10. f \in Surjection(1 .. n, 1 .. n)
  BY <1>1, <1>9, FS_Injection
<1>11. \A p \in 1 .. n : \E i \in 1 .. n : f[i] = p
  BY <1>10 DEF Surjection
<1> QED BY <1>6, <1>8, <1>11

\* A sorted sequence has each element of the original at its place.
LEMMA SortedFacts ==
    ASSUME NEW n \in Nat, NEW keys \in [1 .. n -> Int], NEW s, Len(s) = n
    PROVE  /\ Sorted(s, keys) = [p \in 1 .. n |-> Sorted(s, keys)[p]]
           /\ \A i \in 1 .. n : Sorted(s, keys)[Place(keys, i)] = s[i]
<1> DEFINE from(p) == CHOOSE i \in DOMAIN keys : Place(keys, i) = p
<1>1. DOMAIN keys = 1 .. n
  OBVIOUS
<1>2. \A p \in 1 .. n : from(p) \in 1 .. n /\ Place(keys, from(p)) = p
  <2>1. \A p \in 1 .. n : \E i \in DOMAIN keys : Place(keys, i) = p
    BY <1>1, PlacesFilled
  <2>2. \A p : (\E i \in DOMAIN keys : Place(keys, i) = p) => from(p) \in DOMAIN keys /\ Place(keys, from(p)) = p
    BY Zenon
  <2> QED BY <1>1, <2>1, <2>2
<1>3. \A i \in 1 .. n : from(Place(keys, i)) = i
  BY <1>1, <1>2, PlacesFilled, PlaceBounds
<1>4. Sorted(s, keys) = [p \in 1 .. n |-> s[from(p)]]
  BY <1>1 DEF Sorted
<1> HIDE DEF from
<1>5. \A i \in 1 .. n : Sorted(s, keys)[Place(keys, i)] = s[from(Place(keys, i))]
  BY <1>4, PlaceBounds
<1>6. Sorted(s, keys) = [p \in 1 .. n |-> Sorted(s, keys)[p]]
  BY <1>4
<1> QED BY <1>3, <1>6, <1>5

\* However they came, the elements at a place of two orders of the same keys have the same key.
LEMMA SamePlaceSameKey ==
    ASSUME NEW n \in Nat, NEW keys \in [1 .. n -> Int], NEW order \in Bijection(1 .. n, 1 .. n),
           NEW others \in [1 .. n -> Int], \A m \in 1 .. n : others[m] = keys[order[m]],
           NEW i \in 1 .. n, NEW j \in 1 .. n, Place(keys, i) = Place(others, j)
    PROVE  keys[i] = others[j]
<1> DEFINE atMost(f, k) == {m \in 1 .. n : f[m] <= k}
           below(f, k) == {m \in 1 .. n : f[m] < k}
<1>1. order \in [1 .. n -> 1 .. n] /\ others \in [1 .. n -> Int] /\ keys[i] \in Int /\ others[j] \in Int
  <2>1. order \in [1 .. n -> 1 .. n]
    BY DEF Bijection, Injection
  <2> QED BY <2>1
<1>2. ASSUME NEW k \in Int
      PROVE  /\ IsFiniteSet(atMost(keys, k)) /\ IsFiniteSet(atMost(others, k))
             /\ Cardinality(atMost(keys, k)) = Cardinality(atMost(others, k))
  <2> DEFINE f == [m \in atMost(others, k) |-> order[m]]
  <2>1. f \in [atMost(others, k) -> atMost(keys, k)]
    BY <1>1
  <2>2. \A a, b \in atMost(others, k) : f[a] = f[b] => a = b
    <3>1. \A a, b \in 1 .. n : order[a] = order[b] => a = b
      BY <1>1 DEF Bijection, Injection, IsInjective
    <3> QED BY <3>1
  <2>3. \A m \in atMost(keys, k) : \E a \in atMost(others, k) : f[a] = m
    <3>1. \A m \in 1 .. n : \E a \in 1 .. n : order[a] = m
      BY DEF Bijection, Surjection
    <3> QED BY <3>1
  <2>4. IsFiniteSet(atMost(keys, k)) /\ IsFiniteSet(atMost(others, k))
    <3>1. 1 \in Int /\ n \in Int
      OBVIOUS
    <3>2. atMost(keys, k) \in SUBSET (1 .. n) /\ atMost(others, k) \in SUBSET (1 .. n)
      OBVIOUS
    <3> HIDE DEF atMost
    <3> QED BY <3>1, <3>2, FS_Interval, FS_Subset
  <2> HIDE DEF f, atMost
  <2>5. f \in Surjection(atMost(others, k), atMost(keys, k)) /\ f \in Injection(atMost(others, k), atMost(keys, k))
    BY <2>1, <2>2, <2>3 DEF Surjection, Injection, IsInjective
  <2> QED BY <2>4, <2>5, FS_Surjection
<1>3. \A f \in [1 .. n -> Int] : \A a, b \in Int : a < b => atMost(f, a) \in SUBSET below(f, b)
  OBVIOUS
<1>4. \A f \in [1 .. n -> Int], p \in 1 .. n :
         /\ Cardinality(below(f, f[p])) < Place(f, p) /\ Place(f, p) <= Cardinality(atMost(f, f[p]))
         /\ IsFiniteSet(below(f, f[p])) /\ Place(f, p) \in Int
  <2> TAKE f \in [1 .. n -> Int], p \in 1 .. n
  <2>1. /\ IsFiniteSet({m \in 1 .. n : f[m] < f[p]}) /\ Place(f, p) \in 1 .. n
        /\ Cardinality({m \in 1 .. n : f[m] < f[p]}) < Place(f, p)
        /\ Place(f, p) <= Cardinality({m \in 1 .. n : f[m] <= f[p]})
    BY PlaceBounds
  <2>2. Place(f, p) \in Int
    BY <2>1
  <2> QED BY <2>1, <2>2, Zenon
<1>5. /\ Cardinality(below(keys, keys[i])) < Place(keys, i) /\ Place(keys, i) <= Cardinality(atMost(keys, keys[i]))
      /\ IsFiniteSet(below(keys, keys[i])) /\ Place(keys, i) \in Int
  BY <1>4, Zenon
<1>6. /\ Cardinality(below(others, others[j])) < Place(others, j)
      /\ Place(others, j) <= Cardinality(atMost(others, others[j]))
      /\ IsFiniteSet(below(others, others[j])) /\ Place(others, j) \in Int
  BY <1>1, <1>4, Zenon
<1> HIDE DEF atMost, below
<1>7. ~(keys[i] < others[j])
  <2> SUFFICES ASSUME keys[i] < others[j] PROVE FALSE
    OBVIOUS
  <2>1. Cardinality(atMost(others, keys[i])) <= Cardinality(below(others, others[j]))
    BY <1>1, <1>3, <1>6, FS_Subset
  <2>2. Cardinality(atMost(others, keys[i])) = Cardinality(atMost(keys, keys[i]))
    BY <1>1, <1>2
  <2>3. /\ Cardinality(atMost(keys, keys[i])) \in Nat /\ Cardinality(below(others, others[j])) \in Nat
    BY <1>1, <1>2, <1>6, FS_CardinalityType
  <2> QED BY <1>5, <1>6, <2>1, <2>2, <2>3
<1>8. ~(others[j] < keys[i])
  <2> SUFFICES ASSUME others[j] < keys[i] PROVE FALSE
    OBVIOUS
  <2>1. Cardinality(atMost(keys, others[j])) <= Cardinality(below(keys, keys[i]))
    BY <1>1, <1>3, <1>5, FS_Subset
  <2>2. Cardinality(atMost(others, others[j])) = Cardinality(atMost(keys, others[j]))
    BY <1>1, <1>2
  <2>3. /\ Cardinality(atMost(others, others[j])) \in Nat /\ Cardinality(below(keys, keys[i])) \in Nat
    BY <1>1, <1>2, <1>5, FS_CardinalityType
  <2> QED BY <1>5, <1>6, <2>1, <2>2, <2>3
<1> QED BY <1>1, <1>7, <1>8

\* What a row says stands in its place in the report.
LEMMA ObservationFacts ==
    ASSUME NEW row, WellFormedRow(row)
    PROVE  LET o == Observation(row) IN
           /\ o.row.source = row.source /\ o.row.type = row.type /\ o.row.status = row.status
           /\ o.row.order = row.order /\ o.row.meta = row.meta /\ o.partial = Partial(row)
           /\ o.class = BaseClass(row)
           /\ DOMAIN o.classes = 1 .. Len(row.evidence) /\ DOMAIN o.row.evidence = 1 .. Len(row.evidence)
           /\ \A k \in DOMAIN o.classes : o.classes[k] = EvidenceClass(row, o.row.evidence[k])
           /\ o.row.evidence = [k \in 1 .. Len(row.evidence) |-> o.row.evidence[k]]
<1> DEFINE keys == [i \in DOMAIN row.evidence |-> row.evidence[i].order]
           evidence == Sorted(row.evidence, keys)
           n == Len(row.evidence)
           items == ToSet(row.evidence)
           o == Observation(row)
<1>1. n \in Nat /\ row.evidence \in [1 .. n -> items] /\ DOMAIN row.evidence = 1 .. n
  BY DEF WellFormedRow
<1>2. \A i \in 1 .. n : row.evidence[i].order \in Int
  BY <1>1 DEF WellFormedRow
<1>3. keys \in [1 .. n -> Int]
  BY <1>1, <1>2
<1> HIDE DEF keys
<1>4. evidence \in [1 .. n -> items]
  <2>1. \A p \in 1 .. n : \E i \in 1 .. n : evidence[p] = row.evidence[i]
    <3>1. \A p \in 1 .. n : \E i \in 1 .. n : Place(keys, i) = p
      BY <1>1, <1>3, PlacesFilled
    <3>2. \A i \in 1 .. n : evidence[Place(keys, i)] = row.evidence[i]
      BY <1>1, <1>3, SortedFacts
    <3> HIDE DEF evidence
    <3> QED BY <3>1, <3>2
  <2>2. evidence = [p \in 1 .. n |-> evidence[p]]
    BY <1>1, <1>3, SortedFacts
  <2> HIDE DEF evidence
  <2> QED BY <1>1, <2>1, <2>2
<1>5. o = [row |-> [row EXCEPT !.evidence = evidence], class |-> BaseClass(row), meaning |-> Meaning(row),
           partial |-> Partial(row), truncated |-> Truncated(row),
           classes |-> [i \in DOMAIN evidence |-> EvidenceClass(row, evidence[i])]]
  BY DEF Observation, keys
<1> HIDE DEF evidence, o
<1>6. /\ o.row.source = row.source /\ o.row.type = row.type /\ o.row.status = row.status
      /\ o.row.order = row.order /\ o.row.meta = row.meta /\ o.row.evidence = evidence
  BY <1>5 DEF WellFormedRow
<1>7. o.partial = Partial(row) /\ o.class = BaseClass(row)
  BY <1>5
<1>8. o.classes = [i \in 1 .. n |-> EvidenceClass(row, evidence[i])]
  BY <1>4, <1>5
<1>9. DOMAIN o.classes = 1 .. n /\ \A k \in 1 .. n : o.classes[k] = EvidenceClass(row, evidence[k])
  BY <1>8
<1>10. evidence = [k \in 1 .. n |-> evidence[k]] /\ DOMAIN evidence = 1 .. n
  BY <1>1, <1>4
<1> QED BY <1>6, <1>7, <1>9, <1>10 DEF o

\* No rows are well-formed rows,
LEMMA NoRows == WellFormedRows(<<>>)
<1>1. ToSet(<<>>) = {}
  BY DEF ToSet
<1>2. <<>> \in Seq(ToSet(<<>>))
  OBVIOUS
<1> QED BY <1>1, <1>2 DEF WellFormedRows

\* and so are the first of some.
LEMMA FirstRows ==
    ASSUME NEW r, WellFormedRows(r), NEW n \in Nat, n <= Len(r)
    PROVE  WellFormedRows(SubSeq(r, 1, n))
<1>1. PICK first : first = SubSeq(r, 1, n)
  OBVIOUS
<1>2. first = [i \in 1 .. n |-> r[i]] /\ Len(r) \in Nat
  BY <1>1 DEF WellFormedRows
<1>3. first \in [1 .. n -> ToSet(first)]
  BY <1>2 DEF ToSet
<1>4. \A row \in ToSet(first) : row \in ToSet(r)
  BY <1>2 DEF ToSet, WellFormedRows
<1>5. first \in Seq(ToSet(first))
  BY <1>3
<1> QED BY <1>1, <1>4, <1>5 DEF WellFormedRows

\* The keys by which a report sorts its rows.
Orders(r) == [i \in DOMAIN r |-> r[i].order]

\* The rows of a report, before they have names.
SortedRows(r) == Sorted([i \in DOMAIN r |-> Observation(r[i])], Orders(r))

\* Each row collected has its place among them.
LEMMA RowsSorted ==
    ASSUME NEW r, WellFormedRows(r)
    PROVE  /\ Len(r) \in Nat /\ DOMAIN r = 1 .. Len(r) /\ Orders(r) \in [1 .. Len(r) -> Int]
           /\ \A i \in 1 .. Len(r) : WellFormedRow(r[i])
           /\ DOMAIN SortedRows(r) = 1 .. Len(r)
           /\ \A i \in 1 .. Len(r) : SortedRows(r)[Place(Orders(r), i)] = Observation(r[i])
<1> DEFINE n == Len(r)
           says == [i \in DOMAIN r |-> Observation(r[i])]
<1>1. n \in Nat /\ DOMAIN r = 1 .. n
  BY DEF WellFormedRows
<1>2. \A i \in 1 .. n : WellFormedRow(r[i])
  BY <1>1 DEF WellFormedRows
<1>3. Orders(r) \in [1 .. n -> Int]
  BY <1>1, <1>2 DEF WellFormedRow, Orders
<1>4. Len(says) = n
  <2>1. says \in [1 .. n -> {says[i] : i \in 1 .. n}]
    BY <1>1
  <2>2. \A S : \A s \in [1 .. n -> S] : Len(s) = n
    BY <1>1
  <2> HIDE DEF says
  <2> QED BY <2>1, <2>2
<1>5. \A i \in 1 .. n : says[i] = Observation(r[i])
  BY <1>1
<1>6. SortedRows(r) = Sorted(says, Orders(r))
  BY DEF SortedRows
<1> HIDE DEF says
<1>7. \A i \in 1 .. n : SortedRows(r)[Place(Orders(r), i)] = says[i]
  BY <1>1, <1>3, <1>4, <1>6, SortedFacts
<1>8. DOMAIN SortedRows(r) = 1 .. n
  BY <1>4, <1>6 DEF Sorted
<1> QED BY <1>1, <1>2, <1>3, <1>5, <1>7, <1>8

\* The rows of a report are these with their names.
LEMMA ReportRows ==
    ASSUME NEW r, WellFormedRows(r), NEW f, NEW t
    PROVE  NewReport(r, f, t).observations
             = [p \in 1 .. Len(r) |-> WithId(SortedRows(r)[p], Id(SortedRows(r), p))]
<1>1. NewReport(r, f, t).observations = [p \in DOMAIN SortedRows(r) |-> WithId(SortedRows(r)[p], Id(SortedRows(r), p))]
  BY DEF NewReport, Orders, SortedRows
<1> QED BY <1>1, RowsSorted

\* The rows of a report are a sequence.
LEMMA ReportIsSeq ==
    ASSUME NEW r, WellFormedRows(r), NEW f, NEW t
    PROVE  /\ NewReport(r, f, t).observations \in Seq(ToSet(NewReport(r, f, t).observations))
           /\ Len(NewReport(r, f, t).observations) = Len(r)
<1>1. PICK os : os = NewReport(r, f, t).observations
  OBVIOUS
<1>2. Len(r) \in Nat
  BY RowsSorted
<1>3. os = [p \in 1 .. Len(r) |-> WithId(SortedRows(r)[p], Id(SortedRows(r), p))]
  BY <1>1, ReportRows
<1>4. os \in [1 .. Len(r) -> ToSet(os)]
  BY <1>3 DEF ToSet
<1>5. os \in Seq(ToSet(os)) /\ Len(os) = Len(r)
  BY <1>2, <1>4
<1> QED BY <1>1, <1>5

\* A report counts its rows.
LEMMA ReportCounts ==
    ASSUME NEW r, WellFormedRows(r), NEW f, NEW t
    PROVE  NewReport(r, f, t).summary.results = Len(r)
<1>1. NewReport(r, f, t).summary = Summary(NewReport(r, f, t).observations)
  BY DEF NewReport
<1>2. \A os : Summary(os).results = Len(os)
  BY DEF Summary
<1> QED BY <1>1, <1>2, ReportIsSeq

\* No two rows of a report have one name.
LEMMA NamesUnique ==
    ASSUME NEW r, WellFormedRows(r), NEW f, NEW t
    PROVE  \A p, q \in DOMAIN NewReport(r, f, t).observations :
              NewReport(r, f, t).observations[p].id = NewReport(r, f, t).observations[q].id => p = q
<1>1. PICK os : os = NewReport(r, f, t).observations
  OBVIOUS
<1>2. PICK sorted : sorted = SortedRows(r)
  OBVIOUS
<1>3. Len(r) \in Nat /\ DOMAIN os = 1 .. Len(r) /\ \A p \in 1 .. Len(r) : os[p].id = Id(sorted, p)
  <2>1. os = [p \in 1 .. Len(r) |-> WithId(sorted[p], Id(sorted, p))]
    BY <1>1, <1>2, ReportRows
  <2>2. \A o, id : WithId(o, id).id = id
    BY DEF WithId
  <2> QED BY <2>1, <2>2, RowsSorted
<1>4. ASSUME NEW p \in 1 .. Len(r), NEW q \in 1 .. Len(r), Id(sorted, p) = Id(sorted, q), p < q PROVE FALSE
  <2> DEFINE same(m) == {j \in 1 .. m : sorted[j].row.order = sorted[m].row.order}
  <2>1. \A m : Id(sorted, m) = <<sorted[m].row.order, Cardinality(same(m))>>
    BY Zenon DEF Id
  <2>2. sorted[p].row.order = sorted[q].row.order /\ Cardinality(same(p)) = Cardinality(same(q))
    <3>1. \A a, b, c, d : <<a, b>> = <<c, d>> => a = c /\ b = d
      OBVIOUS
    <3> HIDE DEF same
    <3>2. <<sorted[p].row.order, Cardinality(same(p))>> = <<sorted[q].row.order, Cardinality(same(q))>>
      BY <1>4, <2>1, Zenon
    <3> QED BY <3>1, <3>2, Zenon
  <2>3. same(p) \in SUBSET same(q) /\ q \in same(q) /\ q \notin same(p) /\ same(q) \in SUBSET (1 .. q)
    BY <1>3, <1>4, <2>2
  <2>4. 1 \in Int /\ q \in Int
    BY <1>3
  <2> HIDE DEF same
  <2>5. IsFiniteSet(same(q))
    BY <2>3, <2>4, FS_Interval, FS_Subset
  <2> QED BY <2>2, <2>3, <2>5, FS_Subset
<1>5. \A p, q \in DOMAIN os : os[p].id = os[q].id => p = q
  <2>1. \A p, q \in 1 .. Len(r) : p < q \/ q < p \/ p = q
    BY <1>3
  <2> QED BY <1>3, <1>4, <2>1
<1> QED BY <1>1, <1>5

\* Every row collected is told of in the report, and nothing else is.
LEMMA RowsTold ==
    ASSUME NEW r, WellFormedRows(r), NEW f, NEW t, NEW os, os = NewReport(r, f, t).observations
    PROVE  /\ \A i \in DOMAIN r : WellFormedRow(r[i])
           /\ \A i \in DOMAIN r : \E p \in DOMAIN os : os[p] = WithId(Observation(r[i]), os[p].id)
           /\ \A p \in DOMAIN os : \E i \in DOMAIN r : os[p] = WithId(Observation(r[i]), os[p].id)
<1>1. PICK sorted : sorted = SortedRows(r)
  OBVIOUS
<1>2. PICK n, keys : n = Len(r) /\ keys = Orders(r)
  OBVIOUS
<1>3. n \in Nat /\ DOMAIN r = 1 .. n /\ keys \in [1 .. n -> Int] /\ \A i \in 1 .. n : WellFormedRow(r[i])
  BY <1>2, RowsSorted
<1>4. DOMAIN os = 1 .. n /\ \A p \in 1 .. n : os[p] = WithId(sorted[p], os[p].id)
  <2>1. os = [p \in 1 .. n |-> WithId(sorted[p], Id(sorted, p))]
    BY <1>1, <1>2, ReportRows
  <2>2. \A o, id : WithId(o, id).id = id
    BY DEF WithId
  <2> QED BY <2>1, <2>2
<1>5. \A i \in 1 .. n : sorted[Place(keys, i)] = Observation(r[i])
  BY <1>1, <1>2, RowsSorted
<1>6. \A i \in 1 .. n : Place(keys, i) \in 1 .. n
  BY <1>3, PlaceBounds
<1>7. \A p \in 1 .. n : \E i \in 1 .. n : Place(keys, i) = p
  BY <1>3, PlacesFilled
<1>8. \A i \in 1 .. n : \E p \in 1 .. n : os[p] = WithId(Observation(r[i]), os[p].id)
  BY <1>4, <1>5, <1>6
<1>9. \A p \in 1 .. n : \E i \in 1 .. n : os[p] = WithId(Observation(r[i]), os[p].id)
  BY <1>4, <1>5, <1>7
<1>10. \A i \in DOMAIN r : \E p \in DOMAIN os : os[p] = WithId(Observation(r[i]), os[p].id)
  <2>1. DOMAIN os = 1 .. n
    BY <1>4
  <2>2. SUFFICES ASSUME NEW i \in DOMAIN r PROVE \E p \in DOMAIN os : os[p] = WithId(Observation(r[i]), os[p].id)
    OBVIOUS
  <2>3. i \in 1 .. n
    BY <1>3, <2>2
  <2>4. PICK p \in 1 .. n : os[p] = WithId(Observation(r[i]), os[p].id)
    BY <1>8, <2>3
  <2> QED BY <2>1, <2>4
<1>11. \A p \in DOMAIN os : \E i \in DOMAIN r : os[p] = WithId(Observation(r[i]), os[p].id)
  <2>1. SUFFICES ASSUME NEW p \in DOMAIN os PROVE \E i \in DOMAIN r : os[p] = WithId(Observation(r[i]), os[p].id)
    OBVIOUS
  <2>2. p \in 1 .. n
    BY <1>4, <2>1
  <2>3. PICK i \in 1 .. n : os[p] = WithId(Observation(r[i]), os[p].id)
    BY <1>9, <2>2
  <2>4. i \in DOMAIN r
    BY <1>3
  <2> QED BY <2>3, <2>4
<1>12. \A i \in DOMAIN r : WellFormedRow(r[i])
  BY <1>3
<1> QED BY <1>10, <1>11, <1>12

\* The types and sources of the rows, and those whose rows all succeeded in full.
SourcesOf(r) == {<<r[i].type, r[i].source>> : i \in DOMAIN r}
Full(r, s) ==
    \A i \in DOMAIN r : <<r[i].type, r[i].source>> = s => r[i].status \in Success /\ r[i].meta = "none"

\* "complete", "failed" and "empty" are said of no other rows.
LEMMA ReportStatus ==
    ASSUME NEW r, WellFormedRows(r), NEW f, NEW t, t => f
    PROVE  LET status == NewReport(r, f, t).status IN
           /\ status = "complete" <=> r # <<>> /\ ~f /\ \A s \in SourcesOf(r) : Full(r, s)
           /\ status = "failed" => \A i \in DOMAIN r : r[i].status \notin Success
           /\ status = "empty" => r = <<>> /\ ~f
<1> DEFINE all == ToSet(r)
           cut == t \/ \E row \in all : Truncated(row)
           partial == f \/ cut \/ \E row \in all : row.status \notin Success \/ Partial(row)
           fruitless == /\ \A row \in all : row.status \notin Success
                        /\ f \/ \E row \in all : row.status \in Failure
           status == NewReport(r, f, t).status
<1>1. status = IF all = {} /\ ~partial THEN "empty"
               ELSE IF fruitless THEN "failed" ELSE IF partial THEN "partial" ELSE "complete"
  BY DEF NewReport
<1>2. all = {r[i] : i \in DOMAIN r} /\ (all = {} <=> r = <<>>)
  <2>1. Len(r) \in Nat /\ DOMAIN r = 1 .. Len(r)
    BY DEF WellFormedRows
  <2>2. Len(r) > 0 => 1 \in DOMAIN r
    BY <2>1
  <2>3. r # <<>> => Len(r) > 0
    BY <2>1 DEF WellFormedRows
  <2>4. all = {r[i] : i \in DOMAIN r}
    BY DEF ToSet
  <2>5. r = <<>> => DOMAIN r = {}
    OBVIOUS
  <2> HIDE DEF all
  <2> QED BY <2>2, <2>3, <2>4, <2>5
<1> HIDE DEF all
<1>3. (\A s \in SourcesOf(r) : Full(r, s)) <=> \A row \in all : row.status \in Success /\ row.meta = "none"
  BY <1>2 DEF Full, SourcesOf
<1>4. \A row : (Truncated(row) => row.meta # "none") /\ (row.status \in Success => (Partial(row) <=> row.meta # "none"))
  BY DEF Truncated, Partial, Success
<1>5. ~partial <=> ~f /\ \A row \in all : row.status \in Success /\ row.meta = "none"
  <2>1. ASSUME ~partial PROVE ~f /\ \A row \in all : row.status \in Success /\ row.meta = "none"
    BY <1>4, <2>1
  <2>2. ASSUME ~f, \A row \in all : row.status \in Success /\ row.meta = "none" PROVE ~partial
    BY <1>4, <2>2
  <2> QED BY <2>1, <2>2
<1>6. fruitless => \A row \in all : row.status \notin Success
  OBVIOUS
<1> HIDE DEF partial, fruitless, status
<1>7. all # {} /\ ~partial => ~fruitless
  BY <1>5, <1>6
<1>8. status = "complete" <=> r # <<>> /\ ~partial
  BY <1>1, <1>2, <1>7
<1>9. status = "failed" => \A i \in DOMAIN r : r[i].status \notin Success
  BY <1>1, <1>2, <1>6
<1>10. status = "empty" => r = <<>> /\ ~f
  BY <1>1, <1>2, <1>5
<1>11. status = "complete" <=> r # <<>> /\ ~f /\ \A s \in SourcesOf(r) : Full(r, s)
  BY <1>3, <1>5, <1>8
<1> QED BY <1>9, <1>10, <1>11 DEF status

\* The counts of a report are those of the sources of its rows.
LEMMA ReportSummary ==
    ASSUME NEW r, WellFormedRows(r), NEW f, NEW t
    PROVE  LET summary == NewReport(r, f, t).summary IN
           /\ summary.successful = Cardinality({s \in SourcesOf(r) : Full(r, s)})
           /\ summary.successful + summary.failed + summary.partial = Cardinality(SourcesOf(r))
<1>1. PICK os : os = NewReport(r, f, t).observations
  OBVIOUS
<1> DEFINE sources == {<<os[i].row.type, os[i].row.source>> : i \in DOMAIN os}
           in(bits) == {s \in sources : SourceBits(os, s) = bits}
           summary == NewReport(r, f, t).summary
<1>2. summary = Summary(os)
  BY <1>1 DEF NewReport
<1>3. /\ summary.successful = Cardinality(in(1)) /\ summary.failed = Cardinality(in(2))
      /\ summary.partial = Cardinality(in(3))
  <2> HIDE DEF summary
  <2> QED BY <1>2 DEF Summary
<1>4. \A i \in DOMAIN r : WellFormedRow(r[i]) /\ \E p \in DOMAIN os : os[p] = WithId(Observation(r[i]), os[p].id)
  <2>1. \A i \in DOMAIN r : WellFormedRow(r[i])
    BY <1>1, RowsTold
  <2>2. \A i \in DOMAIN r : \E p \in DOMAIN os : os[p] = WithId(Observation(r[i]), os[p].id)
    BY <1>1, RowsTold
  <2> QED BY <2>1, <2>2
<1>5. \A p \in DOMAIN os : \E i \in DOMAIN r : os[p] = WithId(Observation(r[i]), os[p].id)
  BY <1>1, RowsTold
<1>6. ASSUME NEW p \in DOMAIN os, NEW i \in DOMAIN r, os[p] = WithId(Observation(r[i]), os[p].id)
      PROVE  /\ os[p].row.type = r[i].type /\ os[p].row.source = r[i].source
             /\ os[p].row.status = r[i].status /\ os[p].partial = Partial(r[i])
  <2>1. os[p].row = Observation(r[i]).row /\ os[p].partial = Observation(r[i]).partial
    <3>1. \A o, id : WithId(o, id).row = o.row /\ WithId(o, id).partial = o.partial
      BY DEF WithId
    <3> QED BY <1>6, <3>1, Zenon
  <2> QED BY <1>4, <2>1, ObservationFacts
<1>7. IsFiniteSet(DOMAIN os)
  <2>1. os \in Seq(ToSet(os))
    BY <1>1, ReportIsSeq
  <2>2. 1 \in Int /\ Len(os) \in Int /\ DOMAIN os = 1 .. Len(os)
    BY <2>1
  <2> QED BY <2>2, FS_Interval
<1> HIDE DEF summary
<1>8. sources = SourcesOf(r)
  <2>1. sources \subseteq SourcesOf(r)
    BY <1>5, <1>6 DEF SourcesOf
  <2>2. SourcesOf(r) \subseteq sources
    BY <1>4, <1>6 DEF SourcesOf
  <2> QED BY <2>1, <2>2
<1>9. ASSUME NEW s \in sources
      PROVE  /\ SourceBits(os, s) \in {1, 2, 3}
             /\ SourceBits(os, s) = 1 <=> Full(r, s)
  <2> DEFINE own == {i \in DOMAIN os : <<os[i].row.type, os[i].row.source>> = s}
             good == \E i \in own : os[i].row.status \in Success
             bad == \E i \in own : os[i].row.status \notin Success \/ os[i].partial
  <2>1. SourceBits(os, s) = (IF good THEN 1 ELSE 0) + (IF bad THEN 2 ELSE 0)
    BY Zenon DEF SourceBits
  <2>2. \E i \in own : TRUE
    OBVIOUS
  <2>3. ~good => bad
    BY <2>2
  <2>4. bad <=> ~Full(r, s)
    <3>1. \A i \in DOMAIN r : (r[i].status \notin Success \/ Partial(r[i])) <=> ~(r[i].status \in Success /\ r[i].meta = "none")
      BY DEF Partial, Success
    <3>2. ASSUME bad PROVE ~Full(r, s)
      BY <1>5, <1>6, <3>1, <3>2 DEF Full
    <3>3. ASSUME ~Full(r, s) PROVE bad
      BY <1>4, <1>6, <3>1, <3>3 DEF Full
    <3> QED BY <3>2, <3>3
  <2> HIDE DEF good, bad
  <2> QED BY <2>1, <2>3, <2>4
<1>10. IsFiniteSet(sources)
  <2> DEFINE g == [i \in DOMAIN os |-> <<os[i].row.type, os[i].row.source>>]
  <2>1. g \in Surjection(DOMAIN os, sources)
    BY DEF Surjection
  <2> HIDE DEF g, sources
  <2> QED BY <1>7, <2>1, FS_Surjection
<1>11. in(1) = {s \in SourcesOf(r) : Full(r, s)}
  BY <1>8, <1>9
<1>12. /\ in(1) \cup (in(2) \cup in(3)) = sources /\ in(1) \cap (in(2) \cup in(3)) = {} /\ in(2) \cap in(3) = {}
       /\ in(1) \in SUBSET sources /\ in(2) \in SUBSET sources /\ in(3) \in SUBSET sources
  <2> HIDE DEF sources
  <2> QED BY <1>9
<1> HIDE DEF in, sources
<1>13. /\ IsFiniteSet(in(1)) /\ IsFiniteSet(in(2)) /\ IsFiniteSet(in(3))
       /\ Cardinality(in(1)) \in Nat /\ Cardinality(in(2)) \in Nat /\ Cardinality(in(3)) \in Nat
  BY <1>10, <1>12, FS_Subset, FS_CardinalityType
<1>14. Cardinality({}) = 0
  BY FS_EmptySet
<1>15. /\ IsFiniteSet(in(2) \cup in(3))
       /\ Cardinality(in(2) \cup in(3)) = Cardinality(in(2)) + Cardinality(in(3)) - Cardinality(in(2) \cap in(3))
  BY <1>13, FS_Union
<1>16. Cardinality(in(1) \cup (in(2) \cup in(3)))
         = Cardinality(in(1)) + Cardinality(in(2) \cup in(3)) - Cardinality(in(1) \cap (in(2) \cup in(3)))
  BY <1>13, <1>15, FS_Union
<1>17. Cardinality(in(1)) + Cardinality(in(2)) + Cardinality(in(3)) = Cardinality(SourcesOf(r))
  <2>1. Cardinality(in(2) \cup in(3)) = Cardinality(in(2)) + Cardinality(in(3))
    <3>1. Cardinality(in(2) \cap in(3)) = 0
      BY <1>12, <1>14
    <3> QED BY <1>13, <1>15, <3>1
  <2>2. Cardinality(in(1) \cap (in(2) \cup in(3))) = 0
    BY <1>12, <1>14
  <2>3. Cardinality(in(1) \cup (in(2) \cup in(3))) = Cardinality(SourcesOf(r))
    BY <1>8, <1>12
  <2> QED BY <1>13, <1>16, <2>1, <2>2, <2>3
<1> QED BY <1>3, <1>11, <1>17 DEF summary

\* Only histories of bitcoin addresses hold correlated evidence.
LEMMA CorrelatedFromBitcoin ==
    ASSUME NEW r, WellFormedRows(r), NEW f, NEW t
    PROVE  LET os == NewReport(r, f, t).observations IN
           \A c \in NewReport(r, f, t).correlations :
              \E p \in DOMAIN os : c[1] = os[p].id /\ os[p].row.source = "bitcoin"
<1>1. PICK os : os = NewReport(r, f, t).observations
  OBVIOUS
<1>2. (\A i \in DOMAIN r : WellFormedRow(r[i]))
        /\ \A q \in DOMAIN os : \E i \in DOMAIN r : os[q] = WithId(Observation(r[i]), os[q].id)
  <2>1. \A i \in DOMAIN r : WellFormedRow(r[i])
    BY <1>1, RowsTold
  <2>2. \A q \in DOMAIN os : \E i \in DOMAIN r : os[q] = WithId(Observation(r[i]), os[q].id)
    BY <1>1, RowsTold
  <2> QED BY <2>1, <2>2
<1> SUFFICES ASSUME NEW c \in NewReport(r, f, t).correlations
             PROVE  \E p \in DOMAIN os : c[1] = os[p].id /\ os[p].row.source = "bitcoin"
  BY <1>1
<1>3. c \in Correlations(os)
  BY <1>1 DEF NewReport
<1>4. PICK p \in DOMAIN os : c \in {<<os[p].id, k>> : k \in {i \in DOMAIN os[p].classes : os[p].classes[i] = "correlated"}}
  <2>1. ToSet(os) = {os[p] : p \in DOMAIN os}
    BY DEF ToSet
  <2> QED BY <1>3, <2>1 DEF Correlations
<1>5. PICK k \in DOMAIN os[p].classes : os[p].classes[k] = "correlated" /\ c = <<os[p].id, k>>
  BY <1>4
<1>6. PICK i \in DOMAIN r : WellFormedRow(r[i]) /\ os[p] = WithId(Observation(r[i]), os[p].id)
  BY <1>2
<1>7. os[p].classes = Observation(r[i]).classes /\ os[p].row = Observation(r[i]).row
  <2>1. \A o, id : WithId(o, id).classes = o.classes /\ WithId(o, id).row = o.row
    BY DEF WithId
  <2> QED BY <1>6, <2>1, Zenon
<1>8. EvidenceClass(r[i], os[p].row.evidence[k]) = "correlated" /\ os[p].row.source = r[i].source
  <2>1. Observation(r[i]).row.source = r[i].source
    BY <1>6, ObservationFacts
  <2>2. \A m \in DOMAIN Observation(r[i]).classes :
           Observation(r[i]).classes[m] = EvidenceClass(r[i], Observation(r[i]).row.evidence[m])
    BY <1>6, ObservationFacts
  <2> QED BY <1>5, <1>7, <2>1, <2>2
<1>9. BaseClass(r[i]) # "correlated"
  BY DEF BaseClass
<1>10. Kind(r[i]) = "bitcoin"
  BY <1>8, <1>9 DEF EvidenceClass
<1>11. \A known : known \in Contracts /\ known.kind = "bitcoin" => known.source = "bitcoin"
  BY DEF Contracts, Contract
<1>12. r[i].source = "bitcoin"
  <2> DEFINE known == {q \in Contracts : q.source = r[i].source /\ q.type = r[i].type /\ q.target = r[i].target}
  <2>1. known # {}
    <3> SUFFICES ASSUME known = {} PROVE FALSE
      OBVIOUS
    <3>1. Kind(r[i]) = CASE known # {} -> (CHOOSE q \in known : TRUE).kind
                         [] known = {} /\ r[i].type = "website" /\ r[i].target \in {"username", "email"} -> "website"
                         [] OTHER -> "unknown"
      BY Zenon DEF Kind
    <3> HIDE DEF known
    <3> QED BY <1>10, <3>1
  <2>2. Kind(r[i]) = (CHOOSE q \in known : TRUE).kind
    <3>1. Kind(r[i]) = CASE known # {} -> (CHOOSE q \in known : TRUE).kind
                         [] known = {} /\ r[i].type = "website" /\ r[i].target \in {"username", "email"} -> "website"
                         [] OTHER -> "unknown"
      BY Zenon DEF Kind
    <3> HIDE DEF known
    <3> QED BY <2>1, <3>1
  <2>3. PICK q \in known : q = (CHOOSE one \in known : TRUE)
    BY <2>1
  <2>4. q.source = r[i].source /\ q \in Contracts
    BY <2>3
  <2> QED BY <1>10, <1>11, <2>2, <2>3, <2>4
<1> QED BY <1>5, <1>8, <1>12

\* A report is made of its sorted rows and of the set of them.
Assembled(sorted, all, f, t) ==
    LET observations == [i \in DOMAIN sorted |-> WithId(sorted[i], Id(sorted, i))]
        cut == t \/ \E row \in all : Truncated(row)
        partial == f \/ cut \/ \E row \in all : row.status \notin Success \/ Partial(row)
        fruitless == /\ \A row \in all : row.status \notin Success
                     /\ f \/ \E row \in all : row.status \in Failure IN
    [observations |-> observations, partial |-> partial, truncated |-> cut,
     status |-> IF all = {} /\ ~partial THEN "empty"
                ELSE IF fruitless THEN "failed" ELSE IF partial THEN "partial" ELSE "complete",
     summary |-> Summary(observations),
     correlations |-> Correlations(observations)]

\* The order in which the rows came does not matter.
LEMMA OrderIrrelevant ==
    ASSUME NEW r, WellFormedRows(r), NEW order, order \in Bijection(DOMAIN r, DOMAIN r), NEW f, NEW t
    PROVE  NewReport([i \in DOMAIN r |-> r[order[i]]], f, t) = NewReport(r, f, t)
<1> DEFINE n == Len(r)
           q == [i \in DOMAIN r |-> r[order[i]]]
           says(s) == [i \in DOMAIN s |-> Observation(s[i])]
           sorted(s) == Sorted(says(s), Orders(s))
<1>1. n \in Nat /\ DOMAIN r = 1 .. n
  BY DEF WellFormedRows
<1>2. \A i \in 1 .. n : r[i].order \in Int
  BY <1>1 DEF WellFormedRows, WellFormedRow, ToSet
<1>3. order \in [1 .. n -> 1 .. n] /\ \A m \in 1 .. n : \E i \in 1 .. n : order[i] = m
  BY <1>1 DEF Bijection, Injection, Surjection
<1>4. DOMAIN q = 1 .. n /\ \A i \in 1 .. n : q[i] = r[order[i]]
  BY <1>1
<1>5. Orders(r) \in [1 .. n -> Int] /\ Orders(q) = [i \in 1 .. n |-> Orders(r)[order[i]]] /\ Orders(q) \in [1 .. n -> Int]
  <2> HIDE DEF q
  <2> QED BY <1>1, <1>2, <1>3, <1>4 DEF Orders
<1>6. ToSet(q) = ToSet(r)
  <2>1. ToSet(q) \subseteq ToSet(r)
    BY <1>1, <1>3, <1>4 DEF ToSet
  <2>2. ASSUME NEW m \in 1 .. n PROVE r[m] \in ToSet(q)
    <3>1. PICK i \in 1 .. n : order[i] = m
      BY <1>3
    <3>2. r[m] = q[i] /\ i \in DOMAIN q
      BY <1>4, <3>1
    <3> HIDE DEF q
    <3> QED BY <3>2 DEF ToSet
  <2> QED BY <1>1, <2>1, <2>2 DEF ToSet
<1>7. Len(says(r)) = n /\ Len(says(q)) = n
  <2>1. \A s : DOMAIN s = 1 .. n => says(s) \in [1 .. n -> {says(s)[i] : i \in 1 .. n}]
    OBVIOUS
  <2>2. \A S : \A s \in [1 .. n -> S] : Len(s) = n
    BY <1>1
  <2> HIDE DEF says, q
  <2> QED BY <1>1, <1>4, <2>1, <2>2
<1>8. \A i \in 1 .. n : says(r)[i] = Observation(r[i]) /\ says(q)[i] = Observation(q[i])
  BY <1>1, <1>4
<1> HIDE DEF says, q
<1>9. ASSUME NEW p \in 1 .. n PROVE sorted(q)[p] = sorted(r)[p]
  <2>1. PICK i \in 1 .. n : Place(Orders(r), i) = p
    <3>1. \A m \in 1 .. n : \E k \in 1 .. n : Place(Orders(r), k) = m
      BY <1>1, <1>5, PlacesFilled
    <3> QED BY <3>1
  <2>2. PICK j \in 1 .. n : Place(Orders(q), j) = p
    <3>1. \A m \in 1 .. n : \E k \in 1 .. n : Place(Orders(q), k) = m
      BY <1>1, <1>5, PlacesFilled
    <3> QED BY <3>1
  <2>3. sorted(r)[p] = Observation(r[i]) /\ sorted(q)[p] = Observation(q[j])
    <3>1. \A m \in 1 .. n : sorted(r)[Place(Orders(r), m)] = says(r)[m]
      BY <1>1, <1>5, <1>7, SortedFacts
    <3>2. \A m \in 1 .. n : sorted(q)[Place(Orders(q), m)] = says(q)[m]
      BY <1>1, <1>5, <1>7, SortedFacts
    <3> QED BY <1>8, <2>1, <2>2, <3>1, <3>2
  <2>4. Orders(r)[i] = Orders(q)[j]
    <3>1. order \in Bijection(1 .. n, 1 .. n)
      BY <1>1
    <3>2. \A m \in 1 .. n : Orders(q)[m] = Orders(r)[order[m]]
      BY <1>5
    <3>3. Place(Orders(r), i) = Place(Orders(q), j)
      BY <2>1, <2>2
    <3>4. \A keys, others \in [1 .. n -> Int] : (\A m \in 1 .. n : others[m] = keys[order[m]]) =>
             \A a, b \in 1 .. n : Place(keys, a) = Place(others, b) => keys[a] = others[b]
      <4> HIDE DEF n
      <4> QED BY <1>1, <3>1, SamePlaceSameKey
    <3> HIDE DEF n
    <3>5. PICK keys, others : keys = Orders(r) /\ others = Orders(q)
      OBVIOUS
    <3>6. keys \in [1 .. n -> Int] /\ others \in [1 .. n -> Int] /\ \A m \in 1 .. n : others[m] = keys[order[m]]
      BY <1>5, <3>2, <3>5
    <3>7. Place(keys, i) = Place(others, j)
      BY <3>3, <3>5
    <3>8. keys[i] = others[j]
      BY <3>4, <3>6, <3>7
    <3> QED BY <3>5, <3>8
  <2>5. r[i].order = q[j].order /\ r[i] \in ToSet(r) /\ q[j] \in ToSet(r)
    BY <1>1, <1>4, <1>6, <2>4 DEF Orders, ToSet
  <2>6. Observation(r[i]) = Observation(q[j])
    BY <2>5 DEF WellFormedRows
  <2> QED BY <2>3, <2>6
<1>10. sorted(q) = sorted(r)
  <2>1. sorted(r) = [p \in 1 .. n |-> sorted(r)[p]]
    BY <1>1, <1>5, <1>7, SortedFacts
  <2>2. sorted(q) = [p \in 1 .. n |-> sorted(q)[p]]
    BY <1>1, <1>5, <1>7, SortedFacts
  <2> HIDE DEF sorted
  <2> QED BY <1>9, <2>1, <2>2
<1>11. \A s : NewReport(s, f, t) = Assembled(sorted(s), ToSet(s), f, t)
  BY Zenon DEF NewReport, Assembled, Orders, says
<1> HIDE DEF sorted
<1>12. NewReport(q, f, t) = NewReport(r, f, t)
  BY <1>6, <1>10, <1>11, Zenon
<1> QED BY <1>12 DEF q

\* The records that quote a row of a report.
Quotations(o) ==
    {[id |-> <<o.id, "e", k>>, value |-> o.row.evidence[k], class |-> o.classes[k]] : k \in DOMAIN o.classes}
    \cup {[id |-> <<o.id, "m", n>>, value |-> [kind |-> kind, order |-> 0], class |-> o.class]
          : n \in {0, 1}, kind \in {"meta", "pwned"}}

\* A row's records quote it.
LEMMA RecordsQuote ==
    ASSUME NEW o, NEW m \in Nat, DOMAIN o.row.evidence = 1 .. m, DOMAIN o.classes = 1 .. m, NEW sensitive
    PROVE  RecordsOf(o, sensitive) \in Seq(Quotations(o))
<1> DEFINE evidence == [i \in DOMAIN o.row.evidence |->
                           [id |-> <<o.id, "e", i>>, value |-> o.row.evidence[i], class |-> o.classes[i]]]
           record(n, kind) == [id |-> <<o.id, "m", n>>, value |-> [kind |-> kind, order |-> 0], class |-> o.class]
           metadata == IF o.row.meta = "none" THEN <<>> ELSE <<record(1, "meta")>>
           verdict == <<record(0, "pwned")>>
           Q == Quotations(o)
<1>1. \A i \in 1 .. m : evidence[i] \in Q
  BY DEF Quotations
<1>2. record(1, "meta") \in Q /\ record(0, "pwned") \in Q
  BY DEF Quotations
<1>3. DOMAIN evidence = 1 .. m /\ evidence = [i \in 1 .. m |-> evidence[i]]
  OBVIOUS
<1>4. RecordsOf(o, sensitive) =
         IF sensitive THEN IF o.row.status \in Success THEN verdict ELSE <<>> ELSE evidence \o metadata
  BY DEF RecordsOf
<1> HIDE DEF evidence, record, Q
<1>5. evidence \in Seq(Q)
  <2>1. evidence \in [1 .. m -> Q]
    BY <1>1, <1>3
  <2> QED BY <2>1
<1>6. metadata \in Seq(Q) /\ verdict \in Seq(Q) /\ <<>> \in Seq(Q)
  <2>1. \A x \in Q : <<x>> \in Seq(Q)
    OBVIOUS
  <2>2. <<>> \in Seq(Q)
    OBVIOUS
  <2> QED BY <1>2, <2>1, <2>2
<1> HIDE DEF metadata, verdict
<1>7. evidence \o metadata \in Seq(Q)
  BY <1>5, <1>6
<1> QED BY <1>4, <1>6, <1>7 DEF Q

\* What is sent to the model quotes the report.
LEMMA PreparedQuotes ==
    ASSUME NEW r, WellFormedRows(r), NEW f, NEW t, NEW sensitive, NEW rep, rep = NewReport(r, f, t)
    PROVE  LET records == Prepare(rep, sensitive) IN
           \A i \in DOMAIN records : \E p \in DOMAIN rep.observations : records[i] \in Quotations(rep.observations[p])
<1> DEFINE os == rep.observations
           n == Len(os)
           k == IF n < MaxSources THEN n ELSE MaxSources
           described == SubSeq(os, 1, k)
           lists == [i \in DOMAIN described |-> RecordsOf(described[i], sensitive)]
           all == FlattenSeq(lists)
           T == UNION {Quotations(os[p]) : p \in 1 .. n}
           fits(m) == m <= MaxRecords /\ \A i \in 1 .. m : all[i].value.kind # "oversized"
           last == CHOOSE m \in 0 .. Len(all) : fits(m) /\ \A l \in 0 .. Len(all) : fits(l) => l <= m
<1>1. Prepare(rep, sensitive) = SubSeq(all, 1, last)
  BY Zenon DEF Prepare
<1>2. os = NewReport(r, f, t).observations
  OBVIOUS
<1> HIDE DEF os
<1>3. n \in Nat /\ DOMAIN os = 1 .. n /\ os \in Seq(ToSet(os))
  <2>1. os \in Seq(ToSet(os))
    BY <1>2, ReportIsSeq
  <2> QED BY <2>1
<1> HIDE DEF n
<1>4. k \in Nat /\ k <= n
  BY <1>3, CommandAssumption
<1>5. DOMAIN described = 1 .. k /\ \A i \in 1 .. k : described[i] = os[i]
  <2>1. \A S : \A s \in Seq(S) : \A m \in Nat : m <= Len(s) =>
           DOMAIN SubSeq(s, 1, m) = 1 .. m /\ \A i \in 1 .. m : SubSeq(s, 1, m)[i] = s[i]
    OBVIOUS
  <2> HIDE DEF k
  <2> QED BY <1>3, <1>4, <2>1 DEF n
<1>6. ASSUME NEW i \in 1 .. k PROVE RecordsOf(described[i], sensitive) \in Seq(T)
  <2>1. i \in 1 .. n /\ i \in DOMAIN os
    BY <1>3, <1>4
  <2>2. PICK j \in DOMAIN r : WellFormedRow(r[j]) /\ os[i] = WithId(Observation(r[j]), os[i].id)
    <3>1. \A j \in DOMAIN r : WellFormedRow(r[j])
      BY RowsTold
    <3>2. \A q \in DOMAIN os : \E j \in DOMAIN r : os[q] = WithId(Observation(r[j]), os[q].id)
      BY <1>2, RowsTold
    <3> QED BY <2>1, <3>1, <3>2
  <2>3. os[i].row = Observation(r[j]).row /\ os[i].classes = Observation(r[j]).classes
    <3>1. \A o, id : WithId(o, id).row = o.row /\ WithId(o, id).classes = o.classes
      BY DEF WithId
    <3> QED BY <2>2, <3>1, Zenon
  <2>4. PICK m \in Nat : DOMAIN os[i].row.evidence = 1 .. m /\ DOMAIN os[i].classes = 1 .. m
    <3>1. Len(r[j].evidence) \in Nat
      BY <2>2 DEF WellFormedRow
    <3>2. /\ DOMAIN Observation(r[j]).classes = 1 .. Len(r[j].evidence)
          /\ DOMAIN Observation(r[j]).row.evidence = 1 .. Len(r[j].evidence)
      BY <2>2, ObservationFacts
    <3> QED BY <2>3, <3>1, <3>2
  <2>5. RecordsOf(os[i], sensitive) \in Seq(Quotations(os[i]))
    BY <2>4, RecordsQuote
  <2>6. Quotations(os[i]) \subseteq T
    BY <2>1
  <2>7. \A A, B : A \subseteq B => Seq(A) \subseteq Seq(B)
    OBVIOUS
  <2> HIDE DEF described, T
  <2> QED BY <1>5, <2>5, <2>6, <2>7
<1> HIDE DEF described, T
<1>7. lists \in Seq(Seq(T))
  <2>1. lists \in [1 .. k -> Seq(T)]
    BY <1>5, <1>6
  <2> HIDE DEF lists, k
  <2> QED BY <1>4, <2>1
<1> HIDE DEF lists
<1>8. all \in Seq(T)
  BY <1>7, FlattenIsSeq
<1> HIDE DEF all
<1>9. last \in 0 .. Len(all)
  <2> DEFINE L == Len(all)
             rest == {d \in 0 .. L : fits(L - d)}
  <2>1. L \in Nat
    BY <1>8
  <2>2. fits(0)
    BY CommandAssumption
  <2> HIDE DEF fits, L
  <2>3. rest \in SUBSET Nat /\ L \in rest
    BY <2>1, <2>2
  <2>4. PICK d \in rest : \A e \in rest : d <= e
    <3> HIDE DEF rest
    <3> QED BY <2>3, LeastNumber
  <2>5. L - d \in 0 .. L /\ fits(L - d)
    BY <2>1, <2>4
  <2>6. \A l \in 0 .. L : fits(l) => l <= L - d
    <3> TAKE l \in 0 .. L
    <3> HAVE fits(l)
    <3>1. l = L - (L - l) /\ L - l \in 0 .. L
      BY <2>1
    <3>2. L - l \in rest
      BY <3>1
    <3>3. d <= L - l
      BY <2>4, <3>2
    <3> QED BY <2>1, <2>4, <3>3
  <2>7. \E m \in 0 .. L : fits(m) /\ \A l \in 0 .. L : fits(l) => l <= m
    BY <2>5, <2>6
  <2> QED BY <2>7 DEF L
<1> HIDE DEF last
<1>10. \A i \in DOMAIN SubSeq(all, 1, last) : SubSeq(all, 1, last)[i] \in T
  <2>1. \A m \in 0 .. Len(all) : SubSeq(all, 1, m) \in Seq(T)
    BY <1>8
  <2>2. SubSeq(all, 1, last) \in Seq(T)
    BY <1>9, <2>1
  <2>3. \A s \in Seq(T) : \A i \in DOMAIN s : s[i] \in T
    OBVIOUS
  <2> QED BY <2>2, <2>3
<1>11. \A x \in T : \E p \in DOMAIN os : x \in Quotations(os[p])
  BY <1>3 DEF T
<1> QED BY <1>1, <1>10, <1>11 DEF os

\* What a claim says.
IsClaim(c) ==
    \E title, refs, class, text, hypothesis :
        c = [title |-> title, refs |-> refs, class |-> class, text |-> text, hypothesis |-> hypothesis]

\* The claims of an answer.
LEMMA AnswerClaims ==
    ASSUME NEW records, NEW answer \in Answers(records), NEW c \in ToSet(answer)
    PROVE  IsClaim(c)
<1>1. \A x \in Claims(records) : IsClaim(x)
  BY DEF Claims, IsClaim
<1>2. ASSUME NEW x, NEW a, NEW b, IsClaim(x) PROVE IsClaim(Reworded(x, a, b))
  <2>1. PICK title, refs, class, text, hypothesis :
           x = [title |-> title, refs |-> refs, class |-> class, text |-> text, hypothesis |-> hypothesis]
    BY <1>2 DEF IsClaim
  <2>2. PICK y : y = [x EXCEPT !.title = a, !.text = b]
    OBVIOUS
  <2>3. DOMAIN y = {"title", "refs", "class", "text", "hypothesis"} /\ y = [f \in DOMAIN y |-> y[f]]
    BY <2>1, <2>2
  <2>4. y.title = a /\ y.refs = refs /\ y.class = class /\ y.text = b /\ y.hypothesis = hypothesis
    BY <2>1, <2>2
  <2>5. y = [title |-> a, refs |-> refs, class |-> class, text |-> b, hypothesis |-> hypothesis]
    BY <2>3, <2>4
  <2>6. IsClaim(y)
    BY <2>5 DEF IsClaim
  <2> QED BY <2>2, <2>6, Zenon DEF Reworded
<1>3. \A x, y : ToSet(<<>>) = {} /\ ToSet(<<x>>) = {x} /\ ToSet(<<x, y>>) = {x, y}
  BY DEF ToSet
<1>4. \/ answer = <<>>
      \/ \E x \in Claims(records) : answer = <<x>>
      \/ \E x \in Claims(records) : \E a, b : answer = <<x, Reworded(x, a, b)>>
  BY DEF Answers
<1>5. CASE answer = <<>>
  BY <1>3, <1>5
<1>6. CASE \E x \in Claims(records) : answer = <<x>>
  <2>1. PICK x \in Claims(records) : answer = <<x>>
    BY <1>6
  <2>2. c = x
    BY <1>3, <2>1
  <2> QED BY <1>1, <2>2
<1>7. CASE \E x \in Claims(records) : \E a, b : answer = <<x, Reworded(x, a, b)>>
  <2>1. PICK x \in Claims(records) : \E a, b : answer = <<x, Reworded(x, a, b)>>
    BY <1>7
  <2>2. PICK a, b : answer = <<x, Reworded(x, a, b)>>
    BY <2>1
  <2>3. c \in {x, Reworded(x, a, b)}
    BY <1>3, <2>2
  <2>4. IsClaim(x) /\ IsClaim(Reworded(x, a, b))
    BY <1>1, <1>2
  <2> QED BY <2>3, <2>4
<1> QED BY <1>4, <1>5, <1>6, <1>7

\* A claim that keeps a class of evidence quotes one record of that class.
LEMMA ClassifiedQuotes ==
    ASSUME NEW c, IsClaim(c), NEW records, NEW d, d = Classified(c, records)
    PROVE  /\ d.refs = c.refs
           /\ d.class \in {"observed", "correlated"} =>
                \E i \in DOMAIN records :
                   d.refs = <<records[i].id>> /\ d.text = records[i].value /\ d.class = records[i].class
<1> DEFINE quoted == \E i \in DOMAIN records :
               c.refs = <<records[i].id>> /\ c.text = records[i].value /\ c.class = records[i].class
           class == IF c.hypothesis THEN "hypothesis"
                    ELSE IF c.class \in {"observed", "correlated"} /\ ~quoted THEN "inferred" ELSE c.class
           title == IF c.title \in Titles /\ c.class \in {"observed", "correlated"} /\ quoted
                    THEN "Quotation" ELSE c.title
<1>1. d = [c EXCEPT !.class = class, !.title = title]
  BY Zenon DEF Classified
<1> HIDE DEF class, title
<1>2. d.refs = c.refs /\ d.text = c.text /\ d.class = class
  BY <1>1 DEF IsClaim
<1>3. class \in {"observed", "correlated"} => class = c.class /\ quoted
  <2> HIDE DEF quoted
  <2> QED BY DEF class
<1> QED BY <1>2, <1>3

\* What an analysis may claim of a report.
Supported(claim, os) ==
    /\ claim.refs # <<>>
    /\ claim.class \in {"observed", "correlated"} =>
          \E i \in DOMAIN os : LET o == os[i] IN
             \/ claim.refs = <<<<o.id, "m", 1>>>> /\ claim.class = o.class
             \/ claim.refs = <<<<o.id, "m", 0>>>> /\ claim.class = o.class
             \/ \E k \in DOMAIN o.classes : claim.refs = <<<<o.id, "e", k>>>>
                   /\ claim.class = o.classes[k] /\ claim.text = o.row.evidence[k]

\* An analysis claims as evidence what it quotes.
LEMMA ClaimsSupported ==
    ASSUME NEW r, WellFormedRows(r), NEW f, NEW t, NEW sensitive, NEW rep, rep = NewReport(r, f, t),
           NEW answer, answer \in Answers(Prepare(rep, sensitive)), NEW claim,
           claim \in Parse(answer, Prepare(rep, sensitive)).claims
    PROVE  Supported(claim, rep.observations)
<1>1. PICK records : records = Prepare(rep, sensitive)
  OBVIOUS
<1>2. PICK os : os = rep.observations
  OBVIOUS
<1>3. claim \in Parse(answer, records).claims
  BY <1>1
<1>4. WellFormedAnswer(answer, records)
  <2>1. ~WellFormedAnswer(answer, records) => Parse(answer, records).claims = {}
    BY DEF Parse, Failed
  <2> QED BY <1>3, <2>1
<1>5. Parse(answer, records).claims = {Classified(c, records) : c \in ToSet(answer)}
  BY <1>4 DEF Parse
<1>6. PICK c \in ToSet(answer) : claim = Classified(c, records)
  BY <1>3, <1>5
<1>7. IsClaim(c)
  BY <1>1, <1>6, AnswerClaims
<1>8. claim.refs = c.refs
  BY <1>6, <1>7, ClassifiedQuotes
<1>9. c.refs # <<>>
  <2>1. PICK j \in DOMAIN answer : c = answer[j]
    BY <1>6 DEF ToSet
  <2>2. Len(c.refs) \in 1 .. MaxRefs
    BY <1>4, <2>1 DEF WellFormedAnswer
  <2>3. Len(<<>>) = 0 /\ 0 \notin 1 .. MaxRefs
    OBVIOUS
  <2> QED BY <2>2, <2>3
<1>10. ASSUME claim.class \in {"observed", "correlated"}
       PROVE  \E i \in DOMAIN os : LET o == os[i] IN
                 \/ claim.refs = <<<<o.id, "m", 1>>>> /\ claim.class = o.class
                 \/ claim.refs = <<<<o.id, "m", 0>>>> /\ claim.class = o.class
                 \/ \E k \in DOMAIN o.classes : claim.refs = <<<<o.id, "e", k>>>>
                       /\ claim.class = o.classes[k] /\ claim.text = o.row.evidence[k]
  <2>1. PICK i \in DOMAIN records :
           claim.refs = <<records[i].id>> /\ claim.text = records[i].value /\ claim.class = records[i].class
    BY <1>6, <1>7, <1>10, ClassifiedQuotes
  <2>2. PICK p \in DOMAIN os : records[i] \in Quotations(os[p])
    BY <1>1, <1>2, <2>1, PreparedQuotes
  <2>3. PICK o : o = os[p]
    OBVIOUS
  <2>4. \/ \E k \in DOMAIN o.classes :
              records[i] = [id |-> <<o.id, "e", k>>, value |-> o.row.evidence[k], class |-> o.classes[k]]
        \/ \E n \in {0, 1}, kind \in {"meta", "pwned"} :
              records[i] = [id |-> <<o.id, "m", n>>, value |-> [kind |-> kind, order |-> 0], class |-> o.class]
    BY <2>2, <2>3 DEF Quotations
  <2>5. CASE \E k \in DOMAIN o.classes :
                records[i] = [id |-> <<o.id, "e", k>>, value |-> o.row.evidence[k], class |-> o.classes[k]]
    <3>1. PICK k \in DOMAIN o.classes :
             records[i] = [id |-> <<o.id, "e", k>>, value |-> o.row.evidence[k], class |-> o.classes[k]]
      BY <2>5
    <3>2. claim.refs = <<<<o.id, "e", k>>>> /\ claim.class = o.classes[k] /\ claim.text = o.row.evidence[k]
      BY <2>1, <3>1
    <3> QED BY <2>3, <3>2
  <2>6. CASE \E n \in {0, 1}, kind \in {"meta", "pwned"} :
                records[i] = [id |-> <<o.id, "m", n>>, value |-> [kind |-> kind, order |-> 0], class |-> o.class]
    <3>1. PICK n \in {0, 1}, kind \in {"meta", "pwned"} :
             records[i] = [id |-> <<o.id, "m", n>>, value |-> [kind |-> kind, order |-> 0], class |-> o.class]
      BY <2>6
    <3>2. claim.refs = <<<<o.id, "m", n>>>> /\ claim.class = o.class
      BY <2>1, <3>1
    <3> QED BY <2>3, <3>1, <3>2
  <2> QED BY <2>4, <2>5, <2>6
<1> QED BY <1>2, <1>8, <1>9, <1>10 DEF Supported

\* What is known of rows, report and analysis makes them faithful.
LEMMA FaithfulReports == ReportInv => ReportFaithful
<1> SUFFICES ASSUME ReportInv, report # NoReport PROVE ReportFaithful
  BY DEF ReportFaithful
<1> DEFINE sources == {<<rows[i].type, rows[i].source>> : i \in DOMAIN rows}
           full(s) == \A i \in DOMAIN rows :
               <<rows[i].type, rows[i].source>> = s => rows[i].status \in Success /\ rows[i].meta = "none"
<1>1. WellFormedRows(rows) /\ (truncated => failed) /\ report = NewReport(rows, failed, truncated)
  BY DEF ReportInv
<1>2. SourcesOf(rows) = sources /\ \A s : Full(rows, s) <=> full(s)
  BY DEF SourcesOf, Full
<1>3. /\ report.status = "complete" <=> rows # <<>> /\ ~failed /\ \A s \in SourcesOf(rows) : Full(rows, s)
      /\ report.status = "failed" => \A i \in DOMAIN rows : rows[i].status \notin Success
      /\ report.status = "empty" => rows = <<>> /\ ~failed
  BY <1>1, ReportStatus
<1>4. /\ report.summary.successful = Cardinality({s \in SourcesOf(rows) : Full(rows, s)})
      /\ report.summary.successful + report.summary.failed + report.summary.partial = Cardinality(SourcesOf(rows))
  BY <1>1, ReportSummary
<1>5. \A i, j \in DOMAIN report.observations : report.observations[i].id = report.observations[j].id => i = j
  BY <1>1, NamesUnique
<1>6. \A order \in Bijection(DOMAIN rows, DOMAIN rows) :
         NewReport([i \in DOMAIN rows |-> rows[order[i]]], failed, truncated) = report
  BY <1>1, OrderIrrelevant
<1>7. \A c \in report.correlations : \E i \in DOMAIN report.observations :
         c[1] = report.observations[i].id /\ report.observations[i].row.source = "bitcoin"
  BY <1>1, CorrelatedFromBitcoin
<1>8. analysis # NoReport => \A claim \in analysis.claims : Supported(claim, report.observations)
  <2> SUFFICES ASSUME analysis # NoReport, NEW claim \in analysis.claims PROVE Supported(claim, report.observations)
    OBVIOUS
  <2>1. PICK sensitive : sensitive = (cfg.mode = "password")
    OBVIOUS
  <2>2. \/ analysis = Failed("unavailable")
        \/ \E answer \in Answers(Prepare(report, sensitive)) : analysis = Parse(answer, Prepare(report, sensitive))
    BY <2>1 DEF ReportInv
  <2>3. analysis # Failed("unavailable")
    BY DEF Failed
  <2>4. PICK answer \in Answers(Prepare(report, sensitive)) : analysis = Parse(answer, Prepare(report, sensitive))
    BY <2>2, <2>3
  <2> QED BY <1>1, <2>4, ClaimsSupported
<1>9. sources = SourcesOf(rows) /\ {s \in sources : full(s)} = {s \in SourcesOf(rows) : Full(rows, s)}
  BY <1>2
<1> HIDE DEF sources, full
<1>10. /\ report.status = "complete" <=> rows # <<>> /\ ~failed /\ \A s \in sources : full(s)
       /\ report.summary.successful = Cardinality({s \in sources : full(s)})
       /\ report.summary.successful + report.summary.failed + report.summary.partial = Cardinality(sources)
  BY <1>2, <1>3, <1>4, <1>9
<1> USE DEF sources, full
<1> QED BY <1>3, <1>5, <1>6, <1>7, <1>8, <1>10, Zenon DEF ReportFaithful, Supported

\* The same after a step.
LEMMA FaithfulReportsNext == (ReportInv => ReportFaithful)'
<1>1. ReportInv => ReportFaithful
  BY FaithfulReports
<1> QED BY <1>1, PTL

-----------------------------------------------------------------------------
(* Configurations and the files they plan *)

\* The mode of a line, and what it may give besides.
LEMMA Modes ==
    ASSUME NEW line
    PROVE  /\ Selected(line) \in {"watch", "password", "websites"} \cup Lookups
           /\ Given(line, "password-prompt") => Selected(line) \in {"watch", "password"}
<1>1. /\ Given(line, "watch-file") => Selected(line) = "watch"
      /\ ~Given(line, "watch-file") /\ DOMAIN line \cap PasswordInputs # {} => Selected(line) = "password"
  BY DEF Selected
<1>2. ASSUME ~Given(line, "watch-file"), ~(DOMAIN line \cap PasswordInputs # {})
      PROVE  Selected(line) \in {"websites"} \cup Lookups
  <2> DEFINE given == DOMAIN line \cap Lookups
  <2>1. Selected(line) =
            CASE "bitcoin-tx" \in given -> "bitcoin-tx"
              [] "bitcoin-tx" \notin given /\ "bitcoin" \in given -> "bitcoin"
              [] given \cap {"bitcoin-tx", "bitcoin"} = {} /\ "ip" \in given -> "ip"
              [] given \subseteq {"domain", "email"} /\ "domain" \in given -> "domain"
              [] given = {"email"} -> "email"
              [] OTHER -> "websites"
    BY <1>2 DEF Selected
  <2> HIDE DEF given
  <2> QED BY <2>1 DEF Lookups
<1>3. Given(line, "password-prompt") => DOMAIN line \cap PasswordInputs # {}
  BY DEF Given, PasswordInputs
<1> QED BY <1>1, <1>2, <1>3

\* A value on the command line is a word.
LEMMA ValuesAreWords ==
    ASSUME NEW line \in Lines, NEW flag \in DOMAIN line
    PROVE  line[flag] \in Words
<1>1. line[flag] \in {line[f] : f \in DOMAIN line}
  OBVIOUS
<1>2. {line[f] : f \in DOMAIN line} \in {{l[f] : f \in DOMAIN l} : l \in Lines}
  OBVIOUS
<1>3. line[flag] \in UNION {{l[f] : f \in DOMAIN l} : l \in Lines}
  BY <1>1, <1>2
<1> QED BY <1>3 DEF Words

\* The formats of a line are none only if it says so.
LEMMA FormatFacts ==
    ASSUME NEW line \in Lines, NEW flag, NEW default \in Words
    PROVE  /\ Formats(line, flag, <<default>>) \in Seq(Words)
           /\ Formats(line, flag, <<default>>) = <<>> => Is(line, flag, "none")
<1>1. CASE ~Given(line, flag)
  BY <1>1 DEF Formats
<1>2. CASE Given(line, flag)
  <2>1. line[flag] \in Words
    BY <1>2, ValuesAreWords DEF Given
  <2>2. <<line[flag]>> \in Seq(Words) /\ <<line[flag]>> # <<>>
    BY <2>1
  <2>3. Formats(line, flag, <<default>>) = IF line[flag] = "none" THEN <<>> ELSE <<line[flag]>>
    BY <1>2 DEF Formats
  <2>4. Is(line, flag, "none") <=> line[flag] = "none"
    BY <1>2 DEF Is
  <2>5. <<>> \in Seq(Words)
    OBVIOUS
  <2>6. CASE line[flag] = "none"
    BY <2>3, <2>4, <2>5, <2>6
  <2>7. CASE line[flag] # "none"
    BY <2>2, <2>3, <2>7
  <2> QED BY <2>6, <2>7
<1> QED BY <1>1, <1>2

\* What ParseArgs gives is refused, or names one mode and only what that mode needs.
LEMMA ParsedConfig ==
    ASSUME NEW line \in Lines, NEW c \in ParseArgs(line), c # Refused
    PROVE  /\ WellFormedConfig(c) /\ TypedConfig(c)
           /\ c.mode = "watch" => ~Given(line, "password")
<1> DEFINE mode == Selected(line)
           config(t) ==
            [mode |-> mode, targets |-> t, prompt |-> Given(line, "password-prompt"),
             local |-> mode = "password" /\ Is(line, "password-backend", "local"),
             dir |-> IF Given(line, "o") THEN line["o"] ELSE "output",
             formats |-> Formats(line, "of", <<"json">>),
             reports |-> Formats(line, "rf", <<"cli">>),
             ai |-> Is(line, "ai", "true")]
<1>1. PICK t \in LineTargets(line) :
          c = config(t) /\ Accepted(line) /\ (mode = "watch" \/ FormatsAccepted(line))
  BY DEF ParseArgs
<1>2. /\ c.mode = mode /\ c.targets = t /\ c.prompt = Given(line, "password-prompt")
      /\ c.local => mode = "password"
      /\ c.dir = (IF Given(line, "o") THEN line["o"] ELSE "output")
      /\ c.formats = Formats(line, "of", <<"json">>)
      /\ c.reports = Formats(line, "rf", <<"cli">>)
      /\ c.ai = Is(line, "ai", "true")
  BY <1>1
<1> HIDE DEF config
<1>4. DOMAIN line \subseteq Allowed(mode) /\ mode \in {"watch", "password", "websites"} \cup Lookups
  BY <1>1, Modes DEF Accepted
<1>5. /\ c.formats \in Seq(Words) /\ c.reports \in Seq(Words)
      /\ c.formats = <<>> => Is(line, "of", "none")
      /\ c.reports = <<>> => Is(line, "rf", "none")
  <2>1. \A flag : \A default \in Words :
           /\ Formats(line, flag, <<default>>) \in Seq(Words)
           /\ Formats(line, flag, <<default>>) = <<>> => Is(line, flag, "none")
    BY FormatFacts
  <2>2. "json" \in Words /\ "cli" \in Words
    BY DEF Words
  <2> QED BY <1>2, <2>1, <2>2
<1>6. \A flag : Given(line, flag) => line[flag] \in Words
  BY ValuesAreWords DEF Given
<1>7. PICK listed \in Seq(Seq(Words)) :
         /\ t = (IF mode \in Lookups THEN <<<<"x">>>> ELSE <<>>)
                \o (IF Given(line, "u") /\ line["u"] # "empty" THEN <<<<line["u"]>>>> ELSE <<>>) \o listed
         /\ ~Is(line, "f", "path") => listed = <<>>
  <2>1. <<>> \in Seq(Seq(Words))
    OBVIOUS
  <2> QED BY <1>1, <2>1, CommandAssumption DEF LineTargets
<1>8. t \in Seq(Seq(Words))
  <2>1. (IF mode \in Lookups THEN <<<<"x">>>> ELSE <<>>) \in Seq(Seq(Words))
    <3>1. \A x \in Words : <<<<x>>>> \in Seq(Seq(Words))
      OBVIOUS
    <3>2. "x" \in Words /\ <<>> \in Seq(Seq(Words))
      BY DEF Words
    <3> QED BY <3>1, <3>2
  <2>2. (IF Given(line, "u") /\ line["u"] # "empty" THEN <<<<line["u"]>>>> ELSE <<>>) \in Seq(Seq(Words))
    <3>1. Given(line, "u") => line["u"] \in Words
      BY <1>6
    <3>2. \A x \in Words : <<<<x>>>> \in Seq(Seq(Words))
      OBVIOUS
    <3>3. <<>> \in Seq(Seq(Words))
      OBVIOUS
    <3> QED BY <3>1, <3>2, <3>3
  <2> QED BY <1>7, <2>1, <2>2
<1>9. mode # "websites" => ~Given(line, "u") /\ ~Is(line, "f", "path")
  BY <1>4 DEF Allowed, Given, Is, PasswordFlags, PasswordInputs, Outputs, Lookups
<1>10. /\ mode \in {"watch", "password"} => t = <<>>
       /\ mode \in Lookups => Len(t) = 1
  <2>1. mode \in {"watch", "password"} => mode \notin Lookups
    BY DEF Lookups
  <2>2. mode \in Lookups => mode # "websites"
    BY DEF Lookups
  <2>3. mode \in {"watch", "password"} => t = <<>> \o <<>> \o <<>>
    BY <1>7, <1>9, <2>1
  <2>4. mode \in Lookups => t = <<<<"x">>>> \o <<>> \o <<>>
    BY <1>7, <1>9, <2>2
  <2> QED BY <2>3, <2>4
<1>11. mode = "watch" => ~Given(line, "password") /\ ~Given(line, "password-prompt") /\ ~Given(line, "ai")
  BY <1>4 DEF Allowed, Given, PasswordFlags, PasswordInputs, Outputs, Lookups, WebsiteFlags
<1>12. c.prompt => c.mode = "password"
  BY <1>2, <1>11, Modes
<1>13. c.ai => c.formats # <<>> \/ c.reports # <<>>
  BY <1>1, <1>2, <1>5, <1>11 DEF FormatsAccepted, Is
<1> QED BY <1>2, <1>4, <1>5, <1>8, <1>10, <1>11, <1>12, <1>13 DEF WellFormedConfig, TypedConfig

\* The targets are numbered from one.
LEMMA TargetsAreNumbers ==
    ASSUME TypedConfig(cfg)
    PROVE  /\ Cardinality(Targets) \in Nat /\ Targets = 1 .. Cardinality(Targets)
           /\ cfg.mode # "password" => DOMAIN cfg.targets = Targets
<1> DEFINE n == IF cfg.mode = "password" THEN 1 ELSE Len(cfg.targets)
<1>1. n \in Nat /\ Targets = 1 .. n /\ (cfg.mode # "password" => DOMAIN cfg.targets = 1 .. n)
  BY DEF TypedConfig, Targets
<1> HIDE DEF n
<1>2. 1 \in Int /\ n \in Int
  BY <1>1
<1>3. Cardinality(1 .. n) = IF 1 > n THEN 0 ELSE n - 1 + 1
  BY <1>2, FS_Interval
<1>4. (IF 1 > n THEN 0 ELSE n - 1 + 1) = n
  BY <1>1
<1>5. Cardinality(1 .. n) = n
  BY <1>3, <1>4
<1> QED BY <1>1, <1>5

\* The files that a target's formats may ask for.
AskedFor(base) ==
    [name : [dir : {cfg.dir, "output", "stdout"}, base : {base, base \o <<"report">>, <<>>},
             format : Words \cup {"txt"}],
     document : {"legacy", "canonical"}]

\* The formats ask for these files.
LEMMA WantedFacts ==
    ASSUME TypedConfig(cfg), NEW t \in Targets
    PROVE  /\ Base(t) \in Seq(Words) /\ Wanted(t) \in Seq(AskedFor(Base(t)))
           /\ ~WantsFiles => Wanted(t) = <<>>
<1> DEFINE base == Base(t)
           asked == AskedFor(base)
           forFormats == [i \in DOMAIN cfg.formats |-> FormatJobs(base, cfg.formats[i])]
           forReports == [i \in DOMAIN cfg.reports |-> ReportJobs(base, cfg.reports[i])]
<1>1. base \in Seq(Words)
  <2>1. <<"REDACTED">> \in Seq(Words)
    BY DEF Words
  <2>2. cfg.mode # "password" => cfg.targets[t] \in Seq(Words)
    BY TargetsAreNumbers DEF TypedConfig
  <2> QED BY <2>1, <2>2 DEF Base
<1>2. \A dir \in {cfg.dir, "output", "stdout"}, b \in {base, base \o <<"report">>, <<>>},
          format \in Words \cup {"txt"}, document \in {"legacy", "canonical"} :
             Job(dir, b, format, document) \in asked
  <2> TAKE dir \in {cfg.dir, "output", "stdout"}, b \in {base, base \o <<"report">>, <<>>},
           format \in Words \cup {"txt"}, document \in {"legacy", "canonical"}
  <2> HIDE DEF base
  <2> QED BY DEF AskedFor, Job
<1> HIDE DEF base, asked
<1>3. \A j, k \in asked : <<j>> \in Seq(asked) /\ <<j, k>> \in Seq(asked)
  OBVIOUS
<1>4. ASSUME NEW format \in Words
      PROVE  FormatJobs(base, format) \in Seq(asked) /\ ReportJobs(base, format) \in Seq(asked)
  <2>1. /\ Job(cfg.dir, base, format, "legacy") \in asked
        /\ Job(cfg.dir, base \o <<"report">>, format, "canonical") \in asked
        /\ Job(cfg.dir, base, format, "canonical") \in asked
        /\ Job("output", base \o <<"report">>, "txt", "canonical") \in asked
        /\ Job("output", base \o <<"report">>, format, "canonical") \in asked
        /\ Stdout \in asked
    BY <1>2, <1>4 DEF Stdout
  <2>2. FormatJobs(base, format) \in Seq(asked)
    BY <1>3, <2>1 DEF FormatJobs
  <2>3. ReportJobs(base, format) \in Seq(asked)
    BY <1>3, <2>1 DEF ReportJobs
  <2> QED BY <2>2, <2>3
<1>5. forFormats \in Seq(Seq(asked)) /\ forReports \in Seq(Seq(asked))
  <2>1. cfg.formats \in Seq(Words) /\ cfg.reports \in Seq(Words)
    BY DEF TypedConfig
  <2>2. \A s \in Seq(Words) : DOMAIN s = 1 .. Len(s) /\ Len(s) \in Nat /\ \A i \in DOMAIN s : s[i] \in Words
    OBVIOUS
  <2>3. \A n \in Nat : \A f \in [1 .. n -> Seq(asked)] : f \in Seq(Seq(asked))
    OBVIOUS
  <2>4. forFormats \in [1 .. Len(cfg.formats) -> Seq(asked)]
    BY <1>4, <2>1, <2>2
  <2>5. forReports \in [1 .. Len(cfg.reports) -> Seq(asked)]
    BY <1>4, <2>1, <2>2
  <2> HIDE DEF forFormats, forReports
  <2> QED BY <2>1, <2>2, <2>3, <2>4, <2>5
<1>6. Wanted(t) = FlattenSeq(forFormats \o forReports)
  BY DEF Wanted, base
<1>7. ASSUME ~WantsFiles PROVE Wanted(t) = <<>>
  <2>1. DOMAIN forFormats = {} /\ DOMAIN forReports = {}
    BY <1>7 DEF WantsFiles
  <2> HIDE DEF forFormats, forReports
  <2>2. forFormats \o forReports = <<>>
    BY <1>5, <2>1
  <2>3. FlattenSeq(<<>>) = <<>>
    BY DEF FlattenSeq
  <2> QED BY <1>6, <2>2, <2>3
<1> HIDE DEF forFormats, forReports
<1>8. forFormats \o forReports \in Seq(Seq(asked))
  BY <1>5
<1>9. Wanted(t) \in Seq(asked)
  BY <1>6, <1>8, FlattenIsSeq
<1> QED BY <1>1, <1>7, <1>9 DEF base, asked

\* What is planned for a target is a sequence of files with different names.
LEMMA PlannedFacts ==
    ASSUME TypedConfig(cfg), NEW t \in Targets
    PROVE  /\ \E T : Planned(t) \in Seq(T)
           /\ \A i, k \in DOMAIN Planned(t) : Planned(t)[i].name = Planned(t)[k].name => i = k
           /\ ~WantsFiles => Planned(t) = <<>>
<1> DEFINE base == Base(t)
           asked == AskedFor(base)
           put == Put(Wanted(t))
           summary == Job(cfg.dir, base \o <<"summary">>, "json", "summary")
           all == asked \cup {summary}
<1>1. base \in Seq(Words) /\ Wanted(t) \in Seq(asked) /\ (~WantsFiles => Wanted(t) = <<>>)
  BY WantedFacts
<1>2. /\ put \in Seq(asked)
      /\ \A n, m \in DOMAIN put : put[n].name = put[m].name => n = m
      /\ \A n \in DOMAIN put : \E i \in DOMAIN Wanted(t) : put[n] = Wanted(t)[i]
  <2> HIDE DEF asked
  <2> QED BY <1>1, PutFacts
<1>3. \A j \in asked : j.name # summary.name
  <2>1. ASSUME NEW j \in asked PROVE j.name.base \in {base, base \o <<"report">>, <<>>}
    BY <2>1 DEF AskedFor, Job
  <2>2. summary.name.base = base \o <<"summary">>
    BY DEF Job
  <2>3. \A s \in Seq(Words) : s \o <<"summary">> \notin {s, s \o <<"report">>, <<>>}
    <3>1. ASSUME NEW s \in Seq(Words) PROVE s \o <<"summary">> \notin {s, s \o <<"report">>, <<>>}
      <4>1. <<"summary">> \in Seq(Words) /\ <<"report">> \in Seq(Words)
        BY DEF Words
      <4>2. Len(s \o <<"summary">>) = Len(s) + 1 /\ Len(s) \in Nat /\ Len(<<>>) = 0
        BY <4>1
      <4>3. (s \o <<"summary">>)[Len(s) + 1] = "summary"
        BY <4>1
      <4>4. (s \o <<"report">>)[Len(s) + 1] = "report"
        BY <4>1
      <4>5. s \o <<"summary">> # s \o <<"report">>
        BY <4>3, <4>4
      <4>6. s \o <<"summary">> # s
        BY <4>2
      <4>7. s \o <<"summary">> # <<>>
        BY <4>2
      <4> QED BY <4>5, <4>6, <4>7
    <3> QED BY <3>1
  <2> HIDE DEF summary, asked
  <2> QED BY <1>1, <2>1, <2>2, <2>3
<1>4. Planned(t) = put \o (IF cfg.reports = <<>> THEN <<>> ELSE <<summary>>)
  BY DEF Planned
<1> HIDE DEF put, summary, asked
<1>5. put \in Seq(all) /\ (IF cfg.reports = <<>> THEN <<>> ELSE <<summary>>) \in Seq(all)
  <2>1. summary \in all /\ asked \subseteq all
    OBVIOUS
  <2> HIDE DEF all
  <2>2. put \in Seq(all)
    BY <1>2, <2>1
  <2>3. <<summary>> \in Seq(all) /\ <<>> \in Seq(all)
    BY <2>1
  <2> QED BY <2>2, <2>3
<1>6. Planned(t) \in Seq(all)
  BY <1>4, <1>5
<1>7. ASSUME NEW i \in DOMAIN Planned(t), NEW k \in DOMAIN Planned(t), Planned(t)[i].name = Planned(t)[k].name
      PROVE  i = k
  <2>1. CASE cfg.reports = <<>>
    BY <1>2, <1>4, <1>7, <2>1
  <2>2. CASE cfg.reports # <<>>
    <3>1. Planned(t) = put \o <<summary>>
      BY <1>4, <2>2
    <3>2. /\ Len(put) \in Nat /\ DOMAIN put = 1 .. Len(put)
          /\ DOMAIN Planned(t) = 1 .. Len(put) + 1
          /\ \A n \in 1 .. Len(put) : Planned(t)[n] = put[n] /\ put[n] \in asked
          /\ Planned(t)[Len(put) + 1] = summary
      BY <1>2, <1>5, <3>1
    <3>3. \A n \in 1 .. Len(put) : Planned(t)[n].name # summary.name
      BY <1>3, <3>2
    <3>4. \A n \in 1 .. Len(put) + 1 : n \in 1 .. Len(put) \/ n = Len(put) + 1
      BY <3>2
    <3> QED BY <1>2, <1>7, <3>2, <3>3, <3>4
  <2> QED BY <2>1, <2>2
<1>8. ASSUME ~WantsFiles PROVE Planned(t) = <<>>
  <2>1. DOMAIN Wanted(t) = {} /\ cfg.reports = <<>>
    BY <1>1, <1>8 DEF WantsFiles
  <2>2. put = <<>>
    BY <1>2, <2>1
  <2> QED BY <1>4, <2>1, <2>2
<1> QED BY <1>6, <1>7, <1>8

\* As long as the configuration stays, so do the targets and the files planned for them.
LEMMA ConfigSame ==
    ASSUME cfg' = cfg
    PROVE  /\ Targets' = Targets /\ (WantsFiles' <=> WantsFiles)
           /\ \A t : Planned(t)' = Planned(t)
<1>1. Targets' = Targets /\ (WantsFiles' <=> WantsFiles)
  BY DEF Targets, WantsFiles
<1>2. \A t : Base(t)' = Base(t)
  BY DEF Base
<1>3. \A b, f : FormatJobs(b, f)' = FormatJobs(b, f) /\ ReportJobs(b, f)' = ReportJobs(b, f)
  BY DEF FormatJobs, ReportJobs
<1>4. \A t : Wanted(t)' = Wanted(t)
  BY <1>2, <1>3 DEF Wanted
<1>5. \A t : Planned(t)' = Planned(t)
  BY <1>2, <1>4 DEF Planned
<1> QED BY <1>1, <1>5

-----------------------------------------------------------------------------
(* What a run holds *)

\* TypeOK, but for the files.
Types ==
    /\ cfg # Refused => WellFormedConfig(cfg)
    /\ code \in {0, 1, NoCode} /\ ended \in BOOLEAN /\ faults \in 0 .. MaxFaults
    /\ secret \in {"none", "held", "destroyed"} /\ app \in {"none", "open", "closed"}
    /\ ai \in {"none", "open", "unavailable", "closed"}
    /\ pc # "start" /\ cfg # Refused => searched \in 0 .. Cardinality(Targets)
    /\ Len(rows) <= MaxResults
    /\ report # NoReport => report.summary.results = Len(rows)
    /\ temp \in {"none", "created", "torn", "whole"}

RunInv == Types /\ PlaceInv /\ HeldInv /\ ReportInv

\* A run begins with nothing.
LEMMA RunInit == Init => RunInv
<1> SUFFICES ASSUME Init PROVE RunInv
  OBVIOUS
<1>1. Len(rows) = 0
  BY DEF Init
<1>2. Types
  <2>1. 0 <= MaxResults /\ 0 \in 0 .. MaxFaults
    BY CommandAssumption
  <2> QED BY <1>1, <2>1 DEF Init, Types, NoCode
<1>3. PlaceInv
  BY DEF Init, PlaceInv, Steps, Early, Target, Files, Gone, NoCode
<1>4. HeldInv
  BY DEF Init, HeldInv, Target, Files, Gone
<1>5. ReportInv
  BY NoRows DEF Init, ReportInv
<1> QED BY <1>2, <1>3, <1>4, <1>5 DEF RunInv

\* What the steps say of the configuration and the number of targets.
LEMMA RunConfig ==
    ASSUME RunInv
    PROVE  /\ cfg # Refused => /\ TypedConfig(cfg) /\ Cardinality(Targets) \in Nat
                               /\ searched \in Nat /\ searched <= Cardinality(Targets)
           /\ cfg' = cfg => Targets' = Targets /\ (WantsFiles' <=> WantsFiles)
<1>1. ASSUME cfg # Refused
      PROVE  /\ TypedConfig(cfg) /\ Cardinality(Targets) \in Nat
             /\ searched \in Nat /\ searched <= Cardinality(Targets)
  <2>1. TypedConfig(cfg) /\ pc # "start" /\ searched \in Nat
    BY <1>1 DEF RunInv, PlaceInv
  <2>2. searched \in 0 .. Cardinality(Targets)
    BY <1>1, <2>1 DEF RunInv, Types
  <2>3. Cardinality(Targets) \in Nat
    BY <2>1, TargetsAreNumbers
  <2> QED BY <2>1, <2>2, <2>3
<1> QED BY <1>1, ConfigSame

\* The rows that a search collects.
LEMMA RowsCollected ==
    ASSUME cfg # Refused, Types, cfg.mode # "watch", Search
    PROVE  WellFormedRows(rows') /\ Len(rows') <= MaxResults
<1>1. PICK found \in SearchRows[cfg.mode] :
         rows' = SubSeq(found, 1, IF truncated' THEN MaxResults ELSE Len(found))
         /\ truncated' = (Len(found) > MaxResults)
  BY DEF Search
<1>2. cfg.mode \in {"websites", "password"} \cup Lookups
  BY DEF Types, WellFormedConfig
<1>3. WellFormedRows(found) /\ MaxResults \in Nat
  BY <1>1, <1>2, CommandAssumption
<1> DEFINE n == IF truncated' THEN MaxResults ELSE Len(found)
<1>4. n \in Nat /\ n <= Len(found) /\ n <= MaxResults
  <2>1. Len(found) \in Nat
    BY <1>3 DEF WellFormedRows
  <2>2. truncated' <=> Len(found) > MaxResults
    BY <1>1
  <2>3. CASE truncated'
    BY <1>3, <2>1, <2>2, <2>3
  <2>4. CASE ~truncated'
    BY <1>3, <2>1, <2>2, <2>4
  <2> QED BY <2>3, <2>4
<1>5. rows' = SubSeq(found, 1, n)
  BY <1>1
<1> HIDE DEF n
<1>6. Len(rows') = n
  BY <1>3, <1>4, <1>5 DEF WellFormedRows
<1>7. WellFormedRows(rows')
  BY <1>3, <1>4, <1>5, FirstRows
<1> QED BY <1>4, <1>6, <1>7

\* The step of ParseCommand.
LEMMA Parsed ==
    ASSUME RunInv, ParseCommand
    PROVE  /\ pc = "start" /\ cfg = Refused /\ searched = 0 /\ searched' = 0
           /\ \E line \in Lines : cfg' \in ParseArgs(line)
                /\ secret' = IF ~Given(line, "password") THEN "none" ELSE IF cfg' = Refused THEN "destroyed" ELSE "held"
           /\ IF cfg' = Refused THEN pc' = "exited" /\ code' = 1
              ELSE /\ code' = code /\ WellFormedConfig(cfg') /\ TypedConfig(cfg')
                   /\ pc' = IF cfg'.mode = "watch" THEN "watch"
                            ELSE IF cfg'.prompt /\ ~cfg'.local THEN "prompt" ELSE "open"
           /\ cfg' # Refused /\ cfg'.mode = "watch" => secret' = "none"
<1>1. pc = "start" /\ cfg = Refused /\ searched = 0
  BY DEF RunInv, PlaceInv, ParseCommand, At
<1>2. searched' = searched /\ code' \in {code, 1}
  BY DEF ParseCommand, FailTo
<1>3. PICK line \in Lines : \E c \in ParseArgs(line) :
          /\ cfg' = c
          /\ secret' = IF ~Given(line, "password") THEN "none" ELSE IF c = Refused THEN "destroyed" ELSE "held"
          /\ IF c = Refused THEN FailTo("exited")
             ELSE /\ UNCHANGED code
                  /\ Go(IF c.mode = "watch" THEN "watch" ELSE IF c.prompt /\ ~c.local THEN "prompt" ELSE "open")
  BY DEF ParseCommand
<1> DEFINE c == cfg'
<1>6. /\ c \in ParseArgs(line)
      /\ secret' = IF ~Given(line, "password") THEN "none" ELSE IF c = Refused THEN "destroyed" ELSE "held"
      /\ IF c = Refused THEN FailTo("exited")
         ELSE /\ UNCHANGED code
              /\ Go(IF c.mode = "watch" THEN "watch" ELSE IF c.prompt /\ ~c.local THEN "prompt" ELSE "open")
  BY <1>3
<1>4. CASE c = Refused
  BY <1>1, <1>2, <1>6, <1>4 DEF FailTo, Go
<1>5. CASE c # Refused
  <2>1. WellFormedConfig(c) /\ TypedConfig(c) /\ (c.mode = "watch" => ~Given(line, "password"))
    BY <1>5, <1>6, ParsedConfig
  <2> QED BY <1>1, <1>2, <1>6, <1>5, <2>1 DEF Go
<1> QED BY <1>4, <1>5

\* Where a run is, it knows what it runs, after every step.
LEMMA PlaceKept ==
    ASSUME RunInv, [Next]_vars
    PROVE  PlaceInv'
<1> USE DEF PlaceInv, At, Go, FailTo, Steps, Early, Target, Files, Gone, held, search, output, disk
<1>0. /\ Types /\ PlaceInv /\ HeldInv
      /\ cfg # Refused => /\ TypedConfig(cfg) /\ Cardinality(Targets) \in Nat
                          /\ searched \in Nat /\ searched <= Cardinality(Targets)
      /\ cfg' = cfg => Targets' = Targets /\ (WantsFiles' <=> WantsFiles)
  BY RunConfig DEF RunInv
<1>1. CASE ParseCommand
  <2>1. CASE cfg' = Refused
    BY <1>1, <2>1, Parsed
  <2>2. CASE cfg' # Refused
    <3>1. /\ pc' \in {"watch", "prompt", "open"} /\ (pc' = "watch" <=> cfg'.mode = "watch")
          /\ TypedConfig(cfg') /\ searched' = 0 /\ code' = code /\ pc = "start"
      BY <1>1, <2>2, Parsed
    <3> QED BY <1>0, <2>2, <3>1
  <2> QED BY <2>1, <2>2
<1>2. CASE RunWatch
  BY <1>2, <1>0 DEF RunWatch
<1>3. CASE Prompt
  BY <1>3, <1>0 DEF Prompt
<1>4. CASE OpenApplication
  BY <1>4, <1>0 DEF OpenApplication
<1>5. CASE RunApp
  BY <1>5, <1>0 DEF RunApp
<1>6. CASE NextTarget
  BY <1>6, <1>0 DEF NextTarget
<1>7. CASE PrepareDirectory
  BY <1>7, <1>0 DEF PrepareDirectory
<1>8. CASE Search
  BY <1>8, <1>0 DEF Search
<1>9. CASE BuildReport
  BY <1>9, <1>0 DEF BuildReport
<1>10. CASE Analyze
  BY <1>10, <1>0 DEF Analyze
<1>11. CASE PlanOutputs
  BY <1>11, <1>0 DEF PlanOutputs
<1>12. CASE CreateTemp
  BY <1>12, <1>0 DEF CreateTemp, NextJob
<1>13. CASE WriteTemp
  BY <1>13, <1>0 DEF WriteTemp
<1>14. CASE Publish
  BY <1>14, <1>0 DEF Publish
<1>15. CASE SyncDirectory
  BY <1>15, <1>0 DEF SyncDirectory, NextJob
<1>16. CASE RemoveTemp
  BY <1>16, <1>0 DEF RemoveTemp, NextJob
<1>17. CASE Settle
  BY <1>17, <1>0 DEF Settle
<1>18. CASE Return
  BY <1>18, <1>0 DEF Return
<1>19. CASE Unwind
  BY <1>19, <1>0 DEF Unwind
<1>20. CASE Interrupt
  BY <1>20, <1>0 DEF Interrupt
<1>21. CASE Kill
  BY <1>21, <1>0 DEF Kill, Running
<1>22. CASE PowerLoss
  BY <1>22, <1>0 DEF PowerLoss
<1>23. CASE UNCHANGED vars
  BY <1>23, <1>0 DEF vars
<1> QED BY <1>1, <1>2, <1>3, <1>4, <1>5, <1>6, <1>7, <1>8, <1>9, <1>10, <1>11, <1>12, <1>13, <1>14, <1>15, <1>16, <1>17, <1>18, <1>19, <1>20, <1>21, <1>22, <1>23 DEF Next

\* What a run holds, it gives up in time.
LEMMA HeldKept ==
    ASSUME RunInv, [Next]_vars
    PROVE  HeldInv'
<1> USE DEF HeldInv, At, Go, FailTo, Early, Target, Files, Gone, held, search, output, disk
<1>0. Types /\ PlaceInv /\ HeldInv
  BY DEF RunInv
<1>1. CASE ParseCommand
  <2>1. UNCHANGED <<app, ai, report, temp, broken>> /\ pc = "start"
    BY <1>1, <1>0 DEF ParseCommand
  <2>2. /\ pc' \in {"exited", "watch", "prompt", "open"} /\ (pc' = "watch" => secret' = "none")
        /\ secret' \in {"none", "destroyed", "held"} /\ (pc' = "exited" => secret' # "held")
    BY <1>1, Parsed
  <2> QED BY <1>0, <2>1, <2>2
<1>2. CASE RunWatch
  BY <1>2, <1>0 DEF RunWatch
<1>3. CASE Prompt
  BY <1>3, <1>0 DEF Prompt
<1>4. CASE OpenApplication
  BY <1>4, <1>0 DEF OpenApplication
<1>5. CASE RunApp
  BY <1>5, <1>0 DEF RunApp
<1>6. CASE NextTarget
  BY <1>6, <1>0 DEF NextTarget
<1>7. CASE PrepareDirectory
  BY <1>7, <1>0 DEF PrepareDirectory
<1>8. CASE Search
  BY <1>8, <1>0 DEF Search
<1>9. CASE BuildReport
  BY <1>9, <1>0 DEF BuildReport
<1>10. CASE Analyze
  BY <1>10, <1>0 DEF Analyze
<1>11. CASE PlanOutputs
  BY <1>11, <1>0 DEF PlanOutputs
<1>12. CASE CreateTemp
  BY <1>12, <1>0 DEF CreateTemp, NextJob
<1>13. CASE WriteTemp
  BY <1>13, <1>0 DEF WriteTemp
<1>14. CASE Publish
  BY <1>14, <1>0 DEF Publish
<1>15. CASE SyncDirectory
  BY <1>15, <1>0 DEF SyncDirectory, NextJob
<1>16. CASE RemoveTemp
  BY <1>16, <1>0 DEF RemoveTemp, NextJob
<1>17. CASE Settle
  BY <1>17, <1>0 DEF Settle
<1>18. CASE Return
  BY <1>18, <1>0 DEF Return
<1>19. CASE Unwind
  BY <1>19, <1>0 DEF Unwind
<1>20. CASE Interrupt
  BY <1>20, <1>0 DEF Interrupt
<1>21. CASE Kill
  BY <1>21, <1>0 DEF Kill, Running
<1>22. CASE PowerLoss
  BY <1>22, <1>0 DEF PowerLoss
<1>23. CASE UNCHANGED vars
  BY <1>23, <1>0 DEF vars
<1> QED BY <1>1, <1>2, <1>3, <1>4, <1>5, <1>6, <1>7, <1>8, <1>9, <1>10, <1>11, <1>12, <1>13, <1>14, <1>15, <1>16, <1>17, <1>18, <1>19, <1>20, <1>21, <1>22, <1>23 DEF Next

\* The number of targets, after a step.
LEMMA TargetsNext == (TypedConfig(cfg) => Cardinality(Targets) \in Nat)'
<1>1. TypedConfig(cfg) => Cardinality(Targets) \in Nat
  BY TargetsAreNumbers
<1> QED BY <1>1, PTL

\* The types, after every step.
LEMMA TypesKept ==
    ASSUME RunInv, [Next]_vars
    PROVE  Types'
<1> USE DEF Types, At, Go, FailTo, Fault, held, search, output, disk
<1>0. /\ Types /\ PlaceInv /\ HeldInv /\ ReportInv /\ MaxResults \in Nat /\ MaxFaults \in Nat
      /\ cfg # Refused => /\ TypedConfig(cfg) /\ Cardinality(Targets) \in Nat
                          /\ searched \in Nat /\ searched <= Cardinality(Targets)
      /\ cfg' = cfg => Targets' = Targets /\ (WantsFiles' <=> WantsFiles)
  BY RunConfig, CommandAssumption DEF RunInv
<1>1. CASE ParseCommand
  <2>1. UNCHANGED <<app, ai, ended, report, temp, rows, faults>> /\ code' \in {code, 1}
    BY <1>1 DEF ParseCommand
  <2>2. /\ secret' \in {"none", "destroyed", "held"} /\ searched' = 0
        /\ cfg' # Refused => WellFormedConfig(cfg') /\ TypedConfig(cfg')
    BY <1>1, Parsed
  <2>3. cfg' # Refused => Cardinality(Targets') \in Nat
    BY <2>2, TargetsNext
  <2>4. \A n \in Nat : 0 \in 0 .. n
    OBVIOUS
  <2>5. cfg' # Refused => searched' \in 0 .. Cardinality(Targets')
    BY <2>2, <2>3, <2>4
  <2> QED BY <1>0, <2>1, <2>2, <2>5
<1>2. CASE RunWatch
  BY <1>2, <1>0 DEF RunWatch
<1>3. CASE Prompt
  BY <1>3, <1>0 DEF Prompt
<1>4. CASE OpenApplication
  BY <1>4, <1>0 DEF OpenApplication
<1>5. CASE RunApp
  BY <1>5, <1>0 DEF RunApp
<1>6. CASE NextTarget
  BY <1>6, <1>0 DEF NextTarget
<1>7. CASE PrepareDirectory
  BY <1>7, <1>0 DEF PrepareDirectory
<1>8. CASE Search
  <2>1. Len(rows') <= MaxResults
    BY <1>8, <1>0, RowsCollected DEF PlaceInv, At, Search, Gone
  <2>2. report = NoReport
    BY <1>8, <1>0 DEF HeldInv, Search, Gone
  <2> QED BY <1>8, <1>0, <2>1, <2>2 DEF Search
<1>9. CASE BuildReport
  <2>1. report' # NoReport => report' = NewReport(rows, failed, truncated) \/ report' = report
    BY <1>9 DEF BuildReport
  <2>2. report' # NoReport => report'.summary.results = Len(rows)
    BY <1>0, <2>1, ReportCounts DEF ReportInv
  <2> HIDE DEF Types
  <2>3. UNCHANGED <<cfg, ended, secret, app, ai, searched, rows, temp>> /\ code' \in {code, 1}
        /\ faults' \in {faults, faults + 1} /\ (faults' # faults => faults < MaxFaults)
        /\ pc # "start"
    BY <1>9 DEF BuildReport
  <2> QED BY <1>0, <2>2, <2>3 DEF Types
<1>10. CASE Analyze
  BY <1>10, <1>0 DEF Analyze
<1>11. CASE PlanOutputs
  BY <1>11, <1>0 DEF PlanOutputs
<1>12. CASE CreateTemp
  BY <1>12, <1>0 DEF CreateTemp, NextJob
<1>13. CASE WriteTemp
  BY <1>13, <1>0 DEF WriteTemp
<1>14. CASE Publish
  BY <1>14, <1>0 DEF Publish
<1>15. CASE SyncDirectory
  BY <1>15, <1>0 DEF SyncDirectory, NextJob
<1>16. CASE RemoveTemp
  BY <1>16, <1>0 DEF RemoveTemp, NextJob
<1>17. CASE Settle
  <2>1. report' = NoReport /\ Len(rows') = 0
    BY <1>17, <1>0 DEF HeldInv, Files, Gone, Settle
  <2>2. cfg # Refused /\ pc # "start" /\ searched < Cardinality(Targets)
    BY <1>17, <1>0 DEF PlaceInv, Settle, Target, Files, Gone
  <2> QED BY <1>17, <1>0, <2>1, <2>2 DEF Settle
<1>18. CASE Return
  <2>1. report' = NoReport /\ Len(rows') = 0
    BY <1>18, <1>0 DEF HeldInv, Files, Gone, Return
  <2>2. cfg # Refused /\ pc # "start" 
    BY <1>18, <1>0 DEF PlaceInv, Return, Target, Files, Gone
  <2> QED BY <1>18, <1>0, <2>1, <2>2 DEF Return
<1>19. CASE Unwind
  BY <1>19, <1>0 DEF Unwind
<1>20. CASE Interrupt
  BY <1>20, <1>0 DEF Interrupt
<1>21. CASE Kill
  BY <1>21, <1>0 DEF Kill
<1>22. CASE PowerLoss
  BY <1>22, <1>0 DEF PowerLoss
<1>23. CASE UNCHANGED vars
  BY <1>23, <1>0 DEF vars
<1> QED BY <1>1, <1>2, <1>3, <1>4, <1>5, <1>6, <1>7, <1>8, <1>9, <1>10, <1>11, <1>12, <1>13, <1>14, <1>15, <1>16, <1>17, <1>18, <1>19, <1>20, <1>21, <1>22, <1>23 DEF Next

\* The rows and the report stay as they were.
LEMMA ReportSame ==
    ASSUME ReportInv, UNCHANGED <<cfg, search>>,
           pc' = pc \/ pc' \in Gone \/ (analysis = NoReport /\ pc' # "analyze")
    PROVE  ReportInv'
<1>1. UNCHANGED <<rows, failed, truncated, report, analysis, cfg>>
  BY DEF search
<1>2. /\ WellFormedRows(rows') /\ (truncated' => failed')
      /\ pc' = "analyze" \/ report' # NoReport => report' = NewReport(rows', failed', truncated')
  BY <1>1 DEF ReportInv, Gone
<1>3. CASE analysis = NoReport
  BY <1>1, <1>2, <1>3 DEF ReportInv
<1>4. CASE analysis # NoReport
  BY <1>1, <1>2, <1>4 DEF ReportInv
<1> QED BY <1>3, <1>4

\* Without a report there is nothing to be unfaithful to.
LEMMA NoReportKept ==
    ASSUME report' = NoReport, analysis' = NoReport, pc' # "analyze", WellFormedRows(rows'), truncated' => failed'
    PROVE  ReportInv'
BY DEF ReportInv

\* A report is that of the rows collected, an analysis that of the report, after every step.
LEMMA ReportKept ==
    ASSUME RunInv, [Next]_vars
    PROVE  ReportInv'
<1> USE DEF At, Go, FailTo, held, output, disk
<1>0. /\ Types /\ PlaceInv /\ HeldInv /\ ReportInv
      /\ pc \notin {"analyze", "outputs"} \cup Gone => report = NoReport
      /\ pc \notin {"outputs"} \cup Gone => analysis = NoReport
  BY DEF RunInv, HeldInv, ReportInv
<1>1. CASE ParseCommand
  <2>1. pc = "start" /\ UNCHANGED search
    BY <1>1 DEF ParseCommand
  <2>2. report = NoReport /\ analysis = NoReport
    BY <1>0, <2>1 DEF Gone
  <2>3. pc' # "analyze"
    BY <1>1, Parsed
  <2>4. WellFormedRows(rows') /\ (truncated' => failed') /\ report' = NoReport /\ analysis' = NoReport
    BY <1>0, <2>1, <2>2 DEF ReportInv, search
  <2> QED BY <2>3, <2>4, NoReportKept
<1>2. CASE Search
  <2>1. cfg # Refused /\ cfg.mode # "watch" /\ pc = "search" /\ UNCHANGED <<report, analysis>>
        /\ (truncated' => failed') /\ pc' # "analyze"
    BY <1>0, <1>2 DEF Search, PlaceInv, Gone
  <2>2. WellFormedRows(rows')
    BY <1>0, <1>2, <2>1, RowsCollected
  <2> QED BY <1>0, <2>1, <2>2, NoReportKept DEF Gone
<1>3. CASE BuildReport
  <2>1. /\ pc = "report" /\ UNCHANGED <<rows, failed, truncated, analysis>>
        /\ \/ report' = NewReport(rows, failed, truncated)
           \/ report' = report /\ pc' = "return"
    BY <1>3 DEF BuildReport
  <2>2. report = NoReport /\ analysis' = NoReport
    BY <1>0, <2>1 DEF Gone
  <2> QED BY <1>0, <2>1, <2>2 DEF ReportInv
<1>4. CASE Analyze
  <2>1. /\ UNCHANGED <<cfg, rows, failed, truncated, report>> /\ pc = "analyze" /\ pc' = "outputs"
        /\ LET records == Prepare(report, cfg.mode = "password") IN
           analysis' = Failed("unavailable") \/ \E answer \in Answers(records) : analysis' = Parse(answer, records)
    BY <1>4 DEF Analyze
  <2> QED BY <1>0, <2>1 DEF ReportInv
<1>5. CASE PlanOutputs
  <2>1. /\ rows' = <<>> /\ report' = NoReport /\ analysis' = NoReport /\ UNCHANGED <<failed, truncated>>
        /\ pc' = "create"
    BY <1>5 DEF PlanOutputs
  <2> QED BY <1>0, <2>1, NoRows, NoReportKept DEF ReportInv
<1>6. CASE Settle
  <2>1. /\ rows' = <<>> /\ ~truncated' /\ UNCHANGED <<report, analysis>> /\ pc \in {"settle", "create"}
        /\ pc' # "analyze"
    BY <1>6 DEF Settle
  <2> QED BY <1>0, <2>1, NoRows, NoReportKept DEF Gone
<1>7. CASE Return
  <2>1. /\ rows' = <<>> /\ ~truncated' /\ UNCHANGED <<report, analysis>> /\ pc = "return"
        /\ pc' # "analyze"
    BY <1>7 DEF Return
  <2> QED BY <1>0, <2>1, NoRows, NoReportKept DEF Gone
<1>8. ASSUME ~(ParseCommand \/ Search \/ BuildReport \/ Analyze \/ PlanOutputs \/ Settle \/ Return)
      PROVE  /\ UNCHANGED <<cfg, search>>
             /\ pc' = pc \/ pc' \in Gone \/ (pc \notin {"outputs"} \cup Gone /\ pc' # "analyze")
  BY <1>8 DEF Next, vars, RunWatch, Prompt, OpenApplication, RunApp, NextTarget, PrepareDirectory, CreateTemp,
         WriteTemp, Publish, SyncDirectory, RemoveTemp, NextJob, Unwind, Interrupt, Kill, PowerLoss, Gone
<1> QED BY <1>0, <1>1, <1>2, <1>3, <1>4, <1>5, <1>6, <1>7, <1>8, ReportSame

-----------------------------------------------------------------------------
(* The files to write *)

\* The next file and those after it.
NextIndex == Len(Planned(searched + 1)) - Len(jobs) + 1

\* While a target's files are written, the next one is one of those planned.
LEMMA NextIsPlanned ==
    ASSUME RunInv, JobsInv, pc \in Files
    PROVE  /\ cfg # Refused /\ TypedConfig(cfg) /\ searched \in Nat /\ searched + 1 \in Targets
           /\ Len(Planned(searched + 1)) \in Nat
           /\ DOMAIN Planned(searched + 1) = 1 .. Len(Planned(searched + 1))
           /\ Len(jobs) \in Nat /\ DOMAIN jobs = 1 .. Len(jobs) /\ Len(jobs) <= Len(Planned(searched + 1))
           /\ jobs # <<>> =>
                /\ NextIndex \in DOMAIN Planned(searched + 1) /\ Head(jobs) = Planned(searched + 1)[NextIndex]
                /\ Len(jobs) # 0 /\ Len(Tail(jobs)) = Len(jobs) - 1
<1>1. pc \in Target /\ pc \notin Gone /\ pc # "start" /\ pc # "exited"
  BY DEF Target, Files, Gone
<1>2. cfg # Refused /\ TypedConfig(cfg) /\ searched \in Nat /\ searched < Cardinality(Targets)
  BY <1>1 DEF RunInv, PlaceInv, Gone
<1>3. searched + 1 \in Targets
  BY <1>2, TargetsAreNumbers
<1> DEFINE planned == Planned(searched + 1)
<1>4. PICK T : planned \in Seq(T)
  BY <1>2, <1>3, PlannedFacts
<1>5. /\ jobs \in Seq({planned[i] : i \in DOMAIN planned}) /\ Len(jobs) <= Len(planned)
      /\ \A i \in DOMAIN jobs : jobs[i] = planned[Len(planned) - Len(jobs) + i]
  BY DEF JobsInv
<1> HIDE DEF planned
<1>6. /\ Len(planned) \in Nat /\ DOMAIN planned = 1 .. Len(planned)
      /\ Len(jobs) \in Nat /\ DOMAIN jobs = 1 .. Len(jobs)
  BY <1>4, <1>5
<1>7. ASSUME jobs # <<>>
      PROVE  /\ Len(planned) - Len(jobs) + 1 \in DOMAIN planned
             /\ Head(jobs) = planned[Len(planned) - Len(jobs) + 1]
             /\ Len(jobs) # 0 /\ Len(Tail(jobs)) = Len(jobs) - 1
  <2>1. Len(jobs) # 0 /\ Head(jobs) = jobs[1] /\ Len(Tail(jobs)) = Len(jobs) - 1
    BY <1>5, <1>7
  <2>2. 1 \in DOMAIN jobs /\ Len(planned) - Len(jobs) + 1 \in DOMAIN planned
    BY <1>5, <1>6, <2>1
  <2> QED BY <1>5, <2>1, <2>2
<1> QED BY <1>2, <1>3, <1>5, <1>6, <1>7 DEF planned, NextIndex

\* A step that takes a file off the list.
LEMMA JobTaken ==
    ASSUME RunInv, JobsInv, pc \in Files, jobs # <<>>, NextJob, UNCHANGED <<cfg, searched>>
    PROVE  JobsInv'
<1> DEFINE planned == Planned(searched + 1)
<1>1. Planned(searched + 1)' = planned
  BY ConfigSame
<1>2. /\ jobs \in Seq({planned[i] : i \in DOMAIN planned}) /\ Len(jobs) <= Len(planned)
      /\ \A i \in DOMAIN jobs : jobs[i] = planned[Len(planned) - Len(jobs) + i]
  BY DEF JobsInv
<1>3. Len(planned) \in Nat /\ Len(jobs) \in Nat /\ DOMAIN jobs = 1 .. Len(jobs) /\ Len(jobs) # 0
  BY NextIsPlanned
<1>4. jobs' = Tail(jobs) /\ pc' = "create"
  BY DEF NextJob, Go
<1> HIDE DEF planned
<1>5. jobs' \in Seq({planned[i] : i \in DOMAIN planned})
  <2> DEFINE S == {planned[i] : i \in DOMAIN planned}
  <2>1. jobs \in Seq(S) /\ jobs # <<>>
    BY <1>2
  <2> HIDE DEF S
  <2>2. Tail(jobs) \in Seq(S)
    BY <2>1
  <2> QED BY <1>4, <2>2 DEF S
<1>6. /\ Len(jobs') = Len(jobs) - 1 /\ DOMAIN jobs' = 1 .. Len(jobs) - 1
      /\ \A i \in 1 .. Len(jobs) - 1 : jobs'[i] = jobs[i + 1]
  <2> DEFINE S == {planned[i] : i \in DOMAIN planned}
  <2>1. jobs \in Seq(S) /\ jobs # <<>>
    BY <1>2
  <2> HIDE DEF S
  <2> QED BY <1>4, <2>1
<1>7. \A i \in DOMAIN jobs' : jobs'[i] = planned[Len(planned) - Len(jobs') + i]
  <2>1. ASSUME NEW i \in 1 .. Len(jobs) - 1
        PROVE  jobs'[i] = planned[Len(planned) - Len(jobs') + i]
    <3>1. i + 1 \in DOMAIN jobs
      BY <1>3, <2>1
    <3>2. jobs[i + 1] = planned[Len(planned) - Len(jobs) + (i + 1)]
      BY <1>2, <3>1
    <3>3. Len(planned) - Len(jobs) + (i + 1) = Len(planned) - Len(jobs') + i
      BY <1>3, <1>6, <2>1
    <3> QED BY <1>6, <2>1, <3>2, <3>3
  <2> QED BY <1>6, <2>1
<1>8. Len(jobs') <= Len(planned)
  BY <1>2, <1>3, <1>6
<1> QED BY <1>1, <1>4, <1>5, <1>7, <1>8 DEF JobsInv

\* A step that leaves the list alone.
LEMMA JobsLeft ==
    ASSUME JobsInv, pc' \in Files => pc \in Files /\ (pc' = pc \/ jobs # <<>>),
           UNCHANGED <<cfg, searched, jobs>>
    PROVE  JobsInv'
<1>1. Planned(searched + 1)' = Planned(searched + 1)
  BY ConfigSame
<1> QED BY <1>1 DEF JobsInv

\* The files still to write are the last ones planned, after every step.
LEMMA JobsKept ==
    ASSUME RunInv, JobsInv, [Next]_vars
    PROVE  JobsInv'
<1> USE DEF At, Go, FailTo, Files, held, search, output, disk
<1>1. CASE ParseCommand
  <2>1. pc' \notin Files
    BY <1>1 DEF ParseCommand
  <2> QED BY <2>1 DEF JobsInv
<1>2. CASE RunWatch
  <2>1. pc' \notin Files
    BY <1>2 DEF RunWatch
  <2> QED BY <2>1 DEF JobsInv
<1>3. CASE Prompt
  <2>1. pc' \notin Files
    BY <1>3 DEF Prompt
  <2> QED BY <2>1 DEF JobsInv
<1>4. CASE OpenApplication
  <2>1. pc' \notin Files
    BY <1>4 DEF OpenApplication
  <2> QED BY <2>1 DEF JobsInv
<1>5. CASE RunApp
  <2>1. pc' \notin Files
    BY <1>5 DEF RunApp
  <2> QED BY <2>1 DEF JobsInv
<1>6. CASE NextTarget
  <2>1. pc' \notin Files
    BY <1>6 DEF NextTarget
  <2> QED BY <2>1 DEF JobsInv
<1>7. CASE PrepareDirectory
  <2>1. pc' \notin Files
    BY <1>7 DEF PrepareDirectory
  <2> QED BY <2>1 DEF JobsInv
<1>8. CASE Search
  <2>1. pc' \notin Files
    BY <1>8 DEF Search
  <2> QED BY <2>1 DEF JobsInv
<1>9. CASE BuildReport
  <2>1. pc' \notin Files
    BY <1>9 DEF BuildReport
  <2> QED BY <2>1 DEF JobsInv
<1>10. CASE Analyze
  <2>1. pc' \notin Files
    BY <1>10 DEF Analyze
  <2> QED BY <2>1 DEF JobsInv
<1>11. CASE PlanOutputs
  <2>1. pc = "outputs" /\ pc' = "create" /\ UNCHANGED <<cfg, searched>> /\ jobs' = Planned(searched + 1)
    BY <1>11 DEF PlanOutputs
  <2>2. cfg # Refused /\ TypedConfig(cfg) /\ searched \in Nat /\ searched < Cardinality(Targets)
    BY <2>1 DEF RunInv, PlaceInv, Target, Gone
  <2>3. searched + 1 \in Targets
    BY <2>2, TargetsAreNumbers
  <2>4. PICK T : Planned(searched + 1) \in Seq(T)
    BY <2>2, <2>3, PlannedFacts
  <2>5. \A s \in Seq(T) :
          /\ s \in Seq({s[i] : i \in DOMAIN s}) /\ Len(s) \in Nat
          /\ \A i \in DOMAIN s : i \in Nat
    OBVIOUS
  <2>6. Planned(searched + 1)' = Planned(searched + 1)
    BY <2>1, ConfigSame
  <2>7. \A i \in DOMAIN jobs' : jobs'[i] = jobs'[Len(jobs') - Len(jobs') + i]
    BY <2>1, <2>4, <2>5
  <2> QED BY <2>1, <2>4, <2>5, <2>6, <2>7 DEF JobsInv
<1>12. CASE CreateTemp
  <2>1. pc = "create" /\ jobs # <<>> /\ UNCHANGED <<cfg, searched>>
    BY <1>12 DEF CreateTemp
  <2>2. NextJob \/ (jobs' = jobs /\ pc' = "write")
    BY <1>12 DEF CreateTemp
  <2> QED BY <2>1, <2>2, JobTaken, JobsLeft
<1>13. CASE WriteTemp
  BY <1>13, JobsLeft DEF WriteTemp, JobsInv
<1>14. CASE Publish
  BY <1>14, JobsLeft DEF Publish, JobsInv
<1>15. CASE SyncDirectory
  BY <1>15, JobTaken DEF SyncDirectory, JobsInv
<1>16. CASE RemoveTemp
  BY <1>16, JobTaken DEF RemoveTemp, JobsInv
<1>17. CASE Settle
  <2>1. pc' \notin Files
    BY <1>17 DEF Settle
  <2> QED BY <2>1 DEF JobsInv
<1>18. CASE Return
  <2>1. pc' \notin Files
    BY <1>18 DEF Return
  <2> QED BY <2>1 DEF JobsInv
<1>19. CASE Unwind
  <2>1. pc' \notin Files
    BY <1>19 DEF Unwind
  <2> QED BY <2>1 DEF JobsInv
<1>20. CASE Interrupt
  BY <1>20, JobsLeft DEF Interrupt, JobsInv
<1>21. CASE Kill
  <2>1. pc' \notin Files
    BY <1>21 DEF Kill
  <2> QED BY <2>1 DEF JobsInv
<1>22. CASE PowerLoss
  <2>1. pc' \notin Files
    BY <1>22 DEF PowerLoss
  <2> QED BY <2>1 DEF JobsInv
<1>23. CASE UNCHANGED vars
  BY <1>23, JobsLeft DEF vars
<1> QED BY <1>1, <1>2, <1>3, <1>4, <1>5, <1>6, <1>7, <1>8, <1>9, <1>10, <1>11, <1>12, <1>13, <1>14, <1>15, <1>16, <1>17, <1>18, <1>19, <1>20, <1>21, <1>22, <1>23 DEF Next

-----------------------------------------------------------------------------
(* The contents of the files *)

FilesInv == KeptInv /\ OldOrNew

\* A run begins with the reports of earlier ones.
LEMMA FilesInit == Init => JobsInv /\ FilesInv
<1> SUFFICES ASSUME Init PROVE JobsInv /\ FilesInv
  OBVIOUS
<1>1. DOMAIN seen = OldFiles /\ (\A f \in OldFiles : seen[f] = Old) /\ kept = seen
  BY DEF Init
<1>2. pc = "start" /\ seen = [f \in OldFiles |-> Old]
  BY DEF Init
<1>3. JobsInv
  BY <1>2 DEF JobsInv, Files
<1>4. FilesInv
  BY <1>1, <1>2 DEF FilesInv, KeptInv, OldOrNew, Whole
<1> QED BY <1>3, <1>4

\* What is whole stays whole, as more targets are searched.
LEMMA WholeStays ==
    ASSUME searched \in Nat, cfg' = cfg, searched' \in {searched, searched + 1}
    PROVE  \A f, content : Whole(f, content) => Whole(f, content)'
<1>1. \A t : Planned(t)' = Planned(t)
  BY ConfigSame
<1>2. 1 .. searched + 1 \subseteq 1 .. searched' + 1
  <2>1. \A n \in Nat : 1 .. n + 1 \subseteq 1 .. (n + 1) + 1
    OBVIOUS
  <2> QED BY <2>1
<1> QED BY <1>1, <1>2 DEF Whole

\* A step that leaves the files alone.
LEMMA FilesLeft ==
    ASSUME FilesInv, searched \in Nat, UNCHANGED <<cfg, seen, kept>>,
           searched' \in {searched, searched + 1}, pc' # "start" \/ pc' = pc
    PROVE  FilesInv'
<1>1. \A f, content : Whole(f, content) => Whole(f, content)'
  BY WholeStays
<1>2. ASSUME NEW f \in DOMAIN seen PROVE Whole(f, seen[f])'
  <2>1. Whole(f, seen[f])
    BY <1>2 DEF FilesInv, OldOrNew
  <2>2. PICK content : content = seen[f]
    OBVIOUS
  <2>3. Whole(f, content)'
    BY <1>1, <2>1, <2>2
  <2> QED BY <2>2, <2>3 DEF Whole
<1>3. ASSUME NEW f \in DOMAIN kept PROVE Whole(f, kept[f])'
  <2>1. Whole(f, kept[f])
    BY <1>3 DEF FilesInv, KeptInv
  <2>2. PICK content : content = kept[f]
    OBVIOUS
  <2>3. Whole(f, content)'
    BY <1>1, <2>1, <2>2
  <2> QED BY <2>2, <2>3 DEF Whole
<1>4. OldOrNew'
  BY <1>2 DEF FilesInv, OldOrNew
<1>5. KeptInv'
  BY <1>3 DEF FilesInv, KeptInv
<1> QED BY <1>4, <1>5 DEF FilesInv


\* publish puts a whole document under the name of the next file.
LEMMA PublishedWhole ==
    ASSUME RunInv, JobsInv, FilesInv, Publish
    PROVE  FilesInv'
<1> DEFINE file == Head(jobs).name
           content == [Content(Head(jobs)) EXCEPT !.whole = temp = "whole"]
<1>1. /\ pc = "publish" /\ jobs # <<>> /\ temp = "whole" /\ pc' \in {"sync", "remove"}
      /\ UNCHANGED <<cfg, searched, kept, jobs>>
  BY DEF Publish, At, Go, JobsInv, Files, RunInv, HeldInv, held, search, output
<1>2. /\ searched \in Nat /\ NextIndex \in DOMAIN Planned(searched + 1)
      /\ Head(jobs) = Planned(searched + 1)[NextIndex]
  BY <1>1, NextIsPlanned DEF Files
<1>3. CASE seen' = seen
  BY <1>1, <1>2, <1>3, FilesLeft
<1>4. CASE seen' # seen
  <2>1. seen' = [f \in DOMAIN seen \cup {file} |-> IF f = file THEN content ELSE seen[f]]
    BY <1>4 DEF Publish
  <2>2. content.whole /\ content.target = searched + 1 /\ content.document = Head(jobs).document
    BY <1>1 DEF Content
  <2>3. Whole(file, content)
    <3>1. content.target \in 1 .. searched + 1
      BY <1>2, <2>2
    <3> HIDE DEF content
    <3> QED BY <1>2, <2>2, <3>1 DEF Whole
  <2>4. \A f, c : Whole(f, c) => Whole(f, c)'
    BY <1>1, <1>2, WholeStays
  <2> HIDE DEF content, file
  <2>5. ASSUME NEW f \in DOMAIN seen' PROVE Whole(f, seen[f])'
    <3>1. PICK c : c = IF f = file THEN content ELSE seen[f]
      OBVIOUS
    <3>2. Whole(f, c)
      BY <2>1, <2>3, <2>5, <3>1 DEF FilesInv, OldOrNew
    <3>3. Whole(f, c)' /\ seen'[f] = c
      BY <2>1, <2>4, <2>5, <3>1, <3>2
    <3> QED BY <3>3 DEF Whole
  <2>6. ASSUME NEW f \in DOMAIN kept PROVE Whole(f, kept[f])'
    <3>1. PICK c : c = kept[f]
      OBVIOUS
    <3>2. Whole(f, c)'
      BY <2>4, <2>6, <3>1 DEF FilesInv, KeptInv
    <3>3. kept'[f] = c
      BY <1>1, <3>1
    <3> QED BY <3>2, <3>3 DEF Whole
  <2>7. DOMAIN seen' = DOMAIN seen \cup {file}
    BY <2>1
  <2>8. OldOrNew'
    BY <2>5, <2>7 DEF FilesInv, OldOrNew
  <2>9. KeptInv'
    BY <1>1, <2>6, <2>7 DEF FilesInv, KeptInv
  <2> QED BY <2>8, <2>9 DEF FilesInv
<1> QED BY <1>3, <1>4

\* A step after which what is kept was seen or kept before.
LEMMA KeptAfter ==
    ASSUME FilesInv, searched \in Nat, UNCHANGED <<cfg, searched>>, pc' # "start",
           \A f \in DOMAIN seen' : \/ f \in DOMAIN seen /\ seen'[f] = seen[f]
                                   \/ f \in DOMAIN kept /\ seen'[f] = kept[f],
           \A f \in DOMAIN kept' : \/ f \in DOMAIN seen /\ kept'[f] = seen[f]
                                   \/ f \in DOMAIN kept /\ kept'[f] = kept[f],
           DOMAIN kept' \subseteq DOMAIN seen', OldFiles \subseteq DOMAIN kept'
    PROVE  FilesInv'
<1>1. \A f, c : Whole(f, c) => Whole(f, c)'
  BY WholeStays
<1>2. /\ \A f \in DOMAIN seen : Whole(f, seen[f])
      /\ \A f \in DOMAIN kept : Whole(f, kept[f])
  BY DEF FilesInv, OldOrNew, KeptInv
<1>3. ASSUME NEW f \in DOMAIN seen' PROVE Whole(f, seen[f])'
  <2>1. PICK c : c = seen'[f]
    OBVIOUS
  <2>2. Whole(f, c)
    BY <1>2, <1>3, <2>1
  <2>3. Whole(f, c)'
    BY <1>1, <2>2
  <2> QED BY <2>1, <2>3 DEF Whole
<1>4. ASSUME NEW f \in DOMAIN kept' PROVE Whole(f, kept[f])'
  <2>1. PICK c : c = kept'[f]
    OBVIOUS
  <2>2. Whole(f, c)
    BY <1>2, <1>4, <2>1
  <2>3. Whole(f, c)'
    BY <1>1, <2>2
  <2> QED BY <2>1, <2>3 DEF Whole
<1>5. OldOrNew'
  BY <1>3 DEF OldOrNew
<1>6. KeptInv'
  BY <1>4 DEF KeptInv
<1> QED BY <1>5, <1>6 DEF FilesInv

\* After a power failure, too.
LEMMA PowerLossWhole ==
    ASSUME RunInv, FilesInv, PowerLoss
    PROVE  FilesInv'
<1> DEFINE unsynced == {f \in DOMAIN seen : f \notin DOMAIN kept \/ kept[f] # seen[f]}
           made == {f.dir : f \in DOMAIN seen} \ OldDirs
<1>1. PICK lost \in SUBSET unsynced, gone \in SUBSET made :
         seen' = [f \in {g \in DOMAIN seen : g.dir \notin gone /\ (g \in lost => g \in DOMAIN kept)} |->
                      IF f \in lost THEN kept[f] ELSE seen[f]]
  BY DEF PowerLoss
<1>2. kept' = seen' /\ UNCHANGED <<cfg, searched>> /\ pc' # "start" /\ searched \in Nat
  BY DEF PowerLoss, search, Go, RunInv, PlaceInv
<1>3. \A f \in DOMAIN seen' : \/ f \in DOMAIN seen /\ seen'[f] = seen[f]
                              \/ f \in DOMAIN kept /\ seen'[f] = kept[f]
  BY <1>1
<1>4. OldFiles \subseteq DOMAIN kept'
  <2>1. ASSUME NEW f \in OldFiles PROVE f \in DOMAIN seen'
    <3>1. f \in DOMAIN kept /\ f \in DOMAIN seen
      BY DEF FilesInv, KeptInv
    <3>2. f.dir \notin gone
      BY CommandAssumption
    <3> QED BY <1>1, <3>1, <3>2
  <2> QED BY <1>2, <2>1
<1> QED BY <1>2, <1>3, <1>4, KeptAfter

\* The contents of the files, after every step.
LEMMA FilesKept ==
    ASSUME RunInv, JobsInv, FilesInv, [Next]_vars
    PROVE  FilesInv'
<1> USE DEF At, Go, FailTo, held, search, output, disk
<1>0. searched \in Nat
  BY DEF RunInv, PlaceInv
<1>1. CASE ParseCommand
  <2>1. pc = "start" /\ UNCHANGED <<seen, kept>> /\ pc' # "start"
    BY <1>1, Parsed DEF ParseCommand
  <2>2. seen = [f \in OldFiles |-> Old] /\ kept = seen
    BY <2>1 DEF FilesInv, KeptInv
  <2>3. \A f \in OldFiles : Whole(f, seen[f])' /\ Whole(f, kept[f])'
    BY <2>1, <2>2 DEF Whole, Old
  <2> QED BY <2>1, <2>2, <2>3 DEF FilesInv, KeptInv, OldOrNew
<1>2. CASE RunWatch
  <2>1. UNCHANGED <<cfg, seen, kept>> /\ searched' \in {searched, searched + 1} /\ (pc' # "start" \/ pc' = pc)
    BY <1>2 DEF RunWatch
  <2> QED BY <1>0, <2>1, FilesLeft
<1>3. CASE Prompt
  <2>1. UNCHANGED <<cfg, seen, kept>> /\ searched' \in {searched, searched + 1} /\ (pc' # "start" \/ pc' = pc)
    BY <1>3 DEF Prompt
  <2> QED BY <1>0, <2>1, FilesLeft
<1>4. CASE OpenApplication
  <2>1. UNCHANGED <<cfg, seen, kept>> /\ searched' \in {searched, searched + 1} /\ (pc' # "start" \/ pc' = pc)
    BY <1>4 DEF OpenApplication
  <2> QED BY <1>0, <2>1, FilesLeft
<1>5. CASE RunApp
  <2>1. UNCHANGED <<cfg, seen, kept>> /\ searched' \in {searched, searched + 1} /\ (pc' # "start" \/ pc' = pc)
    BY <1>5 DEF RunApp
  <2> QED BY <1>0, <2>1, FilesLeft
<1>6. CASE NextTarget
  <2>1. UNCHANGED <<cfg, seen, kept>> /\ searched' \in {searched, searched + 1} /\ (pc' # "start" \/ pc' = pc)
    BY <1>6 DEF NextTarget
  <2> QED BY <1>0, <2>1, FilesLeft
<1>7. CASE PrepareDirectory
  <2>1. UNCHANGED <<cfg, seen, kept>> /\ searched' \in {searched, searched + 1} /\ (pc' # "start" \/ pc' = pc)
    BY <1>7 DEF PrepareDirectory
  <2> QED BY <1>0, <2>1, FilesLeft
<1>8. CASE Search
  <2>1. UNCHANGED <<cfg, seen, kept>> /\ searched' \in {searched, searched + 1} /\ (pc' # "start" \/ pc' = pc)
    BY <1>8 DEF Search
  <2> QED BY <1>0, <2>1, FilesLeft
<1>9. CASE BuildReport
  <2>1. UNCHANGED <<cfg, seen, kept>> /\ searched' \in {searched, searched + 1} /\ (pc' # "start" \/ pc' = pc)
    BY <1>9 DEF BuildReport
  <2> QED BY <1>0, <2>1, FilesLeft
<1>10. CASE Analyze
  <2>1. UNCHANGED <<cfg, seen, kept>> /\ searched' \in {searched, searched + 1} /\ (pc' # "start" \/ pc' = pc)
    BY <1>10 DEF Analyze
  <2> QED BY <1>0, <2>1, FilesLeft
<1>11. CASE PlanOutputs
  <2>1. UNCHANGED <<cfg, seen, kept>> /\ searched' \in {searched, searched + 1} /\ (pc' # "start" \/ pc' = pc)
    BY <1>11 DEF PlanOutputs
  <2> QED BY <1>0, <2>1, FilesLeft
<1>12. CASE CreateTemp
  <2>1. UNCHANGED <<cfg, seen, kept>> /\ searched' \in {searched, searched + 1} /\ (pc' # "start" \/ pc' = pc)
    BY <1>12 DEF CreateTemp, NextJob
  <2> QED BY <1>0, <2>1, FilesLeft
<1>13. CASE WriteTemp
  <2>1. UNCHANGED <<cfg, seen, kept>> /\ searched' \in {searched, searched + 1} /\ (pc' # "start" \/ pc' = pc)
    BY <1>13 DEF WriteTemp
  <2> QED BY <1>0, <2>1, FilesLeft
<1>14. CASE Publish
  BY <1>14, PublishedWhole
<1>15. CASE SyncDirectory
  <2>1. UNCHANGED <<cfg, searched, seen>> /\ pc' # "start"
    BY <1>15 DEF SyncDirectory, NextJob
  <2>2. CASE kept' = kept
    BY <1>0, <2>1, <2>2, FilesLeft
  <2>3. CASE kept' # kept
    <3> DEFINE synced == {f \in DOMAIN seen : f.dir = Head(jobs).name.dir}
    <3>1. kept' = [f \in DOMAIN kept \cup synced |-> IF f \in synced THEN seen[f] ELSE kept[f]]
      BY <1>15, <2>3 DEF SyncDirectory
    <3>2. synced \subseteq DOMAIN seen
      OBVIOUS
    <3> HIDE DEF synced
    <3>3. DOMAIN kept \subseteq DOMAIN seen /\ OldFiles \subseteq DOMAIN kept
      BY DEF FilesInv, KeptInv
    <3>4. DOMAIN kept' \subseteq DOMAIN seen' /\ OldFiles \subseteq DOMAIN kept'
      BY <2>1, <3>1, <3>2, <3>3
    <3>5. \A f \in DOMAIN kept' :
              (f \in DOMAIN seen /\ kept'[f] = seen[f]) \/ (f \in DOMAIN kept /\ kept'[f] = kept[f])
      <4>1. ASSUME NEW f \in synced PROVE f \in DOMAIN seen /\ kept'[f] = seen[f]
        BY <3>1, <3>2, <4>1
      <4>2. ASSUME NEW f \in DOMAIN kept, f \notin synced PROVE kept'[f] = kept[f]
        BY <3>1, <4>2
      <4>3. \A f \in DOMAIN kept' : f \in synced \/ (f \in DOMAIN kept /\ f \notin synced)
        BY <3>1
      <4> QED BY <4>1, <4>2, <4>3
    <3> QED BY <1>0, <2>1, <3>4, <3>5, KeptAfter
  <2> QED BY <2>2, <2>3
<1>16. CASE RemoveTemp
  <2>1. UNCHANGED <<cfg, seen, kept>> /\ searched' \in {searched, searched + 1} /\ (pc' # "start" \/ pc' = pc)
    BY <1>16 DEF RemoveTemp, NextJob
  <2> QED BY <1>0, <2>1, FilesLeft
<1>17. CASE Settle
  <2>1. UNCHANGED <<cfg, seen, kept>> /\ searched' \in {searched, searched + 1} /\ (pc' # "start" \/ pc' = pc)
    BY <1>17 DEF Settle
  <2> QED BY <1>0, <2>1, FilesLeft
<1>18. CASE Return
  <2>1. UNCHANGED <<cfg, seen, kept>> /\ searched' \in {searched, searched + 1} /\ (pc' # "start" \/ pc' = pc)
    BY <1>18 DEF Return
  <2> QED BY <1>0, <2>1, FilesLeft
<1>19. CASE Unwind
  <2>1. UNCHANGED <<cfg, seen, kept>> /\ searched' \in {searched, searched + 1} /\ (pc' # "start" \/ pc' = pc)
    BY <1>19 DEF Unwind
  <2> QED BY <1>0, <2>1, FilesLeft
<1>20. CASE Interrupt
  <2>1. UNCHANGED <<cfg, seen, kept>> /\ searched' \in {searched, searched + 1} /\ (pc' # "start" \/ pc' = pc)
    BY <1>20 DEF Interrupt
  <2> QED BY <1>0, <2>1, FilesLeft
<1>21. CASE Kill
  <2>1. UNCHANGED <<cfg, seen, kept>> /\ searched' \in {searched, searched + 1} /\ (pc' # "start" \/ pc' = pc)
    BY <1>21 DEF Kill, Running
  <2> QED BY <1>0, <2>1, FilesLeft
<1>22. CASE PowerLoss
  BY <1>22, PowerLossWhole
<1>23. CASE UNCHANGED vars
  BY <1>0, <1>23, FilesLeft DEF vars
<1> QED BY <1>1, <1>2, <1>3, <1>4, <1>5, <1>6, <1>7, <1>8, <1>9, <1>10, <1>11, <1>12, <1>13, <1>14, <1>15, <1>16, <1>17, <1>18, <1>19, <1>20, <1>21, <1>22, <1>23 DEF Next

-----------------------------------------------------------------------------
(* What has been written stands *)

\* A step that writes nothing but to the console.
LEMMA StandsOn ==
    ASSUME AllStanding, UNCHANGED <<cfg, seen, kept>>, pc = "sync" => pc' = "sync" /\ jobs' = jobs,
           \A t \in Targets : \A i \in DOMAIN Planned(t) :
              /\ Written(t, i) => Written(t, i)'
              /\ Written(t, i)' => Written(t, i) \/ Planned(t)[i].name = Stdout.name
    PROVE  AllStanding'
<1>1. Targets' = Targets /\ \A t : Planned(t)' = Planned(t)
  BY ConfigSame
<1>2. Stdout' = Stdout
  BY DEF Stdout, Job
<1>3. ASSUME NEW name, name # Stdout.name, Standing(name)
      PROVE  Standing(name)'
  <2>1. PICK t \in Targets : \E i \in DOMAIN Planned(t) :
          /\ Written(t, i) /\ Planned(t)[i].name = name
          /\ seen[name] = [target |-> t, document |-> Planned(t)[i].document, whole |-> TRUE]
          /\ \A u \in Targets : \A j \in DOMAIN Planned(u) :
                Written(u, j) /\ Planned(u)[j].name = name => u <= t
    BY <1>3 DEF Standing
  <2>2. PICK i \in DOMAIN Planned(t) :
          /\ Written(t, i) /\ Planned(t)[i].name = name
          /\ seen[name] = [target |-> t, document |-> Planned(t)[i].document, whole |-> TRUE]
          /\ \A u \in Targets : \A j \in DOMAIN Planned(u) :
                Written(u, j) /\ Planned(u)[j].name = name => u <= t
    BY <2>1
  <2>3. Written(t, i)'
    BY <2>2
  <2>4. \A u \in Targets : \A j \in DOMAIN Planned(u) :
            Written(u, j)' /\ Planned(u)[j].name = name => u <= t
    BY <1>3, <2>2
  <2>5. name \in DOMAIN kept' /\ kept'[name] = seen'[name] /\ seen' = seen
    BY <1>3 DEF Standing
  <2> QED BY <1>1, <2>2, <2>3, <2>4, <2>5 DEF Standing
<1>4. ASSUME NEW t \in Targets, NEW i \in DOMAIN Planned(t), Written(t, i)', Planned(t)[i].name # Stdout.name,
             ~(pc' = "sync" /\ Planned(t)[i].name = Head(jobs').name)
      PROVE  Standing(Planned(t)[i].name)'
  <2>1. Standing(Planned(t)[i].name)
    BY <1>4 DEF AllStanding
  <2>2. PICK name : name = Planned(t)[i].name
    OBVIOUS
  <2>3. Standing(name)'
    BY <1>3, <1>4, <2>1, <2>2
  <2> QED BY <1>1, <2>2, <2>3 DEF Standing
<1> QED BY <1>1, <1>2, <1>4 DEF AllStanding

\* What is written does not change while the list does not.
LEMMA WrittenSame ==
    ASSUME UNCHANGED <<cfg, searched>>, pc \in Files <=> pc' \in Files, pc \in Files => jobs' = jobs
    PROVE  \A t, i : Written(t, i)' <=> Written(t, i)
<1>1. \A t : Planned(t)' = Planned(t)
  BY ConfigSame
<1>2. Files' = Files
  BY DEF Files
<1> QED BY <1>1, <1>2 DEF Written

\* Taking a file off the list means that it is written.
LEMMA WrittenNext ==
    ASSUME RunInv, JobsInv, pc \in Files, jobs # <<>>, NextJob, UNCHANGED <<cfg, searched>>
    PROVE  \A t \in Targets : \A i \in DOMAIN Planned(t) :
              Written(t, i)' <=> Written(t, i) \/ (t = searched + 1 /\ i = NextIndex)
<1>1. \A t : Planned(t)' = Planned(t)
  BY ConfigSame
<1>2. pc' = "create" /\ pc' \in Files' /\ jobs' = Tail(jobs)
  BY DEF NextJob, Go, Files
<1> DEFINE size == Len(Planned(searched + 1))
           left == Len(jobs)
<1>3. /\ size \in Nat /\ left \in Nat /\ left # 0 /\ Len(Tail(jobs)) = left - 1
      /\ DOMAIN Planned(searched + 1) = 1 .. size /\ NextIndex = size - left + 1
  BY NextIsPlanned DEF NextIndex
<1>4. Len(jobs') = left - 1
  BY <1>2, <1>3
<1> HIDE DEF size, left
<1>5. \A i \in 1 .. size : i <= size - (left - 1) <=> i <= size - left \/ i = size - left + 1
  BY <1>3
<1>6. ASSUME NEW t \in Targets, NEW i \in DOMAIN Planned(t)
      PROVE  Written(t, i)' <=> Written(t, i) \/ (t = searched + 1 /\ i = NextIndex)
  <2>1. Written(t, i)' <=> t \in 1 .. searched \/ (t = searched + 1 /\ i <= Len(Planned(t)) - (left - 1))
    BY <1>1, <1>2, <1>4 DEF Written
  <2>2. Written(t, i) <=> t \in 1 .. searched \/ (t = searched + 1 /\ i <= Len(Planned(t)) - left)
    BY DEF Written, left
  <2>3. t = searched + 1 => Len(Planned(t)) = size /\ i \in 1 .. size
    BY <1>3 DEF size
  <2>4. t = searched + 1 =>
           (i <= Len(Planned(t)) - (left - 1) <=> i <= Len(Planned(t)) - left \/ i = NextIndex)
    BY <1>3, <1>5, <2>3
  <2> QED BY <2>1, <2>2, <2>4
<1> QED BY <1>6

\* Once all of a target's files are off the list, all of it is written.
LEMMA WrittenAll ==
    ASSUME RunInv, JobsInv, Settle
    PROVE  \A t \in Targets : \A i \in DOMAIN Planned(t) : Written(t, i)' <=> Written(t, i)
<1>1. UNCHANGED cfg /\ searched' = searched + 1 /\ pc' \notin Files
  BY DEF Settle, FailTo, Go, Files
<1>2. /\ pc = "settle" \/ (pc = "create" /\ jobs = <<>>)
      /\ cfg # Refused /\ TypedConfig(cfg) /\ searched \in Nat /\ searched < Cardinality(Targets)
  BY DEF Settle, At, RunInv, PlaceInv, Target, Gone, Files
<1>3. searched + 1 \in Targets /\ \A t \in Targets : t \in Nat
  BY <1>2, TargetsAreNumbers
<1>4. \A t : Planned(t)' = Planned(t)
  BY <1>1, ConfigSame
<1>5. ASSUME NEW t \in Targets, NEW i \in DOMAIN Planned(t)
      PROVE  Written(t, i)' <=> Written(t, i)
  <2>1. Written(t, i)' <=> t \in 1 .. searched + 1
    BY <1>1 DEF Written, Files
  <2>2. t \in 1 .. searched + 1 <=> t \in 1 .. searched \/ t = searched + 1
    BY <1>2, <1>3
  <2>3. t = searched + 1 => Written(t, i)
    <3>1. CASE pc = "settle"
      <4>1. ~WantsFiles
        BY <3>1 DEF RunInv, PlaceInv, Gone
      <4>2. Planned(t) = <<>>
        BY <1>2, <4>1, PlannedFacts
      <4> QED BY <4>2
    <3>2. CASE pc = "create" /\ jobs = <<>>
      <4>1. DOMAIN Planned(searched + 1) = 1 .. Len(Planned(searched + 1)) /\ Len(Planned(searched + 1)) \in Nat
        BY <3>2, NextIsPlanned DEF Files
      <4>2. Len(jobs) = 0
        BY <3>2
      <4>3. t = searched + 1 => i <= Len(Planned(t)) - Len(jobs)
        BY <4>1, <4>2
      <4> QED BY <3>2, <4>3 DEF Written, Files
    <3> QED BY <1>2, <3>1, <3>2
  <2>4. Written(t, i) => t \in 1 .. searched \/ t = searched + 1
    BY DEF Written
  <2>5. t \in 1 .. searched => Written(t, i)
    BY DEF Written
  <2> QED BY <2>1, <2>2, <2>3, <2>4, <2>5
<1> QED BY <1>5

\* publish replaces a name, everything else stands.
LEMMA StandsPublished ==
    ASSUME RunInv, JobsInv, FilesInv, AllStanding, Publish, pc' = "sync"
    PROVE  /\ AllStanding'
           /\ pc' = "sync" /\ jobs' = jobs
           /\ Head(jobs).name \in DOMAIN seen' /\ seen'[Head(jobs).name] = Content(Head(jobs))'
<1> DEFINE file == Head(jobs).name
           content == [Content(Head(jobs)) EXCEPT !.whole = temp = "whole"]
<1>1. /\ pc = "publish" /\ temp = "whole" /\ pc' = "sync"
      /\ UNCHANGED <<cfg, searched, kept, jobs>>
      /\ seen' = [f \in DOMAIN seen \cup {file} |-> IF f = file THEN content ELSE seen[f]]
  BY DEF Publish, At, Go, RunInv, HeldInv, held, search, output
<1>2. Targets' = Targets /\ (\A t : Planned(t)' = Planned(t)) /\ Stdout' = Stdout
  BY <1>1, ConfigSame DEF Stdout, Job
<1>3. \A t, i : Written(t, i)' <=> Written(t, i)
  BY <1>1, WrittenSame DEF Files
<1>4. content = Content(Head(jobs))
  <2>1. Content(Head(jobs)).whole = TRUE /\ (temp = "whole") = TRUE
    BY <1>1 DEF Content
  <2> QED BY <2>1 DEF Content
<1>5. Content(Head(jobs))' = Content(Head(jobs))
  BY <1>1 DEF Content
<1> HIDE DEF content, file
<1>6. file \in DOMAIN seen' /\ seen'[file] = Content(Head(jobs))'
  BY <1>1, <1>4, <1>5
<1>7. ASSUME NEW name, name # file, Standing(name) PROVE Standing(name)'
  <2>1. PICK t \in Targets : \E i \in DOMAIN Planned(t) :
          /\ Written(t, i) /\ Planned(t)[i].name = name
          /\ seen[name] = [target |-> t, document |-> Planned(t)[i].document, whole |-> TRUE]
          /\ \A u \in Targets : \A j \in DOMAIN Planned(u) :
                Written(u, j) /\ Planned(u)[j].name = name => u <= t
    BY <1>7 DEF Standing
  <2>2. name \in DOMAIN kept /\ kept[name] = seen[name] /\ kept' = kept
    BY <1>1, <1>7 DEF Standing
  <2>3. seen'[name] = seen[name]
    <3>1. name \in DOMAIN seen
      BY <2>2 DEF FilesInv, KeptInv
    <3> QED BY <1>1, <1>7, <3>1
  <2> QED BY <1>2, <1>3, <2>1, <2>2, <2>3 DEF Standing
<1>8. AllStanding'
  <2>1. ASSUME NEW t \in Targets, NEW i \in DOMAIN Planned(t), Written(t, i)',
               Planned(t)[i].name # Stdout.name, Planned(t)[i].name # file
        PROVE  Standing(Planned(t)[i].name)'
    <3>1. Standing(Planned(t)[i].name)
      BY <1>1, <1>3, <2>1 DEF AllStanding
    <3>2. PICK name : name = Planned(t)[i].name
      OBVIOUS
    <3>3. Standing(name)'
      BY <1>7, <2>1, <3>1, <3>2
    <3> QED BY <1>2, <3>2, <3>3 DEF Standing
  <2>2. file = Head(jobs').name
    BY <1>1 DEF file
  <2> QED BY <1>1, <1>2, <2>1, <2>2 DEF AllStanding
<1> QED BY <1>1, <1>6, <1>8 DEF file

\* After the sync of its directory, the file that was published stands, too.
LEMMA StandsSynced ==
    ASSUME RunInv, JobsInv, FilesInv, StandingInv, SyncDirectory, code # 1, ~broken, ~broken'
    PROVE  AllStanding'
<1> DEFINE file == Head(jobs).name
           target == searched + 1
           synced == {f \in DOMAIN seen : f.dir = Head(jobs).name.dir}
<1>1. /\ pc = "sync" /\ jobs # <<>> /\ NextJob /\ pc' = "create"
      /\ UNCHANGED <<cfg, searched, seen>>
  BY DEF SyncDirectory, NextJob, At, Go, JobsInv, Files, search
<1>2. kept' = [f \in DOMAIN kept \cup synced |-> IF f \in synced THEN seen[f] ELSE kept[f]]
  BY DEF SyncDirectory
<1>3. /\ cfg # Refused /\ searched \in Nat /\ target \in Targets /\ NextIndex \in DOMAIN Planned(target)
      /\ Head(jobs) = Planned(target)[NextIndex]
  BY <1>1, NextIsPlanned DEF Files
<1>4. /\ file \in DOMAIN seen /\ AllStanding
      /\ seen[file] = [target |-> target, document |-> Planned(target)[NextIndex].document, whole |-> TRUE]
  BY <1>1, <1>3 DEF StandingInv, Gone, Content
<1>5. file \in synced
  BY <1>4
<1> HIDE DEF synced, target
<1>6. Targets' = Targets /\ (\A t : Planned(t)' = Planned(t)) /\ Stdout' = Stdout
  BY <1>1, ConfigSame DEF Stdout, Job
<1>7. \A t \in Targets : \A i \in DOMAIN Planned(t) :
          Written(t, i)' <=> Written(t, i) \/ (t = target /\ i = NextIndex)
  BY <1>1, WrittenNext DEF Files, target
<1>8. Planned(target)[NextIndex].name = file
  BY <1>3
<1> HIDE DEF file
<1>9. ASSUME NEW name, name # file, Standing(name) PROVE Standing(name)'
  <2>1. PICK t \in Targets : \E i \in DOMAIN Planned(t) :
          /\ Written(t, i) /\ Planned(t)[i].name = name
          /\ seen[name] = [target |-> t, document |-> Planned(t)[i].document, whole |-> TRUE]
          /\ \A u \in Targets : \A j \in DOMAIN Planned(u) :
                Written(u, j) /\ Planned(u)[j].name = name => u <= t
    BY <1>9 DEF Standing
  <2>2. name \in DOMAIN kept /\ kept[name] = seen[name]
    BY <1>9 DEF Standing
  <2>3. name \in DOMAIN kept' /\ kept'[name] = seen[name]
    BY <1>2, <2>2
  <2>4. \A u \in Targets : \A j \in DOMAIN Planned(u) :
            Written(u, j)' /\ Planned(u)[j].name = name => Written(u, j)
    BY <1>7, <1>8, <1>9
  <2>5. PICK i \in DOMAIN Planned(t) :
          /\ Written(t, i) /\ Planned(t)[i].name = name
          /\ seen[name] = [target |-> t, document |-> Planned(t)[i].document, whole |-> TRUE]
          /\ \A u \in Targets : \A j \in DOMAIN Planned(u) :
                Written(u, j) /\ Planned(u)[j].name = name => u <= t
    BY <2>1
  <2>6. Written(t, i)'
    BY <1>7, <2>5
  <2> QED BY <1>1, <1>6, <2>3, <2>4, <2>5, <2>6 DEF Standing
<1>10. ASSUME NEW name, name = file PROVE Standing(name)'
  <2>1. PICK t, i : t = target /\ i = NextIndex
    OBVIOUS
  <2>2. /\ t \in Targets /\ i \in DOMAIN Planned(t) /\ Planned(t)[i].name = name
        /\ seen[name] = [target |-> t, document |-> Planned(t)[i].document, whole |-> TRUE]
    BY <1>3, <1>4, <1>8, <1>10, <2>1
  <2>3. Written(t, i)'
    BY <1>7, <2>1, <2>2
  <2>4. name \in DOMAIN kept' /\ kept'[name] = seen'[name]
    BY <1>1, <1>2, <1>5, <1>10
  <2>5. \A u \in Targets : \A j \in DOMAIN Planned(u) : Written(u, j)' => u <= t
    <3>1. \A u \in 1 .. searched : u <= t
      BY <1>3, <2>1 DEF target
    <3>2. \A u, j : Written(u, j) => u \in 1 .. searched \/ u = t
      BY <2>1 DEF Written, target
    <3>3. t <= t
      BY <1>3, <2>1 DEF target
    <3> QED BY <1>7, <2>1, <3>1, <3>2, <3>3
  <2> QED BY <1>1, <1>6, <2>2, <2>3, <2>4, <2>5 DEF Standing
<1>11. ASSUME NEW t \in Targets, NEW i \in DOMAIN Planned(t), Written(t, i)', Planned(t)[i].name # Stdout.name
       PROVE  Standing(Planned(t)[i].name)'
  <2>1. PICK name : name = Planned(t)[i].name
    OBVIOUS
  <2>2. CASE name = file
    <3>1. Standing(name)'
      BY <1>10, <2>2
    <3> QED BY <1>6, <2>1, <3>1 DEF Standing
  <2>3. CASE name # file
    <3>1. Written(t, i)
      BY <1>7, <1>8, <1>11, <2>1, <2>3
    <3>2. Standing(Planned(t)[i].name)
      BY <1>4, <1>11, <2>1, <2>3, <3>1 DEF AllStanding, file
    <3>3. Standing(name)'
      BY <1>9, <2>1, <2>3, <3>2
    <3> QED BY <1>6, <2>1, <3>3 DEF Standing
  <2> QED BY <2>2, <2>3
<1> QED BY <1>6, <1>11 DEF AllStanding

\* A step that leaves the files alone keeps StandingInv.
LEMMA StandingOn ==
    ASSUME StandingInv, UNCHANGED <<cfg, seen, kept, litter>>,
           code' # 1 /\ ~broken' /\ pc' \notin Gone => code # 1 /\ ~broken /\ pc \notin Gone,
           pc = "sync" => pc' = "sync" /\ jobs' = jobs,
           pc' = "sync" => pc = "sync" /\ jobs' = jobs /\ searched' = searched,
           \A t \in Targets : \A i \in DOMAIN Planned(t) :
              /\ Written(t, i) => Written(t, i)'
              /\ Written(t, i)' => Written(t, i) \/ Planned(t)[i].name = Stdout.name,
           code' # 1 /\ cfg # Refused /\ pc' \in {"return", "unwind", "exited"} /\ cfg.mode # "watch" =>
              searched' = Cardinality(Targets)
    PROVE  StandingInv'
<1> SUFFICES ASSUME code' # 1, ~broken', pc' \notin Gone PROVE StandingInv'
  BY DEF StandingInv, Gone
<1>1. Targets' = Targets
  BY ConfigSame
<1>2. /\ ~litter
      /\ pc = "sync" => Head(jobs).name \in DOMAIN seen /\ seen[Head(jobs).name] = Content(Head(jobs))
      /\ cfg # Refused => AllStanding
  BY DEF StandingInv
<1>3. cfg # Refused => AllStanding'
  BY <1>2, StandsOn
<1>4. pc' = "sync" => Head(jobs').name \in DOMAIN seen' /\ seen'[Head(jobs').name] = Content(Head(jobs))'
  BY <1>2 DEF Content
<1> QED BY <1>1, <1>2, <1>3, <1>4 DEF StandingInv

\* What has been written stands, after every step.
LEMMA StandingKept ==
    ASSUME RunInv, JobsInv, FilesInv, StandingInv, [Next]_vars
    PROVE  StandingInv'
<1> USE DEF At, Go, FailTo, held, search, output, disk, Files, Gone
<1>1. CASE ParseCommand
  <2>1. /\ UNCHANGED <<litter, broken>> /\ pc = "start" /\ code = NoCode /\ searched' = 0
        /\ pc' \in {"exited", "watch", "prompt", "open"} /\ (pc' = "exited" => cfg' = Refused)
    BY <1>1, Parsed DEF ParseCommand, RunInv, PlaceInv
  <2>2. \A t, i : ~Written(t, i)'
    BY <2>1 DEF Written
  <2>3. AllStanding'
    BY <2>2 DEF AllStanding
  <2>4. ~broken' => ~litter'
    BY <2>1 DEF StandingInv, NoCode
  <2> QED BY <2>1, <2>3, <2>4 DEF StandingInv
<1>2. CASE RunWatch
  <2>1. /\ UNCHANGED <<cfg, seen, kept, litter, searched, broken>> /\ pc = "watch" /\ pc' = "exited"
        /\ code = NoCode /\ cfg # Refused /\ cfg.mode = "watch"
    BY <1>2 DEF RunWatch, RunInv, PlaceInv
  <2>2. \A t, i : Written(t, i)' <=> Written(t, i)
    BY <2>1, WrittenSame
  <2> QED BY <2>1, <2>2, StandingOn DEF NoCode
<1>3. CASE Prompt
  <2>1. /\ UNCHANGED <<cfg, seen, kept, litter, searched, broken>> /\ pc # "sync" /\ pc' # "sync"
        /\ pc \notin Files /\ pc' \notin Files /\ pc \notin Gone /\ code' \in {code, 1}
        /\ code' # 1 => pc' \notin {"return", "unwind", "exited"}
    BY <1>3 DEF Prompt
  <2>2. \A t, i : Written(t, i)' <=> Written(t, i)
    BY <2>1, WrittenSame
  <2> QED BY <2>1, <2>2, StandingOn
<1>4. CASE OpenApplication
  <2>1. /\ UNCHANGED <<cfg, seen, kept, litter, searched, broken>> /\ pc # "sync" /\ pc' # "sync"
        /\ pc \notin Files /\ pc' \notin Files /\ pc \notin Gone /\ code' \in {code, 1}
        /\ code' # 1 => pc' \notin {"return", "unwind", "exited"}
    BY <1>4 DEF OpenApplication
  <2>2. \A t, i : Written(t, i)' <=> Written(t, i)
    BY <2>1, WrittenSame
  <2> QED BY <2>1, <2>2, StandingOn
<1>5. CASE RunApp
  <2>1. /\ UNCHANGED <<cfg, seen, kept, litter, searched, broken>> /\ pc # "sync" /\ pc' # "sync"
        /\ pc \notin Files /\ pc' \notin Files /\ pc \notin Gone /\ code' \in {code, 1}
        /\ code' # 1 => pc' \notin {"return", "unwind", "exited"}
    BY <1>5 DEF RunApp
  <2>2. \A t, i : Written(t, i)' <=> Written(t, i)
    BY <2>1, WrittenSame
  <2> QED BY <2>1, <2>2, StandingOn
<1>6. CASE NextTarget
  <2>1. /\ UNCHANGED <<cfg, seen, kept, litter, searched, broken>> /\ pc = "target"
        /\ pc' \in {"return", "prepare", "search"} /\ code' \in {code, 1}
        /\ pc' = "return" => searched = Cardinality(Targets) \/ code' = 1
    BY <1>6 DEF NextTarget
  <2>2. \A t, i : Written(t, i)' <=> Written(t, i)
    BY <2>1, WrittenSame
  <2> QED BY <2>1, <2>2, StandingOn
<1>7. CASE PrepareDirectory
  <2>1. /\ UNCHANGED <<cfg, seen, kept, litter, searched, broken>> /\ pc # "sync" /\ pc' # "sync"
        /\ pc \notin Files /\ pc' \notin Files /\ pc \notin Gone /\ code' \in {code, 1}
        /\ code' # 1 => pc' \notin {"return", "unwind", "exited"}
    BY <1>7 DEF PrepareDirectory
  <2>2. \A t, i : Written(t, i)' <=> Written(t, i)
    BY <2>1, WrittenSame
  <2> QED BY <2>1, <2>2, StandingOn
<1>8. CASE Search
  <2>1. /\ UNCHANGED <<cfg, seen, kept, litter, searched, broken>> /\ pc # "sync" /\ pc' # "sync"
        /\ pc \notin Files /\ pc' \notin Files /\ pc \notin Gone /\ code' \in {code, 1}
        /\ code' # 1 => pc' \notin {"return", "unwind", "exited"}
    BY <1>8 DEF Search
  <2>2. \A t, i : Written(t, i)' <=> Written(t, i)
    BY <2>1, WrittenSame
  <2> QED BY <2>1, <2>2, StandingOn
<1>9. CASE BuildReport
  <2>1. /\ UNCHANGED <<cfg, seen, kept, litter, searched, broken>> /\ pc # "sync" /\ pc' # "sync"
        /\ pc \notin Files /\ pc' \notin Files /\ pc \notin Gone /\ code' \in {code, 1}
        /\ code' # 1 => pc' \notin {"return", "unwind", "exited"}
    BY <1>9 DEF BuildReport
  <2>2. \A t, i : Written(t, i)' <=> Written(t, i)
    BY <2>1, WrittenSame
  <2> QED BY <2>1, <2>2, StandingOn
<1>10. CASE Analyze
  <2>1. /\ UNCHANGED <<cfg, seen, kept, litter, searched, broken>> /\ pc # "sync" /\ pc' # "sync"
        /\ pc \notin Files /\ pc' \notin Files /\ pc \notin Gone /\ code' \in {code, 1}
        /\ code' # 1 => pc' \notin {"return", "unwind", "exited"}
    BY <1>10 DEF Analyze
  <2>2. \A t, i : Written(t, i)' <=> Written(t, i)
    BY <2>1, WrittenSame
  <2> QED BY <2>1, <2>2, StandingOn
<1>11. CASE PlanOutputs
  <2>1. /\ UNCHANGED <<cfg, seen, kept, litter, searched, broken, code>> /\ pc = "outputs" /\ pc' = "create"
        /\ jobs' = Planned(searched + 1)
    BY <1>11 DEF PlanOutputs
  <2>2. cfg # Refused /\ TypedConfig(cfg) /\ searched \in Nat /\ searched < Cardinality(Targets)
    BY <2>1 DEF RunInv, PlaceInv, Target
  <2>3. searched + 1 \in Targets
    BY <2>2, TargetsAreNumbers
  <2>4. PICK T : Planned(searched + 1) \in Seq(T)
    BY <2>2, <2>3, PlannedFacts
  <2>5. \A i \in DOMAIN Planned(searched + 1) : ~(i <= Len(Planned(searched + 1)) - Len(jobs'))
    <3>1. Len(jobs') = Len(Planned(searched + 1))
      BY <2>1
    <3>2. \A s \in Seq(T) : \A i \in DOMAIN s : ~(i <= Len(s) - Len(s))
      OBVIOUS
    <3> QED BY <2>4, <3>1, <3>2
  <2>6. \A t : Planned(t)' = Planned(t)
    BY <2>1, ConfigSame
  <2>7. ASSUME NEW t \in Targets, NEW i \in DOMAIN Planned(t) PROVE Written(t, i)' <=> Written(t, i)
    BY <2>1, <2>5, <2>6 DEF Written
  <2> QED BY <2>1, <2>7, StandingOn
<1>12. CASE CreateTemp
  <2>1. /\ UNCHANGED <<cfg, seen, kept, litter, searched, code>> /\ pc = "create" /\ jobs # <<>>
        /\ \/ pc' = "write" /\ jobs' = jobs /\ broken' = broken
           \/ Head(jobs) = Stdout /\ NextJob /\ broken' = broken
           \/ broken' = TRUE
    BY <1>12 DEF CreateTemp
  <2>2. CASE pc' = "write" /\ jobs' = jobs /\ broken' = broken
    <3>1. \A t, i : Written(t, i)' <=> Written(t, i)
      BY <2>1, <2>2, WrittenSame
    <3> QED BY <2>1, <2>2, <3>1, StandingOn
  <2>3. CASE Head(jobs) = Stdout /\ NextJob /\ broken' = broken
    <3>1. \A t \in Targets : \A i \in DOMAIN Planned(t) :
              Written(t, i)' <=> Written(t, i) \/ (t = searched + 1 /\ i = NextIndex)
      BY <2>1, <2>3, WrittenNext
    <3>2. Planned(searched + 1)[NextIndex].name = Stdout.name
      BY <2>1, <2>3, NextIsPlanned
    <3>3. pc' = "create"
      BY <2>3 DEF NextJob
    <3> QED BY <2>1, <2>3, <3>1, <3>2, <3>3, StandingOn
  <2>4. CASE broken' = TRUE
    BY <2>4 DEF StandingInv
  <2> QED BY <2>1, <2>2, <2>3, <2>4
<1>13. CASE WriteTemp
  <2>1. /\ UNCHANGED <<cfg, seen, kept, litter, searched, code, broken, jobs>> /\ pc = "write"
        /\ pc' \in {"publish", "remove"}
    BY <1>13 DEF WriteTemp
  <2>2. \A t, i : Written(t, i)' <=> Written(t, i)
    BY <2>1, WrittenSame
  <2> QED BY <2>1, <2>2, StandingOn
<1>14. CASE Publish
  <2>1. /\ UNCHANGED <<cfg, kept, litter, searched, code, broken, jobs>> /\ pc = "publish"
        /\ pc' = "sync" \/ (seen' = seen /\ pc' = "remove")
    BY <1>14 DEF Publish
  <2>2. CASE pc' = "remove"
    <3>1. \A t, i : Written(t, i)' <=> Written(t, i)
      BY <2>1, <2>2, WrittenSame
    <3> QED BY <2>1, <2>2, <3>1, StandingOn
  <2>3. CASE pc' = "sync"
    <3>1. ASSUME code' # 1, ~broken' PROVE ~litter' /\ (cfg # Refused => AllStanding)
      BY <2>1, <3>1 DEF StandingInv
    <3>2. cfg # Refused /\ AllStanding =>
             /\ AllStanding' /\ Head(jobs').name \in DOMAIN seen'
             /\ seen'[Head(jobs').name] = Content(Head(jobs))'
      BY <1>14, <2>1, <2>3, StandsPublished
    <3>3. cfg # Refused
      BY <2>1 DEF RunInv, PlaceInv
    <3> QED BY <2>1, <2>3, <3>1, <3>2, <3>3 DEF StandingInv
  <2> QED BY <2>1, <2>2, <2>3
<1>15. CASE SyncDirectory
  <2>1. UNCHANGED <<litter, code>> /\ pc = "sync" /\ pc' = "create" /\ (broken => broken')
    BY <1>15 DEF SyncDirectory, NextJob
  <2>2. ASSUME code' # 1, ~broken' PROVE AllStanding' /\ ~litter'
    <3>1. code # 1 /\ ~broken
      BY <2>1, <2>2
    <3>2. AllStanding'
      BY <1>15, <2>2, <3>1, StandsSynced
    <3>3. ~litter
      BY <2>1, <3>1 DEF StandingInv
    <3> QED BY <2>1, <3>2, <3>3
  <2> QED BY <2>1, <2>2 DEF StandingInv
<1>16. CASE RemoveTemp
  BY <1>16 DEF RemoveTemp, StandingInv
<1>17. CASE Settle
  <2>1. /\ UNCHANGED <<cfg, seen, kept, litter>> /\ pc \in {"settle", "create"}
        /\ pc' \in {"target", "return"} /\ code' \in {code, 1}
        /\ (pc' = "return" \/ broken => code' = 1)
    BY <1>17 DEF Settle, Unsuccessful
  <2>2. \A t \in Targets : \A i \in DOMAIN Planned(t) : Written(t, i)' <=> Written(t, i)
    BY <1>17, WrittenAll
  <2> QED BY <2>1, <2>2, StandingOn
<1>18. CASE Return
  <2>1. /\ UNCHANGED <<cfg, seen, kept, litter, searched, broken>> /\ pc = "return" /\ pc' = "unwind"
        /\ code' # 1 => code # 1
    BY <1>18 DEF Return, NoCode
  <2>2. \A t, i : Written(t, i)' <=> Written(t, i)
    BY <2>1, WrittenSame
  <2>3. ~broken
    BY <2>1 DEF RunInv, HeldInv
  <2>4. code # 1 /\ cfg # Refused /\ cfg.mode # "watch" => searched = Cardinality(Targets)
    BY <2>1, <2>3 DEF StandingInv
  <2> QED BY <2>1, <2>2, <2>4, StandingOn
<1>19. CASE Unwind
  <2>1. /\ UNCHANGED <<cfg, seen, kept, litter, searched, broken>> /\ pc = "unwind" /\ pc' = "exited"
        /\ code' # 1 => code # 1
    BY <1>19 DEF Unwind, NoCode
  <2>2. \A t, i : Written(t, i)' <=> Written(t, i)
    BY <2>1, WrittenSame
  <2>3. ~broken
    BY <2>1 DEF RunInv, HeldInv
  <2>4. code # 1 /\ cfg # Refused /\ cfg.mode # "watch" => searched = Cardinality(Targets)
    BY <2>1, <2>3 DEF StandingInv
  <2> QED BY <2>1, <2>2, <2>4, StandingOn
<1>20. CASE Interrupt
  <2>1. UNCHANGED <<cfg, seen, kept, litter, searched, code, broken, jobs, pc>>
    BY <1>20 DEF Interrupt
  <2>2. \A t, i : Written(t, i)' <=> Written(t, i)
    BY <2>1, WrittenSame
  <2>3. code # 1 /\ ~broken /\ pc \notin Gone /\ cfg # Refused /\ cfg.mode # "watch"
           /\ pc \in {"return", "unwind", "exited"} => searched = Cardinality(Targets)
    BY DEF StandingInv
  <2>4. pc \in {"return", "unwind", "exited"} => ~broken /\ pc \notin Gone
    BY DEF RunInv, HeldInv
  <2> QED BY <2>1, <2>2, <2>3, <2>4, StandingOn
<1>21. CASE Kill
  BY <1>21 DEF Kill, StandingInv
<1>22. CASE PowerLoss
  BY <1>22 DEF PowerLoss, StandingInv
<1>23. CASE UNCHANGED vars
  <2>1. UNCHANGED <<cfg, seen, kept, litter, searched, code, broken, jobs, pc>>
    BY <1>23 DEF vars
  <2>2. \A t, i : Written(t, i)' <=> Written(t, i)
    BY <2>1, WrittenSame
  <2>3. code # 1 /\ ~broken /\ pc \notin Gone /\ cfg # Refused /\ cfg.mode # "watch"
           /\ pc \in {"return", "unwind", "exited"} => searched = Cardinality(Targets)
    BY DEF StandingInv
  <2>4. pc \in {"return", "unwind", "exited"} => ~broken /\ pc \notin Gone
    BY DEF RunInv, HeldInv
  <2> QED BY <2>1, <2>2, <2>3, <2>4, StandingOn
<1> QED BY <1>1, <1>2, <1>3, <1>4, <1>5, <1>6, <1>7, <1>8, <1>9, <1>10, <1>11, <1>12, <1>13, <1>14, <1>15, <1>16, <1>17, <1>18, <1>19, <1>20, <1>21, <1>22, <1>23 DEF Next

-----------------------------------------------------------------------------
(* Exit code 0 *)

\* After a run without watch that ends with 0, every file has its last document, synced.
LEMMA FinishedRun ==
    ASSUME RunInv, StandingInv, pc = "exited", code = 0, cfg.mode # "watch"
    PROVE  /\ cfg # Refused /\ TypedConfig(cfg)
           /\ searched = Cardinality(Targets) /\ ~litter /\ temp = "none"
           /\ \A t \in Targets : \A i \in DOMAIN Planned(t) :
                LET name == Planned(t)[i].name IN
                \/ name = Stdout.name
                \/ name \in DOMAIN kept /\ kept[name] = seen[name] /\ seen[name] = LastPlanned(name)
<1>1. /\ cfg # Refused /\ TypedConfig(cfg) /\ ~broken /\ temp = "none" /\ pc \notin Gone /\ pc # "sync"
      /\ searched \in Nat
  BY DEF RunInv, PlaceInv, HeldInv, Gone, Files
<1>2. searched = Cardinality(Targets) /\ ~litter /\ AllStanding
  BY <1>1 DEF StandingInv
<1>3. Targets = 1 .. searched
  BY <1>1, <1>2, TargetsAreNumbers
<1>4. \A t \in Targets : \A i : Written(t, i)
  BY <1>3 DEF Written
<1>5. ASSUME NEW t \in Targets, NEW i \in DOMAIN Planned(t), Planned(t)[i].name # Stdout.name
      PROVE  LET name == Planned(t)[i].name IN
             name \in DOMAIN kept /\ kept[name] = seen[name] /\ seen[name] = LastPlanned(name)
  <2>1. PICK name : name = Planned(t)[i].name
    OBVIOUS
  <2>2. Standing(name)
    BY <1>1, <1>2, <1>4, <1>5, <2>1 DEF AllStanding
  <2>3. name \in DOMAIN kept /\ kept[name] = seen[name]
    BY <2>2 DEF Standing
  <2> DEFINE planning == {u \in Targets : \E j \in DOMAIN Planned(u) : Planned(u)[j].name = name}
             last == CHOOSE u \in planning : \A v \in planning : v <= u
             index(u) == CHOOSE j \in DOMAIN Planned(u) : Planned(u)[j].name = name
  <2>4. PICK u \in Targets : \E j \in DOMAIN Planned(u) :
          /\ Planned(u)[j].name = name
          /\ seen[name] = [target |-> u, document |-> Planned(u)[j].document, whole |-> TRUE]
          /\ \A v \in Targets : \A k \in DOMAIN Planned(v) :
                Written(v, k) /\ Planned(v)[k].name = name => v <= u
    BY <2>2 DEF Standing
  <2>5. PICK j \in DOMAIN Planned(u) :
          /\ Planned(u)[j].name = name
          /\ seen[name] = [target |-> u, document |-> Planned(u)[j].document, whole |-> TRUE]
          /\ \A v \in Targets : \A k \in DOMAIN Planned(v) :
                Written(v, k) /\ Planned(v)[k].name = name => v <= u
    BY <2>4
  <2>6. u \in planning /\ \A v \in planning : v <= u
    BY <1>4, <2>4, <2>5
  <2>7. last \in planning /\ \A v \in planning : v <= last
    <3> HIDE DEF planning
    <3> QED BY <2>6
  <2>8. last = u
    <3>1. \A v \in planning : v \in Nat
      BY <1>3
    <3> HIDE DEF planning, last
    <3> QED BY <2>6, <2>7, <3>1
  <2>9. index(u) \in DOMAIN Planned(u) /\ Planned(u)[index(u)].name = name
    BY <2>5
  <2>10. index(u) = j
    <3> HIDE DEF index
    <3> QED BY <1>1, <2>5, <2>9, PlannedFacts
  <2>11. LastPlanned(name) = [target |-> last, document |-> Planned(last)[index(last)].document, whole |-> TRUE]
    BY DEF LastPlanned
  <2>12. LastPlanned(name) = [target |-> u, document |-> Planned(u)[j].document, whole |-> TRUE]
    <3> HIDE DEF last, index
    <3> QED BY <2>8, <2>10, <2>11
  <2> QED BY <2>1, <2>3, <2>5, <2>12
<1> QED BY <1>1, <1>2, <1>5

\* A run that has exited is honest.
LEMMA HonestAtExit == RunInv /\ FilesInv /\ StandingInv /\ pc = "exited" => ExitHonest
<1> SUFFICES ASSUME RunInv, FilesInv, StandingInv, pc = "exited" PROVE ExitHonest
  OBVIOUS
<1>1. /\ pc = "exited" => secret # "held" /\ app # "open" /\ ai # "open"
      /\ secret = "held" => report = NoReport /\ temp = "none"
  BY DEF RunInv, HeldInv
<1>2. DOMAIN kept \subseteq DOMAIN seen
  BY DEF FilesInv, KeptInv
<1>3. ASSUME code = 0, cfg.mode # "watch"
      PROVE  /\ searched = Cardinality(Targets) /\ ~litter /\ temp = "none"
             /\ \A t \in Targets : \A i \in DOMAIN Planned(t) :
                LET name == Planned(t)[i].name IN
                \/ name = Stdout.name
                \/ name \in DOMAIN seen /\ seen[name] = LastPlanned(name)
                \/ pc = "down" /\ name.dir \notin OldDirs
  BY <1>2, <1>3, FinishedRun
<1> QED BY <1>1, <1>3 DEF ExitHonest

\* After a step, too.
LEMMA HonestAtExitNext == (RunInv /\ FilesInv /\ StandingInv /\ pc = "exited" => ExitHonest)'
<1>1. RunInv /\ FilesInv /\ StandingInv /\ pc = "exited" => ExitHonest
  BY HonestAtExit
<1> QED BY <1>1, PTL

\* Only a power failure takes the machine down.
LEMMA OnlyPowerLoss ==
    ASSUME [Next]_vars, pc' = "down"
    PROVE  PowerLoss \/ UNCHANGED vars
<1> USE DEF At, Go, FailTo
<1>1. CASE ParseCommand
  BY <1>1 DEF ParseCommand
<1>2. CASE RunWatch
  BY <1>2 DEF RunWatch
<1>3. CASE Prompt
  BY <1>3 DEF Prompt
<1>4. CASE OpenApplication
  BY <1>4 DEF OpenApplication
<1>5. CASE RunApp
  BY <1>5 DEF RunApp
<1>6. CASE NextTarget
  BY <1>6 DEF NextTarget
<1>7. CASE PrepareDirectory
  BY <1>7 DEF PrepareDirectory
<1>8. CASE Search
  BY <1>8 DEF Search
<1>9. CASE BuildReport
  BY <1>9 DEF BuildReport
<1>10. CASE Analyze
  BY <1>10 DEF Analyze
<1>11. CASE PlanOutputs
  BY <1>11 DEF PlanOutputs
<1>12. CASE CreateTemp
  BY <1>12 DEF CreateTemp, NextJob
<1>13. CASE WriteTemp
  BY <1>13 DEF WriteTemp
<1>14. CASE Publish
  BY <1>14 DEF Publish
<1>15. CASE SyncDirectory
  BY <1>15 DEF SyncDirectory, NextJob
<1>16. CASE RemoveTemp
  BY <1>16 DEF RemoveTemp, NextJob
<1>17. CASE Settle
  BY <1>17 DEF Settle
<1>18. CASE Return
  BY <1>18 DEF Return
<1>19. CASE Unwind
  BY <1>19 DEF Unwind
<1>20. CASE Interrupt
  BY <1>20 DEF Interrupt, Running
<1>21. CASE Kill
  BY <1>21 DEF Kill
<1>22. CASE PowerLoss
  BY <1>22
<1>23. CASE UNCHANGED vars
  BY <1>23
<1> QED BY <1>1, <1>2, <1>3, <1>4, <1>5, <1>6, <1>7, <1>8, <1>9, <1>10, <1>11, <1>12, <1>13, <1>14, <1>15, <1>16, <1>17, <1>18, <1>19, <1>20, <1>21, <1>22, <1>23 DEF Next

\* Exit code 0 is honest, after every step and after a power failure, too.
LEMMA HonestKept ==
    ASSUME RunInv, FilesInv, StandingInv, ExitHonest, [Next]_vars, RunInv', FilesInv', StandingInv'
    PROVE  ExitHonest'
<1>1. CASE pc' = "exited"
  BY <1>1, HonestAtExitNext
<1>2. CASE pc' \notin {"exited", "down"}
  <2>1. code' # 0
    BY <1>2 DEF RunInv, PlaceInv
  <2>2. secret' = "held" => report' = NoReport /\ temp' = "none"
    BY DEF RunInv, HeldInv
  <2> QED BY <1>2, <2>1, <2>2 DEF ExitHonest
<1>3. CASE pc' = "down"
  <2>1. PowerLoss \/ UNCHANGED vars
    BY <1>3, OnlyPowerLoss
  <2>2. cfg' = cfg /\ code' = code /\ searched' = searched /\ litter' = litter /\ temp' = temp
    BY <2>1 DEF PowerLoss, vars, search, output, disk
  <2>3. Targets' = Targets /\ (\A t : Planned(t)' = Planned(t)) /\ Stdout' = Stdout
    BY <2>2, ConfigSame DEF Stdout, Job
  <2>4. \A name : LastPlanned(name)' = LastPlanned(name)
    BY <2>3 DEF LastPlanned
  <2>5. secret' = "held" => report' = NoReport /\ temp' = "none"
    BY DEF RunInv, HeldInv
  <2>6. CASE UNCHANGED vars
    <3>1. pc' = pc /\ seen' = seen
      BY <2>6 DEF vars, disk
    <3>2. ASSUME NEW t \in Targets, NEW i \in DOMAIN Planned(t), code = 0, cfg.mode # "watch"
          PROVE  LET name == Planned(t)[i].name IN
                 \/ name = Stdout.name
                 \/ name \in DOMAIN seen /\ seen[name] = LastPlanned(name)
                 \/ pc = "down" /\ name.dir \notin OldDirs
      BY <3>2 DEF ExitHonest
    <3>3. code = 0 /\ cfg.mode # "watch" => searched = Cardinality(Targets) /\ ~litter /\ temp = "none"
      BY DEF ExitHonest
    <3> QED BY <1>3, <2>2, <2>3, <2>4, <2>5, <3>1, <3>2, <3>3 DEF ExitHonest
  <2>7. CASE PowerLoss
    <3>1. code = 0 => pc = "exited"
      BY <2>7 DEF PowerLoss, RunInv, PlaceInv
    <3>2. ASSUME code = 0, cfg.mode # "watch"
          PROVE  /\ searched = Cardinality(Targets) /\ ~litter /\ temp = "none"
                 /\ \A t \in Targets : \A i \in DOMAIN Planned(t) :
                      LET name == Planned(t)[i].name IN
                      \/ name = Stdout.name
                      \/ name \in DOMAIN kept /\ kept[name] = seen[name] /\ seen[name] = LastPlanned(name)
      BY <3>1, <3>2, FinishedRun
    <3>3. ASSUME NEW name, name \in DOMAIN kept, name \in DOMAIN seen, kept[name] = seen[name], name.dir \in OldDirs
          PROVE  name \in DOMAIN seen' /\ seen'[name] = seen[name]
      <4> DEFINE unsynced == {f \in DOMAIN seen : f \notin DOMAIN kept \/ kept[f] # seen[f]}
                 made == {f.dir : f \in DOMAIN seen} \ OldDirs
      <4>1. PICK lost \in SUBSET unsynced, gone \in SUBSET made :
               seen' = [f \in {g \in DOMAIN seen : g.dir \notin gone /\ (g \in lost => g \in DOMAIN kept)} |->
                            IF f \in lost THEN kept[f] ELSE seen[f]]
        BY <2>7 DEF PowerLoss
      <4>2. name \notin lost /\ name.dir \notin gone
        BY <3>3
      <4> QED BY <3>3, <4>1, <4>2
    <3>4. \A name \in DOMAIN kept : name \in DOMAIN seen
      BY DEF FilesInv, KeptInv
    <3>5. ASSUME NEW t \in Targets, NEW i \in DOMAIN Planned(t), code = 0, cfg.mode # "watch"
          PROVE  LET name == Planned(t)[i].name IN
                 \/ name = Stdout.name
                 \/ name \in DOMAIN seen' /\ seen'[name] = LastPlanned(name)
                 \/ name.dir \notin OldDirs
      BY <3>2, <3>3, <3>4, <3>5
    <3> QED BY <1>3, <2>2, <2>3, <2>4, <2>5, <3>2, <3>5 DEF ExitHonest
  <2> QED BY <2>1, <2>6, <2>7
<1> QED BY <1>1, <1>2, <1>3

-----------------------------------------------------------------------------
(* The theorems *)

\* The inductive invariant of a run holds at first,
LEMMA CommandInit == Init => CommandInv
<1> SUFFICES ASSUME Init PROVE CommandInv
  OBVIOUS
<1>1. RunInv /\ JobsInv /\ FilesInv
  BY RunInit, FilesInit
<1>2. TypeOK
  BY <1>1 DEF RunInv, Types, FilesInv, KeptInv, TypeOK
<1>3. ExitHonest
  BY DEF Init, ExitHonest, NoCode
<1>4. StandingInv
  BY DEF Init, StandingInv
<1>5. ReportFaithful
  BY <1>1, FaithfulReports DEF RunInv
<1> QED BY <1>1, <1>2, <1>3, <1>4, <1>5 DEF CommandInv, RunInv, FilesInv

\* and after every step.
LEMMA CommandNext == CommandInv /\ [Next]_vars => CommandInv'
<1> SUFFICES ASSUME CommandInv, [Next]_vars PROVE CommandInv'
  OBVIOUS
<1>1. RunInv /\ JobsInv /\ FilesInv /\ StandingInv /\ ExitHonest
  BY DEF CommandInv, RunInv, FilesInv, Types, TypeOK
<1>2. RunInv'
  BY <1>1, PlaceKept, HeldKept, TypesKept, ReportKept DEF RunInv
<1>3. JobsInv' /\ FilesInv' /\ StandingInv'
  BY <1>1, JobsKept, FilesKept, StandingKept
<1>4. ExitHonest'
  BY <1>1, <1>2, <1>3, HonestKept
<1>5. TypeOK'
  BY <1>2, <1>3 DEF RunInv, Types, FilesInv, KeptInv, TypeOK
<1>6. ReportFaithful'
  BY <1>2, FaithfulReportsNext DEF RunInv
<1> QED BY <1>2, <1>3, <1>4, <1>5, <1>6 DEF CommandInv, RunInv, FilesInv

\* The types of a run: its configuration names one mode and what that mode needs, however
\* the flags of the command line are combined, and its report counts the rows of its search
\* (config.ParseArgs, App.Run).
THEOREM CommandTypes == Spec => []TypeOK
<1>1. CommandInv => TypeOK
  BY DEF CommandInv
<1> QED BY <1>1, CommandInit, CommandNext, PTL DEF Spec

\* Whatever fails and whenever the run is killed or the power fails, a file with a report's
\* name is a whole document of an earlier run or of a target that was searched, and no
\* report of an earlier run disappears (writeFile, publish).
THEOREM ReportsStayWhole == Spec => []OldOrNew
<1>1. CommandInv => OldOrNew
  BY DEF CommandInv
<1> QED BY <1>1, CommandInit, CommandNext, PTL DEF Spec

\* Exit code 0 means that every target was searched and every file planned for it has its
\* last document, durably, and that no temporary file is left; however a run exits, it has
\* given up the password, the providers and the analysis client (main.run, App.Run).
THEOREM ExitCodeHonest == Spec => []ExitHonest
<1>1. CommandInv => ExitHonest
  BY DEF CommandInv
<1> QED BY <1>1, CommandInit, CommandNext, PTL DEF Spec

\* A report says of its rows what they are, whatever the search gave and in whatever order:
\* its status, counts and names are theirs, its correlations those of bitcoin histories, and
\* whatever the model answers, each claim of the analysis cites a record that was sent to it,
\* with the class and the text of that record (report.New, Service.Analyze).
THEOREM ReportsAreFaithful == Spec => []ReportFaithful
<1>1. CommandInv => ReportFaithful
  BY DEF CommandInv
<1> QED BY <1>1, CommandInit, CommandNext, PTL DEF Spec

=============================================================================
