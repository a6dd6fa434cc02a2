------------------------------- MODULE Walks --------------------------------
(***************************************************************************)
(* Induction over the numbers and along the walks the code takes from row  *)
(* to row (a history, a chain of merges, a chain of hashes): what the      *)
(* proofs of several components rest on.                                   *)
(***************************************************************************)
EXTENDS Integers, FiniteSetTheorems, TLAPS

(* Induction over the numbers: a set that holds 0 and with each number the
   next holds them all.  Otherwise the numbers up to n that it lacks could be
   moved down by one into a smaller set. *)
LEMMA SetInduction ==
  ASSUME NEW T, 0 \in T, \A n \in Nat : n \in T => n + 1 \in T
  PROVE  \A n \in Nat : n \in T
  <1> SUFFICES ASSUME NEW n \in Nat, n \notin T PROVE FALSE
    OBVIOUS
  <1> DEFINE C == {y \in 0..n : y \notin T}
             g == [y \in C |-> y - 1]
  <1>1. IsFiniteSet(C)
    <2>1. IsFiniteSet(0..n)
      BY FS_Interval
    <2>2. C \subseteq 0..n
      OBVIOUS
    <2>3. QED
      BY <2>1, <2>2, FS_Subset
  <1>2. n \in C
    OBVIOUS
  <1>3. \A y \in C : y # 0 /\ y - 1 \in C \ {n}
    OBVIOUS
  <1>4. g \in [C -> C \ {n}]
    BY <1>3
  <1>5. IsFiniteSet(C \ {n}) /\ Cardinality(C \ {n}) = Cardinality(C) - 1
    BY <1>1, <1>2, FS_RemoveElement
  <1>6. Cardinality(C) \in Nat
    BY <1>1, FS_CardinalityType
  <1>7. \E x, y \in C : x # y /\ g[x] = g[y]
    <2> HIDE DEF C, g
    <2>1. Cardinality(C \ {n}) < Cardinality(C)
      BY <1>5, <1>6
    <2>2. QED
      BY <1>1, <1>4, <1>5, <2>1, FS_PigeonHole
  <1>8. QED
    BY <1>7

(* Induction along a walk: p takes each place to one nearer the walk's end,
   unless what is to be shown holds there at once. *)
LEMMA WalkInduction ==
  ASSUME NEW D, NEW N \in Nat, NEW m \in [D -> 0..N], NEW p, NEW G,
         \A j \in D : j \notin G =>
           p[j] \in D /\ m[p[j]] < m[j] /\ (p[j] \in G => j \in G)
  PROVE  D \subseteq G
  <1> DEFINE T == {n \in Nat : \A j \in D : m[j] < n => j \in G}
  <1>1. 0 \in T
    OBVIOUS
  <1>2. ASSUME NEW n \in Nat, n \in T PROVE n + 1 \in T
    <2>1. ASSUME NEW j \in D, m[j] < n + 1, j \notin G PROVE FALSE
      <3>1. p[j] \in D /\ m[p[j]] \in Int /\ m[j] \in Int /\ m[p[j]] < m[j]
        BY <2>1
      <3>2. m[p[j]] < n
        BY <2>1, <3>1
      <3>3. QED
        BY <1>2, <2>1, <3>1, <3>2
    <2>2. QED
      BY <2>1
  <1> HIDE DEF T
  <1>3. \A n \in Nat : n \in T
    BY <1>1, <1>2, SetInduction
  <1>4. N + 1 \in T /\ \A j \in D : m[j] < N + 1
    BY <1>3
  <1>5. QED
    BY <1>4 DEF T

(* A value for the places where walks end, and one step for the others, make
   a function on all places. *)
Tabulates(f, D, p, nil, base, step) ==
  \A j \in D : f[j] = IF p[j] = nil THEN base[j] ELSE step[<<j, f[p[j]]>>]

LEMMA WalkTable ==
  ASSUME NEW D, NEW N \in Nat, NEW m \in [D -> 0..N], NEW p, NEW nil, NEW V,
         NEW base \in [D -> V], NEW step \in [D \X V -> V],
         \A j \in D : p[j] # nil => p[j] \in D /\ m[p[j]] < m[j]
  PROVE  \E f \in [D -> V] : Tabulates(f, D, p, nil, base, step)
  <1> DEFINE Right(f, n) ==
               \A j \in D : m[j] < n =>
                 f[j] = IF p[j] = nil THEN base[j] ELSE step[<<j, f[p[j]]>>]
             T == {n \in Nat : \E f \in [D -> V] : Right(f, n)}
  <1>1. 0 \in T
    <2>1. \A j \in D : ~(m[j] < 0)
      OBVIOUS
    <2>2. Right(base, 0)
      BY <2>1, Zenon
    <2>3. QED
      BY <2>2
  <1>2. ASSUME NEW n \in Nat, n \in T PROVE n + 1 \in T
    <2>1. PICK f \in [D -> V] : Right(f, n)
      BY <1>2
    <2> DEFINE g == [j \in D |-> IF m[j] < n THEN f[j]
                                ELSE IF p[j] = nil THEN base[j] ELSE step[<<j, f[p[j]]>>]]
    <2>2. \A j \in D : p[j] # nil => step[<<j, f[p[j]]>>] \in V
      OBVIOUS
    <2>3. g \in [D -> V]
      BY <2>2
    <2>4. ASSUME NEW j \in D, m[j] < n + 1
          PROVE  g[j] = IF p[j] = nil THEN base[j] ELSE step[<<j, g[p[j]]>>]
      <3>1. CASE p[j] = nil
        BY <2>1, <3>1
      <3>2. CASE p[j] # nil
        <4>1. p[j] \in D /\ m[p[j]] \in Int /\ m[j] \in Int /\ m[p[j]] < m[j]
          BY <3>2
        <4>2. m[p[j]] < n
          BY <2>4, <4>1
        <4>3. g[p[j]] = f[p[j]]
          BY <4>1, <4>2
        <4>4. g[j] = step[<<j, f[p[j]]>>]
          BY <2>1, <3>2
        <4>5. QED
          BY <3>2, <4>3, <4>4
      <3>3. QED
        BY <3>1, <3>2
    <2> HIDE DEF g
    <2>5. Right(g, n + 1)
      BY <2>4
    <2>6. QED
      BY <2>3, <2>5
  <1> HIDE DEF T
  <1>3. \A n \in Nat : n \in T
    BY <1>1, <1>2, SetInduction
  <1>4. PICK f \in [D -> V] : Right(f, N + 1)
    <2>1. N + 1 \in T
      BY <1>3
    <2>2. QED
      BY <2>1 DEF T
  <1>5. \A j \in D : m[j] < N + 1
    OBVIOUS
  <1>6. QED
    BY <1>4, <1>5 DEF Tabulates
=============================================================================
