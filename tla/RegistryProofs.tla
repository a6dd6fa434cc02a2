--------------------------- MODULE RegistryProofs ----------------------------
(***************************************************************************)
(* Proofs about the two registries, for any number of processes, keys,     *)
(* names, namespaces, actors and failing appends: what the ledger says of  *)
(* a client's actor is one story that no verb takes apart, and no row is   *)
(* left on a namespace the registry does not know.                         *)
(***************************************************************************)
EXTENDS Registry, Walks, FiniteSetTheorems, TLAPS

-----------------------------------------------------------------------------
(* The table of actors. *)
Row(r) == r = [name |-> r.name, key |-> r.key, into |-> r.into, retired |-> r.retired]

Table ==
  /\ \E n \in 0 .. MaxActors : DOMAIN actors = 1 .. n
  /\ \A a \in DOMAIN actors :
       /\ Row(actors[a]) /\ actors[a].key \in Key \cup {None}
       /\ actors[a].into \in DOMAIN actors \cup {None}

LEMMA RowCount ==
  ASSUME Table
  PROVE  LET n == Cardinality(DOMAIN actors) IN
         n \in 0 .. MaxActors /\ DOMAIN actors = 1 .. n
  <1>1. PICK n \in 0 .. MaxActors : DOMAIN actors = 1 .. n
    BY DEF Table
  <1>2. Cardinality(1 .. n) = n
    BY <1>1, FS_Interval, RegistryAssumption
  <1>3. QED
    BY <1>1, <1>2

LEMMA RowsAreActors ==
  ASSUME Table
  PROVE  DOMAIN actors \subseteq Actor
  BY RegistryAssumption DEF Table, Actor

LEMMA OnwardStays ==
  ASSUME Table, NEW a \in DOMAIN actors
  PROVE  /\ Onward[a] \in DOMAIN actors
         /\ Onward[a] = IF actors[a].into = None THEN a ELSE actors[a].into
  BY DEF Table, Onward

(* The merges a read follows, as the steps it takes. *)
LEMMA RootWalks ==
  ASSUME Table, NEW a \in DOMAIN actors
  PROVE  \E w \in [0 .. Hops -> DOMAIN actors] :
           /\ w[0] = a /\ Root(a) = w[Hops]
           /\ \A n \in 0 .. Hops : n # Hops => w[n + 1] = Onward[w[n]]
  <1> DEFINE D == DOMAIN actors
             Steps(n, w) == w[0] = a /\ \A i \in 0 .. n : i # n => w[i + 1] = Onward[w[i]]
             T == {n \in Nat : \E w \in [0 .. n -> D] : Steps(n, w)}
             W == CHOOSE walk : walk = [n \in 0 .. Hops |-> IF n = 0 THEN a ELSE Onward[walk[n - 1]]]
  <1>0. Hops \in Nat
    BY RegistryAssumption
  <1>1. 0 \in T
    <2>1. [i \in 0 .. 0 |-> a] \in [0 .. 0 -> D] /\ Steps(0, [i \in 0 .. 0 |-> a])
      OBVIOUS
    <2>2. QED
      BY <2>1
  <1>2. ASSUME NEW n \in Nat, n \in T PROVE n + 1 \in T
    <2>1. PICK w \in [0 .. n -> D] : Steps(n, w)
      BY <1>2
    <2>2. Onward[w[n]] \in D
      BY <2>1, OnwardStays
    <2> DEFINE v == [i \in 0 .. n + 1 |-> IF i = n + 1 THEN Onward[w[n]] ELSE w[i]]
    <2>3. v \in [0 .. n + 1 -> D]
      BY <2>1, <2>2
    <2>4. Steps(n + 1, v)
      BY <2>1
    <2> HIDE DEF v, Steps
    <2>5. QED
      BY <2>3, <2>4
  <1>3. \A n \in Nat : n \in T
    <2> HIDE DEF T
    <2>1. QED
      BY <1>1, <1>2, SetInduction
  <1>4. PICK w \in [0 .. Hops -> D] : Steps(Hops, w)
    BY <1>0, <1>3
  <1>5. w = [n \in 0 .. Hops |-> IF n = 0 THEN a ELSE Onward[w[n - 1]]]
    <2>1. \A n \in 0 .. Hops : n # 0 => n - 1 \in 0 .. Hops /\ n - 1 # Hops /\ (n - 1) + 1 = n
      BY <1>0
    <2>2. \A n \in 0 .. Hops : w[n] = IF n = 0 THEN a ELSE Onward[w[n - 1]]
      BY <1>4, <2>1
    <2>3. QED
      BY <2>2
  <1>6. W = [n \in 0 .. Hops |-> IF n = 0 THEN a ELSE Onward[W[n - 1]]]
    BY <1>5
  <1>7. \A n \in Nat : n \in {i \in Nat : i <= Hops => W[i] = w[i]}
    <2> DEFINE S == {i \in Nat : i <= Hops => W[i] = w[i]}
    <2> HIDE DEF W
    <2>1. 0 \in S
      BY <1>0, <1>4, <1>6
    <2>2. ASSUME NEW n \in Nat, n \in S PROVE n + 1 \in S
      <3>1. CASE n + 1 <= Hops
        <4>1. W[n + 1] = Onward[W[n]] /\ w[n + 1] = Onward[w[n]] /\ W[n] = w[n]
          BY <1>0, <1>4, <1>6, <2>2, <3>1
        <4>2. QED
          BY <4>1
      <3>2. CASE ~(n + 1 <= Hops)
        BY <3>2
      <3>3. QED
        BY <3>1, <3>2
    <2> HIDE DEF S
    <2>3. \A n \in Nat : n \in S
      BY <2>1, <2>2, SetInduction
    <2>4. QED
      BY <2>3 DEF S
  <1>8. W[Hops] = w[Hops]
    BY <1>0, <1>7
  <1>9. Root(a) = W[Hops]
    BY Zenon DEF Root
  <1> HIDE DEF W
  <1>10. QED
    BY <1>4, <1>8, <1>9

LEMMA RootInTable ==
  ASSUME Table, NEW a \in DOMAIN actors
  PROVE  Root(a) \in DOMAIN actors
  BY RootWalks, RegistryAssumption

-----------------------------------------------------------------------------
(* The merges as a forest: R tells each actor's survivor and rank how many
   merges may still lie below it. *)
Gone == {a \in DOMAIN actors : actors[a].into # None}

Forest(R, rank) ==
  /\ R \in [DOMAIN actors -> DOMAIN actors]
  /\ rank \in [DOMAIN actors -> 0 .. Cardinality(Gone)]
  /\ \A a \in DOMAIN actors :
       /\ actors[R[a]].into = None
       /\ actors[a].into = None => R[a] = a
       /\ actors[a].into # None =>
            /\ R[a] = R[actors[a].into]
            /\ rank[a] < rank[actors[a].into]

(* Some actor survives, and no chain of merges goes round. *)
Grows ==
  /\ Gone = DOMAIN actors => DOMAIN actors = {}
  /\ \E R, rank : Forest(R, rank)

LEMMA GoneCount ==
  ASSUME Table
  PROVE  /\ IsFiniteSet(Gone) /\ Cardinality(Gone) \in Nat
         /\ (Gone = DOMAIN actors => DOMAIN actors = {}) /\ MaxActors <= Hops + 1
              => Cardinality(Gone) <= Hops
  <1> DEFINE n == Cardinality(DOMAIN actors)
  <1>1. n \in 0 .. MaxActors /\ DOMAIN actors = 1 .. n /\ Gone \subseteq DOMAIN actors
        /\ MaxActors \in Nat /\ Hops \in Nat
    BY RowCount, RegistryAssumption DEF Gone
  <1>2. IsFiniteSet(DOMAIN actors)
    BY <1>1, FS_Interval
  <1>3. IsFiniteSet(Gone) /\ Cardinality(Gone) \in Nat /\ Cardinality(Gone) <= n
    BY <1>1, <1>2, FS_Subset, FS_CardinalityType
  <1>4. ASSUME Gone # DOMAIN actors PROVE Cardinality(Gone) < n
    BY <1>1, <1>2, <1>3, <1>4, FS_Subset
  <1>5. ASSUME Gone = DOMAIN actors, DOMAIN actors = {} PROVE Cardinality(Gone) = 0
    BY <1>5, FS_EmptySet
  <1>6. QED
    BY <1>1, <1>3, <1>4, <1>5

(* A read that may follow every merge ends at the survivor. *)
LEMMA RootIsSurvivor ==
  ASSUME Table, Cardinality(Gone) \in Nat, Cardinality(Gone) <= Hops,
         NEW R, NEW rank, Forest(R, rank), NEW a \in DOMAIN actors
  PROVE  Root(a) = R[a] /\ actors[Root(a)].into = None
  <1>0. Hops \in Nat
    BY RegistryAssumption
  <1>1. PICK w \in [0 .. Hops -> DOMAIN actors] :
           /\ w[0] = a /\ Root(a) = w[Hops]
           /\ \A n \in 0 .. Hops : n # Hops => w[n + 1] = Onward[w[n]]
    BY RootWalks
  <1> DEFINE Close(n) == /\ R[w[n]] = R[a]
                         /\ actors[w[n]].into = None \/ rank[w[n]] >= n
             T == {n \in Nat : n <= Hops => Close(n)}
  <1>2. 0 \in T
    BY <1>0, <1>1 DEF Forest
  <1>3. ASSUME NEW n \in Nat, n \in T PROVE n + 1 \in T
    <2> SUFFICES ASSUME n + 1 <= Hops PROVE Close(n + 1)
      BY <1>3
    <2>1. w[n] \in DOMAIN actors /\ w[n + 1] \in DOMAIN actors /\ w[n + 1] = Onward[w[n]]
      BY <1>0, <1>1
    <2>2. Close(n)
      BY <1>0, <1>3
    <2>3. CASE actors[w[n]].into = None
      <3>1. w[n + 1] = w[n]
        BY <2>1, <2>3, OnwardStays
      <3>2. QED
        BY <2>2, <2>3, <3>1
    <2>4. CASE actors[w[n]].into # None
      <3>1. w[n + 1] = actors[w[n]].into
        BY <2>1, <2>4, OnwardStays
      <3>2. R[w[n + 1]] = R[w[n]] /\ rank[w[n]] < rank[w[n + 1]]
        BY <2>1, <2>4, <3>1 DEF Forest
      <3>3. rank[w[n]] \in Nat /\ rank[w[n + 1]] \in Nat
        BY <2>1 DEF Forest
      <3>4. QED
        BY <2>2, <2>4, <3>2, <3>3
    <2>5. QED
      BY <2>3, <2>4
  <1>4. Close(Hops)
    <2> HIDE DEF T
    <2>1. \A n \in Nat : n \in T
      BY <1>2, <1>3, SetInduction
    <2>2. QED
      BY <1>0, <2>1 DEF T
  <1>5. w[Hops] \in DOMAIN actors
    BY <1>0, <1>1
  <1>6. actors[w[Hops]].into = None
    <2> SUFFICES ASSUME actors[w[Hops]].into # None PROVE FALSE
      OBVIOUS
    <2>1. actors[w[Hops]].into \in DOMAIN actors
      BY <1>5 DEF Table
    <2>2. rank[w[Hops]] >= Hops /\ rank[w[Hops]] < rank[actors[w[Hops]].into]
      BY <1>4, <1>5 DEF Forest
    <2>3. rank[actors[w[Hops]].into] <= Cardinality(Gone) /\ rank[w[Hops]] \in Nat
          /\ rank[actors[w[Hops]].into] \in Nat
      BY <1>5, <2>1 DEF Forest
    <2>4. QED
      BY <1>0, <2>2, <2>3
  <1>7. R[w[Hops]] = w[Hops]
    BY <1>5, <1>6 DEF Forest
  <1>8. QED
    BY <1>1, <1>4, <1>6, <1>7

(* The same, said as one formula, before a step and after it. *)
Short == MaxActors <= Hops + 1

RootsTell ==
  \A R, rank : Forest(R, rank) =>
    \A a \in DOMAIN actors : Root(a) = R[a] /\ actors[Root(a)].into = None

LEMMA RootsAlwaysTell ==
  /\ Short /\ Table /\ Grows => RootsTell
  /\ (Short /\ Table /\ Grows => RootsTell)'
  <1>1. Short /\ Table /\ Grows => RootsTell
    BY GoneCount, RootIsSurvivor DEF Grows, RootsTell, Short
  <1>2. QED
    BY <1>1, PTL

(* An actor that comes, or changes otherwise, leaves the survivors alone. *)
LEMMA ForestKept ==
  ASSUME Table, Table', NEW R, NEW rank, Forest(R, rank),
         DOMAIN actors \subseteq DOMAIN actors',
         \A a \in DOMAIN actors : actors'[a].into = actors[a].into,
         \A a \in DOMAIN actors' \ DOMAIN actors : actors'[a].into = None
  PROVE  /\ Gone' = Gone
         /\ \E R2, rank2 : Forest(R2, rank2)' /\ \A a \in DOMAIN actors : R2[a] = R[a]
  <1>1. Gone' = Gone
    BY DEF Gone
  <1>2. PICK R2 : R2 = [a \in DOMAIN actors' |-> IF a \in DOMAIN actors THEN R[a] ELSE a]
    OBVIOUS
  <1>3. PICK rank2 : rank2 = [a \in DOMAIN actors' |-> IF a \in DOMAIN actors THEN rank[a] ELSE 0]
    OBVIOUS
  <1>4. Cardinality(Gone) \in Nat /\ Cardinality(Gone)' = Cardinality(Gone)
    BY <1>1, GoneCount
  <1>5. R2 \in [DOMAIN actors' -> DOMAIN actors'] /\ rank2 \in [DOMAIN actors' -> 0 .. Cardinality(Gone)]
    BY <1>2, <1>3, <1>4 DEF Forest
  <1>6. ASSUME NEW a \in DOMAIN actors'
        PROVE  /\ actors'[R2[a]].into = None
               /\ actors'[a].into = None => R2[a] = a
               /\ actors'[a].into # None =>
                    /\ R2[a] = R2[actors'[a].into]
                    /\ rank2[a] < rank2[actors'[a].into]
    <2>1. CASE a \in DOMAIN actors
      <3>1. R[a] \in DOMAIN actors /\ R2[a] = R[a] /\ rank2[a] = rank[a]
        BY <1>2, <1>3, <2>1 DEF Forest
      <3>2. actors[a].into # None =>
              actors[a].into \in DOMAIN actors /\ R2[actors[a].into] = R[actors[a].into]
                /\ rank2[actors[a].into] = rank[actors[a].into]
        BY <1>2, <1>3, <2>1 DEF Table
      <3>3. QED
        BY <2>1, <3>1, <3>2 DEF Forest
    <2>2. CASE a \notin DOMAIN actors
      BY <1>2, <2>2
    <2>3. QED
      BY <2>1, <2>2
  <1>7. Forest(R2, rank2)'
    BY <1>4, <1>5, <1>6 DEF Forest
  <1>8. QED
    BY <1>1, <1>2, <1>7

(* A survivor merged into another takes those it stood for along. *)
LEMMA ForestMerged ==
  ASSUME Table, NEW R, NEW rank, Forest(R, rank),
         NEW f \in DOMAIN actors, NEW g \in DOMAIN actors, f # g,
         actors[f].into = None, actors[g].into = None, g # None,
         DOMAIN actors' = DOMAIN actors,
         \A a \in DOMAIN actors : actors'[a].into = IF a = f THEN g ELSE actors[a].into
  PROVE  /\ g \notin Gone'
         /\ \E R2, rank2 : /\ Forest(R2, rank2)'
                           /\ \A a \in DOMAIN actors : R2[a] = IF R[a] = f THEN g ELSE R[a]
  <1> DEFINE D == DOMAIN actors
             N == Cardinality(Gone)
  <1>1. Gone' = Gone \cup {f} /\ f \notin Gone /\ g \notin Gone'
    BY DEF Gone
  <1>2. N \in Nat /\ Cardinality(Gone') = N + 1
    BY <1>1, GoneCount, FS_AddElement
  <1>3. rank[f] \in 0 .. N /\ rank[g] \in 0 .. N
    BY DEF Forest
  <1>4. PICK top \in 0 .. N + 1 : top > rank[f] /\ top >= rank[g]
    <2>1. CASE rank[f] + 1 >= rank[g]
      BY <1>2, <1>3, <2>1
    <2>2. CASE ~(rank[f] + 1 >= rank[g])
      BY <1>2, <1>3, <2>2
    <2>3. QED
      BY <2>1, <2>2
  <1>5. PICK R2 : R2 = [a \in D |-> IF R[a] = f THEN g ELSE R[a]]
    OBVIOUS
  <1>6. PICK rank2 : rank2 = [a \in D |-> IF a = g THEN top ELSE rank[a]]
    OBVIOUS
  <1>7. R2 \in [D -> D] /\ rank2 \in [D -> 0 .. N + 1]
    <2>1. rank2 \in [D -> 0 .. N + 1]
      BY <1>2, <1>4, <1>6 DEF Forest
    <2>2. R2 \in [D -> D]
      BY <1>5 DEF Forest
    <2>3. QED
      BY <2>1, <2>2
  <1>8. R[f] = f /\ R[g] = g
    BY DEF Forest
  <1>9. ASSUME NEW a \in D
        PROVE  /\ actors'[R2[a]].into = None
               /\ actors'[a].into = None => R2[a] = a
               /\ actors'[a].into # None =>
                    /\ R2[a] = R2[actors'[a].into]
                    /\ rank2[a] < rank2[actors'[a].into]
    <2>1. R[a] \in D /\ actors[R[a]].into = None
      BY DEF Forest
    <2>2. actors'[R2[a]].into = None
      BY <1>5, <2>1
    <2>3. CASE a = f
      BY <1>3, <1>4, <1>5, <1>6, <1>8, <2>2, <2>3
    <2>4. CASE a # f /\ actors[a].into = None
      BY <1>5, <2>2, <2>4 DEF Forest
    <2>5. CASE a # f /\ actors[a].into # None
      <3>1. /\ actors'[a].into = actors[a].into /\ actors[a].into \in D
            /\ R[a] = R[actors[a].into] /\ rank[a] < rank[actors[a].into]
        BY <2>5 DEF Forest, Table
      <3>2. R2[a] = R2[actors[a].into]
        BY <1>5, <3>1
      <3>3. a # g /\ rank2[a] = rank[a] /\ rank[a] \in Nat /\ rank[actors[a].into] \in Nat
        BY <1>6, <2>5 , <3>1 DEF Forest
      <3>4. rank2[actors[a].into] >= rank[actors[a].into]
        BY <1>3, <1>4, <1>6, <3>1, <3>3
      <3>5. rank2[actors[a].into] \in Nat
        BY <1>7, <3>1
      <3>6. QED
        BY <2>2, <2>5, <3>1, <3>2, <3>3, <3>4, <3>5
    <2>6. QED
      BY <2>3, <2>4, <2>5
  <1>10. Forest(R2, rank2)'
    BY <1>2, <1>7, <1>9 DEF Forest
  <1>11. QED
    BY <1>1, <1>5, <1>10

(* Whom each actor reads as. *)
Roots == [a \in DOMAIN actors |-> Root(a)]

(* So two actors that read as one go on doing so. *)
LEMMA KeptTogether ==
  ASSUME Short, Table, Table', Grows,
         DOMAIN actors \subseteq DOMAIN actors',
         \A a \in DOMAIN actors : actors'[a].into = actors[a].into,
         \A a \in DOMAIN actors' \ DOMAIN actors : actors'[a].into = None
  PROVE  Grows' /\ \A a, b \in DOMAIN actors : Roots[a] = Roots[b] => Roots'[a] = Roots'[b]
  <1>1. PICK R, rank : Forest(R, rank)
    BY DEF Grows
  <1>2. PICK R2, rank2 : Forest(R2, rank2)' /\ \A a \in DOMAIN actors : R2[a] = R[a]
    BY <1>1, ForestKept
  <1>3. Gone' = Gone
    BY <1>1, ForestKept
  <1>4. Grows'
    BY <1>2, <1>3 DEF Grows, Gone
  <1>5. \A a \in DOMAIN actors : Root(a) = R[a]
    BY <1>1, RootsAlwaysTell DEF RootsTell
  <1>6. \A a \in DOMAIN actors' : Root(a)' = R2[a]
    BY <1>2, <1>4, RootsAlwaysTell DEF RootsTell, Short
  <1>7. /\ \A a \in DOMAIN actors : Roots[a] = R[a]
        /\ \A a \in DOMAIN actors' : Roots'[a] = R2[a]
    BY <1>5, <1>6 DEF Roots
  <1>8. QED
    BY <1>2, <1>4, <1>7

LEMMA MergedTogether ==
  ASSUME Short, Table, Table', Grows,
         NEW f \in DOMAIN actors, NEW g \in DOMAIN actors, f # g,
         actors[f].into = None, actors[g].into = None, g # None,
         DOMAIN actors' = DOMAIN actors,
         \A a \in DOMAIN actors : actors'[a].into = IF a = f THEN g ELSE actors[a].into
  PROVE  Grows' /\ \A a, b \in DOMAIN actors : Roots[a] = Roots[b] => Roots'[a] = Roots'[b]
  <1>1. PICK R, rank : Forest(R, rank)
    BY DEF Grows
  <1>2. PICK R2, rank2 : /\ Forest(R2, rank2)'
                         /\ \A a \in DOMAIN actors : R2[a] = IF R[a] = f THEN g ELSE R[a]
    BY <1>1, ForestMerged
  <1>3. g \notin Gone'
    BY <1>1, ForestMerged
  <1>4. Grows'
    BY <1>2, <1>3 DEF Grows
  <1>5. \A a \in DOMAIN actors : Root(a) = R[a]
    BY <1>1, RootsAlwaysTell DEF RootsTell
  <1>6. \A a \in DOMAIN actors' : Root(a)' = R2[a]
    BY <1>2, <1>4, RootsAlwaysTell DEF RootsTell, Short
  <1>7. /\ \A a \in DOMAIN actors : Roots[a] = R[a]
        /\ \A a \in DOMAIN actors' : Roots'[a] = R2[a]
    BY <1>5, <1>6 DEF Roots
  <1>8. QED
    BY <1>2, <1>4, <1>7

-----------------------------------------------------------------------------
(* The sessions and the actors they bind as. *)
Types ==
  /\ Table
  /\ at \in [Session -> Phase] /\ key \in [Session -> Key \cup {None}]
  /\ auto \in [Session -> BOOLEAN] /\ fresh \in [Session -> BOOLEAN]
  /\ got \in [Session -> Actor \cup {None}]
  /\ DOMAIN verb = Session
  /\ binds \in [Session -> Seq(Actor)]
  /\ minted \in [Actor -> Nat] /\ fails \in Nat /\ crossed \in BOOLEAN

(* The UNIQUE key. *)
OneRowPerKey ==
  \A a, b \in DOMAIN actors : actors[a].key = actors[b].key /\ actors[a].key # None => a = b

Opening == {"new", "merge", "filing", "tally", "remove"}

(* A session binds only at the end of its call, by a key, and to an actor in
   the table; a merge under way has read both of its rows. *)
Person(s) ==
  /\ \A i \in DOMAIN binds[s] : binds[s][i] \in DOMAIN actors
  /\ at[s] \in Opening => binds[s] = <<>>
  /\ at[s] \in {"resolve", "insert", "bind", "mint"} => key[s] \in Key
  /\ at[s] \in {"bind", "mint"} => got[s] \in DOMAIN actors
  /\ at[s] \in {"bind", "mint"} /\ fresh[s] => auto[s]
  /\ at[s] = "mint" => fresh[s]
  /\ at[s] = "merge" =>
       /\ verb[s].from \in DOMAIN verb[s].seen /\ verb[s].into \in DOMAIN verb[s].seen
       /\ DOMAIN verb[s].seen \subseteq DOMAIN actors
       /\ verb[s].from # verb[s].into /\ verb[s].seen[verb[s].from] = None

(* A session that minted an actor and has still to say so. *)
Pending(s) == at[s] \in {"bind", "mint"} /\ fresh[s]

Minting ==
  /\ \A s, t \in Session : Pending(s) /\ Pending(t) /\ got[s] = got[t] => s = t \/ fails > 0
  /\ \A s \in Session : Pending(s) => minted[got[s]] = 0 \/ fails > 0
  /\ \A a \in DOMAIN actors :
       \/ actors[a].key = None \/ minted[a] = 1 \/ fails > 0
       \/ \E s \in Session : Pending(s) /\ got[s] = a
  /\ \A a \in Actor \ DOMAIN actors : minted[a] = 0

PInv == Types /\ OneRowPerKey /\ Minting /\ \A s \in Session : Person(s)

(* What was bound by a key reads as the actor the key has. *)
ByKey(a, k) == \E b \in DOMAIN actors : actors[b].key = k /\ Roots[a] = Roots[b]

Trail(s) ==
  /\ at[s] = "merge" => verb[s].seen[verb[s].into] = None
  /\ at[s] # "done" \/ auto[s] => \A i \in DOMAIN binds[s] : ByKey(binds[s][i], key[s])
  /\ at[s] = "bind" /\ auto[s] => ByKey(got[s], key[s])

TInv == Short /\ ~crossed => Grows /\ \A s \in Session : Trail(s)

(* What every step does to the table, and what a session's step leaves of the
   others. *)
Keeps ==
  /\ Table' /\ DOMAIN actors \subseteq DOMAIN actors' /\ (crossed => crossed')
  /\ \A a \in DOMAIN actors : actors'[a].key = actors[a].key
  /\ Short /\ ~crossed' =>
       Grows' /\ \A a, b \in DOMAIN actors : Roots[a] = Roots[b] => Roots'[a] = Roots'[b]

Stays(t) ==
  /\ at'[t] = at[t] /\ key'[t] = key[t] /\ auto'[t] = auto[t] /\ got'[t] = got[t]
  /\ fresh'[t] = fresh[t] /\ binds'[t] = binds[t]
  /\ at[t] = "merge" => verb'[t] = verb[t]

LEMMA ByKeyKept ==
  ASSUME Keeps, Short, ~crossed', NEW k
  PROVE  \A a \in DOMAIN actors :
           (\E b \in DOMAIN actors : actors[b].key = k /\ Roots[a] = Roots[b])
             => \E b \in DOMAIN actors' : actors'[b].key = k /\ Roots'[a] = Roots'[b]
  BY DEF Keeps

LEMMA OthersStay ==
  ASSUME PInv, TInv, Keeps, NEW t \in Session, Stays(t)
  PROVE  Person(t)' /\ (Short /\ ~crossed' => Trail(t)')
  <1>1. Person(t)
    BY DEF PInv
  <1>2. Person(t)'
    BY <1>1 DEF Person, Stays, Keeps, Opening
  <1>3. ASSUME Short, ~crossed' PROVE Trail(t)'
    <2>1. Trail(t)
      BY <1>3 DEF TInv, Keeps
    <2>2. at'[t] = "merge" => verb'[t].seen[verb'[t].into] = None
      BY <2>1 DEF Trail, Stays
    <2>3. ASSUME at'[t] # "done" \/ auto'[t], NEW i \in DOMAIN binds[t]
          PROVE  \E b \in DOMAIN actors' : actors'[b].key = key[t] /\ Roots'[binds[t][i]] = Roots'[b]
      <3>1. binds[t][i] \in DOMAIN actors
        BY <1>1 DEF Person
      <3>2. \E b \in DOMAIN actors : actors[b].key = key[t] /\ Roots[binds[t][i]] = Roots[b]
        BY <2>1, <2>3 DEF Trail, ByKey, Stays
      <3>3. QED
        BY <1>3, <3>1, <3>2, ByKeyKept
    <2>4. ASSUME at'[t] = "bind", auto'[t]
          PROVE  \E b \in DOMAIN actors' : actors'[b].key = key[t] /\ Roots'[got[t]] = Roots'[b]
      <3>1. got[t] \in DOMAIN actors
        BY <1>1, <2>4 DEF Person, Stays
      <3>2. \E b \in DOMAIN actors : actors[b].key = key[t] /\ Roots[got[t]] = Roots[b]
        BY <2>1, <2>4 DEF Trail, ByKey, Stays
      <3>3. QED
        BY <1>3, <3>1, <3>2, ByKeyKept
    <2>5. QED
      BY <2>2, <2>3, <2>4 DEF Trail, ByKey, Stays
  <1>4. QED
    BY <1>2, <1>3

(* A step that keeps the table as it is. *)
LEMMA SameTable ==
  ASSUME PInv, TInv, actors' = actors, crossed => crossed'
  PROVE  Keeps /\ OneRowPerKey' /\ Roots' = Roots
  <1>1. Table'
    BY DEF PInv, Types, Table
  <1>2. ASSUME Short, ~crossed' PROVE Grows'
    BY <1>2 DEF TInv, Grows, Forest, Gone
  <1>3. Roots' = Roots
    BY DEF Roots, Root, Onward
  <1>4. OneRowPerKey'
    BY DEF PInv, OneRowPerKey
  <1>5. QED
    BY <1>1, <1>2, <1>3, <1>4 DEF Keeps

(* Rows that change otherwise, or come with a key nobody has. *)
LEMMA TableGrows ==
  ASSUME PInv, TInv, Table', crossed => crossed',
         DOMAIN actors \subseteq DOMAIN actors',
         \A a \in DOMAIN actors : /\ actors'[a].into = actors[a].into
                                  /\ actors'[a].key = actors[a].key,
         \A a \in DOMAIN actors' \ DOMAIN actors :
           /\ actors'[a].into = None
           /\ actors'[a].key # None => Keyed(actors'[a].key) = {},
         \A a, b \in DOMAIN actors' \ DOMAIN actors : a = b
  PROVE  Keeps /\ OneRowPerKey'
  <1>1. ASSUME Short, ~crossed'
        PROVE  Grows' /\ \A a, b \in DOMAIN actors : Roots[a] = Roots[b] => Roots'[a] = Roots'[b]
    <2>1. Grows /\ Table
      BY <1>1 DEF TInv, PInv, Types
    <2>2. QED
      BY <1>1, <2>1, KeptTogether
  <1>2. OneRowPerKey'
    <2> SUFFICES ASSUME NEW a \in DOMAIN actors', NEW b \in DOMAIN actors',
                        actors'[a].key = actors'[b].key, actors'[a].key # None
                 PROVE  a = b
      BY DEF OneRowPerKey
    <2>1. CASE a \in DOMAIN actors /\ b \in DOMAIN actors
      BY <2>1 DEF PInv, OneRowPerKey
    <2>2. CASE a \notin DOMAIN actors /\ b \in DOMAIN actors
      BY <2>2 DEF Keyed
    <2>3. CASE b \notin DOMAIN actors /\ a \in DOMAIN actors
      BY <2>3 DEF Keyed
    <2>4. CASE a \notin DOMAIN actors /\ b \notin DOMAIN actors
      BY <2>4
    <2>5. QED
      BY <2>1, <2>2, <2>3, <2>4
  <1>3. QED
    BY <1>1, <1>2 DEF Keeps

(* A step before a session binds: it goes on with its call, or to bind. *)
LEMMA OpeningKeeps ==
  ASSUME PInv, TInv, Keeps, Types', OneRowPerKey', NEW s \in Session, at[s] \in Opening,
         \A t \in Session \ {s} : Stays(t),
         \A a \in DOMAIN actors' \ DOMAIN actors : actors'[a].key = None,
         UNCHANGED <<binds, minted, auto, got, fresh, fails>>,
         \/ at'[s] \in {"filing", "tally", "remove", "done"} /\ key'[s] = key[s]
         \/ at'[s] = "resolve" /\ key'[s] \in Key
         \/ at'[s] = "merge" /\ key'[s] = key[s] /\ Person(s)'
              /\ (Short /\ ~crossed' => verb'[s].seen[verb'[s].into] = None)
  PROVE  PInv' /\ TInv' /\ Keeps
  <1>1. \A t \in Session \ {s} : Person(t)' /\ (Short /\ ~crossed' => Trail(t)')
    BY OthersStay
  <1>2. Person(s) /\ binds[s] = <<>> /\ binds'[s] = <<>> /\ at'[s] \notin {"bind", "mint"}
    BY DEF PInv, Person
  <1>3. Person(s)'
    BY <1>2 DEF Person, Opening
  <1>4. Trail(s)' \/ ~Short \/ crossed'
    BY <1>2 DEF Trail
  <1>5. \A t \in Session : Pending(t)' <=> Pending(t)
    BY <1>2 DEF Pending, Stays, Opening
  <1>6. Minting'
    <2>1. \A a \in Actor \ DOMAIN actors' : minted[a] = 0
      BY DEF PInv, Minting, Keeps
    <2>2. \A a \in DOMAIN actors' :
            \/ actors'[a].key = None \/ minted[a] = 1 \/ fails > 0
            \/ \E t \in Session : Pending(t) /\ got[t] = a
      BY DEF PInv, Minting, Keeps
    <2>3. QED
      BY <1>5, <2>1, <2>2 DEF PInv, Minting
  <1>7. ASSUME Short, ~crossed' PROVE Grows' /\ \A t \in Session : Trail(t)'
    BY <1>1, <1>4, <1>7 DEF Keeps
  <1>8. PInv'
    BY <1>1, <1>3, <1>6 DEF PInv
  <1>9. TInv'
    BY <1>7 DEF TInv, Short
  <1>10. QED
    BY <1>8, <1>9

(* Tell, after a change of the table. *)
LEMMA TellKeeps ==
  ASSUME PInv, TInv, Keeps, OneRowPerKey', NEW s \in Session, at[s] \in Opening, Tell(s),
         \A a \in DOMAIN actors' \ DOMAIN actors : actors'[a].key = None,
         crossed' \in BOOLEAN,
         \/ verb' = verb
         \/ verb' = [verb EXCEPT ![s] = NoVerb],
         UNCHANGED <<binds, minted, fails>>
  PROVE  PInv' /\ TInv' /\ Keeps
  <1>1. (CHOOSE k \in HumanKey : TRUE) \in Key
    BY RegistryAssumption DEF Key
  <1>2. Types'
    BY <1>1 DEF Tell, Go, ByKeyOnly, PInv, Types, Keeps, Phase
  <1>3. at'[s] = "resolve" /\ key'[s] \in Key
    BY <1>1 DEF Tell, Go, ByKeyOnly, PInv, Types
  <1>4. \A t \in Session \ {s} : Stays(t)
    BY DEF Tell, Go, ByKeyOnly, PInv, Types, Stays
  <1>5. UNCHANGED <<auto, got, fresh>>
    BY DEF Tell
  <1>6. QED
    BY <1>2, <1>3, <1>4, <1>5, OpeningKeeps

(* The call goes on, or is refused, and the table stays. *)
LEMMA GoesOn ==
  ASSUME PInv, TInv, NEW s \in Session, at[s] \in Opening,
         NEW phase \in {"filing", "tally", "remove", "done"}, Go(s, phase),
         DOMAIN verb' = Session,
         \A t \in Session \ {s} : at[t] = "merge" => verb'[t] = verb[t],
         UNCHANGED <<actors, binds, minted, fails, crossed, key, auto, got, fresh>>
  PROVE  PInv' /\ TInv' /\ Keeps
  <1>1. Keeps /\ OneRowPerKey'
    BY SameTable
  <1>2. Types'
    BY <1>1 DEF Go, PInv, Types, Keeps, Phase
  <1>3. at'[s] = phase /\ \A t \in Session \ {s} : Stays(t)
    BY DEF Go, PInv, Types, Stays
  <1>4. \A a \in DOMAIN actors' \ DOMAIN actors : actors'[a].key = None
    OBVIOUS
  <1>5. QED
    BY <1>1, <1>2, <1>3, <1>4, OpeningKeeps

-----------------------------------------------------------------------------
(* One lemma for each change of the table. *)

LEMMA MintedTable ==
  ASSUME Table, Roomy, NEW n, NEW k \in Key \cup {None}, actors' = Minted(n, k)
  PROVE  LET id == Cardinality(DOMAIN actors) + 1 IN
         /\ id \in Actor /\ id \notin DOMAIN actors
         /\ DOMAIN actors' = DOMAIN actors \cup {id}
         /\ actors'[id].key = k /\ actors'[id].into = None
         /\ \A a \in DOMAIN actors : actors'[a] = actors[a]
         /\ Table'
  <1> DEFINE c == Cardinality(DOMAIN actors)
  <1>1. c \in 0 .. MaxActors /\ DOMAIN actors = 1 .. c /\ c < MaxActors /\ MaxActors \in Nat
    BY RowCount, RegistryAssumption DEF Roomy
  <1>2. PICK id : id = c + 1
    OBVIOUS
  <1>3. actors' = [a \in DOMAIN actors \cup {id} |-> IF a = id THEN NewActor(n, k) ELSE actors[a]]
    BY <1>2 DEF Minted
  <1> HIDE DEF c
  <1>4. id \in Actor /\ id \notin DOMAIN actors /\ DOMAIN actors \cup {id} = 1 .. id
        /\ id \in 0 .. MaxActors
    BY <1>1, <1>2 DEF Actor
  <1>5. /\ DOMAIN actors' = DOMAIN actors \cup {id}
        /\ actors'[id] = NewActor(n, k)
        /\ \A a \in DOMAIN actors : actors'[a] = actors[a]
    BY <1>3, <1>4
  <1>6. Row(NewActor(n, k)) /\ NewActor(n, k).key = k /\ NewActor(n, k).into = None
    BY DEF Row, NewActor
  <1>7. Table'
    <2>1. \E m \in 0 .. MaxActors : DOMAIN actors' = 1 .. m
      BY <1>4, <1>5
    <2>2. ASSUME NEW a \in DOMAIN actors'
          PROVE  /\ Row(actors'[a]) /\ actors'[a].key \in Key \cup {None}
                 /\ actors'[a].into \in DOMAIN actors' \cup {None}
      <3>1. CASE a = id
        BY <1>5, <1>6, <3>1
      <3>2. CASE a # id
        BY <1>5, <3>2 DEF Table
      <3>3. QED
        BY <3>1, <3>2
    <2>3. QED
      BY <2>1, <2>2 DEF Table, Row
  <1>8. QED
    BY <1>2, <1>4, <1>5, <1>6, <1>7 DEF c

LEMMA AgentAddKeeps ==
  ASSUME PInv, TInv, NEW s \in Session, AgentAdd(s)
  PROVE  PInv' /\ TInv' /\ Keeps
  <1>1. /\ at[s] = "new" /\ at[s] \in Opening /\ Roomy /\ Table
        /\ UNCHANGED <<binds, minted, verb, fails, crossed>>
    BY DEF AgentAdd, Opening, PInv, Types
  <1>2. CASE Refuse(s) /\ UNCHANGED actors
    BY <1>1, <1>2, GoesOn DEF Refuse, PInv, Types
  <1>3. ASSUME NEW b \in Base, actors' = Minted(<<b, 1>>, None), Tell(s)
        PROVE  PInv' /\ TInv' /\ Keeps
    <2>1. PICK id : /\ id \in Actor /\ id \notin DOMAIN actors
                    /\ DOMAIN actors' = DOMAIN actors \cup {id}
                    /\ actors'[id].key = None /\ actors'[id].into = None
                    /\ \A a \in DOMAIN actors : actors'[a] = actors[a]
                    /\ Table'
      BY <1>1, <1>3, MintedTable
    <2>2. Keeps /\ OneRowPerKey'
      BY <1>1, <2>1, TableGrows
    <2>3. QED
      BY <1>1, <1>3, <2>1, <2>2, TellKeeps DEF PInv, Types
  <1>4. QED
    BY <1>2, <1>3 DEF AgentAdd

(* A name or the retired mark changed. *)
LEMMA TouchedTable ==
  ASSUME PInv, TInv, DOMAIN actors' = DOMAIN actors, crossed' = crossed,
         \A a \in DOMAIN actors : /\ Row(actors'[a]) /\ actors'[a].key = actors[a].key
                                  /\ actors'[a].into = actors[a].into
  PROVE  Keeps /\ OneRowPerKey'
  <1>1. Table'
    BY DEF PInv, Types, Table, Row
  <1>2. QED
    BY <1>1, TableGrows

LEMMA AgentRenameKeeps ==
  ASSUME PInv, TInv, NEW s \in Session, AgentRename(s)
  PROVE  PInv' /\ TInv' /\ Keeps
  <1>1. /\ at[s] = "new" /\ at[s] \in Opening /\ Table
        /\ UNCHANGED <<binds, minted, verb, fails, crossed>>
    BY DEF AgentRename, Opening, PInv, Types
  <1>2. CASE Refuse(s) /\ UNCHANGED actors
    BY <1>1, <1>2, GoesOn DEF Refuse, PInv, Types
  <1>3. ASSUME NEW a \in DOMAIN actors, NEW n, actors' = [actors EXCEPT ![a].name = n], Tell(s)
        PROVE  PInv' /\ TInv' /\ Keeps
    <2>1. /\ DOMAIN actors' = DOMAIN actors
          /\ \A b \in DOMAIN actors : /\ Row(actors'[b]) /\ actors'[b].key = actors[b].key
                                      /\ actors'[b].into = actors[b].into
      BY <1>1, <1>3 DEF Table, Row
    <2>2. Keeps /\ OneRowPerKey'
      BY <1>1, <2>1, TouchedTable
    <2>3. QED
      BY <1>1, <1>3, <2>1, <2>2, TellKeeps DEF PInv, Types
  <1>4. QED
    BY <1>2, <1>3 DEF AgentRename

LEMMA AgentRetireKeeps ==
  ASSUME PInv, TInv, NEW s \in Session, AgentRetire(s)
  PROVE  PInv' /\ TInv' /\ Keeps
  <1>1. /\ at[s] = "new" /\ at[s] \in Opening /\ Table
        /\ UNCHANGED <<binds, minted, verb, fails, crossed>>
    BY DEF AgentRetire, Opening, PInv, Types
  <1>2. CASE Refuse(s) /\ UNCHANGED actors
    BY <1>1, <1>2, GoesOn DEF Refuse, PInv, Types
  <1>3. ASSUME NEW a \in DOMAIN actors, NEW r, actors' = [actors EXCEPT ![a].retired = r], Tell(s)
        PROVE  PInv' /\ TInv' /\ Keeps
    <2>1. /\ DOMAIN actors' = DOMAIN actors
          /\ \A b \in DOMAIN actors : /\ Row(actors'[b]) /\ actors'[b].key = actors[b].key
                                      /\ actors'[b].into = actors[b].into
      BY <1>1, <1>3 DEF Table, Row
    <2>2. Keeps /\ OneRowPerKey'
      BY <1>1, <2>1, TouchedTable
    <2>3. QED
      BY <1>1, <1>3, <2>1, <2>2, TellKeeps DEF PInv, Types
  <1>4. QED
    BY <1>2, <1>3 DEF AgentRetire

(* A merge reads: the survivor it will point at is one, unless merges have
   crossed before. *)
LEMMA MergeReadKeeps ==
  ASSUME PInv, TInv, NEW s \in Session, MergeRead(s)
  PROVE  PInv' /\ TInv' /\ Keeps
  <1>1. /\ at[s] = "new" /\ at[s] \in Opening /\ Table /\ DOMAIN verb = Session
        /\ UNCHANGED <<actors, binds, minted, fails, crossed>>
    BY DEF MergeRead, Opening, PInv, Types, table
  <1>2. CASE Refuse(s) /\ UNCHANGED verb
    BY <1>1, <1>2, GoesOn DEF Refuse
  <1>3. ASSUME NEW a \in DOMAIN actors, NEW b \in DOMAIN actors, Mergeable(a, b),
               verb' = [verb EXCEPT ![s] =
                  [about |-> "merge", from |-> a, into |-> Root(b),
                   seen |-> [c \in DOMAIN actors |-> actors[c].into]]],
               Go(s, "merge"), UNCHANGED <<key, pin, auto, got, fresh>>
        PROVE  PInv' /\ TInv' /\ Keeps
    <2>1. PICK r : r = Root(b) /\ r \in DOMAIN actors
      BY <1>1, RootInTable
    <2>2. PICK seen : seen = [c \in DOMAIN actors |-> actors[c].into]
      OBVIOUS
    <2>3. verb' = [verb EXCEPT ![s] = [about |-> "merge", from |-> a, into |-> r, seen |-> seen]]
      BY <1>3, <2>1, <2>2
    <2>4. /\ verb'[s].from = a /\ verb'[s].into = r /\ verb'[s].seen = seen
          /\ \A t \in Session \ {s} : verb'[t] = verb[t]
          /\ DOMAIN verb' = Session
      BY <1>1, <2>3
    <2>5. DOMAIN seen = DOMAIN actors /\ seen[a] = None /\ a # r
      BY <1>3, <2>1, <2>2 DEF Mergeable
    <2>6. Keeps /\ OneRowPerKey'
      BY <1>1, SameTable
    <2>7. at'[s] = "merge" /\ \A t \in Session \ {s} : at'[t] = at[t]
      BY <1>3 DEF Go, PInv, Types
    <2>8. \A t \in Session \ {s} : Stays(t)
      BY <1>1, <1>3, <2>4, <2>7 DEF Stays
    <2>9. Types'
      BY <1>1, <1>3, <2>4, <2>6 DEF PInv, Types, Go, Phase, Keeps
    <2>10. Person(s)'
      <3>1. Person(s) /\ binds[s] = <<>>
        BY <1>1 DEF PInv, Person
      <3>2. QED
        BY <1>1, <2>1, <2>4, <2>5, <2>7, <3>1 DEF Person
    <2>11. Short /\ ~crossed' => seen[r] = None
      BY <1>1, <2>1, <2>2, RootsAlwaysTell DEF TInv, Grows, RootsTell
    <2>12. \A c \in DOMAIN actors' \ DOMAIN actors : actors'[c].key = None
      BY <1>1
    <2>13. QED
      BY <1>1, <1>3, <2>4, <2>6, <2>7, <2>8, <2>9, <2>10, <2>11, <2>12, OpeningKeeps
  <1>4. QED
    BY <1>2, <1>3 DEF MergeRead

(* It writes: if no other merge wrote meanwhile, both rows it read are
   survivors still. *)
LEMMA MergeWriteKeeps ==
  ASSUME PInv, TInv, NEW s \in Session, MergeWrite(s)
  PROVE  PInv' /\ TInv' /\ Keeps
  <1> DEFINE f == verb[s].from  g == verb[s].into
  <1>1. /\ at[s] = "merge" /\ at[s] \in Opening /\ Table /\ Tell(s)
        /\ UNCHANGED <<binds, minted, fails>>
        /\ verb' = [verb EXCEPT ![s] = NoVerb]
        /\ crossed' = (crossed \/ \E a \in DOMAIN verb[s].seen : verb[s].seen[a] # actors[a].into)
        /\ actors' = [actors EXCEPT ![f].into = g]
    BY DEF MergeWrite, MergeInto, Opening, PInv, Types
  <1>2. /\ f \in DOMAIN verb[s].seen /\ g \in DOMAIN verb[s].seen
        /\ DOMAIN verb[s].seen \subseteq DOMAIN actors
        /\ f # g /\ verb[s].seen[f] = None
    BY <1>1 DEF PInv, Person
  <1>3. PICK x, y : x = f /\ y = g
    OBVIOUS
  <1>4. /\ DOMAIN actors' = DOMAIN actors
        /\ \A a \in DOMAIN actors : /\ Row(actors'[a]) /\ actors'[a].key = actors[a].key
                                    /\ actors'[a].into = IF a = x THEN y ELSE actors[a].into
    BY <1>1, <1>3 DEF Table, Row
  <1>5. x \in DOMAIN actors /\ y \in DOMAIN actors /\ x # y
    BY <1>2, <1>3
  <1>6. Table'
    BY <1>1, <1>4, <1>5 DEF Table, Row
  <1>7. y # None
    BY <1>1, <1>5, RegistryAssumption DEF Table, Actor
  <1>8. ASSUME Short, ~crossed'
        PROVE  Grows' /\ \A a, b \in DOMAIN actors : Roots[a] = Roots[b] => Roots'[a] = Roots'[b]
    <2>1. Grows /\ verb[s].seen[g] = None
      BY <1>1, <1>8 DEF TInv, Trail
    <2>2. actors[x].into = None /\ actors[y].into = None
      BY <1>1, <1>2, <1>3, <1>8, <2>1
    <2>3. QED
      BY <1>1, <1>4, <1>5, <1>6, <1>7, <1>8, <2>1, <2>2, MergedTogether
  <1>9. Keeps
    BY <1>1, <1>4, <1>6, <1>8 DEF Keeps
  <1>10. OneRowPerKey'
    BY <1>4 DEF PInv, OneRowPerKey
  <1>11. crossed' \in BOOLEAN /\ \A c \in DOMAIN actors' \ DOMAIN actors : actors'[c].key = None
    BY <1>1, <1>4 DEF PInv, Types
  <1>12. QED
    BY <1>1, <1>9, <1>10, <1>11, TellKeeps

-----------------------------------------------------------------------------
(* A server's first call, and the verbs about namespaces, which leave the
   table alone. *)
LEMMA ServeKeeps ==
  ASSUME PInv, TInv, NEW s \in Session, Serve(s)
  PROVE  PInv' /\ TInv' /\ Keeps
  <1>1. /\ at[s] = "new" /\ at[s] \in Opening
        /\ UNCHANGED <<actors, binds, minted, auto, got, fresh, verb, fails, crossed>>
        /\ Go(s, "resolve")
    BY DEF Serve, Opening, table
  <1>2. PICK k \in AgentKey : key' = [key EXCEPT ![s] = k]
    BY DEF Serve
  <1>3. Keeps /\ OneRowPerKey'
    BY <1>1, SameTable
  <1>4. Types'
    BY <1>1, <1>2, <1>3 DEF PInv, Types, Go, Phase, Key, Keeps
  <1>5. /\ at'[s] = "resolve" /\ key'[s] \in Key
        /\ \A t \in Session \ {s} : Stays(t)
    BY <1>1, <1>2 DEF PInv, Types, Go, Key, Stays
  <1>6. QED
    BY <1>1, <1>3, <1>4, <1>5, OpeningKeeps

LEMMA TellsAside ==
  ASSUME PInv, TInv, NEW s \in Session, at[s] \in Opening, Tell(s),
         verb' = verb \/ verb' = [verb EXCEPT ![s] = NoVerb],
         UNCHANGED <<actors, binds, minted, fails, crossed>>
  PROVE  PInv' /\ TInv' /\ Keeps
  <1>1. Keeps /\ OneRowPerKey'
    BY SameTable
  <1>2. crossed' \in BOOLEAN /\ \A c \in DOMAIN actors' \ DOMAIN actors : actors'[c].key = None
    BY DEF PInv, Types
  <1>3. QED
    BY <1>1, <1>2, TellKeeps

LEMMA RefusedAside ==
  ASSUME PInv, TInv, NEW s \in Session, at[s] \in Opening, Refuse(s),
         verb' = verb \/ verb' = [verb EXCEPT ![s] = NoVerb],
         UNCHANGED <<actors, binds, minted, fails, crossed>>
  PROVE  PInv' /\ TInv' /\ Keeps
  <1>1. DOMAIN verb' = Session /\ \A t \in Session \ {s} : verb'[t] = verb[t]
    BY DEF PInv, Types
  <1>2. Go(s, "done") /\ UNCHANGED <<key, auto, got, fresh>>
    BY DEF Refuse
  <1>3. QED
    BY <1>1, <1>2, GoesOn

LEMMA NamespaceVerbsKeep ==
  ASSUME PInv, TInv, NEW s \in Session,
         \/ NamespaceAdd(s) \/ FileEntry(s) \/ Forget(s) \/ FileLook(s) \/ RemoveLook(s)
         \/ FileWrite(s) \/ RemoveTally(s) \/ RemoveWrite(s)
  PROVE  PInv' /\ TInv' /\ Keeps
  <1>0. DOMAIN verb = Session
    BY DEF PInv, Types
  <1>1. CASE NamespaceAdd(s)
    BY <1>1, TellsAside, RefusedAside DEF NamespaceAdd, table, Opening
  <1>2. CASE FileEntry(s)
    BY <1>2, TellsAside DEF FileEntry, table, Opening
  <1>3. CASE Forget(s)
    BY <1>3, TellsAside DEF Forget, table, Opening
  <1>4. CASE FileLook(s)
    <2>1. PICK p, c : verb' = [Meets(p) EXCEPT ![s] = [about |-> c, path |-> p]]
      BY <1>4 DEF FileLook
    <2>2. DOMAIN verb' = Session
      BY <2>1 DEF Meets
    <2>3. \A t \in Session \ {s} : at[t] = "merge" => verb'[t] = verb[t]
      BY <2>1 DEF Meets, Removing
    <2>4. QED
      BY <1>4, <2>2, <2>3, GoesOn DEF FileLook, table, Opening
  <1>5. CASE RemoveLook(s)
    <2>1. at[s] \in Opening /\ UNCHANGED <<actors, binds, minted, fails, crossed>>
      BY <1>5 DEF RemoveLook, table, Opening
    <2>2. CASE Refuse(s) /\ UNCHANGED verb
      BY <2>1, <2>2, RefusedAside
    <2>3. ASSUME NEW p, verb' = [verb EXCEPT ![s] = [about |-> "remove", path |-> p, met |-> WriterIn(p)]],
                 Go(s, "tally"), UNCHANGED <<key, pin, auto, got, fresh>>
          PROVE  PInv' /\ TInv' /\ Keeps
      <3>1. DOMAIN verb' = Session /\ \A t \in Session \ {s} : verb'[t] = verb[t]
        BY <1>0, <2>3
      <3>2. QED
        BY <2>1, <2>3, <3>1, GoesOn
    <2>4. QED
      BY <1>5, <2>2, <2>3 DEF RemoveLook
  <1>6. CASE FileWrite(s)
    BY <1>6, TellsAside DEF FileWrite, table, Opening
  <1>7. CASE RemoveTally(s)
    <2>1. at[s] \in Opening /\ UNCHANGED <<actors, binds, minted, fails, crossed>>
      BY <1>7 DEF RemoveTally, table, Opening
    <2>2. CASE verb' = [verb EXCEPT ![s] = NoVerb] /\ Refuse(s)
      BY <2>1, <2>2, RefusedAside
    <2>3. CASE /\ Go(s, IF Len(left[s]) = 1 THEN "remove" ELSE "tally")
               /\ UNCHANGED <<key, pin, auto, got, fresh, verb>>
      <3>1. PICK phase \in {"tally", "remove"} : Go(s, phase)
        BY <2>3
      <3>2. QED
        BY <1>0, <2>1, <2>3, <3>1, GoesOn
    <2>4. QED
      BY <1>7, <2>2, <2>3 DEF RemoveTally
  <1>8. CASE RemoveWrite(s)
    <2>1. /\ at[s] \in Opening /\ UNCHANGED <<actors, binds, minted, fails, crossed>>
          /\ verb' = [verb EXCEPT ![s] = NoVerb]
      BY <1>8 DEF RemoveWrite, table, Opening
    <2>2. Tell(s) \/ Refuse(s)
      BY <1>8 DEF RemoveWrite
    <2>3. QED
      BY <2>1, <2>2, TellsAside, RefusedAside
  <1>9. QED
    BY <1>1, <1>2, <1>3, <1>4, <1>5, <1>6, <1>7, <1>8

-----------------------------------------------------------------------------
(* Binding. *)

(* A survivor reads as itself. *)
LEMMA SurvivorsRead ==
  ASSUME PInv, TInv, Short, ~crossed, NEW a \in DOMAIN actors
  PROVE  Roots[Root(a)] = Roots[a]
  <1>1. PICK R, rank : Forest(R, rank)
    BY DEF TInv, Grows
  <1>2. \A b \in DOMAIN actors : Root(b) = R[b] /\ actors[Root(b)].into = None
    BY <1>1, RootsAlwaysTell DEF RootsTell, PInv, Types, TInv
  <1>3. Root(a) \in DOMAIN actors
    BY RootInTable DEF PInv, Types
  <1>4. R[Root(a)] = Root(a)
    BY <1>1, <1>2, <1>3 DEF Forest
  <1>5. QED
    BY <1>2, <1>3, <1>4 DEF Roots

(* A session past its opening moves, with its own place the only one in doubt. *)
LEMMA BindingMoves ==
  ASSUME PInv, TInv, Keeps, Types', OneRowPerKey', Minting', NEW s \in Session,
         \A t \in Session \ {s} : Stays(t),
         Person(s)', Short /\ ~crossed' => Trail(s)'
  PROVE  PInv' /\ TInv' /\ Keeps
  <1>1. \A t \in Session \ {s} : Person(t)' /\ (Short /\ ~crossed' => Trail(t)')
    BY OthersStay
  <1>2. PInv'
    BY <1>1 DEF PInv
  <1>3. TInv'
    BY <1>1 DEF TInv, Keeps, Short
  <1>4. QED
    BY <1>2, <1>3

LEMMA ResolveKeeps ==
  ASSUME PInv, TInv, NEW s \in Session, Resolve(s)
  PROVE  PInv' /\ TInv' /\ Keeps
  <1>1. /\ at[s] = "resolve" /\ Table /\ Person(s) /\ key[s] \in Key
        /\ UNCHANGED <<actors, binds, minted, key, verb, fails, crossed>>
    BY DEF Resolve, table, PInv, Types, Person
  <1>2. Keeps /\ OneRowPerKey' /\ Roots' = Roots
    BY <1>1, SameTable
  <1>3. Short /\ ~crossed => Trail(s)
    BY DEF TInv
  <1>4. ASSUME NEW a \in Found(s), got' = [got EXCEPT ![s] = Root(a)],
               fresh' = [fresh EXCEPT ![s] = FALSE],
               auto' = [auto EXCEPT ![s] = pin[s] = None \/ Named(pin[s]) = {}],
               Go(s, "bind")
        PROVE  PInv' /\ TInv' /\ Keeps
    <2>1. PICK r : r = Root(a)
      OBVIOUS
    <2>2. a \in DOMAIN actors /\ r \in DOMAIN actors /\ r \in Actor
      <3>1. a \in DOMAIN actors
        BY <1>4 DEF Found, Named, Keyed
      <3>2. DOMAIN actors \subseteq Actor
        BY <1>1, RegistryAssumption DEF Table, Actor
      <3>3. QED
        BY <1>1, <2>1, <3>1, <3>2, RootInTable
    <2>3. /\ at'[s] = "bind" /\ got'[s] = r /\ ~fresh'[s]
          /\ auto'[s] = (pin[s] = None \/ Named(pin[s]) = {})
          /\ \A t \in Session \ {s} : Stays(t)
      BY <1>1, <1>4, <2>1 DEF PInv, Types, Go, Stays
    <2>4. Types'
      <3>1. got' = [got EXCEPT ![s] = r]
        BY <1>4, <2>1
      <3>2. auto' \in [Session -> BOOLEAN]
        BY <1>4 DEF PInv, Types
      <3>3. QED
        BY <1>1, <1>2, <1>4, <2>2, <3>1, <3>2 DEF PInv, Types, Go, Phase, Keeps
    <2>5. \A t \in Session : Pending(t)' <=> Pending(t)
      BY <1>1, <2>3 DEF Pending, Stays
    <2>6. \A t \in Session : Pending(t) => got'[t] = got[t]
      BY <1>1, <2>3 DEF Pending, Stays
    <2>7. Minting'
      BY <1>1, <2>5, <2>6 DEF PInv, Minting
    <2>8. Person(s)'
      BY <1>1, <2>2, <2>3 DEF Person, Opening
    <2>9. Trail(s)' \/ ~Short \/ crossed'
      <3> SUFFICES ASSUME Short, ~crossed' PROVE Trail(s)'
        OBVIOUS
      <3>1. Trail(s) /\ ~crossed
        BY <1>1, <1>3
      <3>2. \A i \in DOMAIN binds'[s] : ByKey(binds[s][i], key[s])
        BY <1>1, <3>1 DEF Trail
      <3>3. auto'[s] => ByKey(r, key[s])
        <4>1. Roots[r] = Roots[a]
          BY <2>1, <2>2, <3>1, SurvivorsRead
        <4>2. auto'[s] => actors[a].key = key[s]
          BY <1>4, <2>3 DEF Found, Keyed
        <4>3. QED
          BY <2>2, <4>1, <4>2 DEF ByKey
      <3>4. QED
        BY <1>1, <1>2, <2>3, <3>2, <3>3 DEF Trail, ByKey
    <2>10. QED
      BY <1>2, <2>3, <2>4, <2>7, <2>8, <2>9, BindingMoves
  <1>5. CASE Found(s) = {} /\ Go(s, "insert") /\ UNCHANGED <<auto, got, fresh>>
    <2>1. at'[s] = "insert" /\ \A t \in Session \ {s} : Stays(t)
      BY <1>1, <1>5 DEF PInv, Types, Go, Stays
    <2>2. Types'
      BY <1>1, <1>2, <1>5 DEF PInv, Types, Go, Phase, Keeps
    <2>3. \A t \in Session : Pending(t)' <=> Pending(t)
      BY <1>1, <2>1 DEF Pending, Stays
    <2>4. Minting'
      BY <1>1, <1>5, <2>3 DEF PInv, Minting
    <2>5. Person(s)'
      BY <1>1, <2>1 DEF Person, Opening
    <2>6. Trail(s)' \/ ~Short \/ crossed'
      BY <1>1, <1>2, <1>3, <1>5, <2>1 DEF Trail, ByKey
    <2>7. QED
      BY <1>2, <2>1, <2>2, <2>4, <2>5, <2>6, BindingMoves
  <1>6. QED
    BY <1>4, <1>5 DEF Resolve

(* The key is looked at again as the row goes in: its row is found, or is the
   one that comes. *)
LEMMA InsertKeeps ==
  ASSUME PInv, TInv, NEW s \in Session, Insert(s)
  PROVE  PInv' /\ TInv' /\ Keeps
  <1>1. /\ at[s] = "insert" /\ Table /\ Person(s) /\ key[s] \in Key
        /\ UNCHANGED <<binds, minted, key, verb, fails, crossed>>
        /\ auto' = [auto EXCEPT ![s] = TRUE] /\ Go(s, "bind")
    BY DEF Insert, PInv, Types, Person
  <1>2. Short /\ ~crossed => Trail(s)
    BY DEF TInv
  <1>3. CASE Keyed(key[s]) # {}
    <2>1. PICK a \in Keyed(key[s]) :
            /\ actors' = actors
            /\ got' = [got EXCEPT ![s] = Root(a)]
            /\ fresh' = [fresh EXCEPT ![s] = MintsIt(a)]
      BY <1>3 DEF Insert, Winner
    <2>2. Keeps /\ OneRowPerKey' /\ Roots' = Roots
      BY <1>1, <2>1, SameTable
    <2>3. PICK r : r = Root(a)
      OBVIOUS
    <2>4. /\ a \in DOMAIN actors /\ actors[a].key = key[s] /\ r \in DOMAIN actors /\ r \in Actor
          /\ MintsIt(a) = FALSE
      <3>1. a \in DOMAIN actors /\ actors[a].key = key[s]
        BY DEF Keyed
      <3>2. DOMAIN actors \subseteq Actor
        BY <1>1, RegistryAssumption DEF Table, Actor
      <3>3. MintsIt(a) = FALSE
        BY <1>1, <3>1, RowCount DEF MintsIt
      <3>4. QED
        BY <1>1, <2>3, <3>1, <3>2, <3>3, RootInTable
    <2>5. got' = [got EXCEPT ![s] = r] /\ fresh' = [fresh EXCEPT ![s] = FALSE]
      BY <2>1, <2>3, <2>4
    <2>6. /\ at'[s] = "bind" /\ got'[s] = r /\ ~fresh'[s] /\ auto'[s]
          /\ \A t \in Session \ {s} : Stays(t)
      BY <1>1, <2>5 DEF PInv, Types, Go, Stays
    <2>7. Types'
      BY <1>1, <2>2, <2>4, <2>5 DEF PInv, Types, Go, Phase, Keeps
    <2>8. \A t \in Session : (Pending(t)' <=> Pending(t)) /\ (Pending(t) => got'[t] = got[t])
      BY <1>1, <2>6 DEF Pending, Stays
    <2>9. Minting'
      BY <1>1, <2>1, <2>8 DEF PInv, Minting
    <2>10. Person(s)'
      BY <1>1, <2>1, <2>4, <2>6 DEF Person, Opening
    <2>11. Trail(s)' \/ ~Short \/ crossed'
      <3> SUFFICES ASSUME Short, ~crossed' PROVE Trail(s)'
        OBVIOUS
      <3>1. Trail(s) /\ ~crossed
        BY <1>1, <1>2
      <3>2. \A i \in DOMAIN binds'[s] : ByKey(binds[s][i], key[s])
        BY <1>1, <3>1 DEF Trail
      <3>3. ByKey(r, key[s])
        <4>1. Roots[r] = Roots[a]
          BY <2>3, <2>4, <3>1, SurvivorsRead
        <4>2. QED
          BY <2>4, <4>1 DEF ByKey
      <3>4. QED
        BY <1>1, <2>1, <2>2, <2>6, <3>2, <3>3 DEF Trail, ByKey
    <2>12. QED
      BY <2>2, <2>6, <2>7, <2>9, <2>10, <2>11, BindingMoves
  <1>4. CASE Keyed(key[s]) = {}
    <2>1. PICK id : id = Cardinality(DOMAIN actors) + 1
      OBVIOUS
    <2>2. /\ Roomy /\ actors' = Minted(FreeName(key[s]), key[s])
          /\ got' = [got EXCEPT ![s] = id]
          /\ fresh' = [fresh EXCEPT ![s] = TRUE]
      BY <1>4, <2>1 DEF Insert, Winner, MintsIt
    <2>3. PICK n : n = FreeName(key[s])
      OBVIOUS
    <2>4. /\ id \in Actor /\ id \notin DOMAIN actors
          /\ DOMAIN actors' = DOMAIN actors \cup {id}
          /\ actors'[id].key = key[s] /\ actors'[id].into = None
          /\ \A a \in DOMAIN actors : actors'[a] = actors[a]
          /\ Table'
      BY <1>1, <2>1, <2>2, <2>3, MintedTable
    <2>5. Keeps /\ OneRowPerKey'
      BY <1>1, <1>4, <2>4, TableGrows
    <2>6. /\ at'[s] = "bind" /\ got'[s] = id /\ fresh'[s] /\ auto'[s]
          /\ \A t \in Session \ {s} : Stays(t)
      BY <1>1, <2>2 DEF PInv, Types, Go, Stays
    <2>7. Types'
      BY <1>1, <2>2, <2>4, <2>5 DEF PInv, Types, Go, Phase, Keeps
    <2>8. /\ Pending(s)' /\ ~Pending(s)
          /\ \A t \in Session \ {s} : (Pending(t)' <=> Pending(t)) /\ got'[t] = got[t]
      BY <1>1, <2>6 DEF Pending, Stays
    <2>9. \A t \in Session : Pending(t) => got[t] \in DOMAIN actors
      BY DEF Pending, PInv, Person
    <2>10. minted[id] = 0
      BY <2>4 DEF PInv, Minting
    <2>11. Minting'
      <3>1. \A t, u \in Session : Pending(t)' /\ Pending(u)' /\ got'[t] = got'[u]
                                    => t = u \/ fails > 0
        <4> SUFFICES ASSUME NEW t \in Session, NEW u \in Session, Pending(t)', Pending(u)',
                            got'[t] = got'[u], t # u, ~(fails > 0)
                     PROVE  FALSE
          OBVIOUS
        <4>1. CASE t = s
          BY <2>4, <2>6, <2>8, <2>9, <4>1
        <4>2. CASE u = s
          BY <2>4, <2>6, <2>8, <2>9, <4>2
        <4>3. CASE t # s /\ u # s
          BY <2>8, <4>3 DEF PInv, Minting
        <4>4. QED
          BY <4>1, <4>2, <4>3
      <3>2. \A t \in Session : Pending(t)' => minted[got'[t]] = 0 \/ fails > 0
        BY <2>6, <2>8, <2>10 DEF PInv, Minting
      <3>3. \A a \in DOMAIN actors' :
              \/ actors'[a].key = None \/ minted[a] = 1 \/ fails > 0
              \/ \E t \in Session : Pending(t)' /\ got'[t] = a
        <4> SUFFICES ASSUME NEW a \in DOMAIN actors', actors'[a].key # None, minted[a] # 1,
                            ~(fails > 0)
                     PROVE  \E t \in Session : Pending(t)' /\ got'[t] = a
          OBVIOUS
        <4>1. CASE a = id
          BY <2>6, <2>8, <4>1
        <4>2. CASE a # id
          <5>1. PICK t \in Session : Pending(t) /\ got[t] = a
            BY <2>4, <4>2 DEF PInv, Minting
          <5>2. QED
            BY <2>8, <5>1
        <4>3. QED
          BY <4>1, <4>2
      <3>4. \A a \in Actor \ DOMAIN actors' : minted[a] = 0
        BY <2>4 DEF PInv, Minting
      <3>5. QED
        BY <1>1, <3>1, <3>2, <3>3, <3>4 DEF Minting
    <2>12. Person(s)'
      BY <1>1, <2>4, <2>6 DEF Person, Opening
    <2>13. Trail(s)' \/ ~Short \/ crossed'
      <3> SUFFICES ASSUME Short, ~crossed' PROVE Trail(s)'
        OBVIOUS
      <3>1. binds[s] = binds'[s] /\ \A i \in DOMAIN binds[s] : binds[s][i] \in DOMAIN actors
        BY <1>1 DEF Person
      <3>2. \A i \in DOMAIN binds[s] :
              ~\E b \in DOMAIN actors : actors[b].key = key[s] /\ Roots[binds[s][i]] = Roots[b]
        BY <1>4 DEF Keyed
      <3>3. \A i \in DOMAIN binds[s] :
              \E b \in DOMAIN actors : actors[b].key = key[s] /\ Roots[binds[s][i]] = Roots[b]
        BY <1>1, <1>2 DEF Trail, ByKey
      <3>4. QED
        BY <1>1, <2>4, <2>6, <3>1, <3>2, <3>3 DEF Trail, ByKey
    <2>14. QED
      BY <2>5, <2>6, <2>7, <2>11, <2>12, <2>13, BindingMoves
  <1>5. QED
    BY <1>3, <1>4

LEMMA BindKeeps ==
  ASSUME PInv, TInv, NEW s \in Session, Bind(s)
  PROVE  PInv' /\ TInv' /\ Keeps
  <1>1. /\ at[s] = "bind" /\ Table /\ Person(s) /\ key[s] \in Key /\ got[s] \in DOMAIN actors
        /\ UNCHANGED <<actors, minted, key, auto, got, fresh, verb, fails, crossed>>
        /\ binds' = [binds EXCEPT ![s] = Append(binds[s], got[s])]
        /\ Go(s, IF fresh[s] THEN "mint" ELSE "done")
        /\ binds[s] \in Seq(Actor) /\ DOMAIN actors \subseteq Actor
    BY RowsAreActors DEF Bind, PInv, Types, Person
  <1>2. PICK q : q = Append(binds[s], got[s])
    OBVIOUS
  <1>3. /\ q \in Seq(Actor) /\ \A i \in DOMAIN q : q[i] = got[s] \/ (i \in DOMAIN binds[s] /\ q[i] = binds[s][i])
    BY <1>1, <1>2
  <1>4. /\ binds'[s] = q /\ at'[s] = (IF fresh[s] THEN "mint" ELSE "done")
        /\ \A t \in Session \ {s} : Stays(t)
    BY <1>1, <1>2 DEF PInv, Types, Go, Stays
  <1>5. Keeps /\ OneRowPerKey' /\ Roots' = Roots
    BY <1>1, SameTable
  <1>6. Types'
    <2>1. at' \in [Session -> Phase]
      BY <1>1 DEF PInv, Types, Go, Phase
    <2>2. binds' \in [Session -> Seq(Actor)]
      BY <1>1, <1>2, <1>3 DEF PInv, Types
    <2>3. QED
      BY <1>1, <1>5, <2>1, <2>2 DEF PInv, Types, Keeps
  <1>7. \A t \in Session : Pending(t)' <=> Pending(t)
    BY <1>1, <1>4 DEF Pending, Stays
  <1>8. Minting'
    BY <1>1, <1>7 DEF PInv, Minting
  <1>9. Person(s)'
    BY <1>1, <1>3, <1>4 DEF Person, Opening
  <1>10. Trail(s)' \/ ~Short \/ crossed'
    <2> SUFFICES ASSUME Short, ~crossed' PROVE Trail(s)'
      OBVIOUS
    <2>1. Trail(s)
      BY <1>1 DEF TInv
    <2>2. ASSUME at'[s] # "done" \/ auto[s], NEW i \in DOMAIN q PROVE ByKey(q[i], key[s])
      <3>1. auto[s]
        BY <1>1, <1>4, <2>2 DEF Person
      <3>2. QED
        BY <1>1, <1>3, <2>1, <3>1 DEF Trail
    <2>3. QED
      BY <1>1, <1>4, <1>5, <2>2 DEF Trail, ByKey
  <1>11. QED
    BY <1>4, <1>5, <1>6, <1>8, <1>9, <1>10, BindingMoves

LEMMA MintKeeps ==
  ASSUME PInv, TInv, NEW s \in Session, Mint(s)
  PROVE  PInv' /\ TInv' /\ Keeps
  <1>1. /\ at[s] = "mint" /\ Table /\ Person(s) /\ got[s] \in DOMAIN actors /\ got[s] \in Actor
        /\ UNCHANGED <<actors, binds, key, auto, got, fresh, verb, fails, crossed>>
        /\ minted' = [minted EXCEPT ![got[s]] = @ + 1]
        /\ Go(s, "done") /\ fresh[s]
    BY RowsAreActors DEF Mint, PInv, Types, Person
  <1>2. /\ at'[s] = "done" /\ \A t \in Session \ {s} : Stays(t)
        /\ minted'[got[s]] = minted[got[s]] + 1
        /\ \A a \in Actor \ {got[s]} : minted'[a] = minted[a]
    BY <1>1 DEF PInv, Types, Go, Stays
  <1>3. Keeps /\ OneRowPerKey' /\ Roots' = Roots
    BY <1>1, SameTable
  <1>4. Types'
    BY <1>1, <1>3 DEF PInv, Types, Go, Phase, Keeps
  <1>5. /\ Pending(s) /\ ~Pending(s)' /\ got' = got /\ fails' = fails
        /\ \A t \in Session \ {s} : Pending(t)' <=> Pending(t)
    BY <1>1, <1>2 DEF Pending, Stays
  <1>6. Minting'
    <2>1. \A t \in Session : Pending(t)' => got[t] # got[s] \/ fails > 0
      BY <1>5 DEF PInv, Minting
    <2>2. minted[got[s]] = 0 \/ fails > 0
      BY <1>5 DEF PInv, Minting
    <2>3. \A t \in Session : Pending(t)' => minted'[got[t]] = 0 \/ fails > 0
      <3> SUFFICES ASSUME NEW t \in Session, Pending(t)', ~(fails > 0) PROVE minted'[got[t]] = 0
        OBVIOUS
      <3>1. Pending(t) /\ got[t] # got[s] /\ got[t] \in DOMAIN actors
        BY <1>5, <2>1 DEF Pending, PInv, Person
      <3>2. got[t] \in Actor /\ minted[got[t]] = 0
        BY <1>1, <3>1, RegistryAssumption DEF PInv, Minting, Table, Actor
      <3>3. QED
        BY <1>2, <3>1, <3>2
    <2>4. \A a \in DOMAIN actors :
            \/ actors[a].key = None \/ minted'[a] = 1 \/ fails > 0
            \/ \E t \in Session : Pending(t)' /\ got[t] = a
      <3> SUFFICES ASSUME NEW a \in DOMAIN actors, actors[a].key # None, minted'[a] # 1,
                          ~(fails > 0)
                   PROVE  \E t \in Session : Pending(t)' /\ got[t] = a
        OBVIOUS
      <3>1. a # got[s] /\ minted'[a] = minted[a]
        BY <1>1, <1>2, <2>2, RegistryAssumption DEF Table, Actor
      <3>2. PICK t \in Session : Pending(t) /\ got[t] = a
        BY <3>1 DEF PInv, Minting
      <3>3. QED
        BY <1>5, <3>1, <3>2
    <2>5. \A a \in Actor \ DOMAIN actors : minted'[a] = 0
      BY <1>1, <1>2 DEF PInv, Minting
    <2>6. \A t, u \in Session : Pending(t)' /\ Pending(u)' /\ got[t] = got[u] => t = u \/ fails > 0
      BY <1>5 DEF PInv, Minting
    <2>7. QED
      BY <1>1, <1>5, <2>3, <2>4, <2>5, <2>6 DEF Minting
  <1>7. Person(s)'
    BY <1>1, <1>2 DEF Person, Opening
  <1>8. Trail(s)' \/ ~Short \/ crossed'
    BY <1>1, <1>2, <1>3 DEF Trail, ByKey, TInv
  <1>9. QED
    BY <1>2, <1>3, <1>4, <1>6, <1>7, <1>8, BindingMoves

LEMMA AppendFailsKeeps ==
  ASSUME PInv, TInv, NEW s \in Session, AppendFails(s)
  PROVE  PInv' /\ TInv' /\ Keeps
  <1>1. /\ at[s] \in {"bind", "mint"} /\ Table /\ Person(s) /\ key[s] \in Key
        /\ UNCHANGED <<actors, binds, minted, key, auto, got, fresh, verb, crossed>>
        /\ fails' = fails + 1 /\ fails \in Nat
        /\ Go(s, IF key[s] \in AgentKey THEN "resolve" ELSE "done")
    BY DEF AppendFails, table, housing, PInv, Types, Person
  <1>2. /\ at'[s] \in {"resolve", "done"} /\ \A t \in Session \ {s} : Stays(t)
        /\ fails' > 0 /\ fails' \in Nat
    BY <1>1 DEF PInv, Types, Go, Stays
  <1>3. Keeps /\ OneRowPerKey' /\ Roots' = Roots
    BY <1>1, SameTable
  <1>4. Types'
    BY <1>1, <1>2, <1>3 DEF PInv, Types, Go, Phase, Keeps
  <1>5. Minting'
    BY <1>1, <1>2 DEF PInv, Minting
  <1>6. Person(s)'
    BY <1>1, <1>2 DEF Person, Opening
  <1>7. Trail(s)' \/ ~Short \/ crossed'
    BY <1>1, <1>2, <1>3 DEF Trail, ByKey, TInv
  <1>8. QED
    BY <1>2, <1>3, <1>4, <1>5, <1>6, <1>7, BindingMoves

-----------------------------------------------------------------------------
(* The library as earlier sessions left it. *)
LEMMA InitPeople ==
  ASSUME Init
  PROVE  PInv /\ TInv
  <1> DEFINE n == Len(Known)
  <1>1. /\ n \in 0 .. MaxActors /\ MaxActors \in Nat /\ DOMAIN Known = 1 .. n
        /\ \A a \in 1 .. n : Known[a] \in Key /\ Known[a] # None
        /\ \A a, b \in 1 .. n : Known[a] = Known[b] => a = b
        /\ \A s \in DOMAIN Past : Past[s] \in 1 .. n /\ s \in Session
    BY RegistryAssumption DEF Key
  <1> HIDE DEF n
  <1>2. /\ DOMAIN actors = 1 .. n
        /\ \A a \in 1 .. n : /\ Row(actors[a]) /\ actors[a].key = Known[a]
                             /\ actors[a].into = None
    BY <1>1 DEF Init, Earlier, NewActor, Row
  <1>3. Table
    BY <1>1, <1>2 DEF Table, Row
  <1>4. Types
    <2>1. at \in [Session -> Phase]
      BY DEF Init, Phase
    <2>2. key \in [Session -> Key \cup {None}]
      BY <1>1 DEF Init
    <2>0. auto \in [Session -> BOOLEAN]
      <3>1. auto = [s \in Session |-> s \in DOMAIN Past]
        BY DEF Init
      <3>2. \A s \in Session : (s \in DOMAIN Past) \in BOOLEAN
        OBVIOUS
      <3>3. QED
        BY <3>1, <3>2, Zenon
    <2>3. /\ fresh \in [Session -> BOOLEAN]
          /\ DOMAIN verb = Session /\ fails \in Nat /\ crossed \in BOOLEAN
          /\ minted \in [Actor -> Nat]
      BY DEF Init
    <2>4. got \in [Session -> Actor \cup {None}]
      BY <1>1 DEF Init, Actor
    <2>5. binds \in [Session -> Seq(Actor)]
      <3>1. \A s \in DOMAIN Past : Past[s] \in Actor
        BY <1>1 DEF Actor
      <3>2. \A x \in Actor : <<x>> \in Seq(Actor)
        OBVIOUS
      <3>3. <<>> \in Seq(Actor)
        OBVIOUS
      <3>4. QED
        BY <3>1, <3>2, <3>3 DEF Init
    <2>6. QED
      BY <1>3, <2>0, <2>1, <2>2, <2>3, <2>4, <2>5 DEF Types
  <1>5. OneRowPerKey
    BY <1>1, <1>2 DEF OneRowPerKey
  <1>6. ASSUME NEW s \in Session
        PROVE  /\ at[s] = (IF s \in DOMAIN Past THEN "done" ELSE "new")
               /\ binds[s] = (IF s \in DOMAIN Past THEN <<Past[s]>> ELSE <<>>)
               /\ key[s] = (IF s \in DOMAIN Past THEN Known[Past[s]] ELSE None)
    BY DEF Init
  <1>7. Minting
    <2>1. \A s \in Session : ~Pending(s)
      BY <1>6 DEF Pending
    <2>2. \A a \in Actor : minted[a] = IF a \in 1 .. n THEN 1 ELSE 0
      BY <1>1 DEF Init
    <2>3. \A a \in 1 .. n : a \in Actor
      BY <1>1 DEF Actor
    <2>4. QED
      BY <1>2, <2>1, <2>2, <2>3 DEF Minting
  <1>12. ASSUME NEW s \in Session
         PROVE  /\ s \in DOMAIN Past => \A i \in DOMAIN binds[s] : binds[s][i] = Past[s]
                /\ s \notin DOMAIN Past => DOMAIN binds[s] = {}
    <2>1. \A x : DOMAIN <<x>> = {1} /\ <<x>>[1] = x
      OBVIOUS
    <2>2. s \in DOMAIN Past => \A i \in DOMAIN binds[s] : binds[s][i] = Past[s]
      BY <1>6, <2>1
    <2>0. DOMAIN <<>> = {}
      OBVIOUS
    <2>3. s \notin DOMAIN Past => DOMAIN binds[s] = {}
      BY <1>6, <2>0
    <2>4. QED
      BY <2>2, <2>3
  <1>8. ASSUME NEW s \in Session PROVE Person(s)
    <2>1. CASE s \in DOMAIN Past
      BY <1>1, <1>2, <1>6, <1>12, <2>1 DEF Person, Opening
    <2>2. CASE s \notin DOMAIN Past
      BY <1>6, <1>12, <2>2 DEF Person, Opening
    <2>3. QED
      BY <2>1, <2>2
  <1>9. Grows
    <2>1. Gone = {}
      BY <1>2 DEF Gone
    <2>2. PICK R : R = [a \in DOMAIN actors |-> a]
      OBVIOUS
    <2>3. PICK rank : rank = [a \in DOMAIN actors |-> 0]
      OBVIOUS
    <2>4. Cardinality(Gone) = 0
      BY <2>1, FS_EmptySet
    <2>5. Forest(R, rank)
      BY <1>2, <2>2, <2>3, <2>4 DEF Forest
    <2>6. QED
      BY <2>1, <2>5 DEF Grows
  <1>10. ASSUME NEW s \in Session PROVE Trail(s)
    <2>1. CASE s \in DOMAIN Past
      <3>1. Past[s] \in DOMAIN actors /\ actors[Past[s]].key = key[s]
        BY <1>1, <1>2, <1>6, <2>1
      <3>2. QED
        BY <1>6, <1>12, <2>1, <3>1 DEF Trail, ByKey
    <2>2. CASE s \notin DOMAIN Past
      BY <1>6, <1>12, <2>2 DEF Trail
    <2>3. QED
      BY <2>1, <2>2
  <1>11. QED
    BY <1>4, <1>5, <1>7, <1>8, <1>9, <1>10 DEF PInv, TInv

LEMMA StepKeepsPeople ==
  ASSUME PInv, TInv, [Next]_vars
  PROVE  PInv' /\ TInv' /\ Keeps
  <1>1. ASSUME NEW s \in Session, Serve(s) PROVE PInv' /\ TInv' /\ Keeps
    BY <1>1, ServeKeeps
  <1>2. ASSUME NEW s \in Session, Call(s) PROVE PInv' /\ TInv' /\ Keeps
    BY <1>2, AgentAddKeeps, AgentRenameKeeps, AgentRetireKeeps, MergeReadKeeps,
       NamespaceVerbsKeep DEF Call
  <1>3. ASSUME NEW s \in Session,
               \/ MergeWrite(s) \/ FileWrite(s) \/ RemoveTally(s) \/ RemoveWrite(s)
               \/ Resolve(s) \/ Insert(s) \/ Bind(s) \/ Mint(s) \/ AppendFails(s)
        PROVE  PInv' /\ TInv' /\ Keeps
    BY <1>3, MergeWriteKeeps, NamespaceVerbsKeep, ResolveKeeps, InsertKeeps, BindKeeps,
       MintKeeps, AppendFailsKeeps
  <1>4. CASE UNCHANGED vars
    <2>1. UNCHANGED <<actors, binds, minted, at, key, auto, got, fresh, verb, fails, crossed>>
      BY <1>4 DEF vars, table, who
    <2>2. Keeps /\ OneRowPerKey' /\ Roots' = Roots
      BY <2>1, SameTable
    <2>3. Types'
      BY <2>1, <2>2 DEF PInv, Types, Keeps
    <2>4. \A s \in Session : Stays(s) /\ (Pending(s)' <=> Pending(s))
      BY <2>1 DEF Stays, Pending
    <2>5. Minting'
      BY <2>1, <2>4 DEF PInv, Minting
    <2>6. \A s \in Session : Person(s)' /\ (Short /\ ~crossed' => Trail(s)')
      BY <2>2, <2>4, OthersStay
    <2>7. QED
      BY <2>2, <2>3, <2>5, <2>6 DEF PInv, TInv, Keeps, Short
  <1>5. Server \subseteq Session /\ Human \subseteq Session
    BY RegistryAssumption
  <1>6. QED
    BY <1>1, <1>2, <1>3, <1>4, <1>5 DEF Next

-----------------------------------------------------------------------------
(* The inductive invariant of the registry of actors. *)
THEOREM Invariance == Spec => [](PInv /\ TInv)
  <1>1. Init => PInv /\ TInv
    BY InitPeople
  <1>2. PInv /\ TInv /\ [Next]_vars => (PInv /\ TInv)'
    BY StepKeepsPeople
  <1>3. QED
    BY <1>1, <1>2, PTL DEF Spec

(* Every actor with a key is told once in the ledger, or is about to be, or an
   append failed. *)
THEOREM MintsAreToldHolds == Spec => []MintsAreTold
  <1>1. PInv => MintsAreTold
    BY DEF PInv, Minting, Pending, MintsAreTold, Types
  <1>2. QED
    BY <1>1, Invariance, PTL

(* While the registry holds no more actors than a read follows merges, every
   actor reads as one that survives, unless merges overlapped. *)
THEOREM ChainsEndHolds ==
  ASSUME MaxActors <= Hops + 1
  PROVE  Spec => []ChainsEnd
  <1>1. PInv /\ TInv => ChainsEnd
    <2> SUFFICES ASSUME PInv, TInv, ~crossed PROVE ChainsEnd
      BY DEF ChainsEnd
    <2>1. Short /\ Table /\ Grows
      BY DEF Short, PInv, Types, TInv
    <2>2. QED
      BY <2>1, RootsAlwaysTell DEF RootsTell, Grows, ChainsEnd
  <1>2. QED
    BY <1>1, Invariance, PTL

(* And every session a client opened reads as one actor. *)
THEOREM OneKeyOneTrailHolds ==
  ASSUME MaxActors <= Hops + 1
  PROVE  Spec => []OneKeyOneTrail
  <1>1. ASSUME PInv, TInv, ~crossed, NEW k \in Key
        PROVE  Cardinality(UNION {{Root(binds[s][i]) : i \in DOMAIN binds[s]} :
                 s \in {t \in Session : auto[t] /\ key[t] = k}}) <= 1
    <2> DEFINE S == UNION {{Root(binds[s][i]) : i \in DOMAIN binds[s]} :
                      s \in {t \in Session : auto[t] /\ key[t] = k}}
    <2>1. k # None
      BY RegistryAssumption
    <2>2. ASSUME NEW x \in S
          PROVE  \E b \in DOMAIN actors : actors[b].key = k /\ x = Roots[b]
      <3>1. PICK s \in Session : /\ auto[s] /\ key[s] = k
                                 /\ \E i \in DOMAIN binds[s] : x = Root(binds[s][i])
        OBVIOUS
      <3>2. PICK i \in DOMAIN binds[s] : x = Root(binds[s][i])
        BY <3>1
      <3>3. binds[s][i] \in DOMAIN actors
        BY <1>1, <3>2 DEF PInv, Person
      <3>4. x = Roots[binds[s][i]]
        BY <3>2, <3>3 DEF Roots
      <3>5. Trail(s)
        BY <1>1 DEF TInv, Short
      <3>6. ByKey(binds[s][i], k)
        BY <3>1, <3>2, <3>5 DEF Trail
      <3>7. QED
        BY <3>4, <3>6 DEF ByKey
    <2>3. \A x, y \in S : x = y
      BY <1>1, <2>1, <2>2 DEF PInv, OneRowPerKey
    <2> HIDE DEF S
    <2>4. Cardinality(S) <= 1
      <3>1. CASE S = {}
        BY <3>1, FS_EmptySet
      <3>2. CASE S # {}
        <4>1. PICK x : S = {x}
          BY <2>3, <3>2
        <4>2. QED
          BY <4>1, FS_Singleton
      <3>3. QED
        BY <3>1, <3>2
    <2>5. QED
      BY <2>4 DEF S
  <1>2. PInv /\ TInv => OneKeyOneTrail
    BY <1>1 DEF OneKeyOneTrail
  <1>3. QED
    BY <1>2, Invariance, PTL

(* What the ledger says of a client's actor is one story. *)
THEOREM OneStoryHolds ==
  ASSUME MaxActors <= Hops + 1
  PROVE  Spec => []ActorsAreOneStory
  <1>1. OneKeyOneTrail /\ MintsAreTold => ActorsAreOneStory
    BY DEF ActorsAreOneStory
  <1>2. QED
    BY <1>1, OneKeyOneTrailHolds, MintsAreToldHolds, PTL

-----------------------------------------------------------------------------
(* What two sessions' trails read as. *)
LEMMA WhoIsTogether ==
  ASSUME NEW x
  PROVE  x \in Together <=>
           \E s, t \in Session : /\ binds[s] # <<>> /\ binds[t] # <<>>
                                 /\ Reads(s) = Reads(t) /\ x = {s, t}
  <1> DEFINE trail == {<<s, Reads(s)>> : s \in {t \in Session : binds[t] # <<>>}}
             pairs == {w \in trail \X trail : w[1][2] = w[2][2]}
  <1>1. Together = {{w[1][1], w[2][1]} : w \in pairs}
    BY DEF Together
  <1>2. ASSUME NEW s \in Session, NEW t \in Session, binds[s] # <<>>, binds[t] # <<>>,
               Reads(s) = Reads(t)
        PROVE  {s, t} \in Together
    <2>1. <<s, Reads(s)>> \in trail /\ <<t, Reads(t)>> \in trail
      BY <1>2
    <2>2. PICK w \in pairs : w = <<<<s, Reads(s)>>, <<t, Reads(t)>>>>
      BY <1>2, <2>1
    <2>3. w[1][1] = s /\ w[2][1] = t
      BY <2>2
    <2>4. QED
      BY <1>1, <2>3
  <1>3. ASSUME x \in Together
        PROVE  \E s, t \in Session : /\ binds[s] # <<>> /\ binds[t] # <<>>
                                     /\ Reads(s) = Reads(t) /\ x = {s, t}
    <2>1. PICK w \in pairs : x = {w[1][1], w[2][1]}
      BY <1>1, <1>3
    <2>2. w[1] \in trail /\ w[2] \in trail /\ w[1][2] = w[2][2]
      OBVIOUS
    <2>3. PICK s \in Session : binds[s] # <<>> /\ w[1] = <<s, Reads(s)>>
      BY <2>2
    <2>4. PICK t \in Session : binds[t] # <<>> /\ w[2] = <<t, Reads(t)>>
      BY <2>2
    <2>5. QED
      BY <2>1, <2>2, <2>3, <2>4
  <1>4. QED
    BY <1>2, <1>3

LEMMA TogetherTells ==
  /\ \A x : x \in Together <=>
       \E s, t \in Session : /\ binds[s] # <<>> /\ binds[t] # <<>>
                             /\ Reads(s) = Reads(t) /\ x = {s, t}
  /\ (\A x : x \in Together <=>
       \E s, t \in Session : /\ binds[s] # <<>> /\ binds[t] # <<>>
                             /\ Reads(s) = Reads(t) /\ x = {s, t})'
  <1>1. \A x : x \in Together <=>
       \E s, t \in Session : /\ binds[s] # <<>> /\ binds[t] # <<>>
                             /\ Reads(s) = Reads(t) /\ x = {s, t}
    BY WhoIsTogether
  <1>2. QED
    BY <1>1, PTL

(* A session's first bind is never taken back. *)
LEMMA FirstBindStays ==
  ASSUME PInv, [Next]_vars, NEW s \in Session, binds[s] # <<>>
  PROVE  binds'[s] # <<>> /\ binds'[s][1] = binds[s][1]
  <1>1. CASE binds' = binds
    BY <1>1
  <1>2. ASSUME NEW t \in Session, Bind(t)
        PROVE  binds'[s] # <<>> /\ binds'[s][1] = binds[s][1]
    <2>1. binds' = [binds EXCEPT ![t] = Append(binds[t], got[t])] /\ got[t] \in Actor
      BY <1>2, RowsAreActors DEF Bind, PInv, Types, Person
    <2>2. CASE t = s
      <3>1. binds'[s] = Append(binds[s], got[s]) /\ binds[s] \in Seq(Actor)
        BY <2>1, <2>2 DEF PInv, Types
      <3>2. QED
        BY <2>1, <2>2, <3>1
    <2>3. CASE t # s
      BY <2>1, <2>3 DEF PInv, Types
    <2>4. QED
      BY <2>2, <2>3
  <1>3. QED
    BY <1>1, <1>2 DEF Next, Serve, Call, AgentAdd, AgentRename, AgentRetire, MergeRead,
       NamespaceAdd, FileEntry, Forget, FileLook, RemoveLook, MergeWrite, FileWrite,
       RemoveTally, RemoveWrite, Resolve, Insert, Mint, AppendFails, table, vars

(* Two trails that read as one never come apart, unless merges overlapped. *)
THEOREM NeverApartHolds ==
  ASSUME MaxActors <= Hops + 1
  PROVE  Spec => TrailsNeverComeApart
  <1>1. ASSUME PInv, TInv, [Next]_vars, ~crossed'
        PROVE  Together \subseteq Together'
    <2> SUFFICES ASSUME NEW x \in Together PROVE x \in Together'
      OBVIOUS
    <2>1. PICK s \in Session, t \in Session :
            binds[s] # <<>> /\ binds[t] # <<>> /\ Reads(s) = Reads(t) /\ x = {s, t}
      BY TogetherTells
    <2>2. Keeps
      BY <1>1, StepKeepsPeople
    <2>3. PICK a, b : a = binds[s][1] /\ b = binds[t][1]
      OBVIOUS
    <2>4. a \in DOMAIN actors /\ b \in DOMAIN actors
      <3>1. \A u \in Session : binds[u] # <<>> => 1 \in DOMAIN binds[u]
        BY <1>1 DEF PInv, Types
      <3>2. QED
        BY <1>1, <2>1, <2>3, <3>1 DEF PInv, Person
    <2>5. Roots[a] = Roots[b]
      BY <2>1, <2>3, <2>4 DEF Reads, Roots
    <2>6. Roots'[a] = Roots'[b] /\ a \in DOMAIN actors' /\ b \in DOMAIN actors'
      BY <1>1, <2>2, <2>4, <2>5 DEF Keeps, Short
    <2>7. /\ binds'[s] # <<>> /\ binds'[s][1] = a
          /\ binds'[t] # <<>> /\ binds'[t][1] = b
      BY <1>1, <2>1, <2>3, FirstBindStays
    <2>8. Reads(s)' = Roots'[a] /\ Reads(t)' = Roots'[b]
      BY <2>6, <2>7 DEF Reads, Roots
    <2>9. QED
      BY <2>1, <2>6, <2>7, <2>8, TogetherTells
  <1>2. PInv /\ TInv /\ [Next]_vars => [~crossed' => Together \subseteq Together']_table
    BY <1>1
  <1>3. QED
    BY <1>2, Invariance, PTL DEF Spec, TrailsNeverComeApart

-----------------------------------------------------------------------------
(* The housing of rows.  What is filed is registered, or was removed while a  *)
(* writer was at work in it; a writer at work has looked at such a namespace; *)
(* and a removal has found every file it has counted empty of its namespace,  *)
(* and has met every writer that is at work there.                            *)
Apart == Section \ {"entries"}

HTypes ==
  /\ at \in [Session -> Phase] /\ DOMAIN verb = Session /\ DOMAIN left = Session
  /\ filed \in [Section -> SUBSET Path] /\ registered \subseteq Path

Homes ==
  /\ filed["entries"] \subseteq registered
  /\ \A c \in Apart : filed[c] \subseteq registered \cup unsettled

Counts(seq) == {c \in Apart : \A i \in DOMAIN seq : seq[i] # c}

Writer(s) ==
  at[s] = "filing" =>
    /\ verb[s].about \in Apart /\ verb[s].path \in Path
    /\ verb[s].path \in registered \cup unsettled

Remover(s) ==
  at[s] \in {"tally", "remove"} =>
    /\ verb[s] \in [about : {"remove"}, path : Path, met : BOOLEAN]
    /\ left[s] \in Seq(Apart) /\ (at[s] = "remove" <=> left[s] = <<>>)
    /\ WriterIn(verb[s].path) => verb[s].met
    /\ \A c \in Counts(left[s]) : verb[s].path \in filed[c] => verb[s].met

HInv == HTypes /\ Homes /\ \A s \in Session : Writer(s) /\ Remover(s)

HPhase == {"filing", "tally", "remove"}

(* A step of a session that is neither at a file nor at a removal after it:
   what it files on another section's file is what a writer was at work on. *)
LEMMA HousingLeft ==
  ASSUME HInv, NEW s \in Session, NEW ph \in Phase \ HPhase,
         at' = [at EXCEPT ![s] = ph],
         \A t \in Session \ {s} : verb'[t] = verb[t] /\ left'[t] = left[t],
         \A p \in registered \cup unsettled : WriterIn(p) => p \in registered' \cup unsettled',
         \A c \in Apart : \A p \in filed'[c] : p \in filed[c] \/ WriterIn(p),
         HTypes', Homes'
  PROVE  HInv'
  <1>2. ASSUME NEW t \in Session, at'[t] \in HPhase
        PROVE  at'[t] = at[t] /\ verb'[t] = verb[t] /\ left'[t] = left[t]
    BY <1>2 DEF HInv, HTypes
  <1>3. ASSUME NEW p, WriterIn(p)' PROVE WriterIn(p)
    BY <1>2, <1>3 DEF WriterIn, HPhase
  <1>4. ASSUME NEW t \in Session PROVE Writer(t)'
    <2> SUFFICES ASSUME at'[t] = "filing" PROVE Writer(t)'
      BY DEF Writer
    <2>1. at[t] = "filing" /\ verb'[t] = verb[t] /\ Writer(t) /\ WriterIn(verb[t].path)
      BY <1>2 DEF HPhase, HInv, WriterIn
    <2>2. QED
      BY <2>1 DEF Writer
  <1>5. ASSUME NEW t \in Session PROVE Remover(t)'
    <2> SUFFICES ASSUME at'[t] \in {"tally", "remove"} PROVE Remover(t)'
      BY DEF Remover
    <2>1. at'[t] = at[t] /\ verb'[t] = verb[t] /\ left'[t] = left[t]
      BY <1>2 DEF HPhase
    <2>2. WriterIn(verb[t].path)' => WriterIn(verb[t].path)
      BY <1>2, <2>1 DEF WriterIn, HPhase
    <2>3. Remover(t)
      BY DEF HInv
    <2>4. Counts(left'[t]) = Counts(left[t]) /\ Counts(left[t]) \subseteq Apart
      BY <2>1 DEF Counts
    <2>5. \A c \in Counts(left[t]) : verb[t].path \in filed'[c] => verb[t].met
      BY <2>1, <2>3, <2>4 DEF Remover
    <2>6. Counts(left[t])' = Counts(left[t])
      BY <2>1 DEF Counts
    <2>7. QED
      BY <2>1, <2>2, <2>3, <2>5, <2>6 DEF Remover
  <1>6. QED
    BY <1>4, <1>5 DEF HInv

(* A step that leaves the housing alone. *)
LEMMA HousingAside ==
  ASSUME HInv, UNCHANGED housing, NEW s \in Session, NEW ph \in Phase \ HPhase,
         at' = [at EXCEPT ![s] = ph], DOMAIN verb' = Session,
         \A t \in Session \ {s} : verb'[t] = verb[t]
  PROVE  HInv'
  <1>1. HTypes' /\ Homes'
    BY DEF HInv, HTypes, Homes, housing, Apart
  <1>2. QED
    BY <1>1, HousingLeft DEF housing

LEMMA TalksAside ==
  ASSUME HInv, NEW s \in Session, UNCHANGED <<housing, verb>>,
         \/ Tell(s) \/ Refuse(s)
         \/ \E ph \in Phase \ HPhase : Go(s, ph)
  PROVE  HInv'
  <1>1. PICK ph \in Phase \ HPhase : at' = [at EXCEPT ![s] = ph]
    BY DEF Tell, Refuse, Go, Phase, HPhase
  <1>2. QED
    BY <1>1, HousingAside DEF HInv, HTypes

LEMMA PeopleHouseKept ==
  ASSUME HInv, NEW s \in Session,
         \/ Serve(s) \/ AgentAdd(s) \/ AgentRename(s) \/ AgentRetire(s)
         \/ Resolve(s) \/ Insert(s) \/ Bind(s) \/ Mint(s) \/ AppendFails(s)
  PROVE  HInv'
  <1>1. CASE Serve(s)
    BY <1>1, TalksAside DEF Serve, Phase, HPhase
  <1>2. CASE AgentAdd(s)
    BY <1>2, TalksAside DEF AgentAdd
  <1>3. CASE AgentRename(s)
    BY <1>3, TalksAside DEF AgentRename
  <1>4. CASE AgentRetire(s)
    BY <1>4, TalksAside DEF AgentRetire
  <1>5. CASE Resolve(s)
    BY <1>5, TalksAside DEF Resolve, Phase, HPhase
  <1>6. CASE Insert(s)
    <2>1. Go(s, "bind") /\ UNCHANGED <<housing, verb>>
      BY <1>6 DEF Insert
    <2>2. QED
      BY <2>1, TalksAside DEF Phase, HPhase
  <1>7. CASE Bind(s)
    BY <1>7, TalksAside DEF Bind, Phase, HPhase
  <1>8. CASE Mint(s)
    BY <1>8, TalksAside DEF Mint, Phase, HPhase
  <1>9. CASE AppendFails(s)
    BY <1>9, TalksAside DEF AppendFails, Phase, HPhase
  <1>10. QED
    BY <1>1, <1>2, <1>3, <1>4, <1>5, <1>6, <1>7, <1>8, <1>9

LEMMA MergeHouseKept ==
  ASSUME HInv, NEW s \in Session, MergeRead(s) \/ MergeWrite(s)
  PROVE  HInv'
  <1>1. UNCHANGED housing
    BY DEF MergeRead, MergeWrite
  <1>2. \E ph \in Phase \ HPhase : at' = [at EXCEPT ![s] = ph]
    BY DEF MergeRead, MergeWrite, Tell, Refuse, Go, Phase, HPhase
  <1>3. DOMAIN verb' = Session /\ \A t \in Session \ {s} : verb'[t] = verb[t]
    BY DEF MergeRead, MergeWrite, HInv, HTypes
  <1>4. QED
    BY <1>1, <1>2, <1>3, HousingAside

LEMMA NamespaceAddHouses ==
  ASSUME HInv, NEW s \in Session, NamespaceAdd(s)
  PROVE  HInv'
  <1>1. CASE UNCHANGED registered
    <2>1. \E ph \in Phase \ HPhase : Go(s, ph)
      BY DEF NamespaceAdd, Tell, Refuse, Phase, HPhase
    <2>2. QED
      BY <1>1, <2>1, TalksAside DEF NamespaceAdd, housing
  <1>2. ASSUME NEW p \in Path, registered' = registered \cup {p}, Tell(s)
        PROVE  HInv'
    <2>1. at' = [at EXCEPT ![s] = "resolve"] /\ UNCHANGED <<filed, left, unsettled, verb>>
      BY <1>2 DEF NamespaceAdd, Tell, Go
    <2>2. HTypes' /\ Homes'
      BY <1>2, <2>1 DEF HInv, HTypes, Homes, Apart, Phase
    <2>3. QED
      BY <1>2, <2>1, <2>2, HousingLeft DEF Phase, HPhase
  <1>3. QED
    BY <1>1, <1>2 DEF NamespaceAdd

LEMMA EntriesHouse ==
  ASSUME HInv, NEW s \in Session, FileEntry(s) \/ Forget(s)
  PROVE  HInv'
  <1>1. /\ at' = [at EXCEPT ![s] = "resolve"] /\ UNCHANGED <<registered, left, unsettled, verb>>
    BY DEF FileEntry, Forget, Tell, Go
  <1>2. /\ filed' \in [Section -> SUBSET Path] /\ filed'["entries"] \subseteq registered
        /\ \A c \in Apart : filed'[c] = filed[c]
    <2>1. PICK P \in SUBSET registered : filed' = [filed EXCEPT !["entries"] = P]
      <3>1. CASE FileEntry(s)
        <4>1. PICK p \in registered : filed' = [filed EXCEPT !["entries"] = filed["entries"] \cup {p}]
          BY <3>1 DEF FileEntry
        <4>2. QED
          BY <4>1 DEF HInv, Homes
      <3>2. CASE Forget(s)
        <4>1. PICK p \in filed["entries"] : filed' = [filed EXCEPT !["entries"] = filed["entries"] \ {p}]
          BY <3>2 DEF Forget
        <4>2. QED
          BY <4>1 DEF HInv, Homes
      <3>3. QED
        BY <3>1, <3>2
    <2>2. QED
      BY <2>1 DEF HInv, HTypes, Apart, Section
  <1>3. HTypes' /\ Homes'
    BY <1>1, <1>2 DEF HInv, HTypes, Homes, Phase, Apart
  <1>4. QED
    BY <1>1, <1>2, <1>3, HousingLeft DEF Phase, HPhase

LEMMA FileWriteHouses ==
  ASSUME HInv, NEW s \in Session, FileWrite(s)
  PROVE  HInv'
  <1>1. /\ at[s] = "filing" /\ at' = [at EXCEPT ![s] = "resolve"]
        /\ UNCHANGED <<registered, left, unsettled>>
        /\ filed' = [filed EXCEPT ![verb[s].about] = filed[verb[s].about] \cup {verb[s].path}]
        /\ verb' = [verb EXCEPT ![s] = NoVerb]
    BY DEF FileWrite, Tell, Go
  <1>2. PICK c \in Apart, p \in Path :
          c = verb[s].about /\ p = verb[s].path /\ p \in registered \cup unsettled
    BY <1>1 DEF HInv, Writer
  <1>3. filed' = [filed EXCEPT ![c] = filed[c] \cup {p}] /\ WriterIn(p)
    BY <1>1, <1>2 DEF WriterIn
  <1>4. HTypes'
    <2>1. filed' \in [Section -> SUBSET Path]
      BY <1>3 DEF HInv, HTypes, Apart
    <2>2. at' \in [Session -> Phase] /\ DOMAIN verb' = Session
      BY <1>1 DEF HInv, HTypes, Phase
    <2>3. QED
      BY <1>1, <2>1, <2>2 DEF HInv, HTypes
  <1>5. Homes'
    BY <1>1, <1>2, <1>3 DEF HInv, HTypes, Homes, Apart, Section
  <1>6. \A d \in Apart : \A q \in filed'[d] : q \in filed[d] \/ WriterIn(q)
    BY <1>3 DEF HInv, HTypes, Apart
  <1>7. QED
    BY <1>1, <1>4, <1>5, <1>6, HousingLeft DEF Phase, HPhase, HInv, HTypes

(* A writer looks the namespace up: the removals of it that are under way meet
   it. *)
LEMMA FileLookHouses ==
  ASSUME HInv, NEW s \in Session, FileLook(s)
  PROVE  HInv'
  <1>1. PICK p \in registered, c \in Apart :
          verb' = [Meets(p) EXCEPT ![s] = [about |-> c, path |-> p]]
    BY DEF FileLook, Apart
  <1>2. /\ at[s] = "new" /\ at' = [at EXCEPT ![s] = "filing"]
        /\ UNCHANGED <<registered, filed, left, unsettled>>
    BY DEF FileLook, Go, housing
  <1>3. /\ DOMAIN verb' = Session /\ verb'[s] = [about |-> c, path |-> p]
        /\ \A t \in Session \ {s} :
             verb'[t] = IF t \in Removing(p) THEN [verb[t] EXCEPT !.met = TRUE] ELSE verb[t]
    BY <1>1 DEF Meets
  <1>4. HTypes' /\ Homes'
    BY <1>2, <1>3 DEF HInv, HTypes, Homes, Phase, Apart
  <1>5. ASSUME NEW t \in Session PROVE Writer(t)'
    <2>1. CASE t = s
      BY <1>1, <1>2, <1>3, <2>1 DEF Writer, HInv, HTypes
    <2>2. ASSUME t # s, at'[t] = "filing" PROVE Writer(t)'
      <3>1. at[t] = "filing" /\ verb'[t] = verb[t]
        BY <1>2, <1>3, <2>2 DEF Removing, HInv, HTypes
      <3>2. QED
        BY <1>2, <3>1 DEF Writer, HInv
    <2>3. QED
      BY <2>1, <2>2 DEF Writer
  <1>6. ASSUME NEW t \in Session PROVE Remover(t)'
    <2> SUFFICES ASSUME at'[t] \in {"tally", "remove"} PROVE Remover(t)'
      BY DEF Remover
    <2>1. t # s /\ at'[t] = at[t] /\ left'[t] = left[t] /\ Remover(t)
      BY <1>2 DEF HInv, HTypes
    <2>2. verb[t] \in [about : {"remove"}, path : Path, met : BOOLEAN]
      BY <2>1 DEF Remover
    <2>3. CASE verb[t].path = p
      <3>1. verb'[t] = [verb[t] EXCEPT !.met = TRUE]
        BY <1>3, <2>1, <2>3 DEF Removing
      <3>2. verb'[t] = [about |-> "remove", path |-> p, met |-> TRUE]
        BY <2>2, <2>3, <3>1
      <3>3. p \in Path
        BY <2>2, <2>3
      <3>4. QED
        BY <2>1, <3>2, <3>3 DEF Remover
    <2>4. CASE verb[t].path # p
      <3>1. verb'[t] = verb[t]
        BY <1>3, <2>1, <2>4 DEF Removing
      <3>2. WriterIn(verb[t].path)' => WriterIn(verb[t].path)
        <4> SUFFICES ASSUME NEW u \in Session, at'[u] = "filing", verb'[u].path = verb[t].path
                     PROVE  WriterIn(verb[t].path)
          BY <3>1 DEF WriterIn
        <4>1. u # s
          BY <1>3, <2>4
        <4>2. at[u] = "filing" /\ verb'[u] = verb[u]
          BY <1>2, <1>3, <4>1 DEF Removing, HInv, HTypes
        <4>3. QED
          BY <4>2 DEF WriterIn
      <3>3. Counts(left[t])' = Counts(left[t])
        BY <2>1 DEF Counts
      <3>4. QED
        BY <1>2, <2>1, <3>1, <3>2, <3>3 DEF Remover
    <2>5. QED
      BY <2>3, <2>4
  <1>7. QED
    BY <1>4, <1>5, <1>6 DEF HInv

(* A step of a removal: the others stay where they are. *)
LEMMA RemovalOthers ==
  ASSUME HInv, NEW s \in Session, at[s] # "filing", NEW ph \in {"tally", "remove"},
         at' = [at EXCEPT ![s] = ph], UNCHANGED <<registered, filed, unsettled>>,
         DOMAIN verb' = Session, DOMAIN left' = Session,
         \A t \in Session \ {s} : verb'[t] = verb[t] /\ left'[t] = left[t],
         Remover(s)'
  PROVE  HInv'
  <1>1. HTypes' /\ Homes'
    BY DEF HInv, HTypes, Homes, Phase, Apart
  <1>2. \A u \in Session : at'[u] = "filing" <=> at[u] = "filing"
    BY DEF HInv, HTypes
  <1>3. \A u \in Session : at[u] = "filing" => verb'[u] = verb[u]
    OBVIOUS
  <1>4. ASSUME NEW t \in Session \ {s} PROVE Writer(t)' /\ Remover(t)'
    <2>1. verb'[t] = verb[t] /\ left'[t] = left[t] /\ at'[t] = at[t] /\ Writer(t) /\ Remover(t)
      BY DEF HInv, HTypes
    <2>2. WriterIn(verb[t].path)' => WriterIn(verb[t].path)
      BY <1>2, <1>3, <2>1 DEF WriterIn
    <2>3. Counts(left[t])' = Counts(left[t])
      BY <2>1 DEF Counts
    <2>4. Writer(t)'
      BY <2>1 DEF Writer
    <2>5. QED
      BY <2>1, <2>2, <2>3, <2>4 DEF Remover
  <1>5. Writer(s)'
    BY DEF Writer, HInv, HTypes
  <1>6. QED
    BY <1>1, <1>4, <1>5 DEF HInv

LEMMA RemoveLookHouses ==
  ASSUME HInv, NEW s \in Session, RemoveLook(s)
  PROVE  HInv'
  <1>1. CASE Refuse(s) /\ UNCHANGED <<verb, left>>
    BY <1>1, TalksAside DEF RemoveLook, housing
  <1>2. ASSUME NEW p \in Path,
               verb' = [verb EXCEPT ![s] = [about |-> "remove", path |-> p, met |-> WriterIn(p)]],
               left' = [left EXCEPT ![s] = Counted], Go(s, "tally")
        PROVE  HInv'
    <2>1. /\ at[s] = "new" /\ at' = [at EXCEPT ![s] = "tally"]
          /\ UNCHANGED <<registered, filed, unsettled>>
      BY <1>2 DEF RemoveLook, Go
    <2>2. verb'[s] = [about |-> "remove", path |-> p, met |-> WriterIn(p)] /\ left'[s] = Elsewhere
      BY <1>2 DEF HInv, HTypes, Counted
    <2>3. Counts(Elsewhere) = {}
      <3>1. /\ DOMAIN Elsewhere = 1 .. 3 /\ Elsewhere[1] = "docket"
            /\ Elsewhere[2] = "handoff" /\ Elsewhere[3] = "secrets"
        BY DEF Elsewhere
      <3>2. QED
        BY <3>1 DEF Counts, Apart, Section
    <2>4. WriterIn(p)' => WriterIn(p)
      BY <1>2, <2>1 DEF WriterIn, HInv, HTypes
    <2>5. WriterIn(p) \in BOOLEAN
      BY DEF WriterIn
    <2>6. Remover(s)'
      <3>1. /\ verb'[s].path = p /\ verb'[s].met = WriterIn(p)
            /\ verb'[s] \in [about : {"remove"}, path : Path, met : BOOLEAN]
        BY <2>2, <2>5
      <3>2. Elsewhere # <<>> /\ Elsewhere \in Seq(Apart)
        BY DEF Elsewhere, Apart, Section
      <3>3. Counts(left[s])' = {}
        BY <2>2, <2>3 DEF Counts
      <3>4. at'[s] = "tally"
        BY <2>1 DEF HInv, HTypes
      <3>5. WriterIn(verb[s].path)' => verb'[s].met
        BY <2>4, <3>1 DEF WriterIn
      <3>6. QED
        BY <2>2, <3>1, <3>2, <3>3, <3>4, <3>5 DEF Remover
    <2>7. QED
      BY <1>2, <2>1, <2>6, RemovalOthers DEF HInv, HTypes
  <1>3. QED
    BY <1>1, <1>2 DEF RemoveLook

(* What a removal has still to count after it counted a file. *)
LEMMA Uncounting ==
  ASSUME NEW seq \in Seq(Apart), seq # <<>>
  PROVE  /\ Tail(seq) \in Seq(Apart) /\ (Tail(seq) = <<>> <=> Len(seq) = 1)
         /\ Counts(Tail(seq)) \subseteq Counts(seq) \cup {Head(seq)}
  <1>1. Len(seq) >= 1
    OBVIOUS
  <1>2. Tail(seq) \in Seq(Apart) /\ Len(Tail(seq)) = Len(seq) - 1
    OBVIOUS
  <1>3. Tail(seq) = <<>> <=> Len(seq) = 1
    <2>1. \A rest \in Seq(Apart) : rest = <<>> <=> Len(rest) = 0
      OBVIOUS
    <2>2. PICK rest \in Seq(Apart) : rest = Tail(seq) /\ Len(rest) = Len(seq) - 1
      BY <1>2
    <2>3. rest = <<>> <=> Len(seq) = 1
      BY <1>1, <2>1, <2>2
    <2>4. QED
      BY <2>2, <2>3
  <1>4. ASSUME NEW c \in Counts(Tail(seq)), c # Head(seq) PROVE c \in Counts(seq)
    <2>1. \A i \in 1 .. Len(seq) - 1 : Tail(seq)[i] = seq[i + 1] /\ i \in DOMAIN Tail(seq)
      BY <1>1
    <2>2. \A i \in DOMAIN seq : i = 1 \/ i - 1 \in 1 .. Len(seq) - 1
      BY <1>1
    <2>3. Head(seq) = seq[1]
      BY <1>1
    <2>4. \A i \in DOMAIN seq : seq[i] # c
      BY <1>1, <1>4, <2>1, <2>2, <2>3 DEF Counts
    <2>5. QED
      BY <1>4, <2>4 DEF Counts
  <1>5. QED
    BY <1>2, <1>3, <1>4

LEMMA RemoveTallyHouses ==
  ASSUME HInv, NEW s \in Session, RemoveTally(s)
  PROVE  HInv'
  <1> DEFINE c == Head(left[s])
  <1>1. /\ at[s] = "tally" /\ left[s] # <<>> /\ left[s] \in Seq(Apart) /\ Remover(s)
        /\ UNCHANGED <<registered, filed, unsettled>>
    BY DEF RemoveTally, HInv, Remover
  <1>2. CASE verb[s].path \in filed[c]
    <2>1. /\ at' = [at EXCEPT ![s] = "done"]
          /\ left' = [left EXCEPT ![s] = <<>>] /\ verb' = [verb EXCEPT ![s] = NoVerb]
      BY <1>2 DEF RemoveTally, Refuse, Go
    <2>2. HTypes' /\ Homes'
      BY <1>1, <2>1 DEF HInv, HTypes, Homes, Phase, Apart
    <2>3. QED
      BY <1>1, <2>1, <2>2, HousingLeft DEF Phase, HPhase, HInv, HTypes
  <1>3. CASE verb[s].path \notin filed[c]
    <2>1. PICK ph \in {"tally", "remove"} :
            /\ at' = [at EXCEPT ![s] = ph]
            /\ ph = "remove" <=> Len(left[s]) = 1
      BY <1>3 DEF RemoveTally, Go
    <2>2. left' = [left EXCEPT ![s] = Tail(left[s])] /\ verb' = verb
      BY <1>3 DEF RemoveTally
    <2>3. Remover(s)'
      <3>1. at'[s] = ph /\ left'[s] = Tail(left[s]) /\ verb'[s] = verb[s]
        BY <2>1, <2>2 DEF HInv, HTypes
      <3>2. WriterIn(verb[s].path)' => WriterIn(verb[s].path)
        BY <2>1, <2>2 DEF WriterIn, HInv, HTypes
      <3>3. Counts(left[s])' \subseteq Counts(left[s]) \cup {c}
        BY <1>1, <3>1, Uncounting DEF Counts
      <3>4. \A d \in Counts(left[s])' : verb[s].path \in filed[d] => verb[s].met
        BY <1>1, <1>3, <3>3 DEF Remover
      <3>5. Tail(left[s]) \in Seq(Apart) /\ (ph = "remove" <=> Tail(left[s]) = <<>>)
        BY <1>1, <2>1, Uncounting
      <3>6. /\ verb[s] \in [about : {"remove"}, path : Path, met : BOOLEAN]
            /\ WriterIn(verb[s].path) => verb[s].met
        BY <1>1 DEF Remover
      <3>7. QED
        BY <1>1, <3>1, <3>2, <3>4, <3>5, <3>6 DEF Remover
    <2>4. QED
      BY <1>1, <2>1, <2>2, <2>3, RemovalOthers DEF HInv, HTypes
  <1>4. QED
    BY <1>2, <1>3

LEMMA RemoveWriteHouses ==
  ASSUME HInv, NEW s \in Session, RemoveWrite(s)
  PROVE  HInv'
  <1>1. /\ at[s] = "remove" /\ verb' = [verb EXCEPT ![s] = NoVerb] /\ UNCHANGED <<filed, left>>
        /\ \E ph \in Phase \ HPhase : at' = [at EXCEPT ![s] = ph]
    BY DEF RemoveWrite, Tell, Refuse, Go, Phase, HPhase
  <1>2. CASE UNCHANGED <<registered, unsettled>>
    BY <1>1, <1>2, HousingAside DEF HInv, HTypes, housing
  <1>3. ASSUME NEW p, p = verb[s].path, p \notin filed["entries"],
               registered' = registered \ {p},
               unsettled' = IF verb[s].met THEN unsettled \cup {p} ELSE unsettled
        PROVE  HInv'
    <2>1. Counts(left[s]) = Apart
      <3>1. left[s] = <<>>
        BY <1>1 DEF HInv, Remover
      <3>2. DOMAIN <<>> = {}
        OBVIOUS
      <3>3. QED
        BY <3>1, <3>2 DEF Counts
    <2>2. \A c \in Apart : p \in filed[c] => verb[s].met
      BY <1>1, <1>3, <2>1 DEF HInv, Remover
    <2>3. WriterIn(p) => verb[s].met
      BY <1>1, <1>3 DEF HInv, Remover
    <2>4. HTypes'
      BY <1>1, <1>3 DEF HInv, HTypes, Phase
    <2>5. Homes'
      BY <1>1, <1>3, <2>2 DEF HInv, Homes, Apart
    <2>6. \A q \in registered \cup unsettled : WriterIn(q) => q \in registered' \cup unsettled'
      BY <1>3, <2>3
    <2>7. QED
      BY <1>1, <2>4, <2>5, <2>6, HousingLeft DEF HInv, HTypes
  <1>4. QED
    BY <1>2, <1>3 DEF RemoveWrite

(* In every reachable state each row lives on a registered namespace, or was
   written while its namespace was being removed. *)
THEOREM HousingInvariance == Spec => []HInv
  <1>1. Init => HInv
    <2> SUFFICES ASSUME Init PROVE HInv
      OBVIOUS
    <2>1. HTypes /\ Homes
      BY RegistryAssumption DEF Init, HTypes, Homes, Phase, Apart, Section
    <2>2. \A s \in Session : at[s] \in {"done", "new"}
      BY DEF Init
    <2>3. QED
      BY <2>1, <2>2 DEF HInv, Writer, Remover
  <1>2. HInv /\ [Next]_vars => HInv'
    <2> SUFFICES ASSUME HInv, [Next]_vars PROVE HInv'
      OBVIOUS
    <2>1. CASE UNCHANGED vars
      <3>1. /\ HTypes' /\ Homes'
            /\ \A s \in Session : at'[s] = at[s] /\ verb'[s] = verb[s] /\ left'[s] = left[s]
            /\ UNCHANGED <<registered, filed, unsettled>>
        BY <2>1 DEF HInv, HTypes, Homes, vars, housing, who, Apart
      <3>2. \A p : WriterIn(p)' <=> WriterIn(p)
        BY <3>1 DEF WriterIn
      <3>3. ASSUME NEW s \in Session PROVE Writer(s)' /\ Remover(s)'
        <4>1. Counts(left[s])' = Counts(left[s])
          BY <3>1 DEF Counts
        <4>2. WriterIn(verb[s].path)' <=> WriterIn(verb[s].path)
          BY <3>1 DEF WriterIn
        <4>3. Writer(s)'
          BY <3>1 DEF Writer, HInv
        <4>4. QED
          BY <3>1, <4>1, <4>2, <4>3 DEF Remover, HInv
      <3>4. QED
        BY <3>1, <3>3 DEF HInv
    <2>2. ASSUME NEW s \in Server, Serve(s) PROVE HInv'
      BY <2>2, PeopleHouseKept, RegistryAssumption
    <2>3. ASSUME NEW s \in Human, Call(s) PROVE HInv'
      <3>1. s \in Session
        BY RegistryAssumption
      <3>2. QED
        BY <2>3, <3>1, PeopleHouseKept, MergeHouseKept, NamespaceAddHouses, EntriesHouse,
           FileLookHouses, RemoveLookHouses DEF Call
    <2>4. ASSUME NEW s \in Session,
                 \/ MergeWrite(s) \/ FileWrite(s) \/ RemoveTally(s) \/ RemoveWrite(s)
                 \/ Resolve(s) \/ Insert(s) \/ Bind(s) \/ Mint(s) \/ AppendFails(s)
          PROVE  HInv'
      BY <2>4, PeopleHouseKept, MergeHouseKept, FileWriteHouses, RemoveTallyHouses,
         RemoveWriteHouses
    <2>5. QED
      BY <2>1, <2>2, <2>3, <2>4 DEF Next
  <1>3. QED
    BY <1>1, <1>2, PTL DEF Spec

(* No row is left on a namespace the registry does not know, unless a writer
   was at work in it while it was removed. *)
THEOREM NothingOrphanedHolds == Spec => []NothingOrphaned
  <1>1. HInv => NothingOrphaned
    <2> SUFFICES ASSUME HInv PROVE NothingOrphaned
      OBVIOUS
    <2>1. filed["docket"] \cup filed["handoff"] \cup filed["secrets"] \subseteq registered \cup unsettled
      BY DEF HInv, Homes, Apart, Section
    <2>2. ASSUME NEW d \in Drift PROVE d \in {"docket", "handoff"} \X unsettled
      BY <2>1 DEF Drift
    <2>3. QED
      BY <2>1, <2>2 DEF NothingOrphaned, HInv, Homes
  <1>2. QED
    BY <1>1, HousingInvariance, PTL
=============================================================================
