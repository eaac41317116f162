---------------------------- MODULE MemoryProofs ----------------------------
(***************************************************************************)
(* Theorems about the memory: the cold lake of signals, the creators that  *)
(* turn them into facts, contradictions, supersession and the sweep        *)
(* (src/paa/storage/coldlake/signals.py, src/paa/memory/).                 *)
(*                                                                         *)
(* Three inductive invariants, each on top of the one before:              *)
(*   LakeInv   what a creator holds at each point of process_signal;       *)
(*   FactsInv  the facts, their links, the buffer and the sweep;           *)
(*   OnceInv   a signal is one creator's.                                  *)
(* The first two hold on either database.  The third needs SQLite: its one *)
(* writer at a time makes the select and the update of a claim one step.   *)
(***************************************************************************)
EXTENDS Memory, FiniteSetTheorems, TLAPS

-----------------------------------------------------------------------------
(* Counting the rows before a row *)

\* The number of rows before a row of a table is a number.
LEMMA BeforeIsNatural ==
    ASSUME NEW S \in SUBSET Nat, IsFiniteSet(S), NEW i \in Nat
    PROVE  Before(i, S) \in Nat
  <1>1. {j \in S : j < i} \subseteq S
    OBVIOUS
  <1>2. IsFiniteSet({j \in S : j < i})
    BY <1>1, FS_Subset
  <1> QED
    BY <1>2, FS_CardinalityType DEF Before

\* Of two rows the earlier one has fewer before it.
LEMMA BeforeGrows ==
    ASSUME NEW S \in SUBSET Nat, IsFiniteSet(S), NEW i \in S, NEW j \in Nat, i < j
    PROVE  Before(i, S) < Before(j, S)
  <1> DEFINE A == {k \in S : k < i}
             B == {k \in S : k < j}
  <1>0. \A k \in S : k \in Nat
    OBVIOUS
  <1>1. A \subseteq B /\ B \subseteq S /\ i \in B /\ i \notin A
    <2>1. \A k \in S : k < i => k < j
      BY <1>0
    <2>2. ~(i < i)
      BY <1>0
    <2> QED
      BY <2>1, <2>2
  <1> HIDE DEF A, B
  <1>2. IsFiniteSet(B)
    BY <1>1, FS_Subset
  <1>3. Cardinality(A) <= Cardinality(B) /\ (Cardinality(B) = Cardinality(A) => B = A)
        /\ IsFiniteSet(A)
    BY <1>1, <1>2, FS_Subset
  <1>4. Cardinality(A) \in Nat /\ Cardinality(B) \in Nat /\ Cardinality(A) # Cardinality(B)
    BY <1>1, <1>2, <1>3, FS_CardinalityType
  <1> QED
    BY <1>3, <1>4 DEF Before, A, B

\* No row has as many rows before it as the table has rows.
LEMMA BeforeIsBelowSize ==
    ASSUME NEW S \in SUBSET Nat, IsFiniteSet(S), NEW i \in S
    PROVE  Before(i, S) < Cardinality(S)
  <1> DEFINE A == {k \in S : k < i}
  <1>1. A \subseteq S /\ i \in S /\ i \notin A
    OBVIOUS
  <1> HIDE DEF A
  <1>2. Cardinality(A) <= Cardinality(S) /\ (Cardinality(S) = Cardinality(A) => S = A)
        /\ IsFiniteSet(A)
    BY <1>1, FS_Subset
  <1>3. Cardinality(A) \in Nat /\ Cardinality(S) \in Nat
    BY <1>2, FS_CardinalityType
  <1> QED
    BY <1>1, <1>2, <1>3 DEF Before, A

\* The ranks are those of a list: every number below the size is one row's.
LEMMA EveryRankIsTaken ==
    ASSUME NEW S \in SUBSET Nat, IsFiniteSet(S), NEW k \in 1..Cardinality(S)
    PROVE  \E i \in S : Before(i, S) = k - 1
  <1> DEFINE n == Cardinality(S)
             T == 0..(n - 1)
             rank == [i \in S |-> Before(i, S)]
  <1>1. n \in Nat
    BY FS_CardinalityType
  <1>2. rank \in [S -> T]
    <2>1. ASSUME NEW i \in S PROVE Before(i, S) \in T
      BY <1>1, BeforeIsNatural, BeforeIsBelowSize
    <2> QED
      BY <2>1
  <1>3. \A i, j \in S : i # j => Before(i, S) # Before(j, S)
    <2> SUFFICES ASSUME NEW i \in S, NEW j \in S, i # j
                 PROVE  Before(i, S) # Before(j, S)
      OBVIOUS
    <2>1. Before(i, S) \in Nat /\ Before(j, S) \in Nat
      BY BeforeIsNatural
    <2>2. CASE i < j
      BY <2>1, <2>2, BeforeGrows
    <2>3. CASE j < i
      BY <2>1, <2>3, BeforeGrows
    <2> QED
      BY <2>2, <2>3
  <1>4. rank \in Injection(S, T)
    <2>1. \A i \in S : rank[i] = Before(i, S)
      OBVIOUS
    <2> HIDE DEF rank, T
    <2> QED
      BY <1>2, <1>3, <2>1 DEF Injection, IsInjective
  <1>5. IsFiniteSet(T) /\ Cardinality(T) = n
    <2>1. 0 \in Int /\ n - 1 \in Int /\ (IF 0 > n - 1 THEN 0 ELSE n - 1 - 0 + 1) = n
      BY <1>1
    <2> HIDE DEF n
    <2> QED
      BY <2>1, FS_Interval
  <1>6. rank \in Surjection(S, T)
    <2> HIDE DEF rank, T
    <2> QED
      BY <1>4, <1>5, FS_Injection DEF n
  <1>7. k - 1 \in T
    BY <1>1
  <1>8. PICK i \in S : rank[i] = k - 1
    <2> HIDE DEF rank, T
    <2> QED
      BY <1>6, <1>7 DEF Surjection
  <1> QED
    BY <1>8

\* The answer of a LIMIT query: rows of the table that match, none twice.
LEMMA OldestIsABatch ==
    ASSUME NEW X, arrived \in Seq(X), NEW n \in Nat,
           \A i, j \in 1..Len(arrived) : arrived[i] = arrived[j] => i = j
    PROVE  LET batch == Oldest(n) IN
           /\ batch \in Seq(X)
           /\ \A k \in 1..Len(batch) : status[batch[k]] = "unprocessed"
           /\ \A k, l \in 1..Len(batch) : batch[k] = batch[l] => k = l
           /\ \A k \in 1..Len(batch) : \E i \in 1..Len(arrived) : batch[k] = arrived[i]
  <1> DEFINE waiting == {i \in DOMAIN arrived : status[arrived[i]] = "unprocessed"}
             rows == {i \in waiting : Before(i, waiting) < n}
             at(k) == CHOOSE i \in rows : Before(i, rows) = k - 1
  <1>1. DOMAIN arrived = 1..Len(arrived) /\ Len(arrived) \in Nat
    OBVIOUS
  <1>2. rows \subseteq 1..Len(arrived)
    BY <1>1
  <1>3. IsFiniteSet(rows)
    <2>1. IsFiniteSet(1..Len(arrived))
      BY <1>1, FS_Interval
    <2> HIDE DEF rows
    <2> QED
      BY <1>2, <2>1, FS_Subset
  <1>4. Cardinality(rows) \in Nat
    BY <1>3, FS_CardinalityType
  <1>5. \A i \in rows : status[arrived[i]] = "unprocessed"
    OBVIOUS
  <1>6. Oldest(n) = [k \in 1..Cardinality(rows) |-> arrived[at(k)]]
    BY DEF Oldest
  <1> HIDE DEF rows
  <1>7. \A k \in 1..Cardinality(rows) : at(k) \in rows /\ Before(at(k), rows) = k - 1
    <2> SUFFICES ASSUME NEW k \in 1..Cardinality(rows)
                 PROVE  at(k) \in rows /\ Before(at(k), rows) = k - 1
      OBVIOUS
    <2>1. rows \in SUBSET Nat
      BY <1>2
    <2>2. \E i \in rows : Before(i, rows) = k - 1
      BY <1>3, <2>1, EveryRankIsTaken
    <2> QED
      BY <2>2
  <1> HIDE DEF at
  <1>8. \A k \in 1..Cardinality(rows) : arrived[at(k)] \in X
    <2>1. \A i \in 1..Len(arrived) : arrived[i] \in X
      OBVIOUS
    <2>2. \A i \in rows : arrived[i] \in X
      BY <1>2, <2>1
    <2> QED
      BY <1>7, <2>2
  <1>9. Oldest(n) \in Seq(X) /\ Len(Oldest(n)) = Cardinality(rows)
    BY <1>4, <1>6, <1>8
  <1>10. \A k \in 1..Len(Oldest(n)) : Oldest(n)[k] = arrived[at(k)]
    BY <1>6, <1>9
  <1>11. \A k \in 1..Len(Oldest(n)) : status[Oldest(n)[k]] = "unprocessed"
    BY <1>5, <1>7, <1>9, <1>10
  <1>12. \A k, l \in 1..Len(Oldest(n)) : Oldest(n)[k] = Oldest(n)[l] => k = l
    <2> SUFFICES ASSUME NEW k \in 1..Len(Oldest(n)), NEW l \in 1..Len(Oldest(n)),
                        Oldest(n)[k] = Oldest(n)[l]
                 PROVE  k = l
      OBVIOUS
    <2>1. at(k) = at(l)
      BY <1>2, <1>7, <1>9, <1>10
    <2>2. k - 1 = l - 1
      BY <1>7, <1>9, <2>1
    <2> QED
      BY <1>4, <1>9, <2>2
  <1> QED
    BY <1>2, <1>7, <1>9, <1>10, <1>11, <1>12

-----------------------------------------------------------------------------
(* Pages of the sweep *)

\* A table that is not empty has a first and a last row.
LEMMA ListEnds ==
    ASSUME NEW S \in SUBSET Nat, IsFiniteSet(S), S # {}
    PROVE  /\ \E i \in S : Before(i, S) = 0
           /\ \E i \in S : \A j \in S : j <= i
  <1> DEFINE n == Cardinality(S)
  <1>1. n \in Nat /\ n # 0
    BY FS_CardinalityType, FS_EmptySet
  <1>2. 1 \in 1..n /\ n \in 1..n
    BY <1>1
  <1>3. PICK i \in S : Before(i, S) = n - 1
    <2> QED
      BY <1>2, EveryRankIsTaken
  <1>4. \E j \in S : Before(j, S) = 1 - 1
    BY <1>2, EveryRankIsTaken
  <1>5. \A j \in S : j <= i
    <2> SUFFICES ASSUME NEW j \in S, i < j PROVE FALSE
      <3>1. \A j \in S : j \in Nat /\ i \in Nat
        OBVIOUS
      <3> QED
        BY <3>1
    <2>1. Before(i, S) < Before(j, S) /\ Before(j, S) < n
      BY BeforeGrows, BeforeIsBelowSize
    <2>2. Before(j, S) \in Nat
      BY BeforeIsNatural
    <2> QED
      BY <1>1, <1>3, <2>1, <2>2
  <1> QED
    BY <1>3, <1>4, <1>5

\* Keyset pagination: a page that is empty is the last one, and one that is not
\* holds every live fact between the cursor and its own last row.
LEMMA PageIsASlice ==
    ASSUME Live \subseteq Nat, IsFiniteSet(Live), NEW cursor \in Nat
    PROVE  LET page == Page(cursor) IN
           /\ page = {} => \A f \in Live : f <= cursor
           /\ page # {} =>
                /\ LastOf(page) \in page /\ page \subseteq Live
                /\ \A f \in Live : cursor < f /\ f <= LastOf(page) => f \in page
  <1> DEFINE after == {f \in Live : f > cursor}
             page == {f \in after : Before(f, after) < SweepBatch}
  <1>0. \A f \in Live : f \in Nat
    OBVIOUS
  <1>1. after \subseteq Live /\ after \subseteq Nat /\ page \subseteq after
    OBVIOUS
  <1>2. Page(cursor) = page
    BY DEF Page
  <1>3. SweepBatch \in Nat /\ 0 < SweepBatch
    BY MemoryAssumption
  <1>4. \A f \in page : Before(f, after) < SweepBatch
    OBVIOUS
  <1>5. \A f \in after : Before(f, after) < SweepBatch => f \in page
    OBVIOUS
  <1>6. \A f \in Live : f \in after <=> cursor < f
    BY <1>0
  <1> HIDE DEF after, page
  <1>7. IsFiniteSet(after) /\ IsFiniteSet(page)
    BY <1>1, FS_Subset
  <1>8. ASSUME page = {}
        PROVE  \A f \in Live : f <= cursor
    <2> SUFFICES ASSUME after # {} PROVE FALSE
      BY <1>0, <1>6
    <2>1. PICK i \in after : Before(i, after) = 0
      BY <1>1, <1>7, ListEnds
    <2> QED
      BY <1>3, <1>5, <1>8, <2>1
  <1>9. ASSUME page # {}
        PROVE  /\ LastOf(page) \in page
               /\ \A f \in Live : cursor < f /\ f <= LastOf(page) => f \in page
    <2>1. \E i \in page : \A j \in page : j <= i
      <3>1. page \in SUBSET Nat
        BY <1>1
      <3> QED
        BY <1>7, <1>9, <3>1, ListEnds
    <2>2. LastOf(page) \in page
      BY <2>1 DEF LastOf
    <2>3. ASSUME NEW f \in Live, cursor < f, f <= LastOf(page) PROVE f \in page
      <3> DEFINE l == LastOf(page)
      <3>1. f \in after /\ l \in after /\ f \in Nat /\ l \in Nat /\ Before(l, after) < SweepBatch
        BY <1>0, <1>1, <1>4, <1>6, <2>2, <2>3
      <3>2. Before(f, after) \in Nat /\ Before(l, after) \in Nat
        BY <1>1, <1>7, <3>1, BeforeIsNatural
      <3>3. f < l => Before(f, after) < Before(l, after)
        BY <1>1, <1>7, <3>1, BeforeGrows
      <3>4. f < l \/ f = l
        BY <2>3, <3>1
      <3> HIDE DEF l
      <3> QED
        BY <1>3, <1>5, <3>1, <3>2, <3>3, <3>4
    <2> QED
      BY <2>2, <2>3
  <1> QED
    BY <1>1, <1>2, <1>8, <1>9

-----------------------------------------------------------------------------
(* The chain of supersession *)

\* A set of numbers that is not empty has a least one.
LEMMA LeastNumber ==
    ASSUME NEW T \in SUBSET Nat, T # {}
    PROVE  \E m \in T : \A k \in T : m <= k
  <1> DEFINE Less == {ss \in Nat \X Nat : ss[1] < ss[2]}
  <1>1. IsWellFoundedOn(Less, Nat)
    BY NatLessThanWellFounded, Zenon DEF OpToRel
  <1>2. PICK m \in T : \A k \in T : ~(<<k, m>> \in Less)
    <2> HIDE DEF Less
    <2> QED
      BY <1>1, WFMin
  <1>3. \A k \in T : ~(k < m) /\ k \in Nat /\ m \in Nat
    BY <1>2
  <1> QED
    BY <1>3

\* A set of facts that has the successor of each of its members.
ClosedUp(S) ==
    \A g \in S \intersect DOMAIN facts :
        facts[g].superseded_by # NULL => facts[g].superseded_by \in S

SuccessorsAreFacts ==
    /\ DOMAIN facts \subseteq FactIds
    /\ \A g \in DOMAIN facts : facts[g].superseded_by \in FactIds \union {NULL}

After(T) == T \union {facts[g].superseded_by : g \in T \intersect DOMAIN facts}

\* A walk of k steps is a function: the recursion defines one.
LEMMA WalkExists ==
    ASSUME NEW f, NEW N \in Nat
    PROVE  \E h : h = [n \in 0..N |-> IF n = 0 THEN {f} ELSE After(h[n - 1])]
  <1> DEFINE Walk(h, k) == h = [n \in 0..k |-> IF n = 0 THEN {f} ELSE After(h[n - 1])]
             T == {k \in Nat : ~ \E h : Walk(h, k)}
  <1> SUFFICES ASSUME T # {} PROVE FALSE
    OBVIOUS
  <1>1. T \subseteq Nat
    OBVIOUS
  <1>2. PICK m \in T : \A k \in T : m <= k
    <2> HIDE DEF T
    <2> QED
      BY <1>1, LeastNumber
  <1>3. CASE m = 0
    <2> DEFINE h == [n \in 0..0 |-> {f}]
    <2>1. h = [n \in 0..0 |-> IF n = 0 THEN {f} ELSE After(h[n - 1])]
      OBVIOUS
    <2>2. Walk(h, 0)
      BY <2>1
    <2> QED
      BY <1>2, <1>3, <2>2
  <1>4. CASE m # 0
    <2>1. m \in Nat /\ m - 1 \in Nat /\ ~(m <= m - 1)
      BY <1>2, <1>4
    <2>2. m - 1 \notin T
      BY <1>2, <2>1
    <2>3. PICK g : Walk(g, m - 1)
      BY <2>1, <2>2
    <2> DEFINE h == [n \in 0..m |-> IF n = 0 THEN {f} ELSE After(g[n - 1])]
    <2>4. \A n \in 0..(m - 1) : g[n] = IF n = 0 THEN {f} ELSE After(g[n - 1])
      BY <2>3
    <2>5. \A n \in 0..(m - 1) : h[n] = g[n]
      <3>1. \A n \in 0..m : h[n] = IF n = 0 THEN {f} ELSE After(g[n - 1])
        OBVIOUS
      <3>2. \A n \in 0..(m - 1) : n \in 0..m
        BY <2>1
      <3> HIDE DEF h
      <3> QED
        BY <2>4, <3>1, <3>2
    <2>6. \A n \in 0..m : n # 0 => n - 1 \in 0..(m - 1)
      BY <2>1
    <2>7. \A n \in 0..m : n # 0 => h[n - 1] = g[n - 1]
      BY <2>5, <2>6
    <2>8. \A n \in 0..m : h[n] = IF n = 0 THEN {f} ELSE After(h[n - 1])
      BY <2>7
    <2>9. h = [n \in 0..m |-> h[n]]
      OBVIOUS
    <2> HIDE DEF h
    <2>10. Walk(h, m)
      BY <2>8, <2>9
    <2> QED
      BY <1>2, <2>10
  <1> QED
    BY <1>3, <1>4

\* Chain(f) is what the walk from f has reached after as many steps as there are ids.
LEMMA ChainIsTheWalk ==
    ASSUME NEW f
    PROVE  \E v : /\ v = [n \in 0..Cardinality(FactIds) |->
                           IF n = 0 THEN {f} ELSE After(v[n - 1])]
                  /\ Chain(f) = v[Cardinality(FactIds)] \ {NULL}
  <1> DEFINE N == Cardinality(FactIds)
             step[n \in 0..N] ==
                 IF n = 0 THEN {f}
                 ELSE step[n - 1] \union
                        {facts[g].superseded_by : g \in step[n - 1] \intersect DOMAIN facts}
  <1>1. N \in Nat
    BY MemoryAssumption, FS_CardinalityType
  <1>2. PICK h : h = [n \in 0..N |-> IF n = 0 THEN {f} ELSE After(h[n - 1])]
    <2> HIDE DEF N, step
    <2> QED
      BY <1>1, WalkExists
  <1>3. step = CHOOSE v : v = [n \in 0..N |-> IF n = 0 THEN {f} ELSE After(v[n - 1])]
    BY DEF After, step
  <1>4. step = [n \in 0..N |-> IF n = 0 THEN {f} ELSE After(step[n - 1])]
    <2> HIDE DEF step, N
    <2> QED
      BY <1>2, <1>3
  <1>5. Chain(f) = step[N] \ {NULL}
    BY DEF Chain, step
  <1> QED
    BY <1>4, <1>5

\* The walk is long enough: what it has reached after as many steps as there are
\* ids is the least set that holds the fact and all successors.
LEMMA ChainIsLeast ==
    ASSUME SuccessorsAreFacts, NEW f \in FactIds
    PROVE  /\ f \in Chain(f) /\ Chain(f) \subseteq FactIds /\ ClosedUp(Chain(f))
           /\ \A S : f \in S /\ ClosedUp(S) => Chain(f) \subseteq S
  <1> DEFINE N == Cardinality(FactIds)
             U == FactIds \union {NULL}
  <1>1. N \in Nat /\ IsFiniteSet(FactIds) /\ NULL \notin FactIds
    BY MemoryAssumption, FS_CardinalityType DEF NULL
  <1>2. PICK v : /\ v = [n \in 0..N |-> IF n = 0 THEN {f} ELSE After(v[n - 1])]
                 /\ Chain(f) = v[N] \ {NULL}
    BY ChainIsTheWalk
  <1> DEFINE Met(n) == v[n] \ {NULL}
             Fine(n) == /\ f \in v[n] /\ v[n] \subseteq U
                        /\ \A S : f \in S /\ ClosedUp(S) => Met(n) \subseteq S
                        /\ ClosedUp(v[n]) \/ n + 1 <= Cardinality(Met(n))
             T == {n \in 0..N : ~Fine(n)}
  <1>3. v[0] = {f}
    BY <1>1, <1>2
  <1>4. \A n \in 0..N : n # 0 => v[n] = After(v[n - 1])
    BY <1>2
  <1>5. Fine(0)
    <2>1. Met(0) = {f}
      BY <1>1, <1>3
    <2>2. Cardinality(Met(0)) = 1
      BY <2>1, FS_Singleton
    <2> QED
      BY <1>1, <1>3, <2>1, <2>2
  <1>6. ASSUME NEW n \in 0..N, n # 0, Fine(n - 1)
        PROVE  Fine(n)
    <2> DEFINE w == v[n - 1]
    <2>1. v[n] = w \union {facts[g].superseded_by : g \in w \intersect DOMAIN facts}
      BY <1>4, <1>6 DEF After
    <2>2. f \in v[n] /\ v[n] \subseteq U
      BY <1>6, <2>1 DEF SuccessorsAreFacts
    <2>3. ASSUME NEW S, f \in S, ClosedUp(S) PROVE Met(n) \subseteq S
      <3>1. Met(n - 1) \subseteq S
        BY <1>6, <2>3
      <3>2. w \intersect DOMAIN facts \subseteq S
        BY <1>1, <3>1 DEF SuccessorsAreFacts
      <3> QED
        BY <2>1, <2>3, <3>1, <3>2 DEF ClosedUp
    <2>4. CASE ClosedUp(w)
      <3>1. v[n] \subseteq w \union {NULL} /\ w \subseteq v[n]
        BY <2>1, <2>4 DEF ClosedUp
      <3>2. ClosedUp(v[n])
        BY <1>1, <2>4, <3>1 DEF ClosedUp, SuccessorsAreFacts
      <3> QED
        BY <2>2, <2>3, <3>2
    <2>5. CASE ~ClosedUp(w)
      <3>1. PICK g \in w \intersect DOMAIN facts :
                facts[g].superseded_by # NULL /\ facts[g].superseded_by \notin w
        BY <2>5 DEF ClosedUp
      <3> DEFINE s == facts[g].superseded_by
      <3>2. Met(n - 1) \union {s} \subseteq Met(n) /\ s \notin Met(n - 1)
        BY <2>1, <3>1
      <3>3. Met(n) \subseteq FactIds /\ Met(n - 1) \subseteq FactIds
        BY <1>6, <2>2
      <3> HIDE DEF Met, s
      <3>4. IsFiniteSet(Met(n)) /\ IsFiniteSet(Met(n - 1))
        BY <1>1, <3>3, FS_Subset
      <3>5. IsFiniteSet(Met(n - 1) \union {s})
            /\ Cardinality(Met(n - 1) \union {s}) = Cardinality(Met(n - 1)) + 1
        BY <3>2, <3>4, FS_AddElement
      <3>6. Cardinality(Met(n - 1) \union {s}) <= Cardinality(Met(n))
        BY <3>2, <3>4, FS_Subset
      <3>7. (n - 1) + 1 <= Cardinality(Met(n - 1))
        BY <1>6, <2>5
      <3>8. Cardinality(Met(n - 1)) \in Nat /\ Cardinality(Met(n)) \in Nat
        BY <3>4, FS_CardinalityType
      <3>9. n + 1 <= Cardinality(Met(n))
        BY <1>1, <3>5, <3>6, <3>7, <3>8
      <3> QED
        BY <2>2, <2>3, <3>9
    <2> QED
      BY <2>4, <2>5
  <1> HIDE DEF Fine
  <1>7. Fine(N)
    <2> SUFFICES ASSUME T # {} PROVE FALSE
      BY <1>1
    <2>1. T \in SUBSET Nat
      BY <1>1
    <2>2. PICK m \in T : \A k \in T : m <= k
      <3> HIDE DEF T
      <3> QED
        BY <2>1, LeastNumber
    <2>3. m \in 0..N /\ m # 0 /\ ~Fine(m)
      BY <1>5, <2>2
    <2>4. m - 1 \in 0..N /\ ~(m <= m - 1)
      BY <1>1, <2>3
    <2>5. Fine(m - 1)
      BY <2>2, <2>4
    <2> QED
      BY <1>6, <2>3, <2>5
  <1>8. ClosedUp(v[N])
    <2> SUFFICES ASSUME N + 1 <= Cardinality(Met(N)) PROVE FALSE
      BY <1>7 DEF Fine
    <2>1. Met(N) \subseteq FactIds
      BY <1>7 DEF Fine
    <2>2. Cardinality(Met(N)) <= N /\ IsFiniteSet(Met(N))
      <3> HIDE DEF Met
      <3> QED
        BY <1>1, <2>1, FS_Subset
    <2>3. Cardinality(Met(N)) \in Nat
      BY <2>2, FS_CardinalityType
    <2> QED
      BY <1>1, <2>2, <2>3
  <1>9. ClosedUp(v[N] \ {NULL})
    BY <1>8 DEF ClosedUp
  <1> QED
    BY <1>1, <1>2, <1>7, <1>9 DEF Fine

-----------------------------------------------------------------------------
(* What links and deletions do to the chains *)

ChainsAreLeast ==
    \A f \in FactIds :
        /\ f \in Chain(f) /\ Chain(f) \subseteq FactIds /\ ClosedUp(Chain(f))
        /\ \A S : f \in S /\ ClosedUp(S) => Chain(f) \subseteq S

\* Chain() in a state, and
LEMMA Chains == SuccessorsAreFacts => ChainsAreLeast
  BY ChainIsLeast DEF ChainsAreLeast

\* in the state after a step.
LEMMA ChainsAfter == SuccessorsAreFacts' => ChainsAreLeast'
  BY Chains, PTL

\* ON DELETE SET NULL: a successor is a row that exists.
NoDangling ==
    \A g \in DOMAIN facts :
        facts[g].superseded_by # NULL => facts[g].superseded_by \in DOMAIN facts

\* The link that is about to be made would not close a cycle.
LinkIsSafe ==
    /\ linking # <<>> => /\ linking[1] \in FactIds /\ linking[2] \in FactIds
                         /\ linking[1] \notin Chain(linking[2])

LinksSound == SuccessorsAreFacts /\ NoDangling /\ SupersessionEnds /\ LinkIsSafe

\* What every step but supersede()'s update does to the links: some are cut.
LinksOnlyCut ==
    \A g \in DOMAIN facts' :
        \/ facts'[g].superseded_by = NULL
        \/ g \in DOMAIN facts /\ facts'[g].superseded_by = facts[g].superseded_by

\* While no link dangles, a chain stays among the rows that exist,
LEMMA ChainInDomain ==
    ASSUME SuccessorsAreFacts, NoDangling
    PROVE  \A f \in DOMAIN facts : f \in FactIds /\ Chain(f) \subseteq DOMAIN facts
  <1>1. ClosedUp(DOMAIN facts)
    BY DEF ClosedUp, NoDangling
  <1> QED
    BY <1>1, Chains DEF ChainsAreLeast, SuccessorsAreFacts

ChainsInDomain == \A f \in DOMAIN facts : f \in FactIds /\ Chain(f) \subseteq DOMAIN facts

\* and so it does after a step.
LEMMA ChainsInDomainAfter == SuccessorsAreFacts' /\ NoDangling' => ChainsInDomain'
  <1>1. SuccessorsAreFacts /\ NoDangling => ChainsInDomain
    BY ChainInDomain DEF ChainsInDomain
  <1> QED
    BY <1>1, PTL

\* Cutting links, as deletions and retractions do, closes no cycle.
LEMMA CuttingKeepsChains ==
    ASSUME LinksSound, SuccessorsAreFacts', NoDangling', LinksOnlyCut
    PROVE  SupersessionEnds' /\ (UNCHANGED linking => LinkIsSafe')
  <1>1. ChainsAreLeast /\ ChainsAreLeast' /\ ChainsInDomain'
    BY Chains, ChainsAfter, ChainsInDomainAfter DEF LinksSound
  <1>2. SupersessionEnds'
    <2> SUFFICES ASSUME NEW f \in DOMAIN facts',
                        \A g \in Chain(f)' : g \in DOMAIN facts' => facts'[g].superseded_by # NULL
                 PROVE  FALSE
      BY DEF SupersessionEnds
    <2>0. PICK C : C = Chain(f)'
      OBVIOUS
    <2>1. f \in FactIds /\ C \subseteq DOMAIN facts' /\ f \in C
      BY <1>1, <2>0 DEF ChainsInDomain, ChainsAreLeast
    <2>2. \A g \in C : /\ g \in DOMAIN facts
                       /\ facts'[g].superseded_by = facts[g].superseded_by
                       /\ facts[g].superseded_by # NULL
      BY <2>0, <2>1 DEF LinksOnlyCut
    <2>3. \A g \in C : facts[g].superseded_by \in C
      <3>1. \A g \in C \intersect DOMAIN facts' :
               facts'[g].superseded_by # NULL => facts'[g].superseded_by \in C
        BY <1>1, <2>0, <2>1 DEF ChainsAreLeast, ClosedUp
      <3> QED
        BY <2>1, <2>2, <3>1
    <2>4. ClosedUp(C)
      BY <2>3 DEF ClosedUp
    <2>5. Chain(f) \subseteq C
      BY <1>1, <2>1, <2>4 DEF ChainsAreLeast
    <2>6. PICK g \in Chain(f) : g \in DOMAIN facts /\ facts[g].superseded_by = NULL
      BY <2>1, <2>2 DEF LinksSound, SupersessionEnds
    <2> QED
      BY <2>2, <2>5, <2>6
  <1>3. ASSUME UNCHANGED linking, linking # <<>> PROVE linking[1] \notin Chain(linking[2])'
    <2>1. PICK n : n = linking[2]
      OBVIOUS
    <2>2. PICK C : C = Chain(n)
      OBVIOUS
    <2>3. n \in FactIds /\ linking[1] \notin C
      BY <1>3, <2>1, <2>2 DEF LinksSound, LinkIsSafe
    <2>4. n \in C /\ ClosedUp(C)
      BY <1>1, <2>2, <2>3 DEF ChainsAreLeast
    <2>5. \A g \in C \intersect DOMAIN facts' :
             facts'[g].superseded_by # NULL => facts'[g].superseded_by \in C
      BY <2>4 DEF ClosedUp, LinksOnlyCut
    <2>6. ClosedUp(C)'
      BY <2>5 DEF ClosedUp
    <2>7. Chain(n)' \subseteq C
      BY <1>1, <2>3, <2>4, <2>6 DEF ChainsAreLeast
    <2> QED
      BY <1>3, <2>1, <2>3, <2>7
  <1> QED
    BY <1>2, <1>3 DEF LinkIsSafe, LinksSound

\* The checked link leads away from the chain it lengthens.
LEMMA LinkingKeepsChains ==
    ASSUME LinksSound, SuccessorsAreFacts', NoDangling',
           NEW old \in DOMAIN facts, NEW new \in DOMAIN facts, old \notin Chain(new),
           DOMAIN facts' = DOMAIN facts, facts'[old].superseded_by = new,
           \A g \in DOMAIN facts : g # old => facts'[g].superseded_by = facts[g].superseded_by
    PROVE  SupersessionEnds'
  <1>1. ChainsAreLeast /\ ChainsAreLeast' /\ ChainsInDomain' /\ ChainsInDomain
    BY Chains, ChainsAfter, ChainInDomain, ChainsInDomainAfter DEF LinksSound, ChainsInDomain
  <1> SUFFICES ASSUME NEW f \in DOMAIN facts',
                      \A g \in Chain(f)' : g \in DOMAIN facts' => facts'[g].superseded_by # NULL
               PROVE  FALSE
    BY DEF SupersessionEnds
  <1>2. PICK C : C = Chain(f)'
    OBVIOUS
  <1>3. PICK D : D = Chain(new)
    OBVIOUS
  <1>4. f \in FactIds /\ C \subseteq DOMAIN facts /\ f \in C
    BY <1>1, <1>2 DEF ChainsInDomain, ChainsAreLeast
  <1>5. /\ new \in FactIds /\ new \in D /\ D \subseteq DOMAIN facts /\ old \notin D
        /\ \A g \in D : facts[g].superseded_by # NULL => facts[g].superseded_by \in D
    BY <1>1, <1>3 DEF ChainsInDomain, ChainsAreLeast, ClosedUp
  <1>6. \A g \in C : facts'[g].superseded_by # NULL /\ facts'[g].superseded_by \in C
    <2>1. \A g \in C \intersect DOMAIN facts' :
             facts'[g].superseded_by # NULL => facts'[g].superseded_by \in C
      BY <1>1, <1>2, <1>4 DEF ChainsAreLeast, ClosedUp
    <2> QED
      BY <1>2, <1>4, <2>1
  <1>7. CASE old \in C
    <2>1. new \in C \intersect D
      BY <1>5, <1>6, <1>7
    <2>2. ClosedUp(C \intersect D)
      BY <1>4, <1>5, <1>6 DEF ClosedUp
    <2>3. D \subseteq C \intersect D
      BY <1>1, <1>3, <1>5, <2>1, <2>2 DEF ChainsAreLeast
    <2>4. PICK e \in D : e \in DOMAIN facts /\ facts[e].superseded_by = NULL
      BY <1>3 DEF LinksSound, SupersessionEnds
    <2> QED
      BY <1>5, <1>6, <2>3, <2>4
  <1>8. CASE old \notin C
    <2>1. ClosedUp(C)
      BY <1>4, <1>6, <1>8 DEF ClosedUp
    <2>2. Chain(f) \subseteq C
      BY <1>1, <1>4, <2>1 DEF ChainsAreLeast
    <2>3. PICK e \in Chain(f) : e \in DOMAIN facts /\ facts[e].superseded_by = NULL
      BY <1>4 DEF LinksSound, SupersessionEnds
    <2> QED
      BY <1>6, <1>8, <2>2, <2>3
  <1> QED
    BY <1>7, <1>8

-----------------------------------------------------------------------------
(* Types *)

Ents == {x.ent : x \in Said}
Objs == {x.obj : x \in Said}

FactRow ==
    [ent : Ents, obj : Objs, conf : 0..100, domain : MemoryDomain, src : Ext,
     aged : BOOLEAN, superseded_by : FactIds \union {NULL}]

BufferRow == [inc : FactIds, src : Ext, resolution : Resolutions \union {"open"}]

WorkerRow ==
    [pc : {"idle", "claiming", "extract", "detect", "quarantine", "flag", "commit", "embed"},
     batch : Seq(Ext), k : Nat, known : SUBSET Ents, todo : SUBSET FactIds,
     hit : BOOLEAN, tries : Nat]

WorkersTyped ==
    /\ worker \in [Creators -> WorkerRow]
    /\ \A c \in Creators : worker[c].pc = "idle" <=> worker[c].batch = <<>>

LakeTyped ==
    /\ content \in Contents
    /\ status \in [Ext -> {"absent", "unprocessed", "processing", "processed",
                           "malformed", "quarantined"}]
    /\ arrived \in Seq(Ext)
    /\ recording \in [Recorders -> Ext \union {None}]
    /\ commits \in [Ext -> Nat]

FactsTyped ==
    /\ DOMAIN facts \subseteq used /\ used \subseteq FactIds
    /\ \A f \in DOMAIN facts : facts[f] \in FactRow
    /\ \A b \in buffer : b \in BufferRow /\ b.inc \in used
    /\ due \subseteq used /\ entities \subseteq Ents
    /\ sweep \in [pc : {"idle", "read", "delete"}, cursor : Nat, doomed : SUBSET FactIds]
    /\ linking = <<>> \/ linking \in used \X used

TodoTyped == \A c \in Creators : worker[c].todo \subseteq used

SetWorkerIs(c, w) ==
    /\ worker' \in [Creators -> WorkerRow] /\ worker'[c] = w
    /\ \A d \in Creators : d # c => worker'[d] = worker[d]

\* Only the creator that steps is moved.
LEMMA SetWorkerGives ==
    ASSUME worker \in [Creators -> WorkerRow], NEW c \in Creators, NEW w \in WorkerRow,
           SetWorker(c, w)
    PROVE  SetWorkerIs(c, w)
  BY DEF SetWorker, SetWorkerIs

\* A creator that waits holds no batch and contests nothing.
LEMMA IdleIsARow == Idle \in WorkerRow /\ Idle.batch = <<>> /\ Idle.pc = "idle" /\ Idle.todo = {}
                    /\ Idle.hit = FALSE /\ Idle.k = 1
  BY DEF Idle, WorkerRow

\* What the extractor finds in a signal of this behaviour.
LEMMA FoundIsSaid ==
    ASSUME content \in Contents, NEW e \in Ext
    PROVE  /\ content[e].facts \in Seq(Said)
           /\ \A i \in 1..Len(content[e].facts) :
                LET x == content[e].facts[i] IN
                x \in Said /\ x.conf \in 0..100 /\ x.domain \in MemoryDomain
                /\ x.ent \in Ents /\ x.obj \in Objs
           /\ Candidates(e) \in {content[e].facts, <<>>}
  <1>1. content[e].facts \in Sayings
    BY DEF Sayings
  <1>2. content[e].facts \in Seq(Said)
    BY <1>1, SayingsAssumption
  <1>3. \A i \in 1..Len(content[e].facts) : content[e].facts[i] \in Said
    BY <1>2
  <1>4. \A x \in Said : x.conf \in 0..100 /\ x.domain \in MemoryDomain
                        /\ x.ent \in Ents /\ x.obj \in Objs
    BY SayingsAssumption DEF Ents, Objs
  <1>5. Candidates(e) \in {content[e].facts, <<>>}
    BY DEF Candidates
  <1> QED
    BY <1>2, <1>3, <1>4, <1>5

\* What a creator holds when it goes on to the next signal of its batch.
Advanced(w, batch) ==
    /\ w.todo = {} /\ w.hit = FALSE /\ w.k = 1 /\ w.batch = Tail(batch)
    /\ w.pc = IF Tail(batch) = <<>> THEN "idle" ELSE "extract"

\* process_batch goes on to the next signal of the batch, or is done with it.
LEMMA NextSignalGives ==
    ASSUME WorkersTyped, NEW c \in Creators, worker[c].pc # "idle", NextSignal(c)
    PROVE  /\ WorkersTyped' /\ Advanced(worker'[c], worker[c].batch)
           /\ \A d \in Creators : d # c => worker'[d] = worker[d]
  <1> DEFINE rest == Tail(worker[c].batch)
             w == IF rest = <<>> THEN Idle
                  ELSE [Idle EXCEPT !.pc = "extract", !.batch = rest]
  <1>1. worker[c].batch \in Seq(Ext) /\ worker[c].batch # <<>>
    BY DEF WorkersTyped, WorkerRow
  <1>2. rest \in Seq(Ext)
    BY <1>1
  <1>3. SetWorker(c, w)
    BY DEF NextSignal
  <1>4. w \in WorkerRow /\ w.todo = {} /\ w.hit = FALSE /\ w.k = 1 /\ w.batch = rest
        /\ w.pc = IF rest = <<>> THEN "idle" ELSE "extract"
    <2> HIDE DEF rest
    <2>1. CASE rest = <<>>
      BY <2>1, IdleIsARow
    <2>2. CASE rest # <<>>
      BY <1>2, <2>2 DEF Idle, WorkerRow
    <2> QED
      BY <2>1, <2>2
  <1> HIDE DEF w, rest
  <1>5. SetWorkerIs(c, w)
    BY <1>3, <1>4, SetWorkerGives DEF WorkersTyped
  <1>6. Advanced(worker'[c], worker[c].batch)
    BY <1>4, <1>5 DEF Advanced, SetWorkerIs, rest
  <1>7. WorkersTyped'
    BY <1>4, <1>5 DEF WorkersTyped, SetWorkerIs
  <1> QED
    BY <1>5, <1>6, <1>7 DEF SetWorkerIs

-----------------------------------------------------------------------------
(* The lake and the creators *)

NoRepeats(s) == \A i, j \in 1..Len(s) : s[i] = s[j] => i = j

\* A signal is one row from its insert on.
ArrivedOnce ==
    /\ NoRepeats(arrived)
    /\ \A e \in Ext : status[e] = "absent" <=> e \notin Rows(arrived)

\* What a creator holds at each point of process_signal.
HoldsItsPlace(c) ==
    LET w == worker[c] IN
    /\ w.k >= 1
    /\ w.pc \in {"idle", "claiming", "extract"} => w.k = 1
    /\ w.pc \notin {"quarantine", "embed"} => w.todo = {}
    /\ w.hit => w.pc \in {"detect", "quarantine", "flag"}
    /\ w.pc = "detect" => w.k <= Len(content[Head(w.batch)].facts)
    /\ w.pc \in {"detect", "quarantine"} => Head(w.batch) \notin stub
    /\ \A i \in 1..Len(w.batch) : status[w.batch[i]] # "absent"

LakeInv ==
    /\ LakeTyped /\ WorkersTyped /\ ArrivedOnce
    /\ \A c \in Creators : HoldsItsPlace(c)

\* After the incumbents of one assertion: what is to be quarantined is, then the next
\* assertion, and at the end the signal is flagged or committed.
LEMMA OnwardGives ==
    ASSUME NEW w \in WorkerRow, content \in Contents, w.batch # <<>>
    PROVE  LET v == Onward(w) IN
           /\ v \in WorkerRow /\ v.batch = w.batch /\ v.k = w.k /\ v.todo = w.todo
           /\ v.hit = w.hit
           /\ \/ w.todo # {} /\ v.pc = "quarantine"
              \/ w.todo = {} /\ v.pc = "detect" /\ w.k <= Len(content[Head(w.batch)].facts)
              \/ w.todo = {} /\ v.pc = IF w.hit THEN "flag" ELSE "commit"
  <1>1. ASSUME NEW q \in {"quarantine", "detect", "flag", "commit"}
        PROVE  LET v == [w EXCEPT !.pc = q] IN
               /\ v \in WorkerRow /\ v.batch = w.batch /\ v.k = w.k /\ v.todo = w.todo
               /\ v.hit = w.hit /\ v.pc = q
    BY <1>1 DEF WorkerRow
  <1>2. CASE w.todo # {}
    <2>1. Onward(w) = [w EXCEPT !.pc = "quarantine"]
      BY <1>2 DEF Onward
    <2> QED
      BY <1>1, <1>2, <2>1
  <1>3. CASE w.todo = {} /\ w.k <= Len(content[Head(w.batch)].facts)
    <2>1. Onward(w) = [w EXCEPT !.pc = "detect"]
      BY <1>3 DEF Onward
    <2> QED
      BY <1>1, <1>3, <2>1
  <1>4. CASE w.todo = {} /\ ~(w.k <= Len(content[Head(w.batch)].facts))
    <2>1. Onward(w) = [w EXCEPT !.pc = AfterDetection(w.hit)]
      BY <1>4 DEF Onward
    <2>2. AfterDetection(w.hit) = IF w.hit THEN "flag" ELSE "commit"
      BY DEF AfterDetection
    <2>3. AfterDetection(w.hit) \in {"flag", "commit"}
      BY <2>2
    <2> HIDE DEF AfterDetection
    <2> QED
      BY <1>1, <1>4, <2>1, <2>2, <2>3
  <1> QED
    BY <1>2, <1>3, <1>4

\* A step of the other actors leaves the lake and the creators alone.
LEMMA OthersKeepTheLake ==
    ASSUME LakeInv, UNCHANGED <<lake, worker, content, commits>>
    PROVE  LakeInv'
  <1>1. UNCHANGED <<arrived, status, stub, recording, worker, content, commits>>
    BY DEF lake
  <1>2. LakeTyped' /\ WorkersTyped' /\ ArrivedOnce'
    BY <1>1 DEF LakeInv, LakeTyped, WorkersTyped, ArrivedOnce
  <1>3. \A c \in Creators : HoldsItsPlace(c)'
    BY <1>1 DEF LakeInv, HoldsItsPlace
  <1> QED
    BY <1>2, <1>3 DEF LakeInv

\* A creator's step: the rows of its batch stay, and what it holds is right.
LEMMA CreatorKeepsTheLake ==
    ASSUME LakeInv, NEW c \in Creators, UNCHANGED <<arrived, stub, recording, content>>,
           status' \in [Ext -> {"absent", "unprocessed", "processing", "processed",
                               "malformed", "quarantined"}],
           commits' \in [Ext -> Nat],
           \A e \in Ext : status'[e] = "absent" <=> status[e] = "absent",
           WorkersTyped', \A d \in Creators : d # c => worker'[d] = worker[d],
           HoldsItsPlace(c)'
    PROVE  LakeInv'
  <1>1. LakeTyped' /\ ArrivedOnce'
    BY DEF LakeInv, LakeTyped, ArrivedOnce
  <1>2. ASSUME NEW d \in Creators PROVE HoldsItsPlace(d)'
    <2>1. CASE d = c
      BY <2>1
    <2>2. CASE d # c
      <3>1. worker'[d] = worker[d] /\ HoldsItsPlace(d)
        BY <2>2 DEF LakeInv
      <3>2. \A i \in 1..Len(worker[d].batch) : worker[d].batch[i] \in Ext
        BY DEF LakeInv, WorkersTyped, WorkerRow
      <3> QED
        BY <3>1, <3>2 DEF HoldsItsPlace
    <2> QED
      BY <2>1, <2>2
  <1> QED
    BY <1>1, <1>2 DEF LakeInv

\* A creator that leaves a signal behind is right about those it still has.
LEMMA AdvancingHoldsPlace ==
    ASSUME LakeInv, NEW c \in Creators, worker[c].pc # "idle",
           \A e \in Ext : status'[e] = "absent" <=> status[e] = "absent",
           Advanced(worker'[c], worker[c].batch)
    PROVE  HoldsItsPlace(c)'
  <1> DEFINE b == worker[c].batch
  <1>1. b \in Seq(Ext) /\ b # <<>> /\ \A i \in 1..Len(b) : status[b[i]] # "absent" /\ b[i] \in Ext
    BY DEF LakeInv, WorkersTyped, WorkerRow, HoldsItsPlace
  <1> HIDE DEF b
  <1>2. \A i \in 1..Len(Tail(b)) : i + 1 \in 1..Len(b) /\ Tail(b)[i] = b[i + 1]
    BY <1>1
  <1>3. \A i \in 1..Len(Tail(b)) : status'[Tail(b)[i]] # "absent"
    BY <1>1, <1>2
  <1> QED
    BY <1>3 DEF Advanced, HoldsItsPlace, b

\* A creator that works has a batch, and its head is a row of the lake.
LEMMA BatchInHand ==
    ASSUME LakeInv, NEW c \in Creators, worker[c].pc # "idle"
    PROVE  LET b == worker[c].batch IN
           /\ b \in Seq(Ext) /\ b # <<>> /\ Len(b) \in Nat /\ 1 \in 1..Len(b)
           /\ Head(b) = b[1] /\ Head(b) \in Ext /\ status[Head(b)] # "absent"
           /\ Current(c) = Head(b)
  <1> DEFINE b == worker[c].batch
  <1>1. b \in Seq(Ext) /\ b # <<>> /\ \A i \in 1..Len(b) : status[b[i]] # "absent"
    BY DEF LakeInv, WorkersTyped, WorkerRow, HoldsItsPlace
  <1> HIDE DEF b
  <1>2. Len(b) \in Nat /\ 1 \in 1..Len(b) /\ Head(b) = b[1] /\ Head(b) \in Ext
    BY <1>1
  <1> QED
    BY <1>1, <1>2 DEF Current, b

\* mark_processed, mark_malformed and the flag of a quarantined signal.
LEMMA SettleKeepsTheLake ==
    ASSUME LakeInv, NEW c \in Creators, worker[c].pc # "idle",
           NEW outcome \in {"malformed", "processed", "quarantined"}, Settle(c, outcome),
           UNCHANGED <<arrived, stub, recording, content, commits>>
    PROVE  /\ LakeInv' /\ Advanced(worker'[c], worker[c].batch)
           /\ \A d \in Creators : d # c => worker'[d] = worker[d]
           /\ status' = [status EXCEPT ![Head(worker[c].batch)] = outcome]
  <1>1. PICK e \in Ext : e = Head(worker[c].batch) /\ e = Current(c) /\ status[e] # "absent"
    BY BatchInHand
  <1>2. status' = [status EXCEPT ![e] = outcome]
    BY <1>1 DEF Settle
  <1>3. /\ status' \in [Ext -> {"absent", "unprocessed", "processing", "processed",
                                "malformed", "quarantined"}]
        /\ \A x \in Ext : status'[x] = "absent" <=> status[x] = "absent"
    BY <1>1, <1>2 DEF LakeInv, LakeTyped
  <1>4. /\ WorkersTyped' /\ Advanced(worker'[c], worker[c].batch)
        /\ \A d \in Creators : d # c => worker'[d] = worker[d]
    BY NextSignalGives DEF Settle, LakeInv
  <1>5. HoldsItsPlace(c)'
    BY <1>3, <1>4, AdvancingHoldsPlace
  <1>6. commits' \in [Ext -> Nat]
    BY DEF LakeInv, LakeTyped
  <1>7. LakeInv'
    BY <1>3, <1>4, <1>5, <1>6, CreatorKeepsTheLake
  <1> QED
    BY <1>1, <1>2, <1>4, <1>7

\* record(): the lookup by idempotency key and the insert that may meet a conflict.
LEMMA RecordingKeepsTheLake ==
    ASSUME LakeInv, UNCHANGED content, NEW r \in Recorders,
           (\E e \in Ext : RecordLookup(r, e)) \/ RecordInsert(r)
    PROVE  /\ LakeInv' /\ UNCHANGED <<worker, commits>>
           /\ \A e \in Ext : status[e] # "absent" => status'[e] = status[e]
           /\ \A e \in Ext : status'[e] # status[e] => status'[e] = "unprocessed"
  <1>1. CASE \E e \in Ext : RecordLookup(r, e)
    <2>1. PICK e \in Ext : RecordLookup(r, e)
      BY <1>1
    <2>2. UNCHANGED <<arrived, status, stub, worker, content, commits>>
          /\ recording' = [recording EXCEPT ![r] = e]
      BY <2>1 DEF RecordLookup
    <2>3. LakeTyped' /\ WorkersTyped' /\ ArrivedOnce'
      BY <2>2 DEF LakeInv, LakeTyped, WorkersTyped, ArrivedOnce
    <2>4. \A c \in Creators : HoldsItsPlace(c)'
      BY <2>2 DEF LakeInv, HoldsItsPlace
    <2> QED
      BY <2>2, <2>3, <2>4 DEF LakeInv
  <1>2. CASE RecordInsert(r)
    <2>1. PICK e \in Ext : e = recording[r]
      BY <1>2 DEF RecordInsert, LakeInv, LakeTyped
    <2>2. InsertSignal(e) /\ recording' = [recording EXCEPT ![r] = None]
          /\ UNCHANGED <<worker, content, commits>>
      BY <1>2, <2>1 DEF RecordInsert
    <2>3. recording' \in [Recorders -> Ext \union {None}]
      BY <2>2 DEF LakeInv, LakeTyped
    <2>4. CASE status[e] # "absent"
      <3>1. UNCHANGED <<status, arrived, stub>>
        BY <2>2, <2>4 DEF InsertSignal
      <3>2. LakeTyped' /\ WorkersTyped' /\ ArrivedOnce'
        BY <2>2, <2>3, <3>1 DEF LakeInv, LakeTyped, WorkersTyped, ArrivedOnce
      <3>3. \A c \in Creators : HoldsItsPlace(c)'
        BY <2>2, <3>1 DEF LakeInv, HoldsItsPlace
      <3> QED
        BY <2>2, <3>1, <3>2, <3>3 DEF LakeInv
    <2>5. CASE status[e] = "absent"
      <3>1. /\ status' = [status EXCEPT ![e] = "unprocessed"] /\ arrived' = Append(arrived, e)
            /\ stub' \subseteq stub \union {e}
        BY <2>2, <2>5 DEF InsertSignal
      <3>2. /\ status' \in [Ext -> {"absent", "unprocessed", "processing", "processed",
                                    "malformed", "quarantined"}]
            /\ status'[e] = "unprocessed" /\ \A x \in Ext : x # e => status'[x] = status[x]
        BY <3>1 DEF LakeInv, LakeTyped
      <3>3. arrived \in Seq(Ext) /\ e \notin Rows(arrived) /\ NoRepeats(arrived)
        BY <2>5 DEF LakeInv, LakeTyped, ArrivedOnce
      <3>4. /\ arrived' \in Seq(Ext) /\ Len(arrived') = Len(arrived) + 1 /\ Len(arrived) \in Nat
            /\ \A i \in 1..Len(arrived) : arrived'[i] = arrived[i]
            /\ arrived'[Len(arrived) + 1] = e
        BY <3>1, <3>3
      <3>5. \A i \in 1..Len(arrived') : i \in 1..Len(arrived) \/ i = Len(arrived) + 1
        BY <3>4
      <3>6. NoRepeats(arrived)'
        BY <3>3, <3>4, <3>5 DEF NoRepeats, Rows
      <3>7. Rows(arrived') = Rows(arrived) \union {e}
        BY <3>4, <3>5 DEF Rows
      <3>8. ArrivedOnce'
        BY <3>2, <3>6, <3>7 DEF ArrivedOnce, LakeInv
      <3>9. LakeTyped' /\ WorkersTyped'
        BY <2>2, <2>3, <3>2, <3>4 DEF LakeInv, LakeTyped, WorkersTyped
      <3>10. ASSUME NEW c \in Creators PROVE HoldsItsPlace(c)'
        <4>1. HoldsItsPlace(c) /\ worker'[c] = worker[c]
          BY <2>2 DEF LakeInv
        <4>2. \A i \in 1..Len(worker[c].batch) : worker[c].batch[i] \in Ext
                 /\ status[worker[c].batch[i]] # "absent"
          BY <4>1 DEF LakeInv, WorkersTyped, WorkerRow, HoldsItsPlace
        <4>3. worker[c].pc # "idle" => Head(worker[c].batch) # e
          BY <2>5, BatchInHand
        <4> QED
          BY <2>2, <3>1, <3>2, <4>1, <4>2, <4>3 DEF HoldsItsPlace
      <3> QED
        BY <2>2, <2>5, <3>2, <3>8, <3>9, <3>10 DEF LakeInv
    <2> QED
      BY <2>4, <2>5
  <1> QED
    BY <1>1, <1>2

\* claim_unprocessed(): the oldest rows go to one creator.
LEMMA ClaimSelectKeepsTheLake ==
    ASSUME LakeInv, UNCHANGED content, NEW c \in Creators, ClaimSelect(c)
    PROVE  /\ LakeInv' /\ UNCHANGED commits
           /\ worker'[c].todo = {} /\ worker'[c].hit = FALSE /\ worker'[c].batch = Oldest(BatchLimit)
           /\ worker'[c].pc = IF Substrate = "sqlite" THEN "extract" ELSE "claiming"
           /\ \A d \in Creators : d # c => worker'[d] = worker[d]
  <1> DEFINE batch == Oldest(BatchLimit)
  <1>1. /\ batch \in Seq(Ext) /\ batch # <<>>
        /\ \A k \in 1..Len(batch) : status[batch[k]] = "unprocessed"
    <2>1. \A i, j \in 1..Len(arrived) : arrived[i] = arrived[j] => i = j
      BY DEF LakeInv, ArrivedOnce, NoRepeats
    <2> QED
      BY <2>1, OldestIsABatch, MemoryAssumption DEF ClaimSelect, LakeInv, LakeTyped
  <1> DEFINE pc == IF Substrate = "sqlite" THEN "extract" ELSE "claiming"
             w == [Idle EXCEPT !.pc = pc, !.batch = batch]
  <1>2. UNCHANGED <<arrived, stub, recording, commits>>
    BY DEF ClaimSelect
  <1>3. SetWorker(c, w)
    BY DEF ClaimSelect
  <1>4. \/ status' = [e \in Ext |-> IF e \in Rows(batch) THEN "processing" ELSE status[e]]
        \/ status' = status
    BY DEF ClaimSelect
  <1> HIDE DEF batch
  <1>5. w \in WorkerRow /\ w.todo = {} /\ w.hit = FALSE /\ w.k = 1 /\ w.batch = batch /\ w.pc = pc
    BY <1>1 DEF Idle, WorkerRow
  <1> HIDE DEF w
  <1>6. SetWorkerIs(c, w)
    BY <1>3, <1>5, SetWorkerGives DEF LakeInv, WorkersTyped
  <1>7. \A e \in Rows(batch) : status[e] = "unprocessed"
    BY <1>1 DEF Rows
  <1>8. /\ status' \in [Ext -> {"absent", "unprocessed", "processing", "processed",
                                "malformed", "quarantined"}]
        /\ \A x \in Ext : status'[x] = "absent" <=> status[x] = "absent"
    <2>1. status \in [Ext -> {"absent", "unprocessed", "processing", "processed",
                             "malformed", "quarantined"}]
      BY DEF LakeInv, LakeTyped
    <2> QED
      BY <1>4, <1>7, <2>1
  <1>9. WorkersTyped'
    BY <1>1, <1>5, <1>6 DEF LakeInv, WorkersTyped, SetWorkerIs
  <1>10. \A k \in 1..Len(batch) : status'[batch[k]] # "absent"
    BY <1>1, <1>8
  <1>11. HoldsItsPlace(c)'
    BY <1>5, <1>6, <1>10 DEF HoldsItsPlace, SetWorkerIs
  <1>12. commits' \in [Ext -> Nat]
    BY <1>2 DEF LakeInv, LakeTyped
  <1>13. \A d \in Creators : d # c => worker'[d] = worker[d]
    BY <1>6 DEF SetWorkerIs
  <1>14. LakeInv'
    BY <1>2, <1>8, <1>9, <1>11, <1>12, <1>13, CreatorKeepsTheLake
  <1> QED
    BY <1>2, <1>5, <1>6, <1>14 DEF SetWorkerIs, batch

\* On Postgres the update of a claim is a statement of its own.
LEMMA ClaimUpdateKeepsTheLake ==
    ASSUME LakeInv, UNCHANGED content, NEW c \in Creators, ClaimUpdate(c)
    PROVE  /\ LakeInv' /\ UNCHANGED commits
           /\ worker'[c].todo = {} /\ worker'[c].hit = FALSE
           /\ \A d \in Creators : d # c => worker'[d] = worker[d]
  <1>1. /\ worker[c].pc = "claiming" /\ UNCHANGED <<arrived, stub, recording, commits>>
        /\ status' = [e \in Ext |-> IF e \in Rows(worker[c].batch) /\ status[e] = "unprocessed"
                                    THEN "processing" ELSE status[e]]
    BY DEF ClaimUpdate
  <1>2. PICK w : w = [worker[c] EXCEPT !.pc = "extract"]
    OBVIOUS
  <1>3. SetWorker(c, w)
    BY <1>2 DEF ClaimUpdate
  <1>4. worker[c] \in WorkerRow
    BY DEF LakeInv, WorkersTyped
  <1>5. /\ w \in WorkerRow /\ w.pc = "extract" /\ w.batch = worker[c].batch /\ w.k = worker[c].k
        /\ w.todo = worker[c].todo /\ w.hit = worker[c].hit
    BY <1>2, <1>4 DEF WorkerRow
  <1>6. SetWorkerIs(c, w)
    BY <1>3, <1>5, SetWorkerGives DEF LakeInv, WorkersTyped
  <1>7. /\ status' \in [Ext -> {"absent", "unprocessed", "processing", "processed",
                                "malformed", "quarantined"}]
        /\ \A x \in Ext : status'[x] = "absent" <=> status[x] = "absent"
    BY <1>1 DEF LakeInv, LakeTyped
  <1>8. worker[c].batch \in Seq(Ext) /\ worker[c].batch # <<>>
    BY <1>1, BatchInHand
  <1>9. WorkersTyped'
    BY <1>5, <1>6, <1>8 DEF LakeInv, WorkersTyped, SetWorkerIs
  <1>10. w.hit = FALSE /\ w.todo = {} /\ w.k = 1
    <2>1. HoldsItsPlace(c) /\ worker[c].hit \in BOOLEAN
      BY <1>4 DEF LakeInv, WorkerRow
    <2> QED
      BY <1>1, <1>5, <2>1 DEF HoldsItsPlace
  <1>11. \A i \in 1..Len(w.batch) : status'[w.batch[i]] # "absent"
    BY <1>5, <1>7, <1>8 DEF LakeInv, HoldsItsPlace
  <1>12. HoldsItsPlace(c)'
    BY <1>5, <1>6, <1>10, <1>11 DEF HoldsItsPlace, SetWorkerIs
  <1>13. commits' \in [Ext -> Nat]
    BY <1>1 DEF LakeInv, LakeTyped
  <1>14. \A d \in Creators : d # c => worker'[d] = worker[d]
    BY <1>6 DEF SetWorkerIs
  <1>15. LakeInv'
    BY <1>1, <1>7, <1>9, <1>12, <1>13, <1>14, CreatorKeepsTheLake
  <1> QED
    BY <1>1, <1>6, <1>10, <1>14, <1>15 DEF SetWorkerIs

\* A step of a creator that leaves its batch and the lake alone.
LEMMA WorkingKeepsTheLake ==
    ASSUME LakeInv, NEW c \in Creators, worker[c].pc # "idle", NEW w \in WorkerRow,
           SetWorker(c, w), UNCHANGED <<lake, content, commits>>,
           w.batch = worker[c].batch, w.pc # "idle", w.k >= 1,
           w.pc \in {"claiming", "extract"} => w.k = 1,
           w.pc \notin {"quarantine", "embed"} => w.todo = {},
           w.hit => w.pc \in {"detect", "quarantine", "flag"},
           w.pc = "detect" => w.k <= Len(content[Head(w.batch)].facts),
           w.pc \in {"detect", "quarantine"} => Head(w.batch) \notin stub
    PROVE  LakeInv' /\ SetWorkerIs(c, w)
  <1>1. UNCHANGED <<arrived, status, stub, recording>>
    BY DEF lake
  <1>2. SetWorkerIs(c, w)
    BY SetWorkerGives DEF LakeInv, WorkersTyped
  <1>3. WorkersTyped'
    BY <1>2, BatchInHand DEF LakeInv, WorkersTyped, SetWorkerIs
  <1>4. HoldsItsPlace(c)'
    <2>1. \A i \in 1..Len(w.batch) : status[w.batch[i]] # "absent"
      BY DEF LakeInv, HoldsItsPlace
    <2> QED
      BY <1>1, <1>2, <2>1 DEF HoldsItsPlace, SetWorkerIs
  <1>5. status' \in [Ext -> {"absent", "unprocessed", "processing", "processed",
                             "malformed", "quarantined"}] /\ commits' \in [Ext -> Nat]
    BY <1>1 DEF LakeInv, LakeTyped
  <1> QED
    BY <1>1, <1>2, <1>3, <1>4, <1>5, CreatorKeepsTheLake DEF SetWorkerIs

\* _extract(): a malformed signal is settled, another one is looked into.
LEMMA ExtractKeepsTheLake ==
    ASSUME LakeInv, entities \subseteq Ents, UNCHANGED content, NEW c \in Creators, Extract(c)
    PROVE  /\ LakeInv' /\ UNCHANGED commits /\ worker[c].pc = "extract"
           /\ worker'[c].todo = {} /\ worker'[c].hit = FALSE
           /\ \A d \in Creators : d # c => worker'[d] = worker[d]
           /\ \/ /\ Advanced(worker'[c], worker[c].batch)
                 /\ \E o \in {"malformed", "processed"} :
                      status' = [status EXCEPT ![Head(worker[c].batch)] = o]
              \/ /\ UNCHANGED status /\ worker'[c].pc = "detect"
                 /\ worker'[c].batch = worker[c].batch
  <1>1. worker[c].pc = "extract" /\ UNCHANGED <<arrived, stub, recording, commits>>
    BY DEF Extract
  <1>2. ASSUME NEW o \in {"malformed", "processed"}, Settle(c, o)
        PROVE  /\ LakeInv' /\ worker'[c].todo = {} /\ worker'[c].hit = FALSE
               /\ \A d \in Creators : d # c => worker'[d] = worker[d]
               /\ Advanced(worker'[c], worker[c].batch)
               /\ status' = [status EXCEPT ![Head(worker[c].batch)] = o]
    BY <1>1, <1>2, SettleKeepsTheLake DEF Advanced
  <1>3. CASE Settle(c, "malformed")
    BY <1>1, <1>2, <1>3
  <1>4. CASE Settle(c, "processed")
    BY <1>1, <1>2, <1>4
  <1>5. CASE /\ Candidates(Current(c)) # <<>> /\ UNCHANGED status
             /\ SetWorker(c, [worker[c] EXCEPT !.pc = "detect", !.known = entities])
    <2>1. PICK e \in Ext : e = Head(worker[c].batch) /\ e = Current(c)
      BY <1>1, BatchInHand
    <2>2. e \notin stub /\ content[e].facts # <<>> /\ content[e].facts \in Seq(Said)
      BY <1>5, <2>1, FoundIsSaid DEF Candidates, LakeInv, LakeTyped
    <2>3. 1 <= Len(content[e].facts)
      BY <2>2
    <2>4. worker[c] \in WorkerRow /\ HoldsItsPlace(c)
      BY DEF LakeInv, WorkersTyped
    <2>5. PICK w : w = [worker[c] EXCEPT !.pc = "detect", !.known = entities]
      OBVIOUS
    <2>6. /\ w \in WorkerRow /\ w.pc = "detect" /\ w.batch = worker[c].batch /\ w.k = worker[c].k
          /\ w.todo = worker[c].todo /\ w.hit = worker[c].hit
      BY <2>4, <2>5 DEF WorkerRow
    <2>7. worker[c].k = 1 /\ worker[c].todo = {} /\ worker[c].hit = FALSE
      <3>1. worker[c].hit \in BOOLEAN
        BY <2>4 DEF WorkerRow
      <3> QED
        BY <1>1, <2>4, <3>1 DEF HoldsItsPlace
    <2>8. UNCHANGED <<lake, content, commits>>
      BY <1>1, <1>5 DEF lake
    <2>9. SetWorker(c, w)
      BY <1>5, <2>5
    <2>10. /\ w.k = 1 /\ w.k >= 1 /\ w.todo = {} /\ w.hit = FALSE /\ w.pc = "detect"
           /\ w.k <= Len(content[Head(w.batch)].facts) /\ Head(w.batch) \notin stub
      BY <2>1, <2>2, <2>3, <2>6, <2>7
    <2>11. LakeInv' /\ SetWorkerIs(c, w)
      BY <1>1, <2>6, <2>8, <2>9, <2>10, WorkingKeepsTheLake
    <2> QED
      BY <1>1, <1>5, <2>6, <2>10, <2>11 DEF SetWorkerIs
  <1> QED
    BY <1>3, <1>4, <1>5 DEF Extract

\* _find_contradictions() for one assertion.
LEMMA FindIncumbentsKeepsTheLake ==
    ASSUME LakeInv, FactsTyped, UNCHANGED content, NEW c \in Creators, FindIncumbents(c)
    PROVE  /\ LakeInv' /\ UNCHANGED <<status, commits>> /\ worker[c].pc = "detect"
           /\ worker'[c].batch = worker[c].batch /\ worker'[c].hit = worker[c].hit
           /\ worker'[c].pc \in {"quarantine", "detect", "flag", "commit"}
           /\ worker'[c].pc = "commit" => worker'[c].hit = FALSE
           /\ \/ worker'[c].todo = {}
              \/ \E x \in Said : worker'[c].todo = Contradicted(x)
           /\ \A d \in Creators : d # c => worker'[d] = worker[d]
  <1>1. worker[c].pc = "detect" /\ UNCHANGED <<lake, commits>>
    BY DEF FindIncumbents
  <1>2. PICK e \in Ext : e = Head(worker[c].batch) /\ e = Current(c) /\ worker[c].batch # <<>>
    BY <1>1, BatchInHand
  <1>3. worker[c] \in WorkerRow /\ HoldsItsPlace(c)
    BY DEF LakeInv, WorkersTyped
  <1>4. e \notin stub /\ worker[c].k \in 1..Len(content[e].facts) /\ worker[c].k \in Nat
    BY <1>1, <1>2, <1>3, FoundIsSaid DEF HoldsItsPlace, WorkerRow, LakeInv, LakeTyped
  <1>5. PICK x \in Said : x = Candidates(e)[worker[c].k]
    BY <1>4, FoundIsSaid DEF Candidates, LakeInv, LakeTyped
  <1>6. PICK t : t = IF x.ent \in worker[c].known THEN Contradicted(x) ELSE {}
    OBVIOUS
  <1>7. t \subseteq FactIds
    BY <1>6 DEF Contradicted, Incumbents, Live, FactsTyped
  <1>8. PICK u : u = [worker[c] EXCEPT !.k = @ + 1, !.todo = t]
    OBVIOUS
  <1>9. /\ u \in WorkerRow /\ u.batch = worker[c].batch /\ u.k = worker[c].k + 1 /\ u.todo = t
        /\ u.hit = worker[c].hit
    <2>1. PICK n \in Nat : n = worker[c].k + 1
      BY <1>4
    <2>2. t \in SUBSET FactIds
      BY <1>7
    <2>3. u = [worker[c] EXCEPT !.k = n, !.todo = t]
      BY <1>8, <2>1
    <2> QED
      BY <1>3, <2>1, <2>2, <2>3 DEF WorkerRow
  <1>10. PICK v : v = Onward(u)
    OBVIOUS
  <1>11. /\ v \in WorkerRow /\ v.batch = u.batch /\ v.k = u.k /\ v.todo = t /\ v.hit = u.hit
         /\ \/ t # {} /\ v.pc = "quarantine"
            \/ t = {} /\ v.pc = "detect" /\ u.k <= Len(content[e].facts)
            \/ t = {} /\ v.pc = IF u.hit THEN "flag" ELSE "commit"
    BY <1>2, <1>9, <1>10, OnwardGives DEF LakeInv, LakeTyped
  <1>12. SetWorker(c, v)
    BY <1>2, <1>5, <1>6, <1>8, <1>10 DEF FindIncumbents
  <1>13. v.hit \in BOOLEAN
    BY <1>11 DEF WorkerRow
  <1>14. LakeInv' /\ SetWorkerIs(c, v)
    BY <1>1, <1>2, <1>4, <1>9, <1>11, <1>12, <1>13, WorkingKeepsTheLake
  <1>15. UNCHANGED status
    BY <1>1 DEF lake
  <1> QED
    BY <1>1, <1>6, <1>9, <1>11, <1>13, <1>14, <1>15 DEF SetWorkerIs

\* quarantine() of one pair.
LEMMA QuarantineKeepsTheLake ==
    ASSUME LakeInv, UNCHANGED content, NEW c \in Creators, Quarantine(c)
    PROVE  /\ LakeInv' /\ UNCHANGED <<status, commits>> /\ worker[c].pc = "quarantine"
           /\ worker'[c].batch = worker[c].batch /\ worker'[c].hit = TRUE
           /\ worker'[c].pc \in {"quarantine", "detect", "flag"}
           /\ worker'[c].todo \subseteq worker[c].todo
           /\ \A d \in Creators : d # c => worker'[d] = worker[d]
  <1>1. worker[c].pc = "quarantine" /\ UNCHANGED <<lake, commits>>
    BY DEF Quarantine
  <1>2. PICK e \in Ext : e = Head(worker[c].batch) /\ worker[c].batch # <<>>
    BY <1>1, BatchInHand
  <1>3. worker[c] \in WorkerRow /\ HoldsItsPlace(c)
    BY DEF LakeInv, WorkersTyped
  <1>4. e \notin stub /\ worker[c].k >= 1
    BY <1>1, <1>2, <1>3 DEF HoldsItsPlace
  <1>5. PICK f : f \in worker[c].todo /\
                 SetWorker(c, Onward([worker[c] EXCEPT !.todo = @ \ {f}, !.hit = TRUE]))
    BY DEF Quarantine
  <1>6. PICK u : u = [worker[c] EXCEPT !.todo = @ \ {f}, !.hit = TRUE]
    OBVIOUS
  <1>7. /\ u \in WorkerRow /\ u.batch = worker[c].batch /\ u.k = worker[c].k
        /\ u.todo = worker[c].todo \ {f} /\ u.hit = TRUE
    BY <1>3, <1>6 DEF WorkerRow
  <1>8. PICK v : v = Onward(u)
    OBVIOUS
  <1>9. /\ v \in WorkerRow /\ v.batch = u.batch /\ v.k = u.k /\ v.todo = u.todo /\ v.hit = u.hit
        /\ \/ u.todo # {} /\ v.pc = "quarantine"
           \/ u.todo = {} /\ v.pc = "detect" /\ u.k <= Len(content[e].facts)
           \/ u.todo = {} /\ v.pc = IF u.hit THEN "flag" ELSE "commit"
    BY <1>2, <1>7, <1>8, OnwardGives DEF LakeInv, LakeTyped
  <1>10. SetWorker(c, v)
    BY <1>5, <1>6, <1>8
  <1>11. LakeInv' /\ SetWorkerIs(c, v)
    BY <1>1, <1>2, <1>4, <1>7, <1>9, <1>10, WorkingKeepsTheLake
  <1>12. UNCHANGED status
    BY <1>1 DEF lake
  <1> QED
    BY <1>1, <1>7, <1>9, <1>11, <1>12 DEF SetWorkerIs

\* _commit() of one signal's facts.
LEMMA CommitKeepsTheLake ==
    ASSUME LakeInv, UNCHANGED content, NEW c \in Creators, Commit(c)
    PROVE  /\ LakeInv' /\ worker[c].pc = "commit"
           /\ worker'[c].batch = worker[c].batch /\ worker'[c].pc = "embed"
           /\ worker'[c].hit = FALSE /\ worker[c].hit = FALSE /\ worker'[c].todo \subseteq used'
           /\ \A d \in Creators : d # c => worker'[d] = worker[d]
           /\ status' = [status EXCEPT ![Head(worker[c].batch)] = "processed"]
           /\ commits' = [commits EXCEPT ![Head(worker[c].batch)] = @ + 1]
  <1>1. PICK e \in Ext : e = Head(worker[c].batch) /\ e = Current(c) /\ status[e] # "absent"
                        /\ worker[c].batch # <<>>
    BY BatchInHand DEF Commit
  <1>2. /\ worker[c].pc = "commit" /\ UNCHANGED <<arrived, stub, recording>>
        /\ status' = [status EXCEPT ![e] = "processed"] /\ commits' = [commits EXCEPT ![e] = @ + 1]
    BY <1>1 DEF Commit
  <1>3. PICK new : /\ new \subseteq FactIds /\ used' = used \union new
                   /\ SetWorker(c, [worker[c] EXCEPT !.pc = "embed", !.todo = new])
    <2> DEFINE xs == Candidates(Current(c))
    <2>1. PICK ids \in [1..Len(xs) -> FactIds \ used] :
              /\ used' = used \union {ids[i] : i \in 1..Len(xs)}
              /\ SetWorker(c, [worker[c] EXCEPT !.pc = "embed",
                                               !.todo = {ids[i] : i \in 1..Len(xs)}])
      BY Zenon DEF Commit
    <2> HIDE DEF xs
    <2>2. {ids[i] : i \in 1..Len(xs)} \subseteq FactIds
      OBVIOUS
    <2> QED
      BY <2>1, <2>2
  <1>4. worker[c] \in WorkerRow /\ HoldsItsPlace(c)
    BY DEF LakeInv, WorkersTyped
  <1>5. PICK w : w = [worker[c] EXCEPT !.pc = "embed", !.todo = new]
    OBVIOUS
  <1>6. /\ w \in WorkerRow /\ w.pc = "embed" /\ w.batch = worker[c].batch /\ w.k = worker[c].k
        /\ w.todo = new /\ w.hit = worker[c].hit
    BY <1>3, <1>4, <1>5 DEF WorkerRow
  <1>7. SetWorkerIs(c, w)
    <2>1. SetWorker(c, w)
      BY <1>3, <1>5
    <2> QED
      BY <1>6, <2>1, SetWorkerGives DEF LakeInv, WorkersTyped
  <1>8. worker[c].hit = FALSE
    <2>1. worker[c].hit \in BOOLEAN
      BY <1>4 DEF WorkerRow
    <2> QED
      BY <1>2, <1>4, <2>1 DEF HoldsItsPlace
  <1>9. /\ status' \in [Ext -> {"absent", "unprocessed", "processing", "processed",
                                "malformed", "quarantined"}]
        /\ \A x \in Ext : status'[x] = "absent" <=> status[x] = "absent"
        /\ commits' \in [Ext -> Nat]
    BY <1>1, <1>2 DEF LakeInv, LakeTyped
  <1>10. WorkersTyped'
    BY <1>1, <1>6, <1>7 DEF LakeInv, WorkersTyped, SetWorkerIs
  <1>11. \A i \in 1..Len(w.batch) : status'[w.batch[i]] # "absent"
    BY <1>2, <1>4, <1>6, <1>9, BatchInHand DEF HoldsItsPlace
  <1>12. HoldsItsPlace(c)'
    BY <1>4, <1>6, <1>7, <1>8, <1>11 DEF HoldsItsPlace, SetWorkerIs
  <1>13. LakeInv'
    BY <1>2, <1>7, <1>9, <1>10, <1>12, CreatorKeepsTheLake DEF SetWorkerIs
  <1> QED
    BY <1>1, <1>2, <1>3, <1>6, <1>7, <1>8, <1>13 DEF SetWorkerIs

\* A commit that loses to another writer is retried or given up.
LEMMA ContendingKeepsTheLake ==
    ASSUME LakeInv, UNCHANGED content, NEW c \in Creators, CommitContended(c)
    PROVE  /\ LakeInv' /\ UNCHANGED <<status, commits>>
           /\ worker'[c].batch = worker[c].batch /\ worker'[c].pc = worker[c].pc
           /\ worker'[c].hit = worker[c].hit /\ worker'[c].todo = worker[c].todo
           /\ \A d \in Creators : d # c => worker'[d] = worker[d]
  <1>1. worker[c].pc = "commit" /\ UNCHANGED <<lake, commits>>
    BY DEF CommitContended
  <1>2. worker[c] \in WorkerRow /\ HoldsItsPlace(c)
    BY DEF LakeInv, WorkersTyped
  <1>3. PICK n \in Nat : n = worker[c].tries + 1
    BY <1>2 DEF WorkerRow
  <1>4. PICK w : w = [worker[c] EXCEPT !.tries = n]
    OBVIOUS
  <1>5. SetWorker(c, w)
    BY <1>3, <1>4 DEF CommitContended
  <1>6. /\ w \in WorkerRow /\ w.pc = worker[c].pc /\ w.batch = worker[c].batch
        /\ w.k = worker[c].k /\ w.todo = worker[c].todo /\ w.hit = worker[c].hit
    BY <1>2, <1>4 DEF WorkerRow
  <1>7. LakeInv' /\ SetWorkerIs(c, w)
    BY <1>1, <1>2, <1>5, <1>6, WorkingKeepsTheLake DEF HoldsItsPlace
  <1>8. UNCHANGED status
    BY <1>1 DEF lake
  <1> QED
    BY <1>1, <1>6, <1>7, <1>8 DEF SetWorkerIs

\* _embed(), after the commit.
LEMMA EmbedKeepsTheLake ==
    ASSUME LakeInv, UNCHANGED content, NEW c \in Creators, Embed(c)
    PROVE  /\ LakeInv' /\ UNCHANGED <<status, commits>> /\ worker[c].pc = "embed"
           /\ Advanced(worker'[c], worker[c].batch)
           /\ \A d \in Creators : d # c => worker'[d] = worker[d]
  <1>1. worker[c].pc = "embed" /\ NextSignal(c)
        /\ UNCHANGED <<arrived, status, stub, recording, commits>>
    BY DEF Embed, lake
  <1>2. /\ WorkersTyped' /\ Advanced(worker'[c], worker[c].batch)
        /\ \A d \in Creators : d # c => worker'[d] = worker[d]
    BY <1>1, NextSignalGives DEF LakeInv
  <1>3. HoldsItsPlace(c)'
    BY <1>1, <1>2, AdvancingHoldsPlace
  <1>4. status' \in [Ext -> {"absent", "unprocessed", "processing", "processed",
                             "malformed", "quarantined"}] /\ commits' \in [Ext -> Nat]
    BY <1>1 DEF LakeInv, LakeTyped
  <1>5. LakeInv'
    BY <1>1, <1>2, <1>3, <1>4, CreatorKeepsTheLake
  <1> QED
    BY <1>1, <1>2, <1>5

\* A creator dies; the rows it claimed stay as they are.
LEMMA CrashKeepsTheLake ==
    ASSUME LakeInv, UNCHANGED content, NEW c \in Creators, Crash(c)
    PROVE  /\ LakeInv' /\ UNCHANGED <<status, commits>> /\ worker'[c] = Idle
           /\ \A d \in Creators : d # c => worker'[d] = worker[d]
  <1>1. SetWorker(c, Idle) /\ UNCHANGED <<arrived, status, stub, recording, commits>>
    BY DEF Crash, lake
  <1>2. SetWorkerIs(c, Idle)
    BY <1>1, IdleIsARow, SetWorkerGives DEF LakeInv, WorkersTyped
  <1>3. WorkersTyped'
    BY <1>2, IdleIsARow DEF LakeInv, WorkersTyped, SetWorkerIs
  <1>4. HoldsItsPlace(c)'
    BY <1>2, IdleIsARow DEF HoldsItsPlace, SetWorkerIs
  <1>5. status' \in [Ext -> {"absent", "unprocessed", "processing", "processed",
                             "malformed", "quarantined"}] /\ commits' \in [Ext -> Nat]
    BY <1>1 DEF LakeInv, LakeTyped
  <1> QED
    BY <1>1, <1>2, <1>3, <1>4, <1>5, CreatorKeepsTheLake DEF SetWorkerIs

-----------------------------------------------------------------------------
(* Facts *)

\* A sweep has yet to come to each fact it has to evict, or is about to delete it.
DueIsAhead ==
    \A f \in due \intersect DOMAIN facts :
        /\ facts[f].superseded_by = NULL /\ Stale(f)
        /\ \/ sweep.pc = "read" /\ sweep.cursor < f
           \/ sweep.pc = "delete" /\ (sweep.cursor < f \/ f \in sweep.doomed)

\* Only a confident belief is contradicted, so that degrading never raises one.
WereConfident ==
    \A c \in Creators : worker[c].pc # "embed" =>
        \A f \in worker[c].todo \intersect DOMAIN facts : facts[f].conf >= Degraded

FactsInv ==
    /\ LakeInv /\ FactsTyped /\ TodoTyped /\ LinksSound /\ DegradedIsExplained
    /\ DueIsAhead /\ WereConfident

\* Each memory domain has a floor and a rate of decay.
LEMMA DomainsAreTyped ==
    ASSUME NEW d \in MemoryDomain
    PROVE  DOMAINS[d].floor \in Nat /\ DOMAINS[d].lambda \in Nat
  BY DEF DOMAINS, Policy, MemoryDomain

\* What is stale stays so when its confidence falls or time goes by.
LEMMA StaleStays ==
    \A d \in MemoryDomain, a, b \in 0..100, g, h \in BOOLEAN :
        b <= a /\ (h = g \/ h = TRUE) /\ is_stale(d, a, g) => is_stale(d, b, h)
  <1> TAKE d \in MemoryDomain, a, b \in 0..100, g, h \in BOOLEAN
  <1> HAVE b <= a /\ (h = g \/ h = TRUE) /\ is_stale(d, a, g)
  <1>1. DOMAINS[d].floor \in Nat /\ DOMAINS[d].lambda \in Nat
    BY DomainsAreTyped
  <1>2. confidence_at(d, b, h) \in Nat /\ confidence_at(d, a, g) \in Nat
        /\ confidence_at(d, b, h) <= confidence_at(d, a, g)
    BY <1>1 DEF confidence_at
  <1> QED
    BY <1>1, <1>2 DEF is_stale

\* The threshold is out of reach of a belief below the degraded confidence.
LEMMA ConflictNeedsConfidence ==
    ASSUME NEW a \in 0..100, NEW b \in 0..100, NEW d \in 0..100, is_conflict(a, b, d)
    PROVE  a >= Degraded
  <1> SUFFICES ASSUME a < 20 PROVE FALSE
    BY DEF Degraded
  <1>1. a \in Nat /\ b \in Nat /\ d \in Nat /\ a <= 19 /\ d <= 100 /\ a + b > 0
    BY DEF is_conflict
  <1>2. 2 * a * b * d >= 7500 * (a + b)
    BY DEF is_conflict, Threshold
  <1>3. a * b \in Nat /\ a * b <= 19 * b
    BY <1>1
  <1>4. PICK p \in Nat : p = a * b
    BY <1>3
  <1>5. p * d <= p * 100
    BY <1>1, <1>4
  <1>6. 2 * a * b * d = 2 * (p * d)
    BY <1>1, <1>4
  <1>7. 2 * (p * d) <= 200 * p
    <2>1. p * d \in Nat
      BY <1>1, <1>4
    <2> QED
      BY <1>5, <2>1
  <1>8. 7500 * (a + b) <= 3800 * b
    <2>1. 2 * (p * d) \in Nat
      BY <1>1, <1>4
    <2> QED
      BY <1>1, <1>2, <1>3, <1>4, <1>6, <1>7, <2>1
  <1> QED
    BY <1>1, <1>8

\* What is found to be contradicted is a fact held with more than the degraded confidence.
LEMMA ContradictedAreConfident ==
    ASSUME FactsTyped, NEW x \in Said, NEW f \in Contradicted(x)
    PROVE  f \in DOMAIN facts /\ facts[f].conf >= Degraded
  <1>1. f \in DOMAIN facts /\ is_conflict(facts[f].conf, x.conf, Divergence(facts[f].obj, x.obj))
    BY DEF Contradicted, Incumbents, Live
  <1>2. facts[f].conf \in 0..100 /\ facts[f].obj \in Objs
    BY <1>1 DEF FactsTyped, FactRow
  <1>3. x.conf \in 0..100 /\ Divergence(facts[f].obj, x.obj) \in 0..100
    BY <1>2, SayingsAssumption DEF Objs
  <1> QED
    BY <1>1, <1>2, <1>3, ConflictNeedsConfidence

\* Facts of the right type have facts for successors, before
LEMMA TypedHasSuccessors == FactsTyped => SuccessorsAreFacts
  BY DEF FactsTyped, FactRow, SuccessorsAreFacts

\* and after a step.
LEMMA TypedHasSuccessorsAfter == FactsTyped' => SuccessorsAreFacts'
  BY TypedHasSuccessors, PTL

\* Steps that leave the facts, the buffer and the upkeep alone.
LEMMA QuietKeepsFacts ==
    ASSUME FactsInv, LakeInv',
           UNCHANGED <<facts, buffer, used, linking, due, sweep, entities, content>>,
           \A c \in Creators :
               \/ worker'[c] = worker[c] \/ worker'[c].todo = {}
               \/ worker'[c].todo \subseteq worker[c].todo /\ worker[c].pc # "embed"
    PROVE  FactsInv'
  <1>1. FactsTyped'
    BY DEF FactsInv, FactsTyped
  <1>2. TodoTyped'
    BY DEF FactsInv, TodoTyped
  <1>3. NoDangling' /\ SuccessorsAreFacts'
    BY DEF FactsInv, LinksSound, NoDangling, SuccessorsAreFacts
  <1>4. LinksOnlyCut
    BY DEF LinksOnlyCut
  <1>5. LinksSound'
    BY <1>3, <1>4, CuttingKeepsChains DEF FactsInv, LinksSound
  <1>6. DegradedIsExplained'
    BY DEF FactsInv, DegradedIsExplained
  <1>7. DueIsAhead'
    BY DEF FactsInv, DueIsAhead, Stale
  <1>8. WereConfident'
    BY DEF FactsInv, WereConfident
  <1> QED
    BY <1>1, <1>2, <1>5, <1>6, <1>7, <1>8 DEF FactsInv

\* A step that rejuvenates nothing due keeps it ahead of the sweep.
LEMMA ChangeKeepsDue ==
    ASSUME DueIsAhead, UNCHANGED sweep, due' \subseteq due,
           \A f \in due' \intersect DOMAIN facts' :
               /\ f \in DOMAIN facts
               /\ facts[f].superseded_by = NULL => facts'[f].superseded_by = NULL
               /\ Stale(f) => Stale(f)'
    PROVE  DueIsAhead'
  <1> SUFFICES ASSUME NEW f \in due' \intersect DOMAIN facts'
               PROVE  /\ facts'[f].superseded_by = NULL /\ Stale(f)'
                      /\ \/ sweep.pc = "read" /\ sweep.cursor < f
                         \/ sweep.pc = "delete" /\ (sweep.cursor < f \/ f \in sweep.doomed)
    BY DEF DueIsAhead
  <1>1. f \in due \intersect DOMAIN facts
    OBVIOUS
  <1> QED
    BY <1>1 DEF DueIsAhead

\* A step that contests nothing new keeps what is contested confident.
LEMMA ChangeKeepsConfidence ==
    ASSUME WereConfident, TodoTyped, NEW D \in SUBSET Creators,
           \A c \in Creators \ D : worker'[c] = worker[c],
           \A c \in D : \/ worker'[c].pc = "embed"
                        \/ worker'[c].todo \subseteq worker[c].todo /\ worker[c].pc # "embed",
           \A f \in DOMAIN facts' : f \in used =>
               f \in DOMAIN facts /\ (facts[f].conf >= Degraded => facts'[f].conf >= Degraded)
    PROVE  WereConfident'
  <1> SUFFICES ASSUME NEW c \in Creators, worker'[c].pc # "embed",
                      NEW f \in worker'[c].todo \intersect DOMAIN facts'
               PROVE  facts'[f].conf >= Degraded
    BY DEF WereConfident
  <1>1. worker[c].pc # "embed" /\ f \in worker[c].todo
    OBVIOUS
  <1>2. f \in used
    BY <1>1 DEF TodoTyped
  <1> QED
    BY <1>1, <1>2 DEF WereConfident

\* One row of the facts is replaced; its entity, value, source and links stay.
EditsRow(f, r) ==
    /\ f \in DOMAIN facts /\ r \in FactRow /\ facts' = [facts EXCEPT ![f] = r]
    /\ r.ent = facts[f].ent /\ r.obj = facts[f].obj /\ r.src = facts[f].src
    /\ r.domain = facts[f].domain /\ r.superseded_by = facts[f].superseded_by

\* An update of one row that is not its links.
LEMMA EditGives ==
    ASSUME FactsInv, NEW f, NEW r, EditsRow(f, r)
    PROVE  /\ DOMAIN facts' = DOMAIN facts /\ facts'[f] = r
           /\ \A g \in DOMAIN facts : g # f => facts'[g] = facts[g]
           /\ \A g \in DOMAIN facts : facts'[g] \in FactRow
           /\ SuccessorsAreFacts' /\ SupersessionEnds' /\ NoDangling'
           /\ UNCHANGED linking => LinksSound'
  <1>1. /\ DOMAIN facts' = DOMAIN facts /\ facts'[f] = r /\ f \in DOMAIN facts
        /\ \A g \in DOMAIN facts : g # f => facts'[g] = facts[g]
    BY DEF EditsRow
  <1>2. \A g \in DOMAIN facts : facts'[g] \in FactRow
    BY <1>1 DEF EditsRow, FactsInv, FactsTyped
  <1>3. \A g \in DOMAIN facts : facts'[g].superseded_by = facts[g].superseded_by
    BY <1>1 DEF EditsRow
  <1>4. LinksOnlyCut
    BY <1>1, <1>3 DEF LinksOnlyCut
  <1>5. SuccessorsAreFacts' /\ NoDangling'
    BY <1>1, <1>3 DEF FactsInv, LinksSound, SuccessorsAreFacts, NoDangling
  <1>6. SupersessionEnds' /\ (UNCHANGED linking => LinkIsSafe')
    BY <1>4, <1>5, CuttingKeepsChains DEF FactsInv
  <1> QED
    BY <1>1, <1>2, <1>5, <1>6 DEF LinksSound

\* A DELETE with its ON DELETE SET NULL.
LEMMA WithoutGives ==
    ASSUME FactsInv, NEW gone, facts' = Without(gone)
    PROVE  /\ DOMAIN facts' = DOMAIN facts \ gone
           /\ \A g \in DOMAIN facts' :
                /\ facts'[g] \in FactRow
                /\ facts'[g].conf = facts[g].conf /\ facts'[g].ent = facts[g].ent
                /\ facts'[g].obj = facts[g].obj /\ facts'[g].src = facts[g].src
                /\ facts'[g].domain = facts[g].domain /\ facts'[g].aged = facts[g].aged
                /\ facts[g].superseded_by = NULL => facts'[g].superseded_by = NULL
           /\ SuccessorsAreFacts' /\ SupersessionEnds' /\ NoDangling'
           /\ UNCHANGED linking => LinksSound'
  <1>1. /\ DOMAIN facts' = DOMAIN facts \ gone
        /\ \A g \in DOMAIN facts' : facts'[g] = IF facts[g].superseded_by \in gone
                                    THEN [facts[g] EXCEPT !.superseded_by = NULL] ELSE facts[g]
    BY DEF Without
  <1>2. ASSUME NEW g \in DOMAIN facts'
        PROVE  /\ facts'[g] \in FactRow
               /\ facts'[g].conf = facts[g].conf /\ facts'[g].ent = facts[g].ent
               /\ facts'[g].obj = facts[g].obj /\ facts'[g].src = facts[g].src
               /\ facts'[g].domain = facts[g].domain /\ facts'[g].aged = facts[g].aged
               /\ facts'[g].superseded_by = IF facts[g].superseded_by \in gone THEN NULL
                                            ELSE facts[g].superseded_by
    <2>1. g \in DOMAIN facts /\ facts[g] \in FactRow
      BY <1>1 DEF FactsInv, FactsTyped
    <2>2. CASE facts[g].superseded_by \in gone
      <3>1. facts'[g] = [facts[g] EXCEPT !.superseded_by = NULL]
        BY <1>1, <2>2
      <3> QED
        BY <2>1, <2>2, <3>1 DEF FactRow
    <2>3. CASE facts[g].superseded_by \notin gone
      <3>1. facts'[g] = facts[g]
        BY <1>1, <2>3
      <3> QED
        BY <2>1, <2>3, <3>1
    <2> QED
      BY <2>2, <2>3
  <1>3. LinksOnlyCut
    BY <1>1, <1>2 DEF LinksOnlyCut
  <1>4. SuccessorsAreFacts'
    BY <1>1, <1>2 DEF FactsInv, LinksSound, SuccessorsAreFacts
  <1>5. NoDangling'
    BY <1>1, <1>2 DEF FactsInv, LinksSound, NoDangling
  <1>6. SupersessionEnds' /\ (UNCHANGED linking => LinkIsSafe')
    BY <1>3, <1>4, <1>5, CuttingKeepsChains DEF FactsInv
  <1> QED
    BY <1>1, <1>2, <1>4, <1>5, <1>6 DEF LinksSound

\* quarantine() degrades the incumbent and buffers the contradiction that explains it.
LEMMA QuarantineKeepsFacts ==
    ASSUME FactsInv, LakeInv', UNCHANGED content, NEW c \in Creators, Quarantine(c)
    PROVE  FactsInv'
  <1>1. PICK f \in worker[c].todo :
             /\ buffer' = buffer \union {[inc |-> f, src |-> Current(c), resolution |-> "open"]}
             /\ facts' = IF f \in DOMAIN facts THEN [facts EXCEPT ![f].conf = Degraded] ELSE facts
    BY DEF Quarantine
  <1>2. /\ worker[c].pc = "quarantine" /\ UNCHANGED <<entities, linking, sweep, due, used>>
        /\ \A d \in Creators : d # c => worker'[d] = worker[d]
        /\ worker'[c].todo \subseteq worker[c].todo
    BY QuarantineKeepsTheLake DEF Quarantine, upkeep, FactsInv
  <1>3. PICK b : b = [inc |-> f, src |-> Current(c), resolution |-> "open"]
    OBVIOUS
  <1>4. f \in used /\ f \in FactIds
    BY DEF FactsInv, TodoTyped, FactsTyped
  <1>5. b \in BufferRow /\ b.inc = f /\ b.resolution = "open" /\ buffer' = buffer \union {b}
    BY <1>1, <1>2, <1>3, <1>4, BatchInHand DEF BufferRow, FactsInv
  <1>6. /\ DOMAIN facts' = DOMAIN facts /\ LinksSound'
        /\ \A g \in DOMAIN facts : facts'[g] \in FactRow
        /\ f \in DOMAIN facts =>
             /\ facts'[f].conf = Degraded /\ facts'[f].domain = facts[f].domain
             /\ facts'[f].aged = facts[f].aged /\ facts'[f].superseded_by = facts[f].superseded_by
        /\ \A g \in DOMAIN facts : g # f => facts'[g] = facts[g]
    <2>1. CASE f \in DOMAIN facts
      <3>1. facts[f] \in FactRow
        BY <2>1 DEF FactsInv, FactsTyped
      <3>2. PICK r : r = [facts[f] EXCEPT !.conf = Degraded]
        OBVIOUS
      <3>3. /\ r \in FactRow /\ r.conf = Degraded /\ r.ent = facts[f].ent /\ r.obj = facts[f].obj
            /\ r.src = facts[f].src /\ r.domain = facts[f].domain /\ r.aged = facts[f].aged
            /\ r.superseded_by = facts[f].superseded_by
        BY <3>1, <3>2 DEF FactRow, Degraded
      <3>4. facts' = [facts EXCEPT ![f] = r]
        BY <1>1, <2>1, <3>2
      <3>5. EditsRow(f, r)
        BY <2>1, <3>3, <3>4 DEF EditsRow
      <3> QED
        BY <1>2, <3>3, <3>5, EditGives
    <2>2. CASE f \notin DOMAIN facts
      <3>1. facts' = facts
        BY <1>1, <2>2
      <3>2. SuccessorsAreFacts' /\ NoDangling' /\ LinksOnlyCut
        BY <3>1 DEF FactsInv, LinksSound, SuccessorsAreFacts, NoDangling, LinksOnlyCut
      <3>3. LinksSound'
        BY <1>2, <3>2, CuttingKeepsChains DEF FactsInv, LinksSound
      <3> QED
        BY <2>2, <3>1, <3>3 DEF FactsInv, FactsTyped
    <2> QED
      BY <2>1, <2>2
  <1>7. FactsTyped'
    BY <1>2, <1>4, <1>5, <1>6 DEF FactsInv, FactsTyped
  <1>8. TodoTyped'
    BY <1>2 DEF FactsInv, TodoTyped
  <1>9. DegradedIsExplained'
    <2> SUFFICES ASSUME NEW g \in DOMAIN facts', facts'[g].conf = Degraded,
                        \A x \in Rows(content[facts'[g].src].facts) :
                          x.ent = facts'[g].ent /\ x.obj = facts'[g].obj => x.conf # Degraded
                 PROVE  \E a \in buffer' : a.inc = g /\ a.resolution \notin {"incumbent", "both"}
      BY DEF DegradedIsExplained
    <2>1. CASE g = f
      BY <1>5, <2>1
    <2>2. CASE g # f
      <3>1. g \in DOMAIN facts /\ facts'[g] = facts[g]
        BY <1>6, <2>2
      <3>2. \E a \in buffer : a.inc = g /\ a.resolution \notin {"incumbent", "both"}
        BY <3>1 DEF FactsInv, DegradedIsExplained
      <3> QED
        BY <1>5, <3>2
    <2> QED
      BY <2>1, <2>2
  <1>10. f \in DOMAIN facts => facts[f].conf >= Degraded
    BY <1>2 DEF FactsInv, WereConfident
  <1>11. DueIsAhead'
    <2>1. ASSUME NEW g \in DOMAIN facts, Stale(g) PROVE Stale(g)'
      <3>1. CASE g = f
        <4>1. facts[f].conf \in 0..100 /\ facts[f].domain \in MemoryDomain /\ facts[f].aged \in BOOLEAN
          BY <2>1, <3>1 DEF FactsInv, FactsTyped, FactRow
        <4>2. Degraded \in 0..100 /\ Degraded <= facts[f].conf
          BY <1>10, <2>1, <3>1, <4>1 DEF Degraded
        <4>3. is_stale(facts[f].domain, facts[f].conf, facts[f].aged)
          BY <2>1, <3>1 DEF Stale
        <4>4. PICK d, a, low, h : /\ d = facts[f].domain /\ a = facts[f].conf
                                /\ low = Degraded /\ h = facts[f].aged
          OBVIOUS
        <4>5. /\ d \in MemoryDomain /\ a \in 0..100 /\ h \in BOOLEAN /\ low \in 0..100
              /\ low <= a /\ is_stale(d, a, h)
          BY <4>1, <4>2, <4>3, <4>4
        <4>6. is_stale(d, low, h)
          BY <4>5, StaleStays
        <4> QED
          BY <1>6, <2>1, <3>1, <4>4, <4>6 DEF Stale
      <3>2. CASE g # f
        BY <1>6, <2>1, <3>2 DEF Stale
      <3> QED
        BY <3>1, <3>2
    <2>2. \A g \in DOMAIN facts : facts'[g].superseded_by = facts[g].superseded_by
      BY <1>6
    <2> QED
      BY <1>2, <1>6, <2>1, <2>2, ChangeKeepsDue DEF FactsInv
  <1>12. WereConfident'
    <2>1. \A g \in DOMAIN facts' : g \in used => g \in DOMAIN facts /\
             (facts[g].conf >= Degraded => facts'[g].conf >= Degraded)
      BY <1>6 DEF Degraded
    <2>2. {c} \in SUBSET Creators /\ \A d \in Creators \ {c} : worker'[d] = worker[d]
      BY <1>2
    <2>3. \A d \in {c} : worker'[d].todo \subseteq worker[d].todo /\ worker[d].pc # "embed"
      BY <1>2
    <2> QED
      BY <2>1, <2>2, <2>3, ChangeKeepsConfidence DEF FactsInv
  <1> QED
    BY <1>6, <1>7, <1>8, <1>9, <1>11, <1>12 DEF FactsInv

\* The rows of a committed signal are new, say what was said, and supersede nothing.
LEMMA CommitGives ==
    ASSUME FactsInv, UNCHANGED content, NEW c \in Creators, Commit(c)
    PROVE  \E new \in SUBSET (FactIds \ used), e \in Ext :
             /\ e = Head(worker[c].batch)
             /\ DOMAIN facts' = DOMAIN facts \union new /\ used' = used \union new
             /\ \A g \in DOMAIN facts : facts'[g] = facts[g]
             /\ \A g \in new :
                  /\ facts'[g] \in FactRow /\ facts'[g].src = e
                  /\ facts'[g].superseded_by = NULL
                  /\ \E x \in Rows(content[e].facts) :
                        x.ent = facts'[g].ent /\ x.obj = facts'[g].obj /\ x.conf = facts'[g].conf
             /\ entities' \subseteq Ents
  <1> DEFINE e == Current(c)
             s == Candidates(e)
  <1>1. e \in Ext /\ e = Head(worker[c].batch)
    BY BatchInHand DEF Commit, FactsInv
  <1>3. PICK ids \in [1..Len(s) -> FactIds \ used] :
          /\ facts' = [f \in DOMAIN facts \union {ids[i] : i \in 1..Len(s)} |->
                         IF f \in {ids[i] : i \in 1..Len(s)}
                         THEN NewFact(s[CHOOSE i \in 1..Len(s) : ids[i] = f], e)
                         ELSE facts[f]]
          /\ used' = used \union {ids[i] : i \in 1..Len(s)}
    BY Zenon DEF Commit
  <1>2. entities' = entities \union {s[i].ent : i \in 1..Len(s)} /\ s = Candidates(e)
    BY DEF Commit
  <1> HIDE DEF s, e
  <1>4. PICK new : new = {ids[i] : i \in 1..Len(s)}
    OBVIOUS
  <1>5. new \in SUBSET (FactIds \ used) /\ new \intersect DOMAIN facts = {}
    BY <1>3, <1>4 DEF FactsInv, FactsTyped
  <1>6. /\ s \in {content[e].facts, <<>>} /\ content[e].facts \in Seq(Said)
        /\ \A i \in 1..Len(s) :
             /\ s[i] \in Rows(content[e].facts) /\ s[i].conf \in 0..100
             /\ s[i].domain \in MemoryDomain /\ s[i].ent \in Ents /\ s[i].obj \in Objs
    <2>1. s \in {content[e].facts, <<>>} /\ content[e].facts \in Seq(Said)
      BY <1>1, <1>2, FoundIsSaid DEF FactsInv, LakeInv, LakeTyped
    <2>2. \A i \in 1..Len(content[e].facts) :
             LET x == content[e].facts[i] IN
             x.conf \in 0..100 /\ x.domain \in MemoryDomain /\ x.ent \in Ents /\ x.obj \in Objs
      BY <1>1, FoundIsSaid DEF FactsInv, LakeInv, LakeTyped
    <2>3. ASSUME NEW i \in 1..Len(s)
          PROVE  /\ s[i] \in Rows(content[e].facts) /\ s[i].conf \in 0..100
                 /\ s[i].domain \in MemoryDomain /\ s[i].ent \in Ents /\ s[i].obj \in Objs
      <3>1. s = content[e].facts /\ i \in 1..Len(content[e].facts)
        BY <2>1
      <3> QED
        BY <2>2, <3>1 DEF Rows
    <2> QED
      BY <2>1, <2>3
  <1>7. /\ DOMAIN facts' = DOMAIN facts \union new /\ used' = used \union new
        /\ \A g \in DOMAIN facts : facts'[g] = facts[g]
    BY <1>3, <1>4, <1>5
  <1>8. ASSUME NEW g \in new
        PROVE  /\ facts'[g] \in FactRow /\ facts'[g].src = e /\ facts'[g].superseded_by = NULL
               /\ \E x \in Rows(content[e].facts) :
                     x.ent = facts'[g].ent /\ x.obj = facts'[g].obj /\ x.conf = facts'[g].conf
    <2>1. PICK j : j = CHOOSE i \in 1..Len(s) : ids[i] = g
      OBVIOUS
    <2>2. j \in 1..Len(s)
      BY <1>4, <2>1
    <2>3. facts'[g] = NewFact(s[j], e)
      BY <1>3, <1>4, <2>1
    <2>4. facts'[g] \in FactRow /\ facts'[g].src = e /\ facts'[g].superseded_by = NULL
          /\ facts'[g].ent = s[j].ent /\ facts'[g].obj = s[j].obj /\ facts'[g].conf = s[j].conf
      BY <1>1, <1>6, <2>2, <2>3 DEF NewFact, FactRow
    <2> QED
      BY <1>6, <2>2, <2>4
  <1>9. entities' \subseteq Ents
    BY <1>2, <1>6 DEF FactsInv, FactsTyped
  <1>10. new \in SUBSET (FactIds \ used) /\ e \in Ext
    BY <1>1, <1>5
  <1> USE <1>10
  <1> WITNESS new \in SUBSET (FactIds \ used), e \in Ext
  <1> QED
    BY <1>1, <1>5, <1>7, <1>8, <1>9

\* _commit() inserts the facts of a signal under new ids.
LEMMA CommitKeepsFacts ==
    ASSUME FactsInv, LakeInv', UNCHANGED content, NEW c \in Creators, Commit(c)
    PROVE  FactsInv'
  <1>1. PICK new \in SUBSET (FactIds \ used), e \in Ext :
             /\ DOMAIN facts' = DOMAIN facts \union new /\ used' = used \union new
             /\ \A g \in DOMAIN facts : facts'[g] = facts[g]
             /\ \A g \in new :
                  /\ facts'[g] \in FactRow /\ facts'[g].src = e
                  /\ facts'[g].superseded_by = NULL
                  /\ \E x \in Rows(content[e].facts) :
                        x.ent = facts'[g].ent /\ x.obj = facts'[g].obj /\ x.conf = facts'[g].conf
             /\ entities' \subseteq Ents
    BY CommitGives
  <1>2. /\ UNCHANGED <<buffer, linking, sweep, due>>
        /\ \A d \in Creators : d # c => worker'[d] = worker[d]
        /\ worker'[c].pc = "embed" /\ worker'[c].todo \subseteq used'
    BY CommitKeepsTheLake DEF Commit, upkeep, FactsInv
  <1>3. FactsTyped'
    BY <1>1, <1>2 DEF FactsInv, FactsTyped
  <1>4. TodoTyped'
    BY <1>1, <1>2 DEF FactsInv, TodoTyped
  <1>5. LinksSound'
    <2>1. LinksOnlyCut
      BY <1>1 DEF LinksOnlyCut
    <2>2. SuccessorsAreFacts'
      BY <1>3, TypedHasSuccessorsAfter
    <2>3. NoDangling'
      BY <1>1 DEF FactsInv, LinksSound, NoDangling
    <2> QED
      BY <1>2, <2>1, <2>2, <2>3, CuttingKeepsChains DEF FactsInv, LinksSound
  <1>6. DegradedIsExplained'
    <2> SUFFICES ASSUME NEW g \in DOMAIN facts', facts'[g].conf = Degraded,
                        \A x \in Rows(content[facts'[g].src].facts) :
                          x.ent = facts'[g].ent /\ x.obj = facts'[g].obj => x.conf # Degraded
                 PROVE  \E a \in buffer' : a.inc = g /\ a.resolution \notin {"incumbent", "both"}
      BY DEF DegradedIsExplained
    <2>1. g \notin new
      BY <1>1
    <2>2. g \in DOMAIN facts /\ facts'[g] = facts[g]
      BY <1>1, <2>1
    <2> QED
      BY <1>2, <2>2 DEF FactsInv, DegradedIsExplained
  <1>7. \A g \in DOMAIN facts' : g \in used => g \in DOMAIN facts /\ facts'[g] = facts[g]
    BY <1>1
  <1>8. DueIsAhead'
    <2>1. \A g \in due' \intersect DOMAIN facts' : g \in DOMAIN facts /\ facts'[g] = facts[g]
      BY <1>2, <1>7 DEF FactsInv, FactsTyped
    <2>2. \A g \in due' \intersect DOMAIN facts' : Stale(g) => Stale(g)'
      BY <2>1 DEF Stale
    <2> QED
      BY <1>2, <2>1, <2>2, ChangeKeepsDue DEF FactsInv
  <1>9. WereConfident'
    <2>1. {c} \in SUBSET Creators /\ \A d \in Creators \ {c} : worker'[d] = worker[d]
      BY <1>2
    <2> QED
      BY <1>2, <1>7, <2>1, ChangeKeepsConfidence DEF FactsInv
  <1> QED
    BY <1>3, <1>4, <1>5, <1>6, <1>8, <1>9 DEF FactsInv

\* _find_contradictions() reads, and what it finds is confident.
LEMMA FindIncumbentsKeepsFacts ==
    ASSUME FactsInv, LakeInv', UNCHANGED content, NEW c \in Creators, FindIncumbents(c)
    PROVE  FactsInv'
  <1>1. /\ UNCHANGED <<facts, buffer, used, linking, due, sweep, entities>>
        /\ \A d \in Creators : d # c => worker'[d] = worker[d]
        /\ worker'[c].todo = {} \/ \E x \in Said : worker'[c].todo = Contradicted(x)
    BY FindIncumbentsKeepsTheLake DEF FindIncumbents, upkeep, FactsInv
  <1>2. \A f \in worker'[c].todo : f \in DOMAIN facts /\ facts[f].conf >= Degraded
    BY <1>1, ContradictedAreConfident DEF FactsInv
  <1>3. FactsTyped' /\ TodoTyped'
    <2>1. FactsTyped'
      BY <1>1 DEF FactsInv, FactsTyped
    <2> QED
      BY <1>1, <1>2, <2>1 DEF FactsInv, FactsTyped, TodoTyped
  <1>4. LinksSound'
    <2>1. NoDangling' /\ SuccessorsAreFacts' /\ LinksOnlyCut
      BY <1>1 DEF FactsInv, LinksSound, NoDangling, SuccessorsAreFacts, LinksOnlyCut
    <2> QED
      BY <1>1, <2>1, CuttingKeepsChains DEF FactsInv, LinksSound
  <1>5. DegradedIsExplained'
    BY <1>1 DEF FactsInv, DegradedIsExplained
  <1>6. DueIsAhead'
    BY <1>1 DEF FactsInv, DueIsAhead, Stale
  <1>7. WereConfident'
    BY <1>1, <1>2 DEF FactsInv, WereConfident
  <1> QED
    BY <1>3, <1>4, <1>5, <1>6, <1>7 DEF FactsInv

-----------------------------------------------------------------------------
(* The others: humans, readers, the sweeper and the curator *)

\* The row of a fact says what it said.
Says(g) ==
    /\ g \in DOMAIN facts
    /\ facts'[g].conf = facts[g].conf /\ facts'[g].ent = facts[g].ent
    /\ facts'[g].obj = facts[g].obj /\ facts'[g].src = facts[g].src
    /\ facts'[g].domain = facts[g].domain

\* What a step of another actor has to show.
LEMMA OthersKeepFacts ==
    ASSUME FactsInv, UNCHANGED <<lake, worker, content, commits, used, entities>>,
           LinksSound', DueIsAhead', DegradedIsExplained', due' \subseteq used,
           sweep' \in [pc : {"idle", "read", "delete"}, cursor : Nat, doomed : SUBSET FactIds],
           linking' = <<>> \/ linking' \in used \X used,
           \A b \in buffer' : b \in BufferRow /\ b.inc \in used,
           \A g \in DOMAIN facts' :
               /\ g \in DOMAIN facts /\ facts'[g] \in FactRow
               /\ facts'[g].conf = facts[g].conf \/ facts'[g].conf >= Degraded
    PROVE  FactsInv'
  <1>1. LakeInv'
    BY OthersKeepTheLake DEF FactsInv
  <1>2. FactsTyped'
    BY DEF FactsInv, FactsTyped
  <1>3. TodoTyped'
    BY DEF FactsInv, TodoTyped
  <1>4. WereConfident'
    BY DEF FactsInv, WereConfident
  <1> QED
    BY <1>1, <1>2, <1>3, <1>4 DEF FactsInv

\* Rows that still say what they said are still explained,
LEMMA SaidIsExplained ==
    ASSUME DegradedIsExplained, UNCHANGED <<buffer, content>>, \A g \in DOMAIN facts' : Says(g)
    PROVE  DegradedIsExplained'
  <1> SUFFICES ASSUME NEW g \in DOMAIN facts', facts'[g].conf = Degraded,
                      \A x \in Rows(content[facts'[g].src].facts) :
                        x.ent = facts'[g].ent /\ x.obj = facts'[g].obj => x.conf # Degraded
               PROVE  \E a \in buffer : a.inc = g /\ a.resolution \notin {"incumbent", "both"}
    BY DEF DegradedIsExplained
  <1> QED
    BY DEF DegradedIsExplained, Says

\* and what is due among them is still ahead of the sweep.
LEMMA SaidIsDue ==
    ASSUME FactsTyped, DueIsAhead, UNCHANGED sweep, due' \subseteq due,
           \A f \in due' \intersect DOMAIN facts' :
               /\ Says(f) /\ facts'[f].aged \in {facts[f].aged, TRUE}
               /\ facts[f].superseded_by = NULL => facts'[f].superseded_by = NULL
    PROVE  DueIsAhead'
  <1>1. ASSUME NEW f \in due' \intersect DOMAIN facts', Stale(f) PROVE Stale(f)'
    <2>1. PICK d, a, g, h : /\ d = facts[f].domain /\ a = facts[f].conf
                            /\ g = facts[f].aged /\ h = facts'[f].aged
      OBVIOUS
    <2>2. /\ d \in MemoryDomain /\ a \in 0..100 /\ g \in BOOLEAN /\ h \in BOOLEAN
          /\ h = g \/ h = TRUE
      BY <2>1 DEF FactsTyped, FactRow, Says
    <2>3. is_stale(d, a, g) /\ a <= a
      BY <1>1, <2>1, <2>2 DEF Stale
    <2>4. is_stale(d, a, h)
      BY <2>2, <2>3, StaleStays
    <2>5. facts'[f].domain = d /\ facts'[f].conf = a /\ facts'[f].aged = h
      BY <2>1 DEF Says
    <2> QED
      BY <2>4, <2>5 DEF Stale
  <1>2. \A f \in due' \intersect DOMAIN facts' : f \in DOMAIN facts
    BY DEF Says
  <1> QED
    BY <1>1, <1>2, ChangeKeepsDue

\* Nothing about the facts changes.
LEMMA SameFactsGive ==
    ASSUME FactsInv, UNCHANGED <<facts, linking>>
    PROVE  /\ LinksSound' /\ \A g \in DOMAIN facts' : facts'[g] \in FactRow
  <1>1. NoDangling' /\ SuccessorsAreFacts' /\ LinksOnlyCut
    BY DEF FactsInv, LinksSound, NoDangling, SuccessorsAreFacts, LinksOnlyCut
  <1>2. LinksSound'
    BY <1>1, CuttingKeepsChains DEF FactsInv, LinksSound
  <1> QED
    BY <1>2 DEF FactsInv, FactsTyped

\* resolve() rules on a contradiction: the incumbent is restored, retracted or kept.
LEMMA ResolveKeepsFacts ==
    ASSUME FactsInv, UNCHANGED content, NEW b, NEW v \in Resolutions, Resolve(b, v)
    PROVE  FactsInv'
  <1>1. /\ b \in buffer /\ due' = due \ {b.inc} /\ b \in BufferRow /\ b.inc \in used
        /\ UNCHANGED <<lake, worker, entities, linking, sweep, used, commits>>
        /\ buffer' = (buffer \ {b}) \union {[b EXCEPT !.resolution = v]}
    BY DEF Resolve, FactsInv, FactsTyped
  <1>2. PICK r : r = [b EXCEPT !.resolution = v]
    OBVIOUS
  <1>3. r \in BufferRow /\ r.inc = b.inc /\ r.resolution = v
    BY <1>1, <1>2 DEF BufferRow
  <1>4. \A a \in buffer' : a \in BufferRow /\ a.inc \in used
    BY <1>1, <1>2, <1>3 DEF FactsInv, FactsTyped
  <1>5. /\ LinksSound'
        /\ \A g \in DOMAIN facts' :
             /\ g \in DOMAIN facts /\ facts'[g] \in FactRow
             /\ g # b.inc => /\ Says(g) /\ facts'[g].aged = facts[g].aged
                             /\ facts[g].superseded_by = NULL => facts'[g].superseded_by = NULL
             /\ g = b.inc => \/ facts'[g].conf = Restored
                             \/ Says(g) /\ ~Restores(v)
    <2>1. CASE Restores(v) /\ b.inc \in DOMAIN facts
      <3>1. facts' = [facts EXCEPT ![b.inc].conf = Restored] /\ facts[b.inc] \in FactRow
        <4>1. v # "neither"
          BY <2>1 DEF Restores
        <4> QED
          BY <2>1, <4>1 DEF Resolve, FactsInv, FactsTyped
      <3>2. PICK w : w = [facts[b.inc] EXCEPT !.conf = Restored]
        OBVIOUS
      <3>3. /\ w \in FactRow /\ w.conf = Restored /\ w.ent = facts[b.inc].ent
            /\ w.obj = facts[b.inc].obj /\ w.src = facts[b.inc].src
            /\ w.domain = facts[b.inc].domain /\ w.superseded_by = facts[b.inc].superseded_by
        BY <3>1, <3>2 DEF FactRow, Restored
      <3>4. facts' = [facts EXCEPT ![b.inc] = w]
        BY <3>1, <3>2
      <3>5. EditsRow(b.inc, w)
        BY <2>1, <3>3, <3>4 DEF EditsRow
      <3>6. /\ DOMAIN facts' = DOMAIN facts /\ facts'[b.inc] = w
            /\ \A g \in DOMAIN facts : g # b.inc => facts'[g] = facts[g]
            /\ \A g \in DOMAIN facts : facts'[g] \in FactRow
            /\ LinksSound'
        BY <1>1, <3>5, EditGives
      <3> QED
        BY <3>3, <3>6 DEF Says
    <2>2. CASE v = "neither"
      <3>1. facts' = Without({b.inc})
        BY <2>2 DEF Resolve, Restores
      <3>2. PICK gone : gone = {b.inc}
        OBVIOUS
      <3>3. /\ DOMAIN facts' = DOMAIN facts \ gone
            /\ \A g \in DOMAIN facts' :
                 /\ facts'[g] \in FactRow
                 /\ facts'[g].conf = facts[g].conf /\ facts'[g].ent = facts[g].ent
                 /\ facts'[g].obj = facts[g].obj /\ facts'[g].src = facts[g].src
                 /\ facts'[g].domain = facts[g].domain /\ facts'[g].aged = facts[g].aged
                 /\ facts[g].superseded_by = NULL => facts'[g].superseded_by = NULL
            /\ LinksSound'
        BY <1>1, <3>1, <3>2, WithoutGives
      <3> QED
        BY <3>2, <3>3 DEF Says
    <2>3. CASE ~(Restores(v) /\ b.inc \in DOMAIN facts) /\ v # "neither"
      <3>1. facts' = facts
        BY <2>3 DEF Resolve
      <3>2. LinksSound' /\ \A g \in DOMAIN facts' : facts'[g] \in FactRow
        BY <1>1, <3>1, SameFactsGive
      <3> QED
        BY <2>3, <3>1, <3>2 DEF Says
    <2> QED
      BY <2>1, <2>2, <2>3
  <1>6. DueIsAhead'
    <2>1. \A g \in due' \intersect DOMAIN facts' : g # b.inc
      BY <1>1
    <2> QED
      BY <1>1, <1>5, <2>1, SaidIsDue DEF FactsInv
  <1>7. DegradedIsExplained'
    <2> SUFFICES ASSUME NEW g \in DOMAIN facts', facts'[g].conf = Degraded,
                        \A x \in Rows(content[facts'[g].src].facts) :
                          x.ent = facts'[g].ent /\ x.obj = facts'[g].obj => x.conf # Degraded
                 PROVE  \E a \in buffer' : a.inc = g /\ a.resolution \notin {"incumbent", "both"}
      BY DEF DegradedIsExplained
    <2>1. CASE g # b.inc
      <3>1. Says(g)
        BY <1>5, <2>1
      <3>2. \E a \in buffer : a.inc = g /\ a.resolution \notin {"incumbent", "both"}
        BY <3>1 DEF FactsInv, DegradedIsExplained, Says
      <3> QED
        BY <1>1, <2>1, <3>2
    <2>2. CASE g = b.inc
      <3>1. ~Restores(v)
        BY <1>5, <2>2 DEF Degraded, Restored
      <3> QED
        BY <1>1, <1>2, <1>3, <2>2, <3>1 DEF Restores
    <2> QED
      BY <2>1, <2>2
  <1>8. \A g \in DOMAIN facts' : facts'[g].conf = facts[g].conf \/ facts'[g].conf >= Degraded
    BY <1>5 DEF Restored, Degraded, Says
  <1> QED
    BY <1>1, <1>4, <1>5, <1>6, <1>7, <1>8, OthersKeepFacts DEF FactsInv, FactsTyped

\* touch(), and time going by.
LEMMA TouchOrAgeKeepsFacts ==
    ASSUME FactsInv, UNCHANGED content, NEW f, Touch(f) \/ Age(f)
    PROVE  FactsInv'
  <1>1. PICK old \in BOOLEAN :
          /\ f \in DOMAIN facts /\ facts' = [facts EXCEPT ![f].aged = old]
          /\ due' \subseteq due /\ (f \in due' => old = TRUE)
          /\ UNCHANGED <<lake, worker, entities, buffer, linking, sweep, used, commits>>
    <2>1. CASE Touch(f)
      BY <2>1 DEF Touch
    <2>2. CASE Age(f)
      BY <2>2 DEF Age, upkeep
    <2> QED
      BY <2>1, <2>2
  <1>2. PICK w : w = [facts[f] EXCEPT !.aged = old]
    OBVIOUS
  <1>3. /\ w \in FactRow /\ w.aged = old /\ w.conf = facts[f].conf /\ w.ent = facts[f].ent
        /\ w.obj = facts[f].obj /\ w.src = facts[f].src
        /\ w.domain = facts[f].domain /\ w.superseded_by = facts[f].superseded_by
    <2>1. facts[f] \in FactRow
      BY <1>1 DEF FactsInv, FactsTyped
    <2> QED
      BY <1>2, <2>1 DEF FactRow
  <1>4. EditsRow(f, w)
    <2>1. facts' = [facts EXCEPT ![f] = w]
      BY <1>1, <1>2
    <2> QED
      BY <1>1, <1>3, <2>1 DEF EditsRow
  <1>5. /\ DOMAIN facts' = DOMAIN facts /\ facts'[f] = w
        /\ \A g \in DOMAIN facts : g # f => facts'[g] = facts[g]
        /\ \A g \in DOMAIN facts : facts'[g] \in FactRow
        /\ LinksSound'
    BY <1>1, <1>4, EditGives
  <1>6. \A g \in DOMAIN facts' : Says(g) /\ facts'[g].superseded_by = facts[g].superseded_by
    BY <1>3, <1>5 DEF Says
  <1>7. DegradedIsExplained'
    BY <1>1, <1>6, SaidIsExplained DEF FactsInv
  <1>8. DueIsAhead'
    <2>1. \A g \in due' \intersect DOMAIN facts' : facts'[g].aged \in {facts[g].aged, TRUE}
      BY <1>1, <1>3, <1>5
    <2> QED
      BY <1>1, <1>6, <2>1, SaidIsDue DEF FactsInv
  <1>9. \A g \in DOMAIN facts' : g \in DOMAIN facts /\ facts'[g].conf = facts[g].conf
    BY <1>6 DEF Says
  <1> QED
    BY <1>1, <1>5, <1>7, <1>8, <1>9, OthersKeepFacts DEF FactsInv, FactsTyped

\* Evicting a page, or merging duplicates.
LEMMA DeletingKeepsFacts ==
    ASSUME FactsInv, UNCHANGED content, NEW gone,
           facts' = Without(gone), due' = due \ gone, DueIsAhead',
           UNCHANGED <<lake, worker, entities, buffer, linking, used, commits>>,
           sweep' \in [pc : {"idle", "read", "delete"}, cursor : Nat, doomed : SUBSET FactIds]
    PROVE  FactsInv'
  <1>1. /\ DOMAIN facts' = DOMAIN facts \ gone /\ LinksSound'
        /\ \A g \in DOMAIN facts' :
             /\ facts'[g] \in FactRow
             /\ facts'[g].conf = facts[g].conf /\ facts'[g].ent = facts[g].ent
             /\ facts'[g].obj = facts[g].obj /\ facts'[g].src = facts[g].src
             /\ facts'[g].domain = facts[g].domain
    BY WithoutGives
  <1>2. \A g \in DOMAIN facts' : Says(g)
    BY <1>1 DEF Says
  <1>3. DegradedIsExplained'
    BY <1>2, SaidIsExplained DEF FactsInv
  <1> QED
    BY <1>1, <1>3, OthersKeepFacts DEF FactsInv, FactsTyped

\* What is deleted is no longer due.
LEMMA DeletedAreNotDue ==
    ASSUME FactsInv, NEW gone, facts' = Without(gone), due' = due \ gone, UNCHANGED sweep
    PROVE  DueIsAhead'
  <1>1. \A g \in DOMAIN facts' :
             /\ g \in DOMAIN facts
             /\ facts'[g].conf = facts[g].conf /\ facts'[g].ent = facts[g].ent
             /\ facts'[g].obj = facts[g].obj /\ facts'[g].src = facts[g].src
             /\ facts'[g].domain = facts[g].domain /\ facts'[g].aged = facts[g].aged
             /\ facts[g].superseded_by = NULL => facts'[g].superseded_by = NULL
    BY WithoutGives
  <1>2. \A g \in due' \intersect DOMAIN facts' :
             /\ Says(g) /\ facts'[g].aged \in {facts[g].aged, TRUE}
             /\ facts[g].superseded_by = NULL => facts'[g].superseded_by = NULL
    BY <1>1 DEF Says
  <1> QED
    BY <1>2, SaidIsDue DEF FactsInv

\* The curator reads duplicates and deletes all but one of them.
LEMMA ConsolidateKeepsFacts ==
    ASSUME FactsInv, UNCHANGED content, ConsolidateRead \/ ConsolidateWrite
    PROVE  FactsInv'
  <1>1. CASE ConsolidateRead
    <2>1. UNCHANGED <<lake, worker, entities, facts, buffer, linking, sweep, due, used, commits>>
      BY <1>1 DEF ConsolidateRead
    <2>2. LakeInv'
      BY <2>1, OthersKeepTheLake DEF FactsInv
    <2> QED
      BY <2>1, <2>2, QuietKeepsFacts
  <1>2. CASE ConsolidateWrite
    <2>1. PICK gone : gone = merging[2]
      OBVIOUS
    <2>2. /\ facts' = Without(gone) /\ due' = due \ gone
          /\ UNCHANGED <<lake, worker, entities, buffer, linking, sweep, used, commits>>
      BY <1>2, <2>1 DEF ConsolidateWrite
    <2>3. DueIsAhead'
      BY <2>2, DeletedAreNotDue
    <2> QED
      BY <2>2, <2>3, DeletingKeepsFacts DEF FactsInv, FactsTyped
  <1> QED
    BY <1>1, <1>2

\* The sweeper deletes the page it condemned.
LEMMA SweepDeleteKeepsFacts ==
    ASSUME FactsInv, UNCHANGED content, SweepDelete
    PROVE  FactsInv'
  <1>1. PICK gone : gone = sweep.doomed
    OBVIOUS
  <1>2. /\ facts' = Without(gone) /\ due' = due \ gone /\ sweep.pc = "delete"
        /\ UNCHANGED <<lake, worker, entities, buffer, linking, used, commits>>
        /\ sweep' = [sweep EXCEPT !.pc = "read", !.doomed = {}]
    BY <1>1 DEF SweepDelete
  <1>3. /\ sweep' \in [pc : {"idle", "read", "delete"}, cursor : Nat, doomed : SUBSET FactIds]
        /\ sweep'.pc = "read" /\ sweep'.cursor = sweep.cursor
    BY <1>2 DEF FactsInv, FactsTyped
  <1>4. DueIsAhead'
    <2>1. \A g \in DOMAIN facts' :
             /\ g \in DOMAIN facts
             /\ facts'[g].conf = facts[g].conf
             /\ facts'[g].domain = facts[g].domain /\ facts'[g].aged = facts[g].aged
             /\ facts[g].superseded_by = NULL => facts'[g].superseded_by = NULL
      BY <1>2, WithoutGives
    <2> SUFFICES ASSUME NEW f \in due' \intersect DOMAIN facts'
                 PROVE  /\ facts'[f].superseded_by = NULL /\ Stale(f)'
                        /\ sweep'.pc = "read" /\ sweep'.cursor < f
      BY DEF DueIsAhead
    <2>2. f \in due \intersect DOMAIN facts /\ f \notin sweep.doomed
      BY <1>1, <1>2, <2>1
    <2>3. facts[f].superseded_by = NULL /\ Stale(f) /\ sweep.cursor < f
      BY <1>2, <2>2 DEF FactsInv, DueIsAhead
    <2>4. Stale(f)'
      BY <2>1, <2>3 DEF Stale
    <2> QED
      BY <1>3, <2>1, <2>3, <2>4
  <1> QED
    BY <1>2, <1>3, <1>4, DeletingKeepsFacts

\* The rows a sweep reads are finitely many and have numbers above zero.
LEMMA LiveAreIds ==
    ASSUME FactsTyped
    PROVE  Live \subseteq Nat \ {0} /\ IsFiniteSet(Live) /\ Live \subseteq FactIds
  <1>1. Live \subseteq FactIds
    BY DEF Live, FactsTyped
  <1> QED
    BY <1>1, MemoryAssumption, FS_Subset

\* A sweep begins below every row.
LEMMA SweepStartKeepsFacts ==
    ASSUME FactsInv, UNCHANGED content, SweepStart
    PROVE  FactsInv'
  <1>1. /\ sweep' = [NoSweep EXCEPT !.pc = "read"] /\ due' = {f \in Live : Stale(f)}
        /\ UNCHANGED <<lake, worker, entities, facts, buffer, linking, used, commits>>
    BY DEF SweepStart
  <1>2. /\ sweep' \in [pc : {"idle", "read", "delete"}, cursor : Nat, doomed : SUBSET FactIds]
        /\ sweep'.pc = "read" /\ sweep'.cursor = 0
    BY <1>1 DEF NoSweep
  <1>3. LinksSound' /\ \A g \in DOMAIN facts' : facts'[g] \in FactRow
    BY <1>1, SameFactsGive
  <1>4. DueIsAhead'
    <2> SUFFICES ASSUME NEW f \in due' \intersect DOMAIN facts'
                 PROVE  /\ facts'[f].superseded_by = NULL /\ Stale(f)'
                        /\ sweep'.cursor < f
      BY <1>2 DEF DueIsAhead
    <2>1. f \in Live /\ Stale(f) /\ f \in Nat \ {0}
      BY <1>1, LiveAreIds DEF FactsInv
    <2> QED
      BY <1>1, <1>2, <2>1 DEF Live, Stale
  <1>5. DegradedIsExplained'
    BY <1>1 DEF FactsInv, DegradedIsExplained
  <1>6. due' \subseteq used
    BY <1>1 DEF Live, FactsInv, FactsTyped
  <1> QED
    BY <1>1, <1>2, <1>3, <1>4, <1>5, <1>6, OthersKeepFacts DEF FactsInv, FactsTyped

\* An empty page means that nothing is due; another one that what is due and not
\* doomed is beyond the new cursor.
LEMMA SweepReadGives ==
    ASSUME FactsTyped, DueIsAhead, SweepRead
    PROVE  /\ UNCHANGED <<lake, worker, entities, facts, buffer, linking, due, used, commits>>
           /\ sweep' \in [pc : {"idle", "read", "delete"}, cursor : Nat, doomed : SUBSET FactIds]
           /\ DueIsAhead'
           /\ sweep'.pc = "idle" => due \intersect DOMAIN facts = {}
  <1>1. /\ sweep.pc = "read" /\ sweep.cursor \in Nat
        /\ UNCHANGED <<lake, worker, entities, facts, buffer, linking, due, used, commits>>
    BY DEF SweepRead, FactsTyped
  <1>2. PICK page : page = Page(sweep.cursor)
    OBVIOUS
  <1>3. Live \subseteq Nat /\ IsFiniteSet(Live) /\ Live \subseteq FactIds
    BY LiveAreIds
  <1>4. /\ page = {} => \A f \in Live : f <= sweep.cursor
        /\ page # {} =>
             /\ LastOf(page) \in page /\ page \subseteq Live
             /\ \A f \in Live : sweep.cursor < f /\ f <= LastOf(page) => f \in page
    BY <1>1, <1>2, <1>3, PageIsASlice
  <1>5. \A f \in due \intersect DOMAIN facts :
           f \in Live /\ Stale(f) /\ sweep.cursor < f /\ f \in Nat
    BY <1>1, <1>3 DEF DueIsAhead, Live
  <1>6. CASE page = {}
    <2>1. due \intersect DOMAIN facts = {}
      BY <1>1, <1>4, <1>5, <1>6
    <2>2. sweep' = NoSweep
      BY <1>2, <1>6 DEF SweepRead
    <2>3. sweep' \in [pc : {"idle", "read", "delete"}, cursor : Nat, doomed : SUBSET FactIds]
      BY <2>2 DEF NoSweep
    <2>4. DueIsAhead'
      BY <1>1, <2>1 DEF DueIsAhead
    <2> QED
      BY <1>1, <2>1, <2>3, <2>4
  <1>7. CASE page # {}
    <2>1. PICK last : last = LastOf(page)
      OBVIOUS
    <2>2. sweep' = [pc |-> "delete", cursor |-> last, doomed |-> {f \in page : Stale(f)}]
      BY <1>2, <1>7, <2>1 DEF SweepRead
    <2>3. last \in Nat /\ page \subseteq FactIds
      BY <1>3, <1>4, <1>7, <2>1
    <2>4. sweep' \in [pc : {"idle", "read", "delete"}, cursor : Nat, doomed : SUBSET FactIds]
      BY <2>2, <2>3
    <2>5. DueIsAhead'
      <3> SUFFICES ASSUME NEW f \in due \intersect DOMAIN facts
                   PROVE  /\ facts[f].superseded_by = NULL /\ Stale(f)'
                          /\ last < f \/ (f \in page /\ Stale(f))
        BY <1>1, <2>2 DEF DueIsAhead
      <3>1. last < f \/ f \in page
        BY <1>4, <1>5, <1>7, <2>1, <2>3
      <3>2. Stale(f)'
        BY <1>1, <1>5 DEF Stale
      <3> QED
        BY <1>5, <3>1, <3>2 DEF Live
    <2> QED
      BY <1>1, <2>2, <2>4, <2>5
  <1> QED
    BY <1>6, <1>7

\* A sweep reads its next page, or finds that it has come to the end.
LEMMA SweepReadKeepsFacts ==
    ASSUME FactsInv, UNCHANGED content, SweepRead
    PROVE  FactsInv'
  <1>1. /\ UNCHANGED <<lake, worker, entities, facts, buffer, linking, due, used, commits>>
        /\ sweep' \in [pc : {"idle", "read", "delete"}, cursor : Nat, doomed : SUBSET FactIds]
        /\ DueIsAhead'
    BY SweepReadGives DEF FactsInv
  <1>2. LinksSound' /\ \A g \in DOMAIN facts' : facts'[g] \in FactRow
    BY <1>1, SameFactsGive
  <1>3. DegradedIsExplained'
    BY <1>1 DEF FactsInv, DegradedIsExplained
  <1> QED
    BY <1>1, <1>2, <1>3, OthersKeepFacts DEF FactsInv, FactsTyped

\* supersede() walks the chain of the successor and finds no cycle.
LEMMA SupersedeCheckKeepsFacts ==
    ASSUME FactsInv, UNCHANGED content, NEW old, NEW new, SupersedeCheck(old, new)
    PROVE  FactsInv'
  <1>1. /\ old \in DOMAIN facts /\ new \in DOMAIN facts /\ linking' = <<old, new>>
        /\ UNCHANGED <<lake, worker, entities, facts, buffer, sweep, due, used, commits>>
    BY DEF SupersedeCheck
  <1>2. PICK D : D = Chain(new)
    OBVIOUS
  <1>3. old \notin D /\ old \in FactIds /\ new \in FactIds
    BY <1>1, <1>2 DEF SupersedeCheck, ClosesCycle, FactsInv, FactsTyped
  <1>4. NoDangling' /\ SuccessorsAreFacts' /\ LinksOnlyCut
    BY <1>1 DEF FactsInv, LinksSound, NoDangling, SuccessorsAreFacts, LinksOnlyCut
  <1>5. SupersessionEnds'
    BY <1>4, CuttingKeepsChains DEF FactsInv
  <1>6. ChainsAreLeast /\ ChainsAreLeast'
    BY <1>4, Chains, ChainsAfter DEF FactsInv, LinksSound
  <1>7. Chain(new)' \subseteq D
    <2>1. new \in D /\ ClosedUp(D)
      BY <1>2, <1>3, <1>6 DEF ChainsAreLeast
    <2>2. ClosedUp(D)'
      BY <1>1, <2>1 DEF ClosedUp
    <2> QED
      BY <1>3, <1>6, <2>1, <2>2 DEF ChainsAreLeast
  <1>8. LinkIsSafe'
    <2>1. linking'[1] = old /\ linking'[2] = new
      BY <1>1
    <2>2. PICK a, b : a = linking'[1] /\ b = linking'[2]
      OBVIOUS
    <2>3. a \notin Chain(b)'
      BY <1>3, <1>7, <2>1, <2>2
    <2> QED
      BY <1>3, <2>1, <2>2, <2>3 DEF LinkIsSafe
  <1>9. LinksSound'
    BY <1>4, <1>5, <1>8 DEF LinksSound
  <1>10. DueIsAhead' /\ DegradedIsExplained'
    BY <1>1 DEF FactsInv, DueIsAhead, Stale, DegradedIsExplained
  <1>11. linking' \in used \X used
    BY <1>1 DEF FactsInv, FactsTyped
  <1> QED
    BY <1>1, <1>9, <1>10, <1>11, OthersKeepFacts DEF FactsInv, FactsTyped

\* supersede() writes the link it has checked.
LEMMA SupersedeUpdateKeepsFacts ==
    ASSUME FactsInv, UNCHANGED content, SupersedeUpdate
    PROVE  FactsInv'
  <1>1. PICK old \in used, new \in used : linking = <<old, new>>
    BY DEF SupersedeUpdate, FactsInv, FactsTyped
  <1>2. /\ linking' = <<>> /\ due' = due \ {old}
        /\ facts' = IF {old, new} \subseteq DOMAIN facts
                    THEN [facts EXCEPT ![old].superseded_by = new] ELSE facts
        /\ UNCHANGED <<lake, worker, entities, buffer, sweep, used, commits>>
    BY <1>1 DEF SupersedeUpdate
  <1>3. LinkIsSafe'
    BY <1>2 DEF LinkIsSafe
  <1>4. /\ LinksSound'
        /\ \A g \in DOMAIN facts' :
             /\ Says(g) /\ facts'[g] \in FactRow /\ facts'[g].aged = facts[g].aged
             /\ g # old => facts'[g].superseded_by = facts[g].superseded_by
    <2>1. CASE {old, new} \subseteq DOMAIN facts
      <3>1. PICK w : w = [facts[old] EXCEPT !.superseded_by = new]
        OBVIOUS
      <3>2. /\ w \in FactRow /\ w.superseded_by = new /\ w.conf = facts[old].conf
            /\ w.ent = facts[old].ent /\ w.obj = facts[old].obj /\ w.src = facts[old].src
            /\ w.domain = facts[old].domain /\ w.aged = facts[old].aged
        <4>1. facts[old] \in FactRow /\ new \in FactIds
          BY <2>1 DEF FactsInv, FactsTyped
        <4> QED
          BY <3>1, <4>1 DEF FactRow
      <3>3. facts' = [facts EXCEPT ![old] = w]
        BY <1>2, <2>1, <3>1
      <3>4. /\ DOMAIN facts' = DOMAIN facts /\ facts'[old] = w
            /\ \A g \in DOMAIN facts : g # old => facts'[g] = facts[g]
        BY <2>1, <3>3
      <3>5. \A g \in DOMAIN facts' : facts'[g] \in FactRow
        BY <3>2, <3>4 DEF FactsInv, FactsTyped
      <3>6. SuccessorsAreFacts' /\ NoDangling'
        <4>1. SuccessorsAreFacts'
          BY <3>4, <3>5 DEF SuccessorsAreFacts, FactRow, FactsInv, LinksSound
        <4>2. NoDangling'
          BY <2>1, <3>2, <3>4 DEF FactsInv, LinksSound, NoDangling
        <4> QED
          BY <4>1, <4>2
      <3>7. old \notin Chain(new)
        <4>1. PICK a, b : a = linking[1] /\ b = linking[2]
          OBVIOUS
        <4>2. a \notin Chain(b) /\ a = old /\ b = new
          BY <1>1, <4>1 DEF FactsInv, LinksSound, LinkIsSafe
        <4> QED
          BY <4>2
      <3>8. SupersessionEnds'
        BY <2>1, <3>2, <3>4, <3>6, <3>7, LinkingKeepsChains DEF FactsInv
      <3> QED
        BY <1>3, <3>2, <3>4, <3>5, <3>6, <3>8 DEF LinksSound, Says
    <2>2. CASE ~({old, new} \subseteq DOMAIN facts)
      <3>1. facts' = facts
        BY <1>2, <2>2
      <3>2. NoDangling' /\ SuccessorsAreFacts' /\ LinksOnlyCut
        BY <3>1 DEF FactsInv, LinksSound, NoDangling, SuccessorsAreFacts, LinksOnlyCut
      <3>3. SupersessionEnds'
        BY <3>2, CuttingKeepsChains DEF FactsInv
      <3> QED
        BY <1>3, <3>1, <3>2, <3>3 DEF LinksSound, Says, FactsInv, FactsTyped
    <2> QED
      BY <2>1, <2>2
  <1>5. DegradedIsExplained'
    BY <1>2, <1>4, SaidIsExplained DEF FactsInv
  <1>6. DueIsAhead'
    <2>1. \A g \in due' \intersect DOMAIN facts' :
             /\ Says(g) /\ facts'[g].aged \in {facts[g].aged, TRUE}
             /\ facts[g].superseded_by = NULL => facts'[g].superseded_by = NULL
      BY <1>2, <1>4
    <2> QED
      BY <1>2, <2>1, SaidIsDue DEF FactsInv
  <1>7. \A g \in DOMAIN facts' :
           g \in DOMAIN facts /\ facts'[g] \in FactRow /\ facts'[g].conf = facts[g].conf
    BY <1>4 DEF Says
  <1> QED
    BY <1>2, <1>4, <1>5, <1>6, <1>7, OthersKeepFacts DEF FactsInv, FactsTyped

\* Any step of a creator.
LEMMA CreatorKeepsFacts ==
    ASSUME FactsInv, UNCHANGED content, NEW c \in Creators,
           ClaimSelect(c) \/ CreatorStep(c) \/ Crash(c)
    PROVE  FactsInv'
  <1>1. ASSUME worker'[c].todo = {} \/ (worker'[c].todo \subseteq worker[c].todo
                                               /\ worker[c].pc # "embed"),
               \A d \in Creators : d # c => worker'[d] = worker[d], LakeInv',
               UNCHANGED <<facts, buffer, used, linking, due, sweep, entities>>
        PROVE  FactsInv'
    BY <1>1, QuietKeepsFacts
  <1>2. CASE ClaimSelect(c)
    BY <1>1, <1>2, ClaimSelectKeepsTheLake DEF ClaimSelect, upkeep, FactsInv
  <1>3. CASE ClaimUpdate(c)
    BY <1>1, <1>3, ClaimUpdateKeepsTheLake DEF ClaimUpdate, upkeep, FactsInv
  <1>4. CASE Extract(c)
    BY <1>1, <1>4, ExtractKeepsTheLake DEF Extract, upkeep, FactsInv, FactsTyped
  <1>5. CASE FindIncumbents(c)
    BY <1>5, FindIncumbentsKeepsTheLake, FindIncumbentsKeepsFacts DEF FactsInv
  <1>6. CASE Quarantine(c)
    BY <1>6, QuarantineKeepsTheLake, QuarantineKeepsFacts DEF FactsInv
  <1>7. CASE FlagQuarantined(c) \/ ProcessingFails(c)
    <2>1. PICK o \in {"malformed", "processed", "quarantined"} :
             /\ Settle(c, o) /\ worker[c].pc # "idle"
             /\ UNCHANGED <<arrived, stub, recording, commits, facts, buffer, used, linking, due,
                            sweep, entities>>
      BY <1>7 DEF FlagQuarantined, ProcessingFails, upkeep
    <2>2. /\ LakeInv' /\ Advanced(worker'[c], worker[c].batch)
          /\ \A d \in Creators : d # c => worker'[d] = worker[d]
      BY <2>1, SettleKeepsTheLake DEF FactsInv
    <2> QED
      BY <1>1, <2>1, <2>2 DEF Advanced
  <1>8. CASE Commit(c)
    BY <1>8, CommitKeepsTheLake, CommitKeepsFacts DEF FactsInv
  <1>9. CASE CommitContended(c)
    BY <1>1, <1>9, ContendingKeepsTheLake DEF CommitContended, upkeep, FactsInv
  <1>10. CASE Embed(c)
    BY <1>1, <1>10, EmbedKeepsTheLake DEF Embed, upkeep, FactsInv, Advanced
  <1>11. CASE Crash(c)
    BY <1>1, <1>11, CrashKeepsTheLake, IdleIsARow DEF Crash, upkeep, FactsInv
  <1> QED
    BY <1>2, <1>3, <1>4, <1>5, <1>6, <1>7, <1>8, <1>9, <1>10, <1>11 DEF CreatorStep

\* Any step of a recorder.
LEMMA RecordingKeepsFacts ==
    ASSUME FactsInv, UNCHANGED content, NEW r \in Recorders,
           (\E e \in Ext : RecordLookup(r, e)) \/ RecordInsert(r)
    PROVE  FactsInv'
  <1>1. LakeInv' /\ UNCHANGED worker
    BY RecordingKeepsTheLake DEF FactsInv
  <1>2. UNCHANGED <<facts, buffer, used, linking, due, sweep, entities>>
    BY DEF RecordLookup, RecordInsert, upkeep
  <1> QED
    BY <1>1, <1>2, QuietKeepsFacts

\* A step of the actors around the creators.
OthersStep ==
    \/ \E b \in buffer, v \in Resolutions : Resolve(b, v)
    \/ \E f, g \in DOMAIN facts : SupersedeCheck(f, g)
    \/ SupersedeUpdate
    \/ SweepStart \/ SweepRead \/ SweepDelete
    \/ \E f \in DOMAIN facts : Touch(f) \/ Age(f)
    \/ ConsolidateRead \/ ConsolidateWrite

\* The actors of a step.
LEMMA StepsAre ==
    ASSUME [Next]_vars
    PROVE  /\ UNCHANGED content
           /\ \/ \E r \in Recorders : (\E e \in Ext : RecordLookup(r, e)) \/ RecordInsert(r)
              \/ \E c \in Creators : ClaimSelect(c) \/ CreatorStep(c) \/ Crash(c)
              \/ OthersStep
              \/ UNCHANGED vars
  <1>1. CASE Next
    BY <1>1, Zenon DEF Next, OthersStep
  <1>2. CASE UNCHANGED vars
    BY <1>2 DEF vars
  <1> QED
    BY <1>1, <1>2

\* No step breaks the invariant,
LEMMA FactsNext == FactsInv /\ [Next]_vars => FactsInv'
  <1> SUFFICES ASSUME FactsInv, [Next]_vars PROVE FactsInv'
    OBVIOUS
  <1>1. UNCHANGED content
    BY StepsAre
  <1>2. ASSUME NEW r \in Recorders, (\E e \in Ext : RecordLookup(r, e)) \/ RecordInsert(r)
        PROVE  FactsInv'
    BY <1>1, <1>2, RecordingKeepsFacts
  <1>3. ASSUME NEW c \in Creators, ClaimSelect(c) \/ CreatorStep(c) \/ Crash(c)
        PROVE  FactsInv'
    BY <1>1, <1>3, CreatorKeepsFacts
  <1>4. CASE OthersStep
    <2>1. CASE \E b \in buffer, v \in Resolutions : Resolve(b, v)
      BY <1>1, <2>1, ResolveKeepsFacts
    <2>2. CASE \E f, g \in DOMAIN facts : SupersedeCheck(f, g)
      BY <1>1, <2>2, SupersedeCheckKeepsFacts
    <2>3. CASE SupersedeUpdate
      BY <1>1, <2>3, SupersedeUpdateKeepsFacts
    <2>4. CASE SweepStart \/ SweepRead \/ SweepDelete
      BY <1>1, <2>4, SweepStartKeepsFacts, SweepReadKeepsFacts, SweepDeleteKeepsFacts
    <2>5. CASE \E f \in DOMAIN facts : Touch(f) \/ Age(f)
      BY <1>1, <2>5, TouchOrAgeKeepsFacts
    <2>6. CASE ConsolidateRead \/ ConsolidateWrite
      BY <1>1, <2>6, ConsolidateKeepsFacts
    <2> QED
      BY <1>4, <2>1, <2>2, <2>3, <2>4, <2>5, <2>6 DEF OthersStep
  <1>5. CASE UNCHANGED vars
    <2>1. UNCHANGED <<lake, worker, content, commits, facts, buffer, used, linking, due, sweep,
                      entities>>
      BY <1>5 DEF vars, lake
    <2>2. LakeInv'
      BY <2>1, OthersKeepTheLake DEF FactsInv
    <2> QED
      BY <2>1, <2>2, QuietKeepsFacts
  <1> QED
    BY <1>2, <1>3, <1>4, <1>5, StepsAre

\* A listing of as many signals as there are repeats none.
LEMMA SignalsArriveOnce ==
    ASSUME NEW s \in [1..Cardinality(Ext) -> Ext], Rows(s) = Ext
    PROVE  s \in Seq(Ext) /\ NoRepeats(s)
  <1>1. PICK n \in Nat : n = Cardinality(Ext)
    BY MemoryAssumption, FS_CardinalityType
  <1>2. s \in Seq(Ext) /\ Len(s) = n
    BY <1>1
  <1>3. s \in Surjection(1..n, Ext)
    BY <1>1, <1>2 DEF Surjection, Rows
  <1>4. IsFiniteSet(1..n) /\ Cardinality(1..n) = n
    <2>1. 1 \in Int /\ n \in Int /\ (IF 1 > n THEN 0 ELSE n - 1 + 1) = n
      OBVIOUS
    <2> QED
      BY <2>1, FS_Interval
  <1>5. s \in Injection(1..n, Ext)
    BY <1>1, <1>3, <1>4, FS_SurjSameCardinalityImpliesInj
  <1> QED
    BY <1>2, <1>5 DEF Injection, IsInjective, NoRepeats

\* and the empty store has it.
LEMMA MemoryInit == Init => FactsInv
  <1> SUFFICES ASSUME Init PROVE FactsInv
    OBVIOUS
  <1>1. arrived \in Seq(Ext) /\ NoRepeats(arrived)
    <2>1. CASE "source" \in cast
      <3>1. arrived = <<>>
        BY <2>1 DEF Init
      <3> QED
        BY <3>1 DEF NoRepeats
    <2>2. CASE "source" \notin cast
      BY <2>2, SignalsArriveOnce DEF Init
    <2> QED
      BY <2>1, <2>2
  <1>2. status = [e \in Ext |-> IF e \in Rows(arrived) THEN "unprocessed" ELSE "absent"]
    BY DEF Init
  <1>3. LakeTyped
    BY <1>1, <1>2 DEF Init, LakeTyped
  <1>4. \A c \in Creators : worker[c] = Idle
    BY DEF Init
  <1>5. WorkersTyped
    BY <1>4, IdleIsARow DEF Init, WorkersTyped
  <1>6. ArrivedOnce
    BY <1>1, <1>2 DEF ArrivedOnce
  <1>7. \A c \in Creators : HoldsItsPlace(c)
    BY <1>4, IdleIsARow DEF HoldsItsPlace
  <1>8. LakeInv
    BY <1>3, <1>5, <1>6, <1>7 DEF LakeInv
  <1>9. DOMAIN facts = {} /\ buffer = {} /\ due = {} /\ entities = {} /\ linking = <<>>
        /\ sweep = NoSweep /\ used = {}
    <2>1. facts = << >>
      BY DEF Init
    <2>2. DOMAIN facts = {}
      BY <2>1
    <2> QED
      BY <2>2 DEF Init
  <1>10. FactsTyped
    BY <1>9 DEF FactsTyped, NoSweep
  <1>11. TodoTyped /\ WereConfident
    BY <1>4, IdleIsARow DEF TodoTyped, WereConfident
  <1>12. LinksSound
    BY <1>9 DEF LinksSound, SuccessorsAreFacts, NoDangling, SupersessionEnds, LinkIsSafe
  <1>13. DegradedIsExplained /\ DueIsAhead
    BY <1>9 DEF DegradedIsExplained, DueIsAhead
  <1> QED
    BY <1>8, <1>10, <1>11, <1>12, <1>13 DEF FactsInv

\* So it holds always, on either database.
LEMMA FactsAlways == Spec => []FactsInv
  BY MemoryInit, FactsNext, PTL DEF Spec

\* On either database: rows, facts and creators have their types.
THEOREM MemoryTyped == Spec => []MemoryTypeOK
  <1>1. FactsInv => MemoryTypeOK
    BY DEF FactsInv, LakeInv, LakeTyped, WorkersTyped, FactsTyped, FactRow, LinksSound, NoDangling,
           MemoryTypeOK
  <1> QED
    BY <1>1, FactsAlways, PTL

\* quarantine() is what degrades a fact: one held with the degraded confidence is in
\* the contradiction buffer, or was said with that little confidence to begin with.
THEOREM DegradedAlwaysExplained == Spec => []DegradedIsExplained
  <1>1. FactsInv => DegradedIsExplained
    BY DEF FactsInv
  <1> QED
    BY <1>1, FactsAlways, PTL

\* supersede() checks for a cycle in one statement and links in another: with one call
\* at a time, whatever is resolved or deleted in between, every chain has an end.
THEOREM SupersessionAlwaysEnds == Spec => []SupersessionEnds
  <1>1. FactsInv => SupersessionEnds
    BY DEF FactsInv, LinksSound
  <1> QED
    BY <1>1, FactsAlways, PTL

\* DecaySweeper.sweep() pages by id while others insert, touch and delete: when it ends,
\* no fact that was stale when it began is left, however long the table.
THEOREM SweepNeverMisses == Spec => SweepMissesNothing
  <1>1. FactsInv /\ [Next]_vars =>
            [sweep.pc = "read" /\ sweep'.pc = "idle" => due \intersect DOMAIN facts = {}]_vars
    <2> SUFFICES ASSUME FactsInv, [Next]_vars, sweep.pc = "read", sweep'.pc = "idle"
                 PROVE  due \intersect DOMAIN facts = {}
      OBVIOUS
    <2>1. SweepRead
      <3>1. sweep' # sweep
        OBVIOUS
      <3>2. ~UNCHANGED vars
        BY <3>1 DEF vars
      <3>3. \A r \in Recorders : ~((\E e \in Ext : RecordLookup(r, e)) \/ RecordInsert(r))
        BY <3>1 DEF RecordLookup, RecordInsert, upkeep
      <3>4. \A c \in Creators : ~(ClaimSelect(c) \/ CreatorStep(c) \/ Crash(c))
        BY <3>1 DEF ClaimSelect, CreatorStep, Crash, ClaimUpdate, Extract, FindIncumbents,
             Quarantine, FlagQuarantined, Commit, CommitContended, Embed, ProcessingFails, upkeep
      <3>5. OthersStep
        BY <3>2, <3>3, <3>4, StepsAre
      <3> QED
        BY <3>1, <3>5 DEF OthersStep, Resolve, SupersedeCheck, SupersedeUpdate, SweepStart,
             SweepDelete, Touch, Age, ConsolidateRead, ConsolidateWrite, upkeep
    <2> QED
      BY <2>1, SweepReadGives DEF FactsInv
  <1> QED
    BY <1>1, FactsAlways, PTL DEF Spec, SweepMissesNothing

-----------------------------------------------------------------------------
(* One writer at a time: a signal is one creator's *)

\* The rows of a creator's batch are marked as claimed, and only the signal in
\* hand can have been contested.
HoldsAlone(c) ==
    LET w == worker[c] IN
    /\ w.pc # "claiming" /\ NoRepeats(w.batch)
    /\ \A i \in 1..Len(w.batch) :
         status[w.batch[i]] = IF w.pc = "embed" /\ i = 1 THEN "processed" ELSE "processing"
    /\ \A b \in buffer, i \in 1..Len(w.batch) : w.batch[i] = b.src => i = 1 /\ w.hit

BatchesApart ==
    \A c, d \in Creators : c # d =>
        \A i \in 1..Len(worker[c].batch), j \in 1..Len(worker[d].batch) :
            worker[c].batch[i] # worker[d].batch[j]

CommittedOnce ==
    \A e \in Ext : \/ commits[e] = 0
                   \/ commits[e] = 1 /\ status[e] \in {"processed", "malformed"}

ContestedWereClaimed ==
    \A b \in buffer : status[b.src] \notin {"absent", "unprocessed"} /\ commits[b.src] = 0

OnceInv ==
    /\ FactsInv /\ \A c \in Creators : HoldsAlone(c)
    /\ BatchesApart /\ CommittedOnce /\ ContestedWereClaimed

\* The rest of a batch without repeats is one.
LEMMA TailIsTheRest ==
    ASSUME NEW b \in Seq(Ext), b # <<>>, NoRepeats(b)
    PROVE  /\ NoRepeats(Tail(b)) /\ Len(Tail(b)) \in Nat
           /\ \A i \in 1..Len(Tail(b)) :
                i + 1 \in 1..Len(b) /\ i + 1 # 1 /\ Tail(b)[i] = b[i + 1] /\ Tail(b)[i] # Head(b)
  <1>1. \A i \in 1..Len(Tail(b)) : i + 1 \in 1..Len(b) /\ i + 1 # 1 /\ Tail(b)[i] = b[i + 1]
    OBVIOUS
  <1>2. 1 \in 1..Len(b) /\ Head(b) = b[1] /\ Len(Tail(b)) \in Nat
    OBVIOUS
  <1>3. \A i \in 1..Len(Tail(b)) : Tail(b)[i] # Head(b)
    BY <1>1, <1>2 DEF NoRepeats
  <1>4. NoRepeats(Tail(b))
    <2> SUFFICES ASSUME NEW i \in 1..Len(Tail(b)), NEW j \in 1..Len(Tail(b)),
                        Tail(b)[i] = Tail(b)[j]
                 PROVE  i = j
      BY DEF NoRepeats
    <2>1. i + 1 = j + 1
      BY <1>1 DEF NoRepeats
    <2> QED
      BY <2>1
  <1> QED
    BY <1>1, <1>2, <1>3, <1>4

\* What a creator holds, in the form the lemmas below need.
LEMMA BatchOf ==
    ASSUME OnceInv, NEW c \in Creators
    PROVE  LET b == worker[c].batch IN
           /\ b \in Seq(Ext) /\ Len(b) \in Nat /\ NoRepeats(b)
           /\ \A i \in 1..Len(b) : b[i] \in Ext
           /\ worker[c].hit \in BOOLEAN /\ HoldsItsPlace(c) /\ HoldsAlone(c)
  <1>1. worker[c].batch \in Seq(Ext) /\ worker[c].hit \in BOOLEAN
    BY DEF OnceInv, FactsInv, LakeInv, WorkersTyped, WorkerRow
  <1> QED
    BY <1>1 DEF OnceInv, FactsInv, LakeInv, HoldsAlone

\* The signal in hand is settled, one way or the other, and the rest goes on.
LEMMA AdvancingIsAlone ==
    ASSUME OnceInv, FactsInv', NEW c \in Creators, worker[c].pc # "idle",
           Advanced(worker'[c], worker[c].batch),
           \A d \in Creators : d # c => worker'[d] = worker[d],
           UNCHANGED <<commits, buffer>>,
           \A e \in Ext : e # Head(worker[c].batch) => status'[e] = status[e],
           NEW o \in {"malformed", "processed", "quarantined"},
           status'[Head(worker[c].batch)] = o,
           o = "quarantined" => commits[Head(worker[c].batch)] = 0
    PROVE  OnceInv'
  <1>1. PICK b \in Seq(Ext) : b = worker[c].batch
    BY BatchOf
  <1>2. b # <<>> /\ NoRepeats(b) /\ 1 \in 1..Len(b) /\ Head(b) = b[1] /\ Head(b) \in Ext
        /\ \A i \in 1..Len(b) : b[i] \in Ext
    BY <1>1, BatchOf, BatchInHand DEF OnceInv, FactsInv
  <1>3. PICK r : r = Tail(b)
    OBVIOUS
  <1>4. /\ NoRepeats(r) /\ Len(r) \in Nat
        /\ \A i \in 1..Len(r) : i + 1 \in 1..Len(b) /\ i + 1 # 1 /\ r[i] = b[i + 1] /\ r[i] # Head(b)
    BY <1>2, <1>3, TailIsTheRest
  <1>5. worker'[c].batch = r /\ worker'[c].pc \in {"idle", "extract"} /\ worker'[c].hit = FALSE
    BY <1>1, <1>3 DEF Advanced
  <1>6. HoldsAlone(c)'
    <2>1. \A i \in 1..Len(r) : status'[r[i]] = "processing"
      BY <1>1, <1>2, <1>4, BatchOf DEF HoldsAlone
    <2>2. \A a \in buffer, i \in 1..Len(r) : r[i] # a.src
      BY <1>1, <1>4, BatchOf DEF HoldsAlone
    <2> QED
      BY <1>4, <1>5, <2>1, <2>2 DEF HoldsAlone
  <1>7. ASSUME NEW d \in Creators, d # c PROVE HoldsAlone(d)'
    <2>1. \A i \in 1..Len(worker[d].batch) :
             worker[d].batch[i] # Head(b) /\ worker[d].batch[i] \in Ext
      BY <1>1, <1>2, <1>7, BatchOf DEF OnceInv, BatchesApart
    <2> QED
      BY <1>1, <1>7, <2>1, BatchOf DEF HoldsAlone
  <1>8. BatchesApart'
    <2> SUFFICES ASSUME NEW p \in Creators, NEW d \in Creators, p # d,
                        NEW i \in 1..Len(worker'[p].batch), NEW j \in 1..Len(worker'[d].batch)
                 PROVE  worker'[p].batch[i] # worker'[d].batch[j]
      BY DEF BatchesApart
    <2>1. CASE p = c
      BY <1>1, <1>4, <1>5, <2>1 DEF OnceInv, BatchesApart
    <2>2. CASE d = c
      BY <1>1, <1>4, <1>5, <2>2 DEF OnceInv, BatchesApart
    <2>3. CASE p # c /\ d # c
      BY <2>3 DEF OnceInv, BatchesApart
    <2> QED
      BY <2>1, <2>2, <2>3
  <1>9. CommittedOnce'
    BY <1>1, <1>2 DEF OnceInv, CommittedOnce
  <1>10. ContestedWereClaimed'
    BY <1>1, <1>2 DEF OnceInv, ContestedWereClaimed, FactsInv, FactsTyped, BufferRow
  <1> QED
    BY <1>6, <1>7, <1>8, <1>9, <1>10 DEF OnceInv

\* The signal in hand stays in hand: perhaps it is found to be contested.
LEMMA WorkingIsAlone ==
    ASSUME OnceInv, FactsInv', NEW c \in Creators, worker[c].pc \notin {"idle", "embed"},
           worker'[c].batch = worker[c].batch, worker'[c].pc \notin {"claiming", "embed"},
           \A d \in Creators : d # c => worker'[d] = worker[d],
           UNCHANGED <<commits, status>>,
           worker[c].hit => worker'[c].hit,
           \A b \in buffer' : \/ \E a \in buffer : a.src = b.src
                              \/ b.src = Head(worker[c].batch) /\ worker'[c].hit = TRUE
    PROVE  OnceInv'
  <1>1. PICK b \in Seq(Ext) : b = worker[c].batch
    BY BatchOf
  <1>2. b # <<>> /\ NoRepeats(b) /\ 1 \in 1..Len(b) /\ Head(b) = b[1] /\ Head(b) \in Ext
        /\ \A i \in 1..Len(b) : b[i] \in Ext
    BY <1>1, BatchOf, BatchInHand DEF OnceInv, FactsInv
  <1>3. \A i \in 1..Len(b) : status[b[i]] = "processing"
    BY <1>1, BatchOf DEF HoldsAlone
  <1>4. HoldsAlone(c)'
    <2>1. ASSUME NEW a \in buffer', NEW i \in 1..Len(b), b[i] = a.src
          PROVE  i = 1 /\ worker'[c].hit
      <3>1. CASE \E o \in buffer : o.src = a.src
        <4>1. PICK o \in buffer : o.src = a.src
          BY <3>1
        <4> QED
          BY <1>1, <2>1, <4>1, BatchOf DEF HoldsAlone
      <3>2. CASE a.src = Head(b) /\ worker'[c].hit = TRUE
        BY <1>2, <2>1, <3>2 DEF NoRepeats
      <3> QED
        BY <1>1, <3>1, <3>2
    <2> QED
      BY <1>1, <1>2, <1>3, <2>1 DEF HoldsAlone
  <1>5. ASSUME NEW d \in Creators, d # c PROVE HoldsAlone(d)'
    <2>1. \A i \in 1..Len(worker[d].batch) : worker[d].batch[i] # Head(b)
      BY <1>1, <1>2, <1>5 DEF OnceInv, BatchesApart
    <2>2. worker'[d] = worker[d] /\ HoldsAlone(d)
      BY <1>5, BatchOf
    <2>3. ASSUME NEW a \in buffer', NEW i \in 1..Len(worker[d].batch), worker[d].batch[i] = a.src
          PROVE  i = 1 /\ worker[d].hit
      <3>1. PICK o \in buffer : o.src = a.src
        BY <1>1, <2>1, <2>3
      <3> QED
        BY <2>2, <2>3, <3>1 DEF HoldsAlone
    <2> QED
      BY <2>2, <2>3 DEF HoldsAlone
  <1>6. BatchesApart'
    <2>1. \A d \in Creators : worker'[d].batch = worker[d].batch
      OBVIOUS
    <2> SUFFICES ASSUME NEW p \in Creators, NEW d \in Creators, p # d,
                        NEW i \in 1..Len(worker'[p].batch), NEW j \in 1..Len(worker'[d].batch)
                 PROVE  worker'[p].batch[i] # worker'[d].batch[j]
      BY DEF BatchesApart
    <2>2. worker'[p].batch = worker[p].batch /\ worker'[d].batch = worker[d].batch
      BY <2>1
    <2> QED
      BY <2>2 DEF OnceInv, BatchesApart
  <1>7. CommittedOnce'
    BY DEF OnceInv, CommittedOnce
  <1>8. ContestedWereClaimed'
    <2> SUFFICES ASSUME NEW a \in buffer'
                 PROVE  status[a.src] \notin {"absent", "unprocessed"} /\ commits[a.src] = 0
      BY DEF ContestedWereClaimed
    <2>1. CASE \E o \in buffer : o.src = a.src
      BY <2>1 DEF OnceInv, ContestedWereClaimed
    <2>2. CASE a.src = Head(b)
      BY <1>2, <1>3, <2>2 DEF OnceInv, CommittedOnce
    <2> QED
      BY <1>1, <2>1, <2>2
  <1> QED
    BY <1>4, <1>5, <1>6, <1>7, <1>8 DEF OnceInv

\* The commit of a signal nobody else holds is its first.
LEMMA CommitIsAlone ==
    ASSUME OnceInv, FactsInv', UNCHANGED content, NEW c \in Creators, Commit(c)
    PROVE  OnceInv'
  <1>1. PICK b \in Seq(Ext) : b = worker[c].batch
    BY BatchOf
  <1>2. /\ worker[c].pc = "commit" /\ worker'[c].batch = b /\ worker'[c].pc = "embed"
        /\ worker[c].hit = FALSE /\ worker'[c].hit = FALSE
        /\ \A d \in Creators : d # c => worker'[d] = worker[d]
        /\ status' = [status EXCEPT ![Head(b)] = "processed"]
        /\ commits' = [commits EXCEPT ![Head(b)] = @ + 1]
        /\ UNCHANGED buffer
    BY <1>1, CommitKeepsTheLake DEF Commit, OnceInv, FactsInv
  <1>3. b # <<>> /\ NoRepeats(b) /\ 1 \in 1..Len(b) /\ Head(b) = b[1] /\ Head(b) \in Ext
        /\ \A i \in 1..Len(b) : b[i] \in Ext
    BY <1>1, <1>2, BatchOf, BatchInHand DEF OnceInv, FactsInv
  <1>4. \A i \in 1..Len(b) : status[b[i]] = "processing"
    BY <1>1, <1>2, BatchOf DEF HoldsAlone
  <1>5. \A a \in buffer, i \in 1..Len(b) : b[i] # a.src
    BY <1>1, <1>2, BatchOf DEF HoldsAlone
  <1>6. /\ commits[Head(b)] = 0 /\ commits'[Head(b)] = 1 /\ status'[Head(b)] = "processed"
        /\ \A e \in Ext : e # Head(b) => commits'[e] = commits[e] /\ status'[e] = status[e]
    <2>1. commits[Head(b)] = 0
      BY <1>3, <1>4 DEF OnceInv, CommittedOnce
    <2>2. commits \in [Ext -> Nat] /\ DOMAIN status = Ext
      BY DEF OnceInv, FactsInv, LakeInv, LakeTyped
    <2> QED
      BY <1>2, <1>3, <2>1, <2>2
  <1>7. HoldsAlone(c)'
    <2>1. \A i \in 1..Len(b) : status'[b[i]] = IF i = 1 THEN "processed" ELSE "processing"
      BY <1>3, <1>4, <1>6 DEF NoRepeats
    <2> QED
      BY <1>2, <1>3, <1>5, <2>1 DEF HoldsAlone
  <1>8. ASSUME NEW d \in Creators, d # c PROVE HoldsAlone(d)'
    <2>1. \A i \in 1..Len(worker[d].batch) :
             worker[d].batch[i] # Head(b) /\ worker[d].batch[i] \in Ext
      BY <1>1, <1>3, <1>8, BatchOf DEF OnceInv, BatchesApart
    <2> QED
      BY <1>2, <1>6, <1>8, <2>1, BatchOf DEF HoldsAlone
  <1>9. BatchesApart'
    <2>1. \A d \in Creators : worker'[d].batch = worker[d].batch
      BY <1>1, <1>2
    <2> SUFFICES ASSUME NEW p \in Creators, NEW d \in Creators, p # d,
                        NEW i \in 1..Len(worker'[p].batch), NEW j \in 1..Len(worker'[d].batch)
                 PROVE  worker'[p].batch[i] # worker'[d].batch[j]
      BY DEF BatchesApart
    <2>2. worker'[p].batch = worker[p].batch /\ worker'[d].batch = worker[d].batch
      BY <2>1
    <2> QED
      BY <2>2 DEF OnceInv, BatchesApart
  <1>10. CommittedOnce'
    BY <1>6 DEF OnceInv, CommittedOnce
  <1>11. ContestedWereClaimed'
    <2>1. \A a \in buffer : a.src # Head(b) /\ a.src \in Ext
      BY <1>3, <1>5 DEF OnceInv, FactsInv, FactsTyped, BufferRow
    <2> QED
      BY <1>2, <1>6, <2>1 DEF OnceInv, ContestedWereClaimed
  <1> QED
    BY <1>7, <1>8, <1>9, <1>10, <1>11 DEF OnceInv

\* A claim takes rows that nobody else has, and that were not contested.
LEMMA ClaimIsAlone ==
    ASSUME OnceInv, FactsInv', UNCHANGED content, Substrate = "sqlite",
           NEW c \in Creators, ClaimSelect(c)
    PROVE  OnceInv'
  <1>1. PICK b : b = Oldest(BatchLimit)
    OBVIOUS
  <1>2. /\ b \in Seq(Ext) /\ NoRepeats(b) /\ \A k \in 1..Len(b) : status[b[k]] = "unprocessed"
        /\ Len(b) \in Nat /\ \A k \in 1..Len(b) : b[k] \in Ext
    <2>1. \A i, j \in 1..Len(arrived) : arrived[i] = arrived[j] => i = j
      BY DEF OnceInv, FactsInv, LakeInv, ArrivedOnce, NoRepeats
    <2>2. arrived \in Seq(Ext) /\ BatchLimit \in Nat
      BY MemoryAssumption DEF OnceInv, FactsInv, LakeInv, LakeTyped
    <2>3. b \in Seq(Ext) /\ NoRepeats(b) /\ \A k \in 1..Len(b) : status[b[k]] = "unprocessed"
      BY <1>1, <2>1, <2>2, OldestIsABatch DEF NoRepeats
    <2> QED
      BY <2>3
  <1>3. /\ worker[c].batch = <<>> /\ UNCHANGED <<commits, buffer>>
        /\ status' = [e \in Ext |-> IF e \in Rows(b) THEN "processing" ELSE status[e]]
        /\ worker'[c].hit = FALSE /\ worker'[c].batch = b /\ worker'[c].pc = "extract"
        /\ \A d \in Creators : d # c => worker'[d] = worker[d]
    <2>1. worker[c].batch = <<>>
      BY DEF ClaimSelect, OnceInv, FactsInv, LakeInv, WorkersTyped
    <2>2. UNCHANGED <<commits, buffer>>
          /\ status' = [e \in Ext |-> IF e \in Rows(b) THEN "processing" ELSE status[e]]
      BY <1>1 DEF ClaimSelect
    <2> QED
      BY <1>1, <2>1, <2>2, ClaimSelectKeepsTheLake DEF OnceInv, FactsInv
  <1>4. /\ \A e \in Ext : e \in Rows(b) => status[e] = "unprocessed" /\ status'[e] = "processing"
        /\ \A e \in Ext : e \notin Rows(b) => status'[e] = status[e]
        /\ \A k \in 1..Len(b) : b[k] \in Rows(b)
    BY <1>2, <1>3 DEF Rows
  <1>5. \A e \in Rows(b) : e \in Ext /\ commits[e] = 0 /\ \A a \in buffer : a.src # e
    <2>1. \A e \in Rows(b) : e \in Ext /\ status[e] = "unprocessed"
      BY <1>2 DEF Rows
    <2> QED
      BY <2>1 DEF OnceInv, CommittedOnce, ContestedWereClaimed
  <1>6. HoldsAlone(c)'
    <2>1. \A i \in 1..Len(b) : status'[b[i]] = "processing" /\ \A a \in buffer : b[i] # a.src
      BY <1>2, <1>4, <1>5
    <2> QED
      BY <1>2, <1>3, <2>1 DEF HoldsAlone
  <1>7. ASSUME NEW d \in Creators, d # c
        PROVE  /\ HoldsAlone(d)'
               /\ \A i \in 1..Len(worker[d].batch) : worker[d].batch[i] \notin Rows(b)
    <2>1. worker'[d] = worker[d] /\ HoldsAlone(d)
          /\ \A i \in 1..Len(worker[d].batch) : worker[d].batch[i] \in Ext
      BY <1>3, <1>7, BatchOf
    <2>2. \A i \in 1..Len(worker[d].batch) : worker[d].batch[i] \notin Rows(b)
      BY <1>4, <2>1 DEF HoldsAlone
    <2> QED
      BY <1>3, <1>4, <2>1, <2>2 DEF HoldsAlone
  <1>8. BatchesApart'
    <2> SUFFICES ASSUME NEW p \in Creators, NEW d \in Creators, p # d,
                        NEW i \in 1..Len(worker'[p].batch), NEW j \in 1..Len(worker'[d].batch)
                 PROVE  worker'[p].batch[i] # worker'[d].batch[j]
      BY DEF BatchesApart
    <2>1. CASE p = c
      BY <1>3, <1>4, <1>7, <2>1
    <2>2. CASE d = c
      BY <1>3, <1>4, <1>7, <2>2
    <2>3. CASE p # c /\ d # c
      BY <1>3, <2>3 DEF OnceInv, BatchesApart
    <2> QED
      BY <2>1, <2>2, <2>3
  <1>9. CommittedOnce'
    BY <1>3, <1>4, <1>5 DEF OnceInv, CommittedOnce
  <1>10. ContestedWereClaimed'
    BY <1>3, <1>4, <1>5 DEF OnceInv, ContestedWereClaimed, FactsInv, FactsTyped, BufferRow
  <1> QED
    BY <1>6, <1>7, <1>8, <1>9, <1>10 DEF OnceInv

\* Recording, ruling, sweeping and the rest do not move a claimed signal.
LEMMA ElsewhereIsAlone ==
    ASSUME OnceInv, FactsInv', UNCHANGED <<worker, commits>>,
           \A e \in Ext : status[e] # "absent" => status'[e] = status[e],
           \A b \in buffer' : \E a \in buffer : a.src = b.src
    PROVE  OnceInv'
  <1>1. ASSUME NEW c \in Creators PROVE HoldsAlone(c)'
    <2>1. \A i \in 1..Len(worker[c].batch) :
             status'[worker[c].batch[i]] = status[worker[c].batch[i]]
      BY BatchOf DEF HoldsItsPlace
    <2>2. \A a \in buffer', i \in 1..Len(worker[c].batch) :
             worker[c].batch[i] = a.src => i = 1 /\ worker[c].hit
      BY BatchOf DEF HoldsAlone
    <2> QED
      BY <2>1, <2>2, BatchOf DEF HoldsAlone
  <1>2. BatchesApart'
    BY DEF OnceInv, BatchesApart
  <1>3. CommittedOnce'
    BY DEF OnceInv, CommittedOnce
  <1>4. ContestedWereClaimed'
    BY DEF OnceInv, ContestedWereClaimed, FactsInv, FactsTyped, BufferRow
  <1> QED
    BY <1>1, <1>2, <1>3, <1>4 DEF OnceInv

\* A creator that dies leaves claimed rows that nobody holds.
LEMMA CrashIsAlone ==
    ASSUME OnceInv, FactsInv', UNCHANGED content, NEW c \in Creators, Crash(c)
    PROVE  OnceInv'
  <1>1. /\ worker'[c] = Idle /\ \A d \in Creators : d # c => worker'[d] = worker[d]
        /\ UNCHANGED <<status, commits, buffer>>
    BY CrashKeepsTheLake DEF Crash, OnceInv, FactsInv
  <1>2. \A d \in Creators : HoldsAlone(d)'
    <2>1. HoldsAlone(c)'
      BY <1>1, IdleIsARow DEF HoldsAlone, NoRepeats
    <2>2. ASSUME NEW d \in Creators, d # c PROVE HoldsAlone(d)'
      BY <1>1, <2>2, BatchOf DEF HoldsAlone
    <2> QED
      BY <2>1, <2>2
  <1>3. BatchesApart'
    <2> SUFFICES ASSUME NEW p \in Creators, NEW d \in Creators, p # d,
                        NEW i \in 1..Len(worker'[p].batch), NEW j \in 1..Len(worker'[d].batch)
                 PROVE  worker'[p].batch[i] # worker'[d].batch[j]
      BY DEF BatchesApart
    <2>1. p # c /\ d # c
      BY <1>1, IdleIsARow
    <2> QED
      BY <1>1, <2>1 DEF OnceInv, BatchesApart
  <1>4. CommittedOnce' /\ ContestedWereClaimed'
    BY <1>1 DEF OnceInv, CommittedOnce, ContestedWereClaimed
  <1> QED
    BY <1>2, <1>3, <1>4 DEF OnceInv

\* Any step of a creator, on a database with one writer at a time.
LEMMA CreatorIsAlone ==
    ASSUME OnceInv, FactsInv', UNCHANGED content, Substrate = "sqlite", NEW c \in Creators,
           ClaimSelect(c) \/ CreatorStep(c) \/ Crash(c)
    PROVE  OnceInv'
  <1>0. LakeInv /\ FactsTyped /\ entities \subseteq Ents
    BY DEF OnceInv, FactsInv, FactsTyped
  <1> DEFINE e == Head(worker[c].batch)
  <1>1. ASSUME worker[c].pc # "idle"
        PROVE  /\ e \in Ext
               /\ worker[c].pc # "embed" => status[e] = "processing" /\ commits[e] = 0
    <2>1. e \in Ext /\ e = worker[c].batch[1] /\ 1 \in 1..Len(worker[c].batch)
      BY <1>0, <1>1, BatchInHand
    <2>2. worker[c].pc # "embed" => status[e] = "processing"
      BY <2>1, BatchOf DEF HoldsAlone
    <2> QED
      BY <2>1, <2>2 DEF OnceInv, CommittedOnce
  <1>2. ASSUME NEW o \in {"malformed", "processed", "quarantined"}, Settle(c, o),
               worker[c].pc # "idle", o = "quarantined" => worker[c].pc # "embed",
               UNCHANGED <<arrived, stub, recording, commits, buffer>>
        PROVE  OnceInv'
    <2>1. /\ Advanced(worker'[c], worker[c].batch)
          /\ \A d \in Creators : d # c => worker'[d] = worker[d]
          /\ status' = [status EXCEPT ![e] = o]
      BY <1>0, <1>2, SettleKeepsTheLake
    <2>2. status'[e] = o /\ \A x \in Ext : x # e => status'[x] = status[x]
      BY <1>0, <1>1, <1>2, <2>1 DEF LakeInv, LakeTyped
    <2>3. o = "quarantined" => commits[e] = 0
      BY <1>1, <1>2
    <2> QED
      BY <1>2, <2>1, <2>2, <2>3, AdvancingIsAlone
  <1>3. CASE ClaimSelect(c)
    BY <1>3, ClaimIsAlone
  <1>4. CASE ClaimUpdate(c)
    BY <1>4, BatchOf DEF ClaimUpdate, HoldsAlone
  <1>5. CASE Extract(c)
    <2>1. worker[c].pc = "extract" /\ UNCHANGED <<arrived, stub, recording, commits, buffer>>
      BY <1>5 DEF Extract
    <2>2. CASE \E o \in {"malformed", "processed"} : Settle(c, o)
      BY <1>2, <2>1, <2>2
    <2>3. CASE UNCHANGED status /\ worker'[c].pc = "detect"
               /\ worker'[c].batch = worker[c].batch
      <3>1. \A d \in Creators : d # c => worker'[d] = worker[d]
        BY <1>0, <1>5, ExtractKeepsTheLake
      <3>2. worker[c].hit = FALSE
        BY <2>1, BatchOf DEF HoldsItsPlace
      <3> QED
        BY <2>1, <2>3, <3>1, <3>2, WorkingIsAlone
    <2>4. \/ \E o \in {"malformed", "processed"} : Settle(c, o)
          \/ /\ UNCHANGED status
             /\ SetWorker(c, [worker[c] EXCEPT !.pc = "detect", !.known = entities])
      BY <1>5 DEF Extract
    <2>5. ASSUME SetWorker(c, [worker[c] EXCEPT !.pc = "detect", !.known = entities])
          PROVE  worker'[c].pc = "detect" /\ worker'[c].batch = worker[c].batch
      <3>1. worker[c] \in WorkerRow /\ worker \in [Creators -> WorkerRow]
        BY <1>0 DEF LakeInv, WorkersTyped
      <3>2. PICK w : w = [worker[c] EXCEPT !.pc = "detect", !.known = entities]
        OBVIOUS
      <3>3. w.pc = "detect" /\ w.batch = worker[c].batch
        BY <3>1, <3>2 DEF WorkerRow
      <3>4. worker'[c] = w
        BY <2>5, <3>1, <3>2 DEF SetWorker
      <3> QED
        BY <3>3, <3>4
    <2> QED
      BY <2>2, <2>3, <2>4, <2>5
  <1>6. CASE FindIncumbents(c)
    <2>1. UNCHANGED buffer
      BY <1>6 DEF FindIncumbents
    <2> QED
      BY <1>0, <1>6, <2>1, FindIncumbentsKeepsTheLake, WorkingIsAlone
  <1>7. CASE Quarantine(c)
    <2>1. \A b \in buffer' : b \in buffer \/ b.src = e
      <3>1. worker[c].pc # "idle" /\ Current(c) = e
        BY <1>7 DEF Quarantine, Current
      <3> QED
        BY <1>7, <3>1 DEF Quarantine
    <2> QED
      BY <1>0, <1>7, <2>1, QuarantineKeepsTheLake, WorkingIsAlone
  <1>8. CASE FlagQuarantined(c)
    BY <1>2, <1>8 DEF FlagQuarantined
  <1>9. CASE Commit(c)
    BY <1>9, CommitIsAlone
  <1>10. CASE CommitContended(c)
    <2>1. UNCHANGED buffer /\ worker[c].pc = "commit"
      BY <1>10 DEF CommitContended
    <2> QED
      BY <1>0, <1>10, <2>1, ContendingKeepsTheLake, WorkingIsAlone
  <1>11. CASE Embed(c)
    <2>1. /\ UNCHANGED <<status, commits, buffer>> /\ worker[c].pc = "embed"
          /\ Advanced(worker'[c], worker[c].batch)
          /\ \A d \in Creators : d # c => worker'[d] = worker[d]
      BY <1>0, <1>11, EmbedKeepsTheLake DEF Embed
    <2>2. status[e] = "processed"
      <3>1. e = worker[c].batch[1] /\ 1 \in 1..Len(worker[c].batch)
        BY <1>0, <2>1, BatchInHand
      <3> QED
        BY <2>1, <3>1, BatchOf DEF HoldsAlone
    <2> QED
      BY <2>1, <2>2, AdvancingIsAlone
  <1>12. CASE ProcessingFails(c)
    BY <1>2, <1>12 DEF ProcessingFails
  <1>13. CASE Crash(c)
    BY <1>13, CrashIsAlone
  <1> QED
    BY <1>3, <1>4, <1>5, <1>6, <1>7, <1>8, <1>9, <1>10, <1>11, <1>12, <1>13 DEF CreatorStep

\* No step lets two creators hold one signal,
LEMMA OnceNext ==
    ASSUME Substrate = "sqlite"
    PROVE  OnceInv /\ [Next]_vars => OnceInv'
  <1> SUFFICES ASSUME OnceInv, [Next]_vars PROVE OnceInv'
    OBVIOUS
  <1>1. UNCHANGED content /\ FactsInv'
    BY StepsAre, FactsNext DEF OnceInv
  <1>2. ASSUME NEW r \in Recorders, (\E e \in Ext : RecordLookup(r, e)) \/ RecordInsert(r)
        PROVE  OnceInv'
    <2>1. UNCHANGED <<worker, commits>>
          /\ \A e \in Ext : status[e] # "absent" => status'[e] = status[e]
      BY <1>1, <1>2, RecordingKeepsTheLake DEF OnceInv, FactsInv
    <2>2. UNCHANGED buffer
      BY <1>2 DEF RecordLookup, RecordInsert
    <2> QED
      BY <1>1, <2>1, <2>2, ElsewhereIsAlone
  <1>3. ASSUME NEW c \in Creators, ClaimSelect(c) \/ CreatorStep(c) \/ Crash(c)
        PROVE  OnceInv'
    BY <1>1, <1>3, CreatorIsAlone
  <1>4. ASSUME UNCHANGED <<lake, worker, commits>>,
               \A b \in buffer' : \E a \in buffer : a.src = b.src
        PROVE  OnceInv'
    <2>1. UNCHANGED status
      BY <1>4 DEF lake
    <2> QED
      BY <1>1, <1>4, <2>1, ElsewhereIsAlone
  <1>5. CASE OthersStep
    <2>1. CASE \E b \in buffer, v \in Resolutions : Resolve(b, v)
      <3>1. PICK b \in buffer, v \in Resolutions : Resolve(b, v)
        BY <2>1
      <3>2. PICK r : r = [b EXCEPT !.resolution = v]
        OBVIOUS
      <3>3. b \in BufferRow
        BY <3>1 DEF OnceInv, FactsInv, FactsTyped
      <3>4. r.src = b.src
        BY <3>2, <3>3 DEF BufferRow
      <3>5. UNCHANGED <<lake, worker, commits>> /\ buffer' = (buffer \ {b}) \union {r}
        BY <3>1, <3>2 DEF Resolve
      <3> QED
        BY <1>4, <3>1, <3>4, <3>5
    <2>2. CASE \E f, g \in DOMAIN facts : SupersedeCheck(f, g)
      BY <1>4, <2>2 DEF SupersedeCheck
    <2>3. CASE SupersedeUpdate
      BY <1>4, <2>3 DEF SupersedeUpdate
    <2>4. CASE SweepStart \/ SweepRead \/ SweepDelete
      BY <1>4, <2>4 DEF SweepStart, SweepRead, SweepDelete
    <2>5. CASE \E f \in DOMAIN facts : Touch(f) \/ Age(f)
      BY <1>4, <2>5 DEF Touch, Age
    <2>6. CASE ConsolidateRead \/ ConsolidateWrite
      BY <1>4, <2>6 DEF ConsolidateRead, ConsolidateWrite
    <2> QED
      BY <1>5, <2>1, <2>2, <2>3, <2>4, <2>5, <2>6 DEF OthersStep
  <1>6. CASE UNCHANGED vars
    BY <1>4, <1>6 DEF vars, lake
  <1> QED
    BY <1>2, <1>3, <1>5, <1>6, StepsAre

\* and at first none does.
LEMMA OnceAlways ==
    ASSUME Substrate = "sqlite"
    PROVE  Spec => []OnceInv
  <1>1. Init => OnceInv
    <2> SUFFICES ASSUME Init PROVE OnceInv
      OBVIOUS
    <2>1. \A c \in Creators : worker[c] = Idle
      BY DEF Init
    <2>2. \A c \in Creators : HoldsAlone(c)
      BY <2>1, IdleIsARow DEF HoldsAlone, NoRepeats
    <2>3. BatchesApart
      BY <2>1, IdleIsARow DEF BatchesApart
    <2>4. CommittedOnce /\ ContestedWereClaimed
      BY DEF Init, CommittedOnce, ContestedWereClaimed
    <2> QED
      BY <2>2, <2>3, <2>4, MemoryInit DEF OnceInv
  <1> QED
    BY <1>1, OnceNext, PTL DEF Spec

\* claim_unprocessed and _claim are written against "duplicated memory": on a
\* database with one writer at a time a signal's facts are committed once, however
\* many creators race, fail and die.
THEOREM SignalsAreExtractedOnce ==
    ASSUME Substrate = "sqlite"
    PROVE  Spec => []ExtractedOnce
  <1>1. OnceInv => ExtractedOnce
    BY DEF OnceInv, CommittedOnce, ExtractedOnce
  <1> QED
    BY <1>1, OnceAlways, PTL

\* A contested signal writes nothing, what is degraded is explained, chains end.
THEOREM FactsAlwaysSound ==
    ASSUME Substrate = "sqlite"
    PROVE  Spec => []FactsSound
  <1>1. OnceInv => ContestedWritesNothing
    BY DEF OnceInv, ContestedWereClaimed, ContestedWritesNothing
  <1> QED
    BY <1>1, OnceAlways, MemoryTyped, DegradedAlwaysExplained, SupersessionAlwaysEnds, PTL
       DEF FactsSound
=============================================================================
