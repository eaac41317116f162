---------------------------- MODULE GraphStores ----------------------------
(***************************************************************************)
(* The two graph backends, driven by the same calls.  SQLite keeps the     *)
(* bitemporal table hot_serving_relationships, one row per endpoints, type *)
(* and valid_from; kuzu keeps one relationship per endpoints and type, and *)
(* only live ones.  The runtime may boot with either.                      *)
(***************************************************************************)
EXTENDS Integers, Sequences, FiniteSets, SequencesExt

CONSTANTS
    Entities,
    Names,     \* canonical names
    RelTypes,
    Hops,      \* max_hops of the traversals that are compared
    MaxWrites  \* bound: upserts after the first registrations

ASSUME GraphAssumption ==
    Hops \in Nat \ {0} /\ MaxWrites \in Nat /\ "absent" \notin Names

VARIABLES
    index,    \* SQLite: [Entities -> canonical name, or "absent"]
    edgeRows, \* SQLite: [from, to, type, since, weight, live]
    nodes,    \* kuzu: [Entities -> canonical name, or "absent"]
    rels,     \* kuzu: [from, to, type, weight]
    writes,
    tangled   \* ghost: one edge was written under two valid_froms, or a name twice

graphVars == <<index, edgeRows, nodes, rels, writes, tangled>>

Weights == {1, 2}
Sinces == {1, 2}

-----------------------------------------------------------------------------
UpsertEntity(e, n) ==
    LET taken == \E f \in Entities \ {e} : index[f] = n IN   \* the UNIQUE column
    /\ writes < MaxWrites /\ writes' = writes + 1
    /\ index' = IF taken THEN index ELSE [index EXCEPT ![e] = n]
    /\ nodes' = [nodes EXCEPT ![e] = n]
    /\ tangled' = (tangled \/ taken)
    /\ UNCHANGED <<edgeRows, rels>>

SameEdge(r, f, t, y) == r.from = f /\ r.to = t /\ r.type = y

\* The conflict target includes valid_from; a foreign key guards the endpoints.
SqliteUpsert(f, t, y, s, w, live) ==
    IF "absent" \in {index[f], index[t]} THEN edgeRows
    ELSE {r \in edgeRows : ~(SameEdge(r, f, t, y) /\ r.since = s)}
         \union {[from |-> f, to |-> t, type |-> y, since |-> s, weight |-> w, live |-> live]}

KuzuUpsert_KeepsClosed(f, t, y, w, live) ==
    IF "absent" \in {nodes[f], nodes[t]} THEN rels
    ELSE {r \in rels : ~SameEdge(r, f, t, y)}
         \union {[from |-> f, to |-> t, type |-> y, weight |-> w]}

\* MERGE ignores valid_from, and a closed edge is removed instead of stored.
KuzuUpsert(f, t, y, w, live) ==
    LET others == {r \in rels : ~SameEdge(r, f, t, y)} IN
    IF ~live THEN others
    ELSE IF "absent" \in {nodes[f], nodes[t]} THEN rels
    ELSE others \union {[from |-> f, to |-> t, type |-> y, weight |-> w]}

UpsertEdge(f, t, y) ==
    /\ writes < MaxWrites /\ writes' = writes + 1
    /\ \E s \in Sinces, w \in Weights, live \in BOOLEAN :
         /\ edgeRows' = SqliteUpsert(f, t, y, s, w, live)
         /\ rels' = KuzuUpsert(f, t, y, w, live)
         /\ tangled' = (tangled \/ \E r \in edgeRows : SameEdge(r, f, t, y) /\ r.since # s)
    /\ UNCHANGED <<index, nodes>>

\* Only live rows; history stays.
DeleteEdge(f, t, y) ==
    /\ edgeRows' = {r \in edgeRows : ~(SameEdge(r, f, t, y) /\ r.live)}
    /\ rels' = {r \in rels : ~SameEdge(r, f, t, y)}
    /\ UNCHANGED <<index, nodes, writes, tangled>>

PruneEdges(floor) ==
    /\ edgeRows' = {r \in edgeRows : ~(r.weight < floor /\ r.live)}
    /\ rels' = {r \in rels : ~(r.weight < floor)}
    /\ UNCHANGED <<index, nodes, writes, tangled>>

-----------------------------------------------------------------------------
(* Reading *)

LiveRows == {r \in edgeRows : r.live}

NodesOf(a, path) == <<a>> \o [i \in 1..Len(path) |-> path[i].to]
is_simple_path(ns) == Cardinality(ToSet(ns)) = Len(ns)

\* The recursive CTE: a step never lands on a node of the path so far.
SqliteWalk(a) ==
    LET walk[n \in 0..Hops] ==
          IF n = 0 THEN {<<>>}
          ELSE walk[n - 1] \union
               UNION {{Append(p, r) : r \in {x \in LiveRows :
                          /\ x.from = Last(NodesOf(a, p))
                          /\ x.to \notin ToSet(NodesOf(a, p))}} :
                        p \in {q \in walk[n - 1] : Len(q) = n - 1}}
    IN walk[Hops] \ {<<>>}

\* kuzu's recursive pattern follows walks; the client drops those that are not simple.
KuzuPaths(a) ==
    {p \in UNION {[1..n -> rels] : n \in 1..Hops} :
       /\ \A i \in DOMAIN p : p[i].from = NodesOf(a, p)[i]
       /\ is_simple_path(NodesOf(a, p))}

Plain(r) == <<r.from, r.to, r.type, r.weight>>
View(paths) == {[i \in DOMAIN p |-> Plain(p[i])] : p \in paths}

Product(ws) == FoldSeq(LAMBDA w, acc : acc * w, 1, ws)
Weight(p) == Product([i \in DOMAIN p |-> p[i].weight])

\* sort_paths, then the first: fewest hops, heaviest, smallest node ids.  What
\* the key leaves open is the engine's order of rows.
pick_canonical_path(a, paths) ==
    LET fewest == {p \in paths : \A q \in paths : Len(p) <= Len(q)}
        best == {p \in fewest : \A q \in fewest : Weight(p) >= Weight(q)}
    IN {<<NodesOf(a, p), Weight(p)>> : p \in best}

To(b, paths) == {p \in paths : Last(p).to = b}

\* SQLite stops a walk at the target; the shortest ones are the same.
SqliteShortest(a, b) ==
    pick_canonical_path(a, {p \in To(b, SqliteWalk(a)) :
                              \A i \in 1..(Len(p) - 1) : p[i].to # b})
KuzuShortest(a, b) == pick_canonical_path(a, To(b, KuzuPaths(a)))

Neighbors(edges, a) ==
    {<<"out", Plain(r)>> : r \in {x \in edges : x.from = a}}
    \union {<<"in", Plain(r)>> : r \in {x \in edges : x.to = a}}

-----------------------------------------------------------------------------
\* Some entities have been registered, under names of their own.
GraphInit ==
    /\ index \in [Entities -> Names \union {"absent"}]
    /\ \A e, f \in Entities : index[e] = index[f] => e = f \/ index[e] = "absent"
    /\ nodes = index
    /\ edgeRows = {} /\ rels = {} /\ writes = 0 /\ tangled = FALSE

GraphNext ==
    \/ \E e \in Entities, n \in Names : UpsertEntity(e, n)
    \/ \E f, t \in Entities, y \in RelTypes : UpsertEdge(f, t, y) \/ DeleteEdge(f, t, y)
    \/ \E floor \in {2, 3} : PruneEdges(floor)

\* One answer to a traversal, a shortest path and a neighbourhood.
Alike(a) ==
    /\ View(SqliteWalk(a)) = View(KuzuPaths(a))
    /\ \A b \in Entities \ {a} : SqliteShortest(a, b) = KuzuShortest(a, b)
    /\ Neighbors(LiveRows, a) = Neighbors(rels, a)

\* As long as an edge keeps one valid_from and no two entities want one name,
\* a runtime that boots with either backend gets the same answers after any
\* sequence of upserts, retractions, deletions and prunings, cycles and
\* parallel edges included.
BackendsAgree ==
    ~tangled =>
        /\ index = nodes
        /\ LiveRows # {} \/ rels # {} => \A a \in Entities : Alike(a)

\* The same of every sequence of calls.
BackendsIdentical == index = nodes /\ \A a \in Entities : Alike(a)
=============================================================================
