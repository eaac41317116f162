------------------------------ MODULE MCStores ------------------------------
(* What is kept on disk, one store per behaviour: the content-addressed    *)
(* store, a database that processes of several builds start on, the two    *)
(* graph backends side by side, and the two vector backends.               *)
EXTENDS BlobStore, Migrations, GraphStores, VectorStores, TLC

VARIABLE scene

storeVars == <<scene, vars, migVars, graphVars, vectorVars>>

\* Databases as a process may find them: empty, of every version, with rows
\* that an old build wrote, with a gap in the version log, half a schema.
Found(engine, tables, hasLog, log, made, old) ==
    [engine |-> engine, tables |-> tables, hasLog |-> hasLog, log |-> log, made |-> made,
     rows |-> old]
OldRow(n, tick) == [rowid |-> n, seq |-> 0, tick |-> tick, old |-> TRUE]
OldRows == {<<OldRow(1, 1), OldRow(2, 1)>>, <<OldRow(1, 1), OldRow(3, 2)>>}
Made(engine, version) == (UNION {Guarded(engine, v) : v \in 1..version}) \ {"numbers"}
Engines == {"sqlite", "postgres"}

MCDatabases ==
    {Found(e, {}, FALSE, {}, {}, <<>>) : e \in Engines}
    \union {Found(e, {"t1", "t2"}, TRUE, l, {}, r) : e \in Engines, l \in {{}, {1}}, r \in OldRows}
    \union {Found(e, {"t1", "t2"}, TRUE, 1..v, Made(e, v), <<>>) : e \in Engines, v \in 2..5}
    \union {Found(e, {"t1", "t2"}, TRUE, {1, 3}, {}, <<>>) : e \in Engines}
    \union {Found(e, {"t1"}, TRUE, l, {}, <<>>) : e \in Engines, l \in {{}, {1}}}

\* "A" and "a" are two spellings of one UUID.
MCEncoded == [i \in PointIds |-> IF i = "A" THEN "a" ELSE i]
Point(i, v, y) == [id |-> i, v |-> v, pay |-> y]
MCBatches ==
    {<<Point(i, v, y)>> : i \in PointIds, v \in {0, 1, 2}, y \in Payloads}
    \union {<<Point(i, 1, "x"), Point(j, 2, "y")>> : i, j \in PointIds}

\* The registrations that differ by more than the names of things.
OwnName == [e1 |-> "n1", e2 |-> "n2", e3 |-> "n3"]
Registered ==
    {[e \in Entities |-> IF e \in known THEN OwnName[e] ELSE "absent"] :
        known \in {{}, {"e1"}, {"e1", "e2"}, {"e1", "e2", "e3"}}}

Symmetry == Permutations(Calls)

StoresInit ==
    /\ scene \in {"blobs", "schema", "graph", "vectors"}
    /\ Init /\ MigInit /\ GraphInit /\ VectorInit
    /\ scene # "blobs" => substrate = "fs"
    /\ scene # "schema" => origin = Found("sqlite", {}, FALSE, {}, {}, <<>>)
    /\ index \in Registered
    /\ scene # "graph" => \A e \in Entities : index[e] = "absent"

StoresNext ==
    \/ scene = "blobs" /\ Next /\ UNCHANGED <<scene, migVars, graphVars, vectorVars>>
    \/ scene = "schema" /\ MigNext /\ UNCHANGED <<scene, vars, graphVars, vectorVars>>
    \/ scene = "graph" /\ GraphNext /\ UNCHANGED <<scene, vars, migVars, vectorVars>>
    \/ scene = "vectors" /\ VectorNext /\ UNCHANGED <<scene, vars, migVars, graphVars>>

StoresSpec == StoresInit /\ [][StoresNext]_storeVars
=============================================================================
