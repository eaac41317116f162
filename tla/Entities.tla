------------------------------ MODULE Entities ------------------------------
(***************************************************************************)
(* The entity index: upserts that read a row and write what they merged,   *)
(* and the lookups that decide whether a mention names a known entity.     *)
(* SQLite runs every upsert under the write lock; PostgreSQL runs them     *)
(* side by side, each in a READ COMMITTED transaction.                     *)
(***************************************************************************)
EXTENDS Naturals, FiniteSets, FiniteSetsExt

CONSTANTS
    Ingests,    \* concurrent ingests
    Spellings,  \* names and aliases as written
    Fold,       \* [Spellings -> lower() of it]
    Resembles,  \* [Spellings -> spellings whose trigrams score above the floor]
    RowIds,     \* ids a new row may draw, in their order
    Store,      \* "sqlite" or "postgres"
    MaxIngests  \* bound: upserts begun

ASSUME EntitiesAssumption ==
    /\ RowIds \subseteq Nat \ {0} /\ MaxIngests \in Nat /\ Store \in {"sqlite", "postgres"}

VARIABLES
    entity,   \* [ids in use -> [name, aliases, weight]]
    ingest,   \* [Ingests -> [pc, name, aliases, weight, row]]
    writing,  \* ingests that hold the write lock
    begun

entityVars == <<entity, ingest, writing, begun>>

NoRow == 0
Resting == [pc |-> "idle", name |-> CHOOSE s \in Spellings : TRUE, aliases |-> {},
            weight |-> 0, row |-> NoRow, had |-> {}]
Lowest(ids) == IF ids = {} THEN NoRow ELSE Min(ids)

-----------------------------------------------------------------------------
(* Lookup *)

\* WHERE lower(canonical_name) = lower(?) ORDER BY id LIMIT 1
Named(n) == Lowest({i \in DOMAIN entity : Fold[entity[i].name] = Fold[n]})

alias_lookup(n) ==
    Lowest({i \in DOMAIN entity : \E a \in entity[i].aliases : Fold[a] = Fold[n]})

trigram_similar(n, m) == m \in Resembles[n]

\* The best scoring candidate; which one wins a tie is the engine's order.
FuzzyHits(n) ==
    {i \in DOMAIN entity : \E m \in {entity[i].name} \union entity[i].aliases : trigram_similar(n, m)}

resolve_entity(n) ==
    IF Named(n) # NoRow THEN {Named(n)}
    ELSE IF alias_lookup(n) # NoRow THEN {alias_lookup(n)}
    ELSE FuzzyHits(n)

-----------------------------------------------------------------------------
(* Upsert *)

\* _clean_aliases: one spelling per folded alias, none that folds to the name.
clean_aliases(kept, incoming, name) ==
    kept \union {a \in incoming : /\ Fold[a] # Fold[name]
                                  /\ \A k \in kept : Fold[k] # Fold[a]}

CanBegin_Unlocked(a) == TRUE

\* The write lock is the application's, on SQLite only.
CanBegin(a) == Store = "sqlite" => writing = {}

\* resolve_or_create begins an upsert only when nothing resolves.
Begin(a, n, aliases, w, always) ==
    /\ ingest[a].pc = "idle" /\ begun < MaxIngests
    /\ always \/ resolve_entity(n) = {}
    /\ begun' = begun + 1
    /\ ingest' = [ingest EXCEPT ![a] = [Resting EXCEPT !.pc = "lock", !.name = n,
                                          !.aliases = aliases, !.weight = w]]
    /\ UNCHANGED <<entity, writing>>

ReadRow(a) ==
    LET i == Named(ingest[a].name) IN
    /\ ingest[a].pc = "lock" /\ CanBegin(a)
    /\ writing' = writing \union {a}
    /\ ingest' = [ingest EXCEPT ![a].pc = "write", ![a].row = i,
                                ![a].had = IF i = NoRow THEN {} ELSE entity[i].aliases]
    /\ UNCHANGED <<entity, begun>>

Done(a) ==
    /\ ingest' = [ingest EXCEPT ![a] = Resting] /\ writing' = writing \ {a}
    /\ UNCHANGED begun

\* A row of exactly this name since: the UNIQUE column refuses the insert.
InsertRow(a, i) ==
    LET g == ingest[a] IN
    /\ g.pc = "write" /\ g.row = NoRow /\ i \in RowIds \ DOMAIN entity
    /\ entity' = IF \E j \in DOMAIN entity : entity[j].name = g.name THEN entity
                 ELSE [j \in DOMAIN entity \union {i} |->
                         IF j = i THEN [name |-> g.name, weight |-> g.weight,
                                        aliases |-> clean_aliases({}, g.aliases, g.name)]
                         ELSE entity[j]]
    /\ Done(a)

\* The aliases written are those read, merged; the weight is maximised by the
\* statement itself.
UpdateRow(a) ==
    LET g == ingest[a] IN
    /\ g.pc = "write" /\ g.row # NoRow
    /\ entity' = [entity EXCEPT ![g.row].aliases = clean_aliases(g.had, g.aliases, g.name),
                                ![g.row].weight = Max({@, g.weight})]
    /\ Done(a)

-----------------------------------------------------------------------------
EntityInit ==
    /\ entity = [i \in {} |-> {}] /\ ingest = [a \in Ingests |-> Resting]
    /\ writing = {} /\ begun = 0

EntityNext ==
    \E a \in Ingests :
       \/ \E n \in Spellings, aliases \in {{}} \union {{s} : s \in Spellings},
             w \in {1, 2}, always \in BOOLEAN : Begin(a, n, aliases, w, always)
       \/ ReadRow(a) \/ UpdateRow(a)
       \/ \E i \in RowIds : InsertRow(a, i)

Folded(set) == {Fold[s] : s \in set}

\* What ingests learn about an entity only grows, however they interleave: no
\* alias is forgotten, no weight lowered, and a name never gets a second row.
KnowledgeGrows ==
    [][/\ \A i \in DOMAIN entity :
            /\ i \in DOMAIN entity'
            /\ Folded(entity[i].aliases) \subseteq Folded(entity'[i].aliases)
            /\ entity[i].weight <= entity'[i].weight
       /\ \A i, j \in DOMAIN entity' :
            Fold[entity'[i].name] = Fold[entity'[j].name] => i = j]_entity
=============================================================================
