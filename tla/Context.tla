------------------------------ MODULE Context ------------------------------
(***************************************************************************)
(* The two context builders and the gatherer that packs their packet,      *)
(* together with the two substrates they read: the fact rows and the       *)
(* vector points the embedding sink wrote for them.  Rows go on changing   *)
(* between the reads of one build.                                         *)
(*                                                                         *)
(* Scores are small numbers: a confidence or a relevance of 0 is below its *)
(* floor.  An importance of 1 makes a fact an invariant.                   *)
(***************************************************************************)
EXTENDS Integers, Sequences, FiniteSets, SequencesExt

CONSTANTS
    FactIds,       \* numbers: the order of ids
    Kinds,         \* rows a fact may start as: [size, slot, imp, conf, domain]
    Needs,         \* sets of required slots
    Profiles,      \* token ceilings of a modality, 0 where it has none
    PlannerCap, WorkerDefault,
    Limit,         \* LIMIT of the hot query
    MaxChanges     \* bound: changes to rows and points

ASSUME ContextAssumption ==
    /\ FactIds \subseteq Nat /\ IsFiniteSet(FactIds) /\ Profiles \subseteq Nat
    /\ Kinds \subseteq [size : Nat, slot : STRING, imp : Nat, conf : Nat, domain : STRING]
    /\ PlannerCap \in Nat /\ WorkerDefault \in Nat /\ Limit \in Nat /\ MaxChanges \in Nat

VARIABLES
    factRows,      \* [FactIds -> row or Gone]
    embedded,    \* [FactIds -> the payload of its point, or Gone]
    changes,
    build,     \* the build under way: [pc, role, need, ceiling, hot, semantic, seenRows]
    packet     \* what it compiled

contextVars == <<factRows, embedded, changes, build, packet>>

Gone == [gone |-> TRUE]
There(m, f) == m[f] # Gone
Narrative == {"episodic", "relationship"}
NoPacket == [elements |-> <<>>, directive |-> "none", vacant |-> {}, pool |-> <<>>, ok |-> FALSE]
Idle == [pc |-> "idle", role |-> "planner", need |-> {}, ceiling |-> 0,
         hot |-> <<>>, semantic |-> <<>>, seenRows |-> factRows]

-----------------------------------------------------------------------------
(* Rows and points change *)

\* Until the packet is compiled; what changes later is no matter of this build.
Change(m) ==
    /\ packet = NoPacket /\ changes < MaxChanges
    /\ changes' = changes + 1 /\ factRows' = m /\ UNCHANGED <<build, packet>>

\* Confidence is decayed when it is read: time passing lowers it.
Decay(f) ==
    /\ There(factRows, f) /\ factRows[f].conf > 0
    /\ Change([factRows EXCEPT ![f].conf = @ - 1]) /\ UNCHANGED embedded

\* Superseded, swept or consolidated away; nothing removes the point.
Retire(f) ==
    /\ There(factRows, f) /\ Change([factRows EXCEPT ![f] = Gone]) /\ UNCHANGED embedded

\* The payload says whose fact it is and what it is about.  It holds neither
\* the value, nor a confidence, nor an importance.
Enqueue(f) ==
    /\ There(factRows, f) /\ ~There(embedded, f) /\ Change(factRows)
    /\ embedded' = [embedded EXCEPT ![f] = [slot |-> factRows[f].slot, domain |-> factRows[f].domain]]

-----------------------------------------------------------------------------
(* Retrieval *)

planner_ceiling(p) == IF p = 0 \/ p > PlannerCap THEN PlannerCap ELSE p
worker_ceiling(p) == IF p = 0 THEN WorkerDefault ELSE p

StartBuild(role, need, p) ==
    /\ build.pc = "idle" /\ packet = NoPacket
    /\ build' = [Idle EXCEPT !.pc = "hot", !.role = role, !.need = need,
                    !.ceiling = IF role = "planner" THEN planner_ceiling(p) ELSE worker_ceiling(p)]
    /\ UNCHANGED <<factRows, embedded, changes, packet>>

\* The members of s one after the other, each behind those that come before it.
InOrder(s, before) ==
    [k \in 1..Cardinality(s) |->
        CHOOSE e \in s : Cardinality({d \in s : <<d, e>> \in before}) = k - 1]
Ascending(s) == InOrder(s, {p \in s \X s : p[1] < p[2]})

HotElement(f) ==
    [id |-> f, size |-> factRows[f].size, rel |-> 2, conf |-> factRows[f].conf, imp |-> factRows[f].imp,
     slot |-> factRows[f].slot, domain |-> factRows[f].domain, tier |-> "hot"]

\* ORDER BY importance DESC, id ASC LIMIT; the expander's terms select the rows.
ReadHot(matched) ==
    LET rows == {f \in matched : There(factRows, f)}
        ordered == InOrder(rows, {p \in rows \X rows :
                                    \/ factRows[p[1]].imp > factRows[p[2]].imp
                                    \/ factRows[p[1]].imp = factRows[p[2]].imp /\ p[1] < p[2]})
        kept == {i \in DOMAIN ordered :
                   /\ i <= Limit
                   /\ build.role = "worker" => factRows[ordered[i]].domain \notin Narrative}
        places == Ascending(kept)
    IN
    /\ build.pc = "hot"
    /\ build' = [build EXCEPT !.seenRows = factRows,
                   !.pc = IF build.role = "planner" THEN "semantic" ELSE "pack",
                   !.hot = [k \in DOMAIN places |-> HotElement(ordered[places[k]])]]
    /\ UNCHANGED <<factRows, embedded, changes, packet>>

\* Defaults stand in for what the payload does not hold: no content, confidence
\* 0.8, importance 0.5.
Hit(f, rel) ==
    [id |-> f, size |-> 0, rel |-> rel, conf |-> 1, imp |-> 0,
     slot |-> embedded[f].slot, domain |-> embedded[f].domain, tier |-> "semantic"]

\* A search that fails yields nothing.  The graph adds nothing either: it is
\* asked for the neighbours of fact ids, which are no entities.
ReadSemantic(found, rel) ==
    /\ build.pc = "semantic"
    /\ \A f \in found : There(embedded, f)
    /\ build' = [build EXCEPT !.pc = "pack",
                   !.semantic = LET s == Ascending(found)
                                IN [i \in DOMAIN s |-> Hit(s[i], rel[s[i]])]]
    /\ UNCHANGED <<factRows, embedded, changes, packet>>

-----------------------------------------------------------------------------
(* The gatherer *)

\* Blocked domains and the tier's own floor, then the first element of an id.
Admitted(pool, e, blocked) ==
    IF \/ e.domain \in blocked
       \/ e.tier = "hot" /\ e.conf = 0
       \/ e.tier = "semantic" /\ e.rel = 0
       \/ \E i \in DOMAIN pool : pool[i].id = e.id
    THEN pool ELSE Append(pool, e)

candidate_pool(hot, semantic, blocked) ==
    LET all == hot \o semantic
        after[k \in 0..Len(all)] ==
          IF k = 0 THEN <<>> ELSE Admitted(after[k - 1], all[k], blocked)
    IN after[Len(all)]

RankTier(e, need) == IF e.slot \in need THEN 0 ELSE IF e.imp = 1 THEN 1 ELSE 2

\* (tier, -(relevance * confidence), -importance, id), compared in that order.
rank_key(e, need) == <<RankTier(e, need), -(e.rel * e.conf), -e.imp, e.id>>

Outranks(a, b) ==
    \E k \in DOMAIN a : a[k] < b[k] /\ \A j \in 1..(k - 1) : a[j] = b[j]

Ranked(pool, need) ==
    LET es == ToSet(pool) IN
    InOrder(es, {p \in es \X es : Outranks(rank_key(p[1], need), rank_key(p[2], need))})

\* try_consume: all of it or nothing.
Consumed(acc, e, ceiling) ==
    IF e.size > ceiling - acc.used THEN acc
    ELSE [got |-> Append(acc.got, e), used |-> acc.used + e.size]

pack_Break(ranked, ceiling) ==
    LET after[k \in 0..Len(ranked)] ==
          IF k = 0 THEN [got |-> <<>>, used |-> 0, go |-> TRUE]
          ELSE LET acc == after[k - 1] IN
               IF acc.go /\ ranked[k].size <= ceiling - acc.used
               THEN [got |-> Append(acc.got, ranked[k]), used |-> acc.used + ranked[k].size,
                     go |-> TRUE]
               ELSE [acc EXCEPT !.go = FALSE]
    IN after[Len(ranked)].got

\* What does not fit is skipped, and packing goes on.
pack(ranked, ceiling) ==
    LET after[k \in 0..Len(ranked)] ==
          IF k = 0 THEN [got |-> <<>>, used |-> 0] ELSE Consumed(after[k - 1], ranked[k], ceiling)
    IN after[Len(ranked)].got

\* density = filled / required, 1 when nothing is required; 0.85 and 0.40.
route(filled, required) ==
    IF required = 0 \/ 100 * filled >= 85 * required THEN "PROCEED_TO_PLANNER"
    ELSE IF 100 * filled >= 40 * required THEN "TRIGGER_BACKGROUND_HYDRATION"
    ELSE "HARD_STOP_ESCALATE_TO_USER"

Compile ==
    LET blocked == IF build.role = "worker" THEN Narrative ELSE {}
        pool == candidate_pool(build.hot, build.semantic, blocked)
        got == pack(Ranked(pool, build.need), build.ceiling)
        filled == {e.slot : e \in ToSet(got)} \intersect build.need
    IN
    /\ build.pc = "pack"
    /\ packet' = [elements |-> got, pool |-> pool, vacant |-> build.need \ filled,
                  directive |-> route(Cardinality(filled), Cardinality(build.need)),
                  \* a worker with a vacant slot is not dispatched
                  ok |-> build.role = "planner" \/ build.need \subseteq filled]
    /\ build' = [build EXCEPT !.pc = "idle"]
    /\ UNCHANGED <<factRows, embedded, changes>>

-----------------------------------------------------------------------------
ContextInit ==
    /\ factRows \in [FactIds -> Kinds]
    /\ embedded = [f \in FactIds |-> Gone] /\ changes = 0
    /\ build = Idle /\ packet = NoPacket

ContextNext ==
    \/ \E f \in FactIds : Decay(f) \/ Retire(f) \/ Enqueue(f)
    \/ \E role \in {"planner", "worker"}, need \in Needs, p \in Profiles :
         StartBuild(role, need, p)
    \/ \E matched \in SUBSET FactIds : ReadHot(matched)
    \/ \E found \in SUBSET FactIds : \E rel \in [found -> {0, 1}] : ReadSemantic(found, rel)
    \/ Compile

Compiled == build.pc = "idle" /\ packet # NoPacket

\* One pair for each token of each element.
Tokens(elements) == Cardinality(UNION {{e} \X (1..e.size) : e \in elements})

\* A packet keeps its ceiling, holds no fact twice, and leaves a candidate out
\* only when it does not fit behind the selected ones that outrank it; the copy
\* of a fact it carries is the row's, when the row passed the floor.
PacketIsGreedy ==
    Compiled =>
        LET got == ToSet(packet.elements)
            key(e) == rank_key(e, build.need)
            ahead(e) == {d \in got : Outranks(key(d), key(e))} IN
        /\ Tokens(got) <= build.ceiling
        /\ Cardinality({e.id : e \in got}) = Len(packet.elements)
        /\ \A e \in ToSet(packet.pool) \ got :
             e.size + Tokens(ahead(e)) > build.ceiling
        /\ \A e \in got, h \in ToSet(build.hot) : e.id = h.id /\ h.conf > 0 => e.tier = "hot"

\* A slot is resolved only by a fact that memory stood behind when this build
\* read it: a live row at or above the confidence floor.
SlotsAreBacked ==
    Compiled => \A e \in ToSet(packet.elements) :
        e.slot \in build.need =>
            There(build.seenRows, e.id) /\ build.seenRows[e.id].conf > 0
=============================================================================
