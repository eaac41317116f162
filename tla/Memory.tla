------------------------------- MODULE Memory -------------------------------
(***************************************************************************)
(* From a recorded signal to a believed fact, and back out again.          *)
(*                                                                         *)
(* Sources append signals to the cold lake (SignalRepository.record).      *)
(* Memory creators - the daemon's ingestion loop, POST /memory/drain, the  *)
(* CLI - claim batches of them and turn each into facts, a quarantined     *)
(* contradiction, or a dead letter (MemoryCreator).  Humans resolve        *)
(* contradictions and supersede facts, readers touch them, the sweeper     *)
(* evicts what has decayed and the curator merges duplicates.              *)
(*                                                                         *)
(* One action is one statement or one transaction of the database: that is *)
(* what other actors can come between.  A payload is the list of facts the *)
(* extractor finds in it; a confidence is in percent.                      *)
(***************************************************************************)
EXTENDS Naturals, Sequences, FiniteSets

CONSTANTS Ext,          \* external ids of the signals sources deliver
          Contents,     \* possible [Ext -> [malformed, large, facts: Seq(candidate)]]
          Divergence(_, _),  \* percent: 1 - trigram_similarity of two values
          Recorders, Creators,
          FactIds,      \* fact ids, ordered as the keyset pagination orders them
          Substrate,    \* "sqlite": one writer at a time; "postgres": READ COMMITTED
          BatchLimit, SweepBatch, MaxRetries,
          Crashes,      \* bound: creators that die
          Casts         \* bound: which of the other actors are about at once

-----------------------------------------------------------------------------
(* The table of memory domains (paa.memory.domains) and what it says of a  *)
(* stored fact.  The decay rate lambda is in thousandths per day.          *)
(* C(t) = C0 * exp(-lambda * t) is kept as its two ends: a fact that was   *)
(* just queried has its stored confidence, an aged fact of a decaying      *)
(* domain has (almost) none.                                               *)

Policy(lambda, floor, immutable, narrative) ==
    [lambda |-> lambda, floor |-> floor, immutable |-> immutable,
     narrative |-> narrative]

MemoryDomain ==
    {"working", "long_term_distilled", "episodic", "semantic", "procedural",
     "task", "session", "temporal", "narrative", "reflection", "strategic",
     "skill", "tool", "relationship", "identity", "operational",
     "environmental", "workspace"}

DOMAINS ==
    [d \in MemoryDomain |->
        CASE d = "long_term_distilled" -> Policy(1, 15, FALSE, FALSE)
          [] d = "episodic"            -> Policy(0, 0, TRUE, FALSE)
          [] d = "semantic"            -> Policy(2, 30, FALSE, FALSE)
          [] d \in {"procedural", "skill"} -> Policy(0, 40, FALSE, FALSE)
          [] d = "temporal"            -> Policy(10, 15, FALSE, FALSE)
          [] d = "narrative"           -> Policy(0, 0, FALSE, TRUE)
          [] d = "reflection"          -> Policy(2, 20, FALSE, TRUE)
          [] d \in {"strategic", "identity"} -> Policy(0, 0, TRUE, TRUE)
          [] d = "tool"                -> Policy(50, 15, FALSE, FALSE)
          [] d = "relationship"        -> Policy(4, 10, FALSE, FALSE)
          [] d = "operational"         -> Policy(1000, 0, FALSE, FALSE)
          [] OTHER                     -> Policy(0, 0, FALSE, FALSE)]

\* DomainPolicy.confidence_at at the two ends of time.
confidence_at(domain, initial, aged) ==
    IF aged /\ DOMAINS[domain].lambda > 0 THEN 0 ELSE initial

\* Below the floor: exactly at it the fact stays.
is_stale(domain, initial, aged) ==
    /\ ~DOMAINS[domain].immutable
    /\ confidence_at(domain, initial, aged) < DOMAINS[domain].floor

-----------------------------------------------------------------------------
(* What may be said, and what it must be like                              *)

\* All that the extractor may find in a signal of some behaviour.
Sayings == {k[e].facts : k \in Contents, e \in Ext}

Said == UNION {{s[i] : i \in DOMAIN s} : s \in Sayings}

ASSUME MemoryAssumption ==
    /\ Substrate \in {"sqlite", "postgres"}
    /\ BatchLimit \in Nat \ {0} /\ SweepBatch \in Nat \ {0}
    /\ \A who \in Casts :
         who \subseteq {"source", "human", "linker", "sweeper", "reader", "curator"}
    /\ MaxRetries \in Nat /\ Crashes \in Nat
    /\ FactIds \subseteq Nat \ {0} /\ IsFiniteSet(FactIds) /\ IsFiniteSet(Ext)

\* Confidences and divergences are fractions (FactCandidate, trigram_similarity).
ASSUME SayingsAssumption ==
    /\ \A s \in Sayings : s \in Seq(Said)
    /\ \A x \in Said : x.conf \in 0..100 /\ x.domain \in MemoryDomain
    /\ \A x, y \in Said : Divergence(x.obj, y.obj) \in 0..100

VARIABLES
    content,    \* what the extractor finds in each signal of this behaviour
    arrived,    \* cold_lake_signals in arrival order
    status,     \* sync_status of each signal
    stub,       \* signals whose raw_payload is a stub naming an offloaded blob
    recording,  \* record() calls between the lookup and the insert
    worker,     \* run_batch calls
    entities,   \* hot_serving_entity_index
    facts,      \* hot_serving_active_facts
    buffer,     \* hot_serving_unresolved_buffer
    linking,    \* a supersede() call between its cycle check and its update
    sweep,      \* a DecaySweeper.sweep
    merging,    \* a MemoryCurator consolidation between its read and its write
    used,       \* history: the fact ids ever inserted
    commits,    \* history: how often each signal's facts were committed
    due,        \* history: facts the running sweep has to evict
    crashed,    \* number of creators that died
    cast        \* the actors, besides the creators, of this behaviour

vars == <<content, arrived, status, stub, recording, worker, entities, facts, buffer,
          linking, sweep, merging, used, commits, due, crashed, cast>>

lake    == <<arrived, status, stub, recording>>

upkeep  == <<linking, sweep, merging, due>>

None == "none"

NULL == 0   \* no successor

Threshold == 75

Degraded  == 20

Restored  == 90

Idle == [pc |-> "idle", batch |-> <<>>, k |-> 1, known |-> {}, todo |-> {},
         hit |-> FALSE, tries |-> 0]

NoSweep == [pc |-> "idle", cursor |-> 0, doomed |-> {}]

Live == {f \in DOMAIN facts : facts[f].superseded_by = NULL}

Stale(f) == is_stale(facts[f].domain, facts[f].conf, facts[f].aged)

\* Rows deleted; ON DELETE SET NULL clears the references to them.
Without(gone) ==
    [f \in DOMAIN facts \ gone |->
        IF facts[f].superseded_by \in gone
        THEN [facts[f] EXCEPT !.superseded_by = NULL] ELSE facts[f]]

-----------------------------------------------------------------------------
(* SignalRepository *)

\* The lookup by external id: a signal already there is returned as it is.
RecordLookup(r, e) ==
    /\ recording[r] = None
    /\ status[e] = "absent"
    /\ recording' = [recording EXCEPT ![r] = e]
    /\ UNCHANGED <<arrived, status, stub, worker, entities, facts, buffer,
                   upkeep, used, commits, crashed>>

InsertSignal_Upsert(e) ==
    /\ status' = [status EXCEPT ![e] = "unprocessed"]
    /\ arrived' = IF status[e] = "absent" THEN Append(arrived, e) ELSE arrived
    /\ stub' = IF content[e].large THEN stub \union {e} ELSE stub

\* An unlucky racer meets the unique index and is handed the winner's row.
InsertSignal(e) ==
    IF status[e] = "absent"
    THEN /\ status' = [status EXCEPT ![e] = "unprocessed"]
         /\ arrived' = Append(arrived, e)
         /\ stub' = IF content[e].large THEN stub \union {e} ELSE stub
    ELSE UNCHANGED <<status, arrived, stub>>

RecordInsert(r) ==
    /\ recording[r] # None
    /\ InsertSignal(recording[r])
    /\ recording' = [recording EXCEPT ![r] = None]
    /\ UNCHANGED <<worker, entities, facts, buffer, upkeep, used, commits,
                   crashed>>

Before(i, rows) == Cardinality({j \in rows : j < i})

\* WHERE sync_status = 'unprocessed' ORDER BY created_at LIMIT n.
Oldest(n) ==
    LET waiting == {i \in DOMAIN arrived : status[arrived[i]] = "unprocessed"}
        rows    == {i \in waiting : Before(i, waiting) < n}
    IN  [k \in 1..Cardinality(rows) |->
            arrived[CHOOSE i \in rows : Before(i, rows) = k - 1]]

-----------------------------------------------------------------------------
(* MemoryCreator *)

SetWorker(c, w) == worker' = [worker EXCEPT ![c] = w]

Rows(batch) == {batch[i] : i \in 1..Len(batch)}

\* SQLite: BEGIN IMMEDIATE makes the select and the update one step.
\* PostgreSQL: every writer may come between them.
ClaimSelect(c) ==
    /\ worker[c].pc = "idle"
    /\ Oldest(BatchLimit) # <<>>
    /\ LET batch == Oldest(BatchLimit) IN
       IF Substrate = "sqlite"
       THEN /\ status' = [e \in Ext |-> IF e \in Rows(batch) THEN "processing"
                                        ELSE status[e]]
            /\ SetWorker(c, [Idle EXCEPT !.pc = "extract", !.batch = batch])
       ELSE /\ SetWorker(c, [Idle EXCEPT !.pc = "claiming", !.batch = batch])
            /\ UNCHANGED status
    /\ UNCHANGED <<arrived, stub, recording, entities, facts, buffer, upkeep,
                   used, commits, crashed>>

\* The update skips rows another creator moved; the batch is still the rows
\* the select returned.
ClaimUpdate(c) ==
    /\ worker[c].pc = "claiming"
    /\ status' = [e \in Ext |-> IF /\ e \in Rows(worker[c].batch)
                                   /\ status[e] = "unprocessed"
                                THEN "processing" ELSE status[e]]
    /\ SetWorker(c, [worker[c] EXCEPT !.pc = "extract"])
    /\ UNCHANGED <<arrived, stub, recording, entities, facts, buffer, upkeep,
                   used, commits, crashed>>

Current(c) == Head(worker[c].batch)

NextSignal_Requeue(c) ==
    LET rest == Append(Tail(worker[c].batch), Current(c))
    IN  SetWorker(c, [Idle EXCEPT !.pc = "extract", !.batch = rest])

\* run_batch goes on to the next signal of the batch.
NextSignal(c) ==
    LET rest == Tail(worker[c].batch)
    IN  SetWorker(c, IF rest = <<>> THEN Idle
                     ELSE [Idle EXCEPT !.pc = "extract", !.batch = rest])

Settle(c, outcome) ==
    /\ status' = [status EXCEPT ![Current(c)] = outcome]
    /\ NextSignal(c)

\* _claim reads the raw_payload column: of an offloaded signal that is the
\* stub, a mapping that names no subject, in which the rules find no fact.
Candidates(e) == IF e \in stub THEN <<>> ELSE content[e].facts

Extract(c) ==
    LET e == Current(c) IN
    /\ worker[c].pc = "extract"
    /\ \/ /\ e \notin stub /\ content[e].malformed
          /\ Settle(c, "malformed")
       \/ /\ e \in stub \/ ~content[e].malformed
          /\ Candidates(e) = <<>>
          /\ Settle(c, "processed")
       \/ /\ e \in stub \/ ~content[e].malformed
          /\ Candidates(e) # <<>>
          /\ SetWorker(c, [worker[c] EXCEPT !.pc = "detect", !.known = entities])
          /\ UNCHANGED status
    /\ UNCHANGED <<arrived, stub, recording, entities, facts, buffer, upkeep,
                   used, commits, crashed>>

\* similarity is 1: the harmonic mean of the confidences times the divergence
\* of the values, against the threshold.  All in percent.
is_conflict(c_existing, c_new, divergence) ==
    /\ c_existing + c_new > 0
    /\ 2 * c_existing * c_new * divergence
         >= Threshold * 100 * (c_existing + c_new)

Incumbents(x) ==
    {f \in Live : facts[f].ent = x.ent /\ facts[f].obj # x.obj}

Contradicted(x) ==
    {f \in Incumbents(x) :
        is_conflict(facts[f].conf, x.conf, Divergence(facts[f].obj, x.obj))}

AfterDetection_CommitAnyway(hit) == "commit"

\* After the candidates comes the commit, unless one was quarantined.
AfterDetection(hit) == IF hit THEN "flag" ELSE "commit"

Onward(w) ==
    IF w.todo # {} THEN [w EXCEPT !.pc = "quarantine"]
    ELSE IF w.k <= Len(content[Head(w.batch)].facts) THEN [w EXCEPT !.pc = "detect"]
    ELSE [w EXCEPT !.pc = AfterDetection(w.hit)]

FindIncumbents(c) ==
    LET x == Candidates(Current(c))[worker[c].k] IN
    /\ worker[c].pc = "detect"
    /\ SetWorker(c, Onward([worker[c] EXCEPT
           !.k = @ + 1,
           !.todo = IF x.ent \in worker[c].known THEN Contradicted(x) ELSE {}]))
    /\ UNCHANGED <<lake, entities, facts, buffer, upkeep, used, commits, crashed>>

\* One transaction per conflict: the buffer row and the degraded incumbent.
\* A row another actor has resolved or deleted meanwhile is not looked at again.
Quarantine(c) ==
    /\ worker[c].pc = "quarantine"
    /\ \E f \in worker[c].todo :
         /\ buffer' = buffer \union
                {[inc |-> f, src |-> Current(c), resolution |-> "open"]}
         /\ facts' = IF f \in DOMAIN facts
                     THEN [facts EXCEPT ![f].conf = Degraded] ELSE facts
         /\ SetWorker(c, Onward([worker[c] EXCEPT !.todo = @ \ {f}, !.hit = TRUE]))
    /\ UNCHANGED <<lake, entities, upkeep, used, commits, crashed>>

FlagQuarantined(c) ==
    /\ worker[c].pc = "flag"
    /\ Settle(c, "quarantined")
    /\ UNCHANGED <<arrived, stub, recording, entities, facts, buffer, upkeep,
                   used, commits, crashed>>

NewFact(x, e) ==
    [ent |-> x.ent, obj |-> x.obj, conf |-> x.conf, domain |-> x.domain,
     src |-> e, aged |-> FALSE, superseded_by |-> NULL]

\* _commit: entities, every fact and the status in one transaction.
Commit(c) ==
    LET e == Current(c)
        xs == Candidates(e) IN
    /\ worker[c].pc = "commit"
    /\ \E ids \in [1..Len(xs) -> FactIds \ used] :
         /\ \A i, j \in 1..Len(xs) : i # j => ids[i] # ids[j]
         /\ LET new == {ids[i] : i \in 1..Len(xs)} IN
            /\ facts' = [f \in DOMAIN facts \union new |->
                           IF f \in new
                           THEN NewFact(xs[CHOOSE i \in 1..Len(xs) : ids[i] = f], e)
                           ELSE facts[f]]
            /\ used' = used \union new
            /\ SetWorker(c, [worker[c] EXCEPT !.pc = "embed", !.todo = new])
    /\ entities' = entities \union {xs[i].ent : i \in 1..Len(xs)}
    /\ status' = [status EXCEPT ![e] = "processed"]
    /\ commits' = [commits EXCEPT ![e] = @ + 1]
    /\ UNCHANGED <<arrived, stub, recording, buffer, upkeep, crashed>>

\* _commit_with_retry: a serialization failure is retried, then raised.
CommitContended(c) ==
    /\ worker[c].pc = "commit"
    /\ worker[c].tries < MaxRetries
    /\ SetWorker(c, [worker[c] EXCEPT !.tries = @ + 1])
    /\ UNCHANGED <<lake, entities, facts, buffer, upkeep, used, commits, crashed>>

\* The sink indexes the facts or fails, which is swallowed; the embedding
\* status it leaves is read by nothing modelled here.
Embed(c) ==
    /\ worker[c].pc = "embed"
    /\ NextSignal(c)
    /\ UNCHANGED <<lake, entities, facts, buffer, upkeep, used, commits, crashed>>

\* Any other exception that escapes process_signal is contained to the signal:
\* run_batch archives it as malformed and goes on.
ProcessingFails(c) ==
    /\ worker[c].pc \in {"detect", "quarantine", "flag", "commit", "embed"}
    /\ Settle(c, "malformed")
    /\ UNCHANGED <<arrived, stub, recording, entities, facts, buffer, upkeep,
                   used, commits, crashed>>

\* The process dies: nothing returns its signals to unprocessed.
Crash(c) ==
    /\ worker[c].pc # "idle"
    /\ crashed < Crashes
    /\ crashed' = crashed + 1
    /\ SetWorker(c, Idle)
    /\ UNCHANGED <<lake, entities, facts, buffer, upkeep, used, commits>>

-----------------------------------------------------------------------------
(* Humans and readers *)

Resolutions == {"incumbent", "challenger", "both", "neither"}

\* What a resolution does to the incumbent.  The challenger is never written.
Restores(resolution) == resolution \in {"incumbent", "both"}

Resolve(b, resolution) ==
    /\ b \in buffer
    /\ buffer' = (buffer \ {b}) \union {[b EXCEPT !.resolution = resolution]}
    /\ facts' = CASE Restores(resolution) /\ b.inc \in DOMAIN facts ->
                       [facts EXCEPT ![b.inc].conf = Restored]
                  [] resolution = "neither" -> Without({b.inc})
                  [] OTHER -> facts
    /\ due' = due \ {b.inc}
    /\ UNCHANGED <<lake, worker, entities, linking, sweep, merging, used,
                   commits, crashed>>

\* supersession_chain: the walk stops at the end or at a fact already seen.
Chain(f) ==
    LET step[n \in 0..Cardinality(FactIds)] ==
          IF n = 0 THEN {f}
          ELSE step[n - 1] \union
                 {facts[g].superseded_by : g \in step[n - 1] \intersect DOMAIN facts}
    IN  step[Cardinality(FactIds)] \ {NULL}

ClosesCycle(old, new) == old \in Chain(new)

SupersedeCheck(old, new) ==
    /\ linking = <<>>
    /\ old # new
    /\ {old, new} \subseteq DOMAIN facts
    /\ ~ClosesCycle(old, new)
    /\ linking' = <<old, new>>
    /\ UNCHANGED <<lake, worker, entities, facts, buffer, sweep, merging, due,
                   used, commits, crashed>>

\* The foreign key refuses a successor that has been deleted.
SupersedeUpdate ==
    /\ linking # <<>>
    /\ linking' = <<>>
    /\ facts' = IF {linking[1], linking[2]} \subseteq DOMAIN facts
                THEN [facts EXCEPT ![linking[1]].superseded_by = linking[2]]
                ELSE facts
    /\ due' = due \ {linking[1]}
    /\ UNCHANGED <<lake, worker, entities, buffer, sweep, merging, used,
                   commits, crashed>>

\* DecaySweeper.touch: a reader restarts the idle clock.
Touch(f) ==
    /\ f \in DOMAIN facts /\ facts[f].aged
    /\ facts' = [facts EXCEPT ![f].aged = FALSE]
    /\ due' = due \ {f}
    /\ UNCHANGED <<lake, worker, entities, buffer, linking, sweep, merging,
                   used, commits, crashed>>

\* Time passes without anyone querying the fact.
Age(f) ==
    /\ f \in DOMAIN facts /\ ~facts[f].aged
    /\ facts' = [facts EXCEPT ![f].aged = TRUE]
    /\ UNCHANGED <<lake, worker, entities, buffer, upkeep, used, commits, crashed>>

-----------------------------------------------------------------------------
(* DecaySweeper and MemoryCurator *)

SweepStart ==
    /\ sweep.pc = "idle"
    /\ sweep' = [NoSweep EXCEPT !.pc = "read"]
    /\ due' = {f \in Live : Stale(f)}
    /\ UNCHANGED <<lake, worker, entities, facts, buffer, linking, merging,
                   used, commits, crashed>>

\* OFFSET pagination: the rows already evicted shift the page.
Page_Offset(cursor) ==
    {f \in Live : Before(f, Live) >= cursor /\ Before(f, Live) < cursor + SweepBatch}

\* WHERE superseded_by IS NULL AND id > cursor ORDER BY id LIMIT batch.
Page(cursor) ==
    LET after == {f \in Live : f > cursor}
    IN  {f \in after : Before(f, after) < SweepBatch}

LastOf(page) == CHOOSE f \in page : \A g \in page : g <= f

SweepRead ==
    /\ sweep.pc = "read"
    /\ LET page == Page(sweep.cursor) IN
       IF page = {}
       THEN sweep' = NoSweep
       ELSE sweep' = [pc |-> "delete", cursor |-> LastOf(page),
                      doomed |-> {f \in page : Stale(f)}]
    /\ UNCHANGED <<lake, worker, entities, facts, buffer, linking, merging,
                   due, used, commits, crashed>>

\* Archived best-effort, then deleted by id: nothing is read again.
SweepDelete ==
    /\ sweep.pc = "delete"
    /\ facts' = Without(sweep.doomed)
    /\ due' = due \ sweep.doomed
    /\ sweep' = [sweep EXCEPT !.pc = "read", !.doomed = {}]
    /\ UNCHANGED <<lake, worker, entities, buffer, linking, merging, used,
                   commits, crashed>>

Duplicates(f) ==
    {g \in Live : facts[g].ent = facts[f].ent /\ facts[g].obj = facts[f].obj}

\* _phase_consolidate reads a group of duplicates, best confidence first...
ConsolidateRead ==
    /\ merging = <<>>
    /\ \E f \in Live :
         /\ Cardinality(Duplicates(f)) > 1
         /\ \A g \in Duplicates(f) : facts[g].conf <= facts[f].conf
         /\ merging' = <<f, Duplicates(f) \ {f}>>
    /\ UNCHANGED <<lake, worker, entities, facts, buffer, linking, sweep, due,
                   used, commits, crashed>>

\* ... and deletes all but the first of them.
ConsolidateWrite ==
    /\ merging # <<>>
    /\ facts' = Without(merging[2])
    /\ due' = due \ merging[2]
    /\ merging' = <<>>
    /\ UNCHANGED <<lake, worker, entities, buffer, linking, sweep, used,
                   commits, crashed>>

-----------------------------------------------------------------------------
Init ==
    /\ content \in Contents
    /\ cast \in Casts
    /\ IF "source" \in cast
       THEN arrived = <<>>
       ELSE arrived \in {s \in [1..Cardinality(Ext) -> Ext] : Rows(s) = Ext}
    /\ stub = {e \in Rows(arrived) : content[e].large}
    /\ status = [e \in Ext |-> IF e \in Rows(arrived) THEN "unprocessed" ELSE "absent"]
    /\ recording = [r \in Recorders |-> None]
    /\ worker = [c \in Creators |-> Idle]
    /\ entities = {} /\ facts = << >> /\ buffer = {}
    /\ linking = <<>> /\ sweep = NoSweep /\ merging = <<>>
    /\ used = {} /\ due = {} /\ crashed = 0
    /\ commits = [e \in Ext |-> 0]

CreatorStep(c) ==
    \/ ClaimUpdate(c) \/ Extract(c) \/ FindIncumbents(c) \/ Quarantine(c)
    \/ FlagQuarantined(c) \/ Commit(c) \/ CommitContended(c) \/ Embed(c)
    \/ ProcessingFails(c)

Next ==
    /\ \/ /\ "source" \in cast
          /\ \/ \E r \in Recorders, e \in Ext : RecordLookup(r, e)
             \/ \E r \in Recorders : RecordInsert(r)
       \/ \E c \in Creators : ClaimSelect(c) \/ CreatorStep(c) \/ Crash(c)
       \/ /\ "human" \in cast
          /\ \E b \in buffer, v \in Resolutions :
               b.resolution = "open" /\ Resolve(b, v)
       \/ /\ "linker" \in cast
          /\ \/ \E f, g \in DOMAIN facts : SupersedeCheck(f, g)
             \/ SupersedeUpdate
       \/ /\ "sweeper" \in cast
          /\ SweepStart \/ SweepRead \/ SweepDelete
       \/ /\ "reader" \in cast
          /\ \E f \in DOMAIN facts : Touch(f) \/ Age(f)
       \/ /\ "curator" \in cast
          /\ ConsolidateRead \/ ConsolidateWrite
    /\ UNCHANGED <<cast, content>>

\* A creator that has claimed a batch is an asyncio task that keeps running
\* until it returns or its process dies.
Spec == Init /\ [][Next]_vars /\ \A c \in Creators : WF_vars(CreatorStep(c) /\ UNCHANGED <<cast, content>>)

-----------------------------------------------------------------------------
\* Rows, facts and creators have their types.
MemoryTypeOK ==
    /\ status \in [Ext -> {"absent", "unprocessed", "processing", "processed",
                           "malformed", "quarantined"}]
    /\ DOMAIN facts \subseteq used /\ used \subseteq FactIds
    /\ \A f \in DOMAIN facts :
         facts[f].conf \in 0..100 /\ facts[f].superseded_by \in used \union {NULL}
    /\ \A c \in Creators : worker[c].pc = "idle" <=> worker[c].batch = <<>>

\* However recorders race on an external id and creators race for a batch, the
\* facts of one signal enter memory at most once ("duplicated memory" is what
\* claim_unprocessed and _claim are written against).
ExtractedOnce == \A e \in Ext : commits[e] <= 1

\* A signal that contradicted a live belief writes nothing, whatever happened
\* to the belief, to the other candidates or to the creator in between.
ContestedWritesNothing == \A b \in buffer : commits[b.src] = 0

\* A belief that has the confidence of a degraded one, though nobody stated it
\* with that confidence, can be explained: a buffer row names it, and that row was
\* not resolved in its favour.  Otherwise it "looks like silent memory corruption"
\* (contradiction.py).
DegradedIsExplained ==
    \A f \in DOMAIN facts :
        /\ facts[f].conf = Degraded
        /\ \A x \in Rows(content[facts[f].src].facts) :
             x.ent = facts[f].ent /\ x.obj = facts[f].obj => x.conf # Degraded
        => \E b \in buffer : b.inc = f /\ b.resolution \notin {"incumbent", "both"}

\* Walking superseded_by from any fact reaches a newest version.
SupersessionEnds ==
    \A f \in DOMAIN facts :
        \E g \in Chain(f) : g \in DOMAIN facts /\ facts[g].superseded_by = NULL

\* A sweep that ends has evicted every fact that was live and stale when it
\* began and that nobody touched, resolved or superseded since.
SweepMissesNothing ==
    [][sweep.pc = "read" /\ sweep'.pc = "idle" => due \intersect DOMAIN facts = {}]_vars

\* A claimed batch ends, contention and failures included.
BatchEnds == \A c \in Creators : worker[c].pc # "idle" ~> worker[c].pc = "idle"

\* "both are degraded and quarantined, and a human is asked for the tie-break":
\* the incumbent of an open contradiction is there for the human to choose.
ContestedAwaitsHuman ==
    \A b \in buffer : b.resolution = "open" => b.inc \in DOMAIN facts

\* A contested candidate writes nothing, a degraded fact can be traced to its
\* contradiction, and chains of supersession end.
FactsSound ==
    MemoryTypeOK /\ ContestedWritesNothing /\ DegradedIsExplained /\ SupersessionEnds
=============================================================================
