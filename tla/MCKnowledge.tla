---------------------------- MODULE MCKnowledge ----------------------------
(* What an agent is told and may do: the context packet, the policy gate,  *)
(* entity resolution, token budgets, compaction, the record of runs, the   *)
(* vault notes written from it, traces and metrics.                        *)
(* One of them per behaviour; the initial state says which.                *)
EXTENDS Context, Policy, Entities, Budgets, Compaction, Telemetry, Vault, Observability

VARIABLE scene

knowledgeVars ==
    <<scene, contextVars, policyVars, entityVars, budgetVars, compactVars, telemetryVars,
      vaultVars, observeVars>>

\* Facts: two that fill slot "s", one too large for most packets; an invariant
\* for slot "t"; a narrative that workers are not shown.
Kind(size_, slot, imp, conf, domain) ==
    [size |-> size_, slot |-> slot, imp |-> imp, conf |-> conf, domain |-> domain]
MCKinds ==
    {Kind(1, "s", 0, 2, "semantic"), Kind(3, "s", 0, 2, "semantic"),
     Kind(2, "t", 1, 1, "semantic"), Kind(2, "none", 0, 1, "episodic")}
MCNeeds == {{"s"}, {"s", "t"}}

Plan(marks, perms, risk, mandated, mutates, steps) ==
    [marks |-> marks, perms |-> perms, risk |-> risk, mandated |-> mandated,
     mutates |-> mutates, steps |-> steps]
MCPlans ==
    {Plan(m, q, r, FALSE, u, 1) :
        m \in {{}, {"irreversible"}, {"network"}, {"restated"}, {"anti-goal", "restated"},
               {"system path"}, {"irreversible", "listed"}},
        q \in {{"SANDBOX_RUN"}, {"NET_EGRESS"}, {"FILE_DELETE", "SANDBOX_RUN"}},
        r \in {0, 90}, u \in BOOLEAN}
    \union {Plan({}, {}, 0, TRUE, TRUE, 12), Plan({}, {"UNKNOWN"}, 0, FALSE, TRUE, 1)}
MCRules ==
    {[mark |-> "listed", severity |-> "block", wellFormed |-> TRUE],
     [mark |-> "network", severity |-> "block", wellFormed |-> FALSE]}

\* "ANN" folds to "ann"; "anna" resembles both.
MCFold == [s \in Spellings |-> IF s = "ANN" THEN "ann" ELSE s]
MCResembles == [s \in Spellings |-> IF s = "anna" THEN {"ann", "ANN"} ELSE {}]

MCQuota == [d \in 0..1 |-> IF d = 0 THEN 4 ELSE 2]

MCLength ==
    [l \in Lines |-> CASE l = "" -> 0 [] l = "a" -> 1 [] l = "**a**" -> 5 [] l = "---" -> 3 [] OTHER -> 7]
MCReduced == [l \in Lines |-> CASE l = "**a**" -> "a" [] l = "---" -> "" [] OTHER -> l]
MCEstimate == [n \in 0..MaxChars |-> (n + 1) \div 2]

\* A domain whose name is also a regular expression.
MCTaskDomain == [t \in {"t1", "t2"} |-> IF t = "t1" THEN "deploy" ELSE "back\\slash"]

KnowledgeInit ==
    /\ scene \in {"context", "policy", "entities", "budgets", "compaction", "telemetry",
                  "vault", "tracing", "metrics"}
    /\ ContextInit /\ PolicyInit /\ EntityInit /\ BudgetInit /\ CompactInit /\ TelemetryInit
    /\ VaultInit /\ ObserveInit
    /\ scene # "context" => \A f \in FactIds : factRows[f] = Kind(1, "s", 0, 2, "semantic")
    /\ scene # "policy" => posture = "ASK" /\ antiGoals = {} /\ ~semantic /\ table = {}
    /\ scene # "budgets" => profiled
    /\ scene # "vault" => kind = "belief" /\ file = NoFile
    /\ scene # "tracing" => ~enabled
    /\ scene \notin {"tracing", "metrics"} => \A m \in Metrics : specs[m] = "histogram"

\* The scene's part takes a step A; the other parts' variables stand still.
Step(name, A, idle) == scene = name /\ A /\ UNCHANGED <<scene, idle>>

KnowledgeNext ==
    \/ Step("context", ContextNext, <<policyVars, entityVars, budgetVars, compactVars,
                                      telemetryVars, vaultVars, observeVars>>)
    \/ Step("policy", PolicyNext, <<contextVars, entityVars, budgetVars, compactVars,
                                    telemetryVars, vaultVars, observeVars>>)
    \/ Step("entities", EntityNext, <<contextVars, policyVars, budgetVars, compactVars,
                                      telemetryVars, vaultVars, observeVars>>)
    \/ Step("budgets", BudgetNext, <<contextVars, policyVars, entityVars, compactVars,
                                     telemetryVars, vaultVars, observeVars>>)
    \/ Step("compaction", CompactNext, <<contextVars, policyVars, entityVars, budgetVars,
                                         telemetryVars, vaultVars, observeVars>>)
    \/ Step("telemetry", TelemetryNext, <<contextVars, policyVars, entityVars, budgetVars,
                                          compactVars, vaultVars, observeVars>>)
    \/ Step("vault", VaultNext, <<contextVars, policyVars, entityVars, budgetVars, compactVars,
                                  telemetryVars, observeVars>>)
    \/ Step("tracing", TraceNext, <<contextVars, policyVars, entityVars, budgetVars, compactVars,
                                    telemetryVars, vaultVars>>)
    \/ Step("metrics", MeasureNext, <<contextVars, policyVars, entityVars, budgetVars, compactVars,
                                      telemetryVars, vaultVars>>)

KnowledgeSpec == KnowledgeInit /\ [][KnowledgeNext]_knowledgeVars

\* What was learnt is kept: an entity that is known, and what a note said when
\* it was last saved (resolution.py, world_model.py, reflection.py).
NothingLearntIsLost == KnowledgeGrows /\ VaultSound

\* What was recorded is what happened: of a run of a skill, and of the spans and
\* observations of this process (telemetry.py, tracing.py, metrics.py).
RecordsAreTrue == RunsAreEvidence /\ []ObservabilitySound
=============================================================================
