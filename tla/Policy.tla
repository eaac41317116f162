------------------------------- MODULE Policy -------------------------------
(***************************************************************************)
(* PolicyRiskAgent: the deterministic gate a plan passes before anything   *)
(* runs.  A plan is what the scanners find in its rendered text (marks)    *)
(* and what its steps declare.  Risks are in hundredths.                   *)
(***************************************************************************)
EXTENDS Naturals, FiniteSets, FiniteSetsExt

CONSTANTS
    Plans,     \* [marks, perms, risk, mandated, mutates, steps]
    Rules,     \* operator rules: [mark, severity, wellFormed]
    MaxPolicyEvents \* bound: rule edits and embedder faults

ASSUME PolicyAssumption ==
    MaxPolicyEvents \in Nat /\ \A p \in Plans : p.risk \in Nat /\ p.steps \in Nat

VARIABLES
    posture,     \* the PermissionMode the agent runs under
    antiGoals,   \* marks the user declared anti-goals
    semantic,    \* a vector store and an embedder are configured
    table,       \* active rows of hot_serving_policy_rules
    cache,       \* _rule_cache: [loaded, rules]
    asked,       \* the plan being judged, with the point reached
    verdict,     \* [decision, gate]
    policyEvents

policyVars == <<posture, antiGoals, semantic, table, cache, asked, verdict, policyEvents>>

NotLoaded == [loaded |-> FALSE, rules |-> {}]
NoPlan == [pc |-> "idle"]
NoVerdict == [decision |-> "none", gate |-> FALSE]
Blocked == [decision |-> "STATUS_BLOCKED", gate |-> FALSE]

Permissions == {"SANDBOX_RUN", "NET_EGRESS", "EXTERNAL_WRITE", "FILE_DELETE", "SCHEMA_MIGRATE"}
Postures == {"AUTO", "ASK", "SUPERVISED", "LOCKDOWN", "SAFE", "HIGH_RISK"}

\* _MODE_GRANTS, of the permissions above.
granted(mode) ==
    CASE mode \in {"AUTO", "ASK"} -> Permissions \ {"SCHEMA_MIGRATE"}
      [] mode \in {"SUPERVISED", "LOCKDOWN"} -> {"SANDBOX_RUN"}
      [] mode = "SAFE" -> Permissions \ {"FILE_DELETE", "SCHEMA_MIGRATE", "EXTERNAL_WRITE"}
      [] OTHER -> Permissions

-----------------------------------------------------------------------------
\* An unknown permission is one no mode grants.
check_permissions(p) == p.perms \subseteq granted(posture)

check_lockdown(p) ==
    posture = "LOCKDOWN" => /\ "network" \notin p.marks
                            /\ p.perms \intersect {"NET_EGRESS", "EXTERNAL_WRITE"} = {}

check_irreversible(p) == posture = "SAFE" => "irreversible" \notin p.marks

check_paths(p) == p.marks \intersect {"system path", "traversal"} = {}

\* A malformed pattern is skipped, and only block rules block.
check_rules(p, rules) ==
    \A r \in rules : ~(r.wellFormed /\ r.mark \in p.marks /\ r.severity = "block")

Fifth(steps) == Min({100, 5 * steps})   \* len(steps) / 20

risk_score_Declared(p) == Max({Fifth(p.steps), p.risk})

risk_score(p) ==
    Max({IF "irreversible" \in p.marks THEN 80 ELSE 0,
         IF "network" \in p.marks THEN 50 ELSE 0, Fifth(p.steps), p.risk})

\* 0.90 always, 0.5 in ASK, confidence below 0.80 in AUTO.
needs_gate(p) ==
    \/ p.risk >= 90
    \/ p.mandated
    \/ posture = "SUPERVISED" /\ p.mutates
    \/ posture = "ASK" /\ risk_score(p) >= 50
    \/ posture = "AUTO" /\ 100 - risk_score(p) < 80

-----------------------------------------------------------------------------
\* The checks that await nothing come first; the answers of all six are
\* collected before the first refusal counts.
Handle(p) ==
    /\ asked = NoPlan
    /\ asked' = [pc |-> "rules", plan |-> p,
                 ok |-> check_permissions(p) /\ check_lockdown(p)
                        /\ check_irreversible(p) /\ check_paths(p)]
    /\ verdict' = NoVerdict
    /\ UNCHANGED <<posture, antiGoals, semantic, table, cache, policyEvents>>

\* The rows are read once in the life of the agent.
LoadRules ==
    LET rules == IF cache.loaded THEN cache.rules ELSE table IN
    /\ asked.pc = "rules"
    /\ cache' = [loaded |-> TRUE, rules |-> rules]
    /\ asked' = [asked EXCEPT !.pc = "anti-goals", !.ok = @ /\ check_rules(asked.plan, rules)]
    /\ UNCHANGED <<posture, antiGoals, semantic, table, verdict, policyEvents>>

Conclude(clear) ==
    /\ asked.pc = "anti-goals"
    /\ verdict' = IF asked.ok /\ clear
                  THEN [decision |-> "STATUS_APPROVED", gate |-> needs_gate(asked.plan)]
                  ELSE Blocked
    /\ asked' = [asked EXCEPT !.pc = "done"]
    /\ UNCHANGED <<posture, antiGoals, semantic, table, cache>>

\* By similarity, or by the anti-goal's own words where nothing embeds: then a
\* restatement passes.
CheckAntiGoals ==
    /\ Conclude(LET hits == asked.plan.marks \intersect antiGoals
                IN IF semantic THEN hits = {} ELSE hits \ {"restated"} = {})
    /\ UNCHANGED policyEvents

\* The embedder fails: refused, unless there is no anti-goal to check.
EmbedderFails ==
    /\ semantic /\ policyEvents < MaxPolicyEvents
    /\ policyEvents' = policyEvents + 1
    /\ Conclude(antiGoals = {})

EditRules(rules) ==
    /\ policyEvents < MaxPolicyEvents /\ policyEvents' = policyEvents + 1
    /\ table' = rules
    /\ UNCHANGED <<posture, antiGoals, semantic, cache, asked, verdict>>

NextPlan ==
    /\ asked # NoPlan /\ asked.pc = "done"
    /\ asked' = NoPlan /\ verdict' = NoVerdict
    /\ UNCHANGED <<posture, antiGoals, semantic, table, cache, policyEvents>>

-----------------------------------------------------------------------------
PolicyInit ==
    /\ posture \in Postures /\ antiGoals \in {{}, {"anti-goal", "restated"}}
    /\ semantic \in BOOLEAN /\ table \in SUBSET Rules /\ cache = NotLoaded
    /\ asked = NoPlan /\ verdict = NoVerdict /\ policyEvents = 0

PolicyNext ==
    \/ \E p \in Plans : Handle(p)
    \/ (asked # NoPlan /\ (LoadRules \/ CheckAntiGoals \/ EmbedderFails))
    \/ \E rules \in SUBSET Rules : EditRules(rules)
    \/ NextPlan

Unattended == verdict.decision = "STATUS_APPROVED" /\ ~verdict.gate

\* In the modes an operator may leave alone, what cannot be undone is refused
\* or waits for a human, whatever its steps declare about themselves; and a plan
\* that meets an anti-goal passes unattended in no mode, embedder up or down.
RiskMeetsAHuman ==
    Unattended =>
        /\ posture \in {"AUTO", "ASK", "SAFE"} => "irreversible" \notin asked.plan.marks
        /\ "anti-goal" \notin asked.plan.marks \intersect antiGoals

\* The same of every mode: blocked under SAFE, gated elsewhere.
IrreversibleIsGated == Unattended => "irreversible" \notin asked.plan.marks
=============================================================================
