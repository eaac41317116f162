-------------------------- MODULE KnowledgeProofs --------------------------
(***************************************************************************)
(* Proofs about what an agent is told and may do: compaction, the policy   *)
(* gate, token budgets, the packet of its context; and about what is kept  *)
(* of it: entities, the record of runs, spans and metrics.                 *)
(***************************************************************************)
EXTENDS MCKnowledge, FiniteSetTheorems, SequenceTheorems, WellFoundedInduction, TLAPS

-----------------------------------------------------------------------------
(* Policy: the gate before anything runs *)

PolicySpec == PolicyInit /\ [][PolicyNext]_policyVars

Judged == [pc : {"rules", "anti-goals", "done"}, plan : Plans, ok : BOOLEAN]

PolicyType ==
    /\ asked = NoPlan \/ asked \in Judged
    /\ posture \in Postures

\* The four checks that read nothing.
StaticChecks(p) ==
    check_permissions(p) /\ check_lockdown(p) /\ check_irreversible(p) /\ check_paths(p)

AntiGoalsClear(p) == p.marks \intersect antiGoals \subseteq {"restated"}

\* What a positive answer so far means, and what an approval does: the checks
\* were made of this plan, under these rules and anti-goals.
AnswersAreOf ==
    asked # NoPlan /\ asked.ok =>
        /\ StaticChecks(asked.plan)
        /\ asked.pc # "rules" => cache.loaded /\ check_rules(asked.plan, cache.rules)

ApprovedMeansChecked ==
    verdict.decision = "STATUS_APPROVED" =>
        /\ asked # NoPlan /\ asked.pc = "done" /\ asked.ok
        /\ AntiGoalsClear(asked.plan)
        /\ verdict.gate = needs_gate(asked.plan)

PolicyInv == PolicyType /\ AnswersAreOf /\ ApprovedMeansChecked

LEMMA MinOfTwo ==
    ASSUME NEW a \in Nat, NEW b \in Nat
    PROVE  Min({a, b}) \in Nat /\ Min({a, b}) \in {a, b} /\ Min({a, b}) <= a /\ Min({a, b}) <= b
  <1>1. \E x \in {a, b} : \A y \in {a, b} : x <= y
    OBVIOUS
  <1> QED
    BY <1>1 DEF Min

LEMMA MaxOfFour ==
    ASSUME NEW a \in Nat, NEW b \in Nat, NEW c \in Nat, NEW d \in Nat
    PROVE  LET m == Max({a, b, c, d}) IN m \in Nat /\ m >= a /\ m >= b /\ m >= c /\ m >= d
  <1>1. PICK m \in {a, b, c, d} : \A y \in {a, b, c, d} : m >= y
    <2>1. PICK u \in {a, b} : u >= a /\ u >= b
      OBVIOUS
    <2>2. PICK v \in {c, d} : v >= c /\ v >= d
      OBVIOUS
    <2> QED
      BY <2>1, <2>2
  <1>2. Max({a, b, c, d}) \in {a, b, c, d} /\ \A y \in {a, b, c, d} : Max({a, b, c, d}) >= y
    BY <1>1 DEF Max
  <1> QED
    BY <1>2

\* The risk score is never below what the scanners found, nor below what the
\* plan declares.
LEMMA RiskIsWorst ==
    ASSUME NEW p \in Plans
    PROVE  /\ risk_score(p) \in Nat /\ risk_score(p) >= p.risk
           /\ "irreversible" \in p.marks => risk_score(p) >= 80
           /\ "network" \in p.marks => risk_score(p) >= 50
  <1> DEFINE a == IF "irreversible" \in p.marks THEN 80 ELSE 0
             b == IF "network" \in p.marks THEN 50 ELSE 0
  <1>1. a \in Nat /\ b \in Nat /\ p.risk \in Nat /\ p.steps \in Nat
    BY PolicyAssumption
  <1>2. 5 * p.steps \in Nat
    BY <1>1
  <1>3. Fifth(p.steps) \in Nat
    BY <1>2, MinOfTwo DEF Fifth
  <1> HIDE DEF a, b
  <1>4. risk_score(p) = Max({a, b, Fifth(p.steps), p.risk})
    BY DEF risk_score, a, b
  <1>5. risk_score(p) \in Nat /\ risk_score(p) >= a /\ risk_score(p) >= b /\ risk_score(p) >= p.risk
    BY <1>1, <1>3, <1>4, MaxOfFour
  <1> QED
    BY <1>5 DEF a, b

LEMMA PolicyInitially == PolicyInit => PolicyInv
  BY DEF PolicyInit, PolicyInv, PolicyType, AnswersAreOf, ApprovedMeansChecked, NoVerdict

LEMMA ConcludeKeeps ==
    ASSUME PolicyInv, asked # NoPlan, NEW allClear \in BOOLEAN, Conclude(allClear),
           allClear => AntiGoalsClear(asked.plan)
    PROVE  PolicyInv'
  <1>1. asked \in Judged /\ asked.pc = "anti-goals"
    BY DEF PolicyInv, PolicyType, Conclude
  <1>2. /\ asked' \in Judged /\ asked'.pc = "done" /\ asked'.plan = asked.plan /\ asked'.ok = asked.ok
        /\ UNCHANGED <<posture, antiGoals, cache>>
        /\ verdict' = IF asked.ok /\ allClear
                      THEN [decision |-> "STATUS_APPROVED", gate |-> needs_gate(asked.plan)]
                      ELSE Blocked
    BY <1>1 DEF Conclude, Judged
  <1>3. asked' # NoPlan
    BY <1>2 DEF NoPlan
  <1>4. PolicyType'
    BY <1>2 DEF PolicyInv, PolicyType
  <1>5. AnswersAreOf'
    BY <1>1, <1>2, <1>3 DEF PolicyInv, AnswersAreOf, StaticChecks, check_permissions, check_lockdown,
       check_irreversible, check_paths, check_rules
  <1>6. ApprovedMeansChecked'
    <2>1. CASE asked.ok /\ allClear
      <3>1. verdict' = [decision |-> "STATUS_APPROVED", gate |-> needs_gate(asked.plan)]
        BY <1>2, <2>1
      <3>2. needs_gate(asked.plan)' = needs_gate(asked.plan)
        BY <1>2 DEF needs_gate
      <3>3. AntiGoalsClear(asked.plan)'
        BY <1>2, <2>1 DEF AntiGoalsClear
      <3> QED
        BY <1>2, <1>3, <2>1, <3>1, <3>2, <3>3 DEF ApprovedMeansChecked
    <2>2. CASE ~(asked.ok /\ allClear)
      BY <1>2, <2>2 DEF ApprovedMeansChecked, Blocked
    <2> QED
      BY <2>1, <2>2
  <1> QED
    BY <1>4, <1>5, <1>6 DEF PolicyInv

LEMMA PolicySteps == PolicyInv /\ [PolicyNext]_policyVars => PolicyInv'
  <1> SUFFICES ASSUME PolicyInv, [PolicyNext]_policyVars PROVE PolicyInv'
    OBVIOUS
  <1> USE DEF StaticChecks, check_permissions, check_lockdown, check_irreversible, check_paths
  <1>1. ASSUME NEW p \in Plans, Handle(p)
        PROVE  PolicyInv'
    <2>1. /\ asked' = [pc |-> "rules", plan |-> p, ok |-> StaticChecks(p)]
          /\ verdict' = NoVerdict /\ UNCHANGED <<posture, antiGoals, cache>>
      BY <1>1 DEF Handle
    <2>2. StaticChecks(p) \in BOOLEAN
      OBVIOUS
    <2> HIDE DEF StaticChecks
    <2>3. asked' \in Judged
      BY <2>1, <2>2 DEF Judged
    <2>4. StaticChecks(p) => StaticChecks(p)'
      BY <2>1 DEF StaticChecks
    <2> QED
      BY <2>1, <2>3, <2>4 DEF PolicyInv, PolicyType, AnswersAreOf, ApprovedMeansChecked, NoVerdict
  <1>2. CASE asked # NoPlan /\ LoadRules
    <2> DEFINE rules == IF cache.loaded THEN cache.rules ELSE table
    <2>1. /\ asked.pc = "rules" /\ asked \in Judged
          /\ cache' = [loaded |-> TRUE, rules |-> rules]
          /\ asked' = [asked EXCEPT !.pc = "anti-goals", !.ok = @ /\ check_rules(asked.plan, rules)]
          /\ UNCHANGED <<posture, antiGoals, verdict>>
      BY <1>2 DEF LoadRules, PolicyInv, PolicyType
    <2>2. check_rules(asked.plan, rules) \in BOOLEAN
      BY DEF check_rules
    <2> HIDE DEF rules
    <2>3. /\ asked' \in Judged /\ asked'.pc = "anti-goals" /\ asked'.plan = asked.plan
          /\ asked'.ok => asked.ok /\ check_rules(asked.plan, rules)
      BY <2>1, <2>2 DEF Judged
    <2>4. cache'.loaded /\ cache'.rules = rules
      BY <2>1
    <2>5. AnswersAreOf'
      <3> SUFFICES ASSUME asked'.ok
                   PROVE  StaticChecks(asked.plan)' /\ check_rules(asked'.plan, cache'.rules)
        BY <2>3, <2>4 DEF AnswersAreOf, check_rules
      <3>1. StaticChecks(asked.plan)
        BY <1>2, <2>3 DEF PolicyInv, AnswersAreOf
      <3>2. check_rules(asked.plan, rules)
        BY <2>3
      <3> QED
        BY <2>1, <2>3, <2>4, <3>1, <3>2
    <2>6. ApprovedMeansChecked'
      BY <1>2, <2>1 DEF PolicyInv, ApprovedMeansChecked
    <2> QED
      BY <2>1, <2>3, <2>5, <2>6 DEF PolicyInv, PolicyType
  <1>3. CASE asked # NoPlan /\ CheckAntiGoals
    <2> DEFINE hits == asked.plan.marks \intersect antiGoals
               allClear == IF semantic THEN hits = {} ELSE hits \ {"restated"} = {}
    <2>1. Conclude(allClear)
      BY <1>3 DEF CheckAntiGoals
    <2>2. allClear \in BOOLEAN /\ (allClear => AntiGoalsClear(asked.plan))
      BY DEF AntiGoalsClear
    <2> HIDE DEF allClear
    <2> QED
      BY <1>3, <2>1, <2>2, ConcludeKeeps
  <1>4. CASE asked # NoPlan /\ EmbedderFails
    <2>1. Conclude(antiGoals = {})
      BY <1>4 DEF EmbedderFails
    <2>2. (antiGoals = {}) \in BOOLEAN /\ (antiGoals = {} => AntiGoalsClear(asked.plan))
      BY DEF AntiGoalsClear
    <2> QED
      BY <1>4, <2>1, <2>2, ConcludeKeeps
  <1>5. ASSUME UNCHANGED <<posture, antiGoals, cache, asked, verdict>>
        PROVE  PolicyInv'
    BY <1>5 DEF PolicyInv, PolicyType, AnswersAreOf, ApprovedMeansChecked, AntiGoalsClear, needs_gate,
       check_rules
  <1>6. ASSUME NEW rules \in SUBSET Rules, EditRules(rules)
        PROVE  PolicyInv'
    BY <1>5, <1>6 DEF EditRules
  <1>7. CASE NextPlan
    BY <1>7 DEF NextPlan, PolicyInv, PolicyType, AnswersAreOf, ApprovedMeansChecked, NoVerdict
  <1>8. CASE UNCHANGED policyVars
    BY <1>5, <1>8 DEF policyVars
  <1> QED
    BY <1>1, <1>2, <1>3, <1>4, <1>6, <1>7, <1>8 DEF PolicyNext

\* Nothing irreversible passes unattended in the modes that may be left alone,
\* and nothing that meets an anti-goal in any: for every plan, rule and mode.
THEOREM RiskAlwaysMeetsAHuman == PolicySpec => []RiskMeetsAHuman
  <1>1. PolicyInv => RiskMeetsAHuman
    <2> SUFFICES ASSUME PolicyInv, Unattended
                 PROVE  /\ posture \in {"AUTO", "ASK", "SAFE"} => "irreversible" \notin asked.plan.marks
                        /\ "anti-goal" \notin asked.plan.marks \intersect antiGoals
      BY DEF RiskMeetsAHuman
    <2>1. /\ asked \in Judged /\ asked.ok /\ asked # NoPlan /\ ~needs_gate(asked.plan)
          /\ AntiGoalsClear(asked.plan) /\ asked.plan \in Plans
      BY DEF Unattended, PolicyInv, ApprovedMeansChecked, PolicyType, Judged
    <2>2. posture = "SAFE" => "irreversible" \notin asked.plan.marks
      BY <2>1 DEF PolicyInv, AnswersAreOf, StaticChecks, check_irreversible
    <2>3. posture \in {"AUTO", "ASK"} => "irreversible" \notin asked.plan.marks
      <3>1. posture = "ASK" => ~(risk_score(asked.plan) >= 50)
        BY <2>1 DEF needs_gate
      <3>2. posture = "AUTO" => ~(100 - risk_score(asked.plan) < 80)
        BY <2>1 DEF needs_gate
      <3> QED
        BY <2>1, <3>1, <3>2, RiskIsWorst
    <2>4. "anti-goal" \notin asked.plan.marks \intersect antiGoals
      BY <2>1 DEF AntiGoalsClear
    <2> QED
      BY <2>2, <2>3, <2>4
  <1> QED
    BY <1>1, PolicyInitially, PolicySteps, PTL DEF PolicySpec

\* An approval stands for every check of the very plan it is given for, whatever
\* edits the rule table saw meanwhile: the rules are those the agent loaded.
THEOREM ApprovalIsChecked ==
    PolicySpec => [](verdict.decision = "STATUS_APPROVED" =>
        StaticChecks(asked.plan) /\ check_rules(asked.plan, cache.rules) /\ AntiGoalsClear(asked.plan))
  <1>1. PolicyInv => (verdict.decision = "STATUS_APPROVED" =>
            StaticChecks(asked.plan) /\ check_rules(asked.plan, cache.rules) /\ AntiGoalsClear(asked.plan))
    BY DEF PolicyInv, AnswersAreOf, ApprovedMeansChecked
  <1> QED
    BY <1>1, PolicyInitially, PolicySteps, PTL DEF PolicySpec

-----------------------------------------------------------------------------
(* Compaction: the cut is as long as the budget allows, for every monotone *)
(* estimator, marker and text                                              *)

CompactTypeOK ==
    /\ stage \in {"idle", "compact", "lines", "search", "done"}
    /\ maxTokens \in Nat /\ size \in 0..MaxChars /\ suffix \in {0, Marker}
    /\ lo \in Nat /\ hi \in Int /\ best \in Int
    /\ outcome \in [chars : Int, cut : BOOLEAN, suffix : {0, Marker}]

\* Everything below lo fits and is no longer than best, everything above hi
\* does not fit.
SearchInv ==
    /\ suffix <= size /\ hi + suffix <= size /\ lo <= hi + 1
    /\ IF best = Nothing THEN lo = 0 ELSE best = lo - 1 /\ Fits(best + suffix)
    /\ \A n \in (hi + suffix + 1)..size : ~Fits(n)
    /\ suffix = 0 /\ Marker > 0 /\ Marker <= size => ~Fits(Marker)

\* What is being cut does not fit as it is.
CompactInv ==
    /\ CompactTypeOK
    /\ stage \in {"lines", "search"} => ~Fits(size)
    /\ stage = "search" => SearchInv
    /\ CompactedFits

USE CompactionAssumption

LEMMA InitCompact == CompactInit => CompactInv
  BY DEF CompactInit, CompactInv, CompactTypeOK, SearchInv, CompactedFits, Nothing

LEMMA BeginPreserves ==
    ASSUME CompactInv, NEW t, NEW n \in 0..Estimate[MaxChars], CompactToBudget(t, n)
    PROVE  CompactInv'
  <1>1. Estimate[MaxChars] \in Nat
    OBVIOUS
  <1>2. n \in Nat
    BY <1>1
  <1> QED BY <1>2 DEF CompactInv, CompactTypeOK, SearchInv, CompactedFits, CompactToBudget

LEMMA CompactPreserves == ASSUME CompactInv, Compact PROVE CompactInv'
  <1>1. CASE reduce_once(text) # text
    BY <1>1 DEF CompactInv, CompactTypeOK, SearchInv, CompactedFits, Compact
  <1>2. CASE reduce_once(text) = text /\ Fits(size')
    <2>1. /\ stage' = "done" /\ outcome' = [chars |-> size', cut |-> FALSE, suffix |-> 0]
          /\ maxTokens' = maxTokens /\ size' \in 0..MaxChars /\ Estimate[size'] <= maxTokens
          /\ UNCHANGED <<suffix, lo, hi, best>>
      BY <1>2 DEF Compact, Return, Fits
    <2>2. outcome'.chars = size' /\ outcome'.cut = FALSE
      BY <2>1
    <2>3. CompactTypeOK'
      BY <2>1 DEF CompactInv, CompactTypeOK
    <2>4. CompactedFits'
      BY <2>1, <2>2 DEF CompactedFits, Fits
    <2> QED BY <2>1, <2>3, <2>4 DEF CompactInv
  <1>3. CASE reduce_once(text) = text /\ ~Fits(size')
    BY <1>3 DEF CompactInv, CompactTypeOK, CompactedFits, Compact, Fits
  <1> QED BY <1>1, <1>2, <1>3

LEMMA DropLinePreserves == ASSUME CompactInv, DropLine PROVE CompactInv'
  <1>1. CASE Fits(size')
    <2>1. /\ stage' = "done" /\ outcome' = [chars |-> size', cut |-> FALSE, suffix |-> 0]
          /\ maxTokens' = maxTokens /\ size' \in 0..MaxChars /\ Estimate[size'] <= maxTokens
          /\ UNCHANGED <<suffix, lo, hi, best>>
      BY <1>1 DEF DropLine, Return, Fits
    <2>2. outcome'.chars = size' /\ outcome'.cut = FALSE
      BY <2>1
    <2>3. CompactTypeOK'
      BY <2>1 DEF CompactInv, CompactTypeOK
    <2>4. CompactedFits'
      BY <2>1, <2>2 DEF CompactedFits, Fits
    <2> QED BY <2>1, <2>3, <2>4 DEF CompactInv
  <1>2. CASE ~Fits(size')
    BY <1>2 DEF CompactInv, CompactTypeOK, CompactedFits, DropLine, Fits
  <1> QED BY <1>1, <1>2

LEMMA TruncatePreserves == ASSUME CompactInv, Truncate PROVE CompactInv'
  BY DEF CompactInv, CompactTypeOK, SearchInv, CompactedFits, Truncate, StartSearch, Fits, Nothing

\* One probe halves the interval and keeps both of its ends honest.
LEMMA ProbePreserves == ASSUME CompactInv, Probe PROVE CompactInv'
  <1> USE DEF CompactInv, CompactTypeOK
  <1>1. /\ stage = "search" /\ stage' = "search" /\ lo \in Nat /\ hi \in Int /\ lo <= hi
        /\ maxTokens' = maxTokens /\ size' = size /\ suffix' = suffix /\ outcome' = outcome
    BY DEF Probe
  <1>2. Mid \in Int /\ lo <= Mid /\ Mid <= hi
    BY <1>1 DEF Mid
  <1>3. /\ SearchInv /\ ~Fits(size) /\ suffix \in Nat /\ size \in Nat /\ size <= MaxChars
        /\ maxTokens \in Nat
    BY <1>1
  <1>4. Mid + suffix \in 0..size
    BY <1>1, <1>2, <1>3 DEF SearchInv
  <1>5. SearchInv'
    <2>1. CASE Fits(Mid + suffix)
      <3>1. best' = Mid /\ lo' = Mid + 1 /\ hi' = hi
        BY <2>1 DEF Probe
      <3>2. best' # Nothing
        BY <1>1, <1>2, <3>1 DEF Nothing
      <3> QED BY <1>1, <1>2, <1>3, <2>1, <3>1, <3>2 DEF SearchInv, Fits
    <2>2. CASE ~Fits(Mid + suffix)
      <3>1. best' = best /\ lo' = lo /\ hi' = Mid - 1
        BY <2>2 DEF Probe
      <3>2. ASSUME NEW n \in (Mid + suffix)..size PROVE ~Fits(n)
        <4>1. n \in 0..MaxChars /\ Mid + suffix \in 0..MaxChars /\ Mid + suffix <= n
          BY <1>2, <1>3, <1>4
        <4>2. Estimate[Mid + suffix] <= Estimate[n] /\ Estimate[n] \in Nat /\ Estimate[Mid + suffix] \in Nat
          BY <4>1
        <4> QED BY <1>3, <2>2, <4>2 DEF Fits
      <3>3. \A n \in (hi' + suffix' + 1)..size' : ~Fits(n)
        BY <1>1, <1>2, <1>3, <3>1, <3>2
      <3> QED BY <1>1, <1>2, <1>3, <3>1, <3>3 DEF SearchInv, Fits
    <2> QED BY <2>1, <2>2
  <1>6. lo' \in Nat /\ hi' \in Int /\ best' \in Int
    BY <1>1, <1>2 DEF Probe
  <1> QED BY <1>1, <1>3, <1>5, <1>6 DEF CompactedFits, Fits

LEMMA EndSearchPreserves == ASSUME CompactInv, EndSearch PROVE CompactInv'
  <1> USE DEF CompactInv, CompactTypeOK
  <1>1. /\ stage = "search" /\ lo > hi /\ SearchInv /\ ~Fits(size)
        /\ maxTokens' = maxTokens /\ size' = size
        /\ maxTokens \in Nat /\ size \in Nat /\ size <= MaxChars /\ suffix \in Nat
    BY DEF EndSearch
  <1>2. lo = hi + 1
    BY <1>1 DEF SearchInv
  <1>3. CASE best = Nothing /\ suffix > 0
    <2>1. suffix = Marker /\ hi = -1
      BY <1>1, <1>2, <1>3 DEF SearchInv
    <2>2. \A n \in Marker..size : ~Fits(n)
      BY <1>1, <2>1 DEF SearchInv
    <2>3. /\ stage' = "search" /\ suffix' = 0 /\ lo' = 0 /\ hi' = size /\ best' = Nothing
          /\ outcome' = outcome
      BY <1>1, <1>3 DEF EndSearch, StartSearch
    <2>4. SearchInv'
      BY <1>1, <2>2, <2>3 DEF SearchInv, Fits, Nothing
    <2> QED BY <1>1, <2>3, <2>4 DEF CompactedFits, Fits, Nothing
  <1>4. CASE ~(best = Nothing /\ suffix > 0)
    <2>1. /\ stage' = "done" /\ suffix' = suffix /\ lo' = lo /\ hi' = hi /\ best' = best
          /\ outcome' = [chars |-> IF best = Nothing THEN 0 ELSE best + suffix,
                         cut |-> TRUE, suffix |-> suffix]
      BY <1>4 DEF EndSearch, Return
    <2>2. CASE best = Nothing
      <3>1. suffix = 0 /\ lo = 0 /\ hi = -1
        BY <1>1, <1>2, <1>4, <2>2 DEF SearchInv
      <3>2. Fits(0) /\ \A n \in 0..size : ~Fits(n)
        BY <1>1, <3>1 DEF SearchInv, Fits
      <3> QED BY <1>1, <3>2
    <2>3. CASE best # Nothing
      <3>1. best = hi /\ best \in Nat /\ Fits(best + suffix) /\ best + suffix <= size
        BY <1>1, <1>2, <2>3 DEF SearchInv, Nothing
      <3>2. \A n \in (best + suffix + 1)..size : ~Fits(n)
        BY <1>1, <3>1 DEF SearchInv
      <3>3. outcome'.chars = best + suffix /\ outcome'.suffix = suffix /\ outcome'.cut
        BY <2>1, <2>3
      <3>4. CompactedFits'
        BY <1>1, <2>1, <3>1, <3>2, <3>3 DEF CompactedFits, Fits, SearchInv
      <3> QED BY <1>1, <2>1, <2>3, <3>1, <3>4
    <2> QED BY <2>2, <2>3
  <1> QED BY <1>3, <1>4

\* compact_to_budget() returns a text that fits, and the longest one of its kind.
THEOREM CutIsLongest == CompactSpec => []CompactedFits
  <1>1. CompactInv /\ [CompactNext]_compactVars => CompactInv'
    <2> SUFFICES ASSUME CompactInv, [CompactNext]_compactVars PROVE CompactInv'
      OBVIOUS
    <2>1. CASE UNCHANGED compactVars
      BY <2>1 DEF compactVars, CompactInv, CompactTypeOK, SearchInv, CompactedFits, Fits
    <2>2. ASSUME NEW k \in 0..MaxLines, NEW t \in [1..k -> Lines], NEW n \in 0..Estimate[MaxChars],
                 CompactToBudget(t, n)
          PROVE  CompactInv'
      BY <2>2, BeginPreserves
    <2> QED BY <2>1, <2>2, CompactPreserves, DropLinePreserves, TruncatePreserves,
               ProbePreserves, EndSearchPreserves DEF CompactNext
  <1>2. CompactInv => CompactedFits
    BY DEF CompactInv
  <1> QED BY InitCompact, <1>1, <1>2, PTL DEF CompactSpec

-----------------------------------------------------------------------------
(* Budgets: no budget of a tree overspends, for every allocation, quota    *)
(* and tree                                                                *)

BudgetInv == BudgetTypeOK /\ LinesClosed /\ NeverOverspent

HIDE CompactionAssumption
USE BudgetAssumption

\* What child() hands out is a number of tokens its parent still has.
LEMMA ChildIsAffordable ==
    ASSUME BudgetTypeOK, NeverOverspent, NEW b \in Budgets, NEW d \in {0, 1}
    PROVE  LET quota == quota_of(b, d)
           IN (IF quota <= remaining(b) THEN quota ELSE remaining(b)) \in Nat
  <1>1. depth[b] + d \in Nat
    BY DEF BudgetTypeOK
  <1>2. token_quota_at_depth(depth[b] + d) \in Nat
    BY <1>1 DEF token_quota_at_depth
  <1>3. remaining(b) \in Nat /\ allocated[b] \in Nat
    BY DEF remaining, NeverOverspent, BudgetTypeOK
  <1>4. allocated[b] \div 2 \in Nat
    BY <1>3
  <1>5. quota_of(b, d) \in Nat
    BY <1>2, <1>3, <1>4 DEF quota_of
  <1> QED BY <1>3, <1>5

\* child() adds a budget that has spent nothing and whose line is closed.
LEMMA ChildPreserves ==
    ASSUME BudgetInv, NEW b \in Budgets, NEW d \in {0, 1}, child(b, d)
    PROVE  BudgetInv'
  <1> DEFINE c == count + 1
             given == LET quota == quota_of(b, d)
                      IN IF quota <= remaining(b) THEN quota ELSE remaining(b)
  <1>1. given \in Nat
    BY ChildIsAffordable DEF BudgetInv
  <1>2. count \in Nat \ {0} /\ count' = c /\ Budgets = 1..count /\ Budgets' = 1..c
    BY DEF child, BudgetInv, BudgetTypeOK, Budgets
  <1> HIDE DEF given
  <1>3. /\ allocated' = [i \in 1..c |-> IF i = c THEN given ELSE allocated[i]]
        /\ consumed' = [i \in 1..c |-> IF i = c THEN 0 ELSE consumed[i]]
        /\ depth' = [i \in 1..c |-> IF i = c THEN depth[b] + d ELSE depth[i]]
        /\ line' = [i \in 1..c |-> IF i = c THEN line[b] \union {c} ELSE line[i]]
    BY DEF child, given
  <1>4. /\ c \in 1..c /\ c \notin Budgets
        /\ \A i \in 1..c : i = c \/ i \in Budgets
        /\ Budgets \subseteq 1..c
    BY <1>2
  <1>5. depth[b] + d \in Nat
    BY DEF BudgetInv, BudgetTypeOK
  <1>6. /\ allocated'[c] = given /\ consumed'[c] = 0 /\ line'[c] = line[b] \union {c}
        /\ \A i \in Budgets : /\ allocated'[i] = allocated[i] /\ consumed'[i] = consumed[i]
                               /\ line'[i] = line[i]
    BY <1>3, <1>4
  <1>7. /\ \A i \in Budgets : line[i] \subseteq Budgets
        /\ \A i \in Budgets : consumed[i] \in Nat /\ allocated[i] \in Nat /\ depth[i] \in Nat
    BY DEF BudgetInv, BudgetTypeOK
  <1> HIDE DEF c
  <1>8. BudgetTypeOK'
    <2>1. allocated' \in [1..c -> Nat] /\ consumed' \in [1..c -> Nat]
      BY <1>1, <1>3, <1>4, <1>7
    <2>2. depth' \in [1..c -> Nat]
      BY <1>3, <1>4, <1>5, <1>7
    <2>3. ASSUME NEW i \in 1..c PROVE (IF i = c THEN line[b] \union {c} ELSE line[i]) \in SUBSET (1..c)
      BY <1>4, <1>7
    <2>4. line' \in [1..c -> SUBSET (1..c)]
      BY <1>3, <2>3
    <2>5. count' \in Nat \ {0}
      BY <1>2 DEF c
    <2>6. profiled' \in BOOLEAN
      BY DEF child, BudgetInv, BudgetTypeOK
    <2> QED BY <1>2, <2>1, <2>2, <2>4, <2>5, <2>6 DEF BudgetTypeOK
  <1>9. LinesClosed'
    <2> SUFFICES ASSUME NEW i \in 1..c
                 PROVE  i \in line'[i] /\ \A a \in line'[i] : line'[a] \subseteq line'[i]
      BY <1>2 DEF LinesClosed
    <2>1. CASE i = c
      BY <1>4, <1>6, <1>7, <2>1 DEF BudgetInv, LinesClosed
    <2>2. CASE i \in Budgets
      BY <1>4, <1>6, <1>7, <2>2 DEF BudgetInv, LinesClosed
    <2> QED BY <1>4, <2>1, <2>2
  <1>10. NeverOverspent'
    <2> SUFFICES ASSUME NEW i \in 1..c
                 PROVE  consumed'[i] <= allocated'[i] /\ \A a \in line'[i] : consumed'[i] <= consumed'[a]
      BY <1>2 DEF NeverOverspent
    <2>1. CASE i = c
      <3>1. consumed'[c] = 0 /\ \A a \in 1..c : consumed'[a] \in Nat /\ allocated'[a] \in Nat
        <4>1. consumed'[c] = 0 /\ consumed'[c] \in Nat /\ allocated'[c] \in Nat
          BY <1>1, <1>6
        <4>2. \A a \in Budgets : consumed'[a] \in Nat /\ allocated'[a] \in Nat
          BY <1>6, <1>7
        <4> QED
          BY <1>4, <4>1, <4>2
      <3>2. line'[c] \subseteq 1..c /\ c \in 1..c
        BY <1>4, <1>6, <1>7
      <3> QED BY <2>1, <3>1, <3>2
    <2>2. CASE i \in Budgets
      BY <1>4, <1>6, <1>7, <2>2 DEF BudgetInv, NeverOverspent
    <2> QED BY <1>4, <2>1, <2>2
  <1> QED BY <1>8, <1>9, <1>10 DEF BudgetInv

\* try_consume() charges a whole line, and the lines it passes through with it.
LEMMA ConsumePreserves ==
    ASSUME BudgetInv, NEW b \in Budgets, NEW n \in 1..RootTokens, try_consume(b, n)
    PROVE  BudgetInv'
  <1>1. Budgets' = Budgets
    BY DEF try_consume, Budgets
  <1>2. n \in Nat
    OBVIOUS
  <1>3. BudgetTypeOK'
    BY <1>1, <1>2 DEF BudgetInv, BudgetTypeOK, try_consume
  <1>4. LinesClosed'
    BY <1>1 DEF BudgetInv, LinesClosed, try_consume
  <1>5. NeverOverspent'
    <2> SUFFICES ASSUME NEW x \in Budgets
                 PROVE  /\ consumed'[x] <= allocated'[x]
                        /\ \A a \in line'[x] : consumed'[x] <= consumed'[a]
      BY <1>1 DEF NeverOverspent
    <2>1. consumed'[x] <= allocated'[x]
      BY <1>2 DEF BudgetInv, BudgetTypeOK, NeverOverspent, try_consume, can_afford, remaining
    <2>2. ASSUME NEW a \in line[x] PROVE consumed'[x] <= consumed'[a]
      <3>1. a \in Budgets /\ consumed[x] <= consumed[a]
        BY DEF BudgetInv, BudgetTypeOK, NeverOverspent
      <3>2. x \in line[b] => a \in line[b]
        BY DEF BudgetInv, LinesClosed
      <3> QED BY <1>2, <3>1, <3>2 DEF try_consume, BudgetInv, BudgetTypeOK
    <2> QED BY <2>1, <2>2 DEF try_consume
  <1> QED BY <1>3, <1>4, <1>5 DEF BudgetInv

\* However children are made and drawn on, no budget overspends (budget.py's
\* try_consume asks every ancestor before it debits any of them).
THEOREM TreeNeverOverspends == BudgetSpec => []NeverOverspent
  <1>1. BudgetInit => BudgetInv
    BY DEF BudgetInit, BudgetInv, BudgetTypeOK, LinesClosed, NeverOverspent, Budgets
  <1>2. BudgetInv /\ [BudgetNext]_budgetVars => BudgetInv'
    <2> SUFFICES ASSUME BudgetInv, [BudgetNext]_budgetVars PROVE BudgetInv'
      OBVIOUS
    <2>1. CASE \E b \in Budgets, d \in {0, 1} : child(b, d)
      BY <2>1, ChildPreserves
    <2>2. CASE \E b \in Budgets, n \in 1..RootTokens : try_consume(b, n)
      BY <2>2, ConsumePreserves
    <2>3. CASE UNCHANGED budgetVars
      BY <2>3 DEF budgetVars, BudgetInv, BudgetTypeOK, LinesClosed, NeverOverspent, Budgets
    <2> QED BY <2>1, <2>2, <2>3 DEF BudgetNext
  <1>3. BudgetInv => NeverOverspent
    BY DEF BudgetInv
  <1> QED BY <1>1, <1>2, <1>3, PTL DEF BudgetSpec

HIDE BudgetAssumption

-----------------------------------------------------------------------------
(* Context: what an agent is given to read *)

\* A set of numbers that is not empty has a least one.
LEMMA LeastNumber ==
    ASSUME NEW T \in SUBSET Nat, T # {}
    PROVE  \E m \in T : \A k \in T : m <= k
  <1> DEFINE Less == {ss \in Nat \X Nat : ss[1] < ss[2]}
  <1>1. IsWellFoundedOn(Less, Nat)
    BY NatLessThanWellFounded, Zenon DEF OpToRel
  <1>2. PICK m \in T : \A k \in T : ~(<<k, m>> \in Less)
    <2> HIDE DEF Less
    <2> QED
      BY <1>1, WFMin
  <1>3. \A k \in T : ~(k < m) /\ k \in Nat /\ m \in Nat
    BY <1>2
  <1> QED
    BY <1>3

\* How many numbers there are up to n.
LEMMA FirstNumbers ==
    ASSUME NEW n \in Nat
    PROVE  IsFiniteSet(1..n) /\ Cardinality(1..n) = n
  <1>1. (IF 1 > n THEN 0 ELSE n - 1 + 1) = n /\ n \in Int /\ 1 \in Int
    OBVIOUS
  <1> QED
    BY <1>1, FS_Interval

-----------------------------------------------------------------------------
(* Listing a set in an order *)

StrictOrder(S, R) ==
    /\ \A x \in S : <<x, x>> \notin R
    /\ \A x, y, z \in S : <<x, y>> \in R /\ <<y, z>> \in R => <<x, z>> \in R
    /\ \A x, y \in S : x # y => <<x, y>> \in R \/ <<y, x>> \in R

Before(S, R, e) == Cardinality({d \in S : <<d, e>> \in R})

LEMMA BeforeIsAPlace ==
    ASSUME NEW S, IsFiniteSet(S), NEW R, StrictOrder(S, R), NEW e \in S
    PROVE  Before(S, R, e) + 1 \in 1..Cardinality(S) /\ Before(S, R, e) \in Nat
  <1> DEFINE A == {d \in S : <<d, e>> \in R}
  <1>1. A \subseteq S /\ e \notin A
    BY DEF StrictOrder
  <1> HIDE DEF A
  <1>2. IsFiniteSet(A) /\ Cardinality(A) <= Cardinality(S)
        /\ (Cardinality(S) = Cardinality(A) => S = A)
    BY <1>1, FS_Subset
  <1>3. Cardinality(A) \in Nat /\ Cardinality(S) \in Nat /\ Cardinality(A) # Cardinality(S)
    BY <1>1, <1>2, FS_CardinalityType
  <1>4. Cardinality(A) + 1 \in 1..Cardinality(S)
    BY <1>2, <1>3
  <1> QED
    BY <1>3, <1>4 DEF Before, A

LEMMA BeforeGrows ==
    ASSUME NEW S, IsFiniteSet(S), NEW R, StrictOrder(S, R), NEW x \in S, NEW y \in S, <<x, y>> \in R
    PROVE  Before(S, R, x) < Before(S, R, y)
  <1> DEFINE A == {d \in S : <<d, x>> \in R}
             B == {d \in S : <<d, y>> \in R}
  <1>1. A \subseteq B /\ B \subseteq S /\ x \in B /\ x \notin A
    BY DEF StrictOrder
  <1> HIDE DEF A, B
  <1>2. IsFiniteSet(B)
    BY <1>1, FS_Subset
  <1>3. Cardinality(A) <= Cardinality(B) /\ (Cardinality(B) = Cardinality(A) => B = A)
        /\ IsFiniteSet(A)
    BY <1>1, <1>2, FS_Subset
  <1>4. Cardinality(A) \in Nat /\ Cardinality(B) \in Nat /\ Cardinality(A) # Cardinality(B)
    BY <1>1, <1>2, <1>3, FS_CardinalityType
  <1> QED
    BY <1>3, <1>4 DEF Before, A, B

\* The list holds each member once, at the place that the order gives it.
LEMMA InOrderLists ==
    ASSUME NEW S, IsFiniteSet(S), NEW R, StrictOrder(S, R)
    PROVE  /\ Cardinality(S) \in Nat
           /\ InOrder(S, R) \in Seq(S) /\ Len(InOrder(S, R)) = Cardinality(S)
           /\ \A e \in S : \E k \in 1..Cardinality(S) : InOrder(S, R)[k] = e
           /\ \A i, k \in 1..Cardinality(S) :
                /\ <<InOrder(S, R)[i], InOrder(S, R)[k]>> \in R <=> i < k
                /\ InOrder(S, R)[i] = InOrder(S, R)[k] => i = k
  <1> DEFINE n == Cardinality(S)
             T == 1..n
             place == [e \in S |-> Before(S, R, e) + 1]
             At(k) == CHOOSE e \in S : Before(S, R, e) = k - 1
             s == [k \in T |-> At(k)]
  <1>1. n \in Nat
    BY FS_CardinalityType
  <1>2. InOrder(S, R) = s
    BY DEF InOrder, Before
  <1>3. \A e \in S : place[e] = Before(S, R, e) + 1 /\ place[e] \in T /\ Before(S, R, e) \in Nat
    BY BeforeIsAPlace
  <1>4. \A x, y \in S : Before(S, R, x) = Before(S, R, y) => x = y
    <2> SUFFICES ASSUME NEW x \in S, NEW y \in S, x # y PROVE Before(S, R, x) # Before(S, R, y)
      OBVIOUS
    <2>1. Before(S, R, x) \in Nat /\ Before(S, R, y) \in Nat
      BY <1>3
    <2>2. CASE <<x, y>> \in R
      BY <2>1, <2>2, BeforeGrows
    <2>3. CASE <<y, x>> \in R
      BY <2>1, <2>3, BeforeGrows
    <2> QED
      BY <2>2, <2>3 DEF StrictOrder
  <1>5. IsFiniteSet(T) /\ Cardinality(T) = Cardinality(S)
    BY <1>1, FirstNumbers
  <1>6. place \in [S -> T]
    BY <1>3
  <1> HIDE DEF place, T, n
  <1>7. \A x, y \in S : place[x] = place[y] => x = y
    <2> SUFFICES ASSUME NEW x \in S, NEW y \in S, place[x] = place[y] PROVE x = y
      OBVIOUS
    <2>1. Before(S, R, x) + 1 = Before(S, R, y) + 1 /\ Before(S, R, x) \in Nat /\ Before(S, R, y) \in Nat
      BY <1>3
    <2>2. Before(S, R, x) = Before(S, R, y)
      BY <2>1
    <2> QED
      BY <1>4, <2>2
  <1>8. place \in Injection(S, T)
    BY <1>6, <1>7 DEF Injection, IsInjective
  <1>9. place \in Surjection(S, T)
    BY <1>5, <1>8, FS_Injection
  <1>10. \A k \in T : \E e \in S : place[e] = k
    BY <1>9 DEF Surjection
  <1>11. \A k \in T : At(k) \in S /\ Before(S, R, At(k)) = k - 1 /\ k \in Nat
    <2> SUFFICES ASSUME NEW k \in T
                 PROVE  (\E e \in S : Before(S, R, e) = k - 1) /\ k \in Nat
      OBVIOUS
    <2>1. PICK e \in S : place[e] = k
      BY <1>10
    <2>2. Before(S, R, e) \in Nat /\ k = Before(S, R, e) + 1
      BY <1>3, <2>1
    <2> QED
      BY <2>2
  <1> HIDE DEF At
  <1>12. s \in Seq(S) /\ Len(s) = n /\ \A k \in T : s[k] = At(k)
    BY <1>1, <1>11 DEF T
  <1> HIDE DEF s
  <1>13. \A e \in S : \E k \in T : s[k] = e
    <2> SUFFICES ASSUME NEW e \in S PROVE \E k \in T : s[k] = e
      OBVIOUS
    <2>1. place[e] \in T /\ Before(S, R, e) \in Nat /\ place[e] = Before(S, R, e) + 1
      BY <1>3
    <2>2. Before(S, R, At(place[e])) = place[e] - 1 /\ At(place[e]) \in S
      BY <1>11, <2>1
    <2>3. Before(S, R, At(place[e])) = Before(S, R, e)
      BY <2>1, <2>2
    <2>4. At(place[e]) = e
      BY <1>4, <2>2, <2>3
    <2> QED
      BY <1>12, <2>1, <2>4
  <1>14. \A i, k \in T : (<<s[i], s[k]>> \in R <=> i < k) /\ (s[i] = s[k] => i = k)
    <2> SUFFICES ASSUME NEW i \in T, NEW k \in T
                 PROVE  (<<s[i], s[k]>> \in R <=> i < k) /\ (s[i] = s[k] => i = k)
      OBVIOUS
    <2>1. /\ s[i] \in S /\ s[k] \in S /\ i \in Nat /\ k \in Nat
          /\ Before(S, R, s[i]) = i - 1 /\ Before(S, R, s[k]) = k - 1
      BY <1>11, <1>12
    <2>2. s[i] = s[k] => i = k
      BY <2>1
    <2>3. <<s[i], s[k]>> \in R => i < k
      <3> SUFFICES ASSUME <<s[i], s[k]>> \in R PROVE i < k
        OBVIOUS
      <3>1. Before(S, R, s[i]) < Before(S, R, s[k])
        BY <2>1, BeforeGrows
      <3> QED
        BY <2>1, <3>1
    <2>4. i < k => <<s[i], s[k]>> \in R
      <3> SUFFICES ASSUME i < k, <<s[i], s[k]>> \notin R PROVE FALSE
        OBVIOUS
      <3>1. s[i] # s[k]
        BY <2>1, <2>2
      <3>2. <<s[k], s[i]>> \in R
        BY <2>1, <3>1 DEF StrictOrder
      <3>3. Before(S, R, s[k]) < Before(S, R, s[i])
        BY <2>1, <3>2, BeforeGrows
      <3> QED
        BY <2>1, <3>3
    <2> QED
      BY <2>2, <2>3, <2>4
  <1> QED
    BY <1>1, <1>2, <1>12, <1>13, <1>14 DEF n, T

LEMMA NumbersAscend ==
    ASSUME NEW S \in SUBSET Nat, IsFiniteSet(S)
    PROVE  Ascending(S) \in Seq(S)
  <1> DEFINE R == {p \in S \X S : p[1] < p[2]}
  <1>1. \A x, y \in S : <<x, y>> \in R <=> x < y
    OBVIOUS
  <1>2. \A x \in S : x \in Nat
    OBVIOUS
  <1> HIDE DEF R
  <1>3. StrictOrder(S, R)
    BY <1>1, <1>2 DEF StrictOrder
  <1> QED
    BY <1>3, InOrderLists DEF Ascending, R

-----------------------------------------------------------------------------
(* Tokens of a set of elements *)

LEMMA TokensOfNone == Tokens({}) = 0
  <1>1. UNION {{e} \X (1..e.size) : e \in {}} = {}
    OBVIOUS
  <1> QED
    BY <1>1, FS_EmptySet DEF Tokens

OfOne(e) == {e} \X (1..e.size)
OfAll(S) == UNION {OfOne(e) : e \in S}

LEMMA TokensCount ==
    ASSUME NEW S, IsFiniteSet(S), \A e \in S : e.size \in Nat
    PROVE  IsFiniteSet(OfAll(S)) /\ Tokens(S) = Cardinality(OfAll(S)) /\ Tokens(S) \in Nat
  <1> DEFINE f == [e \in S |-> OfOne(e)]
             T == {OfOne(e) : e \in S}
  <1>1. f \in Surjection(S, T)
    BY DEF Surjection
  <1> HIDE DEF f
  <1>2. IsFiniteSet(T)
    BY <1>1, FS_Surjection
  <1>3. \A e \in S : IsFiniteSet(OfOne(e))
    <2> SUFFICES ASSUME NEW e \in S PROVE IsFiniteSet(OfOne(e))
      OBVIOUS
    <2>1. IsFiniteSet({e}) /\ IsFiniteSet(1..e.size)
      BY FS_Singleton, FirstNumbers
    <2> QED
      BY <2>1, FS_Product DEF OfOne
  <1>4. IsFiniteSet(OfAll(S))
    BY <1>2, <1>3, FS_UNION DEF OfAll
  <1>5. Tokens(S) = Cardinality(OfAll(S))
    BY DEF Tokens, OfAll, OfOne
  <1> QED
    BY <1>4, <1>5, FS_CardinalityType

\* One more element, as many more tokens.
LEMMA TokensAdd ==
    ASSUME NEW S, IsFiniteSet(S), \A e \in S : e.size \in Nat, NEW x, x \notin S, x.size \in Nat
    PROVE  Tokens(S \union {x}) = Tokens(S) + x.size
  <1>1. IsFiniteSet(S \union {x}) /\ \A e \in S \union {x} : e.size \in Nat
    BY FS_AddElement
  <1>2. IsFiniteSet(OfAll(S)) /\ Tokens(S) = Cardinality(OfAll(S)) /\ Tokens(S) \in Nat
    BY TokensCount
  <1>3. Tokens(S \union {x}) = Cardinality(OfAll(S \union {x}))
    BY <1>1, TokensCount
  <1>4. OfAll(S \union {x}) = OfAll(S) \union OfOne(x)
    BY DEF OfAll
  <1>5. OfAll(S) \intersect OfOne(x) = {}
    BY DEF OfAll, OfOne
  <1>6. IsFiniteSet(OfOne(x)) /\ Cardinality(OfOne(x)) = x.size
    <2>1. IsFiniteSet({x}) /\ Cardinality({x}) = 1 /\ IsFiniteSet(1..x.size)
          /\ Cardinality(1..x.size) = x.size
      BY FS_Singleton, FirstNumbers
    <2>2. /\ IsFiniteSet({x} \X (1..x.size))
          /\ Cardinality({x} \X (1..x.size)) = Cardinality({x}) * Cardinality(1..x.size)
      BY <2>1, FS_Product, Zenon
    <2>3. 1 * x.size = x.size
      OBVIOUS
    <2> QED
      BY <2>1, <2>2, <2>3, Zenon DEF OfOne
  <1>7. Cardinality(OfAll(S) \union OfOne(x))
        = Cardinality(OfAll(S)) + Cardinality(OfOne(x)) - Cardinality(OfAll(S) \intersect OfOne(x))
    BY <1>2, <1>6, FS_Union
  <1>8. Cardinality(OfAll(S) \intersect OfOne(x)) = 0
    BY <1>5, FS_EmptySet
  <1>9. Cardinality(OfAll(S) \union OfOne(x)) = Cardinality(OfAll(S)) + Cardinality(OfOne(x)) - 0
    BY <1>7, <1>8, Zenon
  <1>10. Cardinality(OfAll(S)) + Cardinality(OfOne(x)) - 0 = Cardinality(OfAll(S)) + Cardinality(OfOne(x))
    <2>1. Cardinality(OfAll(S)) \in Nat /\ Cardinality(OfOne(x)) \in Nat
      BY <1>2, <1>6, FS_CardinalityType
    <2> QED
      BY <2>1
  <1> QED
    BY <1>2, <1>3, <1>4, <1>6, <1>9, <1>10, Zenon

-----------------------------------------------------------------------------
(* The loop of pack *)

PackStart == [got |-> <<>>, used |-> 0]

IsPacking(h, ranked, ceiling, n) ==
    h = [k \in 0..n |-> IF k = 0 THEN PackStart ELSE Consumed(h[k - 1], ranked[k], ceiling)]

LEMMA PackingExists ==
    ASSUME NEW ranked, NEW ceiling, NEW N \in Nat
    PROVE  \E h : IsPacking(h, ranked, ceiling, N)
  <1> DEFINE T == {k \in Nat : ~ \E h : IsPacking(h, ranked, ceiling, k)}
  <1> SUFFICES ASSUME T # {} PROVE FALSE
    OBVIOUS
  <1>1. T \subseteq Nat
    OBVIOUS
  <1>2. PICK m \in T : \A k \in T : m <= k
    <2> HIDE DEF T
    <2> QED
      BY <1>1, LeastNumber
  <1>3. CASE m = 0
    <2> DEFINE none == [k \in 0..0 |-> PackStart]
    <2>1. none = [k \in 0..0 |-> IF k = 0 THEN PackStart ELSE Consumed(none[k - 1], ranked[k], ceiling)]
      OBVIOUS
    <2>2. IsPacking(none, ranked, ceiling, 0)
      BY <2>1 DEF IsPacking
    <2> QED
      BY <1>2, <1>3, <2>2
  <1>4. CASE m # 0
    <2>1. m \in Nat /\ m - 1 \in Nat /\ ~(m <= m - 1)
      BY <1>2, <1>4
    <2>2. m - 1 \notin T
      BY <1>2, <2>1
    <2>3. PICK g : IsPacking(g, ranked, ceiling, m - 1)
      BY <2>1, <2>2
    <2> DEFINE h == [k \in 0..m |-> IF k = 0 THEN PackStart ELSE Consumed(g[k - 1], ranked[k], ceiling)]
    <2>4. \A k \in 0..(m - 1) : g[k] = IF k = 0 THEN PackStart ELSE Consumed(g[k - 1], ranked[k], ceiling)
      BY <2>3 DEF IsPacking
    <2>5. \A k \in 0..(m - 1) : h[k] = g[k]
      <3>1. \A k \in 0..m : h[k] = IF k = 0 THEN PackStart ELSE Consumed(g[k - 1], ranked[k], ceiling)
        OBVIOUS
      <3>2. \A k \in 0..(m - 1) : k \in 0..m
        BY <2>1
      <3> HIDE DEF h
      <3> QED
        BY <2>4, <3>1, <3>2
    <2>6. \A k \in 0..m : k # 0 => k - 1 \in 0..(m - 1)
      BY <2>1
    <2>7. \A k \in 0..m : k # 0 => h[k - 1] = g[k - 1]
      BY <2>5, <2>6
    <2>8. \A k \in 0..m : h[k] = IF k = 0 THEN PackStart ELSE Consumed(h[k - 1], ranked[k], ceiling)
      BY <2>7
    <2>9. h = [k \in 0..m |-> h[k]]
      OBVIOUS
    <2> HIDE DEF h
    <2>10. IsPacking(h, ranked, ceiling, m)
      BY <2>8, <2>9 DEF IsPacking
    <2> QED
      BY <1>2, <2>10
  <1> QED
    BY <1>3, <1>4

LEMMA PackIsItsLoop ==
    ASSUME NEW ranked, NEW ceiling, Len(ranked) \in Nat
    PROVE  \E h : IsPacking(h, ranked, ceiling, Len(ranked)) /\ pack(ranked, ceiling) = h[Len(ranked)].got
  <1> DEFINE N == Len(ranked)
             after[k \in 0..N] ==
                 IF k = 0 THEN [got |-> <<>>, used |-> 0] ELSE Consumed(after[k - 1], ranked[k], ceiling)
  <1>1. PICK h : IsPacking(h, ranked, ceiling, N)
    <2> HIDE DEF after
    <2> QED
      BY PackingExists
  <1>2. after = CHOOSE f : f = [k \in 0..N |-> IF k = 0 THEN PackStart
                                              ELSE Consumed(f[k - 1], ranked[k], ceiling)]
    BY DEF after, PackStart
  <1>3. after = [k \in 0..N |-> IF k = 0 THEN PackStart ELSE Consumed(after[k - 1], ranked[k], ceiling)]
    <2> HIDE DEF after, N
    <2> QED
      BY <1>1, <1>2 DEF IsPacking
  <1>4. pack(ranked, ceiling) = after[N].got
    BY DEF pack, after
  <1>5. IsPacking(after, ranked, ceiling, N)
    BY <1>3 DEF IsPacking
  <1> QED
    BY <1>4, <1>5

\* What got holds after k turns, and why it lacks what it lacks.
Packed(acc, ranked, ceiling, k) ==
    /\ acc.got \in Seq(ToSet(ranked)) /\ acc.used \in Nat /\ acc.used <= ceiling
    /\ IsFiniteSet(ToSet(acc.got)) /\ acc.used = Tokens(ToSet(acc.got))
    /\ \A d \in ToSet(acc.got) : \E j \in 1..k : d = ranked[j]
    /\ \A i, j \in DOMAIN acc.got : acc.got[i] = acc.got[j] => i = j
    /\ \A j \in 1..k : ranked[j] \notin ToSet(acc.got) =>
          ranked[j].size + Tokens({d \in ToSet(acc.got) : \E i \in 1..(j - 1) : d = ranked[i]}) > ceiling

Listed(ranked) ==
    /\ ranked \in Seq(ToSet(ranked))
    /\ \A e \in ToSet(ranked) : e.size \in Nat
    /\ \A i, j \in 1..Len(ranked) : ranked[i] = ranked[j] => i = j

LEMMA AppendedSet ==
    ASSUME NEW E, NEW s \in Seq(E), NEW x
    PROVE  /\ ToSet(Append(s, x)) = ToSet(s) \union {x}
           /\ Len(Append(s, x)) = Len(s) + 1 /\ DOMAIN Append(s, x) = 1..(Len(s) + 1)
           /\ \A i \in 1..Len(s) : Append(s, x)[i] = s[i]
           /\ Append(s, x)[Len(s) + 1] = x
  <1>1. Len(s) \in Nat /\ DOMAIN s = 1..Len(s)
    OBVIOUS
  <1>2. s \in Seq(E \union {x})
    <2>1. \A i \in 1..Len(s) : s[i] \in E \union {x}
      OBVIOUS
    <2>2. s = [i \in 1..Len(s) |-> s[i]]
      OBVIOUS
    <2> QED
      BY <1>1, <2>1, <2>2, IsASeq
  <1> DEFINE t == Append(s, x)
  <1>3. /\ Len(t) = Len(s) + 1 /\ \A i \in 1..Len(s) : t[i] = s[i]
        /\ t[Len(s) + 1] = x /\ DOMAIN t = 1..Len(t)
    BY <1>2, AppendProperties
  <1> HIDE DEF t
  <1>4. ToSet(t) = ToSet(s) \union {x}
    <2>1. \A i \in DOMAIN t : t[i] \in ToSet(s) \union {x}
      <3> SUFFICES ASSUME NEW i \in DOMAIN t PROVE t[i] \in ToSet(s) \union {x}
        OBVIOUS
      <3>1. i \in 1..Len(s) \/ i = Len(s) + 1
        BY <1>1, <1>3
      <3> QED
        BY <1>1, <1>3, <3>1 DEF ToSet
    <2>2. \A i \in DOMAIN s : s[i] \in ToSet(t)
      <3> SUFFICES ASSUME NEW i \in DOMAIN s PROVE s[i] \in ToSet(t)
        OBVIOUS
      <3>1. i \in DOMAIN t /\ t[i] = s[i]
        BY <1>1, <1>3
      <3> QED
        BY <3>1 DEF ToSet
    <2>3. x \in ToSet(t)
      <3>1. Len(s) + 1 \in DOMAIN t
        BY <1>1, <1>3
      <3> QED
        BY <1>3, <3>1 DEF ToSet
    <2>4. ToSet(t) \subseteq ToSet(s) \union {x}
      BY <2>1 DEF ToSet
    <2>5. ToSet(s) \subseteq ToSet(t)
      BY <2>2 DEF ToSet
    <2> QED
      BY <2>3, <2>4, <2>5
  <1> QED
    BY <1>3, <1>4 DEF t

LEMMA PackStarts ==
    ASSUME NEW ranked, NEW ceiling \in Nat
    PROVE  Packed(PackStart, ranked, ceiling, 0)
  <1>1. PackStart.got = <<>> /\ PackStart.used = 0
    BY DEF PackStart
  <1>2. ToSet(<<>>) = {}
    BY DEF ToSet
  <1>3. IsFiniteSet({})
    BY FS_EmptySet
  <1>4. 1..0 = {}
    OBVIOUS
  <1> QED
    BY <1>1, <1>2, <1>3, <1>4, TokensOfNone DEF Packed

LEMMA PackGoesOn ==
    ASSUME NEW ranked, Listed(ranked), NEW ceiling \in Nat, NEW n \in Nat, n + 1 <= Len(ranked),
           NEW acc, Packed(acc, ranked, ceiling, n)
    PROVE  Packed(Consumed(acc, ranked[n + 1], ceiling), ranked, ceiling, n + 1)
  <1> DEFINE x == ranked[n + 1]
             G == ToSet(acc.got)
             Ahead(H, j) == {d \in H : \E i \in 1..(j - 1) : d = ranked[i]}
  <1>1. /\ acc.got \in Seq(ToSet(ranked)) /\ acc.used \in Nat /\ acc.used <= ceiling
        /\ IsFiniteSet(G) /\ acc.used = Tokens(G)
        /\ \A d \in G : \E j \in 1..n : d = ranked[j]
        /\ \A i, j \in DOMAIN acc.got : acc.got[i] = acc.got[j] => i = j
        /\ \A j \in 1..n : ranked[j] \notin G => ranked[j].size + Tokens(Ahead(G, j)) > ceiling
    BY DEF Packed
  <1>2. Len(ranked) \in Nat /\ n + 1 \in 1..Len(ranked) /\ x \in ToSet(ranked)
    <2>1. Len(ranked) \in Nat /\ DOMAIN ranked = 1..Len(ranked)
      BY DEF Listed
    <2>2. n + 1 \in DOMAIN ranked
      BY <2>1
    <2> QED
      BY <2>1, <2>2 DEF ToSet
  <1>3. x.size \in Nat /\ \A j \in 1..n : j \in 1..Len(ranked) /\ ranked[j] # x
    <2>1. \A j \in 1..n : j \in 1..Len(ranked) /\ j # n + 1
      BY <1>2
    <2> QED
      BY <1>2, <2>1 DEF Listed
  <1>4. x \notin G
    BY <1>1, <1>3
  <1>5. \A j \in 1..(n + 1) : j \in 1..n \/ j = n + 1
    OBVIOUS
  <1>6. Ahead(G, n + 1) = G
    <2>1. (n + 1) - 1 = n
      OBVIOUS
    <2> QED
      BY <1>1, <2>1
  <1>7. \A d \in G : \E j \in 1..(n + 1) : d = ranked[j]
    <2>1. \A j \in 1..n : j \in 1..(n + 1)
      OBVIOUS
    <2> QED
      BY <1>1, <2>1
  <1>8. n + 1 \in 1..(n + 1)
    OBVIOUS
  <1> HIDE DEF x, Ahead
  <1>9. CASE x.size > ceiling - acc.used
    <2>1. Consumed(acc, x, ceiling) = acc
      BY <1>9 DEF Consumed
    <2>2. x.size + Tokens(Ahead(G, n + 1)) > ceiling
      <3>1. x.size + acc.used > ceiling
        BY <1>1, <1>3, <1>9
      <3> QED
        BY <1>1, <1>6, <3>1
    <2>3. \A j \in 1..(n + 1) : ranked[j] \notin G => ranked[j].size + Tokens(Ahead(G, j)) > ceiling
      BY <1>1, <1>5, <2>2 DEF x
    <2> HIDE DEF G
    <2>4. Packed(acc, ranked, ceiling, n + 1)
      BY <1>1, <1>7, <2>3 DEF Packed, Ahead, G
    <2> QED
      BY <2>1, <2>4 DEF x
  <1>10. CASE ~(x.size > ceiling - acc.used)
    <2> DEFINE more == Append(acc.got, x)
               new == [got |-> more, used |-> acc.used + x.size]
    <2>1. Consumed(acc, x, ceiling) = new
      BY <1>10 DEF Consumed
    <2>2. /\ ToSet(more) = G \union {x}
          /\ Len(more) = Len(acc.got) + 1 /\ DOMAIN more = 1..(Len(acc.got) + 1)
          /\ \A i \in 1..Len(acc.got) : more[i] = acc.got[i]
          /\ more[Len(acc.got) + 1] = x
      BY <1>1, AppendedSet
    <2>3. Len(acc.got) \in Nat /\ DOMAIN acc.got = 1..Len(acc.got)
      BY <1>1
    <2>4. more \in Seq(ToSet(ranked))
      BY <1>1, <1>2, AppendProperties
    <2>5. new.got = more /\ new.used = acc.used + x.size
      OBVIOUS
    <2>6. acc.used + x.size \in Nat /\ acc.used + x.size <= ceiling
      BY <1>1, <1>3, <1>10
    <2>7. \A e \in G : e.size \in Nat
      <3>1. G \subseteq ToSet(ranked)
        BY <1>1, <1>2, <1>3 DEF ToSet
      <3> QED
        BY <3>1 DEF Listed
    <2>8. Tokens(G \union {x}) = Tokens(G) + x.size /\ IsFiniteSet(G \union {x})
      BY <1>1, <1>3, <1>4, <2>7, TokensAdd, FS_AddElement
    <2>9. \A i \in DOMAIN acc.got : acc.got[i] # x
      BY <1>4 DEF ToSet
    <2> HIDE DEF more, G
    <2>10. \A i, j \in DOMAIN more : more[i] = more[j] => i = j
      <3>1. \A i \in DOMAIN more : i \in DOMAIN acc.got \/ i = Len(acc.got) + 1
        BY <2>2, <2>3
      <3> QED
        BY <1>1, <2>2, <2>3, <2>9, <3>1
    <2>11. \A d \in G \union {x} : \E j \in 1..(n + 1) : d = ranked[j]
      BY <1>7, <1>8 DEF x
    <2>12. \A j \in 1..(n + 1) : ranked[j] \notin G \union {x} =>
              ranked[j].size + Tokens(Ahead(G \union {x}, j)) > ceiling
      <3> SUFFICES ASSUME NEW j \in 1..(n + 1), ranked[j] \notin G \union {x}
                   PROVE  ranked[j].size + Tokens(Ahead(G \union {x}, j)) > ceiling
        OBVIOUS
      <3>1. j \in 1..n
        BY <1>5 DEF x
      <3>2. \A i \in 1..(j - 1) : i \in 1..n
        BY <3>1
      <3>3. Ahead(G \union {x}, j) = Ahead(G, j)
        BY <1>3, <3>2 DEF Ahead
      <3> QED
        BY <1>1, <3>1, <3>3
    <2>13. Packed(new, ranked, ceiling, n + 1)
      <3> HIDE DEF new
      <3> QED
        BY <2>2, <2>4, <2>5, <2>6, <2>8, <2>10, <2>11, <2>12, <1>1 DEF Packed, Ahead
    <2> QED
      BY <2>1, <2>13 DEF x
  <1> QED
    BY <1>9, <1>10

LEMMA PackIsPacked ==
    ASSUME NEW ranked, Listed(ranked), NEW ceiling \in Nat
    PROVE  \E spent : Packed([got |-> pack(ranked, ceiling), used |-> spent], ranked, ceiling, Len(ranked))
  <1>1. Len(ranked) \in Nat
    BY DEF Listed
  <1>2. PICK h : IsPacking(h, ranked, ceiling, Len(ranked)) /\ pack(ranked, ceiling) = h[Len(ranked)].got
    BY <1>1, PackIsItsLoop
  <1> DEFINE N == Len(ranked)
             T == {k \in 0..N : ~Packed(h[k], ranked, ceiling, k)}
  <1>3. T = {}
    <2> SUFFICES ASSUME T # {} PROVE FALSE
      OBVIOUS
    <2>1. T \in SUBSET Nat
      BY <1>1
    <2>2. PICK m \in T : \A k \in T : m <= k
      <3> HIDE DEF T
      <3> QED
        BY <2>1, LeastNumber
    <2>3. \A k \in 0..N : h[k] = IF k = 0 THEN PackStart ELSE Consumed(h[k - 1], ranked[k], ceiling)
      BY <1>2 DEF IsPacking
    <2>4. m \in 0..N /\ ~Packed(h[m], ranked, ceiling, m) /\ m \in Nat
      BY <1>1, <2>2
    <2>5. CASE m = 0
      BY <2>3, <2>4, <2>5, PackStarts
    <2>6. CASE m # 0
      <3>1. m - 1 \in Nat /\ m - 1 \in 0..N /\ ~(m <= m - 1) /\ (m - 1) + 1 = m /\ m <= N
        BY <1>1, <2>4, <2>6
      <3>2. Packed(h[m - 1], ranked, ceiling, m - 1)
        BY <2>2, <3>1
      <3>3. Packed(Consumed(h[m - 1], ranked[(m - 1) + 1], ceiling), ranked, ceiling, (m - 1) + 1)
        <4> DEFINE q == m - 1
        <4>1. q \in Nat /\ q + 1 <= Len(ranked) /\ Packed(h[q], ranked, ceiling, q)
          BY <3>1, <3>2
        <4> HIDE DEF q
        <4>2. Packed(Consumed(h[q], ranked[q + 1], ceiling), ranked, ceiling, q + 1)
          BY <4>1, PackGoesOn
        <4> QED
          BY <4>2 DEF q
      <3> QED
        BY <2>3, <2>4, <2>6, <3>1, <3>3
    <2> QED
      BY <2>5, <2>6
  <1>4. Packed(h[N], ranked, ceiling, N)
    BY <1>1, <1>3
  <1>5. h[N].got = pack(ranked, ceiling)
    BY <1>2
  <1> HIDE DEF T, N
  <1>6. Packed([got |-> pack(ranked, ceiling), used |-> h[N].used], ranked, ceiling, N)
    BY <1>4, <1>5 DEF Packed
  <1> QED
    BY <1>6 DEF N

-----------------------------------------------------------------------------
(* The candidates *)

ContextElement ==
    [id : FactIds, size : Nat, rel : Nat, conf : Nat, imp : Nat,
     slot : STRING, domain : STRING, tier : {"hot", "semantic"}]

IsPooling(h, all, blocked, n) ==
    h = [k \in 0..n |-> IF k = 0 THEN <<>> ELSE Admitted(h[k - 1], all[k], blocked)]

LEMMA PoolingExists ==
    ASSUME NEW all, NEW blocked, NEW N \in Nat
    PROVE  \E h : IsPooling(h, all, blocked, N)
  <1> DEFINE T == {k \in Nat : ~ \E h : IsPooling(h, all, blocked, k)}
  <1> SUFFICES ASSUME T # {} PROVE FALSE
    OBVIOUS
  <1>1. T \subseteq Nat
    OBVIOUS
  <1>2. PICK m \in T : \A k \in T : m <= k
    <2> HIDE DEF T
    <2> QED
      BY <1>1, LeastNumber
  <1>3. CASE m = 0
    <2> DEFINE none == [k \in 0..0 |-> <<>>]
    <2>1. none = [k \in 0..0 |-> IF k = 0 THEN <<>> ELSE Admitted(none[k - 1], all[k], blocked)]
      OBVIOUS
    <2>2. IsPooling(none, all, blocked, 0)
      BY <2>1 DEF IsPooling
    <2> QED
      BY <1>2, <1>3, <2>2
  <1>4. CASE m # 0
    <2>1. m \in Nat /\ m - 1 \in Nat /\ ~(m <= m - 1)
      BY <1>2, <1>4
    <2>2. m - 1 \notin T
      BY <1>2, <2>1
    <2>3. PICK g : IsPooling(g, all, blocked, m - 1)
      BY <2>1, <2>2
    <2> DEFINE h == [k \in 0..m |-> IF k = 0 THEN <<>> ELSE Admitted(g[k - 1], all[k], blocked)]
    <2>4. \A k \in 0..(m - 1) : g[k] = IF k = 0 THEN <<>> ELSE Admitted(g[k - 1], all[k], blocked)
      BY <2>3 DEF IsPooling
    <2>5. \A k \in 0..(m - 1) : h[k] = g[k]
      <3>1. \A k \in 0..m : h[k] = IF k = 0 THEN <<>> ELSE Admitted(g[k - 1], all[k], blocked)
        OBVIOUS
      <3>2. \A k \in 0..(m - 1) : k \in 0..m
        BY <2>1
      <3> HIDE DEF h
      <3> QED
        BY <2>4, <3>1, <3>2
    <2>6. \A k \in 0..m : k # 0 => k - 1 \in 0..(m - 1)
      BY <2>1
    <2>7. \A k \in 0..m : k # 0 => h[k - 1] = g[k - 1]
      BY <2>5, <2>6
    <2>8. \A k \in 0..m : h[k] = IF k = 0 THEN <<>> ELSE Admitted(h[k - 1], all[k], blocked)
      BY <2>7
    <2>9. h = [k \in 0..m |-> h[k]]
      OBVIOUS
    <2> HIDE DEF h
    <2>10. IsPooling(h, all, blocked, m)
      BY <2>8, <2>9 DEF IsPooling
    <2> QED
      BY <1>2, <2>10
  <1> QED
    BY <1>3, <1>4

LEMMA PoolIsItsLoop ==
    ASSUME NEW hot, NEW vague, NEW blocked, Len(hot \o vague) \in Nat
    PROVE  LET all == hot \o vague IN
           \E h : /\ IsPooling(h, all, blocked, Len(all))
                  /\ candidate_pool(hot, vague, blocked) = h[Len(all)]
  <1> DEFINE all == hot \o vague
             N == Len(all)
             after[k \in 0..N] ==
                 IF k = 0 THEN <<>> ELSE Admitted(after[k - 1], all[k], blocked)
  <1>0. N \in Nat
    OBVIOUS
  <1>1. PICK h : IsPooling(h, all, blocked, N)
    <2> HIDE DEF after, all, N
    <2> QED
      BY <1>0, PoolingExists
  <1>2. after = CHOOSE f : f = [k \in 0..N |-> IF k = 0 THEN <<>>
                                              ELSE Admitted(f[k - 1], all[k], blocked)]
    BY DEF after
  <1>3. after = [k \in 0..N |-> IF k = 0 THEN <<>> ELSE Admitted(after[k - 1], all[k], blocked)]
    <2> HIDE DEF after, N, all
    <2> QED
      BY <1>1, <1>2 DEF IsPooling
  <1>4. candidate_pool(hot, vague, blocked) = after[N]
    BY DEF candidate_pool, after
  <1>5. IsPooling(after, all, blocked, N)
    BY <1>3 DEF IsPooling
  <1> QED
    BY <1>4, <1>5

\* A hot element that the checks let through.
Vouched(e, blocked) == e.tier = "hot" /\ e.conf # 0 /\ e.domain \notin blocked

\* The pool after k turns: one element for an id; the hot one, where it passes.
Pooled(pool, all, blocked, k) ==
    /\ pool \in Seq(ContextElement)
    /\ \A i, j \in DOMAIN pool : pool[i].id = pool[j].id => i = j
    /\ \A i \in DOMAIN pool : \E j \in 1..k : pool[i] = all[j]
    /\ \A j \in 1..k : Vouched(all[j], blocked) => \E i \in DOMAIN pool : pool[i].id = all[j].id
    /\ \A i \in DOMAIN pool, j \in 1..k :
          Vouched(all[j], blocked) /\ pool[i].id = all[j].id => pool[i].tier = "hot"

HotFirst(all) ==
    /\ all \in Seq(ContextElement)
    /\ \A i, j \in 1..Len(all) : i < j /\ all[j].tier = "hot" => all[i].tier = "hot"

LEMMA PoolGoesOn ==
    ASSUME NEW all, HotFirst(all), NEW blocked, NEW n \in Nat, n + 1 <= Len(all),
           NEW pool, Pooled(pool, all, blocked, n)
    PROVE  Pooled(Admitted(pool, all[n + 1], blocked), all, blocked, n + 1)
  <1> DEFINE x == all[n + 1]
             In == \E i \in DOMAIN pool : pool[i].id = x.id
  <1>1. /\ pool \in Seq(ContextElement)
        /\ \A i, j \in DOMAIN pool : pool[i].id = pool[j].id => i = j
        /\ \A i \in DOMAIN pool : \E j \in 1..n : pool[i] = all[j]
        /\ \A j \in 1..n : Vouched(all[j], blocked) => \E i \in DOMAIN pool : pool[i].id = all[j].id
        /\ \A i \in DOMAIN pool, j \in 1..n :
              Vouched(all[j], blocked) /\ pool[i].id = all[j].id => pool[i].tier = "hot"
    BY DEF Pooled
  <1>2. Len(all) \in Nat /\ n + 1 \in 1..Len(all) /\ x \in ContextElement
        /\ \A j \in 1..n : j \in 1..Len(all) /\ j < n + 1
    BY DEF HotFirst
  <1>3. \A j \in 1..(n + 1) : j \in 1..n \/ j = n + 1
    OBVIOUS
  <1>4. n + 1 \in 1..(n + 1) /\ \A j \in 1..n : j \in 1..(n + 1)
    OBVIOUS
  <1>5. x.tier = "hot" => \A j \in 1..n : all[j].tier = "hot"
    BY <1>2 DEF HotFirst
  <1>6. DOMAIN pool = 1..Len(pool) /\ Len(pool) \in Nat
    BY <1>1
  <1>7. Admitted(pool, x, blocked) = pool \/ Admitted(pool, x, blocked) = Append(pool, x)
    BY DEF Admitted
  <1>8. CASE Admitted(pool, x, blocked) = pool /\ (Vouched(x, blocked) => In)
    <2>1. \A j \in 1..(n + 1) : Vouched(all[j], blocked) => \E i \in DOMAIN pool : pool[i].id = all[j].id
      BY <1>1, <1>3, <1>8
    <2>2. \A i \in DOMAIN pool : \E j \in 1..(n + 1) : pool[i] = all[j]
      BY <1>1, <1>4
    <2>3. \A i \in DOMAIN pool, j \in 1..(n + 1) :
            Vouched(all[j], blocked) /\ pool[i].id = all[j].id => pool[i].tier = "hot"
      <3> SUFFICES ASSUME NEW i \in DOMAIN pool, NEW j \in 1..(n + 1),
                          Vouched(all[j], blocked), pool[i].id = all[j].id
                   PROVE  pool[i].tier = "hot"
        OBVIOUS
      <3>1. CASE j \in 1..n
        BY <1>1, <3>1
      <3>2. CASE j = n + 1
        BY <1>1, <1>5, <3>2 DEF Vouched
      <3> QED
        BY <1>3, <3>1, <3>2
    <2> HIDE DEF x, In
    <2>4. Pooled(pool, all, blocked, n + 1)
      BY <1>1, <2>1, <2>2, <2>3 DEF Pooled
    <2> QED
      BY <1>8, <2>4 DEF x
  <1>9. CASE Admitted(pool, x, blocked) = Append(pool, x) /\ ~In
    <2> DEFINE more == Append(pool, x)
    <2>1. /\ Len(more) = Len(pool) + 1 /\ DOMAIN more = 1..(Len(pool) + 1)
          /\ \A i \in 1..Len(pool) : more[i] = pool[i]
          /\ more[Len(pool) + 1] = x
      BY <1>1, AppendedSet
    <2>2. more \in Seq(ContextElement)
      BY <1>1, <1>2, AppendProperties
    <2>3. \A i \in DOMAIN more : i \in DOMAIN pool \/ i = Len(pool) + 1
      <3>1. \A k \in Nat : \A i \in 1..(k + 1) : i \in 1..k \/ i = k + 1
        OBVIOUS
      <3> HIDE DEF more
      <3> QED
        BY <1>6, <2>1, <3>1
    <2>4. \A i \in DOMAIN pool : i \in DOMAIN more /\ more[i] = pool[i]
      BY <1>6, <2>1
    <2>5. Len(pool) + 1 \in DOMAIN more
      BY <1>6, <2>1
    <2>6. \A i \in DOMAIN pool : pool[i].id # x.id
      BY <1>9
    <2>7. ~ \E j \in 1..n : Vouched(all[j], blocked) /\ all[j].id = x.id
      BY <1>1, <2>6
    <2> HIDE DEF more, In
    <2>8. \A i, j \in DOMAIN more : more[i].id = more[j].id => i = j
      BY <1>1, <2>1, <2>3, <2>4, <2>6
    <2>9. \A i \in DOMAIN more : \E j \in 1..(n + 1) : more[i] = all[j]
      <3> SUFFICES ASSUME NEW i \in DOMAIN more PROVE \E j \in 1..(n + 1) : more[i] = all[j]
        OBVIOUS
      <3>1. CASE i \in DOMAIN pool
        <4>1. PICK j \in 1..n : pool[i] = all[j]
          BY <1>1, <3>1
        <4> QED
          BY <1>4, <2>4, <3>1, <4>1
      <3>2. CASE i = Len(pool) + 1
        BY <1>4, <2>1, <3>2
      <3> QED
        BY <2>3, <3>1, <3>2
    <2>10. \A j \in 1..(n + 1) : Vouched(all[j], blocked) => \E i \in DOMAIN more : more[i].id = all[j].id
      <3> SUFFICES ASSUME NEW j \in 1..(n + 1), Vouched(all[j], blocked)
                   PROVE  \E i \in DOMAIN more : more[i].id = all[j].id
        OBVIOUS
      <3>1. CASE j \in 1..n
        <4>1. PICK i \in DOMAIN pool : pool[i].id = all[j].id
          BY <1>1, <3>1
        <4> QED
          BY <2>4, <4>1
      <3>2. CASE j = n + 1
        BY <2>1, <2>5, <3>2
      <3> QED
        BY <1>3, <3>1, <3>2
    <2>11. \A i \in DOMAIN more, j \in 1..(n + 1) :
              Vouched(all[j], blocked) /\ more[i].id = all[j].id => more[i].tier = "hot"
      <3> SUFFICES ASSUME NEW i \in DOMAIN more, NEW j \in 1..(n + 1),
                          Vouched(all[j], blocked), more[i].id = all[j].id
                   PROVE  more[i].tier = "hot"
        OBVIOUS
      <3>1. CASE i \in DOMAIN pool /\ j \in 1..n
        BY <1>1, <2>4, <3>1
      <3>2. CASE i \in DOMAIN pool /\ j = n + 1
        BY <2>4, <2>6, <3>2
      <3>3. CASE i = Len(pool) + 1 /\ j \in 1..n
        BY <2>1, <2>7, <3>3
      <3>4. CASE i = Len(pool) + 1 /\ j = n + 1
        BY <2>1, <3>4 DEF Vouched
      <3> QED
        BY <1>3, <2>3, <3>1, <3>2, <3>3, <3>4
    <2> HIDE DEF x
    <2>12. Pooled(more, all, blocked, n + 1)
      BY <2>2, <2>8, <2>9, <2>10, <2>11 DEF Pooled
    <2> QED
      BY <1>9, <2>12 DEF x, more
  <1>10. \/ Admitted(pool, x, blocked) = pool /\ (Vouched(x, blocked) => In)
         \/ Admitted(pool, x, blocked) = Append(pool, x) /\ ~In
    BY DEF Admitted, Vouched
  <1> QED
    BY <1>8, <1>9, <1>10

LEMMA PoolIsPooled ==
    ASSUME NEW hot, NEW vague, NEW blocked, HotFirst(hot \o vague)
    PROVE  LET all == hot \o vague IN
           Pooled(candidate_pool(hot, vague, blocked), all, blocked, Len(all))
  <1> DEFINE all == hot \o vague
             N == Len(all)
  <1>1. N \in Nat
    BY DEF HotFirst
  <1>2. PICK h : IsPooling(h, all, blocked, N) /\ candidate_pool(hot, vague, blocked) = h[N]
    BY <1>1, PoolIsItsLoop
  <1> HIDE DEF all
  <1> DEFINE T == {k \in 0..N : ~Pooled(h[k], all, blocked, k)}
  <1>3. T = {}
    <2> SUFFICES ASSUME T # {} PROVE FALSE
      OBVIOUS
    <2>1. T \in SUBSET Nat
      BY <1>1
    <2>2. PICK m \in T : \A k \in T : m <= k
      <3> HIDE DEF T
      <3> QED
        BY <2>1, LeastNumber
    <2>3. \A k \in 0..N : h[k] = IF k = 0 THEN <<>> ELSE Admitted(h[k - 1], all[k], blocked)
      BY <1>2 DEF IsPooling
    <2>4. m \in 0..N /\ ~Pooled(h[m], all, blocked, m) /\ m \in Nat
      BY <1>1, <2>2
    <2>5. CASE m = 0
      <3>1. Pooled(<<>>, all, blocked, 0)
        BY DEF Pooled
      <3> QED
        BY <2>3, <2>4, <2>5, <3>1
    <2>6. CASE m # 0
      <3> DEFINE q == m - 1
      <3>1. q \in Nat /\ q \in 0..N /\ ~(m <= q) /\ q + 1 = m /\ m <= N
        BY <1>1, <2>4, <2>6
      <3> HIDE DEF q
      <3>2. Pooled(h[q], all, blocked, q)
        BY <2>2, <3>1
      <3>3. Pooled(Admitted(h[q], all[q + 1], blocked), all, blocked, q + 1)
        BY <3>1, <3>2, PoolGoesOn DEF all
      <3>4. h[m] = Admitted(h[q], all[q + 1], blocked)
        BY <2>3, <2>4, <2>6, <3>1 DEF q
      <3> QED
        BY <2>4, <3>1, <3>3, <3>4
    <2> QED
      BY <2>5, <2>6
  <1>4. Pooled(h[N], all, blocked, N)
    BY <1>1, <1>3
  <1> QED
    BY <1>2, <1>4 DEF all

\* The hot rows come first; either nothing is blocked or there is nothing else.
LEMMA PoolIsSound ==
    ASSUME NEW hot \in Seq(ContextElement), NEW vague \in Seq(ContextElement), NEW blocked,
           \A i \in DOMAIN hot : hot[i].tier = "hot",
           \A i \in DOMAIN vague : vague[i].tier = "semantic",
           blocked = {} \/ vague = <<>>
    PROVE  LET pool == candidate_pool(hot, vague, blocked) IN
           /\ pool \in Seq(ContextElement)
           /\ \A i, j \in DOMAIN pool : pool[i].id = pool[j].id => i = j
           /\ \A i \in DOMAIN pool, j \in DOMAIN hot :
                pool[i].id = hot[j].id /\ hot[j].conf # 0 => pool[i].tier = "hot"
  <1> DEFINE all == hot \o vague
             pool == candidate_pool(hot, vague, blocked)
             H == Len(hot)
             V == Len(vague)
  <1>1. H \in Nat /\ V \in Nat /\ DOMAIN hot = 1..H /\ DOMAIN vague = 1..V
    OBVIOUS
  <1>2. /\ all \in Seq(ContextElement) /\ Len(all) = H + V
        /\ \A i \in 1..(H + V) : all[i] = IF i <= H THEN hot[i] ELSE vague[i - H]
    BY ConcatProperties, Zenon
  <1> HIDE DEF all
  <1>3. \A i \in 1..H : i \in 1..(H + V) /\ i <= H
    BY <1>1
  <1>4. \A i \in 1..H : all[i] = hot[i]
    BY <1>2, <1>3
  <1>5. \A i \in 1..(H + V) : i \notin 1..H => ~(i <= H) /\ i - H \in 1..V
    BY <1>1
  <1>6. \A i \in 1..(H + V) : i \notin 1..H => all[i].tier = "semantic"
    <2> SUFFICES ASSUME NEW i \in 1..(H + V), i \notin 1..H PROVE all[i].tier = "semantic"
      OBVIOUS
    <2>1. ~(i <= H) /\ i - H \in DOMAIN vague
      BY <1>1, <1>5
    <2>2. all[i] = vague[i - H]
      BY <1>2, <2>1
    <2> QED
      BY <2>1, <2>2
  <1>7. HotFirst(all)
    <2> SUFFICES ASSUME NEW i \in 1..(H + V), NEW j \in 1..(H + V), i < j, all[j].tier = "hot"
                 PROVE  all[i].tier = "hot"
      BY <1>2 DEF HotFirst
    <2>1. j \in 1..H
      BY <1>6
    <2>2. i \in 1..H
      BY <1>1, <2>1
    <2> QED
      BY <1>1, <1>4, <2>2
  <1>8. Pooled(pool, all, blocked, H + V)
    <2>1. Pooled(pool, all, blocked, Len(all))
      BY <1>7, PoolIsPooled DEF all
    <2> QED
      BY <1>2, <2>1
  <1> HIDE DEF pool
  <1>9. /\ pool \in Seq(ContextElement)
        /\ \A i, j \in DOMAIN pool : pool[i].id = pool[j].id => i = j
        /\ \A i \in DOMAIN pool : \E j \in 1..(H + V) : pool[i] = all[j]
        /\ \A i \in DOMAIN pool, j \in 1..(H + V) :
             Vouched(all[j], blocked) /\ pool[i].id = all[j].id => pool[i].tier = "hot"
    BY <1>8 DEF Pooled
  <1>10. \A i \in DOMAIN pool, j \in DOMAIN hot :
            pool[i].id = hot[j].id /\ hot[j].conf # 0 => pool[i].tier = "hot"
    <2> SUFFICES ASSUME NEW i \in DOMAIN pool, NEW j \in DOMAIN hot,
                        pool[i].id = hot[j].id, hot[j].conf # 0
                 PROVE  pool[i].tier = "hot"
      OBVIOUS
    <2>1. j \in 1..H /\ j \in 1..(H + V) /\ all[j] = hot[j]
      BY <1>1, <1>3, <1>4
    <2>2. CASE blocked = {}
      <3>1. Vouched(all[j], blocked)
        BY <2>1, <2>2 DEF Vouched
      <3> QED
        BY <1>9, <2>1, <3>1
    <2>3. CASE vague = <<>>
      <3>1. V = 0
        BY <2>3
      <3>2. PICK k \in 1..(H + V) : pool[i] = all[k]
        BY <1>9
      <3>3. k \in 1..H
        BY <1>1, <3>1, <3>2
      <3> QED
        BY <1>1, <1>4, <3>2, <3>3
    <2> QED
      BY <2>2, <2>3
  <1> QED
    BY <1>9, <1>10 DEF pool

-----------------------------------------------------------------------------
(* The ranking *)

\* Tuples of four numbers are compared like words.
LEMMA OutranksIsLexical ==
    ASSUME NEW a1, NEW a2, NEW a3, NEW a4, NEW b1, NEW b2, NEW b3, NEW b4
    PROVE  Outranks(<<a1, a2, a3, a4>>, <<b1, b2, b3, b4>>) <=>
             \/ a1 < b1
             \/ a1 = b1 /\ a2 < b2
             \/ a1 = b1 /\ a2 = b2 /\ a3 < b3
             \/ a1 = b1 /\ a2 = b2 /\ a3 = b3 /\ a4 < b4
  <1> DEFINE a == <<a1, a2, a3, a4>>
             b == <<b1, b2, b3, b4>>
             At(k) == a[k] < b[k] /\ \A j \in 1..(k - 1) : a[j] = b[j]
  <1>1. DOMAIN a = {1, 2, 3, 4}
    OBVIOUS
  <1>2. /\ a[1] = a1 /\ a[2] = a2 /\ a[3] = a3 /\ a[4] = a4
        /\ b[1] = b1 /\ b[2] = b2 /\ b[3] = b3 /\ b[4] = b4
    OBVIOUS
  <1>3. 1..(1 - 1) = {} /\ 1..(2 - 1) = {1} /\ 1..(3 - 1) = {1, 2} /\ 1..(4 - 1) = {1, 2, 3}
    OBVIOUS
  <1> HIDE DEF a, b
  <1>4. At(1) <=> a1 < b1
    BY <1>2, <1>3
  <1>5. At(2) <=> a1 = b1 /\ a2 < b2
    BY <1>2, <1>3
  <1>6. At(3) <=> a1 = b1 /\ a2 = b2 /\ a3 < b3
    BY <1>2, <1>3
  <1>7. At(4) <=> a1 = b1 /\ a2 = b2 /\ a3 = b3 /\ a4 < b4
    BY <1>2, <1>3
  <1>8. Outranks(a, b) <=> \E k \in {1, 2, 3, 4} : At(k)
    BY <1>1 DEF Outranks
  <1> HIDE DEF At
  <1>9. Outranks(a, b) <=> At(1) \/ At(2) \/ At(3) \/ At(4)
    BY <1>8
  <1> QED
    BY <1>4, <1>5, <1>6, <1>7, <1>9 DEF a, b

Ahead(need, a, b) == Outranks(rank_key(a, need), rank_key(b, need))

\* Elements of different facts are never tied.
LEMMA RankIsAnOrder ==
    ASSUME NEW need, NEW es \in SUBSET ContextElement,
           \A d, e \in es : d.id = e.id => d = e
    PROVE  StrictOrder(es, {p \in es \X es : Ahead(need, p[1], p[2])})
  <1> DEFINE R == {p \in es \X es : Ahead(need, p[1], p[2])}
             T(e) == RankTier(e, need)
             W(e) == -(e.rel * e.conf)
             M(e) == -e.imp
  <1>1. \A d, e \in es : <<d, e>> \in R <=> Ahead(need, d, e)
    OBVIOUS
  <1>2. \A d, e \in es : Ahead(need, d, e) <=>
            \/ T(d) < T(e)
            \/ T(d) = T(e) /\ W(d) < W(e)
            \/ T(d) = T(e) /\ W(d) = W(e) /\ M(d) < M(e)
            \/ T(d) = T(e) /\ W(d) = W(e) /\ M(d) = M(e) /\ d.id < e.id
    BY OutranksIsLexical DEF Ahead, rank_key
  <1>3. \A e \in es : T(e) \in Int /\ W(e) \in Int /\ M(e) \in Int /\ e.id \in Int
    <2> SUFFICES ASSUME NEW e \in es
                 PROVE  T(e) \in Int /\ W(e) \in Int /\ M(e) \in Int /\ e.id \in Int
      OBVIOUS
    <2>1. e.rel \in Nat /\ e.conf \in Nat /\ e.imp \in Nat /\ e.id \in FactIds
      BY DEF ContextElement
    <2>2. e.id \in Int
      <3>1. FactIds \subseteq Nat
        BY ContextAssumption, Zenon
      <3>2. e.id \in Nat
        BY <2>1, <3>1, Zenon
      <3> QED
        BY <3>2
    <2>3. e.rel * e.conf \in Int
      BY <2>1
    <2> QED
      BY <2>1, <2>2, <2>3 DEF RankTier
  <1> HIDE DEF R, T, W, M
  <1>4. \A x \in es : ~Ahead(need, x, x)
    BY <1>2, <1>3
  <1>5. \A x, y, z \in es : Ahead(need, x, y) /\ Ahead(need, y, z) => Ahead(need, x, z)
    <2> SUFFICES ASSUME NEW x \in es, NEW y \in es, NEW z \in es, Ahead(need, x, y), Ahead(need, y, z)
                 PROVE  Ahead(need, x, z)
      OBVIOUS
    <2>1. \/ T(x) < T(y)
          \/ T(x) = T(y) /\ W(x) < W(y)
          \/ T(x) = T(y) /\ W(x) = W(y) /\ M(x) < M(y)
          \/ T(x) = T(y) /\ W(x) = W(y) /\ M(x) = M(y) /\ x.id < y.id
      BY <1>2
    <2>2. \/ T(y) < T(z)
          \/ T(y) = T(z) /\ W(y) < W(z)
          \/ T(y) = T(z) /\ W(y) = W(z) /\ M(y) < M(z)
          \/ T(y) = T(z) /\ W(y) = W(z) /\ M(y) = M(z) /\ y.id < z.id
      BY <1>2
    <2>3. \/ T(x) < T(z)
          \/ T(x) = T(z) /\ W(x) < W(z)
          \/ T(x) = T(z) /\ W(x) = W(z) /\ M(x) < M(z)
          \/ T(x) = T(z) /\ W(x) = W(z) /\ M(x) = M(z) /\ x.id < z.id
      BY <1>3, <2>1, <2>2
    <2> QED
      BY <1>2, <2>3
  <1>6. \A x, y \in es : x # y => Ahead(need, x, y) \/ Ahead(need, y, x)
    <2> SUFFICES ASSUME NEW x \in es, NEW y \in es, x # y, ~Ahead(need, x, y)
                 PROVE  Ahead(need, y, x)
      OBVIOUS
    <2>1. x.id # y.id
      OBVIOUS
    <2>2. ~(\/ T(x) < T(y)
            \/ T(x) = T(y) /\ W(x) < W(y)
            \/ T(x) = T(y) /\ W(x) = W(y) /\ M(x) < M(y)
            \/ T(x) = T(y) /\ W(x) = W(y) /\ M(x) = M(y) /\ x.id < y.id)
      BY <1>2
    <2>3. \/ T(y) < T(x)
          \/ T(y) = T(x) /\ W(y) < W(x)
          \/ T(y) = T(x) /\ W(y) = W(x) /\ M(y) < M(x)
          \/ T(y) = T(x) /\ W(y) = W(x) /\ M(y) = M(x) /\ y.id < x.id
      BY <1>3, <2>1, <2>2
    <2> QED
      BY <1>2, <2>3
  <1>7. StrictOrder(es, R)
    BY <1>1, <1>4, <1>5, <1>6 DEF StrictOrder
  <1> QED
    BY <1>7 DEF R

\* The ranked list holds the pool's elements, once each, the better ones first.
LEMMA RankedIsListed ==
    ASSUME NEW pool \in Seq(ContextElement), NEW need,
           \A i, j \in DOMAIN pool : pool[i].id = pool[j].id => i = j
    PROVE  LET ranked == Ranked(pool, need) IN
           /\ Listed(ranked) /\ ToSet(ranked) = ToSet(pool)
           /\ \A i, k \in 1..Len(ranked) : Ahead(need, ranked[i], ranked[k]) <=> i < k
  <1> DEFINE es == ToSet(pool)
             R == {p \in es \X es : Ahead(need, p[1], p[2])}
             ranked == Ranked(pool, need)
  <1>1. es \subseteq ContextElement
    BY DEF ToSet
  <1>2. \A d, e \in es : d.id = e.id => d = e
    BY DEF ToSet
  <1>3. IsFiniteSet(es)
    <2> DEFINE f == [i \in 1..Len(pool) |-> pool[i]]
    <2>1. Len(pool) \in Nat /\ DOMAIN pool = 1..Len(pool)
      OBVIOUS
    <2>2. f \in Surjection(1..Len(pool), es)
      BY <2>1 DEF Surjection, ToSet
    <2>3. IsFiniteSet(1..Len(pool))
      BY <2>1, FirstNumbers
    <2> HIDE DEF f, es
    <2> QED
      BY <2>2, <2>3, FS_Surjection
  <1>4. ranked = InOrder(es, R)
    BY DEF Ranked, Ahead
  <1>5. \A d, e \in es : <<d, e>> \in R <=> Ahead(need, d, e)
    OBVIOUS
  <1>6. \A e \in es : e.size \in Nat
    BY <1>1 DEF ContextElement
  <1> HIDE DEF es
  <1>7. StrictOrder(es, R)
    BY <1>1, <1>2, RankIsAnOrder
  <1> HIDE DEF R, ranked
  <1> DEFINE n == Cardinality(es)
  <1>8. /\ n \in Nat /\ ranked \in Seq(es) /\ Len(ranked) = n
        /\ \A e \in es : \E k \in 1..n : ranked[k] = e
        /\ \A i, k \in 1..n : /\ <<ranked[i], ranked[k]>> \in R <=> i < k
                              /\ ranked[i] = ranked[k] => i = k
    BY <1>3, <1>4, <1>7, InOrderLists
  <1> HIDE DEF n
  <1>9. DOMAIN ranked = 1..n /\ \A i \in 1..n : ranked[i] \in es
    BY <1>8
  <1>10. ToSet(ranked) = es
    <2>1. \A e \in ToSet(ranked) : e \in es
      BY <1>9 DEF ToSet
    <2>2. ASSUME NEW e \in es PROVE e \in ToSet(ranked)
      <3>1. PICK k \in 1..n : ranked[k] = e
        BY <1>8
      <3> QED
        BY <1>9, <3>1 DEF ToSet
    <2> QED
      BY <2>1, <2>2
  <1>11. Listed(ranked)
    BY <1>6, <1>8, <1>10 DEF Listed
  <1>12. \A i, k \in 1..n : Ahead(need, ranked[i], ranked[k]) <=> i < k
    BY <1>5, <1>8, <1>9
  <1> QED
    BY <1>8, <1>10, <1>11, <1>12 DEF es, ranked

-----------------------------------------------------------------------------
(* The packet *)

ContextSpec == ContextInit /\ [][ContextNext]_contextVars

FactRow == [size : Nat, slot : STRING, imp : Nat, conf : Nat, domain : STRING]
Payload == [slot : STRING, domain : STRING]

ContextTypeOK ==
    /\ factRows \in [FactIds -> FactRow \union {Gone}]
    /\ embedded \in [FactIds -> Payload \union {Gone}]
    /\ build \in [pc : {"idle", "hot", "semantic", "pack"}, role : {"planner", "worker"},
                  need : Needs \union {{}}, ceiling : Nat,
                  hot : Seq(ContextElement), semantic : Seq(ContextElement),
                  seenRows : [FactIds -> FactRow \union {Gone}]]

\* Each tier holds what its own query returned, and a worker asks only the rows.
TiersApart ==
    /\ \A i \in DOMAIN build.hot : build.hot[i].tier = "hot"
    /\ \A i \in DOMAIN build.semantic : build.semantic[i].tier = "semantic"
    /\ build.role = "worker" => build.semantic = <<>>
    /\ build.pc = "semantic" => build.role = "planner"

\* A packet is compiled once, at the end.
OnePacket == build.pc # "idle" => packet = NoPacket

ContextInv == ContextTypeOK /\ TiersApart /\ OnePacket /\ PacketIsGreedy

\* got is a greedy selection from pool.
Greedy(got, pool, need, ceiling) ==
    /\ ToSet(got) \subseteq ToSet(pool)
    /\ Tokens(ToSet(got)) <= ceiling
    /\ Cardinality({e.id : e \in ToSet(got)}) = Len(got)
    /\ \A e \in ToSet(pool) \ ToSet(got) :
         e.size + Tokens({d \in ToSet(got) : Ahead(need, d, e)}) > ceiling

\* What pack selects from a sound pool is what the property asks of a packet.
LEMMA SelectionIsGreedy ==
    ASSUME NEW pool \in Seq(ContextElement), NEW need, NEW ceiling \in Nat,
           \A i, j \in DOMAIN pool : pool[i].id = pool[j].id => i = j
    PROVE  Greedy(pack(Ranked(pool, need), ceiling), pool, need, ceiling)
  <1> DEFINE ranked == Ranked(pool, need)
             got == pack(ranked, ceiling)
             G == ToSet(got)
             N == Len(ranked)
  <1>1. /\ Listed(ranked) /\ ToSet(ranked) = ToSet(pool)
        /\ \A i, k \in 1..N : Ahead(need, ranked[i], ranked[k]) <=> i < k
    BY RankedIsListed
  <1> HIDE DEF ranked
  <1>2. PICK spent : Packed([got |-> got, used |-> spent], ranked, ceiling, N)
    BY <1>1, PackIsPacked
  <1> HIDE DEF got
  <1>3. /\ got \in Seq(ToSet(ranked)) /\ spent <= ceiling /\ spent = Tokens(G)
        /\ \A d \in G : \E j \in 1..N : d = ranked[j]
        /\ \A i, j \in DOMAIN got : got[i] = got[j] => i = j
        /\ \A j \in 1..N : ranked[j] \notin G =>
             ranked[j].size + Tokens({d \in G : \E i \in 1..(j - 1) : d = ranked[i]}) > ceiling
    BY <1>2 DEF Packed
  <1>4. N \in Nat /\ DOMAIN ranked = 1..N
    BY <1>1 DEF Listed
  <1>5. Len(got) \in Nat /\ DOMAIN got = 1..Len(got) /\ \A i \in DOMAIN got : got[i] \in ToSet(pool)
    BY <1>1, <1>3
  <1>6. G \subseteq ToSet(pool)
    BY <1>5 DEF ToSet
  <1>7. Tokens(G) <= ceiling
    BY <1>3
  <1>8. Cardinality({e.id : e \in G}) = Len(got)
    <2> DEFINE ids == {e.id : e \in G}
               f == [i \in 1..Len(got) |-> got[i].id]
    <2>1. \A d, e \in ToSet(pool) : d.id = e.id => d = e
      BY DEF ToSet
    <2>2. \A i \in 1..Len(got) : f[i] = got[i].id /\ got[i] \in G
      BY <1>5 DEF ToSet
    <2>3. \A i \in 1..Len(got) : f[i] \in ids
      BY <2>2
    <2>4. \A x \in ids : \E i \in 1..Len(got) : f[i] = x
      BY <1>5, <2>2 DEF ToSet
    <2>5. f \in [1..Len(got) -> ids]
      BY <2>3
    <2> HIDE DEF f, ids
    <2>6. \A i, j \in 1..Len(got) : f[i] = f[j] => i = j
      <3> SUFFICES ASSUME NEW i \in 1..Len(got), NEW j \in 1..Len(got), f[i] = f[j] PROVE i = j
        OBVIOUS
      <3>1. got[i].id = got[j].id /\ got[i] \in ToSet(pool) /\ got[j] \in ToSet(pool)
        BY <1>6, <2>2
      <3>2. got[i] = got[j]
        BY <2>1, <3>1
      <3> QED
        BY <1>3, <1>5, <3>2
    <2>7. f \in Surjection(1..Len(got), ids) /\ f \in Injection(1..Len(got), ids)
      BY <2>4, <2>5, <2>6 DEF Injection, IsInjective, Surjection
    <2>8. IsFiniteSet(1..Len(got)) /\ Cardinality(1..Len(got)) = Len(got)
      BY <1>5, FirstNumbers
    <2>9. Cardinality(ids) = Cardinality(1..Len(got))
      BY <2>7, <2>8, FS_Surjection
    <2> QED
      BY <2>8, <2>9 DEF ids
  <1>9. ASSUME NEW e \in ToSet(pool) \ G
        PROVE  e.size + Tokens({d \in G : Ahead(need, d, e)}) > ceiling
    <2>1. PICK j \in 1..N : e = ranked[j]
      BY <1>1, <1>4 DEF ToSet
    <2>2. \A i \in 1..N : i < j <=> i \in 1..(j - 1)
      BY <1>4
    <2>3. \A i \in 1..(j - 1) : i \in 1..N
      BY <1>4
    <2>4. \A d \in G : Ahead(need, d, e) <=> \E i \in 1..(j - 1) : d = ranked[i]
      <3> SUFFICES ASSUME NEW d \in G
                   PROVE  Ahead(need, d, e) <=> \E i \in 1..(j - 1) : d = ranked[i]
        OBVIOUS
      <3>1. PICK k \in 1..N : d = ranked[k]
        BY <1>3
      <3>2. Ahead(need, d, e) => k \in 1..(j - 1)
        BY <1>1, <2>1, <2>2, <3>1
      <3>3. \A i \in 1..(j - 1) : d = ranked[i] => Ahead(need, d, e)
        BY <1>1, <2>1, <2>2, <2>3
      <3> QED
        BY <3>1, <3>2, <3>3
    <2>5. {d \in G : Ahead(need, d, e)} = {d \in G : \E i \in 1..(j - 1) : d = ranked[i]}
      BY <2>4
    <2>6. ranked[j] \notin G
      BY <2>1
    <2> QED
      BY <1>3, <2>1, <2>5, <2>6
  <1> QED
    BY <1>6, <1>7, <1>8, <1>9 DEF Greedy, got, ranked

LEMMA CompileIsGreedy ==
    ASSUME ContextInv, Compile
    PROVE  PacketIsGreedy'
  <1> DEFINE blocked == IF build.role = "worker" THEN Narrative ELSE {}
             pool == candidate_pool(build.hot, build.semantic, blocked)
             got == pack(Ranked(pool, build.need), build.ceiling)
             G == ToSet(got)
  <1>1. packet'.elements = got /\ packet'.pool = pool
    BY DEF Compile
  <1>2. /\ build.hot \in Seq(ContextElement) /\ build.semantic \in Seq(ContextElement)
        /\ build.ceiling \in Nat /\ build.role \in {"planner", "worker"}
    BY DEF ContextInv, ContextTypeOK
  <1>3. /\ build'.need = build.need /\ build'.ceiling = build.ceiling /\ build'.hot = build.hot
    BY DEF Compile, ContextInv, ContextTypeOK
  <1>4. /\ \A i \in DOMAIN build.hot : build.hot[i].tier = "hot"
        /\ \A i \in DOMAIN build.semantic : build.semantic[i].tier = "semantic"
        /\ blocked = {} \/ build.semantic = <<>>
    BY <1>2 DEF ContextInv, TiersApart
  <1>5. /\ pool \in Seq(ContextElement)
        /\ \A i, j \in DOMAIN pool : pool[i].id = pool[j].id => i = j
        /\ \A i \in DOMAIN pool, j \in DOMAIN build.hot :
             pool[i].id = build.hot[j].id /\ build.hot[j].conf # 0 => pool[i].tier = "hot"
    <2> HIDE DEF blocked
    <2> QED
      BY <1>2, <1>4, PoolIsSound
  <1> HIDE DEF pool, blocked
  <1>6. /\ G \subseteq ToSet(pool)
        /\ Tokens(G) <= build.ceiling
        /\ Cardinality({e.id : e \in G}) = Len(got)
        /\ \A e \in ToSet(pool) \ G :
             e.size + Tokens({d \in G : Ahead(build.need, d, e)}) > build.ceiling
    <2>1. Greedy(got, pool, build.need, build.ceiling)
      BY <1>2, <1>5, SelectionIsGreedy
    <2> QED
      BY <2>1 DEF Greedy
  <1> HIDE DEF got
  <1>7. ASSUME NEW e \in G, NEW h \in ToSet(build.hot), e.id = h.id, h.conf > 0
        PROVE  e.tier = "hot"
    <2>1. PICK i \in DOMAIN pool : e = pool[i]
      BY <1>6 DEF ToSet
    <2>2. PICK j \in DOMAIN build.hot : h = build.hot[j]
      BY DEF ToSet
    <2>3. h.conf # 0
      <3>1. build.hot[j] \in ContextElement
        BY <1>2
      <3>2. build.hot[j].conf \in Nat
        BY <3>1 DEF ContextElement
      <3> QED
        BY <1>7, <2>2, <3>2
    <2> QED
      BY <1>5, <1>7, <2>1, <2>2, <2>3
  <1> HIDE DEF G
  <1>8. G = ToSet(packet'.elements) /\ Len(got) = Len(packet'.elements)
    BY <1>1 DEF G
  <1> QED
    BY <1>1, <1>3, <1>6, <1>7, <1>8 DEF PacketIsGreedy, Ahead

\* A query of rows yields elements of the hot tier.
LEMMA HotIsTyped ==
    ASSUME ContextInv, NEW matched \in SUBSET FactIds, ReadHot(matched)
    PROVE  /\ build'.hot \in Seq(ContextElement)
           /\ \A i \in DOMAIN build'.hot : build'.hot[i].tier = "hot"
  <1> DEFINE rows == {f \in matched : There(factRows, f)}
             R == {p \in rows \X rows :
                     \/ factRows[p[1]].imp > factRows[p[2]].imp
                     \/ factRows[p[1]].imp = factRows[p[2]].imp /\ p[1] < p[2]}
             ordered == InOrder(rows, R)
             kept == {i \in DOMAIN ordered :
                        /\ i <= Limit
                        /\ build.role = "worker" => factRows[ordered[i]].domain \notin Narrative}
             places == Ascending(kept)
             hot == [k \in DOMAIN places |-> HotElement(ordered[places[k]])]
  <1>1. \A f \in rows : f \in FactIds /\ f \in Nat /\ factRows[f] \in FactRow
    <2>1. FactIds \subseteq Nat
      BY ContextAssumption, Zenon
    <2> QED
      BY <2>1 DEF ContextInv, ContextTypeOK, There
  <1>2. IsFiniteSet(rows)
    <2>1. IsFiniteSet(FactIds)
      BY ContextAssumption, Zenon
    <2> QED
      BY <2>1, FS_Subset
  <1>3. build'.hot = hot
    BY DEF ReadHot, ContextInv, ContextTypeOK
  <1>4. \A f, g \in rows : <<f, g>> \in R <=>
           \/ factRows[f].imp > factRows[g].imp
           \/ factRows[f].imp = factRows[g].imp /\ f < g
    OBVIOUS
  <1>5. \A f \in rows : factRows[f].imp \in Nat
    BY <1>1 DEF FactRow
  <1> HIDE DEF rows, R
  <1>6. StrictOrder(rows, R)
    <2> DEFINE imp(f) == factRows[f].imp
    <2>1. \A f, g \in rows : <<f, g>> \in R <=> imp(f) > imp(g) \/ (imp(f) = imp(g) /\ f < g)
      BY <1>4
    <2>2. \A f \in rows : imp(f) \in Nat /\ f \in Nat
      BY <1>1, <1>5
    <2> HIDE DEF imp
    <2>3. \A x \in rows : <<x, x>> \notin R
      BY <2>1, <2>2
    <2>4. ASSUME NEW x \in rows, NEW y \in rows, NEW z \in rows, <<x, y>> \in R, <<y, z>> \in R
          PROVE  <<x, z>> \in R
      <3>1. imp(x) > imp(y) \/ (imp(x) = imp(y) /\ x < y)
        BY <2>1, <2>4
      <3>2. imp(y) > imp(z) \/ (imp(y) = imp(z) /\ y < z)
        BY <2>1, <2>4
      <3>3. imp(x) > imp(z) \/ (imp(x) = imp(z) /\ x < z)
        BY <2>2, <3>1, <3>2
      <3> QED
        BY <2>1, <3>3
    <2>5. ASSUME NEW x \in rows, NEW y \in rows, x # y PROVE <<x, y>> \in R \/ <<y, x>> \in R
      <3>1. \/ imp(x) > imp(y) \/ (imp(x) = imp(y) /\ x < y)
            \/ imp(y) > imp(x) \/ (imp(y) = imp(x) /\ y < x)
        BY <2>2, <2>5
      <3> QED
        BY <2>1, <3>1
    <2> QED
      BY <2>3, <2>4, <2>5 DEF StrictOrder
  <1> HIDE DEF ordered
  <1>7. ordered \in Seq(rows) /\ Len(ordered) \in Nat
    BY <1>2, <1>6, InOrderLists DEF ordered
  <1>8. DOMAIN ordered = 1..Len(ordered) /\ \A i \in DOMAIN ordered : ordered[i] \in rows
    BY <1>7
  <1>9. kept \in SUBSET Nat /\ IsFiniteSet(kept) /\ kept \subseteq DOMAIN ordered
    <2>1. IsFiniteSet(DOMAIN ordered)
      BY <1>7, <1>8, FirstNumbers
    <2>2. kept \subseteq DOMAIN ordered
      OBVIOUS
    <2>3. IsFiniteSet(kept)
      BY <2>1, <2>2, FS_Subset
    <2> QED
      BY <1>7, <1>8, <2>2, <2>3
  <1> HIDE DEF kept
  <1>10. places \in Seq(kept)
    BY <1>9, NumbersAscend
  <1> HIDE DEF places
  <1>11. \A k \in DOMAIN places : ordered[places[k]] \in rows
    <2>1. \A k \in DOMAIN places : places[k] \in kept
      BY <1>10
    <2> QED
      BY <1>8, <1>9, <2>1
  <1>12. \A f \in rows : HotElement(f) \in ContextElement /\ HotElement(f).tier = "hot"
    BY <1>1 DEF HotElement, ContextElement, FactRow
  <1>13. \A k \in DOMAIN places : hot[k] \in ContextElement /\ hot[k].tier = "hot"
    BY <1>11, <1>12
  <1>14. DOMAIN places = 1..Len(places) /\ Len(places) \in Nat
    BY <1>10
  <1>15. hot \in Seq(ContextElement) /\ DOMAIN hot = DOMAIN places
    <2>1. hot \in [1..Len(places) -> ContextElement] /\ DOMAIN hot = DOMAIN places
      BY <1>13, <1>14
    <2> HIDE DEF hot
    <2> QED
      BY <1>14, <2>1
  <1> HIDE DEF hot
  <1> QED
    BY <1>3, <1>13, <1>15

\* A search yields elements of the other tier, from the payloads it finds.
LEMMA VagueIsTyped ==
    ASSUME ContextInv, NEW found \in SUBSET FactIds, NEW rel \in [found -> {0, 1}],
           ReadSemantic(found, rel)
    PROVE  /\ build'.semantic \in Seq(ContextElement)
           /\ \A i \in DOMAIN build'.semantic : build'.semantic[i].tier = "semantic"
  <1> DEFINE s == Ascending(found)
             hits == [i \in DOMAIN s |-> Hit(s[i], rel[s[i]])]
  <1>1. build'.semantic = hits
    BY DEF ReadSemantic, ContextInv, ContextTypeOK
  <1>2. found \in SUBSET Nat /\ IsFiniteSet(found)
    <2>1. FactIds \subseteq Nat /\ IsFiniteSet(FactIds)
      BY ContextAssumption, Zenon
    <2> QED
      BY <2>1, FS_Subset
  <1>3. s \in Seq(found)
    BY <1>2, NumbersAscend
  <1>4. \A f \in found : f \in FactIds /\ embedded[f] \in Payload /\ rel[f] \in Nat
    BY DEF ContextInv, ContextTypeOK, ReadSemantic, There
  <1>5. \A f \in found : Hit(f, rel[f]) \in ContextElement /\ Hit(f, rel[f]).tier = "semantic"
    BY <1>4 DEF Hit, ContextElement, Payload
  <1> HIDE DEF s
  <1>6. \A i \in DOMAIN s : hits[i] \in ContextElement /\ hits[i].tier = "semantic"
    BY <1>3, <1>5
  <1>7. DOMAIN s = 1..Len(s) /\ Len(s) \in Nat
    BY <1>3
  <1>8. hits \in Seq(ContextElement) /\ DOMAIN hits = DOMAIN s
    <2>1. hits \in [1..Len(s) -> ContextElement] /\ DOMAIN hits = DOMAIN s
      BY <1>6, <1>7
    <2> HIDE DEF hits
    <2> QED
      BY <1>7, <2>1
  <1> HIDE DEF hits
  <1> QED
    BY <1>1, <1>6, <1>8

LEMMA ContextInitially == ContextInit => ContextInv
  <1> SUFFICES ASSUME ContextInit PROVE ContextInv
    OBVIOUS
  <1>1. Kinds \subseteq FactRow
    BY ContextAssumption, Zenon DEF FactRow
  <1>2. factRows \in [FactIds -> FactRow \union {Gone}]
    BY <1>1 DEF ContextInit
  <1>3. embedded \in [FactIds -> Payload \union {Gone}]
    BY DEF ContextInit
  <1>4. build = Idle
    BY DEF ContextInit
  <1>5. ContextTypeOK
    BY <1>2, <1>3, <1>4 DEF ContextTypeOK, Idle
  <1>6. TiersApart /\ OnePacket
    BY <1>4 DEF TiersApart, OnePacket, Idle
  <1>7. PacketIsGreedy
    BY DEF ContextInit, PacketIsGreedy, Compiled
  <1> QED
    BY <1>5, <1>6, <1>7 DEF ContextInv

\* Rows and points change only while there is no packet.
LEMMA ChangeKeeps ==
    ASSUME ContextInv, packet = NoPacket, UNCHANGED <<build, packet>>,
           factRows' \in [FactIds -> FactRow \union {Gone}],
           embedded' \in [FactIds -> Payload \union {Gone}]
    PROVE  ContextInv'
  <1>1. ContextTypeOK' /\ TiersApart' /\ OnePacket'
    BY DEF ContextInv, ContextTypeOK, TiersApart, OnePacket, NoPacket
  <1>2. PacketIsGreedy'
    <2>1. ~Compiled'
      BY DEF Compiled, NoPacket
    <2> QED
      BY <2>1 DEF PacketIsGreedy
  <1> QED
    BY <1>1, <1>2 DEF ContextInv

\* A build that is under way holds no packet yet.
LEMMA BuildKeeps ==
    ASSUME ContextInv, ContextTypeOK', TiersApart', packet' = NoPacket
    PROVE  ContextInv'
  <1>1. PacketIsGreedy'
    <2>1. ~Compiled'
      BY DEF Compiled, NoPacket
    <2> QED
      BY <2>1 DEF PacketIsGreedy
  <1>2. OnePacket'
    BY DEF OnePacket, NoPacket
  <1> QED
    BY <1>1, <1>2 DEF ContextInv

LEMMA ContextSteps == ContextInv /\ [ContextNext]_contextVars => ContextInv'
  <1> SUFFICES ASSUME ContextInv, [ContextNext]_contextVars PROVE ContextInv'
    OBVIOUS
  <1>0. /\ factRows \in [FactIds -> FactRow \union {Gone}]
        /\ embedded \in [FactIds -> Payload \union {Gone}]
    BY DEF ContextInv, ContextTypeOK
  <1>1. ASSUME NEW f \in FactIds, Decay(f) PROVE ContextInv'
    <2> DEFINE row == [factRows[f] EXCEPT !.conf = @ - 1]
    <2>1. factRows[f] \in FactRow /\ factRows[f].conf \in Nat /\ factRows[f].conf > 0
      BY <1>0, <1>1 DEF Decay, There, FactRow
    <2>2. row \in FactRow
      <3>1. factRows[f].conf - 1 \in Nat
        BY <2>1
      <3> QED
        BY <2>1, <3>1 DEF FactRow
    <2> HIDE DEF row
    <2>3. factRows' = [factRows EXCEPT ![f] = row]
      BY <1>0, <1>1 DEF Decay, Change, row
    <2>4. factRows' \in [FactIds -> FactRow \union {Gone}]
      BY <1>0, <2>2, <2>3
    <2>5. packet = NoPacket /\ UNCHANGED <<build, packet>> /\ UNCHANGED embedded
      BY <1>1 DEF Decay, Change
    <2> QED
      BY <1>0, <2>4, <2>5, ChangeKeeps
  <1>2. ASSUME NEW f \in FactIds, Retire(f) PROVE ContextInv'
    <2>1. factRows' = [factRows EXCEPT ![f] = Gone]
      BY <1>2 DEF Retire, Change
    <2>2. factRows' \in [FactIds -> FactRow \union {Gone}]
      BY <1>0, <2>1
    <2>3. packet = NoPacket /\ UNCHANGED <<build, packet>> /\ UNCHANGED embedded
      BY <1>2 DEF Retire, Change
    <2> QED
      BY <1>0, <2>2, <2>3, ChangeKeeps
  <1>3. ASSUME NEW f \in FactIds, Enqueue(f) PROVE ContextInv'
    <2> DEFINE point == [slot |-> factRows[f].slot, domain |-> factRows[f].domain]
    <2>1. factRows[f] \in FactRow
      BY <1>0, <1>3 DEF Enqueue, There
    <2>2. point \in Payload
      BY <2>1 DEF FactRow, Payload
    <2> HIDE DEF point
    <2>3. embedded' = [embedded EXCEPT ![f] = point]
      BY <1>3 DEF Enqueue, point
    <2>4. embedded' \in [FactIds -> Payload \union {Gone}]
      BY <1>0, <2>2, <2>3
    <2>5. packet = NoPacket /\ UNCHANGED <<build, packet>> /\ factRows' = factRows
      BY <1>3 DEF Enqueue, Change
    <2> QED
      BY <1>0, <2>4, <2>5, ChangeKeeps
  <1>4. ASSUME NEW role \in {"planner", "worker"}, NEW need \in Needs, NEW p \in Profiles,
               StartBuild(role, need, p)
        PROVE  ContextInv'
    <2>1. planner_ceiling(p) \in Nat /\ worker_ceiling(p) \in Nat
      <3>1. Profiles \subseteq Nat /\ PlannerCap \in Nat /\ WorkerDefault \in Nat
        BY ContextAssumption, Zenon
      <3> QED
        BY <3>1 DEF planner_ceiling, worker_ceiling
    <2> DEFINE c == IF role = "planner" THEN planner_ceiling(p) ELSE worker_ceiling(p)
    <2>2. c \in Nat
      BY <2>1
    <2>3. packet = NoPacket /\ packet' = NoPacket /\ UNCHANGED <<factRows, embedded>>
          /\ build' = [Idle EXCEPT !.pc = "hot", !.role = role, !.need = need, !.ceiling = c]
      BY <1>4 DEF StartBuild
    <2> HIDE DEF c
    <2>4. build' = [pc |-> "hot", role |-> role, need |-> need, ceiling |-> c,
                    hot |-> <<>>, semantic |-> <<>>, seenRows |-> factRows]
      BY <2>3 DEF Idle
    <2>5. ContextTypeOK'
      <3> DEFINE AllRows == [FactIds -> FactRow \union {Gone}]
                 Elements == Seq(ContextElement)
                 Sets == Needs \union {{}}
      <3>1. factRows \in AllRows /\ <<>> \in Elements /\ need \in Sets
        BY <1>0
      <3> HIDE DEF AllRows, Elements, Sets
      <3>2. build' \in [pc : {"idle", "hot", "semantic", "pack"}, role : {"planner", "worker"},
                        need : Sets, ceiling : Nat, hot : Elements, semantic : Elements,
                        seenRows : AllRows]
        BY <2>2, <2>4, <3>1
      <3> QED
        BY <1>0, <2>3, <3>2 DEF ContextTypeOK, AllRows, Elements, Sets
    <2>6. TiersApart'
      BY <2>4 DEF TiersApart
    <2> QED
      BY <2>3, <2>5, <2>6, BuildKeeps
  <1>5. ASSUME NEW matched \in SUBSET FactIds, ReadHot(matched) PROVE ContextInv'
    <2>1. /\ build'.hot \in Seq(ContextElement)
          /\ \A i \in DOMAIN build'.hot : build'.hot[i].tier = "hot"
      BY <1>5, HotIsTyped
    <2> DEFINE hot == build'.hot
               pc == IF build.role = "planner" THEN "semantic" ELSE "pack"
    <2>2. build.pc = "hot" /\ UNCHANGED <<factRows, embedded, packet>>
      BY <1>5 DEF ReadHot
    <2>3. build' = [build EXCEPT !.seenRows = factRows, !.pc = pc, !.hot = hot]
      BY <1>5 DEF ReadHot, ContextInv, ContextTypeOK
    <2> HIDE DEF hot
    <2>4. ContextTypeOK'
      BY <1>0, <2>1, <2>2, <2>3 DEF ContextTypeOK, ContextInv, hot
    <2>5. TiersApart'
      BY <2>1, <2>2, <2>3 DEF TiersApart, ContextInv, ContextTypeOK, hot
    <2>6. packet' = NoPacket
      BY <2>2 DEF ContextInv, OnePacket
    <2> QED
      BY <2>4, <2>5, <2>6, BuildKeeps
  <1>6. ASSUME NEW found \in SUBSET FactIds, NEW rel \in [found -> {0, 1}], ReadSemantic(found, rel)
        PROVE  ContextInv'
    <2>1. /\ build'.semantic \in Seq(ContextElement)
          /\ \A i \in DOMAIN build'.semantic : build'.semantic[i].tier = "semantic"
      BY <1>6, VagueIsTyped
    <2> DEFINE vague == build'.semantic
    <2>2. build.pc = "semantic" /\ UNCHANGED <<factRows, embedded, packet>>
      BY <1>6 DEF ReadSemantic
    <2>3. build' = [build EXCEPT !.pc = "pack", !.semantic = vague]
      BY <1>6 DEF ReadSemantic, ContextInv, ContextTypeOK
    <2> HIDE DEF vague
    <2>4. ContextTypeOK'
      BY <1>0, <2>1, <2>2, <2>3 DEF ContextTypeOK, ContextInv, vague
    <2>5. TiersApart'
      BY <2>1, <2>2, <2>3 DEF TiersApart, ContextInv, ContextTypeOK, vague
    <2>6. packet' = NoPacket
      BY <2>2 DEF ContextInv, OnePacket
    <2> QED
      BY <2>4, <2>5, <2>6, BuildKeeps
  <1>7. CASE Compile
    <2>1. PacketIsGreedy'
      BY <1>7, CompileIsGreedy
    <2>2. build' = [build EXCEPT !.pc = "idle"] /\ UNCHANGED <<factRows, embedded>>
      BY <1>7 DEF Compile
    <2>3. ContextTypeOK' /\ TiersApart' /\ OnePacket'
      BY <1>0, <2>2 DEF ContextInv, ContextTypeOK, TiersApart, OnePacket
    <2> QED
      BY <2>1, <2>3 DEF ContextInv
  <1>8. CASE UNCHANGED contextVars
    BY <1>8 DEF contextVars, ContextInv, ContextTypeOK, TiersApart, OnePacket, PacketIsGreedy, Compiled
  <1> QED
    BY <1>1, <1>2, <1>3, <1>4, <1>5, <1>6, <1>7, <1>8 DEF ContextNext

\* Whatever rows and points a build meets, and whatever changes between its
\* reads, the packet keeps the ceiling, holds no fact twice, leaves out only
\* what does not fit behind better candidates, and carries the row's copy of a
\* fact that passed the floor: gatherer.gather_for_task.
THEOREM PacketsAreGreedy == ContextSpec => []PacketIsGreedy
  <1>1. ContextInit => ContextInv
    BY ContextInitially
  <1>2. ContextInv /\ [ContextNext]_contextVars => ContextInv'
    BY ContextSteps
  <1>3. ContextInv => PacketIsGreedy
    BY DEF ContextInv
  <1> QED
    BY <1>1, <1>2, <1>3, PTL DEF ContextSpec

-----------------------------------------------------------------------------
(* Entities: what ingests learn about one *)

EntitySpec == EntityInit /\ [][EntityNext]_entityVars

AnyName == Spellings \union {CHOOSE s \in Spellings : TRUE}
EntityRow == [name : AnyName, aliases : SUBSET AnyName, weight : Nat]

EntityTypeOK ==
    /\ entity \in [DOMAIN entity -> EntityRow] /\ DOMAIN entity \subseteq RowIds
    /\ ingest \in [Ingests -> [pc : {"idle", "lock", "write"}, name : AnyName,
                               aliases : SUBSET AnyName, weight : Nat, row : RowIds \union {NoRow},
                               had : SUBSET AnyName]]
    /\ writing \subseteq Ingests

\* Names are compared in lower case, and each has one row.
OneRowPerName == \A i, j \in DOMAIN entity : Fold[entity[i].name] = Fold[entity[j].name] => i = j

\* Between its read and its write an ingest is alone under the lock.
OneWriter ==
    /\ \A a \in Ingests : ingest[a].pc = "write" => a \in writing
    /\ \A a, b \in writing : a = b

\* What an ingest read is what the table still says when it writes.
ReadStillHolds(g) ==
    IF g.row = NoRow THEN \A i \in DOMAIN entity : Fold[entity[i].name] # Fold[g.name]
    ELSE /\ g.row \in DOMAIN entity /\ Fold[entity[g.row].name] = Fold[g.name]
         /\ g.had = entity[g.row].aliases

EntityInv ==
    /\ EntityTypeOK /\ OneRowPerName /\ OneWriter
    /\ \A a \in Ingests : ingest[a].pc = "write" => ReadStillHolds(ingest[a])

\* What a step may do to what is known.
Grows ==
    /\ \A i \in DOMAIN entity :
         /\ i \in DOMAIN entity'
         /\ Folded(entity[i].aliases) \subseteq Folded(entity'[i].aliases)
         /\ entity[i].weight <= entity'[i].weight
    /\ \A i, j \in DOMAIN entity' :
         Fold[entity'[i].name] = Fold[entity'[j].name] => i = j

\* The lookup by name returns the row of that name, or none.
LEMMA NamedIsItsRow ==
    ASSUME EntityInv, NEW n
    PROVE  IF Named(n) = NoRow THEN \A i \in DOMAIN entity : Fold[entity[i].name] # Fold[n]
           ELSE Named(n) \in DOMAIN entity /\ Fold[entity[Named(n)].name] = Fold[n]
  <1> DEFINE S == {i \in DOMAIN entity : Fold[entity[i].name] = Fold[n]}
  <1>1. RowIds \subseteq Nat \ {0}
    BY EntitiesAssumption
  <1>2. S \in SUBSET Nat /\ 0 \notin S
    BY <1>1 DEF EntityInv, EntityTypeOK
  <1>3. Named(n) = IF S = {} THEN 0 ELSE Min(S)
    BY DEF Named, Lowest, NoRow
  <1>4. CASE S = {}
    BY <1>3, <1>4 DEF NoRow
  <1>5. CASE S # {}
    <2> HIDE DEF S
    <2>1. \E m \in S : \A k \in S : m <= k
      BY <1>2, <1>5, LeastNumber
    <2>2. Min(S) \in S
      BY <2>1 DEF Min
    <2>3. Named(n) \in S /\ Named(n) # NoRow
      BY <1>2, <1>3, <1>5, <2>2 DEF NoRow
    <2> QED
      BY <2>3 DEF S
  <1> QED
    BY <1>4, <1>5

LEMMA RestingIsTyped ==
    Resting \in [pc : {"idle", "lock", "write"}, name : AnyName,
                 aliases : SUBSET AnyName, weight : Nat, row : RowIds \union {NoRow},
                 had : SUBSET AnyName]
  BY DEF Resting, AnyName

\* A write ends with the ingest at rest and the lock free.
LEMMA DoneKeeps ==
    ASSUME Store = "sqlite", EntityInv, NEW a \in Ingests, ingest[a].pc = "write", Done(a)
    PROVE  /\ ingest' \in [Ingests -> [pc : {"idle", "lock", "write"}, name : AnyName,
                               aliases : SUBSET AnyName, weight : Nat, row : RowIds \union {NoRow},
                               had : SUBSET AnyName]]
           /\ writing' \subseteq Ingests /\ OneWriter'
           /\ \A b \in Ingests : ingest'[b].pc # "write"
  <1>1. ingest' = [ingest EXCEPT ![a] = Resting] /\ writing' = writing \ {a}
    BY DEF Done
  <1>2. /\ ingest \in [Ingests -> [pc : {"idle", "lock", "write"}, name : AnyName,
                               aliases : SUBSET AnyName, weight : Nat, row : RowIds \union {NoRow},
                               had : SUBSET AnyName]]
        /\ writing \subseteq Ingests
    BY DEF EntityInv, EntityTypeOK
  <1>3. ingest' \in [Ingests -> [pc : {"idle", "lock", "write"}, name : AnyName,
                               aliases : SUBSET AnyName, weight : Nat, row : RowIds \union {NoRow},
                               had : SUBSET AnyName]]
    BY <1>1, <1>2, RestingIsTyped
  <1>4. Resting.pc = "idle"
    BY DEF Resting
  <1>5. \A b \in Ingests : b # a => ingest'[b] = ingest[b]
    BY <1>1, <1>2
  <1>6. ingest'[a] = Resting
    BY <1>1, <1>2
  <1>7. \A b \in Ingests : b # a => ingest[b].pc # "write"
    BY DEF EntityInv, OneWriter
  <1>8. \A b \in Ingests : ingest'[b].pc # "write"
    BY <1>4, <1>5, <1>6, <1>7
  <1>9. \A b, c \in writing' : b = c
    BY <1>1 DEF EntityInv, OneWriter
  <1> QED
    BY <1>1, <1>2, <1>3, <1>8, <1>9 DEF OneWriter

LEMMA EntityInitially == EntityInit => EntityInv
  <1> SUFFICES ASSUME EntityInit PROVE EntityInv
    OBVIOUS
  <1>1. DOMAIN entity = {}
    BY DEF EntityInit
  <1>2. ingest = [a \in Ingests |-> Resting] /\ writing = {}
    BY DEF EntityInit
  <1>3. \A a \in Ingests : ingest[a].pc = "idle"
    BY <1>2 DEF Resting
  <1>4. EntityTypeOK
    <2>1. entity \in [DOMAIN entity -> EntityRow]
      BY <1>1 DEF EntityInit
    <2>2. ingest \in [Ingests -> [pc : {"idle", "lock", "write"}, name : AnyName,
                               aliases : SUBSET AnyName, weight : Nat, row : RowIds \union {NoRow},
                               had : SUBSET AnyName]]
      BY <1>2, RestingIsTyped
    <2> QED
      BY <1>1, <1>2, <2>1, <2>2 DEF EntityTypeOK
  <1> QED
    BY <1>1, <1>2, <1>3, <1>4 DEF EntityInv, OneRowPerName, OneWriter

LEMMA EntitySteps ==
    ASSUME Store = "sqlite"
    PROVE  EntityInv /\ [EntityNext]_entityVars => EntityInv' /\ (UNCHANGED entity \/ Grows)
  <1> DEFINE Kept == EntityInv' /\ (UNCHANGED entity \/ Grows)
             Ingest == [pc : {"idle", "lock", "write"}, name : AnyName,
                               aliases : SUBSET AnyName, weight : Nat, row : RowIds \union {NoRow},
                               had : SUBSET AnyName]
  <1> SUFFICES ASSUME EntityInv, [EntityNext]_entityVars PROVE Kept
    OBVIOUS
  <1>0. /\ entity \in [DOMAIN entity -> EntityRow] /\ DOMAIN entity \subseteq RowIds
        /\ ingest \in [Ingests -> Ingest] /\ writing \subseteq Ingests
    BY DEF EntityInv, EntityTypeOK
  <1>1. ASSUME NEW a \in Ingests, NEW n \in Spellings,
               NEW aliases \in {{}} \union {{s} : s \in Spellings},
               NEW w \in {1, 2}, NEW always \in BOOLEAN, Begin(a, n, aliases, w, always)
        PROVE  Kept
    <2> DEFINE g == [Resting EXCEPT !.pc = "lock", !.name = n, !.aliases = aliases, !.weight = w]
    <2>1. ingest[a].pc = "idle" /\ ingest' = [ingest EXCEPT ![a] = g] /\ UNCHANGED <<entity, writing>>
      BY <1>1 DEF Begin
    <2>2. g \in Ingest /\ g.pc = "lock"
      <3>1. n \in AnyName /\ aliases \in SUBSET AnyName /\ w \in Nat
        BY DEF AnyName
      <3> QED
        BY <3>1, RestingIsTyped DEF Resting
    <2> HIDE DEF g, Ingest
    <2>3. /\ ingest' \in [Ingests -> Ingest] /\ ingest'[a] = g
          /\ \A b \in Ingests : b # a => ingest'[b] = ingest[b]
      BY <1>0, <2>1, <2>2
    <2>4. EntityTypeOK'
      BY <1>0, <2>1, <2>3 DEF EntityTypeOK, Ingest
    <2>5. \A b \in Ingests : ingest'[b].pc = "write" => ingest'[b] = ingest[b] /\ ingest[b].pc = "write"
      BY <2>2, <2>3
    <2>6. OneRowPerName' /\ OneWriter'
      BY <2>1, <2>5 DEF EntityInv, OneRowPerName, OneWriter
    <2>7. \A b \in Ingests : ingest'[b].pc = "write" => ReadStillHolds(ingest[b])'
      <3> SUFFICES ASSUME NEW b \in Ingests, ingest'[b].pc = "write" PROVE ReadStillHolds(ingest[b])'
        OBVIOUS
      <3>1. ReadStillHolds(ingest[b]) /\ ingest'[b] = ingest[b]
        BY <2>5 DEF EntityInv
      <3> QED
        BY <2>1, <3>1 DEF ReadStillHolds
    <2> QED
      BY <2>1, <2>4, <2>6, <2>7 DEF EntityInv
  <1>2. ASSUME NEW a \in Ingests, ReadRow(a) PROVE Kept
    <2> DEFINE old == ingest[a]
               i == Named(old.name)
               had == IF i = NoRow THEN {} ELSE entity[i].aliases
               g == [old EXCEPT !.pc = "write", !.row = i, !.had = had]
    <2>1. /\ old.pc = "lock" /\ writing = {} /\ writing' = writing \union {a} /\ UNCHANGED <<entity, begun>>
          /\ ingest' = [ingest EXCEPT ![a].pc = "write", ![a].row = i, ![a].had = had]
      BY <1>2 DEF ReadRow, CanBegin
    <2>2. old \in Ingest
      BY <1>0
    <2>3. IF i = NoRow THEN \A j \in DOMAIN entity : Fold[entity[j].name] # Fold[old.name]
          ELSE i \in DOMAIN entity /\ Fold[entity[i].name] = Fold[old.name]
      <3> HIDE DEF old
      <3> QED
        BY NamedIsItsRow
    <2>4. ingest' = [ingest EXCEPT ![a] = g]
      BY <1>0, <2>1, <2>2
    <2> HIDE DEF old, i
    <2>5. i \in RowIds \union {NoRow} /\ had \in SUBSET AnyName
      BY <1>0, <2>3 DEF EntityRow
    <2> HIDE DEF had
    <2>6. g \in Ingest /\ g.pc = "write" /\ g.row = i /\ g.had = had /\ g.name = old.name
      BY <2>2, <2>5
    <2> HIDE DEF g, Ingest
    <2>7. /\ ingest' \in [Ingests -> Ingest] /\ ingest'[a] = g
          /\ \A b \in Ingests : b # a => ingest'[b] = ingest[b]
      BY <1>0, <2>4, <2>6
    <2>8. EntityTypeOK'
      BY <1>0, <2>1, <2>7 DEF EntityTypeOK, Ingest
    <2>9. \A b \in Ingests : b # a => ingest'[b].pc # "write"
      BY <2>1, <2>7 DEF EntityInv, OneWriter
    <2>10. OneRowPerName' /\ OneWriter'
      BY <2>1, <2>9 DEF EntityInv, OneRowPerName, OneWriter
    <2>11. ReadStillHolds(ingest[a])'
      <3>1. ingest'[a].row = i /\ ingest'[a].had = had /\ ingest'[a].name = old.name
        BY <2>6, <2>7
      <3> QED
        BY <2>1, <2>3, <3>1 DEF ReadStillHolds, had
    <2>12. \A b \in Ingests : ingest'[b].pc = "write" => ReadStillHolds(ingest[b])'
      <3> SUFFICES ASSUME NEW b \in Ingests, ingest'[b].pc = "write" PROVE ReadStillHolds(ingest[b])'
        OBVIOUS
      <3>1. b = a
        BY <2>9
      <3> QED
        BY <2>11, <3>1
    <2> QED
      BY <2>1, <2>8, <2>10, <2>12 DEF EntityInv
  <1>3. ASSUME NEW a \in Ingests, NEW i \in RowIds, InsertRow(a, i) PROVE Kept
    <2> DEFINE g == ingest[a]
               row == [name |-> g.name, weight |-> g.weight,
                       aliases |-> clean_aliases({}, g.aliases, g.name)]
    <2>1. g.pc = "write" /\ g.row = NoRow /\ i \notin DOMAIN entity /\ Done(a)
      BY <1>3 DEF InsertRow
    <2>2. \A j \in DOMAIN entity : Fold[entity[j].name] # Fold[g.name]
      BY <2>1 DEF EntityInv, ReadStillHolds
    <2>3. entity' = [j \in DOMAIN entity \union {i} |-> IF j = i THEN row ELSE entity[j]]
      BY <1>3, <2>2 DEF InsertRow
    <2>4. row \in EntityRow /\ row.name = g.name
      BY <1>0 DEF EntityRow, clean_aliases
    <2> HIDE DEF row, g
    <2>5. /\ DOMAIN entity' = DOMAIN entity \union {i} /\ entity'[i] = row
          /\ \A j \in DOMAIN entity : entity'[j] = entity[j]
      BY <2>1, <2>3
    <2>6. entity' \in [DOMAIN entity' -> EntityRow] /\ DOMAIN entity' \subseteq RowIds
      BY <1>0, <2>3, <2>4, <2>5
    <2>7. OneRowPerName'
      <3> SUFFICES ASSUME NEW j \in DOMAIN entity', NEW k \in DOMAIN entity',
                          Fold[entity'[j].name] = Fold[entity'[k].name]
                   PROVE  j = k
        BY DEF OneRowPerName
      <3>1. CASE j \in DOMAIN entity /\ k \in DOMAIN entity
        BY <2>5, <3>1 DEF EntityInv, OneRowPerName
      <3>2. CASE j = i /\ k \in DOMAIN entity
        BY <2>2, <2>4, <2>5, <3>2
      <3>3. CASE k = i /\ j \in DOMAIN entity
        BY <2>2, <2>4, <2>5, <3>3
      <3> QED
        BY <2>5, <3>1, <3>2, <3>3
    <2>8. /\ ingest' \in [Ingests -> Ingest] /\ writing' \subseteq Ingests /\ OneWriter'
          /\ \A b \in Ingests : ingest'[b].pc # "write"
      BY <2>1, DoneKeeps DEF g
    <2>9. EntityTypeOK'
      BY <2>6, <2>8 DEF EntityTypeOK
    <2>10. Grows
      <3>1. \A j \in DOMAIN entity : entity[j].weight \in Nat
        BY <1>0 DEF EntityRow
      <3>2. \A j \in DOMAIN entity : j \in DOMAIN entity' /\ entity'[j] = entity[j]
        BY <2>5
      <3>3. \A j \in DOMAIN entity : entity[j].weight <= entity'[j].weight
        BY <3>1, <3>2
      <3> QED
        BY <2>7, <3>2, <3>3 DEF Grows, OneRowPerName
    <2> QED
      BY <2>7, <2>8, <2>9, <2>10 DEF EntityInv
  <1>4. ASSUME NEW a \in Ingests, UpdateRow(a) PROVE Kept
    <2> DEFINE g == ingest[a]
               i == g.row
               old == entity[i]
               aliases == clean_aliases(g.had, g.aliases, g.name)
               weight == Max({old.weight, g.weight})
               new == [old EXCEPT !.aliases = aliases, !.weight = weight]
    <2>1. g.pc = "write" /\ i # NoRow /\ Done(a)
          /\ entity' = [entity EXCEPT ![i].aliases = aliases, ![i].weight = Max({@, g.weight})]
      BY <1>4 DEF UpdateRow
    <2>2. i \in DOMAIN entity /\ g.had = old.aliases
      BY <2>1 DEF EntityInv, ReadStillHolds
    <2>3. old \in EntityRow /\ g \in Ingest
      BY <1>0, <2>2
    <2>4. old.weight \in Nat /\ g.weight \in Nat
      BY <2>3 DEF EntityRow
    <2>5. weight \in Nat /\ old.weight <= weight
      <3> DEFINE x == old.weight
                 y == g.weight
      <3>1. x \in Nat /\ y \in Nat
        BY <2>4
      <3> HIDE DEF x, y
      <3>2. \E m \in {x, y} : \A k \in {x, y} : m >= k
        BY <3>1
      <3>3. Max({x, y}) \in {x, y} /\ \A k \in {x, y} : Max({x, y}) >= k
        BY <3>2 DEF Max
      <3>4. Max({x, y}) \in Nat /\ x <= Max({x, y})
        BY <3>1, <3>3
      <3> QED
        BY <3>4 DEF x, y
    <2>6. aliases \in SUBSET AnyName /\ old.aliases \subseteq aliases
      BY <2>2, <2>3 DEF clean_aliases, EntityRow
    <2>7. entity' = [entity EXCEPT ![i] = new]
      BY <1>0, <2>1, <2>2, <2>3 DEF EntityRow
    <2> HIDE DEF aliases, weight
    <2>8. new \in EntityRow /\ new.name = old.name /\ new.aliases = aliases /\ new.weight = weight
      BY <2>3, <2>5, <2>6 DEF EntityRow
    <2> HIDE DEF new, g, i
    <2>9. /\ DOMAIN entity' = DOMAIN entity /\ entity'[i] = new
          /\ \A j \in DOMAIN entity : j # i => entity'[j] = entity[j]
      BY <2>2, <2>7
    <2>10. entity' \in [DOMAIN entity' -> EntityRow] /\ DOMAIN entity' \subseteq RowIds
      BY <1>0, <2>7, <2>8, <2>9
    <2>11. \A j \in DOMAIN entity : entity'[j].name = entity[j].name
      BY <2>8, <2>9
    <2>12. OneRowPerName'
      BY <2>9, <2>11 DEF EntityInv, OneRowPerName
    <2>13. /\ ingest' \in [Ingests -> Ingest] /\ writing' \subseteq Ingests /\ OneWriter'
           /\ \A b \in Ingests : ingest'[b].pc # "write"
      BY <2>1, DoneKeeps DEF g
    <2>14. EntityTypeOK'
      BY <2>10, <2>13 DEF EntityTypeOK
    <2>15. \A j \in DOMAIN entity : /\ entity[j].aliases \subseteq entity'[j].aliases
                                    /\ entity[j].weight <= entity'[j].weight
      <3> SUFFICES ASSUME NEW j \in DOMAIN entity
                   PROVE  /\ entity[j].aliases \subseteq entity'[j].aliases
                          /\ entity[j].weight <= entity'[j].weight
        OBVIOUS
      <3>1. CASE j = i
        BY <2>5, <2>6, <2>8, <2>9, <3>1
      <3>2. CASE j # i
        <4>1. entity[j].weight \in Nat /\ entity'[j] = entity[j]
          BY <1>0, <2>9, <3>2 DEF EntityRow
        <4> QED
          BY <4>1
      <3> QED
        BY <3>1, <3>2
    <2>16. \A j \in DOMAIN entity : Folded(entity[j].aliases) \subseteq Folded(entity'[j].aliases)
      BY <2>15 DEF Folded
    <2>17. Grows
      BY <2>9, <2>12, <2>15, <2>16 DEF Grows, OneRowPerName
    <2> QED
      BY <2>12, <2>13, <2>14, <2>17 DEF EntityInv
  <1>5. CASE UNCHANGED entityVars
    <2>1. UNCHANGED <<entity, ingest, writing>>
      BY <1>5 DEF entityVars
    <2>2. EntityTypeOK' /\ OneRowPerName' /\ OneWriter'
      BY <2>1 DEF EntityInv, EntityTypeOK, OneRowPerName, OneWriter
    <2>3. \A b \in Ingests : ingest'[b].pc = "write" => ReadStillHolds(ingest[b])'
      BY <2>1 DEF EntityInv, ReadStillHolds
    <2> QED
      BY <2>1, <2>2, <2>3 DEF EntityInv
  <1> QED
    BY <1>1, <1>2, <1>3, <1>4, <1>5 DEF EntityNext

\* On SQLite, for any ingests, spellings and resemblances: no alias is forgotten
\* and no weight lowered, and a name never gets a second row, because an upsert
\* reads and writes under the write lock: resolution.py.
THEOREM KnowledgeAlwaysGrows == Store = "sqlite" => (EntitySpec => KnowledgeGrows)
  <1> SUFFICES ASSUME Store = "sqlite" PROVE EntitySpec => KnowledgeGrows
    OBVIOUS
  <1>1. EntityInit => EntityInv
    BY EntityInitially
  <1>2. EntityInv /\ [EntityNext]_entityVars => EntityInv'
    BY EntitySteps
  <1>3. EntityInv /\ [EntityNext]_entityVars =>
        [/\ \A i \in DOMAIN entity :
              /\ i \in DOMAIN entity'
              /\ Folded(entity[i].aliases) \subseteq Folded(entity'[i].aliases)
              /\ entity[i].weight <= entity'[i].weight
         /\ \A i, j \in DOMAIN entity' :
              Fold[entity'[i].name] = Fold[entity'[j].name] => i = j]_entity
    BY EntitySteps DEF Grows
  <1> QED
    BY <1>1, <1>2, <1>3, PTL DEF EntitySpec, KnowledgeGrows

-----------------------------------------------------------------------------
(* Telemetry: the record of runs *)

TelemetrySpec == TelemetryInit /\ [][TelemetryNext]_telemetryVars

RunRow ==
    [corr : Correlations, skill : SkillNames, started : Nat, ended : BOOLEAN, code : {0, Omitted}]

StatsType ==
    [pc : {"idle", "corrections", "done"}, skill : SkillNames \union {""},
     sample : Nat, successes : Nat, correlations : Nat, corrected : Nat, disturbed : BOOLEAN]

TelemetryTypeOK ==
    /\ runs \in [DOMAIN runs -> RunRow] /\ DOMAIN runs \subseteq used /\ IsFiniteSet(DOMAIN runs)
    /\ day \in Nat
    /\ finishing \in [Finishers -> [pc : {"idle"}] \union
                                   [pc : {"update"}, trace : Traces, code : {0, Omitted}]]
    /\ stats \in StatsType

\* What the first statement counted still stands while nobody disturbed the table.
StatsCount ==
    /\ stats.successes <= stats.sample /\ stats.correlations <= stats.sample
    /\ stats.pc = "corrections" /\ ~stats.disturbed =>
          stats.correlations = Cardinality(CorrelationsOf(Finished(stats.skill)))
    /\ stats.pc = "done" /\ ~stats.disturbed => stats.corrected <= stats.correlations

TelemetryInv == TelemetryTypeOK /\ StatsCount

\* No run that was started goes before it reported, and no report is withdrawn.
RunStands(t) ==
    IF t \in DOMAIN runs'
    THEN /\ is_finished(runs[t]) => is_finished(runs'[t])
         /\ runs[t].code # Omitted => runs'[t].code # Omitted
         /\ runs[t].corr = runs'[t].corr /\ runs[t].skill = runs'[t].skill
    ELSE is_finished(runs[t])

\* Runs have at most as many correlations as there are runs.
LEMMA CorrelationsCount ==
    ASSUME NEW ts, IsFiniteSet(ts)
    PROVE  /\ IsFiniteSet(CorrelationsOf(ts)) /\ Cardinality(CorrelationsOf(ts)) \in Nat
           /\ Cardinality(CorrelationsOf(ts)) <= Cardinality(ts)
  <1> DEFINE f == [t \in ts |-> runs[t].corr]
  <1>1. f \in Surjection(ts, CorrelationsOf(ts))
    BY DEF Surjection, CorrelationsOf
  <1> HIDE DEF f
  <1> QED
    BY <1>1, FS_Surjection, FS_CardinalityType

LEMMA FinishedIsFinite ==
    ASSUME TelemetryTypeOK, NEW s
    PROVE  IsFiniteSet(Finished(s))
  <1>1. Finished(s) \subseteq DOMAIN runs /\ IsFiniteSet(DOMAIN runs)
    BY DEF Finished, TelemetryTypeOK
  <1> QED
    BY <1>1, FS_Subset

LEMMA NothingCounted == NoStats \in StatsType
  BY DEF NoStats, StatsType

LEMMA TelemetryInitially == TelemetryInit => TelemetryInv
  <1> SUFFICES ASSUME TelemetryInit PROVE TelemetryInv
    OBVIOUS
  <1>1. DOMAIN runs = {}
    BY DEF TelemetryInit
  <1>2. runs \in [DOMAIN runs -> RunRow] /\ IsFiniteSet(DOMAIN runs)
    BY <1>1, FS_EmptySet DEF TelemetryInit
  <1>3. finishing \in [Finishers -> [pc : {"idle"}] \union
                                   [pc : {"update"}, trace : Traces, code : {0, Omitted}]]
    <2>1. [pc |-> "idle"] \in [pc : {"idle"}]
      OBVIOUS
    <2> QED
      BY <2>1 DEF TelemetryInit
  <1>4. TelemetryTypeOK
    <2>1. DOMAIN runs \subseteq used
      BY <1>1
    <2>2. day \in Nat /\ stats \in StatsType
      BY NothingCounted DEF TelemetryInit
    <2> QED
      BY <1>2, <1>3, <2>1, <2>2, Zenon DEF TelemetryTypeOK
  <1>5. StatsCount
    <2>1. stats.pc = "idle" /\ stats.sample = 0 /\ stats.successes = 0 /\ stats.correlations = 0
      BY DEF TelemetryInit, NoStats
    <2> QED
      BY <2>1 DEF StatsCount
  <1> QED
    BY <1>4, <1>5 DEF TelemetryInv

\* The table changed while the aggregate was being read.
LEMMA DisturbKeeps ==
    ASSUME TelemetryInv, Disturb
    PROVE  /\ StatsCount'
           /\ stats' \in StatsType
  <1>1. stats' = [stats EXCEPT !.disturbed = stats.disturbed \/ stats.pc = "corrections"]
    BY DEF Disturb, TelemetryInv, TelemetryTypeOK
  <1>2. stats \in StatsType
    BY DEF TelemetryInv, TelemetryTypeOK
  <1>3. /\ stats'.pc = stats.pc /\ stats'.sample = stats.sample /\ stats'.successes = stats.successes
        /\ stats'.correlations = stats.correlations /\ stats'.corrected = stats.corrected
        /\ stats'.disturbed = (stats.disturbed \/ stats.pc = "corrections")
    BY <1>1, <1>2 DEF StatsType
  <1> QED
    BY <1>1, <1>2, <1>3 DEF StatsCount, TelemetryInv, StatsType

\* A step that leaves the runs and the reading alone.
LEMMA QuietKeeps ==
    ASSUME TelemetryInv, UNCHANGED <<runs, stats>>
    PROVE  StatsCount' /\ \A t \in DOMAIN runs : RunStands(t)
  <1>1. \A s : Finished(s)' = Finished(s)
    BY DEF Finished, is_finished
  <1>2. CorrelationsOf(Finished(stats.skill))' = CorrelationsOf(Finished(stats.skill))
    BY <1>1 DEF CorrelationsOf
  <1> QED
    BY <1>2 DEF TelemetryInv, StatsCount, RunStands

LEMMA TelemetrySteps ==
    TelemetryInv /\ [TelemetryNext]_telemetryVars
        => TelemetryInv' /\ \A t \in DOMAIN runs : RunStands(t)
  <1> DEFINE Kept == TelemetryInv' /\ \A t \in DOMAIN runs : RunStands(t)
  <1> SUFFICES ASSUME TelemetryInv, [TelemetryNext]_telemetryVars PROVE Kept
    OBVIOUS
  <1>0. /\ runs \in [DOMAIN runs -> RunRow] /\ DOMAIN runs \subseteq used /\ IsFiniteSet(DOMAIN runs)
        /\ day \in Nat
        /\ finishing \in [Finishers -> [pc : {"idle"}] \union
                                   [pc : {"update"}, trace : Traces, code : {0, Omitted}]]
        /\ stats \in StatsType
    BY DEF TelemetryInv, TelemetryTypeOK
  <1>1. ASSUME NEW t \in Traces, NEW c \in Correlations, NEW s \in SkillNames, start_run(t, c, s)
        PROVE  Kept
    <2> DEFINE row == [corr |-> c, skill |-> s, started |-> day, ended |-> FALSE, code |-> Omitted]
    <2>1. /\ t \notin DOMAIN runs /\ used' = used \union {t}
          /\ runs' = [x \in DOMAIN runs \union {t} |-> IF x = t THEN row ELSE runs[x]]
          /\ UNCHANGED <<day, corrections, finishing, stats>>
      BY <1>0, <1>1 DEF start_run
    <2>2. row \in RunRow /\ ~is_finished(row)
      BY <1>0 DEF RunRow, is_finished
    <2> HIDE DEF row
    <2>3. /\ DOMAIN runs' = DOMAIN runs \union {t} /\ runs'[t] = row
          /\ \A x \in DOMAIN runs : runs'[x] = runs[x]
      BY <2>1
    <2>4. runs' \in [DOMAIN runs' -> RunRow] /\ DOMAIN runs' \subseteq used'
      BY <1>0, <2>1, <2>2, <2>3
    <2>5. IsFiniteSet(DOMAIN runs')
      <3>1. IsFiniteSet(DOMAIN runs \union {t})
        BY <1>0, FS_AddElement
      <3> QED
        BY <2>3, <3>1
    <2>6. TelemetryTypeOK'
      BY <1>0, <2>1, <2>4, <2>5 DEF TelemetryTypeOK
    <2>7. \A k : Finished(k)' = Finished(k)
      BY <2>2, <2>3 DEF Finished
    <2>8. \A ts \in SUBSET DOMAIN runs : CorrelationsOf(ts)' = CorrelationsOf(ts)
      BY <2>3 DEF CorrelationsOf
    <2>9. Finished(stats.skill) \subseteq DOMAIN runs
      BY DEF Finished
    <2>10. CorrelationsOf(Finished(stats.skill))' = CorrelationsOf(Finished(stats.skill))
      <3>1. Finished(stats.skill)' = Finished(stats.skill)
        BY <2>1, <2>7
      <3>2. \A x \in Finished(stats.skill) : runs'[x] = runs[x]
        BY <2>3, <2>9
      <3> QED
        BY <3>1, <3>2 DEF CorrelationsOf
    <2>11. StatsCount'
      BY <2>1, <2>10 DEF TelemetryInv, StatsCount
    <2>12. \A x \in DOMAIN runs : RunStands(x)
      BY <2>3 DEF RunStands
    <2> QED
      BY <2>6, <2>11, <2>12 DEF TelemetryInv
  <1>2. ASSUME NEW f \in Finishers, NEW t \in Traces, NEW code \in {0, Omitted}, FinishReads(f, t, code)
        PROVE  Kept
    <2>1. UNCHANGED <<runs, used, day, corrections, stats>>
      BY <1>2 DEF FinishReads
    <2>2. finishing' \in [Finishers -> [pc : {"idle"}] \union
                                   [pc : {"update"}, trace : Traces, code : {0, Omitted}]]
      BY <1>0, <1>2 DEF FinishReads
    <2>3. TelemetryTypeOK'
      BY <1>0, <2>1, <2>2 DEF TelemetryTypeOK
    <2> QED
      BY <2>1, <2>3, QuietKeeps DEF TelemetryInv
  <1>3. ASSUME NEW f \in Finishers, FinishUpdates(f)
        PROVE  Kept
    <2> DEFINE g == finishing[f]
               old == runs[g.trace]
               new == [old EXCEPT !.ended = TRUE, !.code = IF g.code = Omitted THEN old.code ELSE g.code]
    <2>1. g.pc = "update" /\ Disturb /\ UNCHANGED <<used, day, corrections>>
          /\ finishing' = [finishing EXCEPT ![f] = [pc |-> "idle"]]
      BY <1>3 DEF FinishUpdates
    <2>2. g \in [pc : {"update"}, trace : Traces, code : {0, Omitted}]
      BY <1>0, <2>1
    <2>3. finishing' \in [Finishers -> [pc : {"idle"}] \union
                                   [pc : {"update"}, trace : Traces, code : {0, Omitted}]]
      BY <1>0, <2>1
    <2>4. /\ StatsCount'
          /\ stats' \in StatsType
      BY <2>1, DisturbKeeps
    <2>5. CASE g.trace \notin DOMAIN runs
      <3>1. runs' = runs
        BY <1>3, <2>5 DEF FinishUpdates
      <3>2. TelemetryTypeOK'
        BY <1>0, <2>1, <2>3, <2>4, <3>1 DEF TelemetryTypeOK
      <3> QED
        BY <2>4, <3>1, <3>2 DEF TelemetryInv, RunStands
    <2>6. CASE g.trace \in DOMAIN runs
      <3>1. old \in RunRow
        BY <1>0, <2>6
      <3>2. /\ new \in RunRow /\ is_finished(new) /\ new.corr = old.corr /\ new.skill = old.skill
            /\ old.code # Omitted => new.code # Omitted
        BY <2>2, <3>1 DEF RunRow, is_finished
      <3>3. runs' = [runs EXCEPT ![g.trace] = new]
        BY <1>0, <1>3, <2>6, <3>1 DEF FinishUpdates, RunRow
      <3> HIDE DEF new, g
      <3>4. DOMAIN runs' = DOMAIN runs /\ runs'[g.trace] = new
            /\ \A x \in DOMAIN runs : x # g.trace => runs'[x] = runs[x]
        BY <1>0, <2>6, <3>3
      <3>5. runs' \in [DOMAIN runs' -> RunRow]
        BY <1>0, <3>2, <3>3, <3>4
      <3>6. TelemetryTypeOK'
        BY <1>0, <2>1, <2>3, <2>4, <3>4, <3>5 DEF TelemetryTypeOK
      <3>7. \A x \in DOMAIN runs : RunStands(x)
        BY <3>2, <3>4 DEF RunStands
      <3> QED
        BY <2>4, <3>6, <3>7 DEF TelemetryInv
    <2> QED
      BY <2>5, <2>6
  <1>4. ASSUME NEW cutoff \in 1..(MaxDay + 1), purge_older_than(cutoff)
        PROVE  Kept
    <2> DEFINE left == {x \in DOMAIN runs : ~(runs[x].started < cutoff /\ is_finished(runs[x]))}
    <2>1. runs' = [x \in left |-> runs[x]] /\ Disturb /\ UNCHANGED <<used, day, corrections, finishing>>
      BY <1>4 DEF purge_older_than
    <2>2. /\ StatsCount'
          /\ stats' \in StatsType
      BY <2>1, DisturbKeeps
    <2>3. left \subseteq DOMAIN runs /\ \A x \in DOMAIN runs : x \notin left => is_finished(runs[x])
      OBVIOUS
    <2> HIDE DEF left
    <2>4. IsFiniteSet(left)
      BY <1>0, <2>3, FS_Subset
    <2>5. DOMAIN runs' = left /\ \A x \in left : runs'[x] = runs[x]
      BY <2>1
    <2>6. runs' \in [DOMAIN runs' -> RunRow]
      BY <1>0, <2>1, <2>3, <2>5
    <2>7. TelemetryTypeOK'
      BY <1>0, <2>1, <2>2, <2>3, <2>4, <2>5, <2>6 DEF TelemetryTypeOK
    <2>8. \A x \in DOMAIN runs : RunStands(x)
      BY <2>3, <2>5 DEF RunStands
    <2> QED
      BY <2>2, <2>7, <2>8 DEF TelemetryInv
  <1>5. ASSUME NEW s \in SkillNames, ReadAggregate(s)
        PROVE  Kept
    <2> DEFINE done == Finished(s)
               good == {t \in done : status(runs[t]) = "OK"}
    <2>1. UNCHANGED <<runs, used, day, corrections, finishing>>
      BY <1>5 DEF ReadAggregate
    <2>2. IsFiniteSet(done)
      BY FinishedIsFinite DEF TelemetryInv
    <2>3. /\ Cardinality(done) \in Nat /\ Cardinality(good) \in Nat
          /\ Cardinality(good) <= Cardinality(done)
          /\ Cardinality(CorrelationsOf(done)) \in Nat
          /\ Cardinality(CorrelationsOf(done)) <= Cardinality(done)
      <3>1. good \subseteq done
        OBVIOUS
      <3> HIDE DEF good, done
      <3> QED
        BY <2>2, <3>1, FS_Subset, FS_CardinalityType, CorrelationsCount
    <2>4. CASE done = {}
      <3>1. stats' = [NoStats EXCEPT !.pc = "done", !.skill = s]
        BY <1>5, <2>4 DEF ReadAggregate
      <3>2. stats' = [pc |-> "done", skill |-> s, sample |-> 0, successes |-> 0,
                      correlations |-> 0, corrected |-> 0, disturbed |-> FALSE]
        BY <3>1 DEF NoStats
      <3>3. TelemetryTypeOK'
        BY <1>0, <2>1, <3>2 DEF TelemetryTypeOK, StatsType
      <3>4. StatsCount'
        BY <3>2 DEF StatsCount
      <3> QED
        BY <2>1, <3>3, <3>4 DEF TelemetryInv, RunStands
    <2>5. CASE done # {}
      <3>1. stats' = [pc |-> "corrections", skill |-> s, sample |-> Cardinality(done),
                      successes |-> Cardinality(good), correlations |-> Cardinality(CorrelationsOf(done)),
                      corrected |-> 0, disturbed |-> FALSE]
        BY <1>5, <2>5 DEF ReadAggregate
      <3>3. (Cardinality(CorrelationsOf(Finished(stats.skill))))' = Cardinality(CorrelationsOf(done))
        BY <2>1, <3>1 DEF CorrelationsOf, Finished
      <3> HIDE DEF done, good
      <3>4. TelemetryTypeOK'
        BY <1>0, <2>1, <2>3, <3>1 DEF TelemetryTypeOK, StatsType
      <3>5. StatsCount'
        BY <2>3, <3>1, <3>3 DEF StatsCount
      <3> QED
        BY <2>1, <3>4, <3>5 DEF TelemetryInv, RunStands
    <2> QED
      BY <2>4, <2>5
  <1>6. CASE ReadCorrections
    <2> DEFINE all == CorrelationsOf(Finished(stats.skill))
               bad == corrections \intersect all
    <2>1. /\ stats.pc = "corrections" /\ UNCHANGED <<runs, used, day, corrections, finishing>>
          /\ stats' = [stats EXCEPT !.pc = "done", !.corrected = Cardinality(bad)]
      BY <1>6 DEF ReadCorrections
    <2>2. IsFiniteSet(all) /\ Cardinality(all) \in Nat
      BY FinishedIsFinite, CorrelationsCount DEF TelemetryInv
    <2>3. Cardinality(bad) \in Nat /\ Cardinality(bad) <= Cardinality(all)
      <3>1. bad \subseteq all
        OBVIOUS
      <3> HIDE DEF all, bad
      <3> QED
        BY <2>2, <3>1, FS_Subset, FS_CardinalityType
    <2>4. ~stats.disturbed => stats.correlations = Cardinality(all)
      BY <2>1 DEF TelemetryInv, StatsCount
    <2> HIDE DEF all, bad
    <2>5. TelemetryTypeOK'
      BY <1>0, <2>1, <2>3 DEF TelemetryTypeOK, StatsType
    <2>6. /\ stats'.pc = "done" /\ stats'.sample = stats.sample /\ stats'.successes = stats.successes
          /\ stats'.correlations = stats.correlations /\ stats'.corrected = Cardinality(bad)
          /\ stats'.disturbed = stats.disturbed
      BY <1>0, <2>1 DEF StatsType
    <2>7. StatsCount'
      BY <2>3, <2>4, <2>6 DEF StatsCount, TelemetryInv
    <2> QED
      BY <2>1, <2>5, <2>7 DEF TelemetryInv, RunStands
  <1>7. ASSUME NEW c \in Correlations, Correct(c) PROVE Kept
    <2>1. UNCHANGED <<runs, used, day, finishing, stats>>
      BY <1>7 DEF Correct
    <2>2. TelemetryTypeOK'
      BY <1>0, <2>1 DEF TelemetryTypeOK
    <2> QED
      BY <2>1, <2>2, QuietKeeps DEF TelemetryInv
  <1>8. CASE NextDay
    <2>1. UNCHANGED <<runs, used, finishing, stats>> /\ day' \in Nat
      <3>1. day' = day + 1
        BY <1>8 DEF NextDay
      <3>2. day' \in Nat
        BY <1>0, <3>1
      <3> QED
        BY <1>8, <3>2 DEF NextDay
    <2>2. TelemetryTypeOK'
      BY <1>0, <2>1 DEF TelemetryTypeOK
    <2> QED
      BY <2>1, <2>2, QuietKeeps DEF TelemetryInv
  <1>9. CASE UNCHANGED telemetryVars
    <2>1. UNCHANGED <<runs, used, day, finishing, stats>>
      BY <1>9 DEF telemetryVars
    <2>2. TelemetryTypeOK'
      BY <1>0, <2>1 DEF TelemetryTypeOK
    <2> QED
      BY <2>1, <2>2, QuietKeeps DEF TelemetryInv
  <1> QED
    BY <1>1, <1>2, <1>3, <1>4, <1>5, <1>6, <1>7, <1>8, <1>9 DEF TelemetryNext

\* Whatever finishes, sweeps, corrections and readings interleave, and however
\* many: a run that was started stays on record until it has reported, a known
\* exit code is never lost, and a skill's shares are shares: telemetry.py.
THEOREM RunsAreAlwaysEvidence == TelemetrySpec => RunsAreEvidence
  <1>1. TelemetryInit => TelemetryInv
    BY TelemetryInitially
  <1>2. TelemetryInv /\ [TelemetryNext]_telemetryVars => TelemetryInv'
    BY TelemetrySteps
  <1>3. TelemetryInv => SharesAreShares
    BY DEF TelemetryInv, TelemetryTypeOK, StatsCount, SharesAreShares
  <1>4. TelemetryInv /\ [TelemetryNext]_telemetryVars =>
        [\A t \in DOMAIN runs :
            IF t \in DOMAIN runs'
            THEN /\ is_finished(runs[t]) => is_finished(runs'[t])
                 /\ runs[t].code # Omitted => runs'[t].code # Omitted
                 /\ runs[t].corr = runs'[t].corr /\ runs[t].skill = runs'[t].skill
            ELSE is_finished(runs[t])]_telemetryVars
    BY TelemetrySteps DEF RunStands
  <1> QED
    BY <1>1, <1>2, <1>3, <1>4, PTL DEF TelemetrySpec, RunsAreEvidence

-----------------------------------------------------------------------------
(* Observability: spans, and what is measured *)

ObserveSpec == ObserveInit /\ [][TraceNext \/ MeasureNext]_observeVars

SpanType ==
    [trace : Nat, parent : Nat, opener : TraceTasks, status : {"UNSET", "OK", "ERROR"}]

SpanTypeOK ==
    /\ enabled \in BOOLEAN /\ spans \in Seq(SpanType)
    /\ context \in [TraceTasks -> [live : BOOLEAN, inherited : Nat, open : Seq(Nat)]]

\* A task has only spans of its own open, and was created under one that is there.
TasksOwnTheirSpans ==
    /\ \A t \in TraceTasks : context[t].inherited <= Len(spans)
    /\ \A t \in TraceTasks : \A i \in 1..Len(context[t].open) :
          context[t].open[i] \in 1..Len(spans) /\ spans[context[t].open[i]].opener = t
    /\ \A i \in 1..Len(spans) : context[spans[i].opener].live

SpanInv == SpanTypeOK /\ TasksOwnTheirSpans /\ SpansNest

LEMMA CurrentIsThere ==
    ASSUME SpanInv, NEW t \in TraceTasks
    PROVE  LET p == current_span(t) IN
           /\ p \in Nat /\ p <= Len(spans)
           /\ p # NoSpan => spans[p].opener = t \/ p = context[t].inherited
  <1> DEFINE open == context[t].open
  <1>1. /\ open \in Seq(Nat) /\ context[t].inherited \in Nat /\ context[t].inherited <= Len(spans)
        /\ \A i \in 1..Len(open) : open[i] \in 1..Len(spans) /\ spans[open[i]].opener = t
    BY DEF SpanInv, SpanTypeOK, TasksOwnTheirSpans
  <1>2. Len(spans) \in Nat
    BY DEF SpanInv, SpanTypeOK
  <1>3. CASE open = <<>>
    BY <1>1, <1>3 DEF current_span
  <1>4. CASE open # <<>>
    <2>1. Len(open) \in 1..Len(open)
      BY <1>1, <1>4
    <2>2. current_span(t) = open[Len(open)]
      BY <1>4 DEF current_span, Last
    <2> QED
      BY <1>1, <1>2, <2>1, <2>2
  <1> QED
    BY <1>3, <1>4

LEMMA SpawnNests ==
    ASSUME SpanInv, NEW t \in TraceTasks, NEW u \in TraceTasks, Spawn(t, u)
    PROVE  SpanInv'
  <1> DEFINE p == current_span(t)
             new == [live |-> TRUE, inherited |-> p, open |-> <<>>]
  <1>1. p \in Nat /\ p <= Len(spans)
    BY CurrentIsThere
  <1>2. /\ ~context[u].live /\ context' = [context EXCEPT ![u] = new]
        /\ UNCHANGED <<enabled, spans>>
    BY DEF Spawn
  <1> HIDE DEF p
  <1>3. context \in [TraceTasks -> [live : BOOLEAN, inherited : Nat, open : Seq(Nat)]]
    BY DEF SpanInv, SpanTypeOK
  <1>4. new \in [live : BOOLEAN, inherited : Nat, open : Seq(Nat)]
    BY <1>1
  <1>5. /\ \A s \in TraceTasks : s # u => context'[s] = context[s]
        /\ context'[u] = new
    BY <1>2, <1>3
  <1>6. SpanTypeOK'
    BY <1>2, <1>3, <1>4 DEF SpanInv, SpanTypeOK
  <1>7. \A i \in 1..Len(spans) : spans[i].opener \in TraceTasks /\ spans[i].opener # u
    <2> SUFFICES ASSUME NEW i \in 1..Len(spans) PROVE spans[i].opener \in TraceTasks /\ spans[i].opener # u
      OBVIOUS
    <2>1. spans[i] \in SpanType
      BY DEF SpanInv, SpanTypeOK
    <2>2. context[spans[i].opener].live
      BY DEF SpanInv, TasksOwnTheirSpans
    <2> QED
      BY <1>2, <2>1, <2>2 DEF SpanType
  <1>8. TasksOwnTheirSpans'
    <2>1. \A s \in TraceTasks : context'[s].inherited <= Len(spans)
      BY <1>1, <1>5 DEF SpanInv, TasksOwnTheirSpans
    <2>2. ASSUME NEW s \in TraceTasks, NEW i \in 1..Len(context'[s].open)
          PROVE  context'[s].open[i] \in 1..Len(spans) /\ spans[context'[s].open[i]].opener = s
      <3>1. s # u
        BY <1>5, <2>2
      <3> QED
        BY <1>5, <2>2, <3>1 DEF SpanInv, TasksOwnTheirSpans
    <2>3. \A i \in 1..Len(spans) : context'[spans[i].opener].live
      BY <1>5, <1>7 DEF SpanInv, TasksOwnTheirSpans
    <2> QED
      BY <1>2, <2>1, <2>2, <2>3 DEF TasksOwnTheirSpans
  <1>9. SpansNest'
    <2>1. \A i \in 1..Len(spans) : context'[spans[i].opener].inherited = context[spans[i].opener].inherited
      BY <1>5, <1>7
    <2> QED
      BY <1>2, <2>1 DEF SpanInv, SpansNest
  <1> QED
    BY <1>6, <1>8, <1>9 DEF SpanInv

LEMMA BeginSpanNests ==
    ASSUME SpanInv, NEW t \in TraceTasks, BeginSpan(t)
    PROVE  SpanInv'
  <1> DEFINE p == current_span(t)
             n == Len(spans)
             id == n + 1
             new == [trace |-> TraceOf(p, id), parent |-> p, opener |-> t, status |-> "UNSET"]
             open == context[t].open
  <1>1. /\ p \in Nat /\ p <= n
        /\ p # NoSpan => spans[p].opener = t \/ p = context[t].inherited
    BY CurrentIsThere
  <1>2. /\ context[t].live /\ spans' = Append(spans, new) /\ enabled' = enabled
        /\ context' = [context EXCEPT ![t].open = Append(open, id)]
    BY DEF BeginSpan
  <1>3. /\ context \in [TraceTasks -> [live : BOOLEAN, inherited : Nat, open : Seq(Nat)]]
        /\ spans \in Seq(SpanType) /\ n \in Nat
    BY DEF SpanInv, SpanTypeOK
  <1>4. p # NoSpan => p \in 1..n
    BY <1>1, <1>3 DEF NoSpan
  <1>5. \A i \in 1..n : spans[i] \in SpanType
    BY <1>3
  <1>6. TraceOf(p, id) \in Nat
    BY <1>3, <1>4, <1>5 DEF TraceOf, SpanType
  <1> HIDE DEF p
  <1>7. new \in SpanType
    BY <1>1, <1>6 DEF SpanType
  <1>8. /\ spans' \in Seq(SpanType) /\ Len(spans') = id /\ spans'[id] = new
        /\ \A i \in 1..n : spans'[i] = spans[i]
    BY <1>2, <1>3, <1>7
  <1>9. open \in Seq(Nat) /\ Len(open) \in Nat
    BY <1>3
  <1> DEFINE more == Append(open, id)
  <1>10. /\ more \in Seq(Nat) /\ Len(more) = Len(open) + 1 /\ more[Len(open) + 1] = id
         /\ \A i \in 1..Len(open) : more[i] = open[i]
    BY <1>3, <1>9
  <1> HIDE DEF more
  <1>11. /\ context' \in [TraceTasks -> [live : BOOLEAN, inherited : Nat, open : Seq(Nat)]]
         /\ \A s \in TraceTasks : /\ context'[s].live = context[s].live
                                  /\ context'[s].inherited = context[s].inherited
                                  /\ s # t => context'[s].open = context[s].open
         /\ context'[t].open = more
    BY <1>2, <1>3, <1>10 DEF more
  <1>12. SpanTypeOK'
    BY <1>2, <1>8, <1>11 DEF SpanInv, SpanTypeOK
  <1>13. \A i \in 1..id : i \in 1..n \/ i = id
    BY <1>3
  <1>14. 1..n \subseteq 1..id /\ id \in 1..id
    BY <1>3
  <1>15. \A i \in 1..n : spans[i].opener \in TraceTasks
    BY <1>5 DEF SpanType
  <1>16. TasksOwnTheirSpans'
    <2>1. ASSUME NEW s \in TraceTasks PROVE context'[s].inherited <= id
      <3>1. context[s].inherited <= n /\ context[s].inherited \in Nat
        BY <1>3 DEF SpanInv, TasksOwnTheirSpans
      <3> QED
        BY <1>3, <1>11, <3>1
    <2>2. ASSUME NEW s \in TraceTasks, NEW i \in 1..Len(context'[s].open)
          PROVE  context'[s].open[i] \in 1..id /\ spans'[context'[s].open[i]].opener = s
      <3>1. CASE s = t /\ i = Len(open) + 1
        BY <1>8, <1>10, <1>11, <1>14, <3>1
      <3>2. CASE ~(s = t /\ i = Len(open) + 1)
        <4>1. i \in 1..Len(context[s].open) /\ context'[s].open[i] = context[s].open[i]
          <5>1. CASE s = t
            <6>1. i \in 1..Len(more) /\ i # Len(open) + 1
              BY <1>11, <3>2, <5>1
            <6>2. i \in 1..Len(open)
              BY <1>9, <1>10, <6>1
            <6> QED
              BY <1>10, <1>11, <5>1, <6>2
          <5>2. CASE s # t
            BY <1>11, <5>2
          <5> QED
            BY <5>1, <5>2
        <4>2. context[s].open[i] \in 1..n /\ spans[context[s].open[i]].opener = s
          BY <4>1 DEF SpanInv, TasksOwnTheirSpans
        <4> QED
          BY <1>8, <1>14, <4>1, <4>2
      <3> QED
        BY <3>1, <3>2
    <2>3. \A i \in 1..id : context'[spans'[i].opener].live
      <3>1. context'[spans'[id].opener].live
        BY <1>2, <1>8, <1>11
      <3>2. \A i \in 1..n : context'[spans'[i].opener].live
        BY <1>8, <1>11, <1>15 DEF SpanInv, TasksOwnTheirSpans
      <3> QED
        BY <1>13, <3>1, <3>2
    <2> QED
      BY <1>8, <2>1, <2>2, <2>3 DEF TasksOwnTheirSpans
  <1>17. SpansNest'
    <2> DEFINE Nests(ss, cc, i) ==
                 LET q == ss[i].parent IN
                 q # NoSpan => /\ q < i /\ ss[q].trace = ss[i].trace
                               /\ ss[q].opener = ss[i].opener \/ q = cc[ss[i].opener].inherited
    <2>1. ASSUME NEW i \in 1..n PROVE Nests(spans', context', i)
      <3>1. Nests(spans, context, i)
        BY DEF SpanInv, SpansNest
      <3>2. spans[i].parent \in Nat
        BY <1>5 DEF SpanType
      <3>3. spans[i].parent # NoSpan => spans[i].parent \in 1..n
        BY <1>3, <3>1, <3>2 DEF NoSpan
      <3> QED
        BY <1>8, <1>11, <1>15, <3>1, <3>3
    <2>2. Nests(spans', context', id)
      <3>1. CASE p = NoSpan
        BY <1>8, <3>1
      <3>2. CASE p # NoSpan
        <4>1. p \in 1..n /\ p < id /\ spans'[p] = spans[p]
          BY <1>3, <1>4, <1>8, <3>2
        <4>2. spans[p].trace = new.trace
          BY <3>2 DEF TraceOf
        <4> QED
          BY <1>1, <1>8, <1>11, <3>2, <4>1, <4>2
      <3> QED
        BY <3>1, <3>2
    <2>3. \A i \in 1..id : Nests(spans', context', i)
      BY <1>13, <2>1, <2>2
    <2> QED
      BY <1>8, <2>3 DEF SpansNest
  <1> QED
    BY <1>12, <1>16, <1>17 DEF SpanInv

LEMMA FinishNests ==
    ASSUME SpanInv, NEW t \in TraceTasks, NEW status_ \in {"OK", "ERROR"}, NEW v, Finish(t, status_, v)
    PROVE  SpanInv'
  <1> DEFINE open == context[t].open
             id == open[Len(open)]
             fewer == Front(open)
  <1>1. /\ open # <<>> /\ spans' = [spans EXCEPT ![id].status = status_]
        /\ context' = [context EXCEPT ![t].open = fewer] /\ enabled' = enabled
    BY DEF Finish, Last
  <1>2. /\ context \in [TraceTasks -> [live : BOOLEAN, inherited : Nat, open : Seq(Nat)]]
        /\ spans \in Seq(SpanType) /\ open \in Seq(Nat)
    BY DEF SpanInv, SpanTypeOK
  <1>3. id \in 1..Len(spans)
    <2>1. Len(open) \in 1..Len(open)
      BY <1>1, <1>2
    <2> QED
      BY <2>1 DEF SpanInv, TasksOwnTheirSpans
  <1>4. /\ fewer \in Seq(Nat) /\ Len(fewer) = Len(open) - 1
        /\ \A i \in 1..Len(fewer) : i \in 1..Len(open) /\ fewer[i] = open[i]
    BY <1>1, <1>2 DEF Front
  <1> HIDE DEF fewer
  <1>5. /\ context' \in [TraceTasks -> [live : BOOLEAN, inherited : Nat, open : Seq(Nat)]]
        /\ \A s \in TraceTasks : /\ context'[s].live = context[s].live
                                 /\ context'[s].inherited = context[s].inherited
                                 /\ s # t => context'[s].open = context[s].open
        /\ context'[t].open = fewer
    BY <1>1, <1>2, <1>4
  <1>6. \A i \in 1..Len(spans) : spans[i] \in SpanType
    BY <1>2
  <1>7. /\ Len(spans') = Len(spans) /\ spans' \in Seq(SpanType)
        /\ \A i \in 1..Len(spans) : /\ spans'[i].trace = spans[i].trace /\ spans'[i].parent = spans[i].parent
                                    /\ spans'[i].opener = spans[i].opener
    <2> DEFINE done == [spans[id] EXCEPT !.status = status_]
    <2>1. done \in SpanType /\ done.trace = spans[id].trace /\ done.parent = spans[id].parent
          /\ done.opener = spans[id].opener
      BY <1>3, <1>6 DEF SpanType
    <2>2. spans' = [spans EXCEPT ![id] = done]
      BY <1>1
    <2> HIDE DEF done, id
    <2> QED
      BY <1>2, <1>3, <2>1, <2>2
  <1>8. \A i \in 1..Len(spans) : spans[i].opener \in TraceTasks /\ spans[i].parent \in Nat
    BY <1>6 DEF SpanType
  <1>9. SpanTypeOK'
    BY <1>1, <1>5, <1>7 DEF SpanInv, SpanTypeOK
  <1>10. TasksOwnTheirSpans'
    <2>1. \A s \in TraceTasks : context'[s].inherited <= Len(spans)
      BY <1>5 DEF SpanInv, TasksOwnTheirSpans
    <2>2. ASSUME NEW s \in TraceTasks, NEW i \in 1..Len(context'[s].open)
          PROVE  context'[s].open[i] \in 1..Len(spans) /\ spans'[context'[s].open[i]].opener = s
      <3>1. i \in 1..Len(context[s].open) /\ context'[s].open[i] = context[s].open[i]
        BY <1>4, <1>5, <2>2
      <3>2. context[s].open[i] \in 1..Len(spans) /\ spans[context[s].open[i]].opener = s
        BY <3>1 DEF SpanInv, TasksOwnTheirSpans
      <3> QED
        BY <1>7, <3>1, <3>2
    <2>3. \A i \in 1..Len(spans) : context'[spans'[i].opener].live
      BY <1>5, <1>7, <1>8 DEF SpanInv, TasksOwnTheirSpans
    <2> QED
      BY <1>7, <2>1, <2>2, <2>3 DEF TasksOwnTheirSpans
  <1>11. SpansNest'
    <2> SUFFICES ASSUME NEW i \in 1..Len(spans), spans[i].parent # NoSpan
                 PROVE  LET q == spans[i].parent IN
                        /\ q < i /\ spans'[q].trace = spans'[i].trace
                        /\ \/ spans'[q].opener = spans'[i].opener
                           \/ q = context'[spans'[i].opener].inherited
      BY <1>7 DEF SpansNest
    <2> DEFINE q == spans[i].parent
    <2>1. /\ q < i /\ spans[q].trace = spans[i].trace
          /\ spans[q].opener = spans[i].opener \/ q = context[spans[i].opener].inherited
      BY DEF SpanInv, SpansNest
    <2>2. q \in 1..Len(spans)
      BY <1>8, <2>1 DEF NoSpan
    <2> QED
      BY <1>5, <1>7, <1>8, <2>1, <2>2
  <1> QED
    BY <1>9, <1>10, <1>11 DEF SpanInv

LEMMA BoundsOfTwo ==
    ASSUME NEW a \in Int, NEW b \in Int
    PROVE  /\ Max({a, b}) = IF a >= b THEN a ELSE b
           /\ Min({a, b}) = IF a <= b THEN a ELSE b
  <1>1. \A x \in {a, b} : x \in Int
    OBVIOUS
  <1>2. \E x \in {a, b} : \A y \in {a, b} : x >= y
    OBVIOUS
  <1>3. \E x \in {a, b} : \A y \in {a, b} : x <= y
    OBVIOUS
  <1>4. Max({a, b}) \in {a, b} /\ Max({a, b}) >= a /\ Max({a, b}) >= b
    BY <1>2 DEF Max
  <1>5. Min({a, b}) \in {a, b} /\ Min({a, b}) <= a /\ Min({a, b}) <= b
    BY <1>3 DEF Min
  <1> QED
    BY <1>4, <1>5

LEMMA CutOut ==
    ASSUME NEW S, NEW s \in Seq(S), NEW m \in Nat, NEW n \in Nat, 1 <= m, m <= n + 1, n <= Len(s)
    PROVE  /\ SubSeq(s, m, n) \in Seq(S) /\ Len(SubSeq(s, m, n)) = n - m + 1
           /\ \A j \in 1..(n - m + 1) : SubSeq(s, m, n)[j] = s[m + j - 1]
  <1>1. m \in Int /\ n \in Int /\ \A i \in m..n : s[i] \in S
    OBVIOUS
  <1>2. (IF m <= n THEN n - m + 1 ELSE 0) = n - m + 1
    OBVIOUS
  <1>3. /\ SubSeq(s, m, n) \in Seq(S) /\ Len(SubSeq(s, m, n)) = IF m <= n THEN n - m + 1 ELSE 0
        /\ \A j \in 1..n - m + 1 : SubSeq(s, m, n)[j] = s[m + j - 1]
    BY <1>1, SubSeqProperties
  <1> QED
    BY <1>2, <1>3

\* s ends in f, element by element.
EndsIn(s, f) ==
    /\ Len(f) <= Len(s)
    /\ \A j \in 1..Len(f) : f[j] = s[Len(s) - Len(f) + j]

LEMMA EndsInItsCut ==
    ASSUME NEW S, NEW s \in Seq(S), NEW f \in Seq(S), Len(f) <= Len(s)
    PROVE  f = SubSeq(s, Len(s) - Len(f) + 1, Len(s)) <=> EndsIn(s, f)
  <1> DEFINE L == Len(s)
             F == Len(f)
             m == L - F + 1
             tail == SubSeq(s, m, L)
  <1>1. L \in Nat /\ F \in Nat /\ F <= L
    OBVIOUS
  <1> HIDE DEF L, F
  <1>2. m \in Nat /\ 1 <= m /\ m <= L + 1 /\ L - m + 1 = F
    BY <1>1
  <1>3. \A j \in 1..F : m + j - 1 = L - F + j
    BY <1>1
  <1> HIDE DEF m
  <1>4. tail \in Seq(S) /\ Len(tail) = F /\ \A j \in 1..F : tail[j] = s[m + j - 1]
    <2>1. L <= Len(s)
      BY <1>1 DEF L
    <2>2. /\ tail \in Seq(S) /\ Len(tail) = L - m + 1
          /\ \A j \in 1..(L - m + 1) : tail[j] = s[m + j - 1]
      BY <1>1, <1>2, <2>1, CutOut
    <2> QED
      BY <1>2, <2>2
  <1> HIDE DEF tail
  <1>5. f = tail <=> \A j \in 1..F : f[j] = tail[j]
    BY <1>4, SeqEqual DEF F
  <1>6. (\A j \in 1..F : f[j] = tail[j]) <=> \A j \in 1..F : f[j] = s[L - F + j]
    BY <1>3, <1>4
  <1>7. EndsIn(s, f) <=> \A j \in 1..F : f[j] = s[L - F + j]
    BY DEF EndsIn, L, F
  <1> QED
    BY <1>5, <1>6, <1>7 DEF tail, m, L, F

\* The latest R of s.
Latest(s, f, R) == EndsIn(s, f) /\ Len(f) <= R /\ (Len(f) = Len(s) \/ Len(f) = R)

LEMMA RetainedAreLatest ==
    ASSUME NEW s \in Seq(Nat), NEW f \in Seq(Nat), Latest(s, f, MaxRetainedSpans), NEW id \in Nat
    PROVE  LET g == Retained(Append(f, id)) IN
           g \in Seq(Nat) /\ Latest(Append(s, id), g, MaxRetainedSpans)
  <1> DEFINE F == Len(f)
             L == Len(s)
             R == MaxRetainedSpans
             all == Append(f, id)
             ss == Append(s, id)
             from == Max({1, Len(all) - R + 1})
             g == SubSeq(all, from, F + 1)
  <1>1. F \in Nat /\ L \in Nat /\ R \in Nat
    BY ObservabilityAssumption
  <1>2. F <= L /\ F <= R /\ (F = L \/ F = R) /\ \A j \in 1..F : f[j] = s[L - F + j]
    BY DEF Latest, EndsIn
  <1>3. /\ all \in Seq(Nat) /\ Len(all) = F + 1 /\ all[F + 1] = id
        /\ \A j \in 1..F : all[j] = f[j]
    OBVIOUS
  <1>4. /\ ss \in Seq(Nat) /\ Len(ss) = L + 1 /\ ss[L + 1] = id
        /\ \A j \in 1..L : ss[j] = s[j]
    OBVIOUS
  <1>5. Retained(all) = g
    BY <1>3 DEF Retained
  <1> HIDE DEF all, ss, F, L, R
  <1>6. from = IF F < R THEN 1 ELSE 2
    <2> DEFINE d == Len(all) - R + 1
    <2>1. d \in Int /\ 1 \in Int /\ (F < R => 1 >= d) /\ (F = R => d = 2)
      BY <1>1, <1>3
    <2> HIDE DEF d
    <2>2. Max({1, d}) = IF 1 >= d THEN 1 ELSE d
      BY <2>1, BoundsOfTwo
    <2>3. from = Max({1, d})
      BY DEF d
    <2> HIDE DEF from
    <2> QED
      BY <1>1, <1>2, <2>1, <2>2, <2>3
  <1> HIDE DEF from
  <1> DEFINE G == F + 1 - from + 1
  <1>7. g \in Seq(Nat) /\ Len(g) = G /\ \A j \in 1..G : g[j] = all[from + j - 1]
    <2>1. from \in Nat /\ 1 <= from /\ from <= F + 1 + 1 /\ F + 1 \in Nat /\ F + 1 <= Len(all)
      BY <1>1, <1>3, <1>6
    <2> DEFINE n == F + 1
    <2>2. n \in Nat /\ from <= n + 1 /\ n <= Len(all)
      BY <2>1
    <2> HIDE DEF n
    <2>3. /\ SubSeq(all, from, n) \in Seq(Nat) /\ Len(SubSeq(all, from, n)) = n - from + 1
          /\ \A j \in 1..(n - from + 1) : SubSeq(all, from, n)[j] = all[from + j - 1]
      BY <1>3, <2>1, <2>2, CutOut
    <2>4. g = SubSeq(all, from, n)
      BY Zenon DEF n
    <2>5. G = n - from + 1
      BY <1>1, <2>1 DEF n, G
    <2> HIDE DEF g, G
    <2> QED
      BY <2>3, <2>4, <2>5
  <1> HIDE DEF g
  <1>8. G \in Nat /\ G <= L + 1 /\ G <= R /\ (G = L + 1 \/ G = R)
    BY <1>1, <1>2, <1>6
  <1>9. \A j \in 1..G : g[j] = ss[L + 1 - G + j]
    <2> SUFFICES ASSUME NEW j \in 1..G PROVE all[from + j - 1] = ss[L + 1 - G + j]
      BY <1>7
    <2> DEFINE k == from + j - 1
    <2>1. k \in 1..(F + 1) /\ L + 1 - G + j = L - F + k
      BY <1>1, <1>6
    <2>2. CASE k = F + 1
      <3>1. L - F + k = L + 1
        BY <1>1, <2>2
      <3> QED
        BY <1>3, <1>4, <2>1, <2>2, <3>1
    <2>3. CASE k # F + 1
      <3> HIDE DEF k
      <3>1. k \in 1..F /\ L - F + k \in 1..L
        BY <1>1, <1>2, <2>1, <2>3
      <3>2. all[k] = ss[L - F + k]
        BY <1>2, <1>3, <1>4, <3>1
      <3> QED
        BY <2>1, <3>2 DEF k
    <2> QED
      BY <2>2, <2>3
  <1> HIDE DEF G
  <1>10. EndsIn(ss, g) /\ Len(g) <= R /\ (Len(g) = Len(ss) \/ Len(g) = R)
    <2>1. Len(g) = G /\ Len(ss) = L + 1
      BY <1>4, <1>7
    <2>2. Len(g) <= Len(ss) /\ \A j \in 1..Len(g) : g[j] = ss[Len(ss) - Len(g) + j]
      BY <1>1, <1>8, <1>9, <2>1
    <2>3. EndsIn(ss, g)
      BY <2>2, Zenon DEF EndsIn
    <2> QED
      BY <1>8, <2>1, <2>3
  <1> QED
    BY <1>5, <1>7, <1>10 DEF Latest, all, ss, R

RetainInv ==
    finished \in Seq(Nat) /\ ended \in Seq(Nat) /\ Latest(ended, finished, MaxRetainedSpans)

LEMMA RetainedMeans == RetainInv => LatestAreRetained
  <1> SUFFICES ASSUME RetainInv PROVE LatestAreRetained
    OBVIOUS
  <1>1. Len(ended) \in Int /\ Len(finished) \in Int /\ MaxRetainedSpans \in Int
    BY ObservabilityAssumption DEF RetainInv
  <1>2. Len(finished) = Min({Len(ended), MaxRetainedSpans})
    <2> DEFINE L == Len(ended)
               F == Len(finished)
    <2>1. L \in Int /\ F \in Int /\ F <= L /\ F <= MaxRetainedSpans /\ (F = L \/ F = MaxRetainedSpans)
      BY <1>1 DEF RetainInv, Latest, EndsIn
    <2> HIDE DEF L, F
    <2>2. Min({L, MaxRetainedSpans}) = IF L <= MaxRetainedSpans THEN L ELSE MaxRetainedSpans
      BY <1>1, <2>1, BoundsOfTwo
    <2>3. F = Min({L, MaxRetainedSpans})
      BY <1>1, <2>1, <2>2
    <2> QED
      BY <2>3 DEF L, F
  <1>3. finished = SubSeq(ended, Len(ended) - Len(finished) + 1, Len(ended))
    BY EndsInItsCut DEF RetainInv, Latest, EndsIn
  <1> QED
    BY <1>2, <1>3 DEF LatestAreRetained

LEMMA FinishRetains ==
    ASSUME SpanInv, RetainInv, NEW t \in TraceTasks, NEW status_, NEW v, Finish(t, status_, v)
    PROVE  RetainInv'
  <1> DEFINE id == Last(context[t].open)
  <1>1. context[t].open \in Seq(Nat) /\ context[t].open # <<>>
    BY DEF SpanInv, SpanTypeOK, Finish
  <1>2. id \in Nat
    BY <1>1 DEF Last
  <1>3. /\ finished' = IF enabled THEN Retained(Append(finished, id)) ELSE finished
        /\ ended' = IF enabled THEN Append(ended, id) ELSE ended
    BY DEF Finish
  <1> HIDE DEF id
  <1>4. CASE enabled
    <2>1. Append(ended, id) \in Seq(Nat)
      BY <1>2 DEF RetainInv
    <2> QED
      BY <1>2, <1>3, <1>4, <2>1, RetainedAreLatest DEF RetainInv
  <1>5. CASE ~enabled
    BY <1>3, <1>5 DEF RetainInv
  <1> QED
    BY <1>4, <1>5

-----------------------------------------------------------------------------
\* The running totals of the first N of s.
IsSumming(h, s, N) == h = [k \in 0..N |-> IF k = 0 THEN 0 ELSE h[k - 1] + s[k]]

LEMMA SummingIsOne ==
    ASSUME NEW s, NEW N \in Nat, NEW g, NEW h, IsSumming(g, s, N), IsSumming(h, s, N)
    PROVE  g[N] = h[N]
  <1> DEFINE T == {k \in 0..N : g[k] # h[k]}
  <1> SUFFICES ASSUME T # {} PROVE FALSE
    OBVIOUS
  <1>1. T \subseteq Nat
    OBVIOUS
  <1>2. PICK m \in T : \A k \in T : m <= k
    <2> HIDE DEF T
    <2> QED
      BY <1>1, LeastNumber
  <1>3. /\ \A k \in 0..N : g[k] = IF k = 0 THEN 0 ELSE g[k - 1] + s[k]
        /\ \A k \in 0..N : h[k] = IF k = 0 THEN 0 ELSE h[k - 1] + s[k]
    BY DEF IsSumming
  <1>4. m \in 0..N /\ g[m] # h[m]
    OBVIOUS
  <1>5. m # 0
    BY <1>3, <1>4
  <1>6. m - 1 \in 0..N /\ ~(m <= m - 1)
    BY <1>4, <1>5
  <1>7. g[m - 1] = h[m - 1]
    BY <1>2, <1>6
  <1> QED
    BY <1>3, <1>4, <1>5, <1>7

LEMMA SummingExists ==
    ASSUME NEW s, NEW N \in Nat
    PROVE  \E h : IsSumming(h, s, N)
  <1> DEFINE T == {k \in Nat : ~ \E h : IsSumming(h, s, k)}
  <1> SUFFICES ASSUME T # {} PROVE FALSE
    OBVIOUS
  <1>1. T \subseteq Nat
    OBVIOUS
  <1>2. PICK m \in T : \A k \in T : m <= k
    <2> HIDE DEF T
    <2> QED
      BY <1>1, LeastNumber
  <1>3. CASE m = 0
    <2> DEFINE none == [k \in 0..0 |-> 0]
    <2>1. none = [k \in 0..0 |-> IF k = 0 THEN 0 ELSE none[k - 1] + s[k]]
      OBVIOUS
    <2>2. IsSumming(none, s, 0)
      BY <2>1 DEF IsSumming
    <2> QED
      BY <1>2, <1>3, <2>2
  <1>4. CASE m # 0
    <2>1. m \in Nat /\ m - 1 \in Nat /\ ~(m <= m - 1)
      BY <1>2, <1>4
    <2>2. m - 1 \notin T
      BY <1>2, <2>1
    <2>3. PICK g : IsSumming(g, s, m - 1)
      BY <2>1, <2>2
    <2> DEFINE h == [k \in 0..m |-> IF k = 0 THEN 0 ELSE g[k - 1] + s[k]]
    <2>4. \A k \in 0..(m - 1) : g[k] = IF k = 0 THEN 0 ELSE g[k - 1] + s[k]
      BY <2>3 DEF IsSumming
    <2>5. \A k \in 0..(m - 1) : h[k] = g[k]
      <3>1. \A k \in 0..m : h[k] = IF k = 0 THEN 0 ELSE g[k - 1] + s[k]
        OBVIOUS
      <3>2. \A k \in 0..(m - 1) : k \in 0..m
        BY <2>1
      <3> HIDE DEF h
      <3> QED
        BY <2>4, <3>1, <3>2
    <2>6. \A k \in 0..m : k # 0 => k - 1 \in 0..(m - 1)
      BY <2>1
    <2>7. \A k \in 0..m : k # 0 => h[k - 1] = g[k - 1]
      BY <2>5, <2>6
    <2>8. \A k \in 0..m : h[k] = IF k = 0 THEN 0 ELSE h[k - 1] + s[k]
      BY <2>7
    <2>9. h = [k \in 0..m |-> h[k]]
      OBVIOUS
    <2> HIDE DEF h
    <2>10. IsSumming(h, s, m)
      BY <2>8, <2>9 DEF IsSumming
    <2> QED
      BY <1>2, <2>10
  <1> QED
    BY <1>3, <1>4

LEMMA TotalIsItsLoop ==
    ASSUME NEW s, Len(s) \in Nat
    PROVE  \E h : IsSumming(h, s, Len(s)) /\ TotalOf(s) = h[Len(s)]
  <1> DEFINE N == Len(s)
             sum[k \in 0..N] == IF k = 0 THEN 0 ELSE sum[k - 1] + s[k]
  <1>1. PICK h : IsSumming(h, s, N)
    <2> HIDE DEF sum
    <2> QED
      BY SummingExists
  <1>2. sum = CHOOSE f : f = [k \in 0..N |-> IF k = 0 THEN 0 ELSE f[k - 1] + s[k]]
    BY DEF sum
  <1>3. sum = [k \in 0..N |-> IF k = 0 THEN 0 ELSE sum[k - 1] + s[k]]
    <2> HIDE DEF sum, N
    <2> QED
      BY <1>1, <1>2 DEF IsSumming
  <1>4. TotalOf(s) = sum[N]
    BY DEF TotalOf, sum
  <1>5. IsSumming(sum, s, N)
    BY <1>3 DEF IsSumming
  <1> QED
    BY <1>4, <1>5

LEMMA TotalOfNone == TotalOf(<<>>) = 0
  <1>1. Len(<<>>) = 0
    OBVIOUS
  <1>2. PICK h : IsSumming(h, <<>>, 0) /\ TotalOf(<<>>) = h[0]
    BY <1>1, TotalIsItsLoop
  <1>3. h[0] = 0
    BY <1>2 DEF IsSumming
  <1> QED
    BY <1>2, <1>3

LEMMA TotalGrows ==
    ASSUME NEW s \in Seq(Nat), NEW v \in Nat
    PROVE  TotalOf(Append(s, v)) = TotalOf(s) + v
  <1> DEFINE N == Len(s)
             more == Append(s, v)
  <1>1. /\ N \in Nat /\ Len(more) = N + 1 /\ more[N + 1] = v
        /\ \A k \in 1..N : more[k] = s[k]
    OBVIOUS
  <1>2. PICK g : IsSumming(g, s, N) /\ TotalOf(s) = g[N]
    BY <1>1, TotalIsItsLoop
  <1> HIDE DEF more, N
  <1>3. PICK h : IsSumming(h, more, N + 1) /\ TotalOf(more) = h[N + 1]
    BY <1>1, TotalIsItsLoop
  <1> DEFINE less == [k \in 0..N |-> h[k]]
  <1>4. \A k \in 0..(N + 1) : h[k] = IF k = 0 THEN 0 ELSE h[k - 1] + more[k]
    BY <1>3 DEF IsSumming
  <1>5. \A k \in 0..N : /\ k \in 0..(N + 1)
                        /\ k # 0 => k \in 1..N /\ k - 1 \in 0..N
    BY <1>1
  <1>6. \A k \in 0..N : less[k] = IF k = 0 THEN 0 ELSE less[k - 1] + s[k]
    <2> SUFFICES ASSUME NEW k \in 0..N PROVE h[k] = IF k = 0 THEN 0 ELSE less[k - 1] + s[k]
      OBVIOUS
    <2>1. CASE k = 0
      BY <1>4, <1>5, <2>1
    <2>2. CASE k # 0
      <3>1. less[k - 1] = h[k - 1] /\ more[k] = s[k]
        BY <1>1, <1>5, <2>2
      <3> QED
        BY <1>4, <1>5, <2>2, <3>1
    <2> QED
      BY <2>1, <2>2
  <1>7. IsSumming(less, s, N)
    <2>1. less = [k \in 0..N |-> less[k]]
      OBVIOUS
    <2> HIDE DEF less
    <2> QED
      BY <1>6, <2>1 DEF IsSumming
  <1>8. less[N] = g[N]
    <2> HIDE DEF less
    <2> QED
      BY <1>1, <1>2, <1>7, SummingIsOne
  <1>9. N \in 0..N /\ N + 1 \in 0..(N + 1) /\ N + 1 # 0 /\ N + 1 - 1 = N
    BY <1>1
  <1>10. h[N] = g[N]
    BY <1>8, <1>9
  <1>11. h[N + 1] = h[N] + v
    BY <1>1, <1>4, <1>9
  <1> QED
    BY <1>2, <1>3, <1>10, <1>11 DEF more

-----------------------------------------------------------------------------
HistogramType ==
    [samples : Seq(Nat), cursor : Nat, count : Nat, total : Nat, low : Int, high : Int]

\* Where in n of L observations sample j of a ring is found that goes on at c.
Place(c, n, L, j) == IF j < c THEN L - c + 1 + j ELSE L - n + j - c + 1

Ring(h, seen) ==
    /\ h.cursor \in 1..HistogramCapacity
    /\ Len(h.samples) <= Len(seen) /\ Len(h.samples) <= HistogramCapacity
    /\ Len(h.samples) = Len(seen) \/ Len(h.samples) = HistogramCapacity
    /\ Len(h.samples) < HistogramCapacity => h.cursor = 1
    /\ \A j \in 1..Len(h.samples) :
          h.samples[j] = seen[Place(h.cursor, Len(h.samples), Len(seen), j)]

Extremes(h, seen) ==
    /\ seen = <<>> => h.low = -1 /\ h.high = -1
    /\ seen # <<>> =>
          /\ h.low \in Range(seen) /\ h.high \in Range(seen)
          /\ \A v \in Range(seen) : h.low <= v /\ v <= h.high

Recorded(h, seen) ==
    /\ h \in HistogramType /\ seen \in Seq(Nat)
    /\ h.count = Len(seen) /\ h.total = TotalOf(seen)
    /\ Ring(h, seen) /\ Extremes(h, seen)

LEMMA NewIsRecorded == Recorded(NewHistogram, <<>>)
  <1> DEFINE h == NewHistogram
  <1>1. h \in HistogramType
    BY EmptySeq DEF NewHistogram, HistogramType
  <1>2. <<>> \in Seq(Nat) /\ Len(<<>>) = 0
    OBVIOUS
  <1>3. HistogramCapacity \in Nat \ {0}
    BY ObservabilityAssumption
  <1>4. Ring(h, <<>>)
    BY <1>2, <1>3 DEF Ring, NewHistogram
  <1>5. Extremes(h, <<>>)
    BY DEF Extremes, NewHistogram
  <1> QED
    BY <1>1, <1>2, <1>4, <1>5, TotalOfNone DEF Recorded, NewHistogram

LEMMA PlaceIsThere ==
    ASSUME NEW c \in Nat, NEW n \in Nat, NEW L \in Nat, NEW j \in 1..n, c \in 1..(n + 1), n <= L
    PROVE  Place(c, n, L, j) \in 1..L
  BY DEF Place

LEMMA RangeGrows ==
    ASSUME NEW s \in Seq(Nat), NEW v \in Nat
    PROVE  Range(Append(s, v)) = Range(s) \union {v}
  <1> DEFINE more == Append(s, v)
  <1>1. /\ DOMAIN s = 1..Len(s) /\ DOMAIN more = 1..(Len(s) + 1) /\ Len(s) \in Nat
        /\ more[Len(s) + 1] = v /\ \A k \in 1..Len(s) : more[k] = s[k]
    OBVIOUS
  <1> HIDE DEF more
  <1>2. \A k \in 1..(Len(s) + 1) : k \in 1..Len(s) \/ k = Len(s) + 1
    BY <1>1
  <1>3. 1..Len(s) \subseteq 1..(Len(s) + 1) /\ Len(s) + 1 \in 1..(Len(s) + 1)
    BY <1>1
  <1>4. Range(more) \subseteq Range(s) \union {v}
    BY <1>1, <1>2 DEF Range
  <1>5. Range(s) \subseteq Range(more) /\ v \in Range(more)
    BY <1>1, <1>3 DEF Range
  <1> QED
    BY <1>4, <1>5 DEF more

LEMMA TurnOn ==
    ASSUME NEW C \in Nat \ {0}, NEW c \in 1..C
    PROVE  (c % C) + 1 = IF c = C THEN 1 ELSE c + 1
  OBVIOUS

LEMMA RingGoesOn ==
    ASSUME NEW h \in HistogramType, NEW seen \in Seq(Nat), Ring(h, seen), NEW v \in Nat
    PROVE  LET g == Included(h, v) IN
           g.samples \in Seq(Nat) /\ g.cursor \in Nat /\ Ring(g, Append(seen, v))
  <1> DEFINE C == HistogramCapacity
             c == h.cursor
             n == Len(h.samples)
             L == Len(seen)
             g == Included(h, v)
             more == Append(seen, v)
  <1>1. C \in Nat \ {0} /\ n \in Nat /\ L \in Nat /\ h.samples \in Seq(Nat)
    BY ObservabilityAssumption DEF HistogramType
  <1>2. /\ c \in 1..C /\ n <= L /\ n <= C /\ (n = L \/ n = C) /\ (n < C => c = 1)
        /\ \A j \in 1..n : h.samples[j] = seen[Place(c, n, L, j)]
    BY DEF Ring
  <1>3. /\ Len(more) = L + 1 /\ more[L + 1] = v /\ \A k \in 1..L : more[k] = seen[k]
    OBVIOUS
  <1>4. /\ g.samples = IF n = C THEN [h.samples EXCEPT ![c] = v] ELSE Append(h.samples, v)
        /\ g.cursor = IF n = C THEN (c % C) + 1 ELSE c
    BY DEF Included
  <1>5. \A j \in 1..n : h.samples[j] \in Nat
    BY <1>1
  <1> HIDE DEF C, c, L, g, more
  <1>6. CASE n = C
    <2> DEFINE d == IF c = C THEN 1 ELSE c + 1
               s == [h.samples EXCEPT ![c] = v]
    <2>1. g.samples = s /\ g.cursor = d
      BY <1>1, <1>2, <1>4, <1>6, TurnOn
    <2>2. /\ s \in Seq(Nat) /\ Len(s) = n /\ s[c] = v
          /\ \A j \in 1..n : j # c => s[j] = h.samples[j]
      BY <1>1, <1>2, <1>6
    <2> HIDE DEF s, n
    <2>3. d \in 1..C /\ d \in Nat /\ C <= L
      BY <1>1, <1>2, <1>6
    <2>4. ASSUME NEW j \in 1..C
          PROVE  Place(d, C, L + 1, j) = IF j = c THEN L + 1 ELSE Place(c, C, L, j)
      <3>1. C \in Nat \ {0} /\ c \in 1..C /\ L \in Nat /\ C <= L /\ j \in 1..C
        BY <1>1, <1>2, <2>3
      <3>2. CASE j = c
        BY <3>1, <3>2 DEF Place
      <3>3. CASE j # c
        BY <3>1, <3>3 DEF Place
      <3> QED
        BY <3>2, <3>3
    <2> HIDE DEF d
    <2>5. ASSUME NEW j \in 1..C, j # c PROVE Place(c, C, L, j) \in 1..L
      <3>1. C \in Nat /\ c \in 1..(C + 1) /\ c \in Nat
        BY <1>1, <1>2
      <3> QED
        BY <1>1, <2>3, <3>1, PlaceIsThere
    <2>6. ASSUME NEW j \in 1..C PROVE s[j] = more[Place(d, C, L + 1, j)]
      <3>1. CASE j = c
        BY <1>3, <2>2, <2>4, <3>1
      <3>2. CASE j # c
        BY <1>2, <1>3, <1>6, <2>2, <2>4, <2>5, <3>2
      <3> QED
        BY <3>1, <3>2
    <2>7. C <= L + 1 /\ C <= C /\ ~(C < C)
      BY <1>1, <2>3
    <2>8. Ring(g, more)
      BY <1>3, <1>6, <2>1, <2>2, <2>3, <2>6, <2>7 DEF Ring, C
    <2> QED
      BY <2>1, <2>2, <2>3, <2>8 DEF g, more
  <1>7. CASE n # C
    <2> DEFINE s == Append(h.samples, v)
    <2>1. g.samples = s /\ g.cursor = 1 /\ c = 1 /\ n = L /\ n < C
      BY <1>1, <1>2, <1>4, <1>7
    <2>2. /\ s \in Seq(Nat) /\ Len(s) = n + 1 /\ s[n + 1] = v
          /\ \A j \in 1..n : s[j] = h.samples[j]
      BY <1>1
    <2> HIDE DEF s, n
    <2>3. \A j \in 1..(n + 1) : Place(1, n + 1, n + 1, j) = j
      BY <1>1 DEF Place
    <2>4. \A j \in 1..n : Place(1, n, n, j) = j
      BY <1>1 DEF Place
    <2>5. ASSUME NEW j \in 1..(n + 1) PROVE s[j] = more[j]
      <3>1. CASE j = n + 1
        BY <1>3, <2>1, <2>2, <3>1
      <3>2. CASE j # n + 1
        <4>1. j \in 1..n
          BY <1>1, <3>2
        <4> QED
          BY <1>2, <1>3, <2>1, <2>2, <2>4, <4>1
      <3> QED
        BY <3>1, <3>2
    <2>6. n + 1 <= C /\ L + 1 = n + 1 /\ n + 1 <= n + 1 /\ 1 \in Nat /\ 1 \in 1..C
      BY <1>1, <2>1
    <2>7. \A j \in 1..(n + 1) : s[j] = more[Place(1, n + 1, n + 1, j)]
      BY <2>3, <2>5
    <2>8. Ring(g, more)
      BY <1>3, <2>1, <2>2, <2>6, <2>7 DEF Ring, C
    <2> QED
      BY <2>1, <2>2, <2>6, <2>8 DEF g, more
  <1> QED
    BY <1>6, <1>7

LEMMA IncludedIsRecorded ==
    ASSUME NEW h, NEW seen, Recorded(h, seen), NEW v \in Nat
    PROVE  Recorded(Included(h, v), Append(seen, v))
  <1> DEFINE g == Included(h, v)
             more == Append(seen, v)
  <1>1. /\ h \in HistogramType /\ seen \in Seq(Nat) /\ h.count = Len(seen) /\ h.total = TotalOf(seen)
        /\ Ring(h, seen) /\ Extremes(h, seen)
    BY DEF Recorded
  <1>2. h.count \in Nat /\ h.total \in Nat /\ h.low \in Int /\ h.high \in Int
    BY <1>1 DEF HistogramType
  <1>3. more \in Seq(Nat) /\ Len(more) = Len(seen) + 1 /\ more # <<>> /\ (Len(seen) = 0 <=> seen = <<>>)
    <2>1. seen \in Seq(Nat)
      BY <1>1
    <2>2. more \in Seq(Nat) /\ Len(more) = Len(seen) + 1 /\ Len(seen) \in Nat
      BY <2>1
    <2>3. more # <<>>
      BY <2>1
    <2>4. Len(seen) = 0 <=> seen = <<>>
      BY <2>1, EmptySeq
    <2> QED
      BY <2>2, <2>3, <2>4
  <1>4. g.samples \in Seq(Nat) /\ g.cursor \in Nat /\ Ring(g, more)
    BY <1>1, RingGoesOn
  <1>5. /\ g.count = h.count + 1 /\ g.total = h.total + v
        /\ g.low = (IF h.count = 0 THEN v ELSE Min({h.low, v})) /\ g.high = Max({h.high, v})
        /\ g = [samples |-> g.samples, cursor |-> g.cursor, count |-> g.count, total |-> g.total,
                low |-> g.low, high |-> g.high]
    BY DEF Included
  <1>6. g.total = TotalOf(more)
    BY <1>1, <1>5, TotalGrows
  <1>7. /\ Min({h.low, v}) = IF h.low <= v THEN h.low ELSE v
        /\ Max({h.high, v}) = IF h.high >= v THEN h.high ELSE v
    <2>1. v \in Int
      OBVIOUS
    <2> QED
      BY <1>2, <2>1, BoundsOfTwo
  <1>8. Range(more) = Range(seen) \union {v} /\ Range(seen) \subseteq Nat
    <2>1. seen \in Seq(Nat)
      BY <1>1
    <2>2. Range(seen) \subseteq Nat
      BY <2>1 DEF Range
    <2> QED
      BY <2>1, <2>2, RangeGrows
  <1> HIDE DEF g, more
  <1>9. g.low \in Int /\ g.high \in Int
    BY <1>2, <1>5, <1>7
  <1>10. g \in HistogramType
    BY <1>2, <1>4, <1>5, <1>9 DEF HistogramType
  <1>11. Extremes(g, more)
    <2>1. CASE seen = <<>>
      <3>1. g.low = v /\ g.high = v
        BY <1>1, <1>3, <1>5, <1>7, <2>1 DEF Extremes
      <3>2. Range(seen) = {}
        BY <2>1 DEF Range
      <3> QED
        BY <1>3, <1>8, <3>1, <3>2 DEF Extremes
    <2>2. CASE seen # <<>>
      <3>1. /\ h.low \in Range(seen) /\ h.high \in Range(seen)
            /\ \A x \in Range(seen) : h.low <= x /\ x <= h.high
        BY <1>1, <2>2 DEF Extremes
      <3>2. /\ g.low \in Range(more) /\ g.low <= h.low /\ g.low <= v
            /\ g.high \in Range(more) /\ h.high <= g.high /\ v <= g.high
        BY <1>1, <1>2, <1>3, <1>5, <1>7, <1>8, <2>2, <3>1
      <3>3. ASSUME NEW x \in Range(more) PROVE g.low <= x /\ x <= g.high
        <4>1. CASE x = v
          BY <3>2, <4>1
        <4>2. CASE x \in Range(seen)
          <5>1. x \in Nat /\ h.low <= x /\ x <= h.high
            BY <1>8, <3>1, <4>2
          <5> QED
            BY <1>2, <1>9, <3>2, <5>1
        <4> QED
          BY <1>8, <4>1, <4>2
      <3> QED
        BY <1>3, <3>2, <3>3 DEF Extremes
    <2> QED
      BY <2>1, <2>2
  <1>12. g.count = Len(more)
    BY <1>1, <1>3, <1>5
  <1>13. Recorded(g, more)
    BY <1>3, <1>4, <1>6, <1>10, <1>11, <1>12 DEF Recorded
  <1> QED
    BY <1>13 DEF g, more

\* The window in its order is the end of what was observed.
LEMMA RingEndsSeen ==
    ASSUME NEW h \in HistogramType, NEW seen \in Seq(Nat), Ring(h, seen)
    PROVE  LET n == Len(h.samples)
               inOrder == SubSeq(h.samples, h.cursor, n) \o SubSeq(h.samples, 1, h.cursor - 1)
           IN  inOrder \in Seq(Nat) /\ Len(inOrder) = n /\ EndsIn(seen, inOrder)
  <1> DEFINE c == h.cursor
             n == Len(h.samples)
             L == Len(seen)
             s == h.samples
             one == SubSeq(s, c, n)
             two == SubSeq(s, 1, c - 1)
             both == one \o two
  <1>1. n \in Nat /\ L \in Nat /\ s \in Seq(Nat) /\ HistogramCapacity \in Nat \ {0}
    BY ObservabilityAssumption DEF HistogramType
  <1>2. /\ c \in 1..(n + 1) /\ c \in Nat /\ n <= L
        /\ \A j \in 1..n : s[j] = seen[Place(c, n, L, j)]
    BY <1>1 DEF Ring
  <1>3. c - 1 \in Nat /\ 1 <= c /\ c <= n + 1 /\ 1 <= c - 1 + 1 /\ c - 1 <= n /\ n <= n
    BY <1>1, <1>2
  <1>4. Len(s) = n
    OBVIOUS
  <1> HIDE DEF c, n, L, s
  <1>5. one \in Seq(Nat) /\ Len(one) = n - c + 1 /\ \A j \in 1..(n - c + 1) : one[j] = s[c + j - 1]
    BY <1>1, <1>2, <1>3, <1>4, CutOut
  <1>6. two \in Seq(Nat) /\ Len(two) = c - 1 /\ \A j \in 1..(c - 1) : two[j] = s[j]
    <2> DEFINE k == c - 1
    <2>1. k \in Nat /\ 1 <= k + 1 /\ k <= Len(s) /\ 1 \in Nat /\ 1 <= 1
      BY <1>3, <1>4
    <2> HIDE DEF k
    <2>2. /\ SubSeq(s, 1, k) \in Seq(Nat) /\ Len(SubSeq(s, 1, k)) = k - 1 + 1
          /\ \A j \in 1..(k - 1 + 1) : SubSeq(s, 1, k)[j] = s[1 + j - 1]
      BY <1>1, <2>1, CutOut
    <2>3. k - 1 + 1 = k /\ \A j \in 1..k : 1 + j - 1 = j
      BY <2>1
    <2>4. SubSeq(s, 1, k) \in Seq(Nat) /\ Len(SubSeq(s, 1, k)) = k /\ \A j \in 1..k : SubSeq(s, 1, k)[j] = s[j]
      BY <2>2, <2>3
    <2> QED
      BY <2>4 DEF k
  <1> HIDE DEF one, two
  <1>7. /\ both \in Seq(Nat) /\ Len(both) = Len(one) + Len(two)
        /\ \A i \in 1..(Len(one) + Len(two)) :
              both[i] = IF i <= Len(one) THEN one[i] ELSE two[i - Len(one)]
    BY <1>5, <1>6, ConcatProperties
  <1>8. Len(one) + Len(two) = n
    BY <1>1, <1>2, <1>5, <1>6
  <1> HIDE DEF both
  <1>9. ASSUME NEW i \in 1..n PROVE both[i] = seen[L - n + i]
    <2>1. CASE i <= n - c + 1
      <3> DEFINE j == c + i - 1
      <3>1. j \in 1..n /\ Place(c, n, L, j) = L - n + i
        BY <1>1, <1>2, <2>1 DEF Place
      <3>2. i \in 1..(n - c + 1)
        BY <1>1, <1>2, <2>1
      <3>3. both[i] = s[j]
        BY <1>5, <1>7, <1>8, <2>1, <3>2
      <3> HIDE DEF j
      <3> QED
        BY <1>2, <3>1, <3>3
    <2>2. CASE ~(i <= n - c + 1)
      <3> DEFINE j == i - (n - c + 1)
      <3>1. i \in Nat /\ i <= n /\ ~(i <= n - c + 1) /\ c \in Nat /\ c <= n + 1
        BY <1>1, <1>2, <1>3, <2>2
      <3>2. j \in Nat /\ 1 <= j /\ j <= c - 1 /\ j < c /\ j <= n
        BY <1>1, <3>1
      <3>3. L - c + 1 + j = L - n + i
        BY <1>1, <3>1
      <3>4. Place(c, n, L, j) = L - c + 1 + j
        <4> HIDE DEF j
        <4> QED
          BY <3>2 DEF Place
      <3>5. j \in 1..n /\ j \in 1..(c - 1) /\ Place(c, n, L, j) = L - n + i
        <4> HIDE DEF j
        <4> QED
          BY <1>1, <3>1, <3>2, <3>3, <3>4
      <3>6. both[i] = two[j]
        BY <1>5, <1>7, <1>8, <2>2
      <3> HIDE DEF j
      <3> QED
        BY <1>2, <1>6, <3>5, <3>6
    <2> QED
      BY <2>1, <2>2
  <1>10. Len(both) = n
    BY <1>7, <1>8
  <1>11. EndsIn(seen, both)
    <2>1. Len(both) <= Len(seen) /\ \A j \in 1..Len(both) : both[j] = seen[Len(seen) - Len(both) + j]
      BY <1>2, <1>9, <1>10 DEF L
    <2> QED
      BY <2>1, Zenon DEF EndsIn
  <1> QED
    BY <1>7, <1>10, <1>11 DEF both, one, two, s, n, c

-----------------------------------------------------------------------------
LEMMA SortedAscends ==
    ASSUME NEW s \in Seq(Nat)
    PROVE  /\ Len(Sorted(s)) = Len(s)
           /\ \A k \in 1..Len(s) : \E i \in 1..Len(s) : Sorted(s)[k] = s[i]
           /\ \A i, k \in 1..Len(s) : i <= k => Sorted(s)[i] <= Sorted(s)[k]
  <1> DEFINE n == Len(s)
             places == 1..n
             before == {p \in places \X places : \/ s[p[1]] < s[p[2]]
                                                 \/ s[p[1]] = s[p[2]] /\ p[1] < p[2]}
             order == InOrder(places, before)
  <1>1. n \in Nat /\ \A i \in places : i \in Nat /\ s[i] \in Nat
    OBVIOUS
  <1>2. IsFiniteSet(places) /\ Cardinality(places) = n
    BY <1>1, FirstNumbers
  <1>3. \A i, k \in places : <<i, k>> \in before <=> s[i] < s[k] \/ (s[i] = s[k] /\ i < k)
    OBVIOUS
  <1>4. Sorted(s) = [k \in places |->
                       s[CHOOSE e \in places : Cardinality({d \in places : <<d, e>> \in before}) = k - 1]]
    BY DEF Sorted
  <1> HIDE DEF before, n
  <1>5. StrictOrder(places, before)
    <2>1. \A x \in places : <<x, x>> \notin before
      BY <1>1, <1>3
    <2>2. \A x, y, z \in places : <<x, y>> \in before /\ <<y, z>> \in before => <<x, z>> \in before
      BY <1>1, <1>3
    <2>3. \A x, y \in places : x # y => <<x, y>> \in before \/ <<y, x>> \in before
      BY <1>1, <1>3
    <2> QED
      BY <2>1, <2>2, <2>3, Zenon DEF StrictOrder
  <1>6. /\ order \in Seq(places) /\ Len(order) = n
        /\ \A i, k \in 1..n : <<order[i], order[k]>> \in before <=> i < k
    <2> HIDE DEF places
    <2>1. /\ order \in Seq(places) /\ Len(order) = Cardinality(places)
          /\ \A i, k \in 1..Cardinality(places) : <<order[i], order[k]>> \in before <=> i < k
      BY <1>2, <1>5, InOrderLists
    <2> QED
      BY <1>2, <2>1
  <1>7. \A k \in places : order[k] =
            CHOOSE e \in places : Cardinality({d \in places : <<d, e>> \in before}) = k - 1
    BY <1>2 DEF InOrder
  <1> HIDE DEF order
  <1>8. \A k \in places : Sorted(s)[k] = s[order[k]]
    BY <1>4, <1>7
  <1>9. DOMAIN Sorted(s) = 1..n
    BY <1>4
  <1>10. \A k \in places : order[k] \in places
    BY <1>1, <1>6
  <1>11. ASSUME NEW i \in places, NEW k \in places, i <= k PROVE Sorted(s)[i] <= Sorted(s)[k]
    <2>1. CASE i = k
      BY <1>1, <1>8, <1>10, <2>1
    <2>2. CASE i # k
      <3>1. i < k
        BY <1>1, <1>11, <2>2
      <3>2. <<order[i], order[k]>> \in before
        BY <1>6, <3>1
      <3>3. s[order[i]] <= s[order[k]]
        <4> DEFINE a == order[i]
                   b == order[k]
        <4>1. a \in places /\ b \in places /\ <<a, b>> \in before
          BY <1>10, <3>2
        <4> HIDE DEF a, b
        <4>2. s[a] < s[b] \/ (s[a] = s[b] /\ a < b)
          BY <1>3, <4>1
        <4>3. s[a] \in Nat /\ s[b] \in Nat
          BY <1>1, <4>1
        <4>4. s[a] <= s[b]
          BY <4>2, <4>3
        <4> QED
          BY <4>4 DEF a, b
      <3> QED
        BY <1>8, <3>3
    <2> QED
      BY <2>1, <2>2
  <1>12. Len(Sorted(s)) = n
    BY <1>1, <1>9, LenProperties
  <1> QED
    BY <1>8, <1>10, <1>11, <1>12 DEF n

LEMMA Interpolated ==
    ASSUME NEW a \in Nat, NEW b \in Nat, a <= b, NEW r \in {0, 1, 2, 3}
    PROVE  LET p == (a * (4 - r)) + (b * r) IN p \in Nat /\ 4 * a <= p /\ p <= 4 * b
  <1>1. CASE r = 0
    BY <1>1
  <1>2. CASE r = 1
    BY <1>2
  <1>3. CASE r = 2
    BY <1>3
  <1>4. CASE r = 3
    BY <1>4
  <1> QED
    BY <1>1, <1>2, <1>3, <1>4

LEMMA InterpolatedRises ==
    ASSUME NEW a \in Nat, NEW b \in Nat, a <= b, NEW r \in {0, 1, 2, 3}, NEW z \in {0, 1, 2, 3}, r <= z
    PROVE  (a * (4 - r)) + (b * r) <= (a * (4 - z)) + (b * z)
  <1>1. CASE r = 0
    <2>1. (a * (4 - z)) + (b * z) >= 4 * a
      BY Interpolated
    <2> QED
      BY <1>1, <2>1, Interpolated
  <1>2. CASE r = 1
    <2>1. z = 1 \/ z = 2 \/ z = 3
      BY <1>2
    <2> QED
      BY <1>2, <2>1
  <1>3. CASE r = 2
    <2>1. z = 2 \/ z = 3
      BY <1>3
    <2> QED
      BY <1>3, <2>1
  <1>4. CASE r = 3
    <2>1. z = 3
      BY <1>4
    <2> QED
      BY <1>4, <2>1
  <1> QED
    BY <1>1, <1>2, <1>3, <1>4

\* The neighbours that a quantile lies between.
Lower(n, q) == (((n - 1) * q) \div 4) + 1
Upper(n, q) == IF Lower(n, q) + 1 <= n THEN Lower(n, q) + 1 ELSE n
Share(n, q) == ((n - 1) * q) % 4

LEMMA NeighboursAreThere ==
    ASSUME NEW n \in Nat \ {0}, NEW q \in 0..4
    PROVE  /\ Lower(n, q) \in 1..n /\ Upper(n, q) \in 1..n /\ Lower(n, q) <= Upper(n, q)
           /\ Share(n, q) \in {0, 1, 2, 3}
           /\ (n - 1) * q = (4 * (Lower(n, q) - 1)) + Share(n, q)
  <1> DEFINE rank == (n - 1) * q
  <1>1. rank \in Nat /\ rank <= 4 * (n - 1)
    <2>1. q = 0 \/ q = 1 \/ q = 2 \/ q = 3 \/ q = 4
      OBVIOUS
    <2> QED
      BY <2>1
  <1> HIDE DEF rank
  <1>2. /\ rank \div 4 \in Nat /\ rank % 4 \in {0, 1, 2, 3}
        /\ rank = (4 * (rank \div 4)) + (rank % 4)
    BY <1>1
  <1>3. Lower(n, q) = (rank \div 4) + 1 /\ Share(n, q) = rank % 4
    BY DEF Lower, Share, rank
  <1> DEFINE d == rank \div 4
             r == rank % 4
  <1> HIDE DEF d, r
  <1>4. d \in Nat /\ r \in {0, 1, 2, 3} /\ rank = (4 * d) + r
    BY <1>2 DEF d, r
  <1>5. d + 1 \in 1..n
    BY <1>1, <1>4
  <1>6. Lower(n, q) = d + 1 /\ Share(n, q) = r
    BY <1>3 DEF d, r
  <1>7. Upper(n, q) \in 1..n /\ Lower(n, q) <= Upper(n, q)
    BY <1>5, <1>6 DEF Upper
  <1>8. rank = (4 * (Lower(n, q) - 1)) + Share(n, q)
    BY <1>4, <1>6
  <1> QED
    BY <1>4, <1>5, <1>6, <1>7, <1>8 DEF rank

LEMMA PercentileIs ==
    ASSUME NEW s, Len(s) \in Nat \ {0}, NEW q \in 0..4
    PROVE  percentile(s, q) = (s[Lower(Len(s), q)] * (4 - Share(Len(s), q)))
                                + (s[Upper(Len(s), q)] * Share(Len(s), q))
  <1> DEFINE n == Len(s)
             low == Lower(n, q)
  <1>1. low \in 1..n
    BY NeighboursAreThere
  <1>2. (((n - 1) * q) \div 4) + 2 = low + 1 /\ low + 1 \in Int /\ n \in Int
    <2>1. ((n - 1) * q) \div 4 \in Int
      <3>1. low = (((n - 1) * q) \div 4) + 1
        BY DEF Lower
      <3>2. (n - 1) * q \in Int
        OBVIOUS
      <3> QED
        BY <3>2
    <2> QED
      BY <2>1 DEF Lower
  <1>3. Min({low + 1, n}) = Upper(n, q)
    <2> HIDE DEF n, low
    <2>1. Min({low + 1, n}) = IF low + 1 <= n THEN low + 1 ELSE n
      BY <1>2, BoundsOfTwo
    <2> QED
      BY <2>1 DEF Upper, low
  <1>4. percentile(s, q) = (s[(((n - 1) * q) \div 4) + 1] * (4 - (((n - 1) * q) % 4)))
                             + (s[Min({(((n - 1) * q) \div 4) + 2, n})] * (((n - 1) * q) % 4))
    BY Zenon DEF percentile
  <1>5. (((n - 1) * q) \div 4) + 1 = low /\ ((n - 1) * q) % 4 = Share(n, q)
    BY Zenon DEF Lower, Share
  <1> QED
    BY <1>2, <1>3, <1>4, <1>5, Zenon

Ascends(s) ==
    /\ Len(s) \in Nat \ {0} /\ \A i \in 1..Len(s) : s[i] \in Nat
    /\ \A i, k \in 1..Len(s) : i <= k => s[i] <= s[k]

LEMMA PercentileIsWithin ==
    ASSUME NEW s, Ascends(s), NEW q \in 0..4, NEW bottom \in Int, NEW top \in Int,
           \A i \in 1..Len(s) : bottom <= s[i] /\ s[i] <= top
    PROVE  4 * bottom <= percentile(s, q) /\ percentile(s, q) <= 4 * top
  <1> DEFINE n == Len(s)
             a == s[Lower(n, q)]
             b == s[Upper(n, q)]
             r == Share(n, q)
  <1>1. /\ Lower(n, q) \in 1..n /\ Upper(n, q) \in 1..n /\ Lower(n, q) <= Upper(n, q)
        /\ r \in {0, 1, 2, 3}
    BY NeighboursAreThere DEF Ascends
  <1>2. a \in Nat /\ b \in Nat /\ a <= b /\ bottom <= a /\ b <= top
    BY <1>1 DEF Ascends
  <1>3. percentile(s, q) = (a * (4 - r)) + (b * r)
    BY PercentileIs DEF Ascends
  <1> HIDE DEF a, b, r, n
  <1> DEFINE p == (a * (4 - r)) + (b * r)
  <1>4. p \in Nat /\ 4 * a <= p /\ p <= 4 * b
    BY <1>1, <1>2, Interpolated
  <1> HIDE DEF p
  <1>5. 4 * bottom <= p /\ p <= 4 * top
    BY <1>2, <1>4
  <1> QED
    BY <1>3, <1>5 DEF p

LEMMA PercentileRises ==
    ASSUME NEW s, Ascends(s), NEW q \in 1..4
    PROVE  percentile(s, q - 1) <= percentile(s, q)
  <1> DEFINE n == Len(s)
             a == s[Lower(n, q - 1)]
             b == s[Upper(n, q - 1)]
             r == Share(n, q - 1)
             x == s[Lower(n, q)]
             y == s[Upper(n, q)]
             z == Share(n, q)
  <1>0. q \in 0..4 /\ q - 1 \in 0..4 /\ n \in Nat \ {0}
    BY DEF Ascends
  <1>1. /\ Lower(n, q - 1) \in 1..n /\ Upper(n, q - 1) \in 1..n /\ Lower(n, q - 1) <= Upper(n, q - 1)
        /\ r \in {0, 1, 2, 3} /\ (n - 1) * (q - 1) = (4 * (Lower(n, q - 1) - 1)) + r
    BY <1>0, NeighboursAreThere
  <1>2. /\ Lower(n, q) \in 1..n /\ Upper(n, q) \in 1..n /\ Lower(n, q) <= Upper(n, q)
        /\ z \in {0, 1, 2, 3} /\ (n - 1) * q = (4 * (Lower(n, q) - 1)) + z
    BY <1>0, NeighboursAreThere
  <1>3. (n - 1) * (q - 1) <= (n - 1) * q
    <2>1. q = 1 \/ q = 2 \/ q = 3 \/ q = 4
      OBVIOUS
    <2> QED
      BY <1>0, <2>1
  <1>4. /\ a \in Nat /\ b \in Nat /\ a <= b /\ x \in Nat /\ y \in Nat /\ x <= y
    BY <1>1, <1>2 DEF Ascends
  <1>5. percentile(s, q - 1) = (a * (4 - r)) + (b * r) /\ percentile(s, q) = (x * (4 - z)) + (y * z)
    <2>1. Len(s) \in Nat \ {0}
      BY <1>0
    <2> QED
      BY <1>0, <2>1, PercentileIs
  <1>6. \/ Lower(n, q - 1) = Lower(n, q) /\ r <= z
        \/ Lower(n, q - 1) < Lower(n, q)
    <2> DEFINE d == Lower(n, q - 1)
               e == Lower(n, q)
    <2>1. d \in Nat /\ e \in Nat /\ r \in {0, 1, 2, 3} /\ z \in {0, 1, 2, 3}
      BY <1>0, <1>1, <1>2
    <2>2. (4 * (d - 1)) + r <= (4 * (e - 1)) + z
      BY <1>1, <1>2, <1>3
    <2> HIDE DEF d, e, r, z
    <2>3. (d = e /\ r <= z) \/ d < e
      BY <2>1, <2>2
    <2> QED
      BY <2>3 DEF d, e
  <1>7. CASE Lower(n, q - 1) = Lower(n, q) /\ r <= z
    <2>1. x = a /\ y = b
      BY <1>7 DEF Upper
    <2> HIDE DEF a, b, r, x, y, z, n
    <2>2. (a * (4 - r)) + (b * r) <= (a * (4 - z)) + (b * z)
      BY <1>1, <1>2, <1>4, <1>7, InterpolatedRises
    <2> QED
      BY <1>5, <2>1, <2>2
  <1>8. CASE Lower(n, q - 1) < Lower(n, q)
    <2>1. Upper(n, q - 1) <= Lower(n, q)
      BY <1>0, <1>1, <1>2, <1>8 DEF Upper
    <2>2. b <= x
      BY <1>1, <1>2, <2>1 DEF Ascends
    <2> HIDE DEF a, b, r, x, y, z, n
    <2> DEFINE p == (a * (4 - r)) + (b * r)
               w == (x * (4 - z)) + (y * z)
    <2>3. p \in Nat /\ p <= 4 * b
      BY <1>1, <1>4, Interpolated
    <2>4. w \in Nat /\ 4 * x <= w
      BY <1>2, <1>4, Interpolated
    <2> HIDE DEF p, w
    <2>5. p <= w
      BY <1>4, <2>2, <2>3, <2>4
    <2> QED
      BY <1>5, <2>5 DEF p, w
  <1> QED
    BY <1>6, <1>7, <1>8

-----------------------------------------------------------------------------
HistogramInv ==
    /\ histograms \in [DOMAIN histograms -> HistogramType] /\ DOMAIN histograms \subseteq Metrics
    /\ observed \in [Metrics -> Seq(Nat)]
    /\ \A m \in Metrics : Recorded(HistogramOf(m), observed[m])

LEMMA RecordedIsTrue ==
    ASSUME NEW h, NEW seen, Recorded(h, seen)
    PROVE  LET n == Len(h.samples)
               inOrder == SubSeq(h.samples, h.cursor, n) \o SubSeq(h.samples, 1, h.cursor - 1)
           IN  /\ h.count = Len(seen) /\ h.total = TotalOf(seen)
               /\ n = Min({Len(seen), HistogramCapacity})
               /\ inOrder = SubSeq(seen, Len(seen) - n + 1, Len(seen))
               /\ seen # <<>> => h.low = Min(Range(seen)) /\ h.high = Max(Range(seen))
               /\ n > 0 => \A q \in 0..4 :
                    /\ 4 * h.low <= percentile(Sorted(h.samples), q)
                    /\ percentile(Sorted(h.samples), q) <= 4 * h.high
                    /\ q > 0 => percentile(Sorted(h.samples), q - 1) <= percentile(Sorted(h.samples), q)
  <1> DEFINE n == Len(h.samples)
             inOrder == SubSeq(h.samples, h.cursor, n) \o SubSeq(h.samples, 1, h.cursor - 1)
             sorted == Sorted(h.samples)
  <1>1. /\ h \in HistogramType /\ seen \in Seq(Nat) /\ h.count = Len(seen) /\ h.total = TotalOf(seen)
        /\ Ring(h, seen) /\ Extremes(h, seen)
    BY DEF Recorded
  <1>2. h.samples \in Seq(Nat) /\ n \in Nat /\ Len(seen) \in Nat /\ HistogramCapacity \in Nat
    BY <1>1, ObservabilityAssumption DEF HistogramType
  <1>3. n <= Len(seen) /\ n <= HistogramCapacity /\ (n = Len(seen) \/ n = HistogramCapacity)
    BY <1>1 DEF Ring
  <1>4. n = Min({Len(seen), HistogramCapacity})
    <2> DEFINE L == Len(seen)
    <2> HIDE DEF L, n
    <2>1. L \in Int /\ HistogramCapacity \in Int /\ n <= L /\ n <= HistogramCapacity
          /\ (n = L \/ n = HistogramCapacity) /\ n \in Int
      BY <1>2, <1>3 DEF L
    <2>2. Min({L, HistogramCapacity}) = IF L <= HistogramCapacity THEN L ELSE HistogramCapacity
      BY <2>1, BoundsOfTwo
    <2>3. n = Min({L, HistogramCapacity})
      BY <2>1, <2>2
    <2> QED
      BY <2>3 DEF L
  <1>5. inOrder = SubSeq(seen, Len(seen) - n + 1, Len(seen))
    <2>1. inOrder \in Seq(Nat) /\ Len(inOrder) = n /\ EndsIn(seen, inOrder)
      BY <1>1, RingEndsSeen
    <2> HIDE DEF inOrder
    <2>2. inOrder = SubSeq(seen, Len(seen) - Len(inOrder) + 1, Len(seen))
      BY <1>1, <2>1, EndsInItsCut DEF EndsIn
    <2> QED
      BY <2>1, <2>2
  <1>6. seen # <<>> => h.low = Min(Range(seen)) /\ h.high = Max(Range(seen))
    <2> SUFFICES ASSUME seen # <<>> PROVE h.low = Min(Range(seen)) /\ h.high = Max(Range(seen))
      OBVIOUS
    <2>1. /\ h.low \in Range(seen) /\ h.high \in Range(seen)
          /\ \A v \in Range(seen) : h.low <= v /\ v <= h.high
      BY <1>1 DEF Extremes
    <2>2. Range(seen) \subseteq Nat
      BY <1>1 DEF Range
    <2>3. Min(Range(seen)) \in Range(seen) /\ \A v \in Range(seen) : Min(Range(seen)) <= v
      BY <2>1 DEF Min
    <2>4. Max(Range(seen)) \in Range(seen) /\ \A v \in Range(seen) : Max(Range(seen)) >= v
      <3>1. \A v \in Range(seen) : h.high >= v
        BY <2>1, <2>2
      <3> QED
        BY <2>1, <3>1 DEF Max
    <2> DEFINE least == Min(Range(seen))
               most == Max(Range(seen))
    <2>5. /\ least \in Nat /\ most \in Nat /\ h.low \in Nat /\ h.high \in Nat
          /\ least <= h.low /\ h.low <= least /\ h.high <= most /\ most <= h.high
      BY <2>1, <2>2, <2>3, <2>4
    <2> HIDE DEF least, most
    <2>6. h.low = least /\ h.high = most
      BY <2>5
    <2> QED
      BY <2>6 DEF least, most
  <1>7. n > 0 => \A q \in 0..4 :
          /\ 4 * h.low <= percentile(sorted, q)
          /\ percentile(sorted, q) <= 4 * h.high
          /\ q > 0 => percentile(sorted, q - 1) <= percentile(sorted, q)
    <2> SUFFICES ASSUME n > 0, NEW q \in 0..4
                 PROVE  /\ 4 * h.low <= percentile(sorted, q)
                        /\ percentile(sorted, q) <= 4 * h.high
                        /\ q > 0 => percentile(sorted, q - 1) <= percentile(sorted, q)
      OBVIOUS
    <2>1. /\ Len(sorted) = n
          /\ \A k \in 1..n : \E i \in 1..n : sorted[k] = h.samples[i]
          /\ \A i, k \in 1..n : i <= k => sorted[i] <= sorted[k]
      BY <1>2, SortedAscends
    <2> HIDE DEF sorted
    <2>2. \A i \in 1..n : h.samples[i] \in Range(seen)
      <3>1. \A j \in 1..n : Place(h.cursor, n, Len(seen), j) \in 1..Len(seen)
        <4>1. h.cursor \in 1..(n + 1) /\ h.cursor \in Nat
          BY <1>1, <1>2 DEF Ring
        <4> HIDE DEF n
        <4> QED
          BY <1>2, <1>3, <4>1, PlaceIsThere
      <3>2. \A j \in 1..n : h.samples[j] = seen[Place(h.cursor, n, Len(seen), j)]
        BY <1>1 DEF Ring
      <3>3. DOMAIN seen = 1..Len(seen)
        BY <1>1
      <3> QED
        BY <3>1, <3>2, <3>3 DEF Range
    <2>3. seen # <<>>
      <3>1. Len(seen) # 0
        BY <1>2, <1>3
      <3> QED
        BY <3>1
    <2>4. \A i \in 1..n : h.low <= h.samples[i] /\ h.samples[i] <= h.high /\ h.samples[i] \in Nat
      BY <1>1, <1>2, <2>2, <2>3 DEF Extremes
    <2>5. \A k \in 1..n : h.low <= sorted[k] /\ sorted[k] <= h.high /\ sorted[k] \in Nat
      BY <2>1, <2>4
    <2>6. Ascends(sorted)
      BY <1>2, <2>1, <2>5 DEF Ascends
    <2>7. h.low \in Int /\ h.high \in Int
      BY <1>1 DEF HistogramType
    <2>8. 4 * h.low <= percentile(sorted, q) /\ percentile(sorted, q) <= 4 * h.high
      <3>1. \A i \in 1..Len(sorted) : h.low <= sorted[i] /\ sorted[i] <= h.high
        BY <2>1, <2>5
      <3> QED
        BY <2>6, <2>7, <3>1, PercentileIsWithin
    <2>9. q > 0 => percentile(sorted, q - 1) <= percentile(sorted, q)
      <3>1. q > 0 => q \in 1..4
        OBVIOUS
      <3> QED
        BY <2>6, <3>1, PercentileRises
    <2> QED
      BY <2>8, <2>9
  <1> QED
    BY <1>1, <1>4, <1>5, <1>6, <1>7

LEMMA HistogramsMean == HistogramInv => HistogramsAreTrue
  <1> SUFFICES ASSUME HistogramInv PROVE HistogramsAreTrue
    OBVIOUS
  <1>1. ASSUME NEW m \in DOMAIN histograms PROVE Recorded(histograms[m], observed[m])
    BY DEF HistogramInv, HistogramOf
  <1> QED
    BY <1>1, RecordedIsTrue DEF HistogramsAreTrue

LEMMA ObserveRecords ==
    ASSUME HistogramInv, NEW m \in Metrics, NEW v \in Nat, Observe(m, v)
    PROVE  HistogramInv' /\ DOMAIN histograms' = DOMAIN histograms \union {m}
  <1> DEFINE h == HistogramOf(m)
             refused == h.total + v > FloatLimit
             g == IF refused THEN h ELSE Included(h, v)
             seen == IF refused THEN observed[m] ELSE Append(observed[m], v)
  <1>1. /\ histograms' = [x \in DOMAIN histograms \union {m} |-> IF x = m THEN g ELSE histograms[x]]
        /\ observed' = [observed EXCEPT ![m] = seen]
    BY DEF Observe, WithHistogram, HistogramInv
  <1>2. Recorded(h, observed[m]) /\ \A x \in Metrics : Recorded(HistogramOf(x), observed[x])
    BY DEF HistogramInv
  <1>3. Recorded(g, seen)
    BY <1>2, IncludedIsRecorded
  <1>4. observed \in [Metrics -> Seq(Nat)] /\ DOMAIN histograms \subseteq Metrics
        /\ \A x \in DOMAIN histograms : histograms[x] \in HistogramType
    BY DEF HistogramInv
  <1> HIDE DEF g, seen
  <1>5. g \in HistogramType /\ seen \in Seq(Nat)
    BY <1>3 DEF Recorded
  <1>6. DOMAIN histograms' = DOMAIN histograms \union {m}
    BY <1>1
  <1>7. histograms' \in [DOMAIN histograms' -> HistogramType] /\ DOMAIN histograms' \subseteq Metrics
    BY <1>1, <1>4, <1>5
  <1>8. observed' \in [Metrics -> Seq(Nat)]
    BY <1>1, <1>4, <1>5
  <1>9. ASSUME NEW x \in Metrics PROVE Recorded(HistogramOf(x)', observed'[x])
    <2>1. CASE x = m
      <3>1. HistogramOf(x)' = g /\ observed'[x] = seen
        BY <1>1, <1>4, <2>1 DEF HistogramOf
      <3> QED
        BY <1>3, <3>1
    <2>2. CASE x # m
      <3>1. HistogramOf(x)' = HistogramOf(x) /\ observed'[x] = observed[x]
        BY <1>1, <1>4, <2>2 DEF HistogramOf
      <3> QED
        BY <1>2, <3>1
    <2> QED
      BY <2>1, <2>2
  <1> QED
    BY <1>6, <1>7, <1>8, <1>9 DEF HistogramInv

LEMMA ResetRecords == ASSUME reset PROVE HistogramInv'
  <1>1. histograms' = [m \in {} |-> {}] /\ observed' = [m \in Metrics |-> <<>>]
    BY DEF reset
  <1>2. \A m \in Metrics : HistogramOf(m)' = NewHistogram /\ observed'[m] = <<>>
    BY <1>1 DEF HistogramOf
  <1>3. \A m \in Metrics : Recorded(HistogramOf(m)', observed'[m])
    BY <1>2, NewIsRecorded
  <1>4. histograms' \in [DOMAIN histograms' -> HistogramType] /\ DOMAIN histograms' \subseteq Metrics
    BY <1>1
  <1>5. observed' \in [Metrics -> Seq(Nat)]
    BY <1>1
  <1> QED
    BY <1>3, <1>4, <1>5 DEF HistogramInv

-----------------------------------------------------------------------------
UpdateType ==
    [kind : {"none"}] \union
    [kind : {"counter", "gauge", "histogram"}, metric : Metrics, value : Values]

KindTypeOK ==
    /\ specs \in [Metrics -> {"undeclared", "counter", "gauge", "histogram"}]
    /\ counters \in [Metrics -> Int] /\ gauges \in [Metrics -> Int]
    /\ pending \in [Threads -> UpdateType]

\* What was checked holds for as long as the declaration stands.
ChecksStand ==
    \A x \in Threads : pending[x].kind # "none" /\ pending[x].metric \notin redeclared =>
        _check_kind(pending[x].metric, pending[x].kind)

KindInv == KindTypeOK /\ ChecksStand /\ OneAnswerPerMetric

LEMMA RegisterKeepsKinds ==
    ASSUME KindInv, NEW m \in Metrics, NEW kind_ \in {"counter", "gauge"}, register(m, kind_)
    PROVE  KindInv'
  <1>1. /\ specs' = [specs EXCEPT ![m] = kind_] /\ redeclared' = redeclared \union {m}
        /\ UNCHANGED <<counters, gauges, histograms, pending>>
    BY DEF register
  <1>2. specs \in [Metrics -> {"undeclared", "counter", "gauge", "histogram"}]
    BY DEF KindInv, KindTypeOK
  <1>3. \A y \in Metrics \ redeclared' : y \in Metrics \ redeclared /\ specs'[y] = specs[y]
    BY <1>1, <1>2
  <1>4. KindTypeOK'
    BY <1>1, <1>2 DEF KindInv, KindTypeOK
  <1>5. ChecksStand'
    <2> SUFFICES ASSUME NEW x \in Threads, pending[x].kind # "none", pending[x].metric \notin redeclared'
                 PROVE  specs'[pending[x].metric] \in {"undeclared", pending[x].kind}
      BY <1>1 DEF ChecksStand, _check_kind
    <2>1. pending[x].metric \in Metrics
      BY DEF KindInv, KindTypeOK, UpdateType
    <2>2. specs[pending[x].metric] \in {"undeclared", pending[x].kind}
      BY <1>3, <2>1 DEF KindInv, ChecksStand, _check_kind
    <2> QED
      BY <1>3, <2>1, <2>2
  <1>6. OneAnswerPerMetric'
    BY <1>1, <1>3 DEF KindInv, OneAnswerPerMetric
  <1> QED
    BY <1>4, <1>5, <1>6 DEF KindInv

LEMMA CheckKindKeepsKinds ==
    ASSUME KindInv, NEW x \in Threads, NEW m \in Metrics, NEW v \in Values,
           NEW kind_ \in {"counter", "gauge", "histogram"}, CheckKind(x, m, kind_, v)
    PROVE  KindInv'
  <1> DEFINE new == [kind |-> kind_, metric |-> m, value |-> v]
  <1>1. /\ pending' = IF _check_kind(m, kind_) THEN [pending EXCEPT ![x] = new] ELSE pending
        /\ UNCHANGED <<specs, redeclared, counters, gauges, histograms>>
    BY DEF CheckKind
  <1>2. pending \in [Threads -> UpdateType]
    BY DEF KindInv, KindTypeOK
  <1>3. new \in UpdateType
    BY DEF UpdateType
  <1>4. KindTypeOK'
    BY <1>1, <1>2, <1>3 DEF KindInv, KindTypeOK
  <1>5. ChecksStand'
    <2> SUFFICES ASSUME NEW y \in Threads, pending'[y].kind # "none", pending'[y].metric \notin redeclared
                 PROVE  _check_kind(pending'[y].metric, pending'[y].kind)
      BY <1>1 DEF ChecksStand, _check_kind
    <2>1. CASE pending'[y] = pending[y]
      BY <2>1 DEF KindInv, ChecksStand
    <2>2. CASE pending'[y] # pending[y]
      <3>1. _check_kind(m, kind_) /\ pending'[y] = new
        BY <1>1, <1>2, <2>2
      <3>2. new.metric = m /\ new.kind = kind_
        OBVIOUS
      <3> HIDE DEF new
      <3> QED
        BY <3>1, <3>2
    <2> QED
      BY <2>1, <2>2
  <1>6. OneAnswerPerMetric'
    BY <1>1 DEF KindInv, OneAnswerPerMetric
  <1> QED
    BY <1>4, <1>5, <1>6 DEF KindInv

\* A series of a kind that the declaration allows.
LEMMA SeriesKeepsKinds ==
    ASSUME KindInv, NEW m \in Metrics, NEW kind_ \in {"counter", "gauge", "histogram"},
           UNCHANGED <<specs, redeclared>>, KindTypeOK', ChecksStand',
           m \in redeclared \/ _check_kind(m, kind_),
           \A y \in Metrics : y # m \/ kind_ # "counter" => counters'[y] = counters[y],
           \A y \in Metrics : y # m \/ kind_ # "gauge" => gauges'[y] = gauges[y],
           \A y \in Metrics : (y # m \/ kind_ # "histogram") /\ y \in DOMAIN histograms' => y \in DOMAIN histograms
    PROVE  KindInv'
  <1>1. ASSUME NEW y \in Metrics \ redeclared, specs[y] # "undeclared"
        PROVE  /\ counters'[y] # -1 => specs[y] = "counter"
               /\ gauges'[y] # -1 => specs[y] = "gauge"
               /\ y \in DOMAIN histograms' => specs[y] = "histogram"
    <2>1. /\ counters[y] # -1 => specs[y] = "counter"
          /\ gauges[y] # -1 => specs[y] = "gauge"
          /\ y \in DOMAIN histograms => specs[y] = "histogram"
      BY <1>1 DEF KindInv, OneAnswerPerMetric
    <2>2. y = m => specs[y] = kind_
      BY <1>1 DEF _check_kind
    <2> QED
      BY <2>1, <2>2
  <1>2. OneAnswerPerMetric'
    BY <1>1 DEF OneAnswerPerMetric
  <1> QED
    BY <1>2 DEF KindInv

LEMMA UpdateKeepsKinds ==
    ASSUME KindInv, HistogramInv, NEW x \in Threads, UpdateSeries(x)
    PROVE  KindInv' /\ HistogramInv'
  <1> DEFINE p == pending[x]
             m == p.metric
             k == p.kind
             v == p.value
             none == [kind |-> "none"]
  <1>1. /\ p.kind # "none" /\ pending' = [pending EXCEPT ![x] = none]
        /\ UNCHANGED <<specs, redeclared>>
    BY DEF UpdateSeries
  <1>2. /\ pending \in [Threads -> UpdateType] /\ counters \in [Metrics -> Int] /\ gauges \in [Metrics -> Int]
        /\ specs \in [Metrics -> {"undeclared", "counter", "gauge", "histogram"}]
    BY DEF KindInv, KindTypeOK
  <1>3. m \in Metrics /\ k \in {"counter", "gauge", "histogram"} /\ v \in Values
    BY <1>1, <1>2 DEF UpdateType
  <1>4. v \in Nat
    BY <1>3, ObservabilityAssumption
  <1>5. m \in redeclared \/ _check_kind(m, k)
    BY <1>1 DEF KindInv, ChecksStand
  <1>6. pending' \in [Threads -> UpdateType]
    BY <1>1, <1>2 DEF UpdateType
  <1>7. ChecksStand'
    <2> SUFFICES ASSUME NEW y \in Threads, pending'[y].kind # "none", pending'[y].metric \notin redeclared
                 PROVE  _check_kind(pending'[y].metric, pending'[y].kind)
      BY <1>1 DEF ChecksStand, _check_kind
    <2>1. none.kind = "none"
      OBVIOUS
    <2> HIDE DEF none
    <2>2. pending'[y] = pending[y]
      BY <1>1, <1>2, <2>1
    <2> QED
      BY <2>2 DEF KindInv, ChecksStand
  <1>8. CASE k = "counter"
    <2> DEFINE total == Max({counters[m], 0}) + v
    <2>1. /\ counters' = IF total > FloatLimit THEN counters ELSE [counters EXCEPT ![m] = total]
          /\ UNCHANGED <<gauges, histograms, observed>>
      BY <1>8 DEF UpdateSeries
    <2>2. total \in Int
      <3>1. counters[m] \in Int /\ 0 \in Int
        BY <1>2, <1>3
      <3>2. Max({counters[m], 0}) = IF counters[m] >= 0 THEN counters[m] ELSE 0
        BY <3>1, BoundsOfTwo
      <3> QED
        BY <1>4, <3>1, <3>2
    <2> HIDE DEF total, m, k, v, p, none
    <2>3. counters' \in [Metrics -> Int] /\ \A y \in Metrics : y # m => counters'[y] = counters[y]
      BY <1>2, <1>3, <2>1, <2>2
    <2>4. KindTypeOK'
      BY <1>1, <1>2, <1>6, <2>1, <2>3 DEF KindTypeOK
    <2>5. KindInv'
      BY <1>1, <1>3, <1>5, <1>7, <1>8, <2>1, <2>3, <2>4, SeriesKeepsKinds
    <2>6. HistogramInv'
      BY <2>1 DEF HistogramInv, HistogramOf
    <2> QED
      BY <2>5, <2>6
  <1>9. CASE k = "gauge"
    <2>1. gauges' = [gauges EXCEPT ![m] = v] /\ UNCHANGED <<counters, histograms, observed>>
      BY <1>9 DEF UpdateSeries
    <2> HIDE DEF m, k, v, p, none
    <2>2. gauges' \in [Metrics -> Int] /\ \A y \in Metrics : y # m => gauges'[y] = gauges[y]
      BY <1>2, <1>3, <1>4, <2>1
    <2>3. KindTypeOK'
      BY <1>1, <1>2, <1>6, <2>1, <2>2 DEF KindTypeOK
    <2>4. KindInv'
      BY <1>1, <1>3, <1>5, <1>7, <1>9, <2>1, <2>2, <2>3, SeriesKeepsKinds
    <2>5. HistogramInv'
      BY <2>1 DEF HistogramInv, HistogramOf
    <2> QED
      BY <2>4, <2>5
  <1>10. CASE k = "histogram"
    <2>1. Observe(m, v) /\ UNCHANGED <<counters, gauges>>
      BY <1>10 DEF UpdateSeries
    <2> HIDE DEF m, k, v, p, none
    <2>2. HistogramInv' /\ DOMAIN histograms' = DOMAIN histograms \union {m}
      BY <1>3, <1>4, <2>1, ObserveRecords
    <2>3. KindTypeOK'
      BY <1>1, <1>2, <1>6, <2>1 DEF KindTypeOK
    <2>4. KindInv'
      BY <1>1, <1>3, <1>5, <1>7, <1>10, <2>1, <2>2, <2>3, SeriesKeepsKinds
    <2> QED
      BY <2>2, <2>4
  <1> QED
    BY <1>3, <1>8, <1>9, <1>10

LEMMA ResetKeepsKinds == ASSUME KindInv, reset PROVE KindInv'
  <1>1. /\ counters' = [m \in Metrics |-> -1] /\ gauges' = [m \in Metrics |-> -1]
        /\ histograms' = [m \in {} |-> {}] /\ UNCHANGED <<specs, redeclared, pending>>
    BY DEF reset
  <1>2. /\ counters' \in [Metrics -> Int] /\ gauges' \in [Metrics -> Int] /\ DOMAIN histograms' = {}
        /\ \A m \in Metrics : counters'[m] = -1 /\ gauges'[m] = -1
    BY <1>1
  <1>3. KindTypeOK'
    BY <1>1, <1>2 DEF KindInv, KindTypeOK
  <1>4. ChecksStand'
    BY <1>1 DEF KindInv, ChecksStand, _check_kind
  <1>5. OneAnswerPerMetric'
    BY <1>2 DEF OneAnswerPerMetric
  <1> QED
    BY <1>3, <1>4, <1>5 DEF KindInv

LEMMA FinishKeepsKinds ==
    ASSUME KindInv, HistogramInv, NEW t, NEW status_, NEW v \in Values, Finish(t, status_, v)
    PROVE  KindInv' /\ HistogramInv'
  <1>1. UNCHANGED <<specs, redeclared, counters, gauges, pending>>
    BY DEF Finish
  <1>2. KindTypeOK' /\ ChecksStand'
    BY <1>1 DEF KindInv, KindTypeOK, ChecksStand, _check_kind
  <1>3. SpanMetric \in Metrics /\ v \in Nat
    BY ObservabilityAssumption DEF SpanMetric
  <1>4. CASE UNCHANGED <<histograms, observed>>
    <2>1. KindInv'
      BY <1>1, <1>2, <1>4 DEF KindInv, OneAnswerPerMetric
    <2>2. HistogramInv'
      BY <1>4 DEF HistogramInv, HistogramOf
    <2> QED
      BY <2>1, <2>2
  <1>5. CASE _check_kind(SpanMetric, "histogram") /\ Observe(SpanMetric, v)
    <2>1. HistogramInv' /\ DOMAIN histograms' = DOMAIN histograms \union {SpanMetric}
      BY <1>3, <1>5, ObserveRecords
    <2>2. KindInv'
      BY <1>1, <1>2, <1>3, <1>5, <2>1, SeriesKeepsKinds
    <2> QED
      BY <2>1, <2>2
  <1> QED
    BY <1>4, <1>5 DEF Finish

-----------------------------------------------------------------------------
ObserveInv == SpanInv /\ RetainInv /\ KindInv /\ HistogramInv

LEMMA ObserveInitially == ObserveInit => ObserveInv
  <1> SUFFICES ASSUME ObserveInit PROVE ObserveInv
    OBVIOUS
  <1>1. <<>> \in Seq(SpanType) /\ <<>> \in Seq(Nat) /\ Len(<<>>) = 0
    OBVIOUS
  <1>2. SpanInv
    <2>1. SpanTypeOK
      BY <1>1 DEF ObserveInit, SpanTypeOK, NoSpan
    <2>2. TasksOwnTheirSpans
      BY <1>1 DEF ObserveInit, TasksOwnTheirSpans, NoSpan
    <2>3. SpansNest
      BY <1>1 DEF ObserveInit, SpansNest
    <2> QED
      BY <2>1, <2>2, <2>3 DEF SpanInv
  <1>3. RetainInv
    BY <1>1, ObservabilityAssumption DEF ObserveInit, RetainInv, Latest, EndsIn
  <1>4. KindInv
    <2>1. KindTypeOK
      BY DEF ObserveInit, KindTypeOK, UpdateType
    <2>2. ChecksStand
      BY DEF ObserveInit, ChecksStand
    <2>3. OneAnswerPerMetric
      BY DEF ObserveInit, OneAnswerPerMetric
    <2> QED
      BY <2>1, <2>2, <2>3 DEF KindInv
  <1>5. HistogramInv
    <2>1. \A m \in Metrics : HistogramOf(m) = NewHistogram /\ observed[m] = <<>>
      BY DEF ObserveInit, HistogramOf
    <2>2. \A m \in Metrics : Recorded(HistogramOf(m), observed[m])
      BY <2>1, NewIsRecorded
    <2>3. /\ histograms \in [DOMAIN histograms -> HistogramType] /\ DOMAIN histograms \subseteq Metrics
          /\ observed \in [Metrics -> Seq(Nat)]
      BY <1>1 DEF ObserveInit
    <2> QED
      BY <2>2, <2>3 DEF HistogramInv
  <1> QED
    BY <1>2, <1>3, <1>4, <1>5 DEF ObserveInv

LEMMA SpansStand == ASSUME SpanInv, RetainInv, UNCHANGED spanVars PROVE SpanInv' /\ RetainInv'
  BY DEF spanVars, SpanInv, SpanTypeOK, TasksOwnTheirSpans, SpansNest, RetainInv

LEMMA MetricsStand == ASSUME KindInv, HistogramInv, UNCHANGED metricVars PROVE KindInv' /\ HistogramInv'
  BY DEF metricVars, KindInv, KindTypeOK, ChecksStand, _check_kind, OneAnswerPerMetric,
         HistogramInv, HistogramOf

LEMMA ObserveSteps == ObserveInv /\ [TraceNext \/ MeasureNext]_observeVars => ObserveInv'
  <1> SUFFICES ASSUME SpanInv, RetainInv, KindInv, HistogramInv, [TraceNext \/ MeasureNext]_observeVars
               PROVE  ObserveInv'
    BY DEF ObserveInv
  <1>1. ASSUME NEW t \in TraceTasks, NEW u \in TraceTasks, Spawn(t, u), UNCHANGED metricVars
        PROVE  ObserveInv'
    <2>1. SpanInv'
      BY <1>1, SpawnNests
    <2>2. RetainInv'
      BY <1>1 DEF Spawn, RetainInv
    <2> QED
      BY <1>1, <2>1, <2>2, MetricsStand DEF ObserveInv
  <1>2. ASSUME NEW t \in TraceTasks, BeginSpan(t), UNCHANGED metricVars PROVE ObserveInv'
    <2>1. SpanInv'
      BY <1>2, BeginSpanNests
    <2>2. RetainInv'
      BY <1>2 DEF BeginSpan, RetainInv
    <2> QED
      BY <1>2, <2>1, <2>2, MetricsStand DEF ObserveInv
  <1>3. CASE clear /\ UNCHANGED metricVars
    <2>1. SpanInv'
      BY <1>3 DEF clear, SpanInv, SpanTypeOK, TasksOwnTheirSpans, SpansNest
    <2>2. RetainInv'
      <3>1. finished' = <<>> /\ ended' = <<>>
        BY <1>3 DEF clear
      <3>2. <<>> \in Seq(Nat) /\ Len(<<>>) = 0
        OBVIOUS
      <3> QED
        BY <3>1, <3>2, ObservabilityAssumption DEF RetainInv, Latest, EndsIn
    <2> QED
      BY <1>3, <2>1, <2>2, MetricsStand DEF ObserveInv
  <1>4. ASSUME NEW t \in TraceTasks, NEW status_ \in {"OK", "ERROR"}, NEW v \in Values, Finish(t, status_, v)
        PROVE  ObserveInv'
    BY <1>4, FinishNests, FinishRetains, FinishKeepsKinds DEF ObserveInv
  <1>5. CASE MeasureNext
    <2>1. SpanInv' /\ RetainInv'
      BY <1>5, SpansStand DEF MeasureNext
    <2>2. ASSUME NEW m \in Metrics, NEW kind_ \in {"counter", "gauge"}, register(m, kind_)
          PROVE  KindInv' /\ HistogramInv'
      BY <2>2, RegisterKeepsKinds DEF register, HistogramInv, HistogramOf
    <2>3. ASSUME NEW x \in Threads, UpdateSeries(x) PROVE KindInv' /\ HistogramInv'
      BY <2>3, UpdateKeepsKinds
    <2>4. ASSUME NEW x \in Threads, NEW m \in Metrics, NEW kind_ \in {"counter", "gauge", "histogram"},
                 NEW v \in Values, CheckKind(x, m, kind_, v)
          PROVE  KindInv' /\ HistogramInv'
      BY <2>4, CheckKindKeepsKinds DEF CheckKind, HistogramInv, HistogramOf
    <2>5. ASSUME reset PROVE KindInv' /\ HistogramInv'
      BY <2>5, ResetKeepsKinds, ResetRecords
    <2>6. KindInv' /\ HistogramInv'
      BY <1>5, <2>2, <2>3, <2>4, <2>5 DEF MeasureNext
    <2> QED
      BY <2>1, <2>6 DEF ObserveInv
  <1>6. CASE UNCHANGED observeVars
    BY <1>6, SpansStand, MetricsStand DEF observeVars, ObserveInv
  <1> QED
    BY <1>1, <1>2, <1>3, <1>4, <1>5, <1>6 DEF TraceNext

\* Whatever tasks and threads do in whatever order: spans nest as the tasks do,
\* the latest are retained, a histogram tells of its latest observations and all
\* of its totals, and a metric has series of the kind it was declared.
THEOREM ObservationsAreSound == ObserveSpec => []ObservabilitySound
  <1>1. ObserveInv => ObservabilitySound
    BY RetainedMeans, HistogramsMean DEF ObserveInv, SpanInv, KindInv, ObservabilitySound
  <1> QED
    BY <1>1, ObserveInitially, ObserveSteps, PTL DEF ObserveSpec

-----------------------------------------------------------------------------
(* The vault: lines of a file, the blocks among them, and one block replaced *)

Texts == Sections \union Beliefs \union HumanLines \union TaskDomains \union {""}
LineType == [type : {"none", "header", "begin", "end", "text", "human"}, text : Texts]

\* The markers at b and e are a block's.
Pair(x, b, e) ==
    /\ b \in Marks(x) /\ e \in Marks(x) /\ b < e
    /\ \A m \in Marks(x) : m <= b \/ e <= m
    /\ x[b].type = "begin" /\ x[e].type = "end" /\ x[b].text = x[e].text

PairedUp(x) ==
    \A m \in Marks(x) : \E n \in Marks(x) : Pair(x, m, n) \/ Pair(x, n, m)

\* The n lines after the first p are the block of section s.
IsBlock(x, s, p, n) ==
    /\ n \in Nat /\ p \in Nat /\ n >= 2 /\ p + n <= Len(x)
    /\ x[p + 1] = BeginMark(s) /\ x[p + n] = EndMark(s)
    /\ \A m \in Marks(x) : m <= p + 1 \/ p + n <= m

\* y is x with the a lines after the first p replaced by b lines.
Spliced(x, y, p, a, b) ==
    /\ x \in Seq(LineType) /\ y \in Seq(LineType) /\ p \in Nat /\ a \in Nat /\ b \in Nat
    /\ p + a <= Len(x) /\ Len(y) + a = Len(x) + b
    /\ \A i \in 1..p : y[i] = x[i]
    /\ \A i \in 1..Len(x) : p + a < i => y[i - a + b] = x[i]

Outside(x, p, n) == {i \in 1..Len(x) : i <= p \/ p + n < i}

Moved(i, p, a, b) == IF i <= p THEN i ELSE i - a + b

LEMMA LinesAreTyped ==
    ASSUME NEW x \in Seq(LineType), NEW i \in 1..Len(x)
    PROVE  /\ x[i] \in LineType /\ i \in Nat /\ i <= Len(x) /\ Len(x) \in Nat
           /\ x[i] = [type |-> x[i].type, text |-> x[i].text]
           /\ \A s : x[i] = BeginMark(s) <=> x[i].type = "begin" /\ x[i].text = s
           /\ \A s : x[i] = EndMark(s) <=> x[i].type = "end" /\ x[i].text = s
  <1>1. x[i] \in LineType
    OBVIOUS
  <1>2. x[i] = [type |-> x[i].type, text |-> x[i].text]
    BY <1>1 DEF LineType
  <1>3. i \in Nat /\ i <= Len(x) /\ Len(x) \in Nat
    OBVIOUS
  <1> QED
    BY <1>1, <1>2, <1>3 DEF BeginMark, EndMark, Line

LEMMA MarksAreThere ==
    ASSUME NEW x \in Seq(LineType)
    PROVE  /\ Marks(x) \subseteq 1..Len(x) /\ Marks(x) \subseteq Nat /\ Len(x) \in Nat
           /\ \A m \in Marks(x) : x[m].type = "begin" \/ x[m].type = "end"
           /\ \A s : Begins(x, s) = {m \in Marks(x) : x[m].type = "begin" /\ x[m].text = s}
           /\ \A s : \A b \in Nat :
                Ends(x, s, b) = {m \in Marks(x) : b < m /\ x[m].type = "end" /\ x[m].text = s}
  <1>1. Len(x) \in Nat
    OBVIOUS
  <1>2. Marks(x) \subseteq 1..Len(x)
    BY DEF Marks
  <1>3. \A m \in Marks(x) : x[m].type = "begin" \/ x[m].type = "end"
    BY DEF Marks
  <1>4. ASSUME NEW s, NEW m \in 1..Len(x)
        PROVE  /\ m \in Begins(x, s) <=> m \in Marks(x) /\ x[m].type = "begin" /\ x[m].text = s
               /\ x[m] = EndMark(s) <=> m \in Marks(x) /\ x[m].type = "end" /\ x[m].text = s
    <2>1. /\ x[m] = BeginMark(s) <=> x[m].type = "begin" /\ x[m].text = s
          /\ x[m] = EndMark(s) <=> x[m].type = "end" /\ x[m].text = s
      <3>1. \A t : x[m] = BeginMark(t) <=> x[m].type = "begin" /\ x[m].text = t
        BY LinesAreTyped, Zenon
      <3>2. \A t : x[m] = EndMark(t) <=> x[m].type = "end" /\ x[m].text = t
        BY LinesAreTyped, Zenon
      <3> QED
        BY <3>1, <3>2, Zenon
    <2> QED
      BY <2>1 DEF Begins, Marks
  <1>5. \A s : Begins(x, s) \subseteq 1..Len(x)
    BY DEF Begins
  <1>6. \A s : Begins(x, s) = {m \in Marks(x) : x[m].type = "begin" /\ x[m].text = s}
    BY <1>2, <1>4, <1>5
  <1>7. ASSUME NEW s, NEW b \in Nat
        PROVE  Ends(x, s, b) = {m \in Marks(x) : b < m /\ x[m].type = "end" /\ x[m].text = s}
    <2>1. Ends(x, s, b) = {m \in 1..Len(x) : b < m /\ x[m] = EndMark(s)}
      BY <1>1 DEF Ends
    <2> QED
      BY <1>2, <1>4, <2>1
  <1> QED
    BY <1>1, <1>2, <1>3, <1>6, <1>7

LEMMA MarkedMeansPaired ==
    ASSUME NEW x \in Seq(LineType)
    PROVE  /\ WellMarked(x) <=> PairedUp(x)
           /\ \A i \in Nat : Owned(x, i) <=> \E b, e \in Marks(x) : Pair(x, b, e) /\ b < i /\ i < e
  <1>1. /\ Marks(x) \subseteq 1..Len(x) /\ Marks(x) \subseteq Nat /\ Len(x) \in Nat
        /\ \A m \in Marks(x) : x[m].type = "begin" \/ x[m].type = "end"
    BY MarksAreThere
  <1>2. ASSUME NEW m \in Marks(x), NEW n \in Marks(x)
        PROVE  /\ {y \in Marks(x) : m < y /\ y < n} = {} <=> \A y \in Marks(x) : y <= m \/ n <= y
    BY <1>1
  <1>3. ASSUME NEW m \in Marks(x), NEW n \in Marks(x)
        PROVE  (/\ {y \in Marks(x) : (m < y /\ y < n) \/ (n < y /\ y < m)} = {}
                /\ x[m].text = x[n].text
                /\ IF x[m].type = "begin" THEN m < n /\ x[n].type = "end"
                                          ELSE n < m /\ x[n].type = "begin")
               <=> Pair(x, m, n) \/ Pair(x, n, m)
    <2>1. x[m].type = "begin" \/ x[m].type = "end"
      BY <1>1
    <2>2. "begin" # "end"
      OBVIOUS
    <2>3. ASSUME m < n
          PROVE {y \in Marks(x) : (m < y /\ y < n) \/ (n < y /\ y < m)} = {} <=> \A y \in Marks(x) : y <= m \/ n <= y
      BY <1>1, <2>3
    <2>4. ASSUME n < m
          PROVE {y \in Marks(x) : (m < y /\ y < n) \/ (n < y /\ y < m)} = {} <=> \A y \in Marks(x) : y <= n \/ m <= y
      BY <1>1, <2>4
    <2>5. m \in Nat /\ n \in Nat /\ ~(m < n /\ n < m)
      BY <1>1
    <2>6. CASE m < n
      BY <2>1, <2>2, <2>3, <2>5, <2>6 DEF Pair
    <2>7. CASE n < m
      BY <2>1, <2>2, <2>4, <2>5, <2>7 DEF Pair
    <2>8. CASE ~(m < n) /\ ~(n < m)
      BY <2>1, <2>8 DEF Pair
    <2> QED
      BY <2>6, <2>7, <2>8
  <1>4. WellMarked(x) <=> PairedUp(x)
    BY <1>3 DEF WellMarked, PairedUp
  <1>5. ASSUME NEW i \in Nat PROVE Owned(x, i) <=> \E b, e \in Marks(x) : Pair(x, b, e) /\ b < i /\ i < e
    <2>1. ASSUME NEW b \in Marks(x), NEW e \in Marks(x)
          PROVE  x[e] = EndMark(x[b].text) <=> x[e].type = "end" /\ x[b].text = x[e].text
      <3>1. e \in 1..Len(x)
        BY <1>1
      <3>2. \A s : x[e] = EndMark(s) <=> x[e].type = "end" /\ x[e].text = s
        BY <3>1, LinesAreTyped, Zenon
      <3>3. x[e] = EndMark(x[b].text) <=> x[e].type = "end" /\ x[e].text = x[b].text
        BY <3>2, Zenon
      <3> QED
        BY <3>3
    <2>2. ASSUME NEW b \in Marks(x), NEW e \in Marks(x), b < i, i < e,
                 {m \in Marks(x) : b < m /\ m < e} = {}, x[b].type = "begin", x[e] = EndMark(x[b].text)
          PROVE  Pair(x, b, e)
      <3>1. b < e
        BY <1>1, <2>2
      <3> QED
        BY <1>2, <2>1, <2>2, <3>1 DEF Pair
    <2>3. ASSUME NEW b \in Marks(x), NEW e \in Marks(x), Pair(x, b, e), b < i, i < e
          PROVE  /\ {m \in Marks(x) : b < m /\ m < e} = {}
                 /\ x[b].type = "begin" /\ x[e] = EndMark(x[b].text)
      BY <1>2, <2>1, <2>3 DEF Pair
    <2> QED
      BY <2>2, <2>3 DEF Owned
  <1> QED
    BY <1>4, <1>5

-----------------------------------------------------------------------------
\* Where the other lines go.
LEMMA LinesMove ==
    ASSUME NEW x, NEW y, NEW p, NEW a, NEW b, Spliced(x, y, p, a, b)
    PROVE  /\ \A i \in Outside(x, p, a) :
                /\ i \in Nat /\ Moved(i, p, a, b) \in Outside(y, p, b) /\ Moved(i, p, a, b) \in Nat
                /\ y[Moved(i, p, a, b)] = x[i]
                /\ i <= p <=> Moved(i, p, a, b) <= p
                /\ p + a < i <=> p + b < Moved(i, p, a, b)
                /\ Moved(Moved(i, p, a, b), p, b, a) = i
           /\ \A i, j \in Outside(x, p, a) : i < j <=> Moved(i, p, a, b) < Moved(j, p, a, b)
           /\ Spliced(y, x, p, b, a)
  <1> DEFINE n == Len(x)  m == Len(y)
  <1>1. /\ p \in Nat /\ a \in Nat /\ b \in Nat /\ n \in Nat /\ m \in Nat /\ p + a <= n /\ m + a = n + b
        /\ \A i \in 1..p : y[i] = x[i]
        /\ \A i \in 1..n : p + a < i => y[i - a + b] = x[i]
        /\ x \in Seq(LineType) /\ y \in Seq(LineType)
    BY DEF Spliced
  <1>2. /\ Outside(x, p, a) = {i \in 1..n : i <= p \/ p + a < i}
        /\ Outside(y, p, b) = {i \in 1..m : i <= p \/ p + b < i}
    BY DEF Outside
  <1> HIDE DEF n, m
  <1>3. ASSUME NEW i \in Outside(x, p, a)
        PROVE  /\ i \in Nat /\ Moved(i, p, a, b) \in Outside(y, p, b) /\ Moved(i, p, a, b) \in Nat
               /\ y[Moved(i, p, a, b)] = x[i]
               /\ i <= p <=> Moved(i, p, a, b) <= p
               /\ p + a < i <=> p + b < Moved(i, p, a, b)
               /\ Moved(Moved(i, p, a, b), p, b, a) = i
    <2>1. i \in 1..n /\ (i <= p \/ p + a < i)
      BY <1>2
    <2>2. CASE i <= p
      BY <1>1, <1>2, <2>1, <2>2 DEF Moved
    <2>3. CASE p + a < i
      <3>1. Moved(i, p, a, b) = i - a + b /\ i - a + b \in Nat /\ p + b < i - a + b /\ i - a + b <= m
            /\ ~(i - a + b <= p) /\ ~(i <= p)
        BY <1>1, <2>1, <2>3 DEF Moved
      <3>2. (i - a + b) - b + a = i
        BY <1>1, <2>1
      <3>3. Moved(i - a + b, p, b, a) = i
        BY <3>1, <3>2 DEF Moved
      <3>4. y[i - a + b] = x[i]
        BY <1>1, <2>1, <2>3
      <3>5. i - a + b \in Outside(y, p, b)
        BY <1>1, <1>2, <2>1, <2>3, <3>1
      <3> QED
        BY <2>1, <2>3, <3>1, <3>3, <3>4, <3>5
    <2> QED
      BY <2>1, <2>2, <2>3
  <1>4. ASSUME NEW i \in Outside(x, p, a), NEW j \in Outside(x, p, a)
        PROVE  i < j <=> Moved(i, p, a, b) < Moved(j, p, a, b)
    BY <1>1, <1>2 DEF Moved
  <1>5. Spliced(y, x, p, b, a)
    <2>1. ASSUME NEW i \in 1..m, p + b < i PROVE x[i - b + a] = y[i]
      <3>1. i - b + a \in 1..n /\ p + a < i - b + a /\ (i - b + a) - a + b = i
        BY <1>1, <2>1
      <3> QED
        BY <1>1, <3>1
    <2>2. p + b <= m /\ n + b = m + a
      BY <1>1
    <2> QED
      BY <1>1, <2>1, <2>2 DEF Spliced, m, n
  <1> QED
    BY <1>3, <1>4, <1>5

\* The markers of a text are its block's, or outside.
LEMMA MarksOfABlock ==
    ASSUME NEW x \in Seq(LineType), NEW s, NEW p, NEW n, IsBlock(x, s, p, n)
    PROVE  /\ p + 1 \in Marks(x) /\ p + n \in Marks(x) /\ Pair(x, p + 1, p + n)
           /\ x[p + 1].type = "begin" /\ x[p + 1].text = s /\ x[p + n].type = "end"
           /\ \A m \in Marks(x) : m = p + 1 \/ m = p + n \/ m \in Outside(x, p, n)
           /\ \A m, k \in Marks(x) : Pair(x, m, k) =>
                \/ m = p + 1 /\ k = p + n
                \/ /\ m \in Outside(x, p, n) /\ k \in Outside(x, p, n)
                   /\ k <= p \/ p + n < m
           /\ p + 1 \notin Outside(x, p, n) /\ p + n \notin Outside(x, p, n)
  <1>1. /\ n \in Nat /\ p \in Nat /\ n >= 2 /\ p + n <= Len(x)
        /\ x[p + 1] = BeginMark(s) /\ x[p + n] = EndMark(s)
        /\ \A m \in Marks(x) : m <= p + 1 \/ p + n <= m
    BY DEF IsBlock
  <1>2. Marks(x) \subseteq 1..Len(x) /\ Marks(x) \subseteq Nat /\ Len(x) \in Nat
    BY MarksAreThere
  <1>3. p + 1 \in 1..Len(x) /\ p + n \in 1..Len(x) /\ p + 1 < p + n
    BY <1>1, <1>2
  <1>4. /\ x[p + 1].type = "begin" /\ x[p + 1].text = s
        /\ x[p + n].type = "end" /\ x[p + n].text = s
    BY <1>1 DEF BeginMark, EndMark, Line
  <1>5. p + 1 \in Marks(x) /\ p + n \in Marks(x)
    BY <1>3, <1>4 DEF Marks
  <1>6. Pair(x, p + 1, p + n)
    BY <1>1, <1>3, <1>4, <1>5 DEF Pair
  <1>7. \A m \in Marks(x) : m = p + 1 \/ m = p + n \/ m \in Outside(x, p, n)
    BY <1>1, <1>2 DEF Outside
  <1>8. p + 1 \notin Outside(x, p, n) /\ p + n \notin Outside(x, p, n)
    BY <1>1 DEF Outside
  <1>9. ASSUME NEW m \in Marks(x), NEW k \in Marks(x), Pair(x, m, k)
        PROVE  \/ m = p + 1 /\ k = p + n
               \/ /\ m \in Outside(x, p, n) /\ k \in Outside(x, p, n)
                  /\ k <= p \/ p + n < m
    <2>1. /\ m < k /\ x[m].type = "begin" /\ x[k].type = "end" /\ m \in Nat /\ k \in Nat
          /\ \A j \in Marks(x) : j <= m \/ k <= j
      BY <1>2, <1>9 DEF Pair
    <2>2. "begin" # "end"
      OBVIOUS
    <2>3. m # p + n /\ k # p + 1
      BY <1>4, <2>1, <2>2
    <2>4. CASE m = p + 1
      <3>1. k = p + n
        BY <1>1, <1>5, <1>9, <2>1, <2>3, <2>4
      <3> QED
        BY <2>4, <3>1
    <2>5. CASE m # p + 1
      <3>1. m \in Outside(x, p, n)
        BY <1>7, <2>3, <2>5
      <3>2. m <= p \/ p + n < m
        BY <3>1 DEF Outside
      <3>3. CASE m <= p
        <4>1. k <= p + 1
          BY <1>1, <1>5, <2>1, <3>3
        <4>2. k <= p
          BY <1>1, <2>1, <2>3, <4>1
        <4> QED
          BY <1>2, <3>1, <4>2 DEF Outside
      <3>4. CASE p + n < m
        <4>1. p + n < k
          BY <1>1, <2>1, <3>4
        <4> QED
          BY <1>2, <3>1, <3>4, <4>1 DEF Outside
      <3> QED
        BY <3>2, <3>3, <3>4
    <2> QED
      BY <2>4, <2>5
  <1> QED
    BY <1>4, <1>5, <1>6, <1>7, <1>8, <1>9

\* There is a block after the first p lines, or p lines and nothing after them.
Room(x, s, p, n) == IsBlock(x, s, p, n) \/ (n = 0 /\ p = Len(x))

LEMMA MarksOfARoom ==
    ASSUME NEW x \in Seq(LineType), NEW s, NEW p \in Nat, NEW n \in Nat, Room(x, s, p, n)
    PROVE  /\ \A m \in Marks(x) : m \in Outside(x, p, n) \/ (p < m /\ m <= p + n /\ (m = p + 1 \/ m = p + n))
           /\ \A m, k \in Marks(x) : Pair(x, m, k) =>
                \/ m = p + 1 /\ k = p + n /\ m \notin Outside(x, p, n) /\ k \notin Outside(x, p, n)
                \/ /\ m \in Outside(x, p, n) /\ k \in Outside(x, p, n)
                   /\ k <= p \/ p + n < m
  <1>1. CASE IsBlock(x, s, p, n)
    <2>1. n >= 2
      BY <1>1 DEF IsBlock
    <2> QED
      BY <1>1, <2>1, MarksOfABlock
  <1>2. CASE n = 0 /\ p = Len(x)
    <2>1. Marks(x) \subseteq 1..Len(x)
      BY MarksAreThere
    <2>2. \A m \in Marks(x) : m \in Outside(x, p, n) /\ m <= p
      BY <1>2, <2>1 DEF Outside
    <2> QED
      BY <2>2
  <1> QED
    BY <1>1, <1>2 DEF Room

LEMMA MarksMove ==
    ASSUME NEW x, NEW y, NEW p, NEW a, NEW b, Spliced(x, y, p, a, b), NEW i \in Outside(x, p, a)
    PROVE  i \in Marks(x) <=> Moved(i, p, a, b) \in Marks(y)
  <1>1. /\ Moved(i, p, a, b) \in Outside(y, p, b) /\ y[Moved(i, p, a, b)] = x[i]
    BY LinesMove
  <1>2. i \in 1..Len(x) /\ Moved(i, p, a, b) \in 1..Len(y)
    BY <1>1 DEF Outside
  <1> QED
    BY <1>1, <1>2 DEF Marks

\* A block that is not replaced is a block still.
LEMMA PairsMove ==
    ASSUME NEW x, NEW y, NEW s, NEW p, NEW a, NEW b, Spliced(x, y, p, a, b),
           Room(x, s, p, a), Room(y, s, p, b),
           NEW m \in Outside(x, p, a), NEW k \in Outside(x, p, a), Pair(x, m, k)
    PROVE  Pair(y, Moved(m, p, a, b), Moved(k, p, a, b))
  <1> DEFINE mm == Moved(m, p, a, b)  kk == Moved(k, p, a, b)
  <1>1. /\ x \in Seq(LineType) /\ y \in Seq(LineType) /\ p \in Nat /\ a \in Nat /\ b \in Nat
    BY DEF Spliced
  <1>2. Spliced(y, x, p, b, a)
    BY LinesMove
  <1>3. /\ m \in Marks(x) /\ k \in Marks(x) /\ m < k /\ \A j \in Marks(x) : j <= m \/ k <= j
        /\ x[m].type = "begin" /\ x[k].type = "end" /\ x[m].text = x[k].text
    BY DEF Pair
  <1>4. /\ mm \in Marks(y) /\ kk \in Marks(y) /\ mm < kk /\ mm \in Nat /\ kk \in Nat
        /\ y[mm] = x[m] /\ y[kk] = x[k] /\ m \in Nat /\ k \in Nat
        /\ k <= p <=> kk <= p
        /\ p + a < m <=> p + b < mm
    BY <1>3, LinesMove, MarksMove
  <1>5. k <= p \/ p + a < m
    BY <1>1, <1>3, MarksOfARoom
  <1>6. ASSUME NEW j \in Marks(y) PROVE j <= mm \/ kk <= j
    <2>1. j \in Nat
      BY <1>1, MarksAreThere
    <2>2. CASE j \in Outside(y, p, b)
      <3> DEFINE jj == Moved(j, p, b, a)
      <3>1. jj \in Outside(x, p, a) /\ jj \in Marks(x) /\ jj \in Nat /\ Moved(jj, p, a, b) = j
        BY <1>2, <2>2, LinesMove, MarksMove
      <3>2. jj <= m \/ k <= jj
        BY <1>3, <3>1
      <3>3. ~(m < jj) \/ ~(jj < k)
        BY <1>4, <3>1, <3>2
      <3>4. (m < jj <=> mm < Moved(jj, p, a, b)) /\ (jj < k <=> Moved(jj, p, a, b) < kk)
        BY <3>1, LinesMove
      <3> HIDE DEF jj, mm, kk
      <3>5. ~(mm < j) \/ ~(j < kk)
        BY <3>1, <3>3, <3>4
      <3> QED
        BY <1>4, <2>1, <3>5
    <2>3. CASE j \notin Outside(y, p, b)
      <3>1. p < j /\ j <= p + b
        BY <1>1, <2>3, MarksOfARoom
      <3> HIDE DEF mm, kk
      <3> QED
        BY <1>1, <1>4, <1>5, <2>1, <3>1
    <2> QED
      BY <2>2, <2>3
  <1> HIDE DEF mm, kk
  <1>7. Pair(y, mm, kk)
    BY <1>3, <1>4, <1>6 DEF Pair
  <1> QED
    BY <1>7 DEF mm, kk

LEMMA OwnedMoves ==
    ASSUME NEW x, NEW y, NEW s, NEW p, NEW a, NEW b, Spliced(x, y, p, a, b),
           Room(x, s, p, a), Room(y, s, p, b), NEW i \in Outside(x, p, a), Owned(x, i)
    PROVE  Owned(y, Moved(i, p, a, b))
  <1>1. /\ x \in Seq(LineType) /\ y \in Seq(LineType) /\ p \in Nat /\ a \in Nat /\ b \in Nat
    BY DEF Spliced
  <1>2. i \in Nat /\ Moved(i, p, a, b) \in Nat /\ (i <= p \/ p + a < i)
    BY LinesMove DEF Outside
  <1>3. PICK m \in Marks(x), k \in Marks(x) : Pair(x, m, k) /\ m < i /\ i < k
    BY <1>1, <1>2, MarkedMeansPaired
  <1>4. m \in Outside(x, p, a) /\ k \in Outside(x, p, a)
    <2>1. ~(m = p + 1 /\ k = p + a)
      BY <1>1, <1>2, <1>3
    <2> QED
      BY <1>1, <1>3, <2>1, MarksOfARoom
  <1>5. Pair(y, Moved(m, p, a, b), Moved(k, p, a, b))
    BY <1>3, <1>4, PairsMove
  <1>6. Moved(m, p, a, b) < Moved(i, p, a, b) /\ Moved(i, p, a, b) < Moved(k, p, a, b)
    BY <1>3, <1>4, LinesMove
  <1>7. Moved(m, p, a, b) \in Marks(y) /\ Moved(k, p, a, b) \in Marks(y)
    BY <1>5 DEF Pair
  <1> QED
    BY <1>1, <1>2, <1>5, <1>6, <1>7, MarkedMeansPaired

LEMMA PairingMoves ==
    ASSUME NEW x, NEW y, NEW s, NEW p, NEW a, NEW b, Spliced(x, y, p, a, b),
           PairedUp(x), Room(x, s, p, a), IsBlock(y, s, p, b)
    PROVE  PairedUp(y)
  <1>1. /\ x \in Seq(LineType) /\ y \in Seq(LineType) /\ p \in Nat /\ a \in Nat /\ b \in Nat
    BY DEF Spliced
  <1>2. Spliced(y, x, p, b, a) /\ Room(y, s, p, b)
    BY LinesMove DEF Room
  <1>3. ASSUME NEW j \in Marks(y) PROVE \E k \in Marks(y) : Pair(y, j, k) \/ Pair(y, k, j)
    <2>1. CASE j \in Outside(y, p, b)
      <3> DEFINE m == Moved(j, p, b, a)
      <3>1. m \in Outside(x, p, a) /\ m \in Marks(x) /\ Moved(m, p, a, b) = j
        BY <1>2, <2>1, LinesMove, MarksMove
      <3> HIDE DEF m
      <3>2. PICK n \in Marks(x) : Pair(x, m, n) \/ Pair(x, n, m)
        BY <3>1 DEF PairedUp
      <3>3. n \in Outside(x, p, a)
        BY <1>1, <3>1, <3>2, MarksOfARoom
      <3>4. Pair(y, j, Moved(n, p, a, b)) \/ Pair(y, Moved(n, p, a, b), j)
        <4>1. CASE Pair(x, m, n)
          BY <1>2, <3>1, <3>3, <4>1, PairsMove
        <4>2. CASE Pair(x, n, m)
          BY <1>2, <3>1, <3>3, <4>2, PairsMove
        <4> QED
          BY <3>2, <4>1, <4>2
      <3>5. Moved(n, p, a, b) \in Marks(y)
        BY <3>2, <3>3, MarksMove
      <3> QED
        BY <3>4, <3>5
    <2>2. CASE j \notin Outside(y, p, b)
      BY <1>1, <2>2, MarksOfABlock
    <2> QED
      BY <2>1, <2>2
  <1> QED
    BY <1>3 DEF PairedUp

\* A block's lines are owned and its markers are the runtime's.
LEMMA PeopleWriteOutside ==
    ASSUME NEW x \in Seq(LineType), NEW s, NEW p \in Nat, NEW n \in Nat, Room(x, s, p, n)
    PROVE  HumanText(x) = {i \in Outside(x, p, n) : x[i].type = "human" /\ ~Owned(x, i)}
  <1>1. Outside(x, p, n) \subseteq 1..Len(x)
    BY DEF Outside
  <1>2. ASSUME NEW i \in HumanText(x), i \notin Outside(x, p, n) PROVE FALSE
    <2>1. i \in 1..Len(x) /\ x[i].type = "human" /\ ~Owned(x, i) /\ i \in Nat
      BY <1>2 DEF HumanText
    <2>2. p < i /\ i <= p + n
      BY <1>2, <2>1 DEF Outside
    <2>3. IsBlock(x, s, p, n)
      BY <2>1, <2>2 DEF Room
    <2>4. /\ p + 1 \in Marks(x) /\ p + n \in Marks(x) /\ Pair(x, p + 1, p + n)
          /\ x[p + 1].type = "begin" /\ x[p + n].type = "end"
      BY <2>3, MarksOfABlock
    <2>5. "begin" # "human" /\ "end" # "human"
      OBVIOUS
    <2>6. i # p + 1 /\ i # p + n
      BY <2>1, <2>4, <2>5
    <2>7. p + 1 < i /\ i < p + n
      BY <2>1, <2>2, <2>6
    <2> QED
      BY <2>1, <2>4, <2>7, MarkedMeansPaired
  <1> QED
    BY <1>1, <1>2 DEF HumanText

LEMMA PeoplesTextStays ==
    ASSUME NEW x, NEW y, NEW s, NEW p, NEW a, NEW b, Spliced(x, y, p, a, b),
           Room(x, s, p, a), Room(y, s, p, b)
    PROVE  SameHumanText(x, y)
  <1>1. /\ x \in Seq(LineType) /\ y \in Seq(LineType) /\ p \in Nat /\ a \in Nat /\ b \in Nat
    BY DEF Spliced
  <1>2. Spliced(y, x, p, b, a)
    BY LinesMove
  <1>3. /\ HumanText(x) = {i \in Outside(x, p, a) : x[i].type = "human" /\ ~Owned(x, i)}
        /\ HumanText(y) = {i \in Outside(y, p, b) : y[i].type = "human" /\ ~Owned(y, i)}
    BY <1>1, PeopleWriteOutside
  <1>4. ASSUME NEW i \in HumanText(x) PROVE Moved(i, p, a, b) \in HumanText(y)
    <2> DEFINE j == Moved(i, p, a, b)
    <2>1. i \in Outside(x, p, a) /\ x[i].type = "human" /\ ~Owned(x, i)
      BY <1>3
    <2>2. j \in Outside(y, p, b) /\ y[j] = x[i] /\ Moved(j, p, b, a) = i
      BY <2>1, LinesMove
    <2> HIDE DEF j
    <2>3. ~Owned(y, j)
      BY <1>2, <2>1, <2>2, OwnedMoves
    <2>4. j \in HumanText(y)
      BY <1>3, <2>1, <2>2, <2>3
    <2> QED
      BY <2>4 DEF j
  <1>5. ASSUME NEW k \in HumanText(y) PROVE Moved(k, p, b, a) \in HumanText(x) /\ Moved(Moved(k, p, b, a), p, a, b) = k
    <2> DEFINE j == Moved(k, p, b, a)
    <2>1. k \in Outside(y, p, b) /\ y[k].type = "human" /\ ~Owned(y, k)
      BY <1>3
    <2>2. j \in Outside(x, p, a) /\ x[j] = y[k] /\ Moved(j, p, a, b) = k
      BY <1>2, <2>1, LinesMove
    <2> HIDE DEF j
    <2>3. ~Owned(x, j)
      BY <2>1, <2>2, OwnedMoves
    <2>4. j \in HumanText(x) /\ Moved(j, p, a, b) = k
      BY <1>3, <2>1, <2>2, <2>3
    <2> QED
      BY <2>4 DEF j
  <1> DEFINE moved == [i \in HumanText(x) |-> Moved(i, p, a, b)]
  <1>6. moved \in [HumanText(x) -> HumanText(y)]
    BY <1>4
  <1>7. \A i, j \in HumanText(x) : i < j => moved[i] < moved[j]
    <2>1. \A i, j \in HumanText(x) : i < j => Moved(i, p, a, b) < Moved(j, p, a, b)
      BY <1>3, LinesMove
    <2> QED
      BY <2>1
  <1>8. \A i \in HumanText(x) : y[moved[i]].text = x[i].text
    <2>1. \A i \in HumanText(x) : y[Moved(i, p, a, b)] = x[i]
      BY <1>3, LinesMove
    <2> QED
      BY <2>1
  <1>9. \A k \in HumanText(y) : \E i \in HumanText(x) : moved[i] = k
    BY <1>5
  <1> HIDE DEF moved
  <1> QED
    BY <1>6, <1>7, <1>8, <1>9 DEF SameHumanText

-----------------------------------------------------------------------------
\* Of a text whose markers pair up, what the surgery finds.
LEMMA BeginsHaveEnds ==
    ASSUME NEW x \in Seq(LineType), PairedUp(x), NEW t, NEW m \in Begins(x, t)
    PROVE  \E e \in Marks(x) : Pair(x, m, e)
  <1>1. m \in Marks(x) /\ x[m].type = "begin"
    BY MarksAreThere
  <1>2. PICK e \in Marks(x) : Pair(x, m, e) \/ Pair(x, e, m)
    BY <1>1 DEF PairedUp
  <1>3. ~Pair(x, e, m)
    BY <1>1 DEF Pair
  <1> QED
    BY <1>2, <1>3

LEMMA LinesBetween ==
    ASSUME NEW x \in Seq(LineType), NEW m \in Nat, NEW e \in Nat, NEW n \in Nat, m + n + 1 = e, e <= Len(x) + 1
    PROVE  /\ SubSeq(x, m + 1, e - 1) \in Seq(LineType) /\ Len(SubSeq(x, m + 1, e - 1)) = n
           /\ \A j \in 1..n : SubSeq(x, m + 1, e - 1)[j] = x[m + j]
  <1> DEFINE c == m + 1  d == e - 1
  <1>1. /\ c \in Nat /\ d \in Nat /\ 1 <= c /\ c <= d + 1 /\ d <= Len(x) /\ d - c + 1 = n
        /\ \A j \in 1..n : c + j - 1 = m + j
    <2>1. Len(x) \in Nat
      OBVIOUS
    <2> QED
      BY <2>1
  <1> HIDE DEF c, d
  <1>2. /\ SubSeq(x, c, d) \in Seq(LineType) /\ Len(SubSeq(x, c, d)) = d - c + 1
        /\ \A j \in 1..(d - c + 1) : SubSeq(x, c, d)[j] = x[c + j - 1]
    BY <1>1, CutOut
  <1>3. /\ SubSeq(x, c, d) \in Seq(LineType) /\ Len(SubSeq(x, c, d)) = n
        /\ \A j \in 1..n : SubSeq(x, c, d)[j] = x[m + j]
    BY <1>1, <1>2
  <1> QED
    BY <1>3 DEF c, d

LEMMA BlockIsFound ==
    ASSUME NEW x \in Seq(LineType), PairedUp(x), NEW t, NEW m \in Begins(x, t), \A k \in Begins(x, t) : m <= k,
           NEW e, Pair(x, m, e)
    PROVE  /\ _has_block(x, t) /\ BlockStart(x, t) = m /\ BlockEnd(x, t) = e
           /\ _extract_block(x, t) = SubSeq(x, m + 1, e - 1)
  <1>1. /\ m \in Marks(x) /\ x[m].type = "begin" /\ x[m].text = t /\ m \in Nat
        /\ Begins(x, t) \subseteq Nat /\ Marks(x) \subseteq Nat
    BY MarksAreThere
  <1>2. BlockStart(x, t) = m
    <2>1. \A n \in Begins(x, t) : (\A k \in Begins(x, t) : n <= k) => n = m
      BY <1>1
    <2> QED
      BY <2>1 DEF BlockStart, Min
  <1>3. Ends(x, t, m) = {j \in Marks(x) : m < j /\ x[j].type = "end" /\ x[j].text = t}
    BY <1>1, MarksAreThere
  <1>4. e \in Ends(x, t, m) /\ \A j \in Ends(x, t, m) : e <= j
    <2>1. /\ e \in Marks(x) /\ m < e /\ x[e].type = "end" /\ x[m].text = x[e].text
          /\ \A j \in Marks(x) : j <= m \/ e <= j
      BY DEF Pair
    <2>2. x[e].text = t
      BY <1>1, <2>1
    <2>3. e \in Ends(x, t, m)
      BY <1>3, <2>1, <2>2
    <2>4. ASSUME NEW j \in Ends(x, t, m) PROVE e <= j
      <3>1. j \in Marks(x) /\ m < j /\ j \in Nat
        BY <1>1, <1>3
      <3> QED
        BY <1>1, <2>1, <3>1
    <2> QED
      BY <2>3, <2>4
  <1>5. BlockEnd(x, t) = e
    <2>1. Ends(x, t, m) \subseteq Nat /\ e \in Nat
      BY <1>1, <1>3, <1>4
    <2>2. \A n \in Ends(x, t, m) : (\A k \in Ends(x, t, m) : n <= k) => n = e
      BY <1>4, <2>1
    <2> QED
      BY <1>2, <1>4, <2>2 DEF BlockEnd, Min
  <1>6. _has_block(x, t)
    BY <1>4 DEF _has_block
  <1> QED
    BY <1>2, <1>5, <1>6 DEF _extract_block

LEMMA NoBlockIsFound ==
    ASSUME NEW x, NEW t, Begins(x, t) = {}
    PROVE  ~_has_block(x, t) /\ _extract_block(x, t) = <<>>
  BY DEF _has_block, _extract_block

LEMMA FirstBegin ==
    ASSUME NEW x \in Seq(LineType), NEW t, Begins(x, t) # {}
    PROVE  \E m \in Begins(x, t) : \A k \in Begins(x, t) : m <= k
  <1>1. Begins(x, t) \in SUBSET Nat
    BY MarksAreThere
  <1> QED
    BY <1>1, LeastNumber

\* Another section's block is where it was, with the lines it had.
LEMMA OtherBlocksStay ==
    ASSUME NEW x, NEW y, NEW s, NEW p, NEW a, NEW b, Spliced(x, y, p, a, b),
           PairedUp(x), Room(x, s, p, a), IsBlock(y, s, p, b), NEW t, t # s
    PROVE  _extract_block(y, t) = _extract_block(x, t)
  <1>1. /\ x \in Seq(LineType) /\ y \in Seq(LineType) /\ p \in Nat /\ a \in Nat /\ b \in Nat
        /\ Len(x) \in Nat /\ Len(y) \in Nat
    BY DEF Spliced
  <1>2. Spliced(y, x, p, b, a) /\ Room(y, s, p, b) /\ PairedUp(y)
    BY LinesMove, PairingMoves DEF Room
  <1>3. ASSUME NEW k \in Begins(x, t) PROVE k \in Outside(x, p, a) /\ Moved(k, p, a, b) \in Begins(y, t)
    <2>1. k \in Marks(x) /\ x[k].type = "begin" /\ x[k].text = t
      BY <1>1, MarksAreThere
    <2>2. k \in Outside(x, p, a)
      <3>1. CASE IsBlock(x, s, p, a)
        <4>1. "begin" # "end"
          OBVIOUS
        <4>2. k # p + 1 /\ k # p + a
          BY <1>1, <2>1, <3>1, <4>1, MarksOfABlock
        <4> QED
          BY <1>1, <2>1, <3>1, <4>2, MarksOfABlock
      <3>2. CASE a = 0 /\ p = Len(x)
        <4>1. k \in 1..Len(x)
          BY <1>1, <2>1, MarksAreThere
        <4> QED
          BY <3>2, <4>1 DEF Outside
      <3> QED
        BY <3>1, <3>2 DEF Room
    <2>3. Moved(k, p, a, b) \in Marks(y) /\ y[Moved(k, p, a, b)] = x[k]
      BY <2>1, <2>2, MarksMove, LinesMove
    <2> QED
      BY <1>1, <2>1, <2>2, <2>3, MarksAreThere
  <1>4. ASSUME NEW k \in Begins(y, t)
        PROVE  \E j \in Begins(x, t) : Moved(j, p, a, b) = k
    <2>1. k \in Marks(y) /\ y[k].type = "begin" /\ y[k].text = t
      BY <1>1, MarksAreThere
    <2>2. "begin" # "end"
      OBVIOUS
    <2>3. k # p + 1 /\ k # p + b
      BY <1>1, <2>1, <2>2, MarksOfABlock
    <2>4. k \in Outside(y, p, b)
      BY <1>1, <2>1, <2>3, MarksOfABlock
    <2> DEFINE j == Moved(k, p, b, a)
    <2>5. j \in Outside(x, p, a) /\ j \in Marks(x) /\ x[j] = y[k] /\ Moved(j, p, a, b) = k
      BY <1>2, <2>1, <2>4, MarksMove, LinesMove
    <2> HIDE DEF j
    <2>6. j \in Begins(x, t)
      BY <1>1, <2>1, <2>5, MarksAreThere
    <2> QED
      BY <2>5, <2>6
  <1>5. CASE Begins(x, t) = {}
    <2>1. Begins(y, t) = {}
      BY <1>4, <1>5
    <2> QED
      BY <1>5, <2>1, NoBlockIsFound
  <1>6. CASE Begins(x, t) # {}
    <2>1. PICK m \in Begins(x, t) : \A k \in Begins(x, t) : m <= k
      BY <1>1, <1>6, FirstBegin
    <2>2. PICK e \in Marks(x) : Pair(x, m, e)
      BY <1>1, BeginsHaveEnds
    <2> DEFINE mm == Moved(m, p, a, b)  ee == Moved(e, p, a, b)
    <2>3. m \in Outside(x, p, a) /\ mm \in Begins(y, t) /\ m \in Marks(x)
      BY <1>3, <2>2 DEF Pair
    <2>4. e \in Outside(x, p, a) /\ (e <= p \/ p + a < m)
      BY <1>1, <2>2, <2>3, MarksOfARoom
    <2>5. Pair(y, mm, ee)
      BY <1>2, <2>2, <2>3, <2>4, PairsMove
    <2>6. \A k \in Begins(y, t) : mm <= k
      <3> SUFFICES ASSUME NEW k \in Begins(y, t) PROVE mm <= k
        OBVIOUS
      <3>1. PICK j \in Begins(x, t) : Moved(j, p, a, b) = k
        BY <1>4
      <3>2. j \in Outside(x, p, a) /\ m <= j /\ m \in Nat /\ j \in Nat /\ mm \in Nat /\ k \in Nat
        BY <1>3, <2>1, <2>3, <3>1, LinesMove
      <3>3. ~(j < m) /\ (j < m <=> k < mm)
        BY <2>3, <3>1, <3>2, LinesMove
      <3> HIDE DEF mm
      <3> QED
        BY <3>2, <3>3
    <2>7. /\ _extract_block(x, t) = SubSeq(x, m + 1, e - 1)
          /\ _extract_block(y, t) = SubSeq(y, mm + 1, ee - 1)
      BY <1>1, <1>2, <2>1, <2>2, <2>3, <2>5, <2>6, BlockIsFound
    <2>8. /\ m \in 1..Len(x) /\ e \in 1..Len(x) /\ m < e /\ m \in Nat /\ e \in Nat
          /\ mm \in 1..Len(y) /\ ee \in 1..Len(y) /\ mm \in Nat /\ ee \in Nat
      BY <1>1, <2>2, <2>3, <2>5, MarksAreThere DEF Pair
    <2>9. /\ ee - mm = e - m
          /\ \A j \in 1..(e - m - 1) : m + j \in 1..Len(x) /\ y[mm + j] = x[m + j]
      <3>1. CASE e <= p
        <4>1. mm = m /\ ee = e
          BY <1>1, <2>8, <3>1 DEF Moved
        <4>2. \A i \in 1..p : y[i] = x[i]
          BY DEF Spliced
        <4>3. \A j \in 1..(e - m - 1) : m + j \in 1..Len(x) /\ m + j \in 1..p
          BY <1>1, <2>8, <3>1
        <4> HIDE DEF mm, ee
        <4> QED
          BY <2>8, <4>1, <4>2, <4>3
      <3>2. CASE p + a < m
        <4>1. mm = m - a + b /\ ee = e - a + b
          BY <1>1, <2>8, <3>2 DEF Moved
        <4>2. \A i \in 1..Len(x) : p + a < i => y[i - a + b] = x[i]
          BY DEF Spliced
        <4>3. \A j \in 1..(e - m - 1) : m + j \in 1..Len(x) /\ p + a < m + j /\ (m + j) - a + b = (m - a + b) + j
          BY <1>1, <2>8, <3>2
        <4>4. (e - a + b) - (m - a + b) = e - m
          BY <1>1, <2>8
        <4> HIDE DEF mm, ee
        <4> QED
          BY <4>1, <4>2, <4>3, <4>4
      <3> QED
        BY <2>4, <3>1, <3>2
    <2> HIDE DEF mm, ee
    <2>10. SubSeq(x, m + 1, e - 1) = SubSeq(y, mm + 1, ee - 1)
      <3> DEFINE n == e - m - 1
      <3>1. n \in Nat /\ m + n + 1 = e /\ mm + n + 1 = ee
        BY <2>8, <2>9
      <3>2. \A j \in 1..n : m + j \in 1..Len(x) /\ y[mm + j] = x[m + j]
        BY <2>9
      <3> HIDE DEF n
      <3>3. /\ SubSeq(x, m + 1, e - 1) \in Seq(LineType) /\ Len(SubSeq(x, m + 1, e - 1)) = n
            /\ \A j \in 1..n : SubSeq(x, m + 1, e - 1)[j] = x[m + j]
        BY <1>1, <2>8, <3>1, LinesBetween
      <3>4. /\ SubSeq(y, mm + 1, ee - 1) \in Seq(LineType) /\ Len(SubSeq(y, mm + 1, ee - 1)) = n
            /\ \A j \in 1..n : SubSeq(y, mm + 1, ee - 1)[j] = y[mm + j]
        BY <1>1, <2>8, <3>1, LinesBetween
      <3> DEFINE u == SubSeq(x, m + 1, e - 1)  v == SubSeq(y, mm + 1, ee - 1)
      <3>5. /\ u \in Seq(LineType) /\ v \in Seq(LineType) /\ Len(u) = n /\ Len(v) = n
            /\ \A j \in 1..n : u[j] = v[j]
        BY <3>2, <3>3, <3>4
      <3> HIDE DEF u, v
      <3>6. u = v
        BY <3>5, SeqEqual
      <3> QED
        BY <3>6 DEF u, v
    <2> QED
      BY <2>7, <2>10
  <1> QED
    BY <1>5, <1>6

\* The block that replaces its section's first one is the section's block.
LEMMA OwnBlock ==
    ASSUME NEW x, NEW y, NEW s, NEW p, NEW a, NEW b, Spliced(x, y, p, a, b),
           PairedUp(x), Room(x, s, p, a), IsBlock(y, s, p, b), \A k \in Begins(x, s) : p + 1 <= k
    PROVE  _extract_block(y, s) = SubSeq(y, p + 2, p + b - 1)
  <1>1. /\ x \in Seq(LineType) /\ y \in Seq(LineType) /\ p \in Nat /\ a \in Nat /\ b \in Nat
        /\ Len(x) \in Nat /\ Len(y) \in Nat
    BY DEF Spliced
  <1>2. Spliced(y, x, p, b, a) /\ PairedUp(y)
    BY LinesMove, PairingMoves
  <1>3. /\ p + 1 \in Marks(y) /\ Pair(y, p + 1, p + b)
        /\ y[p + 1].type = "begin" /\ y[p + 1].text = s /\ y[p + b].type = "end"
    BY <1>1, MarksOfABlock
  <1>4. p + 1 \in Begins(y, s)
    BY <1>1, <1>3, MarksAreThere
  <1>5. ASSUME NEW k \in Begins(y, s) PROVE p + 1 <= k
    <2>1. k \in Marks(y) /\ y[k].type = "begin" /\ y[k].text = s /\ k \in Nat
      BY <1>1, MarksAreThere
    <2>2. "begin" # "end"
      OBVIOUS
    <2>3. k # p + b
      BY <1>3, <2>1, <2>2
    <2>4. CASE k \in Outside(y, p, b)
      <3> DEFINE j == Moved(k, p, b, a)
      <3>1. /\ j \in Outside(x, p, a) /\ j \in Marks(x) /\ x[j] = y[k] /\ j \in Nat
            /\ k <= p <=> j <= p
        BY <1>2, <2>1, <2>4, MarksMove, LinesMove
      <3> HIDE DEF j
      <3>2. j \in Begins(x, s)
        BY <1>1, <2>1, <3>1, MarksAreThere
      <3>3. p + 1 <= j
        BY <3>2
      <3> QED
        BY <1>1, <2>1, <3>1, <3>3
    <2>5. CASE k = p + 1
      BY <1>1, <2>5
    <2> QED
      BY <1>1, <2>1, <2>3, <2>4, <2>5, MarksOfABlock
  <1> DEFINE m == p + 1  e == p + b
  <1>6. m \in Begins(y, s) /\ (\A k \in Begins(y, s) : m <= k) /\ Pair(y, m, e)
    BY <1>3, <1>4, <1>5
  <1>7. m + 1 = p + 2 /\ e - 1 = p + b - 1
    BY <1>1
  <1> HIDE DEF m, e
  <1>8. _extract_block(y, s) = SubSeq(y, m + 1, e - 1)
    BY <1>1, <1>2, <1>6, BlockIsFound
  <1> QED
    BY <1>7, <1>8, Zenon

\* w is the m lines of u, then the n lines of v.
Then(w, u, v, m, n) ==
    /\ w \in Seq(LineType) /\ Len(w) = m + n
    /\ \A i \in 1..(m + n) : w[i] = IF i <= m THEN u[i] ELSE v[i - m]

LEMMA Joined ==
    ASSUME NEW u \in Seq(LineType), NEW v \in Seq(LineType), NEW m, NEW n, m = Len(u), n = Len(v)
    PROVE  Then(u \o v, u, v, m, n)
  BY ConcatProperties DEF Then

LEMMA PlacesInThen ==
    ASSUME NEW w, NEW u, NEW v, NEW m \in Nat, NEW n \in Nat, Then(w, u, v, m, n)
    PROVE  /\ \A i \in 1..m : w[i] = u[i]
           /\ \A i \in 1..n : w[m + i] = v[i]
  <1>1. \A i \in 1..(m + n) : w[i] = IF i <= m THEN u[i] ELSE v[i - m]
    BY DEF Then
  <1>2. ASSUME NEW i \in 1..n PROVE w[m + i] = v[i]
    <2>1. m + i \in 1..(m + n) /\ ~(m + i <= m) /\ m + i - m = i
      OBVIOUS
    <2> QED
      BY <1>1, <2>1
  <1>3. ASSUME NEW i \in 1..m PROVE w[i] = u[i]
    BY <1>1
  <1> QED
    BY <1>2, <1>3

\* y is x with the lines of u in place of the a lines after the first p.
PutIn(x, y, p, a, u) ==
    /\ Spliced(x, y, p, a, Len(u))
    /\ \A i \in 1..Len(u) : y[p + i] = u[i]

\* What the surgery puts together.
LEMMA PutTogether ==
    ASSUME NEW x \in Seq(LineType), NEW u \in Seq(LineType), NEW p \in Nat, NEW a \in Nat, p + a <= Len(x),
           NEW y, y = SubSeq(x, 1, p) \o u \o SubSeq(x, p + a + 1, Len(x))
    PROVE  PutIn(x, y, p, a, u)
  <1> DEFINE n == Len(x)  b == Len(u)  c == p + a + 1
             l == SubSeq(x, 1, p)  r == SubSeq(x, c, n)
  <1>1. n \in Nat /\ b \in Nat /\ c \in Nat /\ 1 <= c /\ c <= n + 1 /\ p <= n /\ 1 <= p + 1
    OBVIOUS
  <1>2. l \in Seq(LineType) /\ Len(l) = p - 1 + 1 /\ \A j \in 1..(p - 1 + 1) : l[j] = x[1 + j - 1]
    BY <1>1, CutOut
  <1>3. p - 1 + 1 = p /\ \A j \in 1..p : 1 + j - 1 = j
    OBVIOUS
  <1>4. r \in Seq(LineType) /\ Len(r) = n - c + 1 /\ \A j \in 1..(n - c + 1) : r[j] = x[c + j - 1]
    <2> HIDE DEF c
    <2> QED
      BY <1>1, CutOut DEF n
  <1>5. y = l \o u \o r
    OBVIOUS
  <1>6. c = p + a + 1 /\ p + a <= n
    OBVIOUS
  <1> HIDE DEF l, r, c
  <1>7. l \o u \in Seq(LineType) /\ Len(l \o u) = p + b
        /\ \A i \in 1..(p + b) : (l \o u)[i] = IF i <= p THEN l[i] ELSE u[i - p]
    <2>1. p = Len(l) /\ b = Len(u)
      BY <1>2, <1>3
    <2> HIDE DEF b
    <2>2. Then(l \o u, l, u, p, b)
      BY <1>2, <2>1, Joined, Zenon
    <2> QED
      BY <2>2 DEF Then
  <1> DEFINE k == l \o u
  <1>8. k \in Seq(LineType) /\ Len(k) = p + b /\ \A i \in 1..(p + b) : k[i] = IF i <= p THEN l[i] ELSE u[i - p]
    BY <1>7
  <1>9. y = k \o r
    BY <1>5
  <1> HIDE DEF k
  <1>10. /\ y \in Seq(LineType) /\ Len(y) = p + b + (n - c + 1)
         /\ \A i \in 1..(p + b + (n - c + 1)) : y[i] = IF i <= p + b THEN k[i] ELSE r[i - (p + b)]
    <2> DEFINE f == p + b  g == n - c + 1
    <2>1. f = Len(k) /\ g = Len(r)
      BY <1>4, <1>8
    <2> HIDE DEF f, g
    <2>2. Then(y, k, r, f, g)
      BY <1>4, <1>8, <1>9, <2>1, Joined, Zenon
    <2> QED
      BY <2>2 DEF f, g, Then
  <1> HIDE DEF n, b
  <1>11. Len(y) + a = n + b
    <2>1. Len(y) = p + b + (n - c + 1)
      BY <1>10
    <2>2. p + b + (n - c + 1) + a = n + b
      BY <1>1, <1>6
    <2> QED
      BY <2>1, <2>2, Zenon
  <1>12. ASSUME NEW i \in 1..p PROVE y[i] = x[i]
    <2>1. i \in 1..(p + b + (n - c + 1)) /\ i <= p + b /\ i <= p /\ i \in 1..(p + b)
      BY <1>1, <1>6
    <2>2. y[i] = l[i]
      BY <1>8, <1>10, <2>1
    <2> QED
      BY <1>2, <1>3, <2>2
  <1>13. ASSUME NEW i \in 1..b PROVE y[p + i] = u[i]
    <2>1. p + i \in 1..(p + b + (n - c + 1)) /\ p + i <= p + b /\ ~(p + i <= p) /\ p + i \in 1..(p + b) /\ p + i - p = i
      BY <1>1, <1>6
    <2>2. y[p + i] = k[p + i]
      BY <1>10, <2>1
    <2>3. k[p + i] = u[i]
      <3> DEFINE q == p + i
      <3>1. q \in 1..(p + b) /\ ~(q <= p) /\ q - p = i
        BY <2>1
      <3> HIDE DEF q
      <3>2. k[q] = IF q <= p THEN l[q] ELSE u[q - p]
        BY <1>8, <3>1
      <3>3. k[q] = u[i]
        BY <3>1, <3>2
      <3> QED
        BY <3>3 DEF q
    <2> QED
      BY <2>2, <2>3, Zenon
  <1>14. ASSUME NEW i \in 1..n, p + a < i PROVE y[i - a + b] = x[i]
    <2> DEFINE h == i - a + b  g == h - (p + b)
    <2>1. /\ h \in 1..(p + b + (n - c + 1)) /\ ~(h <= p + b)
          /\ g \in 1..(n - c + 1) /\ c + g - 1 = i
      BY <1>1, <1>6, <1>14
    <2> HIDE DEF h
    <2>2. y[h] = r[g]
      BY <1>10, <2>1
    <2> HIDE DEF g
    <2>3. y[h] = x[i]
      BY <1>4, <2>1, <2>2
    <2> QED
      BY <2>3 DEF h
  <1>15. Spliced(x, y, p, a, b)
    BY <1>1, <1>6, <1>10, <1>11, <1>12, <1>14 DEF Spliced, n
  <1> QED
    BY <1>13, <1>15 DEF b, PutIn

LEMMA PutAfter ==
    ASSUME NEW x \in Seq(LineType), NEW u \in Seq(LineType), NEW y, y = x \o u
    PROVE  PutIn(x, y, Len(x), 0, u)
  <1> DEFINE p == Len(x)  b == Len(u)
  <1>1. p \in Nat /\ b \in Nat /\ p = Len(x) /\ b = Len(u)
    OBVIOUS
  <1> HIDE DEF p, b
  <1>2. Then(y, x, u, p, b)
    BY <1>1, Joined
  <1>3. y \in Seq(LineType) /\ Len(y) = p + b
    BY <1>2 DEF Then
  <1>4. (\A i \in 1..p : y[i] = x[i]) /\ (\A i \in 1..b : y[p + i] = u[i])
    BY <1>1, <1>2, PlacesInThen
  <1>5. /\ \A i \in 1..Len(x) : ~(p + 0 < i)
        /\ p + 0 <= Len(x) /\ Len(y) + 0 = Len(x) + b
    BY <1>1, <1>3
  <1>6. Spliced(x, y, p, 0, b)
    BY <1>1, <1>3, <1>4, <1>5 DEF Spliced
  <1> QED
    BY <1>1, <1>4, <1>6 DEF PutIn, p

\* Text without markers, and no line that says there is no file.
Content(content) ==
    content \in Seq(LineType) /\ \A i \in 1..Len(content) : content[i].type \notin {"begin", "end"}

LEMMA ManagedIsABlock ==
    ASSUME NEW s \in Sections, NEW content, Content(content)
    PROVE  /\ Managed(s, content) \in Seq(LineType) /\ Len(Managed(s, content)) = Len(content) + 2
           /\ Len(content) \in Nat
           /\ Managed(s, content)[1] = BeginMark(s) /\ Managed(s, content)[Len(content) + 2] = EndMark(s)
           /\ \A i \in 1..Len(content) : Managed(s, content)[i + 1] = content[i]
  <1> DEFINE n == Len(content)  u == <<BeginMark(s)>>  v == <<EndMark(s)>>
  <1>1. content \in Seq(LineType) /\ n \in Nat
    BY DEF Content
  <1>2. BeginMark(s) \in LineType /\ EndMark(s) \in LineType
    BY DEF BeginMark, EndMark, Line, LineType, Texts
  <1>3. /\ u \in Seq(LineType) /\ Len(u) = 1 /\ u[1] = BeginMark(s)
        /\ v \in Seq(LineType) /\ Len(v) = 1 /\ v[1] = EndMark(s)
    BY <1>2
  <1>4. Managed(s, content) = u \o content \o v
    BY DEF Managed
  <1> HIDE DEF u, v, n
  <1> DEFINE k == u \o content
  <1>5. /\ k \in Seq(LineType) /\ Len(k) = n + 1
        /\ \A i \in 1..(n + 1) : k[i] = IF i <= 1 THEN u[i] ELSE content[i - 1]
    <2>1. 1 = Len(u) /\ n = Len(content)
      BY <1>3 DEF n
    <2>2. Then(k, u, content, 1, n)
      BY <1>1, <1>3, <2>1, Joined, Zenon
    <2>3. 1 + n = n + 1
      BY <1>1
    <2> HIDE DEF k
    <2> QED
      BY <2>2, <2>3 DEF Then
  <1>6. Managed(s, content) = k \o v
    BY <1>4
  <1> HIDE DEF k
  <1>7. /\ Managed(s, content) \in Seq(LineType) /\ Len(Managed(s, content)) = n + 2
        /\ \A i \in 1..(n + 2) : Managed(s, content)[i] = IF i <= n + 1 THEN k[i] ELSE v[i - (n + 1)]
    <2> DEFINE f == n + 1
    <2>1. f = Len(k) /\ 1 = Len(v) /\ f + 1 = n + 2
      BY <1>1, <1>3, <1>5
    <2> HIDE DEF f
    <2>2. Then(k \o v, k, v, f, 1)
      BY <1>3, <1>5, <2>1, Joined, Zenon
    <2>3. /\ Managed(s, content) \in Seq(LineType) /\ Len(Managed(s, content)) = n + 2
          /\ \A i \in 1..(n + 2) : Managed(s, content)[i] = IF i <= f THEN k[i] ELSE v[i - f]
      BY <1>6, <2>1, <2>2 DEF Then
    <2> QED
      BY <2>3 DEF f
  <1>8. Managed(s, content)[1] = BeginMark(s)
    <2>1. 1 \in 1..(n + 2) /\ 1 <= n + 1 /\ 1 \in 1..(n + 1) /\ 1 <= 1
      BY <1>1
    <2> QED
      BY <1>3, <1>5, <1>7, <2>1
  <1>9. Managed(s, content)[n + 2] = EndMark(s)
    <2>1. n + 2 \in 1..(n + 2) /\ ~(n + 2 <= n + 1) /\ (n + 2) - (n + 1) = 1
      BY <1>1
    <2> QED
      BY <1>3, <1>7, <2>1
  <1>10. ASSUME NEW i \in 1..n PROVE Managed(s, content)[i + 1] = content[i]
    <2>1. i + 1 \in 1..(n + 2) /\ i + 1 <= n + 1 /\ i + 1 \in 1..(n + 1) /\ ~(i + 1 <= 1) /\ i + 1 - 1 = i
      BY <1>1
    <2> QED
      BY <1>5, <1>7, <2>1
  <1> QED
    BY <1>1, <1>7, <1>8, <1>9, <1>10 DEF n

\* The lines after the first p are the block of s with this content.
HasBlock(y, s, p, content) ==
    /\ IsBlock(y, s, p, Len(content) + 2)
    /\ \A i \in 1..Len(content) : y[p + 1 + i] = content[i]

LEMMA BlockIsBlock ==
    ASSUME NEW s \in Sections, NEW content, Content(content), NEW x, NEW y, NEW p, NEW a,
           PutIn(x, y, p, a, Managed(s, content))
    PROVE  HasBlock(y, s, p, content)
  <1> DEFINE u == Managed(s, content)  n == Len(content)
  <1>1. /\ n \in Nat /\ Len(u) = n + 2 /\ u[1] = BeginMark(s) /\ u[n + 2] = EndMark(s)
        /\ \A i \in 1..n : u[i + 1] = content[i]
    BY ManagedIsABlock
  <1>2. Spliced(x, y, p, a, Len(u)) /\ \A i \in 1..Len(u) : y[p + i] = u[i]
    BY DEF PutIn
  <1> HIDE DEF u, n
  <1>3. Spliced(x, y, p, a, n + 2) /\ \A i \in 1..(n + 2) : y[p + i] = u[i]
    BY <1>1, <1>2, Zenon
  <1>4. y \in Seq(LineType) /\ p \in Nat /\ p + (n + 2) <= Len(y)
    <2> DEFINE c == Len(x)  d == Len(y)
    <2>1. y \in Seq(LineType) /\ p \in Nat /\ a \in Nat /\ c \in Nat /\ d \in Nat /\ p + a <= c /\ d + a = c + (n + 2)
      BY <1>3 DEF Spliced
    <2> HIDE DEF c, d
    <2>2. p + (n + 2) <= d
      BY <1>1, <2>1
    <2> QED
      BY <2>1, <2>2 DEF d
  <1>5. y[p + 1] = BeginMark(s) /\ y[p + (n + 2)] = EndMark(s)
    <2>1. 1 \in 1..(n + 2) /\ n + 2 \in 1..(n + 2)
      BY <1>1
    <2> QED
      BY <1>1, <1>3, <2>1
  <1>6. ASSUME NEW i \in 1..n PROVE y[p + 1 + i] = content[i]
    <2>1. i + 1 \in 1..(n + 2) /\ p + (i + 1) = p + 1 + i
      <3>1. n \in Nat /\ p \in Nat /\ i \in Nat /\ i <= n
        BY <1>1, <1>4
      <3>2. i + 1 \in 1..(n + 2)
        BY <3>1
      <3>3. p + (i + 1) = p + 1 + i
        BY <3>1
      <3> QED
        BY <3>2, <3>3
    <2>2. y[p + (i + 1)] = u[i + 1]
      BY <1>3, <2>1, Zenon
    <2> QED
      BY <1>1, <2>1, <2>2
  <1>7. ASSUME NEW m \in Marks(y) PROVE m <= p + 1 \/ p + (n + 2) <= m
    <2>1. m \in Nat /\ (y[m].type = "begin" \/ y[m].type = "end")
      BY <1>4, MarksAreThere
    <2>2. ASSUME ~(m <= p + 1), ~(p + (n + 2) <= m) PROVE FALSE
      <3> DEFINE i == m - (p + 1)
      <3>1. i \in 1..n /\ p + 1 + i = m
        BY <1>1, <1>4, <2>1, <2>2
      <3> HIDE DEF i
      <3>2. y[m] = content[i] /\ i \in 1..Len(content)
        BY <1>6, <3>1 DEF n
      <3> QED
        BY <2>1, <3>2 DEF Content
    <2> QED
      BY <2>2
  <1>8. n + 2 \in Nat /\ n + 2 >= 2
    BY <1>1
  <1> QED
    BY <1>1, <1>4, <1>5, <1>6, <1>7, <1>8 DEF IsBlock, HasBlock, n

\* Where the new block is, and what was there.
Written(x, y, s, content, p, a) ==
    /\ p \in Nat /\ a \in Nat /\ Spliced(x, y, p, a, Len(content) + 2) /\ Room(x, s, p, a)
    /\ HasBlock(y, s, p, content)
    /\ \A k \in Begins(x, s) : p + 1 <= k

LEMMA PutInIsWritten ==
    ASSUME NEW s \in Sections, NEW content, Content(content), NEW x, NEW y, NEW p \in Nat, NEW a \in Nat,
           PutIn(x, y, p, a, Managed(s, content)), Room(x, s, p, a), \A k \in Begins(x, s) : p + 1 <= k
    PROVE  Written(x, y, s, content, p, a)
  <1>1. Len(Managed(s, content)) = Len(content) + 2
    BY ManagedIsABlock
  <1>2. Spliced(x, y, p, a, Len(content) + 2)
    BY <1>1 DEF PutIn
  <1> QED
    BY <1>2, BlockIsBlock DEF Written

LEMMA BlockIsAppended ==
    ASSUME NEW x \in Seq(LineType), PairedUp(x), x # NoFile, NEW s \in Sections, ~_has_block(x, s),
           NEW content, Content(content), NEW y, y = NewText(x, s, content)
    PROVE  Written(x, y, s, content, Len(x), 0)
  <1> DEFINE u == Managed(s, content)  p == Len(x)  n == Len(content)
  <1>1. y = x \o u
    BY DEF NewText
  <1>2. u \in Seq(LineType) /\ Len(u) = n + 2 /\ n \in Nat /\ p \in Nat
    BY ManagedIsABlock
  <1>3. Begins(x, s) = {}
    <2>1. ASSUME Begins(x, s) # {} PROVE FALSE
      <3>1. PICK m \in Begins(x, s) : \A k \in Begins(x, s) : m <= k
        BY <2>1, FirstBegin
      <3>2. PICK e \in Marks(x) : Pair(x, m, e)
        BY BeginsHaveEnds
      <3> QED
        BY <3>1, <3>2, BlockIsFound
    <2> QED
      BY <2>1
  <1>8. PutIn(x, y, p, 0, u)
    BY <1>1, <1>2, PutAfter
  <1>9. Room(x, s, p, 0)
    BY DEF Room
  <1> HIDE DEF p
  <1>10. Written(x, y, s, content, p, 0)
    BY <1>2, <1>3, <1>8, <1>9, PutInIsWritten
  <1> QED
    BY <1>10 DEF p

LEMMA BlockIsReplaced ==
    ASSUME NEW x \in Seq(LineType), PairedUp(x), x # NoFile, NEW s \in Sections, _has_block(x, s),
           NEW content, Content(content), NEW y, y = NewText(x, s, content)
    PROVE  \E p, a \in Nat : Written(x, y, s, content, p, a)
  <1> DEFINE u == Managed(s, content)  n == Len(content)
  <1>1. Begins(x, s) # {}
    BY DEF _has_block
  <1>2. PICK m \in Begins(x, s) : \A k \in Begins(x, s) : m <= k
    BY <1>1, FirstBegin
  <1>3. PICK e \in Marks(x) : Pair(x, m, e)
    BY BeginsHaveEnds
  <1>4. BlockStart(x, s) = m /\ BlockEnd(x, s) = e
    BY <1>2, <1>3, BlockIsFound
  <1>5. y = SubSeq(x, 1, m - 1) \o u \o SubSeq(x, e + 1, Len(x))
    BY <1>4 DEF NewText, _replace_block
  <1>6. /\ m \in Marks(x) /\ m \in 1..Len(x) /\ e \in 1..Len(x) /\ m < e /\ m \in Nat /\ e \in Nat /\ Len(x) \in Nat
        /\ x[m] = BeginMark(s) /\ x[e].type = "end" /\ x[e].text = s
        /\ \A k \in Marks(x) : k <= m \/ e <= k
    <2>1. /\ m \in Marks(x) /\ m \in 1..Len(x) /\ e \in 1..Len(x) /\ m \in Nat /\ e \in Nat /\ Len(x) \in Nat
          /\ x[m].type = "begin" /\ x[m].text = s
      BY MarksAreThere
    <2>2. x[m] = BeginMark(s)
      BY DEF Begins
    <2>3. m < e /\ x[e].type = "end" /\ x[m].text = x[e].text /\ \A k \in Marks(x) : k <= m \/ e <= k
      BY <1>3 DEF Pair
    <2> QED
      BY <2>1, <2>2, <2>3
  <1>7. x[e] = EndMark(s)
    <2>1. \A t : x[e] = EndMark(t) <=> x[e].type = "end" /\ x[e].text = t
      BY <1>6, LinesAreTyped, Zenon
    <2> QED
      BY <1>6, <2>1, Zenon
  <1> DEFINE p == m - 1  a == e - m + 1
  <1>8. /\ p \in Nat /\ a \in Nat /\ a >= 2 /\ p + a = e /\ p + 1 = m /\ p + a + 1 = e + 1
    BY <1>6
  <1>9. u \in Seq(LineType) /\ Len(u) = n + 2 /\ n \in Nat
    BY ManagedIsABlock
  <1> HIDE DEF u, p, a
  <1>10. y = SubSeq(x, 1, p) \o u \o SubSeq(x, p + a + 1, Len(x))
    <2>1. p = m - 1
      BY DEF p
    <2> QED
      BY <1>5, <1>8, <2>1, Zenon
  <1>11. p + a <= Len(x)
    BY <1>6, <1>8
  <1>12. PutIn(x, y, p, a, u)
    BY <1>8, <1>9, <1>10, <1>11, PutTogether
  <1>13. Room(x, s, p, a)
    BY <1>6, <1>7, <1>8 DEF Room, IsBlock
  <1>14. \A k \in Begins(x, s) : p + 1 <= k
    BY <1>2, <1>8
  <1>15. Written(x, y, s, content, p, a)
    BY <1>8, <1>12, <1>13, <1>14, PutInIsWritten DEF u
  <1> QED
    BY <1>8, <1>15

LEMMA NoFileIsEmpty ==
    ASSUME NEW s
    PROVE  /\ NoFile \in Seq(LineType) /\ <<Header>> \in Seq(LineType) /\ <<Header>> # NoFile
           /\ PairedUp(<<Header>>) /\ HumanText(NoFile) = {} /\ HumanText(<<Header>>) = {}
           /\ Begins(NoFile, s) = {} /\ Begins(<<Header>>, s) = {}
  <1> DEFINE h == <<Header>>
  <1>1. Header \in LineType /\ Line("none", "") \in LineType /\ Header.type = "header" /\ Line("none", "").type = "none"
        /\ Header # Line("none", "")
    BY DEF Header, Line, LineType, Texts
  <1>2. h \in Seq(LineType) /\ NoFile \in Seq(LineType) /\ Len(h) = 1 /\ Len(NoFile) = 1
        /\ h[1].type = "header" /\ NoFile[1].type = "none" /\ h # NoFile
    <2> DEFINE l == Header  o == Line("none", "")
    <2>1. l \in LineType /\ o \in LineType /\ l # o /\ l.type = "header" /\ o.type = "none"
      BY <1>1
    <2>2. h = <<l>> /\ NoFile = <<o>>
      BY DEF NoFile
    <2> HIDE DEF l, o, h
    <2>3. <<l>>[1] = l /\ <<o>>[1] = o /\ <<l>> # <<o>>
      BY <2>1
    <2>4. <<l>> \in Seq(LineType) /\ <<o>> \in Seq(LineType) /\ Len(<<l>>) = 1 /\ Len(<<o>>) = 1
      BY <2>1
    <2> QED
      BY <2>1, <2>2, <2>3, <2>4
  <1>3. \A i \in 1..1 : i = 1
    OBVIOUS
  <1> HIDE DEF h
  <1>4. Marks(h) = {} /\ HumanText(h) = {} /\ HumanText(NoFile) = {}
    BY <1>2, <1>3 DEF Marks, HumanText
  <1>5. Begins(h, s) = {} /\ Begins(NoFile, s) = {}
    <2>1. BeginMark(s).type = "begin"
      BY DEF BeginMark, Line
    <2> QED
      BY <1>2, <1>3, <2>1 DEF Begins
  <1>6. PairedUp(h)
    BY <1>4 DEF PairedUp
  <1> QED
    BY <1>2, <1>4, <1>5, <1>6 DEF h

\* What an update does to the text it read.
Updated(x, y, s, content) ==
    /\ y \in Seq(LineType) /\ SameHumanText(x, y) /\ WellMarked(y)
    /\ \A t \in Sections \ {s} : _extract_block(y, t) = _extract_block(x, t)
    /\ _extract_block(y, s) = content

LEMMA WrittenIsUpdated ==
    ASSUME NEW x, NEW y, NEW s \in Sections, NEW content, Content(content), PairedUp(x),
           NEW p, NEW a, Written(x, y, s, content, p, a)
    PROVE  Updated(x, y, s, content)
  <1> DEFINE n == Len(content)  b == n + 2
  <1>1. /\ p \in Nat /\ a \in Nat /\ Spliced(x, y, p, a, b) /\ Room(x, s, p, a)
        /\ IsBlock(y, s, p, b) /\ \A i \in 1..n : y[p + 1 + i] = content[i]
        /\ \A k \in Begins(x, s) : p + 1 <= k
    BY DEF Written, HasBlock
  <1>2. content \in Seq(LineType) /\ n \in Nat /\ b = n + 2
    BY DEF Content
  <1> HIDE DEF b
  <1>3. x \in Seq(LineType) /\ y \in Seq(LineType) /\ Len(y) \in Nat /\ p + b <= Len(y)
    BY <1>1 DEF Spliced, IsBlock
  <1>4. Room(y, s, p, b)
    BY <1>1 DEF Room
  <1>5. SameHumanText(x, y)
    BY <1>1, <1>4, PeoplesTextStays
  <1>6. WellMarked(y)
    BY <1>1, <1>3, PairingMoves, MarkedMeansPaired
  <1>7. ASSUME NEW t \in Sections \ {s} PROVE _extract_block(y, t) = _extract_block(x, t)
    BY <1>1, OtherBlocksStay
  <1>8. _extract_block(y, s) = SubSeq(y, p + 2, p + b - 1)
    BY <1>1, OwnBlock
  <1>9. SubSeq(y, p + 2, p + b - 1) = content
    <2> DEFINE m == p + 1  e == p + b  u == SubSeq(y, p + 2, p + b - 1)
    <2>1. m \in Nat /\ e \in Nat /\ m + n + 1 = e /\ e <= Len(y) + 1 /\ m + 1 = p + 2 /\ p + 1 = m
          /\ e - 1 = p + b - 1
      BY <1>1, <1>2, <1>3
    <2> HIDE DEF m, n, e
    <2>2. /\ SubSeq(y, m + 1, e - 1) \in Seq(LineType) /\ Len(SubSeq(y, m + 1, e - 1)) = n
          /\ \A j \in 1..n : SubSeq(y, m + 1, e - 1)[j] = y[m + j]
      <3>1. n \in Nat
        BY <1>2
      <3> QED
        BY <1>3, <2>1, <3>1, LinesBetween
    <2>3. SubSeq(y, m + 1, e - 1) = u
      BY <2>1, Zenon
    <2> HIDE DEF u
    <2>4. u \in Seq(LineType) /\ Len(u) = n /\ \A j \in 1..n : u[j] = y[m + j]
      BY <2>2, <2>3, Zenon
    <2>5. \A j \in 1..n : y[m + j] = content[j]
      BY <1>1, <2>1, Zenon
    <2>6. Len(content) = n
      BY DEF n
    <2>7. u = content
      BY <1>2, <2>4, <2>5, <2>6, SeqEqual
    <2> QED
      BY <2>7 DEF u
  <1> QED
    BY <1>3, <1>5, <1>6, <1>7, <1>8, <1>9 DEF Updated

\* An update of a text whose markers pair up.
LEMMA BlockIsWritten ==
    ASSUME NEW x \in Seq(LineType), WellMarked(x), NEW s \in Sections, NEW content, Content(content)
    PROVE  Updated(x, NewText(x, s, content), s, content)
  <1>1. ASSUME NEW z \in Seq(LineType), PairedUp(z), z # NoFile
        PROVE  Updated(z, NewText(z, s, content), s, content)
    <2>1. CASE _has_block(z, s)
      <3>1. PICK p \in Nat, a \in Nat : Written(z, NewText(z, s, content), s, content, p, a)
        BY <1>1, <2>1, BlockIsReplaced
      <3> QED
        BY <1>1, <3>1, WrittenIsUpdated
    <2>2. CASE ~_has_block(z, s)
      <3>1. Written(z, NewText(z, s, content), s, content, Len(z), 0)
        BY <1>1, <2>2, BlockIsAppended
      <3> QED
        BY <1>1, <3>1, WrittenIsUpdated
    <2> QED
      BY <2>1, <2>2
  <1>2. CASE x # NoFile
    BY <1>1, <1>2, MarkedMeansPaired
  <1>3. CASE x = NoFile
    <2> DEFINE h == <<Header>>  y == NewText(x, s, content)
    <2>1. /\ h \in Seq(LineType) /\ h # NoFile /\ PairedUp(h) /\ HumanText(h) = {} /\ HumanText(NoFile) = {}
          /\ \A t : _extract_block(h, t) = <<>> /\ _extract_block(NoFile, t) = <<>> /\ ~_has_block(h, t)
      BY NoFileIsEmpty, NoBlockIsFound
    <2>2. NewText(h, s, content) = y
      BY <1>3, <2>1 DEF NewText
    <2> HIDE DEF h, y
    <2>3. Updated(h, y, s, content)
      BY <1>1, <2>1, <2>2
    <2>4. SameHumanText(x, y)
      <3>1. SameHumanText(h, y)
        BY <2>3 DEF Updated
      <3>2. PICK moved \in [HumanText(h) -> HumanText(y)] : \A k \in HumanText(y) : \E i \in HumanText(h) : moved[i] = k
        BY <3>1 DEF SameHumanText
      <3>3. HumanText(x) = {} /\ HumanText(y) = {}
        BY <1>3, <2>1, <3>2
      <3>4. moved \in [HumanText(x) -> HumanText(y)]
        BY <1>3, <2>1
      <3> QED
        BY <3>3, <3>4 DEF SameHumanText
    <2>5. Updated(x, y, s, content)
      BY <1>3, <2>1, <2>3, <2>4 DEF Updated
    <2> QED
      BY <2>5 DEF y
  <1> QED
    BY <1>2, <1>3

\* What a block holds where the markers pair up.
LEMMA BlocksHoldContent ==
    ASSUME NEW x \in Seq(LineType), WellMarked(x), NEW s
    PROVE  Content(_extract_block(x, s))
  <1>1. CASE Begins(x, s) = {}
    <2>1. Content(<<>>)
      BY DEF Content
    <2>2. _extract_block(x, s) = <<>>
      BY <1>1, NoBlockIsFound
    <2> QED
      BY <2>1, <2>2
  <1>2. CASE Begins(x, s) # {}
    <2>1. PairedUp(x)
      BY MarkedMeansPaired
    <2>2. PICK m \in Begins(x, s) : \A k \in Begins(x, s) : m <= k
      BY <1>2, FirstBegin
    <2>3. PICK e \in Marks(x) : Pair(x, m, e)
      BY <2>1, BeginsHaveEnds
    <2>4. _extract_block(x, s) = SubSeq(x, m + 1, e - 1)
      BY <2>1, <2>2, <2>3, BlockIsFound
    <2>5. m \in Nat /\ e \in Nat /\ e <= Len(x) /\ m < e /\ Len(x) \in Nat /\ \A k \in Marks(x) : k <= m \/ e <= k
      BY <2>3, MarksAreThere DEF Pair
    <2> DEFINE n == e - m - 1  u == SubSeq(x, m + 1, e - 1)
    <2>6. n \in Nat /\ m + n + 1 = e /\ e <= Len(x) + 1
      BY <2>5
    <2> HIDE DEF n
    <2>7. u \in Seq(LineType) /\ Len(u) = n /\ \A j \in 1..n : u[j] = x[m + j]
      BY <2>5, <2>6, LinesBetween
    <2> HIDE DEF u
    <2>8. ASSUME NEW j \in 1..n PROVE u[j].type \notin {"begin", "end"}
      <3>1. m + j \in 1..Len(x) /\ m + j \in Nat /\ ~(m + j <= m) /\ ~(e <= m + j)
        BY <2>5, <2>6
      <3>2. m + j \notin Marks(x)
        BY <2>5, <3>1
      <3>3. x[m + j].type \notin {"begin", "end"}
        BY <3>1, <3>2 DEF Marks
      <3> QED
        BY <2>7, <3>3
    <2>9. Content(u)
      BY <2>7, <2>8 DEF Content
    <2> QED
      BY <2>4, <2>9 DEF u
  <1> QED
    BY <1>1, <1>2

-----------------------------------------------------------------------------
\* Whatever a person left in the file, what the surgery makes of it is text.
LEMMA BoundsOfABlock ==
    ASSUME NEW x \in Seq(LineType), NEW t, _has_block(x, t)
    PROVE  /\ BlockStart(x, t) \in Nat /\ 1 <= BlockStart(x, t) /\ BlockEnd(x, t) \in Nat
           /\ BlockStart(x, t) < BlockEnd(x, t) /\ BlockEnd(x, t) <= Len(x)
  <1>1. PICK b \in Begins(x, t) : Ends(x, t, b) # {}
    BY DEF _has_block
  <1>2. PICK m \in Begins(x, t) : \A k \in Begins(x, t) : m <= k
    BY <1>1, FirstBegin
  <1>3. m \in Nat /\ b \in Nat /\ m <= b /\ 1 <= m /\ Len(x) \in Nat
    BY <1>1, <1>2 DEF Begins
  <1>4. BlockStart(x, t) = m
    <2>1. Begins(x, t) \subseteq Nat
      BY MarksAreThere
    <2>2. \A n \in Begins(x, t) : (\A k \in Begins(x, t) : n <= k) => n = m
      BY <1>2, <2>1
    <2> QED
      BY <1>2, <2>2 DEF BlockStart, Min
  <1>5. Ends(x, t, b) \subseteq Ends(x, t, m)
    BY <1>3 DEF Ends
  <1>6. Ends(x, t, m) # {} /\ Ends(x, t, m) \in SUBSET Nat
    BY <1>1, <1>3, <1>5 DEF Ends
  <1>7. PICK e \in Ends(x, t, m) : \A k \in Ends(x, t, m) : e <= k
    BY <1>6, LeastNumber
  <1>8. BlockEnd(x, t) = e
    <2>1. \A n \in Ends(x, t, m) : (\A k \in Ends(x, t, m) : n <= k) => n = e
      BY <1>6, <1>7
    <2> QED
      BY <1>4, <1>7, <2>1 DEF BlockEnd, Min
  <1>9. e \in Nat /\ m < e /\ e <= Len(x)
    BY <1>3, <1>6, <1>7 DEF Ends
  <1> QED
    BY <1>3, <1>4, <1>8, <1>9

LEMMA PiecesAreText ==
    ASSUME NEW x \in Seq(LineType), NEW m \in Nat, NEW n \in Nat, 1 <= m, m <= n + 1, n <= Len(x)
    PROVE  SubSeq(x, m, n) \in Seq(LineType)
  BY CutOut

LEMMA TextsJoined ==
    ASSUME NEW u \in Seq(LineType), NEW v \in Seq(LineType)
    PROVE  u \o v \in Seq(LineType)
  BY Joined DEF Then

LEMMA NewTextIsText ==
    ASSUME NEW x \in Seq(LineType), NEW s \in Sections, NEW content \in Seq(LineType)
    PROVE  NewText(x, s, content) \in Seq(LineType)
  <1> DEFINE u == Managed(s, content)
  <1>1. u \in Seq(LineType)
    <2>1. BeginMark(s) \in LineType /\ EndMark(s) \in LineType
      BY DEF BeginMark, EndMark, Line, LineType, Texts
    <2>2. <<BeginMark(s)>> \in Seq(LineType) /\ <<EndMark(s)>> \in Seq(LineType)
      BY <2>1
    <2>3. <<BeginMark(s)>> \o content \in Seq(LineType)
      BY <2>2, TextsJoined
    <2> QED
      BY <2>2, <2>3, TextsJoined DEF Managed
  <1> HIDE DEF u
  <1>2. <<Header>> \o u \in Seq(LineType) /\ x \o u \in Seq(LineType)
    BY <1>1, NoFileIsEmpty, TextsJoined
  <1>3. ASSUME _has_block(x, s) PROVE _replace_block(x, s, u) \in Seq(LineType)
    <2> DEFINE c == BlockStart(x, s) - 1  d == BlockEnd(x, s) + 1  n == Len(x)
    <2>1. c \in Nat /\ d \in Nat /\ n \in Nat /\ 1 <= d /\ d <= n + 1 /\ c <= Len(x) /\ 1 <= c + 1
      BY <1>3, BoundsOfABlock
    <2> HIDE DEF c, d
    <2>2. SubSeq(x, 1, c) \in Seq(LineType) /\ SubSeq(x, d, n) \in Seq(LineType)
      BY <2>1, PiecesAreText
    <2>3. SubSeq(x, 1, c) \o u \in Seq(LineType)
      BY <1>1, <2>2, TextsJoined
    <2>4. (SubSeq(x, 1, c) \o u) \o SubSeq(x, d, n) \in Seq(LineType)
      BY <2>2, <2>3, TextsJoined
    <2> QED
      BY <2>4 DEF _replace_block, c, d
  <1> QED
    BY <1>2, <1>3 DEF NewText, u

LEMMA ExtractIsText ==
    ASSUME NEW x \in Seq(LineType), NEW t
    PROVE  _extract_block(x, t) \in Seq(LineType)
  <1>1. CASE ~_has_block(x, t)
    BY <1>1 DEF _extract_block
  <1>2. CASE _has_block(x, t)
    <2> DEFINE c == BlockStart(x, t) + 1  d == BlockEnd(x, t) - 1
    <2>1. c \in Nat /\ d \in Nat /\ 1 <= c /\ c <= d + 1 /\ d <= Len(x)
      <3>1. Len(x) \in Nat
        OBVIOUS
      <3> QED
        BY <1>2, <3>1, BoundsOfABlock
    <2> HIDE DEF c, d
    <2>2. SubSeq(x, c, d) \in Seq(LineType)
      BY <2>1, PiecesAreText
    <2> QED
      BY <1>2, <2>2 DEF _extract_block, c, d
  <1> QED
    BY <1>1, <1>2

-----------------------------------------------------------------------------
VaultSpec == VaultInit /\ [][VaultNext]_vaultVars

CallType ==
    [pc : {"idle", "next", "compose", "replace"}, section : Sections \union {""},
     todo : SUBSET TaskDomains, lines : Seq(LineType), fresh : BOOLEAN]

EventType ==
    [task : DOMAIN TaskDomain,
     type : {"TASK_REQUESTED", "USER_CORRECTION", "STATE_ROLLBACK_TRIGGERED", "MUTATION_COMMITTED"}, day : Nat]

VaultTypeOK ==
    /\ file \in Seq(LineType) /\ kind \in {"belief", "playbook"} /\ deaths \in Nat /\ today \in Nat
    /\ call \in [VaultWriters -> CallType] /\ history \in Seq(EventType)

\* The rules of the playbook, one more of them.
OneMore(lines) == \E d \in TaskDomains : lines = _extract_block(file, "reflections") \o <<Line("text", d)>>

\* The part of a call that does not depend on the text of the file.
CallFitsKind(c) ==
    /\ kind = "belief" => c.pc \in {"idle", "replace"}
    /\ kind = "belief" /\ c.pc = "replace" => c.section \in Sections
    /\ kind = "playbook" /\ c.pc # "idle" => c.section = "reflections"

\* While nobody saved since an update read the file, what it is about to write is
\* the file's text with the section's new content: the content that was asked for
\* in a belief document, the rules there are and one more in the playbook.
CallFitsFile(c) ==
    /\ kind = "belief" /\ c.pc = "replace" =>
          \E b \in Beliefs : c.lines = NewText(file, c.section, <<Line("text", b)>>)
    /\ kind = "playbook" /\ c.pc = "compose" => OneMore(c.lines)
    /\ kind = "playbook" /\ c.pc = "replace" =>
          \E lines \in Seq(LineType) : OneMore(lines) /\ c.lines = NewText(file, "reflections", lines)

CallFits(c) == CallFitsKind(c) /\ (c.fresh => CallFitsFile(c))

VaultInv == VaultTypeOK /\ \A w \in VaultWriters : CallFits(call[w])

LEMMA TextLines ==
    /\ \A t \in Texts : /\ Line("text", t) \in LineType /\ Line("human", t) \in LineType
                        /\ Line("text", t).type = "text" /\ <<Line("text", t)>> \in Seq(LineType)
                        /\ <<Line("human", t)>> \in Seq(LineType)
    /\ Beliefs \subseteq Texts /\ HumanLines \subseteq Texts /\ TaskDomains \subseteq Texts
    /\ "reflections" \in Sections
  <1>1. ASSUME NEW t \in Texts
        PROVE  /\ Line("text", t) \in LineType /\ Line("human", t) \in LineType
               /\ Line("text", t).type = "text"
    BY DEF Line, LineType
  <1>2. ASSUME NEW t \in Texts
        PROVE  <<Line("text", t)>> \in Seq(LineType) /\ <<Line("human", t)>> \in Seq(LineType)
    BY <1>1
  <1> QED
    BY <1>1, <1>2 DEF Texts, Sections

LEMMA EventsInOrder ==
    ASSUME NEW S, IsFiniteSet(S)
    PROVE  SetToSeq(S) \in Seq(S)
  <1> DEFINE n == Cardinality(S)
  <1>1. n \in Nat /\ ExistsBijection(1..n, S)
    BY FS_CardinalityType
  <1>2. \E f \in [1..n -> S] : IsInjective(f)
    BY <1>1 DEF ExistsBijection, Bijection, Injection, IsInjective
  <1>3. SetToSeq(S) \in [1..n -> S]
    BY <1>2 DEF SetToSeq
  <1> QED
    BY <1>1, <1>3

LEMMA NoCallIsACall == NoCall \in CallType /\ NoCall.pc = "idle"
  <1>1. <<>> \in Seq(LineType) /\ {} \in SUBSET TaskDomains /\ "" \in Sections \union {""}
    OBVIOUS
  <1> QED
    BY <1>1 DEF NoCall, CallType

LEMMA VaultInitially == VaultInit => VaultInv
  <1> SUFFICES ASSUME VaultInit PROVE VaultInv
    OBVIOUS
  <1>1. file \in Seq(LineType)
    BY NoFileIsEmpty, TextLines DEF VaultInit
  <1>2. history \in Seq(EventType)
    <2> DEFINE D == DOMAIN TaskDomain
               S == {[task |-> t, type |-> "TASK_REQUESTED", day |-> 0] : t \in D}
               f == [t \in D |-> [task |-> t, type |-> "TASK_REQUESTED", day |-> 0]]
    <2>1. IsFiniteSet(S)
      <3>1. IsFiniteSet(D)
        BY VaultAssumption
      <3>2. f \in Surjection(D, S)
        BY DEF Surjection
      <3> HIDE DEF D, S, f
      <3> QED
        BY <3>1, <3>2, FS_Surjection
    <2>2. S \subseteq EventType
      BY DEF EventType
    <2>3. history = SetToSeq(S)
      BY DEF VaultInit
    <2> HIDE DEF S
    <2>4. history \in Seq(S)
      BY <2>1, <2>3, EventsInOrder
    <2> QED
      BY <2>2, <2>4
  <1>3. NoCall \in CallType
    BY NoCallIsACall
  <1>4. CallFits(NoCall)
    BY DEF NoCall, CallFits, CallFitsKind, CallFitsFile
  <1> QED
    BY <1>1, <1>2, <1>3, <1>4 DEF VaultInv, VaultTypeOK, VaultInit

\* A call goes on and the file stays.
LEMMA OneCallMoves ==
    ASSUME VaultInv, NEW w \in VaultWriters, NEW c \in CallType, CallFits(c), SetCall(w, c),
           UNCHANGED <<file, kind, history, today>>, deaths' \in Nat
    PROVE  VaultInv'
  <1>1. VaultTypeOK'
    BY DEF VaultInv, VaultTypeOK, SetCall
  <1>2. ASSUME NEW v \in VaultWriters PROVE call'[v] = IF v = w THEN c ELSE call[v]
    BY DEF VaultInv, VaultTypeOK, SetCall
  <1>4. ASSUME NEW v \in VaultWriters PROVE CallFits(call[v])'
    <2>1. CASE v = w
      <3>1. call'[v] = c
        BY <1>2, <2>1
      <3> QED
        BY <3>1 DEF CallFits, CallFitsKind, CallFitsFile, OneMore
    <2>2. CASE v # w
      <3>1. call'[v] = call[v] /\ CallFits(call[v])
        BY <1>2, <2>2 DEF VaultInv
      <3> QED
        BY <3>1 DEF CallFits, CallFitsKind, CallFitsFile, OneMore
    <2> QED
      BY <2>1, <2>2
  <1> QED
    BY <1>1, <1>4 DEF VaultInv

\* The file is saved: what the calls have read is outdated.
LEMMA FileIsSaved ==
    ASSUME VaultInv, file' \in Seq(LineType), UNCHANGED <<kind, history, today, deaths>>,
           call' \in [VaultWriters -> CallType],
           \A w \in VaultWriters : CallFitsKind(call'[w]) /\ ~(call'[w].pc \in {"compose", "replace"} /\ call'[w].fresh)
    PROVE  VaultInv'
  <1>1. VaultTypeOK'
    BY DEF VaultInv, VaultTypeOK
  <1>2. ASSUME NEW v \in VaultWriters PROVE CallFits(call[v])'
    <2>1. CallFitsKind(call'[v]) /\ ~(call'[v].pc \in {"compose", "replace"} /\ call'[v].fresh)
      OBVIOUS
    <2>2. CallFitsKind(call[v])'
      BY <2>1 DEF CallFitsKind
    <2>3. call'[v].fresh => CallFitsFile(call[v])'
      BY <2>1 DEF CallFitsFile
    <2> QED
      BY <2>2, <2>3 DEF CallFits
  <1> QED
    BY <1>1, <1>2 DEF VaultInv

LEMMA OutdatedFits ==
    ASSUME VaultInv
    PROVE  /\ Outdated \in [VaultWriters -> CallType]
           /\ \A w \in VaultWriters :
                /\ CallFitsKind(Outdated[w]) /\ Outdated[w].pc = call[w].pc
                /\ ~(Outdated[w].pc \in {"compose", "replace"} /\ Outdated[w].fresh)
  <1>1. ASSUME NEW w \in VaultWriters
        PROVE  /\ Outdated[w] \in CallType /\ CallFitsKind(Outdated[w]) /\ Outdated[w].pc = call[w].pc
               /\ ~(Outdated[w].pc \in {"compose", "replace"} /\ Outdated[w].fresh)
    <2> DEFINE c == call[w]  d == [c EXCEPT !.fresh = FALSE]
    <2>1. c \in CallType /\ CallFitsKind(c)
      BY DEF VaultInv, VaultTypeOK, CallFits
    <2>2. Outdated[w] = IF c.pc \in {"compose", "replace"} THEN d ELSE c
      BY DEF Outdated
    <2> HIDE DEF c
    <2>3. d \in CallType /\ d.pc = c.pc /\ d.section = c.section /\ d.fresh = FALSE
      BY <2>1 DEF CallType
    <2> HIDE DEF d
    <2>4. CallFitsKind(d)
      BY <2>1, <2>3 DEF CallFitsKind
    <2>5. Outdated[w].pc = c.pc
      BY <2>2, <2>3
    <2> QED
      BY <2>1, <2>2, <2>3, <2>4, <2>5 DEF c
  <1>2. Outdated \in [VaultWriters -> CallType]
    BY <1>1 DEF Outdated
  <1> QED
    BY <1>1, <1>2

LEMMA CallsStepAlone ==
    ASSUME VaultInv, NEW w \in VaultWriters, NEW v \in VaultWriters, NEW c, SetCall(w, c)
    PROVE  call'[v] = IF v = w THEN c ELSE call[v]
  BY DEF VaultInv, VaultTypeOK, SetCall

LEMMA UpdateReadsStep ==
    ASSUME VaultInv, NEW w \in VaultWriters, NEW s \in BeliefSections, NEW b \in Beliefs, UpdateReads(w, s, b)
    PROVE  VaultInv' /\ \A v \in VaultWriters : call[v].pc = "replace" => call'[v] = call[v]
  <1> DEFINE lines == NewText(file, s, <<Line("text", b)>>)
             c == [NoCall EXCEPT !.pc = "replace", !.section = s, !.lines = lines]
  <1>1. /\ kind = "belief" /\ call[w].pc = "idle" /\ SetCall(w, c)
        /\ UNCHANGED <<file, kind, history, today, deaths>>
    BY DEF UpdateReads
  <1>2. s \in Sections
    BY DEF Sections
  <1>3. lines \in Seq(LineType)
    BY <1>2, TextLines, NewTextIsText DEF VaultInv, VaultTypeOK
  <1>4. lines = NewText(file, s, <<Line("text", b)>>)
    OBVIOUS
  <1> HIDE DEF lines
  <1>5. c \in CallType /\ c.pc = "replace" /\ c.section = s /\ c.lines = lines
    BY <1>2, <1>3, NoCallIsACall DEF CallType
  <1> HIDE DEF c
  <1>6. CallFits(c)
    BY <1>1, <1>2, <1>4, <1>5 DEF CallFits, CallFitsKind, CallFitsFile
  <1>7. deaths' \in Nat
    BY <1>1 DEF VaultInv, VaultTypeOK
  <1>8. VaultInv'
    BY <1>1, <1>5, <1>6, <1>7, OneCallMoves
  <1>9. ASSUME NEW v \in VaultWriters, call[v].pc = "replace" PROVE call'[v] = call[v]
    BY <1>1, <1>9, CallsStepAlone
  <1> QED
    BY <1>8, <1>9

LEMMA AnalyzeStep ==
    ASSUME VaultInv, NEW w \in VaultWriters, Analyze(w)
    PROVE  VaultInv' /\ \A v \in VaultWriters : call[v].pc = "replace" => call'[v] = call[v]
  <1> DEFINE todo == {d \in TaskDomains : is_high_friction(d)}
             c == [NoCall EXCEPT !.pc = "next", !.section = "reflections", !.todo = todo]
  <1>1. /\ kind = "playbook" /\ call[w].pc = "idle" /\ SetCall(w, c)
        /\ UNCHANGED <<file, kind, history, today, deaths>>
    BY DEF Analyze
  <1>2. todo \in SUBSET TaskDomains
    OBVIOUS
  <1> HIDE DEF todo
  <1>3. c \in CallType /\ c.pc = "next" /\ c.section = "reflections"
    BY <1>2, NoCallIsACall, TextLines DEF CallType
  <1> HIDE DEF c
  <1>4. CallFits(c)
    BY <1>1, <1>3 DEF CallFits, CallFitsKind, CallFitsFile
  <1>5. deaths' \in Nat
    BY <1>1 DEF VaultInv, VaultTypeOK
  <1>6. VaultInv'
    BY <1>1, <1>3, <1>4, <1>5, OneCallMoves
  <1>7. ASSUME NEW v \in VaultWriters, call[v].pc = "replace" PROVE call'[v] = call[v]
    BY <1>1, <1>7, CallsStepAlone
  <1> QED
    BY <1>6, <1>7

LEMMA NoCallFits == CallFits(NoCall)
  BY DEF NoCall, CallFits, CallFitsKind, CallFitsFile

LEMMA ExtractRulesStep ==
    ASSUME VaultInv, NEW w \in VaultWriters, ExtractRules(w)
    PROVE  VaultInv' /\ \A v \in VaultWriters : call[v].pc = "replace" => call'[v] = call[v]
  <1>1. call[w].pc = "next" /\ UNCHANGED <<file, kind, history, today, deaths>>
    BY DEF ExtractRules
  <1>2. /\ file \in Seq(LineType) /\ deaths' \in Nat /\ kind \in {"belief", "playbook"}
        /\ call[w] \in CallType /\ CallFits(call[w])
    BY <1>1 DEF VaultInv, VaultTypeOK
  <1>3. kind = "playbook" /\ call[w].section = "reflections"
    BY <1>1, <1>2 DEF CallFits, CallFitsKind
  <1>4. PICK c \in CallType : SetCall(w, c) /\ CallFits(c)
    <2>1. CASE call[w].todo = {}
      BY <2>1, NoCallIsACall, NoCallFits DEF ExtractRules
    <2>2. CASE call[w].todo # {}
      <3>1. PICK d \in Worst(call[w].todo) :
              SetCall(w, [call[w] EXCEPT !.pc = "compose", !.fresh = TRUE, !.todo = @ \ {d},
                         !.lines = _extract_block(file, "reflections") \o <<Line("text", d)>>])
        BY <2>2 DEF ExtractRules
      <3> DEFINE lines == _extract_block(file, "reflections") \o <<Line("text", d)>>
                 c == [call[w] EXCEPT !.pc = "compose", !.fresh = TRUE, !.todo = @ \ {d}, !.lines = lines]
      <3>2. d \in TaskDomains
        BY <1>2 DEF Worst, CallType
      <3>3. lines \in Seq(LineType) /\ OneMore(lines)
        <4>1. _extract_block(file, "reflections") \in Seq(LineType)
          BY <1>2, ExtractIsText
        <4>2. <<Line("text", d)>> \in Seq(LineType)
          BY <3>2, TextLines
        <4>3. lines \in Seq(LineType)
          BY <4>1, <4>2, TextsJoined
        <4> QED
          BY <3>2, <4>3 DEF OneMore
      <3>4. SetCall(w, c)
        BY <3>1
      <3> HIDE DEF lines
      <3>5. c \in CallType /\ c.pc = "compose" /\ c.section = "reflections" /\ c.lines = lines
        BY <1>2, <1>3, <3>3 DEF CallType
      <3> HIDE DEF c
      <3>6. CallFits(c)
        BY <1>3, <3>3, <3>5 DEF CallFits, CallFitsKind, CallFitsFile
      <3> QED
        BY <3>4, <3>5, <3>6
    <2> QED
      BY <2>1, <2>2
  <1>5. VaultInv'
    BY <1>1, <1>2, <1>4, OneCallMoves
  <1>6. ASSUME NEW v \in VaultWriters, call[v].pc = "replace" PROVE call'[v] = call[v]
    BY <1>1, <1>4, <1>6, CallsStepAlone
  <1> QED
    BY <1>5, <1>6

LEMMA ComposeBlockStep ==
    ASSUME VaultInv, NEW w \in VaultWriters, ComposeBlock(w)
    PROVE  VaultInv' /\ \A v \in VaultWriters : call[v].pc = "replace" => call'[v] = call[v]
  <1>1. call[w].pc = "compose" /\ UNCHANGED <<file, kind, history, today, deaths>>
    BY DEF ComposeBlock
  <1>2. /\ file \in Seq(LineType) /\ deaths' \in Nat /\ kind \in {"belief", "playbook"}
        /\ call[w] \in CallType /\ CallFits(call[w])
    BY <1>1 DEF VaultInv, VaultTypeOK
  <1>3. kind = "playbook" /\ call[w].section = "reflections"
    BY <1>1, <1>2 DEF CallFits, CallFitsKind
  <1>4. PICK c \in CallType : SetCall(w, c) /\ CallFits(c)
    <2> DEFINE old == call[w].lines  lines == NewText(file, "reflections", old)
               c == [call[w] EXCEPT !.pc = "replace", !.lines = lines]
    <2>1. CASE SetCall(w, NoCall)
      BY <2>1, NoCallIsACall, NoCallFits
    <2>2. CASE SetCall(w, c)
      <3>1. old \in Seq(LineType)
        BY <1>2 DEF CallType
      <3>2. lines \in Seq(LineType) /\ lines = NewText(file, "reflections", old)
        <4> HIDE DEF old
        <4> QED
          BY <1>2, <3>1, TextLines, NewTextIsText
      <3>3. call[w].fresh => OneMore(old)
        BY <1>1, <1>2, <1>3 DEF CallFits, CallFitsFile
      <3> HIDE DEF lines
      <3>4. c \in CallType /\ c.pc = "replace" /\ c.section = "reflections" /\ c.lines = lines /\ c.fresh = call[w].fresh
        BY <1>2, <1>3, <3>2 DEF CallType
      <3> HIDE DEF c, old
      <3>5. CallFits(c)
        BY <1>3, <3>1, <3>2, <3>3, <3>4 DEF CallFits, CallFitsKind, CallFitsFile
      <3> QED
        BY <2>2, <3>4, <3>5
    <2>3. SetCall(w, NoCall) \/ SetCall(w, c)
      BY DEF ComposeBlock
    <2> QED
      BY <2>1, <2>2, <2>3
  <1>5. VaultInv'
    BY <1>1, <1>2, <1>4, OneCallMoves
  <1>6. ASSUME NEW v \in VaultWriters, call[v].pc = "replace" PROVE call'[v] = call[v]
    BY <1>1, <1>4, <1>6, CallsStepAlone
  <1> QED
    BY <1>5, <1>6

LEMMA ReplaceStep ==
    ASSUME VaultInv, NEW w \in VaultWriters, Replace(w)
    PROVE  VaultInv' /\ \A v \in VaultWriters \ {w} : call'[v].pc = call[v].pc
  <1> DEFINE d == [call[w] EXCEPT !.pc = "next", !.lines = <<>>]
             c == IF kind = "belief" THEN NoCall ELSE d
  <1>1. /\ call[w].pc = "replace" /\ file' = call[w].lines /\ UNCHANGED <<kind, history, today, deaths>>
        /\ call' = [Outdated EXCEPT ![w] = c]
    BY DEF Replace, Replaced
  <1>2. call[w] \in CallType /\ CallFits(call[w]) /\ kind \in {"belief", "playbook"}
    BY DEF VaultInv, VaultTypeOK
  <1>3. file' \in Seq(LineType)
    BY <1>1, <1>2 DEF CallType
  <1>4. d \in CallType /\ d.pc = "next" /\ d.section = call[w].section
    <2>1. <<>> \in Seq(LineType)
      OBVIOUS
    <2> QED
      BY <1>2, <2>1 DEF CallType
  <1> HIDE DEF d
  <1>5. c \in CallType /\ c.pc \in {"idle", "next"} /\ CallFitsKind(c)
    <2>1. CASE kind = "belief"
      BY <2>1, NoCallIsACall, NoCallFits DEF CallFits
    <2>2. CASE kind = "playbook"
      <3>1. call[w].section = "reflections"
        BY <1>1, <1>2, <2>2 DEF CallFits, CallFitsKind
      <3>2. c = d
        BY <2>2
      <3> QED
        BY <1>4, <2>2, <3>1, <3>2 DEF CallFitsKind
    <2> QED
      BY <1>2, <2>1, <2>2
  <1> HIDE DEF c
  <1>6. ASSUME NEW v \in VaultWriters PROVE call'[v] = IF v = w THEN c ELSE Outdated[v]
    BY <1>1, OutdatedFits
  <1>7. call' \in [VaultWriters -> CallType]
    BY <1>1, <1>5, OutdatedFits
  <1>8. ASSUME NEW v \in VaultWriters
        PROVE  CallFitsKind(call'[v]) /\ ~(call'[v].pc \in {"compose", "replace"} /\ call'[v].fresh)
    <2>1. CASE v = w
      BY <1>5, <1>6, <2>1
    <2>2. CASE v # w
      BY <1>6, <2>2, OutdatedFits
    <2> QED
      BY <2>1, <2>2
  <1>9. VaultInv'
    BY <1>1, <1>3, <1>7, <1>8, FileIsSaved
  <1>10. \A v \in VaultWriters \ {w} : call'[v].pc = call[v].pc
    BY <1>6, OutdatedFits
  <1> QED
    BY <1>9, <1>10

LEMMA SaveStep ==
    ASSUME VaultInv, Save
    PROVE  VaultInv' /\ \A v \in VaultWriters : call'[v].pc = call[v].pc
  <1>1. call' = Outdated /\ UNCHANGED <<kind, history, today, deaths>>
    BY DEF Save
  <1>2. file' \in Seq(LineType)
    <2>1. file \in Seq(LineType)
      BY DEF VaultInv, VaultTypeOK
    <2>2. PICK i \in 1..Len(file) :
             \/ file' = SubSeq(file, 1, i - 1) \o SubSeq(file, i + 1, Len(file))
             \/ \E h \in HumanLines :
                  file' = SubSeq(file, 1, i) \o <<Line("human", h)>> \o SubSeq(file, i + 1, Len(file))
      BY DEF Save
    <2> DEFINE n == Len(file)  c == i - 1  d == i + 1
    <2>3. /\ n \in Nat /\ c \in Nat /\ d \in Nat /\ i \in Nat /\ 1 <= c + 1 /\ c <= Len(file) /\ 1 <= d /\ d <= n + 1
          /\ 1 <= i + 1 /\ i <= Len(file) /\ n <= Len(file) /\ 1 <= 1
      BY <2>1
    <2> HIDE DEF c, d, n
    <2>4. /\ SubSeq(file, 1, c) \in Seq(LineType) /\ SubSeq(file, d, n) \in Seq(LineType)
          /\ SubSeq(file, 1, i) \in Seq(LineType)
      BY <2>1, <2>3, PiecesAreText
    <2>5. SubSeq(file, 1, c) \o SubSeq(file, d, n) \in Seq(LineType)
      BY <2>4, TextsJoined
    <2>6. ASSUME NEW h \in HumanLines
          PROVE  SubSeq(file, 1, i) \o <<Line("human", h)>> \o SubSeq(file, d, n) \in Seq(LineType)
      <3>1. <<Line("human", h)>> \in Seq(LineType)
        BY TextLines
      <3>2. SubSeq(file, 1, i) \o <<Line("human", h)>> \in Seq(LineType)
        BY <2>4, <3>1, TextsJoined
      <3> QED
        BY <2>4, <3>2, TextsJoined
    <2> QED
      BY <2>2, <2>5, <2>6 DEF c, d, n
  <1>3. VaultInv'
    BY <1>1, <1>2, OutdatedFits, FileIsSaved
  <1>4. \A v \in VaultWriters : call'[v].pc = call[v].pc
    BY <1>1, OutdatedFits
  <1> QED
    BY <1>3, <1>4

LEMMA DieStep ==
    ASSUME VaultInv, NEW w \in VaultWriters, Die(w)
    PROVE  VaultInv' /\ deaths' # deaths /\ call'[w].pc = "idle" /\ \A v \in VaultWriters \ {w} : call'[v] = call[v]
  <1>1. SetCall(w, NoCall) /\ deaths' = deaths + 1 /\ UNCHANGED <<file, kind, history, today>>
    BY DEF Die
  <1>2. deaths' \in Nat /\ deaths' # deaths
    BY <1>1 DEF VaultInv, VaultTypeOK
  <1>3. VaultInv'
    BY <1>1, <1>2, NoCallIsACall, NoCallFits, OneCallMoves
  <1>4. \A v \in VaultWriters : call'[v] = IF v = w THEN NoCall ELSE call[v]
    BY <1>1, CallsStepAlone
  <1> QED
    BY <1>2, <1>3, <1>4, NoCallIsACall

\* Nothing but time and the ledger goes on.
LEMMA LedgerGoesOn ==
    ASSUME VaultInv, UNCHANGED <<file, kind, call, deaths>>, today' \in Nat, history' \in Seq(EventType)
    PROVE  VaultInv'
  BY DEF VaultInv, VaultTypeOK, CallFits, CallFitsKind, CallFitsFile, OneMore

LEMMA RecordEventStep ==
    ASSUME VaultInv, NEW t \in DOMAIN TaskDomain,
           NEW type \in {"USER_CORRECTION", "STATE_ROLLBACK_TRIGGERED", "MUTATION_COMMITTED"}, RecordEvent(t, type)
    PROVE  VaultInv' /\ call' = call
  <1> DEFINE e == [task |-> t, type |-> type, day |-> today]
  <1>1. UNCHANGED <<file, kind, call, deaths, today>> /\ history' = Append(history, e)
    BY DEF RecordEvent
  <1>2. today \in Nat /\ history \in Seq(EventType)
    BY DEF VaultInv, VaultTypeOK
  <1>3. e \in EventType
    BY <1>2 DEF EventType
  <1> HIDE DEF e
  <1>4. history' \in Seq(EventType) /\ today' \in Nat
    BY <1>1, <1>2, <1>3
  <1> QED
    BY <1>1, <1>4, LedgerGoesOn

LEMMA DayPassesStep ==
    ASSUME VaultInv, DayPasses
    PROVE  VaultInv' /\ call' = call
  <1>1. UNCHANGED <<file, kind, call, deaths, history>> /\ today' = today + 1
    BY DEF DayPasses
  <1>2. today' \in Nat /\ history' \in Seq(EventType)
    BY <1>1 DEF VaultInv, VaultTypeOK
  <1> QED
    BY <1>1, <1>2, LedgerGoesOn

LEMMA VaultSteps ==
    ASSUME VaultInv, [VaultNext]_vaultVars
    PROVE  /\ VaultInv'
           /\ \A w \in VaultWriters : Replaces(w) => Replace(w)
           /\ \A w \in VaultWriters : call[w].pc = "idle" /\ call'[w].pc = "next" => Analyze(w)
  <1>1. CASE UNCHANGED vaultVars
    <2>1. VaultInv'
      BY <1>1, LedgerGoesOn DEF vaultVars, VaultInv, VaultTypeOK
    <2> QED
      BY <1>1, <2>1 DEF vaultVars, Replaces
  <1>2. ASSUME NEW v \in VaultWriters, NEW s \in BeliefSections, NEW b \in Beliefs, UpdateReads(v, s, b)
        PROVE  /\ VaultInv'
               /\ \A w \in VaultWriters : Replaces(w) => Replace(w)
               /\ \A w \in VaultWriters : call[w].pc = "idle" /\ call'[w].pc = "next" => Analyze(w)
    <2>1. VaultInv' /\ \A w \in VaultWriters : call[w].pc = "replace" => call'[w] = call[w]
      BY <1>2, UpdateReadsStep
    <2>2. \A w \in VaultWriters : ~Replaces(w)
      BY <2>1 DEF Replaces
    <2>3. ASSUME NEW w \in VaultWriters, call[w].pc = "idle", call'[w].pc = "next" PROVE FALSE
      <3> DEFINE c == [NoCall EXCEPT !.pc = "replace", !.section = s, !.lines = NewText(file, s, <<Line("text", b)>>)]
      <3>1. SetCall(v, c)
        BY <1>2 DEF UpdateReads
      <3>2. c.pc = "replace"
        BY NoCallIsACall DEF CallType
      <3> HIDE DEF c
      <3>3. call'[w] = IF w = v THEN c ELSE call[w]
        BY <3>1, CallsStepAlone
      <3> QED
        BY <2>3, <3>2, <3>3
    <2> QED
      BY <2>1, <2>2, <2>3
  <1>3. ASSUME NEW v \in VaultWriters, Analyze(v)
        PROVE  /\ VaultInv'
               /\ \A w \in VaultWriters : Replaces(w) => Replace(w)
               /\ \A w \in VaultWriters : call[w].pc = "idle" /\ call'[w].pc = "next" => Analyze(w)
    <2>1. VaultInv' /\ \A w \in VaultWriters : call[w].pc = "replace" => call'[w] = call[w]
      BY <1>3, AnalyzeStep
    <2>2. \A w \in VaultWriters : ~Replaces(w)
      BY <2>1 DEF Replaces
    <2>3. ASSUME NEW w \in VaultWriters, call[w].pc = "idle", call'[w].pc = "next" PROVE Analyze(w)
      <3>1. PICK c : SetCall(v, c)
        BY <1>3 DEF Analyze
      <3>2. call'[w] = IF w = v THEN c ELSE call[w]
        BY <3>1, CallsStepAlone
      <3> QED
        BY <1>3, <2>3, <3>2
    <2> QED
      BY <2>1, <2>2, <2>3
  <1>4. ASSUME NEW v \in VaultWriters, ExtractRules(v) \/ ComposeBlock(v)
        PROVE  /\ VaultInv'
               /\ \A w \in VaultWriters : Replaces(w) => Replace(w)
               /\ \A w \in VaultWriters : call[w].pc = "idle" /\ call'[w].pc = "next" => Analyze(w)
    <2>1. VaultInv' /\ \A w \in VaultWriters : call[w].pc = "replace" => call'[w] = call[w]
      BY <1>4, ExtractRulesStep, ComposeBlockStep
    <2>2. \A w \in VaultWriters : ~Replaces(w)
      BY <2>1 DEF Replaces
    <2>3. ASSUME NEW w \in VaultWriters, call[w].pc = "idle", call'[w].pc = "next" PROVE FALSE
      <3>1. \E c : SetCall(v, c)
        <4>1. CASE ExtractRules(v)
          BY <4>1 DEF ExtractRules
        <4>2. CASE ComposeBlock(v)
          BY <4>2 DEF ComposeBlock
        <4> QED
          BY <1>4, <4>1, <4>2
      <3>2. PICK c : SetCall(v, c)
        BY <3>1
      <3>3. call'[w] = IF w = v THEN c ELSE call[w]
        BY <3>2, CallsStepAlone
      <3>4. w # v
        BY <1>4, <2>3 DEF ExtractRules, ComposeBlock
      <3> QED
        BY <2>3, <3>3, <3>4
    <2> QED
      BY <2>1, <2>2, <2>3
  <1>5. ASSUME NEW v \in VaultWriters, Replace(v)
        PROVE  /\ VaultInv'
               /\ \A w \in VaultWriters : Replaces(w) => Replace(w)
               /\ \A w \in VaultWriters : call[w].pc = "idle" /\ call'[w].pc = "next" => Analyze(w)
    <2>1. VaultInv' /\ \A w \in VaultWriters \ {v} : call'[w].pc = call[w].pc
      BY <1>5, ReplaceStep
    <2>2. call[v].pc = "replace"
      BY <1>5 DEF Replace
    <2> QED
      BY <1>5, <2>1, <2>2 DEF Replaces
  <1>6. ASSUME NEW v \in VaultWriters, Die(v)
        PROVE  /\ VaultInv'
               /\ \A w \in VaultWriters : Replaces(w) => Replace(w)
               /\ \A w \in VaultWriters : call[w].pc = "idle" /\ call'[w].pc = "next" => Analyze(w)
    <2>1. VaultInv' /\ deaths' # deaths /\ call'[v].pc = "idle" /\ \A w \in VaultWriters \ {v} : call'[w] = call[w]
      BY <1>6, DieStep
    <2> QED
      BY <2>1 DEF Replaces
  <1>7. CASE Save
    BY <1>7, SaveStep DEF Replaces
  <1>8. CASE DayPasses
    BY <1>8, DayPassesStep DEF Replaces
  <1>9. ASSUME NEW t \in DOMAIN TaskDomain,
               NEW type \in {"USER_CORRECTION", "STATE_ROLLBACK_TRIGGERED", "MUTATION_COMMITTED"}, RecordEvent(t, type)
        PROVE  /\ VaultInv'
               /\ \A w \in VaultWriters : Replaces(w) => Replace(w)
               /\ \A w \in VaultWriters : call[w].pc = "idle" /\ call'[w].pc = "next" => Analyze(w)
    BY <1>9, RecordEventStep DEF Replaces
  <1> QED
    BY <1>1, <1>2, <1>3, <1>4, <1>5, <1>6, <1>7, <1>8, <1>9 DEF VaultNext

-----------------------------------------------------------------------------
LEMMA OneLineMore ==
    ASSUME NEW u, Content(u), NEW l \in LineType, l.type = "text"
    PROVE  Content(u \o <<l>>)
  <1> DEFINE v == <<l>>  lines == u \o v  m == Len(u)
  <1>1. v \in Seq(LineType) /\ Len(v) = 1 /\ v[1] = l
    OBVIOUS
  <1>2. u \in Seq(LineType) /\ m \in Nat /\ m = Len(u) /\ \A i \in 1..m : u[i].type \notin {"begin", "end"}
    BY DEF Content
  <1> HIDE DEF v, m
  <1>3. Then(lines, u, v, m, 1)
    BY <1>1, <1>2, Joined
  <1> HIDE DEF lines
  <1>4. lines \in Seq(LineType) /\ Len(lines) = m + 1
    BY <1>3 DEF Then
  <1>5. (\A i \in 1..m : lines[i] = u[i]) /\ (\A i \in 1..1 : lines[m + i] = v[i])
    <2>1. 1 \in Nat
      OBVIOUS
    <2> QED
      BY <1>2, <1>3, <2>1, PlacesInThen
  <1>6. ASSUME NEW i \in 1..(m + 1) PROVE lines[i].type \notin {"begin", "end"}
    <2>1. CASE i \in 1..m
      BY <1>2, <1>5, <2>1
    <2>2. CASE i = m + 1
      <3>1. lines[m + 1] = l
        BY <1>1, <1>5
      <3> QED
        BY <2>2, <3>1
    <2> QED
      BY <1>2, <2>1, <2>2
  <1>7. Content(lines)
    BY <1>4, <1>6 DEF Content
  <1> QED
    BY <1>7 DEF lines, v

\* What an update writes that nobody interfered with.
LEMMA UpdatesAreWhole ==
    ASSUME VaultInv, NEW w \in VaultWriters, Replace(w), call[w].fresh, WellMarked(file)
    PROVE  /\ SameHumanText(file, file') /\ WellMarked(file')
           /\ \A s \in Sections \ {call[w].section} : _extract_block(file', s) = _extract_block(file, s)
           /\ kind = "playbook" => OneMore(_extract_block(file', "reflections"))
  <1>1. /\ call[w].pc = "replace" /\ file' = call[w].lines /\ file \in Seq(LineType)
        /\ CallFitsKind(call[w]) /\ CallFitsFile(call[w]) /\ kind \in {"belief", "playbook"}
    BY DEF Replace, VaultInv, VaultTypeOK, CallFits
  <1>2. CASE kind = "belief"
    <2>1. PICK b \in Beliefs : call[w].lines = NewText(file, call[w].section, <<Line("text", b)>>)
      BY <1>1, <1>2 DEF CallFitsFile
    <2>2. call[w].section \in Sections
      BY <1>1, <1>2 DEF CallFitsKind
    <2>3. Content(<<Line("text", b)>>)
      <3> DEFINE l == Line("text", b)
      <3>1. l \in LineType /\ l.type = "text"
        BY TextLines
      <3> HIDE DEF l
      <3>2. <<l>> \in Seq(LineType) /\ Len(<<l>>) = 1 /\ <<l>>[1] = l /\ \A i \in 1..1 : i = 1
        BY <3>1
      <3>3. Content(<<l>>)
        BY <3>1, <3>2 DEF Content
      <3> QED
        BY <3>3 DEF l
    <2>4. Updated(file, file', call[w].section, <<Line("text", b)>>)
      BY <1>1, <2>1, <2>2, <2>3, BlockIsWritten
    <2> QED
      BY <1>2, <2>4 DEF Updated
  <1>3. CASE kind = "playbook"
    <2>1. PICK lines \in Seq(LineType) : OneMore(lines) /\ call[w].lines = NewText(file, "reflections", lines)
      BY <1>1, <1>3 DEF CallFitsFile
    <2>2. call[w].section = "reflections" /\ "reflections" \in Sections
      BY <1>1, <1>3, TextLines DEF CallFitsKind
    <2>3. Content(lines)
      <3>1. PICK d \in TaskDomains : lines = _extract_block(file, "reflections") \o <<Line("text", d)>>
        BY <2>1 DEF OneMore
      <3>2. Content(_extract_block(file, "reflections"))
        BY <1>1, BlocksHoldContent
      <3> QED
        BY <3>1, <3>2, TextLines, OneLineMore
    <2>4. Updated(file, file', "reflections", lines)
      BY <1>1, <2>1, <2>2, <2>3, BlockIsWritten
    <2> QED
      BY <2>1, <2>2, <2>4 DEF Updated
  <1> QED
    BY <1>1, <1>2, <1>3

LEMMA RulesStay ==
    ASSUME VaultInv, NEW lines, OneMore(lines)
    PROVE  SubSeq(lines, 1, Len(_extract_block(file, "reflections"))) = _extract_block(file, "reflections")
  <1> DEFINE u == _extract_block(file, "reflections")  m == Len(u)
  <1>1. PICK d \in TaskDomains : lines = u \o <<Line("text", d)>>
    BY DEF OneMore
  <1> DEFINE v == <<Line("text", d)>>
  <1>2. u \in Seq(LineType) /\ v \in Seq(LineType) /\ Len(v) = 1
    BY ExtractIsText, TextLines DEF VaultInv, VaultTypeOK
  <1>3. m \in Nat /\ m = Len(u)
    BY <1>2
  <1> HIDE DEF u, v, m
  <1>4. Then(lines, u, v, m, 1)
    BY <1>1, <1>2, <1>3, Joined DEF v
  <1>5. lines \in Seq(LineType) /\ Len(lines) = m + 1 /\ \A i \in 1..m : lines[i] = u[i]
    BY <1>3, <1>4, PlacesInThen DEF Then
  <1>6. m <= Len(lines) /\ 1 <= m + 1 /\ m - 1 + 1 = m /\ \A i \in 1..m : 1 + i - 1 = i
    BY <1>3, <1>5
  <1> DEFINE k == SubSeq(lines, 1, m)
  <1>7. k \in Seq(LineType) /\ Len(k) = m - 1 + 1 /\ \A i \in 1..(m - 1 + 1) : k[i] = lines[1 + i - 1]
    BY <1>3, <1>5, <1>6, CutOut
  <1> HIDE DEF k
  <1>8. Len(k) = Len(u) /\ \A i \in 1..Len(k) : k[i] = u[i]
    BY <1>3, <1>5, <1>6, <1>7
  <1>9. k = u
    BY <1>2, <1>7, <1>8, SeqEqual
  <1> QED
    BY <1>9 DEF k, m, u

-----------------------------------------------------------------------------
\* The window's events of a kind, of the tasks whose request is of a domain.
LEMMA WindowIsFinite ==
    ASSUME VaultInv
    PROVE  /\ IsFiniteSet(InWindow) /\ \A i \in InWindow : history[i] \in EventType
  <1>1. history \in Seq(EventType) /\ Len(history) \in Nat
    BY DEF VaultInv, VaultTypeOK
  <1>2. InWindow \subseteq 1..Len(history)
    BY DEF InWindow
  <1>3. IsFiniteSet(1..Len(history))
    BY <1>1, FS_Interval
  <1>4. IsFiniteSet(InWindow)
    BY <1>2, <1>3, FS_Subset
  <1> QED
    BY <1>1, <1>2, <1>4

LEMMA FailuresAreFriction ==
    ASSUME VaultInv, NEW d \in TaskDomains \ {"unknown"}, OnlyFailed(d)
    PROVE  is_high_friction(d)
  <1> DEFINE of(type) == {i \in InWindow : history[i].type = type /\ TaskDomain[history[i].task] = d}
             counted(type) == {i \in InWindow : history[i].type = type /\ domain_of(history[i].task) = d}
  <1>1. /\ of("USER_CORRECTION") \union of("STATE_ROLLBACK_TRIGGERED") # {}
        /\ of("MUTATION_COMMITTED") = {}
        /\ \A t \in DOMAIN TaskDomain : TaskDomain[t] = d => domain_of(t) = d
    BY DEF OnlyFailed
  <1>2. ASSUME NEW t \in DOMAIN TaskDomain PROVE domain_of(t) = d <=> TaskDomain[t] = d
    BY <1>1 DEF domain_of
  <1>3. ASSUME NEW type PROVE counted(type) = of(type)
    <2>1. \A i \in InWindow : history[i].task \in DOMAIN TaskDomain
      BY WindowIsFinite DEF EventType
    <2> QED
      BY <1>2, <2>1
  <1> DEFINE a == Tally(d, "USER_CORRECTION")  b == Tally(d, "STATE_ROLLBACK_TRIGGERED")
             e == Tally(d, "MUTATION_COMMITTED")
  <1>4. \A type : Tally(d, type) = Cardinality(of(type))
    BY <1>3 DEF Tally
  <1>5. \A type : IsFiniteSet(of(type))
    <2> SUFFICES ASSUME NEW type PROVE IsFiniteSet(of(type))
      OBVIOUS
    <2>1. of(type) \subseteq InWindow
      OBVIOUS
    <2> QED
      BY <2>1, WindowIsFinite, FS_Subset
  <1> HIDE DEF of
  <1>6. \A type : Cardinality(of(type)) \in Nat /\ (Cardinality(of(type)) = 0 <=> of(type) = {})
    BY <1>5, FS_CardinalityType, FS_EmptySet
  <1>7. a \in Nat /\ b \in Nat /\ e = 0 /\ ~(a = 0 /\ b = 0)
    BY <1>1, <1>4, <1>6
  <1>8. Successes(d) = 1
    <2>1. Successes(d) = Max({0, 1})
      BY <1>7 DEF Successes
    <2>2. Max({0, 1}) = 1
      BY DEF Max
    <2> QED
      BY <2>1, <2>2
  <1>9. Trouble10(d) = 15 * a + 30 * b
    BY DEF Trouble10
  <1> HIDE DEF a, b
  <1>10. 15 * a + 30 * b >= 4 * 1
    BY <1>7
  <1> QED
    BY <1>8, <1>9, <1>10 DEF is_high_friction

LEMMA VaultKeeps ==
    ASSUME VaultInv, [VaultNext]_vaultVars
    PROVE  /\ \A w \in VaultWriters :
                Replaces(w) /\ call[w].fresh /\ WellMarked(file) =>
                    /\ SameHumanText(file, file') /\ WellMarked(file')
                    /\ \A s \in Sections \ {call[w].section} :
                         _extract_block(file', s) = _extract_block(file, s)
           /\ \A w \in VaultWriters :
                Replaces(w) /\ kind = "playbook" /\ call[w].fresh /\ WellMarked(file) =>
                    LET before == _extract_block(file, "reflections")
                    IN  SubSeq(_extract_block(file', "reflections"), 1, Len(before)) = before
           /\ \A w \in VaultWriters :
                call[w].pc = "idle" /\ call'[w].pc = "next" =>
                    \A d \in TaskDomains \ {"unknown"} : OnlyFailed(d) => d \in call'[w].todo
  <1>1. ASSUME NEW w \in VaultWriters, Replaces(w), call[w].fresh, WellMarked(file)
        PROVE  /\ SameHumanText(file, file') /\ WellMarked(file')
               /\ \A s \in Sections \ {call[w].section} : _extract_block(file', s) = _extract_block(file, s)
               /\ kind = "playbook" => OneMore(_extract_block(file', "reflections"))
    BY <1>1, VaultSteps, UpdatesAreWhole
  <1>2. ASSUME NEW w \in VaultWriters, Replaces(w), call[w].fresh, WellMarked(file), kind = "playbook"
        PROVE  LET before == _extract_block(file, "reflections")
               IN  SubSeq(_extract_block(file', "reflections"), 1, Len(before)) = before
    BY <1>1, <1>2, RulesStay
  <1>3. ASSUME NEW w \in VaultWriters, call[w].pc = "idle", call'[w].pc = "next",
               NEW d \in TaskDomains \ {"unknown"}, OnlyFailed(d)
        PROVE  d \in call'[w].todo
    <2>1. Analyze(w)
      BY <1>3, VaultSteps
    <2> DEFINE todo == {x \in TaskDomains : is_high_friction(x)}
               c == [NoCall EXCEPT !.pc = "next", !.section = "reflections", !.todo = todo]
    <2>2. SetCall(w, c)
      BY <2>1 DEF Analyze
    <2>3. d \in todo
      BY <1>3, FailuresAreFriction
    <2> HIDE DEF todo
    <2>4. c.todo = todo
      BY NoCallIsACall DEF CallType
    <2> HIDE DEF c
    <2>5. call'[w] = c
      BY <2>2, CallsStepAlone
    <2> QED
      BY <2>3, <2>4, <2>5
  <1> QED
    BY <1>1, <1>2, <1>3

\* For any writers, sections, contents and people: an update that nobody
\* interfered with leaves what a person wrote, and a weekly run adds to the rules
\* and overlooks no domain that only failed: world_model.py, reflection.py.
THEOREM VaultIsSound == VaultSpec => VaultSound
  <1>1. VaultInit => VaultInv
    BY VaultInitially
  <1>2. VaultInv /\ [VaultNext]_vaultVars => VaultInv'
    BY VaultSteps
  <1>3. VaultInv /\ [VaultNext]_vaultVars =>
        [\A w \in VaultWriters :
            Replaces(w) /\ call[w].fresh /\ WellMarked(file) =>
                /\ SameHumanText(file, file') /\ WellMarked(file')
                /\ \A s \in Sections \ {call[w].section} :
                     _extract_block(file', s) = _extract_block(file, s)]_vaultVars
    BY VaultKeeps
  <1>4. VaultInv /\ [VaultNext]_vaultVars =>
        [\A w \in VaultWriters :
            Replaces(w) /\ kind = "playbook" /\ call[w].fresh /\ WellMarked(file) =>
                LET before == _extract_block(file, "reflections")
                IN  SubSeq(_extract_block(file', "reflections"), 1, Len(before)) = before]_vaultVars
    BY VaultKeeps
  <1>5. VaultInv /\ [VaultNext]_vaultVars =>
        [\A w \in VaultWriters :
            call[w].pc = "idle" /\ call'[w].pc = "next" =>
                \A d \in TaskDomains \ {"unknown"} : OnlyFailed(d) => d \in call'[w].todo]_vaultVars
    BY VaultKeeps
  <1> QED
    BY <1>1, <1>2, <1>3, <1>4, <1>5, PTL
       DEF VaultSpec, VaultSound, HumanTextSurvives, RulesAccumulate, FailuresAreReported

-----------------------------------------------------------------------------
(* The parts together *)

LEMMA PartsStepAlone ==
    [KnowledgeNext]_knowledgeVars =>
        /\ [TelemetryNext]_telemetryVars
        /\ [TraceNext \/ MeasureNext]_observeVars
        /\ [EntityNext]_entityVars
        /\ [VaultNext]_vaultVars
  BY DEF KnowledgeNext, Step, knowledgeVars

\* Whatever an agent does besides, its records are of what happened: a step of
\* another part leaves them alone (telemetry.py, tracing.py, metrics.py).
THEOREM RecordsAreAlwaysTrue == KnowledgeSpec => RecordsAreTrue
  <1>1. KnowledgeInit => TelemetryInit /\ ObserveInit
    BY DEF KnowledgeInit
  <1>2. [KnowledgeNext]_knowledgeVars =>
            [TelemetryNext]_telemetryVars /\ [TraceNext \/ MeasureNext]_observeVars
    BY PartsStepAlone
  <1>3. KnowledgeSpec => TelemetrySpec /\ ObserveSpec
    BY <1>1, <1>2, PTL DEF KnowledgeSpec, TelemetrySpec, ObserveSpec
  <1> QED
    BY <1>3, RunsAreAlwaysEvidence, ObservationsAreSound, PTL DEF RecordsAreTrue

\* Nor does it forget, on SQLite: neither an entity nor what people and earlier
\* runs wrote in the vault (resolution.py, world_model.py, reflection.py).
THEOREM KnowledgeIsKept == Store = "sqlite" => (KnowledgeSpec => NothingLearntIsLost)
  <1> SUFFICES ASSUME Store = "sqlite" PROVE KnowledgeSpec => NothingLearntIsLost
    OBVIOUS
  <1>1. KnowledgeInit => EntityInit /\ VaultInit
    BY DEF KnowledgeInit
  <1>2. [KnowledgeNext]_knowledgeVars => [EntityNext]_entityVars /\ [VaultNext]_vaultVars
    BY PartsStepAlone
  <1>3. KnowledgeSpec => EntitySpec /\ VaultSpec
    BY <1>1, <1>2, PTL DEF KnowledgeSpec, EntitySpec, VaultSpec
  <1>4. EntitySpec => KnowledgeGrows
    BY KnowledgeAlwaysGrows
  <1> QED
    BY <1>3, <1>4, VaultIsSound, PTL DEF NothingLearntIsLost
=============================================================================
