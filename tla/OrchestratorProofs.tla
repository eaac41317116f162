-------------------------- MODULE OrchestratorProofs --------------------------
(***************************************************************************)
(* Proofs about the life of one task.  The first part holds for any number *)
(* of runners, humans and correctors: types, and that runs follow the      *)
(* plan.  The second is about a task that no second process runs and on    *)
(* which one human at a time rules; with more of either, TLC refutes it.   *)
(***************************************************************************)
EXTENDS Orchestrator, FiniteSetTheorems, WellFoundedInduction, TLAPS

-----------------------------------------------------------------------------
(* What an event does to the ledger and to the projection                  *)

Has(l, type) == \E i \in DOMAIN l : l[i].type = type

\* What the fold relies on: a verdict is a verdict, a ruling names a phase.
WellFormed(e) ==
    /\ e.type = "HUMAN_GATE_CLEARED" => e.data \in PHASES
    /\ e.type \in {"POLICY_CLEARED", "POLICY_BLOCKED", "SECURITY_VIOLATION"} =>
         e.data \in {"APPROVED", "BLOCKED"}
    /\ e.type \in {"CRITIQUE_CONCLUDED", "VALIDATION_FAILED"} => e.data \in {"PASS", "FAIL"}
    /\ e.type # "STATE_ROLLBACK_TRIGGERED"

LEMMA EventFields ==
    ASSUME NEW type, NEW attempt, NEW disc, NEW num, NEW data, NEW mode
    PROVE  LET e == Event(type, attempt, disc, num, data, mode)
           IN  /\ e.type = type /\ e.attempt = attempt /\ e.disc = disc
               /\ e.num = num /\ e.data = data /\ e.mode = mode
  BY DEF Event

LEMMA EventTyped ==
    ASSUME NEW type \in EVENT_TYPES, NEW attempt \in Nat, NEW disc \in Discs, NEW num \in Nat,
           NEW data \in DATA, NEW mode \in DOMAIN LADDER
    PROVE  Event(type, attempt, disc, num, data, mode) \in EventRecord
  BY DEF Event, EventRecord

LEMMA PhasesOfEvents ==
    /\ PHASE_MAP["AWAITING_HUMAN_ATTESTATION"] = "AWAITING_HUMAN"
    /\ \A t \in TERMINAL_EVENTS : t \in DOMAIN PHASE_MAP /\ PHASE_MAP[t] \in TERMINAL_PHASES
    /\ \A t \in DOMAIN PHASE_MAP :
         t \notin TERMINAL_EVENTS \cup {"AWAITING_HUMAN_ATTESTATION"} =>
            PHASE_MAP[t] \notin TERMINAL_PHASES \cup {"AWAITING_HUMAN"}
    /\ PHASE_MAP["POLICY_BLOCKED"] = "BLOCKED" /\ PHASE_MAP["SECURITY_VIOLATION"] = "BLOCKED"
    /\ {"PLANNING", "EXECUTING", "CREATED", "AWAITING_HUMAN"} \subseteq PHASES
    /\ \A t \in DOMAIN PHASE_MAP : PHASE_MAP[t] \in PHASES
    /\ "HUMAN_GATE_CLEARED" \notin DOMAIN PHASE_MAP
    /\ "USER_CORRECTION" \notin DOMAIN PHASE_MAP
    /\ "RECOVERY_REPLAY_COMPLETED" \notin DOMAIN PHASE_MAP
  <1>1. PHASE_MAP["AWAITING_HUMAN_ATTESTATION"] = "AWAITING_HUMAN"
    BY DEF PHASE_MAP
  <1>2. \A t \in TERMINAL_EVENTS : t \in DOMAIN PHASE_MAP /\ PHASE_MAP[t] \in TERMINAL_PHASES
    BY DEF PHASE_MAP, TERMINAL_EVENTS, TERMINAL_PHASES
  <1>3. \A t \in DOMAIN PHASE_MAP :
           t \notin TERMINAL_EVENTS \cup {"AWAITING_HUMAN_ATTESTATION"} =>
              PHASE_MAP[t] \notin TERMINAL_PHASES \cup {"AWAITING_HUMAN"}
    BY DEF PHASE_MAP, TERMINAL_EVENTS, TERMINAL_PHASES
  <1>4. PHASE_MAP["POLICY_BLOCKED"] = "BLOCKED" /\ PHASE_MAP["SECURITY_VIOLATION"] = "BLOCKED"
    BY DEF PHASE_MAP
  <1>5. /\ PHASE_MAP["CONTEXT_HYDRATED"] = "PLANNING" /\ PHASE_MAP["POLICY_CLEARED"] = "EXECUTING"
        /\ PHASE_MAP["TASK_REQUESTED"] = "CREATED"
        /\ {"CONTEXT_HYDRATED", "POLICY_CLEARED", "TASK_REQUESTED", "AWAITING_HUMAN_ATTESTATION"}
             \subseteq DOMAIN PHASE_MAP
    BY DEF PHASE_MAP
  <1>6. \A t \in DOMAIN PHASE_MAP : PHASE_MAP[t] \in PHASES
    BY DEF PHASES
  <1>7. {"PLANNING", "EXECUTING", "CREATED", "AWAITING_HUMAN"} \subseteq PHASES
    BY <1>1, <1>5, <1>6
  <1>8. /\ "HUMAN_GATE_CLEARED" \notin DOMAIN PHASE_MAP
        /\ "USER_CORRECTION" \notin DOMAIN PHASE_MAP
        /\ "RECOVERY_REPLAY_COMPLETED" \notin DOMAIN PHASE_MAP
    BY DEF PHASE_MAP
  <1> QED
    BY <1>1, <1>2, <1>3, <1>4, <1>6, <1>7, <1>8

\* The phase after each kind of event.
LEMMA PhaseFollows ==
    ASSUME NEW s, NEW e, e.type \in EVENT_TYPES, e.type # "STATE_ROLLBACK_TRIGGERED"
    PROVE  /\ e.type = "HUMAN_GATE_CLEARED" => PhaseAfter(s, e) = e.data
           /\ e.type \in {"USER_CORRECTION", "RECOVERY_REPLAY_COMPLETED"} => PhaseAfter(s, e) = s.phase
           /\ e.type = "EXECUTION_COMPLETED" =>
                PhaseAfter(s, e) \in {"EXECUTING", PHASE_MAP["EXECUTION_COMPLETED"]}
           /\ e.type \in DOMAIN PHASE_MAP \ {"EXECUTION_COMPLETED"} =>
                PhaseAfter(s, e) = PHASE_MAP[e.type]
  <1>1. e.type \in DOMAIN PHASE_MAP \/ e.type \in {"HUMAN_GATE_CLEARED", "USER_CORRECTION",
                                                   "RECOVERY_REPLAY_COMPLETED"}
    BY DEF EVENT_TYPES
  <1>2. "EXECUTION_COMPLETED" \in DOMAIN PHASE_MAP
    BY DEF PHASE_MAP
  <1>3. CASE e.type = "HUMAN_GATE_CLEARED"
    BY <1>3, PhasesOfEvents DEF PhaseAfter
  <1>4. CASE e.type \in {"USER_CORRECTION", "RECOVERY_REPLAY_COMPLETED"}
    BY <1>4, PhasesOfEvents DEF PhaseAfter, EVENT_TYPES
  <1>5. CASE e.type = "EXECUTION_COMPLETED"
    BY <1>5, <1>2 DEF PhaseAfter
  <1>6. CASE e.type \in DOMAIN PHASE_MAP \ {"EXECUTION_COMPLETED"}
    BY <1>6, PhasesOfEvents DEF PhaseAfter
  <1> QED
    BY <1>1, <1>3, <1>4, <1>5, <1>6

LEMMA PhaseTyped ==
    ASSUME NEW s \in Projection, NEW e \in EventRecord, WellFormed(e)
    PROVE  PhaseAfter(s, e) \in PHASES
  <1>1. e.type \in EVENT_TYPES /\ s.phase \in PHASES
    BY DEF EventRecord, Projection
  <1>2. "EXECUTION_COMPLETED" \in DOMAIN PHASE_MAP
    BY DEF PHASE_MAP
  <1>3. PHASE_MAP["EXECUTION_COMPLETED"] \in PHASES /\ "EXECUTING" \in PHASES
    BY <1>2, PhasesOfEvents
  <1>4. e.type \in DOMAIN PHASE_MAP \/ e.type \in {"HUMAN_GATE_CLEARED", "USER_CORRECTION",
                                                   "RECOVERY_REPLAY_COMPLETED"}
    BY <1>1 DEF EVENT_TYPES
  <1> QED
    BY <1>1, <1>3, <1>4, PhaseFollows, PhasesOfEvents DEF WellFormed

\* The fields of the projection after an event.
LEMMA FoldFields ==
    ASSUME NEW s \in Projection, NEW e
    PROVE  LET t == apply_event(s, e)
           IN  /\ t.phase = PhaseAfter(s, e)
               /\ t.mode = e.mode
               /\ t.packet <=> (s.packet \/ e.type = "CONTEXT_HYDRATED")
               /\ t.plan = IF e.type = "PLAN_COMPILED" THEN e.num ELSE s.plan
               /\ t.completed = CompletedAfter(s, e)
               /\ t.policy = IF e.type \in {"POLICY_CLEARED", "POLICY_BLOCKED", "SECURITY_VIOLATION"}
                               THEN e.data ELSE s.policy
  BY DEF apply_event, Projection

LEMMA FoldTyped ==
    ASSUME NEW s \in Projection, NEW e \in EventRecord, WellFormed(e)
    PROVE  apply_event(s, e) \in Projection
  <1> DEFINE ph == PhaseAfter(s, e)
             ve == s.version + 1
             pl == IF e.type = "PLAN_COMPILED" THEN e.num ELSE s.plan
             cu == CurrentAfter(s, e)
             co == CompletedAfter(s, e)
             po == IF e.type \in {"POLICY_CLEARED", "POLICY_BLOCKED", "SECURITY_VIOLATION"}
                     THEN e.data ELSE s.policy
             vd == IF e.type \in {"CRITIQUE_CONCLUDED", "VALIDATION_FAILED"}
                     THEN e.data ELSE s.verdict
             at == Counted(s.attempts, e, "EXECUTION_STARTED")
             ro == Counted(s.rollbacks, e, "STATE_ROLLBACK_TRIGGERED")
             cr == Counted(s.corrections, e, "USER_CORRECTION")
  <1>1. ph \in PHASES
    BY PhaseTyped
  <1>2. co \in SUBSET Nat
    BY DEF CompletedAfter, EventRecord, Projection
  <1>3. cu \in Nat
    BY DEF CurrentAfter, EventRecord, Projection
  <1>4. at \in Nat /\ ro \in Nat /\ cr \in Nat
    BY DEF Counted, Projection
  <1>5. e.mode \in DOMAIN LADDER /\ e.num \in Nat
    BY DEF EventRecord
  <1>6. po \in {"none", "APPROVED", "BLOCKED"} /\ vd \in {"none", "PASS", "FAIL"}
    BY DEF WellFormed, Projection
  <1> PICK pa \in BOOLEAN : pa = (s.packet \/ e.type = "CONTEXT_HYDRATED")
    BY Zenon
  <1>7. ve \in Nat /\ pl \in Nat
    BY <1>5 DEF Projection
  <1>8. apply_event(s, e) =
          [s EXCEPT !.phase = ph, !.mode = e.mode, !.version = ve, !.packet = pa, !.plan = pl,
                    !.current = cu, !.completed = co, !.policy = po, !.verdict = vd,
                    !.attempts = at, !.rollbacks = ro, !.corrections = cr]
    BY Zenon DEF apply_event
  <1> HIDE DEF ph, ve, pl, cu, co, po, vd, at, ro, cr
  <1>9. [s EXCEPT !.phase = ph, !.mode = e.mode, !.version = ve, !.packet = pa, !.plan = pl,
                  !.current = cu, !.completed = co, !.policy = po, !.verdict = vd,
                  !.attempts = at, !.rollbacks = ro, !.corrections = cr] \in Projection
    BY <1>1, <1>2, <1>3, <1>4, <1>5, <1>6, <1>7 DEF Projection
  <1> QED
    BY <1>8, <1>9, Zenon

\* A recorded event changes nothing; a new one is the newest.
LEMMA EmitCases ==
    ASSUME NEW e, Emit(e)
    PROVE  \/ IsRecorded(log, e) /\ log' = log /\ task' = task /\ closed' = closed
           \/ /\ ~IsRecorded(log, e) /\ log' = Append(log, e) /\ task' = apply_event(task, e)
              /\ closed' = (e.type \in TERMINAL_EVENTS)
  BY DEF Emit, Appended

LEMMA NewestIsLast ==
    ASSUME NEW S, NEW l \in Seq(S), NEW e \in S
    PROVE  /\ Append(l, e) \in Seq(S) /\ Len(Append(l, e)) = Len(l) + 1 /\ Len(l) \in Nat
           /\ DOMAIN Append(l, e) = DOMAIN l \cup {Len(l) + 1}
           /\ DOMAIN l = 1 .. Len(l)
           /\ \A i \in DOMAIN l : Append(l, e)[i] = l[i] /\ i < Len(l) + 1 /\ i \in Nat
           /\ Append(l, e)[Len(l) + 1] = e
           /\ Last(Append(l, e)) = e
  BY DEF Last

LEMMA EmitTyped ==
    ASSUME NEW e \in EventRecord, WellFormed(e), Emit(e),
           log \in Seq(EventRecord), task \in Projection, closed \in BOOLEAN
    PROVE  log' \in Seq(EventRecord) /\ task' \in Projection /\ closed' \in BOOLEAN
  <1>1. CASE IsRecorded(log, e) /\ log' = log /\ task' = task /\ closed' = closed
    BY <1>1
  <1>2. CASE log' = Append(log, e) /\ task' = apply_event(task, e)
             /\ closed' = (e.type \in TERMINAL_EVENTS)
    <2>1. task' \in Projection
      BY <1>2, FoldTyped
    <2>2. log' \in Seq(EventRecord)
      BY <1>2, NewestIsLast
    <2>3. closed' \in BOOLEAN
      BY <1>2
    <2> QED
      BY <2>1, <2>2, <2>3
  <1> QED
    BY EmitCases, <1>1, <1>2

-----------------------------------------------------------------------------
(* Questions                                                               *)

Turns == {"CONTEXT", "POLICY"}

LEMMA Greatest ==
    ASSUME NEW n \in Nat, NEW S, S # {}, NEW f, \A x \in S : f[x] \in Nat /\ f[x] <= n
    PROVE  \E x \in S : \A y \in S : f[y] <= f[x]
  <1> DEFINE Less == {ss \in Nat \X Nat : ss[1] < ss[2]}
             T == {n - f[x] : x \in S}
  <1>1. T # {} /\ T \subseteq Nat
    OBVIOUS
  <1>2. IsWellFoundedOn(Less, Nat)
    BY NatLessThanWellFounded, Zenon DEF OpToRel
  <1>3. PICK m \in T : \A k \in T : ~(<<k, m>> \in Less)
    <2> HIDE DEF Less, T
    <2> QED
      BY <1>1, <1>2, WFMin
  <1>4. \A k \in T : ~(k < m)
    BY <1>1, <1>3
  <1>5. PICK x \in S : m = n - f[x]
    BY <1>3
  <1>6. \A y \in S : f[y] <= f[x]
    <2>1. SUFFICES ASSUME NEW y \in S PROVE f[y] <= f[x]
      OBVIOUS
    <2>2. n - f[y] \in T
      OBVIOUS
    <2>3. ~(n - f[y] < n - f[x])
      BY <1>4, <1>5, <2>2
    <2> QED
      BY <2>3
  <1> QED
    BY <1>6

LEMMA AskedAtIsThere ==
    ASSUME NEW q \in Questions
    PROVE  /\ AskedAt(q) \in DOMAIN log /\ log[AskedAt(q)].disc = q
           /\ log[AskedAt(q)].type = "AWAITING_HUMAN_ATTESTATION"
  BY DEF Questions, AskedAt

LEMMA LastAskedIsAsked ==
    ASSUME log \in Seq(EventRecord), NEW Q \in SUBSET Questions, Q # {}
    PROVE  LastAsked(Q) \in Q
  <1> DEFINE f == [q \in Questions |-> AskedAt(q)]
  <1>1. Len(log) \in Nat /\ DOMAIN log = 1 .. Len(log)
    OBVIOUS
  <1>2. \A q \in Q : f[q] \in Nat /\ f[q] <= Len(log)
    BY <1>1, AskedAtIsThere
  <1>3. \A q \in Q : f[q] = AskedAt(q)
    OBVIOUS
  <1> HIDE DEF f
  <1>4. PICK q \in Q : \A p \in Q : f[p] <= f[q]
    BY <1>1, <1>2, Greatest
  <1>5. \A p \in Q : AskedAt(p) <= AskedAt(q)
    BY <1>3, <1>4
  <1> QED
    BY <1>4, <1>5 DEF LastAsked

LEMMA QuestionsFinite ==
    ASSUME log \in Seq(EventRecord)
    PROVE  IsFiniteSet(Questions)
  <1> DEFINE J == {j \in DOMAIN log : log[j].type = "AWAITING_HUMAN_ATTESTATION"}
             f == [j \in J |-> log[j].disc]
  <1>1. IsFiniteSet(1 .. Len(log))
    BY FS_Interval
  <1>2. J \subseteq 1 .. Len(log)
    OBVIOUS
  <1>3. IsFiniteSet(J)
    BY <1>1, <1>2, FS_Subset
  <1>4. f \in Surjection(J, Questions)
    BY DEF Surjection, Questions
  <1> QED
    BY <1>3, <1>4, FS_Surjection

LEMMA NumberIsNatural ==
    ASSUME log \in Seq(EventRecord), NEW role \in Turns
    PROVE  GateDiscriminator(role) \in Turns \X Nat
  <1> DEFINE A == {q \in StageQuestions(role) : Answered(q)}
  <1>1. A \subseteq Questions
    BY DEF StageQuestions
  <1>2. IsFiniteSet(A)
    BY <1>1, QuestionsFinite, FS_Subset
  <1>3. Cardinality(A) \in Nat
    BY <1>2, FS_CardinalityType
  <1> QED
    BY <1>3 DEF GateDiscriminator

-----------------------------------------------------------------------------
(* The invariant of the first part                                         *)

Done(l, i) == \E j \in DOMAIN l : l[j].type = "EXECUTION_COMPLETED" /\ l[j].num = i
Planned(l, n) == \E j \in DOMAIN l : l[j].type = "PLAN_COMPILED" /\ l[j].num = n

\* The events before position j complete every step of a plan they hold.
PlanDoneBefore(l, j) ==
    \E p \in DOMAIN l : p < j /\ l[p].type = "PLAN_COMPILED" /\
        \A k \in 0 .. (l[p].num - 1) :
            \E i \in DOMAIN l : i < j /\ l[i].type = "EXECUTION_COMPLETED" /\ l[i].num = k

\* A position of the log that follows the plan.
InOrder(l, j) ==
    /\ l[j].type = "AWAITING_HUMAN_ATTESTATION" => l[j].disc \in Turns \X Nat
    /\ l[j].type = "PLAN_COMPILED" => l[j].num > 0
    /\ l[j].type = "EXECUTION_COMPLETED" => l[j].disc = StepDisc(l[j].num)
    /\ l[j].type = "EXECUTION_STARTED" /\ l[j].num > 0 =>
         \E i \in DOMAIN l : i < j /\ l[i].type = "EXECUTION_COMPLETED" /\ l[i].num = l[j].num - 1
    /\ l[j].type = "MUTATION_COMMITTED" => PlanDoneBefore(l, j)

\* The projection shows the plan that the log holds, and no step that it does not.
Shows(l, t) ==
    /\ t.plan > 0 => Planned(l, t.plan)
    /\ Has(l, "PLAN_COMPILED") => t.plan > 0
    /\ \A i \in t.completed : Done(l, i)

LedgerInv(l, t, c) ==
    /\ l \in Seq(EventRecord) /\ t \in Projection /\ c \in BOOLEAN
    /\ \A j \in DOMAIN l : InOrder(l, j)
    /\ Shows(l, t)

RunStates ==
    [pc : RunPCs, st : Projection, mode : DOMAIN LADDER, base : Nat, idx : Nat,
     att : 0 .. MaxRetries, gate : Discs,
     stage : {"none", "hydrate", "plan", "policy", "step", "commit", "failed"}]

AfterPlan ==
    {"policy", "clear", "consult", "execute", "attempt", "work", "complete", "reject", "commit"}

\* However old the projection a run holds, what it shows is in the log; and the
\* steps below the run's index are done.
RunInv(l, s) ==
    /\ s \in RunStates
    /\ s.pc = "open" => s.gate \in Turns \X Nat
    /\ s.st.plan > 0 => Planned(l, s.st.plan)
    /\ \A i \in s.st.completed : Done(l, i)
    /\ s.pc \in AfterPlan => s.st.plan > 0
    /\ s.pc \in {"ask", "open"} => s.stage \in {"hydrate", "policy"}
    /\ s.pc \in {"ask", "open"} /\ s.stage = "policy" => s.st.plan > 0
    /\ s.pc = "project" /\ s.stage \in {"plan", "policy", "step"} => Has(l, "PLAN_COMPILED")
    /\ \A i \in Nat : i < s.idx => Done(l, i)
    /\ s.pc = "commit" => \A i \in Nat : i < s.st.plan => Done(l, i)

HumanStates ==
    [pc : {"idle", "looked", "found"}, attempts : Nat, mode : DOMAIN LADDER, gate : Discs]
HumanInv(h) == h \in HumanStates /\ (h.pc = "found" => h.gate \in Turns \X Nat)

RestTyped ==
    /\ queued \in Nat /\ batch \in 0 .. ClaimBatch
    /\ server \in Servers /\ swept \in Nat /\ requeues \in Nat
    /\ run \in [Runners -> RunStates]
    /\ sub \in [pc : {"new", "requested", "enqueue", "done", "dead"}, mode : Modes]
    /\ human \in [Humans -> HumanStates]
    /\ corr \in [Correctors -> [pc : {"idle", "read", "done"}, n : Nat, mode : DOMAIN LADDER]]
    /\ faults \in 0 .. MaxFaults

OrchInv ==
    /\ LedgerInv(log, task, closed)
    /\ RestTyped
    /\ \A r \in Runners : RunInv(log, run[r])
    /\ \A h \in Humans : HumanInv(human[h])

LEMMA OrchInvTypeOK == OrchInv => TypeOK
  BY DEF OrchInv, LedgerInv, RestTyped, RunStates, HumanStates, TypeOK

LEMMA OrchInvFollows == OrchInv => PlanIsFollowed
  <1> SUFFICES ASSUME OrchInv PROVE PlanIsFollowed
    OBVIOUS
  <1>1. \A j \in DOMAIN log : InOrder(log, j)
    BY DEF OrchInv, LedgerInv
  <1>2. CommitCompletesPlan
    BY <1>1 DEF CommitCompletesPlan, Indices, InOrder, PlanDoneBefore
  <1>3. StepsInOrder
    BY <1>1 DEF StepsInOrder, Indices, InOrder
  <1> QED
    BY <1>2, <1>3 DEF PlanIsFollowed

\* A log that grew shows what it showed.
Grew(l, m) ==
    /\ \A type : Has(l, type) => Has(m, type)
    /\ \A i : Done(l, i) => Done(m, i)
    /\ \A n : Planned(l, n) => Planned(m, n)

LEMMA RunInvGrows ==
    ASSUME NEW l, NEW m, NEW s, Grew(l, m), RunInv(l, s)
    PROVE  RunInv(m, s)
  BY DEF Grew, RunInv

\* What an event must satisfy for the log to stay in order.
Proper(l, e) ==
    /\ e \in EventRecord /\ WellFormed(e)
    /\ e.type = "AWAITING_HUMAN_ATTESTATION" => e.disc \in Turns \X Nat
    /\ e.type = "PLAN_COMPILED" => e.num > 0
    /\ e.type = "EXECUTION_COMPLETED" => e.disc = StepDisc(e.num)
    /\ e.type = "EXECUTION_STARTED" /\ e.num > 0 => Done(l, e.num - 1)
    /\ e.type = "MUTATION_COMMITTED" =>
         \E n \in Nat : Planned(l, n) /\ \A i \in Nat : i < n => Done(l, i)

LEMMA AppendInOrder ==
    ASSUME NEW l \in Seq(EventRecord), NEW e, Proper(l, e), \A j \in DOMAIN l : InOrder(l, j),
           NEW m, m = Append(l, e)
    PROVE  \A j \in DOMAIN m : InOrder(m, j)
  <1> DEFINE n == Len(l) + 1
  <1>1. /\ e \in EventRecord
        /\ m \in Seq(EventRecord) /\ DOMAIN m = DOMAIN l \cup {n} /\ n \in Nat
        /\ \A i \in DOMAIN l : m[i] = l[i] /\ i < n /\ i \in Nat
        /\ m[n] = e
    BY NewestIsLast DEF Proper
  <1> HIDE DEF n
  <1>2. ASSUME NEW j \in DOMAIN l PROVE InOrder(m, j)
    <2>1. InOrder(l, j) /\ m[j] = l[j] /\ DOMAIN l \subseteq DOMAIN m
      BY <1>1, <1>2
    <2>2. PlanDoneBefore(l, j) => PlanDoneBefore(m, j)
      <3>1. SUFFICES ASSUME PlanDoneBefore(l, j) PROVE PlanDoneBefore(m, j)
        OBVIOUS
      <3>2. PICK p \in DOMAIN l : p < j /\ l[p].type = "PLAN_COMPILED" /\
               \A k \in 0 .. (l[p].num - 1) :
                  \E i \in DOMAIN l : i < j /\ l[i].type = "EXECUTION_COMPLETED" /\ l[i].num = k
        BY <3>1 DEF PlanDoneBefore
      <3>3. p \in DOMAIN m /\ m[p] = l[p]
        BY <1>1
      <3>4. \A k \in 0 .. (l[p].num - 1) :
               \E i \in DOMAIN m : i < j /\ m[i].type = "EXECUTION_COMPLETED" /\ m[i].num = k
        BY <1>1, <3>2
      <3> QED
        BY <3>2, <3>3, <3>4 DEF PlanDoneBefore
    <2>3. (\E i \in DOMAIN l : i < j /\ l[i].type = "EXECUTION_COMPLETED" /\ l[i].num = l[j].num - 1)
            => \E i \in DOMAIN m : i < j /\ m[i].type = "EXECUTION_COMPLETED" /\ m[i].num = m[j].num - 1
      BY <1>1, <2>1
    <2> QED
      BY <2>1, <2>2, <2>3 DEF InOrder
  <1>3. InOrder(m, n)
    <2>1. ASSUME NEW i, Done(l, i)
          PROVE  \E j \in DOMAIN m : j < n /\ m[j].type = "EXECUTION_COMPLETED" /\ m[j].num = i
      BY <1>1, <2>1 DEF Done
    <2>2. e.type = "MUTATION_COMMITTED" => PlanDoneBefore(m, n)
      <3>1. SUFFICES ASSUME e.type = "MUTATION_COMMITTED" PROVE PlanDoneBefore(m, n)
        OBVIOUS
      <3>2. PICK k \in Nat : Planned(l, k) /\ \A i \in Nat : i < k => Done(l, i)
        BY <3>1 DEF Proper
      <3>3. PICK p \in DOMAIN l : l[p].type = "PLAN_COMPILED" /\ l[p].num = k
        BY <3>2 DEF Planned
      <3>4. p \in DOMAIN m /\ p < n /\ m[p].type = "PLAN_COMPILED" /\ m[p].num = k
        BY <1>1, <3>3
      <3>5. \A i \in 0 .. (k - 1) : i \in Nat /\ i < k
        OBVIOUS
      <3> QED
        BY <2>1, <3>2, <3>4, <3>5 DEF PlanDoneBefore
    <2>3. e.type = "EXECUTION_STARTED" /\ e.num > 0 =>
            \E i \in DOMAIN m : i < n /\ m[i].type = "EXECUTION_COMPLETED" /\ m[i].num = e.num - 1
      BY <2>1 DEF Proper
    <2> QED
      BY <1>1, <2>2, <2>3 DEF InOrder, Proper
  <1> QED
    BY <1>1, <1>2, <1>3

LEMMA AppendGrows ==
    ASSUME NEW l \in Seq(EventRecord), NEW e \in EventRecord
    PROVE  Grew(l, Append(l, e))
  <1>1. /\ DOMAIN l \subseteq DOMAIN Append(l, e)
        /\ \A i \in DOMAIN l : Append(l, e)[i] = l[i]
    BY NewestIsLast
  <1> QED
    BY <1>1 DEF Grew, Has, Done, Planned

LEMMA AppendShows ==
    ASSUME NEW l \in Seq(EventRecord), NEW t \in Projection, NEW e, Proper(l, e), Shows(l, t)
    PROVE  Shows(Append(l, e), apply_event(t, e))
  <1> DEFINE m == Append(l, e)
             u == apply_event(t, e)
             n == Len(l) + 1
  <1>1. /\ e \in EventRecord /\ WellFormed(e)
        /\ DOMAIN m = DOMAIN l \cup {n} /\ (\A i \in DOMAIN l : m[i] = l[i]) /\ m[n] = e
    BY NewestIsLast DEF Proper
  <1>2. Grew(l, m)
    BY <1>1, AppendGrows
  <1>3. /\ u.plan = IF e.type = "PLAN_COMPILED" THEN e.num ELSE t.plan
        /\ u.completed = CompletedAfter(t, e)
    BY FoldFields
  <1> HIDE DEF m, u, n
  <1>4. Has(m, "PLAN_COMPILED") => Has(l, "PLAN_COMPILED") \/ e.type = "PLAN_COMPILED"
    BY <1>1 DEF Has
  <1>5. u.plan > 0 => Planned(m, u.plan)
    BY <1>1, <1>2, <1>3 DEF Shows, Grew, Planned
  <1>6. Has(m, "PLAN_COMPILED") => u.plan > 0
    BY <1>3, <1>4 DEF Shows, Proper
  <1>7. ASSUME NEW i \in u.completed PROVE Done(m, i)
    <2>1. i \in t.completed \/ (e.type = "EXECUTION_COMPLETED" /\ i = e.num)
      BY <1>1, <1>3, <1>7 DEF CompletedAfter
    <2>2. CASE i \in t.completed
      BY <1>2, <2>2 DEF Shows, Grew
    <2>3. CASE e.type = "EXECUTION_COMPLETED" /\ i = e.num
      BY <1>1, <2>3 DEF Done
    <2> QED
      BY <2>1, <2>2, <2>3
  <1> QED
    BY <1>5, <1>6, <1>7 DEF Shows, m, u

\* Every append of a proper event keeps the ledger's part of the invariant, and
\* leaves the event's key in the log.
LEMMA EmitKeeps ==
    ASSUME LedgerInv(log, task, closed), NEW e, Proper(log, e), Emit(e)
    PROVE  /\ LedgerInv(log, task, closed)'
           /\ Grew(log, log')
           /\ e.type = "EXECUTION_COMPLETED" => Done(log', e.num)
           /\ Has(log', e.type)
  <1>1. /\ log \in Seq(EventRecord) /\ task \in Projection /\ closed \in BOOLEAN
        /\ e \in EventRecord /\ WellFormed(e)
    BY DEF LedgerInv, Proper
  <1>2. log' \in Seq(EventRecord) /\ task' \in Projection /\ closed' \in BOOLEAN
    BY <1>1, EmitTyped
  <1>3. CASE IsRecorded(log, e) /\ log' = log /\ task' = task /\ closed' = closed
    <2>1. PICK i \in DOMAIN log : EventKey(log[i]) = EventKey(e)
      BY <1>3 DEF IsRecorded
    <2>2. log[i].type = e.type /\ log[i].disc = e.disc
      BY <2>1 DEF EventKey
    <2>3. InOrder(log, i)
      BY DEF LedgerInv
    <2>4. e.type = "EXECUTION_COMPLETED" => log[i].num = e.num
      BY <2>2, <2>3 DEF InOrder, Proper, StepDisc
    <2> QED
      BY <1>3, <2>2, <2>4 DEF Grew, Done, Has
  <1>4. CASE ~IsRecorded(log, e) /\ log' = Append(log, e) /\ task' = apply_event(task, e)
             /\ closed' = (e.type \in TERMINAL_EVENTS)
    <2>1. \A j \in DOMAIN log' : InOrder(log', j)
      BY <1>1, <1>4, AppendInOrder DEF LedgerInv
    <2>2. Shows(log', task')
      BY <1>1, <1>4, AppendShows DEF LedgerInv
    <2>3. Grew(log, log')
      BY <1>1, <1>4, AppendGrows
    <2>4. /\ DOMAIN log' = DOMAIN log \cup {Len(log) + 1}
          /\ log'[Len(log) + 1] = e
      BY <1>1, <1>4, NewestIsLast
    <2>5. Has(log', e.type) /\ (e.type = "EXECUTION_COMPLETED" => Done(log', e.num))
      BY <2>4 DEF Has, Done
    <2> QED
      BY <1>2, <2>1, <2>2, <2>3, <2>5 DEF LedgerInv
  <1> QED
    BY <1>3, <1>4, EmitCases

-----------------------------------------------------------------------------
(* The steps of a run                                                      *)

Stages == {"none", "hydrate", "plan", "policy", "step", "commit", "failed"}

\* What a step of runner r leaves behind.
RunnerKeeps(r) ==
    /\ LedgerInv(log', task', closed')
    /\ Grew(log, log')
    /\ run' = [run EXCEPT ![r] = run'[r]]
    /\ RunInv(log', run'[r])

LEMMA LedgerStays ==
    ASSUME OrchInv, UNCHANGED ledger
    PROVE  LedgerInv(log', task', closed') /\ Grew(log, log') /\ log' = log /\ task' = task
  <1>1. log' = log /\ task' = task /\ closed' = closed
    BY DEF ledger
  <1> QED
    BY <1>1 DEF OrchInv, Grew

LEMMA RunnerTyped ==
    ASSUME OrchInv, NEW r \in Runners
    PROVE  run \in [Runners -> RunStates] /\ run[r] \in RunStates /\ RunInv(log, run[r])
           /\ run[r].mode \in DOMAIN LADDER /\ run[r].gate \in Discs /\ run[r].idx \in Nat
           /\ run[r].att \in 0 .. MaxRetries /\ run[r].base \in Nat /\ run[r].st \in Projection
           /\ run[r].st.plan \in Nat /\ run[r].stage \in Stages /\ MaxRetries \in Nat
  BY OrchestratorAssumption DEF OrchInv, RestTyped, RunStates, Projection, Stages

LEMMA GoesTo ==
    ASSUME NEW r \in Runners, run \in [Runners -> RunStates], NEW pc \in RunPCs, Goto(r, pc)
    PROVE  /\ run'[r].pc = pc /\ run'[r].st = run[r].st /\ run'[r].idx = run[r].idx
           /\ run'[r].stage = run[r].stage /\ run'[r].gate = run[r].gate
           /\ run'[r].att = run[r].att /\ run'[r].mode = run[r].mode /\ run'[r] \in RunStates
           /\ run' = [run EXCEPT ![r] = run'[r]]
  <1>1. run'[r] = [run[r] EXCEPT !.pc = pc]
    BY DEF Goto
  <1>2. run' = [run EXCEPT ![r] = run'[r]]
    BY <1>1 DEF Goto
  <1>3. run[r] \in RunStates
    OBVIOUS
  <1> QED
    BY <1>1, <1>2, <1>3 DEF RunStates

GotoIn(r, pc, stage) == run' = [run EXCEPT ![r].pc = pc, ![r].stage = stage]

LEMMA GoesToStage ==
    ASSUME NEW r \in Runners, run \in [Runners -> RunStates], NEW pc \in RunPCs, NEW stage \in Stages,
           GotoIn(r, pc, stage)
    PROVE  /\ run'[r].pc = pc /\ run'[r].mode = run[r].mode /\ run'[r].st = run[r].st /\ run'[r].idx = run[r].idx
           /\ run'[r].stage = stage /\ run'[r].gate = run[r].gate /\ run'[r] \in RunStates
           /\ run' = [run EXCEPT ![r] = run'[r]]
  <1>1. run'[r] = [run[r] EXCEPT !.pc = pc, !.stage = stage]
    BY DEF GotoIn
  <1>2. run' = [run EXCEPT ![r] = run'[r]]
    BY <1>1 DEF GotoIn
  <1>3. run[r] \in RunStates
    OBVIOUS
  <1> QED
    BY <1>1, <1>2, <1>3 DEF RunStates, Stages

\* A run that keeps its projection and its index.
LEMMA RunMoves ==
    ASSUME NEW l, NEW m, NEW s, NEW u \in RunStates, RunInv(l, s), Grew(l, m),
           u.st = s.st, u.idx = s.idx,
           u.pc = "open" => u.gate \in Turns \X Nat,
           u.pc \in AfterPlan => s.st.plan > 0,
           u.pc \in {"ask", "open"} => u.stage \in {"hydrate", "policy"},
           u.pc \in {"ask", "open"} /\ u.stage = "policy" => s.st.plan > 0,
           u.pc = "project" /\ u.stage \in {"plan", "policy", "step"} => Has(m, "PLAN_COMPILED"),
           u.pc = "commit" => \A i \in Nat : i < s.st.plan => Done(m, i)
    PROVE  RunInv(m, u)
  <1>1. RunInv(m, s)
    BY RunInvGrows
  <1> QED
    BY <1>1 DEF RunInv

LEMMA PlanIsThere ==
    ASSUME NEW l, NEW s, RunInv(l, s), s.st.plan > 0
    PROVE  Has(l, "PLAN_COMPILED")
  BY DEF RunInv, Planned, Has

LEMMA AfterIs ==
    ASSUME NEW stage, NEW s
    PROVE  /\ After(stage, s) \in {"plan", "policy", "execute", "finish"}
           /\ After(stage, s) \in RunPCs
           /\ After(stage, s) = "policy" => stage = "plan"
           /\ After(stage, s) = "execute" => stage \in {"policy", "step"}
           /\ After(stage, s) = "plan" => stage = "hydrate" /\ s.phase # "AWAITING_HUMAN"
           /\ stage = "policy" /\ After(stage, s) = "execute" =>
                s.phase \notin {"BLOCKED", "AWAITING_HUMAN"}
  <1>1. After(stage, s) \in {"plan", "policy", "execute", "finish"}
    BY DEF After
  <1>2. After(stage, s) \in RunPCs
    BY <1>1 DEF RunPCs
  <1> QED
    BY <1>1, <1>2 DEF After

\* A stage that returns what it was given.
LEMMA SkipKeeps ==
    ASSUME OrchInv, NEW r \in Runners, NEW stage \in {"hydrate", "plan", "policy"}, Skip(r, stage),
           stage # "hydrate" => run[r].st.plan > 0
    PROVE  RunnerKeeps(r)
  <1> DEFINE pc == After(stage, run[r].st)
  <1>1. pc \in {"plan", "policy", "execute", "finish"} /\ pc \in RunPCs
        /\ (pc \in {"policy", "execute"} => stage # "hydrate")
    BY AfterIs
  <1>2. Goto(r, pc) /\ UNCHANGED ledger
    BY DEF Skip
  <1> HIDE DEF pc
  <1>3. /\ run'[r].pc = pc /\ run'[r].st = run[r].st /\ run'[r].idx = run[r].idx
        /\ run'[r] \in RunStates /\ run' = [run EXCEPT ![r] = run'[r]]
    BY <1>1, <1>2, RunnerTyped, GoesTo
  <1>4. RunInv(log', run'[r])
    BY <1>1, <1>2, <1>3, RunnerTyped, RunMoves, LedgerStays DEF AfterPlan
  <1> QED
    BY <1>2, <1>3, <1>4, LedgerStays DEF RunnerKeeps

\* Emit, then go on to re-read.
LEMMA EmitAndProjectKeeps ==
    ASSUME OrchInv, NEW r \in Runners, NEW e, NEW stage \in Stages, EmitAndProject(r, e, stage),
           Proper(log, e), stage \in {"plan", "policy", "step"} => Has(log', "PLAN_COMPILED")
    PROVE  RunnerKeeps(r)
  <1>1. Emit(e) /\ GotoIn(r, "project", stage)
    BY DEF EmitAndProject, GotoIn
  <1>2. LedgerInv(log', task', closed') /\ Grew(log, log')
    BY <1>1, EmitKeeps DEF OrchInv
  <1>3. "project" \in RunPCs
    BY DEF RunPCs
  <1>4. /\ run'[r].pc = "project" /\ run'[r].st = run[r].st /\ run'[r].idx = run[r].idx
        /\ run'[r].stage = stage /\ run'[r] \in RunStates /\ run' = [run EXCEPT ![r] = run'[r]]
    BY <1>1, <1>3, RunnerTyped, GoesToStage
  <1>5. RunInv(log', run'[r])
    BY <1>2, <1>4, RunnerTyped, RunMoves DEF AfterPlan
  <1> QED
    BY <1>2, <1>4, <1>5 DEF RunnerKeeps

LEMMA RaiseKeeps ==
    ASSUME OrchInv, NEW r \in Runners, Raise(r)
    PROVE  RunnerKeeps(r)
  <1>1. Goto(r, "fail") /\ UNCHANGED ledger /\ "fail" \in RunPCs
    BY DEF Raise, RunPCs
  <1>2. /\ run'[r].pc = "fail" /\ run'[r].st = run[r].st /\ run'[r].idx = run[r].idx
        /\ run'[r] \in RunStates /\ run' = [run EXCEPT ![r] = run'[r]]
    BY <1>1, RunnerTyped, GoesTo
  <1>3. RunInv(log', run'[r])
    BY <1>1, <1>2, RunnerTyped, RunMoves, LedgerStays DEF AfterPlan
  <1> QED
    BY <1>1, <1>2, <1>3, LedgerStays DEF RunnerKeeps

\* Which events are proper whatever the log holds.
LEMMA PlainProper ==
    ASSUME NEW l, NEW type \in EVENT_TYPES, NEW attempt \in Nat, NEW disc \in Discs, NEW num \in Nat,
           NEW data \in DATA, NEW mode \in DOMAIN LADDER,
           type \notin {"AWAITING_HUMAN_ATTESTATION", "PLAN_COMPILED", "EXECUTION_COMPLETED",
                        "EXECUTION_STARTED", "MUTATION_COMMITTED", "STATE_ROLLBACK_TRIGGERED"},
           type = "HUMAN_GATE_CLEARED" => data \in PHASES,
           type \in {"POLICY_CLEARED", "POLICY_BLOCKED", "SECURITY_VIOLATION"} =>
              data \in {"APPROVED", "BLOCKED"},
           type \in {"CRITIQUE_CONCLUDED", "VALIDATION_FAILED"} => data \in {"PASS", "FAIL"}
    PROVE  Proper(l, Event(type, attempt, disc, num, data, mode))
  <1> DEFINE e == Event(type, attempt, disc, num, data, mode)
  <1>1. e \in EventRecord
    BY EventTyped
  <1>2. e.type = type /\ e.data = data
    BY EventFields
  <1> HIDE DEF e
  <1> QED
    BY <1>1, <1>2 DEF Proper, WellFormed, e

LEMMA Vocabulary ==
    /\ EVENT_TYPES = {"TASK_REQUESTED", "TASK_QUEUED", "CONTEXT_HYDRATION_REQUESTED",
         "CONTEXT_HYDRATED", "PLAN_COMPILED", "POLICY_CLEARED", "EXECUTION_STARTED",
         "CRITIQUE_CONCLUDED", "EXECUTION_COMPLETED", "MUTATION_COMMITTED", "EXECUTION_FAILED",
         "POLICY_BLOCKED", "SECURITY_VIOLATION", "HUMAN_GATE_REJECTED", "TASK_ABANDONED",
         "AWAITING_HUMAN_ATTESTATION", "STATE_ROLLBACK_TRIGGERED", "VALIDATION_FAILED",
         "HUMAN_GATE_CLEARED", "USER_CORRECTION", "RECOVERY_REPLAY_COMPLETED"}
    /\ {"", "PASS", "FAIL", "APPROVED", "BLOCKED", "PLANNING", "EXECUTING"} \subseteq DATA
    /\ NoDisc \in Discs
    /\ \A i \in Nat : StepDisc(i) \in Discs
    /\ Turns \X Nat \subseteq Discs
  <1>1. EVENT_TYPES = {"TASK_REQUESTED", "TASK_QUEUED", "CONTEXT_HYDRATION_REQUESTED",
         "CONTEXT_HYDRATED", "PLAN_COMPILED", "POLICY_CLEARED", "EXECUTION_STARTED",
         "CRITIQUE_CONCLUDED", "EXECUTION_COMPLETED", "MUTATION_COMMITTED", "EXECUTION_FAILED",
         "POLICY_BLOCKED", "SECURITY_VIOLATION", "HUMAN_GATE_REJECTED", "TASK_ABANDONED",
         "AWAITING_HUMAN_ATTESTATION", "STATE_ROLLBACK_TRIGGERED", "VALIDATION_FAILED",
         "HUMAN_GATE_CLEARED", "USER_CORRECTION", "RECOVERY_REPLAY_COMPLETED"}
    BY DEF EVENT_TYPES, PHASE_MAP
  <1>2. {"", "PASS", "FAIL", "APPROVED", "BLOCKED", "PLANNING", "EXECUTING"} \subseteq DATA
    BY PhasesOfEvents DEF DATA
  <1>3. NoDisc \in Discs /\ (\A i \in Nat : StepDisc(i) \in Discs) /\ Turns \X Nat \subseteq Discs
    BY DEF NoDisc, StepDisc, Discs, Turns
  <1> QED
    BY <1>1, <1>2, <1>3

\* Events that carry nothing but their key.
BareTypes ==
    {"TASK_REQUESTED", "TASK_QUEUED", "CONTEXT_HYDRATION_REQUESTED", "CONTEXT_HYDRATED",
     "EXECUTION_FAILED", "TASK_ABANDONED", "RECOVERY_REPLAY_COMPLETED", "USER_CORRECTION"}

LEMMA BareProper ==
    ASSUME NEW l, NEW type \in BareTypes, NEW attempt \in Nat, NEW disc \in Discs,
           NEW mode \in DOMAIN LADDER
    PROVE  Proper(l, Event(type, attempt, disc, 0, "", mode))
  <1>1. type \in EVENT_TYPES /\ "" \in DATA
    BY Vocabulary DEF BareTypes
  <1>2. type \notin {"AWAITING_HUMAN_ATTESTATION", "PLAN_COMPILED", "EXECUTION_COMPLETED",
                     "EXECUTION_STARTED", "MUTATION_COMMITTED", "STATE_ROLLBACK_TRIGGERED"}
    BY DEF BareTypes
  <1>3. type \notin {"HUMAN_GATE_CLEARED", "POLICY_CLEARED", "POLICY_BLOCKED", "SECURITY_VIOLATION",
                     "CRITIQUE_CONCLUDED", "VALIDATION_FAILED"}
    BY DEF BareTypes
  <1> QED
    BY <1>1, <1>2, <1>3, PlainProper

LEMMA BeginKeeps ==
    ASSUME OrchInv, NEW r \in Runners, Begin(r)
    PROVE  RunnerKeeps(r)
  <1> DEFINE pc == IF IsTerminal(task) THEN "finish" ELSE "hydrate"
             u == [run[r] EXCEPT !.pc = pc, !.st = task, !.mode = task.mode, !.base = task.attempts]
  <1>1. UNCHANGED ledger /\ run' = [run EXCEPT ![r].pc = pc, ![r].st = task,
                                              ![r].mode = task.mode, ![r].base = task.attempts]
    BY DEF Begin
  <1>2. pc \in {"finish", "hydrate"} /\ pc \in RunPCs
    BY DEF RunPCs
  <1>3. task \in Projection /\ task.mode \in DOMAIN LADDER /\ task.attempts \in Nat
    BY DEF OrchInv, LedgerInv, Projection
  <1> HIDE DEF pc
  <1>4. run'[r] = u /\ run' = [run EXCEPT ![r] = run'[r]]
    BY <1>1, RunnerTyped
  <1>5. u \in RunStates /\ u.pc = pc /\ u.st = task /\ u.idx = run[r].idx
    BY <1>2, <1>3, RunnerTyped DEF RunStates
  <1> HIDE DEF u
  <1>6. RunInv(log, u)
    BY <1>2, <1>5, RunnerTyped DEF RunInv, OrchInv, LedgerInv, Shows, AfterPlan
  <1> QED
    BY <1>1, <1>4, <1>6, LedgerStays DEF RunnerKeeps

LEMMA ReprojectKeeps ==
    ASSUME OrchInv, NEW r \in Runners, Reproject(r)
    PROVE  RunnerKeeps(r)
  <1> DEFINE pc == After(run[r].stage, task)
             base == IF run[r].stage = "step" THEN run[r].base ELSE task.attempts
             u == [run[r] EXCEPT !.pc = pc, !.st = task, !.base = base]
  <1>1. UNCHANGED ledger /\ run' = [run EXCEPT ![r].pc = pc, ![r].st = task, ![r].base = base]
        /\ run[r].pc = "project"
    BY DEF Reproject, At
  <1>2. task \in Projection /\ task.attempts \in Nat /\ Shows(log, task)
    BY DEF OrchInv, LedgerInv, Projection
  <1>3. /\ pc \in {"plan", "policy", "execute", "finish"} /\ pc \in RunPCs
        /\ pc \in {"policy", "execute"} => run[r].stage \in {"plan", "policy", "step"}
    BY AfterIs
  <1>4. base \in Nat
    BY <1>2, RunnerTyped
  <1> HIDE DEF pc, base
  <1>5. run'[r] = u /\ run' = [run EXCEPT ![r] = run'[r]]
    BY <1>1, RunnerTyped
  <1>6. u \in RunStates /\ u.pc = pc /\ u.st = task /\ u.idx = run[r].idx
    BY <1>2, <1>3, <1>4, RunnerTyped DEF RunStates
  <1> HIDE DEF u
  <1>7. pc \in {"policy", "execute"} => task.plan > 0
    BY <1>1, <1>2, <1>3, RunnerTyped DEF RunInv, Shows
  <1>8. RunInv(log, u)
    BY <1>2, <1>3, <1>6, <1>7, RunnerTyped DEF RunInv, Shows, AfterPlan
  <1> QED
    BY <1>1, <1>5, <1>8, LedgerStays DEF RunnerKeeps

\* Emit, then stay with the projection at hand.
LEMMA EmitAndGotoKeeps ==
    ASSUME OrchInv, NEW r \in Runners, NEW e, NEW pc \in RunPCs, Emit(e), Goto(r, pc), Proper(log, e),
           pc \notin {"open", "ask", "project", "commit"}, pc \in AfterPlan => run[r].st.plan > 0
    PROVE  RunnerKeeps(r)
  <1>1. LedgerInv(log', task', closed') /\ Grew(log, log')
    BY EmitKeeps DEF OrchInv
  <1>2. /\ run'[r].pc = pc /\ run'[r].st = run[r].st /\ run'[r].idx = run[r].idx
        /\ run'[r] \in RunStates /\ run' = [run EXCEPT ![r] = run'[r]]
    BY RunnerTyped, GoesTo
  <1>3. RunInv(log', run'[r])
    BY <1>1, <1>2, RunnerTyped, RunMoves
  <1> QED
    BY <1>1, <1>2, <1>3 DEF RunnerKeeps

LEMMA HydrateKeeps ==
    ASSUME OrchInv, NEW r \in Runners, Hydrate(r)
    PROVE  RunnerKeeps(r)
  <1>1. CASE Skip(r, "hydrate")
    BY <1>1, SkipKeeps
  <1>2. CASE Emit(Event("CONTEXT_HYDRATION_REQUESTED", 0, NoDisc, 0, "", run[r].mode)) /\ Goto(r, "build")
    <2>1. Proper(log, Event("CONTEXT_HYDRATION_REQUESTED", 0, NoDisc, 0, "", run[r].mode))
      BY BareProper, Vocabulary, RunnerTyped DEF BareTypes
    <2>2. "build" \in RunPCs
      BY DEF RunPCs
    <2> QED
      BY <1>2, <2>1, <2>2, EmitAndGotoKeeps DEF AfterPlan
  <1> QED
    BY <1>1, <1>2 DEF Hydrate

LEMMA AskKeeps ==
    ASSUME OrchInv, NEW r \in Runners, NEW stage \in {"hydrate", "policy"},
           GotoIn(r, "ask", stage), UNCHANGED ledger,
           stage = "policy" => run[r].st.plan > 0
    PROVE  RunnerKeeps(r)
  <1>1. "ask" \in RunPCs /\ stage \in Stages
    BY DEF RunPCs, Stages
  <1>2. /\ run'[r].pc = "ask" /\ run'[r].st = run[r].st /\ run'[r].idx = run[r].idx
        /\ run'[r].stage = stage /\ run'[r] \in RunStates /\ run' = [run EXCEPT ![r] = run'[r]]
    BY <1>1, RunnerTyped, GoesToStage
  <1>3. RunInv(log', run'[r])
    BY <1>2, RunnerTyped, RunMoves, LedgerStays DEF AfterPlan
  <1> QED
    BY <1>2, <1>3, LedgerStays DEF RunnerKeeps

LEMMA BuildContextKeeps ==
    ASSUME OrchInv, NEW r \in Runners, BuildContext(r)
    PROVE  RunnerKeeps(r)
  <1>1. CASE Raise(r)
    BY <1>1, RaiseKeeps
  <1>2. CASE run' = [run EXCEPT ![r].pc = "ask", ![r].stage = "hydrate"] /\ UNCHANGED ledger
    BY <1>2, AskKeeps DEF GotoIn
  <1>3. CASE EmitAndProject(r, Event("CONTEXT_HYDRATED", 0, NoDisc, 0, "", run[r].mode), "hydrate")
    <2>1. Proper(log, Event("CONTEXT_HYDRATED", 0, NoDisc, 0, "", run[r].mode))
      BY BareProper, Vocabulary, RunnerTyped DEF BareTypes
    <2> QED
      BY <1>3, <2>1, EmitAndProjectKeeps DEF Stages
  <1> QED
    BY <1>1, <1>2, <1>3 DEF BuildContext

LEMMA NumberQuestionKeeps ==
    ASSUME OrchInv, NEW r \in Runners, NumberQuestion(r)
    PROVE  RunnerKeeps(r)
  <1> DEFINE gate == GateDiscriminator(AskingRole(run[r].stage))
             u == [run[r] EXCEPT !.pc = "open", !.gate = gate]
  <1>1. UNCHANGED ledger /\ run[r].pc = "ask" /\ run' = [run EXCEPT ![r].pc = "open", ![r].gate = gate]
    BY DEF NumberQuestion, At
  <1>2. gate \in Turns \X Nat /\ gate \in Discs
    BY NumberIsNatural, Vocabulary DEF AskingRole, Turns, OrchInv, LedgerInv
  <1> HIDE DEF gate
  <1>3. run'[r] = u /\ run' = [run EXCEPT ![r] = run'[r]]
    BY <1>1, RunnerTyped
  <1>4. u \in RunStates /\ u.pc = "open" /\ u.st = run[r].st /\ u.idx = run[r].idx
        /\ u.stage = run[r].stage /\ u.gate = gate
    BY <1>2, RunnerTyped DEF RunStates, RunPCs
  <1> HIDE DEF u
  <1>5. RunInv(log, u)
    BY <1>1, <1>2, <1>4, RunnerTyped DEF RunInv, AfterPlan
  <1> QED
    BY <1>1, <1>3, <1>5, LedgerStays DEF RunnerKeeps

\* The question a run is about to put.
Question(r) == Event("AWAITING_HUMAN_ATTESTATION", 0, run[r].gate, 0, "", run[r].mode)

LEMMA QuestionProper ==
    ASSUME OrchInv, NEW r \in Runners, run[r].pc = "open"
    PROVE  /\ Proper(log, Question(r))
           /\ Question(r).type = "AWAITING_HUMAN_ATTESTATION" /\ Question(r).disc = run[r].gate
  <1> DEFINE e == Question(r)
  <1>1. run[r].gate \in Turns \X Nat
    BY RunnerTyped DEF RunInv
  <1>2. e \in EventRecord
    <2>1. "AWAITING_HUMAN_ATTESTATION" \in EVENT_TYPES /\ "" \in DATA
      BY Vocabulary
    <2> QED
      BY <2>1, RunnerTyped, EventTyped DEF Question
  <1>3. e.type = "AWAITING_HUMAN_ATTESTATION" /\ e.disc = run[r].gate
    BY DEF Event, Question
  <1> HIDE DEF e
  <1>4. Proper(log, e)
    BY <1>1, <1>2, <1>3 DEF Proper, WellFormed
  <1> QED
    BY <1>3, <1>4 DEF e

LEMMA OpenGateKeeps ==
    ASSUME OrchInv, NEW r \in Runners, OpenGate(r)
    PROVE  RunnerKeeps(r)
  <1>1. EmitAndProject(r, Question(r), run[r].stage) /\ run[r].pc = "open" /\ Emit(Question(r))
    BY DEF OpenGate, At, Question, EmitAndProject
  <1>2. Grew(log, log')
    BY <1>1, QuestionProper, EmitKeeps DEF OrchInv
  <1>3. run[r].stage \in {"plan", "policy", "step"} => Has(log', "PLAN_COMPILED")
    BY <1>1, <1>2, RunnerTyped, PlanIsThere DEF RunInv, Grew
  <1> QED
    BY <1>1, <1>3, QuestionProper, RunnerTyped, EmitAndProjectKeeps

LEMMA PlanProper ==
    ASSUME OrchInv, NEW r \in Runners, NEW n \in Nat, n > 0
    PROVE  Proper(log, PlanEvent(r, n)) /\ PlanEvent(r, n).type = "PLAN_COMPILED"
  <1> DEFINE e == PlanEvent(r, n)
  <1>1. e \in EventRecord
    <2>1. "PLAN_COMPILED" \in EVENT_TYPES /\ "" \in DATA /\ NoDisc \in Discs
      BY Vocabulary
    <2> QED
      BY <2>1, RunnerTyped, EventTyped DEF PlanEvent
  <1>2. e.type = "PLAN_COMPILED" /\ e.num = n
    BY DEF Event, PlanEvent
  <1> HIDE DEF e
  <1>3. Proper(log, e)
    BY <1>1, <1>2 DEF Proper, WellFormed
  <1> QED
    BY <1>2, <1>3 DEF e

LEMMA PlanKeeps ==
    ASSUME OrchInv, NEW r \in Runners, Plan(r)
    PROVE  RunnerKeeps(r)
  <1>1. ASSUME NEW n \in Nat, n > 0, EmitAndProject(r, PlanEvent(r, n), "plan")
        PROVE  RunnerKeeps(r)
    <2>1. Emit(PlanEvent(r, n))
      BY <1>1 DEF EmitAndProject
    <2>2. Has(log', "PLAN_COMPILED")
      BY <1>1, <2>1, PlanProper, EmitKeeps DEF OrchInv
    <2> QED
      BY <1>1, <2>2, PlanProper, EmitAndProjectKeeps DEF Stages
  <1>2. CASE run[r].st.plan > 0 /\ Skip(r, "plan")
    BY <1>2, SkipKeeps
  <1>3. CASE EmitAndProject(r, PlanEvent(r, 1), "plan")
    BY <1>1, <1>3
  <1>4. CASE Raise(r)
    BY <1>4, RaiseKeeps
  <1>5. CASE \E n \in PlanLengths : EmitAndProject(r, PlanEvent(r, n), "plan")
    <2>1. PICK n \in PlanLengths : EmitAndProject(r, PlanEvent(r, n), "plan")
      BY <1>5
    <2>2. n \in Nat /\ n > 0
      BY OrchestratorAssumption
    <2> QED
      BY <1>1, <2>1, <2>2
  <1> QED
    BY <1>2, <1>3, <1>4, <1>5 DEF Plan

LEMMA CheckPolicyKeeps ==
    ASSUME OrchInv, NEW r \in Runners, CheckPolicy(r)
    PROVE  RunnerKeeps(r)
  <1>1. run[r].pc = "policy" /\ run[r].st.plan > 0
    BY RunnerTyped DEF CheckPolicy, At, RunInv, AfterPlan
  <1>2. CASE Skip(r, "policy")
    BY <1>1, <1>2, SkipKeeps
  <1>3. ASSUME NEW q, StageQuestions("POLICY") # {}, q = LastAsked(StageQuestions("POLICY")),
               run' = [run EXCEPT ![r].pc = "clear", ![r].gate = q], UNCHANGED ledger
        PROVE  RunnerKeeps(r)
    <2> DEFINE u == [run[r] EXCEPT !.pc = "clear", !.gate = q]
    <2>1. StageQuestions("POLICY") \in SUBSET Questions
      BY DEF StageQuestions
    <2>2. q \in Questions
      BY <1>3, <2>1, LastAskedIsAsked DEF OrchInv, LedgerInv
    <2>3. q \in Discs
      <3>1. PICK i \in DOMAIN log : q = log[i].disc
        BY <2>2 DEF Questions
      <3>2. log[i] \in EventRecord
        BY DEF OrchInv, LedgerInv
      <3> QED
        BY <3>1, <3>2 DEF EventRecord
    <2>4. run'[r] = u /\ run' = [run EXCEPT ![r] = run'[r]]
      BY <1>3, RunnerTyped
    <2>5. u \in RunStates /\ u.pc = "clear" /\ u.st = run[r].st /\ u.idx = run[r].idx
      BY <2>3, RunnerTyped DEF RunStates, RunPCs
    <2> HIDE DEF u
    <2>6. RunInv(log', u)
      BY <1>1, <1>3, <2>5, RunnerTyped, RunMoves, LedgerStays DEF AfterPlan
    <2> QED
      BY <1>3, <2>4, <2>6, LedgerStays DEF RunnerKeeps
  <1>4. CASE Goto(r, "consult") /\ UNCHANGED ledger
    <2>1. "consult" \in RunPCs
      BY DEF RunPCs
    <2>2. /\ run'[r].pc = "consult" /\ run'[r].st = run[r].st /\ run'[r].idx = run[r].idx
          /\ run'[r] \in RunStates /\ run' = [run EXCEPT ![r] = run'[r]]
      BY <1>4, <2>1, RunnerTyped, GoesTo
    <2>3. RunInv(log', run'[r])
      BY <1>1, <1>4, <2>2, RunnerTyped, RunMoves, LedgerStays DEF AfterPlan
    <2> QED
      BY <1>4, <2>2, <2>3, LedgerStays DEF RunnerKeeps
  <1> QED
    BY <1>2, <1>3, <1>4 DEF CheckPolicy

LEMMA DecisionProper ==
    ASSUME OrchInv, NEW r \in Runners, NEW type \in {"POLICY_CLEARED", "POLICY_BLOCKED", "SECURITY_VIOLATION"},
           NEW disc \in Discs, NEW data \in {"APPROVED", "BLOCKED"}
    PROVE  Proper(log, Event(type, 0, disc, 0, data, run[r].mode))
  <1>1. type \in EVENT_TYPES /\ data \in DATA
    BY Vocabulary
  <1> QED
    BY <1>1, RunnerTyped, PlainProper

\* The policy's decision is recorded; the plan it is about is in the log.
LEMMA DecisionKeeps ==
    ASSUME OrchInv, NEW r \in Runners, NEW type \in {"POLICY_CLEARED", "POLICY_BLOCKED", "SECURITY_VIOLATION"},
           NEW disc \in Discs, NEW data \in {"APPROVED", "BLOCKED"}, run[r].pc \in AfterPlan,
           EmitAndProject(r, Event(type, 0, disc, 0, data, run[r].mode), "policy")
    PROVE  RunnerKeeps(r)
  <1> DEFINE e == Event(type, 0, disc, 0, data, run[r].mode)
  <1>1. Proper(log, e)
    BY DecisionProper
  <1>2. EmitAndProject(r, e, "policy") /\ Emit(e)
    BY DEF EmitAndProject
  <1> HIDE DEF e
  <1>3. Has(log, "PLAN_COMPILED")
    BY RunnerTyped, PlanIsThere DEF RunInv
  <1>4. Has(log', "PLAN_COMPILED")
    BY <1>1, <1>2, <1>3, EmitKeeps DEF OrchInv, Grew
  <1> QED
    BY <1>1, <1>2, <1>4, EmitAndProjectKeeps DEF Stages

LEMMA RecordRulingKeeps ==
    ASSUME OrchInv, NEW r \in Runners, RecordRuling(r)
    PROVE  RunnerKeeps(r)
  BY RunnerTyped, DecisionKeeps DEF RecordRuling, At, AfterPlan

LEMMA ConsultPolicyKeeps ==
    ASSUME OrchInv, NEW r \in Runners, ConsultPolicy(r)
    PROVE  RunnerKeeps(r)
  <1>1. run[r].pc = "consult" /\ run[r].pc \in AfterPlan /\ run[r].st.plan > 0
    BY RunnerTyped DEF ConsultPolicy, At, RunInv, AfterPlan
  <1>2. NoDisc \in Discs
    BY Vocabulary
  <1>3. CASE \E t \in {"POLICY_BLOCKED", "SECURITY_VIOLATION"} :
                EmitAndProject(r, Event(t, 0, NoDisc, 0, "BLOCKED", run[r].mode), "policy")
    BY <1>1, <1>2, <1>3, DecisionKeeps
  <1>4. CASE run' = [run EXCEPT ![r].pc = "ask", ![r].stage = "policy"] /\ UNCHANGED ledger
    BY <1>1, <1>4, AskKeeps DEF GotoIn
  <1>5. CASE EmitAndProject(r, Event("POLICY_CLEARED", 0, NoDisc, 0, "APPROVED", run[r].mode), "policy")
    BY <1>1, <1>2, <1>5, DecisionKeeps
  <1> QED
    BY <1>3, <1>4, <1>5 DEF ConsultPolicy

\* Every step below the next pending one is done.
LEMMA NextStepKeeps ==
    ASSUME OrchInv, NEW r \in Runners, NextStep(r)
    PROVE  RunnerKeeps(r)
  <1> DEFINE s == run[r]
  <1>1. /\ UNCHANGED ledger /\ s.pc = "execute" /\ s.st.plan > 0 /\ s.st.plan \in Nat /\ s.idx \in Nat
        /\ s.st.completed \subseteq Nat
        /\ \A i \in s.st.completed : Done(log, i)
        /\ \A i \in Nat : i < s.idx => Done(log, i)
        /\ log' = log
    BY RunnerTyped, LedgerStays DEF NextStep, At, RunInv, AfterPlan, Projection
  <1>2. ASSUME NEW i \in Pending(r), \A j \in Pending(r) : i <= j,
               run' = [run EXCEPT ![r].pc = "attempt", ![r].idx = i, ![r].att = 0]
        PROVE  RunnerKeeps(r)
    <2> DEFINE u == [run[r] EXCEPT !.pc = "attempt", !.idx = i, !.att = 0]
    <2>1. i \in Nat /\ s.idx <= i /\ i < s.st.plan
      BY <1>1, <1>2 DEF Pending
    <2>2. ASSUME NEW k \in Nat, k < i PROVE Done(log, k)
      <3>1. CASE k < s.idx
        BY <1>1, <3>1
      <3>2. CASE s.idx <= k
        <4>1. k \notin Pending(r)
          BY <1>2, <2>1, <2>2 DEF Pending
        <4>2. k \in s.st.completed
          BY <1>1, <2>1, <2>2, <3>2, <4>1 DEF Pending
        <4> QED
          BY <1>1, <4>2
      <3> QED
        BY <1>1, <3>1, <3>2
    <2>3. run'[r] = u /\ run' = [run EXCEPT ![r] = run'[r]]
      BY <1>2, RunnerTyped
    <2>4. u \in RunStates /\ u.pc = "attempt" /\ u.st = run[r].st /\ u.idx = i
      <3>1. 0 \in 0 .. MaxRetries
        BY RunnerTyped
      <3> QED
        BY <2>1, <3>1, RunnerTyped DEF RunStates, RunPCs
    <2> HIDE DEF u
    <2>5. RunInv(log, u)
      BY <1>1, <2>2, <2>4, RunnerTyped DEF RunInv, AfterPlan
    <2> QED
      BY <1>1, <2>3, <2>5, LedgerStays DEF RunnerKeeps
  <1>3. ASSUME Pending(r) = {}, NEW pc \in {"finish", "commit"}, Goto(r, pc)
        PROVE  RunnerKeeps(r)
    <2>1. ASSUME NEW k \in Nat, k < s.st.plan PROVE Done(log, k)
      <3>1. CASE k < s.idx
        BY <1>1, <3>1
      <3>2. CASE s.idx <= k
        <4>1. k \in s.st.completed
          BY <1>1, <1>3, <2>1, <3>2 DEF Pending
        <4> QED
          BY <1>1, <4>1
      <3> QED
        BY <1>1, <3>1, <3>2
    <2>2. pc \in RunPCs
      BY DEF RunPCs
    <2>3. /\ run'[r].pc = pc /\ run'[r].st = run[r].st /\ run'[r].idx = run[r].idx
          /\ run'[r] \in RunStates /\ run' = [run EXCEPT ![r] = run'[r]]
      BY <1>3, <2>2, RunnerTyped, GoesTo
    <2>4. RunInv(log', run'[r])
      BY <1>1, <2>1, <2>3, RunnerTyped, RunMoves, LedgerStays DEF AfterPlan
    <2> QED
      BY <1>1, <2>3, <2>4, LedgerStays DEF RunnerKeeps
  <1> QED
    BY <1>2, <1>3 DEF NextStep

\* A step event: its discriminator is the step's.
LEMMA StepProper ==
    ASSUME OrchInv, NEW r \in Runners,
           NEW type \in {"EXECUTION_STARTED", "EXECUTION_COMPLETED", "VALIDATION_FAILED"},
           NEW data \in DATA, type = "VALIDATION_FAILED" => data = "FAIL"
    PROVE  /\ Proper(log, StepEvent(r, type, data))
           /\ StepEvent(r, type, data).type = type /\ StepEvent(r, type, data).num = run[r].idx
  <1> DEFINE e == StepEvent(r, type, data)
  <1>1. e \in EventRecord
    <2>1. type \in EVENT_TYPES /\ StepDisc(run[r].idx) \in Discs
      BY Vocabulary, RunnerTyped
    <2>2. run[r].att \in Nat
      BY RunnerTyped
    <2> QED
      BY <2>1, <2>2, RunnerTyped, EventTyped DEF StepEvent
  <1>2. e.type = type /\ e.num = run[r].idx /\ e.disc = StepDisc(run[r].idx) /\ e.data = data
    BY DEF Event, StepEvent
  <1> HIDE DEF e
  <1>3. e.num > 0 => Done(log, e.num - 1)
    BY <1>2, RunnerTyped DEF RunInv
  <1>4. Proper(log, e)
    BY <1>1, <1>2, <1>3 DEF Proper, WellFormed
  <1> QED
    BY <1>2, <1>4 DEF e

LEMMA AttemptKeeps ==
    ASSUME OrchInv, NEW r \in Runners, Attempt(r)
    PROVE  RunnerKeeps(r)
  <1>1. /\ run[r].st.plan > 0
        /\ "work" \in RunPCs /\ "" \in DATA
    BY Vocabulary, RunnerTyped DEF Attempt, At, RunInv, AfterPlan, RunPCs
  <1>2. Proper(log, StepEvent(r, "EXECUTION_STARTED", ""))
    BY <1>1, StepProper
  <1> QED
    BY <1>1, <1>2, EmitAndGotoKeeps DEF Attempt

LEMMA CritiqueProper ==
    ASSUME OrchInv, NEW r \in Runners, NEW v \in {"PASS", "FAIL"}
    PROVE  Proper(log, Critique(r, v))
  <1>1. "CRITIQUE_CONCLUDED" \in EVENT_TYPES /\ StepDisc(run[r].idx) \in Discs /\ v \in DATA
    BY Vocabulary, RunnerTyped
  <1> QED
    BY <1>1, RunnerTyped, PlainProper DEF Critique

LEMMA WorkKeeps ==
    ASSUME OrchInv, NEW r \in Runners, Work(r)
    PROVE  RunnerKeeps(r)
  <1>1. run[r].st.plan > 0 /\ {"reject", "complete"} \subseteq RunPCs
    BY RunnerTyped DEF Work, At, RunInv, AfterPlan, RunPCs
  <1>2. CASE Goto(r, "reject") /\ UNCHANGED ledger
    <2>1. /\ run'[r].pc = "reject" /\ run'[r].st = run[r].st /\ run'[r].idx = run[r].idx
          /\ run'[r] \in RunStates /\ run' = [run EXCEPT ![r] = run'[r]]
      BY <1>1, <1>2, RunnerTyped, GoesTo
    <2>2. RunInv(log', run'[r])
      BY <1>1, <1>2, <2>1, RunnerTyped, RunMoves, LedgerStays DEF AfterPlan
    <2> QED
      BY <1>2, <2>1, <2>2, LedgerStays DEF RunnerKeeps
  <1>3. \A v \in {"PASS", "FAIL"} : Proper(log, Critique(r, v))
    BY CritiqueProper
  <1>4. CASE Emit(Critique(r, "FAIL")) /\ Goto(r, "reject")
    BY <1>1, <1>3, <1>4, EmitAndGotoKeeps
  <1>5. CASE Emit(Critique(r, "PASS")) /\ Goto(r, "complete")
    BY <1>1, <1>3, <1>5, EmitAndGotoKeeps
  <1> QED
    BY <1>2, <1>4, <1>5 DEF Work

LEMMA CompleteKeeps ==
    ASSUME OrchInv, NEW r \in Runners, Complete(r)
    PROVE  RunnerKeeps(r)
  <1> DEFINE e == StepEvent(r, "EXECUTION_COMPLETED", "")
             u == [run[r] EXCEPT !.pc = "project", !.stage = "step", !.idx = run[r].idx + 1]
  <1>1. /\ Emit(e) /\ run[r].st.plan > 0
        /\ run' = [run EXCEPT ![r].pc = "project", ![r].stage = "step", ![r].idx = run[r].idx + 1]
    BY RunnerTyped DEF Complete, At, RunInv, AfterPlan
  <1>2. Proper(log, e) /\ e.type = "EXECUTION_COMPLETED" /\ e.num = run[r].idx
    <2>1. "" \in DATA
      BY Vocabulary
    <2> QED
      BY <2>1, StepProper
  <1> HIDE DEF e
  <1>3. LedgerInv(log', task', closed') /\ Grew(log, log') /\ Done(log', run[r].idx)
    BY <1>1, <1>2, EmitKeeps DEF OrchInv
  <1>4. run'[r] = u /\ run' = [run EXCEPT ![r] = run'[r]]
    BY <1>1, RunnerTyped
  <1>5. u \in RunStates /\ u.pc = "project" /\ u.st = run[r].st /\ u.idx = run[r].idx + 1
    <2>1. run[r].idx + 1 \in Nat /\ run[r] \in RunStates
      BY RunnerTyped
    <2> QED
      BY <2>1 DEF RunStates, RunPCs
  <1> HIDE DEF u
  <1>6. RunInv(log', run[r]) /\ Has(log', "PLAN_COMPILED")
    BY <1>1, <1>3, RunnerTyped, RunInvGrows, PlanIsThere
  <1>7. \A i \in Nat : i < run[r].idx + 1 => Done(log', i)
    <2>1. \A i \in Nat : i < run[r].idx + 1 => i < run[r].idx \/ i = run[r].idx
      BY RunnerTyped
    <2> QED
      BY <1>3, <1>6, <2>1 DEF RunInv
  <1>8. RunInv(log', u)
    BY <1>5, <1>6, <1>7 DEF RunInv, AfterPlan
  <1> QED
    BY <1>3, <1>4, <1>8 DEF RunnerKeeps

LEMMA RejectKeeps ==
    ASSUME OrchInv, NEW r \in Runners, Reject(r)
    PROVE  RunnerKeeps(r)
  <1>1. Emit(StepEvent(r, "VALIDATION_FAILED", "FAIL")) /\ run[r].st.plan > 0
    BY RunnerTyped DEF Reject, At, RunInv, AfterPlan
  <1>2. Proper(log, StepEvent(r, "VALIDATION_FAILED", "FAIL"))
    <2>1. "FAIL" \in DATA
      BY Vocabulary
    <2> QED
      BY <2>1, StepProper
  <1>3. CASE run[r].att < MaxRetries /\ run' = [run EXCEPT ![r].pc = "attempt", ![r].att = run[r].att + 1]
    <2> DEFINE u == [run[r] EXCEPT !.pc = "attempt", !.att = run[r].att + 1]
    <2>1. run'[r] = u /\ run' = [run EXCEPT ![r] = run'[r]]
      BY <1>3, RunnerTyped
    <2>2. run[r].att + 1 \in 0 .. MaxRetries
      BY <1>3, RunnerTyped
    <2>3. u \in RunStates /\ u.pc = "attempt" /\ u.st = run[r].st /\ u.idx = run[r].idx
      BY <2>2, RunnerTyped DEF RunStates, RunPCs
    <2> HIDE DEF u
    <2>4. LedgerInv(log', task', closed') /\ Grew(log, log')
      BY <1>1, <1>2, EmitKeeps DEF OrchInv
    <2>5. RunInv(log', u)
      BY <1>1, <2>3, <2>4, RunnerTyped, RunMoves DEF AfterPlan
    <2> QED
      BY <2>1, <2>4, <2>5 DEF RunnerKeeps
  <1>4. CASE Goto(r, "fail")
    <2>1. "fail" \in RunPCs
      BY DEF RunPCs
    <2> QED
      BY <1>1, <1>2, <1>4, <2>1, EmitAndGotoKeeps DEF AfterPlan
  <1> QED
    BY <1>3, <1>4 DEF Reject, Goto

Commitment(r) == Event("MUTATION_COMMITTED", 0, NoDisc, 0, "", run[r].mode)

LEMMA CommitProper ==
    ASSUME OrchInv, NEW r \in Runners, run[r].pc = "commit"
    PROVE  Proper(log, Commitment(r)) /\ Commitment(r).type = "MUTATION_COMMITTED"
  <1> DEFINE e == Commitment(r)
  <1>1. e \in EventRecord
    <2>1. "MUTATION_COMMITTED" \in EVENT_TYPES /\ "" \in DATA /\ NoDisc \in Discs
      BY Vocabulary
    <2> QED
      BY <2>1, RunnerTyped, EventTyped DEF Commitment
  <1>2. e.type = "MUTATION_COMMITTED"
    BY DEF Event, Commitment
  <1> HIDE DEF e
  <1>3. Planned(log, run[r].st.plan) /\ \A i \in Nat : i < run[r].st.plan => Done(log, i)
    BY RunnerTyped DEF RunInv, AfterPlan
  <1>4. Proper(log, e)
    BY <1>1, <1>2, <1>3, RunnerTyped DEF Proper, WellFormed
  <1> QED
    BY <1>2, <1>4 DEF e

LEMMA CommitTaskKeeps ==
    ASSUME OrchInv, NEW r \in Runners, CommitTask(r)
    PROVE  RunnerKeeps(r)
  BY CommitProper, EmitAndProjectKeeps DEF CommitTask, At, Commitment, Stages

LEMMA FailTaskKeeps ==
    ASSUME OrchInv, NEW r \in Runners, FailTask(r)
    PROVE  RunnerKeeps(r)
  <1>1. Proper(log, Event("EXECUTION_FAILED", run[r].base, NoDisc, 0, "", run[r].mode))
    BY BareProper, Vocabulary, RunnerTyped DEF BareTypes
  <1> QED
    BY <1>1, EmitAndProjectKeeps DEF FailTask, Stages

LEMMA PipelineKeeps ==
    ASSUME OrchInv, NEW r \in Runners, Pipeline(r)
    PROVE  RunnerKeeps(r)
  BY BeginKeeps, ReprojectKeeps, HydrateKeeps, BuildContextKeeps, NumberQuestionKeeps, OpenGateKeeps,
     PlanKeeps, CheckPolicyKeeps, RecordRulingKeeps, ConsultPolicyKeeps, NextStepKeeps, AttemptKeeps,
     WorkKeeps, CompleteKeeps, RejectKeeps, CommitTaskKeeps, FailTaskKeeps DEF Pipeline

-----------------------------------------------------------------------------
(* The other processes                                                     *)

\* What a step of anybody else leaves behind: the runs may end, none goes on.
OtherKeeps ==
    /\ LedgerInv(log', task', closed')
    /\ Grew(log, log')
    /\ RestTyped'
    /\ \A r \in Runners : RunInv(log, run'[r])
    /\ \A h \in Humans : HumanInv(human'[h])

LEMMA RunStarts ==
    ASSUME OrchInv, NEW r \in Runners, NEW pc \in {"begin", "finish"}, Goto(r, pc)
    PROVE  run' \in [Runners -> RunStates] /\ \A x \in Runners : RunInv(log, run'[x])
  <1>1. pc \in RunPCs
    BY DEF RunPCs
  <1>2. /\ run'[r].pc = pc /\ run'[r].st = run[r].st /\ run'[r].idx = run[r].idx
        /\ run'[r] \in RunStates /\ run' = [run EXCEPT ![r] = run'[r]]
    BY <1>1, RunnerTyped, GoesTo
  <1>3. RunInv(log, run'[r])
    BY <1>2, RunnerTyped, RunMoves DEF AfterPlan, Grew
  <1>4. \A x \in Runners : x # r => run'[x] = run[x]
    BY <1>2, RunnerTyped
  <1>5. run' \in [Runners -> RunStates]
    BY <1>2, RunnerTyped
  <1> QED
    BY <1>3, <1>4, <1>5, RunnerTyped

LEMMA NoRunInv ==
    ASSUME NEW l, NEW pc \in {"idle", "done"}
    PROVE  RunInv(l, [NoRun EXCEPT !.pc = pc])
  <1> DEFINE s == [NoRun EXCEPT !.pc = pc]
  <1>1. EmptyProjection \in Projection /\ EmptyProjection.plan = 0 /\ EmptyProjection.completed = {}
    BY PhasesOfEvents DEF EmptyProjection, Projection, LADDER
  <1>2. "STANDARD" \in DOMAIN LADDER /\ NoDisc \in Discs /\ 0 \in 0 .. MaxRetries /\ pc \in RunPCs
    <2>1. "STANDARD" \in DOMAIN LADDER
      BY DEF LADDER
    <2>2. pc \in RunPCs /\ 0 \in 0 .. MaxRetries
      BY OrchestratorAssumption DEF RunPCs
    <2> QED
      BY <2>1, <2>2, Vocabulary
  <1>3. s = [pc |-> pc, st |-> EmptyProjection, mode |-> "STANDARD", base |-> 0,
             idx |-> 0, att |-> 0, stage |-> "none", gate |-> NoDisc]
    BY DEF NoRun
  <1>4. s \in RunStates /\ s.pc = pc /\ s.st = EmptyProjection /\ s.idx = 0
    BY <1>1, <1>2, <1>3 DEF RunStates
  <1> HIDE DEF s
  <1> QED
    BY <1>1, <1>4 DEF RunInv, AfterPlan, s

LEMMA RunEnds ==
    ASSUME OrchInv, NEW r \in Runners, NEW pc \in {"idle", "done"},
           run' = [run EXCEPT ![r] = [NoRun EXCEPT !.pc = pc]]
    PROVE  run' \in [Runners -> RunStates] /\ \A x \in Runners : RunInv(log, run'[x])
  <1> DEFINE s == [NoRun EXCEPT !.pc = pc]
  <1>1. RunInv(log, s) /\ s \in RunStates
    BY NoRunInv DEF RunInv
  <1>2. run' = [run EXCEPT ![r] = s]
    OBVIOUS
  <1> HIDE DEF s
  <1>3. run'[r] = s /\ \A x \in Runners : x # r => run'[x] = run[x]
    BY <1>2, RunnerTyped
  <1> QED
    BY <1>1, <1>2, <1>3, RunnerTyped

LEMMA SubmitKeeps == OrchInv /\ Submit => OtherKeeps
  <1> SUFFICES ASSUME OrchInv, Submit PROVE OtherKeeps
    OBVIOUS
  <1>1. sub.mode \in Modes /\ sub.mode \in DOMAIN LADDER /\ LADDER[sub.mode] \in DOMAIN LADDER
    BY OrchestratorAssumption DEF OrchInv, RestTyped, LADDER
  <1>2. CASE SubmitRequest
    <2>1. Proper(log, Event("TASK_REQUESTED", 0, NoDisc, 0, "", sub.mode))
      BY <1>1, BareProper, Vocabulary DEF BareTypes
    <2>2. LedgerInv(log', task', closed') /\ Grew(log, log')
      BY <1>2, <2>1, EmitKeeps DEF OrchInv, SubmitRequest
    <2> QED
      BY <1>2, <2>2 DEF SubmitRequest, OtherKeeps, OrchInv, RestTyped, queue, boot, people
  <1>3. CASE SubmitQueued
    <2>1. PICK m \in {sub.mode, LADDER[sub.mode]} : Emit(Event("TASK_QUEUED", 0, NoDisc, 0, "", m))
      BY <1>3 DEF SubmitQueued
    <2>2. Proper(log, Event("TASK_QUEUED", 0, NoDisc, 0, "", m))
      BY <1>1, BareProper, Vocabulary DEF BareTypes
    <2>3. LedgerInv(log', task', closed') /\ Grew(log, log')
      BY <2>1, <2>2, EmitKeeps DEF OrchInv
    <2> QED
      BY <1>3, <2>3 DEF SubmitQueued, OtherKeeps, OrchInv, RestTyped, queue, boot, people
  <1>4. CASE SubmitEnqueue
    BY <1>4, LedgerStays DEF SubmitEnqueue, OtherKeeps, OrchInv, RestTyped, queue, boot, people
  <1> QED
    BY <1>2, <1>3, <1>4 DEF Submit

LEMMA ClaimKeeps == OrchInv /\ Claim => OtherKeeps
  <1> SUFFICES ASSUME OrchInv, Claim PROVE OtherKeeps
    OBVIOUS
  <1>1. queued \in Nat /\ ClaimBatch \in Nat
    BY OrchestratorAssumption DEF OrchInv, RestTyped
  <1>2. PICK k \in 1 .. ClaimBatch : k <= queued /\ queued' = queued - k /\ batch' = k
    BY DEF Claim
  <1>3. queued' \in Nat /\ batch' \in 0 .. ClaimBatch
    BY <1>1, <1>2
  <1> QED
    BY <1>3, LedgerStays DEF Claim, OtherKeeps, OrchInv, RestTyped, boot, people

LEMMA RunMessageKeeps == OrchInv /\ RunMessage => OtherKeeps
  <1> SUFFICES ASSUME OrchInv, RunMessage PROVE OtherKeeps
    OBVIOUS
  <1>1. batch' \in 0 .. ClaimBatch
    BY OrchestratorAssumption DEF RunMessage, OrchInv, RestTyped
  <1>2. Goto(Daemon, "begin") /\ Daemon \in Runners
    BY DEF RunMessage, Goto, Runners
  <1>3. run' \in [Runners -> RunStates] /\ \A x \in Runners : RunInv(log, run'[x])
    BY <1>2, RunStarts
  <1> QED
    BY <1>1, <1>3, LedgerStays DEF RunMessage, OtherKeeps, OrchInv, RestTyped, boot, people

LEMMA StartInlineKeeps ==
    ASSUME OrchInv, NEW r \in Inline, StartInline(r)
    PROVE  OtherKeeps
  <1>1. Goto(r, "begin") /\ r \in Runners
    BY DEF StartInline, Goto, Runners
  <1>2. run' \in [Runners -> RunStates] /\ \A x \in Runners : RunInv(log, run'[x])
    BY <1>1, RunStarts
  <1> QED
    BY <1>2, LedgerStays DEF StartInline, OtherKeeps, OrchInv, RestTyped, queue, boot, people

LEMMA FinishKeeps ==
    ASSUME OrchInv, NEW r \in Runners, Finish(r)
    PROVE  OtherKeeps
  <1>1. PICK pc \in {"idle", "done"} : run' = [run EXCEPT ![r] = [NoRun EXCEPT !.pc = pc]]
    BY DEF Finish
  <1>2. run' \in [Runners -> RunStates] /\ \A x \in Runners : RunInv(log, run'[x])
    BY <1>1, RunEnds
  <1> QED
    BY <1>2, LedgerStays DEF Finish, OtherKeeps, OrchInv, RestTyped, queue, boot, people

LEMMA AbortKeeps ==
    ASSUME OrchInv, NEW r \in Runners, Abort(r)
    PROVE  OtherKeeps
  <1>1. PICK pc \in {"idle", "done"} : run' = [run EXCEPT ![r] = [NoRun EXCEPT !.pc = pc]]
    BY DEF Abort
  <1>2. run' \in [Runners -> RunStates] /\ \A x \in Runners : RunInv(log, run'[x])
    BY <1>1, RunEnds
  <1>3. queued' \in Nat /\ faults' \in 0 .. MaxFaults
    BY OrchestratorAssumption DEF Abort, OrchInv, RestTyped
  <1> QED
    BY <1>2, <1>3, LedgerStays DEF Abort, OtherKeeps, OrchInv, RestTyped, boot, people

LEMMA CrashKeeps == OrchInv /\ Crash => OtherKeeps
  <1> SUFFICES ASSUME OrchInv, Crash PROVE OtherKeeps
    OBVIOUS
  <1>1. run' = [run EXCEPT ![Daemon] = [NoRun EXCEPT !.pc = "idle"]] /\ Daemon \in Runners
    BY DEF Crash, NoRun, Runners
  <1>2. run' \in [Runners -> RunStates] /\ \A x \in Runners : RunInv(log, run'[x])
    BY <1>1, RunEnds
  <1>3. batch' \in 0 .. ClaimBatch /\ faults' \in 0 .. MaxFaults
    BY OrchestratorAssumption DEF Crash, OrchInv, RestTyped
  <1>4. server' \in Servers
    BY DEF Crash, Servers
  <1>5. sub' \in [pc : {"new", "requested", "enqueue", "done", "dead"}, mode : Modes]
    BY DEF Crash, OrchInv, RestTyped
  <1> QED
    BY <1>2, <1>3, <1>4, <1>5, LedgerStays DEF Crash, OtherKeeps, OrchInv, RestTyped, people

LEMMA HumanKeeps ==
    ASSUME OrchInv, NEW h \in Humans, LookAtTask(h) \/ FindQuestion(h) \/ Rule(h)
    PROVE  OtherKeeps
  <1>1. /\ human \in [Humans -> HumanStates] /\ human[h] \in HumanStates /\ HumanInv(human[h])
        /\ human[h].attempts \in Nat /\ human[h].mode \in DOMAIN LADDER /\ human[h].gate \in Discs
        /\ task.attempts \in Nat /\ task.mode \in DOMAIN LADDER
    BY DEF OrchInv, RestTyped, HumanStates, LedgerInv, Projection
  <1>2. NoHuman \in HumanStates /\ NoHuman.pc = "idle" /\ NoHuman.gate = NoDisc
    <2>1. "STANDARD" \in DOMAIN LADDER
      BY DEF LADDER
    <2> QED
      BY <2>1, Vocabulary DEF NoHuman, HumanStates
  <1>3. ASSUME NEW u \in HumanStates, HumanInv(u), human' = [human EXCEPT ![h] = u]
        PROVE  human' \in [Humans -> HumanStates] /\ \A g \in Humans : HumanInv(human'[g])
    BY <1>1, <1>3 DEF OrchInv
  <1>4. CASE LookAtTask(h)
    <2> DEFINE u == [NoHuman EXCEPT !.pc = "looked", !.attempts = task.attempts, !.mode = task.mode]
    <2>1. u \in HumanStates /\ HumanInv(u)
      BY <1>1, <1>2 DEF HumanStates, HumanInv
    <2>2. human' = [human EXCEPT ![h] = u]
      BY <1>4 DEF LookAtTask
    <2> HIDE DEF u
    <2>3. human' \in [Humans -> HumanStates] /\ \A g \in Humans : HumanInv(human'[g])
      BY <1>3, <2>1, <2>2
    <2> QED
      BY <1>4, <2>3, LedgerStays DEF LookAtTask, OtherKeeps, OrchInv, RestTyped, queue, boot
  <1>5. CASE FindQuestion(h)
    <2>1. ASSUME human' = [human EXCEPT ![h] = NoHuman]
          PROVE  human' \in [Humans -> HumanStates] /\ \A g \in Humans : HumanInv(human'[g])
      BY <1>2, <1>3, <2>1 DEF HumanInv
    <2>2. ASSUME OpenQuestions # {},
                 human' = [human EXCEPT ![h].pc = "found", ![h].gate = LastAsked(OpenQuestions)]
          PROVE  human' \in [Humans -> HumanStates] /\ \A g \in Humans : HumanInv(human'[g])
      <3> DEFINE q == LastAsked(OpenQuestions)
                 u == [human[h] EXCEPT !.pc = "found", !.gate = q]
      <3>1. OpenQuestions \in SUBSET Questions
        BY DEF OpenQuestions
      <3>2. q \in Questions
        BY <2>2, <3>1, LastAskedIsAsked DEF OrchInv, LedgerInv
      <3>3. PICK i \in DOMAIN log : log[i].type = "AWAITING_HUMAN_ATTESTATION" /\ q = log[i].disc
        BY <3>2 DEF Questions
      <3>4. q \in Turns \X Nat /\ q \in Discs
        BY <3>3, Vocabulary DEF OrchInv, LedgerInv, InOrder
      <3> HIDE DEF q
      <3>5. human' = [human EXCEPT ![h] = u]
        BY <1>1, <2>2 DEF q
      <3>6. u \in HumanStates /\ u.gate = q
        BY <1>1, <3>4 DEF HumanStates
      <3> HIDE DEF u
      <3> QED
        BY <1>3, <3>4, <3>5, <3>6 DEF HumanInv
    <2>3. human' \in [Humans -> HumanStates] /\ \A g \in Humans : HumanInv(human'[g])
      BY <1>5, <2>1, <2>2 DEF FindQuestion
    <2> QED
      BY <1>5, <2>3, LedgerStays DEF FindQuestion, OtherKeeps, OrchInv, RestTyped, queue, boot
  <1>6. CASE Rule(h)
    <2>1. PICK t \in {"HUMAN_GATE_CLEARED", "HUMAN_GATE_REJECTED"} :
             Emit(Event(t, human[h].attempts, human[h].gate, 0,
                        GATE_RESUME_PHASES[human[h].gate[1]], human[h].mode))
      BY <1>6 DEF Rule
    <2> DEFINE data == GATE_RESUME_PHASES[human[h].gate[1]]
    <2>2. data \in {"PLANNING", "EXECUTING"}
      <3>1. human[h].gate[1] \in Turns
        BY <1>1, <1>6 DEF Rule, HumanInv
      <3> QED
        BY <3>1 DEF GATE_RESUME_PHASES, Turns
    <2>3. data \in DATA /\ data \in PHASES /\ t \in EVENT_TYPES
      BY <2>2, Vocabulary, PhasesOfEvents
    <2> HIDE DEF data
    <2>4. Proper(log, Event(t, human[h].attempts, human[h].gate, 0, data, human[h].mode))
      BY <1>1, <2>3, PlainProper
    <2>5. LedgerInv(log', task', closed') /\ Grew(log, log')
      BY <2>1, <2>4, EmitKeeps DEF OrchInv, data
    <2>6. human' \in [Humans -> HumanStates] /\ \A g \in Humans : HumanInv(human'[g])
      BY <1>2, <1>3, <1>6 DEF Rule, HumanInv
    <2> QED
      BY <1>6, <2>5, <2>6 DEF Rule, OtherKeeps, OrchInv, RestTyped, queue, boot
  <1> QED
    BY <1>4, <1>5, <1>6

LEMMA CorrectorKeeps ==
    ASSUME OrchInv, NEW c \in Correctors, ReadForCorrection(c) \/ RecordCorrection(c)
    PROVE  OtherKeeps
  <1> DEFINE States == [pc : {"idle", "read", "done"}, n : Nat, mode : DOMAIN LADDER]
  <1>1. /\ corr \in [Correctors -> States] /\ corr[c].n \in Nat /\ corr[c].mode \in DOMAIN LADDER
        /\ task.corrections \in Nat /\ task.mode \in DOMAIN LADDER
    BY DEF OrchInv, RestTyped, LedgerInv, Projection
  <1>2. CASE ReadForCorrection(c)
    <2>1. corr' \in [Correctors -> States]
      BY <1>1, <1>2 DEF ReadForCorrection
    <2> QED
      BY <1>2, <2>1, LedgerStays DEF ReadForCorrection, OtherKeeps, OrchInv, RestTyped, queue, boot
  <1>3. CASE RecordCorrection(c)
    <2>1. corr' \in [Correctors -> States]
      BY <1>1, <1>3 DEF RecordCorrection
    <2>2. Proper(log, Event("USER_CORRECTION", corr[c].n, NoDisc, 0, "", corr[c].mode))
      BY <1>1, BareProper, Vocabulary DEF BareTypes
    <2>3. LedgerInv(log', task', closed') /\ Grew(log, log')
      BY <1>3, <2>2, EmitKeeps DEF OrchInv, RecordCorrection
    <2> QED
      BY <1>3, <2>1, <2>3 DEF RecordCorrection, OtherKeeps, OrchInv, RestTyped, queue, boot
  <1> QED
    BY <1>2, <1>3

LEMMA SweepEventProper ==
    ASSUME OrchInv, NEW type \in {"TASK_ABANDONED", "RECOVERY_REPLAY_COMPLETED"},
           NEW tag \in {"sweep", "recovery"}
    PROVE  Proper(log, SweepEvent(type, tag))
  <1>1. <<tag, swept>> \in Discs /\ "STANDARD" \in DOMAIN LADDER /\ 0 \in Nat /\ type \in BareTypes
    BY DEF OrchInv, RestTyped, Discs, LADDER, BareTypes
  <1> QED
    BY <1>1, BareProper DEF SweepEvent

LEMMA ServerKeeps ==
    ASSUME OrchInv, Boot \/ Sweep
    PROVE  OtherKeeps
  <1>1. task.version \in Nat
    BY DEF OrchInv, LedgerInv, Projection
  <1>2. ASSUME UNCHANGED ledger, UNCHANGED <<batch, run, sub, people, faults>>,
               queued' \in Nat, requeues' \in Nat, swept' \in Nat, server' \in Servers
        PROVE  OtherKeeps
    BY <1>2, LedgerStays DEF OtherKeeps, OrchInv, RestTyped, people
  <1>3. ASSUME NEW e, Proper(log, e), Emit(e), UNCHANGED <<queue, swept, requeues, run, sub, people, faults>>,
               server' = "serving"
        PROVE  OtherKeeps
    <2>1. LedgerInv(log', task', closed') /\ Grew(log, log')
      BY <1>3, EmitKeeps DEF OrchInv
    <2> QED
      BY <1>3, <2>1 DEF OtherKeeps, OrchInv, RestTyped, queue, people, Servers
  <1>4. CASE Boot
    BY <1>2, <1>4 DEF Boot, queue, OrchInv, RestTyped, Servers
  <1>5. CASE SweepScan
    BY <1>2, <1>5 DEF SweepScan, queue, OrchInv, RestTyped, Servers
  <1>6. CASE SweepDecide
    <2>1. server' \in Servers
      BY <1>6 DEF SweepDecide, Decision, Servers
    <2> QED
      BY <1>1, <1>2, <1>6, <2>1 DEF SweepDecide, queue, OrchInv, RestTyped
  <1>7. CASE MarkHeadTerminal
    <2>1. LedgerInv(log', task', closed') /\ Grew(log, log')
      BY <1>7 DEF MarkHeadTerminal, OrchInv, LedgerInv, Grew
    <2> QED
      BY <1>7, <2>1 DEF MarkHeadTerminal, OtherKeeps, OrchInv, RestTyped, queue, people, Servers
  <1>8. CASE Abandon
    BY <1>3, <1>8, SweepEventProper DEF Abandon
  <1>9. CASE Requeue
    BY <1>2, <1>9 DEF Requeue, OrchInv, RestTyped, Servers
  <1>10. CASE CheckLatest
    BY <1>2, <1>10 DEF CheckLatest, queue, OrchInv, RestTyped, Servers
  <1>11. CASE RecordSweep
    BY <1>3, <1>11, SweepEventProper DEF RecordSweep
  <1> QED
    BY <1>4, <1>5, <1>6, <1>7, <1>8, <1>9, <1>10, <1>11 DEF Sweep

-----------------------------------------------------------------------------
(* The first theorem                                                       *)

LEMMA OrchInitially == Init => OrchInv
  <1> SUFFICES ASSUME Init PROVE OrchInv
    OBVIOUS
  <1>1. EmptyProjection \in Projection /\ EmptyProjection.plan = 0 /\ EmptyProjection.completed = {}
    BY PhasesOfEvents DEF EmptyProjection, Projection, LADDER
  <1>2. LedgerInv(log, task, closed)
    <2>1. log = <<>> /\ task = EmptyProjection /\ closed = FALSE
      BY DEF Init
    <2>2. log \in Seq(EventRecord) /\ DOMAIN log = {}
      BY <2>1
    <2>3. ~Has(log, "PLAN_COMPILED")
      BY <2>2 DEF Has
    <2> QED
      <3>1. Shows(log, task)
        BY <1>1, <2>1, <2>3 DEF Shows
      <3>2. \A j \in DOMAIN log : InOrder(log, j)
        BY <2>2
      <3> QED
        BY <1>1, <2>1, <2>2, <3>1, <3>2 DEF LedgerInv
  <1>3. NoRun = [NoRun EXCEPT !.pc = "idle"]
    BY DEF NoRun
  <1>4. RunInv(log, NoRun) /\ NoRun \in RunStates
    BY <1>3, NoRunInv DEF RunInv
  <1>5. "STANDARD" \in DOMAIN LADDER
    BY DEF LADDER
  <1>6. NoHuman \in HumanStates /\ HumanInv(NoHuman)
    BY <1>5, Vocabulary DEF NoHuman, HumanStates, HumanInv
  <1>7. RestTyped
    BY <1>4, <1>5, <1>6, OrchestratorAssumption DEF Init, RestTyped, Servers
  <1> QED
    BY <1>2, <1>4, <1>6, <1>7 DEF Init, OrchInv

LEMMA RunnerKeepsInv ==
    ASSUME OrchInv, NEW r \in Runners, RunnerKeeps(r), UNCHANGED <<queue, boot, sub, people, faults>>
    PROVE  OrchInv'
  <1>1. /\ LedgerInv(log', task', closed') /\ Grew(log, log')
        /\ run' = [run EXCEPT ![r] = run'[r]] /\ RunInv(log', run'[r])
    BY DEF RunnerKeeps
  <1>2. run \in [Runners -> RunStates] /\ run'[r] \in RunStates
    BY <1>1, RunnerTyped DEF RunInv
  <1>3. run' \in [Runners -> RunStates] /\ \A x \in Runners : x # r => run'[x] = run[x]
    BY <1>1, <1>2
  <1>4. \A x \in Runners : RunInv(log', run'[x])
    BY <1>1, <1>3, RunnerTyped, RunInvGrows
  <1>5. RestTyped' /\ \A h \in Humans : HumanInv(human'[h])
    BY <1>3 DEF OrchInv, RestTyped, queue, boot, people
  <1> QED
    BY <1>1, <1>4, <1>5 DEF OrchInv

LEMMA OtherKeepsInv ==
    ASSUME OtherKeeps
    PROVE  OrchInv'
  <1>1. \A x \in Runners : RunInv(log', run'[x])
    BY RunInvGrows DEF OtherKeeps
  <1> QED
    BY <1>1 DEF OtherKeeps, OrchInv

LEMMA OrchSteps == OrchInv /\ [Next]_vars => OrchInv'
  <1> SUFFICES ASSUME OrchInv, [Next]_vars PROVE OrchInv'
    OBVIOUS
  <1>1. ASSUME NEW r \in Runners, Pipeline(r) PROVE OrchInv'
    BY <1>1, PipelineKeeps, RunnerKeepsInv DEF Pipeline
  <1>2. ASSUME NEW r \in Runners, Finish(r) \/ Abort(r) PROVE OrchInv'
    BY <1>2, FinishKeeps, AbortKeeps, OtherKeepsInv
  <1>3. CASE Submit \/ Claim \/ RunMessage \/ Crash
    BY <1>3, SubmitKeeps, ClaimKeeps, RunMessageKeeps, CrashKeeps, OtherKeepsInv
  <1>4. CASE \E r \in Inline : StartInline(r)
    BY <1>4, StartInlineKeeps, OtherKeepsInv
  <1>5. CASE People
    BY <1>5, HumanKeeps, CorrectorKeeps, OtherKeepsInv DEF People
  <1>6. CASE Boot \/ Sweep
    BY <1>6, ServerKeeps, OtherKeepsInv
  <1>7. CASE UNCHANGED vars
    BY <1>7 DEF vars, ledger, queue, boot, people, OrchInv, RestTyped
  <1> QED
    BY <1>1, <1>2, <1>3, <1>4, <1>5, <1>6, <1>7 DEF Next, RunStep

LEMMA OrchAlways == Spec => []OrchInv
  BY OrchInitially, OrchSteps, PTL DEF Spec

\* Every variable keeps its type, however many processes run the task and
\* however many people rule on it or correct it.
THEOREM OrchestratorTypeCorrect == Spec => []TypeOK
  BY OrchAlways, OrchInvTypeOK, PTL

\* No run skips a step of the plan or overtakes one, and nothing is committed
\* before the whole plan is done: for any number of processes that run the task
\* at once, whatever projection each of them holds, and wherever they die.
THEOREM PlanIsAlwaysFollowed == Spec => []PlanIsFollowed
  BY OrchAlways, OrchInvFollows, PTL

-----------------------------------------------------------------------------
(* One runner and one human: the invariant of the second part              *)

\* The task is run by the daemon alone, at most one human rules on it, and no
\* ruling lands between a question and the read that follows it.
Alone == Inline = {} /\ (\A g, h \in Humans : g = h) /\ ~InstantRulings

Asked(l, q) == \E i \in DOMAIN l : l[i].type = "AWAITING_HUMAN_ATTESTATION" /\ l[i].disc = q
Cleared(l, q) == \E i \in DOMAIN l : l[i].type = "HUMAN_GATE_CLEARED" /\ l[i].disc = q
Waiting(l) == \E q \in Discs : Asked(l, q) /\ ~Cleared(l, q)
Ended(l) == \E type \in TERMINAL_EVENTS : Has(l, type)
Parked(l) == Waiting(l) /\ ~Has(l, "HUMAN_GATE_REJECTED")
Live(l) == ~Ended(l) /\ ~Waiting(l)

ContextQuestion == <<"CONTEXT", 1>>
PolicyQuestion == <<"POLICY", 1>>
OwnQuestions == {ContextQuestion, PolicyQuestion}

\* The planner has what it needs, or a human's word for it.
Hydrated(l, t) == t.packet \/ Asked(l, ContextQuestion)

StepTypes == {"EXECUTION_STARTED", "EXECUTION_COMPLETED", "VALIDATION_FAILED"}

\* A position of the log of a task that one run at a time works on.
InTurn(l, j) ==
    /\ l[j].type = "MUTATION_COMMITTED" =>
         /\ \E i \in DOMAIN l : i < j /\ l[i].type = "POLICY_CLEARED"
         /\ \A i \in DOMAIN l : i < j /\ l[i].type = "AWAITING_HUMAN_ATTESTATION" =>
              \E k \in DOMAIN l : k < j /\ l[k].type = "HUMAN_GATE_CLEARED" /\ l[k].disc = l[i].disc
    /\ l[j].type \in StepTypes =>
         ~ \E i \in DOMAIN l :
             i < j /\ l[i].type = "EXECUTION_COMPLETED" /\ l[i].disc = l[j].disc

\* The projection and the head say of the task what its log says.
Settled(l, t) ==
    /\ t.phase = "AWAITING_HUMAN" <=> Parked(l)
    /\ IsTerminal(t) <=> Ended(l)
    /\ \A q \in Discs : Asked(l, q) => q \in OwnQuestions
    /\ \A q \in Discs : Cleared(l, q) => Asked(l, q)
    /\ Asked(l, ContextQuestion) /\ Asked(l, PolicyQuestion) => Cleared(l, ContextQuestion)
    /\ Has(l, "AWAITING_HUMAN_ATTESTATION") => Hydrated(l, t)
    /\ Has(l, "CONTEXT_HYDRATED") => t.packet
    /\ t.policy # "none" => Has(l, "POLICY_CLEARED") \/ Ended(l)
    /\ \A i \in Nat : Done(l, i) => i \in t.completed /\ Has(l, "PLAN_COMPILED")

TurnInv(l, t, c) == (\A j \in DOMAIN l : InTurn(l, j)) /\ Settled(l, t) /\ (c => Ended(l))

\* What the run reads is what it last read: nobody else works on the task.
Current(st, t) ==
    st.packet = t.packet /\ st.plan = t.plan /\ st.completed = t.completed /\ st.policy = t.policy

Executing == {"execute", "attempt", "work", "complete", "reject", "commit"}
Working ==
    {"build", "ask", "open", "plan", "policy", "clear", "consult", "fail"} \cup Executing

\* About to re-read the projection after a stage.
AtProject(l, t, stage) ==
    /\ stage = "hydrate" => Parked(l) \/ (Live(l) /\ Hydrated(l, t))
    /\ stage = "plan" => Live(l) /\ Hydrated(l, t)
    /\ stage = "policy" => Parked(l) \/ t.phase = "BLOCKED" \/ (Live(l) /\ Has(l, "POLICY_CLEARED"))
    /\ stage = "step" => Live(l) /\ Has(l, "POLICY_CLEARED")

WorkInv(l, t, s) ==
    /\ s.pc \in Working => Live(l) /\ Current(s.st, t)
    /\ s.pc = "hydrate" =>
         /\ Current(s.st, t)
         /\ Live(l) \/ (s.st.phase = "AWAITING_HUMAN" /\ Has(l, "AWAITING_HUMAN_ATTESTATION"))
    /\ s.pc = "build" \/ (s.pc \in {"ask", "open"} /\ s.stage = "hydrate") =>
         ~Has(l, "AWAITING_HUMAN_ATTESTATION")
    /\ s.pc \in {"plan", "policy", "consult"} \/ (s.pc \in {"ask", "open"} /\ s.stage = "policy") =>
         Hydrated(l, t)
    /\ s.pc = "consult" \/ (s.pc \in {"ask", "open"} /\ s.stage = "policy") =>
         ~Asked(l, PolicyQuestion)
    /\ s.pc = "open" => s.gate = <<AskingRole(s.stage), 1>>
    /\ s.pc \in Executing => Has(l, "POLICY_CLEARED")
    /\ s.pc \in {"attempt", "work", "complete", "reject"} => s.idx \notin t.completed
    /\ s.pc = "project" => AtProject(l, t, s.stage)

\* The sweep works on a task that nobody runs; its verdict stays true.
SweepInv ==
    /\ run[Daemon].pc # "idle" \/ batch > 0 \/ sub.pc \in {"requested", "enqueue"} => server = "serving"
    /\ server = "mark" => IsTerminal(task)
    /\ server = "abandon" => ~IsTerminal(task) /\ task.phase # "AWAITING_HUMAN"
    /\ server \notin {"down", "scan", "serving"} => log # <<>>
    /\ sub.pc = "new" => log = <<>>
    /\ \A c \in Correctors : corr[c].pc = "read" => log # <<>>
    /\ sub.pc \in {"new", "requested"} =>
         queued = 0 /\ batch = 0 /\ run[Daemon].pc = "idle" /\ Live(log)

\* A human who has read the task rules on the one question it is parked on.
RulingInv ==
    \A h \in Humans :
        /\ human[h].pc # "idle" => Parked(log)
        /\ human[h].pc = "found" => Asked(log, human[h].gate) /\ ~Cleared(log, human[h].gate)

TaskInv ==
    /\ OrchInv
    /\ TurnInv(log, task, closed)
    /\ WorkInv(log, task, run[Daemon])
    /\ SweepInv
    /\ RulingInv

LEMMA TaskInvProperties ==
    TaskInv => CommitIsEarned /\ ParkedOnOneQuestion /\ UnfinishedNeverHidden /\ CompletedStepsStayDone
  <1> SUFFICES ASSUME TaskInv
               PROVE  CommitIsEarned /\ ParkedOnOneQuestion /\ UnfinishedNeverHidden /\ CompletedStepsStayDone
    OBVIOUS
  <1>1. /\ OrchInv /\ (\A j \in DOMAIN log : InTurn(log, j))
        /\ Settled(log, task) /\ (closed => Ended(log))
    BY DEF TaskInv, TurnInv
  <1>2. log \in Seq(EventRecord) /\ DOMAIN log = 1 .. Len(log) /\ Len(log) \in Nat
    BY <1>1 DEF OrchInv, LedgerInv
  <1>3. \A q \in Questions : Asked(log, q) /\ q \in Discs
    <2>1. ASSUME NEW i \in DOMAIN log PROVE log[i].disc \in Discs
      <3>1. log[i] \in EventRecord
        BY <1>2
      <3> QED
        BY <3>1 DEF EventRecord
    <2> QED
      BY <2>1 DEF Questions, Asked
  <1>4. \A q : Answered(q) <=> Cleared(log, q)
    BY DEF Answered, Cleared
  <1>5. CommitIsAuthorised
    <2>1. SUFFICES ASSUME NEW j \in DOMAIN log, log[j].type = "MUTATION_COMMITTED"
                   PROVE  /\ \E i \in Indices("POLICY_CLEARED") : i < j
                          /\ \A q \in Questions : AskedAt(q) < j =>
                                \E i \in Indices("HUMAN_GATE_CLEARED") : i < j /\ log[i].disc = q
      BY DEF CommitIsAuthorised, Indices
    <2>2. \E i \in Indices("POLICY_CLEARED") : i < j
      BY <1>1, <2>1 DEF InTurn, Indices
    <2>3. ASSUME NEW q \in Questions, AskedAt(q) < j
          PROVE  \E i \in Indices("HUMAN_GATE_CLEARED") : i < j /\ log[i].disc = q
      <3>1. /\ AskedAt(q) \in DOMAIN log /\ log[AskedAt(q)].disc = q
            /\ log[AskedAt(q)].type = "AWAITING_HUMAN_ATTESTATION"
        BY AskedAtIsThere
      <3> QED
        BY <1>1, <2>1, <2>3, <3>1 DEF InTurn, Indices
    <2> QED
      BY <2>2, <2>3
  <1>6. CommitIsEarned
    BY <1>1, <1>5, OrchInvTypeOK, OrchInvFollows DEF CommitIsEarned, PlanIsFollowed
  <1>7. Cardinality(OpenQuestions) <= 1
    <2>1. OpenQuestions = {} \/ \E q : OpenQuestions = {q}
      <3>1. \A q \in OpenQuestions : q \in OwnQuestions /\ ~Cleared(log, q) /\ Asked(log, q)
        BY <1>1, <1>3, <1>4 DEF OpenQuestions, Settled
      <3>2. ~(ContextQuestion \in OpenQuestions /\ PolicyQuestion \in OpenQuestions)
        BY <1>1, <3>1 DEF Settled
      <3> QED
        BY <3>1, <3>2 DEF OwnQuestions
    <2>2. ASSUME NEW q, OpenQuestions = {q} PROVE Cardinality(OpenQuestions) <= 1
      <3>1. Cardinality({q}) = 1
        BY FS_Singleton
      <3> QED
        BY <2>2, <3>1
    <2>3. Cardinality({}) = 0
      BY FS_EmptySet
    <2> QED
      BY <2>1, <2>2, <2>3
  <1>8. OpenQuestions # {} <=> Waiting(log)
    <2>1. ASSUME NEW q \in Discs, Asked(log, q) PROVE q \in Questions
      BY <2>1 DEF Asked, Questions
    <2> QED
      BY <1>3, <1>4, <2>1 DEF OpenQuestions, Waiting
  <1>9. Indices("HUMAN_GATE_REJECTED") = {} <=> ~Has(log, "HUMAN_GATE_REJECTED")
    BY DEF Indices, Has
  <1>10. ParkedOnOneQuestion
    BY <1>1, <1>7, <1>8, <1>9 DEF ParkedOnOneQuestion, Settled, Parked
  <1>11. UnfinishedNeverHidden
    BY <1>1 DEF UnfinishedNeverHidden, Settled
  <1>12. CompletedStepsStayDone
    BY <1>1 DEF CompletedStepsStayDone, Indices, InTurn, StepTypes
  <1> QED
    BY <1>6, <1>10, <1>11, <1>12

-----------------------------------------------------------------------------
(* What an event changes of what the log says                              *)

LEMMA AppendSays ==
    ASSUME NEW l \in Seq(EventRecord), NEW e \in EventRecord, NEW m, m = Append(l, e)
    PROVE  /\ \A type : Has(m, type) <=> Has(l, type) \/ e.type = type
           /\ \A q : Asked(m, q) <=> Asked(l, q) \/ (e.type = "AWAITING_HUMAN_ATTESTATION" /\ e.disc = q)
           /\ \A q : Cleared(m, q) <=> Cleared(l, q) \/ (e.type = "HUMAN_GATE_CLEARED" /\ e.disc = q)
           /\ \A i : Done(m, i) <=> Done(l, i) \/ (e.type = "EXECUTION_COMPLETED" /\ e.num = i)
  <1> DEFINE n == Len(l) + 1
  <1>1. /\ DOMAIN m = DOMAIN l \cup {n} /\ (\A i \in DOMAIN l : m[i] = l[i]) /\ m[n] = e
    BY NewestIsLast
  <1> HIDE DEF n
  <1>2. \A type : Has(m, type) <=> Has(l, type) \/ e.type = type
    BY <1>1 DEF Has
  <1>3. \A q : Asked(m, q) <=> Asked(l, q) \/ (e.type = "AWAITING_HUMAN_ATTESTATION" /\ e.disc = q)
    BY <1>1 DEF Asked
  <1>4. \A q : Cleared(m, q) <=> Cleared(l, q) \/ (e.type = "HUMAN_GATE_CLEARED" /\ e.disc = q)
    BY <1>1 DEF Cleared
  <1>5. \A i : Done(m, i) <=> Done(l, i) \/ (e.type = "EXECUTION_COMPLETED" /\ e.num = i)
    BY <1>1 DEF Done
  <1> QED
    BY <1>2, <1>3, <1>4, <1>5

LEMMA RecordedSays ==
    ASSUME NEW l, NEW e, IsRecorded(l, e)
    PROVE  /\ Has(l, e.type)
           /\ e.type = "AWAITING_HUMAN_ATTESTATION" => Asked(l, e.disc)
           /\ e.type = "HUMAN_GATE_CLEARED" => Cleared(l, e.disc)
  <1>1. PICK i \in DOMAIN l : EventKey(l[i]) = EventKey(e)
    BY DEF IsRecorded
  <1>2. l[i].type = e.type /\ l[i].disc = e.disc
    BY <1>1 DEF EventKey
  <1> QED
    BY <1>2 DEF Has, Asked, Cleared

\* What the log says after an append, whether the event was new or not.
LEMMA EmitSays ==
    ASSUME LedgerInv(log, task, closed), NEW e, Proper(log, e), Emit(e)
    PROVE  /\ \A type : Has(log', type) <=> Has(log, type) \/ e.type = type
           /\ \A q : Asked(log', q) <=> Asked(log, q) \/ (e.type = "AWAITING_HUMAN_ATTESTATION" /\ e.disc = q)
           /\ \A q : Cleared(log', q) <=> Cleared(log, q) \/ (e.type = "HUMAN_GATE_CLEARED" /\ e.disc = q)
           /\ Ended(log') <=> Ended(log) \/ e.type \in TERMINAL_EVENTS
           /\ e.type \notin {"AWAITING_HUMAN_ATTESTATION", "HUMAN_GATE_CLEARED"} =>
                (Waiting(log') <=> Waiting(log))
           /\ e.type \notin TERMINAL_EVENTS \cup {"AWAITING_HUMAN_ATTESTATION"} /\ Live(log) => Live(log')
  <1>1. /\ \A type : Has(log', type) <=> Has(log, type) \/ e.type = type
        /\ \A q : Asked(log', q) <=> Asked(log, q) \/ (e.type = "AWAITING_HUMAN_ATTESTATION" /\ e.disc = q)
        /\ \A q : Cleared(log', q) <=> Cleared(log, q) \/ (e.type = "HUMAN_GATE_CLEARED" /\ e.disc = q)
    <2>1. CASE IsRecorded(log, e) /\ log' = log
      BY <2>1, RecordedSays
    <2>2. CASE log' = Append(log, e)
      BY <2>2, AppendSays DEF LedgerInv, Proper
    <2> QED
      BY <2>1, <2>2, EmitCases
  <1>2. Ended(log') <=> Ended(log) \/ e.type \in TERMINAL_EVENTS
    BY <1>1 DEF Ended
  <1>3. e.type \notin {"AWAITING_HUMAN_ATTESTATION", "HUMAN_GATE_CLEARED"} =>
           (Waiting(log') <=> Waiting(log))
    BY <1>1 DEF Waiting
  <1>4. e.type # "AWAITING_HUMAN_ATTESTATION" /\ ~Waiting(log) => ~Waiting(log')
    BY <1>1 DEF Waiting
  <1> QED
    BY <1>1, <1>2, <1>3, <1>4 DEF Live
-----------------------------------------------------------------------------
(* A turn: one event by whoever may append it now                          *)

\* The events that may come while the task is parked or over.
Quiet ==
    {"HUMAN_GATE_CLEARED", "HUMAN_GATE_REJECTED", "USER_CORRECTION", "RECOVERY_REPLAY_COMPLETED",
     "TASK_ABANDONED"}

\* When it is e's turn: what each process has made sure of before it appends.
May(l, t, e) ==
    /\ e.type \notin Quiet => Live(l)
    /\ e.type = "AWAITING_HUMAN_ATTESTATION" =>
         /\ e.disc \in OwnQuestions /\ ~Asked(l, e.disc)
         /\ e.disc = ContextQuestion => ~Asked(l, PolicyQuestion)
         /\ e.disc = PolicyQuestion => Hydrated(l, t)
    /\ e.type = "PLAN_COMPILED" => t.plan = 0
    /\ e.type \in StepTypes =>
         e.disc = StepDisc(e.num) /\ e.num \notin t.completed /\ t.plan > 0
    /\ e.type = "MUTATION_COMMITTED" => Has(l, "POLICY_CLEARED")
    /\ e.type \in {"HUMAN_GATE_CLEARED", "HUMAN_GATE_REJECTED"} =>
         Parked(l) /\ Asked(l, e.disc) /\ ~Cleared(l, e.disc)
    /\ e.type = "HUMAN_GATE_CLEARED" => e.data \in {"PLANNING", "EXECUTING"}
    /\ e.type = "TASK_ABANDONED" => ~IsTerminal(t) /\ t.phase # "AWAITING_HUMAN"

\* The four kinds of events by what they do to the phase.
LEMMA PhaseKinds ==
    ASSUME NEW t \in Projection, NEW e \in EventRecord, WellFormed(e),
           e.type = "HUMAN_GATE_CLEARED" => e.data \in {"PLANNING", "EXECUTING"}
    PROVE  LET p == apply_event(t, e).phase
           IN  /\ e.type = "AWAITING_HUMAN_ATTESTATION" => p = "AWAITING_HUMAN"
               /\ e.type \in TERMINAL_EVENTS => p \in TERMINAL_PHASES
               /\ e.type \in {"USER_CORRECTION", "RECOVERY_REPLAY_COMPLETED"} => p = t.phase
               /\ e.type \notin TERMINAL_EVENTS \cup
                    {"AWAITING_HUMAN_ATTESTATION", "USER_CORRECTION", "RECOVERY_REPLAY_COMPLETED"} =>
                       p \notin TERMINAL_PHASES \cup {"AWAITING_HUMAN"}
               /\ e.type \in {"POLICY_BLOCKED", "SECURITY_VIOLATION"} => p = "BLOCKED"
  <1> DEFINE p == apply_event(t, e).phase
  <1>1. p = PhaseAfter(t, e)
    BY FoldFields
  <1>2. e.type \in EVENT_TYPES /\ e.type # "STATE_ROLLBACK_TRIGGERED"
    BY DEF EventRecord, WellFormed
  <1> HIDE DEF p
  <1>3. /\ {"EXECUTION_COMPLETED", "AWAITING_HUMAN_ATTESTATION", "POLICY_BLOCKED",
            "SECURITY_VIOLATION"} \subseteq DOMAIN PHASE_MAP
        /\ "EXECUTION_COMPLETED" \notin TERMINAL_EVENTS
        /\ {"EXECUTING", "PLANNING"} \cap (TERMINAL_PHASES \cup {"AWAITING_HUMAN"}) = {}
    BY DEF PHASE_MAP, TERMINAL_EVENTS, TERMINAL_PHASES
  <1>4. e.type \in DOMAIN PHASE_MAP \/ e.type \in {"HUMAN_GATE_CLEARED", "USER_CORRECTION",
                                                   "RECOVERY_REPLAY_COMPLETED"}
    BY <1>2 DEF EVENT_TYPES
  <1>5. CASE e.type = "HUMAN_GATE_CLEARED"
    BY <1>1, <1>2, <1>3, <1>5, PhaseFollows, PhasesOfEvents DEF p
  <1>6. CASE e.type \in {"USER_CORRECTION", "RECOVERY_REPLAY_COMPLETED"}
    BY <1>1, <1>2, <1>6, PhaseFollows, PhasesOfEvents DEF p
  <1>7. CASE e.type = "EXECUTION_COMPLETED"
    BY <1>1, <1>2, <1>3, <1>7, PhaseFollows, PhasesOfEvents DEF p
  <1>8. CASE e.type \in DOMAIN PHASE_MAP \ {"EXECUTION_COMPLETED"}
    <2>1. p = PHASE_MAP[e.type]
      BY <1>1, <1>2, <1>8, PhaseFollows
    <2> QED
      BY <1>8, <2>1, PhasesOfEvents DEF p
  <1> QED
    BY <1>4, <1>5, <1>6, <1>7, <1>8

LEMMA TurnInOrder ==
    ASSUME NEW l \in Seq(EventRecord), NEW t, NEW c, NEW e \in EventRecord,
           \A j \in DOMAIN l : InOrder(l, j), TurnInv(l, t, c), May(l, t, e),
           NEW m, m = Append(l, e)
    PROVE  \A j \in DOMAIN m : InTurn(m, j)
  <1> DEFINE n == Len(l) + 1
  <1>1. /\ DOMAIN m = DOMAIN l \cup {n} /\ n \in Nat
        /\ \A i \in DOMAIN l : m[i] = l[i] /\ i < n /\ i \in Nat
        /\ m[n] = e
    BY NewestIsLast
  <1> HIDE DEF n
  <1>2. ASSUME NEW i \in DOMAIN m, NEW j \in DOMAIN l, i < j
        PROVE  i \in DOMAIN l
    BY <1>1, <1>2
  <1>3. ASSUME NEW j \in DOMAIN l PROVE InTurn(m, j)
    <2>1. InTurn(l, j) /\ m[j] = l[j]
      BY <1>1 DEF TurnInv
    <2> QED
      BY <1>1, <1>2, <2>1 DEF InTurn
  <1>4. ASSUME e.type = "MUTATION_COMMITTED"
        PROVE  /\ \E i \in DOMAIN m : i < n /\ m[i].type = "POLICY_CLEARED"
               /\ \A i \in DOMAIN m : i < n /\ m[i].type = "AWAITING_HUMAN_ATTESTATION" =>
                    \E k \in DOMAIN m : k < n /\ m[k].type = "HUMAN_GATE_CLEARED" /\ m[k].disc = m[i].disc
    <2>1. Has(l, "POLICY_CLEARED") /\ ~Waiting(l)
      BY <1>4 DEF May, Live, Quiet
    <2>2. \E i \in DOMAIN m : i < n /\ m[i].type = "POLICY_CLEARED"
      BY <1>1, <2>1 DEF Has
    <2>3. ASSUME NEW i \in DOMAIN m, i < n, m[i].type = "AWAITING_HUMAN_ATTESTATION"
          PROVE  \E k \in DOMAIN m : k < n /\ m[k].type = "HUMAN_GATE_CLEARED" /\ m[k].disc = m[i].disc
      <3>1. i \in DOMAIN l /\ m[i] = l[i]
        BY <1>1, <2>3
      <3>2. Asked(l, l[i].disc)
        BY <2>3, <3>1 DEF Asked
      <3>3. l[i].disc \in Discs
        <4>1. l[i] \in EventRecord
          BY <3>1
        <4> QED
          BY <4>1 DEF EventRecord
      <3>4. Cleared(l, l[i].disc)
        BY <2>1, <3>2, <3>3 DEF Waiting
      <3> QED
        BY <1>1, <3>1, <3>4 DEF Cleared
    <2> QED
      BY <2>2, <2>3
  <1>5. ASSUME e.type \in StepTypes,
               NEW i \in DOMAIN m, i < n, m[i].type = "EXECUTION_COMPLETED", m[i].disc = e.disc
        PROVE  FALSE
    <2>1. i \in DOMAIN l /\ m[i] = l[i]
      BY <1>1, <1>5
    <2>2. l[i].disc = StepDisc(l[i].num) /\ l[i] \in EventRecord
      BY <1>5, <2>1 DEF InOrder
    <2>3. e.disc = StepDisc(e.num) /\ e.num \notin t.completed
      BY <1>5 DEF May
    <2>4. l[i].num = e.num /\ e.num \in Nat
      BY <1>5, <2>1, <2>2, <2>3 DEF StepDisc, EventRecord
    <2>5. Done(l, e.num)
      BY <1>5, <2>1, <2>4 DEF Done
    <2> QED
      BY <2>3, <2>4, <2>5 DEF TurnInv, Settled
  <1>6. InTurn(m, n)
    BY <1>1, <1>4, <1>5 DEF InTurn
  <1> QED
    BY <1>1, <1>3, <1>6

\* While the task is parked, exactly one question waits.
LEMMA OneWaits ==
    ASSUME NEW l, NEW t, Settled(l, t),
           NEW p, NEW q, Asked(l, p), Asked(l, q), p \in Discs, q \in Discs,
           ~Cleared(l, p), ~Cleared(l, q)
    PROVE  p = q
  BY DEF Settled, OwnQuestions

LEMMA TurnSettles ==
    ASSUME NEW l \in Seq(EventRecord), NEW t \in Projection, NEW e, Shows(l, t),
           Settled(l, t), Proper(l, e), May(l, t, e),
           NEW m, m = Append(l, e), NEW u, u = apply_event(t, e)
    PROVE  /\ Settled(m, u) /\ (e.type \in TERMINAL_EVENTS => Ended(m))
           /\ t.phase = "AWAITING_HUMAN" /\ u.phase # "AWAITING_HUMAN" =>
                e.type \in {"HUMAN_GATE_CLEARED", "HUMAN_GATE_REJECTED"}
           /\ IsTerminal(t) => u.phase = t.phase
  <1>1. e \in EventRecord /\ WellFormed(e) /\ e.disc \in Discs
    BY DEF Proper, EventRecord
  <1>2. /\ \A type : Has(m, type) <=> Has(l, type) \/ e.type = type
        /\ \A q : Asked(m, q) <=> Asked(l, q) \/ (e.type = "AWAITING_HUMAN_ATTESTATION" /\ e.disc = q)
        /\ \A q : Cleared(m, q) <=> Cleared(l, q) \/ (e.type = "HUMAN_GATE_CLEARED" /\ e.disc = q)
        /\ \A i : Done(m, i) <=> Done(l, i) \/ (e.type = "EXECUTION_COMPLETED" /\ e.num = i)
    BY <1>1, AppendSays
  <1>3. /\ e.type = "AWAITING_HUMAN_ATTESTATION" => u.phase = "AWAITING_HUMAN"
        /\ e.type \in TERMINAL_EVENTS => u.phase \in TERMINAL_PHASES
        /\ e.type \in {"USER_CORRECTION", "RECOVERY_REPLAY_COMPLETED"} => u.phase = t.phase
        /\ e.type \notin TERMINAL_EVENTS \cup
             {"AWAITING_HUMAN_ATTESTATION", "USER_CORRECTION", "RECOVERY_REPLAY_COMPLETED"} =>
                u.phase \notin TERMINAL_PHASES \cup {"AWAITING_HUMAN"}
    BY <1>1, PhaseKinds DEF May
  <1>4. /\ u.packet <=> (t.packet \/ e.type = "CONTEXT_HYDRATED")
        /\ u.completed = CompletedAfter(t, e)
        /\ u.policy = IF e.type \in {"POLICY_CLEARED", "POLICY_BLOCKED", "SECURITY_VIOLATION"}
                        THEN e.data ELSE t.policy
    BY FoldFields
  <1>5. "AWAITING_HUMAN" \notin TERMINAL_PHASES
        /\ "HUMAN_GATE_CLEARED" \notin TERMINAL_EVENTS /\ "AWAITING_HUMAN_ATTESTATION" \notin TERMINAL_EVENTS
        /\ "USER_CORRECTION" \notin TERMINAL_EVENTS /\ "RECOVERY_REPLAY_COMPLETED" \notin TERMINAL_EVENTS
        /\ {"HUMAN_GATE_REJECTED", "TASK_ABANDONED", "POLICY_BLOCKED", "SECURITY_VIOLATION"}
             \subseteq TERMINAL_EVENTS
    BY DEF TERMINAL_PHASES, TERMINAL_EVENTS
  <1>6. /\ Ended(m) <=> Ended(l) \/ e.type \in TERMINAL_EVENTS
        /\ Has(l, "HUMAN_GATE_REJECTED") => Ended(l)
    BY <1>2, <1>5 DEF Ended
  <1>7. /\ t.phase = "AWAITING_HUMAN" <=> Parked(l)
        /\ t.phase \in TERMINAL_PHASES <=> Ended(l)
    BY DEF Settled, IsTerminal
  <1> DEFINE Moves ==
        /\ u.phase = "AWAITING_HUMAN" <=> Parked(m)
        /\ u.phase \in TERMINAL_PHASES <=> Ended(m)
        /\ t.phase = "AWAITING_HUMAN" /\ u.phase # "AWAITING_HUMAN" =>
             e.type \in {"HUMAN_GATE_CLEARED", "HUMAN_GATE_REJECTED"}
        /\ t.phase \in TERMINAL_PHASES => u.phase = t.phase
  <1>8. ASSUME e.type = "AWAITING_HUMAN_ATTESTATION" PROVE Moves
    <2>1. Live(l) /\ ~Asked(l, e.disc)
      BY <1>8 DEF May, Quiet
    <2>2. Asked(m, e.disc) /\ ~Cleared(m, e.disc)
      BY <1>1, <1>2, <1>8, <2>1 DEF Settled
    <2>3. Parked(m)
      BY <1>1, <1>2, <1>6, <1>8, <2>1, <2>2 DEF Parked, Waiting, Live
    <2> QED
      BY <1>3, <1>5, <1>6, <1>7, <1>8, <2>1, <2>3 DEF Live
  <1>9. ASSUME e.type = "HUMAN_GATE_REJECTED" PROVE Moves
    BY <1>2, <1>3, <1>5, <1>6, <1>7, <1>9 DEF May, Parked
  <1>10. ASSUME e.type = "HUMAN_GATE_CLEARED" PROVE Moves
    <2>1. Parked(l) /\ Asked(l, e.disc) /\ ~Cleared(l, e.disc)
      BY <1>10 DEF May
    <2>2. ~Waiting(m)
      <3>1. SUFFICES ASSUME NEW q \in Discs, Asked(m, q), ~Cleared(m, q) PROVE FALSE
        BY DEF Waiting
      <3>2. Asked(l, q) /\ ~Cleared(l, q) /\ q # e.disc
        BY <1>2, <1>10, <3>1
      <3> QED
        BY <1>1, <2>1, <3>2, OneWaits
    <2> QED
      BY <1>3, <1>5, <1>6, <1>7, <1>10, <2>1, <2>2 DEF Parked
  <1>11. ASSUME e.type \in {"USER_CORRECTION", "RECOVERY_REPLAY_COMPLETED"} PROVE Moves
    <2>1. Parked(m) <=> Parked(l)
      BY <1>2, <1>11 DEF Parked, Waiting
    <2> QED
      BY <1>3, <1>5, <1>6, <1>7, <1>11, <2>1
  <1>12. ASSUME e.type = "TASK_ABANDONED" PROVE Moves
    <2>1. Parked(m) => Parked(l)
      BY <1>2, <1>12 DEF Parked, Waiting
    <2> QED
      BY <1>3, <1>5, <1>6, <1>7, <1>12, <2>1 DEF May, IsTerminal
  <1>13. ASSUME e.type \notin Quiet \cup {"AWAITING_HUMAN_ATTESTATION"} PROVE Moves
    <2>1. Live(l)
      BY <1>13 DEF May
    <2>2. ~Waiting(m) /\ ~Parked(l)
      BY <1>2, <1>13, <2>1 DEF Live, Waiting, Parked
    <2>3. u.phase # "AWAITING_HUMAN"
      BY <1>3, <1>5, <1>13 DEF Quiet
    <2>4. u.phase \in TERMINAL_PHASES <=> e.type \in TERMINAL_EVENTS
      BY <1>3, <1>13 DEF Quiet
    <2> QED
      BY <1>6, <1>7, <2>1, <2>2, <2>3, <2>4 DEF Live, Parked
  <1>14. Moves
    BY <1>8, <1>9, <1>10, <1>11, <1>12, <1>13 DEF Quiet
  <1> HIDE DEF Moves
  <1>15. \A q \in Discs : /\ Asked(m, q) => q \in OwnQuestions
                          /\ Cleared(m, q) => Asked(m, q)
    BY <1>2 DEF Settled, May
  <1>16. Asked(m, ContextQuestion) /\ Asked(m, PolicyQuestion) => Cleared(m, ContextQuestion)
    <2>1. ContextQuestion \in Discs
      BY DEF ContextQuestion, Discs
    <2>2. e.type = "AWAITING_HUMAN_ATTESTATION" => ~Waiting(l)
      BY DEF May, Quiet, Live
    <2>3. ContextQuestion # PolicyQuestion
      BY DEF ContextQuestion, PolicyQuestion
    <2> QED
      BY <1>2, <2>1, <2>2, <2>3 DEF Settled, May, Waiting
  <1>17. Has(m, "AWAITING_HUMAN_ATTESTATION") => Hydrated(m, u)
    BY <1>2, <1>4 DEF Settled, May, Hydrated, OwnQuestions
  <1>18. Has(m, "CONTEXT_HYDRATED") => u.packet
    BY <1>2, <1>4 DEF Settled
  <1>19. u.policy # "none" => Has(m, "POLICY_CLEARED") \/ Ended(m)
    BY <1>2, <1>4, <1>5, <1>6 DEF Settled
  <1>20. ASSUME NEW i \in Nat, Done(m, i) PROVE i \in u.completed /\ Has(m, "PLAN_COMPILED")
    <2>1. e.type = "PLAN_COMPILED" => ~Has(l, "PLAN_COMPILED")
      BY DEF May, Shows
    <2>2. e.type = "EXECUTION_COMPLETED" => Has(l, "PLAN_COMPILED")
      BY DEF May, StepTypes, Shows, Planned, Has
    <2>3. e.type # "STATE_ROLLBACK_TRIGGERED"
      BY <1>1 DEF WellFormed
    <2>4. CASE Done(l, i)
      BY <1>2, <1>4, <2>1, <2>3, <2>4 DEF Settled, CompletedAfter
    <2>5. CASE e.type = "EXECUTION_COMPLETED" /\ e.num = i
      BY <1>2, <1>4, <2>2, <2>5 DEF CompletedAfter
    <2> QED
      BY <1>2, <1>20, <2>4, <2>5
  <1>21. Settled(m, u)
    BY <1>6, <1>14, <1>15, <1>16, <1>17, <1>18, <1>19, <1>20 DEF Settled, IsTerminal, Moves
  <1> QED
    BY <1>6, <1>14, <1>21 DEF Moves, IsTerminal

\* What no step may do to the phase.
MovesRight ==
    /\ task.phase = "AWAITING_HUMAN" /\ task'.phase # "AWAITING_HUMAN" =>
         Last(log').type \in {"HUMAN_GATE_CLEARED", "HUMAN_GATE_REJECTED"}
    /\ IsTerminal(task) => task'.phase = task.phase

LEMMA TurnKeeps ==
    ASSUME LedgerInv(log, task, closed), TurnInv(log, task, closed), NEW e, Proper(log, e), Emit(e),
           ~IsRecorded(log, e) => May(log, task, e)
    PROVE  TurnInv(log', task', closed') /\ MovesRight
  <1>1. /\ log \in Seq(EventRecord) /\ task \in Projection /\ Shows(log, task) /\ e \in EventRecord
        /\ \A j \in DOMAIN log : InOrder(log, j)
    BY DEF LedgerInv, Proper
  <1>2. CASE IsRecorded(log, e) /\ log' = log /\ task' = task /\ closed' = closed
    BY <1>2 DEF MovesRight
  <1>3. CASE ~IsRecorded(log, e) /\ log' = Append(log, e) /\ task' = apply_event(task, e)
             /\ closed' = (e.type \in TERMINAL_EVENTS)
    <2>1. May(log, task, e) /\ Settled(log, task)
      BY <1>3 DEF TurnInv
    <2>2. \A j \in DOMAIN log' : InTurn(log', j)
      BY <1>1, <1>3, <2>1, TurnInOrder
    <2>3. /\ Settled(log', task') /\ (e.type \in TERMINAL_EVENTS => Ended(log'))
          /\ task.phase = "AWAITING_HUMAN" /\ task'.phase # "AWAITING_HUMAN" =>
               e.type \in {"HUMAN_GATE_CLEARED", "HUMAN_GATE_REJECTED"}
          /\ IsTerminal(task) => task'.phase = task.phase
      BY <1>1, <1>3, <2>1, TurnSettles
    <2>4. Last(log') = e
      BY <1>1, <1>3, NewestIsLast
    <2> QED
      BY <1>3, <2>2, <2>3, <2>4 DEF TurnInv, MovesRight
  <1> QED
    BY <1>2, <1>3, EmitCases
-----------------------------------------------------------------------------
(* The turns of the run                                                    *)

LEMMA TaskFacts ==
    ASSUME TaskInv, Alone
    PROVE  /\ OrchInv /\ LedgerInv(log, task, closed) /\ TurnInv(log, task, closed)
           /\ Settled(log, task) /\ (closed => Ended(log))
           /\ WorkInv(log, task, run[Daemon]) /\ RunInv(log, run[Daemon])
           /\ Daemon \in Runners /\ run \in [Runners -> RunStates] /\ run[Daemon] \in RunStates
           /\ \A r \in Runners : r = Daemon
           /\ log \in Seq(EventRecord) /\ task \in Projection
  BY RunnerTyped DEF TaskInv, TurnInv, OrchInv, LedgerInv, Runners, Alone

\* The events after which the projection shows something new to a run.
Telling ==
    {"CONTEXT_HYDRATED", "PLAN_COMPILED", "EXECUTION_COMPLETED", "POLICY_CLEARED",
     "POLICY_BLOCKED", "SECURITY_VIOLATION"}

\* What an event leaves of what the projection shows.
LEMMA EmitLeaves ==
    ASSUME LedgerInv(log, task, closed), NEW e, Proper(log, e), Emit(e)
    PROVE  /\ e.type \notin Telling =>
                /\ task'.packet = task.packet /\ task'.plan = task.plan
                /\ task'.completed = task.completed /\ task'.policy = task.policy
           /\ task.packet => task'.packet
           /\ e.type = "CONTEXT_HYDRATED" /\ ~IsRecorded(log, e) => task'.packet
           /\ e.type \in {"POLICY_BLOCKED", "SECURITY_VIOLATION"} /\ ~IsRecorded(log, e) =>
                task'.phase = "BLOCKED"
           /\ e.type \in {"USER_CORRECTION", "RECOVERY_REPLAY_COMPLETED"} => task'.phase = task.phase
  <1>1. /\ log \in Seq(EventRecord) /\ task \in Projection /\ e \in EventRecord /\ WellFormed(e)
        /\ e.type # "STATE_ROLLBACK_TRIGGERED"
    BY DEF LedgerInv, Proper, WellFormed
  <1>2. task' \in Projection
    BY EmitKeeps DEF LedgerInv
  <1>3. task.packet \in BOOLEAN /\ task'.packet \in BOOLEAN
    BY <1>1, <1>2 DEF Projection
  <1>4. CASE IsRecorded(log, e) /\ log' = log /\ task' = task
    BY <1>4
  <1>5. CASE task' = apply_event(task, e)
    <2> DEFINE u == apply_event(task, e)
    <2>1. /\ u.packet <=> (task.packet \/ e.type = "CONTEXT_HYDRATED")
          /\ u.plan = IF e.type = "PLAN_COMPILED" THEN e.num ELSE task.plan
          /\ u.completed = CompletedAfter(task, e)
          /\ u.policy = IF e.type \in {"POLICY_CLEARED", "POLICY_BLOCKED", "SECURITY_VIOLATION"}
                          THEN e.data ELSE task.policy
          /\ u.phase = PhaseAfter(task, e)
      BY <1>1, FoldFields
    <2>2. e.type \notin Telling => CompletedAfter(task, e) = task.completed
      BY <1>1 DEF CompletedAfter, Telling
    <2>3. e.type \in {"POLICY_BLOCKED", "SECURITY_VIOLATION"} => u.phase = "BLOCKED"
      <3>1. {"POLICY_BLOCKED", "SECURITY_VIOLATION"} \subseteq EVENT_TYPES \cap DOMAIN PHASE_MAP
        BY DEF EVENT_TYPES, PHASE_MAP
      <3> QED
        BY <1>1, <2>1, <3>1, PhaseFollows, PhasesOfEvents
    <2>4. e.type \in {"USER_CORRECTION", "RECOVERY_REPLAY_COMPLETED"} => u.phase = task.phase
      <3>1. e.type \in EVENT_TYPES
        BY <1>1 DEF EventRecord
      <3> QED
        BY <1>1, <2>1, <3>1, PhaseFollows
    <2>5. task' = u
      BY <1>5
    <2> HIDE DEF u
    <2> QED
      BY <1>3, <2>1, <2>2, <2>3, <2>4, <2>5 DEF Telling
  <1> QED
    BY <1>4, <1>5, EmitCases

\* What a step of the run leaves behind.
RunTurns ==
    /\ TurnInv(log', task', closed') /\ MovesRight
    /\ WorkInv(log', task', run'[Daemon])
    /\ Live(log) \/ UNCHANGED ledger

LEMMA StillTurns ==
    ASSUME TaskInv, UNCHANGED ledger, WorkInv(log, task, run'[Daemon])
    PROVE  RunTurns
  <1>1. log' = log /\ task' = task /\ closed' = closed
    BY DEF ledger
  <1> QED
    BY <1>1 DEF TaskInv, RunTurns, MovesRight

LEMMA ProjectTurns ==
    ASSUME TaskInv, Alone, NEW e, NEW stage \in Stages, EmitAndProject(Daemon, e, stage),
           Proper(log, e), ~IsRecorded(log, e) => May(log, task, e), Live(log),
           AtProject(log', task', stage)
    PROVE  RunTurns
  <1>1. Emit(e) /\ GotoIn(Daemon, "project", stage) /\ "project" \in RunPCs
    BY DEF EmitAndProject, GotoIn, RunPCs
  <1>2. run'[Daemon].pc = "project" /\ run'[Daemon].stage = stage
    BY <1>1, TaskFacts, GoesToStage
  <1>3. WorkInv(log', task', run'[Daemon])
    BY <1>2 DEF WorkInv, Working, Executing
  <1>4. TurnInv(log', task', closed') /\ MovesRight
    BY <1>1, TaskFacts, TurnKeeps
  <1> QED
    BY <1>3, <1>4 DEF RunTurns

\* A step that records what the run does and goes on with what it knows.
LEMMA WorkTurns ==
    ASSUME TaskInv, Alone, NEW e, NEW pc \in Executing \cup {"build", "fail"}, Emit(e),
           run'[Daemon].pc = pc, run'[Daemon].st = run[Daemon].st, run'[Daemon].idx = run[Daemon].idx,
           Proper(log, e), ~IsRecorded(log, e) => May(log, task, e),
           Live(log), Current(run[Daemon].st, task),
           e.type \notin Telling \cup TERMINAL_EVENTS \cup {"AWAITING_HUMAN_ATTESTATION"},
           pc = "build" => ~Has(log, "AWAITING_HUMAN_ATTESTATION"),
           pc \in Executing => Has(log, "POLICY_CLEARED"),
           pc \in {"attempt", "work", "complete", "reject"} => run[Daemon].idx \notin task.completed
    PROVE  RunTurns
  <1>1. /\ \A type : Has(log', type) <=> Has(log, type) \/ e.type = type
        /\ Live(log')
    BY TaskFacts, EmitSays
  <1>2. Current(run'[Daemon].st, task') /\ task'.completed = task.completed
    BY TaskFacts, EmitLeaves DEF Current
  <1>3. WorkInv(log', task', run'[Daemon])
    BY <1>1, <1>2 DEF WorkInv, Working, Executing
  <1>4. TurnInv(log', task', closed') /\ MovesRight
    BY TaskFacts, TurnKeeps
  <1> QED
    BY <1>3, <1>4 DEF RunTurns

\* In turn, a role asks once: its question is the first.
LEMMA OnceAsked ==
    ASSUME log \in Seq(EventRecord), Settled(log, task), NEW role \in Turns
    PROVE  /\ \A q \in StageQuestions(role) : q = <<role, 1>> /\ Asked(log, q) /\ q \in Discs
           /\ Asked(log, <<role, 1>>) => <<role, 1>> \in StageQuestions(role)
           /\ ~Asked(log, <<role, 1>>) => GateDiscriminator(role) = <<role, 1>>
  <1>1. ASSUME NEW q \in StageQuestions(role)
        PROVE  q = <<role, 1>> /\ Asked(log, q) /\ q \in Discs
    <2>1. q \in Questions /\ q[1] = role
      BY DEF StageQuestions
    <2>2. PICK i \in DOMAIN log : log[i].type = "AWAITING_HUMAN_ATTESTATION" /\ q = log[i].disc
      BY <2>1 DEF Questions
    <2>3. log[i] \in EventRecord
      OBVIOUS
    <2>4. q \in Discs /\ Asked(log, q)
      BY <2>2, <2>3 DEF EventRecord, Asked
    <2>5. q \in OwnQuestions
      BY <2>4 DEF Settled
    <2> QED
      BY <2>1, <2>4, <2>5 DEF OwnQuestions, ContextQuestion, PolicyQuestion
  <1>2. ASSUME Asked(log, <<role, 1>>) PROVE <<role, 1>> \in StageQuestions(role)
    <2>1. <<role, 1>> \in Questions
      BY <1>2 DEF Asked, Questions
    <2> QED
      BY <2>1 DEF StageQuestions
  <1>3. ASSUME ~Asked(log, <<role, 1>>) PROVE GateDiscriminator(role) = <<role, 1>>
    <2>1. {q \in StageQuestions(role) : Answered(q)} = {}
      BY <1>1, <1>3
    <2>2. Cardinality({q \in StageQuestions(role) : Answered(q)}) = 0
      BY <2>1, FS_EmptySet
    <2> QED
      BY <2>2 DEF GateDiscriminator
  <1> QED
    BY <1>1, <1>2, <1>3

LEMMA BeginTurns ==
    ASSUME TaskInv, Alone, Begin(Daemon)
    PROVE  RunTurns
  <1> DEFINE pc == IF IsTerminal(task) THEN "finish" ELSE "hydrate"
  <1>1. UNCHANGED ledger
        /\ run' = [run EXCEPT ![Daemon].pc = pc, ![Daemon].st = task,
                              ![Daemon].mode = task.mode, ![Daemon].base = task.attempts]
    BY DEF Begin
  <1>2. pc \in {"finish", "hydrate"} /\ (pc = "hydrate" => ~IsTerminal(task))
    OBVIOUS
  <1> HIDE DEF pc
  <1>3. run'[Daemon] = [run[Daemon] EXCEPT !.pc = pc, !.st = task, !.mode = task.mode,
                                           !.base = task.attempts]
    BY <1>1, TaskFacts
  <1>4. run'[Daemon].pc = pc /\ run'[Daemon].st = task
    BY <1>3, TaskFacts DEF RunStates
  <1>5. ASSUME pc = "hydrate"
        PROVE  Live(log) \/ (task.phase = "AWAITING_HUMAN" /\ Has(log, "AWAITING_HUMAN_ATTESTATION"))
    <2>1. ~Ended(log)
      BY <1>2, <1>5, TaskFacts DEF Settled
    <2>2. ~Has(log, "HUMAN_GATE_REJECTED")
      BY <2>1 DEF Ended, TERMINAL_EVENTS
    <2>3. Waiting(log) => Has(log, "AWAITING_HUMAN_ATTESTATION")
      BY DEF Waiting, Asked, Has
    <2>4. Waiting(log) => task.phase = "AWAITING_HUMAN"
      BY <2>2, TaskFacts DEF Parked, Settled
    <2> QED
      BY <2>1, <2>3, <2>4 DEF Live
  <1>6. WorkInv(log, task, run'[Daemon])
    BY <1>2, <1>4, <1>5 DEF WorkInv, Working, Executing, Current
  <1> QED
    BY <1>1, <1>6, StillTurns

LEMMA ReprojectTurns ==
    ASSUME TaskInv, Alone, Reproject(Daemon)
    PROVE  RunTurns
  <1> DEFINE pc == After(run[Daemon].stage, task)
             base == IF run[Daemon].stage = "step" THEN run[Daemon].base ELSE task.attempts
  <1>1. UNCHANGED ledger /\ run[Daemon].pc = "project"
        /\ run' = [run EXCEPT ![Daemon].pc = pc, ![Daemon].st = task, ![Daemon].base = base]
    BY DEF Reproject, At
  <1>2. /\ pc \in {"plan", "policy", "execute", "finish"}
        /\ pc = "policy" => run[Daemon].stage = "plan"
        /\ pc = "execute" => run[Daemon].stage \in {"policy", "step"}
        /\ pc = "plan" => run[Daemon].stage = "hydrate" /\ task.phase # "AWAITING_HUMAN"
        /\ run[Daemon].stage = "policy" /\ pc = "execute" => task.phase \notin {"BLOCKED", "AWAITING_HUMAN"}
    BY AfterIs
  <1> HIDE DEF pc, base
  <1>3. run'[Daemon] = [run[Daemon] EXCEPT !.pc = pc, !.st = task, !.base = base]
    BY <1>1, TaskFacts
  <1>4. run'[Daemon].pc = pc /\ run'[Daemon].st = task
    BY <1>3, TaskFacts DEF RunStates
  <1>5. AtProject(log, task, run[Daemon].stage)
    BY <1>1, TaskFacts DEF WorkInv
  <1>6. Parked(log) => task.phase = "AWAITING_HUMAN"
    BY TaskFacts DEF Settled
  <1>7. /\ pc # "finish" => Live(log)
        /\ pc \in {"plan", "policy"} => Hydrated(log, task)
        /\ pc = "execute" => Has(log, "POLICY_CLEARED")
    BY <1>2, <1>5, <1>6 DEF AtProject
  <1>8. WorkInv(log, task, run'[Daemon])
    BY <1>2, <1>4, <1>7 DEF WorkInv, Working, Executing, Current
  <1> QED
    BY <1>1, <1>8, StillTurns

LEMMA HydrateTurns ==
    ASSUME TaskInv, Alone, Hydrate(Daemon)
    PROVE  RunTurns
  <1> DEFINE s == run[Daemon]
  <1>1. /\ s.pc = "hydrate" /\ Current(s.st, task)
        /\ Live(log) \/ (s.st.phase = "AWAITING_HUMAN" /\ Has(log, "AWAITING_HUMAN_ATTESTATION"))
    BY TaskFacts DEF Hydrate, At, WorkInv
  <1>2. /\ StageQuestions("CONTEXT") # {} => Asked(log, ContextQuestion)
        /\ StageQuestions("CONTEXT") = {} => ~Asked(log, ContextQuestion)
    <2>1. "CONTEXT" \in Turns
      BY DEF Turns
    <2> QED
      BY <2>1, OnceAsked, TaskFacts DEF ContextQuestion
  <1>3. CASE s.st.packet \/ StageQuestions("CONTEXT") # {}
    <2>1. Skip(Daemon, "hydrate")
      BY <1>3, <1>2 DEF Hydrate
    <2>2. Hydrated(log, task)
      BY <1>1, <1>2, <1>3 DEF Hydrated, Current
    <2> DEFINE pc == After("hydrate", s.st)
    <2>3. /\ pc \in {"plan", "policy", "execute", "finish"} /\ pc \in RunPCs
          /\ pc \notin {"policy", "execute"} /\ (pc = "plan" => s.st.phase # "AWAITING_HUMAN")
      BY AfterIs
    <2>4. Goto(Daemon, pc) /\ UNCHANGED ledger
      BY <2>1 DEF Skip
    <2> HIDE DEF pc
    <2>5. run'[Daemon].pc = pc /\ run'[Daemon].st = s.st
      BY <2>3, <2>4, TaskFacts, GoesTo
    <2>6. WorkInv(log, task, run'[Daemon])
      BY <1>1, <2>2, <2>3, <2>5 DEF WorkInv, Working, Executing
    <2> QED
      BY <2>4, <2>6, StillTurns
  <1>4. CASE ~s.st.packet /\ StageQuestions("CONTEXT") = {}
    <2> DEFINE e == Event("CONTEXT_HYDRATION_REQUESTED", 0, NoDisc, 0, "", s.mode)
    <2>1. Emit(e) /\ Goto(Daemon, "build") /\ "build" \in RunPCs
      BY <1>4 DEF Hydrate, RunPCs
    <2>2. Proper(log, e)
      BY BareProper, Vocabulary, RunnerTyped, TaskFacts DEF BareTypes
    <2>3. e.type = "CONTEXT_HYDRATION_REQUESTED"
      BY DEF Event
    <2> HIDE DEF e
    <2>4. ~Has(log, "AWAITING_HUMAN_ATTESTATION") /\ Live(log)
      <3>1. ~Hydrated(log, task)
        BY <1>1, <1>2, <1>4 DEF Hydrated, Current
      <3> QED
        BY <1>1, <3>1, TaskFacts DEF Settled
    <2>5. May(log, task, e)
      BY <2>3, <2>4 DEF May, Quiet, StepTypes
    <2>6. e.type \notin Telling \cup TERMINAL_EVENTS \cup {"AWAITING_HUMAN_ATTESTATION"}
      BY <2>3 DEF Telling, TERMINAL_EVENTS
    <2>7. /\ run'[Daemon].pc = "build" /\ run'[Daemon].st = s.st /\ run'[Daemon].idx = s.idx
          /\ "build" \notin Executing
      BY <2>1, TaskFacts, GoesTo DEF Executing
    <2> QED
      BY <1>1, <2>1, <2>2, <2>4, <2>5, <2>6, <2>7, WorkTurns
  <1> QED
    BY <1>3, <1>4 DEF Hydrate
LEMMA MayPlain ==
    ASSUME NEW l, NEW t, NEW e, Live(l),
           e.type \notin Quiet \cup StepTypes \cup
              {"AWAITING_HUMAN_ATTESTATION", "PLAN_COMPILED", "MUTATION_COMMITTED"}
    PROVE  May(l, t, e)
  BY DEF May, Quiet

\* A live run that moves on with what it knows.
LEMMA MoveTurns ==
    ASSUME TaskInv, Alone, UNCHANGED ledger, NEW pc \in {"policy", "clear", "consult", "fail"},
           run'[Daemon].pc = pc, run'[Daemon].st = run[Daemon].st,
           Live(log), Current(run[Daemon].st, task),
           pc \in {"policy", "consult"} => Hydrated(log, task),
           pc = "consult" => ~Asked(log, PolicyQuestion)
    PROVE  RunTurns
  <1>1. WorkInv(log, task, run'[Daemon])
    BY DEF WorkInv, Working, Executing
  <1> QED
    BY <1>1, StillTurns

LEMMA RaiseTurns ==
    ASSUME TaskInv, Alone, Raise(Daemon), Live(log), Current(run[Daemon].st, task)
    PROVE  RunTurns
  <1>1. Goto(Daemon, "fail") /\ UNCHANGED ledger /\ "fail" \in RunPCs
    BY DEF Raise, RunPCs
  <1>2. run'[Daemon].pc = "fail" /\ run'[Daemon].st = run[Daemon].st
    BY <1>1, TaskFacts, GoesTo
  <1> QED
    BY <1>1, <1>2, MoveTurns

LEMMA AskTurns ==
    ASSUME TaskInv, Alone, UNCHANGED ledger, NEW stage \in {"hydrate", "policy"},
           GotoIn(Daemon, "ask", stage), Live(log), Current(run[Daemon].st, task),
           stage = "hydrate" => ~Has(log, "AWAITING_HUMAN_ATTESTATION"),
           stage = "policy" => Hydrated(log, task) /\ ~Asked(log, PolicyQuestion)
    PROVE  RunTurns
  <1>1. "ask" \in RunPCs /\ stage \in Stages
    BY DEF RunPCs, Stages
  <1>2. run'[Daemon].pc = "ask" /\ run'[Daemon].st = run[Daemon].st /\ run'[Daemon].stage = stage
    BY <1>1, TaskFacts, GoesToStage
  <1>3. WorkInv(log, task, run'[Daemon])
    BY <1>2 DEF WorkInv, Working, Executing
  <1> QED
    BY <1>3, StillTurns

LEMMA BuildContextTurns ==
    ASSUME TaskInv, Alone, BuildContext(Daemon)
    PROVE  RunTurns
  <1>1. /\ run[Daemon].pc = "build" /\ Live(log) /\ Current(run[Daemon].st, task)
        /\ ~Has(log, "AWAITING_HUMAN_ATTESTATION")
    BY TaskFacts DEF BuildContext, At, WorkInv, Working
  <1>2. CASE Raise(Daemon)
    BY <1>1, <1>2, RaiseTurns
  <1>3. CASE run' = [run EXCEPT ![Daemon].pc = "ask", ![Daemon].stage = "hydrate"] /\ UNCHANGED ledger
    BY <1>1, <1>3, AskTurns DEF GotoIn
  <1>4. CASE EmitAndProject(Daemon, Event("CONTEXT_HYDRATED", 0, NoDisc, 0, "", run[Daemon].mode), "hydrate")
    <2> DEFINE e == Event("CONTEXT_HYDRATED", 0, NoDisc, 0, "", run[Daemon].mode)
    <2>1. Proper(log, e)
      BY BareProper, Vocabulary, RunnerTyped, TaskFacts DEF BareTypes
    <2>2. e.type = "CONTEXT_HYDRATED"
      BY DEF Event
    <2>3. EmitAndProject(Daemon, e, "hydrate") /\ Emit(e)
      BY <1>4 DEF EmitAndProject
    <2> HIDE DEF e
    <2>4. May(log, task, e)
      BY <1>1, <2>2, MayPlain DEF Quiet, StepTypes
    <2>5. Live(log')
      BY <1>1, <2>1, <2>2, <2>3, TaskFacts, EmitSays DEF TERMINAL_EVENTS
    <2>6. task'.packet
      <3>1. IsRecorded(log, e) => task.packet
        BY <2>2, RecordedSays, TaskFacts DEF Settled
      <3> QED
        BY <2>1, <2>2, <2>3, <3>1, TaskFacts, EmitLeaves
    <2>7. AtProject(log', task', "hydrate")
      BY <2>5, <2>6 DEF AtProject, Hydrated
    <2> QED
      BY <1>1, <2>1, <2>3, <2>4, <2>7, ProjectTurns DEF Stages
  <1> QED
    BY <1>2, <1>3, <1>4 DEF BuildContext

LEMMA NumberQuestionTurns ==
    ASSUME TaskInv, Alone, NumberQuestion(Daemon)
    PROVE  RunTurns
  <1> DEFINE s == run[Daemon]
             role == AskingRole(s.stage)
             gate == GateDiscriminator(role)
  <1>1. UNCHANGED ledger /\ s.pc = "ask" /\ run' = [run EXCEPT ![Daemon].pc = "open", ![Daemon].gate = gate]
    BY DEF NumberQuestion, At
  <1>2. s.stage \in {"hydrate", "policy"}
    BY <1>1, TaskFacts DEF RunInv
  <1>3. /\ Live(log) /\ Current(s.st, task)
        /\ s.stage = "hydrate" => ~Has(log, "AWAITING_HUMAN_ATTESTATION")
        /\ s.stage = "policy" => Hydrated(log, task) /\ ~Asked(log, PolicyQuestion)
    BY <1>1, TaskFacts DEF WorkInv, Working
  <1>4. role \in Turns /\ ~Asked(log, <<role, 1>>)
    BY <1>2, <1>3 DEF AskingRole, Turns, PolicyQuestion, Asked, Has
  <1> HIDE DEF role
  <1>5. gate = <<role, 1>>
    BY <1>4, OnceAsked, TaskFacts
  <1> HIDE DEF gate
  <1>6. run'[Daemon] = [s EXCEPT !.pc = "open", !.gate = gate]
    BY <1>1, TaskFacts
  <1>7. run'[Daemon].pc = "open" /\ run'[Daemon].st = s.st /\ run'[Daemon].stage = s.stage
        /\ run'[Daemon].gate = gate
    BY <1>6, TaskFacts DEF RunStates
  <1>8. WorkInv(log, task, run'[Daemon])
    BY <1>3, <1>5, <1>7 DEF WorkInv, Working, Executing, role
  <1> QED
    BY <1>1, <1>8, StillTurns

LEMMA OpenGateTurns ==
    ASSUME TaskInv, Alone, OpenGate(Daemon)
    PROVE  RunTurns
  <1> DEFINE s == run[Daemon]
             e == Question(Daemon)
  <1>1. EmitAndProject(Daemon, e, s.stage) /\ s.pc = "open" /\ Emit(e)
    BY DEF OpenGate, At, Question, EmitAndProject
  <1>2. Proper(log, e) /\ e.type = "AWAITING_HUMAN_ATTESTATION" /\ e.disc = s.gate
    BY <1>1, QuestionProper, TaskFacts
  <1>3. s.stage \in {"hydrate", "policy"} /\ s.stage \in Stages /\ s.gate \in Discs
    BY <1>1, TaskFacts DEF RunInv, RunStates, Stages
  <1>4. /\ Live(log) /\ s.gate = <<AskingRole(s.stage), 1>>
        /\ s.stage = "hydrate" => ~Has(log, "AWAITING_HUMAN_ATTESTATION")
        /\ s.stage = "policy" => Hydrated(log, task) /\ ~Asked(log, PolicyQuestion)
    BY <1>1, TaskFacts DEF WorkInv, Working
  <1> HIDE DEF e
  <1>5. s.gate = IF s.stage = "hydrate" THEN ContextQuestion ELSE PolicyQuestion
    BY <1>4 DEF AskingRole, ContextQuestion, PolicyQuestion
  <1>6. ContextQuestion # PolicyQuestion
    BY DEF ContextQuestion, PolicyQuestion
  <1>7. Has(log, "AWAITING_HUMAN_ATTESTATION") \/ (\A q : ~Asked(log, q))
    BY DEF Has, Asked
  <1>8. /\ e.disc \in OwnQuestions /\ ~Asked(log, e.disc)
        /\ e.disc = ContextQuestion => ~Asked(log, PolicyQuestion)
        /\ e.disc = PolicyQuestion => Hydrated(log, task)
    BY <1>2, <1>3, <1>4, <1>5, <1>6, <1>7 DEF OwnQuestions
  <1>9. May(log, task, e)
    BY <1>2, <1>4, <1>8 DEF May, Quiet, StepTypes
  <1>10. Parked(log')
    <2>1. ~Cleared(log, e.disc)
      BY <1>2, <1>3, <1>8, TaskFacts DEF Settled
    <2>2. Asked(log', e.disc) /\ ~Cleared(log', e.disc) /\ e.disc \in Discs
      BY <1>1, <1>2, <1>3, <2>1, TaskFacts, EmitSays
    <2>3. ~Has(log', "HUMAN_GATE_REJECTED")
      <3>1. ~Has(log, "HUMAN_GATE_REJECTED")
        BY <1>4 DEF Live, Ended, TERMINAL_EVENTS
      <3> QED
        BY <1>1, <1>2, <3>1, TaskFacts, EmitSays
    <2> QED
      BY <2>2, <2>3 DEF Parked, Waiting
  <1>11. AtProject(log', task', s.stage)
    BY <1>3, <1>10 DEF AtProject
  <1> QED
    BY <1>1, <1>2, <1>3, <1>4, <1>9, <1>11, ProjectTurns

LEMMA PlanTurns ==
    ASSUME TaskInv, Alone, Plan(Daemon)
    PROVE  RunTurns
  <1> DEFINE s == run[Daemon]
  <1>1. s.pc = "plan" /\ Live(log) /\ Current(s.st, task) /\ Hydrated(log, task)
    BY TaskFacts DEF Plan, At, WorkInv, Working
  <1>2. CASE s.st.plan > 0 /\ Skip(Daemon, "plan")
    <2>1. Goto(Daemon, "policy") /\ UNCHANGED ledger /\ "policy" \in RunPCs
      BY <1>2 DEF Skip, After, RunPCs
    <2>2. run'[Daemon].pc = "policy" /\ run'[Daemon].st = s.st
      BY <2>1, TaskFacts, GoesTo
    <2> QED
      BY <1>1, <2>1, <2>2, MoveTurns
  <1>3. ASSUME s.st.plan = 0, NEW n \in Nat, n > 0, EmitAndProject(Daemon, PlanEvent(Daemon, n), "plan")
        PROVE  RunTurns
    <2> DEFINE e == PlanEvent(Daemon, n)
    <2>1. EmitAndProject(Daemon, e, "plan") /\ Emit(e)
      BY <1>3 DEF EmitAndProject
    <2>2. Proper(log, e) /\ e.type = "PLAN_COMPILED"
      BY <1>3, PlanProper, TaskFacts
    <2> HIDE DEF e
    <2>3. May(log, task, e)
      BY <1>1, <1>3, <2>2 DEF May, Quiet, StepTypes, Current
    <2>4. Live(log')
      BY <1>1, <2>1, <2>2, TaskFacts, EmitSays DEF TERMINAL_EVENTS
    <2>5. Hydrated(log', task')
      <3>1. \A q : Asked(log, q) => Asked(log', q)
        BY <2>1, <2>2, TaskFacts, EmitSays
      <3>2. task.packet => task'.packet
        BY <2>1, <2>2, TaskFacts, EmitLeaves
      <3> QED
        BY <1>1, <3>1, <3>2 DEF Hydrated
    <2>6. AtProject(log', task', "plan")
      BY <2>4, <2>5 DEF AtProject
    <2> QED
      BY <1>1, <2>1, <2>2, <2>3, <2>6, ProjectTurns DEF Stages
  <1>4. CASE s.st.plan = 0 /\ EmitAndProject(Daemon, PlanEvent(Daemon, 1), "plan")
    BY <1>3, <1>4
  <1>5. CASE Raise(Daemon)
    BY <1>1, <1>5, RaiseTurns
  <1>6. CASE s.st.plan = 0 /\ \E n \in PlanLengths : EmitAndProject(Daemon, PlanEvent(Daemon, n), "plan")
    <2>1. PICK n \in PlanLengths : EmitAndProject(Daemon, PlanEvent(Daemon, n), "plan")
      BY <1>6
    <2>2. n \in Nat /\ n > 0
      BY OrchestratorAssumption
    <2> QED
      BY <1>3, <1>6, <2>1, <2>2
  <1> QED
    BY <1>2, <1>4, <1>5, <1>6 DEF Plan
\* A run that re-enters the step loop.
LEMMA LoopTurns ==
    ASSUME TaskInv, Alone, UNCHANGED ledger, run'[Daemon].pc \in {"execute", "finish"},
           run'[Daemon].st = run[Daemon].st,
           Live(log), Current(run[Daemon].st, task), Has(log, "POLICY_CLEARED")
    PROVE  RunTurns
  <1>1. WorkInv(log, task, run'[Daemon])
    BY DEF WorkInv, Working, Executing
  <1> QED
    BY <1>1, StillTurns

LEMMA CheckPolicyTurns ==
    ASSUME TaskInv, Alone, CheckPolicy(Daemon)
    PROVE  RunTurns
  <1> DEFINE s == run[Daemon]
             Q == StageQuestions("POLICY")
  <1>1. s.pc = "policy" /\ Live(log) /\ Current(s.st, task) /\ Hydrated(log, task)
    BY TaskFacts DEF CheckPolicy, At, WorkInv, Working
  <1>2. /\ \A q \in Q : q = PolicyQuestion /\ Asked(log, q) /\ q \in Discs
        /\ Asked(log, PolicyQuestion) => PolicyQuestion \in Q
    <2>1. "POLICY" \in Turns
      BY DEF Turns
    <2> QED
      BY <2>1, OnceAsked, TaskFacts DEF PolicyQuestion
  <1>3. CASE s.st.policy # "none" /\ Skip(Daemon, "policy")
    <2>1. Has(log, "POLICY_CLEARED")
      BY <1>1, <1>3, TaskFacts DEF Settled, Current, Live
    <2> DEFINE pc == After("policy", s.st)
    <2>2. pc \in {"execute", "finish"} /\ pc \in RunPCs
      BY DEF After, RunPCs
    <2>3. Goto(Daemon, pc) /\ UNCHANGED ledger
      BY <1>3 DEF Skip
    <2> HIDE DEF pc
    <2>4. run'[Daemon].pc = pc /\ run'[Daemon].st = s.st
      BY <2>2, <2>3, TaskFacts, GoesTo
    <2> QED
      BY <1>1, <2>1, <2>2, <2>3, <2>4, LoopTurns
  <1>4. ASSUME Q # {}, NEW q, q = LastAsked(Q)
        PROVE  q \in Q /\ Answered(q)
    <2>1. Q \in SUBSET Questions
      BY DEF StageQuestions
    <2>2. q \in Q
      BY <1>4, <2>1, LastAskedIsAsked, TaskFacts
    <2>3. Cleared(log, q)
      BY <1>1, <1>2, <2>2 DEF Live, Waiting
    <2> QED
      BY <2>2, <2>3 DEF Cleared, Answered
  <1>5. ASSUME Q # {}, NEW q, q = LastAsked(Q), UNCHANGED ledger,
               run' = [run EXCEPT ![Daemon].pc = "clear", ![Daemon].gate = q]
        PROVE  RunTurns
    <2>1. run'[Daemon] = [s EXCEPT !.pc = "clear", !.gate = q]
      BY <1>5, TaskFacts
    <2>2. run'[Daemon].pc = "clear" /\ run'[Daemon].st = s.st
      BY <2>1, TaskFacts DEF RunStates
    <2> QED
      BY <1>1, <1>5, <2>2, MoveTurns
  <1>6. CASE Q = {} /\ Goto(Daemon, "consult") /\ UNCHANGED ledger
    <2>1. "consult" \in RunPCs
      BY DEF RunPCs
    <2>2. run'[Daemon].pc = "consult" /\ run'[Daemon].st = s.st
      BY <1>6, <2>1, TaskFacts, GoesTo
    <2> QED
      BY <1>1, <1>2, <1>6, <2>2, MoveTurns
  <1> HIDE DEF Q
  <1>7. \/ s.st.policy # "none" /\ Skip(Daemon, "policy")
        \/ /\ Q # {}
           /\ LET q == LastAsked(Q) IN
              IF Answered(q)
                THEN run' = [run EXCEPT ![Daemon].pc = "clear", ![Daemon].gate = q] /\ UNCHANGED ledger
                ELSE Skip(Daemon, "policy")
        \/ Q = {} /\ Goto(Daemon, "consult") /\ UNCHANGED ledger
    BY DEF CheckPolicy, Q
  <1> QED
    BY <1>3, <1>4, <1>5, <1>6, <1>7

\* A decision in the run's turn: the task is cleared, or blocked.
LEMMA DecisionTurns ==
    ASSUME TaskInv, Alone, NEW type \in {"POLICY_CLEARED", "POLICY_BLOCKED", "SECURITY_VIOLATION"},
           NEW disc \in Discs, NEW data \in {"APPROVED", "BLOCKED"}, Live(log),
           EmitAndProject(Daemon, Event(type, 0, disc, 0, data, run[Daemon].mode), "policy")
    PROVE  RunTurns
  <1> DEFINE e == Event(type, 0, disc, 0, data, run[Daemon].mode)
  <1>1. Proper(log, e)
    BY DecisionProper, TaskFacts
  <1>2. e.type = type
    BY DEF Event
  <1>3. EmitAndProject(Daemon, e, "policy") /\ Emit(e)
    BY DEF EmitAndProject
  <1> HIDE DEF e
  <1>4. May(log, task, e)
    BY <1>2, MayPlain DEF Quiet, StepTypes
  <1>5. CASE type = "POLICY_CLEARED"
    <2>1. Live(log') /\ Has(log', "POLICY_CLEARED")
      BY <1>1, <1>2, <1>3, <1>5, TaskFacts, EmitSays DEF TERMINAL_EVENTS
    <2>2. AtProject(log', task', "policy")
      BY <2>1 DEF AtProject
    <2> QED
      BY <1>1, <1>3, <1>4, <2>2, ProjectTurns DEF Stages
  <1>6. CASE type \in {"POLICY_BLOCKED", "SECURITY_VIOLATION"}
    <2>1. ~IsRecorded(log, e)
      BY <1>2, <1>6, RecordedSays DEF Live, Ended, TERMINAL_EVENTS
    <2>2. task'.phase = "BLOCKED"
      BY <1>1, <1>2, <1>3, <1>6, <2>1, TaskFacts, EmitLeaves
    <2>3. AtProject(log', task', "policy")
      BY <2>2 DEF AtProject
    <2> QED
      BY <1>1, <1>3, <1>4, <2>3, ProjectTurns DEF Stages
  <1> QED
    BY <1>5, <1>6

LEMMA RecordRulingTurns ==
    ASSUME TaskInv, Alone, RecordRuling(Daemon)
    PROVE  RunTurns
  <1>1. run[Daemon].pc = "clear" /\ Live(log)
    BY TaskFacts DEF RecordRuling, At, WorkInv, Working
  <1>2. run[Daemon].gate \in Discs
    BY TaskFacts, RunnerTyped
  <1> QED
    BY <1>1, <1>2, DecisionTurns DEF RecordRuling

LEMMA ConsultPolicyTurns ==
    ASSUME TaskInv, Alone, ConsultPolicy(Daemon)
    PROVE  RunTurns
  <1>1. /\ run[Daemon].pc = "consult" /\ Live(log) /\ Current(run[Daemon].st, task)
        /\ Hydrated(log, task) /\ ~Asked(log, PolicyQuestion)
    BY TaskFacts DEF ConsultPolicy, At, WorkInv, Working
  <1>2. NoDisc \in Discs
    BY Vocabulary
  <1>3. CASE \E t \in {"POLICY_BLOCKED", "SECURITY_VIOLATION"} :
                EmitAndProject(Daemon, Event(t, 0, NoDisc, 0, "BLOCKED", run[Daemon].mode), "policy")
    BY <1>1, <1>2, <1>3, DecisionTurns
  <1>4. CASE run' = [run EXCEPT ![Daemon].pc = "ask", ![Daemon].stage = "policy"] /\ UNCHANGED ledger
    BY <1>1, <1>4, AskTurns DEF GotoIn
  <1>5. CASE EmitAndProject(Daemon, Event("POLICY_CLEARED", 0, NoDisc, 0, "APPROVED", run[Daemon].mode), "policy")
    BY <1>1, <1>2, <1>5, DecisionTurns
  <1> QED
    BY <1>3, <1>4, <1>5 DEF ConsultPolicy

\* What the step loop knows.
LEMMA LoopFacts ==
    ASSUME TaskInv, Alone, run[Daemon].pc \in Executing
    PROVE  /\ Live(log) /\ Current(run[Daemon].st, task) /\ Has(log, "POLICY_CLEARED")
           /\ task.plan > 0
           /\ run[Daemon].pc \in {"attempt", "work", "complete", "reject"} =>
                run[Daemon].idx \notin task.completed
  <1>1. run[Daemon].st.plan > 0
    BY TaskFacts DEF RunInv, AfterPlan, Executing
  <1> QED
    BY <1>1, TaskFacts DEF WorkInv, Working, Current

LEMMA NextStepTurns ==
    ASSUME TaskInv, Alone, NextStep(Daemon)
    PROVE  RunTurns
  <1> DEFINE s == run[Daemon]
  <1>1. UNCHANGED ledger /\ s.pc = "execute" /\ "execute" \in Executing
    BY DEF NextStep, At, Executing
  <1>2. Live(log) /\ Current(s.st, task) /\ Has(log, "POLICY_CLEARED")
    BY <1>1, LoopFacts
  <1>3. ASSUME NEW i \in Pending(Daemon),
               run' = [run EXCEPT ![Daemon].pc = "attempt", ![Daemon].idx = i, ![Daemon].att = 0]
        PROVE  RunTurns
    <2>1. run'[Daemon] = [s EXCEPT !.pc = "attempt", !.idx = i, !.att = 0]
      BY <1>3, TaskFacts
    <2>2. run'[Daemon].pc = "attempt" /\ run'[Daemon].st = s.st /\ run'[Daemon].idx = i
      BY <2>1, TaskFacts DEF RunStates
    <2>3. i \notin task.completed
      BY <1>2, <1>3 DEF Pending, Current
    <2>4. WorkInv(log, task, run'[Daemon])
      BY <1>2, <2>2, <2>3 DEF WorkInv, Working, Executing
    <2> QED
      BY <1>1, <2>4, StillTurns
  <1>4. ASSUME NEW pc \in {"finish", "commit"}, Goto(Daemon, pc)
        PROVE  RunTurns
    <2>1. pc \in RunPCs
      BY DEF RunPCs
    <2>2. run'[Daemon].pc = pc /\ run'[Daemon].st = s.st
      BY <1>4, <2>1, TaskFacts, GoesTo
    <2>3. WorkInv(log, task, run'[Daemon])
      BY <1>2, <2>2 DEF WorkInv, Working, Executing
    <2> QED
      BY <1>1, <2>3, StillTurns
  <1> QED
    BY <1>3, <1>4 DEF NextStep

\* A step event in the run's turn.
LEMMA StepMay ==
    ASSUME TaskInv, Alone, run[Daemon].pc \in {"attempt", "complete", "reject"},
           NEW type \in StepTypes, NEW data \in DATA, type = "VALIDATION_FAILED" => data = "FAIL"
    PROVE  /\ Proper(log, StepEvent(Daemon, type, data)) /\ May(log, task, StepEvent(Daemon, type, data))
           /\ StepEvent(Daemon, type, data).type = type
  <1> DEFINE e == StepEvent(Daemon, type, data)
  <1>1. Proper(log, e)
    BY StepProper, TaskFacts DEF StepTypes
  <1>2. e.type = type /\ e.disc = StepDisc(run[Daemon].idx) /\ e.num = run[Daemon].idx
    BY DEF StepEvent, Event
  <1>3. run[Daemon].pc \in Executing
    BY DEF Executing
  <1>4. Live(log) /\ task.plan > 0 /\ run[Daemon].idx \notin task.completed
    BY <1>3, LoopFacts
  <1> HIDE DEF e
  <1>5. type \notin Quiet \cup {"AWAITING_HUMAN_ATTESTATION", "PLAN_COMPILED", "MUTATION_COMMITTED"}
    BY DEF StepTypes, Quiet
  <1>6. May(log, task, e)
    BY <1>2, <1>4, <1>5 DEF May, Quiet
  <1> QED
    BY <1>1, <1>2, <1>6 DEF e

LEMMA AttemptTurns ==
    ASSUME TaskInv, Alone, Attempt(Daemon)
    PROVE  RunTurns
  <1> DEFINE e == StepEvent(Daemon, "EXECUTION_STARTED", "")
  <1>1. run[Daemon].pc = "attempt" /\ Emit(e) /\ Goto(Daemon, "work")
    BY DEF Attempt, At
  <1>2. "" \in DATA /\ "EXECUTION_STARTED" \in StepTypes /\ "work" \in RunPCs
    BY Vocabulary DEF StepTypes, RunPCs
  <1>3. Proper(log, e) /\ May(log, task, e) /\ e.type = "EXECUTION_STARTED"
    BY <1>1, <1>2, StepMay
  <1>4. {"attempt", "work"} \subseteq Executing
    BY DEF Executing
  <1>5. Live(log) /\ Current(run[Daemon].st, task) /\ Has(log, "POLICY_CLEARED")
        /\ run[Daemon].idx \notin task.completed
    BY <1>1, <1>4, LoopFacts
  <1>6. run'[Daemon].pc = "work" /\ run'[Daemon].st = run[Daemon].st /\ run'[Daemon].idx = run[Daemon].idx
    BY <1>1, <1>2, TaskFacts, GoesTo
  <1> HIDE DEF e
  <1>7. e.type \notin Telling \cup TERMINAL_EVENTS \cup {"AWAITING_HUMAN_ATTESTATION"}
    BY <1>3 DEF Telling, TERMINAL_EVENTS
  <1> QED
    BY <1>1, <1>3, <1>4, <1>5, <1>6, <1>7, WorkTurns

LEMMA WorkStepTurns ==
    ASSUME TaskInv, Alone, Work(Daemon)
    PROVE  RunTurns
  <1>1. run[Daemon].pc = "work" /\ {"work", "reject", "complete"} \subseteq Executing
        /\ {"reject", "complete"} \subseteq RunPCs
    BY DEF Work, At, Executing, RunPCs
  <1>2. Live(log) /\ Current(run[Daemon].st, task) /\ Has(log, "POLICY_CLEARED")
        /\ run[Daemon].idx \notin task.completed
    BY <1>1, LoopFacts
  <1>3. CASE Goto(Daemon, "reject") /\ UNCHANGED ledger
    <2>1. run'[Daemon].pc = "reject" /\ run'[Daemon].st = run[Daemon].st
          /\ run'[Daemon].idx = run[Daemon].idx
      BY <1>1, <1>3, TaskFacts, GoesTo
    <2>2. WorkInv(log, task, run'[Daemon])
      BY <1>2, <2>1 DEF WorkInv, Working, Executing
    <2> QED
      BY <1>3, <2>2, StillTurns
  <1>4. ASSUME NEW v \in {"PASS", "FAIL"}, NEW pc \in {"reject", "complete"},
               Emit(Critique(Daemon, v)), Goto(Daemon, pc)
        PROVE  RunTurns
    <2> DEFINE e == Critique(Daemon, v)
    <2>1. Proper(log, e)
      BY CritiqueProper, TaskFacts
    <2>2. e.type = "CRITIQUE_CONCLUDED"
      BY DEF Critique, Event
    <2>3. run'[Daemon].pc = pc /\ run'[Daemon].st = run[Daemon].st
          /\ run'[Daemon].idx = run[Daemon].idx
      BY <1>1, <1>4, TaskFacts, GoesTo
    <2>4. Emit(e)
      BY <1>4
    <2> HIDE DEF e
    <2>5. May(log, task, e)
      BY <1>2, <2>2, MayPlain DEF Quiet, StepTypes
    <2>6. e.type \notin Telling \cup TERMINAL_EVENTS \cup {"AWAITING_HUMAN_ATTESTATION"}
      BY <2>2 DEF Telling, TERMINAL_EVENTS
    <2> QED
      BY <1>1, <1>2, <2>1, <2>3, <2>4, <2>5, <2>6, WorkTurns
  <1> QED
    BY <1>3, <1>4 DEF Work

LEMMA CompleteTurns ==
    ASSUME TaskInv, Alone, Complete(Daemon)
    PROVE  RunTurns
  <1> DEFINE e == StepEvent(Daemon, "EXECUTION_COMPLETED", "")
  <1>1. run[Daemon].pc = "complete" /\ Emit(e)
        /\ run' = [run EXCEPT ![Daemon].pc = "project", ![Daemon].stage = "step",
                              ![Daemon].idx = run[Daemon].idx + 1]
    BY DEF Complete, At
  <1>2. "" \in DATA /\ "EXECUTION_COMPLETED" \in StepTypes /\ "complete" \in Executing
    BY Vocabulary DEF StepTypes, Executing
  <1>3. Proper(log, e) /\ May(log, task, e) /\ e.type = "EXECUTION_COMPLETED"
    BY <1>1, <1>2, StepMay
  <1>4. Live(log) /\ Has(log, "POLICY_CLEARED")
    BY <1>1, <1>2, LoopFacts
  <1> HIDE DEF e
  <1>5. Live(log') /\ Has(log', "POLICY_CLEARED")
    BY <1>1, <1>3, <1>4, TaskFacts, EmitSays DEF TERMINAL_EVENTS
  <1>6. run'[Daemon] = [run[Daemon] EXCEPT !.pc = "project", !.stage = "step", !.idx = run[Daemon].idx + 1]
    BY <1>1, TaskFacts
  <1>7. run'[Daemon].pc = "project" /\ run'[Daemon].stage = "step"
    BY <1>6, TaskFacts DEF RunStates
  <1>8. WorkInv(log', task', run'[Daemon])
    BY <1>5, <1>7 DEF WorkInv, AtProject, Working, Executing
  <1>9. TurnInv(log', task', closed') /\ MovesRight
    BY <1>1, <1>3, TaskFacts, TurnKeeps
  <1> QED
    BY <1>4, <1>8, <1>9 DEF RunTurns

LEMMA RejectTurns ==
    ASSUME TaskInv, Alone, Reject(Daemon)
    PROVE  RunTurns
  <1> DEFINE e == StepEvent(Daemon, "VALIDATION_FAILED", "FAIL")
  <1>1. run[Daemon].pc = "reject" /\ Emit(e)
    BY DEF Reject, At
  <1>2. "FAIL" \in DATA /\ "VALIDATION_FAILED" \in StepTypes
    BY Vocabulary DEF StepTypes
  <1>3. Proper(log, e) /\ May(log, task, e) /\ e.type = "VALIDATION_FAILED"
    BY <1>1, <1>2, StepMay
  <1>4. {"attempt", "reject"} \subseteq Executing
    BY DEF Executing
  <1>5. Live(log) /\ Current(run[Daemon].st, task) /\ Has(log, "POLICY_CLEARED")
        /\ run[Daemon].idx \notin task.completed
    BY <1>1, <1>4, LoopFacts
  <1> HIDE DEF e
  <1>6. e.type \notin Telling \cup TERMINAL_EVENTS \cup {"AWAITING_HUMAN_ATTESTATION"}
    BY <1>3 DEF Telling, TERMINAL_EVENTS
  <1>7. PICK pc \in {"attempt", "fail"} :
           run'[Daemon].pc = pc /\ run'[Daemon].st = run[Daemon].st /\ run'[Daemon].idx = run[Daemon].idx
    <2>1. CASE run' = [run EXCEPT ![Daemon].pc = "attempt", ![Daemon].att = run[Daemon].att + 1]
      <3>1. run'[Daemon] = [run[Daemon] EXCEPT !.pc = "attempt", !.att = run[Daemon].att + 1]
        BY <2>1, TaskFacts
      <3> QED
        BY <3>1, TaskFacts DEF RunStates
    <2>2. CASE Goto(Daemon, "fail")
      <3>1. "fail" \in RunPCs
        BY DEF RunPCs
      <3> QED
        BY <2>2, <3>1, TaskFacts, GoesTo
    <2> QED
      BY <2>1, <2>2 DEF Reject, Goto
  <1> QED
    BY <1>1, <1>3, <1>4, <1>5, <1>6, <1>7, WorkTurns

LEMMA CommitTaskTurns ==
    ASSUME TaskInv, Alone, CommitTask(Daemon)
    PROVE  RunTurns
  <1> DEFINE e == Commitment(Daemon)
  <1>1. EmitAndProject(Daemon, e, "commit") /\ run[Daemon].pc = "commit" /\ "commit" \in Executing
    BY DEF CommitTask, At, Commitment, Executing
  <1>2. Proper(log, e) /\ e.type = "MUTATION_COMMITTED"
    BY <1>1, CommitProper, TaskFacts
  <1>3. Live(log) /\ Has(log, "POLICY_CLEARED")
    BY <1>1, LoopFacts
  <1> HIDE DEF e
  <1>4. May(log, task, e)
    BY <1>2, <1>3 DEF May, Quiet, StepTypes
  <1> QED
    BY <1>1, <1>2, <1>3, <1>4, ProjectTurns DEF Stages, AtProject

LEMMA FailTaskTurns ==
    ASSUME TaskInv, Alone, FailTask(Daemon)
    PROVE  RunTurns
  <1> DEFINE e == Event("EXECUTION_FAILED", run[Daemon].base, NoDisc, 0, "", run[Daemon].mode)
  <1>1. EmitAndProject(Daemon, e, "failed") /\ run[Daemon].pc = "fail"
    BY DEF FailTask, At
  <1>2. Proper(log, e)
    BY BareProper, Vocabulary, RunnerTyped, TaskFacts DEF BareTypes
  <1>3. e.type = "EXECUTION_FAILED"
    BY DEF Event
  <1>4. Live(log)
    BY <1>1, TaskFacts DEF WorkInv, Working
  <1> HIDE DEF e
  <1>5. May(log, task, e)
    BY <1>3, <1>4, MayPlain DEF Quiet, StepTypes
  <1> QED
    BY <1>1, <1>2, <1>4, <1>5, ProjectTurns DEF Stages, AtProject

LEMMA PipelineTurns ==
    ASSUME TaskInv, Alone, Pipeline(Daemon)
    PROVE  RunTurns
  BY BeginTurns, ReprojectTurns, HydrateTurns, BuildContextTurns, NumberQuestionTurns, OpenGateTurns,
     PlanTurns, CheckPolicyTurns, RecordRulingTurns, ConsultPolicyTurns, NextStepTurns, AttemptTurns,
     WorkStepTurns, CompleteTurns, RejectTurns, CommitTaskTurns, FailTaskTurns DEF Pipeline
-----------------------------------------------------------------------------
(* The turns of the other processes                                        *)

\* What any step leaves behind.
Turned ==
    /\ TurnInv(log', task', closed') /\ MovesRight
    /\ WorkInv(log', task', run'[Daemon])
    /\ SweepInv' /\ RulingInv'

LEMMA RestingRun ==
    ASSUME NEW l, NEW t, NEW s, s.pc \in {"idle", "begin", "finish"}
    PROVE  WorkInv(l, t, s)
  BY DEF WorkInv, Working, Executing

LEMMA StaysThere ==
    ASSUME NEW l \in Seq(EventRecord), NEW m, l # <<>>, Grew(l, m)
    PROVE  m # <<>>
  <1>1. 1 \in DOMAIN l
    OBVIOUS
  <1>2. Has(l, l[1].type)
    BY <1>1 DEF Has
  <1>3. Has(m, l[1].type)
    BY <1>2 DEF Grew
  <1> QED
    BY <1>3 DEF Has

LEMMA EmitIsThere ==
    ASSUME LedgerInv(log, task, closed), NEW e, Proper(log, e), Emit(e)
    PROVE  log' # <<>>
  <1>1. Has(log', e.type)
    BY EmitKeeps
  <1> QED
    BY <1>1 DEF Has

\* While the task is live or over, no human has his hands on it.
LEMMA NoRuling ==
    ASSUME TaskInv, ~Parked(log)
    PROVE  \A h \in Humans : human[h].pc = "idle"
  BY DEF TaskInv, RulingInv

\* While a run works, the server serves, the task is submitted and the sweep is over.
LEMMA RunServes ==
    ASSUME TaskInv, run[Daemon].pc # "idle" \/ batch > 0
    PROVE  server = "serving" /\ sub.pc \notin {"new", "requested"}
  BY DEF TaskInv, SweepInv, OrchInv, RestTyped

LEMMA RunStepTurned ==
    ASSUME TaskInv, Alone, Pipeline(Daemon)
    PROVE  Turned
  <1>1. RunTurns
    BY PipelineTurns
  <1>2. run[Daemon].pc # "idle"
    BY DEF Pipeline, At, Begin, Reproject, Hydrate, BuildContext, NumberQuestion, OpenGate, Plan,
           CheckPolicy, RecordRuling, ConsultPolicy, NextStep, Attempt, Work, Complete, Reject,
           CommitTask, FailTask
  <1>3. server = "serving" /\ sub.pc \notin {"new", "requested"}
    BY <1>2, RunServes
  <1>4. log # <<>> => log' # <<>>
    BY PipelineKeeps, StaysThere, TaskFacts DEF RunnerKeeps
  <1>5. server' = server /\ batch' = batch /\ sub' = sub /\ human' = human /\ corr' = corr
    BY DEF Pipeline, queue, boot, people
  <1>6. SweepInv'
    BY <1>3, <1>4, <1>5 DEF TaskInv, SweepInv
  <1>7. RulingInv'
    <2>1. CASE Live(log)
      <3>1. ~Parked(log)
        BY <2>1 DEF Live, Parked
      <3> QED
        BY <1>5, <3>1, NoRuling DEF RulingInv
    <2>2. CASE UNCHANGED ledger
      BY <1>5, <2>2 DEF ledger, TaskInv, RulingInv
    <2> QED
      BY <1>1, <2>1, <2>2 DEF RunTurns
  <1> QED
    BY <1>1, <1>6, <1>7 DEF RunTurns, Turned

\* A step that leaves the ledger and the people alone and the run at rest.
LEMMA RestTurned ==
    ASSUME TaskInv, UNCHANGED <<ledger, human, corr>>,
           run'[Daemon].pc \in {"idle", "begin", "finish"} \/ run' = run,
           SweepInv'
    PROVE  Turned
  <1>1. log' = log /\ task' = task /\ closed' = closed
    BY DEF ledger
  <1>2. TurnInv(log', task', closed') /\ MovesRight
    BY <1>1 DEF TaskInv, MovesRight
  <1>3. WorkInv(log', task', run'[Daemon])
    BY <1>1, RestingRun DEF TaskInv
  <1>4. RulingInv'
    BY <1>1 DEF TaskInv, RulingInv
  <1> QED
    BY <1>2, <1>3, <1>4 DEF Turned

LEMMA RunEndsTurned ==
    ASSUME TaskInv, Alone, Finish(Daemon) \/ Abort(Daemon)
    PROVE  Turned
  <1>1. /\ run[Daemon].pc # "idle" /\ run'[Daemon].pc = "idle"
        /\ UNCHANGED <<ledger, batch, boot, sub, people>>
    <2>1. run' = [run EXCEPT ![Daemon] = [NoRun EXCEPT !.pc = "idle"]]
      BY DEF Finish, Abort
    <2>2. run'[Daemon] = [NoRun EXCEPT !.pc = "idle"]
      BY <2>1, TaskFacts
    <2> QED
      BY <2>2 DEF Finish, Abort, NoRun, queue
  <1>2. server = "serving" /\ sub.pc \notin {"new", "requested"}
    BY <1>1, RunServes
  <1>3. SweepInv'
    BY <1>1, <1>2 DEF ledger, boot, people, TaskInv, SweepInv
  <1> QED
    BY <1>1, <1>3, RestTurned DEF people

LEMMA CrashTurned ==
    ASSUME TaskInv, Alone, Crash
    PROVE  Turned
  <1>1. /\ run'[Daemon].pc = "idle" /\ server' = "down" /\ batch' = 0 /\ queued' = queued
        /\ sub' = sub \/ sub'.pc = "dead"
        /\ sub'.pc \notin {"requested", "enqueue"}
        /\ UNCHANGED <<ledger, people>>
    <2>1. run' = [run EXCEPT ![Daemon] = NoRun]
      BY DEF Crash
    <2>2. run'[Daemon].pc = "idle"
      BY <2>1, TaskFacts DEF NoRun
    <2>3. sub' = sub \/ sub'.pc = "dead"
      BY DEF Crash, TaskInv, OrchInv, RestTyped
    <2>4. sub'.pc \notin {"requested", "enqueue"}
      BY DEF Crash, Alone, TaskInv, OrchInv, RestTyped
    <2> QED
      BY <2>2, <2>3, <2>4 DEF Crash
  <1>2. SweepInv'
    BY <1>1 DEF ledger, people, TaskInv, SweepInv
  <1> QED
    BY <1>1, <1>2, RestTurned DEF people

LEMMA ClaimTurned ==
    ASSUME TaskInv, Alone, Claim \/ RunMessage
    PROVE  Turned
  <1>1. CASE Claim
    <2>1. /\ server = "serving" /\ batch = 0 /\ run[Daemon].pc = "idle" /\ queued > 0
          /\ UNCHANGED <<ledger, boot, run, sub, people, faults>>
      BY <1>1, OrchestratorAssumption DEF Claim, TaskInv, OrchInv, RestTyped
    <2>2. sub.pc \notin {"new", "requested"}
      BY <2>1 DEF TaskInv, SweepInv
    <2>3. SweepInv'
      BY <2>1, <2>2 DEF ledger, boot, people, TaskInv, SweepInv
    <2> QED
      BY <2>1, <2>3, RestTurned DEF people
  <1>2. CASE RunMessage
    <2>1. /\ batch > 0 /\ batch' = batch - 1
          /\ run' = [run EXCEPT ![Daemon].pc = "begin"]
          /\ UNCHANGED <<ledger, queued, boot, sub, people, faults>>
      BY <1>2 DEF RunMessage
    <2>2. run'[Daemon].pc = "begin"
      <3>1. Goto(Daemon, "begin") /\ "begin" \in RunPCs
        BY <2>1 DEF Goto, RunPCs
      <3> QED
        BY <3>1, TaskFacts, GoesTo
    <2>3. server = "serving" /\ sub.pc \notin {"new", "requested"}
      BY <2>1, RunServes
    <2>4. SweepInv'
      BY <2>1, <2>3 DEF ledger, boot, people, TaskInv, SweepInv
    <2> QED
      BY <2>1, <2>2, <2>4, RestTurned DEF people
  <1> QED
    BY <1>1, <1>2

LEMMA SubmitTurned ==
    ASSUME TaskInv, Alone, Submit
    PROVE  Turned
  <1>1. ASSUME sub.pc \in {"new", "requested"}, NEW type \in {"TASK_REQUESTED", "TASK_QUEUED"},
               NEW mode \in DOMAIN LADDER, Emit(Event(type, 0, NoDisc, 0, "", mode)),
               server = "serving", sub'.pc \in {"requested", "enqueue"},
               UNCHANGED <<queue, boot, run, people, faults>>
        PROVE  Turned
    <2> DEFINE e == Event(type, 0, NoDisc, 0, "", mode)
    <2>1. Proper(log, e)
      BY BareProper, Vocabulary DEF BareTypes
    <2>2. e.type = type /\ Emit(e)
      BY <1>1 DEF Event
    <2> HIDE DEF e
    <2>3. queued = 0 /\ batch = 0 /\ run[Daemon].pc = "idle" /\ Live(log)
      BY <1>1 DEF TaskInv, SweepInv
    <2>4. May(log, task, e)
      BY <2>2, <2>3, MayPlain DEF Quiet, StepTypes
    <2>5. TurnInv(log', task', closed') /\ MovesRight
      BY <2>1, <2>2, <2>4, TaskFacts, TurnKeeps
    <2>6. Live(log') /\ log' # <<>>
      BY <2>1, <2>2, <2>3, TaskFacts, EmitSays, EmitIsThere DEF TERMINAL_EVENTS
    <2>7. WorkInv(log', task', run'[Daemon])
      <3>1. run'[Daemon].pc = "idle"
        BY <1>1, <2>3
      <3> QED
        BY <3>1, RestingRun
    <2>8. SweepInv'
      BY <1>1, <2>3, <2>6 DEF queue, boot, people, SweepInv
    <2>9. RulingInv'
      <3>1. ~Parked(log)
        BY <2>3 DEF Live, Parked
      <3>2. human' = human /\ \A h \in Humans : human[h].pc = "idle"
        BY <1>1, <3>1, NoRuling DEF people
      <3> QED
        BY <3>2 DEF RulingInv
    <2> QED
      BY <2>5, <2>7, <2>8, <2>9 DEF Turned
  <1>2. sub.mode \in DOMAIN LADDER /\ LADDER[sub.mode] \in DOMAIN LADDER
        /\ sub \in [pc : {"new", "requested", "enqueue", "done", "dead"}, mode : Modes]
    BY OrchestratorAssumption DEF TaskInv, OrchInv, RestTyped, LADDER
  <1>3. CASE SubmitRequest
    <2>1. sub.pc = "new" /\ server = "serving" /\ sub'.pc = "requested"
      BY <1>2, <1>3 DEF SubmitRequest, CanSubmit, Alone
    <2> QED
      BY <1>1, <1>2, <1>3, <2>1 DEF SubmitRequest
  <1>4. CASE SubmitQueued
    <2>1. sub.pc = "requested" /\ server = "serving" /\ sub'.pc = "enqueue"
      BY <1>2, <1>4 DEF SubmitQueued, TaskInv, SweepInv
    <2> QED
      BY <1>1, <1>2, <1>4, <2>1 DEF SubmitQueued
  <1>5. CASE SubmitEnqueue
    <2>1. sub'.pc = "done" /\ UNCHANGED <<ledger, batch, boot, run, people, faults>>
      BY <1>2, <1>5 DEF SubmitEnqueue
    <2>2. SweepInv'
      BY <2>1 DEF ledger, boot, people, TaskInv, SweepInv
    <2> QED
      BY <2>1, <2>2, RestTurned DEF people
  <1> QED
    BY <1>3, <1>4, <1>5 DEF Submit
\* A ruling or a correction tells a run nothing new.
LEMMA NewsKeepsWork ==
    ASSUME TaskInv, Alone, NEW e, Proper(log, e), Emit(e), e.type \notin Telling, run' = run,
           \/ e.type \in {"USER_CORRECTION", "RECOVERY_REPLAY_COMPLETED"}
           \/ Parked(log) /\ run[Daemon].pc # "project"
    PROVE  WorkInv(log', task', run'[Daemon])
  <1> DEFINE s == run[Daemon]
  <1>1. /\ \A type : Has(log, type) => Has(log', type)
        /\ \A type : Has(log', type) => Has(log, type) \/ e.type = type
        /\ \A q : Asked(log, q) => Asked(log', q)
    BY TaskFacts, EmitSays
  <1>2. \A st : Current(st, task) => Current(st, task')
    BY TaskFacts, EmitLeaves DEF Current
  <1>3. task'.completed = task.completed /\ (Hydrated(log, task) => Hydrated(log', task'))
    BY <1>1, TaskFacts, EmitLeaves DEF Hydrated
  <1>4. WorkInv(log, task, s)
    BY TaskFacts
  <1>5. CASE e.type \in {"USER_CORRECTION", "RECOVERY_REPLAY_COMPLETED"}
    <2>1. /\ e.type \notin TERMINAL_EVENTS \cup {"AWAITING_HUMAN_ATTESTATION", "HUMAN_GATE_REJECTED",
                                                 "HUMAN_GATE_CLEARED"}
          /\ task'.phase = task.phase
      BY <1>5, TaskFacts, EmitLeaves DEF TERMINAL_EVENTS
    <2>2. (Waiting(log') <=> Waiting(log)) /\ (Ended(log') <=> Ended(log))
          /\ (\A q : Asked(log', q) <=> Asked(log, q))
      BY <2>1, TaskFacts, EmitSays
    <2>3. Has(log', "HUMAN_GATE_REJECTED") <=> Has(log, "HUMAN_GATE_REJECTED")
      BY <1>1, <2>1
    <2>4. Has(log', "AWAITING_HUMAN_ATTESTATION") <=> Has(log, "AWAITING_HUMAN_ATTESTATION")
      BY <1>1, <2>1
    <2>5. (Live(log) => Live(log')) /\ (Parked(log) => Parked(log'))
      BY <2>2, <2>3 DEF Live, Parked
    <2>6. s.pc = "project" => AtProject(log', task', s.stage)
      BY <1>1, <1>3, <1>4, <2>1, <2>5 DEF WorkInv, AtProject
    <2> QED
      BY <1>1, <1>2, <1>3, <1>4, <2>2, <2>4, <2>5, <2>6 DEF WorkInv
  <1>6. CASE Parked(log) /\ run[Daemon].pc # "project"
    <2>1. s.pc \notin Working
      BY <1>4, <1>6 DEF WorkInv, Live, Parked
    <2>2. s.pc = "hydrate" =>
            /\ Current(s.st, task')
            /\ s.st.phase = "AWAITING_HUMAN" /\ Has(log', "AWAITING_HUMAN_ATTESTATION")
      BY <1>1, <1>2, <1>4, <1>6 DEF WorkInv, Live, Parked
    <2> QED
      BY <1>6, <2>1, <2>2 DEF WorkInv, Working, Executing
  <1> QED
    BY <1>5, <1>6

LEMMA HumanTurned ==
    ASSUME TaskInv, Alone, NEW h \in Humans, LookAtTask(h) \/ FindQuestion(h) \/ Rule(h)
    PROVE  Turned
  <1>1. /\ human \in [Humans -> HumanStates] /\ human[h] \in HumanStates /\ HumanInv(human[h])
        /\ human[h].attempts \in Nat /\ human[h].mode \in DOMAIN LADDER /\ human[h].gate \in Discs
        /\ \A g \in Humans : g = h
    BY DEF TaskInv, OrchInv, RestTyped, HumanStates, Alone
  <1>2. human[h].pc # "idle" => Parked(log)
    BY DEF TaskInv, RulingInv
  <1>3. ASSUME UNCHANGED <<ledger, queue, boot, run, sub, corr, faults>>, RulingInv'
        PROVE  Turned
    <2>1. log' = log /\ task' = task /\ closed' = closed /\ run' = run
      BY <1>3 DEF ledger
    <2>2. SweepInv'
      BY <1>3, <2>1 DEF queue, boot, TaskInv, SweepInv
    <2> QED
      BY <1>3, <2>1, <2>2 DEF Turned, TaskInv, MovesRight
  <1>4. CASE LookAtTask(h)
    <2>1. Parked(log)
      BY <1>4, TaskFacts DEF LookAtTask, Settled
    <2>2. human'[h] = [NoHuman EXCEPT !.pc = "looked", !.attempts = task.attempts, !.mode = task.mode]
      BY <1>1, <1>4 DEF LookAtTask
    <2>3. human'[h].pc = "looked" /\ log' = log
      BY <1>4, <2>2 DEF LookAtTask, NoHuman, ledger
    <2>4. RulingInv'
      BY <1>1, <2>1, <2>3 DEF RulingInv
    <2> QED
      BY <1>3, <1>4, <2>4 DEF LookAtTask
  <1>5. CASE FindQuestion(h)
    <2>1. Parked(log) /\ log' = log
      BY <1>2, <1>5 DEF FindQuestion, ledger
    <2>2. CASE human' = [human EXCEPT ![h] = NoHuman]
      <3>1. human'[h].pc = "idle"
        BY <1>1, <2>2 DEF NoHuman
      <3>2. RulingInv'
        BY <1>1, <3>1 DEF RulingInv
      <3> QED
        BY <1>3, <1>5, <3>2 DEF FindQuestion
    <2>3. CASE OpenQuestions # {}
               /\ human' = [human EXCEPT ![h].pc = "found", ![h].gate = LastAsked(OpenQuestions)]
      <3> DEFINE q == LastAsked(OpenQuestions)
      <3>1. OpenQuestions \in SUBSET Questions
        BY DEF OpenQuestions
      <3>2. q \in OpenQuestions
        BY <2>3, <3>1, LastAskedIsAsked, TaskFacts
      <3>3. Asked(log, q) /\ ~Cleared(log, q)
        BY <3>2 DEF OpenQuestions, Questions, Answered, Asked, Cleared
      <3>4. human' = [human EXCEPT ![h].pc = "found", ![h].gate = q]
        BY <2>3
      <3> HIDE DEF q
      <3>5. human'[h] = [human[h] EXCEPT !.pc = "found", !.gate = q]
        BY <1>1, <3>4
      <3>6. human'[h].pc = "found" /\ human'[h].gate = q
        BY <1>1, <3>5 DEF HumanStates
      <3>7. RulingInv'
        BY <1>1, <2>1, <3>3, <3>6 DEF RulingInv
      <3> QED
        BY <1>3, <1>5, <3>7 DEF FindQuestion
    <2> QED
      BY <1>5, <2>2, <2>3 DEF FindQuestion
  <1>6. CASE Rule(h)
    <2>1. PICK t \in {"HUMAN_GATE_CLEARED", "HUMAN_GATE_REJECTED"} :
             Emit(Event(t, human[h].attempts, human[h].gate, 0,
                        GATE_RESUME_PHASES[human[h].gate[1]], human[h].mode))
      BY <1>6 DEF Rule
    <2> DEFINE data == GATE_RESUME_PHASES[human[h].gate[1]]
               e == Event(t, human[h].attempts, human[h].gate, 0, data, human[h].mode)
    <2>2. data \in {"PLANNING", "EXECUTING"}
      <3>1. human[h].gate[1] \in Turns
        BY <1>1, <1>6 DEF Rule, HumanInv
      <3> QED
        BY <3>1 DEF GATE_RESUME_PHASES, Turns
    <2>3. data \in DATA /\ data \in PHASES /\ t \in EVENT_TYPES
      BY <2>2, Vocabulary, PhasesOfEvents
    <2> HIDE DEF data
    <2>4. Proper(log, e)
      BY <1>1, <2>3, PlainProper
    <2>5. e.type = t /\ e.disc = human[h].gate /\ e.data = data
      BY DEF Event
    <2>6. Emit(e)
      BY <2>1 DEF data
    <2> HIDE DEF e
    <2>7. Parked(log) /\ Asked(log, e.disc) /\ ~Cleared(log, e.disc)
      BY <1>2, <1>6, <2>5 DEF Rule, TaskInv, RulingInv
    <2>8. May(log, task, e)
      BY <2>2, <2>5, <2>7 DEF May, Quiet, StepTypes
    <2>9. TurnInv(log', task', closed') /\ MovesRight
      BY <2>4, <2>6, <2>8, TaskFacts, TurnKeeps
    <2>10. run' = run /\ run[Daemon].pc # "project"
           /\ queued' = queued /\ batch' = batch /\ server' = server /\ sub' = sub /\ corr' = corr
      BY <1>6, TaskFacts DEF Rule, Alone, queue, boot
    <2>11. WorkInv(log', task', run'[Daemon])
      BY <2>4, <2>5, <2>6, <2>7, <2>10, NewsKeepsWork DEF Telling
    <2>12. SweepInv'
      <3>1. log' # <<>>
        BY <2>4, <2>6, TaskFacts, EmitIsThere
      <3>2. server \notin {"mark", "abandon"} /\ sub.pc \notin {"new", "requested"}
        <4>1. task.phase = "AWAITING_HUMAN" /\ ~Live(log)
          BY <2>7, TaskFacts DEF Settled, Live, Parked
        <4> QED
          BY <4>1 DEF TaskInv, SweepInv, IsTerminal, TERMINAL_PHASES
      <3> QED
        BY <2>10, <3>1, <3>2 DEF TaskInv, SweepInv
    <2>13. RulingInv'
      <3>1. human' = [human EXCEPT ![h] = NoHuman]
        BY <1>6 DEF Rule
      <3>2. human'[h].pc = "idle"
        BY <1>1, <3>1 DEF NoHuman
      <3> QED
        BY <1>1, <3>2 DEF RulingInv
    <2> QED
      BY <2>9, <2>11, <2>12, <2>13 DEF Turned
  <1> QED
    BY <1>4, <1>5, <1>6

LEMMA CorrectorTurned ==
    ASSUME TaskInv, Alone, NEW c \in Correctors, ReadForCorrection(c) \/ RecordCorrection(c)
    PROVE  Turned
  <1> DEFINE States == [pc : {"idle", "read", "done"}, n : Nat, mode : DOMAIN LADDER]
  <1>1. corr \in [Correctors -> States] /\ corr[c].n \in Nat /\ corr[c].mode \in DOMAIN LADDER
    BY DEF TaskInv, OrchInv, RestTyped
  <1>2. CASE ReadForCorrection(c)
    <2>1. /\ log # <<>> /\ UNCHANGED <<ledger, queue, boot, run, sub, human, faults>>
      BY <1>2 DEF ReadForCorrection
    <2>2. log' = log /\ task' = task /\ closed' = closed /\ run' = run
      BY <2>1 DEF ledger
    <2>3. SweepInv'
      BY <2>1, <2>2 DEF queue, boot, TaskInv, SweepInv
    <2> QED
      BY <2>1, <2>2, <2>3 DEF Turned, TaskInv, MovesRight, RulingInv
  <1>3. CASE RecordCorrection(c)
    <2> DEFINE e == Event("USER_CORRECTION", corr[c].n, NoDisc, 0, "", corr[c].mode)
    <2>1. Proper(log, e)
      BY <1>1, BareProper, Vocabulary DEF BareTypes
    <2>2. e.type = "USER_CORRECTION" /\ Emit(e)
      BY <1>3 DEF RecordCorrection, Event
    <2> HIDE DEF e
    <2>3. May(log, task, e)
      BY <2>2 DEF May, Quiet, StepTypes
    <2>4. TurnInv(log', task', closed') /\ MovesRight
      BY <2>1, <2>2, <2>3, TaskFacts, TurnKeeps
    <2>5. /\ corr[c].pc = "read" /\ corr' = [corr EXCEPT ![c].pc = "done"]
          /\ run' = run /\ queued' = queued /\ batch' = batch /\ server' = server
          /\ sub' = sub /\ human' = human
      BY <1>3 DEF RecordCorrection, queue, boot
    <2>6. WorkInv(log', task', run'[Daemon])
      BY <2>1, <2>2, <2>5, NewsKeepsWork DEF Telling
    <2>7. /\ task'.phase = task.phase /\ log' # <<>> /\ log # <<>>
          /\ Live(log) => Live(log')
          /\ Parked(log) => Parked(log')
          /\ \A q : (Asked(log, q) => Asked(log', q)) /\ (Cleared(log', q) => Cleared(log, q))
      <3>1. task'.phase = task.phase
        BY <2>1, <2>2, TaskFacts, EmitLeaves
      <3>2. log' # <<>> /\ log # <<>>
        BY <2>1, <2>2, <2>5, TaskFacts, EmitIsThere DEF TaskInv, SweepInv
      <3>3. /\ Live(log) => Live(log')
            /\ Waiting(log') <=> Waiting(log)
            /\ Has(log', "HUMAN_GATE_REJECTED") => Has(log, "HUMAN_GATE_REJECTED")
            /\ \A q : (Asked(log, q) => Asked(log', q)) /\ (Cleared(log', q) => Cleared(log, q))
        BY <2>1, <2>2, TaskFacts, EmitSays DEF TERMINAL_EVENTS
      <3> QED
        BY <3>1, <3>2, <3>3 DEF Parked
    <2>8. SweepInv'
      BY <2>5, <2>7 DEF TaskInv, SweepInv, IsTerminal
    <2>9. RulingInv'
      BY <2>5, <2>7 DEF TaskInv, RulingInv
    <2> QED
      BY <2>4, <2>6, <2>8, <2>9 DEF Turned
  <1> QED
    BY <1>2, <1>3

LEMMA ServerTurned ==
    ASSUME TaskInv, Alone, Boot \/ Sweep
    PROVE  Turned
  <1>1. /\ server # "serving" /\ run[Daemon].pc = "idle" /\ batch = 0
        /\ sub.pc \notin {"requested", "enqueue"}
        /\ sub.pc = "new" => server \in {"down", "scan"} /\ log = <<>>
    BY DEF Boot, Sweep, SweepScan, SweepDecide, MarkHeadTerminal, Abandon, Requeue, CheckLatest,
           RecordSweep, TaskInv, SweepInv, OrchInv, RestTyped
  <1>2. ASSUME UNCHANGED <<ledger, batch, run, sub, people>>,
               sub.pc = "new" => queued' = queued,
               server' = "mark" => IsTerminal(task),
               server' = "abandon" => ~IsTerminal(task) /\ task.phase # "AWAITING_HUMAN",
               server' \notin {"down", "scan", "serving"} => log # <<>>
        PROVE  Turned
    <2>1. SweepInv'
      BY <1>1, <1>2 DEF ledger, people, TaskInv, SweepInv
    <2> QED
      BY <1>2, <2>1, RestTurned DEF people
  <1>3. ASSUME NEW e, Proper(log, e), Emit(e), May(log, task, e),
               e.type \in {"TASK_ABANDONED", "RECOVERY_REPLAY_COMPLETED"},
               server \notin {"down", "scan", "serving"}, server' = "serving",
               UNCHANGED <<queue, swept, requeues, run, sub, people, faults>>,
               \A h \in Humans : human[h].pc # "idle" => e.type = "RECOVERY_REPLAY_COMPLETED"
        PROVE  Turned
    <2>1. TurnInv(log', task', closed') /\ MovesRight
      BY <1>3, TaskFacts, TurnKeeps
    <2>2. run' = run /\ queued' = queued /\ batch' = batch /\ sub' = sub /\ human' = human /\ corr' = corr
      BY <1>3 DEF queue, people
    <2>3. WorkInv(log', task', run'[Daemon])
      BY <1>1, <2>2, RestingRun
    <2>4. log' # <<>>
      BY <1>3, TaskFacts, EmitIsThere
    <2>5. sub.pc \notin {"new", "requested"}
      BY <1>1, <1>3
    <2>6. SweepInv'
      BY <1>1, <1>3, <2>2, <2>4, <2>5 DEF SweepInv
    <2>7. RulingInv'
      <3>1. CASE \A h \in Humans : human[h].pc = "idle"
        BY <2>2, <3>1 DEF RulingInv
      <3>2. CASE e.type = "RECOVERY_REPLAY_COMPLETED"
        <4>1. /\ Waiting(log') <=> Waiting(log)
              /\ Has(log', "HUMAN_GATE_REJECTED") => Has(log, "HUMAN_GATE_REJECTED")
              /\ \A q : (Asked(log, q) => Asked(log', q)) /\ (Cleared(log', q) => Cleared(log, q))
          BY <1>3, <3>2, TaskFacts, EmitSays
        <4> QED
          BY <2>2, <4>1 DEF TaskInv, RulingInv, Parked
      <3> QED
        BY <1>3, <3>1, <3>2
    <2> QED
      BY <2>1, <2>3, <2>6, <2>7 DEF Turned
  <1>4. CASE Boot
    BY <1>2, <1>4 DEF Boot, queue
  <1>5. CASE SweepScan
    <2>1. server' \in {"serving", "recover"} /\ (server' = "recover" => log # <<>>)
      BY <1>5 DEF SweepScan
    <2> QED
      BY <1>2, <1>5, <2>1 DEF SweepScan, queue
  <1>6. CASE SweepDecide
    <2>1. /\ server' \in {"mark", "serving", "abandon", "requeue"}
          /\ server' = "mark" => IsTerminal(task)
          /\ server' = "abandon" => ~IsTerminal(task) /\ task.phase # "AWAITING_HUMAN"
      BY <1>6 DEF SweepDecide, Decision
    <2>2. log # <<>>
      BY <1>6 DEF SweepDecide, TaskInv, SweepInv
    <2> QED
      BY <1>2, <1>6, <2>1, <2>2 DEF SweepDecide, queue
  <1>7. CASE MarkHeadTerminal
    <2>1. /\ server = "mark" /\ server' = "serving"
          /\ UNCHANGED <<log, task, queue, run, sub, people>>
      BY <1>7 DEF MarkHeadTerminal
    <2>2. Ended(log)
      BY <2>1, TaskFacts DEF TaskInv, SweepInv, Settled
    <2>3. TurnInv(log', task', closed') /\ MovesRight
      BY <2>1, <2>2, TaskFacts DEF TurnInv, MovesRight
    <2>4. WorkInv(log', task', run'[Daemon])
      BY <2>1, TaskFacts
    <2>5. SweepInv'
      BY <1>1, <2>1 DEF queue, people, TaskInv, SweepInv
    <2>6. RulingInv'
      BY <2>1 DEF people, TaskInv, RulingInv
    <2> QED
      BY <2>3, <2>4, <2>5, <2>6 DEF Turned
  <1>8. CASE Abandon
    <2> DEFINE e == SweepEvent("TASK_ABANDONED", "recovery")
    <2>1. Proper(log, e) /\ e.type = "TASK_ABANDONED"
      BY SweepEventProper, TaskFacts DEF SweepEvent, Event
    <2>2. server = "abandon" /\ ~IsTerminal(task) /\ task.phase # "AWAITING_HUMAN" /\ Emit(e)
      BY <1>8 DEF Abandon, TaskInv, SweepInv
    <2> HIDE DEF e
    <2>3. May(log, task, e)
      BY <2>1, <2>2 DEF May, Quiet, StepTypes
    <2>4. \A h \in Humans : human[h].pc = "idle"
      BY <2>2, NoRuling, TaskFacts DEF Settled
    <2> QED
      BY <1>3, <1>8, <2>1, <2>2, <2>3, <2>4 DEF Abandon
  <1>9. CASE Requeue
    <2>1. log # <<>> /\ sub.pc # "new"
      BY <1>1, <1>9 DEF Requeue, TaskInv, SweepInv
    <2> QED
      BY <1>2, <1>9, <2>1 DEF Requeue
  <1>10. CASE CheckLatest
    <2>1. log # <<>> /\ server' \in {"serving", "note"}
      BY <1>10 DEF CheckLatest, TaskInv, SweepInv
    <2> QED
      BY <1>2, <1>10, <2>1 DEF CheckLatest, queue
  <1>11. CASE RecordSweep
    <2> DEFINE e == SweepEvent("RECOVERY_REPLAY_COMPLETED", "sweep")
    <2>1. Proper(log, e) /\ e.type = "RECOVERY_REPLAY_COMPLETED"
      BY SweepEventProper, TaskFacts DEF SweepEvent, Event
    <2>2. server = "note" /\ Emit(e)
      BY <1>11 DEF RecordSweep
    <2> HIDE DEF e
    <2>3. May(log, task, e)
      BY <2>1 DEF May, Quiet, StepTypes
    <2> QED
      BY <1>3, <1>11, <2>1, <2>2, <2>3 DEF RecordSweep
  <1> QED
    BY <1>4, <1>5, <1>6, <1>7, <1>8, <1>9, <1>10, <1>11 DEF Sweep-----------------------------------------------------------------------------
(* The invariant holds, and what it shows                                  *)

LEMMA TaskInitially == Init => TaskInv
  <1> SUFFICES ASSUME Init PROVE TaskInv
    OBVIOUS
  <1>1. /\ log = <<>> /\ DOMAIN log = {} /\ task = EmptyProjection /\ closed = FALSE
        /\ queued = 0 /\ batch = 0 /\ server = "serving" /\ sub.pc = "new"
    BY DEF Init
  <1>2. run[Daemon].pc = "idle"
    BY DEF Init, NoRun, Runners
  <1>3. (\A type : ~Has(log, type)) /\ (\A q : ~Asked(log, q) /\ ~Cleared(log, q)) /\ (\A i : ~Done(log, i))
    BY <1>1 DEF Has, Asked, Cleared, Done
  <1>4. ~Ended(log) /\ ~Waiting(log) /\ ~Parked(log)
    BY <1>3 DEF Ended, Waiting, Parked
  <1>5. Settled(log, task)
    <2>1. task.phase # "AWAITING_HUMAN" /\ ~IsTerminal(task) /\ task.policy = "none"
      BY <1>1 DEF EmptyProjection, IsTerminal, TERMINAL_PHASES
    <2> QED
      BY <1>3, <1>4, <2>1 DEF Settled
  <1>6. TurnInv(log, task, closed)
    BY <1>1, <1>5 DEF TurnInv
  <1>7. SweepInv
    BY <1>1, <1>2, <1>4 DEF Init, SweepInv, Live
  <1>8. RulingInv
    BY DEF Init, RulingInv, NoHuman
  <1> QED
    BY <1>2, <1>6, <1>7, <1>8, OrchInitially, RestingRun DEF TaskInv

LEMMA TaskTurns ==
    ASSUME Alone, TaskInv, [Next]_vars
    PROVE  TaskInv' /\ (MovesRight \/ UNCHANGED vars)
  <1>1. OrchInv'
    BY OrchSteps DEF TaskInv
  <1>2. \A r \in Runners : r = Daemon
    BY TaskFacts
  <1>3. CASE Submit \/ Claim \/ RunMessage \/ Crash
    BY <1>1, <1>3, SubmitTurned, ClaimTurned, CrashTurned DEF TaskInv, Turned
  <1>4. CASE \E r \in Runners : RunStep(r) \/ Abort(r)
    <2>1. Pipeline(Daemon) \/ Finish(Daemon) \/ Abort(Daemon)
      BY <1>2, <1>4 DEF RunStep
    <2> QED
      BY <1>1, <2>1, RunStepTurned, RunEndsTurned DEF TaskInv, Turned
  <1>5. CASE People
    BY <1>1, <1>5, HumanTurned, CorrectorTurned DEF People, TaskInv, Turned
  <1>6. CASE Boot \/ Sweep
    BY <1>1, <1>6, ServerTurned DEF TaskInv, Turned
  <1>7. CASE UNCHANGED vars
    <2>1. /\ log' = log /\ task' = task /\ closed' = closed /\ run' = run /\ sub' = sub
          /\ UNCHANGED <<queued, batch, server, human, corr>>
      BY <1>7 DEF vars, ledger, queue, boot, people
    <2>2. TurnInv(log', task', closed') /\ WorkInv(log', task', run'[Daemon])
      BY <2>1 DEF TaskInv
    <2>3. SweepInv' /\ RulingInv'
      BY <2>1 DEF TaskInv, SweepInv, RulingInv
    <2> QED
      BY <1>1, <1>7, <2>2, <2>3 DEF TaskInv
  <1>8. ~ \E r \in Inline : StartInline(r)
    BY DEF Alone
  <1> QED
    BY <1>3, <1>4, <1>5, <1>6, <1>7, <1>8 DEF Next

LEMMA TaskAlways == ASSUME Alone PROVE Spec => []TaskInv
  <1>1. TaskInv /\ [Next]_vars => TaskInv'
    BY TaskTurns
  <1> QED
    BY <1>1, TaskInitially, PTL DEF Spec

\* A task's commit stands on a recorded policy clearance, on the release of
\* every question asked before it and on the whole plan done, wherever the run
\* crashed and was redelivered, swept or corrected on the way.
THEOREM CommitIsAlwaysEarned == ASSUME Alone PROVE Spec => []CommitIsEarned
  BY TaskAlways, TaskInvProperties, PTL
\* The task is parked exactly while one question, and only one, is without an
\* answer: a gate is never lost to a resumed run, a boot sweep or a correction.
THEOREM AlwaysParkedOnOneQuestion == ASSUME Alone PROVE Spec => []ParkedOnOneQuestion
  BY TaskAlways, TaskInvProperties, PTL

\* The head says "terminal" only of a task that has ended: the boot sweep, which
\* reads open heads only, overlooks no unfinished task.
THEOREM UnfinishedIsNeverHidden == ASSUME Alone PROVE Spec => []UnfinishedNeverHidden
  BY TaskAlways, TaskInvProperties, PTL

\* A step whose completion is recorded is neither started, completed nor
\* rejected again by a run that resumes after a crash.
THEOREM CompletedStepsAlwaysStayDone == ASSUME Alone PROVE Spec => []CompletedStepsStayDone
  BY TaskAlways, TaskInvProperties, PTL

\* Only a human's ruling moves a parked task, and nothing moves an ended one: no
\* run, redelivery, sweep, crash or correction does.
THEOREM RestingStatesAlwaysHold == ASSUME Alone PROVE Spec => RestingStatesHold
  <1>1. TaskInv /\ [Next]_vars =>
          [/\ task.phase = "AWAITING_HUMAN" /\ task'.phase # "AWAITING_HUMAN" =>
                Last(log').type \in {"HUMAN_GATE_CLEARED", "HUMAN_GATE_REJECTED"}
           /\ IsTerminal(task) => task'.phase = task.phase]_vars
    BY TaskTurns DEF MovesRight
  <1>2. TaskInv /\ [Next]_vars =>
          [task.phase = "AWAITING_HUMAN" /\ task'.phase # "AWAITING_HUMAN" =>
             Last(log').type \in {"HUMAN_GATE_CLEARED", "HUMAN_GATE_REJECTED"}]_vars
    BY <1>1
  <1>3. TaskInv /\ [Next]_vars => [IsTerminal(task) => task'.phase = task.phase]_vars
    BY <1>1
  <1> QED
    BY <1>2, <1>3, TaskAlways, PTL DEF Spec, RestingStatesHold, OnlyHumansReleaseGates, TerminalIsFinal
=============================================================================
