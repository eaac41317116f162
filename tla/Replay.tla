------------------------------- MODULE Replay -------------------------------
(***************************************************************************)
(* The projection of one task lineage (src/paa/ledger/replay.py): the      *)
(* current state of a task is the fold of apply_event over its events.     *)
(* Events carry what the fold and the orchestrator read of them:           *)
(*   type, attempt, disc   the parts of the idempotency key                *)
(*   num                   plan length, step index                         *)
(*   data                  verdict, policy decision, phase to resume in    *)
(*   mode                  execution_mode, the modality it ran under       *)
(***************************************************************************)
EXTENDS Naturals, Sequences, SequencesExt

(* Mutant: a gate counts as an end.                                        *)
TERMINAL_EVENTS_WithGate ==
    {"MUTATION_COMMITTED", "EXECUTION_FAILED", "POLICY_BLOCKED", "SECURITY_VIOLATION",
     "HUMAN_GATE_REJECTED", "TASK_ABANDONED", "AWAITING_HUMAN_ATTESTATION"}

TERMINAL_EVENTS ==
    {"MUTATION_COMMITTED", "EXECUTION_FAILED", "POLICY_BLOCKED",
     "SECURITY_VIOLATION", "HUMAN_GATE_REJECTED", "TASK_ABANDONED"}

TERMINAL_PHASES == {"COMMITTED", "FAILED", "BLOCKED", "ABANDONED"}

PHASE_MAP ==
    [TASK_REQUESTED |-> "CREATED",
     TASK_QUEUED |-> "QUEUED",
     CONTEXT_HYDRATION_REQUESTED |-> "HYDRATING",
     CONTEXT_HYDRATED |-> "PLANNING",
     PLAN_COMPILED |-> "POLICY_REVIEW",
     POLICY_CLEARED |-> "EXECUTING",
     EXECUTION_STARTED |-> "EXECUTING",
     CRITIQUE_CONCLUDED |-> "VALIDATING",
     EXECUTION_COMPLETED |-> "VALIDATING",
     MUTATION_COMMITTED |-> "COMMITTED",
     EXECUTION_FAILED |-> "FAILED",
     POLICY_BLOCKED |-> "BLOCKED",
     SECURITY_VIOLATION |-> "BLOCKED",
     HUMAN_GATE_REJECTED |-> "BLOCKED",
     TASK_ABANDONED |-> "ABANDONED",
     AWAITING_HUMAN_ATTESTATION |-> "AWAITING_HUMAN",
     STATE_ROLLBACK_TRIGGERED |-> "ROLLED_BACK",
     \* VALIDATION_FAILED is not in the source's map; the fold's case sets it.
     VALIDATION_FAILED |-> "EXECUTING"]

(* HUMAN_GATE_CLEARED, USER_CORRECTION and RECOVERY_REPLAY_COMPLETED are   *)
(* the events of _NO_PHASE_CHANGE that a lineage of the orchestrator holds.*)
EVENT_TYPES ==
    DOMAIN PHASE_MAP
        \cup {"HUMAN_GATE_CLEARED", "USER_CORRECTION", "RECOVERY_REPLAY_COMPLETED"}

PHASES == {PHASE_MAP[t] : t \in DOMAIN PHASE_MAP}

EmptyProjection ==
    [phase |-> "CREATED", mode |-> "STANDARD", version |-> 0, packet |-> FALSE,
     plan |-> 0, current |-> 0, completed |-> {}, policy |-> "none",
     verdict |-> "none", attempts |-> 0, rollbacks |-> 0, corrections |-> 0]

CompletedAfter(s, e) ==
    CASE e.type = "PLAN_COMPILED" -> {}
      [] e.type = "EXECUTION_COMPLETED" -> s.completed \cup {e.num}
      [] e.type = "STATE_ROLLBACK_TRIGGERED" -> {i \in s.completed : i < e.num}
      [] OTHER -> s.completed

(* A completed step leaves the task executing until every step is done.    *)
PhaseAfter(s, e) ==
    CASE e.type = "EXECUTION_COMPLETED" /\ Cardinality(CompletedAfter(s, e)) < s.plan
              -> "EXECUTING"
      [] e.type = "HUMAN_GATE_CLEARED" -> e.data
      [] e.type \in EVENT_TYPES \ DOMAIN PHASE_MAP /\ e.type # "HUMAN_GATE_CLEARED"
              -> s.phase
      [] OTHER -> PHASE_MAP[e.type]

CurrentAfter(s, e) ==
    CASE e.type = "PLAN_COMPILED" -> 0
      [] e.type \in {"EXECUTION_STARTED", "STATE_ROLLBACK_TRIGGERED"} -> e.num
      [] e.type = "EXECUTION_COMPLETED" -> e.num + 1
      [] OTHER -> s.current

Counted(n, e, type) == IF e.type = type THEN n + 1 ELSE n

apply_event(s, e) ==
    [s EXCEPT
        !.phase = PhaseAfter(s, e),
        !.mode = e.mode,
        !.version = @ + 1,
        !.packet = @ \/ e.type = "CONTEXT_HYDRATED",
        !.plan = IF e.type = "PLAN_COMPILED" THEN e.num ELSE @,
        !.current = CurrentAfter(s, e),
        !.completed = CompletedAfter(s, e),
        !.policy = IF e.type \in {"POLICY_CLEARED", "POLICY_BLOCKED", "SECURITY_VIOLATION"}
                     THEN e.data ELSE @,
        !.verdict = IF e.type \in {"CRITIQUE_CONCLUDED", "VALIDATION_FAILED"}
                      THEN e.data ELSE @,
        !.attempts = Counted(@, e, "EXECUTION_STARTED"),
        !.rollbacks = Counted(@, e, "STATE_ROLLBACK_TRIGGERED"),
        !.corrections = Counted(@, e, "USER_CORRECTION")]

IsTerminal(s) == s.phase \in TERMINAL_PHASES

EventKey(e) == <<e.type, e.attempt, e.disc>>

(* LedgerStore.append on one lineage, atomic as LedgerStore.tla shows.     *)
IsRecorded(events, e) == \E i \in DOMAIN events : EventKey(events[i]) = EventKey(e)

Appended(events, e) == IF IsRecorded(events, e) THEN events ELSE Append(events, e)
=============================================================================
