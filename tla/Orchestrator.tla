---------------------------- MODULE Orchestrator ----------------------------
(***************************************************************************)
(* The life of one task: submission, the daemon that claims and runs it,   *)
(* a CLI process that may run it too, humans who rule on its gates, user   *)
(* corrections, crashes, and the boot sweep of the recovery engine.        *)
(* src/paa/agents/orchestrator.py, src/paa/ledger/recovery.py,             *)
(* src/paa/daemon.py.                                                      *)
(*                                                                         *)
(* Each ledger call is an await, so each is a step of its own: a run holds *)
(* the projection it last read (st), which may be older than the ledger.   *)
(* The agents (context builder, planner, policy, worker, critic) are the   *)
(* environment: any answer the code distinguishes may come back.           *)
(***************************************************************************)
EXTENDS Replay, FiniteSets

CONSTANTS Inline,         \* CLI processes that run the task; {}: an API client
          Humans,         \* callers of clear_human_gate
          Correctors,     \* callers of record_correction, one correction each
          Modes,          \* modalities a request may carry
          MaxRetries,     \* max_step_retries
          MaxAttempts,    \* RecoveryEngine max_attempts
          ClaimBatch,     \* Daemon claim_batch
          PlanLengths,    \* step counts the planner may return
          MaxPlanNodes,   \* MODALITY_PROFILES[mode].max_plan_nodes()
          Setbacks,       \* the answers agents may give other than success
          EnqueueMayFail, \* whether the recovery engine's enqueue may raise
          InstantRulings, \* FALSE: a ruling never lands between the ledger call
                          \* that asks and the asking run's next read
          MaxFaults       \* bound: crashes and unexpected exceptions

Daemon == "daemon"
Runners == {Daemon} \cup Inline
NoDisc == <<"", 0>>
LADDER == [MAX |-> "COMPLEX", COMPLEX |-> "STANDARD", STANDARD |-> "SIMPLE",
           SIMPLE |-> "SIMPLE"]

AllSetbacks == {"builder fails", "builder escalates", "planner fails", "policy blocks",
                "policy gates", "worker fails", "critic rejects"}

\* Modality ceilings for small instances: scaled down to plans of two steps, so
\* that a three-step plan is refused.
PlanCeilings == [SIMPLE |-> 1, STANDARD |-> 2, COMPLEX |-> 2, MAX |-> 2]

ASSUME OrchestratorAssumption ==
    /\ Setbacks \subseteq AllSetbacks
    /\ Daemon \notin Inline
    /\ Modes \subseteq DOMAIN LADDER
    /\ MaxRetries \in Nat /\ MaxAttempts \in Nat /\ MaxFaults \in Nat
    /\ ClaimBatch \in Nat \ {0}
    /\ PlanLengths \subseteq Nat \ {0}
    /\ MaxPlanNodes \in [DOMAIN LADDER -> Nat]
    /\ EnqueueMayFail \in BOOLEAN /\ InstantRulings \in BOOLEAN

VARIABLES log,     \* the task's events, oldest first
          task,    \* what project() returns: the fold of log
          closed,  \* is_terminal in the lineage's head row
          queued,  \* ready messages for the task on orchestrator:core
          batch,   \* messages the daemon has claimed and not yet run
          server,  \* the paa serve process: down, in its boot sweep, serving
          swept,   \* state_version of the projection the sweep works from
          run,     \* runner -> its progress through ChiefOrchestrator.run
          sub,     \* progress of the one submission
          human,   \* human -> progress through clear_human_gate
          corr,    \* corrector -> progress through record_correction
          faults,  \* crashes and unexpected exceptions so far
          requeues \* history: how often recovery has re-queued the task

ledger == <<log, task, closed>>
queue == <<queued, batch>>
boot == <<server, swept, requeues>>
people == <<human, corr>>
vars == <<ledger, queue, boot, run, sub, people, faults>>

-----------------------------------------------------------------------------
(* _emit and LedgerStore.append: a recorded key is suppressed; a new event *)
(* also rewrites the head's is_terminal.                                   *)
Event(type, attempt, disc, num, data, mode) ==
    [type |-> type, attempt |-> attempt, disc |-> disc, num |-> num,
     data |-> data, mode |-> mode]

Emit(e) ==
    /\ log' = Appended(log, e)
    /\ task' = IF IsRecorded(log, e) THEN task ELSE apply_event(task, e)
    /\ closed' = IF IsRecorded(log, e) THEN closed ELSE e.type \in TERMINAL_EVENTS

StepDisc(i) == <<"step", i>>

(* _gate_history: a question is an AWAITING event, named by its            *)
(* discriminator <<stage, ordinal>>; a CLEARED event naming it answers it. *)
Questions ==
    {log[i].disc : i \in {j \in DOMAIN log : log[j].type = "AWAITING_HUMAN_ATTESTATION"}}
Answered(q) ==
    \E i \in DOMAIN log : log[i].type = "HUMAN_GATE_CLEARED" /\ log[i].disc = q
StageQuestions(role) == {q \in Questions : q[1] = role}
OpenQuestions == {q \in Questions : ~Answered(q)}
AskedAt(q) ==
    CHOOSE i \in DOMAIN log : log[i].type = "AWAITING_HUMAN_ATTESTATION" /\ log[i].disc = q
LastAsked(Q) == CHOOSE q \in Q : \A p \in Q : AskedAt(p) <= AskedAt(q)
GateDiscriminator(role) ==
    <<role, Cardinality({q \in StageQuestions(role) : Answered(q)}) + 1>>
GATE_RESUME_PHASES == [CONTEXT |-> "PLANNING", POLICY |-> "EXECUTING"]

-----------------------------------------------------------------------------
NoRun == [pc |-> "idle", st |-> EmptyProjection, mode |-> "STANDARD", base |-> 0,
          idx |-> 0, att |-> 0, stage |-> "none", gate |-> NoDisc]
NoHuman == [pc |-> "idle", attempts |-> 0, mode |-> "STANDARD", gate |-> NoDisc]

(* The server is up, its first sweep over an empty ledger behind it.       *)
Init ==
    /\ log = <<>>
    /\ task = EmptyProjection
    /\ closed = FALSE
    /\ queued = 0
    /\ batch = 0
    /\ server = "serving"
    /\ swept = 0
    /\ run = [r \in Runners |-> NoRun]
    /\ sub \in [pc : {"new"}, mode : Modes]
    /\ human = [h \in Humans |-> NoHuman]
    /\ corr = [c \in Correctors |-> [pc |-> "idle", n |-> 0, mode |-> "STANDARD"]]
    /\ faults = 0
    /\ requeues = 0

-----------------------------------------------------------------------------
(* submit, through the API (only while serving) or in a CLI process.       *)
CanSubmit == Inline # {} \/ server = "serving"

SubmitRequest ==
    /\ sub.pc = "new" /\ CanSubmit
    /\ Emit(Event("TASK_REQUESTED", 0, NoDisc, 0, "", sub.mode))
    /\ sub' = [sub EXCEPT !.pc = "requested"]
    /\ UNCHANGED <<queue, boot, run, people, faults>>

(* _apply_backpressure reads the depth but degrades whatever it is; if the *)
(* read fails the requested modality is kept.                              *)
SubmitQueued ==
    /\ sub.pc = "requested"
    /\ \E m \in {sub.mode, LADDER[sub.mode]} :
        Emit(Event("TASK_QUEUED", 0, NoDisc, 0, "", m))
    /\ sub' = [sub EXCEPT !.pc = "enqueue"]
    /\ UNCHANGED <<queue, boot, run, people, faults>>

SubmitEnqueue ==
    /\ sub.pc = "enqueue"
    /\ queued' = queued + 1
    /\ sub' = [sub EXCEPT !.pc = "done"]
    /\ UNCHANGED <<ledger, batch, boot, run, people, faults>>

(* paa submit goes on to run the task it has queued; paa run may come      *)
(* at any later time.                                                      *)
StartInline(r) ==
    /\ sub.pc = "done" /\ run[r].pc = "idle"
    /\ run' = [run EXCEPT ![r].pc = "begin"]
    /\ UNCHANGED <<ledger, queue, boot, sub, people, faults>>

Submit == SubmitRequest \/ SubmitQueued \/ SubmitEnqueue

-----------------------------------------------------------------------------
(* Daemon._claim_and_run: claim a batch, then run each message in turn.    *)
(* Messages of other tasks may take up part of the batch.                  *)
Claim ==
    /\ server = "serving" /\ batch = 0 /\ run[Daemon].pc = "idle"
    /\ \E k \in 1 .. ClaimBatch :
        /\ k <= queued
        /\ queued' = queued - k
        /\ batch' = k
    /\ UNCHANGED <<ledger, boot, run, sub, people, faults>>

RunMessage ==
    /\ batch > 0 /\ run[Daemon].pc = "idle"
    /\ batch' = batch - 1
    /\ run' = [run EXCEPT ![Daemon].pc = "begin"]
    /\ UNCHANGED <<ledger, queued, boot, sub, people, faults>>

(* run() ended, whatever the outcome: the daemon acks, the CLI exits.      *)
Finish(r) ==
    /\ run[r].pc = "finish"
    /\ run' = [run EXCEPT ![r] = [NoRun EXCEPT !.pc = IF r = Daemon THEN "idle" ELSE "done"]]
    /\ UNCHANGED <<ledger, queue, boot, sub, people, faults>>

-----------------------------------------------------------------------------
(* Mutant: run goes on after hydration without looking for a gate.         *)
After_IgnoresGate(stage, s) ==
    CASE stage = "hydrate" -> "plan"
      [] stage = "plan" -> "policy"
      [] stage = "policy" ->
            IF s.phase \in {"BLOCKED", "AWAITING_HUMAN"} THEN "finish" ELSE "execute"
      [] stage = "step" -> "execute"
      [] OTHER -> "finish"

(* ChiefOrchestrator.run.  Where a stage's return leaves the pipeline.     *)
After(stage, s) ==
    CASE stage = "hydrate" -> IF s.phase = "AWAITING_HUMAN" THEN "finish" ELSE "plan"
      [] stage = "plan" -> "policy"
      [] stage = "policy" ->
            IF s.phase \in {"BLOCKED", "AWAITING_HUMAN"} THEN "finish" ELSE "execute"
      [] stage = "step" -> "execute"
      [] OTHER -> "finish"

At(r, pc) == run[r].pc = pc

Goto(r, pc) == run' = [run EXCEPT ![r].pc = pc]

(* A stage that returns the state it was given.                            *)
Skip(r, stage) ==
    /\ Goto(r, After(stage, run[r].st))
    /\ UNCHANGED ledger

(* Emit, then go on to re-read the projection.                             *)
EmitAndProject(r, e, stage) ==
    /\ Emit(e)
    /\ run' = [run EXCEPT ![r].pc = "project", ![r].stage = stage]

Raise(r) == Goto(r, "fail") /\ UNCHANGED ledger

(* Mutant: run does not return early for a finished task.                  *)
Begin_NoTerminalCheck(r) ==
    /\ At(r, "begin")
    /\ run' = [run EXCEPT ![r].pc = "hydrate", ![r].st = task, ![r].mode = task.mode,
                          ![r].base = task.attempts]
    /\ UNCHANGED ledger

Begin(r) ==
    /\ At(r, "begin")
    /\ run' = [run EXCEPT ![r].pc = IF IsTerminal(task) THEN "finish" ELSE "hydrate",
                          ![r].st = task, ![r].mode = task.mode,
                          ![r].base = task.attempts]
    /\ UNCHANGED ledger

(* base is the attempt number run() would put on EXECUTION_FAILED: its own *)
(* state, which the step loop does not update.                             *)
Reproject(r) ==
    /\ At(r, "project")
    /\ run' = [run EXCEPT ![r].pc = After(run[r].stage, task), ![r].st = task,
                          ![r].base = IF run[r].stage = "step" THEN @ ELSE task.attempts]
    /\ UNCHANGED ledger

(* Mutant: _hydrate does not look at the gate history.                     *)
Hydrate_AsksAgain(r) ==
    /\ At(r, "hydrate")
    /\ IF run[r].st.packet THEN Skip(r, "hydrate")
       ELSE /\ Emit(Event("CONTEXT_HYDRATION_REQUESTED", 0, NoDisc, 0, "", run[r].mode))
            /\ Goto(r, "build")

(* _hydrate.  An answered question and an open one both return the state   *)
(* the run holds; only a lineage with no question asks the builder.        *)
Hydrate(r) ==
    /\ At(r, "hydrate")
    /\ \/ /\ run[r].st.packet \/ StageQuestions("CONTEXT") # {}
          /\ Skip(r, "hydrate")
       \/ /\ ~run[r].st.packet /\ StageQuestions("CONTEXT") = {}
          /\ Emit(Event("CONTEXT_HYDRATION_REQUESTED", 0, NoDisc, 0, "", run[r].mode))
          /\ Goto(r, "build")

BuildContext(r) ==
    /\ At(r, "build")
    /\ \/ "builder fails" \in Setbacks /\ Raise(r)
       \/ /\ "builder escalates" \in Setbacks
          /\ run' = [run EXCEPT ![r].pc = "ask", ![r].stage = "hydrate"]
          /\ UNCHANGED ledger
       \/ EmitAndProject(r, Event("CONTEXT_HYDRATED", 0, NoDisc, 0, "", run[r].mode), "hydrate")

(* _open_gate: number the question, then ask it.                           *)
AskingRole(stage) == IF stage = "hydrate" THEN "CONTEXT" ELSE "POLICY"

NumberQuestion(r) ==
    /\ At(r, "ask")
    /\ run' = [run EXCEPT ![r].pc = "open",
                          ![r].gate = GateDiscriminator(AskingRole(run[r].stage))]
    /\ UNCHANGED ledger

OpenGate(r) ==
    /\ At(r, "open")
    /\ EmitAndProject(r, Event("AWAITING_HUMAN_ATTESTATION", 0, run[r].gate, 0, "",
                               run[r].mode), run[r].stage)

PlanEvent(r, n) == Event("PLAN_COMPILED", 0, NoDisc, n, "", run[r].mode)

Plan(r) ==
    /\ At(r, "plan")
    /\ \/ run[r].st.plan > 0 /\ Skip(r, "plan")
       \/ /\ run[r].st.plan = 0 /\ run[r].mode = "SIMPLE"
          /\ EmitAndProject(r, PlanEvent(r, 1), "plan")
       \/ /\ run[r].st.plan = 0 /\ run[r].mode # "SIMPLE"
          /\ \/ "planner fails" \in Setbacks /\ Raise(r)
             \/ \E n \in PlanLengths :
                  IF n > MaxPlanNodes[run[r].mode] THEN Raise(r)
                  ELSE EmitAndProject(r, PlanEvent(r, n), "plan")

(* _check_policy.  An open question returns the state the run holds.       *)
CheckPolicy(r) ==
    /\ At(r, "policy")
    /\ \/ run[r].st.policy # "none" /\ Skip(r, "policy")
       \/ /\ run[r].st.policy = "none" /\ StageQuestions("POLICY") # {}
          /\ LET q == LastAsked(StageQuestions("POLICY")) IN
             IF Answered(q)
               THEN /\ run' = [run EXCEPT ![r].pc = "clear", ![r].gate = q]
                    /\ UNCHANGED ledger
               ELSE Skip(r, "policy")
       \/ /\ run[r].st.policy = "none" /\ StageQuestions("POLICY") = {}
          /\ Goto(r, "consult")
          /\ UNCHANGED ledger

(* The human's ruling is recorded as the policy decision.                  *)
RecordRuling(r) ==
    /\ At(r, "clear")
    /\ EmitAndProject(r, Event("POLICY_CLEARED", 0, run[r].gate, 0, "APPROVED",
                               run[r].mode), "policy")

ConsultPolicy(r) ==
    /\ At(r, "consult")
    /\ \/ \E t \in {"POLICY_BLOCKED", "SECURITY_VIOLATION"} :
            /\ "policy blocks" \in Setbacks
            /\ EmitAndProject(r, Event(t, 0, NoDisc, 0, "BLOCKED", run[r].mode), "policy")
       \/ /\ "policy gates" \in Setbacks
          /\ run' = [run EXCEPT ![r].pc = "ask", ![r].stage = "policy"]
          /\ UNCHANGED ledger
       \/ EmitAndProject(r, Event("POLICY_CLEARED", 0, NoDisc, 0, "APPROVED",
                                  run[r].mode), "policy")

(* Mutant: a resumed run starts the plan over.                             *)
Pending_IgnoresDone(r) == run[r].idx .. (run[r].st.plan - 1)

(* _execute_steps: the next step from idx on that st does not show done.   *)
Pending(r) == {i \in run[r].idx .. (run[r].st.plan - 1) : i \notin run[r].st.completed}

(* Mutant: any pending step may be next.                                   *)
NextStep_AnyOrder(r) ==
    /\ At(r, "execute")
    /\ \/ \E i \in Pending(r) :
            run' = [run EXCEPT ![r].pc = "attempt", ![r].idx = i, ![r].att = 0]
       \/ /\ Pending(r) = {}
          /\ Goto(r, IF run[r].st.phase = "AWAITING_HUMAN" THEN "finish" ELSE "commit")
    /\ UNCHANGED ledger

NextStep(r) ==
    /\ At(r, "execute")
    /\ \/ \E i \in Pending(r) :
            /\ \A j \in Pending(r) : i <= j
            /\ run' = [run EXCEPT ![r].pc = "attempt", ![r].idx = i, ![r].att = 0]
       \/ /\ Pending(r) = {}
          /\ Goto(r, IF run[r].st.phase = "AWAITING_HUMAN" THEN "finish" ELSE "commit")
    /\ UNCHANGED ledger

StepEvent(r, type, data) ==
    Event(type, run[r].att, StepDisc(run[r].idx), run[r].idx, data, run[r].mode)

Attempt(r) ==
    /\ At(r, "attempt")
    /\ Emit(StepEvent(r, "EXECUTION_STARTED", ""))
    /\ Goto(r, "work")

(* The worker fails, or it delivers and _critique records a verdict.  The  *)
(* verdict's event carries no attempt number.                              *)
Critique(r, verdict) ==
    Event("CRITIQUE_CONCLUDED", 0, StepDisc(run[r].idx), run[r].idx, verdict, run[r].mode)

Work(r) ==
    /\ At(r, "work")
    /\ \/ "worker fails" \in Setbacks /\ Goto(r, "reject") /\ UNCHANGED ledger
       \/ "critic rejects" \in Setbacks /\ Emit(Critique(r, "FAIL")) /\ Goto(r, "reject")
       \/ Emit(Critique(r, "PASS")) /\ Goto(r, "complete")

Complete(r) ==
    /\ At(r, "complete")
    /\ Emit(StepEvent(r, "EXECUTION_COMPLETED", ""))
    /\ run' = [run EXCEPT ![r].pc = "project", ![r].stage = "step", ![r].idx = @ + 1]

Reject(r) ==
    /\ At(r, "reject")
    /\ Emit(StepEvent(r, "VALIDATION_FAILED", "FAIL"))
    /\ run' = IF run[r].att < MaxRetries
                THEN [run EXCEPT ![r].pc = "attempt", ![r].att = @ + 1]
                ELSE [run EXCEPT ![r].pc = "fail"]

CommitTask(r) ==
    /\ At(r, "commit")
    /\ EmitAndProject(r, Event("MUTATION_COMMITTED", 0, NoDisc, 0, "", run[r].mode), "commit")

(* except PaaError.                                                        *)
FailTask(r) ==
    /\ At(r, "fail")
    /\ EmitAndProject(r, Event("EXECUTION_FAILED", run[r].base, NoDisc, 0, "", run[r].mode),
                      "failed")

Pipeline(r) ==
    /\ \/ Begin(r) \/ Reproject(r)
       \/ Hydrate(r) \/ BuildContext(r) \/ NumberQuestion(r) \/ OpenGate(r)
       \/ Plan(r)
       \/ CheckPolicy(r) \/ RecordRuling(r) \/ ConsultPolicy(r)
       \/ NextStep(r) \/ Attempt(r) \/ Work(r) \/ Complete(r) \/ Reject(r)
       \/ CommitTask(r) \/ FailTask(r)
    /\ UNCHANGED <<queue, boot, sub, people, faults>>

-----------------------------------------------------------------------------
(* clear_human_gate: read the projection, read the questions, record the   *)
(* ruling.  Either read may refuse.                                        *)
LookAtTask(h) ==
    /\ human[h].pc = "idle" /\ task.phase = "AWAITING_HUMAN"
    /\ human' = [human EXCEPT ![h] = [NoHuman EXCEPT !.pc = "looked",
                              !.attempts = task.attempts, !.mode = task.mode]]
    /\ UNCHANGED <<ledger, queue, boot, run, sub, corr, faults>>

FindQuestion(h) ==
    /\ human[h].pc = "looked"
    /\ human' = IF OpenQuestions = {} THEN [human EXCEPT ![h] = NoHuman]
                ELSE [human EXCEPT ![h].pc = "found", ![h].gate = LastAsked(OpenQuestions)]
    /\ UNCHANGED <<ledger, queue, boot, run, sub, corr, faults>>

Rule(h) ==
    /\ human[h].pc = "found"
    /\ InstantRulings \/ \A r \in Runners : run[r].pc # "project"
    /\ \E t \in {"HUMAN_GATE_CLEARED", "HUMAN_GATE_REJECTED"} :
        Emit(Event(t, human[h].attempts, human[h].gate, 0,
                   GATE_RESUME_PHASES[human[h].gate[1]], human[h].mode))
    /\ human' = [human EXCEPT ![h] = NoHuman]
    /\ UNCHANGED <<queue, boot, run, sub, corr, faults>>

(* record_correction, at any time of the task's life.                      *)
ReadForCorrection(c) ==
    /\ corr[c].pc = "idle" /\ log # <<>>
    /\ corr' = [corr EXCEPT ![c] = [pc |-> "read", n |-> task.corrections, mode |-> task.mode]]
    /\ UNCHANGED <<ledger, queue, boot, run, sub, human, faults>>

RecordCorrection(c) ==
    /\ corr[c].pc = "read"
    /\ Emit(Event("USER_CORRECTION", corr[c].n, NoDisc, 0, "", corr[c].mode))
    /\ corr' = [corr EXCEPT ![c].pc = "done"]
    /\ UNCHANGED <<queue, boot, run, sub, human, faults>>

People ==
    \/ \E h \in Humans : LookAtTask(h) \/ FindQuestion(h) \/ Rule(h)
    \/ \E c \in Correctors : ReadForCorrection(c) \/ RecordCorrection(c)

-----------------------------------------------------------------------------
(* Daemon.start: the boot sweep, then the loops.  No workspace snapshotter *)
(* is wired, so _reconcile_workspace finds no drift.                       *)
Boot ==
    /\ server = "down"
    /\ server' = "scan"
    /\ UNCHANGED <<ledger, queue, swept, requeues, run, sub, people, faults>>

(* open_correlations lists the lineage only while its head is open.        *)
SweepScan ==
    /\ server = "scan"
    /\ server' = IF log = <<>> \/ closed THEN "serving" ELSE "recover"
    /\ UNCHANGED <<ledger, queue, swept, requeues, run, sub, people, faults>>

(* recover_correlation: what the sweep decides from the projection.        *)
Decision(s) ==
    CASE IsTerminal(s) -> "mark"
      [] s.phase = "AWAITING_HUMAN" -> "serving"
      [] ~IsTerminal(s) /\ s.phase # "AWAITING_HUMAN" /\ s.attempts >= MaxAttempts -> "abandon"
      [] OTHER -> "requeue"

SweepDecide ==
    /\ server = "recover"
    /\ server' = Decision(task)
    /\ swept' = task.version
    /\ UNCHANGED <<ledger, queue, requeues, run, sub, people, faults>>

MarkHeadTerminal ==
    /\ server = "mark"
    /\ closed' = TRUE
    /\ server' = "serving"
    /\ UNCHANGED <<log, task, queue, swept, requeues, run, sub, people, faults>>

(* The sweep's events carry the default execution_mode.                    *)
SweepEvent(type, tag) == Event(type, 0, <<tag, swept>>, 0, "", "STANDARD")

Abandon ==
    /\ server = "abandon"
    /\ Emit(SweepEvent("TASK_ABANDONED", "recovery"))
    /\ server' = "serving"
    /\ UNCHANGED <<queue, swept, requeues, run, sub, people, faults>>

(* Mutant: the sweep records a resumption it did not publish.              *)
Requeue_Unpublished ==
    /\ server = "requeue"
    /\ server' = "record"
    /\ UNCHANGED <<ledger, queue, swept, requeues, run, sub, people, faults>>

Requeue ==
    /\ server = "requeue"
    /\ \/ queued' = queued + 1 /\ requeues' = requeues + 1
       \/ EnqueueMayFail /\ UNCHANGED <<queued, requeues>>
    /\ server' = "record"
    /\ UNCHANGED <<ledger, batch, swept, run, sub, people, faults>>

(* _record_sweep: silent when the newest event is already a sweep's.       *)
CheckLatest ==
    /\ server = "record"
    /\ server' = IF Last(log).type = "RECOVERY_REPLAY_COMPLETED" THEN "serving" ELSE "note"
    /\ UNCHANGED <<ledger, queue, swept, requeues, run, sub, people, faults>>

RecordSweep ==
    /\ server = "note"
    /\ Emit(SweepEvent("RECOVERY_REPLAY_COMPLETED", "sweep"))
    /\ server' = "serving"
    /\ UNCHANGED <<queue, swept, requeues, run, sub, people, faults>>

Sweep ==
    \/ SweepScan \/ SweepDecide \/ MarkHeadTerminal \/ Abandon
    \/ Requeue \/ CheckLatest \/ RecordSweep

-----------------------------------------------------------------------------
(* The server dies: the daemon's run, its claimed messages (nothing calls  *)
(* reclaim_expired), the sweep and an API submission die with it.          *)
Crash ==
    /\ server # "down" /\ faults < MaxFaults
    /\ server' = "down"
    /\ batch' = 0
    /\ run' = [run EXCEPT ![Daemon] = NoRun]
    /\ sub' = IF Inline = {} /\ sub.pc \in {"requested", "enqueue"}
                THEN [sub EXCEPT !.pc = "dead"] ELSE sub
    /\ faults' = faults + 1
    /\ UNCHANGED <<ledger, queued, swept, requeues, people>>

(* Anything but a PaaError leaves run(): the daemon nacks the message,     *)
(* which becomes ready again; a CLI process ends.                          *)
Abort(r) ==
    /\ run[r].pc \notin {"idle", "done", "finish"} /\ faults < MaxFaults
    /\ run' = [run EXCEPT ![r] = [NoRun EXCEPT !.pc = IF r = Daemon THEN "idle" ELSE "done"]]
    /\ queued' = IF r = Daemon THEN queued + 1 ELSE queued
    /\ faults' = faults + 1
    /\ UNCHANGED <<ledger, batch, boot, sub, people>>

RunStep(r) == Pipeline(r) \/ Finish(r)

Next ==
    \/ Submit \/ Claim \/ RunMessage
    \/ \E r \in Inline : StartInline(r)
    \/ \E r \in Runners : RunStep(r) \/ Abort(r)
    \/ People
    \/ Boot \/ Sweep \/ Crash

(* Processes that run keep running and the operator restarts the server;   *)
(* submitting, ruling and correcting are up to people.                     *)
Fairness ==
    /\ WF_vars(SubmitQueued \/ SubmitEnqueue)
    /\ WF_vars(Claim) /\ WF_vars(RunMessage)
    /\ \A r \in Runners : WF_vars(RunStep(r))
    /\ WF_vars(Boot) /\ WF_vars(Sweep)

Spec == Init /\ [][Next]_vars
FairSpec == Spec /\ Fairness

-----------------------------------------------------------------------------
Discs == {"", "step", "CONTEXT", "POLICY", "sweep", "recovery"} \X Nat
DATA == PHASES \cup {"", "PASS", "FAIL", "APPROVED", "BLOCKED"}
EventRecord ==
    [type : EVENT_TYPES, attempt : Nat, disc : Discs, num : Nat, data : DATA,
     mode : DOMAIN LADDER]
Projection ==
    [phase : PHASES, mode : DOMAIN LADDER, version : Nat, packet : BOOLEAN,
     plan : Nat, current : Nat, completed : SUBSET Nat,
     policy : {"none", "APPROVED", "BLOCKED"}, verdict : {"none", "PASS", "FAIL"},
     attempts : Nat, rollbacks : Nat, corrections : Nat]
RunPCs ==
    {"idle", "begin", "project", "hydrate", "build", "ask", "open", "plan", "policy",
     "clear", "consult", "execute", "attempt", "work", "complete", "reject", "commit",
     "fail", "finish", "done"}
Servers ==
    {"down", "scan", "recover", "mark", "abandon", "requeue", "record", "note", "serving"}

(* Every variable holds a value of the table, message or local it models.  *)
TypeOK ==
    /\ log \in Seq(EventRecord)
    /\ task \in Projection
    /\ closed \in BOOLEAN
    /\ queued \in Nat /\ batch \in 0 .. ClaimBatch
    /\ server \in Servers /\ swept \in Nat /\ requeues \in Nat
    /\ run \in [Runners ->
         [pc : RunPCs, st : Projection, mode : DOMAIN LADDER, base : Nat, idx : Nat,
          att : 0 .. MaxRetries, gate : Discs,
          stage : {"none", "hydrate", "plan", "policy", "step", "commit", "failed"}]]
    /\ sub \in [pc : {"new", "requested", "enqueue", "done", "dead"}, mode : Modes]
    /\ human \in [Humans -> [pc : {"idle", "looked", "found"}, attempts : Nat,
                             mode : DOMAIN LADDER, gate : Discs]]
    /\ corr \in [Correctors -> [pc : {"idle", "read", "done"}, n : Nat,
                                mode : DOMAIN LADDER]]
    /\ faults \in 0 .. MaxFaults

Indices(type) == {i \in DOMAIN log : log[i].type = type}

(* A task is committed only after its plan was cleared, and every question *)
(* it ever put to a human was answered with a release before the commit.   *)
CommitIsAuthorised ==
    \A j \in Indices("MUTATION_COMMITTED") :
        /\ \E i \in Indices("POLICY_CLEARED") : i < j
        /\ \A q \in Questions : AskedAt(q) < j =>
              \E i \in Indices("HUMAN_GATE_CLEARED") : i < j /\ log[i].disc = q

(* A commit is preceded by the completion of every step of the plan that   *)
(* the ledger holds, crashes, retries and re-runs included.                *)
CommitCompletesPlan ==
    \A j \in Indices("MUTATION_COMMITTED") :
        \E p \in Indices("PLAN_COMPILED") : p < j /\
            \A s \in 0 .. (log[p].num - 1) :
                \E i \in Indices("EXECUTION_COMPLETED") : i < j /\ log[i].num = s

(* The task is parked exactly while a question is open and unrejected, and *)
(* it never has two open questions: crash, sweep and redelivery neither    *)
(* lose a question nor ask it twice.                                       *)
ParkedOnOneQuestion ==
    /\ Cardinality(OpenQuestions) <= 1
    /\ task.phase = "AWAITING_HUMAN" <=>
         OpenQuestions # {} /\ Indices("HUMAN_GATE_REJECTED") = {}

(* Only a human's ruling moves a parked task: no run, sweep, redelivery or *)
(* crash does ("a crash must not be interpretable as consent").            *)
OnlyHumansReleaseGates ==
    [][task.phase = "AWAITING_HUMAN" /\ task'.phase # "AWAITING_HUMAN" =>
         Last(log').type \in {"HUMAN_GATE_CLEARED", "HUMAN_GATE_REJECTED"}]_vars

(* A task that reached a terminal phase never leaves it, and no run emits  *)
(* another outcome for it.                                                 *)
TerminalIsFinal == [][IsTerminal(task) => task'.phase = task.phase]_vars

(* The two phases nobody may move a task out of on his own account stay    *)
(* put: a gate until a human rules, an outcome for good.                   *)
RestingStatesHold == OnlyHumansReleaseGates /\ TerminalIsFinal

(* A step whose completion is recorded is neither started nor completed    *)
(* again: a resumed run continues after the work that already landed.      *)
CompletedStepsStayDone ==
    \A i \in Indices("EXECUTION_COMPLETED") :
        ~ \E j \in DOMAIN log :
            /\ j > i /\ log[j].disc = log[i].disc
            /\ log[j].type \in {"EXECUTION_STARTED", "EXECUTION_COMPLETED",
                                "VALIDATION_FAILED"}

(* A step is started only after the step before it completed, whichever    *)
(* run completed it: two runs of one task never execute it out of order.   *)
StepsInOrder ==
    \A j \in Indices("EXECUTION_STARTED") :
        log[j].num > 0 =>
            \E i \in Indices("EXECUTION_COMPLETED") : i < j /\ log[i].num = log[j].num - 1

(* Two runs of one task follow its plan: no step is skipped, none overtakes *)
(* its predecessor.                                                        *)
PlanIsFollowed == CommitCompletesPlan /\ StepsInOrder

(* What a commit needs: clearance, every release, and the whole plan.      *)
CommitIsEarned == TypeOK /\ CommitIsAuthorised /\ CommitCompletesPlan

(* A lineage whose head says terminal is terminal: the boot sweep, which   *)
(* looks at open heads only, never overlooks an unfinished task.           *)
UnfinishedNeverHidden == closed => IsTerminal(task)

(* A task that was requested ends, or has put a question to a human, even  *)
(* if the server crashes at any point of its submission, run or recovery.  *)
Settles == log # <<>> ~> IsTerminal(task) \/ Questions # {}

-----------------------------------------------------------------------------
(* What comments and docs of the repository say of the program and the     *)
(* code does not do.  Each is refuted by a run of its own.                 *)

(* ledger/events.py: a genuine retry is a distinct event.  So a completed  *)
(* step should have its passing verdict in the ledger.                     *)
CompletionHasPass ==
    \A i \in Indices("EXECUTION_COMPLETED") :
        \E c \in Indices("CRITIQUE_CONCLUDED") :
            log[c].disc = log[i].disc /\ log[c].data = "PASS"

(* _gate_history: a refused lineage ends in BLOCKED, which is terminal.    *)
RefusalIsFinal == Indices("HUMAN_GATE_REJECTED") # {} => task.phase = "BLOCKED"

(* workflow-02: once the gate is cleared the remaining steps execute.      *)
ClearedGateResumes ==
    Indices("HUMAN_GATE_CLEARED") # {} ~> IsTerminal(task) \/ OpenQuestions # {}

(* background-jobs-and-events: max_attempts governs re-queue retries;      *)
(* only beyond it is a task abandoned.                                     *)
AbandonedAfterRetries == Indices("TASK_ABANDONED") # {} => requeues >= MaxAttempts

(* RecoveryOutcome.RESUMED: the task continues where it left off.  So it   *)
(* should be planned in the modality it was queued with.                   *)
ModalitySurvivesRecovery ==
    \A i \in Indices("TASK_QUEUED"), j \in Indices("PLAN_COMPILED") :
        log[i].mode = log[j].mode
=============================================================================
