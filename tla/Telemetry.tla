----------------------------- MODULE Telemetry -----------------------------
(***************************************************************************)
(* ExecutionRunRepository: a row per run, opened when the run starts and   *)
(* closed when it reports.  finish_run() reads and then updates;           *)
(* skill_stats() aggregates in two statements; a retention sweep and other *)
(* runs come in between.                                                   *)
(***************************************************************************)
EXTENDS Integers, FiniteSets

CONSTANTS
    Traces, Correlations, SkillNames,
    Finishers,   \* concurrent calls of finish_run
    MaxDay       \* bound: days runs start on

ASSUME TelemetryAssumption == MaxDay \in Nat

VARIABLES
    runs,       \* [traces in the table -> row]
    used,       \* trace ids ever given out
    day,
    corrections,\* correlations with a USER_CORRECTION in the ledger
    finishing,  \* [Finishers -> [pc, trace, code]]
    stats       \* the aggregate being read

telemetryVars == <<runs, used, day, corrections, finishing, stats>>

Omitted == -1
NoStats == [pc |-> "idle", skill |-> "", sample |-> 0, successes |-> 0,
            correlations |-> 0, corrected |-> 0, disturbed |-> FALSE]

is_finished(r) == r.ended

status(r) == IF ~is_finished(r) THEN "IN_FLIGHT" ELSE IF r.code = 0 THEN "OK" ELSE "ERROR"

Finished(s) == {t \in DOMAIN runs : runs[t].skill = s /\ is_finished(runs[t])}
CorrelationsOf(ts) == {runs[t].corr : t \in ts}

\* A reading in progress no longer describes the table it started from.
Disturb == stats' = [stats EXCEPT !.disturbed = @ \/ stats.pc = "corrections"]

-----------------------------------------------------------------------------
\* The row is written at once, open.
start_run(t, c, s) ==
    /\ t \notin used /\ used' = used \union {t}
    /\ runs' = [x \in DOMAIN runs \union {t} |->
                  IF x = t THEN [corr |-> c, skill |-> s, started |-> day,
                                 ended |-> FALSE, code |-> Omitted]
                  ELSE runs[x]]
    /\ UNCHANGED <<day, corrections, finishing, stats>>

\* An unknown trace is logged and nothing else.
FinishReads(f, t, code) ==
    /\ finishing[f].pc = "idle" /\ t \in used
    /\ finishing' = IF t \in DOMAIN runs
                    THEN [finishing EXCEPT ![f] = [pc |-> "update", trace |-> t, code |-> code]]
                    ELSE finishing
    /\ UNCHANGED <<runs, used, day, corrections, stats>>

FinishUpdates_Overwrite(f) ==
    LET g == finishing[f] IN
    /\ g.pc = "update"
    /\ runs' = IF g.trace \in DOMAIN runs
               THEN [runs EXCEPT ![g.trace].ended = TRUE, ![g.trace].code = g.code]
               ELSE runs
    /\ finishing' = [finishing EXCEPT ![f] = [pc |-> "idle"]]
    /\ Disturb /\ UNCHANGED <<used, day, corrections>>

\* COALESCE(?, exit_code): what is omitted is kept.  A row purged since the
\* read is not updated.
FinishUpdates(f) ==
    LET g == finishing[f] IN
    /\ g.pc = "update"
    /\ runs' = IF g.trace \in DOMAIN runs
               THEN [runs EXCEPT ![g.trace].ended = TRUE,
                                 ![g.trace].code = IF g.code = Omitted THEN @ ELSE g.code]
               ELSE runs
    /\ finishing' = [finishing EXCEPT ![f] = [pc |-> "idle"]]
    /\ Disturb /\ UNCHANGED <<used, day, corrections>>

\* Unfinished runs are kept whatever their age.
purge_older_than(cutoff) ==
    /\ runs' = [t \in {x \in DOMAIN runs : ~(runs[x].started < cutoff /\ is_finished(runs[x]))} |-> runs[t]]
    /\ runs' # runs
    /\ Disturb /\ UNCHANGED <<used, day, corrections, finishing>>

-----------------------------------------------------------------------------
\* First statement: no finished run, no evidence.
ReadAggregate(s) ==
    LET done == Finished(s) IN
    /\ stats.pc # "corrections"
    /\ stats' = IF done = {} THEN [NoStats EXCEPT !.pc = "done", !.skill = s]
                ELSE [pc |-> "corrections", skill |-> s, sample |-> Cardinality(done),
                      successes |-> Cardinality({t \in done : status(runs[t]) = "OK"}),
                      correlations |-> Cardinality(CorrelationsOf(done)),
                      corrected |-> 0, disturbed |-> FALSE]
    /\ UNCHANGED <<runs, used, day, corrections, finishing>>

\* Second statement, over the runs that are finished by now.
ReadCorrections ==
    /\ stats.pc = "corrections"
    /\ stats' = [stats EXCEPT !.pc = "done",
                   !.corrected = Cardinality(corrections \intersect CorrelationsOf(Finished(stats.skill)))]
    /\ UNCHANGED <<runs, used, day, corrections, finishing>>

\* record_correction() appends to the ledger.
Correct(c) ==
    /\ c \in CorrelationsOf(DOMAIN runs) \ corrections /\ corrections' = corrections \union {c}
    /\ UNCHANGED <<runs, used, day, finishing, stats>>

NextDay == day < MaxDay /\ day' = day + 1 /\ UNCHANGED <<runs, used, corrections, finishing, stats>>

-----------------------------------------------------------------------------
TelemetryInit ==
    /\ runs = [t \in {} |-> {}] /\ used = {} /\ day = 0 /\ corrections = {}
    /\ finishing = [f \in Finishers |-> [pc |-> "idle"]] /\ stats = NoStats

TelemetryNext ==
    \/ \E t \in Traces, c \in Correlations, s \in SkillNames : start_run(t, c, s)
    \/ \E f \in Finishers : \/ \E t \in Traces, code \in {0, Omitted} : FinishReads(f, t, code)
                            \/ FinishUpdates(f)
    \/ \E cutoff \in 1..(MaxDay + 1) : purge_older_than(cutoff)
    \/ \E s \in SkillNames : ReadAggregate(s)
    \/ ReadCorrections \/ NextDay
    \/ \E c \in Correlations : Correct(c)

\* A share is a share: more runs cannot succeed than were counted, and more
\* correlations cannot be corrected, when the table stood still between the two
\* statements.
SharesAreShares ==
    stats.pc = "done" =>
        /\ stats.successes <= stats.sample /\ stats.correlations <= stats.sample
        /\ ~stats.disturbed => stats.corrected <= stats.correlations

\* A run that was started stays on record until it has reported, a report is
\* never withdrawn or turned from a known exit code into an unknown one, however
\* finishes and the retention sweep interleave; and the aggregates add up.
RunsAreEvidence ==
    /\ []SharesAreShares
    /\ [][\A t \in DOMAIN runs :
            IF t \in DOMAIN runs'
            THEN /\ is_finished(runs[t]) => is_finished(runs'[t])
                 /\ runs[t].code # Omitted => runs'[t].code # Omitted
                 /\ runs[t].corr = runs'[t].corr /\ runs[t].skill = runs'[t].skill
            ELSE is_finished(runs[t])]_telemetryVars
=============================================================================
