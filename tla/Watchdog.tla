------------------------------ MODULE Watchdog ------------------------------
(***************************************************************************)
(* What watches running work: ResourceWatchdog samples one process's       *)
(* memory and kills it over its ceiling; HeartbeatTracker declares silent  *)
(* workers dead, against an injected clock.                                *)
(***************************************************************************)
EXTENDS Integers, FiniteSets

CONSTANTS
    Workers,
    Interval, Tolerance,   \* heartbeat_interval, heartbeat_miss_tolerance
    MaxClock,              \* bound
    MemoryCeiling, MaxMemory,  \* memory_mb; bound on what a process takes
    MaxSamples             \* bound

ASSUME WatchdogAssumption ==
    /\ Interval \in Nat \ {0} /\ Tolerance \in Nat \ {0} /\ MaxClock \in Nat
    /\ MemoryCeiling \in Nat /\ MaxMemory \in Nat /\ MaxSamples \in Nat

VARIABLES
    clock,
    tracked,    \* [tracked workers -> [last, dead]]
    reports,    \* [Workers -> deaths sweep() has reported since the last sign of life]
    missed,     \* workers whose death dead_workers() took notice of, and not sweep()
    proc,       \* the process: [alive, now, high]
    tier,       \* what can measure it
    jobActive,  \* the kernel enforces the ceiling itself
    dog,        \* ResourceWatchdog: [pc, stop, peak, source, fired]; height is history
    kills, taken

heartVars == <<clock, tracked, reports, missed>>
dogVars == <<proc, tier, jobActive, dog, kills, taken>>
watchVars == <<heartVars, dogVars>>

-----------------------------------------------------------------------------
(* HeartbeatTracker *)
deadline_seconds == Interval * Tolerance

silence_seconds(w) == clock - tracked[w].last

missed_beats(w) == silence_seconds(w) \div Interval

is_alive(w) == w \in DOMAIN tracked /\ silence_seconds(w) <= deadline_seconds

With(w, entry) == [x \in DOMAIN tracked \union {w} |-> IF x = w THEN entry ELSE tracked[x]]

SignOfLife(w) == reports' = [reports EXCEPT ![w] = 0] /\ missed' = missed \ {w}

\* Registration counts as the first beat; registering again starts over.
register(w) ==
    /\ tracked' = With(w, [last |-> clock, dead |-> FALSE])
    /\ SignOfLife(w) /\ UNCHANGED clock

beat_Unrevived(w) ==
    /\ tracked' = With(w, [last |-> clock, dead |-> w \in DOMAIN tracked /\ tracked[w].dead])
    /\ SignOfLife(w) /\ UNCHANGED clock

\* A beat registers an unknown worker and revives a dead one.
beat(w) ==
    /\ tracked' = With(w, [last |-> clock, dead |-> FALSE])
    /\ SignOfLife(w) /\ UNCHANGED clock

NewlyDead == {w \in DOMAIN tracked : ~tracked[w].dead /\ silence_seconds(w) > deadline_seconds}

Declare == tracked' = [w \in DOMAIN tracked |->
                         [tracked[w] EXCEPT !.dead = @ \/ w \in NewlyDead]]

\* The caller records one failure for each worker it is given.
sweep ==
    /\ Declare
    /\ reports' = [w \in Workers |-> reports[w] + IF w \in NewlyDead THEN 1 ELSE 0]
    /\ UNCHANGED <<clock, missed>>

\* Sweeps first, and returns ids: what that sweep reported goes nowhere.
dead_workers ==
    /\ Declare /\ missed' = missed \union NewlyDead
    /\ UNCHANGED <<clock, reports>>

forget(w) ==
    /\ w \in DOMAIN tracked /\ tracked' = [x \in DOMAIN tracked \ {w} |-> tracked[x]]
    /\ SignOfLife(w) /\ UNCHANGED clock

Tick == clock < MaxClock /\ clock' = clock + 1 /\ UNCHANGED <<tracked, reports, missed>>

-----------------------------------------------------------------------------
(* ResourceWatchdog *)
Unmeasured == -1

\* sample_rss_mb: psutil measures what the tree holds now; the kernel's own
\* counters, what the process held at most.
sample_rss_mb ==
    IF ~proc.alive \/ tier = "unavailable" THEN Unmeasured
    ELSE IF tier = "psutil" THEN proc.now ELSE proc.high

PeakOf(peak, rss) == IF peak = Unmeasured \/ rss > peak THEN rss ELSE peak

\* The breach is noted once.  Without a job object it starts the kill of the
\* process tree; with one the kernel refuses the memory and nobody is called.
Sample(rss, kill) ==
    /\ dog' = [dog EXCEPT !.pc = "sleep",
                 !.source = IF rss = Unmeasured THEN @ ELSE tier,
                 !.peak = IF rss = Unmeasured THEN @ ELSE PeakOf(@, rss),
                 !.height = IF rss = Unmeasured THEN @ ELSE proc.high,
                 !.fired = @ \/ rss > MemoryCeiling]
    /\ kills' = kills + IF kill /\ ~jobActive THEN 1 ELSE 0

_sample_once == Sample(sample_rss_mb, sample_rss_mb > MemoryCeiling /\ ~dog.fired)

DogStarts ==
    /\ dog.pc = "new" /\ dog' = [dog EXCEPT !.pc = "loop"]
    /\ UNCHANGED <<proc, tier, jobActive, kills, taken>>

DogSamples ==
    /\ dog.pc = "loop" /\ ~dog.stop /\ taken < MaxSamples /\ taken' = taken + 1
    /\ _sample_once /\ UNCHANGED <<proc, tier, jobActive>>

\* The interval is over, or stop() has been called.
DogWakes ==
    /\ dog.pc = "sleep" /\ dog' = [dog EXCEPT !.pc = "loop"]
    /\ UNCHANGED <<proc, tier, jobActive, kills, taken>>

DogEnds ==
    /\ dog.pc = "loop" /\ dog.stop /\ dog' = [dog EXCEPT !.pc = "ended"]
    /\ UNCHANGED <<proc, tier, jobActive, kills, taken>>

\* Called when the process has ended or its time is up, and again.
DogStop ==
    /\ dog.pc # "new" /\ dog' = [dog EXCEPT !.stop = TRUE]
    /\ UNCHANGED <<proc, tier, jobActive, kills, taken>>

\* The work takes and gives back memory, or ends; a kill lands.
Allocate ==
    /\ proc.alive
    /\ \E m \in 0..MaxMemory : proc' = [proc EXCEPT !.now = m, !.high = IF m > @ THEN m ELSE @]
    /\ UNCHANGED <<tier, jobActive, dog, kills, taken>>

ProcessEnds == proc.alive /\ proc' = [proc EXCEPT !.alive = FALSE] /\ UNCHANGED <<tier, jobActive, dog, kills, taken>>

-----------------------------------------------------------------------------
HeartInit ==
    /\ clock = 0 /\ tracked = [w \in {} |-> {}] /\ reports = [w \in Workers |-> 0] /\ missed = {}

DogInit ==
    /\ proc = [alive |-> TRUE, now |-> 0, high |-> 0]
    /\ tier \in {"psutil", "kernel", "unavailable"}
    /\ dog = [pc |-> "new", stop |-> FALSE, peak |-> Unmeasured, height |-> 0,
              source |-> "unavailable", fired |-> FALSE]
    /\ jobActive \in BOOLEAN
    /\ kills = 0 /\ taken = 0

HeartNext ==
    \/ \E w \in Workers : register(w) \/ beat(w) \/ forget(w)
    \/ sweep \/ dead_workers \/ Tick

DogNext == DogStarts \/ DogSamples \/ DogWakes \/ DogEnds \/ DogStop \/ Allocate \/ ProcessEnds

\* A worker that is held dead has been silent past the deadline ever since it
\* was declared so: a beat, a registration or a purge in between revives it,
\* and only whole missed intervals count.
DeadAreSilent ==
    \A w \in DOMAIN tracked :
        tracked[w].dead => ~is_alive(w) /\ missed_beats(w) >= Tolerance

\* One report per death, however often the sweep runs, and none without one.
ReportedOnce ==
    \A w \in Workers :
        /\ reports[w] <= 1
        /\ w \in DOMAIN tracked /\ w \notin missed => (tracked[w].dead <=> reports[w] = 1)

\* "Each worker is returned from sweep": not when dead_workers() came first.
EveryDeathIsReported == missed = {}

\* The kill is started once, when and only when the ceiling was passed and no
\* job object enforces it; a peak is reported only of what was measured; and on
\* a tier that reads the kernel's high-water mark, memory taken and given back
\* between two samples does not go unseen by the second.
KilledOnceForABreach ==
    /\ kills = IF dog.fired /\ ~jobActive THEN 1 ELSE 0
    /\ dog.fired => dog.peak > MemoryCeiling
    /\ dog.peak <= proc.high /\ (dog.source = "unavailable" <=> dog.peak = Unmeasured)
    /\ tier = "kernel" /\ dog.height > MemoryCeiling => dog.fired

WatchdogSound == DeadAreSilent /\ ReportedOnce /\ KilledOnceForABreach
=============================================================================
