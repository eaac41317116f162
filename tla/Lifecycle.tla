----------------------------- MODULE Lifecycle -----------------------------
(***************************************************************************)
(* paa serve from its bind check to its exit: Runtime.build() acquires the *)
(* resources one by one, Daemon.start() launches three supervised loops    *)
(* over them, a signal ends serving, Daemon.stop() cancels the loops and   *)
(* Runtime.close() releases what was acquired.                             *)
(***************************************************************************)
EXTENDS Naturals, Sequences

CONSTANT MaxCrashes   \* bound: errors that escape a loop

ASSUME LifecycleAssumption == MaxCrashes \in Nat

VARIABLES
    server,      \* [pc, at]: where serve() is, at which resource
    held,        \* resources that are open
    raised,      \* those whose closer raised
    loops,       \* [Loops -> where the supervised task is]
    stopSet,     \* Daemon._stop
    loopCrashes,
    interrupted  \* close() was cancelled on its way

lifeVars == <<server, held, raised, loops, stopSet, loopCrashes, interrupted>>

Loops == {"dispatch", "ingestion", "maintenance"}
NoLoops == [l \in Loops |-> "none"]

\* The order in which build() acquires and close() releases.
Acquired == <<"db", "router", "vector", "graph", "queue", "sandbox", "agents">>
Closers == <<"graph", "vector", "router", "db">>

\* A missing extra degrades the runtime; a sandbox probe that is late or fails
\* falls back to the subprocess backend, or to none.
Optional == {"vector", "graph", "queue", "sandbox"}

At(pc) == server.pc = pc
GoTo(pc, i) == server' = [pc |-> pc, at |-> i]

-----------------------------------------------------------------------------
\* _resolve_bind_host: settled before anything is opened.
ResolveBindHost ==
    /\ At("bind")
    /\ GoTo("build", 1) \/ GoTo("refused", 0)
    /\ UNCHANGED <<held, raised, loops, stopSet, loopCrashes, interrupted>>

Advance == IF server.at = Len(Acquired) THEN GoTo("start", 0) ELSE GoTo("build", server.at + 1)

AcquireNext ==
    /\ At("build")
    /\ held' = IF Acquired[server.at] = "agents" THEN held ELSE held \union {Acquired[server.at]}
    /\ Advance
    /\ UNCHANGED <<raised, loops, stopSet, loopCrashes, interrupted>>

AcquireFails ==
    /\ At("build")
    /\ IF Acquired[server.at] \in Optional THEN Advance ELSE GoTo("failed", 0)
    /\ UNCHANGED <<held, raised, loops, stopSet, loopCrashes, interrupted>>

\* Daemon.start(): boot_recovery, which may raise, then the loops.  Nothing
\* catches what it raises: what build() opened stays open.
DaemonStart ==
    /\ At("start")
    /\ \/ /\ GoTo("serving", 0)
          /\ stopSet' = FALSE
          /\ loops' = [l \in Loops |-> "begin"]
       \/ GoTo("failed", 0) /\ UNCHANGED <<loops, stopSet>>
    /\ UNCHANGED <<held, raised, loopCrashes, interrupted>>

-----------------------------------------------------------------------------
\* One supervised task.  The dispatch loop works first, ingestion builds its
\* creator and works, maintenance waits out an interval.
MoveLoop(l, from, to) == loops[l] \in from /\ loops' = [loops EXCEPT ![l] = to]

LoopEnters(l) ==
    /\ IF stopSet THEN MoveLoop(l, {"begin"}, "ended")
       ELSE MoveLoop(l, {"begin"}, IF l = "maintenance" THEN "sleep" ELSE "work")
    /\ UNCHANGED <<server, held, raised, stopSet, loopCrashes, interrupted>>

\* A pass over the queue, the signals or the facts, failed or not.  The first
\* sleep of maintenance is followed by a pass like every other.
LoopSleeps(l) ==
    /\ MoveLoop(l, {"work"}, "sleep")
    /\ UNCHANGED <<server, held, raised, stopSet, loopCrashes, interrupted>>

\* _sleep() wakes early on shutdown, and the loop's condition ends it; so does
\* the supervisor's.
LoopWakes(l) ==
    /\ MoveLoop(l, {"sleep"}, IF stopSet THEN "ended" ELSE "work")
    /\ UNCHANGED <<server, held, raised, stopSet, loopCrashes, interrupted>>

\* claim(), or the nack of a failed task, raises out of the dispatch loop; the
\* other two catch what their pass raises.
LoopRaises(l) ==
    /\ l = "dispatch" /\ loopCrashes < MaxCrashes
    /\ MoveLoop(l, {"work"}, "backoff")
    /\ loopCrashes' = loopCrashes + 1
    /\ UNCHANGED <<server, held, raised, stopSet, interrupted>>

\* _supervise: the loop is entered again after a second.
Supervise(l) ==
    /\ MoveLoop(l, {"backoff"}, "begin")
    /\ UNCHANGED <<server, held, raised, stopSet, loopCrashes, interrupted>>

\* CancelledError is no Exception: it leaves every handler on its way out.
LoopUnwinds(l) ==
    /\ MoveLoop(l, {"cancelled"}, "ended")
    /\ UNCHANGED <<server, held, raised, stopSet, loopCrashes, interrupted>>

LoopStep(l) ==
    LoopEnters(l) \/ LoopSleeps(l) \/ LoopWakes(l) \/ LoopRaises(l) \/ Supervise(l) \/ LoopUnwinds(l)

-----------------------------------------------------------------------------
\* A signal: server.serve() returns, and stop() sets the event and cancels all.
DaemonStop ==
    /\ At("serving") /\ GoTo("stopping", 0)
    /\ stopSet' = TRUE
    /\ loops' = [l \in Loops |-> IF loops[l] = "ended" THEN "ended" ELSE "cancelled"]
    /\ UNCHANGED <<held, raised, loopCrashes, interrupted>>

StopReturns_Early ==
    /\ At("stopping") /\ GoTo("close", 1)
    /\ UNCHANGED <<held, raised, loops, stopSet, loopCrashes, interrupted>>

\* stop() awaits each task, and suppresses a cancellation of its own.
StopReturns ==
    /\ At("stopping") /\ \A l \in Loops : loops[l] = "ended"
    /\ GoTo("close", 1)
    /\ UNCHANGED <<held, raised, loops, stopSet, loopCrashes, interrupted>>

Rest == IF server.at = Len(Closers) THEN GoTo("down", 0) ELSE GoTo("close", server.at + 1)

\* Each closer in turn; a store that is absent has none.
CloseNext ==
    /\ At("close") /\ held' = held \ {Closers[server.at]} /\ Rest
    /\ UNCHANGED <<raised, loops, stopSet, loopCrashes, interrupted>>

\* What a closer raises is logged, and the next one's turn comes.
CloserRaises ==
    /\ At("close") /\ Closers[server.at] \in held
    /\ raised' = raised \union {Closers[server.at]} /\ Rest
    /\ UNCHANGED <<held, loops, stopSet, loopCrashes, interrupted>>

\* A signal that cancels serve() itself leaves close() where it is.
Interrupt ==
    /\ At("close") /\ GoTo("down", 0)
    /\ interrupted' = TRUE
    /\ UNCHANGED <<held, raised, loops, stopSet, loopCrashes>>

-----------------------------------------------------------------------------
LifeInit ==
    /\ server = [pc |-> "bind", at |-> 0] /\ held = {} /\ raised = {} /\ loops = NoLoops
    /\ stopSet = FALSE /\ loopCrashes = 0 /\ interrupted = FALSE

ServeStep ==
    ResolveBindHost \/ AcquireNext \/ AcquireFails \/ DaemonStart \/ StopReturns \/ CloseNext

LifeNext ==
    \/ ServeStep \/ DaemonStop \/ CloserRaises \/ Interrupt
    \/ \E l \in Loops : LoopStep(l)

Alive(l) == loops[l] \notin {"none", "ended"}

\* The loops work on the runtime's database: it is open as long as one of them
\* has not unwound, whatever order shutdown, cancellation and a crashed loop's
\* back-off come in.
DatabaseOutlivesLoops == (\E l \in Loops : Alive(l)) => "db" \in held

\* One failing loop does not take the daemon down: while the server serves,
\* none of the three has come to its end.
LoopsAreSupervised == At("serving") => \A l \in Loops : Alive(l)

\* A shutdown that is not itself interrupted releases each store it has a closer
\* for, but for one whose own closer raised.
ShutdownReleases ==
    At("down") /\ ~interrupted => \A i \in 1..Len(Closers) : Closers[i] \in held => Closers[i] \in raised

\* "Release every resource": close() has no closer for the queue, whose Redis
\* client holds connections.
EverythingReleased == At("down") /\ ~interrupted => held \subseteq raised \union {"sandbox"}

LifecycleSound == DatabaseOutlivesLoops /\ LoopsAreSupervised /\ ShutdownReleases

\* A server that was told to stop comes to its end: every loop unwinds and every
\* closer has its turn.
ShutdownEnds == At("stopping") ~> At("down")
=============================================================================
