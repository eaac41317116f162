------------------------------ MODULE Sandbox ------------------------------
(***************************************************************************)
(* One sandbox backend and the runs that share it.                         *)
(*                                                                         *)
(* A run is a chain of awaited calls: on DockerSandbox to a daemon that    *)
(* may answer late (the client gives up, the daemon still does it), refuse *)
(* or not answer; on SubprocessSandbox and WslSandbox to a child process   *)
(* that a watchdog and a deadline may kill.  Time is not counted: a        *)
(* deadline may pass at any point at which the code waits for it.          *)
(***************************************************************************)
EXTENDS Naturals, FiniteSets

CONSTANTS
    Runs,          \* concurrent run() calls
    SandboxKinds,  \* backends to explore
    MaxTroubles    \* bound: calls the daemon does not answer in time, cancellations

ASSUME SandboxAssumption == SandboxKinds \subseteq {"docker", "subprocess", "wsl"}

VARIABLES
    kind,       \* the backend
    chosen,     \* "auto": get_sandbox probed it; "explicit": it did not
    runtime,    \* the configured OCI runtime
    registered, \* the daemon knows that runtime; for wsl: unshare is there
    healthy,    \* _healthy: "none", "yes", "no"
    available,  \* _runtime_available: "none", "yes", "no"
    run,        \* [Runs -> the state of the call]
    box,        \* [Runs -> "none", "created", "running", "exited", "gone"]: container or process
    code,       \* [Runs -> the exit status of what ended in the box]
    late,       \* [Runs -> requests the daemon has yet to serve for nobody]
    troubles

boxVars == <<kind, chosen, runtime, registered, healthy, available, run, box, code,
             late, troubles>>

NoCode == 999

Fresh == [pc |-> "idle", used |-> "none", exit |-> NoCode, reason |-> "none",
          breached |-> FALSE, cancelled |-> FALSE, level |-> "none"]

backend == <<kind, chosen, runtime, registered>>

Set(r, w) == run' = [run EXCEPT ![r] = w]

Move(r, pc) == Set(r, [run[r] EXCEPT !.pc = pc])

Trouble == troubles < MaxTroubles /\ troubles' = troubles + 1

\* isolation_level, read when it is asked for.
IsolationLevel ==
    CASE kind = "docker" -> IF runtime = "runsc" /\ available = "yes" THEN "VM" ELSE "NAMESPACE"
      [] kind = "wsl"    -> "NAMESPACE"
      [] OTHER           -> "PROCESS"

\* SandboxResult.ok
ok(w) == w.exit = 0 /\ w.reason = "none"

-----------------------------------------------------------------------------
(* DockerSandbox *)

Begin(r) ==
    /\ run[r].pc = "idle"
    /\ Move(r, IF kind = "subprocess" THEN "spawn"
               ELSE IF healthy = "none" THEN "probe"
               ELSE IF healthy = "no" THEN "error"
               ELSE IF kind = "wsl" THEN "spawn" ELSE "create")
    /\ UNCHANGED <<backend, healthy, available, box, code, late, troubles>>

\* _probe: docker version, or wsl.exe true.
Probe(r) ==
    /\ run[r].pc = "probe"
    /\ \/ /\ Move(r, IF kind = "wsl" THEN "healthy" ELSE "detect") /\ UNCHANGED <<healthy, troubles>>
       \/ /\ Trouble /\ healthy' = "no" /\ Move(r, "error")
    /\ UNCHANGED <<backend, available, box, code, late>>

\* _detect_runtime writes False before it asks the daemon.
DetectRuntime(r) ==
    /\ run[r].pc = "detect"
    /\ CASE available # "none" -> UNCHANGED available /\ Move(r, "healthy")
         [] available = "none" /\ runtime = "runc" -> available' = "yes" /\ Move(r, "healthy")
         [] OTHER -> available' = "no" /\ Move(r, "info")
    /\ UNCHANGED <<backend, healthy, box, code, late, troubles>>

DockerInfo(r) ==
    /\ run[r].pc = "info"
    /\ \/ available' = (IF registered THEN "yes" ELSE "no") /\ UNCHANGED troubles
       \/ Trouble /\ available' = "none"
    /\ Move(r, "healthy")
    /\ UNCHANGED <<backend, healthy, box, code, late>>

SetHealthy(r) ==
    /\ run[r].pc = "healthy"
    /\ healthy' = "yes"
    /\ Move(r, IF kind = "wsl" THEN "spawn" ELSE "create")
    /\ UNCHANGED <<backend, available, box, code, late, troubles>>

\* _container_flags: --runtime only when it is known to be there.
RuntimeFlag == IF runtime # "runc" /\ available = "yes" THEN runtime ELSE "runc"

AfterFailure_Return(w) == "collected"

\* A create or start the daemon refuses returns early, through the finally.
AfterFailure(w) == "remove"

DockerCreate(r) ==
    LET w == [run[r] EXCEPT !.used = RuntimeFlag] IN
    /\ run[r].pc = "create"
    /\ \/ /\ box' = [box EXCEPT ![r] = "created"]
          /\ Set(r, [w EXCEPT !.pc = "start"]) /\ UNCHANGED <<late, troubles>>
       \/ /\ Trouble
          /\ Set(r, [w EXCEPT !.pc = AfterFailure(w), !.exit = 1]) /\ UNCHANGED <<box, late>>
       \/ /\ Trouble
          /\ late' = [late EXCEPT ![r] = @ \union {"create"}]
          /\ Set(r, [w EXCEPT !.pc = "kill", !.reason = "start_timeout"]) /\ UNCHANGED box
    /\ UNCHANGED <<backend, healthy, available, code>>

DockerStart(r) ==
    LET w == run[r] IN
    /\ w.pc = "start"
    /\ \/ /\ box' = [box EXCEPT ![r] = "running"]
          /\ Move(r, "wait") /\ UNCHANGED <<late, troubles>>
       \/ /\ Trouble
          /\ Set(r, [w EXCEPT !.pc = AfterFailure(w), !.exit = 1]) /\ UNCHANGED <<box, late>>
       \/ /\ Trouble
          /\ late' = [late EXCEPT ![r] = @ \union {"start"}]
          /\ Set(r, [w EXCEPT !.pc = "kill", !.reason = "start_timeout"]) /\ UNCHANGED box
    /\ UNCHANGED <<backend, healthy, available, code>>

\* docker wait, within what is left of the work budget.
DockerWait(r) ==
    /\ run[r].pc = "wait" /\ kind = "docker"
    /\ \/ box[r] = "exited" /\ Set(r, [run[r] EXCEPT !.pc = "logs", !.exit = code[r]])
       \/ Set(r, [run[r] EXCEPT !.pc = "kill", !.reason = "timeout"])
    /\ UNCHANGED <<backend, healthy, available, box, code, late, troubles>>

DockerKill(r) ==
    /\ run[r].pc = "kill" /\ kind = "docker"
    /\ \/ /\ box' = [box EXCEPT ![r] = IF @ = "running" THEN "exited" ELSE @]
          /\ code' = [code EXCEPT ![r] = IF box[r] = "running" THEN 137 ELSE @]
          /\ UNCHANGED troubles
       \/ Trouble /\ UNCHANGED <<box, code>>
    /\ Move(r, "settle")
    /\ UNCHANGED <<backend, healthy, available, late>>

\* _wait_for_exit: a container that never ran is not running, with status 0.
ExitStatus(r) ==
    CASE box[r] = "exited"  -> code[r]
      [] box[r] = "created" -> 0
      [] OTHER              -> NoCode

Settle(r) ==
    /\ run[r].pc = "settle"
    /\ Set(r, [run[r] EXCEPT !.pc = "logs", !.exit = ExitStatus(r)])
    /\ UNCHANGED <<backend, healthy, available, box, code, late, troubles>>

\* The logs and the final inspect: 137 without a deadline is the memory ceiling.
CollectLogs(r) ==
    LET exit == IF run[r].exit # NoCode THEN run[r].exit ELSE ExitStatus(r) IN
    /\ run[r].pc = "logs" /\ kind = "docker"
    /\ Set(r, [run[r] EXCEPT
          !.pc = "remove", !.exit = exit,
          !.reason = IF @ = "none" /\ exit = 137 THEN "memory" ELSE @])
    /\ UNCHANGED <<backend, healthy, available, box, code, late, troubles>>

\* _remove_container: docker rm -f, in the finally; its failure is swallowed.
RemoveContainer(r) ==
    /\ run[r].pc = "remove"
    /\ \/ box' = [box EXCEPT ![r] = IF @ = "none" THEN "none" ELSE "gone"]
          /\ UNCHANGED <<late, troubles>>
       \/ Trouble /\ late' = [late EXCEPT ![r] = @ \union {"remove"}] /\ UNCHANGED box
    /\ Move(r, "collected")
    /\ UNCHANGED <<backend, healthy, available, code>>

\* The daemon does what nobody waits for any more.
ServeLate(r) ==
    /\ \/ /\ "create" \in late[r] /\ box[r] = "none"
          /\ box' = [box EXCEPT ![r] = "created"]
          /\ late' = [late EXCEPT ![r] = (@ \ {"create"}) \union {"created"}]
       \/ /\ "start" \in late[r] /\ box[r] = "created"
          /\ box' = [box EXCEPT ![r] = "running"]
          /\ late' = [late EXCEPT ![r] = @ \ {"start"}]
       \/ /\ "remove" \in late[r]
          /\ box' = [box EXCEPT ![r] = "gone"]
          /\ late' = [late EXCEPT ![r] = @ \ {"remove"}]
    /\ UNCHANGED <<backend, healthy, available, run, code, troubles>>

-----------------------------------------------------------------------------
(* SubprocessSandbox and WslSandbox *)

\* create_subprocess_exec; WSL wraps the command in unshare when it is there.
Spawn(r) ==
    /\ run[r].pc = "spawn"
    /\ box' = [box EXCEPT ![r] = "running"]
    /\ Set(r, [run[r] EXCEPT !.pc = "wait",
                 !.used = IF kind = "wsl" /\ registered THEN "namespaces" ELSE "process"])
    /\ UNCHANGED <<backend, healthy, available, code, late, troubles>>

AfterWait(w) == IF w.breached /\ w.reason = "none" THEN "memory" ELSE w.reason

\* The child ends, or the deadline passes first.
AwaitChild(r) ==
    /\ run[r].pc = "wait" /\ kind # "docker"
    /\ \/ /\ box[r] = "exited"
          /\ Set(r, [run[r] EXCEPT !.pc = "collected", !.exit = code[r],
                                   !.reason = AfterWait(run[r])])
       \/ Set(r, [run[r] EXCEPT !.pc = "kill", !.reason = "timeout"])
    /\ UNCHANGED <<backend, healthy, available, box, code, late, troubles>>

\* _kill_tree: nothing to do once the child has been reaped.
KillTree(r) ==
    /\ box' = [box EXCEPT ![r] = IF @ = "running" THEN "exited" ELSE @]
    /\ code' = [code EXCEPT ![r] = IF box[r] = "running" THEN 9 ELSE @]

KillChild(r) ==
    /\ run[r].pc = "kill" /\ kind # "docker"
    /\ KillTree(r)
    /\ Set(r, [run[r] EXCEPT !.pc = "collected", !.exit = code'[r]])
    /\ UNCHANGED <<backend, healthy, available, late, troubles>>

\* ResourceWatchdog: a sample over the ceiling fires the kill once.
Breach(r) ==
    /\ kind = "subprocess" /\ run[r].pc = "wait" /\ ~run[r].breached
    /\ box[r] = "running"
    /\ Set(r, [run[r] EXCEPT !.breached = TRUE])
    /\ KillTree(r)
    /\ UNCHANGED <<backend, healthy, available, late, troubles>>

-----------------------------------------------------------------------------
\* The work ends by itself, well or badly, or the kernel ends it.
WorkEnds(r) ==
    /\ box[r] = "running"
    /\ \E c \in {0, 1, 137} :
         /\ c = 137 => kind = "docker"
         /\ code' = [code EXCEPT ![r] = c]
    /\ box' = [box EXCEPT ![r] = "exited"]
    /\ UNCHANGED <<backend, healthy, available, run, late, troubles>>

\* The caller is cancelled at an await.  Only the docker backend cleans up.
Cancel(r) ==
    /\ run[r].pc \in {"create", "start", "wait", "kill", "settle", "logs"}
    /\ Trouble
    /\ Set(r, [run[r] EXCEPT !.pc = IF kind = "docker" THEN "remove" ELSE "collected",
                             !.cancelled = TRUE, !.exit = NoCode])
    /\ late' = [late EXCEPT ![r] = CASE run[r].pc = "create" /\ kind = "docker" -> @ \union {"create"}
                                     [] run[r].pc = "start" -> @ \union {"start"}
                                     [] OTHER -> @]
    /\ UNCHANGED <<backend, healthy, available, box, code>>

\* The result is built with the level of this moment.
Report(r) ==
    /\ run[r].pc = "collected"
    /\ Set(r, [run[r] EXCEPT !.pc = "done", !.level = IsolationLevel])
    /\ UNCHANGED <<backend, healthy, available, box, code, late, troubles>>

BoxInit ==
    /\ kind \in SandboxKinds
    /\ chosen \in {"auto", "explicit"}
    /\ runtime \in {"runc", "runsc"} /\ (kind # "docker" => runtime = "runc")
    /\ registered \in BOOLEAN
    /\ healthy = IF chosen = "auto" /\ kind # "subprocess" THEN "yes" ELSE "none"
    /\ available = IF kind # "docker" \/ chosen = "explicit" THEN "none"
                   ELSE IF runtime = "runc" \/ registered THEN "yes" ELSE "no"
    /\ run = [r \in Runs |-> Fresh]
    /\ box = [r \in Runs |-> "none"]
    /\ code = [r \in Runs |-> NoCode]
    /\ late = [r \in Runs |-> {}]
    /\ troubles = 0

RunStep(r) ==
    \/ Begin(r) \/ Probe(r) \/ DetectRuntime(r) \/ DockerInfo(r) \/ SetHealthy(r)
    \/ DockerCreate(r) \/ DockerStart(r) \/ DockerWait(r) \/ DockerKill(r) \/ Settle(r)
    \/ CollectLogs(r) \/ RemoveContainer(r) \/ Spawn(r) \/ AwaitChild(r) \/ KillChild(r)
    \/ Report(r)

BoxNext ==
    \E r \in Runs : RunStep(r) \/ ServeLate(r) \/ Breach(r) \/ WorkEnds(r) \/ Cancel(r)

-----------------------------------------------------------------------------
\* Nothing a run started is still there when the run is over: on every path out,
\* refusals, deadlines and cancellations included, unless the daemon itself did
\* not answer, or a host process's caller was cancelled.
NoOrphans ==
    \A r \in Runs :
        /\ run[r].pc \in {"collected", "done"}
        /\ late[r] = {}
        /\ ~(run[r].cancelled /\ kind # "docker")
        => box[r] \notin {"created", "running"}

\* A run is reported as good only if its work ran to its own end with status 0:
\* never when the sandbox killed it, nor when it never started.
OkIsEarned ==
    \A r \in Runs :
        run[r].pc = "done" /\ ok(run[r]) => code[r] = 0 /\ ~run[r].breached

\* What a result says of its containment is what was in force when the work
\* ran: gVisor for VM, separate namespaces for NAMESPACE.
ReportedIsolationHeld ==
    \A r \in Runs :
        run[r].pc = "done" /\ run[r].used # "none" =>
            /\ run[r].level = "VM" => run[r].used = "runsc"
            /\ run[r].level = "NAMESPACE" => run[r].used # "process"

\* A run that has reported left nothing behind, and reports success only of work
\* that ended well.
SandboxSound == NoOrphans /\ OkIsEarned
=============================================================================
