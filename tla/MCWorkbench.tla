---------------------------- MODULE MCWorkbench ----------------------------
(* The parts of the workbench, one per scene: the sandbox that runs work,   *)
(* the two watchdogs over it, the workspace it is validated in, the agent   *)
(* loop that drives it.                                                     *)
EXTENDS Sandbox, Coder, Workspace, Watchdog

CONSTANT Scenes

VARIABLE scene

\* Permission rules: a denied argument; an argument allowed without asking;
\* an ask rule on a read-only tool.
Rule(outcome, tool, arg) == [outcome |-> outcome, tool |-> tool, arg |-> arg]

MCRuleSets ==
    { {Rule("deny", "submit_task", "secret")},
      {Rule("allow", "submit_task", "secret"), Rule("deny", "remember_fact", "secret")},
      {Rule("ask", "list_tasks", "any"), Rule("allow", "remember_fact", "any")} }

\* Patches: two hunks and a new file; a removal; two sections for one file; an
\* escaping path.
Hunk(start, source, target) == [start |-> start, source |-> source, target |-> target]
Section(path, action, hunks) == [path |-> path, action |-> action, hunks |-> hunks]

MCStartFiles ==
    { [p \in Paths |-> IF p = "f" THEN <<"a", "b", "a">> ELSE Missing],
      [p \in Paths |-> IF p = "f" THEN <<"b", "a">> ELSE <<"a">>] }

MCPatches ==
    { <<Section("f", "MODIFY", <<Hunk(2, <<"b">>, <<"b", "c">>), Hunk(3, <<"a">>, <<>>)>>),
        Section("g", "CREATE", <<Hunk(0, <<>>, <<"c">>)>>)>>,
      <<Section("g", "DELETE", <<Hunk(1, <<"a">>, <<>>)>>),
        Section("f", "MODIFY", <<Hunk(1, <<"a">>, <<"c">>)>>)>>,
      <<Section("f", "MODIFY", <<Hunk(1, <<"b">>, <<"b", "c">>)>>),
        Section("f", "MODIFY", <<Hunk(1, <<"a">>, <<"b">>)>>)>>,
      <<Section("outside", "CREATE", <<Hunk(0, <<>>, <<"c">>)>>)>> }

\* One value of a part's variables, for the scenes in which it has no part.
BoxAside ==
    /\ kind = "subprocess" /\ chosen = "auto" /\ runtime = "runc" /\ registered = FALSE
    /\ healthy = "none" /\ available = "none" /\ troubles = 0
    /\ run = [r \in Runs |-> Fresh] /\ box = [r \in Runs |-> "none"]
    /\ code = [r \in Runs |-> NoCode] /\ late = [r \in Runs |-> {}]

CoderAside ==
    /\ mode = "ask" /\ rules = {} /\ hook = "none" /\ loop = Idle
    /\ turns = <<>> /\ lines = <<>> /\ executed = {} /\ crashes = 0
    /\ row = "none" /\ daemon = "idle" /\ facts = 0

SpaceAside ==
    /\ fs = NotCaptured /\ patch = <<>> /\ before = fs /\ backup = fs /\ manifest = fs
    /\ asked = [schema |-> "ok", scan |-> "ok", drift |-> FALSE, tests |-> FALSE]
    /\ work = [pc |-> "idle", at |-> 0, verdict |-> "none", failed |-> FALSE]
    /\ plan = <<>> /\ journal = <<>> /\ faults = 0 /\ edited = FALSE

DogAside == tier = "psutil" /\ jobActive

Init ==
    /\ scene \in Scenes /\ HeartInit /\ DogInit
    /\ scene # "watchdog" => DogAside
    /\ IF scene = "sandbox" THEN BoxInit ELSE BoxAside
    /\ IF scene = "coder" THEN CoderInit ELSE CoderAside
    /\ IF scene = "workspace" THEN SpaceInit ELSE SpaceAside

Sandboxed == scene = "sandbox" /\ BoxNext /\ UNCHANGED <<scene, coderVars, spaceVars, watchVars>>
Looping == scene = "coder" /\ LoopStep /\ UNCHANGED <<scene, boxVars, spaceVars, watchVars>>
Coding == scene = "coder" /\ CoderNext /\ UNCHANGED <<scene, boxVars, spaceVars, watchVars>>
Patching == scene = "workspace" /\ SpaceNext /\ UNCHANGED <<scene, boxVars, coderVars, watchVars>>

Beating ==
    scene = "heartbeat" /\ HeartNext /\ UNCHANGED <<scene, boxVars, coderVars, spaceVars, dogVars>>
Watching ==
    scene = "watchdog" /\ DogNext /\ UNCHANGED <<scene, boxVars, coderVars, spaceVars, heartVars>>

Next == Sandboxed \/ Coding \/ Patching \/ Beating \/ Watching

vars == <<scene, boxVars, coderVars, spaceVars, watchVars>>

\* The event loop goes on running a call it has begun.
Spec == Init /\ [][Next]_vars /\ WF_vars(Looping)

\* Work runs inside what was chosen for it, is stopped when it leaves that, and
\* a worker that fell silent is noticed once (subprocess_backend.py, watchdog.py).
ContainmentSound == SandboxSound /\ WatchdogSound
=============================================================================
