----------------------------- MODULE MCServices -----------------------------
(* What the runtime calls on: the model router, skills and their secrets,  *)
(* an MCP server, the marketplace, the database connections, the life of   *)
(* the server they are built for.  They share no state, so each behaviour  *)
(* exercises one; the initial state says which.                            *)
EXTENDS ModelRouter, Skills, McpClient, Marketplace, Connections, Lifecycle

VARIABLE scene

serviceVars == <<scene, vars, skillVars, mcpVars, marketVars, connVars, lifeVars>>

\* Requests and deployments cover every provider class, a missing key, a missing
\* frontier and a missing ledger.
Request(modality, permission, force, schema) ==
    [modality |-> modality, mode |-> permission, force |-> force, schema |-> schema]
MCRequests ==
    {Request(2, "ASK", FALSE, "none"), Request(2, "ASK", TRUE, "object"),
     Request(3, "LOCKDOWN", TRUE, "object"), Request(0, "ASK", TRUE, "none"),
     Request(2, "ASK", TRUE, "malformed")}

Built(local, frontier, key, attached) ==
    [local |-> local, frontier |-> frontier, key |-> key, ledger |-> attached, mode |-> "LOCKDOWN"]
MCDeployments ==
    {Built("ollama", "anthropic", TRUE, TRUE), Built("echo", "gemini", TRUE, TRUE),
     Built("echo", "gemini", FALSE, TRUE), Built("llamacpp", "openai_compatible", FALSE, FALSE),
     Built("echo", "none", FALSE, TRUE)}

\* Two contracts of one version, and one for each kind of provider.
MCContracts ==
    {[version |-> 1, perms |-> {}, provider |-> "native"],
     [version |-> 1, perms |-> {"FILE_DELETE"}, provider |-> "native"],
     [version |-> 2, perms |-> {"SECRET_READ"}, provider |-> "claw_hub"],
     [version |-> 3, perms |-> {}, provider |-> "mcp_server"],
     [version |-> 4, perms |-> {}, provider |-> "marketplace"]}

\* A good package, one whose files were changed, one signed with another key,
\* one unsigned and flagged, one that wants a permission.
Package(version, files, hash, signed, key, signer, scan, perms) ==
    [name |-> "p", version |-> version, files |-> files, hash |-> hash, signed |-> signed,
     key |-> key, signer |-> signer, scan |-> scan, perms |-> perms]
MCPackages ==
    {Package(1, "f", "f", TRUE, "k1", "k1", "clean", {}),
     Package(1, "g", "f", TRUE, "k1", "k1", "clean", {}),
     Package(1, "g", "g", TRUE, "k1", "k2", "clean", {}),
     Package(1, "g", "g", FALSE, "k1", "k1", "flagged", {}),
     Package(2, "f", "f", TRUE, "k2", "k2", "clean", {"NET_EGRESS"})}
MCPostures ==
    {[unverified |-> FALSE, scanner |-> TRUE, mode |-> "ASK", secure |-> TRUE],
     [unverified |-> TRUE, scanner |-> FALSE, mode |-> "LOCKDOWN", secure |-> TRUE],
     [unverified |-> TRUE, scanner |-> TRUE, mode |-> "ASK", secure |-> FALSE]}

\* One value of the router's inputs, for the scenes in which it has no part.
RouterAside ==
    /\ deployment = Built("echo", "none", FALSE, TRUE)
    /\ \A c \in Callers : request[c] = Request(2, "ASK", FALSE, "none")

ServicesInit ==
    /\ scene \in {"router", "dispatch", "secrets", "mcp", "market", "connections", "life"}
    /\ Init /\ SkillInit /\ McpInit /\ MarketInit /\ ConnInit /\ LifeInit
    /\ scene # "router" => RouterAside
    /\ scene # "dispatch" => \A d \in Dispatchers : mode[d] = "SAFE"
    /\ scene # "market" => \A i \in Installers : posture[i].scanner /\ posture[i].secure
    /\ scene # "connections" => \A w \in Writers : task[w].op = "write"

\* The scene's part takes a step A; the other parts' variables stand still.
SceneStep(name, A, idle) == scene = name /\ A /\ UNCHANGED <<scene, idle>>

Routing(A) == SceneStep("router", A, <<skillVars, mcpVars, marketVars, connVars, lifeVars>>)
Dispatching(A) == SceneStep("dispatch", A, <<vars, mcpVars, marketVars, connVars, lifeVars>>)
Brokering(A) == SceneStep("secrets", A, <<vars, mcpVars, marketVars, connVars, lifeVars>>)
Calling(A) == SceneStep("mcp", A, <<vars, skillVars, marketVars, connVars, lifeVars>>)
Installing(A) == SceneStep("market", A, <<vars, skillVars, mcpVars, connVars, lifeVars>>)
Connecting(A) == SceneStep("connections", A, <<vars, skillVars, mcpVars, marketVars, lifeVars>>)
Living(A) == SceneStep("life", A, <<vars, skillVars, mcpVars, marketVars, connVars>>)

ServicesNext ==
    \/ Routing(Next)
    \/ Dispatching(DispatchNext)
    \/ Brokering(BrokerNext)
    \/ Calling(McpNext)
    \/ Installing(MarketNext)
    \/ Connecting(ConnNext)
    \/ Living(LifeNext)

\* The event loop goes on running the calls and tasks it has begun: httpx ends
\* an exchange at its timeout, asyncio.Lock serves its waiters in turn, and a
\* cancelled task is run until it has unwound.
ServicesSpec ==
    /\ ServicesInit /\ [][ServicesNext]_serviceVars
    /\ \A c \in Callers : WF_serviceVars(Routing(Step(c)))
    /\ \A w \in Writers : WF_serviceVars(Connecting(WriterStep(w)))
    /\ \A r \in Readers : WF_serviceVars(Connecting(ReaderStep(r)))
    /\ WF_serviceVars(Living(ServeStep))
    /\ \A l \in Loops : WF_serviceVars(Living(LoopStep(l)))

\* Nothing that was begun stays under way: not a call of a model, of the
\* database or of close() (router.py, database.py, daemon.py, runtime.py).
EverythingEnds == EveryCallEnds /\ CallsEnd /\ ShutdownEnds
=============================================================================
