------------------------------- MODULE Skills -------------------------------
(* One skill in the registry, the unified adapter that dispatches calls to *)
(* it, and the broker that keeps the secrets a native skill may ask for.   *)
EXTENDS Integers, FiniteSets

CONSTANTS
    Dispatchers,   \* tasks that dispatch one call each
    Contracts,     \* contracts that may be registered: [version, perms, provider]
    Modes,         \* permission modes a call may run under
    HasSandbox,    \* whether dispatchers are given a sandbox
    FullWeight,    \* reliability_weight 1.0, in steps
    WeightUp, WeightDown,
    SecretNames, SecretValues

ASSUME WeightAssumption == {FullWeight, WeightUp, WeightDown} \subseteq Nat

NoRow == [version |-> 0]

NoSecret == "absent"

VARIABLES
    row,       \* the skill's row of hot_serving_skill_registry, or NoRow
    dpc,       \* [Dispatchers -> where a dispatch stands]
    contract,  \* [Dispatchers -> the contract it read]
    mode,      \* [Dispatchers -> Modes]
    executed,  \* the contracts dispatchers have executed: <<dispatcher, contract>>
    broker,    \* "up" or "down"
    memory,    \* _store.entries of the running broker
    disk,      \* the store file
    wanted     \* [SecretNames -> the values a reader may find after a restart]

regVars == <<row, dpc, contract, mode, executed>>

secVars == <<broker, memory, disk, wanted>>

skillVars == <<row, dpc, contract, mode, executed, broker, memory, disk, wanted>>

AllPermissions ==
    {"SANDBOX_RUN", "WRITE_HOT", "WRITE_COLD", "NET_EGRESS", "EXTERNAL_WRITE", "FILE_DELETE",
     "SCHEMA_MIGRATE", "SECRET_READ", "MODEL_ESCALATE", "CROSS_SESSION_READ"}

Granted(m) ==
    CASE m \in {"AUTO", "ASK"} -> AllPermissions \ {"SCHEMA_MIGRATE"}
      [] m = "SUPERVISED" -> {"SANDBOX_RUN", "SECRET_READ", "MODEL_ESCALATE", "CROSS_SESSION_READ"}
      [] m = "LOCKDOWN" -> {"SANDBOX_RUN"}
      [] m = "SAFE" -> AllPermissions \ {"FILE_DELETE", "SCHEMA_MIGRATE", "EXTERNAL_WRITE"}
      [] m = "HIGH_RISK" -> AllPermissions

(* claw_hub skills always need the sandbox permission, MCP tools egress.   *)
required_permissions(k) ==
    k.perms \union (CASE k.provider = "claw_hub" -> {"SANDBOX_RUN"}
                      [] k.provider = "mcp_server" -> {"NET_EGRESS"}
                      [] OTHER -> {})

missing_permissions(k, m) == required_permissions(k) \ Granted(m)

(***************************************************************************)
(* SkillRegistry                                                           *)
(***************************************************************************)
(* register(): the row of the same version is only re-activated, whatever  *)
(* else the contract says; another version replaces the row.               *)
Register(k) ==
    /\ row' = IF row # NoRow /\ row.version = k.version
              THEN [row EXCEPT !.active = TRUE]
              ELSE [version |-> k.version, contract |-> k, active |-> TRUE, weight |-> FullWeight]
    /\ UNCHANGED <<dpc, contract, mode, executed, secVars>>

Deactivate ==
    /\ row # NoRow /\ row.active
    /\ row' = [row EXCEPT !.active = FALSE]
    /\ UNCHANGED <<dpc, contract, mode, executed, secVars>>

(* update_reliability(): clamped, in one transaction, by skill name.       *)
Clamp(w) == IF w < 0 THEN 0 ELSE IF w > FullWeight THEN FullWeight ELSE w

UpdateReliability(delta) ==
    row' = IF row = NoRow THEN row ELSE [row EXCEPT !.weight = Clamp(@ + delta)]

(***************************************************************************)
(* UnifiedSkillAdapter.dispatch                                            *)
(***************************************************************************)
(* The contract is read, its input schema checked, its permissions         *)
(* compared with the mode's grants and its adapter looked up; claw_hub     *)
(* refuses to run without a sandbox.                                       *)
Refusal(c) ==
    IF missing_permissions(contract'[c], mode[c]) # {} THEN "denied"
    ELSE IF contract'[c].provider = "marketplace" THEN "no adapter"
    ELSE IF contract'[c].provider = "claw_hub" /\ ~HasSandbox THEN "no sandbox"
    ELSE "none"

Dispatch(c) ==
    /\ dpc[c] = "idle"
    /\ IF row = NoRow \/ ~row.active
       THEN dpc' = [dpc EXCEPT ![c] = "unknown skill"] /\ UNCHANGED contract
       ELSE /\ contract' = [contract EXCEPT ![c] = row.contract]
            /\ \/ dpc' = [dpc EXCEPT ![c] = "bad arguments"]
               \/ dpc' = [dpc EXCEPT ![c] = IF Refusal(c) = "none" THEN "invoking" ELSE Refusal(c)]
    /\ UNCHANGED <<row, mode, executed, secVars>>

(* adapter.invoke(): the skill runs, and ends well, badly, with a timeout  *)
(* or with an error of its own.                                            *)
Invoked_Reread(c) == row.contract

Invoked(c) == contract[c]

InvokeSkill(c) ==
    /\ dpc[c] = "invoking"
    /\ executed' = executed \union {<<c, Invoked(c)>>}
    /\ \E result \in {"ok", "failed"} : dpc' = [dpc EXCEPT ![c] = result]
    /\ UNCHANGED <<row, contract, mode, secVars>>

(* _finalise(): a failure and an output that breaks the schema both cost   *)
(* reliability.                                                            *)
Finalise(c) ==
    /\ \/ dpc[c] = "failed" /\ UpdateReliability(-WeightDown)
       \/ dpc[c] = "ok" /\ \E delta \in {WeightUp, -WeightDown} : UpdateReliability(delta)
    /\ dpc' = [dpc EXCEPT ![c] = "done"]
    /\ UNCHANGED <<contract, mode, executed, secVars>>

(***************************************************************************)
(* SecretBroker                                                            *)
(***************************************************************************)
(* _flush(): the whole store is written to a temporary file that replaces  *)
(* the store.  It may raise, or the process may die, before the rename.    *)
FlushOutcomes(entries) ==
    {[file |-> entries, end |-> "returned"], [file |-> disk, end |-> "raised"],
     [file |-> disk, end |-> "died"], [file |-> entries, end |-> "died"]}

(* put() and delete() change the entries in memory and flush them.  What   *)
(* an attempt may leave behind is added to what a reader may find, and a   *)
(* successful one narrows it to its own value.                             *)
Store(n, v) ==
    LET entries == [memory EXCEPT ![n] = v]
    IN  \E out \in FlushOutcomes(entries) :
            /\ disk' = out.file
            /\ broker' = IF out.end = "died" THEN "down" ELSE "up"
            /\ memory' = entries
            /\ wanted' = IF out.end = "returned"
                         THEN [k \in SecretNames |-> {entries[k]}]
                         ELSE [wanted EXCEPT ![n] = @ \union {v}]

PutSecret(n, v) ==
    /\ broker = "up"
    /\ Store(n, v)
    /\ UNCHANGED regVars

DeleteSecret(n) ==
    /\ broker = "up" /\ memory[n] # NoSecret
    /\ Store(n, NoSecret)
    /\ UNCHANGED regVars

(* The process ends, and a new broker reads the file; what was only in     *)
(* memory is gone.                                                         *)
RestartBroker ==
    /\ broker' = "up"
    /\ memory' = disk
    /\ wanted' = [n \in SecretNames |-> {disk[n]}]
    /\ broker = "down"
    /\ UNCHANGED <<disk, regVars>>

KillBroker ==
    /\ broker = "up"
    /\ broker' = "down"
    /\ UNCHANGED <<memory, disk, wanted, regVars>>

SkillInit ==
    /\ row = NoRow
    /\ dpc = [c \in Dispatchers |-> "idle"]
    /\ contract = [c \in Dispatchers |-> NoRow]
    /\ mode \in [Dispatchers -> Modes]
    /\ executed = {}
    /\ broker = "up"
    /\ memory = [n \in SecretNames |-> NoSecret]
    /\ disk = memory
    /\ wanted = [n \in SecretNames |-> {NoSecret}]

DispatchNext ==
    \/ \E k \in Contracts : Register(k)
    \/ Deactivate
    \/ \E c \in Dispatchers : Dispatch(c) \/ InvokeSkill(c) \/ Finalise(c)

BrokerNext ==
    \/ \E n \in SecretNames : DeleteSecret(n) \/ \E v \in SecretValues : PutSecret(n, v)
    \/ KillBroker \/ RestartBroker

(* What runs is what was checked: an upgrade, a deactivation or another    *)
(* registration while a dispatch is under way never lets a skill run with  *)
(* permissions its caller's mode does not grant.                           *)
CheckedIsRun == \A e \in executed : required_permissions(e[2]) \subseteq Granted(mode[e[1]])

(* The store file holds, for every name, the last value whose put or       *)
(* delete returned, or one whose put or delete was attempted since; a      *)
(* crash or a full disk in the middle of a flush loses nothing else.       *)
SecretsSurvive == \A n \in SecretNames : disk[n] \in wanted[n]

\* What runs is the contract that was checked, and a stored secret survives
\* whatever happens to the broker while it writes.
SkillsSound == CheckedIsRun /\ SecretsSurvive
=============================================================================
