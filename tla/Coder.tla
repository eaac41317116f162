------------------------------- MODULE Coder -------------------------------
(***************************************************************************)
(* The interactive agent: one AgentLoop.run, its permission policy and     *)
(* hooks, the session transcript it writes, and the remember_fact tool,    *)
(* whose cold-lake row the daemon's MemoryCreator may claim as well.       *)
(*                                                                         *)
(* A tool's arguments are one of a few values, which is what a rule's      *)
(* pattern tells apart.  Every remember_fact call has the same text, hence *)
(* the same external id and the same row.                                  *)
(***************************************************************************)
EXTENDS Naturals, Sequences, FiniteSets

CONSTANTS
    Arguments,   \* values a tool may be called with
    Redacted,    \* what a rewriting hook makes of them
    RuleSets,    \* sets of permission rules to explore
    MaxSteps,    \* max_steps
    MaxCalls,    \* tool calls in one model turn
    MaxTokens,   \* max_tokens, 0 for none
    MaxCrashes   \* bound: process crashes

ASSUME CoderAssumption ==
    Redacted \in Arguments /\ MaxSteps \in Nat /\ MaxCalls \in Nat /\ MaxCrashes \in Nat

VARIABLES
    mode,      \* PermissionMode
    rules,     \* the deny, allow and ask rules
    hook,      \* what the PRE_TOOL_USE hook does
    loop,      \* the state of AgentLoop.run
    turns,     \* Session._turns
    lines,     \* the transcript file
    executed,  \* ghost: the latest tool.run, with what allowed it
    row,       \* sync_status of the cold-lake row, "none" before record()
    daemon,    \* "idle" or "working": the creator's hold on the row
    facts,     \* facts committed from the row
    crashes

coderVars == <<mode, rules, hook, loop, turns, lines, executed, row, daemon, facts, crashes>>

Tools == {"list_tasks", "submit_task", "remember_fact"}

READ_ONLY_TOOLS == {"list_tasks"}

Mutating(tool) == tool \in {"submit_task", "remember_fact"}

Torn == [role |-> "torn"]

Idle == [pc |-> "idle", steps |-> 0, calls |-> <<>>, args |-> Redacted, asked |-> FALSE,
         claimed |-> FALSE, report |-> "none", stopped |-> "none"]

config == <<mode, rules, hook>>

memoryRow == <<row, daemon, facts>>

Call == Head(loop.calls)

Turn(role) == [role |-> role]

\* Session.append: in memory, then one line of the file.
Append1(t) == turns' = Append(turns, t) /\ lines' = Append(lines, t)

TotalTokens == Cardinality({i \in DOMAIN turns : turns[i].role = "assistant"})

LastSummary(s) ==
    LET at == {i \in DOMAIN s : s[i].role = "summary"} IN
    IF at = {} THEN 0 ELSE CHOOSE i \in at : \A j \in at : j <= i

\* Session.window: from the last summary on.
window(s) == IF LastSummary(s) = 0 THEN s ELSE SubSeq(s, LastSummary(s), Len(s))

-----------------------------------------------------------------------------
(* ToolPermissionPolicy *)

\* A rule names a tool and, possibly, an argument pattern.
matches(rule, tool, arg) == rule.tool = tool /\ rule.arg \in {"any", arg}

Ruled(outcome, tool, arg) ==
    \E rule \in rules : rule.outcome = outcome /\ matches(rule, tool, arg)

\* accept_edits decides like ask: none of the runtime's tools is an edit tool.
mode_default(tool) ==
    CASE mode = "bypass" -> "allow"
      [] mode = "plan"   -> "allow"
      [] OTHER           -> "ask"

evaluate(tool, arg) ==
    CASE Ruled("deny", tool, arg)                               -> "deny"
      [] ~Ruled("deny", tool, arg) /\ mode = "plan" /\ Mutating(tool) -> "deny"
      [] OTHER -> IF tool \in READ_ONLY_TOOLS \/ Ruled("allow", tool, arg) THEN "allow"
                  ELSE IF Ruled("ask", tool, arg) THEN "ask" ELSE mode_default(tool)

-----------------------------------------------------------------------------
(* AgentLoop *)

UserMessage ==
    /\ loop.pc = "idle"
    /\ loop' = [loop EXCEPT !.pc = "propose"]
    /\ Append1(Turn("user"))
    /\ UNCHANGED <<config, executed, memoryRow, crashes>>

\* propose: text, and up to MaxCalls calls; _to_turn drops what it cannot read.
Propose ==
    /\ loop.pc = "propose"
    /\ \E n \in 0 .. MaxCalls : \E cs \in [1 .. n -> [tool : Tools \union {"unknown"}, arg : Arguments]] :
       \E said \in BOOLEAN :
         /\ IF said THEN Append1(Turn("assistant")) ELSE UNCHANGED <<turns, lines>>
         /\ loop' = [loop EXCEPT
              !.pc = IF n = 0 THEN "done" ELSE "call",
              !.stopped = IF n = 0 THEN "model_finished" ELSE @,
              !.calls = cs,
              !.steps = @ + 1]
    /\ UNCHANGED <<config, executed, memoryRow, crashes>>

\* _handle_call starts: the call is in the transcript before anything is decided.
RecordCall ==
    /\ loop.pc = "call"
    /\ Append1(Turn("tool_call"))
    /\ loop' = [loop EXCEPT !.pc = IF Call.tool \in Tools THEN "hook" ELSE "refused",
                            !.args = Call.arg, !.asked = FALSE, !.claimed = FALSE,
                            !.report = "none"]
    /\ UNCHANGED <<config, executed, memoryRow, crashes>>

\* HookRegistry.fire: ctx.mutable_arguments afterwards.  A hook that raises is no block.
Fire(arg) == IF hook = "rewrite" THEN Redacted ELSE arg

PreToolUse ==
    /\ loop.pc = "hook"
    /\ loop' = [loop EXCEPT !.pc = IF hook = "block" THEN "refused" ELSE "permission",
                            !.args = Fire(@)]
    /\ UNCHANGED <<config, turns, lines, executed, memoryRow, crashes>>

CheckedArgs_Original == Call.arg

\* The permission check sees the arguments the tool will run with.
CheckedArgs == loop.args

CheckPermission ==
    /\ loop.pc = "permission"
    /\ loop' = [loop EXCEPT !.pc =
         CASE evaluate(Call.tool, CheckedArgs) = "deny" -> "refused"
           [] evaluate(Call.tool, CheckedArgs) = "ask"  -> "confirm"
           [] OTHER                                     -> "run"]
    /\ UNCHANGED <<config, turns, lines, executed, memoryRow, crashes>>

Confirm ==
    /\ loop.pc = "confirm"
    /\ \E yes \in BOOLEAN :
         loop' = [loop EXCEPT !.pc = IF yes THEN "run" ELSE "refused", !.asked = yes]
    /\ UNCHANGED <<config, turns, lines, executed, memoryRow, crashes>>

\* tool.run, which may raise; remember_fact is a chain of awaits of its own.
RunTool ==
    /\ loop.pc = "run"
    /\ executed' = {[tool |-> Call.tool, arg |-> loop.args, asked |-> loop.asked]}
    /\ IF Call.tool = "remember_fact"
         THEN loop' = [loop EXCEPT !.pc = "claim"]
              /\ row' = IF row = "none" THEN "unprocessed" ELSE row
         ELSE (\E raised \in BOOLEAN :
                 loop' = [loop EXCEPT !.pc = IF raised THEN "refused" ELSE "result"])
              /\ UNCHANGED row
    /\ UNCHANGED <<config, turns, lines, daemon, facts, crashes>>

\* Every way out of _handle_call leaves one result turn, with or without the tool.
RecordResult ==
    /\ loop.pc \in {"refused", "result"}
    /\ Append1(Turn("tool_result"))
    /\ loop' = [loop EXCEPT !.pc = IF Len(loop.calls) > 1 THEN "call" ELSE "budget",
                            !.calls = Tail(@), !.report = "none"]
    /\ executed' = {}
    /\ UNCHANGED <<config, memoryRow, crashes>>

CheckBudget ==
    /\ loop.pc = "budget"
    /\ loop' = [loop EXCEPT
         !.pc = IF (MaxTokens > 0 /\ TotalTokens >= MaxTokens) \/ loop.steps >= MaxSteps
                THEN "done" ELSE "propose",
         !.stopped = IF MaxTokens > 0 /\ TotalTokens >= MaxTokens
                     THEN "token_budget_exhausted"
                     ELSE IF loop.steps >= MaxSteps THEN "max_steps_reached" ELSE "none"]
    /\ UNCHANGED <<config, turns, lines, executed, memoryRow, crashes>>

-----------------------------------------------------------------------------
(* remember_fact, and the daemon's batch on the same row *)

\* _claim: one conditional UPDATE.  The tool read the status record() returned.
CanClaim == row = "unprocessed"

Claim ==
    /\ loop.pc = "claim"
    /\ IF CanClaim
         THEN row' = "processing" /\ loop' = [loop EXCEPT !.pc = "process", !.claimed = TRUE]
         ELSE loop' = [loop EXCEPT !.pc = "settle"] /\ UNCHANGED row
    /\ UNCHANGED <<config, turns, lines, executed, daemon, facts, crashes>>

\* process_signal commits the facts and closes the row in one transaction.  A
\* malformed signal is closed like a quarantined one: settled, nothing written.
Settled == {"processed", "quarantined"}

Commit(outcome, wrote) ==
    /\ row' = outcome
    /\ facts' = IF outcome = "processed" /\ wrote THEN facts + 1 ELSE facts

Process ==
    /\ loop.pc = "process"
    /\ \/ \E outcome \in Settled, wrote \in BOOLEAN :
            /\ Commit(outcome, wrote)
            /\ loop' = [loop EXCEPT !.pc = "result",
                 !.report = IF outcome = "processed" /\ ~wrote THEN "ignored" ELSE outcome]
       \/ /\ row' = "unprocessed" /\ UNCHANGED facts
          /\ loop' = [loop EXCEPT !.pc = "refused"]
    /\ UNCHANGED <<config, turns, lines, executed, daemon, crashes>>

Verdict ==
    CASE row \in {"processing", "unprocessed"} -> "pending"
      [] row = "processed" /\ facts = 0        -> "ignored"
      [] OTHER                                 -> row

AwaitSettled_NoDeadline ==
    /\ loop.pc = "settle" /\ row # "processing"
    /\ loop' = [loop EXCEPT !.pc = "result", !.report = Verdict]
    /\ UNCHANGED <<config, turns, lines, executed, memoryRow, crashes>>

\* _await_settled polls until the row leaves processing or two seconds pass.
AwaitSettled ==
    /\ loop.pc = "settle"
    /\ loop' = [loop EXCEPT !.pc = "result", !.report = Verdict]
    /\ UNCHANGED <<config, turns, lines, executed, memoryRow, crashes>>

\* run_batch: claims, and later commits, or gives the row back when it is cancelled.
DaemonStep ==
    /\ \/ /\ daemon = "idle" /\ row = "unprocessed"
          /\ daemon' = "working" /\ row' = "processing" /\ UNCHANGED facts
       \/ /\ daemon = "working" /\ daemon' = "idle"
          /\ \/ \E outcome \in Settled, wrote \in BOOLEAN : Commit(outcome, wrote)
             \/ row' = "unprocessed" /\ UNCHANGED facts
    /\ UNCHANGED <<config, loop, turns, lines, executed, crashes>>

-----------------------------------------------------------------------------
(* Session *)

KeepLast == 2

Compacted(s) ==
    <<Turn("summary")>> \o SubSeq(s, IF Len(s) > KeepLast THEN Len(s) - KeepLast + 1 ELSE 1, Len(s))

\* compact leaves the file as it is but for the summary's line.
CompactFile == Append(lines, Turn("summary"))

Compact ==
    /\ loop.pc = "done" /\ LastSummary(lines) = 0    \* bound: one compaction
    /\ turns' = Compacted(turns) /\ lines' = CompactFile
    /\ UNCHANGED <<config, loop, executed, memoryRow, crashes>>

Clear ==
    /\ loop.pc = "done" /\ turns # <<>>
    /\ turns' = <<>>
    /\ UNCHANGED <<config, loop, lines, executed, memoryRow, crashes>>

\* The process dies; a line longer than the write buffer may be cut in the middle.
Crash ==
    /\ crashes < MaxCrashes /\ loop.pc \notin {"idle", "crashed", "unresumable"}
    /\ crashes' = crashes + 1
    /\ loop' = [loop EXCEPT !.pc = "crashed"]
    /\ \/ UNCHANGED lines
       \/ loop.pc \in {"call", "refused", "result"} /\ lines' = Append(lines, Torn)
    /\ UNCHANGED <<config, turns, executed, memoryRow>>

\* resume: a replay of the file, and json.loads of a torn line raises.
Resume ==
    /\ loop.pc = "crashed"
    /\ IF \E i \in DOMAIN lines : lines[i] = Torn
         THEN turns' = <<>> /\ loop' = [loop EXCEPT !.pc = "unresumable"]
         ELSE turns' = lines /\ loop' = [Idle EXCEPT !.pc = "idle"]
    /\ UNCHANGED <<config, lines, executed, memoryRow, crashes>>

-----------------------------------------------------------------------------
CoderInit ==
    /\ mode \in {"ask", "plan", "bypass"}
    /\ rules \in RuleSets
    /\ hook \in {"none", "rewrite", "block"}
    /\ loop = Idle
    /\ turns = <<>> /\ lines = <<>>
    /\ executed = {}
    /\ row = "none" /\ daemon = "idle" /\ facts = 0
    /\ crashes = 0

LoopStep ==
    \/ Propose \/ RecordCall \/ PreToolUse \/ CheckPermission \/ Confirm \/ RunTool
    \/ RecordResult \/ CheckBudget \/ Claim \/ Process \/ AwaitSettled

CoderNext ==
    \/ UserMessage \/ LoopStep \/ DaemonStep \/ Compact \/ Clear \/ Crash \/ Resume

-----------------------------------------------------------------------------
\* Whatever ran was allowed with the very arguments it ran with: no deny rule
\* matches them, plan mode let nothing mutating through, and what no rule, no
\* mode and no read-only list allows ran only on a yes.
ExecutedIsPermitted ==
    \A e \in executed :
        /\ evaluate(e.tool, e.arg) # "deny"
        /\ evaluate(e.tool, e.arg) = "ask" => e.asked

\* A text is remembered at most once, whoever gets to its row, and a call says
\* "processed" only about facts that are in memory.
RememberedOnce ==
    /\ facts <= 1
    /\ loop.report = "processed" => facts = 1

\* A crash costs at most the turn in flight: the session can be resumed.
CrashLosesOnlyTheTurnInFlight == loop.pc # "unresumable"

\* A run of the loop ends: the model finished, or a limit was reached.
LoopEnds == [](loop.pc = "propose" => <>(loop.pc \in {"done", "crashed"}))

\* A tool runs with the arguments that were permitted, and a fact is remembered
\* once.
CoderSound == ExecutedIsPermitted /\ RememberedOnce
=============================================================================
