--------------------------- MODULE WorkbenchProofs ---------------------------
(***************************************************************************)
(* Proofs about the workbench: the agent loop and its permissions, the two *)
(* watchdogs, the workspace a patch is applied in, the sandbox.  Each part *)
(* has an inductive invariant over its own steps; the last theorem carries *)
(* them over to the steps of all parts.                                    *)
(***************************************************************************)
EXTENDS MCWorkbench, TLAPS

-----------------------------------------------------------------------------
(* Sequences *)

LEMMA Parts ==
    ASSUME NEW S, NEW s \in Seq(S), s # <<>>
    PROVE  Head(s) \in S /\ Tail(s) \in Seq(S) /\ (Len(s) > 1 => Tail(s) # <<>>)
  <1>1. Head(s) \in S
    OBVIOUS
  <1>2. Tail(s) \in Seq(S) /\ Len(Tail(s)) = Len(s) - 1
    OBVIOUS
  <1>3. Len(s) > 1 => Tail(s) # <<>>
    <2>1. Len(<<>>) = 0
      OBVIOUS
    <2>2. Len(s) > 1 => Len(Tail(s)) # 0
      BY <1>2
    <2> QED
      BY <2>1, <2>2
  <1> QED
    BY <1>1, <1>2, <1>3

LEMMA Listed ==
    ASSUME NEW S, NEW n \in Nat, NEW s \in [1 .. n -> S]
    PROVE  s \in Seq(S) /\ (n # 0 => s # <<>>)
  OBVIOUS

-----------------------------------------------------------------------------
(* Coder: the agent loop *)

CoderSpec == CoderInit /\ [][CoderNext]_coderVars

\* The control points between the record of a call and the record of its result.
InCall ==
    {"call", "hook", "permission", "confirm", "run", "claim", "process", "settle", "refused",
     "result"}

Calls == [tool : Tools \union {"unknown"}, arg : Arguments]

Loops ==
    [pc : InCall \union {"idle", "propose", "budget", "done", "crashed", "unresumable"},
     steps : Nat, calls : Seq(Calls),
     args : Arguments, asked : BOOLEAN, claimed : BOOLEAN,
     report : Settled \union {"none", "ignored", "pending"},
     stopped : {"none", "model_finished", "token_budget_exhausted", "max_steps_reached"}]

CallAtHand == loop.pc \in InCall => loop.calls # <<>>

\* What a call with these arguments and this answer from the human may do.
Permitted(tool, arg, yes) ==
    evaluate(tool, arg) # "deny" /\ (evaluate(tool, arg) = "ask" => yes)

\* The decision that let the call through is still the policy's decision about
\* the arguments it is about to run with.
DecisionStands ==
    /\ loop.pc = "confirm" => evaluate(Call.tool, loop.args) # "deny"
    /\ loop.pc = "run" => Permitted(Call.tool, loop.args, loop.asked)
    /\ \A e \in executed : Permitted(e.tool, e.arg, e.asked)

\* The row is held by the tool or by the daemon, never by both, and what is in
\* memory came from a row that is closed.
RowInv ==
    /\ row \in {"none", "unprocessed", "processing"} \union Settled
    /\ daemon \in {"idle", "working"} /\ facts \in {0, 1}
    /\ daemon = "working" => row = "processing" /\ loop.pc # "process"
    /\ loop.pc = "process" => row = "processing"
    /\ facts = 1 => row = "processed"
    /\ loop.report = "processed" => facts = 1

CoderInv == loop \in Loops /\ CallAtHand /\ DecisionStands /\ RowInv

\* The rules, the mode and the hook do not change in a session, so neither does
\* a decision.
LEMMA DecisionsStand ==
    ASSUME UNCHANGED config
    PROVE  \A tool, arg : evaluate(tool, arg)' = evaluate(tool, arg)
  BY DEF config, evaluate, Ruled, mode_default

LEMMA IdleIsALoop == Idle \in Loops
  BY CoderAssumption DEF Idle, Loops, InCall, Settled

LEMMA CoderInitially == CoderInit \/ CoderAside => CoderInv
  <1> SUFFICES ASSUME CoderInit \/ CoderAside PROVE CoderInv
    OBVIOUS
  <1>1. loop = Idle /\ executed = {} /\ row = "none" /\ daemon = "idle" /\ facts = 0
    BY DEF CoderInit, CoderAside
  <1>2. loop \in Loops
    BY <1>1, IdleIsALoop
  <1>3. CallAtHand /\ DecisionStands /\ RowInv
    BY <1>1 DEF Idle, CallAtHand, InCall, DecisionStands, RowInv, Settled
  <1> QED
    BY <1>2, <1>3 DEF CoderInv

\* A step that only moves the loop on.
LEMMA LoopMoves ==
    ASSUME CoderInv, NEW l \in Loops, loop' = l, UNCHANGED <<config, executed, memoryRow>>,
           l.pc \in InCall => l.calls # <<>>,
           l.pc = "confirm" => evaluate(Head(l.calls).tool, l.args) # "deny",
           l.pc = "run" => Permitted(Head(l.calls).tool, l.args, l.asked),
           l.pc # "process",
           l.report = "processed" => facts = 1
    PROVE  CoderInv'
  <1>1. CallAtHand'
    BY DEF CallAtHand
  <1>2. DecisionStands'
    BY DecisionsStand DEF CoderInv, DecisionStands, Permitted, Call
  <1>3. RowInv'
    BY DEF CoderInv, RowInv, memoryRow
  <1> QED
    BY <1>1, <1>2, <1>3 DEF CoderInv

LEMMA CoderSteps == CoderInv /\ [CoderNext]_coderVars => CoderInv'
  <1> SUFFICES ASSUME CoderInv, [CoderNext]_coderVars PROVE CoderInv'
    OBVIOUS
  <1> USE DEF InCall
  <1>0. loop \in Loops /\ CallAtHand /\ DecisionStands /\ RowInv
    BY DEF CoderInv
  <1>1. CASE UserMessage
    <2>1. loop' \in Loops /\ loop'.pc = "propose" /\ loop'.report = loop.report
      BY <1>0, <1>1 DEF UserMessage, Loops
    <2> QED
      BY <1>0, <1>1, <2>1, LoopMoves DEF UserMessage, RowInv
  <1>2. CASE Propose
    <2>0. PICK n \in 0 .. MaxCalls :
            \E cs \in [1 .. n -> [tool : Tools \union {"unknown"}, arg : Arguments]] :
            loop' = [loop EXCEPT
              !.pc = IF n = 0 THEN "done" ELSE "call",
              !.stopped = IF n = 0 THEN "model_finished" ELSE @,
              !.calls = cs,
              !.steps = @ + 1]
      BY <1>2 DEF Propose
    <2>1. PICK cs \in [1 .. n -> [tool : Tools \union {"unknown"}, arg : Arguments]] :
            loop' = [loop EXCEPT
              !.pc = IF n = 0 THEN "done" ELSE "call",
              !.stopped = IF n = 0 THEN "model_finished" ELSE @,
              !.calls = cs,
              !.steps = @ + 1]
      BY <2>0
    <2>2. n \in Nat /\ cs \in [1 .. n -> Calls]
      BY CoderAssumption DEF Calls
    <2>3. cs \in Seq(Calls) /\ (n # 0 => cs # <<>>)
      BY <2>2, Listed
    <2>4. /\ loop' \in Loops
          /\ loop'.calls = cs /\ loop'.report = loop.report
          /\ loop'.pc = IF n = 0 THEN "done" ELSE "call"
      <3>1. loop.steps + 1 \in Nat
        BY <1>0 DEF Loops
      <3> HIDE DEF Calls
      <3> QED
        BY <1>0, <2>1, <2>3, <3>1 DEF Loops
    <2> QED
      BY <1>0, <1>2, <2>3, <2>4, LoopMoves DEF Propose, RowInv
  <1>3. CASE RecordCall
    <2> DEFINE l == [loop EXCEPT !.pc = IF Call.tool \in Tools THEN "hook" ELSE "refused",
                                 !.args = Call.arg, !.asked = FALSE, !.claimed = FALSE,
                                 !.report = "none"]
    <2>1. loop.calls # <<>>
      BY <1>0, <1>3 DEF RecordCall, CallAtHand
    <2>2. Call \in Calls /\ Call.arg \in Arguments
      <3>1. Call \in Calls
        BY <1>0, <2>1, Parts DEF Loops, Call
      <3> QED
        BY <3>1 DEF Calls
    <2>3. l \in Loops /\ l.calls = loop.calls
      BY <1>0, <2>2 DEF Loops
    <2>4. l.pc \in {"hook", "refused"} /\ l.report = "none"
      BY <1>0 DEF Loops
    <2>5. loop' = l /\ UNCHANGED <<config, executed, memoryRow>>
      BY <1>3 DEF RecordCall
    <2> HIDE DEF l
    <2> QED
      BY <2>1, <2>3, <2>4, <2>5, LoopMoves
  <1>4. CASE PreToolUse
    <2>1. Fire(loop.args) \in Arguments
      BY <1>0, CoderAssumption DEF Fire, Loops
    <2>2. loop' \in Loops /\ loop'.calls = loop.calls /\ loop'.report = loop.report
          /\ loop'.pc \in {"refused", "permission"}
      BY <1>0, <1>4, <2>1 DEF PreToolUse, Loops
    <2> QED
      BY <1>0, <1>4, <2>2, LoopMoves DEF PreToolUse, RowInv, CallAtHand
  <1>5. CASE CheckPermission
    <2>1. loop' \in Loops /\ loop'.calls = loop.calls /\ loop'.report = loop.report
          /\ loop'.args = loop.args /\ loop'.asked = loop.asked
          /\ loop'.pc = CASE evaluate(Call.tool, loop.args) = "deny" -> "refused"
                          [] evaluate(Call.tool, loop.args) = "ask"  -> "confirm"
                          [] OTHER                                   -> "run"
      BY <1>0, <1>5 DEF CheckPermission, CheckedArgs, Loops
    <2>2. loop'.pc = "confirm" => evaluate(Call.tool, loop.args) # "deny"
      BY <2>1
    <2>3. loop'.pc = "run" => Permitted(Call.tool, loop.args, loop.asked)
      BY <2>1 DEF Permitted
    <2>4. loop'.pc \in {"refused", "confirm", "run"}
      BY <2>1
    <2> QED
      BY <1>0, <1>5, <2>1, <2>2, <2>3, <2>4, LoopMoves DEF CheckPermission, RowInv, CallAtHand, Call
  <1>6. CASE Confirm
    <2>1. PICK yes \in BOOLEAN :
            loop' = [loop EXCEPT !.pc = IF yes THEN "run" ELSE "refused", !.asked = yes]
      BY <1>6 DEF Confirm
    <2>2. loop' \in Loops /\ loop'.calls = loop.calls /\ loop'.report = loop.report
          /\ loop'.args = loop.args /\ loop'.asked = yes
          /\ loop'.pc = IF yes THEN "run" ELSE "refused"
      BY <1>0, <2>1 DEF Loops
    <2>3. evaluate(Call.tool, loop.args) # "deny"
      BY <1>0, <1>6 DEF Confirm, DecisionStands
    <2> QED
      BY <1>0, <1>6, <2>2, <2>3, LoopMoves DEF Confirm, RowInv, CallAtHand, Call, Permitted
  <1>7. CASE RunTool
    <2>1. Permitted(Call.tool, loop.args, loop.asked)
      BY <1>0, <1>7 DEF RunTool, DecisionStands
    <2>2. UNCHANGED config /\ UNCHANGED <<daemon, facts>>
      BY <1>7 DEF RunTool
    <2>3. loop' \in Loops /\ loop'.calls = loop.calls /\ loop'.report = loop.report
          /\ loop'.pc \in {"claim", "refused", "result"}
      BY <1>0, <1>7 DEF RunTool, Loops
    <2>4. CallAtHand'
      BY <1>0, <1>7, <2>3 DEF CallAtHand, RunTool
    <2>5. \A e \in executed' : Permitted(e.tool, e.arg, e.asked)'
      BY <1>7, <2>1, <2>2, DecisionsStand DEF RunTool, Permitted
    <2>6. DecisionStands'
      BY <2>3, <2>5 DEF DecisionStands
    <2>7. row' = row \/ (row = "none" /\ row' = "unprocessed")
      BY <1>7 DEF RunTool
    <2>8. RowInv'
      BY <1>0, <2>2, <2>3, <2>7 DEF RowInv, Settled
    <2> QED
      BY <2>3, <2>4, <2>6, <2>8 DEF CoderInv
  <1>8. CASE RecordResult
    <2>1. loop.calls # <<>>
      BY <1>0, <1>8 DEF RecordResult, CallAtHand
    <2>2. Tail(loop.calls) \in Seq(Calls) /\ (Len(loop.calls) > 1 => Tail(loop.calls) # <<>>)
      BY <1>0, <2>1, Parts DEF Loops
    <2>3. loop' \in Loops /\ loop'.calls = Tail(loop.calls) /\ loop'.report = "none"
          /\ loop'.pc = IF Len(loop.calls) > 1 THEN "call" ELSE "budget"
      BY <1>0, <1>8, <2>2 DEF RecordResult, Loops
    <2>4. CallAtHand' /\ DecisionStands'
      BY <1>8, <2>2, <2>3 DEF RecordResult, CallAtHand, DecisionStands
    <2>5. RowInv'
      BY <1>0, <1>8, <2>3 DEF RecordResult, RowInv, memoryRow
    <2> QED
      BY <2>3, <2>4, <2>5 DEF CoderInv
  <1>9. CASE CheckBudget
    <2>1. loop' \in Loops /\ loop'.report = loop.report /\ loop'.pc \in {"done", "propose"}
      BY <1>0, <1>9 DEF CheckBudget, Loops
    <2> QED
      BY <1>0, <1>9, <2>1, LoopMoves DEF CheckBudget, RowInv
  <1>10. CASE Claim
    <2>1. loop' \in Loops /\ loop'.calls = loop.calls /\ loop'.report = loop.report
          /\ loop'.pc = IF row = "unprocessed" THEN "process" ELSE "settle"
      <3>1. CASE row = "unprocessed"
        <4>1. loop' = [loop EXCEPT !.pc = "process", !.claimed = TRUE]
          BY <1>10, <3>1 DEF Claim, CanClaim
        <4> QED
          BY <1>0, <3>1, <4>1 DEF Loops
      <3>2. CASE row # "unprocessed"
        <4>1. loop' = [loop EXCEPT !.pc = "settle"]
          BY <1>10, <3>2 DEF Claim, CanClaim
        <4> QED
          BY <1>0, <3>2, <4>1 DEF Loops
      <3> QED
        BY <3>1, <3>2
    <2>2. CallAtHand'
      BY <1>0, <1>10, <2>1 DEF CallAtHand, Claim
    <2>3. DecisionStands'
      BY <1>0, <1>10, <2>1, DecisionsStand DEF DecisionStands, Claim, Permitted
    <2>4. RowInv'
      BY <1>0, <1>10, <2>1 DEF RowInv, Claim, CanClaim, Settled
    <2> QED
      BY <2>1, <2>2, <2>3, <2>4 DEF CoderInv
  <1>11. CASE Process
    <2>1. /\ UNCHANGED <<config, executed, daemon>> /\ loop.pc = "process"
          /\ facts = 0 /\ row = "processing" /\ daemon = "idle"
      BY <1>0, <1>11 DEF Process, RowInv
    <2>2. \/ \E outcome \in Settled, wrote \in BOOLEAN :
               /\ Commit(outcome, wrote)
               /\ loop' = [loop EXCEPT !.pc = "result",
                    !.report = IF outcome = "processed" /\ ~wrote THEN "ignored" ELSE outcome]
          \/ /\ row' = "unprocessed" /\ UNCHANGED facts
             /\ loop' = [loop EXCEPT !.pc = "refused"]
      BY <1>11 DEF Process
    <2>3. loop' \in Loops /\ loop'.calls = loop.calls /\ loop'.pc \in {"result", "refused"}
      BY <1>0, <2>2 DEF Loops, Settled
    <2>4. RowInv'
      <3>1. CASE row' = "unprocessed" /\ UNCHANGED facts /\ loop' = [loop EXCEPT !.pc = "refused"]
        BY <1>0, <2>1, <3>1 DEF RowInv, Loops
      <3>2. ASSUME NEW outcome \in Settled, NEW wrote \in BOOLEAN, Commit(outcome, wrote),
                   loop' = [loop EXCEPT !.pc = "result",
                     !.report = IF outcome = "processed" /\ ~wrote THEN "ignored" ELSE outcome]
            PROVE  RowInv'
        BY <1>0, <2>1, <3>2 DEF RowInv, Loops, Commit, Settled
      <3> QED
        BY <2>2, <3>1, <3>2
    <2>5. CallAtHand' /\ DecisionStands'
      BY <1>0, <2>1, <2>3, DecisionsStand DEF CallAtHand, DecisionStands, Permitted
    <2> QED
      BY <2>3, <2>4, <2>5 DEF CoderInv
  <1>12. CASE AwaitSettled
    <2>1. /\ Verdict \in Settled \union {"none", "ignored", "pending"}
          /\ Verdict = "processed" => facts = 1
      BY <1>0 DEF RowInv, Verdict, Settled
    <2>2. loop' \in Loops /\ loop'.calls = loop.calls /\ loop'.report = Verdict
          /\ loop'.pc = "result"
      BY <1>0, <1>12, <2>1 DEF AwaitSettled, Loops
    <2> QED
      BY <1>0, <1>12, <2>1, <2>2, LoopMoves DEF AwaitSettled, CallAtHand
  <1>13. CASE DaemonStep
    <2>1. UNCHANGED <<config, loop, executed>>
      BY <1>13 DEF DaemonStep
    <2>2. loop' \in Loops /\ CallAtHand' /\ DecisionStands'
      BY <1>0, <2>1, DecisionsStand DEF CallAtHand, DecisionStands, Permitted, Call
    <2>3. RowInv'
      BY <1>0, <1>13, <2>1 DEF RowInv, DaemonStep, Commit, Settled
    <2> QED
      BY <2>2, <2>3 DEF CoderInv
  <1>14. CASE Compact \/ Clear \/ UNCHANGED coderVars
    <2>1. UNCHANGED <<config, loop, executed, memoryRow>>
      BY <1>14 DEF Compact, Clear, coderVars, config, memoryRow
    <2>2. loop' \in Loops /\ CallAtHand' /\ DecisionStands'
      BY <1>0, <2>1, DecisionsStand DEF CallAtHand, DecisionStands, Permitted, Call
    <2>3. RowInv'
      BY <1>0, <2>1 DEF RowInv, memoryRow
    <2> QED
      BY <2>2, <2>3 DEF CoderInv
  <1>15. CASE Crash
    <2>1. loop' \in Loops /\ loop'.pc = "crashed" /\ loop'.report = loop.report
      BY <1>0, <1>15 DEF Crash, Loops
    <2> QED
      BY <1>0, <1>15, <2>1, LoopMoves DEF Crash, RowInv
  <1>16. CASE Resume
    <2> DEFINE again == [Idle EXCEPT !.pc = "idle"]
    <2>1. again \in Loops /\ again.pc = "idle" /\ again.report = "none"
      <3>1. Idle.report = "none"
        BY DEF Idle
      <3> QED
        BY <3>1, IdleIsALoop DEF Loops
    <2> HIDE DEF again
    <2>2. loop' \in Loops /\ loop'.pc \in {"idle", "unresumable"}
          /\ loop'.report \in {"none", loop.report}
      <3>1. CASE loop' = again
        BY <2>1, <3>1
      <3>2. CASE loop' = [loop EXCEPT !.pc = "unresumable"]
        BY <1>0, <3>2 DEF Loops
      <3> QED
        BY <1>16, <3>1, <3>2 DEF Resume, again
    <2> QED
      BY <1>0, <1>16, <2>2, LoopMoves DEF Resume, RowInv
  <1> QED
    BY <1>1, <1>2, <1>3, <1>4, <1>5, <1>6, <1>7, <1>8, <1>9, <1>10, <1>11, <1>12, <1>13, <1>14,
       <1>15, <1>16 DEF CoderNext, LoopStep

\* No tool runs with arguments that were not permitted, and no text is
\* remembered twice, whatever the model proposes, the rules, the hook and the
\* human say, and wherever the process dies.
THEOREM CoderIsSound == CoderSpec => []CoderSound
  <1>1. CoderInv => CoderSound
    BY DEF CoderInv, DecisionStands, Permitted, RowInv, CoderSound, ExecutedIsPermitted,
       RememberedOnce
  <1> QED
    BY <1>1, CoderInitially, CoderSteps, PTL DEF CoderSpec

-----------------------------------------------------------------------------
(* Watchdog: the heartbeat tracker *)

HeartSpec == HeartInit /\ [][HeartNext]_heartVars

HeartType ==
    /\ clock \in Nat
    /\ DOMAIN tracked \subseteq Workers
    /\ tracked = [w \in DOMAIN tracked |-> tracked[w]]
    /\ \A w \in DOMAIN tracked : tracked[w] \in [last : Nat, dead : BOOLEAN]
    /\ reports \in [Workers -> {0, 1}]
    /\ missed \subseteq DOMAIN tracked

\* A worker is held dead only past its deadline, and what is known of its death
\* was made known by one report, or lost to dead_workers().
DeathsInv ==
    \A w \in DOMAIN tracked :
        /\ tracked[w].last <= clock
        /\ tracked[w].dead => silence_seconds(w) > deadline_seconds
        /\ ~tracked[w].dead => reports[w] = 0 /\ w \notin missed
        /\ tracked[w].dead /\ w \notin missed => reports[w] = 1

\* Nothing is reported of a worker nobody tracks.
UntrackedUnreported == \A w \in Workers \ DOMAIN tracked : reports[w] = 0

HeartInv == HeartType /\ DeathsInv /\ UntrackedUnreported

LEMMA HeartInitially == HeartInit => HeartInv
  BY DEF HeartInit, HeartInv, HeartType, DeathsInv, UntrackedUnreported

\* A sign of life, or a purge: the other workers' entries stay as they were.
LEMMA LifeKeeps ==
    ASSUME HeartInv, NEW w \in Workers, SignOfLife(w), UNCHANGED clock,
           \/ tracked' = With(w, [last |-> clock, dead |-> FALSE])
           \/ tracked' = [x \in DOMAIN tracked \ {w} |-> tracked[x]]
    PROVE  HeartInv'
  <1>1. /\ reports' = [reports EXCEPT ![w] = 0] /\ missed' = missed \ {w}
        /\ HeartType /\ DeathsInv /\ UntrackedUnreported
    BY DEF SignOfLife, HeartInv
  <1>2. /\ DOMAIN tracked' \subseteq Workers /\ DOMAIN tracked \ {w} \subseteq DOMAIN tracked'
        /\ DOMAIN tracked' \subseteq DOMAIN tracked \union {w}
        /\ \A x \in DOMAIN tracked' \ {w} : x \in DOMAIN tracked /\ tracked'[x] = tracked[x]
        /\ w \in DOMAIN tracked' => tracked'[w] = [last |-> clock, dead |-> FALSE]
        /\ tracked' = [x \in DOMAIN tracked' |-> tracked'[x]]
    BY <1>1 DEF With, HeartType
  <1>3. \A x \in Workers : reports'[x] = IF x = w THEN 0 ELSE reports[x]
    BY <1>1 DEF HeartType
  <1>4. HeartType'
    <2>1. \A x \in DOMAIN tracked' : tracked'[x] \in [last : Nat, dead : BOOLEAN]
      <3>1. [last |-> clock, dead |-> FALSE] \in [last : Nat, dead : BOOLEAN]
        BY <1>1 DEF HeartType
      <3>2. \A x \in DOMAIN tracked : tracked[x] \in [last : Nat, dead : BOOLEAN]
        BY <1>1 DEF HeartType
      <3> QED
        BY <1>2, <3>1, <3>2, Zenon
    <2>2. reports' \in [Workers -> {0, 1}]
      BY <1>1, <1>3 DEF HeartType
    <2>3. missed' \subseteq DOMAIN tracked' /\ clock' \in Nat
      BY <1>1, <1>2 DEF HeartType
    <2> QED
      BY <1>2, <2>1, <2>2, <2>3 DEF HeartType
  <1>5. DeathsInv'
    <2> SUFFICES ASSUME NEW x \in DOMAIN tracked'
                 PROVE  /\ tracked'[x].last <= clock'
                        /\ tracked'[x].dead => silence_seconds(x)' > deadline_seconds
                        /\ ~tracked'[x].dead => reports'[x] = 0 /\ x \notin missed'
                        /\ tracked'[x].dead /\ x \notin missed' => reports'[x] = 1
      BY DEF DeathsInv, deadline_seconds
    <2>1. CASE x = w
      BY <1>1, <1>2, <1>3, <2>1 DEF HeartType
    <2>2. CASE x # w
      <3>1. x \in DOMAIN tracked /\ x \in Workers /\ tracked'[x] = tracked[x]
            /\ reports'[x] = reports[x] /\ (x \in missed' <=> x \in missed)
        BY <1>1, <1>2, <1>3, <2>2
      <3> QED
        BY <1>1, <3>1 DEF DeathsInv, silence_seconds
    <2> QED
      BY <2>1, <2>2
  <1>6. UntrackedUnreported'
    BY <1>1, <1>2, <1>3 DEF UntrackedUnreported
  <1> QED
    BY <1>4, <1>5, <1>6 DEF HeartInv

\* Whatever the two sweeps do, the workers that are newly dead are so past their
\* deadline.
LEMMA DeclareKeeps ==
    ASSUME HeartInv, Declare, UNCHANGED clock,
           \/ /\ reports' = [w \in Workers |-> reports[w] + IF w \in NewlyDead THEN 1 ELSE 0]
              /\ UNCHANGED missed
           \/ missed' = missed \union NewlyDead /\ UNCHANGED reports
    PROVE  HeartInv'
  <1>1. HeartType /\ DeathsInv /\ UntrackedUnreported
    BY DEF HeartInv
  <1>2. DOMAIN tracked' = DOMAIN tracked
    BY DEF Declare
  <1>3. \A w \in DOMAIN tracked :
          /\ tracked'[w] \in [last : Nat, dead : BOOLEAN]
          /\ tracked'[w].last = tracked[w].last
          /\ tracked'[w].dead <=> tracked[w].dead \/ w \in NewlyDead
    BY <1>1 DEF Declare, HeartType
  <1>4. NewlyDead \subseteq DOMAIN tracked
        /\ \A w \in NewlyDead : ~tracked[w].dead /\ silence_seconds(w) > deadline_seconds
    BY DEF NewlyDead
  <1>5. \A w \in NewlyDead : reports[w] = 0 /\ w \notin missed
    BY <1>1, <1>4 DEF DeathsInv
  <1>6. \A w \in DOMAIN tracked : w \notin NewlyDead =>
          reports'[w] = reports[w] /\ (w \in missed' <=> w \in missed)
    BY <1>1 DEF HeartType
  <1>7. \A w \in NewlyDead : reports'[w] = 1 \/ w \in missed'
    BY <1>1, <1>4, <1>5 DEF HeartType
  <1>8. reports' \in [Workers -> {0, 1}] /\ missed' \subseteq DOMAIN tracked
    <2>1. \A w \in Workers : (reports[w] + IF w \in NewlyDead THEN 1 ELSE 0) \in {0, 1}
      BY <1>1, <1>5 DEF HeartType
    <2> QED
      BY <1>1, <1>4, <2>1 DEF HeartType
  <1>9. tracked' = [w \in DOMAIN tracked' |-> tracked'[w]]
    BY DEF Declare
  <1>10. HeartType'
    BY <1>1, <1>2, <1>3, <1>8, <1>9 DEF HeartType
  <1>11. DeathsInv'
    <2> SUFFICES ASSUME NEW w \in DOMAIN tracked
                 PROVE  /\ tracked'[w].last <= clock'
                        /\ tracked'[w].dead => silence_seconds(w)' > deadline_seconds
                        /\ ~tracked'[w].dead => reports'[w] = 0 /\ w \notin missed'
                        /\ tracked'[w].dead /\ w \notin missed' => reports'[w] = 1
      BY <1>2 DEF DeathsInv, deadline_seconds
    <2>1. silence_seconds(w)' = silence_seconds(w)
      BY <1>3 DEF silence_seconds
    <2>2. CASE w \in NewlyDead
      BY <1>1, <1>3, <1>4, <1>7, <2>1, <2>2 DEF DeathsInv
    <2>3. CASE w \notin NewlyDead
      BY <1>1, <1>3, <1>6, <2>1, <2>3 DEF DeathsInv
    <2> QED
      BY <2>2, <2>3
  <1>12. UntrackedUnreported'
    BY <1>1, <1>2, <1>4 DEF UntrackedUnreported, HeartType
  <1> QED
    BY <1>10, <1>11, <1>12 DEF HeartInv

LEMMA HeartSteps == HeartInv /\ [HeartNext]_heartVars => HeartInv'
  <1> SUFFICES ASSUME HeartInv, [HeartNext]_heartVars PROVE HeartInv'
    OBVIOUS
  <1>1. ASSUME NEW w \in Workers, register(w) \/ beat(w) \/ forget(w)
        PROVE  HeartInv'
    BY <1>1, LifeKeeps DEF register, beat, forget
  <1>2. CASE sweep \/ dead_workers
    BY <1>2, DeclareKeeps DEF sweep, dead_workers
  <1>3. CASE Tick \/ UNCHANGED heartVars
    <2>1. /\ UNCHANGED <<tracked, reports, missed>>
          /\ clock' \in Nat /\ clock <= clock'
      BY <1>3 DEF Tick, heartVars, HeartInv, HeartType
    <2>2. HeartType' /\ UntrackedUnreported'
      BY <2>1 DEF HeartInv, HeartType, UntrackedUnreported
    <2>3. \A w \in DOMAIN tracked : tracked[w].last \in Nat
      BY DEF HeartInv, HeartType
    <2>4. deadline_seconds \in Nat
      BY WatchdogAssumption DEF deadline_seconds
    <2>5. DeathsInv'
      <3> HIDE DEF deadline_seconds
      <3> SUFFICES ASSUME NEW w \in DOMAIN tracked
                   PROVE  /\ tracked[w].last <= clock'
                          /\ tracked[w].dead => clock' - tracked[w].last > deadline_seconds
                          /\ ~tracked[w].dead => reports[w] = 0 /\ w \notin missed
                          /\ tracked[w].dead /\ w \notin missed => reports[w] = 1
        BY <2>1 DEF DeathsInv, silence_seconds, deadline_seconds
      <3>1. clock \in Nat
        BY DEF HeartInv, HeartType
      <3> QED
        BY <2>1, <2>3, <2>4, <3>1 DEF HeartInv, DeathsInv, silence_seconds
    <2> QED
      BY <2>2, <2>5 DEF HeartInv
  <1> QED
    BY <1>1, <1>2, <1>3 DEF HeartNext

\* Past the deadline means at least Tolerance whole intervals missed.
LEMMA WholeIntervals ==
    ASSUME NEW s \in Nat, NEW i \in Nat \ {0}, NEW t \in Nat, s > i * t
    PROVE  s \div i >= t
  <1> DEFINE q == s \div i
  <1>1. q \in Nat /\ s < i * q + i
    OBVIOUS
  <1> HIDE DEF q
  <1>2. ASSUME q < t PROVE FALSE
    <2>1. PICK d \in Nat : t = q + 1 + d
      <3>1. t - q - 1 \in Nat
        BY <1>1, <1>2
      <3> QED
        BY <1>1, <3>1
    <2>2. i * t = i * q + i + i * d
      BY <1>1, <2>1
    <2>3. i * d \in Nat /\ i * q \in Nat
      BY <1>1
    <2> QED
      BY <1>1, <2>2, <2>3
  <1> QED
    BY <1>1, <1>2 DEF q

LEMMA HeartSound == HeartInv => DeadAreSilent /\ ReportedOnce
  <1> SUFFICES ASSUME HeartInv PROVE DeadAreSilent /\ ReportedOnce
    OBVIOUS
  <1>1. ASSUME NEW w \in DOMAIN tracked, tracked[w].dead
        PROVE  ~is_alive(w) /\ missed_beats(w) >= Tolerance
    <2>1. silence_seconds(w) \in Nat /\ silence_seconds(w) > deadline_seconds
      BY <1>1 DEF HeartInv, HeartType, DeathsInv, silence_seconds
    <2>2. deadline_seconds \in Nat
      BY WatchdogAssumption DEF deadline_seconds
    <2>3. missed_beats(w) >= Tolerance
      BY <2>1, WholeIntervals, WatchdogAssumption DEF missed_beats, deadline_seconds
    <2> QED
      BY <2>1, <2>2, <2>3 DEF is_alive
  <1>2. ReportedOnce
    BY DEF HeartInv, HeartType, DeathsInv, UntrackedUnreported, ReportedOnce
  <1> QED
    BY <1>1, <1>2 DEF DeadAreSilent

-----------------------------------------------------------------------------
(* Watchdog: the memory ceiling *)

DogSpec == DogInit /\ [][DogNext]_dogVars

DogType ==
    /\ proc \in [alive : BOOLEAN, now : Nat, high : Nat]
    /\ tier \in {"psutil", "kernel", "unavailable"} /\ jobActive \in BOOLEAN
    /\ dog \in [pc : {"new", "loop", "sleep", "ended"}, stop : BOOLEAN,
                peak : Nat \union {Unmeasured}, height : Nat,
                source : {"psutil", "kernel", "unavailable"}, fired : BOOLEAN]

\* The high-water mark is one, also of what the last sample saw.
HighWater == proc.now <= proc.high /\ dog.height <= proc.high

DogInv == DogType /\ HighWater /\ KilledOnceForABreach

LEMMA DogInitially == DogInit => DogInv
  BY WatchdogAssumption
     DEF DogInit, DogInv, DogType, HighWater, KilledOnceForABreach, Unmeasured

LEMMA DogSteps == DogInv /\ [DogNext]_dogVars => DogInv'
  <1> SUFFICES ASSUME DogInv, [DogNext]_dogVars PROVE DogInv'
    OBVIOUS
  <1> USE WatchdogAssumption DEF Unmeasured
  <1>0. DogType /\ HighWater /\ KilledOnceForABreach
    BY DEF DogInv
  <1>1. CASE DogStarts \/ DogWakes \/ DogEnds \/ DogStop
    <2>1. /\ UNCHANGED <<proc, tier, jobActive, kills>>
          /\ \/ \E pc \in {"loop", "ended"} : dog' = [dog EXCEPT !.pc = pc]
             \/ dog' = [dog EXCEPT !.stop = TRUE]
      BY <1>1 DEF DogStarts, DogWakes, DogEnds, DogStop
    <2>2. /\ DogType' /\ dog'.peak = dog.peak /\ dog'.height = dog.height
          /\ dog'.source = dog.source /\ dog'.fired = dog.fired
      BY <1>0, <2>1 DEF DogType
    <2> QED
      BY <1>0, <2>1, <2>2 DEF DogInv, HighWater, KilledOnceForABreach
  <1>2. CASE DogSamples
    <2> DEFINE rss == sample_rss_mb
    <2>1. rss \in Nat \union {-1} /\ rss <= proc.high
          /\ (rss = -1 <=> ~proc.alive \/ tier = "unavailable")
          /\ (rss # -1 /\ tier = "kernel" => rss = proc.high)
      BY <1>0 DEF sample_rss_mb, DogType, HighWater
    <2>2. /\ dog' = [dog EXCEPT !.pc = "sleep",
                       !.source = IF rss = -1 THEN @ ELSE tier,
                       !.peak = IF rss = -1 THEN @ ELSE PeakOf(@, rss),
                       !.height = IF rss = -1 THEN @ ELSE proc.high,
                       !.fired = @ \/ rss > MemoryCeiling]
          /\ kills' = kills + IF (rss > MemoryCeiling /\ ~dog.fired) /\ ~jobActive THEN 1 ELSE 0
          /\ UNCHANGED <<proc, tier, jobActive>>
      BY <1>2 DEF DogSamples, _sample_once, Sample
    <2> HIDE DEF rss
    <2>3. PeakOf(dog.peak, rss) \in Nat \union {-1} /\ PeakOf(dog.peak, rss) <= proc.high
          /\ (rss # -1 => PeakOf(dog.peak, rss) # -1)
          /\ PeakOf(dog.peak, rss) >= rss /\ PeakOf(dog.peak, rss) >= dog.peak
      BY <1>0, <2>1 DEF PeakOf, DogType, KilledOnceForABreach
    <2>4. /\ dog'.source = IF rss = -1 THEN dog.source ELSE tier
          /\ dog'.peak = IF rss = -1 THEN dog.peak ELSE PeakOf(dog.peak, rss)
          /\ dog'.height = IF rss = -1 THEN dog.height ELSE proc.high
          /\ dog'.fired <=> dog.fired \/ rss > MemoryCeiling
      BY <1>0, <2>2 DEF DogType
    <2>5. DogType'
      BY <1>0, <2>2, <2>3 DEF DogType
    <2>6. HighWater'
      BY <1>0, <2>2, <2>4 DEF HighWater, DogType
    <2>7. KilledOnceForABreach'
      <3>1. kills' = IF dog'.fired /\ ~jobActive' THEN 1 ELSE 0
        <4>1. CASE dog.fired \/ jobActive
          BY <1>0, <2>2, <2>4, <4>1 DEF KilledOnceForABreach
        <4>2. CASE ~dog.fired /\ ~jobActive
          BY <1>0, <2>2, <2>4, <4>2 DEF KilledOnceForABreach
        <4> QED
          BY <4>1, <4>2
      <3>2. dog'.fired => dog'.peak > MemoryCeiling
        BY <1>0, <2>1, <2>3, <2>4 DEF KilledOnceForABreach, DogType
      <3>3. dog'.peak <= proc'.high /\ (dog'.source = "unavailable" <=> dog'.peak = -1)
        BY <1>0, <2>1, <2>2, <2>3, <2>4 DEF KilledOnceForABreach, DogType
      <3>4. tier' = "kernel" /\ dog'.height > MemoryCeiling => dog'.fired
        BY <1>0, <2>1, <2>2, <2>4 DEF KilledOnceForABreach
      <3> QED
        BY <3>1, <3>2, <3>3, <3>4 DEF KilledOnceForABreach
    <2> QED
      BY <2>5, <2>6, <2>7 DEF DogInv
  <1>3. CASE Allocate \/ ProcessEnds \/ UNCHANGED dogVars
    <2>1. /\ UNCHANGED <<tier, jobActive, dog, kills>>
          /\ proc' \in [alive : BOOLEAN, now : Nat, high : Nat]
          /\ proc'.now <= proc'.high /\ proc.high <= proc'.high
      <3>1. CASE Allocate
        <4>1. PICK m \in 0 .. MaxMemory :
                proc' = [proc EXCEPT !.now = m, !.high = IF m > @ THEN m ELSE @]
          BY <3>1 DEF Allocate
        <4> DEFINE h == IF m > proc.high THEN m ELSE proc.high
        <4>2. m \in Nat /\ h \in Nat /\ m <= h /\ proc.high <= h
          BY <1>0 DEF DogType
        <4>3. proc' = [proc EXCEPT !.now = m, !.high = h]
          BY <4>1
        <4> HIDE DEF h
        <4>4. proc' \in [alive : BOOLEAN, now : Nat, high : Nat] /\ proc'.now = m /\ proc'.high = h
          BY <1>0, <4>2, <4>3 DEF DogType
        <4> QED
          BY <3>1, <4>2, <4>4 DEF Allocate
      <3>2. CASE ProcessEnds
        <4>1. proc' \in [alive : BOOLEAN, now : Nat, high : Nat]
              /\ proc'.now = proc.now /\ proc'.high = proc.high
          BY <1>0, <3>2 DEF ProcessEnds, DogType
        <4> QED
          BY <1>0, <3>2, <4>1 DEF ProcessEnds, DogType, HighWater
      <3>3. CASE UNCHANGED dogVars
        BY <1>0, <3>3 DEF dogVars, DogType, HighWater
      <3> QED
        BY <1>3, <3>1, <3>2, <3>3
    <2>2. DogType' /\ HighWater'
      BY <1>0, <2>1 DEF DogType, HighWater
    <2>3. KilledOnceForABreach'
      BY <1>0, <2>1 DEF DogType, KilledOnceForABreach
    <2> QED
      BY <2>2, <2>3 DEF DogInv
  <1> QED
    BY <1>1, <1>2, <1>3 DEF DogNext

-----------------------------------------------------------------------------
(* Workspace: the journal of a patch, and the snapshot *)

SpaceSpec == SpaceInit /\ [][SpaceNext]_spaceVars

Tree(f) == f = [p \in Paths |-> f[p]]

Controls ==
    [pc : {"idle", "tests", "planned", "write", "applied", "rollback", "rolled back", "refused",
           "restored"},
     at : Nat, verdict : {"none", "PASS", "FAIL"}, failed : BOOLEAN]

SpaceType ==
    /\ Tree(fs) /\ Tree(before) /\ Tree(manifest)
    /\ work \in Controls /\ edited \in BOOLEAN
    /\ journal \in Seq(Range(journal))

\* How much of the journal has yet to be undone.
Ahead == IF work.pc = "write" THEN Len(journal) ELSE work.at

Touched(j, p, from, to) == \E i \in from .. to : j[i].path = p

\* Undoing the first k entries of journal j, from the k-th down, takes the files
\* f back to old: a path that none of them is for has its old content, and the
\* first entry for a path holds it, whatever later entries for it hold.
Undoes(j, k, f, old) ==
    /\ k <= Len(j)
    /\ \A p \in Paths : ~Touched(j, p, 1, k) => f[p] = old[p]
    /\ \A i \in 1 .. Len(j) :
         j[i].path \in Paths /\ ~Touched(j, j[i].path, 1, i - 1) => j[i].prior = old[j[i].path]

JournalInv ==
    work.pc \in {"write", "rollback"} /\ ~edited /\ ~work.failed =>
        Undoes(journal, Ahead, fs, before)

SpaceInv == SpaceType /\ JournalInv /\ WorkspaceSound

\* Two trees with the same content are the same tree.
LEMMA SameTree ==
    ASSUME NEW f, NEW g, Tree(f), Tree(g), \A p \in Paths : f[p] = g[p]
    PROVE  f = g
  BY DEF Tree

Written(f, q, content) == [f EXCEPT ![q] = content]

LEMMA WrittenTree ==
    ASSUME NEW f, Tree(f), NEW q, NEW content
    PROVE  LET g == Written(f, q, content) IN
           Tree(g) /\ \A p \in Paths : g[p] = IF p = q THEN content ELSE f[p]
  BY DEF Tree, Written

LEMMA Went ==
    ASSUME work \in Controls, NEW at \in Nat,
           NEW pc \in {"write", "applied", "rollback", "rolled back", "refused"}, Go(pc, at)
    PROVE  /\ work' \in Controls /\ work'.pc = pc /\ work'.at = at
           /\ work'.failed = work.failed
  BY DEF Go, Controls

\* What Append makes of a journal.
LEMMA Appended ==
    ASSUME NEW s, s \in Seq(Range(s)), NEW e
    PROVE  LET t == Append(s, e) IN
           /\ t \in Seq(Range(t)) /\ Len(t) = Len(s) + 1 /\ Len(s) \in Nat
           /\ t[Len(t)] = e
           /\ \A i \in 1 .. Len(s) : t[i] = s[i]
  <1> DEFINE S == Range(s) \union {e}
             t == Append(s, e)
  <1>1. s \in Seq(S) /\ e \in S
    OBVIOUS
  <1> HIDE DEF S
  <1>2. t \in Seq(S) /\ Len(t) = Len(s) + 1 /\ Len(s) \in Nat /\ t[Len(t)] = e
        /\ \A i \in 1 .. Len(s) : t[i] = s[i]
    BY <1>1
  <1>3. t \in Seq(Range(t))
    <2> HIDE DEF t
    <2>1. t \in [1 .. Len(t) -> S] /\ Len(t) \in Nat
      BY <1>2
    <2>2. t \in [1 .. Len(t) -> Range(t)]
      BY <2>1 DEF Range
    <2> QED
      BY <2>1, <2>2
  <1> QED
    BY <1>2, <1>3

\* An entry is journalled before its file is written.
LEMMA JournalFirst ==
    ASSUME NEW j, j \in Seq(Range(j)), NEW f, NEW g, NEW old, NEW path,
           Undoes(j, Len(j), f, old), \A p \in Paths : p # path => g[p] = f[p]
    PROVE  LET t == Append(j, [path |-> path, prior |-> f[path]]) IN
           Undoes(t, Len(t), g, old)
  <1> DEFINE e == [path |-> path, prior |-> f[path]]
             t == Append(j, e)
             n == Len(j)
  <1>1. n \in Nat /\ Len(t) = n + 1 /\ t[n + 1] = e /\ \A i \in 1 .. n : t[i] = j[i]
    BY Appended
  <1>2. e.path = path /\ e.prior = f[path]
    OBVIOUS
  <1> HIDE DEF e, t
  <1>3. /\ \A p \in Paths : ~Touched(j, p, 1, n) => f[p] = old[p]
        /\ \A i \in 1 .. n :
             j[i].path \in Paths /\ ~Touched(j, j[i].path, 1, i - 1) =>
               j[i].prior = old[j[i].path]
    BY DEF Undoes
  <1> HIDE DEF n
  <1>4. ASSUME NEW p \in Paths, ~Touched(t, p, 1, n + 1)
        PROVE  g[p] = old[p]
    <2>1. p # path
      BY <1>1, <1>2, <1>4 DEF Touched
    <2>2. ~Touched(j, p, 1, n)
      BY <1>1, <1>4 DEF Touched
    <2> QED
      BY <1>3, <2>1, <2>2
  <1>5. ASSUME NEW i \in 1 .. n + 1, t[i].path \in Paths, ~Touched(t, t[i].path, 1, i - 1)
        PROVE  t[i].prior = old[t[i].path]
    <2>1. CASE i = n + 1
      <3>1. t[i].path = path /\ t[i].prior = f[path]
        BY <1>1, <1>2, <2>1
      <3>2. ~Touched(j, path, 1, n)
        BY <1>1, <1>5, <2>1, <3>1 DEF Touched
      <3> QED
        BY <1>3, <1>5, <3>1, <3>2
    <2>2. CASE i \in 1 .. n
      <3>1. t[i] = j[i]
        BY <1>1, <2>2
      <3>2. ~Touched(j, j[i].path, 1, i - 1)
        BY <1>1, <1>5, <2>2, <3>1 DEF Touched
      <3> QED
        BY <1>3, <1>5, <2>2, <3>1, <3>2
    <2> QED
      BY <1>1, <2>1, <2>2
  <1>6. Undoes(t, n + 1, g, old)
    BY <1>1, <1>4, <1>5 DEF Undoes
  <1> QED
    BY <1>1, <1>6 DEF t, e

\* One entry undone, from the end.
LEMMA UndoFromTheEnd ==
    ASSUME NEW j, j \in Seq(Range(j)), NEW k \in Nat \ {0}, NEW f, NEW g, NEW old,
           Undoes(j, k, f, old),
           \A p \in Paths : g[p] = IF p = j[k].path THEN j[k].prior ELSE f[p]
    PROVE  Undoes(j, k - 1, g, old)
  <1>1. k \in 1 .. Len(j) /\ Len(j) \in Nat
    BY DEF Undoes
  <1>2. ASSUME NEW p \in Paths, ~Touched(j, p, 1, k - 1)
        PROVE  g[p] = old[p]
    <2>1. CASE p = j[k].path
      BY <1>1, <1>2, <2>1 DEF Undoes
    <2>2. CASE p # j[k].path
      <3>1. ~Touched(j, p, 1, k)
        BY <1>2, <2>2 DEF Touched
      <3> QED
        BY <2>2, <3>1 DEF Undoes
    <2> QED
      BY <2>1, <2>2
  <1> QED
    BY <1>1, <1>2 DEF Undoes

LEMMA SpaceInitially == SpaceInit \/ SpaceAside => SpaceInv
  <1> SUFFICES ASSUME SpaceInit \/ SpaceAside PROVE SpaceInv
    OBVIOUS
  <1>1. Tree(NotCaptured)
    BY DEF Tree, NotCaptured
  <1>2. Tree(fs) /\ Tree(before) /\ Tree(manifest)
    BY <1>1, WorkspaceAssumption DEF SpaceInit, SpaceAside, Tree
  <1>3. work = [pc |-> "idle", at |-> 0, verdict |-> "none", failed |-> FALSE]
        /\ journal = <<>> /\ edited = FALSE
    BY DEF SpaceInit, SpaceAside
  <1>4. work \in Controls /\ work.pc = "idle"
    BY <1>3 DEF Controls
  <1>5. journal \in Seq(Range(journal))
    BY <1>3
  <1> QED
    BY <1>2, <1>3, <1>4, <1>5
       DEF SpaceInv, SpaceType, JournalInv, WorkspaceSound, FailedApplyLeavesNothing,
           CleanRestoreIsExact

\* A step that leaves every tree but the backup alone, and ends no phase but
\* those before the first write.
LEMMA QuietSteps ==
    ASSUME SpaceInv, work' \in Controls, UNCHANGED <<journal, before, edited>>,
           Tree(fs'), Tree(manifest'),
           work'.pc \in {"idle", "tests", "planned", "applied", "refused"}
    PROVE  SpaceInv'
  BY DEF SpaceInv, SpaceType, JournalInv, WorkspaceSound, FailedApplyLeavesNothing,
         CleanRestoreIsExact

LEMMA SpaceSteps == SpaceInv /\ [SpaceNext]_spaceVars => SpaceInv'
  <1> SUFFICES ASSUME SpaceInv, [SpaceNext]_spaceVars PROVE SpaceInv'
    OBVIOUS
  <1>0. SpaceType /\ JournalInv
    BY DEF SpaceInv
  <1>1. CASE Validate \/ RunTests \/ Applied
    <2>1. work' \in Controls /\ work'.pc \in {"tests", "planned", "applied"}
      <3>1. CASE Validate
        BY <1>0, <3>1 DEF Validate, SpaceType, Controls
      <3>2. CASE RunTests
        BY <1>0, <3>2 DEF RunTests, SpaceType, Controls
      <3>3. CASE Applied
        BY <1>0, <3>3, Went DEF Applied, SpaceType
      <3> QED
        BY <1>1, <3>1, <3>2, <3>3
    <2>2. UNCHANGED <<fs, journal, before, manifest, edited>>
      BY <1>1 DEF Validate, RunTests, Applied
    <2> QED
      BY <1>0, <2>1, <2>2, QuietSteps DEF SpaceType
  <1>2. CASE CaptureAndBackup
    BY <1>0, <1>2, QuietSteps DEF CaptureAndBackup, SpaceType
  <1>3. CASE Damage \/ UNCHANGED spaceVars
    <2>1. UNCHANGED <<fs, work, journal, before, manifest, edited>>
      BY <1>3 DEF Damage, spaceVars
    <2> QED
      BY <2>1 DEF SpaceInv, SpaceType, JournalInv, Ahead, WorkspaceSound,
                  FailedApplyLeavesNothing, CleanRestoreIsExact
  <1>4. CASE Apply
    <2>1. CASE Go("refused", 0) /\ UNCHANGED <<before, journal, edited>>
      <3>1. work' \in Controls /\ work'.pc = "refused"
        BY <1>0, <2>1 DEF Go, SpaceType, Controls
      <3> QED
        BY <1>0, <1>4, <2>1, <3>1, QuietSteps DEF Apply, SpaceType
    <2>2. CASE Go("write", 1) /\ before' = fs /\ journal' = <<>> /\ edited' = FALSE
      <3>1. work' \in Controls /\ work'.pc = "write"
        BY <1>0, <2>2 DEF Go, SpaceType, Controls
      <3>2. UNCHANGED <<fs, manifest>>
        BY <1>4 DEF Apply
      <3>3. journal' \in Seq(Range(journal')) /\ Len(journal') = 0
        BY <2>2
      <3>4. SpaceType'
        BY <1>0, <2>2, <3>1, <3>2, <3>3 DEF SpaceType
      <3>5. Undoes(journal', 0, fs', before')
        BY <2>2, <3>2, <3>3 DEF Undoes
      <3>6. JournalInv'
        BY <3>1, <3>3, <3>5 DEF JournalInv, Ahead
      <3> QED
        BY <3>1, <3>4, <3>6 DEF SpaceInv, WorkspaceSound, FailedApplyLeavesNothing,
                                CleanRestoreIsExact
    <2> QED
      BY <1>4, <2>1, <2>2 DEF Apply
  <1>5. CASE WriteEntry
    <2> DEFINE entry == plan[work.at]
               e == [path |-> entry.path, prior |-> fs[entry.path]]
    <2>1. /\ work.pc = "write" /\ journal' = Append(journal, e)
          /\ UNCHANGED <<before, manifest, edited>>
      BY <1>5 DEF WriteEntry, Journalled
    <2>2. journal' \in Seq(Range(journal')) /\ Len(journal') \in Nat
      BY <1>0, <2>1, Appended DEF SpaceType
    <2>3. /\ fs' = fs \/ fs' = Written(fs, entry.path, entry.new)
          /\ Go("write", work.at + 1) \/ Go("rollback", Len(journal'))
      BY <1>5 DEF WriteEntry, Written
    <2>4. Tree(fs') /\ \A p \in Paths : p # entry.path => fs'[p] = fs[p]
      <3>1. CASE fs' = fs
        BY <1>0, <3>1 DEF SpaceType
      <3>2. CASE fs' = Written(fs, entry.path, entry.new)
        BY <1>0, <3>2, WrittenTree DEF SpaceType
      <3> QED
        BY <2>3, <3>1, <3>2
    <2>5. /\ work' \in Controls /\ work'.pc \in {"write", "rollback"}
          /\ Ahead' = Len(journal') /\ work'.failed = work.failed
      <3>1. work.at + 1 \in Nat
        <4>1. work.at \in Nat
          BY <1>0 DEF SpaceType, Controls
        <4> QED
          BY <4>1
      <3> QED
        BY <1>0, <2>2, <2>3, <3>1, Went DEF SpaceType, Ahead
    <2>6. SpaceType'
      BY <1>0, <2>1, <2>2, <2>4, <2>5 DEF SpaceType
    <2>7. ASSUME ~edited, ~work.failed
          PROVE  Undoes(journal', Len(journal'), fs', before)
      <3>1. Undoes(journal, Len(journal), fs, before)
        BY <1>0, <2>1, <2>7 DEF JournalInv, Ahead
      <3> HIDE DEF entry
      <3> QED
        BY <1>0, <2>1, <2>4, <3>1, JournalFirst DEF SpaceType
    <2>8. JournalInv'
      BY <2>1, <2>5, <2>7 DEF JournalInv
    <2> QED
      BY <2>5, <2>6, <2>8 DEF SpaceInv, WorkspaceSound, FailedApplyLeavesNothing,
                              CleanRestoreIsExact
  <1>6. CASE UndoEntry
    <2> DEFINE k == work.at
               entry == journal[k]
    <2>1. /\ work.pc = "rollback" /\ k \in Nat /\ k > 0
          /\ UNCHANGED <<journal, before, manifest, edited>>
      BY <1>0, <1>6 DEF UndoEntry, SpaceType, Controls
    <2>2. \/ fs' = Written(fs, entry.path, entry.prior) /\ Go("rollback", k - 1)
          \/ UNCHANGED fs /\ work' = [work EXCEPT !.at = @ - 1, !.failed = TRUE]
      BY <1>6 DEF UndoEntry, UndoAt, Written
    <2>3. /\ work' \in Controls /\ work'.pc = "rollback" /\ work'.at = k - 1
          /\ ~work'.failed => ~work.failed /\ fs' = Written(fs, entry.path, entry.prior)
      <3>1. k - 1 \in Nat
        BY <2>1
      <3>2. CASE fs' = Written(fs, entry.path, entry.prior) /\ Go("rollback", k - 1)
        BY <1>0, <3>1, <3>2, Went DEF SpaceType
      <3>3. CASE work' = [work EXCEPT !.at = @ - 1, !.failed = TRUE]
        BY <1>0, <2>1, <3>1, <3>3 DEF SpaceType, Controls
      <3> QED
        BY <2>2, <3>2, <3>3
    <2>4. Tree(fs')
      <3>1. Tree(fs) /\ (fs' = fs \/ fs' = Written(fs, entry.path, entry.prior))
        BY <1>0, <2>2 DEF SpaceType
      <3> QED
        BY <3>1, WrittenTree
    <2>5. SpaceType'
      BY <1>0, <2>1, <2>3, <2>4 DEF SpaceType
    <2> HIDE DEF k, entry
    <2>6. ASSUME ~edited, ~work'.failed
          PROVE  Undoes(journal, k - 1, fs', before)
      <3>1. Undoes(journal, k, fs, before)
        BY <1>0, <2>1, <2>3, <2>6 DEF JournalInv, Ahead, k
      <3>2. \A p \in Paths : fs'[p] = IF p = entry.path THEN entry.prior ELSE fs[p]
        BY <1>0, <2>3, <2>6, WrittenTree DEF SpaceType
      <3> QED
        BY <1>0, <2>1, <3>1, <3>2, UndoFromTheEnd DEF SpaceType, entry
    <2>7. JournalInv'
      BY <2>1, <2>3, <2>6 DEF JournalInv, Ahead
    <2> QED
      BY <2>3, <2>5, <2>7 DEF SpaceInv, WorkspaceSound, FailedApplyLeavesNothing,
                              CleanRestoreIsExact
  <1>7. CASE RolledBack
    <2>1. /\ work.pc = "rollback" /\ work.at = 0
          /\ UNCHANGED <<fs, journal, before, manifest, edited>>
          /\ work' \in Controls /\ work'.pc = "rolled back" /\ work'.failed = work.failed
      BY <1>0, <1>7 DEF RolledBack, Go, SpaceType, Controls
    <2>2. ~work.failed /\ ~edited => fs = before
      <3> SUFFICES ASSUME ~work.failed, ~edited PROVE fs = before
        OBVIOUS
      <3>1. Undoes(journal, 0, fs, before)
        BY <1>0, <2>1 DEF JournalInv, Ahead
      <3>2. \A p \in Paths : fs[p] = before[p]
        BY <3>1 DEF Undoes, Touched
      <3> QED
        BY <1>0, <3>2, SameTree DEF SpaceType
    <2> QED
      BY <1>0, <2>1, <2>2 DEF SpaceInv, SpaceType, JournalInv, WorkspaceSound,
                              FailedApplyLeavesNothing, CleanRestoreIsExact
  <1>8. CASE Restore
    <2>1. /\ fs' = [p \in Paths |-> Restored(p)] /\ edited' = FALSE
          /\ work' = [work EXCEPT !.pc = "restored", !.failed = \E p \in Paths : Unclean(p)]
          /\ UNCHANGED <<journal, before, manifest>>
      BY <1>8 DEF Restore
    <2>2. /\ work' \in Controls /\ work'.pc = "restored"
          /\ work'.failed <=> \E p \in Paths : Unclean(p)
      BY <1>0, <2>1 DEF SpaceType, Controls
    <2>3. Tree(fs')
      BY <2>1 DEF Tree
    <2>4. ~work'.failed => fs' = manifest'
      <3> SUFFICES ASSUME ~work'.failed PROVE fs' = manifest
        BY <2>1
      <3>1. \A p \in Paths : Restored(p) = manifest[p]
        BY <2>2 DEF Unclean, Restored
      <3>2. \A p \in Paths : fs'[p] = manifest[p]
        BY <2>1, <3>1
      <3> QED
        BY <1>0, <2>3, <3>2, SameTree DEF SpaceType
    <2>5. SpaceType'
      BY <1>0, <2>1, <2>2, <2>3 DEF SpaceType
    <2> QED
      BY <2>2, <2>4, <2>5 DEF SpaceInv, JournalInv, WorkspaceSound, FailedApplyLeavesNothing,
                              CleanRestoreIsExact
  <1>9. CASE Edit
    <2>1. /\ work.pc \in {"idle", "tests", "planned", "write"}
          /\ UNCHANGED <<work, journal, before, manifest>>
          /\ edited' = (work.pc = "write" \/ edited)
          /\ \E p, content : fs' = Written(fs, p, content)
      BY <1>9 DEF Edit, Written
    <2>2. Tree(fs')
      BY <1>0, <2>1, WrittenTree DEF SpaceType
    <2>3. SpaceType'
      BY <1>0, <2>1, <2>2 DEF SpaceType
    <2> QED
      BY <2>1, <2>3 DEF SpaceInv, JournalInv, WorkspaceSound, FailedApplyLeavesNothing,
                        CleanRestoreIsExact
  <1> QED
    BY <1>1, <1>2, <1>3, <1>4, <1>5, <1>6, <1>7, <1>8, <1>9 DEF SpaceNext

\* A patch that fails is undone whatever its sections share, and a restore that
\* reports nothing unclean is exact, for any tree, any patch and any damage.
THEOREM WorkspaceIsSound == SpaceSpec => []WorkspaceSound
  <1>1. SpaceInv => WorkspaceSound
    BY DEF SpaceInv
  <1> QED
    BY <1>1, SpaceInitially, SpaceSteps, PTL DEF SpaceSpec

-----------------------------------------------------------------------------
(* Sandbox: the runs of one backend *)

BoxSpec == BoxInit /\ [][BoxNext]_boxVars

Preparing == {"idle", "probe", "detect", "info", "healthy", "create", "spawn"}
DockerOnly == {"create", "start", "settle", "logs", "remove"}
Reasons == {"none", "start_timeout", "timeout", "memory"}
Statuses == {0, 1, 9, 137, NoCode}

RunControls == Preparing \union DockerOnly \union {"error", "wait", "kill", "collected", "done"}

RunStates ==
    [pc : RunControls,
     used : {"none", "runc", "runsc", "process", "namespaces"}, exit : Statuses,
     reason : Reasons, breached : BOOLEAN, cancelled : BOOLEAN,
     level : {"none", "VM", "NAMESPACE", "PROCESS"}]

BoxType ==
    /\ kind \in {"docker", "subprocess", "wsl"} /\ runtime \in {"runc", "runsc"}
    /\ run \in [Runs -> RunStates]
    /\ box \in [Runs -> {"none", "created", "running", "exited", "gone"}]
    /\ code \in [Runs -> Statuses]
    /\ late \in [Runs -> SUBSET {"create", "created", "start", "remove"}]

\* Before the work runs nothing is there, and nobody is late.
BoxBefore(w, b, l) ==
    /\ w.pc \in Preparing => b = "none" /\ l = {} /\ w.reason = "none"
    /\ w.pc = "start" => b = "created" /\ l = {} /\ w.reason = "none"
    /\ w.pc = "wait" => b \in {"running", "exited"} /\ l = {} /\ w.reason = "none"

\* On docker: what is left behind is on its way out, and a status that counts is
\* that of a container that will not run again.
DockerBox(w, b, c, l) ==
    /\ w.pc # "spawn" /\ ~w.breached
    /\ "remove" \in l => w.pc \in {"collected", "done"}
    /\ w.pc \in {"kill", "settle"} => w.reason # "none"
    /\ w.pc = "logs" /\ w.reason = "none" => b = "exited" /\ w.exit = c
    /\ w.pc \in {"collected", "done"} =>
         b \in {"none", "gone"} \/ "remove" \in l \/ "created" \in l
    /\ w.pc \in {"logs", "remove", "collected", "done"} /\ ok(w) =>
         b \in {"exited", "gone"} /\ c = 0

\* On the host: the child is there until it is reaped.
HostBox(k, w, b, c, l) ==
    /\ w.pc \notin DockerOnly /\ l = {}
    /\ k = "subprocess" => w.pc \notin {"probe", "detect", "info", "healthy"}
    /\ w.pc = "kill" => b \in {"running", "exited"} /\ w.reason # "none"
    /\ w.pc \in {"collected", "done"} /\ ~w.cancelled => b = "exited"
    /\ w.pc \in {"collected", "done"} /\ ok(w) => b = "exited" /\ c = 0 /\ ~w.breached

\* What ended has a status.
BoxOk(k, w, b, c, l) ==
    /\ b = "exited" => c # NoCode
    /\ BoxBefore(w, b, l)
    /\ IF k = "docker" THEN DockerBox(w, b, c, l) ELSE HostBox(k, w, b, c, l)

BoxInv == BoxType /\ \A r \in Runs : BoxOk(kind, run[r], box[r], code[r], late[r])

LEMMA FreshIsOk ==
    ASSUME NEW k
    PROVE  Fresh \in RunStates /\ BoxOk(k, Fresh, "none", NoCode, {})
  BY DEF Fresh, RunStates, RunControls, Preparing, DockerOnly, Reasons, Statuses, BoxOk, BoxBefore, DockerBox,
         HostBox, ok, NoCode

LEMMA BoxInitially == BoxInit \/ BoxAside => BoxInv
  <1> SUFFICES ASSUME BoxInit \/ BoxAside PROVE BoxInv
    OBVIOUS
  <1>1. /\ run = [r \in Runs |-> Fresh] /\ box = [r \in Runs |-> "none"]
        /\ code = [r \in Runs |-> NoCode] /\ late = [r \in Runs |-> {}]
    BY DEF BoxInit, BoxAside
  <1>2. kind \in {"docker", "subprocess", "wsl"} /\ runtime \in {"runc", "runsc"}
    BY SandboxAssumption DEF BoxInit, BoxAside
  <1>3. BoxType
    BY <1>1, <1>2, FreshIsOk DEF BoxType, Statuses
  <1>4. \A r \in Runs : BoxOk(kind, run[r], box[r], code[r], late[r])
    BY <1>1, FreshIsOk
  <1> QED
    BY <1>3, <1>4 DEF BoxInv

\* A step of one run leaves the others as they are.
Becomes(r, w, b, c, l) ==
    /\ UNCHANGED <<kind, runtime>>
    /\ run' = [run EXCEPT ![r] = w] /\ box' = [box EXCEPT ![r] = b]
    /\ code' = [code EXCEPT ![r] = c] /\ late' = [late EXCEPT ![r] = l]

LEMMA OneRun ==
    ASSUME BoxInv, NEW r \in Runs, NEW w \in RunStates,
           NEW b \in {"none", "created", "running", "exited", "gone"}, NEW c \in Statuses,
           NEW l \in SUBSET {"create", "created", "start", "remove"},
           Becomes(r, w, b, c, l), BoxOk(kind, w, b, c, l)
    PROVE  BoxInv'
  <1>1. BoxType'
    BY DEF BoxInv, BoxType, Becomes
  <1>2. /\ run'[r] = w /\ box'[r] = b /\ code'[r] = c /\ late'[r] = l
        /\ \A q \in Runs : q # r =>
             /\ run'[q] = run[q] /\ box'[q] = box[q] /\ code'[q] = code[q] /\ late'[q] = late[q]
    BY DEF BoxInv, BoxType, Becomes
  <1>3. \A q \in Runs : BoxOk(kind, run'[q], box'[q], code'[q], late'[q])
    BY <1>2 DEF BoxInv
  <1> QED
    BY <1>1, <1>3 DEF BoxInv, Becomes

LEMMA Unmoved ==
    ASSUME BoxInv, NEW r \in Runs
    PROVE  /\ box = [box EXCEPT ![r] = box[r]] /\ code = [code EXCEPT ![r] = code[r]]
           /\ run = [run EXCEPT ![r] = run[r]] /\ late = [late EXCEPT ![r] = late[r]]
  BY DEF BoxInv, BoxType

\* What is known of one run.
LEMMA RunFacts ==
    ASSUME BoxInv, NEW r \in Runs
    PROVE  /\ run[r] \in RunStates /\ box[r] \in {"none", "created", "running", "exited", "gone"}
           /\ code[r] \in Statuses
           /\ late[r] \in SUBSET {"create", "created", "start", "remove"}
           /\ BoxOk(kind, run[r], box[r], code[r], late[r])
           /\ kind \in {"docker", "subprocess", "wsl"} /\ runtime \in {"runc", "runsc"}
  BY DEF BoxInv, BoxType

\* The steps before a box exists, and the report.
LEMMA ControlSteps ==
    ASSUME BoxInv, NEW r \in Runs,
           Begin(r) \/ Probe(r) \/ DetectRuntime(r) \/ DockerInfo(r) \/ SetHealthy(r) \/ Report(r)
    PROVE  BoxInv'
  <1> DEFINE o == run[r]
  <1>1. CASE Report(r)
    <2> DEFINE w == [o EXCEPT !.pc = "done", !.level = IsolationLevel]
    <2>1. IsolationLevel \in {"VM", "NAMESPACE", "PROCESS"}
      BY DEF IsolationLevel
    <2>2. /\ w \in RunStates /\ w.pc = "done" /\ w.exit = o.exit /\ w.reason = o.reason
          /\ w.breached = o.breached /\ w.cancelled = o.cancelled
      <3> DEFINE level == IsolationLevel
      <3>1. level \in {"none", "VM", "NAMESPACE", "PROCESS"} /\ o \in RunStates
        BY <2>1, RunFacts
      <3> HIDE DEF level, o
      <3>2. [o EXCEPT !.pc = "done", !.level = level] \in RunStates
        BY <3>1 DEF RunStates, RunControls
      <3> QED
        BY <3>1, <3>2 DEF RunStates, level
    <2>3. o.pc = "collected" /\ Becomes(r, w, box[r], code[r], late[r])
      BY <1>1, Unmoved DEF Report, Set, backend, Becomes
    <2> HIDE DEF w
    <2>4. BoxOk(kind, w, box[r], code[r], late[r])
      BY <2>2, <2>3, RunFacts DEF BoxOk, BoxBefore, DockerBox, HostBox, ok, Preparing, DockerOnly
    <2> QED
      BY <2>2, <2>3, <2>4, RunFacts, OneRun
  <1>2. CASE ~Report(r)
    <2>1. PICK pc \in Preparing \union {"error"} :
            /\ Move(r, pc) /\ o.pc \in Preparing
            /\ kind = "docker" => pc # "spawn"
            /\ kind # "docker" => pc # "create"
            /\ kind = "subprocess" => pc \in {"spawn", "error"}
      <3> SUFFICES \E pc \in Preparing \union {"error"} :
                     /\ Move(r, pc) /\ o.pc \in Preparing
                     /\ kind = "docker" => pc # "spawn"
                     /\ kind # "docker" => pc # "create"
                     /\ kind = "subprocess" => pc \in {"spawn", "error"}
        OBVIOUS
      <3>0. BoxOk(kind, o, box[r], code[r], late[r]) /\ kind \in {"docker", "subprocess", "wsl"}
        BY RunFacts
      <3>00. kind = "subprocess" => o.pc \notin {"probe", "detect", "info", "healthy"}
        BY <3>0 DEF BoxOk, HostBox
      <3>1. CASE Begin(r)
        BY <3>0, <3>1 DEF Begin, Preparing
      <3>2. CASE Probe(r)
        BY <3>0, <3>00, <3>2 DEF Probe, Preparing
      <3>3. CASE DetectRuntime(r)
        BY <3>0, <3>00, <3>3 DEF DetectRuntime, Preparing
      <3>4. CASE DockerInfo(r)
        BY <3>0, <3>00, <3>4 DEF DockerInfo, Preparing
      <3>5. CASE SetHealthy(r)
        BY <3>0, <3>00, <3>5 DEF SetHealthy, Preparing
      <3> QED
        BY <1>2, <3>1, <3>2, <3>3, <3>4, <3>5
    <2>2. UNCHANGED <<kind, runtime, box, code, late>>
      BY <1>2 DEF Begin, Probe, DetectRuntime, DockerInfo, SetHealthy, backend
    <2> DEFINE w == [o EXCEPT !.pc = pc]
    <2>3. /\ w \in RunStates /\ w.pc = pc /\ w.exit = o.exit /\ w.reason = o.reason
          /\ w.breached = o.breached /\ w.cancelled = o.cancelled
      BY RunFacts DEF RunStates, RunControls
    <2>4. Becomes(r, w, box[r], code[r], late[r])
      BY <2>1, <2>2, Unmoved DEF Move, Set, Becomes
    <2> HIDE DEF w
    <2>5. BoxOk(kind, w, box[r], code[r], late[r])
      BY <2>1, <2>3, RunFacts DEF BoxOk, BoxBefore, DockerBox, HostBox, ok, Preparing, DockerOnly
    <2> QED
      BY <2>3, <2>4, <2>5, RunFacts, OneRun
  <1> QED
    BY <1>1, <1>2

\* What each step of a container does to its run.
Updated(o, w, pc, exit, reason) ==
    /\ w \in RunStates /\ w.pc = pc /\ w.exit = exit /\ w.reason = reason
    /\ w.breached = o.breached

Evolved(r, w, b, c, l) ==
    /\ w \in RunStates /\ b \in {"none", "created", "running", "exited", "gone"}
    /\ c \in Statuses /\ l \in SUBSET {"create", "created", "start", "remove"}
    /\ Becomes(r, w, b, c, l) /\ BoxOk(kind, w, b, c, l)

LEMMA EvolvedKeeps ==
    ASSUME BoxInv, NEW r \in Runs, NEW w, NEW b, NEW c, NEW l, Evolved(r, w, b, c, l)
    PROVE  BoxInv'
  BY OneRun DEF Evolved

LEMMA CreateAndStartKeep ==
    ASSUME BoxInv, NEW r \in Runs, DockerCreate(r) \/ DockerStart(r)
    PROVE  BoxInv'
  <1> DEFINE o == run[r]
             f == [o EXCEPT !.used = RuntimeFlag]
  <1>0. /\ o \in RunStates /\ code[r] \in Statuses /\ BoxOk(kind, o, box[r], code[r], late[r])
        /\ kind \in {"docker", "subprocess", "wsl"} /\ runtime \in {"runc", "runsc"}
    BY RunFacts
  <1>1. o.pc \in {"create", "start"} /\ kind = "docker" /\ late[r] = {} /\ o.reason = "none"
        /\ ~o.breached /\ (code[r] # NoCode \/ box[r] # "exited")
    BY <1>0 DEF DockerCreate, DockerStart, BoxOk, BoxBefore, DockerBox, HostBox, Preparing,
                DockerOnly
  <1>2. f \in RunStates /\ f.pc = o.pc /\ f.exit = o.exit /\ f.reason = o.reason
        /\ f.breached = o.breached
    <2>1. RuntimeFlag \in {"runc", "runsc"}
      BY <1>0 DEF RuntimeFlag
    <2> HIDE DEF o
    <2> QED
      BY <1>0, <2>1 DEF RunStates
  <1>3. PICK u \in {o, f} :
          \/ /\ run' = [run EXCEPT ![r] = [u EXCEPT !.pc = IF o.pc = "create" THEN "start" ELSE "wait"]]
             /\ box' = [box EXCEPT ![r] = IF o.pc = "create" THEN "created" ELSE "running"]
             /\ UNCHANGED late
          \/ /\ run' = [run EXCEPT ![r] = [u EXCEPT !.pc = "remove", !.exit = 1]]
             /\ UNCHANGED <<box, late>>
          \/ /\ run' = [run EXCEPT ![r] = [u EXCEPT !.pc = "kill", !.reason = "start_timeout"]]
             /\ \E l \in {"create", "start"} : late' = [late EXCEPT ![r] = @ \union {l}]
             /\ UNCHANGED box
    BY <1>1 DEF DockerCreate, DockerStart, Set, Move, AfterFailure
  <1>4. UNCHANGED <<kind, runtime, code>>
    BY DEF DockerCreate, DockerStart, backend
  <1>5. /\ u \in RunStates /\ u.exit = o.exit /\ u.reason = "none" /\ ~u.breached
    BY <1>0, <1>1, <1>2
  <1> HIDE DEF f, o
  <1>6. CASE /\ run' = [run EXCEPT ![r] = [u EXCEPT !.pc = IF o.pc = "create" THEN "start" ELSE "wait"]]
             /\ box' = [box EXCEPT ![r] = IF o.pc = "create" THEN "created" ELSE "running"]
             /\ UNCHANGED late
    <2> DEFINE pc == IF o.pc = "create" THEN "start" ELSE "wait"
               b == IF o.pc = "create" THEN "created" ELSE "running"
               w == [u EXCEPT !.pc = pc]
    <2>1. Updated(u, w, pc, o.exit, "none")
      BY <1>5 DEF Updated, RunStates, RunControls, DockerOnly
    <2>2. Becomes(r, w, b, code[r], late[r])
      BY <1>4, <1>6, Unmoved DEF Becomes
    <2> HIDE DEF w
    <2>3. Evolved(r, w, b, code[r], late[r])
      BY <1>0, <1>1, <1>5, <2>1, <2>2
         DEF Evolved, Updated, BoxOk, BoxBefore, DockerBox, ok, Preparing
    <2> QED
      BY <2>3, EvolvedKeeps
  <1>7. CASE run' = [run EXCEPT ![r] = [u EXCEPT !.pc = "remove", !.exit = 1]] /\ UNCHANGED <<box, late>>
    <2> DEFINE w == [u EXCEPT !.pc = "remove", !.exit = 1]
    <2>1. Updated(u, w, "remove", 1, "none")
      BY <1>5 DEF Updated, RunStates, RunControls, DockerOnly, Statuses
    <2>2. Becomes(r, w, box[r], code[r], late[r])
      BY <1>4, <1>7, Unmoved DEF Becomes
    <2> HIDE DEF w
    <2>3. Evolved(r, w, box[r], code[r], late[r])
      BY <1>0, <1>1, <1>5, <2>1, <2>2, RunFacts
         DEF Evolved, Updated, BoxOk, BoxBefore, DockerBox, ok, Preparing
    <2> QED
      BY <2>3, EvolvedKeeps
  <1>8. CASE /\ run' = [run EXCEPT ![r] = [u EXCEPT !.pc = "kill", !.reason = "start_timeout"]]
             /\ \E l \in {"create", "start"} : late' = [late EXCEPT ![r] = @ \union {l}]
             /\ UNCHANGED box
    <2> DEFINE w == [u EXCEPT !.pc = "kill", !.reason = "start_timeout"]
    <2>1. Updated(u, w, "kill", o.exit, "start_timeout")
      BY <1>5 DEF Updated, RunStates, RunControls, Reasons
    <2>2. PICK l \in {"create", "start"} : late' = [late EXCEPT ![r] = {l}]
      BY <1>1, <1>8
    <2>3. Becomes(r, w, box[r], code[r], {l})
      BY <1>4, <1>8, <2>2, Unmoved DEF Becomes
    <2> HIDE DEF w
    <2>4. Evolved(r, w, box[r], code[r], {l})
      BY <1>0, <1>1, <1>5, <2>1, <2>2, <2>3, RunFacts
         DEF Evolved, Updated, BoxOk, BoxBefore, DockerBox, ok, Preparing
    <2> QED
      BY <2>4, EvolvedKeeps
  <1> QED
    BY <1>3, <1>6, <1>7, <1>8

LEMMA WaitAndKillKeep ==
    ASSUME BoxInv, NEW r \in Runs, DockerWait(r) \/ DockerKill(r)
    PROVE  BoxInv'
  <1> DEFINE o == run[r]
  <1>0. /\ o \in RunStates /\ code[r] \in Statuses /\ BoxOk(kind, o, box[r], code[r], late[r])
        /\ box[r] \in {"none", "created", "running", "exited", "gone"}
        /\ late[r] \in SUBSET {"create", "created", "start", "remove"}
        /\ kind \in {"docker", "subprocess", "wsl"} /\ runtime \in {"runc", "runsc"}
    BY RunFacts
  <1>1. UNCHANGED <<kind, runtime, late>> /\ kind = "docker" /\ ~o.breached
        /\ (code[r] # NoCode \/ box[r] # "exited")
    BY <1>0 DEF DockerWait, DockerKill, backend, BoxOk, DockerBox
  <1>2. CASE DockerWait(r) /\ run' = [run EXCEPT ![r] = [o EXCEPT !.pc = "logs", !.exit = code[r]]]
                           /\ box[r] = "exited"
    <2> DEFINE w == [o EXCEPT !.pc = "logs", !.exit = code[r]]
    <2>1. Becomes(r, w, box[r], code[r], late[r])
      BY <1>1, <1>2, Unmoved DEF DockerWait, Becomes
    <2>2. late[r] = {} /\ o.reason = "none"
      BY <1>0, <1>2 DEF DockerWait, BoxOk, BoxBefore
    <2> HIDE DEF o
    <2>3. Updated(o, w, "logs", code[r], "none")
      BY <1>0, <2>2 DEF Updated, RunStates, RunControls, DockerOnly
    <2> HIDE DEF w
    <2>4. Evolved(r, w, box[r], code[r], late[r])
      BY <1>0, <1>1, <1>2, <2>1, <2>2, <2>3
         DEF Evolved, Updated, BoxOk, BoxBefore, DockerBox, ok, Preparing
    <2> QED
      BY <2>4, EvolvedKeeps
  <1>3. CASE DockerWait(r) /\ run' = [run EXCEPT ![r] = [o EXCEPT !.pc = "kill", !.reason = "timeout"]]
    <2> DEFINE w == [o EXCEPT !.pc = "kill", !.reason = "timeout"]
    <2>1. Becomes(r, w, box[r], code[r], late[r])
      BY <1>1, <1>3, Unmoved DEF DockerWait, Becomes
    <2>2. late[r] = {}
      BY <1>0, <1>3 DEF DockerWait, BoxOk, BoxBefore
    <2> HIDE DEF o
    <2>3. Updated(o, w, "kill", o.exit, "timeout")
      BY <1>0 DEF Updated, RunStates, RunControls, Reasons
    <2> HIDE DEF w
    <2>4. Evolved(r, w, box[r], code[r], late[r])
      BY <1>0, <1>1, <2>1, <2>2, <2>3
         DEF Evolved, Updated, BoxOk, BoxBefore, DockerBox, ok, Preparing
    <2> QED
      BY <2>4, EvolvedKeeps
  <1>4. CASE DockerKill(r)
    <2> DEFINE w == [o EXCEPT !.pc = "settle"]
    <2>1. PICK b \in {"none", "created", "running", "exited", "gone"}, c \in Statuses :
            /\ box' = [box EXCEPT ![r] = b] /\ code' = [code EXCEPT ![r] = c]
            /\ c # NoCode \/ b # "exited"
      <3>1. CASE UNCHANGED <<box, code>>
        BY <1>0, <1>1, <3>1, Unmoved
      <3>2. CASE /\ box' = [box EXCEPT ![r] = IF @ = "running" THEN "exited" ELSE @]
                 /\ code' = [code EXCEPT ![r] = IF box[r] = "running" THEN 137 ELSE @]
        <4>1. CASE box[r] = "running"
          BY <3>2, <4>1 DEF Statuses, NoCode
        <4>2. CASE box[r] # "running"
          BY <1>0, <1>1, <3>2, <4>2
        <4> QED
          BY <4>1, <4>2
      <3> QED
        BY <1>4, <3>1, <3>2 DEF DockerKill
    <2>2. Becomes(r, w, b, c, late[r])
      BY <1>1, <1>4, <2>1, Unmoved DEF DockerKill, Move, Set, Becomes
    <2>3. o.reason # "none" /\ "remove" \notin late[r]
      BY <1>0, <1>1, <1>4 DEF DockerKill, BoxOk, DockerBox
    <2> HIDE DEF o
    <2>4. Updated(o, w, "settle", o.exit, o.reason)
      BY <1>0 DEF Updated, RunStates, RunControls, DockerOnly
    <2> HIDE DEF w
    <2>5. Evolved(r, w, b, c, late[r])
      BY <1>0, <1>1, <2>1, <2>2, <2>3, <2>4
         DEF Evolved, Updated, BoxOk, BoxBefore, DockerBox, ok, Preparing
    <2> QED
      BY <2>5, EvolvedKeeps
  <1> QED
    BY <1>2, <1>3, <1>4 DEF DockerWait, Set

LEMMA CollectingKeeps ==
    ASSUME BoxInv, NEW r \in Runs, Settle(r) \/ CollectLogs(r)
    PROVE  BoxInv'
  <1> DEFINE o == run[r]
  <1>0. /\ o \in RunStates /\ code[r] \in Statuses /\ BoxOk(kind, o, box[r], code[r], late[r])
        /\ box[r] \in {"none", "created", "running", "exited", "gone"}
        /\ late[r] \in SUBSET {"create", "created", "start", "remove"}
        /\ kind \in {"docker", "subprocess", "wsl"} /\ runtime \in {"runc", "runsc"}
    BY RunFacts
  <1>1. /\ UNCHANGED <<kind, runtime, box, code, late>> /\ kind = "docker" /\ ~o.breached
        /\ o.pc \in {"settle", "logs"} /\ "remove" \notin late[r]
        /\ (code[r] # NoCode \/ box[r] # "exited")
    BY <1>0 DEF Settle, CollectLogs, backend, BoxOk, DockerBox, HostBox, DockerOnly
  <1>2. ExitStatus(r) \in Statuses
    BY <1>0 DEF ExitStatus, Statuses
  <1>3. CASE Settle(r)
    <2> DEFINE w == [o EXCEPT !.pc = "logs", !.exit = ExitStatus(r)]
    <2>1. Becomes(r, w, box[r], code[r], late[r])
      BY <1>1, <1>3, Unmoved DEF Settle, Set, Becomes
    <2>2. o.reason # "none"
      BY <1>0, <1>1, <1>3 DEF Settle, BoxOk, DockerBox
    <2> HIDE DEF o
    <2>3. Updated(o, w, "logs", ExitStatus(r), o.reason)
      BY <1>0, <1>2 DEF Updated, RunStates, RunControls, DockerOnly
    <2> HIDE DEF w
    <2>4. Evolved(r, w, box[r], code[r], late[r])
      BY <1>0, <1>1, <2>1, <2>2, <2>3
         DEF Evolved, Updated, BoxOk, BoxBefore, DockerBox, ok, Preparing
    <2> QED
      BY <2>4, EvolvedKeeps
  <1>4. CASE CollectLogs(r)
    <2> DEFINE exit == IF o.exit # NoCode THEN o.exit ELSE ExitStatus(r)
               reason == IF o.reason = "none" /\ exit = 137 THEN "memory" ELSE o.reason
               w == [o EXCEPT !.pc = "remove", !.exit = exit, !.reason = reason]
    <2>1. Becomes(r, w, box[r], code[r], late[r])
      BY <1>0, <1>1, <1>4, Unmoved DEF CollectLogs, Set, Becomes, RunStates
    <2>2. exit \in Statuses /\ reason \in Reasons
      BY <1>0, <1>2 DEF RunStates, Reasons
    <2>3. reason = "none" => box[r] = "exited" /\ exit = code[r]
      BY <1>0, <1>1, <1>4 DEF CollectLogs, BoxOk, DockerBox
    <2> HIDE DEF o, exit, reason
    <2>4. Updated(o, w, "remove", exit, reason)
      BY <1>0, <2>2 DEF Updated, RunStates, RunControls, DockerOnly
    <2> HIDE DEF w
    <2>5. Evolved(r, w, box[r], code[r], late[r])
      BY <1>0, <1>1, <2>1, <2>3, <2>4
         DEF Evolved, Updated, BoxOk, BoxBefore, DockerBox, ok, Preparing
    <2> QED
      BY <2>5, EvolvedKeeps
  <1> QED
    BY <1>3, <1>4

LEMMA RemovingKeeps ==
    ASSUME BoxInv, NEW r \in Runs, RemoveContainer(r) \/ ServeLate(r)
    PROVE  BoxInv'
  <1> DEFINE o == run[r]
  <1>0. /\ o \in RunStates /\ code[r] \in Statuses /\ BoxOk(kind, o, box[r], code[r], late[r])
        /\ box[r] \in {"none", "created", "running", "exited", "gone"}
        /\ late[r] \in SUBSET {"create", "created", "start", "remove"}
        /\ kind \in {"docker", "subprocess", "wsl"} /\ runtime \in {"runc", "runsc"}
    BY RunFacts
  <1>1. CASE RemoveContainer(r)
    <2> DEFINE w == [o EXCEPT !.pc = "collected"]
    <2>1. /\ UNCHANGED <<kind, runtime, code>> /\ kind = "docker" /\ ~o.breached
          /\ o.pc = "remove" /\ run' = [run EXCEPT ![r] = w]
          /\ (code[r] # NoCode \/ box[r] # "exited")
      BY <1>0, <1>1 DEF RemoveContainer, Move, Set, backend, BoxOk, DockerBox, HostBox, DockerOnly
    <2>2. ok(o) => box[r] \in {"exited", "gone"} /\ code[r] = 0
      BY <1>0, <2>1 DEF BoxOk, DockerBox
    <2> HIDE DEF o
    <2>3. Updated(o, w, "collected", o.exit, o.reason)
      BY <1>0 DEF Updated, RunStates, RunControls
    <2>4. CASE box' = [box EXCEPT ![r] = IF @ = "none" THEN "none" ELSE "gone"] /\ UNCHANGED late
      <3> DEFINE b == IF box[r] = "none" THEN "none" ELSE "gone"
      <3>1. Becomes(r, w, b, code[r], late[r])
        BY <2>1, <2>4, Unmoved DEF Becomes
      <3> HIDE DEF w
      <3>2. Evolved(r, w, b, code[r], late[r])
        BY <1>0, <2>1, <2>2, <2>3, <3>1
           DEF Evolved, Updated, BoxOk, BoxBefore, DockerBox, ok, Preparing
      <3> QED
        BY <3>2, EvolvedKeeps
    <2>5. CASE late' = [late EXCEPT ![r] = @ \union {"remove"}] /\ UNCHANGED box
      <3> DEFINE l == late[r] \union {"remove"}
      <3>1. Becomes(r, w, box[r], code[r], l)
        BY <2>1, <2>5, Unmoved DEF Becomes
      <3> HIDE DEF w
      <3>2. Evolved(r, w, box[r], code[r], l)
        BY <1>0, <2>1, <2>2, <2>3, <3>1
           DEF Evolved, Updated, BoxOk, BoxBefore, DockerBox, ok, Preparing
      <3> QED
        BY <3>2, EvolvedKeeps
    <2> QED
      BY <1>1, <2>4, <2>5 DEF RemoveContainer
  <1>2. CASE ServeLate(r)
    <2>1. /\ UNCHANGED <<kind, runtime, run, code>> /\ late[r] # {} /\ kind = "docker"
          /\ o.pc \notin Preparing \union {"start", "wait"}
      BY <1>0, <1>2 DEF ServeLate, backend, BoxOk, BoxBefore, HostBox
    <2>2. PICK b \in {"created", "running", "gone"},
               l \in SUBSET {"create", "created", "start", "remove"} :
            /\ box' = [box EXCEPT ![r] = b] /\ late' = [late EXCEPT ![r] = l]
            /\ \/ b = "created" /\ box[r] = "none" /\ l = (late[r] \ {"create"}) \union {"created"}
               \/ b = "running" /\ box[r] = "created" /\ l = late[r] \ {"start"}
               \/ b = "gone" /\ l = late[r] \ {"remove"} /\ "remove" \in late[r]
      <3>1. CASE /\ "create" \in late[r] /\ box[r] = "none"
                 /\ box' = [box EXCEPT ![r] = "created"]
                 /\ late' = [late EXCEPT ![r] = (@ \ {"create"}) \union {"created"}]
        BY <1>0, <3>1
      <3>2. CASE /\ "start" \in late[r] /\ box[r] = "created"
                 /\ box' = [box EXCEPT ![r] = "running"]
                 /\ late' = [late EXCEPT ![r] = @ \ {"start"}]
        BY <1>0, <3>2
      <3>3. CASE /\ "remove" \in late[r]
                 /\ box' = [box EXCEPT ![r] = "gone"]
                 /\ late' = [late EXCEPT ![r] = @ \ {"remove"}]
        BY <1>0, <3>3
      <3> QED
        BY <1>2, <3>1, <3>2, <3>3 DEF ServeLate
    <2>3. Becomes(r, o, b, code[r], l)
      BY <2>1, <2>2, Unmoved DEF Becomes
    <2> HIDE DEF o
    <2>4. BoxOk("docker", o, b, code[r], l)
      BY <1>0, <2>1, <2>2 DEF BoxOk, BoxBefore, DockerBox, ok
    <2>5. Evolved(r, o, b, code[r], l)
      BY <1>0, <2>1, <2>2, <2>3, <2>4 DEF Evolved
    <2> QED
      BY <2>5, EvolvedKeeps
  <1> QED
    BY <1>1, <1>2

LEMMA HostStepsKeep ==
    ASSUME BoxInv, NEW r \in Runs, Spawn(r) \/ AwaitChild(r) \/ KillChild(r) \/ Breach(r)
    PROVE  BoxInv'
  <1> DEFINE o == run[r]
  <1>0. /\ o \in RunStates /\ code[r] \in Statuses /\ BoxOk(kind, o, box[r], code[r], late[r])
        /\ box[r] \in {"none", "created", "running", "exited", "gone"}
        /\ late[r] \in SUBSET {"create", "created", "start", "remove"}
        /\ kind \in {"docker", "subprocess", "wsl"} /\ runtime \in {"runc", "runsc"}
    BY RunFacts
  <1>1. /\ UNCHANGED <<kind, runtime, late>> /\ kind # "docker" /\ late[r] = {}
        /\ (code[r] # NoCode \/ box[r] # "exited")
        /\ o.pc \in {"wait", "spawn"} => o.reason = "none"
        /\ o.pc \in {"wait", "kill"} => box[r] \in {"running", "exited"}
        /\ o.pc = "kill" => o.reason # "none"
    BY <1>0 DEF Spawn, AwaitChild, KillChild, Breach, backend, BoxOk, BoxBefore, DockerBox, HostBox,
                Preparing
  <1>2. CASE Spawn(r)
    <2> DEFINE used == IF kind = "wsl" /\ registered THEN "namespaces" ELSE "process"
               w == [o EXCEPT !.pc = "wait", !.used = used]
    <2>1. Becomes(r, w, "running", code[r], late[r]) /\ o.reason = "none"
      BY <1>1, <1>2, Unmoved DEF Spawn, Set, Becomes
    <2>2. used \in {"process", "namespaces"}
      OBVIOUS
    <2> HIDE DEF o, used
    <2>3. Updated(o, w, "wait", o.exit, o.reason)
      BY <1>0, <2>2 DEF Updated, RunStates, RunControls
    <2> HIDE DEF w
    <2>4. Evolved(r, w, "running", code[r], late[r])
      BY <1>0, <1>1, <2>1, <2>3
         DEF Evolved, Updated, BoxOk, BoxBefore, HostBox, ok, Preparing, DockerOnly
    <2> QED
      BY <2>4, EvolvedKeeps
  <1>3. CASE AwaitChild(r) /\ box[r] = "exited"
             /\ run' = [run EXCEPT ![r] = [o EXCEPT !.pc = "collected", !.exit = code[r],
                                                    !.reason = AfterWait(o)]]
    <2> DEFINE reason == AfterWait(o)
               w == [o EXCEPT !.pc = "collected", !.exit = code[r], !.reason = reason]
    <2>1. Becomes(r, w, box[r], code[r], late[r])
      BY <1>1, <1>3, Unmoved DEF AwaitChild, Becomes
    <2>2. reason \in Reasons /\ (reason = "none" => ~o.breached)
      BY <1>0 DEF AfterWait, RunStates, Reasons
    <2> HIDE DEF o, reason
    <2>3. Updated(o, w, "collected", code[r], reason)
      BY <1>0, <2>2 DEF Updated, RunStates, RunControls
    <2> HIDE DEF w
    <2>4. Evolved(r, w, box[r], code[r], late[r])
      BY <1>0, <1>1, <1>3, <2>1, <2>2, <2>3
         DEF Evolved, Updated, BoxOk, BoxBefore, HostBox, ok, Preparing, DockerOnly
    <2> QED
      BY <2>4, EvolvedKeeps
  <1>4. CASE AwaitChild(r)
             /\ run' = [run EXCEPT ![r] = [o EXCEPT !.pc = "kill", !.reason = "timeout"]]
    <2> DEFINE w == [o EXCEPT !.pc = "kill", !.reason = "timeout"]
    <2>1. Becomes(r, w, box[r], code[r], late[r]) /\ o.pc = "wait"
      BY <1>1, <1>4, Unmoved DEF AwaitChild, Becomes
    <2> HIDE DEF o
    <2>2. Updated(o, w, "kill", o.exit, "timeout")
      BY <1>0 DEF Updated, RunStates, RunControls, Reasons
    <2> HIDE DEF w
    <2>3. Evolved(r, w, box[r], code[r], late[r])
      BY <1>0, <1>1, <2>1, <2>2
         DEF Evolved, Updated, BoxOk, BoxBefore, HostBox, ok, Preparing, DockerOnly
    <2> QED
      BY <2>3, EvolvedKeeps
  <1>5. CASE KillChild(r) \/ Breach(r)
    <2>1. PICK c \in Statuses :
            /\ box' = [box EXCEPT ![r] = "exited"] /\ code' = [code EXCEPT ![r] = c]
            /\ c # NoCode /\ code'[r] = c
      <3>1. KillTree(r) /\ box[r] \in {"running", "exited"}
        BY <1>1, <1>5 DEF KillChild, Breach
      <3>2. code' = [code EXCEPT ![r] = IF box[r] = "running" THEN 9 ELSE code[r]]
        BY <3>1 DEF KillTree
      <3>3. box' = [box EXCEPT ![r] = "exited"]
        BY <3>1, Unmoved DEF KillTree
      <3> DEFINE c == IF box[r] = "running" THEN 9 ELSE code[r]
      <3>4. c \in Statuses /\ c # NoCode
        BY <1>0, <1>1, <3>1 DEF Statuses, NoCode
      <3>5. code'[r] = c
        BY <3>2 DEF BoxInv, BoxType
      <3> QED
        BY <3>2, <3>3, <3>4, <3>5
    <2>2. CASE KillChild(r)
      <3> DEFINE w == [o EXCEPT !.pc = "collected", !.exit = c]
      <3>1. Becomes(r, w, "exited", c, late[r]) /\ o.reason # "none"
        BY <1>1, <2>1, <2>2, Unmoved DEF KillChild, Set, Becomes
      <3> HIDE DEF o
      <3>2. Updated(o, w, "collected", c, o.reason)
        BY <1>0, <2>1 DEF Updated, RunStates, RunControls
      <3> HIDE DEF w
      <3>3. Evolved(r, w, "exited", c, late[r])
        BY <1>0, <1>1, <2>1, <3>1, <3>2
           DEF Evolved, Updated, BoxOk, BoxBefore, HostBox, ok, Preparing, DockerOnly
      <3> QED
        BY <3>3, EvolvedKeeps
    <2>3. CASE Breach(r)
      <3> DEFINE w == [o EXCEPT !.breached = TRUE]
      <3>1. Becomes(r, w, "exited", c, late[r]) /\ o.pc = "wait"
        BY <1>1, <2>1, <2>3, Unmoved DEF Breach, Set, Becomes
      <3> HIDE DEF o
      <3>2. w \in RunStates /\ w.pc = o.pc /\ w.reason = o.reason
        BY <1>0 DEF RunStates
      <3> HIDE DEF w
      <3>3. Evolved(r, w, "exited", c, late[r])
        BY <1>0, <1>1, <2>1, <3>1, <3>2
           DEF Evolved, BoxOk, BoxBefore, HostBox, ok, Preparing, DockerOnly
      <3> QED
        BY <3>3, EvolvedKeeps
    <2> QED
      BY <1>5, <2>2, <2>3
  <1> QED
    BY <1>2, <1>3, <1>4, <1>5 DEF AwaitChild, Set

LEMMA WorkEndsKeeps ==
    ASSUME BoxInv, NEW r \in Runs, WorkEnds(r)
    PROVE  BoxInv'
  <1>0. /\ run[r] \in RunStates /\ BoxOk(kind, run[r], box[r], code[r], late[r])
        /\ late[r] \in SUBSET {"create", "created", "start", "remove"}
    BY RunFacts
  <1>1. PICK c \in {0, 1, 137} : code' = [code EXCEPT ![r] = c]
    BY DEF WorkEnds
  <1>2. Becomes(r, run[r], "exited", c, late[r]) /\ box[r] = "running"
    BY <1>1, Unmoved DEF WorkEnds, backend, Becomes
  <1>3. c \in Statuses /\ c # NoCode
    BY DEF Statuses, NoCode
  <1>4. BoxOk(kind, run[r], "exited", c, late[r])
    BY <1>0, <1>2, <1>3 DEF BoxOk, BoxBefore, DockerBox, HostBox, ok
  <1>5. Evolved(r, run[r], "exited", c, late[r])
    BY <1>0, <1>2, <1>3, <1>4 DEF Evolved
  <1> QED
    BY <1>5, EvolvedKeeps

LEMMA CancelKeeps ==
    ASSUME BoxInv, NEW r \in Runs, Cancel(r)
    PROVE  BoxInv'
  <1> DEFINE o == run[r]
             pc == IF kind = "docker" THEN "remove" ELSE "collected"
             w == [o EXCEPT !.pc = pc, !.cancelled = TRUE, !.exit = NoCode]
             l == CASE o.pc = "create" /\ kind = "docker" -> late[r] \union {"create"}
                    [] o.pc = "start" -> late[r] \union {"start"}
                    [] OTHER -> late[r]
  <1>0. /\ o \in RunStates /\ code[r] \in Statuses /\ BoxOk(kind, o, box[r], code[r], late[r])
        /\ box[r] \in {"none", "created", "running", "exited", "gone"}
        /\ late[r] \in SUBSET {"create", "created", "start", "remove"}
        /\ kind \in {"docker", "subprocess", "wsl"} /\ runtime \in {"runc", "runsc"}
    BY RunFacts
  <1>1. o.pc \in {"create", "start", "wait", "kill", "settle", "logs"}
    BY DEF Cancel
  <1>2. Becomes(r, w, box[r], code[r], l)
    <2>1. late' = [late EXCEPT ![r] = l]
      BY DEF Cancel
    <2>2. run' = [run EXCEPT ![r] = w] /\ UNCHANGED <<kind, runtime, box, code>>
      BY DEF Cancel, Set, backend
    <2> HIDE DEF l, w
    <2> QED
      BY <2>1, <2>2, Unmoved DEF Becomes
  <1>3. /\ l \in SUBSET {"create", "created", "start", "remove"}
        /\ "remove" \in l => "remove" \in late[r]
        /\ kind # "docker" => l = late[r]
    BY <1>0 DEF BoxOk, HostBox, DockerOnly
  <1> HIDE DEF l, o
  <1>4. /\ w \in RunStates /\ w.pc = pc /\ w.exit = NoCode /\ w.cancelled
        /\ w.breached = o.breached
    BY <1>0 DEF RunStates, RunControls, DockerOnly, Statuses
  <1> HIDE DEF w
  <1>5. BoxOk(kind, w, box[r], code[r], l)
    BY <1>0, <1>1, <1>3, <1>4
       DEF BoxOk, BoxBefore, DockerBox, HostBox, ok, Preparing, DockerOnly, NoCode
  <1>6. Evolved(r, w, box[r], code[r], l)
    BY <1>0, <1>2, <1>3, <1>4, <1>5 DEF Evolved
  <1> QED
    BY <1>6, EvolvedKeeps

LEMMA BoxSteps == BoxInv /\ [BoxNext]_boxVars => BoxInv'
  <1> SUFFICES ASSUME BoxInv, [BoxNext]_boxVars PROVE BoxInv'
    OBVIOUS
  <1>1. ASSUME NEW r \in Runs, RunStep(r) \/ ServeLate(r) \/ Breach(r) \/ WorkEnds(r) \/ Cancel(r)
        PROVE  BoxInv'
    BY <1>1, ControlSteps, CreateAndStartKeep, WaitAndKillKeep, CollectingKeeps, RemovingKeeps,
       HostStepsKeep, WorkEndsKeeps, CancelKeeps DEF RunStep
  <1>2. CASE UNCHANGED boxVars
    BY <1>2 DEF boxVars, BoxInv, BoxType
  <1> QED
    BY <1>1, <1>2 DEF BoxNext

LEMMA BoxSound == BoxInv => SandboxSound
  <1> SUFFICES ASSUME BoxInv PROVE SandboxSound
    OBVIOUS
  <1>1. NoOrphans
    <2> SUFFICES ASSUME NEW r \in Runs, run[r].pc \in {"collected", "done"}, late[r] = {},
                        ~(run[r].cancelled /\ kind # "docker")
                 PROVE  box[r] \notin {"created", "running"}
      BY DEF NoOrphans
    <2> QED
      BY RunFacts DEF BoxOk, DockerBox, HostBox
  <1>2. OkIsEarned
    <2> SUFFICES ASSUME NEW r \in Runs, run[r].pc = "done", ok(run[r])
                 PROVE  code[r] = 0 /\ ~run[r].breached
      BY DEF OkIsEarned
    <2> QED
      BY RunFacts DEF BoxOk, DockerBox, HostBox
  <1> QED
    BY <1>1, <1>2 DEF SandboxSound

\* No run leaves anything behind that the daemon was able to remove, and none is
\* reported good that the sandbox ended, for any number of runs side by side and
\* wherever the daemon is late, refuses, or the caller is cancelled.
THEOREM SandboxIsSound == BoxSpec => []SandboxSound
  <1>1. BoxInit => BoxInv
    BY BoxInitially
  <1> QED
    BY <1>1, BoxSteps, BoxSound, PTL DEF BoxSpec

-----------------------------------------------------------------------------
(* The workbench *)

WorkbenchInv == BoxInv /\ HeartInv /\ DogInv

LEMMA WorkbenchSteps == WorkbenchInv /\ [Next]_vars => WorkbenchInv'
  <1> SUFFICES ASSUME WorkbenchInv, [Next]_vars PROVE WorkbenchInv'
    OBVIOUS
  <1>1. [BoxNext]_boxVars /\ [HeartNext]_heartVars /\ [DogNext]_dogVars
    BY DEF Next, Sandboxed, Coding, Patching, Beating, Watching, vars, watchVars
  <1> QED
    BY <1>1, BoxSteps, HeartSteps, DogSteps DEF WorkbenchInv

\* The sandbox, the heartbeat tracker and the memory watchdog keep their
\* promises in every scene.
THEOREM ContainmentIsSound == Spec => []ContainmentSound
  <1>1. Init => WorkbenchInv
    BY BoxInitially, HeartInitially, DogInitially DEF Init, WorkbenchInv
  <1>2. WorkbenchInv => ContainmentSound
    BY BoxSound, HeartSound
       DEF WorkbenchInv, DogInv, ContainmentSound, WatchdogSound
  <1> QED
    BY <1>1, <1>2, WorkbenchSteps, PTL DEF Spec
=============================================================================
