----------------------------- MODULE Delegation -----------------------------
(***************************************************************************)
(* The delegations of one correlation: an agent, while it runs, proposes   *)
(* edges to others, several at once, and releases each when the callee has *)
(* returned.  agents/delegation.py and sandbox/recursion.py keep the same  *)
(* graph; here the order of the checks is the orchestrator's.              *)
(***************************************************************************)
EXTENDS Naturals, FiniteSets, Sequences

CONSTANTS
    Agents,
    Root,      \* the agent the task starts with
    MaxDepth,  \* recursion_ceiling of the modality
    MaxNodes   \* max_plan_nodes() of the modality

ASSUME DelegationAssumption ==
    /\ Root \in Agents /\ IsFiniteSet(Agents)
    /\ MaxDepth \in Nat /\ MaxNodes \in Nat

VARIABLES
    edges,     \* the graph's set of <<sender, target>>
    expanded,  \* _node_count
    frames,    \* live calls: [id, by: the id of the calling frame, agent, depth]
    shared     \* ghost: two calls over one edge have been live together

delegVars == <<edges, expanded, frames, shared>>

\* What the depth-first search from a node reaches.
Closure(E, a) ==
    LET step[n \in 0..Cardinality(Agents)] ==
          IF n = 0 THEN {a}
          ELSE step[n - 1] \union {e[2] : e \in {x \in E : x[1] \in step[n - 1]}}
    IN step[Cardinality(Agents)]

would_cycle_Direct(sender, target) == sender = target \/ <<target, sender>> \in edges

would_cycle(sender, target) == sender = target \/ sender \in Closure(edges, target)

Admits(frame, target) ==
    /\ frame.depth + 1 <= MaxDepth
    /\ ~would_cycle(frame.agent, target)
    /\ expanded + 1 <= MaxNodes

Frame(id) == CHOOSE f \in frames : f.id = id
LiveEdges == {<<Frame(f.by).agent, f.agent>> : f \in {g \in frames : g.by # 0}}

\* A refused proposal changes nothing: its caller is answered with a failure.
Propose(caller, target) ==
    /\ Admits(caller, target)
    /\ shared' = (shared \/ <<caller.agent, target>> \in LiveEdges)
    /\ edges' = edges \union {<<caller.agent, target>>}
    /\ expanded' = expanded + 1
    /\ frames' = frames \union
         {[id |-> expanded + 2, by |-> caller.id, agent |-> target, depth |-> caller.depth + 1]}

\* The callee returns or raises: release, in a finally.
Return(f) ==
    /\ f.by # 0 /\ \A g \in frames : g.by # f.id
    /\ edges' = edges \ {<<Frame(f.by).agent, f.agent>>}
    /\ frames' = frames \ {f}
    /\ UNCHANGED <<expanded, shared>>

DelegInit ==
    /\ edges = {} /\ expanded = 0 /\ shared = FALSE
    /\ frames = {[id |-> 1, by |-> 0, agent |-> Root, depth |-> 0]}

DelegNext ==
    \E f \in frames : Return(f) \/ \E a \in Agents : Propose(f, a)

DelegSpec == DelegInit /\ [][DelegNext]_delegVars

-----------------------------------------------------------------------------
\* The agents of the call id, of its caller, of the caller's caller and so on:
\* those met in every set of calls that has id and the callers of its members.
Ancestors(id) ==
    {a \in Agents :
        \A S \in SUBSET frames :
            /\ Frame(id) \in S
            /\ \A f \in S : f.by # 0 => Frame(f.by) \in S
            => \E f \in S : f.agent = a}

\* No agent is called, at any remove, by a call of its own, and no more calls
\* were made than the modality allows; unless two callers shared an edge, since
\* the first to return takes the edge of both.
NoAgentWaitsOnItself ==
    /\ expanded <= MaxNodes
    /\ ~shared => \A f \in frames : f.by # 0 => f.agent \notin Ancestors(f.by)
=============================================================================
