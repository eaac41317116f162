------------------------------ MODULE Budgets ------------------------------
(***************************************************************************)
(* TokenBudget: a tree of budgets.  A child is capped by what its parent   *)
(* has left when it is made, and every later spend debits the whole line   *)
(* up to the root, or nothing.                                             *)
(***************************************************************************)
EXTENDS Integers

CONSTANTS
    RootTokens,  \* allocation of the root
    MaxDepth,    \* depth past which a quota is 0
    Quota,       \* [depths -> tokens a budget may be given there]: ceiling >> depth
    MaxBudgets   \* bound: budgets made

ASSUME BudgetAssumption ==
    /\ RootTokens \in Nat /\ MaxBudgets \in Nat /\ MaxDepth \in Nat
    /\ Quota \in [0..MaxDepth -> Nat]

VARIABLES
    count,      \* budgets 1..count exist, 1 is the root
    allocated, consumed, depth,  \* [budgets -> Nat]
    line,       \* [budgets -> the budget, its parent, and so on to the root]
    profiled    \* the tree was built from a modality

budgetVars == <<count, allocated, consumed, depth, line, profiled>>

Budgets == 1..count

token_quota_at_depth(d) == IF d <= MaxDepth THEN Quota[d] ELSE 0

\* The modality's rule, or half the parent's allocation per level without one.
quota_of(b, d) ==
    IF profiled THEN token_quota_at_depth(depth[b] + d)
    ELSE IF d = 0 THEN allocated[b] ELSE allocated[b] \div 2

remaining(b) == allocated[b] - consumed[b]

\* Every budget on the line has to afford it.
can_afford(b, n) == \A a \in line[b] : n <= remaining(a)

-----------------------------------------------------------------------------
child(b, d) ==
    LET quota == quota_of(b, d)
        c == count + 1
        with(f, x) == [i \in 1..c |-> IF i = c THEN x ELSE f[i]] IN
    /\ count < MaxBudgets /\ b \in Budgets
    /\ count' = c
    /\ allocated' = with(allocated, IF quota <= remaining(b) THEN quota ELSE remaining(b))
    /\ consumed' = with(consumed, 0)
    /\ depth' = with(depth, depth[b] + d)
    /\ line' = with(line, line[b] \union {c}) /\ UNCHANGED profiled

try_consume_SelfOnly(b, n) ==
    /\ b \in Budgets /\ n <= remaining(b)
    /\ consumed' = [consumed EXCEPT ![b] = @ + n]
    /\ UNCHANGED <<count, allocated, depth, line, profiled>>

\* The parent is asked first, and debits first; a refusal changes nothing.
try_consume(b, n) ==
    /\ b \in Budgets /\ can_afford(b, n)
    /\ consumed' = [a \in Budgets |-> IF a \in line[b] THEN consumed[a] + n ELSE consumed[a]]
    /\ UNCHANGED <<count, allocated, depth, line, profiled>>

-----------------------------------------------------------------------------
BudgetInit ==
    /\ count = 1 /\ allocated = [b \in {1} |-> RootTokens]
    /\ consumed = [b \in {1} |-> 0] /\ depth = [b \in {1} |-> 0] /\ line = [b \in {1} |-> {1}]
    /\ profiled \in BOOLEAN

BudgetNext ==
    \/ \E b \in Budgets, d \in {0, 1} : child(b, d)
    \/ \E b \in Budgets, n \in 1..RootTokens : try_consume(b, n)

BudgetSpec == BudgetInit /\ [][BudgetNext]_budgetVars

BudgetTypeOK ==
    /\ count \in Nat \ {0}
    /\ allocated \in [Budgets -> Nat] /\ consumed \in [Budgets -> Nat]
    /\ depth \in [Budgets -> Nat] /\ line \in [Budgets -> SUBSET Budgets]
    /\ profiled \in BOOLEAN

\* Lines are ancestor lines: each holds its budget, and the line of every
\* budget it holds.
LinesClosed == \A b \in Budgets : b \in line[b] /\ \A a \in line[b] : line[a] \subseteq line[b]

\* However children are made and drawn on, no budget of the tree overspends,
\* and what any descendant has spent has been charged to it as well.
NeverOverspent ==
    \A b \in Budgets :
        /\ consumed[b] <= allocated[b]
        /\ \A a \in line[b] : consumed[b] <= consumed[a]
=============================================================================
