---------------------------- MODULE MessageQueue ----------------------------
(***************************************************************************)
(* One stream of the durable queue (src/paa/storage/queue/                 *)
(* sqlite_backend.py): enqueue, claim, ack, nack and reclaim_expired, each *)
(* one transaction.                                                        *)
(* Time is what visible_after <= now says of a row: due.  A deadline set   *)
(* in the future is not due until time passes.  Consumers may stall past   *)
(* their deadline, die, or ack and nack late.                              *)
(***************************************************************************)
EXTENDS Naturals, FiniteSets

CONSTANTS Messages,    \* ids a producer may enqueue
          Consumers,
          Priorities,  \* smaller is dispatched first
          MaxAttempts, \* max_attempts of every message
          MaxLimit,    \* bound: the limit of a claim
          Reclaims     \* whether anything calls reclaim_expired

ASSUME QueueAssumption ==
    /\ IsFiniteSet(Messages)
    /\ Priorities \subseteq Nat
    /\ MaxAttempts \in Nat \ {0} /\ MaxLimit \in Nat \ {0}
    /\ Reclaims \in BOOLEAN

VARIABLES row,     \* the queue_messages table
          held,    \* consumer -> messages it was given and has not settled
          arrivals,\* arrival_seq of the newest row
          claims   \* history: how often each message was handed out

vars == <<row, held, arrivals, claims>>

Live == {"ready", "claimed"}
Retired == {"done", "dead"}
Absent == [status |-> "absent", attempts |-> 0, priority |-> 0, seq |-> 0, due |-> FALSE]

Init ==
    /\ row = [m \in Messages |-> Absent]
    /\ held = [c \in Consumers |-> {}]
    /\ arrivals = 0
    /\ claims = [m \in Messages |-> 0]

(* enqueue, at once or with a delay.                                       *)
Enqueue(m) ==
    /\ row[m].status = "absent"
    /\ \E p \in Priorities, now \in BOOLEAN :
        row' = [row EXCEPT ![m] = [status |-> "ready", attempts |-> 0, priority |-> p,
                                   seq |-> arrivals + 1, due |-> now]]
    /\ arrivals' = arrivals + 1
    /\ UNCHANGED <<held, claims>>

(* The clock passes a row's visible_after.                                 *)
BecomesDue(m) ==
    /\ row[m].status \in Live /\ ~row[m].due
    /\ row' = [row EXCEPT ![m].due = TRUE]
    /\ UNCHANGED <<held, arrivals, claims>>

(* ORDER BY priority, enqueued_at, arrival_seq.                            *)
Precedes(m, n) ==
    \/ row[m].priority < row[n].priority
    \/ row[m].priority = row[n].priority /\ row[m].seq < row[n].seq

Ready == {m \in Messages : row[m].status = "ready" /\ row[m].due}

(* The first limit ready rows, selected and marked in one transaction; the *)
(* claim's deadline lies in the future.                                    *)
Claim(c) ==
    \E S \in SUBSET Ready, limit \in 1 .. MaxLimit :
        /\ S # {}
        /\ Cardinality(S) = limit \/ (Cardinality(S) < limit /\ S = Ready)
        /\ \A m \in S, n \in Ready \ S : Precedes(m, n)
        /\ row' = [m \in Messages |->
                     IF m \in S THEN [row[m] EXCEPT !.status = "claimed", !.due = FALSE]
                     ELSE row[m]]
        /\ held' = [held EXCEPT ![c] = @ \cup S]
        /\ claims' = [m \in Messages |-> IF m \in S THEN claims[m] + 1 ELSE claims[m]]
        /\ UNCHANGED arrivals

Settle(c, m) == held' = [held EXCEPT ![c] = @ \ {m}]

(* ack retires a ready or claimed row, whoever holds it by now.            *)
Ack(c, m) ==
    /\ m \in held[c]
    /\ row' = IF row[m].status \in Live THEN [row EXCEPT ![m].status = "done"] ELSE row
    /\ Settle(c, m)
    /\ UNCHANGED <<arrivals, claims>>

(* Mutant: one attempt too many before the dead letter.                    *)
Failed_OneMore(r, soon) ==
    IF r.attempts + 1 > MaxAttempts
      THEN [r EXCEPT !.status = "dead", !.attempts = @ + 1, !.due = TRUE]
      ELSE [r EXCEPT !.status = "ready", !.attempts = @ + 1, !.due = soon]

(* One more failed attempt: ready again, or dead at the ceiling.           *)
Failed(r, soon) ==
    IF r.attempts + 1 >= MaxAttempts
      THEN [r EXCEPT !.status = "dead", !.attempts = @ + 1, !.due = TRUE]
      ELSE [r EXCEPT !.status = "ready", !.attempts = @ + 1, !.due = soon]

Nack(c, m) ==
    /\ m \in held[c]
    /\ \E soon \in BOOLEAN :
        row' = IF row[m].status \in Live THEN [row EXCEPT ![m] = Failed(@, soon)] ELSE row
    /\ Settle(c, m)
    /\ UNCHANGED <<arrivals, claims>>

(* Mutant: an expired claim is reclaimed only the first time.              *)
Expired_Once ==
    {m \in Messages : row[m].status = "claimed" /\ row[m].due /\ row[m].attempts = 0}

Expired == {m \in Messages : row[m].status = "claimed" /\ row[m].due}

(* Every expired claim counts as a failed attempt.                         *)
ReclaimExpired ==
    /\ Reclaims /\ Expired # {}
    /\ row' = [m \in Messages |-> IF m \in Expired THEN Failed(row[m], TRUE) ELSE row[m]]
    /\ UNCHANGED <<held, arrivals, claims>>

(* A consumer dies and forgets what it was given.                          *)
Die(c) ==
    /\ held[c] # {}
    /\ held' = [held EXCEPT ![c] = {}]
    /\ UNCHANGED <<row, arrivals, claims>>

Work(c) == \E m \in held[c] : Ack(c, m) \/ Nack(c, m)

Next ==
    \/ \E m \in Messages : Enqueue(m) \/ BecomesDue(m)
    \/ \E c \in Consumers : Claim(c) \/ Work(c) \/ Die(c)
    \/ ReclaimExpired

(* Time passes, and a consumer that is alive claims what is ready and      *)
(* settles what it holds.                                                  *)
Fairness ==
    /\ \A m \in Messages : WF_vars(BecomesDue(m))
    /\ \A c \in Consumers : WF_vars(Claim(c)) /\ WF_vars(Work(c))
    /\ WF_vars(ReclaimExpired)

Spec == Init /\ [][Next]_vars
FairSpec == Spec /\ Fairness

depth == Cardinality({m \in Messages : row[m].status \in Live})

-----------------------------------------------------------------------------
(* Rows, holdings and counters have the types of their columns.            *)
TypeOK ==
    /\ row \in [Messages -> [status : Live \cup Retired \cup {"absent"},
                             attempts : 0 .. MaxAttempts, priority : Priorities \cup {0},
                             seq : 0 .. arrivals, due : BOOLEAN]]
    /\ held \in [Consumers -> SUBSET Messages]
    /\ arrivals \in Nat
    /\ claims \in [Messages -> Nat]

(* However late acks, nacks and reclaims interleave, a message is handed   *)
(* out at most once per counted attempt and never more than max_attempts   *)
(* times: a poison message cannot take down worker after worker.           *)
PoisonIsBounded ==
    \A m \in Messages :
        /\ claims[m] <= row[m].attempts + IF row[m].status \in {"claimed", "done"} THEN 1 ELSE 0
        /\ claims[m] <= MaxAttempts

(* A message is dead exactly when its attempts are used up, and a live one *)
(* always has an attempt left.                                             *)
DeadExactlyAtCeiling ==
    \A m \in Messages :
        /\ row[m].status = "dead" => row[m].attempts = MaxAttempts
        /\ row[m].status \in Live => row[m].attempts < MaxAttempts

(* A retired message stays retired: a late nack or reclaim never brings    *)
(* back work that was acknowledged or buried.                              *)
RetiredIsFinal ==
    [][\A m \in Messages : row[m].status \in Retired => row'[m].status = row[m].status]_vars

(* However late consumers settle: deliveries are bounded, a message is     *)
(* buried exactly at the ceiling, and what was retired stays retired.      *)
QueueSound == [](PoisonIsBounded /\ DeadExactlyAtCeiling) /\ RetiredIsFinal

(* Every message ends: acknowledged or dead-lettered, whatever consumers   *)
(* die or stall, as long as time passes and somebody reclaims and claims.  *)
EveryMessageEnds == \A m \in Messages : row[m].status \in Live ~> row[m].status \in Retired
=============================================================================
