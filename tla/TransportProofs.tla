-------------------------- MODULE TransportProofs --------------------------
(***************************************************************************)
(* Proofs about what carries work and keeps it apart: the message queue on *)
(* SQLite, the one on Redis, the advisory lock, and the graph of agents    *)
(* that wait for each other.                                               *)
(***************************************************************************)
EXTENDS MessageQueue, RedisQueue, TtlLock, Delegation, FiniteSetTheorems, TLAPS

-----------------------------------------------------------------------------
(* The SQLite queue, for any number of messages and consumers and any      *)
(* max_attempts, with or without a reclaimer                               *)

(* The three state invariants support each other: a claim may be granted   *)
(* because a live row has an attempt left, and it is counted.              *)
UnclaimedBeforeEnqueue == \A m \in Messages : row[m].status = "absent" => claims[m] = 0

QueueInv == TypeOK /\ PoisonIsBounded /\ DeadExactlyAtCeiling /\ UnclaimedBeforeEnqueue

RowType ==
    [status : Live \cup Retired \cup {"absent"}, attempts : 0 .. MaxAttempts,
     priority : Priorities \cup {0}, seq : 0 .. arrivals, due : BOOLEAN]

(* A failed attempt of a live row stays within the ceiling and is buried   *)
(* exactly when it reaches it.                                             *)
LEMMA FailedRow ==
    ASSUME QueueInv, NEW m \in Messages, row[m].status \in Live, NEW soon \in BOOLEAN
    PROVE  /\ Failed(row[m], soon) \in RowType
           /\ Failed(row[m], soon).attempts = row[m].attempts + 1
           /\ \/ /\ Failed(row[m], soon).status = "dead"
                 /\ row[m].attempts + 1 = MaxAttempts
              \/ /\ Failed(row[m], soon).status = "ready"
                 /\ row[m].attempts + 1 < MaxAttempts
<1>1. /\ row[m] \in RowType /\ row[m].attempts < MaxAttempts /\ row[m].attempts \in Nat
      /\ row[m].attempts + 1 \in 0 .. MaxAttempts /\ MaxAttempts \in Nat
  BY QueueAssumption DEF QueueInv, TypeOK, RowType, DeadExactlyAtCeiling
<1>2. CASE row[m].attempts + 1 >= MaxAttempts
  <2>1. Failed(row[m], soon) =
          [status |-> "dead", attempts |-> row[m].attempts + 1,
           priority |-> row[m].priority, seq |-> row[m].seq, due |-> TRUE]
    BY <1>1, <1>2 DEF Failed, RowType
  <2>2. row[m].priority \in Priorities \cup {0} /\ row[m].seq \in 0 .. arrivals
    BY <1>1 DEF RowType
  <2>3. Failed(row[m], soon) \in RowType
    BY <1>1, <2>1, <2>2 DEF RowType, Retired
  <2> QED
    BY <1>1, <1>2, <2>1, <2>3
<1>3. CASE ~(row[m].attempts + 1 >= MaxAttempts)
  <2>1. Failed(row[m], soon) =
          [status |-> "ready", attempts |-> row[m].attempts + 1,
           priority |-> row[m].priority, seq |-> row[m].seq, due |-> soon]
    BY <1>1, <1>3 DEF Failed, RowType
  <2>2. row[m].priority \in Priorities \cup {0} /\ row[m].seq \in 0 .. arrivals
    BY <1>1 DEF RowType
  <2>3. Failed(row[m], soon) \in RowType
    BY <1>1, <2>1, <2>2 DEF RowType, Live
  <2> QED
    BY <1>1, <1>3, <2>1, <2>3
<1> QED
  BY <1>2, <1>3

(* What the invariant says of one message.                                 *)
RowFine(m) ==
    /\ row[m] \in RowType /\ claims[m] \in Nat
    /\ claims[m] <= row[m].attempts + IF row[m].status \in {"claimed", "done"} THEN 1 ELSE 0
    /\ claims[m] <= MaxAttempts
    /\ row[m].status = "dead" => row[m].attempts = MaxAttempts
    /\ row[m].status \in Live => row[m].attempts < MaxAttempts
    /\ row[m].status = "absent" => claims[m] = 0

(* The tables are functions on the messages, whatever their values.        *)
Shaped ==
    /\ row = [m \in Messages |-> row[m]] /\ claims = [m \in Messages |-> claims[m]]
    /\ held \in [Consumers -> SUBSET Messages] /\ arrivals \in Nat

(* The invariant is a fact about each message by itself.                   *)
LEMMA InvByRow == QueueInv <=> Shaped /\ \A m \in Messages : RowFine(m)
<1>1. QueueInv => Shaped
  BY DEF QueueInv, Shaped, TypeOK
<1>2. QueueInv => \A m \in Messages : RowFine(m)
  <2> SUFFICES ASSUME QueueInv, NEW m \in Messages PROVE RowFine(m)
    OBVIOUS
  <2>1. row[m] \in RowType /\ claims[m] \in Nat
    BY DEF QueueInv, TypeOK, RowType
  <2> QED
    BY <2>1 DEF QueueInv, PoisonIsBounded, DeadExactlyAtCeiling, UnclaimedBeforeEnqueue, RowFine
<1>3. ASSUME Shaped, \A m \in Messages : RowFine(m) PROVE QueueInv
  <2>1. \A m \in Messages : row[m] \in RowType /\ claims[m] \in Nat
    BY <1>3 DEF RowFine
  <2>2. row \in [Messages -> RowType] /\ claims \in [Messages -> Nat]
    BY <1>3, <2>1 DEF Shaped
  <2>3. TypeOK
    BY <1>3, <2>2 DEF TypeOK, RowType, Shaped
  <2> QED
    BY <1>3, <2>3
       DEF QueueInv, PoisonIsBounded, DeadExactlyAtCeiling, UnclaimedBeforeEnqueue, RowFine
<1> QED
  BY <1>1, <1>2, <1>3

(* The same of the state after a step.                                     *)
LEMMA InvByRowNext ==
    ASSUME Shaped', \A m \in Messages : RowFine(m)' PROVE QueueInv'
<1>1. (Shaped /\ (\A m \in Messages : RowFine(m)) => QueueInv)'
  BY InvByRow, PTL
<1> QED
  BY <1>1

(* A message the step leaves alone stays fine.                             *)
LEMMA UntouchedRow ==
    ASSUME QueueInv, NEW m \in Messages, arrivals' \in Nat, arrivals <= arrivals',
           row'[m] = row[m], claims'[m] = claims[m]
    PROVE  RowFine(m)'
<1>1. RowFine(m) /\ arrivals \in Nat
  BY InvByRow DEF Shaped
<1>2. row[m] \in RowType'
  BY <1>1 DEF RowFine, RowType
<1> QED
  BY <1>1, <1>2 DEF RowFine

(* The initial table is empty.                                             *)
THEOREM InitQueueInv == Init => QueueInv
BY QueueAssumption DEF Init, QueueInv, TypeOK, PoisonIsBounded, DeadExactlyAtCeiling,
   UnclaimedBeforeEnqueue, Absent, Live, Retired

(* A failed attempt of a live message keeps it fine.                       *)
LEMMA FailedKeeps ==
    ASSUME QueueInv, NEW m \in Messages, row[m].status \in Live, NEW soon \in BOOLEAN,
           row'[m] = Failed(row[m], soon), claims'[m] = claims[m], arrivals' = arrivals
    PROVE  RowFine(m)'
<1>1. RowFine(m) /\ row[m].attempts \in Nat /\ MaxAttempts \in Nat
  BY InvByRow, QueueAssumption DEF RowFine, RowType
<1>2. row'[m] \in RowType'
  BY FailedRow DEF RowType
<1> QED
  BY <1>1, <1>2, FailedRow DEF RowFine, Live

(* No operation of the queue breaks the invariant.                         *)
THEOREM StepQueueInv == QueueInv /\ [Next]_vars => QueueInv'
<1> SUFFICES ASSUME QueueInv, [Next]_vars PROVE QueueInv'
  OBVIOUS
<1>0. Shaped /\ (\A m \in Messages : RowFine(m)) /\ MaxAttempts \in Nat \ {0}
  BY InvByRow, QueueAssumption
<1>1. ASSUME NEW m \in Messages, Enqueue(m) PROVE QueueInv'
  <2>1. PICK p \in Priorities, soon \in BOOLEAN :
          row' = [row EXCEPT ![m] = [status |-> "ready", attempts |-> 0, priority |-> p,
                                     seq |-> arrivals + 1, due |-> soon]]
    BY <1>1 DEF Enqueue
  <2>2. Shaped' /\ arrivals <= arrivals'
    <3>1. row' = [n \in Messages |-> row'[n]]
      BY <1>0, <2>1 DEF Shaped
    <3>2. arrivals \in Nat /\ arrivals' = arrivals + 1 /\ held' = held /\ claims' = claims
      BY <1>0, <1>1 DEF Enqueue, Shaped
    <3> QED
      BY <1>0, <3>1, <3>2 DEF Shaped
  <2>3. row'[m] = [status |-> "ready", attempts |-> 0, priority |-> p,
                   seq |-> arrivals + 1, due |-> soon]
    BY <1>0, <2>1 DEF Shaped
  <2>4. row'[m] \in RowType'
    BY <1>0, <1>1, <2>3 DEF RowType, Live, Shaped, Enqueue
  <2>5. claims'[m] = 0
    BY <1>0, <1>1 DEF Enqueue, RowFine
  <2>6. RowFine(m)'
    BY <1>0, <2>3, <2>4, <2>5 DEF RowFine
  <2>7. \A n \in Messages \ {m} : row'[n] = row[n] /\ claims'[n] = claims[n]
    BY <1>0, <1>1, <2>1 DEF Enqueue, Shaped
  <2>8. \A n \in Messages : RowFine(n)'
    BY <2>2, <2>6, <2>7, UntouchedRow DEF Shaped
  <2> QED
    BY <2>2, <2>8, InvByRowNext
<1>2. ASSUME NEW m \in Messages, BecomesDue(m) PROVE QueueInv'
  <2>1. row' = [row EXCEPT ![m] = [row[m] EXCEPT !.due = TRUE]]
    BY <1>0, <1>2 DEF BecomesDue, Shaped
  <2>2. Shaped' /\ arrivals' = arrivals /\ claims' = claims
    BY <1>0, <1>2, <2>1 DEF BecomesDue, Shaped
  <2>3. row'[m] = [row[m] EXCEPT !.due = TRUE]
    BY <1>0, <2>1 DEF Shaped
  <2>4. row'[m] = [status |-> row[m].status, attempts |-> row[m].attempts,
                   priority |-> row[m].priority, seq |-> row[m].seq, due |-> TRUE]
    BY <1>0, <2>3 DEF RowFine, RowType
  <2>5. row'[m] \in RowType'
    BY <1>0, <2>2, <2>4 DEF RowFine, RowType
  <2>6. RowFine(m)'
    BY <1>0, <2>2, <2>4, <2>5 DEF RowFine
  <2>7. \A n \in Messages \ {m} : row'[n] = row[n]
    BY <1>0, <2>1 DEF Shaped
  <2>8. \A n \in Messages : RowFine(n)'
    BY <1>0, <2>2, <2>6, <2>7, UntouchedRow DEF Shaped
  <2> QED
    BY <2>2, <2>8, InvByRowNext
<1>3. ASSUME NEW c \in Consumers, Claim(c) PROVE QueueInv'
  <2>1. PICK S \in SUBSET Ready :
          /\ row' = [m \in Messages |->
                     IF m \in S THEN [row[m] EXCEPT !.status = "claimed", !.due = FALSE]
                     ELSE row[m]]
          /\ held' = [held EXCEPT ![c] = @ \cup S]
          /\ claims' = [m \in Messages |-> IF m \in S THEN claims[m] + 1 ELSE claims[m]]
          /\ UNCHANGED arrivals
    BY <1>3 DEF Claim
  <2>2. Shaped'
    BY <1>0, <2>1 DEF Ready, Shaped
  <2>3. ASSUME NEW m \in S PROVE RowFine(m)'
    <3>1. m \in Messages /\ row[m].status = "ready" /\ RowFine(m)
      BY <1>0 DEF Ready
    <3>2. row'[m] = [row[m] EXCEPT !.status = "claimed", !.due = FALSE]
      BY <2>1, <3>1
    <3>3. row'[m] = [status |-> "claimed", attempts |-> row[m].attempts,
                     priority |-> row[m].priority, seq |-> row[m].seq, due |-> FALSE]
      BY <3>1, <3>2 DEF RowFine, RowType
    <3>4. row'[m] \in RowType'
      BY <2>1, <3>1, <3>3 DEF RowFine, RowType, Live
    <3>5. claims'[m] = claims[m] + 1 /\ claims[m] <= row[m].attempts
          /\ row[m].attempts < MaxAttempts /\ row[m].attempts \in Nat
      <4>1. claims'[m] = claims[m] + 1
        BY <2>1, <3>1
      <4>2. row[m].attempts \in Nat
        BY <3>1 DEF RowFine, RowType
      <4>3. claims[m] <= row[m].attempts /\ row[m].attempts < MaxAttempts
        BY <3>1, <4>2 DEF RowFine, Live
      <4> QED
        BY <4>1, <4>2, <4>3
    <3> QED
      BY <1>0, <3>1, <3>3, <3>4, <3>5 DEF RowFine, Live
  <2>4. \A m \in Messages : m \notin S => row'[m] = row[m] /\ claims'[m] = claims[m]
    BY <2>1
  <2>5. \A m \in Messages : RowFine(m)'
    <3>0. arrivals' = arrivals
      BY <2>1
    <3>1. arrivals' \in Nat /\ arrivals <= arrivals'
      BY <1>0, <3>0 DEF Shaped
    <3>2. \A m \in Messages : m \notin S => RowFine(m)'
      BY <2>4, <3>1, UntouchedRow
    <3> QED
      BY <2>3, <3>2
  <2> QED
    BY <2>2, <2>5, InvByRowNext
<1>4. ASSUME NEW c \in Consumers, NEW m \in held[c], Ack(c, m) PROVE QueueInv'
  <2>0. m \in Messages /\ claims' = claims /\ arrivals' = arrivals
    BY <1>0, <1>4 DEF Ack, Shaped
  <2>1. Shaped'
    BY <1>0, <1>4, <2>0 DEF Ack, Settle, Shaped
  <2>2. CASE row[m].status \in Live
    <3>1. row'[m] = [row[m] EXCEPT !.status = "done"]
      BY <1>0, <1>4, <2>0, <2>2 DEF Ack, Shaped
    <3>2. row'[m] = [status |-> "done", attempts |-> row[m].attempts,
                     priority |-> row[m].priority, seq |-> row[m].seq, due |-> row[m].due]
      BY <1>0, <2>0, <3>1 DEF RowFine, RowType
    <3>3. row'[m] \in RowType'
      BY <1>0, <2>0, <3>2 DEF RowFine, RowType, Retired
    <3>4. RowFine(m)'
      <4>1. row[m].attempts \in Nat /\ claims[m] <= row[m].attempts + 1
        BY <1>0, <2>0 DEF RowFine, RowType
      <4> QED
        BY <1>0, <2>0, <3>2, <3>3, <4>1 DEF RowFine, Live
    <3>5. \A n \in Messages \ {m} : row'[n] = row[n]
      BY <1>0, <1>4, <2>2 DEF Ack, Shaped
    <3>6. \A n \in Messages : RowFine(n)'
      BY <1>0, <2>0, <3>4, <3>5, UntouchedRow DEF Shaped
    <3> QED
      BY <2>1, <3>6, InvByRowNext
  <2>3. CASE row[m].status \notin Live
    <3>1. \A n \in Messages : RowFine(n)'
      BY <1>0, <1>4, <2>0, <2>3, UntouchedRow DEF Ack, Shaped
    <3> QED
      BY <2>1, <3>1, InvByRowNext
  <2> QED
    BY <2>2, <2>3
<1>5. ASSUME NEW c \in Consumers, NEW m \in held[c], Nack(c, m) PROVE QueueInv'
  <2>0. m \in Messages /\ claims' = claims /\ arrivals' = arrivals
    BY <1>0, <1>5 DEF Nack, Shaped
  <2>1. PICK soon \in BOOLEAN :
          row' = IF row[m].status \in Live THEN [row EXCEPT ![m] = Failed(row[m], soon)]
                 ELSE row
    BY <1>5 DEF Nack
  <2>2. Shaped'
    BY <1>0, <1>5, <2>0, <2>1 DEF Nack, Settle, Shaped
  <2>3. CASE row[m].status \in Live
    <3>1. row'[m] = Failed(row[m], soon) /\ \A n \in Messages \ {m} : row'[n] = row[n]
      BY <1>0, <2>0, <2>1, <2>3 DEF Shaped
    <3>2. RowFine(m)'
      BY <2>0, <2>3, <3>1, FailedKeeps
    <3>3. \A n \in Messages : RowFine(n)'
      BY <1>0, <2>0, <3>1, <3>2, UntouchedRow DEF Shaped
    <3> QED
      BY <2>2, <3>3, InvByRowNext
  <2>4. CASE row[m].status \notin Live
    <3>1. \A n \in Messages : RowFine(n)'
      BY <1>0, <2>0, <2>1, <2>4, UntouchedRow DEF Shaped
    <3> QED
      BY <2>2, <3>1, InvByRowNext
  <2> QED
    BY <2>3, <2>4
<1>6. CASE ReclaimExpired
  <2>1. Shaped' /\ claims' = claims /\ arrivals' = arrivals
    BY <1>0, <1>6 DEF ReclaimExpired, Shaped
  <2>2. ASSUME NEW m \in Expired PROVE RowFine(m)'
    <3>1. m \in Messages /\ row[m].status \in Live /\ row'[m] = Failed(row[m], TRUE)
      BY <1>6 DEF ReclaimExpired, Expired, Live
    <3> QED
      BY <2>1, <3>1, FailedKeeps
  <2>3. \A m \in Messages : m \notin Expired => row'[m] = row[m]
    BY <1>6 DEF ReclaimExpired
  <2>4. \A m \in Messages : RowFine(m)'
    BY <1>0, <2>1, <2>2, <2>3, UntouchedRow DEF Shaped
  <2> QED
    BY <2>1, <2>4, InvByRowNext
<1>7. ASSUME NEW c \in Consumers, Die(c) PROVE QueueInv'
  <2>1. Shaped'
    BY <1>0, <1>7 DEF Die, Shaped
  <2>2. \A m \in Messages : RowFine(m)'
    BY <1>0, <1>7, UntouchedRow DEF Die, Shaped
  <2> QED
    BY <2>1, <2>2, InvByRowNext
<1>8. CASE UNCHANGED vars
  <2>1. Shaped'
    BY <1>0, <1>8 DEF vars, Shaped
  <2>2. \A m \in Messages : RowFine(m)'
    BY <1>0, <1>8, UntouchedRow DEF vars, Shaped
  <2> QED
    BY <2>1, <2>2, InvByRowNext
<1> QED
  BY <1>1, <1>2, <1>3, <1>4, <1>5, <1>6, <1>7, <1>8 DEF Next, Work

(* The queue never leaves the invariant.                                   *)
THEOREM QueueInvariant == Spec => []QueueInv
BY InitQueueInv, StepQueueInv, PTL DEF Spec

(* Columns, holdings and counters keep their types.                        *)
THEOREM QueueTypeCorrect == Spec => []TypeOK
<1>1. QueueInv => TypeOK
  BY DEF QueueInv
<1> QED
  BY <1>1, QueueInvariant, PTL

(* No message is ever handed out more than max_attempts times.             *)
THEOREM PoisonAlwaysBounded == Spec => []PoisonIsBounded
<1>1. QueueInv => PoisonIsBounded
  BY DEF QueueInv
<1> QED
  BY <1>1, QueueInvariant, PTL

(* A message is dead-lettered at the ceiling, not before and not after.    *)
THEOREM DeadAtCeiling == Spec => []DeadExactlyAtCeiling
<1>1. QueueInv => DeadExactlyAtCeiling
  BY DEF QueueInv
<1> QED
  BY <1>1, QueueInvariant, PTL

(* No late ack, nack or reclaim moves a retired message.                   *)
THEOREM RetiredStaysRetired == Spec => RetiredIsFinal
<1>1. QueueInv /\ [Next]_vars =>
        [\A m \in Messages : row[m].status \in Retired => row'[m].status = row[m].status]_vars
  <2> SUFFICES ASSUME QueueInv, Next, NEW m \in Messages, row[m].status \in Retired
               PROVE  row'[m].status = row[m].status
    BY DEF vars
  <2>0. row = [n \in Messages |-> row[n]] /\ \A c \in Consumers : held[c] \subseteq Messages
    BY DEF QueueInv, TypeOK
  <2>1. CASE \E n \in Messages : Enqueue(n) \/ BecomesDue(n)
    BY <2>0, <2>1 DEF Enqueue, BecomesDue, Live, Retired
  <2>2. CASE \E c \in Consumers : Claim(c)
    BY <2>0, <2>2 DEF Claim, Ready, Retired
  <2>3. CASE \E c \in Consumers : Work(c)
    BY <2>0, <2>3 DEF Work, Ack, Nack, Live, Retired
  <2>4. CASE ReclaimExpired \/ \E c \in Consumers : Die(c)
    BY <2>0, <2>4 DEF ReclaimExpired, Expired, Die, Retired
  <2> QED
    BY <2>1, <2>2, <2>3, <2>4 DEF Next
<1> QED
  BY <1>1, QueueInvariant, PTL DEF Spec, RetiredIsFinal

(* The three promises together, for any messages and consumers.            *)
THEOREM QueueAlwaysSound == Spec => QueueSound
BY PoisonAlwaysBounded, DeadAtCeiling, RetiredStaysRetired, PTL DEF QueueSound

-----------------------------------------------------------------------------
(* The advisory lock *)

LockSpec == LockInit /\ [][LockNext]_lockVars

PartyStates ==
    [pc : {"out", "acquire", "in", "refresh"}, read : Nat, until : Nat]

LockType ==
    /\ server \in {"sqlite", "redis"}
    /\ now \in Nat
    /\ lease \in [holder : Holders \union {"vacant"}, until : Nat]
    /\ party \in [Holders -> PartyStates]

\* A clock reading is never ahead of the clock; the lease a party was told it
\* has is the one in the table for as long as it has not run out, whatever the
\* party is doing meanwhile.
LockInv ==
    /\ LockType
    /\ \A h \in Holders : party[h].read <= now
    /\ \A h \in Holders :
         party[h].until > now => lease = [holder |-> h, until |-> party[h].until]

LEMMA LockInitially == LockInit => LockInv
  BY DEF LockInit, LockInv, LockType, PartyStates, Vacant, Outside

\* Whoever else has a lease that is still running keeps the lock from h.
LEMMA RunningLeaseBlocks ==
    ASSUME LockInv, NEW g \in Holders, NEW h \in Holders, g # h, party[g].until > now
    PROVE  ~Takes(h) /\ Found2 = lease /\ lease.holder # h
  <1>1. lease = [holder |-> g, until |-> party[g].until] /\ lease.until > now
    BY DEF LockInv
  <1>2. party[h].read \in Nat /\ party[h].read <= now /\ now \in Nat /\ party[g].until \in Nat
    BY DEF LockInv, LockType, PartyStates
  <1>3. Reading(h) <= now
    BY <1>2 DEF Reading
  <1>4. Found2 = lease /\ lease # Vacant
    BY <1>1, <1>2 DEF Found2, Vacant
  <1> QED
    BY <1>1, <1>2, <1>3, <1>4 DEF Takes, Reading

LEMMA ReadingIsNat ==
    ASSUME LockInv, NEW h \in Holders
    PROVE  /\ Reading(h) \in Nat /\ Reading(h) <= now
           /\ Found2 \in [holder : Holders \union {"vacant"}, until : Nat]
  BY DEF LockInv, LockType, PartyStates, Reading, Found2, Vacant

LEMMA LockSteps == LockInv /\ [LockNext]_lockVars => LockInv'
  <1> SUFFICES ASSUME LockInv, [LockNext]_lockVars PROVE LockInv'
    OBVIOUS
  <1> USE LockAssumption
  <1>1. CASE Tick
    BY <1>1 DEF Tick, LockInv, LockType, PartyStates
  <1>2. ASSUME NEW h \in Holders, WantAcquire(h) \/ WantRefresh(h)
        PROVE  LockInv'
    BY <1>2 DEF WantAcquire, WantRefresh, ReadClock, LockInv, LockType, PartyStates
  <1>3. ASSUME NEW h \in Holders, Acquire(h)
        PROVE  LockInv'
    <2>1. CASE Takes(h)
      <3> DEFINE u == Reading(h) + LockTtl
      <3>1. /\ lease' = [holder |-> h, until |-> u]
            /\ party' = [party EXCEPT ![h] = [pc |-> "in", read |-> 0, until |-> u]]
            /\ UNCHANGED <<server, now>> /\ u \in Nat
        BY <1>3, <2>1, ReadingIsNat DEF Acquire
      <3> HIDE DEF u
      <3>2. \A g \in Holders : g # h => ~(party[g].until > now)
        BY <2>1, RunningLeaseBlocks
      <3> QED
        BY <3>1, <3>2 DEF LockInv, LockType, PartyStates
    <2>2. CASE ~Takes(h)
      <3>1. lease' = Found2 /\ party' = [party EXCEPT ![h] = Outside] /\ UNCHANGED <<server, now>>
        BY <1>3, <2>2 DEF Acquire
      <3>2. \A g \in Holders : g # h /\ party[g].until > now => Found2 = lease
        BY RunningLeaseBlocks
      <3> QED
        BY <3>1, <3>2, ReadingIsNat DEF LockInv, LockType, PartyStates, Outside
    <2> QED
      BY <2>1, <2>2
  <1>4. ASSUME NEW h \in Holders, Refresh(h)
        PROVE  LockInv'
    <2> DEFINE u == Reading(h) + LockTtl
    <2>1. CASE Found2.holder = h /\ Found2.until > Reading(h)
      <3>1. /\ lease' = [holder |-> h, until |-> u]
            /\ party' = [party EXCEPT ![h] = [pc |-> "in", read |-> 0, until |-> u]]
            /\ UNCHANGED <<server, now>> /\ u \in Nat
        BY <1>4, <2>1, ReadingIsNat DEF Refresh
      <3> HIDE DEF u
      <3>2. \A g \in Holders : g # h => ~(party[g].until > now)
        BY <2>1, RunningLeaseBlocks
      <3> QED
        BY <3>1, <3>2 DEF LockInv, LockType, PartyStates
    <2>2. CASE ~(Found2.holder = h /\ Found2.until > Reading(h))
      <3>1. lease' = Found2 /\ party' = [party EXCEPT ![h].pc = "in"] /\ UNCHANGED <<server, now>>
        BY <1>4, <2>2 DEF Refresh
      <3>2. \A g \in Holders : party[g].until > now => Found2 = lease
        BY DEF LockInv, LockType, PartyStates, Found2
      <3> QED
        BY <3>1, <3>2, ReadingIsNat DEF LockInv, LockType, PartyStates
    <2> QED
      BY <2>1, <2>2
  <1>5. ASSUME NEW h \in Holders, Release(h)
        PROVE  LockInv'
    <2>1. /\ lease' = IF Found2.holder = h THEN Vacant ELSE Found2
          /\ party' = [party EXCEPT ![h] = Outside] /\ UNCHANGED <<server, now>>
      BY <1>5 DEF Release
    <2>2. \A g \in Holders : g # h /\ party[g].until > now => Found2 = lease /\ lease.holder # h
      BY RunningLeaseBlocks
    <2>3. lease' \in [holder : Holders \union {"vacant"}, until : Nat]
      BY <2>1, ReadingIsNat DEF Vacant
    <2> QED
      BY <2>1, <2>2, <2>3 DEF LockInv, LockType, PartyStates, Outside
  <1>6. ASSUME NEW h \in Holders, HolderDies(h)
        PROVE  LockInv'
    BY <1>6 DEF HolderDies, LockInv, LockType, PartyStates, Outside
  <1>7. CASE UNCHANGED lockVars
    BY <1>7 DEF lockVars, LockInv, LockType, PartyStates
  <1> QED
    BY <1>1, <1>2, <1>3, <1>4, <1>5, <1>6, <1>7 DEF LockNext

\* At most one holder has a lease that has not run out, and the table names it,
\* for any number of processes, any TTL and on either substrate.
THEOREM LeaseIsAlwaysExclusive == LockSpec => []LeaseIsExclusive
  <1>1. LockInv => LeaseIsExclusive
    BY DEF LockInv, LeaseIsExclusive
  <1> QED
    BY <1>1, LockInitially, LockSteps, PTL DEF LockSpec
-----------------------------------------------------------------------------
(* The Redis queue, for any number of jobs, clients and deaths.  OneCopy   *)
(* follows from OnePlace, which needs the other two: an XDEL removes the   *)
(* job its client means to move only if the client's entry is there and    *)
(* is nobody else's, and a promotion finds the one body of the id it got.  *)

RedisSpec == RedisInit /\ [][RedisNext]_redisVars

\* The commands between which a client holds the id of a delayed body.
AtBody == {"body", "hdel", "zadd"}

\* ... and those at which its job is in its hands only.
InHands == {"publish", "successor", "park", "bury"}
Resters == {"rest", "zrem", "autoclaim", "read"}
Moves == {"bury ack", "bury del"}
KnowsJob == {"nack", "nack del", "reclaim", "bury ack", "bury del"}

EntryStates ==
    [id : 1 .. ids, job : Jobs, attempts : Nat, times : 0 .. Ceiling,
     owner : Clients \union {Nobody}, idle : BOOLEAN]
BodyStates == [id : 1 .. ids, job : Jobs, attempts : Nat]
ClientStates ==
    [pc : Resters \union AtBody \union InHands \union AtEntry,
     entry : Nat, job : Jobs \union {"none"}, attempts : Nat, due : SUBSET Nat]

RedisType ==
    /\ ids \in Nat /\ disturbed \in BOOLEAN
    /\ entries \subseteq EntryStates /\ bodies \subseteq BodyStates
    /\ delayed \subseteq [id : Nat, due : BOOLEAN]
    /\ buried \subseteq [id : 1 .. ids, job : Jobs]
    /\ finished \subseteq Jobs
    /\ client \in [Clients -> ClientStates]
    /\ \A c \in Clients : client[c].pc \in InHands \union KnowsJob => client[c].job \in Jobs

UniqueIds(S) == \A x, y \in S : x.id = y.id => x = y
OnePerJob(S) == \A x, y \in S : x.job = y.job => x = y

\* An entry that a client is at is there, was delivered, and is its own.
EntriesHeld ==
    /\ UniqueIds(entries)
    /\ \A c \in Clients : client[c].pc \in AtEntry =>
         \E e \in entries :
            /\ e.id = client[c].entry /\ e.times > 0
            /\ client[c].pc \in KnowsJob => client[c].job = e.job
    /\ \A c, d \in Clients :
         client[c].pc \in AtEntry /\ client[d].pc \in AtEntry /\ client[c].entry = client[d].entry => c = d

\* A delayed body is found by its id in the sorted set, or by the one client that
\* has removed the id or is about to add it.
BodiesFound ==
    /\ UniqueIds(bodies)
    /\ \A d \in delayed : \E b \in bodies : b.id = d.id
    /\ \A c \in Clients : client[c].pc \in AtBody =>
         /\ \E b \in bodies : b.id = client[c].entry /\ (client[c].pc = "hdel" => client[c].job = b.job)
         /\ \A d \in delayed : d.id # client[c].entry
    /\ \A c, d \in Clients :
         client[c].pc \in AtBody /\ client[d].pc \in AtBody /\ client[c].entry = client[d].entry => c = d

\* A job is in one place; one that is being reclaimed, in the two streams.
OnePlace ==
    /\ OnePerJob(entries) /\ OnePerJob(bodies) /\ OnePerJob(buried)
    /\ \A c, d \in Clients :
         client[c].pc \in InHands /\ client[d].pc \in InHands /\ client[c].job = client[d].job => c = d
    /\ \A e \in entries : e.job \notin finished /\ \A b \in bodies : e.job # b.job
    /\ \A b \in bodies : b.job \notin finished /\ \A x \in buried : b.job # x.job
    /\ \A x \in buried : x.job \notin finished
    /\ \A c \in Clients : client[c].pc \in InHands =>
         /\ client[c].job \notin finished
         /\ \A e \in entries : client[c].job # e.job
         /\ \A b \in bodies : client[c].job # b.job
         /\ \A x \in buried : client[c].job # x.job
    /\ \A e \in entries : \A x \in buried : e.job = x.job =>
         \E c \in Clients : client[c].pc \in Moves /\ client[c].entry = e.id
    /\ \A c \in Clients : client[c].pc \in Moves => \E x \in buried : x.job = client[c].job

RedisInv == RedisType /\ (~disturbed => EntriesHeld /\ BodiesFound /\ OnePlace)

\* What moves a client moves nobody else.
LEMMA ClientMoves ==
    ASSUME RedisType, NEW c \in Clients, NEW w, client' = [client EXCEPT ![c] = w]
    PROVE  client'[c] = w /\ \A d \in Clients : d # c => client'[d] = client[d]
  BY DEF RedisType

\* Types survive: a step hands out at most one new id.
Grown ==
    /\ ids' \in Nat /\ ids <= ids' /\ disturbed' \in BOOLEAN
    /\ entries' \subseteq EntryStates' /\ bodies' \subseteq BodyStates'
    /\ delayed' \subseteq [id : Nat, due : BOOLEAN]
    /\ buried' \subseteq [id : 1 .. ids', job : Jobs]
    /\ finished' \subseteq Jobs

LEMMA StatesGrow ==
    ASSUME RedisType, ids' \in Nat, ids <= ids'
    PROVE  /\ entries \subseteq EntryStates' /\ bodies \subseteq BodyStates'
           /\ delayed \subseteq [id : Nat, due : BOOLEAN]
           /\ buried \subseteq [id : 1 .. ids', job : Jobs]
           /\ \A d \in Clients : client[d] \in ClientStates'
  <1>1. 1 .. ids \subseteq 1 .. ids'
    BY DEF RedisType
  <1>2. EntryStates \subseteq EntryStates' /\ BodyStates \subseteq BodyStates'
    BY <1>1 DEF EntryStates, BodyStates
  <1>3. ClientStates \subseteq ClientStates'
    BY <1>1 DEF ClientStates
  <1> QED
    BY <1>1, <1>2, <1>3 DEF RedisType

LEMMA RedisTyped ==
    ASSUME RedisType, NEW c \in Clients, NEW w, client' = [client EXCEPT ![c] = w],
           Grown, w \in ClientStates', w.pc \in InHands \union KnowsJob => w.job \in Jobs
    PROVE  RedisType'
  <1>1. \A d \in Clients : client'[d] \in ClientStates'
    BY ClientMoves, StatesGrow DEF Grown
  <1>2. client' \in [Clients -> ClientStates']
    BY <1>1 DEF RedisType
  <1>3. \A d \in Clients : client'[d].pc \in InHands \union KnowsJob => client'[d].job \in Jobs
    BY ClientMoves DEF RedisType
  <1> QED
    BY <1>2, <1>3 DEF Grown, RedisType

\* A client that goes on from one command to the next of an operation and leaves
\* the server alone: what it is at, it was at, or is the first to be at.
LEMMA GoesOn ==
    ASSUME RedisInv, NEW c \in Clients, NEW w \in ClientStates,
           client' = [client EXCEPT ![c] = w],
           ~disturbed' => client[c].pc \notin Moves \union InHands, w.pc \notin Moves \union InHands,
           w.pc \in KnowsJob => w.job \in Jobs,
           UNCHANGED <<entries, delayed, bodies, buried, finished, ids>>, disturbed' \in BOOLEAN,
           ~disturbed' => ~disturbed,
           ~disturbed' /\ w.pc \in AtEntry =>
             /\ \E e \in entries : e.id = w.entry /\ e.times > 0 /\ (w.pc \in KnowsJob => w.job = e.job)
             /\ \A d \in Clients : client[d].pc \in AtEntry /\ client[d].entry = w.entry => d = c,
           ~disturbed' /\ w.pc \in AtBody =>
             /\ client[c].pc \in AtBody /\ w.entry = client[c].entry
             /\ \E b \in bodies : b.id = w.entry /\ (w.pc = "hdel" => w.job = b.job)
    PROVE  RedisInv'
  <1>1. client'[c] = w /\ \A d \in Clients : d # c => client'[d] = client[d]
    BY ClientMoves DEF RedisInv
  <1>3. RedisType'
    <2>1. Grown
      BY DEF Grown, RedisInv, RedisType, EntryStates, BodyStates
    <2>2. w \in ClientStates'
      BY DEF ClientStates
    <2> QED
      BY <2>1, <2>2, RedisTyped DEF RedisInv
  <1>4. ASSUME ~disturbed' PROVE EntriesHeld' /\ BodiesFound' /\ OnePlace'
    <2>1. EntriesHeld /\ BodiesFound /\ OnePlace
      BY <1>4 DEF RedisInv
    <2>2. EntriesHeld'
      BY <1>1, <1>4, <2>1 DEF EntriesHeld, UniqueIds
    <2>3. BodiesFound'
      BY <1>1, <1>4, <2>1 DEF BodiesFound, UniqueIds
    <2>4. OnePlace'
      BY <1>1, <1>4, <2>1 DEF OnePlace, OnePerJob
    <2> QED
      BY <2>2, <2>3, <2>4
  <1> QED
    BY <1>3, <1>4 DEF RedisInv

LEMMA ReadDueKeeps ==
    ASSUME RedisInv, NEW c \in Clients, ReadDue(c)
    PROVE  RedisInv'
  <1> DEFINE w == [client[c] EXCEPT !.pc = "zrem", !.due = {d.id : d \in {x \in delayed : x.due}}]
  <1>1. client[c] \in ClientStates /\ client[c].pc = "rest" /\ client' = [client EXCEPT ![c] = w]
    BY DEF RedisInv, RedisType, ReadDue, At
  <1>2. {d.id : d \in {x \in delayed : x.due}} \subseteq Nat
    BY DEF RedisInv, RedisType
  <1>3. w \in ClientStates /\ w.pc = "zrem"
    BY <1>1, <1>2 DEF ClientStates, Resters
  <1> HIDE DEF w
  <1> QED
    BY <1>1, <1>3, GoesOn DEF ReadDue, RedisInv, RedisType, Moves, InHands, AtEntry, AtBody, KnowsJob

LEMMA HGetKeeps ==
    ASSUME RedisInv, NEW c \in Clients, HGet(c)
    PROVE  RedisInv'
  <1> DEFINE found == {b \in bodies : b.id = client[c].entry}
  <1>1. client[c] \in ClientStates /\ client[c].pc = "body"
        /\ UNCHANGED <<entries, delayed, bodies, buried, finished, ids, deaths, disturbed>>
    BY DEF RedisInv, RedisType, HGet, At
  <1>2. CASE found = {}
    <2> DEFINE w == [client[c] EXCEPT !.pc = "hdel", !.job = "none"]
    <2>1. client' = [client EXCEPT ![c] = w]
      BY <1>1, <1>2 DEF HGet, RedisInv, RedisType
    <2>2. w \in ClientStates /\ w.pc = "hdel"
      BY <1>1 DEF ClientStates, AtBody
    <2>3. disturbed
      BY <1>1, <1>2 DEF RedisInv, BodiesFound, AtBody
    <2> HIDE DEF w
    <2> QED
      BY <1>1, <2>1, <2>2, <2>3, GoesOn DEF RedisInv, RedisType, Moves, InHands, AtEntry, KnowsJob
  <1>3. CASE found # {}
    <2>1. PICK b \in bodies : b.id = client[c].entry /\
             client' = [client EXCEPT ![c].pc = "hdel", ![c].job = b.job, ![c].attempts = b.attempts]
      BY <1>3 DEF HGet
    <2> DEFINE w == [client[c] EXCEPT !.pc = "hdel", !.job = b.job, !.attempts = b.attempts]
    <2>2. client' = [client EXCEPT ![c] = w]
      BY <2>1 DEF RedisInv, RedisType
    <2>3. b.job \in Jobs /\ b.attempts \in Nat
      BY DEF RedisInv, RedisType, BodyStates
    <2>4. w \in ClientStates /\ w.pc = "hdel" /\ w.job = b.job /\ w.entry = client[c].entry
      BY <1>1, <2>3 DEF ClientStates, AtBody
    <2> HIDE DEF w
    <2>5. disturbed \in BOOLEAN
      BY DEF RedisInv, RedisType
    <2> QED
      <3>1. \E x \in bodies : x.id = w.entry /\ (w.pc = "hdel" => w.job = x.job)
        BY <2>1, <2>4
      <3>2. client[c].pc \in AtBody /\ w.pc \notin AtEntry \union KnowsJob \union Moves \union InHands
            /\ client[c].pc \notin Moves \union InHands
        BY <1>1, <2>4 DEF Moves, InHands, AtEntry, AtBody, KnowsJob
      <3> QED
        BY <1>1, <2>2, <2>4, <2>5, <3>1, <3>2, GoesOn
  <1> QED
    BY <1>2, <1>3

LEMMA EntryThere ==
    ASSUME NEW id, Exists(id)
    PROVE  Entry(id) \in entries /\ Entry(id).id = id
  BY DEF Exists, Entry

LEMMA XRangeKeeps ==
    ASSUME RedisInv, NEW c \in Clients, XRange(c)
    PROVE  RedisInv'
  <1>1. client[c] \in ClientStates /\ client[c].pc = "work"
        /\ UNCHANGED <<entries, delayed, bodies, buried, finished, ids, deaths, disturbed>>
    BY DEF RedisInv, RedisType, XRange, At
  <1>2. CASE ~Exists(client[c].entry)
    <2>1. client' = [client EXCEPT ![c] = Resting]
      BY <1>2 DEF XRange
    <2>2. Resting \in ClientStates /\ Resting.pc = "rest"
      BY DEF Resting, ClientStates, Resters
    <2> QED
      BY <1>1, <2>1, <2>2, GoesOn DEF RedisInv, RedisType, Moves, InHands, AtEntry, AtBody, KnowsJob
  <1>3. CASE Exists(client[c].entry)
    <2> DEFINE e == Entry(client[c].entry)
               w == [client[c] EXCEPT !.pc = "nack", !.job = e.job, !.attempts = e.attempts + 1]
    <2>1. e \in entries /\ e.id = client[c].entry
      BY <1>3, EntryThere
    <2>2. e.job \in Jobs /\ e.attempts + 1 \in Nat
      BY <2>1 DEF RedisInv, RedisType, EntryStates
    <2>3. client' = [client EXCEPT ![c] = w]
      BY <1>3 DEF XRange, RedisInv, RedisType
    <2> HIDE DEF e
    <2>4. w \in ClientStates /\ w.pc = "nack" /\ w.job = e.job /\ w.entry = client[c].entry
      BY <1>1, <2>2 DEF ClientStates, AtEntry
    <2> HIDE DEF w
    <2>5. ~disturbed => EntriesHeld
      BY DEF RedisInv
    <2>6. ~disturbed => \E x \in entries : x.id = w.entry /\ x.times > 0 /\ w.job = x.job
      <3>1. ~disturbed => \E x \in entries : x.id = client[c].entry /\ x.times > 0
        BY <1>1, <2>5 DEF EntriesHeld, AtEntry
      <3> QED
        BY <2>1, <2>4, <2>5, <3>1 DEF EntriesHeld, UniqueIds
    <2>7. ~disturbed => \A d \in Clients : client[d].pc \in AtEntry /\ client[d].entry = w.entry => d = c
      BY <1>1, <2>4, <2>5 DEF EntriesHeld, AtEntry
    <2> QED
      BY <1>1, <2>2, <2>3, <2>4, <2>6, <2>7, GoesOn
      DEF RedisInv, RedisType, Moves, InHands, AtEntry, AtBody, KnowsJob
  <1> QED
    BY <1>2, <1>3

LEMMA ReclaimKeeps ==
    ASSUME RedisInv, NEW c \in Clients, ReclaimExpired2(c)
    PROVE  RedisInv'
  <1>1. client[c] \in ClientStates /\ client[c].pc = "rest"
        /\ UNCHANGED <<entries, delayed, bodies, buried, finished, ids, deaths>>
    BY DEF RedisInv, RedisType, ReclaimExpired2, At
  <1>2. PICK e \in entries :
           /\ Pending(e) /\ e.idle /\ e.times >= Ceiling
           /\ client' = [client EXCEPT ![c].pc = "reclaim", ![c].entry = e.id, ![c].job = e.job]
           /\ disturbed' = (disturbed \/ Taken(e.id))
    BY DEF ReclaimExpired2
  <1> DEFINE w == [client[c] EXCEPT !.pc = "reclaim", !.entry = e.id, !.job = e.job]
  <1>3. client' = [client EXCEPT ![c] = w]
    BY <1>2 DEF RedisInv, RedisType
  <1>4. e.id \in Nat /\ e.job \in Jobs /\ e.times \in Nat
    BY DEF RedisInv, RedisType, EntryStates
  <1>5. w \in ClientStates /\ w.pc = "reclaim" /\ w.entry = e.id /\ w.job = e.job
    BY <1>1, <1>4 DEF ClientStates, AtEntry
  <1> HIDE DEF w
  <1>6. ~disturbed' => ~disturbed /\ \A d \in Clients : ~(client[d].pc \in AtEntry /\ client[d].entry = e.id)
    BY <1>2 DEF Taken
  <1>7. disturbed' \in BOOLEAN
    BY <1>2
  <1>8. e.times > 0
    BY <1>2, <1>4, RedisAssumption
  <1> QED
    BY <1>1, <1>3, <1>4, <1>5, <1>6, <1>7, <1>8, GoesOn
    DEF Moves, InHands, AtEntry, AtBody, KnowsJob

LEMMA ClientDiesKeeps ==
    ASSUME RedisInv, NEW c \in Clients, ClientDies(c)
    PROVE  RedisInv'
  <1>1. /\ client[c] \in ClientStates /\ client' = [client EXCEPT ![c] = Resting]
        /\ UNCHANGED <<entries, delayed, bodies, buried, finished, ids>>
        /\ disturbed' = (disturbed \/ client[c].pc \notin OnlyReads)
    BY DEF RedisInv, RedisType, ClientDies
  <1>2. Resting \in ClientStates /\ Resting.pc = "rest"
    BY DEF Resting, ClientStates, Resters
  <1>3. ~disturbed' => ~disturbed /\ client[c].pc \notin Moves \union InHands
    BY <1>1 DEF OnlyReads, Moves, InHands
  <1>4. disturbed' \in BOOLEAN
    BY <1>1
  <1> QED
    BY <1>1, <1>2, <1>3, <1>4, GoesOn DEF Moves, InHands, AtEntry, AtBody, KnowsJob

LEMMA ZRemKeeps ==
    ASSUME RedisInv, NEW c \in Clients, ZRem(c)
    PROVE  RedisInv'
  <1>1. client[c] \in ClientStates /\ client[c].pc = "zrem" /\ disturbed \in BOOLEAN
        /\ UNCHANGED <<entries, bodies, buried, finished, ids, deaths, disturbed>>
    BY DEF RedisInv, RedisType, ZRem, At
  <1>2. CASE client[c].due = {}
    <2> DEFINE w == [client[c] EXCEPT !.pc = "autoclaim"]
    <2>1. client' = [client EXCEPT ![c] = w] /\ delayed' = delayed
      BY <1>2 DEF ZRem, Then, RedisInv, RedisType
    <2>2. w \in ClientStates /\ w.pc = "autoclaim"
      BY <1>1 DEF ClientStates, Resters
    <2> HIDE DEF w
    <2> QED
      BY <1>1, <2>1, <2>2, GoesOn DEF Moves, InHands, AtEntry, AtBody, KnowsJob
  <1>3. ASSUME NEW id \in client[c].due,
               delayed' = {d \in delayed : d.id # id},
               client' = [client EXCEPT ![c].due = @ \ {id}, ![c].entry = id,
                                        ![c].pc = IF Owns(id) THEN "body" ELSE "zrem"]
        PROVE  RedisInv'
    <2> DEFINE w == [client[c] EXCEPT !.due = @ \ {id}, !.entry = id, !.pc = IF Owns(id) THEN "body" ELSE "zrem"]
    <2>1. client' = [client EXCEPT ![c] = w]
      BY <1>3 DEF RedisInv, RedisType
    <2>2. client[c].due \in SUBSET Nat /\ id \in Nat
      BY <1>1 DEF ClientStates, RedisInv, RedisType
    <2>3. w \in ClientStates /\ w.pc \in {"body", "zrem"} /\ w.entry = id /\ (w.pc = "body" => Owns(id))
      BY <1>1, <2>2 DEF ClientStates, AtBody, Resters
    <2> HIDE DEF w
    <2>4. client'[c] = w /\ \A d \in Clients : d # c => client'[d] = client[d]
      BY <2>1, ClientMoves DEF RedisInv
    <2>5. RedisType'
      <3>1. Grown
        BY <1>1, <1>3 DEF Grown, RedisInv, RedisType, EntryStates, BodyStates
      <3>2. w \in ClientStates'
        BY <1>1, <2>3 DEF ClientStates
      <3> QED
        BY <2>1, <2>3, <3>1, <3>2, RedisTyped DEF RedisInv, InHands, KnowsJob
    <2>6. ASSUME ~disturbed' PROVE EntriesHeld' /\ BodiesFound' /\ OnePlace'
      <3>1. EntriesHeld /\ BodiesFound /\ OnePlace
        BY <1>1, <2>6 DEF RedisInv
      <3>2. w.pc \notin AtEntry \union InHands \union Moves \union KnowsJob
        BY <2>3 DEF AtEntry, InHands, Moves, KnowsJob
      <3>3. client[c].pc \notin AtEntry \union InHands \union Moves \union KnowsJob \union AtBody
        BY <1>1 DEF AtEntry, InHands, Moves, KnowsJob, AtBody
      <3>4. EntriesHeld'
        BY <1>1, <2>4, <3>1, <3>2 DEF EntriesHeld, UniqueIds
      <3>5. BodiesFound'
        <4>1. w.pc \in AtBody =>
                /\ \E b \in bodies : b.id = id
                /\ \A d \in Clients : client[d].pc \in AtBody => client[d].entry # id
          BY <2>3, <3>1 DEF BodiesFound, Owns, AtBody
        <4>2. w.pc # "hdel" /\ w.entry = id /\ \A d \in delayed' : d \in delayed /\ d.id # id
          BY <1>3, <2>3
        <4>3. \A d \in Clients \ {c} : client'[d] = client[d]
          BY <2>4
        <4>4. \A d \in Clients : client'[d].pc \in AtBody =>
                /\ \E b \in bodies' : b.id = client'[d].entry /\ (client'[d].pc = "hdel" => client'[d].job = b.job)
                /\ \A x \in delayed' : x.id # client'[d].entry
          BY <1>1, <2>4, <3>1, <4>1, <4>2 DEF BodiesFound
        <4>5. \A d, e \in Clients :
                client'[d].pc \in AtBody /\ client'[e].pc \in AtBody /\ client'[d].entry = client'[e].entry => d = e
          BY <2>4, <3>1, <4>1, <4>2 DEF BodiesFound
        <4> QED
          BY <1>1, <3>1, <4>2, <4>4, <4>5 DEF BodiesFound
      <3>6. OnePlace'
        BY <1>1, <2>4, <3>1, <3>2, <3>3 DEF OnePlace, OnePerJob
      <3> QED
        BY <3>4, <3>5, <3>6
    <2> QED
      BY <2>5, <2>6 DEF RedisInv
  <1> QED
    BY <1>2, <1>3 DEF ZRem

LEMMA HDelKeeps ==
    ASSUME RedisInv, NEW c \in Clients, HDel(c)
    PROVE  RedisInv'
  <1> DEFINE w == [client[c] EXCEPT !.pc = IF client[c].job = "none" THEN "zrem" ELSE "publish"]
  <1>1. /\ client[c] \in ClientStates /\ client[c].pc = "hdel" /\ client' = [client EXCEPT ![c] = w]
        /\ bodies' = {b \in bodies : b.id # client[c].entry}
        /\ UNCHANGED <<entries, delayed, buried, finished, ids, deaths, disturbed>>
    BY DEF RedisInv, RedisType, HDel, At, Then
  <1>2. w \in ClientStates /\ w.pc \in {"zrem", "publish"} /\ w.job = client[c].job
        /\ (w.pc = "publish" => w.job \in Jobs)
    BY <1>1 DEF ClientStates, Resters, InHands
  <1>3. w.pc \notin AtEntry \union AtBody \union Moves \union KnowsJob
    BY <1>2 DEF AtEntry, AtBody, Moves, KnowsJob
  <1>4. client[c].pc \in AtBody /\ client[c].pc \notin AtEntry \union InHands \union Moves
    BY <1>1 DEF AtEntry, AtBody, InHands, Moves
  <1>5. client'[c] = w /\ \A d \in Clients : d # c => client'[d] = client[d]
    BY <1>1, ClientMoves DEF RedisInv
  <1>6. w.pc \in InHands \union KnowsJob => w.job \in Jobs
    BY <1>2, <1>3 DEF InHands
  <1> HIDE DEF w
  <1>7. RedisType'
    <2>1. Grown
      BY <1>1 DEF Grown, RedisInv, RedisType, EntryStates, BodyStates
    <2>2. w \in ClientStates'
      BY <1>1, <1>2 DEF ClientStates
    <2> QED
      BY <1>1, <1>6, <2>1, <2>2, RedisTyped DEF RedisInv
  <1>8. ASSUME ~disturbed' PROVE EntriesHeld' /\ BodiesFound' /\ OnePlace'
    <2>1. EntriesHeld /\ BodiesFound /\ OnePlace
      BY <1>1, <1>8 DEF RedisInv
    <2>2. PICK b \in bodies : b.id = client[c].entry /\ b.job = client[c].job
      BY <1>1, <1>4, <2>1 DEF BodiesFound
    <2>3. \A x \in bodies' : x \in bodies /\ x # b /\ x.job # w.job
      BY <1>1, <1>2, <2>1, <2>2 DEF OnePlace, OnePerJob
    <2>4. EntriesHeld'
      BY <1>1, <1>3, <1>5, <2>1 DEF EntriesHeld, UniqueIds
    <2>5. BodiesFound'
      BY <1>1, <1>3, <1>4, <1>5, <2>1 DEF BodiesFound, UniqueIds
    <2>6. OnePlace'
      BY <1>1, <1>2, <1>3, <1>4, <1>5, <2>1, <2>2, <2>3 DEF OnePlace, OnePerJob
    <2> QED
      BY <2>4, <2>5, <2>6
  <1> QED
    BY <1>7, <1>8 DEF RedisInv

\* XADD: what was only in a client's hands is in the stream, under a new id.
LEMMA PublishKeeps ==
    ASSUME RedisInv, NEW c \in Clients, Publish(c)
    PROVE  RedisInv'
  <1> DEFINE w == [Resting EXCEPT !.pc = IF At(c, "publish") THEN "zrem" ELSE "rest", !.due = client[c].due]
             n == NewEntry(client[c].job, client[c].attempts)
  <1>1. /\ client[c] \in ClientStates /\ client[c].pc \in InHands /\ client' = [client EXCEPT ![c] = w]
        /\ entries' = entries \union {n} /\ ids' = ids + 1 /\ ids \in Nat
        /\ UNCHANGED <<delayed, bodies, buried, finished, deaths, disturbed>>
    BY DEF RedisInv, RedisType, Publish, InHands
  <1>2. client[c].due \in SUBSET Nat /\ client[c].attempts \in Nat /\ client[c].job \in Jobs
    BY <1>1 DEF ClientStates, RedisInv, RedisType
  <1>3. w.pc \in Resters /\ w \in ClientStates'
    BY <1>2 DEF ClientStates, Resters, Resting
  <1>4. w.pc \notin AtEntry \union AtBody \union InHands \union Moves \union KnowsJob
    BY <1>3 DEF Resters, AtEntry, AtBody, InHands, Moves, KnowsJob
  <1>5. n \in EntryStates' /\ n.id = ids + 1 /\ n.job = client[c].job
    <2>1. ids + 1 \in 1 .. ids' /\ 0 \in 0 .. Ceiling
      BY <1>1, RedisAssumption
    <2> QED
      BY <1>2, <2>1 DEF NewEntry, EntryStates
  <1>6. client'[c] = w /\ \A d \in Clients : d # c => client'[d] = client[d]
    BY <1>1, ClientMoves DEF RedisInv
  <1>7. client[c].pc \notin AtEntry \union Moves \union AtBody
    BY <1>1 DEF AtEntry, InHands, Moves, AtBody
  <1> HIDE DEF w, n
  <1>8. RedisType'
    <2>1. Grown
      BY <1>1, <1>5, StatesGrow DEF Grown, RedisInv, RedisType
    <2> QED
      BY <1>1, <1>3, <1>4, <2>1, RedisTyped DEF RedisInv
  <1>9. ASSUME ~disturbed' PROVE EntriesHeld' /\ BodiesFound' /\ OnePlace'
    <2>1. EntriesHeld /\ BodiesFound /\ OnePlace
      BY <1>1, <1>9 DEF RedisInv
    <2>2. \A e \in entries : e.id # n.id /\ e.job # n.job
      <3>1. \A e \in entries : e.id \in 1 .. ids
        BY DEF RedisInv, RedisType, EntryStates
      <3>2. \A e \in entries : e.job # client[c].job
        BY <1>1, <2>1 DEF OnePlace
      <3> QED
        BY <1>1, <1>5, <3>1, <3>2
    <2>3. UniqueIds(entries') /\ OnePerJob(entries')
      BY <1>1, <2>1, <2>2 DEF EntriesHeld, OnePlace, UniqueIds, OnePerJob
    <2>4. EntriesHeld'
      BY <1>1, <1>4, <1>6, <2>1, <2>3 DEF EntriesHeld
    <2>5. BodiesFound'
      BY <1>1, <1>4, <1>6, <2>1 DEF BodiesFound, UniqueIds
    <2>6. OnePlace'
      BY <1>1, <1>4, <1>5, <1>6, <1>7, <2>1, <2>2, <2>3 DEF OnePlace, OnePerJob
    <2> QED
      BY <2>4, <2>5, <2>6
  <1> QED
    BY <1>8, <1>9 DEF RedisInv

\* The entries are what they were but for who has them and how often they were
\* delivered.
Relabelled ==
    /\ \A x \in entries' : \E y \in entries : x.id = y.id /\ x.job = y.job
    /\ \A y \in entries : \E x \in entries' : x.id = y.id /\ x.job = y.job /\ (y.times > 0 => x.times > 0)
    /\ UniqueIds(entries') /\ OnePerJob(entries')

LEMMA OneIsRelabelled ==
    ASSUME UniqueIds(entries), OnePerJob(entries), NEW e \in entries, NEW g,
           g.id = e.id, g.job = e.job, e.times > 0 => g.times > 0,
           entries' = Without(e.id) \union {g}
    PROVE  Relabelled
  BY DEF Relabelled, Without, UniqueIds, OnePerJob

\* XACK touches the entries with one id.
LEMMA ClearedRelabels ==
    ASSUME RedisType, UniqueIds(entries), OnePerJob(entries), NEW id, entries' = Cleared(id)
    PROVE  Relabelled
  <1> DEFINE F(e) == IF e.id = id THEN [e EXCEPT !.owner = Nobody, !.idle = FALSE] ELSE e
  <1>1. \A e \in entries : F(e).id = e.id /\ F(e).job = e.job /\ F(e).times = e.times
    BY DEF RedisType, EntryStates
  <1>2. entries' = {F(e) : e \in entries}
    BY DEF Cleared
  <1> HIDE DEF F
  <1>3. \A x \in entries' : \E y \in entries : x = F(y)
    BY <1>2
  <1>4. \A y \in entries : F(y) \in entries'
    BY <1>2
  <1> QED
    BY <1>1, <1>3, <1>4 DEF Relabelled, UniqueIds, OnePerJob

LEMMA EntriesChange ==
    ASSUME RedisInv, NEW c \in Clients, NEW w \in ClientStates,
           client' = [client EXCEPT ![c] = w],
           client[c].pc \notin InHands, w.pc \in AtEntry,
           w.pc \in KnowsJob => w.job \in Jobs,
           w.pc \in Moves <=> client[c].pc \in Moves,
           w.pc \in Moves => w.entry = client[c].entry /\ w.job = client[c].job,
           UNCHANGED <<delayed, bodies, buried, finished, ids>>, disturbed' \in BOOLEAN,
           entries' \subseteq EntryStates,
           ~disturbed' => ~disturbed /\ Relabelled,
           ~disturbed' =>
             /\ \E e \in entries' : e.id = w.entry /\ e.times > 0 /\ (w.pc \in KnowsJob => w.job = e.job)
             /\ \A d \in Clients : client[d].pc \in AtEntry /\ client[d].entry = w.entry => d = c
    PROVE  RedisInv'
  <1>1. client'[c] = w /\ \A d \in Clients : d # c => client'[d] = client[d]
    BY ClientMoves DEF RedisInv
  <1>2. w.pc \notin InHands \union AtBody
    BY DEF AtEntry, AtBody, InHands
  <1>3. RedisType'
    <2>1. Grown
      BY DEF Grown, RedisInv, RedisType, EntryStates, BodyStates
    <2>2. w \in ClientStates'
      BY DEF ClientStates
    <2> QED
      BY <1>2, <2>1, <2>2, RedisTyped DEF RedisInv
  <1>4. ASSUME ~disturbed' PROVE EntriesHeld' /\ BodiesFound' /\ OnePlace'
    <2>1. EntriesHeld /\ BodiesFound /\ OnePlace /\ Relabelled
      BY <1>4 DEF RedisInv
    <2>2. EntriesHeld'
      <3>1. \A d \in Clients \ {c} : client'[d].pc \in AtEntry =>
              \E e \in entries' :
                 /\ e.id = client'[d].entry /\ e.times > 0
                 /\ client'[d].pc \in KnowsJob => client'[d].job = e.job
        BY <1>1, <2>1 DEF EntriesHeld, Relabelled
      <3>2. \A d, e \in Clients : client'[d].pc \in AtEntry /\ client'[e].pc \in AtEntry
              /\ client'[d].entry = client'[e].entry => d = e
        BY <1>1, <1>4, <2>1 DEF EntriesHeld
      <3> QED
        BY <1>1, <1>4, <2>1, <3>1, <3>2 DEF EntriesHeld, Relabelled
    <2>3. BodiesFound'
      BY <1>1, <1>2, <2>1 DEF BodiesFound, UniqueIds
    <2>4. OnePlace'
      <3>1. \A e \in entries' : e.job \notin finished' /\ \A b \in bodies' : e.job # b.job
        BY <2>1 DEF OnePlace, Relabelled
      <3>2. \A d \in Clients : client'[d].pc \in InHands => client[d].pc \in InHands /\ client'[d] = client[d]
        BY <1>1, <1>2
      <3>3. \A d \in Clients : client[d].pc \in Moves => client'[d].pc \in Moves /\ client'[d].entry = client[d].entry
        BY <1>1
      <3>4. \A d \in Clients : client'[d].pc \in Moves => client[d].pc \in Moves /\ client'[d].job = client[d].job
        BY <1>1
      <3>5. \A d \in Clients : client'[d].pc \in InHands => \A e \in entries' : client'[d].job # e.job
        BY <2>1, <3>2 DEF OnePlace, Relabelled
      <3>6. \A e \in entries' : \A x \in buried' : e.job = x.job =>
              \E d \in Clients : client'[d].pc \in Moves /\ client'[d].entry = e.id
        BY <2>1, <3>3 DEF OnePlace, Relabelled
      <3> QED
        BY <2>1, <3>1, <3>2, <3>4, <3>5, <3>6 DEF OnePlace, Relabelled, OnePerJob
    <2> QED
      BY <2>2, <2>3, <2>4
  <1> QED
    BY <1>3, <1>4 DEF RedisInv

\* XAUTOCLAIM and XREADGROUP: an entry that nobody is at goes to the client.
LEMMA DeliverKeeps ==
    ASSUME RedisInv, NEW c \in Clients, client[c].pc \in Resters, NEW e \in entries, Deliver(c, e),
           UNCHANGED <<delayed, bodies, buried, finished, ids>>, disturbed' \in BOOLEAN,
           ~disturbed' => ~disturbed /\ ~Taken(e.id)
    PROVE  RedisInv'
  <1> DEFINE w == [Resting EXCEPT !.pc = "work", !.entry = e.id]
             t == IF e.times < Ceiling THEN e.times + 1 ELSE e.times
             g == [e EXCEPT !.owner = c, !.idle = FALSE, !.times = t]
  <1>1. e \in EntryStates /\ e.id \in Nat /\ e.times \in 0 .. Ceiling /\ Ceiling \in Nat \ {0}
    BY RedisAssumption DEF RedisInv, RedisType, EntryStates
  <1>2. g \in EntryStates /\ g.id = e.id /\ g.job = e.job /\ g.times > 0
    <2>1. t \in 0 .. Ceiling /\ t > 0
      BY <1>1
    <2> HIDE DEF t
    <2> QED
      BY <1>1, <2>1 DEF EntryStates
  <1>3. w \in ClientStates /\ w.pc = "work" /\ w.entry = e.id
    <2>1. {} \in SUBSET Nat
      OBVIOUS
    <2> QED
      BY <1>1, <2>1 DEF Resting, ClientStates, AtEntry
  <1>4. client' = [client EXCEPT ![c] = w] /\ entries' = Without(e.id) \union {g}
    BY DEF Deliver
  <1> HIDE DEF w, g
  <1>5. entries' \subseteq EntryStates
    BY <1>2, <1>4 DEF Without, RedisInv, RedisType
  <1>6. ~disturbed' => Relabelled
    BY <1>2, <1>4, OneIsRelabelled DEF RedisInv, EntriesHeld, OnePlace
  <1>7. ~disturbed' => \A d \in Clients : ~(client[d].pc \in AtEntry /\ client[d].entry = w.entry)
    BY <1>3 DEF Taken
  <1>8. g \in entries' /\ g.id = w.entry
    BY <1>2, <1>3, <1>4
  <1>9. client[c].pc \notin InHands \union Moves /\ w.pc \in AtEntry /\ w.pc \notin KnowsJob \union Moves
    BY <1>3 DEF InHands, Moves, Resters, AtEntry, KnowsJob
  <1> QED
    BY <1>2, <1>3, <1>4, <1>5, <1>6, <1>7, <1>8, <1>9, EntriesChange

LEMMA AutoclaimKeeps ==
    ASSUME RedisInv, NEW c \in Clients, Autoclaim(c)
    PROVE  RedisInv'
  <1> DEFINE idle == {e \in entries : Pending(e) /\ e.idle}
  <1>1. client[c] \in ClientStates /\ client[c].pc = "autoclaim" /\ disturbed \in BOOLEAN
        /\ UNCHANGED <<delayed, bodies, buried, finished, ids, deaths>>
    BY DEF RedisInv, RedisType, Autoclaim, At
  <1>2. CASE idle = {}
    <2> DEFINE w == [client[c] EXCEPT !.pc = "read"]
    <2>1. client' = [client EXCEPT ![c] = w] /\ entries' = entries /\ disturbed' = disturbed
      BY <1>2 DEF Autoclaim, Then, RedisInv, RedisType
    <2>2. w \in ClientStates /\ w.pc = "read"
      BY <1>1 DEF ClientStates, Resters
    <2> HIDE DEF w
    <2> QED
      BY <1>1, <2>1, <2>2, GoesOn DEF Moves, InHands, AtEntry, AtBody, KnowsJob
  <1>3. ASSUME NEW e \in idle, Deliver(c, e), disturbed' = (disturbed \/ Taken(e.id))
        PROVE  RedisInv'
    <2>1. client[c].pc \in Resters /\ disturbed' \in BOOLEAN /\ (~disturbed' => ~disturbed /\ ~Taken(e.id))
      BY <1>1, <1>3 DEF Resters
    <2> QED
      BY <1>1, <1>3, <2>1, DeliverKeeps
  <1> QED
    BY <1>2, <1>3 DEF Autoclaim

LEMMA ReadNewKeeps ==
    ASSUME RedisInv, NEW c \in Clients, ReadNew(c)
    PROVE  RedisInv'
  <1> DEFINE new == {e \in entries : e.times = 0}
  <1>1. client[c] \in ClientStates /\ client[c].pc = "read" /\ disturbed \in BOOLEAN
        /\ UNCHANGED <<delayed, bodies, buried, finished, ids, deaths, disturbed>>
    BY DEF RedisInv, RedisType, ReadNew, At
  <1>2. CASE new = {}
    <2>1. client' = [client EXCEPT ![c] = Resting] /\ entries' = entries
      BY <1>2 DEF ReadNew
    <2>2. Resting \in ClientStates /\ Resting.pc = "rest"
      BY DEF Resting, ClientStates, Resters
    <2> QED
      BY <1>1, <2>1, <2>2, GoesOn DEF Moves, InHands, AtEntry, AtBody, KnowsJob
  <1>3. ASSUME NEW e \in new, Deliver(c, e)
        PROVE  RedisInv'
    <2>1. ~disturbed => ~Taken(e.id)
      <3>1. ASSUME ~disturbed, Taken(e.id) PROVE FALSE
        <4>1. PICK x \in entries : x.id = e.id /\ x.times > 0
          BY <3>1 DEF Taken, RedisInv, EntriesHeld
        <4>2. x = e
          BY <3>1, <4>1 DEF RedisInv, EntriesHeld, UniqueIds
        <4> QED
          BY <4>1, <4>2
      <3> QED
        BY <3>1
    <2> QED
      BY <1>1, <1>3, <2>1, DeliverKeeps DEF Resters
  <1> QED
    BY <1>2, <1>3 DEF ReadNew

LEMMA XAckKeeps ==
    ASSUME RedisInv, NEW c \in Clients, XAck(c)
    PROVE  RedisInv'
  <1> DEFINE id == client[c].entry
             w == [client[c] EXCEPT !.pc =
                     CASE At(c, "work") -> "done del" [] At(c, "nack") -> "nack del" [] OTHER -> "bury del"]
  <1>1. /\ client[c] \in ClientStates /\ client[c].pc \in {"work", "nack", "bury ack"}
        /\ client' = [client EXCEPT ![c] = w] /\ entries' = Cleared(id) /\ disturbed \in BOOLEAN
        /\ UNCHANGED <<delayed, bodies, buried, finished, ids, deaths, disturbed>>
    BY DEF RedisInv, RedisType, XAck, At, Then
  <1>2. /\ w \in ClientStates /\ w.entry = id /\ w.job = client[c].job
        /\ client[c].pc = "work" => w.pc = "done del"
        /\ client[c].pc = "nack" => w.pc = "nack del"
        /\ client[c].pc = "bury ack" => w.pc = "bury del"
    BY <1>1 DEF ClientStates, AtEntry, At
  <1>3. /\ client[c].pc \notin InHands /\ client[c].pc \in AtEntry /\ w.pc \in AtEntry
        /\ w.pc \in KnowsJob => client[c].pc \in KnowsJob
        /\ w.pc \in Moves <=> client[c].pc \in Moves
    BY <1>1, <1>2 DEF InHands, AtEntry, KnowsJob, Moves
  <1>4. w.pc \in KnowsJob => w.job \in Jobs
    BY <1>2, <1>3 DEF RedisInv, RedisType
  <1> HIDE DEF w
  <1>5. entries' \subseteq EntryStates
    <2>1. \A e \in entries : [e EXCEPT !.owner = Nobody, !.idle = FALSE] \in EntryStates
      BY DEF RedisInv, RedisType, EntryStates
    <2> QED
      BY <1>1, <2>1 DEF Cleared, RedisInv, RedisType
  <1>6. ~disturbed' => EntriesHeld /\ Relabelled
    BY <1>1, ClearedRelabels DEF RedisInv, EntriesHeld, OnePlace
  <1>7. ~disturbed' =>
           /\ \E e \in entries' : e.id = w.entry /\ e.times > 0 /\ (w.pc \in KnowsJob => w.job = e.job)
           /\ \A d \in Clients : client[d].pc \in AtEntry /\ client[d].entry = w.entry => d = c
    <2>1. ASSUME ~disturbed'
          PROVE  \E e \in entries' : e.id = w.entry /\ e.times > 0 /\ (w.pc \in KnowsJob => w.job = e.job)
      <3>1. PICK y \in entries :
              y.id = client[c].entry /\ y.times > 0 /\ (client[c].pc \in KnowsJob => client[c].job = y.job)
        BY <1>3, <1>6, <2>1 DEF EntriesHeld
      <3>2. PICK x \in entries' : x.id = y.id /\ x.job = y.job /\ x.times > 0
        BY <1>6, <2>1, <3>1 DEF Relabelled
      <3> QED
        BY <1>2, <1>3, <3>1, <3>2
    <2>2. ASSUME ~disturbed', NEW d \in Clients, client[d].pc \in AtEntry, client[d].entry = w.entry
          PROVE  d = c
      BY <1>2, <1>3, <1>6, <2>2 DEF EntriesHeld
    <2> QED
      BY <2>1, <2>2
  <1> QED
    BY <1>1, <1>2, <1>3, <1>4, <1>5, <1>6, <1>7, EntriesChange

LEMMA GoesIdleKeeps ==
    ASSUME RedisInv, NEW id \in 1 .. ids, GoesIdle(id)
    PROVE  RedisInv'
  <1> DEFINE e == Entry(id)
             g == [e EXCEPT !.idle = TRUE]
  <1>1. /\ e \in entries /\ e.id = id /\ entries' = Without(id) \union {g}
        /\ UNCHANGED <<delayed, bodies, buried, finished, client, ids, deaths, disturbed>>
    BY EntryThere DEF GoesIdle
  <1>2. g \in EntryStates /\ g.id = e.id /\ g.job = e.job /\ g.times = e.times
    BY <1>1 DEF RedisInv, RedisType, EntryStates
  <1> HIDE DEF e, g
  <1>3. entries' \subseteq EntryStates
    BY <1>1, <1>2 DEF Without, RedisInv, RedisType
  <1>4. RedisType'
    BY <1>1, <1>3 DEF RedisInv, RedisType, EntryStates, BodyStates, ClientStates
  <1>5. ASSUME ~disturbed' PROVE EntriesHeld' /\ BodiesFound' /\ OnePlace'
    <2>1. EntriesHeld /\ BodiesFound /\ OnePlace
      BY <1>1, <1>5 DEF RedisInv
    <2>2. Relabelled
      BY <1>1, <1>2, <2>1, OneIsRelabelled DEF EntriesHeld, OnePlace
    <2>3. EntriesHeld'
      BY <1>1, <2>1, <2>2 DEF EntriesHeld, Relabelled
    <2>4. BodiesFound'
      BY <1>1, <2>1 DEF BodiesFound, UniqueIds
    <2>5. OnePlace'
      BY <1>1, <2>1, <2>2 DEF OnePlace, Relabelled, OnePerJob
    <2> QED
      BY <2>3, <2>4, <2>5
  <1> QED
    BY <1>4, <1>5 DEF RedisInv

\* XDEL: the job is finished, in the hands of the client, or in the dead stream.
LEMMA XDelKeeps ==
    ASSUME RedisInv, NEW c \in Clients, XDel(c)
    PROVE  RedisInv'
  <1> DEFINE id == client[c].entry
  <1>1. /\ client[c] \in ClientStates /\ client[c].pc \in {"done del", "nack del", "bury del"}
        /\ entries' = Without(id) /\ disturbed \in BOOLEAN
        /\ UNCHANGED <<delayed, bodies, buried, ids, deaths, disturbed>>
    BY DEF RedisInv, RedisType, XDel
  <1>2. PICK w \in ClientStates :
           /\ client' = [client EXCEPT ![c] = w]
           /\ client[c].pc # "nack del" => w.pc = "rest"
           /\ client[c].pc = "nack del" => w.pc \in {"bury", "successor", "park"} /\ w.job = client[c].job
    <2>1. CASE client[c].pc # "nack del"
      <3>1. client' = [client EXCEPT ![c] = Resting]
        BY <2>1 DEF XDel, At
      <3>2. Resting \in ClientStates /\ Resting.pc = "rest"
        BY DEF Resting, ClientStates, Resters
      <3> QED
        BY <2>1, <3>1, <3>2
    <2>2. CASE client[c].pc = "nack del"
      <3>1. \E pc \in {"bury", "successor", "park"} : client' = [client EXCEPT ![c].pc = pc]
        BY <2>2 DEF XDel, At, Then
      <3>2. PICK pc \in {"bury", "successor", "park"} : client' = [client EXCEPT ![c].pc = pc]
        BY <3>1
      <3> DEFINE w == [client[c] EXCEPT !.pc = pc]
      <3>3. w \in ClientStates /\ w.pc = pc /\ w.job = client[c].job
        BY <1>1 DEF ClientStates, InHands
      <3>4. client' = [client EXCEPT ![c] = w]
        BY <3>2 DEF RedisInv, RedisType
      <3> HIDE DEF w
      <3> QED
        BY <2>2, <3>3, <3>4
    <2> QED
      BY <2>1, <2>2
  <1>3. w.pc \notin AtEntry \union AtBody \union Moves \union KnowsJob
    BY <1>1, <1>2 DEF AtEntry, AtBody, Moves, KnowsJob
  <1>4. client[c].pc \in AtEntry /\ client[c].pc \notin InHands \union AtBody
    BY <1>1 DEF AtEntry, InHands, AtBody
  <1>5. client'[c] = w /\ \A d \in Clients : d # c => client'[d] = client[d]
    BY <1>2, ClientMoves DEF RedisInv
  <1>6. w.pc \in InHands => client[c].pc = "nack del" /\ w.job = client[c].job /\ w.job \in Jobs
    BY <1>1, <1>2 DEF InHands, KnowsJob, RedisInv, RedisType
  <1>7. finished' \subseteq finished \union {e.job : e \in {x \in entries : x.id = id}}
    <2>1. CASE At(c, "done del") /\ Exists(id)
      BY <2>1, EntryThere DEF XDel
    <2>2. CASE ~(At(c, "done del") /\ Exists(id))
      BY <2>2 DEF XDel
    <2> QED
      BY <2>1, <2>2
  <1>8. client[c].pc # "done del" => finished' = finished
    BY DEF XDel, At
  <1>9. finished \subseteq finished'
    BY DEF XDel
  <1>10. RedisType'
    <2>1. Grown
      <3>1. finished' \subseteq Jobs
        BY <1>7 DEF RedisInv, RedisType, EntryStates
      <3>2. /\ ids' \in Nat /\ ids <= ids' /\ disturbed' \in BOOLEAN
            /\ entries' \subseteq entries /\ bodies' = bodies /\ delayed' = delayed /\ buried' = buried
        <4>1. entries' \subseteq entries
          BY <1>1 DEF Without
        <4>2. ids \in Nat
          BY DEF RedisInv, RedisType
        <4>3. ids' = ids /\ bodies' = bodies /\ delayed' = delayed /\ buried' = buried
          BY <1>1
        <4>4. disturbed' \in BOOLEAN
          BY <1>1
        <4>5. ids' \in Nat /\ ids <= ids'
          BY <4>2, <4>3
        <4> QED
          BY <4>1, <4>3, <4>4, <4>5
      <3> QED
        <4>1. RedisType
          BY DEF RedisInv
        <4>2. /\ entries \subseteq EntryStates' /\ bodies \subseteq BodyStates'
              /\ delayed \subseteq [id : Nat, due : BOOLEAN]
              /\ buried \subseteq [id : 1 .. ids', job : Jobs]
          BY <3>2, <4>1, StatesGrow
        <4>3. entries' \subseteq EntryStates' /\ bodies' \subseteq BodyStates'
          BY <3>2, <4>2
        <4> QED
          BY <3>1, <3>2, <4>2, <4>3 DEF Grown
    <2>2. w \in ClientStates'
      BY <1>1 DEF ClientStates
    <2> QED
      BY <1>2, <1>3, <1>6, <2>1, <2>2, RedisTyped DEF RedisInv
  <1>11. ASSUME ~disturbed' PROVE EntriesHeld' /\ BodiesFound' /\ OnePlace'
    <2>1. EntriesHeld /\ BodiesFound /\ OnePlace
      BY <1>1, <1>11 DEF RedisInv
    <2>2. PICK e \in entries : e.id = id /\ (client[c].pc \in KnowsJob => client[c].job = e.job)
      BY <1>4, <2>1 DEF EntriesHeld
    <2>3. \A x \in entries' : x \in entries /\ x.id # id /\ x.job # e.job
      BY <1>1, <2>1, <2>2 DEF Without, OnePlace, OnePerJob
    <2>4. \A x \in entries : x.id # id => x \in entries'
      BY <1>1 DEF Without
    <2>5. finished' \subseteq finished \union {e.job}
      BY <1>7, <2>1, <2>2 DEF EntriesHeld, UniqueIds
    <2>6. EntriesHeld'
      <3>1. \A d \in Clients : client'[d].pc \in AtEntry => client'[d] = client[d] /\ client[d].entry # id
        BY <1>3, <1>4, <1>5, <2>1 DEF EntriesHeld
      <3> QED
        BY <1>3, <1>5, <2>1, <2>3, <2>4, <3>1 DEF EntriesHeld, UniqueIds
    <2>7. BodiesFound'
      <3>1. \A d \in Clients : client'[d].pc \in AtBody => client[d].pc \in AtBody /\ client'[d] = client[d]
        BY <1>3, <1>5
      <3>2. UniqueIds(bodies') /\ \A d \in delayed' : \E b \in bodies' : b.id = d.id
        BY <1>1, <2>1 DEF BodiesFound, UniqueIds
      <3>3. \A d \in Clients : client'[d].pc \in AtBody =>
              /\ \E b \in bodies' : b.id = client'[d].entry /\ (client'[d].pc = "hdel" => client'[d].job = b.job)
              /\ \A x \in delayed' : x.id # client'[d].entry
        <4>1. ASSUME NEW d \in Clients, client'[d].pc \in AtBody
              PROVE  /\ \E b \in bodies : b.id = client[d].entry /\ (client[d].pc = "hdel" => client[d].job = b.job)
                     /\ \A x \in delayed : x.id # client[d].entry
          BY <2>1, <3>1, <4>1 DEF BodiesFound
        <4>2. bodies' = bodies /\ delayed' = delayed
          BY <1>1
        <4> QED
          BY <3>1, <4>1, <4>2
      <3>4. \A d, f \in Clients : client'[d].pc \in AtBody /\ client'[f].pc \in AtBody
              /\ client'[d].entry = client'[f].entry => d = f
        BY <2>1, <3>1 DEF BodiesFound
      <3> QED
        BY <3>2, <3>3, <3>4 DEF BodiesFound
    <2>8. OnePlace'
      <3>1. w.pc \in InHands =>
              /\ w.job = e.job /\ finished' = finished
              /\ \A x \in buried : e.job # x.job
        <4>1. ASSUME w.pc \in InHands, NEW x \in buried, e.job = x.job PROVE FALSE
          <5>1. PICK d \in Clients : client[d].pc \in Moves /\ client[d].entry = e.id
            BY <2>1, <4>1 DEF OnePlace
          <5>2. d = c
            BY <1>4, <2>1, <2>2, <5>1 DEF EntriesHeld, Moves, AtEntry
          <5> QED
            BY <1>6, <4>1, <5>1, <5>2 DEF Moves
        <4> QED
          BY <1>6, <1>8, <2>2, <4>1 DEF KnowsJob
      <3>2. e.job \in finished' /\ e.job \notin finished => \A x \in buried : e.job # x.job
        <4>1. ASSUME client[c].pc = "done del", NEW x \in buried, e.job = x.job PROVE FALSE
          <5>1. PICK d \in Clients : client[d].pc \in Moves /\ client[d].entry = e.id
            BY <2>1, <4>1 DEF OnePlace
          <5>2. d = c
            BY <1>4, <2>1, <2>2, <5>1 DEF EntriesHeld, Moves, AtEntry
          <5> QED
            BY <4>1, <5>1, <5>2 DEF Moves
        <4> QED
          BY <1>8, <4>1
      <3>3. \A x \in entries' : \A y \in buried' : x.job = y.job =>
              \E d \in Clients : client'[d].pc \in Moves /\ client'[d].entry = x.id
        <4>1. ASSUME NEW x \in entries', NEW y \in buried', x.job = y.job
              PROVE  \E d \in Clients : client'[d].pc \in Moves /\ client'[d].entry = x.id
          <5>1. PICK d \in Clients : client[d].pc \in Moves /\ client[d].entry = x.id
            BY <1>1, <2>1, <2>3, <4>1 DEF OnePlace
          <5>2. d # c
            BY <2>3, <5>1
          <5> QED
            BY <1>5, <5>1, <5>2
        <4> QED
          BY <4>1
      <3>4. \A d \in Clients : client'[d].pc \in Moves => \E x \in buried' : x.job = client'[d].job
        BY <1>1, <1>3, <1>5, <2>1 DEF OnePlace
      <3>5. OnePerJob(entries') /\ OnePerJob(bodies') /\ OnePerJob(buried')
        BY <1>1, <2>1, <2>3 DEF OnePlace, OnePerJob
      <3>6. /\ \A x \in entries' : x.job \notin finished' /\ \A b \in bodies' : x.job # b.job
            /\ \A b \in bodies' : b.job \notin finished' /\ \A x \in buried' : b.job # x.job
            /\ \A x \in buried' : x.job \notin finished'
        BY <1>1, <2>1, <2>3, <2>5, <3>2 DEF OnePlace
      <3>7. \A d \in Clients : client'[d].pc \in InHands =>
              /\ client'[d].job \notin finished'
              /\ \A x \in entries' : client'[d].job # x.job
              /\ \A b \in bodies' : client'[d].job # b.job
              /\ \A x \in buried' : client'[d].job # x.job
        <4>1. ASSUME w.pc \in InHands
              PROVE  /\ w.job \notin finished'
                     /\ \A x \in entries' : w.job # x.job
                     /\ \A b \in bodies' : w.job # b.job
                     /\ \A x \in buried' : w.job # x.job
          BY <1>1, <2>1, <2>2, <2>3, <3>1, <4>1 DEF OnePlace
        <4>2. ASSUME NEW d \in Clients, d # c, client[d].pc \in InHands
              PROVE  /\ client[d].job \notin finished'
                     /\ \A x \in entries' : client[d].job # x.job
                     /\ \A b \in bodies' : client[d].job # b.job
                     /\ \A x \in buried' : client[d].job # x.job
          BY <1>1, <2>1, <2>2, <2>3, <2>5, <4>2 DEF OnePlace
        <4> QED
          BY <1>5, <4>1, <4>2
      <3>8. \A d, f \in Clients : client'[d].pc \in InHands /\ client'[f].pc \in InHands
              /\ client'[d].job = client'[f].job => d = f
        BY <1>5, <2>1, <3>1 DEF OnePlace
      <3> QED
        BY <3>3, <3>4, <3>5, <3>6, <3>7, <3>8 DEF OnePlace
    <2> QED
      BY <2>6, <2>7, <2>8
  <1> QED
    BY <1>10, <1>11 DEF RedisInv

\* HSET: the body is found by the client that is about to add its id.
LEMMA HSetKeeps ==
    ASSUME RedisInv, NEW c \in Clients, HSet(c)
    PROVE  RedisInv'
  <1> DEFINE w == [client[c] EXCEPT !.pc = "zadd", !.entry = ids + 1]
             n == [id |-> ids + 1, job |-> client[c].job, attempts |-> client[c].attempts]
  <1>1. /\ client[c] \in ClientStates /\ client[c].pc = "park" /\ client[c].job \in Jobs
        /\ bodies' = bodies \union {n} /\ ids' = ids + 1 /\ ids \in Nat
        /\ UNCHANGED <<entries, delayed, buried, finished, deaths, disturbed>>
    BY DEF RedisInv, RedisType, HSet, At, InHands
  <1>2. client' = [client EXCEPT ![c] = w]
    BY DEF HSet, RedisInv, RedisType
  <1>3. ids + 1 \in 1 .. ids' /\ client[c].due \in SUBSET Nat
    BY <1>1 DEF ClientStates
  <1>4. w \in ClientStates' /\ w.pc = "zadd" /\ w.entry = ids + 1 /\ w.job = client[c].job
    <2>1. client[c] \in [pc : Resters \union AtBody \union InHands \union AtEntry,
            entry : Nat, job : Jobs \union {"none"}, attempts : Nat, due : SUBSET Nat]
      BY <1>1, <1>3 DEF ClientStates
    <2>2. ids + 1 \in Nat /\ "zadd" \in AtBody
      BY <1>1 DEF AtBody
    <2> QED
      BY <2>1, <2>2 DEF ClientStates
  <1>5. n \in BodyStates' /\ n.id = ids + 1 /\ n.job = client[c].job
    BY <1>1, <1>3 DEF BodyStates, ClientStates
  <1>6. w.pc \in AtBody /\ w.pc \notin AtEntry \union InHands \union Moves \union KnowsJob
    BY <1>4 DEF AtBody, AtEntry, InHands, Moves, KnowsJob
  <1>7. client[c].pc \in InHands /\ client[c].pc \notin AtEntry \union Moves \union AtBody
    BY <1>1 DEF AtBody, AtEntry, InHands, Moves
  <1> HIDE DEF w, n
  <1>8. client'[c] = w /\ \A d \in Clients : d # c => client'[d] = client[d]
    BY <1>2, ClientMoves DEF RedisInv
  <1>9. RedisType'
    <2>1. Grown
      BY <1>1, <1>5, StatesGrow DEF Grown, RedisInv, RedisType
    <2> QED
      BY <1>2, <1>4, <1>6, <2>1, RedisTyped DEF RedisInv
  <1>10. ASSUME ~disturbed' PROVE EntriesHeld' /\ BodiesFound' /\ OnePlace'
    <2>1. EntriesHeld /\ BodiesFound /\ OnePlace
      BY <1>1, <1>10 DEF RedisInv
    <2>2. \A b \in bodies : b.id # n.id /\ b.job # n.job
      <3>1. \A b \in bodies : b.id \in 1 .. ids
        BY DEF RedisInv, RedisType, BodyStates
      <3>2. \A b \in bodies : b.job # client[c].job
        BY <1>7, <2>1 DEF OnePlace
      <3> QED
        BY <1>1, <1>5, <3>1, <3>2
    <2>3. UniqueIds(bodies') /\ OnePerJob(bodies')
      BY <1>1, <2>1, <2>2 DEF BodiesFound, OnePlace, UniqueIds, OnePerJob
    <2>4. EntriesHeld'
      BY <1>1, <1>6, <1>8, <2>1 DEF EntriesHeld, UniqueIds
    <2>5. BodiesFound'
      <3>1. \A d \in delayed : d.id # n.id
        BY <2>1, <2>2 DEF BodiesFound
      <3>2. \A d \in Clients : client[d].pc \in AtBody => client[d].entry # n.id /\ d # c
        BY <1>7, <2>1, <2>2 DEF BodiesFound
      <3>3. \A d \in Clients : client'[d].pc \in AtBody /\ d # c => client[d].pc \in AtBody /\ client'[d] = client[d]
        BY <1>8
      <3>4. \A d \in Clients : client'[d].pc \in AtBody =>
              /\ \E b \in bodies' : b.id = client'[d].entry /\ (client'[d].pc = "hdel" => client'[d].job = b.job)
              /\ \A x \in delayed' : x.id # client'[d].entry
        <4>1. ASSUME NEW d \in Clients, d # c, client'[d].pc \in AtBody
              PROVE  /\ \E b \in bodies : b.id = client[d].entry /\ (client[d].pc = "hdel" => client[d].job = b.job)
                     /\ \A x \in delayed : x.id # client[d].entry
          BY <2>1, <3>3, <4>1 DEF BodiesFound
        <4>2. n \in bodies' /\ bodies \subseteq bodies' /\ delayed' = delayed
          BY <1>1
        <4>3. w.entry = n.id /\ w.pc # "hdel"
          BY <1>4, <1>5
        <4> QED
          BY <1>8, <3>1, <3>3, <4>1, <4>2, <4>3
      <3>5. \A d, f \in Clients : client'[d].pc \in AtBody /\ client'[f].pc \in AtBody
              /\ client'[d].entry = client'[f].entry => d = f
        BY <1>4, <1>5, <1>8, <2>1, <3>2, <3>3 DEF BodiesFound
      <3>6. \A d \in delayed' : \E b \in bodies' : b.id = d.id
        BY <1>1, <2>1 DEF BodiesFound
      <3> QED
        BY <2>3, <3>4, <3>5, <3>6 DEF BodiesFound
    <2>6. OnePlace'
      <3>1. \A d \in Clients : client'[d].pc \in InHands => d # c /\ client'[d] = client[d] /\ client[d].job # n.job
        BY <1>5, <1>6, <1>7, <1>8, <2>1 DEF OnePlace
      <3>2. \A d \in Clients : client[d].pc \in Moves => client'[d] = client[d]
        BY <1>7, <1>8
      <3>3. \A d \in Clients : client'[d].pc \in Moves => client'[d] = client[d]
        BY <1>6, <1>8
      <3>4. /\ n.job \notin finished /\ \A e \in entries : e.job # n.job
            /\ \A x \in buried : n.job # x.job
        BY <1>5, <1>7, <2>1 DEF OnePlace
      <3>5. /\ \A e \in entries' : e.job \notin finished' /\ \A b \in bodies' : e.job # b.job
            /\ \A b \in bodies' : b.job \notin finished' /\ \A x \in buried' : b.job # x.job
            /\ \A x \in buried' : x.job \notin finished'
        BY <1>1, <2>1, <3>4 DEF OnePlace
      <3>6. \A d \in Clients : client'[d].pc \in InHands =>
              /\ client'[d].job \notin finished'
              /\ \A x \in entries' : client'[d].job # x.job
              /\ \A b \in bodies' : client'[d].job # b.job
              /\ \A x \in buried' : client'[d].job # x.job
        <4>1. ASSUME NEW d \in Clients, client'[d].pc \in InHands
              PROVE  /\ client[d].job \notin finished
                     /\ \A x \in entries : client[d].job # x.job
                     /\ \A b \in bodies : client[d].job # b.job
                     /\ \A x \in buried : client[d].job # x.job
          BY <2>1, <3>1, <4>1 DEF OnePlace
        <4> QED
          BY <1>1, <3>1, <4>1
      <3>7. \A d, f \in Clients : client'[d].pc \in InHands /\ client'[f].pc \in InHands
              /\ client'[d].job = client'[f].job => d = f
        BY <2>1, <3>1 DEF OnePlace
      <3>8. \A e \in entries' : \A x \in buried' : e.job = x.job =>
              \E d \in Clients : client'[d].pc \in Moves /\ client'[d].entry = e.id
        BY <1>1, <2>1, <3>2 DEF OnePlace
      <3>9. \A d \in Clients : client'[d].pc \in Moves => \E x \in buried' : x.job = client'[d].job
        BY <1>1, <2>1, <3>3 DEF OnePlace
      <3>10. OnePerJob(entries') /\ OnePerJob(buried')
        BY <1>1, <2>1 DEF OnePlace
      <3> QED
        BY <2>3, <3>5, <3>6, <3>7, <3>8, <3>9, <3>10 DEF OnePlace
    <2> QED
      BY <2>4, <2>5, <2>6
  <1> QED
    BY <1>9, <1>10 DEF RedisInv

LEMMA ZAddKeeps ==
    ASSUME RedisInv, NEW c \in Clients, ZAdd(c)
    PROVE  RedisInv'
  <1> DEFINE x == [id |-> client[c].entry, due |-> FALSE]
  <1>1. /\ client[c] \in ClientStates /\ client[c].pc = "zadd" /\ client' = [client EXCEPT ![c] = Resting]
        /\ delayed' = delayed \union {x} /\ ids \in Nat
        /\ UNCHANGED <<entries, bodies, buried, finished, ids, deaths, disturbed>>
    BY DEF RedisInv, RedisType, ZAdd, At
  <1>2. Resting \in ClientStates /\ Resting.pc = "rest"
    BY DEF Resting, ClientStates, Resters
  <1>3. Resting.pc \notin AtEntry \union AtBody \union InHands \union Moves \union KnowsJob
    BY <1>2 DEF AtEntry, AtBody, InHands, Moves, KnowsJob
  <1>4. client[c].pc \in AtBody /\ client[c].pc \notin AtEntry \union Moves \union InHands
    BY <1>1 DEF AtEntry, AtBody, InHands, Moves
  <1>5. client'[c] = Resting /\ \A d \in Clients : d # c => client'[d] = client[d]
    BY <1>1, ClientMoves DEF RedisInv
  <1>6. x.id = client[c].entry
    OBVIOUS
  <1>7. RedisType'
    <2>1. x \in [id : Nat, due : BOOLEAN]
      BY <1>1 DEF ClientStates
    <2>2. delayed' \subseteq [id : Nat, due : BOOLEAN]
      BY <1>1, <2>1 DEF RedisInv, RedisType
    <2>3. Grown
      BY <1>1, <2>2 DEF Grown, RedisInv, RedisType, EntryStates, BodyStates
    <2>4. Resting \in ClientStates'
      BY <1>1, <1>2 DEF ClientStates
    <2> QED
      BY <1>1, <1>3, <2>3, <2>4, RedisTyped DEF RedisInv
  <1> HIDE DEF x
  <1>8. ASSUME ~disturbed' PROVE EntriesHeld' /\ BodiesFound' /\ OnePlace'
    <2>1. EntriesHeld /\ BodiesFound /\ OnePlace
      BY <1>1, <1>8 DEF RedisInv
    <2>2. EntriesHeld'
      BY <1>1, <1>3, <1>5, <2>1 DEF EntriesHeld, UniqueIds
    <2>3. BodiesFound'
      <3>1. \A d \in Clients : client'[d].pc \in AtBody =>
              /\ client[d].pc \in AtBody /\ client'[d] = client[d] /\ client[d].entry # x.id
        BY <1>3, <1>4, <1>5, <1>6, <2>1 DEF BodiesFound
      <3>2. \A d \in delayed' : \E b \in bodies' : b.id = d.id
        BY <1>1, <1>4, <1>6, <2>1 DEF BodiesFound
      <3>3. \A d \in Clients : client'[d].pc \in AtBody =>
              /\ \E b \in bodies' : b.id = client'[d].entry /\ (client'[d].pc = "hdel" => client'[d].job = b.job)
              /\ \A y \in delayed' : y.id # client'[d].entry
        <4>1. ASSUME NEW d \in Clients, client'[d].pc \in AtBody
              PROVE  /\ \E b \in bodies : b.id = client[d].entry /\ (client[d].pc = "hdel" => client[d].job = b.job)
                     /\ \A y \in delayed' : y.id # client[d].entry
          BY <1>1, <2>1, <3>1, <4>1 DEF BodiesFound
        <4> QED
          BY <1>1, <3>1, <4>1
      <3>4. \A d, f \in Clients : client'[d].pc \in AtBody /\ client'[f].pc \in AtBody
              /\ client'[d].entry = client'[f].entry => d = f
        BY <2>1, <3>1 DEF BodiesFound
      <3> QED
        BY <1>1, <2>1, <3>2, <3>3, <3>4 DEF BodiesFound, UniqueIds
    <2>4. OnePlace'
      BY <1>1, <1>3, <1>4, <1>5, <2>1 DEF OnePlace, OnePerJob
    <2> QED
      BY <2>2, <2>3, <2>4
  <1> QED
    BY <1>7, <1>8 DEF RedisInv

\* XADD to the dead stream, by a nack that has deleted the entry or by
\* reclaim_expired, whose client then is at one of the moves.
LEMMA BuryKeeps ==
    ASSUME RedisInv, NEW c \in Clients, Bury(c)
    PROVE  RedisInv'
  <1> DEFINE n == [id |-> ids + 1, job |-> client[c].job]
  <1>1. /\ client[c] \in ClientStates /\ client[c].pc \in {"bury", "reclaim"} /\ client[c].job \in Jobs
        /\ buried' = buried \union {n} /\ ids' = ids + 1 /\ ids \in Nat
        /\ UNCHANGED <<entries, delayed, bodies, finished, deaths, disturbed>>
    BY DEF RedisInv, RedisType, Bury, InHands, KnowsJob
  <1>2. PICK w \in ClientStates' :
           /\ client' = [client EXCEPT ![c] = w]
           /\ client[c].pc = "bury" => w.pc = "rest"
           /\ client[c].pc = "reclaim" => w.pc = "bury ack" /\ w.job = client[c].job /\ w.entry = client[c].entry
    <2>1. CASE client[c].pc = "bury"
      <3>1. client' = [client EXCEPT ![c] = Resting]
        BY <2>1 DEF Bury, At
      <3>2. Resting \in ClientStates' /\ Resting.pc = "rest"
        BY DEF Resting, ClientStates, Resters
      <3> QED
        BY <2>1, <3>1, <3>2
    <2>2. CASE client[c].pc = "reclaim"
      <3> DEFINE w == [client[c] EXCEPT !.pc = "bury ack"]
      <3>1. client' = [client EXCEPT ![c] = w]
        BY <2>2 DEF Bury, At, Then, RedisInv, RedisType
      <3>2. client[c] \in ClientStates'
        BY <1>1, StatesGrow DEF RedisInv
      <3>3. w \in ClientStates' /\ w.pc = "bury ack" /\ w.job = client[c].job /\ w.entry = client[c].entry
        BY <3>2 DEF ClientStates, AtEntry
      <3> HIDE DEF w
      <3> QED
        BY <2>2, <3>1, <3>3
    <2> QED
      BY <1>1, <2>1, <2>2
  <1>3. w.pc \notin InHands \union AtBody /\ client[c].pc \notin AtBody \union Moves
    BY <1>1, <1>2 DEF InHands, AtBody, Moves
  <1>4. /\ client[c].pc = "bury" => client[c].pc \in InHands /\ w.pc \notin AtEntry \union Moves \union KnowsJob
        /\ client[c].pc = "reclaim" => client[c].pc \in AtEntry /\ client[c].pc \in KnowsJob
                                       /\ w.pc \in AtEntry /\ w.pc \in Moves
    BY <1>1, <1>2 DEF InHands, AtEntry, Moves, KnowsJob
  <1>5. client'[c] = w /\ \A d \in Clients : d # c => client'[d] = client[d]
    BY <1>2, ClientMoves DEF RedisInv
  <1>6. n.job = client[c].job /\ n \in [id : 1 .. ids', job : Jobs]
    BY <1>1
  <1> HIDE DEF n
  <1>7. RedisType'
    <2>1. Grown
      BY <1>1, <1>6, StatesGrow DEF Grown, RedisInv, RedisType
    <2>2. w.pc \in InHands \union KnowsJob => w.job \in Jobs
      BY <1>1, <1>2, <1>3, <1>4
    <2> QED
      BY <1>2, <2>1, <2>2, RedisTyped DEF RedisInv
  <1>8. ASSUME ~disturbed' PROVE EntriesHeld' /\ BodiesFound' /\ OnePlace'
    <2>1. EntriesHeld /\ BodiesFound /\ OnePlace
      BY <1>1, <1>8 DEF RedisInv
    <2>2. EntriesHeld'
      <3>1. \A d \in Clients : client'[d].pc \in AtEntry => client[d].pc \in AtEntry /\ client'[d].entry = client[d].entry
        BY <1>1, <1>2, <1>4, <1>5
      <3>2. \A d \in Clients : client'[d].pc \in AtEntry /\ client'[d].pc \in KnowsJob =>
              client[d].pc \in KnowsJob /\ client'[d].job = client[d].job
        BY <1>1, <1>2, <1>4, <1>5
      <3> QED
        BY <1>1, <2>1, <3>1, <3>2 DEF EntriesHeld, UniqueIds
    <2>3. BodiesFound'
      <3>1. \A d \in Clients : client'[d].pc \in AtBody => client[d].pc \in AtBody /\ client'[d] = client[d]
        BY <1>3, <1>5
      <3>2. \A d \in Clients : client'[d].pc \in AtBody =>
              /\ \E b \in bodies' : b.id = client'[d].entry /\ (client'[d].pc = "hdel" => client'[d].job = b.job)
              /\ \A y \in delayed' : y.id # client'[d].entry
        <4>1. ASSUME NEW d \in Clients, client'[d].pc \in AtBody
              PROVE  /\ \E b \in bodies : b.id = client[d].entry /\ (client[d].pc = "hdel" => client[d].job = b.job)
                     /\ \A y \in delayed : y.id # client[d].entry
          BY <2>1, <3>1, <4>1 DEF BodiesFound
        <4> QED
          BY <1>1, <3>1, <4>1
      <3>3. \A d, f \in Clients : client'[d].pc \in AtBody /\ client'[f].pc \in AtBody
              /\ client'[d].entry = client'[f].entry => d = f
        BY <2>1, <3>1 DEF BodiesFound
      <3> QED
        BY <1>1, <2>1, <3>2, <3>3 DEF BodiesFound, UniqueIds
    <2>4. n.job \notin finished /\ (\A b \in bodies : b.job # n.job) /\ (\A y \in buried : y.job # n.job)
      <3>1. CASE client[c].pc = "bury"
        BY <1>4, <1>6, <2>1, <3>1 DEF OnePlace
      <3>2. CASE client[c].pc = "reclaim"
        <4>1. PICK e \in entries : e.id = client[c].entry /\ e.job = n.job
          BY <1>4, <1>6, <2>1, <3>2 DEF EntriesHeld
        <4>2. ASSUME NEW y \in buried, y.job = n.job PROVE FALSE
          <5>1. PICK d \in Clients : client[d].pc \in Moves /\ client[d].entry = e.id
            BY <2>1, <4>1, <4>2 DEF OnePlace
          <5>2. client[d].pc \in AtEntry /\ d # c
            BY <1>3, <5>1 DEF Moves, AtEntry
          <5> QED
            BY <1>4, <2>1, <3>2, <4>1, <5>1, <5>2 DEF EntriesHeld
        <4> QED
          BY <2>1, <4>1, <4>2 DEF OnePlace
      <3> QED
        BY <1>1, <3>1, <3>2
    <2>5. \A e \in entries : e.job = n.job => client[c].pc = "reclaim" /\ client[c].entry = e.id
      <3>1. CASE client[c].pc = "bury"
        BY <1>4, <1>6, <2>1, <3>1 DEF OnePlace
      <3>2. CASE client[c].pc = "reclaim"
        <4>1. PICK e \in entries : e.id = client[c].entry /\ e.job = n.job
          BY <1>4, <1>6, <2>1, <3>2 DEF EntriesHeld
        <4> QED
          BY <2>1, <3>2, <4>1 DEF OnePlace, OnePerJob
      <3> QED
        BY <1>1, <3>1, <3>2
    <2>6. OnePlace'
      <3>1. \A d \in Clients : client'[d].pc \in InHands =>
              d # c /\ client[d].pc \in InHands /\ client'[d] = client[d] /\ client[d].job # n.job
        <4>1. ASSUME NEW d \in Clients, d # c, client[d].pc \in InHands, client[d].job = n.job PROVE FALSE
          <5>1. CASE client[c].pc = "bury"
            BY <1>4, <1>6, <2>1, <4>1, <5>1 DEF OnePlace
          <5>2. CASE client[c].pc = "reclaim"
            <6>1. PICK e \in entries : e.job = n.job
              BY <1>4, <1>6, <2>1, <5>2 DEF EntriesHeld
            <6> QED
              BY <2>1, <4>1, <6>1 DEF OnePlace
          <5> QED
            BY <1>1, <5>1, <5>2
        <4> QED
          BY <1>3, <1>5, <4>1
      <3>2. OnePerJob(entries') /\ OnePerJob(bodies') /\ OnePerJob(buried')
        BY <1>1, <2>1, <2>4 DEF OnePlace, OnePerJob
      <3>3. /\ \A e \in entries' : e.job \notin finished' /\ \A b \in bodies' : e.job # b.job
            /\ \A b \in bodies' : b.job \notin finished' /\ \A x \in buried' : b.job # x.job
            /\ \A x \in buried' : x.job \notin finished'
        BY <1>1, <2>1, <2>4 DEF OnePlace
      <3>4. \A d \in Clients : client'[d].pc \in InHands =>
              /\ client'[d].job \notin finished'
              /\ \A x \in entries' : client'[d].job # x.job
              /\ \A b \in bodies' : client'[d].job # b.job
              /\ \A x \in buried' : client'[d].job # x.job
        <4>1. ASSUME NEW d \in Clients, client'[d].pc \in InHands
              PROVE  /\ client[d].job \notin finished
                     /\ \A x \in entries : client[d].job # x.job
                     /\ \A b \in bodies : client[d].job # b.job
                     /\ \A x \in buried' : client[d].job # x.job
          BY <1>1, <2>1, <3>1, <4>1 DEF OnePlace
        <4> QED
          BY <1>1, <3>1, <4>1
      <3>5. \A d, f \in Clients : client'[d].pc \in InHands /\ client'[f].pc \in InHands
              /\ client'[d].job = client'[f].job => d = f
        BY <2>1, <3>1 DEF OnePlace
      <3>6. \A e \in entries' : \A x \in buried' : e.job = x.job =>
              \E d \in Clients : client'[d].pc \in Moves /\ client'[d].entry = e.id
        <4>1. ASSUME NEW e \in entries, NEW x \in buried, e.job = x.job
              PROVE  \E d \in Clients : client'[d].pc \in Moves /\ client'[d].entry = e.id
          <5>1. PICK d \in Clients : client[d].pc \in Moves /\ client[d].entry = e.id
            BY <2>1, <4>1 DEF OnePlace
          <5> QED
            BY <1>3, <1>5, <5>1
        <4>2. ASSUME NEW e \in entries, e.job = n.job
              PROVE  \E d \in Clients : client'[d].pc \in Moves /\ client'[d].entry = e.id
          BY <1>2, <1>4, <1>5, <2>5, <4>2
        <4> QED
          BY <1>1, <4>1, <4>2
      <3>7. \A d \in Clients : client'[d].pc \in Moves => \E x \in buried' : x.job = client'[d].job
        <4>1. ASSUME NEW d \in Clients, d # c, client[d].pc \in Moves
              PROVE  \E x \in buried' : x.job = client[d].job
          BY <1>1, <2>1, <4>1 DEF OnePlace
        <4>2. n \in buried' /\ (w.pc \in Moves => w.job = n.job)
          BY <1>1, <1>2, <1>4, <1>6
        <4> QED
          BY <1>5, <4>1, <4>2
      <3> QED
        BY <3>2, <3>3, <3>4, <3>5, <3>6, <3>7 DEF OnePlace
    <2> QED
      BY <2>2, <2>3, <2>6
  <1> QED
    BY <1>7, <1>8 DEF RedisInv

\* enqueue: the job was nowhere.
LEMMA XAddNewKeeps ==
    ASSUME RedisInv, NEW j \in Jobs, XAddNew(j)
    PROVE  RedisInv'
  <1>1. /\ ids' = ids + 1 /\ ids \in Nat /\ disturbed \in BOOLEAN
        /\ \A e \in entries : e.job # j /\ \A b \in bodies : b.job # j
        /\ \A b \in bodies : b.job # j
        /\ \A x \in buried : x.job # j
        /\ j \notin finished /\ \A c \in Clients : client[c].job # j
        /\ UNCHANGED <<buried, finished, client, deaths, disturbed>>
    BY DEF XAddNew, RedisInv, RedisType
  <1>2. /\ entries \subseteq EntryStates' /\ bodies \subseteq BodyStates'
        /\ buried \subseteq [id : 1 .. ids', job : Jobs]
        /\ \A d \in Clients : client[d] \in ClientStates'
    BY <1>1, StatesGrow DEF RedisInv
  <1>3. ids + 1 \in 1 .. ids' /\ ids + 1 \notin 1 .. ids
    BY <1>1
  <1>4. client' \in [Clients -> ClientStates']
    BY <1>1, <1>2 DEF RedisInv, RedisType
  <1>5. ASSUME NEW n, n = NewEntry(j, 0), entries' = entries \union {n}, UNCHANGED <<delayed, bodies>>
        PROVE  RedisInv'
    <2>1. n \in EntryStates' /\ n.id = ids + 1 /\ n.job = j
      <3>1. 0 \in Nat /\ 0 \in 0 .. Ceiling
        BY RedisAssumption
      <3> QED
        BY <1>3, <1>5, <3>1 DEF NewEntry, EntryStates
    <2>2. RedisType'
      BY <1>1, <1>2, <1>4, <1>5, <2>1 DEF RedisInv, RedisType
    <2>3. ASSUME ~disturbed' PROVE EntriesHeld' /\ BodiesFound' /\ OnePlace'
      <3>1. EntriesHeld /\ BodiesFound /\ OnePlace
        BY <1>1, <2>3 DEF RedisInv
      <3>2. \A e \in entries : e.id # n.id /\ e.job # n.job
        BY <1>1, <1>3, <2>1 DEF RedisInv, RedisType, EntryStates
      <3>3. UniqueIds(entries') /\ OnePerJob(entries')
        BY <1>5, <3>1, <3>2 DEF EntriesHeld, OnePlace, UniqueIds, OnePerJob
      <3>4. EntriesHeld'
        BY <1>1, <1>5, <3>1, <3>3 DEF EntriesHeld
      <3>5. BodiesFound'
        BY <1>1, <1>5, <3>1 DEF BodiesFound, UniqueIds
      <3>6. OnePlace'
        BY <1>1, <1>5, <2>1, <3>1, <3>3 DEF OnePlace, OnePerJob
      <3> QED
        BY <3>4, <3>5, <3>6
    <2> QED
      BY <2>2, <2>3 DEF RedisInv
  <1>6. ASSUME NEW n, n = [id |-> ids + 1, job |-> j, attempts |-> 0], bodies' = bodies \union {n},
               delayed' = delayed \union {[id |-> ids + 1, due |-> FALSE]}, entries' = entries
        PROVE  RedisInv'
    <2>1. n \in BodyStates' /\ n.id = ids + 1 /\ n.job = j
      BY <1>3, <1>6 DEF BodyStates
    <2>2. RedisType'
      <3>1. [id |-> ids + 1, due |-> FALSE] \in [id : Nat, due : BOOLEAN]
        BY <1>1
      <3>2. delayed' \subseteq [id : Nat, due : BOOLEAN]
        BY <1>6, <3>1 DEF RedisInv, RedisType
      <3> QED
        BY <1>1, <1>2, <1>4, <1>6, <2>1, <3>2 DEF RedisInv, RedisType
    <2>3. ASSUME ~disturbed' PROVE EntriesHeld' /\ BodiesFound' /\ OnePlace'
      <3>1. EntriesHeld /\ BodiesFound /\ OnePlace
        BY <1>1, <2>3 DEF RedisInv
      <3>2. \A b \in bodies : b.id # n.id /\ b.job # n.job
        BY <1>1, <1>3, <2>1 DEF RedisInv, RedisType, BodyStates
      <3>3. UniqueIds(bodies') /\ OnePerJob(bodies')
        BY <1>6, <3>1, <3>2 DEF BodiesFound, OnePlace, UniqueIds, OnePerJob
      <3>4. EntriesHeld'
        BY <1>1, <1>6, <3>1 DEF EntriesHeld, UniqueIds
      <3>5. BodiesFound'
        <4>1. \A d \in delayed' : d \in delayed \/ d.id = n.id
          BY <1>6, <2>1
        <4>2. \A d \in delayed' : \E b \in bodies' : b.id = d.id
          BY <1>6, <3>1, <4>1 DEF BodiesFound
        <4>3. \A c \in Clients : client[c].pc \in AtBody => client[c].entry # n.id
          BY <3>1, <3>2 DEF BodiesFound
        <4>4. \A c \in Clients : client[c].pc \in AtBody =>
                /\ \E b \in bodies' : b.id = client[c].entry /\ (client[c].pc = "hdel" => client[c].job = b.job)
                /\ \A d \in delayed' : d.id # client[c].entry
          BY <1>6, <3>1, <4>1, <4>3 DEF BodiesFound
        <4> QED
          BY <1>1, <3>1, <3>3, <4>2, <4>4 DEF BodiesFound
      <3>6. OnePlace'
        BY <1>1, <1>6, <2>1, <3>1, <3>3 DEF OnePlace, OnePerJob
      <3> QED
        BY <3>4, <3>5, <3>6
    <2> QED
      BY <2>2, <2>3 DEF RedisInv
  <1> QED
    BY <1>5, <1>6 DEF XAddNew

LEMMA DelayPassesKeeps ==
    ASSUME RedisInv, DelayPasses
    PROVE  RedisInv'
  <1>0. PICK d \in delayed : delayed' = (delayed \ {d}) \union {[d EXCEPT !.due = TRUE]}
    BY DEF DelayPasses
  <1> DEFINE x == [d EXCEPT !.due = TRUE]
  <1>1. delayed' = (delayed \ {d}) \union {x}
    BY <1>0
  <1>2. x \in [id : Nat, due : BOOLEAN] /\ x.id = d.id
    BY DEF RedisInv, RedisType
  <1>3. UNCHANGED <<entries, bodies, buried, finished, client, ids, deaths, disturbed>>
    BY DEF DelayPasses
  <1> HIDE DEF x
  <1>4. RedisType'
    BY <1>1, <1>2, <1>3 DEF RedisInv, RedisType, EntryStates, BodyStates, ClientStates
  <1>5. \A y \in delayed' : \E z \in delayed : y.id = z.id
    BY <1>1, <1>2
  <1>6. ASSUME ~disturbed' PROVE EntriesHeld' /\ BodiesFound' /\ OnePlace'
    <2>1. EntriesHeld /\ BodiesFound /\ OnePlace
      BY <1>3, <1>6 DEF RedisInv
    <2>2. EntriesHeld'
      BY <1>3, <2>1 DEF EntriesHeld, UniqueIds
    <2>3. BodiesFound'
      BY <1>3, <1>5, <2>1 DEF BodiesFound, UniqueIds
    <2>4. OnePlace'
      BY <1>3, <2>1 DEF OnePlace, OnePerJob
    <2> QED
      BY <2>2, <2>3, <2>4
  <1> QED
    BY <1>4, <1>6 DEF RedisInv

LEMMA RedisInitially == RedisInit => RedisInv
  <1> SUFFICES ASSUME RedisInit PROVE RedisInv
    OBVIOUS
  <1>1. Resting \in ClientStates /\ Resting.pc = "rest"
    BY DEF Resting, ClientStates, Resters
  <1>2. Resting.pc \notin AtEntry \union AtBody \union InHands \union Moves \union KnowsJob
    BY <1>1 DEF AtEntry, AtBody, InHands, Moves, KnowsJob
  <1>3. \A c \in Clients : client[c] = Resting
    BY DEF RedisInit
  <1>4. RedisType
    BY <1>1, <1>2, <1>3 DEF RedisInit, RedisType
  <1>5. EntriesHeld /\ BodiesFound /\ OnePlace
    BY <1>2, <1>3 DEF RedisInit, EntriesHeld, BodiesFound, OnePlace, UniqueIds, OnePerJob
  <1> QED
    BY <1>4, <1>5 DEF RedisInv

LEMMA RedisSteps == RedisInv /\ [RedisNext]_redisVars => RedisInv'
  <1> SUFFICES ASSUME RedisInv, [RedisNext]_redisVars PROVE RedisInv'
    OBVIOUS
  <1>1. ASSUME NEW j \in Jobs, XAddNew(j) PROVE RedisInv'
    BY <1>1, XAddNewKeeps
  <1>2. CASE DelayPasses
    BY <1>2, DelayPassesKeeps
  <1>3. ASSUME NEW id \in 1 .. ids, GoesIdle(id) PROVE RedisInv'
    BY <1>3, GoesIdleKeeps
  <1>4. ASSUME NEW c \in Clients, ClientStep(c) PROVE RedisInv'
    BY <1>4, ReadDueKeeps, ZRemKeeps, HGetKeeps, HDelKeeps, PublishKeeps, AutoclaimKeeps, ReadNewKeeps,
       XRangeKeeps, XAckKeeps, XDelKeeps, HSetKeeps, ZAddKeeps, BuryKeeps, ReclaimKeeps DEF ClientStep
  <1>5. ASSUME NEW c \in Clients, ClientDies(c) PROVE RedisInv'
    BY <1>5, ClientDiesKeeps
  <1>6. CASE UNCHANGED redisVars
    <2>1. UNCHANGED <<entries, delayed, bodies, buried, finished, client, ids, disturbed>>
      BY <1>6 DEF redisVars
    <2>2. RedisType'
      BY <2>1 DEF RedisInv, RedisType, EntryStates, BodyStates, ClientStates
    <2>3. (~disturbed => EntriesHeld /\ BodiesFound /\ OnePlace)'
      BY <2>1 DEF RedisInv, EntriesHeld, BodiesFound, OnePlace, UniqueIds, OnePerJob
    <2> QED
      BY <2>2, <2>3 DEF RedisInv
  <1> QED
    BY <1>1, <1>2, <1>3, <1>4, <1>5, <1>6 DEF RedisNext

\* A set with at most one element, counted.
LEMMA AtMostOne ==
    ASSUME NEW S, \A x, y \in S : x = y
    PROVE  /\ S = {} => Cardinality(S) = 0
           /\ S # {} => Cardinality(S) = 1
  <1>1. S = {} => Cardinality(S) = 0
    BY FS_EmptySet
  <1>2. ASSUME NEW x \in S PROVE Cardinality(S) = 1
    <2>1. S = {x}
      OBVIOUS
    <2> QED
      BY <2>1, FS_Singleton
  <1> QED
    BY <1>1, <1>2

\* What the places of a job add up to.
LEMMA OneCopyHolds == RedisInv => OneCopy
  <1> SUFFICES ASSUME RedisInv, ~disturbed, NEW j \in Jobs
               PROVE  Copies(j) = 0 \/ Copies(j) - Moving(j) = 1
    BY DEF OneCopy
  <1>1. EntriesHeld /\ OnePlace /\ RedisType
    BY DEF RedisInv
  <1> DEFINE E == {e \in entries : e.job = j}
             B == {b \in bodies : b.job = j}
             X == {b \in buried : b.job = j}
             H == {c \in Clients : client[c].job = j /\ InHand(c)}
             M == {c \in Clients : client[c].job = j /\ client[c].pc \in {"bury ack", "bury del"}}
             f == IF j \in finished THEN 1 ELSE 0
  <1>2. Copies(j) = Cardinality(E) + Cardinality(B) + Cardinality(X) + Cardinality(H) + f
    BY DEF Copies
  <1>3. Moving(j) = Cardinality(M)
    BY DEF Moving
  <1>4. \A x, y \in E : x = y
    BY <1>1 DEF OnePlace, OnePerJob
  <1>4a. /\ E = {} => Cardinality(E) = 0
        /\ E # {} => Cardinality(E) = 1
    BY <1>4, AtMostOne
  <1>5. /\ B = {} => Cardinality(B) = 0
        /\ B # {} => Cardinality(B) = 1
    BY <1>1, AtMostOne DEF OnePlace, OnePerJob
  <1>6. /\ X = {} => Cardinality(X) = 0
        /\ X # {} => Cardinality(X) = 1
    BY <1>1, AtMostOne DEF OnePlace, OnePerJob
  <1>7. \A c \in H : client[c].pc \in InHands /\ client[c].job = j
    BY DEF InHand, InHands
  <1>8. /\ H = {} => Cardinality(H) = 0
        /\ H # {} => Cardinality(H) = 1
    <2>1. \A c, d \in H : c = d
      BY <1>1, <1>7 DEF OnePlace
    <2> QED
      BY <2>1, AtMostOne
  <1>9. \A c \in M : /\ c \in Clients /\ client[c].pc \in Moves /\ client[c].pc \in AtEntry
                     /\ client[c].pc \in KnowsJob /\ client[c].job = j
    BY DEF Moves, AtEntry, KnowsJob
  <1>10. \A c \in M : \E e \in E : e.id = client[c].entry
    BY <1>1, <1>9 DEF EntriesHeld
  <1>11. /\ M = {} => Cardinality(M) = 0
         /\ M # {} => Cardinality(M) = 1
    <2>1. \A c, d \in M : c = d
      <3>1. ASSUME NEW c \in M, NEW d \in M PROVE c = d
        <4>2. client[c].entry = client[d].entry
          BY <1>4, <1>10
        <4> QED
          BY <1>1, <1>9, <4>2 DEF EntriesHeld
      <3> QED
        BY <3>1
    <2> QED
      BY <2>1, AtMostOne
  <1>12. M # {} <=> E # {} /\ X # {}
    <2>1. ASSUME M # {} PROVE E # {} /\ X # {}
      <3>1. PICK c \in M : TRUE
        BY <2>1
      <3>2. E # {}
        BY <1>10, <3>1
      <3>3. \E x \in buried : x.job = client[c].job
        BY <1>1, <1>9, <3>1 DEF OnePlace
      <3> QED
        BY <1>9, <3>1, <3>2, <3>3
    <2>2. ASSUME NEW e \in E, NEW x \in X PROVE M # {}
      <3>1. PICK c \in Clients : client[c].pc \in Moves /\ client[c].entry = e.id
        BY <1>1, <2>2 DEF OnePlace
      <3>2. client[c].pc \in AtEntry /\ client[c].pc \in KnowsJob
        BY <3>1 DEF Moves, AtEntry, KnowsJob
      <3>3. client[c].job = e.job
        BY <1>1, <3>1, <3>2 DEF EntriesHeld, UniqueIds
      <3> QED
        BY <3>1, <3>3 DEF Moves
    <2> QED
      BY <2>1, <2>2
  <1>13. /\ E # {} => B = {} /\ H = {} /\ f = 0
         /\ B # {} => X = {} /\ H = {} /\ f = 0
         /\ X # {} => H = {} /\ f = 0
         /\ H # {} => f = 0
    BY <1>1, <1>7 DEF OnePlace
  <1>14. f \in {0, 1}
    OBVIOUS
  <1> HIDE DEF E, B, X, H, M, f
  <1> QED
    BY <1>2, <1>3, <1>4a, <1>5, <1>6, <1>8, <1>11, <1>12, <1>13, <1>14

\* However promotions, redeliveries, retries and dead-letterings of any number of
\* clients interleave and whichever of them die at their work, a job that was
\* enqueued is in exactly one place (in two while reclaim_expired moves it), until
\* two clients are at one entry or one dies between the commands of an operation.
THEOREM JobsAreInOnePlace == RedisSpec => []OneCopy
  BY RedisInitially, RedisSteps, OneCopyHolds, PTL DEF RedisSpec
-----------------------------------------------------------------------------
(* The graph of delegations *)

\* A set of numbers that is not empty has a least one.
LEMMA LeastNumber ==
    ASSUME NEW T \in SUBSET Nat, T # {}
    PROVE  \E m \in T : \A k \in T : m <= k
  <1> DEFINE Less == {ss \in Nat \X Nat : ss[1] < ss[2]}
  <1>1. IsWellFoundedOn(Less, Nat)
    BY NatLessThanWellFounded, Zenon DEF OpToRel
  <1>2. PICK m \in T : \A k \in T : ~(<<k, m>> \in Less)
    <2> HIDE DEF Less
    <2> QED
      BY <1>1, WFMin
  <1>3. \A k \in T : ~(k < m) /\ k \in Nat /\ m \in Nat
    BY <1>2
  <1> QED
    BY <1>3

\* A set of agents that has everybody its members delegate to.
ClosedIn(E, S) == \A e \in E : e[1] \in S => e[2] \in S

Beyond(E, T) == T \union {e[2] : e \in {x \in E : x[1] \in T}}

Walk(E, a, h, k) == h = [n \in 0..k |-> IF n = 0 THEN {a} ELSE Beyond(E, h[n - 1])]

\* A walk of N steps is a function: the recursion defines one.
LEMMA WalkExists ==
    ASSUME NEW E, NEW a, NEW N \in Nat
    PROVE  \E h : Walk(E, a, h, N)
  <1> DEFINE T == {k \in Nat : ~ \E h : Walk(E, a, h, k)}
  <1> SUFFICES ASSUME T # {} PROVE FALSE
    OBVIOUS
  <1>1. T \subseteq Nat
    OBVIOUS
  <1>2. PICK m \in T : \A k \in T : m <= k
    <2> HIDE DEF T
    <2> QED
      BY <1>1, LeastNumber
  <1>3. CASE m = 0
    <2> DEFINE h == [n \in 0..0 |-> {a}]
    <2>1. h = [n \in 0..0 |-> IF n = 0 THEN {a} ELSE Beyond(E, h[n - 1])]
      OBVIOUS
    <2>2. Walk(E, a, h, 0)
      BY <2>1 DEF Walk
    <2> QED
      BY <1>2, <1>3, <2>2
  <1>4. CASE m # 0
    <2>1. m \in Nat /\ m - 1 \in Nat /\ ~(m <= m - 1)
      BY <1>2, <1>4
    <2>2. m - 1 \notin T
      BY <1>2, <2>1
    <2>3. PICK g : Walk(E, a, g, m - 1)
      BY <2>1, <2>2
    <2> DEFINE h == [n \in 0..m |-> IF n = 0 THEN {a} ELSE Beyond(E, g[n - 1])]
    <2>4. \A n \in 0..(m - 1) : g[n] = IF n = 0 THEN {a} ELSE Beyond(E, g[n - 1])
      BY <2>3 DEF Walk
    <2>5. \A n \in 0..(m - 1) : h[n] = g[n]
      <3>1. \A n \in 0..m : h[n] = IF n = 0 THEN {a} ELSE Beyond(E, g[n - 1])
        OBVIOUS
      <3>2. \A n \in 0..(m - 1) : n \in 0..m
        BY <2>1
      <3> HIDE DEF h
      <3> QED
        BY <2>4, <3>1, <3>2
    <2>6. \A n \in 0..m : n # 0 => n - 1 \in 0..(m - 1)
      BY <2>1
    <2>7. \A n \in 0..m : n # 0 => h[n - 1] = g[n - 1]
      BY <2>5, <2>6
    <2>8. \A n \in 0..m : h[n] = IF n = 0 THEN {a} ELSE Beyond(E, h[n - 1])
      BY <2>7
    <2>9. h = [n \in 0..m |-> h[n]]
      OBVIOUS
    <2> HIDE DEF h
    <2>10. Walk(E, a, h, m)
      BY <2>8, <2>9 DEF Walk
    <2> QED
      BY <1>2, <2>10
  <1> QED
    BY <1>3, <1>4

\* Closure(E, a) is what the walk from a has reached after as many steps as there
\* are agents.
LEMMA ClosureIsTheWalk ==
    ASSUME NEW E, NEW a
    PROVE  \E v : /\ Walk(E, a, v, Cardinality(Agents))
                  /\ Closure(E, a) = v[Cardinality(Agents)]
  <1> DEFINE N == Cardinality(Agents)
             step[n \in 0..N] ==
                 IF n = 0 THEN {a}
                 ELSE step[n - 1] \union {e[2] : e \in {x \in E : x[1] \in step[n - 1]}}
  <1>1. N \in Nat
    BY DelegationAssumption, FS_CardinalityType
  <1>2. PICK h : Walk(E, a, h, N)
    <2> HIDE DEF N, step
    <2> QED
      BY <1>1, WalkExists
  <1>3. step = CHOOSE v : Walk(E, a, v, N)
    BY DEF Walk, Beyond, step
  <1>4. Walk(E, a, step, N)
    <2> HIDE DEF step, N
    <2> QED
      BY <1>2, <1>3
  <1>5. Closure(E, a) = step[N]
    BY DEF Closure, step
  <1> QED
    BY <1>4, <1>5

\* The depth-first search finds the least set that has the agent and everybody
\* its members delegate to: after as many steps as there are agents nobody is new.
LEMMA ClosureIsLeast ==
    ASSUME NEW E \in SUBSET (Agents \X Agents), NEW a \in Agents
    PROVE  /\ a \in Closure(E, a) /\ Closure(E, a) \subseteq Agents
           /\ ClosedIn(E, Closure(E, a))
           /\ \A S : a \in S /\ ClosedIn(E, S) => Closure(E, a) \subseteq S
  <1> DEFINE N == Cardinality(Agents)
  <1>1. N \in Nat /\ IsFiniteSet(Agents)
    BY DelegationAssumption, FS_CardinalityType
  <1>2. PICK v : Walk(E, a, v, N) /\ Closure(E, a) = v[N]
    BY ClosureIsTheWalk
  <1> DEFINE Fine(n) == /\ a \in v[n] /\ v[n] \subseteq Agents
                        /\ \A S : a \in S /\ ClosedIn(E, S) => v[n] \subseteq S
                        /\ ClosedIn(E, v[n]) \/ n + 1 <= Cardinality(v[n])
             T == {n \in 0..N : ~Fine(n)}
  <1>3. v[0] = {a}
    BY <1>1, <1>2 DEF Walk
  <1>4. \A n \in 0..N : n # 0 => v[n] = Beyond(E, v[n - 1])
    BY <1>2 DEF Walk
  <1>5. Fine(0)
    <2>1. Cardinality(v[0]) = 1
      BY <1>3, FS_Singleton
    <2> QED
      BY <1>1, <1>3, <2>1
  <1>6. ASSUME NEW n \in 0..N, n # 0, Fine(n - 1)
        PROVE  Fine(n)
    <2> DEFINE w == v[n - 1]
    <2>0. \A e \in E : e[1] \in Agents /\ e[2] \in Agents
      OBVIOUS
    <2>1. /\ w \subseteq v[n] /\ \A e \in E : e[1] \in w => e[2] \in v[n]
          /\ \A b \in v[n] : b \in w \/ \E e \in E : e[1] \in w /\ b = e[2]
      BY <1>4, <1>6 DEF Beyond
    <2>2. a \in v[n] /\ v[n] \subseteq Agents
      BY <1>6, <2>0, <2>1
    <2>3. ASSUME NEW S, a \in S, ClosedIn(E, S) PROVE v[n] \subseteq S
      <3>1. w \subseteq S
        BY <1>6, <2>3
      <3> QED
        BY <2>1, <2>3, <3>1 DEF ClosedIn
    <2>4. CASE ClosedIn(E, w)
      <3>1. v[n] = w
        BY <2>1, <2>4 DEF ClosedIn
      <3> QED
        BY <2>2, <2>3, <2>4, <3>1
    <2>5. CASE ~ClosedIn(E, w)
      <3>1. PICK e \in E : e[1] \in w /\ e[2] \notin w
        BY <2>5 DEF ClosedIn
      <3> DEFINE s == e[2]
      <3>2. w \union {s} \subseteq v[n] /\ s \notin w
        BY <2>1, <3>1
      <3>3. v[n] \subseteq Agents /\ w \subseteq Agents
        BY <1>6, <2>2
      <3> HIDE DEF w, s
      <3>4. IsFiniteSet(v[n]) /\ IsFiniteSet(w)
        BY <1>1, <3>3, FS_Subset
      <3>5. IsFiniteSet(w \union {s}) /\ Cardinality(w \union {s}) = Cardinality(w) + 1
        BY <3>2, <3>4, FS_AddElement
      <3>6. Cardinality(w \union {s}) <= Cardinality(v[n])
        BY <3>2, <3>4, FS_Subset
      <3>7. (n - 1) + 1 <= Cardinality(w)
        BY <1>6, <2>5 DEF w
      <3>8. Cardinality(w) \in Nat /\ Cardinality(v[n]) \in Nat
        BY <3>4, FS_CardinalityType
      <3>9. n + 1 <= Cardinality(v[n])
        BY <1>1, <3>5, <3>6, <3>7, <3>8
      <3> QED
        BY <2>2, <2>3, <3>9
    <2> QED
      BY <2>4, <2>5
  <1> HIDE DEF Fine
  <1>7. Fine(N)
    <2> SUFFICES ASSUME T # {} PROVE FALSE
      BY <1>1
    <2>1. T \in SUBSET Nat
      BY <1>1
    <2>2. PICK m \in T : \A k \in T : m <= k
      <3> HIDE DEF T
      <3> QED
        BY <2>1, LeastNumber
    <2>3. m \in 0..N /\ m # 0 /\ ~Fine(m)
      BY <1>5, <2>2
    <2>4. m - 1 \in 0..N /\ ~(m <= m - 1)
      BY <1>1, <2>3
    <2>5. Fine(m - 1)
      BY <2>2, <2>4
    <2> QED
      BY <1>6, <2>3, <2>5
  <1>8. ClosedIn(E, v[N])
    <2> SUFFICES ASSUME N + 1 <= Cardinality(v[N]) PROVE FALSE
      BY <1>7 DEF Fine
    <2>1. v[N] \subseteq Agents
      BY <1>7 DEF Fine
    <2>2. IsFiniteSet(v[N]) /\ Cardinality(v[N]) <= N
      BY <1>1, <2>1, FS_Subset
    <2>3. Cardinality(v[N]) \in Nat
      BY <2>2, FS_CardinalityType
    <2> QED
      BY <1>1, <2>2, <2>3
  <1> QED
    BY <1>2, <1>7, <1>8 DEF Fine

\* Fewer edges reach less.
LEMMA ClosureShrinks ==
    ASSUME NEW E \in SUBSET (Agents \X Agents), NEW D \in SUBSET E, NEW a \in Agents
    PROVE  Closure(D, a) \subseteq Closure(E, a)
  <1>1. D \in SUBSET (Agents \X Agents)
    OBVIOUS
  <1>2. a \in Closure(E, a) /\ ClosedIn(E, Closure(E, a))
    BY ClosureIsLeast
  <1>3. ClosedIn(D, Closure(E, a))
    BY <1>2 DEF ClosedIn
  <1>4. \A S : a \in S /\ ClosedIn(D, S) => Closure(D, a) \subseteq S
    BY <1>1, ClosureIsLeast
  <1> QED
    BY <1>2, <1>3, <1>4

\* Nobody is reached from an agent it delegates to.
Acyclic(E) == \A e \in E : e[1] \notin Closure(E, e[2])

LEMMA CutKeepsAcyclic ==
    ASSUME NEW E \in SUBSET (Agents \X Agents), NEW D \in SUBSET E, Acyclic(E)
    PROVE  Acyclic(D)
  <1> SUFFICES ASSUME NEW e \in D PROVE e[1] \notin Closure(D, e[2])
    BY DEF Acyclic
  <1>1. e \in E /\ e[2] \in Agents
    OBVIOUS
  <1>2. e[1] \notin Closure(E, e[2])
    BY <1>1 DEF Acyclic
  <1> QED
    BY <1>1, <1>2, ClosureShrinks

\* would_cycle asks the right question: an edge whose target does not reach its
\* sender closes no cycle.
LEMMA CheckedEdgeKeepsAcyclic ==
    ASSUME NEW E \in SUBSET (Agents \X Agents), Acyclic(E), NEW s \in Agents, NEW t \in Agents,
           s # t, s \notin Closure(E, t)
    PROVE  Acyclic(E \union {<<s, t>>})
  <1> DEFINE D == E \union {<<s, t>>}
  <1>1. D \in SUBSET (Agents \X Agents)
    OBVIOUS
  <1>2. t \in Closure(E, t) /\ ClosedIn(E, Closure(E, t)) /\ Closure(E, t) \subseteq Agents
    BY ClosureIsLeast
  <1> SUFFICES ASSUME NEW e \in D PROVE e[1] \notin Closure(D, e[2])
    BY DEF Acyclic
  <1> HIDE DEF D
  <1>3. e[1] \in Agents /\ e[2] \in Agents /\ (e \in E \/ (e[1] = s /\ e[2] = t))
    BY <1>1 DEF D
  <1>4. \A d \in D : d \in E \/ (d[1] = s /\ d[2] = t)
    BY DEF D
  <1>5. \A S : e[2] \in S /\ ClosedIn(D, S) => Closure(D, e[2]) \subseteq S
    BY <1>1, <1>3, ClosureIsLeast
  <1>6. CASE e[1] = s /\ e[2] = t
    <2>1. ClosedIn(D, Closure(E, t))
      BY <1>2, <1>4 DEF ClosedIn
    <2> QED
      BY <1>2, <1>5, <1>6, <2>1
  <1>7. CASE e \in E
    <2> DEFINE R == Closure(E, e[2])
    <2>1. /\ e[2] \in R /\ ClosedIn(E, R)
          /\ \A S : e[2] \in S /\ ClosedIn(E, S) => R \subseteq S
      BY <1>3, ClosureIsLeast
    <2>2. e[1] \notin R
      BY <1>7 DEF Acyclic
    <2> HIDE DEF R
    <2>3. CASE s \notin R
      <3>1. ClosedIn(D, R)
        BY <1>4, <2>1, <2>3 DEF ClosedIn
      <3> QED
        BY <1>5, <2>1, <2>2, <3>1
    <2>4. CASE s \in R
      <3>1. e[1] \notin Closure(E, t)
        <4> SUFFICES ASSUME e[1] \in Closure(E, t) PROVE FALSE
          OBVIOUS
        <4>1. e[2] \in Closure(E, t)
          BY <1>2, <1>7 DEF ClosedIn
        <4>2. R \subseteq Closure(E, t)
          BY <1>2, <2>1, <4>1
        <4> QED
          BY <2>4, <4>2
      <3>2. ClosedIn(D, R \union Closure(E, t))
        BY <1>2, <1>4, <2>1 DEF ClosedIn
      <3>3. Closure(D, e[2]) \subseteq R \union Closure(E, t)
        BY <1>5, <2>1, <3>2
      <3> QED
        BY <2>2, <3>1, <3>3
    <2> QED
      BY <2>3, <2>4
  <1> QED
    BY <1>3, <1>6, <1>7

-----------------------------------------------------------------------------
(* The calls of a correlation *)

Call == [id : Nat \ {0}, by : Nat, agent : Agents, depth : Nat]

CallsTyped ==
    /\ frames \subseteq Call /\ edges \in SUBSET (Agents \X Agents)
    /\ expanded \in Nat /\ expanded <= MaxNodes

OneCallEach == \A f, g \in frames : f.id = g.id => f = g

CallsAreNumbered ==
    \A f \in frames : /\ f.id <= expanded + 1
                      /\ f.by # 0 => \E g \in frames : g.id = f.by

EdgeOf(f) == <<Frame(f.by).agent, f.agent>>

\* While no edge is shared, each call has an edge of its own.
CallsHaveEdges ==
    ~shared => \A f \in frames : f.by # 0 =>
                   /\ EdgeOf(f) \in edges
                   /\ \A g \in frames : g.by # 0 /\ EdgeOf(g) = EdgeOf(f) => g = f

DelegInv ==
    /\ CallsTyped /\ OneCallEach /\ CallsAreNumbered /\ CallsHaveEdges /\ Acyclic(edges)

\* The frame of a number is the one call that has it.
FramesFound == \A f \in frames : Frame(f.id) = f

LEMMA NumbersFindFrames == OneCallEach => FramesFound
  BY DEF OneCallEach, FramesFound, Frame

LEMMA NumbersFindFramesAfter == OneCallEach' => FramesFound'
  BY NumbersFindFrames, PTL

\* A proposal that is admitted.
LEMMA ProposeKeepsCalls ==
    ASSUME DelegInv, NEW c \in frames, NEW t \in Agents, Propose(c, t)
    PROVE  DelegInv'
  <1> DEFINE s == c.agent
  <1>0. PICK new : new = [id |-> expanded + 2, by |-> c.id, agent |-> t, depth |-> c.depth + 1]
    OBVIOUS
  <1>1. /\ edges' = edges \union {<<s, t>>} /\ frames' = frames \union {new}
        /\ expanded' = expanded + 1 /\ expanded + 1 <= MaxNodes
        /\ s # t /\ s \notin Closure(edges, t)
        /\ shared' = (shared \/ <<s, t>> \in LiveEdges)
    BY <1>0 DEF Propose, Admits, would_cycle
  <1>2. /\ c.id \in Nat /\ c.id # 0 /\ c.depth \in Nat /\ s \in Agents
        /\ expanded \in Nat /\ MaxNodes \in Nat
        /\ \A f \in frames : f.id \in Nat /\ f.id <= expanded + 1 /\ f.by \in Nat /\ f.id # 0
    BY DelegationAssumption DEF DelegInv, CallsTyped, Call, CallsAreNumbered
  <1>3. new \in Call /\ new.id = expanded + 2 /\ new.by = c.id /\ new.agent = t
    BY <1>0, <1>2 DEF Call
  <1> HIDE DEF s
  <1>4. CallsTyped'
    BY <1>1, <1>2, <1>3 DEF DelegInv, CallsTyped
  <1>5. \A f \in frames : f.id # new.id
    BY <1>2, <1>3
  <1>6. OneCallEach'
    BY <1>1, <1>5 DEF DelegInv, OneCallEach
  <1>7. CallsAreNumbered'
    <2>1. \A f \in frames' : f.id <= expanded' + 1
      BY <1>1, <1>2, <1>3
    <2>2. \A f \in frames' : f.by # 0 => \E g \in frames' : g.id = f.by
      BY <1>1, <1>3 DEF DelegInv, CallsAreNumbered
    <2> QED
      BY <2>1, <2>2 DEF CallsAreNumbered
  <1>8. Acyclic(edges')
    BY <1>1, <1>2, CheckedEdgeKeepsAcyclic DEF DelegInv, CallsTyped
  <1>9. CallsHaveEdges'
    <2> SUFFICES ASSUME ~shared' PROVE
          \A f \in frames' : f.by # 0 =>
              /\ EdgeOf(f)' \in edges'
              /\ \A g \in frames' : g.by # 0 /\ EdgeOf(g)' = EdgeOf(f)' => g = f
      BY DEF CallsHaveEdges
    <2>1. FramesFound /\ FramesFound'
      BY <1>6, NumbersFindFrames, NumbersFindFramesAfter DEF DelegInv
    <2>2. \A f \in frames : f.by # 0 => EdgeOf(f)' = EdgeOf(f)
      <3> SUFFICES ASSUME NEW f \in frames, f.by # 0 PROVE EdgeOf(f)' = EdgeOf(f)
        OBVIOUS
      <3>1. PICK g \in frames : g.id = f.by
        BY DEF DelegInv, CallsAreNumbered
      <3>2. Frame(g.id) = g /\ Frame(g.id)' = g
        BY <1>1, <2>1 DEF FramesFound
      <3> QED
        BY <3>1, <3>2 DEF EdgeOf
    <2>3. EdgeOf(new)' = <<s, t>>
      <3>1. Frame(c.id)' = c
        BY <1>1, <2>1 DEF FramesFound
      <3> QED
        BY <1>3, <3>1 DEF EdgeOf, s
    <2>4. ~shared /\ <<s, t>> \notin LiveEdges
      BY <1>1
    <2>5. \A f \in frames : f.by # 0 => EdgeOf(f) # <<s, t>>
      BY <2>4 DEF LiveEdges, EdgeOf
    <2>6. \A f \in frames : f.by # 0 =>
              /\ EdgeOf(f) \in edges
              /\ \A g \in frames : g.by # 0 /\ EdgeOf(g) = EdgeOf(f) => g = f
      BY <2>4 DEF DelegInv, CallsHaveEdges
    <2> SUFFICES ASSUME NEW f \in frames', f.by # 0
                 PROVE  /\ EdgeOf(f)' \in edges'
                        /\ \A g \in frames' : g.by # 0 /\ EdgeOf(g)' = EdgeOf(f)' => g = f
      OBVIOUS
    <2>7. CASE f = new
      <3>1. \A g \in frames : g.by # 0 => EdgeOf(g)' # <<s, t>>
        BY <2>2, <2>5
      <3> QED
        BY <1>1, <2>3, <2>7, <3>1
    <2>8. CASE f \in frames
      <3>1. EdgeOf(f)' = EdgeOf(f) /\ EdgeOf(f) \in edges /\ EdgeOf(f) # <<s, t>>
        BY <2>2, <2>5, <2>6, <2>8
      <3>2. ASSUME NEW g \in frames', g.by # 0, EdgeOf(g)' = EdgeOf(f)' PROVE g = f
        <4>1. g \in frames
          BY <1>1, <2>3, <3>1, <3>2
        <4>2. EdgeOf(g) = EdgeOf(f)
          BY <2>2, <3>1, <3>2, <4>1
        <4> QED
          BY <2>6, <2>8, <3>2, <4>1, <4>2
      <3> QED
        BY <1>1, <3>1, <3>2
    <2> QED
      BY <1>1, <2>7, <2>8
  <1> QED
    BY <1>4, <1>6, <1>7, <1>8, <1>9 DEF DelegInv

\* A call ends: nobody it called is left, and only its own edge goes.
LEMMA ReturnKeepsCalls ==
    ASSUME DelegInv, NEW r \in frames, Return(r)
    PROVE  DelegInv'
  <1>1. /\ r.by # 0 /\ \A g \in frames : g.by # r.id
        /\ edges' = edges \ {EdgeOf(r)} /\ frames' = frames \ {r}
        /\ expanded' = expanded /\ shared' = shared
    BY DEF Return, EdgeOf
  <1>2. CallsTyped' /\ OneCallEach'
    BY <1>1 DEF DelegInv, CallsTyped, OneCallEach
  <1>3. CallsAreNumbered'
    <2>1. \A f \in frames' : f.by # 0 => \E g \in frames' : g.id = f.by
      BY <1>1 DEF DelegInv, CallsAreNumbered
    <2> QED
      BY <1>1, <2>1 DEF DelegInv, CallsAreNumbered
  <1>4. Acyclic(edges')
    <2>1. edges' \in SUBSET edges
      BY <1>1
    <2> QED
      BY <2>1, CutKeepsAcyclic DEF DelegInv, CallsTyped
  <1>5. CallsHaveEdges'
    <2>1. FramesFound /\ FramesFound'
      BY <1>2, NumbersFindFrames, NumbersFindFramesAfter DEF DelegInv
    <2>2. \A f \in frames' : f.by # 0 => EdgeOf(f)' = EdgeOf(f)
      <3> SUFFICES ASSUME NEW f \in frames', f.by # 0 PROVE EdgeOf(f)' = EdgeOf(f)
        OBVIOUS
      <3>1. PICK g \in frames' : g.id = f.by
        BY <1>3 DEF CallsAreNumbered
      <3>2. Frame(g.id) = g /\ Frame(g.id)' = g
        BY <1>1, <2>1 DEF FramesFound
      <3> QED
        BY <3>1, <3>2 DEF EdgeOf
    <2>3. ASSUME ~shared
          PROVE  \A f \in frames' : f.by # 0 =>
                   /\ EdgeOf(f) \in edges'
                   /\ \A g \in frames' : g.by # 0 /\ EdgeOf(g) = EdgeOf(f) => g = f
      BY <1>1, <2>3 DEF DelegInv, CallsHaveEdges
    <2> QED
      BY <1>1, <2>2, <2>3 DEF CallsHaveEdges
  <1> QED
    BY <1>2, <1>3, <1>4, <1>5 DEF DelegInv

\* The task starts with one call and no edge.
LEMMA DelegationInit == DelegInit => DelegInv
  <1> SUFFICES ASSUME DelegInit PROVE DelegInv
    OBVIOUS
  <1> DEFINE root == [id |-> 1, by |-> 0, agent |-> Root, depth |-> 0]
  <1>1. edges = {} /\ expanded = 0 /\ frames = {root}
    BY DEF DelegInit
  <1>2. root \in Call /\ root.by = 0 /\ root.id = 1
    BY DelegationAssumption DEF Call
  <1> HIDE DEF root
  <1>3. CallsTyped
    BY <1>1, <1>2, DelegationAssumption DEF CallsTyped
  <1>4. OneCallEach /\ CallsAreNumbered
    BY <1>1, <1>2 DEF OneCallEach, CallsAreNumbered
  <1>5. CallsHaveEdges /\ Acyclic(edges)
    BY <1>1, <1>2 DEF CallsHaveEdges, Acyclic
  <1> QED
    BY <1>3, <1>4, <1>5 DEF DelegInv

\* No step breaks it.
LEMMA DelegationNext == DelegInv /\ [DelegNext]_delegVars => DelegInv'
  <1> SUFFICES ASSUME DelegInv, [DelegNext]_delegVars PROVE DelegInv'
    OBVIOUS
  <1>1. CASE DelegNext
    BY <1>1, ProposeKeepsCalls, ReturnKeepsCalls DEF DelegNext
  <1>2. CASE UNCHANGED delegVars
    <2>1. UNCHANGED <<edges, expanded, frames, shared>>
      BY <1>2 DEF delegVars
    <2>2. CallsTyped' /\ OneCallEach' /\ CallsAreNumbered' /\ Acyclic(edges')
      BY <2>1 DEF DelegInv, CallsTyped, OneCallEach, CallsAreNumbered
    <2>3. CallsHaveEdges'
      BY <2>1 DEF DelegInv, CallsHaveEdges, EdgeOf, Frame
    <2> QED
      BY <2>2, <2>3 DEF DelegInv
  <1> QED
    BY <1>1, <1>2

\* Those a call's own agent does not reach: its caller is one of them, and so is
\* the caller of each of them.
LEMMA NobodyWaits == DelegInv => NoAgentWaitsOnItself
  <1> SUFFICES ASSUME DelegInv, ~shared, NEW f \in frames, f.by # 0
               PROVE  f.agent \notin Ancestors(f.by)
    BY DEF NoAgentWaitsOnItself, DelegInv, CallsTyped
  <1>1. FramesFound /\ edges \in SUBSET (Agents \X Agents) /\ f.agent \in Agents
        /\ \A g \in frames : g.agent \in Agents
    BY NumbersFindFrames DEF DelegInv, CallsTyped, Call
  <1> DEFINE R == Closure(edges, f.agent)
             S == {g \in frames : g.agent \notin R}
  <1>2. f.agent \in R /\ ClosedIn(edges, R)
    BY <1>1, ClosureIsLeast
  <1>3. ASSUME NEW g \in frames, g.by # 0
        PROVE  /\ Frame(g.by) \in frames
               /\ <<Frame(g.by).agent, g.agent>> \in edges
    <2>1. PICK h \in frames : h.id = g.by
      BY <1>3 DEF DelegInv, CallsAreNumbered
    <2> QED
      BY <1>1, <1>3, <2>1 DEF FramesFound, DelegInv, CallsHaveEdges, EdgeOf
  <1>4. Frame(f.by) \in S
    <2>1. Frame(f.by).agent \notin R
      BY <1>3 DEF DelegInv, Acyclic
    <2> QED
      BY <1>3, <2>1
  <1> HIDE DEF R
  <1>5. \A g \in S : g.by # 0 => Frame(g.by) \in S
    BY <1>2, <1>3 DEF ClosedIn
  <1>6. \A g \in S : g.agent # f.agent
    BY <1>2
  <1>7. S \in SUBSET frames
    OBVIOUS
  <1> HIDE DEF S
  <1> QED
    BY <1>4, <1>5, <1>6, <1>7 DEF Ancestors

\* For any number of agents, any depth and any budget of nodes: the check of
\* would_cycle before each delegation, and the release of each edge when the callee
\* returns, keep every agent out of the calls it waits for.
THEOREM NobodyWaitsOnItself == DelegSpec => []NoAgentWaitsOnItself
  BY DelegationInit, DelegationNext, NobodyWaits, PTL DEF DelegSpec
=============================================================================
