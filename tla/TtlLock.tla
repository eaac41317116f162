------------------------------ MODULE TtlLock ------------------------------
(***************************************************************************)
(* One key of the advisory lock: acquire, refresh and release, used        *)
(* through hold or directly.  On SQLite a caller reads its clock before it *)
(* queues for the write lock, so the time its statement is run with may be *)
(* old; on Redis the server's clock is read by the script itself.          *)
(***************************************************************************)
EXTENDS Naturals

CONSTANTS
    Holders,   \* holder strings, one per process
    LockTtl,
    LastTick   \* bound: ticks of the clock

ASSUME LockAssumption == LockTtl \in Nat \ {0} /\ LastTick \in Nat

VARIABLES
    server,  \* the substrate: "sqlite" or "redis"
    lease,   \* the row or key: [holder, until]
    now,
    party    \* [Holders -> [pc, read: its clock reading, until: the lease it was told it has]]

lockVars == <<server, lease, now, party>>

Vacant == [holder |-> "vacant", until |-> 0]
Outside == [pc |-> "out", read |-> 0, until |-> 0]

\* The time a statement is evaluated with.
Reading(h) == IF server = "sqlite" THEN party[h].read ELSE now

ReadClock(h, next) ==
    /\ party' = [party EXCEPT ![h].pc = next, ![h].read = now]
    /\ UNCHANGED <<server, lease, now>>

\* What a statement may find in the table: SQLite keeps a lapsed row, Redis not.
Found2 == IF server = "redis" /\ lease.until <= now THEN Vacant ELSE lease

\* The upsert's WHERE, or SET NX and the comparison after it.
Takes(h) ==
    \/ Found2 = Vacant
    \/ Found2.until <= Reading(h)
    \/ Found2.holder = h

WantAcquire(h) == party[h].pc = "out" /\ ReadClock(h, "acquire")

Acquire(h) ==
    /\ party[h].pc = "acquire"
    /\ LET mine == [holder |-> h, until |-> Reading(h) + LockTtl] IN
       IF Takes(h)
       THEN /\ lease' = mine
            /\ party' = [party EXCEPT ![h] = [pc |-> "in", read |-> 0, until |-> mine.until]]
       ELSE lease' = Found2 /\ party' = [party EXCEPT ![h] = Outside]
    /\ UNCHANGED <<server, now>>

WantRefresh(h) == party[h].pc = "in" /\ ReadClock(h, "refresh")

\* Never resurrects a lapsed lease; its holder is told and leaves.
Refresh(h) ==
    /\ party[h].pc = "refresh"
    /\ IF Found2.holder = h /\ Found2.until > Reading(h)
       THEN /\ lease' = [Found2 EXCEPT !.until = Reading(h) + LockTtl]
            /\ party' = [party EXCEPT ![h] = [pc |-> "in", read |-> 0, until |-> Reading(h) + LockTtl]]
       ELSE lease' = Found2 /\ party' = [party EXCEPT ![h].pc = "in"]
    /\ UNCHANGED <<server, now>>

Release_Any(h) ==
    /\ party[h].pc = "in" /\ lease' = Vacant
    /\ party' = [party EXCEPT ![h] = Outside] /\ UNCHANGED <<server, now>>

\* The end of hold, or an explicit release: only what this holder still owns.
Release(h) ==
    /\ party[h].pc = "in"
    /\ lease' = IF Found2.holder = h THEN Vacant ELSE Found2
    /\ party' = [party EXCEPT ![h] = Outside]
    /\ UNCHANGED <<server, now>>

\* The holder's process dies; only time frees its lease.
HolderDies(h) ==
    /\ party[h].pc \in {"in", "refresh", "acquire"}
    /\ party' = [party EXCEPT ![h] = Outside]
    /\ UNCHANGED <<server, lease, now>>

Tick == now < LastTick /\ now' = now + 1 /\ UNCHANGED <<server, lease, party>>

LockInit ==
    /\ server \in {"sqlite", "redis"}
    /\ lease = Vacant /\ now = 0
    /\ party = [h \in Holders |-> Outside]

LockNext ==
    \/ Tick
    \/ \E h \in Holders :
         \/ WantAcquire(h) \/ Acquire(h) \/ WantRefresh(h) \/ Refresh(h)
         \/ Release(h) \/ HolderDies(h)

-----------------------------------------------------------------------------
\* Of two parties inside the lock, at most one has a lease that has not run
\* out, and it is the one the table names: however clock readings go stale
\* before a statement runs, a late release or refresh by a party that overran
\* its lease cannot take the lock from its successor.
LeaseIsExclusive ==
    /\ \A g, h \in Holders :
         party[g].until > now /\ party[h].until > now => g = h
    /\ \A h \in Holders :
         party[h].until > now /\ party[h].pc = "in" => lease = [holder |-> h, until |-> party[h].until]
=============================================================================
