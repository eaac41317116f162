---------------------------- MODULE LedgerStore ----------------------------
(***************************************************************************)
(* The append path of src/paa/ledger/store.py, one step per statement that *)
(* another connection can be interleaved with: take the lineage lock, look *)
(* the key up, read the chain tip, insert, update the head and commit.     *)
(* Reads see committed rows; an insert that conflicts with a row of an     *)
(* open transaction waits for that transaction, as the unique indexes of   *)
(* both substrates do.                                                     *)
(***************************************************************************)
EXTENDS Naturals, Sequences, FiniteSets

CONSTANTS Writers,       \* coroutines and processes that call append
          Correlations,  \* task lineages
          EventTypes,    \* core/types.py: EventType
          TerminalTypes, \* core/types.py: TERMINAL_EVENTS
          Discriminators,
          Payloads,
          Requests,      \* the events writers may append
          Locks,         \* what transactions are serialised on
          LockOf,        \* SQLite: one lock; PostgreSQL: hashtext(correlation)
          Serialised     \* the lineages whose writers take the lock

Event == [corr : Correlations, type : EventTypes, attempt : Nat,
          disc : Discriminators, payload : Payloads]

ASSUME ConstantsAssumption ==
    /\ Requests \subseteq Event
    /\ TerminalTypes \subseteq EventTypes
    /\ LockOf \in [Correlations -> Locks]
    /\ Serialised \subseteq Correlations

VARIABLES rows,    \* committed rows of system_state_ledger
          head,    \* committed rows of system_state_correlation_head
          pc,      \* where each writer is in append
          req,     \* the event each writer is appending
          tip,     \* what _chain_tip returned to it
          outcome, \* how its last append ended
          result   \* the event its last append returned, as a set of rows

vars == <<rows, head, pc, req, tip, outcome, result>>

-----------------------------------------------------------------------------
(* Digests.  A hash is the whole material it was computed over, so two     *)
(* hashes are equal only when everything they cover is.                    *)

GENESIS_HASH == <<>>

HashBody == [corr : Correlations, type : EventTypes, version : Nat,
             payload : Payloads]
Hash == Seq(HashBody)

compute_event_digest(prev, e, version) ==
    Append(prev, [corr |-> e.corr, type |-> e.type, version |-> version,
                  payload |-> e.payload])

IdempotencyKey(e) == <<e.corr, e.type, e.attempt, e.disc>>

Row == [event : Event, version : Nat, prev : Hash, hash : Hash]

sealed(e, version, prev) ==
    [event |-> e, version |-> version, prev |-> prev,
     hash |-> compute_event_digest(prev, e, version)]

-----------------------------------------------------------------------------
(* Reads of committed state.                                               *)

Lineage(c) == {r \in rows : r.event.corr = c}

FindByKey(e) == {r \in rows : IdempotencyKey(r.event) = IdempotencyKey(e)}

NoTip == [version |-> 0, hash |-> GENESIS_HASH]

Newest(S) == CHOOSE r \in S : \A q \in S : q.version <= r.version

ChainTip(c) ==
    IF Lineage(c) = {} THEN NoTip
    ELSE [version |-> Newest(Lineage(c)).version, hash |-> Newest(Lineage(c)).hash]

(* The row a writer between its insert and its commit has inserted.        *)
Sealed(w) == sealed(req[w], tip[w].version + 1, tip[w].hash)

InTransaction(w) == pc[w] # "idle"

(* The writer's lineage is one whose writers call lock_correlation.        *)
Locked(w) == req[w].corr \in Serialised

Conflicts(r, q) ==
    \/ IdempotencyKey(r.event) = IdempotencyKey(q.event)
    \/ r.event.corr = q.event.corr /\ r.version = q.version

-----------------------------------------------------------------------------
NoHead == [version |-> 0, type |-> "none", hash |-> GENESIS_HASH,
           is_terminal |-> FALSE]

Init ==
    /\ rows = {}
    /\ head = [c \in Correlations |-> NoHead]
    /\ pc = [w \in Writers |-> "idle"]
    /\ req \in [Writers -> Requests]
    /\ tip = [w \in Writers |-> NoTip]
    /\ outcome = [w \in Writers |-> "none"]
    /\ result = [w \in Writers |-> {}]

(* BEGIN, then lock_correlation: wait for the lineage's lock.              *)
BeginAppend(w) ==
    /\ pc[w] = "idle"
    /\ \E e \in Requests :
        /\ e.corr \in Serialised =>
             \A v \in Writers : InTransaction(v) /\ Locked(v) =>
                LockOf[req[v].corr] # LockOf[e.corr]
        /\ req' = [req EXCEPT ![w] = e]
    /\ pc' = [pc EXCEPT ![w] = "find"]
    /\ outcome' = [outcome EXCEPT ![w] = "none"]
    /\ result' = [result EXCEPT ![w] = {}]
    /\ UNCHANGED <<rows, head, tip>>

Return(w, how, found) ==
    /\ pc' = [pc EXCEPT ![w] = "idle"]
    /\ outcome' = [outcome EXCEPT ![w] = how]
    /\ result' = [result EXCEPT ![w] = found]

(* A key that is already recorded ends the append with the recorded event. *)
FindExisting(w) ==
    /\ pc[w] = "find"
    /\ \/ /\ FindByKey(req[w]) # {}
          /\ Return(w, "existing", FindByKey(req[w]))
       \/ /\ FindByKey(req[w]) = {}
          /\ pc' = [pc EXCEPT ![w] = "tip"]
          /\ UNCHANGED <<outcome, result>>
    /\ UNCHANGED <<rows, head, req, tip>>

ReadTip(w) ==
    /\ pc[w] = "tip"
    /\ tip' = [tip EXCEPT ![w] = ChainTip(req[w].corr)]
    /\ pc' = [pc EXCEPT ![w] = "insert"]
    /\ UNCHANGED <<rows, head, req, outcome, result>>

InsertConflict(w) == \E r \in rows : Conflicts(Sealed(w), r)

(* Mutant: an insert waits for every other writer that is inserting.       *)
Insert_WaitsForAll(w) ==
    /\ pc[w] = "insert"
    /\ \A v \in Writers \ {w} : pc[v] \notin {"insert", "commit"}
    /\ pc' = [pc EXCEPT ![w] = IF InsertConflict(w) THEN "recheck" ELSE "commit"]
    /\ UNCHANGED <<rows, head, req, tip, outcome, result>>

Insert(w) ==
    /\ pc[w] = "insert"
    /\ \A v \in Writers \ {w} : pc[v] = "commit" => ~Conflicts(Sealed(w), Sealed(v))
    /\ pc' = [pc EXCEPT ![w] = IF InsertConflict(w) THEN "recheck" ELSE "commit"]
    /\ UNCHANGED <<rows, head, req, tip, outcome, result>>

(* UniqueViolation: back to the savepoint and read the key again.  Nothing *)
(* there means the other constraint fired, and LedgerError is raised.      *)
Recheck(w) ==
    /\ pc[w] = "recheck"
    /\ IF FindByKey(req[w]) # {}
         THEN Return(w, "existing", FindByKey(req[w]))
         ELSE Return(w, "conflict", {})
    /\ UNCHANGED <<rows, head, req, tip>>

HeadOf(r) ==
    [version |-> r.version, type |-> r.event.type, hash |-> r.hash,
     is_terminal |-> r.event.type \in TerminalTypes]

(* Mutant: _update_head is left out.                                       *)
CommitRow_NoHead(w) ==
    /\ pc[w] = "commit"
    /\ rows' = rows \cup {Sealed(w)}
    /\ UNCHANGED <<head, req, tip>>

CommitRow(w) ==
    /\ pc[w] = "commit"
    /\ rows' = rows \cup {Sealed(w)}
    /\ head' = [head EXCEPT ![req[w].corr] = HeadOf(Sealed(w))]
    /\ UNCHANGED <<req, tip>>

(* _update_head and COMMIT: row and head become visible together.          *)
Commit(w) == CommitRow(w) /\ Return(w, "appended", {Sealed(w)})

(* The commit is durable but the process dies before append returns.       *)
CommitThenCrash(w) == CommitRow(w) /\ Return(w, "failed", {})

(* Mutant: the insert commits by itself, outside the transaction.          *)
Rollback_KeepsRow(w) ==
    /\ InTransaction(w)
    /\ Return(w, "failed", {})
    /\ rows' = IF pc[w] = "commit" THEN rows \cup {Sealed(w)} ELSE rows
    /\ UNCHANGED <<head, req, tip>>

(* An exception, a cancellation or a process death: the transaction rolls  *)
(* back and nothing of it is ever visible.                                 *)
Rollback(w) ==
    /\ InTransaction(w)
    /\ Return(w, "failed", {})
    /\ UNCHANGED <<rows, head, req, tip>>

Step(w) ==
    \/ FindExisting(w) \/ ReadTip(w) \/ Insert(w) \/ Recheck(w) \/ Commit(w)

Next ==
    \E w \in Writers :
        BeginAppend(w) \/ Step(w) \/ CommitThenCrash(w) \/ Rollback(w)

(* A writer inside append keeps executing: nothing but the lock or an      *)
(* index wait holds it.  Whether anyone starts an append is the caller's.  *)
Fairness == \A w \in Writers : WF_vars(Step(w))

Spec == Init /\ [][Next]_vars

FairSpec == Spec /\ Fairness

-----------------------------------------------------------------------------
(* verify_chain: walk the lineage in version order; every row must carry a *)
(* digest that recomputes, the digest of the row before it (genesis for    *)
(* the first) and the version after that row's.                            *)
Before(r) == {q \in Lineage(r.event.corr) : q.version < r.version}

ExpectedPrev(r) == IF Before(r) = {} THEN GENESIS_HASH ELSE Newest(Before(r)).hash

ExpectedVersion(r) == IF Before(r) = {} THEN 1 ELSE Newest(Before(r)).version + 1

verify_chain(c) ==
    {r \in Lineage(c) :
        \/ r.hash # compute_event_digest(r.prev, r.event, r.version)
        \/ r.prev # ExpectedPrev(r)
        \/ r.version # ExpectedVersion(r)}

(* open_correlations: the heads the boot sweep will look at.               *)
open_correlations ==
    {c \in Correlations : head[c].version > 0 /\ ~head[c].is_terminal}

-----------------------------------------------------------------------------
PCs == {"idle", "find", "tip", "insert", "recheck", "commit"}
Outcomes == {"none", "appended", "existing", "conflict", "failed"}
Tip == [version : Nat, hash : Hash]

(* Every variable holds a value of the column or local it stands for.      *)
TypeOK ==
    /\ rows \subseteq Row
    /\ head \in [Correlations -> [version : Nat, type : EventTypes \cup {"none"},
                                  hash : Hash, is_terminal : BOOLEAN]]
    /\ pc \in [Writers -> PCs]
    /\ req \in [Writers -> Requests]
    /\ tip \in [Writers -> Tip]
    /\ outcome \in [Writers -> Outcomes]
    /\ result \in [Writers -> SUBSET Row]

(* Two committed rows never share an idempotency key: however redeliveries *)
(* interleave, one logical event is recorded once.                         *)
RecordedOnce ==
    \A r, q \in rows : IdempotencyKey(r.event) = IdempotencyKey(q.event) => r = q

(* verify_chain finds nothing to report about any lineage in any committed *)
(* state, so the boot sweep's integrity alarm never fires on honest        *)
(* writers, their crashes included.                                        *)
ChainsVerify == \A c \in Correlations : verify_chain(c) = {}

(* The head row of a lineage describes exactly its newest ledger row: a    *)
(* crash can never leave the head behind the ledger.                       *)
HeadIsNewest ==
    \A c \in Correlations :
        IF Lineage(c) = {} THEN head[c] = NoHead
        ELSE \E r \in Lineage(c) :
                /\ \A q \in Lineage(c) : q.version <= r.version
                /\ head[c] = HeadOf(r)

(* What append returned to a caller is in the ledger and answers to the    *)
(* key the caller asked for, whether it was new or a suppressed duplicate. *)
ReturnedIsRecorded ==
    \A w \in Writers :
        outcome[w] \in {"appended", "existing"} =>
            /\ result[w] # {}
            /\ result[w] \subseteq FindByKey(req[w])

(* With the lineage lock held across the tip read and the insert, no       *)
(* append ever fails with the state_version collision of LedgerError.      *)
LockPreventsConflict ==
    \A w \in Writers : Locked(w) => outcome[w] # "conflict"

(* The ledger can be trusted as evidence: one logical event is one row,    *)
(* every chain verifies, the head that the boot sweep reads is current,    *)
(* what an append returned is on record, and with the lineage lock no      *)
(* append is lost to a version collision.                                  *)
LedgerSound ==
    /\ RecordedOnce /\ ChainsVerify /\ HeadIsNewest
    /\ ReturnedIsRecorded /\ LockPreventsConflict

(* Every append under the lineage lock ends: no index wait holds it, since *)
(* nobody else has a row of its lineage open.                              *)
AppendsFinish == \A w \in Writers : []<>~(InTransaction(w) /\ Locked(w))

(* The committed events of a lineage in version order.                     *)
EventAt(c, v) == (CHOOSE r \in Lineage(c) : r.version = v).event
LogOf(c) == [v \in 1 .. head[c].version |-> EventAt(c, v)]

Abstract == INSTANCE Ledger WITH log <- [c \in Correlations |-> LogOf(c)]

(* The multi-step append implements the atomic, duplicate-free append of   *)
(* module Ledger: every step is one recorded event or invisible.           *)
ImplementsLedger == Abstract!Spec

-----------------------------------------------------------------------------
(* The inductive invariant behind the theorems of LedgerStoreProofs.       *)

(* unique (correlation_id, state_version): one row per version.            *)
VersionsUnique ==
    \A r, q \in rows : r.event.corr = q.event.corr /\ r.version = q.version => r = q

(* Versions start at 1 and leave no gap.                                   *)
Dense ==
    \A r \in rows :
        /\ r.version >= 1
        /\ \A v \in 1 .. r.version : \E q \in Lineage(r.event.corr) : q.version = v

(* Each row's digest recomputes and links to the row one version earlier.  *)
Linked ==
    \A r \in rows :
        /\ r.hash = compute_event_digest(r.prev, r.event, r.version)
        /\ r.version = 1 => r.prev = GENESIS_HASH
        /\ r.version > 1 =>
             \E q \in Lineage(r.event.corr) : q.version = r.version - 1 /\ q.hash = r.prev

(* A tip that was read is the start of the chain or a row of the lineage,  *)
(* stale perhaps but never invented.                                       *)
TipsRecorded ==
    \A w \in Writers : pc[w] \in {"insert", "recheck", "commit"} =>
        \/ tip[w] = NoTip
        \/ \E q \in Lineage(req[w].corr) : tip[w] = [version |-> q.version, hash |-> q.hash]

(* Rows inserted but not committed collide with nothing.                   *)
PendingDistinct ==
    \A w \in Writers : pc[w] = "commit" =>
        /\ \A r \in rows : ~Conflicts(Sealed(w), r)
        /\ \A v \in Writers \ {w} : pc[v] = "commit" => ~Conflicts(Sealed(w), Sealed(v))

(* The lineage lock is exclusive, and what its holder has read is current. *)
LockHeld ==
    /\ \A w, v \in Writers :
          /\ w # v /\ InTransaction(w) /\ InTransaction(v)
          /\ Locked(w) /\ Locked(v)
          => LockOf[req[w].corr] # LockOf[req[v].corr]
    /\ \A w \in Writers : Locked(w) =>
          /\ pc[w] # "recheck"
          /\ pc[w] \in {"tip", "insert", "commit"} => FindByKey(req[w]) = {}
          /\ pc[w] \in {"insert", "commit"} =>
               \A r \in Lineage(req[w].corr) : r.version <= tip[w].version

IndInv ==
    /\ TypeOK
    /\ HeadIsNewest /\ RecordedOnce /\ VersionsUnique /\ Dense /\ Linked
    /\ TipsRecorded /\ PendingDistinct
    /\ ReturnedIsRecorded
    /\ LockHeld /\ LockPreventsConflict
=============================================================================
