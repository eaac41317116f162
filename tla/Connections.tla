---------------------------- MODULE Connections ----------------------------
(* Database (SQLite): one write connection behind an asyncio.Lock, a pool  *)
(* of read connections, and close().  Tasks of one process interleave at   *)
(* every await.  A connection that fails to roll back is replaced.         *)
EXTENDS Integers, Sequences

CONSTANTS
    Writers,     \* tasks that run one transaction, or a VACUUM
    Readers,     \* tasks that read
    PoolSize,    \* read_pool_size
    MaxConns,    \* bound: write connections opened
    MaxErrors    \* bound: statements that fail

ASSUME ConnectionsAssumption ==
    PoolSize \in Nat \ {0} /\ MaxConns \in Nat \ {0} /\ MaxErrors \in Nat

VARIABLES
    write_conn, \* the id of _write_conn, 0 for None
    conns,      \* [1..MaxConns -> "unopened", "open", "closed"]
    tx,         \* [1..MaxConns -> the writer whose transaction it has open]
    write_lock, \* the holder, then the waiters in turn
    task,       \* [Writers -> [pc, on, op]]
    committed,  \* history: the writers whose writes are in the database
    pool,       \* connections in _read_pool; -1 once it is None
    reading,    \* [Readers -> "idle", "waiting", "reading", "ended"]
    shutdown,   \* how far close() has come
    errors

connVars == <<write_conn, conns, tx, write_lock, task, committed, pool, reading,
              shutdown, errors>>

Nobody == "nobody"

Busy(c) == conns[c] = "open" /\ tx[c] # Nobody

SetTask(w, pc) == task' = [task EXCEPT ![w].pc = pc]

\* The lock is released however the block is left.
EndTask(w, how) ==
    /\ SetTask(w, how)
    /\ write_lock' = Tail(write_lock)

Fault == errors < MaxErrors /\ errors' = errors + 1

others == <<pool, reading, shutdown>>

-----------------------------------------------------------------------------
\* transaction() queues for the lock; vacuum() picks its connection up first.
Enter(w) ==
    /\ task[w].pc = "idle"
    /\ IF task[w].op = "vacuum" /\ write_conn = 0
       THEN SetTask(w, "error") /\ UNCHANGED write_lock
       ELSE /\ task' = [task EXCEPT ![w].pc = "waiting", ![w].on = write_conn]
            /\ write_lock' = Append(write_lock, w)
    /\ UNCHANGED <<write_conn, conns, tx, committed, errors, others>>

\* The connection is asked for inside the lock: it may have been replaced.
Acquire(w) ==
    /\ task[w].pc = "waiting" /\ Head(write_lock) = w
    /\ CASE task[w].op = "vacuum" ->
              task' = [task EXCEPT ![w].pc = "vacuum"] /\ UNCHANGED write_lock
         [] task[w].op = "write" /\ write_conn = 0 -> EndTask(w, "error")
         [] task[w].op = "write" /\ write_conn # 0 ->
              /\ task' = [task EXCEPT ![w].pc = "begin", ![w].on = write_conn]
              /\ UNCHANGED write_lock
    /\ UNCHANGED <<write_conn, conns, tx, committed, errors, others>>

Vacuum(w) ==
    /\ task[w].pc = "vacuum"
    /\ \/ conns[task[w].on] = "open" /\ UNCHANGED errors /\ EndTask(w, "ok")
       \/ conns[task[w].on] = "closed" /\ UNCHANGED errors /\ EndTask(w, "error")
       \/ conns[task[w].on] = "open" /\ Fault /\ EndTask(w, "error")
    /\ UNCHANGED <<write_conn, conns, tx, committed, others>>

\* BEGIN IMMEDIATE: an error of the connection, of another process, or of a
\* transaction that is still open somewhere, ends the call.
Begin(w) ==
    LET c == task[w].on IN
    /\ task[w].pc = "begin"
    /\ \/ /\ conns[c] = "open" /\ ~\E d \in 1..MaxConns : Busy(d)
          /\ tx' = [tx EXCEPT ![c] = w]
          /\ SetTask(w, "body")
          /\ UNCHANGED <<write_lock, errors>>
       \/ /\ conns[c] = "closed" \/ \E d \in 1..MaxConns : Busy(d)
          /\ EndTask(w, "error")
          /\ UNCHANGED <<tx, errors>>
       \/ Fault /\ EndTask(w, "error") /\ UNCHANGED tx
    /\ UNCHANGED <<write_conn, conns, committed, others>>

AfterBody(raised) == IF raised THEN "rollback" ELSE "commit"

\* The block raises, or is cancelled, or its connection is gone; or it ends.
Body(w) ==
    /\ task[w].pc = "body"
    /\ \E raised \in BOOLEAN :
         /\ conns[task[w].on] = "closed" => raised
         /\ task' = [task EXCEPT ![w].pc = AfterBody(raised), ![w].raised = raised]
    /\ UNCHANGED <<write_conn, conns, tx, write_lock, committed, errors, others>>

\* COMMIT.  A failed one is rolled back; one on a closed connection is not a
\* sqlite3.Error and leaves at once.
Commit(w) ==
    LET c == task[w].on IN
    /\ task[w].pc = "commit"
    /\ \/ /\ conns[c] = "open"
          /\ tx' = [tx EXCEPT ![c] = Nobody]
          /\ committed' = committed \union {w}
          /\ EndTask(w, IF task[w].raised THEN "error" ELSE "ok")
          /\ UNCHANGED errors
       \/ /\ conns[c] = "closed" /\ EndTask(w, "error")
          /\ UNCHANGED <<tx, committed, errors>>
       \/ /\ conns[c] = "open" /\ Fault /\ SetTask(w, "rollback")
          /\ UNCHANGED <<tx, committed, write_lock>>
    /\ UNCHANGED <<write_conn, conns, others>>

WhenRollbackFails_Ignore(w) == EndTask(w, "error")

WhenRollbackFails(w) == SetTask(w, "replace") /\ UNCHANGED write_lock

Rollback(w) ==
    LET c == task[w].on IN
    /\ task[w].pc = "rollback"
    /\ \/ /\ conns[c] = "open"
          /\ tx' = [tx EXCEPT ![c] = Nobody]
          /\ EndTask(w, "error") /\ UNCHANGED errors
       \/ /\ conns[c] = "closed" /\ WhenRollbackFails(w) /\ UNCHANGED <<tx, errors>>
       \/ /\ conns[c] = "open" /\ Fault /\ WhenRollbackFails(w) /\ UNCHANGED tx
    /\ UNCHANGED <<write_conn, conns, committed, others>>

Unopened == {c \in 1..MaxConns : conns[c] = "unopened"}

\* _replace_write_connection, up to the await of the new connection: nothing to
\* do if it was replaced already, None if it cannot be opened.
ReplaceOpen(w) ==
    /\ task[w].pc = "replace"
    /\ \/ /\ write_conn # task[w].on
          /\ EndTask(w, "error") /\ UNCHANGED <<write_conn, conns, errors>>
       \/ /\ write_conn = task[w].on
          /\ \E c \in Unopened :
               /\ \A d \in Unopened : c <= d
               /\ conns' = [conns EXCEPT ![c] = "open"]
               /\ task' = [task EXCEPT ![w].pc = "swap", ![w].fresh = c]
          /\ UNCHANGED <<write_conn, write_lock, errors>>
       \/ /\ write_conn = task[w].on
          /\ Fault /\ write_conn' = 0
          /\ EndTask(w, "error") /\ UNCHANGED conns
    /\ UNCHANGED <<tx, committed, others>>

\* The stale connection is closed, then the new one takes its place.
ReplaceSwap(w) ==
    /\ task[w].pc = "swap"
    /\ conns' = [conns EXCEPT ![task[w].on] = "closed"]
    /\ tx' = [tx EXCEPT ![task[w].on] = Nobody]
    /\ write_conn' = task[w].fresh
    /\ EndTask(w, "error")
    /\ UNCHANGED <<committed, errors, others>>

-----------------------------------------------------------------------------
SetReader(r, pc) == reading' = [reading EXCEPT ![r] = pc]

\* _reader(): the queue hands out a connection or makes the reader wait.
ReadEnter(r) ==
    /\ reading[r] = "idle"
    /\ SetReader(r, IF pool = -1 THEN "ended" ELSE "waiting")
    /\ UNCHANGED <<write_conn, conns, tx, write_lock, task, committed, pool, shutdown, errors>>

ReadGet(r) ==
    /\ reading[r] = "waiting" /\ pool > 0
    /\ pool' = pool - 1
    /\ SetReader(r, "reading")
    /\ UNCHANGED <<write_conn, conns, tx, write_lock, task, committed, shutdown, errors>>

Returned_OnSuccess(raised) == IF raised THEN 0 ELSE 1

\* The finally: the connection goes back whatever the query did.
Returned(raised) == 1

\* Putting it back after close() is an AttributeError.
ReadEnd(r) ==
    /\ reading[r] = "reading"
    /\ \E raised \in BOOLEAN : pool' = IF pool = -1 THEN -1 ELSE pool + Returned(raised)
    /\ SetReader(r, "ended")
    /\ UNCHANGED <<write_conn, conns, tx, write_lock, task, committed, shutdown, errors>>

\* close(): the readers, then the write connection, then its name.  It takes
\* no lock, so a transaction may be under way.
CloseReads ==
    /\ shutdown = "no"
    /\ shutdown' = "write" /\ pool' = -1
    /\ UNCHANGED <<write_conn, conns, tx, write_lock, task, committed, reading, errors>>

CloseWrite ==
    /\ shutdown = "write"
    /\ shutdown' = "forget"
    /\ conns' = IF write_conn = 0 THEN conns ELSE [conns EXCEPT ![write_conn] = "closed"]
    /\ tx' = IF write_conn = 0 THEN tx ELSE [tx EXCEPT ![write_conn] = Nobody]
    /\ UNCHANGED <<write_conn, write_lock, task, committed, pool, reading, errors>>

CloseForget ==
    /\ shutdown = "forget"
    /\ shutdown' = "closed" /\ write_conn' = 0
    /\ UNCHANGED <<conns, tx, write_lock, task, committed, pool, reading, errors>>

ConnInit ==
    /\ write_conn = 1
    /\ conns = [c \in 1..MaxConns |-> IF c = 1 THEN "open" ELSE "unopened"]
    /\ tx = [c \in 1..MaxConns |-> Nobody]
    /\ write_lock = <<>> /\ committed = {} /\ errors = 0
    /\ task \in [Writers -> [pc : {"idle"}, on : {0}, fresh : {0}, raised : {FALSE},
                             op : {"write", "vacuum"}]]
    /\ pool = PoolSize
    /\ reading = [r \in Readers |-> "idle"]
    /\ shutdown = "no"

WriterStep(w) ==
    \/ Enter(w) \/ Acquire(w) \/ Vacuum(w) \/ Begin(w) \/ Body(w) \/ Commit(w)
    \/ Rollback(w) \/ ReplaceOpen(w) \/ ReplaceSwap(w)

ReaderStep(r) == ReadEnter(r) \/ ReadGet(r) \/ ReadEnd(r)

ConnNext ==
    \/ \E w \in Writers : WriterStep(w)
    \/ \E r \in Readers : ReaderStep(r)
    \/ CloseReads \/ CloseWrite \/ CloseForget

-----------------------------------------------------------------------------
\* No writer inherits a transaction: whoever has the lock and is about to begin
\* finds no transaction open on any connection, however the last writer failed.
NoInheritedTransaction ==
    \A w \in Writers : task[w].pc = "begin" => \A c \in 1..MaxConns : ~Busy(c)

\* A transaction that was reported done is in the database, and one whose
\* caller saw an error is not.
CommittedExactly ==
    \A w \in Writers : task[w].op = "write" =>
        /\ task[w].pc = "ok" => w \in committed
        /\ task[w].pc = "error" => w \notin committed

\* Every writer that has begun ends, even when the database is closed under it;
\* every reader does while the database is open.  Ends are final.
CallsEnd ==
    []<>(/\ \A w \in Writers : task[w].pc \in {"idle", "ok", "error"}
         /\ \A r \in Readers : reading[r] \in {"idle", "ended"} \/ shutdown # "no")

\* Whatever fails while a writer holds the connection, what is in the database
\* is what its caller was told, and the next writer starts outside it.
TransactionsSound == NoInheritedTransaction /\ CommittedExactly
=============================================================================
