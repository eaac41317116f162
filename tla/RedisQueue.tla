----------------------------- MODULE RedisQueue -----------------------------
(***************************************************************************)
(* One stream of the Redis backend.  A queue operation is a chain of       *)
(* commands, each atomic on the server, and a client may die between any   *)
(* two of them.  The server's part is external: XADD, XREADGROUP,          *)
(* XAUTOCLAIM, XACK and XDEL on entries, ZADD and ZREM on the delayed set. *)
(*                                                                         *)
(* An entry's idle flag says that it has been pending for longer than the  *)
(* visibility timeout; the due flag of a delayed one, that its time came.  *)
(***************************************************************************)
EXTENDS Naturals, FiniteSets

CONSTANTS
    Jobs,        \* messages a producer enqueues
    Clients,     \* consumer processes
    JobAttempts, \* max_attempts of a message
    Ceiling,     \* max_delivery_attempts, for what is never settled
    MaxDeaths    \* bound: client crashes

ASSUME RedisAssumption ==
    /\ JobAttempts \in Nat \ {0} /\ Ceiling \in Nat \ {0} /\ MaxDeaths \in Nat
    /\ "none" \notin Jobs

VARIABLES
    entries,   \* the stream: records [id, job, attempts, times, owner, idle]
    delayed,   \* the sorted set: records [id, due]
    bodies,    \* the hash: records [id, job, attempts]
    buried,    \* the dead stream: records [id, job]
    finished,  \* jobs an ack removed
    client,    \* [Clients -> the command a client is about to issue]
    ids,       \* ids handed out so far
    deaths,
    disturbed  \* ghost: two clients were at one entry, or one died between the
               \* commands with which an operation changes something

redisVars == <<entries, delayed, bodies, buried, finished, client, ids, deaths, disturbed>>

Nobody == "nobody"
Resting == [pc |-> "rest", entry |-> 0, job |-> "none", attempts |-> 0, due |-> {}]

At(c, pc) == client[c].pc = pc
Then(c, pc) == client' = [client EXCEPT ![c].pc = pc]

Entry(id) == CHOOSE e \in entries : e.id = id
Exists(id) == \E e \in entries : e.id = id
Without(id) == {e \in entries : e.id # id}
Pending(e) == e.owner # Nobody

NewEntry(job, attempts) ==
    [id |-> ids + 1, job |-> job, attempts |-> attempts, times |-> 0, owner |-> Nobody, idle |-> FALSE]

-----------------------------------------------------------------------------
(* enqueue; a delayed message waits in the side table *)

XAddNew(j) ==
    /\ \A e \in entries \union bodies \union buried : e.job # j
    /\ j \notin finished /\ \A c \in Clients : client[c].job # j
    /\ ids' = ids + 1
    /\ \/ /\ entries' = entries \union {NewEntry(j, 0)} /\ UNCHANGED <<delayed, bodies>>
       \/ /\ bodies' = bodies \union {[id |-> ids + 1, job |-> j, attempts |-> 0]}
          /\ delayed' = delayed \union {[id |-> ids + 1, due |-> FALSE]}
          /\ UNCHANGED entries
    /\ UNCHANGED <<buried, finished, client, deaths, disturbed>>

DelayPasses ==
    /\ \E d \in delayed : ~d.due /\ delayed' = (delayed \ {d}) \union {[d EXCEPT !.due = TRUE]}
    /\ UNCHANGED <<entries, bodies, buried, finished, client, ids, deaths, disturbed>>

-----------------------------------------------------------------------------
(* claim: promote what is due, then re-deliver what is idle, then read on *)

\* ZRANGEBYSCORE: the list may be stale when its members are removed.
ReadDue(c) ==
    /\ At(c, "rest") /\ entries \union bodies # {}
    /\ client' = [client EXCEPT ![c].pc = "zrem", ![c].due = {d.id : d \in {x \in delayed : x.due}}]
    /\ UNCHANGED <<entries, delayed, bodies, buried, finished, ids, deaths, disturbed>>

Owns_Unchecked(id) == TRUE

\* ZREM answers 1 to one client only.
Owns(id) == \E d \in delayed : d.id = id

ZRem(c) ==
    /\ At(c, "zrem")
    /\ IF client[c].due = {} THEN Then(c, "autoclaim") /\ UNCHANGED delayed
       ELSE \E id \in client[c].due :
              /\ delayed' = {d \in delayed : d.id # id}
              /\ client' = [client EXCEPT ![c].due = @ \ {id}, ![c].entry = id,
                                          ![c].pc = IF Owns(id) THEN "body" ELSE "zrem"]
    /\ UNCHANGED <<entries, bodies, buried, finished, ids, deaths, disturbed>>

HGet(c) ==
    /\ At(c, "body")
    /\ LET found == {b \in bodies : b.id = client[c].entry} IN
       IF found = {} THEN client' = [client EXCEPT ![c].pc = "hdel", ![c].job = "none"]
       ELSE \E b \in found : client' = [client EXCEPT ![c].pc = "hdel", ![c].job = b.job,
                                                     ![c].attempts = b.attempts]
    /\ UNCHANGED <<entries, delayed, bodies, buried, finished, ids, deaths, disturbed>>

HDel(c) ==
    /\ At(c, "hdel")
    /\ bodies' = {b \in bodies : b.id # client[c].entry}
    /\ Then(c, IF client[c].job = "none" THEN "zrem" ELSE "publish")
    /\ UNCHANGED <<entries, delayed, buried, finished, ids, deaths, disturbed>>

\* XADD, of a promoted message or of a failed one's successor.
Publish(c) ==
    /\ client[c].pc \in {"publish", "successor"}
    /\ entries' = entries \union {NewEntry(client[c].job, client[c].attempts)}
    /\ ids' = ids + 1
    /\ client' = [client EXCEPT ![c] = [Resting EXCEPT
                     !.pc = IF At(c, "publish") THEN "zrem" ELSE "rest", !.due = client[c].due]]
    /\ UNCHANGED <<delayed, bodies, buried, finished, deaths, disturbed>>

\* The commands between which a client holds an entry of the stream.
AtEntry == {"work", "nack", "done del", "nack del", "reclaim", "bury ack", "bury del"}
Taken(id) == \E c \in Clients : client[c].pc \in AtEntry /\ client[c].entry = id

Deliver(c, e) ==
    /\ entries' = Without(e.id) \union
         {[e EXCEPT !.owner = c, !.idle = FALSE, !.times = IF @ < Ceiling THEN @ + 1 ELSE @]}
    /\ client' = [client EXCEPT ![c] = [Resting EXCEPT !.pc = "work", !.entry = e.id]]

\* XAUTOCLAIM: entries that sat in somebody's PEL too long.
Autoclaim(c) ==
    /\ At(c, "autoclaim")
    /\ LET idle == {e \in entries : Pending(e) /\ e.idle} IN
       IF idle = {} THEN Then(c, "read") /\ UNCHANGED <<entries, disturbed>>
       ELSE \E e \in idle :
              (\A f \in idle : e.id <= f.id) /\ Deliver(c, e) /\ disturbed' = (disturbed \/ Taken(e.id))
    /\ UNCHANGED <<delayed, bodies, buried, finished, ids, deaths>>

\* XREADGROUP ">": the oldest entry nobody was given.
ReadNew(c) ==
    /\ At(c, "read")
    /\ LET new == {e \in entries : e.times = 0} IN
       IF new = {} THEN client' = [client EXCEPT ![c] = Resting] /\ UNCHANGED entries
       ELSE \E e \in new : (\A f \in new : e.id <= f.id) /\ Deliver(c, e)
    /\ UNCHANGED <<delayed, bodies, buried, finished, ids, deaths, disturbed>>

\* The visibility timeout passes; its owner may be dead, or only slow.
GoesIdle(id) ==
    LET e == Entry(id) IN
    /\ Exists(id) /\ Pending(e) /\ ~e.idle
    /\ entries' = Without(id) \union {[e EXCEPT !.idle = TRUE]}
    /\ UNCHANGED <<delayed, bodies, buried, finished, client, ids, deaths, disturbed>>

-----------------------------------------------------------------------------
(* ack, nack and reclaim_expired *)

Cleared(id) == {IF e.id = id THEN [e EXCEPT !.owner = Nobody, !.idle = FALSE] ELSE e : e \in entries}

\* nack begins with XRANGE: an entry that is gone is somebody else's success.
XRange(c) ==
    /\ At(c, "work")
    /\ IF ~Exists(client[c].entry) THEN client' = [client EXCEPT ![c] = Resting]
       ELSE client' = [client EXCEPT ![c].pc = "nack",
              ![c].job = Entry(client[c].entry).job,
              ![c].attempts = Entry(client[c].entry).attempts + 1]
    /\ UNCHANGED <<entries, delayed, bodies, buried, finished, ids, deaths, disturbed>>

\* XACK, by ack, nack or reclaim_expired.
XAck(c) ==
    /\ client[c].pc \in {"work", "nack", "bury ack"}
    /\ entries' = Cleared(client[c].entry)
    /\ Then(c, CASE At(c, "work") -> "done del" [] At(c, "nack") -> "nack del" [] OTHER -> "bury del")
    /\ UNCHANGED <<delayed, bodies, buried, finished, ids, deaths, disturbed>>

XDel(c) ==
    /\ client[c].pc \in {"done del", "nack del", "bury del"}
    /\ entries' = Without(client[c].entry)
    /\ finished' = IF At(c, "done del") /\ Exists(client[c].entry)
                   THEN finished \union {Entry(client[c].entry).job} ELSE finished
    /\ IF ~At(c, "nack del") THEN client' = [client EXCEPT ![c] = Resting]
       ELSE IF client[c].attempts >= JobAttempts THEN Then(c, "bury")
       ELSE \E now \in BOOLEAN : Then(c, IF now THEN "successor" ELSE "park")
    /\ UNCHANGED <<delayed, bodies, buried, ids, deaths, disturbed>>

\* _park_delayed: HSET, then ZADD.
HSet(c) ==
    /\ At(c, "park")
    /\ bodies' = bodies \union {[id |-> ids + 1, job |-> client[c].job, attempts |-> client[c].attempts]}
    /\ ids' = ids + 1
    /\ client' = [client EXCEPT ![c].pc = "zadd", ![c].entry = ids + 1]
    /\ UNCHANGED <<entries, delayed, buried, finished, deaths, disturbed>>

ZAdd(c) ==
    /\ At(c, "zadd")
    /\ delayed' = delayed \union {[id |-> client[c].entry, due |-> FALSE]}
    /\ client' = [client EXCEPT ![c] = Resting]
    /\ UNCHANGED <<entries, bodies, buried, finished, ids, deaths, disturbed>>

\* XADD to the dead stream: nack is over then, reclaim_expired acks and deletes.
Bury(c) ==
    /\ client[c].pc \in {"bury", "reclaim"}
    /\ buried' = buried \union {[id |-> ids + 1, job |-> client[c].job]}
    /\ ids' = ids + 1
    /\ IF At(c, "bury") THEN client' = [client EXCEPT ![c] = Resting] ELSE Then(c, "bury ack")
    /\ UNCHANGED <<entries, delayed, bodies, finished, deaths, disturbed>>

\* XPENDING by idle time, and XRANGE of an entry delivered too often.
ReclaimExpired2(c) ==
    /\ At(c, "rest")
    /\ \E e \in entries :
         /\ Pending(e) /\ e.idle /\ e.times >= Ceiling
         /\ client' = [client EXCEPT ![c].pc = "reclaim", ![c].entry = e.id, ![c].job = e.job]
         /\ disturbed' = (disturbed \/ Taken(e.id))
    /\ UNCHANGED <<entries, delayed, bodies, buried, finished, ids, deaths>>

\* Where an operation has read so far, or its message is being worked on.
OnlyReads == {"zrem", "autoclaim", "read", "work", "nack", "reclaim"}

ClientDies(c) ==
    /\ deaths < MaxDeaths /\ ~At(c, "rest")
    /\ deaths' = deaths + 1
    /\ disturbed' = (disturbed \/ client[c].pc \notin OnlyReads)
    /\ client' = [client EXCEPT ![c] = Resting]
    /\ UNCHANGED <<entries, delayed, bodies, buried, finished, ids>>

-----------------------------------------------------------------------------
RedisInit ==
    /\ entries = {} /\ delayed = {} /\ bodies = {} /\ buried = {} /\ finished = {}
    /\ client = [c \in Clients |-> Resting]
    /\ ids = 0 /\ deaths = 0 /\ disturbed = FALSE

ClientStep(c) ==
    \/ ReadDue(c) \/ ZRem(c) \/ HGet(c) \/ HDel(c) \/ Publish(c) \/ Autoclaim(c)
    \/ ReadNew(c) \/ XRange(c) \/ XAck(c) \/ XDel(c) \/ HSet(c) \/ ZAdd(c) \/ Bury(c)
    \/ ReclaimExpired2(c)

RedisNext ==
    \/ \E j \in Jobs : XAddNew(j)
    \/ DelayPasses
    \/ \E id \in 1 .. ids : GoesIdle(id)
    \/ \E c \in Clients : ClientStep(c) \/ ClientDies(c)

-----------------------------------------------------------------------------
\* Where a job can be: an entry, a delayed body somebody can still find, a dead
\* letter, a finished job, or the hands of a client between two commands.
InHand(c) == client[c].pc \in {"publish", "successor", "park", "bury"}

Copies(j) ==
      Cardinality({e \in entries : e.job = j})
    + Cardinality({b \in bodies : b.job = j})
    + Cardinality({b \in buried : b.job = j})
    + Cardinality({c \in Clients : client[c].job = j /\ InHand(c)})
    + (IF j \in finished THEN 1 ELSE 0)

\* A reclaimed entry is in both streams until it is acked and deleted.
Moving(j) == Cardinality({c \in Clients : client[c].job = j /\ client[c].pc \in {"bury ack", "bury del"}})

\* While no two clients are at one entry and none dies between the commands of
\* an operation, a job is never duplicated and never gone, however promotions,
\* redeliveries, retries and dead-letterings of several clients interleave and
\* whichever clients die at their work.
OneCopy == ~disturbed => \A j \in Jobs : Copies(j) = 0 \/ Copies(j) - Moving(j) = 1

\* Once enqueued, a job stays somewhere a client can find it, or with a client
\* at work on it, whatever clients die: it is delivered at least once.
NothingLost == [][\A j \in Jobs : (Copies(j) > 0) => (Copies(j))' > 0]_redisVars
=============================================================================
