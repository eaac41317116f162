------------------------------- MODULE Ledger -------------------------------
(***************************************************************************)
(* What the event ledger promises its callers, without saying how: every   *)
(* task lineage (correlation) is a sequence of events that only grows at   *)
(* its end, and an event whose idempotency key the lineage already holds   *)
(* is not recorded a second time.  src/paa/ledger/store.py implements it;  *)
(* LedgerStore.tla models that implementation and refines this module.     *)
(***************************************************************************)
EXTENDS Naturals, Sequences

CONSTANTS Correlations,  \* task lineages
          Requests       \* the events writers may ask the store to append

VARIABLE log             \* lineage -> the events it holds, oldest first

(***************************************************************************)
(* compute_idempotency_key: correlation, type, attempt and discriminator.  *)
(* The payload is excluded, so a redelivery that carries another timestamp *)
(* is still the same event.  SHA-256 is modelled as collision free.        *)
(***************************************************************************)
IdempotencyKey(e) == <<e.corr, e.type, e.attempt, e.disc>>

KeysOf(events) == {IdempotencyKey(events[i]) : i \in DOMAIN events}

Init == log = [c \in Correlations |-> <<>>]

Record(e) ==
    /\ IdempotencyKey(e) \notin KeysOf(log[e.corr])
    /\ log' = [log EXCEPT ![e.corr] = Append(@, e)]

Next == \E e \in Requests : Record(e)

Spec == Init /\ [][Next]_log
=============================================================================
