--------------------------- MODULE MCLedgerStore ---------------------------
(* Two writers and two lineages.  On c1 nobody takes the lock, which shows *)
(* what the unique indexes and the savepoint handler give alone; on c2     *)
(* every writer does.  The requests hold a redelivery with another         *)
(* payload, a genuine retry and a terminal event.                          *)
EXTENDS LedgerStore

Ev(c, t, a, d, p) == [corr |-> c, type |-> t, attempt |-> a, disc |-> d, payload |-> p]

MCEventTypes == {"STARTED", "COMMITTED"}
MCTerminalTypes == {"COMMITTED"}
MCDiscriminators == {"", "step-0"}
MCPayloads == {"p", "q"}

MCRequests ==
    {Ev("c1", "STARTED", 0, "step-0", "p"), Ev("c1", "STARTED", 0, "step-0", "q"),
     Ev("c1", "COMMITTED", 0, "", "p"),
     Ev("c2", "STARTED", 0, "step-0", "p"), Ev("c2", "STARTED", 1, "step-0", "p")}

(* PostgreSQL: an advisory lock per lineage.                               *)
LineageLocks == [c \in Correlations |-> c]
=============================================================================
