------------------------- MODULE LedgerStoreProofs -------------------------
(***************************************************************************)
(* Proofs about LedgerStore, for any writers, lineages, events and lock    *)
(* assignment, serialised or not.                                          *)
(***************************************************************************)
EXTENDS LedgerStore, TLAPS

(* The row a writer has inserted is a well-typed ledger row.               *)
LEMMA SealedRow ==
    ASSUME TypeOK, NEW w \in Writers
    PROVE  /\ Sealed(w) \in Row
           /\ Sealed(w).event = req[w]
           /\ Sealed(w).version = tip[w].version + 1
           /\ Sealed(w).prev = tip[w].hash
           /\ Sealed(w).hash = compute_event_digest(tip[w].hash, req[w], tip[w].version + 1)
           /\ HeadOf(Sealed(w)).version = tip[w].version + 1
<1>1. req[w] \in Event /\ tip[w] \in Tip
  BY ConstantsAssumption DEF TypeOK
<1>2. compute_event_digest(tip[w].hash, req[w], tip[w].version + 1) \in Hash
  <2>1. [corr |-> req[w].corr, type |-> req[w].type, version |-> tip[w].version + 1,
         payload |-> req[w].payload] \in HashBody
    BY <1>1 DEF Event, Tip, HashBody
  <2> QED
    BY <1>1, <2>1 DEF compute_event_digest, Tip, Hash
<1> QED
  BY <1>1, <1>2 DEF Sealed, sealed, Row, Tip, HeadOf

(* A lineage with rows has a newest one, so _chain_tip returns it.         *)
LEMMA TipIsNewest ==
    ASSUME TypeOK, HeadIsNewest, NEW c \in Correlations
    PROVE  /\ ChainTip(c) \in Tip
           /\ \A r \in Lineage(c) : r.version <= ChainTip(c).version
           /\ \/ ChainTip(c) = NoTip
              \/ \E q \in Lineage(c) : ChainTip(c) = [version |-> q.version, hash |-> q.hash]
<1>1. CASE Lineage(c) = {}
  BY <1>1 DEF ChainTip, NoTip, Tip, GENESIS_HASH, Hash
<1>2. CASE Lineage(c) # {}
  <2>1. PICK r \in Lineage(c) : \A q \in Lineage(c) : q.version <= r.version
    BY <1>2 DEF HeadIsNewest
  <2>2. /\ Newest(Lineage(c)) \in Lineage(c)
        /\ \A q \in Lineage(c) : q.version <= Newest(Lineage(c)).version
    BY <2>1 DEF Newest
  <2>3. Newest(Lineage(c)) \in Row
    BY <2>2 DEF TypeOK, Lineage
  <2> QED
    BY <1>2, <2>2, <2>3 DEF ChainTip, Tip, Row
<1> QED
  BY <1>1, <1>2

(* Where the new row goes: after every row its lineage holds.              *)
LEMMA SealedIsNext ==
    ASSUME IndInv, NEW w \in Writers, pc[w] = "commit"
    PROVE  \A r \in Lineage(req[w].corr) : r.version <= tip[w].version
<1> SUFFICES ASSUME NEW r \in Lineage(req[w].corr), ~(r.version <= tip[w].version)
             PROVE  FALSE
  OBVIOUS
<1>1. /\ r \in rows /\ r.event.corr = req[w].corr /\ r.version \in Nat
      /\ tip[w].version \in Nat
  BY DEF IndInv, TypeOK, Lineage, Row, Tip
<1>2. tip[w].version + 1 \in 1 .. r.version
  BY <1>1
<1>3. PICK q \in Lineage(r.event.corr) : q.version = tip[w].version + 1
  BY <1>1, <1>2 DEF IndInv, Dense
<1>4. Conflicts(Sealed(w), q)
  BY <1>1, <1>3, SealedRow DEF IndInv, Conflicts, Lineage
<1> QED
  BY <1>3, <1>4 DEF IndInv, PendingDistinct, Lineage

(* What a commit adds to the tables keeps every fact about them.           *)
LEMMA CommitKeepsTables ==
    ASSUME IndInv, NEW w \in Writers, CommitRow(w)
    PROVE  /\ rows' \subseteq Row
           /\ head' \in [Correlations -> [version : Nat, type : EventTypes \cup {"none"},
                                          hash : Hash, is_terminal : BOOLEAN]]
           /\ (HeadIsNewest /\ RecordedOnce /\ VersionsUnique /\ Dense /\ Linked)'
<1>0. req[w].corr \in Correlations /\ Sealed(w) \in Row
  BY SealedRow, ConstantsAssumption DEF IndInv, TypeOK, Event
<1>a. PICK s \in Row : s = Sealed(w)
  BY <1>0
<1>b. PICK c \in Correlations : c = req[w].corr
  BY <1>0
<1>1. /\ s.event = req[w] /\ s.event.corr = c
      /\ s.version = tip[w].version + 1 /\ s.prev = tip[w].hash
      /\ s.hash = compute_event_digest(s.prev, s.event, s.version)
  BY <1>a, <1>b, SealedRow DEF IndInv
<1>2. tip[w].version \in Nat /\ s.version \in Nat
  BY DEF IndInv, TypeOK, Tip, Row
<1>3. rows' = rows \cup {s} /\ head' = [head EXCEPT ![c] = HeadOf(s)]
  BY <1>a, <1>b DEF CommitRow
<1>4. \A r \in rows : ~Conflicts(s, r)
  BY <1>a DEF IndInv, PendingDistinct, CommitRow
<1>5. \A r \in Lineage(c) : r.version < s.version
  BY <1>b, <1>1, <1>2, SealedIsNext DEF CommitRow, IndInv, TypeOK, Lineage, Row
<1>6. Lineage(c)' = Lineage(c) \cup {s}
      /\ \A d \in Correlations : d # c => Lineage(d)' = Lineage(d)
  BY <1>1, <1>3 DEF Lineage
<1>7. rows' \subseteq Row
  BY <1>1, <1>3 DEF IndInv, TypeOK
<1>8. head' \in [Correlations -> [version : Nat, type : EventTypes \cup {"none"},
                                  hash : Hash, is_terminal : BOOLEAN]]
  BY <1>1, <1>2, <1>3 DEF IndInv, TypeOK, HeadOf, Row, Event
<1>9. HeadIsNewest'
  <2> SUFFICES ASSUME NEW d \in Correlations
               PROVE  (IF Lineage(d) = {} THEN head[d] = NoHead
                       ELSE \E r \in Lineage(d) :
                               /\ \A q \in Lineage(d) : q.version <= r.version
                               /\ head[d] = HeadOf(r))'
    BY DEF HeadIsNewest
  <2>1. CASE d = c
    <3>1. \A q \in Lineage(c)' : q.version <= s.version
      BY <1>2, <1>5, <1>6 DEF IndInv, TypeOK, Lineage, Row
    <3>2. head'[c] = HeadOf(s)
      BY <1>2, <1>3 DEF IndInv, TypeOK
    <3> QED
      BY <2>1, <3>1, <3>2, <1>6 DEF HeadOf
  <2>2. CASE d # c
    <3>1. head'[d] = head[d] /\ Lineage(d)' = Lineage(d)
      BY <2>2, <1>3, <1>6 DEF IndInv, TypeOK
    <3> QED
      BY <3>1 DEF IndInv, HeadIsNewest, NoHead, HeadOf
  <2> QED
    BY <2>1, <2>2
<1>10. RecordedOnce'
  BY <1>3, <1>4 DEF IndInv, RecordedOnce, Conflicts, IdempotencyKey
<1>11. VersionsUnique'
  BY <1>3, <1>4 DEF IndInv, VersionsUnique, Conflicts
<1>12. \A r \in rows : Lineage(r.event.corr) \subseteq Lineage(r.event.corr)'
  BY <1>3 DEF Lineage
<1>13. \/ tip[w] = NoTip /\ tip[w].version = 0 /\ tip[w].hash = GENESIS_HASH
       \/ \E q \in Lineage(c) : tip[w].version = q.version /\ tip[w].hash = q.hash
  <2>1. CASE tip[w] = NoTip
    BY <2>1 DEF NoTip
  <2>2. CASE tip[w] # NoTip
    <3>1. PICK q \in Lineage(c) : tip[w] = [version |-> q.version, hash |-> q.hash]
      BY <1>b, <2>2 DEF IndInv, TipsRecorded, CommitRow
    <3>2. tip[w].version = q.version /\ tip[w].hash = q.hash
      BY <3>1
    <3> QED
      BY <3>2
  <2> QED
    BY <2>1, <2>2
<1>14. Dense'
  <2>1. \A v \in 1 .. s.version : \E q \in Lineage(c)' : q.version = v
    <3> SUFFICES ASSUME NEW v \in 1 .. s.version, v # s.version
                 PROVE  \E q \in Lineage(c)' : q.version = v
      BY <1>6
    <3>1. v \in 1 .. tip[w].version /\ tip[w].version # 0
      BY <1>1, <1>2
    <3>2. PICK p \in Lineage(c) : p.version = tip[w].version
      BY <1>13, <3>1
    <3>3. p \in rows /\ p.event.corr = c
      BY <3>2 DEF Lineage
    <3> QED
      BY <3>1, <3>2, <3>3, <1>6 DEF IndInv, Dense
  <2>2. s.version >= 1
    BY <1>1, <1>2
  <2> SUFFICES ASSUME NEW r \in rows'
               PROVE  /\ r.version >= 1
                      /\ \A v \in 1 .. r.version :
                            \E q \in Lineage(r.event.corr)' : q.version = v
    BY DEF Dense, Lineage
  <2>3. CASE r = s
    BY <2>1, <2>2, <2>3, <1>1
  <2>4. CASE r \in rows
    BY <2>4, <1>12 DEF IndInv, Dense
  <2> QED
    BY <2>3, <2>4, <1>3
<1>15. Linked'
  <2>1. s.version = 1 => s.prev = GENESIS_HASH
    <3>1. ASSUME s.version = 1 PROVE tip[w] = NoTip
      <4>1. \A q \in Lineage(c) : q.version >= 1
        BY DEF IndInv, Dense, Lineage
      <4> QED
        BY <3>1, <4>1, <1>1, <1>2, <1>13
    <3> QED
      BY <3>1, <1>1 DEF NoTip
  <2>2. s.version > 1 =>
          \E q \in Lineage(c)' : q.version = s.version - 1 /\ q.hash = s.prev
    BY <1>1, <1>2, <1>6, <1>13
  <2> SUFFICES ASSUME NEW r \in rows'
               PROVE  /\ r.hash = compute_event_digest(r.prev, r.event, r.version)
                      /\ r.version = 1 => r.prev = GENESIS_HASH
                      /\ r.version > 1 =>
                           \E q \in Lineage(r.event.corr)' :
                              q.version = r.version - 1 /\ q.hash = r.prev
    BY DEF Linked, Lineage, compute_event_digest
  <2>3. CASE r = s
    BY <2>1, <2>2, <2>3, <1>1
  <2>4. CASE r \in rows
    BY <2>4, <1>12 DEF IndInv, Linked
  <2> QED
    BY <2>3, <2>4, <1>3
<1> QED
  BY <1>7, <1>8, <1>9, <1>10, <1>11, <1>14, <1>15

(* A step that leaves the tables alone keeps every fact about them.        *)
LEMMA TablesKept ==
    ASSUME IndInv, UNCHANGED <<rows, head>>
    PROVE  /\ rows' \subseteq Row
           /\ head' \in [Correlations -> [version : Nat, type : EventTypes \cup {"none"},
                                          hash : Hash, is_terminal : BOOLEAN]]
           /\ (HeadIsNewest /\ RecordedOnce /\ VersionsUnique /\ Dense /\ Linked)'
BY DEF IndInv, TypeOK, HeadIsNewest, RecordedOnce, VersionsUnique, Dense, Linked,
       Lineage, HeadOf, NoHead, IdempotencyKey, compute_event_digest

(* An empty ledger with idle writers satisfies the inductive invariant.    *)
THEOREM InitIndInv == Init => IndInv
<1> SUFFICES ASSUME Init PROVE IndInv
  OBVIOUS
<1>1. TypeOK
  BY DEF Init, TypeOK, NoHead, NoTip, Tip, Hash, GENESIS_HASH, PCs, Outcomes
<1>2. HeadIsNewest
  BY DEF Init, HeadIsNewest, Lineage
<1> QED
  BY <1>1, <1>2 DEF Init, IndInv, RecordedOnce, VersionsUnique, Dense, Linked,
     TipsRecorded, PendingDistinct, ReturnedIsRecorded, LockHeld, InTransaction,
     LockPreventsConflict

(* The step of one writer, split by action.                                *)
LEMMA BeginKeeps ==
    ASSUME IndInv, NEW w \in Writers, BeginAppend(w)
    PROVE  IndInv'
<1>1. /\ (HeadIsNewest /\ RecordedOnce /\ VersionsUnique /\ Dense /\ Linked)'
      /\ TypeOK'
  BY TablesKept DEF BeginAppend, IndInv, TypeOK, PCs, Outcomes
<1> USE DEF BeginAppend
<1>2. \A v \in Writers : v # w => pc'[v] = pc[v] /\ req'[v] = req[v]
                                  /\ outcome'[v] = outcome[v] /\ result'[v] = result[v]
  BY DEF IndInv, TypeOK
<1>3. pc'[w] = "find" /\ outcome'[w] = "none" /\ UNCHANGED <<rows, tip>>
  BY DEF IndInv, TypeOK
<1> HIDE DEF BeginAppend
<1>4. TipsRecorded'
  BY <1>2, <1>3 DEF IndInv, TipsRecorded, Lineage, NoTip
<1>5. PendingDistinct'
  BY <1>2, <1>3 DEF IndInv, PendingDistinct, Conflicts, Sealed
<1>6. ReturnedIsRecorded'
  BY <1>2, <1>3 DEF IndInv, ReturnedIsRecorded, FindByKey
<1>7. LockHeld'
  <2>1. req'[w].corr \in Serialised =>
          \A v \in Writers : v # w /\ InTransaction(v) /\ Locked(v) =>
            LockOf[req'[w].corr] # LockOf[req[v].corr]
    BY DEF BeginAppend, IndInv, TypeOK, InTransaction
  <2> QED
    BY <1>2, <1>3, <2>1
       DEF IndInv, LockHeld, Locked, InTransaction, FindByKey, Lineage
<1>8. LockPreventsConflict'
  BY <1>2, <1>3 DEF IndInv, LockPreventsConflict, Locked
<1> QED
  BY <1>1, <1>4, <1>5, <1>6, <1>7, <1>8 DEF IndInv

(* _chain_tip gives the writer a tip that is in the ledger and, under the  *)
(* lock, the newest.                                                       *)
LEMMA ReadTipKeeps ==
    ASSUME IndInv, NEW w \in Writers, ReadTip(w)
    PROVE  IndInv'
<1>1. req[w].corr \in Correlations
  BY ConstantsAssumption DEF IndInv, TypeOK, Event
<1>2. /\ ChainTip(req[w].corr) \in Tip
      /\ \A r \in Lineage(req[w].corr) : r.version <= ChainTip(req[w].corr).version
      /\ \/ ChainTip(req[w].corr) = NoTip
         \/ \E q \in Lineage(req[w].corr) :
               ChainTip(req[w].corr) = [version |-> q.version, hash |-> q.hash]
  BY <1>1, TipIsNewest DEF IndInv
<1>3. /\ (HeadIsNewest /\ RecordedOnce /\ VersionsUnique /\ Dense /\ Linked)'
      /\ TypeOK'
  BY <1>2, TablesKept DEF ReadTip, IndInv, TypeOK, PCs
<1>4. /\ \A v \in Writers : v # w => pc'[v] = pc[v] /\ tip'[v] = tip[v]
      /\ pc[w] = "tip" /\ pc'[w] = "insert" /\ tip'[w] = ChainTip(req[w].corr)
      /\ UNCHANGED <<rows, req, outcome, result>>
  BY DEF ReadTip, IndInv, TypeOK
<1>5. TipsRecorded'
  BY <1>2, <1>4 DEF IndInv, TipsRecorded, Lineage, NoTip
<1>6. PendingDistinct'
  BY <1>4 DEF IndInv, PendingDistinct, Conflicts, Sealed
<1>7. ReturnedIsRecorded' /\ LockPreventsConflict'
  BY <1>4 DEF IndInv, ReturnedIsRecorded, FindByKey, LockPreventsConflict, Locked
<1>8. LockHeld'
  BY <1>2, <1>4 DEF IndInv, LockHeld, Locked, InTransaction, FindByKey, Lineage
<1> QED
  BY <1>3, <1>5, <1>6, <1>7, <1>8 DEF IndInv

(* Ending an append without a commit: nothing is visible to the others.    *)
LEMMA ReturnKeeps ==
    ASSUME IndInv, NEW w \in Writers, NEW how \in Outcomes \ {"appended"},
           NEW found \in SUBSET Row,
           Return(w, how, found), UNCHANGED <<rows, head, req, tip>>,
           how = "existing" => found # {} /\ found \subseteq FindByKey(req[w]),
           Locked(w) => how # "conflict"
    PROVE  IndInv'
<1>1. /\ (HeadIsNewest /\ RecordedOnce /\ VersionsUnique /\ Dense /\ Linked)'
      /\ TypeOK'
  BY TablesKept DEF Return, IndInv, TypeOK, PCs
<1>2. /\ \A v \in Writers : v # w => pc'[v] = pc[v] /\ outcome'[v] = outcome[v]
                                     /\ result'[v] = result[v]
      /\ pc'[w] = "idle" /\ outcome'[w] = how /\ result'[w] = found
  BY DEF Return, IndInv, TypeOK
<1>3. TipsRecorded'
  BY <1>2 DEF IndInv, TipsRecorded, Lineage, NoTip
<1>4. PendingDistinct'
  BY <1>2 DEF IndInv, PendingDistinct, Conflicts, Sealed
<1>5. ReturnedIsRecorded'
  BY <1>2 DEF IndInv, ReturnedIsRecorded, FindByKey, IdempotencyKey
<1>6. LockHeld'
  BY <1>2 DEF IndInv, LockHeld, Locked, InTransaction, FindByKey, Lineage
<1>7. LockPreventsConflict'
  BY <1>2 DEF IndInv, LockPreventsConflict, Locked
<1> QED
  BY <1>1, <1>3, <1>4, <1>5, <1>6, <1>7 DEF IndInv

(* _find_by_key returns committed rows.                                    *)
LEMMA FoundRows ==
    ASSUME IndInv, NEW w \in Writers
    PROVE  FindByKey(req[w]) \in SUBSET Row
BY DEF IndInv, TypeOK, FindByKey

(* _find_by_key ends the append with recorded rows or lets it go on.       *)
LEMMA FindKeeps ==
    ASSUME IndInv, NEW w \in Writers, FindExisting(w)
    PROVE  IndInv'
<1>1. CASE FindByKey(req[w]) # {}
  <2>1. Return(w, "existing", FindByKey(req[w])) /\ UNCHANGED <<rows, head, req, tip>>
    BY <1>1 DEF FindExisting
  <2> QED
    BY <1>1, <2>1, ReturnKeeps, FoundRows DEF Outcomes
<1>2. CASE FindByKey(req[w]) = {}
  <2>1. /\ (HeadIsNewest /\ RecordedOnce /\ VersionsUnique /\ Dense /\ Linked)'
        /\ TypeOK'
    BY <1>2, TablesKept DEF FindExisting, IndInv, TypeOK, PCs
  <2>2. /\ \A v \in Writers : v # w => pc'[v] = pc[v]
        /\ pc[w] = "find" /\ pc'[w] = "tip"
        /\ UNCHANGED <<rows, head, req, tip, outcome, result>>
    BY <1>2 DEF FindExisting, IndInv, TypeOK
  <2>3. TipsRecorded' /\ PendingDistinct'
    BY <2>2 DEF IndInv, TipsRecorded, Lineage, NoTip, PendingDistinct, Conflicts, Sealed
  <2>4. ReturnedIsRecorded' /\ LockPreventsConflict'
    BY <2>2 DEF IndInv, ReturnedIsRecorded, FindByKey, LockPreventsConflict, Locked
  <2>5. LockHeld'
    BY <1>2, <2>2 DEF IndInv, LockHeld, Locked, InTransaction, FindByKey, Lineage
  <2> QED
    BY <2>1, <2>3, <2>4, <2>5 DEF IndInv
<1> QED
  BY <1>1, <1>2

(* Under the lock an insert meets no row of its key or version.            *)
LEMMA LockedInsertIsClean ==
    ASSUME IndInv, NEW w \in Writers, Locked(w), pc[w] = "insert"
    PROVE  ~InsertConflict(w)
<1> SUFFICES ASSUME NEW r \in rows, Conflicts(Sealed(w), r)
             PROVE  FALSE
  BY DEF InsertConflict
<1>1. /\ Sealed(w).event = req[w] /\ Sealed(w).version = tip[w].version + 1
      /\ tip[w].version \in Nat /\ r.version \in Nat
  BY SealedRow DEF IndInv, TypeOK, Tip, Row
<1>2. IdempotencyKey(r.event) # IdempotencyKey(req[w])
  BY DEF IndInv, LockHeld, FindByKey
<1>3. ~(r.event.corr = req[w].corr /\ r.version = tip[w].version + 1)
  BY <1>1 DEF IndInv, LockHeld, Lineage
<1> QED
  BY <1>1, <1>2, <1>3 DEF Conflicts

(* The insert waits out pending conflicts, so pending rows stay distinct.  *)
LEMMA InsertKeeps ==
    ASSUME IndInv, NEW w \in Writers, Insert(w)
    PROVE  IndInv'
<1>1. /\ (HeadIsNewest /\ RecordedOnce /\ VersionsUnique /\ Dense /\ Linked)'
      /\ TypeOK'
  BY TablesKept DEF Insert, IndInv, TypeOK, PCs
<1>2. /\ \A v \in Writers : v # w => pc'[v] = pc[v]
      /\ pc[w] = "insert"
      /\ pc'[w] = IF InsertConflict(w) THEN "recheck" ELSE "commit"
      /\ \A v \in Writers : v # w /\ pc[v] = "commit" => ~Conflicts(Sealed(w), Sealed(v))
      /\ UNCHANGED <<rows, head, req, tip, outcome, result>>
  BY DEF Insert, IndInv, TypeOK
<1>3. TipsRecorded'
  BY <1>2 DEF IndInv, TipsRecorded, Lineage, NoTip
<1>4. PendingDistinct'
  BY <1>2 DEF IndInv, PendingDistinct, InsertConflict, Conflicts, Sealed
<1>5. ReturnedIsRecorded' /\ LockPreventsConflict'
  BY <1>2 DEF IndInv, ReturnedIsRecorded, FindByKey, LockPreventsConflict, Locked
<1>6. LockHeld'
  BY <1>2, LockedInsertIsClean DEF IndInv, LockHeld, Locked, InTransaction, FindByKey, Lineage
<1> QED
  BY <1>1, <1>3, <1>4, <1>5, <1>6 DEF IndInv

(* The savepoint handler returns what the key now finds or raises; the     *)
(* lock makes it unreachable.                                              *)
LEMMA RecheckKeeps ==
    ASSUME IndInv, NEW w \in Writers, Recheck(w)
    PROVE  IndInv'
<1>1. UNCHANGED <<rows, head, req, tip>> /\ ~Locked(w)
  BY DEF Recheck, IndInv, LockHeld
<1>2. CASE FindByKey(req[w]) # {}
  <2>1. Return(w, "existing", FindByKey(req[w]))
    BY <1>2 DEF Recheck
  <2> QED
    BY <1>1, <1>2, <2>1, ReturnKeeps, FoundRows DEF Outcomes
<1>3. CASE FindByKey(req[w]) = {}
  <2>1. Return(w, "conflict", {})
    BY <1>3 DEF Recheck
  <2> QED
    BY <1>1, <2>1, ReturnKeeps DEF Outcomes
<1> QED
  BY <1>2, <1>3

(* A rolled-back append leaves nothing behind.                             *)
LEMMA RollbackKeeps ==
    ASSUME IndInv, NEW w \in Writers, Rollback(w)
    PROVE  IndInv'
BY ReturnKeeps DEF Rollback, Outcomes

(* Row and head are committed together, whether append then returns or not. *)
LEMMA CommitKeeps ==
    ASSUME IndInv, NEW w \in Writers, NEW how \in {"appended", "failed"},
           NEW found \in {{Sealed(w)}, {}},
           CommitRow(w), Return(w, how, found), how = "appended" => found = {Sealed(w)}
    PROVE  IndInv'
<1>1. Sealed(w) \in Row /\ Sealed(w).event = req[w]
  BY SealedRow DEF IndInv
<1>2. /\ (HeadIsNewest /\ RecordedOnce /\ VersionsUnique /\ Dense /\ Linked)'
      /\ TypeOK'
  BY <1>1, CommitKeepsTables DEF Return, CommitRow, IndInv, TypeOK, PCs, Outcomes
<1>3. /\ \A v \in Writers : v # w => pc'[v] = pc[v] /\ outcome'[v] = outcome[v]
                                     /\ result'[v] = result[v]
      /\ pc[w] = "commit" /\ pc'[w] = "idle" /\ outcome'[w] = how /\ result'[w] = found
      /\ rows' = rows \cup {Sealed(w)} /\ UNCHANGED <<req, tip>>
  BY DEF Return, CommitRow, IndInv, TypeOK
<1>4. TipsRecorded'
  BY <1>3 DEF IndInv, TipsRecorded, Lineage, NoTip
<1>5. PendingDistinct'
  <2> SUFFICES ASSUME NEW v \in Writers, pc'[v] = "commit"
               PROVE  /\ \A r \in rows' : ~Conflicts(Sealed(v), r)
                      /\ \A u \in Writers \ {v} :
                            pc'[u] = "commit" => ~Conflicts(Sealed(v), Sealed(u))
    BY <1>3 DEF PendingDistinct, Conflicts, Sealed, IdempotencyKey, sealed,
                compute_event_digest
  <2>1. v # w /\ pc[v] = "commit"
    BY <1>3
  <2>2. ~Conflicts(Sealed(v), Sealed(w))
    BY <2>1, <1>3 DEF IndInv, PendingDistinct
  <2> QED
    BY <2>1, <2>2, <1>3 DEF IndInv, PendingDistinct
<1>6. ReturnedIsRecorded'
  BY <1>1, <1>3 DEF IndInv, ReturnedIsRecorded, FindByKey, IdempotencyKey
<1>7. LockHeld'
  <2>1. \A v \in Writers : v # w /\ InTransaction(v) /\ Locked(v) =>
            req[v].corr # req[w].corr
    BY <1>3 DEF IndInv, LockHeld, Locked, InTransaction
  <2>2. \A v \in Writers : v # w /\ InTransaction(v) /\ Locked(v) =>
            FindByKey(req[v])' = FindByKey(req[v]) /\ Lineage(req[v].corr)' = Lineage(req[v].corr)
    BY <2>1, <1>1, <1>3 DEF FindByKey, Lineage, IdempotencyKey
  <2>3. \A v \in Writers : InTransaction(v)' => v # w /\ InTransaction(v)
    BY <1>3 DEF InTransaction
  <2>4. \A v \in Writers : Locked(v)' = Locked(v)
    BY <1>3 DEF Locked
  <2> QED
    BY <2>1, <2>2, <2>3, <2>4, <1>3 DEF IndInv, LockHeld, InTransaction
<1>8. LockPreventsConflict'
  BY <1>3 DEF IndInv, LockPreventsConflict, Locked
<1> QED
  BY <1>2, <1>4, <1>5, <1>6, <1>7, <1>8 DEF IndInv

(* No statement of append, by any writer, and no crash breaks the          *)
(* inductive invariant.                                                    *)
THEOREM StepIndInv == IndInv /\ [Next]_vars => IndInv'
<1> SUFFICES ASSUME IndInv, [Next]_vars PROVE IndInv'
  OBVIOUS
<1>1. ASSUME NEW w \in Writers, BeginAppend(w) PROVE IndInv'
  BY <1>1, BeginKeeps
<1>2. ASSUME NEW w \in Writers, Step(w) PROVE IndInv'
  <2>1. CASE FindExisting(w)
    BY <2>1, FindKeeps
  <2>2. CASE ReadTip(w)
    BY <2>2, ReadTipKeeps
  <2>3. CASE Insert(w)
    BY <2>3, InsertKeeps
  <2>4. CASE Recheck(w)
    BY <2>4, RecheckKeeps
  <2>5. CASE Commit(w)
    BY <2>5, CommitKeeps DEF Commit
  <2> QED
    BY <1>2, <2>1, <2>2, <2>3, <2>4, <2>5 DEF Step
<1>3. ASSUME NEW w \in Writers, CommitThenCrash(w) PROVE IndInv'
  BY <1>3, CommitKeeps DEF CommitThenCrash
<1>4. ASSUME NEW w \in Writers, Rollback(w) PROVE IndInv'
  BY <1>4, RollbackKeeps
<1>5. CASE UNCHANGED vars
  <2>1. (HeadIsNewest /\ RecordedOnce /\ VersionsUnique /\ Dense /\ Linked)' /\ TypeOK'
    BY <1>5, TablesKept DEF vars, IndInv, TypeOK
  <2>2. TipsRecorded' /\ PendingDistinct' /\ ReturnedIsRecorded' /\ LockPreventsConflict'
    BY <1>5 DEF vars, IndInv, TipsRecorded, Lineage, NoTip, PendingDistinct, Conflicts,
                Sealed, ReturnedIsRecorded, FindByKey, LockPreventsConflict, Locked
  <2>3. LockHeld'
    BY <1>5 DEF vars, IndInv, LockHeld, Locked, InTransaction, FindByKey, Lineage
  <2> QED
    BY <2>1, <2>2, <2>3 DEF IndInv
<1> QED
  BY <1>1, <1>2, <1>3, <1>4, <1>5 DEF Next

(* Density, uniqueness and linking are what verify_chain walks the lineage *)
(* for: the newest row before r is the one r's prev names.                 *)
LEMMA LinkedChainsVerify == IndInv => ChainsVerify
<1> SUFFICES ASSUME IndInv, NEW c \in Correlations, NEW r \in Lineage(c)
             PROVE  /\ r.hash = compute_event_digest(r.prev, r.event, r.version)
                    /\ r.prev = ExpectedPrev(r)
                    /\ r.version = ExpectedVersion(r)
  BY DEF ChainsVerify, verify_chain
<1>1. /\ r \in rows /\ r \in Row /\ r.event.corr = c /\ r.version \in Nat /\ r.version >= 1
      /\ \A q \in Lineage(c) : q \in rows /\ q.version \in Nat /\ q.version >= 1
                               /\ q.event.corr = c
  BY DEF IndInv, TypeOK, Lineage, Row, Dense
<1>2. r.hash = compute_event_digest(r.prev, r.event, r.version)
  BY <1>1 DEF IndInv, Linked
<1>3. CASE r.version = 1
  <2>1. Before(r) = {}
    BY <1>1, <1>3 DEF Before
  <2> QED
    BY <1>1, <1>2, <1>3, <2>1 DEF IndInv, Linked, ExpectedPrev, ExpectedVersion
<1>4. CASE r.version > 1
  <2>1. PICK p \in Lineage(c) : p.version = r.version - 1 /\ p.hash = r.prev
    BY <1>1, <1>4 DEF IndInv, Linked
  <2>2. p \in Before(r) /\ \A q \in Before(r) : q.version <= p.version
    BY <1>1, <2>1 DEF Before
  <2>3. /\ Newest(Before(r)) \in Before(r)
        /\ \A q \in Before(r) : q.version <= Newest(Before(r)).version
    BY <2>2 DEF Newest
  <2>4. Newest(Before(r)) = p
    <3>1. Newest(Before(r)) \in Lineage(c) /\ p \in Lineage(c)
      BY <1>1, <2>1, <2>3 DEF Before
    <3>2. Newest(Before(r)).version = p.version
      BY <1>1, <2>2, <2>3, <3>1
    <3> QED
      BY <1>1, <3>1, <3>2 DEF IndInv, VersionsUnique
  <2> QED
    BY <1>1, <1>2, <2>1, <2>2, <2>4 DEF ExpectedPrev, ExpectedVersion
<1> QED
  BY <1>1, <1>3, <1>4

(* The append path never leaves the inductive invariant.                   *)
THEOREM Invariant == Spec => []IndInv
BY InitIndInv, StepIndInv, PTL DEF Spec

(* Every variable keeps its type: in particular _chain_tip always finds a  *)
(* newest row in a lineage that has rows.                                  *)
THEOREM TypeCorrect == Spec => []TypeOK
<1>1. IndInv => TypeOK
  BY DEF IndInv
<1> QED
  BY <1>1, Invariant, PTL

(* append records a logical event at most once, locked or not.             *)
THEOREM EventsRecordedOnce == Spec => []RecordedOnce
<1>1. IndInv => RecordedOnce
  BY DEF IndInv
<1> QED
  BY <1>1, Invariant, PTL

(* Every lineage passes verify_chain in every committed state.             *)
THEOREM ChainsAlwaysVerify == Spec => []ChainsVerify
BY LinkedChainsVerify, Invariant, PTL

(* The head row describes the newest ledger row, so it cannot lag.         *)
THEOREM HeadNeverLags == Spec => []HeadIsNewest
<1>1. IndInv => HeadIsNewest
  BY DEF IndInv
<1> QED
  BY <1>1, Invariant, PTL

(* What append hands back is in the ledger under the requested key.        *)
THEOREM ReturnsAreRecorded == Spec => []ReturnedIsRecorded
<1>1. IndInv => ReturnedIsRecorded
  BY DEF IndInv
<1> QED
  BY <1>1, Invariant, PTL

(* lock_correlation makes the state_version collision unreachable.         *)
THEOREM LockIsEnough == Spec => []LockPreventsConflict
<1>1. IndInv => LockPreventsConflict
  BY DEF IndInv
<1> QED
  BY <1>1, Invariant, PTL

(* The five promises of the ledger hold together, on lineages with and     *)
(* without the lock.                                                       *)
THEOREM LedgerAlwaysSound == Spec => []LedgerSound
<1>1. IndInv => LedgerSound
  BY LinkedChainsVerify DEF IndInv, LedgerSound
<1> QED
  BY <1>1, Invariant, PTL

-----------------------------------------------------------------------------
(* The refinement: a commit is one Record of module Ledger, every other    *)
(* step is invisible.                                                      *)

(* A version names one row, and the mapping picks its event.               *)
LEMMA EventAtVersion ==
    ASSUME VersionsUnique, NEW c \in Correlations, NEW r \in Lineage(c)
    PROVE  EventAt(c, r.version) = r.event
<1> DEFINE q == CHOOSE q \in Lineage(c) : q.version = r.version
<1>1. q \in Lineage(c) /\ q.version = r.version
  OBVIOUS
<1>2. q = r
  BY <1>1 DEF VersionsUnique, Lineage
<1> QED
  BY <1>2 DEF EventAt

(* The mapped log of a lineage is a sequence of events as long as the      *)
(* head's version says, and it holds exactly the lineage's events.         *)
LEMMA LogIsSequence ==
    ASSUME IndInv, NEW c \in Correlations
    PROVE  /\ head[c].version \in Nat
           /\ \A v \in 1 .. head[c].version : \E r \in Lineage(c) :
                r.version = v /\ EventAt(c, v) = r.event /\ r.event \in Event
           /\ LogOf(c) \in Seq(Event)
           /\ Len(LogOf(c)) = head[c].version
           /\ \A r \in Lineage(c) : r.version <= head[c].version
<1>1. head[c].version \in Nat
  BY DEF IndInv, TypeOK
<1>2. \A v \in 1 .. head[c].version : \E r \in Lineage(c) :
         r.version = v /\ EventAt(c, v) = r.event /\ r.event \in Event
  <2> SUFFICES ASSUME NEW v \in 1 .. head[c].version
               PROVE  \E r \in Lineage(c) : r.version = v
    BY EventAtVersion DEF IndInv, TypeOK, Lineage, Row
  <2>1. Lineage(c) # {}
    BY DEF IndInv, HeadIsNewest, NoHead
  <2>2. PICK r \in Lineage(c) : head[c] = HeadOf(r)
    BY <2>1 DEF IndInv, HeadIsNewest
  <2>3. r \in rows /\ r.event.corr = c /\ r.version = head[c].version
    BY <2>2 DEF HeadOf, Lineage
  <2> QED
    BY <2>3 DEF IndInv, Dense
<1>3. LogOf(c) \in Seq(Event) /\ Len(LogOf(c)) = head[c].version
  BY <1>1, <1>2 DEF LogOf
<1>4. ASSUME NEW r \in Lineage(c) PROVE r.version <= head[c].version
  <2>1. PICK q \in Lineage(c) :
           (\A p \in Lineage(c) : p.version <= q.version) /\ head[c] = HeadOf(q)
    BY <1>4 DEF IndInv, HeadIsNewest
  <2>2. head[c].version = q.version
    BY <2>1 DEF HeadOf
  <2> QED
    BY <2>1, <2>2
<1> QED
  BY <1>1, <1>2, <1>3, <1>4

(* Under the refinement mapping a commit is one Record step of Ledger.     *)
LEMMA CommitIsRecord ==
    ASSUME IndInv, NEW w \in Writers, CommitRow(w)
    PROVE  Abstract!Record(req[w])
<1>0. req[w].corr \in Correlations /\ Sealed(w) \in Row /\ req[w] \in Event
  BY SealedRow, ConstantsAssumption DEF IndInv, TypeOK, Event
<1>a. PICK s \in Row : s = Sealed(w)
  BY <1>0
<1>b. PICK c \in Correlations : c = req[w].corr
  BY <1>0
<1>c. PICK e \in Event : e = req[w]
  BY <1>0
<1>1. /\ s.event = e /\ e.corr = c /\ s.version = tip[w].version + 1
      /\ tip[w].version \in Nat /\ pc[w] = "commit"
  BY <1>a, <1>b, <1>c, SealedRow DEF IndInv, TypeOK, Tip, CommitRow
<1>2. rows' = rows \cup {s} /\ head' = [head EXCEPT ![c] = HeadOf(s)]
  BY <1>a, <1>b DEF CommitRow
<1>3. head[c].version = tip[w].version
  <2>1. \A r \in Lineage(c) : r.version <= tip[w].version
    BY <1>b, <1>1, SealedIsNext
  <2>2. CASE tip[w] = NoTip
    <3>1. Lineage(c) = {}
      BY <2>1, <2>2 DEF NoTip, IndInv, Dense, Lineage, TypeOK, Row
    <3> QED
      BY <2>2, <3>1 DEF IndInv, HeadIsNewest, NoHead, NoTip
  <2>3. CASE tip[w] # NoTip
    <3>1. PICK q \in Lineage(c) : tip[w] = [version |-> q.version, hash |-> q.hash]
      BY <1>b, <1>1, <2>3 DEF IndInv, TipsRecorded
    <3>2. tip[w].version = q.version
      BY <3>1
    <3>3. PICK r \in Lineage(c) : head[c] = HeadOf(r)
      BY <3>1 DEF IndInv, HeadIsNewest
    <3>4. head[c].version = r.version
      BY <3>3 DEF HeadOf
    <3> QED
      BY <2>1, <3>2, <3>4, <1>1, LogIsSequence
  <2> QED
    BY <2>2, <2>3
<1>n. PICK n \in Nat : n = head[c].version
  BY <1>1, <1>3
<1>4. /\ head'[c].version = n + 1
      /\ \A d \in Correlations : d # c => head'[d] = head[d]
  BY <1>n, <1>1, <1>2, <1>3 DEF HeadOf, IndInv, TypeOK
<1>5. VersionsUnique'
  BY CommitKeepsTables
<1>6. \A d \in Correlations, v \in Nat :
        (d # c \/ v <= n) => EventAt(d, v)' = EventAt(d, v)
  <2> SUFFICES ASSUME NEW d \in Correlations, NEW v \in Nat, d # c \/ v <= n
               PROVE  EventAt(d, v)' = EventAt(d, v)
    OBVIOUS
  <2>1. \A r : (r \in Lineage(d)' /\ r.version = v) <=> (r \in Lineage(d) /\ r.version = v)
    BY <1>n, <1>1, <1>2, <1>3 DEF Lineage
  <2> QED
    BY <2>1 DEF EventAt
<1>7. EventAt(c, n + 1)' = e
  <2>1. s \in Lineage(c)' /\ s.version = n + 1
    BY <1>n, <1>1, <1>2, <1>3 DEF Lineage
  <2>2. \A r : (r \in Lineage(c)' /\ r.version = n + 1) <=> r = s
    BY <2>1, <1>5 DEF VersionsUnique, Lineage
  <2> QED
    BY <2>2, <1>1 DEF EventAt
<1>8. LogOf(c)' = Append(LogOf(c), e)
  <2>1. LogOf(c)' = [v \in 1 .. n + 1 |-> EventAt(c, v)']
    BY <1>4 DEF LogOf
  <2>2. LogOf(c) = [v \in 1 .. n |-> EventAt(c, v)] /\ LogOf(c) \in Seq(Event) /\ Len(LogOf(c)) = n
    BY <1>n, LogIsSequence DEF LogOf
  <2>3. Append(LogOf(c), e) = [v \in 1 .. n + 1 |-> IF v = n + 1 THEN e ELSE LogOf(c)[v]]
    BY <2>2
  <2>4. \A v \in 1 .. n + 1 :
           EventAt(c, v)' = IF v = n + 1 THEN e ELSE LogOf(c)[v]
    BY <1>6, <1>7, <2>2
  <2> QED
    BY <2>1, <2>3, <2>4
<1>9. \A d \in Correlations : d # c => LogOf(d)' = LogOf(d)
  <2> SUFFICES ASSUME NEW d \in Correlations, d # c PROVE LogOf(d)' = LogOf(d)
    OBVIOUS
  <2>1. head'[d] = head[d] /\ head[d].version \in Nat
    BY <1>4, LogIsSequence
  <2>2. \A v \in 1 .. head[d].version : EventAt(d, v)' = EventAt(d, v)
    BY <1>6, <2>1
  <2> QED
    BY <2>1, <2>2 DEF LogOf
<1>10. Abstract!IdempotencyKey(e) \notin Abstract!KeysOf(LogOf(c))
  <2> SUFFICES ASSUME NEW v \in DOMAIN LogOf(c),
                      Abstract!IdempotencyKey(LogOf(c)[v]) = Abstract!IdempotencyKey(e)
               PROVE  FALSE
    BY DEF Abstract!KeysOf
  <2>1. v \in 1 .. head[c].version /\ LogOf(c)[v] = EventAt(c, v)
    BY DEF LogOf
  <2>2. PICK r \in Lineage(c) : EventAt(c, v) = r.event
    BY <2>1, LogIsSequence
  <2>3. IdempotencyKey(r.event) = IdempotencyKey(s.event)
    BY <2>1, <2>2, <1>1 DEF Abstract!IdempotencyKey, IdempotencyKey
  <2> QED
    BY <2>2, <2>3, <1>a, <1>1 DEF IndInv, PendingDistinct, Conflicts, Lineage
<1> QED
  <2>1. [d \in Correlations |-> LogOf(d)]'
          = [[d \in Correlations |-> LogOf(d)] EXCEPT ![c] = Append(LogOf(c), e)]
    BY <1>8, <1>9
  <2> QED
    BY <2>1, <1>10, <1>b, <1>c DEF Abstract!Record

(* append implements the atomic, duplicate-free append of module Ledger:   *)
(* the lock, the savepoint and the unique indexes are invisible.           *)
THEOREM StoreImplementsLedger == Spec => ImplementsLedger
<1>1. Init => Abstract!Init
  BY DEF Init, Abstract!Init, LogOf, NoHead
<1>2. IndInv /\ [Next]_vars => [Abstract!Next]_([c \in Correlations |-> LogOf(c)])
  <2> SUFFICES ASSUME IndInv, [Next]_vars
               PROVE  [Abstract!Next]_([c \in Correlations |-> LogOf(c)])
    OBVIOUS
  <2>1. CASE UNCHANGED <<rows, head>>
    BY <2>1 DEF LogOf, EventAt, Lineage
  <2>2. CASE \E w \in Writers : CommitRow(w)
    BY <2>2, CommitIsRecord DEF Abstract!Next, IndInv, TypeOK
  <2> QED
    BY <2>1, <2>2 DEF Next, Step, BeginAppend, FindExisting, ReadTip, Insert, Recheck,
       Commit, CommitThenCrash, Rollback, vars
<1> QED
  BY <1>1, <1>2, Invariant, PTL DEF Spec, ImplementsLedger, Abstract!Spec
=============================================================================
