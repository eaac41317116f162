---------------------------- MODULE VectorStores ----------------------------
(***************************************************************************)
(* One collection in the two vector backends, driven by the same calls.    *)
(* The numpy store keeps ids, payloads and a matrix whose rows correspond, *)
(* and after every change replaces two files, one after the other.  Qdrant *)
(* (external) keeps points under an encoding of their ids.                 *)
(*                                                                         *)
(* A vector is a direction, 0 the zero vector; a row of the matrix also    *)
(* says whose vector it is.                                                *)
(***************************************************************************)
EXTENDS Naturals, Sequences, FiniteSets, SequencesExt

CONSTANTS
    PointIds,
    Encoded,   \* [PointIds -> what _encode_id makes of an id]
    Payloads,  \* values of the one filtered field
    Batches,   \* batches a caller may upsert: sequences of [id, v, pay]
    MaxVectorCalls,  \* bound: changes made
    MaxCrashes \* bound: crashes and failed writes

ASSUME VectorAssumption ==
    /\ DOMAIN Encoded = PointIds /\ MaxVectorCalls \in Nat /\ MaxCrashes \in Nat
    /\ Batches \subseteq Seq([id : PointIds, v : Nat, pay : Payloads])

VARIABLES
    ids, payloads, matrix,   \* the loaded collection
    phase,                   \* "open", "flush matrix", "flush sidecar", "down", "corrupt"
    matrixFile, sidecarFile, \* the .npy and the .json: [ids, payloads]
    points,                  \* Qdrant: set of [key, id, v, pay]
    calls, mishaps,
    twins                    \* ghost: an id came twice in a batch, or two ids encode alike

vectorVars == <<ids, payloads, matrix, phase, matrixFile, sidecarFile, points, calls, mishaps, twins>>

Vectors == {1, 2}
Row(id, v) == [of |-> id, v |-> v]
RowOf(id, known) == CHOOSE i \in DOMAIN known : known[i] = id
\* The mask of delete(): the rows that stay, in their order.
Kept(gone) == {i \in DOMAIN ids : ids[i] \notin gone}
Drop(seq, gone) ==
    [k \in 1..Cardinality(Kept(gone)) |->
        seq[CHOOSE i \in Kept(gone) : Cardinality({j \in Kept(gone) : j <= i}) = k]]

-----------------------------------------------------------------------------
\* as_unit_vector and validate_payload, over the whole batch before any change.
Refused(batch) == \E i \in DOMAIN batch : batch[i].v = 0

\* The loop over prepared: a new id is appended to ids and payloads at once,
\* to the matrix only after the loop; a known one overwrites its row, which an
\* id that came earlier in this batch does not have yet.
StoredPoint(s, p) ==
    LET r == RowOf(p.id, s.ids) IN
    IF ~s.ok THEN s
    ELSE IF p.id \notin ToSet(s.ids)
    THEN [s EXCEPT !.ids = Append(@, p.id), !.pays = Append(@, p.pay),
                   !.new = Append(@, Row(p.id, p.v))]
    ELSE IF r \notin DOMAIN s.rows THEN [s EXCEPT !.ok = FALSE]
    ELSE [s EXCEPT !.rows[r] = Row(p.id, p.v), !.pays[r] = p.pay]

StoredBatch(batch) ==
    LET after[k \in 0..Len(batch)] ==
          IF k = 0
          THEN [ids |-> ids, pays |-> payloads, rows |-> matrix, new |-> <<>>, ok |-> TRUE]
          ELSE StoredPoint(after[k - 1], batch[k])
    IN after[Len(batch)]

Upsert(batch) ==
    LET s == StoredBatch(batch)
        keys == {Encoded[batch[i].id] : i \in DOMAIN batch}
        last(k) == CHOOSE i \in DOMAIN batch :
                     Encoded[batch[i].id] = k /\ \A j \in DOMAIN batch :
                                                   Encoded[batch[j].id] = k => j <= i
        written == {[key |-> k, id |-> batch[last(k)].id, v |-> batch[last(k)].v,
                     pay |-> batch[last(k)].pay] : k \in keys}
    IN
    /\ phase = "open" /\ calls < MaxVectorCalls /\ ~Refused(batch)
    /\ calls' = calls + 1
    /\ ids' = s.ids /\ payloads' = s.pays
    /\ matrix' = IF s.ok THEN s.rows \o s.new ELSE s.rows
    /\ phase' = IF s.ok THEN "flush matrix" ELSE "open"     \* IndexError
    /\ points' = {q \in points : q.key \notin keys} \union written
    /\ twins' = (twins \/ ~s.ok \/ Cardinality(keys) # Len(batch)
                       \/ \E q \in points, i \in DOMAIN batch :
                            q.key = Encoded[batch[i].id] /\ q.id # batch[i].id)
    /\ UNCHANGED <<matrixFile, sidecarFile, mishaps>>

\* Nothing to remove: no rewrite and no flush.  A matrix that is short of rows
\* is not indexed by the mask: IndexError.
DeletePoints(gone) ==
    LET removes == gone \intersect ToSet(ids) # {} /\ Len(matrix) = Len(ids)
        keys == {Encoded[i] : i \in gone} IN
    /\ phase = "open" /\ calls < MaxVectorCalls
    /\ calls' = calls + 1
    /\ IF removes
       THEN /\ ids' = Drop(ids, gone) /\ payloads' = Drop(payloads, gone)
            /\ matrix' = Drop(matrix, gone) /\ phase' = "flush matrix"
       ELSE UNCHANGED <<ids, payloads, matrix, phase>>
    /\ points' = {q \in points : q.key \notin keys}
    /\ twins' = (twins \/ \E q \in points : q.key \in keys /\ q.id \notin gone)
    /\ UNCHANGED <<matrixFile, sidecarFile, mishaps>>

-----------------------------------------------------------------------------
(* _flush_one, a crash, a failed write, and the next start *)

FlushMatrix ==
    /\ phase = "flush matrix"
    /\ matrixFile' = matrix /\ phase' = "flush sidecar"
    /\ UNCHANGED <<ids, payloads, matrix, sidecarFile, points, calls, mishaps, twins>>

FlushSidecar ==
    /\ phase = "flush sidecar"
    /\ sidecarFile' = [ids |-> ids, payloads |-> payloads] /\ phase' = "open"
    /\ UNCHANGED <<ids, payloads, matrix, matrixFile, points, calls, mishaps, twins>>

\* OSError: the caller is told, the loaded collection stays as it is.
FlushFails ==
    /\ phase \in {"flush matrix", "flush sidecar"} /\ mishaps < MaxCrashes
    /\ mishaps' = mishaps + 1 /\ phase' = "open"
    /\ UNCHANGED <<ids, payloads, matrix, matrixFile, sidecarFile, points, calls, twins>>

VectorCrash ==
    /\ phase \notin {"down", "corrupt"} /\ mishaps < MaxCrashes
    /\ mishaps' = mishaps + 1 /\ phase' = "down"
    /\ UNCHANGED <<ids, payloads, matrix, matrixFile, sidecarFile, points, calls, twins>>

\* The only check across the two files: they have as many rows.
Whole == Len(matrixFile) = Len(sidecarFile.ids)

Load ==
    /\ phase = "down"
    /\ phase' = IF Whole THEN "open" ELSE "corrupt"
    /\ ids' = sidecarFile.ids /\ payloads' = sidecarFile.payloads /\ matrix' = matrixFile
    /\ UNCHANGED <<matrixFile, sidecarFile, points, calls, mishaps, twins>>

-----------------------------------------------------------------------------
(* search *)

Score(q, v) == IF q = v THEN 2 ELSE 1

payload_matches(pay, accepted) == accepted = {"any"} \/ pay \in accepted

NumpyHits_Strict(q, floor, accepted) ==
    {[id |-> ids[i], score |-> Score(q, matrix[i].v), pay |-> payloads[i]] :
       i \in {j \in DOMAIN ids : /\ payload_matches(payloads[j], accepted)
                                 /\ Score(q, matrix[j].v) > floor}}

NumpyHits(q, floor, accepted) ==
    {[id |-> ids[i], score |-> Score(q, matrix[i].v), pay |-> payloads[i]] :
       i \in {j \in DOMAIN ids : /\ payload_matches(payloads[j], accepted)
                                 /\ Score(q, matrix[j].v) >= floor}}

QdrantHits(q, floor, accepted) ==
    {[id |-> p.id, score |-> Score(q, p.v), pay |-> p.pay] :
       p \in {x \in points : payload_matches(x.pay, accepted) /\ Score(q, x.v) >= floor}}

-----------------------------------------------------------------------------
VectorInit ==
    /\ ids = <<>> /\ payloads = <<>> /\ matrix = <<>> /\ phase = "open"
    /\ matrixFile = <<>> /\ sidecarFile = [ids |-> <<>>, payloads |-> <<>>]
    /\ points = {} /\ calls = 0 /\ mishaps = 0 /\ twins = FALSE

VectorNext ==
    \/ \E b \in Batches : Upsert(b)
    \/ \E gone \in SUBSET PointIds \ {{}} : DeletePoints(gone)
    \/ FlushMatrix \/ FlushSidecar \/ FlushFails \/ VectorCrash \/ Load

\* Until something fails, and as long as ids are told apart in a batch and in
\* their encoding, both backends answer every search with the same hits.
SameHits ==
    mishaps = 0 /\ ~twins /\ (ids # <<>> \/ points # {}) =>
        \A q \in Vectors, floor \in {1, 2}, accepted \in {{"any"}} \union SUBSET Payloads :
            NumpyHits(q, floor, accepted) = QdrantHits(q, floor, accepted)

\* One crash or failed write, wherever it falls between the two files, never
\* leaves an id with a vector written for another: the collection that loads is
\* one of the two versions, or a mixture that keeps each row with its id.
VectorsBelong ==
    mishaps <= 1 /\ ~twins /\ phase = "open" =>
        /\ Len(matrix) = Len(ids)
        /\ \A i \in DOMAIN ids : matrix[i].of = ids[i]

\* A batch is stored whole or not at all: no id is without its row.
BatchIsWhole == phase = "open" => Len(ids) = Len(matrix) /\ Len(payloads) = Len(matrix)

\* The two backends are interchangeable until something fails, and one failure
\* mixes up no vectors.
VectorsSound == SameHits /\ VectorsBelong
=============================================================================
