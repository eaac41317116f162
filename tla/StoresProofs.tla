---------------------------- MODULE StoresProofs ----------------------------
(***************************************************************************)
(* Proofs about what is kept on disk: the objects of the cold lake and the *)
(* archive rows that name them (src/paa/storage/coldlake/), and the vector *)
(* collections (vector/), the graph (graph/) and the migrations            *)
(* (relational/) under src/paa/storage/.                                   *)
(***************************************************************************)
EXTENDS BlobStore, Migrations, VectorStores, GraphStores, FiniteSetTheorems,
        SequenceTheorems, WellFoundedInduction, TLAPS

-----------------------------------------------------------------------------
(* The blob store, for any contents, uris and calls, with or without S3     *)

Results == {"access_denied", "unreachable", "no_bucket", "not_found", "absent", "present", "ref",
            "corrupt", "bytes", "deleted", "artifact", "rejected"}

CallRow ==
    [pc : {"idle", "locate", "probe", "absent", "return", "stage", "replace", "upload", "read",
           "unlink", "lookup", "insert"},
     op : {"none", "put", "archive", "exists", "get", "restore", "delete"},
     d : Digests \union {Nothing}, form : Forms, uri : Uris \union {Nothing}, at : Forms,
     result : Results \union {"none"}]

BlobTypeOK ==
    /\ substrate \in {"fs", "s3"} /\ bucket \in BOOLEAN
    /\ blobs \in [Digests \X Forms -> {"none", "good", "bad"}]
    /\ staging \subseteq Calls
    /\ dest \in [Digests -> {"none", "good"}]
    /\ references \in [Uris -> Digests \union {Nothing}]
    /\ call \in [Calls -> CallRow]
    /\ started \in Nat /\ faults \in Nat /\ lost \subseteq Digests
    /\ seen \in [Calls -> SUBSET {"bucket", "no bucket", "no blob"}]

\* The directory of a filesystem store is always there.
NamespaceThere == substrate = "fs" => bucket

\* A blob is in a form that somebody writes it in.
StoredAsWritten ==
    \A d \in Digests, f \in Forms : blobs[<<d, f>>] # "none" => f \in WrittenAs(d)

IsWhole(d) == \E f \in Forms : blobs[<<d, f>>] = "good"

\* What has not been lost is whole, or was never there.
WholeOrLost ==
    \A d \in Digests : d \notin lost =>
        IsWhole(d) \/ \A f \in Forms : blobs[<<d, f>>] = "none"

Backed(d) == d \in lost \/ IsWhole(d)

RowsBacked == \A u \in Uris : references[u] # Nothing => Backed(references[u])

OneFormEach == Compressed \intersect Uncompressed = {}

\* An answer and what was seen.
Told(result, watched) ==
    /\ result \in {"absent", "not_found"} => {"bucket", "no blob"} \subseteq watched
    /\ result = "no_bucket" => "no bucket" \in watched

\* With one form each, a name that is missing means that the blob is.
Informed(w, watched) ==
    /\ w.pc \in {"stage", "replace", "upload", "probe", "absent"} => "no blob" \in watched
    /\ w.pc = "locate" /\ w.at = "raw" => "zst" \notin WrittenAs(w.d) \/ "no blob" \in watched

\* What a call is about, and what it has seen, at each of its requests.
Fits(w, watched) ==
    /\ w.pc # "idle" => w.op # "none"
    /\ w.op # "none" => w.d \in Digests
    /\ w.op = "archive" => w.uri \in Uris
    /\ w.result = "artifact" => w.op = "archive"
    /\ w.op \in {"put", "archive"} => w.form \in WrittenAs(w.d)
    /\ w.pc \in {"lookup", "insert"} => w.op = "archive" /\ Backed(w.d)
    /\ w.pc \in {"stage", "replace", "upload"} => w.op \in {"put", "archive"}
    /\ w.pc \in {"stage", "replace"} => substrate = "fs"
    /\ w.pc \in {"read", "unlink"} => w.at \in WrittenAs(w.d)
    /\ w.pc = "absent" => "bucket" \in watched
    /\ OneFormEach => Told(w.result, watched) /\ Informed(w, watched)

CallFine(c) ==
    /\ Fits(call[c], seen[c])
    /\ call[c].pc # "idle" => Now(c) \subseteq seen[c]

StoreInv ==
    /\ BlobTypeOK /\ NamespaceThere /\ StoredAsWritten /\ WholeOrLost /\ RowsBacked
    /\ ArtifactNamesContent /\ \A c \in Calls : CallFine(c)

\* A missing object is reported as one while the bucket is there, and a missing
\* bucket as one, whether or not the answer says which it is.
LEMMA AbsenceIsTold ==
    ASSUME NEW a \in Absences
    PROVE  translate_failure(a) = IF bucket THEN "not_found" ELSE "no_bucket"
  <1>1. a = BareNotFound \/ (bucket /\ a = NoSuchKey) \/ (~bucket /\ a = NoSuchBucket)
    BY DEF Absences
  <1>2. translate_s3_error(BareNotFound) = "not_found" /\ Ambiguous(BareNotFound)
    BY DEF translate_s3_error, ByClass, ByStatus, Ambiguous, Answer, BareNotFound
  <1>3. translate_s3_error(NoSuchKey) = "not_found" /\ ~Ambiguous(NoSuchKey)
    BY DEF translate_s3_error, ByClass, ByStatus, Ambiguous, Answer, NoSuchKey
  <1>4. translate_s3_error(NoSuchBucket) = "no_bucket"
    BY DEF translate_s3_error, ByClass, ByStatus, Ambiguous, Answer, NoSuchBucket
  <1> QED
    BY <1>1, <1>2, <1>3, <1>4 DEF translate_failure

\* A refusal or a silence is never taken for an absence.
LEMMA FaultIsTold ==
    ASSUME NEW a \in {Refusal, Timeout, Overloaded}
    PROVE  translate_failure(a) \in {"access_denied", "unreachable"}
  BY DEF translate_failure, translate_s3_error, ByClass, ByStatus, Ambiguous, Answer, Refusal, Timeout, Overloaded

\* Only the call that steps is moved.
LEMMA SetCallGives ==
    ASSUME call \in [Calls -> CallRow], NEW c \in Calls, NEW w \in CallRow, SetCall(c, w)
    PROVE  /\ call' \in [Calls -> CallRow] /\ call'[c] = w
           /\ \A e \in Calls : e # c => call'[e] = call[e]
  BY DEF SetCall

\* What a call has seen grows by what is so after each step.
LEMMA WatchGives ==
    ASSUME BlobTypeOK, Watch, NEW e \in Calls
    PROVE  /\ seen' \in [Calls -> SUBSET {"bucket", "no bucket", "no blob"}]
           /\ call'[e].pc # "idle" => Now(e)' \subseteq seen'[e]
           /\ call'[e].pc = "idle" => seen'[e] = seen[e]
           /\ call[e].pc # "idle" => seen[e] \subseteq seen'[e]
  <1>1. \A x \in Calls : Now(x)' \subseteq {"bucket", "no bucket", "no blob"}
    BY DEF Now
  <1>2. \A x \in Calls :
          seen'[x] = IF call'[x].pc = "idle" THEN seen[x]
                     ELSE (IF call[x].pc = "idle" THEN {} ELSE seen[x]) \union Now(x)'
    BY DEF Watch
  <1>3. seen' = [x \in Calls |-> seen'[x]]
    BY DEF Watch
  <1>4. \A x \in Calls : seen[x] \subseteq {"bucket", "no bucket", "no blob"}
    BY DEF BlobTypeOK
  <1>5. \A x \in Calls : /\ seen'[x] \subseteq {"bucket", "no bucket", "no blob"}
                         /\ call'[x].pc # "idle" => Now(x)' \subseteq seen'[x]
                         /\ call'[x].pc = "idle" => seen'[x] = seen[x]
                         /\ call[x].pc # "idle" => seen[x] \subseteq seen'[x]
    <2> SUFFICES ASSUME NEW x \in Calls
                 PROVE  /\ seen'[x] \subseteq {"bucket", "no bucket", "no blob"}
                        /\ call'[x].pc # "idle" => Now(x)' \subseteq seen'[x]
                        /\ call'[x].pc = "idle" => seen'[x] = seen[x]
                        /\ call[x].pc # "idle" => seen[x] \subseteq seen'[x]
      OBVIOUS
    <2>1. CASE call'[x].pc = "idle"
      <3>1. seen'[x] = seen[x]
        BY <1>2, <2>1
      <3>2. call[x].pc # "idle" => seen[x] \subseteq seen'[x]
        BY <3>1
      <3>3. seen'[x] \subseteq {"bucket", "no bucket", "no blob"}
        BY <1>4, <3>1
      <3> QED
        BY <2>1, <3>1, <3>2, <3>3
    <2>2. CASE call'[x].pc # "idle" /\ call[x].pc = "idle"
      <3>1. seen'[x] = Now(x)'
        BY <1>2, <2>2
      <3> QED
        BY <1>1, <2>2, <3>1
    <2>3. CASE call'[x].pc # "idle" /\ call[x].pc # "idle"
      <3>1. seen'[x] = seen[x] \union Now(x)'
        BY <1>2, <2>3
      <3> QED
        BY <1>1, <1>4, <2>3, <3>1
    <2> QED
      BY <2>1, <2>2, <2>3
  <1> QED
    BY <1>3, <1>5

\* A call that does not move stays right, as long as what was backed is.
LEMMA CallStaysFine ==
    ASSUME StoreInv, Watch, substrate' = substrate, NEW e \in Calls, call'[e] = call[e],
           \A d \in Digests : Backed(d) => Backed(d)'
    PROVE  CallFine(e)'
  <1>1. CallFine(e) /\ BlobTypeOK
    BY DEF StoreInv
  <1>2. PICK w : w = call[e]
    OBVIOUS
  <1>3. w \in CallRow
    BY <1>1, <1>2 DEF BlobTypeOK
  <1>4. seen[e] \subseteq seen'[e] /\ (w.pc # "idle" => Now(e)' \subseteq seen'[e])
    BY <1>1, <1>2, WatchGives
  <1>5. Backed(w.d) /\ w.d \in Digests => Backed(w.d)'
    OBVIOUS
  <1>6. OneFormEach => Told(w.result, seen'[e]) /\ Informed(w, seen'[e])
    <2>1. OneFormEach => Told(w.result, seen[e]) /\ Informed(w, seen[e])
      BY <1>1, <1>2 DEF CallFine, Fits
    <2> QED
      BY <1>4, <2>1 DEF Told, Informed
  <1>7. Fits(w, seen[e])
    BY <1>1, <1>2 DEF CallFine
  <1>8. /\ w.pc # "idle" => w.op # "none"
        /\ w.op # "none" => w.d \in Digests
        /\ w.op = "archive" => w.uri \in Uris
        /\ w.result = "artifact" => w.op = "archive"
        /\ w.op \in {"put", "archive"} => w.form \in WrittenAs(w.d)
        /\ w.pc \in {"lookup", "insert"} => w.op = "archive" /\ Backed(w.d)'
        /\ w.pc \in {"stage", "replace", "upload"} => w.op \in {"put", "archive"}
        /\ w.pc \in {"stage", "replace"} => substrate' = "fs"
        /\ w.pc \in {"read", "unlink"} => w.at \in WrittenAs(w.d)
        /\ w.pc = "absent" => "bucket" \in seen'[e]
    BY <1>4, <1>5, <1>7 DEF Fits
  <1>9. PICK s : s = seen'[e]
    OBVIOUS
  <1>10. Fits(w, s)'
    BY <1>6, <1>8, <1>9 DEF Fits
  <1> QED
    BY <1>2, <1>4, <1>9, <1>10 DEF CallFine

\* One call moves.
LEMMA CallMoves ==
    ASSUME StoreInv, Watch, substrate' = substrate, \A d \in Digests : Backed(d) => Backed(d)',
           NEW c \in Calls, NEW w \in CallRow, SetCall(c, w), NEW s, s = seen'[c], Fits(w, s)'
    PROVE  /\ call' \in [Calls -> CallRow]
           /\ seen' \in [Calls -> SUBSET {"bucket", "no bucket", "no blob"}]
           /\ \A e \in Calls : CallFine(e)'
  <1>1. BlobTypeOK /\ call \in [Calls -> CallRow]
    BY DEF StoreInv, BlobTypeOK
  <1>2. /\ call' \in [Calls -> CallRow] /\ call'[c] = w
        /\ \A e \in Calls : e # c => call'[e] = call[e]
    BY <1>1, SetCallGives
  <1>3. CallFine(c)'
    BY <1>1, <1>2, WatchGives DEF CallFine
  <1>4. \A e \in Calls : e # c => CallFine(e)'
    BY <1>2, CallStaysFine
  <1> QED
    BY <1>1, <1>2, <1>3, <1>4, WatchGives

Keeps == \A d \in Digests : Backed(d) => Backed(d)'

\* A call that makes a request and changes nothing of the store.
LEMMA QuietMove ==
    ASSUME StoreInv, Watch, NEW c \in Calls, NEW w \in CallRow, SetCall(c, w), NEW s, s = seen'[c],
           UNCHANGED store, faults' \in Nat, staging' \subseteq Calls,
           Fits(w, s), w.result = "artifact" => references[w.uri] = w.d
    PROVE  StoreInv'
  <1>1. /\ BlobTypeOK /\ call \in [Calls -> CallRow] /\ faults' \in Nat
        /\ UNCHANGED <<substrate, bucket, blobs, dest, references, started, lost>>
    BY DEF StoreInv, BlobTypeOK, store
  <1>2. \A d : Backed(d)' <=> Backed(d)
    BY <1>1 DEF Backed, IsWhole
  <1>3. Fits(w, s)'
    BY <1>1, <1>2 DEF Fits
  <1>4. /\ call' \in [Calls -> CallRow]
        /\ seen' \in [Calls -> SUBSET {"bucket", "no bucket", "no blob"}]
        /\ \A e \in Calls : CallFine(e)'
    BY <1>1, <1>2, <1>3, CallMoves
  <1>5. BlobTypeOK'
    BY <1>1, <1>4 DEF BlobTypeOK
  <1>6. NamespaceThere' /\ StoredAsWritten'
    BY <1>1 DEF StoreInv, NamespaceThere, StoredAsWritten
  <1>7. WholeOrLost'
    BY <1>1 DEF StoreInv, WholeOrLost, IsWhole
  <1>8. RowsBacked'
    BY <1>1, <1>2 DEF StoreInv, RowsBacked
  <1>9. ArtifactNamesContent'
    <2>1. call'[c] = w /\ \A e \in Calls : e # c => call'[e] = call[e]
      BY <1>1, SetCallGives
    <2> QED
      BY <1>1, <2>1 DEF StoreInv, ArtifactNamesContent
  <1> QED
    BY <1>4, <1>5, <1>6, <1>7, <1>8, <1>9 DEF StoreInv

\* The call at hand, its row and what it knows.
LEMMA AtHand ==
    ASSUME StoreInv, NEW c \in Calls
    PROVE  /\ call[c] \in CallRow /\ Fits(call[c], seen[c])
           /\ call[c].pc # "idle" => Now(c) \subseteq seen[c]
           /\ call \in [Calls -> CallRow] /\ BlobTypeOK
  BY DEF StoreInv, CallFine, BlobTypeOK

\* A new call.
LEMMA StartKeepsStore ==
    ASSUME StoreInv, Watch, NEW c \in Calls, NEW op, NEW d \in Digests, NEW f \in Forms, NEW u,
           \/ op \in {"put", "archive"} /\ f \in WrittenAs(d)
           \/ op \in {"exists", "get", "restore", "delete"},
           op = "archive" => u \in Uris, u \in Uris \union {Nothing},
           StartCall(c, op, d, f, u)
    PROVE  StoreInv'
  <1>1. PICK w : w = [NoCall EXCEPT !.pc = "locate", !.op = op, !.d = d, !.form = f, !.uri = u]
    OBVIOUS
  <1>2. /\ w.pc = "locate" /\ w.op = op /\ w.d = d /\ w.form = f /\ w.uri = u
        /\ w.at = "zst" /\ w.result = "none" /\ w \in CallRow
    BY <1>1 DEF NoCall, CallRow, Forms
  <1>3. /\ SetCall(c, w) /\ started' = started + 1
        /\ UNCHANGED <<substrate, bucket, blobs, staging, dest, references, faults, lost>>
    BY <1>1 DEF StartCall
  <1>4. \A x : Backed(x)' <=> Backed(x)
    BY <1>3 DEF Backed, IsWhole
  <1>5. PICK s : s = seen'[c]
    OBVIOUS
  <1>6. Fits(w, s)'
    <2>1. Told(w.result, s) /\ Informed(w, s)
      BY <1>2 DEF Told, Informed
    <2> QED
      BY <1>2, <2>1 DEF Fits
  <1>7. /\ call' \in [Calls -> CallRow]
        /\ seen' \in [Calls -> SUBSET {"bucket", "no bucket", "no blob"}]
        /\ \A e \in Calls : CallFine(e)'
    BY <1>2, <1>3, <1>4, <1>5, <1>6, CallMoves
  <1>8. BlobTypeOK'
    <2>1. BlobTypeOK
      BY DEF StoreInv
    <2>2. started' \in Nat /\ faults' \in Nat
      <3>1. started \in Nat /\ faults \in Nat
        BY <2>1 DEF BlobTypeOK
      <3>2. started' = started + 1 /\ faults' = faults
        BY <1>3
      <3> QED
        BY <3>1, <3>2
    <2>3. /\ substrate' \in {"fs", "s3"} /\ bucket' \in BOOLEAN
          /\ blobs' \in [Digests \X Forms -> {"none", "good", "bad"}]
          /\ staging' \subseteq Calls /\ dest' \in [Digests -> {"none", "good"}]
          /\ references' \in [Uris -> Digests \union {Nothing}] /\ lost' \subseteq Digests
      BY <1>3, <2>1 DEF BlobTypeOK
    <2> QED
      BY <1>7, <2>2, <2>3 DEF BlobTypeOK
  <1>9. NamespaceThere' /\ StoredAsWritten' /\ WholeOrLost' /\ RowsBacked'
    BY <1>3, <1>4 DEF StoreInv, NamespaceThere, StoredAsWritten, WholeOrLost, IsWhole, RowsBacked
  <1>10. ArtifactNamesContent'
    <2>1. call'[c] = w /\ \A e \in Calls : e # c => call'[e] = call[e]
      BY <1>2, <1>3, AtHand, SetCallGives
    <2> QED
      BY <1>2, <1>3, <2>1 DEF StoreInv, ArtifactNamesContent
  <1> QED
    BY <1>7, <1>8, <1>9, <1>10 DEF StoreInv

\* What is so at a request is among what the call has seen.
LEMMA SeenNow ==
    ASSUME StoreInv, Watch, NEW c \in Calls, call[c].pc # "idle"
    PROVE  /\ bucket => "bucket" \in seen[c]
           /\ ~bucket => "no bucket" \in seen[c]
           /\ Stored(call[c].d) = {} => "no blob" \in seen[c]
           /\ seen[c] \subseteq seen'[c]
  <1>1. Now(c) \subseteq seen[c] /\ seen[c] \subseteq seen'[c]
    BY AtHand, WatchGives
  <1> QED
    BY <1>1 DEF Now

\* With one form each, if the form that a blob is written in is missing, so is
\* the blob.
LEMMA MissingIsAbsent ==
    ASSUME StoreInv, OneFormEach, NEW d \in Digests, NEW f \in Forms, f \notin Stored(d),
           \/ f \in WrittenAs(d)
           \/ \A g \in Forms : g # f => g \notin WrittenAs(d)
    PROVE  Stored(d) = {}
  <1>1. \A g \in Forms : g # f => g \notin WrittenAs(d)
    BY DEF OneFormEach, WrittenAs, Forms
  <1>2. \A g \in Forms : blobs[<<d, g>>] # "none" => g \in WrittenAs(d)
    BY DEF StoreInv, StoredAsWritten
  <1> QED
    BY <1>1, <1>2 DEF Stored

\* _locate, at either name.
LEMMA LocateKeepsStore ==
    ASSUME StoreInv, Watch, NEW c \in Calls, Locate(c)
    PROVE  StoreInv'
  <1>1. PICK r \in CallRow : r = call[c]
    BY AtHand
  <1>2. /\ r.pc = "locate" /\ UNCHANGED <<store, staging, faults>> /\ Fits(r, seen[c])
        /\ staging' \subseteq Calls /\ faults' \in Nat
        /\ bucket => "bucket" \in seen'[c]
        /\ seen[c] \subseteq seen'[c]
    BY <1>1, AtHand, SeenNow DEF Locate, BlobTypeOK
  <1>3. PICK s : s = seen'[c]
    OBVIOUS
  <1>4. /\ r.d \in Digests /\ r.at \in Forms /\ r.op # "none"
        /\ r.result = "artifact" => r.op = "archive"
        /\ r.op = "archive" => r.uri \in Uris
        /\ r.op \in {"put", "archive"} => r.form \in WrittenAs(r.d)
        /\ OneFormEach => Told(r.result, seen[c]) /\ Informed(r, seen[c])
        /\ r.result = "artifact" => references[r.uri] = r.d
    BY <1>1, <1>2 DEF Fits, CallRow, StoreInv, ArtifactNamesContent
  <1>5. OneFormEach => Told(r.result, s)
    BY <1>2, <1>3, <1>4 DEF Told
  <1>6. CASE r.at \in Stored(r.d)
    <2>1. PICK w : w = [r EXCEPT !.pc = WhenFound(r.op)]
      OBVIOUS
    <2>2. SetCall(c, w)
      BY <1>1, <1>6, <2>1 DEF Locate, BlobGoto
    <2>3. blobs[<<r.d, r.at>>] # "none"
      BY <1>6 DEF Stored
    <2>4. r.at \in WrittenAs(r.d)
      BY <1>4, <2>3 DEF StoreInv, StoredAsWritten
    <2>5. Backed(r.d)
      BY <1>4, <2>3 DEF StoreInv, WholeOrLost, Backed
    <2>6. /\ WhenFound(r.op) \in {"return", "lookup", "unlink", "read"}
          /\ WhenFound(r.op) = "lookup" => r.op = "archive"
      BY DEF WhenFound
    <2>7. /\ w.pc = WhenFound(r.op) /\ w.op = r.op /\ w.d = r.d /\ w.uri = r.uri
          /\ w.form = r.form /\ w.at = r.at /\ w.result = r.result /\ w \in CallRow
      BY <2>1, <2>6 DEF CallRow
    <2>8. Informed(w, s)
      BY <2>6, <2>7 DEF Informed
    <2>9. Fits(w, s)
      BY <1>4, <1>5, <2>4, <2>5, <2>6, <2>7, <2>8 DEF Fits
    <2> QED
      BY <1>2, <1>3, <1>4, <2>2, <2>7, <2>9, QuietMove
  <1>7. CASE r.at \notin Stored(r.d) /\ r.at = "zst"
    <2>1. PICK w : w = [r EXCEPT !.at = "raw"]
      OBVIOUS
    <2>2. SetCall(c, w)
      BY <1>1, <1>7, <2>1 DEF Locate
    <2>3. /\ w.pc = "locate" /\ w.op = r.op /\ w.d = r.d /\ w.uri = r.uri
          /\ w.form = r.form /\ w.at = "raw" /\ w.result = r.result /\ w \in CallRow
      BY <1>2, <2>1 DEF CallRow, Forms
    <2>4. OneFormEach => Informed(w, s)
      <3> SUFFICES ASSUME OneFormEach, "zst" \in WrittenAs(r.d) PROVE "no blob" \in s
        BY <2>3 DEF Informed
      <3>1. Stored(r.d) = {}
        BY <1>4, <1>7, MissingIsAbsent
      <3> QED
        BY <1>1, <1>2, <1>3, <3>1, SeenNow
    <2>5. Fits(w, s)
      BY <1>4, <1>5, <2>3, <2>4 DEF Fits
    <2> QED
      BY <1>2, <1>3, <1>4, <2>2, <2>3, <2>5, QuietMove
  <1>8. CASE r.at \notin Stored(r.d) /\ r.at # "zst"
    <2>1. PICK w : w = [r EXCEPT !.pc = WhenMissing(r.op)]
      OBVIOUS
    <2>2. SetCall(c, w)
      BY <1>1, <1>8, <2>1 DEF Locate, BlobGoto
    <2>3. /\ WhenMissing(r.op) \in {"stage", "upload", "absent", "probe"}
          /\ WhenMissing(r.op) \in {"stage", "upload"} => r.op \in {"put", "archive"}
          /\ WhenMissing(r.op) \in {"stage", "absent"} => substrate = "fs"
      BY DEF WhenMissing
    <2>4. substrate = "fs" => "bucket" \in s
      BY <1>2, <1>3 DEF StoreInv, NamespaceThere
    <2>5. /\ w.pc = WhenMissing(r.op) /\ w.op = r.op /\ w.d = r.d /\ w.uri = r.uri
          /\ w.form = r.form /\ w.at = r.at /\ w.result = r.result /\ w \in CallRow
      BY <2>1, <2>3 DEF CallRow
    <2>6. OneFormEach => Informed(w, s)
      <3> SUFFICES ASSUME OneFormEach PROVE "no blob" \in s
        BY <2>3, <2>5 DEF Informed
      <3>1. r.at = "raw"
        BY <1>4, <1>8 DEF Forms
      <3>2. CASE "zst" \in WrittenAs(r.d)
        BY <1>2, <1>3, <1>4, <3>1, <3>2 DEF Informed
      <3>3. CASE "zst" \notin WrittenAs(r.d)
        <4>1. \A g \in Forms : g # r.at => g \notin WrittenAs(r.d)
          BY <3>1, <3>3 DEF Forms
        <4>2. Stored(r.d) = {}
          BY <1>4, <1>8, <4>1, MissingIsAbsent
        <4> QED
          BY <1>1, <1>2, <1>3, <4>2, SeenNow
      <3> QED
        BY <3>2, <3>3
    <2>7. Fits(w, s)
      BY <1>4, <1>5, <2>3, <2>4, <2>5, <2>6 DEF Fits
    <2> QED
      BY <1>2, <1>3, <1>4, <2>2, <2>5, <2>7, QuietMove
  <1> QED
    BY <1>6, <1>7, <1>8

\* A call that ends without having changed anything.
LEMMA FinishKeepsStore ==
    ASSUME StoreInv, Watch, NEW c \in Calls, NEW result, Finish(c, result),
           result \in Results,
           result = "artifact" => call[c].op = "archive" /\ references[call[c].uri] = call[c].d,
           OneFormEach => Told(result, seen[c]), UNCHANGED store, faults' \in Nat, staging' \subseteq Calls
    PROVE  StoreInv'
  <1>1. PICK r \in CallRow : r = call[c]
    BY AtHand
  <1>2. PICK w : w = [r EXCEPT !.pc = "idle", !.result = result]
    OBVIOUS
  <1>3. PICK s : s = seen'[c]
    OBVIOUS
  <1>4. SetCall(c, w) /\ Fits(r, seen[c])
    BY <1>1, <1>2, AtHand DEF Finish
  <1>5. /\ w.pc = "idle" /\ w.op = r.op /\ w.d = r.d /\ w.form = r.form /\ w.uri = r.uri
        /\ w.result = result /\ w \in CallRow
    BY <1>1, <1>2 DEF CallRow
  <1>6. Fits(w, s)
    <2>1. call'[c] = w
      BY <1>4, <1>5, AtHand, SetCallGives
    <2>2. s = seen[c]
      BY <1>3, <1>5, <2>1, AtHand, WatchGives
    <2>3. OneFormEach => Told(w.result, s) /\ Informed(w, s)
      BY <1>5, <2>2 DEF Informed
    <2> QED
      BY <1>1, <1>4, <1>5, <2>3 DEF Fits
  <1>7. w.result = "artifact" => references[w.uri] = w.d
    BY <1>1, <1>5
  <1> QED
    BY <1>3, <1>4, <1>5, <1>6, <1>7, QuietMove

\* A call that goes on to its next request without having changed anything.
LEMMA GotoKeepsStore ==
    ASSUME StoreInv, Watch, NEW c \in Calls, call[c].pc # "idle",
           NEW pc \in {"absent", "replace", "insert"}, BlobGoto(c, pc),
           pc = "absent" => call[c].pc = "probe" /\ bucket,
           pc = "replace" => call[c].pc = "stage", pc = "insert" => call[c].pc = "lookup",
           UNCHANGED store, faults' \in Nat, staging' \subseteq Calls
    PROVE  StoreInv'
  <1>1. PICK r \in CallRow : r = call[c]
    BY AtHand
  <1>2. PICK w : w = [r EXCEPT !.pc = pc]
    OBVIOUS
  <1>3. PICK s : s = seen'[c]
    OBVIOUS
  <1>4. SetCall(c, w) /\ Fits(r, seen[c])
    BY <1>1, <1>2, AtHand DEF BlobGoto
  <1>5. /\ w.pc = pc /\ w.op = r.op /\ w.d = r.d /\ w.uri = r.uri
        /\ w.form = r.form /\ w.at = r.at /\ w.result = r.result /\ w \in CallRow
    BY <1>2 DEF CallRow
  <1>6. seen[c] \subseteq s /\ (bucket => "bucket" \in s)
    BY <1>3, SeenNow
  <1>7. OneFormEach => Told(w.result, s) /\ Informed(w, s)
    <2>1. OneFormEach => Told(r.result, seen[c]) /\ Informed(r, seen[c])
      BY <1>4 DEF Fits
    <2> QED
      BY <1>1, <1>5, <1>6, <2>1 DEF Told, Informed
  <1>8. Fits(w, s)
    BY <1>1, <1>4, <1>5, <1>6, <1>7 DEF Fits
  <1>9. w.result = "artifact" => references[w.uri] = w.d
    BY <1>1, <1>5 DEF StoreInv, ArtifactNamesContent
  <1> QED
    BY <1>3, <1>4, <1>5, <1>8, <1>9, QuietMove

\* What a call that has not ended knows where it stands.
LEMMA KnownAt ==
    ASSUME StoreInv, NEW c \in Calls, call[c].pc # "idle"
    PROVE  /\ call[c].d \in Digests
           /\ bucket => "bucket" \in seen[c]
           /\ ~bucket => "no bucket" \in seen[c]
           /\ Stored(call[c].d) = {} => "no blob" \in seen[c]
           /\ call[c].pc = "absent" => "bucket" \in seen[c]
           /\ call[c].pc \in {"stage", "replace", "upload", "probe", "absent"} =>
                  (OneFormEach => "no blob" \in seen[c])
  BY AtHand DEF Fits, Informed, Now

\* A refusal or a silence: of head_bucket, a refusal says that the bucket is there.
LEMMA StoreFaultKeepsStore ==
    ASSUME StoreInv, Watch, NEW c \in Calls, StoreFault(c)
    PROVE  StoreInv'
  <1>1. /\ UNCHANGED store /\ staging' = staging /\ faults' = faults + 1
        /\ call[c].pc \in {"locate", "upload", "read", "unlink", "probe"}
    BY DEF StoreFault
  <1>2. faults' \in Nat /\ staging' \subseteq Calls
    <2>1. faults \in Nat /\ staging \subseteq Calls
      BY AtHand DEF BlobTypeOK
    <2> QED
      BY <1>1, <2>1
  <1>3. PICK a \in {Refusal, Timeout, Overloaded} :
          /\ a = Refusal => bucket
          /\ IF call[c].pc = "probe" /\ translate_s3_error(a) = "access_denied"
             THEN BlobGoto(c, "absent") ELSE Finish(c, translate_failure(a))
    BY DEF StoreFault
  <1>4. CASE call[c].pc = "probe" /\ translate_s3_error(a) = "access_denied"
    <2>1. a = Refusal
      BY <1>4 DEF translate_s3_error, ByClass, ByStatus, Answer, Timeout, Overloaded
    <2> QED
      BY <1>1, <1>2, <1>3, <1>4, <2>1, GotoKeepsStore
  <1>5. CASE ~(call[c].pc = "probe" /\ translate_s3_error(a) = "access_denied")
    <2>1. PICK result : result = translate_failure(a)
      OBVIOUS
    <2>2. Finish(c, result)
      BY <1>3, <1>5, <2>1
    <2>3. result \in {"access_denied", "unreachable"}
      BY <2>1, FaultIsTold
    <2>4. result \in Results /\ result # "artifact" /\ Told(result, seen[c])
      BY <2>3 DEF Results, Told
    <2> QED
      BY <1>1, <1>2, <2>2, <2>4, FinishKeepsStore
  <1> QED
    BY <1>4, <1>5

\* The answers that change nothing: of head_bucket, of an absence, of a name, of a read.
LEMMA AnswerKeepsStore ==
    ASSUME StoreInv, Watch, NEW c \in Calls,
           Probe(c) \/ ReturnAbsent(c) \/ Return(c) \/ Stage(c) \/ LookupUri(c)
    PROVE  StoreInv'
  <1>1. staging \subseteq Calls /\ faults \in Nat
    BY AtHand DEF BlobTypeOK
  <1>2. CASE Probe(c)
    <2>1. call[c].pc = "probe" /\ UNCHANGED <<store, staging, faults>>
      BY <1>2 DEF Probe
    <2>2. CASE bucket
      BY <1>1, <1>2, <2>1, <2>2, GotoKeepsStore DEF Probe
    <2>3. CASE ~bucket
      <3>1. Told("no_bucket", seen[c])
        BY <2>1, <2>3, KnownAt DEF Told
      <3> QED
        BY <1>1, <1>2, <2>1, <2>3, <3>1, FinishKeepsStore DEF Probe, Results
    <2> QED
      BY <2>2, <2>3
  <1>3. CASE ReturnAbsent(c)
    <2>1. call[c].pc = "absent" /\ UNCHANGED <<store, staging, faults>>
      BY <1>3 DEF ReturnAbsent
    <2>2. PICK result : /\ Finish(c, result) /\ result \in {"absent", "not_found"}
      BY <1>3 DEF ReturnAbsent
    <2>3. OneFormEach => Told(result, seen[c])
      BY <2>1, <2>2, KnownAt DEF Told
    <2> QED
      BY <1>1, <2>1, <2>2, <2>3, FinishKeepsStore DEF Results
  <1>4. CASE Return(c)
    <2>1. UNCHANGED <<store, staging, faults>>
      BY <1>4 DEF Return
    <2>2. PICK result : Finish(c, result) /\ result \in {"present", "ref"}
      BY <1>4 DEF Return
    <2>3. Told(result, seen[c])
      BY <2>2 DEF Told
    <2> QED
      BY <1>1, <2>1, <2>2, <2>3, FinishKeepsStore DEF Results
  <1>5. CASE Stage(c)
    BY <1>1, <1>5, GotoKeepsStore DEF Stage
  <1>6. CASE LookupUri(c)
    <2>1. call[c].pc = "lookup" /\ UNCHANGED <<store, staging, faults>>
      BY <1>6 DEF LookupUri
    <2>2. CASE references[call[c].uri] = Nothing
      BY <1>1, <1>6, <2>1, <2>2, GotoKeepsStore DEF LookupUri
    <2>3. CASE references[call[c].uri] # Nothing
      <3>1. PICK result : /\ Finish(c, result) /\ result \in {"artifact", "rejected"}
                          /\ result = "artifact" => references[call[c].uri] = call[c].d
        BY <1>6, <2>3 DEF LookupUri, Agree
      <3>3. call[c].op = "archive"
        BY <2>1, AtHand DEF Fits
      <3>2. Told(result, seen[c])
        BY <3>1 DEF Told
      <3> QED
        BY <1>1, <2>1, <3>1, <3>2, <3>3, FinishKeepsStore DEF Results
    <2> QED
      BY <2>2, <2>3
  <1> QED
    BY <1>2, <1>3, <1>4, <1>5, <1>6

\* What a read is answered.
LEMMA ReadIsTold ==
    ASSUME StoreInv, NEW c \in Calls, call[c].pc = "read", NEW result \in ReadResults(c)
    PROVE  /\ result \in {"not_found", "no_bucket", "corrupt", "bytes"}
           /\ OneFormEach => Told(result, seen[c])
  <1>1. /\ call[c].d \in Digests /\ call[c].at \in Forms
        /\ call[c].at \in WrittenAs(call[c].d)
    BY AtHand, KnownAt DEF Fits, CallRow
  <1>2. CASE ~bucket \/ blobs[<<call[c].d, call[c].at>>] = "none"
    <2>1. result = IF bucket THEN "not_found" ELSE "no_bucket"
      BY <1>2, AbsenceIsTold DEF ReadResults
    <2>2. OneFormEach /\ bucket => Stored(call[c].d) = {}
      BY <1>1, <1>2, MissingIsAbsent DEF Stored
    <2> QED
      BY <2>1, <2>2, KnownAt DEF Told
  <1>3. CASE ~(~bucket \/ blobs[<<call[c].d, call[c].at>>] = "none")
    <2>1. result \in {"corrupt", "bytes"}
      BY <1>3 DEF ReadResults
    <2> QED
      BY <2>1 DEF Told
  <1> QED
    BY <1>2, <1>3

\* get.
LEMMA ReadKeepsStore ==
    ASSUME StoreInv, Watch, NEW c \in Calls, Read(c)
    PROVE  StoreInv'
  <1>1. call[c].pc = "read" /\ UNCHANGED <<store, staging, faults>>
    BY DEF Read
  <1>2. staging \subseteq Calls /\ faults \in Nat
    BY AtHand DEF BlobTypeOK
  <1>3. PICK result \in ReadResults(c) : Finish(c, result)
    BY DEF Read
  <1>4. result \in Results /\ result # "artifact" /\ (OneFormEach => Told(result, seen[c]))
    BY <1>1, <1>3, ReadIsTold DEF Results
  <1> QED
    BY <1>1, <1>2, <1>3, <1>4, FinishKeepsStore

\* A call that moves while it changes the store: what was backed stays so, and a
\* row that names something stays as it is.
LEMMA StoreMove ==
    ASSUME StoreInv, Watch, NEW c \in Calls, NEW w \in CallRow, SetCall(c, w), NEW s, s = seen'[c],
           substrate' = substrate, bucket' = bucket, started' = started, faults' = faults,
           \A d \in Digests : Backed(d) => Backed(d)', Fits(w, s)',
           blobs' \in [Digests \X Forms -> {"none", "good", "bad"}], lost' \subseteq Digests,
           staging' \subseteq Calls, dest' \in [Digests -> {"none", "good"}],
           references' \in [Uris -> Digests \union {Nothing}],
           StoredAsWritten', WholeOrLost',
           \A u \in Uris : references[u] # Nothing => references'[u] = references[u],
           \A u \in Uris, d \in Digests : references'[u] = d /\ references[u] # d => Backed(d),
           w.result = "artifact" => references'[w.uri] = w.d
    PROVE  StoreInv'
  <1>1. /\ call' \in [Calls -> CallRow]
        /\ seen' \in [Calls -> SUBSET {"bucket", "no bucket", "no blob"}]
        /\ \A e \in Calls : CallFine(e)'
    BY CallMoves
  <1>2. BlobTypeOK'
    <2>1. /\ substrate' \in {"fs", "s3"} /\ bucket' \in BOOLEAN
          /\ started' \in Nat /\ faults' \in Nat
      BY AtHand DEF BlobTypeOK
    <2> QED
      BY <1>1, <2>1 DEF BlobTypeOK
  <1>3. NamespaceThere'
    BY DEF StoreInv, NamespaceThere
  <1>4. RowsBacked'
    <2>1. ASSUME NEW u \in Uris, NEW d \in Digests, references'[u] = d PROVE Backed(d)'
      <3>1. Backed(d)
        BY <2>1, BlobStoreAssumption DEF StoreInv, RowsBacked, Nothing
      <3> QED
        BY <3>1
    <2>2. \A u \in Uris : references'[u] # Nothing => references'[u] \in Digests
      OBVIOUS
    <2>3. \A u \in Uris : references'[u] # Nothing => \E d \in Digests : d = references'[u] /\ Backed(d)'
      BY <2>1, <2>2
    <2> QED
      BY <2>3 DEF RowsBacked, Backed, IsWhole
  <1>5. ArtifactNamesContent'
    <2>1. call'[c] = w /\ \A e \in Calls : e # c => call'[e] = call[e]
      BY AtHand, SetCallGives
    <2>2. ASSUME NEW e \in Calls, call[e].result = "artifact"
          PROVE  references'[call[e].uri] = call[e].d
      <3>1. call[e].op = "archive" /\ call[e].uri \in Uris /\ call[e].d \in Digests
        BY <2>2, AtHand DEF Fits
      <3>2. references[call[e].uri] = call[e].d
        BY <2>2 DEF StoreInv, ArtifactNamesContent
      <3> QED
        BY <3>1, <3>2, BlobStoreAssumption DEF Nothing
    <2> QED
      BY <2>1, <2>2 DEF ArtifactNamesContent
  <1> QED
    BY <1>1, <1>2, <1>3, <1>4, <1>5 DEF StoreInv

\* A call that ends keeps what it was about, and is told what it saw.
LEMMA Ended ==
    ASSUME StoreInv, Watch, NEW c \in Calls, NEW result \in Results, Finish(c, result),
           result = "artifact" => call[c].op = "archive",
           OneFormEach => Told(result, seen[c]), NEW s, s = seen'[c]
    PROVE  \E w \in CallRow :
              /\ SetCall(c, w) /\ Fits(w, s)'
              /\ w.result = result /\ w.d = call[c].d /\ w.uri = call[c].uri
  <1>1. PICK r \in CallRow : r = call[c] /\ Fits(r, seen[c])
    BY AtHand
  <1>2. PICK w : w = [r EXCEPT !.pc = "idle", !.result = result]
    OBVIOUS
  <1>3. /\ w \in CallRow /\ w.pc = "idle" /\ w.op = r.op /\ w.d = r.d
        /\ w.uri = r.uri /\ w.form = r.form /\ w.result = result
    BY <1>2 DEF CallRow
  <1>4. SetCall(c, w)
    BY <1>1, <1>2 DEF Finish
  <1>5. s = seen[c]
    <2>1. call'[c] = w
      BY <1>3, <1>4, AtHand, SetCallGives
    <2> QED
      BY <1>3, <2>1, AtHand, WatchGives
  <1>6. OneFormEach => Told(w.result, s) /\ Informed(w, s)
    BY <1>3, <1>5 DEF Informed
  <1>7. /\ r.op # "none" => r.d \in Digests
        /\ r.op = "archive" => r.uri \in Uris
        /\ r.op \in {"put", "archive"} => r.form \in WrittenAs(r.d)
    BY <1>1 DEF Fits
  <1>8. Fits(w, s)'
    BY <1>1, <1>3, <1>6, <1>7 DEF Fits
  <1> QED
    BY <1>1, <1>3, <1>4, <1>8

\* export_to_file.
LEMMA RestoreKeepsStore ==
    ASSUME StoreInv, Watch, NEW c \in Calls, Restore(c)
    PROVE  StoreInv'
  <1>1. /\ call[c].pc = "read"
        /\ UNCHANGED <<substrate, bucket, blobs, staging, references, started, faults, lost>>
    BY DEF Restore
  <1>2. PICK result \in ReadResults(c) :
          /\ dest' = IF result = "bytes" THEN [dest EXCEPT ![call[c].d] = "good"] ELSE dest
          /\ Finish(c, result)
    BY DEF Restore, Export
  <1>3. result \in Results /\ result # "artifact" /\ (OneFormEach => Told(result, seen[c]))
    BY <1>1, <1>2, ReadIsTold DEF Results
  <1>4. PICK s : s = seen'[c]
    OBVIOUS
  <1>5. PICK w \in CallRow : SetCall(c, w) /\ Fits(w, s)' /\ w.result = result
    BY <1>2, <1>3, <1>4, Ended
  <1>6. /\ blobs \in [Digests \X Forms -> {"none", "good", "bad"}] /\ lost \subseteq Digests
        /\ staging \subseteq Calls /\ references \in [Uris -> Digests \union {Nothing}]
        /\ dest' \in [Digests -> {"none", "good"}]
    BY <1>2, AtHand DEF BlobTypeOK
  <1>7. /\ \A d : Backed(d)' <=> Backed(d)
        /\ StoredAsWritten' /\ WholeOrLost'
    BY <1>1 DEF StoreInv, StoredAsWritten, WholeOrLost, Backed, IsWhole
  <1> QED
    BY <1>1, <1>3, <1>4, <1>5, <1>6, <1>7, StoreMove

\* The insert of the row, which another archive call may have won.
LEMMA InsertKeepsStore ==
    ASSUME StoreInv, Watch, NEW c \in Calls, InsertRow(c)
    PROVE  StoreInv'
  <1>1. /\ call[c].pc = "insert"
        /\ UNCHANGED <<substrate, bucket, blobs, staging, dest, started, faults, lost>>
    BY DEF InsertRow
  <1>2. /\ call[c].op = "archive" /\ call[c].uri \in Uris /\ call[c].d \in Digests
        /\ Backed(call[c].d)
    BY <1>1, AtHand DEF Fits
  <1>3. PICK result :
          /\ Finish(c, result) /\ result \in {"artifact", "rejected"}
          /\ result = "artifact" => references'[call[c].uri] = call[c].d
          /\ \/ references' = references
             \/ /\ references[call[c].uri] = Nothing
                /\ references' = [references EXCEPT ![call[c].uri] = call[c].d]
    BY <1>1, <1>2, AtHand DEF InsertRow, Agree, BlobTypeOK
  <1>4. result \in Results /\ Told(result, seen[c])
    BY <1>3 DEF Results, Told
  <1>5. PICK s : s = seen'[c]
    OBVIOUS
  <1>6. PICK w \in CallRow : /\ SetCall(c, w) /\ Fits(w, s)'
                             /\ w.result = result /\ w.d = call[c].d /\ w.uri = call[c].uri
    BY <1>2, <1>3, <1>4, <1>5, Ended
  <1>7. /\ blobs \in [Digests \X Forms -> {"none", "good", "bad"}] /\ lost \subseteq Digests
        /\ staging \subseteq Calls /\ dest \in [Digests -> {"none", "good"}]
        /\ references \in [Uris -> Digests \union {Nothing}]
    BY AtHand DEF BlobTypeOK
  <1>8. /\ references' \in [Uris -> Digests \union {Nothing}]
        /\ \A u \in Uris : references[u] # Nothing => references'[u] = references[u]
        /\ \A u \in Uris, d \in Digests : references'[u] = d /\ references[u] # d => Backed(d)
    BY <1>2, <1>3, <1>7
  <1>9. /\ \A d : Backed(d)' <=> Backed(d)
        /\ StoredAsWritten' /\ WholeOrLost'
    BY <1>1 DEF StoreInv, StoredAsWritten, WholeOrLost, Backed, IsWhole
  <1>10. w.result = "artifact" => references'[w.uri] = w.d
    BY <1>3, <1>6
  <1>11. /\ substrate' = substrate /\ bucket' = bucket /\ started' = started /\ faults' = faults
         /\ blobs' \in [Digests \X Forms -> {"none", "good", "bad"}] /\ lost' \subseteq Digests
         /\ staging' \subseteq Calls /\ dest' \in [Digests -> {"none", "good"}]
    BY <1>1, <1>7
  <1>12. \A d \in Digests : Backed(d) => Backed(d)'
    BY <1>9
  <1> QED
    BY <1>5, <1>6, <1>8, <1>9, <1>10, <1>11, <1>12, StoreMove

\* A blob that is written is whole, in a form it is written in, and no longer lost.
LEMMA WriteKeepsStore ==
    ASSUME StoreInv, Watch, NEW c \in Calls, call[c].pc \in {"replace", "upload"},
           blobs' = [blobs EXCEPT ![Target(c)] = "good"], lost' = lost \ {call[c].d},
           BlobGoto(c, AfterWrite(call[c].op)), staging' \subseteq Calls,
           UNCHANGED <<substrate, bucket, dest, references, started, faults>>
    PROVE  StoreInv'
  <1>1. PICK r \in CallRow : r = call[c] /\ Fits(r, seen[c])
    BY AtHand
  <1>2. /\ r.op \in {"put", "archive"} /\ r.form \in WrittenAs(r.d) /\ r.d \in Digests
        /\ r.form \in Forms
        /\ r.op = "archive" => r.uri \in Uris
        /\ r.result = "artifact" => r.op = "archive" /\ references[r.uri] = r.d
    BY <1>1 DEF Fits, CallRow, StoreInv, ArtifactNamesContent
  <1>3. /\ blobs \in [Digests \X Forms -> {"none", "good", "bad"}] /\ lost \subseteq Digests
        /\ dest \in [Digests -> {"none", "good"}]
        /\ references \in [Uris -> Digests \union {Nothing}]
    BY AtHand DEF BlobTypeOK
  <1>4. /\ blobs' \in [Digests \X Forms -> {"none", "good", "bad"}] /\ lost' \subseteq Digests
        /\ blobs'[<<r.d, r.form>>] = "good"
        /\ \A d \in Digests, f \in Forms :
              <<d, f>> # <<r.d, r.form>> => blobs'[<<d, f>>] = blobs[<<d, f>>]
    <2>1. blobs' = [blobs EXCEPT ![<<r.d, r.form>>] = "good"] /\ lost' = lost \ {r.d}
      BY <1>1 DEF Target
    <2>2. <<r.d, r.form>> \in Digests \X Forms
      BY <1>2
    <2> QED
      BY <1>3, <2>1, <2>2
  <1>5. IsWhole(r.d)' /\ \A d \in Digests : IsWhole(d) => IsWhole(d)'
    BY <1>2, <1>4 DEF IsWhole
  <1>6. \A d \in Digests : Backed(d) => Backed(d)'
    BY <1>1, <1>5 DEF Backed
  <1>7. StoredAsWritten'
    BY <1>2, <1>4 DEF StoreInv, StoredAsWritten
  <1>8. WholeOrLost'
    BY <1>1, <1>2, <1>4, <1>5 DEF StoreInv, WholeOrLost
  <1>9. PICK w : w = [r EXCEPT !.pc = AfterWrite(r.op)]
    OBVIOUS
  <1>10. PICK s : s = seen'[c]
    OBVIOUS
  <1>11. AfterWrite(r.op) \in {"lookup", "return"} /\ (AfterWrite(r.op) = "lookup" => r.op = "archive")
    BY DEF AfterWrite
  <1>12. /\ w \in CallRow /\ SetCall(c, w) /\ w.pc = AfterWrite(r.op) /\ w.op = r.op /\ w.d = r.d
         /\ w.uri = r.uri /\ w.form = r.form /\ w.result = r.result
    BY <1>1, <1>9, <1>11 DEF CallRow, BlobGoto
  <1>13. OneFormEach => Told(w.result, s) /\ Informed(w, s)
    <2>1. OneFormEach => Told(r.result, seen[c])
      BY <1>1 DEF Fits
    <2>2. seen[c] \subseteq s
      BY <1>10, SeenNow
    <2>3. Informed(w, s)
      BY <1>11, <1>12 DEF Informed
    <2> QED
      BY <1>12, <2>1, <2>2, <2>3 DEF Told
  <1>14. Fits(w, s)'
    <2>1. Backed(r.d)'
      BY <1>5 DEF Backed
    <2>2. Backed(w.d)'
      BY <1>12, <2>1
    <2> QED
      BY <1>2, <1>11, <1>12, <1>13, <2>2 DEF Fits
  <1>15. w.result = "artifact" => references'[w.uri] = w.d
    BY <1>2, <1>12
  <1> QED
    BY <1>3, <1>4, <1>6, <1>7, <1>8, <1>10, <1>12, <1>14, <1>15, StoreMove

\* os.replace, or put_object: a scratch file that was cleared, or a bucket that is gone.
LEMMA PlaceKeepsStore ==
    ASSUME StoreInv, Watch, NEW c \in Calls, Replace(c) \/ Upload(c)
    PROVE  StoreInv'
  <1>1. staging \subseteq Calls /\ faults \in Nat
    BY AtHand DEF BlobTypeOK
  <1>2. CASE Replace(c)
    <2>1. /\ call[c].pc = "replace" /\ staging' = staging \ {c}
          /\ UNCHANGED <<substrate, bucket, dest, references, started, faults>>
      BY <1>2 DEF Replace
    <2>2. CASE c \in staging
      BY <1>1, <1>2, <2>1, <2>2, WriteKeepsStore DEF Replace
    <2>3. CASE c \notin staging
      <3>1. Finish(c, "not_found") /\ UNCHANGED store
        BY <1>2, <2>1, <2>3 DEF Replace, store
      <3>2. bucket
        BY <2>1, AtHand DEF Fits, StoreInv, NamespaceThere
      <3>3. OneFormEach => Told("not_found", seen[c])
        BY <2>1, <3>2, KnownAt DEF Told
      <3> QED
        BY <1>1, <2>1, <3>1, <3>3, FinishKeepsStore DEF Results
    <2> QED
      BY <2>2, <2>3
  <1>3. CASE Upload(c)
    <2>1. /\ call[c].pc = "upload"
          /\ UNCHANGED <<substrate, bucket, staging, dest, references, started, faults>>
      BY <1>3 DEF Upload
    <2>2. CASE bucket
      BY <1>1, <1>3, <2>1, <2>2, WriteKeepsStore DEF Upload
    <2>3. CASE ~bucket
      <3>1. PICK a \in Absences : Finish(c, translate_failure(a)) /\ UNCHANGED store
        BY <1>3, <2>1, <2>3 DEF Upload, store
      <3>2. translate_failure(a) = "no_bucket"
        BY <2>3, <3>1, AbsenceIsTold
      <3>3. Finish(c, "no_bucket")
        BY <3>1, <3>2
      <3>4. Told("no_bucket", seen[c])
        BY <2>1, <2>3, KnownAt DEF Told
      <3> QED
        BY <1>1, <2>1, <3>1, <3>3, <3>4, FinishKeepsStore DEF Results
    <2> QED
      BY <2>2, <2>3
  <1> QED
    BY <1>2, <1>3

\* delete: the blob that goes is lost; one that has gone already is told as such.
LEMMA UnlinkKeepsStore ==
    ASSUME StoreInv, Watch, NEW c \in Calls, Unlink(c)
    PROVE  StoreInv'
  <1>1. PICK r \in CallRow : r = call[c] /\ Fits(r, seen[c])
    BY AtHand
  <1>2. /\ r.pc = "unlink"
        /\ UNCHANGED <<substrate, bucket, staging, dest, references, started, faults>>
    BY <1>1 DEF Unlink
  <1>3. /\ r.d \in Digests /\ r.at \in Forms /\ r.at \in WrittenAs(r.d)
        /\ <<r.d, r.at>> \in Digests \X Forms
    BY <1>1, <1>2 DEF Fits, CallRow
  <1>4. /\ blobs \in [Digests \X Forms -> {"none", "good", "bad"}] /\ lost \subseteq Digests
        /\ dest \in [Digests -> {"none", "good"}] /\ staging \subseteq Calls /\ faults \in Nat
        /\ references \in [Uris -> Digests \union {Nothing}]
    BY AtHand DEF BlobTypeOK
  <1>5. CASE bucket /\ blobs[<<r.d, r.at>>] # "none"
    <2>1. /\ blobs' = [blobs EXCEPT ![<<r.d, r.at>>] = "none"] /\ lost' = lost \union {r.d}
          /\ Finish(c, "deleted")
      BY <1>1, <1>5 DEF Unlink
    <2>2. /\ blobs' \in [Digests \X Forms -> {"none", "good", "bad"}] /\ lost' \subseteq Digests
          /\ blobs'[<<r.d, r.at>>] = "none"
          /\ \A d \in Digests, f \in Forms :
                <<d, f>> # <<r.d, r.at>> => blobs'[<<d, f>>] = blobs[<<d, f>>]
      BY <1>3, <1>4, <2>1
    <2>3. \A d \in Digests : d # r.d => (IsWhole(d)' <=> IsWhole(d))
      BY <2>2 DEF IsWhole
    <2>4. \A d \in Digests : Backed(d) => Backed(d)'
      BY <2>1, <2>3 DEF Backed
    <2>5. StoredAsWritten'
      BY <2>2 DEF StoreInv, StoredAsWritten
    <2>6. WholeOrLost'
      BY <2>1, <2>2, <2>3 DEF StoreInv, WholeOrLost
    <2>7. Told("deleted", seen[c])
      BY DEF Told
    <2>8. PICK s : s = seen'[c]
      OBVIOUS
    <2>9. PICK w \in CallRow : SetCall(c, w) /\ Fits(w, s)' /\ w.result = "deleted"
      BY <2>1, <2>7, <2>8, Ended DEF Results
    <2> QED
      BY <1>2, <1>4, <2>2, <2>4, <2>5, <2>6, <2>8, <2>9, StoreMove
  <1>6. CASE ~(bucket /\ blobs[<<r.d, r.at>>] # "none")
    <2>1. PICK a \in Absences :
            /\ Finish(c, IF substrate = "fs" THEN "not_found"
                         ELSE IF bucket THEN "deleted" ELSE translate_failure(a))
            /\ UNCHANGED store
      BY <1>1, <1>2, <1>6 DEF Unlink, store
    <2>2. translate_failure(a) = IF bucket THEN "not_found" ELSE "no_bucket"
      BY <2>1, AbsenceIsTold
    <2>3. PICK result : /\ Finish(c, result)
                        /\ result = IF substrate = "fs" THEN "not_found"
                                    ELSE IF bucket THEN "deleted" ELSE "no_bucket"
      BY <2>1, <2>2
    <2>4. substrate = "fs" => bucket
      BY DEF StoreInv, NamespaceThere
    <2>5. OneFormEach /\ bucket => Stored(r.d) = {}
      BY <1>3, <1>6, MissingIsAbsent DEF Stored
    <2>6. OneFormEach => Told(result, seen[c])
      BY <1>1, <1>2, <2>3, <2>4, <2>5, KnownAt DEF Told
    <2>7. result \in Results /\ result # "artifact"
      BY <2>3 DEF Results
    <2> QED
      BY <1>2, <1>4, <2>1, <2>3, <2>6, <2>7, FinishKeepsStore
  <1> QED
    BY <1>5, <1>6

\* What happens to the store while no call moves.
LEMMA WorldMove ==
    ASSUME StoreInv, Watch, UNCHANGED <<substrate, dest, references, call, started>>,
           \A d \in Digests : Backed(d) => Backed(d)',
           bucket' \in BOOLEAN, blobs' \in [Digests \X Forms -> {"none", "good", "bad"}],
           lost' \subseteq Digests, staging' \subseteq Calls, faults' \in Nat,
           NamespaceThere', StoredAsWritten', WholeOrLost'
    PROVE  StoreInv'
  <1>1. BlobTypeOK
    BY DEF StoreInv
  <1>2. \A e \in Calls : CallFine(e)'
    BY CallStaysFine
  <1>3. Calls = {} \/ seen' \in [Calls -> SUBSET {"bucket", "no bucket", "no blob"}]
    BY <1>1, WatchGives
  <1>4. seen' \in [Calls -> SUBSET {"bucket", "no bucket", "no blob"}]
    BY <1>3 DEF Watch
  <1>5. BlobTypeOK'
    BY <1>1, <1>4 DEF BlobTypeOK
  <1>6. RowsBacked'
    <2>1. \A u \in Uris : references[u] # Nothing => references[u] \in Digests
      BY <1>1 DEF BlobTypeOK
    <2>2. \A d \in Digests : Backed(d) => Backed(d)'
      OBVIOUS
    <2>3. \A u \in Uris : references'[u] # Nothing =>
            \E d \in Digests : d = references'[u] /\ Backed(d)'
      BY <2>1, <2>2 DEF StoreInv, RowsBacked
    <2> QED
      BY <2>3 DEF RowsBacked, Backed, IsWhole
  <1>7. ArtifactNamesContent'
    BY DEF StoreInv, ArtifactNamesContent
  <1> QED
    BY <1>2, <1>5, <1>6, <1>7 DEF StoreInv

\* A process that dies, scratch files that are cleared, rot, buckets that go and come.
LEMMA WorldKeepsStore ==
    ASSUME StoreInv, Watch,
           \/ \E c \in Calls : BlobCrash(c)
           \/ ClearStaging
           \/ \E d \in Digests, f \in Forms : Rot(d, f)
           \/ DropBucket \/ EnsureBucket
    PROVE  StoreInv'
  <1>1. /\ BlobTypeOK /\ StoredAsWritten /\ WholeOrLost /\ NamespaceThere
        /\ blobs \in [Digests \X Forms -> {"none", "good", "bad"}] /\ lost \subseteq Digests
        /\ staging \subseteq Calls /\ faults \in Nat /\ bucket \in BOOLEAN
    BY DEF StoreInv, BlobTypeOK
  <1>2. faults + 1 \in Nat
    BY <1>1
  <1>3. CASE \E c \in Calls : BlobCrash(c)
    <2>1. PICK c \in Calls : BlobCrash(c)
      BY <1>3
    <2>2. SetCall(c, NoCall) /\ UNCHANGED <<store, staging>> /\ faults' = faults + 1
      BY <2>1 DEF BlobCrash, SetCall
    <2>3. NoCall \in CallRow /\ NoCall.result = "none"
      BY DEF NoCall, CallRow, Forms, Nothing
    <2>4. PICK s : s = seen'[c]
      OBVIOUS
    <2>5. Fits(NoCall, s)
      BY DEF NoCall, Fits, Told, Informed
    <2> QED
      BY <1>1, <1>2, <2>2, <2>3, <2>4, <2>5, QuietMove
  <1>4. CASE ClearStaging
    <2>1. UNCHANGED <<substrate, bucket, blobs, dest, references, call, started, faults, lost>>
          /\ staging' = {}
      BY <1>4 DEF ClearStaging, store
    <2>2. \A d : Backed(d)' <=> Backed(d)
      BY <2>1 DEF Backed, IsWhole
    <2>3. NamespaceThere' /\ StoredAsWritten' /\ WholeOrLost'
      BY <1>1, <2>1 DEF NamespaceThere, StoredAsWritten, WholeOrLost, IsWhole
    <2> QED
      BY <1>1, <2>1, <2>2, <2>3, WorldMove
  <1>5. CASE \E d \in Digests, f \in Forms : Rot(d, f)
    <2>1. PICK d \in Digests, f \in Forms : Rot(d, f)
      BY <1>5
    <2>2. /\ blobs[<<d, f>>] = "good" /\ blobs' = [blobs EXCEPT ![<<d, f>>] = "bad"]
          /\ lost' = lost \union {d} /\ faults' = faults + 1
          /\ UNCHANGED <<substrate, bucket, staging, dest, references, call, started>>
      BY <2>1 DEF Rot
    <2>3. <<d, f>> \in Digests \X Forms
      OBVIOUS
    <2>4. /\ blobs' \in [Digests \X Forms -> {"none", "good", "bad"}] /\ blobs'[<<d, f>>] = "bad"
          /\ \A x \in Digests, g \in Forms :
                <<x, g>> # <<d, f>> => blobs'[<<x, g>>] = blobs[<<x, g>>]
      BY <1>1, <2>2, <2>3
    <2>5. \A x \in Digests : x # d => (IsWhole(x)' <=> IsWhole(x))
      BY <2>4 DEF IsWhole
    <2>6. \A x \in Digests : Backed(x) => Backed(x)'
      BY <2>2, <2>5 DEF Backed
    <2>7. StoredAsWritten'
      BY <1>1, <2>2, <2>4 DEF StoredAsWritten
    <2>8. WholeOrLost'
      BY <1>1, <2>2, <2>4, <2>5 DEF WholeOrLost
    <2>9. NamespaceThere'
      BY <1>1, <2>2 DEF NamespaceThere
    <2> QED
      BY <1>1, <1>2, <2>2, <2>4, <2>6, <2>7, <2>8, <2>9, WorldMove
  <1>6. CASE DropBucket
    <2>1. /\ substrate = "s3" /\ bucket' = FALSE /\ lost' = Digests /\ faults' = faults + 1
          /\ blobs' = [b \in DOMAIN blobs |-> "none"]
          /\ UNCHANGED <<substrate, staging, dest, references, call, started>>
      BY <1>6 DEF DropBucket
    <2>2. /\ blobs' \in [Digests \X Forms -> {"none", "good", "bad"}]
          /\ \A d \in Digests, f \in Forms : blobs'[<<d, f>>] = "none"
      BY <1>1, <2>1
    <2>3. NamespaceThere' /\ StoredAsWritten' /\ WholeOrLost'
      BY <2>1, <2>2 DEF NamespaceThere, StoredAsWritten, WholeOrLost
    <2>4. \A d \in Digests : Backed(d)'
      BY <2>1 DEF Backed
    <2> QED
      BY <1>1, <1>2, <2>1, <2>2, <2>3, <2>4, WorldMove
  <1>7. CASE EnsureBucket
    <2>1. /\ substrate = "s3" /\ bucket' = TRUE
          /\ UNCHANGED <<substrate, blobs, staging, dest, references, call, started, faults, lost>>
      BY <1>7 DEF EnsureBucket
    <2>2. \A d : Backed(d)' <=> Backed(d)
      BY <2>1 DEF Backed, IsWhole
    <2>3. NamespaceThere' /\ StoredAsWritten' /\ WholeOrLost'
      BY <1>1, <2>1 DEF NamespaceThere, StoredAsWritten, WholeOrLost, IsWhole
    <2> QED
      BY <1>1, <2>1, <2>2, <2>3, WorldMove
  <1> QED
    BY <1>3, <1>4, <1>5, <1>6, <1>7

LEMMA StoreStarts == Init => StoreInv
  <1> SUFFICES ASSUME Init PROVE StoreInv
    OBVIOUS
  <1>1. BlobTypeOK
    <2>1. NoCall \in CallRow
      BY DEF NoCall, CallRow, Forms, Nothing
    <2> QED
      BY <2>1, BlobStoreAssumption DEF Init, BlobTypeOK
  <1>2. NamespaceThere /\ RowsBacked
    BY DEF Init, NamespaceThere, RowsBacked
  <1>3. \A d \in Digests, f \in Forms : blobs[<<d, f>>] = "none"
    BY DEF Init
  <1>4. StoredAsWritten /\ WholeOrLost
    BY <1>3 DEF StoredAsWritten, WholeOrLost
  <1>5. \A c \in Calls : call[c] = NoCall /\ seen[c] = {}
    BY DEF Init
  <1>6. NoCall.pc = "idle" /\ NoCall.result = "none" /\ Fits(NoCall, {})
    BY DEF NoCall, Fits, Told, Informed
  <1>7. ArtifactNamesContent /\ \A c \in Calls : CallFine(c)
    BY <1>5, <1>6 DEF ArtifactNamesContent, CallFine
  <1> QED
    BY <1>1, <1>2, <1>4, <1>7 DEF StoreInv

LEMMA StoreStep == StoreInv /\ [Next]_vars => StoreInv'
  <1> SUFFICES ASSUME StoreInv, [Next]_vars PROVE StoreInv'
    OBVIOUS
  <1>1. CASE UNCHANGED vars
    <2>1. UNCHANGED <<substrate, bucket, blobs, staging, dest, references, call, started, faults,
                      seen, lost>>
      BY <1>1 DEF vars
    <2>2. /\ BlobTypeOK' /\ NamespaceThere' /\ StoredAsWritten' /\ WholeOrLost'
          /\ ArtifactNamesContent'
      BY <2>1 DEF StoreInv, BlobTypeOK, NamespaceThere, StoredAsWritten, WholeOrLost, IsWhole,
                 ArtifactNamesContent
    <2>3. RowsBacked'
      BY <2>1 DEF StoreInv, RowsBacked, Backed, IsWhole
    <2>4. \A c \in Calls : CallFine(c)'
      <3> SUFFICES ASSUME NEW c \in Calls PROVE CallFine(c)'
        OBVIOUS
      <3>1. CallFine(c)
        BY DEF StoreInv
      <3>2. Now(c)' = Now(c)
        BY <2>1 DEF Now, Stored
      <3>3. PICK w, s : w = call[c] /\ s = seen[c]
        OBVIOUS
      <3>4. Fits(w, s)'
        BY <2>1, <3>1, <3>3 DEF CallFine, Fits, Backed, IsWhole
      <3> QED
        BY <2>1, <3>1, <3>2, <3>3, <3>4 DEF CallFine
    <2> QED
      BY <2>2, <2>3, <2>4 DEF StoreInv
  <1>2. CASE Next
    <2>1. Watch
      BY <1>2 DEF Next
    <2>2. CASE \E c \in Calls, d \in Digests : \E f \in WrittenAs(d) :
                  \/ StartCall(c, "put", d, f, Nothing)
                  \/ \E u \in Uris : StartCall(c, "archive", d, f, u)
      <3>1. PICK c \in Calls, d \in Digests : \E f \in WrittenAs(d) :
                  \/ StartCall(c, "put", d, f, Nothing)
                  \/ \E u \in Uris : StartCall(c, "archive", d, f, u)
        BY <2>2
      <3>2. PICK f \in WrittenAs(d) :
                  \/ StartCall(c, "put", d, f, Nothing)
                  \/ \E u \in Uris : StartCall(c, "archive", d, f, u)
        BY <3>1
      <3>3. f \in Forms
        BY DEF WrittenAs, Forms
      <3> QED
        BY <2>1, <3>2, <3>3, StartKeepsStore
    <2>3. CASE \E c \in Calls, d \in Digests, op \in {"exists", "get", "restore", "delete"} :
                  StartCall(c, op, d, "zst", Nothing)
      <3>1. "zst" \in Forms
        BY DEF Forms
      <3>2. PICK c \in Calls, d \in Digests, op \in {"exists", "get", "restore", "delete"} :
                  StartCall(c, op, d, "zst", Nothing)
        BY <2>3
      <3> QED
        BY <2>1, <3>1, <3>2, StartKeepsStore
    <2>4. CASE \E c \in Calls : Step(c)
      BY <2>1, <2>4, LocateKeepsStore, StoreFaultKeepsStore, AnswerKeepsStore, ReadKeepsStore,
         RestoreKeepsStore, PlaceKeepsStore, UnlinkKeepsStore, InsertKeepsStore DEF Step
    <2>5. CASE \/ \E c \in Calls : BlobCrash(c)
               \/ ClearStaging
               \/ \E d \in Digests, f \in Forms : Rot(d, f)
               \/ DropBucket \/ EnsureBucket
      BY <2>1, <2>5, WorldKeepsStore
    <2>6. \/ \E c \in Calls, d \in Digests :
                \/ \E f \in WrittenAs(d) : StartCall(c, "put", d, f, Nothing)
                \/ \E op \in {"exists", "get", "restore", "delete"} :
                      StartCall(c, op, d, "zst", Nothing)
                \/ \E f \in WrittenAs(d), u \in Uris : StartCall(c, "archive", d, f, u)
          \/ \E c \in Calls : Step(c) \/ BlobCrash(c)
          \/ ClearStaging
          \/ \E d \in Digests, f \in Forms : Rot(d, f)
          \/ DropBucket \/ EnsureBucket
      BY <1>2 DEF Next
    <2> QED
      BY <2>2, <2>3, <2>4, <2>5, <2>6
  <1> QED
    BY <1>1, <1>2

LEMMA StoreAlways == Spec => []StoreInv
  BY StoreStarts, StoreStep, PTL DEF Spec

LEMMA RowsAreRetrievable == StoreInv => ArchivedIsRetrievable
  <1> SUFFICES ASSUME StoreInv, NEW u \in Uris, references[u] # Nothing, references[u] \notin lost
               PROVE  \E f \in Forms : blobs[<<references[u], f>>] = "good"
    BY DEF ArchivedIsRetrievable
  <1>1. Backed(references[u])
    BY DEF StoreInv, RowsBacked
  <1> QED
    BY <1>1 DEF Backed, IsWhole

LEMMA FilesAreWhole == StoreInv => RestoredIsWhole
  BY DEF StoreInv, BlobTypeOK, RestoredIsWhole

LEMMA AnswersTold == ASSUME OneFormEach PROVE StoreInv => AnswersAreTrue
  <1> SUFFICES ASSUME StoreInv, NEW c \in Calls PROVE Told(call[c].result, seen[c])
    BY DEF AnswersAreTrue, Told
  <1> QED
    BY AtHand DEF Fits

\* Whatever calls race, in whatever forms contents are written, and wherever a
\* process dies, the bucket goes or the disk rots: a row of the archive names a
\* blob that is whole until someone loses it, what is restored to a file is
\* whole, and an artifact handed back is the one the uri names
\* (ArtifactArchive.archive, ContentAddressedStore, S3BlobStore).
THEOREM ArchiveIsKept ==
    Spec => [](ArchivedIsRetrievable /\ RestoredIsWhole /\ ArtifactNamesContent)
  <1>1. StoreInv => ArchivedIsRetrievable /\ RestoredIsWhole /\ ArtifactNamesContent
    BY RowsAreRetrievable, FilesAreWhole DEF StoreInv
  <1> QED
    BY <1>1, StoreAlways, PTL

\* While the writers of each content agree on its form, as paa's do, "the blob is
\* not there", "the namespace is not there" and "the store cannot answer" are
\* never taken for each other either (translate_s3_error, _require_namespace).
THEOREM ArchiveIsSound == ASSUME OneFormEach PROVE Spec => []ArchiveSound
  <1>1. StoreInv => ArchiveSound
    BY RowsAreRetrievable, FilesAreWhole, AnswersTold DEF StoreInv, ArchiveSound
  <1> QED
    BY <1>1, StoreAlways, PTL

-----------------------------------------------------------------------------
(* The vector collection and its twin in Qdrant, for any ids, batches and   *)
(* number of calls and mishaps                                             *)

PointRow == [id : PointIds, v : Nat, pay : Payloads]
MatrixRow == [of : PointIds, v : Nat]
Open == {"open", "flush matrix", "flush sidecar"}

VectorTypeOK ==
    /\ ids \in Seq(PointIds) /\ payloads \in Seq(Payloads)
    /\ matrix \in Seq(MatrixRow)
    /\ phase \in Open \union {"down", "corrupt"}
    /\ matrixFile \in Seq(MatrixRow)
    /\ sidecarFile \in [ids : Seq(PointIds), payloads : Seq(Payloads)]
    /\ Len(payloads) = Len(ids) /\ Len(sidecarFile.payloads) = Len(sidecarFile.ids)
    /\ points \subseteq [key : {Encoded[i] : i \in PointIds}, id : PointIds, v : Nat, pay : Payloads]
    /\ calls \in Nat /\ mishaps \in Nat /\ twins \in BOOLEAN

Once(is) == \A i, j \in DOMAIN is : is[i] = is[j] => i = j

\* Every id is there once, with a payload and a row of its own.
Paired(is, ps, ms) ==
    /\ Len(ms) = Len(is) /\ Len(ps) = Len(is) /\ Once(is)
    /\ \A i \in DOMAIN is : ms[i].of = is[i]

\* The points of Qdrant are those of the loaded collection.
SamePoints ==
    /\ \A q \in points : q.key = Encoded[q.id]
    /\ \A q \in points : \E i \in DOMAIN ids :
         q.id = ids[i] /\ q.v = matrix[i].v /\ q.pay = payloads[i]
    /\ \A i \in DOMAIN ids :
         [key |-> Encoded[ids[i]], id |-> ids[i], v |-> matrix[i].v, pay |-> payloads[i]] \in points

\* The two files are of one version, or a flush is between them.
FilesFine ==
    /\ Once(sidecarFile.ids)
    /\ phase # "flush sidecar" => Paired(sidecarFile.ids, sidecarFile.payloads, matrixFile)
    /\ phase = "flush sidecar" => matrixFile = matrix
    /\ phase = "open" => sidecarFile.ids = ids
    /\ Len(sidecarFile.ids) = Len(ids) => sidecarFile.ids = ids

VectorInv ==
    /\ VectorTypeOK
    /\ ~twins /\ mishaps <= 1 /\ phase \in Open => Paired(ids, payloads, matrix)
    /\ ~twins /\ mishaps = 0 => phase \in Open /\ SamePoints /\ FilesFine
    /\ ~twins /\ mishaps = 1 /\ phase = "down" /\ Whole =>
         Paired(sidecarFile.ids, sidecarFile.payloads, matrixFile)

-----------------------------------------------------------------------------
\* A set of numbers that is not empty has a least one.
LEMMA LeastNumber ==
    ASSUME NEW T \in SUBSET Nat, T # {}
    PROVE  \E m \in T : \A k \in T : m <= k
  <1> DEFINE Less == {ss \in Nat \X Nat : ss[1] < ss[2]}
  <1>1. IsWellFoundedOn(Less, Nat)
    BY NatLessThanWellFounded, Zenon DEF OpToRel
  <1>2. PICK m \in T : \A k \in T : ~(<<k, m>> \in Less)
    <2> HIDE DEF Less
    <2> QED
      BY <1>1, WFMin
  <1>3. \A k \in T : ~(k < m) /\ k \in Nat /\ m \in Nat
    BY <1>2
  <1> QED
    BY <1>3

-----------------------------------------------------------------------------
(* Numbering the members of a set of numbers *)

Rank(S, i) == Cardinality({j \in S : j <= i})

\* The rank of a member is a place in a list of them all.
LEMMA RankIsAPlace ==
    ASSUME NEW S \in SUBSET Nat, IsFiniteSet(S), NEW i \in S
    PROVE  Rank(S, i) \in 1..Cardinality(S)
  <1> DEFINE A == {j \in S : j <= i}
  <1>1. A \subseteq S /\ i \in A
    OBVIOUS
  <1> HIDE DEF A
  <1>2. IsFiniteSet(A) /\ Cardinality(A) <= Cardinality(S)
    BY <1>1, FS_Subset
  <1>3. Cardinality(A) \in Nat /\ Cardinality(S) \in Nat /\ Cardinality(A) # 0
    BY <1>1, <1>2, FS_CardinalityType, FS_EmptySet
  <1> QED
    BY <1>2, <1>3 DEF Rank, A

\* A larger member has a larger rank.
LEMMA RankGrows ==
    ASSUME NEW S \in SUBSET Nat, IsFiniteSet(S), NEW i \in S, NEW k \in S, i < k
    PROVE  Rank(S, i) < Rank(S, k)
  <1> DEFINE A == {j \in S : j <= i}
             B == {j \in S : j <= k}
  <1>0. \A j \in S : j \in Nat
    OBVIOUS
  <1>1. A \subseteq B /\ B \subseteq S /\ k \in B /\ k \notin A
    <2>1. \A j \in S : j <= i => j <= k
      BY <1>0
    <2>2. ~(k <= i) /\ k <= k
      BY <1>0
    <2> QED
      BY <2>1, <2>2
  <1> HIDE DEF A, B
  <1>2. IsFiniteSet(B)
    BY <1>1, FS_Subset
  <1>3. Cardinality(A) <= Cardinality(B) /\ (Cardinality(B) = Cardinality(A) => B = A)
        /\ IsFiniteSet(A)
    BY <1>1, <1>2, FS_Subset
  <1>4. Cardinality(A) \in Nat /\ Cardinality(B) \in Nat /\ Cardinality(A) # Cardinality(B)
    BY <1>1, <1>2, <1>3, FS_CardinalityType
  <1> QED
    BY <1>3, <1>4 DEF Rank, A, B

\* Every place is the rank of exactly one member.
LEMMA EveryPlaceIsTaken ==
    ASSUME NEW S \in SUBSET Nat, IsFiniteSet(S)
    PROVE  /\ \A k \in 1..Cardinality(S) : \E i \in S : Rank(S, i) = k
           /\ \A i, k \in S : Rank(S, i) = Rank(S, k) => i = k
  <1> DEFINE T == 1..Cardinality(S)
             rank == [i \in S |-> Rank(S, i)]
  <1>1. \A i \in S : rank[i] = Rank(S, i) /\ rank[i] \in T
    BY RankIsAPlace
  <1>2. \A i, k \in S : Rank(S, i) = Rank(S, k) => i = k
    <2> SUFFICES ASSUME NEW i \in S, NEW k \in S, i # k PROVE Rank(S, i) # Rank(S, k)
      OBVIOUS
    <2>1. Rank(S, i) \in Nat /\ Rank(S, k) \in Nat
      BY RankIsAPlace
    <2>2. CASE i < k
      BY <2>1, <2>2, RankGrows
    <2>3. CASE k < i
      BY <2>1, <2>3, RankGrows
    <2> QED
      BY <2>2, <2>3
  <1>3. IsFiniteSet(T) /\ Cardinality(T) = Cardinality(S)
    <2>1. Cardinality(S) \in Nat
      BY FS_CardinalityType
    <2>2. (IF 1 > Cardinality(S) THEN 0 ELSE Cardinality(S) - 1 + 1) = Cardinality(S)
      BY <2>1
    <2> QED
      BY <2>1, <2>2, FS_Interval
  <1>4. rank \in [S -> T]
    BY <1>1
  <1> HIDE DEF rank, T
  <1>5. rank \in Injection(S, T)
    BY <1>1, <1>2, <1>4 DEF Injection, IsInjective
  <1>6. rank \in Surjection(S, T)
    BY <1>3, <1>5, FS_Injection
  <1>7. \A k \in T : \E i \in S : rank[i] = k
    BY <1>6 DEF Surjection
  <1> QED
    BY <1>1, <1>2, <1>7 DEF T

-----------------------------------------------------------------------------
(* What is left of a list when some ids are dropped *)

KeptAt(gone, k) == CHOOSE i \in Kept(gone) : Rank(Kept(gone), i) = k

\* The places that are kept, numbered in their order.
LEMMA KeptPlaces ==
    ASSUME ids \in Seq(PointIds), NEW gone
    PROVE  /\ IsFiniteSet(Kept(gone)) /\ Cardinality(Kept(gone)) \in Nat
           /\ Kept(gone) \subseteq 1..Len(ids)
           /\ Cardinality(Kept(gone)) <= Len(ids)
           /\ gone \intersect ToSet(ids) # {} => Cardinality(Kept(gone)) < Len(ids)
           /\ \A k \in 1..Cardinality(Kept(gone)) :
                KeptAt(gone, k) \in Kept(gone) /\ Rank(Kept(gone), KeptAt(gone, k)) = k
           /\ \A i \in Kept(gone) : \E k \in 1..Cardinality(Kept(gone)) : i = KeptAt(gone, k)
  <1>1. Kept(gone) \subseteq 1..Len(ids) /\ Len(ids) \in Nat
    BY DEF Kept
  <1>2. IsFiniteSet(1..Len(ids)) /\ Cardinality(1..Len(ids)) = Len(ids)
    <2>1. Len(ids) \in Nat /\ (IF 1 > Len(ids) THEN 0 ELSE Len(ids) - 1 + 1) = Len(ids)
      OBVIOUS
    <2> QED
      BY <2>1, FS_Interval
  <1>3. IsFiniteSet(Kept(gone)) /\ Cardinality(Kept(gone)) <= Len(ids)
        /\ (Len(ids) = Cardinality(Kept(gone)) => 1..Len(ids) = Kept(gone))
    BY <1>1, <1>2, FS_Subset
  <1>4. Cardinality(Kept(gone)) \in Nat
    BY <1>3, FS_CardinalityType
  <1>5. gone \intersect ToSet(ids) # {} => Cardinality(Kept(gone)) # Len(ids)
    <2> SUFFICES ASSUME NEW i \in DOMAIN ids, ids[i] \in gone PROVE Cardinality(Kept(gone)) # Len(ids)
      BY DEF ToSet
    <2> QED
      BY <1>3 DEF Kept
  <1>6. Kept(gone) \in SUBSET Nat
    BY <1>1
  <1>7. \A k \in 1..Cardinality(Kept(gone)) :
           KeptAt(gone, k) \in Kept(gone) /\ Rank(Kept(gone), KeptAt(gone, k)) = k
    BY <1>3, <1>6, EveryPlaceIsTaken DEF KeptAt
  <1>8. \A i \in Kept(gone) : \E k \in 1..Cardinality(Kept(gone)) : i = KeptAt(gone, k)
    <2> SUFFICES ASSUME NEW i \in Kept(gone)
                 PROVE  \E k \in 1..Cardinality(Kept(gone)) : i = KeptAt(gone, k)
      OBVIOUS
    <2>1. Rank(Kept(gone), i) \in 1..Cardinality(Kept(gone))
      BY <1>3, <1>6, RankIsAPlace
    <2>2. KeptAt(gone, Rank(Kept(gone), i)) = i
      BY <1>3, <1>6, <1>7, <2>1, EveryPlaceIsTaken
    <2> QED
      BY <2>1, <2>2
  <1> QED
    BY <1>1, <1>3, <1>4, <1>5, <1>7, <1>8

\* Dropping keeps a list of as many entries as ids are kept.
LEMMA Dropped ==
    ASSUME ids \in Seq(PointIds), NEW X, NEW seq \in Seq(X), Len(seq) = Len(ids), NEW gone
    PROVE  /\ Drop(seq, gone) \in Seq(X)
           /\ Len(Drop(seq, gone)) = Cardinality(Kept(gone))
           /\ \A k \in 1..Cardinality(Kept(gone)) : Drop(seq, gone)[k] = seq[KeptAt(gone, k)]
  <1> DEFINE n == Cardinality(Kept(gone))
             d == [k \in 1..n |-> seq[KeptAt(gone, k)]]
  <1>3. Drop(seq, gone) = d
    BY DEF Drop, KeptAt, Rank
  <1>4. n \in Nat /\ \A k \in 1..n : seq[KeptAt(gone, k)] \in X
    <2>1. \A k \in 1..n : KeptAt(gone, k) \in 1..Len(seq)
      BY KeptPlaces
    <2>2. n \in Nat
      BY KeptPlaces
    <2> HIDE DEF n
    <2> QED
      BY <2>1, <2>2
  <1> HIDE DEF n
  <1>5. d \in Seq(X) /\ Len(d) = n
    BY <1>4
  <1> QED
    BY <1>3, <1>5 DEF n

-----------------------------------------------------------------------------
(* The loop over a batch *)

Progress ==
    [ids : Seq(PointIds), pays : Seq(Payloads), rows : Seq(MatrixRow), new : Seq(MatrixRow),
     ok : BOOLEAN]

LoopStart == [ids |-> ids, pays |-> payloads, rows |-> matrix, new |-> <<>>, ok |-> TRUE]

IsLoop(f, batch, n) ==
    f = [k \in 0..n |-> IF k = 0 THEN LoopStart ELSE StoredPoint(f[k - 1], batch[k])]

\* A loop is a function: the recursion defines one.
LEMMA LoopExists ==
    ASSUME NEW batch, NEW N \in Nat
    PROVE  \E loop : IsLoop(loop, batch, N)
  <1> DEFINE T == {k \in Nat : ~ \E loop : IsLoop(loop, batch, k)}
  <1> SUFFICES ASSUME T # {} PROVE FALSE
    OBVIOUS
  <1>1. T \subseteq Nat
    OBVIOUS
  <1>2. PICK m \in T : \A k \in T : m <= k
    <2> HIDE DEF T
    <2> QED
      BY <1>1, LeastNumber
  <1>3. CASE m = 0
    <2> DEFINE none == [k \in 0..0 |-> LoopStart]
    <2>1. none = [k \in 0..0 |-> IF k = 0 THEN LoopStart ELSE StoredPoint(none[k - 1], batch[k])]
      OBVIOUS
    <2>2. IsLoop(none, batch, 0)
      BY <2>1 DEF IsLoop
    <2> QED
      BY <1>2, <1>3, <2>2
  <1>4. CASE m # 0
    <2>1. m \in Nat /\ m - 1 \in Nat /\ ~(m <= m - 1)
      BY <1>2, <1>4
    <2>2. m - 1 \notin T
      BY <1>2, <2>1
    <2>3. PICK g : IsLoop(g, batch, m - 1)
      BY <2>1, <2>2
    <2> DEFINE h == [k \in 0..m |-> IF k = 0 THEN LoopStart ELSE StoredPoint(g[k - 1], batch[k])]
    <2>4. \A k \in 0..(m - 1) : g[k] = IF k = 0 THEN LoopStart ELSE StoredPoint(g[k - 1], batch[k])
      BY <2>3 DEF IsLoop
    <2>5. \A k \in 0..(m - 1) : h[k] = g[k]
      <3>1. \A k \in 0..m : h[k] = IF k = 0 THEN LoopStart ELSE StoredPoint(g[k - 1], batch[k])
        OBVIOUS
      <3>2. \A k \in 0..(m - 1) : k \in 0..m
        BY <2>1
      <3> HIDE DEF h
      <3> QED
        BY <2>4, <3>1, <3>2
    <2>6. \A k \in 0..m : k # 0 => k - 1 \in 0..(m - 1)
      BY <2>1
    <2>7. \A k \in 0..m : k # 0 => h[k - 1] = g[k - 1]
      BY <2>5, <2>6
    <2>8. \A k \in 0..m : h[k] = IF k = 0 THEN LoopStart ELSE StoredPoint(h[k - 1], batch[k])
      BY <2>7
    <2>9. h = [k \in 0..m |-> h[k]]
      OBVIOUS
    <2> HIDE DEF h
    <2>10. IsLoop(h, batch, m)
      BY <2>8, <2>9 DEF IsLoop
    <2> QED
      BY <1>2, <2>10
  <1> QED
    BY <1>3, <1>4

\* What a batch leaves is what the last turn of its loop leaves.
LEMMA BatchIsItsLoop ==
    ASSUME NEW batch, Len(batch) \in Nat
    PROVE  \E h : IsLoop(h, batch, Len(batch)) /\ StoredBatch(batch) = h[Len(batch)]
  <1> DEFINE N == Len(batch)
             after[k \in 0..N] ==
                 IF k = 0
                 THEN [ids |-> ids, pays |-> payloads, rows |-> matrix, new |-> <<>>, ok |-> TRUE]
                 ELSE StoredPoint(after[k - 1], batch[k])
  <1>1. PICK h : IsLoop(h, batch, N)
    <2> HIDE DEF after
    <2> QED
      BY LoopExists
  <1>2. after = CHOOSE f : f = [k \in 0..N |-> IF k = 0 THEN LoopStart
                                              ELSE StoredPoint(f[k - 1], batch[k])]
    BY DEF after, LoopStart
  <1>3. after = [k \in 0..N |-> IF k = 0 THEN LoopStart ELSE StoredPoint(after[k - 1], batch[k])]
    <2> HIDE DEF after, N
    <2> QED
      BY <1>1, <1>2 DEF IsLoop
  <1>4. StoredBatch(batch) = after[N]
    BY DEF StoredBatch, after
  <1>5. IsLoop(after, batch, N)
    <2> HIDE DEF after
    <2> QED
      BY <1>3 DEF IsLoop
  <1> QED
    BY <1>4, <1>5

Vector(s, i) == IF i <= Len(ids) THEN s.rows[i].v ELSE s.new[i - Len(ids)].v

\* Entry i is what one of the first k points says, or what it was before.
Entered(s, batch, k, i) ==
    \/ \E j \in 1..k : /\ batch[j].id = s.ids[i] /\ Vector(s, i) = batch[j].v
                       /\ s.pays[i] = batch[j].pay
    \/ /\ i <= Len(ids) /\ Vector(s, i) = matrix[i].v /\ s.pays[i] = payloads[i]
       /\ \A j \in 1..k : batch[j].id # ids[i]

\* After k turns over points of different ids.
Turned(s, batch, k) ==
    /\ s \in Progress /\ s.ok
    /\ Len(s.pays) = Len(s.ids) /\ Len(s.rows) = Len(ids) /\ Len(s.ids) = Len(ids) + Len(s.new)
    /\ Once(s.ids)
    /\ \A i \in 1..Len(ids) : s.ids[i] = ids[i] /\ s.rows[i].of = ids[i]
    /\ \A i \in 1..Len(s.new) : s.new[i].of = s.ids[Len(ids) + i]
    /\ \A i \in 1..Len(s.ids) : Entered(s, batch, k, i)
    /\ \A j \in 1..k : \E i \in 1..Len(s.ids) : s.ids[i] = batch[j].id

OnceEach(batch) == \A i, j \in 1..Len(batch) : batch[i].id = batch[j].id => i = j

Loaded ==
    /\ ids \in Seq(PointIds) /\ payloads \in Seq(Payloads) /\ matrix \in Seq(MatrixRow)
    /\ Paired(ids, payloads, matrix)

\* A point of an id that is not there is appended.
LEMMA NewPoint ==
    ASSUME Loaded, NEW batch \in Seq(PointRow), OnceEach(batch), NEW k \in 1..Len(batch), NEW s,
           Turned(s, batch, k - 1), batch[k].id \notin ToSet(s.ids)
    PROVE  Turned(StoredPoint(s, batch[k]), batch, k)
  <1> DEFINE p == batch[k]
             t == StoredPoint(s, p)
             n == Len(s.ids)
  <1>1. p \in PointRow /\ p.id \in PointIds /\ p.v \in Nat /\ p.pay \in Payloads
    <2>1. p \in PointRow
      BY ElementOfSeq
    <2> HIDE DEF p
    <2> QED
      BY <2>1 DEF PointRow
  <1>2. /\ n = Len(s.ids) /\ s \in Progress /\ s.ok /\ n \in Nat /\ Len(ids) \in Nat /\ Len(s.new) \in Nat
        /\ s.ids \in Seq(PointIds) /\ s.pays \in Seq(Payloads) /\ s.rows \in Seq(MatrixRow)
        /\ s.new \in Seq(MatrixRow)
    BY DEF Turned, Progress, Loaded
  <1>3. t = [s EXCEPT !.ids = Append(@, p.id), !.pays = Append(@, p.pay),
                      !.new = Append(@, Row(p.id, p.v))]
    BY <1>2 DEF StoredPoint
  <1>4. Row(p.id, p.v) \in MatrixRow
    BY <1>1 DEF Row, MatrixRow
  <1>5. /\ t.ids = Append(s.ids, p.id) /\ t.pays = Append(s.pays, p.pay) /\ t.rows = s.rows
        /\ t.new = Append(s.new, Row(p.id, p.v)) /\ t.ok
        /\ t \in Progress
    <2> DEFINE a == Append(s.ids, p.id)
               b == Append(s.pays, p.pay)
               c == Append(s.new, Row(p.id, p.v))
    <2>1. a \in Seq(PointIds) /\ b \in Seq(Payloads) /\ c \in Seq(MatrixRow)
      BY <1>1, <1>2, <1>4, AppendProperties
    <2>2. t = [s EXCEPT !.ids = a, !.pays = b, !.new = c]
      BY <1>3
    <2> HIDE DEF a, b, c, p, t
    <2>3. t.ids = a /\ t.pays = b /\ t.new = c /\ t.rows = s.rows /\ t.ok = s.ok
      BY <1>2, <2>2 DEF Progress
    <2>4. t \in Progress
      BY <1>2, <2>1, <2>2 DEF Progress
    <2> QED
      BY <1>2, <2>3, <2>4 DEF a, b, c
  <1> HIDE DEF t, p, n
  <1>n. n \in Nat /\ Len(ids) \in Nat /\ Len(s.new) \in Nat /\ n = Len(s.ids)
    BY <1>2
  <1>0. Len(s.rows) = Len(ids) /\ Len(s.pays) = n /\ n = Len(ids) + Len(s.new)
    BY <1>2 DEF Turned
  <1>6. /\ Len(t.ids) = n + 1 /\ t.ids[n + 1] = p.id /\ \A i \in 1..n : t.ids[i] = s.ids[i]
        /\ Len(t.pays) = n + 1 /\ t.pays[n + 1] = p.pay /\ \A i \in 1..n : t.pays[i] = s.pays[i]
        /\ Len(t.new) = Len(s.new) + 1 /\ t.new[Len(s.new) + 1] = Row(p.id, p.v)
        /\ \A i \in 1..Len(s.new) : t.new[i] = s.new[i]
    <2>1. /\ Len(t.ids) = n + 1 /\ t.ids[n + 1] = p.id
          /\ \A i \in 1..n : t.ids[i] = s.ids[i]
      BY <1>1, <1>2, <1>5, AppendProperties
    <2>2. /\ Len(t.pays) = n + 1 /\ t.pays[n + 1] = p.pay
          /\ \A i \in 1..n : t.pays[i] = s.pays[i]
      <3>1. /\ Len(t.pays) = Len(s.pays) + 1 /\ t.pays[Len(s.pays) + 1] = p.pay
            /\ \A i \in 1..Len(s.pays) : t.pays[i] = s.pays[i]
        BY <1>1, <1>2, <1>5, AppendProperties
      <3> QED
        BY <1>0, <3>1
    <2>3. /\ Len(t.new) = Len(s.new) + 1 /\ t.new[Len(s.new) + 1] = Row(p.id, p.v)
          /\ \A i \in 1..Len(s.new) : t.new[i] = s.new[i]
      BY <1>2, <1>4, <1>5, AppendProperties
    <2> QED
      BY <2>1, <2>2, <2>3
  <1>7. n = Len(ids) + Len(s.new) /\ Len(s.rows) = Len(ids) /\ Len(s.pays) = n
    BY <1>0
  <1>8. Once(t.ids)
    <2>1. DOMAIN t.ids = 1..(n + 1) /\ DOMAIN s.ids = 1..n
      BY <1>2, <1>5, <1>6 DEF Progress
    <2>2. \A i \in 1..n : t.ids[i] # p.id
      BY <1>6, <2>1 DEF ToSet, p
    <2>3. \A i, j \in 1..n : t.ids[i] = t.ids[j] => i = j
      <3>1. \A i, j \in 1..n : s.ids[i] = s.ids[j] => i = j
        BY <2>1 DEF Turned, Once
      <3> QED
        BY <1>6, <3>1
    <2>4. \A i \in 1..(n + 1) : i \in 1..n \/ i = n + 1
      BY <1>n
    <2> QED
      BY <1>6, <2>1, <2>2, <2>3, <2>4 DEF Once
  <1>9. \A i \in 1..Len(ids) : t.ids[i] = ids[i] /\ t.rows[i].of = ids[i]
    BY <1>2, <1>5, <1>6, <1>7 DEF Turned
  <1>10. \A i \in 1..Len(t.new) : t.new[i].of = t.ids[Len(ids) + i]
    <2>1. \A i \in 1..Len(s.new) : t.new[i].of = t.ids[Len(ids) + i]
      <3>1. \A i \in 1..Len(s.new) : Len(ids) + i \in 1..n
        BY <1>2, <1>7
      <3> QED
        BY <1>6, <3>1 DEF Turned
    <2>2. t.new[Len(s.new) + 1].of = t.ids[Len(ids) + (Len(s.new) + 1)]
      <3>1. Len(ids) + (Len(s.new) + 1) = n + 1
        BY <1>2, <1>7
      <3> QED
        BY <1>6, <3>1 DEF Row
    <2>3. \A i \in 1..Len(t.new) : i \in 1..Len(s.new) \/ i = Len(s.new) + 1
      BY <1>2, <1>6
    <2> QED
      BY <2>1, <2>2, <2>3
  <1>11. \A i \in 1..n : Vector(t, i) = Vector(s, i)
    <2>1. \A i \in 1..n : ~(i <= Len(ids)) => i - Len(ids) \in 1..Len(s.new)
      BY <1>2, <1>7
    <2> QED
      BY <1>5, <1>6, <2>1 DEF Vector
  <1>12. Vector(t, n + 1) = p.v
    <2>1. n + 1 \in Nat /\ ~(n + 1 <= Len(ids)) /\ (n + 1) - Len(ids) = Len(s.new) + 1
      BY <1>2, <1>7
    <2> QED
      BY <1>6, <2>1 DEF Vector, Row
  <1>13. \A j \in 1..k : j \in 1..(k - 1) \/ j = k
    BY LenProperties
  <1>14. k \in 1..k /\ \A j \in 1..(k - 1) : j \in 1..k
    BY LenProperties
  <1>15. \A i \in 1..n : Entered(t, batch, k, i)
    <2> SUFFICES ASSUME NEW i \in 1..n PROVE Entered(t, batch, k, i)
      OBVIOUS
    <2>1. Entered(s, batch, k - 1, i)
      BY <1>n DEF Turned
    <2>2. t.ids[i] = s.ids[i] /\ t.pays[i] = s.pays[i] /\ Vector(t, i) = Vector(s, i)
      BY <1>6, <1>11
    <2>3. s.ids[i] # p.id
      BY <1>2 DEF ToSet, p
    <2>4. i <= Len(ids) => s.ids[i] = ids[i]
      BY <1>2 DEF Turned
    <2> QED
      BY <1>13, <1>14, <2>1, <2>2, <2>3, <2>4 DEF Entered, p
  <1>16. Entered(t, batch, k, n + 1)
    BY <1>6, <1>12, <1>14 DEF Entered, p
  <1>17. \A i \in 1..Len(t.ids) : Entered(t, batch, k, i)
    <2>1. \A i \in 1..Len(t.ids) : i \in 1..n \/ i = n + 1
      BY <1>2, <1>6
    <2> QED
      BY <1>15, <1>16, <2>1
  <1>18. \A j \in 1..k : \E i \in 1..Len(t.ids) : t.ids[i] = batch[j].id
    <2>1. n + 1 \in 1..Len(t.ids) /\ \A i \in 1..n : i \in 1..Len(t.ids)
      BY <1>2, <1>6
    <2>2. \A j \in 1..(k - 1) : \E i \in 1..Len(t.ids) : t.ids[i] = batch[j].id
      <3>1. \A j \in 1..(k - 1) : \E i \in 1..n : s.ids[i] = batch[j].id
        BY <1>n DEF Turned
      <3> QED
        BY <1>6, <2>1, <3>1
    <2> QED
      BY <1>6, <1>13, <2>1, <2>2 DEF p
  <1> QED
    <2>1. Turned(t, batch, k)
      <3>1. Len(t.ids) = Len(ids) + Len(t.new) /\ Len(t.pays) = Len(t.ids)
        BY <1>n, <1>6, <1>7
      <3> QED
        BY <1>5, <1>7, <1>8, <1>9, <1>10, <1>17, <1>18, <3>1 DEF Turned
    <2> QED
      BY <2>1 DEF t, p

\* A point of an id that is there takes its place.
LEMMA KnownPoint ==
    ASSUME Loaded, NEW batch \in Seq(PointRow), OnceEach(batch), NEW k \in 1..Len(batch), NEW s,
           Turned(s, batch, k - 1), batch[k].id \in ToSet(s.ids)
    PROVE  Turned(StoredPoint(s, batch[k]), batch, k)
  <1> DEFINE p == batch[k]
             t == StoredPoint(s, p)
             n == Len(s.ids)
             r == RowOf(p.id, s.ids)
  <1>1. p \in PointRow /\ p.id \in PointIds /\ p.v \in Nat /\ p.pay \in Payloads
    <2>1. p \in PointRow
      BY ElementOfSeq
    <2> HIDE DEF p
    <2> QED
      BY <2>1 DEF PointRow
  <1>2. /\ n = Len(s.ids) /\ s \in Progress /\ s.ok /\ n \in Nat /\ Len(ids) \in Nat
        /\ Len(s.new) \in Nat
        /\ s.ids \in Seq(PointIds) /\ s.pays \in Seq(Payloads) /\ s.rows \in Seq(MatrixRow)
        /\ s.new \in Seq(MatrixRow)
    BY DEF Turned, Progress, Loaded
  <1>3. r \in 1..n /\ s.ids[r] = p.id
    <2>1. \E i \in DOMAIN s.ids : s.ids[i] = p.id
      BY DEF ToSet
    <2>2. DOMAIN s.ids = 1..n
      BY <1>2
    <2> HIDE DEF p, n
    <2> QED
      BY <2>1, <2>2 DEF RowOf
  <1> HIDE DEF p, n, r, t
  <1>n. n \in Nat /\ Len(ids) \in Nat /\ Len(s.new) \in Nat /\ n = Len(s.ids)
    BY <1>2
  <1>0. Len(s.rows) = Len(ids) /\ Len(s.pays) = n /\ n = Len(ids) + Len(s.new)
    BY <1>2 DEF Turned
  <1>k. k \in Nat /\ k \in 1..k /\ (\A j \in 1..(k - 1) : j \in 1..k /\ j # k /\ j \in 1..Len(batch))
        /\ \A j \in 1..k : j \in 1..(k - 1) \/ j = k
    BY LenProperties
  \* An id that came earlier in this batch is another one.
  <1>4. \A j \in 1..(k - 1) : batch[j].id # p.id
    BY <1>k DEF OnceEach, p
  <1>5. r \in 1..Len(ids)
    <2>1. Entered(s, batch, k - 1, r)
      BY <1>3, <1>n DEF Turned
    <2>2. r <= Len(ids)
      BY <1>3, <1>4, <2>1 DEF Entered
    <2> QED
      BY <1>3, <1>n, <2>2
  <1>6. t = [s EXCEPT !.rows[r] = Row(p.id, p.v), !.pays[r] = p.pay]
    <2>1. p.id \in ToSet(s.ids)
      BY DEF p
    <2>2. r \in DOMAIN s.rows
      BY <1>0, <1>2, <1>5
    <2> QED
      BY <1>2, <2>1, <2>2 DEF StoredPoint, t, r
  <1>7. Row(p.id, p.v) \in MatrixRow
    BY <1>1 DEF Row, MatrixRow
  <1>8. /\ t.ids = s.ids /\ t.new = s.new /\ t.ok /\ t \in Progress
        /\ t.rows = [s.rows EXCEPT ![r] = Row(p.id, p.v)] /\ t.pays = [s.pays EXCEPT ![r] = p.pay]
    <2> DEFINE a == [s.rows EXCEPT ![r] = Row(p.id, p.v)]
               b == [s.pays EXCEPT ![r] = p.pay]
    <2>1. a \in Seq(MatrixRow) /\ b \in Seq(Payloads)
      <3>1. r \in 1..Len(s.rows) /\ r \in 1..Len(s.pays)
        BY <1>0, <1>3, <1>5
      <3> QED
        BY <1>1, <1>2, <1>7, <3>1, ExceptSeq
    <2>2. t = [s EXCEPT !.rows = a, !.pays = b]
      BY <1>2, <1>6 DEF Progress
    <2> HIDE DEF a, b
    <2>3. t.ids = s.ids /\ t.new = s.new /\ t.ok = s.ok /\ t.rows = a /\ t.pays = b
      BY <1>2, <2>2 DEF Progress
    <2>4. t \in Progress
      BY <1>2, <2>1, <2>2 DEF Progress
    <2> QED
      BY <1>2, <2>3, <2>4 DEF a, b
  <1>9. /\ Len(t.rows) = Len(ids) /\ t.rows[r] = Row(p.id, p.v)
        /\ \A i \in 1..Len(ids) : i # r => t.rows[i] = s.rows[i]
    BY <1>0, <1>2, <1>5, <1>7, <1>8, ExceptSeq
  <1>10. /\ Len(t.pays) = n /\ t.pays[r] = p.pay
         /\ \A i \in 1..n : i # r => t.pays[i] = s.pays[i]
    BY <1>0, <1>1, <1>2, <1>3, <1>8, ExceptSeq
  <1>11. Once(t.ids) /\ \A i, j \in 1..n : t.ids[i] = t.ids[j] => i = j
    <2>1. Once(s.ids) /\ DOMAIN s.ids = 1..n
      BY <1>2 DEF Turned
    <2> QED
      BY <1>8, <2>1 DEF Once
  <1>12. \A i \in 1..Len(ids) : t.ids[i] = ids[i] /\ t.rows[i].of = ids[i]
    <2> SUFFICES ASSUME NEW i \in 1..Len(ids) PROVE t.ids[i] = ids[i] /\ t.rows[i].of = ids[i]
      OBVIOUS
    <2>1. s.ids[i] = ids[i] /\ s.rows[i].of = ids[i]
      BY DEF Turned
    <2>2. CASE i = r
      BY <1>3, <1>8, <1>9, <2>1, <2>2 DEF Row
    <2>3. CASE i # r
      BY <1>8, <1>9, <2>1, <2>3
    <2> QED
      BY <2>2, <2>3
  <1>13. \A i \in 1..Len(t.new) : t.new[i].of = t.ids[Len(ids) + i]
    BY <1>8 DEF Turned
  <1>14. \A i \in 1..n : Entered(t, batch, k, i)
    <2> SUFFICES ASSUME NEW i \in 1..n PROVE Entered(t, batch, k, i)
      OBVIOUS
    <2>1. Entered(s, batch, k - 1, i)
      BY <1>n DEF Turned
    <2>2. CASE i = r
      <3>1. Vector(t, r) = p.v
        BY <1>5, <1>9 DEF Vector, Row
      <3>2. t.ids[r] = p.id /\ t.pays[r] = p.pay
        BY <1>3, <1>8, <1>10
      <3> QED
        BY <1>k, <2>2, <3>1, <3>2 DEF Entered, p
    <2>3. CASE i # r
      <3>1. t.ids[i] = s.ids[i] /\ t.pays[i] = s.pays[i]
        BY <1>8, <1>10, <2>3
      <3>2. Vector(t, i) = Vector(s, i)
        <4>1. i <= Len(ids) => i \in 1..Len(ids)
          BY <1>n
        <4> QED
          BY <1>8, <1>9, <2>3, <4>1 DEF Vector
      <3>3. s.ids[i] # p.id
        BY <1>3, <1>8, <1>11, <2>3
      <3>4. i <= Len(ids) => s.ids[i] = ids[i]
        <4>1. i <= Len(ids) => i \in 1..Len(ids)
          BY <1>n
        <4> QED
          BY <4>1 DEF Turned
      <3> QED
        BY <1>k, <2>1, <3>1, <3>2, <3>3, <3>4 DEF Entered, p
    <2> QED
      BY <2>2, <2>3
  <1>15. \A j \in 1..k : \E i \in 1..n : t.ids[i] = batch[j].id
    <2>1. \A j \in 1..(k - 1) : \E i \in 1..n : s.ids[i] = batch[j].id
      BY <1>n DEF Turned
    <2> QED
      BY <1>3, <1>8, <1>k, <2>1 DEF p
  <1>16. Turned(t, batch, k)
    <2>1. Len(t.ids) = n /\ Len(t.new) = Len(s.new)
      BY <1>8, <1>n
    <2> QED
      BY <1>0, <1>8, <1>9, <1>10, <1>11, <1>12, <1>13, <1>14, <1>15, <2>1 DEF Turned
  <1> QED
    BY <1>16 DEF t, p

\* A batch of different ids is stored whole, each point in its place.
LEMMA BatchIsStored ==
    ASSUME Loaded, NEW batch \in Seq(PointRow), OnceEach(batch)
    PROVE  Turned(StoredBatch(batch), batch, Len(batch))
  <1>1. Len(batch) \in Nat
    OBVIOUS
  <1>2. PICK h : IsLoop(h, batch, Len(batch)) /\ StoredBatch(batch) = h[Len(batch)]
    BY <1>1, BatchIsItsLoop
  <1>3. \A k \in 0..Len(batch) :
           h[k] = IF k = 0 THEN LoopStart ELSE StoredPoint(h[k - 1], batch[k])
    BY <1>2 DEF IsLoop
  <1>4. Turned(LoopStart, batch, 0)
    <2>1. LoopStart \in Progress /\ LoopStart.ok
      BY DEF LoopStart, Progress, Loaded
    <2>2. /\ LoopStart.ids = ids /\ LoopStart.pays = payloads /\ LoopStart.rows = matrix
          /\ LoopStart.new = <<>>
      BY DEF LoopStart
    <2>3. Len(ids) \in Nat /\ Len(<<>>) = 0 /\ DOMAIN ids = 1..Len(ids)
      BY DEF Loaded
    <2>4. /\ Len(matrix) = Len(ids) /\ Len(payloads) = Len(ids) /\ Once(ids)
          /\ \A i \in 1..Len(ids) : matrix[i].of = ids[i]
      BY <2>3 DEF Loaded, Paired
    <2>5. \A i \in 1..Len(ids) : Entered(LoopStart, batch, 0, i)
      <3>1. \A i \in 1..Len(ids) : i <= Len(ids) /\ \A j \in 1..0 : FALSE
        BY <2>3
      <3> QED
        BY <2>2, <3>1 DEF Entered, Vector
    <2>6. \A j \in 1..0 : FALSE
      OBVIOUS
    <2>7. Len(ids) = Len(ids) + 0
      BY <2>3
    <2> HIDE DEF LoopStart
    <2> QED
      BY <2>1, <2>2, <2>3, <2>4, <2>5, <2>6, <2>7 DEF Turned
  <1> DEFINE T == {k \in 0..Len(batch) : ~Turned(h[k], batch, k)}
  <1>5. T = {}
    <2> SUFFICES ASSUME T # {} PROVE FALSE
      OBVIOUS
    <2>1. T \subseteq Nat
      BY <1>1
    <2>2. PICK m \in T : \A k \in T : m <= k
      <3> HIDE DEF T
      <3> QED
        BY <2>1, LeastNumber
    <2>3. m # 0
      BY <1>1, <1>3, <1>4
    <2>4. /\ m \in Nat /\ m \in 1..Len(batch) /\ m - 1 \in 0..Len(batch) /\ ~(m <= m - 1)
          /\ m \in 0..Len(batch)
      BY <1>1, <2>2, <2>3
    <2>5. Turned(h[m - 1], batch, m - 1)
      BY <2>2, <2>4
    <2>6. h[m] = StoredPoint(h[m - 1], batch[m])
      BY <1>3, <2>3, <2>4
    <2>7. Turned(h[m], batch, m)
      BY <2>4, <2>5, <2>6, NewPoint, KnownPoint
    <2> QED
      BY <2>2, <2>7
  <1>6. Len(batch) \in 0..Len(batch)
    BY <1>1
  <1> QED
    BY <1>2, <1>5, <1>6

\* Whatever a batch holds, the loop keeps a payload per id.
InProgress(s) == s \in Progress /\ Len(s.pays) = Len(s.ids)

LEMMA PointKeepsProgress ==
    ASSUME NEW s, InProgress(s), NEW p \in PointRow
    PROVE  InProgress(StoredPoint(s, p))
  <1> DEFINE t == StoredPoint(s, p)
             r == RowOf(p.id, s.ids)
  <1>1. p.id \in PointIds /\ p.v \in Nat /\ p.pay \in Payloads
    BY DEF PointRow
  <1>2. /\ s.ids \in Seq(PointIds) /\ s.pays \in Seq(Payloads) /\ s.rows \in Seq(MatrixRow)
        /\ s.new \in Seq(MatrixRow) /\ s \in Progress /\ Len(s.pays) = Len(s.ids)
    BY DEF InProgress, Progress
  <1>3. Row(p.id, p.v) \in MatrixRow
    BY <1>1 DEF Row, MatrixRow
  <1>4. CASE ~s.ok
    BY <1>4 DEF StoredPoint
  <1>5. CASE s.ok /\ p.id \notin ToSet(s.ids)
    <2> DEFINE a == Append(s.ids, p.id)
               b == Append(s.pays, p.pay)
               c == Append(s.new, Row(p.id, p.v))
    <2>1. a \in Seq(PointIds) /\ b \in Seq(Payloads) /\ c \in Seq(MatrixRow)
          /\ Len(a) = Len(s.ids) + 1 /\ Len(b) = Len(s.pays) + 1
      BY <1>1, <1>2, <1>3, AppendProperties
    <2>2. t = [s EXCEPT !.ids = a, !.pays = b, !.new = c]
      BY <1>5 DEF StoredPoint
    <2> HIDE DEF a, b, c, t
    <2>3. t \in Progress /\ t.ids = a /\ t.pays = b
      BY <1>2, <2>1, <2>2 DEF Progress
    <2>4. InProgress(t)
      BY <1>2, <2>1, <2>3 DEF InProgress
    <2> QED
      BY <2>4 DEF t
  <1>6. CASE s.ok /\ p.id \in ToSet(s.ids) /\ r \notin DOMAIN s.rows
    <2>1. t = [s EXCEPT !.ok = FALSE]
      BY <1>6 DEF StoredPoint
    <2> HIDE DEF t
    <2>2. t \in Progress /\ t.ids = s.ids /\ t.pays = s.pays
      BY <1>2, <2>1 DEF Progress
    <2>3. InProgress(t)
      BY <1>2, <2>2 DEF InProgress
    <2> QED
      BY <2>3 DEF t
  <1>7. CASE s.ok /\ p.id \in ToSet(s.ids) /\ r \in DOMAIN s.rows
    <2> DEFINE a == [s.rows EXCEPT ![r] = Row(p.id, p.v)]
               b == [s.pays EXCEPT ![r] = p.pay]
    <2>0. r \in 1..Len(s.pays)
      <3>1. \E i \in DOMAIN s.ids : s.ids[i] = p.id
        BY <1>7 DEF ToSet
      <3> QED
        BY <1>2, <3>1 DEF RowOf
    <2>1. a \in Seq(MatrixRow) /\ b \in Seq(Payloads) /\ Len(b) = Len(s.pays)
      <3>1. r \in 1..Len(s.rows)
        BY <1>2, <1>7
      <3> QED
        BY <1>1, <1>2, <1>3, <2>0, <3>1, ExceptSeq
    <2>2. t = [s EXCEPT !.rows[r] = Row(p.id, p.v), !.pays[r] = p.pay]
      BY <1>7 DEF StoredPoint
    <2>3. t = [s EXCEPT !.rows = a, !.pays = b]
      BY <1>2, <2>2 DEF Progress
    <2> HIDE DEF a, b, t
    <2>4. t \in Progress /\ t.ids = s.ids /\ t.pays = b
      BY <1>2, <2>1, <2>3 DEF Progress
    <2>5. InProgress(t)
      BY <1>2, <2>1, <2>4 DEF InProgress
    <2> QED
      BY <2>5 DEF t
  <1> QED
    BY <1>4, <1>5, <1>6, <1>7

\* So a batch, too, leaves a payload per id.
LEMMA BatchKeepsProgress ==
    ASSUME ids \in Seq(PointIds), payloads \in Seq(Payloads), matrix \in Seq(MatrixRow),
           Len(payloads) = Len(ids), NEW batch \in Seq(PointRow)
    PROVE  InProgress(StoredBatch(batch))
  <1>1. Len(batch) \in Nat
    OBVIOUS
  <1>2. PICK h : IsLoop(h, batch, Len(batch)) /\ StoredBatch(batch) = h[Len(batch)]
    BY <1>1, BatchIsItsLoop
  <1>3. \A k \in 0..Len(batch) :
           h[k] = IF k = 0 THEN LoopStart ELSE StoredPoint(h[k - 1], batch[k])
    BY <1>2 DEF IsLoop
  <1>4. InProgress(LoopStart)
    BY DEF LoopStart, Progress, InProgress
  <1> DEFINE T == {k \in 0..Len(batch) : ~InProgress(h[k])}
  <1>5. T = {}
    <2> SUFFICES ASSUME T # {} PROVE FALSE
      OBVIOUS
    <2>1. T \subseteq Nat
      BY <1>1
    <2>2. PICK m \in T : \A k \in T : m <= k
      <3> HIDE DEF T
      <3> QED
        BY <2>1, LeastNumber
    <2>3. m # 0
      BY <1>1, <1>3, <1>4
    <2>4. /\ m \in 1..Len(batch) /\ m - 1 \in 0..Len(batch) /\ ~(m <= m - 1)
          /\ m \in 0..Len(batch)
      BY <1>1, <2>2, <2>3
    <2>5. InProgress(h[m - 1])
      BY <2>2, <2>4
    <2>6. h[m] = StoredPoint(h[m - 1], batch[m])
      BY <1>3, <2>3, <2>4
    <2>7. InProgress(h[m])
      BY <2>4, <2>5, <2>6, PointKeepsProgress, ElementOfSeq
    <2> QED
      BY <2>2, <2>7
  <1>6. Len(batch) \in 0..Len(batch)
    BY <1>1
  <1> QED
    BY <1>2, <1>5, <1>6

-----------------------------------------------------------------------------
Keys(batch) == {Encoded[batch[i].id] : i \in DOMAIN batch}
LastWrite(batch, k) ==
    CHOOSE i \in DOMAIN batch :
        Encoded[batch[i].id] = k /\ \A j \in DOMAIN batch : Encoded[batch[j].id] = k => j <= i
Written(batch) ==
    {[key |-> k, id |-> batch[LastWrite(batch, k)].id, v |-> batch[LastWrite(batch, k)].v,
      pay |-> batch[LastWrite(batch, k)].pay] : k \in Keys(batch)}
\* The ids of the batch are told apart in Qdrant's encoding, there too.
ToldApart(batch) ==
    /\ Cardinality(Keys(batch)) = Len(batch)
    /\ \A q \in points, i \in DOMAIN batch :
          q.key = Encoded[batch[i].id] => q.id = batch[i].id

\* How many numbers there are up to n.
LEMMA FirstNumbers ==
    ASSUME NEW n \in Nat
    PROVE  IsFiniteSet(1..n) /\ Cardinality(1..n) = n
  <1>1. (IF 1 > n THEN 0 ELSE n - 1 + 1) = n /\ n \in Int /\ 1 \in Int
    OBVIOUS
  <1> QED
    BY <1>1, FS_Interval

\* As many keys as points: no two points have one key.
LEMMA KeysDiffer ==
    ASSUME NEW batch \in Seq(PointRow), Cardinality(Keys(batch)) = Len(batch)
    PROVE  /\ \A i, j \in 1..Len(batch) : Encoded[batch[i].id] = Encoded[batch[j].id] => i = j
           /\ OnceEach(batch)
  <1> DEFINE S == 1..Len(batch)
             f == [i \in S |-> Encoded[batch[i].id]]
  <1>1. DOMAIN batch = S /\ Len(batch) \in Nat
    OBVIOUS
  <1>2. f \in [S -> Keys(batch)] /\ \A k \in Keys(batch) : \E i \in S : f[i] = k
    BY <1>1 DEF Keys
  <1>3. \A i \in S : f[i] = Encoded[batch[i].id]
    OBVIOUS
  <1>4. IsFiniteSet(S) /\ Cardinality(S) = Len(batch)
    BY <1>1, FirstNumbers
  <1> HIDE DEF S, f
  <1>5. f \in Surjection(S, Keys(batch))
    BY <1>2 DEF Surjection
  <1>6. f \in Injection(S, Keys(batch))
    BY <1>4, <1>5, FS_SurjSameCardinalityImpliesInj
  <1>7. \A i, j \in S : f[i] = f[j] => i = j
    BY <1>6 DEF Injection, IsInjective
  <1> QED
    BY <1>3, <1>7 DEF S, OnceEach

\* The point written under the key of a point of the batch is that point.
LEMMA EachIsWritten ==
    ASSUME NEW batch \in Seq(PointRow), Cardinality(Keys(batch)) = Len(batch),
           NEW i \in 1..Len(batch)
    PROVE  Encoded[batch[i].id] \in Keys(batch) /\ LastWrite(batch, Encoded[batch[i].id]) = i
  <1>1. DOMAIN batch = 1..Len(batch) /\ i \in Nat
    OBVIOUS
  <1>2. \A j \in DOMAIN batch : Encoded[batch[j].id] = Encoded[batch[i].id] => j = i
    BY <1>1, KeysDiffer
  <1>3. i <= i
    BY <1>1
  <1> QED
    BY <1>1, <1>2, <1>3 DEF Keys, LastWrite

\* Qdrant is given the points of the batch.
LEMMA WrittenPoints ==
    ASSUME NEW batch \in Seq(PointRow), Cardinality(Keys(batch)) = Len(batch)
    PROVE  /\ \A i \in 1..Len(batch) :
                [key |-> Encoded[batch[i].id], id |-> batch[i].id, v |-> batch[i].v,
                 pay |-> batch[i].pay] \in Written(batch)
           /\ \A q \in Written(batch) : \E i \in 1..Len(batch) :
                q = [key |-> Encoded[batch[i].id], id |-> batch[i].id, v |-> batch[i].v,
                     pay |-> batch[i].pay]
  <1>1. DOMAIN batch = 1..Len(batch)
    OBVIOUS
  <1>2. \A k \in Keys(batch) : \E i \in 1..Len(batch) : k = Encoded[batch[i].id]
    BY <1>1 DEF Keys
  <1> QED
    BY <1>2, EachIsWritten DEF Written

\* What the change leaves in memory and in Qdrant.
UpsertLeaves(batch) ==
    LET s == StoredBatch(batch) IN
    /\ ids' = s.ids /\ payloads' = s.pays
    /\ matrix' = IF s.ok THEN s.rows \o s.new ELSE s.rows
    /\ points' = {q \in points : q.key \notin Keys(batch)} \union Written(batch)

\* What upsert changes.
LEMMA UpsertDoes ==
    ASSUME VectorTypeOK, NEW batch \in Batches, Upsert(batch)
    PROVE  /\ phase = "open" /\ calls' = calls + 1 /\ UpsertLeaves(batch)
           /\ phase' = IF StoredBatch(batch).ok THEN "flush matrix" ELSE "open"
           /\ twins' \in BOOLEAN
           /\ ~twins' => ~twins /\ StoredBatch(batch).ok /\ ToldApart(batch)
           /\ UNCHANGED <<matrixFile, sidecarFile, mishaps>>
  <1>1. points' = {q \in points : q.key \notin Keys(batch)} \union Written(batch)
    BY DEF Upsert, Keys, Written, LastWrite
  <1>2. twins' = (twins \/ ~StoredBatch(batch).ok \/ Cardinality(Keys(batch)) # Len(batch)
                  \/ \E q \in points, i \in DOMAIN batch :
                            q.key = Encoded[batch[i].id] /\ q.id # batch[i].id)
    BY DEF Upsert, Keys
  <1>3. twins' \in BOOLEAN
    BY <1>2
  <1>4. ~twins' => ~twins /\ StoredBatch(batch).ok /\ ToldApart(batch)
    BY <1>2 DEF ToldApart
  <1> QED
    BY <1>1, <1>3, <1>4 DEF Upsert, UpsertLeaves

\* What upsert leaves has its type, whatever the batch.
LEMMA UpsertTypes ==
    ASSUME VectorAssumption, VectorTypeOK, NEW batch \in Batches, Upsert(batch)
    PROVE  VectorTypeOK'
  <1> DEFINE s == StoredBatch(batch)
  <1>1. batch \in Seq(PointRow)
    BY DEF VectorAssumption, PointRow
  <1>2. InProgress(s)
    BY <1>1, BatchKeepsProgress DEF VectorTypeOK
  <1>d. /\ calls' = calls + 1 /\ UpsertLeaves(batch) /\ twins' \in BOOLEAN
        /\ phase' = IF s.ok THEN "flush matrix" ELSE "open"
        /\ UNCHANGED <<matrixFile, sidecarFile, mishaps>>
    BY UpsertDoes
  <1>3. UpsertLeaves(batch) /\ phase' \in Open \union {"down", "corrupt"} /\ calls' \in Nat
        /\ twins' \in BOOLEAN /\ UNCHANGED <<matrixFile, sidecarFile, mishaps>>
    <2> HIDE DEF s
    <2>1. calls \in Nat
      BY DEF VectorTypeOK
    <2>2. phase' \in Open \union {"down", "corrupt"}
      BY <1>d DEF Open
    <2>3. calls' \in Nat
      <3>1. calls' = calls + 1
        BY UpsertDoes
      <3> QED
        BY <2>1, <3>1
    <2> QED
      BY <1>d, <2>2, <2>3
  <1> HIDE DEF s
  <1>4. /\ s.ids \in Seq(PointIds) /\ s.pays \in Seq(Payloads) /\ s.rows \in Seq(MatrixRow)
        /\ s.new \in Seq(MatrixRow) /\ Len(s.pays) = Len(s.ids)
    BY <1>2 DEF InProgress, Progress
  <1>5. s.rows \o s.new \in Seq(MatrixRow)
    BY <1>4
  <1>6. ids' \in Seq(PointIds) /\ payloads' \in Seq(Payloads) /\ matrix' \in Seq(MatrixRow)
        /\ Len(payloads') = Len(ids')
    BY <1>3, <1>4, <1>5 DEF UpsertLeaves, s
  <1>7. points' \subseteq [key : {Encoded[i] : i \in PointIds}, id : PointIds, v : Nat, pay : Payloads]
    <2>1. \A i \in DOMAIN batch : batch[i] \in PointRow
      BY <1>1
    <2>2. \A k \in Keys(batch) : LastWrite(batch, k) \in DOMAIN batch
                                 /\ Encoded[batch[LastWrite(batch, k)].id] = k
      <3> SUFFICES ASSUME NEW k \in Keys(batch)
                   PROVE  \E i \in DOMAIN batch : Encoded[batch[i].id] = k /\
                             \A j \in DOMAIN batch : Encoded[batch[j].id] = k => j <= i
        BY DEF LastWrite
      <3> DEFINE S == {i \in DOMAIN batch : Encoded[batch[i].id] = k}
      <3>1. S # {} /\ IsFiniteSet(S) /\ S \subseteq Nat
        <4>1. DOMAIN batch = 1..Len(batch) /\ Len(batch) \in Nat
          BY <1>1
        <4>2. IsFiniteSet(DOMAIN batch)
          BY <4>1, FS_Interval
        <4> QED
          BY <4>1, <4>2, FS_Subset DEF Keys
      <3>2. \E i \in S : \A j \in S : j <= i
        <4> DEFINE T == {n \in Nat : \A j \in S : j <= n}
        <4>1. DOMAIN batch = 1..Len(batch) /\ Len(batch) \in Nat
          BY <1>1
        <4>2. Len(batch) \in T
          BY <4>1
        <4>3. T \in SUBSET Nat /\ T # {}
          BY <4>2
        <4>4. PICK m \in T : \A n \in T : m <= n
          <5> HIDE DEF T
          <5> QED
            BY <4>3, LeastNumber
        <4>5. CASE m \in S
          BY <4>4, <4>5
        <4>6. CASE m \notin S
          <5>1. \A j \in S : j \in Nat /\ j # 0 /\ j <= m /\ j # m
            BY <4>1, <4>4, <4>6
          <5>2. m # 0
            BY <3>1, <5>1
          <5>3. m - 1 \in Nat /\ ~(m <= m - 1)
            BY <5>2
          <5>4. \A j \in S : j <= m - 1
            <6> HIDE DEF S
            <6>1. m \in Nat
              OBVIOUS
            <6> QED
              BY <5>1, <5>3, <6>1
          <5>5. m - 1 \in T
            BY <5>3, <5>4
          <5> QED
            BY <4>4, <5>3, <5>5
        <4> QED
          BY <4>5, <4>6
      <3> QED
        BY <3>2
    <2>3. \A q \in Written(batch) :
             q \in [key : {Encoded[i] : i \in PointIds}, id : PointIds, v : Nat, pay : Payloads]
      BY <2>1, <2>2 DEF Written, PointRow
    <2> QED
      BY <1>3, <2>3 DEF UpsertLeaves, VectorTypeOK
  <1> QED
    BY <1>3, <1>6, <1>7 DEF VectorTypeOK

-----------------------------------------------------------------------------
QPoint(i, v, p) == [key |-> Encoded[i], id |-> i, v |-> v, pay |-> p]

\* A batch of ids told apart: the collection, the matrix and what they held.
LEMMA UpsertPairs ==
    ASSUME VectorAssumption, VectorTypeOK, Paired(ids, payloads, matrix),
           NEW batch \in Batches, Upsert(batch), ~twins'
    PROVE  /\ Paired(ids', payloads', matrix')
           /\ Len(ids) <= Len(ids') /\ \A i \in 1..Len(ids) : ids'[i] = ids[i]
           /\ \A i \in 1..Len(ids') :
                \/ \E j \in 1..Len(batch) :
                     /\ batch[j].id = ids'[i] /\ matrix'[i].v = batch[j].v
                     /\ payloads'[i] = batch[j].pay
                \/ /\ i \in 1..Len(ids) /\ matrix'[i].v = matrix[i].v /\ payloads'[i] = payloads[i]
                   /\ ids'[i] = ids[i]
                   /\ \A j \in 1..Len(batch) : batch[j].id # ids[i]
           /\ \A j \in 1..Len(batch) : \E i \in 1..Len(ids') : ids'[i] = batch[j].id
  <1> DEFINE s == StoredBatch(batch)
             N == Len(batch)
  <1>1. batch \in Seq(PointRow)
    BY DEF VectorAssumption, PointRow
  <1>2. UpsertLeaves(batch) /\ s.ok /\ ToldApart(batch)
    BY UpsertDoes
  <1>3. Loaded
    BY DEF Loaded, VectorTypeOK
  <1>4. OnceEach(batch)
    BY <1>1, <1>2, KeysDiffer DEF ToldApart
  <1>5. Turned(s, batch, N)
    BY <1>1, <1>3, <1>4, BatchIsStored
  <1>6. ids' = s.ids /\ payloads' = s.pays /\ matrix' = s.rows \o s.new
    BY <1>2 DEF UpsertLeaves
  <1> HIDE DEF s, N
  <1>7. /\ s.ids \in Seq(PointIds) /\ s.rows \in Seq(MatrixRow) /\ s.new \in Seq(MatrixRow)
        /\ Len(ids) \in Nat /\ Len(s.new) \in Nat
    BY <1>3, <1>5 DEF Turned, Progress, Loaded
  <1>8. Len(s.rows) = Len(ids) /\ Len(s.ids) = Len(ids) + Len(s.new) /\ Len(s.pays) = Len(s.ids)
    BY <1>5 DEF Turned
  <1>9. /\ Len(matrix') = Len(s.ids)
        /\ \A i \in 1..Len(s.ids) :
             matrix'[i] = IF i <= Len(ids) THEN s.rows[i] ELSE s.new[i - Len(ids)]
    <2> DEFINE R == s.rows
               E == s.new
    <2>1. R \in Seq(MatrixRow) /\ E \in Seq(MatrixRow) /\ Len(R) = Len(ids)
          /\ Len(s.ids) = Len(R) + Len(E) /\ matrix' = R \o E
      BY <1>6, <1>7, <1>8
    <2> HIDE DEF R, E
    <2>2. /\ Len(R \o E) = Len(R) + Len(E)
          /\ \A i \in 1..(Len(R) + Len(E)) :
                (R \o E)[i] = IF i <= Len(R) THEN R[i] ELSE E[i - Len(R)]
      BY <2>1, ConcatProperties
    <2>3. /\ Len(matrix') = Len(s.ids)
          /\ \A i \in 1..Len(s.ids) : matrix'[i] = IF i <= Len(ids) THEN R[i] ELSE E[i - Len(ids)]
      BY <2>1, <2>2
    <2> QED
      BY <2>3 DEF R, E
  <1>10. \A i \in 1..Len(s.ids) : matrix'[i].of = s.ids[i] /\ matrix'[i].v = Vector(s, i)
    <2> SUFFICES ASSUME NEW i \in 1..Len(s.ids)
                 PROVE  matrix'[i].of = s.ids[i] /\ matrix'[i].v = Vector(s, i)
      OBVIOUS
    <2>1. CASE i <= Len(ids)
      <3>1. i \in 1..Len(ids)
        BY <1>7, <1>8, <2>1
      <3>2. s.ids[i] = ids[i] /\ s.rows[i].of = ids[i]
        BY <1>5, <3>1 DEF Turned
      <3> QED
        BY <1>9, <2>1, <3>2 DEF Vector
    <2>2. CASE ~(i <= Len(ids))
      <3>1. i - Len(ids) \in 1..Len(s.new) /\ Len(ids) + (i - Len(ids)) = i
        BY <1>7, <1>8, <2>2
      <3>2. s.new[i - Len(ids)].of = s.ids[Len(ids) + (i - Len(ids))]
        BY <1>5, <3>1 DEF Turned
      <3> QED
        BY <1>9, <2>2, <3>1, <3>2 DEF Vector
    <2> QED
      BY <2>1, <2>2
  <1>11. Paired(ids', payloads', matrix')
    <2>1. DOMAIN s.ids = 1..Len(s.ids) /\ Once(s.ids)
      BY <1>5, <1>7 DEF Turned
    <2> QED
      BY <1>6, <1>8, <1>9, <1>10, <2>1 DEF Paired
  <1>12. Len(ids) <= Len(ids') /\ \A i \in 1..Len(ids) : ids'[i] = ids[i]
    BY <1>5, <1>6, <1>7, <1>8 DEF Turned
  <1>13. ASSUME NEW i \in 1..Len(ids')
         PROVE  \/ \E j \in 1..N :
                     /\ batch[j].id = ids'[i] /\ matrix'[i].v = batch[j].v
                     /\ payloads'[i] = batch[j].pay
                \/ /\ i \in 1..Len(ids) /\ matrix'[i].v = matrix[i].v /\ payloads'[i] = payloads[i]
                   /\ ids'[i] = ids[i]
                   /\ \A j \in 1..N : batch[j].id # ids[i]
    <2>0. i \in 1..Len(s.ids)
      BY <1>6
    <2>1. Entered(s, batch, N, i)
      BY <1>5, <2>0 DEF Turned
    <2>2. i <= Len(ids) => i \in 1..Len(ids) /\ ids'[i] = ids[i]
      BY <1>7, <1>8, <1>12, <2>0
    <2>3. matrix'[i].v = Vector(s, i) /\ ids'[i] = s.ids[i] /\ payloads'[i] = s.pays[i]
      BY <1>6, <1>10, <2>0
    <2> QED
      BY <2>1, <2>2, <2>3 DEF Entered
  <1>14. \A j \in 1..N : \E i \in 1..Len(ids') : ids'[i] = batch[j].id
    BY <1>5, <1>6 DEF Turned
  <1> QED
    BY <1>11, <1>12, <1>13, <1>14 DEF N

\* Both backends take the same points.
LEMMA UpsertSamePoints ==
    ASSUME VectorAssumption, VectorTypeOK, Paired(ids, payloads, matrix), SamePoints,
           NEW batch \in Batches, Upsert(batch), ~twins'
    PROVE  SamePoints'
  <1> DEFINE N == Len(batch)
             Rest == {q \in points : q.key \notin Keys(batch)}
  <1>1. batch \in Seq(PointRow)
    BY DEF VectorAssumption, PointRow
  <1>2. ToldApart(batch) /\ points' = Rest \union Written(batch)
    BY UpsertDoes DEF UpsertLeaves
  <1>3. OnceEach(batch) /\ Cardinality(Keys(batch)) = N
    BY <1>1, <1>2, KeysDiffer DEF ToldApart
  <1>4. /\ \A j \in 1..N : QPoint(batch[j].id, batch[j].v, batch[j].pay) \in Written(batch)
        /\ \A q \in Written(batch) : \E j \in 1..N :
             q = QPoint(batch[j].id, batch[j].v, batch[j].pay)
    BY <1>1, <1>3, WrittenPoints DEF QPoint
  <1>5. /\ \A k \in Keys(batch) : \E j \in 1..N : k = Encoded[batch[j].id]
        /\ \A j \in 1..N : Encoded[batch[j].id] \in Keys(batch)
    <2>1. DOMAIN batch = 1..N
      BY <1>1
    <2> QED
      BY <2>1 DEF Keys
  <1>6. \A q \in points, j \in 1..N : q.key = Encoded[batch[j].id] => q.id = batch[j].id
    <2>1. DOMAIN batch = 1..N
      BY <1>1
    <2> QED
      BY <1>2, <2>1 DEF ToldApart
  <1>7. /\ \A i \in 1..Len(ids') :
                \/ \E j \in 1..N :
                     /\ batch[j].id = ids'[i] /\ matrix'[i].v = batch[j].v
                     /\ payloads'[i] = batch[j].pay
                \/ /\ i \in 1..Len(ids) /\ matrix'[i].v = matrix[i].v /\ payloads'[i] = payloads[i]
                   /\ ids'[i] = ids[i]
                   /\ \A j \in 1..N : batch[j].id # ids[i]
        /\ \A j \in 1..N : \E i \in 1..Len(ids') : ids'[i] = batch[j].id
        /\ Len(ids) <= Len(ids')
    BY UpsertPairs
  <1>8. DOMAIN ids = 1..Len(ids) /\ DOMAIN ids' = 1..Len(ids') /\ Len(ids) \in Nat /\ Len(ids') \in Nat
    <2>1. VectorTypeOK'
      BY UpsertTypes
    <2> QED
      BY <2>1 DEF VectorTypeOK
  <1>9. /\ \A q \in points : q.key = Encoded[q.id]
        /\ \A q \in points : \E i \in 1..Len(ids) :
             q.id = ids[i] /\ q.v = matrix[i].v /\ q.pay = payloads[i]
        /\ \A i \in 1..Len(ids) : QPoint(ids[i], matrix[i].v, payloads[i]) \in points
    BY <1>8 DEF SamePoints, QPoint
  <1> HIDE DEF N
  <1>10. \A q \in points' : q.key = Encoded[q.id]
    BY <1>2, <1>4, <1>9 DEF QPoint
  <1>11. ASSUME NEW q \in points'
         PROVE  \E i \in 1..Len(ids') : q.id = ids'[i] /\ q.v = matrix'[i].v /\ q.pay = payloads'[i]
    <2>1. CASE q \in Rest
      <3>1. PICK i \in 1..Len(ids) : q.id = ids[i] /\ q.v = matrix[i].v /\ q.pay = payloads[i]
        BY <1>9, <2>1
      <3>2. \A j \in 1..N : batch[j].id # ids[i]
        BY <1>5, <1>9, <2>1, <3>1
      <3>3. i \in 1..Len(ids')
        BY <1>7, <1>8
      <3>4. ids'[i] = ids[i]
        BY UpsertPairs
      <3>5. matrix'[i].v = matrix[i].v /\ payloads'[i] = payloads[i]
        BY <1>7, <3>2, <3>3, <3>4
      <3> QED
        BY <3>1, <3>3, <3>4, <3>5
    <2>2. CASE q \in Written(batch)
      <3>1. PICK j \in 1..N : q = QPoint(batch[j].id, batch[j].v, batch[j].pay)
        BY <1>4, <2>2
      <3>2. PICK i \in 1..Len(ids') : ids'[i] = batch[j].id
        BY <1>7
      <3>3. \E jj \in 1..N : /\ batch[jj].id = ids'[i] /\ matrix'[i].v = batch[jj].v
                             /\ payloads'[i] = batch[jj].pay
        BY <1>7, <3>2
      <3>4. matrix'[i].v = batch[j].v /\ payloads'[i] = batch[j].pay
        BY <1>3, <3>2, <3>3 DEF OnceEach, N
      <3> QED
        BY <3>1, <3>2, <3>4 DEF QPoint
    <2> QED
      BY <1>2, <2>1, <2>2
  <1>12. ASSUME NEW i \in 1..Len(ids')
         PROVE  QPoint(ids'[i], matrix'[i].v, payloads'[i]) \in points'
    <2>1. CASE \E j \in 1..N : /\ batch[j].id = ids'[i] /\ matrix'[i].v = batch[j].v
                               /\ payloads'[i] = batch[j].pay
      BY <1>2, <1>4, <2>1
    <2>2. CASE /\ i \in 1..Len(ids) /\ matrix'[i].v = matrix[i].v /\ payloads'[i] = payloads[i]
               /\ ids'[i] = ids[i]
               /\ \A j \in 1..N : batch[j].id # ids[i]
      <3> DEFINE q == QPoint(ids[i], matrix[i].v, payloads[i])
      <3>1. q \in points /\ q.key = Encoded[q.id] /\ q.id = ids[i]
        BY <1>9, <2>2 DEF QPoint
      <3>2. q.key \notin Keys(batch)
        BY <1>5, <1>6, <2>2, <3>1
      <3> QED
        BY <1>2, <2>2, <3>1, <3>2
    <2> QED
      BY <1>7, <2>1, <2>2
  <1> QED
    BY <1>8, <1>10, <1>11, <1>12 DEF SamePoints, QPoint

\* upsert keeps the invariant.
LEMMA UpsertKeeps ==
    ASSUME VectorAssumption, VectorInv, NEW batch \in Batches, Upsert(batch)
    PROVE  VectorInv'
  <1>1. /\ phase = "open" /\ phase' = IF StoredBatch(batch).ok THEN "flush matrix" ELSE "open"
        /\ ~twins' => ~twins /\ StoredBatch(batch).ok
        /\ UNCHANGED <<matrixFile, sidecarFile, mishaps>>
    BY UpsertDoes DEF VectorInv
  <1>2. VectorTypeOK /\ VectorTypeOK'
    BY UpsertTypes DEF VectorInv
  <1>3. ASSUME ~twins', mishaps' <= 1
        PROVE  Paired(ids, payloads, matrix) /\ Paired(ids', payloads', matrix')
    <2>1. Paired(ids, payloads, matrix)
      BY <1>1, <1>3 DEF VectorInv, Open
    <2> QED
      BY <1>2, <1>3, <2>1, UpsertPairs
  <1>4. ASSUME ~twins', mishaps' = 0
        PROVE  phase' \in Open /\ SamePoints' /\ FilesFine'
    <2>1. ~twins /\ mishaps = 0 /\ SamePoints /\ FilesFine /\ phase' = "flush matrix"
      BY <1>1, <1>4 DEF VectorInv
    <2>a. mishaps <= 1 /\ phase \in Open
      <3>1. mishaps = 0 /\ phase = "open"
        BY <1>1, <2>1
      <3> QED
        BY <3>1 DEF Open
    <2>2. Paired(ids, payloads, matrix)
      BY <2>1, <2>a DEF VectorInv
    <2>3. SamePoints'
      BY <1>2, <1>4, <2>1, <2>2, UpsertSamePoints
    <2>4. Len(ids) <= Len(ids') /\ \A i \in 1..Len(ids) : ids'[i] = ids[i]
      BY <1>2, <1>4, <2>2, UpsertPairs
    <2>5. sidecarFile.ids = ids /\ sidecarFile' = sidecarFile /\ matrixFile' = matrixFile
      BY <1>1, <2>1 DEF FilesFine
    <2>6. Len(ids) = Len(ids') => ids' = ids
      <3>1. ids \in Seq(PointIds) /\ ids' \in Seq(PointIds)
        BY <1>2 DEF VectorTypeOK
      <3> QED
        BY <2>4, <3>1
    <2>7. FilesFine'
      BY <1>1, <2>1, <2>5, <2>6 DEF FilesFine
    <2> QED
      BY <2>1, <2>3, <2>7 DEF Open
  <1>5. phase' # "down"
    BY <1>1
  <1> QED
    BY <1>2, <1>3, <1>4, <1>5 DEF VectorInv

-----------------------------------------------------------------------------
Removes(gone) == gone \intersect ToSet(ids) # {} /\ Len(matrix) = Len(ids)

\* What delete changes.
LEMMA DeleteDoes ==
    ASSUME VectorTypeOK, NEW gone, DeletePoints(gone)
    PROVE  /\ phase = "open" /\ calls' = calls + 1 /\ UNCHANGED <<matrixFile, sidecarFile, mishaps>>
           /\ Removes(gone) => /\ ids' = Drop(ids, gone) /\ payloads' = Drop(payloads, gone)
                               /\ matrix' = Drop(matrix, gone) /\ phase' = "flush matrix"
           /\ ~Removes(gone) => UNCHANGED <<ids, payloads, matrix, phase>>
           /\ points' = {q \in points : q.key \notin {Encoded[i] : i \in gone}}
           /\ twins' \in BOOLEAN
           /\ ~twins' => ~twins /\ \A q \in points : q.key \in {Encoded[i] : i \in gone} => q.id \in gone
  BY DEF DeletePoints, Removes

\* What delete leaves has its type.
LEMMA DeleteTypes ==
    ASSUME VectorTypeOK, NEW gone, DeletePoints(gone)
    PROVE  VectorTypeOK'
  <1>1. /\ calls' = calls + 1 /\ UNCHANGED <<matrixFile, sidecarFile, mishaps>>
        /\ twins' \in BOOLEAN /\ points' \subseteq points
    BY DeleteDoes
  <1>2. /\ ids' \in Seq(PointIds) /\ payloads' \in Seq(Payloads) /\ matrix' \in Seq(MatrixRow)
        /\ Len(payloads') = Len(ids') /\ phase' \in Open \union {"down", "corrupt"}
    <2>1. CASE Removes(gone)
      <3>1. /\ ids' = Drop(ids, gone) /\ payloads' = Drop(payloads, gone)
            /\ matrix' = Drop(matrix, gone) /\ phase' = "flush matrix"
        BY <2>1, DeleteDoes
      <3>2. /\ ids \in Seq(PointIds) /\ payloads \in Seq(Payloads) /\ matrix \in Seq(MatrixRow)
            /\ Len(payloads) = Len(ids) /\ Len(matrix) = Len(ids)
        BY <2>1 DEF VectorTypeOK, Removes
      <3>3. Drop(ids, gone) \in Seq(PointIds) /\ Len(Drop(ids, gone)) = Cardinality(Kept(gone))
        BY <3>2, Dropped
      <3>4. Drop(payloads, gone) \in Seq(Payloads)
            /\ Len(Drop(payloads, gone)) = Cardinality(Kept(gone))
        BY <3>2, Dropped
      <3>5. Drop(matrix, gone) \in Seq(MatrixRow)
        BY <3>2, Dropped
      <3> QED
        BY <3>1, <3>3, <3>4, <3>5 DEF Open
    <2>2. CASE ~Removes(gone)
      BY <2>2, DeleteDoes DEF VectorTypeOK
    <2> QED
      BY <2>1, <2>2
  <1> QED
    BY <1>1, <1>2 DEF VectorTypeOK

\* What is left after a delete, and where it was before.
LEMMA DeleteLeaves ==
    ASSUME VectorTypeOK, Paired(ids, payloads, matrix), NEW gone, DeletePoints(gone), Removes(gone)
    PROVE  /\ Len(ids') \in Nat /\ Len(ids') < Len(ids)
           /\ Len(payloads') = Len(ids') /\ Len(matrix') = Len(ids')
           /\ \A k \in 1..Len(ids') :
                /\ KeptAt(gone, k) \in 1..Len(ids) /\ ids[KeptAt(gone, k)] \notin gone
                /\ Rank(Kept(gone), KeptAt(gone, k)) = k
                /\ ids'[k] = ids[KeptAt(gone, k)] /\ payloads'[k] = payloads[KeptAt(gone, k)]
                /\ matrix'[k] = matrix[KeptAt(gone, k)]
           /\ \A i \in 1..Len(ids) : ids[i] \notin gone => \E k \in 1..Len(ids') : i = KeptAt(gone, k)
  <1> DEFINE c == Cardinality(Kept(gone))
  <1>1. /\ ids' = Drop(ids, gone) /\ payloads' = Drop(payloads, gone) /\ matrix' = Drop(matrix, gone)
    BY DeleteDoes
  <1>2. /\ ids \in Seq(PointIds) /\ payloads \in Seq(Payloads) /\ matrix \in Seq(MatrixRow)
        /\ Len(payloads) = Len(ids) /\ Len(matrix) = Len(ids)
        /\ gone \intersect ToSet(ids) # {}
    BY DEF VectorTypeOK, Removes
  <1>3. /\ Len(Drop(ids, gone)) = c
        /\ \A k \in 1..c : Drop(ids, gone)[k] = ids[KeptAt(gone, k)]
    BY <1>2, Dropped
  <1>4. /\ Len(Drop(payloads, gone)) = c
        /\ \A k \in 1..c : Drop(payloads, gone)[k] = payloads[KeptAt(gone, k)]
    BY <1>2, Dropped
  <1>5. /\ Len(Drop(matrix, gone)) = c
        /\ \A k \in 1..c : Drop(matrix, gone)[k] = matrix[KeptAt(gone, k)]
    BY <1>2, Dropped
  <1>6. /\ c \in Nat /\ c < Len(ids) /\ Kept(gone) \subseteq 1..Len(ids)
        /\ \A k \in 1..c : KeptAt(gone, k) \in Kept(gone) /\ Rank(Kept(gone), KeptAt(gone, k)) = k
        /\ \A i \in Kept(gone) : \E k \in 1..c : i = KeptAt(gone, k)
    BY <1>2, KeptPlaces
  <1>7. \A i \in 1..Len(ids) : i \in Kept(gone) <=> ids[i] \notin gone
    BY <1>2 DEF Kept
  <1> HIDE DEF c
  <1> QED
    BY <1>1, <1>3, <1>4, <1>5, <1>6, <1>7

\* What is left keeps its rows.
LEMMA DeletePairs ==
    ASSUME VectorTypeOK, Paired(ids, payloads, matrix), NEW gone, DeletePoints(gone)
    PROVE  Paired(ids', payloads', matrix')
  <1>1. CASE ~Removes(gone)
    BY <1>1, DeleteDoes
  <1>2. CASE Removes(gone)
    <2>1. DOMAIN ids' = 1..Len(ids') /\ DOMAIN ids = 1..Len(ids)
      <3>1. VectorTypeOK'
        BY DeleteTypes
      <3> QED
        BY <3>1 DEF VectorTypeOK
    <2>2. Once(ids')
      <3> SUFFICES ASSUME NEW i \in 1..Len(ids'), NEW j \in 1..Len(ids'), ids'[i] = ids'[j]
                   PROVE  i = j
        BY <2>1 DEF Once
      <3>1. ids[KeptAt(gone, i)] = ids[KeptAt(gone, j)]
            /\ KeptAt(gone, i) \in 1..Len(ids) /\ KeptAt(gone, j) \in 1..Len(ids)
        BY <1>2, DeleteLeaves
      <3>2. KeptAt(gone, i) = KeptAt(gone, j)
        BY <2>1, <3>1 DEF Paired, Once
      <3>3. Rank(Kept(gone), KeptAt(gone, i)) = i /\ Rank(Kept(gone), KeptAt(gone, j)) = j
        BY <1>2, DeleteLeaves
      <3> QED
        BY <3>2, <3>3
    <2>3. \A k \in 1..Len(ids') : matrix'[k].of = ids'[k]
      <3> SUFFICES ASSUME NEW k \in 1..Len(ids') PROVE matrix'[k].of = ids'[k]
        OBVIOUS
      <3>1. KeptAt(gone, k) \in 1..Len(ids) /\ ids'[k] = ids[KeptAt(gone, k)]
            /\ matrix'[k] = matrix[KeptAt(gone, k)]
        BY <1>2, DeleteLeaves
      <3> QED
        BY <2>1, <3>1 DEF Paired
    <2>4. Len(payloads') = Len(ids') /\ Len(matrix') = Len(ids')
      BY <1>2, DeleteLeaves
    <2> QED
      BY <2>1, <2>2, <2>3, <2>4 DEF Paired
  <1> QED
    BY <1>1, <1>2

\* Both backends lose the same points.
LEMMA DeleteSamePoints ==
    ASSUME VectorTypeOK, Paired(ids, payloads, matrix), SamePoints, NEW gone, DeletePoints(gone), ~twins'
    PROVE  SamePoints'
  <1>1. points' = {q \in points : q.key \notin {Encoded[i] : i \in gone}}
        /\ \A q \in points : q.key \in {Encoded[i] : i \in gone} => q.id \in gone
    BY DeleteDoes
  <1>2. \A q \in points : q \in points' <=> q.id \notin gone
    <2>1. \A q \in points : q.key = Encoded[q.id]
      BY DEF SamePoints
    <2>2. \A q \in points : q.id \in gone => q.key \in {Encoded[i] : i \in gone}
      BY <2>1
    <2> QED
      BY <1>1, <2>2
  <1>3. DOMAIN ids' = 1..Len(ids') /\ DOMAIN ids = 1..Len(ids)
    <2>1. VectorTypeOK'
      BY DeleteTypes
    <2> QED
      BY <2>1 DEF VectorTypeOK
  <1>4. /\ \A q \in points : q.key = Encoded[q.id]
        /\ \A q \in points : \E i \in 1..Len(ids) :
             q.id = ids[i] /\ q.v = matrix[i].v /\ q.pay = payloads[i]
        /\ \A i \in 1..Len(ids) : QPoint(ids[i], matrix[i].v, payloads[i]) \in points
    BY <1>3 DEF SamePoints, QPoint
  <1>5. points' \subseteq points
    BY <1>1
  <1>6. CASE ~Removes(gone)
    <2>1. UNCHANGED <<ids, payloads, matrix>>
      BY <1>6, DeleteDoes
    <2>2. \A i \in 1..Len(ids) : ids[i] \notin gone
      BY <1>3, <1>6 DEF Removes, Paired, ToSet
    <2>3. points' = points
      BY <1>2, <1>4, <1>5, <2>2
    <2> QED
      BY <2>1, <2>3 DEF SamePoints
  <1>7. CASE Removes(gone)
    <2>1. \A q \in points' : \E k \in 1..Len(ids') :
             q.id = ids'[k] /\ q.v = matrix'[k].v /\ q.pay = payloads'[k]
      <3> SUFFICES ASSUME NEW q \in points'
                   PROVE  \E k \in 1..Len(ids') :
                            q.id = ids'[k] /\ q.v = matrix'[k].v /\ q.pay = payloads'[k]
        OBVIOUS
      <3>1. PICK i \in 1..Len(ids) : q.id = ids[i] /\ q.v = matrix[i].v /\ q.pay = payloads[i]
        BY <1>4, <1>5
      <3>2. ids[i] \notin gone
        BY <1>2, <1>5, <3>1
      <3>3. PICK k \in 1..Len(ids') : i = KeptAt(gone, k)
        BY <1>7, <3>2, DeleteLeaves
      <3>4. ids'[k] = ids[i] /\ payloads'[k] = payloads[i] /\ matrix'[k] = matrix[i]
        BY <1>7, <3>3, DeleteLeaves
      <3> QED
        BY <3>1, <3>4
    <2>2. \A k \in 1..Len(ids') : QPoint(ids'[k], matrix'[k].v, payloads'[k]) \in points'
      <3> SUFFICES ASSUME NEW k \in 1..Len(ids')
                   PROVE  QPoint(ids'[k], matrix'[k].v, payloads'[k]) \in points'
        OBVIOUS
      <3> DEFINE i == KeptAt(gone, k)
      <3>1. i \in 1..Len(ids) /\ ids[i] \notin gone /\ ids'[k] = ids[i] /\ payloads'[k] = payloads[i]
            /\ matrix'[k] = matrix[i]
        BY <1>7, DeleteLeaves
      <3>2. QPoint(ids[i], matrix[i].v, payloads[i]) \in points
            /\ QPoint(ids[i], matrix[i].v, payloads[i]).id = ids[i]
        BY <1>4, <3>1 DEF QPoint
      <3> QED
        BY <1>2, <3>1, <3>2
    <2>3. \A q \in points' : q.key = Encoded[q.id]
      BY <1>4, <1>5
    <2> QED
      BY <1>3, <2>1, <2>2, <2>3 DEF SamePoints, QPoint
  <1> QED
    BY <1>6, <1>7

\* delete keeps the invariant.
LEMMA DeleteKeeps ==
    ASSUME VectorInv, NEW gone, DeletePoints(gone)
    PROVE  VectorInv'
  <1>1. VectorTypeOK /\ VectorTypeOK'
    BY DeleteTypes DEF VectorInv
  <1>2. /\ phase = "open" /\ phase' \in {"open", "flush matrix"} /\ (~twins' => ~twins)
        /\ UNCHANGED <<matrixFile, sidecarFile, mishaps>>
    <2>1. /\ phase = "open" /\ (~twins' => ~twins)
          /\ UNCHANGED <<matrixFile, sidecarFile, mishaps>>
      BY <1>1, DeleteDoes
    <2>2. Removes(gone) => phase' = "flush matrix"
      BY <1>1, DeleteDoes
    <2>3. ~Removes(gone) => phase' = phase
      BY <1>1, DeleteDoes
    <2> QED
      BY <2>1, <2>2, <2>3
  <1>3. ASSUME ~twins', mishaps' <= 1
        PROVE  Paired(ids, payloads, matrix) /\ Paired(ids', payloads', matrix')
    <2>1. Paired(ids, payloads, matrix)
      BY <1>2, <1>3 DEF VectorInv, Open
    <2> QED
      BY <1>1, <2>1, DeletePairs
  <1>4. ASSUME ~twins', mishaps' = 0
        PROVE  phase' \in Open /\ SamePoints' /\ FilesFine'
    <2>1. ~twins /\ mishaps = 0 /\ SamePoints /\ FilesFine
      BY <1>2, <1>4 DEF VectorInv
    <2>a. mishaps' <= 1
      BY <1>4
    <2>2. Paired(ids, payloads, matrix)
      BY <1>3, <1>4, <2>a
    <2>3. SamePoints'
      BY <1>1, <1>4, <2>1, <2>2, DeleteSamePoints
    <2>4. sidecarFile.ids = ids /\ sidecarFile' = sidecarFile /\ matrixFile' = matrixFile
      BY <1>2, <2>1 DEF FilesFine
    <2>5. /\ phase' = "open" => ids' = ids
          /\ Len(ids) = Len(ids') => ids' = ids
      <3>1. CASE Removes(gone)
        <4>1. Len(ids') \in Nat /\ Len(ids') < Len(ids)
          BY <1>1, <2>2, <3>1, DeleteLeaves
        <4>2. Len(ids) \in Nat
          BY <1>1 DEF VectorTypeOK
        <4>3. phase' = "flush matrix"
          BY <1>1, <3>1, DeleteDoes
        <4>4. Len(ids) # Len(ids')
          BY <4>1, <4>2
        <4> QED
          BY <4>3, <4>4
      <3>2. CASE ~Removes(gone)
        BY <1>1, <3>2, DeleteDoes
      <3> QED
        BY <3>1, <3>2
    <2>6. FilesFine'
      BY <1>2, <2>1, <2>4, <2>5 DEF FilesFine
    <2> QED
      BY <1>2, <2>3, <2>6 DEF Open
  <1>5. phase' # "down"
    BY <1>2
  <1> QED
    BY <1>1, <1>3, <1>4, <1>5 DEF VectorInv

-----------------------------------------------------------------------------
(* Files, crashes and the next start *)

\* The matrix file is replaced.
LEMMA FlushMatrixKeeps ==
    ASSUME VectorInv, FlushMatrix
    PROVE  VectorInv'
  <1>1. VectorTypeOK'
    BY DEF FlushMatrix, VectorInv, VectorTypeOK, Open
  <1>2. phase \in Open /\ phase' \in Open /\ phase' # "down"
    BY DEF FlushMatrix, Open
  <1>3. SamePoints => SamePoints'
    BY DEF FlushMatrix, SamePoints
  <1>4. FilesFine => FilesFine'
    BY DEF FlushMatrix, FilesFine
  <1>5. UNCHANGED <<ids, payloads, matrix, mishaps, twins>>
    BY DEF FlushMatrix
  <1> QED
    BY <1>1, <1>2, <1>3, <1>4, <1>5 DEF VectorInv

\* The sidecar is replaced: both files are of the loaded version.
LEMMA FlushSidecarKeeps ==
    ASSUME VectorInv, FlushSidecar
    PROVE  VectorInv'
  <1>1. VectorTypeOK'
    BY DEF FlushSidecar, VectorInv, VectorTypeOK, Open
  <1>2. phase \in Open /\ phase' \in Open /\ phase' # "down"
    BY DEF FlushSidecar, Open
  <1>3. SamePoints => SamePoints'
    BY DEF FlushSidecar, SamePoints
  <1>4. FilesFine /\ Paired(ids, payloads, matrix) => FilesFine'
    BY DEF FlushSidecar, FilesFine, Paired
  <1>5. UNCHANGED <<ids, payloads, matrix, mishaps, twins>>
    BY DEF FlushSidecar
  <1>6. mishaps = 0 => mishaps <= 1
    OBVIOUS
  <1> QED
    BY <1>1, <1>2, <1>3, <1>4, <1>5, <1>6 DEF VectorInv

\* A failed write leaves the loaded collection as it is.
LEMMA FlushFailsKeeps ==
    ASSUME VectorInv, FlushFails
    PROVE  VectorInv'
  <1>a. mishaps \in Nat /\ mishaps' = mishaps + 1 /\ phase' = "open"
    BY DEF FlushFails, VectorInv, VectorTypeOK
  <1>b. mishaps' \in Nat
    BY <1>a
  <1>1. VectorTypeOK'
    BY <1>a, <1>b DEF FlushFails, VectorInv, VectorTypeOK, Open
  <1>2. phase \in Open /\ phase' # "down"
    BY DEF FlushFails, Open
  <1>3. mishaps' # 0 /\ (mishaps' <= 1 => mishaps <= 1)
    BY <1>a
  <1>4. UNCHANGED <<ids, payloads, matrix, twins>>
    BY DEF FlushFails
  <1> QED
    BY <1>1, <1>2, <1>3, <1>4 DEF VectorInv

\* Both files are of one version, or the sidecar's ids are the ones loaded.
LEMMA FilesPair ==
    ASSUME VectorTypeOK, FilesFine, Paired(ids, payloads, matrix), Whole
    PROVE  Paired(sidecarFile.ids, sidecarFile.payloads, matrixFile)
  <1>1. CASE phase # "flush sidecar"
    BY <1>1 DEF FilesFine
  <1>2. CASE phase = "flush sidecar"
    <2>1. matrixFile = matrix /\ sidecarFile.ids = ids
      BY <1>2 DEF FilesFine, Whole, Paired
    <2> QED
      BY <2>1 DEF Paired, VectorTypeOK
  <1> QED
    BY <1>1, <1>2

\* A crash leaves what the two files hold.
LEMMA VectorCrashKeeps ==
    ASSUME VectorInv, VectorCrash
    PROVE  VectorInv'
  <1>a. mishaps \in Nat /\ mishaps' = mishaps + 1 /\ phase' = "down"
    BY DEF VectorCrash, VectorInv, VectorTypeOK
  <1>b. mishaps' \in Nat
    BY <1>a
  <1>1. VectorTypeOK /\ VectorTypeOK'
    BY <1>a, <1>b DEF VectorCrash, VectorInv, VectorTypeOK
  <1>2. phase' \notin Open
    BY DEF VectorCrash, Open
  <1>3. mishaps' # 0 /\ (mishaps' = 1 => mishaps = 0 /\ mishaps <= 1)
    BY <1>a
  <1>4. UNCHANGED <<sidecarFile, matrixFile, twins>>
    BY DEF VectorCrash
  <1>5. ~twins' /\ mishaps' = 1 /\ Whole' =>
           Paired(sidecarFile'.ids, sidecarFile'.payloads, matrixFile')
    <2> SUFFICES ASSUME ~twins', mishaps' = 1, Whole'
                 PROVE  Paired(sidecarFile.ids, sidecarFile.payloads, matrixFile)
      BY <1>4
    <2>1. ~twins /\ mishaps = 0 /\ mishaps <= 1 /\ Whole
      BY <1>3, <1>4 DEF Whole
    <2>2. phase \in Open /\ FilesFine
      BY <2>1 DEF VectorInv
    <2>3. Paired(ids, payloads, matrix)
      BY <2>1, <2>2 DEF VectorInv
    <2> QED
      BY <1>1, <2>1, <2>2, <2>3, FilesPair
  <1> QED
    BY <1>1, <1>2, <1>3, <1>5 DEF VectorInv

\* The next start loads what the two files hold.
LEMMA LoadKeeps ==
    ASSUME VectorInv, Load
    PROVE  VectorInv'
  <1>1. VectorTypeOK /\ VectorTypeOK'
    BY DEF Load, VectorInv, VectorTypeOK, Open
  <1>2. phase \notin Open /\ phase' # "down" /\ (phase' \in Open => Whole)
    BY DEF Load, Open
  <1>3. UNCHANGED <<mishaps, twins>> /\ ids' = sidecarFile.ids /\ payloads' = sidecarFile.payloads
        /\ matrix' = matrixFile /\ phase = "down"
    BY DEF Load
  <1>4. mishaps <= 1 /\ mishaps # 0 => mishaps = 1
    BY <1>1 DEF VectorTypeOK
  <1>5. ~twins => mishaps # 0
    BY <1>2 DEF VectorInv
  <1> QED
    BY <1>1, <1>2, <1>3, <1>4, <1>5 DEF VectorInv

-----------------------------------------------------------------------------
(* What it means for the two backends *)

\* The empty collection.
LEMMA VectorStart == VectorAssumption /\ VectorInit => VectorInv
  <1> SUFFICES ASSUME VectorAssumption, VectorInit PROVE VectorInv
    OBVIOUS
  <1>1. VectorTypeOK
    <2>1. <<>> \in Seq(PointIds) /\ <<>> \in Seq(Payloads) /\ <<>> \in Seq(MatrixRow)
      OBVIOUS
    <2>2. sidecarFile \in [ids : Seq(PointIds), payloads : Seq(Payloads)]
          /\ Len(sidecarFile.payloads) = Len(sidecarFile.ids)
      BY <2>1 DEF VectorInit
    <2> QED
      BY <2>1, <2>2 DEF VectorInit, VectorTypeOK, Open
  <1>2. Paired(ids, payloads, matrix) /\ Paired(sidecarFile.ids, sidecarFile.payloads, matrixFile)
    BY DEF VectorInit, Paired, Once
  <1>3. SamePoints
    BY DEF VectorInit, SamePoints
  <1>4. FilesFine /\ phase \in Open
    BY <1>2 DEF VectorInit, FilesFine, Paired, Open
  <1> QED
    BY <1>1, <1>2, <1>3, <1>4 DEF VectorInv

\* Every call and every mishap keeps the invariant.
LEMMA VectorStep == VectorAssumption /\ VectorInv /\ [VectorNext]_vectorVars => VectorInv'
  <1> SUFFICES ASSUME VectorAssumption, VectorInv, [VectorNext]_vectorVars PROVE VectorInv'
    OBVIOUS
  <1>1. CASE UNCHANGED vectorVars
    BY <1>1 DEF vectorVars, VectorInv, VectorTypeOK, SamePoints, FilesFine, Whole
  <1>2. CASE VectorNext
    BY <1>2, UpsertKeeps, DeleteKeeps, FlushMatrixKeeps, FlushSidecarKeeps, FlushFailsKeeps,
       VectorCrashKeeps, LoadKeeps DEF VectorNext
  <1> QED
    BY <1>1, <1>2

\* Stores of the same points give the same hits.
LEMMA HitsAgree ==
    ASSUME VectorTypeOK, SamePoints, NEW q, NEW floor, NEW accepted
    PROVE  NumpyHits(q, floor, accepted) = QdrantHits(q, floor, accepted)
  <1> DEFINE Numpy == NumpyHits(q, floor, accepted)
             Qdrant == QdrantHits(q, floor, accepted)
             Meets(v, pay) == payload_matches(pay, accepted) /\ Score(q, v) >= floor
             Hit(i, v, pay) == [id |-> i, score |-> Score(q, v), pay |-> pay]
  <1>1. \A x : x \in Numpy <=> \E i \in DOMAIN ids : /\ Meets(matrix[i].v, payloads[i])
                                                    /\ x = Hit(ids[i], matrix[i].v, payloads[i])
    BY DEF NumpyHits
  <1>2. \A x : x \in Qdrant <=> \E p \in points : Meets(p.v, p.pay) /\ x = Hit(p.id, p.v, p.pay)
    BY DEF QdrantHits
  <1>3. \A p \in points : \E i \in DOMAIN ids :
           p.id = ids[i] /\ p.v = matrix[i].v /\ p.pay = payloads[i]
    BY DEF SamePoints
  <1>4. \A i \in DOMAIN ids : \E p \in points :
           p.id = ids[i] /\ p.v = matrix[i].v /\ p.pay = payloads[i]
    BY DEF SamePoints
  <1> HIDE DEF Numpy, Qdrant, Meets, Hit
  <1>5. Numpy \subseteq Qdrant
    BY <1>1, <1>2, <1>4
  <1>6. Qdrant \subseteq Numpy
    BY <1>1, <1>2, <1>3
  <1> QED
    BY <1>5, <1>6 DEF Numpy, Qdrant

\* What the invariant says of searches and of loaded rows.
LEMMA VectorConsequence == VectorInv => VectorsSound
  <1> SUFFICES ASSUME VectorInv PROVE SameHits /\ VectorsBelong
    BY DEF VectorsSound
  <1>1. SameHits
    BY HitsAgree DEF SameHits, VectorInv
  <1>2. VectorsBelong
    BY DEF VectorsBelong, VectorInv, Paired, Open
  <1> QED
    BY <1>1, <1>2

\* For any ids, encodings, batches and numbers of calls and mishaps: until
\* something fails the numpy store and Qdrant answer every search with the same
\* hits, and one crash or failed write between the two files never leaves an id
\* with a vector of another (upsert, delete and _flush_one, NumpyVectorStore).
THEOREM VectorsAreSound == VectorInit /\ [][VectorNext]_vectorVars => []VectorsSound
  <1>1. VectorInit => VectorInv
    BY VectorAssumption, VectorStart
  <1>2. VectorInv /\ [VectorNext]_vectorVars => VectorInv'
    BY VectorAssumption, VectorStep
  <1>3. VectorInv => VectorsSound
    BY VectorConsequence
  <1> QED
    BY <1>1, <1>2, <1>3, PTL

-----------------------------------------------------------------------------
(* The graph in SQLite and in kuzu, for any entities, hops and calls       *)

EdgeRow == [from : Entities, to : Entities, type : RelTypes, since : Sinces, weight : Weights,
            live : BOOLEAN]
Rel == [from : Entities, to : Entities, type : RelTypes, weight : Weights]

\* What kuzu keeps of a row.
Stripped(r) == [from |-> r.from, to |-> r.to, type |-> r.type, weight |-> r.weight]

GraphTypeOK ==
    /\ index \in [Entities -> Names \union {"absent"}]
    /\ nodes \in [Entities -> Names \union {"absent"}]
    /\ edgeRows \subseteq EdgeRow /\ rels \subseteq Rel
    /\ writes \in Nat /\ tangled \in BOOLEAN

\* kuzu holds the live rows, an edge has one row, between entities that are there.
GraphInv ==
    /\ GraphTypeOK
    /\ ~tangled =>
         /\ index = nodes
         /\ \A r \in LiveRows : Stripped(r) \in rels
         /\ \A q \in rels : \E r \in LiveRows : q = Stripped(r)
         /\ \A r, x \in edgeRows : SameEdge(r, x.from, x.to, x.type) => r = x
         /\ \A r \in edgeRows : index[r.from] # "absent" /\ index[r.to] # "absent"

\* upsert_entity keeps both sides alike.
LEMMA EntityKeepsGraph ==
    ASSUME GraphAssumption, GraphInv, NEW e \in Entities, NEW n \in Names, UpsertEntity(e, n)
    PROVE  GraphInv'
  <1> DEFINE taken == \E f \in Entities \ {e} : index[f] = n
  <1>1. /\ index' = IF taken THEN index ELSE [index EXCEPT ![e] = n]
        /\ nodes' = [nodes EXCEPT ![e] = n]
        /\ tangled' = (tangled \/ taken)
        /\ UNCHANGED <<edgeRows, rels>> /\ writes' = writes + 1
    BY DEF UpsertEntity
  <1>2. GraphTypeOK'
    BY <1>1 DEF GraphInv, GraphTypeOK
  <1>3. ASSUME ~tangled'
        PROVE  /\ index' = nodes' /\ ~tangled
               /\ \A r \in edgeRows : index[r.from] # "absent" => index'[r.from] # "absent"
               /\ \A r \in edgeRows : index[r.to] # "absent" => index'[r.to] # "absent"
    <2>1. ~taken /\ ~tangled /\ index' = [index EXCEPT ![e] = n] /\ index = nodes
      BY <1>1, <1>3 DEF GraphInv
    <2>2. \A f \in Entities : index[f] # "absent" => index'[f] # "absent"
      BY <2>1 DEF GraphInv, GraphTypeOK, GraphAssumption
    <2>3. \A r \in edgeRows : r.from \in Entities /\ r.to \in Entities
      BY DEF GraphInv, GraphTypeOK, EdgeRow
    <2> QED
      BY <1>1, <2>1, <2>2, <2>3
  <1>4. LiveRows' = LiveRows
    BY <1>1 DEF LiveRows
  <1> QED
    BY <1>1, <1>2, <1>3, <1>4 DEF GraphInv

\* upsert_edge keeps both sides alike, retractions included.
LEMMA EdgeKeepsGraph ==
    ASSUME GraphInv, NEW f \in Entities, NEW t \in Entities, NEW y \in RelTypes, UpsertEdge(f, t, y)
    PROVE  GraphInv'
  <1>1. PICK s \in Sinces, w \in Weights, live \in BOOLEAN :
          /\ edgeRows' = SqliteUpsert(f, t, y, s, w, live)
          /\ rels' = KuzuUpsert(f, t, y, w, live)
          /\ tangled' = (tangled \/ \E r \in edgeRows : SameEdge(r, f, t, y) /\ r.since # s)
    BY DEF UpsertEdge
  <1>2. writes' = writes + 1 /\ UNCHANGED <<index, nodes>>
    BY DEF UpsertEdge
  <1> DEFINE row == [from |-> f, to |-> t, type |-> y, since |-> s, weight |-> w, live |-> live]
             rel == [from |-> f, to |-> t, type |-> y, weight |-> w]
             olds == {r \in edgeRows : ~(SameEdge(r, f, t, y) /\ r.since = s)}
             others == {r \in rels : ~SameEdge(r, f, t, y)}
             unknown == "absent" \in {index[f], index[t]}
  <1>3. row \in EdgeRow /\ rel \in Rel /\ Stripped(row) = rel
    BY DEF EdgeRow, Rel, Stripped
  <1>4. edgeRows' = IF unknown THEN edgeRows ELSE olds \union {row}
    BY <1>1 DEF SqliteUpsert
  <1>5. rels' = IF ~live THEN others
                ELSE IF "absent" \in {nodes[f], nodes[t]} THEN rels ELSE others \union {rel}
    BY <1>1 DEF KuzuUpsert
  <1>6. GraphTypeOK'
    <2>1. edgeRows' \subseteq EdgeRow /\ rels' \subseteq Rel
      BY <1>3, <1>4, <1>5 DEF GraphInv, GraphTypeOK
    <2> QED
      BY <1>1, <1>2, <2>1 DEF GraphInv, GraphTypeOK
  <1>7. ASSUME ~tangled'
        PROVE  /\ index' = nodes'
               /\ \A r \in LiveRows' : Stripped(r) \in rels'
               /\ \A q \in rels' : \E r \in LiveRows' : q = Stripped(r)
               /\ \A r, x \in edgeRows' : SameEdge(r, x.from, x.to, x.type) => r = x
               /\ \A r \in edgeRows' : index'[r.from] # "absent" /\ index'[r.to] # "absent"
    <2>1. ~tangled /\ \A r \in edgeRows : SameEdge(r, f, t, y) => r.since = s
      BY <1>1, <1>7
    <2>2. /\ index = nodes
          /\ \A r \in LiveRows : Stripped(r) \in rels
          /\ \A q \in rels : \E r \in LiveRows : q = Stripped(r)
          /\ \A r, x \in edgeRows : SameEdge(r, x.from, x.to, x.type) => r = x
          /\ \A r \in edgeRows : index[r.from] # "absent" /\ index[r.to] # "absent"
      BY <2>1 DEF GraphInv
    <2>3. \A r : SameEdge(Stripped(r), f, t, y) <=> SameEdge(r, f, t, y)
      BY DEF SameEdge, Stripped
    <2>4. \A r : r \in LiveRows <=> r \in edgeRows /\ r.live
      BY DEF LiveRows
    <2>4a. \A r : r \in LiveRows' <=> r \in edgeRows' /\ r.live
      BY DEF LiveRows
    <2>5. olds = {r \in edgeRows : ~SameEdge(r, f, t, y)}
      BY <2>1
    <2>6. SameEdge(row, f, t, y) /\ SameEdge(rel, f, t, y) /\ row.live = live
      BY DEF SameEdge
    <2>7. CASE unknown
      <3>1. edgeRows' = edgeRows /\ LiveRows' = LiveRows
        BY <1>4, <2>7 DEF LiveRows
      <3>2. \A r \in edgeRows : ~SameEdge(r, f, t, y)
        BY <2>2, <2>7 DEF SameEdge
      <3>3. \A q \in rels : ~SameEdge(q, f, t, y)
        BY <2>2, <2>3, <2>4, <3>2
      <3>4. rels' = rels
        BY <1>5, <2>2, <2>7, <3>3
      <3> QED
        BY <1>2, <2>2, <3>1, <3>4
    <2>8. CASE ~unknown
      <3>1. edgeRows' = olds \union {row}
        BY <1>4, <2>8
      <3>2. rels' = IF live THEN others \union {rel} ELSE others
        BY <1>5, <2>2, <2>8
      <3>3. \A r \in olds : ~SameEdge(r, f, t, y) /\ r \in edgeRows
        BY <2>5
      <3> HIDE DEF row, rel, olds, others
      <3>4. \A r \in LiveRows' : Stripped(r) \in rels'
        <4> SUFFICES ASSUME NEW r \in LiveRows' PROVE Stripped(r) \in rels'
          OBVIOUS
        <4>1. CASE r = row
          BY <1>3, <2>4a, <2>6, <3>2, <4>1
        <4>2. CASE r \in olds
          <5>1. Stripped(r) \in rels /\ ~SameEdge(Stripped(r), f, t, y)
            BY <2>2, <2>3, <2>4, <2>4a, <3>3, <4>2
          <5> QED
            BY <3>2, <5>1 DEF others
        <4> QED
          BY <2>4a, <3>1, <4>1, <4>2
      <3>5. \A q \in rels' : \E r \in LiveRows' : q = Stripped(r)
        <4> SUFFICES ASSUME NEW q \in rels' PROVE \E r \in LiveRows' : q = Stripped(r)
          OBVIOUS
        <4>1. CASE q \in others
          <5>1. q \in rels /\ ~SameEdge(q, f, t, y)
            BY <4>1 DEF others
          <5>2. PICK r \in LiveRows : q = Stripped(r)
            BY <2>2, <5>1
          <5>3. r \in edgeRows /\ r.live /\ ~SameEdge(r, f, t, y)
            BY <2>3, <2>4, <5>1, <5>2
          <5>4. r \in olds
            BY <2>5, <5>3
          <5> QED
            BY <2>4a, <3>1, <5>2, <5>3, <5>4
        <4>2. CASE live /\ q = rel
          BY <1>3, <2>4a, <2>6, <3>1, <4>2
        <4> QED
          BY <3>2, <4>1, <4>2
      <3>6. \A r, x \in edgeRows' : SameEdge(r, x.from, x.to, x.type) => r = x
        <4>1. row.from = f /\ row.to = t /\ row.type = y
          BY DEF row
        <4>2. \A x : SameEdge(row, x.from, x.to, x.type) => SameEdge(x, f, t, y)
          BY <4>1 DEF SameEdge
        <4> QED
          BY <2>2, <3>1, <3>3, <4>1, <4>2
      <3>7. \A r \in edgeRows' : index[r.from] # "absent" /\ index[r.to] # "absent"
        <4>1. row.from = f /\ row.to = t
          BY DEF row
        <4> QED
          BY <2>2, <2>8, <3>1, <3>3, <4>1
      <3> QED
        BY <1>2, <2>2, <3>4, <3>5, <3>6, <3>7
    <2> QED
      BY <2>7, <2>8
  <1> QED
    BY <1>6, <1>7 DEF GraphInv

\* Removing live rows and the relationships they are stripped to.
LEMMA RemovalKeepsGraph ==
    ASSUME GraphInv, edgeRows' \subseteq edgeRows, rels' \subseteq rels,
           \A r \in LiveRows : r \in edgeRows' <=> Stripped(r) \in rels',
           UNCHANGED <<index, nodes, writes, tangled>>
    PROVE  GraphInv'
  <1>1. GraphTypeOK'
    BY DEF GraphInv, GraphTypeOK
  <1>2. \A r : r \in LiveRows' <=> r \in LiveRows /\ r \in edgeRows'
    BY DEF LiveRows
  <1>3. ~tangled => /\ \A r \in LiveRows' : Stripped(r) \in rels'
                    /\ \A q \in rels' : \E r \in LiveRows' : q = Stripped(r)
    BY <1>2 DEF GraphInv
  <1>4. ~tangled => /\ index = nodes
                    /\ \A r, x \in edgeRows' : SameEdge(r, x.from, x.to, x.type) => r = x
                    /\ \A r \in edgeRows' : index[r.from] # "absent" /\ index[r.to] # "absent"
    BY DEF GraphInv
  <1> QED
    BY <1>1, <1>3, <1>4 DEF GraphInv

\* delete_edge takes the same relationships from both.
LEMMA DeleteKeepsGraph ==
    ASSUME GraphInv, NEW f, NEW t, NEW y, DeleteEdge(f, t, y)
    PROVE  GraphInv'
  <1>1. /\ edgeRows' = {r \in edgeRows : ~(SameEdge(r, f, t, y) /\ r.live)}
        /\ rels' = {r \in rels : ~SameEdge(r, f, t, y)}
        /\ UNCHANGED <<index, nodes, writes, tangled>>
    BY DEF DeleteEdge
  <1>2. \A r \in LiveRows : r \in edgeRows /\ r.live
    BY DEF LiveRows
  <1>3. CASE ~tangled
    <2>1. \A r \in LiveRows : Stripped(r) \in rels
      BY <1>3 DEF GraphInv
    <2>2. \A r : SameEdge(Stripped(r), f, t, y) <=> SameEdge(r, f, t, y)
      BY DEF SameEdge, Stripped
    <2>3. \A r \in LiveRows : r \in edgeRows' <=> Stripped(r) \in rels'
      BY <1>1, <1>2, <2>1, <2>2
    <2> QED
      BY <1>1, <2>3, RemovalKeepsGraph
  <1>4. CASE tangled
    BY <1>1, <1>4 DEF GraphInv, GraphTypeOK
  <1> QED
    BY <1>3, <1>4 DEF GraphInv, GraphTypeOK

\* So does prune_edges.
LEMMA PruneKeepsGraph ==
    ASSUME GraphInv, NEW floor, PruneEdges(floor)
    PROVE  GraphInv'
  <1>1. /\ edgeRows' = {r \in edgeRows : ~(r.weight < floor /\ r.live)}
        /\ rels' = {r \in rels : ~(r.weight < floor)}
        /\ UNCHANGED <<index, nodes, writes, tangled>>
    BY DEF PruneEdges
  <1>2. \A r \in LiveRows : r \in edgeRows /\ r.live
    BY DEF LiveRows
  <1>3. CASE ~tangled
    <2>1. \A r \in LiveRows : Stripped(r) \in rels
      BY <1>3 DEF GraphInv
    <2>2. \A r : Stripped(r).weight = r.weight
      BY DEF Stripped
    <2>3. \A r \in LiveRows : r \in edgeRows' <=> Stripped(r) \in rels'
      BY <1>1, <1>2, <2>1, <2>2
    <2> QED
      BY <1>1, <2>3, RemovalKeepsGraph
  <1>4. CASE tangled
    BY <1>1, <1>4 DEF GraphInv, GraphTypeOK
  <1> QED
    BY <1>3, <1>4 DEF GraphInv, GraphTypeOK

-----------------------------------------------------------------------------
(* Paths *)

\* The nodes that a path visits: its start and where each edge leads.
LEMMA PathNodes ==
    ASSUME NEW a, NEW X, NEW p \in Seq(X)
    PROVE  /\ Len(NodesOf(a, p)) = Len(p) + 1 /\ DOMAIN NodesOf(a, p) = 1..(Len(p) + 1)
           /\ NodesOf(a, p)[1] = a
           /\ \A i \in 1..Len(p) : NodesOf(a, p)[i + 1] = p[i].to
           /\ Last(NodesOf(a, p)) = NodesOf(a, p)[Len(p) + 1]
           /\ \E V : NodesOf(a, p) \in Seq(V)
  <1> DEFINE V == {a} \union {p[i].to : i \in 1..Len(p)}
             one == <<a>>
             rest == [i \in 1..Len(p) |-> p[i].to]
             n == Len(p)
  <1>1. n \in Nat
    OBVIOUS
  <1>2. \A i \in 1..n : p[i].to \in V
    OBVIOUS
  <1>3. one \in Seq(V) /\ Len(one) = 1 /\ one[1] = a
    OBVIOUS
  <1> HIDE DEF V, n, one
  <1>4. rest \in Seq(V) /\ Len(rest) = n /\ \A i \in 1..n : rest[i] = p[i].to
    BY <1>1, <1>2 DEF n
  <1> HIDE DEF rest
  <1>5. /\ one \o rest \in Seq(V) /\ Len(one \o rest) = 1 + n
        /\ \A i \in 1..(1 + n) : (one \o rest)[i] = IF i <= 1 THEN one[i] ELSE rest[i - 1]
    <2>1. /\ one \o rest \in Seq(V) /\ Len(one \o rest) = Len(one) + Len(rest)
          /\ \A i \in 1..(Len(one) + Len(rest)) :
                (one \o rest)[i] = IF i <= Len(one) THEN one[i] ELSE rest[i - Len(one)]
      BY <1>3, <1>4, ConcatProperties, Zenon
    <2>2. Len(one) = 1 /\ Len(rest) = n
      BY <1>3, <1>4
    <2> QED
      BY <2>1, <2>2
  <1>6. NodesOf(a, p) = one \o rest
    BY DEF NodesOf, one, rest
  <1>7. /\ 1 + n = n + 1 /\ 1 \in 1..(1 + n)
        /\ \A i \in 1..n : i + 1 \in 1..(1 + n) /\ ~(i + 1 <= 1) /\ (i + 1) - 1 = i
    BY <1>1
  <1>8. Last(NodesOf(a, p)) = NodesOf(a, p)[n + 1] /\ DOMAIN NodesOf(a, p) = 1..(n + 1)
    <2>1. Len(NodesOf(a, p)) = n + 1 /\ NodesOf(a, p) \in Seq(V)
      BY <1>5, <1>6, <1>7
    <2> QED
      BY <2>1 DEF Last
  <1>9. NodesOf(a, p)[1] = a
    BY <1>3, <1>5, <1>6, <1>7
  <1>10. \A i \in 1..n : NodesOf(a, p)[i + 1] = p[i].to
    BY <1>4, <1>5, <1>6, <1>7
  <1> QED
    BY <1>5, <1>6, <1>7, <1>8, <1>9, <1>10 DEF n

\* As many nodes as places: no node is visited twice.
LEMMA SimpleVisitsOnce ==
    ASSUME NEW a, NEW X, NEW p \in Seq(X)
    PROVE  is_simple_path(NodesOf(a, p)) <=> Once(NodesOf(a, p))
  <1> DEFINE ns == NodesOf(a, p)
             n == Len(ns)
             S == 1..n
             T == ToSet(ns)
  <1>1. n \in Nat /\ DOMAIN ns = S
    BY PathNodes
  <1>2. PICK V : ns \in Seq(V)
    BY PathNodes
  <1>3. ns = [i \in S |-> ns[i]] /\ \A x : x \in T <=> \E i \in S : ns[i] = x
    BY <1>1, <1>2 DEF ToSet
  <1> HIDE DEF ns, T
  <1>4. IsFiniteSet(S) /\ Cardinality(S) = n
    BY <1>1, FirstNumbers
  <1> HIDE DEF S, n
  <1>5. ns \in [S -> T]
    BY <1>3
  <1>6. ns \in Surjection(S, T)
    BY <1>3, <1>5 DEF Surjection
  <1>7. Cardinality(T) = n <=> ns \in Injection(S, T)
    BY <1>4, <1>6, FS_Surjection
  <1>8. ns \in Injection(S, T) <=> Once(ns)
    BY <1>1, <1>5 DEF Injection, IsInjective, Once
  <1> QED
    BY <1>7, <1>8 DEF is_simple_path, ns, n, T

Chained(a, p) == \A i \in 1..Len(p) : p[i].from = NodesOf(a, p)[i]

\* The paths of at most n hops over a set of edges.
Paths(a, E, n) == {p \in Seq(E) : Len(p) <= n /\ Chained(a, p) /\ Once(NodesOf(a, p))}

\* A path goes one edge further when the edge leaves its last node for a new one.
LEMMA OneFurther ==
    ASSUME NEW a, NEW E, NEW p \in Seq(E), NEW r \in E
    PROVE  Chained(a, Append(p, r)) /\ Once(NodesOf(a, Append(p, r)))
           <=> /\ Chained(a, p) /\ Once(NodesOf(a, p))
               /\ r.from = Last(NodesOf(a, p)) /\ r.to \notin ToSet(NodesOf(a, p))
  <1> DEFINE q == Append(p, r)
             n == Len(p)
             old == NodesOf(a, p)
             new == NodesOf(a, q)
  <1>1. n \in Nat /\ q \in Seq(E) /\ Len(q) = n + 1 /\ (\A i \in 1..n : q[i] = p[i]) /\ q[n + 1] = r
    BY AppendProperties
  <1>2. /\ Len(old) = n + 1 /\ DOMAIN old = 1..(n + 1) /\ old[1] = a
        /\ \A i \in 1..n : old[i + 1] = p[i].to
        /\ Last(old) = old[n + 1]
    BY PathNodes
  <1> HIDE DEF q
  <1>3. /\ Len(new) = (n + 1) + 1 /\ DOMAIN new = 1..((n + 1) + 1) /\ new[1] = a
        /\ \A i \in 1..(n + 1) : new[i + 1] = q[i].to
    BY <1>1, PathNodes
  <1> HIDE DEF n, old, new
  <1>4. /\ \A i \in 1..n : i \in 1..(n + 1) /\ i + 1 \in 1..(n + 1)
        /\ \A i \in 1..(n + 1) : i = 1 \/ (i - 1 \in 1..n /\ (i - 1) + 1 = i)
        /\ \A i \in 1..((n + 1) + 1) : i \in 1..(n + 1) \/ i = (n + 1) + 1
        /\ n + 1 \in 1..(n + 1) /\ (n + 1) + 1 \in 1..((n + 1) + 1)
        /\ \A i \in 1..(n + 1) : i \in 1..((n + 1) + 1) /\ i # (n + 1) + 1
        /\ \A i \in 1..(n + 1) : i \in 1..n \/ i = n + 1
    BY <1>1
  <1>5. \A i \in 1..(n + 1) : new[i] = old[i]
    <2> SUFFICES ASSUME NEW i \in 1..(n + 1) PROVE new[i] = old[i]
      OBVIOUS
    <2>1. CASE i = 1
      BY <1>2, <1>3, <2>1
    <2>2. CASE i - 1 \in 1..n /\ (i - 1) + 1 = i
      <3> DEFINE j == i - 1
      <3>1. new[j + 1] = q[j].to /\ old[j + 1] = p[j].to /\ q[j] = p[j]
        BY <1>1, <1>2, <1>3, <1>4, <2>2
      <3> QED
        BY <2>2, <3>1
    <2> QED
      BY <1>4, <2>1, <2>2
  <1>6. new[(n + 1) + 1] = r.to
    BY <1>1, <1>3, <1>4
  <1>7. Chained(a, q) <=> Chained(a, p) /\ r.from = Last(old)
    <2>1. Chained(a, q) <=> \A i \in 1..(n + 1) : q[i].from = new[i]
      BY <1>1 DEF Chained, new
    <2>2. Chained(a, p) <=> \A i \in 1..n : p[i].from = old[i]
      BY DEF Chained, old, n
    <2> QED
      BY <1>1, <1>2, <1>4, <1>5, <2>1, <2>2
  <1>8. Once(new) <=> Once(old) /\ \A i \in 1..(n + 1) : old[i] # r.to
    <2> DEFINE m == n + 1
    <2>1. /\ \A i \in 1..m : i \in 1..(m + 1) /\ i # m + 1 /\ new[i] = old[i]
          /\ \A i \in 1..(m + 1) : i \in 1..m \/ i = m + 1
          /\ m + 1 \in 1..(m + 1) /\ new[m + 1] = r.to
      BY <1>4, <1>5, <1>6
    <2>2. Once(new) <=> \A i, j \in 1..(m + 1) : new[i] = new[j] => i = j
      BY <1>3 DEF Once
    <2>3. Once(old) <=> \A i, j \in 1..m : old[i] = old[j] => i = j
      BY <1>2 DEF Once
    <2> HIDE DEF m
    <2>4. ASSUME Once(new) PROVE Once(old) /\ \A i \in 1..m : old[i] # r.to
      <3>1. \A i, j \in 1..(m + 1) : new[i] = new[j] => i = j
        BY <2>2, <2>4
      <3>2. \A i, j \in 1..m : old[i] = old[j] => i = j
        BY <2>1, <3>1
      <3>3. \A i \in 1..m : old[i] # r.to
        BY <2>1, <3>1
      <3> QED
        BY <2>3, <3>2, <3>3
    <2>5. ASSUME Once(old), \A i \in 1..m : old[i] # r.to PROVE Once(new)
      <3>1. \A i, j \in 1..m : old[i] = old[j] => i = j
        BY <2>3, <2>5
      <3>2. \A i, j \in 1..(m + 1) : new[i] = new[j] => i = j
        BY <2>1, <2>5, <3>1
      <3> QED
        BY <2>2, <3>2
    <2> QED
      BY <2>4, <2>5 DEF m
  <1>9. (\A i \in 1..(n + 1) : old[i] # r.to) <=> r.to \notin ToSet(old)
    BY <1>2 DEF ToSet
  <1> QED
    BY <1>7, <1>8, <1>9 DEF q, old, new

\* What the recursive part of the CTE adds in round n.
Farther(W, n, a) ==
    W \union UNION {{Append(p, r) : r \in {x \in LiveRows :
                        /\ x.from = Last(NodesOf(a, p))
                        /\ x.to \notin ToSet(NodesOf(a, p))}} :
                      p \in {q \in W : Len(q) = n - 1}}

IsWalk(w, a, N) == w = [n \in 0..N |-> IF n = 0 THEN {<<>>} ELSE Farther(w[n - 1], n, a)]

LEMMA FartherPaths ==
    ASSUME NEW a, NEW n \in Nat \ {0}
    PROVE  Farther(Paths(a, LiveRows, n - 1), n, a) = Paths(a, LiveRows, n)
  <1> DEFINE E == LiveRows
             W == Paths(a, E, n - 1)
             P == Paths(a, E, n)
             F == Farther(W, n, a)
  <1>0. n - 1 \in Nat /\ (n - 1) + 1 = n /\ \A k \in Nat : (k <= n - 1 => k <= n) /\ (k <= n /\ k # n => k <= n - 1)
    OBVIOUS
  <1>1. \A x : x \in F <=> \/ x \in W
                          \/ \E p \in W, r \in E : /\ Len(p) = n - 1 /\ r.from = Last(NodesOf(a, p))
                                                   /\ r.to \notin ToSet(NodesOf(a, p))
                                                   /\ x = Append(p, r)
    BY DEF Farther
  <1> HIDE DEF F, W, P, E
  <1>2. \A x : x \in W <=> x \in Seq(E) /\ Len(x) <= n - 1 /\ Chained(a, x) /\ Once(NodesOf(a, x))
    BY DEF W, Paths
  <1>3. \A x : x \in P <=> x \in Seq(E) /\ Len(x) <= n /\ Chained(a, x) /\ Once(NodesOf(a, x))
    BY DEF P, Paths
  <1>4. \A x \in Seq(E) : Len(x) \in Nat
    OBVIOUS
  <1>5. ASSUME NEW x \in F PROVE x \in P
    <2>1. CASE x \in W
      BY <1>0, <1>2, <1>3, <1>4, <2>1
    <2>2. CASE x \notin W
      <3>1. PICK p \in W, r \in E : /\ Len(p) = n - 1 /\ r.from = Last(NodesOf(a, p))
                                    /\ r.to \notin ToSet(NodesOf(a, p)) /\ x = Append(p, r)
        BY <1>1, <2>2
      <3>2. p \in Seq(E) /\ Chained(a, p) /\ Once(NodesOf(a, p))
        BY <1>2
      <3>3. Chained(a, x) /\ Once(NodesOf(a, x))
        BY <3>1, <3>2, OneFurther
      <3>4. x \in Seq(E) /\ Len(x) = (n - 1) + 1
        BY <3>1, <3>2, AppendProperties
      <3> QED
        BY <1>0, <1>3, <3>3, <3>4
    <2> QED
      BY <2>1, <2>2
  <1>6. ASSUME NEW x \in P PROVE x \in F
    <2>1. x \in Seq(E) /\ Len(x) <= n /\ Chained(a, x) /\ Once(NodesOf(a, x)) /\ Len(x) \in Nat
      BY <1>3, <1>4
    <2>2. CASE Len(x) # n
      BY <1>0, <1>1, <1>2, <2>1, <2>2
    <2>3. CASE Len(x) = n
      <3> DEFINE p == [i \in 1..(n - 1) |-> x[i]]
                 r == x[n]
      <3>1. p \in Seq(E) /\ Len(p) = n - 1 /\ r \in E
        <4>1. \A i \in 1..n : x[i] \in E
          BY <2>1, <2>3
        <4>2. n \in 1..n /\ \A i \in 1..(n - 1) : i \in 1..n
          OBVIOUS
        <4> QED
          BY <1>0, <4>1, <4>2
      <3>2. x = Append(p, r)
        <4>1. /\ Append(p, r) \in Seq(E) /\ Len(Append(p, r)) = (n - 1) + 1
              /\ \A i \in 1..(n - 1) : Append(p, r)[i] = p[i]
              /\ Append(p, r)[(n - 1) + 1] = r
          BY <3>1, AppendProperties
        <4>2. \A i \in 1..n : i \in 1..(n - 1) \/ i = n
          OBVIOUS
        <4>3. \A i \in 1..(n - 1) : p[i] = x[i]
          OBVIOUS
        <4>4. \A i \in 1..n : Append(p, r)[i] = x[i]
          BY <1>0, <4>1, <4>2, <4>3
        <4> HIDE DEF p, r
        <4> QED
          BY <1>0, <2>1, <2>3, <4>1, <4>4
      <3> HIDE DEF p, r
      <3>3. /\ Chained(a, p) /\ Once(NodesOf(a, p)) /\ r.from = Last(NodesOf(a, p))
            /\ r.to \notin ToSet(NodesOf(a, p))
        BY <2>1, <3>1, <3>2, OneFurther
      <3>4. p \in W
        BY <1>0, <1>2, <3>1, <3>3
      <3> QED
        BY <1>1, <3>1, <3>2, <3>3, <3>4
    <2> QED
      BY <2>2, <2>3
  <1>7. F = P
    BY <1>5, <1>6
  <1> QED
    BY <1>7 DEF F, P, W, E

\* A walk is a function: the recursion defines one.
LEMMA WalkExists ==
    ASSUME NEW a, NEW N \in Nat
    PROVE  \E w : IsWalk(w, a, N)
  <1> DEFINE T == {k \in Nat : ~ \E w : IsWalk(w, a, k)}
  <1> SUFFICES ASSUME T # {} PROVE FALSE
    OBVIOUS
  <1>1. T \subseteq Nat
    OBVIOUS
  <1>2. PICK m \in T : \A k \in T : m <= k
    <2> HIDE DEF T
    <2> QED
      BY <1>1, LeastNumber
  <1>3. CASE m = 0
    <2> DEFINE none == [n \in 0..0 |-> {<<>>}]
    <2>1. none = [n \in 0..0 |-> IF n = 0 THEN {<<>>} ELSE Farther(none[n - 1], n, a)]
      OBVIOUS
    <2>2. IsWalk(none, a, 0)
      BY <2>1 DEF IsWalk
    <2> QED
      BY <1>2, <1>3, <2>2
  <1>4. CASE m # 0
    <2>1. m \in Nat /\ m - 1 \in Nat /\ ~(m <= m - 1)
      BY <1>2, <1>4
    <2>2. m - 1 \notin T
      BY <1>2, <2>1
    <2>3. PICK g : IsWalk(g, a, m - 1)
      BY <2>1, <2>2
    <2> DEFINE h == [n \in 0..m |-> IF n = 0 THEN {<<>>} ELSE Farther(g[n - 1], n, a)]
    <2>4. \A n \in 0..(m - 1) : g[n] = IF n = 0 THEN {<<>>} ELSE Farther(g[n - 1], n, a)
      BY <2>3 DEF IsWalk
    <2>5. \A n \in 0..(m - 1) : h[n] = g[n]
      <3>1. \A n \in 0..m : h[n] = IF n = 0 THEN {<<>>} ELSE Farther(g[n - 1], n, a)
        OBVIOUS
      <3>2. \A n \in 0..(m - 1) : n \in 0..m
        BY <2>1
      <3> HIDE DEF h
      <3> QED
        BY <2>4, <3>1, <3>2
    <2>6. \A n \in 0..m : n # 0 => n - 1 \in 0..(m - 1)
      BY <2>1
    <2>7. \A n \in 0..m : n # 0 => h[n - 1] = g[n - 1]
      BY <2>5, <2>6
    <2>8. \A n \in 0..m : h[n] = IF n = 0 THEN {<<>>} ELSE Farther(h[n - 1], n, a)
      BY <2>7
    <2>9. h = [n \in 0..m |-> h[n]]
      OBVIOUS
    <2> HIDE DEF h
    <2>10. IsWalk(h, a, m)
      BY <2>8, <2>9 DEF IsWalk
    <2> QED
      BY <1>2, <2>10
  <1> QED
    BY <1>3, <1>4

\* The CTE gives what its last round holds.
LEMMA SqliteIsItsWalk ==
    ASSUME NEW a, GraphAssumption
    PROVE  \E w : IsWalk(w, a, Hops) /\ SqliteWalk(a) = w[Hops] \ {<<>>}
  <1> DEFINE walk[n \in 0..Hops] ==
          IF n = 0 THEN {<<>>}
          ELSE walk[n - 1] \union
               UNION {{Append(p, r) : r \in {x \in LiveRows :
                          /\ x.from = Last(NodesOf(a, p))
                          /\ x.to \notin ToSet(NodesOf(a, p))}} :
                        p \in {q \in walk[n - 1] : Len(q) = n - 1}}
  <1>1. PICK h : IsWalk(h, a, Hops)
    <2> HIDE DEF walk
    <2> QED
      BY WalkExists DEF GraphAssumption
  <1>2. walk = CHOOSE f : f = [n \in 0..Hops |-> IF n = 0 THEN {<<>>} ELSE Farther(f[n - 1], n, a)]
    BY DEF walk, Farther
  <1>3. walk = [n \in 0..Hops |-> IF n = 0 THEN {<<>>} ELSE Farther(walk[n - 1], n, a)]
    <2> HIDE DEF walk
    <2> QED
      BY <1>1, <1>2 DEF IsWalk
  <1>4. SqliteWalk(a) = walk[Hops] \ {<<>>}
    BY DEF SqliteWalk, walk
  <1>5. IsWalk(walk, a, Hops)
    <2> HIDE DEF walk
    <2> QED
      BY <1>3 DEF IsWalk
  <1> QED
    BY <1>4, <1>5

\* The walk of n rounds holds the paths of at most n hops.
LEMMA WalkHoldsPaths ==
    ASSUME NEW a, NEW N \in Nat, NEW w, IsWalk(w, a, N)
    PROVE  w[N] = Paths(a, LiveRows, N)
  <1>1. \A n \in 0..N : w[n] = IF n = 0 THEN {<<>>} ELSE Farther(w[n - 1], n, a)
    BY DEF IsWalk
  <1>2. Paths(a, LiveRows, 0) = {<<>>}
    <2>1. <<>> \in Seq(LiveRows) /\ Len(<<>>) = 0 /\ \A i \in 1..0 : FALSE
      OBVIOUS
    <2>2. Once(NodesOf(a, <<>>))
      <3>1. DOMAIN NodesOf(a, <<>>) = 1..(0 + 1)
        BY <2>1, PathNodes
      <3> QED
        BY <3>1 DEF Once
    <2>3. \A p \in Seq(LiveRows) : Len(p) <= 0 => p = <<>>
      <3> SUFFICES ASSUME NEW p \in Seq(LiveRows), Len(p) <= 0 PROVE p = <<>>
        OBVIOUS
      <3>1. Len(p) = 0
        OBVIOUS
      <3> QED
        BY <3>1, EmptySeq
    <2>4. Chained(a, <<>>) /\ Len(<<>>) <= 0
      BY <2>1 DEF Chained
    <2>5. \A p : p \in Paths(a, LiveRows, 0) <=> p = <<>>
      BY <2>1, <2>2, <2>3, <2>4 DEF Paths
    <2> QED
      BY <2>5
  <1> DEFINE T == {n \in 0..N : w[n] # Paths(a, LiveRows, n)}
  <1>3. T = {}
    <2> SUFFICES ASSUME T # {} PROVE FALSE
      OBVIOUS
    <2>1. T \subseteq Nat
      OBVIOUS
    <2>2. PICK m \in T : \A k \in T : m <= k
      <3> HIDE DEF T
      <3> QED
        BY <2>1, LeastNumber
    <2>3. m # 0
      BY <1>1, <1>2
    <2>4. m \in 0..N /\ m \in Nat \ {0} /\ m - 1 \in 0..N /\ ~(m <= m - 1)
      BY <2>2, <2>3
    <2>5. w[m - 1] = Paths(a, LiveRows, m - 1)
      BY <2>2, <2>4
    <2>6. w[m] = Farther(w[m - 1], m, a)
      BY <1>1, <2>3, <2>4
    <2> QED
      BY <2>2, <2>4, <2>5, <2>6, FartherPaths
  <1>4. N \in 0..N
    OBVIOUS
  <1> QED
    BY <1>3, <1>4

\* Both backends follow the paths of at most Hops hops over what they keep.
LEMMA SqlitePaths ==
    ASSUME NEW a, GraphAssumption
    PROVE  SqliteWalk(a) = Paths(a, LiveRows, Hops) \ {<<>>}
  <1>1. PICK w : IsWalk(w, a, Hops) /\ SqliteWalk(a) = w[Hops] \ {<<>>}
    BY SqliteIsItsWalk
  <1> QED
    BY <1>1, WalkHoldsPaths DEF GraphAssumption

LEMMA KuzuPathsAre ==
    ASSUME NEW a, GraphAssumption
    PROVE  KuzuPaths(a) = Paths(a, rels, Hops) \ {<<>>}
  <1> DEFINE P == Paths(a, rels, Hops) \ {<<>>}
             K == KuzuPaths(a)
             Steps == UNION {[1..n -> rels] : n \in 1..Hops}
  <1>0. Hops \in Nat
    BY DEF GraphAssumption
  <1>1. \A p : p \in Steps <=> p \in Seq(rels) /\ Len(p) <= Hops /\ p # <<>>
    <2>1. ASSUME NEW p \in Steps PROVE p \in Seq(rels) /\ Len(p) <= Hops /\ p # <<>>
      <3>1. PICK n \in 1..Hops : p \in [1..n -> rels]
        OBVIOUS
      <3>2. n \in Nat /\ n <= Hops /\ n # 0
        BY <1>0
      <3>3. p \in Seq(rels) /\ Len(p) = n
        BY <3>1, <3>2
      <3> QED
        BY <3>2, <3>3
    <2>2. ASSUME NEW p \in Seq(rels), Len(p) <= Hops, p # <<>> PROVE p \in Steps
      <3>1. Len(p) \in Nat /\ Len(p) # 0
        BY <2>2, EmptySeq
      <3>2. Len(p) \in 1..Hops
        BY <1>0, <2>2, <3>1
      <3>3. p \in [1..Len(p) -> rels]
        BY <2>2
      <3> QED
        BY <3>2, <3>3
    <2> QED
      BY <2>1, <2>2
  <1>2. \A p \in Seq(rels) : DOMAIN p = 1..Len(p)
    OBVIOUS
  <1> HIDE DEF Steps
  <1>3. \A p : p \in K <=> /\ p \in Steps /\ \A i \in DOMAIN p : p[i].from = NodesOf(a, p)[i]
                           /\ is_simple_path(NodesOf(a, p))
    BY DEF KuzuPaths, Steps
  <1>4. \A p : p \in P <=> p \in Seq(rels) /\ Len(p) <= Hops /\ p # <<>> /\ Chained(a, p)
                           /\ Once(NodesOf(a, p))
    BY DEF Paths
  <1> HIDE DEF K, P
  <1>5. ASSUME NEW p \in K PROVE p \in P
    BY <1>1, <1>2, <1>3, <1>4, <1>5, SimpleVisitsOnce DEF Chained
  <1>6. ASSUME NEW p \in P PROVE p \in K
    BY <1>1, <1>2, <1>3, <1>4, <1>6, SimpleVisitsOnce DEF Chained
  <1>7. K = P
    BY <1>5, <1>6
  <1> QED
    BY <1>7 DEF K, P

-----------------------------------------------------------------------------
(* A path of rows and the path of what they are stripped to *)

Twins(p, q) ==
    /\ p \in Seq(LiveRows) /\ q \in Seq(rels) /\ Len(p) = Len(q)
    /\ \A i \in 1..Len(p) : q[i] = Stripped(p[i])

\* Twins cannot be told apart by what a caller is given.
LEMMA TwinsAreAlike ==
    ASSUME NEW a, NEW p, NEW q, Twins(p, q)
    PROVE  /\ NodesOf(a, p) = NodesOf(a, q)
           /\ [i \in DOMAIN p |-> Plain(p[i])] = [i \in DOMAIN q |-> Plain(q[i])]
           /\ Weight(p) = Weight(q)
           /\ Chained(a, p) <=> Chained(a, q)
           /\ p = <<>> <=> q = <<>>
           /\ p # <<>> => Last(p).to = Last(q).to
  <1>1. /\ DOMAIN p = 1..Len(p) /\ DOMAIN q = DOMAIN p /\ Len(p) = Len(q) /\ Len(p) \in Nat
        /\ p \in Seq(LiveRows) /\ q \in Seq(rels)
    BY DEF Twins
  <1>2. \A i \in 1..Len(p) : /\ q[i].from = p[i].from /\ q[i].to = p[i].to
                             /\ q[i].type = p[i].type /\ q[i].weight = p[i].weight
    <2>1. \A r : /\ Stripped(r).from = r.from /\ Stripped(r).to = r.to
                 /\ Stripped(r).type = r.type /\ Stripped(r).weight = r.weight
      BY DEF Stripped
    <2>2. \A i \in 1..Len(p) : q[i] = Stripped(p[i])
      BY DEF Twins
    <2> QED
      BY <2>1, <2>2
  <1>3. NodesOf(a, p) = NodesOf(a, q)
    <2>1. [i \in 1..Len(p) |-> p[i].to] = [i \in 1..Len(q) |-> q[i].to]
      BY <1>1, <1>2
    <2> QED
      BY <2>1 DEF NodesOf
  <1>4. [i \in DOMAIN p |-> Plain(p[i])] = [i \in DOMAIN q |-> Plain(q[i])]
    BY <1>1, <1>2 DEF Plain
  <1>5. Weight(p) = Weight(q)
    <2>1. [i \in DOMAIN p |-> p[i].weight] = [i \in DOMAIN q |-> q[i].weight]
      BY <1>1, <1>2
    <2> QED
      BY <2>1 DEF Weight
  <1>6. Chained(a, p) <=> Chained(a, q)
    BY <1>1, <1>2, <1>3 DEF Chained
  <1>7. p = <<>> <=> q = <<>>
    <2>1. p = <<>> <=> Len(p) = 0
      BY <1>1, EmptySeq
    <2>2. q = <<>> <=> Len(q) = 0
      BY <1>1, EmptySeq
    <2> QED
      BY <1>1, <2>1, <2>2
  <1>8. p # <<>> => Last(p).to = Last(q).to
    <2>1. p # <<>> => Len(p) \in 1..Len(p)
      BY <1>1, EmptySeq
    <2> QED
      BY <1>1, <1>2, <2>1 DEF Last
  <1> QED
    BY <1>3, <1>4, <1>5, <1>6, <1>7, <1>8

\* Every path has its twin on the other side.
Mirrored(A, B) ==
    /\ \A p \in A : \E q \in B : Twins(p, q)
    /\ \A q \in B : \E p \in A : Twins(p, q)

\* Both sides have the same paths.
LEMMA PathsMirrored ==
    ASSUME GraphInv, ~tangled, NEW a
    PROVE  Mirrored(Paths(a, LiveRows, Hops) \ {<<>>}, Paths(a, rels, Hops) \ {<<>>})
  <1> DEFINE A == Paths(a, LiveRows, Hops) \ {<<>>}
             B == Paths(a, rels, Hops) \ {<<>>}
  <1>1. /\ \A r \in LiveRows : Stripped(r) \in rels
        /\ \A q \in rels : \E r \in LiveRows : q = Stripped(r)
    BY DEF GraphInv
  <1>2. /\ \A p : p \in A <=> p \in Seq(LiveRows) /\ Len(p) <= Hops /\ p # <<>> /\ Chained(a, p)
                              /\ Once(NodesOf(a, p))
        /\ \A p : p \in B <=> p \in Seq(rels) /\ Len(p) <= Hops /\ p # <<>> /\ Chained(a, p)
                              /\ Once(NodesOf(a, p))
    BY DEF Paths
  <1> HIDE DEF A, B
  <1>3. \A p, q : Twins(p, q) => (p \in A <=> q \in B)
    <2> SUFFICES ASSUME NEW p, NEW q, Twins(p, q) PROVE p \in A <=> q \in B
      OBVIOUS
    <2>1. p \in Seq(LiveRows) /\ q \in Seq(rels) /\ Len(p) = Len(q)
      BY DEF Twins
    <2> QED
      BY <1>2, <2>1, TwinsAreAlike
  <1>4. ASSUME NEW p \in A PROVE \E q \in B : Twins(p, q)
    <2> DEFINE q == [i \in 1..Len(p) |-> Stripped(p[i])]
    <2>1. p \in Seq(LiveRows) /\ Len(p) \in Nat
      BY <1>2, <1>4
    <2>2. \A i \in 1..Len(p) : Stripped(p[i]) \in rels
      <3>1. \A i \in 1..Len(p) : p[i] \in LiveRows
        BY <2>1
      <3> QED
        BY <1>1, <3>1
    <2>3. q \in Seq(rels) /\ Len(q) = Len(p) /\ \A i \in 1..Len(p) : q[i] = Stripped(p[i])
      BY <2>1, <2>2
    <2> HIDE DEF q
    <2>4. Twins(p, q)
      BY <2>1, <2>3 DEF Twins
    <2> QED
      BY <1>3, <1>4, <2>4
  <1>5. ASSUME NEW q \in B PROVE \E p \in A : Twins(p, q)
    <2> DEFINE row(x) == CHOOSE r \in LiveRows : x = Stripped(r)
               p == [i \in 1..Len(q) |-> row(q[i])]
    <2>1. q \in Seq(rels) /\ Len(q) \in Nat
      BY <1>2, <1>5
    <2>2. \A x \in rels : row(x) \in LiveRows /\ x = Stripped(row(x))
      BY <1>1
    <2> HIDE DEF row
    <2>3. \A i \in 1..Len(q) : q[i] \in rels
      BY <2>1
    <2>4. p \in Seq(LiveRows) /\ Len(p) = Len(q) /\ \A i \in 1..Len(q) : p[i] = row(q[i])
      BY <2>1, <2>2, <2>3
    <2> HIDE DEF p
    <2>5. Twins(p, q)
      BY <2>1, <2>2, <2>3, <2>4 DEF Twins
    <2> QED
      BY <1>3, <1>5, <2>5
  <1> QED
    BY <1>4, <1>5 DEF Mirrored, A, B

\* Mirrored sets of paths give one view and one canonical path.
LEMMA MirroredViews ==
    ASSUME NEW A, NEW B, Mirrored(A, B)
    PROVE  View(A) = View(B)
  <1>1. \A p, q : Twins(p, q) =>
           [i \in DOMAIN p |-> Plain(p[i])] = [i \in DOMAIN q |-> Plain(q[i])]
    <2> SUFFICES ASSUME NEW p, NEW q, Twins(p, q)
                 PROVE  [i \in DOMAIN p |-> Plain(p[i])] = [i \in DOMAIN q |-> Plain(q[i])]
      OBVIOUS
    <2> QED
      BY TwinsAreAlike
  <1> DEFINE Of(p) == [i \in DOMAIN p |-> Plain(p[i])]
  <1>2. \A p, q : Twins(p, q) => Of(p) = Of(q)
    BY <1>1
  <1>3. View(A) = {Of(p) : p \in A} /\ View(B) = {Of(p) : p \in B}
    BY DEF View
  <1> HIDE DEF Of
  <1> QED
    BY <1>2, <1>3 DEF Mirrored

\* The canonical paths of mirrored sets are the same.
LEMMA MirroredPicks ==
    ASSUME NEW A, NEW B, Mirrored(A, B), NEW a
    PROVE  pick_canonical_path(a, A) = pick_canonical_path(a, B)
  <1> DEFINE Fewest(S) == {p \in S : \A q \in S : Len(p) <= Len(q)}
             Best(S) == {p \in Fewest(S) : \A q \in Fewest(S) : Weight(p) >= Weight(q)}
             Key(p) == <<NodesOf(a, p), Weight(p)>>
  <1>1. \A p, q : Twins(p, q) => Len(p) = Len(q) /\ Weight(p) = Weight(q) /\ Key(p) = Key(q)
    <2> SUFFICES ASSUME NEW p, NEW q, Twins(p, q)
                 PROVE  Len(p) = Len(q) /\ Weight(p) = Weight(q) /\ Key(p) = Key(q)
      OBVIOUS
    <2>1. Len(p) = Len(q)
      BY DEF Twins
    <2>2. Weight(p) = Weight(q) /\ NodesOf(a, p) = NodesOf(a, q)
      BY TwinsAreAlike
    <2> QED
      BY <2>1, <2>2
  <1>2. /\ \A p \in A : \E q \in B : Twins(p, q)
        /\ \A q \in B : \E p \in A : Twins(p, q)
    BY DEF Mirrored
  <1>3. pick_canonical_path(a, A) = {Key(p) : p \in Best(A)}
        /\ pick_canonical_path(a, B) = {Key(p) : p \in Best(B)}
    BY DEF pick_canonical_path
  <1> HIDE DEF Key
  <1>4. \A p \in A, q \in B : Twins(p, q) => (p \in Fewest(A) <=> q \in Fewest(B))
    BY <1>1, <1>2
  <1>5. /\ \A p \in Fewest(A) : p \in A /\ \E q \in Fewest(B) : Twins(p, q)
        /\ \A q \in Fewest(B) : q \in B /\ \E p \in Fewest(A) : Twins(p, q)
    BY <1>2, <1>4
  <1> HIDE DEF Fewest
  <1>6. \A p \in Fewest(A), q \in Fewest(B) : Twins(p, q) => (p \in Best(A) <=> q \in Best(B))
    BY <1>1, <1>5
  <1>7. /\ \A p \in Best(A) : \E q \in Best(B) : Twins(p, q)
        /\ \A q \in Best(B) : \E p \in Best(A) : Twins(p, q)
    BY <1>5, <1>6
  <1> HIDE DEF Best
  <1> QED
    BY <1>1, <1>3, <1>7

\* A path that visits no node twice meets its last one only at its end.
LEMMA TargetIsLast ==
    ASSUME NEW a, NEW E, NEW n, NEW p \in Paths(a, E, n), p # <<>>
    PROVE  \A i \in 1..(Len(p) - 1) : p[i].to # Last(p).to
  <1>1. p \in Seq(E) /\ Once(NodesOf(a, p)) /\ Len(p) \in Nat /\ Len(p) # 0
    BY EmptySeq DEF Paths
  <1>2. DOMAIN NodesOf(a, p) = 1..(Len(p) + 1)
        /\ \A i \in 1..Len(p) : NodesOf(a, p)[i + 1] = p[i].to
    BY <1>1, PathNodes
  <1>3. Last(p) = p[Len(p)] /\ Len(p) \in 1..Len(p)
    BY <1>1 DEF Last
  <1> SUFFICES ASSUME NEW i \in 1..(Len(p) - 1) PROVE p[i].to # p[Len(p)].to
    BY <1>3
  <1>4. i \in 1..Len(p) /\ i + 1 \in 1..(Len(p) + 1) /\ Len(p) + 1 \in 1..(Len(p) + 1)
        /\ i + 1 # Len(p) + 1
    BY <1>1
  <1> QED
    BY <1>1, <1>2, <1>3, <1>4 DEF Once

\* The same graph gives the same answers.
LEMMA BackendsAlike ==
    ASSUME GraphAssumption, GraphInv, ~tangled, NEW a
    PROVE  Alike(a)
  <1> DEFINE A == SqliteWalk(a)
             B == KuzuPaths(a)
  <1>1. Mirrored(A, B)
    BY SqlitePaths, KuzuPathsAre, PathsMirrored
  <1>2. View(A) = View(B)
    BY <1>1, MirroredViews
  <1>3. ASSUME NEW b PROVE SqliteShortest(a, b) = KuzuShortest(a, b)
    <2> DEFINE S == {p \in To(b, A) : \A i \in 1..(Len(p) - 1) : p[i].to # b}
    <2>1. S = To(b, A)
      <3>1. \A p \in A : \A i \in 1..(Len(p) - 1) : p[i].to # Last(p).to
        BY SqlitePaths, TargetIsLast
      <3> HIDE DEF A
      <3> QED
        BY <3>1 DEF To
    <2>2. \A p, q : Twins(p, q) /\ p # <<>> => Last(p).to = Last(q).to
      BY TwinsAreAlike
    <2>3. \A p \in A : p # <<>>
      BY SqlitePaths
    <2> HIDE DEF A, B
    <2>4. Mirrored(To(b, A), To(b, B))
      BY <1>1, <2>2, <2>3 DEF Mirrored, To
    <2>5. SqliteShortest(a, b) = pick_canonical_path(a, S)
          /\ KuzuShortest(a, b) = pick_canonical_path(a, To(b, B))
      BY DEF SqliteShortest, KuzuShortest, A, B
    <2> HIDE DEF S
    <2> QED
      BY <2>1, <2>4, <2>5, MirroredPicks
  <1>4. Neighbors(LiveRows, a) = Neighbors(rels, a)
    <2>1. /\ \A r \in LiveRows : Stripped(r) \in rels
          /\ \A q \in rels : \E r \in LiveRows : q = Stripped(r)
      BY DEF GraphInv
    <2>2. \A r : Plain(Stripped(r)) = Plain(r) /\ Stripped(r).from = r.from /\ Stripped(r).to = r.to
      BY DEF Plain, Stripped
    <2>3. {<<"out", Plain(r)>> : r \in {x \in LiveRows : x.from = a}}
          = {<<"out", Plain(r)>> : r \in {x \in rels : x.from = a}}
      BY <2>1, <2>2
    <2>4. {<<"in", Plain(r)>> : r \in {x \in LiveRows : x.to = a}}
          = {<<"in", Plain(r)>> : r \in {x \in rels : x.to = a}}
      BY <2>1, <2>2
    <2> QED
      BY <2>3, <2>4 DEF Neighbors
  <1> QED
    BY <1>2, <1>3, <1>4 DEF Alike

\* The registered entities.
LEMMA GraphStart == GraphInit => GraphInv
  <1> SUFFICES ASSUME GraphInit PROVE GraphInv
    OBVIOUS
  <1>1. GraphTypeOK
    BY DEF GraphInit, GraphTypeOK
  <1>2. LiveRows = {} /\ edgeRows = {} /\ rels = {} /\ index = nodes
    BY DEF GraphInit, LiveRows
  <1> QED
    BY <1>1, <1>2 DEF GraphInv

\* Every call keeps the invariant.
LEMMA GraphStep == GraphAssumption /\ GraphInv /\ [GraphNext]_graphVars => GraphInv'
  <1> SUFFICES ASSUME GraphAssumption, GraphInv, [GraphNext]_graphVars PROVE GraphInv'
    OBVIOUS
  <1>1. CASE UNCHANGED graphVars
    BY <1>1 DEF graphVars, GraphInv, GraphTypeOK, LiveRows
  <1>2. CASE GraphNext
    BY <1>2, EntityKeepsGraph, EdgeKeepsGraph, DeleteKeepsGraph, PruneKeepsGraph DEF GraphNext
  <1> QED
    BY <1>1, <1>2

\* For any entities, edges, hops and sequence of calls: as long as an edge keeps
\* one valid_from and no two entities want one name, both backends hold the
\* same graph and give the same traversals, shortest paths and neighbours.
THEOREM GraphBackendsAgree == GraphInit /\ [][GraphNext]_graphVars => []BackendsAgree
  <1>1. GraphInit => GraphInv
    BY GraphStart
  <1>2. GraphInv /\ [GraphNext]_graphVars => GraphInv'
    BY GraphAssumption, GraphStep
  <1>3. GraphInv => BackendsAgree
    BY GraphAssumption, BackendsAlike DEF BackendsAgree, GraphInv
  <1> QED
    BY <1>1, <1>2, <1>3, PTL

-----------------------------------------------------------------------------
(* Migrations, for any databases, starters and rows                         *)

NumberedRow == [rowid : Nat \ {0}, seq : Nat, tick : Nat, old : BOOLEAN]

Effects == {"column", "trigger", "hyphenated", "identity", "text", "default", "parent text"}

\* What a migration leaves in the catalog.
ShapeOf(engine, v) == Guarded(engine, v) \ {"numbers"}

StarterRow == [pc : {"off", "lock", "versions", "tables", "shape", "create", "record", "base",
                     "migrate", "ready", "failed", "refused", "broken"}, todo : Seq(Nat)]

MigTypeOK ==
    /\ origin \in Databases
    /\ db \in [tables : SUBSET Expected, hasLog : BOOLEAN, log : SUBSET Nat, made : SUBSET Effects]
    /\ rows \in Seq(NumberedRow)
    /\ identity \in Nat
    /\ starter \in [Starters -> StarterRow]

\* The version log has no gap, and is not ahead of the catalog.
LogBehindShape ==
    /\ \E k \in 0..SCHEMA_VERSION : db.log = 1..k
    /\ db.tables \in {{}, Expected}
    /\ db.log # {} => db.tables = Expected /\ db.hasLog
    /\ \A v \in db.log : ShapeOf(origin.engine, v) \subseteq db.made
    /\ db.made \subseteq schema_ddl(origin.engine)
    /\ db.tables = {} => origin.tables = {}

\* A database that was empty is empty, or has the whole of the schema file.
EmptyOrWhole ==
    origin.tables = {} => (db.tables = {} /\ rows = <<>> /\ db.made = {})
                          \/ schema_ddl(origin.engine) \subseteq db.made

\* The migrations a starter has in hand follow recorded versions.
Follows(todo) == \E k \in 1..SCHEMA_VERSION : todo = pending(k) /\ 1..k \subseteq db.log

StarterFits(r) ==
    CASE r.pc = "shape"   -> db.log # {} /\ Follows(r.todo)
      [] r.pc = "migrate" -> r.todo # <<>> /\ Follows(r.todo)
      [] r.pc = "create"  -> origin.tables = {}
      [] r.pc = "record"  -> /\ db.tables = Expected /\ db.hasLog
                             /\ schema_ddl(origin.engine) \subseteq db.made
      [] r.pc = "base"    -> db.tables = Expected
      [] r.pc = "ready"   -> db.log = 1..SCHEMA_VERSION
      [] OTHER            -> r.pc \notin {"refused", "broken"}

StartersFit == \A s \in Starters : StarterFits(starter[s])

\* Rows are in the order they came; those without a number came first.
RowsInOrder ==
    /\ \A i, j \in DOMAIN rows : i < j => /\ rows[i].rowid < rows[j].rowid /\ rows[i].tick <= rows[j].tick
                                          /\ rows[j].old => rows[i].old
    /\ ~Numbered => \A i \in DOMAIN rows : rows[i].old /\ rows[i].seq = 0

\* A number is the rowid on SQLite, and below the identity column's next on PostgreSQL.
RowsNumbered ==
    /\ "trigger" \in db.made => \A i \in DOMAIN rows : rows[i].seq = rows[i].rowid
    /\ "identity" \in db.made <=> identity > 0
    /\ "identity" \in db.made =>
         /\ \A i \in DOMAIN rows : 0 < rows[i].seq /\ rows[i].seq < identity
         /\ \A i, j \in DOMAIN rows :
              i < j /\ ~(rows[i].old /\ rows[j].old /\ rows[i].tick = rows[j].tick) => rows[i].seq < rows[j].seq

HealthyInv ==
    /\ MigTypeOK /\ LogBehindShape /\ EmptyOrWhole /\ RowsInOrder /\ RowsNumbered
    /\ StartersFit

\* Of a database no build left, each starter finds out before it writes.
RefusedInv ==
    /\ origin \in Databases
    /\ db = [tables |-> origin.tables, hasLog |-> origin.hasLog, log |-> origin.log, made |-> origin.made]
    /\ rows = <<>> /\ origin.rows = <<>>
    /\ starter \in [Starters -> [pc : {"off", "lock", "versions", "tables", "shape", "failed", "refused"},
                                 todo : Seq(Nat)]]
    /\ \A s \in Starters :
         /\ starter[s].pc = "tables" => origin.log = {}
         /\ starter[s].pc = "shape" => /\ origin.log # {} /\ origin.log = 1..Cardinality(origin.log)
                                       /\ Cardinality(origin.log) <= SCHEMA_VERSION

MigInv == IF Healthy THEN HealthyInv ELSE RefusedInv

-----------------------------------------------------------------------------
LEMMA WhatVersionsLeave ==
    /\ \A e : Guarded(e, 1) = {}
    /\ Guarded("sqlite", 2) = {"column", "numbers", "trigger"} /\ Guarded("sqlite", 3) = {}
    /\ Guarded("sqlite", 4) = {"hyphenated"}
    /\ Guarded("postgres", 2) = {"identity"} /\ Guarded("postgres", 3) = {"text", "default"}
    /\ Guarded("postgres", 4) = {"parent text"}
    /\ schema_ddl("sqlite") = {"column", "trigger", "hyphenated"}
    /\ schema_ddl("postgres") = {"identity", "text", "default", "parent text"}
  <1>1. \A e : Guarded(e, 1) = {}
    BY DEF Guarded
  <1>2. /\ Guarded("sqlite", 2) = {"column", "numbers", "trigger"} /\ Guarded("sqlite", 3) = {}
        /\ Guarded("sqlite", 4) = {"hyphenated"}
    BY DEF Guarded
  <1>3. /\ Guarded("postgres", 2) = {"identity"} /\ Guarded("postgres", 3) = {"text", "default"}
        /\ Guarded("postgres", 4) = {"parent text"}
    BY DEF Guarded
  <1>4. 1..SCHEMA_VERSION = {1, 2, 3, 4}
    BY DEF SCHEMA_VERSION
  <1> DEFINE united(e) == UNION {Guarded(e, v) : v \in 1..SCHEMA_VERSION}
  <1>a. \A e : united(e) = Guarded(e, 1) \union Guarded(e, 2) \union Guarded(e, 3) \union Guarded(e, 4)
    BY <1>4
  <1>b. \A e : schema_ddl(e) = united(e) \ {"numbers"}
    BY DEF schema_ddl
  <1> HIDE DEF united
  <1>5. schema_ddl("sqlite") = {"column", "trigger", "hyphenated"}
    BY <1>1, <1>2, <1>a, <1>b
  <1>6. schema_ddl("postgres") = {"identity", "text", "default", "parent text"}
    BY <1>1, <1>3, <1>a, <1>b
  <1> QED
    BY <1>1, <1>2, <1>3, <1>5, <1>6

LEMMA FoundAs ==
    ASSUME NEW d \in Databases
    PROVE  /\ d.engine \in {"sqlite", "postgres"} /\ d.tables \subseteq Expected /\ d.hasLog \in BOOLEAN
           /\ d.log # {} => d.hasLog /\ \E k \in d.log : k \in Nat /\ d.log \subseteq 1..k
           /\ LeftByABuild(d) => d.made = (UNION {Guarded(d.engine, v) : v \in d.log}) \ {"numbers"}
           /\ d.rows # <<>> => LeftByABuild(d) /\ d.tables = Expected /\ d.log \subseteq {1}
           /\ d.rows \in Seq(UnnumberedRow)
           /\ \A i, j \in DOMAIN d.rows :
                i < j => d.rows[i].rowid < d.rows[j].rowid /\ d.rows[i].tick <= d.rows[j].tick
  BY DatabasesAssumption DEF BASE_SCHEMA_VERSION

\* The log of a build, and what it tells of the shape.
LEMMA BuildsLog ==
    ASSUME NEW d \in Databases, LeftByABuild(d)
    PROVE  /\ \E k \in 0..4 : d.log = 1..k
           /\ d.made \subseteq schema_ddl(d.engine) /\ schema_ddl(d.engine) \subseteq Effects
           /\ \A v \in d.log : ShapeOf(d.engine, v) \subseteq d.made
           /\ d.log \subseteq {1} => d.made = {}
           /\ d.tables = {} => d.log = {} /\ d.made = {}
  <1>0. Cardinality(d.log) \in Nat /\ Cardinality(d.log) <= 4 /\ d.log = 1..Cardinality(d.log)
    <2>1. d.log = {} \/ \E k \in Nat : d.log \subseteq 1..k
      BY FoundAs
    <2>2. IsFiniteSet(d.log)
      <3>1. CASE d.log = {}
        BY <3>1, FS_EmptySet
      <3>2. CASE \E k \in Nat : d.log \subseteq 1..k
        <4>1. PICK k \in Nat : d.log \subseteq 1..k
          BY <3>2
        <4>2. IsFiniteSet(1..k)
          <5>1. 1 \in Int /\ k \in Int
            OBVIOUS
          <5> QED
            BY <5>1, FS_Interval
        <4> QED
          BY <4>1, <4>2, FS_Subset
      <3> QED
        BY <2>1, <3>1, <3>2
    <2> QED
      BY <2>2, FS_CardinalityType DEF LeftByABuild, SCHEMA_VERSION
  <1>1. PICK k \in 0..4 : d.log = 1..k
    <2>1. Cardinality(d.log) \in 0..4
      BY <1>0
    <2> QED
      BY <1>0, <2>1
  <1>2. d.made = (UNION {Guarded(d.engine, v) : v \in d.log}) \ {"numbers"}
    BY FoundAs
  <1>3. d.engine \in {"sqlite", "postgres"}
    BY FoundAs
  <1>4. d.log \subseteq {1, 2, 3, 4}
    BY <1>1
  <1>a. schema_ddl(d.engine) \subseteq Effects
    BY <1>3, WhatVersionsLeave DEF Effects
  <1>b. d.made \subseteq schema_ddl(d.engine)
    <2> SUFFICES ASSUME NEW g \in d.made PROVE g \in schema_ddl(d.engine)
      OBVIOUS
    <2>1. PICK v \in {1, 2, 3, 4} : g \in Guarded(d.engine, v)
      BY <1>2, <1>4
    <2>2. g # "numbers"
      BY <1>2
    <2> QED
      BY <1>3, <2>1, <2>2, WhatVersionsLeave
  <1>5. d.made \subseteq schema_ddl(d.engine) /\ schema_ddl(d.engine) \subseteq Effects
    BY <1>a, <1>b
  <1>6. \A v \in d.log : ShapeOf(d.engine, v) \subseteq d.made
    BY <1>2 DEF ShapeOf
  <1>7. d.log \subseteq {1} => d.made = {}
    <2> SUFFICES ASSUME d.log \subseteq {1}, NEW g \in d.made PROVE FALSE
      OBVIOUS
    <2>1. PICK v \in d.log : g \in Guarded(d.engine, v)
      BY <1>2
    <2> QED
      BY <2>1, WhatVersionsLeave
  <1>8. d.tables = {} => d.log = {}
    BY DatabasesAssumption DEF LeftByABuild
  <1> QED
    BY <1>1, <1>5, <1>6, <1>7, <1>8

LEMMA HealthyStart ==
    ASSUME MigInit, Healthy PROVE HealthyInv
  <1>1. origin \in Databases /\ LeftByABuild(origin) /\ origin.engine \in {"sqlite", "postgres"}
    BY FoundAs DEF MigInit, Healthy
  <1> DEFINE o == origin
  <1>2. /\ \E k \in 0..4 : o.log = 1..k
        /\ o.made \subseteq schema_ddl(o.engine) /\ schema_ddl(o.engine) \subseteq Effects
        /\ \A v \in o.log : ShapeOf(o.engine, v) \subseteq o.made
        /\ o.log \subseteq {1} => o.made = {}
        /\ o.tables = {} => o.log = {} /\ o.made = {}
    BY <1>1, BuildsLog
  <1>3. /\ o.tables \subseteq Expected /\ o.hasLog \in BOOLEAN
        /\ o.log # {} => o.hasLog
        /\ o.rows # <<>> => o.tables = Expected /\ o.log \subseteq {1}
        /\ o.rows \in Seq(UnnumberedRow)
        /\ \A i, j \in DOMAIN o.rows :
             i < j => o.rows[i].rowid < o.rows[j].rowid /\ o.rows[i].tick <= o.rows[j].tick
        /\ o.tables \in {{}, Expected}
        /\ o.log # {} => o.tables = Expected
    BY <1>1, FoundAs DEF LeftByABuild
  <1>4. /\ db = [tables |-> o.tables, hasLog |-> o.hasLog, log |-> o.log, made |-> o.made]
        /\ rows = o.rows
        /\ identity = IF "identity" \in o.made THEN Len(o.rows) + 1 ELSE 0
        /\ starter = [s \in Starters |-> [pc |-> "off", todo |-> <<>>]]
    BY DEF MigInit
  <1>5. /\ db.tables = o.tables /\ db.hasLog = o.hasLog /\ db.log = o.log /\ db.made = o.made
    BY <1>4
  <1>6. /\ Len(rows) \in Nat /\ rows \in Seq(NumberedRow) /\ DOMAIN rows = 1..Len(rows)
        /\ \A i \in DOMAIN rows : rows[i].seq = 0 /\ rows[i].old = TRUE
    <2>1. rows \in Seq(UnnumberedRow)
      BY <1>3, <1>4
    <2>2. Len(rows) \in Nat /\ DOMAIN rows = 1..Len(rows) /\ \A i \in 1..Len(rows) : rows[i] \in UnnumberedRow
      BY <2>1
    <2>3. \A r \in UnnumberedRow : r \in NumberedRow /\ r.seq = 0 /\ r.old = TRUE
      <3> SUFFICES ASSUME NEW r \in UnnumberedRow PROVE r \in NumberedRow /\ r.seq = 0 /\ r.old = TRUE
        OBVIOUS
      <3>1. r.seq = 0 /\ r.old = TRUE /\ r.rowid \in Nat \ {0} /\ r.tick \in Nat
        BY DEF UnnumberedRow
      <3>2. r = [rowid |-> r.rowid, seq |-> r.seq, tick |-> r.tick, old |-> r.old]
        BY DEF UnnumberedRow
      <3>3. r.seq \in Nat
        BY <3>1
      <3>4. r.old \in BOOLEAN
        BY <3>1, Zenon
      <3> QED
        BY <3>1, <3>2, <3>3, <3>4 DEF NumberedRow
    <2>4. rows \in Seq(NumberedRow)
      BY <2>1, <2>2, <2>3
    <2> QED
      BY <2>2, <2>3, <2>4
  <1>7. MigTypeOK
    <2>1. db \in [tables : SUBSET Expected, hasLog : BOOLEAN, log : SUBSET Nat, made : SUBSET Effects]
      <3>1. o.log \subseteq Nat /\ o.made \subseteq Effects
        BY <1>2
      <3> QED
        BY <1>3, <1>4, <3>1
    <2>2. <<>> \in Seq(Nat)
      OBVIOUS
    <2>3. identity \in Nat
      BY <1>4, <1>6
    <2> QED
      BY <1>1, <1>4, <1>6, <2>1, <2>2, <2>3 DEF MigTypeOK, StarterRow
  <1>8. LogBehindShape
    <2>1. \E k \in 0..SCHEMA_VERSION : db.log = 1..k
      BY <1>2, <1>5 DEF SCHEMA_VERSION
    <2>2. \A v \in db.log : ShapeOf(origin.engine, v) \subseteq db.made
      BY <1>2, <1>5
    <2> QED
      BY <1>2, <1>3, <1>5, <2>1, <2>2 DEF LogBehindShape
  <1>9. EmptyOrWhole
    BY <1>2, <1>3, <1>4, <1>5, DatabasesAssumption DEF EmptyOrWhole
  <1>10. RowsInOrder
    <2> DEFINE sc == rows
    <2>1. \A i, j \in DOMAIN rows : i < j => rows[i].rowid < rows[j].rowid /\ rows[i].tick <= rows[j].tick
      BY <1>3, <1>4
    <2>2. \A i, j \in DOMAIN rows : rows[j].old => rows[i].old
      BY <1>6
    <2> QED
      BY <1>6, <2>1, <2>2 DEF RowsInOrder
  <1>11. RowsNumbered
    <2>1. o.made # {} => rows = <<>>
      BY <1>2, <1>3, <1>4
    <2>2. o.made # {} => DOMAIN rows = {}
      BY <1>6, <2>1
    <2>3. "identity" \in db.made <=> identity > 0
      BY <1>4, <1>5, <1>6
    <2> QED
      BY <1>5, <2>2, <2>3 DEF RowsNumbered
  <1>12. StartersFit
    BY <1>4 DEF StartersFit, StarterFits
  <1> QED
    BY <1>7, <1>8, <1>9, <1>10, <1>11, <1>12 DEF HealthyInv

LEMMA RefusedStart ==
    ASSUME MigInit, ~Healthy PROVE RefusedInv
  <1>1. origin \in Databases /\ rows = origin.rows
    BY DEF MigInit
  <1>2. origin.rows = <<>>
    BY <1>1, FoundAs DEF Healthy
  <1>3. \A s \in Starters : starter[s].pc = "off"
    BY DEF MigInit
  <1>4. <<>> \in Seq(Nat)
    OBVIOUS
  <1> QED
    BY <1>1, <1>2, <1>3, <1>4 DEF MigInit, RefusedInv

-----------------------------------------------------------------------------
LEMMA WhatIsPending ==
    ASSUME NEW k \in 1..SCHEMA_VERSION
    PROVE  /\ pending(k) \in Seq(Nat)
           /\ pending(k) = <<>> <=> k = SCHEMA_VERSION
           /\ pending(k) # <<>> => /\ k + 1 \in 1..SCHEMA_VERSION /\ Head(pending(k)) = k + 1
                                  /\ Tail(pending(k)) = pending(k + 1)
  <1> DEFINE p == pending(k)  n == 4 - k
  <1>1. k \in 1..4 /\ n \in 0..3 /\ p = [i \in 1..n |-> k + i]
    BY DEF SCHEMA_VERSION, pending
  <1>2. p \in Seq(Nat) /\ Len(p) = n /\ DOMAIN p = 1..n
    BY <1>1
  <1>3. p = <<>> <=> n = 0
    BY <1>2, EmptySeq
  <1>4. ASSUME p # <<>> PROVE k + 1 \in 1..4 /\ Head(p) = k + 1 /\ Tail(p) = pending(k + 1)
    <2>1. n \in 1..3 /\ k + 1 \in 1..4
      BY <1>1, <1>3, <1>4
    <2>2. Head(p) = k + 1
      <3>1. Head(p) = p[1]
        BY <1>2
      <3> QED
        BY <1>1, <2>1, <3>1
    <2>3. Tail(p) \in Seq(Nat) /\ Len(Tail(p)) = n - 1 /\ \A i \in 1..(n - 1) : Tail(p)[i] = p[i + 1]
      BY <1>2, <1>4
    <2>4. pending(k + 1) = [i \in 1..(n - 1) |-> k + 1 + i]
      BY <1>1 DEF pending, SCHEMA_VERSION
    <2>5. pending(k + 1) \in Seq(Nat) /\ Len(pending(k + 1)) = n - 1
          /\ \A i \in 1..(n - 1) : pending(k + 1)[i] = k + 1 + i
      BY <1>1, <2>1, <2>4
    <2>6. \A i \in 1..(n - 1) : Tail(p)[i] = pending(k + 1)[i]
      BY <1>1, <2>1, <2>3, <2>5
    <2>7. Tail(p) = pending(k + 1)
      <3> DEFINE t == Tail(p)  q == pending(k + 1)
      <3>1. t \in Seq(Nat) /\ q \in Seq(Nat) /\ Len(t) = Len(q) /\ \A i \in 1..Len(t) : t[i] = q[i]
        BY <2>3, <2>5, <2>6
      <3> HIDE DEF t, q
      <3>2. t = q
        BY <3>1, SeqEqual
      <3> QED
        BY <3>2 DEF t, q
    <2> QED
      BY <2>1, <2>2, <2>7
  <1>5. SCHEMA_VERSION = 4 /\ (n = 0 <=> k = 4)
    BY <1>1 DEF SCHEMA_VERSION
  <1> HIDE DEF p, n
  <1>6. /\ p \in Seq(Nat)
        /\ p = <<>> <=> k = SCHEMA_VERSION
        /\ p # <<>> => k + 1 \in 1..SCHEMA_VERSION /\ Head(p) = k + 1 /\ Tail(p) = pending(k + 1)
    BY <1>2, <1>3, <1>4, <1>5
  <1> QED
    BY <1>6 DEF p

\* What a starter knows of the database stays true while the database advances.
LEMMA StarterStillFits ==
    ASSUME NEW r, StarterFits(r), origin' = origin, LogBehindShape',
           db.tables = Expected => db'.tables = Expected, db.hasLog => db'.hasLog,
           db.log \subseteq db'.log, db.made \subseteq db'.made
    PROVE  StarterFits(r)'
  <1>1. PICK k \in 0..SCHEMA_VERSION : db'.log = 1..k
    BY DEF LogBehindShape
  <1>2. ASSUME db.log = 1..SCHEMA_VERSION PROVE db'.log = 1..SCHEMA_VERSION
    BY <1>1, <1>2 DEF SCHEMA_VERSION
  <1>3. ASSUME NEW todo, Follows(todo) PROVE Follows(todo)'
    BY <1>3 DEF Follows
  <1>4. CASE r.pc = "shape"
    BY <1>3, <1>4 DEF StarterFits
  <1>5. CASE r.pc = "migrate"
    BY <1>3, <1>5 DEF StarterFits
  <1>6. CASE r.pc \in {"create", "record", "base"}
    BY <1>6 DEF StarterFits
  <1>7. CASE r.pc = "ready"
    BY <1>2, <1>7 DEF StarterFits
  <1>8. CASE r.pc \notin {"shape", "migrate", "create", "record", "base", "ready"}
    BY <1>8 DEF StarterFits
  <1> QED
    BY <1>4, <1>5, <1>6, <1>7, <1>8

\* One starter goes on and the others stand where they stood.
LEMMA OneStarterMoves ==
    ASSUME MigTypeOK, StartersFit, NEW s \in Starters, NEW r \in StarterRow, StarterFits(r)',
           starter' = [starter EXCEPT ![s] = r], origin' = origin, LogBehindShape',
           db.tables = Expected => db'.tables = Expected, db.hasLog => db'.hasLog,
           db.log \subseteq db'.log, db.made \subseteq db'.made
    PROVE  StartersFit' /\ starter' \in [Starters -> StarterRow]
  <1>1. starter \in [Starters -> StarterRow]
    BY DEF MigTypeOK
  <1>2. \A t \in Starters : starter'[t] = IF t = s THEN r ELSE starter[t]
    BY <1>1
  <1>3. ASSUME NEW t \in Starters, t # s PROVE StarterFits(starter[t])'
    <2>1. starter'[t] = starter[t] /\ StarterFits(starter[t])
      BY <1>2, <1>3 DEF StartersFit
    <2> DEFINE q == starter[t]
    <2>2. \A x : StarterFits(x) => StarterFits(x)'
      BY StarterStillFits
    <2> QED
      BY <2>1, <2>2 DEF StarterFits
  <1>4. StarterFits(starter[s])'
    BY <1>2 DEF StarterFits
  <1>5. starter' \in [Starters -> StarterRow]
    BY <1>1
  <1> QED
    BY <1>3, <1>4, <1>5 DEF StartersFit

\* A step that only moves a starter.
LEMMA OnlyAStarterMoves ==
    ASSUME HealthyInv, NEW s \in Starters, NEW r \in StarterRow, StarterFits(r),
           starter' = [starter EXCEPT ![s] = r], UNCHANGED <<origin, db, rows, identity>>
    PROVE  HealthyInv'
  <1>1. LogBehindShape' /\ EmptyOrWhole' /\ RowsInOrder' /\ RowsNumbered'
    BY DEF HealthyInv, LogBehindShape, EmptyOrWhole, RowsInOrder, RowsNumbered, Numbered
  <1>2. StarterFits(r)'
    BY <1>1, StarterStillFits
  <1>3. StartersFit' /\ starter' \in [Starters -> StarterRow]
    BY <1>1, <1>2, OneStarterMoves DEF HealthyInv
  <1>4. MigTypeOK'
    BY <1>3 DEF HealthyInv, MigTypeOK
  <1> QED
    BY <1>1, <1>3, <1>4 DEF HealthyInv

-----------------------------------------------------------------------------
\* The starters that only read, begin, wait for the lock or fail.
LEMMA HealthyMoves ==
    ASSUME HealthyInv, Healthy, NEW s \in Starters,
           Start(s) \/ Lock(s) \/ ReadVersions(s) \/ RefuseAnIncompleteShape(s) \/ PresentTables(s)
             \/ Contended(s) \/ Crash(s)
    PROVE  HealthyInv'
  <1> DEFINE row(pc, todo) == [pc |-> pc, todo |-> todo]
  <1>1. /\ starter \in [Starters -> StarterRow] /\ starter[s] \in StarterRow
        /\ StarterFits(starter[s]) /\ <<>> \in Seq(Nat) /\ starter[s].todo \in Seq(Nat)
    <2>1. starter \in [Starters -> StarterRow] /\ StarterFits(starter[s])
      BY DEF HealthyInv, MigTypeOK, StartersFit
    <2> QED
      BY <2>1 DEF StarterRow
  <1>2. \A pc \in {"off", "lock", "versions", "tables", "failed"} :
          row(pc, <<>>) \in StarterRow /\ StarterFits(row(pc, <<>>))
    BY <1>1 DEF StarterRow, StarterFits
  <1>3. UNCHANGED <<origin, db, rows, identity>>
    BY DEF Start, Lock, ReadVersions, RefuseAnIncompleteShape, PresentTables, Contended, Crash
  <1>4. CASE Start(s) \/ Contended(s) \/ Crash(s)
    <2>1. \E pc \in {"off", "lock", "versions", "failed"} : starter' = [starter EXCEPT ![s] = row(pc, <<>>)]
      BY <1>4 DEF Start, Contended, Crash, Goto, Leave
    <2> QED
      BY <1>2, <1>3, <2>1, OnlyAStarterMoves
  <1>5. CASE Lock(s)
    <2>1. starter' = [starter EXCEPT ![s] = row("versions", starter[s].todo)]
      <3>1. starter' = [starter EXCEPT ![s].pc = "versions"]
        BY <1>5 DEF Lock
      <3>2. [starter[s] EXCEPT !.pc = "versions"] = row("versions", starter[s].todo)
        BY <1>1 DEF StarterRow
      <3> QED
        BY <1>1, <3>1, <3>2
    <2>2. row("versions", starter[s].todo) \in StarterRow /\ StarterFits(row("versions", starter[s].todo))
      BY <1>1 DEF StarterRow, StarterFits
    <2> QED
      BY <1>3, <2>1, <2>2, OnlyAStarterMoves
  <1>6. CASE ReadVersions(s)
    <2>1. PICK k \in 0..SCHEMA_VERSION : db.log = 1..k
      BY DEF HealthyInv, LogBehindShape
    <2>2. db.log # {} => db.hasLog
      BY DEF HealthyInv, LogBehindShape
    <2> DEFINE versions == IF db.hasLog THEN db.log ELSE {}
    <2>3. versions = db.log
      BY <2>2
    <2>4. CASE db.log = {}
      <3>1. starter' = [starter EXCEPT ![s] = row("tables", <<>>)]
        BY <1>6, <2>3, <2>4 DEF ReadVersions, Goto, Leave
      <3> QED
        BY <1>2, <1>3, <3>1, OnlyAStarterMoves
    <2>5. CASE db.log # {}
      <3>1. k \in 1..4 /\ k \in db.log /\ \A j \in db.log : k >= j
        BY <2>1, <2>5 DEF SCHEMA_VERSION
      <3>2. Max(db.log) = k
        <4>1. \A x \in db.log : (\A j \in db.log : x >= j) => x = k
          BY <2>1, <3>1
        <4> QED
          BY <3>1, <4>1 DEF Max
      <3>3. ~NotContiguous(db.log) /\ k <= SCHEMA_VERSION /\ ~(k > SCHEMA_VERSION)
        BY <2>1, <3>1, <3>2 DEF NotContiguous, SCHEMA_VERSION
      <3>4. starter' = [starter EXCEPT ![s] = row("shape", pending(k))]
        BY <1>6, <2>3, <2>5, <3>2, <3>3 DEF ReadVersions, Goto, Leave
      <3>5. Follows(pending(k)) /\ pending(k) \in Seq(Nat)
        BY <2>1, <3>1, WhatIsPending DEF Follows, SCHEMA_VERSION
      <3>6. row("shape", pending(k)) \in StarterRow /\ StarterFits(row("shape", pending(k)))
        BY <2>5, <3>5 DEF StarterRow, StarterFits
      <3> QED
        BY <1>3, <3>4, <3>6, OnlyAStarterMoves
    <2> QED
      BY <2>4, <2>5
  <1>7. CASE RefuseAnIncompleteShape(s)
    <2>1. db.log # {} /\ Follows(starter[s].todo)
      BY <1>1, <1>7 DEF RefuseAnIncompleteShape, StarterFits
    <2>2. Expected \subseteq db.tables
      BY <2>1 DEF HealthyInv, LogBehindShape
    <2>3. Continue(s, starter[s].todo)
      BY <1>7, <2>2 DEF RefuseAnIncompleteShape
    <2>4. PICK k \in 1..SCHEMA_VERSION : starter[s].todo = pending(k) /\ 1..k \subseteq db.log
      BY <2>1 DEF Follows
    <2>5. CASE starter[s].todo = <<>>
      <3>1. starter' = [starter EXCEPT ![s] = row("ready", <<>>)]
        BY <2>3, <2>5 DEF Continue, Leave
      <3>2. k = SCHEMA_VERSION
        BY <2>4, <2>5, WhatIsPending
      <3>3. db.log = 1..SCHEMA_VERSION
        <4>1. PICK n \in 0..SCHEMA_VERSION : db.log = 1..n
          BY DEF HealthyInv, LogBehindShape
        <4> QED
          BY <2>4, <3>2, <4>1 DEF SCHEMA_VERSION
      <3>4. row("ready", <<>>) \in StarterRow /\ StarterFits(row("ready", <<>>))
        BY <1>1, <3>3 DEF StarterRow, StarterFits
      <3> QED
        BY <1>3, <3>1, <3>4, OnlyAStarterMoves
    <2>6. CASE starter[s].todo # <<>>
      <3>1. starter' = [starter EXCEPT ![s] = row("migrate", starter[s].todo)]
        BY <2>3, <2>6 DEF Continue, Goto
      <3>2. row("migrate", starter[s].todo) \in StarterRow /\ StarterFits(row("migrate", starter[s].todo))
        BY <1>1, <2>1, <2>6 DEF StarterRow, StarterFits
      <3> QED
        BY <1>3, <3>1, <3>2, OnlyAStarterMoves
    <2> QED
      BY <2>5, <2>6
  <1>8. CASE PresentTables(s)
    <2>1. db.tables \in {{}, Expected} /\ (db.tables = {} => origin.tables = {})
      BY DEF HealthyInv, LogBehindShape
    <2>2. CASE db.tables = {}
      <3>1. starter' = [starter EXCEPT ![s] = row("create", <<>>)]
        <4>1. Unversioned(db.tables) = "create"
          BY <2>2, DatabasesAssumption DEF Unversioned
        <4> QED
          BY <1>8, <4>1 DEF PresentTables, Goto, Leave
      <3>2. row("create", <<>>) \in StarterRow /\ StarterFits(row("create", <<>>))
        BY <1>1, <2>1, <2>2 DEF StarterRow, StarterFits
      <3> QED
        BY <1>3, <3>1, <3>2, OnlyAStarterMoves
    <2>3. CASE db.tables # {}
      <3>1. Unversioned(db.tables) = "base"
        BY <2>1, <2>3 DEF Unversioned
      <3>2. starter' = [starter EXCEPT ![s] = row("base", <<>>)]
        BY <1>8, <3>1 DEF PresentTables, Goto, Leave
      <3>3. row("base", <<>>) \in StarterRow /\ StarterFits(row("base", <<>>))
        BY <1>1, <2>1, <2>3 DEF StarterRow, StarterFits
      <3> QED
        BY <1>3, <3>2, <3>3, OnlyAStarterMoves
    <2> QED
      BY <2>2, <2>3
  <1> QED
    BY <1>4, <1>5, <1>6, <1>7, <1>8

-----------------------------------------------------------------------------
(* The rows: what a step does to them keeps them in their order. *)

LEMMA RowsAreTyped ==
    ASSUME MigTypeOK
    PROVE  /\ Len(rows) \in Nat /\ DOMAIN rows = 1..Len(rows)
           /\ \A i \in DOMAIN rows : /\ rows[i].rowid \in Nat \ {0} /\ rows[i].seq \in Nat
                                     /\ rows[i].tick \in Nat /\ rows[i].old \in BOOLEAN
           /\ identity \in Nat
  <1>1. rows \in Seq(NumberedRow) /\ identity \in Nat
    BY DEF MigTypeOK
  <1>2. Len(rows) \in Nat /\ DOMAIN rows = 1..Len(rows) /\ \A i \in 1..Len(rows) : rows[i] \in NumberedRow
    BY <1>1
  <1> QED
    BY <1>1, <1>2 DEF NumberedRow

\* Rows that only get other numbers.
LEMMA RowsRenumbered ==
    ASSUME MigTypeOK, RowsInOrder, NEW f \in [DOMAIN rows -> Nat],
           rows' = [i \in DOMAIN rows |-> [rows[i] EXCEPT !.seq = f[i]]]
    PROVE  /\ rows' \in Seq(NumberedRow) /\ DOMAIN rows' = DOMAIN rows /\ Len(rows') = Len(rows)
           /\ \A i \in DOMAIN rows : /\ rows'[i].seq = f[i] /\ rows'[i].rowid = rows[i].rowid
                                     /\ rows'[i].tick = rows[i].tick /\ rows'[i].old = rows[i].old
           /\ \A i, j \in DOMAIN rows' : i < j =>
                 /\ rows'[i].rowid < rows'[j].rowid /\ rows'[i].tick <= rows'[j].tick
                 /\ rows'[j].old => rows'[i].old
  <1>1. rows \in Seq(NumberedRow) /\ DOMAIN rows = 1..Len(rows) /\ Len(rows) \in Nat
    BY DEF MigTypeOK
  <1>2. \A i \in DOMAIN rows : rows[i] \in NumberedRow
    BY <1>1
  <1>3. ASSUME NEW i \in DOMAIN rows
        PROVE  /\ rows'[i] \in NumberedRow /\ rows'[i].seq = f[i] /\ rows'[i].rowid = rows[i].rowid
               /\ rows'[i].tick = rows[i].tick /\ rows'[i].old = rows[i].old
    <2>1. rows'[i] = [rows[i] EXCEPT !.seq = f[i]] /\ f[i] \in Nat /\ rows[i] \in NumberedRow
      BY <1>2
    <2> QED
      BY <2>1 DEF NumberedRow
  <1>4. rows' \in [1..Len(rows) -> NumberedRow] /\ DOMAIN rows' = DOMAIN rows
    BY <1>1, <1>3
  <1>5. rows' \in Seq(NumberedRow) /\ Len(rows') = Len(rows)
    BY <1>1, <1>4
  <1>6. \A i, j \in DOMAIN rows : i < j =>
             /\ rows[i].rowid < rows[j].rowid /\ rows[i].tick <= rows[j].tick
             /\ rows[j].old => rows[i].old
    BY DEF RowsInOrder
  <1> QED
    BY <1>3, <1>4, <1>5, <1>6

\* SQLite numbers every row by its rowid.
LEMMA RowidsAreNumbers ==
    ASSUME MigTypeOK, RowsInOrder, rows' = NumberByRowid
    PROVE  /\ rows' \in Seq(NumberedRow)
           /\ \A i \in DOMAIN rows' : rows'[i].seq = rows'[i].rowid
           /\ \A i, j \in DOMAIN rows' : i < j =>
                 /\ rows'[i].rowid < rows'[j].rowid /\ rows'[i].tick <= rows'[j].tick
                 /\ rows'[j].old => rows'[i].old
  <1> DEFINE f == [i \in DOMAIN rows |-> rows[i].rowid]
  <1>1. f \in [DOMAIN rows -> Nat]
    BY RowsAreTyped
  <1>2. rows' = [i \in DOMAIN rows |-> [rows[i] EXCEPT !.seq = f[i]]]
    BY DEF NumberByRowid
  <1>3. \A i \in DOMAIN rows : f[i] = rows[i].rowid
    OBVIOUS
  <1> HIDE DEF f
  <1>4. /\ rows' \in Seq(NumberedRow) /\ DOMAIN rows' = DOMAIN rows /\ Len(rows') = Len(rows)
        /\ \A i \in DOMAIN rows : /\ rows'[i].seq = f[i] /\ rows'[i].rowid = rows[i].rowid
                                  /\ rows'[i].tick = rows[i].tick /\ rows'[i].old = rows[i].old
        /\ \A i, j \in DOMAIN rows' : i < j =>
              /\ rows'[i].rowid < rows'[j].rowid /\ rows'[i].tick <= rows'[j].tick
              /\ rows'[j].old => rows'[i].old
    BY <1>1, <1>2, RowsRenumbered
  <1> QED
    BY <1>3, <1>4

\* PostgreSQL numbers the rows it finds by their ticks, all of them below the next.
LEMMA TicksAreNumbers ==
    ASSUME MigTypeOK, RowsInOrder, ~Numbered, rows' \in NumberByTick, identity' = Len(rows) + 1
    PROVE  /\ rows' \in Seq(NumberedRow) /\ identity' \in Nat /\ identity' > 0
           /\ \A i \in DOMAIN rows' : 0 < rows'[i].seq /\ rows'[i].seq < identity'
           /\ \A i, j \in DOMAIN rows' :
                 i < j /\ ~(rows'[i].old /\ rows'[j].old /\ rows'[i].tick = rows'[j].tick)
                   => rows'[i].seq < rows'[j].seq
           /\ \A i, j \in DOMAIN rows' : i < j =>
                 /\ rows'[i].rowid < rows'[j].rowid /\ rows'[i].tick <= rows'[j].tick
                 /\ rows'[j].old => rows'[i].old
  <1>1. PICK p \in [DOMAIN rows -> DOMAIN rows] :
             /\ rows' = [i \in DOMAIN rows |-> [rows[i] EXCEPT !.seq = p[i]]]
             /\ \A i, j \in DOMAIN rows : rows[i].tick < rows[j].tick => p[i] < p[j]
    BY DEF NumberByTick
  <1>2. Len(rows) \in Nat /\ DOMAIN rows = 1..Len(rows) /\ p \in [DOMAIN rows -> Nat]
    BY RowsAreTyped
  <1>3. /\ rows' \in Seq(NumberedRow) /\ DOMAIN rows' = DOMAIN rows /\ Len(rows') = Len(rows)
        /\ \A i \in DOMAIN rows : /\ rows'[i].seq = p[i] /\ rows'[i].rowid = rows[i].rowid
                                  /\ rows'[i].tick = rows[i].tick /\ rows'[i].old = rows[i].old
        /\ \A i, j \in DOMAIN rows' : i < j =>
              /\ rows'[i].rowid < rows'[j].rowid /\ rows'[i].tick <= rows'[j].tick
              /\ rows'[j].old => rows'[i].old
    BY <1>1, <1>2, RowsRenumbered
  <1>4. \A i \in DOMAIN rows : rows[i].old /\ rows[i].tick \in Nat
    BY RowsAreTyped DEF RowsInOrder
  <1>5. ASSUME NEW i \in DOMAIN rows', NEW j \in DOMAIN rows', i < j,
               ~(rows'[i].old /\ rows'[j].old /\ rows'[i].tick = rows'[j].tick)
        PROVE  rows'[i].seq < rows'[j].seq
    <2>1. rows[i].tick # rows[j].tick /\ rows[i].tick <= rows[j].tick
      BY <1>3, <1>4, <1>5
    <2>2. rows[i].tick < rows[j].tick
      BY <1>3, <1>4, <1>5, <2>1
    <2> QED
      BY <1>1, <1>3, <1>5, <2>2
  <1>6. \A i \in DOMAIN rows' : 0 < rows'[i].seq /\ rows'[i].seq < identity'
    <2>1. \A i \in DOMAIN rows : p[i] \in 1..Len(rows)
      BY <1>2
    <2> QED
      BY <1>2, <1>3, <2>1
  <1>7. identity' \in Nat /\ identity' > 0
    BY <1>2
  <1> QED
    BY <1>3, <1>5, <1>6, <1>7

-----------------------------------------------------------------------------
LEMMA HealthyEngine ==
    ASSUME HealthyInv
    PROVE  /\ origin.engine \in {"sqlite", "postgres"} /\ schema_ddl(origin.engine) \subseteq Effects
           /\ "trigger" \in db.made => origin.engine = "sqlite"
           /\ "identity" \in db.made => origin.engine = "postgres"
  <1>1. origin.engine \in {"sqlite", "postgres"}
    BY FoundAs DEF HealthyInv, MigTypeOK
  <1>2. db.made \subseteq schema_ddl(origin.engine)
    BY DEF HealthyInv, LogBehindShape
  <1>3. schema_ddl(origin.engine) \subseteq Effects
    BY <1>1, WhatVersionsLeave DEF Effects
  <1> QED
    BY <1>1, <1>2, <1>3, WhatVersionsLeave

\* The schema file, run on an empty database or again on one that has it.
LEMMA SchemaCreated ==
    ASSUME HealthyInv, NEW s \in Starters, CreateSchema(s) PROVE HealthyInv'
  <1> DEFINE e == origin.engine  ddl == schema_ddl(e)  r == [pc |-> "record", todo |-> <<>>]
  <1>1. /\ starter' = [starter EXCEPT ![s] = r] /\ UNCHANGED <<origin, rows>>
        /\ db' = [db EXCEPT !.tables = Expected, !.hasLog = TRUE, !.made = @ \union ddl]
        /\ identity' = IF e = "postgres" /\ identity = 0 THEN 1 ELSE identity
        /\ starter[s].pc = "create"
    BY DEF CreateSchema, Goto
  <1>2. MigTypeOK /\ LogBehindShape /\ EmptyOrWhole /\ RowsInOrder /\ RowsNumbered /\ StartersFit
    BY DEF HealthyInv
  <1>3. /\ db \in [tables : SUBSET Expected, hasLog : BOOLEAN, log : SUBSET Nat, made : SUBSET Effects]
        /\ e \in {"sqlite", "postgres"} /\ ddl \subseteq Effects
    BY <1>2, HealthyEngine DEF MigTypeOK
  <1>4. /\ db'.tables = Expected /\ db'.hasLog = TRUE /\ db'.log = db.log /\ db'.made = db.made \union ddl
        /\ db' \in [tables : SUBSET Expected, hasLog : BOOLEAN, log : SUBSET Nat, made : SUBSET Effects]
    BY <1>1, <1>3
  <1>e. "identity" \in ddl <=> e = "postgres"
    <2>1. CASE e = "postgres"
      BY <2>1, WhatVersionsLeave
    <2>2. CASE e = "sqlite"
      BY <2>2, WhatVersionsLeave
    <2> QED
      BY <1>3, <2>1, <2>2
  <1>5. origin.tables = {}
    BY <1>1, <1>2 DEF StartersFit, StarterFits
  <1>6. (rows = <<>> /\ db.made = {}) \/ ddl \subseteq db.made
    BY <1>2, <1>5 DEF EmptyOrWhole
  <1>7. db'.made = ddl
    BY <1>2, <1>4, <1>6 DEF LogBehindShape
  <1>8. LogBehindShape'
    BY <1>1, <1>2, <1>4, <1>5, <1>7 DEF LogBehindShape
  <1>9. EmptyOrWhole'
    BY <1>1, <1>7 DEF EmptyOrWhole
  <1>10. RowsInOrder' /\ RowsNumbered' /\ identity' \in Nat
    <2>1. identity \in Nat /\ ("identity" \in db.made <=> identity > 0)
      BY <1>2 DEF MigTypeOK, RowsNumbered
    <2>2. ("identity" \in db'.made <=> identity' > 0) /\ identity' \in Nat
      <3>1. CASE ddl \subseteq db.made
        <4>1. db'.made = db.made
          BY <1>4, <3>1
        <4>2. e = "postgres" => identity > 0
          BY <1>e, <2>1, <3>1
        <4> QED
          BY <1>1, <2>1, <4>1, <4>2
      <3>2. CASE db.made = {}
        <4>1. identity = 0
          BY <2>1, <3>2
        <4>2. identity' = IF e = "postgres" THEN 1 ELSE 0
          BY <1>1, <4>1
        <4>3. "identity" \in db'.made <=> e = "postgres"
          BY <1>7, <1>e
        <4> QED
          BY <4>2, <4>3
      <3> QED
        BY <1>6, <3>1, <3>2
    <2>3. CASE rows = <<>>
      <3>1. rows' = <<>> /\ DOMAIN rows' = {}
        BY <1>1, <2>3
      <3> QED
        BY <2>2, <3>1 DEF RowsInOrder, RowsNumbered
    <2>4. CASE ddl \subseteq db.made
      <3>1. db'.made = db.made /\ rows' = rows
        BY <1>1, <1>4, <2>4
      <3>2. identity' = identity
        <4>1. e = "postgres" => identity # 0
          BY <1>e, <2>1, <2>4
        <4> QED
          BY <1>1, <4>1
      <3>3. RowsInOrder'
        BY <1>2, <3>1 DEF RowsInOrder, Numbered
      <3>4. RowsNumbered'
        BY <1>2, <3>1, <3>2 DEF RowsNumbered
      <3> QED
        BY <2>2, <3>3, <3>4
    <2> QED
      BY <1>6, <2>3, <2>4
  <1>11. r \in StarterRow /\ StarterFits(r)'
    <2>1. r \in StarterRow
      BY DEF StarterRow
    <2> QED
      BY <1>1, <1>4, <1>7, <2>1 DEF StarterFits
  <1>12. StartersFit' /\ starter' \in [Starters -> StarterRow]
    BY <1>1, <1>2, <1>4, <1>8, <1>11, OneStarterMoves
  <1>13. MigTypeOK'
    BY <1>1, <1>2, <1>4, <1>10, <1>12 DEF MigTypeOK
  <1> QED
    BY <1>8, <1>9, <1>10, <1>12, <1>13 DEF HealthyInv

\* Version rows are written when the shape they name is there.
LEMMA VersionsRecorded ==
    ASSUME HealthyInv, NEW s \in Starters, RecordVersions(s) PROVE HealthyInv'
  <1> DEFINE e == origin.engine
  <1>1. MigTypeOK /\ LogBehindShape /\ EmptyOrWhole /\ RowsInOrder /\ RowsNumbered /\ StartersFit
    BY DEF HealthyInv
  <1>2. /\ db \in [tables : SUBSET Expected, hasLog : BOOLEAN, log : SUBSET Nat, made : SUBSET Effects]
        /\ e \in {"sqlite", "postgres"}
    BY <1>1, HealthyEngine DEF MigTypeOK
  <1>3. UNCHANGED <<origin, rows, identity>> /\ StarterFits(starter[s])
    BY <1>1 DEF RecordVersions, StartersFit
  <1>4. PICK k \in 0..4 : db.log = 1..k
    BY <1>1 DEF LogBehindShape, SCHEMA_VERSION
  <1>5. \E r \in StarterRow :
          /\ starter' = [starter EXCEPT ![s] = r] /\ StarterFits(r)'
          /\ db'.tables = Expected /\ db.tables = Expected /\ db'.hasLog /\ db'.made = db.made
          /\ db.log \subseteq db'.log /\ \E n \in 0..4 : db'.log = 1..n
          /\ \A v \in db'.log : ShapeOf(e, v) \subseteq db.made
          /\ db' \in [tables : SUBSET Expected, hasLog : BOOLEAN, log : SUBSET Nat, made : SUBSET Effects]
    <2>1. CASE starter[s].pc = "record"
      <3> DEFINE r == [pc |-> "ready", todo |-> <<>>]
      <3>1. /\ starter' = [starter EXCEPT ![s] = r]
            /\ db' = [db EXCEPT !.log = @ \union (1..SCHEMA_VERSION)]
        BY <2>1 DEF RecordVersions, Leave
      <3>2. db.tables = Expected /\ db.hasLog /\ schema_ddl(e) \subseteq db.made
        BY <1>3, <2>1 DEF StarterFits
      <3>3. db.log \union (1..SCHEMA_VERSION) = 1..4
        BY <1>4 DEF SCHEMA_VERSION
      <3>4. /\ db'.tables = db.tables /\ db'.hasLog = db.hasLog /\ db'.made = db.made /\ db'.log = 1..4
            /\ db' \in [tables : SUBSET Expected, hasLog : BOOLEAN, log : SUBSET Nat, made : SUBSET Effects]
        BY <1>2, <3>1, <3>3
      <3>5. \A v \in 1..4 : ShapeOf(e, v) \subseteq db.made
        <4>1. 1..4 = 1..SCHEMA_VERSION
          BY DEF SCHEMA_VERSION
        <4>2. \A v \in 1..4 : ShapeOf(e, v) \subseteq schema_ddl(e)
          BY <4>1 DEF ShapeOf, schema_ddl
        <4> QED
          BY <3>2, <4>2
      <3>6. r \in StarterRow
        BY DEF StarterRow
      <3>7. StarterFits(r)'
        BY <3>4 DEF StarterFits, SCHEMA_VERSION
      <3> HIDE DEF r
      <3>8. \E n \in 0..4 : db'.log = 1..n
        BY <3>4
      <3>9. db.log \subseteq db'.log
        BY <1>4, <3>4
      <3> WITNESS r \in StarterRow
      <3> QED
        BY <3>1, <3>2, <3>4, <3>5, <3>7, <3>8, <3>9
    <2>2. CASE starter[s].pc = "base"
      <3> DEFINE r == [pc |-> "migrate", todo |-> pending(1)]
      <3>1. /\ starter' = [starter EXCEPT ![s] = r]
            /\ db' = [db EXCEPT !.hasLog = TRUE, !.log = @ \union {1}]
        BY <2>2 DEF RecordVersions, Goto, BASE_SCHEMA_VERSION
      <3>2. db.tables = Expected
        BY <1>3, <2>2 DEF StarterFits
      <3>3. \E n \in 1..4 : db.log \union {1} = 1..n
        <4>1. CASE k = 0
          BY <1>4, <4>1
        <4>2. CASE k # 0
          BY <1>4, <4>2
        <4> QED
          BY <4>1, <4>2
      <3>4. /\ db'.tables = db.tables /\ db'.hasLog = TRUE /\ db'.made = db.made /\ db'.log = db.log \union {1}
            /\ db' \in [tables : SUBSET Expected, hasLog : BOOLEAN, log : SUBSET Nat, made : SUBSET Effects]
        <4>1. db.log \union {1} \in SUBSET Nat
          BY <1>2
        <4>2. db'.tables = db.tables /\ db'.hasLog = TRUE /\ db'.made = db.made /\ db'.log = db.log \union {1}
          BY <1>2, <3>1
        <4>3. db' = [tables |-> db.tables, hasLog |-> TRUE, log |-> db.log \union {1}, made |-> db.made]
          BY <1>2, <3>1
        <4>4. TRUE \in BOOLEAN
          BY Zenon
        <4> QED
          BY <1>2, <4>1, <4>2, <4>3, <4>4
      <3>5. \A v \in db'.log : ShapeOf(e, v) \subseteq db.made
        BY <1>1, <3>4, WhatVersionsLeave DEF LogBehindShape, ShapeOf
      <3>6. 1 \in 1..SCHEMA_VERSION /\ 1 # SCHEMA_VERSION /\ 1..1 = {1}
        BY DEF SCHEMA_VERSION
      <3>7. pending(1) \in Seq(Nat) /\ pending(1) # <<>>
        BY <3>6, WhatIsPending
      <3>8. r \in StarterRow
        BY <3>7 DEF StarterRow
      <3>9. StarterFits(r)'
        BY <3>4, <3>6, <3>7 DEF StarterFits, Follows
      <3> HIDE DEF r
      <3>10. \E n \in 0..4 : db'.log = 1..n
        BY <3>3, <3>4
      <3> WITNESS r \in StarterRow
      <3> QED
        BY <3>1, <3>2, <3>4, <3>5, <3>9, <3>10
    <2> QED
      BY <2>1, <2>2 DEF RecordVersions
  <1>6. LogBehindShape'
    BY <1>1, <1>3, <1>5, DatabasesAssumption DEF LogBehindShape, SCHEMA_VERSION
  <1>7. EmptyOrWhole'
    BY <1>1, <1>3, <1>5, DatabasesAssumption DEF EmptyOrWhole
  <1>8. RowsInOrder'
    BY <1>1, <1>3, <1>5 DEF RowsInOrder, Numbered
  <1>9. RowsNumbered'
    BY <1>1, <1>3, <1>5 DEF RowsNumbered
  <1>10. StartersFit' /\ starter' \in [Starters -> StarterRow]
    BY <1>1, <1>3, <1>5, <1>6, OneStarterMoves
  <1>11. MigTypeOK'
    BY <1>1, <1>3, <1>5, <1>10 DEF MigTypeOK
  <1> QED
    BY <1>6, <1>7, <1>8, <1>9, <1>10, <1>11 DEF HealthyInv

-----------------------------------------------------------------------------
\* What the guarded statements of a version do to the rows.
LEMMA StepsKeepRows ==
    ASSUME HealthyInv, NEW v \in {2, 3, 4}, NEW needed, RunSteps(needed),
           needed = {g \in Guarded(origin.engine, v) : StillNeeded(g)}, origin' = origin,
           db'.made = db.made \union (needed \ {"numbers"})
    PROVE  /\ rows' \in Seq(NumberedRow) /\ identity' \in Nat /\ RowsInOrder' /\ RowsNumbered'
           /\ ShapeOf(origin.engine, v) \subseteq db'.made
           /\ db'.made \subseteq schema_ddl(origin.engine) /\ db.made \subseteq db'.made
  <1> DEFINE e == origin.engine
  <1>1. MigTypeOK /\ LogBehindShape /\ RowsInOrder /\ RowsNumbered /\ db.made \subseteq schema_ddl(e)
    BY DEF HealthyInv, LogBehindShape
  <1>2. /\ e \in {"sqlite", "postgres"} /\ ("trigger" \in db.made => e = "sqlite")
        /\ "identity" \in db.made => e = "postgres"
    BY HealthyEngine
  <1>3. /\ Len(rows) \in Nat /\ DOMAIN rows = 1..Len(rows) /\ rows \in Seq(NumberedRow)
        /\ \A i \in DOMAIN rows : /\ rows[i].rowid \in Nat \ {0} /\ rows[i].seq \in Nat
                                  /\ rows[i].tick \in Nat /\ rows[i].old \in BOOLEAN
        /\ identity \in Nat
    BY <1>1, RowsAreTyped DEF MigTypeOK
  <1>4. \A g : g # "numbers" => (StillNeeded(g) <=> g \notin db.made)
    BY DEF StillNeeded
  <1>5. StillNeeded("numbers") <=> \E i \in DOMAIN rows : rows[i].seq = 0
    BY DEF StillNeeded
  <1>6. db'.made = db.made \union ShapeOf(e, v)
    BY <1>4 DEF ShapeOf
  <1>7. ShapeOf(e, v) \subseteq schema_ddl(e)
    <2>1. v \in 1..SCHEMA_VERSION
      BY DEF SCHEMA_VERSION
    <2> QED
      BY <2>1 DEF ShapeOf, schema_ddl
  <1>8. /\ ShapeOf(origin.engine, v) \subseteq db'.made
        /\ db'.made \subseteq schema_ddl(origin.engine) /\ db.made \subseteq db'.made
    BY <1>1, <1>6, <1>7
  <1>9. rows' \in Seq(NumberedRow) /\ identity' \in Nat /\ RowsInOrder' /\ RowsNumbered'
    <2>1. CASE e = "sqlite" /\ v = 2
      <3>1. Guarded(e, v) = {"column", "numbers", "trigger"} /\ ShapeOf(e, v) = {"column", "trigger"}
        BY <2>1, WhatVersionsLeave DEF ShapeOf
      <3>2. /\ "identity" \notin needed /\ ("numbers" \in needed <=> \E i \in DOMAIN rows : rows[i].seq = 0)
            /\ "trigger" \in db'.made /\ "identity" \notin db.made /\ "identity" \notin db'.made
        BY <1>2, <1>5, <1>6, <2>1, <3>1
      <3>3. identity' = identity
        BY <3>2 DEF RunSteps
      <3>4. CASE "numbers" \in needed
        <4>1. rows' = NumberByRowid
          BY <3>2, <3>4 DEF RunSteps
        <4>2. /\ rows' \in Seq(NumberedRow)
              /\ \A i \in DOMAIN rows' : rows'[i].seq = rows'[i].rowid
              /\ \A i, j \in DOMAIN rows' : i < j =>
                    /\ rows'[i].rowid < rows'[j].rowid /\ rows'[i].tick <= rows'[j].tick
                    /\ rows'[j].old => rows'[i].old
          BY <1>1, <4>1, RowidsAreNumbers
        <4>3. RowsInOrder'
          BY <3>2, <4>2 DEF RowsInOrder, Numbered
        <4>4. RowsNumbered'
          BY <1>1, <3>2, <3>3, <4>2 DEF RowsNumbered
        <4> QED
          BY <1>3, <3>3, <4>2, <4>3, <4>4
      <3>5. CASE "numbers" \notin needed
        <4>1. rows' = rows
          BY <3>2, <3>5 DEF RunSteps
        <4>2. \A i \in DOMAIN rows : rows[i].seq = rows[i].rowid
          <5>1. CASE "trigger" \in db.made
            BY <1>1, <5>1 DEF RowsNumbered
          <5>2. CASE "trigger" \notin db.made
            BY <1>1, <3>2, <3>5, <5>2 DEF RowsInOrder, Numbered
          <5> QED
            BY <5>1, <5>2
        <4>3. RowsInOrder'
          BY <1>1, <3>2, <4>1 DEF RowsInOrder, Numbered
        <4>4. RowsNumbered'
          BY <1>1, <3>2, <3>3, <4>1, <4>2 DEF RowsNumbered
        <4> QED
          BY <1>3, <3>3, <4>1, <4>3, <4>4
      <3> QED
        BY <3>4, <3>5
    <2>2. CASE e = "postgres" /\ v = 2 /\ "identity" \notin db.made
      <3>1. Guarded(e, v) = {"identity"} /\ ShapeOf(e, v) = {"identity"}
        BY <2>2, WhatVersionsLeave DEF ShapeOf
      <3>2. "identity" \in needed /\ "numbers" \notin needed /\ "identity" \in db'.made
            /\ "trigger" \notin db.made /\ "trigger" \notin db'.made
        BY <1>2, <1>4, <1>6, <2>2, <3>1
      <3>3. rows' \in NumberByTick /\ identity' = Len(rows) + 1 /\ ~Numbered
        BY <2>2, <3>2 DEF RunSteps, Numbered
      <3>4. /\ rows' \in Seq(NumberedRow) /\ identity' \in Nat /\ identity' > 0
            /\ \A i \in DOMAIN rows' : 0 < rows'[i].seq /\ rows'[i].seq < identity'
            /\ \A i, j \in DOMAIN rows' :
                  i < j /\ ~(rows'[i].old /\ rows'[j].old /\ rows'[i].tick = rows'[j].tick)
                    => rows'[i].seq < rows'[j].seq
            /\ \A i, j \in DOMAIN rows' : i < j =>
                  /\ rows'[i].rowid < rows'[j].rowid /\ rows'[i].tick <= rows'[j].tick
                  /\ rows'[j].old => rows'[i].old
        BY <1>1, <3>3, TicksAreNumbers
      <3>5. RowsInOrder'
        BY <3>2, <3>4 DEF RowsInOrder, Numbered
      <3>6. RowsNumbered'
        BY <3>2, <3>4 DEF RowsNumbered
      <3> QED
        BY <3>4, <3>5, <3>6
    <2>3. CASE ~(e = "sqlite" /\ v = 2) /\ ~(e = "postgres" /\ v = 2 /\ "identity" \notin db.made)
      <3>1. /\ "numbers" \notin needed /\ "identity" \notin needed
            /\ "trigger" \in db'.made <=> "trigger" \in db.made
            /\ "identity" \in db'.made <=> "identity" \in db.made
        <4>1. CASE e = "sqlite"
          <5>1. v \in {3, 4} /\ Guarded(e, v) \subseteq {"hyphenated"}
            BY <2>3, <4>1, WhatVersionsLeave
          <5> QED
            BY <5>1
        <4>2. CASE e = "postgres" /\ v = 2
          <5>1. Guarded(e, v) = {"identity"} /\ "identity" \in db.made
            BY <2>3, <4>2, WhatVersionsLeave
          <5>2. needed = {}
            BY <1>4, <5>1
          <5> QED
            BY <5>2
        <4>3. CASE e = "postgres" /\ v # 2
          <5>1. Guarded(e, v) \subseteq {"text", "default", "parent text"}
            BY <4>3, WhatVersionsLeave
          <5> QED
            BY <5>1
        <4> QED
          BY <1>2, <4>1, <4>2, <4>3
      <3>2. rows' = rows /\ identity' = identity
        BY <3>1 DEF RunSteps
      <3>3. RowsInOrder'
        BY <1>1, <3>1, <3>2 DEF RowsInOrder, Numbered
      <3>4. RowsNumbered'
        BY <1>1, <3>1, <3>2 DEF RowsNumbered
      <3> QED
        BY <1>3, <3>2, <3>3, <3>4
    <2> QED
      BY <2>1, <2>2, <2>3
  <1> QED
    BY <1>8, <1>9

LEMMA MigrationRun ==
    ASSUME HealthyInv, NEW s \in Starters, RunMigration(s) PROVE HealthyInv'
  <1> DEFINE e == origin.engine  todo == starter[s].todo  version == Head(todo)
             needed == {g \in Guarded(e, version) : StillNeeded(g)}
  <1>1. MigTypeOK /\ LogBehindShape /\ EmptyOrWhole /\ RowsInOrder /\ RowsNumbered /\ StartersFit
    BY DEF HealthyInv
  <1>2. /\ db \in [tables : SUBSET Expected, hasLog : BOOLEAN, log : SUBSET Nat, made : SUBSET Effects]
        /\ schema_ddl(e) \subseteq Effects
    BY <1>1, HealthyEngine DEF MigTypeOK
  <1>3. todo # <<>> /\ Follows(todo)
    BY <1>1 DEF RunMigration, StartersFit, StarterFits
  <1>4. PICK k \in 1..SCHEMA_VERSION : todo = pending(k) /\ 1..k \subseteq db.log
    BY <1>3 DEF Follows
  <1>5. k + 1 \in 1..SCHEMA_VERSION /\ version = k + 1 /\ Tail(todo) = pending(k + 1)
        /\ pending(k + 1) \in Seq(Nat) /\ (pending(k + 1) = <<>> <=> k + 1 = SCHEMA_VERSION)
    BY <1>3, <1>4, WhatIsPending
  <1>6. version \in {2, 3, 4} /\ k + 1 \in Nat /\ k \in Nat
    BY <1>5 DEF SCHEMA_VERSION
  <1>7. ~("column" \in needed /\ "column" \in db.made)
    BY DEF StillNeeded
  <1>8. /\ RunSteps(needed) /\ UNCHANGED origin
        /\ db' = [db EXCEPT !.made = @ \union (needed \ {"numbers"}), !.log = @ \union {version}]
        /\ Continue(s, Tail(todo))
    BY <1>7 DEF RunMigration
  <1> HIDE DEF needed
  <1>9. db'.made = db.made \union (needed \ {"numbers"}) /\ db'.log = db.log \union {version}
        /\ db'.tables = db.tables /\ db'.hasLog = db.hasLog
        /\ db' = [tables |-> db.tables, hasLog |-> db.hasLog, log |-> db.log \union {version},
                  made |-> db.made \union (needed \ {"numbers"})]
    BY <1>2, <1>8
  <1>10. /\ rows' \in Seq(NumberedRow) /\ identity' \in Nat /\ RowsInOrder' /\ RowsNumbered'
         /\ ShapeOf(e, version) \subseteq db'.made
         /\ db'.made \subseteq schema_ddl(e) /\ db.made \subseteq db'.made
    <2>1. needed = {g \in Guarded(e, version) : StillNeeded(g)}
      BY DEF needed
    <2> HIDE DEF version
    <2> QED
      BY <1>6, <1>8, <1>9, <2>1, StepsKeepRows
  <1>11. db' \in [tables : SUBSET Expected, hasLog : BOOLEAN, log : SUBSET Nat, made : SUBSET Effects]
    <2>1. db'.log \in SUBSET Nat
      BY <1>2, <1>5, <1>6, <1>9
    <2>2. db'.made \in SUBSET Effects
      BY <1>2, <1>10
    <2> QED
      BY <1>2, <1>9, <2>1, <2>2
  <1>12. db.log # {} /\ db.tables = Expected /\ db.hasLog
    <2>1. k \in 1..k
      BY <1>6, <1>4 DEF SCHEMA_VERSION
    <2>2. db.log # {}
      BY <1>4, <2>1
    <2> QED
      BY <1>1, <2>2 DEF LogBehindShape
  <1>13. \E n \in 0..SCHEMA_VERSION : db'.log = 1..n
    <2>1. PICK n \in 0..SCHEMA_VERSION : db.log = 1..n
      BY <1>1 DEF LogBehindShape
    <2>2. n \in 0..4 /\ k \in 1..3 /\ k <= n /\ version = k + 1
      <3>1. SCHEMA_VERSION = 4 /\ k \in 1..4 /\ k + 1 \in 1..4 /\ n \in 0..4
        BY <1>5, <2>1 DEF SCHEMA_VERSION
      <3>2. k \in db.log
        BY <1>4, <3>1
      <3>3. k <= n
        BY <2>1, <3>1, <3>2
      <3> HIDE DEF version, todo
      <3> QED
        BY <1>5, <3>1, <3>3
    <2>3. CASE k = n
      <3>1. db'.log = 1..(n + 1)
        BY <1>9, <2>1, <2>2, <2>3
      <3> QED
        BY <2>2, <2>3, <3>1 DEF SCHEMA_VERSION
    <2>4. CASE k < n
      <3>1. db'.log = 1..n
        BY <1>9, <2>1, <2>2, <2>4
      <3> QED
        BY <3>1
    <2> QED
      BY <2>2, <2>3, <2>4
  <1>14. LogBehindShape'
    BY <1>1, <1>8, <1>9, <1>10, <1>12, <1>13, DatabasesAssumption DEF LogBehindShape
  <1>15. EmptyOrWhole'
    BY <1>1, <1>8, <1>10, <1>12, DatabasesAssumption DEF EmptyOrWhole
  <1>16. \E r \in StarterRow : starter' = [starter EXCEPT ![s] = r] /\ StarterFits(r)'
    <2>1. 1..(k + 1) \subseteq db'.log
      BY <1>4, <1>5, <1>6, <1>9
    <2>2. CASE Tail(todo) = <<>>
      <3> DEFINE r == [pc |-> "ready", todo |-> <<>>]
      <3>1. starter' = [starter EXCEPT ![s] = r]
        BY <1>8, <2>2 DEF Continue, Leave
      <3>2. db'.log = 1..SCHEMA_VERSION
        <4>1. k + 1 = 4 /\ SCHEMA_VERSION = 4
          BY <1>5, <2>2 DEF SCHEMA_VERSION
        <4>2. PICK n \in 0..4 : db'.log = 1..n
          BY <1>13, <4>1
        <4>3. 4 \in 1..n
          BY <2>1, <4>1, <4>2
        <4> QED
          BY <4>1, <4>2, <4>3
      <3>3. r \in StarterRow /\ StarterFits(r)'
        BY <3>2 DEF StarterRow, StarterFits
      <3> QED
        BY <3>1, <3>3
    <2>3. CASE Tail(todo) # <<>>
      <3> DEFINE r == [pc |-> "migrate", todo |-> pending(k + 1)]
      <3>1. starter' = [starter EXCEPT ![s] = r]
        BY <1>5, <1>8, <2>3 DEF Continue, Goto
      <3>2. Follows(pending(k + 1))'
        BY <1>5, <2>1 DEF Follows
      <3>3. r \in StarterRow /\ StarterFits(r)'
        BY <1>5, <2>3, <3>2 DEF StarterRow, StarterFits
      <3> QED
        BY <3>1, <3>3
    <2> QED
      BY <2>2, <2>3
  <1>17. StartersFit' /\ starter' \in [Starters -> StarterRow]
    BY <1>1, <1>8, <1>9, <1>14, <1>16, OneStarterMoves
  <1>18. MigTypeOK'
    BY <1>1, <1>8, <1>10, <1>11, <1>17 DEF MigTypeOK
  <1> QED
    BY <1>10, <1>14, <1>15, <1>17, <1>18 DEF HealthyInv

-----------------------------------------------------------------------------
LEMMA RowidIsNext ==
    ASSUME MigTypeOK, RowsInOrder
    PROVE  Rowid \in Nat \ {0} /\ \A i \in DOMAIN rows : rows[i].rowid < Rowid
  <1> DEFINE taken == {0} \union {rows[i].rowid : i \in DOMAIN rows}
  <1>1. /\ Len(rows) \in Nat /\ DOMAIN rows = 1..Len(rows)
        /\ \A i \in DOMAIN rows : rows[i].rowid \in Nat \ {0}
        /\ \A i, j \in DOMAIN rows : i < j => rows[i].rowid < rows[j].rowid
    BY RowsAreTyped DEF RowsInOrder
  <1>2. taken \subseteq Nat
    BY <1>1
  <1>3. \E m \in taken : \A x \in taken : m >= x
    <2>1. CASE Len(rows) = 0
      <3>1. taken = {0}
        BY <1>1, <2>1
      <3> QED
        BY <3>1
    <2>2. CASE Len(rows) # 0
      <3> DEFINE n == Len(rows)
      <3>1. n \in DOMAIN rows /\ \A i \in DOMAIN rows : i < n \/ i = n
        BY <1>1, <2>2
      <3>2. \A i \in DOMAIN rows : rows[n].rowid >= rows[i].rowid
        BY <1>1, <3>1
      <3>3. rows[n].rowid \in taken /\ rows[n].rowid >= 0
        BY <1>1, <3>1
      <3> HIDE DEF n
      <3>4. \A x \in taken : rows[n].rowid >= x
        BY <3>2, <3>3
      <3> QED
        BY <3>3, <3>4
    <2> QED
      BY <2>1, <2>2
  <1>4. Max(taken) \in taken /\ \A x \in taken : Max(taken) >= x
    <2> HIDE DEF taken
    <2> QED
      BY <1>3 DEF Max
  <1>5. Rowid = 1 + Max(taken)
    BY DEF Rowid
  <1>6. \A i \in DOMAIN rows : rows[i].rowid \in taken
    OBVIOUS
  <1> HIDE DEF taken
  <1> DEFINE m == Max(taken)
  <1>7. m \in Nat /\ \A i \in DOMAIN rows : m >= rows[i].rowid
    BY <1>2, <1>4, <1>6
  <1>8. Rowid = 1 + m
    BY <1>5
  <1> HIDE DEF m
  <1> QED
    BY <1>1, <1>7, <1>8

\* A database some build serves from has the whole shape.
LEMMA ReadyIsWhole ==
    ASSUME HealthyInv, NEW s \in Starters, starter[s].pc = "ready"
    PROVE  schema_ddl(origin.engine) \subseteq db.made /\ db.tables = Expected
  <1>1. db.log = 1..SCHEMA_VERSION /\ 1 \in 1..SCHEMA_VERSION
    BY DEF HealthyInv, StartersFit, StarterFits, SCHEMA_VERSION
  <1>2. /\ \A v \in 1..SCHEMA_VERSION : ShapeOf(origin.engine, v) \subseteq db.made
        /\ db.tables = Expected
    BY <1>1 DEF HealthyInv, LogBehindShape
  <1> QED
    BY <1>2 DEF schema_ddl, ShapeOf

LEMMA RowInserted ==
    ASSUME HealthyInv, NEW old \in BOOLEAN, Insert(old) PROVE HealthyInv'
  <1> DEFINE e == origin.engine
  <1>1. MigTypeOK /\ LogBehindShape /\ EmptyOrWhole /\ RowsInOrder /\ RowsNumbered /\ StartersFit
    BY DEF HealthyInv
  <1>2. /\ Len(rows) \in Nat /\ DOMAIN rows = 1..Len(rows) /\ rows \in Seq(NumberedRow)
        /\ \A i \in DOMAIN rows : /\ rows[i].rowid \in Nat \ {0} /\ rows[i].seq \in Nat
                                  /\ rows[i].tick \in Nat /\ rows[i].old \in BOOLEAN
        /\ identity \in Nat
    BY <1>1, RowsAreTyped DEF MigTypeOK
  <1>3. Rowid \in Nat \ {0} /\ \A i \in DOMAIN rows : rows[i].rowid < Rowid
    BY <1>1, RowidIsNext
  <1>4. PICK dt \in {0, 1} :
          rows' = Append(rows,
            [rowid |-> Rowid, old |-> ~Numbered,
             tick |-> IF rows = <<>> THEN 1 ELSE rows[Len(rows)].tick + dt,
             seq |-> IF ~Numbered THEN 0 ELSE IF e = "sqlite" THEN Rowid ELSE identity])
    BY DEF Insert
  <1> DEFINE n == Len(rows) + 1
             r == [rowid |-> Rowid, old |-> ~Numbered,
                   tick |-> IF rows = <<>> THEN 1 ELSE rows[Len(rows)].tick + dt,
                   seq |-> IF ~Numbered THEN 0 ELSE IF e = "sqlite" THEN Rowid ELSE identity]
  <1>5. /\ identity' = IF "identity" \in db.made THEN identity + 1 ELSE identity
        /\ UNCHANGED <<origin, db, starter>> /\ Numbered' = Numbered
    BY DEF Insert, Numbered
  <1>6. /\ r.rowid = Rowid /\ r.old = ~Numbered /\ r.old \in BOOLEAN
        /\ r.seq = IF ~Numbered THEN 0 ELSE IF e = "sqlite" THEN Rowid ELSE identity
        /\ r.tick = IF rows = <<>> THEN 1 ELSE rows[Len(rows)].tick + dt
        /\ r = [rowid |-> r.rowid, seq |-> r.seq, tick |-> r.tick, old |-> r.old]
    <2>1. (~Numbered) \in BOOLEAN
      BY Zenon DEF Numbered
    <2>2. r.old \in BOOLEAN
      BY <2>1, Zenon
    <2> QED
      BY <2>2
  <1>7. /\ r.tick \in Nat /\ \A i \in DOMAIN rows : rows[i].tick <= r.tick
    <2>1. CASE rows = <<>>
      <3>1. DOMAIN rows = {} /\ r.tick = 1
        BY <2>1
      <3> QED
        BY <3>1
    <2>2. CASE rows # <<>>
      <3>1. Len(rows) \in DOMAIN rows /\ \A i \in DOMAIN rows : i < Len(rows) \/ i = Len(rows)
        BY <1>2, <2>2, EmptySeq
      <3>2. r.tick = rows[Len(rows)].tick + dt /\ rows[Len(rows)].tick \in Nat
        BY <1>2, <2>2, <3>1
      <3>3. \A i \in DOMAIN rows : rows[i].tick <= rows[Len(rows)].tick
        BY <1>1, <1>2, <3>1 DEF RowsInOrder
      <3> HIDE DEF r
      <3> QED
        BY <1>2, <3>2, <3>3
    <2> QED
      BY <2>1, <2>2
  <1>8. r.seq \in Nat
    BY <1>2, <1>3, <1>6
  <1>a. rows' = Append(rows, r)
    BY <1>4
  <1> HIDE DEF r
  <1>9. r \in NumberedRow
    BY <1>3, <1>6, <1>7, <1>8 DEF NumberedRow
  <1>10. /\ rows' \in Seq(NumberedRow) /\ n \in Nat /\ DOMAIN rows' = 1..n /\ rows'[n] = r
         /\ \A i \in DOMAIN rows : i \in DOMAIN rows' /\ rows'[i] = rows[i] /\ i < n
         /\ \A i \in DOMAIN rows' : i \in DOMAIN rows \/ i = n
    BY <1>2, <1>9, <1>a
  <1>b. \A i \in DOMAIN rows : ~(n < i)
    BY <1>2, <1>10
  <1>c. ~(n < n)
    BY <1>10
  <1> HIDE DEF n
  <1>11. RowsInOrder'
    <2>1. ASSUME NEW i \in DOMAIN rows', NEW j \in DOMAIN rows', i < j
          PROVE  /\ rows'[i].rowid < rows'[j].rowid /\ rows'[i].tick <= rows'[j].tick
                 /\ rows'[j].old => rows'[i].old
      <3>1. CASE j \in DOMAIN rows
        BY <1>1, <1>10, <1>b, <2>1, <3>1 DEF RowsInOrder
      <3>2. CASE j = n
        <4>1. i \in DOMAIN rows
          BY <1>10, <1>c, <2>1, <3>2
        <4>2. r.old => rows[i].old
          BY <1>1, <1>6, <4>1 DEF RowsInOrder
        <4> QED
          BY <1>3, <1>6, <1>7, <1>10, <3>2, <4>1, <4>2
      <3> QED
        BY <1>10, <3>1, <3>2
    <2>2. ASSUME ~Numbered, NEW i \in DOMAIN rows' PROVE rows'[i].old /\ rows'[i].seq = 0
      BY <1>1, <1>6, <1>10, <2>2 DEF RowsInOrder
    <2> QED
      BY <1>5, <2>1, <2>2 DEF RowsInOrder
  <1>12. RowsNumbered' /\ identity' \in Nat
    <2>1. ("identity" \in db.made <=> identity > 0) /\ e \in {"sqlite", "postgres"}
          /\ ("trigger" \in db.made => e = "sqlite") /\ ("identity" \in db.made => e = "postgres")
      BY <1>1, HealthyEngine DEF RowsNumbered
    <2>2. ("identity" \in db'.made <=> identity' > 0) /\ identity' \in Nat
      BY <1>2, <1>5, <2>1
    <2>3. ASSUME "trigger" \in db'.made, NEW i \in DOMAIN rows' PROVE rows'[i].seq = rows'[i].rowid
      <3>1. "trigger" \in db.made /\ Numbered /\ e = "sqlite"
        BY <1>5, <2>1, <2>3 DEF Numbered
      <3> QED
        BY <1>1, <1>6, <1>10, <3>1 DEF RowsNumbered
    <2>4. ASSUME "identity" \in db'.made
          PROVE  /\ \A i \in DOMAIN rows' : 0 < rows'[i].seq /\ rows'[i].seq < identity'
                 /\ \A i, j \in DOMAIN rows' :
                      i < j /\ ~(rows'[i].old /\ rows'[j].old /\ rows'[i].tick = rows'[j].tick)
                        => rows'[i].seq < rows'[j].seq
      <3>1. "identity" \in db.made /\ Numbered /\ e # "sqlite" /\ identity > 0 /\ identity' = identity + 1
        BY <1>5, <2>1, <2>4 DEF Numbered
      <3>2. r.seq = identity
        BY <1>6, <3>1
      <3>3. /\ \A i \in DOMAIN rows : 0 < rows[i].seq /\ rows[i].seq < identity
            /\ \A i, j \in DOMAIN rows :
                 i < j /\ ~(rows[i].old /\ rows[j].old /\ rows[i].tick = rows[j].tick)
                   => rows[i].seq < rows[j].seq
        BY <1>1, <3>1 DEF RowsNumbered
      <3>4. \A i \in DOMAIN rows' : 0 < rows'[i].seq /\ rows'[i].seq < identity'
        BY <1>2, <1>10, <3>1, <3>2, <3>3
      <3>5. ASSUME NEW i \in DOMAIN rows', NEW j \in DOMAIN rows', i < j,
                   ~(rows'[i].old /\ rows'[j].old /\ rows'[i].tick = rows'[j].tick)
            PROVE  rows'[i].seq < rows'[j].seq
        <4>1. CASE j \in DOMAIN rows
          <5>1. i \in DOMAIN rows
            BY <1>10, <1>b, <3>5, <4>1
          <5> QED
            BY <1>10, <3>3, <3>5, <4>1, <5>1
        <4>2. CASE j = n
          <5>1. i \in DOMAIN rows
            BY <1>10, <1>c, <3>5, <4>2
          <5> QED
            BY <1>10, <3>2, <3>3, <4>2, <5>1
        <4> QED
          BY <1>10, <4>1, <4>2
      <3> QED
        BY <3>4, <3>5
    <2> QED
      BY <2>2, <2>3, <2>4 DEF RowsNumbered
  <1>13. LogBehindShape' /\ MigTypeOK' /\ StartersFit'
    <2>1. \A x : StarterFits(x)' <=> StarterFits(x)
      BY <1>5 DEF StarterFits, Follows
    <2> QED
      BY <1>1, <1>5, <1>10, <1>12, <2>1 DEF LogBehindShape, MigTypeOK, StartersFit, StarterFits, Follows
  <1>14. EmptyOrWhole'
    <2>1. CASE old
      <3>1. origin.tables = Expected
        BY <2>1 DEF Insert
      <3> QED
        BY <1>5, <3>1, DatabasesAssumption DEF EmptyOrWhole
    <2>2. CASE ~old
      <3>1. PICK s \in Starters : starter[s].pc = "ready"
        BY <2>2 DEF Insert
      <3>2. schema_ddl(origin.engine) \subseteq db.made
        BY <3>1, ReadyIsWhole
      <3> QED
        BY <1>5, <3>2 DEF EmptyOrWhole
    <2> QED
      BY <2>1, <2>2
  <1> QED
    BY <1>11, <1>12, <1>13, <1>14 DEF HealthyInv

LEMMA RowDeleted ==
    ASSUME HealthyInv, Delete PROVE HealthyInv'
  <1>1. MigTypeOK /\ LogBehindShape /\ EmptyOrWhole /\ RowsInOrder /\ RowsNumbered /\ StartersFit
    BY DEF HealthyInv
  <1>2. /\ Len(rows) \in Nat /\ DOMAIN rows = 1..Len(rows) /\ rows \in Seq(NumberedRow)
        /\ \A i \in DOMAIN rows : rows[i] \in NumberedRow
    BY <1>1, RowsAreTyped DEF MigTypeOK
  <1>3. PICK d \in DOMAIN rows :
          rows' = [k \in 1..(Len(rows) - 1) |-> IF k < d THEN rows[k] ELSE rows[k + 1]]
    BY DEF Delete
  <1>4. UNCHANGED <<origin, db, identity, starter>> /\ Numbered' = Numbered
    BY DEF Delete, Numbered
  <1> DEFINE was(k) == IF k < d THEN k ELSE k + 1
  <1>5. DOMAIN rows' = 1..(Len(rows) - 1) /\ Len(rows) - 1 \in Nat
    BY <1>2, <1>3
  <1>6. /\ \A k \in DOMAIN rows' : was(k) \in DOMAIN rows /\ rows'[k] = rows[was(k)]
        /\ \A k, m \in DOMAIN rows' : k < m => was(k) < was(m)
    BY <1>2, <1>3, <1>5
  <1> HIDE DEF was
  <1>7. rows' \in Seq(NumberedRow)
    <2>1. \A k \in 1..(Len(rows) - 1) : rows'[k] \in NumberedRow
      BY <1>2, <1>5, <1>6
    <2>2. rows' \in [1..(Len(rows) - 1) -> NumberedRow]
      BY <1>3, <2>1
    <2> QED
      BY <1>5, <2>2
  <1>8. RowsInOrder'
    BY <1>1, <1>4, <1>6 DEF RowsInOrder
  <1>9. RowsNumbered'
    BY <1>1, <1>4, <1>6 DEF RowsNumbered
  <1>10. LogBehindShape' /\ MigTypeOK' /\ StartersFit'
    <2>1. \A x : StarterFits(x)' <=> StarterFits(x)
      BY <1>4 DEF StarterFits, Follows
    <2> QED
      BY <1>1, <1>4, <1>7, <2>1 DEF LogBehindShape, MigTypeOK, StartersFit, StarterFits, Follows
  <1>11. EmptyOrWhole'
    <2>1. PICK s \in Starters : starter[s].pc = "ready"
      BY DEF Delete
    <2>2. schema_ddl(origin.engine) \subseteq db.made
      BY <2>1, ReadyIsWhole
    <2> QED
      BY <1>4, <2>2 DEF EmptyOrWhole
  <1> QED
    BY <1>8, <1>9, <1>10, <1>11 DEF HealthyInv

-----------------------------------------------------------------------------
LEMMA HealthyStep ==
    ASSUME HealthyInv, Healthy, MigNext PROVE HealthyInv'
  <1>1. ASSUME NEW s \in Starters, Start(s) \/ StarterStep(s) \/ Contended(s) \/ Crash(s) PROVE HealthyInv'
    <2>1. CASE \/ Start(s) \/ Lock(s) \/ ReadVersions(s) \/ RefuseAnIncompleteShape(s) \/ PresentTables(s)
               \/ Contended(s) \/ Crash(s)
      BY <2>1, HealthyMoves
    <2>2. CASE CreateSchema(s)
      BY <2>2, SchemaCreated
    <2>3. CASE RecordVersions(s)
      BY <2>3, VersionsRecorded
    <2>4. CASE RunMigration(s)
      BY <2>4, MigrationRun
    <2> QED
      BY <1>1, <2>1, <2>2, <2>3, <2>4 DEF StarterStep
  <1>2. ASSUME NEW old \in BOOLEAN, Insert(old) PROVE HealthyInv'
    BY <1>2, RowInserted
  <1>3. CASE Delete
    BY <1>3, RowDeleted
  <1> QED
    BY <1>1, <1>2, <1>3 DEF MigNext

\* No step of a starter writes to a database no build left.
LEMMA RefusedStep ==
    ASSUME RefusedInv, ~Healthy, MigNext PROVE RefusedInv' /\ UNCHANGED <<origin, db, rows>>
  <1> DEFINE Pcs == {"off", "lock", "versions", "tables", "shape", "failed", "refused"}
             Knows(r) == /\ r.pc = "tables" => origin.log = {}
                         /\ r.pc = "shape" => /\ origin.log # {} /\ origin.log = 1..Cardinality(origin.log)
                                              /\ Cardinality(origin.log) <= SCHEMA_VERSION
             row(pc, todo) == [pc |-> pc, todo |-> todo]
  <1>1. /\ origin \in Databases /\ rows = <<>> /\ origin.rows = <<>>
        /\ starter \in [Starters -> [pc : Pcs, todo : Seq(Nat)]]
        /\ db.tables = origin.tables /\ db.hasLog = origin.hasLog /\ db.log = origin.log
        /\ \A s \in Starters : Knows(starter[s]) /\ starter[s].pc \in Pcs /\ starter[s].todo \in Seq(Nat)
    BY DEF RefusedInv
  <1>2. /\ origin.tables \subseteq Expected /\ Expected # {}
        /\ origin.log # {} => origin.hasLog /\ \E k \in origin.log : k \in Nat /\ origin.log \subseteq 1..k
    BY <1>1, FoundAs, DatabasesAssumption
  <1>3. ASSUME NEW s \in Starters, NEW r \in [pc : Pcs, todo : Seq(Nat)], Knows(r),
               starter' = [starter EXCEPT ![s] = r], UNCHANGED <<origin, db, rows>>
        PROVE  RefusedInv' /\ UNCHANGED <<origin, db, rows>>
    <2>1. /\ starter' \in [Starters -> [pc : Pcs, todo : Seq(Nat)]]
          /\ \A t \in Starters : starter'[t] = IF t = s THEN r ELSE starter[t]
      BY <1>1, <1>3
    <2>2. \A t \in Starters : Knows(starter'[t])
      BY <1>1, <1>3, <2>1
    <2> QED
      BY <1>3, <2>1, <2>2 DEF RefusedInv
  <1>4. <<>> \in Seq(Nat)
    OBVIOUS
  <1>5. \A pc \in Pcs \ {"tables", "shape"} :
          row(pc, <<>>) \in [pc : Pcs, todo : Seq(Nat)] /\ Knows(row(pc, <<>>))
    BY <1>4
  <1>r. ASSUME NEW s \in Starters, starter' = [starter EXCEPT ![s] = row("refused", <<>>)],
               UNCHANGED <<origin, db, rows>>
        PROVE  RefusedInv' /\ UNCHANGED <<origin, db, rows>>
    <2>1. row("refused", <<>>) \in [pc : Pcs, todo : Seq(Nat)] /\ Knows(row("refused", <<>>))
      BY <1>5
    <2> HIDE DEF row, Pcs, Knows
    <2> QED
      BY <1>3, <1>r, <2>1
  <1>6. ASSUME NEW s \in Starters, Start(s) \/ StarterStep(s) \/ Contended(s) \/ Crash(s)
        PROVE  RefusedInv' /\ UNCHANGED <<origin, db, rows>>
    <2>1. CASE Start(s) \/ Contended(s) \/ Crash(s)
      <3>1. UNCHANGED <<origin, db, rows>>
        BY <2>1 DEF Start, Contended, Crash
      <3>2. \E pc \in Pcs \ {"tables", "shape"} : starter' = [starter EXCEPT ![s] = row(pc, <<>>)]
        BY <2>1 DEF Start, Contended, Crash, Goto, Leave
      <3> QED
        BY <1>3, <1>5, <3>1, <3>2
    <2>2. CASE Lock(s)
      <3>1. starter' = [starter EXCEPT ![s].pc = "versions"] /\ UNCHANGED <<origin, db, rows>>
        BY <2>2 DEF Lock
      <3>2. starter[s] \in [pc : Pcs, todo : Seq(Nat)]
        BY <1>1
      <3>3. [starter[s] EXCEPT !.pc = "versions"] = row("versions", starter[s].todo)
        BY <3>2
      <3>4. starter' = [starter EXCEPT ![s] = row("versions", starter[s].todo)]
        BY <1>1, <3>1, <3>3
      <3>5. row("versions", starter[s].todo) \in [pc : Pcs, todo : Seq(Nat)] /\ Knows(row("versions", starter[s].todo))
        BY <1>1
      <3> QED
        BY <1>3, <3>1, <3>4, <3>5
    <2>3. CASE ReadVersions(s)
      <3>1. UNCHANGED <<origin, db, rows>>
        BY <2>3 DEF ReadVersions
      <3> DEFINE versions == IF db.hasLog THEN db.log ELSE {}
      <3>2. versions = origin.log
        BY <1>1, <1>2
      <3>3. CASE origin.log = {}
        <4>1. starter' = [starter EXCEPT ![s] = row("tables", <<>>)]
          BY <2>3, <3>2, <3>3 DEF ReadVersions, Goto, Leave
        <4>2. row("tables", <<>>) \in [pc : Pcs, todo : Seq(Nat)] /\ Knows(row("tables", <<>>))
          BY <1>4, <3>3
        <4> QED
          BY <1>3, <3>1, <4>1, <4>2
      <3>4. CASE origin.log # {}
        <4>1. PICK k \in origin.log : k \in Nat /\ origin.log \subseteq 1..k
          BY <1>2, <3>4
        <4>2. k \in 1..k /\ \A j \in origin.log : k >= j
          BY <4>1
        <4>3. Max(origin.log) = k
          <5>1. \A x \in origin.log : (\A j \in origin.log : x >= j) => x = k
            BY <4>1, <4>2
          <5> QED
            BY <4>2, <5>1 DEF Max
        <4>4. CASE k > SCHEMA_VERSION \/ NotContiguous(origin.log)
          <5>1. starter' = [starter EXCEPT ![s] = row("refused", <<>>)]
            <6>1. CASE k > SCHEMA_VERSION
              <7>1. ~(k <= SCHEMA_VERSION)
                BY <4>1, <6>1 DEF SCHEMA_VERSION
              <7> QED
                BY <2>3, <3>2, <3>4, <4>3, <6>1, <7>1 DEF ReadVersions, Goto, Leave
            <6>2. CASE k <= SCHEMA_VERSION
              <7>1. ~(k > SCHEMA_VERSION)
                BY <4>1, <6>2 DEF SCHEMA_VERSION
              <7> QED
                BY <2>3, <3>2, <3>4, <4>3, <4>4, <6>2, <7>1 DEF ReadVersions, Goto, Leave
            <6> QED
              BY <4>1, <6>1, <6>2 DEF SCHEMA_VERSION
          <5> QED
            BY <1>r, <3>1, <5>1
        <4>5. CASE k <= SCHEMA_VERSION /\ ~NotContiguous(origin.log)
          <5>1. ~(k > SCHEMA_VERSION)
            BY <4>1, <4>5 DEF SCHEMA_VERSION
          <5>2. starter' = [starter EXCEPT ![s] = row("shape", pending(k))]
            BY <2>3, <3>2, <3>4, <4>3, <4>5, <5>1 DEF ReadVersions, Goto, Leave
          <5>3. origin.log = 1..k /\ Cardinality(origin.log) = k
            <6>1. origin.log = 1..k
              BY <4>3, <4>5 DEF NotContiguous
            <6>2. 1 \in Int /\ k \in Int /\ k - 1 + 1 = k /\ ~(1 > k)
              BY <4>1, <4>2
            <6>3. Cardinality(1..k) = k
              BY <6>2, FS_Interval
            <6> QED
              BY <6>1, <6>3
          <5>4. k \in 1..SCHEMA_VERSION
            BY <4>1, <4>2, <4>5 DEF SCHEMA_VERSION
          <5>5. pending(k) \in Seq(Nat)
            BY <5>4, WhatIsPending
          <5>6. row("shape", pending(k)) \in [pc : Pcs, todo : Seq(Nat)] /\ Knows(row("shape", pending(k)))
            BY <3>4, <4>5, <5>3, <5>5
          <5> QED
            BY <1>3, <3>1, <5>2, <5>6
        <4> QED
          BY <4>1, <4>4, <4>5 DEF SCHEMA_VERSION
      <3> QED
        BY <3>3, <3>4
    <2>4. CASE RefuseAnIncompleteShape(s)
      <3>1. /\ origin.log # {} /\ origin.log = 1..Cardinality(origin.log)
            /\ Cardinality(origin.log) <= SCHEMA_VERSION
        BY <1>1, <2>4 DEF RefuseAnIncompleteShape
      <3>2. ~(Expected \subseteq db.tables)
        BY <1>1, <1>2, <3>1 DEF Healthy, LeftByABuild
      <3>3. starter' = [starter EXCEPT ![s] = row("refused", <<>>)] /\ UNCHANGED <<origin, db, rows>>
        BY <2>4, <3>2 DEF RefuseAnIncompleteShape, Leave
      <3> QED
        BY <1>r, <3>3
    <2>5. CASE PresentTables(s)
      <3>1. origin.log = {}
        BY <1>1, <2>5 DEF PresentTables
      <3>2. Cardinality(origin.log) = 0 /\ 1..0 = {}
        BY <3>1, FS_EmptySet
      <3>3. origin.tables \notin {{}, Expected}
        BY <3>1, <3>2 DEF Healthy, LeftByABuild, SCHEMA_VERSION
      <3>4. db.tables \intersect Expected # {} /\ ~(Expected \subseteq db.tables)
        BY <1>1, <1>2, <3>3
      <3>5. Unversioned(db.tables) = "refused"
        BY <3>4 DEF Unversioned
      <3>6. starter' = [starter EXCEPT ![s] = row("refused", <<>>)] /\ UNCHANGED <<origin, db, rows>>
        BY <2>5, <3>5 DEF PresentTables, Leave
      <3> QED
        BY <1>r, <3>6
    <2>6. ~CreateSchema(s) /\ ~RecordVersions(s) /\ ~RunMigration(s)
      BY <1>1 DEF CreateSchema, RecordVersions, RunMigration
    <2> QED
      BY <1>6, <2>1, <2>2, <2>3, <2>4, <2>5, <2>6 DEF StarterStep
  <1>7. ASSUME NEW old \in BOOLEAN PROVE ~Insert(old)
    BY <1>1 DEF Insert
  <1>8. ~Delete
    BY <1>1 DEF Delete
  <1> QED
    BY <1>6, <1>7, <1>8 DEF MigNext

LEMMA MigStep ==
    ASSUME MigInv, [MigNext]_migVars
    PROVE  MigInv' /\ (~Healthy => UNCHANGED <<db, rows>>)
  <1>1. CASE UNCHANGED migVars
    <2>1. UNCHANGED <<origin, db, rows, identity, starter>>
      BY <1>1 DEF migVars
    <2>2. Healthy' <=> Healthy
      BY <2>1 DEF Healthy
    <2>3. RefusedInv => RefusedInv'
      BY <2>1 DEF RefusedInv
    <2>4. \A x : StarterFits(x)' <=> StarterFits(x)
      BY <2>1 DEF StarterFits, Follows
    <2>5. HealthyInv => HealthyInv'
      BY <2>1, <2>4 DEF HealthyInv, MigTypeOK, LogBehindShape, EmptyOrWhole, RowsInOrder, RowsNumbered,
                        StartersFit, Numbered, StarterFits, Follows
    <2> QED
      BY <2>1, <2>2, <2>3, <2>5 DEF MigInv
  <1>2. CASE MigNext
    <2>1. origin' = origin
      BY <1>2 DEF MigNext, StarterStep, Start, Lock, ReadVersions, RefuseAnIncompleteShape, PresentTables,
                  CreateSchema, RecordVersions, RunMigration, Contended, Crash, Insert, Delete
    <2>2. Healthy' <=> Healthy
      BY <2>1 DEF Healthy
    <2> QED
      BY <1>2, <2>2, HealthyStep, RefusedStep DEF MigInv
  <1> QED
    BY <1>1, <1>2

\* What the invariant says of the versions, the starters and the rows.
LEMMA MigConsequence ==
    ASSUME MigInv PROVE VersionTellsShape /\ HealthyStarts /\ ArrivalOrder
  <1> SUFFICES ASSUME Healthy PROVE VersionTellsShape /\ HealthyStarts /\ ArrivalOrder
    BY DEF VersionTellsShape, HealthyStarts, ArrivalOrder
  <1>1. HealthyInv
    BY DEF MigInv
  <1>2. MigTypeOK /\ LogBehindShape /\ RowsInOrder /\ RowsNumbered /\ StartersFit
    BY <1>1 DEF HealthyInv
  <1>3. VersionTellsShape
    BY <1>2 DEF VersionTellsShape, LogBehindShape, ShapeOf, StartersFit, StarterFits
  <1>4. HealthyStarts
    BY <1>2 DEF HealthyStarts, StartersFit, StarterFits
  <1>5. ArrivalOrder
    <2> SUFFICES ASSUME 2 \in db.log PROVE ArrivalOrder
      BY DEF ArrivalOrder
    <2>1. ShapeOf(origin.engine, 2) \subseteq db.made /\ origin.engine \in {"sqlite", "postgres"}
      BY <1>1, <1>2, HealthyEngine DEF LogBehindShape
    <2>2. \A i \in DOMAIN rows : rows[i].rowid \in Nat \ {0} /\ rows[i].seq \in Nat
      BY <1>2, RowsAreTyped
    <2>3. CASE origin.engine = "sqlite"
      <3>1. "trigger" \in db.made
        BY <2>1, <2>3, WhatVersionsLeave DEF ShapeOf
      <3>2. \A i \in DOMAIN rows : rows[i].seq = rows[i].rowid
        BY <1>2, <3>1 DEF RowsNumbered
      <3>3. \A i, j \in DOMAIN rows : i < j => rows[i].rowid < rows[j].rowid
        BY <1>2 DEF RowsInOrder
      <3> QED
        BY <2>2, <3>2, <3>3 DEF ArrivalOrder
    <2>4. CASE origin.engine = "postgres"
      <3>1. "identity" \in db.made
        BY <2>1, <2>4, WhatVersionsLeave DEF ShapeOf
      <3>2. /\ \A i \in DOMAIN rows : rows[i].seq > 0
            /\ \A i, j \in DOMAIN rows :
                 i < j /\ ~(rows[i].old /\ rows[j].old /\ rows[i].tick = rows[j].tick)
                   => rows[i].seq < rows[j].seq
        BY <1>2, <2>2, <3>1 DEF RowsNumbered
      <3> QED
        BY <2>4, <3>2 DEF ArrivalOrder
    <2> QED
      BY <2>1, <2>3, <2>4
  <1> QED
    BY <1>3, <1>4, <1>5

\* However many processes start on a database, of whatever version, side by side
\* or after crashes: versions never run ahead of the shape, nothing that a build
\* left is refused or breaks, rows keep the order they came in, and a database
\* no build left is not written to.
THEOREM SchemaIsSound == MigInit /\ [][MigNext]_migVars => SchemaSound
  <1>1. MigInit => MigInv
    BY HealthyStart, RefusedStart DEF MigInv
  <1>2. MigInv /\ [MigNext]_migVars => MigInv' /\ [~Healthy => UNCHANGED <<db, rows>>]_migVars
    BY MigStep
  <1>3. MigInv => VersionTellsShape /\ HealthyStarts /\ ArrivalOrder
    BY MigConsequence
  <1> QED
    BY <1>1, <1>2, <1>3, PTL DEF SchemaSound, RefusedIsUntouched
=============================================================================
