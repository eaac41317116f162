------------------------------ MODULE BlobStore ------------------------------
(***************************************************************************)
(* The cold lake's objects: the content-addressed store on a filesystem    *)
(* (ContentAddressedStore) or on an S3 server (S3BlobStore), and the       *)
(* artifact archive whose rows name blobs (ArtifactArchive).               *)
(*                                                                         *)
(* A payload is its digest.  A blob is stored compressed ("zst") or plain  *)
(* ("raw") under that digest.  A call is a process that makes one request  *)
(* of the substrate, or one statement of the database, per step.           *)
(***************************************************************************)
EXTENDS Naturals, FiniteSets

CONSTANTS Digests, Uris, Calls,
          Compressed, Uncompressed, \* the contents written with compress set, and without
          Substrates,  \* the substrates deployed: a subset of {"fs", "s3"}
          MaxCalls,    \* bound: calls started
          MaxBlobFaults    \* bound: crashes, lost buckets, rotten blobs, refusals

ASSUME BlobStoreAssumption ==
    /\ Substrates \subseteq {"fs", "s3"} /\ MaxCalls \in Nat /\ MaxBlobFaults \in Nat
    /\ Compressed \subseteq Digests /\ Uncompressed \subseteq Digests /\ "none" \notin Digests

VARIABLES
    substrate,  \* which of the two this deployment runs on
    bucket,     \* S3: the bucket is there
    blobs,      \* <<digest, form>> -> "none", "good" (whole) or "bad" (damaged)
    staging,    \* calls whose scratch file is in staging/
    dest,       \* restored host files: "none", or "good"
    references, \* cold_lake_artifacts_archive: virtual_uri -> digest
    call,       \* the calls
    started, faults,
    seen,       \* history: what was true at some moment of each call
    lost        \* history: digests deleted, dropped with the bucket, or rotten

vars == <<substrate, bucket, blobs, staging, dest, references, call, started, faults,
          seen, lost>>

Forms == {"zst", "raw"}

\* The forms that writers of a content ask for.  No caller in paa clears compress;
\* a content in both sets has writers that disagree.
WrittenAs(d) == (IF d \in Compressed THEN {"zst"} ELSE {}) \union
                (IF d \in Uncompressed THEN {"raw"} ELSE {})

Nothing == "none"

Stored(d) == {f \in Forms : bucket /\ blobs[<<d, f>>] # "none"}

NoCall == [pc |-> "idle", op |-> "none", d |-> Nothing, form |-> "zst",
           uri |-> Nothing, at |-> "zst", result |-> "none"]

-----------------------------------------------------------------------------
(* What an S3 answer means: the code decides, then the driver's class, then *)
(* the status.                                                              *)

Answer(code, class, status) == [code |-> code, class |-> class, status |-> status]

BareNotFound   == Answer("404", "none", 404)          \* what a HEAD gives

NoSuchKey      == Answer("NoSuchKey", "none", 404)

NoSuchBucket   == Answer("NoSuchBucket", "none", 404)

Refusal        == Answer("AccessDenied", "none", 403)

Timeout        == Answer("none", "unreachable", 0)

Overloaded     == Answer("none", "none", 503)

ByStatus(status) ==
    CASE status \in {401, 403}           -> "access_denied"
      [] status \in {500, 502, 503, 504} -> "unreachable"
      [] status = 404                    -> "not_found"
      [] OTHER                           -> "failure"

ByClass(a) ==
    CASE a.class = "refused"     -> "access_denied"
      [] a.class = "unreachable" -> "unreachable"
      [] OTHER                   -> ByStatus(a.status)

translate_s3_error(a) ==
    CASE a.code = "NoSuchBucket"         -> "no_bucket"
      [] a.code \in {"NoSuchKey", "404"} -> "not_found"
      [] a.code = "AccessDenied"         -> "access_denied"
      [] OTHER                           -> ByClass(a)

\* An absence whose answer does not say what is absent: blob or bucket.
Ambiguous(a) == a.code = "404" \/ (a.code = "none" /\ a.status = 404)

\* _translate_failure asks head_bucket about an ambiguous absence.
translate_failure(a) ==
    IF Ambiguous(a) /\ ~bucket THEN "no_bucket" ELSE translate_s3_error(a)

\* What a request for something that is not there may be told: a server names
\* what is missing, or answers without a body.
Absences == {BareNotFound, IF bucket THEN NoSuchKey ELSE NoSuchBucket}

-----------------------------------------------------------------------------
(* Calls *)

SetCall(c, w) == call' = [call EXCEPT ![c] = w]

BlobGoto(c, pc) == SetCall(c, [call[c] EXCEPT !.pc = pc])

\* The call ends and its result stays to be looked at until the next call.
Finish(c, result) == SetCall(c, [call[c] EXCEPT !.pc = "idle", !.result = result])

store == <<substrate, bucket, blobs, dest, references, started, lost>>

StartCall(c, op, d, form, uri) ==
    /\ call[c].pc = "idle"
    /\ started < MaxCalls
    /\ started' = started + 1
    /\ SetCall(c, [NoCall EXCEPT !.pc = "locate", !.op = op, !.d = d,
                                 !.form = form, !.uri = uri])
    /\ UNCHANGED <<substrate, bucket, blobs, staging, dest, references, faults, lost>>

WhenFound(op) ==
    CASE op = "put"     -> "return"
      [] op = "archive" -> "lookup"
      [] op = "exists"  -> "return"
      [] op = "delete"  -> "unlink"
      [] OTHER          -> "read"

WhenMissing_NoProbe(op) ==
    CASE op \in {"put", "archive"} -> IF substrate = "fs" THEN "stage" ELSE "upload"
      [] OTHER                     -> "absent"

WhenMissing(op) ==
    CASE op \in {"put", "archive"} -> IF substrate = "fs" THEN "stage" ELSE "upload"
      [] OTHER                     -> IF substrate = "fs" THEN "absent" ELSE "probe"

\* _locate: the compressed name first, then the plain one; a HEAD of a missing
\* bucket looks like a HEAD of a missing object.
Locate(c) ==
    /\ call[c].pc = "locate"
    /\ IF call[c].at \in Stored(call[c].d)
       THEN BlobGoto(c, WhenFound(call[c].op))
       ELSE IF call[c].at = "zst"
       THEN SetCall(c, [call[c] EXCEPT !.at = "raw"])
       ELSE BlobGoto(c, WhenMissing(call[c].op))
    /\ UNCHANGED <<store, staging, faults>>

\* The substrate answers any request with a refusal or not at all.  S3 refuses
\* only what exists: a missing bucket is a 404, never a 403.
StoreFault(c) ==
    /\ substrate = "s3"
    /\ call[c].pc \in {"locate", "upload", "read", "unlink", "probe"}
    /\ faults < MaxBlobFaults
    /\ faults' = faults + 1
    /\ \E a \in {Refusal, Timeout, Overloaded} :
         /\ a = Refusal => bucket
         /\ IF call[c].pc = "probe" /\ translate_s3_error(a) = "access_denied"
            THEN BlobGoto(c, "absent")   \* a refused HeadBucket: the bucket is there
            ELSE Finish(c, translate_failure(a))
    /\ UNCHANGED <<store, staging>>

\* _require_namespace, after an absence.
Probe(c) ==
    /\ call[c].pc = "probe"
    /\ IF bucket THEN BlobGoto(c, "absent") ELSE Finish(c, "no_bucket")
    /\ UNCHANGED <<store, staging, faults>>

ReturnAbsent(c) ==
    /\ call[c].pc = "absent"
    /\ Finish(c, IF call[c].op \in {"exists", "delete"} THEN "absent" ELSE "not_found")
    /\ UNCHANGED <<store, staging, faults>>

Return(c) ==
    /\ call[c].pc = "return"
    /\ Finish(c, IF call[c].op = "exists" THEN "present" ELSE "ref")
    /\ UNCHANGED <<store, staging, faults>>

AfterWrite(op) == IF op = "archive" THEN "lookup" ELSE "return"

Target(c) == <<call[c].d, call[c].form>>

\* _commit: a scratch file first ...
Stage(c) ==
    /\ call[c].pc = "stage"
    /\ staging' = staging \union {c}
    /\ BlobGoto(c, "replace")
    /\ UNCHANGED <<store, faults>>

\* ... then os.replace.  A scratch file that clear_staging took is a
\* FileNotFoundError, translated like any other.
Replace(c) ==
    /\ call[c].pc = "replace"
    /\ IF c \in staging
       THEN /\ blobs' = [blobs EXCEPT ![Target(c)] = "good"]
            /\ lost' = lost \ {call[c].d}
            /\ BlobGoto(c, AfterWrite(call[c].op))
       ELSE /\ Finish(c, "not_found")
            /\ UNCHANGED <<blobs, lost>>
    /\ staging' = staging \ {c}
    /\ UNCHANGED <<substrate, bucket, dest, references, started, faults>>

\* put_object / upload_fileobj: the object appears whole or not at all.
Upload(c) ==
    /\ call[c].pc = "upload"
    /\ IF bucket
       THEN /\ blobs' = [blobs EXCEPT ![Target(c)] = "good"]
            /\ lost' = lost \ {call[c].d}
            /\ BlobGoto(c, AfterWrite(call[c].op))
       ELSE /\ \E a \in Absences : Finish(c, translate_failure(a))
            /\ UNCHANGED <<blobs, lost>>
    /\ UNCHANGED <<substrate, bucket, staging, dest, references, started, faults>>

\* get: the whole payload is hashed before any of it is returned.
ReadResults(c) ==
    LET blob == blobs[<<call[c].d, call[c].at>>] IN
    IF ~bucket \/ blob = "none" THEN {translate_failure(a) : a \in Absences}
    ELSE IF blob = "bad" THEN {"corrupt"} ELSE {"bytes"}

Read(c) ==
    /\ call[c].pc = "read" /\ call[c].op = "get"
    /\ \E result \in ReadResults(c) : Finish(c, result)
    /\ UNCHANGED <<store, staging, faults>>

\* export_to_file streams chunks that are verified only at the end, so it
\* streams them to a scratch file and replaces the destination last.
Export(c) ==
    \E result \in ReadResults(c) :
        /\ dest' = IF result = "bytes" THEN [dest EXCEPT ![call[c].d] = "good"] ELSE dest
        /\ Finish(c, result)

Restore(c) ==
    /\ call[c].pc = "read" /\ call[c].op = "restore"
    /\ Export(c)
    /\ UNCHANGED <<substrate, bucket, blobs, staging, references, started, faults, lost>>

\* delete: the form that was located.  S3 deletes are idempotent; unlinking a
\* file that has gone is an error.
Unlink(c) ==
    /\ call[c].pc = "unlink"
    /\ LET here == <<call[c].d, call[c].at>> IN
       IF bucket /\ blobs[here] # "none"
       THEN /\ blobs' = [blobs EXCEPT ![here] = "none"]
            /\ lost' = lost \union {call[c].d}
            /\ Finish(c, "deleted")
       ELSE /\ \E a \in Absences :
                  Finish(c, IF substrate = "fs" THEN "not_found"
                            ELSE IF bucket THEN "deleted" ELSE translate_failure(a))
            /\ UNCHANGED <<blobs, lost>>
    /\ UNCHANGED <<substrate, bucket, staging, dest, references, started, faults>>

-----------------------------------------------------------------------------
(* ArtifactArchive.archive, after the blob is in the store *)

\* The incumbent of the uri, or the racer that took it, is the answer only if
\* it names the same content.
Agree(row, d) == row = d

LookupUri(c) ==
    /\ call[c].pc = "lookup"
    /\ LET row == references[call[c].uri] IN
       IF row = Nothing THEN BlobGoto(c, "insert")
       ELSE Finish(c, IF Agree(row, call[c].d) THEN "artifact" ELSE "rejected")
    /\ UNCHANGED <<store, staging, faults>>

InsertRow(c) ==
    /\ call[c].pc = "insert"
    /\ IF references[call[c].uri] = Nothing
       THEN /\ references' = [references EXCEPT ![call[c].uri] = call[c].d]
            /\ Finish(c, "artifact")
       ELSE /\ Finish(c, IF Agree(references[call[c].uri], call[c].d)
                         THEN "artifact" ELSE "rejected")
            /\ UNCHANGED references
    /\ UNCHANGED <<substrate, bucket, blobs, staging, dest, started, faults, lost>>

-----------------------------------------------------------------------------
(* The world around the calls *)

\* The process dies; its scratch file stays behind.
BlobCrash(c) ==
    /\ call[c].pc # "idle"
    /\ faults < MaxBlobFaults
    /\ faults' = faults + 1
    /\ call' = [call EXCEPT ![c] = NoCall]
    /\ UNCHANGED <<store, staging>>

\* clear_staging removes what crashed writers left, and what live ones wrote.
ClearStaging ==
    /\ staging # {}
    /\ staging' = {}
    /\ UNCHANGED <<store, call, faults>>

Rot(d, f) ==
    /\ faults < MaxBlobFaults /\ blobs[<<d, f>>] = "good"
    /\ faults' = faults + 1
    /\ blobs' = [blobs EXCEPT ![<<d, f>>] = "bad"]
    /\ lost' = lost \union {d}
    /\ UNCHANGED <<substrate, bucket, staging, dest, references, call, started>>

DropBucket ==
    /\ substrate = "s3" /\ bucket /\ faults < MaxBlobFaults
    /\ faults' = faults + 1
    /\ bucket' = FALSE
    /\ blobs' = [b \in DOMAIN blobs |-> "none"]
    /\ lost' = Digests
    /\ UNCHANGED <<substrate, staging, dest, references, call, started>>

\* A new store object is built with ensure_bucket.
EnsureBucket ==
    /\ substrate = "s3" /\ ~bucket
    /\ bucket' = TRUE
    /\ UNCHANGED <<substrate, blobs, staging, dest, references, call, started, faults,
                   lost>>

-----------------------------------------------------------------------------
Init ==
    /\ substrate \in Substrates
    /\ bucket = TRUE
    /\ blobs = [b \in Digests \X Forms |-> "none"]
    /\ staging = {} /\ started = 0 /\ faults = 0 /\ lost = {}
    /\ dest = [d \in Digests |-> "none"]
    /\ references = [u \in Uris |-> Nothing]
    /\ call = [c \in Calls |-> NoCall]
    /\ seen = [c \in Calls |-> {}]

Step(c) ==
    \/ Locate(c) \/ StoreFault(c) \/ Probe(c) \/ ReturnAbsent(c) \/ Return(c)
    \/ Stage(c) \/ Replace(c) \/ Upload(c) \/ Read(c) \/ Restore(c)
    \/ Unlink(c) \/ LookupUri(c) \/ InsertRow(c)

Now(c) ==
    (IF bucket THEN {"bucket"} ELSE {"no bucket"}) \union
    (IF Stored(call[c].d) = {} THEN {"no blob"} ELSE {})

Watch ==
    seen' = [c \in Calls |->
               IF call'[c].pc = "idle" THEN seen[c]
               ELSE (IF call[c].pc = "idle" THEN {} ELSE seen[c]) \union Now(c)']

Next ==
    /\ \/ \E c \in Calls, d \in Digests :
            \/ \E f \in WrittenAs(d) : StartCall(c, "put", d, f, Nothing)
            \/ \E op \in {"exists", "get", "restore", "delete"} :
                 StartCall(c, op, d, "zst", Nothing)
            \/ \E f \in WrittenAs(d), u \in Uris : StartCall(c, "archive", d, f, u)
       \/ \E c \in Calls : Step(c) \/ BlobCrash(c)
       \/ ClearStaging
       \/ \E d \in Digests, f \in Forms : Rot(d, f)
       \/ DropBucket \/ EnsureBucket
    /\ Watch

Spec == Init /\ [][Next]_vars

-----------------------------------------------------------------------------
\* Every artifact row names a blob that is stored whole, unless someone deleted
\* it, the bucket went or the disk rotted: a row is never the first trace of an
\* archive call, and a crashed write is never taken for a stored blob.
ArchivedIsRetrievable ==
    \A u \in Uris : references[u] # Nothing /\ references[u] \notin lost =>
        \E f \in Forms : blobs[<<references[u], f>>] = "good"

\* "The store cannot answer" and "the blob is not there" are never confused: an
\* absence is reported only by a call during which the blob was in fact absent
\* and the namespace there, and a missing namespace only when it was missing.
\* It takes writers that agree: of a content kept in both forms a reader may look
\* for each form while only the other is there.
AnswersAreTrue ==
    \A c \in Calls :
        /\ call[c].result \in {"absent", "not_found"} =>
               {"bucket", "no blob"} \subseteq seen[c]
        /\ call[c].result = "no_bucket" => "no bucket" \in seen[c]

\* A file restored from the archive is whole and verified, or was never there.
RestoredIsWhole == \A d \in Digests : dest[d] \in {"none", "good"}

\* archive() hands back an artifact only if its virtual uri names the content
\* just archived, whichever of two racing calls inserted the row.
ArtifactNamesContent ==
    \A c \in Calls : call[c].result = "artifact" => references[call[c].uri] = call[c].d

\* What the store says of a blob is so, and what it keeps can be had back,
\* whatever calls race and wherever one of them dies.
ArchiveSound ==
    ArchivedIsRetrievable /\ AnswersAreTrue /\ RestoredIsWhole /\ ArtifactNamesContent
=============================================================================
