---------------------------- MODULE Marketplace ----------------------------
(* A package on its way from a registry into marketplace_packages: it is   *)
(* fetched over HTTP, unpacked, put through the installer's gates and      *)
(* recorded.  Packages are [name, version, files, hash, signed, key,       *)
(* signer, scan, perms]: hash is what the manifest says of the files, key  *)
(* the manifest's publisher key, signer the key that really signed.        *)
EXTENDS Integers, FiniteSets

CONSTANTS
    Installers,       \* installations, one package each
    Packages,         \* the packages a registry serves
    Keys,             \* publisher keys
    KeyIds,           \* ids under which keys are trusted
    Postures,         \* how an installer may be set up: [unverified, scanner, mode, secure]
    MarketGrants(_)   \* the permissions a mode grants

VARIABLES
    ipc,      \* [Installers -> where an installation stands]
    package,  \* [Installers -> the package fetched]
    posture,  \* [Installers -> Postures]
    state,    \* [Installers -> the signature state it has found]
    rows,     \* marketplace_packages: a set of [name, version, files, hash, state, by]
    trusted   \* marketplace_trusted_keys: [KeyIds -> a key or none]

marketVars == <<ipc, package, posture, state, rows, trusted>>

NoPackage == [name |-> "none"]

NoKey == "none"

(***************************************************************************)
(* HttpRegistry.fetch: what the response must be to become a package       *)
(***************************************************************************)
Responses ==
    {"unreachable", "error status", "too large", "empty", "not a zip", "no manifest",
     "unsafe path", "bad manifest", "package"}
_require_success(r) == r \notin {"unreachable", "error status"}
_require_body(r) == r \notin {"too large", "empty"}
_unpack(r) == r \notin {"not a zip", "no manifest", "unsafe path"}

from_json(r) == r # "bad manifest"

Fetchable(r) == _require_success(r) /\ _require_body(r) /\ _unpack(r) /\ from_json(r)

Move(i, where) == ipc' = [ipc EXCEPT ![i] = where]

Fetch(i) ==
    /\ ipc[i] = "start"
    /\ \E r \in Responses :
         IF Fetchable(r)
         THEN \E p \in Packages : package' = [package EXCEPT ![i] = p] /\ Move(i, "signature")
         ELSE Move(i, "rejected") /\ UNCHANGED package
    /\ UNCHANGED <<posture, state, rows, trusted>>

(***************************************************************************)
(* PackageInstaller.install: five gates                                    *)
(***************************************************************************)
(* The signature covers name, version, permissions and hash.               *)
verify(p) == p.signed /\ p.signer = p.key
_is_trusted_key(k) == \E n \in KeyIds : trusted[n] = k

SignatureState(i) ==
    LET p == package[i]
    IN  CASE ~p.signed -> "unverified"
          [] p.signed /\ ~posture[i].secure -> "unverified"
          [] p.signed /\ posture[i].secure /\ ~verify(p) -> "invalid"
          [] p.signed /\ posture[i].secure /\ verify(p) ->
               IF _is_trusted_key(p.key) THEN "valid" ELSE "untrusted_key"
_gate_signature(i, found) == found = "valid" \/ (posture[i].unverified /\ found # "invalid")

GateSignature(i) ==
    /\ ipc[i] = "signature"
    /\ LET found == SignatureState(i)
       IN  /\ state' = [state EXCEPT ![i] = found]
           /\ Move(i, IF _gate_signature(i, found) THEN "content" ELSE "refused")
    /\ UNCHANGED <<package, posture, rows, trusted>>

verify_content_hash_Skip(p) == TRUE

verify_content_hash(p) == p.hash = p.files
_gate_ast(i) == posture[i].scanner => package[i].scan = "clean"
_gate_permissions(i) == package[i].perms \subseteq MarketGrants(posture[i].mode)

(* Hash, scan and permissions run without an await; then the smoke test    *)
(* waits for the sandbox's health, and passes whatever the answer is.      *)
GateContent(i) ==
    /\ ipc[i] = "content"
    /\ Move(i, IF verify_content_hash(package[i]) /\ _gate_ast(i) /\ _gate_permissions(i)
               THEN "smoke" ELSE "refused")
    /\ UNCHANGED <<package, posture, state, rows, trusted>>

GateSmoke(i) ==
    /\ ipc[i] = "smoke"
    /\ Move(i, "register")
    /\ UNCHANGED <<package, posture, state, rows, trusted>>

(* _register(): a row of the same name and version keeps its manifest and  *)
(* content hash and takes the new signature state.                         *)
SameRelease(r, p) == r.name = p.name /\ r.version = p.version

RegisterPackage(i) ==
    LET p == package[i]
    IN  /\ ipc[i] = "register"
        /\ rows' = IF \E r \in rows : SameRelease(r, p)
                   THEN {IF SameRelease(r, p) THEN [r EXCEPT !.state = state[i]] ELSE r : r \in rows}
                   ELSE rows \union {[name |-> p.name, version |-> p.version, files |-> p.files,
                                      hash |-> p.hash, perms |-> p.perms, scan |-> p.scan,
                                      state |-> state[i], by |-> i]}
        /\ Move(i, "installed")
        /\ UNCHANGED <<package, posture, state, trusted>>

Uninstall ==
    \E r \in rows :
        /\ rows' = rows \ {r}
        /\ UNCHANGED <<ipc, package, posture, state, trusted>>

(* trust_key(): upserts by key id, so a new key under an id replaces the   *)
(* old one.                                                                *)
TrustKey(n, k) ==
    /\ trusted' = [trusted EXCEPT ![n] = k]
    /\ UNCHANGED <<ipc, package, posture, state, rows>>

MarketInit ==
    /\ ipc = [i \in Installers |-> "start"]
    /\ package = [i \in Installers |-> NoPackage]
    /\ posture \in [Installers -> Postures]
    /\ state = [i \in Installers |-> "unverified"]
    /\ rows = {}
    /\ trusted = [n \in KeyIds |-> NoKey]

MarketNext ==
    \/ \E i \in Installers :
         Fetch(i) \/ GateSignature(i) \/ GateContent(i) \/ GateSmoke(i) \/ RegisterPackage(i)
    \/ Uninstall
    \/ \E n \in KeyIds, k \in Keys : TrustKey(n, k)

(* Every row describes files that match their signed hash, that the        *)
(* scanner of the installer that wrote it passed and whose permissions its *)
(* mode grants; a package that failed a gate leaves no row, whatever other *)
(* installations of the same release do meanwhile.                         *)
InstalledIsVetted ==
    \A r \in rows :
        /\ r.hash = r.files
        /\ posture[r.by].scanner => r.scan = "clean"
        /\ r.perms \subseteq MarketGrants(posture[r.by].mode)
        /\ r.state # "invalid"
        /\ ipc[r.by] = "installed"
=============================================================================
