--------------------------- MODULE ServicesProofs ---------------------------
(***************************************************************************)
(* Proofs about the services round the agents: skills and secrets, the     *)
(* marketplace, the life of the server, the MCP client, the database       *)
(* connections, the model router.                                          *)
(***************************************************************************)
EXTENDS ModelRouter, Skills, Marketplace, Lifecycle, McpClient, Connections, FiniteSetTheorems, TLAPS

-----------------------------------------------------------------------------
(* Skills: the registry and its dispatchers beside the secret broker *)

SkillSpec == SkillInit /\ [][DispatchNext \/ BrokerNext]_skillVars

SkillRows ==
    [version : {k.version : k \in Contracts}, contract : Contracts, active : BOOLEAN,
     weight : 0 .. FullWeight]

DispatchStates ==
    {"idle", "unknown skill", "bad arguments", "denied", "no adapter", "no sandbox", "invoking",
     "ok", "failed", "done"}

SkillType ==
    /\ row = NoRow \/ row \in SkillRows
    /\ dpc \in [Dispatchers -> DispatchStates]
    /\ contract \in [Dispatchers -> Contracts \union {NoRow}]
    /\ executed \subseteq Dispatchers \X (Contracts \union {NoRow})
    /\ mode \in [Dispatchers -> Modes]

\* Between the check and the run a dispatcher holds a contract whose permissions
\* its mode grants.
InvokesChecked ==
    \A c \in Dispatchers : dpc[c] = "invoking" =>
        required_permissions(contract[c]) \subseteq Granted(mode[c])

SecretType ==
    /\ memory \in [SecretNames -> SecretValues \union {NoSecret}]
    /\ disk \in [SecretNames -> SecretValues \union {NoSecret}]
    /\ wanted \in [SecretNames -> SUBSET (SecretValues \union {NoSecret})]

\* Whatever a flush may write next is accounted for as well as what the file
\* holds now.
FlushIsWanted == \A n \in SecretNames : memory[n] \in wanted[n]

RegistryInv == SkillType /\ InvokesChecked /\ CheckedIsRun
SecretsInv == SecretType /\ FlushIsWanted /\ SecretsSurvive
SkillInv == RegistryInv /\ SecretsInv

LEMMA SkillInitially == SkillInit => SkillInv
  <1> SUFFICES ASSUME SkillInit PROVE SkillInv
    OBVIOUS
  <1>1. SkillType
    BY DEF SkillInit, SkillType, DispatchStates
  <1>2. InvokesChecked /\ CheckedIsRun
    BY DEF SkillInit, InvokesChecked, CheckedIsRun
  <1>3. SecretsInv
    BY DEF SkillInit, SecretsInv, SecretType, FlushIsWanted, SecretsSurvive
  <1> QED
    BY <1>1, <1>2, <1>3 DEF SkillInv, RegistryInv

\* The clamp keeps the reliability weight in its range.
LEMMA ClampBounds ==
    ASSUME NEW w \in Int PROVE Clamp(w) \in 0 .. FullWeight
  BY WeightAssumption DEF Clamp

LEMMA ReliabilityKeepsRow ==
    ASSUME row = NoRow \/ row \in SkillRows, NEW delta \in Int, UpdateReliability(delta)
    PROVE  row' = NoRow \/ row' \in SkillRows
  <1>1. CASE row = NoRow
    BY <1>1 DEF UpdateReliability
  <1>2. CASE row # NoRow
    <2>1. row \in SkillRows /\ row.weight + delta \in Int
      BY <1>2, WeightAssumption DEF SkillRows
    <2>2. row' = [row EXCEPT !.weight = Clamp(row.weight + delta)]
      BY <1>2 DEF UpdateReliability
    <2> QED
      BY <2>1, <2>2, ClampBounds DEF SkillRows
  <1> QED
    BY <1>1, <1>2

LEMMA RegistrySteps == RegistryInv /\ DispatchNext => RegistryInv'
  <1> SUFFICES ASSUME RegistryInv, DispatchNext PROVE RegistryInv'
    OBVIOUS
  <1> USE DEF RegistryInv
  <1>1. ASSUME NEW k \in Contracts, Register(k)
        PROVE  RegistryInv'
    <2>1. CASE row # NoRow /\ row.version = k.version
      <3>1. row \in SkillRows /\ row' = [row EXCEPT !.active = TRUE]
        BY <1>1, <2>1 DEF Register, SkillType
      <3>2. row' \in SkillRows
        BY <3>1 DEF SkillRows
      <3> QED
        BY <1>1, <3>2 DEF Register, SkillType, InvokesChecked, CheckedIsRun
    <2>2. CASE ~(row # NoRow /\ row.version = k.version)
      <3>1. row' = [version |-> k.version, contract |-> k, active |-> TRUE, weight |-> FullWeight]
        BY <1>1, <2>2 DEF Register
      <3>2. row' \in SkillRows
        BY <3>1, WeightAssumption DEF SkillRows
      <3> QED
        BY <1>1, <3>2 DEF Register, SkillType, InvokesChecked, CheckedIsRun
    <2> QED
      BY <2>1, <2>2
  <1>2. CASE Deactivate
    <2>1. row' = NoRow \/ row' \in SkillRows
      BY <1>2 DEF Deactivate, SkillType, SkillRows
    <2> QED
      BY <1>2, <2>1 DEF Deactivate, SkillType, InvokesChecked, CheckedIsRun
  <1>3. ASSUME NEW c \in Dispatchers, Dispatch(c)
        PROVE  RegistryInv'
    <2>1. CASE row = NoRow \/ ~row.active
      BY <1>3, <2>1 DEF Dispatch, DispatchStates, SkillType, InvokesChecked, CheckedIsRun
    <2>2. CASE ~(row = NoRow \/ ~row.active)
      <3>1. /\ contract' = [contract EXCEPT ![c] = row.contract]
            /\ UNCHANGED <<row, mode, executed>>
            /\ row.contract \in Contracts
        BY <1>3, <2>2 DEF Dispatch, SkillType, SkillRows
      <3>2. /\ contract'[c] = row.contract
            /\ contract' \in [Dispatchers -> Contracts \union {NoRow}]
            /\ \A d \in Dispatchers : d # c => contract'[d] = contract[d]
        BY <3>1 DEF SkillType
      <3>3. PICK next \in DispatchStates :
              /\ dpc' = [dpc EXCEPT ![c] = next]
              /\ next = "invoking" => Refusal(c) = "none"
        <4>1. CASE dpc' = [dpc EXCEPT ![c] = "bad arguments"]
          BY <4>1 DEF DispatchStates
        <4>2. CASE dpc' = [dpc EXCEPT ![c] = IF Refusal(c) = "none" THEN "invoking" ELSE Refusal(c)]
          <5>1. Refusal(c) \in {"denied", "no adapter", "no sandbox", "none"}
            BY DEF Refusal
          <5> QED
            BY <4>2, <5>1 DEF DispatchStates
        <4> QED
          BY <1>3, <2>2, <4>1, <4>2 DEF Dispatch
      <3>4. Refusal(c) = "none" => missing_permissions(contract'[c], mode[c]) = {}
        BY DEF Refusal
      <3>5. next = "invoking" => required_permissions(contract'[c]) \subseteq Granted(mode[c])
        BY <3>3, <3>4 DEF missing_permissions
      <3>6. InvokesChecked'
        BY <3>1, <3>2, <3>3, <3>5 DEF InvokesChecked, SkillType
      <3> QED
        BY <3>1, <3>2, <3>3, <3>6 DEF SkillType, CheckedIsRun
    <2> QED
      BY <2>1, <2>2
  <1>4. ASSUME NEW c \in Dispatchers, InvokeSkill(c)
        PROVE  RegistryInv'
    <2>1. PICK result \in {"ok", "failed"} : dpc' = [dpc EXCEPT ![c] = result]
      BY <1>4 DEF InvokeSkill
    <2>2. executed' = executed \union {<<c, contract[c]>>} /\ UNCHANGED <<row, contract, mode>>
      BY <1>4 DEF InvokeSkill, Invoked
    <2>3. required_permissions(contract[c]) \subseteq Granted(mode[c])
      BY <1>4 DEF InvokeSkill, InvokesChecked
    <2>4. CheckedIsRun'
      BY <2>2, <2>3 DEF CheckedIsRun
    <2>5. InvokesChecked'
      BY <2>1, <2>2 DEF InvokesChecked, SkillType
    <2>6. executed' \subseteq Dispatchers \X (Contracts \union {NoRow})
      BY <2>2 DEF SkillType
    <2>7. dpc' \in [Dispatchers -> DispatchStates]
      BY <2>1 DEF SkillType, DispatchStates
    <2> QED
      BY <2>2, <2>4, <2>5, <2>6, <2>7 DEF SkillType
  <1>5. ASSUME NEW c \in Dispatchers, Finalise(c)
        PROVE  RegistryInv'
    <2>1. WeightUp \in Int /\ -WeightDown \in Int
      BY WeightAssumption
    <2>2. row' = NoRow \/ row' \in SkillRows
      BY <1>5, <2>1, ReliabilityKeepsRow DEF Finalise, SkillType
    <2> QED
      BY <1>5, <2>2 DEF Finalise, SkillType, DispatchStates, InvokesChecked, CheckedIsRun
  <1> QED
    BY <1>1, <1>2, <1>3, <1>4, <1>5 DEF DispatchNext

\* One put or delete, wherever the flush stops.
LEMMA StoreIsWanted ==
    ASSUME SecretsInv, NEW n \in SecretNames, NEW v \in SecretValues \union {NoSecret}, Store(n, v)
    PROVE  SecretsInv'
  <1> DEFINE entries == [memory EXCEPT ![n] = v]
  <1>1. PICK out \in FlushOutcomes(entries) :
          /\ disk' = out.file
          /\ memory' = entries
          /\ wanted' = IF out.end = "returned" THEN [k \in SecretNames |-> {entries[k]}]
                       ELSE [wanted EXCEPT ![n] = @ \union {v}]
    BY DEF Store
  <1>2. /\ entries \in [SecretNames -> SecretValues \union {NoSecret}]
        /\ entries[n] = v
        /\ \A k \in SecretNames : k # n => entries[k] = memory[k]
    BY DEF SecretsInv, SecretType
  <1>3. out.file = entries \/ (out.file = disk /\ out.end # "returned")
    BY DEF FlushOutcomes
  <1> HIDE DEF entries
  <1>4. CASE out.end = "returned"
    BY <1>1, <1>2, <1>3, <1>4 DEF SecretsInv, SecretType, FlushIsWanted, SecretsSurvive
  <1>5. CASE out.end # "returned"
    BY <1>1, <1>2, <1>3, <1>5 DEF SecretsInv, SecretType, FlushIsWanted, SecretsSurvive
  <1> QED
    BY <1>4, <1>5

LEMMA SecretsSteps == SecretsInv /\ BrokerNext => SecretsInv'
  <1> SUFFICES ASSUME SecretsInv, BrokerNext PROVE SecretsInv'
    OBVIOUS
  <1>1. ASSUME NEW n \in SecretNames, DeleteSecret(n)
        PROVE  SecretsInv'
    BY <1>1, StoreIsWanted DEF DeleteSecret
  <1>2. ASSUME NEW n \in SecretNames, NEW v \in SecretValues, PutSecret(n, v)
        PROVE  SecretsInv'
    BY <1>2, StoreIsWanted DEF PutSecret
  <1>3. CASE KillBroker
    BY <1>3 DEF KillBroker, SecretsInv, SecretType, FlushIsWanted, SecretsSurvive
  <1>4. CASE RestartBroker
    BY <1>4 DEF RestartBroker, SecretsInv, SecretType, FlushIsWanted, SecretsSurvive
  <1> QED
    BY <1>1, <1>2, <1>3, <1>4 DEF BrokerNext

LEMMA RegistryFrame == RegistryInv /\ UNCHANGED regVars => RegistryInv'
  BY DEF regVars, RegistryInv, SkillType, InvokesChecked, CheckedIsRun

LEMMA SecretsFrame == SecretsInv /\ UNCHANGED secVars => SecretsInv'
  BY DEF secVars, SecretsInv, SecretType, FlushIsWanted, SecretsSurvive

\* The dispatchers leave the secrets alone, and the broker the registry.
LEMMA SkillsApart ==
    /\ DispatchNext => UNCHANGED secVars
    /\ BrokerNext => UNCHANGED regVars
  <1>1. DispatchNext => UNCHANGED secVars
    BY DEF DispatchNext, Register, Deactivate, Dispatch, InvokeSkill, Finalise, secVars
  <1>2. BrokerNext => UNCHANGED regVars
    BY DEF BrokerNext, DeleteSecret, PutSecret, KillBroker, RestartBroker, regVars
  <1> QED
    BY <1>1, <1>2

\* What runs is the contract whose permissions were checked, and a stored secret
\* survives a broker that fails or dies in a flush: for any contracts, modes,
\* dispatchers and secrets.
THEOREM SkillsAreSound == SkillSpec => []SkillsSound
  <1>1. SkillInv /\ [DispatchNext \/ BrokerNext]_skillVars => SkillInv'
    <2> SUFFICES ASSUME SkillInv, [DispatchNext \/ BrokerNext]_skillVars PROVE SkillInv'
      OBVIOUS
    <2>1. CASE DispatchNext
      BY <2>1, RegistrySteps, SecretsFrame, SkillsApart DEF SkillInv
    <2>2. CASE BrokerNext
      BY <2>2, SecretsSteps, RegistryFrame, SkillsApart DEF SkillInv
    <2>3. CASE UNCHANGED skillVars
      BY <2>3, RegistryFrame, SecretsFrame DEF SkillInv, skillVars, regVars, secVars
    <2> QED
      BY <2>1, <2>2, <2>3
  <1>2. SkillInv => SkillsSound
    BY DEF SkillInv, RegistryInv, SecretsInv, SkillsSound
  <1> QED
    BY <1>1, <1>2, SkillInitially, PTL DEF SkillSpec

-----------------------------------------------------------------------------
(* Marketplace: several installations against one table *)

MarketSpec == MarketInit /\ [][MarketNext]_marketVars

SignatureStates == {"unverified", "invalid", "valid", "untrusted_key"}

InstallStates ==
    {"start", "signature", "content", "smoke", "register", "installed", "rejected", "refused"}

MarketRows ==
    [name : {p.name : p \in Packages}, version : {p.version : p \in Packages},
     files : {p.files : p \in Packages}, hash : {p.hash : p \in Packages},
     perms : {p.perms : p \in Packages}, scan : {p.scan : p \in Packages},
     state : SignatureStates, by : Installers]

MarketType ==
    /\ ipc \in [Installers -> InstallStates]
    /\ package \in [Installers -> Packages \union {NoPackage}]
    /\ posture \in [Installers -> Postures]
    /\ state \in [Installers -> SignatureStates]
    /\ rows \subseteq MarketRows

PassedContent(i) ==
    verify_content_hash(package[i]) /\ _gate_ast(i) /\ _gate_permissions(i)

\* What an installation knows of its package at each gate it has passed.
GatesPassed ==
    \A i \in Installers :
        /\ ipc[i] \in {"signature", "content", "smoke", "register"} => package[i] \in Packages
        /\ ipc[i] \in {"content", "smoke", "register"} => state[i] # "invalid"
        /\ ipc[i] \in {"smoke", "register"} => PassedContent(i)

MarketInv == MarketType /\ GatesPassed /\ InstalledIsVetted

LEMMA MarketInitially == MarketInit => MarketInv
  <1> SUFFICES ASSUME MarketInit PROVE MarketInv
    OBVIOUS
  <1>1. MarketType
    BY DEF MarketInit, MarketType, InstallStates, SignatureStates
  <1>2. GatesPassed
    BY DEF MarketInit, GatesPassed
  <1>3. InstalledIsVetted
    BY DEF MarketInit, InstalledIsVetted
  <1> QED
    BY <1>1, <1>2, <1>3 DEF MarketInv

\* No row was written by an installation that is still under way.
LEMMA WritersAreDone ==
    ASSUME MarketInv, NEW r \in rows PROVE r.by \in Installers /\ ipc[r.by] = "installed"
  BY DEF MarketInv, MarketType, MarketRows, InstalledIsVetted

\* A step of an installation that is not installed keeps what the rows say.
LEMMA RowsKeep ==
    ASSUME MarketInv, NEW i \in Installers, ipc[i] # "installed", NEW where,
           Move(i, where), UNCHANGED <<rows, posture>>
    PROVE  InstalledIsVetted'
  <1> SUFFICES ASSUME NEW r \in rows
               PROVE  /\ r.hash = r.files
                      /\ posture[r.by].scanner => r.scan = "clean"
                      /\ r.perms \subseteq MarketGrants(posture[r.by].mode)
                      /\ r.state # "invalid"
                      /\ ipc'[r.by] = "installed"
    BY DEF InstalledIsVetted
  <1>1. r.by # i /\ r.by \in Installers /\ ipc'[r.by] = ipc[r.by]
    BY WritersAreDone DEF Move, MarketInv, MarketType
  <1> QED
    BY <1>1 DEF MarketInv, InstalledIsVetted

LEMMA RegisterKeepsRowsVetted ==
    ASSUME MarketInv, NEW i \in Installers, RegisterPackage(i)
    PROVE  rows' \subseteq MarketRows /\ InstalledIsVetted'
  <1> DEFINE p == package[i]
             new == [name |-> p.name, version |-> p.version, files |-> p.files, hash |-> p.hash,
                     perms |-> p.perms, scan |-> p.scan, state |-> state[i], by |-> i]
  <1>1. /\ ipc[i] = "register" /\ ipc' = [ipc EXCEPT ![i] = "installed"]
        /\ UNCHANGED <<package, posture, state, trusted>>
    BY DEF RegisterPackage, Move
  <1>2. p \in Packages /\ state[i] \in SignatureStates /\ state[i] # "invalid" /\ PassedContent(i)
    BY <1>1 DEF MarketInv, GatesPassed, MarketType
  <1>3. new \in MarketRows
    BY <1>2 DEF MarketRows
  <1>4. ASSUME NEW r \in rows
        PROVE  /\ [r EXCEPT !.state = state[i]] \in MarketRows
               /\ [r EXCEPT !.state = state[i]].hash = r.hash
               /\ [r EXCEPT !.state = state[i]].files = r.files
               /\ [r EXCEPT !.state = state[i]].perms = r.perms
               /\ [r EXCEPT !.state = state[i]].scan = r.scan
               /\ [r EXCEPT !.state = state[i]].by = r.by
               /\ [r EXCEPT !.state = state[i]].state = state[i]
    BY <1>2 DEF MarketInv, MarketType, MarketRows
  <1>5. ASSUME NEW r \in rows'
        PROVE  \/ r = new
               \/ \E q \in rows : r = q \/ r = [q EXCEPT !.state = state[i]]
    BY DEF RegisterPackage
  <1>6. \A r \in rows : ipc'[r.by] = "installed"
    BY <1>1, WritersAreDone DEF MarketInv, MarketType
  <1>7. ipc'[i] = "installed"
    BY <1>1 DEF MarketInv, MarketType
  <1> DEFINE Vetted(r) ==
        /\ r.hash = r.files
        /\ posture[r.by].scanner => r.scan = "clean"
        /\ r.perms \subseteq MarketGrants(posture[r.by].mode)
        /\ r.state # "invalid"
        /\ ipc'[r.by] = "installed"
  <1>8. Vetted(new)
    BY <1>2, <1>7 DEF PassedContent, verify_content_hash, _gate_ast, _gate_permissions
  <1>9. \A r \in rows : Vetted(r)
    BY <1>6 DEF MarketInv, InstalledIsVetted
  <1>10. \A r \in rows : Vetted([r EXCEPT !.state = state[i]])
    BY <1>2, <1>4, <1>9
  <1>11. \A r \in rows' : Vetted(r)
    <2> HIDE DEF Vetted, new
    <2> QED
      BY <1>5, <1>8, <1>9, <1>10
  <1>12. rows' \subseteq MarketRows
    <2> HIDE DEF new
    <2> QED
      BY <1>3, <1>4, <1>5 DEF MarketInv, MarketType
  <1>13. InstalledIsVetted'
    BY <1>1, <1>11 DEF InstalledIsVetted
  <1> QED
    BY <1>12, <1>13

LEMMA MarketSteps == MarketInv /\ [MarketNext]_marketVars => MarketInv'
  <1> SUFFICES ASSUME MarketInv, [MarketNext]_marketVars PROVE MarketInv'
    OBVIOUS
  <1>1. ASSUME NEW i \in Installers, Fetch(i)
        PROVE  MarketInv'
    <2>1. PICK where \in {"signature", "rejected"} :
            /\ Move(i, where)
            /\ package' \in [Installers -> Packages \union {NoPackage}]
            /\ where = "signature" => package'[i] \in Packages
            /\ \A j \in Installers : j # i => package'[j] = package[j]
      BY <1>1 DEF Fetch, MarketInv, MarketType
    <2>2. ipc[i] = "start" /\ UNCHANGED <<posture, state, rows, trusted>>
      BY <1>1 DEF Fetch
    <2>3. InstalledIsVetted'
      BY <2>1, <2>2, RowsKeep
    <2>4. MarketType'
      BY <2>1, <2>2 DEF Move, MarketInv, MarketType, InstallStates
    <2>5. GatesPassed'
      BY <2>1, <2>2 DEF Move, MarketInv, MarketType, GatesPassed, PassedContent,
         verify_content_hash, _gate_ast, _gate_permissions
    <2> QED
      BY <2>3, <2>4, <2>5 DEF MarketInv
  <1>2. ASSUME NEW i \in Installers, GateSignature(i)
        PROVE  MarketInv'
    <2> DEFINE found == SignatureState(i)
               where == IF _gate_signature(i, found) THEN "content" ELSE "refused"
    <2>1. /\ ipc[i] = "signature" /\ Move(i, where) /\ state' = [state EXCEPT ![i] = found]
          /\ UNCHANGED <<package, posture, rows, trusted>>
      BY <1>2 DEF GateSignature
    <2>2. found \in SignatureStates
      BY DEF SignatureState, SignatureStates
    <2>3. where \in {"content", "refused"} /\ (where = "content" => found # "invalid")
      BY DEF _gate_signature
    <2> HIDE DEF found, where
    <2>4. InstalledIsVetted'
      BY <2>1, RowsKeep
    <2>5. MarketType'
      BY <2>1, <2>2, <2>3 DEF Move, MarketInv, MarketType, InstallStates
    <2>6. GatesPassed'
      BY <2>1, <2>2, <2>3 DEF Move, MarketInv, MarketType, GatesPassed, PassedContent,
         verify_content_hash, _gate_ast, _gate_permissions
    <2> QED
      BY <2>4, <2>5, <2>6 DEF MarketInv
  <1>3. ASSUME NEW i \in Installers, GateContent(i)
        PROVE  MarketInv'
    <2> DEFINE where == IF PassedContent(i) THEN "smoke" ELSE "refused"
    <2>1. ipc[i] = "content" /\ Move(i, where) /\ UNCHANGED <<package, posture, state, rows, trusted>>
      BY <1>3 DEF GateContent, PassedContent
    <2>2. where \in {"smoke", "refused"} /\ (where = "smoke" => PassedContent(i))
      OBVIOUS
    <2> HIDE DEF where
    <2>3. InstalledIsVetted'
      BY <2>1, RowsKeep
    <2>4. MarketType'
      BY <2>1, <2>2 DEF Move, MarketInv, MarketType, InstallStates
    <2>5. GatesPassed'
      BY <2>1, <2>2 DEF Move, MarketInv, MarketType, GatesPassed, PassedContent,
         verify_content_hash, _gate_ast, _gate_permissions
    <2> QED
      BY <2>3, <2>4, <2>5 DEF MarketInv
  <1>4. ASSUME NEW i \in Installers, GateSmoke(i)
        PROVE  MarketInv'
    <2>1. ipc[i] = "smoke" /\ Move(i, "register") /\ UNCHANGED <<package, posture, state, rows, trusted>>
      BY <1>4 DEF GateSmoke
    <2>2. InstalledIsVetted'
      BY <2>1, RowsKeep
    <2>3. MarketType'
      BY <2>1 DEF Move, MarketInv, MarketType, InstallStates
    <2>4. GatesPassed'
      BY <2>1 DEF Move, MarketInv, MarketType, GatesPassed, PassedContent,
         verify_content_hash, _gate_ast, _gate_permissions
    <2> QED
      BY <2>2, <2>3, <2>4 DEF MarketInv
  <1>5. ASSUME NEW i \in Installers, RegisterPackage(i)
        PROVE  MarketInv'
    <2>1. Move(i, "installed") /\ UNCHANGED <<package, posture, state, trusted>>
      BY <1>5 DEF RegisterPackage
    <2>2. rows' \subseteq MarketRows /\ InstalledIsVetted'
      BY <1>5, RegisterKeepsRowsVetted
    <2>3. MarketType'
      BY <2>1, <2>2 DEF Move, MarketInv, MarketType, InstallStates
    <2>4. GatesPassed'
      BY <2>1 DEF Move, MarketInv, MarketType, GatesPassed, PassedContent,
         verify_content_hash, _gate_ast, _gate_permissions
    <2> QED
      BY <2>2, <2>3, <2>4 DEF MarketInv
  <1>6. CASE Uninstall
    BY <1>6 DEF Uninstall, MarketInv, MarketType, GatesPassed, PassedContent,
       verify_content_hash, _gate_ast, _gate_permissions, InstalledIsVetted
  <1>7. ASSUME NEW n \in KeyIds, NEW k \in Keys, TrustKey(n, k)
        PROVE  MarketInv'
    BY <1>7 DEF TrustKey, MarketInv, MarketType, GatesPassed, PassedContent,
       verify_content_hash, _gate_ast, _gate_permissions, InstalledIsVetted
  <1>8. CASE UNCHANGED marketVars
    BY <1>8 DEF marketVars, MarketInv, MarketType, GatesPassed, PassedContent,
       verify_content_hash, _gate_ast, _gate_permissions, InstalledIsVetted
  <1> QED
    BY <1>1, <1>2, <1>3, <1>4, <1>5, <1>6, <1>7, <1>8 DEF MarketNext

\* Every row of the marketplace table passed the gates of the installation that
\* wrote it, for any packages, postures and number of installations at once.
THEOREM RowsAreVetted == MarketSpec => []InstalledIsVetted
  <1>1. MarketInv => InstalledIsVetted
    BY DEF MarketInv
  <1> QED
    BY <1>1, MarketInitially, MarketSteps, PTL DEF MarketSpec

-----------------------------------------------------------------------------
(* Lifecycle: serve() from bind to exit *)

LifeSpec == LifeInit /\ [][LifeNext]_lifeVars

ServerStates ==
    {"bind", "refused", "build", "failed", "start", "serving", "stopping", "close", "down"}

LoopStates == {"none", "begin", "work", "sleep", "backoff", "cancelled", "ended"}

Running == {"begin", "work", "sleep", "backoff"}

LifeType ==
    /\ server \in [pc : ServerStates, at : Nat]
    /\ loops \in [Loops -> LoopStates]
    /\ stopSet \in BOOLEAN /\ interrupted \in BOOLEAN
    /\ At("build") => server.at \in 1 .. 7
    /\ At("close") => server.at \in 1 .. 4

\* The loops exist only between start and the end of stop(), and come to an end
\* only once stop() has asked them to.
LoopsInTheirTime ==
    /\ server.pc \in {"bind", "refused", "build", "failed", "start"} =>
         \A l \in Loops : loops[l] = "none"
    /\ At("serving") => ~stopSet /\ \A l \in Loops : loops[l] \in Running
    /\ server.pc \in {"close", "down"} => \A l \in Loops : loops[l] = "ended"

\* The database is the first resource opened, and no closer runs before stop()
\* has returned.
DatabaseHeld ==
    (At("build") /\ server.at > 1) \/ server.pc \in {"start", "serving", "stopping"} => "db" \in held

\* close() leaves behind it only what its closer could not release.
ClosedSoFar ==
    At("close") => \A i \in 1 .. 4 : i < server.at /\ Closers[i] \in held => Closers[i] \in raised

LifeInv == LifeType /\ LoopsInTheirTime /\ DatabaseHeld /\ ClosedSoFar /\ ShutdownReleases

LEMMA ResourceOrder ==
    /\ Len(Acquired) = 7 /\ Acquired[1] = "db" /\ "db" \notin Optional
    /\ Len(Closers) = 4
  BY DEF Acquired, Optional, Closers

LEMMA LifeInitially == LifeInit => LifeInv
  <1> SUFFICES ASSUME LifeInit PROVE LifeInv
    OBVIOUS
  <1>1. LifeType
    BY DEF LifeInit, LifeType, ServerStates, LoopStates, At, NoLoops
  <1>2. LoopsInTheirTime
    BY DEF LifeInit, LoopsInTheirTime, At, NoLoops
  <1>3. DatabaseHeld /\ ClosedSoFar /\ ShutdownReleases
    BY DEF LifeInit, DatabaseHeld, ClosedSoFar, ShutdownReleases, At
  <1> QED
    BY <1>1, <1>2, <1>3 DEF LifeInv

LEMMA LoopStepKeeps ==
    ASSUME LifeInv, NEW l \in Loops, LoopStep(l)
    PROVE  LifeInv'
  <1>1. UNCHANGED <<server, held, raised, stopSet, interrupted>>
    BY DEF LoopStep, LoopEnters, LoopSleeps, LoopWakes, LoopRaises, Supervise, LoopUnwinds
  <1>2. PICK from, to :
          /\ MoveLoop(l, from, to)
          /\ "none" \notin from /\ "ended" \notin from /\ to \in LoopStates \ {"none"}
          /\ to \in Running \/ stopSet \/ from = {"cancelled"}
    <2>1. CASE LoopEnters(l)
      <3>1. CASE stopSet
        BY <2>1, <3>1 DEF LoopEnters, LoopStates, Running
      <3>2. CASE ~stopSet
        BY <2>1, <3>2 DEF LoopEnters, LoopStates, Running
      <3> QED
        BY <3>1, <3>2
    <2>2. CASE LoopSleeps(l)
      BY <2>2 DEF LoopSleeps, LoopStates, Running
    <2>3. CASE LoopWakes(l)
      BY <2>3 DEF LoopWakes, LoopStates, Running
    <2>4. CASE LoopRaises(l)
      BY <2>4 DEF LoopRaises, LoopStates, Running
    <2>5. CASE Supervise(l)
      BY <2>5 DEF Supervise, LoopStates, Running
    <2>6. CASE LoopUnwinds(l)
      BY <2>6 DEF LoopUnwinds, LoopStates, Running
    <2> QED
      BY <2>1, <2>2, <2>3, <2>4, <2>5, <2>6 DEF LoopStep
  <1>3. /\ loops[l] \in from /\ loops[l] \notin {"none", "ended"}
        /\ loops' = [loops EXCEPT ![l] = to]
    BY <1>2 DEF MoveLoop
  <1>4. LifeType'
    BY <1>1, <1>2, <1>3 DEF LifeInv, LifeType, At
  <1>5. ~(server.pc \in {"bind", "refused", "build", "failed", "start", "close", "down"})
    BY <1>3 DEF LifeInv, LoopsInTheirTime
  <1>6. At("serving") => to \in Running
    BY <1>2, <1>3 DEF LifeInv, LoopsInTheirTime, Running
  <1>7. LoopsInTheirTime'
    BY <1>1, <1>3, <1>5, <1>6 DEF LifeInv, LifeType, LoopsInTheirTime, At
  <1>8. (DatabaseHeld /\ ClosedSoFar /\ ShutdownReleases)'
    BY <1>1 DEF LifeInv, DatabaseHeld, ClosedSoFar, ShutdownReleases, At
  <1> QED
    BY <1>4, <1>7, <1>8 DEF LifeInv

\* A step of serve() that leaves the loops and close() alone.
LEMMA BuildKeeps ==
    ASSUME LifeInv, NEW to \in {"build", "refused", "failed", "start"}, NEW i \in Nat,
           GoTo(to, i), held \subseteq held', UNCHANGED <<raised, loops, stopSet, interrupted>>,
           server.pc \in {"bind", "build", "start"},
           to = "build" => i \in 1 .. 7,
           (to = "build" /\ i > 1) \/ to = "start" => "db" \in held'
    PROVE  LifeInv'
  <1>1. server' = [pc |-> to, at |-> i] /\ server'.pc = to /\ server'.at = i
    BY DEF GoTo
  <1>2. LifeType'
    BY <1>1 DEF LifeInv, LifeType, At, ServerStates
  <1>3. LoopsInTheirTime'
    BY <1>1 DEF LifeInv, LoopsInTheirTime, At
  <1>4. (DatabaseHeld /\ ClosedSoFar /\ ShutdownReleases)'
    BY <1>1 DEF LifeInv, DatabaseHeld, ClosedSoFar, ShutdownReleases, At
  <1> QED
    BY <1>2, <1>3, <1>4 DEF LifeInv

\* A turn of close(): its closer's store is gone or its error logged.
LEMMA CloseKeeps ==
    ASSUME LifeInv, At("close"), Rest, held' \subseteq held, raised \subseteq raised',
           Closers[server.at] \in held' => Closers[server.at] \in raised',
           UNCHANGED <<loops, stopSet, interrupted>>
    PROVE  LifeInv'
  <1>1. server.at \in 1 .. 4 /\ server.pc = "close"
    BY DEF LifeInv, LifeType, At
  <1>2. \A i \in 1 .. 4 : i <= server.at /\ Closers[i] \in held' => Closers[i] \in raised'
    BY <1>1 DEF LifeInv, ClosedSoFar, At
  <1>3. \/ server.at = 4 /\ server' = [pc |-> "down", at |-> 0]
        \/ server.at < 4 /\ server' = [pc |-> "close", at |-> server.at + 1]
    BY <1>1, ResourceOrder DEF Rest, GoTo
  <1>4. LifeType'
    BY <1>1, <1>3 DEF LifeInv, LifeType, At, ServerStates
  <1>5. LoopsInTheirTime'
    BY <1>1, <1>3 DEF LifeInv, LoopsInTheirTime, At
  <1>6. DatabaseHeld'
    BY <1>3 DEF DatabaseHeld, At
  <1>7. ClosedSoFar'
    BY <1>1, <1>2, <1>3 DEF ClosedSoFar, At
  <1>8. ShutdownReleases'
    BY <1>1, <1>2, <1>3, ResourceOrder DEF ShutdownReleases, At
  <1> QED
    BY <1>4, <1>5, <1>6, <1>7, <1>8 DEF LifeInv

LEMMA LifeSteps == LifeInv /\ [LifeNext]_lifeVars => LifeInv'
  <1> SUFFICES ASSUME LifeInv, [LifeNext]_lifeVars PROVE LifeInv'
    OBVIOUS
  <1>1. CASE ResolveBindHost
    BY <1>1, BuildKeeps DEF ResolveBindHost, At
  <1>2. CASE AcquireNext
    <2>1. server.pc = "build" /\ server.at \in 1 .. 7 /\ held \subseteq held'
          /\ UNCHANGED <<raised, loops, stopSet, interrupted>>
      BY <1>2 DEF AcquireNext, At, LifeInv, LifeType
    <2>2. "db" \in held'
      BY <1>2, <2>1, ResourceOrder DEF AcquireNext, LifeInv, DatabaseHeld, At
    <2>3. GoTo("start", 0) \/ (GoTo("build", server.at + 1) /\ server.at < 7)
      BY <1>2, <2>1, ResourceOrder DEF AcquireNext, Advance
    <2> QED
      BY <2>1, <2>2, <2>3, BuildKeeps
  <1>3. CASE AcquireFails
    <2>1. server.pc = "build" /\ server.at \in 1 .. 7
          /\ UNCHANGED <<held, raised, loops, stopSet, interrupted>>
      BY <1>3 DEF AcquireFails, At, LifeInv, LifeType
    <2>2. CASE Acquired[server.at] \in Optional
      <3>1. "db" \in held
        BY <2>1, <2>2, ResourceOrder DEF LifeInv, DatabaseHeld, At
      <3>2. GoTo("start", 0) \/ (GoTo("build", server.at + 1) /\ server.at < 7)
        BY <1>3, <2>1, <2>2, ResourceOrder DEF AcquireFails, Advance
      <3> QED
        BY <2>1, <3>1, <3>2, BuildKeeps
    <2>3. CASE Acquired[server.at] \notin Optional
      BY <1>3, <2>1, <2>3, BuildKeeps DEF AcquireFails
    <2> QED
      BY <2>2, <2>3
  <1>4. CASE DaemonStart
    <2>1. CASE GoTo("failed", 0) /\ UNCHANGED <<loops, stopSet>>
      BY <1>4, <2>1, BuildKeeps DEF DaemonStart, At
    <2>2. CASE GoTo("serving", 0) /\ stopSet' = FALSE /\ loops' = [l \in Loops |-> "begin"]
      <3>1. /\ server' = [pc |-> "serving", at |-> 0] /\ "db" \in held
            /\ UNCHANGED <<held, raised, interrupted>>
        BY <1>4, <2>2 DEF DaemonStart, GoTo, LifeInv, DatabaseHeld, At
      <3>2. LifeType'
        BY <2>2, <3>1 DEF LifeInv, LifeType, LoopStates, ServerStates, At
      <3>3. LoopsInTheirTime'
        BY <2>2, <3>1 DEF LoopsInTheirTime, Running, At
      <3>4. (DatabaseHeld /\ ClosedSoFar /\ ShutdownReleases)'
        BY <3>1 DEF DatabaseHeld, ClosedSoFar, ShutdownReleases, At
      <3> QED
        BY <3>2, <3>3, <3>4 DEF LifeInv
    <2> QED
      BY <1>4, <2>1, <2>2 DEF DaemonStart
  <1>5. CASE StopReturns
    <2>1. /\ server' = [pc |-> "close", at |-> 1] /\ \A l \in Loops : loops[l] = "ended"
          /\ UNCHANGED <<held, raised, loops, stopSet, interrupted>>
      BY <1>5 DEF StopReturns, GoTo
    <2>2. LifeType' /\ LoopsInTheirTime'
      BY <2>1 DEF LifeInv, LifeType, ServerStates, LoopsInTheirTime, At
    <2>3. (DatabaseHeld /\ ClosedSoFar /\ ShutdownReleases)'
      BY <2>1 DEF DatabaseHeld, ClosedSoFar, ShutdownReleases, At
    <2> QED
      BY <2>2, <2>3 DEF LifeInv
  <1>6. CASE CloseNext
    BY <1>6, CloseKeeps DEF CloseNext
  <1>7. CASE CloserRaises
    BY <1>7, CloseKeeps DEF CloserRaises
  <1>8. CASE DaemonStop
    <2>1. /\ server' = [pc |-> "stopping", at |-> 0] /\ server.pc = "serving"
          /\ stopSet' = TRUE
          /\ loops' = [l \in Loops |-> IF loops[l] = "ended" THEN "ended" ELSE "cancelled"]
          /\ UNCHANGED <<held, raised, interrupted>>
      BY <1>8 DEF DaemonStop, GoTo, At
    <2>2. LifeType'
      BY <2>1 DEF LifeInv, LifeType, ServerStates, LoopStates, At
    <2>3. LoopsInTheirTime'
      BY <2>1 DEF LoopsInTheirTime, At
    <2>4. (DatabaseHeld /\ ClosedSoFar /\ ShutdownReleases)'
      BY <2>1 DEF LifeInv, DatabaseHeld, ClosedSoFar, ShutdownReleases, At
    <2> QED
      BY <2>2, <2>3, <2>4 DEF LifeInv
  <1>9. CASE Interrupt
    <2>1. /\ server' = [pc |-> "down", at |-> 0] /\ server.pc = "close" /\ interrupted' = TRUE
          /\ UNCHANGED <<held, raised, loops, stopSet>>
      BY <1>9 DEF Interrupt, GoTo, At
    <2>2. LifeType' /\ LoopsInTheirTime'
      BY <2>1 DEF LifeInv, LifeType, ServerStates, LoopsInTheirTime, At
    <2>3. (DatabaseHeld /\ ClosedSoFar /\ ShutdownReleases)'
      BY <2>1 DEF DatabaseHeld, ClosedSoFar, ShutdownReleases, At
    <2> QED
      BY <2>2, <2>3 DEF LifeInv
  <1>10. ASSUME NEW l \in Loops, LoopStep(l)
         PROVE  LifeInv'
    BY <1>10, LoopStepKeeps
  <1>11. CASE UNCHANGED lifeVars
    BY <1>11 DEF lifeVars, LifeInv, LifeType, LoopsInTheirTime, DatabaseHeld, ClosedSoFar,
       ShutdownReleases, At
  <1> QED
    BY <1>1, <1>2, <1>3, <1>4, <1>5, <1>6, <1>7, <1>8, <1>9, <1>10, <1>11
    DEF LifeNext, ServeStep

\* The loops never outlive the database, none of them ends while the server
\* serves, and an undisturbed close() gives every closer its turn: for any
\* number of crashes of the dispatch loop.
THEOREM LifecycleIsSound == LifeSpec => []LifecycleSound
  <1>1. LifeInv => LifecycleSound
    <2> SUFFICES ASSUME LifeInv PROVE LifecycleSound
      OBVIOUS
    <2>1. DatabaseOutlivesLoops
      <3> SUFFICES ASSUME NEW l \in Loops, Alive(l) PROVE "db" \in held
        BY DEF DatabaseOutlivesLoops
      <3>1. server.pc \in {"serving", "stopping"}
        BY DEF LifeInv, LifeType, ServerStates, LoopsInTheirTime, Alive
      <3> QED
        BY <3>1 DEF LifeInv, DatabaseHeld
    <2>2. LoopsAreSupervised
      BY DEF LifeInv, LoopsInTheirTime, LoopsAreSupervised, Alive, Running
    <2> QED
      BY <2>1, <2>2 DEF LifeInv, LifecycleSound
  <1> QED
    BY <1>1, LifeInitially, LifeSteps, PTL DEF LifeSpec

-----------------------------------------------------------------------------
(* McpClient: callers, one reader, and a server that may say anything *)

McpSpec == McpInit /\ [][McpNext]_mcpVars

McpType ==
    /\ mcpPc \in [McpCallers -> {"idle", "sending", "waiting", "ended"}]
    /\ id \in [McpCallers -> Nat]
    /\ nextId \in Nat \ {0}
    /\ pending \subseteq 1 .. nextId - 1
    /\ DOMAIN future = McpCallers /\ DOMAIN mcpAnswer = McpCallers

\* A request has its id to itself; before it, nothing is registered or answered.
IdsAreFresh ==
    /\ \A c \in McpCallers : id[c] < nextId
    /\ \A c, d \in McpCallers : id[c] = id[d] /\ id[c] # 0 => c = d
    /\ \A c \in McpCallers : mcpPc[c] = "idle" => id[c] = 0 /\ future[c] = Open /\ mcpAnswer[c] = NoAnswer

\* What a future or an answer holds of a reply is its own.
OwnReply(c, x) == \A n \in Nat : x = Reply(n) => n = id[c]
RepliesAreOwn == \A c \in McpCallers : OwnReply(c, future[c]) /\ OwnReply(c, mcpAnswer[c])

\* An open future somebody is about to wait for is registered; once the reader
\* is gone, nothing is, and nothing can be any more.
OpenIsRegistered ==
    \A c \in McpCallers :
        mcpPc[c] \in {"sending", "waiting"} /\ future[c] = Open => id[c] \in pending

NothingAfterReader == reader = "ended" => clientClosed /\ pending = {}

McpInv == McpType /\ IdsAreFresh /\ RepliesAreOwn /\ OpenIsRegistered /\ NothingAfterReader

LEMMA OnlyRepliesAreReplies ==
    ASSUME NEW n
    PROVE  /\ Reply(n) # Open /\ Reply(n) # NoAnswer
           /\ Reply(n) # <<"not running">> /\ Reply(n) # <<"pipe broken">>
           /\ Reply(n) # <<"timeout">> /\ Reply(n) # <<"closed">>
           /\ <<"closed">> # Open
  <1>1. Reply(n)[1] = "reply"
    BY DEF Reply
  <1>2. /\ Open[1] = "open" /\ NoAnswer[1] = "none" /\ <<"not running">>[1] = "not running"
        /\ <<"pipe broken">>[1] = "pipe broken" /\ <<"timeout">>[1] = "timeout"
        /\ <<"closed">>[1] = "closed"
    BY DEF Open, NoAnswer
  <1>3. /\ Reply(n) # Open /\ Reply(n) # NoAnswer
    BY <1>1, <1>2
  <1>4. Reply(n) # <<"not running">> /\ Reply(n) # <<"pipe broken">>
    BY <1>1, <1>2
  <1>5. Reply(n) # <<"timeout">> /\ Reply(n) # <<"closed">>
    BY <1>1, <1>2
  <1>6. <<"closed">> # Open
    BY <1>2
  <1> QED
    BY <1>3, <1>4, <1>5, <1>6

LEMMA RepliesInjective ==
    ASSUME NEW n, NEW m, Reply(n) = Reply(m) PROVE n = m
  <1>1. Reply(n)[2] = n /\ Reply(m)[2] = m
    BY DEF Reply
  <1> QED
    BY <1>1

LEMMA McpInitially == McpInit => McpInv
  <1> SUFFICES ASSUME McpInit PROVE McpInv
    OBVIOUS
  <1>1. McpType
    BY DEF McpInit, McpType
  <1>2. IdsAreFresh /\ OpenIsRegistered /\ NothingAfterReader
    BY DEF McpInit, IdsAreFresh, OpenIsRegistered, NothingAfterReader
  <1>3. RepliesAreOwn
    BY OnlyRepliesAreReplies DEF McpInit, RepliesAreOwn, OwnReply
  <1> QED
    BY <1>1, <1>2, <1>3 DEF McpInv

\* A call ends with its future, or with an error of its own.
LEMMA EndKeeps ==
    ASSUME McpInv, NEW c \in McpCallers, mcpPc[c] # "ended", NEW how, McpEnd(c, how),
           OwnReply(c, how), pending' \subseteq pending,
           \A d \in McpCallers : d # c /\ id[d] \in pending => id[d] \in pending',
           UNCHANGED <<reader, clientClosed, id, future, nextId>>
    PROVE  McpInv'
  <1>1. /\ mcpPc' = [mcpPc EXCEPT ![c] = "ended"]
        /\ mcpAnswer' = [mcpAnswer EXCEPT ![c] = how]
    BY DEF McpEnd
  <1>2. McpType'
    BY <1>1 DEF McpInv, McpType
  <1>3. IdsAreFresh'
    BY <1>1 DEF McpInv, McpType, IdsAreFresh
  <1>4. RepliesAreOwn'
    BY <1>1 DEF McpInv, McpType, RepliesAreOwn, OwnReply
  <1>5. OpenIsRegistered'
    BY <1>1 DEF McpInv, McpType, OpenIsRegistered
  <1>6. NothingAfterReader'
    BY DEF McpInv, NothingAfterReader
  <1> QED
    BY <1>2, <1>3, <1>4, <1>5, <1>6 DEF McpInv

LEMMA FailPendingKeeps ==
    ASSUME McpInv, FailPending, UNCHANGED <<mcpPc, id, nextId, mcpAnswer>>
    PROVE  McpInv'
  <1>1. clientClosed' = TRUE /\ pending' = {}
        /\ future' = [c \in McpCallers |->
              IF id[c] \in pending /\ future[c] = Open THEN <<"closed">> ELSE future[c]]
    BY DEF FailPending
  <1>2. McpType'
    BY <1>1 DEF McpInv, McpType
  <1>3. IdsAreFresh'
    <2>1. \A c \in McpCallers : mcpPc[c] = "idle" => id[c] \notin pending
      BY DEF McpInv, McpType, IdsAreFresh
    <2> QED
      BY <1>1, <2>1 DEF McpInv, IdsAreFresh
  <1>4. RepliesAreOwn'
    BY <1>1, OnlyRepliesAreReplies DEF McpInv, RepliesAreOwn, OwnReply
  <1>5. OpenIsRegistered'
    BY <1>1, OnlyRepliesAreReplies DEF McpInv, OpenIsRegistered
  <1>6. NothingAfterReader'
    BY <1>1 DEF NothingAfterReader
  <1> QED
    BY <1>2, <1>3, <1>4, <1>5, <1>6 DEF McpInv

LEMMA McpFrame ==
    ASSUME McpInv, UNCHANGED <<mcpPc, id, future, pending, nextId, mcpAnswer>>,
           reader' = "ended" => reader = "ended", clientClosed => clientClosed'
    PROVE  McpInv'
  <1>1. McpType' /\ IdsAreFresh' /\ OpenIsRegistered' /\ RepliesAreOwn'
    BY DEF McpInv, McpType, IdsAreFresh, OpenIsRegistered, RepliesAreOwn, OwnReply
  <1>2. NothingAfterReader'
    BY DEF McpInv, NothingAfterReader
  <1> QED
    BY <1>1, <1>2 DEF McpInv

LEMMA McpSteps == McpInv /\ [McpNext]_mcpVars => McpInv'
  <1> SUFFICES ASSUME McpInv, [McpNext]_mcpVars PROVE McpInv'
    OBVIOUS
  <1>1. ASSUME NEW c \in McpCallers, CallTool(c)
        PROVE  McpInv'
    <2>1. CASE clientClosed \/ process = "none"
      BY <1>1, <2>1, EndKeeps, OnlyRepliesAreReplies DEF CallTool, OwnReply
    <2>2. CASE ~(clientClosed \/ process = "none")
      <3>1. /\ mcpPc[c] = "idle" /\ mcpPc' = [mcpPc EXCEPT ![c] = "sending"]
            /\ id' = [id EXCEPT ![c] = nextId] /\ pending' = pending \union {nextId}
            /\ nextId' = nextId + 1 /\ UNCHANGED <<reader, clientClosed, future, mcpAnswer>>
        BY <1>1, <2>2 DEF CallTool
      <3>2. future[c] = Open /\ mcpAnswer[c] = NoAnswer /\ \A d \in McpCallers : id[d] < nextId
        BY <3>1 DEF McpInv, IdsAreFresh
      <3>3. McpType'
        BY <3>1 DEF McpInv, McpType
      <3>4. IdsAreFresh'
        BY <3>1, <3>2 DEF McpInv, McpType, IdsAreFresh
      <3>5. RepliesAreOwn'
        BY <3>1, <3>2, OnlyRepliesAreReplies DEF McpInv, McpType, RepliesAreOwn, OwnReply
      <3>6. OpenIsRegistered'
        BY <3>1 DEF McpInv, McpType, OpenIsRegistered
      <3>7. NothingAfterReader'
        BY <2>2, <3>1 DEF McpInv, NothingAfterReader
      <3> QED
        BY <3>3, <3>4, <3>5, <3>6, <3>7 DEF McpInv
    <2> QED
      BY <2>1, <2>2
  <1>2. ASSUME NEW c \in McpCallers, Sent(c)
        PROVE  McpInv'
    <2>1. CASE mcpPc' = [mcpPc EXCEPT ![c] = "waiting"] /\ UNCHANGED mcpAnswer
      <3>1. mcpPc[c] = "sending" /\ UNCHANGED <<reader, clientClosed, id, future, pending, nextId, mcpAnswer>>
        BY <1>2, <2>1 DEF Sent
      <3>2. McpType' /\ IdsAreFresh' /\ RepliesAreOwn'
        BY <2>1, <3>1 DEF McpInv, McpType, IdsAreFresh, RepliesAreOwn, OwnReply
      <3>3. OpenIsRegistered' /\ NothingAfterReader'
        BY <2>1, <3>1 DEF McpInv, McpType, OpenIsRegistered, NothingAfterReader
      <3> QED
        BY <3>2, <3>3 DEF McpInv
    <2>2. CASE McpEnd(c, <<"pipe broken">>)
      BY <1>2, <2>2, EndKeeps, OnlyRepliesAreReplies DEF Sent, OwnReply
    <2> QED
      BY <1>2, <2>1, <2>2 DEF Sent
  <1>3. ASSUME NEW c \in McpCallers, Awake(c)
        PROVE  McpInv'
    <2>1. OwnReply(c, future[c])
      BY DEF McpInv, RepliesAreOwn
    <2> QED
      BY <1>3, <2>1, EndKeeps DEF Awake
  <1>4. ASSUME NEW c \in McpCallers, TimesOut(c)
        PROVE  McpInv'
    <2>1. \A d \in McpCallers : d # c /\ id[d] \in pending => id[d] # id[c]
      BY DEF McpInv, McpType, IdsAreFresh
    <2>2. OwnReply(c, <<"timeout">>)
      BY OnlyRepliesAreReplies DEF OwnReply
    <2> QED
      BY <1>4, <2>1, <2>2, EndKeeps DEF TimesOut
  <1>5. CASE ReadMessage
    <2> DEFINE m == Head(stream)
               to == Addressee(m)
    <2>1. /\ future' = [c \in McpCallers |-> IF c \in to /\ future[c] = Open THEN m ELSE future[c]]
          /\ pending' = pending \ {id[c] : c \in to}
          /\ UNCHANGED <<reader, clientClosed, mcpPc, id, nextId, mcpAnswer>>
      BY <1>5 DEF ReadMessage
    <2>2. \A c \in to : c \in McpCallers /\ id[c] \in pending /\ m = Reply(id[c])
      BY DEF Addressee
    <2>3. \A c \in McpCallers, d \in to : id[c] = id[d] => c \in to
      BY <2>2 DEF Addressee
    <2> HIDE DEF m, to
    <2>4. McpType'
      BY <2>1 DEF McpInv, McpType
    <2>5. \A c \in to : mcpPc[c] # "idle"
      BY <2>2 DEF McpInv, McpType, IdsAreFresh
    <2>6. IdsAreFresh'
      BY <2>1, <2>5 DEF McpInv, IdsAreFresh
    <2>7. RepliesAreOwn'
      <3> SUFFICES ASSUME NEW c \in McpCallers, NEW n \in Nat, future'[c] = Reply(n)
                   PROVE  n = id[c]
        BY <2>1 DEF McpInv, RepliesAreOwn, OwnReply
      <3>1. CASE c \in to /\ future[c] = Open
        BY <2>1, <2>2, <3>1, RepliesInjective
      <3>2. CASE ~(c \in to /\ future[c] = Open)
        BY <2>1, <3>2 DEF McpInv, RepliesAreOwn, OwnReply
      <3> QED
        BY <3>1, <3>2
    <2>8. OpenIsRegistered'
      <3> SUFFICES ASSUME NEW c \in McpCallers, mcpPc[c] \in {"sending", "waiting"}, future'[c] = Open
                   PROVE  id[c] \in pending'
        BY <2>1 DEF OpenIsRegistered
      <3>1. c \notin to /\ future[c] = Open
        BY <2>1, <2>2, OnlyRepliesAreReplies
      <3>2. id[c] \in pending
        BY <3>1 DEF McpInv, OpenIsRegistered
      <3> QED
        BY <2>1, <2>3, <3>1, <3>2
    <2>9. NothingAfterReader'
      BY <2>1 DEF McpInv, NothingAfterReader
    <2> QED
      BY <2>4, <2>6, <2>7, <2>8, <2>9 DEF McpInv
  <1>6. CASE ReaderEnds
    BY <1>6, FailPendingKeeps DEF ReaderEnds
  <1>7. CASE CloseEnds
    BY <1>7, FailPendingKeeps DEF CloseEnds
  <1>8. CASE StartServer \/ ServerWrites \/ ServerDies \/ CloseBegins
    BY <1>8, McpFrame DEF StartServer, ServerWrites, ServerDies, CloseBegins
  <1>9. CASE UNCHANGED mcpVars
    BY <1>9, McpFrame DEF mcpVars
  <1> QED
    BY <1>1, <1>2, <1>3, <1>4, <1>5, <1>6, <1>7, <1>8, <1>9 DEF McpNext, McpStep

\* A reply reaches the call that asked for it and nobody waits on a reader that
\* is gone, for any number of callers and whatever the server writes.
THEOREM McpIsSound == McpSpec => []McpSound
  <1>1. McpInv => McpSound
    <2> SUFFICES ASSUME McpInv PROVE McpSound
      OBVIOUS
    <2>1. RepliesReachTheirCaller
      BY DEF McpInv, McpType, RepliesAreOwn, OwnReply, RepliesReachTheirCaller
    <2>2. NobodyWaitsOnDeadServer
      BY DEF McpInv, OpenIsRegistered, NothingAfterReader, NobodyWaitsOnDeadServer
    <2> QED
      BY <2>1, <2>2 DEF McpSound
  <1> QED
    BY <1>1, McpInitially, McpSteps, PTL DEF McpSpec

-----------------------------------------------------------------------------
(* Connections: writers behind one lock, and a close() that takes none *)

ConnSpec == ConnInit /\ [][ConnNext]_connVars

\* A writer past Acquire has the lock; past Begin it has had a transaction.
Inside == {"body", "commit", "rollback", "replace", "swap"}
Holding == {"vacuum", "begin"} \union Inside

Tasks ==
    [pc : {"idle", "waiting", "ok", "error"} \union Holding, on : 0 .. MaxConns,
     fresh : 0 .. MaxConns, raised : BOOLEAN, op : {"write", "vacuum"}]

ConnType ==
    /\ write_conn \in 0 .. MaxConns
    /\ conns \in [1 .. MaxConns -> {"unopened", "open", "closed"}]
    /\ tx \in [1 .. MaxConns -> Writers \union {Nobody}]
    /\ write_lock \in Seq(Writers)
    /\ task \in [Writers -> Tasks]

\* Who holds the lock is its first entry, and who waits is somewhere in it.
QueueInv ==
    /\ \A w \in Writers : task[w].pc \in Holding =>
         write_lock # <<>> /\ Head(write_lock) = w
    /\ \A w \in Writers : task[w].pc = "waiting" =>
         \E i \in 1 .. Len(write_lock) : write_lock[i] = w

\* Only the connection of the writer inside a transaction can have one open: as
\* long as there is a write connection at all, the one left open by a writer
\* that could not replace it is out of reach.
TxInv ==
    /\ \A c \in 1 .. MaxConns : conns[c] = "unopened" => tx[c] = Nobody
    /\ \A w \in Writers : task[w].pc \in Inside =>
         \A c \in 1 .. MaxConns : Busy(c) => c = task[w].on
    /\ (\A w \in Writers : task[w].pc \notin Inside) /\ write_conn # 0 =>
         \A c \in 1 .. MaxConns : ~Busy(c)
    /\ NoInheritedTransaction
    /\ \A w \in Writers : task[w].pc \in Inside \union {"begin"} =>
         task[w].on # 0 /\ write_conn \in {0, task[w].on}

\* Nothing is committed for a caller that raised, and a VACUUM commits nothing.
OutcomeInv ==
    \A w \in Writers :
        /\ w \in committed => task[w].pc = "ok"
        /\ task[w].pc = "ok" /\ task[w].op = "write" => w \in committed
        /\ task[w].pc = "vacuum" => task[w].op = "vacuum"
        /\ task[w].pc = "commit" => ~task[w].raised

ConnInv == ConnType /\ QueueInv /\ TxInv /\ OutcomeInv

LEMMA ConnInitially == ConnInit => ConnInv
  <1> SUFFICES ASSUME ConnInit PROVE ConnInv
    OBVIOUS
  <1>1. ConnType
    <2>1. 1 \in 0 .. MaxConns /\ 0 \in 0 .. MaxConns
      BY ConnectionsAssumption
    <2>2. task \in [Writers -> Tasks]
      BY <2>1 DEF ConnInit, Tasks
    <2> QED
      BY <2>1, <2>2 DEF ConnInit, ConnType
  <1>2. QueueInv
    BY DEF ConnInit, QueueInv, Holding, Inside
  <1>3. TxInv
    BY DEF ConnInit, TxInv, NoInheritedTransaction, Inside, Busy
  <1>4. OutcomeInv
    BY DEF ConnInit, OutcomeInv
  <1> QED
    BY <1>1, <1>2, <1>3, <1>4 DEF ConnInv

\* The lock is never held by two.
LEMMA OneHolder ==
    ASSUME ConnInv, NEW v \in Writers, NEW w \in Writers,
           task[v].pc \in Holding, task[w].pc \in Holding \/ Head(write_lock) = w
    PROVE  v = w
  BY DEF ConnInv, QueueInv

\* Whoever is first in the queue leaves it: nobody holds the lock then.
LEMMA EndKeepsQueue ==
    ASSUME ConnInv, NEW w \in Writers, NEW how \in {"ok", "error"}, EndTask(w, how),
           task[w].pc \in Holding \/ (task[w].pc = "waiting" /\ Head(write_lock) = w)
    PROVE  /\ QueueInv' /\ write_lock' \in Seq(Writers) /\ task' \in [Writers -> Tasks]
           /\ task'[w] = [task[w] EXCEPT !.pc = how]
           /\ \A v \in Writers : v # w => task'[v] = task[v]
           /\ \A v \in Writers : task'[v].pc \notin Holding
  <1>1. task' = [task EXCEPT ![w].pc = how] /\ write_lock' = Tail(write_lock)
    BY DEF EndTask, SetTask
  <1>2. write_lock \in Seq(Writers) /\ write_lock # <<>> /\ Head(write_lock) = w
    BY DEF ConnInv, ConnType, QueueInv
  <1>3. task' \in [Writers -> Tasks] /\ task'[w] = [task[w] EXCEPT !.pc = how]
        /\ task'[w].pc = how
    BY <1>1 DEF ConnInv, ConnType, Tasks
  <1>4. \A v \in Writers : v # w => task'[v] = task[v]
    BY <1>1 DEF ConnInv, ConnType
  <1>5. \A v \in Writers : task'[v].pc \notin Holding
    <2> SUFFICES ASSUME NEW v \in Writers, task'[v].pc \in Holding PROVE FALSE
      OBVIOUS
    <2>1. v # w
      BY <1>3 DEF Holding, Inside
    <2> QED
      BY <1>2, <1>4, <2>1, OneHolder
  <1>6. ASSUME NEW v \in Writers, task'[v].pc = "waiting"
        PROVE  \E i \in 1 .. Len(write_lock') : write_lock'[i] = v
    <2>1. v # w /\ task[v].pc = "waiting"
      BY <1>3, <1>4, <1>6
    <2>2. PICK i \in 1 .. Len(write_lock) : write_lock[i] = v
      BY <2>1 DEF ConnInv, QueueInv
    <2>3. i # 1 /\ write_lock[1] = w
      BY <1>2, <2>1, <2>2
    <2>4. i - 1 \in 1 .. Len(Tail(write_lock)) /\ Tail(write_lock)[i - 1] = v
      BY <1>2, <2>2, <2>3
    <2> QED
      BY <1>1, <2>4
  <1>7. write_lock' \in Seq(Writers)
    BY <1>1, <1>2
  <1> QED
    BY <1>3, <1>4, <1>5, <1>6, <1>7 DEF QueueInv

\* A writer that moves on while it keeps the lock, or its place in the queue.
LEMMA MoveKeepsQueue ==
    ASSUME ConnInv, NEW w \in Writers, NEW t \in Tasks, task' = [task EXCEPT ![w] = t],
           UNCHANGED write_lock, t.pc \in Holding,
           task[w].pc \in Holding \/ (task[w].pc = "waiting" /\ Head(write_lock) = w)
    PROVE  /\ QueueInv' /\ write_lock' \in Seq(Writers) /\ task' \in [Writers -> Tasks]
           /\ task'[w] = t
           /\ \A v \in Writers : v # w => task'[v] = task[v] /\ task'[v].pc \notin Holding
  <1>1. write_lock \in Seq(Writers) /\ write_lock # <<>> /\ Head(write_lock) = w
    BY DEF ConnInv, ConnType, QueueInv
  <1>2. task' \in [Writers -> Tasks] /\ task'[w] = t /\ \A v \in Writers : v # w => task'[v] = task[v]
    BY DEF ConnInv, ConnType
  <1>3. \A v \in Writers : v # w => task[v].pc \notin Holding
    BY <1>1, OneHolder
  <1>4. t.pc # "waiting"
    BY DEF Holding, Inside
  <1>5. QueueInv'
    BY <1>1, <1>2, <1>3, <1>4 DEF ConnInv, QueueInv
  <1> QED
    BY <1>1, <1>2, <1>3, <1>5

\* A call that ends: what must hold of the connections it leaves, and of what
\* its caller is told.
LEMMA EndKeepsConns ==
    ASSUME ConnInv, NEW w \in Writers, NEW how \in {"ok", "error"}, EndTask(w, how),
           task[w].pc \in Holding \/ (task[w].pc = "waiting" /\ Head(write_lock) = w),
           write_conn' \in 0 .. MaxConns,
           conns' \in [1 .. MaxConns -> {"unopened", "open", "closed"}],
           tx' \in [1 .. MaxConns -> Writers \union {Nobody}],
           \A c \in 1 .. MaxConns : conns'[c] = "unopened" => tx'[c] = Nobody,
           write_conn' # 0 => \A c \in 1 .. MaxConns : ~Busy(c)',
           \/ how = "error" /\ committed' = committed
           \/ how = "ok" /\ committed' = committed \union {w}
           \/ how = "ok" /\ task[w].op = "vacuum" /\ committed' = committed
    PROVE  ConnInv'
  <1>1. /\ QueueInv' /\ write_lock' \in Seq(Writers) /\ task' \in [Writers -> Tasks]
        /\ task'[w] = [task[w] EXCEPT !.pc = how]
        /\ \A v \in Writers : v # w => task'[v] = task[v]
        /\ \A v \in Writers : task'[v].pc \notin Holding
    BY EndKeepsQueue
  <1>2. task'[w].pc = how /\ task'[w].op = task[w].op
    BY <1>1 DEF ConnInv, ConnType, Tasks
  <1>3. ConnType'
    BY <1>1 DEF ConnType
  <1>4. TxInv'
    <2>1. \A v \in Writers : task'[v].pc \notin Inside \union {"begin"}
      BY <1>1 DEF Holding
    <2> QED
      BY <2>1 DEF TxInv, NoInheritedTransaction
  <1>5. w \notin committed
    BY DEF ConnInv, OutcomeInv, Holding, Inside
  <1>6. \A v \in Writers : task'[v].pc # "vacuum" /\ task'[v].pc # "commit"
    BY <1>1 DEF Holding, Inside
  <1>7. \A v \in Writers : v # w => (v \in committed' <=> v \in committed)
    OBVIOUS
  <1>8. /\ w \in committed' => task'[w].pc = "ok"
        /\ task'[w].pc = "ok" /\ task'[w].op = "write" => w \in committed'
    BY <1>2, <1>5
  <1>9. OutcomeInv'
    BY <1>1, <1>6, <1>7, <1>8 DEF ConnInv, OutcomeInv
  <1> QED
    BY <1>1, <1>3, <1>4, <1>9 DEF ConnInv

\* The same for a writer that goes on with the lock in its hands.
LEMMA MoveKeepsConns ==
    ASSUME ConnInv, NEW w \in Writers, NEW t \in Tasks, task' = [task EXCEPT ![w] = t],
           t.pc \in Holding, t.op = task[w].op, UNCHANGED <<write_lock, write_conn, committed>>,
           task[w].pc \in Holding \/ (task[w].pc = "waiting" /\ Head(write_lock) = w),
           conns' \in [1 .. MaxConns -> {"unopened", "open", "closed"}],
           tx' \in [1 .. MaxConns -> Writers \union {Nobody}],
           \A c \in 1 .. MaxConns : conns'[c] = "unopened" => tx'[c] = Nobody,
           t.pc = "vacuum" => t.op = "vacuum" /\ (write_conn # 0 => \A c \in 1 .. MaxConns : ~Busy(c)'),
           t.pc = "begin" => \A c \in 1 .. MaxConns : ~Busy(c)',
           t.pc \in Inside => \A c \in 1 .. MaxConns : Busy(c)' => c = t.on,
           t.pc # "vacuum" => t.on # 0 /\ write_conn \in {0, t.on},
           t.pc = "commit" => ~t.raised
    PROVE  ConnInv'
  <1>1. /\ QueueInv' /\ write_lock' \in Seq(Writers) /\ task' \in [Writers -> Tasks]
        /\ task'[w] = t
        /\ \A v \in Writers : v # w => task'[v] = task[v] /\ task'[v].pc \notin Holding
    BY MoveKeepsQueue
  <1>2. ConnType'
    BY <1>1 DEF ConnInv, ConnType
  <1>3. TxInv'
    <2>1. \A v \in Writers : v # w => task'[v].pc \notin Inside \union {"begin"}
      BY <1>1 DEF Holding
    <2>2. NoInheritedTransaction'
      BY <1>1, <2>1 DEF NoInheritedTransaction
    <2>3. (\A v \in Writers : task'[v].pc \notin Inside) /\ write_conn' # 0 =>
             \A c \in 1 .. MaxConns : ~Busy(c)'
      BY <1>1 DEF Holding
    <2>4. \A v \in Writers : task'[v].pc \in Inside =>
            \A c \in 1 .. MaxConns : Busy(c)' => c = task'[v].on
      BY <1>1, <2>1
    <2>5. \A v \in Writers : task'[v].pc \in Inside \union {"begin"} =>
            task'[v].on # 0 /\ write_conn' \in {0, task'[v].on}
      <3>1. t.pc \in Inside \union {"begin"} => t.pc # "vacuum"
        BY DEF Inside
      <3> QED
        BY <1>1, <2>1, <3>1
    <2> QED
      BY <2>2, <2>3, <2>4, <2>5 DEF TxInv
  <1>4. w \notin committed /\ t.pc # "ok"
    BY DEF ConnInv, OutcomeInv, Holding, Inside
  <1>5. OutcomeInv'
    BY <1>1, <1>4 DEF ConnInv, OutcomeInv
  <1> QED
    BY <1>1, <1>2, <1>3, <1>5 DEF ConnInv

\* close() forgets or closes connections under whoever is at work on them.
LEMMA CloseKeepsConns ==
    ASSUME ConnInv, UNCHANGED <<write_lock, task, committed>>, write_conn' \in {0, write_conn},
           conns' \in [1 .. MaxConns -> {"unopened", "open", "closed"}],
           tx' \in [1 .. MaxConns -> Writers \union {Nobody}],
           \A c \in 1 .. MaxConns :
               \/ conns'[c] = conns[c] /\ tx'[c] = tx[c]
               \/ conns'[c] = "closed"
    PROVE  ConnInv'
  <1>1. \A c \in 1 .. MaxConns : Busy(c)' => Busy(c)
    BY DEF Busy
  <1>2. ConnType'
    BY ConnectionsAssumption DEF ConnInv, ConnType
  <1>3. TxInv'
    <2>1. \A c \in 1 .. MaxConns : conns'[c] = "unopened" => tx'[c] = Nobody
      BY DEF ConnInv, TxInv
    <2> QED
      BY <1>1, <2>1 DEF ConnInv, TxInv, NoInheritedTransaction
  <1>4. QueueInv' /\ OutcomeInv'
    BY DEF ConnInv, QueueInv, OutcomeInv
  <1> QED
    BY <1>2, <1>3, <1>4 DEF ConnInv

\* What the invariant says of a writer inside a transaction, taken apart.
LEMMA InsideFacts ==
    ASSUME ConnInv, NEW w \in Writers, task[w].pc \in Inside \union {"begin"}
    PROVE  /\ task[w] \in Tasks /\ task[w].pc \in Holding
           /\ task[w].on \in 1 .. MaxConns /\ task[w].on # 0 /\ write_conn \in {0, task[w].on}
           /\ task[w].pc \in Inside => \A c \in 1 .. MaxConns : Busy(c) => c = task[w].on
           /\ task[w].pc = "begin" => \A c \in 1 .. MaxConns : ~Busy(c)
  <1>1. task[w] \in Tasks /\ task[w].pc \in Holding
    BY DEF ConnInv, ConnType, Holding
  <1>2. task[w].on # 0 /\ task[w].on \in 0 .. MaxConns /\ write_conn \in {0, task[w].on}
    BY <1>1 DEF ConnInv, TxInv, Tasks
  <1>3. task[w].on \in 1 .. MaxConns
    BY <1>2, ConnectionsAssumption
  <1> QED
    BY <1>1, <1>2, <1>3 DEF ConnInv, TxInv, NoInheritedTransaction

LEMMA WriterSteps ==
    ASSUME ConnInv, NEW w \in Writers, WriterStep(w)
    PROVE  ConnInv'
  <1> DEFINE k == task[w].on
  <1>0. /\ write_conn \in 0 .. MaxConns
        /\ conns \in [1 .. MaxConns -> {"unopened", "open", "closed"}]
        /\ tx \in [1 .. MaxConns -> Writers \union {Nobody}]
        /\ task \in [Writers -> Tasks] /\ write_lock \in Seq(Writers)
        /\ \A c \in 1 .. MaxConns : conns[c] = "unopened" => tx[c] = Nobody
    BY DEF ConnInv, ConnType, TxInv
  <1>1. CASE Enter(w)
    <2>1. PICK t \in Tasks :
            /\ task' = [task EXCEPT ![w] = t] /\ t.op = task[w].op
            /\ \/ t.pc = "error" /\ UNCHANGED write_lock
               \/ t.pc = "waiting" /\ write_lock' = Append(write_lock, w)
      <3>1. CASE task[w].op = "vacuum" /\ write_conn = 0
        <4>1. [task[w] EXCEPT !.pc = "error"] \in Tasks
          BY <1>0 DEF Tasks
        <4> QED
          BY <1>0, <1>1, <3>1, <4>1 DEF Enter, SetTask, Tasks
      <3>2. CASE ~(task[w].op = "vacuum" /\ write_conn = 0)
        <4>1. [task[w] EXCEPT !.pc = "waiting", !.on = write_conn] \in Tasks
          BY <1>0 DEF Tasks
        <4> QED
          BY <1>0, <1>1, <3>2, <4>1 DEF Enter, Tasks
      <3> QED
        BY <3>1, <3>2
    <2>2. /\ task[w].pc = "idle" /\ task'[w] = t /\ task' \in [Writers -> Tasks]
          /\ \A v \in Writers : v # w => task'[v] = task[v]
          /\ UNCHANGED <<write_conn, conns, tx, committed>>
      BY <1>0, <1>1, <2>1 DEF Enter
    <2>3. t.pc \notin Holding /\ t.pc \notin Inside
      BY <2>1 DEF Holding, Inside
    <2>4. ConnType'
      BY <1>0, <2>1, <2>2 DEF ConnType
    <2>5. QueueInv'
      <3>1. \/ write_lock' = write_lock /\ t.pc # "waiting"
            \/ /\ Len(write_lock') = Len(write_lock) + 1 /\ write_lock'[Len(write_lock) + 1] = w
               /\ write_lock' # <<>> /\ \A i \in 1 .. Len(write_lock) : write_lock'[i] = write_lock[i]
               /\ write_lock # <<>> => Head(write_lock') = Head(write_lock)
        BY <1>0, <2>1
      <3>2. \A v \in Writers : task'[v].pc \in Holding => write_lock' # <<>> /\ Head(write_lock') = v
        BY <2>2, <2>3, <3>1 DEF ConnInv, QueueInv
      <3>3. \A v \in Writers : task'[v].pc = "waiting" =>
              \E i \in 1 .. Len(write_lock') : write_lock'[i] = v
        <4>1. Len(write_lock) \in Nat
          BY <1>0
        <4> QED
          BY <2>2, <3>1, <4>1 DEF ConnInv, QueueInv
      <3> QED
        BY <3>2, <3>3 DEF QueueInv
    <2>6. \A v \in Writers : task'[v].pc \in Inside \union {"begin"} => v # w /\ task'[v] = task[v]
      BY <2>1, <2>2, <2>3
    <2>7. (\A v \in Writers : task'[v].pc \notin Inside) => \A v \in Writers : task[v].pc \notin Inside
      BY <2>2 DEF Inside
    <2>8. TxInv'
      BY <2>2, <2>6, <2>7 DEF ConnInv, TxInv, NoInheritedTransaction, Busy
    <2>9. OutcomeInv'
      BY <2>1, <2>2 DEF ConnInv, OutcomeInv
    <2> QED
      BY <2>4, <2>5, <2>8, <2>9 DEF ConnInv
  <1>2. CASE Acquire(w)
    <2>1. task[w].pc = "waiting" /\ Head(write_lock) = w /\ UNCHANGED <<write_conn, conns, tx, committed>>
      BY <1>2 DEF Acquire
    <2>2. \A v \in Writers : task[v].pc \notin Holding
      BY <2>1, OneHolder DEF Holding, Inside
    <2>3. write_conn # 0 => \A c \in 1 .. MaxConns : ~Busy(c) /\ ~Busy(c)'
      BY <2>1, <2>2 DEF ConnInv, TxInv, Holding, Busy
    <2>4. task[w].op \in {"write", "vacuum"}
      BY <1>0 DEF Tasks
    <2>5. CASE task[w].op = "vacuum"
      <3> DEFINE t == [task[w] EXCEPT !.pc = "vacuum"]
      <3>1. task' = [task EXCEPT ![w] = t] /\ UNCHANGED write_lock
        BY <1>2, <2>5 DEF Acquire
      <3>2. t \in Tasks /\ t.pc = "vacuum" /\ t.op = "vacuum"
        BY <1>0, <2>5 DEF Tasks, Holding
      <3>3. t.pc \in Holding /\ t.pc \notin Inside
        BY <3>2 DEF Holding, Inside
      <3> HIDE DEF t
      <3> QED
        BY <1>0, <2>1, <2>3, <2>5, <3>1, <3>2, <3>3, MoveKeepsConns
    <2>6. CASE task[w].op = "write" /\ write_conn = 0
      <3>1. EndTask(w, "error")
        BY <1>2, <2>6 DEF Acquire
      <3> QED
        BY <1>0, <2>1, <2>3, <3>1, EndKeepsConns
    <2>7. CASE task[w].op = "write" /\ write_conn # 0
      <3> DEFINE t == [task[w] EXCEPT !.pc = "begin", !.on = write_conn]
      <3>1. task' = [task EXCEPT ![w] = t] /\ UNCHANGED write_lock
        BY <1>0, <1>2, <2>7 DEF Acquire
      <3>2. t \in Tasks /\ t.pc = "begin" /\ t.op = task[w].op /\ t.on = write_conn
        BY <1>0 DEF Tasks, Holding
      <3>3. t.pc \in Holding /\ t.pc \notin Inside
        BY <3>2 DEF Holding, Inside
      <3> HIDE DEF t
      <3> QED
        BY <1>0, <2>1, <2>3, <2>7, <3>1, <3>2, <3>3, MoveKeepsConns
    <2> QED
      BY <2>4, <2>5, <2>6, <2>7
  <1>3. CASE Vacuum(w)
    <2>1. task[w].pc = "vacuum" /\ UNCHANGED <<write_conn, conns, tx, committed>>
      BY <1>3 DEF Vacuum
    <2>2. task[w].pc \in Holding /\ task[w].op = "vacuum"
      BY <2>1 DEF Holding, ConnInv, OutcomeInv
    <2>3. \A v \in Writers : task[v].pc \notin Inside
      <3>1. \A v \in Writers : task[v].pc \in Holding => v = w
        BY <2>2, OneHolder
      <3> QED
        BY <2>1, <3>1 DEF Holding, Inside
    <2>4. write_conn # 0 => \A c \in 1 .. MaxConns : ~Busy(c)'
      BY <2>1, <2>3 DEF ConnInv, TxInv, Busy
    <2>5. \E how \in {"ok", "error"} : EndTask(w, how)
      BY <1>3 DEF Vacuum
    <2> QED
      BY <1>0, <2>1, <2>2, <2>4, <2>5, EndKeepsConns
  <1>4. CASE Begin(w)
    <2>1. task[w].pc = "begin" /\ UNCHANGED <<write_conn, conns, committed>>
      BY <1>4 DEF Begin
    <2>2. /\ task[w] \in Tasks /\ task[w].pc \in Holding
          /\ k \in 1 .. MaxConns /\ k # 0 /\ write_conn \in {0, k}
          /\ \A c \in 1 .. MaxConns : ~Busy(c)
      BY <2>1, InsideFacts
    <2> HIDE DEF k
    <2>3. CASE conns[k] = "open" /\ tx' = [tx EXCEPT ![k] = w] /\ SetTask(w, "body") /\ UNCHANGED write_lock
      <3> DEFINE t == [task[w] EXCEPT !.pc = "body"]
      <3>1. task' = [task EXCEPT ![w] = t]
        BY <1>0, <2>3 DEF SetTask
      <3>2. t \in Tasks /\ t.pc = "body" /\ t.op = task[w].op /\ t.on = k
        BY <2>2 DEF Tasks, Holding, Inside, k
      <3>3. t.pc \in Holding /\ t.pc \in Inside
        BY <3>2 DEF Holding, Inside
      <3>4. tx' \in [1 .. MaxConns -> Writers \union {Nobody}]
            /\ \A c \in 1 .. MaxConns : c # k => tx'[c] = tx[c]
        BY <1>0, <2>2, <2>3
      <3>5. \A c \in 1 .. MaxConns : Busy(c)' => c = k
        BY <2>1, <2>2, <3>4 DEF Busy
      <3>6. \A c \in 1 .. MaxConns : conns'[c] = "unopened" => tx'[c] = Nobody
        BY <1>0, <2>1, <2>3, <3>4
      <3> HIDE DEF t
      <3> QED
        BY <1>0, <2>1, <2>2, <2>3, <3>1, <3>2, <3>3, <3>4, <3>5, <3>6, MoveKeepsConns
    <2>4. CASE EndTask(w, "error") /\ UNCHANGED tx
      <3>1. \A c \in 1 .. MaxConns : ~Busy(c)'
        BY <2>1, <2>2, <2>4 DEF Busy
      <3> QED
        BY <1>0, <2>1, <2>2, <2>4, <3>1, EndKeepsConns
    <2> QED
      BY <1>4, <2>3, <2>4 DEF Begin, k
  <1>5. CASE Body(w)
    <2>1. task[w].pc = "body" /\ UNCHANGED <<write_conn, conns, tx, write_lock, committed>>
      BY <1>5 DEF Body
    <2>2. task[w].pc \in Inside
      BY <2>1 DEF Inside
    <2>3. /\ task[w] \in Tasks /\ task[w].pc \in Holding
          /\ k \in 1 .. MaxConns /\ k # 0 /\ write_conn \in {0, k}
          /\ \A c \in 1 .. MaxConns : Busy(c) => c = k
      BY <2>2, InsideFacts
    <2>4. PICK raised_ \in BOOLEAN :
            task' = [task EXCEPT ![w].pc = AfterBody(raised_), ![w].raised = raised_]
      BY <1>5 DEF Body
    <2> DEFINE t == [task[w] EXCEPT !.pc = AfterBody(raised_), !.raised = raised_]
    <2>5. task' = [task EXCEPT ![w] = t]
      BY <1>0, <2>4
    <2>6. AfterBody(raised_) \in {"rollback", "commit"} /\ (AfterBody(raised_) = "commit" => ~raised_)
      BY DEF AfterBody
    <2>7. /\ t \in Tasks /\ t.pc = AfterBody(raised_) /\ t.op = task[w].op /\ t.on = k
          /\ t.raised = raised_
      BY <2>3, <2>6 DEF Tasks, Holding, Inside
    <2>8. t.pc \in Holding /\ t.pc \in Inside /\ t.pc # "vacuum" /\ t.pc # "begin"
      BY <2>6, <2>7 DEF Holding, Inside
    <2>9. \A c \in 1 .. MaxConns : Busy(c)' => c = k
      BY <2>1, <2>3 DEF Busy
    <2> HIDE DEF t, k
    <2> QED
      BY <1>0, <2>1, <2>3, <2>5, <2>6, <2>7, <2>8, <2>9, MoveKeepsConns
  <1>6. CASE Commit(w)
    <2>1. task[w].pc = "commit" /\ UNCHANGED <<write_conn, conns>>
      BY <1>6 DEF Commit
    <2>2. task[w].pc \in Inside
      BY <2>1 DEF Inside
    <2>3. /\ task[w] \in Tasks /\ task[w].pc \in Holding
          /\ k \in 1 .. MaxConns /\ k # 0 /\ write_conn \in {0, k}
          /\ \A c \in 1 .. MaxConns : Busy(c) => c = k
      BY <2>2, InsideFacts
    <2>4. ~task[w].raised
      BY <2>1 DEF ConnInv, OutcomeInv
    <2> HIDE DEF k
    <2>5. CASE tx' = [tx EXCEPT ![k] = Nobody] /\ committed' = committed \union {w} /\ EndTask(w, "ok")
      <3>1. tx' \in [1 .. MaxConns -> Writers \union {Nobody}]
            /\ \A c \in 1 .. MaxConns : (c = k => tx'[c] = Nobody) /\ (c # k => tx'[c] = tx[c])
        BY <1>0, <2>3, <2>5
      <3>2. \A c \in 1 .. MaxConns : ~Busy(c)' /\ (conns'[c] = "unopened" => tx'[c] = Nobody)
        BY <1>0, <2>1, <2>3, <3>1 DEF Busy
      <3> QED
        BY <1>0, <2>1, <2>3, <2>5, <3>1, <3>2, EndKeepsConns
    <2>6. CASE conns[k] = "closed" /\ EndTask(w, "error") /\ UNCHANGED <<tx, committed>>
      <3>1. \A c \in 1 .. MaxConns : ~Busy(c)'
        BY <2>1, <2>3, <2>6 DEF Busy
      <3> QED
        BY <1>0, <2>1, <2>3, <2>6, <3>1, EndKeepsConns
    <2>7. CASE SetTask(w, "rollback") /\ UNCHANGED <<tx, committed, write_lock>>
      <3> DEFINE t == [task[w] EXCEPT !.pc = "rollback"]
      <3>1. task' = [task EXCEPT ![w] = t]
        BY <1>0, <2>7 DEF SetTask
      <3>2. t \in Tasks /\ t.pc = "rollback" /\ t.op = task[w].op /\ t.on = k
        BY <2>3 DEF Tasks, Holding, Inside, k
      <3>3. t.pc \in Holding /\ t.pc \in Inside
        BY <3>2 DEF Holding, Inside
      <3>4. \A c \in 1 .. MaxConns : Busy(c)' => c = k
        BY <2>1, <2>3, <2>7 DEF Busy
      <3> HIDE DEF t
      <3> QED
        BY <1>0, <2>1, <2>3, <2>7, <3>1, <3>2, <3>3, <3>4, MoveKeepsConns
    <2> QED
      BY <1>6, <2>4, <2>5, <2>6, <2>7 DEF Commit, k
  <1>7. CASE Rollback(w)
    <2>1. task[w].pc = "rollback" /\ UNCHANGED <<write_conn, conns, committed>>
      BY <1>7 DEF Rollback
    <2>2. task[w].pc \in Inside
      BY <2>1 DEF Inside
    <2>3. /\ task[w] \in Tasks /\ task[w].pc \in Holding
          /\ k \in 1 .. MaxConns /\ k # 0 /\ write_conn \in {0, k}
          /\ \A c \in 1 .. MaxConns : Busy(c) => c = k
      BY <2>2, InsideFacts
    <2> HIDE DEF k
    <2>4. CASE tx' = [tx EXCEPT ![k] = Nobody] /\ EndTask(w, "error")
      <3>1. tx' \in [1 .. MaxConns -> Writers \union {Nobody}]
            /\ \A c \in 1 .. MaxConns : (c = k => tx'[c] = Nobody) /\ (c # k => tx'[c] = tx[c])
        BY <1>0, <2>3, <2>4
      <3>2. \A c \in 1 .. MaxConns : ~Busy(c)' /\ (conns'[c] = "unopened" => tx'[c] = Nobody)
        BY <1>0, <2>1, <2>3, <3>1 DEF Busy
      <3> QED
        BY <1>0, <2>1, <2>3, <2>4, <3>1, <3>2, EndKeepsConns
    <2>5. CASE WhenRollbackFails(w) /\ UNCHANGED tx
      <3> DEFINE t == [task[w] EXCEPT !.pc = "replace"]
      <3>1. task' = [task EXCEPT ![w] = t] /\ UNCHANGED write_lock
        BY <1>0, <2>5 DEF WhenRollbackFails, SetTask
      <3>2. t \in Tasks /\ t.pc = "replace" /\ t.op = task[w].op /\ t.on = k
        BY <2>3 DEF Tasks, Holding, Inside, k
      <3>3. t.pc \in Holding /\ t.pc \in Inside
        BY <3>2 DEF Holding, Inside
      <3>4. \A c \in 1 .. MaxConns : Busy(c)' => c = k
        BY <2>1, <2>3, <2>5 DEF Busy
      <3> HIDE DEF t
      <3> QED
        BY <1>0, <2>1, <2>3, <2>5, <3>1, <3>2, <3>3, <3>4, MoveKeepsConns
    <2> QED
      BY <1>7, <2>4, <2>5 DEF Rollback, k
  <1>8. CASE ReplaceOpen(w)
    <2>1. task[w].pc = "replace" /\ UNCHANGED <<tx, committed>>
      BY <1>8 DEF ReplaceOpen
    <2>2. task[w].pc \in Inside
      BY <2>1 DEF Inside
    <2>3. /\ task[w] \in Tasks /\ task[w].pc \in Holding
          /\ k \in 1 .. MaxConns /\ k # 0 /\ write_conn \in {0, k}
          /\ \A c \in 1 .. MaxConns : Busy(c) => c = k
      BY <2>2, InsideFacts
    <2>4. CASE write_conn # k /\ EndTask(w, "error") /\ UNCHANGED <<write_conn, conns>>
      <3>1. write_conn' = 0
        BY <2>3, <2>4
      <3> QED
        BY <1>0, <2>1, <2>3, <2>4, <3>1, EndKeepsConns
    <2>5. CASE /\ write_conn = k
               /\ \E c \in Unopened :
                    /\ conns' = [conns EXCEPT ![c] = "open"]
                    /\ task' = [task EXCEPT ![w].pc = "swap", ![w].fresh = c]
               /\ UNCHANGED <<write_conn, write_lock>>
      <3>1. PICK c \in Unopened : /\ conns' = [conns EXCEPT ![c] = "open"]
                                  /\ task' = [task EXCEPT ![w].pc = "swap", ![w].fresh = c]
        BY <2>5
      <3>2. c \in 1 .. MaxConns /\ tx[c] = Nobody /\ c \in 0 .. MaxConns
        BY <1>0, ConnectionsAssumption DEF Unopened
      <3> DEFINE t == [task[w] EXCEPT !.pc = "swap", !.fresh = c]
      <3>3. task' = [task EXCEPT ![w] = t]
        BY <1>0, <3>1
      <3>4. t \in Tasks /\ t.pc = "swap" /\ t.op = task[w].op /\ t.on = k
        BY <2>3, <3>2 DEF Tasks, Holding, Inside
      <3>5. t.pc \in Holding /\ t.pc \in Inside
        BY <3>4 DEF Holding, Inside
      <3>6. conns' \in [1 .. MaxConns -> {"unopened", "open", "closed"}]
            /\ \A d \in 1 .. MaxConns : d # c => conns'[d] = conns[d]
        BY <1>0, <3>1
      <3>7. \A d \in 1 .. MaxConns : Busy(d)' => d = k
        BY <2>1, <2>3, <3>2, <3>6 DEF Busy
      <3>8. \A d \in 1 .. MaxConns : conns'[d] = "unopened" => tx'[d] = Nobody
        BY <1>0, <2>1, <3>2, <3>6
      <3> HIDE DEF t, k
      <3> QED
        BY <1>0, <2>1, <2>3, <2>5, <3>3, <3>4, <3>5, <3>6, <3>7, <3>8, MoveKeepsConns
    <2>6. CASE write_conn' = 0 /\ EndTask(w, "error") /\ UNCHANGED conns
      <3>1. 0 \in 0 .. MaxConns
        BY ConnectionsAssumption
      <3> QED
        BY <1>0, <2>1, <2>3, <2>6, <3>1, EndKeepsConns
    <2> QED
      BY <1>8, <2>4, <2>5, <2>6 DEF ReplaceOpen
  <1>9. CASE ReplaceSwap(w)
    <2>1. /\ task[w].pc = "swap" /\ UNCHANGED committed
          /\ conns' = [conns EXCEPT ![k] = "closed"] /\ tx' = [tx EXCEPT ![k] = Nobody]
          /\ write_conn' = task[w].fresh /\ EndTask(w, "error")
      BY <1>9 DEF ReplaceSwap
    <2>2. task[w].pc \in Inside
      BY <2>1 DEF Inside
    <2>3. /\ task[w] \in Tasks /\ task[w].pc \in Holding
          /\ k \in 1 .. MaxConns
          /\ \A c \in 1 .. MaxConns : Busy(c) => c = k
      BY <2>2, InsideFacts
    <2>4. write_conn' \in 0 .. MaxConns
      BY <2>1, <2>3 DEF Tasks
    <2> HIDE DEF k
    <2>5. /\ conns' \in [1 .. MaxConns -> {"unopened", "open", "closed"}]
          /\ tx' \in [1 .. MaxConns -> Writers \union {Nobody}]
          /\ \A c \in 1 .. MaxConns : IF c = k THEN conns'[c] = "closed" /\ tx'[c] = Nobody
                                      ELSE conns'[c] = conns[c] /\ tx'[c] = tx[c]
      BY <1>0, <2>1, <2>3
    <2>6. \A c \in 1 .. MaxConns : ~Busy(c)' /\ (conns'[c] = "unopened" => tx'[c] = Nobody)
      BY <1>0, <2>3, <2>5 DEF Busy
    <2> QED
      BY <2>1, <2>3, <2>4, <2>5, <2>6, EndKeepsConns
  <1> QED
    BY <1>1, <1>2, <1>3, <1>4, <1>5, <1>6, <1>7, <1>8, <1>9 DEF WriterStep

LEMMA ConnSteps == ConnInv /\ [ConnNext]_connVars => ConnInv'
  <1> SUFFICES ASSUME ConnInv, [ConnNext]_connVars PROVE ConnInv'
    OBVIOUS
  <1>1. ASSUME NEW w \in Writers, WriterStep(w)
        PROVE  ConnInv'
    BY <1>1, WriterSteps
  <1>2. ASSUME UNCHANGED <<write_conn, conns, tx, write_lock, task, committed>>
        PROVE  ConnInv'
    <2>1. /\ conns \in [1 .. MaxConns -> {"unopened", "open", "closed"}]
          /\ tx \in [1 .. MaxConns -> Writers \union {Nobody}]
      BY DEF ConnInv, ConnType
    <2> QED
      BY <1>2, <2>1, CloseKeepsConns
  <1>3. ASSUME NEW r \in Readers, ReaderStep(r)
        PROVE  ConnInv'
    BY <1>2, <1>3 DEF ReaderStep, ReadEnter, ReadGet, ReadEnd
  <1>4. CASE CloseReads
    BY <1>2, <1>4 DEF CloseReads
  <1>5. CASE CloseWrite
    <2>1. UNCHANGED <<write_conn, write_lock, task, committed>>
      BY <1>5 DEF CloseWrite
    <2>2. /\ conns \in [1 .. MaxConns -> {"unopened", "open", "closed"}]
          /\ tx \in [1 .. MaxConns -> Writers \union {Nobody}]
      BY DEF ConnInv, ConnType
    <2>3. /\ conns' \in [1 .. MaxConns -> {"unopened", "open", "closed"}]
          /\ tx' \in [1 .. MaxConns -> Writers \union {Nobody}]
          /\ \A c \in 1 .. MaxConns : \/ conns'[c] = conns[c] /\ tx'[c] = tx[c]
                                      \/ conns'[c] = "closed"
      BY <1>5, <2>2 DEF CloseWrite
    <2> QED
      BY <2>1, <2>3, CloseKeepsConns
  <1>6. CASE CloseForget
    <2>1. /\ write_conn' = 0 /\ UNCHANGED <<conns, tx, write_lock, task, committed>>
          /\ conns \in [1 .. MaxConns -> {"unopened", "open", "closed"}]
          /\ tx \in [1 .. MaxConns -> Writers \union {Nobody}]
      BY <1>6 DEF CloseForget, ConnInv, ConnType
    <2> QED
      BY <2>1, CloseKeepsConns
  <1>7. CASE UNCHANGED connVars
    BY <1>2, <1>7 DEF connVars
  <1> QED
    BY <1>1, <1>3, <1>4, <1>5, <1>6, <1>7 DEF ConnNext

\* However a writer's statements fail and whenever close() comes, no writer
\* inherits a transaction and a caller is told what became of its own: for any
\* number of writers, connections and errors.
THEOREM TransactionsAreSound == ConnSpec => []TransactionsSound
  <1>1. ConnInv => TransactionsSound
    BY DEF ConnInv, TxInv, OutcomeInv, TransactionsSound, CommittedExactly
  <1> QED
    BY <1>1, ConnInitially, ConnSteps, PTL DEF ConnSpec
-----------------------------------------------------------------------------
(* The model router, for any callers, requests, deployments and budgets    *)

\* A call whose escalation the audit trail shows.
OnRecord(c) == IF deployment.ledger THEN c \in ledger ELSE c \in unaudited

Abroad(c) == at[c] = "frontier" /\ pc[c] \in {"queued", "posting", "sleeping"}

\* What is about to cross was permitted, and what may be sent is on record.
CrossingsPermitted ==
    \A c \in Callers :
        /\ pc[c] = "recording" \/ Abroad(c) \/ c \in contacted => evaluate(request[c])
        /\ Abroad(c) \/ c \in contacted => OnRecord(c)

\* An invocation starts with a whole budget; one that sleeps has an attempt left.
FramesFit ==
    \A c \in Callers :
        /\ pc[c] = "queued" => frame[c] = NoFrame
        /\ pc[c] = "sleeping" => frame[c].tries + 1 < MaxAttempts

Holders == {c \in Callers : HoldsSlot(c)}

RouterInv ==
    /\ TypeOK /\ WithinDeadline /\ CrossingsPermitted /\ FramesFit
    /\ IsFiniteSet(Holders) /\ SlotsBalance /\ probed \intersect ForbiddenModes = {}

Frames == [attempt : Nat, tries : Nat, spent : Nat, delay : Nat]

LEMMA TimesFit ==
    /\ MaxAttempts \in Nat \ {0} /\ Deadline \in Nat \ {0}
    /\ NoFrame \in Frames /\ NoFrame.tries = 0 /\ NoFrame.spent = 0
  <1>1. MaxAttempts \in Nat \ {0} /\ Timeout \in Nat \ {0}
    BY TimesAssumption DEF MaxAttempts
  <1>2. \A m, n \in Nat \ {0} : m * n \in Nat \ {0}
    OBVIOUS
  <1>3. Deadline \in Nat \ {0}
    BY <1>1, <1>2 DEF Deadline
  <1>4. NoFrame \in Frames /\ NoFrame.tries = 0 /\ NoFrame.spent = 0
    BY DEF NoFrame, Frames
  <1> QED
    BY <1>1, <1>3, <1>4

\* A slot is taken and given back with the state of the call that has it.
LEMMA SlotsMove ==
    ASSUME RouterInv, NEW c \in Callers, NEW p, pc' = [pc EXCEPT ![c] = p],
           NEW h, h <=> p \in {"posting", "sleeping"},
           free' = (IF HoldsSlot(c) THEN free + 1 ELSE free) - (IF h THEN 1 ELSE 0)
    PROVE  IsFiniteSet(Holders') /\ SlotsBalance'
  <1>1. pc'[c] = p /\ \A d \in Callers : d # c => pc'[d] = pc[d]
    BY DEF RouterInv, TypeOK
  <1>2. IsFiniteSet(Holders) /\ free + Cardinality(Holders) = MaxConcurrentStreams /\ free \in Nat
    BY DEF RouterInv, SlotsBalance, Holders, TypeOK
  <1>3. /\ IsFiniteSet(Holders \ {c})
        /\ Cardinality(Holders \ {c}) = IF c \in Holders THEN Cardinality(Holders) - 1 ELSE Cardinality(Holders)
    BY <1>2, FS_RemoveElement
  <1>4. /\ IsFiniteSet((Holders \ {c}) \union {c})
        /\ Cardinality((Holders \ {c}) \union {c}) = Cardinality(Holders \ {c}) + 1
    BY <1>3, FS_AddElement
  <1>5. Cardinality(Holders) \in Nat /\ Cardinality(Holders \ {c}) \in Nat
    BY <1>2, <1>3, FS_CardinalityType
  <1>6. c \in Holders <=> HoldsSlot(c)
    BY DEF Holders
  <1>7. Holders' = IF h THEN (Holders \ {c}) \union {c} ELSE Holders \ {c}
    <2>1. \A d \in Callers : d \in Holders' <=> IF d = c THEN h ELSE d \in Holders
      BY <1>1 DEF Holders, HoldsSlot
    <2>2. Holders \subseteq Callers /\ Holders' \subseteq Callers
      BY DEF Holders
    <2> QED
      BY <2>1, <2>2
  <1>8. IsFiniteSet(Holders')
    BY <1>3, <1>4, <1>7
  <1>9. free' + Cardinality(Holders') = MaxConcurrentStreams
    BY <1>2, <1>3, <1>4, <1>5, <1>6, <1>7
  <1> QED
    BY <1>8, <1>9 DEF SlotsBalance, Holders

\* A step of one call: only what it changes has to be looked at.
LEMMA CallMoves ==
    ASSUME RouterInv, NEW c \in Callers, NEW p \in Waits \union Ends, NEW a \in {"local", "frontier"}, NEW f \in Frames,
           pc' = [pc EXCEPT ![c] = p], at' = [at EXCEPT ![c] = a], frame' = [frame EXCEPT ![c] = f],
           UNCHANGED <<deployment, request, probed>>,
           ledger \subseteq ledger', ledger' \subseteq ledger \union {c},
           unaudited \subseteq unaudited', unaudited' \subseteq unaudited \union {c},
           contacted \subseteq contacted', contacted' \subseteq contacted \union {c},
           p = "recording" => evaluate(request[c]),
           a = "frontier" /\ p \in {"queued", "posting", "sleeping"} => evaluate(request[c]) /\ OnRecord(c)',
           c \in contacted' \ contacted => evaluate(request[c]) /\ OnRecord(c)',
           f.tries < MaxAttempts, p = "queued" => f = NoFrame,
           p = "posting" => f.spent < Deadline,
           p = "sleeping" => f.spent + f.delay < Deadline /\ f.tries + 1 < MaxAttempts,
           NEW h, h <=> p \in {"posting", "sleeping"}, free' \in Nat,
           free' = (IF HoldsSlot(c) THEN free + 1 ELSE free) - (IF h THEN 1 ELSE 0)
    PROVE  RouterInv'
  <1>1. /\ pc'[c] = p /\ at'[c] = a /\ frame'[c] = f
        /\ \A d \in Callers : d # c => pc'[d] = pc[d] /\ at'[d] = at[d] /\ frame'[d] = frame[d]
    BY DEF RouterInv, TypeOK
  <1>2. TypeOK'
    BY DEF RouterInv, TypeOK, Frames
  <1>3. WithinDeadline'
    <2>1. \A d \in Callers : d # c =>
            /\ pc[d] = "posting" => frame[d].spent < Deadline
            /\ pc[d] = "sleeping" => frame[d].spent + frame[d].delay < Deadline
            /\ frame[d].tries < MaxAttempts
      BY DEF RouterInv, WithinDeadline
    <2> QED
      BY <1>1, <2>1 DEF WithinDeadline, Deadline, MaxAttempts
  <1>4. FramesFit'
    <2>1. MaxAttempts' = MaxAttempts /\ NoFrame' = NoFrame
      BY DEF MaxAttempts, NoFrame
    <2> QED
      BY <1>1, <2>1 DEF RouterInv, FramesFit
  <1>5. CrossingsPermitted'
    <2>1. \A d \in Callers : evaluate(request[d])' <=> evaluate(request[d])
      BY DEF evaluate, block_reasons
    <2>2. \A d \in Callers : OnRecord(d) => OnRecord(d)'
      BY DEF OnRecord
    <2>3. \A d \in Callers : d # c => (Abroad(d)' <=> Abroad(d)) /\ (d \in contacted' <=> d \in contacted)
      BY <1>1 DEF Abroad
    <2>4. Abroad(c)' => evaluate(request[c]) /\ OnRecord(c)'
      BY <1>1 DEF Abroad
    <2>5. ASSUME NEW d \in Callers, pc'[d] = "recording" \/ Abroad(d)' \/ d \in contacted'
          PROVE  evaluate(request[d])
      BY <1>1, <2>3, <2>4, <2>5 DEF RouterInv, CrossingsPermitted
    <2>6. ASSUME NEW d \in Callers, Abroad(d)' \/ d \in contacted'
          PROVE  OnRecord(d)'
      BY <2>2, <2>3, <2>4, <2>6 DEF RouterInv, CrossingsPermitted
    <2> QED
      BY <2>1, <2>5, <2>6 DEF CrossingsPermitted
  <1>6. IsFiniteSet(Holders') /\ SlotsBalance'
    BY SlotsMove
  <1> QED
    BY <1>2, <1>3, <1>4, <1>5, <1>6 DEF RouterInv

\* However a call ends, or comes to wait for the ledger, its slot is free.
LEMMA CallStops ==
    ASSUME RouterInv, NEW c \in Callers, NEW p \in Ends \union {"recording"},
           p = "recording" => evaluate(request[c]),
           End(c, p), UNCHANGED <<deployment, request, unaudited, probed>>,
           ledger \subseteq ledger', ledger' \subseteq ledger \union {c},
           contacted' = contacted,
           free' = IF HoldsSlot(c) THEN free + 1 ELSE free
    PROVE  RouterInv'
  <1>1. /\ pc' = [pc EXCEPT ![c] = p] /\ at' = [at EXCEPT ![c] = at[c]]
        /\ frame' = [frame EXCEPT ![c] = NoFrame] /\ at[c] \in {"local", "frontier"}
    BY DEF End, RouterInv, TypeOK
  <1>2. p \notin {"queued", "posting", "sleeping"} /\ p \in Waits \union Ends
    BY DEF Ends, Waits
  <1>3. free \in Nat
    BY DEF RouterInv, TypeOK
  <1>4. free' \in Nat /\ free' = (IF HoldsSlot(c) THEN free + 1 ELSE free) - 0
    BY <1>3
  <1>5. NoFrame.tries < MaxAttempts
    BY TimesFit
  <1> DEFINE h == FALSE
  <1>6. free' = (IF HoldsSlot(c) THEN free + 1 ELSE free) - (IF h THEN 1 ELSE 0)
    BY <1>4
  <1>7. h <=> p \in {"posting", "sleeping"}
    BY <1>2
  <1> QED
    BY <1>1, <1>2, <1>4, <1>5, <1>6, <1>7, TimesFit, CallMoves

\* A failed invocation: escalation, if it is the local provider's and permitted.
LEMMA CallFails ==
    ASSUME RouterInv, NEW c \in Callers, NEW how \in Ends, Fails(c, how),
           UNCHANGED <<deployment, request, ledger, unaudited, contacted, probed>>,
           free' = IF HoldsSlot(c) THEN free + 1 ELSE free
    PROVE  RouterInv'
  <1>1. PICK p \in Ends \union {"recording"} : End(c, p) /\ (p = "recording" => evaluate(request[c]))
    <2>1. "unavailable" \in Ends \union {"recording"} /\ "unavailable" # "recording" /\ how # "recording"
      BY DEF Ends
    <2> QED
      BY <2>1 DEF Fails, Escalate
  <1> QED
    BY <1>1, CallStops

LEMMA RouteKeeps ==
    ASSUME RouterInv, NEW c \in Callers, Route(c)
    PROVE  RouterInv'
  <1>1. pc[c] = "start" /\ ~HoldsSlot(c) /\ free \in Nat
        /\ UNCHANGED <<deployment, request, free, ledger, unaudited, contacted, probed, closed>>
    BY DEF Route, HoldsSlot, RouterInv, TypeOK
  <1>2. CASE evaluate(request[c]) /\ request[c].force
    <2>1. PICK p \in Ends \union {"recording"} : End(c, p)
      BY <1>2 DEF Route, Escalate, Ends
    <2> QED
      BY <1>1, <1>2, <2>1, CallStops
  <1>3. CASE ~(evaluate(request[c]) /\ request[c].force)
    <2>1. /\ pc' = [pc EXCEPT ![c] = "queued"] /\ at' = [at EXCEPT ![c] = "local"]
          /\ frame' = [frame EXCEPT ![c] = NoFrame]
      BY <1>3 DEF Route, Invoke
    <2> DEFINE h == FALSE
    <2>2. h <=> "queued" \in {"posting", "sleeping"}
      OBVIOUS
    <2>3. free' = (IF HoldsSlot(c) THEN free + 1 ELSE free) - (IF h THEN 1 ELSE 0)
      BY <1>1
    <2>4. "queued" \in Waits \union Ends /\ NoFrame.tries < MaxAttempts
      BY TimesFit DEF Waits
    <2> QED
      BY <1>1, <2>1, <2>2, <2>3, <2>4, TimesFit, CallMoves
  <1> QED
    BY <1>2, <1>3

\* The request leaves: to the frontier only from a call that is on record.
LEMMA PostKeeps ==
    ASSUME RouterInv, NEW c \in Callers, NEW f \in Frames, Post(c),
           pc[c] \in {"queued", "posting"}, f.spent = 0, f.tries = 0,
           frame' = [frame EXCEPT ![c] = f],
           UNCHANGED <<deployment, request, at, ledger, unaudited, probed>>,
           free' = IF HoldsSlot(c) THEN free ELSE free - 1, free' \in Nat
    PROVE  RouterInv'
  <1>1. /\ pc' = [pc EXCEPT ![c] = "posting"] /\ at' = [at EXCEPT ![c] = at[c]]
        /\ at[c] \in {"local", "frontier"} /\ free \in Nat
    BY DEF Post, RouterInv, TypeOK
  <1>2. contacted \subseteq contacted' /\ contacted' \subseteq contacted \union {c}
        /\ (c \in contacted' \ contacted => at[c] = "frontier")
    BY DEF Post
  <1>3. at[c] = "frontier" => evaluate(request[c]) /\ OnRecord(c)'
    BY DEF Abroad, OnRecord, RouterInv, CrossingsPermitted
  <1> DEFINE h == TRUE
  <1>4. h <=> "posting" \in {"posting", "sleeping"}
    OBVIOUS
  <1>5. free' = (IF HoldsSlot(c) THEN free + 1 ELSE free) - (IF h THEN 1 ELSE 0)
    BY <1>1
  <1>6. "posting" \in Waits \union Ends /\ f.tries < MaxAttempts /\ f.spent < Deadline
    BY TimesFit DEF Waits
  <1> QED
    BY <1>1, <1>2, <1>3, <1>4, <1>5, <1>6, CallMoves

LEMMA StartKeeps ==
    ASSUME RouterInv, NEW c \in Callers, Start(c)
    PROVE  RouterInv'
  <1> DEFINE kind == KindAt(at[c])
  <1>1. pc[c] = "queued" /\ free > 0 /\ ~HoldsSlot(c) /\ free \in Nat /\ frame[c] = NoFrame
        /\ UNCHANGED <<deployment, request, ledger, unaudited, probed>>
    BY DEF Start, HoldsSlot, RouterInv, TypeOK, FramesFit
  <1>2. {"malformed schema", "unavailable", "structured output", "returned"} \subseteq Ends
    BY DEF Ends
  <1>3. ASSUME NEW how \in Ends, Fails(c, how), UNCHANGED <<free, contacted>>
        PROVE  RouterInv'
    BY <1>1, <1>3, CallFails
  <1>4. ASSUME End(c, "returned"), UNCHANGED <<free, contacted>>
        PROVE  RouterInv'
    BY <1>1, <1>2, <1>4, CallStops
  <1>5. ASSUME Post(c), free' = free - 1, UNCHANGED <<at, frame>>
        PROVE  RouterInv'
    <2>1. frame' = [frame EXCEPT ![c] = NoFrame]
      BY <1>1, <1>5 DEF RouterInv, TypeOK
    <2>2. free' \in Nat /\ free' = IF HoldsSlot(c) THEN free ELSE free - 1
      BY <1>1, <1>5
    <2>3. UNCHANGED <<deployment, request, at, ledger, unaudited, probed>> /\ pc[c] \in {"queued", "posting"}
      BY <1>1, <1>5
    <2> QED
      BY <1>5, <2>1, <2>2, <2>3, TimesFit, PostKeeps
  <1>6. CASE request[c].schema = "malformed"
    BY <1>2, <1>3, <1>6 DEF Start
  <1>7. CASE request[c].schema # "malformed" /\ NeedsKey(kind) /\ ~deployment.key
    BY <1>2, <1>3, <1>7 DEF Start
  <1>8. CASE request[c].schema # "malformed" /\ ~(NeedsKey(kind) /\ ~deployment.key) /\ kind = "echo"
    <2>1. PICK r \in complete_echo(request[c]) : IF r = "returned" THEN End(c, r) ELSE Fails(c, r)
      BY <1>8 DEF Start
    <2>2. r \in {"returned", "unavailable", "structured output"} /\ UNCHANGED <<free, contacted>>
      BY <1>8, <2>1 DEF complete_echo, Start
    <2> QED
      BY <1>2, <1>3, <1>4, <2>1, <2>2
  <1>9. CASE request[c].schema # "malformed" /\ ~(NeedsKey(kind) /\ ~deployment.key) /\ kind # "echo"
    BY <1>5, <1>9 DEF Start
  <1> QED
    BY <1>6, <1>7, <1>8, <1>9

\* An answer is returned, repaired by asking again, or fails the invocation.
LEMMA JudgeKeeps ==
    ASSUME RouterInv, NEW c \in Callers, pc[c] = "posting", NEW answer, Judge(c, answer),
           UNCHANGED <<deployment, request, ledger, unaudited, probed>>
    PROVE  RouterInv'
  <1>1. HoldsSlot(c) /\ free \in Nat /\ frame[c] \in Frames
    BY DEF HoldsSlot, RouterInv, TypeOK, Frames
  <1>2. {"unavailable", "structured output", "returned"} \subseteq Ends
    BY DEF Ends
  <1>3. ASSUME NEW how \in Ends, Fails(c, how), free' = free + 1, UNCHANGED contacted
        PROVE  RouterInv'
    BY <1>1, <1>3, CallFails
  <1>4. ASSUME End(c, "returned"), free' = free + 1, UNCHANGED contacted
        PROVE  RouterInv'
    BY <1>1, <1>2, <1>4, CallStops
  <1>5. ASSUME Post(c), frame' = [frame EXCEPT ![c] = NextAttempt(c)], UNCHANGED <<at, free>>
        PROVE  RouterInv'
    <2>1. NextAttempt(c) \in Frames /\ NextAttempt(c).tries = 0 /\ NextAttempt(c).spent = 0
      BY <1>1 DEF NextAttempt, NoFrame, Frames
    <2> QED
      BY <1>1, <1>5, <2>1, PostKeeps
  <1>6. CASE answer = "unavailable"
    BY <1>2, <1>3, <1>6 DEF Judge
  <1>7. CASE answer # "unavailable" /\ (request[c].schema = "none" \/ answer = "conforming")
    BY <1>2, <1>4, <1>7 DEF Judge
  <1>8. CASE answer # "unavailable" /\ ~(request[c].schema = "none" \/ answer = "conforming")
    <2>1. CASE Repairs(c)
      BY <1>5, <1>8, <2>1 DEF Judge
    <2>2. CASE ~Repairs(c)
      BY <1>2, <1>3, <1>8, <2>2 DEF Judge
    <2> QED
      BY <2>1, <2>2
  <1> QED
    BY <1>6, <1>7, <1>8

\* Powers of two are numbers as far as the schedule goes.
LEMMA DelaysFit ==
    ASSUME RouterInv, NEW c \in Callers, NEW x, NEW d \in Delays(c, x)
    PROVE  d \in Nat
  <1>1. frame[c].tries \in Nat /\ frame[c].tries < MaxAttempts
    BY DEF RouterInv, TypeOK, WithinDeadline
  <1> DEFINE n == Least(frame[c].tries, MaxBackoffExponent)
  <1>2. n \in 0 .. MaxTransportRetries
    BY <1>1, TimesAssumption DEF Least, MaxBackoffExponent, MaxAttempts
  <1>3. 2^n \in Nat
    BY <1>2, TimesAssumption
  <1> DEFINE b == BackoffBase * 2^n
  <1>4. b \in Nat
    <2> DEFINE q == 2^n
    <2>1. q \in Nat
      BY <1>3
    <2> HIDE DEF q
    <2>2. BackoffBase * q \in Nat
      BY <2>1, TimesAssumption
    <2> QED
      BY <2>2 DEF q
  <1> HIDE DEF b, n
  <1>5. Least(b, BackoffCap) \in Nat
    BY <1>4, TimesAssumption DEF Least
  <1>6. d \in 0 .. RetryAfterCap \/ d = Least(b, BackoffCap)
    BY DEF Delays, b, n
  <1> QED
    BY <1>5, <1>6

\* Going on with an invocation: to sleep, or from it to the next attempt.
LEMMA CallGoesOn ==
    ASSUME RouterInv, NEW c \in Callers, HoldsSlot(c), NEW p \in {"posting", "sleeping"}, NEW f \in Frames,
           pc' = [pc EXCEPT ![c] = p], frame' = [frame EXCEPT ![c] = f],
           f.tries < MaxAttempts,
           p = "posting" => f.spent < Deadline,
           p = "sleeping" => f.spent + f.delay < Deadline /\ f.tries + 1 < MaxAttempts,
           UNCHANGED <<deployment, request, at, free, ledger, unaudited, contacted, probed>>
    PROVE  RouterInv'
  <1>1. at' = [at EXCEPT ![c] = at[c]] /\ at[c] \in {"local", "frontier"} /\ free \in Nat
    BY DEF RouterInv, TypeOK
  <1>2. at[c] = "frontier" => evaluate(request[c]) /\ OnRecord(c)'
    BY DEF HoldsSlot, Abroad, OnRecord, RouterInv, CrossingsPermitted
  <1> DEFINE h == TRUE
  <1>3. h <=> p \in {"posting", "sleeping"}
    OBVIOUS
  <1>4. free' = (IF HoldsSlot(c) THEN free + 1 ELSE free) - (IF h THEN 1 ELSE 0)
    BY <1>1
  <1>5. p \in Waits \union Ends /\ p # "recording" /\ p # "queued"
    BY DEF Waits
  <1> QED
    BY <1>1, <1>2, <1>3, <1>4, <1>5, CallMoves

LEMMA ExchangeKeeps ==
    ASSUME RouterInv, NEW c \in Callers, Exchange(c)
    PROVE  RouterInv'
  <1>1. /\ pc[c] = "posting" /\ HoldsSlot(c) /\ free \in Nat
        /\ UNCHANGED <<deployment, request, ledger, unaudited, probed>>
    BY DEF Exchange, HoldsSlot, RouterInv, TypeOK
  <1>2. PICK x \in Exchanges \union {"unreachable"} : \E took \in Durations(c, x) :
           IF Answered(x)
           THEN Judge(c, Complete(KindAt(at[c]), x))
           ELSE \E d \in Delays(c, x) :
                  IF GivesUp(c, x, frame[c].spent + took, d)
                  THEN Fails(c, "unavailable") /\ free' = free + 1 /\ UNCHANGED <<contacted, closed>>
                  ELSE /\ pc' = [pc EXCEPT ![c] = "sleeping"]
                       /\ frame' = [frame EXCEPT ![c].spent = frame[c].spent + took, ![c].delay = d]
                       /\ UNCHANGED <<at, free, contacted, closed>>
    <2>1. CASE c \in closed
      BY <2>1 DEF Exchange
    <2>2. CASE c \notin closed
      BY <2>2 DEF Exchange
    <2> QED
      BY <2>1, <2>2
  <1>3. CASE Answered(x)
    <2>1. Judge(c, Complete(KindAt(at[c]), x))
      BY <1>2, <1>3
    <2> QED
      BY <1>1, <2>1, JudgeKeeps
  <1>4. CASE ~Answered(x)
    <2>0. PICK took \in Durations(c, x) :
             \E d \in Delays(c, x) :
               IF GivesUp(c, x, frame[c].spent + took, d)
               THEN Fails(c, "unavailable") /\ free' = free + 1 /\ UNCHANGED <<contacted, closed>>
               ELSE /\ pc' = [pc EXCEPT ![c] = "sleeping"]
                    /\ frame' = [frame EXCEPT ![c].spent = frame[c].spent + took, ![c].delay = d]
                    /\ UNCHANGED <<at, free, contacted, closed>>
      BY <1>2, <1>4
    <2> DEFINE now == frame[c].spent + took
    <2>1. PICK d \in Delays(c, x) :
             IF GivesUp(c, x, now, d)
             THEN Fails(c, "unavailable") /\ free' = free + 1 /\ UNCHANGED <<contacted, closed>>
             ELSE /\ pc' = [pc EXCEPT ![c] = "sleeping"]
                  /\ frame' = [frame EXCEPT ![c].spent = now, ![c].delay = d]
                  /\ UNCHANGED <<at, free, contacted, closed>>
      BY <2>0
    <2>2. frame[c] \in Frames /\ frame[c].spent < Deadline /\ frame[c].tries < MaxAttempts
      BY <1>1 DEF RouterInv, TypeOK, WithinDeadline, Frames
    <2>3. took \in Nat
      <3>1. Budget(c) \in Nat
        BY <2>2, TimesFit, TimesAssumption DEF Budget, Least, Frames
      <3> QED
        BY <3>1 DEF Durations
    <2>4. now \in Nat /\ d \in Nat
      BY <2>2, <2>3, DelaysFit DEF Frames
    <2> HIDE DEF now
    <2>5. CASE GivesUp(c, x, now, d)
      BY <1>1, <2>1, <2>5, CallFails DEF Ends
    <2>6. CASE ~GivesUp(c, x, now, d)
      <3> DEFINE f == [frame[c] EXCEPT !.spent = now, !.delay = d]
      <3>1. frame' = [frame EXCEPT ![c] = f]
        BY <2>1, <2>6 DEF RouterInv, TypeOK
      <3>2. f \in Frames /\ f.spent = now /\ f.delay = d /\ f.tries = frame[c].tries
        BY <2>2, <2>4 DEF Frames
      <3> HIDE DEF f
      <3>3. now + d < Deadline /\ f.tries + 1 < MaxAttempts
        BY <2>2, <2>4, <2>6, <3>2, TimesFit DEF GivesUp, Frames
      <3> QED
        BY <1>1, <2>1, <2>2, <2>6, <3>1, <3>2, <3>3, CallGoesOn
    <2> QED
      BY <2>5, <2>6
  <1> QED
    BY <1>3, <1>4

LEMMA WakeKeeps ==
    ASSUME RouterInv, NEW c \in Callers, Wake(c)
    PROVE  RouterInv'
  <1>1. /\ pc[c] = "sleeping" /\ HoldsSlot(c) /\ free \in Nat
        /\ UNCHANGED <<deployment, request, ledger, unaudited, contacted, probed, closed>>
    BY DEF Wake, HoldsSlot, RouterInv, TypeOK
  <1>2. PICK late \in 0 .. Lateness :
           IF frame[c].spent + frame[c].delay + late >= Deadline
           THEN Fails(c, "unavailable") /\ free' = free + 1
           ELSE /\ pc' = [pc EXCEPT ![c] = "posting"]
                /\ frame' = [frame EXCEPT ![c].tries = @ + 1,
                               ![c].spent = frame[c].spent + frame[c].delay + late, ![c].delay = 0]
                /\ UNCHANGED <<at, free>>
    BY DEF Wake
  <1> DEFINE now == frame[c].spent + frame[c].delay + late
  <1>3. frame[c] \in Frames /\ frame[c].tries + 1 < MaxAttempts
    BY <1>1 DEF RouterInv, TypeOK, FramesFit, Frames
  <1>4. now \in Nat /\ 0 \in Nat /\ frame[c].tries + 1 \in Nat
    BY <1>3, TimesAssumption DEF Frames
  <1>5. CASE now >= Deadline
    BY <1>1, <1>2, <1>5, CallFails DEF Ends
  <1>6. CASE ~(now >= Deadline)
    <2> DEFINE f == [frame[c] EXCEPT !.tries = @ + 1, !.spent = now, !.delay = 0]
    <2>1. frame' = [frame EXCEPT ![c] = f]
      BY <1>2, <1>6 DEF RouterInv, TypeOK
    <2> HIDE DEF now
    <2>2. f \in Frames /\ f.spent = now /\ f.tries = frame[c].tries + 1
      BY <1>3, <1>4 DEF Frames
    <2> HIDE DEF f
    <2>3. f.spent < Deadline /\ f.tries < MaxAttempts
      BY <1>3, <1>4, <1>6, <2>2, TimesFit
    <2> QED
      BY <1>1, <1>2, <1>6, <2>1, <2>2, <2>3, CallGoesOn DEF now
  <1> QED
    BY <1>5, <1>6

LEMMA PostOnClosedKeeps ==
    ASSUME RouterInv, NEW c \in Callers, PostOnClosed(c)
    PROVE  RouterInv'
  <1>1. HoldsSlot(c) /\ "client closed" \in Ends /\ Fails(c, "client closed") /\ free' = free + 1
        /\ UNCHANGED <<deployment, request, ledger, unaudited, contacted, probed, closed>>
    BY DEF PostOnClosed, HoldsSlot, Ends
  <1> QED
    BY <1>1, CallFails

\* The frontier is invoked once the crossing is on record.
LEMMA RecordKeeps ==
    ASSUME RouterInv, NEW c \in Callers, RecordEscalation(c)
    PROVE  RouterInv'
  <1>1. /\ pc[c] = "recording" /\ ~HoldsSlot(c) /\ free \in Nat /\ evaluate(request[c])
        /\ UNCHANGED <<deployment, request, free, contacted, probed, closed>>
    BY DEF RecordEscalation, HoldsSlot, RouterInv, TypeOK, CrossingsPermitted
  <1>2. ASSUME Invoke(c, "frontier"), OnRecord(c)',
               ledger \subseteq ledger', ledger' \subseteq ledger \union {c},
               unaudited \subseteq unaudited', unaudited' \subseteq unaudited \union {c}
        PROVE  RouterInv'
    <2>1. /\ pc' = [pc EXCEPT ![c] = "queued"] /\ at' = [at EXCEPT ![c] = "frontier"]
          /\ frame' = [frame EXCEPT ![c] = NoFrame]
      BY <1>2 DEF Invoke
    <2> DEFINE h == FALSE
    <2>2. h <=> "queued" \in {"posting", "sleeping"}
      OBVIOUS
    <2>3. free' = (IF HoldsSlot(c) THEN free + 1 ELSE free) - (IF h THEN 1 ELSE 0)
      BY <1>1
    <2>4. "queued" \in Waits \union Ends /\ NoFrame.tries < MaxAttempts
      BY TimesFit DEF Waits
    <2> QED
      BY <1>1, <1>2, <2>1, <2>2, <2>3, <2>4, TimesFit, CallMoves
  <1>3. CASE deployment.ledger /\ ledger' = ledger \union {c} /\ Invoke(c, "frontier") /\ unaudited' = unaudited
    BY <1>1, <1>2, <1>3 DEF OnRecord
  <1>4. CASE End(c, "append failed") /\ ledger' = ledger /\ unaudited' = unaudited
    BY <1>1, <1>4, CallStops DEF Ends
  <1>5. CASE ~deployment.ledger /\ unaudited' = unaudited \union {c} /\ Invoke(c, "frontier") /\ ledger' = ledger
    BY <1>1, <1>2, <1>5 DEF OnRecord
  <1> QED
    BY <1>3, <1>4, <1>5 DEF RecordEscalation

LEMMA CancelKeeps ==
    ASSUME RouterInv, NEW c \in Callers, Cancel(c)
    PROVE  RouterInv'
  <1>1. /\ "cancelled" \in Ends /\ End(c, "cancelled") /\ free' = IF HoldsSlot(c) THEN free + 1 ELSE free
        /\ UNCHANGED <<deployment, request, unaudited, contacted, probed, closed>>
    BY DEF Cancel, Ends
  <1>2. ledger \subseteq ledger' /\ ledger' \subseteq ledger \union {c}
    BY DEF Cancel
  <1> QED
    BY <1>1, <1>2, CallStops DEF Ends

\* What concerns no call's state: a client is closed, the frontier is probed.
LEMMA CallsStand ==
    ASSUME RouterInv, UNCHANGED <<deployment, request, pc, at, frame, free, ledger, unaudited, contacted>>,
           probed' \intersect ForbiddenModes = {}
    PROVE  RouterInv'
  <1>1. TypeOK' /\ WithinDeadline' /\ FramesFit'
    BY DEF RouterInv, TypeOK, WithinDeadline, FramesFit, Deadline, MaxAttempts, NoFrame
  <1>2. CrossingsPermitted'
    BY DEF RouterInv, CrossingsPermitted, Abroad, OnRecord, evaluate, block_reasons
  <1>3. IsFiniteSet(Holders') /\ SlotsBalance'
    BY DEF RouterInv, Holders, SlotsBalance, HoldsSlot
  <1> QED
    BY <1>1, <1>2, <1>3 DEF RouterInv

LEMMA RouterInitially == Init => RouterInv
  <1> SUFFICES ASSUME Init PROVE RouterInv
    OBVIOUS
  <1>1. \A c \in Callers : pc[c] = "start" /\ at[c] = "local" /\ frame[c] = NoFrame
    BY DEF Init
  <1>2. TypeOK
    BY TimesFit, SlotsAssumption DEF Init, TypeOK, Waits, Frames
  <1>3. WithinDeadline /\ FramesFit
    BY <1>1, TimesFit DEF WithinDeadline, FramesFit
  <1>4. CrossingsPermitted
    BY <1>1 DEF Init, CrossingsPermitted, Abroad
  <1>5. Holders = {}
    BY <1>1 DEF Holders, HoldsSlot
  <1>6. IsFiniteSet(Holders) /\ Cardinality(Holders) = 0
    BY <1>5, FS_EmptySet
  <1>7. SlotsBalance
    BY <1>6, SlotsAssumption DEF Init, SlotsBalance, Holders
  <1> QED
    BY <1>2, <1>3, <1>4, <1>6, <1>7 DEF Init, RouterInv

LEMMA RouterSteps == RouterInv /\ [Next]_vars => RouterInv'
  <1> SUFFICES ASSUME RouterInv, [Next]_vars PROVE RouterInv'
    OBVIOUS
  <1>1. ASSUME NEW c \in Callers, Step(c) PROVE RouterInv'
    BY <1>1, RouteKeeps, StartKeeps, ExchangeKeeps, WakeKeeps, PostOnClosedKeeps, RecordKeeps DEF Step
  <1>2. ASSUME NEW c \in Callers, Cancel(c) PROVE RouterInv'
    BY <1>2, CancelKeeps
  <1>3. ASSUME NEW p \in {"local", "frontier"}, Aclose(p) PROVE RouterInv'
    BY <1>3, CallsStand DEF Aclose, RouterInv
  <1>4. CASE Healthcheck
    <2>1. PICK m : evaluate([modality |-> MaxModality, mode |-> m]) /\ probed' = probed \union {m}
      BY <1>4 DEF Healthcheck
    <2>2. m \notin ForbiddenModes
      BY <2>1 DEF evaluate, block_reasons
    <2>3. probed' \intersect ForbiddenModes = {}
      BY <2>1, <2>2 DEF RouterInv
    <2> QED
      BY <1>4, <2>3, CallsStand DEF Healthcheck
  <1>5. CASE UNCHANGED vars
    BY <1>5, CallsStand DEF vars, RouterInv
  <1> QED
    BY <1>1, <1>2, <1>3, <1>4, <1>5 DEF Next

LEMMA RouterIsSound == RouterInv => RouterSound
  <1> SUFFICES ASSUME RouterInv PROVE RouterSound
    OBVIOUS
  <1>1. ASSUME NEW c \in contacted
        PROVE  /\ request[c].mode \notin ForbiddenModes
               /\ request[c].modality >= EscalateAtOrAbove
               /\ OnRecord(c)
    <2>1. c \in Callers /\ request[c] \in Requests
      BY DEF RouterInv, TypeOK
    <2>2. evaluate(request[c]) /\ OnRecord(c)
      BY <2>1 DEF RouterInv, CrossingsPermitted
    <2>3. request[c].mode \notin ForbiddenModes /\ ~(request[c].modality < EscalateAtOrAbove)
      BY <2>2 DEF evaluate, block_reasons
    <2> QED
      BY <2>1, <2>2, <2>3, RanksAssumption
  <1>2. EgressIsPermittedAndRecorded
    BY <1>1 DEF EgressIsPermittedAndRecorded, OnRecord, RouterInv
  <1> QED
    BY <1>2 DEF RouterInv, RouterSound

\* However many calls share the slots, and however they fail, are retried,
\* repaired, escalated or cancelled (router.py, _http.py, structured.py): no
\* request reaches the frontier unless policy lets it and the crossing is on
\* record, slots are neither leaked nor freed twice, and a call keeps its budget.
THEOREM RouterAlwaysSound == Spec => []RouterSound
  BY RouterInitially, RouterSteps, RouterIsSound, PTL DEF Spec
=============================================================================
