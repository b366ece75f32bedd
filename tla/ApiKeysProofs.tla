--------------------------- MODULE ApiKeysProofs ----------------------------
(***************************************************************************)
(* Theorems about ApiKeys for any number of keys, commands and requests.   *)
(***************************************************************************)
EXTENDS ApiKeys, TLAPS

USE ApiKeysAssumption DEF Null

-----------------------------------------------------------------------------
(***************************************************************************)
(* Type correctness.                                                       *)
(***************************************************************************)

\* A revocation and a recorded use write well-formed rows.
LEMMA RowTypes ==
  ASSUME TypeOK
  PROVE  /\ NoRow \in ManagementApiKey
         /\ [NoRow EXCEPT !.exists = TRUE] \in ManagementApiKey
         /\ \A c \in Commands : RevokedRow(c, cmd[c].key) \in ManagementApiKey
         /\ \A r \in Requests : UsedRow(r) \in ManagementApiKey
  <1>1. NoRow \in ManagementApiKey /\ [NoRow EXCEPT !.exists = TRUE] \in ManagementApiKey
    BY DEF NoRow, ManagementApiKey
  <1>2. ASSUME NEW c \in Commands PROVE RevokedRow(c, cmd[c].key) \in ManagementApiKey
    <2>1. key[cmd[c].key] \in ManagementApiKey /\ cmd[c].now \in Nat
      BY DEF TypeOK
    <2> QED
      BY <2>1 DEF RevokedRow, ManagementApiKey
  <1>3. ASSUME NEW r \in Requests PROVE UsedRow(r) \in ManagementApiKey
    <2>1. key[req[r].key] \in ManagementApiKey /\ clock \in Nat
      BY DEF TypeOK
    <2> QED
      BY <2>1 DEF UsedRow, ManagementApiKey
  <1> QED
    BY <1>1, <1>2, <1>3

\* Initially every variable has its type and nobody has loaded anything.
LEMMA InitTypes ==
  ASSUME Init
  PROVE  TypeOK /\ \A c \in Commands : cmd[c].pc = "ready"
  <1>1. NoRow \in ManagementApiKey
    BY DEF NoRow, ManagementApiKey
  <1>2. cmd \in [Commands -> [pc : {"ready", "stamped", "loaded", "done"}, key : Keys,
                             now : Nat, loaded : ManagementApiKey]]
    <2>1. \A c \in Commands : cmd[c] \in [pc : {"ready"}, key : Keys, now : {Null}, loaded : {NoRow}]
      BY DEF Init
    <2>2. \A c \in Commands : cmd[c] \in [pc : {"ready", "stamped", "loaded", "done"}, key : Keys,
                                          now : Nat, loaded : ManagementApiKey]
      BY <1>1, <2>1
    <2> QED
      BY <2>2 DEF Init
  <1>3. req \in [Requests -> [pc : {"ready", "arrived", "authenticated", "expired",
                                   "principal", "refused"},
                             key : Keys, loaded : ManagementApiKey]]
    <2>1. \A r \in Requests : req[r] \in [pc : {"ready"}, key : Keys, loaded : {NoRow}]
      BY DEF Init
    <2>2. \A r \in Requests :
            req[r] \in [pc : {"ready", "arrived", "authenticated", "expired",
                             "principal", "refused"},
                       key : Keys, loaded : ManagementApiKey]
      BY <1>1, <2>1
    <2> QED
      BY <2>2 DEF Init
  <1> QED
    BY <1>1, <1>2, <1>3 DEF Init, TypeOK

\* Every step keeps every variable in its type.
LEMMA TypeStep == TypeOK /\ [Next]_vars => TypeOK'
  <1> SUFFICES ASSUME TypeOK, [Next]_vars PROVE TypeOK'
    OBVIOUS
  <1>1. CASE Tick
    BY <1>1 DEF Tick, TypeOK
  <1>2. ASSUME NEW k \in Keys, create_key(k) PROVE TypeOK'
    BY <1>2, RowTypes DEF create_key, TypeOK
  <1>3. ASSUME NEW c \in Commands, CommandStep(c) PROVE TypeOK'
    <2> DEFINE Command == [pc : {"ready", "stamped", "loaded", "done"}, key : Keys,
                           now : Nat, loaded : ManagementApiKey]
    <2>1. cmd \in [Commands -> Command] /\ cmd[c] \in Command /\ clock \in Nat
      BY DEF TypeOK
    <2>2. CASE _revoke_key(c)
      <3>1. /\ cmd' = [cmd EXCEPT ![c].pc = "stamped", ![c].now = clock]
            /\ UNCHANGED <<clock, key, req, reported, barred>>
        BY <2>2 DEF _revoke_key
      <3>2. cmd' \in [Commands -> Command]
        BY <2>1, <3>1
      <3> QED
        BY <3>1, <3>2 DEF TypeOK
    <2>3. CASE LoadKey(c)
      <3>1. key[cmd[c].key] \in ManagementApiKey
        BY DEF TypeOK
      <3>2. /\ cmd' = [cmd EXCEPT ![c].pc = "loaded", ![c].loaded = key[cmd[c].key]]
            /\ UNCHANGED <<clock, key, req, reported, barred>>
        BY <2>3 DEF LoadKey
      <3>3. cmd' \in [Commands -> Command]
        BY <2>1, <3>1, <3>2
      <3> QED
        BY <3>2, <3>3 DEF TypeOK
    <2>4. CASE UnknownKey(c) \/ CommandDies(c)
      <3>1. cmd' = [cmd EXCEPT ![c].pc = "done"] /\ UNCHANGED <<clock, key, req, reported, barred>>
        BY <2>4 DEF UnknownKey, CommandDies
      <3>2. cmd' \in [Commands -> Command]
        BY <2>1, <3>1
      <3> QED
        BY <3>1, <3>2 DEF TypeOK
    <2>5. CASE revoke_management_key(c)
      <3>1. cmd[c].key \in Keys /\ clock \in Nat
        BY DEF TypeOK
      <3>2. reported' \in [Keys -> Nat]
        BY <2>5, <3>1 DEF revoke_management_key, TypeOK
      <3> QED
        BY <2>5, <3>1, <3>2, RowTypes DEF revoke_management_key, TypeOK
    <2> QED
      BY <1>3, <2>2, <2>3, <2>4, <2>5 DEF CommandStep
  <1>4. ASSUME NEW r \in Requests, RequestStep(r) PROVE TypeOK'
    <2> DEFINE Principal == [pc : {"ready", "arrived", "authenticated", "expired",
                                   "principal", "refused"},
                             key : Keys, loaded : ManagementApiKey]
    <2>0. req \in [Requests -> Principal] /\ key[req[r].key] \in ManagementApiKey
      BY DEF TypeOK
    <2>1. CASE Arrive(r)
      BY <2>1 DEF Arrive, TypeOK
    <2>2. CASE require_management_key(r) \/ InvalidApiKey(r)
      <3>1. \/ req' = [req EXCEPT ![r].pc = "authenticated", ![r].loaded = key[req[r].key]]
            \/ req' = [req EXCEPT ![r].pc = "refused"]
        BY <2>2 DEF require_management_key, InvalidApiKey
      <3>2. ASSUME req' = [req EXCEPT ![r].pc = "authenticated", ![r].loaded = key[req[r].key]]
            PROVE  req' \in [Requests -> Principal]
        BY <2>0, <3>2
      <3>3. ASSUME req' = [req EXCEPT ![r].pc = "refused"]
            PROVE  req' \in [Requests -> Principal]
        BY <2>0, <3>3
      <3>4. req' \in [Requests -> Principal]
        BY <3>1, <3>2, <3>3
      <3>5. UNCHANGED <<clock, key, cmd, reported, barred>>
        BY <2>2 DEF require_management_key, InvalidApiKey
      <3> QED
        BY <3>4, <3>5 DEF TypeOK
    <2>3. CASE record_management_key_use(r)
      BY <2>3, RowTypes DEF record_management_key_use, TypeOK
    <2>4. CASE RecordUseFails(r) \/ ReloadFails(r)
      <3>1. \/ req' = [req EXCEPT ![r].pc = "expired"]
            \/ req' = [req EXCEPT ![r].pc = "refused"]
        BY <2>4 DEF RecordUseFails, ReloadFails
      <3>2. req' \in [Requests -> Principal]
        BY <2>0, <3>1
      <3> QED
        BY <2>4, <3>2 DEF RecordUseFails, ReloadFails, TypeOK
    <2>5. CASE Reload(r)
      <3>1. req' \in [Requests -> Principal]
        BY <2>0, <2>5 DEF Reload
      <3> QED
        BY <2>5, <3>1 DEF Reload, TypeOK
    <2> QED
      BY <1>4, <2>1, <2>2, <2>3, <2>4, <2>5 DEF RequestStep
  <1>5. CASE UNCHANGED vars
    BY <1>5 DEF vars, TypeOK
  <1> QED
    BY <1>1, <1>2, <1>3, <1>4, <1>5 DEF Next

\* Every variable of the key table, the commands and the requests keeps its type.
THEOREM KeysTypeCorrect == Spec => []TypeOK
  <1>1. Init => TypeOK
    BY InitTypes
  <1> QED
    BY <1>1, TypeStep, PTL DEF Spec

-----------------------------------------------------------------------------
(***************************************************************************)
(* Revocation.                                                             *)
(***************************************************************************)

\* Only a key that exists is revoked, so creating one never wipes a revocation out.
RevokedExists == \A k \in Keys : key[k].revoked_at # Null => key[k].exists

\* What a command loaded as revoked still is, and the moment it took is one that has been.
LoadedStillTrue ==
  \A c \in Commands :
    /\ cmd[c].pc \in {"stamped", "loaded"} => cmd[c].now \in 1..clock
    /\ cmd[c].pc = "loaded" => key[cmd[c].key].exists
    /\ cmd[c].pc = "loaded" /\ cmd[c].loaded.revoked_at # Null =>
         key[cmd[c].key].revoked_at # Null

\* A key is revoked exactly when a command has reported it.
ReportedRevoked == \A k \in Keys : reported[k] # Null <=> key[k].revoked_at # Null

\* Whoever loaded a key as active took its moment before the key was reported.
StaleBeforeReport ==
  \A c \in Commands :
    LET k == cmd[c].key IN
    cmd[c].pc = "loaded" /\ cmd[c].loaded.revoked_at = Null /\ reported[k] # Null =>
      cmd[c].now <= reported[k]

BarredPresentReported ==
  \A r \in barred : reported[req[r].key] # Null /\ req[r].pc \in {"arrived", "refused"}

\* The inductive invariant.
KeyInv ==
  /\ TypeOK
  /\ RevokedExists
  /\ LoadedStillTrue
  /\ ReportedRevoked
  /\ StaleBeforeReport
  /\ MomentWithinReport
  /\ BarredPresentReported

\* No step takes a revocation back: create_key needs a key that does not exist, a
\* revocation writes a moment, and a recorded use writes another column.
LEMMA RevocationStays ==
  ASSUME TypeOK, RevokedExists, LoadedStillTrue, [Next]_vars, NEW k \in Keys
  PROVE  /\ key[k].exists => key'[k].exists
         /\ key[k].revoked_at # Null => key'[k].revoked_at # Null
         /\ key'[k].revoked_at # Null => key'[k].exists
  <1> DEFINE Kept == /\ key[k].exists => key'[k].exists
                     /\ key[k].revoked_at # Null => key'[k].revoked_at # Null
                     /\ key'[k].revoked_at # Null => key'[k].exists
  <1>0. key[k].revoked_at # Null => key[k].exists
    BY DEF RevokedExists
  <1>1. CASE UNCHANGED key
    BY <1>0, <1>1
  <1>2. ASSUME NEW j \in Keys, create_key(j) PROVE Kept
    BY <1>0, <1>2 DEF create_key, NoRow, TypeOK
  <1>3. ASSUME NEW c \in Commands, revoke_management_key(c) PROVE Kept
    <2>1. cmd[c].now # Null /\ key[cmd[c].key].exists
      BY <1>3 DEF revoke_management_key, LoadedStillTrue
    <2>2. key' = [key EXCEPT ![cmd[c].key] = RevokedRow(c, cmd[c].key)]
      BY <1>3 DEF revoke_management_key
    <2>3. cmd[c].key \in Keys /\ key[cmd[c].key] \in ManagementApiKey
      BY DEF TypeOK
    <2> QED
      BY <1>0, <2>1, <2>2, <2>3 DEF RevokedRow, TypeOK, ManagementApiKey
  <1>4. ASSUME NEW r \in Requests, record_management_key_use(r) PROVE Kept
    BY <1>0, <1>4 DEF record_management_key_use, UsedRow, TypeOK, ManagementApiKey
  <1>5. \/ UNCHANGED key
        \/ \E j \in Keys : create_key(j)
        \/ \E c \in Commands : revoke_management_key(c)
        \/ \E r \in Requests : record_management_key_use(r)
    BY DEF Next, vars, Tick, CommandStep, _revoke_key, LoadKey, UnknownKey, CommandDies, RequestStep,
           Arrive, require_management_key, InvalidApiKey, RecordUseFails, Reload, ReloadFails
  <1> QED
    BY <1>1, <1>2, <1>3, <1>4, <1>5

\* What a step does to one command, and to the clock.
LEMMA CommandMoves ==
  ASSUME TypeOK, [Next]_vars, NEW c \in Commands
  PROVE  /\ cmd'[c].key = cmd[c].key /\ clock <= clock'
         /\ \/ cmd'[c] = cmd[c]
            \/ _revoke_key(c) /\ cmd'[c].pc = "stamped" /\ cmd'[c].now = clock
            \/ LoadKey(c) /\ cmd'[c].pc = "loaded" /\ cmd'[c].now = cmd[c].now
                          /\ cmd'[c].loaded = key[cmd[c].key]
            \/ cmd'[c].pc = "done"
  <1>0. cmd[c] \in [pc : {"ready", "stamped", "loaded", "done"}, key : Keys,
                    now : Nat, loaded : ManagementApiKey] /\ clock \in Nat
    BY DEF TypeOK
  <1>1. clock <= clock'
    <2>1. clock' = clock \/ clock' = clock + 1
      BY DEF Next, vars, Tick, create_key, CommandStep, _revoke_key, LoadKey, UnknownKey,
             revoke_management_key, CommandDies, RequestStep, Arrive, require_management_key,
             InvalidApiKey, record_management_key_use, RecordUseFails, Reload, ReloadFails
    <2> QED
      BY <1>0, <2>1
  <1>2. CASE UNCHANGED cmd
    BY <1>1, <1>2
  <1>3. ASSUME NEW d \in Commands, d # c, CommandStep(d) PROVE cmd'[c] = cmd[c]
    BY <1>3 DEF CommandStep, _revoke_key, LoadKey, UnknownKey, revoke_management_key,
                CommandDies, TypeOK
  <1>4. CASE _revoke_key(c)
    <2>1. cmd'[c] = [cmd[c] EXCEPT !.pc = "stamped", !.now = clock]
      BY <1>4 DEF _revoke_key, TypeOK
    <2> QED
      BY <1>0, <1>1, <1>4, <2>1
  <1>5. CASE LoadKey(c)
    <2>1. cmd'[c] = [cmd[c] EXCEPT !.pc = "loaded", !.loaded = key[cmd[c].key]]
      BY <1>5 DEF LoadKey, TypeOK
    <2> QED
      BY <1>0, <1>1, <1>5, <2>1
  <1>6. CASE UnknownKey(c) \/ revoke_management_key(c) \/ CommandDies(c)
    <2>1. cmd'[c] = [cmd[c] EXCEPT !.pc = "done"]
      BY <1>6 DEF UnknownKey, revoke_management_key, CommandDies, TypeOK
    <2> QED
      BY <1>0, <1>1, <2>1
  <1>7. UNCHANGED cmd \/ \E d \in Commands : CommandStep(d)
    BY DEF Next, vars, Tick, create_key, RequestStep, Arrive, require_management_key,
           InvalidApiKey, record_management_key_use, RecordUseFails, Reload, ReloadFails
  <1>8. CASE cmd'[c] = cmd[c]
    BY <1>1, <1>8
  <1> QED
    BY <1>2, <1>3, <1>4, <1>5, <1>6, <1>7, <1>8 DEF CommandStep

\* What a step does to one key: a revocation writes the moment of a command that loaded
\* the key as active, and reports the key if nobody has.
LEMMA KeyMoves ==
  ASSUME KeyInv, [Next]_vars, NEW k \in Keys
  PROVE  \/ key'[k].revoked_at = key[k].revoked_at /\ reported'[k] = reported[k]
         \/ /\ reported'[k] = IF reported[k] = Null THEN clock ELSE reported[k]
            /\ \E c \in Commands :
                 /\ cmd[c].pc = "loaded" /\ cmd[c].key = k
                 /\ key'[k].revoked_at = IF cmd[c].loaded.revoked_at = Null
                                         THEN cmd[c].now ELSE key[k].revoked_at
  <1> DEFINE Kept == key'[k].revoked_at = key[k].revoked_at /\ reported'[k] = reported[k]
  <1>0. TypeOK /\ key[k] \in ManagementApiKey
    BY DEF KeyInv, TypeOK
  <1>1. ASSUME NEW j \in Keys, create_key(j) PROVE Kept
    <2>1. j = k => key[k].revoked_at = Null
      BY <1>1 DEF create_key, KeyInv, RevokedExists
    <2> QED
      BY <1>0, <1>1, <2>1 DEF create_key, NoRow, TypeOK
  <1>2. ASSUME NEW r \in Requests, record_management_key_use(r) PROVE Kept
    BY <1>0, <1>2 DEF record_management_key_use, UsedRow, TypeOK, ManagementApiKey
  <1>3. ASSUME NEW c \in Commands, revoke_management_key(c), cmd[c].key # k PROVE Kept
    BY <1>0, <1>3 DEF revoke_management_key, TypeOK
  <1>4. ASSUME NEW c \in Commands, revoke_management_key(c), cmd[c].key = k
        PROVE  /\ reported'[k] = IF reported[k] = Null THEN clock ELSE reported[k]
               /\ cmd[c].pc = "loaded"
               /\ key'[k].revoked_at = IF cmd[c].loaded.revoked_at = Null
                                       THEN cmd[c].now ELSE key[k].revoked_at
    <2>1. key'[k] = RevokedRow(c, k)
      BY <1>0, <1>4 DEF revoke_management_key, TypeOK
    <2>2. RevokedRow(c, k).revoked_at = IF cmd[c].loaded.revoked_at = Null
                                        THEN cmd[c].now ELSE key[k].revoked_at
      BY <1>0 DEF RevokedRow, ManagementApiKey
    <2> QED
      BY <1>0, <1>4, <2>1, <2>2 DEF revoke_management_key, TypeOK
  <1>5. CASE UNCHANGED <<key, reported>>
    BY <1>5
  <1>6. \/ UNCHANGED <<key, reported>>
        \/ \E j \in Keys : create_key(j)
        \/ \E c \in Commands : revoke_management_key(c)
        \/ \E r \in Requests : record_management_key_use(r)
    BY DEF Next, vars, Tick, CommandStep, _revoke_key, LoadKey, UnknownKey, CommandDies,
           RequestStep, Arrive, require_management_key, InvalidApiKey, RecordUseFails,
           Reload, ReloadFails
  <1> QED
    BY <1>1, <1>2, <1>3, <1>4, <1>5, <1>6

\* What has been reported stays reported, at the same instant.
LEMMA ReportsStay ==
  ASSUME KeyInv, [Next]_vars, NEW k \in Keys, reported[k] # Null
  PROVE  reported'[k] = reported[k]
  BY KeyMoves

\* A request that arrived with a reported key is still waiting or was refused.
LEMMA BarredStay ==
  ASSUME KeyInv, [Next]_vars, TypeOK'
  PROVE  BarredPresentReported'
  <1>0. TypeOK /\ \A r \in Requests : req[r].key \in Keys
    BY DEF KeyInv, TypeOK
  <1>1. \A k \in Keys : reported[k] # Null => reported'[k] # Null
    BY ReportsStay
  <1>2. CASE UNCHANGED <<req, barred>>
    BY <1>0, <1>1, <1>2 DEF KeyInv, BarredPresentReported, TypeOK
  <1>3. ASSUME NEW r \in Requests, Arrive(r) PROVE BarredPresentReported'
    BY <1>0, <1>3 DEF Arrive, KeyInv, BarredPresentReported, TypeOK
  <1>4. ASSUME NEW r \in Requests, require_management_key(r) PROVE BarredPresentReported'
    <2>1. r \notin barred
      <3>1. key[req[r].key].revoked_at = Null
        BY <1>4 DEF require_management_key, Authenticates
      <3>2. reported[req[r].key] = Null
        BY <1>0, <3>1 DEF KeyInv, ReportedRevoked
      <3> QED
        BY <3>2 DEF KeyInv, BarredPresentReported
    <2> QED
      BY <1>4, <2>1 DEF require_management_key, KeyInv, BarredPresentReported, TypeOK
  <1>5. ASSUME NEW r \in Requests, InvalidApiKey(r) PROVE BarredPresentReported'
    BY <1>5 DEF InvalidApiKey, KeyInv, BarredPresentReported, TypeOK
  <1>6. ASSUME NEW r \in Requests,
               record_management_key_use(r) \/ RecordUseFails(r) \/ Reload(r) \/ ReloadFails(r)
        PROVE  BarredPresentReported'
    <2>1. r \notin barred
      BY <1>6 DEF record_management_key_use, RecordUseFails, Reload, ReloadFails, KeyInv,
                  BarredPresentReported
    <2>2. UNCHANGED <<reported, barred>> /\ \A q \in Requests \ {r} : req'[q] = req[q]
      BY <1>0, <1>6 DEF record_management_key_use, RecordUseFails, Reload, ReloadFails, TypeOK
    <2> QED
      BY <1>0, <2>1, <2>2 DEF KeyInv, BarredPresentReported, TypeOK
  <1> QED
    BY <1>2, <1>3, <1>4, <1>5, <1>6 DEF Next, vars, Tick, create_key, CommandStep, _revoke_key,
           LoadKey, UnknownKey, revoke_management_key, CommandDies, RequestStep

\* Every step keeps the invariant.
LEMMA KeyInvStep == KeyInv /\ [Next]_vars => KeyInv'
  <1> SUFFICES ASSUME KeyInv, [Next]_vars PROVE KeyInv'
    OBVIOUS
  <1>0. TypeOK /\ TypeOK'
    BY TypeStep DEF KeyInv
  <1>1. /\ clock \in Nat /\ clock' \in Nat /\ clock # 0
        /\ \A k \in Keys : reported[k] \in Nat /\ key[k].revoked_at \in Nat
        /\ \A c \in Commands : cmd[c].key \in Keys /\ cmd[c].now \in Nat
                               /\ cmd[c].loaded.revoked_at \in Nat
    BY <1>0 DEF TypeOK, ManagementApiKey
  <1>2. \A k \in Keys : /\ key[k].exists => key'[k].exists
                        /\ key[k].revoked_at # Null => key'[k].revoked_at # Null
                        /\ key'[k].revoked_at # Null => key'[k].exists
    BY RevocationStays DEF KeyInv
  <1>3. RevokedExists'
    BY <1>2 DEF RevokedExists
  <1>4. LoadedStillTrue'
    <2> SUFFICES ASSUME NEW c \in Commands
                 PROVE  /\ cmd'[c].pc \in {"stamped", "loaded"} => cmd'[c].now \in 1..clock'
                        /\ cmd'[c].pc = "loaded" => key'[cmd'[c].key].exists
                        /\ cmd'[c].pc = "loaded" /\ cmd'[c].loaded.revoked_at # Null =>
                             key'[cmd'[c].key].revoked_at # Null
      BY DEF LoadedStillTrue
    <2>1. cmd'[c].key = cmd[c].key /\ clock <= clock'
      BY <1>0, CommandMoves
    <2>2. /\ cmd[c].pc \in {"stamped", "loaded"} => cmd[c].now \in 1..clock
          /\ cmd[c].pc = "loaded" => key[cmd[c].key].exists
          /\ cmd[c].pc = "loaded" /\ cmd[c].loaded.revoked_at # Null =>
               key[cmd[c].key].revoked_at # Null
      BY DEF KeyInv, LoadedStillTrue
    <2>3. CASE cmd'[c] = cmd[c]
      BY <1>1, <1>2, <2>1, <2>2, <2>3
    <2>4. CASE _revoke_key(c) /\ cmd'[c].pc = "stamped" /\ cmd'[c].now = clock
      BY <1>1, <2>1, <2>4
    <2>5. CASE LoadKey(c) /\ cmd'[c].pc = "loaded" /\ cmd'[c].now = cmd[c].now
                          /\ cmd'[c].loaded = key[cmd[c].key]
      <3>1. cmd[c].pc = "stamped" /\ key[cmd[c].key].exists
        BY <2>5 DEF LoadKey
      <3> QED
        BY <1>1, <1>2, <2>1, <2>2, <2>5, <3>1
    <2>6. CASE cmd'[c].pc = "done"
      BY <2>6
    <2> QED
      BY <1>0, <2>3, <2>4, <2>5, <2>6, CommandMoves
  <1>5. ASSUME NEW k \in Keys
        PROVE  /\ reported'[k] # Null <=> key'[k].revoked_at # Null
               /\ reported'[k] # Null => key'[k].revoked_at \in 1..reported'[k]
    <2>1. /\ reported[k] # Null <=> key[k].revoked_at # Null
          /\ reported[k] # Null => key[k].revoked_at \in 1..reported[k]
      BY DEF KeyInv, ReportedRevoked, MomentWithinReport
    <2>2. CASE key'[k].revoked_at = key[k].revoked_at /\ reported'[k] = reported[k]
      BY <2>1, <2>2
    <2>3. ASSUME reported'[k] = IF reported[k] = Null THEN clock ELSE reported[k],
                 NEW c \in Commands, cmd[c].pc = "loaded", cmd[c].key = k,
                 key'[k].revoked_at = IF cmd[c].loaded.revoked_at = Null
                                      THEN cmd[c].now ELSE key[k].revoked_at
          PROVE  reported'[k] # Null /\ key'[k].revoked_at \in 1..reported'[k]
      <3>1. /\ cmd[c].now \in 1..clock
            /\ cmd[c].loaded.revoked_at # Null => key[k].revoked_at # Null
            /\ cmd[c].loaded.revoked_at = Null /\ reported[k] # Null =>
                 cmd[c].now <= reported[k]
        BY <2>3 DEF KeyInv, LoadedStillTrue, StaleBeforeReport
      <3>2. CASE cmd[c].loaded.revoked_at = Null
        BY <1>1, <2>3, <3>1, <3>2
      <3>3. CASE cmd[c].loaded.revoked_at # Null
        BY <1>1, <2>1, <2>3, <3>1, <3>3
      <3> QED
        BY <3>2, <3>3
    <2>4. ASSUME reported'[k] # Null, key'[k].revoked_at \in 1..reported'[k]
          PROVE  key'[k].revoked_at # Null
      BY <2>4
    <2> QED
      BY <2>2, <2>3, <2>4, KeyMoves
  <1>6. StaleBeforeReport'
    <2> SUFFICES ASSUME NEW c \in Commands, cmd'[c].pc = "loaded",
                        cmd'[c].loaded.revoked_at = Null, reported'[cmd'[c].key] # Null
                 PROVE  cmd'[c].now <= reported'[cmd'[c].key]
      BY DEF StaleBeforeReport
    <2>0. PICK k \in Keys : k = cmd[c].key /\ k = cmd'[c].key
      BY <1>0, <1>1, CommandMoves
    <2>1. CASE cmd'[c] = cmd[c]
      <3>1. /\ cmd[c].now \in 1..clock
            /\ reported[k] # Null => cmd[c].now <= reported[k]
        BY <2>0, <2>1 DEF KeyInv, LoadedStillTrue, StaleBeforeReport
      <3>2. reported'[k] \in {reported[k], clock} /\ (reported[k] # Null => reported'[k] = reported[k])
        BY KeyMoves
      <3> QED
        BY <1>1, <2>0, <2>1, <3>1, <3>2
    <2>2. CASE LoadKey(c) /\ cmd'[c].loaded = key[cmd[c].key]
      <3>1. reported' = reported
        BY <2>2 DEF LoadKey
      <3> QED
        BY <2>0, <2>2, <3>1 DEF KeyInv, ReportedRevoked
    <2> QED
      BY <1>0, <2>1, <2>2, CommandMoves
  <1>7. BarredPresentReported'
    BY <1>0, BarredStay
  <1> QED
    BY <1>0, <1>3, <1>4, <1>5, <1>6, <1>7 DEF KeyInv, ReportedRevoked, MomentWithinReport

\* The invariant holds in every reachable state.
THEOREM KeyInvariant == Spec => []KeyInv
  <1>1. Init => KeyInv
    BY InitTypes DEF Init, KeyInv, NoRow, RevokedExists, LoadedStillTrue, ReportedRevoked,
                     StaleBeforeReport, MomentWithinReport, BarredPresentReported
  <1> QED
    BY <1>1, KeyInvStep, PTL DEF Spec

\* Once any revoke-key command has reported a key, no request that arrives afterwards is
\* authenticated with it, however many commands and requests raced.
THEOREM RevocationHolds == Spec => []ReportedRevocationHolds
  <1>1. KeyInv => ReportedRevocationHolds
    BY DEF KeyInv, ReportedRevoked, BarredPresentReported, ReportedRevocationHolds
  <1> QED
    BY <1>1, KeyInvariant, PTL

\* Racing commands move the moment of a revocation only among instants up to the one at
\* which the key was first reported.
THEOREM MomentBounded == Spec => []MomentWithinReport
  <1>1. KeyInv => MomentWithinReport
    BY DEF KeyInv
  <1> QED
    BY <1>1, KeyInvariant, PTL

\* No step reinstates a revoked key, recording its last use included.
THEOREM NeverReinstated == Spec => RevokedForGood
  <1>1. KeyInv /\ [Next]_vars =>
          [\A k \in Keys : key[k].revoked_at # Null => key'[k].revoked_at # Null]_vars
    BY RevocationStays DEF KeyInv
  <1> QED
    BY <1>1, KeyInvariant, PTL DEF Spec, RevokedForGood

=============================================================================
