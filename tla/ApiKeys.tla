------------------------------ MODULE ApiKeys -------------------------------
(***************************************************************************)
(* Management API keys: the create-key and revoke-key commands of cli.py,  *)
(* require_management_key of api/security.py and the key functions of      *)
(* storage.py.  Commands run in processes of their own, any number at      *)
(* once, next to the requests that present the keys.                       *)
(***************************************************************************)
EXTENDS Integers

CONSTANTS Keys,      \* credentials, minted or not
          Commands,  \* revoke-key commands
          Requests,  \* management requests
          MaxClock   \* bound: the last instant of a behaviour

ASSUME ApiKeysAssumption == MaxClock \in Nat \ {0}

VARIABLES clock,     \* the instant utcnow() returns, from 1
          key,       \* the management_api_keys table
          cmd,       \* where each revoke-key command is and what its session loaded
          req,       \* where each request is and the key it presented
          reported,  \* the instant a command first reported each key as revoked
          barred     \* requests that arrived with a key reported as revoked

vars == <<clock, key, cmd, req, reported, barred>>

Null == 0

ManagementApiKey == [exists : BOOLEAN, revoked_at : Nat, last_used_at : Nat]
NoRow            == [exists |-> FALSE, revoked_at |-> Null, last_used_at |-> Null]

Init ==
  /\ clock = 1
  /\ key = [k \in Keys |-> NoRow]
  /\ cmd \in [Commands -> [pc : {"ready"}, key : Keys, now : {Null}, loaded : {NoRow}]]
  /\ req \in [Requests -> [pc : {"ready"}, key : Keys, loaded : {NoRow}]]
  /\ reported = [k \in Keys |-> Null]
  /\ barred = {}

Tick ==
  /\ clock < MaxClock
  /\ clock' = clock + 1
  /\ UNCHANGED <<key, cmd, req, reported, barred>>

-----------------------------------------------------------------------------
(***************************************************************************)
(* The commands.                                                           *)
(***************************************************************************)
\* The digest is stored and committed before the credential is shown.
create_key(k) ==
  /\ ~key[k].exists
  /\ key' = [key EXCEPT ![k] = [NoRow EXCEPT !.exists = TRUE]]
  /\ UNCHANGED <<clock, cmd, req, reported, barred>>

\* The command reads its instant, then revoke_management_key the row.  Nothing holds the
\* row _revocation_moment read before, so the session queries again, and that one only
\* words the command's output.
_revoke_key(c) ==
  /\ cmd[c].pc = "ready"
  /\ cmd' = [cmd EXCEPT ![c].pc = "stamped", ![c].now = clock]
  /\ UNCHANGED <<clock, key, req, reported, barred>>

LoadKey(c) ==
  /\ cmd[c].pc = "stamped"
  /\ key[cmd[c].key].exists
  /\ cmd' = [cmd EXCEPT ![c].pc = "loaded", ![c].loaded = key[cmd[c].key]]
  /\ UNCHANGED <<clock, key, req, reported, barred>>

\* No such key: the command exits with an error.
UnknownKey(c) ==
  /\ cmd[c].pc = "stamped"
  /\ ~key[cmd[c].key].exists
  /\ cmd' = [cmd EXCEPT ![c].pc = "done"]
  /\ UNCHANGED <<clock, key, req, reported, barred>>

\* Mutant: the moment is taken when the row is written.
RevokedAtCommit(c, k) ==
  IF cmd[c].loaded.revoked_at = Null THEN [key[k] EXCEPT !.revoked_at = clock] ELSE key[k]

\* The row a revocation leaves: judged on what was read, without a lock, and written
\* without a condition.
RevokedRow(c, k) ==
  IF cmd[c].loaded.revoked_at = Null
  THEN [key[k] EXCEPT !.revoked_at = cmd[c].now] ELSE key[k]

revoke_management_key(c) ==
  LET k == cmd[c].key IN
  /\ cmd[c].pc = "loaded"
  /\ key' = [key EXCEPT ![k] = RevokedRow(c, k)]
  /\ reported' = [reported EXCEPT ![k] = IF @ = Null THEN clock ELSE @]
  /\ cmd' = [cmd EXCEPT ![c].pc = "done"]
  /\ UNCHANGED <<clock, req, barred>>

\* The command is interrupted before it commits.
CommandDies(c) ==
  /\ cmd[c].pc = "loaded"
  /\ cmd' = [cmd EXCEPT ![c].pc = "done"]
  /\ UNCHANGED <<clock, key, req, reported, barred>>

-----------------------------------------------------------------------------
(***************************************************************************)
(* require_management_key.                                                 *)
(***************************************************************************)
Arrive(r) ==
  /\ req[r].pc = "ready"
  /\ req' = [req EXCEPT ![r].pc = "arrived"]
  /\ barred' = IF reported[req[r].key] # Null THEN barred \cup {r} ELSE barred
  /\ UNCHANGED <<clock, key, cmd, reported>>

\* Mutant: any key in the table authenticates.
KnownKey(k) == key[k].exists

Authenticates(k) == key[k].exists /\ key[k].revoked_at = Null

require_management_key(r) ==
  /\ req[r].pc = "arrived"
  /\ Authenticates(req[r].key)
  /\ req' = [req EXCEPT ![r].pc = "authenticated", ![r].loaded = key[req[r].key]]
  /\ UNCHANGED <<clock, key, cmd, reported, barred>>

InvalidApiKey(r) ==
  /\ req[r].pc = "arrived"
  /\ ~Authenticates(req[r].key)
  /\ req' = [req EXCEPT ![r].pc = "refused"]
  /\ UNCHANGED <<clock, key, cmd, reported, barred>>

\* Mutant: the loaded object is written back whole.
LoadedAndSet(r) == [req[r].loaded EXCEPT !.last_used_at = clock]

\* An UPDATE of one column.
UsedRow(r) == [key[req[r].key] EXCEPT !.last_used_at = clock]

record_management_key_use(r) ==
  /\ req[r].pc = "authenticated"
  /\ key' = [key EXCEPT ![req[r].key] = UsedRow(r)]
  /\ req' = [req EXCEPT ![r].pc = "principal"]
  /\ UNCHANGED <<clock, cmd, reported, barred>>

\* The write fails and is rolled back, which expires the loaded key.
RecordUseFails(r) ==
  /\ req[r].pc = "authenticated"
  /\ req' = [req EXCEPT ![r].pc = "expired"]
  /\ UNCHANGED <<clock, key, cmd, reported, barred>>

\* Reading the key's identity off the expired object queries it again; its
\* revocation is not looked at a second time.
Reload(r) ==
  /\ req[r].pc = "expired"
  /\ req' = [req EXCEPT ![r].pc = "principal", ![r].loaded = key[req[r].key]]
  /\ UNCHANGED <<clock, key, cmd, reported, barred>>

\* The database is still away: 503.
ReloadFails(r) ==
  /\ req[r].pc = "expired"
  /\ req' = [req EXCEPT ![r].pc = "refused"]
  /\ UNCHANGED <<clock, key, cmd, reported, barred>>

-----------------------------------------------------------------------------
CommandStep(c) ==
  \/ _revoke_key(c)
  \/ LoadKey(c)
  \/ UnknownKey(c)
  \/ revoke_management_key(c)
  \/ CommandDies(c)

RequestStep(r) ==
  \/ Arrive(r)
  \/ require_management_key(r)
  \/ InvalidApiKey(r)
  \/ record_management_key_use(r)
  \/ RecordUseFails(r)
  \/ Reload(r)
  \/ ReloadFails(r)

Next ==
  \/ Tick
  \/ \E k \in Keys : create_key(k)
  \/ \E c \in Commands : CommandStep(c)
  \/ \E r \in Requests : RequestStep(r)

Spec == Init /\ [][Next]_vars

-----------------------------------------------------------------------------
(***************************************************************************)
(* Properties.                                                             *)
(***************************************************************************)

\* Every variable has its type.
TypeOK ==
  /\ clock \in Nat \ {0}
  /\ key \in [Keys -> ManagementApiKey]
  /\ cmd \in [Commands -> [pc : {"ready", "stamped", "loaded", "done"}, key : Keys,
                           now : Nat, loaded : ManagementApiKey]]
  /\ req \in [Requests -> [pc : {"ready", "arrived", "authenticated", "expired",
                                 "principal", "refused"},
                           key : Keys, loaded : ManagementApiKey]]
  /\ reported \in [Keys -> Nat]
  /\ barred \subseteq Requests

\* "It will not authenticate another request": once any command has reported a key as
\* revoked, however many commands raced and whatever requests were recording its use,
\* no request that arrives afterwards is let in (_revoke_key, require_management_key).
ReportedRevocationHolds ==
  /\ \A k \in Keys : reported[k] # Null => key[k].revoked_at # Null
  /\ \A r \in barred : req[r].pc \in {"arrived", "refused"}

\* A withdrawn credential is never reinstated: recording the last use of a key whose
\* request authenticated just before it was revoked leaves the revocation alone.
RevokedForGood ==
  [][\A k \in Keys : key[k].revoked_at # Null => key'[k].revoked_at # Null]_vars

\* Commands that race can move the moment of a revocation, but never past the instant
\* the key was first reported as revoked: whoever could move it had read the key, and
\* taken its own moment, before that report (revoke_management_key judges by what it
\* loaded, and the moment is read before the row).
MomentWithinReport ==
  \A k \in Keys : reported[k] # Null => key[k].revoked_at \in 1..reported[k]

\* storage.revoke_management_key: "revoking twice must not quietly move the moment the
\* credential stopped being valid".
RevocationMomentFixed ==
  [][\A k \in Keys : key[k].revoked_at # Null => key'[k].revoked_at = key[k].revoked_at]_vars

=============================================================================
