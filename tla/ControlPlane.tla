---------------------------- MODULE ControlPlane ----------------------------
(***************************************************************************)
(* Administration of connections (connector-control/src/lib.rs, as         *)
(* apps/sql-connector/src/main.rs runs it).  Every command is a process of *)
(* its own that reads and writes profiles.sqlite and a credential store;   *)
(* the two have no common transaction and no command takes a lock.  The    *)
(* desktop starts commands whenever its user acts and kills a command that *)
(* takes more than 90 seconds, so commands overlap and may stop anywhere.  *)
(*                                                                         *)
(* One action is one access to a store, or one await.                      *)
(***************************************************************************)
EXTENDS CredentialStore

CONSTANTS
    Conns,          \* connection ids
    Policies,       \* policies, apart from their enabled flag
    KeyRef,         \* the reference of the authorization signing key
    Requests,       \* the commands of this instance, with their inputs
    Seed,           \* the connection that is stored at first
    MaxCrashes      \* bound: processes killed

UserRefs == Refs \ {KeyRef}

AllCommands == {"create", "update_profile", "set_policy", "set_enabled", "rotate",
                "replace_secret", "update_connection", "delete", "test_saved", "authorize", "mcp"}

\* What a command is asked: policy or secret may be Nothing, "leave as it is".
Request ==
    [do : AllCommands, conn : Conns, ref : UserRefs, kind : Kinds,
     policy : Policies \cup {Nothing}, enabled : BOOLEAN,
     secret : Secrets \cup {Nothing}, key : FileKeys]

NoRequest == [do |-> "none", conn |-> Nothing, ref |-> Nothing, kind |-> Nothing,
              policy |-> Nothing, enabled |-> FALSE, secret |-> Nothing, key |-> Nothing]

\* A draft is completed when it is parsed (into_profile_and_secret): a creation has a
\* policy and credentials, an edit of the policy has a policy, a rotation credentials.
Complete(r) ==
    /\ r.do \in {"create", "set_policy", "update_profile"} => r.policy # Nothing
    /\ r.do \in {"create", "rotate", "replace_secret"} => r.secret # Nothing

ASSUME ControlAssumption ==
    /\ KeyRef \in Refs /\ Nothing \notin Refs /\ MaxCrashes \in Nat
    /\ Requests \subseteq {r \in Request : Complete(r)}
    /\ Seed \in [conn : Conns, ref : UserRefs, secret : Secrets, key : FileKeys,
                 policy : Policies]

VARIABLES
    profile,        \* connection -> its row in connection_profiles
    revision,       \* connection -> connection_revisions
    pc, cmd,        \* process -> where it is, and what it was asked to do
    existing,       \* process -> the profile it read
    draft,          \* process -> the profile and secret it is going to store
    previous,       \* process -> the secret it would restore
    result,         \* process -> how its command ended
    grants,         \* grants issued
    verifier,       \* MCP process -> the key it verifies grants with
    crashes,
    \* histories
    overlapped,     \* connections, or KeyRef, that two commands used at the same time
    before,         \* process -> profile and secret of its connection when it began
    announced       \* connection -> its secret when its revision last moved

ctlVars == <<profile, revision, pc, cmd, existing, draft, previous, result, grants, verifier,
             crashes, overlapped, before, announced>>

vars == <<credVars, ctlVars>>

NoProfile == [ref |-> Nothing, kind |-> Nothing, policy |-> Nothing, enabled |-> FALSE,
              version |-> 0]

ProfileType == [ref : UserRefs, kind : Kinds, policy : Policies, enabled : BOOLEAN,
                version : Nat]

Stations == {"idle", "read", "test", "reread", "save", "stored", "undone", "write", "remove",
             "removed", "restore", "key", "keystored", "ended", "killed"}

Results == {"none", "ok", "conflict", "connection_not_found", "credential_store_error",
            "test_failed", "refused", "storage_error", "permission_denied"}

Exists(c) == profile[c] # NoProfile

Conn(p) == cmd[p].conn

Do(p) == cmd[p].do

\* replace_secret, called by the command of that name or by rotate-credentials.
Rotates(p) == Do(p) \in {"rotate", "replace_secret"}

Running(p) == pc[p] \notin {"idle", "ended", "killed"}

Quiet(c) == \A p \in Procs : Running(p) => Conn(p) # c

KeyUser(do) == do \in {"authorize", "mcp"}

\* The references that request r may touch when its connection has, or had, these rows.
RefsOf(r, rows) ==
    ({row.ref : row \in rows} \cup (IF r.do = "create" THEN {r.ref} ELSE {})) \ {Nothing}

UsedRefs(q) == RefsOf(cmd[q], {before[q].profile, existing[q], profile[Conn(q)]})

\* What request r would share with the command process q is running.
Shared(r, q) ==
    (IF r.conn = Conn(q) \/ RefsOf(r, {profile[r.conn]}) \cap UsedRefs(q) # {}
     THEN {r.conn, Conn(q)} ELSE {}) \cup
    (IF KeyUser(r.do) /\ KeyUser(Do(q)) THEN {KeyRef} ELSE {})

-----------------------------------------------------------------------------
(***************************************************************************)
(* One connection is stored with its secret; the other references are      *)
(* free.  A sqlite file written before the marker existed has none.        *)
(***************************************************************************)
Init ==
    /\ backend \in {"sqlite", "chunked"}
    /\ profile = [c \in Conns |-> IF c # Seed.conn THEN NoProfile ELSE
          [ref |-> Seed.ref, kind |-> Seed.secret.kind, policy |-> Seed.policy,
           enabled |-> TRUE, version |-> 1]]
    /\ revision = [c \in Conns |-> IF c = Seed.conn THEN 1 ELSE 0]
    /\ header = [r \in Refs |-> IF r = Seed.ref THEN 1 ELSE Nothing]
    /\ chunks = {[gen |-> 1, ref |-> Seed.ref, secret |-> Seed.secret, key |-> Seed.key]}
    /\ marker \in (IF backend = "sqlite" THEN {Nothing, Seed.key} ELSE {Nothing})
    /\ announced = [c \in Conns |-> IF c = Seed.conn THEN Seed.secret ELSE Nothing]
    /\ nextGen = 2
    /\ cred = [p \in Procs |-> NoCred]
    /\ got = [p \in Procs |-> Says("ok")]
    /\ faults = 0
    /\ pc = [p \in Procs |-> "idle"]
    /\ cmd = [p \in Procs |-> NoRequest]
    /\ existing = [p \in Procs |-> NoProfile]
    /\ draft = [p \in Procs |-> [profile |-> NoProfile, secret |-> Nothing]]
    /\ previous = [p \in Procs |-> Nothing]
    /\ result = [p \in Procs |-> "none"]
    /\ grants = {}
    /\ verifier = [p \in Procs |-> Nothing]
    /\ crashes = 0
    /\ overlapped = {}
    /\ before = [p \in Procs |-> [profile |-> NoProfile, secret |-> Nothing]]

-----------------------------------------------------------------------------
(***************************************************************************)
(* Pieces of a command: its end, and the store operation it goes through   *)
(* on its way to a station.                                                *)
(***************************************************************************)
End(p, r) ==
    /\ pc' = [pc EXCEPT ![p] = "ended"]
    /\ result' = [result EXCEPT ![p] = r]

To(p, station) ==
    /\ pc' = [pc EXCEPT ![p] = station]
    /\ UNCHANGED result

Via(p, op, ref, secret, station) ==
    /\ StartCred(p, op, ref, secret, cmd[p].key)
    /\ To(p, station)

AtStation(p, station) == pc[p] = station /\ cred[p].op = "none"

NoStoreStep == UNCHANGED <<backend, header, chunks, marker, nextGen, got>>

NoCredCall == UNCHANGED cred

\* Mutant: an edit keeps the version.
same_policy_version(v) == v

\* A u64 that wraps after 2^64 edits; the model never gets there.
next_policy_version(v) == v + 1

\* upsert, delete and notify_changed of ProfileRepository: one transaction that also
\* moves the revision.
Upsert(c, row) ==
    /\ profile' = [profile EXCEPT ![c] = row]
    /\ revision' = [revision EXCEPT ![c] = @ + 1]
    /\ announced' = [announced EXCEPT ![c] =
          IF row = NoProfile THEN Nothing ELSE StoredSecret(row.ref)]

NotifyChanged(c) ==
    /\ revision' = [revision EXCEPT ![c] = @ + 1]
    /\ announced' = [announced EXCEPT ![c] =
          IF Exists(c) THEN StoredSecret(profile[c].ref) ELSE Nothing]
    /\ UNCHANGED profile

NoWrite == UNCHANGED <<profile, revision, announced>>

-----------------------------------------------------------------------------
(***************************************************************************)
(* A command starts: run_with_data_dir opens the credential store, which   *)
(* fails if the process was given another key than the file is pinned to.  *)
(***************************************************************************)
Start(p) ==
    /\ pc[p] = "idle"
    /\ \E r \in Requests :
         /\ cmd' = [cmd EXCEPT ![p] = r]
         /\ overlapped' = overlapped \cup
               UNION {Shared(r, q) : q \in {q \in Procs : Running(q)}}
         /\ before' = [before EXCEPT ![p] =
               [profile |-> profile[r.conn],
                secret |-> IF Exists(r.conn) THEN StoredSecret(profile[r.conn].ref)
                           ELSE Nothing]]
         /\ VerifyOrInitializeKey(r.key)
         /\ IF OpenFails(r.key) THEN End(p, "credential_store_error") /\ NoCredCall
            ELSE IF KeyUser(r.do)
            THEN /\ StartCred(p, "get", KeyRef, Nothing, r.key)
                 /\ To(p, "key")
            ELSE To(p, "read") /\ NoCredCall
    /\ NoWrite
    /\ UNCHANGED <<backend, header, chunks, nextGen, got, faults, existing, draft, previous,
                   grants, verifier, crashes>>

(***************************************************************************)
(* profiles.get, and what the command does with the row it read.  A new    *)
(* connection must not exist and its reference must be free; update and    *)
(* rotation build the draft from this read and test it before they go on.  *)
(***************************************************************************)
RefInUse(r) == \E d \in Conns : Exists(d) /\ profile[d].ref = r

NewProfile(p) ==
    [ref |-> cmd[p].ref, kind |-> cmd[p].kind, policy |-> cmd[p].policy, enabled |-> TRUE,
     version |-> 1]

\* ensure_auth_kind.
KindsAgree(r) == r.kind = r.secret.kind

ReadCreate(p) ==
    /\ Do(p) = "create"
    /\ \/ /\ Exists(Conn(p)) \/ (KindsAgree(cmd[p]) /\ RefInUse(cmd[p].ref))
          /\ End(p, "conflict") /\ NoCredCall /\ UNCHANGED draft
       \/ /\ ~Exists(Conn(p)) /\ ~KindsAgree(cmd[p])
          /\ End(p, "refused") /\ NoCredCall /\ UNCHANGED draft
       \/ /\ ~Exists(Conn(p)) /\ KindsAgree(cmd[p]) /\ ~RefInUse(cmd[p].ref)
          /\ draft' = [draft EXCEPT ![p] = [profile |-> NewProfile(p), secret |-> cmd[p].secret]]
          /\ Via(p, "put", cmd[p].ref, cmd[p].secret, "stored")

\* into_profile_and_secret: what the draft leaves out comes from the row just read.
Merged(p, row) ==
    [row EXCEPT !.kind = cmd[p].kind,
                !.policy = IF cmd[p].policy = Nothing THEN @ ELSE cmd[p].policy]

DraftProfile(p, row) == draft' = [draft EXCEPT ![p].profile = row]

ReadSetPolicy(p, row) ==
    /\ Do(p) = "set_policy"
    /\ DraftProfile(p, [row EXCEPT !.policy = cmd[p].policy, !.enabled = cmd[p].enabled,
                                   !.version = next_policy_version(@)])
    /\ To(p, "write") /\ NoCredCall

ReadSetEnabled(p, row) ==
    /\ Do(p) = "set_enabled" /\ NoCredCall
    /\ \/ /\ row.enabled # cmd[p].enabled
          /\ DraftProfile(p, [row EXCEPT !.enabled = cmd[p].enabled,
                                         !.version = next_policy_version(@)])
          /\ To(p, "write")
       \/ row.enabled = cmd[p].enabled /\ End(p, "ok") /\ UNCHANGED draft

\* The host edits the whole profile it read; validate_control_request needs its secret.
ReadUpdateProfile(p, row) ==
    /\ Do(p) = "update_profile"
    /\ DraftProfile(p, [row EXCEPT !.policy = cmd[p].policy])
    /\ Via(p, "get", row.ref, Nothing, "reread")

ReadUpdateConnection(p, row) ==
    /\ Do(p) = "update_connection"
    /\ DraftProfile(p, Merged(p, row))
    /\ Via(p, "get", row.ref, Nothing, "test")

\* A rotation draft has no kind of its own; replace_secret brings one.
ReadRotate(p, row) ==
    /\ Rotates(p) /\ NoCredCall
    /\ draft' = [draft EXCEPT ![p].secret =
          IF Do(p) = "rotate" THEN [cmd[p].secret EXCEPT !.kind = row.kind] ELSE cmd[p].secret]
    /\ To(p, IF Do(p) = "rotate" THEN "test" ELSE "reread")

ReadDelete(p, row) ==
    /\ Do(p) = "delete" /\ UNCHANGED draft
    /\ Via(p, "get", row.ref, Nothing, "remove")

ReadTestSaved(p, row) ==
    /\ Do(p) = "test_saved" /\ UNCHANGED draft
    /\ Via(p, "get", row.ref, Nothing, "test")

ReadRow(p) ==
    LET row == profile[Conn(p)] IN
    /\ Do(p) \notin {"create", "authorize"}
    /\ existing' = [existing EXCEPT ![p] = row]
    /\ \/ row = NoProfile /\ End(p, "connection_not_found") /\ NoCredCall /\ UNCHANGED draft
       \/ /\ row # NoProfile
          /\ \/ ReadSetPolicy(p, row) \/ ReadSetEnabled(p, row) \/ ReadUpdateProfile(p, row)
             \/ ReadUpdateConnection(p, row) \/ ReadRotate(p, row) \/ ReadDelete(p, row)
             \/ ReadTestSaved(p, row)

Read(p) ==
    /\ AtStation(p, "read")
    /\ \/ ReadCreate(p) /\ UNCHANGED existing
       \/ ReadRow(p)
    /\ NoWrite /\ NoStoreStep
    /\ UNCHANGED <<faults, cmd, previous, grants, verifier, crashes, overlapped, before>>

(***************************************************************************)
(* test_draft_connection: the database is asked with the draft, which may  *)
(* fail and takes any time.  A secret the draft leaves out is the one read.*)
(***************************************************************************)
Test(p) ==
    /\ AtStation(p, "test")
    /\ \/ got[p].is # "ok" /\ End(p, "credential_store_error") /\ UNCHANGED draft
       \/ got[p].is = "ok" /\ End(p, "test_failed") /\ UNCHANGED draft
       \/ /\ got[p].is = "ok"
          /\ draft' = IF Do(p) # "update_connection" THEN draft
                      ELSE [draft EXCEPT ![p].secret =
                              IF cmd[p].secret = Nothing THEN got[p].secret ELSE cmd[p].secret]
          /\ IF Do(p) = "test_saved" THEN End(p, "ok") ELSE To(p, "reread")
    /\ NoWrite /\ NoStoreStep /\ NoCredCall
    /\ UNCHANGED <<faults, cmd, existing, previous, grants, verifier, crashes, overlapped, before>>

(***************************************************************************)
(* update_profile, replace_connection and replace_secret read the row      *)
(* again: identity and kind must be the draft's, and the new version       *)
(* follows the one read now.                                               *)
(***************************************************************************)
Versioned(d, row) ==
    [d EXCEPT !.version = IF d.policy = row.policy /\ d.enabled = row.enabled
                          THEN row.version ELSE next_policy_version(row.version)]

\* Mutant: replace_secret does not compare the kinds.
KindAgreesUnlessRotated(p, row) ==
    Do(p) = "update_connection" => draft[p].profile.kind = draft[p].secret.kind

KindAgrees(p, row) ==
    IF Do(p) = "update_connection"
    THEN draft[p].profile.kind = draft[p].secret.kind
    ELSE row.kind = draft[p].secret.kind

RereadRefuses(p, row) ==
    \/ row = NoProfile
    \/ Do(p) = "update_profile" /\ got[p].is # "ok"
    \/ Do(p) = "update_profile" /\ draft[p].profile.kind # row.kind
    \/ ~Rotates(p) /\ draft[p].profile.ref # row.ref
    \/ Do(p) # "update_profile" /\ ~KindAgrees(p, row)

Reread(p) ==
    LET row == profile[Conn(p)] IN
    /\ AtStation(p, "reread")
    /\ existing' = [existing EXCEPT ![p] = row]
    /\ IF RereadRefuses(p, row)
       THEN End(p, "refused") /\ NoCredCall /\ UNCHANGED draft
       ELSE /\ draft' = IF Rotates(p) THEN draft
                        ELSE [draft EXCEPT ![p].profile = Versioned(@, row)]
            /\ IF Do(p) = "update_profile" THEN To(p, "write") /\ NoCredCall
               ELSE Via(p, "get", row.ref, Nothing, "save")
    /\ NoWrite /\ NoStoreStep
    /\ UNCHANGED <<faults, cmd, previous, grants, verifier, crashes, overlapped, before>>

\* The previous secret is at hand: put the new one.  A rotation goes on without a
\* previous secret, a replacement does not.
Save(p) ==
    /\ AtStation(p, "save")
    /\ IF got[p].is = "error" \/ (Do(p) = "update_connection" /\ got[p].is = "NotFound")
       THEN End(p, "credential_store_error") /\ NoCredCall /\ UNCHANGED previous
       ELSE /\ previous' = [previous EXCEPT ![p] = got[p].secret]
            /\ Via(p, "put", existing[p].ref, draft[p].secret, "stored")
    /\ NoWrite /\ NoStoreStep
    /\ UNCHANGED <<faults, cmd, existing, draft, grants, verifier, crashes, overlapped, before>>

(***************************************************************************)
(* The secret is stored; the profile, or for a rotation its revision,      *)
(* follows.  If that fails the secret is put back, or deleted if there was *)
(* none, and whether that worked is not looked at.                         *)
(***************************************************************************)
\* Mutant: the secret of a failed update stays.
UndoNothing(p) == End(p, "storage_error") /\ NoCredCall

Undo(p) ==
    IF previous[p] = Nothing
    THEN Via(p, "delete", IF Do(p) = "create" THEN cmd[p].ref ELSE existing[p].ref, Nothing,
             "undone")
    ELSE Via(p, "put", existing[p].ref, previous[p], "undone")

\* Mutant: a rotation does not move the revision.
AfterSecretSilent(p) ==
    IF Rotates(p) THEN NoWrite ELSE Upsert(Conn(p), draft[p].profile)

AfterSecret(p) ==
    IF Rotates(p) THEN NotifyChanged(Conn(p)) ELSE Upsert(Conn(p), draft[p].profile)

SecretStored(p) ==
    /\ AtStation(p, "stored")
    /\ \/ got[p].is = "error" /\ End(p, "credential_store_error") /\ NoWrite /\ NoCredCall
          /\ FaultFree
       \/ got[p].is = "ok" /\ AfterSecret(p) /\ End(p, "ok") /\ NoCredCall /\ FaultFree
       \/ got[p].is = "ok" /\ NoWrite /\ Undo(p) /\ Fault
    /\ NoStoreStep
    /\ UNCHANGED <<cmd, existing, draft, previous, grants, verifier, crashes, overlapped, before>>

Undone(p) ==
    /\ AtStation(p, "undone")
    /\ End(p, "storage_error")
    /\ NoWrite /\ NoStoreStep /\ NoCredCall
    /\ UNCHANGED <<faults, cmd, existing, draft, previous, grants, verifier, crashes, overlapped,
                   before>>

\* The one write of update_profile, set_policy and set_enabled.
Write(p) ==
    /\ AtStation(p, "write")
    /\ \/ Upsert(Conn(p), draft[p].profile) /\ End(p, "ok") /\ FaultFree
       \/ NoWrite /\ End(p, "storage_error") /\ Fault
    /\ NoStoreStep /\ NoCredCall
    /\ UNCHANGED <<cmd, existing, draft, previous, grants, verifier, crashes, overlapped, before>>

(***************************************************************************)
(* delete: the row, then the secret.  If the secret cannot be deleted it   *)
(* is put back, and the row after it.                                      *)
(***************************************************************************)
Remove(p) ==
    /\ AtStation(p, "remove")
    /\ \/ /\ got[p].is = "error" \/ ~Exists(Conn(p))
          /\ End(p, "refused") /\ NoWrite /\ NoCredCall /\ FaultFree /\ UNCHANGED previous
       \/ /\ got[p].is # "error" /\ Exists(Conn(p)) /\ FaultFree
          /\ Upsert(Conn(p), NoProfile)
          /\ previous' = [previous EXCEPT ![p] = got[p].secret]
          /\ IF got[p].is = "NotFound" THEN End(p, "ok") /\ NoCredCall
             ELSE Via(p, "delete", existing[p].ref, Nothing, "removed")
       \/ /\ got[p].is # "error"
          /\ End(p, "storage_error") /\ NoWrite /\ NoCredCall /\ Fault /\ UNCHANGED previous
    /\ NoStoreStep
    /\ UNCHANGED <<cmd, existing, draft, grants, verifier, crashes, overlapped, before>>

Removed(p) ==
    /\ AtStation(p, "removed")
    /\ IF got[p].is = "ok" THEN End(p, "ok") /\ NoCredCall
       ELSE Via(p, "put", existing[p].ref, previous[p], "restore")
    /\ NoWrite /\ NoStoreStep
    /\ UNCHANGED <<faults, cmd, existing, draft, previous, grants, verifier, crashes, overlapped,
                   before>>

Restore(p) ==
    /\ AtStation(p, "restore")
    /\ End(p, "credential_store_error")
    /\ \/ got[p].is = "error" /\ NoWrite /\ FaultFree
       \/ got[p].is = "ok" /\ Upsert(Conn(p), existing[p]) /\ FaultFree
       \/ got[p].is = "ok" /\ NoWrite /\ Fault
    /\ NoStoreStep /\ NoCredCall
    /\ UNCHANGED <<cmd, existing, draft, previous, grants, verifier, crashes, overlapped, before>>

(***************************************************************************)
(* AuthorizationKeyManager::load_or_create, used by authorize and by an    *)
(* MCP process with local authorization, then ConfirmationService::issue.  *)
(* The value of a signing key is the generation that first stored it.      *)
(***************************************************************************)
\* Mutant: a new key is stored whenever one is asked for.
KeyMissingAlways(p) == got[p].is # "error"

KeyMissing(p) == got[p].is = "NotFound"

UseKey(p, key) ==
    IF Do(p) = "mcp"
    THEN verifier' = [verifier EXCEPT ![p] = key] /\ End(p, "ok") /\ UNCHANGED draft
    ELSE /\ draft' = [draft EXCEPT ![p].secret = key]
         /\ To(p, "read") /\ UNCHANGED verifier

FreshKeys == Secrets \ ({c.secret : c \in {d \in chunks : d.ref = KeyRef}} \cup
                        {draft[q].secret : q \in {q \in Procs : KeyUser(Do(q))}})

LoadKey(p) ==
    /\ AtStation(p, "key")
    /\ \/ /\ got[p].is = "error" /\ End(p, "credential_store_error") /\ NoCredCall
          /\ UNCHANGED <<draft, verifier>>
       \/ /\ KeyMissing(p)
          /\ \E k \in FreshKeys :
                /\ draft' = [draft EXCEPT ![p].secret = k]
                /\ Via(p, "put", KeyRef, k, "keystored")
          /\ UNCHANGED verifier
       \/ got[p].is # "error" /\ ~KeyMissing(p) /\ UseKey(p, got[p].secret) /\ NoCredCall
    /\ NoWrite /\ NoStoreStep
    /\ UNCHANGED <<faults, cmd, existing, previous, grants, crashes, overlapped, before>>

KeyStored(p) ==
    /\ AtStation(p, "keystored")
    /\ IF got[p].is = "error"
       THEN End(p, "credential_store_error") /\ UNCHANGED <<draft, verifier>>
       ELSE UseKey(p, draft[p].secret)
    /\ NoWrite /\ NoStoreStep /\ NoCredCall
    /\ UNCHANGED <<faults, cmd, existing, previous, grants, crashes, overlapped, before>>

Issue(p) ==
    LET row == profile[Conn(p)] IN
    /\ AtStation(p, "read") /\ Do(p) = "authorize"
    /\ \/ ~Exists(Conn(p)) /\ End(p, "connection_not_found") /\ UNCHANGED grants
       \/ Exists(Conn(p)) /\ ~row.enabled /\ End(p, "permission_denied") /\ UNCHANGED grants
       \/ /\ Exists(Conn(p)) /\ row.enabled /\ End(p, "ok")
          /\ grants' = grants \cup {[conn |-> Conn(p), version |-> row.version,
                                     policy |-> row.policy, key |-> draft[p].secret]}
    /\ NoWrite /\ NoStoreStep /\ NoCredCall
    /\ UNCHANGED <<faults, cmd, existing, draft, previous, verifier, crashes, overlapped, before>>

-----------------------------------------------------------------------------
\* run_json of the desktop kills a command that takes too long, wherever it is.
Kill(p) ==
    /\ Running(p) /\ crashes < MaxCrashes
    /\ crashes' = crashes + 1
    /\ pc' = [pc EXCEPT ![p] = "killed"]
    /\ cred' = [cred EXCEPT ![p] = NoCred]
    /\ NoWrite /\ NoStoreStep
    /\ UNCHANGED <<faults, cmd, existing, draft, previous, result, grants, verifier, overlapped,
                   before>>

CommandStep(p) ==
    \/ Start(p) \/ Read(p) \/ Test(p) \/ Reread(p) \/ Save(p) \/ SecretStored(p) \/ Undone(p)
    \/ Write(p) \/ Remove(p) \/ Removed(p) \/ Restore(p) \/ LoadKey(p) \/ KeyStored(p)
    \/ Issue(p)

Done == (\A p \in Procs : ~Running(p) /\ pc[p] # "idle") /\ UNCHANGED vars

Next ==
    \/ \E p \in Procs : CommandStep(p) \/ Kill(p) \/ (CredStep(p) /\ UNCHANGED ctlVars)
    \/ Done

Spec == Init /\ [][Next]_vars

-----------------------------------------------------------------------------
\* Every variable has its type.
TypeOK ==
    /\ backend \in {"sqlite", "chunked"}
    /\ header \in [Refs -> Gens \cup {Nothing}]
    /\ chunks \subseteq Chunk
    /\ marker \in FileKeys \cup {Nothing}
    /\ nextGen \in 1..(MaxGens + 1)
    /\ cred \in [Procs -> CredType]
    /\ got \in [Procs -> GotType]
    /\ faults \in 0..MaxFaults
    /\ profile \in [Conns -> ProfileType \cup {NoProfile}]
    /\ revision \in [Conns -> Nat]
    /\ pc \in [Procs -> Stations]
    /\ cmd \in [Procs -> Request \cup {NoRequest}]
    /\ existing \in [Procs -> ProfileType \cup {NoProfile}]
    /\ draft \in [Procs -> [profile : ProfileType \cup {NoProfile},
                            secret : Secrets \cup {Nothing}]]
    /\ previous \in [Procs -> Secrets \cup {Nothing}]
    /\ result \in [Procs -> Results]
    /\ grants \subseteq [conn : Conns, version : Nat, policy : Policies, key : Secrets]
    /\ verifier \in [Procs -> Secrets \cup {Nothing}]
    /\ crashes \in 0..MaxCrashes
    /\ overlapped \subseteq Conns \cup {KeyRef}
    /\ before \in [Procs -> [profile : ProfileType \cup {NoProfile},
                             secret : Secrets \cup {Nothing}]]
    /\ announced \in [Conns -> Secrets \cup {Nothing}]

\* A reference's header always names chunks that are stored, whatever puts and deletes
\* of several processes interleave, fail or are killed (OsCredentialStore::put writes
\* chunks, then the header, then cleans up).
HeaderHasChunks == \A r \in Refs : header[r] # Nothing => Found(r) # {}

\* Once a sqlite file is pinned to a key, every row in it was encrypted with that key,
\* also in a file that was written before the marker existed and when two processes
\* with different key files open it at the same time.
OneCredentialKey ==
    backend = "sqlite" /\ marker # Nothing => \A c \in chunks : c.key = marker

\* What the credential stores hold can be read back: every variable has its type, a header
\* names chunks that are stored, and a pinned file has rows of one key.
StoredIsReadable == TypeOK /\ HeaderHasChunks /\ OneCredentialKey

\* "On test or persistence failure, the previous connection remains available": a
\* command that had its connection for itself, met at most one store failure and ends
\* with an error leaves profile and secret as it found them.
FailedCommandLeavesConnection ==
    [][\A p \in Procs :
          /\ pc[p] # "ended" /\ pc'[p] = "ended" /\ result'[p] # "ok"
          /\ Conn(p)' \notin overlapped' /\ crashes = 0 /\ faults' <= 1
          => /\ profile[Conn(p)]' = before[p].profile'
             /\ before[p].profile' # NoProfile =>
                   StoredSecret(before[p].profile.ref)' = before[p].secret']_vars

\* A connection at rest has a secret of its own kind, if its commands ran one at a
\* time, none was killed and at most one store operation failed.
StoredPairAgrees ==
    \A c \in Conns :
        /\ Exists(c) /\ Quiet(c) /\ c \notin overlapped /\ crashes = 0 /\ faults <= 1
        => /\ StoredSecret(profile[c].ref) # Nothing
           /\ StoredSecret(profile[c].ref).kind = profile[c].kind

\* The secret of a connection at rest is the one that was stored when its revision last
\* moved, so an MCP process that follows revisions drops every client made with another
\* one.  Rotations and updates may overlap; a deletion must not, and no store operation
\* may have failed and no command been killed.
AnnouncedSecretIsStored ==
    \A c \in Conns :
        /\ Exists(c) /\ Quiet(c) /\ faults = 0 /\ crashes = 0
        /\ c \in overlapped =>
              \A p \in Procs : pc[p] # "idle" => Do(p) \notin {"create", "delete"}
        => announced[c] = StoredSecret(profile[c].ref)

\* The connection was not deleted, which lets a creation start its versions again.
NeverDeleted(c) == \A p \in Procs : pc[p] # "idle" /\ Conn(p) = c => Do(p) # "delete"

\* A grant is never good for a policy other than the one it was issued under: while the
\* stored version is the grant's, so is the policy, if edits did not overlap and the
\* connection was not deleted.
GrantNamesItsPolicy ==
    \A g \in grants :
        /\ Exists(g.conn) /\ g.conn \notin overlapped /\ NeverDeleted(g.conn)
        /\ profile[g.conn].version = g.version
        => profile[g.conn].policy = g.policy

\* The documentation's form of the same promise, without the condition.
GrantsBeforePolicyChangeRejected ==
    \A g \in grants :
        Exists(g.conn) /\ profile[g.conn].version = g.version =>
            profile[g.conn].policy = g.policy

\* Every MCP process verifies with the key that signs, and every grant was signed with
\* it, unless two processes loaded the key at the same time.
KeysAgree ==
    KeyRef \notin overlapped /\ (\A p \in Procs : Running(p) => ~KeyUser(Do(p))) =>
        /\ \A p \in Procs : verifier[p] # Nothing => verifier[p] = StoredSecret(KeyRef)
        /\ \A g \in grants : g.key = StoredSecret(KeyRef)
=============================================================================
