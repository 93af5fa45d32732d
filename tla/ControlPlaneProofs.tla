------------------------ MODULE ControlPlaneProofs ------------------------
(***************************************************************************)
(* Theorems about ControlPlane and CredentialStore, for any number of      *)
(* commands, connections, references and keys, and whatever fails or is    *)
(* killed.                                                                 *)
(***************************************************************************)
EXTENDS ControlPlane, TLAPS

(***************************************************************************)
(* What a command has at hand at each of its stations, and what its store  *)
(* operation was given.  TypeOK is not inductive without it.               *)
(***************************************************************************)
DoAt(p) ==
    /\ pc[p] # "idle" => cmd[p] \in Requests
    /\ pc[p] = "read" => Do(p) # "mcp"
    /\ pc[p] = "test" => Do(p) \in {"update_connection", "rotate", "test_saved"}
    /\ pc[p] = "reread" => Do(p) \in {"update_profile", "update_connection", "rotate", "replace_secret"}
    /\ pc[p] = "save" => Do(p) \in {"update_connection", "rotate", "replace_secret"}
    /\ pc[p] \in {"stored", "undone"} =>
          Do(p) \in {"create", "update_connection", "rotate", "replace_secret"}
    /\ pc[p] = "write" => Do(p) \in {"set_policy", "set_enabled", "update_profile"}
    /\ pc[p] \in {"remove", "removed", "restore"} => Do(p) = "delete"
    /\ pc[p] \in {"key", "keystored"} => KeyUser(Do(p))

HasRow(p) ==
    pc[p] \in {"test", "reread", "save", "stored", "undone", "remove", "removed", "restore"}
      /\ Do(p) # "create" => existing[p] \in ProfileType

HasDraft(p) ==
    \/ pc[p] \in {"test", "reread", "save", "stored"} /\ Do(p) = "update_connection"
    \/ pc[p] = "reread" /\ Do(p) = "update_profile"
    \/ pc[p] = "stored" /\ Do(p) = "create"
    \/ pc[p] = "write"
    => draft[p].profile \in ProfileType

HasSecret(p) ==
    /\ \/ pc[p] = "test" /\ Do(p) = "rotate"
       \/ pc[p] = "reread" /\ Do(p) # "update_profile"
       \/ pc[p] \in {"save", "stored", "keystored"}
       \/ pc[p] = "read" /\ Do(p) = "authorize"
       => draft[p].secret \in Secrets
    /\ pc[p] = "removed" => previous[p] \in Secrets
    /\ pc[p] \in {"idle", "key", "keystored", "read"} => previous[p] = Nothing
    /\ pc[p] = "stored" /\ Do(p) = "create" => previous[p] = Nothing

\* The command is reading a secret, or has just read it.
Asks(p) ==
    \/ pc[p] \in {"save", "remove", "key"}
    \/ pc[p] = "test" /\ Do(p) # "rotate"
    \/ pc[p] = "reread" /\ Do(p) = "update_profile"

HasAnswer(p) ==
    Asks(p) => /\ cred[p].op \in {"none", "get"}
               /\ cred[p].op = "none" /\ got[p].is = "ok" => got[p].secret \in Secrets

CredKnown(p) ==
    /\ cred[p].op # "none" => cred[p].ref \in Refs /\ cred[p].key \in FileKeys
    /\ cred[p].op = "put" => cred[p].secret \in Secrets
    /\ ~Running(p) => cred[p].op = "none"
    /\ cred[p].op = "put" /\ cred[p].at \in {"header", "clean"} => cred[p].gen \in Gens

Prepared(p) ==
    DoAt(p) /\ HasRow(p) /\ HasDraft(p) /\ HasSecret(p) /\ HasAnswer(p) /\ CredKnown(p)

AllPrepared == \A p \in Procs : Prepared(p)
-----------------------------------------------------------------------------
(***************************************************************************)
(* The parts of TypeOK that change together.                               *)
(***************************************************************************)
StoreTypes ==
    /\ backend \in {"sqlite", "chunked"}
    /\ header \in [Refs -> Gens \cup {Nothing}]
    /\ chunks \subseteq Chunk
    /\ marker \in FileKeys \cup {Nothing}
    /\ nextGen \in 1..(MaxGens + 1)
    /\ faults \in 0..MaxFaults

CallTypes == cred \in [Procs -> CredType] /\ got \in [Procs -> GotType]

RowTypes ==
    /\ profile \in [Conns -> ProfileType \cup {NoProfile}]
    /\ revision \in [Conns -> Nat]
    /\ announced \in [Conns -> Secrets \cup {Nothing}]

ProcTypes ==
    /\ pc \in [Procs -> Stations]
    /\ cmd \in [Procs -> Request \cup {NoRequest}]
    /\ existing \in [Procs -> ProfileType \cup {NoProfile}]
    /\ draft \in [Procs -> [profile : ProfileType \cup {NoProfile},
                            secret : Secrets \cup {Nothing}]]
    /\ previous \in [Procs -> Secrets \cup {Nothing}]
    /\ result \in [Procs -> Results]
    /\ verifier \in [Procs -> Secrets \cup {Nothing}]

HistoryTypes ==
    /\ grants \subseteq [conn : Conns, version : Nat, policy : Policies, key : Secrets]
    /\ crashes \in 0..MaxCrashes
    /\ overlapped \subseteq Conns \cup {KeyRef}
    /\ before \in [Procs -> [profile : ProfileType \cup {NoProfile},
                             secret : Secrets \cup {Nothing}]]

\* TypeOK is its parts.
LEMMA TypeParts ==
    TypeOK <=> StoreTypes /\ CallTypes /\ RowTypes /\ ProcTypes /\ HistoryTypes
  BY DEF TypeOK, StoreTypes, CallTypes, RowTypes, ProcTypes, HistoryTypes

\* The same in the next state.
LEMMA TypePartsNext ==
    TypeOK' <=> StoreTypes' /\ CallTypes' /\ RowTypes' /\ ProcTypes' /\ HistoryTypes'
  BY DEF TypeOK, StoreTypes, CallTypes, RowTypes, ProcTypes, HistoryTypes

\* A reader finds a secret or nothing.
LEMMA StoredSecretType ==
  ASSUME chunks \subseteq Chunk, NEW r
  PROVE  StoredSecret(r) \in Secrets \cup {Nothing}
<1>1. CASE Found(r) = {}
  BY <1>1 DEF StoredSecret
<1>2. CASE Found(r) # {}
  <2>1. PICK c : c \in Found(r)
    BY <1>2
  <2>2. (CHOOSE d \in Found(r) : TRUE) \in Found(r)
    BY <2>1
  <2>3. (CHOOSE d \in Found(r) : TRUE) \in Chunk
    BY <2>2 DEF Found
  <2>4. (CHOOSE d \in Found(r) : TRUE).secret \in Secrets
    BY <2>3 DEF Chunk
  <2> QED
    BY <2>4 DEF StoredSecret
<1> QED
  BY <1>1, <1>2

\* A write of a row, and a notification, leave the rows typed.
LEMMA UpsertTypes ==
  ASSUME TypeOK, NEW c \in Conns, NEW row \in ProfileType \cup {NoProfile}, Upsert(c, row)
  PROVE  RowTypes'
<1>1. chunks \subseteq Chunk
  BY DEF TypeOK
<1>2. (IF row = NoProfile THEN Nothing ELSE StoredSecret(row.ref)) \in Secrets \cup {Nothing}
  BY <1>1, StoredSecretType
<1> HIDE DEF NoProfile
<1>3. profile' \in [Conns -> ProfileType \cup {NoProfile}]
  BY DEF TypeOK, Upsert
<1>4. revision' \in [Conns -> Nat]
  BY DEF TypeOK, Upsert
<1>5. announced' \in [Conns -> Secrets \cup {Nothing}]
  BY <1>2 DEF TypeOK, Upsert
<1> QED
  BY <1>3, <1>4, <1>5 DEF RowTypes

LEMMA NotifyTypes ==
  ASSUME TypeOK, NEW c \in Conns, NotifyChanged(c)
  PROVE  RowTypes'
<1>1. chunks \subseteq Chunk
  BY DEF TypeOK
<1>2. (IF Exists(c) THEN StoredSecret(profile[c].ref) ELSE Nothing) \in Secrets \cup {Nothing}
  BY <1>1, StoredSecretType
<1>3. revision' \in [Conns -> Nat]
  BY DEF TypeOK, NotifyChanged
<1>4. announced' \in [Conns -> Secrets \cup {Nothing}]
  BY <1>2 DEF TypeOK, NotifyChanged
<1>5. profile' \in [Conns -> ProfileType \cup {NoProfile}]
  BY DEF TypeOK, NotifyChanged
<1> QED
  BY <1>3, <1>4, <1>5 DEF RowTypes

\* A store operation that starts, returns or moves on has its type.
LEMMA StartCredTypes ==
  ASSUME TypeOK, NEW p \in Procs, NEW op \in CredOps, NEW ref \in Refs \cup {Nothing},
         NEW secret \in Secrets \cup {Nothing}, NEW key \in FileKeys,
         StartCred(p, op, ref, secret, key)
  PROVE  /\ cred' \in [Procs -> CredType]
         /\ cred'[p].op = op /\ cred'[p].at = "begin" /\ cred'[p].ref = ref
         /\ cred'[p].secret = secret /\ cred'[p].key = key /\ cred'[p].gen = Nothing
         /\ cred'[p].prev = Nothing
         /\ \A q \in Procs : q # p => cred'[q] = cred[q]
<1> DEFINE new == [NoCred EXCEPT !.op = op, !.ref = ref, !.secret = secret, !.key = key]
<1>1. NoCred \in CredType
  BY DEF NoCred, CredType, CredOps
<1>2. new \in CredType
  BY <1>1 DEF CredType
<1>3. /\ new.op = op /\ new.at = "begin" /\ new.ref = ref /\ new.secret = secret
      /\ new.key = key /\ new.gen = Nothing /\ new.prev = Nothing
  BY DEF NoCred
<1>4. cred \in [Procs -> CredType] /\ cred' = [cred EXCEPT ![p] = new]
  BY DEF TypeOK, StartCred
<1> HIDE DEF new, CredType
<1>5. cred' \in [Procs -> CredType] /\ cred'[p] = new /\ \A q \in Procs : q # p => cred'[q] = cred[q]
  BY <1>2, <1>4
<1> QED
  BY <1>3, <1>5

LEMMA ReturnTypes ==
  ASSUME TypeOK, NEW p \in Procs, NEW r \in GotType, Return(p, r)
  PROVE  /\ CallTypes'
         /\ cred'[p] = NoCred /\ got'[p] = r
         /\ \A q \in Procs : q # p => cred'[q] = cred[q] /\ got'[q] = got[q]
<1>1. NoCred \in CredType
  BY DEF NoCred, CredType, CredOps
<1>2. /\ cred \in [Procs -> CredType] /\ cred' = [cred EXCEPT ![p] = NoCred]
      /\ got \in [Procs -> GotType] /\ got' = [got EXCEPT ![p] = r]
  BY DEF TypeOK, Return
<1> QED
  BY <1>1, <1>2 DEF CallTypes

LEMMA GotoTypes ==
  ASSUME TypeOK, NEW p \in Procs, NEW at \in {"begin", "header", "clean", "chunks"},
         NEW gen \in Gens \cup {Nothing}, NEW prev \in Gens \cup {Nothing},
         Goto(p, at, gen, prev)
  PROVE  /\ CallTypes'
         /\ cred'[p] = [cred[p] EXCEPT !.at = at, !.gen = gen, !.prev = prev]
         /\ got' = got
         /\ \A q \in Procs : q # p => cred'[q] = cred[q]
<1> DEFINE new == [cred[p] EXCEPT !.at = at, !.gen = gen, !.prev = prev]
<1>1. cred \in [Procs -> CredType] /\ got \in [Procs -> GotType]
  BY DEF TypeOK
<1>2. cred[p] \in CredType
  BY <1>1
<1>3. new \in CredType
  BY <1>2 DEF CredType
<1>4. cred' = [cred EXCEPT ![p] = new] /\ got' = got
  BY <1>1 DEF Goto
<1> HIDE DEF new
<1>5. CallTypes' /\ cred'[p] = new /\ \A q \in Procs : q # p => cred'[q] = cred[q]
  BY <1>1, <1>3, <1>4 DEF CallTypes
<1> QED
  BY <1>4, <1>5 DEF new
-----------------------------------------------------------------------------
(***************************************************************************)
(* A step of one process leaves what the others have at hand.              *)
(***************************************************************************)
Own(q) == <<pc[q], cmd[q], existing[q], draft[q], previous[q], cred[q], got[q]>>

Others(p) == \A q \in Procs \ {p} : Own(q)' = Own(q)

LEMMA PreparedFrame ==
  ASSUME NEW q, Prepared(q), Own(q)' = Own(q)
  PROVE  Prepared(q)'
<1>1. /\ pc'[q] = pc[q] /\ cmd'[q] = cmd[q] /\ existing'[q] = existing[q]
      /\ draft'[q] = draft[q] /\ previous'[q] = previous[q] /\ cred'[q] = cred[q]
      /\ got'[q] = got[q]
  BY DEF Own
<1>2. DoAt(q)' /\ HasRow(q)' /\ HasDraft(q)' /\ HasSecret(q)'
  BY <1>1 DEF Prepared, DoAt, HasRow, HasDraft, HasSecret, Do, KeyUser
<1>3. HasAnswer(q)' /\ CredKnown(q)'
  BY <1>1 DEF Prepared, HasAnswer, Asks, CredKnown, Running, Do
<1> QED
  BY <1>2, <1>3 DEF Prepared

\* A request of the instance, and what it carries.
LEMMA RequestOf ==
  ASSUME AllPrepared, NEW p \in Procs, pc[p] # "idle"
  PROVE  /\ cmd[p] \in Requests /\ cmd[p] \in Request /\ Complete(cmd[p])
         /\ Conn(p) \in Conns /\ cmd[p].key \in FileKeys /\ cmd[p].ref \in UserRefs
         /\ Do(p) \in AllCommands
<1>1. cmd[p] \in Requests
  BY DEF AllPrepared, Prepared, DoAt
<1>2. cmd[p] \in Request /\ Complete(cmd[p])
  BY <1>1, ControlAssumption
<1> QED
  BY <1>1, <1>2 DEF Request, Conn, Do

\* The way to a station, and to the end.
LEMMA ToTypes ==
  ASSUME TypeOK, NEW p \in Procs, NEW s \in Stations, To(p, s)
  PROVE  /\ pc' \in [Procs -> Stations] /\ pc'[p] = s
         /\ \A q \in Procs \ {p} : pc'[q] = pc[q]
         /\ result' \in [Procs -> Results]
  BY DEF TypeOK, To

LEMMA EndTypes ==
  ASSUME TypeOK, NEW p \in Procs, NEW r \in Results, End(p, r)
  PROVE  /\ pc' \in [Procs -> Stations] /\ pc'[p] = "ended"
         /\ \A q \in Procs \ {p} : pc'[q] = pc[q]
         /\ result' \in [Procs -> Results]
<1>1. "ended" \in Stations
  BY DEF Stations
<1> QED
  BY <1>1 DEF TypeOK, End

LEMMA StartKeeps ==
  ASSUME TypeOK, AllPrepared, NEW p \in Procs, Start(p)
  PROVE  TypeOK' /\ Prepared(p)' /\ Others(p)
<1>1. PICK r \in Requests :
         /\ cmd' = [cmd EXCEPT ![p] = r]
         /\ overlapped' = overlapped \cup
               UNION {Shared(r, q) : q \in {q \in Procs : Running(q)}}
         /\ before' = [before EXCEPT ![p] =
               [profile |-> profile[r.conn],
                secret |-> IF Exists(r.conn) THEN StoredSecret(profile[r.conn].ref)
                           ELSE Nothing]]
         /\ VerifyOrInitializeKey(r.key)
         /\ IF OpenFails(r.key) THEN End(p, "credential_store_error") /\ NoCredCall
            ELSE IF KeyUser(r.do)
            THEN /\ StartCred(p, "get", KeyRef, Nothing, r.key)
                 /\ To(p, "key")
            ELSE To(p, "read") /\ NoCredCall
  BY DEF Start
<1>2. r \in Request /\ Complete(r) /\ r.conn \in Conns /\ r.key \in FileKeys
  BY ControlAssumption DEF Request
<1>3. /\ pc[p] = "idle" /\ Prepared(p) /\ cred[p].op = "none"
      /\ previous[p] = Nothing
      /\ NoWrite
      /\ UNCHANGED <<backend, header, chunks, nextGen, got, faults, existing, draft, previous,
                   grants, verifier, crashes>>
  BY DEF Start, AllPrepared, Prepared, CredKnown, Running, HasSecret
<1>4. /\ cmd' \in [Procs -> Request \cup {NoRequest}] /\ cmd'[p] = r
      /\ \A q \in Procs \ {p} : cmd'[q] = cmd[q]
  BY <1>1, <1>2 DEF TypeOK
<1>5. /\ pc' \in [Procs -> Stations]
      /\ \A q \in Procs \ {p} : pc'[q] = pc[q]
      /\ result' \in [Procs -> Results]
      /\ pc'[p] \in {"ended", "key", "read"}
  <2>1. {"key", "read"} \subseteq Stations /\ "credential_store_error" \in Results
    BY DEF Stations, Results
  <2> QED
    BY <1>1, <2>1, ToTypes, EndTypes
<1>6. /\ cred' \in [Procs -> CredType]
      /\ \A q \in Procs \ {p} : cred'[q] = cred[q]
      /\ \/ pc'[p] = "ended" /\ cred'[p] = cred[p]
         \/ pc'[p] = "read" /\ cred'[p] = cred[p] /\ ~KeyUser(r.do)
         \/ pc'[p] = "key" /\ cred'[p].op = "get" /\ cred'[p].ref = KeyRef
            /\ cred'[p].key = r.key /\ KeyUser(r.do)
  <2>1. "get" \in CredOps /\ KeyRef \in Refs
    BY ControlAssumption DEF CredOps
  <2>2. cred \in [Procs -> CredType]
    BY DEF TypeOK
  <2>3. CASE OpenFails(r.key)
    BY <1>1, <2>2, <2>3, EndTypes DEF NoCredCall, End, TypeOK
  <2>4. CASE ~OpenFails(r.key) /\ KeyUser(r.do)
    <3>1. StartCred(p, "get", KeyRef, Nothing, r.key) /\ To(p, "key")
      BY <1>1, <2>4
    <3>2. pc'[p] = "key"
      BY <3>1 DEF To, TypeOK
    <3> QED
      BY <1>2, <2>1, <2>4, <3>1, <3>2, StartCredTypes
  <2>5. CASE ~OpenFails(r.key) /\ ~KeyUser(r.do)
    BY <1>1, <2>2, <2>5 DEF NoCredCall, To, TypeOK
  <2> QED
    BY <2>3, <2>4, <2>5
<1>7. StoreTypes'
  BY <1>1, <1>2, <1>3 DEF TypeOK, StoreTypes, VerifyOrInitializeKey
<1>8. CallTypes'
  BY <1>3, <1>6 DEF TypeOK, CallTypes
<1>9. RowTypes'
  BY <1>3 DEF TypeOK, RowTypes, NoWrite
<1>10. ProcTypes'
  BY <1>3, <1>4, <1>5 DEF TypeOK, ProcTypes
<1>11. HistoryTypes'
  <2>1. \A q \in Procs : Running(q) => Conn(q) \in Conns
    BY RequestOf DEF Running
  <2>2. \A q \in Procs : Running(q) => Shared(r, q) \subseteq Conns \cup {KeyRef}
    BY <1>2, <2>1 DEF Shared
  <2>3. overlapped' \subseteq Conns \cup {KeyRef}
    BY <1>1, <2>2 DEF TypeOK
  <2>4. chunks \subseteq Chunk
    BY DEF TypeOK
  <2>5. (IF Exists(r.conn) THEN StoredSecret(profile[r.conn].ref) ELSE Nothing)
           \in Secrets \cup {Nothing}
    BY <2>4, StoredSecretType
  <2>6. profile[r.conn] \in ProfileType \cup {NoProfile}
    BY <1>2 DEF TypeOK
  <2>7. before' \in [Procs -> [profile : ProfileType \cup {NoProfile},
                               secret : Secrets \cup {Nothing}]]
    BY <1>1, <2>5, <2>6 DEF TypeOK
  <2> QED
    BY <1>3, <2>3, <2>7 DEF TypeOK, HistoryTypes
<1>12. Others(p)
  BY <1>3, <1>4, <1>5, <1>6 DEF Others, Own
<1>13. DoAt(p)' /\ HasRow(p)' /\ HasDraft(p)' /\ HasSecret(p)'
  BY <1>1, <1>2, <1>3, <1>4, <1>5, <1>6
     DEF DoAt, HasRow, HasDraft, HasSecret, Do, KeyUser
<1>14. HasAnswer(p)' /\ CredKnown(p)'
  BY <1>2, <1>3, <1>4, <1>5, <1>6, ControlAssumption
     DEF HasAnswer, Asks, CredKnown, Running, Do, Prepared, KeyUser
<1> QED
  BY <1>7, <1>8, <1>9, <1>10, <1>11, <1>12, <1>13, <1>14, TypePartsNext DEF Prepared

\* A command calls the credential store on its way to a station.
LEMMA ViaTypes ==
  ASSUME TypeOK, AllPrepared, NEW p \in Procs, pc[p] # "idle", NEW op \in CredOps,
         NEW ref \in Refs \cup {Nothing}, NEW secret \in Secrets \cup {Nothing},
         NEW s \in Stations, Via(p, op, ref, secret, s)
  PROVE  /\ pc' \in [Procs -> Stations] /\ pc'[p] = s
         /\ \A q \in Procs \ {p} : pc'[q] = pc[q]
         /\ result' \in [Procs -> Results]
         /\ cred' \in [Procs -> CredType]
         /\ cred'[p].op = op /\ cred'[p].at = "begin" /\ cred'[p].ref = ref
         /\ cred'[p].secret = secret /\ cred'[p].key = cmd[p].key /\ cred'[p].gen = Nothing
         /\ \A q \in Procs \ {p} : cred'[q] = cred[q]
<1>1. cmd[p].key \in FileKeys
  BY RequestOf
<1>2. StartCred(p, op, ref, secret, cmd[p].key) /\ To(p, s)
  BY DEF Via
<1>3. /\ cred' \in [Procs -> CredType]
      /\ cred'[p].op = op /\ cred'[p].at = "begin" /\ cred'[p].ref = ref
      /\ cred'[p].secret = secret /\ cred'[p].key = cmd[p].key /\ cred'[p].gen = Nothing
      /\ \A q \in Procs : q # p => cred'[q] = cred[q]
  BY <1>1, <1>2, StartCredTypes
<1> QED
  BY <1>2, <1>3, ToTypes

\* The two ways a command goes on: with a call to the credential store, or without.
Goes(p, station) ==
    /\ pc' \in [Procs -> Stations] /\ pc'[p] = station
    /\ \A q \in Procs \ {p} : pc'[q] = pc[q] /\ cred'[q] = cred[q]
    /\ result' \in [Procs -> Results]
    /\ cred' \in [Procs -> CredType]

Calls(p, op, ref, secret, station) ==
    /\ Goes(p, station)
    /\ cred'[p].op = op /\ cred'[p].at = "begin" /\ cred'[p].ref = ref
    /\ cred'[p].secret = secret /\ cred'[p].key = cmd[p].key

LEMMA ViaCalls ==
  ASSUME TypeOK, AllPrepared, NEW p \in Procs, pc[p] # "idle", NEW op \in {"get", "put", "delete"},
         NEW ref \in Refs, NEW secret \in Secrets \cup {Nothing},
         NEW s \in Stations, Via(p, op, ref, secret, s)
  PROVE  Calls(p, op, ref, secret, s)
<1>1. op \in CredOps
  BY DEF CredOps
<1> QED
  BY <1>1, ViaTypes DEF Calls, Goes

LEMMA ToGoes ==
  ASSUME TypeOK, NEW p \in Procs, NEW s \in Stations, To(p, s), NoCredCall
  PROVE  Goes(p, s) /\ cred'[p] = cred[p]
  BY ToTypes DEF Goes, NoCredCall, TypeOK

LEMMA EndGoes ==
  ASSUME TypeOK, NEW p \in Procs, NEW r \in Results, End(p, r), NoCredCall
  PROVE  Goes(p, "ended") /\ cred'[p] = cred[p]
  BY EndTypes DEF Goes, NoCredCall, TypeOK

\* A command that has ended holds nothing, and an ended one has no store operation.
LEMMA EndPrepared ==
  ASSUME NEW p \in Procs, Prepared(p), pc[p] # "idle", pc'[p] \in {"ended", "killed"},
         cred'[p].op = "none", cmd'[p] = cmd[p]
  PROVE  Prepared(p)'
<1>1. DoAt(p)' /\ HasRow(p)' /\ HasDraft(p)' /\ HasSecret(p)'
  BY DEF Prepared, DoAt, HasRow, HasDraft, HasSecret, Do
<1>2. HasAnswer(p)' /\ CredKnown(p)'
  BY DEF HasAnswer, Asks, CredKnown, Running, Prepared
<1> QED
  BY <1>1, <1>2 DEF Prepared

\* The rows a command reads and writes are typed.
LEMMA RowOf ==
  ASSUME TypeOK, AllPrepared, NEW p \in Procs, pc[p] # "idle"
  PROVE  /\ profile[Conn(p)] \in ProfileType \cup {NoProfile}
         /\ profile[Conn(p)] # NoProfile => profile[Conn(p)] \in ProfileType
                                            /\ profile[Conn(p)].ref \in Refs
<1>1. Conn(p) \in Conns
  BY RequestOf
<1>2. profile[Conn(p)] \in ProfileType \cup {NoProfile}
  BY <1>1 DEF TypeOK
<1> QED
  BY <1>2 DEF ProfileType, UserRefs
DraftType == [profile : ProfileType \cup {NoProfile}, secret : Secrets \cup {Nothing}]

\* The draft of process p alone was replaced, by d.
Drafts(p, d) ==
    /\ draft' \in [Procs -> DraftType] /\ draft'[p] = d
    /\ \A q \in Procs \ {p} : draft'[q] = draft[q]

LEMMA DraftTypes ==
  ASSUME TypeOK, NEW p \in Procs
  PROVE  /\ draft[p] \in DraftType
         /\ UNCHANGED draft => Drafts(p, draft[p])
         /\ \A d \in DraftType : draft' = [draft EXCEPT ![p] = d] => Drafts(p, d)
         /\ \A row \in ProfileType \cup {NoProfile} : draft' = [draft EXCEPT ![p].profile = row] =>
               /\ Drafts(p, [draft[p] EXCEPT !.profile = row])
               /\ draft'[p].profile = row /\ draft'[p].secret = draft[p].secret
         /\ \A s \in Secrets \cup {Nothing} : draft' = [draft EXCEPT ![p].secret = s] =>
               /\ Drafts(p, [draft[p] EXCEPT !.secret = s])
               /\ draft'[p].secret = s /\ draft'[p].profile = draft[p].profile
<1>1. draft \in [Procs -> DraftType] /\ draft[p] \in DraftType
  BY DEF TypeOK, DraftType
<1>2. \A row \in ProfileType \cup {NoProfile} :
         /\ [draft[p] EXCEPT !.profile = row] \in DraftType
         /\ [draft[p] EXCEPT !.profile = row].profile = row
         /\ [draft[p] EXCEPT !.profile = row].secret = draft[p].secret
  BY <1>1 DEF DraftType
<1>3. \A s \in Secrets \cup {Nothing} :
         /\ [draft[p] EXCEPT !.secret = s] \in DraftType
         /\ [draft[p] EXCEPT !.secret = s].secret = s
         /\ [draft[p] EXCEPT !.secret = s].profile = draft[p].profile
  BY <1>1 DEF DraftType
<1>4. \A row : [draft EXCEPT ![p].profile = row]
                  = [draft EXCEPT ![p] = [draft[p] EXCEPT !.profile = row]]
  BY <1>1
<1>5. \A s : [draft EXCEPT ![p].secret = s]
                  = [draft EXCEPT ![p] = [draft[p] EXCEPT !.secret = s]]
  BY <1>1
<1> HIDE DEF DraftType
<1>6. \A d \in DraftType : draft' = [draft EXCEPT ![p] = d] => Drafts(p, d)
  BY <1>1 DEF Drafts
<1>7. UNCHANGED draft => Drafts(p, draft[p])
  BY <1>1 DEF Drafts
<1>8. \A row \in ProfileType \cup {NoProfile} : draft' = [draft EXCEPT ![p].profile = row] =>
               /\ Drafts(p, [draft[p] EXCEPT !.profile = row])
               /\ draft'[p].profile = row /\ draft'[p].secret = draft[p].secret
  <2> SUFFICES ASSUME NEW row \in ProfileType \cup {NoProfile}, draft' = [draft EXCEPT ![p].profile = row]
               PROVE  /\ Drafts(p, [draft[p] EXCEPT !.profile = row])
                      /\ draft'[p].profile = row /\ draft'[p].secret = draft[p].secret
    OBVIOUS
  <2>1. draft' = [draft EXCEPT ![p] = [draft[p] EXCEPT !.profile = row]]
    BY <1>4
  <2>2. Drafts(p, [draft[p] EXCEPT !.profile = row])
    BY <1>2, <1>6, <2>1
  <2>3. draft'[p] = [draft[p] EXCEPT !.profile = row]
    BY <2>2 DEF Drafts
  <2> QED
    BY <1>2, <2>2, <2>3
<1>9. \A s \in Secrets \cup {Nothing} : draft' = [draft EXCEPT ![p].secret = s] =>
               /\ Drafts(p, [draft[p] EXCEPT !.secret = s])
               /\ draft'[p].secret = s /\ draft'[p].profile = draft[p].profile
  <2> SUFFICES ASSUME NEW s \in Secrets \cup {Nothing}, draft' = [draft EXCEPT ![p].secret = s]
               PROVE  /\ Drafts(p, [draft[p] EXCEPT !.secret = s])
                      /\ draft'[p].secret = s /\ draft'[p].profile = draft[p].profile
    OBVIOUS
  <2>1. draft' = [draft EXCEPT ![p] = [draft[p] EXCEPT !.secret = s]]
    BY <1>5
  <2>2. Drafts(p, [draft[p] EXCEPT !.secret = s])
    BY <1>3, <1>6, <2>1
  <2>3. draft'[p] = [draft[p] EXCEPT !.secret = s]
    BY <2>2 DEF Drafts
  <2> QED
    BY <1>3, <2>2, <2>3
<1> QED
  BY <1>1, <1>6, <1>7, <1>8, <1>9

(***************************************************************************)
(* What every step of a command keeps but its start: all it does not name. *)
(***************************************************************************)
LEMMA StepTypes ==
  ASSUME TypeOK, NEW p \in Procs, NEW s \in Stations, Goes(p, s),
         NEW d, Drafts(p, d), RowTypes', NoStoreStep, faults' \in 0..MaxFaults,
         existing' \in [Procs -> ProfileType \cup {NoProfile}],
         \A q \in Procs \ {p} : existing'[q] = existing[q],
         previous' \in [Procs -> Secrets \cup {Nothing}],
         \A q \in Procs \ {p} : previous'[q] = previous[q],
         verifier' \in [Procs -> Secrets \cup {Nothing}],
         grants' \subseteq [conn : Conns, version : Nat, policy : Policies, key : Secrets],
         UNCHANGED <<cmd, crashes, overlapped, before>>
  PROVE  TypeOK' /\ Others(p)
<1>1. StoreTypes' /\ CallTypes'
  BY DEF TypeOK, StoreTypes, CallTypes, NoStoreStep, Goes
<1>2. ProcTypes'
  BY DEF TypeOK, ProcTypes, Goes, Drafts, DraftType
<1>3. HistoryTypes'
  BY DEF TypeOK, HistoryTypes
<1>4. Others(p)
  BY DEF Others, Own, Goes, Drafts, NoStoreStep
<1> QED
  BY <1>1, <1>2, <1>3, <1>4, TypePartsNext

\* The rows a command makes out of a row it read.
LEMMA EditedRow ==
  ASSUME NEW row \in ProfileType
  PROVE  /\ row.version + 1 \in Nat
         /\ \A pol \in Policies, en \in BOOLEAN :
               [row EXCEPT !.policy = pol, !.enabled = en, !.version = row.version + 1] \in ProfileType
         /\ \A en \in BOOLEAN :
               [row EXCEPT !.enabled = en, !.version = row.version + 1] \in ProfileType
<1>1. row.version + 1 \in Nat
  BY DEF ProfileType
<1>2. \A pol \in Policies, en \in BOOLEAN, v \in Nat :
         [row EXCEPT !.policy = pol, !.enabled = en, !.version = v] \in ProfileType
  BY DEF ProfileType
<1>3. \A en \in BOOLEAN, v \in Nat : [row EXCEPT !.enabled = en, !.version = v] \in ProfileType
  BY DEF ProfileType
<1> QED
  BY <1>1, <1>2, <1>3

LEMMA ReadKeeps ==
  ASSUME TypeOK, AllPrepared, NEW p \in Procs, Read(p)
  PROVE  TypeOK' /\ Prepared(p)' /\ Others(p)
<1> DEFINE row == profile[Conn(p)]
<1>1. /\ pc[p] = "read" /\ cred[p].op = "none" /\ Prepared(p) /\ NoWrite /\ NoStoreStep
      /\ UNCHANGED <<faults, cmd, previous, grants, verifier, crashes, overlapped, before>>
  BY DEF Read, AtStation, AllPrepared
<1>2. /\ cmd[p] \in Request /\ Complete(cmd[p]) /\ Conn(p) \in Conns
      /\ cmd[p].ref \in UserRefs /\ Do(p) \in AllCommands /\ cmd[p] \in Requests
  BY <1>1, RequestOf
<1>3. row \in ProfileType \cup {NoProfile} /\ (row # NoProfile => row \in ProfileType /\ row.ref \in Refs)
  BY <1>1, RowOf
<1>4. RowTypes' /\ faults' \in 0..MaxFaults
  BY <1>1 DEF RowTypes, NoWrite, TypeOK
<1>5. /\ {"stored", "write", "reread", "test", "remove", "ended"} \subseteq Stations
      /\ {"ok", "conflict", "connection_not_found"} \subseteq Results
  BY DEF Stations, Results
<1>6. previous[p] = Nothing
  BY <1>1 DEF Prepared, HasSecret
<1>10. /\ existing' \in [Procs -> ProfileType \cup {NoProfile}]
       /\ \A q \in Procs \ {p} : existing'[q] = existing[q]
       /\ Do(p) # "create" /\ ReadRow(p) => existing'[p] = row
  BY <1>3 DEF Read, ReadRow, TypeOK
<1> DEFINE Good == Prepared(p)' /\ \E s \in Stations, d \in DraftType : Goes(p, s) /\ Drafts(p, d)
<1>11. ASSUME Goes(p, "ended"), cred'[p] = cred[p], UNCHANGED draft
       PROVE  Good
  <2>1. Drafts(p, draft[p]) /\ draft[p] \in DraftType
    BY <1>11, DraftTypes
  <2>2. pc'[p] = "ended" /\ cred'[p].op = "none" /\ cmd'[p] = cmd[p]
    BY <1>1, <1>11 DEF Goes
  <2>3. Prepared(p)'
    BY <1>1, <2>2, EndPrepared
  <2> QED
    BY <1>5, <1>11, <2>1, <2>3
<1> HIDE DEF Good
<1>12. ASSUME ReadCreate(p) PROVE Good
  <2>1. Do(p) = "create"
    BY <1>12 DEF ReadCreate
  <2>2. CASE Exists(Conn(p)) \/ ~KindsAgree(cmd[p]) \/ RefInUse(cmd[p].ref)
    <3>1. /\ End(p, "conflict") \/ End(p, "refused")
          /\ NoCredCall /\ UNCHANGED draft
      BY <1>12, <2>2 DEF ReadCreate
    <3>2. Goes(p, "ended") /\ cred'[p] = cred[p]
      BY <1>5, <3>1, EndGoes DEF Results
    <3> QED
      BY <1>11, <3>1, <3>2
  <2>3. CASE ~(Exists(Conn(p)) \/ ~KindsAgree(cmd[p]) \/ RefInUse(cmd[p].ref))
    <3> DEFINE d == [profile |-> NewProfile(p), secret |-> cmd[p].secret]
    <3>1. /\ draft' = [draft EXCEPT ![p] = d]
          /\ Via(p, "put", cmd[p].ref, cmd[p].secret, "stored")
      BY <1>12, <2>3 DEF ReadCreate
    <3>2. cmd[p].secret \in Secrets /\ cmd[p].policy \in Policies /\ cmd[p].kind \in Kinds
      BY <1>2, <2>1 DEF Complete, Request, Do
    <3>3. NewProfile(p) \in ProfileType
      BY <1>2, <3>2 DEF NewProfile, ProfileType
    <3>4. d \in DraftType
      BY <3>2, <3>3 DEF DraftType
    <3>5. Drafts(p, d)
      BY <3>1, <3>4, DraftTypes
    <3>6. cmd[p].ref \in Refs
      BY <1>2 DEF UserRefs
    <3>7. Calls(p, "put", cmd[p].ref, cmd[p].secret, "stored")
      BY <1>1, <1>5, <3>1, <3>2, <3>6, ViaCalls
    <3>8. /\ pc'[p] = "stored" /\ cmd'[p] = cmd[p] /\ draft'[p] = d /\ previous'[p] = Nothing
          /\ cred'[p].op = "put" /\ cred'[p].at = "begin" /\ cred'[p].ref = cmd[p].ref
          /\ cred'[p].secret = cmd[p].secret /\ cred'[p].key = cmd[p].key
      BY <1>1, <1>6, <3>5, <3>7 DEF Calls, Goes, Drafts
    <3>9. d.profile \in ProfileType /\ d.secret \in Secrets
      BY <3>2, <3>3
    <3> HIDE DEF d
    <3>10. DoAt(p)' /\ HasRow(p)' /\ HasDraft(p)' /\ HasSecret(p)'
      BY <1>2, <2>1, <3>8, <3>9 DEF DoAt, HasRow, HasDraft, HasSecret, Do, KeyUser
    <3>11. HasAnswer(p)' /\ CredKnown(p)'
      BY <1>1, <1>2, <3>2, <3>6, <3>8, RequestOf DEF HasAnswer, Asks, CredKnown, Running
    <3> QED
      BY <1>5, <3>4, <3>5, <3>7, <3>10, <3>11 DEF Prepared, Calls, Good
  <2> QED
    BY <2>2, <2>3
<1>13. ASSUME ReadRow(p) PROVE Good
  <2>1. Do(p) \notin {"create", "authorize"} /\ existing'[p] = row
    BY <1>10, <1>13 DEF ReadRow
  <2>2. CASE row = NoProfile
    <3>1. End(p, "connection_not_found") /\ NoCredCall /\ UNCHANGED draft
      BY <1>13, <2>2 DEF ReadRow
    <3>2. Goes(p, "ended") /\ cred'[p] = cred[p]
      BY <1>5, <3>1, EndGoes
    <3> QED
      BY <1>11, <3>1, <3>2
  <2>3. CASE row # NoProfile
    <3>1. row \in ProfileType /\ row.ref \in Refs
      BY <1>3, <2>3
    <3> HIDE DEF row
    <3>2. ASSUME NEW s \in {"write", "reread", "test", "remove"}, NEW d \in DraftType,
                 Goes(p, s), Drafts(p, d),
                 cred'[p].op \in {"none", "get"},
                 cred'[p].op # "none" => cred'[p].ref \in Refs /\ cred'[p].key \in FileKeys,
                 \/ s = "write" /\ Do(p) \in {"set_policy", "set_enabled"}
                    /\ d.profile \in ProfileType
                 \/ s = "reread" /\ Do(p) = "update_profile" /\ d.profile \in ProfileType
                    /\ cred'[p].op = "get"
                 \/ s = "test" /\ Do(p) = "update_connection" /\ d.profile \in ProfileType
                    /\ cred'[p].op = "get"
                 \/ s = "test" /\ Do(p) = "rotate" /\ d.secret \in Secrets
                 \/ s = "reread" /\ Do(p) = "replace_secret" /\ d.secret \in Secrets
                 \/ s = "remove" /\ Do(p) = "delete" /\ cred'[p].op = "get"
                 \/ s = "test" /\ Do(p) = "test_saved" /\ cred'[p].op = "get"
          PROVE  Good
      <4>1. pc'[p] = s /\ cmd'[p] = cmd[p] /\ draft'[p] = d /\ previous'[p] = Nothing
        BY <1>1, <1>6, <3>2 DEF Goes, Drafts
      <4>2. DoAt(p)' /\ HasRow(p)' /\ HasDraft(p)' /\ HasSecret(p)'
        BY <1>2, <2>1, <3>1, <3>2, <4>1 DEF DoAt, HasRow, HasDraft, HasSecret, Do
      <4>3. HasAnswer(p)' /\ CredKnown(p)'
        BY <3>2, <4>1 DEF HasAnswer, Asks, CredKnown, Running, Do
      <4> QED
        BY <1>5, <3>2, <4>2, <4>3 DEF Prepared, Good
    <3>3. CASE ReadSetPolicy(p, row)
      <4> DEFINE new == [row EXCEPT !.policy = cmd[p].policy, !.enabled = cmd[p].enabled,
                                   !.version = next_policy_version(@)]
      <4>1. Do(p) = "set_policy" /\ DraftProfile(p, new) /\ To(p, "write") /\ NoCredCall
        BY <3>3 DEF ReadSetPolicy
      <4>2. cmd[p].policy \in Policies /\ cmd[p].enabled \in BOOLEAN
        BY <1>2, <4>1 DEF Complete, Request, Do
      <4>3. new \in ProfileType
        BY <3>1, <4>2, EditedRow DEF next_policy_version
      <4> HIDE DEF new
      <4>4. draft' = [draft EXCEPT ![p].profile = new]
        BY <4>1 DEF DraftProfile
      <4>5. PICK d : d = [draft[p] EXCEPT !.profile = new] /\ Drafts(p, d) /\ d.profile = new /\ d \in DraftType
        BY <4>3, <4>4, DraftTypes DEF Drafts
      <4>6. Goes(p, "write") /\ cred'[p] = cred[p]
        BY <1>5, <4>1, ToGoes
      <4> QED
        BY <1>1, <3>2, <4>1, <4>3, <4>5, <4>6
    <3>4. CASE ReadSetEnabled(p, row)
      <4> DEFINE new == [row EXCEPT !.enabled = cmd[p].enabled,
                                    !.version = next_policy_version(@)]
      <4>1. Do(p) = "set_enabled" /\ NoCredCall
        BY <3>4 DEF ReadSetEnabled
      <4>2. CASE End(p, "ok") /\ UNCHANGED draft
        <5>1. Goes(p, "ended") /\ cred'[p] = cred[p]
          BY <1>5, <4>1, <4>2, EndGoes
        <5> QED
          BY <1>11, <4>2, <5>1
      <4>3. CASE DraftProfile(p, new) /\ To(p, "write")
        <5>1. new \in ProfileType
          BY <1>2, <3>1, EditedRow DEF next_policy_version, Request
        <5> HIDE DEF new
        <5>2. draft' = [draft EXCEPT ![p].profile = new]
          BY <4>3 DEF DraftProfile
        <5>3. PICK d : d = [draft[p] EXCEPT !.profile = new] /\ Drafts(p, d) /\ d.profile = new /\ d \in DraftType
          BY <5>1, <5>2, DraftTypes DEF Drafts
        <5>4. Goes(p, "write") /\ cred'[p] = cred[p]
          BY <1>5, <4>1, <4>3, ToGoes
        <5> QED
          BY <1>1, <3>2, <4>1, <5>1, <5>3, <5>4
      <4> QED
        BY <3>4, <4>2, <4>3 DEF ReadSetEnabled
    <3>5. CASE ReadUpdateProfile(p, row)
      <4> DEFINE new == [row EXCEPT !.policy = cmd[p].policy]
      <4>1. Do(p) = "update_profile" /\ DraftProfile(p, new) /\ Via(p, "get", row.ref, Nothing, "reread")
        BY <3>5 DEF ReadUpdateProfile
      <4>2. cmd[p].policy \in Policies
        BY <1>2, <4>1 DEF Complete, Request, Do
      <4>3. new \in ProfileType
        BY <3>1, <4>2 DEF ProfileType
      <4> HIDE DEF new
      <4>4. draft' = [draft EXCEPT ![p].profile = new]
        BY <4>1 DEF DraftProfile
      <4>5. PICK d : d = [draft[p] EXCEPT !.profile = new] /\ Drafts(p, d) /\ d.profile = new /\ d \in DraftType
        BY <4>3, <4>4, DraftTypes DEF Drafts
      <4>6. Calls(p, "get", row.ref, Nothing, "reread")
        BY <1>1, <1>5, <3>1, <4>1, ViaCalls
      <4> QED
        BY <1>1, <3>1, <3>2, <4>1, <4>3, <4>5, <4>6, RequestOf DEF Calls
    <3>6. CASE ReadUpdateConnection(p, row)
      <4> DEFINE new == Merged(p, row)
      <4>1. Do(p) = "update_connection" /\ DraftProfile(p, new) /\ Via(p, "get", row.ref, Nothing, "test")
        BY <3>6 DEF ReadUpdateConnection
      <4>2. new \in ProfileType
        BY <1>2, <3>1 DEF ProfileType, Merged, Request
      <4> HIDE DEF new
      <4>4. draft' = [draft EXCEPT ![p].profile = new]
        BY <4>1 DEF DraftProfile
      <4>5. PICK d : d = [draft[p] EXCEPT !.profile = new] /\ Drafts(p, d) /\ d.profile = new /\ d \in DraftType
        BY <4>2, <4>4, DraftTypes DEF Drafts
      <4>6. Calls(p, "get", row.ref, Nothing, "test")
        BY <1>1, <1>5, <3>1, <4>1, ViaCalls
      <4> QED
        BY <1>1, <3>1, <3>2, <4>1, <4>2, <4>5, <4>6, RequestOf DEF Calls
    <3>7. CASE ReadRotate(p, row)
      <4> DEFINE new == IF Do(p) = "rotate" THEN [cmd[p].secret EXCEPT !.kind = row.kind] ELSE cmd[p].secret
      <4>1. Rotates(p) /\ draft' = [draft EXCEPT ![p].secret = new] /\ NoCredCall
            /\ To(p, IF Do(p) = "rotate" THEN "test" ELSE "reread")
        BY <3>7 DEF ReadRotate
      <4>2. cmd[p].secret \in Secrets /\ Do(p) \in {"rotate", "replace_secret"}
        BY <1>2, <4>1 DEF Complete, Request, Do, Rotates
      <4>3. new \in Secrets
        BY <3>1, <4>2 DEF ProfileType, Secrets
      <4> HIDE DEF new
      <4>4. PICK d : d = [draft[p] EXCEPT !.secret = new] /\ Drafts(p, d) /\ d.secret = new /\ d \in DraftType
        BY <4>1, <4>3, DraftTypes DEF Drafts
      <4>5. Goes(p, IF Do(p) = "rotate" THEN "test" ELSE "reread") /\ cred'[p] = cred[p]
        BY <1>5, <4>1, ToGoes
      <4> QED
        BY <1>1, <3>2, <4>2, <4>3, <4>4, <4>5
    <3>8. CASE ReadDelete(p, row)
      <4>1. Do(p) = "delete" /\ UNCHANGED draft /\ Via(p, "get", row.ref, Nothing, "remove")
        BY <3>8 DEF ReadDelete
      <4>2. Drafts(p, draft[p]) /\ draft[p] \in DraftType
        BY <4>1, DraftTypes
      <4>3. Calls(p, "get", row.ref, Nothing, "remove")
        BY <1>1, <1>5, <3>1, <4>1, ViaCalls
      <4> QED
        BY <1>1, <3>1, <3>2, <4>1, <4>2, <4>3, RequestOf DEF Calls
    <3>9. CASE ReadTestSaved(p, row)
      <4>1. Do(p) = "test_saved" /\ UNCHANGED draft /\ Via(p, "get", row.ref, Nothing, "test")
        BY <3>9 DEF ReadTestSaved
      <4>2. Drafts(p, draft[p]) /\ draft[p] \in DraftType
        BY <4>1, DraftTypes
      <4>3. Calls(p, "get", row.ref, Nothing, "test")
        BY <1>1, <1>5, <3>1, <4>1, ViaCalls
      <4> QED
        BY <1>1, <3>1, <3>2, <4>1, <4>2, <4>3, RequestOf DEF Calls
    <3> QED
      BY <1>13, <2>3, <3>3, <3>4, <3>5, <3>6, <3>7, <3>8, <3>9 DEF ReadRow, row
  <2> QED
    BY <2>2, <2>3
<1>14. Good
  BY <1>12, <1>13 DEF Read
<1>15. PICK s \in Stations, d \in DraftType : Goes(p, s) /\ Drafts(p, d)
  BY <1>14 DEF Good
<1>16. /\ previous' \in [Procs -> Secrets \cup {Nothing}] /\ verifier' \in [Procs -> Secrets \cup {Nothing}]
       /\ grants' \subseteq [conn : Conns, version : Nat, policy : Policies, key : Secrets]
       /\ \A q \in Procs \ {p} : previous'[q] = previous[q]
  BY <1>1 DEF TypeOK
<1>17. TypeOK' /\ Others(p)
  BY <1>1, <1>4, <1>10, <1>15, <1>16, StepTypes
<1> QED
  BY <1>14, <1>17 DEF Good

\* A command that ends leaves nothing behind.
LEMMA Ends ==
  ASSUME TypeOK, AllPrepared, NEW p \in Procs, pc[p] # "idle", cred[p].op = "none",
         NEW r \in Results, End(p, r), NoCredCall, UNCHANGED cmd
  PROVE  Goes(p, "ended") /\ Prepared(p)' /\ "ended" \in Stations
<1>1. Goes(p, "ended") /\ cred'[p] = cred[p] /\ "ended" \in Stations
  BY EndGoes DEF Stations
<1>2. pc'[p] = "ended" /\ cred'[p].op = "none" /\ cmd'[p] = cmd[p] /\ Prepared(p)
  BY <1>1 DEF Goes, AllPrepared
<1> QED
  BY <1>1, <1>2, EndPrepared

\* What a step leaves alone keeps its type.
LEMMA SameTypes ==
  ASSUME TypeOK, NEW p \in Procs
  PROVE  /\ UNCHANGED draft => Drafts(p, draft[p])
         /\ UNCHANGED existing => /\ existing' \in [Procs -> ProfileType \cup {NoProfile}]
                                  /\ \A q \in Procs \ {p} : existing'[q] = existing[q]
         /\ UNCHANGED previous => /\ previous' \in [Procs -> Secrets \cup {Nothing}]
                                  /\ \A q \in Procs \ {p} : previous'[q] = previous[q]
         /\ UNCHANGED verifier => verifier' \in [Procs -> Secrets \cup {Nothing}]
         /\ UNCHANGED grants =>
               grants' \subseteq [conn : Conns, version : Nat, policy : Policies, key : Secrets]
         /\ NoWrite => RowTypes'
         /\ UNCHANGED faults => faults' \in 0..MaxFaults
         /\ Fault => faults' \in 0..MaxFaults
<1>1. UNCHANGED draft => Drafts(p, draft[p])
  BY DraftTypes
<1>2. Fault => faults' \in 0..MaxFaults
  BY CredentialAssumption DEF TypeOK, Fault
<1> QED
  BY <1>1, <1>2 DEF TypeOK, NoWrite, RowTypes

LEMMA TestKeeps ==
  ASSUME TypeOK, AllPrepared, NEW p \in Procs, Test(p)
  PROVE  TypeOK' /\ Prepared(p)' /\ Others(p)
<1>1. /\ pc[p] = "test" /\ cred[p].op = "none" /\ Prepared(p) /\ NoWrite /\ NoStoreStep /\ NoCredCall
      /\ UNCHANGED <<faults, cmd, existing, previous, grants, verifier, crashes, overlapped, before>>
  BY DEF Test, AtStation, AllPrepared
<1>2. /\ cmd[p] \in Request /\ cmd[p] \in Requests
      /\ Do(p) \in {"update_connection", "rotate", "test_saved"}
      /\ existing[p] \in ProfileType
      /\ Do(p) = "update_connection" => draft[p].profile \in ProfileType
      /\ Do(p) = "rotate" => draft[p].secret \in Secrets
      /\ Do(p) # "rotate" /\ got[p].is = "ok" => got[p].secret \in Secrets
  BY <1>1, RequestOf DEF Prepared, DoAt, HasRow, HasDraft, HasSecret, HasAnswer, Asks
<1>3. /\ {"ended", "reread"} \subseteq Stations
      /\ {"ok", "credential_store_error", "test_failed"} \subseteq Results
  BY DEF Stations, Results
<1> DEFINE Good == Prepared(p)' /\ \E s \in Stations, d \in DraftType : Goes(p, s) /\ Drafts(p, d)
<1>4. ASSUME NEW r \in Results, End(p, r), UNCHANGED draft
      PROVE  Good
  <2>1. Goes(p, "ended") /\ Prepared(p)'
    BY <1>1, <1>4, Ends
  <2>2. Drafts(p, draft[p]) /\ draft[p] \in DraftType
    BY <1>4, DraftTypes
  <2> QED
    BY <1>3, <2>1, <2>2
<1>5. ASSUME got[p].is = "ok",
             draft' = IF Do(p) # "update_connection" THEN draft
                      ELSE [draft EXCEPT ![p].secret =
                              IF cmd[p].secret = Nothing THEN got[p].secret ELSE cmd[p].secret],
             IF Do(p) = "test_saved" THEN End(p, "ok") ELSE To(p, "reread")
      PROVE  Good
  <2>1. CASE Do(p) = "test_saved"
    <3>1. End(p, "ok") /\ UNCHANGED draft
      BY <1>5, <2>1
    <3> QED
      BY <1>3, <1>4, <3>1
  <2>2. CASE Do(p) # "test_saved"
    <3>1. PICK d \in DraftType : /\ Drafts(p, d) /\ d.secret \in Secrets
                                 /\ d.profile = draft[p].profile
      <4>1. CASE Do(p) = "rotate"
        <5>1. UNCHANGED draft
          BY <1>5, <4>1
        <5> QED
          BY <1>2, <4>1, <5>1, DraftTypes
      <4>2. CASE Do(p) = "update_connection"
        <5> DEFINE new == IF cmd[p].secret = Nothing THEN got[p].secret ELSE cmd[p].secret
        <5>1. new \in Secrets
          BY <1>2, <1>5, <4>2 DEF Request
        <5>2. draft' = [draft EXCEPT ![p].secret = new]
          BY <1>5, <4>2
        <5> HIDE DEF new
        <5>3. /\ Drafts(p, [draft[p] EXCEPT !.secret = new])
              /\ draft'[p].secret = new /\ draft'[p].profile = draft[p].profile
          BY <5>1, <5>2, DraftTypes
        <5>4. draft'[p] = [draft[p] EXCEPT !.secret = new] /\ draft'[p] \in DraftType
          BY <5>3 DEF Drafts
        <5> QED
          BY <5>1, <5>3, <5>4
      <4> QED
        BY <1>2, <2>2, <4>1, <4>2
    <3>2. Goes(p, "reread") /\ cred'[p] = cred[p]
      BY <1>1, <1>3, <1>5, <2>2, ToGoes
    <3>3. /\ pc'[p] = "reread" /\ cmd'[p] = cmd[p] /\ draft'[p] = d /\ previous'[p] = previous[p]
          /\ existing'[p] = existing[p]
      BY <1>1, <3>1, <3>2 DEF Goes, Drafts
    <3>4. DoAt(p)' /\ HasRow(p)' /\ HasDraft(p)' /\ HasSecret(p)'
      BY <1>2, <2>2, <3>1, <3>3 DEF DoAt, HasRow, HasDraft, HasSecret, Do
    <3>5. HasAnswer(p)' /\ CredKnown(p)'
      BY <1>1, <1>2, <3>2, <3>3 DEF HasAnswer, Asks, CredKnown, Running, Do
    <3> QED
      BY <1>3, <3>1, <3>2, <3>4, <3>5 DEF Prepared
  <2> QED
    BY <2>1, <2>2
<1> HIDE DEF Good
<1>6. Good
  <2>1. \/ got[p].is # "ok" /\ End(p, "credential_store_error") /\ UNCHANGED draft
        \/ got[p].is = "ok" /\ End(p, "test_failed") /\ UNCHANGED draft
        \/ /\ got[p].is = "ok"
           /\ draft' = IF Do(p) # "update_connection" THEN draft
                      ELSE [draft EXCEPT ![p].secret =
                              IF cmd[p].secret = Nothing THEN got[p].secret ELSE cmd[p].secret]
           /\ IF Do(p) = "test_saved" THEN End(p, "ok") ELSE To(p, "reread")
    BY DEF Test
  <2> QED
    BY <1>3, <1>4, <1>5, <2>1
<1>7. PICK s \in Stations, d \in DraftType : Goes(p, s) /\ Drafts(p, d)
  BY <1>6 DEF Good
<1>8. TypeOK' /\ Others(p)
  BY <1>1, <1>7, SameTypes, StepTypes
<1> QED
  BY <1>6, <1>8 DEF Good

LEMMA RereadKeeps ==
  ASSUME TypeOK, AllPrepared, NEW p \in Procs, Reread(p)
  PROVE  TypeOK' /\ Prepared(p)' /\ Others(p)
<1> DEFINE row == profile[Conn(p)]
<1>1. /\ pc[p] = "reread" /\ cred[p].op = "none" /\ Prepared(p) /\ NoWrite /\ NoStoreStep
      /\ existing' = [existing EXCEPT ![p] = row]
      /\ UNCHANGED <<faults, cmd, previous, grants, verifier, crashes, overlapped, before>>
  BY DEF Reread, AtStation, AllPrepared
<1>2. /\ cmd[p] \in Requests
      /\ Do(p) \in {"update_profile", "update_connection", "rotate", "replace_secret"}
      /\ Do(p) \in {"update_profile", "update_connection"} => draft[p].profile \in ProfileType
      /\ Do(p) # "update_profile" => draft[p].secret \in Secrets
  BY <1>1, RequestOf DEF Prepared, DoAt, HasDraft, HasSecret
<1>3. row \in ProfileType \cup {NoProfile} /\ (row # NoProfile => row \in ProfileType /\ row.ref \in Refs)
  BY <1>1, RowOf
<1>4. /\ {"ended", "write", "save"} \subseteq Stations
      /\ "refused" \in Results
  BY DEF Stations, Results
<1>5. /\ existing' \in [Procs -> ProfileType \cup {NoProfile}]
      /\ \A q \in Procs \ {p} : existing'[q] = existing[q]
      /\ existing'[p] = row
  BY <1>1, <1>3 DEF TypeOK
<1> DEFINE Good == Prepared(p)' /\ \E s \in Stations, d \in DraftType : Goes(p, s) /\ Drafts(p, d)
<1>6. ASSUME RereadRefuses(p, row) PROVE Good
  <2>1. End(p, "refused") /\ NoCredCall /\ UNCHANGED draft
    BY <1>6 DEF Reread
  <2>2. Goes(p, "ended") /\ Prepared(p)'
    BY <1>1, <1>4, <2>1, Ends
  <2>3. Drafts(p, draft[p]) /\ draft[p] \in DraftType
    BY <2>1, DraftTypes
  <2> QED
    BY <1>4, <2>2, <2>3
<1>7. ASSUME ~RereadRefuses(p, row) PROVE Good
  <2>1. /\ draft' = IF Rotates(p) THEN draft
                    ELSE [draft EXCEPT ![p].profile = Versioned(draft[p].profile, row)]
        /\ IF Do(p) = "update_profile" THEN To(p, "write") /\ NoCredCall
           ELSE Via(p, "get", row.ref, Nothing, "save")
    BY <1>7 DEF Reread, TypeOK
  <2>2. row \in ProfileType /\ row.ref \in Refs
    BY <1>3, <1>7 DEF RereadRefuses
  <2> HIDE DEF row
  <2>3. PICK d \in DraftType :
           /\ Drafts(p, d) /\ d.secret = draft[p].secret
           /\ Do(p) \in {"update_profile", "update_connection"} => d.profile \in ProfileType
    <3>1. CASE Rotates(p)
      <4>1. UNCHANGED draft
        BY <2>1, <3>1
      <4> QED
        BY <1>2, <3>1, <4>1, DraftTypes DEF Rotates
    <3>2. CASE ~Rotates(p)
      <4> DEFINE new == Versioned(draft[p].profile, row)
      <4>1. draft[p].profile \in ProfileType
        BY <1>2, <3>2 DEF Rotates
      <4>2. row.version \in Nat /\ row.version + 1 \in Nat
        BY <2>2 DEF ProfileType
      <4>3. new \in ProfileType
        BY <4>1, <4>2 DEF ProfileType, Versioned, next_policy_version
      <4>4. draft' = [draft EXCEPT ![p].profile = new]
        BY <2>1, <3>2
      <4> HIDE DEF new
      <4>5. /\ Drafts(p, [draft[p] EXCEPT !.profile = new])
            /\ draft'[p].profile = new /\ draft'[p].secret = draft[p].secret
        BY <4>3, <4>4, DraftTypes
      <4>6. draft'[p] = [draft[p] EXCEPT !.profile = new] /\ draft'[p] \in DraftType
        BY <4>5 DEF Drafts
      <4> QED
        BY <4>3, <4>5, <4>6
    <3> QED
      BY <3>1, <3>2
  <2>4. draft'[p] = d /\ cmd'[p] = cmd[p] /\ previous'[p] = previous[p]
    BY <1>1, <2>3 DEF Drafts
  <2>5. CASE Do(p) = "update_profile"
    <3>1. Goes(p, "write") /\ cred'[p] = cred[p]
      BY <1>4, <2>1, <2>5, ToGoes
    <3>2. pc'[p] = "write"
      BY <3>1 DEF Goes
    <3>3. DoAt(p)' /\ HasRow(p)' /\ HasDraft(p)' /\ HasSecret(p)'
      BY <1>2, <2>3, <2>4, <2>5, <3>2 DEF DoAt, HasRow, HasDraft, HasSecret, Do
    <3>4. HasAnswer(p)' /\ CredKnown(p)'
      BY <1>1, <1>2, <3>1, <3>2 DEF HasAnswer, Asks, CredKnown, Running, Do
    <3> QED
      BY <1>4, <2>3, <3>1, <3>3, <3>4 DEF Prepared
  <2>6. CASE Do(p) # "update_profile"
    <3>1. Calls(p, "get", row.ref, Nothing, "save")
      BY <1>1, <1>4, <2>1, <2>2, <2>6, ViaCalls
    <3>2. /\ pc'[p] = "save" /\ cred'[p].op = "get" /\ cred'[p].ref \in Refs /\ cred'[p].key \in FileKeys
      BY <1>1, <2>2, <3>1, RequestOf DEF Goes, Calls
    <3>3. DoAt(p)' /\ HasRow(p)' /\ HasDraft(p)' /\ HasSecret(p)'
      BY <1>2, <1>5, <2>2, <2>3, <2>4, <2>6, <3>2 DEF DoAt, HasRow, HasDraft, HasSecret, Do
    <3>4. HasAnswer(p)' /\ CredKnown(p)'
      BY <3>2 DEF HasAnswer, Asks, CredKnown, Running, Do
    <3> QED
      BY <1>4, <2>3, <3>1, <3>3, <3>4 DEF Prepared, Calls
  <2> QED
    BY <2>5, <2>6
<1> HIDE DEF Good
<1>8. Good
  BY <1>6, <1>7
<1>9. PICK s \in Stations, d \in DraftType : Goes(p, s) /\ Drafts(p, d)
  BY <1>8 DEF Good
<1>10. TypeOK' /\ Others(p)
  BY <1>1, <1>5, <1>9, SameTypes, StepTypes
<1> QED
  BY <1>8, <1>10 DEF Good

LEMMA SaveKeeps ==
  ASSUME TypeOK, AllPrepared, NEW p \in Procs, Save(p)
  PROVE  TypeOK' /\ Prepared(p)' /\ Others(p)
<1>1. /\ pc[p] = "save" /\ cred[p].op = "none" /\ Prepared(p) /\ NoWrite /\ NoStoreStep
      /\ UNCHANGED <<faults, cmd, existing, draft, grants, verifier, crashes, overlapped, before>>
  BY DEF Save, AtStation, AllPrepared
<1>2. /\ cmd[p] \in Requests
      /\ Do(p) \in {"update_connection", "rotate", "replace_secret"}
      /\ existing[p] \in ProfileType /\ existing[p].ref \in Refs
      /\ Do(p) = "update_connection" => draft[p].profile \in ProfileType
      /\ draft[p].secret \in Secrets
  BY <1>1, RequestOf DEF Prepared, DoAt, HasRow, HasDraft, HasSecret, ProfileType, UserRefs
<1>3. {"ended", "stored"} \subseteq Stations /\ "credential_store_error" \in Results
  BY DEF Stations, Results
<1>4. got[p].secret \in Secrets \cup {Nothing}
  BY DEF TypeOK, GotType
<1> DEFINE Good == /\ Prepared(p)' /\ \E s \in Stations : Goes(p, s)
                   /\ previous' \in [Procs -> Secrets \cup {Nothing}]
                   /\ \A q \in Procs \ {p} : previous'[q] = previous[q]
<1>5. ASSUME End(p, "credential_store_error"), NoCredCall, UNCHANGED previous PROVE Good
  BY <1>1, <1>3, <1>5, Ends, SameTypes
<1>6. ASSUME previous' = [previous EXCEPT ![p] = got[p].secret],
             Via(p, "put", existing[p].ref, draft[p].secret, "stored")
      PROVE  Good
  <2>1. Calls(p, "put", existing[p].ref, draft[p].secret, "stored")
    BY <1>1, <1>2, <1>3, <1>6, ViaCalls
  <2>2. /\ pc'[p] = "stored" /\ cred'[p].op = "put" /\ cred'[p].ref \in Refs /\ cred'[p].key \in FileKeys
        /\ cred'[p].secret \in Secrets /\ cred'[p].at = "begin"
        /\ cmd'[p] = cmd[p] /\ draft'[p] = draft[p] /\ existing'[p] = existing[p]
    BY <1>1, <1>2, <2>1, RequestOf DEF Goes, Calls
  <2>3. /\ previous' \in [Procs -> Secrets \cup {Nothing}]
        /\ \A q \in Procs \ {p} : previous'[q] = previous[q]
    BY <1>4, <1>6 DEF TypeOK
  <2>4. DoAt(p)' /\ HasRow(p)' /\ HasDraft(p)' /\ HasSecret(p)'
    BY <1>2, <2>2 DEF DoAt, HasRow, HasDraft, HasSecret, Do
  <2>5. HasAnswer(p)' /\ CredKnown(p)'
    BY <2>2 DEF HasAnswer, Asks, CredKnown, Running, Do
  <2> QED
    BY <1>3, <2>1, <2>3, <2>4, <2>5 DEF Prepared, Calls
<1> HIDE DEF Good
<1>7. Good
  BY <1>5, <1>6 DEF Save
<1>8. PICK s \in Stations : Goes(p, s)
  BY <1>7 DEF Good
<1>9. TypeOK' /\ Others(p)
  BY <1>1, <1>7, <1>8, SameTypes, StepTypes DEF Good
<1> QED
  BY <1>7, <1>9 DEF Good

LEMMA SecretStoredKeeps ==
  ASSUME TypeOK, AllPrepared, NEW p \in Procs, SecretStored(p)
  PROVE  TypeOK' /\ Prepared(p)' /\ Others(p)
<1>1. /\ pc[p] = "stored" /\ cred[p].op = "none" /\ Prepared(p) /\ NoStoreStep
      /\ UNCHANGED <<cmd, existing, draft, previous, grants, verifier, crashes, overlapped, before>>
  BY DEF SecretStored, AtStation, AllPrepared
<1>2. /\ cmd[p] \in Requests /\ Conn(p) \in Conns /\ cmd[p].ref \in Refs /\ cmd[p].key \in FileKeys
      /\ Do(p) \in {"create", "update_connection", "rotate", "replace_secret"}
      /\ Do(p) # "create" => existing[p] \in ProfileType /\ existing[p].ref \in Refs
      /\ Do(p) \in {"create", "update_connection"} => draft[p].profile \in ProfileType
      /\ Do(p) = "create" => previous[p] = Nothing
      /\ previous[p] \in Secrets \cup {Nothing}
  BY <1>1, RequestOf DEF Prepared, DoAt, HasRow, HasDraft, HasSecret, ProfileType, UserRefs, TypeOK
<1>3. {"ended", "undone"} \subseteq Stations /\ {"ok", "credential_store_error"} \subseteq Results
  BY DEF Stations, Results
<1> DEFINE Good == /\ Prepared(p)' /\ RowTypes' /\ faults' \in 0..MaxFaults
                   /\ \E s \in Stations : Goes(p, s)
<1>4. ASSUME End(p, "credential_store_error"), NoWrite, NoCredCall, FaultFree PROVE Good
  BY <1>1, <1>3, <1>4, Ends, SameTypes DEF FaultFree
<1>5. ASSUME AfterSecret(p), End(p, "ok"), NoCredCall, FaultFree PROVE Good
  <2>1. RowTypes'
    <3>1. CASE Rotates(p)
      BY <1>2, <1>5, <3>1, NotifyTypes DEF AfterSecret
    <3>2. CASE ~Rotates(p)
      <4>1. draft[p].profile \in ProfileType \cup {NoProfile} /\ Upsert(Conn(p), draft[p].profile)
        BY <1>2, <1>5, <3>2 DEF Rotates, AfterSecret
      <4> QED
        BY <1>2, <4>1, UpsertTypes
    <3> QED
      BY <3>1, <3>2
  <2> QED
    BY <1>1, <1>3, <1>5, <2>1, Ends, SameTypes DEF FaultFree
<1>6. ASSUME NoWrite, Undo(p), Fault PROVE Good
  <2>1. PICK op \in {"put", "delete"}, ref \in Refs, sec \in Secrets \cup {Nothing} :
           /\ Via(p, op, ref, sec, "undone")
           /\ op = "put" => sec \in Secrets
    <3>1. CASE previous[p] = Nothing
      <4> DEFINE ref == IF Do(p) = "create" THEN cmd[p].ref ELSE existing[p].ref
      <4>1. Via(p, "delete", ref, Nothing, "undone") /\ ref \in Refs
        BY <1>2, <1>6, <3>1 DEF Undo
      <4> QED
        BY <4>1
    <3>2. CASE previous[p] # Nothing
      <4>1. Via(p, "put", existing[p].ref, previous[p], "undone") /\ existing[p].ref \in Refs
            /\ previous[p] \in Secrets
        BY <1>2, <1>6, <3>2 DEF Undo
      <4> QED
        BY <4>1
    <3> QED
      BY <3>1, <3>2
  <2>2. Calls(p, op, ref, sec, "undone")
    BY <1>1, <1>3, <2>1, ViaCalls
  <2>3. /\ pc'[p] = "undone" /\ cred'[p].op = op /\ cred'[p].ref \in Refs /\ cred'[p].key \in FileKeys
        /\ cred'[p].secret = sec /\ cred'[p].at = "begin"
        /\ cmd'[p] = cmd[p] /\ draft'[p] = draft[p] /\ existing'[p] = existing[p]
    BY <1>1, <1>2, <2>1, <2>2 DEF Goes, Calls
  <2>4. DoAt(p)' /\ HasRow(p)' /\ HasDraft(p)' /\ HasSecret(p)'
    BY <1>2, <2>3 DEF DoAt, HasRow, HasDraft, HasSecret, Do
  <2>5. HasAnswer(p)' /\ CredKnown(p)'
    BY <2>1, <2>3 DEF HasAnswer, Asks, CredKnown, Running, Do
  <2> QED
    BY <1>3, <1>6, <2>2, <2>4, <2>5, SameTypes DEF Prepared, Calls
<1> HIDE DEF Good
<1>7. Good
  BY <1>4, <1>5, <1>6 DEF SecretStored
<1>8. PICK s \in Stations : Goes(p, s)
  BY <1>7 DEF Good
<1>9. TypeOK' /\ Others(p)
  BY <1>1, <1>7, <1>8, SameTypes, StepTypes DEF Good
<1> QED
  BY <1>7, <1>9 DEF Good

LEMMA UndoneKeeps ==
  ASSUME TypeOK, AllPrepared, NEW p \in Procs, Undone(p)
  PROVE  TypeOK' /\ Prepared(p)' /\ Others(p)
<1>1. /\ pc[p] = "undone" /\ cred[p].op = "none" /\ NoWrite /\ NoStoreStep
      /\ End(p, "storage_error") /\ NoCredCall
      /\ UNCHANGED <<faults, cmd, existing, draft, previous, grants, verifier, crashes, overlapped,
                     before>>
  BY DEF Undone, AtStation
<1>2. "storage_error" \in Results
  BY DEF Results
<1>3. Goes(p, "ended") /\ Prepared(p)' /\ "ended" \in Stations
  BY <1>1, <1>2, Ends
<1> QED
  BY <1>1, <1>3, SameTypes, StepTypes

LEMMA WriteKeeps ==
  ASSUME TypeOK, AllPrepared, NEW p \in Procs, Write(p)
  PROVE  TypeOK' /\ Prepared(p)' /\ Others(p)
<1>1. /\ pc[p] = "write" /\ cred[p].op = "none" /\ Prepared(p) /\ NoStoreStep /\ NoCredCall
      /\ UNCHANGED <<cmd, existing, draft, previous, grants, verifier, crashes, overlapped, before>>
  BY DEF Write, AtStation, AllPrepared
<1>2. Conn(p) \in Conns /\ draft[p].profile \in ProfileType
  BY <1>1, RequestOf DEF Prepared, HasDraft
<1>3. {"ok", "storage_error"} \subseteq Results
  BY DEF Results
<1>4. Goes(p, "ended") /\ Prepared(p)' /\ "ended" \in Stations
  <2>1. End(p, "ok") \/ End(p, "storage_error")
    BY DEF Write
  <2> QED
    BY <1>1, <1>3, <2>1, Ends
<1>5. RowTypes' /\ faults' \in 0..MaxFaults
  <2>1. \/ Upsert(Conn(p), draft[p].profile) /\ FaultFree
        \/ NoWrite /\ Fault
    BY DEF Write
  <2>2. draft[p].profile \in ProfileType \cup {NoProfile}
    BY <1>2
  <2> QED
    BY <1>2, <2>1, <2>2, SameTypes, UpsertTypes DEF FaultFree
<1> QED
  BY <1>1, <1>4, <1>5, SameTypes, StepTypes

LEMMA RemoveKeeps ==
  ASSUME TypeOK, AllPrepared, NEW p \in Procs, Remove(p)
  PROVE  TypeOK' /\ Prepared(p)' /\ Others(p)
<1>1. /\ pc[p] = "remove" /\ cred[p].op = "none" /\ Prepared(p) /\ NoStoreStep
      /\ UNCHANGED <<cmd, existing, draft, grants, verifier, crashes, overlapped, before>>
  BY DEF Remove, AtStation, AllPrepared
<1>2. /\ cmd[p] \in Requests /\ Conn(p) \in Conns /\ cmd[p].key \in FileKeys /\ Do(p) = "delete"
      /\ existing[p] \in ProfileType /\ existing[p].ref \in Refs
      /\ got[p].is = "ok" => got[p].secret \in Secrets
  BY <1>1, RequestOf DEF Prepared, DoAt, HasRow, HasAnswer, Asks, ProfileType, UserRefs
<1>3. {"ended", "removed"} \subseteq Stations /\ {"ok", "refused", "storage_error"} \subseteq Results
  BY DEF Stations, Results
<1>4. got[p].secret \in Secrets \cup {Nothing} /\ got[p].is \in {"ok", "error", "NotFound"}
  BY DEF TypeOK, GotType
<1> DEFINE Prev == /\ previous' \in [Procs -> Secrets \cup {Nothing}]
                   /\ \A q \in Procs \ {p} : previous'[q] = previous[q]
           Good == /\ Prepared(p)' /\ RowTypes' /\ faults' \in 0..MaxFaults
                   /\ Prev /\ \E s \in Stations : Goes(p, s)
<1>5. ASSUME NEW r \in {"refused", "storage_error"}, End(p, r), NoWrite, NoCredCall,
             FaultFree \/ Fault, UNCHANGED previous
      PROVE  Good
  BY <1>1, <1>3, <1>5, Ends, SameTypes DEF FaultFree
<1>6. ASSUME got[p].is # "error", FaultFree, Upsert(Conn(p), NoProfile),
             previous' = [previous EXCEPT ![p] = got[p].secret],
             IF got[p].is = "NotFound" THEN End(p, "ok") /\ NoCredCall
             ELSE Via(p, "delete", existing[p].ref, Nothing, "removed")
      PROVE  Good
  <2>1. RowTypes' /\ faults' \in 0..MaxFaults
    <3>1. NoProfile \in ProfileType \cup {NoProfile}
      OBVIOUS
    <3> QED
      BY <1>2, <1>6, <3>1, UpsertTypes, SameTypes DEF FaultFree
  <2>2. Prev /\ previous'[p] = got[p].secret
    BY <1>4, <1>6 DEF TypeOK
  <2> HIDE DEF Prev
  <2>3. CASE got[p].is = "NotFound"
    BY <1>1, <1>3, <1>6, <2>1, <2>2, <2>3, Ends
  <2>4. CASE got[p].is # "NotFound"
    <3>1. got[p].is = "ok" /\ got[p].secret \in Secrets
      BY <1>2, <1>4, <1>6, <2>4
    <3>2. Calls(p, "delete", existing[p].ref, Nothing, "removed")
      BY <1>1, <1>2, <1>3, <1>6, <2>4, ViaCalls
    <3>3. /\ pc'[p] = "removed" /\ cred'[p].op = "delete" /\ cred'[p].ref \in Refs /\ cred'[p].key \in FileKeys
          /\ cmd'[p] = cmd[p] /\ draft'[p] = draft[p] /\ existing'[p] = existing[p]
      BY <1>1, <1>2, <3>2 DEF Goes, Calls
    <3>4. DoAt(p)' /\ HasRow(p)' /\ HasDraft(p)' /\ HasSecret(p)'
      BY <1>2, <2>2, <3>1, <3>3 DEF DoAt, HasRow, HasDraft, HasSecret, Do
    <3>5. HasAnswer(p)' /\ CredKnown(p)'
      BY <3>3 DEF HasAnswer, Asks, CredKnown, Running, Do
    <3> QED
      BY <1>3, <2>1, <2>2, <3>2, <3>4, <3>5 DEF Prepared, Calls
  <2> QED
    BY <2>3, <2>4
<1> HIDE DEF Good
<1>7. Good
  BY <1>5, <1>6 DEF Remove
<1>8. PICK s \in Stations : Goes(p, s)
  BY <1>7 DEF Good
<1>9. TypeOK' /\ Others(p)
  BY <1>1, <1>7, <1>8, SameTypes, StepTypes DEF Good
<1> QED
  BY <1>7, <1>9 DEF Good

LEMMA RemovedKeeps ==
  ASSUME TypeOK, AllPrepared, NEW p \in Procs, Removed(p)
  PROVE  TypeOK' /\ Prepared(p)' /\ Others(p)
<1>1. /\ pc[p] = "removed" /\ cred[p].op = "none" /\ Prepared(p) /\ NoWrite /\ NoStoreStep
      /\ UNCHANGED <<faults, cmd, existing, draft, previous, grants, verifier, crashes, overlapped,
                     before>>
  BY DEF Removed, AtStation, AllPrepared
<1>2. /\ cmd[p] \in Requests /\ cmd[p].key \in FileKeys /\ Do(p) = "delete"
      /\ existing[p] \in ProfileType /\ existing[p].ref \in Refs /\ previous[p] \in Secrets
  BY <1>1, RequestOf DEF Prepared, DoAt, HasRow, HasSecret, ProfileType, UserRefs
<1>3. {"ended", "restore"} \subseteq Stations /\ "ok" \in Results
  BY DEF Stations, Results
<1> DEFINE Good == Prepared(p)' /\ \E s \in Stations : Goes(p, s)
<1>4. ASSUME End(p, "ok"), NoCredCall PROVE Good
  BY <1>1, <1>3, <1>4, Ends
<1>5. ASSUME Via(p, "put", existing[p].ref, previous[p], "restore") PROVE Good
  <2>1. Calls(p, "put", existing[p].ref, previous[p], "restore")
    BY <1>1, <1>2, <1>3, <1>5, ViaCalls
  <2>2. /\ pc'[p] = "restore" /\ cred'[p].op = "put" /\ cred'[p].ref \in Refs /\ cred'[p].key \in FileKeys
        /\ cred'[p].secret \in Secrets /\ cred'[p].at = "begin"
        /\ cmd'[p] = cmd[p] /\ draft'[p] = draft[p] /\ existing'[p] = existing[p]
    BY <1>1, <1>2, <2>1 DEF Goes, Calls
  <2>3. DoAt(p)' /\ HasRow(p)' /\ HasDraft(p)' /\ HasSecret(p)'
    BY <1>2, <2>2 DEF DoAt, HasRow, HasDraft, HasSecret, Do
  <2>4. HasAnswer(p)' /\ CredKnown(p)'
    BY <2>2 DEF HasAnswer, Asks, CredKnown, Running, Do
  <2> QED
    BY <1>3, <2>1, <2>3, <2>4 DEF Prepared, Calls
<1> HIDE DEF Good
<1>6. Good
  BY <1>4, <1>5 DEF Removed
<1>7. PICK s \in Stations : Goes(p, s)
  BY <1>6 DEF Good
<1>8. TypeOK' /\ Others(p)
  BY <1>1, <1>7, SameTypes, StepTypes
<1> QED
  BY <1>6, <1>8 DEF Good

LEMMA RestoreKeeps ==
  ASSUME TypeOK, AllPrepared, NEW p \in Procs, Restore(p)
  PROVE  TypeOK' /\ Prepared(p)' /\ Others(p)
<1>1. /\ pc[p] = "restore" /\ cred[p].op = "none" /\ Prepared(p) /\ NoStoreStep /\ NoCredCall
      /\ End(p, "credential_store_error")
      /\ UNCHANGED <<cmd, existing, draft, previous, grants, verifier, crashes, overlapped, before>>
  BY DEF Restore, AtStation, AllPrepared
<1>2. Conn(p) \in Conns /\ existing[p] \in ProfileType \cup {NoProfile}
  BY <1>1, RequestOf DEF TypeOK
<1>3. "credential_store_error" \in Results
  BY DEF Results
<1>4. Goes(p, "ended") /\ Prepared(p)' /\ "ended" \in Stations
  BY <1>1, <1>3, Ends
<1>5. RowTypes' /\ faults' \in 0..MaxFaults
  <2>1. (NoWrite \/ Upsert(Conn(p), existing[p])) /\ (FaultFree \/ Fault)
    BY DEF Restore
  <2> QED
    BY <1>2, <2>1, SameTypes, UpsertTypes DEF FaultFree
<1> QED
  BY <1>1, <1>4, <1>5, SameTypes, StepTypes

\* The signing key is at hand: an MCP process ends, an authorization goes on to the row.
LEMMA UseKeyKeeps ==
  ASSUME TypeOK, AllPrepared, NEW p \in Procs, pc[p] \in {"key", "keystored"},
         cred[p].op = "none", NEW key \in Secrets, UseKey(p, key), NoCredCall, UNCHANGED <<cmd, previous>>
  PROVE  /\ Prepared(p)' /\ verifier' \in [Procs -> Secrets \cup {Nothing}]
         /\ \E s \in Stations, d \in DraftType : Goes(p, s) /\ Drafts(p, d)
<1>1. Prepared(p) /\ cmd[p] \in Requests /\ KeyUser(Do(p)) /\ previous[p] = Nothing
  BY RequestOf DEF AllPrepared, Prepared, DoAt, HasSecret
<1>2. {"read", "ended"} \subseteq Stations /\ "ok" \in Results
  BY DEF Stations, Results
<1>3. CASE Do(p) = "mcp"
  <2>1. verifier' = [verifier EXCEPT ![p] = key] /\ End(p, "ok") /\ UNCHANGED draft
    BY <1>3 DEF UseKey
  <2>2. Goes(p, "ended") /\ Prepared(p)'
    BY <1>2, <2>1, Ends
  <2>3. verifier' \in [Procs -> Secrets \cup {Nothing}]
    BY <2>1 DEF TypeOK
  <2>4. Drafts(p, draft[p]) /\ draft[p] \in DraftType
    BY <2>1, DraftTypes
  <2> QED
    BY <1>2, <2>2, <2>3, <2>4
<1>4. CASE Do(p) # "mcp"
  <2>1. draft' = [draft EXCEPT ![p].secret = key] /\ To(p, "read") /\ UNCHANGED verifier
    BY <1>4 DEF UseKey
  <2>2. /\ Drafts(p, [draft[p] EXCEPT !.secret = key])
        /\ draft'[p].secret = key
    BY <2>1, DraftTypes
  <2>3. [draft[p] EXCEPT !.secret = key] \in DraftType
    BY <2>2 DEF Drafts
  <2>4. Goes(p, "read") /\ cred'[p] = cred[p]
    BY <1>2, <2>1, ToGoes
  <2>5. pc'[p] = "read" /\ cmd'[p] = cmd[p] /\ previous'[p] = Nothing
    BY <1>1, <2>4 DEF Goes
  <2>6. DoAt(p)' /\ HasRow(p)' /\ HasDraft(p)' /\ HasSecret(p)'
    BY <1>1, <1>4, <2>2, <2>5 DEF DoAt, HasRow, HasDraft, HasSecret, Do
  <2>7. HasAnswer(p)' /\ CredKnown(p)'
    BY <2>4, <2>5 DEF HasAnswer, Asks, CredKnown, Running
  <2>8. verifier' \in [Procs -> Secrets \cup {Nothing}]
    BY <2>1 DEF TypeOK
  <2> QED
    BY <1>2, <2>2, <2>3, <2>4, <2>6, <2>7, <2>8 DEF Prepared
<1> QED
  BY <1>3, <1>4

LEMMA LoadKeyKeeps ==
  ASSUME TypeOK, AllPrepared, NEW p \in Procs, LoadKey(p)
  PROVE  TypeOK' /\ Prepared(p)' /\ Others(p)
<1>1. /\ pc[p] = "key" /\ cred[p].op = "none" /\ Prepared(p) /\ NoWrite /\ NoStoreStep
      /\ UNCHANGED <<faults, cmd, existing, previous, grants, crashes, overlapped, before>>
  BY DEF LoadKey, AtStation, AllPrepared
<1>2. /\ cmd[p] \in Requests /\ cmd[p].key \in FileKeys /\ KeyUser(Do(p)) /\ previous[p] = Nothing
      /\ got[p].is = "ok" => got[p].secret \in Secrets
      /\ got[p].is \in {"ok", "error", "NotFound"}
  BY <1>1, RequestOf DEF Prepared, DoAt, HasSecret, HasAnswer, Asks, TypeOK, GotType
<1>3. {"ended", "keystored"} \subseteq Stations /\ "credential_store_error" \in Results
  BY DEF Stations, Results
<1> DEFINE Good == /\ Prepared(p)' /\ verifier' \in [Procs -> Secrets \cup {Nothing}]
                   /\ \E s \in Stations, d \in DraftType : Goes(p, s) /\ Drafts(p, d)
<1>4. ASSUME End(p, "credential_store_error"), NoCredCall, UNCHANGED <<draft, verifier>> PROVE Good
  <2>1. Goes(p, "ended") /\ Prepared(p)' /\ "ended" \in Stations
    BY <1>1, <1>3, <1>4, Ends
  <2>2. Drafts(p, draft[p]) /\ draft[p] \in DraftType
    BY <1>4, DraftTypes
  <2> QED
    BY <1>4, <2>1, <2>2 DEF TypeOK
<1>5. ASSUME NEW k \in FreshKeys, draft' = [draft EXCEPT ![p].secret = k],
             Via(p, "put", KeyRef, k, "keystored"), UNCHANGED verifier
      PROVE  Good
  <2>1. k \in Secrets /\ KeyRef \in Refs
    BY ControlAssumption DEF FreshKeys
  <2>2. Drafts(p, [draft[p] EXCEPT !.secret = k]) /\ draft'[p].secret = k
    BY <1>5, <2>1, DraftTypes
  <2>3. [draft[p] EXCEPT !.secret = k] \in DraftType
    BY <2>2 DEF Drafts
  <2>4. Calls(p, "put", KeyRef, k, "keystored")
    BY <1>1, <1>3, <1>5, <2>1, ViaCalls
  <2>5. /\ pc'[p] = "keystored" /\ cmd'[p] = cmd[p] /\ previous'[p] = Nothing
        /\ cred'[p].op = "put" /\ cred'[p].at = "begin" /\ cred'[p].ref = KeyRef
        /\ cred'[p].secret = k /\ cred'[p].key = cmd[p].key
    BY <1>1, <1>2, <2>4 DEF Calls, Goes
  <2>6. DoAt(p)' /\ HasRow(p)' /\ HasDraft(p)' /\ HasSecret(p)'
    BY <1>2, <2>1, <2>2, <2>5 DEF DoAt, HasRow, HasDraft, HasSecret, Do
  <2>7. HasAnswer(p)' /\ CredKnown(p)'
    BY <1>2, <2>1, <2>5 DEF HasAnswer, Asks, CredKnown, Running
  <2> QED
    BY <1>3, <1>5, <2>2, <2>3, <2>4, <2>6, <2>7 DEF Prepared, Calls, TypeOK
<1>6. ASSUME got[p].is # "error", ~KeyMissing(p), UseKey(p, got[p].secret), NoCredCall PROVE Good
  <2>1. got[p].secret \in Secrets
    BY <1>2, <1>6 DEF KeyMissing
  <2> QED
    BY <1>1, <1>6, <2>1, UseKeyKeeps
<1> HIDE DEF Good
<1>7. Good
  BY <1>4, <1>5, <1>6 DEF LoadKey
<1>8. PICK s \in Stations, d \in DraftType : Goes(p, s) /\ Drafts(p, d)
  BY <1>7 DEF Good
<1>9. TypeOK' /\ Others(p)
  BY <1>1, <1>7, <1>8, SameTypes, StepTypes DEF Good
<1> QED
  BY <1>7, <1>9 DEF Good

LEMMA KeyStoredKeeps ==
  ASSUME TypeOK, AllPrepared, NEW p \in Procs, KeyStored(p)
  PROVE  TypeOK' /\ Prepared(p)' /\ Others(p)
<1>1. /\ pc[p] = "keystored" /\ cred[p].op = "none" /\ Prepared(p) /\ NoWrite /\ NoStoreStep /\ NoCredCall
      /\ UNCHANGED <<faults, cmd, existing, previous, grants, crashes, overlapped, before>>
  BY DEF KeyStored, AtStation, AllPrepared
<1>2. draft[p].secret \in Secrets /\ "credential_store_error" \in Results
  BY <1>1 DEF Prepared, HasSecret, Results
<1> DEFINE Good == /\ Prepared(p)' /\ verifier' \in [Procs -> Secrets \cup {Nothing}]
                   /\ \E s \in Stations, d \in DraftType : Goes(p, s) /\ Drafts(p, d)
<1>3. ASSUME End(p, "credential_store_error"), UNCHANGED <<draft, verifier>> PROVE Good
  <2>1. Goes(p, "ended") /\ Prepared(p)' /\ "ended" \in Stations
    BY <1>1, <1>2, <1>3, Ends
  <2>2. Drafts(p, draft[p]) /\ draft[p] \in DraftType
    BY <1>3, DraftTypes
  <2> QED
    BY <1>3, <2>1, <2>2 DEF TypeOK
<1>4. ASSUME UseKey(p, draft[p].secret) PROVE Good
  BY <1>1, <1>2, <1>4, UseKeyKeeps
<1> HIDE DEF Good
<1>5. Good
  BY <1>3, <1>4 DEF KeyStored
<1>6. PICK s \in Stations, d \in DraftType : Goes(p, s) /\ Drafts(p, d)
  BY <1>5 DEF Good
<1>7. TypeOK' /\ Others(p)
  BY <1>1, <1>5, <1>6, SameTypes, StepTypes DEF Good
<1> QED
  BY <1>5, <1>7 DEF Good

LEMMA IssueKeeps ==
  ASSUME TypeOK, AllPrepared, NEW p \in Procs, Issue(p)
  PROVE  TypeOK' /\ Prepared(p)' /\ Others(p)
<1> DEFINE row == profile[Conn(p)]
<1>1. /\ pc[p] = "read" /\ Do(p) = "authorize" /\ cred[p].op = "none" /\ Prepared(p) /\ NoWrite
      /\ NoStoreStep /\ NoCredCall
      /\ UNCHANGED <<faults, cmd, existing, draft, previous, verifier, crashes, overlapped, before>>
  BY DEF Issue, AtStation, AllPrepared
<1>2. Conn(p) \in Conns /\ draft[p].secret \in Secrets
  BY <1>1, RequestOf DEF Prepared, HasSecret
<1>3. row # NoProfile => row \in ProfileType
  BY <1>1, RowOf
<1>4. {"ok", "connection_not_found", "permission_denied"} \subseteq Results
  BY DEF Results
<1>5. Goes(p, "ended") /\ Prepared(p)' /\ "ended" \in Stations
  <2>1. End(p, "ok") \/ End(p, "connection_not_found") \/ End(p, "permission_denied")
    BY DEF Issue
  <2> QED
    BY <1>1, <1>4, <2>1, Ends
<1>6. grants' \subseteq [conn : Conns, version : Nat, policy : Policies, key : Secrets]
  <2> DEFINE g == [conn |-> Conn(p), version |-> row.version, policy |-> row.policy,
                   key |-> draft[p].secret]
  <2>1. grants' = grants \/ (Exists(Conn(p)) /\ grants' = grants \cup {g})
    BY DEF Issue
  <2>2. Exists(Conn(p)) => g \in [conn : Conns, version : Nat, policy : Policies, key : Secrets]
    BY <1>2, <1>3 DEF Exists, ProfileType
  <2> QED
    BY <2>1, <2>2 DEF TypeOK
<1> QED
  BY <1>1, <1>5, <1>6, SameTypes, StepTypes

LEMMA KillKeeps ==
  ASSUME TypeOK, AllPrepared, NEW p \in Procs, Kill(p)
  PROVE  TypeOK' /\ Prepared(p)' /\ Others(p)
<1>1. /\ Running(p) /\ crashes < MaxCrashes /\ crashes' = crashes + 1 /\ Prepared(p)
      /\ pc' = [pc EXCEPT ![p] = "killed"] /\ cred' = [cred EXCEPT ![p] = NoCred]
      /\ NoWrite /\ NoStoreStep
      /\ UNCHANGED <<faults, cmd, existing, draft, previous, result, grants, verifier, overlapped,
                     before>>
  BY DEF Kill, AllPrepared
<1>2. "killed" \in Stations /\ NoCred \in CredType /\ NoCred.op = "none"
  BY DEF Stations, NoCred, CredType, CredOps
<1>3. /\ pc' \in [Procs -> Stations] /\ pc'[p] = "killed" /\ cred'[p].op = "none"
      /\ cred' \in [Procs -> CredType]
      /\ \A q \in Procs \ {p} : pc'[q] = pc[q] /\ cred'[q] = cred[q]
  BY <1>1, <1>2 DEF TypeOK
<1>4. Prepared(p)'
  BY <1>1, <1>3, EndPrepared DEF Running
<1>5. StoreTypes' /\ CallTypes' /\ RowTypes' /\ ProcTypes'
  BY <1>1, <1>3 DEF TypeOK, StoreTypes, CallTypes, RowTypes, ProcTypes, NoStoreStep, NoWrite
<1>6. HistoryTypes'
  BY <1>1, ControlAssumption DEF TypeOK, HistoryTypes
<1>7. Others(p)
  BY <1>1, <1>3 DEF Others, Own, NoStoreStep
<1> QED
  BY <1>4, <1>5, <1>6, <1>7, TypePartsNext
(***************************************************************************)
(* Steps inside the credential store.                                      *)
(***************************************************************************)
StoreCall(p) ==
    /\ CallTypes' /\ Prepared(p)'
    /\ \A q \in Procs \ {p} : cred'[q] = cred[q] /\ got'[q] = got[q]

LEMMA ReturnKeeps ==
  ASSUME TypeOK, AllPrepared, NEW p \in Procs, NEW r \in GotType, Return(p, r), UNCHANGED ctlVars,
         Asks(p) /\ r.is = "ok" => r.secret \in Secrets
  PROVE  StoreCall(p) /\ cred'[p] = NoCred /\ got'[p] = r
<1>1. /\ CallTypes' /\ cred'[p] = NoCred /\ got'[p] = r
      /\ \A q \in Procs : q # p => cred'[q] = cred[q] /\ got'[q] = got[q]
  BY ReturnTypes
<1>2. pc' = pc /\ cmd' = cmd /\ existing' = existing /\ draft' = draft /\ previous' = previous
  BY DEF ctlVars
<1>3. Prepared(p) /\ NoCred.op = "none"
  BY DEF AllPrepared, NoCred
<1>4. DoAt(p)' /\ HasRow(p)' /\ HasDraft(p)' /\ HasSecret(p)'
  BY <1>2, <1>3 DEF Prepared, DoAt, HasRow, HasDraft, HasSecret, Do, KeyUser
<1>5. HasAnswer(p)'
  BY <1>1, <1>2, <1>3 DEF HasAnswer, Asks, Do
<1>6. CredKnown(p)'
  BY <1>1, <1>3 DEF CredKnown
<1> QED
  BY <1>1, <1>4, <1>5, <1>6 DEF StoreCall, Prepared

LEMMA GotoKeeps ==
  ASSUME TypeOK, AllPrepared, NEW p \in Procs, NEW at \in {"header", "clean", "chunks"},
         NEW gen \in Gens, NEW prev \in Gens \cup {Nothing},
         Goto(p, at, gen, prev), UNCHANGED ctlVars, cred[p].op # "none"
  PROVE  /\ StoreCall(p) /\ got' = got
         /\ cred'[p].op = cred[p].op /\ cred'[p].ref = cred[p].ref /\ cred'[p].key = cred[p].key
         /\ cred'[p].secret = cred[p].secret
         /\ cred'[p].at = at /\ cred'[p].gen = gen /\ cred'[p].prev = prev
<1>1. /\ CallTypes'
      /\ cred'[p] = [cred[p] EXCEPT !.at = at, !.gen = gen, !.prev = prev]
      /\ got' = got
      /\ \A q \in Procs : q # p => cred'[q] = cred[q]
  <2>1. at \in {"begin", "header", "clean", "chunks"} /\ gen \in Gens \cup {Nothing}
    OBVIOUS
  <2> QED
    BY <2>1, GotoTypes
<1>2. cred[p] \in CredType
  BY DEF TypeOK
<1>3. /\ cred'[p].op = cred[p].op /\ cred'[p].ref = cred[p].ref /\ cred'[p].key = cred[p].key
      /\ cred'[p].secret = cred[p].secret
      /\ cred'[p].at = at /\ cred'[p].gen = gen /\ cred'[p].prev = prev
  BY <1>1, <1>2 DEF CredType
<1>4. pc' = pc /\ cmd' = cmd /\ existing' = existing /\ draft' = draft /\ previous' = previous
  BY DEF ctlVars
<1>5. Prepared(p)
  BY DEF AllPrepared
<1>6. DoAt(p)' /\ HasRow(p)' /\ HasDraft(p)' /\ HasSecret(p)'
  BY <1>4, <1>5 DEF Prepared, DoAt, HasRow, HasDraft, HasSecret, Do, KeyUser
<1>7. HasAnswer(p)' /\ CredKnown(p)'
  BY <1>3, <1>4, <1>5 DEF Prepared, HasAnswer, Asks, CredKnown, Running, Do
<1> QED
  BY <1>1, <1>3, <1>6, <1>7 DEF StoreCall, Prepared

\* What a store operation in progress works with.
LEMMA CallAtHand ==
  ASSUME TypeOK, AllPrepared, NEW p \in Procs, cred[p].op # "none"
  PROVE  /\ cred[p] \in CredType /\ cred[p].ref \in Refs /\ cred[p].key \in FileKeys
         /\ header[cred[p].ref] \in Gens \cup {Nothing}
         /\ cred[p].op = "put" => cred[p].secret \in Secrets /\ ~Asks(p)
         /\ cred[p].op = "delete" => ~Asks(p)
         /\ cred[p].op = "put" /\ cred[p].at \in {"header", "clean"} => cred[p].gen \in Gens
         /\ nextGen <= MaxGens => nextGen \in Gens /\ nextGen + 1 \in 1..(MaxGens + 1)
         /\ cred[p].op = "put" =>
               \A g \in Gens : Written(p, g) \in Chunk
<1>1. Prepared(p) /\ cred[p] \in CredType
  BY DEF TypeOK, AllPrepared
<1>2. /\ cred[p].ref \in Refs /\ cred[p].key \in FileKeys
      /\ cred[p].op = "put" => cred[p].secret \in Secrets /\ ~Asks(p)
      /\ cred[p].op = "delete" => ~Asks(p)
      /\ cred[p].op = "put" /\ cred[p].at \in {"header", "clean"} => cred[p].gen \in Gens
  BY <1>1 DEF Prepared, CredKnown, HasAnswer
<1>3. header[cred[p].ref] \in Gens \cup {Nothing}
  BY <1>2 DEF TypeOK
<1>4. nextGen <= MaxGens => nextGen \in Gens /\ nextGen + 1 \in 1..(MaxGens + 1)
  BY CredentialAssumption DEF TypeOK, Gens
<1>5. cred[p].op = "put" => \A g \in Gens : Written(p, g) \in Chunk
  BY <1>2 DEF Written, Chunk
<1> QED
  BY <1>1, <1>2, <1>3, <1>4, <1>5

LEMMA SaysType == \A what \in {"ok", "error", "NotFound"} :
                     Says(what) \in GotType /\ Says(what).is = what
  BY DEF Says, GotType

LEMMA DecryptedType ==
  ASSUME NEW cs, cs \subseteq Chunk, NEW p
  PROVE  Decrypted(p, cs) \in GotType
         /\ (Decrypted(p, cs).is = "ok" => Decrypted(p, cs).secret \in Secrets)
<1>1. CASE cs = {}
  BY <1>1, SaysType DEF Decrypted
<1>2. CASE cs # {}
  <2> DEFINE c == CHOOSE c \in cs : TRUE
  <2>1. c \in Chunk
    BY <1>2
  <2>2. c.secret \in Secrets
    BY <2>1 DEF Chunk
  <2> HIDE DEF c
  <2>3. Decrypted(p, cs) = IF backend = "sqlite" /\ c.key # cred[p].key THEN Says("error")
                           ELSE [is |-> "ok", secret |-> c.secret]
    BY <1>2 DEF Decrypted, c
  <2>4. [is |-> "ok", secret |-> c.secret] \in GotType
    BY <2>2 DEF GotType
  <2> QED
    BY <2>2, <2>3, <2>4, SaysType
<1> QED
  BY <1>1, <1>2

LEMMA CredStepKeeps ==
  ASSUME TypeOK, AllPrepared, NEW p \in Procs, CredStep(p), UNCHANGED ctlVars
  PROVE  TypeOK' /\ Prepared(p)' /\ Others(p)
<1>1. cred[p].op # "none" /\ UNCHANGED <<backend, marker>>
  BY DEF CredStep, PutSqlite, PutChunks, PutHeader, PutClean, GetHeader, GetChunks, DeleteBegin,
         DeleteEntry
<1>2. /\ cred[p] \in CredType /\ cred[p].ref \in Refs /\ cred[p].key \in FileKeys
      /\ header[cred[p].ref] \in Gens \cup {Nothing}
      /\ cred[p].op = "put" => cred[p].secret \in Secrets /\ ~Asks(p)
      /\ cred[p].op = "delete" => ~Asks(p)
      /\ cred[p].op = "put" /\ cred[p].at \in {"header", "clean"} => cred[p].gen \in Gens
      /\ nextGen <= MaxGens => nextGen \in Gens /\ nextGen + 1 \in 1..(MaxGens + 1)
      /\ cred[p].op = "put" => \A g \in Gens : Written(p, g) \in Chunk
      /\ cred[p].prev \in Gens \cup {Nothing}
  BY <1>1, CallAtHand DEF CredType
<1>3. /\ header \in [Refs -> Gens \cup {Nothing}] /\ chunks \subseteq Chunk
      /\ nextGen \in 1..(MaxGens + 1) /\ faults \in 0..MaxFaults
  BY DEF TypeOK
<1>4. \A g : Without(g) \subseteq Chunk
  BY <1>3 DEF Without
<1>5. ASSUME NEW what \in {"ok", "error", "NotFound"}, Return(p, Says(what)),
             ~Asks(p) \/ what # "ok"
      PROVE  StoreCall(p)
  <2>1. Says(what) \in GotType /\ Says(what).is = what
    BY SaysType
  <2> QED
    BY <1>5, <2>1, ReturnKeeps
<1>6. (FaultFree \/ Fault \/ faults' = faults) => faults' \in 0..MaxFaults
  BY <1>3, CredentialAssumption DEF FaultFree, Fault
<1> DEFINE Good == /\ StoreCall(p) /\ header' \in [Refs -> Gens \cup {Nothing}]
                   /\ chunks' \subseteq Chunk /\ nextGen' \in 1..(MaxGens + 1)
                   /\ faults' \in 0..MaxFaults
<1>11. ASSUME PutSqlite(p) PROVE Good
  <2>1. cred[p].op = "put"
    BY <1>11 DEF PutSqlite
  <2>2. CASE nextGen <= MaxGens /\ chunks' = Without(header[cred[p].ref]) \cup {Written(p, nextGen)}
             /\ header' = [header EXCEPT ![cred[p].ref] = nextGen] /\ nextGen' = nextGen + 1
             /\ Return(p, Says("ok")) /\ FaultFree
    <3>1. StoreCall(p)
      BY <1>2, <1>5, <2>1, <2>2
    <3>2. chunks' \subseteq Chunk
      BY <1>2, <1>4, <2>1, <2>2
    <3>3. header' \in [Refs -> Gens \cup {Nothing}]
      BY <1>2, <1>3, <2>2
    <3> QED
      BY <1>2, <1>6, <2>2, <3>1, <3>2, <3>3
  <2>3. CASE Return(p, Says("error")) /\ Fault /\ UNCHANGED <<chunks, header, nextGen>>
    BY <1>3, <1>5, <1>6, <2>3
  <2> QED
    BY <1>11, <2>2, <2>3 DEF PutSqlite
<1>12. ASSUME PutChunks(p) PROVE Good
  <2>1. cred[p].op = "put" /\ UNCHANGED header
    BY <1>12 DEF PutChunks
  <2>2. CASE nextGen <= MaxGens /\ chunks' = chunks \cup {Written(p, nextGen)}
             /\ nextGen' = nextGen + 1 /\ Goto(p, "header", nextGen, header[cred[p].ref]) /\ FaultFree
    <3>1. StoreCall(p)
      BY <1>1, <1>2, <2>2, GotoKeeps
    <3> QED
      BY <1>2, <1>3, <1>6, <2>1, <2>2, <3>1
  <2>3. CASE Return(p, Says("error")) /\ Fault /\ UNCHANGED <<chunks, nextGen>>
    BY <1>3, <1>5, <1>6, <2>1, <2>3
  <2> QED
    BY <1>12, <2>2, <2>3 DEF PutChunks
<1>13. ASSUME PutHeader(p) PROVE Good
  <2>1. cred[p].op = "put" /\ UNCHANGED nextGen /\ cred[p].gen \in Gens
    BY <1>2, <1>13 DEF PutHeader
  <2>2. CASE header' = [header EXCEPT ![cred[p].ref] = cred[p].gen]
             /\ Goto(p, "clean", cred[p].gen, cred[p].prev) /\ FaultFree /\ UNCHANGED chunks
    <3>1. StoreCall(p)
      BY <1>1, <1>2, <2>1, <2>2, GotoKeeps
    <3> QED
      BY <1>2, <1>3, <1>6, <2>1, <2>2, <3>1
  <2>3. CASE chunks' = Without(cred[p].gen) /\ Return(p, Says("error")) /\ Fault /\ UNCHANGED header
    BY <1>3, <1>4, <1>5, <1>6, <2>1, <2>3
  <2> QED
    BY <1>13, <2>2, <2>3 DEF PutHeader
<1>14. ASSUME PutClean(p) PROVE Good
  BY <1>2, <1>3, <1>4, <1>5, <1>6, <1>14 DEF PutClean
<1>15. ASSUME GetHeader(p) PROVE Good
  <2>1. cred[p].op = "get" /\ UNCHANGED <<chunks, header, nextGen>>
    BY <1>15 DEF GetHeader
  <2>2. CASE Return(p, Says("NotFound")) /\ FaultFree
    BY <1>3, <1>5, <1>6, <2>1, <2>2
  <2>3. CASE Return(p, Says("error")) /\ Fault
    BY <1>3, <1>5, <1>6, <2>1, <2>3
  <2>4. CASE Return(p, Decrypted(p, Found(cred[p].ref))) /\ FaultFree
    <3>1. Found(cred[p].ref) \subseteq Chunk
      BY <1>3 DEF Found
    <3>2. /\ Decrypted(p, Found(cred[p].ref)) \in GotType
          /\ Decrypted(p, Found(cred[p].ref)).is = "ok" =>
                Decrypted(p, Found(cred[p].ref)).secret \in Secrets
      BY <3>1, DecryptedType
    <3>3. StoreCall(p)
      BY <2>4, <3>2, ReturnKeeps
    <3> QED
      BY <1>3, <1>6, <2>1, <2>4, <3>3
  <2>5. CASE header[cred[p].ref] # Nothing /\ Goto(p, "chunks", header[cred[p].ref], Nothing) /\ FaultFree
    <3>1. StoreCall(p)
      BY <1>1, <1>2, <2>5, GotoKeeps
    <3> QED
      BY <1>3, <1>6, <2>1, <2>5, <3>1
  <2> QED
    BY <1>15, <2>2, <2>3, <2>4, <2>5 DEF GetHeader
<1>16. ASSUME GetChunks(p) PROVE Good
  <2> DEFINE cs == {c \in chunks : c.gen = cred[p].gen}
  <2>1. Return(p, Decrypted(p, cs)) /\ UNCHANGED <<chunks, header, nextGen, faults>>
    BY <1>16 DEF GetChunks
  <2>2. cs \subseteq Chunk
    BY <1>3
  <2> HIDE DEF cs
  <2>3. /\ Decrypted(p, cs) \in GotType
        /\ Decrypted(p, cs).is = "ok" => Decrypted(p, cs).secret \in Secrets
    BY <2>2, DecryptedType
  <2>4. StoreCall(p)
    BY <2>1, <2>3, ReturnKeeps
  <2> QED
    BY <1>3, <2>1, <2>4
<1>17. ASSUME DeleteBegin(p) PROVE Good
  <2>1. cred[p].op = "delete" /\ UNCHANGED nextGen
    BY <1>17 DEF DeleteBegin
  <2>2. CASE \E what \in {"error", "NotFound"} : Return(p, Says(what))
             /\ (FaultFree \/ Fault) /\ UNCHANGED <<chunks, header>>
    BY <1>3, <1>5, <1>6, <2>1, <2>2
  <2>3. CASE chunks' = Without(header[cred[p].ref]) /\ header' = [header EXCEPT ![cred[p].ref] = Nothing]
             /\ Return(p, Says("ok")) /\ FaultFree
    BY <1>2, <1>3, <1>4, <1>5, <1>6, <2>1, <2>3
  <2>4. CASE header[cred[p].ref] # Nothing /\ Goto(p, "header", header[cred[p].ref], Nothing)
             /\ UNCHANGED <<chunks, header>> /\ FaultFree
    <3>1. StoreCall(p)
      BY <1>1, <1>2, <2>4, GotoKeeps
    <3> QED
      BY <1>3, <1>6, <2>1, <2>4, <3>1
  <2> QED
    BY <1>17, <2>2, <2>3, <2>4 DEF DeleteBegin
<1>18. ASSUME DeleteEntry(p) PROVE Good
  <2>1. cred[p].op = "delete" /\ UNCHANGED <<nextGen, faults>>
    BY <1>18 DEF DeleteEntry
  <2>2. CASE Return(p, Says("NotFound")) /\ UNCHANGED <<chunks, header>>
    BY <1>3, <1>5, <1>6, <2>1, <2>2
  <2>3. CASE header' = [header EXCEPT ![cred[p].ref] = Nothing] /\ chunks' = Without(cred[p].gen)
             /\ Return(p, Says("ok"))
    BY <1>2, <1>3, <1>4, <1>5, <1>6, <2>1, <2>3
  <2> QED
    BY <1>18, <2>2, <2>3 DEF DeleteEntry
<1> HIDE DEF Good
<1>21. Good
  BY <1>11, <1>12, <1>13, <1>14, <1>15, <1>16, <1>17, <1>18 DEF CredStep
<1>22. StoreTypes'
  BY <1>1, <1>21 DEF Good, StoreTypes, TypeOK
<1>23. CallTypes' /\ Prepared(p)' /\ \A q \in Procs \ {p} : cred'[q] = cred[q] /\ got'[q] = got[q]
  BY <1>21 DEF Good, StoreCall
<1>24. RowTypes' /\ ProcTypes' /\ HistoryTypes'
  BY DEF ctlVars, TypeOK, RowTypes, ProcTypes, HistoryTypes
<1>25. Others(p)
  BY <1>23 DEF Others, Own, ctlVars
<1> QED
  BY <1>22, <1>23, <1>24, <1>25, TypePartsNext

(***************************************************************************)
(* Types and what commands have at hand, together, are inductive.          *)
(***************************************************************************)
LEMMA InitPrepared == Init => TypeOK /\ AllPrepared
<1> SUFFICES ASSUME Init PROVE TypeOK /\ AllPrepared
  OBVIOUS
<1>1. /\ Seed.conn \in Conns /\ Seed.ref \in UserRefs /\ Seed.secret \in Secrets
      /\ Seed.key \in FileKeys /\ Seed.policy \in Policies /\ Seed.ref \in Refs
      /\ Seed.secret.kind \in Kinds
  BY ControlAssumption DEF UserRefs, Secrets
<1>2. 1 \in Gens /\ 2 \in 1..(MaxGens + 1) /\ 0 \in 0..MaxFaults /\ 0 \in 0..MaxCrashes
  BY CredentialAssumption, ControlAssumption DEF Gens
<1>3. NoCred \in CredType /\ Says("ok") \in GotType /\ NoCred.op = "none"
  BY SaysType DEF NoCred, CredType, CredOps
<1>4. StoreTypes
  <2>1. chunks \subseteq Chunk
    BY <1>1, <1>2 DEF Init, Chunk
  <2>2. header \in [Refs -> Gens \cup {Nothing}]
    BY <1>2 DEF Init
  <2>3. marker \in FileKeys \cup {Nothing}
    BY <1>1 DEF Init
  <2> QED
    BY <1>2, <2>1, <2>2, <2>3 DEF Init, StoreTypes
<1>5. CallTypes
  BY <1>3 DEF Init, CallTypes
<1>6. RowTypes
  <2>1. [ref |-> Seed.ref, kind |-> Seed.secret.kind, policy |-> Seed.policy,
         enabled |-> TRUE, version |-> 1] \in ProfileType
    BY <1>1 DEF ProfileType
  <2> HIDE DEF ProfileType
  <2>2. profile \in [Conns -> ProfileType \cup {NoProfile}]
    BY <2>1 DEF Init
  <2> QED
    BY <1>1, <2>2 DEF Init, RowTypes
<1>7. ProcTypes
  <2>1. "idle" \in Stations /\ "none" \in Results
    BY DEF Stations, Results
  <2> QED
    BY <2>1 DEF Init, ProcTypes
<1>8. HistoryTypes
  BY <1>2 DEF Init, HistoryTypes
<1>9. ASSUME NEW p \in Procs PROVE Prepared(p)
  <2>1. pc[p] = "idle" /\ cred[p] = NoCred /\ previous[p] = Nothing
    BY DEF Init
  <2>2. DoAt(p) /\ HasRow(p) /\ HasDraft(p) /\ HasSecret(p)
    BY <2>1 DEF DoAt, HasRow, HasDraft, HasSecret
  <2>3. HasAnswer(p) /\ CredKnown(p)
    BY <1>3, <2>1 DEF HasAnswer, Asks, CredKnown
  <2> QED
    BY <2>2, <2>3 DEF Prepared
<1> QED
  BY <1>4, <1>5, <1>6, <1>7, <1>8, <1>9, TypeParts DEF AllPrepared

LEMMA StepPrepared ==
  ASSUME TypeOK, AllPrepared, NEW p \in Procs,
         CommandStep(p) \/ Kill(p) \/ (CredStep(p) /\ UNCHANGED ctlVars)
  PROVE  TypeOK' /\ AllPrepared' /\ Others(p)
<1>1. TypeOK' /\ Prepared(p)' /\ Others(p)
  BY StartKeeps, ReadKeeps, TestKeeps, RereadKeeps, SaveKeeps, SecretStoredKeeps, UndoneKeeps,
     WriteKeeps, RemoveKeeps, RemovedKeeps, RestoreKeeps, LoadKeyKeeps, KeyStoredKeeps, IssueKeeps,
     KillKeeps, CredStepKeeps DEF CommandStep
<1>2. ASSUME NEW q \in Procs PROVE Prepared(q)'
  <2>1. CASE q = p
    BY <1>1, <2>1
  <2>2. CASE q # p
    <3>1. Prepared(q) /\ Own(q)' = Own(q)
      BY <1>1, <2>2 DEF AllPrepared, Others
    <3> QED
      BY <3>1, PreparedFrame
  <2> QED
    BY <2>1, <2>2
<1> QED
  BY <1>1, <1>2 DEF AllPrepared

LEMMA NextPrepared == TypeOK /\ AllPrepared /\ [Next]_vars => TypeOK' /\ AllPrepared'
<1> SUFFICES ASSUME TypeOK, AllPrepared, [Next]_vars PROVE TypeOK' /\ AllPrepared'
  OBVIOUS
<1>1. CASE UNCHANGED vars
  <2>1. TypeOK'
    BY <1>1 DEF vars, credVars, ctlVars, TypeOK
  <2>2. ASSUME NEW q \in Procs PROVE Prepared(q)'
    <3>1. Prepared(q) /\ Own(q)' = Own(q)
      BY <1>1 DEF vars, credVars, ctlVars, AllPrepared, Own
    <3> QED
      BY <3>1, PreparedFrame
  <2> QED
    BY <2>1, <2>2 DEF AllPrepared
<1>2. CASE Next
  BY <1>1, <1>2, StepPrepared DEF Next, Done
<1> QED
  BY <1>1, <1>2

\* In every reachable state of ControlPlane every variable has its type: a command never
\* stores a profile, a secret or a grant made of something it did not read or was not given.
THEOREM TypeCorrect == Spec => []TypeOK
<1>1. Spec => [](TypeOK /\ AllPrepared)
  BY InitPrepared, NextPrepared, PTL DEF Spec
<1> QED
  BY <1>1, PTL
-----------------------------------------------------------------------------
(***************************************************************************)
(* What the store can be read back.  A generation is Old once it was       *)
(* handed out.  A put that has written its chunks and not yet its header   *)
(* is Pending: nobody else knows its generation, so nobody cleans it up.   *)
(* The generation a put found in the header, and the one a delete found,   *)
(* can only still be the header of their own reference, and that one the   *)
(* operation replaces before it deletes the chunks.                        *)
(***************************************************************************)
Old(g) == g # Nothing => g < nextGen

Busy(p) == cred[p].op # "none" /\ cred[p].at # "begin"

Pending(p) == cred[p].op = "put" /\ cred[p].at = "header"

GensOld ==
    /\ \A r \in Refs : Old(header[r])
    /\ \A c \in chunks : c.gen < nextGen
    /\ \A p \in Procs : Busy(p) => Old(cred[p].gen) /\ Old(cred[p].prev)

HeadersApart ==
    \A r, s \in Refs : header[r] # Nothing /\ header[r] = header[s] => r = s

PendingHidden(p) ==
    Pending(p) =>
        /\ \A r \in Refs : header[r] # cred[p].gen
        /\ \E c \in chunks : c.gen = cred[p].gen /\ c.ref = cred[p].ref
        /\ cred[p].prev # cred[p].gen
        /\ \A q \in Procs \ {p} : Busy(q) => cred[q].gen # cred[p].gen /\ cred[q].prev # cred[p].gen

ReplacesOwn(p) ==
    Busy(p) =>
        \A r \in Refs : header[r] # Nothing =>
            /\ cred[p].op = "put" /\ header[r] = cred[p].prev =>
                  r = cred[p].ref /\ cred[p].at # "clean"
            /\ cred[p].op = "delete" /\ header[r] = cred[p].gen => r = cred[p].ref

\* A process that got past opening the store has the key the file is pinned to.
KeyPinned(p) ==
    /\ backend = "sqlite" /\ Running(p) => marker # Nothing /\ cmd[p].key = marker
    /\ cred[p].op # "none" => cred[p].key = cmd[p].key

StoreInv ==
    /\ GensOld /\ HeadersApart /\ HeaderHasChunks /\ OneCredentialKey
    /\ \A p \in Procs : PendingHidden(p) /\ ReplacesOwn(p) /\ KeyPinned(p)

\* A step of a command itself leaves the stored entries alone; it starts a store
\* operation with its own key or none.
Fresh(p) == cred'[p].op = "none" \/ (cred'[p].at = "begin" /\ cred'[p].key = cmd'[p].key)

LEMMA ViaFresh ==
  ASSUME TypeOK, NEW p \in Procs, NEW op, NEW ref, NEW secret, NEW s,
         Via(p, op, ref, secret, s), UNCHANGED cmd
  PROVE  Fresh(p) /\ (pc'[p] = s)
<1>1. /\ cred \in [Procs -> CredType] /\ pc \in [Procs -> Stations]
      /\ cred' = [cred EXCEPT ![p] = [NoCred EXCEPT !.op = op, !.ref = ref, !.secret = secret,
                                                    !.key = cmd[p].key]]
      /\ pc' = [pc EXCEPT ![p] = s]
  BY DEF TypeOK, Via, StartCred, To
<1>2. cred'[p] = [NoCred EXCEPT !.op = op, !.ref = ref, !.secret = secret, !.key = cmd[p].key]
  BY <1>1
<1>3. cred'[p].at = "begin" /\ cred'[p].key = cmd[p].key
  BY <1>2 DEF NoCred
<1> QED
  BY <1>1, <1>3 DEF Fresh

LEMMA CommandLeavesStore ==
  ASSUME TypeOK, AllPrepared, NEW p \in Procs, CommandStep(p) \/ Kill(p)
  PROVE  /\ UNCHANGED <<backend, header, chunks, nextGen>> /\ Fresh(p)
         /\ ~Start(p) => UNCHANGED <<cmd, marker>> /\ (Running(p)' => Running(p))
<1>1. CASE Start(p)
  <2>1. pc[p] = "idle" /\ UNCHANGED <<backend, header, chunks, nextGen>> /\ cred[p].op = "none"
    BY <1>1 DEF Start, AllPrepared, Prepared, CredKnown, Running
  <2>2. PICK r \in Requests :
           /\ cmd' = [cmd EXCEPT ![p] = r]
           /\ \/ NoCredCall
              \/ StartCred(p, "get", KeyRef, Nothing, r.key)
    BY <1>1 DEF Start
  <2>3. cmd'[p] = r /\ r.key \in FileKeys
    BY <2>2, ControlAssumption DEF TypeOK, Request
  <2>4. CASE NoCredCall
    BY <1>1, <2>1, <2>4 DEF NoCredCall, Fresh
  <2>5. CASE StartCred(p, "get", KeyRef, Nothing, r.key)
    <3>1. "get" \in CredOps /\ KeyRef \in Refs
      BY ControlAssumption DEF CredOps
    <3>2. cred'[p].at = "begin" /\ cred'[p].key = r.key
      BY <2>3, <2>5, <3>1, StartCredTypes
    <3> QED
      BY <1>1, <2>1, <2>3, <3>2 DEF Fresh
  <2> QED
    BY <2>2, <2>4, <2>5
<1>2. CASE Kill(p)
  <2>1. cred'[p] = NoCred /\ Running(p) /\ ~Start(p)
    BY <1>2 DEF Kill, TypeOK, Running, Start
  <2> QED
    BY <1>2, <2>1 DEF Kill, NoStoreStep, Fresh, NoCred
<1>3. CASE CommandStep(p) /\ ~Start(p)
  <2>1. UNCHANGED <<backend, header, chunks, nextGen, cmd, marker>>
    BY <1>3 DEF CommandStep, Read, Test, Reread, Save, SecretStored, Undone, Write, Remove, Removed,
                Restore, LoadKey, KeyStored, Issue, NoStoreStep
  <2>2. Running(p) /\ cred[p].op = "none"
    BY <1>3 DEF CommandStep, Read, Test, Reread, Save, SecretStored, Undone, Write, Remove, Removed,
                Restore, LoadKey, KeyStored, Issue, AtStation, Running
  <2>3. NoCredCall => Fresh(p)
    BY <2>2 DEF NoCredCall, Fresh
  <2>4. NoCredCall \/ \E op, ref, secret, s : Via(p, op, ref, secret, s)
    <3>1. CASE Read(p)
      BY <3>1 DEF Read, ReadCreate, ReadRow, ReadSetPolicy, ReadSetEnabled, ReadUpdateProfile,
                  ReadUpdateConnection, ReadRotate, ReadDelete, ReadTestSaved
    <3>2. CASE SecretStored(p)
      BY <3>2 DEF SecretStored, Undo
    <3>3. CASE Test(p) \/ Undone(p) \/ Write(p) \/ Restore(p) \/ KeyStored(p) \/ Issue(p)
      BY <3>3 DEF Test, Undone, Write, Restore, KeyStored, Issue
    <3>4. CASE Reread(p)
      BY <3>4 DEF Reread
    <3>5. CASE Save(p) \/ Remove(p) \/ Removed(p) \/ LoadKey(p)
      BY <3>5 DEF Save, Remove, Removed, LoadKey
    <3> QED
      BY <1>3, <3>1, <3>2, <3>3, <3>4, <3>5 DEF CommandStep
  <2>5. Fresh(p)
    BY <2>1, <2>3, <2>4, ViaFresh
  <2> QED
    BY <1>3, <2>1, <2>2, <2>5
<1> QED
  BY <1>1, <1>2, <1>3

LEMMA CommandStoreInv ==
  ASSUME TypeOK, AllPrepared, StoreInv, NEW p \in Procs, CommandStep(p) \/ Kill(p)
  PROVE  StoreInv'
<1>1. /\ UNCHANGED <<backend, header, chunks, nextGen>> /\ Fresh(p)
      /\ ~Start(p) => UNCHANGED <<cmd, marker>> /\ (Running(p)' => Running(p))
  BY CommandLeavesStore
<1>2. /\ TypeOK' /\ AllPrepared'
      /\ \A q \in Procs \ {p} : pc'[q] = pc[q] /\ cmd'[q] = cmd[q] /\ cred'[q] = cred[q]
  BY StepPrepared DEF Others, Own
<1>3. ~Busy(p)' /\ ~Pending(p)'
  BY <1>1 DEF Fresh, Busy, Pending
<1>4. \A q \in Procs \ {p} : Busy(q)' = Busy(q) /\ Pending(q)' = Pending(q) /\ Running(q)' = Running(q)
  BY <1>2 DEF Busy, Pending, Running
<1>5. GensOld'
  BY <1>1, <1>2, <1>3, <1>4 DEF StoreInv, GensOld, Old
<1>6. HeadersApart' /\ HeaderHasChunks'
  BY <1>1 DEF StoreInv, HeadersApart, HeaderHasChunks, Found
<1>7. ASSUME NEW q \in Procs PROVE PendingHidden(q)' /\ ReplacesOwn(q)'
  <2>1. CASE q = p
    BY <1>3, <2>1 DEF PendingHidden, ReplacesOwn
  <2>2. CASE q # p
    <3>1. PendingHidden(q) /\ ReplacesOwn(q)
      BY DEF StoreInv
    <3>2. cred'[q] = cred[q]
      BY <1>2, <2>2
    <3>3. PendingHidden(q)'
      BY <1>1, <1>2, <1>3, <1>4, <2>2, <3>1, <3>2 DEF PendingHidden
    <3>4. ReplacesOwn(q)'
      BY <1>1, <1>4, <2>2, <3>1, <3>2 DEF ReplacesOwn
    <3> QED
      BY <3>3, <3>4
  <2> QED
    BY <2>1, <2>2
<1>8. OneCredentialKey' /\ \A q \in Procs : KeyPinned(q)'
  <2>1. \A q \in Procs : KeyPinned(q)
    BY DEF StoreInv
  <2>2. CASE ~Start(p)
    <3>1. UNCHANGED <<cmd, marker>> /\ (Running(p)' => Running(p))
      BY <1>1, <2>2
    <3>2. OneCredentialKey'
      BY <1>1, <3>1 DEF StoreInv, OneCredentialKey
    <3> QED
      BY <1>1, <1>2, <1>4, <2>1, <3>1, <3>2 DEF KeyPinned, Fresh
  <2>3. CASE Start(p)
    <3>1. PICK r \in Requests :
             /\ cmd' = [cmd EXCEPT ![p] = r]
             /\ VerifyOrInitializeKey(r.key)
             /\ OpenFails(r.key) => End(p, "credential_store_error")
      BY <2>3 DEF Start
    <3>2. r.key \in FileKeys /\ r.key # Nothing
      BY CredentialAssumption, ControlAssumption DEF Request
    <3>3. cmd'[p] = r
      BY <3>1 DEF TypeOK
    <3>4. CASE backend # "sqlite"
      <4>1. OneCredentialKey'
        BY <1>1, <3>4 DEF OneCredentialKey
      <4>2. \A q \in Procs : KeyPinned(q)'
        BY <1>1, <1>2, <1>4, <2>1, <3>4 DEF KeyPinned, Fresh
      <4> QED
        BY <4>1, <4>2
    <3>5. CASE backend = "sqlite" /\ ~KeyOpens(r.key)
      <4>1. marker' = marker /\ ~Running(p)'
        BY <3>1, <3>5 DEF VerifyOrInitializeKey, OpenFails, End, Running, TypeOK
      <4>2. OneCredentialKey'
        BY <1>1, <4>1 DEF OneCredentialKey, StoreInv
      <4>3. \A q \in Procs : KeyPinned(q)'
        BY <1>1, <1>2, <1>4, <2>1, <4>1 DEF KeyPinned, Fresh
      <4> QED
        BY <4>2, <4>3
    <3>6. CASE backend = "sqlite" /\ KeyOpens(r.key)
      <4>1. marker' = r.key
        BY <3>1, <3>6 DEF VerifyOrInitializeKey
      <4>2. marker = r.key \/ (marker = Nothing /\ \A c \in chunks : c.key = r.key)
        BY <3>6 DEF KeyOpens
      <4>3. OneCredentialKey'
        BY <1>1, <3>2, <3>6, <4>1, <4>2 DEF OneCredentialKey, StoreInv
      <4>4. ASSUME NEW q \in Procs PROVE KeyPinned(q)'
        <5>1. CASE q = p
          BY <1>1, <3>2, <3>3, <4>1, <5>1 DEF KeyPinned, Fresh
        <5>2. CASE q # p
          BY <1>1, <1>2, <1>4, <2>1, <3>2, <3>6, <4>1, <4>2, <5>2 DEF KeyPinned
        <5> QED
          BY <5>1, <5>2
      <4> QED
        BY <4>3, <4>4
    <3> QED
      BY <3>4, <3>5, <3>6
  <2> QED
    BY <2>2, <2>3
<1> QED
  BY <1>5, <1>6, <1>7, <1>8 DEF StoreInv
(***************************************************************************)
(* Steps inside the store, by what they do to it: an operation that ends   *)
(* and takes chunks nobody needs with it, one that notes the header it     *)
(* found, and the three that store something.                              *)
(***************************************************************************)
OnlyStore(p) ==
    /\ \A q \in Procs \ {p} : cred'[q] = cred[q]
    /\ UNCHANGED <<pc, cmd, backend, marker>>
    /\ \/ cred'[p].op = "none"
       \/ cred[p].op # "none" /\ cred'[p].op = cred[p].op /\ cred'[p].key = cred[p].key

LEMMA OthersSame ==
  ASSUME NEW p \in Procs, OnlyStore(p)
  PROVE  /\ \A q \in Procs \ {p} : /\ Busy(q)' = Busy(q) /\ Pending(q)' = Pending(q)
                                   /\ cred'[q] = cred[q]
         /\ \A q \in Procs : Running(q)' = Running(q)
  BY DEF OnlyStore, Busy, Pending, Running

LEMMA KeyPinnedKept ==
  ASSUME StoreInv, NEW p \in Procs, OnlyStore(p)
  PROVE  \A q \in Procs : KeyPinned(q)'
<1>1. \A q \in Procs : KeyPinned(q) /\ Running(q)' = Running(q)
  BY OthersSame DEF StoreInv
<1> QED
  BY <1>1 DEF KeyPinned, OnlyStore

LEMMA OperationEnds ==
  ASSUME TypeOK, AllPrepared, StoreInv, NEW p \in Procs, OnlyStore(p), cred'[p].op = "none",
         UNCHANGED nextGen, \A r \in Refs : header'[r] = header[r] \/ header'[r] = Nothing,
         NEW g, chunks' \subseteq chunks, \A c \in chunks : c \in chunks' \/ c.gen = g,
         \A r \in Refs : header'[r] # Nothing => header'[r] # g,
         \A q \in Procs \ {p} : Pending(q) => cred[q].gen # g
  PROVE  StoreInv'
<1>1. /\ \A q \in Procs \ {p} : /\ Busy(q)' = Busy(q) /\ Pending(q)' = Pending(q)
                                /\ cred'[q] = cred[q]
      /\ ~Busy(p)' /\ ~Pending(p)'
  BY OthersSame DEF Busy, Pending
<1>2. \A q \in Procs : KeyPinned(q)'
  BY KeyPinnedKept
<1>3. GensOld'
  BY <1>1 DEF StoreInv, GensOld, Old
<1>4. HeadersApart'
  BY DEF StoreInv, HeadersApart
<1>5. HeaderHasChunks'
  <2> SUFFICES ASSUME NEW r \in Refs, header'[r] # Nothing PROVE Found(r)' # {}
    BY DEF HeaderHasChunks
  <2>1. header'[r] = header[r] /\ header[r] # g
    OBVIOUS
  <2>2. PICK c \in chunks : c.gen = header[r] /\ c.ref = r
    BY <2>1 DEF StoreInv, HeaderHasChunks, Found
  <2> QED
    BY <2>1, <2>2 DEF Found
<1>6. OneCredentialKey'
  BY DEF StoreInv, OneCredentialKey, OnlyStore
<1>7. ASSUME NEW q \in Procs PROVE PendingHidden(q)' /\ ReplacesOwn(q)'
  <2>1. CASE q = p
    BY <1>1, <2>1 DEF PendingHidden, ReplacesOwn
  <2>2. CASE q # p
    <3>1. PendingHidden(q) /\ ReplacesOwn(q)
      BY DEF StoreInv
    <3>2. cred'[q] = cred[q] /\ Busy(q)' = Busy(q) /\ Pending(q)' = Pending(q)
      BY <1>1, <2>2
    <3>3. ReplacesOwn(q)'
      BY <3>1, <3>2 DEF ReplacesOwn
    <3>4. ASSUME Pending(q) PROVE PendingHidden(q)'
      <4>1. cred[q].gen \in Gens /\ cred[q].gen # g /\ cred[q].gen # Nothing
        BY <2>2, <3>4, CredentialAssumption DEF AllPrepared, Prepared, CredKnown, Pending, Gens
      <4>2. \A r \in Refs : header'[r] # cred[q].gen
        BY <3>1, <3>4, <4>1 DEF PendingHidden
      <4>3. \E c \in chunks' : c.gen = cred[q].gen /\ c.ref = cred[q].ref
        BY <3>1, <3>4, <4>1 DEF PendingHidden
      <4>4. \A q2 \in Procs \ {q} : Busy(q2)' =>
               cred'[q2].gen # cred[q].gen /\ cred'[q2].prev # cred[q].gen
        BY <1>1, <3>1, <3>4 DEF PendingHidden
      <4> QED
        BY <3>1, <3>2, <3>4, <4>2, <4>3, <4>4 DEF PendingHidden
    <3> QED
      BY <3>2, <3>3, <3>4 DEF PendingHidden
  <2> QED
    BY <2>1, <2>2
<1> QED
  BY <1>2, <1>3, <1>4, <1>5, <1>6, <1>7 DEF StoreInv

\* get and delete note the generation the header of their reference names.
LEMMA OperationNotes ==
  ASSUME TypeOK, AllPrepared, StoreInv, NEW p \in Procs, OnlyStore(p),
         UNCHANGED <<header, chunks, nextGen>>, cred[p].ref \in Refs,
         header[cred[p].ref] # Nothing,
         cred'[p].op \in {"get", "delete"}, cred'[p].ref = cred[p].ref,
         cred'[p].gen = header[cred[p].ref], cred'[p].prev = Nothing
  PROVE  StoreInv'
<1>1. /\ \A q \in Procs \ {p} : /\ Busy(q)' = Busy(q) /\ Pending(q)' = Pending(q)
                                /\ cred'[q] = cred[q]
      /\ ~Pending(p)'
  BY OthersSame DEF Pending
<1>2. \A q \in Procs : KeyPinned(q)'
  BY KeyPinnedKept
<1>3. GensOld'
  BY <1>1 DEF StoreInv, GensOld, Old
<1>4. HeadersApart' /\ HeaderHasChunks'
  BY DEF StoreInv, HeadersApart, HeaderHasChunks, Found
<1>5. OneCredentialKey'
  BY DEF StoreInv, OneCredentialKey, OnlyStore
<1>6. ASSUME NEW q \in Procs PROVE PendingHidden(q)' /\ ReplacesOwn(q)'
  <2>1. CASE q = p
    <3>1. ReplacesOwn(p)'
      BY DEF ReplacesOwn, StoreInv, HeadersApart
    <3> QED
      BY <1>1, <2>1, <3>1 DEF PendingHidden
  <2>2. CASE q # p
    <3>1. PendingHidden(q) /\ ReplacesOwn(q)
      BY DEF StoreInv
    <3>2. cred'[q] = cred[q] /\ Busy(q)' = Busy(q) /\ Pending(q)' = Pending(q)
      BY <1>1, <2>2
    <3>3. ReplacesOwn(q)'
      BY <3>1, <3>2 DEF ReplacesOwn
    <3>4. ASSUME Pending(q) PROVE PendingHidden(q)'
      <4>1. cred[q].gen \in Gens /\ cred[q].gen # Nothing
        BY <2>2, <3>4, CredentialAssumption DEF AllPrepared, Prepared, CredKnown, Pending, Gens
      <4>2. cred'[p].gen # cred[q].gen /\ cred'[p].prev # cred[q].gen
        BY <3>1, <3>4, <4>1 DEF PendingHidden
      <4>3. \A q2 \in Procs \ {q} : Busy(q2)' =>
               cred'[q2].gen # cred[q].gen /\ cred'[q2].prev # cred[q].gen
        BY <1>1, <3>1, <3>4, <4>2 DEF PendingHidden
      <4> QED
        BY <3>1, <3>2, <3>4, <4>3 DEF PendingHidden
    <3> QED
      BY <3>2, <3>3, <3>4 DEF PendingHidden
  <2> QED
    BY <2>1, <2>2
<1> QED
  BY <1>2, <1>3, <1>4, <1>5, <1>6 DEF StoreInv

\* Generations are numbers below the next one.
LEMMA GensAreOld ==
  ASSUME TypeOK, AllPrepared, StoreInv
  PROVE  /\ nextGen \in Nat /\ (nextGen # Nothing \/ nextGen > MaxGens)
         /\ \A r \in Refs : /\ header[r] \in Gens \cup {Nothing}
                            /\ (header[r] # nextGen \/ nextGen > MaxGens)
         /\ \A c \in chunks : c.gen \in Gens /\ c.gen < nextGen
         /\ \A q \in Procs : Busy(q) =>
               /\ nextGen <= MaxGens => cred[q].gen # nextGen /\ cred[q].prev # nextGen
               /\ cred[q].gen \in Gens \cup {Nothing} /\ cred[q].prev \in Gens \cup {Nothing}
         /\ \A q \in Procs : Pending(q) => Busy(q) /\ cred[q].gen \in Gens
<1>1. /\ nextGen \in Nat /\ MaxGens \in Nat /\ nextGen >= 1
      /\ \A g \in Gens : g \in Nat /\ g <= MaxGens
      /\ Nothing \notin Gens
  BY CredentialAssumption DEF TypeOK, Gens
<1>2. nextGen <= MaxGens => nextGen # Nothing
  BY <1>1 DEF Gens
<1>3. \A c \in chunks : c.gen \in Gens /\ c.gen < nextGen
  BY DEF TypeOK, Chunk, StoreInv, GensOld
<1>4. \A r \in Refs : header[r] \in Gens \cup {Nothing} /\ (header[r] # nextGen \/ nextGen > MaxGens)
  BY <1>1, <1>2 DEF TypeOK, StoreInv, GensOld, Old
<1>5. ASSUME NEW q \in Procs, Busy(q)
      PROVE  /\ nextGen <= MaxGens => cred[q].gen # nextGen /\ cred[q].prev # nextGen
             /\ cred[q].gen \in Gens \cup {Nothing} /\ cred[q].prev \in Gens \cup {Nothing}
  <2>1. cred[q].gen \in Gens \cup {Nothing} /\ cred[q].prev \in Gens \cup {Nothing}
    BY DEF TypeOK, CredType
  <2>2. Old(cred[q].gen) /\ Old(cred[q].prev)
    BY <1>5 DEF StoreInv, GensOld
  <2> QED
    BY <1>1, <1>2, <2>1, <2>2 DEF Old
<1>6. \A q \in Procs : Pending(q) => Busy(q) /\ cred[q].gen \in Gens
  BY DEF Pending, Busy, AllPrepared, Prepared, CredKnown
<1> QED
  BY <1>1, <1>2, <1>3, <1>4, <1>5, <1>6

\* put in one statement: the fresh generation is nobody's, the replaced one only this
\* reference's.
LEMMA SqlitePuts ==
  ASSUME TypeOK, AllPrepared, StoreInv, NEW p \in Procs, OnlyStore(p), cred'[p].op = "none",
         cred[p].op = "put", cred[p].ref \in Refs, nextGen <= MaxGens, nextGen' = nextGen + 1,
         header' = [header EXCEPT ![cred[p].ref] = nextGen],
         chunks' = Without(header[cred[p].ref]) \cup {Written(p, nextGen)}
  PROVE  StoreInv'
<1> DEFINE ref == cred[p].ref
           new == Written(p, nextGen)
<1>1. /\ \A q \in Procs \ {p} : /\ Busy(q)' = Busy(q) /\ Pending(q)' = Pending(q)
                                /\ cred'[q] = cred[q]
      /\ ~Busy(p)' /\ ~Pending(p)'
  BY OthersSame DEF Busy, Pending
<1>2. /\ nextGen \in Nat /\ nextGen # Nothing
      /\ \A r \in Refs : header[r] \in Gens \cup {Nothing} /\ header[r] # nextGen
      /\ \A c \in chunks : c.gen \in Gens /\ c.gen < nextGen
      /\ \A q \in Procs : Busy(q) => cred[q].gen # nextGen /\ cred[q].prev # nextGen
      /\ \A q \in Procs : Pending(q) => Busy(q) /\ cred[q].gen \in Gens
  BY GensAreOld, CredentialAssumption DEF TypeOK
<1>3. /\ header'[ref] = nextGen /\ \A r \in Refs \ {ref} : header'[r] = header[r]
      /\ new \in chunks' /\ new.gen = nextGen /\ new.ref = ref /\ new.key = cred[p].key
      /\ \A c \in chunks' : c = new \/ c \in chunks
      /\ \A c \in chunks : c.gen # header[ref] => c \in chunks'
  BY DEF TypeOK, Without, Written
<1> HIDE DEF ref, new
<1>4. \A q \in Procs : KeyPinned(q)'
  BY KeyPinnedKept
<1>5. GensOld'
  <2>1. \A g \in Gens \cup {Nothing} : Old(g) => Old(g)'
    BY <1>2, CredentialAssumption DEF Old, Gens
  <2>2. \A r \in Refs : Old(header[r])'
    BY <1>2, <1>3, <2>1 DEF StoreInv, GensOld, Old
  <2>3. \A c \in chunks' : c.gen < nextGen'
    BY <1>2, <1>3 DEF Gens
  <2>4. ASSUME NEW q \in Procs, Busy(q)' PROVE (Old(cred[q].gen) /\ Old(cred[q].prev))'
    <3>1. q # p /\ Busy(q) /\ cred'[q] = cred[q]
      BY <1>1, <2>4
    <3>2. cred[q].gen \in Gens \cup {Nothing} /\ cred[q].prev \in Gens \cup {Nothing}
      BY <3>1, GensAreOld
    <3>3. Old(cred[q].gen) /\ Old(cred[q].prev)
      BY <3>1 DEF StoreInv, GensOld
    <3> QED
      BY <1>2, <3>1, <3>2, <3>3, CredentialAssumption DEF Old, Gens
  <2> QED
    BY <2>2, <2>3, <2>4 DEF GensOld
<1>6. HeadersApart'
  BY <1>2, <1>3 DEF StoreInv, HeadersApart
<1>7. HeaderHasChunks'
  <2> SUFFICES ASSUME NEW r \in Refs, header'[r] # Nothing PROVE Found(r)' # {}
    BY DEF HeaderHasChunks
  <2>1. CASE r = ref
    BY <1>3, <2>1 DEF Found
  <2>2. CASE r # ref
    <3>1. header'[r] = header[r] /\ header[r] # Nothing /\ ref \in Refs
      BY <1>3, <2>2 DEF ref
    <3>2. PICK c \in chunks : c.gen = header[r] /\ c.ref = r
      BY <3>1 DEF StoreInv, HeaderHasChunks, Found
    <3>3. c.gen # header[ref]
      BY <2>2, <3>1, <3>2 DEF StoreInv, HeadersApart
    <3> QED
      BY <1>3, <3>1, <3>2, <3>3 DEF Found
  <2> QED
    BY <2>1, <2>2
<1>8. OneCredentialKey'
  <2> SUFFICES ASSUME backend = "sqlite", marker # Nothing, NEW c \in chunks' PROVE c.key = marker
    BY DEF OneCredentialKey, OnlyStore
  <2>1. KeyPinned(p) /\ Running(p)
    BY DEF StoreInv, AllPrepared, Prepared, CredKnown
  <2>2. new.key = marker
    BY <1>3, <2>1 DEF KeyPinned
  <2> QED
    BY <1>3, <2>2 DEF StoreInv, OneCredentialKey
<1>9. ASSUME NEW q \in Procs PROVE PendingHidden(q)' /\ ReplacesOwn(q)'
  <2>1. CASE q = p
    BY <1>1, <2>1 DEF PendingHidden, ReplacesOwn
  <2>2. CASE q # p
    <3>1. PendingHidden(q) /\ ReplacesOwn(q)
      BY DEF StoreInv
    <3>2. cred'[q] = cred[q] /\ Busy(q)' = Busy(q) /\ Pending(q)' = Pending(q)
      BY <1>1, <2>2
    <3>3. ASSUME Busy(q) PROVE ReplacesOwn(q)'
      <4>1. cred[q].gen # nextGen /\ cred[q].prev # nextGen
        BY <1>2, <3>3
      <4> QED
        BY <1>3, <3>1, <3>2, <3>3, <4>1 DEF ReplacesOwn
    <3>4. ASSUME Pending(q) PROVE PendingHidden(q)'
      <4>1. cred[q].gen \in Gens /\ cred[q].gen # nextGen /\ ref \in Refs
        BY <1>2, <3>4 DEF ref
      <4>2. \A r \in Refs : header'[r] # cred[q].gen
        BY <1>3, <3>1, <3>4, <4>1 DEF PendingHidden
      <4>3. \E c \in chunks' : c.gen = cred[q].gen /\ c.ref = cred[q].ref
        BY <1>3, <3>1, <3>4, <4>1 DEF PendingHidden
      <4>4. \A q2 \in Procs \ {q} : Busy(q2)' =>
               cred'[q2].gen # cred[q].gen /\ cred'[q2].prev # cred[q].gen
        BY <1>1, <3>1, <3>4 DEF PendingHidden
      <4> QED
        BY <3>1, <3>2, <3>4, <4>2, <4>3, <4>4 DEF PendingHidden
    <3> QED
      BY <3>2, <3>3, <3>4 DEF PendingHidden, ReplacesOwn
  <2> QED
    BY <2>1, <2>2
<1> QED
  BY <1>4, <1>5, <1>6, <1>7, <1>8, <1>9 DEF StoreInv

\* put writes the chunks of a fresh generation, and remembers the header it found.
LEMMA ChunksPut ==
  ASSUME TypeOK, AllPrepared, StoreInv, NEW p \in Procs, OnlyStore(p), backend = "chunked",
         cred[p].op = "put", cred[p].ref \in Refs, nextGen <= MaxGens, nextGen' = nextGen + 1,
         UNCHANGED header, chunks' = chunks \cup {Written(p, nextGen)},
         cred'[p].op = "put", cred'[p].at = "header", cred'[p].ref = cred[p].ref,
         cred'[p].gen = nextGen, cred'[p].prev = header[cred[p].ref]
  PROVE  StoreInv'
<1> DEFINE ref == cred[p].ref
           new == Written(p, nextGen)
<1>1. \A q \in Procs \ {p} : Busy(q)' = Busy(q) /\ Pending(q)' = Pending(q) /\ cred'[q] = cred[q]
  BY OthersSame
<1>2. /\ nextGen \in Nat /\ nextGen # Nothing
      /\ \A r \in Refs : header[r] \in Gens \cup {Nothing} /\ header[r] # nextGen
      /\ \A c \in chunks : c.gen \in Gens /\ c.gen < nextGen
      /\ \A q \in Procs : Busy(q) => cred[q].gen # nextGen /\ cred[q].prev # nextGen
      /\ \A q \in Procs : Pending(q) => Busy(q) /\ cred[q].gen \in Gens
  BY GensAreOld, CredentialAssumption DEF TypeOK
<1>3. /\ new \in chunks' /\ new.gen = nextGen /\ new.ref = ref
      /\ \A c \in chunks' : c = new \/ c \in chunks
      /\ chunks \subseteq chunks' /\ ref \in Refs
  BY DEF Written
<1> HIDE DEF new
<1>4. \A q \in Procs : KeyPinned(q)'
  BY KeyPinnedKept
<1>5. GensOld'
  <2>2. \A r \in Refs : Old(header[r])'
    BY <1>2, CredentialAssumption DEF StoreInv, GensOld, Old, Gens
  <2>3. \A c \in chunks' : c.gen < nextGen'
    BY <1>2, <1>3 DEF Gens
  <2>4. ASSUME NEW q \in Procs, Busy(q)' PROVE (Old(cred[q].gen) /\ Old(cred[q].prev))'
    <3>1. CASE q # p
      <4>1. Busy(q) /\ cred'[q] = cred[q]
        BY <1>1, <2>4, <3>1
      <4>2. cred[q].gen \in Gens \cup {Nothing} /\ cred[q].prev \in Gens \cup {Nothing}
        BY <4>1, GensAreOld
      <4>3. Old(cred[q].gen) /\ Old(cred[q].prev)
        BY <4>1 DEF StoreInv, GensOld
      <4> QED
        BY <1>2, <4>1, <4>2, <4>3, CredentialAssumption DEF Old, Gens
    <3>2. CASE q = p
      <4>1. Old(header[ref])'
        BY <1>3, <2>2
      <4> QED
        BY <1>2, <3>2, <4>1 DEF Old
    <3> QED
      BY <3>1, <3>2
  <2> QED
    BY <2>2, <2>3, <2>4 DEF GensOld
<1>6. HeadersApart'
  BY DEF StoreInv, HeadersApart
<1>7. HeaderHasChunks'
  BY <1>3 DEF StoreInv, HeaderHasChunks, Found
<1>8. OneCredentialKey'
  BY DEF OneCredentialKey, OnlyStore
<1>9. ASSUME NEW q \in Procs PROVE PendingHidden(q)' /\ ReplacesOwn(q)'
  <2>1. CASE q = p
    <3>1. ReplacesOwn(p)'
      BY <1>3 DEF ReplacesOwn, StoreInv, HeadersApart
    <3>2. \A q2 \in Procs \ {p} : Busy(q2)' => cred'[q2].gen # nextGen /\ cred'[q2].prev # nextGen
      BY <1>1, <1>2
    <3>3. PendingHidden(p)'
      BY <1>2, <1>3, <3>2 DEF PendingHidden
    <3> QED
      BY <2>1, <3>1, <3>3
  <2>2. CASE q # p
    <3>1. PendingHidden(q) /\ ReplacesOwn(q)
      BY DEF StoreInv
    <3>2. cred'[q] = cred[q] /\ Busy(q)' = Busy(q) /\ Pending(q)' = Pending(q)
      BY <1>1, <2>2
    <3>3. ReplacesOwn(q)'
      BY <3>1, <3>2 DEF ReplacesOwn
    <3>4. ASSUME Pending(q) PROVE PendingHidden(q)'
      <4>1. cred[q].gen \in Gens /\ cred[q].gen # nextGen /\ cred[q].gen # header[ref]
        BY <1>2, <1>3, <3>1, <3>4 DEF PendingHidden
      <4>2. \E c \in chunks' : c.gen = cred[q].gen /\ c.ref = cred[q].ref
        BY <1>3, <3>1, <3>4 DEF PendingHidden
      <4>3. \A q2 \in Procs \ {q} : Busy(q2)' =>
               cred'[q2].gen # cred[q].gen /\ cred'[q2].prev # cred[q].gen
        BY <1>1, <3>1, <3>4, <4>1 DEF PendingHidden
      <4> QED
        BY <3>1, <3>2, <3>4, <4>2, <4>3 DEF PendingHidden
    <3> QED
      BY <3>2, <3>3, <3>4 DEF PendingHidden
  <2> QED
    BY <2>1, <2>2
<1> QED
  BY <1>4, <1>5, <1>6, <1>7, <1>8, <1>9 DEF StoreInv

\* put points the header at its chunks.
LEMMA HeaderPut ==
  ASSUME TypeOK, AllPrepared, StoreInv, NEW p \in Procs, OnlyStore(p), Pending(p),
         cred[p].ref \in Refs, UNCHANGED <<nextGen, chunks>>,
         header' = [header EXCEPT ![cred[p].ref] = cred[p].gen],
         cred'[p].op = "put", cred'[p].at = "clean", cred'[p].ref = cred[p].ref,
         cred'[p].gen = cred[p].gen, cred'[p].prev = cred[p].prev
  PROVE  StoreInv'
<1> DEFINE ref == cred[p].ref
           gen == cred[p].gen
<1>1. /\ \A q \in Procs \ {p} : Busy(q)' = Busy(q) /\ Pending(q)' = Pending(q) /\ cred'[q] = cred[q]
      /\ ~Pending(p)'
  BY OthersSame DEF Pending
<1>2. /\ header'[ref] = gen /\ \A r \in Refs \ {ref} : header'[r] = header[r]
      /\ ref \in Refs
  BY DEF TypeOK
<1>3. Busy(p) /\ PendingHidden(p) /\ gen \in Gens /\ gen # Nothing
  BY GensAreOld, CredentialAssumption DEF StoreInv, Gens
<1>4. /\ \A r \in Refs : header[r] # gen
      /\ \E c \in chunks : c.gen = gen /\ c.ref = ref
      /\ cred[p].prev # gen
      /\ \A q \in Procs \ {p} : Busy(q) => cred[q].gen # gen /\ cred[q].prev # gen
  BY <1>3 DEF PendingHidden
<1>5. Old(gen) /\ Old(cred[p].prev)
  BY <1>3 DEF StoreInv, GensOld
<1> HIDE DEF ref, gen
<1>6. \A q \in Procs : KeyPinned(q)'
  BY KeyPinnedKept
<1>7. GensOld'
  BY <1>1, <1>2, <1>5 DEF StoreInv, GensOld, Old, gen
<1>8. HeadersApart'
  BY <1>2, <1>4 DEF StoreInv, HeadersApart
<1>9. HeaderHasChunks'
  BY <1>2, <1>4 DEF StoreInv, HeaderHasChunks, Found
<1>10. OneCredentialKey'
  BY DEF StoreInv, OneCredentialKey, OnlyStore
<1>11. ASSUME NEW q \in Procs PROVE PendingHidden(q)' /\ ReplacesOwn(q)'
  <2>0. PendingHidden(q) /\ ReplacesOwn(q)
    BY DEF StoreInv
  <2>1. CASE q = p
    <3>1. ReplacesOwn(p)'
      BY <1>2, <1>3, <1>4, <2>0, <2>1 DEF ReplacesOwn, Pending, ref
    <3> QED
      BY <1>1, <2>1, <3>1 DEF PendingHidden
  <2>2. CASE q # p
    <3>2. cred'[q] = cred[q] /\ Busy(q)' = Busy(q) /\ Pending(q)' = Pending(q)
      BY <1>1, <2>2
    <3>3. ASSUME Busy(q) PROVE ReplacesOwn(q)'
      <4>1. cred[q].gen # gen /\ cred[q].prev # gen
        BY <1>4, <2>2, <3>3
      <4> QED
        BY <1>2, <2>0, <3>2, <3>3, <4>1 DEF ReplacesOwn
    <3>4. ASSUME Pending(q) PROVE PendingHidden(q)'
      <4>1. Busy(q)
        BY <3>4 DEF Pending, Busy
      <4>2. cred[q].gen # gen
        BY <1>4, <2>2, <4>1
      <4>3. \A r \in Refs : header'[r] # cred[q].gen
        BY <1>2, <2>0, <3>4, <4>2 DEF PendingHidden
      <4>4. \A q2 \in Procs \ {q} : Busy(q2)' =>
               cred'[q2].gen # cred[q].gen /\ cred'[q2].prev # cred[q].gen
        BY <1>1, <1>3, <2>0, <2>2, <3>4 DEF PendingHidden
      <4> QED
        BY <2>0, <3>2, <3>4, <4>3, <4>4 DEF PendingHidden
    <3> QED
      BY <3>2, <3>3, <3>4 DEF PendingHidden, ReplacesOwn
  <2> QED
    BY <2>1, <2>2
<1> QED
  BY <1>6, <1>7, <1>8, <1>9, <1>10, <1>11 DEF StoreInv

LEMMA CredStepStoreInv ==
  ASSUME TypeOK, AllPrepared, StoreInv, NEW p \in Procs, CredStep(p), UNCHANGED ctlVars
  PROVE  StoreInv'
<1> DEFINE ref == cred[p].ref
<1>1. cred[p].op # "none" /\ UNCHANGED <<backend, marker, pc, cmd>>
  BY DEF CredStep, PutSqlite, PutChunks, PutHeader, PutClean, GetHeader, GetChunks, DeleteBegin,
         DeleteEntry, ctlVars
<1>2. /\ ref \in Refs /\ header[ref] \in Gens \cup {Nothing}
      /\ cred[p].op = "put" /\ cred[p].at \in {"header", "clean"} => cred[p].gen \in Gens
      /\ nextGen <= MaxGens => nextGen \in Gens
      /\ cred[p].prev \in Gens \cup {Nothing} /\ cred[p].gen \in Gens \cup {Nothing}
      /\ cred \in [Procs -> CredType] /\ cred[p] \in CredType
  BY <1>1, CallAtHand DEF CredType, TypeOK
<1>3. \A q \in Procs \ {p} : cred'[q] = cred[q]
  BY CredStepKeeps DEF Others, Own
<1>4. ASSUME NEW r, Return(p, r) PROVE OnlyStore(p) /\ cred'[p].op = "none"
  <2>1. cred'[p] = NoCred
    BY <1>2, <1>4 DEF Return
  <2> QED
    BY <1>1, <1>3, <2>1 DEF OnlyStore, NoCred
<1>5. ASSUME NEW at \in {"header", "clean", "chunks"}, NEW gen \in Gens, NEW prev \in Gens \cup {Nothing},
             Goto(p, at, gen, prev)
      PROVE  /\ OnlyStore(p) /\ cred'[p].op = cred[p].op /\ cred'[p].ref = cred[p].ref
             /\ cred'[p].at = at /\ cred'[p].gen = gen /\ cred'[p].prev = prev
  <2>1. /\ cred'[p].op = cred[p].op /\ cred'[p].ref = cred[p].ref /\ cred'[p].key = cred[p].key
        /\ cred'[p].at = at /\ cred'[p].gen = gen /\ cred'[p].prev = prev
    BY <1>1, <1>5, GotoKeeps
  <2> QED
    BY <1>1, <1>3, <2>1 DEF OnlyStore
<1>6. \A q \in Procs : Pending(q) => Busy(q) /\ cred[q].gen \in Gens /\ cred[q].gen # Nothing
  BY GensAreOld, CredentialAssumption DEF Gens

\* An operation that ends and leaves the store as it is.
<1>8. ASSUME NEW r, Return(p, r), UNCHANGED <<header, chunks, nextGen>> PROVE StoreInv'
  <2>1. \A q \in Procs \ {p} : Pending(q) => cred[q].gen # Nothing
    BY <1>6
  <2>2. OnlyStore(p) /\ cred'[p].op = "none"
    BY <1>4, <1>8
  <2> QED
    BY <1>8, <2>1, <2>2, OperationEnds
<1>11. ASSUME PutSqlite(p) PROVE StoreInv'
  <2>1. CASE nextGen <= MaxGens /\ chunks' = Without(header[ref]) \cup {Written(p, nextGen)}
             /\ header' = [header EXCEPT ![ref] = nextGen] /\ nextGen' = nextGen + 1
             /\ Return(p, Says("ok"))
    <3>1. OnlyStore(p) /\ cred'[p].op = "none" /\ cred[p].op = "put"
      BY <1>4, <1>11, <2>1 DEF PutSqlite
    <3> QED
      BY <1>2, <2>1, <3>1, SqlitePuts
  <2>2. CASE Return(p, Says("error")) /\ UNCHANGED <<chunks, header, nextGen>>
    BY <1>8, <2>2
  <2> QED
    BY <1>11, <2>1, <2>2 DEF PutSqlite
<1>12. ASSUME PutChunks(p) PROVE StoreInv'
  <2>1. backend = "chunked" /\ cred[p].op = "put" /\ UNCHANGED header
    BY <1>12 DEF PutChunks
  <2>2. CASE nextGen <= MaxGens /\ chunks' = chunks \cup {Written(p, nextGen)}
             /\ nextGen' = nextGen + 1 /\ Goto(p, "header", nextGen, header[ref])
    <3>1. /\ OnlyStore(p) /\ cred'[p].op = cred[p].op /\ cred'[p].ref = cred[p].ref
          /\ cred'[p].at = "header" /\ cred'[p].gen = nextGen /\ cred'[p].prev = header[ref]
      BY <1>2, <1>5, <2>2
    <3> QED
      BY <1>2, <2>1, <2>2, <3>1, ChunksPut
  <2>3. CASE Return(p, Says("error")) /\ UNCHANGED <<chunks, nextGen>>
    BY <1>8, <2>1, <2>3
  <2> QED
    BY <1>12, <2>2, <2>3 DEF PutChunks
<1>13. ASSUME PutHeader(p) PROVE StoreInv'
  <2>1. Pending(p) /\ UNCHANGED nextGen /\ cred[p].gen \in Gens /\ cred[p].op = "put"
    BY <1>2, <1>13 DEF PutHeader, Pending
  <2>2. CASE header' = [header EXCEPT ![ref] = cred[p].gen]
             /\ Goto(p, "clean", cred[p].gen, cred[p].prev) /\ UNCHANGED chunks
    <3>1. /\ OnlyStore(p) /\ cred'[p].op = cred[p].op /\ cred'[p].ref = cred[p].ref
          /\ cred'[p].at = "clean" /\ cred'[p].gen = cred[p].gen /\ cred'[p].prev = cred[p].prev
      BY <1>2, <1>5, <2>1, <2>2
    <3> QED
      BY <1>2, <2>1, <2>2, <3>1, HeaderPut
  <2>3. CASE chunks' = Without(cred[p].gen) /\ Return(p, Says("error")) /\ UNCHANGED header
    <3>1. OnlyStore(p) /\ cred'[p].op = "none"
      BY <1>4, <2>3
    <3>2. PendingHidden(p) /\ \A q \in Procs : PendingHidden(q)
      BY DEF StoreInv
    <3>3. \A r \in Refs : header'[r] # cred[p].gen
      BY <2>1, <2>3, <3>2 DEF PendingHidden
    <3>4. \A q \in Procs \ {p} : Pending(q) => cred[q].gen # cred[p].gen
      BY <1>6, <2>1, <3>2 DEF PendingHidden
    <3>5. chunks' \subseteq chunks /\ \A c \in chunks : c \in chunks' \/ c.gen = cred[p].gen
      BY <2>3 DEF Without
    <3> QED
      BY <2>1, <2>3, <3>1, <3>3, <3>4, <3>5, OperationEnds
  <2> QED
    BY <1>13, <2>2, <2>3 DEF PutHeader
<1>14. ASSUME PutClean(p) PROVE StoreInv'
  <2>1. cred[p].op = "put" /\ cred[p].at = "clean" /\ chunks' = Without(cred[p].prev)
        /\ Return(p, Says("ok")) /\ UNCHANGED <<header, nextGen>>
    BY <1>14 DEF PutClean
  <2>2. OnlyStore(p) /\ cred'[p].op = "none" /\ Busy(p)
    BY <1>4, <2>1 DEF Busy
  <2>3. ReplacesOwn(p) /\ \A q \in Procs : PendingHidden(q)
    BY DEF StoreInv
  <2>4. \A r \in Refs : header'[r] # Nothing => header'[r] # cred[p].prev
    BY <2>1, <2>2, <2>3 DEF ReplacesOwn
  <2>5. \A q \in Procs \ {p} : Pending(q) => cred[q].gen # cred[p].prev
    BY <2>2, <2>3 DEF PendingHidden
  <2>6. chunks' \subseteq chunks /\ \A c \in chunks : c \in chunks' \/ c.gen = cred[p].prev
    BY <2>1 DEF Without
  <2> QED
    BY <2>1, <2>2, <2>4, <2>5, <2>6, OperationEnds
<1>15. ASSUME GetHeader(p) PROVE StoreInv'
  <2>1. cred[p].op = "get" /\ UNCHANGED <<chunks, header, nextGen>>
    BY <1>15 DEF GetHeader
  <2>2. CASE \E r : Return(p, r)
    BY <1>8, <2>1, <2>2
  <2>3. CASE header[ref] # Nothing /\ Goto(p, "chunks", header[ref], Nothing)
    <3>1. /\ OnlyStore(p) /\ cred'[p].op = cred[p].op /\ cred'[p].ref = cred[p].ref
          /\ cred'[p].gen = header[ref] /\ cred'[p].prev = Nothing
      BY <1>2, <1>5, <2>3
    <3> QED
      BY <1>2, <2>1, <2>3, <3>1, OperationNotes
  <2> QED
    BY <1>15, <2>2, <2>3 DEF GetHeader
<1>16. ASSUME GetChunks(p) PROVE StoreInv'
  BY <1>8, <1>16 DEF GetChunks
<1>17. ASSUME DeleteBegin(p) PROVE StoreInv'
  <2>1. cred[p].op = "delete" /\ UNCHANGED nextGen
    BY <1>17 DEF DeleteBegin
  <2>2. CASE \E r : Return(p, r) /\ UNCHANGED <<chunks, header>>
    BY <1>8, <2>1, <2>2
  <2>3. CASE header[ref] # Nothing /\ chunks' = Without(header[ref]) /\ header' = [header EXCEPT ![ref] = Nothing]
             /\ Return(p, Says("ok"))
    <3>1. OnlyStore(p) /\ cred'[p].op = "none"
      BY <1>4, <2>3
    <3>2. header'[ref] = Nothing /\ \A r \in Refs \ {ref} : header'[r] = header[r]
      BY <1>2, <2>3 DEF TypeOK
    <3>3. \A r \in Refs : header'[r] # Nothing => header'[r] # header[ref]
      BY <1>2, <3>2 DEF StoreInv, HeadersApart
    <3>4. \A q \in Procs \ {p} : Pending(q) => cred[q].gen # header[ref]
      BY <1>2 DEF StoreInv, PendingHidden
    <3>5. chunks' \subseteq chunks /\ \A c \in chunks : c \in chunks' \/ c.gen = header[ref]
      BY <2>3 DEF Without
    <3>6. \A r \in Refs : header'[r] = header[r] \/ header'[r] = Nothing
      BY <3>2
    <3> QED
      BY <2>1, <3>1, <3>3, <3>4, <3>5, <3>6, OperationEnds
  <2>4. CASE header[ref] # Nothing /\ Goto(p, "header", header[ref], Nothing) /\ UNCHANGED <<chunks, header>>
    <3>1. /\ OnlyStore(p) /\ cred'[p].op = cred[p].op /\ cred'[p].ref = cred[p].ref
          /\ cred'[p].gen = header[ref] /\ cred'[p].prev = Nothing
      BY <1>2, <1>5, <2>4
    <3> QED
      BY <1>2, <2>1, <2>4, <3>1, OperationNotes
  <2> QED
    BY <1>17, <2>2, <2>3, <2>4 DEF DeleteBegin
<1>18. ASSUME DeleteEntry(p) PROVE StoreInv'
  <2>1. cred[p].op = "delete" /\ cred[p].at = "header" /\ UNCHANGED nextGen
    BY <1>18 DEF DeleteEntry
  <2>2. CASE \E r : Return(p, r) /\ UNCHANGED <<chunks, header>>
    BY <1>8, <2>1, <2>2
  <2>3. CASE header' = [header EXCEPT ![ref] = Nothing] /\ chunks' = Without(cred[p].gen)
             /\ Return(p, Says("ok"))
    <3>1. OnlyStore(p) /\ cred'[p].op = "none" /\ Busy(p)
      BY <1>4, <2>1, <2>3 DEF Busy
    <3>2. header'[ref] = Nothing /\ \A r \in Refs \ {ref} : header'[r] = header[r]
      BY <1>2, <2>3 DEF TypeOK
    <3>3. ReplacesOwn(p) /\ \A q \in Procs : PendingHidden(q)
      BY DEF StoreInv
    <3>4. \A r \in Refs : header'[r] # Nothing => header'[r] # cred[p].gen
      BY <2>1, <3>1, <3>2, <3>3 DEF ReplacesOwn
    <3>5. \A q \in Procs \ {p} : Pending(q) => cred[q].gen # cred[p].gen
      BY <3>1, <3>3 DEF PendingHidden
    <3>6. chunks' \subseteq chunks /\ \A c \in chunks : c \in chunks' \/ c.gen = cred[p].gen
      BY <2>3 DEF Without
    <3>7. \A r \in Refs : header'[r] = header[r] \/ header'[r] = Nothing
      BY <3>2
    <3> QED
      BY <2>1, <3>1, <3>4, <3>5, <3>6, <3>7, OperationEnds
  <2> QED
    BY <1>18, <2>2, <2>3 DEF DeleteEntry
<1> QED
  BY <1>11, <1>12, <1>13, <1>14, <1>15, <1>16, <1>17, <1>18 DEF CredStep

LEMMA InitStoreInv == Init => StoreInv
<1> SUFFICES ASSUME Init PROVE StoreInv
  OBVIOUS
<1>1. /\ header = [r \in Refs |-> IF r = Seed.ref THEN 1 ELSE Nothing]
      /\ chunks = {[gen |-> 1, ref |-> Seed.ref, secret |-> Seed.secret, key |-> Seed.key]}
      /\ nextGen = 2 /\ Seed.key \in FileKeys
      /\ backend = "sqlite" => marker \in {Nothing, Seed.key}
      /\ \A p \in Procs : pc[p] = "idle" /\ cred[p] = NoCred
  BY ControlAssumption DEF Init
<1>2. \A p \in Procs : ~Busy(p) /\ ~Pending(p) /\ ~Running(p) /\ cred[p].op = "none"
  BY <1>1 DEF Busy, Pending, Running, NoCred
<1>3. GensOld /\ HeadersApart
  BY <1>1, <1>2 DEF GensOld, HeadersApart, Old
<1>4. HeaderHasChunks
  <2> SUFFICES ASSUME NEW r \in Refs, header[r] # Nothing PROVE Found(r) # {}
    BY DEF HeaderHasChunks
  <2> DEFINE c == [gen |-> 1, ref |-> Seed.ref, secret |-> Seed.secret, key |-> Seed.key]
  <2>1. c \in chunks /\ c.gen = 1 /\ c.ref = Seed.ref
    BY <1>1
  <2>2. r = Seed.ref /\ header[r] = 1
    BY <1>1
  <2> QED
    BY <2>1, <2>2 DEF Found
<1>5. OneCredentialKey
  BY <1>1 DEF OneCredentialKey
<1> QED
  BY <1>2, <1>3, <1>4, <1>5 DEF StoreInv, PendingHidden, ReplacesOwn, KeyPinned

LEMMA NextStoreInv == TypeOK /\ AllPrepared /\ StoreInv /\ [Next]_vars => StoreInv'
<1> SUFFICES ASSUME TypeOK, AllPrepared, StoreInv, [Next]_vars PROVE StoreInv'
  OBVIOUS
<1>1. CASE UNCHANGED vars
  <2>1. /\ UNCHANGED <<backend, header, chunks, marker, nextGen, cred, pc, cmd>>
    BY <1>1 DEF vars, credVars, ctlVars
  <2>2. GensOld' /\ HeadersApart' /\ HeaderHasChunks' /\ OneCredentialKey'
    BY <2>1 DEF StoreInv, GensOld, Old, Busy, HeadersApart, HeaderHasChunks, Found, OneCredentialKey
  <2>3. \A q \in Procs : PendingHidden(q)' /\ ReplacesOwn(q)' /\ KeyPinned(q)'
    BY <2>1 DEF StoreInv, PendingHidden, ReplacesOwn, KeyPinned, Busy, Pending, Running
  <2> QED
    BY <2>2, <2>3 DEF StoreInv
<1>2. CASE Next
  BY <1>1, <1>2, CommandStoreInv, CredStepStoreInv DEF Next, Done
<1> QED
  BY <1>1, <1>2

\* What the credential stores hold can be read back, for any number of processes that put,
\* get and delete at once, fail or are killed between any two steps: a header always names
\* chunks that are stored (OsCredentialStore::put and delete), and a pinned sqlite file has
\* rows of one key only (verify_or_initialize_key).
THEOREM StoredReadable == Spec => []StoredIsReadable
<1>1. Spec => [](TypeOK /\ AllPrepared /\ StoreInv)
  BY InitPrepared, NextPrepared, InitStoreInv, NextStoreInv, PTL DEF Spec
<1>2. TypeOK /\ AllPrepared /\ StoreInv => StoredIsReadable
  BY DEF StoreInv, StoredIsReadable
<1> QED
  BY <1>1, <1>2, PTL
-----------------------------------------------------------------------------
(***************************************************************************)
(* Grants and policies.  A connection is Clean while no two commands used  *)
(* it at once and none deleted it.  Its command is then alone with the     *)
(* row: what it is going to write is newer than the row, or has the row's  *)
(* policy.                                                                 *)
(***************************************************************************)
Clean(c) == c \notin overlapped /\ NeverDeleted(c)

Succeeds(d, row) == d.version > row.version \/ (d.version = row.version /\ d.policy = row.policy)

GrantFits(g, row) ==
    /\ row # NoProfile /\ g.version <= row.version
    /\ g.version = row.version => g.policy = row.policy

DraftFits(p) ==
    /\ pc[p] = "stored" /\ Do(p) = "create" => ~Exists(Conn(p))
    /\ \/ pc[p] = "write"
       \/ pc[p] \in {"save", "stored"} /\ Do(p) = "update_connection"
       => Exists(Conn(p)) /\ Succeeds(draft[p].profile, profile[Conn(p)])

CleanInv(c) ==
    /\ \A p, q \in Procs : Running(p) /\ Running(q) /\ Conn(p) = c /\ Conn(q) = c => p = q
    /\ \A g \in grants : g.conn = c => GrantFits(g, profile[c])
    /\ \A p \in Procs : Running(p) /\ Conn(p) = c => DraftFits(p)

PolicyInv == \A c \in Conns : Clean(c) => CleanInv(c)

\* What becomes of a process and a row in a step of process p.
LEMMA StepShape ==
  ASSUME TypeOK, AllPrepared, NEW p \in Procs,
         CommandStep(p) \/ Kill(p) \/ (CredStep(p) /\ UNCHANGED ctlVars)
  PROVE  /\ overlapped \subseteq overlapped'
         /\ \A q \in Procs : pc[q] # "idle" => pc'[q] # "idle" /\ cmd'[q] = cmd[q]
         /\ ~Start(p) => overlapped' = overlapped /\ (Running(p)' => Running(p))
         /\ \A q \in Procs \ {p} : /\ pc'[q] = pc[q] /\ cmd'[q] = cmd[q] /\ draft'[q] = draft[q]
                                   /\ Running(q)' = Running(q)
<1>1. \A q \in Procs \ {p} : /\ pc'[q] = pc[q] /\ cmd'[q] = cmd[q] /\ draft'[q] = draft[q]
                             /\ Running(q)' = Running(q)
  BY StepPrepared DEF Others, Own, Running
<1>2. CASE Start(p)
  <2>1. pc[p] = "idle" /\ overlapped \subseteq overlapped'
    BY <1>2 DEF Start
  <2> QED
    BY <1>1, <1>2, <2>1
<1>3. CASE CredStep(p) /\ UNCHANGED ctlVars
  BY <1>1, <1>3 DEF ctlVars, Running
<1>4. CASE Kill(p)
  <2>1. Running(p) /\ pc'[p] = "killed" /\ cmd' = cmd /\ overlapped' = overlapped
    BY <1>4 DEF Kill, TypeOK
  <2> QED
    BY <1>1, <2>1
<1>5. CASE CommandStep(p) /\ ~Start(p)
  <2>1. cmd' = cmd /\ overlapped' = overlapped /\ Running(p)
    BY <1>5 DEF CommandStep, Read, Test, Reread, Save, SecretStored, Undone, Write, Remove, Removed,
                Restore, LoadKey, KeyStored, Issue, AtStation, Running
  <2>2. pc'[p] # "idle"
    <3>1. (\E r : End(p, r)) => pc'[p] # "idle"
      BY DEF End, TypeOK
    <3>2. \A s : To(p, s) => pc'[p] = s
      BY DEF To, TypeOK
    <3>3. CASE Read(p)
      BY <3>1, <3>2, <3>3 DEF Read, ReadCreate, ReadRow, ReadSetPolicy, ReadSetEnabled, ReadUpdateProfile,
                  ReadUpdateConnection, ReadRotate, ReadDelete, ReadTestSaved, Via
    <3>4. CASE Test(p) \/ Reread(p) \/ Save(p) \/ Removed(p)
      BY <3>1, <3>2, <3>4 DEF Test, Reread, Save, Removed, Via
    <3>5. CASE SecretStored(p) \/ Undone(p) \/ Write(p) \/ Restore(p) \/ Issue(p) \/ Remove(p)
      BY <3>1, <3>2, <3>5 DEF SecretStored, Undo, Undone, Write, Restore, Issue, Remove, Via
    <3>6. CASE LoadKey(p) \/ KeyStored(p)
      BY <3>1, <3>2, <3>6 DEF LoadKey, KeyStored, UseKey, Via
    <3> QED
      BY <1>5, <3>3, <3>4, <3>5, <3>6 DEF CommandStep
  <2> QED
    BY <1>1, <2>1, <2>2
<1> QED
  BY <1>2, <1>3, <1>4, <1>5

LEMMA CleanBefore ==
  ASSUME TypeOK, AllPrepared, NEW p \in Procs, NEW c,
         CommandStep(p) \/ Kill(p) \/ (CredStep(p) /\ UNCHANGED ctlVars), Clean(c)'
  PROVE  Clean(c) /\ (pc'[p] # "idle" /\ Conn(p)' = c => Do(p)' # "delete")
<1>1. /\ overlapped \subseteq overlapped'
      /\ \A q \in Procs : pc[q] # "idle" => pc'[q] # "idle" /\ cmd'[q] = cmd[q]
  BY StepShape
<1> QED
  BY <1>1 DEF Clean, NeverDeleted, Conn, Do

\* Only a command that stores a draft or deletes touches a row, and only its own.
LEMMA RowsTouched ==
  ASSUME TypeOK, AllPrepared, NEW p \in Procs,
         CommandStep(p) \/ Kill(p) \/ (CredStep(p) /\ UNCHANGED ctlVars)
  PROVE  /\ \A c \in Conns : c # Conn(p) => profile'[c] = profile[c]
         /\ profile' # profile =>
               /\ pc[p] \in {"stored", "write", "remove", "restore"} /\ pc'[p] \in {"ended", "removed"}
               /\ pc[p] \in {"stored", "write"} =>
                     /\ Do(p) \in {"create", "update_connection", "set_policy", "set_enabled",
                                   "update_profile"}
                     /\ profile'[Conn(p)] = draft[p].profile /\ pc'[p] = "ended"
         /\ \A g \in grants' \ grants :
               /\ g.conn = Conn(p) /\ Exists(Conn(p)) /\ pc'[p] = "ended" /\ profile' = profile
               /\ g.version = profile[Conn(p)].version /\ g.policy = profile[Conn(p)].policy
<1>1. \A row : Upsert(Conn(p), row) =>
         \A c \in Conns : c # Conn(p) => profile'[c] = profile[c]
  BY DEF Upsert, TypeOK
<1>2. ASSUME NEW row, Upsert(Conn(p), row), Conn(p) \in Conns PROVE profile'[Conn(p)] = row
  BY <1>2 DEF Upsert, TypeOK
<1>3. \A r : End(p, r) => pc'[p] = "ended"
  BY DEF End, TypeOK
<1>4. CASE SecretStored(p)
  <2>1. /\ pc[p] = "stored" /\ UNCHANGED grants /\ Conn(p) \in Conns
        /\ Do(p) \in {"create", "update_connection", "rotate", "replace_secret"}
    BY <1>4, RequestOf DEF SecretStored, AtStation, AllPrepared, Prepared, DoAt
  <2>2. NoWrite \/ (AfterSecret(p) /\ End(p, "ok"))
    BY <1>4 DEF SecretStored
  <2>3. CASE NoWrite
    BY <2>1, <2>3 DEF NoWrite
  <2>4. CASE AfterSecret(p) /\ End(p, "ok") /\ Rotates(p)
    BY <2>1, <2>4 DEF AfterSecret, NotifyChanged
  <2>5. CASE AfterSecret(p) /\ End(p, "ok") /\ ~Rotates(p)
    BY <1>1, <1>2, <1>3, <2>1, <2>5 DEF AfterSecret, Rotates
  <2> QED
    BY <2>2, <2>3, <2>4, <2>5
<1>5. CASE Write(p)
  <2>1. /\ pc[p] = "write" /\ UNCHANGED grants /\ Conn(p) \in Conns
        /\ Do(p) \in {"set_policy", "set_enabled", "update_profile"}
    BY <1>5, RequestOf DEF Write, AtStation, AllPrepared, Prepared, DoAt
  <2>2. NoWrite \/ (Upsert(Conn(p), draft[p].profile) /\ End(p, "ok"))
    BY <1>5 DEF Write
  <2> QED
    BY <1>1, <1>2, <1>3, <2>1, <2>2 DEF NoWrite
<1>6. CASE Remove(p)
  <2>1. pc[p] = "remove" /\ UNCHANGED grants
    BY <1>6 DEF Remove, AtStation
  <2>2. \A s : To(p, s) => pc'[p] = s
    BY DEF To, TypeOK
  <2>3. pc'[p] \in {"ended", "removed"}
    BY <1>3, <1>6, <2>2 DEF Remove, Via
  <2>4. NoWrite \/ Upsert(Conn(p), NoProfile)
    BY <1>6 DEF Remove
  <2> QED
    BY <1>1, <2>1, <2>3, <2>4 DEF NoWrite
<1>7. CASE Restore(p)
  <2>1. pc[p] = "restore" /\ UNCHANGED grants /\ pc'[p] = "ended"
    BY <1>3, <1>7 DEF Restore, AtStation
  <2>2. NoWrite \/ Upsert(Conn(p), existing[p])
    BY <1>7 DEF Restore
  <2> QED
    BY <1>1, <2>1, <2>2 DEF NoWrite
<1>8. CASE Issue(p)
  <2>1. profile' = profile
    BY <1>8 DEF Issue, NoWrite
  <2>2. \A g \in grants' \ grants :
               /\ g.conn = Conn(p) /\ Exists(Conn(p)) /\ End(p, "ok")
               /\ g.version = profile[Conn(p)].version /\ g.policy = profile[Conn(p)].policy
    BY <1>8 DEF Issue
  <2> QED
    BY <1>3, <2>1, <2>2
<1>9. CASE CredStep(p) /\ UNCHANGED ctlVars
  BY <1>9 DEF ctlVars
<1>10. CASE Start(p) \/ Read(p) \/ Test(p) \/ Reread(p) \/ Save(p) \/ Undone(p) \/ Removed(p)
            \/ LoadKey(p) \/ KeyStored(p) \/ Kill(p)
  BY <1>10 DEF Start, Read, Test, Reread, Save, Undone, Removed, LoadKey, KeyStored, Kill, NoWrite
<1> QED
  BY <1>4, <1>5, <1>6, <1>7, <1>8, <1>9, <1>10 DEF CommandStep

LEMMA DraftFitsKept ==
  ASSUME TypeOK, AllPrepared, PolicyInv, NEW p \in Procs,
         CommandStep(p) \/ Kill(p) \/ (CredStep(p) /\ UNCHANGED ctlVars),
         Clean(Conn(p))', Running(p)'
  PROVE  DraftFits(p)' /\ profile' = profile
<1>1. TypeOK' /\ AllPrepared'
  BY StepPrepared
<1>2. pc'[p] # "idle" /\ pc'[p] # "ended"
  BY DEF Running
<1>3. Clean(Conn(p)') /\ Do(p)' # "delete"
  <2>1. PICK k : k = Conn(p)'
    OBVIOUS
  <2>2. Clean(k)'
    BY <2>1 DEF Clean, NeverDeleted
  <2> QED
    BY <1>2, <2>1, <2>2, CleanBefore
<1>4. pc'[p] # "removed"
  BY <1>1, <1>3 DEF AllPrepared, Prepared, DoAt
<1>5. profile' = profile
  BY <1>2, <1>4, RowsTouched
<1>6. ASSUME ~Start(p) PROVE Running(p) /\ cmd' = cmd /\ Conn(p) \in Conns /\ DraftFits(p)
  <2>1. Running(p) /\ pc[p] # "idle"
    BY <1>6, StepShape DEF Running
  <2>2. cmd'[p] = cmd[p] /\ Conn(p) \in Conns
    BY <2>1, StepShape, RequestOf
  <2>3. Conn(p)' = Conn(p)
    BY <2>2 DEF Conn
  <2>4. CleanInv(Conn(p))
    BY <1>3, <2>2, <2>3 DEF PolicyInv
  <2>5. cmd' = cmd
    BY <1>6, CommandLeavesStore DEF ctlVars
  <2> QED
    BY <2>1, <2>2, <2>4, <2>5 DEF CleanInv
<1>7. \A s : To(p, s) => pc'[p] = s
  BY DEF To, TypeOK
<1>8. \A r : ~End(p, r)
  BY <1>2 DEF End, TypeOK
<1> DEFINE row == profile[Conn(p)]
<1>9. CASE Start(p)
  <2>1. pc'[p] \in {"key", "read"}
    BY <1>7, <1>8, <1>9 DEF Start
  <2> QED
    BY <1>5, <2>1 DEF DraftFits
<1>10. CASE Read(p)
  <2>1. ~Start(p) /\ pc[p] = "read" /\ Conn(p)' = Conn(p) /\ Do(p)' = Do(p)
    BY <1>6, <1>10 DEF Read, AtStation, Start, Conn, Do
  <2>2. CASE ReadCreate(p)
    <3>1. ~Exists(Conn(p)) /\ pc'[p] = "stored" /\ Do(p) = "create"
      BY <1>7, <1>8, <2>2 DEF ReadCreate, Via
    <3> QED
      BY <1>5, <2>1, <3>1 DEF DraftFits, Exists
  <2>3. CASE ReadRow(p)
    <3>1. Do(p) \notin {"create", "authorize"} /\ row # NoProfile
      BY <1>8, <2>3 DEF ReadRow
    <3>2. row \in ProfileType
      BY <2>1, <3>1, RowOf
    <3>3. CASE ReadSetPolicy(p, row)
      <4> DEFINE new == [row EXCEPT !.policy = cmd[p].policy, !.enabled = cmd[p].enabled,
                                   !.version = next_policy_version(@)]
      <4>1. draft' = [draft EXCEPT ![p].profile = new] /\ pc'[p] = "write"
        BY <1>7, <3>3 DEF ReadSetPolicy, DraftProfile
      <4>2. new.version = row.version + 1 /\ row.version \in Nat
        BY <3>2 DEF ProfileType, next_policy_version
      <4> HIDE DEF new
      <4>3. draft'[p].profile = new
        BY <4>1 DEF TypeOK
      <4>4. Succeeds(draft'[p].profile, row)
        BY <4>2, <4>3 DEF Succeeds
      <4> QED
        BY <1>5, <2>1, <3>1, <4>1, <4>4 DEF DraftFits, Exists
    <3>4. CASE ReadSetEnabled(p, row)
      <4> DEFINE new == [row EXCEPT !.enabled = cmd[p].enabled, !.version = next_policy_version(@)]
      <4>1. draft' = [draft EXCEPT ![p].profile = new] /\ pc'[p] = "write"
        BY <1>7, <1>8, <3>4 DEF ReadSetEnabled, DraftProfile
      <4>2. new.version = row.version + 1 /\ row.version \in Nat
        BY <3>2 DEF ProfileType, next_policy_version
      <4> HIDE DEF new
      <4>3. draft'[p].profile = new
        BY <4>1 DEF TypeOK
      <4>4. Succeeds(draft'[p].profile, row)
        BY <4>2, <4>3 DEF Succeeds
      <4> QED
        BY <1>5, <2>1, <3>1, <4>1, <4>4 DEF DraftFits, Exists
    <3>5. CASE ReadUpdateProfile(p, row) \/ ReadUpdateConnection(p, row) \/ ReadRotate(p, row)
               \/ ReadDelete(p, row) \/ ReadTestSaved(p, row)
      <4>1. pc'[p] \in {"reread", "test", "remove"}
        BY <1>7, <3>5 DEF ReadUpdateProfile, ReadUpdateConnection, ReadRotate, ReadDelete,
                          ReadTestSaved, Via
      <4> QED
        BY <1>5, <4>1 DEF DraftFits
    <3> QED
      BY <2>3, <3>1, <3>3, <3>4, <3>5 DEF ReadRow
  <2> QED
    BY <1>10, <2>2, <2>3 DEF Read
<1>11. CASE Reread(p)
  <2>1. ~Start(p) /\ pc[p] = "reread" /\ Conn(p)' = Conn(p) /\ Do(p)' = Do(p)
    BY <1>6, <1>11 DEF Reread, AtStation, Start, Conn, Do
  <2>2. ~RereadRefuses(p, row)
    BY <1>8, <1>11 DEF Reread
  <2>3. row # NoProfile /\ row \in ProfileType
    BY <2>1, <2>2, RowOf DEF RereadRefuses
  <2>4. pc'[p] \in {"write", "save"} /\ (Rotates(p) => pc'[p] = "save")
    BY <1>7, <1>11, <2>2 DEF Reread, Via, Rotates
  <2>5. CASE Rotates(p)
    BY <1>5, <2>1, <2>4, <2>5 DEF DraftFits, Rotates
  <2>6. CASE ~Rotates(p)
    <3> DEFINE d == draft[p].profile
               new == Versioned(d, row)
    <3>1. draft' = [draft EXCEPT ![p].profile = new]
      BY <1>11, <2>2, <2>6 DEF Reread, TypeOK
    <3>2. d \in ProfileType
      BY <2>1, <2>6 DEF AllPrepared, Prepared, HasDraft, DoAt, Rotates
    <3> HIDE DEF d
    <3>3. /\ new.policy = d.policy
          /\ new.version = IF d.policy = row.policy /\ d.enabled = row.enabled
                          THEN row.version ELSE row.version + 1
          /\ row.version \in Nat
      BY <2>3, <3>2 DEF Versioned, ProfileType, next_policy_version
    <3> HIDE DEF new
    <3>4. draft'[p].profile = new
      BY <3>1 DEF TypeOK
    <3>5. Succeeds(draft'[p].profile, row)
      BY <3>3, <3>4 DEF Succeeds
    <3> QED
      BY <1>5, <2>1, <2>3, <2>4, <3>5 DEF DraftFits, Exists
  <2> QED
    BY <2>5, <2>6
<1>12. CASE Save(p)
  <2>1. ~Start(p) /\ pc[p] = "save" /\ Conn(p)' = Conn(p) /\ Do(p)' = Do(p) /\ draft' = draft
    BY <1>6, <1>12 DEF Save, AtStation, Start, Conn, Do
  <2>2. pc'[p] = "stored" /\ Do(p) # "create"
    BY <1>7, <1>8, <1>12, <2>1 DEF Save, Via, AllPrepared, Prepared, DoAt
  <2> QED
    BY <1>5, <1>6, <2>1, <2>2 DEF DraftFits, Exists
<1>13. CASE CredStep(p) /\ UNCHANGED ctlVars
  <2>1. UNCHANGED <<pc, cmd, draft, profile>>
    BY <1>13 DEF ctlVars
  <2>2. DraftFits(p)
    <3>1. Running(p) /\ Conn(p)' = Conn(p)
      BY <2>1 DEF Running, Conn
    <3>2. Conn(p) \in Conns
      BY <3>1, RequestOf DEF Running
    <3>3. CleanInv(Conn(p))
      BY <1>3, <3>1, <3>2 DEF PolicyInv
    <3> QED
      BY <3>1, <3>3 DEF CleanInv
  <2> QED
    BY <2>1, <2>2 DEF DraftFits, Exists, Conn, Do
<1>14. CASE Test(p) \/ SecretStored(p) \/ Removed(p) \/ Remove(p)
  <2>1. pc'[p] \in {"reread", "undone", "restore", "removed"}
    BY <1>7, <1>8, <1>14 DEF Test, SecretStored, Undo, Removed, Remove, Via
  <2> QED
    BY <1>5, <2>1 DEF DraftFits
<1>15. CASE LoadKey(p) \/ KeyStored(p)
  <2>1. pc'[p] \in {"read", "keystored"}
    BY <1>7, <1>8, <1>15 DEF LoadKey, KeyStored, UseKey, Via
  <2> QED
    BY <1>5, <2>1 DEF DraftFits
<1>16. ~(Undone(p) \/ Write(p) \/ Restore(p) \/ Issue(p))
  BY <1>8 DEF Undone, Write, Restore, Issue
<1>17. ~Kill(p)
  BY DEF Kill, Running, TypeOK
<1> QED
  BY <1>9, <1>10, <1>11, <1>12, <1>13, <1>14, <1>15, <1>16, <1>17 DEF CommandStep

LEMMA StepPolicyInv ==
  ASSUME TypeOK, AllPrepared, PolicyInv, NEW p \in Procs,
         CommandStep(p) \/ Kill(p) \/ (CredStep(p) /\ UNCHANGED ctlVars)
  PROVE  PolicyInv'
<1> SUFFICES ASSUME NEW c \in Conns, Clean(c)' PROVE CleanInv(c)'
  BY DEF PolicyInv
<1>1. Clean(c) /\ (pc'[p] # "idle" /\ Conn(p)' = c => Do(p)' # "delete")
  BY CleanBefore
<1>2. CleanInv(c)
  BY <1>1 DEF PolicyInv
<1>3. /\ \A q \in Procs : pc[q] # "idle" => pc'[q] # "idle" /\ cmd'[q] = cmd[q]
      /\ ~Start(p) => overlapped' = overlapped /\ (Running(p)' => Running(p))
      /\ \A q \in Procs \ {p} : /\ pc'[q] = pc[q] /\ cmd'[q] = cmd[q] /\ draft'[q] = draft[q]
                                /\ Running(q)' = Running(q) /\ Conn(q)' = Conn(q)
  BY StepShape DEF Conn
<1>4. TypeOK' /\ AllPrepared'
  BY StepPrepared

\* A command that starts on a clean connection is alone there.
<1>5. ASSUME Running(p)', Conn(p)' = c, NEW q \in Procs \ {p}, Running(q), Conn(q) = c PROVE FALSE
  <2>1. CASE ~Start(p)
    <3>1. Running(p) /\ cmd'[p] = cmd[p]
      BY <1>3, <1>5, <2>1 DEF Running
    <3>2. Conn(p) = c
      BY <1>5, <3>1 DEF Conn
    <3> QED
      BY <1>2, <1>5, <3>1, <3>2 DEF CleanInv
  <2>2. CASE Start(p)
    <3>1. PICK r \in Requests : /\ cmd' = [cmd EXCEPT ![p] = r]
                                /\ overlapped' = overlapped \cup
                                      UNION {Shared(r, u) : u \in {u \in Procs : Running(u)}}
      BY <2>2 DEF Start
    <3>2. r.conn = c
      BY <1>5, <3>1 DEF Conn, TypeOK
    <3>3. c \in Shared(r, q)
      BY <1>5, <3>2 DEF Shared
    <3>4. c \in overlapped'
      BY <1>5, <3>1, <3>3
    <3> QED
      BY <3>4 DEF Clean
  <2> QED
    BY <2>1, <2>2
<1>6. \A q, u \in Procs : (Running(q) /\ Running(u) /\ Conn(q) = c /\ Conn(u) = c)' => q = u
  BY <1>2, <1>3, <1>5 DEF CleanInv
<1>7. CASE Conn(p)' = c /\ Running(p)'
  <2>1. Clean(Conn(p))'
    BY <1>7 DEF Clean, NeverDeleted
  <2>2. DraftFits(p)' /\ profile' = profile
    BY <1>7, <2>1, DraftFitsKept
  <2>3. \A q \in Procs : (Running(q) /\ Conn(q) = c)' => DraftFits(q)'
    BY <1>6, <1>7, <2>2
  <2>4. \A g \in grants' : g \in grants
    BY <1>7, RowsTouched DEF Running
  <2>5. \A g \in grants' : g.conn = c => GrantFits(g, profile'[c])
    BY <1>2, <2>2, <2>4 DEF CleanInv
  <2> QED
    BY <1>6, <2>3, <2>5 DEF CleanInv
<1>8. CASE ~(Conn(p)' = c /\ Running(p)')
  <2>1. \A g \in grants' : g.conn = c => GrantFits(g, profile'[c])
    <3>1. CASE c # Conn(p)
      <4>1. profile'[c] = profile[c] /\ \A g \in grants' : g.conn = c => g \in grants
        BY <3>1, RowsTouched
      <4> QED
        BY <1>2, <4>1 DEF CleanInv
    <3>2. CASE c = Conn(p) /\ profile' = profile
      <4> SUFFICES ASSUME NEW g \in grants', g.conn = c, g \notin grants PROVE GrantFits(g, profile'[c])
        BY <1>2, <3>2 DEF CleanInv
      <4>1. /\ Exists(c) /\ g.version = profile[c].version /\ g.policy = profile[c].policy
        BY <3>2, RowsTouched
      <4>2. profile[c].version \in Nat
        BY <4>1 DEF Exists, TypeOK, ProfileType
      <4> QED
        BY <3>2, <4>1, <4>2 DEF GrantFits, Exists
    <3>3. CASE c = Conn(p) /\ profile' # profile
      <4>1. pc[p] \in {"stored", "write", "remove", "restore"} /\ Running(p)
        BY <3>3, RowsTouched DEF Running
      <4>2. cmd'[p] = cmd[p] /\ pc'[p] # "idle"
        BY <1>3, <4>1
      <4>3. Do(p) # "delete"
        BY <1>1, <3>3, <4>2 DEF Conn, Do
      <4>4. pc[p] \in {"stored", "write"}
        BY <4>1, <4>3 DEF AllPrepared, Prepared, DoAt
      <4>5. /\ Do(p) \in {"create", "update_connection", "set_policy", "set_enabled", "update_profile"}
            /\ profile'[c] = draft[p].profile
            /\ grants' \subseteq grants
        BY <3>3, <4>4, RowsTouched
      <4>6. DraftFits(p)
        BY <1>2, <3>3, <4>1 DEF CleanInv
      <4>7. draft[p].profile \in ProfileType /\ draft[p].profile # NoProfile
        <5>1. draft[p].profile \in ProfileType
          BY <4>4, <4>5 DEF AllPrepared, Prepared, HasDraft, DoAt
        <5>2. draft[p].profile.ref \in Refs
          BY <5>1 DEF ProfileType, UserRefs
        <5> QED
          BY <5>1, <5>2, ControlAssumption DEF NoProfile
      <4>8. CASE Do(p) = "create"
        <5>1. ~Exists(c)
          BY <3>3, <4>4, <4>6, <4>8 DEF DraftFits, AllPrepared, Prepared, DoAt
        <5>2. \A g \in grants : g.conn # c
          BY <1>2, <5>1 DEF CleanInv, GrantFits, Exists
        <5> QED
          BY <4>5, <5>2
      <4>9. CASE Do(p) # "create"
        <5>1. Exists(c) /\ Succeeds(draft[p].profile, profile[c])
          BY <3>3, <4>4, <4>5, <4>6, <4>9 DEF DraftFits, AllPrepared, Prepared, DoAt
        <5>2. profile[c] \in ProfileType
          BY <5>1 DEF Exists, TypeOK
        <5> SUFFICES ASSUME NEW g \in grants, g.conn = c PROVE GrantFits(g, draft[p].profile)
          BY <4>5
        <5>3. GrantFits(g, profile[c])
          BY <1>2 DEF CleanInv
        <5>4. g.version \in Nat /\ profile[c].version \in Nat /\ draft[p].profile.version \in Nat
          BY <4>7, <5>2 DEF TypeOK, ProfileType
        <5> QED
          BY <4>7, <5>1, <5>3, <5>4 DEF GrantFits, Succeeds
      <4> QED
        BY <4>8, <4>9
    <3> QED
      BY <3>1, <3>2, <3>3
  <2>2. ASSUME NEW q \in Procs, (Running(q) /\ Conn(q) = c)' PROVE DraftFits(q)'
    <3>1. q # p /\ Running(q) /\ Conn(q) = c /\ pc'[q] = pc[q] /\ cmd'[q] = cmd[q] /\ draft'[q] = draft[q]
      BY <1>3, <1>8, <2>2
    <3>2. DraftFits(q)
      BY <1>2, <3>1 DEF CleanInv
    <3>3. profile'[c] = profile[c]
      <4>1. CASE Conn(p) # c
        BY <4>1, RowsTouched
      <4>2. CASE Conn(p) = c
        <5>1. ~Running(p)
          BY <1>2, <3>1, <4>2 DEF CleanInv
        <5> QED
          BY <5>1, RowsTouched DEF Running
      <4> QED
        BY <4>1, <4>2
    <3> QED
      BY <3>1, <3>2, <3>3 DEF DraftFits, Exists, Conn, Do
  <2> QED
    BY <1>6, <2>1, <2>2 DEF CleanInv
<1> QED
  BY <1>7, <1>8

LEMMA InitPolicyInv == Init => PolicyInv
<1> SUFFICES ASSUME Init PROVE PolicyInv
  OBVIOUS
<1>1. grants = {} /\ \A p \in Procs : ~Running(p)
  BY DEF Init, Running
<1> QED
  BY <1>1 DEF PolicyInv, CleanInv

LEMMA NextPolicyInv == TypeOK /\ AllPrepared /\ PolicyInv /\ [Next]_vars => PolicyInv'
<1> SUFFICES ASSUME TypeOK, AllPrepared, PolicyInv, [Next]_vars PROVE PolicyInv'
  OBVIOUS
<1>1. CASE UNCHANGED vars
  <2>1. UNCHANGED <<profile, pc, cmd, draft, grants, overlapped>>
    BY <1>1 DEF vars, ctlVars
  <2> QED
    BY <2>1 DEF PolicyInv, CleanInv, Clean, NeverDeleted, DraftFits, Exists, Running, Conn, Do
<1>2. CASE Next
  BY <1>1, <1>2, StepPolicyInv DEF Next, Done
<1> QED
  BY <1>1, <1>2

\* A grant is never good for a policy other than the one it was issued under, for any
\* number of commands: ConfirmationService signs the policy version with the request, and
\* set_policy, set_enabled, update_profile and replace_connection store a new version with
\* every new policy, unless two commands used the connection at once or it was deleted.
THEOREM GrantPolicy == Spec => []GrantNamesItsPolicy
<1>1. Spec => [](TypeOK /\ AllPrepared /\ PolicyInv)
  BY InitPrepared, NextPrepared, InitPolicyInv, NextPolicyInv, PTL DEF Spec
<1>2. TypeOK /\ PolicyInv => GrantNamesItsPolicy
  <2> SUFFICES ASSUME TypeOK, PolicyInv, NEW g \in grants,
                      Exists(g.conn), g.conn \notin overlapped, NeverDeleted(g.conn),
                      profile[g.conn].version = g.version
               PROVE  profile[g.conn].policy = g.policy
    BY DEF GrantNamesItsPolicy
  <2>1. g.conn \in Conns
    BY DEF TypeOK
  <2>2. GrantFits(g, profile[g.conn])
    BY <2>1 DEF PolicyInv, CleanInv, Clean
  <2> QED
    BY <2>2 DEF GrantFits
<1> QED
  BY <1>1, <1>2, PTL
===========================================================================
