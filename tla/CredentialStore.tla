--------------------------- MODULE CredentialStore ---------------------------
(***************************************************************************)
(* The credential stores of connector-store/src/credential.rs, as several  *)
(* processes of one data directory use them.                               *)
(*   "sqlite"   SqliteCredentialStore: put, get and delete are one         *)
(*              statement each; every row is encrypted with the key of the *)
(*              process that wrote it, and a marker row, written when the  *)
(*              file is first opened, pins the key for all later opens;    *)
(*   "chunked"  OsCredentialStore on Windows: an entry is a header that    *)
(*              names a generation, and the chunks of that generation are  *)
(*              entries of their own.                                      *)
(* The macOS keychain behaves as "sqlite" without a key.  An operation     *)
(* runs on behalf of a process: StartCred begins it, CredStep takes its    *)
(* steps, and got[p] is what it returned.                                  *)
(***************************************************************************)
EXTENDS Integers, FiniteSets

CONSTANTS
    Procs,          \* processes: trusted commands and MCP servers
    Refs,           \* credential references
    Kinds,          \* AuthKind
    Values,         \* what a secret may contain
    FileKeys,       \* key files a process may be started with
    Nothing,        \* an absent secret, header or marker
    MaxGens,        \* bound: generations ever written
    MaxFaults       \* bound: store operations that fail

ASSUME CredentialAssumption ==
    /\ MaxGens \in Nat \ {0} /\ MaxFaults \in Nat
    /\ Nothing \notin [kind : Kinds, value : Values]
    /\ Nothing \notin FileKeys /\ Nothing \notin 1..MaxGens

VARIABLES
    backend,        \* the store this data directory uses
    header,         \* reference -> the generation that is current
    chunks,         \* generations whose chunks are stored, with what they hold
    marker,         \* the key the sqlite file is pinned to
    nextGen,        \* the next unused generation
    cred,           \* process -> the store operation it is in
    got,            \* process -> what its last operation returned
    faults          \* store operations that have failed

credVars == <<backend, header, chunks, marker, nextGen, cred, got, faults>>

Secrets == [kind : Kinds, value : Values]

Gens == 1..MaxGens

\* What a generation holds, and the key it is encrypted with.
Chunk == [gen : Gens, ref : Refs, secret : Secrets, key : FileKeys]

CredOps == {"none", "get", "put", "delete"}

NoCred == [op |-> "none", at |-> "begin", ref |-> Nothing, secret |-> Nothing,
           key |-> Nothing, gen |-> Nothing, prev |-> Nothing]

GotType == [is : {"ok", "error", "NotFound"}, secret : Secrets \cup {Nothing}]

CredType ==
    [op : CredOps, at : {"begin", "header", "clean", "chunks"}, ref : Refs \cup {Nothing},
     secret : Secrets \cup {Nothing}, key : FileKeys \cup {Nothing},
     gen : Gens \cup {Nothing}, prev : Gens \cup {Nothing}]

Found(r) == {c \in chunks : c.gen = header[r] /\ c.ref = r}

\* The secret a reader of reference r finds when nobody else steps.
StoredSecret(r) ==
    IF header[r] = Nothing \/ Found(r) = {} THEN Nothing
    ELSE (CHOOSE c \in Found(r) : TRUE).secret

FaultFree == faults' = faults

Fault == faults < MaxFaults /\ faults' = faults + 1

-----------------------------------------------------------------------------
(***************************************************************************)
(* verify_or_initialize_key, one IMMEDIATE transaction: check the marker,  *)
(* or decrypt every stored row and then insert the marker.                 *)
(***************************************************************************)
\* Mutant: a file without a marker is pinned without trying its rows.
KeyOpensPinsBlindly(key) == marker = key \/ marker = Nothing

KeyOpens(key) ==
    \/ marker = key
    \/ marker = Nothing /\ \A c \in chunks : c.key = key

VerifyOrInitializeKey(key) ==
    marker' = IF backend = "sqlite" /\ KeyOpens(key) THEN key ELSE marker

OpenFails(key) == backend = "sqlite" /\ ~KeyOpens(key)

-----------------------------------------------------------------------------
\* Process p begins a store operation, or ends one with result r.
StartCred(p, op, ref, secret, key) ==
    cred' = [cred EXCEPT ![p] = [NoCred EXCEPT !.op = op, !.ref = ref, !.secret = secret,
                                               !.key = key]]

Return(p, r) ==
    /\ cred' = [cred EXCEPT ![p] = NoCred]
    /\ got' = [got EXCEPT ![p] = r]

Says(what) == [is |-> what, secret |-> Nothing]

Goto(p, at, gen, prev) ==
    /\ cred' = [cred EXCEPT ![p].at = at, ![p].gen = gen, ![p].prev = prev]
    /\ UNCHANGED got

Without(gen) == {c \in chunks : c.gen # gen}

Written(p, gen) ==
    [gen |-> gen, ref |-> cred[p].ref, secret |-> cred[p].secret, key |-> cred[p].key]

(***************************************************************************)
(* put.  sqlite: one upsert.  chunked: remember the header found, write    *)
(* the chunks of a fresh generation, which nobody can see yet; point the   *)
(* header at them; delete the chunks of the header that was found.  A      *)
(* failure deletes the chunks written so far.                              *)
(***************************************************************************)
PutSqlite(p) ==
    /\ backend = "sqlite" /\ cred[p].op = "put"
    /\ \/ /\ nextGen <= MaxGens
          /\ chunks' = Without(header[cred[p].ref]) \cup {Written(p, nextGen)}
          /\ header' = [header EXCEPT ![cred[p].ref] = nextGen]
          /\ nextGen' = nextGen + 1
          /\ Return(p, Says("ok")) /\ FaultFree
       \/ Return(p, Says("error")) /\ Fault /\ UNCHANGED <<chunks, header, nextGen>>

PutChunks(p) ==
    /\ backend = "chunked" /\ cred[p].op = "put" /\ cred[p].at = "begin"
    /\ UNCHANGED header
    /\ \/ /\ nextGen <= MaxGens
          /\ chunks' = chunks \cup {Written(p, nextGen)}
          /\ nextGen' = nextGen + 1
          /\ Goto(p, "header", nextGen, header[cred[p].ref]) /\ FaultFree
       \/ Return(p, Says("error")) /\ Fault /\ UNCHANGED <<chunks, nextGen>>

\* Mutant: when the header cannot be written the chunks it still names are deleted.
PutHeaderCleansPrevious(p) ==
    /\ cred[p].op = "put" /\ cred[p].at = "header"
    /\ UNCHANGED nextGen
    /\ \/ /\ header' = [header EXCEPT ![cred[p].ref] = cred[p].gen]
          /\ Goto(p, "clean", cred[p].gen, cred[p].prev)
          /\ FaultFree /\ UNCHANGED chunks
       \/ /\ chunks' = Without(cred[p].prev)
          /\ Return(p, Says("error")) /\ Fault /\ UNCHANGED header

PutHeader(p) ==
    /\ cred[p].op = "put" /\ cred[p].at = "header"
    /\ UNCHANGED nextGen
    /\ \/ /\ header' = [header EXCEPT ![cred[p].ref] = cred[p].gen]
          /\ Goto(p, "clean", cred[p].gen, cred[p].prev)
          /\ FaultFree /\ UNCHANGED chunks
       \/ /\ chunks' = Without(cred[p].gen)
          /\ Return(p, Says("error")) /\ Fault /\ UNCHANGED header

PutClean(p) ==
    /\ cred[p].op = "put" /\ cred[p].at = "clean"
    /\ chunks' = Without(cred[p].prev)
    /\ Return(p, Says("ok"))
    /\ UNCHANGED <<header, nextGen, faults>>

(***************************************************************************)
(* get.  sqlite: one select, then decryption with the reader's key.        *)
(* chunked: read the header, then the chunks it named; a chunk that is     *)
(* gone by then is reported as NotFound.                                   *)
(***************************************************************************)
Decrypted(p, cs) ==
    IF cs = {} THEN Says("NotFound")
    ELSE LET c == CHOOSE c \in cs : TRUE
         IN IF backend = "sqlite" /\ c.key # cred[p].key THEN Says("error")
            ELSE [is |-> "ok", secret |-> c.secret]

GetHeader(p) ==
    /\ cred[p].op = "get" /\ cred[p].at = "begin"
    /\ \/ /\ header[cred[p].ref] = Nothing
          /\ Return(p, Says("NotFound")) /\ FaultFree
       \/ /\ header[cred[p].ref] # Nothing /\ FaultFree
          /\ IF backend = "sqlite"
             THEN Return(p, Decrypted(p, Found(cred[p].ref)))
             ELSE Goto(p, "chunks", header[cred[p].ref], Nothing)
       \/ Return(p, Says("error")) /\ Fault
    /\ UNCHANGED <<chunks, header, nextGen>>

GetChunks(p) ==
    /\ cred[p].op = "get" /\ cred[p].at = "chunks"
    /\ Return(p, Decrypted(p, {c \in chunks : c.gen = cred[p].gen}))
    /\ UNCHANGED <<chunks, header, nextGen, faults>>

(***************************************************************************)
(* delete.  chunked: read the header, delete the entry, then the chunks of *)
(* the header that was read.                                               *)
(***************************************************************************)
DeleteBegin(p) ==
    /\ cred[p].op = "delete" /\ cred[p].at = "begin"
    /\ \/ header[cred[p].ref] = Nothing /\ Return(p, Says("NotFound")) /\ FaultFree
          /\ UNCHANGED <<chunks, header>>
       \/ /\ header[cred[p].ref] # Nothing /\ backend = "sqlite"
          /\ chunks' = Without(header[cred[p].ref])
          /\ header' = [header EXCEPT ![cred[p].ref] = Nothing]
          /\ Return(p, Says("ok")) /\ FaultFree
       \/ /\ header[cred[p].ref] # Nothing /\ backend = "chunked"
          /\ Goto(p, "header", header[cred[p].ref], Nothing)
          /\ UNCHANGED <<chunks, header>> /\ FaultFree
       \/ Return(p, Says("error")) /\ Fault /\ UNCHANGED <<chunks, header>>
    /\ UNCHANGED nextGen

DeleteEntry(p) ==
    /\ cred[p].op = "delete" /\ cred[p].at = "header"
    /\ \/ /\ header[cred[p].ref] = Nothing
          /\ Return(p, Says("NotFound")) /\ UNCHANGED <<chunks, header>>
       \/ /\ header[cred[p].ref] # Nothing
          /\ header' = [header EXCEPT ![cred[p].ref] = Nothing]
          /\ chunks' = Without(cred[p].gen)
          /\ Return(p, Says("ok"))
    /\ UNCHANGED <<nextGen, faults>>

CredStep(p) ==
    /\ \/ PutSqlite(p) \/ PutChunks(p) \/ PutHeader(p) \/ PutClean(p)
       \/ GetHeader(p) \/ GetChunks(p) \/ DeleteBegin(p) \/ DeleteEntry(p)
    /\ UNCHANGED <<backend, marker>>
=============================================================================
