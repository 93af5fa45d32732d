----------------------- MODULE ControlSecretProofs ------------------------
(***************************************************************************)
(* What the credential store holds, for every number of commands,          *)
(* connections and references: who changes an entry, to what; that the key *)
(* grants are verified with is the key they were signed with; and that the *)
(* profile and the secret of a connection stay a pair, although no         *)
(* transaction spans the two stores.                                       *)
(***************************************************************************)
EXTENDS ControlPlaneProofs

(***************************************************************************)
(* The signing key.  Generations hold one thing each, and a pending one    *)
(* what its put was given.  While no two processes loaded the key at the   *)
(* same time there is one KeyUser, and the key is put only where there was *)
(* none.                                                                   *)
(***************************************************************************)
ChunksApart == \A c, d \in chunks : c.gen = d.gen => c = d

PendingHolds(p) ==
    Pending(p) => \A c \in chunks : c.gen = cred[p].gen => c.secret = cred[p].secret

ContentsInv == ChunksApart /\ \A p \in Procs : PendingHolds(p)

\* Only a KeyUser at its key stations touches the reference of the key, and a sqlite
\* operation is one statement.
KeyCalls(p) ==
    /\ backend = "sqlite" /\ cred[p].op # "none" => cred[p].at = "begin"
    /\ pc[p] = "key" => cred[p].op \in {"none", "get"}
    /\ pc[p] = "keystored" => cred[p].op \in {"none", "put"}
    /\ cred[p].op # "none" => (cred[p].ref = KeyRef <=> pc[p] \in {"key", "keystored"})
    /\ pc[p] = "keystored" /\ cred[p].op = "put" => cred[p].secret = draft[p].secret

StoredKey(k) == header[KeyRef] # Nothing /\ k = StoredSecret(KeyRef)

Loads(p) ==
    /\ pc[p] = "key" /\ cred[p].op = "get" /\ cred[p].at = "chunks" =>
          header[KeyRef] # Nothing /\ cred[p].gen = header[KeyRef]
    /\ pc[p] = "key" /\ cred[p].op = "none" =>
          /\ got[p].is = "NotFound" => header[KeyRef] = Nothing
          /\ got[p].is = "ok" => StoredKey(got[p].secret)
    /\ pc[p] = "keystored" /\ cred[p].op = "put" =>
          IF cred[p].at = "clean" THEN StoredKey(draft[p].secret) ELSE header[KeyRef] = Nothing
    /\ pc[p] = "keystored" /\ cred[p].op = "none" /\ got[p].is # "error" => StoredKey(draft[p].secret)
    /\ pc[p] = "read" /\ Do(p) = "authorize" => StoredKey(draft[p].secret)

KeyInv ==
    KeyRef \notin overlapped =>
        /\ \A p, q \in Procs : Running(p) /\ Running(q) /\ KeyUser(Do(p)) /\ KeyUser(Do(q)) => p = q
        /\ \A p \in Procs : Loads(p)
        /\ \A p \in Procs : verifier[p] # Nothing => StoredKey(verifier[p])
        /\ \A g \in grants : StoredKey(g.key)

AllKeyCalls == \A p \in Procs : KeyCalls(p)

\* The secret of a nonempty set of chunks.
SecretIn(cs) == (CHOOSE c \in cs : TRUE).secret

LEMMA StoredIsFound ==
  ASSUME NEW r
  PROVE  /\ StoredSecret(r) = IF header[r] = Nothing \/ Found(r) = {} THEN Nothing
                              ELSE SecretIn(Found(r))
         /\ StoredSecret(r)' = IF header'[r] = Nothing \/ Found(r)' = {} THEN Nothing
                               ELSE SecretIn(Found(r)')
  BY DEF StoredSecret, SecretIn

LEMMA SecretInOne == ASSUME NEW c PROVE SecretIn({c}) = c.secret
  BY DEF SecretIn

\* Who changes an entry, and to what.  A step inside the store moves no header but that of
\* its own reference, an entry whose header stays keeps its secret, and a put that moves
\* the header stores what it was given.
LEMMA StoreEffect ==
  ASSUME TypeOK, AllPrepared, StoreInv, ContentsInv, NEW p \in Procs, CredStep(p), UNCHANGED ctlVars,
         NEW ref, ref = cred[p].ref
  PROVE  /\ ContentsInv'
         /\ \A r \in Refs : r # ref => header'[r] = header[r]
         /\ \A r \in Refs : header'[r] = header[r] => StoredSecret(r)' = StoredSecret(r)
         /\ header'[ref] # header[ref] /\ cred[p].op = "put" =>
               header'[ref] # Nothing /\ StoredSecret(ref)' = cred[p].secret
         /\ header' # header => cred[p].op \in {"put", "delete"}
<1>1. cred[p].op # "none"
  BY DEF CredStep, PutSqlite, PutChunks, PutHeader, PutClean, GetHeader, GetChunks, DeleteBegin,
         DeleteEntry
<1>2. /\ ref \in Refs /\ header[ref] \in Gens \cup {Nothing} /\ header \in [Refs -> Gens \cup {Nothing}]
      /\ cred[p].op = "put" /\ cred[p].at \in {"header", "clean"} => cred[p].gen \in Gens
      /\ cred \in [Procs -> CredType] /\ cred[p] \in CredType /\ Nothing \notin Gens
  BY <1>1, CallAtHand, CredentialAssumption DEF TypeOK, Gens
<1>3. \A q \in Procs \ {p} : cred'[q] = cred[q] /\ Pending(q)' = Pending(q)
  BY CredStepKeeps DEF Others, Own, Pending
<1>4. /\ nextGen <= MaxGens => nextGen # Nothing /\ nextGen \in Gens
      /\ \A r \in Refs : header[r] \in Gens \cup {Nothing} /\ (nextGen <= MaxGens => header[r] # nextGen)
      /\ \A c \in chunks : c.gen \in Gens /\ c.gen # nextGen
      /\ \A q \in Procs : Pending(q) => /\ Busy(q) /\ cred[q].gen \in Gens
                                        /\ nextGen <= MaxGens => cred[q].gen # nextGen
  <2>1. nextGen \in Nat /\ MaxGens \in Nat /\ \A g \in Gens : g \in Nat
    BY CredentialAssumption DEF TypeOK, Gens
  <2>2. nextGen <= MaxGens => nextGen \in Gens
    BY <1>1, CallAtHand
  <2> QED
    BY <1>2, <2>1, <2>2, GensAreOld
<1>5. ASSUME NEW r, Return(p, r) PROVE ~Pending(p)'
  <2>1. cred'[p] = NoCred
    BY <1>2, <1>5 DEF Return
  <2> QED
    BY <2>1 DEF Pending, NoCred
<1>6. ASSUME NEW at \in {"header", "clean", "chunks"}, NEW gen \in Gens, NEW prev \in Gens \cup {Nothing},
             Goto(p, at, gen, prev)
      PROVE  /\ cred'[p].op = cred[p].op /\ cred'[p].at = at /\ cred'[p].gen = gen
             /\ cred'[p].secret = cred[p].secret
  BY <1>1, <1>6, GotoKeeps
<1>7. ChunksApart /\ \A q \in Procs : PendingHolds(q)
  BY DEF ContentsInv

\* An entry with the same header and the same chunks found there holds the same.
<1>8. ASSUME NEW r \in Refs, header'[r] = header[r], header[r] # Nothing => Found(r)' = Found(r)
      PROVE  StoredSecret(r)' = StoredSecret(r)
  <2>1. Found(r)' = Found(r) => SecretIn(Found(r)') = SecretIn(Found(r))
    OBVIOUS
  <2> QED
    BY <1>8, <2>1, StoredIsFound

\* Chunks that are dropped, and no header moved but to Nothing.
<1>9. ASSUME NEW g, chunks' = Without(g),
             \A r \in Refs : header'[r] # Nothing => header'[r] # g,
             ~Pending(p)'
      PROVE  /\ ContentsInv'
             /\ \A r \in Refs : header'[r] = header[r] => StoredSecret(r)' = StoredSecret(r)
  <2>1. chunks' \subseteq chunks /\ \A c \in chunks : c.gen # g => c \in chunks'
    BY <1>9 DEF Without
  <2>2. ContentsInv'
    BY <1>3, <1>7, <1>9, <2>1 DEF ContentsInv, ChunksApart, PendingHolds
  <2>3. ASSUME NEW r \in Refs, header'[r] = header[r], header[r] # Nothing PROVE Found(r)' = Found(r)
    <3>1. header[r] # g
      BY <1>9, <2>3
    <3> QED
      BY <1>9, <2>3, <3>1 DEF Found, Without
  <2> QED
    BY <1>8, <2>2, <2>3

\* Nothing stored is touched.
<1>10. ASSUME UNCHANGED <<header, chunks>>, ~Pending(p)'
       PROVE  /\ ContentsInv'
              /\ \A r \in Refs : header'[r] = header[r] => StoredSecret(r)' = StoredSecret(r)
  <2>1. ContentsInv'
    BY <1>3, <1>7, <1>10 DEF ContentsInv, ChunksApart, PendingHolds
  <2>2. \A r \in Refs : Found(r)' = Found(r)
    BY <1>10 DEF Found
  <2> QED
    BY <1>8, <1>10, <2>1, <2>2

\* A fresh generation is added.
<1>11. ASSUME nextGen <= MaxGens, NEW old, old \subseteq chunks, chunks' = old \cup {Written(p, nextGen)},
              cred[p].op = "put"
       PROVE  /\ ChunksApart'
              /\ \A q \in Procs \ {p} : PendingHolds(q)'
              /\ \A c \in chunks' : c.gen = nextGen => c = Written(p, nextGen)
              /\ Written(p, nextGen).gen = nextGen /\ Written(p, nextGen).secret = cred[p].secret
              /\ Written(p, nextGen).ref = ref
  <2>1. /\ Written(p, nextGen).gen = nextGen /\ Written(p, nextGen).secret = cred[p].secret
        /\ Written(p, nextGen).ref = ref
    BY DEF Written
  <2>2. \A c \in chunks' : c \in chunks \/ c = Written(p, nextGen)
    BY <1>11
  <2>3. ChunksApart'
    BY <1>4, <1>7, <2>1, <2>2 DEF ChunksApart
  <2>4. \A q \in Procs \ {p} : PendingHolds(q)'
    BY <1>3, <1>4, <1>7, <1>11, <2>1, <2>2 DEF PendingHolds
  <2> QED
    BY <1>4, <2>1, <2>2, <2>3, <2>4
<1>21. CASE PutSqlite(p)
  <2>0. cred[p].op = "put"
    BY <1>21 DEF PutSqlite
  <2>1. CASE nextGen <= MaxGens /\ chunks' = Without(header[ref]) \cup {Written(p, nextGen)}
             /\ header' = [header EXCEPT ![ref] = nextGen] /\ Return(p, Says("ok"))
    <3> DEFINE new == Written(p, nextGen)
    <3>1. header'[ref] = nextGen /\ \A r \in Refs \ {ref} : header'[r] = header[r]
      BY <1>2, <2>1
    <3>2. Without(header[ref]) \subseteq chunks /\ ~Pending(p)'
      BY <1>5, <2>1 DEF Without
    <3>3. /\ ChunksApart'
          /\ \A q \in Procs \ {p} : PendingHolds(q)'
          /\ \A c \in chunks' : c.gen = nextGen => c = new
          /\ new.gen = nextGen /\ new.secret = cred[p].secret /\ new.ref = ref
      BY <1>11, <2>0, <2>1, <3>2
    <3> HIDE DEF new
    <3>4. ContentsInv'
      BY <3>2, <3>3 DEF ContentsInv, PendingHolds
    <3>5. Found(ref)' = {new}
      BY <2>1, <3>1, <3>3 DEF Found, new
    <3>6. StoredSecret(ref)' = cred[p].secret
      <4>1. SecretIn({new}) = cred[p].secret
        BY <3>3, SecretInOne
      <4>2. header'[ref] # Nothing
        BY <1>4, <2>1, <3>1
      <4> QED
        BY <3>5, <4>1, <4>2, StoredIsFound
    <3>7. ASSUME NEW r \in Refs, header'[r] = header[r] PROVE StoredSecret(r)' = StoredSecret(r)
      <4>1. r # ref
        BY <1>4, <2>1, <3>1, <3>7
      <4>2. ASSUME header[r] # Nothing PROVE Found(r)' = Found(r)
        <5>1. header[r] # header[ref]
          BY <1>2, <4>1, <4>2 DEF StoreInv, HeadersApart
        <5>2. \A c \in chunks' : c = new \/ (c \in chunks /\ c.gen # header[ref])
          BY <2>1 DEF Without, new
        <5>3. \A c \in chunks : c.gen # header[ref] => c \in chunks'
          BY <2>1 DEF Without
        <5>4. \A c \in Found(r)' : c \in Found(r)
          BY <3>3, <3>7, <4>1, <5>2 DEF Found
        <5>5. \A c \in Found(r) : c \in Found(r)'
          BY <3>7, <5>1, <5>3 DEF Found
        <5> QED
          BY <5>4, <5>5
      <4> QED
        BY <1>8, <3>7, <4>2
    <3> QED
      BY <1>4, <2>0, <2>1, <3>1, <3>4, <3>6, <3>7
  <2>2. CASE Return(p, Says("error")) /\ UNCHANGED <<chunks, header, nextGen>>
    BY <1>5, <1>10, <2>0, <2>2
  <2> QED
    BY <1>21, <2>1, <2>2 DEF PutSqlite
<1>22. CASE PutChunks(p)
  <2>0. cred[p].op = "put" /\ UNCHANGED header
    BY <1>22 DEF PutChunks
  <2>1. CASE nextGen <= MaxGens /\ chunks' = chunks \cup {Written(p, nextGen)}
             /\ Goto(p, "header", nextGen, header[ref])
    <3> DEFINE new == Written(p, nextGen)
    <3>1. /\ cred'[p].gen = nextGen /\ cred'[p].secret = cred[p].secret
      BY <1>2, <1>4, <1>6, <2>1
    <3>2. /\ ChunksApart'
          /\ \A q \in Procs \ {p} : PendingHolds(q)'
          /\ \A c \in chunks' : c.gen = nextGen => c = new
          /\ new.gen = nextGen /\ new.secret = cred[p].secret /\ new.ref = ref
      BY <1>11, <2>0, <2>1
    <3> HIDE DEF new
    <3>3. ContentsInv'
      BY <3>1, <3>2 DEF ContentsInv, PendingHolds
    <3>4. ASSUME NEW r \in Refs PROVE Found(r)' = Found(r)
      <4>1. header[r] # nextGen /\ header'[r] = header[r]
        BY <1>4, <2>0, <2>1 DEF TypeOK
      <4> QED
        BY <2>1, <3>2, <4>1 DEF Found, new
    <3> QED
      BY <1>8, <2>0, <3>3, <3>4
  <2>2. CASE Return(p, Says("error")) /\ UNCHANGED chunks
    BY <1>5, <1>10, <2>0, <2>2
  <2> QED
    BY <1>22, <2>1, <2>2 DEF PutChunks
<1>23. CASE PutHeader(p)
  <2>0. cred[p].op = "put" /\ Pending(p) /\ cred[p].gen \in Gens
    BY <1>2, <1>23 DEF PutHeader, Pending
  <2>1. PendingHidden(p)
    BY DEF StoreInv
  <2>2. CASE header' = [header EXCEPT ![ref] = cred[p].gen]
             /\ Goto(p, "clean", cred[p].gen, cred[p].prev) /\ UNCHANGED chunks
    <3>1. header'[ref] = cred[p].gen /\ \A r \in Refs \ {ref} : header'[r] = header[r]
      BY <1>2, <2>2
    <3>2. ~Pending(p)'
      <4>1. cred'[p].at = "clean"
        BY <1>2, <1>6, <2>0, <2>2 DEF CredType
      <4> QED
        BY <4>1 DEF Pending
    <3>3. ContentsInv'
      BY <1>3, <1>7, <2>2, <3>2 DEF ContentsInv, ChunksApart, PendingHolds
    <3>4. StoredSecret(ref)' = cred[p].secret
      <4>1. PICK c0 \in chunks : c0.gen = cred[p].gen /\ c0.ref = ref
        BY <2>0, <2>1 DEF PendingHidden
      <4>2. c0.secret = cred[p].secret
        BY <1>7, <2>0, <4>1 DEF PendingHolds
      <4>3. Found(ref)' = {c0}
        BY <1>7, <2>2, <3>1, <4>1 DEF Found, ChunksApart
      <4>4. SecretIn({c0}) = c0.secret
        BY SecretInOne
      <4> QED
        BY <1>2, <2>0, <3>1, <4>2, <4>3, <4>4, StoredIsFound
    <3>5. ASSUME NEW r \in Refs, header'[r] = header[r] PROVE StoredSecret(r)' = StoredSecret(r)
      <4>1. Found(r)' = Found(r)
        BY <2>2, <3>5 DEF Found
      <4> QED
        BY <1>8, <3>5, <4>1
    <3> QED
      BY <1>2, <2>0, <2>2, <3>1, <3>3, <3>4, <3>5
  <2>3. CASE chunks' = Without(cred[p].gen) /\ Return(p, Says("error")) /\ UNCHANGED header
    <3>1. \A r \in Refs : header'[r] # Nothing => header'[r] # cred[p].gen
      BY <2>0, <2>1, <2>3 DEF PendingHidden
    <3>2. ~Pending(p)'
      BY <1>5, <2>3
    <3>3. /\ ContentsInv'
          /\ \A r \in Refs : header'[r] = header[r] => StoredSecret(r)' = StoredSecret(r)
      BY <1>9, <2>3, <3>1, <3>2
    <3> QED
      BY <2>3, <3>3
  <2> QED
    BY <1>23, <2>2, <2>3 DEF PutHeader
<1>24. CASE PutClean(p)
  <2>1. cred[p].op = "put" /\ cred[p].at = "clean" /\ chunks' = Without(cred[p].prev)
        /\ Return(p, Says("ok")) /\ UNCHANGED <<header, nextGen>>
    BY <1>24 DEF PutClean
  <2>2. ReplacesOwn(p) /\ Busy(p) /\ ~Pending(p)'
    BY <1>5, <2>1 DEF StoreInv, Busy
  <2>3. \A r \in Refs : header'[r] # Nothing => header'[r] # cred[p].prev
    BY <2>1, <2>2 DEF ReplacesOwn
  <2>4. /\ ContentsInv'
        /\ \A r \in Refs : header'[r] = header[r] => StoredSecret(r)' = StoredSecret(r)
    BY <1>9, <2>1, <2>2, <2>3
  <2> QED
    BY <2>1, <2>4
<1>25. CASE GetHeader(p) \/ GetChunks(p)
  <2>1. UNCHANGED <<header, chunks>> /\ cred[p].op = "get"
    BY <1>25 DEF GetHeader, GetChunks
  <2>2. ~Pending(p)'
    <3>1. cred'[p].op # "put"
      BY <1>2, <2>1, <1>25 DEF GetHeader, GetChunks, Return, Goto, NoCred, CredType
    <3> QED
      BY <3>1 DEF Pending
  <2>3. /\ ContentsInv'
        /\ \A r \in Refs : header'[r] = header[r] => StoredSecret(r)' = StoredSecret(r)
    BY <1>10, <2>1, <2>2
  <2> QED
    BY <2>1, <2>3
<1>26. CASE DeleteBegin(p) \/ DeleteEntry(p)
  <2>1. cred[p].op = "delete"
    BY <1>26 DEF DeleteBegin, DeleteEntry
  <2>2. ~Pending(p)'
    <3>1. cred'[p].op # "put"
      BY <1>2, <2>1, <1>26 DEF DeleteBegin, DeleteEntry, Return, Goto, NoCred, CredType
    <3> QED
      BY <3>1 DEF Pending
  <2>3. CASE UNCHANGED <<header, chunks>>
    BY <1>10, <2>1, <2>2, <2>3
  <2>4. CASE header[ref] # Nothing /\ chunks' = Without(header[ref])
             /\ header' = [header EXCEPT ![ref] = Nothing]
    <3>1. header'[ref] = Nothing /\ \A r \in Refs \ {ref} : header'[r] = header[r]
      BY <1>2, <2>4
    <3>2. \A r \in Refs : header'[r] # Nothing => header'[r] # header[ref]
      BY <1>2, <3>1 DEF StoreInv, HeadersApart
    <3>3. /\ ContentsInv'
          /\ \A r \in Refs : header'[r] = header[r] => StoredSecret(r)' = StoredSecret(r)
      BY <1>9, <2>2, <2>4, <3>2
    <3> QED
      BY <2>1, <3>1, <3>3
  <2>5. CASE DeleteEntry(p) /\ chunks' = Without(cred[p].gen)
             /\ header' = [header EXCEPT ![ref] = Nothing]
    <3>1. header'[ref] = Nothing /\ \A r \in Refs \ {ref} : header'[r] = header[r]
      BY <1>2, <2>5
    <3>2. ReplacesOwn(p) /\ Busy(p)
      BY <2>5 DEF DeleteEntry, StoreInv, Busy
    <3>3. \A r \in Refs : header'[r] # Nothing => header'[r] # cred[p].gen
      BY <2>1, <3>1, <3>2 DEF ReplacesOwn
    <3>4. /\ ContentsInv'
          /\ \A r \in Refs : header'[r] = header[r] => StoredSecret(r)' = StoredSecret(r)
      BY <1>9, <2>2, <2>5, <3>3
    <3> QED
      BY <2>1, <3>1, <3>4
  <2> QED
    BY <1>26, <2>3, <2>4, <2>5 DEF DeleteBegin, DeleteEntry
<1> QED
  BY <1>21, <1>22, <1>23, <1>24, <1>25, <1>26 DEF CredStep

\* Where a step of a store operation leaves the operation.
LEMMA CallKept ==
  ASSUME TypeOK, AllPrepared, NEW p \in Procs, CredStep(p), UNCHANGED ctlVars
  PROVE  /\ cred[p].op # "none" /\ UNCHANGED <<backend, pc, cmd, draft>>
         /\ \/ cred'[p] = NoCred
            \/ /\ cred'[p].op = cred[p].op /\ cred'[p].ref = cred[p].ref
               /\ cred'[p].secret = cred[p].secret
               /\ backend = "chunked" \/ cred[p].at # "begin"
<1>1. cred[p].op # "none" /\ UNCHANGED <<backend, pc, cmd, draft>>
  BY DEF CredStep, PutSqlite, PutChunks, PutHeader, PutClean, GetHeader, GetChunks, DeleteBegin,
         DeleteEntry, ctlVars
<1>2. cred[p] \in CredType /\ cred \in [Procs -> CredType] /\ backend \in {"sqlite", "chunked"}
  BY DEF TypeOK
<1>3. \A r : Return(p, r) => cred'[p] = NoCred
  BY <1>2 DEF Return
<1>4. \A at, gen, prev : Goto(p, at, gen, prev) =>
          /\ cred'[p].op = cred[p].op /\ cred'[p].ref = cred[p].ref
          /\ cred'[p].secret = cred[p].secret
  BY <1>2 DEF Goto, CredType
<1> QED
  BY <1>1, <1>2, <1>3, <1>4 DEF CredStep, PutSqlite, PutChunks, PutHeader, PutClean, GetHeader, GetChunks,
         DeleteBegin, DeleteEntry

\* The steps of a command that are not about the key: they touch references of
\* connections only, and no grant but the one they issue.
LEMMA PlainStep ==
  ASSUME TypeOK, AllPrepared, NEW p \in Procs, CommandStep(p) \/ Kill(p),
         ~Start(p), ~LoadKey(p), ~KeyStored(p)
  PROVE  /\ pc'[p] \notin {"read", "key", "keystored"} /\ verifier' = verifier
         /\ Issue(p) \/ grants' = grants
         /\ cred'[p].op = "none" \/ (cred'[p].ref \in UserRefs /\ cred'[p].at = "begin")
<1>1. /\ cred \in [Procs -> CredType] /\ pc \in [Procs -> Stations]
      /\ Prepared(p) /\ NoCred.op = "none"
  BY DEF TypeOK, AllPrepared, NoCred
<1>2. \A r : End(p, r) => pc'[p] = "ended"
  BY <1>1 DEF End
<1>3. \A s : To(p, s) => pc'[p] = s
  BY <1>1 DEF To
<1>4. ASSUME NEW op, NEW ref, NEW secret, NEW s, Via(p, op, ref, secret, s)
      PROVE  pc'[p] = s /\ cred'[p].ref = ref /\ cred'[p].at = "begin"
  <2>1. cred'[p] = [NoCred EXCEPT !.op = op, !.ref = ref, !.secret = secret, !.key = cmd[p].key]
    BY <1>1, <1>4 DEF Via, StartCred
  <2> QED
    BY <1>3, <1>4, <2>1 DEF Via, NoCred
<1>5. NoCredCall => cred'[p] = cred[p]
  BY DEF NoCredCall
<1>6. pc[p] # "idle" => /\ profile[Conn(p)] # NoProfile => profile[Conn(p)].ref \in UserRefs
                        /\ cmd[p].ref \in UserRefs
  <2>1. pc[p] # "idle" => cmd[p] \in Request /\ Conn(p) \in Conns
    BY RequestOf, ControlAssumption DEF AllPrepared, Prepared, DoAt
  <2> QED
    BY <2>1, RowOf DEF ProfileType, Request
<1>7. HasRow(p) => (pc[p] \in {"test", "reread", "save", "stored", "undone", "remove", "removed", "restore"}
          /\ Do(p) # "create" => existing[p].ref \in UserRefs)
  BY DEF HasRow, ProfileType
<1>8. HasRow(p) /\ DoAt(p)
  BY <1>1 DEF Prepared
<1>9. CASE Kill(p)
  <2>1. pc'[p] = "killed" /\ cred'[p] = NoCred /\ UNCHANGED <<grants, verifier>>
    BY <1>1, <1>9 DEF Kill
  <2> QED
    BY <1>1, <2>1
<1>10. CASE Read(p)
  <2>1. pc[p] # "idle" /\ cred[p].op = "none" /\ UNCHANGED <<grants, verifier>>
    BY <1>10 DEF Read, AtStation
  <2>2. CASE ReadCreate(p)
    BY <1>2, <1>4, <1>5, <1>6, <2>1, <2>2 DEF ReadCreate
  <2>3. CASE ReadRow(p)
    BY <1>2, <1>3, <1>4, <1>5, <1>6, <2>1, <2>3 DEF ReadRow, ReadSetPolicy, ReadSetEnabled,
       ReadUpdateProfile, ReadUpdateConnection, ReadRotate, ReadDelete, ReadTestSaved
  <2> QED
    BY <1>10, <2>2, <2>3 DEF Read
<1>11. CASE Test(p) \/ Undone(p) \/ Write(p) \/ Restore(p)
  BY <1>2, <1>3, <1>5, <1>11 DEF Test, Undone, Write, Restore, AtStation
<1>12. CASE Reread(p) \/ Save(p)
  <2>1. pc[p] # "idle" /\ cred[p].op = "none" /\ UNCHANGED <<grants, verifier>>
    BY <1>12 DEF Reread, Save, AtStation
  <2>2. CASE Reread(p)
    BY <1>2, <1>3, <1>4, <1>5, <1>6, <2>1, <2>2 DEF Reread, RereadRefuses
  <2>3. CASE Save(p)
    <3>1. existing[p].ref \in UserRefs
      BY <1>7, <1>8, <2>3 DEF Save, AtStation, DoAt
    <3> QED
      BY <1>2, <1>4, <1>5, <2>1, <2>3, <3>1 DEF Save
  <2> QED
    BY <1>12, <2>2, <2>3
<1>13. CASE SecretStored(p)
  <2>1. pc[p] = "stored" /\ cred[p].op = "none" /\ UNCHANGED <<grants, verifier>>
    BY <1>13 DEF SecretStored, AtStation
  <2>2. Do(p) # "create" => existing[p].ref \in UserRefs
    BY <1>7, <1>8, <2>1
  <2>3. Do(p) = "create" => previous[p] = Nothing
    BY <1>1, <2>1 DEF Prepared, HasSecret
  <2>4. Undo(p) => pc'[p] = "undone" /\ cred'[p].ref \in UserRefs /\ cred'[p].at = "begin"
    BY <1>4, <1>6, <2>1, <2>2, <2>3 DEF Undo
  <2> QED
    BY <1>2, <1>5, <1>13, <2>1, <2>4 DEF SecretStored
<1>14. CASE Remove(p) \/ Removed(p)
  <2>1. pc[p] \in {"remove", "removed"} /\ cred[p].op = "none" /\ UNCHANGED <<grants, verifier>>
    BY <1>14 DEF Remove, Removed, AtStation
  <2>2. existing[p].ref \in UserRefs
    BY <1>7, <1>8, <2>1 DEF DoAt
  <2> QED
    BY <1>2, <1>4, <1>5, <1>14, <2>1, <2>2 DEF Remove, Removed
<1>15. CASE Issue(p)
  BY <1>2, <1>5, <1>15 DEF Issue, AtStation
<1> QED
  BY <1>9, <1>10, <1>11, <1>12, <1>13, <1>14, <1>15 DEF CommandStep

\* The two steps that load the key, and the start of a command.
LEMMA KeyStep ==
  ASSUME TypeOK, AllPrepared, NEW p \in Procs
  PROVE  /\ Start(p) =>
               /\ UNCHANGED <<verifier, grants, draft>>
               /\ \/ pc'[p] \in {"ended", "read"} /\ cred'[p].op = "none" /\ ~KeyUser(Do(p)')
                  \/ pc'[p] = "ended" /\ cred'[p].op = "none"
                  \/ pc'[p] = "key" /\ cred'[p].op = "get" /\ cred'[p].ref = KeyRef
                     /\ cred'[p].at = "begin"
         /\ LoadKey(p) =>
               /\ pc[p] = "key" /\ cred[p].op = "none" /\ UNCHANGED <<cmd, grants>>
               /\ \/ pc'[p] = "ended" /\ cred'[p].op = "none" /\ UNCHANGED verifier
                  \/ /\ got[p].is = "NotFound" /\ pc'[p] = "keystored" /\ UNCHANGED verifier
                     /\ cred'[p].op = "put" /\ cred'[p].ref = KeyRef /\ cred'[p].at = "begin"
                     /\ cred'[p].secret = draft'[p].secret
                  \/ got[p].is = "ok" /\ UseKey(p, got[p].secret) /\ cred'[p].op = "none"
         /\ KeyStored(p) =>
               /\ pc[p] = "keystored" /\ cred[p].op = "none" /\ UNCHANGED <<cmd, grants>>
               /\ cred'[p].op = "none"
               /\ \/ pc'[p] = "ended" /\ UNCHANGED verifier
                  \/ got[p].is # "error" /\ UseKey(p, draft[p].secret)
         /\ \A k \in Secrets \cup {Nothing} : UseKey(p, k) =>
               \/ pc'[p] = "ended" /\ verifier' = [verifier EXCEPT ![p] = k]
               \/ pc'[p] = "read" /\ draft'[p].secret = k /\ verifier' = verifier
<1>1. /\ cred \in [Procs -> CredType] /\ pc \in [Procs -> Stations] /\ cmd \in [Procs -> Request \cup {NoRequest}]
      /\ draft \in [Procs -> DraftType] /\ got[p].is \in {"ok", "error", "NotFound"}
      /\ NoCred.op = "none" /\ cred[p] \in CredType
  BY DEF TypeOK, NoCred, GotType, DraftType
<1>2. \A r : End(p, r) => pc'[p] = "ended"
  BY <1>1 DEF End
<1>3. \A s : To(p, s) => pc'[p] = s
  BY <1>1 DEF To
<1>4. ASSUME NEW op, NEW ref, NEW secret, NEW key, StartCred(p, op, ref, secret, key)
      PROVE  cred'[p].op = op /\ cred'[p].ref = ref /\ cred'[p].at = "begin" /\ cred'[p].secret = secret
  <2>1. cred'[p] = [NoCred EXCEPT !.op = op, !.ref = ref, !.secret = secret, !.key = key]
    BY <1>1, <1>4 DEF StartCred
  <2> QED
    BY <2>1 DEF NoCred
<1>5. NoCredCall => cred'[p] = cred[p]
  BY DEF NoCredCall
<1>6. ASSUME NEW k, draft' = [draft EXCEPT ![p].secret = k] PROVE draft'[p].secret = k
  BY <1>1, <1>6 DEF DraftType
<1>7. ASSUME Start(p)
      PROVE  /\ UNCHANGED <<verifier, grants, draft>>
             /\ \/ pc'[p] \in {"ended", "read"} /\ cred'[p].op = "none" /\ ~KeyUser(Do(p)')
                \/ pc'[p] = "ended" /\ cred'[p].op = "none"
                \/ pc'[p] = "key" /\ cred'[p].op = "get" /\ cred'[p].ref = KeyRef
                   /\ cred'[p].at = "begin"
  <2>1. cred[p].op = "none" /\ UNCHANGED <<verifier, grants, draft>>
    BY <1>7 DEF Start, AllPrepared, Prepared, CredKnown, Running
  <2>2. PICK r \in Requests :
           /\ cmd' = [cmd EXCEPT ![p] = r]
           /\ IF OpenFails(r.key) THEN End(p, "credential_store_error") /\ NoCredCall
              ELSE IF KeyUser(r.do)
              THEN StartCred(p, "get", KeyRef, Nothing, r.key) /\ To(p, "key")
              ELSE To(p, "read") /\ NoCredCall
    BY <1>7 DEF Start
  <2>3. Do(p)' = r.do
    BY <1>1, <2>2 DEF Do
  <2> QED
    BY <1>2, <1>3, <1>4, <1>5, <2>1, <2>2, <2>3
<1>8. ASSUME LoadKey(p)
      PROVE  /\ pc[p] = "key" /\ cred[p].op = "none" /\ UNCHANGED <<cmd, grants>>
             /\ \/ pc'[p] = "ended" /\ cred'[p].op = "none" /\ UNCHANGED verifier
                \/ /\ got[p].is = "NotFound" /\ pc'[p] = "keystored" /\ UNCHANGED verifier
                   /\ cred'[p].op = "put" /\ cred'[p].ref = KeyRef /\ cred'[p].at = "begin"
                   /\ cred'[p].secret = draft'[p].secret
                \/ got[p].is = "ok" /\ UseKey(p, got[p].secret) /\ cred'[p].op = "none"
  <2>1. pc[p] = "key" /\ cred[p].op = "none" /\ UNCHANGED <<cmd, grants>>
    BY <1>8 DEF LoadKey, AtStation
  <2>2. CASE KeyMissing(p) /\ UNCHANGED verifier /\ \E k \in FreshKeys :
                /\ draft' = [draft EXCEPT ![p].secret = k]
                /\ Via(p, "put", KeyRef, k, "keystored")
    BY <1>3, <1>4, <1>6, <2>1, <2>2 DEF KeyMissing, Via
  <2> QED
    BY <1>1, <1>2, <1>5, <1>8, <2>1, <2>2 DEF LoadKey, KeyMissing
<1>9. ASSUME KeyStored(p)
      PROVE  /\ pc[p] = "keystored" /\ cred[p].op = "none" /\ UNCHANGED <<cmd, grants>>
             /\ cred'[p].op = "none"
             /\ \/ pc'[p] = "ended" /\ UNCHANGED verifier
                \/ got[p].is # "error" /\ UseKey(p, draft[p].secret)
  BY <1>2, <1>5, <1>9 DEF KeyStored, AtStation
<1>10. ASSUME NEW k \in Secrets \cup {Nothing}, UseKey(p, k)
       PROVE  \/ pc'[p] = "ended" /\ verifier' = [verifier EXCEPT ![p] = k]
              \/ pc'[p] = "read" /\ draft'[p].secret = k /\ verifier' = verifier
  BY <1>2, <1>3, <1>6, <1>10 DEF UseKey
<1> QED
  BY <1>7, <1>8, <1>9, <1>10

LEMMA StepKeyCalls ==
  ASSUME TypeOK, AllPrepared, AllKeyCalls, NEW p \in Procs,
         CommandStep(p) \/ Kill(p) \/ (CredStep(p) /\ UNCHANGED ctlVars)
  PROVE  AllKeyCalls'
<1>1. \A q \in Procs : KeyCalls(q) /\ draft[q].secret \in Secrets \cup {Nothing}
  BY DEF AllKeyCalls, TypeOK
<1>2. UNCHANGED backend
  BY CommandLeavesStore, CallKept
<1>3. ASSUME NEW q \in Procs \ {p} PROVE KeyCalls(q)'
  <2>1. /\ pc'[q] = pc[q] /\ cred'[q] = cred[q] /\ draft'[q] = draft[q]
    BY StepPrepared DEF Others, Own
  <2> QED
    BY <1>1, <1>2, <2>1 DEF KeyCalls
<1>4. KeyRef \notin UserRefs
  BY DEF UserRefs
<1>5. KeyCalls(p)'
  <2>1. CASE CredStep(p) /\ UNCHANGED ctlVars
    BY <1>1, <2>1, CallKept DEF KeyCalls, NoCred
  <2>2. CASE Start(p)
    BY <2>2, KeyStep DEF KeyCalls
  <2>3. CASE LoadKey(p) \/ KeyStored(p)
    <3>1. got[p].secret \in Secrets \cup {Nothing}
      BY DEF TypeOK, GotType
    <3> QED
      BY <1>1, <2>3, <3>1, KeyStep DEF KeyCalls
  <2>4. CASE (CommandStep(p) \/ Kill(p)) /\ ~Start(p) /\ ~LoadKey(p) /\ ~KeyStored(p)
    BY <1>4, <2>4, PlainStep DEF KeyCalls
  <2> QED
    BY <2>1, <2>2, <2>3, <2>4
<1> QED
  BY <1>3, <1>5 DEF AllKeyCalls

\* A store operation that ends, or goes on.
LEMMA CallEnds ==
  ASSUME TypeOK, NEW p \in Procs, NEW r, Return(p, r)
  PROVE  cred'[p].op = "none" /\ got'[p] = r
  BY DEF Return, NoCred, TypeOK

LEMMA CallGoesOn ==
  ASSUME TypeOK, NEW p \in Procs, NEW at, NEW gen, NEW prev, Goto(p, at, gen, prev)
  PROVE  cred'[p].op = cred[p].op /\ cred'[p].at = at /\ cred'[p].gen = gen
<1>1. cred \in [Procs -> CredType] /\ cred[p] \in CredType
  BY DEF TypeOK
<1>2. cred'[p] = [cred[p] EXCEPT !.at = at, !.gen = gen, !.prev = prev]
  BY <1>1 DEF Goto
<1> QED
  BY <1>1, <1>2 DEF CredType

\* How a step of a put ends, and whether it moved the header.
LEMMA PutOutcome ==
  ASSUME TypeOK, AllPrepared, StoreInv, NEW p \in Procs, KeyCalls(p), CredStep(p), cred[p].op = "put",
         NEW ref, ref = cred[p].ref
  PROVE  \/ /\ header'[ref] = header[ref] /\ cred[p].at # "clean"
            /\ cred'[p].op = "none" /\ got'[p].is = "error" /\ faults' = faults + 1
         \/ /\ header'[ref] = header[ref] /\ cred[p].at # "clean"
            /\ cred'[p].op = "put" /\ cred'[p].at # "clean"
         \/ /\ header'[ref] = header[ref] /\ cred[p].at = "clean"
            /\ cred'[p].op = "none" /\ got'[p].is = "ok"
         \/ /\ header'[ref] # header[ref] /\ cred[p].at # "clean"
            /\ \/ cred'[p].op = "none" /\ got'[p].is = "ok"
               \/ cred'[p].op = "put" /\ cred'[p].at = "clean"
<1>1. /\ cred[p] \in CredType /\ cred \in [Procs -> CredType] /\ got \in [Procs -> GotType]
      /\ header \in [Refs -> Gens \cup {Nothing}] /\ ref \in Refs
      /\ nextGen \in Nat /\ MaxGens \in Nat
  BY CallAtHand, CredentialAssumption DEF TypeOK
<1>2. /\ \A r : Return(p, r) => cred'[p].op = "none" /\ got'[p] = r
      /\ \A at, gen, prev : Goto(p, at, gen, prev) => cred'[p].op = cred[p].op /\ cred'[p].at = at
  BY CallEnds, CallGoesOn
<1>3. \A what : Says(what).is = what
  BY DEF Says
<1>4. CASE PutSqlite(p)
  <2>1. cred[p].at = "begin"
    BY <1>4 DEF KeyCalls, PutSqlite
  <2>2. CASE nextGen <= MaxGens /\ header' = [header EXCEPT ![ref] = nextGen] /\ Return(p, Says("ok"))
    <3>1. header'[ref] = nextGen /\ header[ref] # nextGen
      BY <1>1, <2>2, GensAreOld
    <3> QED
      BY <1>2, <1>3, <2>1, <2>2, <3>1
  <2>3. CASE Return(p, Says("error")) /\ Fault /\ UNCHANGED header
    BY <1>2, <1>3, <2>1, <2>3 DEF Fault
  <2> QED
    BY <1>4, <2>2, <2>3 DEF PutSqlite
<1>5. CASE PutChunks(p)
  BY <1>2, <1>3, <1>5 DEF PutChunks, Fault
<1>6. CASE PutHeader(p)
  <2>1. PendingHidden(p) /\ Pending(p)
    BY <1>6 DEF StoreInv, PutHeader, Pending
  <2>2. header[ref] # cred[p].gen
    BY <1>1, <2>1 DEF PendingHidden
  <2>3. CASE header' = [header EXCEPT ![ref] = cred[p].gen] /\ Goto(p, "clean", cred[p].gen, cred[p].prev)
    BY <1>1, <1>2, <2>1, <2>2, <2>3 DEF Pending
  <2>4. CASE Return(p, Says("error")) /\ Fault /\ UNCHANGED header
    BY <1>2, <1>3, <2>1, <2>4 DEF Fault, Pending
  <2> QED
    BY <1>6, <2>3, <2>4 DEF PutHeader
<1>7. CASE PutClean(p)
  BY <1>2, <1>3, <1>7 DEF PutClean
<1> QED
  BY <1>4, <1>5, <1>6, <1>7 DEF CredStep, GetHeader, GetChunks, DeleteBegin, DeleteEntry

\* What a get finds while an entry is there is the entry's secret.
LEMMA ReadsStored ==
  ASSUME StoreInv, ContentsInv, NEW r \in Refs, header[r] # Nothing, NEW p
  PROVE  /\ {c \in chunks : c.gen = header[r]} = Found(r)
         /\ Decrypted(p, Found(r)).is \in {"ok", "error"}
         /\ Decrypted(p, Found(r)).is = "ok" => Decrypted(p, Found(r)).secret = StoredSecret(r)
<1>1. Found(r) # {}
  BY DEF StoreInv, HeaderHasChunks
<1>2. PICK d \in Found(r) : TRUE
  BY <1>1
<1>3. \A c \in chunks : c.gen = header[r] => c = d
  BY <1>2 DEF Found, ContentsInv, ChunksApart
<1>4. {c \in chunks : c.gen = header[r]} = Found(r)
  BY <1>2, <1>3 DEF Found
<1>5. StoredSecret(r) = SecretIn(Found(r))
  BY <1>1, StoredIsFound
<1> DEFINE e == CHOOSE c \in Found(r) : TRUE
<1>6. e.secret = SecretIn(Found(r))
  BY DEF SecretIn
<1>7. Decrypted(p, Found(r)) = IF backend = "sqlite" /\ e.key # cred[p].key THEN Says("error")
                               ELSE [is |-> "ok", secret |-> e.secret]
  BY <1>1 DEF Decrypted
<1> HIDE DEF e
<1> QED
  BY <1>4, <1>5, <1>6, <1>7 DEF Says

LEMMA CredStepKeyInv ==
  ASSUME TypeOK, AllPrepared, StoreInv, ContentsInv, AllKeyCalls, KeyInv, NEW p \in Procs,
         CredStep(p), UNCHANGED ctlVars
  PROVE  KeyInv'
<1>0. SUFFICES ASSUME KeyRef \notin overlapped'
      PROVE  /\ \A u, q \in Procs : Running(u)' /\ Running(q)' /\ KeyUser(Do(u))' /\ KeyUser(Do(q))' => u = q
             /\ \A q \in Procs : Loads(q)'
             /\ \A q \in Procs : verifier'[q] # Nothing => StoredKey(verifier[q])'
             /\ \A g \in grants' : StoredKey(g.key)'
  BY DEF KeyInv
<1>1. /\ UNCHANGED <<pc, cmd, draft, verifier, grants, overlapped>> /\ KeyRef \in Refs
      /\ cred[p].op # "none"
  BY CallKept, ControlAssumption DEF ctlVars
<1>2. /\ \A u, q \in Procs : Running(u) /\ Running(q) /\ KeyUser(Do(u)) /\ KeyUser(Do(q)) => u = q
      /\ \A q \in Procs : Loads(q)
      /\ \A q \in Procs : verifier[q] # Nothing => StoredKey(verifier[q])
      /\ \A g \in grants : StoredKey(g.key)
  BY <1>0, <1>1 DEF KeyInv
<1>3. \A u, q \in Procs : Running(u)' /\ Running(q)' /\ KeyUser(Do(u))' /\ KeyUser(Do(q))' => u = q
  BY <1>1, <1>2 DEF Running, Do, KeyUser
<1>4. PICK ref : ref = cred[p].ref
  OBVIOUS
<1>5. /\ \A r \in Refs : r # ref => header'[r] = header[r]
      /\ \A r \in Refs : header'[r] = header[r] => StoredSecret(r)' = StoredSecret(r)
      /\ header'[ref] # header[ref] /\ cred[p].op = "put" =>
            header'[ref] # Nothing /\ StoredSecret(ref)' = cred[p].secret
      /\ header' # header => cred[p].op \in {"put", "delete"}
  BY <1>4, StoreEffect
<1>6. KeyCalls(p) /\ DoAt(p) /\ Loads(p)
  BY <1>2 DEF AllKeyCalls, AllPrepared, Prepared
<1>7. \A q \in Procs \ {p} : cred'[q] = cred[q] /\ got'[q] = got[q]
  BY CredStepKeeps DEF Others, Own
<1>8. /\ cred[p] \in CredType /\ cred \in [Procs -> CredType] /\ got \in [Procs -> GotType]
      /\ header \in [Refs -> Gens \cup {Nothing}]
  BY DEF TypeOK
<1>9. /\ \A r : Return(p, r) => cred'[p].op = "none" /\ got'[p] = r
      /\ \A at, gen, prev : Goto(p, at, gen, prev) =>
            /\ cred'[p].op = cred[p].op /\ cred'[p].at = at /\ cred'[p].gen = gen
  BY CallEnds, CallGoesOn
<1>10. \A what : Says(what).is = what
  BY DEF Says

\* The key is put where there was none.
<1>11. CASE header'[KeyRef] # header[KeyRef]
  <2>1. ref = KeyRef /\ pc[p] = "keystored" /\ cred[p].op = "put"
    BY <1>1, <1>4, <1>5, <1>6, <1>11 DEF KeyCalls
  <2>2. /\ cred[p].at # "clean"
        /\ cred'[p].op = "none" \/ (cred'[p].op = "put" /\ cred'[p].at = "clean")
    BY <1>4, <1>6, <1>11, <2>1, PutOutcome
  <2>3. QED
    <3>1. header[KeyRef] = Nothing
      BY <1>6, <2>1, <2>2 DEF Loads
    <3>2. /\ \A q \in Procs : verifier[q] = Nothing
          /\ grants = {}
      BY <1>2, <3>1 DEF StoredKey
    <3>3. header'[KeyRef] # Nothing /\ StoredSecret(KeyRef)' = draft[p].secret
      BY <1>5, <1>6, <1>11, <2>1 DEF KeyCalls
    <3>4. StoredKey(draft[p].secret)'
      BY <1>1, <3>3 DEF StoredKey
    <3>5. ASSUME NEW q \in Procs PROVE Loads(q)'
      <4>1. CASE q = p
        BY <1>1, <2>1, <2>2, <3>4, <4>1 DEF Loads, Do
      <4>2. CASE q # p
        <5>1. Running(p) /\ KeyUser(Do(p))
          BY <1>6, <2>1 DEF DoAt, Running
        <5>2. DoAt(q)
          BY DEF AllPrepared, Prepared
        <5>3. pc[q] \notin {"key", "keystored"} /\ ~(pc[q] = "read" /\ Do(q) = "authorize")
          BY <1>2, <4>2, <5>1, <5>2 DEF DoAt, Running, KeyUser
        <5> QED
          BY <1>1, <5>3 DEF Loads, Do
      <4> QED
        BY <4>1, <4>2
    <3> QED
      BY <1>1, <1>3, <3>2, <3>5

\* The key stays.
<1>12. CASE header'[KeyRef] = header[KeyRef]
  <2>1. StoredSecret(KeyRef)' = StoredSecret(KeyRef)
    BY <1>1, <1>5, <1>12
  <2>2. \A k : StoredKey(k)' <=> StoredKey(k)
    BY <1>12, <2>1 DEF StoredKey
  <2>3. ASSUME NEW q \in Procs \ {p} PROVE Loads(q)'
    BY <1>1, <1>2, <1>7, <1>12, <2>2 DEF Loads, Do
  <2>4. Loads(p)'
    <3>1. CASE pc[p] = "key"
      <4>1. cred[p].op = "get" /\ ref = KeyRef
        BY <1>1, <1>4, <1>6, <3>1 DEF KeyCalls
      <4>2. GetHeader(p) \/ GetChunks(p)
        BY <4>1 DEF CredStep, PutSqlite, PutChunks, PutHeader, PutClean, DeleteBegin, DeleteEntry
      <4> DEFINE found == Decrypted(p, Found(KeyRef))
      <4>3. header[KeyRef] # Nothing =>
                /\ {c \in chunks : c.gen = header[KeyRef]} = Found(KeyRef)
                /\ found.is \in {"ok", "error"}
                /\ found.is = "ok" => found.secret = StoredSecret(KeyRef)
        BY <1>1, ReadsStored
      <4> HIDE DEF found
      <4>4. \/ cred'[p].op = "none" /\ got'[p].is = "NotFound" /\ header[KeyRef] = Nothing
            \/ cred'[p].op = "none" /\ got'[p].is = "error"
            \/ cred'[p].op = "none" /\ got'[p] = found /\ header[KeyRef] # Nothing
            \/ cred'[p].op = "get" /\ cred'[p].gen = header[KeyRef] /\ header[KeyRef] # Nothing
        <5>1. CASE GetHeader(p)
          BY <1>4, <1>9, <1>10, <4>1, <5>1 DEF GetHeader, found
        <5>2. CASE GetChunks(p)
          <6>1. cred[p].gen = header[KeyRef] /\ header[KeyRef] # Nothing
            BY <1>6, <3>1, <4>1, <5>2 DEF Loads, GetChunks
          <6>2. Return(p, found)
            BY <4>3, <5>2, <6>1 DEF GetChunks, found
          <6> QED
            BY <1>9, <6>1, <6>2
        <5> QED
          BY <4>2, <5>1, <5>2
      <4>5. found.is = "ok" /\ header[KeyRef] # Nothing => \A k : k = found.secret => StoredKey(k)'
        BY <1>12, <2>1, <4>3 DEF StoredKey
      <4> QED
        BY <1>1, <1>12, <3>1, <4>3, <4>4, <4>5 DEF Loads, StoredKey
    <3>2. CASE pc[p] = "keystored"
      <4>1. cred[p].op = "put" /\ ref = KeyRef
        BY <1>1, <1>4, <1>6, <3>2 DEF KeyCalls
      <4>2. \/ cred'[p].op = "none" /\ got'[p].is = "error"
            \/ cred[p].at # "clean" /\ cred'[p].op = "put" /\ cred'[p].at # "clean"
            \/ cred[p].at = "clean" /\ cred'[p].op = "none"
        BY <1>4, <1>6, <1>12, <4>1, PutOutcome
      <4> QED
        BY <1>1, <1>6, <1>12, <2>2, <3>2, <4>1, <4>2 DEF Loads
    <3>3. CASE pc[p] \notin {"key", "keystored"}
      BY <1>1, <1>6, <2>2, <3>3 DEF Loads, Do
    <3> QED
      BY <3>1, <3>2, <3>3
  <2> QED
    BY <1>1, <1>2, <1>3, <2>2, <2>3, <2>4
<1> QED
  BY <1>11, <1>12

\* A KeyUser that starts while no two overlapped is the only one.
LEMMA KeyUserAlone ==
  ASSUME TypeOK, AllPrepared, NEW p \in Procs,
         CommandStep(p) \/ Kill(p) \/ (CredStep(p) /\ UNCHANGED ctlVars),
         KeyRef \notin overlapped',
         \A u, q \in Procs : Running(u) /\ Running(q) /\ KeyUser(Do(u)) /\ KeyUser(Do(q)) => u = q
  PROVE  \A u, q \in Procs : Running(u)' /\ Running(q)' /\ KeyUser(Do(u))' /\ KeyUser(Do(q))' => u = q
<1>1. /\ \A q \in Procs : pc[q] # "idle" => pc'[q] # "idle" /\ cmd'[q] = cmd[q]
      /\ ~Start(p) => overlapped' = overlapped /\ (Running(p)' => Running(p))
      /\ \A q \in Procs \ {p} : cmd'[q] = cmd[q] /\ Running(q)' = Running(q)
  BY StepShape
<1>2. \A q \in Procs \ {p} : KeyUser(Do(q))' = KeyUser(Do(q))
  BY <1>1 DEF KeyUser, Do
<1>3. ASSUME Running(p)', KeyUser(Do(p))', NEW q \in Procs \ {p}, Running(q), KeyUser(Do(q)) PROVE FALSE
  <2>1. CASE ~Start(p)
    <3>1. Running(p) /\ cmd'[p] = cmd[p]
      BY <1>1, <1>3, <2>1 DEF Running
    <3>2. KeyUser(Do(p))
      BY <1>3, <3>1 DEF KeyUser, Do
    <3> QED
      BY <1>3, <3>1, <3>2
  <2>2. CASE Start(p)
    <3>1. PICK r \in Requests : /\ cmd' = [cmd EXCEPT ![p] = r]
                                /\ overlapped' = overlapped \cup
                                      UNION {Shared(r, u) : u \in {u \in Procs : Running(u)}}
      BY <2>2 DEF Start
    <3>2. KeyUser(r.do)
      BY <1>3, <3>1 DEF Do, TypeOK, KeyUser
    <3>3. KeyRef \in Shared(r, q)
      BY <1>3, <3>2 DEF Shared
    <3> QED
      BY <1>3, <3>1, <3>3
  <2> QED
    BY <2>1, <2>2
<1> QED
  BY <1>1, <1>2, <1>3

LEMMA CommandKeyInv ==
  ASSUME TypeOK, AllPrepared, KeyInv, NEW p \in Procs, CommandStep(p) \/ Kill(p)
  PROVE  KeyInv'
<1>0. SUFFICES ASSUME KeyRef \notin overlapped'
      PROVE  /\ \A u, q \in Procs : Running(u)' /\ Running(q)' /\ KeyUser(Do(u))' /\ KeyUser(Do(q))' => u = q
             /\ \A q \in Procs : Loads(q)'
             /\ \A q \in Procs : verifier'[q] # Nothing => StoredKey(verifier[q])'
             /\ \A g \in grants' : StoredKey(g.key)'
  BY DEF KeyInv
<1>1. KeyRef \notin overlapped
  BY <1>0, StepShape
<1>2. /\ \A u, q \in Procs : Running(u) /\ Running(q) /\ KeyUser(Do(u)) /\ KeyUser(Do(q)) => u = q
      /\ \A q \in Procs : Loads(q)
      /\ \A q \in Procs : verifier[q] # Nothing => StoredKey(verifier[q])
      /\ \A g \in grants : StoredKey(g.key)
  BY <1>1 DEF KeyInv
<1>3. \A u, q \in Procs : Running(u)' /\ Running(q)' /\ KeyUser(Do(u))' /\ KeyUser(Do(q))' => u = q
  BY <1>0, <1>2, KeyUserAlone
<1>4. UNCHANGED <<header, chunks>>
  BY CommandLeavesStore
<1>5. \A k : StoredKey(k)' <=> StoredKey(k)
  <2>1. StoredSecret(KeyRef)' = StoredSecret(KeyRef)
    BY <1>4 DEF StoredSecret, Found
  <2> QED
    BY <1>4, <2>1 DEF StoredKey
<1>6. ASSUME NEW q \in Procs \ {p} PROVE Loads(q)'
  <2>1. /\ pc'[q] = pc[q] /\ cmd'[q] = cmd[q] /\ draft'[q] = draft[q] /\ cred'[q] = cred[q]
        /\ got'[q] = got[q]
    BY StepPrepared DEF Others, Own
  <2> QED
    BY <1>2, <1>4, <1>5, <2>1 DEF Loads, Do
<1>7. /\ Loads(p) /\ DoAt(p) /\ verifier \in [Procs -> Secrets \cup {Nothing}]
      /\ got[p].secret \in Secrets \cup {Nothing} /\ draft[p].secret \in Secrets \cup {Nothing}
  BY <1>2 DEF AllPrepared, Prepared, TypeOK, GotType

\* A process that uses key k.
<1>8. ASSUME NEW k \in Secrets \cup {Nothing}, UseKey(p, k), StoredKey(k), UNCHANGED grants, cred'[p].op = "none"
      PROVE  /\ Loads(p)'
             /\ \A q \in Procs : verifier'[q] # Nothing => StoredKey(verifier[q])'
             /\ \A g \in grants' : StoredKey(g.key)'
  <2>1. \/ pc'[p] = "ended" /\ verifier' = [verifier EXCEPT ![p] = k]
        \/ pc'[p] = "read" /\ draft'[p].secret = k /\ verifier' = verifier
    BY <1>8, KeyStep
  <2>2. \A q \in Procs : verifier'[q] = verifier[q] \/ verifier'[q] = k
    BY <1>7, <2>1
  <2>3. \A q \in Procs : verifier'[q] # Nothing => StoredKey(verifier'[q])
    BY <1>2, <1>8, <2>2
  <2>4. \A q \in Procs : verifier'[q] # Nothing => StoredKey(verifier[q])'
    BY <1>5, <2>3 DEF StoredKey
  <2>5. Loads(p)'
    BY <1>5, <1>8, <2>1 DEF Loads
  <2> QED
    BY <1>2, <1>5, <1>8, <2>4, <2>5
<1>9. CASE Start(p)
  BY <1>2, <1>3, <1>5, <1>6, <1>9, KeyStep DEF Loads, KeyUser
<1>10. CASE LoadKey(p)
  <2>1. pc[p] = "key" /\ cred[p].op = "none" /\ UNCHANGED grants
    BY <1>10, KeyStep
  <2>2. CASE got[p].is = "ok" /\ UseKey(p, got[p].secret) /\ cred'[p].op = "none"
    <3>1. StoredKey(got[p].secret)
      BY <1>7, <2>1, <2>2 DEF Loads
    <3> QED
      BY <1>3, <1>6, <1>7, <1>8, <2>1, <2>2, <3>1
  <2>3. CASE pc'[p] = "ended" /\ UNCHANGED verifier
    BY <1>2, <1>3, <1>5, <1>6, <2>1, <2>3 DEF Loads
  <2>4. CASE /\ got[p].is = "NotFound" /\ pc'[p] = "keystored" /\ UNCHANGED verifier
             /\ cred'[p].op = "put" /\ cred'[p].at = "begin"
    <3>1. header'[KeyRef] = Nothing
      BY <1>4, <1>7, <2>1, <2>4 DEF Loads
    <3>2. Loads(p)'
      BY <2>4, <3>1 DEF Loads
    <3> QED
      BY <1>2, <1>3, <1>5, <1>6, <2>1, <2>4, <3>2
  <2> QED
    BY <1>10, <2>2, <2>3, <2>4, KeyStep
<1>11. CASE KeyStored(p)
  <2>1. pc[p] = "keystored" /\ cred[p].op = "none" /\ UNCHANGED grants /\ cred'[p].op = "none"
    BY <1>11, KeyStep
  <2>2. CASE got[p].is # "error" /\ UseKey(p, draft[p].secret)
    <3>1. StoredKey(draft[p].secret)
      BY <1>7, <2>1, <2>2 DEF Loads
    <3> QED
      BY <1>3, <1>6, <1>7, <1>8, <2>1, <2>2, <3>1
  <2>3. CASE pc'[p] = "ended" /\ UNCHANGED verifier
    BY <1>2, <1>3, <1>5, <1>6, <2>1, <2>3 DEF Loads
  <2> QED
    BY <1>11, <2>2, <2>3, KeyStep
<1>12. CASE ~Start(p) /\ ~LoadKey(p) /\ ~KeyStored(p)
  <2>1. /\ pc'[p] \notin {"read", "key", "keystored"} /\ verifier' = verifier
        /\ Issue(p) \/ grants' = grants
    BY <1>12, PlainStep
  <2>2. Loads(p)'
    BY <2>1 DEF Loads
  <2>3. \A g \in grants' : StoredKey(g.key)
    <3>1. CASE Issue(p)
      <4>1. pc[p] = "read" /\ Do(p) = "authorize"
        BY <3>1 DEF Issue, AtStation
      <4>2. StoredKey(draft[p].secret)
        BY <1>7, <4>1 DEF Loads
      <4>3. \A g \in grants' : g \in grants \/ g.key = draft[p].secret
        BY <3>1 DEF Issue
      <4> QED
        BY <1>2, <4>2, <4>3
    <3> QED
      BY <1>2, <2>1, <3>1
  <2> QED
    BY <1>2, <1>3, <1>5, <1>6, <2>1, <2>2, <2>3
<1> QED
  BY <1>9, <1>10, <1>11, <1>12

SecretInv == StoreInv /\ ContentsInv /\ AllKeyCalls /\ KeyInv

LEMMA InitSecretInv == Init => SecretInv
<1> SUFFICES ASSUME Init PROVE SecretInv
  OBVIOUS
<1>1. StoreInv /\ TypeOK
  BY InitStoreInv, InitPrepared
<1>2. \A p \in Procs : cred[p].op = "none" /\ pc[p] = "idle" /\ verifier[p] = Nothing
  BY DEF Init, NoCred
<1>3. ContentsInv
  BY <1>2 DEF Init, ContentsInv, ChunksApart, PendingHolds, Pending
<1>4. AllKeyCalls
  BY <1>2 DEF AllKeyCalls, KeyCalls
<1>5. KeyInv
  BY <1>2 DEF Init, KeyInv, Loads, Running
<1> QED
  BY <1>1, <1>3, <1>4, <1>5 DEF SecretInv

LEMMA NextSecretInv == TypeOK /\ AllPrepared /\ SecretInv /\ [Next]_vars => SecretInv'
<1> SUFFICES ASSUME TypeOK, AllPrepared, SecretInv, [Next]_vars PROVE SecretInv'
  OBVIOUS
<1>1. StoreInv' /\ StoreInv /\ ContentsInv /\ AllKeyCalls /\ KeyInv
  BY NextStoreInv DEF SecretInv
<1>2. CASE UNCHANGED vars
  <2>1. /\ UNCHANGED <<backend, header, chunks, cred, got, pc, cmd, draft, verifier, grants, overlapped>>
    BY <1>2 DEF vars, credVars, ctlVars
  <2>2. ContentsInv' /\ AllKeyCalls'
    BY <1>1, <2>1 DEF ContentsInv, ChunksApart, PendingHolds, Pending, AllKeyCalls, KeyCalls
  <2>3. \A k : StoredKey(k)' <=> StoredKey(k)
    BY <2>1 DEF StoredKey, StoredSecret, Found
  <2>4. KeyInv'
    BY <1>1, <2>1, <2>3 DEF KeyInv, Loads, Running, KeyUser, Do
  <2> QED
    BY <1>1, <2>2, <2>4 DEF SecretInv
<1>3. ASSUME NEW p \in Procs, CommandStep(p) \/ Kill(p) PROVE SecretInv'
  <2>1. ContentsInv'
    <3>1. UNCHANGED <<header, chunks>> /\ ~Pending(p)'
      BY <1>3, CommandLeavesStore DEF Fresh, Pending
    <3>2. \A q \in Procs \ {p} : cred'[q] = cred[q]
      BY <1>3, StepPrepared DEF Others, Own
    <3> QED
      BY <1>1, <3>1, <3>2 DEF ContentsInv, ChunksApart, PendingHolds, Pending
  <2> QED
    BY <1>1, <1>3, <2>1, StepKeyCalls, CommandKeyInv DEF SecretInv
<1>4. ASSUME NEW p \in Procs, CredStep(p), UNCHANGED ctlVars PROVE SecretInv'
  BY <1>1, <1>4, StoreEffect, StepKeyCalls, CredStepKeyInv DEF SecretInv
<1> QED
  BY <1>2, <1>3, <1>4 DEF Next, Done

\* Every MCP process verifies grants with the key that authorize signs them with, whatever
\* commands run beside them, fail or are killed, unless two processes loaded the key at the
\* same time (AuthorizationKeyManager::load_or_create).
THEOREM KeysStayTheSame == Spec => []KeysAgree
<1>1. Spec => [](TypeOK /\ AllPrepared /\ SecretInv)
  BY InitPrepared, NextPrepared, InitSecretInv, NextSecretInv, PTL DEF Spec
<1>2. SecretInv => KeysAgree
  BY DEF SecretInv, KeyInv, KeysAgree, StoredKey
<1> QED
  BY <1>1, <1>2, PTL

-----------------------------------------------------------------------------
(***************************************************************************)
(* Profile and secret as a pair.  OwnRef is the reference a command works  *)
(* on, Writes what it may write: a creation may write once it has found    *)
(* its reference free.                                                     *)
(***************************************************************************)
OwnRef(p) == IF Do(p) = "create" THEN cmd[p].ref ELSE existing[p].ref

Writes(p) == IF Do(p) = "create" /\ pc[p] = "read" THEN {} ELSE {OwnRef(p)} \ {Nothing}

\* Which store operation a command is in at each of its stations, on what.
CallFits(p) ==
    /\ pc[p] = "idle" \/ Do(p) = "create" => existing[p] = NoProfile
    /\ pc[p] \in {"idle", "read", "write"} => cred[p].op = "none"
    /\ pc[p] \in {"test", "reread", "save", "remove"} => cred[p].op \in {"none", "get"}
    /\ pc[p] \in {"stored", "restore"} => cred[p].op \in {"none", "put"}
    /\ pc[p] = "removed" => cred[p].op \in {"none", "delete"}
    /\ pc[p] = "undone" => faults > 0 /\ (previous[p] # Nothing => cred[p].op \in {"none", "put"})
    /\ cred[p].op # "none" /\ pc[p] \notin {"key", "keystored"} => cred[p].ref = OwnRef(p)
    /\ cred[p].op = "put" /\ pc[p] = "stored" => cred[p].secret = draft[p].secret
    /\ cred[p].op = "put" /\ pc[p] \in {"undone", "restore"} => cred[p].secret = previous[p]

\* What a command is going to store has the reference it works on, and one kind.
DraftAgrees(p) ==
    /\ pc[p] = "write" =>
          draft[p].profile.ref = existing[p].ref /\ draft[p].profile.kind = existing[p].kind
    /\ pc[p] \in {"save", "stored"} =>
          IF Rotates(p) THEN existing[p].kind = draft[p].secret.kind
          ELSE draft[p].profile.ref = OwnRef(p) /\ draft[p].profile.kind = draft[p].secret.kind

AllFits == \A p \in Procs : CallFits(p) /\ DraftAgrees(p)

LEMMA Moves ==
  ASSUME TypeOK, NEW p \in Procs
  PROVE  /\ \A r : End(p, r) => pc'[p] = "ended" /\ result'[p] = r
         /\ \A s : To(p, s) => pc'[p] = s /\ result' = result
         /\ \A op, ref, secret, s : Via(p, op, ref, secret, s) =>
               /\ pc'[p] = s /\ result' = result
               /\ cred'[p].op = op /\ cred'[p].ref = ref /\ cred'[p].secret = secret
               /\ cred'[p].at = "begin"
         /\ NoCredCall => cred'[p] = cred[p]
<1>1. pc \in [Procs -> Stations] /\ result \in [Procs -> Results] /\ cred \in [Procs -> CredType]
  BY DEF TypeOK
<1>2. ASSUME NEW op, NEW ref, NEW secret, NEW key, StartCred(p, op, ref, secret, key)
      PROVE  /\ cred'[p].op = op /\ cred'[p].ref = ref /\ cred'[p].secret = secret
             /\ cred'[p].at = "begin"
  <2>1. cred'[p] = [NoCred EXCEPT !.op = op, !.ref = ref, !.secret = secret, !.key = key]
    BY <1>1, <1>2 DEF StartCred
  <2> QED
    BY <2>1 DEF NoCred
<1> QED
  BY <1>1, <1>2 DEF End, To, Via, NoCredCall

\* Failures and kills are counted, and only by the steps that meet them.
LEMMA CountersGrow ==
  ASSUME TypeOK, NEW p \in Procs,
         CommandStep(p) \/ Kill(p) \/ (CredStep(p) /\ UNCHANGED ctlVars)
  PROVE  /\ faults \in Nat /\ faults' \in Nat /\ faults <= faults'
         /\ crashes \in Nat /\ crashes' \in Nat /\ crashes <= crashes'
         /\ Kill(p) => crashes' > 0
         /\ CommandStep(p) => crashes' = crashes
<1>1. faults \in Nat /\ crashes \in Nat
  BY DEF TypeOK
<1>2. FaultFree \/ Fault \/ faults' = faults => faults' \in Nat /\ faults <= faults'
  BY <1>1 DEF FaultFree, Fault
<1>0. CommandStep(p) => crashes' = crashes
  BY DEF CommandStep, Start, Read, Test, Reread, Save, SecretStored, Undone, Write, Remove,
     Removed, Restore, LoadKey, KeyStored, Issue
<1>3. CASE CommandStep(p)
  <2>1. crashes' = crashes
    BY <1>0, <1>3
  <2>2. FaultFree \/ Fault \/ faults' = faults
    BY <1>3 DEF CommandStep, Start, Read, Test, Reread, Save, SecretStored, Undone, Write, Remove,
       Removed, Restore, LoadKey, KeyStored, Issue
  <2>3. ~Kill(p) \/ crashes' > 0
    BY <1>1, <2>1 DEF Kill
  <2> QED
    BY <1>1, <1>2, <2>1, <2>2, <2>3
<1>4. CASE Kill(p)
  BY <1>0, <1>1, <1>4 DEF Kill
<1>5. CASE CredStep(p) /\ UNCHANGED ctlVars
  <2>1. crashes' = crashes
    BY <1>5 DEF ctlVars
  <2>2. FaultFree \/ Fault \/ faults' = faults
    BY <1>5 DEF CredStep, PutSqlite, PutChunks, PutHeader, PutClean, GetHeader, GetChunks,
       DeleteBegin, DeleteEntry
  <2>3. ~Kill(p) \/ crashes' > 0
    BY <1>1, <2>1 DEF Kill
  <2> QED
    BY <1>1, <1>2, <1>5, <2>1, <2>2, <2>3
<1> QED
  BY <1>3, <1>4, <1>5

LEMMA FitsFrame ==
  ASSUME NEW q \in Procs, CallFits(q), DraftAgrees(q), Own(q)' = Own(q),
         faults \in Nat, faults' \in Nat, faults <= faults'
  PROVE  CallFits(q)' /\ DraftAgrees(q)'
<1>1. /\ pc'[q] = pc[q] /\ cmd'[q] = cmd[q] /\ existing'[q] = existing[q] /\ draft'[q] = draft[q]
      /\ previous'[q] = previous[q] /\ cred'[q] = cred[q]
  BY DEF Own
<1>2. faults > 0 => faults' > 0
  OBVIOUS
<1>3. OwnRef(q)' = OwnRef(q) /\ Do(q)' = Do(q) /\ Rotates(q)' = Rotates(q)
  BY <1>1 DEF OwnRef, Do, Rotates
<1> QED
  BY <1>1, <1>2, <1>3 DEF CallFits, DraftAgrees

\* A command that has ended has nothing under way.
LEMMA EndFits ==
  ASSUME NEW p \in Procs, CallFits(p), pc[p] # "idle", pc'[p] \in {"ended", "killed"},
         cred'[p].op = "none", cmd'[p] = cmd[p],
         Do(p) = "create" => existing'[p] = existing[p]
  PROVE  CallFits(p)' /\ DraftAgrees(p)'
<1>1. Do(p)' = Do(p)
  BY DEF Do
<1> QED
  BY <1>1 DEF CallFits, DraftAgrees

LEMMA ReadFits ==
  ASSUME TypeOK, AllPrepared, AllFits, NEW p \in Procs, Read(p)
  PROVE  CallFits(p)' /\ DraftAgrees(p)'
<1>1. /\ pc[p] = "read" /\ cred[p].op = "none" /\ cmd' = cmd /\ faults' = faults
  BY DEF Read, AtStation
<1>2. /\ \A r : End(p, r) => pc'[p] = "ended"
      /\ \A s : To(p, s) => pc'[p] = s
      /\ \A op, ref, secret, s : Via(p, op, ref, secret, s) =>
               /\ pc'[p] = s
               /\ cred'[p].op = op /\ cred'[p].ref = ref /\ cred'[p].secret = secret
      /\ NoCredCall => cred'[p] = cred[p]
  BY Moves
<1>3. CallFits(p) /\ DraftAgrees(p) /\ previous[p] = Nothing
  BY <1>1 DEF AllFits, AllPrepared, Prepared, HasSecret
<1>4. /\ Do(p)' = Do(p) /\ (Rotates(p)' <=> Rotates(p)) /\ (Rotates(p) <=> Do(p) \in {"rotate", "replace_secret"})
      /\ cmd'[p] = cmd[p]
  BY <1>1 DEF Do, Rotates
<1>5. CASE ReadCreate(p) /\ UNCHANGED existing
  <2>1. Do(p) = "create" /\ existing'[p] = NoProfile
    BY <1>3, <1>5 DEF ReadCreate, CallFits
  <2>2. CASE End(p, "conflict") /\ NoCredCall
    BY <1>1, <1>2, <1>3, <1>5, <2>2, EndFits
  <2>3. CASE End(p, "refused") /\ NoCredCall
    BY <1>1, <1>2, <1>3, <1>5, <2>3, EndFits
  <2>4. CASE /\ KindsAgree(cmd[p])
             /\ draft' = [draft EXCEPT ![p] = [profile |-> NewProfile(p), secret |-> cmd[p].secret]]
             /\ Via(p, "put", cmd[p].ref, cmd[p].secret, "stored")
    <3>1. draft'[p] = [profile |-> NewProfile(p), secret |-> cmd[p].secret]
      BY <2>4 DEF TypeOK
    <3>2. draft'[p].profile.ref = cmd[p].ref /\ draft'[p].profile.kind = draft'[p].secret.kind
          /\ draft'[p].secret = cmd[p].secret
      BY <2>4, <3>1 DEF NewProfile, KindsAgree
    <3>3. OwnRef(p)' = cmd[p].ref
      BY <1>4, <2>1 DEF OwnRef
    <3> QED
      BY <1>2, <1>4, <2>1, <2>4, <3>2, <3>3 DEF CallFits, DraftAgrees
  <2> QED
    BY <1>5, <2>2, <2>3, <2>4 DEF ReadCreate
<1>6. CASE ReadRow(p)
  <2> DEFINE row == profile[Conn(p)]
  <2>1. Do(p) # "create" /\ existing'[p] = row
    BY <1>6 DEF ReadRow, TypeOK
  <2>2. OwnRef(p)' = row.ref
    BY <1>4, <2>1 DEF OwnRef
  <2>3. CASE pc'[p] = "ended" /\ NoCredCall
    BY <1>1, <1>2, <1>3, <2>1, <2>3, EndFits
  <2>4. row = NoProfile \/ row \in ProfileType
    BY <1>1, RowOf
  <2> HIDE DEF row
  <2>5. CASE /\ pc'[p] \in {"test", "reread", "remove"}
             /\ NoCredCall \/ (cred'[p].op = "get" /\ cred'[p].ref = row.ref)
    BY <1>1, <1>2, <1>4, <2>1, <2>2, <2>5 DEF CallFits, DraftAgrees
  <2>6. ASSUME NEW new, DraftProfile(p, new), new.ref = row.ref, new.kind = row.kind,
               To(p, "write"), NoCredCall
        PROVE  CallFits(p)' /\ DraftAgrees(p)'
    <3>1. draft'[p].profile = new
      BY <2>6 DEF DraftProfile, TypeOK
    <3> QED
      BY <1>1, <1>2, <1>4, <2>1, <2>2, <2>6, <3>1 DEF CallFits, DraftAgrees
  <2>7. CASE row = NoProfile
    BY <1>2, <1>6, <2>3, <2>7 DEF ReadRow, row
  <2>8. CASE row \in ProfileType /\ row # NoProfile
    <3>1. CASE ReadSetPolicy(p, row)
      <4> DEFINE new == [row EXCEPT !.policy = cmd[p].policy, !.enabled = cmd[p].enabled,
                                   !.version = next_policy_version(@)]
      <4>1. new.ref = row.ref /\ new.kind = row.kind
        BY <2>8 DEF ProfileType
      <4>2. DraftProfile(p, new) /\ To(p, "write") /\ NoCredCall
        BY <3>1 DEF ReadSetPolicy
      <4> HIDE DEF new
      <4> QED
        BY <2>6, <4>1, <4>2
    <3>2. CASE ReadSetEnabled(p, row)
      <4> DEFINE new == [row EXCEPT !.enabled = cmd[p].enabled, !.version = next_policy_version(@)]
      <4>1. new.ref = row.ref /\ new.kind = row.kind
        BY <2>8 DEF ProfileType
      <4>2. NoCredCall /\ (End(p, "ok") \/ (DraftProfile(p, new) /\ To(p, "write")))
        BY <3>2 DEF ReadSetEnabled
      <4> HIDE DEF new
      <4> QED
        BY <1>2, <2>3, <2>6, <4>1, <4>2
    <3>3. CASE ReadUpdateProfile(p, row) \/ ReadUpdateConnection(p, row) \/ ReadDelete(p, row)
               \/ ReadTestSaved(p, row)
      BY <1>2, <2>5, <3>3 DEF ReadUpdateProfile, ReadUpdateConnection, ReadDelete, ReadTestSaved
    <3>4. CASE ReadRotate(p, row)
      BY <1>2, <2>5, <3>4 DEF ReadRotate
    <3> QED
      BY <1>6, <2>8, <3>1, <3>2, <3>3, <3>4 DEF ReadRow, row
  <2> QED
    BY <2>4, <2>7, <2>8
<1> QED
  BY <1>5, <1>6 DEF Read

LEMMA RereadFits ==
  ASSUME TypeOK, AllPrepared, AllFits, NEW p \in Procs, Reread(p)
  PROVE  CallFits(p)' /\ DraftAgrees(p)'
<1> DEFINE row == profile[Conn(p)]
<1>1. /\ pc[p] = "reread" /\ cred[p].op = "none" /\ cmd' = cmd
      /\ existing' = [existing EXCEPT ![p] = row]
  BY DEF Reread, AtStation
<1>2. /\ \A r : End(p, r) => pc'[p] = "ended"
      /\ \A s : To(p, s) => pc'[p] = s
      /\ \A op, ref, secret, s : Via(p, op, ref, secret, s) =>
               /\ pc'[p] = s
               /\ cred'[p].op = op /\ cred'[p].ref = ref /\ cred'[p].secret = secret
      /\ NoCredCall => cred'[p] = cred[p]
  BY Moves
<1>3. /\ CallFits(p) /\ DoAt(p) /\ HasDraft(p)
      /\ Do(p) \in {"update_profile", "update_connection", "rotate", "replace_secret"}
      /\ draft[p] \in DraftType
  BY <1>1 DEF AllFits, AllPrepared, Prepared, DoAt, TypeOK, DraftType
<1>4. /\ Do(p)' = Do(p) /\ (Rotates(p)' <=> Rotates(p))
      /\ (Rotates(p) <=> Do(p) \in {"rotate", "replace_secret"})
      /\ cmd'[p] = cmd[p] /\ existing'[p] = row
  BY <1>1 DEF Do, Rotates, TypeOK
<1>5. OwnRef(p)' = row.ref
  BY <1>3, <1>4 DEF OwnRef
<1>6. CASE RereadRefuses(p, row)
  <2>1. End(p, "refused") /\ NoCredCall
    BY <1>6 DEF Reread
  <2> QED
    BY <1>1, <1>2, <1>3, <2>1, EndFits
<1>7. CASE ~RereadRefuses(p, row)
  <2>1. /\ draft' = IF Rotates(p) THEN draft
                    ELSE [draft EXCEPT ![p].profile = Versioned(@, row)]
        /\ IF Do(p) = "update_profile" THEN To(p, "write") /\ NoCredCall
           ELSE Via(p, "get", row.ref, Nothing, "save")
    BY <1>7 DEF Reread
  <2>2. /\ Do(p) = "update_profile" => draft[p].profile.kind = row.kind
        /\ ~Rotates(p) => draft[p].profile.ref = row.ref
        /\ Do(p) # "update_profile" => KindAgrees(p, row)
    BY <1>7 DEF RereadRefuses
  <2> HIDE DEF row
  <2>3. CASE Rotates(p)
    <3>1. row.kind = draft'[p].secret.kind /\ Do(p) # "update_profile"
      BY <1>4, <2>1, <2>2, <2>3 DEF KindAgrees
    <3> QED
      BY <1>1, <1>2, <1>3, <1>4, <1>5, <2>1, <2>3, <3>1 DEF CallFits, DraftAgrees
  <2>4. CASE ~Rotates(p)
    <3>1. draft[p].profile \in ProfileType
      BY <1>1, <1>3, <1>4, <2>4 DEF HasDraft
    <3> DEFINE v == Versioned(draft[p].profile, row)
    <3>2. v.ref = draft[p].profile.ref /\ v.kind = draft[p].profile.kind
      BY <3>1 DEF Versioned, ProfileType
    <3>3. draft' = [draft EXCEPT ![p].profile = v]
      BY <2>1, <2>4
    <3> HIDE DEF v
    <3>4. draft'[p].profile = v /\ draft'[p].secret = draft[p].secret
      BY <1>3, <3>3 DEF TypeOK, DraftType
    <3>5. Do(p) = "update_connection" => draft[p].profile.kind = draft[p].secret.kind
      BY <2>2 DEF KindAgrees
    <3> QED
      BY <1>1, <1>2, <1>3, <1>4, <1>5, <2>1, <2>2, <2>4, <3>2, <3>4, <3>5 DEF CallFits, DraftAgrees
  <2> QED
    BY <2>3, <2>4
<1> QED
  BY <1>6, <1>7

LEMMA StepFits ==
  ASSUME TypeOK, AllPrepared, AllFits, NEW p \in Procs,
         CommandStep(p) \/ Kill(p) \/ (CredStep(p) /\ UNCHANGED ctlVars)
  PROVE  AllFits'
<1>0. faults \in Nat /\ faults' \in Nat /\ faults <= faults'
  BY CountersGrow
<1>1. ASSUME NEW q \in Procs \ {p} PROVE CallFits(q)' /\ DraftAgrees(q)'
  <2>1. Own(q)' = Own(q) /\ CallFits(q) /\ DraftAgrees(q)
    BY StepPrepared DEF Others, AllFits
  <2> QED
    BY <1>0, <2>1, FitsFrame
<1>2. /\ \A r : End(p, r) => pc'[p] = "ended"
      /\ \A s : To(p, s) => pc'[p] = s
      /\ \A op, ref, secret, s : Via(p, op, ref, secret, s) =>
               /\ pc'[p] = s
               /\ cred'[p].op = op /\ cred'[p].ref = ref /\ cred'[p].secret = secret
      /\ NoCredCall => cred'[p] = cred[p]
  BY Moves
<1>3. CallFits(p) /\ DraftAgrees(p) /\ DoAt(p) /\ HasSecret(p)
  BY DEF AllFits, AllPrepared, Prepared
<1> DEFINE Good == CallFits(p)' /\ DraftAgrees(p)'
\* What ends.
<1>4. ASSUME pc[p] # "idle", pc'[p] \in {"ended", "killed"}, cred'[p].op = "none",
             UNCHANGED <<cmd, existing>>
      PROVE  Good
  BY <1>3, <1>4, EndFits
<1>5. ASSUME UNCHANGED <<cmd, existing>>
      PROVE  /\ Do(p)' = Do(p) /\ (Rotates(p)' <=> Rotates(p)) /\ OwnRef(p)' = OwnRef(p)
             /\ existing'[p] = existing[p]
  BY <1>5 DEF Do, Rotates, OwnRef
<1> HIDE DEF Good
<1>6. ASSUME Start(p) PROVE Good
  <2>1. existing'[p] = NoProfile
    BY <1>3, <1>6 DEF Start, CallFits
  <2>2. \/ pc'[p] \in {"ended", "read"} /\ cred'[p].op = "none"
        \/ pc'[p] = "key"
    BY <1>6, KeyStep
  <2> QED
    BY <2>1, <2>2 DEF Good, CallFits, DraftAgrees
<1>7. ASSUME Read(p) \/ Reread(p) PROVE Good
  BY <1>7, ReadFits, RereadFits DEF Good
<1>8. ASSUME Test(p) \/ Undone(p) \/ Write(p) \/ Restore(p) \/ Issue(p) PROVE Good
  <2>1. cred'[p].op = "none" /\ UNCHANGED <<cmd, existing>> /\ pc[p] # "idle"
    BY <1>2, <1>8 DEF Test, Undone, Write, Restore, Issue, AtStation
  <2>2. pc'[p] \in {"ended", "reread"}
    BY <1>2, <1>8 DEF Test, Undone, Write, Restore, Issue
  <2> QED
    BY <1>3, <1>4, <1>5, <2>1, <2>2 DEF Good, CallFits, DraftAgrees
<1>9. ASSUME Save(p) PROVE Good
  <2>1. cred[p].op = "none" /\ UNCHANGED <<cmd, existing, draft>> /\ pc[p] = "save"
    BY <1>9 DEF Save, AtStation
  <2>2. CASE End(p, "credential_store_error") /\ NoCredCall
    BY <1>2, <1>4, <2>1, <2>2
  <2>3. CASE Via(p, "put", existing[p].ref, draft[p].secret, "stored")
    <3>1. Do(p) # "create"
      BY <1>3, <2>1 DEF DoAt
    <3>2. existing[p].ref = OwnRef(p)
      BY <3>1 DEF OwnRef
    <3>3. draft'[p] = draft[p]
      BY <2>1
    <3> QED
      BY <1>2, <1>3, <1>5, <2>1, <2>3, <3>1, <3>2, <3>3 DEF Good, CallFits, DraftAgrees
  <2> QED
    BY <1>9, <2>2, <2>3 DEF Save
<1>10. ASSUME SecretStored(p) PROVE Good
  <2>1. cred[p].op = "none" /\ UNCHANGED <<cmd, existing, draft, previous>> /\ pc[p] = "stored"
    BY <1>10 DEF SecretStored, AtStation
  <2>2. CASE pc'[p] = "ended" /\ NoCredCall
    BY <1>2, <1>4, <2>1, <2>2
  <2>3. CASE Undo(p) /\ Fault
    <3>1. faults' > 0
      BY <1>0, <2>3 DEF Fault
    <3>2. previous'[p] = previous[p]
      BY <2>1
    <3>3. Do(p) # "create" => existing[p].ref = OwnRef(p)
      BY DEF OwnRef
    <3>4. Do(p) = "create" => cmd[p].ref = OwnRef(p) /\ previous[p] = Nothing
      BY <1>3, <2>1 DEF OwnRef, HasSecret
    <3>5. /\ pc'[p] = "undone" /\ cred'[p].ref = OwnRef(p)
          /\ IF previous[p] = Nothing THEN cred'[p].op = "delete"
             ELSE cred'[p].op = "put" /\ cred'[p].secret = previous[p]
      BY <1>2, <2>3, <3>3, <3>4 DEF Undo
    <3> QED
      BY <1>3, <1>5, <2>1, <3>1, <3>2, <3>5 DEF Good, CallFits, DraftAgrees
  <2> QED
    BY <1>2, <1>10, <2>2, <2>3 DEF SecretStored
<1>11. ASSUME Remove(p) \/ Removed(p) PROVE Good
  <2>1. /\ cred[p].op = "none" /\ UNCHANGED <<cmd, existing>> /\ pc[p] \in {"remove", "removed"}
        /\ Do(p) = "delete" /\ OwnRef(p) = existing[p].ref
    BY <1>3, <1>11 DEF Remove, Removed, AtStation, DoAt, OwnRef
  <2>2. CASE pc'[p] = "ended" /\ NoCredCall
    BY <1>2, <1>4, <2>1, <2>2
  <2>3. CASE Via(p, "delete", existing[p].ref, Nothing, "removed")
    BY <1>2, <1>3, <1>5, <2>1, <2>3 DEF Good, CallFits, DraftAgrees
  <2>4. CASE Via(p, "put", existing[p].ref, previous[p], "restore") /\ UNCHANGED previous
    BY <1>2, <1>3, <1>5, <2>1, <2>4 DEF Good, CallFits, DraftAgrees
  <2>5. CASE Remove(p)
    BY <1>2, <2>2, <2>3, <2>5 DEF Remove
  <2>6. CASE Removed(p)
    BY <1>2, <2>2, <2>4, <2>6 DEF Removed
  <2> QED
    BY <1>11, <2>5, <2>6
<1>12. ASSUME LoadKey(p) \/ KeyStored(p) PROVE Good
  <2>1. /\ UNCHANGED <<cmd, existing>> /\ pc[p] \in {"key", "keystored"} /\ cred[p].op = "none"
    BY <1>12 DEF LoadKey, KeyStored, AtStation
  <2>2. Do(p) # "create"
    BY <1>3, <2>1 DEF DoAt, KeyUser
  <2>3. got[p].secret \in Secrets \cup {Nothing} /\ draft[p].secret \in Secrets \cup {Nothing}
    BY DEF TypeOK, GotType
  <2>4. \/ pc'[p] \in {"ended", "read"} /\ cred'[p].op = "none"
        \/ pc'[p] = "keystored"
    BY <1>12, <2>3, KeyStep
  <2> QED
    BY <1>5, <2>1, <2>2, <2>4 DEF Good, CallFits, DraftAgrees
<1>13. ASSUME Kill(p) PROVE Good
  <2>1. /\ UNCHANGED <<cmd, existing>> /\ pc[p] # "idle" /\ pc'[p] = "killed" /\ cred'[p] = NoCred
    BY <1>13 DEF Kill, Running, TypeOK
  <2> QED
    BY <1>4, <2>1 DEF NoCred
<1>14. ASSUME CredStep(p) /\ UNCHANGED ctlVars PROVE Good
  <2>1. UNCHANGED <<pc, cmd, existing, draft, previous>>
    BY <1>14 DEF ctlVars
  <2>2. /\ cred[p].op # "none"
        /\ \/ cred'[p] = NoCred
           \/ /\ cred'[p].op = cred[p].op /\ cred'[p].ref = cred[p].ref
              /\ cred'[p].secret = cred[p].secret
    BY <1>14, CallKept
  <2>3. faults > 0 => faults' > 0
    BY <1>0
  <2> QED
    BY <1>3, <1>5, <2>1, <2>2, <2>3 DEF Good, CallFits, DraftAgrees, NoCred
<1>15. Good
  BY <1>6, <1>7, <1>8, <1>9, <1>10, <1>11, <1>12, <1>13, <1>14 DEF CommandStep
<1> QED
  BY <1>1, <1>15 DEF AllFits, Good

(***************************************************************************)
(* Commands that do not overlap have their references for themselves.  For *)
(* a connection that was never shared: its command uses no reference that  *)
(* another one uses, its row has a reference of its own, which no other    *)
(* command writes, and its command writes none of another row.             *)
(***************************************************************************)
Alone(c) ==
    /\ \A p, q \in Procs : Running(p) /\ Running(q) /\ p # q /\ Conn(p) = c =>
          Conn(q) # c /\ \A x \in UsedRefs(p) : x \notin UsedRefs(q)
    /\ \A d \in Conns \ {c} : Exists(c) /\ Exists(d) => profile[c].ref # profile[d].ref
    /\ \A q \in Procs : Running(q) /\ Conn(q) # c /\ Exists(c) => profile[c].ref \notin Writes(q)
    /\ \A q \in Procs : Running(q) /\ Conn(q) = c =>
          \A d \in Conns \ {c} : Exists(d) => profile[d].ref \notin Writes(q)

AloneInv == \A c \in Conns : c \notin overlapped => Alone(c)

\* The references a command has used are those of three rows and of its creation.
LEMMA Used ==
  ASSUME NEW q
  PROVE  /\ \A x : x \in UsedRefs(q) <=>
               /\ x # Nothing
               /\ \/ x = before[q].profile.ref \/ x = existing[q].ref \/ x = profile[Conn(q)].ref
                  \/ Do(q) = "create" /\ x = cmd[q].ref
         /\ \A x : x \in UsedRefs(q)' <=>
               /\ x # Nothing
               /\ \/ x = before'[q].profile.ref \/ x = existing'[q].ref
                  \/ x = (profile[Conn(q)].ref)'
                  \/ Do(q)' = "create" /\ x = cmd'[q].ref
         /\ Writes(q) \subseteq UsedRefs(q)
<1>1. \A x : x \in UsedRefs(q) <=>
         /\ x # Nothing
         /\ \/ x = before[q].profile.ref \/ x = existing[q].ref \/ x = profile[Conn(q)].ref
            \/ Do(q) = "create" /\ x = cmd[q].ref
  BY DEF UsedRefs, RefsOf, Do
<1>2. \A x : x \in UsedRefs(q)' <=>
         /\ x # Nothing
         /\ \/ x = before'[q].profile.ref \/ x = existing'[q].ref \/ x = (profile[Conn(q)].ref)'
            \/ Do(q)' = "create" /\ x = cmd'[q].ref
  BY DEF UsedRefs, RefsOf, Do
<1>3. Writes(q) \subseteq UsedRefs(q)
  BY <1>1 DEF Writes, OwnRef
<1> QED
  BY <1>1, <1>2, <1>3

\* How a step of a command changes rows and references: it writes its own row, with its
\* own reference, and comes to write the reference of its row or a free one.
LEMMA RefStep ==
  ASSUME TypeOK, AllPrepared, AllFits, NEW p \in Procs, ~Start(p),
         CommandStep(p) \/ Kill(p) \/ (CredStep(p) /\ UNCHANGED ctlVars)
  PROVE  /\ UNCHANGED <<cmd, before, overlapped>> /\ pc[p] # "idle" /\ Running(p)
         /\ \A c \in Conns : \/ profile'[c] = profile[c]
                             \/ /\ c = Conn(p)
                                /\ profile'[c] = NoProfile \/ profile'[c].ref \in Writes(p)
         /\ existing'[p] = existing[p] \/ existing'[p] = profile[Conn(p)]
         /\ Running(p)' => \A x \in Writes(p)' :
               \/ x \in Writes(p)
               \/ x = profile[Conn(p)].ref /\ Exists(Conn(p))
               \/ ~RefInUse(x)
<1>1. CallFits(p) /\ DraftAgrees(p) /\ DoAt(p) /\ HasRow(p) /\ HasDraft(p) /\ CredKnown(p)
  BY DEF AllFits, AllPrepared, Prepared
<1>2. UNCHANGED <<cmd, before, overlapped>>
  <2>1. CASE CommandStep(p)
    BY <2>1 DEF CommandStep, Read, Test, Reread, Save, SecretStored, Undone, Write, Remove,
       Removed, Restore, LoadKey, KeyStored, Issue
  <2>2. CASE Kill(p)
    BY <2>2 DEF Kill
  <2>3. CASE CredStep(p) /\ UNCHANGED ctlVars
    BY <2>3 DEF ctlVars
  <2> QED
    BY <2>1, <2>2, <2>3
<1>3. pc[p] # "idle" /\ Running(p)
  <2>1. CASE CommandStep(p)
    BY <2>1 DEF CommandStep, Read, Test, Reread, Save, SecretStored, Undone, Write, Remove,
       Removed, Restore, LoadKey, KeyStored, Issue, AtStation, Running
  <2>2. CASE Kill(p)
    BY <2>2 DEF Kill, Running
  <2>3. CASE CredStep(p) /\ UNCHANGED ctlVars
    BY <1>1, <2>3, CallKept DEF CredKnown, Running
  <2> QED
    BY <2>1, <2>2, <2>3
<1>4. Nothing \notin UserRefs /\ \A row \in ProfileType : row.ref \in UserRefs
  BY ControlAssumption DEF UserRefs, ProfileType
<1>5. Do(p)' = Do(p)
  BY <1>2 DEF Do
<1>6. ASSUME NEW c \in Conns
      PROVE  \/ profile'[c] = profile[c]
             \/ c = Conn(p) /\ (profile'[c] = NoProfile \/ profile'[c].ref \in Writes(p))
  <2>1. CASE c # Conn(p) \/ profile' = profile
    BY <2>1, RowsTouched
  <2>2. CASE c = Conn(p) /\ profile' # profile
    <3>1. /\ pc[p] \in {"stored", "write", "remove", "restore"}
          /\ pc[p] \in {"stored", "write"} =>
                 /\ Do(p) \in {"create", "update_connection", "set_policy", "set_enabled",
                               "update_profile"}
                 /\ profile'[c] = draft[p].profile
      BY <2>2, RowsTouched
    <3>2. CASE pc[p] \in {"stored", "write"}
      <4>1. draft[p].profile.ref = OwnRef(p)
        BY <1>1, <3>1, <3>2 DEF DraftAgrees, Rotates, OwnRef, DoAt
      <4>2. draft[p].profile.ref # Nothing
        BY <1>1, <1>4, <3>1, <3>2 DEF HasDraft, DoAt
      <4> QED
        BY <2>2, <3>1, <3>2, <4>1, <4>2 DEF Writes
    <3>3. CASE pc[p] \in {"remove", "restore"}
      <4>1. Do(p) = "delete" /\ existing[p] \in ProfileType
        BY <1>1, <3>3 DEF DoAt, HasRow
      <4>2. existing[p].ref \in Writes(p)
        BY <1>4, <4>1 DEF Writes, OwnRef
      <4>3. ~UNCHANGED ctlVars
        BY <2>2 DEF ctlVars
      <4>4. CommandStep(p)
        BY <2>2, <4>3 DEF Kill, NoWrite
      <4>5. Remove(p) \/ Restore(p)
        BY <3>3, <4>4 DEF CommandStep, Start, Read, Test, Reread, Save, SecretStored, Undone, Write,
           Removed, LoadKey, KeyStored, Issue, AtStation
      <4>6. Upsert(c, NoProfile) \/ Upsert(c, existing[p])
        BY <2>2, <4>5 DEF Remove, Restore, NoWrite
      <4>7. profile'[c] = NoProfile \/ profile'[c] = existing[p]
        BY <4>6 DEF Upsert, TypeOK
      <4> QED
        BY <2>2, <4>2, <4>7
    <3> QED
      BY <3>1, <3>2, <3>3
  <2> QED
    BY <2>1, <2>2
<1>7. existing'[p] = existing[p] \/ existing'[p] = profile[Conn(p)]
  <2>1. CASE Read(p) \/ Reread(p)
    BY <2>1 DEF Read, Reread, ReadRow, TypeOK
  <2>2. CASE ~Read(p) /\ ~Reread(p)
    <3>1. UNCHANGED existing
      BY <2>2 DEF CommandStep, Test, Save, SecretStored, Undone, Write, Remove,
         Removed, Restore, LoadKey, KeyStored, Issue, Kill, ctlVars
    <3> QED
      BY <3>1
  <2> QED
    BY <2>1, <2>2
<1>8. ASSUME Running(p)', NEW x \in Writes(p)'
      PROVE  \/ x \in Writes(p)
             \/ x = profile[Conn(p)].ref /\ Exists(Conn(p))
             \/ ~RefInUse(x)
  <2>1. x = OwnRef(p)' /\ x # Nothing
    BY <1>8 DEF Writes
  <2>2. CASE Do(p) = "create"
    <3>1. x = cmd[p].ref
      BY <1>2, <1>5, <2>1, <2>2 DEF OwnRef
    <3>2. CASE pc[p] # "read"
      BY <2>1, <2>2, <3>1, <3>2 DEF Writes, OwnRef
    <3>3. CASE pc[p] = "read"
      <4>1. cred[p].op = "none"
        BY <1>1, <3>3 DEF CallFits
      <4>2. ~CredStep(p)
        BY <4>1 DEF CredStep, PutSqlite, PutChunks, PutHeader, PutClean, GetHeader, GetChunks,
           DeleteBegin, DeleteEntry
      <4>3. ~Kill(p)
        BY <1>8 DEF Kill, Running, TypeOK
      <4>4. Read(p)
        BY <2>2, <3>3, <4>2, <4>3 DEF CommandStep, Start, Test, Reread, Save, SecretStored, Undone,
           Write, Remove, Removed, Restore, LoadKey, KeyStored, Issue, AtStation
      <4>5. ReadCreate(p)
        BY <2>2, <4>4 DEF Read, ReadRow
      <4>6. ~End(p, "conflict") /\ ~End(p, "refused")
        BY <1>8, Moves DEF Running
      <4> QED
        BY <3>1, <4>5, <4>6 DEF ReadCreate
    <3> QED
      BY <3>2, <3>3
  <2>3. CASE Do(p) # "create"
    <3>1. x = existing'[p].ref
      BY <1>5, <2>1, <2>3 DEF OwnRef
    <3>2. CASE existing'[p] = existing[p]
      BY <2>1, <2>3, <3>1, <3>2 DEF Writes, OwnRef
    <3>3. CASE existing'[p] = profile[Conn(p)]
      <4>1. profile[Conn(p)] # NoProfile
        BY <2>1, <3>1, <3>3 DEF NoProfile
      <4> QED
        BY <3>1, <3>3, <4>1 DEF Exists
    <3> QED
      BY <1>7, <3>2, <3>3
  <2> QED
    BY <2>2, <2>3
<1> QED
  BY <1>2, <1>3, <1>6, <1>7, <1>8

\* A command that starts beside others shares nothing with them, or both connections are
\* marked as overlapped.
LEMMA StartAlone ==
  ASSUME TypeOK, AllPrepared, AllFits, AloneInv, NEW p \in Procs, Start(p), NEW c \in Conns,
         c \notin overlapped'
  PROVE  Alone(c)'
<1>1. PICK r \in Requests :
         /\ cmd' = [cmd EXCEPT ![p] = r]
         /\ overlapped' = overlapped \cup UNION {Shared(r, q) : q \in {q \in Procs : Running(q)}}
         /\ before' = [before EXCEPT ![p] =
               [profile |-> profile[r.conn],
                secret |-> IF Exists(r.conn) THEN StoredSecret(profile[r.conn].ref) ELSE Nothing]]
  BY DEF Start
<1>2. /\ cmd'[p] = r /\ before'[p].profile = profile[r.conn] /\ UNCHANGED <<profile, existing>>
      /\ Conn(p)' = r.conn /\ Do(p)' = r.do
      /\ \A q \in Procs \ {p} : /\ cmd'[q] = cmd[q] /\ before'[q] = before[q]
                                /\ Conn(q)' = Conn(q) /\ Do(q)' = Do(q)
  BY <1>1 DEF Start, TypeOK, Conn, Do, NoWrite
<1>3. existing[p] = NoProfile /\ NoProfile.ref = Nothing
  BY DEF AllFits, CallFits, Start, NoProfile
<1>4. \A q \in Procs \ {p} : /\ UsedRefs(q)' = UsedRefs(q) /\ Running(q)' = Running(q)
                             /\ Writes(q)' = Writes(q)
  <2> SUFFICES ASSUME NEW q \in Procs \ {p}
               PROVE  /\ UsedRefs(q)' = UsedRefs(q) /\ Running(q)' = Running(q)
                      /\ Writes(q)' = Writes(q)
    OBVIOUS
  <2>1. pc'[q] = pc[q] /\ existing'[q] = existing[q]
    BY StepPrepared DEF Others, Own, CommandStep
  <2>2. (profile[Conn(q)].ref)' = profile[Conn(q)].ref
    BY <1>2
  <2>3. \A x : x \in UsedRefs(q)' <=> x \in UsedRefs(q)
    BY <1>2, <2>1, <2>2, Used
  <2>4. Writes(q)' = Writes(q)
    BY <1>2, <2>1 DEF Writes, OwnRef
  <2> QED
    BY <2>1, <2>3, <2>4 DEF Running
<1>5. ASSUME Running(p)' PROVE Writes(p)' = {}
  <2>1. pc'[p] \in {"ended", "read", "key"}
    BY KeyStep
  <2>2. pc'[p] = "key" => Do(p)' # "create"
    BY StepPrepared DEF AllPrepared, Prepared, DoAt, KeyUser, CommandStep
  <2>3. existing'[p].ref = Nothing /\ pc'[p] \in {"read", "key"}
    BY <1>2, <1>3, <1>5, <2>1 DEF Running
  <2> QED
    BY <2>2, <2>3 DEF Writes, OwnRef
<1>6. \A x \in UsedRefs(p)' : x \in RefsOf(r, {profile[r.conn]})
  <2>1. (profile[Conn(p)].ref)' = profile[r.conn].ref /\ existing'[p].ref = Nothing
    BY <1>2, <1>3
  <2>2. \A x \in UsedRefs(p)' : x # Nothing /\ (x = profile[r.conn].ref \/ (r.do = "create" /\ x = r.ref))
    BY <1>2, <2>1, Used
  <2> QED
    BY <2>2 DEF RefsOf
<1>7. \A q \in Procs : Running(q) => c \notin Shared(r, q)
  BY <1>1
<1>8. Alone(c) /\ ~Running(p) /\ UNCHANGED profile
  BY <1>1, <1>2 DEF AloneInv, Start, Running
<1>9. ASSUME NEW q \in Procs \ {p}, Running(q), r.conn = c \/ Conn(q) = c
      PROVE  r.conn # Conn(q) /\ \A x \in UsedRefs(p)' : x \notin UsedRefs(q)
  <2>1. c \notin Shared(r, q)
    BY <1>7, <1>9
  <2>2. r.conn # Conn(q) /\ RefsOf(r, {profile[r.conn]}) \cap UsedRefs(q) = {}
    BY <1>9, <2>1 DEF Shared
  <2> QED
    BY <1>6, <2>2
<1>10. ASSUME NEW u \in Procs, NEW q \in Procs, Running(u)', Running(q)', u # q, Conn(u)' = c
       PROVE  Conn(q)' # c /\ \A x \in UsedRefs(u)' : x \notin UsedRefs(q)'
  <2>1. CASE u = p
    BY <1>2, <1>4, <1>9, <1>10, <2>1
  <2>2. CASE q = p
    BY <1>2, <1>4, <1>9, <1>10, <2>2
  <2>3. CASE u # p /\ q # p
    <3>1. Running(u) /\ Running(q) /\ Conn(u) = c
      BY <1>2, <1>4, <1>10, <2>3
    <3>2. Conn(q) # c /\ \A x \in UsedRefs(u) : x \notin UsedRefs(q)
      BY <1>8, <1>10, <3>1 DEF Alone
    <3> QED
      BY <1>2, <1>4, <2>3, <3>2
  <2> QED
    BY <2>1, <2>2, <2>3
<1>11. Exists(c)' = Exists(c) /\ \A d \in Conns : Exists(d)' = Exists(d)
  BY <1>2 DEF Exists
<1>12. \A d \in Conns \ {c} : Exists(c)' /\ Exists(d)' => profile'[c].ref # profile'[d].ref
  BY <1>8, <1>11 DEF Alone
<1>13. ASSUME NEW q \in Procs, Running(q)', Conn(q)' # c, Exists(c)' PROVE profile'[c].ref \notin Writes(q)'
  BY <1>2, <1>4, <1>5, <1>8, <1>11, <1>13 DEF Alone
<1>14. ASSUME NEW q \in Procs, Running(q)', Conn(q)' = c, NEW d \in Conns \ {c}, Exists(d)'
       PROVE  profile'[d].ref \notin Writes(q)'
  BY <1>2, <1>4, <1>5, <1>8, <1>11, <1>14 DEF Alone
<1> QED
  BY <1>10, <1>12, <1>13, <1>14 DEF Alone

LEMMA StepAlone ==
  ASSUME TypeOK, AllPrepared, AllFits, AloneInv, NEW p \in Procs, ~Start(p),
         CommandStep(p) \/ Kill(p) \/ (CredStep(p) /\ UNCHANGED ctlVars), NEW c \in Conns,
         c \notin overlapped'
  PROVE  Alone(c)'
<1>1. /\ UNCHANGED <<cmd, before, overlapped>> /\ pc[p] # "idle" /\ Running(p)
      /\ \A d \in Conns : \/ profile'[d] = profile[d]
                          \/ /\ d = Conn(p)
                             /\ profile'[d] = NoProfile \/ profile'[d].ref \in Writes(p)
      /\ existing'[p] = existing[p] \/ existing'[p] = profile[Conn(p)]
      /\ Running(p)' => \A x \in Writes(p)' :
            \/ x \in Writes(p)
            \/ x = profile[Conn(p)].ref /\ Exists(Conn(p))
            \/ ~RefInUse(x)
  BY RefStep
<1>2. \A q \in Procs : Conn(q)' = Conn(q) /\ Do(q)' = Do(q)
  BY <1>1 DEF Conn, Do
<1>3. \A q \in Procs \ {p} : pc'[q] = pc[q] /\ existing'[q] = existing[q] /\ Running(q)' = Running(q)
  BY StepPrepared DEF Others, Own, Running
<1>4. Running(p)' => Running(p)
  BY <1>1
<1>5. \A q \in Procs \ {p} : Writes(q)' = Writes(q)
  BY <1>1, <1>2, <1>3 DEF Writes, OwnRef
<1>6. Alone(c)
  BY <1>1 DEF AloneInv
<1>7. \A q \in Procs : Writes(q) \subseteq UsedRefs(q)
  BY Used
<1>8. \A q \in Procs : Running(q) => Conn(q) \in Conns
  BY RequestOf DEF Running
<1>9. ASSUME NEW q \in Procs, Running(q), NEW x \in UsedRefs(q)'
      PROVE  x \in UsedRefs(q) \/ (Conn(q) = Conn(p) /\ x \in UsedRefs(p))
  <2>1. /\ x # Nothing
        /\ \/ x = before[q].profile.ref \/ x = existing'[q].ref \/ x = profile'[Conn(q)].ref
           \/ Do(q) = "create" /\ x = cmd[q].ref
    BY <1>1, <1>2, Used
  <2>2. profile'[Conn(q)] = NoProfile => profile'[Conn(q)].ref = Nothing
    BY DEF NoProfile
  <2>3. CASE x = profile'[Conn(q)].ref
    BY <1>1, <1>7, <1>8, <1>9, <2>1, <2>2, <2>3, Used
  <2>4. CASE x = existing'[q].ref
    <3>1. existing'[q] = existing[q] \/ existing'[q] = profile[Conn(q)]
      BY <1>1, <1>3
    <3> QED
      BY <2>1, <2>4, <3>1, Used
  <2>5. CASE x = before[q].profile.ref \/ (Do(q) = "create" /\ x = cmd[q].ref)
    BY <2>1, <2>5, Used
  <2> QED
    BY <2>1, <2>3, <2>4, <2>5
<1>10. ASSUME NEW u \in Procs, NEW q \in Procs, Running(u)', Running(q)', u # q, Conn(u)' = c
       PROVE  Conn(q)' # c /\ \A x \in UsedRefs(u)' : x \notin UsedRefs(q)'
  <2>1. Running(u) /\ Running(q) /\ Conn(u) = c
    BY <1>2, <1>3, <1>4, <1>10
  <2>2. \A v \in Procs \ {u} : Running(v) => Conn(v) # c /\ \A x \in UsedRefs(u) : x \notin UsedRefs(v)
    BY <1>6, <2>1 DEF Alone
  <2>3. \A x \in UsedRefs(u)' : x \in UsedRefs(u)
    BY <1>1, <1>9, <2>1, <2>2
  <2>4. ASSUME NEW x \in UsedRefs(u)', x \in UsedRefs(q)' PROVE FALSE
    <3>1. x \in UsedRefs(u) /\ x \notin UsedRefs(q) /\ Conn(q) # c
      BY <1>10, <2>1, <2>2, <2>3, <2>4
    <3>2. Conn(q) = Conn(p) /\ x \in UsedRefs(p)
      BY <1>9, <2>1, <2>4, <3>1
    <3>3. p # u
      BY <2>1, <3>1, <3>2
    <3> QED
      BY <1>1, <2>2, <3>1, <3>2, <3>3
  <2> QED
    BY <1>2, <1>10, <2>1, <2>2, <2>4
<1>11. \A d \in Conns : profile'[d] = profile[d] => Exists(d)' = Exists(d)
  BY DEF Exists
<1>12. ASSUME NEW d \in Conns, profile'[d] # profile[d], Exists(d)'
       PROVE  d = Conn(p) /\ profile'[d].ref \in Writes(p)
  BY <1>1, <1>12 DEF Exists
<1>13. ASSUME NEW d \in Conns \ {c}, Exists(c)', Exists(d)' PROVE profile'[c].ref # profile'[d].ref
  <2>1. CASE profile'[c] # profile[c]
    <3>1. c = Conn(p) /\ profile'[c].ref \in Writes(p) /\ profile'[d] = profile[d] /\ Exists(d)
      BY <1>1, <1>11, <1>12, <1>13, <2>1
    <3>2. profile[d].ref \notin Writes(p)
      BY <1>1, <1>6, <3>1 DEF Alone
    <3> QED
      BY <3>1, <3>2
  <2>2. CASE profile'[c] = profile[c] /\ profile'[d] # profile[d]
    <3>1. d = Conn(p) /\ profile'[d].ref \in Writes(p) /\ Exists(c)
      BY <1>11, <1>12, <1>13, <2>2
    <3>2. profile[c].ref \notin Writes(p)
      BY <1>1, <1>6, <3>1 DEF Alone
    <3> QED
      BY <2>2, <3>1, <3>2
  <2>3. CASE profile'[c] = profile[c] /\ profile'[d] = profile[d]
    BY <1>6, <1>11, <1>13, <2>3 DEF Alone
  <2> QED
    BY <2>1, <2>2, <2>3
<1>14. ASSUME NEW q \in Procs, Running(q)', Conn(q)' # c, Exists(c)' PROVE profile'[c].ref \notin Writes(q)'
  <2>1. Running(q) /\ Conn(q) # c
    BY <1>2, <1>3, <1>4, <1>14
  <2>2. CASE profile'[c] # profile[c]
    <3>1. c = Conn(p) /\ profile'[c].ref \in Writes(p) /\ q # p
      BY <1>12, <1>14, <2>1, <2>2
    <3>2. \A x \in UsedRefs(p) : x \notin UsedRefs(q)
      BY <1>1, <1>6, <2>1, <3>1 DEF Alone
    <3> QED
      BY <1>5, <1>7, <3>1, <3>2
  <2>3. CASE profile'[c] = profile[c]
    <3>1. Exists(c) /\ profile[c].ref \notin Writes(q)
      BY <1>6, <1>11, <1>14, <2>1, <2>3 DEF Alone
    <3>2. CASE q # p
      BY <1>5, <2>3, <3>1, <3>2
    <3>3. CASE q = p
      <4>1. Exists(Conn(p)) => profile[Conn(p)].ref # profile[c].ref
        BY <1>6, <1>8, <2>1, <3>1, <3>3 DEF Alone
      <4>2. RefInUse(profile[c].ref)
        BY <3>1 DEF RefInUse
      <4> QED
        BY <1>1, <1>14, <2>3, <3>1, <3>3, <4>1, <4>2
    <3> QED
      BY <3>2, <3>3
  <2> QED
    BY <2>2, <2>3
<1>15. ASSUME NEW q \in Procs, Running(q)', Conn(q)' = c, NEW d \in Conns \ {c}, Exists(d)'
       PROVE  profile'[d].ref \notin Writes(q)'
  <2>1. Running(q) /\ Conn(q) = c
    BY <1>2, <1>3, <1>4, <1>15
  <2>2. CASE profile'[d] # profile[d]
    <3>1. d = Conn(p) /\ profile'[d].ref \in Writes(p) /\ q # p
      BY <1>12, <1>15, <2>1, <2>2
    <3>2. \A x \in UsedRefs(q) : x \notin UsedRefs(p)
      BY <1>1, <1>6, <2>1, <3>1 DEF Alone
    <3> QED
      BY <1>5, <1>7, <3>1, <3>2
  <2>3. CASE profile'[d] = profile[d]
    <3>1. Exists(d) /\ profile[d].ref \notin Writes(q)
      BY <1>6, <1>11, <1>15, <2>1, <2>3 DEF Alone
    <3>2. CASE q # p
      BY <1>5, <2>3, <3>1, <3>2
    <3>3. CASE q = p
      <4>1. Exists(c) => profile[c].ref # profile[d].ref
        BY <1>6, <1>15, <3>1 DEF Alone
      <4>2. RefInUse(profile[d].ref)
        BY <3>1 DEF RefInUse
      <4> QED
        BY <1>1, <1>15, <2>1, <2>3, <3>1, <3>3, <4>1, <4>2
    <3> QED
      BY <3>2, <3>3
  <2> QED
    BY <2>2, <2>3
<1> QED
  BY <1>10, <1>13, <1>14, <1>15 DEF Alone

\* How a step of a delete ends.
LEMMA DeleteOutcome ==
  ASSUME TypeOK, AllPrepared, NEW p \in Procs, CredStep(p), cred[p].op = "delete",
         NEW ref, ref = cred[p].ref
  PROVE  \/ /\ header'[ref] = header[ref] /\ faults' = faults + 1
            /\ cred'[p].op = "none" /\ got'[p].is = "error"
         \/ header[ref] = Nothing
         \/ header'[ref] = header[ref] /\ cred'[p].op = "delete"
         \/ cred'[p].op = "none" /\ got'[p].is = "ok"
<1>1. /\ \A r : Return(p, r) => cred'[p].op = "none" /\ got'[p] = r
      /\ \A at, gen, prev : Goto(p, at, gen, prev) => cred'[p].op = cred[p].op
  BY CallEnds, CallGoesOn
<1>2. \A what : Says(what).is = what
  BY DEF Says
<1>3. DeleteBegin(p) \/ DeleteEntry(p)
  BY DEF CredStep, PutSqlite, PutChunks, PutHeader, PutClean, GetHeader, GetChunks
<1>4. CASE DeleteBegin(p)
  BY <1>1, <1>2, <1>4 DEF DeleteBegin, Fault
<1>5. CASE DeleteEntry(p)
  BY <1>1, <1>2, <1>5 DEF DeleteEntry
<1> QED
  BY <1>3, <1>4, <1>5

\* What a get returns of an entry that stays.
LEMMA GetOutcome ==
  ASSUME TypeOK, AllPrepared, StoreInv, ContentsInv, NEW p \in Procs, CredStep(p), cred[p].op = "get",
         NEW ref \in Refs, ref = cred[p].ref, header[ref] # Nothing,
         cred[p].at # "begin" => cred[p].gen = header[ref]
  PROVE  /\ UNCHANGED header
         /\ \/ cred'[p].op = "none" /\ got'[p].is = "error"
            \/ cred'[p].op = "none" /\ got'[p].is = "ok" /\ got'[p].secret = StoredSecret(ref)
            \/ cred'[p].op = "get" /\ cred'[p].gen = header[ref]
<1>1. /\ \A r : Return(p, r) => cred'[p].op = "none" /\ got'[p] = r
      /\ \A at, gen, prev : Goto(p, at, gen, prev) =>
            cred'[p].op = cred[p].op /\ cred'[p].gen = gen
  BY CallEnds, CallGoesOn
<1>2. \A what : Says(what).is = what
  BY DEF Says
<1>3. GetHeader(p) \/ GetChunks(p)
  BY DEF CredStep, PutSqlite, PutChunks, PutHeader, PutClean, DeleteBegin, DeleteEntry
<1> DEFINE found == Decrypted(p, Found(ref))
<1>4. /\ {c \in chunks : c.gen = header[ref]} = Found(ref)
      /\ found.is \in {"ok", "error"}
      /\ found.is = "ok" => found.secret = StoredSecret(ref)
  BY ReadsStored
<1> HIDE DEF found
<1>5. CASE GetHeader(p)
  BY <1>1, <1>2, <1>4, <1>5 DEF GetHeader, found
<1>6. CASE GetChunks(p)
  <2>1. cred[p].gen = header[ref] /\ UNCHANGED header
    BY <1>6 DEF GetChunks
  <2>2. Return(p, found)
    BY <1>4, <1>6, <2>1 DEF GetChunks, found
  <2> QED
    BY <1>1, <1>4, <2>1, <2>2
<1> QED
  BY <1>3, <1>5, <1>6

-----------------------------------------------------------------------------
(***************************************************************************)
(* The course of a command that has its connection for itself, if no       *)
(* command was killed and at most one store operation failed.  before[p]   *)
(* is what it found; until it stores anything the connection is Kept, and  *)
(* after it a failure finds everything at hand to bring it back.           *)
(***************************************************************************)
Fits(row, secret) == row # NoProfile => secret # Nothing /\ secret.kind = row.kind

Kept(p) ==
    /\ profile[Conn(p)] = before[p].profile
    /\ \A r \in Refs : r = before[p].profile.ref => StoredSecret(r) = before[p].secret
    /\ before[p].profile # NoProfile /\ faults = 0 => announced[Conn(p)] = before[p].secret

Holds(p, secret) == \A r \in Refs : r = OwnRef(p) => StoredSecret(r) = secret

\* The put of the command has moved the header.
Moved(p) == IF cred[p].op = "none" THEN got[p].is # "error" ELSE cred[p].at = "clean"

KnowsRow(p) ==
    /\ pc[p] \notin {"read", "key", "keystored"} /\ Do(p) # "create" => existing[p] = before[p].profile
    /\ pc[p] \in {"stored", "undone"} /\ Do(p) = "create" => before[p].profile = NoProfile
    /\ pc[p] \in {"stored", "undone", "removed", "restore"} /\ Do(p) # "create" =>
          previous[p] = before[p].secret

Answered(p) ==
    pc[p] \in {"save", "remove"} =>
        IF cred[p].op = "none"
        THEN got[p].is = "error" \/ (got[p].is = "ok" /\ got[p].secret = before[p].secret)
        ELSE cred[p].at # "begin" => \A r \in Refs : r = OwnRef(p) => cred[p].gen = header[r]

Storing(p) ==
    pc[p] = "stored" =>
        /\ profile[Conn(p)] = before[p].profile
        /\ IF Moved(p) THEN Holds(p, draft[p].secret) ELSE Kept(p)

Undoing(p) ==
    pc[p] = "undone" =>
        /\ profile[Conn(p)] = before[p].profile
        /\ Do(p) # "create" /\ (cred[p].op = "none" \/ cred[p].at = "clean") =>
              Holds(p, before[p].secret)

Removing(p) ==
    /\ pc[p] \in {"removed", "restore"} => profile[Conn(p)] = NoProfile
    /\ pc[p] = "removed" /\ (cred[p].op # "none" \/ got[p].is # "ok") => Holds(p, before[p].secret)
    /\ pc[p] = "removed" /\ cred[p].op = "none" /\ got[p].is # "ok" => faults > 0
    /\ pc[p] = "restore" => faults > 0 /\ Holds(p, before[p].secret)
    /\ pc[p] = "restore" /\ cred[p].op = "none" => got[p].is # "error"

OnCourse(p) ==
    /\ Fits(before[p].profile, before[p].secret)
    /\ pc[p] \notin {"stored", "undone", "removed", "restore"} => Kept(p)
    /\ KnowsRow(p) /\ Answered(p) /\ Storing(p) /\ Undoing(p) /\ Removing(p)

\* A connection at rest: its secret is of its kind, and the one that was announced.
Settled(c) ==
    \A r \in Refs : r = profile[c].ref =>
        /\ Fits(profile[c], StoredSecret(r))
        /\ faults = 0 => announced[c] = StoredSecret(r)

CourseOf(c) ==
    /\ Quiet(c) => Settled(c)
    /\ \A p \in Procs : Running(p) /\ Conn(p) = c => OnCourse(p)

CourseInv == crashes = 0 /\ faults <= 1 => \A c \in Conns : c \notin overlapped => CourseOf(c)

LEMMA KeptFrame ==
  ASSUME NEW p, Kept(p), cmd'[p] = cmd[p], before'[p] = before[p],
         profile'[Conn(p)] = profile[Conn(p)], announced'[Conn(p)] = announced[Conn(p)],
         faults \in Nat, faults' \in Nat, faults <= faults',
         \A r \in Refs : r = before[p].profile.ref => StoredSecret(r)' = StoredSecret(r)
  PROVE  Kept(p)'
<1>1. Conn(p)' = Conn(p)
  BY DEF Conn
<1>2. faults' = 0 => faults = 0
  OBVIOUS
<1> QED
  BY <1>1, <1>2 DEF Kept

\* A connection that is kept is at rest when its command has ended.
LEMMA KeptSettles ==
  ASSUME NEW p, NEW c, Conn(p)' = c, Kept(p)', Fits(before'[p].profile, before'[p].secret)
  PROVE  Settled(c)'
<1>1. /\ profile'[c] = before'[p].profile
      /\ \A r \in Refs : r = before'[p].profile.ref => StoredSecret(r)' = before'[p].secret
      /\ before'[p].profile # NoProfile /\ faults' = 0 => announced'[c] = before'[p].secret
  BY DEF Kept
<1>2. NoProfile.ref \notin Refs
  BY ControlAssumption DEF NoProfile
<1> QED
  BY <1>1, <1>2 DEF Settled, Fits

\* A command is on its course whatever others do to what is not its own.
LEMMA CourseFrame ==
  ASSUME NEW p, OnCourse(p), Own(p)' = Own(p), before'[p] = before[p],
         profile'[Conn(p)] = profile[Conn(p)], announced'[Conn(p)] = announced[Conn(p)],
         faults \in Nat, faults' \in Nat, faults <= faults',
         \A r \in Refs : r \in {before[p].profile.ref, OwnRef(p)} =>
             header'[r] = header[r] /\ StoredSecret(r)' = StoredSecret(r)
  PROVE  OnCourse(p)'
<1>1. /\ pc'[p] = pc[p] /\ cmd'[p] = cmd[p] /\ existing'[p] = existing[p] /\ draft'[p] = draft[p]
      /\ previous'[p] = previous[p] /\ cred'[p] = cred[p] /\ got'[p] = got[p]
  BY DEF Own
<1>2. Conn(p)' = Conn(p) /\ Do(p)' = Do(p) /\ OwnRef(p)' = OwnRef(p) /\ (Moved(p)' <=> Moved(p))
  BY <1>1 DEF Conn, Do, OwnRef, Moved
<1>3. (faults' = 0 => faults = 0) /\ (faults > 0 => faults' > 0)
  OBVIOUS
<1>4. Kept(p) => Kept(p)'
  BY <1>1, KeptFrame
<1>5. ASSUME NEW s PROVE Holds(p, s) => \A r \in Refs : r = OwnRef(p)' => StoredSecret(r)' = s
  BY <1>2 DEF Holds
<1>6. Fits(before[p].profile, before[p].secret)' /\ KnowsRow(p)' /\ Answered(p)'
  BY <1>1, <1>2 DEF OnCourse, Fits, KnowsRow, Answered
<1>7. Storing(p)' /\ Undoing(p)'
  BY <1>1, <1>2, <1>4, <1>5 DEF OnCourse, Storing, Undoing, Holds
<1>8. Removing(p)'
  BY <1>1, <1>2, <1>3, <1>5 DEF OnCourse, Removing, Holds
<1> QED
  BY <1>1, <1>4, <1>6, <1>7, <1>8 DEF OnCourse

\* A store operation keeps its command on its course: a get returns what is there, a put
\* or a delete has an effect or fails.
LEMMA CourseCred ==
  ASSUME TypeOK, AllPrepared, StoreInv, ContentsInv, AllKeyCalls, AllFits, NEW p \in Procs,
         CredStep(p), UNCHANGED ctlVars, OnCourse(p), faults' <= 1
  PROVE  OnCourse(p)'
<1>1. /\ UNCHANGED <<pc, cmd, existing, draft, previous, before, profile, announced>>
      /\ Conn(p)' = Conn(p) /\ Do(p)' = Do(p) /\ OwnRef(p)' = OwnRef(p)
  BY DEF ctlVars, Conn, Do, OwnRef
<1>2. /\ cred[p].op # "none"
      /\ \/ cred'[p] = NoCred
         \/ cred'[p].op = cred[p].op
  BY CallKept
<1>3. faults \in Nat /\ faults' \in Nat /\ faults <= faults'
  BY CountersGrow
<1>4. PICK ref : ref = cred[p].ref
  OBVIOUS
<1>5. /\ \A r \in Refs : r # ref => header'[r] = header[r]
      /\ \A r \in Refs : header'[r] = header[r] => StoredSecret(r)' = StoredSecret(r)
      /\ header'[ref] # header[ref] /\ cred[p].op = "put" =>
            header'[ref] # Nothing /\ StoredSecret(ref)' = cred[p].secret
      /\ header' # header => cred[p].op \in {"put", "delete"}
  BY <1>4, StoreEffect
<1>6. CallFits(p) /\ KeyCalls(p) /\ DoAt(p) /\ HasRow(p) /\ HasSecret(p) /\ Running(p) /\ ref \in Refs
  BY <1>2, <1>4 DEF AllFits, AllKeyCalls, AllPrepared, Prepared, CredKnown
<1>7. pc[p] \notin {"key", "keystored"} => ref = OwnRef(p)
  BY <1>2, <1>4, <1>6 DEF CallFits
<1>8. /\ Nothing \notin Refs /\ KeyRef \notin UserRefs /\ NoProfile.ref = Nothing
      /\ \A row \in ProfileType : row # NoProfile /\ row.ref \in UserRefs
      /\ before[p].profile \in ProfileType \cup {NoProfile}
  BY ControlAssumption DEF UserRefs, ProfileType, NoProfile, TypeOK
<1>9. /\ Fits(before[p].profile, before[p].secret)' /\ KnowsRow(p)'
      /\ Fits(before[p].profile, before[p].secret)
  BY <1>1 DEF OnCourse, KnowsRow, Fits
<1>10. Kept(p) /\ StoredSecret(ref)' = StoredSecret(ref) => Kept(p)'
  <2>1. \A r \in Refs : StoredSecret(ref)' = StoredSecret(ref) => StoredSecret(r)' = StoredSecret(r)
    BY <1>5
  <2> QED
    BY <1>1, <1>3, <2>1, KeptFrame

\* A command that knows its row works on the reference it found there.
<1>11. ASSUME pc[p] \in {"save", "stored", "undone", "remove", "removed", "restore"}, Do(p) # "create"
       PROVE  /\ existing[p] \in ProfileType /\ before[p].profile = existing[p]
              /\ ref = before[p].profile.ref /\ before[p].secret # Nothing
  BY <1>6, <1>7, <1>8, <1>9, <1>11 DEF HasRow, OnCourse, KnowsRow, OwnRef, Fits
<1>12. CASE pc[p] \in {"key", "keystored"}
  <2>1. ref = KeyRef /\ ref # before[p].profile.ref
    BY <1>2, <1>4, <1>6, <1>8, <1>12 DEF KeyCalls
  <2>2. \A r \in Refs : r = before[p].profile.ref => StoredSecret(r)' = StoredSecret(r)
    BY <1>5, <2>1
  <2>3. Kept(p)
    BY <1>12 DEF OnCourse
  <2>4. Kept(p)'
    BY <1>1, <1>3, <2>2, <2>3, KeptFrame
  <2> QED
    BY <1>1, <1>9, <1>12, <2>4 DEF OnCourse, Answered, Storing, Undoing, Removing
<1>13. CASE pc[p] \in {"test", "reread"}
  <2>1. cred[p].op = "get"
    BY <1>2, <1>6, <1>13 DEF CallFits
  <2>2. StoredSecret(ref)' = StoredSecret(ref)
    BY <1>5, <1>6, <2>1
  <2> QED
    BY <1>1, <1>9, <1>10, <1>13, <2>2 DEF OnCourse, Answered, Storing, Undoing, Removing
<1>14. CASE pc[p] \in {"save", "remove"}
  <2>1. cred[p].op = "get" /\ Do(p) # "create"
    BY <1>2, <1>6, <1>14 DEF CallFits, DoAt
  <2>2. StoredSecret(ref)' = StoredSecret(ref)
    BY <1>5, <1>6, <2>1
  <2>3. Kept(p) /\ Kept(p)' /\ Answered(p)
    BY <1>10, <1>14, <2>2 DEF OnCourse
  <2>4. StoredSecret(ref) = before[p].secret /\ before[p].secret # Nothing
    BY <1>6, <1>11, <1>14, <2>1, <2>3 DEF Kept
  <2>5. header[ref] # Nothing
    BY <2>4 DEF StoredSecret
  <2>6. cred[p].at # "begin" => cred[p].gen = header[ref]
    BY <1>2, <1>6, <1>7, <1>14, <2>3 DEF Answered
  <2>7. /\ UNCHANGED header
        /\ \/ cred'[p].op = "none" /\ got'[p].is = "error"
           \/ cred'[p].op = "none" /\ got'[p].is = "ok" /\ got'[p].secret = StoredSecret(ref)
           \/ cred'[p].op = "get" /\ cred'[p].gen = header[ref]
    BY <1>4, <1>6, <2>1, <2>5, <2>6, GetOutcome
  <2>8. Answered(p)'
    BY <1>1, <1>7, <1>14, <2>4, <2>7 DEF Answered
  <2> QED
    BY <1>1, <1>9, <1>14, <2>3, <2>8 DEF OnCourse, Storing, Undoing, Removing
<1>15. ASSUME cred[p].op = "put"
       PROVE  \/ /\ StoredSecret(ref)' = StoredSecret(ref) /\ cred[p].at # "clean"
                 /\ cred'[p].op = "none" /\ got'[p].is = "error" /\ faults' = faults + 1
              \/ /\ StoredSecret(ref)' = StoredSecret(ref) /\ cred[p].at # "clean"
                 /\ cred'[p].op = "put" /\ cred'[p].at # "clean"
              \/ /\ StoredSecret(ref)' = StoredSecret(ref) /\ cred[p].at = "clean"
                 /\ cred'[p].op = "none" /\ got'[p].is = "ok"
              \/ /\ StoredSecret(ref)' = cred[p].secret /\ cred[p].at # "clean"
                 /\ \/ cred'[p].op = "none" /\ got'[p].is = "ok"
                    \/ cred'[p].op = "put" /\ cred'[p].at = "clean"
  BY <1>4, <1>5, <1>6, <1>15, PutOutcome
<1>16. CASE pc[p] = "stored"
  <2>1. cred[p].op = "put" /\ cred[p].secret = draft[p].secret /\ Storing(p)
    BY <1>2, <1>6, <1>16 DEF CallFits, OnCourse
  <2>2. /\ cred[p].at = "clean" => Holds(p, draft[p].secret)
        /\ cred[p].at # "clean" => Kept(p)
    BY <1>16, <2>1 DEF Storing, Moved
  <2>3. CASE StoredSecret(ref)' = StoredSecret(ref) /\ ~Moved(p)' /\ cred[p].at # "clean"
    <3>1. Kept(p)'
      BY <1>10, <2>2, <2>3
    <3>2. Storing(p)'
      BY <2>3, <3>1 DEF Storing, Kept
    <3> QED
      BY <1>1, <1>9, <1>16, <3>2 DEF OnCourse, Answered, Undoing, Removing
  <2>4. CASE StoredSecret(ref)' = draft[p].secret /\ Moved(p)'
    <3>1. Holds(p, draft[p].secret)'
      BY <1>1, <1>6, <1>7, <1>16, <2>4 DEF Holds
    <3>2. Storing(p)'
      BY <1>1, <1>16, <2>1, <2>4, <3>1 DEF Storing
    <3> QED
      BY <1>1, <1>9, <1>16, <3>2 DEF OnCourse, Answered, Undoing, Removing
  <2>5. cred[p].at = "clean" => StoredSecret(ref) = draft[p].secret
    BY <1>6, <1>7, <1>16, <2>2 DEF Holds
  <2> QED
    BY <1>15, <2>1, <2>3, <2>4, <2>5 DEF Moved
<1>17. CASE pc[p] = "undone"
  <2>1. Undoing(p) /\ faults > 0
    BY <1>6, <1>17 DEF CallFits, OnCourse
  <2>2. CASE Do(p) = "create"
    BY <1>1, <1>9, <1>17, <2>1, <2>2 DEF OnCourse, Answered, Storing, Undoing, Removing
  <2>3. CASE Do(p) # "create"
    <3>1. previous[p] = before[p].secret /\ before[p].secret # Nothing
      BY <1>11, <1>17, <2>3 DEF OnCourse, KnowsRow
    <3>2. cred[p].op = "put" /\ cred[p].secret = before[p].secret
      BY <1>2, <1>6, <1>17, <3>1 DEF CallFits
    <3>3. faults' # faults + 1
      BY <1>3, <2>1
    <3>4. cred[p].at = "clean" => StoredSecret(ref) = before[p].secret
      BY <1>6, <1>7, <1>17, <2>1, <2>3 DEF Undoing, Holds
    <3>5. cred'[p].op = "none" \/ cred'[p].at = "clean" => StoredSecret(ref)' = before[p].secret
      BY <1>15, <3>2, <3>3, <3>4
    <3>6. cred'[p].op = "none" \/ cred'[p].at = "clean" => Holds(p, before[p].secret)'
      BY <1>1, <1>6, <1>7, <1>17, <3>5 DEF Holds
    <3>7. Undoing(p)'
      BY <1>1, <2>1, <3>6 DEF Undoing
    <3> QED
      BY <1>1, <1>9, <1>17, <3>7 DEF OnCourse, Answered, Storing, Removing
  <2> QED
    BY <2>2, <2>3
<1>18. CASE pc[p] \in {"removed", "restore"}
  <2>1. Removing(p) /\ Do(p) # "create" /\ profile[Conn(p)] = NoProfile
    BY <1>6, <1>18 DEF OnCourse, DoAt, Removing
  <2>2. StoredSecret(ref) = before[p].secret /\ before[p].secret # Nothing
    BY <1>2, <1>6, <1>7, <1>11, <1>18, <2>1 DEF Removing, Holds
  <2>3. ASSUME StoredSecret(ref)' = before[p].secret PROVE Holds(p, before[p].secret)'
    BY <1>1, <1>6, <1>7, <1>18, <2>3 DEF Holds
  <2>4. CASE pc[p] = "removed"
    <3>1. cred[p].op = "delete"
      BY <1>2, <1>6, <2>4 DEF CallFits
    <3>2. header[ref] # Nothing
      BY <2>2 DEF StoredSecret
    <3>3. \/ /\ StoredSecret(ref)' = before[p].secret /\ faults' = faults + 1
             /\ cred'[p].op = "none" /\ got'[p].is = "error"
          \/ StoredSecret(ref)' = before[p].secret /\ cred'[p].op = "delete"
          \/ cred'[p].op = "none" /\ got'[p].is = "ok"
      BY <1>4, <1>5, <1>6, <2>2, <3>1, <3>2, DeleteOutcome
    <3>4. faults' = faults + 1 => faults' > 0
      BY <1>3
    <3>5. Removing(p)'
      BY <1>1, <2>1, <2>3, <2>4, <3>3, <3>4 DEF Removing
    <3> QED
      BY <1>1, <1>9, <2>4, <3>5 DEF OnCourse, Answered, Storing, Undoing
  <2>5. CASE pc[p] = "restore"
    <3>1. /\ cred[p].op = "put" /\ cred[p].secret = previous[p] /\ previous[p] = before[p].secret
          /\ faults > 0
      BY <1>2, <1>6, <2>1, <2>5 DEF CallFits, OnCourse, KnowsRow, Removing
    <3>2. faults' # faults + 1 /\ faults' > 0
      BY <1>3, <3>1
    <3>3. StoredSecret(ref)' = before[p].secret
      BY <1>15, <2>2, <3>1
    <3>4. cred'[p].op = "none" => got'[p].is # "error"
      BY <1>15, <3>1, <3>2
    <3>5. Removing(p)'
      BY <1>1, <2>1, <2>3, <2>5, <3>2, <3>3, <3>4 DEF Removing
    <3> QED
      BY <1>1, <1>9, <2>5, <3>5 DEF OnCourse, Answered, Storing, Undoing
  <2> QED
    BY <1>18, <2>4, <2>5
<1>19. pc[p] \in {"key", "keystored", "test", "reread", "save", "remove", "stored", "undone",
                  "removed", "restore"}
  <2>1. pc[p] \in Stations \ {"idle", "read", "write"}
    BY <1>2, <1>6 DEF CallFits, TypeOK
  <2> QED
    BY <1>6, <2>1 DEF Stations, Running
<1> QED
  BY <1>12, <1>13, <1>14, <1>16, <1>17, <1>18, <1>19

\* What a step of a command on its course leads to: it goes on, or it has ended and its
\* connection is at rest, as it was if the command failed.
Outcome(p, c) ==
    IF Running(p)' THEN OnCourse(p)'
    ELSE Settled(c)' /\ (result'[p] # "ok" => Kept(p)')

\* Steps before anything is stored.
LEMMA CourseBefore ==
  ASSUME TypeOK, AllPrepared, AllFits, NEW p \in Procs, NEW c \in Conns, Conn(p) = c, OnCourse(p),
         Read(p) \/ Test(p) \/ Reread(p) \/ Save(p) \/ LoadKey(p) \/ KeyStored(p) \/ Issue(p)
  PROVE  Outcome(p, c)
<1>1. CommandStep(p)
  BY DEF CommandStep
<1>2. /\ UNCHANGED <<cmd, before, profile, announced, header, chunks>> /\ faults' = faults
      /\ pc[p] \in {"read", "test", "reread", "save", "key", "keystored"} /\ cred[p].op = "none"
      /\ Conn(p)' = c /\ Do(p)' = Do(p)
  BY DEF Read, Test, Reread, Save, LoadKey, KeyStored, Issue, NoWrite, NoStoreStep, AtStation, Conn, Do
<1>3. faults \in Nat
  BY DEF TypeOK
<1>4. Kept(p) /\ Fits(before[p].profile, before[p].secret) /\ KnowsRow(p) /\ Answered(p)
  BY <1>2 DEF OnCourse
<1>5. \A r \in Refs : StoredSecret(r)' = StoredSecret(r)
  BY <1>2 DEF StoredSecret, Found
<1>6. Kept(p)'
  BY <1>2, <1>3, <1>4, <1>5, KeptFrame
<1>7. Fits(before'[p].profile, before'[p].secret) /\ Fits(before[p].profile, before[p].secret)'
  BY <1>2, <1>4
<1>8. Settled(c)'
  BY <1>2, <1>6, <1>7, KeptSettles
<1>9. /\ \A r : End(p, r) => pc'[p] = "ended"
      /\ \A s : To(p, s) => pc'[p] = s
      /\ \A op, ref, secret, s : Via(p, op, ref, secret, s) =>
               pc'[p] = s /\ cred'[p].op = op /\ cred'[p].at = "begin"
      /\ NoCredCall => cred'[p] = cred[p]
  BY Moves
<1>10. CallFits(p) /\ DoAt(p) /\ profile[c] = before[p].profile
  BY <1>4 DEF AllFits, AllPrepared, Prepared, Kept
<1>11. CASE ~Running(p)'
  BY <1>6, <1>8, <1>11 DEF Outcome
<1>12. ASSUME pc'[p] \in {"test", "reread", "write", "read", "key", "keystored"},
              pc'[p] \notin {"read", "key", "keystored"} /\ Do(p) # "create" =>
                  existing'[p] = before[p].profile
       PROVE  Outcome(p, c)
  <2>1. KnowsRow(p)'
    BY <1>2, <1>12 DEF KnowsRow
  <2> QED
    BY <1>6, <1>7, <1>8, <1>12, <2>1 DEF Outcome, OnCourse, Answered, Storing, Undoing, Removing
<1>13. ASSUME pc'[p] \in {"save", "remove"}, cred'[p].op # "none", cred'[p].at = "begin",
              existing'[p] = before[p].profile
       PROVE  Outcome(p, c)
  <2>1. KnowsRow(p)' /\ Answered(p)'
    BY <1>2, <1>13 DEF KnowsRow, Answered
  <2> QED
    BY <1>6, <1>7, <1>8, <1>13, <2>1 DEF Outcome, OnCourse, Storing, Undoing, Removing
<1>14. ASSUME pc'[p] = "stored", cred'[p].op = "put", cred'[p].at = "begin", KnowsRow(p)'
       PROVE  Outcome(p, c)
  <2>1. Storing(p)'
    BY <1>6, <1>14 DEF Storing, Moved, Kept
  <2> QED
    BY <1>6, <1>7, <1>8, <1>14, <2>1 DEF Outcome, OnCourse, Answered, Undoing, Removing
<1>15. CASE Read(p)
  <2>1. CASE ReadCreate(p)
    <3>1. \/ pc'[p] = "ended"
          \/ /\ ~Exists(c) /\ pc'[p] = "stored" /\ cred'[p].op = "put" /\ cred'[p].at = "begin"
      BY <1>9, <2>1 DEF ReadCreate
    <3>2. CASE pc'[p] = "ended"
      BY <1>11, <3>2 DEF Running
    <3>3. CASE ~Exists(c) /\ pc'[p] = "stored" /\ cred'[p].op = "put" /\ cred'[p].at = "begin"
      <4>1. Do(p) = "create" /\ before[p].profile = NoProfile
        BY <1>10, <2>1, <3>3 DEF Exists, ReadCreate
      <4>2. KnowsRow(p)'
        BY <1>2, <3>3, <4>1 DEF KnowsRow
      <4> QED
        BY <1>14, <3>3, <4>2
    <3> QED
      BY <3>1, <3>2, <3>3
  <2>2. CASE ReadRow(p)
    <3>1. existing'[p] = before[p].profile
      BY <1>10, <2>2 DEF ReadRow, TypeOK
    <3>2. \/ pc'[p] \in {"ended", "write", "reread", "test"}
          \/ pc'[p] = "remove" /\ cred'[p].op = "get" /\ cred'[p].at = "begin"
      BY <1>9, <2>2 DEF ReadRow, ReadSetPolicy, ReadSetEnabled, ReadUpdateProfile,
         ReadUpdateConnection, ReadRotate, ReadDelete, ReadTestSaved
    <3> QED
      BY <1>11, <1>12, <1>13, <3>1, <3>2 DEF Running
  <2> QED
    BY <1>15, <2>1, <2>2 DEF Read
<1>16. CASE Test(p)
  <2>1. pc'[p] \in {"ended", "reread"} /\ existing' = existing /\ pc[p] = "test"
    BY <1>9, <1>16 DEF Test, AtStation
  <2>2. Do(p) # "create" => existing'[p] = before[p].profile
    BY <1>4, <2>1 DEF KnowsRow
  <2> QED
    BY <1>11, <1>12, <2>1, <2>2 DEF Running
<1>17. CASE Reread(p)
  <2>1. existing'[p] = before[p].profile
    BY <1>10, <1>17 DEF Reread, TypeOK
  <2>2. \/ pc'[p] \in {"ended", "write"}
        \/ pc'[p] = "save" /\ cred'[p].op = "get" /\ cred'[p].at = "begin"
    BY <1>9, <1>17 DEF Reread
  <2> QED
    BY <1>11, <1>12, <1>13, <2>1, <2>2 DEF Running
<1>18. CASE Save(p)
  <2>1. pc[p] = "save" /\ existing' = existing /\ Do(p) # "create"
    BY <1>10, <1>18 DEF Save, AtStation, DoAt
  <2>2. CASE End(p, "credential_store_error")
    BY <1>9, <1>11, <2>2 DEF Running
  <2>3. CASE /\ got[p].is # "error" /\ previous' = [previous EXCEPT ![p] = got[p].secret]
             /\ Via(p, "put", existing[p].ref, draft[p].secret, "stored")
    <3>1. previous'[p] = before[p].secret
      BY <1>2, <1>4, <2>1, <2>3 DEF Answered, TypeOK
    <3>2. existing'[p] = before[p].profile
      BY <1>4, <2>1 DEF KnowsRow
    <3>3. KnowsRow(p)'
      BY <1>2, <1>9, <2>1, <2>3, <3>1, <3>2 DEF KnowsRow
    <3> QED
      BY <1>9, <1>14, <2>3, <3>3
  <2> QED
    BY <1>18, <2>2, <2>3 DEF Save
<1>19. CASE LoadKey(p) \/ KeyStored(p) \/ Issue(p)
  <2>1. pc'[p] \in {"ended", "read", "keystored"}
    <3>1. got[p].secret \in Secrets \cup {Nothing} /\ draft[p].secret \in Secrets \cup {Nothing}
      BY DEF TypeOK, GotType
    <3> QED
      BY <1>9, <1>19, <3>1, KeyStep DEF Issue
  <2> QED
    BY <1>11, <1>12, <2>1 DEF Running
<1> QED
  BY <1>15, <1>16, <1>17, <1>18, <1>19

\* Steps once something is stored.
LEMMA CourseAfter ==
  ASSUME TypeOK, AllPrepared, AllFits, NEW p \in Procs, NEW c \in Conns, Conn(p) = c, OnCourse(p),
         faults' <= 1,
         SecretStored(p) \/ Undone(p) \/ Write(p) \/ Remove(p) \/ Removed(p) \/ Restore(p)
  PROVE  Outcome(p, c)
<1>1. CommandStep(p)
  BY DEF CommandStep
<1>2. /\ UNCHANGED <<cmd, before, header, chunks, existing, draft>> /\ cred[p].op = "none"
      /\ pc[p] \in {"stored", "undone", "write", "remove", "removed", "restore"}
      /\ UNCHANGED got
  BY DEF SecretStored, Undone, Write, Remove, Removed, Restore, NoStoreStep, AtStation
<1>3. /\ Conn(p)' = c /\ Do(p)' = Do(p) /\ OwnRef(p)' = OwnRef(p) /\ before'[p] = before[p]
      /\ existing'[p] = existing[p]
  BY <1>2 DEF Conn, Do, OwnRef
<1>4. faults \in Nat /\ faults' \in Nat /\ faults <= faults'
  BY <1>1, CountersGrow
<1>5. \A r : StoredSecret(r)' = StoredSecret(r)
  BY <1>2 DEF StoredSecret, Found
<1>6. /\ Fits(before[p].profile, before[p].secret) /\ KnowsRow(p) /\ Answered(p) /\ Storing(p)
      /\ Undoing(p) /\ Removing(p)
      /\ pc[p] \in {"write", "remove"} => Kept(p)
      /\ CallFits(p) /\ DraftAgrees(p) /\ DoAt(p) /\ HasRow(p) /\ HasSecret(p) /\ HasDraft(p)
  BY <1>2 DEF OnCourse, AllFits, AllPrepared, Prepared
<1>7. Fits(before'[p].profile, before'[p].secret) /\ Fits(before[p].profile, before[p].secret)'
  BY <1>3, <1>6 DEF Fits
<1>8. /\ Nothing \notin Refs /\ NoProfile.ref = Nothing
      /\ \A row \in ProfileType : row # NoProfile /\ row.ref \in UserRefs /\ row.ref \in Refs
  BY ControlAssumption DEF UserRefs, ProfileType, NoProfile
<1>9. /\ \A r : End(p, r) => pc'[p] = "ended" /\ result'[p] = r
      /\ \A op, ref, secret, s : Via(p, op, ref, secret, s) =>
               pc'[p] = s /\ cred'[p].op = op /\ cred'[p].at = "begin"
  BY Moves
<1>10. c \in DOMAIN profile /\ c \in DOMAIN announced
  BY DEF TypeOK

\* A command that ends as it found its connection.
<1>11. ASSUME Kept(p)', pc'[p] = "ended" PROVE Outcome(p, c)
  BY <1>3, <1>7, <1>11, KeptSettles DEF Outcome, Running
<1>12. ASSUME Kept(p), NoWrite PROVE Kept(p)'
  BY <1>2, <1>4, <1>5, <1>12, KeptFrame DEF NoWrite

\* A command that ends well with a row and its secret.
<1>13. ASSUME NEW row \in ProfileType, profile'[c] = row, announced'[c] = StoredSecret(row.ref),
              StoredSecret(row.ref) # Nothing, StoredSecret(row.ref).kind = row.kind,
              pc'[p] = "ended", result'[p] = "ok"
       PROVE  Outcome(p, c)
  BY <1>5, <1>13 DEF Outcome, Running, Settled, Fits

\* The reference a command other than a creation works on is the one it found.
<1>14. ASSUME Do(p) # "create", pc[p] # "write"
       PROVE  /\ existing[p] \in ProfileType /\ existing[p] = before[p].profile
              /\ OwnRef(p) = before[p].profile.ref /\ OwnRef(p) \in Refs /\ before[p].profile # NoProfile
              /\ before[p].secret # Nothing /\ before[p].secret.kind = before[p].profile.kind
  BY <1>2, <1>6, <1>8, <1>14 DEF HasRow, KnowsRow, OwnRef, Fits
<1>15. Nothing \notin Secrets
  BY CredentialAssumption DEF Secrets
<1>16. CASE SecretStored(p)
  <2>1. pc[p] = "stored" /\ profile[c] = before[p].profile /\ draft[p].secret \in Secrets
    BY <1>6, <1>16 DEF SecretStored, AtStation, Storing, HasSecret
  <2>2. CASE got[p].is = "error" /\ End(p, "credential_store_error") /\ NoWrite
    <3>1. Kept(p)
      BY <1>2, <1>6, <2>1, <2>2 DEF Storing, Moved
    <3> QED
      BY <1>9, <1>11, <1>12, <2>2, <3>1
  <2>3. got[p].is = "ok" => \A r \in Refs : r = OwnRef(p) => StoredSecret(r) = draft[p].secret
    BY <1>2, <1>6, <2>1 DEF Storing, Moved, Holds
  <2>4. CASE got[p].is = "ok" /\ AfterSecret(p) /\ End(p, "ok")
    <3>1. CASE Rotates(p)
      <4>1. Do(p) # "create"
        BY <3>1 DEF Rotates
      <4>2. profile' = profile /\ announced'[c] = StoredSecret(profile[c].ref)
        BY <1>10, <1>14, <2>1, <2>4, <3>1, <4>1 DEF AfterSecret, NotifyChanged, Exists
      <4>3. existing[p].kind = draft[p].secret.kind
        BY <1>6, <2>1, <3>1 DEF DraftAgrees
      <4> QED
        BY <1>9, <1>13, <1>14, <1>15, <2>1, <2>3, <2>4, <4>1, <4>2, <4>3
    <3>2. CASE ~Rotates(p)
      <4>1. Do(p) \in {"create", "update_connection"}
        BY <1>6, <2>1, <3>2 DEF DoAt, Rotates
      <4>2. draft[p].profile \in ProfileType
        BY <1>6, <2>1, <4>1 DEF HasDraft
      <4>3. draft[p].profile.ref = OwnRef(p) /\ draft[p].profile.kind = draft[p].secret.kind
        BY <1>6, <2>1, <3>2 DEF DraftAgrees
      <4>4. profile'[c] = draft[p].profile /\ announced'[c] = StoredSecret(draft[p].profile.ref)
        BY <1>8, <1>10, <2>4, <3>2, <4>2 DEF AfterSecret, Upsert
      <4> QED
        BY <1>8, <1>9, <1>13, <1>15, <2>1, <2>3, <2>4, <4>2, <4>3, <4>4
    <3> QED
      BY <3>1, <3>2
  <2>5. CASE NoWrite /\ Undo(p)
    <3>1. pc'[p] = "undone" /\ cred'[p].op # "none" /\ cred'[p].at = "begin"
      BY <1>9, <2>5 DEF Undo
    <3>2. previous'[p] = previous[p] /\ profile' = profile
      BY <1>16, <2>5 DEF SecretStored, NoWrite
    <3>3. KnowsRow(p)'
      BY <1>3, <1>6, <2>1, <3>1, <3>2 DEF KnowsRow
    <3>4. Undoing(p)'
      BY <1>3, <2>1, <3>1, <3>2 DEF Undoing
    <3> QED
      BY <1>7, <3>1, <3>3, <3>4 DEF Outcome, Running, OnCourse, Answered, Storing, Removing
  <2> QED
    BY <1>16, <2>2, <2>4, <2>5 DEF SecretStored
<1>17. CASE Undone(p)
  <2>1. /\ pc[p] = "undone" /\ faults > 0 /\ faults' = faults /\ profile' = profile
        /\ profile[c] = before[p].profile /\ pc'[p] = "ended"
    BY <1>6, <1>9, <1>17 DEF Undone, AtStation, CallFits, Undoing, NoWrite
  <2>2. \A r \in Refs : r = before[p].profile.ref => StoredSecret(r) = before[p].secret
    <3>1. CASE Do(p) = "create"
      BY <1>6, <1>8, <2>1, <3>1 DEF KnowsRow
    <3>2. CASE Do(p) # "create"
      BY <1>2, <1>6, <1>14, <2>1, <3>2 DEF Undoing, Holds
    <3> QED
      BY <3>1, <3>2
  <2>3. Kept(p)'
    BY <1>3, <1>5, <2>1, <2>2 DEF Kept
  <2> QED
    BY <1>11, <2>1, <2>3
<1>18. CASE Write(p)
  <2>1. pc[p] = "write" /\ Kept(p) /\ draft[p].profile \in ProfileType /\ Do(p) # "create"
    BY <1>6, <1>18 DEF Write, AtStation, HasDraft, DoAt
  <2>2. existing[p] = before[p].profile
    BY <1>6, <2>1 DEF KnowsRow
  <2>3. draft[p].profile.ref = before[p].profile.ref /\ draft[p].profile.kind = before[p].profile.kind
    BY <1>6, <2>1, <2>2 DEF DraftAgrees
  <2>4. before[p].profile # NoProfile
    BY <1>8, <2>1, <2>3
  <2>5. before[p].secret # Nothing /\ before[p].secret.kind = before[p].profile.kind
    BY <1>6, <2>4 DEF Fits
  <2>6. StoredSecret(draft[p].profile.ref) = before[p].secret
    BY <1>8, <2>1, <2>3 DEF Kept
  <2>7. CASE Upsert(c, draft[p].profile) /\ End(p, "ok")
    <3>1. profile'[c] = draft[p].profile /\ announced'[c] = StoredSecret(draft[p].profile.ref)
      BY <1>8, <1>10, <2>1, <2>7 DEF Upsert
    <3> QED
      BY <1>9, <1>13, <2>1, <2>3, <2>5, <2>6, <2>7, <3>1
  <2>8. CASE NoWrite /\ End(p, "storage_error")
    BY <1>9, <1>11, <1>12, <2>1, <2>8
  <2> QED
    BY <1>18, <2>7, <2>8 DEF Write
<1>19. CASE Remove(p)
  <2>1. pc[p] = "remove" /\ Kept(p) /\ Do(p) = "delete"
    BY <1>6, <1>19 DEF Remove, AtStation, DoAt
  <2>2. got[p].is = "error" \/ (got[p].is = "ok" /\ got[p].secret = before[p].secret)
    BY <1>2, <1>6, <2>1 DEF Answered
  <2>3. CASE pc'[p] = "ended" /\ NoWrite
    BY <1>11, <1>12, <2>1, <2>3
  <2>4. CASE /\ got[p].is # "error" /\ Upsert(c, NoProfile)
             /\ previous' = [previous EXCEPT ![p] = got[p].secret]
             /\ IF got[p].is = "NotFound" THEN End(p, "ok") /\ NoCredCall
                ELSE Via(p, "delete", existing[p].ref, Nothing, "removed")
    <3>1. pc'[p] = "removed" /\ cred'[p].op = "delete" /\ previous'[p] = before[p].secret
      BY <1>9, <2>2, <2>4 DEF TypeOK
    <3>2. profile'[c] = NoProfile
      BY <1>10, <2>4 DEF Upsert
    <3>3. KnowsRow(p)'
      BY <1>3, <1>14, <2>1, <3>1 DEF KnowsRow
    <3>4. Holds(p, before[p].secret)'
      BY <1>3, <1>5, <1>14, <2>1 DEF Holds, Kept
    <3>5. Removing(p)'
      BY <1>3, <3>1, <3>2, <3>4 DEF Removing
    <3> QED
      BY <1>7, <3>1, <3>3, <3>5 DEF Outcome, Running, OnCourse, Answered, Storing, Undoing
  <2> QED
    BY <1>9, <1>19, <2>3, <2>4 DEF Remove
<1>20. CASE Removed(p)
  <2>1. /\ pc[p] = "removed" /\ Do(p) = "delete" /\ profile[c] = NoProfile /\ profile' = profile
        /\ faults' = faults /\ previous' = previous
    BY <1>6, <1>20 DEF Removed, AtStation, DoAt, Removing, NoWrite
  <2>2. CASE got[p].is = "ok" /\ End(p, "ok")
    <3>1. Settled(c)'
      BY <1>8, <2>1 DEF Settled
    <3> QED
      BY <1>9, <2>2, <3>1 DEF Outcome, Running
  <2>3. CASE got[p].is # "ok" /\ Via(p, "put", existing[p].ref, previous[p], "restore")
    <3>1. pc'[p] = "restore" /\ cred'[p].op = "put"
      BY <1>9, <2>3
    <3>2. faults > 0 /\ Holds(p, before[p].secret)
      BY <1>2, <1>6, <2>1, <2>3 DEF Removing
    <3>3. Holds(p, before[p].secret)'
      BY <1>3, <1>5, <3>2 DEF Holds
    <3>4. Removing(p)' /\ KnowsRow(p)'
      BY <1>3, <1>6, <2>1, <3>1, <3>2, <3>3 DEF Removing, KnowsRow
    <3> QED
      BY <1>7, <3>1, <3>4 DEF Outcome, Running, OnCourse, Answered, Storing, Undoing
  <2> QED
    BY <1>20, <2>2, <2>3 DEF Removed
<1>21. CASE Restore(p)
  <2>1. /\ pc[p] = "restore" /\ Do(p) = "delete" /\ faults > 0 /\ got[p].is # "error"
        /\ Holds(p, before[p].secret) /\ pc'[p] = "ended"
    BY <1>2, <1>6, <1>9, <1>21 DEF Restore, AtStation, DoAt, Removing
  <2>2. ~Fault
    BY <1>4, <2>1 DEF Fault
  <2>3. Upsert(c, existing[p]) /\ faults' = faults
    BY <1>21, <2>1, <2>2 DEF Restore, FaultFree
  <2>4. profile'[c] = existing[p]
    BY <1>10, <2>3 DEF Upsert
  <2>5. Kept(p)'
    BY <1>3, <1>5, <1>14, <2>1, <2>3, <2>4 DEF Kept, Holds
  <2> QED
    BY <1>11, <2>1, <2>5
<1> QED
  BY <1>16, <1>17, <1>18, <1>19, <1>20, <1>21

\* A command announces its own connection only.
LEMMA OwnAnnounced ==
  ASSUME TypeOK, AllPrepared, NEW p \in Procs, pc[p] # "idle",
         CommandStep(p) \/ Kill(p) \/ (CredStep(p) /\ UNCHANGED ctlVars),
         NEW c \in Conns, c # Conn(p)
  PROVE  announced'[c] = announced[c]
<1>1. announced \in [Conns -> Secrets \cup {Nothing}] /\ Conn(p) \in Conns
  BY RequestOf DEF TypeOK
<1>2. \A row : Upsert(Conn(p), row) => announced'[c] = announced[c]
  BY <1>1 DEF Upsert
<1>3. NotifyChanged(Conn(p)) => announced'[c] = announced[c]
  BY <1>1 DEF NotifyChanged
<1>4. NoWrite => announced'[c] = announced[c]
  BY DEF NoWrite
<1>5. CASE Start(p) \/ Read(p) \/ Test(p) \/ Reread(p) \/ Save(p) \/ Undone(p) \/ Removed(p)
           \/ LoadKey(p) \/ KeyStored(p) \/ Issue(p) \/ Kill(p)
  BY <1>4, <1>5 DEF Start, Read, Test, Reread, Save, Undone, Removed, LoadKey, KeyStored, Issue, Kill
<1>6. CASE SecretStored(p)
  BY <1>2, <1>3, <1>4, <1>6 DEF SecretStored, AfterSecret
<1>7. CASE Write(p) \/ Remove(p) \/ Restore(p)
  BY <1>2, <1>4, <1>7 DEF Write, Remove, Restore
<1>8. CASE CredStep(p) /\ UNCHANGED ctlVars
  BY <1>8 DEF ctlVars
<1> QED
  BY <1>5, <1>6, <1>7, <1>8 DEF CommandStep

\* A connection at rest stays so while its row, its secret and its announcement do.
LEMMA SettledFrame ==
  ASSUME NEW c, Settled(c), profile'[c] = profile[c], announced'[c] = announced[c],
         faults \in Nat, faults' \in Nat, faults <= faults',
         \A r \in Refs : r = profile[c].ref => StoredSecret(r)' = StoredSecret(r)
  PROVE  Settled(c)'
<1>1. faults' = 0 => faults = 0
  OBVIOUS
<1> QED
  BY <1>1 DEF Settled, Fits

\* A command that starts alone finds its connection at rest.
LEMMA StartCourse ==
  ASSUME TypeOK, AllPrepared, AllFits, NEW p \in Procs, Start(p), NEW c \in Conns,
         c \notin overlapped', CourseOf(c)
  PROVE  CourseOf(c)' /\ (Conn(p)' = c => Kept(p)')
<1>1. PICK r \in Requests :
         /\ cmd' = [cmd EXCEPT ![p] = r]
         /\ overlapped' = overlapped \cup UNION {Shared(r, q) : q \in {q \in Procs : Running(q)}}
         /\ before' = [before EXCEPT ![p] =
               [profile |-> profile[r.conn],
                secret |-> IF Exists(r.conn) THEN StoredSecret(profile[r.conn].ref) ELSE Nothing]]
  BY DEF Start
<1>2. /\ cmd'[p] = r /\ Conn(p)' = r.conn /\ before'[p].profile = profile[r.conn]
      /\ before'[p].secret = IF Exists(r.conn) THEN StoredSecret(profile[r.conn].ref) ELSE Nothing
      /\ \A q \in Procs \ {p} : before'[q] = before[q]
  BY <1>1 DEF TypeOK, Conn
<1>3. /\ UNCHANGED <<profile, announced, header, chunks>> /\ faults' = faults /\ pc[p] = "idle"
      /\ faults \in Nat /\ ~Running(p)
  BY DEF Start, NoWrite, TypeOK, Running
<1>4. \A x : StoredSecret(x)' = StoredSecret(x)
  BY <1>3 DEF StoredSecret, Found
<1>5. \A q \in Procs \ {p} : Own(q)' = Own(q) /\ Running(q)' = Running(q) /\ Conn(q)' = Conn(q)
  BY StepPrepared DEF Others, CommandStep, Own, Running, Conn
<1>6. ASSUME NEW q \in Procs \ {p}, Running(q)', Conn(q)' = c PROVE OnCourse(q)'
  <2>1. OnCourse(q)
    BY <1>5, <1>6 DEF CourseOf
  <2> QED
    BY <1>2, <1>3, <1>4, <1>5, <2>1, CourseFrame
<1>7. Settled(c) => Settled(c)'
  BY <1>3, <1>4, SettledFrame
<1>8. CASE r.conn = c
  <2>1. Quiet(c)
    <3> SUFFICES ASSUME NEW q \in Procs, Running(q), Conn(q) = c PROVE FALSE
      BY DEF Quiet
    <3>1. c \in Shared(r, q)
      BY <1>8 DEF Shared
    <3> QED
      BY <1>1, <3>1
  <2>2. Settled(c)
    BY <2>1 DEF CourseOf
  <2>3. NoProfile.ref \notin Refs /\ (Exists(c) => profile[c].ref \in Refs)
    BY ControlAssumption DEF NoProfile, Exists, TypeOK, ProfileType, UserRefs
  <2>4. Fits(before'[p].profile, before'[p].secret) /\ Fits(before[p].profile, before[p].secret)'
    BY <1>2, <1>8, <2>2, <2>3 DEF Settled, Fits, Exists
  <2>5. Kept(p)'
    BY <1>2, <1>3, <1>4, <1>8, <2>2, <2>3 DEF Kept, Settled, Exists
  <2>6. pc'[p] \in {"ended", "read", "key"}
    BY KeyStep
  <2>7. Running(p)' => OnCourse(p)'
    BY <2>4, <2>5, <2>6 DEF Running, OnCourse, KnowsRow, Answered, Storing, Undoing, Removing
  <2> QED
    BY <1>6, <1>7, <2>2, <2>5, <2>7 DEF CourseOf
<1>9. CASE r.conn # c
  <2>1. Quiet(c)' => Quiet(c)
    BY <1>3, <1>5 DEF Quiet
  <2> QED
    BY <1>2, <1>6, <1>7, <1>9, <2>1 DEF CourseOf
<1> QED
  BY <1>8, <1>9

LEMMA StepCourse ==
  ASSUME TypeOK, AllPrepared, StoreInv, ContentsInv, AllKeyCalls, AllFits, NEW p \in Procs, ~Start(p),
         CommandStep(p) \/ Kill(p) \/ (CredStep(p) /\ UNCHANGED ctlVars),
         NEW c \in Conns, crashes' = 0, faults' <= 1, Alone(c), CourseOf(c)
  PROVE  CourseOf(c)' /\ (Conn(p) = c /\ ~Running(p)' /\ result'[p] # "ok" => Kept(p)')
<1>1. /\ UNCHANGED <<cmd, before>> /\ pc[p] # "idle" /\ Running(p)
  BY RefStep
<1>2. /\ faults \in Nat /\ faults' \in Nat /\ faults <= faults'
      /\ ~Kill(p)
  BY CountersGrow
<1>3. \A q \in Procs : Conn(q)' = Conn(q)
  BY <1>1 DEF Conn
<1>4. \A q \in Procs \ {p} : Own(q)' = Own(q) /\ Running(q)' = Running(q)
  BY StepPrepared DEF Others, Own, Running
<1>5. CASE Conn(p) = c
  <2>1. OnCourse(p)
    BY <1>1, <1>5 DEF CourseOf
  <2>2. Outcome(p, c)
    <3>1. CASE CommandStep(p)
      BY <1>5, <2>1, <3>1, CourseBefore, CourseAfter DEF CommandStep
    <3>2. CASE CredStep(p) /\ UNCHANGED ctlVars
      <4>1. OnCourse(p)' /\ (Running(p)' <=> Running(p))
        BY <2>1, <3>2, CourseCred DEF ctlVars, Running
      <4> QED
        BY <1>1, <4>1 DEF Outcome
    <3> QED
      BY <1>2, <3>1, <3>2
  <2>3. \A q \in Procs : Running(q)' /\ Conn(q)' = c => q = p
    BY <1>1, <1>3, <1>4, <1>5 DEF Alone
  <2>4. Quiet(c)' => ~Running(p)'
    BY <1>3, <1>5 DEF Quiet
  <2> QED
    BY <2>2, <2>3, <2>4 DEF Outcome, CourseOf
<1>6. CASE Conn(p) # c
  <2>1. profile'[c] = profile[c] /\ announced'[c] = announced[c]
    BY <1>1, <1>6, RowsTouched, OwnAnnounced
  <2>2. ASSUME NEW r \in Refs, cred[p].op # "none" => r # cred[p].ref
        PROVE  header'[r] = header[r] /\ StoredSecret(r)' = StoredSecret(r)
    <3>1. CASE CommandStep(p)
      <4>1. UNCHANGED <<header, chunks>>
        BY <3>1, CommandLeavesStore
      <4> QED
        BY <4>1 DEF StoredSecret, Found
    <3>2. CASE CredStep(p) /\ UNCHANGED ctlVars
      BY <2>2, <3>2, StoreEffect, CallKept
    <3> QED
      BY <1>2, <3>1, <3>2
  <2>3. /\ CallFits(p) /\ KeyCalls(p) /\ Nothing \notin Refs /\ NoProfile.ref = Nothing
        /\ \A row \in ProfileType : row.ref \in UserRefs
        /\ KeyRef \notin UserRefs
    BY ControlAssumption DEF AllFits, AllKeyCalls, NoProfile, ProfileType, UserRefs
  <2>4. ASSUME NEW q \in Procs, Running(q)', Conn(q)' = c PROVE OnCourse(q)'
    <3>1. q # p /\ Running(q) /\ Conn(q) = c /\ OnCourse(q) /\ pc[q] # "idle"
      BY <1>3, <1>4, <1>6, <2>4 DEF CourseOf, Running
    <3>2. \A x \in UsedRefs(q) : x \notin UsedRefs(p)
      BY <1>1, <3>1 DEF Alone
    <3>3. ASSUME NEW r \in Refs, r \in {before[q].profile.ref, OwnRef(q)}, cred[p].op # "none"
          PROVE  r # cred[p].ref
      <4>1. r \in UsedRefs(q)
        BY <2>3, <3>3, Used DEF OwnRef
      <4>2. r \in UserRefs
        <5>1. /\ cmd[q].ref \in UserRefs /\ before[q].profile \in ProfileType \cup {NoProfile}
              /\ existing[q] \in ProfileType \cup {NoProfile}
          BY <3>1, RequestOf DEF TypeOK
        <5> QED
          BY <2>3, <3>3, <5>1 DEF OwnRef
      <4>3. CASE pc[p] \in {"key", "keystored"}
        BY <2>3, <3>3, <4>2, <4>3 DEF KeyCalls
      <4>4. CASE pc[p] \notin {"key", "keystored"}
        <5>1. cred[p].ref = OwnRef(p)
          BY <2>3, <3>3, <4>4 DEF CallFits
        <5>2. OwnRef(p) # Nothing => OwnRef(p) \in UsedRefs(p)
          BY Used DEF OwnRef
        <5> QED
          BY <2>3, <3>2, <4>1, <5>1, <5>2
      <4> QED
        BY <4>3, <4>4
    <3>4. \A r \in Refs : r \in {before[q].profile.ref, OwnRef(q)} =>
             header'[r] = header[r] /\ StoredSecret(r)' = StoredSecret(r)
      BY <2>2, <3>3
    <3> QED
      BY <1>1, <1>2, <1>4, <2>1, <3>1, <3>4, CourseFrame
  <2>5. Quiet(c)' => Settled(c)'
    <3> SUFFICES ASSUME Quiet(c)' PROVE Settled(c)'
      OBVIOUS
    <3>1. Quiet(c)
      BY <1>3, <1>4, <1>6 DEF Quiet
    <3>2. ASSUME NEW r \in Refs, r = profile[c].ref, cred[p].op # "none" PROVE r # cred[p].ref
      <4>1. profile[c] # NoProfile /\ profile[c] \in ProfileType \cup {NoProfile}
        BY <2>3, <3>2 DEF TypeOK
      <4>2. profile[c].ref \notin Writes(p) /\ r \in UserRefs
        BY <1>1, <1>6, <2>3, <3>2, <4>1 DEF Alone, Exists
      <4>3. CASE pc[p] \in {"key", "keystored"}
        BY <2>3, <3>2, <4>2, <4>3 DEF KeyCalls
      <4>4. CASE pc[p] \notin {"key", "keystored"}
        BY <2>3, <3>2, <4>2, <4>4 DEF CallFits, Writes
      <4> QED
        BY <4>3, <4>4
    <3>3. \A r \in Refs : r = profile[c].ref => StoredSecret(r)' = StoredSecret(r)
      BY <2>2, <3>2
    <3>4. Settled(c)
      BY <3>1 DEF CourseOf
    <3> QED
      BY <1>2, <2>1, <3>3, <3>4, SettledFrame
  <2> QED
    BY <1>6, <2>4, <2>5 DEF CourseOf
<1> QED
  BY <1>5, <1>6
-----------------------------------------------------------------------------
(***************************************************************************)
(* Commands that overlap but neither create nor delete.  They work on the  *)
(* one connection there is; its secret is the one announced, or a command  *)
(* that has moved the header is about to announce it.                      *)
(***************************************************************************)
OnlyEdits == \A p \in Procs : pc[p] # "idle" => Do(p) \notin {"create", "delete"}

OneConnection ==
    /\ \A c \in Conns : Exists(c) <=> c = Seed.conn
    /\ profile[Seed.conn].ref = Seed.ref
    /\ \A p \in Procs : existing[p] # NoProfile => existing[p].ref = Seed.ref /\ Conn(p) = Seed.conn

SeedAnnounced ==
    \A r \in Refs : r = Seed.ref =>
        \/ announced[Seed.conn] = StoredSecret(r)
        \/ \E p \in Procs : pc[p] = "stored" /\ Moved(p)

EditsInv ==
    OnlyEdits => OneConnection /\ (faults = 0 /\ crashes = 0 => SeedAnnounced)

\* What an edit writes is a row of the one connection, with its reference.
LEMMA EditWrites ==
  ASSUME TypeOK, AllPrepared, AllFits, OnlyEdits, OneConnection, NEW p \in Procs,
         pc[p] \in {"stored", "write"}
  PROVE  /\ Conn(p) = Seed.conn /\ OwnRef(p) = Seed.ref /\ Do(p) \notin {"create", "delete"}
         /\ ~Rotates(p) => draft[p].profile \in ProfileType /\ draft[p].profile.ref = Seed.ref
<1>1. Do(p) \notin {"create", "delete"} /\ OwnRef(p) = existing[p].ref
  BY DEF OnlyEdits, OwnRef
<1>2. DoAt(p) /\ HasRow(p) /\ HasDraft(p) /\ DraftAgrees(p) /\ NoProfile \notin ProfileType
      /\ NoProfile.ref = Nothing /\ \A row \in ProfileType : row.ref # Nothing
  BY ControlAssumption DEF AllFits, AllPrepared, Prepared, ProfileType, NoProfile, UserRefs
<1>3. /\ ~Rotates(p) => draft[p].profile \in ProfileType /\ draft[p].profile.ref = existing[p].ref
      /\ Rotates(p) => existing[p] \in ProfileType
  <2>1. CASE pc[p] = "stored"
    <3>1. Rotates(p) \/ Do(p) = "update_connection"
      BY <1>1, <1>2, <2>1 DEF DoAt, Rotates
    <3> QED
      BY <1>1, <1>2, <2>1, <3>1 DEF HasRow, HasDraft, DraftAgrees, Rotates
  <2>2. CASE pc[p] = "write"
    <3>1. ~Rotates(p)
      BY <1>2, <2>2 DEF DoAt, Rotates
    <3> QED
      BY <1>2, <2>2, <3>1 DEF HasDraft, DraftAgrees
  <2> QED
    BY <2>1, <2>2
<1>4. existing[p] # NoProfile
  BY <1>2, <1>3
<1> QED
  BY <1>1, <1>3, <1>4 DEF OneConnection

\* Every write of an edit announces the secret that is stored.
LEMMA EditAnnounces ==
  ASSUME TypeOK, AllPrepared, AllFits, OnlyEdits, OneConnection, NEW p \in Procs, CommandStep(p),
         pc[p] # "idle", NEW r, r = Seed.ref
  PROVE  /\ announced'[Seed.conn] = announced[Seed.conn] \/ announced'[Seed.conn] = StoredSecret(r)
         /\ pc[p] = "stored" /\ Moved(p) /\ faults' = 0 => announced'[Seed.conn] = StoredSecret(r)
<1>1. /\ announced \in [Conns -> Secrets \cup {Nothing}] /\ Seed.conn \in Conns
      /\ NoProfile \notin ProfileType /\ faults \in Nat
  BY ControlAssumption DEF TypeOK, NoProfile, ProfileType, UserRefs
<1>2. CASE SecretStored(p)
  <2>1. /\ Conn(p) = Seed.conn /\ OwnRef(p) = Seed.ref /\ pc[p] = "stored"
        /\ ~Rotates(p) => draft[p].profile \in ProfileType /\ draft[p].profile.ref = Seed.ref
    BY <1>2, EditWrites DEF SecretStored, AtStation
  <2>2. CASE AfterSecret(p)
    <3>1. CASE Rotates(p)
      BY <1>1, <2>1, <2>2, <3>1 DEF AfterSecret, NotifyChanged, OneConnection
    <3>2. CASE ~Rotates(p)
      BY <1>1, <2>1, <2>2, <3>2 DEF AfterSecret, Upsert
    <3> QED
      BY <3>1, <3>2
  <2>3. CASE NoWrite /\ got[p].is = "error" /\ cred[p].op = "none"
    BY <2>3 DEF NoWrite, Moved
  <2>4. CASE NoWrite /\ Fault
    BY <1>1, <2>4 DEF NoWrite, Fault
  <2> QED
    BY <1>2, <2>2, <2>3, <2>4 DEF SecretStored, AtStation
<1>3. CASE ~SecretStored(p)
  <2>1. pc[p] # "stored"
    BY <1>3 DEF CommandStep, Start, Read, Test, Reread, Save, Undone, Write, Remove, Removed, Restore,
       LoadKey, KeyStored, Issue, AtStation
  <2>2. CASE Write(p)
    <3>1. /\ Conn(p) = Seed.conn /\ pc[p] = "write" /\ ~Rotates(p)
      BY <2>2, EditWrites DEF Write, AtStation, AllPrepared, Prepared, DoAt, Rotates
    <3>2. draft[p].profile \in ProfileType /\ draft[p].profile.ref = Seed.ref
      BY <3>1, EditWrites
    <3> QED
      BY <1>1, <2>1, <2>2, <3>1, <3>2 DEF Write, Upsert, NoWrite
  <2>3. CASE ~Write(p)
    <3>1. ~Remove(p) /\ ~Restore(p)
      BY DEF Remove, Restore, AtStation, OnlyEdits, AllPrepared, Prepared, DoAt
    <3>2. NoWrite
      BY <1>3, <2>3, <3>1 DEF CommandStep, Start, Read, Test, Reread, Save, Undone, Removed,
         LoadKey, KeyStored, Issue
    <3> QED
      BY <2>1, <3>2 DEF NoWrite
  <2> QED
    BY <2>2, <2>3
<1> QED
  BY <1>2, <1>3

LEMMA StepEdits ==
  ASSUME TypeOK, AllPrepared, StoreInv, ContentsInv, AllKeyCalls, AllFits, EditsInv, NEW p \in Procs,
         CommandStep(p) \/ Kill(p) \/ (CredStep(p) /\ UNCHANGED ctlVars)
  PROVE  EditsInv'
<1> SUFFICES ASSUME OnlyEdits'
             PROVE  OneConnection' /\ (faults' = 0 /\ crashes' = 0 => SeedAnnounced')
  BY DEF EditsInv
<1>1. \A q \in Procs \ {p} : Own(q)' = Own(q) /\ pc'[q] = pc[q] /\ cmd'[q] = cmd[q]
                            /\ existing'[q] = existing[q] /\ (Moved(q)' <=> Moved(q))
  BY StepPrepared DEF Others, Own, Moved
<1>2. ~Start(p) => UNCHANGED cmd /\ pc[p] # "idle"
  BY RefStep
<1>3. \A q \in Procs : pc[q] # "idle" => pc'[q] # "idle" /\ cmd'[q] = cmd[q]
  BY StepShape
<1>4. OnlyEdits
  <2>1. ASSUME NEW q \in Procs, pc[q] # "idle" PROVE Do(q) \notin {"create", "delete"}
    <3>1. pc'[q] # "idle" /\ cmd'[q] = cmd[q]
      BY <1>3, <2>1
    <3> QED
      BY <3>1 DEF OnlyEdits, Do
  <2> QED
    BY <2>1 DEF OnlyEdits
<1>5. OneConnection /\ (faults = 0 /\ crashes = 0 => SeedAnnounced)
  BY <1>4 DEF EditsInv
<1>6. CASE Start(p)
  <2>1. /\ UNCHANGED <<profile, existing, announced, header, chunks, faults, crashes>>
        /\ pc[p] = "idle" /\ existing[p] = NoProfile
    BY <1>6 DEF Start, NoWrite, AllFits, CallFits
  <2>2. OneConnection'
    BY <1>1, <1>5, <2>1 DEF OneConnection, Exists, Conn
  <2>3. \A r : StoredSecret(r)' = StoredSecret(r)
    BY <2>1 DEF StoredSecret, Found
  <2>4. SeedAnnounced => SeedAnnounced'
    BY <1>1, <2>1, <2>3 DEF SeedAnnounced
  <2> QED
    BY <1>5, <2>1, <2>2, <2>4
<1>7. CASE ~Start(p)
  <2>1. Conn(p)' = Conn(p) /\ \A q \in Procs : Conn(q)' = Conn(q)
    BY <1>2, <1>7 DEF Conn
  <2>2. Conn(p) \in Conns /\ Seed.conn \in Conns /\ NoProfile \notin ProfileType
        /\ Seed.ref \in Refs /\ Seed.ref # KeyRef
    BY <1>2, <1>7, RequestOf, ControlAssumption DEF ProfileType, NoProfile, UserRefs
  <2>3. \A c \in Conns : /\ Exists(c)' <=> c = Seed.conn
                         /\ c = Seed.conn => profile'[c].ref = Seed.ref
    <3> SUFFICES ASSUME NEW c \in Conns
                 PROVE  /\ Exists(c)' <=> c = Seed.conn
                        /\ c = Seed.conn => profile'[c].ref = Seed.ref
      OBVIOUS
    <3>1. CASE profile'[c] = profile[c]
      BY <1>5, <3>1 DEF OneConnection, Exists
    <3>2. CASE profile'[c] # profile[c]
      <4>1. /\ c = Conn(p) /\ pc[p] \in {"stored", "write", "remove", "restore"}
            /\ pc[p] \in {"stored", "write"} =>
                  /\ Do(p) \in {"create", "update_connection", "set_policy", "set_enabled",
                                   "update_profile"}
                  /\ profile'[c] = draft[p].profile
        BY <3>2, RowsTouched
      <4>2. pc[p] \in {"stored", "write"}
        BY <1>4, <4>1 DEF OnlyEdits, AllPrepared, Prepared, DoAt
      <4>3. ~Rotates(p)
        BY <4>1, <4>2 DEF Rotates
      <4>4. /\ Conn(p) = Seed.conn /\ draft[p].profile \in ProfileType
            /\ draft[p].profile.ref = Seed.ref
        BY <1>4, <1>5, <4>2, <4>3, EditWrites
      <4> QED
        BY <2>2, <4>1, <4>2, <4>4 DEF Exists
    <3> QED
      BY <3>1, <3>2
  <2>4. \A q \in Procs : existing'[q] # NoProfile =>
                            existing'[q].ref = Seed.ref /\ Conn(q)' = Seed.conn
    <3> SUFFICES ASSUME NEW q \in Procs, existing'[q] # NoProfile
                 PROVE  existing'[q].ref = Seed.ref /\ Conn(q)' = Seed.conn
      OBVIOUS
    <3>1. existing'[q] = existing[q] \/ (q = p /\ existing'[q] = profile[Conn(p)])
      BY <1>1, <1>7, RefStep
    <3> QED
      BY <1>5, <2>1, <2>2, <3>1 DEF OneConnection, Exists
  <2>5. OneConnection'
    BY <2>2, <2>3, <2>4 DEF OneConnection
  <2>6. ASSUME faults' = 0, crashes' = 0 PROVE SeedAnnounced'
    <3>1. faults \in Nat /\ faults = 0 /\ crashes = 0 /\ ~Kill(p)
      BY <2>6, CountersGrow
    <3>2. PICK r \in Refs : r = Seed.ref
      BY <2>2
    <3>3. \/ announced[Seed.conn] = StoredSecret(r)
          \/ \E q \in Procs : pc[q] = "stored" /\ Moved(q)
      BY <1>5, <3>1, <3>2 DEF SeedAnnounced
    <3>4. SUFFICES \/ announced'[Seed.conn] = StoredSecret(r)'
                   \/ \E q \in Procs : pc'[q] = "stored" /\ Moved(q)'
      BY <3>2 DEF SeedAnnounced
    <3>5. ASSUME NEW q \in Procs \ {p}, pc[q] = "stored", Moved(q)
          PROVE  pc'[q] = "stored" /\ Moved(q)'
      BY <1>1, <3>5
    <3>6. CASE CommandStep(p)
      <4>1. StoredSecret(r)' = StoredSecret(r)
        <5>1. UNCHANGED <<header, chunks>>
          BY <3>6, CommandLeavesStore
        <5> QED
          BY <5>1 DEF StoredSecret, Found
      <4>2. /\ \/ announced'[Seed.conn] = announced[Seed.conn]
               \/ announced'[Seed.conn] = StoredSecret(r)
            /\ pc[p] = "stored" /\ Moved(p) => announced'[Seed.conn] = StoredSecret(r)
        BY <1>2, <1>4, <1>5, <1>7, <2>6, <3>2, <3>6, EditAnnounces
      <4> QED
        BY <3>3, <3>5, <4>1, <4>2
    <3>7. CASE CredStep(p) /\ UNCHANGED ctlVars
      <4>1. UNCHANGED <<pc, announced>> /\ cred[p].op # "none" /\ KeyCalls(p) /\ CallFits(p)
        BY <3>7, CallKept DEF ctlVars, AllKeyCalls, AllFits
      <4>2. CASE header'[r] = header[r]
        <5>1. StoredSecret(r)' = StoredSecret(r)
          BY <3>7, <4>2, StoreEffect
        <5>2. pc[p] = "stored" /\ Moved(p) => Moved(p)'
          <6> SUFFICES ASSUME pc[p] = "stored", Moved(p) PROVE Moved(p)'
            OBVIOUS
          <6>1. cred[p].op = "put" /\ cred[p].at = "clean"
            BY <4>1 DEF Moved, CallFits
          <6>2. cred'[p].op = "none" /\ got'[p].is = "ok"
            BY <3>7, <4>1, <6>1, PutOutcome
          <6> QED
            BY <6>2 DEF Moved
        <5> QED
          BY <3>3, <3>5, <4>1, <5>1, <5>2
      <4>3. CASE header'[r] # header[r]
        <5>1. r = cred[p].ref /\ cred[p].op \in {"put", "delete"}
          BY <3>7, <4>3, StoreEffect
        <5>2. pc[p] \notin {"key", "keystored", "idle", "ended", "killed"}
          BY <1>2, <1>7, <2>2, <3>2, <4>1, <5>1 DEF KeyCalls, AllPrepared, Prepared, CredKnown, Running
        <5>3. pc[p] \notin {"remove", "removed", "restore"}
          BY <1>4, <5>2 DEF OnlyEdits, AllPrepared, Prepared, DoAt
        <5>4. pc[p] \in Stations /\ ~(faults > 0)
          BY <3>1 DEF TypeOK
        <5>5. pc[p] = "stored" /\ cred[p].op = "put"
          BY <4>1, <5>1, <5>2, <5>3, <5>4 DEF CallFits, Stations
        <5>6. \/ cred'[p].op = "none" /\ got'[p].is = "ok"
              \/ cred'[p].op = "put" /\ cred'[p].at = "clean"
          BY <3>7, <4>1, <4>3, <5>1, <5>5, PutOutcome
        <5> QED
          BY <4>1, <5>5, <5>6 DEF Moved
      <4> QED
        BY <4>2, <4>3
    <3> QED
      BY <3>1, <3>6, <3>7
  <2> QED
    BY <2>5, <2>6
<1> QED
  BY <1>6, <1>7
-----------------------------------------------------------------------------
PairInv == AllFits /\ AloneInv /\ CourseInv /\ EditsInv

LEMMA InitPairInv == Init => PairInv
<1> SUFFICES ASSUME Init PROVE PairInv
  OBVIOUS
<1>1. \A p \in Procs : /\ cred[p] = NoCred /\ pc[p] = "idle" /\ existing[p] = NoProfile
                       /\ ~Running(p)
  BY DEF Init, Running
<1>2. AllFits
  BY <1>1 DEF AllFits, CallFits, DraftAgrees, NoCred
<1>3. /\ \A c \in Conns : c # Seed.conn => profile[c] = NoProfile
      /\ Seed.conn \in Conns /\ profile[Seed.conn].ref = Seed.ref
      /\ profile[Seed.conn].kind = Seed.secret.kind /\ profile[Seed.conn] # NoProfile
      /\ announced[Seed.conn] = Seed.secret /\ faults = 0
      /\ Seed.ref \in Refs /\ Seed.secret \in Secrets
  BY ControlAssumption DEF Init, NoProfile, UserRefs
<1>4. AloneInv
  BY <1>1, <1>3 DEF AloneInv, Alone, Exists
<1>5. StoredSecret(Seed.ref) = Seed.secret
  <2> DEFINE d == [gen |-> 1, ref |-> Seed.ref, secret |-> Seed.secret, key |-> Seed.key]
  <2>1. chunks = {d} /\ header[Seed.ref] = 1
    BY <1>3 DEF Init
  <2>2. Found(Seed.ref) = {d}
    BY <2>1 DEF Found
  <2>3. 1 # Nothing
    BY CredentialAssumption
  <2>4. StoredSecret(Seed.ref) = SecretIn({d})
    BY <2>1, <2>2, <2>3, StoredIsFound
  <2>5. SecretIn({d}) = d.secret
    BY SecretInOne
  <2> QED
    BY <2>4, <2>5
<1>6. Seed.secret # Nothing
  BY <1>3, CredentialAssumption DEF Secrets
<1>7. \A c \in Conns : Settled(c)
  <2>1. NoProfile.ref \notin Refs
    BY ControlAssumption DEF NoProfile
  <2> QED
    BY <1>3, <1>5, <1>6, <2>1 DEF Settled, Fits
<1>8. CourseInv
  BY <1>1, <1>7 DEF CourseInv, CourseOf
<1>9. EditsInv
  BY <1>1, <1>3, <1>5 DEF EditsInv, OneConnection, SeedAnnounced, Exists
<1> QED
  BY <1>2, <1>4, <1>8, <1>9 DEF PairInv

\* A step of a command or of the store it waits for.
LEMMA StepPairInv ==
  ASSUME TypeOK, AllPrepared, SecretInv, PairInv, NEW p \in Procs,
         CommandStep(p) \/ Kill(p) \/ (CredStep(p) /\ UNCHANGED ctlVars)
  PROVE  /\ PairInv'
         /\ /\ CommandStep(p) /\ ~Running(p)' /\ result'[p] # "ok" /\ Conn(p)' \notin overlapped'
            /\ crashes = 0 /\ faults' <= 1
            => Kept(p)'
<1>1. /\ StoreInv /\ ContentsInv /\ AllKeyCalls /\ AllFits /\ AloneInv /\ CourseInv /\ EditsInv
  BY DEF SecretInv, PairInv
<1>2. AllFits'
  BY <1>1, StepFits
<1>3. AloneInv'
  BY <1>1, StartAlone, StepAlone DEF AloneInv
<1>4. EditsInv'
  BY <1>1, StepEdits
<1>5. /\ faults \in Nat /\ faults' \in Nat /\ faults <= faults'
      /\ crashes \in Nat /\ crashes' \in Nat /\ crashes <= crashes'
      /\ CommandStep(p) => crashes' = crashes
  BY CountersGrow
<1>6. overlapped \subseteq overlapped'
  BY StepShape
<1>7. ASSUME crashes' = 0, faults' <= 1, NEW c \in Conns, c \notin overlapped'
      PROVE  /\ CourseOf(c)'
             /\ CommandStep(p) /\ Conn(p)' = c /\ ~Running(p)' /\ result'[p] # "ok" => Kept(p)'
  <2>1. Alone(c) /\ CourseOf(c)
    BY <1>1, <1>5, <1>6, <1>7 DEF AloneInv, CourseInv
  <2>2. CASE Start(p)
    BY <1>1, <1>7, <2>1, <2>2, StartCourse
  <2>3. CASE ~Start(p)
    <3>1. Conn(p)' = Conn(p)
      BY <1>1, <2>3, RefStep DEF Conn
    <3> QED
      BY <1>1, <1>7, <2>1, <2>3, <3>1, StepCourse
  <2> QED
    BY <2>2, <2>3
<1>8. CourseInv'
  BY <1>7 DEF CourseInv
<1>9. CommandStep(p) => Conn(p)' \in Conns
  <2> SUFFICES ASSUME CommandStep(p) PROVE Conn(p)' \in Conns
    OBVIOUS
  <2>1. CASE Start(p)
    BY <2>1, ControlAssumption DEF Start, Conn, Request, TypeOK
  <2>2. CASE ~Start(p)
    <3>1. UNCHANGED cmd /\ pc[p] # "idle"
      BY <1>1, <2>2, RefStep
    <3>2. Conn(p) \in Conns
      BY <3>1, RequestOf
    <3> QED
      BY <3>1, <3>2 DEF Conn
  <2> QED
    BY <2>1, <2>2
<1> QED
  BY <1>2, <1>3, <1>4, <1>5, <1>7, <1>8, <1>9 DEF PairInv

LEMMA NextPairInv == TypeOK /\ AllPrepared /\ SecretInv /\ PairInv /\ [Next]_vars => PairInv'
<1> SUFFICES ASSUME TypeOK, AllPrepared, SecretInv, PairInv, [Next]_vars PROVE PairInv'
  OBVIOUS
<1>1. CASE UNCHANGED vars
  <2>1. UNCHANGED <<header, chunks, cred, got, faults, profile, pc, cmd, existing, draft, previous,
                    crashes, overlapped, before, announced>>
    BY <1>1 DEF vars, credVars, ctlVars
  <2>2. /\ faults \in Nat /\ \A r : StoredSecret(r)' = StoredSecret(r)
        /\ \A q \in Procs : Own(q)' = Own(q) /\ (Running(q)' <=> Running(q)) /\ Conn(q)' = Conn(q)
    BY <2>1 DEF StoredSecret, Found, Own, Running, Conn, TypeOK
  <2>3. AllFits'
    BY <2>1, <2>2, FitsFrame DEF AllFits, PairInv
  <2>4. AloneInv'
    <3>1. \A q \in Procs : UsedRefs(q)' = UsedRefs(q) /\ Writes(q)' = Writes(q)
      BY <2>1 DEF UsedRefs, RefsOf, Writes, OwnRef, Do, Conn
    <3>2. \A c \in Conns : Exists(c)' <=> Exists(c)
      BY <2>1 DEF Exists
    <3> QED
      BY <2>1, <2>2, <3>1, <3>2 DEF AloneInv, Alone, PairInv
  <2>5. CourseInv'
    <3>1. \A c \in Conns : Settled(c) => Settled(c)'
      BY <2>1, <2>2, SettledFrame
    <3>2. \A q \in Procs : OnCourse(q) => OnCourse(q)'
      BY <2>1, <2>2, CourseFrame
    <3>3. \A c \in Conns : Quiet(c)' <=> Quiet(c)
      BY <2>2 DEF Quiet
    <3> QED
      BY <2>1, <2>2, <3>1, <3>2, <3>3 DEF CourseInv, CourseOf, PairInv
  <2>6. EditsInv'
    BY <2>1, <2>2 DEF EditsInv, OnlyEdits, OneConnection, SeedAnnounced, Exists, Moved, Do, PairInv
  <2> QED
    BY <2>3, <2>4, <2>5, <2>6 DEF PairInv
<1>2. ASSUME NEW p \in Procs, CommandStep(p) \/ Kill(p) \/ (CredStep(p) /\ UNCHANGED ctlVars)
      PROVE  PairInv'
  BY <1>2, StepPairInv
<1> QED
  BY <1>1, <1>2 DEF Next, Done

LEMMA PairInvariant == Spec => [](TypeOK /\ AllPrepared /\ SecretInv /\ PairInv)
  BY InitPrepared, NextPrepared, InitSecretInv, NextSecretInv, InitPairInv, NextPairInv, PTL DEF Spec

\* A connection whose commands ran one at a time has a secret, of its own kind, whenever no
\* command is at work on it, if no command was killed and at most one store operation failed:
\* replace_connection, replace_secret, create and delete keep profile and secret together.
THEOREM StoredPair == Spec => []StoredPairAgrees
<1>1. TypeOK /\ PairInv => StoredPairAgrees
  <2> SUFFICES ASSUME TypeOK, PairInv, NEW c \in Conns, Exists(c), Quiet(c), c \notin overlapped,
                      crashes = 0, faults <= 1
               PROVE  /\ StoredSecret(profile[c].ref) # Nothing
                      /\ StoredSecret(profile[c].ref).kind = profile[c].kind
    BY DEF StoredPairAgrees
  <2>1. profile[c].ref \in Refs
    BY DEF TypeOK, Exists, ProfileType, UserRefs
  <2>2. Settled(c)
    BY DEF PairInv, CourseInv, CourseOf
  <2> QED
    BY <2>1, <2>2 DEF Settled, Fits, Exists
<1> QED
  BY <1>1, PairInvariant, PTL

\* The secret of a connection at rest is the one that was stored when its revision last
\* moved, so an MCP process that follows revisions holds no client of another one; also
\* when rotations and updates of the connection overlap (notify_changed after the put).
THEOREM AnnouncedIsStored == Spec => []AnnouncedSecretIsStored
<1>1. TypeOK /\ AllPrepared /\ PairInv => AnnouncedSecretIsStored
  <2> SUFFICES ASSUME TypeOK, AllPrepared, PairInv, NEW c \in Conns, Exists(c), Quiet(c), faults = 0,
                      crashes = 0, c \in overlapped => OnlyEdits
               PROVE  announced[c] = StoredSecret(profile[c].ref)
    BY DEF AnnouncedSecretIsStored, OnlyEdits
  <2>1. profile[c].ref \in Refs
    BY DEF TypeOK, Exists, ProfileType, UserRefs
  <2>2. CASE c \notin overlapped
    <3>1. Settled(c)
      BY <2>2 DEF PairInv, CourseInv, CourseOf
    <3> QED
      BY <2>1, <3>1 DEF Settled
  <2>3. CASE OnlyEdits
    <3>1. OneConnection /\ SeedAnnounced
      BY <2>3 DEF PairInv, EditsInv
    <3>2. c = Seed.conn /\ profile[c].ref = Seed.ref
      BY <3>1 DEF OneConnection
    <3>3. ASSUME NEW p \in Procs, pc[p] = "stored" PROVE FALSE
      <4>1. Conn(p) = c
        BY <2>3, <3>1, <3>2, <3>3, EditWrites DEF PairInv
      <4> QED
        BY <3>3, <4>1 DEF Quiet, Running
    <3> QED
      BY <2>1, <3>1, <3>2, <3>3 DEF SeedAnnounced
  <2> QED
    BY <2>2, <2>3
<1> QED
  BY <1>1, PairInvariant, PTL

\* "On test or persistence failure, the previous connection remains available": a command
\* that had its connection for itself and ends with an error after at most one store failure
\* leaves profile and secret as it found them, whatever else runs in the meantime.
THEOREM FailedCommandUndone == Spec => FailedCommandLeavesConnection
<1> DEFINE Undoes(p) ==
      /\ pc[p] # "ended" /\ pc'[p] = "ended" /\ result'[p] # "ok"
      /\ Conn(p)' \notin overlapped' /\ crashes = 0 /\ faults' <= 1
      => /\ profile[Conn(p)]' = before[p].profile'
         /\ before[p].profile' # NoProfile =>
               StoredSecret(before[p].profile.ref)' = before[p].secret'
<1>1. ASSUME TypeOK, TypeOK', AllPrepared, SecretInv, PairInv, Next, NEW p \in Procs PROVE Undoes(p)
  <2> SUFFICES ASSUME pc[p] # "ended", pc'[p] = "ended", result'[p] # "ok",
                      Conn(p)' \notin overlapped', crashes = 0, faults' <= 1
               PROVE  /\ profile[Conn(p)]' = before[p].profile'
                      /\ before[p].profile' # NoProfile =>
                            StoredSecret(before[p].profile.ref)' = before[p].secret'
    OBVIOUS
  <2>1. PICK q \in Procs : CommandStep(q) \/ Kill(q) \/ (CredStep(q) /\ UNCHANGED ctlVars)
    BY <1>1 DEF Next, Done, vars, ctlVars
  <2>2. q = p
    BY <1>1, <2>1, StepShape
  <2>3. CommandStep(p)
    BY <1>1, <2>1, <2>2 DEF Kill, ctlVars, TypeOK
  <2>4. Kept(p)'
    BY <1>1, <2>3, StepPairInv DEF Running
  <2>5. /\ profile[Conn(p)]' = before[p].profile'
        /\ \A r \in Refs : r = before'[p].profile.ref => StoredSecret(r)' = before'[p].secret
    BY <2>4 DEF Kept
  <2>6. before'[p].profile # NoProfile => before'[p].profile.ref \in Refs
    BY <1>1 DEF TypeOK, ProfileType, UserRefs
  <2> QED
    BY <2>5, <2>6 DEF StoredSecret, Found
<1>2. TypeOK /\ TypeOK' /\ AllPrepared /\ SecretInv /\ PairInv /\ [Next]_vars =>
        [\A p \in Procs : Undoes(p)]_vars
  BY <1>1
<1> QED
  BY <1>2, PairInvariant, PTL DEF Spec, FailedCommandLeavesConnection
=============================================================================
