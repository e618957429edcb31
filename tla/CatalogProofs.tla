---------------------------- MODULE CatalogProofs ----------------------------
(***************************************************************************)
(* Proofs about the catalogue's ways in and out, for any number of         *)
(* requests, staff members, pictures, tabs and limits.  CatalogImport: who *)
(* holds an import slot, what a real run was checked against, and what it  *)
(* leaves in the tables.                                                   *)
(* ShopDirectory: a page never names a picture the store does not have.    *)
(* ShopCart: what a checkout page shows is what its order costs, once.     *)
(*                                                                         *)
(* Each part has an inductive invariant of its own, which says what a      *)
(* request that is between two statements may still rely on: the token a   *)
(* real run came with was earned by a check (TokensEarned), the pictures   *)
(* a save holds are its own (OwnUploads), what createOrder's transaction   *)
(* has read is what the page was made from unless somebody has edited      *)
(* something since (ReadUnedited).                                         *)
(***************************************************************************)
EXTENDS CatalogImport, ShopDirectory, ShopCart, FiniteLemmas, SequenceTheorems

-----------------------------------------------------------------------------
(* CatalogImport.                                                          *)

Running == {"read", "planned", "find", "write"}

HoldingSlot == {u \in Uploads : upload[u].pc \in Running}

\* Records with the fields of a request.
UploadFields == {"pc", "kind", "count", "staff", "file", "point", "models", "found", "began"}
IsUpload(x) ==
    /\ x = [f \in UploadFields |-> x[f]]
    /\ x.pc \in Running \cup {"idle", "queue"}

ImportShape ==
    /\ upload = [u \in Uploads |-> upload[u]]
    /\ \A u \in Uploads : IsUpload(upload[u])

\* The slots that are taken are those of the running imports.
Slots == held = Cardinality(HoldingSlot) /\ held <= MaxConcurrent

\* Who holds a token had the file checked: nothing else is ever signed.
TokensEarned ==
    \A token \in signed : \E c \in checks : token = importTokenMAC(c[1], c[2], c[3], c[4], c[5])

\* A check of what the request imports, by this process, in time.
CheckedFor(x, c, key) ==
    /\ <<c[1], c[2], c[3], c[5]>> = <<x.file, x.point, x.staff, key>>
    /\ x.began - c[4] <= ImportTokenTTL

\* A real run of the screen, from the moment its upload was read.
Vetted ==
    \A u \in Uploads : upload[u].pc \in {"planned", "find", "write"} /\ upload[u].kind = "apply" =>
        \E c \in checks : CheckedFor(upload[u], c, tokenKey)

ImportInv == ImportShape /\ Slots /\ TokensEarned /\ Vetted

LEMMA Within == ASSUME NEW n \in Nat, NEW x \in 0..n PROVE x <= n
OBVIOUS

LEMMA ImportInitially == ImportInit => ImportInv
<1> SUFFICES ASSUME ImportInit PROVE ImportInv
  OBVIOUS
<1>1. ImportShape
  BY DEF ImportInit, NoUpload, ImportShape, IsUpload, UploadFields, Running
<1>2. HoldingSlot = {}
  BY DEF ImportInit, NoUpload, HoldingSlot, Running
<1>3. Slots
  BY <1>2, FS_EmptySet, ImportAssumption DEF Slots, ImportInit
<1>4. TokensEarned /\ Vetted
  BY DEF ImportInit, NoUpload, TokensEarned, Vetted
<1> QED
  BY <1>1, <1>3, <1>4 DEF ImportInv

\* A slot is taken or given back with the place of one request.
LEMMA SlotsFollow ==
    ASSUME ImportInv, NEW u \in Uploads, NEW x, IsUpload(x), Set(u, x),
           held' = IF x.pc \in Running
                   THEN IF upload[u].pc \in Running THEN held ELSE held + 1
                   ELSE IF upload[u].pc \in Running THEN held - 1 ELSE held,
           held' <= MaxConcurrent
    PROVE  ImportShape' /\ Slots'
<1> USE DEF ImportInv
<1>1. ImportShape' /\ upload'[u] = x /\ \A w \in Uploads \ {u} : upload'[w] = upload[w]
  BY DEF Set, ImportShape
<1>2. IsFiniteSet(HoldingSlot)
  BY ImportAssumption, FS_Subset DEF HoldingSlot
<1>3. Cardinality(HoldingSlot) \in Nat
  BY <1>2, FS_CardinalityType
<1>4. CASE x.pc \in Running /\ upload[u].pc \notin Running
  <2>1. HoldingSlot' = HoldingSlot \cup {u} /\ u \notin HoldingSlot
    BY <1>1, <1>4 DEF HoldingSlot
  <2> QED
    BY <1>1, <1>2, <1>4, <2>1, FS_AddElement DEF Slots
<1>5. CASE x.pc \notin Running /\ upload[u].pc \in Running
  <2>1. HoldingSlot' = HoldingSlot \ {u} /\ u \in HoldingSlot
    BY <1>1, <1>5 DEF HoldingSlot
  <2> QED
    BY <1>1, <1>2, <1>5, <2>1, FS_RemoveElement DEF Slots
<1>6. CASE x.pc \in Running <=> upload[u].pc \in Running
  <2>1. HoldingSlot' = HoldingSlot
    BY <1>1, <1>6 DEF HoldingSlot
  <2> QED
    BY <1>1, <1>6, <2>1 DEF Slots
<1> QED
  BY <1>4, <1>5, <1>6

\* Requests on their way, that come to no real run of the screen by this step.
LEMMA RunsOn ==
    ASSUME ImportInv, NEW u \in Uploads, NEW x, IsUpload(x), Set(u, x),
           held' = IF x.pc \in Running
                   THEN IF upload[u].pc \in Running THEN held ELSE held + 1
                   ELSE IF upload[u].pc \in Running THEN held - 1 ELSE held,
           held' <= MaxConcurrent,
           UNCHANGED <<tokenKey, signed>>, checks \subseteq checks',
           x.pc \in {"planned", "find", "write"} /\ x.kind = "apply" =>
               \/ /\ upload[u].pc \in {"planned", "find", "write"} /\ upload[u].kind = "apply"
                  /\ <<x.file, x.point, x.staff, x.began>>
                         = <<upload[u].file, upload[u].point, upload[u].staff, upload[u].began>>
               \/ \E c \in checks : CheckedFor(x, c, tokenKey)
    PROVE  ImportInv'
<1>1. ImportShape' /\ Slots'
  BY SlotsFollow
<1>2. TokensEarned'
  BY DEF ImportInv, TokensEarned, importTokenMAC
<1>3. upload'[u] = x /\ \A w \in Uploads \ {u} : upload'[w] = upload[w]
  BY DEF ImportInv, ImportShape, Set
<1>4. ASSUME NEW w \in Uploads, upload'[w].pc \in {"planned", "find", "write"}, upload'[w].kind = "apply"
      PROVE  \E c \in checks' : CheckedFor(upload'[w], c, tokenKey')
  <2>1. CASE w # u
    BY <1>3, <1>4, <2>1 DEF ImportInv, Vetted, CheckedFor
  <2>2. CASE w = u
    BY <1>3, <1>4, <2>2 DEF ImportInv, Vetted, CheckedFor
  <2> QED
    BY <2>1, <2>2
<1> QED
  BY <1>1, <1>2, <1>4 DEF ImportInv, Vetted

LEMMA Released ==
    ASSUME ImportInv, NEW u \in Uploads, upload[u].pc \in Running, release(u),
           UNCHANGED <<tokenKey, signed>>, checks \subseteq checks'
    PROVE  ImportInv'
<1> DEFINE x == [NoUpload EXCEPT !.count = upload[u].count]
<1>1. IsUpload(x) /\ x.pc = "idle" /\ Set(u, x) /\ held' = held - 1
  BY DEF release, IsUpload, UploadFields, NoUpload, Running
<1> HIDE DEF x
<1>2. IsFiniteSet(HoldingSlot) /\ u \in HoldingSlot
  BY ImportAssumption, FS_Subset DEF HoldingSlot
<1>3. held \in Nat /\ held' <= MaxConcurrent
  BY <1>1, <1>2, FS_CardinalityType, ImportAssumption DEF ImportInv, Slots
<1>4. "idle" \notin Running
  BY DEF Running
<1> QED
  BY <1>1, <1>3, <1>4, RunsOn

\* A request takes a step within its slot, or without one.
LEMMA StaysInSlot ==
    ASSUME ImportInv, NEW u \in Uploads, NEW x, IsUpload(x), Set(u, x),
           x.pc \in Running <=> upload[u].pc \in Running,
           UNCHANGED <<held, tokenKey, signed>>, checks \subseteq checks',
           x.pc \in {"planned", "find", "write"} /\ x.kind = "apply" =>
               \/ /\ upload[u].pc \in {"planned", "find", "write"} /\ upload[u].kind = "apply"
                  /\ <<x.file, x.point, x.staff, x.began>>
                         = <<upload[u].file, upload[u].point, upload[u].staff, upload[u].began>>
               \/ \E c \in checks : CheckedFor(x, c, tokenKey)
    PROVE  ImportInv'
<1>1. held' <= MaxConcurrent
  BY DEF ImportInv, Slots
<1> QED
  BY <1>1, RunsOn

LEMMA BeginKeeps ==
    ASSUME ImportInv, NEW u \in Uploads, beginImport(u) \/ beginJSONImport(u)
    PROVE  ImportInv'
<1>1. PICK kinds : Begin(u, kinds)
  BY DEF beginImport, beginJSONImport
<1>2. PICK s \in ImportStaff, kind \in kinds :
        Set(u, [NoUpload EXCEPT !.pc = IF importTokens[s] > 0 THEN "queue" ELSE "idle",
                                !.count = upload[u].count + 1, !.kind = kind, !.staff = s])
  BY <1>1 DEF Begin
<1> DEFINE x == [NoUpload EXCEPT !.pc = IF importTokens[s] > 0 THEN "queue" ELSE "idle",
                                !.count = upload[u].count + 1, !.kind = kind, !.staff = s]
<1>3. IsUpload(x) /\ x.pc \in {"queue", "idle"} /\ Set(u, x)
  BY <1>2 DEF IsUpload, UploadFields, NoUpload
<1> HIDE DEF x
<1>4. upload[u].pc = "idle" /\ UNCHANGED <<held, tokenKey, signed, checks>>
  BY <1>1 DEF Begin
<1> QED
  BY <1>3, <1>4, StaysInSlot DEF Running

LEMMA QueueKeeps ==
    ASSUME ImportInv, NEW u \in Uploads, Acquire(u) \/ Busy(u)
    PROVE  ImportInv'
<1>0. IsUpload(upload[u])
  BY DEF ImportInv, ImportShape
<1>1. CASE Acquire(u)
  <2> DEFINE x == [upload[u] EXCEPT !.pc = "read"]
  <2>1. IsUpload(x) /\ x.pc = "read" /\ Set(u, x)
    BY <1>0, <1>1 DEF Acquire, IsUpload, UploadFields, Running
  <2> HIDE DEF x
  <2>2. /\ upload[u].pc = "queue" /\ held < MaxConcurrent /\ held' = held + 1
        /\ UNCHANGED <<tokenKey, signed, checks>>
    BY <1>1 DEF Acquire
  <2>3. held \in Nat
    BY ImportAssumption, FS_Subset, FS_CardinalityType DEF HoldingSlot, ImportInv, Slots
  <2>4. held' <= MaxConcurrent
    BY <2>2, <2>3, ImportAssumption
  <2> QED
    BY <2>1, <2>2, <2>4, RunsOn DEF Running
<1>2. CASE Busy(u)
  <2> DEFINE x == [NoUpload EXCEPT !.count = upload[u].count]
  <2>1. IsUpload(x) /\ x.pc = "idle" /\ Set(u, x)
    BY <1>2 DEF Busy, IsUpload, UploadFields, NoUpload
  <2> HIDE DEF x
  <2>2. upload[u].pc = "queue" /\ UNCHANGED <<held, tokenKey, signed, checks>>
    BY <1>2 DEF Busy
  <2> QED
    BY <2>1, <2>2, StaysInSlot DEF Running
<1> QED
  BY <1>1, <1>2

\* Reading the upload is where a real run must show its token.
LEMMA ReadKeeps ==
    ASSUME ImportInv, NEW u \in Uploads, readImportUpload(u)
    PROVE  ImportInv'
<1>0. upload[u].pc = "read" /\ IsUpload(upload[u]) /\ UNCHANGED <<tokenKey, signed, checks>>
  BY DEF readImportUpload, ImportInv, ImportShape
<1>1. PICK f \in DOMAIN ImportFiles, point \in ToSet(ImportPoints) \cup {""} :
        \/ /\ upload[u].kind # "apply" \/ \E token \in signed : validImportToken(token, f, point, upload[u].staff)
           /\ Set(u, [upload[u] EXCEPT !.pc = "planned", !.file = f, !.point = point, !.began = importNow,
                        !.models = plan(ImportFiles[f], resolveTargetPoint(point), activePoints)])
           /\ UNCHANGED held
        \/ release(u)
  BY DEF readImportUpload
<1>2. CASE release(u)
  BY <1>0, <1>2, Released DEF Running
<1>3. CASE ~release(u)
  <2> DEFINE x == [upload[u] EXCEPT !.pc = "planned", !.file = f, !.point = point, !.began = importNow,
                        !.models = plan(ImportFiles[f], resolveTargetPoint(point), activePoints)]
  <2>1. /\ IsUpload(x) /\ x.pc = "planned" /\ Set(u, x) /\ x.kind = upload[u].kind
        /\ x.file = f /\ x.point = point /\ x.began = importNow /\ x.staff = upload[u].staff
    BY <1>0, <1>1, <1>3 DEF IsUpload, UploadFields, Running
  <2> HIDE DEF x
  <2>2. ASSUME x.kind = "apply" PROVE \E c \in checks : CheckedFor(x, c, tokenKey)
    <3>1. PICK token \in signed : validImportToken(token, f, point, upload[u].staff)
      BY <1>1, <1>3, <2>1, <2>2
    <3>2. PICK c \in checks : token = importTokenMAC(c[1], c[2], c[3], c[4], c[5])
      BY DEF ImportInv, TokensEarned
    <3>3. /\ importNow - token.issued \in 0..ImportTokenTTL
          /\ token = importTokenMAC(f, point, upload[u].staff, token.issued, tokenKey)
      BY <3>1 DEF validImportToken
    <3>4. /\ c[1] = f /\ c[2] = point /\ c[3] = upload[u].staff
          /\ c[4] = token.issued /\ c[5] = tokenKey
      BY <3>2, <3>3 DEF importTokenMAC
    <3>5. importNow - c[4] <= ImportTokenTTL
      <4>1. ImportTokenTTL \in Nat
        BY ImportAssumption
      <4> QED
        BY <3>3, <3>4, <4>1, Within
    <3> QED
      BY <2>1, <3>4, <3>5 DEF CheckedFor
  <2> QED
    BY <1>0, <1>1, <1>3, <2>1, <2>2, StaysInSlot DEF Running
<1> QED
  BY <1>2, <1>3

\* A check signs what it has found clean, and nothing else.
LEMMA CheckKeeps ==
    ASSUME ImportInv, NEW u \in Uploads, productImportCheck(u)
    PROVE  ImportInv'
<1> DEFINE up == upload[u]
           token == importTokenMAC(up.file, up.point, up.staff, importNow, tokenKey)
           c == <<up.file, up.point, up.staff, importNow, tokenKey>>
<1>1. /\ upload[u].pc = "planned" /\ release(u) /\ UNCHANGED tokenKey
      /\ \/ signed' \subseteq signed \cup {token} /\ checks' = checks \cup {c}
         \/ signed' = signed /\ checks' = checks
  BY DEF productImportCheck
<1>2. TokensEarned'
  <2> SUFFICES ASSUME NEW t \in signed'
               PROVE  \E d \in checks' : t = importTokenMAC(d[1], d[2], d[3], d[4], d[5])
    BY DEF TokensEarned, importTokenMAC
  <2>1. CASE t \in signed
    BY <1>1, <2>1 DEF ImportInv, TokensEarned
  <2>2. CASE t \notin signed
    <3>1. t = token /\ c \in checks'
      BY <1>1, <2>2
    <3> QED
      BY <3>1
  <2> QED
    BY <2>1, <2>2
<1>3. checks \subseteq checks'
  BY <1>1
<1> DEFINE x == [NoUpload EXCEPT !.count = upload[u].count]
<1>4. IsUpload(x) /\ x.pc = "idle" /\ Set(u, x) /\ held' = held - 1
  BY <1>1 DEF release, IsUpload, UploadFields, NoUpload
<1> HIDE DEF x, token, c
<1>5. held \in Nat /\ held <= MaxConcurrent
  BY ImportAssumption, FS_Subset, FS_CardinalityType DEF HoldingSlot, ImportInv, Slots
<1>6. ImportShape' /\ Slots'
  <2>1. held' <= MaxConcurrent
    BY <1>4, <1>5, ImportAssumption
  <2> QED
    BY <1>1, <1>4, <2>1, SlotsFollow DEF Running
<1>7. Vetted'
  <2>1. upload'[u] = x /\ \A w \in Uploads \ {u} : upload'[w] = upload[w]
    BY <1>4 DEF ImportInv, ImportShape, Set
  <2> SUFFICES ASSUME NEW w \in Uploads, upload'[w].pc \in {"planned", "find", "write"},
                      upload'[w].kind = "apply"
               PROVE  \E d \in checks' : CheckedFor(upload'[w], d, tokenKey')
    BY DEF Vetted
  <2>2. w # u
    BY <1>4, <2>1
  <2> QED
    BY <1>1, <1>3, <2>1, <2>2 DEF ImportInv, Vetted, CheckedFor
<1> QED
  BY <1>2, <1>6, <1>7 DEF ImportInv

LEMMA ImportsKeep ==
    ASSUME ImportInv, NEW u \in Uploads,
           productImportApply(u) \/ importProductsHandler(u) \/ Find(u) \/ Write(u) \/ ImportCancelled(u)
    PROVE  ImportInv'
<1>0. IsUpload(upload[u])
  BY DEF ImportInv, ImportShape
<1>1. ASSUME ImportProducts(u), upload[u].pc = "planned" PROVE ImportInv'
  <2> DEFINE order == inOrder({n \in DOMAIN upload[u].models : ~failed(upload[u].models[n])})
             good == [n \in DOMAIN order |-> upload[u].models[order[n]]]
             x == [upload[u] EXCEPT !.pc = "find", !.models = good]
  <2>1. /\ release(u) \/ (Set(u, x) /\ UNCHANGED held)
        /\ UNCHANGED <<tokenKey, signed, checks>>
    BY <1>1 DEF ImportProducts
  <2>2. CASE release(u)
    BY <1>1, <2>1, <2>2, Released DEF Running
  <2>3. CASE Set(u, x) /\ UNCHANGED held
    <3>1. /\ IsUpload(x) /\ x.pc = "find" /\ x.kind = upload[u].kind
          /\ <<x.file, x.point, x.staff, x.began>>
                         = <<upload[u].file, upload[u].point, upload[u].staff, upload[u].began>>
      BY <1>0 DEF IsUpload, UploadFields, Running
    <3> HIDE DEF x
    <3> QED
      BY <1>1, <2>1, <2>3, <3>1, StaysInSlot DEF Running
  <2> QED
    BY <2>1, <2>2, <2>3
<1>2. CASE productImportApply(u) \/ importProductsHandler(u)
  <2>1. CASE ImportProducts(u)
    BY <1>1, <1>2, <2>1 DEF productImportApply, importProductsHandler
  <2>2. CASE ~ImportProducts(u)
    <3>1. /\ upload[u].pc = "planned" /\ release(u) /\ UNCHANGED <<tokenKey, signed, checks>>
      BY <1>2, <2>2 DEF productImportApply, importProductsHandler
    <3> QED
      BY <3>1, Released DEF Running
  <2> QED
    BY <2>1, <2>2
<1>3. CASE Find(u)
  <2> DEFINE x == [upload[u] EXCEPT !.pc = "write", !.found = findProduct(shop, Head(upload[u].models))]
  <2>1. /\ IsUpload(x) /\ x.pc = "write" /\ x.kind = upload[u].kind
        /\ <<x.file, x.point, x.staff, x.began>>
                         = <<upload[u].file, upload[u].point, upload[u].staff, upload[u].began>>
    BY <1>0 DEF IsUpload, UploadFields, Running
  <2>2. Set(u, x) /\ upload[u].pc = "find" /\ UNCHANGED <<held, tokenKey, signed, checks>>
    BY <1>3 DEF Find
  <2> HIDE DEF x
  <2> QED
    BY <2>1, <2>2, StaysInSlot DEF Running
<1>4. CASE Write(u)
  <2> DEFINE rest == Tail(upload[u].models)
             x == [upload[u] EXCEPT !.pc = "find", !.models = rest, !.found = NoId]
  <2>1. /\ upload[u].pc = "write" /\ UNCHANGED <<tokenKey, signed, checks>>
        /\ release(u) \/ (Set(u, x) /\ UNCHANGED held)
    BY <1>4 DEF Write, commitModel
  <2>2. CASE release(u)
    BY <2>1, <2>2, Released DEF Running
  <2>3. CASE Set(u, x) /\ UNCHANGED held
    <3>1. /\ IsUpload(x) /\ x.pc = "find" /\ x.kind = upload[u].kind
          /\ <<x.file, x.point, x.staff, x.began>>
                         = <<upload[u].file, upload[u].point, upload[u].staff, upload[u].began>>
      BY <1>0 DEF IsUpload, UploadFields, Running
    <3> HIDE DEF x
    <3> QED
      BY <2>1, <2>3, <3>1, StaysInSlot DEF Running
  <2> QED
    BY <2>1, <2>2, <2>3
<1>5. CASE ImportCancelled(u)
  BY <1>5, Released DEF ImportCancelled, Running
<1> QED
  BY <1>2, <1>3, <1>4, <1>5

\* Time, a point that closes, a restart: it takes every run with it.
LEMMA AroundKeeps ==
    ASSUME ImportInv,
           ImportTick \/ ImportRestart \/ (\E p \in activePoints : PointSwitched(p))
             \/ UNCHANGED <<shop, importVars>>
    PROVE  ImportInv'
<1>1. CASE ImportRestart
  <2>1. \A u \in Uploads : upload'[u] = [NoUpload EXCEPT !.count = upload[u].count]
    BY <1>1 DEF ImportRestart
  <2>2. ImportShape'
    BY <1>1, <2>1 DEF ImportRestart, ImportShape, IsUpload, UploadFields, NoUpload
  <2>3. \A u \in Uploads : upload'[u].pc = "idle"
    BY <2>1 DEF NoUpload
  <2>4. HoldingSlot' = {}
    BY <2>3 DEF HoldingSlot, Running
  <2>5. Slots'
    BY <1>1, <2>4, FS_EmptySet, ImportAssumption DEF Slots, ImportRestart
  <2>6. Vetted'
    BY <2>3 DEF Vetted
  <2>7. TokensEarned'
    BY <1>1 DEF ImportRestart, ImportInv, TokensEarned, importTokenMAC
  <2> QED
    BY <2>2, <2>5, <2>6, <2>7 DEF ImportInv
<1>2. CASE ~ImportRestart
  <2>1. UNCHANGED <<held, tokenKey, signed, upload, checks>>
    BY <1>2 DEF ImportTick, PointSwitched, importVars
  <2>2. ImportShape' /\ HoldingSlot' = HoldingSlot
    BY <2>1 DEF ImportInv, ImportShape, IsUpload, HoldingSlot
  <2>3. TokensEarned' /\ Vetted'
    BY <2>1 DEF ImportInv, TokensEarned, Vetted, CheckedFor, importTokenMAC
  <2> QED
    BY <2>1, <2>2, <2>3 DEF ImportInv, Slots
<1> QED
  BY <1>1, <1>2

LEMMA ImportInductive == ImportInv /\ [ImportNext]_<<shop, importVars>> => ImportInv'
<1> SUFFICES ASSUME ImportInv, [ImportNext]_<<shop, importVars>> PROVE ImportInv'
  OBVIOUS
<1>1. \/ \E u \in Uploads : \/ beginImport(u) \/ beginJSONImport(u)
                            \/ Acquire(u) \/ Busy(u)
                            \/ readImportUpload(u) \/ productImportCheck(u)
                            \/ \/ productImportApply(u) \/ importProductsHandler(u)
                               \/ Find(u) \/ Write(u) \/ ImportCancelled(u)
      \/ ImportTick \/ ImportRestart \/ (\E p \in activePoints : PointSwitched(p))
      \/ UNCHANGED <<shop, importVars>>
  BY DEF ImportNext
<1> QED
  BY <1>1, BeginKeeps, QueueKeeps, ReadKeeps, CheckKeeps, ImportsKeep, AroundKeeps

\* For any number of uploads, members, files and slots: no way out of a
\* handler leaks or doubles a slot, and the screen imports only what this
\* process has checked for the same member, file and point, in time.
THEOREM ImportsAreGuarded == ImportSpec => []ImportGuarded
<1>1. ImportInv => ImportGuarded
  BY DEF ImportInv, Slots, HoldingSlot, Running, Vetted, CheckedFor, ImportGuarded
<1> QED
  BY <1>1, ImportInitially, ImportInductive, PTL DEF ImportSpec

LEMMA InOrder ==
    ASSUME NEW S, IsFiniteSet(S), S \subseteq Nat
    PROVE  /\ Cardinality(S) \in Nat
           /\ inOrder(S) \in [1..Cardinality(S) -> S]
           /\ \A i, j \in 1..Cardinality(S) : i < j => inOrder(S)[i] < inOrder(S)[j]
<1>1. Cardinality(S) \in Nat
  BY FS_CardinalityType
<1>2. \E s \in [1..Cardinality(S) -> S] : \A i, j \in DOMAIN s : i < j => s[i] < s[j]
  BY Ascending
<1>3. /\ inOrder(S) \in [1..Cardinality(S) -> S]
      /\ \A i, j \in DOMAIN inOrder(S) : i < j => inOrder(S)[i] < inOrder(S)[j]
  BY <1>2 DEF inOrder
<1> QED
  BY <1>1, <1>3

\* A model that an import can work through: its rows are in the file's order,
\* each on a line of its own, and their stock is counted.
IsModel(m) ==
    /\ m.rows \in Seq(Range(m.rows))
    /\ \A i, j \in DOMAIN m.rows : m.rows[i].line = m.rows[j].line => i = j
    /\ \A i \in DOMAIN m.rows : \A q \in DOMAIN m.rows[i].stock : m.rows[i].stock[q] \in Nat
AreModels(ms) == ms \in Seq(Range(ms)) /\ \A i \in DOMAIN ms : IsModel(ms[i])

LEMMA QuantityCounts == ASSUME NEW cell, parseQuantity(cell) # Bad PROVE parseQuantity(cell) \in Nat
BY PlanAssumption DEF parseQuantity

LEMMA RowStockCounts ==
    ASSUME NEW row, NEW target, NEW points, NEW q \in DOMAIN rowStock(row, target, points)
    PROVE  rowStock(row, target, points)[q] \in Nat
<1> DEFINE mine == {r \in DOMAIN row.stock \cap points :
                          row.stock[r] # None /\ parseQuantity(row.stock[r]) # Bad}
           own == [r \in mine |-> parseQuantity(row.stock[r])]
<1>1. \A r \in mine : own[r] \in Nat
  BY QuantityCounts
<1>2. CASE row.quantity = None \/ parseQuantity(row.quantity) = Bad \/ target = ""
  <2>1. rowStock(row, target, points) = own
    BY <1>2 DEF rowStock
  <2> QED
    BY <1>1, <2>1
<1>3. CASE ~(row.quantity = None \/ parseQuantity(row.quantity) = Bad \/ target = "")
  <2>1. rowStock(row, target, points) = [r \in mine \cup {target} |->
             IF r \in mine THEN own[r] ELSE parseQuantity(row.quantity)]
    BY <1>3 DEF rowStock
  <2>2. parseQuantity(row.quantity) \in Nat
    BY <1>3, QuantityCounts
  <2> HIDE DEF own, mine
  <2> QED
    BY <1>1, <2>1, <2>2
<1> QED
  BY <1>2, <1>3

LEMMA ParsedStock ==
    ASSUME NEW row, NEW target, NEW points, NEW q \in DOMAIN parseRow(row, target, points).stock
    PROVE  parseRow(row, target, points).stock[q] \in Nat
<1>1. \/ parseRow(row, target, points).stock = <<>>
      \/ parseRow(row, target, points).stock = rowStock(row, target, points)
  BY DEF parseRow
<1>2. DOMAIN <<>> = {}
  OBVIOUS
<1> QED
  BY <1>1, <1>2, RowStockCounts

\* Every row of a model is one of the group, as it was parsed.
LEMMA AssembledIsModel ==
    ASSUME NEW raw, NEW G, IsFiniteSet(G), G \subseteq Nat, NEW categoryId,
           \A i \in G : \A q \in DOMAIN raw[i].stock : raw[i].stock[q] \in Nat
    PROVE  IsModel(assemble(G, raw, categoryId))
<1> DEFINE m == assemble(G, raw, categoryId)
           N == Cardinality(G)
<1>1. /\ DOMAIN m.rows = 1..N
      /\ \A n \in 1..N : m.rows[n].line = inOrder(G)[n] /\ m.rows[n].stock = raw[inOrder(G)[n]].stock
      /\ m.rows = [n \in 1..N |-> m.rows[n]]
  BY DEF assemble
<1> HIDE DEF m
<1>2. /\ N \in Nat /\ \A n \in 1..N : inOrder(G)[n] \in G
      /\ \A i, j \in 1..N : i < j => inOrder(G)[i] < inOrder(G)[j]
  BY InOrder
<1> HIDE DEF N
<1>3. m.rows \in Seq(Range(m.rows))
  <2>1. m.rows \in [1..N -> Range(m.rows)]
    BY <1>1 DEF Range
  <2> QED
    BY <1>2, <2>1
<1>4. ASSUME NEW i \in 1..N, NEW j \in 1..N, m.rows[i].line = m.rows[j].line PROVE i = j
  <2>1. inOrder(G)[i] = inOrder(G)[j] /\ inOrder(G)[i] \in Nat
    BY <1>1, <1>2, <1>4
  <2>2. ~(i < j) /\ ~(j < i)
    BY <1>2, <2>1
  <2> QED
    BY <1>2, <2>2
<1>5. \A n \in 1..N : \A q \in DOMAIN m.rows[n].stock : m.rows[n].stock[q] \in Nat
  BY <1>1, <1>2
<1> QED
  BY <1>1, <1>3, <1>4, <1>5 DEF IsModel, m

LEMMA ParsedRows ==
    ASSUME NEW f \in DOMAIN ImportFiles, NEW target, NEW points
    PROVE  LET raw == markDuplicateSKUs(readRows(parseRows(ImportFiles[f]), target, points))
           IN  /\ IsFiniteSet(DOMAIN raw) /\ DOMAIN raw \subseteq Nat
               /\ \A i \in DOMAIN raw : \A q \in DOMAIN raw[i].stock : raw[i].stock[q] \in Nat
<1> DEFINE rows == parseRows(ImportFiles[f])
           cells == readRows(rows, target, points)
           raw == markDuplicateSKUs(cells)
<1>1. PICK len \in Nat : DOMAIN ImportFiles[f].records = 1..len
  BY PlanAssumption
<1>2. DOMAIN rows = 1..len
  BY <1>1 DEF parseRows
<1> HIDE DEF rows
<1>3. /\ DOMAIN cells = {i \in DOMAIN rows : ~isBlank(rows[i])}
      /\ \A i \in DOMAIN cells : cells[i] = parseRow(rows[i], target, points)
  BY DEF readRows
<1>4. /\ DOMAIN raw = DOMAIN cells
      /\ \A i \in DOMAIN cells : raw[i] = cells[i] \/ raw[i] = [cells[i] EXCEPT !.errs = @ \cup {"sku_duplicate_in_file"}]
  BY DEF markDuplicateSKUs
<1>5. IsFiniteSet(1..len)
  BY FS_Interval
<1> HIDE DEF cells
<1>6. IsFiniteSet(DOMAIN cells) /\ DOMAIN cells \subseteq Nat
  BY <1>2, <1>3, <1>5, FS_Subset
<1>7. ASSUME NEW i \in DOMAIN cells PROVE raw[i].stock = parseRow(rows[i], target, points).stock
  <2>1. cells[i] = parseRow(rows[i], target, points)
    BY <1>3
  <2>2. [cells[i] EXCEPT !.errs = @ \cup {"sku_duplicate_in_file"}].stock = parseRow(rows[i], target, points).stock
    BY <2>1 DEF parseRow
  <2> HIDE DEF raw
  <2> QED
    BY <1>4, <2>1, <2>2
<1> HIDE DEF raw
<1>8. \A i \in DOMAIN raw : \A q \in DOMAIN raw[i].stock : raw[i].stock[q] \in Nat
  BY <1>4, <1>7, ParsedStock
<1>9. IsFiniteSet(DOMAIN raw) /\ DOMAIN raw \subseteq Nat
  BY <1>4, <1>6
<1> QED
  BY <1>8, <1>9 DEF raw, cells, rows

LEMMA PlannedModels ==
    ASSUME NEW f \in DOMAIN ImportFiles, NEW target, NEW points
    PROVE  AreModels(plan(ImportFiles[f], target, points))
<1> DEFINE raw == markDuplicateSKUs(readRows(parseRows(ImportFiles[f]), target, points))
           key == [i \in DOMAIN raw |-> groupKey(raw[i], i)]
           group == groups(key)
           ids == resolveCategories(group, categoryCells(raw, group))
           ms == plan(ImportFiles[f], target, points)
           N == Cardinality(DOMAIN group)
<1>1. ms = assembleAll(raw, group, ids)
  BY DEF plan, planRows, planGroups
<1> HIDE DEF ids
<1>2. /\ IsFiniteSet(DOMAIN raw) /\ DOMAIN raw \subseteq Nat
      /\ \A i \in DOMAIN raw : \A q \in DOMAIN raw[i].stock : raw[i].stock[q] \in Nat
  BY ParsedRows
<1> HIDE DEF raw
<1>3. DOMAIN key = DOMAIN raw
  OBVIOUS
<1> HIDE DEF key
<1>4. /\ DOMAIN group \subseteq DOMAIN raw
      /\ \A i \in DOMAIN group : group[i] \subseteq DOMAIN raw
  BY <1>3 DEF groups
<1> HIDE DEF group, ms
<1>5. IsFiniteSet(DOMAIN group) /\ \A i \in DOMAIN group : IsFiniteSet(group[i])
  BY <1>2, <1>4, FS_Subset
<1>6. N \in Nat /\ inOrder(DOMAIN group) \in [1..N -> DOMAIN group]
  BY <1>2, <1>4, <1>5, InOrder
<1>7. ms = [n \in 1..N |-> assemble(group[inOrder(DOMAIN group)[n]], raw, ids[inOrder(DOMAIN group)[n]])]
  BY <1>1, <1>6 DEF assembleAll
<1>8. \A n \in 1..N : IsModel(ms[n])
  <2> SUFFICES ASSUME NEW n \in 1..N PROVE IsModel(ms[n])
    OBVIOUS
  <2>1. PICK i \in DOMAIN group : i = inOrder(DOMAIN group)[n]
    BY <1>6
  <2>2. ms[n] = assemble(group[i], raw, ids[i])
    BY <1>7, <2>1
  <2>3. group[i] \subseteq Nat /\ IsFiniteSet(group[i])
        /\ \A j \in group[i] : \A q \in DOMAIN raw[j].stock : raw[j].stock[q] \in Nat
    BY <1>2, <1>4, <1>5
  <2> QED
    BY <2>2, <2>3, AssembledIsModel
<1>9. DOMAIN ms = 1..N /\ ms \in Seq(Range(ms))
  <2>1. DOMAIN ms = 1..N /\ ms \in [1..N -> Range(ms)]
    BY <1>7 DEF Range
  <2> QED
    BY <1>6, <2>1
<1> QED
  BY <1>8, <1>9 DEF AreModels, ms
\* Working through a model: one row after another, and no row twice.
RowLoop(h, start, rows, p, created, n) ==
    h = [k \in 0..n |-> IF k = 0 THEN start ELSE importRow(h[k - 1], rows[k], p, created)]

LEMMA LoopRuns ==
    ASSUME NEW start, NEW rows, NEW p, NEW created, NEW n \in Nat
    PROVE  \E h : RowLoop(h, start, rows, p, created, n)
<1> DEFINE Stuck == {k \in Nat : ~\E h : RowLoop(h, start, rows, p, created, k)}
<1>1. 0 \notin Stuck
  <2>1. RowLoop([k \in 0..0 |-> start], start, rows, p, created, 0)
    BY DEF RowLoop
  <2> QED
    BY <2>1
<1>2. ASSUME NEW k \in Nat, k \notin Stuck PROVE k + 1 \notin Stuck
  <2>1. PICK g : RowLoop(g, start, rows, p, created, k)
    BY <1>2
  <2> DEFINE h == [j \in 0..(k + 1) |-> IF j = 0 THEN start ELSE importRow(g[j - 1], rows[j], p, created)]
  <2>2. ASSUME NEW j \in 0..k PROVE h[j] = g[j]
    BY <2>1 DEF RowLoop
  <2>3. h = [j \in 0..(k + 1) |-> IF j = 0 THEN start ELSE importRow(h[j - 1], rows[j], p, created)]
    <3>1. ASSUME NEW j \in 0..(k + 1), j # 0 PROVE h[j - 1] = g[j - 1]
      <4>1. j - 1 \in 0..k
        BY <3>1
      <4> HIDE DEF h
      <4> QED
        BY <2>2, <4>1
    <3>2. \A j \in 0..(k + 1) : h[j] = IF j = 0 THEN start ELSE importRow(h[j - 1], rows[j], p, created)
      BY <3>1
    <3> QED
      BY <3>2
  <2> HIDE DEF h
  <2> QED
    BY <2>3 DEF RowLoop
<1> HIDE DEF Stuck
<1>3. Stuck = {}
  <2> SUFFICES ASSUME Stuck # {} PROVE FALSE
    OBVIOUS
  <2>1. Stuck \subseteq Nat
    BY DEF Stuck
  <2>2. PICK m \in Stuck : \A k \in Stuck : m <= k
    BY <2>1, NatLeast
  <2>3. m # 0 /\ m - 1 \in Nat /\ ~(m <= m - 1)
    BY <1>1, <2>1, <2>2
  <2>4. m - 1 \notin Stuck
    BY <2>2, <2>3
  <2>5. (m - 1) + 1 \notin Stuck
    BY <1>2, <2>3, <2>4
  <2> QED
    BY <2>1, <2>5
<1> QED
  BY <1>3 DEF Stuck

LEMMA ImportRowsIs ==
    ASSUME NEW start, NEW rows, rows \in Seq(Range(rows)), NEW p, NEW created
    PROVE  \E h : /\ RowLoop(h, start, rows, p, created, Len(rows))
                  /\ importRows(start, rows, p, created) = h[Len(rows)]
<1>1. Len(rows) \in Nat
  OBVIOUS
<1> DEFINE h == CHOOSE g : RowLoop(g, start, rows, p, created, Len(rows))
<1>2. RowLoop(h, start, rows, p, created, Len(rows))
  BY <1>1, LoopRuns
<1>3. importRows(start, rows, p, created) = h[Len(rows)]
  BY DEF importRows, RowLoop
<1> QED
  BY <1>2, <1>3

-----------------------------------------------------------------------------
\* What the rows of a model leave in the tables.
TableFields == {"products", "variants", "stock", "images", "sold", "productIds", "variantIds"}
OutFields == {"ok", "tables", "at"}

\* A row is in the tables as variant v of product p.
RowIn(t, p, row, v) ==
    /\ v \in DOMAIN t.variants
    /\ t.variants[v].product = p /\ t.variants[v].size = row.size /\ t.variants[v].color = row.color
    /\ t.variants[v].override = row.override
    /\ row.sku # NoText => t.variants[v].sku = row.sku
    /\ \A q \in DOMAIN row.stock : storedAt(t, v, q) = row.stock[q]

SameVariant(t, old, v) ==
    /\ v \in DOMAIN old.variants => v \in DOMAIN t.variants /\ t.variants[v] = old.variants[v]
    /\ \A q : storedAt(t, v, q) = storedAt(old, v, q)

RowsIn(out, old, rows, p, n) ==
    /\ TablesSound(out.tables) /\ p \in DOMAIN out.tables.products
    /\ out.tables.products = old.products
    /\ out.at = [l \in DOMAIN out.at |-> out.at[l]]
    /\ \A l \in DOMAIN out.at : \E k \in 1..n : rows[k].line = l
    /\ \A k \in 1..n : rows[k].hasVariant =>
          /\ rows[k].line \in DOMAIN out.at
          /\ \/ RowIn(out.tables, p, rows[k], out.at[rows[k].line])
             \/ \E j \in 1..n : j > k /\ rows[j].hasVariant /\ out.at[rows[j].line] = out.at[rows[k].line]
    /\ DOMAIN old.variants \subseteq DOMAIN out.tables.variants
    /\ \A v : v \notin Range(out.at) => SameVariant(out.tables, old, v)

\* The state of the loop after n rows.
LoopAt(out, old, rows, p, n) ==
    Has(out, OutFields) /\ (out.ok => RowsIn(out, old, rows, p, n))

\* What one row writes.
LEMMA RowTables ==
    ASSUME NEW t, TablesSound(t), NEW id, NEW new, Has(new, VariantColumns),
           new.product \in DOMAIN t.products, NEW stock,
           NEW T, T = SetStock(putVariant(t, id, new), id, stock)
    PROVE  /\ TablesSound(T) /\ T.products = t.products
           /\ DOMAIN T.variants = DOMAIN t.variants \cup {id}
           /\ T.variants[id] = new
           /\ \A v \in DOMAIN t.variants \ {id} : T.variants[v] = t.variants[v]
           /\ \A q \in DOMAIN stock : storedAt(T, id, q) = stock[q]
           /\ \A v, q : v # id => storedAt(T, v, q) = storedAt(t, v, q)
<1> DEFINE fields == DOMAIN EmptyTables
           mid == putVariant(t, id, new)
           cells == {id} \X DOMAIN stock
<1>0. fields = TableFields
  BY DEF EmptyTables, TableFields
<1>1. t = [f \in TableFields |-> t[f]]
  BY <1>0 DEF TablesSound, Has
<1>2. /\ mid = [f \in TableFields |-> mid[f]] /\ mid.products = t.products /\ mid.stock = t.stock
      /\ mid.variants = [v \in DOMAIN t.variants \cup {id} |-> IF v = id THEN new ELSE t.variants[v]]
  BY <1>1 DEF putVariant, Put, TableFields
<1> HIDE DEF mid
<1>3. /\ T = [f \in TableFields |-> T[f]] /\ T.products = t.products /\ T.variants = mid.variants
      /\ T.stock = [c \in DOMAIN t.stock \cup cells |-> IF c \in cells THEN stock[c[2]] ELSE t.stock[c]]
  BY <1>2 DEF SetStock, mid, TableFields
<1>4. /\ DOMAIN T.variants = DOMAIN t.variants \cup {id} /\ T.variants[id] = new
      /\ \A v \in DOMAIN t.variants \ {id} : T.variants[v] = t.variants[v]
  BY <1>2, <1>3
<1>5. TablesSound(T)
  <2>1. Has(T, DOMAIN EmptyTables)
    BY <1>0, <1>3 DEF Has
  <2>2. \A v \in DOMAIN T.variants : Has(T.variants[v], VariantColumns) /\ T.variants[v].product \in DOMAIN T.products
    BY <1>3, <1>4 DEF TablesSound
  <2> QED
    BY <1>3, <2>1, <2>2 DEF TablesSound
<1>6. ASSUME NEW q \in DOMAIN stock PROVE storedAt(T, id, q) = stock[q]
  <2>1. <<id, q>> \in cells /\ <<id, q>>[2] = q
    OBVIOUS
  <2> QED
    BY <1>3, <2>1 DEF storedAt
<1>7. ASSUME NEW v, NEW q, v # id PROVE storedAt(T, v, q) = storedAt(t, v, q)
  <2>1. <<v, q>> \notin cells
    BY <1>7
  <2> QED
    BY <1>3, <2>1 DEF storedAt
<1> QED
  BY <1>3, <1>4, <1>5, <1>6, <1>7

LEMMA RowWrites ==
    ASSUME NEW out, Has(out, OutFields), out.ok, NEW old, NEW rows, NEW p, NEW n \in Nat,
           RowsIn(out, old, rows, p, n), rows[n + 1].hasVariant,
           \A k \in 1..n : rows[k].line # rows[n + 1].line,
           NEW id
    PROVE  LoopAt(importVariant(out, rows[n + 1], p, id), old, rows, p, n + 1)
<1> DEFINE row == rows[n + 1]
           t == out.tables
           new == IF id \in DOMAIN t.variants THEN UpdateVariant(t.variants[id], row)
                  ELSE CreateVariant(p, row)
           next == importVariant(out, row, p, id)
<1>0. TablesSound(t) /\ p \in DOMAIN t.products
  BY DEF RowsIn
<1>1. CASE next = [out EXCEPT !.ok = FALSE]
  BY <1>1 DEF LoopAt, Has, OutFields
<1>2. CASE next # [out EXCEPT !.ok = FALSE]
  <2> DEFINE T == SetStock(putVariant(t, id, new), id, row.stock)
  <2>1. /\ id \in DOMAIN t.variants => t.variants[id].product = p
        /\ next = [out EXCEPT !.tables = T, !.at = Put(@, row.line, id)]
    BY <1>2 DEF importVariant, writeRow
  <2>2. /\ Has(new, VariantColumns) /\ new.product = p /\ new.size = row.size /\ new.color = row.color
        /\ new.override = row.override /\ (row.sku # NoText => new.sku = row.sku)
    <3>1. CASE id \in DOMAIN t.variants
      <4>1. Has(t.variants[id], VariantColumns)
        BY <1>0, <3>1 DEF TablesSound
      <4> QED
        BY <2>1, <3>1, <4>1 DEF UpdateVariant, Keep, Has, VariantColumns
    <3>2. CASE id \notin DOMAIN t.variants
      BY <3>2 DEF CreateVariant, Has, VariantColumns
    <3> QED
      BY <3>1, <3>2
  <2> HIDE DEF new
  <2>3. /\ TablesSound(T) /\ T.products = t.products
        /\ DOMAIN T.variants = DOMAIN t.variants \cup {id}
        /\ T.variants[id] = new
        /\ \A v \in DOMAIN t.variants \ {id} : T.variants[v] = t.variants[v]
        /\ \A q \in DOMAIN row.stock : storedAt(T, id, q) = row.stock[q]
        /\ \A v, q : v # id => storedAt(T, v, q) = storedAt(t, v, q)
    BY <1>0, <2>2, RowTables
  <2> HIDE DEF T, t
  <2>4. /\ Has(next, OutFields) /\ next.ok /\ next.tables = T
        /\ next.at = [l \in DOMAIN out.at \cup {row.line} |-> IF l = row.line THEN id ELSE out.at[l]]
    BY <2>1 DEF Has, OutFields, Put
  <2> HIDE DEF next, row
  <2>5. RowIn(T, p, row, id)
    BY <2>2, <2>3 DEF RowIn
  <2>6. row.line \notin DOMAIN out.at
    BY DEF RowsIn, row
  <2>7. \A v : v \notin Range(next.at) => v # id /\ v \notin Range(out.at)
    <3>1. Range(next.at) = Range(out.at) \cup {id}
      BY <2>4, <2>6 DEF Range
    <3> QED
      BY <3>1
  <2>8. ASSUME NEW v, v \notin Range(next.at) PROVE SameVariant(T, old, v)
    <3>1. SameVariant(t, old, v) /\ v # id
      BY <2>7, <2>8 DEF RowsIn, t
    <3> QED
      BY <2>3, <3>1 DEF SameVariant
  <2>9. ASSUME NEW k \in 1..(n + 1), rows[k].hasVariant
        PROVE  /\ rows[k].line \in DOMAIN next.at
               /\ \/ RowIn(T, p, rows[k], next.at[rows[k].line])
                  \/ \E j \in 1..(n + 1) : j > k /\ rows[j].hasVariant /\ next.at[rows[j].line] = next.at[rows[k].line]
    <3>1. CASE k = n + 1
      BY <2>4, <2>5, <3>1 DEF row
    <3>2. CASE k # n + 1
      <4>1. k \in 1..n
        BY <3>2
      <4>2. /\ rows[k].line \in DOMAIN out.at
            /\ \/ RowIn(t, p, rows[k], out.at[rows[k].line])
               \/ \E j \in 1..n : j > k /\ rows[j].hasVariant /\ out.at[rows[j].line] = out.at[rows[k].line]
        BY <2>9, <4>1 DEF RowsIn, t
      <4>3. \A j \in 1..n : rows[j].line # row.line
        BY DEF row
      <4>4. rows[k].line \in DOMAIN next.at /\ next.at[rows[k].line] = out.at[rows[k].line]
        BY <2>4, <4>1, <4>2, <4>3
      <4>5. CASE out.at[rows[k].line] = id
        <5>1. n + 1 \in 1..(n + 1) /\ n + 1 > k /\ rows[n + 1].hasVariant /\ next.at[rows[n + 1].line] = id
          BY <2>4, <4>1 DEF row
        <5> QED
          BY <4>4, <4>5, <5>1
      <4>6. CASE out.at[rows[k].line] # id /\ RowIn(t, p, rows[k], out.at[rows[k].line])
        BY <2>3, <4>4, <4>6, SMTT(20) DEF RowIn
      <4>7. ASSUME NEW j \in 1..n, j > k, rows[j].hasVariant, out.at[rows[j].line] = out.at[rows[k].line]
            PROVE  j \in 1..(n + 1) /\ next.at[rows[j].line] = next.at[rows[k].line]
        <5>1. rows[j].line \in DOMAIN out.at
          BY <4>7 DEF RowsIn
        <5> QED
          BY <2>4, <4>3, <4>4, <4>7, <5>1
      <4> QED
        BY <4>2, <4>4, <4>5, <4>6, <4>7
    <3> QED
      BY <3>1, <3>2
  <2>10. \A l \in DOMAIN next.at : \E k \in 1..(n + 1) : rows[k].line = l
    <3> SUFFICES ASSUME NEW l \in DOMAIN next.at PROVE \E k \in 1..(n + 1) : rows[k].line = l
      OBVIOUS
    <3>1. CASE l = row.line
      <4>1. n + 1 \in 1..(n + 1)
        OBVIOUS
      <4> QED
        BY <3>1, <4>1 DEF row
    <3>2. CASE l # row.line
      <4>1. PICK k \in 1..n : rows[k].line = l
        BY <2>4, <3>2 DEF RowsIn
      <4> QED
        BY <4>1
    <3> QED
      BY <3>1, <3>2
  <2>11. p \in DOMAIN T.products /\ T.products = old.products
         /\ DOMAIN old.variants \subseteq DOMAIN T.variants
    BY <1>0, <2>3 DEF RowsIn, t
  <2>12. RowsIn(next, old, rows, p, n + 1)
    <3>1. next.at = [l \in DOMAIN next.at |-> next.at[l]]
      BY <2>4
    <3>2. \A k \in 1..(n + 1) : rows[k].hasVariant =>
          /\ rows[k].line \in DOMAIN next.at
          /\ \/ RowIn(next.tables, p, rows[k], next.at[rows[k].line])
             \/ \E j \in 1..(n + 1) : j > k /\ rows[j].hasVariant /\ next.at[rows[j].line] = next.at[rows[k].line]
      BY <2>4, <2>9
    <3>3. \A v : v \notin Range(next.at) => SameVariant(next.tables, old, v)
      BY <2>4, <2>8
    <3>4. /\ TablesSound(next.tables) /\ p \in DOMAIN next.tables.products
          /\ next.tables.products = old.products /\ DOMAIN old.variants \subseteq DOMAIN next.tables.variants
      BY <2>3, <2>4, <2>11
    <3> QED
      BY ONLY <2>10, <3>1, <3>2, <3>3, <3>4 DEF RowsIn
  <2> QED
    BY <2>4, <2>12 DEF LoopAt, next, row
<1> QED
  BY <1>1, <1>2

LEMMA RowStep ==
    ASSUME NEW out, NEW old, NEW rows, NEW p, NEW created, NEW n \in Nat,
           LoopAt(out, old, rows, p, n), \A k \in 1..n : rows[k].line # rows[n + 1].line
    PROVE  LoopAt(importRow(out, rows[n + 1], p, created), old, rows, p, n + 1)
<1>1. CASE out.ok /\ rows[n + 1].hasVariant
  <2>1. importRow(out, rows[n + 1], p, created)
          = importVariant(out, rows[n + 1], p, rowVariant(out.tables, rows[n + 1], p, created))
    BY <1>1 DEF importRow
  <2>2. Has(out, OutFields) /\ RowsIn(out, old, rows, p, n)
    BY <1>1 DEF LoopAt
  <2> QED
    BY <1>1, <2>1, <2>2, RowWrites
<1>2. CASE ~out.ok
  BY <1>2 DEF importRow, LoopAt
<1>3. CASE out.ok /\ ~rows[n + 1].hasVariant
  <2>1. importRow(out, rows[n + 1], p, created) = out
    BY <1>3 DEF importRow
  <2>2. RowsIn(out, old, rows, p, n) /\ Has(out, OutFields)
    BY <1>3 DEF LoopAt
  <2>3. 1..n \subseteq 1..(n + 1) /\ \A k \in 1..(n + 1) : k = n + 1 \/ k \in 1..n
    OBVIOUS
  <2>4. RowsIn(out, old, rows, p, n + 1)
    BY <1>3, <2>2, <2>3 DEF RowsIn
  <2> QED
    BY <2>1, <2>2, <2>4 DEF LoopAt
<1> QED
  BY <1>1, <1>2, <1>3

LEMMA LoopEnds ==
    ASSUME NEW m, IsModel(m), NEW start, Has(start, OutFields), NEW p, NEW created,
           start.at = <<>>, start.ok => TablesSound(start.tables) /\ p \in DOMAIN start.tables.products
    PROVE  LoopAt(importRows(start, m.rows, p, created), start.tables, m.rows, p, Len(m.rows))
<1>1. Len(m.rows) \in Nat /\ DOMAIN m.rows = 1..Len(m.rows)
  BY DEF IsModel
<1>2. PICK h : /\ RowLoop(h, start, m.rows, p, created, Len(m.rows))
               /\ importRows(start, m.rows, p, created) = h[Len(m.rows)]
  BY ImportRowsIs DEF IsModel
<1> DEFINE old == start.tables
           Off == {n \in 0..Len(m.rows) : ~LoopAt(h[n], old, m.rows, p, n)}
<1>3. LoopAt(h[0], old, m.rows, p, 0)
  <2>1. h[0] = start
    BY <1>1, <1>2 DEF RowLoop
  <2>2. Range(start.at) = {} /\ DOMAIN start.at = {} /\ start.at = [l \in DOMAIN start.at |-> start.at[l]]
    BY DEF Range
  <2>3. \A v : SameVariant(start.tables, old, v)
    BY DEF SameVariant
  <2>4. start.ok => RowsIn(start, old, m.rows, p, 0)
    BY <2>2, <2>3 DEF RowsIn
  <2> QED
    BY <2>1, <2>4 DEF LoopAt
<1>4. ASSUME NEW n \in Nat, n + 1 <= Len(m.rows), LoopAt(h[n], old, m.rows, p, n)
      PROVE  LoopAt(h[n + 1], old, m.rows, p, n + 1)
  <2>1. h[n + 1] = importRow(h[n], m.rows[n + 1], p, created)
    BY <1>1, <1>2, <1>4 DEF RowLoop
  <2>2. \A k \in 1..n : m.rows[k].line # m.rows[n + 1].line
    <3>1. \A k \in 1..n : k \in DOMAIN m.rows /\ n + 1 \in DOMAIN m.rows /\ k # n + 1
      BY <1>1, <1>4
    <3> QED
      BY <3>1 DEF IsModel
  <2> HIDE DEF old
  <2> QED
    BY <1>4, <2>1, <2>2, RowStep
<1> HIDE DEF old
<1>5. Off = {}
  <2> SUFFICES ASSUME Off # {} PROVE FALSE
    OBVIOUS
  <2>1. Off \subseteq Nat
    BY <1>1
  <2> HIDE DEF Off
  <2>2. PICK n \in Off : \A k \in Off : n <= k
    BY <2>1, NatLeast
  <2>3. n \in 0..Len(m.rows) /\ ~LoopAt(h[n], old, m.rows, p, n)
    BY <2>2 DEF Off
  <2>4. n # 0 /\ n - 1 \in 0..Len(m.rows) /\ ~(n <= n - 1)
    BY <1>1, <1>3, <2>3
  <2>5. n - 1 \notin Off
    BY <2>2, <2>4
  <2>6. PICK k \in Nat : k = n - 1 /\ k + 1 = n /\ k + 1 <= Len(m.rows)
    BY <1>1, <2>3, <2>4
  <2>7. LoopAt(h[k], old, m.rows, p, k)
    BY <2>4, <2>5, <2>6 DEF Off
  <2>8. LoopAt(h[k + 1], old, m.rows, p, k + 1)
    BY <1>4, <2>6, <2>7
  <2> QED
    BY <2>3, <2>6, <2>8
<1>6. Len(m.rows) \in 0..Len(m.rows)
  BY <1>1
<1>7. LoopAt(h[Len(m.rows)], old, m.rows, p, Len(m.rows))
  BY <1>5, <1>6
<1> QED
  BY <1>2, <1>7 DEF old
-----------------------------------------------------------------------------
\* A model as a whole.

\* The product row a model begins with, and the product it belongs to.
ModelStart(t, m, found) ==
    IF found = NoId THEN CreateProduct(t, m.product) ELSE UpdateProduct(t, found, m.product)
ModelOwner(t, found) == IF found = NoId THEN t.productIds + 1 ELSE found

LEMMA ProductWritten ==
    ASSUME NEW t, TablesSound(t), NEW m, NEW found \in DOMAIN t.products \cup {NoId}
    PROVE  LET T == ModelStart(t, m, found)
               p == ModelOwner(t, found)
           IN  /\ TablesSound(T) /\ T.variants = t.variants /\ T.stock = t.stock
               /\ DOMAIN T.products = DOMAIN t.products \cup {p}
               /\ T.products[p].price = m.product.price
               /\ \A q \in DOMAIN t.products \ {p} : T.products[q] = t.products[q]
<1> DEFINE T == ModelStart(t, m, found)
           p == ModelOwner(t, found)
<1>0. DOMAIN EmptyTables = TableFields
  BY DEF EmptyTables, TableFields
<1>1. t = [f \in TableFields |-> t[f]]
  BY <1>0 DEF TablesSound, Has
<1>2. PICK row : T = putProduct(t, p, row) /\ Has(row, ProductColumns) /\ row.price = m.product.price
  <2>1. CASE found = NoId
    BY <2>1 DEF ModelStart, ModelOwner, CreateProduct, Has, ProductColumns
  <2>2. CASE found # NoId
    <3>1. Has(t.products[found], ProductColumns)
      BY <2>2 DEF TablesSound
    <3> DEFINE row == [t.products[found] EXCEPT !.category = m.product.category, !.name = m.product.name,
                             !.brand = Keep(m.product.brand, @), !.price = m.product.price,
                             !.code = Keep(m.product.code, @)]
    <3>2. T = putProduct(t, p, row)
      BY <2>2 DEF ModelStart, ModelOwner, UpdateProduct
    <3>3. Has(row, ProductColumns) /\ row.price = m.product.price
      BY <3>1 DEF Has, ProductColumns
    <3> QED
      BY <3>2, <3>3
  <2> QED
    BY <2>1, <2>2
<1> HIDE DEF T, p
<1>3. /\ T = [f \in TableFields |-> T[f]] /\ T.variants = t.variants /\ T.stock = t.stock
      /\ T.products = [q \in DOMAIN t.products \cup {p} |-> IF q = p THEN row ELSE t.products[q]]
  BY <1>1, <1>2 DEF putProduct, Put, TableFields
<1>4. TablesSound(T)
  <2>1. Has(T, DOMAIN EmptyTables)
    BY <1>0, <1>3 DEF Has
  <2>2. \A q \in DOMAIN T.products : Has(T.products[q], ProductColumns)
    BY <1>2, <1>3 DEF TablesSound
  <2>3. \A v \in DOMAIN T.variants : Has(T.variants[v], VariantColumns) /\ T.variants[v].product \in DOMAIN T.products
    BY <1>3 DEF TablesSound
  <2> QED
    BY <2>1, <2>2, <2>3 DEF TablesSound
<1> QED
  BY <1>2, <1>3, <1>4 DEF T, p

LEMMA ModelImported ==
    ASSUME NEW t, TablesSound(t), NEW m, IsModel(m), NEW found \in DOMAIN t.products \cup {NoId, Failed},
           importModel(t, m, found).ok
    PROVE  /\ found \in DOMAIN t.products \cup {NoId}
           /\ RowsIn(importModel(t, m, found), ModelStart(t, m, found), m.rows, ModelOwner(t, found), Len(m.rows))
<1> DEFINE out == importModel(t, m, found)
           T == ModelStart(t, m, found)
           p == ModelOwner(t, found)
<1>1. found # Failed
  <2> SUFFICES ASSUME found = Failed PROVE FALSE
    OBVIOUS
  <2>1. found # NoId
    BY DEF Failed, NoId
  <2>2. importModel(t, m, found) = [ok |-> FALSE, tables |-> t, at |-> <<>>]
    BY <2>1 DEF importModel
  <2> QED
    BY <2>2
<1>2. found \in DOMAIN t.products \cup {NoId}
  BY <1>1
<1>3. /\ TablesSound(T) /\ p \in DOMAIN T.products
  BY <1>2, ProductWritten
<1>4. PICK ok, created : out = importRows([ok |-> ok, at |-> <<>>, tables |-> T], m.rows, p, created)
  BY <1>1 DEF importModel, ModelStart, ModelOwner
<1> DEFINE start == [ok |-> ok, at |-> <<>>, tables |-> T]
<1>5. Has(start, OutFields) /\ start.at = <<>> /\ start.tables = T
  BY DEF Has, OutFields
<1> HIDE DEF T, p
<1>6. out = importRows(start, m.rows, p, created)
  BY <1>4
<1> HIDE DEF start
<1>7. LoopAt(importRows(start, m.rows, p, created), T, m.rows, p, Len(m.rows))
  BY <1>3, <1>5, LoopEnds
<1> QED
  BY <1>2, <1>6, <1>7 DEF LoopAt, T, p

LEMMA Positive == ASSUME NEW n \in Nat PROVE Max({0, n}) = n
<1>1. \A y \in {0, n} : n >= y
  OBVIOUS
<1>2. \A x \in {0, n} : (\A y \in {0, n} : x >= y) => x = n
  OBVIOUS
<1> QED
  BY <1>1, <1>2 DEF Max

\* What a committed model leaves is what its file says.
LEMMA CommittedAsWritten ==
    ASSUME TablesSound(shop), NEW m, IsModel(m), NEW found \in DOMAIN shop.products \cup {NoId, Failed},
           importModel(shop, m, found).ok, shop' = importModel(shop, m, found).tables
    PROVE  AsWritten(m, importModel(shop, m, found).at, IF found = NoId THEN shop.productIds + 1 ELSE found)
<1> DEFINE out == importModel(shop, m, found)
           T == ModelStart(shop, m, found)
           p == ModelOwner(shop, found)
           at == out.at
           len == Len(m.rows)
<1>1. found \in DOMAIN shop.products \cup {NoId} /\ RowsIn(out, T, m.rows, p, len)
  BY ModelImported
<1>2. /\ T.variants = shop.variants /\ T.stock = shop.stock
      /\ DOMAIN T.products = DOMAIN shop.products \cup {p}
      /\ T.products[p].price = m.product.price
      /\ \A q \in DOMAIN shop.products \ {p} : T.products[q] = shop.products[q]
  BY <1>1, ProductWritten
<1>3. p = IF found = NoId THEN shop.productIds + 1 ELSE found
  BY DEF ModelOwner
<1>4. DOMAIN m.rows = 1..len
  BY DEF IsModel
<1> HIDE DEF out, T, p, len
<1>5. shop' = out.tables
  BY DEF out
<1>6. ASSUME NEW n \in 1..len, RowIn(shop', p, m.rows[n], at[m.rows[n].line])
      PROVE  RowWritten(shop', m, m.rows[n], at[m.rows[n].line])
  <2> DEFINE row == m.rows[n]
             v == at[m.rows[n].line]
  <2>1. shop'.products[p].price = m.product.price
    BY <1>1, <1>2, <1>5 DEF RowsIn
  <2>2. effectivePrice(shop', v) = IF row.override = NoPrice THEN m.product.price ELSE row.override
    BY <1>6, <2>1 DEF RowIn, effectivePrice
  <2>3. ASSUME NEW q \in DOMAIN row.stock PROVE quantityAt(shop', v, q) = row.stock[q]
    <3>1. storedAt(shop', v, q) = row.stock[q]
      BY <1>6 DEF RowIn
    <3>2. row.stock[q] \in Nat
      BY <1>4 DEF IsModel
    <3> QED
      BY <3>1, <3>2, Positive DEF quantityAt
  <2> QED
    BY <1>6, <2>2, <2>3 DEF RowIn, RowWritten
<1>7. \A n \in DOMAIN m.rows : m.rows[n].hasVariant =>
          \/ RowWritten(shop', m, m.rows[n], at[m.rows[n].line])
          \/ \E k \in DOMAIN m.rows : k > n /\ m.rows[k].hasVariant /\ at[m.rows[k].line] = at[m.rows[n].line]
  BY <1>1, <1>4, <1>5, <1>6 DEF RowsIn
<1>8. \A q \in DOMAIN shop.products \ {p} : shop'.products[q] = shop.products[q]
  BY <1>1, <1>2, <1>5 DEF RowsIn
<1>9. ASSUME NEW v \in DOMAIN shop.variants \ Range(at)
      PROVE  /\ v \in DOMAIN shop'.variants /\ shop'.variants[v] = shop.variants[v]
             /\ \A q \in ToSet(ImportPoints) : quantityAt(shop', v, q) = quantityAt(shop, v, q)
  <2>1. SameVariant(shop', T, v)
    BY <1>1, <1>5, <1>9 DEF RowsIn
  <2>2. \A q : storedAt(T, v, q) = storedAt(shop, v, q)
    BY <1>2 DEF storedAt
  <2>3. \A q : storedAt(shop', v, q) = storedAt(shop, v, q)
    BY <2>1, <2>2 DEF SameVariant
  <2> QED
    BY <1>2, <2>1, <2>3 DEF SameVariant, quantityAt
<1> QED
  BY <1>3, <1>7, <1>8, <1>9 DEF AsWritten, out

-----------------------------------------------------------------------------
\* Requests on their way have models to import, for products that exist.
Ready(x, t) ==
    /\ x.pc \in {"planned", "find", "write"} => AreModels(x.models)
    /\ x.pc \in {"find", "write"} => x.models # <<>>
    /\ x.pc = "write" => x.found \in DOMAIN t.products \cup {NoId, Failed}
RunInv == ImportInv /\ TablesSound(shop) /\ \A u \in Uploads : Ready(upload[u], shop)

LEMMA FoundStored ==
    ASSUME NEW t, TablesSound(t), NEW m
    PROVE  findProduct(t, m) \in DOMAIN t.products \cup {NoId, Failed}
<1> DEFINE byCode == ProductByModelCode(t, m.product.code)
           owners == {t.variants[v].product : v \in UNION {VariantBySKU(t, m.rows[n].sku) : n \in DOMAIN m.rows}}
           foreign == {p \in owners : /\ m.product.code # NoText /\ t.products[p].code # NoText
                                      /\ lower(t.products[p].code) # lower(m.product.code)}
           named == ProductsByName(t, m.product)
<1>1. byCode \subseteq DOMAIN t.products /\ named \subseteq DOMAIN t.products
  BY DEF ProductByModelCode, ProductsByName
<1>2. owners \subseteq DOMAIN t.products
  BY DEF VariantBySKU, TablesSound
<1>3. findProduct(t, m) =
         CASE byCode # {} -> CHOOSE p \in byCode : TRUE
          [] byCode = {} /\ (foreign # {} \/ Cardinality(owners) > 1) -> Failed
          [] byCode = {} /\ foreign = {} /\ Cardinality(owners) = 1 -> CHOOSE p \in owners : TRUE
          [] byCode = {} /\ owners = {} /\ Cardinality(named) = 1 -> CHOOSE p \in named : TRUE
          [] byCode = {} /\ owners = {} /\ named = {} -> NoId
          [] OTHER -> Failed
  BY DEF findProduct
<1> HIDE DEF byCode, owners, foreign, named
<1>4. /\ Cardinality(owners) = 1 => owners # {}
      /\ Cardinality(named) = 1 => named # {}
  <2>1. Cardinality({}) = 0
    BY FS_EmptySet
  <2> QED
    BY <2>1
<1> QED
  BY <1>1, <1>2, <1>3, <1>4

\* A request moves, and no product is lost.
LEMMA RunFollows ==
    ASSUME RunInv, ImportInv', NEW u \in Uploads, NEW x, Set(u, x), TablesSound(shop'),
           DOMAIN shop.products \subseteq DOMAIN shop'.products, Ready(x, shop')
    PROVE  RunInv'
<1>1. upload'[u] = x /\ \A w \in Uploads \ {u} : upload'[w] = upload[w]
  BY DEF RunInv, ImportInv, ImportShape, Set
<1>2. \A w \in Uploads \ {u} : Ready(upload'[w], shop')
  BY <1>1 DEF RunInv, Ready
<1> QED
  BY <1>1, <1>2 DEF RunInv

LEMMA RunEnds ==
    ASSUME RunInv, ImportInv', NEW u \in Uploads, release(u), TablesSound(shop'),
           DOMAIN shop.products \subseteq DOMAIN shop'.products
    PROVE  RunInv'
<1> DEFINE x == [NoUpload EXCEPT !.count = upload[u].count]
<1>1. Set(u, x) /\ x.pc = "idle"
  BY DEF release, NoUpload
<1> HIDE DEF x
<1> QED
  BY <1>1, RunFollows DEF Ready

LEMMA GoodModels ==
    ASSUME NEW ms, AreModels(ms), NEW S \in SUBSET (DOMAIN ms)
    PROVE  AreModels([n \in DOMAIN inOrder(S) |-> ms[inOrder(S)[n]]])
<1> DEFINE good == [n \in DOMAIN inOrder(S) |-> ms[inOrder(S)[n]]]
<1>1. Len(ms) \in Nat /\ DOMAIN ms = 1..Len(ms)
  BY DEF AreModels
<1>2. IsFiniteSet(S) /\ S \subseteq Nat
  <2>1. PICK n \in Nat : DOMAIN ms = 1..n
    BY <1>1
  <2>2. IsFiniteSet(1..n)
    BY FS_Interval
  <2> QED
    BY <2>1, <2>2, FS_Subset
<1>3. Cardinality(S) \in Nat /\ inOrder(S) \in [1..Cardinality(S) -> S]
  BY <1>2, InOrder
<1>4. DOMAIN good = 1..Cardinality(S) /\ good \in [1..Cardinality(S) -> Range(good)]
  BY <1>3 DEF Range
<1>5. \A n \in 1..Cardinality(S) : good[n] = ms[inOrder(S)[n]] /\ inOrder(S)[n] \in DOMAIN ms
  BY <1>3
<1> HIDE DEF good
<1>6. good \in Seq(Range(good))
  BY <1>3, <1>4
<1> QED
  BY <1>4, <1>5, <1>6 DEF AreModels, good

LEMMA OwnRange == ASSUME NEW R, NEW s \in Seq(R) PROVE s \in Seq(Range(s))
<1>1. Len(s) \in Nat /\ DOMAIN s = 1..Len(s) /\ s = [i \in 1..Len(s) |-> s[i]]
  OBVIOUS
<1>2. s \in [1..Len(s) -> Range(s)]
  BY <1>1 DEF Range
<1> QED
  BY <1>1, <1>2

LEMMA NextModels ==
    ASSUME NEW ms, AreModels(ms), ms # <<>>
    PROVE  IsModel(Head(ms)) /\ AreModels(Tail(ms))
<1>1. ms \in Seq(Range(ms)) /\ DOMAIN ms = 1..Len(ms) /\ Len(ms) \in Nat \ {0}
  BY DEF AreModels
<1>2. Head(ms) = ms[1] /\ 1 \in DOMAIN ms
  BY <1>1
<1>3. /\ Tail(ms) \in Seq(Range(ms)) /\ DOMAIN Tail(ms) = 1..(Len(ms) - 1)
      /\ \A i \in 1..(Len(ms) - 1) : Tail(ms)[i] = ms[i + 1] /\ i + 1 \in DOMAIN ms
  BY <1>1
<1>4. Tail(ms) \in Seq(Range(Tail(ms)))
  BY <1>1, <1>3, OwnRange
<1> QED
  BY <1>2, <1>3, <1>4 DEF AreModels

LEMMA WriteRuns ==
    ASSUME RunInv, ImportInv', NEW u \in Uploads, Write(u)
    PROVE  /\ RunInv'
           /\ shop' # shop => AsWritten(Head(upload[u].models),
                    importModel(shop, Head(upload[u].models), upload[u].found).at,
                    IF upload[u].found = NoId THEN shop.productIds + 1 ELSE upload[u].found)
<1> DEFINE m == Head(upload[u].models)
           rest == Tail(upload[u].models)
           found == upload[u].found
           out == importModel(shop, m, found)
           x == [upload[u] EXCEPT !.pc = "find", !.models = rest, !.found = NoId]
<1>1. /\ upload[u].pc = "write" /\ shop' = (IF out.ok THEN out.tables ELSE shop)
      /\ release(u) \/ (rest # <<>> /\ Set(u, x))
  BY DEF Write, commitModel
<1>2. /\ IsModel(m) /\ AreModels(rest) /\ found \in DOMAIN shop.products \cup {NoId, Failed}
      /\ TablesSound(shop)
  BY <1>1, NextModels DEF RunInv, Ready
<1> HIDE DEF m, rest, out
<1>3. TablesSound(shop') /\ DOMAIN shop.products \subseteq DOMAIN shop'.products
  <2>1. CASE out.ok
    <3>1. /\ found \in DOMAIN shop.products \cup {NoId}
          /\ RowsIn(out, ModelStart(shop, m, found), m.rows, ModelOwner(shop, found), Len(m.rows))
      BY <1>2, <2>1, ModelImported DEF out
    <3>2. DOMAIN shop.products \subseteq DOMAIN ModelStart(shop, m, found).products
      BY <1>2, <3>1, ProductWritten
    <3> QED
      BY <1>1, <2>1, <3>1, <3>2 DEF RowsIn
  <2>2. CASE ~out.ok
    BY <1>1, <1>2, <2>2
  <2> QED
    BY <2>1, <2>2
<1>4. RunInv'
  <2>1. CASE release(u)
    BY <1>3, <2>1, RunEnds
  <2>2. CASE rest # <<>> /\ Set(u, x)
    <3>1. x.pc = "find" /\ x.models = rest
      BY DEF RunInv, ImportInv, ImportShape, IsUpload, UploadFields
    <3> HIDE DEF x
    <3>2. Ready(x, shop')
      BY <1>2, <2>2, <3>1 DEF Ready
    <3> QED
      BY <1>3, <2>2, <3>2, RunFollows
  <2> QED
    BY <1>1, <2>1, <2>2
<1>5. ASSUME shop' # shop
      PROVE  AsWritten(m, out.at, IF found = NoId THEN shop.productIds + 1 ELSE found)
  <2>1. out.ok /\ shop' = out.tables
    BY <1>1, <1>5
  <2> QED
    BY <1>2, <2>1, CommittedAsWritten DEF out
<1> QED
  BY <1>4, <1>5 DEF m, out

LEMMA RunSteps ==
    ASSUME RunInv, ImportInv', NEW u \in Uploads,
           \/ beginImport(u) \/ beginJSONImport(u) \/ Acquire(u) \/ Busy(u)
           \/ readImportUpload(u) \/ productImportCheck(u)
           \/ productImportApply(u) \/ importProductsHandler(u) \/ Find(u) \/ ImportCancelled(u)
    PROVE  RunInv' /\ shop' = shop
<1>0. UNCHANGED shop
  BY DEF beginImport, beginJSONImport, Begin, Acquire, Busy, readImportUpload, productImportCheck,
         productImportApply, importProductsHandler, ImportProducts, Find, ImportCancelled
<1>1. TablesSound(shop') /\ DOMAIN shop.products \subseteq DOMAIN shop'.products
  BY <1>0 DEF RunInv
<1>2. IsUpload(upload[u]) /\ Ready(upload[u], shop)
  BY DEF RunInv, ImportInv, ImportShape
<1>3. ASSUME release(u) PROVE RunInv'
  BY <1>1, <1>3, RunEnds
<1>4. ASSUME NEW x, Set(u, x), x.pc \in {"idle", "queue", "read"} PROVE RunInv'
  BY <1>1, <1>4, RunFollows DEF Ready
<1>5. CASE beginImport(u) \/ beginJSONImport(u)
  <2>1. PICK kinds : Begin(u, kinds)
    BY <1>5 DEF beginImport, beginJSONImport
  <2>2. PICK s \in ImportStaff, kind \in kinds :
        Set(u, [NoUpload EXCEPT !.pc = IF importTokens[s] > 0 THEN "queue" ELSE "idle",
                                !.count = upload[u].count + 1, !.kind = kind, !.staff = s])
    BY <2>1 DEF Begin
  <2> DEFINE x == [NoUpload EXCEPT !.pc = IF importTokens[s] > 0 THEN "queue" ELSE "idle",
                                !.count = upload[u].count + 1, !.kind = kind, !.staff = s]
  <2>3. x.pc \in {"queue", "idle"} /\ Set(u, x)
    BY <2>2 DEF NoUpload
  <2> HIDE DEF x
  <2> QED
    BY <1>0, <1>4, <2>3
<1>6. CASE Acquire(u)
  <2> DEFINE x == [upload[u] EXCEPT !.pc = "read"]
  <2>1. x.pc = "read" /\ Set(u, x)
    BY <1>2, <1>6 DEF Acquire, IsUpload, UploadFields
  <2> HIDE DEF x
  <2> QED
    BY <1>0, <1>4, <2>1
<1>7. CASE Busy(u)
  <2> DEFINE x == [NoUpload EXCEPT !.count = upload[u].count]
  <2>1. x.pc = "idle" /\ Set(u, x)
    BY <1>7 DEF Busy, NoUpload
  <2> HIDE DEF x
  <2> QED
    BY <1>0, <1>4, <2>1
<1>8. CASE readImportUpload(u)
  <2>1. PICK f \in DOMAIN ImportFiles, point \in ToSet(ImportPoints) \cup {""} :
        \/ Set(u, [upload[u] EXCEPT !.pc = "planned", !.file = f, !.point = point, !.began = importNow,
                        !.models = plan(ImportFiles[f], resolveTargetPoint(point), activePoints)])
        \/ release(u)
    BY <1>8 DEF readImportUpload
  <2> DEFINE ms == plan(ImportFiles[f], resolveTargetPoint(point), activePoints)
             x == [upload[u] EXCEPT !.pc = "planned", !.file = f, !.point = point, !.began = importNow, !.models = ms]
  <2>2. AreModels(ms)
    BY PlannedModels
  <2> HIDE DEF ms
  <2>3. x.pc = "planned" /\ x.models = ms
    BY <1>2 DEF IsUpload, UploadFields
  <2>4. Set(u, x) \/ release(u)
    BY <2>1 DEF ms
  <2> HIDE DEF x
  <2>5. Ready(x, shop')
    BY <2>2, <2>3 DEF Ready
  <2> QED
    BY <1>0, <1>1, <1>3, <2>4, <2>5, RunFollows
<1>9. CASE productImportCheck(u)
  BY <1>0, <1>3, <1>9 DEF productImportCheck
<1>10. CASE productImportApply(u) \/ importProductsHandler(u)
  <2>1. CASE release(u)
    BY <1>0, <1>3, <2>1
  <2>2. CASE ~release(u)
    <3> DEFINE ms == upload[u].models
               S == {n \in DOMAIN ms : ~failed(ms[n])}
               good == [n \in DOMAIN inOrder(S) |-> ms[inOrder(S)[n]]]
               x == [upload[u] EXCEPT !.pc = "find", !.models = good]
    <3>1. upload[u].pc = "planned" /\ good # <<>> /\ Set(u, x)
      BY <1>10, <2>2 DEF productImportApply, importProductsHandler, ImportProducts
    <3>2. AreModels(ms) /\ S \subseteq DOMAIN ms
      BY <1>2, <3>1 DEF Ready
    <3> HIDE DEF S
    <3>3. AreModels(good)
      BY <3>2, GoodModels
    <3> HIDE DEF good
    <3>4. x.pc = "find" /\ x.models = good
      BY <1>2 DEF IsUpload, UploadFields
    <3> HIDE DEF x
    <3>5. Ready(x, shop')
      BY <3>1, <3>3, <3>4 DEF Ready
    <3> QED
      BY <1>0, <1>1, <3>1, <3>5, RunFollows
  <2> QED
    BY <2>1, <2>2
<1>11. CASE Find(u)
  <2> DEFINE found == findProduct(shop, Head(upload[u].models))
             x == [upload[u] EXCEPT !.pc = "write", !.found = found]
  <2>1. Set(u, x) /\ upload[u].pc = "find"
    BY <1>11 DEF Find
  <2>2. found \in DOMAIN shop.products \cup {NoId, Failed}
    BY FoundStored DEF RunInv
  <2> HIDE DEF found
  <2>3. x.pc = "write" /\ x.models = upload[u].models /\ x.found = found
    BY <1>2 DEF IsUpload, UploadFields
  <2> HIDE DEF x
  <2>4. Ready(x, shop')
    BY <1>0, <1>2, <2>1, <2>2, <2>3 DEF Ready
  <2> QED
    BY <1>0, <1>1, <2>1, <2>4, RunFollows
<1>12. CASE ImportCancelled(u)
  BY <1>0, <1>3, <1>12 DEF ImportCancelled
<1> QED
  BY <1>0, <1>5, <1>6, <1>7, <1>8, <1>9, <1>10, <1>11, <1>12

LEMMA RunAround ==
    ASSUME RunInv, ImportInv',
           ImportTick \/ ImportRestart \/ (\E p \in activePoints : PointSwitched(p))
             \/ UNCHANGED <<shop, importVars>>
    PROVE  RunInv' /\ shop' = shop
<1>1. UNCHANGED shop
  BY DEF ImportTick, ImportRestart, PointSwitched
<1>2. CASE ImportRestart
  <2>1. \A u \in Uploads : upload'[u].pc = "idle"
    BY <1>2 DEF ImportRestart, NoUpload
  <2> QED
    BY <1>1, <2>1 DEF RunInv, Ready
<1>3. CASE ~ImportRestart
  <2>1. UNCHANGED upload
    BY <1>3 DEF ImportTick, PointSwitched, importVars
  <2> QED
    BY <1>1, <2>1 DEF RunInv
<1> QED
  BY <1>1, <1>2, <1>3

WrittenBy(u) ==
    AsWritten(Head(upload[u].models),
              importModel(shop, Head(upload[u].models), upload[u].found).at,
              IF upload[u].found = NoId THEN shop.productIds + 1 ELSE upload[u].found)

LEMMA RunInductive ==
    ASSUME RunInv, [ImportNext]_<<shop, importVars>>
    PROVE  /\ RunInv'
           /\ \A u \in Uploads : upload[u].pc = "write" /\ shop' # shop /\ upload'[u] # upload[u] => WrittenBy(u)
<1>0. ImportInv'
  BY ImportInductive DEF RunInv
<1>1. CASE \E u \in Uploads : Write(u)
  <2>1. PICK u \in Uploads : Write(u)
    BY <1>1
  <2>2. RunInv' /\ (shop' # shop => WrittenBy(u))
    BY <1>0, <2>1, WriteRuns DEF WrittenBy
  <2>3. \A w \in Uploads \ {u} : upload'[w] = upload[w]
    BY <2>1 DEF Write, commitModel, release, Set, RunInv, ImportInv, ImportShape
  <2> QED
    BY <2>2, <2>3
<1>2. CASE ~\E u \in Uploads : Write(u)
  <2>1. \/ \E u \in Uploads :
              \/ beginImport(u) \/ beginJSONImport(u) \/ Acquire(u) \/ Busy(u)
              \/ readImportUpload(u) \/ productImportCheck(u)
              \/ productImportApply(u) \/ importProductsHandler(u) \/ Find(u) \/ ImportCancelled(u)
        \/ ImportTick \/ ImportRestart \/ (\E p \in activePoints : PointSwitched(p))
        \/ UNCHANGED <<shop, importVars>>
    BY <1>2 DEF ImportNext
  <2> QED
    BY <1>0, <2>1, RunSteps, RunAround
<1> QED
  BY <1>1, <1>2

LEMMA RunInitially == ImportInit /\ TablesSound(shop) => RunInv
<1> SUFFICES ASSUME ImportInit, TablesSound(shop) PROVE RunInv
  OBVIOUS
<1>1. \A u \in Uploads : upload[u].pc = "idle"
  BY DEF ImportInit, NoUpload
<1> QED
  BY <1>1, ImportInitially DEF RunInv, Ready

(* RowsAsWritten, for any number of requests, files and rows: a model that *)
(* is committed stands in the tables as its file has it, whatever other    *)
(* imports have committed since its product was looked up (importModel).   *)
THEOREM ImportsWriteTheirRows == ImportSpec => RowsAsWritten
<1>1. ImportInit /\ TablesSound(shop) => RunInv
  BY RunInitially
<1>2. RunInv /\ [ImportNext]_<<shop, importVars>> => RunInv'
  BY RunInductive
<1>3. RunInv /\ [ImportNext]_<<shop, importVars>> =>
        [\A u \in Uploads : upload[u].pc = "write" /\ shop' # shop /\ upload'[u] # upload[u] =>
          AsWritten(Head(upload[u].models),
                    importModel(shop, Head(upload[u].models), upload[u].found).at,
                    IF upload[u].found = NoId THEN shop.productIds + 1 ELSE upload[u].found)
        ]_<<shop, upload>>
  BY RunInductive DEF WrittenBy
<1> QED
  BY <1>1, <1>2, <1>3, PTL DEF ImportSpec, RowsAsWritten

-----------------------------------------------------------------------------
(* ShopDirectory.                                                          *)

\* The pictures of a list of rows, the banner and the products.
shown(d) ==
    ({d.categories[c].image : c \in DOMAIN d.categories} \cup {d.banner.image, d.banner.bg}) \ {NoKey}
photos(t) ==
    UNION {{imagesOf(t, p)[i][1] : i \in DOMAIN imagesOf(t, p)} : p \in DOMAIN t.products}

\* What a save uploaded, under which names, and the banner's pictures that
\* it is going to write back.
BannerSteps == {"picture", "background", "banner"}
uploaded(r) == {r.key, r.bg} \ {NoKey}
kept(r) == IF r.pc \in BannerSteps THEN {r.row.image, r.row.bg} \ {NoKey} ELSE {}
stored(r) ==
    IF r.pc = "thumb" THEN {full(k) : k \in uploaded(r)}
    ELSE IF r.pc = "attach" THEN {full(k) : k \in uploaded(r)} \cup {ThumbKey(k) : k \in uploaded(r)}
    ELSE {picture(k) : k \in uploaded(r)}

SaveFields == {"pc", "kind", "id", "parent", "slug", "key", "bg", "remove", "row", "count"}
BannerFields == {"image", "bg", "category"}
IsSave(r) ==
    /\ r = [f \in SaveFields |-> r[f]]
    /\ r.pc \in {"thumb", "attach"} => r.key # NoKey /\ r.bg = NoKey
    /\ r.pc \in BannerSteps => r.row = [f \in BannerFields |-> r.row[f]]

IsDirectory(d) ==
    /\ d = [f \in {"categories", "points", "banner"} |-> d[f]]
    /\ d.banner = [f \in BannerFields |-> d.banner[f]]
    /\ d.categories = [c \in DOMAIN d.categories |-> d.categories[c]]
    /\ \A c \in DOMAIN d.categories :
          d.categories[c] = [f \in {"parent", "slug", "image"} |-> d.categories[c][f]]
    /\ d.banner.category \in DOMAIN d.categories \cup {""}

IsShop(t) ==
    /\ t = [f \in TableFields |-> t[f]]
    /\ \A p \in DOMAIN t.products : imagesOf(t, p) \in Seq(Range(imagesOf(t, p)))

DirectoryShape ==
    /\ keys \in 0..MaxKeys
    /\ saves = [s \in Savers |-> saves[s]]
    /\ \A s \in Savers : IsSave(saves[s])
    /\ IsDirectory(directory)
    /\ IsShop(shop)

\* Every key in use was uploaded before or is one of the keys handed out.
KeysKnown ==
    /\ \A s \in Savers : uploaded(saves[s]) \cup kept(saves[s]) \subseteq 1..keys
    /\ shown(directory) \subseteq 1..keys
    /\ photos(shop) \subseteq StoredPhotos \cup 1..keys

\* What a save uploaded is its own until its row is written.
OwnUploads ==
    \A s \in Savers :
        /\ \A t \in Savers \ {s} : uploaded(saves[s]) \cap uploaded(saves[t]) = {}
        /\ \A t \in Savers : uploaded(saves[s]) \cap kept(saves[t]) = {}
        /\ uploaded(saves[s]) \cap shown(directory) = {}
        /\ uploaded(saves[s]) \cap photos(shop) = {}

AllStored ==
    /\ \A k \in shown(directory) : picture(k) \in bucket
    /\ \A k \in photos(shop) : full(k) \in bucket /\ ThumbKey(k) \in bucket
    /\ \A s \in Savers : /\ \A k \in kept(saves[s]) : picture(k) \in bucket
                         /\ stored(saves[s]) \subseteq bucket

DirectoryInv == DirectoryShape /\ KeysKnown /\ OwnUploads /\ AllStored

\* A save's objects carry the names it uploaded them under.
LEMMA StoredNames ==
    ASSUME NEW r, NEW x \in stored(r) PROVE x[1] \in uploaded(r)
BY DEF stored, full, ThumbKey, picture

\* One step of a save, told by what it does to the names in use: new names
\* are fresh, only pictures that are shown, kept or this save's own become
\* shown, and only this save's own are removed, once nothing shows them.
LEMMA NamesFollow ==
    ASSUME DirectoryInv, NEW s \in Savers, NEW r,
           saves' = [saves EXCEPT ![s] = r],
           keys' \in 0..MaxKeys, keys <= keys',
           uploaded(r) \subseteq uploaded(saves[s]) \cup (keys + 1)..keys',
           kept(r) \subseteq kept(saves[s]) \cup shown(directory),
           shown(directory') \subseteq
               shown(directory) \cup kept(saves[s]) \cup (uploaded(saves[s]) \ uploaded(r)),
           photos(shop') \subseteq photos(shop) \cup (uploaded(saves[s]) \ uploaded(r)),
           stored(r) \subseteq bucket',
           \A k \in shown(directory') \cap uploaded(saves[s]) : picture(k) \in bucket,
           \A k \in photos(shop') \cap uploaded(saves[s]) : full(k) \in bucket /\ ThumbKey(k) \in bucket,
           \A x \in bucket \ bucket' :
               \/ x = picture(NoKey)
               \/ x[1] \in uploaded(saves[s]) \ (uploaded(r) \cup shown(directory') \cup photos(shop'))
    PROVE  KeysKnown' /\ OwnUploads' /\ AllStored'
<1> DEFINE U(t) == uploaded(saves[t])
           K(t) == kept(saves[t])
<1>1. saves'[s] = r /\ \A t \in Savers \ {s} : saves'[t] = saves[t]
  BY DEF DirectoryInv, DirectoryShape
<1>2. /\ keys \in Nat /\ 1..keys \subseteq 1..keys' /\ (keys + 1)..keys' \subseteq 1..keys'
      /\ \A k \in (keys + 1)..keys' : k \notin 1..keys
      /\ NoKey \notin 1..keys /\ NoKey \notin 1..keys'
  BY DirectoryAssumption DEF DirectoryInv, DirectoryShape, NoKey
<1>3. /\ \A t \in Savers : U(t) \subseteq 1..keys /\ K(t) \subseteq 1..keys
      /\ shown(directory) \subseteq 1..keys
      /\ photos(shop) \subseteq StoredPhotos \cup 1..keys
  BY DEF DirectoryInv, KeysKnown
<1>4. KeysKnown'
  <2>1. uploaded(r) \subseteq 1..keys' /\ kept(r) \subseteq 1..keys'
    BY <1>2, <1>3
  <2>2. \A t \in Savers : uploaded(saves'[t]) \cup kept(saves'[t]) \subseteq 1..keys'
    BY <1>1, <1>2, <1>3, <2>1
  <2>3. shown(directory') \subseteq 1..keys' /\ photos(shop') \subseteq StoredPhotos \cup 1..keys'
    BY <1>2, <1>3
  <2> QED
    BY <2>2, <2>3 DEF KeysKnown
<1>5. \A k \in uploaded(r) \ U(s) : k \notin 1..keys /\ k \notin StoredPhotos
  <2>1. \A k \in (keys + 1)..keys' : k \in 1..MaxKeys
    BY <1>2, DirectoryAssumption
  <2> QED
    BY <1>2, <2>1, DirectoryAssumption
<1>6. /\ \A t \in Savers, w \in Savers : t # w => U(t) \cap U(w) = {}
      /\ \A t \in Savers, w \in Savers : U(t) \cap K(w) = {}
      /\ \A t \in Savers : U(t) \cap shown(directory) = {} /\ U(t) \cap photos(shop) = {}
  BY DEF DirectoryInv, OwnUploads
<1>7. OwnUploads'
  <2>1. uploaded(r) \cap shown(directory') = {}
    BY <1>3, <1>5, <1>6
  <2>2. uploaded(r) \cap photos(shop') = {}
    BY <1>3, <1>5, <1>6
  <2>3. \A t \in Savers \ {s} : U(t) \cap shown(directory') = {} /\ U(t) \cap photos(shop') = {}
    BY <1>6
  <2>4. \A t \in Savers \ {s} :
            U(t) \cap uploaded(r) = {} /\ U(t) \cap kept(r) = {} /\ uploaded(r) \cap K(t) = {}
    BY <1>3, <1>5, <1>6
  <2>5. uploaded(r) \cap kept(r) = {}
    BY <1>3, <1>5, <1>6
  <2> HIDE DEF U, K
  <2>6. /\ U(s)' = uploaded(r) /\ K(s)' = kept(r)
        /\ \A t \in Savers \ {s} : U(t)' = U(t) /\ K(t)' = K(t)
    BY <1>1 DEF U, K
  <2>7. \A t \in Savers :
            /\ \A w \in Savers \ {t} : U(t)' \cap U(w)' = {}
            /\ \A w \in Savers : U(t)' \cap K(w)' = {}
            /\ U(t)' \cap shown(directory') = {}
            /\ U(t)' \cap photos(shop') = {}
    BY <1>6, <2>1, <2>2, <2>3, <2>4, <2>5, <2>6
  <2> QED
    BY <2>7 DEF OwnUploads, U, K
<1>8. \A k : picture(k) \in bucket /\ picture(k) \notin bucket' =>
            k = NoKey \/ k \in U(s) \ (uploaded(r) \cup shown(directory') \cup photos(shop'))
  <2>1. \A k : picture(k)[1] = k
    BY DEF picture
  <2>2. \A k : picture(k) = picture(NoKey) => k = NoKey
    BY <2>1
  <2> QED
    BY <2>1, <2>2
<1>9. \A k : /\ full(k) \in bucket /\ full(k) \notin bucket' => k \in U(s) \ photos(shop')
             /\ ThumbKey(k) \in bucket /\ ThumbKey(k) \notin bucket' => k \in U(s) \ photos(shop')
  <2>1. \A k : full(k)[1] = k /\ ThumbKey(k)[1] = k /\ full(k) # picture(NoKey) /\ ThumbKey(k) # picture(NoKey)
    BY DEF full, ThumbKey, picture
  <2> QED
    BY <2>1
<1>10. \A k \in shown(directory') : picture(k) \in bucket'
  <2> SUFFICES ASSUME NEW k \in shown(directory') PROVE picture(k) \in bucket'
    OBVIOUS
  <2>1. k # NoKey
    BY DEF shown
  <2>2. picture(k) \in bucket
    BY DEF DirectoryInv, AllStored
  <2> QED
    BY <1>8, <2>1, <2>2
<1>11. \A t \in Savers : \A k \in K(t)' : picture(k) \in bucket'
  <2> SUFFICES ASSUME NEW t \in Savers, NEW k \in K(t)' PROVE picture(k) \in bucket'
    OBVIOUS
  <2>1. k \in K(t) \/ (t = s /\ (k \in K(s) \/ k \in shown(directory)))
    BY <1>1
  <2>2. picture(k) \in bucket /\ k \notin U(s) /\ k # NoKey
    BY <1>2, <1>3, <1>6, <2>1 DEF DirectoryInv, AllStored
  <2> QED
    BY <1>8, <2>2
<1>12. \A k \in photos(shop') : full(k) \in bucket' /\ ThumbKey(k) \in bucket'
  <2> SUFFICES ASSUME NEW k \in photos(shop') PROVE full(k) \in bucket' /\ ThumbKey(k) \in bucket'
    OBVIOUS
  <2>1. full(k) \in bucket /\ ThumbKey(k) \in bucket
    BY DEF DirectoryInv, AllStored
  <2> QED
    BY <1>9, <2>1
<1>13. \A t \in Savers \ {s} : stored(saves[t]) \subseteq bucket'
  <2> SUFFICES ASSUME NEW t \in Savers \ {s}, NEW x \in stored(saves[t]) PROVE x \in bucket'
    OBVIOUS
  <2>1. x[1] \in U(t) /\ x[1] \notin U(s) /\ x[1] # NoKey
    BY <1>2, <1>3, <1>6, StoredNames
  <2>2. x \in bucket
    BY DEF DirectoryInv, AllStored
  <2>3. x # picture(NoKey)
    BY <2>1 DEF picture
  <2> QED
    BY <2>1, <2>2, <2>3
<1>14. AllStored'
  BY <1>1, <1>10, <1>11, <1>12, <1>13 DEF AllStored
<1> QED
  BY <1>4, <1>7, <1>14

\* A step that leaves the rows alone removes at most its own uploads.
LEMMA RowsStay ==
    ASSUME DirectoryInv, NEW s \in Savers, NEW r, IsSave(r),
           saves' = [saves EXCEPT ![s] = r],
           keys' \in 0..MaxKeys, keys <= keys',
           uploaded(r) \subseteq uploaded(saves[s]) \cup (keys + 1)..keys',
           kept(r) \subseteq kept(saves[s]) \cup shown(directory),
           stored(r) \subseteq bucket',
           UNCHANGED <<shop, directory>>,
           \A x \in bucket \ bucket' : x = picture(NoKey) \/ x[1] \in uploaded(saves[s]) \ uploaded(r)
    PROVE  DirectoryInv'
<1>1. uploaded(saves[s]) \cap shown(directory') = {} /\ uploaded(saves[s]) \cap photos(shop') = {}
  BY DEF DirectoryInv, OwnUploads
<1>2. KeysKnown' /\ OwnUploads' /\ AllStored'
  BY <1>1, NamesFollow
<1>3. DirectoryShape'
  BY DEF DirectoryInv, DirectoryShape
<1> QED
  BY <1>2, <1>3 DEF DirectoryInv

\* A step that ends the request and writes rows, with what it uploaded.
LEMMA RowsWritten ==
    ASSUME DirectoryInv, NEW s \in Savers, NEW r, IsSave(r),
           saves' = [saves EXCEPT ![s] = r],
           UNCHANGED <<keys, bucket>>,
           uploaded(r) \subseteq uploaded(saves[s]), kept(r) = {}, stored(r) \subseteq bucket,
           IsDirectory(directory'), IsShop(shop'),
           shown(directory') \subseteq
               shown(directory) \cup kept(saves[s]) \cup (uploaded(saves[s]) \ uploaded(r)),
           photos(shop') \subseteq photos(shop) \cup (uploaded(saves[s]) \ uploaded(r)),
           \A k \in shown(directory') \cap uploaded(saves[s]) : picture(k) \in bucket,
           \A k \in photos(shop') \cap uploaded(saves[s]) : full(k) \in bucket /\ ThumbKey(k) \in bucket
    PROVE  DirectoryInv'
<1>1. keys' \in 0..MaxKeys /\ keys <= keys'
  BY DEF DirectoryInv, DirectoryShape
<1>2. KeysKnown' /\ OwnUploads' /\ AllStored'
  BY <1>1, NamesFollow
<1>3. DirectoryShape'
  BY DEF DirectoryInv, DirectoryShape
<1> QED
  BY <1>2, <1>3 DEF DirectoryInv

LEMMA KeysStay ==
    ASSUME DirectoryInv, UNCHANGED keys PROVE keys' \in 0..MaxKeys /\ keys <= keys'
BY DirectoryAssumption DEF DirectoryInv, DirectoryShape

LEMMA NothingOwned ==
    ASSUME NEW n, NEW r, r = [NoSave EXCEPT !.count = n]
    PROVE  IsSave(r) /\ uploaded(r) = {} /\ kept(r) = {} /\ stored(r) = {}
BY DEF NoSave, IsSave, SaveFields, BannerSteps, uploaded, kept, stored

\* A request that ends writes nothing and takes back at most its uploads.
LEMMA GivenUp ==
    ASSUME DirectoryInv, NEW s \in Savers, Done(s), UNCHANGED <<shop, directory, keys>>,
           \A x \in bucket \ bucket' : x = picture(NoKey) \/ x[1] \in uploaded(saves[s])
    PROVE  DirectoryInv'
<1> DEFINE r == [NoSave EXCEPT !.count = saves[s].count]
<1>1. IsSave(r) /\ uploaded(r) = {} /\ kept(r) = {} /\ stored(r) = {}
  BY NothingOwned
<1>2. saves' = [saves EXCEPT ![s] = r]
  BY DEF Done, Step
<1>3. keys' \in 0..MaxKeys /\ keys <= keys'
  BY DEF DirectoryInv, DirectoryShape
<1> HIDE DEF r
<1> QED
  BY <1>1, <1>2, <1>3, RowsStay

LEMMA RemovesOnly ==
    ASSUME NEW objects, RemoveObject(objects), NEW x \in bucket \ bucket' PROVE x \in objects
BY DEF RemoveObject

LEMMA UploadStep ==
    ASSUME DirectoryInv, NEW s \in Savers, uploadHandler(s) PROVE DirectoryInv'
<1> DEFINE r == [[NoSave EXCEPT !.pc = "thumb", !.kind = "photo", !.key = keys + 1]
                     EXCEPT !.count = saves[s].count + 1]
<1>1. saves' = [saves EXCEPT ![s] = r]
  BY DEF uploadHandler, Started, Step
<1>2. keys' = keys + 1 /\ keys' \in 0..MaxKeys /\ keys + 1 # NoKey /\ keys \in Nat
  BY DirectoryAssumption DEF uploadHandler, DirectoryInv, DirectoryShape, NoKey
<1>3. r.pc = "thumb" /\ r.key = keys + 1 /\ r.bg = NoKey /\ IsSave(r)
  BY <1>2 DEF NoSave, IsSave, SaveFields, BannerSteps
<1>4. bucket' = bucket \cup {full(keys + 1)} /\ UNCHANGED <<shop, directory>>
  BY DEF uploadHandler, PutObject
<1> HIDE DEF r
<1>5. uploaded(r) = {keys + 1} /\ kept(r) = {} /\ stored(r) = {full(keys + 1)}
  BY <1>2, <1>3 DEF uploaded, kept, stored, BannerSteps
<1>6. keys <= keys' /\ keys + 1 \in (keys + 1)..keys'
  BY <1>2
<1> QED
  BY <1>1, <1>2, <1>3, <1>4, <1>5, <1>6, RowsStay

LEMMA VariantsStep ==
    ASSUME DirectoryInv, NEW s \in Savers, storeVariants(s) PROVE DirectoryInv'
<1>1. saves[s].pc = "thumb" /\ IsSave(saves[s]) /\ UNCHANGED <<shop, directory, keys>>
  BY DEF storeVariants, DirectoryInv, DirectoryShape
<1>2. CASE PutObject({ThumbKey(saves[s].key)}) /\ Step(s, [saves[s] EXCEPT !.pc = "attach"])
  <2> DEFINE r == [saves[s] EXCEPT !.pc = "attach"]
  <2>1. saves' = [saves EXCEPT ![s] = r] /\ bucket' = bucket \cup {ThumbKey(saves[s].key)}
    BY <1>2 DEF PutObject, Step
  <2>2. r.pc = "attach" /\ r.key = saves[s].key /\ r.bg = saves[s].bg /\ IsSave(r)
    BY <1>1 DEF IsSave, SaveFields, BannerSteps
  <2> HIDE DEF r
  <2>3. uploaded(r) = uploaded(saves[s]) /\ kept(r) = {}
    BY <2>2 DEF uploaded, kept, BannerSteps
  <2>4. stored(r) = stored(saves[s]) \cup {ThumbKey(k) : k \in uploaded(r)}
    BY <1>1, <2>2, <2>3 DEF stored
  <2>5. {ThumbKey(k) : k \in uploaded(r)} \subseteq {ThumbKey(saves[s].key)}
    BY <1>1, <2>2, <2>3 DEF uploaded, IsSave
  <2>6. stored(r) \subseteq bucket'
    BY <2>1, <2>4, <2>5 DEF DirectoryInv, AllStored
  <2>7. keys' \in 0..MaxKeys /\ keys <= keys'
    BY <1>1 DEF DirectoryInv, DirectoryShape
  <2> QED
    BY <1>1, <2>1, <2>2, <2>3, <2>6, <2>7, RowsStay
<1>3. CASE RemoveObject({full(saves[s].key)}) /\ Done(s)
  <2>1. saves[s].key \in uploaded(saves[s])
    BY <1>1 DEF IsSave, uploaded
  <2>2. \A x \in bucket \ bucket' : x = full(saves[s].key)
    BY <1>3, RemovesOnly
  <2>3. \A x \in bucket \ bucket' : x[1] \in uploaded(saves[s])
    BY <2>1, <2>2 DEF full
  <2> QED
    BY <1>1, <1>3, <2>3, GivenUp
<1> QED
  BY <1>2, <1>3 DEF storeVariants

\* A list of photos is over what it holds, also with one more.
LEMMA PhotoAdded ==
    ASSUME NEW list, list \in Seq(Range(list)), NEW photo
    PROVE  /\ Append(list, photo) \in Seq(Range(Append(list, photo)))
           /\ \A i \in DOMAIN Append(list, photo) :
                 Append(list, photo)[i] = photo \/ (i \in DOMAIN list /\ Append(list, photo)[i] = list[i])
<1> DEFINE more == Append(list, photo)
           n == Len(list)
<1>1. n \in Nat /\ DOMAIN list = 1..n
  BY LenProperties
<1>2. list \in Seq(Range(list) \cup {photo}) /\ photo \in Range(list) \cup {photo}
  <2>1. Range(list) \subseteq Range(list) \cup {photo}
    OBVIOUS
  <2> QED BY <2>1, SeqMonotonic
<1>3. /\ Len(more) = n + 1
      /\ \A i \in 1..n : more[i] = list[i]
      /\ more[n + 1] = photo
  BY <1>2, AppendProperties
<1>4. more \in Seq(Range(list) \cup {photo})
  BY <1>2, AppendProperties
<1>5. DOMAIN more = 1..(n + 1)
  BY <1>3, <1>4, LenProperties
<1>6. \A i \in DOMAIN more : more[i] = photo \/ (i \in DOMAIN list /\ more[i] = list[i])
  BY <1>1, <1>3, <1>5
<1>7. Len(more) \in Nat /\ more \in [1..Len(more) -> Range(more)]
  BY <1>1, <1>3, <1>4, <1>5, LenProperties DEF Range
<1>8. more \in Seq(Range(more))
  <2> HIDE DEF more
  <2> QED BY <1>7, SeqDef
<1> QED
  BY <1>6, <1>8

LEMMA AttachStep ==
    ASSUME DirectoryInv, NEW s \in Savers, attachPhoto(s) PROVE DirectoryInv'
<1> DEFINE r == [NoSave EXCEPT !.count = saves[s].count]
           k == saves[s].key
           photo == <<k, NoText>>
<1>1. saves[s].pc = "attach" /\ IsSave(saves[s]) /\ UNCHANGED <<directory, bucket, keys>>
  BY DEF attachPhoto, DirectoryInv, DirectoryShape
<1>2. saves' = [saves EXCEPT ![s] = r]
  BY DEF attachPhoto, Done, Step
<1>3. IsSave(r) /\ uploaded(r) = {} /\ kept(r) = {} /\ stored(r) = {}
  BY NothingOwned
<1>4. uploaded(saves[s]) = {k} /\ stored(saves[s]) = {full(k), ThumbKey(k)}
  BY <1>1 DEF IsSave, uploaded, stored
<1>5. full(k) \in bucket /\ ThumbKey(k) \in bucket
  BY <1>4 DEF DirectoryInv, AllStored
<1>6. PICK p \in DOMAIN shop.products :
          shop' = [shop EXCEPT !.images = Put(shop.images, p, Append(imagesOf(shop, p), photo))]
  BY DEF attachPhoto
<1>7. IsShop(shop)
  BY DEF DirectoryInv, DirectoryShape
<1> HIDE DEF r
<1>8. /\ shop' = [f \in TableFields |-> shop'[f]] /\ shop'.products = shop.products
      /\ shop'.images = Put(shop.images, p, Append(imagesOf(shop, p), photo))
  BY <1>6, <1>7 DEF IsShop, TableFields
<1>9. /\ imagesOf(shop', p) = Append(imagesOf(shop, p), photo)
      /\ \A q \in DOMAIN shop.products \ {p} : imagesOf(shop', q) = imagesOf(shop, q)
  BY <1>8 DEF imagesOf, Put
<1>10. IsShop(shop')
  <2>1. imagesOf(shop, p) \in Seq(Range(imagesOf(shop, p)))
    BY <1>7 DEF IsShop
  <2>2. imagesOf(shop', p) \in Seq(Range(imagesOf(shop', p)))
    BY <1>9, <2>1, PhotoAdded
  <2>3. \A q \in DOMAIN shop.products : imagesOf(shop', q) \in Seq(Range(imagesOf(shop', q)))
    BY <1>7, <1>9, <2>2 DEF IsShop
  <2> QED
    BY <1>8, <2>3 DEF IsShop
<1>11. photos(shop') \subseteq photos(shop) \cup {k}
  <2> SUFFICES ASSUME NEW q \in DOMAIN shop.products, NEW i \in DOMAIN imagesOf(shop', q)
               PROVE  imagesOf(shop', q)[i][1] \in photos(shop) \cup {k}
    BY <1>8 DEF photos
  <2>1. CASE q = p
    <3>1. imagesOf(shop', p)[i] = photo
          \/ (i \in DOMAIN imagesOf(shop, p) /\ imagesOf(shop', p)[i] = imagesOf(shop, p)[i])
      BY <1>7, <1>9, <2>1, PhotoAdded DEF IsShop
    <3> QED
      BY <2>1, <3>1 DEF photos
  <2>2. CASE q # p
    BY <1>9, <2>2 DEF photos
  <2> QED
    BY <2>1, <2>2
<1>12. k \notin shown(directory')
  BY <1>1, <1>4 DEF DirectoryInv, OwnUploads
<1>13. IsDirectory(directory')
  BY <1>1 DEF DirectoryInv, DirectoryShape
<1> QED
  BY <1>1, <1>2, <1>3, <1>4, <1>5, <1>10, <1>11, <1>12, <1>13, RowsWritten

-----------------------------------------------------------------------------
(* The category and the banner.                                            *)

\* A picture that a form has not stored yet.
LEMMA FittedImage ==
    ASSUME DirectoryInv, NEW s \in Savers, NEW r, IsSave(r), r.pc \notin {"thumb", "attach"},
           storeFittedImage(s, r), UNCHANGED <<shop, directory>>,
           uploaded(r) \subseteq uploaded(saves[s]), kept(r) \subseteq kept(saves[s]),
           \A k \in uploaded(r) : picture(k) \in bucket
    PROVE  DirectoryInv'
<1>1. keys \in 0..MaxKeys /\ keys \in Nat /\ MaxKeys \in Nat
  BY DirectoryAssumption DEF DirectoryInv, DirectoryShape
<1>2. stored(r) = {picture(k) : k \in uploaded(r)}
  BY DEF stored
<1>3. CASE Step(s, r) /\ UNCHANGED <<bucket, keys>>
  <2>1. saves' = [saves EXCEPT ![s] = r]
    BY <1>3 DEF Step
  <2>2. stored(r) \subseteq bucket' /\ bucket \ bucket' = {}
    BY <1>2, <1>3
  <2>3. keys' \in 0..MaxKeys /\ keys <= keys'
    BY <1>1, <1>3
  <2> QED
    BY <2>1, <2>2, <2>3, RowsStay
<1>4. CASE /\ keys < MaxKeys /\ keys' = keys + 1
           /\ PutObject({picture(keys + 1)})
           /\ Step(s, [r EXCEPT !.key = keys + 1])
  <2> DEFINE x == [r EXCEPT !.key = keys + 1]
  <2>1. saves' = [saves EXCEPT ![s] = x] /\ bucket' = bucket \cup {picture(keys + 1)}
    BY <1>4 DEF Step, PutObject
  <2>2. /\ x.pc = r.pc /\ x.bg = r.bg /\ x.key = keys + 1 /\ IsSave(x)
        /\ x.row = r.row
    BY DEF IsSave, SaveFields
  <2>3. keys' \in 0..MaxKeys /\ keys <= keys' /\ keys + 1 \in (keys + 1)..keys'
    BY <1>1, <1>4
  <2> HIDE DEF x
  <2>4. uploaded(x) \subseteq uploaded(r) \cup {keys + 1} /\ kept(x) = kept(r)
    BY <2>2 DEF uploaded, kept
  <2>5. stored(x) = {picture(k) : k \in uploaded(x)}
    BY <2>2 DEF stored
  <2>6. stored(x) \subseteq bucket' /\ bucket \ bucket' = {}
    BY <2>1, <2>4, <2>5
  <2>7. uploaded(x) \subseteq uploaded(saves[s]) \cup (keys + 1)..keys'
    BY <2>3, <2>4
  <2>8. kept(x) \subseteq kept(saves[s]) \cup shown(directory)
    BY <2>4
  <2>9. \A y \in bucket \ bucket' : y = picture(NoKey) \/ y[1] \in uploaded(saves[s]) \ uploaded(x)
    BY <2>6
  <2>10. IsSave(x) /\ keys' \in 0..MaxKeys /\ keys <= keys' /\ saves' = [saves EXCEPT ![s] = x]
    BY <2>1, <2>2, <2>3
  <2>11. stored(x) \subseteq bucket'
    BY <2>6
  <2> QED
    BY <2>7, <2>8, <2>9, <2>10, <2>11, RowsStay
<1>5. CASE Done(s) /\ UNCHANGED <<bucket, keys>>
  BY <1>5, GivenUp
<1> QED
  BY <1>3, <1>4, <1>5 DEF storeFittedImage

LEMMA CategoryFormStep ==
    ASSUME DirectoryInv, NEW s \in Savers, parseCategoryForm(s) PROVE DirectoryInv'
<1> DEFINE R(kind, id, parent, slug, remove) ==
        [NoSave EXCEPT !.pc = "row", !.kind = kind, !.id = id, !.parent = parent,
                       !.slug = slug, !.remove = remove, !.count = saves[s].count + 1]
<1>1. PICK id, slug \in CategoryIds, parent \in CategoryIds \cup {""}, remove \in BOOLEAN,
           kind \in {"create", "update"} : storeFittedImage(s, R(kind, id, parent, slug, remove))
  BY DEF parseCategoryForm
<1> DEFINE r == R(kind, id, parent, slug, remove)
<1>2. r.pc = "row" /\ r.key = NoKey /\ r.bg = NoKey /\ IsSave(r)
  BY DEF NoSave, IsSave, SaveFields, BannerSteps
<1>3. storeFittedImage(s, r)
  BY <1>1
<1> HIDE DEF r
<1>4. uploaded(r) = {} /\ kept(r) = {}
  BY <1>2 DEF uploaded, kept, BannerSteps
<1> QED
  BY <1>2, <1>3, <1>4, FittedImage DEF parseCategoryForm

\* Writing one category shows at most the picture of its row more.
LEMMA CategoryWritten ==
    ASSUME NEW d, NEW e, NEW c, NEW row, IsDirectory(d),
           row = [f \in {"parent", "slug", "image"} |-> row[f]],
           e = [f \in {"categories", "points", "banner"} |-> e[f]],
           e.banner = d.banner, e.categories = Put(d.categories, c, row)
    PROVE  IsDirectory(e) /\ shown(e) \subseteq shown(d) \cup ({row.image} \ {NoKey})
<1>1. /\ DOMAIN e.categories = DOMAIN d.categories \cup {c}
      /\ \A x \in DOMAIN e.categories : e.categories[x] = IF x = c THEN row ELSE d.categories[x]
      /\ e.categories = [x \in DOMAIN e.categories |-> e.categories[x]]
  BY DEF Put
<1>2. IsDirectory(e)
  BY <1>1, ZenonT(30) DEF IsDirectory
<1>3. shown(e) \subseteq shown(d) \cup ({row.image} \ {NoKey})
  BY <1>1 DEF shown
<1> QED
  BY <1>2, <1>3

\* What a category's save has stored.
LEMMA PicturesOwned ==
    ASSUME DirectoryInv, NEW s \in Savers, saves[s].pc \notin {"thumb", "attach"}
    PROVE  \A k \in uploaded(saves[s]) : picture(k) \in bucket
BY DEF DirectoryInv, AllStored, stored

LEMMA CategoryRowStep ==
    ASSUME DirectoryInv, NEW s \in Savers, saveCategory(s) PROVE DirectoryInv'
<1> DEFINE r == saves[s]
           cats == directory.categories
           known == r.id \in DOMAIN cats
           row == [parent |-> r.parent, slug |-> r.slug, image |-> IF known THEN cats[r.id].image ELSE NoKey]
<1>1. /\ r.pc = "row" /\ IsSave(r) /\ IsDirectory(directory) /\ IsShop(shop)
      /\ UNCHANGED <<shop, keys>>
  BY DEF saveCategory, DirectoryInv, DirectoryShape
<1>2. CASE /\ directory' = [directory EXCEPT !.categories = Put(cats, r.id, row)]
           /\ Step(s, [r EXCEPT !.pc = "image"]) \/ Done(s)
           /\ UNCHANGED bucket
  <2>1. PICK x : /\ saves' = [saves EXCEPT ![s] = x] /\ IsSave(x) /\ kept(x) = {}
                 /\ uploaded(x) \subseteq uploaded(r) /\ stored(x) \subseteq bucket
    <3>1. CASE Step(s, [r EXCEPT !.pc = "image"])
      <4> DEFINE x == [r EXCEPT !.pc = "image"]
      <4>1. x.pc = "image" /\ x.key = r.key /\ x.bg = r.bg /\ IsSave(x)
        BY <1>1 DEF IsSave, SaveFields, BannerSteps
      <4>2. saves' = [saves EXCEPT ![s] = x]
        BY <3>1 DEF Step
      <4> HIDE DEF x
      <4>3. kept(x) = {} /\ uploaded(x) = uploaded(r) /\ stored(x) = stored(r)
        BY <1>1, <4>1 DEF kept, uploaded, stored, BannerSteps
      <4> QED
        BY <4>1, <4>2, <4>3 DEF DirectoryInv, AllStored
    <3>2. CASE Done(s)
      <4> DEFINE x == [NoSave EXCEPT !.count = r.count]
      <4>1. IsSave(x) /\ uploaded(x) = {} /\ kept(x) = {} /\ stored(x) = {}
        BY NothingOwned
      <4> QED
        BY <3>2, <4>1 DEF Done, Step
    <3> QED
      BY <1>2, <3>1, <3>2
  <2>2. /\ directory' = [f \in {"categories", "points", "banner"} |-> directory'[f]]
        /\ directory'.banner = directory.banner
        /\ directory'.categories = Put(cats, r.id, row)
    BY <1>1, <1>2 DEF IsDirectory
  <2>3. row = [f \in {"parent", "slug", "image"} |-> row[f]] /\ row.image \in shown(directory) \cup {NoKey}
    BY DEF shown
  <2> HIDE DEF row
  <2>4. IsDirectory(directory') /\ shown(directory') \subseteq shown(directory)
    BY <1>1, <2>2, <2>3, CategoryWritten
  <2>5. /\ shown(directory') \cap uploaded(r) = {} /\ photos(shop') \cap uploaded(r) = {}
    BY <1>1, <2>4 DEF DirectoryInv, OwnUploads
  <2>6. IsShop(shop') /\ photos(shop') = photos(shop) /\ UNCHANGED <<keys, bucket>>
    BY <1>1, <1>2
  <2> HIDE DEF r
  <2> QED
    BY <2>1, <2>4, <2>5, <2>6, RowsWritten DEF r
<1>3. CASE RemoveObject({picture(r.key)}) /\ Done(s) /\ UNCHANGED directory
  <2>1. \A x \in bucket \ bucket' : x = picture(r.key)
    BY <1>3, RemovesOnly
  <2>2. \A x \in bucket \ bucket' : x = picture(NoKey) \/ x[1] \in uploaded(r)
    BY <2>1 DEF picture, uploaded
  <2> QED
    BY <1>1, <1>3, <2>2, GivenUp
<1> QED
  BY <1>2, <1>3 DEF saveCategory

LEMMA ImageStep ==
    ASSUME DirectoryInv, NEW s \in Savers, SetImage(s) PROVE DirectoryInv'
<1> DEFINE r == saves[s]
           x == [NoSave EXCEPT !.count = r.count]
<1>1. /\ r.pc = "image" /\ IsSave(r) /\ IsDirectory(directory) /\ IsShop(shop)
      /\ UNCHANGED <<shop, keys>> /\ Done(s)
  BY DEF SetImage, DirectoryInv, DirectoryShape
<1>2. CASE /\ r.id \in DOMAIN directory.categories
           /\ directory' = [directory EXCEPT !.categories[r.id].image = r.key]
           /\ UNCHANGED bucket
  <2> DEFINE row == [directory.categories[r.id] EXCEPT !.image = r.key]
  <2>1. saves' = [saves EXCEPT ![s] = x]
    BY <1>1 DEF Done, Step
  <2>2. IsSave(x) /\ uploaded(x) = {} /\ kept(x) = {} /\ stored(x) = {}
    BY NothingOwned
  <2>3. /\ directory' = [f \in {"categories", "points", "banner"} |-> directory'[f]]
        /\ directory'.banner = directory.banner
        /\ directory'.categories = Put(directory.categories, r.id, row)
    <3> DEFINE cats == directory.categories
               D == DOMAIN cats
    <3>1. cats = [c \in D |-> cats[c]] /\ r.id \in D
      BY <1>1, <1>2 DEF IsDirectory
    <3>2. /\ directory' = [f \in {"categories", "points", "banner"} |-> directory'[f]]
          /\ directory'.banner = directory.banner
          /\ directory'.categories = [cats EXCEPT ![r.id].image = r.key]
      BY <1>1, <1>2 DEF IsDirectory
    <3>3. D \cup {r.id} = D
      BY <3>1
    <3>4. Put(cats, r.id, row) = [c \in D |-> IF c = r.id THEN row ELSE cats[c]]
      BY <3>3 DEF Put
    <3> HIDE DEF cats, D
    <3>5. [cats EXCEPT ![r.id].image = r.key] = [c \in D |-> IF c = r.id THEN [cats[r.id] EXCEPT !.image = r.key] ELSE cats[c]]
      BY <3>1
    <3> QED
      BY <3>2, <3>4, <3>5 DEF cats
  <2>4. row = [f \in {"parent", "slug", "image"} |-> row[f]] /\ row.image = r.key
    BY <1>1, <1>2 DEF IsDirectory
  <2> HIDE DEF row, x
  <2>5. IsDirectory(directory') /\ shown(directory') \subseteq shown(directory) \cup uploaded(r)
    BY <1>1, <2>3, <2>4, CategoryWritten DEF uploaded
  <2>6. IsShop(shop') /\ photos(shop') = photos(shop) /\ UNCHANGED <<keys, bucket>>
    BY <1>1, <1>2
  <2>7. photos(shop') \cap uploaded(r) = {}
    BY <2>6 DEF DirectoryInv, OwnUploads
  <2>8. \A k \in uploaded(r) : picture(k) \in bucket
    BY <1>1, PicturesOwned
  <2> HIDE DEF r
  <2> QED
    BY <2>1, <2>2, <2>5, <2>6, <2>7, <2>8, RowsWritten DEF r
<1>3. CASE RemoveObject({picture(r.key)}) /\ UNCHANGED directory
  <2>1. \A o \in bucket \ bucket' : o = picture(r.key)
    BY <1>3, RemovesOnly
  <2>2. \A o \in bucket \ bucket' : o = picture(NoKey) \/ o[1] \in uploaded(r)
    BY <2>1 DEF picture, uploaded
  <2> QED
    BY <1>1, <1>3, <2>2, GivenUp
<1> QED
  BY <1>2, <1>3 DEF SetImage

LEMMA StartedAs ==
    ASSUME NEW s \in Savers, NEW rec, Started(s, rec)
    PROVE  saves' = [saves EXCEPT ![s] = [rec EXCEPT !.count = saves[s].count + 1]]
BY DEF Started, Step

\* Fewer categories and another banner.
LEMMA RowsKept ==
    ASSUME NEW d, NEW e, IsDirectory(d),
           e = [f \in {"categories", "points", "banner"} |-> e[f]],
           e.categories = [c \in DOMAIN e.categories |-> d.categories[c]],
           DOMAIN e.categories \subseteq DOMAIN d.categories,
           e.banner = [f \in BannerFields |-> e.banner[f]],
           e.banner.category \in DOMAIN e.categories \cup {""}
    PROVE  IsDirectory(e) /\ shown(e) \subseteq shown(d) \cup ({e.banner.image, e.banner.bg} \ {NoKey})
<1>1. \A c \in DOMAIN e.categories : c \in DOMAIN d.categories /\ e.categories[c] = d.categories[c]
  OBVIOUS
<1>2. e.categories = [c \in DOMAIN e.categories |-> e.categories[c]]
  BY <1>1
<1>3. \A c \in DOMAIN e.categories :
          e.categories[c] = [f \in {"parent", "slug", "image"} |-> e.categories[c][f]]
  BY <1>1, ZenonT(30) DEF IsDirectory
<1>4. IsDirectory(e)
  BY <1>2, <1>3 DEF IsDirectory
<1>5. \A k \in {e.categories[c].image : c \in DOMAIN e.categories} :
          k \in {d.categories[c].image : c \in DOMAIN d.categories}
  BY <1>1
<1>6. shown(e) \subseteq shown(d) \cup ({e.banner.image, e.banner.bg} \ {NoKey})
  BY <1>5 DEF shown
<1> QED
  BY <1>4, <1>6

LEMMA CategoryGoneStep ==
    ASSUME DirectoryInv, NEW s \in Savers, categoriesDelete(s) PROVE DirectoryInv'
<1> DEFINE x == [NoSave EXCEPT !.count = saves[s].count + 1]
<1>1. saves' = [saves EXCEPT ![s] = x] /\ UNCHANGED <<shop, bucket, keys>>
  BY StartedAs DEF categoriesDelete
<1>2. IsSave(x) /\ uploaded(x) = {} /\ kept(x) = {} /\ stored(x) = {}
  BY NothingOwned
<1> HIDE DEF x
<1>3. IsDirectory(directory) /\ IsShop(shop)
  BY DEF DirectoryInv, DirectoryShape
<1>4. PICK id \in DOMAIN directory.categories :
          directory' = [directory EXCEPT !.categories = Without(@, {id}),
                                         !.banner.category = IF @ = id THEN "" ELSE @]
  BY DEF categoriesDelete
<1>5. /\ directory' = [f \in {"categories", "points", "banner"} |-> directory'[f]]
      /\ directory'.categories = Without(directory.categories, {id})
      /\ directory'.banner = [directory.banner EXCEPT !.category = IF @ = id THEN "" ELSE @]
  BY <1>3, <1>4 DEF IsDirectory
<1>6. /\ directory'.banner = [f \in BannerFields |-> directory'.banner[f]]
      /\ directory'.banner.image = directory.banner.image /\ directory'.banner.bg = directory.banner.bg
      /\ directory'.banner.category \in (DOMAIN directory.categories \ {id}) \cup {""}
  BY <1>3, <1>5 DEF IsDirectory, BannerFields
<1>7. /\ DOMAIN directory'.categories = DOMAIN directory.categories \ {id}
      /\ directory'.categories = [c \in DOMAIN directory'.categories |-> directory.categories[c]]
  BY <1>5 DEF Without
<1>8. /\ IsDirectory(directory')
      /\ shown(directory') \subseteq
            shown(directory) \cup ({directory'.banner.image, directory'.banner.bg} \ {NoKey})
  BY <1>3, <1>5, <1>6, <1>7, RowsKept
<1>9. shown(directory') \subseteq shown(directory)
  BY <1>6, <1>8 DEF shown
<1>10. shown(directory') \cap uploaded(saves[s]) = {} /\ photos(shop') \cap uploaded(saves[s]) = {}
  BY <1>1, <1>9 DEF DirectoryInv, OwnUploads
<1>11. IsShop(shop') /\ photos(shop') = photos(shop)
  BY <1>1, <1>3
<1> QED
  BY <1>1, <1>2, <1>8, <1>9, <1>10, <1>11, RowsWritten

LEMMA BannerFormStep ==
    ASSUME DirectoryInv, NEW s \in Savers, bannerInputFromForm(s) PROVE DirectoryInv'
<1> DEFINE Row(removeImage, removeBg, category) ==
        [image |-> IF removeImage THEN NoKey ELSE directory.banner.image,
         bg |-> IF removeBg THEN NoKey ELSE directory.banner.bg, category |-> category]
           R(row) == [NoSave EXCEPT !.pc = "picture", !.kind = "banner", !.row = row]
           X(row) == [R(row) EXCEPT !.count = saves[s].count + 1]
<1>1. PICK removeImage, removeBg \in BOOLEAN, category \in CategoryIds \cup {""} :
          Started(s, R(Row(removeImage, removeBg, category)))
  BY DEF bannerInputFromForm
<1> DEFINE row == Row(removeImage, removeBg, category)
           x == X(row)
<1>2. saves' = [saves EXCEPT ![s] = x] /\ UNCHANGED <<shop, directory, bucket, keys>>
  BY <1>1, StartedAs DEF bannerInputFromForm
<1>3. row = [f \in BannerFields |-> row[f]] /\ {row.image, row.bg} \ {NoKey} \subseteq shown(directory)
  BY DEF shown, BannerFields
<1> HIDE DEF row, Row
<1>4. x.pc = "picture" /\ x.key = NoKey /\ x.bg = NoKey /\ x.row = row /\ IsSave(x)
  BY <1>3 DEF NoSave, IsSave, SaveFields, BannerSteps
<1> HIDE DEF x
<1>5. uploaded(x) = {} /\ kept(x) \subseteq shown(directory) /\ stored(x) = {}
  BY <1>3, <1>4 DEF uploaded, kept, stored, BannerSteps
<1>6. keys' \in 0..MaxKeys /\ keys <= keys'
  BY <1>2, KeysStay
<1>7. bucket \ bucket' = {}
  BY <1>2
<1> QED
  BY <1>2, <1>4, <1>5, <1>6, <1>7, RowsStay

LEMMA BannerPicturesStep ==
    ASSUME DirectoryInv, NEW s \in Savers, uploadPictures(s) PROVE DirectoryInv'
<1> DEFINE r == saves[s]
<1>1. /\ r.pc \in {"picture", "background"} /\ IsSave(r) /\ UNCHANGED <<shop, directory>>
      /\ keys \in 0..MaxKeys /\ keys \in Nat /\ MaxKeys \in Nat
  BY DirectoryAssumption DEF uploadPictures, DirectoryInv, DirectoryShape
<1>2. \A k \in uploaded(r) : picture(k) \in bucket
  BY <1>1, PicturesOwned
<1>3. CASE r.pc = "picture" /\ storeFittedImage(s, [r EXCEPT !.pc = "background"])
  <2> DEFINE x == [r EXCEPT !.pc = "background"]
  <2>1. x.pc = "background" /\ x.key = r.key /\ x.bg = r.bg /\ x.row = r.row /\ IsSave(x)
    BY <1>1 DEF IsSave, SaveFields, BannerSteps
  <2>2. storeFittedImage(s, x)
    BY <1>3
  <2> HIDE DEF x
  <2>3. uploaded(x) = uploaded(r) /\ kept(x) = kept(r)
    BY <1>1, <2>1 DEF uploaded, kept, BannerSteps
  <2> QED
    BY <1>1, <1>2, <2>1, <2>2, <2>3, FittedImage
<1>4. CASE /\ r.pc = "background" /\ keys < MaxKeys /\ keys' = keys + 1
           /\ PutObject({picture(keys + 1)}) /\ Step(s, [r EXCEPT !.pc = "banner", !.bg = keys + 1])
  <2> DEFINE x == [r EXCEPT !.pc = "banner", !.bg = keys + 1]
  <2>1. saves' = [saves EXCEPT ![s] = x] /\ bucket' = bucket \cup {picture(keys + 1)}
    BY <1>4 DEF Step, PutObject
  <2>2. x.pc = "banner" /\ x.key = r.key /\ x.bg = keys + 1 /\ x.row = r.row /\ IsSave(x)
    BY <1>1, <1>4 DEF IsSave, SaveFields, BannerSteps
  <2>3. keys' \in 0..MaxKeys /\ keys <= keys' /\ keys + 1 \in (keys + 1)..keys'
    BY <1>1, <1>4
  <2> HIDE DEF x
  <2>4. uploaded(x) \subseteq uploaded(r) \cup {keys + 1} /\ kept(x) = kept(r)
    BY <1>1, <2>2 DEF uploaded, kept, BannerSteps
  <2>5. stored(x) = {picture(k) : k \in uploaded(x)}
    BY <2>2 DEF stored
  <2>6. stored(x) \subseteq bucket' /\ bucket \ bucket' = {}
    BY <1>2, <2>1, <2>4, <2>5
  <2>7. uploaded(x) \subseteq uploaded(saves[s]) \cup (keys + 1)..keys'
    BY <2>3, <2>4
  <2>8. kept(x) \subseteq kept(saves[s]) \cup shown(directory)
    BY <2>4
  <2> QED
    BY <1>1, <2>1, <2>2, <2>3, <2>6, <2>7, <2>8, RowsStay
<1>5. CASE r.pc = "background" /\ UNCHANGED <<bucket, keys>> /\ Step(s, [r EXCEPT !.pc = "banner"])
  <2> DEFINE x == [r EXCEPT !.pc = "banner"]
  <2>1. saves' = [saves EXCEPT ![s] = x]
    BY <1>5 DEF Step
  <2>2. x.pc = "banner" /\ x.key = r.key /\ x.bg = r.bg /\ x.row = r.row /\ IsSave(x)
    BY <1>1 DEF IsSave, SaveFields, BannerSteps
  <2> HIDE DEF x
  <2>3. uploaded(x) = uploaded(r) /\ kept(x) = kept(r) /\ stored(x) = stored(r)
    BY <1>1, <2>2 DEF uploaded, kept, stored, BannerSteps
  <2>4. stored(x) \subseteq bucket' /\ bucket \ bucket' = {}
    BY <1>5, <2>3 DEF DirectoryInv, AllStored
  <2>5. keys' \in 0..MaxKeys /\ keys <= keys'
    BY <1>1, <1>5
  <2> QED
    BY <1>1, <2>1, <2>2, <2>3, <2>4, <2>5, RowsStay
<1>6. CASE r.pc = "background" /\ UNCHANGED keys /\ RemoveObject({picture(r.key)}) /\ Done(s)
  <2>1. \A o \in bucket \ bucket' : o = picture(r.key)
    BY <1>6, RemovesOnly
  <2>2. \A o \in bucket \ bucket' : o = picture(NoKey) \/ o[1] \in uploaded(r)
    BY <2>1 DEF picture, uploaded
  <2> QED
    BY <1>1, <1>6, <2>2, GivenUp
<1> QED
  BY <1>3, <1>4, <1>5, <1>6 DEF uploadPictures

LEMMA BannerRowStep ==
    ASSUME DirectoryInv, NEW s \in Savers, bannerSave(s) PROVE DirectoryInv'
<1> DEFINE r == saves[s]
           x == [NoSave EXCEPT !.count = r.count]
<1>1. /\ r.pc = "banner" /\ IsSave(r) /\ IsDirectory(directory) /\ IsShop(shop)
      /\ UNCHANGED <<shop, keys>> /\ Done(s)
  BY DEF bannerSave, DirectoryInv, DirectoryShape
<1>2. CASE /\ r.row.category \in DOMAIN directory.categories \cup {""}
           /\ directory' = [directory EXCEPT !.banner = apply(r)]
           /\ UNCHANGED bucket
  <2>1. saves' = [saves EXCEPT ![s] = x]
    BY <1>1 DEF Done, Step
  <2>2. IsSave(x) /\ uploaded(x) = {} /\ kept(x) = {} /\ stored(x) = {}
    BY NothingOwned
  <2>3. /\ directory' = [f \in {"categories", "points", "banner"} |-> directory'[f]]
        /\ directory'.banner = apply(r)
        /\ directory'.categories = directory.categories
    BY <1>1, <1>2 DEF IsDirectory
  <2>4. r.row = [f \in BannerFields |-> r.row[f]]
    BY <1>1 DEF IsSave, BannerSteps
  <2>5. /\ apply(r) = [f \in BannerFields |-> apply(r)[f]]
        /\ apply(r).category = r.row.category
        /\ apply(r).image \in {r.row.image, r.key} /\ apply(r).bg \in {r.row.bg, r.bg}
    BY <2>4 DEF apply, BannerFields
  <2>6. {apply(r).image, apply(r).bg} \ {NoKey} \subseteq kept(r) \cup uploaded(r)
    BY <1>1, <2>5 DEF kept, uploaded, BannerSteps
  <2> HIDE DEF x
  <2>7. /\ IsDirectory(directory')
        /\ shown(directory') \subseteq
              shown(directory) \cup ({directory'.banner.image, directory'.banner.bg} \ {NoKey})
    <3>1. directory'.categories = [c \in DOMAIN directory'.categories |-> directory.categories[c]]
      BY <1>1, <2>3 DEF IsDirectory
    <3>2. /\ directory'.banner = [f \in BannerFields |-> directory'.banner[f]]
          /\ directory'.banner.category \in DOMAIN directory'.categories \cup {""}
          /\ DOMAIN directory'.categories \subseteq DOMAIN directory.categories
      BY <1>2, <2>3, <2>5
    <3> QED
      BY <1>1, <2>3, <3>1, <3>2, RowsKept
  <2>8. shown(directory') \subseteq shown(directory) \cup kept(r) \cup uploaded(r)
    BY <2>3, <2>6, <2>7
  <2>9. IsShop(shop') /\ photos(shop') = photos(shop) /\ UNCHANGED <<keys, bucket>>
    BY <1>1, <1>2
  <2>10. photos(shop') \cap uploaded(r) = {}
    BY <2>9 DEF DirectoryInv, OwnUploads
  <2>11. \A k \in uploaded(r) : picture(k) \in bucket
    BY <1>1, PicturesOwned
  <2> HIDE DEF r
  <2> QED
    BY <2>1, <2>2, <2>7, <2>8, <2>9, <2>10, <2>11, RowsWritten DEF r
<1>3. CASE RemoveObject({picture(r.key), picture(r.bg)}) /\ UNCHANGED directory
  <2>1. \A o \in bucket \ bucket' : o \in {picture(r.key), picture(r.bg)}
    BY <1>3, RemovesOnly
  <2>2. \A o \in bucket \ bucket' : o = picture(NoKey) \/ o[1] \in uploaded(r)
    BY <2>1 DEF picture, uploaded
  <2> QED
    BY <1>1, <1>3, <2>2, GivenUp
<1> QED
  BY <1>2, <1>3 DEF bannerSave

-----------------------------------------------------------------------------
(* Points and their goods.                                                 *)

\* A request that uploads nothing.
LEMMA NoUploads ==
    ASSUME DirectoryInv, NEW s \in Savers, NEW rec, Started(s, rec),
           rec = [f \in SaveFields |-> rec[f]], rec.pc \in {"idle", "point", "delete"},
           rec.key = NoKey, rec.bg = NoKey, UNCHANGED <<bucket, keys>>,
           IsDirectory(directory'), shown(directory') \subseteq shown(directory),
           IsShop(shop'), photos(shop') \subseteq photos(shop)
    PROVE  DirectoryInv'
<1> DEFINE x == [rec EXCEPT !.count = saves[s].count + 1]
<1>1. saves' = [saves EXCEPT ![s] = x]
  BY StartedAs
<1>2. x.pc \in {"idle", "point", "delete"} /\ x.key = NoKey /\ x.bg = NoKey /\ IsSave(x)
  BY DEF IsSave, SaveFields, BannerSteps
<1> HIDE DEF x
<1>3. uploaded(x) = {} /\ kept(x) = {} /\ stored(x) = {}
  BY <1>2 DEF uploaded, kept, stored, BannerSteps
<1>4. shown(directory') \cap uploaded(saves[s]) = {} /\ photos(shop') \cap uploaded(saves[s]) = {}
  BY DEF DirectoryInv, OwnUploads
<1> QED
  BY <1>1, <1>2, <1>3, <1>4, RowsWritten

LEMMA NoSaveFields ==
    /\ NoSave = [f \in SaveFields |-> NoSave[f]]
    /\ NoSave.pc = "idle" /\ NoSave.key = NoKey /\ NoSave.bg = NoKey
BY DEF NoSave, SaveFields

\* Only the points of the directory change.
LEMMA PointsOnly ==
    ASSUME NEW d, NEW e, NEW points, IsDirectory(d), e = [d EXCEPT !.points = points]
    PROVE  IsDirectory(e) /\ shown(e) = shown(d)
<1>1. /\ e = [f \in {"categories", "points", "banner"} |-> e[f]]
      /\ e.categories = d.categories /\ e.banner = d.banner
  BY DEF IsDirectory
<1>2. IsDirectory(e)
  BY <1>1, ZenonT(30) DEF IsDirectory
<1>3. shown(e) = shown(d)
  BY <1>1 DEF shown
<1> QED
  BY <1>2, <1>3

\* Only the stock of the tables changes.
LEMMA StockOnly ==
    ASSUME NEW t, NEW u, NEW stock, IsShop(t), u = [t EXCEPT !.stock = stock]
    PROVE  IsShop(u) /\ photos(u) = photos(t)
<1>1. u = [f \in TableFields |-> u[f]] /\ u.products = t.products /\ u.images = t.images
  BY DEF IsShop, TableFields
<1>2. \A p : imagesOf(u, p) = imagesOf(t, p)
  BY <1>1 DEF imagesOf
<1>3. IsShop(u)
  BY <1>1, <1>2 DEF IsShop
<1>4. photos(u) = photos(t)
  BY <1>1, <1>2 DEF photos
<1> QED
  BY <1>3, <1>4

LEMMA PointsStep ==
    ASSUME DirectoryInv, NEW s \in Savers,
           pointsCreate(s) \/ pointsUpdate(s) \/ updatePoint(s)
               \/ checkPointStock(s) \/ deletePoint(s) \/ Upsert(s)
    PROVE  DirectoryInv'
<1>1. IsDirectory(directory) /\ IsShop(shop) /\ IsSave(saves[s])
  BY DEF DirectoryInv, DirectoryShape
<1>2. CASE pointsCreate(s)
  <2>1. /\ \E points : directory' = [directory EXCEPT !.points = points]
        /\ Started(s, NoSave) /\ UNCHANGED <<shop, bucket, keys>>
    BY <1>2 DEF pointsCreate
  <2> QED
    BY <1>1, <2>1, PointsOnly, NoSaveFields, NoUploads
<1>3. CASE pointsUpdate(s)
  <2>1. PICK p, row : Started(s, [NoSave EXCEPT !.pc = "point", !.id = p, !.row = row])
    BY <1>3 DEF pointsUpdate
  <2> DEFINE rec == [NoSave EXCEPT !.pc = "point", !.id = p, !.row = row]
  <2>2. rec = [f \in SaveFields |-> rec[f]] /\ rec.pc = "point" /\ rec.key = NoKey /\ rec.bg = NoKey
    BY DEF NoSave, SaveFields
  <2>3. UNCHANGED <<shop, directory, bucket, keys>>
    BY <1>3 DEF pointsUpdate
  <2>4. Started(s, rec)
    BY <2>1
  <2> HIDE DEF rec
  <2> QED
    BY <1>1, <2>2, <2>3, <2>4, NoUploads
<1>4. CASE checkPointStock(s)
  <2>1. PICK p : Started(s, [NoSave EXCEPT !.pc = "delete", !.id = p])
    BY <1>4 DEF checkPointStock
  <2> DEFINE rec == [NoSave EXCEPT !.pc = "delete", !.id = p]
  <2>2. rec = [f \in SaveFields |-> rec[f]] /\ rec.pc = "delete" /\ rec.key = NoKey /\ rec.bg = NoKey
    BY DEF NoSave, SaveFields
  <2>3. UNCHANGED <<shop, directory, bucket, keys>>
    BY <1>4 DEF checkPointStock
  <2>4. Started(s, rec)
    BY <2>1
  <2> HIDE DEF rec
  <2> QED
    BY <1>1, <2>2, <2>3, <2>4, NoUploads
<1>5. CASE Upsert(s)
  <2>1. /\ \E stock : shop' = [shop EXCEPT !.stock = stock]
        /\ Started(s, NoSave) /\ UNCHANGED <<directory, bucket, keys>>
    BY <1>5 DEF Upsert, putStock
  <2> QED
    BY <1>1, <2>1, StockOnly, NoSaveFields, NoUploads
<1>6. CASE updatePoint(s) \/ deletePoint(s)
  <2> DEFINE x == [NoSave EXCEPT !.count = saves[s].count]
  <2>1. /\ saves' = [saves EXCEPT ![s] = x] /\ UNCHANGED <<bucket, keys>>
        /\ \E points : directory' = [directory EXCEPT !.points = points]
        /\ shop' = shop \/ \E stock : shop' = [shop EXCEPT !.stock = stock]
    BY <1>6 DEF updatePoint, deletePoint, Done, Step
  <2>2. IsSave(x) /\ uploaded(x) = {} /\ kept(x) = {} /\ stored(x) = {}
    BY NothingOwned
  <2> HIDE DEF x
  <2>3. /\ IsDirectory(directory') /\ shown(directory') = shown(directory)
        /\ IsShop(shop') /\ photos(shop') = photos(shop)
    BY <1>1, <2>1, PointsOnly, StockOnly
  <2>4. shown(directory') \cap uploaded(saves[s]) = {} /\ photos(shop') \cap uploaded(saves[s]) = {}
    BY <2>3 DEF DirectoryInv, OwnUploads
  <2> QED
    BY <2>1, <2>2, <2>3, <2>4, RowsWritten
<1> QED
  BY <1>2, <1>3, <1>4, <1>5, <1>6

LEMMA DirectoryInductive == DirectoryInv /\ [DirectoryNext]_<<shop, directoryVars>> => DirectoryInv'
<1> SUFFICES ASSUME DirectoryInv, [DirectoryNext]_<<shop, directoryVars>> PROVE DirectoryInv'
  OBVIOUS
<1>1. CASE UNCHANGED <<shop, directoryVars>>
  BY <1>1 DEF directoryVars, DirectoryInv, DirectoryShape, KeysKnown, OwnUploads, AllStored
<1>2. ASSUME NEW s \in Savers,
             \/ uploadHandler(s) \/ storeVariants(s) \/ attachPhoto(s)
             \/ parseCategoryForm(s) \/ saveCategory(s) \/ SetImage(s) \/ categoriesDelete(s)
             \/ bannerInputFromForm(s) \/ uploadPictures(s) \/ bannerSave(s)
      PROVE  DirectoryInv'
  BY <1>2, UploadStep, VariantsStep, AttachStep, CategoryFormStep, CategoryRowStep, ImageStep,
     CategoryGoneStep, BannerFormStep, BannerPicturesStep, BannerRowStep
<1> QED
  BY <1>1, <1>2, PointsStep DEF DirectoryNext

LEMMA DirectoryInitially == DirectoryInit /\ PhotosStored => DirectoryInv
<1> SUFFICES ASSUME DirectoryInit, PhotosStored PROVE DirectoryInv
  OBVIOUS
<1>0. saves = [s \in Savers |-> NoSave] /\ keys = 0
  BY Zenon DEF DirectoryInit
<1>10. bucket = UNION {{<<k, "full">>, <<k, "thumb">>} : k \in StoredPhotos}
  BY Zenon DEF DirectoryInit
<1> DEFINE Row(c) == [parent |-> IF c = "c2" THEN "c1" ELSE "", slug |-> c, image |-> NoKey]
           NoBanner == [image |-> NoKey, bg |-> NoKey, category |-> ""]
           Layout(points) ==
               [categories |-> [c \in {"c1", "c2"} |-> Row(c)], points |-> points, banner |-> NoBanner]
<1>11. PICK open \in BOOLEAN : directory = Layout([p \in {"A", "B"} |-> [active |-> p = "A" \/ open, name |-> 0]])
  BY Zenon DEF DirectoryInit
<1>12. \E points : directory = Layout(points)
  <2> HIDE DEF Layout
  <2> QED
    BY Zenon, <1>11
<1>13. PICK points : directory = Layout(points)
  BY Zenon, <1>12
<1>1. \A s \in Savers : /\ saves[s] = NoSave /\ IsSave(saves[s])
                        /\ uploaded(saves[s]) = {} /\ kept(saves[s]) = {} /\ stored(saves[s]) = {}
  <2>1. IsSave(NoSave) /\ uploaded(NoSave) = {} /\ kept(NoSave) = {} /\ stored(NoSave) = {}
    BY NoSaveFields DEF IsSave, BannerSteps, uploaded, kept, stored
  <2> QED
    BY <1>0, <2>1
<1>2. IsDirectory(directory) /\ shown(directory) = {}
  <2>0. \A c : /\ Row(c) = [f \in {"parent", "slug", "image"} |-> Row(c)[f]]
               /\ Row(c).image = NoKey
    OBVIOUS
  <2> HIDE DEF Row
  <2>1. /\ directory = [f \in {"categories", "points", "banner"} |-> directory[f]]
        /\ directory.banner = NoBanner
        /\ directory.categories = [c \in {"c1", "c2"} |-> Row(c)]
    BY <1>13
  <2>8. /\ DOMAIN directory.categories = {"c1", "c2"}
         /\ \A c \in {"c1", "c2"} : directory.categories[c] = Row(c)
    BY <2>1
  <2>2. \A c \in DOMAIN directory.categories :
            /\ directory.categories[c] = [f \in {"parent", "slug", "image"} |-> directory.categories[c][f]]
            /\ directory.categories[c].image = NoKey
    BY <2>0, <2>8
  <2>3. directory.banner = [f \in BannerFields |-> directory.banner[f]]
    BY <2>1 DEF BannerFields
  <2>4. directory.categories = [c \in DOMAIN directory.categories |-> directory.categories[c]]
    BY <2>1, <2>8
  <2>5. directory.banner.category = "" /\ directory.banner.image = NoKey /\ directory.banner.bg = NoKey
    <3>1. directory.banner = NoBanner
      BY <2>1
    <3>2. NoBanner.category = "" /\ NoBanner.image = NoKey /\ NoBanner.bg = NoKey
      OBVIOUS
    <3> HIDE DEF NoBanner
    <3> QED BY <3>1, <3>2
  <2>6. IsDirectory(directory)
    BY <2>1, <2>2, <2>3, <2>4, <2>5 DEF IsDirectory
  <2>7. shown(directory) = {}
    BY <2>2, <2>5 DEF shown
  <2> QED
    BY <2>6, <2>7
<1>3. shop = [f \in TableFields |-> shop[f]]
  <2>1. DOMAIN EmptyTables = TableFields
    BY DEF EmptyTables, TableFields
  <2> QED
    BY <2>1 DEF PhotosStored
<1>4. \A p \in DOMAIN shop.products :
          /\ imagesOf(shop, p) \in Seq(Range(imagesOf(shop, p)))
          /\ \A i \in DOMAIN imagesOf(shop, p) : imagesOf(shop, p)[i][1] \in StoredPhotos
  <2> SUFFICES ASSUME NEW p \in DOMAIN shop.products
               PROVE  /\ imagesOf(shop, p) \in Seq(Range(imagesOf(shop, p)))
                      /\ \A i \in DOMAIN imagesOf(shop, p) : imagesOf(shop, p)[i][1] \in StoredPhotos
    OBVIOUS
  <2> DEFINE list == imagesOf(shop, p)
             T == {photo[2] : photo \in Range(list)}
  <2>1. list \in Seq(StoredPhotos \X T)
    BY DEF PhotosStored
  <2> HIDE DEF list, T
  <2>2. Len(list) \in Nat /\ list \in [1..Len(list) -> StoredPhotos \X T]
    BY <2>1, LenProperties
  <2>3. list \in [1..Len(list) -> Range(list)]
    BY <2>2 DEF Range
  <2> QED
    BY <2>2, <2>3, SeqDef DEF list
<1>5. photos(shop) \subseteq StoredPhotos
  BY <1>4 DEF photos
<1>6. DirectoryShape
  <2>1. saves = [s \in Savers |-> saves[s]] /\ keys \in 0..MaxKeys
    BY <1>0, DirectoryAssumption
  <2> QED
    BY <1>1, <1>2, <1>3, <1>4, <2>1 DEF DirectoryShape, IsShop
<1>7. KeysKnown /\ OwnUploads
  BY <1>1, <1>2, <1>5 DEF KeysKnown, OwnUploads
<1>8. \A k \in StoredPhotos : full(k) \in bucket /\ ThumbKey(k) \in bucket
  BY <1>10 DEF full, ThumbKey
<1>9. AllStored
  BY <1>1, <1>2, <1>5, <1>8 DEF AllStored
<1> QED
  BY <1>6, <1>7, <1>9 DEF DirectoryInv

\* No page shows a broken picture: whatever a category, the banner or a
\* product refers to is in the bucket, whatever saves run side by side and
\* whichever step of them fails.
THEOREM NoBrokenPictures == DirectorySpec => []PicturesStored
<1>1. DirectoryInv => PicturesStored
  <2> SUFFICES ASSUME DirectoryInv PROVE PicturesStored
    OBVIOUS
  <2>1. \A c \in DOMAIN directory.categories :
            directory.categories[c].image # NoKey => picture(directory.categories[c].image) \in bucket
    BY DEF DirectoryInv, AllStored, shown
  <2>2. \A k \in {directory.banner.image, directory.banner.bg} \ {NoKey} : picture(k) \in bucket
    BY DEF DirectoryInv, AllStored, shown
  <2>3. \A p \in DOMAIN shop.products : \A i \in DOMAIN imagesOf(shop, p) :
            {full(imagesOf(shop, p)[i][1]), ThumbKey(imagesOf(shop, p)[i][1])} \subseteq bucket
    BY DEF DirectoryInv, AllStored, photos
  <2>4. directory.banner.category \in DOMAIN directory.categories \cup {""}
    BY DEF DirectoryInv, DirectoryShape, IsDirectory
  <2> QED
    BY <2>1, <2>2, <2>3, <2>4 DEF PicturesStored
<1> QED
  BY <1>1, DirectoryInitially, DirectoryInductive, PTL DEF DirectorySpec

-----------------------------------------------------------------------------
(* ShopCart.                                                               *)

IsList(l) == l \in Seq(Range(l))

Quantities == [CartVariants -> 0..MaxCartQty]
ZoneRow == [fee : Nat, freeFrom : Nat, active : BOOLEAN, stored : BOOLEAN]
AskFields == {"pc", "in", "items", "zone", "prices", "active", "known", "order", "err"}
OrderFields == {"items", "total", "fee", "key", "online", "status", "retried", "pay", "zone", "address", "fresh"}

CartShape ==
    /\ basket \in Quantities
    /\ goods \in [CartVariants -> [price : Nat, active : BOOLEAN]]
    /\ zoneRows \in [ZoneIds -> ZoneRow]
    /\ \A z \in ZoneIds : zoneRows[z].active => zoneRows[z].stored
    /\ book \subseteq AddressIds
    /\ IsList(bought)
    /\ ask = [r \in Visits |-> ask[r]]
    /\ pageOf = [k \in CheckoutKeys |-> pageOf[k]]
    /\ shopEdits \in Nat

\* What kind of request can be at each step.
kindsAt(pc) ==
    CASE pc \in {"check", "upsert"} -> {"add", "buy"}
      [] pc = "list" -> {"buy", "adjust", "submit"}
      [] pc = "setQty" -> {"adjust"}
      [] pc \in {"lookup", "empty"} -> {"submit"}
      [] pc = "merge" -> {"order"}
      [] pc \in {"lock", "prices", "insert", "session"} -> {"submit", "order"}
      [] pc \in {"zoneGet", "zoneWrite"} -> {"zoneUpdate", "zoneToggle"}
      [] OTHER -> {}

Transaction == {"prices", "insert"}

\* While nothing was edited since its page, a transaction has read what the
\* page was made from.
ReadUnedited(x) ==
    x.pc \in Transaction /\ x.in.kind = "submit" /\ pageOf[x.in.key].edits = shopEdits =>
        /\ x.zone = IF x.in.delivery THEN resolveDeliveryZoneTx(x.in.zone) ELSE NoZone
        /\ x.in.delivery => ~zoneRefused(x.in.zone)
        /\ x.pc = "insert" => x.prices = currentPrices

RequestOk(x) ==
    /\ x = [f \in AskFields |-> x[f]]
    /\ x.items \in Quantities /\ x.prices \in [CartVariants -> Nat]
    /\ x.zone \in ZoneRow /\ x.active \in BOOLEAN
    /\ x.pc \notin {"idle", "landed"} => x.in \in VisitInputs /\ x.in.kind \in kindsAt(x.pc)
    /\ x.known \subseteq DOMAIN bought
    /\ x.pc \in {"session", "landed"} =>
          x.order \in DOMAIN bought /\ bought[x.order].key \in {x.in.key, NoCheckoutKey}
    /\ x.pc = "empty" /\ ~x.err => x.known \cap withKey(x.in.key) = {}
    /\ x.pc \in Transaction => withKey(x.in.key) = {}
    /\ x.in.kind = "submit" => pageOf[x.in.key].shown
    /\ ReadUnedited(x)

OneTransaction == \A r, s \in Visits : inTransaction(r) /\ inTransaction(s) => r = s

\* A page that nobody has edited anything since shows what it would now.
pageNow ==
    LET total == priceTotal(basket, currentPrices) IN
    [shown |-> TRUE, edits |-> shopEdits, pickup |-> total, flat |-> total + FlatFee,
     zones |-> checkoutZones(total), cart |-> cartPageTotal(total)]
PagesCurrent ==
    \A k \in CheckoutKeys : pageOf[k].shown =>
        /\ pageOf[k].edits \in 0..shopEdits
        /\ pageOf[k].edits = shopEdits => pageOf[k] = pageNow

OrderOk(o) ==
    /\ o = [f \in OrderFields |-> o[f]]
    /\ o.key \in CheckoutKeys \cup {NoCheckoutKey}
    /\ \A v \in CartVariants : o.items[v] <= MaxCartQty
    /\ o.fresh /\ o.key # NoCheckoutKey =>
          /\ pageOf[o.key].shown
          /\ o.total = shownTotal(o)
          /\ o.address # "" => o.total >= pageOf[o.key].cart
    /\ o.online /\ o.status = "placed" /\ o.pay # "paid" => o.pay \in {"pending", "failed"}

OneOrderPerKey ==
    \A i, j \in DOMAIN bought : bought[i].key = bought[j].key /\ bought[i].key # NoCheckoutKey => i = j

CartInv ==
    /\ CartShape
    /\ \A r \in Visits : RequestOk(ask[r])
    /\ OneTransaction
    /\ PagesCurrent
    /\ \A i \in DOMAIN bought : OrderOk(bought[i])
    /\ OneOrderPerKey

-----------------------------------------------------------------------------
(* What requests, pages and orders keep when something else changes.       *)

LEMMA KindsThere ==
    /\ kindsAt("check") = {"add", "buy"} /\ kindsAt("upsert") = {"add", "buy"}
    /\ kindsAt("list") = {"buy", "adjust", "submit"} /\ kindsAt("setQty") = {"adjust"}
    /\ kindsAt("lookup") = {"submit"} /\ kindsAt("empty") = {"submit"} /\ kindsAt("merge") = {"order"}
    /\ kindsAt("lock") = {"submit", "order"} /\ kindsAt("prices") = {"submit", "order"}
    /\ kindsAt("insert") = {"submit", "order"} /\ kindsAt("session") = {"submit", "order"}
    /\ kindsAt("zoneGet") = {"zoneUpdate", "zoneToggle"} /\ kindsAt("zoneWrite") = {"zoneUpdate", "zoneToggle"}
BY DEF kindsAt

LEMMA InputKinds ==
    ASSUME NEW in \in VisitInputs
    PROVE  /\ in.kind \in {"add", "buy", "adjust", "submit", "order", "zoneUpdate", "zoneToggle"}
           /\ in.kind \in {"add", "buy"} => in.variant \in CartVariants /\ in.qty \in Nat
           /\ in.kind = "adjust" => in.variant \in CartVariants /\ in.delta \in Int
           /\ in.kind = "submit" => in.key \in CheckoutKeys
           /\ in.kind = "order" => in.key \in CheckoutKeys \cup {NoCheckoutKey} /\ in.lines \in Seq(CartVariants \X Nat)
           /\ in.kind \in {"zoneUpdate", "zoneToggle"} => in.zone \in ZoneIds
           /\ in.kind = "zoneUpdate" => in.terms \in Nat \X Nat
BY InputsAssumption DEF NoCheckoutKey

LEMMA RequestsStay ==
    ASSUME NEW x, RequestOk(x), UNCHANGED <<goods, zoneRows, bought, pageOf, shopEdits>>
    PROVE  RequestOk(x)'
BY DEF RequestOk, ReadUnedited, resolveDeliveryZoneTx, zoneRefused, activeZones, currentPrices, withKey

LEMMA SubmitKey ==
    ASSUME NEW x, RequestOk(x), x.pc \in Transaction \cup {"session"}
    PROVE  /\ x.in \in VisitInputs /\ x.in.kind \in {"submit", "order"}
           /\ x.in.kind = "submit" => x.in.key \in CheckoutKeys
           /\ x.in.key \in CheckoutKeys \cup {NoCheckoutKey}
<1>1. x.in \in VisitInputs /\ x.in.kind \in {"submit", "order"}
  BY KindsThere DEF RequestOk, Transaction
<1> QED
  BY <1>1, InputKinds

\* An edit makes every page, and every transaction under way, an old one.
LEMMA RequestsEdited ==
    ASSUME CartInv, NEW x, RequestOk(x), shopEdits' = shopEdits + 1, UNCHANGED <<bought, pageOf>>
    PROVE  RequestOk(x)'
<1>1. ReadUnedited(x)'
  <2> SUFFICES ASSUME x.pc \in Transaction, x.in.kind = "submit", pageOf'[x.in.key].edits = shopEdits'
               PROVE  FALSE
    BY DEF ReadUnedited
  <2>1. x.in.key \in CheckoutKeys /\ pageOf[x.in.key].shown
    BY SubmitKey DEF RequestOk
  <2>2. pageOf[x.in.key].edits \in 0..shopEdits /\ shopEdits \in Nat
    BY <2>1 DEF CartInv, CartShape, PagesCurrent
  <2>3. pageOf[x.in.key].edits = shopEdits + 1
    BY <2>1
  <2> QED
    BY <2>2, <2>3
<1>2. withKey(x.in.key)' = withKey(x.in.key)
  BY DEF withKey
<1> QED
  BY <1>1, <1>2 DEF RequestOk

\* Orders that are added or lose their key leave a request that is not in
\* the transaction as it was.
LEMMA RequestsAfterOrder ==
    ASSUME NEW x, RequestOk(x), x.pc \in Transaction => shopEdits' = shopEdits /\ DOMAIN bought' = DOMAIN bought,
           UNCHANGED <<goods, zoneRows, pageOf>>,
           DOMAIN bought \subseteq DOMAIN bought',
           \A i \in DOMAIN bought : bought'[i].key \in {bought[i].key, NoCheckoutKey}
    PROVE  RequestOk(x)'
<1>1. withKey(x.in.key)' \cap DOMAIN bought \subseteq withKey(x.in.key)
  BY DEF withKey
<1>2. x.pc \in Transaction => withKey(x.in.key)' = {}
  BY <1>1 DEF RequestOk, withKey
<1>3. x.pc = "empty" /\ ~x.err => x.known \cap withKey(x.in.key)' = {}
  BY <1>1 DEF RequestOk
<1>4. x.pc \in {"session", "landed"} =>
          x.order \in DOMAIN bought' /\ bought'[x.order].key \in {x.in.key, NoCheckoutKey}
  BY DEF RequestOk
<1>5. ReadUnedited(x)'
  <2>1. CASE x.pc \in Transaction
    BY <2>1 DEF RequestOk, ReadUnedited, resolveDeliveryZoneTx, zoneRefused, activeZones, currentPrices
  <2>2. CASE x.pc \notin Transaction
    BY <2>2 DEF ReadUnedited
  <2> QED
    BY <2>1, <2>2
<1> QED
  BY <1>2, <1>3, <1>4, <1>5 DEF RequestOk

LEMMA OrdersStay == ASSUME NEW o, OrderOk(o), UNCHANGED pageOf PROVE OrderOk(o)'
BY DEF OrderOk, shownTotal

LEMMA PageNowStays == ASSUME UNCHANGED <<basket, goods, zoneRows, shopEdits>> PROVE pageNow' = pageNow
BY DEF pageNow, priceTotal, currentPrices, checkoutZones, cartPageTotal, activeZones, FeeFor

LEMMA PagesStay ==
    ASSUME PagesCurrent, UNCHANGED <<basket, goods, zoneRows, shopEdits, pageOf>> PROVE PagesCurrent'
BY PageNowStays DEF PagesCurrent

LEMMA PagesEdited ==
    ASSUME PagesCurrent, shopEdits \in Nat, shopEdits' = shopEdits + 1, UNCHANGED pageOf PROVE PagesCurrent'
<1> SUFFICES ASSUME NEW k \in CheckoutKeys, pageOf[k].shown
             PROVE  pageOf[k].edits \in 0..(shopEdits + 1) /\ pageOf[k].edits # shopEdits + 1
  BY DEF PagesCurrent
<1>1. pageOf[k].edits \in 0..shopEdits
  BY DEF PagesCurrent
<1> QED
  BY <1>1

\* A request goes on and writes nothing.
LEMMA ReadStep ==
    ASSUME CartInv, NEW r \in Visits, NEW x, RequestOk(x), ask' = [ask EXCEPT ![r] = x],
           UNCHANGED <<basket, goods, zoneRows, book, bought, pageOf, shopEdits>>,
           x.pc \in Transaction => inTransaction(r) \/ \A s \in Visits : ~inTransaction(s)
    PROVE  CartInv'
<1>1. ask'[r] = x /\ \A s \in Visits \ {r} : ask'[s] = ask[s]
  BY DEF CartInv, CartShape
<1>2. \A s \in Visits : RequestOk(ask[s])'
  <2> SUFFICES ASSUME NEW s \in Visits PROVE RequestOk(ask[s])'
    OBVIOUS
  <2>1. CASE s = r
    <3>1. RequestOk(x)'
      BY RequestsStay
    <3> QED
      BY <1>1, <2>1, <3>1
  <2>2. CASE s # r
    <3> PICK y : y = ask[s]
      OBVIOUS
    <3>1. RequestOk(y)'
      BY RequestsStay DEF CartInv
    <3> QED
      BY <1>1, <2>2, <3>1
  <2> QED
    BY <2>1, <2>2
<1>3. OneTransaction'
  <2>1. \A s \in Visits \ {r} : ask[s].pc = ask'[s].pc
    BY <1>1
  <2> QED
    BY <1>1, <2>1 DEF CartInv, OneTransaction, inTransaction, Transaction
<1>4. PagesCurrent'
  BY PagesStay DEF CartInv
<1>5. \A i \in DOMAIN bought' : OrderOk(bought[i])'
  <2> SUFFICES ASSUME NEW i \in DOMAIN bought PROVE OrderOk(bought[i])'
    OBVIOUS
  <2> PICK o : o = bought[i]
    OBVIOUS
  <2>1. OrderOk(o)'
    BY OrdersStay DEF CartInv
  <2> QED
    BY <2>1
<1>6. CartShape' /\ OneOrderPerKey'
  BY DEF CartInv, CartShape, OneOrderPerKey
<1> QED
  BY <1>2, <1>3, <1>4, <1>5, <1>6 DEF CartInv

LEMMA CartSizes ==
    /\ MaxCartQty \in Nat /\ 1 <= MaxCartQty /\ 0 \in 0..MaxCartQty /\ 1 \in 0..MaxCartQty
    /\ FlatFee \in Nat /\ PayPollMax \in Nat
<1>1. MaxCartQty \in Nat \ {0} /\ FlatFee \in Nat /\ PayPollMax \in Nat
  BY Zenon, CartAssumption
<1> QED
  BY ONLY <1>1

LEMMA NoAskOk == RequestOk(NoAsk)
<1>1. NoItems \in Quantities /\ NoItems \in [CartVariants -> Nat] /\ NoZone \in ZoneRow
  <2>1. 0 \in 0..MaxCartQty
    BY CartSizes
  <2>2. NoItems \in Quantities /\ NoItems \in [CartVariants -> Nat]
    BY <2>1 DEF NoItems, Quantities
  <2>3. NoZone \in ZoneRow
    BY DEF NoZone, ZoneRow
  <2> QED
    BY <2>2, <2>3
<1>2. /\ NoAsk = [f \in AskFields |-> NoAsk[f]]
      /\ NoAsk.pc = "idle" /\ NoAsk.in.kind = "none" /\ NoAsk.items = NoItems /\ NoAsk.prices = NoItems
      /\ NoAsk.zone = NoZone /\ NoAsk.active = FALSE /\ NoAsk.known = {}
  BY DEF NoAsk, AskFields
<1> QED
  BY <1>1, <1>2 DEF RequestOk, ReadUnedited, Transaction

\* A request may end with the step.
MayEnd == ask' = ask \/ \E r \in Visits : ask' = [ask EXCEPT ![r] = NoAsk]

LEMMA RequestsEnd ==
    ASSUME CartInv, MayEnd, NEW s \in Visits
    PROVE  /\ ask' = [r \in Visits |-> ask'[r]]
           /\ ask'[s] = ask[s] \/ ask'[s] = NoAsk
           /\ RequestOk(ask'[s])
           /\ ask'[s].pc \in Transaction => ask'[s] = ask[s]
<1>1. NoAsk.pc = "idle"
  BY DEF NoAsk
<1> QED
  BY <1>1, NoAskOk DEF MayEnd, CartInv, CartShape, Transaction

LEMMA OneTransactionStays == ASSUME CartInv, MayEnd PROVE OneTransaction'
BY RequestsEnd DEF CartInv, OneTransaction, inTransaction, Transaction

\* Somebody edits the cart, the goods or the zones.
LEMMA EditStep ==
    ASSUME CartInv, MayEnd, shopEdits' = shopEdits + 1, UNCHANGED <<book, bought, pageOf>>,
           basket' \in Quantities, goods' \in [CartVariants -> [price : Nat, active : BOOLEAN]],
           zoneRows' \in [ZoneIds -> ZoneRow], \A z \in ZoneIds : zoneRows'[z].active => zoneRows'[z].stored
    PROVE  CartInv'
<1>1. \A s \in Visits : RequestOk(ask[s])'
  <2> SUFFICES ASSUME NEW s \in Visits PROVE RequestOk(ask[s])'
    OBVIOUS
  <2> PICK y : y = ask'[s]
    OBVIOUS
  <2>1. RequestOk(y)
    BY RequestsEnd
  <2>2. RequestOk(y)'
    BY <2>1, RequestsEdited
  <2> QED
    BY <2>2
<1>2. OneTransaction'
  BY OneTransactionStays
<1>3. shopEdits \in Nat
  BY DEF CartInv, CartShape
<1>4. PagesCurrent'
  BY <1>3, PagesEdited DEF CartInv
<1>5. \A i \in DOMAIN bought' : OrderOk(bought[i])'
  <2> SUFFICES ASSUME NEW i \in DOMAIN bought PROVE OrderOk(bought[i])'
    OBVIOUS
  <2> PICK o : o = bought[i]
    OBVIOUS
  <2>1. OrderOk(o)'
    BY OrdersStay DEF CartInv
  <2> QED
    BY <2>1
<1>6. CASE Visits # {}
  <2>1. ask' = [r \in Visits |-> ask'[r]]
    BY <1>6, RequestsEnd
  <2>2. CartShape'
    BY <1>3, <2>1 DEF CartInv, CartShape
  <2> QED
    BY <1>1, <1>2, <1>4, <1>5, <2>2 DEF CartInv, OneOrderPerKey
<1>7. CASE Visits = {}
  <2>1. ask' = [r \in Visits |-> ask'[r]]
    BY <1>7 DEF MayEnd, CartInv, CartShape
  <2>2. CartShape'
    BY <1>3, <2>1 DEF CartInv, CartShape
  <2> QED
    BY <1>1, <1>2, <1>4, <1>5, <2>2 DEF CartInv, OneOrderPerKey
<1> QED
  BY <1>6, <1>7

\* A list with another member in a place, or one more.
LEMMA FunctionIsList ==
    ASSUME NEW n \in Nat, NEW m, m \in [1..n -> Range(m)] PROVE IsList(m)
BY SeqDef DEF IsList

LEMMA ListReplaced ==
    ASSUME NEW l, IsList(l), NEW i \in DOMAIN l, NEW x, NEW m, m = [l EXCEPT ![i] = x]
    PROVE  IsList(m) /\ DOMAIN m = DOMAIN l /\ m[i] = x /\ \A j \in DOMAIN l \ {i} : m[j] = l[j]
<1>1. Len(l) \in Nat /\ DOMAIN l = 1..Len(l)
  BY LenProperties DEF IsList
<1>2. DOMAIN m = 1..Len(l) /\ m \in [1..Len(l) -> Range(m)]
  BY <1>1 DEF Range
<1>3. IsList(m)
  BY <1>1, <1>2, FunctionIsList
<1> QED
  BY <1>2, <1>3

LEMMA ListAppended ==
    ASSUME NEW l, IsList(l), NEW x
    PROVE  /\ IsList(Append(l, x)) /\ Len(l) \in Nat /\ DOMAIN l = 1..Len(l)
           /\ DOMAIN Append(l, x) = 1..(Len(l) + 1)
           /\ Append(l, x)[Len(l) + 1] = x /\ \A j \in DOMAIN l : Append(l, x)[j] = l[j]
<1> DEFINE m == Append(l, x)
<1>1. Len(l) \in Nat /\ DOMAIN l = 1..Len(l)
  BY LenProperties DEF IsList
<1>2. l \in Seq(Range(l) \cup {x}) /\ x \in Range(l) \cup {x}
  <2>1. Range(l) \subseteq Range(l) \cup {x}
    OBVIOUS
  <2> QED BY <2>1, SeqMonotonic DEF IsList
<1>3. /\ m \in Seq(Range(l) \cup {x}) /\ Len(m) = Len(l) + 1
      /\ \A i \in 1..Len(l) : m[i] = l[i]
      /\ m[Len(l) + 1] = x
  BY <1>2, AppendProperties
<1> HIDE DEF m
<1>4. DOMAIN m = 1..(Len(l) + 1)
  BY <1>3, LenProperties
<1>5. m \in [1..(Len(l) + 1) -> Range(m)]
  <2>1. m = [i \in DOMAIN m |-> m[i]]
    BY <1>3, LenProperties
  <2> QED BY <1>4, <2>1 DEF Range
<1>6. IsList(m)
  <2> PICK n \in Nat : n = Len(l) + 1
    BY <1>1
  <2> QED
    BY <1>5, FunctionIsList
<1> QED
  BY <1>1, <1>3, <1>4, <1>6 DEF m

\* One order's row changes; it may lose its key.
LEMMA OrderStep ==
    ASSUME CartInv, MayEnd, UNCHANGED <<basket, goods, zoneRows, book, pageOf, shopEdits>>,
           NEW i \in DOMAIN bought, NEW x, bought' = [bought EXCEPT ![i] = x],
           OrderOk(x), x.key \in {bought[i].key, NoCheckoutKey}
    PROVE  CartInv'
<1>1. /\ IsList(bought)' /\ DOMAIN bought' = DOMAIN bought
      /\ bought'[i] = x /\ \A j \in DOMAIN bought \ {i} : bought'[j] = bought[j]
  BY ListReplaced DEF CartInv, CartShape
<1>2. \A s \in Visits : RequestOk(ask[s])'
  <2> SUFFICES ASSUME NEW s \in Visits PROVE RequestOk(ask[s])'
    OBVIOUS
  <2> PICK y : y = ask'[s]
    OBVIOUS
  <2>1. RequestOk(y)
    BY RequestsEnd
  <2>2. \A j \in DOMAIN bought : bought'[j].key \in {bought[j].key, NoCheckoutKey}
    BY <1>1
  <2>3. RequestOk(y)'
    BY <1>1, <2>1, <2>2, RequestsAfterOrder
  <2> QED
    BY <2>3
<1>3. OneTransaction'
  BY OneTransactionStays
<1>4. PagesCurrent'
  BY PagesStay DEF CartInv
<1>5. \A j \in DOMAIN bought' : OrderOk(bought[j])'
  <2> SUFFICES ASSUME NEW j \in DOMAIN bought' PROVE OrderOk(bought[j])'
    OBVIOUS
  <2> PICK o : o = bought'[j]
    OBVIOUS
  <2>1. OrderOk(o)
    BY <1>1 DEF CartInv
  <2>2. OrderOk(o)'
    BY <2>1, OrdersStay
  <2> QED
    BY <2>2
<1>6. OneOrderPerKey'
  BY <1>1 DEF CartInv, OneOrderPerKey
<1>7. ask' = [r \in Visits |-> ask'[r]]
  BY DEF MayEnd, CartInv, CartShape
<1>8. CartShape'
  BY <1>1, <1>7 DEF CartInv, CartShape
<1> QED
  BY <1>2, <1>3, <1>4, <1>5, <1>6, <1>8 DEF CartInv

-----------------------------------------------------------------------------
(* The requests' steps that write nothing but where they are.              *)

LEMMA EndStep == ASSUME CartInv, NEW r \in Visits, ends(r), reads PROVE CartInv'
<1> PICK x : x = NoAsk
  OBVIOUS
<1>1. RequestOk(x) /\ x.pc \notin Transaction
  BY NoAskOk DEF NoAsk, Transaction
<1>2. ask' = [ask EXCEPT ![r] = x]
  BY DEF ends
<1> QED
  BY <1>1, <1>2, ReadStep DEF reads

LEMMA LandStep ==
    ASSUME CartInv, NEW r \in Visits, NEW o \in DOMAIN bought, lands(r, o), reads,
           bought[o].key \in {ask[r].in.key, NoCheckoutKey}
    PROVE  CartInv'
<1> PICK x : x = [NoAsk EXCEPT !.pc = "landed", !.in.key = ask[r].in.key, !.order = o]
  OBVIOUS
<1>1. /\ x = [f \in AskFields |-> x[f]]
      /\ x.pc = "landed" /\ x.order = o /\ x.in.key = ask[r].in.key /\ x.in.kind = "none"
      /\ x.items = NoItems /\ x.prices = NoItems /\ x.zone = NoZone /\ x.active = FALSE /\ x.known = {}
  BY DEF NoAsk, AskFields
<1>2. NoItems \in Quantities /\ NoItems \in [CartVariants -> Nat] /\ NoZone \in ZoneRow
  <2>1. NoAsk.items = NoItems /\ NoAsk.prices = NoItems /\ NoAsk.zone = NoZone
    BY DEF NoAsk
  <2> QED
    BY <2>1, NoAskOk DEF RequestOk
<1>3. RequestOk(x)
  BY <1>1, <1>2 DEF RequestOk, ReadUnedited, Transaction
<1>4. ask' = [ask EXCEPT ![r] = x] /\ x.pc \notin Transaction
  BY <1>1 DEF lands, Transaction
<1> QED
  BY <1>3, <1>4, ReadStep DEF reads

\* A request moves on to a step outside the transaction.
LEMMA MoveStep ==
    ASSUME CartInv, NEW r \in Visits, NEW pc, NEW items \in Quantities, NEW active \in BOOLEAN, reads,
           ask' = [ask EXCEPT ![r] = [ask[r] EXCEPT !.pc = pc, !.items = items, !.active = active]],
           ask[r].pc \notin {"idle", "landed"},
           pc \notin Transaction \cup {"idle", "session", "landed", "empty"}, ask[r].in.kind \in kindsAt(pc)
    PROVE  CartInv'
<1> PICK x : x = [ask[r] EXCEPT !.pc = pc, !.items = items, !.active = active]
  OBVIOUS
<1>1. RequestOk(ask[r])
  BY DEF CartInv
<1>2. /\ x = [f \in AskFields |-> x[f]]
      /\ x.pc = pc /\ x.items = items /\ x.active = active /\ x.in = ask[r].in
      /\ x.prices = ask[r].prices /\ x.zone = ask[r].zone /\ x.known = ask[r].known
  BY <1>1 DEF RequestOk, AskFields
<1>3. RequestOk(x)
  BY <1>1, <1>2 DEF RequestOk, ReadUnedited, Transaction
<1>4. ask' = [ask EXCEPT ![r] = x] /\ x.pc \notin Transaction
  BY <1>2
<1> QED
  BY <1>3, <1>4, ReadStep DEF reads

\* A submit is told that its cart is empty.
LEMMA EmptyStep ==
    ASSUME CartInv, NEW r \in Visits, NEW err \in BOOLEAN, reads, ask[r].pc = "lookup",
           ask' = [ask EXCEPT ![r].pc = "empty", ![r].err = err],
           ~err => withKey(ask[r].in.key) = {}
    PROVE  CartInv'
<1> PICK x : x = [ask[r] EXCEPT !.pc = "empty", !.err = err]
  OBVIOUS
<1>1. RequestOk(ask[r]) /\ ask = [s \in Visits |-> ask[s]]
  BY DEF CartInv, CartShape
<1>2. /\ x = [f \in AskFields |-> x[f]]
      /\ x.pc = "empty" /\ x.err = err /\ x.items = ask[r].items /\ x.active = ask[r].active
      /\ x.in = ask[r].in /\ x.prices = ask[r].prices /\ x.zone = ask[r].zone /\ x.known = ask[r].known
  BY <1>1 DEF RequestOk, AskFields
<1>3. ask[r].in \in VisitInputs /\ ask[r].in.kind \in kindsAt("empty")
  BY <1>1, KindsThere DEF RequestOk, kindsAt
<1>4. RequestOk(x)
  BY <1>1, <1>2, <1>3 DEF RequestOk, ReadUnedited, Transaction
<1>5. ask' = [ask EXCEPT ![r] = x] /\ x.pc \notin Transaction
  BY <1>1, <1>2 DEF Transaction
<1> QED
  BY <1>4, <1>5, ReadStep DEF reads

\* What a request that is under way carries.
LEMMA AskFacts ==
    ASSUME CartInv, NEW r \in Visits, ask[r].pc \notin {"idle", "landed"}
    PROVE  /\ ask[r] = [f \in AskFields |-> ask[r][f]]
           /\ ask[r].items \in Quantities /\ ask[r].active \in BOOLEAN
           /\ ask[r].in \in VisitInputs /\ ask[r].in.kind \in kindsAt(ask[r].pc)
BY DEF CartInv, RequestOk

\* The same with less to say of what stays.
LEMMA GoStep ==
    ASSUME CartInv, NEW r \in Visits, NEW pc, goesTo(r, pc), reads, ask[r].pc \notin {"idle", "landed"},
           pc \notin Transaction \cup {"idle", "session", "landed", "empty"}, ask[r].in.kind \in kindsAt(pc)
    PROVE  CartInv'
<1> DEFINE items == ask[r].items
           active == ask[r].active
<1>1. ask[r] = [f \in AskFields |-> ask[r][f]] /\ items \in Quantities /\ active \in BOOLEAN
  BY AskFacts
<1>2. [ask[r] EXCEPT !.pc = pc] = [ask[r] EXCEPT !.pc = pc, !.items = items, !.active = active]
  BY <1>1 DEF AskFields
<1>3. ask' = [ask EXCEPT ![r] = [ask[r] EXCEPT !.pc = pc, !.items = items, !.active = active]]
  BY <1>2 DEF goesTo, CartInv, CartShape
<1> HIDE DEF items, active
<1> QED
  BY <1>1, <1>3, MoveStep

LEMMA FirstSteps ==
    ASSUME NEW in \in VisitInputs
    PROVE  /\ in.kind \in kindsAt(firstStep[in.kind])
           /\ firstStep[in.kind] \in {"check", "list", "merge", "zoneGet"}
<1>1. in.kind \in {"add", "buy", "adjust", "submit", "order", "zoneUpdate", "zoneToggle"}
  BY InputKinds
<1>2. /\ firstStep["add"] = "check" /\ firstStep["buy"] = "list" /\ firstStep["adjust"] = "list"
      /\ firstStep["submit"] = "list" /\ firstStep["order"] = "merge"
      /\ firstStep["zoneUpdate"] = "zoneGet" /\ firstStep["zoneToggle"] = "zoneGet"
  BY DEF firstStep
<1> QED
  BY <1>1, <1>2, KindsThere

LEMMA ArriveStep ==
    ASSUME CartInv, NEW r \in Visits, NEW in \in VisitInputs, arrive(r, in) PROVE CartInv'
<1> DEFINE known == IF in.kind \in {"submit", "order"} THEN withKey(in.key) ELSE {}
<1> PICK x : x = [NoAsk EXCEPT !.pc = firstStep[in.kind], !.in = in, !.known = known]
  OBVIOUS
<1>1. /\ x = [f \in AskFields |-> x[f]]
      /\ x.pc = firstStep[in.kind] /\ x.in = in /\ x.known = known
      /\ x.items = NoItems /\ x.prices = NoItems /\ x.zone = NoZone /\ x.active = FALSE
  BY DEF NoAsk, AskFields
<1>2. NoItems \in Quantities /\ NoItems \in [CartVariants -> Nat] /\ NoZone \in ZoneRow
  <2>1. NoAsk.items = NoItems /\ NoAsk.prices = NoItems /\ NoAsk.zone = NoZone
    BY DEF NoAsk
  <2> QED
    BY <2>1, NoAskOk DEF RequestOk
<1>3. known \subseteq DOMAIN bought
  BY DEF withKey
<1>4. in.kind = "submit" => pageOf[in.key].shown
  BY DEF arrive
<1> HIDE DEF known
<1>5. RequestOk(x)
  BY <1>1, <1>2, <1>3, <1>4, FirstSteps DEF RequestOk, ReadUnedited, Transaction
<1>6. ask' = [ask EXCEPT ![r] = x] /\ UNCHANGED <<basket, goods, zoneRows, book, bought, pageOf, shopEdits>>
  BY DEF arrive, known
<1>7. x.pc \notin Transaction
  BY <1>1, FirstSteps DEF Transaction
<1> QED
  BY <1>5, <1>6, <1>7, ReadStep

LEMMA ListStep == ASSUME CartInv, NEW r \in Visits, listCart(r) PROVE CartInv'
<1>1. ask[r].pc = "list" /\ reads
  BY DEF listCart
<1>2. ask[r].in.kind \in {"buy", "adjust", "submit"} /\ ask[r] = [f \in AskFields |-> ask[r][f]]
      /\ ask[r].active \in BOOLEAN
  BY <1>1, AskFacts, KindsThere
<1>3. CASE ends(r)
  BY <1>1, <1>3, EndStep
<1>4. CASE ~ends(r)
  <2> DEFINE in == ask[r].in
             pc == CASE in.kind = "buy" -> "check"
                     [] in.kind = "adjust" -> "setQty"
                     [] in.kind = "submit" -> IF itemsOf(basket) = {} THEN "lookup" ELSE "lock"
             active == ask[r].active
  <2>1. ask' = [ask EXCEPT ![r].items = basket, ![r].pc = pc]
    BY <1>4 DEF listCart
  <2>2. /\ pc \in {"check", "setQty", "lookup", "lock"} /\ in.kind \in kindsAt(pc)
    BY <1>2, KindsThere
  <2> HIDE DEF pc
  <2>3. ask' = [ask EXCEPT ![r] = [ask[r] EXCEPT !.pc = pc, !.items = basket, !.active = active]]
    BY <1>2, <2>1 DEF AskFields, CartInv, CartShape
  <2>4. basket \in Quantities
    BY DEF CartInv, CartShape
  <2> HIDE DEF active
  <2>5. active \in BOOLEAN
    BY <1>2 DEF active
  <2> QED
    BY <1>1, <2>2, <2>3, <2>4, <2>5, MoveStep DEF Transaction
<1> QED
  BY <1>3, <1>4

LEMMA SmallSteps ==
    ASSUME CartInv, NEW r \in Visits, addCheck(r) \/ lookupOrder(r) \/ zoneGet(r) \/ requestFails(r) \/ openSession(r)
    PROVE  CartInv'
<1>1. CASE addCheck(r)
  <2>1. ask[r].pc = "check" /\ reads /\ (goesTo(r, "upsert") \/ ends(r))
    BY <1>1 DEF addCheck
  <2>2. ask[r].in.kind \in kindsAt("upsert")
    BY <2>1, AskFacts, KindsThere
  <2> QED
    BY <2>1, <2>2, EndStep, GoStep DEF Transaction
<1>2. CASE lookupOrder(r)
  <2>1. ask[r].pc = "lookup" /\ reads
    BY <1>2 DEF lookupOrder
  <2>2. PICK a \in findOrderByCheckoutKey(ask[r].in.key) :
            \/ a.order # 0 /\ lands(r, a.order)
            \/ a.order = 0 /\ ask' = [ask EXCEPT ![r].pc = "empty", ![r].err = a.err]
    BY <1>2 DEF lookupOrder
  <2>3. \/ a.order = 0 /\ a.err = TRUE
        \/ a.order = 0 /\ a.err = FALSE /\ withKey(ask[r].in.key) = {}
        \/ a.order \in withKey(ask[r].in.key)
    BY DEF findOrderByCheckoutKey, answer
  <2>4. CASE a.order # 0 /\ lands(r, a.order)
    <3>1. a.order \in DOMAIN bought /\ bought[a.order].key = ask[r].in.key
      BY <2>3, <2>4 DEF withKey
    <3> QED
      BY <2>1, <2>4, <3>1, LandStep
  <2>5. CASE a.order = 0 /\ ask' = [ask EXCEPT ![r].pc = "empty", ![r].err = a.err]
    <3>1. 0 \notin DOMAIN bought
      BY DEF CartInv, CartShape, IsList
    <3>2. a.err \in BOOLEAN /\ (~a.err => withKey(ask[r].in.key) = {})
      BY <2>3, <2>5, <3>1 DEF withKey
    <3> QED
      BY <2>1, <2>5, <3>2, EmptyStep
  <2> QED
    BY <2>2, <2>4, <2>5
<1>3. CASE zoneGet(r)
  <2> DEFINE row == zoneRows[ask[r].in.zone]
             active == row.active
             items == ask[r].items
  <2>1. ask[r].pc = "zoneGet" /\ reads
    BY <1>3 DEF zoneGet
  <2>2. /\ ask[r].in \in VisitInputs /\ ask[r].in.kind \in {"zoneUpdate", "zoneToggle"}
        /\ ask[r] = [f \in AskFields |-> ask[r][f]] /\ items \in Quantities
    BY <2>1, AskFacts, KindsThere
  <2>3. active \in BOOLEAN
    <3>1. ask[r].in.zone \in ZoneIds
      BY <2>2, InputKinds
    <3> QED
      BY <3>1 DEF CartInv, CartShape, ZoneRow
  <2>4. CASE ask' = [ask EXCEPT ![r].active = active, ![r].pc = "zoneWrite"]
    <3> HIDE DEF active, items
    <3>1. ask' = [ask EXCEPT ![r] = [ask[r] EXCEPT !.pc = "zoneWrite", !.items = items, !.active = active]]
      BY <2>2, <2>4 DEF AskFields, items, CartInv, CartShape
    <3>2. ask[r].in.kind \in kindsAt("zoneWrite")
      BY <2>2, KindsThere
    <3> QED
      BY <2>1, <2>2, <2>3, <3>1, <3>2, MoveStep DEF Transaction
  <2> QED
    BY <1>3, <2>1, <2>4, EndStep DEF zoneGet
<1>4. CASE requestFails(r)
  BY <1>4, EndStep DEF requestFails
<1>5. CASE openSession(r)
  <2>1. ask[r].pc = "session" /\ lands(r, ask[r].order) /\ reads
    BY <1>5 DEF openSession
  <2>2. ask[r].order \in DOMAIN bought /\ bought[ask[r].order].key \in {ask[r].in.key, NoCheckoutKey}
    BY <2>1 DEF CartInv, RequestOk
  <2> QED
    BY <2>1, <2>2, LandStep
<1> QED
  BY <1>1, <1>2, <1>3, <1>4, <1>5

\* The lines of an order of the app, folded.
LEMMA Merged ==
    ASSUME NEW lines \in Seq(CartVariants \X Nat)
    PROVE  mergeItemQuantities(lines) \in [CartVariants -> Nat]
<1>1. Len(lines) \in Nat /\ DOMAIN lines = 1..Len(lines) /\ \A i \in DOMAIN lines : lines[i] \in CartVariants \X Nat
  BY LenProperties
<1>2. IsFiniteSet(DOMAIN lines)
  BY <1>1, FS_Interval
<1>3. ASSUME NEW v \in CartVariants
      PROVE  SumFunctionOnSet([i \in DOMAIN lines |-> IF lines[i][1] = v THEN lines[i][2] ELSE 0], DOMAIN lines) \in Nat
  <2> DEFINE f == [i \in DOMAIN lines |-> IF lines[i][1] = v THEN lines[i][2] ELSE 0]
  <2>1. \A i \in DOMAIN lines : f[i] \in Nat
    BY <1>1
  <2> HIDE DEF f
  <2>2. SumFunctionOnSet(f, DOMAIN lines) \in Nat
    BY <1>2, <2>1, SumNat
  <2> QED
    BY <2>2 DEF f
<1> QED
  BY <1>3 DEF mergeItemQuantities

LEMMA MergeStep == ASSUME CartInv, NEW r \in Visits, orderItems(r) PROVE CartInv'
<1>1. ask[r].pc = "merge" /\ reads
  BY DEF orderItems
<1> DEFINE items == mergeItemQuantities(ask[r].in.lines)
           active == ask[r].active
<1>2. /\ ask[r].in \in VisitInputs /\ ask[r].in.kind = "order"
      /\ ask[r] = [f \in AskFields |-> ask[r][f]] /\ active \in BOOLEAN
  BY <1>1, AskFacts, KindsThere
<1>3. items \in [CartVariants -> Nat]
  BY <1>2, InputKinds, Merged
<1> HIDE DEF items, active
<1>4. CASE ends(r)
  BY <1>1, <1>4, EndStep
<1>5. CASE /\ ~\E v \in CartVariants : items[v] > MaxCartQty
           /\ ask' = [ask EXCEPT ![r].items = items, ![r].pc = "lock"]
  <2>1. items \in Quantities
    BY <1>3, <1>5, CartSizes DEF Quantities
  <2>2. ask' = [ask EXCEPT ![r] = [ask[r] EXCEPT !.pc = "lock", !.items = items, !.active = active]]
    BY <1>2, <1>5 DEF AskFields, active, CartInv, CartShape
  <2>3. ask[r].in.kind \in kindsAt("lock")
    BY <1>2, KindsThere
  <2> QED
    BY <1>1, <1>2, <2>1, <2>2, <2>3, MoveStep DEF Transaction
<1> QED
  BY <1>4, <1>5 DEF orderItems, items

-----------------------------------------------------------------------------
(* The transaction.                                                        *)

LEMMA OpenStep == ASSUME CartInv, NEW r \in Visits, openOrder(r) PROVE CartInv'
<1> DEFINE in == ask[r].in
           zone == IF in.delivery THEN resolveDeliveryZoneTx(in.zone) ELSE NoZone
<1>1. /\ ask[r].pc = "lock" /\ reads /\ RequestOk(ask[r])
      /\ \A s \in Visits : ~inTransaction(s)
  BY DEF openOrder, CartInv
<1>2. /\ in \in VisitInputs /\ in.kind \in {"submit", "order"}
      /\ ask[r] = [f \in AskFields |-> ask[r][f]]
  BY <1>1, AskFacts, KindsThere
<1>3. CASE \E o \in withKey(in.key) : lands(r, o)
  <2> PICK o \in withKey(in.key) : lands(r, o)
    BY <1>3
  <2>1. o \in DOMAIN bought /\ bought[o].key = in.key
    BY DEF withKey
  <2> QED
    BY <1>1, <2>1, LandStep
<1>4. CASE ends(r)
  BY <1>1, <1>4, EndStep
<1>5. CASE /\ withKey(in.key) = {}
           /\ in.delivery => ~zoneRefused(in.zone)
           /\ ask' = [ask EXCEPT ![r].pc = "prices", ![r].zone = zone]
  <2>1. zone \in ZoneRow
    <3>1. NoZone \in ZoneRow
      BY DEF NoZone, ZoneRow
    <3>2. CASE in.delivery /\ in.zone # ""
      <4>1. in.zone \in ZoneIds
        BY <1>5, <3>2 DEF zoneRefused, activeZones
      <4> QED
        BY <3>2, <4>1 DEF resolveDeliveryZoneTx, CartInv, CartShape
    <3>3. CASE ~(in.delivery /\ in.zone # "")
      BY <3>1, <3>3 DEF resolveDeliveryZoneTx
    <3> QED
      BY <3>2, <3>3
  <2> PICK x : x = [ask[r] EXCEPT !.pc = "prices", !.zone = zone]
    OBVIOUS
  <2>2. /\ x = [f \in AskFields |-> x[f]]
        /\ x.pc = "prices" /\ x.zone = zone /\ x.in = in
        /\ x.items = ask[r].items /\ x.prices = ask[r].prices /\ x.active = ask[r].active /\ x.known = ask[r].known
    BY <1>2 DEF AskFields
  <2>3. x.in.kind \in kindsAt(x.pc)
    BY <1>2, <2>2, KindsThere
  <2>4. ReadUnedited(x)
    BY <1>5, <2>2 DEF ReadUnedited
  <2> HIDE DEF zone
  <2>5. RequestOk(x)
    BY <1>1, <1>2, <1>5, <2>1, <2>2, <2>3, <2>4 DEF RequestOk
  <2>6. ask' = [ask EXCEPT ![r] = x]
    BY <1>5 DEF CartInv, CartShape
  <2> QED
    BY <1>1, <2>5, <2>6, ReadStep DEF reads
<1> QED
  BY <1>3, <1>4, <1>5 DEF openOrder

LEMMA PricesStep == ASSUME CartInv, NEW r \in Visits, loadVariantSnapshots(r) PROVE CartInv'
<1>1. ask[r].pc = "prices" /\ reads /\ RequestOk(ask[r]) /\ ask[r] = [f \in AskFields |-> ask[r][f]]
  BY DEF loadVariantSnapshots, CartInv, RequestOk
<1>2. CASE ends(r)
  BY <1>1, <1>2, EndStep
<1>3. CASE ask' = [ask EXCEPT ![r].prices = currentPrices, ![r].pc = "insert"]
  <2>1. currentPrices \in [CartVariants -> Nat]
    BY DEF currentPrices, CartInv, CartShape
  <2> PICK x : x = [ask[r] EXCEPT !.prices = currentPrices, !.pc = "insert"]
    OBVIOUS
  <2>2. /\ x = [f \in AskFields |-> x[f]]
        /\ x.pc = "insert" /\ x.prices = currentPrices /\ x.in = ask[r].in
        /\ x.items = ask[r].items /\ x.zone = ask[r].zone /\ x.active = ask[r].active /\ x.known = ask[r].known
    BY <1>1 DEF AskFields
  <2>3. x.in.kind \in kindsAt(x.pc) /\ x.in \in VisitInputs
    BY <1>1, <2>2, AskFacts, KindsThere
  <2>4. ReadUnedited(x)
    BY <1>1, <2>2 DEF ReadUnedited, RequestOk, Transaction
  <2>5. RequestOk(x)
    BY <1>1, <2>1, <2>2, <2>3, <2>4 DEF RequestOk, Transaction
  <2>6. ask' = [ask EXCEPT ![r] = x] /\ inTransaction(r)
    BY <1>1, <1>3 DEF CartInv, CartShape, inTransaction
  <2> QED
    BY <1>1, <2>5, <2>6, ReadStep DEF reads
<1> QED
  BY <1>2, <1>3 DEF loadVariantSnapshots

\* What goods cost is a whole number.
LEMMA TotalInt ==
    ASSUME NEW items \in Quantities, NEW prices \in [CartVariants -> Nat]
    PROVE  priceTotal(items, prices) \in Int
<1> DEFINE f == [v \in CartVariants |-> items[v] * prices[v]]
<1>1. \A v \in CartVariants : f[v] \in Int
  BY CartSizes DEF Quantities
<1>2. IsFiniteSet(CartVariants)
  BY Zenon, CartAssumption
<1> HIDE DEF f
<1>3. SumFunctionOnSet(f, CartVariants) \in Int
  BY <1>1, <1>2, SumInt
<1> QED
  BY <1>3 DEF priceTotal, f

\* The cart page's total is a lower bound of every active zone's.
LEMMA CartPageLowest ==
    ASSUME CartInv, NEW total \in Int, NEW z \in activeZones
    PROVE  total + FeeFor(zoneRows[z], total) >= cartPageTotal(total)
<1> DEFINE fees == {FeeFor(zoneRows[y], total) : y \in activeZones}
<1>1. fees \subseteq Nat
  <2>1. \A y \in activeZones : zoneRows[y] \in ZoneRow
    BY DEF activeZones, CartInv, CartShape
  <2> QED
    BY <2>1 DEF FeeFor, ZoneRow
<1>2. FeeFor(zoneRows[z], total) \in fees
  OBVIOUS
<1> HIDE DEF fees
<1>3. \E m \in fees : \A n \in fees : m <= n
  BY <1>1, <1>2, NatLeast
<1>4. Min(fees) \in fees /\ \A n \in fees : Min(fees) <= n
  BY <1>3 DEF Min
<1>5. cartPageTotal(total) = total + Min(fees)
  BY DEF cartPageTotal, fees
<1>6. FeeFor(zoneRows[z], total) \in Nat /\ Min(fees) \in Nat /\ Min(fees) <= FeeFor(zoneRows[z], total)
  BY <1>1, <1>2, <1>4
<1> QED
  BY <1>5, <1>6

\* An order that follows its page, nothing edited between, costs what the
\* page showed for its choice.
LEMMA FreshOrder ==
    ASSUME CartInv, NEW r \in Visits, ask[r].pc = "insert", ask[r].in.delivery => ask[r].in.address \in book,
           NEW o, o = newOrder(r)
    PROVE  OrderOk(o)
<1> DEFINE in == ask[r].in
           items == ask[r].items
           prices == ask[r].prices
           zone == ask[r].zone
           total == priceTotal(items, prices)
           fee == deliveryFee(in.delivery, zone, total)
<1>1. /\ RequestOk(ask[r]) /\ items \in Quantities /\ prices \in [CartVariants -> Nat] /\ ReadUnedited(ask[r])
      /\ in \in VisitInputs /\ in.kind \in {"submit", "order"}
      /\ in.kind = "submit" => in.key \in CheckoutKeys /\ pageOf[in.key].shown
      /\ in.key \in CheckoutKeys \cup {NoCheckoutKey}
  BY SubmitKey DEF CartInv, RequestOk, Transaction
<1>2. /\ o = [f \in OrderFields |-> o[f]]
      /\ o.items = items /\ o.total = total + fee /\ o.key = in.key
      /\ o.online = in.online /\ o.status = "placed" /\ o.pay = IF in.online THEN "pending" ELSE "none"
      /\ o.zone = IF in.delivery THEN in.zone ELSE ""
      /\ o.address = IF in.delivery THEN in.address ELSE ""
      /\ o.fresh <=> in.kind = "submit" /\ pageOf[in.key].edits = shopEdits /\ items = basket
  BY DEF newOrder, OrderFields
<1>3. \A v \in CartVariants : o.items[v] <= MaxCartQty
  <2>1. \A q \in 0..MaxCartQty : q <= MaxCartQty
    BY CartSizes
  <2>2. \A v \in CartVariants : items[v] \in 0..MaxCartQty
    BY <1>1 DEF Quantities
  <2> HIDE DEF items
  <2> QED
    BY <1>2, <2>1, <2>2
<1>4. ASSUME o.fresh
      PROVE  pageOf[o.key].shown /\ o.total = shownTotal(o) /\ (o.address # "" => o.total >= pageOf[o.key].cart)
  <2> HIDE DEF in, items, prices, zone, total, fee
  <2>1. /\ pageOf[in.key].shown /\ pageOf[in.key] = pageNow
        /\ zone = IF in.delivery THEN resolveDeliveryZoneTx(in.zone) ELSE NoZone
        /\ in.delivery => ~zoneRefused(in.zone)
        /\ prices = currentPrices /\ items = basket
    BY <1>1, <1>2, <1>4 DEF CartInv, PagesCurrent, ReadUnedited, Transaction, in, items, prices, zone
  <2>2. total = priceTotal(basket, currentPrices)
    BY <2>1 DEF total
  <2>3. /\ pageNow.pickup = total /\ pageNow.flat = total + FlatFee
        /\ pageNow.zones = [z \in activeZones |-> total + FeeFor(zoneRows[z], total)]
        /\ pageNow.cart = cartPageTotal(total)
    BY <2>2 DEF pageNow, checkoutZones
  <2>4. total \in Int
    BY <1>1, TotalInt DEF total
  <2>5. CASE ~in.delivery
    <3>1. o.address = "" /\ fee = 0
      BY <1>2, <2>5 DEF fee, deliveryFee
    <3>2. shownTotal(o) = pageNow.pickup
      BY <1>2, <2>1, <3>1 DEF shownTotal
    <3>3. o.total = total
      <4>1. o.total = total + fee
        BY <1>2
      <4>2. fee = 0
        BY <3>1
      <4> QED BY <2>4, <4>1, <4>2
    <3>4. o.key = in.key
      BY <1>2
    <3> QED
      BY <2>1, <2>3, <3>1, <3>2, <3>3, <3>4
  <2>6. CASE in.delivery /\ in.zone = ""
    <3>1. in.address # ""
      <4>1. "" \notin AddressIds
        BY Zenon, CartAssumption
      <4> QED
        BY <2>6, <4>1 DEF CartInv, CartShape, in
    <3>2. activeZones = {} /\ fee = FlatFee
      BY <2>1, <2>6 DEF zoneRefused, resolveDeliveryZoneTx, fee, deliveryFee, NoZone
    <3>3. o.address # "" /\ o.zone = "" /\ o.total = total + FlatFee
      BY <1>2, <2>6, <3>1, <3>2
    <3>4. pageNow.cart = total + FlatFee
      BY <2>3, <3>2 DEF cartPageTotal
    <3>5. total + FlatFee \in Int
      BY <2>4, CartSizes
    <3>6. shownTotal(o) = pageNow.flat
      BY <1>2, <2>1, <3>3 DEF shownTotal
    <3>7. o.total >= pageNow.cart
      <4>1. o.total = pageNow.cart
        BY <3>3, <3>4
      <4>2. o.total \in Int
        BY <3>3, <3>5
      <4> QED BY <4>1, <4>2
    <3>8. o.key = in.key
      BY <1>2
    <3> QED
      BY <2>1, <2>3, <3>3, <3>6, <3>7, <3>8, ZenonT(30)
  <2>7. CASE in.delivery /\ in.zone # ""
    <3>1. in.address # ""
      <4>1. "" \notin AddressIds
        BY Zenon, CartAssumption
      <4> QED
        BY <2>7, <4>1 DEF CartInv, CartShape, in
    <3>2. in.zone \in activeZones /\ zone = zoneRows[in.zone]
      BY <2>1, <2>7 DEF zoneRefused, resolveDeliveryZoneTx
    <3>3. zone.stored
      BY <3>2 DEF activeZones, CartInv, CartShape
    <3>4. fee = FeeFor(zoneRows[in.zone], total)
      BY <2>7, <3>2, <3>3 DEF fee, deliveryFee
    <3>5. o.address # "" /\ o.zone = in.zone /\ o.total = total + FeeFor(zoneRows[in.zone], total)
      BY <1>2, <2>7, <3>1, <3>4
    <3>6. o.total >= cartPageTotal(total)
      BY <2>4, <3>2, <3>5, CartPageLowest
    <3>7. shownTotal(o) = pageNow.zones[in.zone]
      BY <1>2, <2>1, <2>7, <3>5 DEF shownTotal
    <3>8. pageNow.zones[in.zone] = o.total
      BY <2>3, <3>2, <3>5
    <3>9. o.key = in.key
      BY <1>2
    <3>10. pageNow.cart = cartPageTotal(total)
      BY <2>3
    <3> QED
      BY <2>1, <3>6, <3>7, <3>8, <3>9, <3>10
  <2> QED
    BY <2>5, <2>6, <2>7
<1>5. o.online /\ o.status = "placed" /\ o.pay # "paid" => o.pay \in {"pending", "failed"}
  BY <1>2
<1> QED
  BY <1>1, <1>2, <1>3, <1>4, <1>5 DEF OrderOk

LEMMA InsertStep == ASSUME CartInv, NEW r \in Visits, insertOrder(r) PROVE CartInv'
<1> DEFINE in == ask[r].in
           n == Len(bought) + 1
<1> PICK o : o = newOrder(r)
  OBVIOUS
<1>1. /\ ask[r].pc = "insert" /\ RequestOk(ask[r]) /\ OrderOk(o)
      /\ bought' = Append(bought, o) /\ UNCHANGED <<goods, zoneRows, book, pageOf>>
  BY FreshOrder DEF insertOrder, CartInv
<1>2. /\ IsList(bought)' /\ Len(bought) \in Nat /\ DOMAIN bought = 1..Len(bought)
      /\ DOMAIN bought' = 1..n
      /\ bought'[n] = o /\ \A j \in DOMAIN bought : bought'[j] = bought[j]
  <2> DEFINE more == bought'
  <2>1. IsList(bought) /\ more = Append(bought, o)
    BY <1>1 DEF CartInv, CartShape
  <2> HIDE DEF more
  <2>2. /\ IsList(more) /\ Len(bought) \in Nat /\ DOMAIN bought = 1..Len(bought)
        /\ DOMAIN more = 1..(Len(bought) + 1)
        /\ more[Len(bought) + 1] = o /\ \A j \in DOMAIN bought : more[j] = bought[j]
    BY <2>1, ListAppended
  <2> QED
    BY <2>2 DEF more, IsList
<1>3. DOMAIN bought' = DOMAIN bought \cup {n} /\ n \notin DOMAIN bought
  BY <1>2
<1>4. /\ in \in VisitInputs /\ in.kind \in {"submit", "order"} /\ withKey(in.key) = {}
      /\ in.kind = "submit" => pageOf[in.key].shown
      /\ ask[r] = [f \in AskFields |-> ask[r][f]]
  BY <1>1, SubmitKey DEF RequestOk, Transaction
<1>5. o.key = in.key
  BY DEF newOrder
<1> HIDE DEF n
<1> DEFINE Follows(y) ==
        /\ ask' = [ask EXCEPT ![r] = y] /\ y.pc \in {"session", "landed"}
        /\ y = [f \in AskFields |-> y[f]]
        /\ y.order = n /\ y.in.key = in.key
        /\ y.items \in Quantities /\ y.prices \in [CartVariants -> Nat]
        /\ y.zone \in ZoneRow /\ y.active \in BOOLEAN /\ y.known \subseteq DOMAIN bought
        /\ y.pc = "session" => y.in = in
        /\ y.pc = "landed" => y.in.kind = "none"
<1>17. \E y : Follows(y)
  <2>1. CASE ask' = [ask EXCEPT ![r].pc = "session", ![r].order = n]
    <3> PICK y : y = [ask[r] EXCEPT !.pc = "session", !.order = n]
      OBVIOUS
    <3>1. /\ y = [f \in AskFields |-> y[f]]
          /\ y.pc = "session" /\ y.order = n /\ y.in = in /\ y.items = ask[r].items /\ y.prices = ask[r].prices
          /\ y.zone = ask[r].zone /\ y.active = ask[r].active /\ y.known = ask[r].known
      BY <1>4 DEF AskFields
    <3>2. ask' = [ask EXCEPT ![r] = y]
      BY <2>1 DEF CartInv, CartShape
    <3>3. Follows(y)
      BY <1>1, <3>1, <3>2 DEF RequestOk
    <3> HIDE DEF Follows
    <3> QED
      BY <3>3
  <2>2. CASE lands(r, n)
    <3> PICK y : y = [NoAsk EXCEPT !.pc = "landed", !.in.key = in.key, !.order = n]
      OBVIOUS
    <3>1. /\ y = [f \in AskFields |-> y[f]]
          /\ y.pc = "landed" /\ y.order = n /\ y.in.key = in.key /\ y.in.kind = "none"
          /\ y.items = NoAsk.items /\ y.prices = NoAsk.prices
          /\ y.zone = NoAsk.zone /\ y.active = NoAsk.active /\ y.known = NoAsk.known
      BY DEF NoAsk, AskFields
    <3>2. ask' = [ask EXCEPT ![r] = y]
      BY <2>2 DEF lands
    <3>4. y.pc \in {"session", "landed"} /\ (y.pc = "session" => y.in = in) /\ (y.pc = "landed" => y.in.kind = "none")
      BY <3>1
    <3>3. /\ y.items \in Quantities /\ y.prices \in [CartVariants -> Nat]
          /\ y.zone \in ZoneRow /\ y.active \in BOOLEAN /\ y.known \subseteq DOMAIN bought
      BY <3>1, NoAskOk DEF RequestOk
    <3>5. y = [f \in AskFields |-> y[f]] /\ y.order = n /\ y.in.key = in.key
      BY <3>1
    <3>6. Follows(y)
      BY <3>2, <3>3, <3>4, <3>5
    <3> HIDE DEF Follows
    <3> QED
      BY <3>6
  <2>3. ask' = [ask EXCEPT ![r].pc = "session", ![r].order = n] \/ lands(r, n)
    BY DEF insertOrder, n
  <2> HIDE DEF Follows
  <2> QED
    BY <2>1, <2>2, <2>3
<1>6. PICK y : Follows(y)
  BY <1>17
<1>7. ask'[r] = y /\ (\A s \in Visits \ {r} : ask'[s] = ask[s]) /\ ask' = [s \in Visits |-> ask'[s]]
  BY <1>6 DEF CartInv, CartShape
<1>8. \A s \in Visits \ {r} : ask[s].pc \notin Transaction
  BY <1>1 DEF CartInv, OneTransaction, inTransaction, Transaction
<1>9. \A s \in Visits : RequestOk(ask[s])'
  <2>1. RequestOk(y)'
    <3>1. y.pc \notin {"idle", "landed"} => y.in \in VisitInputs /\ y.in.kind \in kindsAt(y.pc)
      BY <1>4, <1>6, KindsThere
    <3>2. y.in.kind = "submit" => pageOf'[y.in.key].shown
      BY <1>1, <1>4, <1>6
    <3>3. y.order \in DOMAIN bought' /\ bought'[y.order].key = y.in.key /\ y.known \subseteq DOMAIN bought'
      BY <1>2, <1>3, <1>5, <1>6
    <3>4. y.pc \notin Transaction \cup {"empty"}
      BY <1>6 DEF Transaction
    <3> QED
      BY <1>6, <3>1, <3>2, <3>3, <3>4 DEF RequestOk, ReadUnedited
  <2>2. ASSUME NEW s \in Visits \ {r} PROVE RequestOk(ask[s])'
    <3> PICK x : x = ask[s]
      OBVIOUS
    <3>1. RequestOk(x) /\ x.pc \notin Transaction
      BY <1>8 DEF CartInv
    <3>2. /\ DOMAIN bought \subseteq DOMAIN bought'
          /\ \A i \in DOMAIN bought : bought'[i].key \in {bought[i].key, NoCheckoutKey}
      BY <1>2, <1>3
    <3>3. RequestOk(x)'
      BY <1>1, <3>1, <3>2, RequestsAfterOrder
    <3> QED
      BY <1>7, <3>3
  <2>3. RequestOk(ask[r])'
    BY <1>7, <2>1
  <2> QED
    BY <2>2, <2>3
<1>10. OneTransaction'
  BY <1>6, <1>7, <1>8 DEF OneTransaction, inTransaction, Transaction
<1>11. basket' \in Quantities
  BY CartSizes DEF insertOrder, clearCartLinesTx, Quantities, CartInv, CartShape
<1>12. shopEdits \in Nat /\ shopEdits' = shopEdits + (IF basket' = basket THEN 0 ELSE 1)
  BY DEF insertOrder, CartInv, CartShape
<1>13. PagesCurrent' /\ shopEdits' \in Nat
  <2>1. CASE basket' = basket
    <3>1. shopEdits' = shopEdits
      BY <1>12, <2>1
    <3> QED
      BY <1>1, <1>12, <2>1, <3>1, PagesStay DEF CartInv
  <2>2. CASE basket' # basket
    BY <1>1, <1>12, <2>2, PagesEdited DEF CartInv
  <2> QED
    BY <2>1, <2>2
<1>14. \A i \in DOMAIN bought' : OrderOk(bought[i])'
  <2> SUFFICES ASSUME NEW i \in DOMAIN bought' PROVE OrderOk(bought[i])'
    OBVIOUS
  <2> PICK x : x = bought'[i]
    OBVIOUS
  <2>1. OrderOk(x)
    BY <1>1, <1>2, <1>3 DEF CartInv
  <2>2. OrderOk(x)'
    BY <1>1, <2>1, OrdersStay
  <2> QED
    BY <2>2
<1>15. OneOrderPerKey'
  <2>1. \A j \in DOMAIN bought : bought[j].key = in.key => in.key = NoCheckoutKey
    BY <1>4 DEF withKey
  <2> QED
    BY <1>2, <1>3, <1>5, <2>1 DEF CartInv, OneOrderPerKey
<1>16. CartShape'
  BY <1>1, <1>2, <1>7, <1>11, <1>13 DEF CartInv, CartShape
<1> QED
  BY <1>9, <1>10, <1>13, <1>14, <1>15, <1>16 DEF CartInv

-----------------------------------------------------------------------------
(* Pages, orders and edits.                                                *)

LEMMA RequestsSeePages ==
    ASSUME NEW x, RequestOk(x), UNCHANGED <<goods, zoneRows, bought, shopEdits>>,
           x.in.kind = "submit" => pageOf'[x.in.key] = pageOf[x.in.key]
    PROVE  RequestOk(x)'
BY DEF RequestOk, ReadUnedited, resolveDeliveryZoneTx, zoneRefused, activeZones, currentPrices, withKey

LEMMA PageStep == ASSUME CartInv, NEW k \in CheckoutKeys, checkoutForm(k) PROVE CartInv'
<1>1. /\ ~pageOf[k].shown
      /\ UNCHANGED <<basket, goods, zoneRows, book, bought, ask, shopEdits>>
      /\ pageOf' = [pageOf EXCEPT ![k] = pageNow]
  BY DEF checkoutForm, pageNow
<1>2. /\ pageOf' = [j \in CheckoutKeys |-> pageOf'[j]]
      /\ pageOf'[k] = pageNow /\ \A j \in CheckoutKeys \ {k} : pageOf'[j] = pageOf[j]
  BY <1>1 DEF CartInv, CartShape
<1>3. \A s \in Visits : RequestOk(ask[s])'
  <2> SUFFICES ASSUME NEW s \in Visits PROVE RequestOk(ask[s])'
    OBVIOUS
  <2> PICK x : x = ask[s]
    OBVIOUS
  <2>1. RequestOk(x)
    BY DEF CartInv
  <2>2. x.in.kind = "submit" => pageOf'[x.in.key] = pageOf[x.in.key]
    <3> SUFFICES ASSUME x.in.kind = "submit" PROVE pageOf'[x.in.key] = pageOf[x.in.key]
      OBVIOUS
    <3>1. x.in.key # k
      BY <1>1, <2>1 DEF RequestOk
    <3> QED
      BY <1>1, <3>1 DEF CartInv, CartShape
  <2>3. RequestOk(x)'
    BY <1>1, <2>1, <2>2, RequestsSeePages
  <2> QED
    BY <1>1, <2>3
<1>4. PagesCurrent'
  <2>1. pageNow' = pageNow
    BY <1>1, PageNowStays
  <2>2. pageNow.edits = shopEdits /\ shopEdits \in Nat
    BY DEF pageNow, CartInv, CartShape
  <2>3. shopEdits \in 0..shopEdits
    BY <2>2
  <2>4. \A j \in CheckoutKeys : pageOf'[j].shown =>
            pageOf'[j].edits \in 0..shopEdits /\ (pageOf'[j].edits = shopEdits => pageOf'[j] = pageNow)
    BY <1>2, <2>2, <2>3 DEF CartInv, PagesCurrent
  <2> QED
    BY <1>1, <2>1, <2>4 DEF PagesCurrent
<1>5. \A i \in DOMAIN bought' : OrderOk(bought[i])'
  <2> SUFFICES ASSUME NEW i \in DOMAIN bought PROVE OrderOk(bought[i])'
    BY <1>1
  <2> PICK o : o = bought[i]
    OBVIOUS
  <2>1. OrderOk(o)
    BY DEF CartInv
  <2>2. o.fresh /\ o.key # NoCheckoutKey => pageOf'[o.key] = pageOf[o.key]
    BY <1>1, <1>2, <2>1 DEF OrderOk
  <2>3. OrderOk(o)'
    BY <2>1, <2>2 DEF OrderOk, shownTotal
  <2> QED
    BY <1>1, <2>3
<1>6. CartShape' /\ OneTransaction' /\ OneOrderPerKey'
  BY <1>1, <1>2 DEF CartInv, CartShape, OneTransaction, inTransaction, OneOrderPerKey
<1> QED
  BY <1>3, <1>4, <1>5, <1>6 DEF CartInv

\* An order's row with another status or payment is still one.
LEMMA OrderMoves ==
    ASSUME NEW o, OrderOk(o), NEW x, x = [f \in OrderFields |-> x[f]],
           x.items = o.items, x.total = o.total, x.fresh = o.fresh, x.zone = o.zone, x.address = o.address,
           x.key \in {o.key, NoCheckoutKey},
           x.status # "placed" \/ x.pay \in {"paid", "pending", "failed"}
    PROVE  OrderOk(x)
<1>1. x.key # NoCheckoutKey => shownTotal(x) = shownTotal(o)
  BY DEF shownTotal
<1> QED
  BY <1>1 DEF OrderOk

LEMMA OrderSteps ==
    ASSUME CartInv, NEW i \in DOMAIN bought, payRetry(i) \/ cancelOrder(i)
               \/ \E pay \in {"paid", "failed", "cancelled"} : settleOrder(i, pay)
    PROVE  CartInv'
<1> PICK o : o = bought[i]
  OBVIOUS
<1>1. OrderOk(o) /\ o = [f \in OrderFields |-> o[f]]
  BY DEF CartInv, OrderOk
<1>2. UNCHANGED <<basket, goods, zoneRows, book, ask, pageOf, shopEdits>> /\ MayEnd
  BY DEF payRetry, cancelOrder, settleOrder, MayEnd
<1>3. bought = [j \in DOMAIN bought |-> bought[j]]
  BY LenProperties DEF CartInv, CartShape, IsList
<1>4. PICK x : /\ bought' = [bought EXCEPT ![i] = x] /\ x = [f \in OrderFields |-> x[f]]
               /\ x.items = o.items /\ x.total = o.total /\ x.fresh = o.fresh /\ x.zone = o.zone
               /\ x.address = o.address /\ x.key = o.key
               /\ x.status # "placed" \/ x.pay \in {"paid", "pending", "failed"}
  <2> DEFINE Moved(x) ==
               /\ bought' = [bought EXCEPT ![i] = x] /\ x = [f \in OrderFields |-> x[f]]
               /\ x.items = o.items /\ x.total = o.total /\ x.fresh = o.fresh /\ x.zone = o.zone
               /\ x.address = o.address /\ x.key = o.key
               /\ x.status # "placed" \/ x.pay \in {"paid", "pending", "failed"}
  <2> SUFFICES \E x : Moved(x)
    OBVIOUS
  <2>1. CASE payRetry(i)
    <3> PICK x : x = [o EXCEPT !.pay = "pending", !.retried = TRUE]
      OBVIOUS
    <3>1. bought' = [bought EXCEPT ![i] = x]
      BY <1>3, <2>1 DEF payRetry
    <3>2. Moved(x)
      BY <1>1, <3>1 DEF OrderFields
    <3> HIDE DEF Moved
    <3> QED BY <3>2
  <2>2. CASE cancelOrder(i)
    <3> PICK x : x = [o EXCEPT !.status = "cancelled", !.pay = IF @ = "pending" THEN "cancelled" ELSE @]
      OBVIOUS
    <3>1. bought' = [bought EXCEPT ![i] = x]
      BY <1>3, <2>2 DEF cancelOrder
    <3>2. Moved(x)
      BY <1>1, <3>1 DEF OrderFields
    <3> HIDE DEF Moved
    <3> QED BY <3>2
  <2>3. ASSUME NEW pay \in {"paid", "failed", "cancelled"}, settleOrder(i, pay) PROVE \E x : Moved(x)
    <3> PICK x : x = [o EXCEPT !.pay = pay, !.status = IF pay = "cancelled" THEN "cancelled" ELSE @]
      OBVIOUS
    <3>1. bought' = [bought EXCEPT ![i] = x]
      BY <1>3, <2>3 DEF settleOrder
    <3>2. Moved(x)
      BY <1>1, <3>1 DEF OrderFields
    <3> HIDE DEF Moved
    <3> QED BY <3>2
  <2> HIDE DEF Moved
  <2> QED
    BY <2>1, <2>2, <2>3
<1>5. OrderOk(x)
  BY <1>1, <1>4, OrderMoves
<1> QED
  BY <1>2, <1>4, <1>5, OrderStep

LEMMA AbortStep == ASSUME CartInv, NEW r \in Visits, abortOrder(r) PROVE CartInv'
<1> DEFINE i == ask[r].order
<1>1. /\ ask[r].pc = "session" /\ ends(r) /\ RequestOk(ask[r])
      /\ UNCHANGED <<basket, goods, zoneRows, book, pageOf, shopEdits, visitCount>>
  BY DEF abortOrder, CartInv
<1>2. i \in DOMAIN bought
  BY <1>1 DEF RequestOk
<1>3. CASE bought' = bought
  BY <1>1, <1>3, EndStep DEF reads
<1>4. CASE bought' = [bought EXCEPT ![i].status = "cancelled", ![i].pay = "failed", ![i].key = NoCheckoutKey]
  <2> PICK o : o = bought[i]
    OBVIOUS
  <2> PICK x : x = [o EXCEPT !.status = "cancelled", !.pay = "failed", !.key = NoCheckoutKey]
    OBVIOUS
  <2>1. OrderOk(o) /\ o = [f \in OrderFields |-> o[f]]
    BY <1>2 DEF CartInv, OrderOk
  <2>2. /\ x = [f \in OrderFields |-> x[f]]
        /\ x.status # "placed" /\ x.key \in {o.key, NoCheckoutKey}
        /\ x.items = o.items /\ x.total = o.total /\ x.fresh = o.fresh /\ x.zone = o.zone /\ x.address = o.address
    BY <2>1 DEF OrderFields
  <2>3. OrderOk(x)
    BY ONLY <2>1, <2>2, OrderMoves
  <2>4. bought = [j \in DOMAIN bought |-> bought[j]]
    BY LenProperties DEF CartInv, CartShape, IsList
  <2>5. bought' = [bought EXCEPT ![i] = x]
    BY <1>4, <2>4
  <2>6. MayEnd
    BY <1>1 DEF ends, MayEnd
  <2> HIDE DEF i
  <2> QED
    BY <1>1, <1>2, <2>2, <2>3, <2>5, <2>6, OrderStep
<1> QED
  BY <1>3, <1>4 DEF abortOrder

\* A cart line with another quantity.
LEMMA BasketStep ==
    ASSUME CartInv, MayEnd, wroteBasket, NEW v \in CartVariants, NEW n \in 0..MaxCartQty,
           basket' = [basket EXCEPT ![v] = n]
    PROVE  CartInv'
<1>1. basket' \in Quantities
  BY DEF Quantities, CartInv, CartShape
<1>2. /\ goods' \in [CartVariants -> [price : Nat, active : BOOLEAN]]
      /\ zoneRows' \in [ZoneIds -> ZoneRow] /\ \A z \in ZoneIds : zoneRows'[z].active => zoneRows'[z].stored
      /\ shopEdits' = shopEdits + 1 /\ UNCHANGED <<book, bought, pageOf>>
  BY DEF wroteBasket, CartInv, CartShape
<1> QED
  BY <1>1, <1>2, EditStep

LEMMA CartEdits ==
    ASSUME CartInv
    PROVE  /\ \A r \in Visits : addUpsert(r) \/ cartAdjustQty(r) => CartInv'
           /\ \A v \in CartVariants, n \in 0..(MaxCartQty + 1) : updateCartItem(v, n) => CartInv'
<1>1. ASSUME NEW v \in CartVariants, NEW n \in Int, setQty(v, n), ~qtyRefused(v, n), MayEnd, wroteBasket
      PROVE  CartInv'
  <2> DEFINE q == IF n <= 0 THEN 0 ELSE n
  <2>1. q \in 0..MaxCartQty
    BY <1>1, CartSizes DEF qtyRefused
  <2>2. basket' = [basket EXCEPT ![v] = q]
    BY <1>1 DEF setQty
  <2> HIDE DEF q
  <2> QED
    BY <1>1, <2>1, <2>2, BasketStep
<1>2. ASSUME NEW r \in Visits, ends(r) PROVE MayEnd
  BY <1>2 DEF ends, MayEnd
<1>3. ASSUME NEW r \in Visits, addUpsert(r) PROVE CartInv'
  <2> DEFINE v == ask[r].in.variant
             sum == basket[v] + ask[r].in.qty
  <2> DEFINE in == ask[r].in
  <2>6. in \in VisitInputs /\ in.kind \in {"add", "buy"}
    BY <1>3, AskFacts, KindsThere DEF addUpsert
  <2> HIDE DEF in
  <2>7. in.variant \in CartVariants /\ in.qty \in Nat
    BY <2>6, InputKinds
  <2> USE DEF in
  <2>1. ask[r].in.variant \in CartVariants /\ ask[r].in.qty \in Nat
    BY <2>7
  <2>2. basket[v] \in 0..MaxCartQty
    BY <2>1 DEF CartInv, CartShape, Quantities
  <2>3. capped(sum) \in 0..MaxCartQty
    BY <2>1, <2>2, CartSizes DEF capped
  <2>4. basket' = [basket EXCEPT ![v] = capped(sum)] /\ wroteBasket /\ MayEnd
    BY <1>2, <1>3, <2>1 DEF addUpsert, CartInv, CartShape, Quantities
  <2> HIDE DEF v, sum
  <2>5. v \in CartVariants
    BY <2>1 DEF v
  <2> QED
    BY <2>3, <2>4, <2>5, BasketStep
<1>4. ASSUME NEW r \in Visits, cartAdjustQty(r) PROVE CartInv'
  <2> DEFINE v == ask[r].in.variant
             n == ask[r].items[v] + ask[r].in.delta
  <2> DEFINE in == ask[r].in
  <2>5. in \in VisitInputs /\ in.kind = "adjust" /\ ask[r].items \in Quantities
    BY <1>4, AskFacts, KindsThere, ZenonT(30) DEF cartAdjustQty
  <2> HIDE DEF in
  <2>6. in.variant \in CartVariants /\ in.delta \in Int
    BY <2>5, InputKinds
  <2> USE DEF in
  <2>1. ask[r].in.variant \in CartVariants /\ ask[r].in.delta \in Int /\ ask[r].items \in Quantities
    BY <2>5, <2>6
  <2>2. n \in Int
    <3>1. ask[r].items[v] \in 0..MaxCartQty
      BY <2>1 DEF Quantities
    <3>2. \A q \in 0..MaxCartQty : q \in Int
      BY CartSizes
    <3> QED BY <2>1, <3>1, <3>2
  <2>3. CASE ends(r) /\ reads
    BY <2>3, EndStep
  <2>4. CASE ~qtyRefused(v, n) /\ setQty(v, n) /\ ends(r) /\ wroteBasket
    <3> HIDE DEF v, n
    <3>1. v \in CartVariants
      BY <2>1 DEF v
    <3> QED
      BY <1>1, <1>2, <2>2, <2>4, <3>1
  <2> QED
    BY <1>4, <2>3, <2>4 DEF cartAdjustQty
<1>5. ASSUME NEW v \in CartVariants, NEW n \in 0..(MaxCartQty + 1), updateCartItem(v, n) PROVE CartInv'
  <2>1. n \in Int
    BY CartSizes
  <2>2. MayEnd
    BY <1>5 DEF updateCartItem, MayEnd
  <2> QED
    BY <1>1, <1>5, <2>1, <2>2 DEF updateCartItem
<1> QED
  BY <1>3, <1>4, <1>5

\* A delivery zone with another row.
LEMMA ZoneStep ==
    ASSUME CartInv, MayEnd, wroteZones, NEW z \in ZoneIds, NEW row \in ZoneRow, row.active => row.stored,
           zoneRows' = [zoneRows EXCEPT ![z] = row]
    PROVE  CartInv'
<1>1. zoneRows' \in [ZoneIds -> ZoneRow] /\ \A y \in ZoneIds : zoneRows'[y].active => zoneRows'[y].stored
  BY DEF CartInv, CartShape
<1>2. /\ goods' \in [CartVariants -> [price : Nat, active : BOOLEAN]] /\ basket' \in Quantities
      /\ shopEdits' = shopEdits + 1 /\ UNCHANGED <<book, bought, pageOf>>
  BY DEF wroteZones, CartInv, CartShape
<1> QED
  BY <1>1, <1>2, EditStep

LEMMA ZoneRows == ASSUME NEW t \in Nat \X Nat, NEW b \in BOOLEAN
                  PROVE  zoneRow(t, b) \in ZoneRow /\ zoneRow(t, b).stored
BY DEF zoneRow, ZoneRow

LEMMA StaffEdits ==
    ASSUME CartInv
    PROVE  /\ \A r \in Visits : zoneWrite(r) => CartInv'
           /\ \A z \in ZoneIds, t \in ZoneTerms : zoneCreate(z, t) => CartInv'
           /\ \A z \in ZoneIds : zoneDelete(z) => CartInv'
           /\ \A v \in CartVariants, p \in GoodsPrices, on \in BOOLEAN : editGoods(v, p, on) => CartInv'
<1>1. ASSUME NEW r \in Visits, zoneWrite(r) PROVE CartInv'
  <2> DEFINE in == ask[r].in
             row == IF in.kind = "zoneUpdate" THEN zoneRow(in.terms, ask[r].active)
                                              ELSE [zoneRows[in.zone] EXCEPT !.active = ~ask[r].active]
  <2>1. /\ in.kind \in {"zoneUpdate", "zoneToggle"} /\ in.zone \in ZoneIds /\ ask[r].active \in BOOLEAN
        /\ in.kind = "zoneUpdate" => in.terms \in Nat \X Nat
    BY <1>1, AskFacts, KindsThere, InputKinds DEF zoneWrite
  <2>2. CASE ends(r) /\ reads
    BY <2>2, EndStep
  <2>3. CASE /\ zoneRows[in.zone].stored
             /\ zoneRows' = [zoneRows EXCEPT ![in.zone] =
                    IF in.kind = "zoneUpdate" THEN zoneRow(in.terms, ask[r].active)
                                              ELSE [@ EXCEPT !.active = ~ask[r].active]]
             /\ ends(r) /\ wroteZones
    <3>1. zoneRows[in.zone] \in ZoneRow
      BY <2>1 DEF CartInv, CartShape
    <3>2. row \in ZoneRow /\ row.stored
      <4>1. CASE in.kind = "zoneUpdate"
        BY <2>1, <4>1, ZoneRows
      <4>2. CASE in.kind # "zoneUpdate"
        BY <2>1, <2>3, <3>1, <4>2 DEF ZoneRow
      <4> QED BY <4>1, <4>2
    <3>3. zoneRows' = [zoneRows EXCEPT ![in.zone] = row]
      BY <2>1, <2>3 DEF CartInv, CartShape
    <3>4. MayEnd
      BY <2>3 DEF ends, MayEnd
    <3> PICK x : x = row
      OBVIOUS
    <3> PICK z : z = in.zone
      OBVIOUS
    <3> HIDE DEF row, in
    <3> QED
      BY <2>1, <2>3, <3>2, <3>3, <3>4, ZoneStep
  <2> QED
    BY <1>1, <2>2, <2>3 DEF zoneWrite
<1>2. ASSUME NEW z \in ZoneIds, NEW t \in ZoneTerms, zoneCreate(z, t) PROVE CartInv'
  <2>1. ZoneTerms \subseteq Nat \X Nat
    BY Zenon, CartAssumption
  <2>2. zoneRow(t, TRUE) \in ZoneRow /\ zoneRow(t, TRUE).stored
    BY <2>1, ZoneRows
  <2>3. MayEnd /\ wroteZones /\ zoneRows' = [zoneRows EXCEPT ![z] = zoneRow(t, TRUE)]
    BY <1>2 DEF zoneCreate, MayEnd
  <2> PICK x : x = zoneRow(t, TRUE)
    OBVIOUS
  <2> QED
    BY <2>2, <2>3, ZoneStep
<1>3. ASSUME NEW z \in ZoneIds, zoneDelete(z) PROVE CartInv'
  <2>1. NoZone \in ZoneRow /\ ~NoZone.active
    BY DEF NoZone, ZoneRow
  <2>2. MayEnd /\ wroteZones /\ zoneRows' = [zoneRows EXCEPT ![z] = NoZone]
    BY <1>3 DEF zoneDelete, MayEnd
  <2> PICK x : x = NoZone
    OBVIOUS
  <2> QED
    BY <2>1, <2>2, ZoneStep
<1>4. ASSUME NEW v \in CartVariants, NEW p \in GoodsPrices, NEW on \in BOOLEAN, editGoods(v, p, on) PROVE CartInv'
  <2>1. GoodsPrices \subseteq Nat
    BY Zenon, CartAssumption
  <2>2. goods' \in [CartVariants -> [price : Nat, active : BOOLEAN]]
    BY <1>4, <2>1 DEF editGoods, CartInv, CartShape
  <2>3. /\ zoneRows' \in [ZoneIds -> ZoneRow] /\ \A z \in ZoneIds : zoneRows'[z].active => zoneRows'[z].stored
        /\ basket' \in Quantities /\ MayEnd
        /\ shopEdits' = shopEdits + 1 /\ UNCHANGED <<book, bought, pageOf>>
    BY <1>4 DEF editGoods, MayEnd, CartInv, CartShape
  <2> QED
    BY <2>2, <2>3, EditStep
<1> QED
  BY <1>1, <1>2, <1>3, <1>4

\* Nothing changes that a request depends on.
LEMMA RequestsSame ==
    ASSUME CartInv, UNCHANGED <<goods, zoneRows, bought, ask, pageOf, shopEdits>>
    PROVE  \A r \in Visits : RequestOk(ask[r])'
<1> SUFFICES ASSUME NEW r \in Visits PROVE RequestOk(ask[r])'
  OBVIOUS
<1> PICK x : x = ask[r]
  OBVIOUS
<1>1. RequestOk(x)'
  BY RequestsStay DEF CartInv
<1> QED
  BY <1>1

LEMMA AddressStep == ASSUME CartInv, NEW a \in AddressIds, deleteAddress(a) PROVE CartInv'
<1>1. /\ UNCHANGED <<basket, goods, zoneRows, bought, ask, pageOf, shopEdits>>
      /\ book' \subseteq AddressIds
  BY DEF deleteAddress, CartInv, CartShape
<1>2. \A r \in Visits : RequestOk(ask[r])'
  BY <1>1, RequestsSame
<1>3. PagesCurrent' /\ OneTransaction' /\ OneOrderPerKey'
  BY <1>1, PagesStay DEF CartInv, OneTransaction, inTransaction, OneOrderPerKey
<1>4. \A i \in DOMAIN bought' : OrderOk(bought[i])'
  BY <1>1 DEF CartInv, OrderOk, shownTotal
<1>5. CartShape'
  BY <1>1 DEF CartInv, CartShape, IsList
<1> QED
  BY <1>2, <1>3, <1>4, <1>5 DEF CartInv

-----------------------------------------------------------------------------
LEMMA CartInductive == CartInv /\ [CartNext]_cartVars => CartInv'
<1> SUFFICES ASSUME CartInv, [CartNext]_cartVars PROVE CartInv'
  OBVIOUS
<1>1. ASSUME NEW k \in CheckoutKeys, checkoutForm(k) PROVE CartInv'
  BY <1>1, PageStep
<1>2. ASSUME NEW r \in Visits, NEW in \in VisitInputs, arrive(r, in) PROVE CartInv'
  BY <1>2, ArriveStep
<1>3. ASSUME NEW r \in Visits,
             listCart(r) \/ addCheck(r) \/ lookupOrder(r) \/ orderItems(r) \/ requestFails(r) \/ openSession(r) \/ zoneGet(r)
      PROVE  CartInv'
  BY <1>3, ListStep, SmallSteps, MergeStep
<1>4. ASSUME NEW r \in Visits,
             openOrder(r) \/ loadVariantSnapshots(r) \/ insertOrder(r) \/ abortOrder(r)
      PROVE  CartInv'
  BY <1>4, OpenStep, PricesStep, InsertStep, AbortStep
<1>5. ASSUME NEW r \in Visits, addUpsert(r) \/ cartAdjustQty(r) \/ zoneWrite(r) PROVE CartInv'
  BY <1>5, CartEdits, StaffEdits
<1>6. ASSUME NEW o \in DOMAIN bought, NEW pay \in {"paid", "failed", "cancelled"}, settleOrder(o, pay) PROVE CartInv'
  BY <1>6, OrderSteps
<1>7. ASSUME NEW o \in DOMAIN bought, payRetry(o) \/ cancelOrder(o) PROVE CartInv'
  BY <1>7, OrderSteps
<1>8. ASSUME NEW v \in CartVariants, NEW n \in 0..(MaxCartQty + 1), updateCartItem(v, n) PROVE CartInv'
  BY <1>8, CartEdits
<1>9. ASSUME NEW v \in CartVariants, NEW p \in GoodsPrices, NEW on \in BOOLEAN, editGoods(v, p, on) PROVE CartInv'
  BY <1>9, StaffEdits
<1>10. ASSUME NEW z \in ZoneIds, NEW t \in ZoneTerms, zoneCreate(z, t) PROVE CartInv'
  BY <1>10, StaffEdits
<1>11. ASSUME NEW z \in ZoneIds, zoneDelete(z) PROVE CartInv'
  BY <1>11, StaffEdits
<1>12. ASSUME NEW a \in AddressIds, deleteAddress(a) PROVE CartInv'
  BY <1>12, AddressStep
<1>13. CASE UNCHANGED cartVars
  <2>1. UNCHANGED <<basket, goods, zoneRows, book, bought, ask, pageOf, shopEdits>>
    BY <1>13 DEF cartVars
  <2>2. \A r \in Visits : RequestOk(ask[r])'
    BY <2>1, RequestsSame
  <2>3. PagesCurrent' /\ OneTransaction' /\ OneOrderPerKey'
    BY <2>1, PagesStay DEF CartInv, OneTransaction, inTransaction, OneOrderPerKey
  <2>4. \A i \in DOMAIN bought' : OrderOk(bought[i])'
    BY <2>1 DEF CartInv, OrderOk, shownTotal
  <2>5. CartShape'
    BY <2>1 DEF CartInv, CartShape, IsList
  <2> QED
    BY <2>2, <2>3, <2>4, <2>5 DEF CartInv
<1> QED
  BY <1>1, <1>2, <1>3, <1>4, <1>5, <1>6, <1>7, <1>8, <1>9, <1>10, <1>11, <1>12, <1>13 DEF CartNext

LEMMA CartInitially == CartInit => CartInv
<1> SUFFICES ASSUME CartInit PROVE CartInv
  OBVIOUS
<1>1. Min(GoodsPrices) \in Nat
  <2>1. GoodsPrices \subseteq Nat /\ GoodsPrices # {}
    BY Zenon, CartAssumption
  <2>2. \E m \in GoodsPrices : \A n \in GoodsPrices : m <= n
    BY <2>1, NatLeast
  <2>3. Min(GoodsPrices) \in GoodsPrices
    BY <2>2 DEF Min
  <2> QED BY <2>1, <2>3
<1>2. basket \in Quantities
  <2>1. {0, 1} \subseteq 0..MaxCartQty
    BY CartSizes
  <2> QED BY <2>1 DEF CartInit, Quantities
<1>3. goods \in [CartVariants -> [price : Nat, active : BOOLEAN]]
  <2> PICK p \in Nat : p = Min(GoodsPrices)
    BY <1>1
  <2> QED BY DEF CartInit
<1>4. zoneRows \in [ZoneIds -> ZoneRow] /\ \A z \in ZoneIds : zoneRows[z].active => zoneRows[z].stored
  <2>1. ZoneTerms \subseteq Nat \X Nat
    BY Zenon, CartAssumption
  <2>2. \A t \in ZoneTerms : zoneRow(t, TRUE) \in ZoneRow /\ zoneRow(t, TRUE).stored
    BY <2>1, ZoneRows
  <2>3. NoZone \in ZoneRow /\ ~NoZone.active
    BY DEF NoZone, ZoneRow
  <2> DEFINE Rows == {NoZone} \cup {zoneRow(t, TRUE) : t \in ZoneTerms}
  <2>4. \A row \in Rows : row \in ZoneRow /\ (row.active => row.stored)
    BY <2>2, <2>3
  <2>5. zoneRows \in [ZoneIds -> Rows]
    BY DEF CartInit
  <2> HIDE DEF Rows
  <2> QED
    BY <2>4, <2>5
<1>5. bought = <<>> /\ IsList(bought) /\ DOMAIN bought = {}
  <2>1. bought = <<>>
    BY DEF CartInit
  <2> QED BY <2>1 DEF IsList
<1>6. CartShape
  BY <1>2, <1>3, <1>4, <1>5 DEF CartShape, CartInit
<1>7. \A r \in Visits : RequestOk(ask[r])
  BY NoAskOk DEF CartInit
<1>8. OneTransaction
  BY DEF OneTransaction, inTransaction, CartInit, NoAsk
<1>9. PagesCurrent
  BY DEF PagesCurrent, CartInit, NoPage
<1>10. (\A i \in DOMAIN bought : OrderOk(bought[i])) /\ OneOrderPerKey
  BY <1>5 DEF OneOrderPerKey
<1> QED
  BY <1>6, <1>7, <1>8, <1>9, <1>10 DEF CartInv

LEMMA CheckoutHolds == CartInv => CheckoutAsShown
<1> SUFFICES ASSUME CartInv PROVE CheckoutAsShown
  OBVIOUS
<1>1. ASSUME NEW k \in CheckoutKeys PROVE Cardinality(withKey(k)) <= 1
  <2>1. CASE withKey(k) = {}
    BY <2>1, FS_EmptySet
  <2>2. CASE withKey(k) # {}
    <3> PICK i \in withKey(k) : TRUE
      BY <2>2
    <3>1. withKey(k) = {i}
      BY DEF withKey, CartInv, OneOrderPerKey
    <3>2. Cardinality({i}) = 1
      BY FS_Singleton
    <3> QED BY <3>1, <3>2
  <2> QED
    BY <2>1, <2>2
<1>2. ASSUME NEW r \in Visits
      PROVE  /\ ask[r].pc = "empty" /\ ~ask[r].err => ask[r].known \cap withKey(ask[r].in.key) = {}
             /\ ask[r].pc = "landed" => bought[ask[r].order].key \in {ask[r].in.key, NoCheckoutKey}
  BY DEF CartInv, RequestOk
<1>3. ASSUME NEW i \in DOMAIN bought
      PROVE  LET o == bought[i] IN
             /\ \A v \in CartVariants : o.items[v] <= MaxCartQty
             /\ o.fresh /\ o.key # NoCheckoutKey =>
                   o.total = shownTotal(o) /\ (o.address # "" => o.total >= pageOf[o.key].cart)
             /\ o.online /\ o.status = "placed" /\ o.pay # "paid" =>
                   \A n \in {0, PayPollMax} : buildPayReturnData(o, n).poll \/ buildPayReturnData(o, n).retryable
  <2> PICK o : o = bought[i]
    OBVIOUS
  <2>1. OrderOk(o)
    BY DEF CartInv
  <2>2. ASSUME o.online, o.status = "placed", o.pay # "paid", NEW n \in {0, PayPollMax}
        PROVE  buildPayReturnData(o, n).poll \/ buildPayReturnData(o, n).retryable
    <3>1. o.pay \in {"pending", "failed"}
      BY <2>1, <2>2 DEF OrderOk
    <3>2. payState(o) = o.pay /\ PaymentRetryable(o)
      BY <2>2, <3>1 DEF payState, PaymentRetryable
    <3>3. n < PayPollMax \/ n >= PayPollMax
      BY CartSizes
    <3> QED
      BY <3>1, <3>2, <3>3 DEF buildPayReturnData
  <2> QED
    BY <2>1, <2>2 DEF OrderOk
<1>4. \A v \in CartVariants : basket[v] <= MaxCartQty
  BY CartSizes DEF CartInv, CartShape, Quantities
<1> QED
  BY <1>1, <1>2, <1>3, <1>4 DEF CheckoutAsShown

(* However tabs, retries and staff edits interleave, a checkout form       *)
(* places one order, which later submits land on; it costs what its page   *)
(* showed while nothing was edited since; no line exceeds MaxCartQty; and  *)
(* the page of an order that waits for its money leads on (CreateOrder,    *)
(* clearCartLinesTx, checkoutSubmit, buildPayReturnData).                  *)
THEOREM CheckoutKeepsItsWord == CartSpec => []CheckoutAsShown
<1>1. CartSpec => []CartInv
  BY CartInitially, CartInductive, PTL DEF CartSpec
<1> QED
  BY <1>1, CheckoutHolds, PTL
=============================================================================
