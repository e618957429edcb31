----------------------- MODULE BroadcastWorkerProofs -----------------------
(***************************************************************************)
(* Proofs about BroadcastWorker for any audience, batch size and number of *)
(* broadcasts, faults and crashes: nobody of the audience is skipped, and  *)
(* a device is reached again only after the record of a batch was lost.    *)
(*                                                                         *)
(* The inductive invariant ties what was pushed to the stored cursor: up   *)
(* to the cursor everybody of the audience was tried (Covered) and at most *)
(* once more than records were lost; beyond it only what the batch in the  *)
(* worker's hands has sent is not yet paid for by a loss (Repeats).        *)
(***************************************************************************)
EXTENDS BroadcastWorker, FiniteLemmas

Statuses == {"none", "queued", "sending", "done", "failed"}
Rows == [status : Statuses, created_at : Nat, cursor : Nat, counted : Nat]
Jobs == [id : Req \cup {0}, cursor : Nat, todo : SUBSET Devices, batch : SUBSET Devices]

Types ==
    /\ rows \in [Req -> Rows] /\ job \in Jobs
    /\ audience \subseteq Devices /\ steady \in [Req -> SUBSET Devices]
    /\ pushes \in [Req -> [Devices -> Nat]] /\ unrecorded \in [Req -> Nat]

\* The worker holds a batch.
InBatch == pc \in {"send", "record"}

\* What of its batch it has pushed.
Sent(b) == IF InBatch /\ job.id = b THEN job.batch \ job.todo ELSE {}

\* The worker works on a stored broadcast, from its cursor on.
Working ==
    /\ pc \in {"mark", "batch", "send", "record", "finish", "giveUp"} =>
           job.id \in Req /\ rows[job.id].status # "none"
    /\ pc = "mark" => rows[job.id].status = "queued"
    /\ pc \in {"mark", "batch", "send", "record", "finish"} => job.cursor = rows[job.id].cursor
    /\ pc \in {"batch", "send", "record", "finish"} => rows[job.id].status = "sending"
    /\ InBatch => job.batch # {} /\ job.todo \subseteq job.batch /\ \A d \in job.batch : d > job.cursor
    /\ pc = "record" => job.todo = {}

Stored ==
    /\ \A a, b \in Req : rows[a].status # "none" /\ rows[b].status # "none" /\ tokenOf[a] = tokenOf[b] => a = b
    /\ \A b \in Req : rows[b].status \in {"none", "queued"} => rows[b].cursor = 0
    /\ \A b \in Req, d \in Devices : pushes[b][d] > 0 => rows[b].status # "none"

Repeats ==
    \A b \in Req, d \in Devices :
        /\ pushes[b][d] <= 1 + unrecorded[b]
        /\ d > rows[b].cursor /\ d \notin Sent(b) => pushes[b][d] <= unrecorded[b]

Reached(b) == {e \in Devices : pushes[b][e] > 0 /\ e <= rows[b].cursor}

Counted == \A b \in Req : rows[b].counted <= Cardinality(Reached(b))

Covered ==
    \A b \in Req :
        /\ steady[b] \subseteq audience
        /\ \A d \in steady[b] : d <= rows[b].cursor => pushes[b][d] > 0
        /\ rows[b].status = "done" => \A d \in steady[b] : d <= rows[b].cursor

\* A batch leaves out nobody of the audience below its last device.
Batches ==
    /\ InBatch => /\ \A d \in Sent(job.id) : pushes[job.id][d] > 0
                  /\ \A d \in steady[job.id], e \in job.batch : d > job.cursor /\ d <= e => d \in job.batch
    /\ pc = "finish" => \A d \in steady[job.id] : d <= job.cursor

IInv == Types /\ Working /\ Stored /\ Repeats /\ Counted /\ Covered /\ Batches

-----------------------------------------------------------------------------
LEMMA RowFields ==
    ASSUME NEW r \in Rows
    PROVE  r.status \in Statuses /\ r.cursor \in Nat /\ r.counted \in Nat /\ r.created_at \in Nat
BY DEF Rows

LEMMA TableTypes ==
    ASSUME Types, NEW b \in Req
    PROVE  /\ rows[b] \in Rows /\ rows[b].status \in Statuses /\ rows[b].cursor \in Nat
           /\ rows[b].counted \in Nat /\ rows[b].created_at \in Nat
           /\ unrecorded[b] \in Nat /\ steady[b] \in SUBSET Devices
           /\ \A d \in Devices : pushes[b][d] \in Nat
BY RowFields DEF Types

LEMMA JobFields ==
    ASSUME Types
    PROVE  /\ job.id \in Req \cup {0} /\ job.cursor \in Nat
           /\ job.todo \in SUBSET Devices /\ job.batch \in SUBSET Devices
BY DEF Types, Jobs

LEMMA NoJobTyped ==
    /\ NoJob \in Jobs /\ NoJob.id = 0 /\ NoJob.cursor = 0
    /\ \A b \in Req, c \in Nat : LET j == [NoJob EXCEPT !.id = b, !.cursor = c] IN
                                 j \in Jobs /\ j.id = b /\ j.cursor = c
    /\ \A b \in Req : LET j == [NoJob EXCEPT !.id = b] IN j \in Jobs /\ j.id = b
BY DEF NoJob, Jobs

LEMMA DeviceNumbers == Devices \subseteq Nat /\ IsFiniteSet(Devices) /\ \A d \in Devices : d > 0
BY BroadcastAssumption

LEMMA ReachedFinite ==
    ASSUME NEW b
    PROVE  IsFiniteSet(Reached(b)) /\ Cardinality(Reached(b)) \in Nat
<1>1. Reached(b) \in SUBSET Devices
  BY DEF Reached
<1> QED BY <1>1, DeviceNumbers, FS_Subset, FS_CardinalityType

\* res.Cursor is the largest id of the batch.
LEMMA LastIn ==
    ASSUME Types, Working, InBatch
    PROVE  last \in job.batch /\ \A e \in job.batch : e <= last
<1>1. job.batch # {} /\ job.batch \subseteq Devices
  BY JobFields DEF Working
<1>2. IsFiniteSet(job.batch) /\ job.batch \subseteq Nat
  BY <1>1, DeviceNumbers, FS_Subset
<1>3. \E d \in job.batch : \A e \in job.batch : e <= d
  BY <1>1, <1>2, SetMax
<1> QED BY <1>3 DEF last

\* ORDER BY created_at LIMIT 1 finds a broadcast if one is pending.
LEMMA OldestIn ==
    ASSUME Types, pending # {}
    PROVE  oldest \in pending
<1> DEFINE T == {rows[b].created_at : b \in pending}
<1>1. T \subseteq Nat /\ T # {}
  BY TableTypes DEF pending
<1>2. PICK n \in T : \A m \in T : n <= m
  <2> HIDE DEF T
  <2> QED BY <1>1, NatLeast
<1>3. \E b \in pending : \A c \in pending : rows[b].created_at <= rows[c].created_at
  BY <1>2
<1> QED BY <1>3 DEF oldest

-----------------------------------------------------------------------------
LEMMA Initial == Init => IInv
<1> SUFFICES ASSUME Init PROVE IInv
    OBVIOUS
<1> USE DEF Init
<1>1. Types
  <2>1. [status |-> "none", created_at |-> 0, cursor |-> 0, counted |-> 0] \in Rows
    BY DEF Rows, Statuses
  <2> QED BY <2>1, NoJobTyped DEF Types
<1>2. Working /\ Batches
  BY DEF Working, Batches, InBatch
<1>3. Stored /\ Repeats /\ Covered
  BY DEF Stored, Repeats, Covered
<1>4. Counted
  <2>1. \A b \in Req : rows[b].counted = 0
    OBVIOUS
  <2> HIDE DEF Init
  <2> QED BY <2>1, ReachedFinite DEF Counted
<1> QED BY <1>1, <1>2, <1>3, <1>4 DEF IInv

\* Steps that store nothing and push nothing: a batch may be dropped, at the
\* price of an unrecorded one.
LEMMA Kept ==
    ASSUME IInv, UNCHANGED <<tokenOf, rows, pushes>>, job' \in Jobs,
           unrecorded' \in [Req -> Nat], audience' \subseteq Devices, steady' \in [Req -> SUBSET Devices],
           \A b \in Req : steady'[b] \subseteq steady[b] /\ steady'[b] \subseteq audience',
           \A b \in Req : unrecorded'[b] >= unrecorded[b],
           \A b \in Req : Sent(b) = {} \/ Sent(b)' = Sent(b) \/ unrecorded'[b] >= 1 + unrecorded[b],
           Working', Batches'
    PROVE  IInv'
<1> USE DEF IInv
<1>1. Types'
  BY DEF Types
<1>2. Stored' /\ Covered'
  BY DEF Stored, Covered
<1>3. Counted'
  <2>1. \A b \in Req : Reached(b)' = Reached(b)
    BY DEF Reached
  <2> QED BY <2>1 DEF Counted
<1>4. Repeats'
  <2> SUFFICES ASSUME NEW b \in Req, NEW d \in Devices
               PROVE  /\ pushes[b][d] <= 1 + unrecorded'[b]
                      /\ d > rows[b].cursor /\ d \notin Sent(b)' => pushes[b][d] <= unrecorded'[b]
    BY DEF Repeats
  <2>1. pushes[b][d] \in Nat /\ unrecorded[b] \in Nat /\ unrecorded'[b] \in Nat
    BY TableTypes
  <2>2. /\ pushes[b][d] <= 1 + unrecorded[b]
        /\ d > rows[b].cursor /\ d \notin Sent(b) => pushes[b][d] <= unrecorded[b]
        /\ unrecorded'[b] >= unrecorded[b]
        /\ Sent(b) = {} \/ Sent(b)' = Sent(b) \/ unrecorded'[b] >= 1 + unrecorded[b]
    BY DEF Repeats
  <2> HIDE DEF IInv
  <2> QED BY <2>1, <2>2
<1> QED BY <1>1, <1>2, <1>3, <1>4

\* Of those, the ones that put a batch down or hold none.
LEMMA PutDown ==
    ASSUME IInv, UNCHANGED <<tokenOf, rows, pushes, audience, steady>>, job' \in Jobs,
           pc' \in {"drain", "waiting", "stopped", "giveUp"},
           pc' = "giveUp" => job'.id \in Req /\ rows[job'.id].status # "none",
           unrecorded' = IF InBatch THEN [unrecorded EXCEPT ![job.id] = @ + 1] ELSE unrecorded
    PROVE  IInv'
<1> USE DEF IInv
<1>1. Working' /\ Batches'
  BY DEF Working, Batches, InBatch
<1>2. \A b \in Req : Sent(b) # {} => InBatch /\ job.id = b
  BY DEF Sent
<1>3. \A b \in Req : unrecorded[b] \in Nat
  BY DEF Types
<1>4. unrecorded' \in [Req -> Nat]
  <2>1. InBatch => job.id \in Req /\ unrecorded[job.id] + 1 \in Nat
    BY <1>3 DEF Working, InBatch
  <2> QED BY <2>1 DEF Types
<1>5. \A b \in Req : unrecorded'[b] = IF InBatch /\ job.id = b THEN unrecorded[b] + 1 ELSE unrecorded[b]
  BY DEF Types
<1>6. \A b \in Req : unrecorded'[b] >= unrecorded[b] /\ (Sent(b) = {} \/ unrecorded'[b] >= 1 + unrecorded[b])
  <2> SUFFICES ASSUME NEW b \in Req
               PROVE  unrecorded'[b] >= unrecorded[b] /\ (Sent(b) = {} \/ unrecorded'[b] >= 1 + unrecorded[b])
    OBVIOUS
  <2> HIDE DEF IInv
  <2> QED BY <1>2, <1>3, <1>5
<1>7. audience' \subseteq Devices /\ steady' \in [Req -> SUBSET Devices]
      /\ \A b \in Req : steady'[b] \subseteq steady[b] /\ steady'[b] \subseteq audience'
  BY DEF Types, Covered
<1> HIDE DEF IInv
<1> QED BY <1>1, <1>4, <1>6, <1>7, Kept

-----------------------------------------------------------------------------
(***************************************************************************)
(* The admin form and the audience.                                        *)
(***************************************************************************)
\* Steps of the form that store nothing, and a request to stop.
LEMMA FormPreserves ==
    ASSUME IInv, UNCHANGED <<tokenOf, rows, audience, pc, job, ghosts>>
    PROVE  IInv'
BY DEF IInv, ghosts, Types, Working, Stored, Repeats, Counted, Covered, Batches, InBatch, Sent, Reached

LEMMA CreatePreserves == ASSUME IInv, NEW q \in Req, Create(q) PROVE IInv'
<1> USE DEF IInv
<1>0. UNCHANGED <<tokenOf, audience, pc, job, pushes, steady, unrecorded>>
  BY DEF Create, worker, ghosts
<1>1. CASE ~onConflict(q)
  BY <1>0, <1>1, FormPreserves DEF Create, ghosts
<1>2. CASE onConflict(q)
  <2> DEFINE row == [rows[q] EXCEPT !.status = "queued", !.created_at = now]
  <2>1. rows' = [rows EXCEPT ![q] = row]
    BY <1>2 DEF Create, Types
  <2>2. now \in Nat
    <3>1. {b \in Req : rows[b].status # "none"} \in SUBSET Req
      OBVIOUS
    <3> QED BY <3>1, BroadcastAssumption, FS_Subset, FS_CardinalityType DEF now
  <2>3. rows[q] \in Rows
    BY TableTypes
  <2>4. row \in Rows /\ row.status = "queued" /\ row.cursor = rows[q].cursor /\ row.counted = rows[q].counted
    BY <2>2, <2>3 DEF Rows, Statuses
  <2> HIDE DEF row
  <2>5. rows' \in [Req -> Rows] /\ rows'[q] = row /\ \A b \in Req : b # q => rows'[b] = rows[b]
    BY <2>1, <2>4 DEF Types
  <2>6. \A b \in Req : tokenOf[b] = tokenOf[q] => rows[b].status = "none"
    BY <1>2 DEF onConflict, stored
  <2>7. Types'
    BY <1>0, <2>5 DEF Types
  <2>8. \A b \in Req : rows'[b].cursor = rows[b].cursor /\ rows'[b].counted = rows[b].counted
    BY <2>4, <2>5
  <2>9. Working'
    BY <1>0, <2>5, <2>6 DEF Working, InBatch
  <2>10. Stored'
    BY <1>0, <2>4, <2>5, <2>6 DEF Stored
  <2>11. \A b \in Req : Sent(b)' = Sent(b) /\ Reached(b)' = Reached(b)
    BY <1>0, <2>8 DEF Sent, Reached, InBatch
  <2>12. Repeats' /\ Counted'
    BY <1>0, <2>8, <2>11 DEF Repeats, Counted
  <2>13. Covered'
    BY <1>0, <2>4, <2>5, <2>8 DEF Covered
  <2>14. Batches'
    <3>1. InBatch => job.id \in Req
      BY DEF Working, InBatch
    <3> QED BY <1>0, <2>11, <3>1 DEF Batches, InBatch
  <2> QED BY <2>7, <2>9, <2>10, <2>12, <2>13, <2>14
<1> QED BY <1>1, <1>2

LEMMA MovePreserves == ASSUME IInv, NEW d \in Devices, Move(d) PROVE IInv'
<1> USE DEF IInv
<1>1. UNCHANGED <<tokenOf, rows, pc, job, pushes, unrecorded>>
      /\ steady' = [b \in Req |-> steady[b] \ {d}]
      /\ audience' = IF d \in audience THEN audience \ {d} ELSE audience \cup {d}
  BY DEF Move, worker
<1>2. \A b \in Req : steady'[b] \subseteq steady[b] /\ steady'[b] \subseteq audience'
  BY <1>1 DEF Covered
<1>3. job' \in Jobs /\ unrecorded' \in [Req -> Nat] /\ audience' \subseteq Devices
      /\ steady' \in [Req -> SUBSET Devices]
  BY <1>1 DEF Types
<1>4. Working'
  BY <1>1 DEF Working, InBatch
<1>5. \A b \in Req : Sent(b)' = Sent(b)
  BY <1>1 DEF Sent, InBatch
<1>6. Batches'
  <2>1. InBatch \/ pc = "finish" => job.id \in Req
    BY DEF Working, InBatch
  <2> QED BY <1>1, <1>2, <1>5, <2>1 DEF Batches, InBatch
<1>7. \A b \in Req : unrecorded'[b] >= unrecorded[b]
  BY <1>1, TableTypes
<1> HIDE DEF IInv
<1> QED BY <1>1, <1>2, <1>3, <1>4, <1>5, <1>6, <1>7, Kept

-----------------------------------------------------------------------------
(***************************************************************************)
(* The worker.                                                             *)
(***************************************************************************)
LEMMA NextPendingPreserves == ASSUME IInv, NextPending PROVE IInv'
<1> USE DEF IInv
<1>0. pc = "drain" /\ ~InBatch /\ UNCHANGED <<tokenOf, rows, audience, pushes, steady, unrecorded>>
  BY DEF NextPending, InBatch, ghosts
<1>1. CASE pending = {}
  <2>1. pc' = "waiting" /\ job' = NoJob
    BY <1>1 DEF NextPending
  <2> HIDE DEF IInv
  <2> QED BY <1>0, <2>1, NoJobTyped, PutDown
<1>2. CASE pending # {}
  <2> DEFINE b == oldest
             new == [NoJob EXCEPT !.id = b, !.cursor = rows[b].cursor]
  <2>1. b \in Req /\ rows[b].status \in {"queued", "sending"}
    BY <1>2, OldestIn DEF pending
  <2>2. job' = new /\ pc' = IF rows[b].status = "queued" THEN "mark" ELSE "batch"
    BY <1>2 DEF NextPending, resumeFrom
  <2>3. rows[b].cursor \in Nat
    BY <2>1, TableTypes
  <2> HIDE DEF b
  <2>4. new \in Jobs /\ new.id = b /\ new.cursor = rows[b].cursor
    BY <2>1, <2>3, NoJobTyped, ZenonT(30)
  <2> HIDE DEF new
  <2>5. Working' /\ Batches'
    BY <1>0, <2>1, <2>2, <2>4 DEF Working, Batches, InBatch
  <2>6. \A a \in Req : Sent(a) = {}
    BY <1>0 DEF Sent
  <2>7. job' \in Jobs /\ unrecorded' \in [Req -> Nat] /\ audience' \subseteq Devices
        /\ steady' \in [Req -> SUBSET Devices]
        /\ \A a \in Req : steady'[a] \subseteq steady[a] /\ steady'[a] \subseteq audience'
    BY <1>0, <2>2, <2>4 DEF Types, Covered
  <2>8. \A a \in Req : unrecorded'[a] >= unrecorded[a]
    BY <1>0, TableTypes
  <2> HIDE DEF IInv
  <2> QED BY <1>0, <2>5, <2>6, <2>7, <2>8, Kept
<1> QED BY <1>1, <1>2

\* A batch is empty only when no candidate is left, and has every candidate
\* below its members.
LEMMA TargetsFirst ==
    ASSUME Types
    PROVE  /\ targets \in SUBSET candidates /\ candidates \in SUBSET Devices
           /\ targets = {} => candidates = {}
           /\ \A d \in candidates, e \in targets : d <= e => d \in targets
<1>1. candidates \in SUBSET Devices /\ targets \in SUBSET candidates
  BY DEF Types, candidates, targets
<1>2. candidates \subseteq Nat /\ IsFiniteSet(candidates)
  BY <1>1, DeviceNumbers, FS_Subset
<1>3. ASSUME candidates # {} PROVE targets # {}
  <2>1. PICK d \in candidates : \A e \in candidates : d <= e
    BY <1>2, <1>3, NatLeast
  <2>2. {e \in candidates : e < d} = {}
    <3>1. \A e \in candidates : e \in Nat /\ d \in Nat /\ ~(e < d)
      BY <1>2, <2>1
    <3> QED BY <3>1
  <2>3. Cardinality({e \in candidates : e < d}) < BatchSize
    BY <2>2, FS_EmptySet, BroadcastAssumption
  <2> QED BY <2>3 DEF targets
<1>4. ASSUME NEW d \in candidates, NEW e \in targets, d <= e PROVE d \in targets
  <2> DEFINE Below(x) == {y \in candidates : y < x}
  <2>1. e \in candidates /\ Cardinality(Below(e)) < BatchSize
    BY DEF targets
  <2>2. Below(d) \in SUBSET Below(e)
    <3>1. \A y \in candidates : y < d => y < e
      BY <1>2, <1>4, <2>1
    <3> QED BY <3>1
  <2>3. Below(e) \in SUBSET candidates
    OBVIOUS
  <2> HIDE DEF Below
  <2>4. IsFiniteSet(Below(e)) /\ IsFiniteSet(Below(d)) /\ Cardinality(Below(d)) <= Cardinality(Below(e))
    BY <1>2, <2>2, <2>3, FS_Subset
  <2>5. Cardinality(Below(d)) < BatchSize
    BY <2>1, <2>4, FS_CardinalityType, BroadcastAssumption
  <2> QED BY <2>5 DEF targets, Below
<1> QED BY <1>1, <1>3, <1>4

LEMMA NextTargetsPreserves == ASSUME IInv, NextTargets PROVE IInv'
<1> USE DEF IInv
<1> DEFINE new == [job EXCEPT !.batch = targets, !.todo = targets]
<1>0. pc = "batch" /\ job' = new /\ pc' = (IF targets = {} THEN "finish" ELSE "send")
      /\ UNCHANGED <<tokenOf, rows, audience, pushes, steady, unrecorded>>
  BY DEF NextTargets, ghosts
<1>1. targets \in SUBSET candidates /\ candidates \in SUBSET Devices
      /\ (targets = {} => candidates = {})
      /\ \A d \in candidates, e \in targets : d <= e => d \in targets
  BY TargetsFirst
<1>2. new \in Jobs /\ new.id = job.id /\ new.cursor = job.cursor /\ new.batch = targets /\ new.todo = targets
  BY <1>1 DEF Types, Jobs
<1> HIDE DEF new
<1>3. job.id \in Req /\ job.cursor = rows[job.id].cursor /\ job.cursor \in Nat
  BY <1>0, JobFields DEF Working
<1>4. \A d \in targets : d > job.cursor
  BY <1>1 DEF candidates, afterCursor
<1>5. Working'
  BY <1>0, <1>2, <1>3, <1>4 DEF Working, InBatch
<1>6. \A d \in steady[job.id] : d \in candidates \/ d <= job.cursor
  <2>1. \A d \in steady[job.id] : d \in audience /\ d \in Nat
    BY <1>3, DeviceNumbers DEF Covered, Types
  <2> QED BY <1>3, <2>1 DEF candidates, afterCursor
<1>7. Sent(job.id)' = {} /\ \A b \in Req : Sent(b) = {}
  BY <1>0, <1>2 DEF Sent, InBatch
<1>8. \A d \in steady[job.id] : d \in Nat
  BY <1>3, DeviceNumbers DEF Types
<1>9. Batches'
  BY <1>0, <1>1, <1>2, <1>3, <1>6, <1>7, <1>8 DEF Batches, InBatch, Sent
<1>10. job' \in Jobs /\ unrecorded' \in [Req -> Nat] /\ audience' \subseteq Devices
        /\ steady' \in [Req -> SUBSET Devices]
        /\ \A a \in Req : steady'[a] \subseteq steady[a] /\ steady'[a] \subseteq audience'
  BY <1>0, <1>2 DEF Types, Covered
<1>11. \A a \in Req : unrecorded'[a] >= unrecorded[a]
  BY <1>0, TableTypes
<1> HIDE DEF IInv
<1> QED BY <1>0, <1>5, <1>7, <1>9, <1>10, <1>11, Kept

LEMMA SendPreserves == ASSUME IInv, NEW d \in Devices, Send(d) PROVE IInv'
<1> USE DEF IInv
<1> DEFINE new == [job EXCEPT !.todo = @ \ {d}]
<1>0. /\ pc = "send" /\ d \in job.todo /\ job' = new /\ pc' = (IF job.todo = {d} THEN "record" ELSE "send")
      /\ UNCHANGED <<tokenOf, rows, audience, steady, unrecorded>>
      /\ pushes' = [pushes EXCEPT ![job.id][d] = @ + 1]
  BY DEF Send
<1>1. PICK b \in Req : b = job.id /\ d \in job.batch /\ rows[b].status # "none" /\ d > job.cursor
      /\ job.todo \subseteq job.batch /\ job.cursor = rows[b].cursor
  BY <1>0 DEF Working, InBatch
<1>2. new \in Jobs /\ new.id = b /\ new.cursor = job.cursor /\ new.batch = job.batch /\ new.todo = job.todo \ {d}
  BY <1>0, <1>1 DEF Types, Jobs
<1> HIDE DEF new
<1>3. pushes[b] \in [Devices -> Nat] /\ pushes[b][d] \in Nat
  BY <1>1 DEF Types
<1>4. pushes' \in [Req -> [Devices -> Nat]] /\ pushes'[b][d] = pushes[b][d] + 1
      /\ \A a \in Req, e \in Devices : a # b \/ e # d => pushes'[a][e] = pushes[a][e]
  BY <1>0, <1>1, <1>3 DEF Types
<1>5. Types'
  BY <1>0, <1>2, <1>4 DEF Types
<1>6. InBatch /\ InBatch' /\ job'.id = b
  BY <1>0, <1>2 DEF InBatch
<1>7. Sent(b)' = Sent(b) \cup {d} /\ d \notin Sent(b) /\ \A a \in Req : a # b => Sent(a)' = {} /\ Sent(a) = {}
  BY <1>0, <1>1, <1>2, <1>6 DEF Sent
<1>8. \A a \in Req, e \in Devices : pushes'[a][e] >= pushes[a][e] /\ pushes[a][e] \in Nat
  <2>1. \A a \in Req, e \in Devices : pushes[a][e] \in Nat
    BY TableTypes
  <2> HIDE DEF IInv
  <2> QED BY <1>4, <2>1
<1>9. Working'
  BY <1>0, <1>1, <1>2 DEF Working, InBatch
<1>10. Stored'
  <2>1. \A a \in Req, e \in Devices : pushes'[a][e] > 0 => pushes[a][e] > 0 \/ a = b
    BY <1>4
  <2> QED BY <1>0, <1>1, <2>1 DEF Stored
<1>11. Repeats'
  <2> SUFFICES ASSUME NEW a \in Req, NEW e \in Devices
               PROVE  /\ pushes'[a][e] <= 1 + unrecorded[a]
                      /\ e > rows[a].cursor /\ e \notin Sent(a)' => pushes'[a][e] <= unrecorded[a]
    BY <1>0 DEF Repeats
  <2>1. CASE a = b /\ e = d
    <3>1. pushes[b][d] <= unrecorded[b] /\ unrecorded[b] \in Nat
      BY <1>1, <1>7, TableTypes DEF Repeats
    <3> HIDE DEF IInv
    <3> QED BY <2>1, <3>1, <1>3, <1>4, <1>7
  <2>2. CASE a # b \/ e # d
    <3>1. pushes'[a][e] = pushes[a][e] /\ (e \notin Sent(a)' => e \notin Sent(a))
      BY <2>2, <1>4, <1>7
    <3> QED BY <3>1 DEF Repeats
  <2> QED BY <2>1, <2>2
<1>12. Counted'
  <2> SUFFICES ASSUME NEW a \in Req PROVE rows[a].counted <= Cardinality(Reached(a)')
    BY <1>0 DEF Counted
  <2>1. Reached(a)' = Reached(a)
    <3>1. \A e \in Devices : e <= rows[a].cursor => pushes'[a][e] = pushes[a][e]
      <4>1. ~(d <= rows[b].cursor)
        BY <1>1, TableTypes, DeviceNumbers
      <4> QED BY <1>4, <4>1
    <3> QED BY <1>0, <3>1 DEF Reached
  <2> QED BY <2>1 DEF Counted
<1>13. Covered'
  <2>1. \A a \in Req : steady[a] \subseteq Devices
    BY TableTypes
  <2>2. \A a \in Req, e \in Devices : pushes[a][e] > 0 => pushes'[a][e] > 0
    BY <1>4, <1>8
  <2> QED BY <1>0, <2>1, <2>2 DEF Covered
<1>14. Batches'
  <2>1. \A e \in Sent(b)' : pushes'[b][e] > 0
    <3>1. pushes'[b][d] > 0
      BY <1>3, <1>4
    <3>2. \A e \in Sent(b) : e \in Devices /\ pushes[b][e] > 0
      BY <1>6, JobFields DEF Batches, Sent
    <3> QED BY <1>1, <1>4, <1>7, <3>1, <3>2
  <2>2. \A x \in steady[b], e \in job.batch : x > job.cursor /\ x <= e => x \in job.batch
    BY <1>1, <1>6 DEF Batches
  <2>3. \A e \in Sent(job.id)' : pushes'[b][e] > 0
    BY <2>1, <1>6 DEF Sent
  <2> QED BY <1>0, <1>2, <1>6, <2>2, <2>3 DEF Batches
<1> QED BY <1>5, <1>9, <1>10, <1>11, <1>12, <1>13, <1>14

\* What a statement of process makes of the broadcast's row.
LEMMA Written ==
    ASSUME IInv, pc \in {"mark", "record", "finish", "giveUp"}
    PROVE  /\ job.id \in Req /\ written \in Rows /\ written.status # "none"
           /\ pc # "record" => /\ written.cursor = rows[job.id].cursor /\ written.counted = rows[job.id].counted
                               /\ written.status # "queued"
           /\ pc # "finish" => written.status # "done"
           /\ pc = "mark" => written.status = "sending"
           /\ pc = "record" => /\ last \in job.batch /\ last > rows[job.id].cursor
                               /\ written.cursor = last /\ written.status = "sending"
                               /\ written.counted = rows[job.id].counted + Cardinality(job.batch)
<1> USE DEF IInv
<1> DEFINE b == job.id
<1>1. b \in Req /\ rows[b].status # "none"
  BY DEF Working
<1>2. rows[b] \in Rows
  BY <1>1, TableTypes
<1>3. CASE pc # "record"
  <2>1. PICK st \in {"sending", "done", "failed"} :
          written = [rows[b] EXCEPT !.status = st] /\ (st = "done" => pc = "finish")
          /\ (pc = "mark" => st = "sending")
    BY <1>3 DEF written
  <2> HIDE DEF IInv, b
  <2>2. [rows[b] EXCEPT !.status = st] \in Rows
    BY <1>2 DEF Rows, Statuses
  <2>3. [rows[b] EXCEPT !.status = st].status = st
        /\ [rows[b] EXCEPT !.status = st].cursor = rows[b].cursor
        /\ [rows[b] EXCEPT !.status = st].counted = rows[b].counted
    BY <1>2 DEF Rows
  <2> QED BY <1>1, <1>3, <2>1, <2>2, <2>3 DEF b
<1>4. CASE pc = "record"
  <2>1. InBatch
    BY <1>4 DEF InBatch
  <2>2. last \in job.batch /\ last \in Nat /\ last > rows[b].cursor
    BY <2>1, LastIn, JobFields, DeviceNumbers DEF Working, InBatch
  <2>3. IsFiniteSet(job.batch) /\ Cardinality(job.batch) \in Nat
    BY JobFields, DeviceNumbers, FS_Subset, FS_CardinalityType
  <2>4. rows[b].counted + Cardinality(job.batch) \in Nat
    BY <1>1, <2>3, TableTypes
  <2>5. written = [rows[b] EXCEPT !.counted = @ + Cardinality(job.batch), !.cursor = last]
    BY <1>4 DEF written, recordedRow
  <2>6. PICK n \in Nat : n = rows[b].counted + Cardinality(job.batch)
    BY <2>4
  <2>7. PICK l \in Nat : l = last
    BY <2>2
  <2>8. written = [rows[b] EXCEPT !.counted = n, !.cursor = l]
    BY <2>5, <2>6, <2>7
  <2>9. rows[b].status = "sending"
    BY <1>4 DEF Working
  <2> HIDE DEF IInv, b
  <2>10. [rows[b] EXCEPT !.counted = n, !.cursor = l] \in Rows
    BY <1>2 DEF Rows
  <2>11. /\ [rows[b] EXCEPT !.counted = n, !.cursor = l].status = rows[b].status
         /\ [rows[b] EXCEPT !.counted = n, !.cursor = l].counted = n
         /\ [rows[b] EXCEPT !.counted = n, !.cursor = l].cursor = l
    BY <1>2 DEF Rows
  <2> QED BY <1>1, <1>4, <2>2, <2>6, <2>7, <2>8, <2>9, <2>10, <2>11 DEF b
<1> QED BY <1>3, <1>4

\* A statement that takes effect; the batch it belonged to is over.
LEMMA EffectPreserves ==
    ASSUME IInv, pc \in {"mark", "record", "finish", "giveUp"}, effect,
           UNCHANGED <<tokenOf, pushes, unrecorded>>, job' \in Jobs, ~InBatch',
           Working', pc' # "finish"
    PROVE  IInv'
<1> USE DEF IInv
<1>1. PICK b \in Req : b = job.id
  BY DEF Working
<1>2. PICK row \in Rows : row = written
  BY Written
<1>3. /\ row.status # "none"
      /\ pc # "record" => /\ row.cursor = rows[b].cursor /\ row.counted = rows[b].counted
                          /\ row.status # "queued"
      /\ pc # "finish" => row.status # "done"
      /\ pc = "record" => /\ last \in job.batch /\ last > rows[b].cursor /\ row.cursor = last
                          /\ row.status = "sending"
                          /\ row.counted = rows[b].counted + Cardinality(job.batch)
  <2> HIDE DEF IInv
  <2> QED BY <1>1, <1>2, Written
<1>4. PICK invalid \in SUBSET (IF pc = "record" THEN job.batch ELSE {}) :
          /\ audience' = audience \ invalid
          /\ steady' = [a \in Req |-> IF pc = "mark" /\ a = b THEN audience ELSE steady[a] \ invalid]
  <2>1. PICK S \in SUBSET (IF pc = "record" THEN job.batch ELSE {}) :
          /\ audience' = audience \ S
          /\ steady' = [a \in Req |-> IF pc = "mark" /\ a = job.id THEN audience ELSE steady[a] \ S]
    BY Zenon DEF effect
  <2> QED BY <1>1, <2>1, Zenon
<1>5. rows' \in [Req -> Rows] /\ rows'[b] = row /\ \A a \in Req : a # b => rows'[a] = rows[a]
  BY <1>1, <1>2 DEF effect, Types
<1>6. Types'
  <2>1. audience' \subseteq Devices /\ steady' \in [Req -> SUBSET Devices]
    BY <1>4 DEF Types
  <2> QED BY <1>5, <2>1 DEF Types
<1>7. /\ rows[b].cursor \in Nat /\ row.cursor \in Nat /\ row.cursor >= rows[b].cursor
      /\ \A a \in Req : rows[a].cursor \in Nat /\ rows'[a].cursor >= rows[a].cursor
  <2>1. row.cursor \in Nat /\ \A a \in Req : rows[a].cursor \in Nat
    BY TableTypes, RowFields
  <2>2. row.cursor >= rows[b].cursor
    BY <1>3, <2>1
  <2> HIDE DEF IInv
  <2> QED BY <1>5, <2>1, <2>2
<1>8. Stored'
  <2>1. \A a \in Req : rows'[a].status # "none" <=> rows[a].status # "none"
    BY <1>1, <1>3, <1>5 DEF Working
  <2>2. \A a \in Req : rows'[a].status \in {"none", "queued"} => rows'[a] = rows[a]
    BY <1>3, <1>5
  <2> QED BY <2>1, <2>2 DEF Stored
<1>9. pc = "record" => /\ InBatch /\ Sent(b) = job.batch /\ job.cursor = rows[b].cursor
                       /\ job.batch \in SUBSET Devices
                       /\ \A e \in job.batch : e > rows[b].cursor /\ e <= last /\ pushes[b][e] > 0
  <2> SUFFICES ASSUME pc = "record"
               PROVE  /\ InBatch /\ Sent(b) = job.batch /\ job.cursor = rows[b].cursor
                      /\ job.batch \in SUBSET Devices
                      /\ \A e \in job.batch : e > rows[b].cursor /\ e <= last /\ pushes[b][e] > 0
    OBVIOUS
  <2>1. InBatch /\ job.todo = {} /\ job.cursor = rows[b].cursor
    BY <1>1 DEF InBatch, Working
  <2>2. Sent(b) = job.batch
    BY <1>1, <2>1 DEF Sent
  <2>3. \A e \in job.batch : e <= last
    BY <2>1, LastIn
  <2> QED BY <1>1, <2>1, <2>2, <2>3, JobFields DEF Working, Batches
<1>10. \A a \in Req : (Sent(a)' = {}) /\ (Sent(a) # {} => a = b /\ pc = "record")
  BY <1>1 DEF Sent, InBatch
<1>11. Repeats'
  <2> SUFFICES ASSUME NEW a \in Req, NEW e \in Devices
               PROVE  /\ pushes[a][e] <= 1 + unrecorded[a]
                      /\ e > rows'[a].cursor => pushes[a][e] <= unrecorded[a]
    BY <1>10 DEF Repeats
  <2>1. e \in Nat /\ rows[a].cursor \in Nat /\ rows'[a].cursor \in Nat
    BY <1>5, DeviceNumbers, TableTypes, RowFields
  <2>2. e > rows'[a].cursor => e > rows[a].cursor /\ e \notin Sent(a)
    <3>1. e > rows'[a].cursor => e > rows[a].cursor
      BY <1>7, <2>1
    <3>2. ASSUME e > rows'[a].cursor, e \in Sent(a) PROVE FALSE
      <4>1. e <= last /\ rows'[a].cursor = last
        BY <1>3, <1>5, <1>9, <1>10, <3>2
      <4> QED BY <2>1, <3>2, <4>1
    <3> QED BY <3>1, <3>2
  <2> QED BY <2>2 DEF Repeats
<1>12. Counted'
  <2> SUFFICES ASSUME NEW a \in Req PROVE rows'[a].counted <= Cardinality(Reached(a)')
    BY DEF Counted
  <2>1. CASE a # b \/ pc # "record"
    <3>1. rows'[a].cursor = rows[a].cursor /\ rows'[a].counted = rows[a].counted
      BY <1>3, <1>5, <2>1
    <3>2. Reached(a)' = Reached(a)
      BY <3>1 DEF Reached
    <3> QED BY <3>1, <3>2 DEF Counted
  <2>2. CASE a = b /\ pc = "record"
    <3>1. rows'[a].cursor = last /\ rows'[a].counted = rows[a].counted + Cardinality(job.batch)
      BY <1>3, <1>5, <2>2
    <3>2. Reached(a) \cup job.batch \in SUBSET (Reached(a)')
      <4>1. \A e \in Devices : e <= rows[a].cursor => e <= last
        BY <1>3, <1>7, <2>2, <3>1, DeviceNumbers
      <4> QED BY <1>9, <2>2, <3>1, <4>1 DEF Reached
    <3>3. Reached(a) \cap job.batch = {}
      <4>1. \A e \in job.batch : ~(e <= rows[a].cursor)
        <5>1. rows[a].cursor \in Nat /\ \A e \in job.batch : e \in Nat /\ e > rows[a].cursor
          BY <1>7, <1>9, <2>2, DeviceNumbers
        <5> HIDE DEF IInv
        <5> QED BY <5>1
      <4> QED BY <4>1 DEF Reached
    <3>4. IsFiniteSet(job.batch) /\ Cardinality(job.batch) \in Nat
      BY <1>9, <2>2, DeviceNumbers, FS_Subset, FS_CardinalityType
    <3>5. IsFiniteSet(Reached(a)') /\ Cardinality(Reached(a)') \in Nat
      <4>1. Reached(a)' \in SUBSET Devices
        BY DEF Reached
      <4> QED BY <4>1, DeviceNumbers, FS_Subset, FS_CardinalityType
    <3>6. Cardinality(Reached(a) \cup job.batch) = Cardinality(Reached(a)) + Cardinality(job.batch)
      <4>1. Cardinality(Reached(a) \cap job.batch) = 0
        BY <3>3, FS_EmptySet
      <4>2. Cardinality(Reached(a) \cup job.batch)
               = Cardinality(Reached(a)) + Cardinality(job.batch) - Cardinality(Reached(a) \cap job.batch)
        BY <3>4, ReachedFinite, FS_Union
      <4> QED BY <3>4, ReachedFinite, <4>1, <4>2
    <3>7. Cardinality(Reached(a) \cup job.batch) <= Cardinality(Reached(a)')
      BY <3>2, <3>5, FS_Subset
    <3>8. rows[a].counted <= Cardinality(Reached(a)) /\ rows[a].counted \in Nat
      BY TableTypes DEF Counted
    <3> HIDE DEF IInv
    <3> QED BY <3>1, <3>4, <3>5, <3>6, <3>7, <3>8, ReachedFinite
  <2> QED BY <2>1, <2>2
<1>13. Covered'
  <2>1. ASSUME NEW a \in Req PROVE steady'[a] \subseteq audience'
    BY <1>4 DEF Covered
  <2>2. ASSUME NEW a \in Req, NEW d \in steady'[a], d <= rows'[a].cursor PROVE pushes[a][d] > 0
    <3>0. d \in Nat /\ d > 0
      BY <1>6, DeviceNumbers DEF Types
    <3>1. CASE pc = "mark" /\ a = b
      <4>1. rows'[a].cursor = 0
        BY <1>1, <1>3, <1>5, <3>1 DEF Working, Stored
      <4> QED BY <2>2, <3>0, <4>1
    <3>2. CASE ~(pc = "mark" /\ a = b)
      <4>1. d \in steady[a]
        BY <1>4, <3>2
      <4>2. CASE d <= rows[a].cursor
        BY <4>1, <4>2 DEF Covered
      <4>3. CASE ~(d <= rows[a].cursor)
        <5>1. a = b /\ pc = "record"
          BY <1>3, <1>5, <2>2, <4>3
        <5>2. d <= last /\ last \in job.batch /\ d > job.cursor
          BY <1>3, <1>5, <1>7, <1>9, <2>2, <3>0, <4>3, <5>1
        <5>3. d \in job.batch
          BY <1>1, <1>9, <4>1, <5>1, <5>2 DEF Batches
        <5> QED BY <1>9, <5>1, <5>3
      <4> QED BY <4>2, <4>3
    <3> QED BY <3>1, <3>2
  <2>3. ASSUME NEW a \in Req, NEW d \in steady'[a], rows'[a].status = "done" PROVE d <= rows'[a].cursor
    <3>1. CASE a # b
      <4>1. rows'[a] = rows[a] /\ d \in steady[a]
        BY <1>4, <1>5, <3>1
      <4> QED BY <2>3, <4>1 DEF Covered
    <3>2. CASE a = b
      <4>1. pc = "finish" /\ row.cursor = rows[b].cursor
        BY <1>3, <1>5, <2>3, <3>2
      <4>2. d \in steady[b] /\ job.cursor = rows[b].cursor
        BY <1>1, <1>4, <3>2, <4>1 DEF Working
      <4> QED BY <1>1, <1>5, <3>2, <4>1, <4>2 DEF Batches
    <3> QED BY <3>1, <3>2
  <2> QED BY <2>1, <2>2, <2>3 DEF Covered
<1>14. Batches'
  BY DEF Batches
<1> QED BY <1>6, <1>8, <1>11, <1>12, <1>13, <1>14

LEMMA MarkPreserves == ASSUME IInv, MarkSending PROVE IInv'
<1>0. Types /\ Working
  BY DEF IInv
<1>1. pc = "mark" /\ effect /\ pc' = "batch" /\ UNCHANGED <<tokenOf, job, pushes, unrecorded>>
  BY DEF MarkSending
<1>2. /\ job.id \in Req /\ written.status = "sending" /\ written.cursor = rows[job.id].cursor
  BY <1>1, Written
<1>3. rows'[job.id] = written
  BY <1>0, <1>1, <1>2 DEF effect, Types
<1>4. Working' /\ ~InBatch'
  BY <1>0, <1>1, <1>2, <1>3 DEF Working, InBatch
<1>5. job' \in Jobs
  BY <1>0, <1>1 DEF Types
<1> QED BY <1>1, <1>4, <1>5, EffectPreserves

LEMMA RecordPreserves == ASSUME IInv, RecordBatch PROVE IInv'
<1> DEFINE new == [NoJob EXCEPT !.id = job.id, !.cursor = last]
<1>0. Types /\ Working
  BY DEF IInv
<1>1. pc = "record" /\ effect /\ pc' = "batch" /\ UNCHANGED <<tokenOf, pushes, unrecorded>> /\ job' = new
  BY DEF RecordBatch
<1>2. /\ job.id \in Req /\ written.status = "sending" /\ written.cursor = last
      /\ last \in job.batch
  BY <1>1, Written
<1>3. rows'[job.id] = written
  BY <1>0, <1>1, <1>2 DEF effect, Types
<1>4. last \in Nat
  BY <1>0, <1>2, JobFields, DeviceNumbers
<1>5. new \in Jobs /\ new.id = job.id /\ new.cursor = last
  BY <1>2, <1>4, NoJobTyped, ZenonT(30)
<1> HIDE DEF new
<1>6. Working' /\ ~InBatch'
  BY <1>1, <1>2, <1>3, <1>5 DEF Working, InBatch
<1> QED BY <1>1, <1>5, <1>6, EffectPreserves

LEMMA FinishPreserves == ASSUME IInv, Finish PROVE IInv'
<1>1. /\ pc \in {"finish", "giveUp"} /\ effect /\ pc' = "drain" /\ job' = NoJob
      /\ UNCHANGED <<tokenOf, pushes, unrecorded>>
  BY DEF Finish
<1>2. Working' /\ ~InBatch'
  BY <1>1 DEF Working, InBatch
<1> QED BY <1>1, <1>2, NoJobTyped, EffectPreserves

-----------------------------------------------------------------------------
(***************************************************************************)
(* Failures.                                                               *)
(***************************************************************************)
LEMMA StoreErrorPreserves == ASSUME IInv, NEW effective \in BOOLEAN, storeError(effective) PROVE IInv'
<1> DEFINE new == [NoJob EXCEPT !.id = job.id]
<1>0. Types /\ Working
  BY DEF IInv
<1>1. /\ pc \in {"mark", "batch", "record", "finish", "giveUp"} /\ (effective => pc # "batch")
      /\ UNCHANGED <<tokenOf, pushes>> /\ pc' \in {"giveUp", "waiting"}
      /\ job' = IF pc' = "giveUp" THEN new ELSE NoJob
  BY DEF storeError
<1>2. job.id \in Req /\ rows[job.id].status # "none"
  BY <1>0, <1>1 DEF Working
<1>3. new \in Jobs /\ new.id = job.id
  BY <1>2, NoJobTyped
<1> HIDE DEF new
<1>4. job' \in Jobs /\ (pc' = "giveUp" => job'.id = job.id)
  BY <1>1, <1>3, NoJobTyped
<1>5. CASE effective
  <2>1. effect /\ pc \in {"mark", "record", "finish", "giveUp"}
    BY <1>1, <1>5 DEF storeError
  <2>2. UNCHANGED unrecorded
    BY <1>0, <1>2, <1>5 DEF storeError, Types
  <2>3. rows'[job.id] = written /\ written.status # "none"
    BY <1>0, <1>2, <2>1, Written DEF effect, Types
  <2>4. Working' /\ ~InBatch' /\ pc' # "finish"
    BY <1>1, <1>2, <1>4, <2>3 DEF Working, InBatch
  <2> QED BY <1>1, <1>4, <2>1, <2>2, <2>4, EffectPreserves
<1>6. CASE ~effective
  <2>1. UNCHANGED <<rows, audience, steady>>
    BY <1>0, <1>2, <1>6 DEF storeError, rolledBack, Types
  <2>2. unrecorded' = IF InBatch THEN [unrecorded EXCEPT ![job.id] = @ + 1] ELSE unrecorded
    BY <1>0, <1>1, <1>2, <1>6 DEF storeError, InBatch, Types
  <2>3. pc' \in {"drain", "waiting", "stopped", "giveUp"}
    BY <1>1
  <2> QED BY <1>1, <1>2, <1>4, <2>1, <2>2, <2>3, PutDown
<1> QED BY <1>5, <1>6

LEMMA RestartedPreserves == ASSUME IInv, restarted PROVE IInv'
BY NoJobTyped, PutDown DEF restarted, InBatch

LEMMA WaitPreserves == ASSUME IInv, ticked \/ stops \/ nextPendingFails PROVE IInv'
<1>1. UNCHANGED <<tokenOf, rows, pushes, audience, steady>>
      /\ pc' \in {"drain", "waiting", "stopped"} /\ job' \in {job, NoJob}
  BY DEF ticked, stops, nextPendingFails, ghosts
<1>2. UNCHANGED unrecorded /\ ~InBatch
  BY DEF ticked, stops, nextPendingFails, ghosts, InBatch
<1>3. job' \in Jobs
  BY <1>1, NoJobTyped DEF IInv, Types
<1> QED BY <1>1, <1>2, <1>3, PutDown

LEMMA Inductive == IInv /\ [Next]_vars => IInv'
<1> SUFFICES ASSUME IInv, [Next]_vars PROVE IInv'
    OBVIOUS
<1>1. ASSUME NEW q \in Req, idByToken(q) \/ refused(q) PROVE IInv'
  BY <1>1, FormPreserves DEF idByToken, refused, worker
<1>2. ASSUME NEW q \in Req, Create(q) PROVE IInv'
  BY <1>2, CreatePreserves
<1>3. ASSUME NEW d \in Devices, Move(d) PROVE IInv'
  BY <1>3, MovePreserves
<1>4. CASE ticked \/ stops \/ nextPendingFails
  BY <1>4, WaitPreserves
<1>5. CASE NextPending
  BY <1>5, NextPendingPreserves
<1>6. CASE MarkSending
  BY <1>6, MarkPreserves
<1>7. CASE NextTargets
  BY <1>7, NextTargetsPreserves
<1>8. ASSUME NEW d \in Devices, Send(d) PROVE IInv'
  BY <1>8, SendPreserves
<1>9. CASE RecordBatch
  BY <1>9, RecordPreserves
<1>10. CASE Finish
  BY <1>10, FinishPreserves
<1>11. ASSUME NEW c \in BOOLEAN, storeError(c) PROVE IInv'
  BY <1>11, StoreErrorPreserves
<1>12. CASE Shutdown
  BY <1>12, FormPreserves DEF Shutdown, worker
<1>13. CASE Crash \/ Restart
  BY <1>13, RestartedPreserves DEF Crash, Restart
<1>14. CASE UNCHANGED vars
  BY <1>14, FormPreserves DEF vars, ghosts
<1> QED BY <1>1, <1>2, <1>3, <1>4, <1>5, <1>6, <1>7, <1>8, <1>9, <1>10, <1>11, <1>12, <1>13, <1>14
        DEF Next, workerStep

\* What the worker, its record and its cursor know of each other holds through
\* every step of the form, the worker and the process (process, RecordBatch).
THEOREM Invariance == Spec => []IInv
BY Initial, Inductive, PTL DEF Spec

-----------------------------------------------------------------------------
(***************************************************************************)
(* A broadcast is done only when every device that stayed in the audience  *)
(* was tried, whatever faults, crashes and shutdowns came between: the     *)
(* cursor passes nobody who was not pushed to (process, RecordBatch).      *)
(***************************************************************************)
THEOREM NobodySkipped == Spec => []DoneReachedAll
<1>1. IInv => DoneReachedAll
  BY DEF IInv, Covered, DoneReachedAll
<1> QED BY <1>1, Invariance, PTL

(***************************************************************************)
(* A submit token stands for one broadcast; each lost record explains one  *)
(* more push to a device, and the counters never exceed the devices that   *)
(* were pushed to (Create, RecordBatch).                                   *)
(***************************************************************************)
THEOREM RepeatsExplained == Spec => []RepeatsOnlyAfterLoss
<1>1. IInv => RepeatsOnlyAfterLoss
  <2> SUFFICES ASSUME IInv, NEW a \in Req, NEW b \in Req, NEW d \in Devices
               PROVE  /\ tokenOf[a] = tokenOf[b] /\ pushes[a][d] > 0 /\ pushes[b][d] > 0 => a = b
                      /\ pushes[a][d] <= 1 + unrecorded[a]
                      /\ rows[a].counted <= Cardinality({e \in Devices : pushes[a][e] > 0})
    BY DEF RepeatsOnlyAfterLoss
  <2> DEFINE P == {e \in Devices : pushes[a][e] > 0}
  <2>1. Reached(a) \in SUBSET P /\ P \in SUBSET Devices
    BY DEF Reached
  <2> HIDE DEF P
  <2>2. IsFiniteSet(P) /\ Cardinality(P) \in Nat /\ Cardinality(Reached(a)) <= Cardinality(P)
    BY <2>1, DeviceNumbers, FS_Subset, FS_CardinalityType
  <2>3. rows[a].counted <= Cardinality(Reached(a)) /\ rows[a].counted \in Nat
    BY TableTypes DEF IInv, Counted
  <2>4. rows[a].counted <= Cardinality(P)
    BY <2>2, <2>3, ReachedFinite
  <2>5. /\ tokenOf[a] = tokenOf[b] /\ pushes[a][d] > 0 /\ pushes[b][d] > 0 => a = b
        /\ pushes[a][d] <= 1 + unrecorded[a]
    BY DEF IInv, Stored, Repeats
  <2> QED BY <2>4, <2>5 DEF P
<1> QED BY <1>1, Invariance, PTL
=============================================================================
