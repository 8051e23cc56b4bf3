--------------------------- MODULE IngestProofs ---------------------------
(* Proofs about the ingest queue, for any number of operations, workers    *)
(* and blobs, any cap and any number of deaths and lapsed leases.          *)
EXTENDS Ingest, FiniteSetTheorems, TLAPS

(* Why the lease fences: a token names one lease for ever.  Tokens are     *)
(* handed out in order, a worker at work holds one, and no two hold the    *)
(* same.                                                                   *)
LeasesDistinct ==
    /\ \A o \in Operations : op[o].token <= tokens
    /\ \A w \in Workers :
         /\ worker[w].token <= tokens
         /\ worker[w].step = "resting" => worker[w] = Resting
         /\ worker[w].step # "resting" => worker[w].op \in Operations /\ worker[w].token # NoToken
    /\ \A v, w \in Workers :
         v # w /\ worker[v].token # NoToken => worker[v].token # worker[w].token

IngestInv == TypeOK /\ RowsConsistent /\ ResultOnce /\ LeasesDistinct

LEMMA InitInv == Init => IngestInv
BY IngestAssumption
   DEF Init, IngestInv, TypeOK, RowsConsistent, ResultOnce, LeasesDistinct,
       NoOp, Resting, Waiting, Ended, NoToken

OpType == [status: {"absent"} \cup Waiting \cup Ended, blob: Blobs \cup {NoBlob},
           target: Operations \cup {NoAsset}, attempts: Nat, token: Nat,
           ready: BOOLEAN, lapsed: BOOLEAN]
WorkerType == [step: {"resting", "reading", "prepared", "refused", "broken"},
               op: Operations \cup {NoAsset}, token: Nat, attempts: Nat]

(* A worker that lets go keeps the tokens distinct.                        *)
LEMMA RestsKeeps ==
    ASSUME IngestInv, NEW w \in Workers, Rests(w), tokens' = tokens,
           op' \in [Operations -> OpType],
           \A o \in Operations : op'[o].token <= op[o].token
    PROVE  worker' \in [Workers -> WorkerType] /\ LeasesDistinct'
<1>1. worker' = [worker EXCEPT ![w] = Resting] /\ Resting.token = 0 /\ Resting.step = "resting"
      /\ Resting \in WorkerType
  BY DEF Rests, Resting, NoToken, WorkerType
<1>2. \A v \in Workers : worker'[v] = worker[v] \/ worker'[v] = Resting
  BY <1>1 DEF IngestInv, TypeOK
<1> QED
  BY <1>1, <1>2 DEF IngestInv, TypeOK, LeasesDistinct, NoToken, OpType, WorkerType

(* One step further with the same job.                                     *)
LEMMA AdvanceKeeps ==
    ASSUME IngestInv, NEW w \in Workers, NEW step \in {"prepared", "refused", "broken"},
           worker[w].step # "resting",
           worker' = [worker EXCEPT ![w].step = step], UNCHANGED <<op, catalog, tokens, faults>>
    PROVE  IngestInv'
<1>1. worker' \in [Workers -> WorkerType]
      /\ \A v \in Workers : /\ worker'[v].op = worker[v].op /\ worker'[v].token = worker[v].token
                            /\ v # w => worker'[v] = worker[v]
      /\ worker'[w].step # "resting"
  BY DEF IngestInv, TypeOK, WorkerType
<1>2. TypeOK' /\ RowsConsistent' /\ ResultOnce'
  BY <1>1 DEF IngestInv, TypeOK, WorkerType, catalog, RowsConsistent, ResultOnce
<1>3. LeasesDistinct'
  BY <1>1 DEF IngestInv, LeasesDistinct
<1> QED
  BY <1>2, <1>3 DEF IngestInv

(* One operation changed, and nothing of the catalog but its result.       *)
LEMMA OpKeeps ==
    ASSUME IngestInv, NEW o \in Operations, NEW new \in OpType,
           op' = [op EXCEPT ![o] = new],
           new.status = "processing" <=> new.token # NoToken,
           new.status \in Waiting <=> new.blob # NoBlob,
           new.lapsed => new.status = "processing"
    PROVE  op' \in [Operations -> OpType] /\ RowsConsistent'
           /\ (results' = results /\ (op[o].status = "success" <=> new.status = "success")
               => ResultOnce')
<1>1. op' \in [Operations -> OpType] /\ op'[o] = new
      /\ \A q \in Operations : q # o => op'[q] = op[q]
  BY DEF IngestInv, TypeOK, OpType
<1>2. RowsConsistent'
  BY <1>1 DEF IngestInv, RowsConsistent
<1>3. (results' = results /\ (op[o].status = "success" <=> new.status = "success")) => ResultOnce'
  BY <1>1 DEF IngestInv, ResultOnce
<1> QED
  BY <1>1, <1>2, <1>3

-----------------------------------------------------------------------------
(* Every action keeps the invariant.                                       *)

LEMMA AcceptInv ==
    ASSUME IngestInv, NEW o \in Operations, NEW b \in Blobs,
           NEW t \in Operations \cup {NoAsset}, Accept(o, b, t)
    PROVE  IngestInv'
<1> DEFINE new == [NoOp EXCEPT !.status = "pending", !.blob = b, !.target = t, !.ready = TRUE]
<1>1. op' = [op EXCEPT ![o] = new] /\ op[o].status = "absent"
      /\ UNCHANGED <<catalog, worker, tokens, faults>>
  BY DEF Accept
<1>2. new \in OpType /\ new.status = "pending" /\ new.blob = b /\ new.token = 0 /\ new.lapsed = FALSE
  BY DEF NoOp, OpType, Waiting, NoToken
<1> HIDE DEF new
<1>3. op' \in [Operations -> OpType] /\ RowsConsistent' /\ ResultOnce'
  BY <1>1, <1>2, OpKeeps, IngestAssumption DEF catalog, NoToken, Waiting
<1>4. TypeOK'
  BY <1>1, <1>3 DEF IngestInv, TypeOK, catalog, OpType
<1>5. \A q \in Operations : op'[q].token <= tokens
  BY <1>1, <1>2 DEF IngestInv, LeasesDistinct, TypeOK
<1>6. LeasesDistinct'
  BY <1>1, <1>5 DEF IngestInv, LeasesDistinct
<1> QED
  BY <1>3, <1>4, <1>6 DEF IngestInv

LEMMA LeaseInv ==
    ASSUME IngestInv, NEW w \in Workers, NEW o \in Operations, Lease(w, o)
    PROVE  IngestInv'
<1> DEFINE new == [status |-> "processing", blob |-> op[o].blob, target |-> op[o].target,
                   attempts |-> op[o].attempts + 1, token |-> tokens + 1,
                   ready |-> op[o].ready, lapsed |-> FALSE]
           job == [step |-> "reading", op |-> o, token |-> tokens + 1,
                   attempts |-> op[o].attempts + 1]
<1>1. tokens \in Nat /\ op[o] \in OpType /\ tokens' = tokens + 1
      /\ worker \in [Workers -> WorkerType] /\ op \in [Operations -> OpType]
  BY DEF IngestInv, TypeOK, OpType, WorkerType, Lease
<1>2. op' = [op EXCEPT ![o] = new] /\ worker' = [worker EXCEPT ![w] = job]
      /\ UNCHANGED <<catalog, faults>>
  BY <1>1 DEF Lease, OpType
<1>3. op[o].status \in Waiting
  BY DEF Lease, Leasable, Waiting
<1>4. new \in OpType /\ new.status = "processing" /\ new.token = tokens + 1
      /\ new.blob = op[o].blob /\ new.lapsed = FALSE
  BY <1>1 DEF OpType, Waiting
<1>5. job \in WorkerType /\ job.step = "reading" /\ job.op = o /\ job.token = tokens + 1
  BY <1>1 DEF OpType, WorkerType
<1> HIDE DEF new, job
<1>6. op[o].blob # NoBlob /\ op[o].status # "success" /\ new.token # NoToken
  BY <1>1, <1>3, <1>4 DEF IngestInv, RowsConsistent, Waiting, NoToken
<1>7. op' \in [Operations -> OpType] /\ RowsConsistent' /\ ResultOnce'
  BY <1>2, <1>4, <1>6, OpKeeps DEF catalog, Waiting
<1>8. TypeOK'
  BY <1>1, <1>2, <1>5, <1>7 DEF IngestInv, TypeOK, catalog, OpType, WorkerType
<1>9. \A q \in Operations : op'[q].token <= tokens'
  BY <1>1, <1>2, <1>4 DEF IngestInv, LeasesDistinct, OpType
<1>10. worker'[w] = job /\ \A v \in Workers : v # w => worker'[v] = worker[v]
  BY <1>1, <1>2
<1>11. LeasesDistinct'
  BY <1>1, <1>5, <1>9, <1>10 DEF IngestInv, LeasesDistinct, WorkerType, NoToken
<1> QED
  BY <1>7, <1>8, <1>11 DEF IngestInv

LEMMA FinishFailureInv ==
    ASSUME IngestInv, NEW w \in Workers, FinishFailure(w)
    PROVE  IngestInv'
<1> DEFINE o == worker[w].op
           new == IF Retries(w) THEN Retried(w) ELSE FailedOp(o)
<1>1. o \in Operations /\ Rests(w) /\ UNCHANGED <<catalog, tokens, faults>>
  BY DEF FinishFailure, IngestInv, LeasesDistinct
<1>2. op[o] \in OpType /\ op \in [Operations -> OpType]
  BY <1>1 DEF IngestInv, TypeOK, OpType
<1>3. CASE ~HoldsLease(w)
  <2>1. op' = op
    BY <1>3 DEF FinishFailure
  <2>2. worker' \in [Workers -> WorkerType] /\ LeasesDistinct'
    BY <1>1, <1>2, <2>1, RestsKeeps DEF OpType
  <2> QED
    BY <1>1, <2>1, <2>2 DEF IngestInv, TypeOK, RowsConsistent, ResultOnce, catalog, WorkerType
<1>4. CASE HoldsLease(w)
  <2>1. op' = [op EXCEPT ![o] = new] /\ op[o].status = "processing" /\ op[o].blob # NoBlob
    BY <1>1, <1>4 DEF FinishFailure, HoldsLease, IngestInv, RowsConsistent, Waiting
  <2>2. new \in OpType /\ new.status \in {"pending", "failed"} /\ new.token = 0
        /\ new.lapsed = FALSE /\ (new.status = "pending" => new.blob = op[o].blob)
        /\ (new.status = "failed" => new.blob = NoBlob)
    BY <1>1, <1>2 DEF Retried, FailedOp, OpType, Waiting, Ended, NoToken
  <2> HIDE DEF new, o
  <2>3. op' \in [Operations -> OpType] /\ RowsConsistent' /\ ResultOnce'
    BY <1>1, <2>1, <2>2, OpKeeps DEF catalog, NoToken, Waiting
  <2>4. \A q \in Operations : op'[q].token <= op[q].token
    BY <1>1, <1>2, <2>1, <2>2 DEF OpType
  <2>5. worker' \in [Workers -> WorkerType] /\ LeasesDistinct'
    BY <1>1, <2>3, <2>4, RestsKeeps
  <2> QED
    BY <1>1, <2>3, <2>5 DEF IngestInv, TypeOK, catalog, WorkerType, OpType
<1> QED
  BY <1>3, <1>4

(* The result and the operation's end go together: the operation was under *)
(* this worker's lease, so nothing had been written for it.                *)
LEMMA FinalizeInv ==
    ASSUME IngestInv, NEW w \in Workers, Finalize(w)
    PROVE  IngestInv'
<1> DEFINE o == worker[w].op
           a == IF op[o].target = NoAsset THEN o ELSE op[o].target
           new == [op[o] EXCEPT !.status = "success", !.blob = NoBlob,
                                !.token = NoToken, !.lapsed = FALSE]
<1>1. o \in Operations /\ Rests(w) /\ UNCHANGED <<tokens, faults>>
  BY DEF Finalize, IngestInv, LeasesDistinct
<1>2. op[o] \in OpType /\ op \in [Operations -> OpType] /\ op[o].status = "processing"
  BY <1>1 DEF IngestInv, TypeOK, OpType, Finalize, HoldsLease
<1>3. op[o].blob \in Blobs /\ a \in Operations
  BY <1>1, <1>2 DEF IngestInv, RowsConsistent, OpType, Waiting
<1>4. /\ op' = [op EXCEPT ![o] = new]
      /\ asset' = [asset EXCEPT ![a] = "live"]
      /\ files' = [files EXCEPT ![a] = @ \cup {op[o].blob}]
      /\ media' = [media EXCEPT ![a] = @ \cup Extracts[op[o].blob]]
      /\ results' = [results EXCEPT ![o] = @ + 1]
  BY <1>1, <1>2 DEF Finalize, OpType
<1>5. new \in OpType /\ new.status = "success" /\ new.blob = NoBlob /\ new.token = 0
      /\ new.lapsed = FALSE
  BY <1>2 DEF OpType, Ended, NoToken
<1> HIDE DEF new, o, a
<1>6. op' \in [Operations -> OpType] /\ RowsConsistent'
  BY <1>1, <1>4, <1>5, OpKeeps DEF NoToken, Waiting
<1>7. \A q \in Operations : op'[q].token <= op[q].token
  BY <1>1, <1>2, <1>4, <1>5 DEF OpType
<1>8. worker' \in [Workers -> WorkerType] /\ LeasesDistinct'
  BY <1>1, <1>6, <1>7, RestsKeeps
<1>9. /\ asset' \in [Operations -> {"none", "live", "frozen", "deleted", "gone"}]
      /\ files' \in [Operations -> SUBSET Blobs] /\ media' \in [Operations -> SUBSET Blobs]
      /\ results' \in [Operations -> Nat]
  BY <1>1, <1>3, <1>4, IngestAssumption DEF IngestInv, TypeOK
<1>10. TypeOK'
  BY <1>1, <1>6, <1>8, <1>9 DEF IngestInv, TypeOK, WorkerType, OpType
<1>11. ResultOnce'
  BY <1>1, <1>2, <1>4, <1>5 DEF IngestInv, ResultOnce, TypeOK, OpType
<1> QED
  BY <1>6, <1>8, <1>10, <1>11 DEF IngestInv

(* A purge ends operations that wait, never one that ended.                *)
LEMMA PurgeInv ==
    ASSUME IngestInv, NEW b \in Blobs, Purge(b)
    PROVE  IngestInv' /\ \A o \in Operations : op[o].status \in Ended => op'[o] = op[o]
<1>1. op \in [Operations -> OpType] /\ b # NoBlob
  BY IngestAssumption DEF IngestInv, TypeOK, OpType
<1>2. /\ op' = [o \in Operations |-> IF op[o].blob = b THEN FailedOp(o) ELSE op[o]]
      /\ UNCHANGED <<asset, results, worker, tokens, faults>>
  BY DEF Purge
<1>3. ASSUME NEW o \in Operations, op[o].blob = b
      PROVE  op'[o] \in OpType /\ op'[o].status = "failed" /\ op'[o].blob = NoBlob
             /\ op'[o].token = 0 /\ op'[o].lapsed = FALSE
             /\ op[o].status \in Waiting
  <2>1. op[o] \in OpType /\ op'[o] = FailedOp(o)
    BY <1>1, <1>2, <1>3
  <2>2. op[o].status \in Waiting
    BY <1>1, <1>3 DEF IngestInv, RowsConsistent
  <2>3. op'[o] \in OpType
    <3>1. FailedOp(o) \in OpType
      BY <1>1, <2>1 DEF FailedOp, OpType, Waiting, Ended, NoToken
    <3> QED
      BY <2>1, <3>1
  <2>4. op'[o].status = "failed" /\ op'[o].blob = NoBlob /\ op'[o].token = 0
        /\ op'[o].lapsed = FALSE
    BY <2>1 DEF FailedOp, OpType, NoToken
  <2> QED
    BY <2>2, <2>3, <2>4
<1>4. \A o \in Operations : op[o].blob # b => op'[o] = op[o]
  BY <1>2
<1>5. op' \in [Operations -> OpType]
  BY <1>1, <1>2, <1>3, <1>4
<1>6. files' \in [Operations -> SUBSET Blobs] /\ media' \in [Operations -> SUBSET Blobs]
  BY DEF Purge, IngestInv, TypeOK
<1>7. TypeOK'
  BY <1>2, <1>5, <1>6 DEF IngestInv, TypeOK, OpType
<1>8. RowsConsistent' /\ ResultOnce'
  <2> SUFFICES ASSUME NEW o \in Operations
               PROVE  /\ op'[o].status = "processing" <=> op'[o].token # NoToken
                      /\ op'[o].status \in Waiting <=> op'[o].blob # NoBlob
                      /\ op'[o].lapsed => op'[o].status = "processing"
                      /\ results'[o] = (IF op'[o].status = "success" THEN 1 ELSE 0)
    BY DEF RowsConsistent, ResultOnce
  <2>1. CASE op[o].blob = b
    BY <1>2, <1>3, <2>1 DEF IngestInv, ResultOnce, Waiting, NoToken
  <2>2. CASE op[o].blob # b
    BY <1>2, <1>4, <2>2 DEF IngestInv, ResultOnce, RowsConsistent
  <2> QED
    BY <2>1, <2>2
<1>9. \A o \in Operations : op'[o].token <= tokens
  <2>1. ASSUME NEW o \in Operations, op[o].blob = b PROVE op'[o].token <= tokens
    <3>1. op'[o].token = 0
      BY <1>3, <2>1
    <3>2. tokens \in Nat
      BY DEF IngestInv, TypeOK
    <3> QED
      BY <3>1, <3>2
  <2> QED
    BY <1>4, <2>1 DEF IngestInv, LeasesDistinct
<1>10. LeasesDistinct'
  BY <1>2, <1>9 DEF IngestInv, LeasesDistinct
<1>11. \A o \in Operations : op[o].status \in Ended => op'[o] = op[o]
  BY <1>3, <1>4 DEF Ended, Waiting
<1> QED
  BY <1>7, <1>8, <1>10, <1>11 DEF IngestInv

(* A flag of an operation turns, and perhaps a fault is spent.             *)
LEMMA FlagInv ==
    ASSUME IngestInv, NEW o \in Operations,
           LeaseLapses(o) \/ RetryComesDue(o)
    PROVE  IngestInv' /\ \A q \in Operations : op'[q].status = op[q].status
<1>1. op \in [Operations -> OpType] /\ UNCHANGED <<catalog, worker, tokens>>
  BY DEF IngestInv, TypeOK, OpType, LeaseLapses, RetryComesDue, Fault
<1>2. faults' \in 0..Faults
  BY IngestAssumption DEF IngestInv, TypeOK, LeaseLapses, RetryComesDue, Fault
<1>3. op' \in [Operations -> OpType]
      /\ \A q \in Operations : /\ op'[q].status = op[q].status /\ op'[q].blob = op[q].blob
                               /\ op'[q].token = op[q].token
                               /\ op'[q].lapsed => op[q].lapsed \/ op[q].status = "processing"
  <2>1. CASE LeaseLapses(o)
    <3>1. op' = [op EXCEPT ![o].lapsed = TRUE] /\ op[o].status = "processing"
      BY <2>1 DEF LeaseLapses
    <3> QED
      BY <1>1, <3>1 DEF OpType
  <2>2. CASE RetryComesDue(o)
    <3>1. op' = [op EXCEPT ![o].ready = TRUE]
      BY <2>2 DEF RetryComesDue
    <3> QED
      BY <1>1, <3>1 DEF OpType
  <2> QED
    BY <2>1, <2>2
<1>4. TypeOK'
  BY <1>1, <1>2, <1>3 DEF IngestInv, TypeOK, catalog, OpType
<1>5. RowsConsistent' /\ ResultOnce' /\ LeasesDistinct'
  BY <1>1, <1>3 DEF IngestInv, RowsConsistent, ResultOnce, LeasesDistinct, catalog
<1> QED
  BY <1>3, <1>4, <1>5 DEF IngestInv

LEMMA AssetChangesInv ==
    ASSUME IngestInv, NEW a \in Operations,
           AssetChanges(a) \/ \E b \in Pictures : AddMedia(a, b)
    PROVE  IngestInv'
<1>1. /\ asset' \in [Operations -> {"none", "live", "frozen", "deleted", "gone"}]
      /\ media' \in [Operations -> SUBSET Blobs]
      /\ UNCHANGED <<op, files, results, worker, tokens, faults>>
  <2>1. CASE AssetChanges(a)
    BY <2>1 DEF AssetChanges, IngestInv, TypeOK
  <2>2. ASSUME NEW b \in Pictures, AddMedia(a, b) PROVE media' \in [Operations -> SUBSET Blobs]
    BY <2>2, IngestAssumption DEF AddMedia, IngestInv, TypeOK
  <2> QED
    BY <2>1, <2>2 DEF AddMedia, IngestInv, TypeOK
<1> QED
  BY <1>1 DEF IngestInv, TypeOK, RowsConsistent, ResultOnce, LeasesDistinct

(* A worker rests, and the tables stay as they are.                        *)
LEMMA LetGoInv ==
    ASSUME IngestInv, NEW w \in Workers, LeaseLost(w) \/ WorkerDies(w)
    PROVE  IngestInv' /\ op' = op
<1>1. Rests(w) /\ UNCHANGED <<op, catalog, tokens>> /\ faults' \in 0..Faults
  BY IngestAssumption DEF LeaseLost, WorkerDies, Fault, IngestInv, TypeOK
<1>2. op \in [Operations -> OpType]
  BY DEF IngestInv, TypeOK, OpType
<1>3. worker' \in [Workers -> WorkerType] /\ LeasesDistinct'
  BY <1>1, <1>2, RestsKeeps DEF OpType
<1> QED
  BY <1>1, <1>3 DEF IngestInv, TypeOK, RowsConsistent, ResultOnce, catalog, WorkerType

LEMMA ReadInv ==
    ASSUME IngestInv, NEW w \in Workers, Read(w) \/ FinalizeRefused(w)
    PROVE  IngestInv' /\ op' = op
BY AdvanceKeeps DEF Read, FinalizeRefused

LEMMA NextInv == IngestInv /\ [Next]_vars => IngestInv'
<1> SUFFICES ASSUME IngestInv, [Next]_vars PROVE IngestInv'
  OBVIOUS
<1>1. CASE UNCHANGED vars
  BY <1>1 DEF vars, catalog, IngestInv, TypeOK, RowsConsistent, ResultOnce, LeasesDistinct
<1>2. ASSUME NEW o \in Operations, NEW b \in Blobs, NEW t \in Operations \cup {NoAsset},
             Accept(o, b, t)
      PROVE  IngestInv'
  BY <1>2, AcceptInv
<1>3. ASSUME NEW o \in Operations, LeaseLapses(o) \/ RetryComesDue(o) \/ AssetChanges(o)
      PROVE  IngestInv'
  BY <1>3, FlagInv, AssetChangesInv
<1>4. ASSUME NEW w \in Workers, Works(w) PROVE IngestInv'
  BY <1>4, LeaseInv, ReadInv, FinishFailureInv, LetGoInv, FinalizeInv DEF Works
<1>5. ASSUME NEW w \in Workers, WorkerDies(w) PROVE IngestInv'
  BY <1>5, LetGoInv
<1>6. ASSUME NEW w \in Workers, FindsNothing(w) PROVE IngestInv'
  BY <1>1, <1>6 DEF FindsNothing
<1>7. ASSUME NEW b \in Blobs, Purge(b) PROVE IngestInv'
  BY <1>7, PurgeInv
<1>8. ASSUME NEW o \in Operations, NEW b \in Pictures, AddMedia(o, b) PROVE IngestInv'
  BY <1>8, AssetChangesInv
<1> QED
  BY <1>1, <1>2, <1>3, <1>4, <1>5, <1>6, <1>7, <1>8 DEF Next

LEMMA AlwaysInv == Spec => []IngestInv
BY InitInv, NextInv, PTL DEF Spec

-----------------------------------------------------------------------------
(* The queue is well typed, and no statement breaks the table's own        *)
(* constraints on lease and file.                                          *)
THEOREM IngestRowsConsistent == Spec => [](TypeOK /\ RowsConsistent)
<1>1. IngestInv => TypeOK /\ RowsConsistent
  BY DEF IngestInv
<1> QED
  BY AlwaysInv, <1>1, PTL

(* However many workers come to hold an operation, and however they die,   *)
(* finalizeIngest writes its result once when it succeeds and never        *)
(* otherwise.                                                              *)
THEOREM WrittenOnce == Spec => []ResultOnce
<1>1. IngestInv => ResultOnce
  BY DEF IngestInv
<1> QED
  BY AlwaysInv, <1>1, PTL

(* The lease token fences: of the workers on one operation at most one can *)
(* still pass the condition of finalizeIngest, retryIngest or failIngest.  *)
THEOREM LeaseFences == Spec => []OneWriter
<1>1. IngestInv => OneWriter
  <2> SUFFICES ASSUME IngestInv, NEW v \in Workers, NEW w \in Workers, v # w,
                      worker[v].op = worker[w].op, worker[v].op # NoAsset,
                      HoldsLease(v), HoldsLease(w)
               PROVE  FALSE
    BY DEF OneWriter
  <2>1. worker[v].token = worker[w].token
    BY DEF HoldsLease
  <2>2. worker[v].op = NoAsset \/ worker[v].token # NoToken
    BY DEF IngestInv, LeasesDistinct, Resting
  <2> QED
    BY <2>1, <2>2 DEF IngestInv, LeasesDistinct
<1> QED
  BY AlwaysInv, <1>1, PTL

(* An operation that succeeded or failed stays so, a purge of its file     *)
(* included.                                                               *)
THEOREM OutcomesStay == Spec => OutcomeFinal
<1> DEFINE Kept == \A o \in Operations : op[o].status \in Ended => op'[o].status = op[o].status
<1>1. IngestInv /\ [Next]_vars => [Kept]_vars
  <2> SUFFICES ASSUME IngestInv, Next PROVE Kept
    OBVIOUS
  <2>1. op \in [Operations -> OpType]
    BY DEF IngestInv, TypeOK, OpType
  <2>2. ASSUME op' = op PROVE Kept
    BY <2>2
  <2>3. ASSUME NEW o \in Operations, op[o].status \notin Ended,
               \A q \in Operations : q # o => op'[q] = op[q]
        PROVE  Kept
    BY <2>3
  <2>4. ASSUME NEW o \in Operations, NEW b \in Blobs, NEW t \in Operations \cup {NoAsset},
               Accept(o, b, t)
        PROVE  Kept
    BY <2>1, <2>3, <2>4 DEF Accept, Ended
  <2>5. ASSUME NEW o \in Operations, LeaseLapses(o) \/ RetryComesDue(o) \/ AssetChanges(o)
        PROVE  Kept
    BY <2>2, <2>5, FlagInv DEF AssetChanges
  <2>6. ASSUME NEW w \in Workers, Works(w) PROVE Kept
    <3>1. ASSUME NEW o \in Operations, Lease(w, o) PROVE Kept
      BY <2>1, <2>3, <3>1 DEF Lease, Leasable, Ended
    <3>2. CASE Read(w) \/ FinalizeRefused(w) \/ LeaseLost(w)
      BY <2>2, <3>2, ReadInv, LetGoInv
    <3>3. CASE FinishFailure(w)
      <4>1. worker[w].op \in Operations
        BY <3>3 DEF FinishFailure, IngestInv, LeasesDistinct
      <4>2. CASE HoldsLease(w)
        BY <2>1, <2>3, <3>3, <4>1, <4>2 DEF FinishFailure, HoldsLease, Ended
      <4>3. CASE ~HoldsLease(w)
        BY <2>2, <3>3, <4>3 DEF FinishFailure
      <4> QED
        BY <4>2, <4>3
    <3>4. CASE Finalize(w)
      <4>1. worker[w].op \in Operations /\ op[worker[w].op].status \notin Ended
        BY <3>4 DEF Finalize, HoldsLease, Ended, IngestInv, LeasesDistinct
      <4>2. \A q \in Operations : q # worker[w].op => op'[q] = op[q]
        BY <2>1, <3>4, <4>1 DEF Finalize
      <4> QED
        BY <2>3, <4>1, <4>2
    <3> QED
      BY <2>6, <3>1, <3>2, <3>3, <3>4 DEF Works
  <2>7. ASSUME NEW w \in Workers, WorkerDies(w) \/ FindsNothing(w) PROVE Kept
    BY <2>2, <2>7, LetGoInv DEF FindsNothing, vars
  <2>8. ASSUME NEW b \in Blobs, Purge(b) PROVE Kept
    BY <2>8, PurgeInv
  <2>9. ASSUME NEW o \in Operations, NEW b \in Pictures, AddMedia(o, b) PROVE Kept
    BY <2>2, <2>9 DEF AddMedia
  <2> HIDE DEF Kept
  <2> QED
    BY <2>4, <2>5, <2>6, <2>7, <2>8, <2>9 DEF Next
<1> QED
  BY AlwaysInv, <1>1, PTL DEF Spec, OutcomeFinal

(* The ingest table stays within its types and constraints, and each       *)
(* result is written once.                                                 *)
THEOREM IngestStaysSound == Spec => []IngestSound
BY IngestRowsConsistent, WrittenOnce, PTL DEF IngestSound

-----------------------------------------------------------------------------
(* The storage cap.  ensureAccountStorage counts what the account holds    *)
(* before the write, so what matters is that nothing but the blobs it was  *)
(* asked about comes to be counted.  Finalize could bring back the files   *)
(* of an asset past recovery if an operation were finished twice: an asset *)
(* is there only once its operation succeeded, and has nothing before.     *)
(* What a replaced file held goes on counting, so a new revision is asked  *)
(* about on top of it.                                                     *)
AssetsAreResults ==
    \A o \in Operations :
        /\ asset[o] # "none" => op[o].status = "success"
        /\ asset[o] = "none" => files[o] = {} /\ media[o] = {}

CapInv == IngestInv /\ AssetsAreResults /\ WithinCap

(* What the account's count holds, blob by blob.                           *)
Counts(b) ==
    \/ \E o \in Operations : op[o].status \in Waiting /\ op[o].blob = b
    \/ \E a \in Operations : asset[a] \in {"live", "frozen", "deleted"}
                            /\ b \in files[a] \cup media[a]

LEMMA CountedBlobs == \A b : b \in AccountBlobs <=> Counts(b)
BY DEF AccountBlobs, Counts

LEMMA AccountIsFinite ==
    ASSUME IngestInv PROVE AccountBlobs \subseteq Blobs /\ IsFiniteSet(AccountBlobs)
<1>1. ASSUME NEW b, Counts(b) PROVE b \in Blobs
  BY <1>1 DEF Counts, IngestInv, TypeOK, RowsConsistent
<1>2. AccountBlobs \subseteq Blobs
  BY <1>1, CountedBlobs
<1> QED
  BY <1>2, FS_Subset, IngestAssumption

(* A step that only lets go of blobs stays within the cap.                 *)
LEMMA ShrinkingFits ==
    ASSUME CapInv, AccountBlobs' \subseteq AccountBlobs PROVE WithinCap'
<1>1. IsFiniteSet(AccountBlobs) /\ (Cap > 0 => Cardinality(AccountBlobs) <= Cap)
  BY AccountIsFinite DEF CapInv, WithinCap
<1>2. /\ Cardinality(AccountBlobs') <= Cardinality(AccountBlobs)
      /\ Cardinality(AccountBlobs') \in Nat /\ Cardinality(AccountBlobs) \in Nat
  BY <1>1, FS_Subset, FS_CardinalityType
<1> QED
  BY <1>1, <1>2, IngestAssumption DEF WithinCap

(* So does one that adds only blobs ensureAccountStorage let through.      *)
LEMMA CheckedFits ==
    ASSUME CapInv, NEW blobs \in SUBSET Blobs, FitsAccount(blobs),
           AccountBlobs' \subseteq AccountBlobs \cup blobs
    PROVE  WithinCap'
<1>1. CASE blobs \subseteq AccountBlobs
  <2>1. AccountBlobs' \subseteq AccountBlobs
    BY <1>1
  <2> QED
    BY <2>1, ShrinkingFits
<1>2. CASE Cardinality(AccountBlobs \cup blobs) <= Cap
  <2>1. IsFiniteSet(AccountBlobs \cup blobs)
    <3>1. AccountBlobs \cup blobs \subseteq Blobs
      BY AccountIsFinite DEF CapInv
    <3> QED
      BY <3>1, FS_Subset, IngestAssumption
  <2>2. /\ Cardinality(AccountBlobs') <= Cardinality(AccountBlobs \cup blobs)
        /\ Cardinality(AccountBlobs') \in Nat /\ Cardinality(AccountBlobs \cup blobs) \in Nat
    BY <2>1, FS_Subset, FS_CardinalityType
  <2> QED
    BY <1>2, <2>2, IngestAssumption DEF WithinCap
<1>3. CASE Cap = 0
  BY <1>3 DEF WithinCap
<1> QED
  BY <1>1, <1>2, <1>3 DEF FitsAccount

LEMMA AcceptCap ==
    ASSUME CapInv, NEW o \in Operations, NEW b \in Blobs,
           NEW t \in Operations \cup {NoAsset}, Accept(o, b, t)
    PROVE  AssetsAreResults' /\ WithinCap'
<1>1. /\ op' = [op EXCEPT ![o] = [NoOp EXCEPT !.status = "pending", !.blob = b,
                                              !.target = t, !.ready = TRUE]]
      /\ UNCHANGED <<asset, files, media>> /\ op \in [Operations -> OpType]
      /\ op[o].status = "absent" /\ FitsAccount({b})
  BY DEF Accept, catalog, CapInv, IngestInv, TypeOK, OpType
<1>2. op'[o].status = "pending" /\ op'[o].blob = b /\ \A q \in Operations : q # o => op'[q] = op[q]
  BY <1>1 DEF NoOp
<1>3. AssetsAreResults'
  BY <1>1, <1>2 DEF AssetsAreResults, CapInv
<1>4. \A c : Counts(c)' => Counts(c) \/ c = b
  BY <1>1, <1>2 DEF Counts
<1>5. AccountBlobs' \subseteq AccountBlobs \cup {b}
  BY <1>4, CountedBlobs DEF AccountBlobs, Counts
<1> QED
  BY <1>1, <1>3, <1>5, CheckedFits

(* The steps that leave the catalog alone and move an operation between    *)
(* the waiting states, or end it.                                          *)
LEMMA OperationsCap ==
    ASSUME CapInv, UNCHANGED <<asset, files, media>>,
           \A o \in Operations :
               /\ op[o].status = "success" => op'[o].status = "success"
               /\ op'[o].status \in Waiting => op[o].status \in Waiting /\ op'[o].blob = op[o].blob
    PROVE  AssetsAreResults' /\ WithinCap'
<1>1. AssetsAreResults'
  BY DEF AssetsAreResults, CapInv
<1>2. AccountBlobs' \subseteq AccountBlobs
  BY DEF AccountBlobs
<1> QED
  BY <1>1, <1>2, ShrinkingFits

LEMMA FinalizeCap ==
    ASSUME CapInv, NEW w \in Workers, Finalize(w)
    PROVE  AssetsAreResults' /\ WithinCap'
<1> DEFINE o == worker[w].op
           b == op[o].blob
           a == IF op[o].target = NoAsset THEN o ELSE op[o].target
<1>1. o \in Operations /\ op[o] \in OpType /\ op \in [Operations -> OpType]
      /\ op[o].status = "processing"
  BY DEF Finalize, CapInv, IngestInv, LeasesDistinct, HoldsLease, TypeOK, OpType
<1>2. b \in Blobs /\ a \in Operations
  BY <1>1 DEF CapInv, IngestInv, RowsConsistent, OpType, Waiting
<1>3. /\ asset' = [asset EXCEPT ![a] = "live"]
      /\ files' = [files EXCEPT ![a] = @ \cup {b}]
      /\ media' = [media EXCEPT ![a] = @ \cup Extracts[b]]
      /\ FitsAccount({b} \cup Extracts[b])
      /\ op[o].target # NoAsset => asset[op[o].target] = "live"
  BY DEF Finalize, Candidates, TargetReady
<1>4. op'[o].status = "success" /\ \A q \in Operations : q # o => op'[q] = op[q]
  <2>1. op' = [op EXCEPT ![o].status = "success", ![o].blob = NoBlob,
                         ![o].token = NoToken, ![o].lapsed = FALSE]
    BY DEF Finalize
  <2> HIDE DEF o
  <2> QED
    BY <1>1, <2>1 DEF OpType
<1>5. asset[a] = "live" \/ (a = o /\ files[a] = {} /\ media[a] = {})
  <2>1. CASE op[o].target = NoAsset
    BY <1>1, <2>1 DEF CapInv, AssetsAreResults
  <2> QED
    BY <1>3, <2>1
<1>6. /\ asset \in [Operations -> {"none", "live", "frozen", "deleted", "gone"}]
      /\ files \in [Operations -> SUBSET Blobs] /\ media \in [Operations -> SUBSET Blobs]
      /\ {b} \cup Extracts[b] \in SUBSET Blobs
  BY <1>2, IngestAssumption DEF CapInv, IngestInv, TypeOK
<1> HIDE DEF o, b, a
<1>7. /\ asset'[a] = "live" /\ files'[a] = files[a] \cup {b} /\ media'[a] = media[a] \cup Extracts[b]
      /\ \A c \in Operations :
           c # a => asset'[c] = asset[c] /\ files'[c] = files[c] /\ media'[c] = media[c]
  BY <1>2, <1>3, <1>6
<1>8. AssetsAreResults'
  BY <1>1, <1>2, <1>4, <1>5, <1>7 DEF CapInv, AssetsAreResults
<1>9. ASSUME NEW c, Counts(c)' PROVE Counts(c) \/ c \in {b} \cup Extracts[b]
  <2>1. CASE \E q \in Operations : op'[q].status \in Waiting /\ op'[q].blob = c
    BY <1>1, <1>4, <2>1 DEF Counts, Waiting
  <2>2. CASE \E q \in Operations : asset'[q] \in {"live", "frozen", "deleted"}
                                  /\ c \in files'[q] \cup media'[q]
    BY <1>2, <1>5, <1>7, <2>2 DEF Counts
  <2> QED
    BY <1>9, <2>1, <2>2 DEF Counts
<1>10. AccountBlobs' \subseteq AccountBlobs \cup ({b} \cup Extracts[b])
  BY <1>9, CountedBlobs DEF AccountBlobs, Counts
<1> QED
  BY <1>3, <1>6, <1>8, <1>10, CheckedFits

LEMMA PurgeCap ==
    ASSUME CapInv, NEW b \in Blobs, Purge(b)
    PROVE  AssetsAreResults' /\ WithinCap'
<1>1. /\ \A a \in Operations : files'[a] \subseteq files[a] /\ media'[a] \subseteq media[a]
      /\ asset' = asset
  BY DEF Purge
<1>2. \A o \in Operations :
        /\ op[o].status = "success" => op'[o].status = "success"
        /\ op'[o].status \in Waiting => op'[o] = op[o]
  <2>1. op \in [Operations -> OpType]
    BY DEF CapInv, IngestInv, TypeOK, OpType
  <2> QED
    BY <2>1, PurgeInv DEF Purge, FailedOp, CapInv, Ended, Waiting, OpType
<1>3. AssetsAreResults'
  BY <1>1, <1>2 DEF CapInv, AssetsAreResults
<1>4. AccountBlobs' \subseteq AccountBlobs
  BY <1>1, <1>2 DEF AccountBlobs
<1> QED
  BY <1>3, <1>4, ShrinkingFits

(* A deletion, a restore, a freeze or the end of recovery never makes an   *)
(* asset count that did not.                                               *)
LEMMA AssetChangesCap ==
    ASSUME CapInv, NEW a \in Operations, AssetChanges(a)
    PROVE  AssetsAreResults' /\ WithinCap'
<1>1. UNCHANGED <<op, files, media>>
      /\ asset \in [Operations -> {"none", "live", "frozen", "deleted", "gone"}]
  BY DEF AssetChanges, CapInv, IngestInv, TypeOK
<1>2. asset[a] \in {"live", "frozen", "deleted"} /\ asset'[a] # "none"
      /\ \A c \in Operations : c # a => asset'[c] = asset[c]
  BY <1>1 DEF AssetChanges, AssetMoves
<1>3. AssetsAreResults'
  BY <1>1, <1>2 DEF CapInv, AssetsAreResults
<1>4. AccountBlobs' \subseteq AccountBlobs
  BY <1>1, <1>2 DEF AccountBlobs
<1> QED
  BY <1>3, <1>4, ShrinkingFits

(* A picture added by hand is asked about before it counts.                *)
LEMMA AddMediaCap ==
    ASSUME CapInv, NEW a \in Operations, NEW b \in Pictures, AddMedia(a, b)
    PROVE  AssetsAreResults' /\ WithinCap'
<1>1. /\ asset[a] = "live" /\ FitsAccount({b}) /\ b \in Blobs
      /\ UNCHANGED <<op, asset, files>>
      /\ media \in [Operations -> SUBSET Blobs]
      /\ media' = [media EXCEPT ![a] = @ \cup {b}]
  BY IngestAssumption DEF AddMedia, CapInv, IngestInv, TypeOK
<1>2. media'[a] = media[a] \cup {b} /\ \A c \in Operations : c # a => media'[c] = media[c]
  BY <1>1
<1>3. AssetsAreResults'
  BY <1>1, <1>2 DEF CapInv, AssetsAreResults
<1>4. \A c : Counts(c)' => Counts(c) \/ c = b
  BY <1>1, <1>2 DEF Counts
<1>5. AccountBlobs' \subseteq AccountBlobs \cup {b}
  BY <1>4, CountedBlobs DEF AccountBlobs, Counts
<1> QED
  BY <1>1, <1>3, <1>5, CheckedFits

LEMMA WorksCap ==
    ASSUME CapInv, NEW w \in Workers, Works(w)
    PROVE  AssetsAreResults' /\ WithinCap'
<1>1. op \in [Operations -> OpType]
  BY DEF CapInv, IngestInv, TypeOK, OpType
<1>2. ASSUME NEW o \in Operations, Lease(w, o) PROVE AssetsAreResults' /\ WithinCap'
  <2>1. op'[o].status = "processing" /\ op'[o].blob = op[o].blob /\ op[o].status \in Waiting
        /\ \A q \in Operations : q # o => op'[q] = op[q]
    BY <1>1, <1>2 DEF Lease, Leasable, Waiting, OpType
  <2> QED
    BY <1>2, <2>1, OperationsCap DEF Lease, catalog, Waiting
<1>3. CASE Read(w) \/ FinalizeRefused(w) \/ LeaseLost(w)
  BY <1>3, OperationsCap DEF Read, FinalizeRefused, LeaseLost, catalog
<1>4. CASE FinishFailure(w)
  <2>1. CASE HoldsLease(w)
    <3> DEFINE o == worker[w].op
    <3>1. o \in Operations /\ op[o].status = "processing"
      BY <1>4, <2>1 DEF FinishFailure, HoldsLease, CapInv, IngestInv, LeasesDistinct
    <3>2. \A q \in Operations : q # o => op'[q] = op[q]
      BY <1>1, <1>4, <2>1, <3>1 DEF FinishFailure
    <3>3. op'[o].status \in Waiting => op'[o].blob = op[o].blob
      BY <1>1, <1>4, <2>1, <3>1 DEF FinishFailure, Retried, FailedOp, Waiting, OpType
    <3> HIDE DEF o
    <3> QED
      BY <1>4, <3>1, <3>2, <3>3, OperationsCap DEF FinishFailure, catalog, Waiting
  <2>2. CASE ~HoldsLease(w)
    BY <1>4, <2>2, OperationsCap DEF FinishFailure, catalog
  <2> QED
    BY <2>1, <2>2
<1>5. CASE Finalize(w)
  BY <1>5, FinalizeCap
<1> QED
  BY <1>2, <1>3, <1>4, <1>5 DEF Works

LEMMA NextCap == CapInv /\ [Next]_vars => CapInv'
<1> SUFFICES ASSUME CapInv, [Next]_vars PROVE AssetsAreResults' /\ WithinCap'
  BY NextInv DEF CapInv
<1>1. CASE UNCHANGED vars
  BY <1>1, OperationsCap DEF vars, catalog
<1>2. ASSUME NEW o \in Operations, NEW b \in Blobs, NEW t \in Operations \cup {NoAsset},
             Accept(o, b, t)
      PROVE  AssetsAreResults' /\ WithinCap'
  BY <1>2, AcceptCap
<1>3. ASSUME NEW o \in Operations, LeaseLapses(o) \/ RetryComesDue(o)
      PROVE  AssetsAreResults' /\ WithinCap'
  <2>1. \A q \in Operations : op'[q].status = op[q].status /\ op'[q].blob = op[q].blob
    BY <1>3 DEF LeaseLapses, RetryComesDue, CapInv, IngestInv, TypeOK
  <2> QED
    BY <1>3, <2>1, OperationsCap DEF LeaseLapses, RetryComesDue, catalog
<1>4. ASSUME NEW w \in Workers, Works(w) \/ FindsNothing(w) \/ WorkerDies(w)
      PROVE  AssetsAreResults' /\ WithinCap'
  BY <1>1, <1>4, WorksCap, OperationsCap DEF FindsNothing, WorkerDies, catalog
<1> QED
  BY <1>1, <1>2, <1>3, <1>4, PurgeCap, AssetChangesCap, AddMediaCap DEF Next

(* What an account keeps never passes its cap, however its uploads race:   *)
(* FitsAccount is asked in the transaction that adds the blobs, both when  *)
(* an upload is accepted and when its images are known.                    *)
THEOREM CapHolds == Spec => []WithinCap
<1>1. Init => CapInv
  <2> SUFFICES ASSUME Init PROVE AssetsAreResults /\ WithinCap
    BY InitInv DEF CapInv
  <2>1. AssetsAreResults
    BY DEF Init, AssetsAreResults
  <2>2. AccountBlobs = {}
    BY DEF Init, AccountBlobs, NoOp, Waiting
  <2> QED
    BY <2>1, <2>2, FS_EmptySet, IngestAssumption DEF WithinCap
<1>2. CapInv => WithinCap
  BY DEF CapInv
<1> QED
  BY <1>1, <1>2, NextCap, PTL DEF Spec
=============================================================================
