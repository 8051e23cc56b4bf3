--------------------------- MODULE DeliveryProofs ---------------------------
(* Proofs about the delivery queue, for every number of instances, assets, *)
(* handlers, attempts and rows.                                            *)
EXTENDS DeliveryRefinement, WaitHub, FiniteSetTheorems, WellFoundedInduction, TLAPS

(* A set of positions in a sequence has a first one.                       *)
LEMMA FirstPosition ==
    ASSUME NEW T, T \subseteq Nat, T # {}
    PROVE  \E k \in T : \A j \in T : k <= j
<1>1. PICK R : IsWellFoundedOn(R, Nat) /\ \A x, y \in Nat : x < y => <<x, y>> \in R
  <2> DEFINE less == {ss \in Nat \X Nat : ss[1] < ss[2]}
  <2>1. IsWellFoundedOn(less, Nat)
    BY NatLessThanWellFounded, Zenon DEF OpToRel
  <2>2. \A x, y \in Nat : x < y => <<x, y>> \in less
    OBVIOUS
  <2> HIDE DEF less
  <2> QED
    BY <2>1, <2>2, Zenon
<1>2. IsWellFoundedOn(R, Nat)
  BY <1>1
<1>3. \E x \in T : \A y \in T : ~ (<<y, x>> \in R)
  <2> HIDE <1>1
  <2> QED
    BY <1>2, WFMin, ZenonT(60)
<1>4. PICK x \in T : \A y \in T : ~ (<<y, x>> \in R)
  BY <1>3
<1>5. \A y \in T : ~(y < x)
  BY <1>1, <1>4
<1> QED
  BY <1>5

(* A choice of target is a target, or none: what chooseTarget returns.     *)
LEMMA ChooseTargetType ==
    ASSUME NEW accepted \in Declarations, NEW a \in Assets, TypeOK
    PROVE  TargetFor(accepted, a) \in Targets \cup {None}
<1> DEFINE original == HasOriginal(catalog[a])
           usable == OfferedTargets(catalog[a]) \cup (IF original THEN {Raw} ELSE {})
           hits == {k \in DOMAIN accepted : accepted[k] \in usable}
           first == CHOOSE k \in hits : \A j \in hits : k <= j
<1>1. accepted \in Seq(Targets)
  BY SetsAssumption
<1>2. CASE hits # {}
  <2>1. hits \subseteq DOMAIN accepted /\ hits \subseteq Nat
    BY <1>1
  <2>2. first \in hits
    BY <1>2, <2>1, FirstPosition
  <2>3. accepted[first] \in Targets
    BY <2>2, <2>1, <1>1
  <2> QED
    BY <1>2, <2>3 DEF TargetFor, ChooseTarget
<1>3. CASE hits = {}
  BY <1>3 DEF TargetFor, ChooseTarget, Targets
<1> QED
  BY <1>2, <1>3

(* Stopping or releasing a row leaves a well-typed row of the same pair.   *)
LEMMA FailedType ==
    ASSUME NEW row \in Row, NEW why \in {"withdrawn", "unsupported", "abandoned"}
    PROVE  /\ Failed(row, why) \in Row
           /\ Failed(row, why) = [row EXCEPT !.state = "failed", !.lease = "none",
                                            !.reason = why]
BY DEF Failed, Row

LEMMA ReleasedType ==
    ASSUME TypeOK, NEW row \in Row, NEW accepted \in Declarations,
           row.attempts < MaxAttempts
    PROVE  Released(row, accepted) \in Row
<1> DEFINE taken == [row EXCEPT !.state = "released", !.attempts = @ + 1,
                               !.lease = "running"]
           target == TargetFor(accepted, row.asset)
<1>1. taken \in Row
  <2>1. row.attempts + 1 \in 0..MaxAttempts
    BY BoundsAssumption DEF Row
  <2> QED
    BY <2>1 DEF Row
<1>2. target \in Targets \cup {None}
  BY ChooseTargetType DEF Row
<1>3. [taken EXCEPT !.target = target] \in Row
  <2> HIDE DEF taken, target
  <2> QED BY <1>1, <1>2 DEF Row
<1>4. Failed(taken, "withdrawn") \in Row /\ Failed(taken, "unsupported") \in Row
  BY <1>1, FailedType
<1> QED
  BY <1>3, <1>4 DEF Released

(* What a claim leaves of the queue, row by row.                           *)
LEMMA ClaimedRows ==
    ASSUME TypeOK, NEW c \in Collectors, NEW locked, NEW heard, Claim(c, locked, heard),
           NEW d \in Ids
    PROVE  /\ collector[c].instance \in Instances
           /\ collector[c].accepted \in Declarations
           /\ \/ rows'[d] = rows[d]
              \/ /\ d \in Exhausted(collector[c].instance) /\ rows[d] \in Row
                 /\ rows'[d] = Failed(rows[d], "abandoned")
              \/ /\ d \in Claimable(collector[c].instance) /\ rows[d] \in Row
                 /\ rows'[d] = Released(rows[d], collector[c].accepted)
<1>1. collector[c] \in [at: {"waiting"}, instance: Instances, accepted: Declarations]
  BY DEF TypeOK, CollectorState, IdleCollector, Claim
<1> DEFINE i == collector[c].instance
           claimed == Oldest(Claimable(i) \ locked, Batch)
<1>2. claimed \subseteq Claimable(i)
  BY DEF Oldest
<1>3. \A e \in Exhausted(i) \cup Claimable(i) : rows[e] \in Row
  BY DEF TypeOK, Exhausted, Claimable, Live, NoRow, Row
<1>4. rows' = AfterClaim(i, claimed, collector[c].accepted)
  BY Zenon DEF Claim
<1>5. rows'[d] = IF d \in Exhausted(i) THEN Failed(rows[d], "abandoned")
                 ELSE IF d \in claimed THEN Released(rows[d], collector[c].accepted)
                 ELSE rows[d]
  BY <1>4, Zenon DEF AfterClaim
<1> HIDE DEF claimed
<1> QED
  BY <1>1, <1>2, <1>3, <1>5

-----------------------------------------------------------------------------
(* Type correctness.                                                       *)

LEMMA InitType == Init => TypeOK
BY BoundsAssumption, SetsAssumption
   DEF Init, TypeOK, RequestState, CollectorState, DownloadState

LEMMA QueueType ==
    ASSUME TypeOK, NEW r \in Requests,
           \/ \E i \in Instances, a \in Assets : QueueReadsInstance(r, i, a)
           \/ QueueReadsAsset(r) \/ QueueCounts(r) \/ QueueInserts(r)
           \/ QueueRereads(r) \/ QueueEnds(r)
    PROVE  TypeOK'
<1>1. ASSUME NEW i \in Instances, NEW a \in Assets, QueueReadsInstance(r, i, a)
      PROVE  TypeOK'
  BY <1>1 DEF TypeOK, QueueReadsInstance, RequestState, instanceVars, queueVars, clientVars
<1>2. CASE QueueReadsAsset(r)
  BY <1>2 DEF TypeOK, QueueReadsAsset, RequestState, IdleRequest,
              instanceVars, queueVars, clientVars
<1>3. CASE QueueCounts(r)
  BY <1>3 DEF TypeOK, QueueCounts, RequestState, IdleRequest,
              instanceVars, queueVars, clientVars
<1>4. CASE QueueInserts(r)
  <2>1. request[r].instance \in Instances /\ request[r].asset \in Assets
    BY <1>4 DEF TypeOK, QueueInserts, RequestState, IdleRequest
  <2>2. QueuedRow(request[r].instance, request[r].asset) \in Row
    BY <2>1, BoundsAssumption DEF QueuedRow, Row
  <2>3. arrived' \in 0..MaxDeliveries /\ rows' \in [Ids -> Row \cup {NoRow}]
    BY <1>4, <2>2, BoundsAssumption DEF TypeOK, QueueInserts, Ids, queueVars
  <2>4. request' \in [Requests -> RequestState]
    <3>1. CASE request' = [request EXCEPT ![r].at = "conflicted"]
      BY <1>4, <3>1 DEF TypeOK, QueueInserts, RequestState, IdleRequest
    <3>2. ASSUME arrived < MaxDeliveries,
                 request' = [request EXCEPT ![r] =
                   Answered(request[r].instance, request[r].asset, arrived + 1)]
          PROVE  request' \in [Requests -> RequestState]
      <4>1. arrived + 1 \in Ids
        BY <3>2, BoundsAssumption DEF TypeOK, Ids
      <4>2. Answered(request[r].instance, request[r].asset, arrived + 1) \in RequestState
        BY <2>1, <4>1 DEF Answered, RequestState
      <4> QED
        BY <3>2, <4>2 DEF TypeOK
    <3> QED
      BY <1>4, <3>1, <3>2 DEF QueueInserts
  <2> QED
    BY <1>4, <2>3, <2>4 DEF TypeOK, QueueInserts, instanceVars, clientVars
<1>5. CASE QueueRereads(r)
  <2>1. request[r].instance \in Instances /\ request[r].asset \in Assets
    BY <1>5 DEF TypeOK, QueueRereads, RequestState, IdleRequest
  <2>2. \A d \in LiveOfPair(request[r].instance, request[r].asset) :
          Answered(request[r].instance, request[r].asset, d) \in RequestState
    BY <2>1 DEF LiveOfPair, Answered, RequestState
  <2>3. request' \in [Requests -> RequestState]
    BY <1>5, <2>2 DEF TypeOK, QueueRereads, RequestState
  <2> QED
    BY <1>5, <2>3 DEF TypeOK, QueueRereads, instanceVars, queueVars, clientVars
<1>6. CASE QueueEnds(r)
  BY <1>6 DEF TypeOK, QueueEnds, RequestState, instanceVars, queueVars, clientVars
<1> QED
  BY <1>1, <1>2, <1>3, <1>4, <1>5, <1>6

LEMMA CollectType ==
    ASSUME TypeOK, NEW c \in Collectors, NEW heard \in BOOLEAN,
           \/ \E i \in Instances : \E acks \in SUBSET held[i] : Collect(c, i, acks, heard)
           \/ \E locked \in SUBSET Ids : Claim(c, locked, heard)
           \/ CollectEnds(c)
    PROVE  TypeOK'
<1>1. ASSUME NEW i \in Instances, NEW acks \in SUBSET held[i], Collect(c, i, acks, heard)
      PROVE  TypeOK'
  <2>1. rows' \in [Ids -> Row \cup {NoRow}]
    BY <1>1 DEF TypeOK, Collect, Acknowledged
  <2> QED
    BY <1>1, <2>1 DEF TypeOK, Collect, CollectorState, instanceVars
<1>2. ASSUME NEW locked \in SUBSET Ids, Claim(c, locked, heard)
      PROVE  TypeOK'
  <2>1. \A d \in Ids : rows'[d] \in Row \cup {NoRow}
    <3> TAKE d \in Ids
    <3>1. rows[d] \in Row \cup {NoRow}
      BY DEF TypeOK
    <3>2. \A i : d \in Claimable(i) => rows[d].attempts < MaxAttempts
      BY DEF Claimable
    <3>3. CASE /\ rows[d] \in Row
               /\ rows'[d] = Failed(rows[d], "abandoned")
      BY <3>3, FailedType
    <3>4. CASE /\ rows[d] \in Row /\ d \in Claimable(collector[c].instance)
               /\ collector[c].accepted \in Declarations
               /\ rows'[d] = Released(rows[d], collector[c].accepted)
      BY <3>2, <3>4, ReleasedType
    <3> QED
      BY <1>2, <3>1, <3>3, <3>4, ClaimedRows
  <2>2. rows' \in [Ids -> Row \cup {NoRow}]
    <3>1. \E claimed, accepted :
            rows' = AfterClaim(collector[c].instance, claimed, accepted)
      BY <1>2, Zenon DEF Claim
    <3>2. rows' = [d \in Ids |-> rows'[d]]
      BY <3>1 DEF AfterClaim
    <3> QED BY <2>1, <3>2
  <2> DEFINE work == {d \in Oldest(Claimable(collector[c].instance) \ locked, Batch) :
                        rows'[d].state = "released"}
  <2>3. work \subseteq Ids
    BY DEF Oldest, Claimable
  <2>4. /\ signed' = signed \cup Signed(work)
        /\ held' = held \/ held' = [held EXCEPT ![collector[c].instance] = @ \cup work]
        /\ collector' = collector \/ collector' = [collector EXCEPT ![c] = IdleCollector]
    BY <1>2, Zenon DEF Claim
  <2> HIDE DEF work
  <2>5. signed' \subseteq Ids /\ held' \in [Instances -> SUBSET Ids]
        /\ collector' \in [Collectors -> CollectorState]
    BY <2>3, <2>4 DEF TypeOK, CollectorState, Signed
  <2> QED
    BY <1>2, <2>2, <2>5 DEF TypeOK, Claim, instanceVars
<1>3. CASE CollectEnds(c)
  BY <1>3 DEF TypeOK, CollectEnds, CollectorState, instanceVars, queueVars, clientVars
<1> QED
  BY <1>1, <1>2, <1>3

LEMMA DownloadType ==
    ASSUME TypeOK, NEW f \in Downloads,
           \/ \E d \in Ids : ArtifactResolves(f, d)
           \/ ArtifactOpens(f) \/ SourceOpens(f) \/ DownloadEnds(f)
    PROVE  TypeOK'
<1>1. ASSUME NEW d \in Ids, ArtifactResolves(f, d)
      PROVE  TypeOK'
  <2>1. rows[d] \in Row
    BY <1>1 DEF TypeOK, ArtifactResolves, NoRow
  <2>2. rows[d].asset \in Assets /\ rows[d].target \in Targets
    BY <1>1, <2>1 DEF ArtifactResolves, Row
  <2> QED
    BY <1>1, <2>2 DEF TypeOK, ArtifactResolves, DownloadState,
                      instanceVars, queueVars, clientVars
<1>2. CASE ArtifactOpens(f)
  BY <1>2 DEF TypeOK, ArtifactOpens, DownloadState, IdleDownload,
              instanceVars, queueVars, clientVars
<1>3. CASE SourceOpens(f)
  BY <1>3 DEF TypeOK, SourceOpens, DownloadState, IdleDownload,
              instanceVars, queueVars, clientVars
<1>4. CASE DownloadEnds(f)
  BY <1>4 DEF TypeOK, DownloadEnds, DownloadState, instanceVars, queueVars, clientVars
<1> QED
  BY <1>1, <1>2, <1>3, <1>4

LEMMA RowType ==
    ASSUME TypeOK,
           \/ \E d \in Ids : Discard(d) \/ LeaseRunsOut(d) \/ RetentionRunsOut(d)
           \/ Sweep
    PROVE  TypeOK'
<1>1. rows' \in [Ids -> Row \cup {NoRow}]
  <2>1. ASSUME NEW d \in Ids, Discard(d) PROVE rows' \in [Ids -> Row \cup {NoRow}]
    BY <2>1 DEF TypeOK, Discard
  <2>2. ASSUME NEW d \in Ids, LeaseRunsOut(d) PROVE rows' \in [Ids -> Row \cup {NoRow}]
    <3>1. rows[d] \in Row
      BY <2>2 DEF TypeOK, LeaseRunsOut, NoRow
    <3>2. [rows[d] EXCEPT !.lease = "out"] \in Row
      BY <3>1 DEF Row
    <3> QED BY <2>2, <3>2 DEF TypeOK, LeaseRunsOut
  <2>3. ASSUME NEW d \in Ids, RetentionRunsOut(d) PROVE rows' \in [Ids -> Row \cup {NoRow}]
    <3>1. rows[d] \in Row
      BY <2>3 DEF TypeOK, RetentionRunsOut
    <3>2. [rows[d] EXCEPT !.expired = TRUE] \in Row
      BY <3>1 DEF Row
    <3> QED BY <2>3, <3>2 DEF TypeOK, RetentionRunsOut
  <2>4. CASE Sweep
    BY <2>4 DEF TypeOK, Sweep
  <2> QED
    BY <2>1, <2>2, <2>3, <2>4
<1>2. UNCHANGED <<instanceVars, catalog, arrived, handlerVars, clientVars>>
  BY DEF Discard, LeaseRunsOut, RetentionRunsOut, Sweep
<1> QED
  BY <1>1, <1>2 DEF TypeOK, instanceVars, handlerVars, clientVars

LEMMA SurroundingType ==
    ASSUME TypeOK,
           \/ \E i \in Instances :
                \/ RevokeStarts(i) \/ RevokeCommits(i)
                \/ \E declared \in Declarations : UpdateDeclaration(i, declared)
           \/ \E a \in Assets, entry \in CatalogEntries : CatalogChanges(a, entry)
           \/ \E d \in Ids : SignatureRunsOut(d)
           \/ Restart
    PROVE  TypeOK'
<1>1. ASSUME NEW i \in Instances, RevokeStarts(i) PROVE TypeOK'
  BY <1>1 DEF TypeOK, RevokeStarts, queueVars, handlerVars, clientVars
<1>2. ASSUME NEW i \in Instances, RevokeCommits(i) PROVE TypeOK'
  BY <1>2, SetsAssumption DEF TypeOK, RevokeCommits, handlerVars, clientVars
<1>3. ASSUME NEW i \in Instances, NEW declared \in Declarations, UpdateDeclaration(i, declared)
      PROVE  TypeOK'
  BY <1>3 DEF TypeOK, UpdateDeclaration, queueVars, handlerVars, clientVars
<1>4. ASSUME NEW a \in Assets, NEW entry \in CatalogEntries, CatalogChanges(a, entry)
      PROVE  TypeOK'
  BY <1>4 DEF TypeOK, CatalogChanges, instanceVars, queueVars, handlerVars, clientVars
<1>5. ASSUME NEW d \in Ids, SignatureRunsOut(d) PROVE TypeOK'
  BY <1>5 DEF TypeOK, SignatureRunsOut, instanceVars, queueVars, handlerVars
<1>6. CASE Restart
  BY <1>6 DEF TypeOK, Restart, queueVars, RequestState, CollectorState, DownloadState
<1> QED
  BY <1>1, <1>2, <1>3, <1>4, <1>5, <1>6

LEMMA NextType == TypeOK /\ [Next]_vars => TypeOK'
<1> SUFFICES ASSUME TypeOK, [Next]_vars PROVE TypeOK'
  OBVIOUS
<1>1. CASE UNCHANGED vars
  BY <1>1 DEF TypeOK, vars
<1>2. CASE Next
  BY <1>2, QueueType, CollectType, DownloadType, RowType, SurroundingType DEF Next
<1> QED
  BY <1>1, <1>2

(* Every reachable state of the queue is well typed: attempts never pass   *)
(* MaxAttempts, and every handler holds ids and targets that exist.        *)
THEOREM TypeCorrect == Spec => []TypeOK
<1>1. Init => TypeOK
  BY InitType
<1>2. TypeOK /\ [Next]_vars => TypeOK'
  BY NextType
<1> QED
  BY <1>1, <1>2, PTL DEF Spec

-----------------------------------------------------------------------------
(* How one row can change in one step.                                     *)

Inserted(d) ==
    \E i \in Instances, a \in Assets :
        /\ ~PairIsLive(i, a)
        /\ rows' = [rows EXCEPT ![d] = QueuedRow(i, a)]

Taken(d) ==
    \E i \in Instances, accepted \in Declarations :
        /\ d \in Claimable(i) /\ rows[d] \in Row
        /\ rows'[d] = Released(rows[d], accepted)

GivenUp(d) ==
    \E i \in Instances :
        /\ d \in Exhausted(i) /\ rows[d] \in Row
        /\ rows'[d] = Failed(rows[d], "abandoned")

Aged(d) ==
    /\ rows[d] \in Row
    /\ \/ /\ rows[d].state = "released" /\ rows[d].lease = "running"
          /\ rows'[d] = [rows[d] EXCEPT !.lease = "out"]
       \/ rows'[d] = [rows[d] EXCEPT !.expired = TRUE]

Kept(d) == rows'[d] = rows[d] \/ rows'[d] = NoRow

(* In every step a row stays, goes, is taken, is given up on or ages; or   *)
(* one row is inserted, by a Queue handler, and no other moves.            *)
LEMMA RowSteps ==
    ASSUME TypeOK, [Next]_vars
    PROVE  \/ \E r \in Requests, e \in Ids : QueueInserts(r) /\ Inserted(e)
           \/ \A d \in Ids : Kept(d) \/ Taken(d) \/ GivenUp(d) \/ Aged(d)
<1> USE DEF Kept
<1>1. CASE UNCHANGED <<rows>>
  BY <1>1
<1>2. ASSUME NEW r \in Requests, QueueInserts(r)
      PROVE  rows' = rows \/ \E e \in Ids : QueueInserts(r) /\ Inserted(e)
  <2>1. request[r].instance \in Instances /\ request[r].asset \in Assets
    BY <1>2 DEF TypeOK, QueueInserts, RequestState, IdleRequest
  <2>2. CASE PairIsLive(request[r].instance, request[r].asset)
    BY <1>2, <2>2 DEF QueueInserts, queueVars
  <2>3. CASE ~PairIsLive(request[r].instance, request[r].asset)
    <3>1. arrived + 1 \in Ids
      BY <1>2, <2>3, BoundsAssumption DEF QueueInserts, TypeOK, Ids
    <3>2. Inserted(arrived + 1)
      BY <1>2, <2>1, <2>3 DEF QueueInserts, Inserted
    <3> QED BY <1>2, <3>1, <3>2
  <2> QED
    BY <2>2, <2>3
<1>3. ASSUME NEW d \in Ids, Discard(d) PROVE \A e \in Ids : Kept(e)
  BY <1>3 DEF TypeOK, Discard
<1>4. ASSUME NEW c \in Collectors, NEW heard, NEW i \in Instances,
             NEW acks, Collect(c, i, acks, heard)
      PROVE  \A e \in Ids : Kept(e)
  BY <1>4 DEF TypeOK, Collect, Acknowledged
<1>5. ASSUME NEW c \in Collectors, NEW locked, NEW heard, Claim(c, locked, heard)
      PROVE  \A e \in Ids : Kept(e) \/ Taken(e) \/ GivenUp(e)
  BY <1>5, ClaimedRows DEF Taken, GivenUp
<1>6. CASE Sweep
  BY <1>6 DEF Sweep
<1>7. ASSUME NEW i \in Instances, RevokeCommits(i) PROVE \A e \in Ids : Kept(e)
  BY <1>7 DEF RevokeCommits
<1>8. ASSUME NEW d \in Ids, LeaseRunsOut(d) \/ RetentionRunsOut(d)
      PROVE  \A e \in Ids : Kept(e) \/ Aged(e)
  <2>1. rows[d] \in Row
    BY <1>8 DEF TypeOK, LeaseRunsOut, RetentionRunsOut, NoRow
  <2> QED
    BY <1>8, <2>1 DEF TypeOK, LeaseRunsOut, RetentionRunsOut, Aged
<1> QED
  BY <1>1, <1>2, <1>3, <1>4, <1>5, <1>6, <1>7, <1>8
  DEF Next, vars, QueueReadsInstance, QueueReadsAsset, QueueCounts, QueueRereads,
      QueueEnds, CollectEnds, ArtifactResolves, ArtifactOpens, SourceOpens, DownloadEnds, SignatureRunsOut,
      RevokeStarts, UpdateDeclaration, CatalogChanges, Restart, queueVars

-----------------------------------------------------------------------------
(* What holds of each row by itself.                                       *)

RowInv(row) ==
    /\ (row.state = "released") <=> (row.lease # "none")
    /\ (row.state = "failed") <=> (row.reason # None)
    /\ row.state = "released" => row.target # None /\ row.attempts > 0
    /\ row.reason = "abandoned" => row.attempts = MaxAttempts
    /\ row.state = "queued" <=> row.attempts = 0

RowsInv == \A d \in Ids : rows[d] # NoRow => RowInv(rows[d])

LEMMA RowsInvEquivalent == RowsInv <=> ChecksHold /\ AbandonedOnlyWhenSpent
BY DEF RowsInv, RowInv, ChecksHold, AbandonedOnlyWhenSpent

LEMMA RowsInvStep ==
    ASSUME TypeOK, RowsInv, [Next]_vars
    PROVE  RowsInv'
<1> SUFFICES ASSUME NEW d \in Ids, rows'[d] # NoRow
             PROVE  RowInv(rows'[d])
  BY DEF RowsInv
<1>1. CASE rows'[d] = rows[d]
  BY <1>1 DEF RowsInv
<1>2. ASSUME NEW e \in Ids, Inserted(e) PROVE RowInv(rows'[d])
  <2>1. CASE rows'[d] = rows[d]
    BY <2>1, <1>1
  <2>2. ASSUME NEW i \in Instances, NEW a \in Assets, rows'[d] = QueuedRow(i, a)
        PROVE  RowInv(rows'[d])
    BY <2>2 DEF QueuedRow, RowInv, None
  <2> QED
    BY <1>2, <2>1, <2>2 DEF Inserted, TypeOK
<1>3. CASE Taken(d)
  <2>1. PICK i \in Instances, accepted \in Declarations :
          /\ d \in Claimable(i) /\ rows[d] \in Row
          /\ rows'[d] = Released(rows[d], accepted)
    BY <1>3 DEF Taken
  <2>2. RowInv(rows[d]) /\ rows[d].state # "failed" /\ rows[d].reason = None
        /\ rows[d].attempts \in Nat
    BY <2>1 DEF RowsInv, RowInv, Claimable, Live, Row, NoRow
  <2>3. MaxAttempts \in Nat
    BY BoundsAssumption
  <2> QED
    BY <2>1, <2>2, <2>3 DEF Released, Failed, RowInv, Row, None
<1>4. CASE GivenUp(d)
  <2>1. rows[d] \in Row /\ rows'[d] = Failed(rows[d], "abandoned")
        /\ rows[d].attempts >= MaxAttempts
    BY <1>4 DEF GivenUp, Exhausted
  <2> QED
    BY <2>1, BoundsAssumption DEF Failed, RowInv, Row, None
<1>5. CASE Aged(d)
  <2>1. rows[d] \in Row /\ RowInv(rows[d])
    BY <1>5 DEF Aged, RowsInv, NoRow, Row
  <2> QED
    BY <1>5, <2>1 DEF Aged, RowInv, Row
<1> QED
  BY <1>1, <1>2, <1>3, <1>4, <1>5, RowSteps DEF Kept

(* No statement the queue runs trips a CHECK constraint of its table, and  *)
(* a delivery is abandoned only when all its attempts are spent.           *)
THEOREM RowsWellFormed == Spec => [](ChecksHold /\ AbandonedOnlyWhenSpent)
<1>1. Init => RowsInv
  BY DEF Init, RowsInv
<1>2. TypeOK /\ RowsInv /\ [Next]_vars => RowsInv'
  BY RowsInvStep
<1>3. Spec => []RowsInv
  BY <1>1, <1>2, TypeCorrect, PTL DEF Spec
<1> QED
  BY <1>3, RowsInvEquivalent, PTL

-----------------------------------------------------------------------------
(* One live delivery for each instance and asset.                          *)

LEMMA LiveRowsKeepPairs ==
    ASSUME TypeOK, NEW d \in Ids, Kept(d) \/ Taken(d) \/ GivenUp(d) \/ Aged(d),
           Live(rows'[d])
    PROVE  /\ Live(rows[d])
           /\ rows'[d].instance = rows[d].instance /\ rows'[d].asset = rows[d].asset
<1>1. CASE Kept(d)
  BY <1>1 DEF Kept, Live, NoRow
<1>2. CASE Taken(d)
  BY <1>2 DEF Taken, Claimable, Released, Failed, Live, Row
<1>3. CASE GivenUp(d)
  BY <1>3 DEF GivenUp, Failed, Live, Row
<1>4. CASE Aged(d)
  BY <1>4 DEF Aged, Live, Row
<1> QED
  BY <1>1, <1>2, <1>3, <1>4

LEMMA OneLiveStep ==
    ASSUME TypeOK, OneLivePerPair, [Next]_vars
    PROVE  OneLivePerPair'
<1>1. CASE \A d \in Ids : Kept(d) \/ Taken(d) \/ GivenUp(d) \/ Aged(d)
  BY <1>1, LiveRowsKeepPairs DEF OneLivePerPair
<1>2. ASSUME NEW e \in Ids, Inserted(e) PROVE OneLivePerPair'
  <2>1. PICK i \in Instances, a \in Assets :
          ~PairIsLive(i, a) /\ rows' = [rows EXCEPT ![e] = QueuedRow(i, a)]
    BY <1>2 DEF Inserted
  <2>2. rows'[e].instance = i /\ rows'[e].asset = a
    BY <2>1 DEF QueuedRow, TypeOK
  <2>3. \A d \in Ids \ {e} : rows'[d] = rows[d]
    BY <2>1 DEF TypeOK
  <2>4. \A d \in Ids \ {e} : Live(rows[d]) => rows[d].instance # i \/ rows[d].asset # a
    BY <2>1 DEF PairIsLive, LiveOfPair
  <2> QED
    BY <2>2, <2>3, <2>4 DEF OneLivePerPair
<1> QED
  BY <1>1, <1>2, RowSteps

-----------------------------------------------------------------------------
(* What a step may never do.                                               *)

Allowed(d) ==
    /\ rows[d].instance \in live \cap Receivers
    /\ catalog[rows[d].asset].sendable
    /\ ~rows[d].expired
    /\ rows[d].lease # "running"
    /\ rows[d].attempts < MaxAttempts
    /\ catalog[rows[d].asset].sealed => rows'[d].target \in SealedFormats

(* What chooseTarget returns for sealed content its apps accept.           *)
LEMMA SealedTarget ==
    ASSUME NEW accepted \in Declarations, NEW a \in Assets, TypeOK,
           catalog[a].sealed, TargetFor(accepted, a) # None
    PROVE  TargetFor(accepted, a) \in SealedFormats
<1> DEFINE usable == OfferedTargets(catalog[a]) \cup
                       (IF HasOriginal(catalog[a]) THEN {Raw} ELSE {})
           hits == {k \in DOMAIN accepted : accepted[k] \in usable}
           first == CHOOSE k \in hits : \A j \in hits : k <= j
<1>1. ~HasOriginal(catalog[a]) /\ usable \subseteq SealedFormats
  BY DEF HasOriginal, OfferedTargets
<1>2. hits # {} /\ TargetFor(accepted, a) = accepted[first]
  BY <1>1 DEF TargetFor, ChooseTarget
<1>3. hits \subseteq Nat
  BY SetsAssumption
<1>4. first \in hits
  BY <1>2, <1>3, FirstPosition
<1> QED
  BY <1>1, <1>2, <1>4

LEMMA HandOverStep ==
    ASSUME TypeOK, [Next]_vars, NEW d \in Ids, HandsOver(d)
    PROVE  Allowed(d)
<1>1. ASSUME NEW e \in Ids, Inserted(e) PROVE FALSE
  BY <1>1 DEF Inserted, QueuedRow, HandsOver, TypeOK
<1>2. CASE Kept(d)
  BY <1>2 DEF Kept, HandsOver
<1>3. CASE GivenUp(d)
  BY <1>3 DEF GivenUp, Failed, HandsOver, Row
<1>4. CASE Aged(d)
  BY <1>4 DEF Aged, HandsOver, Row
<1>5. CASE Taken(d)
  <2>1. PICK i \in Instances, accepted \in Declarations :
          /\ d \in Claimable(i) /\ rows[d] \in Row
          /\ rows'[d] = Released(rows[d], accepted)
    BY <1>5 DEF Taken
  <2>2. catalog[rows[d].asset].sendable
    BY <2>1 DEF HandsOver, Released, Failed, Row
  <2>3. /\ TargetFor(accepted, rows[d].asset) # None
        /\ rows'[d].target = TargetFor(accepted, rows[d].asset)
    BY <2>1, <2>2 DEF HandsOver, Released, Failed, Row
  <2>4. rows[d].asset \in Assets
    BY <2>1 DEF Row
  <2>5. catalog[rows[d].asset].sealed => rows'[d].target \in SealedFormats
    BY <2>3, <2>4, SealedTarget
  <2> QED
    BY <2>1, <2>2, <2>5 DEF Claimable, Allowed
<1> QED
  BY <1>1, <1>2, <1>3, <1>4, <1>5, RowSteps

(* A claim hands work only to an instance that is still linked and may     *)
(* receive it, of an asset that may still be sent, in its retention window *)
(* and with no lease running, whatever was queued, revoked or withdrawn    *)
(* while the claim's request waited.                                       *)
THEOREM HandsOverOnlyWhenAllowed == Spec => HandedOnlyWhenAllowed
<1>1. TypeOK /\ [Next]_vars => [\A d \in Ids : HandsOver(d) => Allowed(d)]_vars
  BY HandOverStep
<1>2. Spec => [][\A d \in Ids : HandsOver(d) => Allowed(d)]_vars
  BY <1>1, TypeCorrect, PTL DEF Spec
<1> QED
  BY <1>2 DEF HandedOnlyWhenAllowed, Allowed

ServesAllowed(f) ==
    /\ download[f].at = "resolved" /\ download'[f].at \in {"located", "served"} =>
         catalog[download[f].asset].sendable
    /\ download[f].at # "served" /\ download'[f].at = "served" =>
         (catalog[download[f].asset].sealed => download[f].target \in SealedFormats)

LEMMA ServeStep ==
    ASSUME TypeOK, [Next]_vars, NEW f \in Downloads
    PROVE  ServesAllowed(f)
<1>1. CASE download' = download
  BY <1>1 DEF ServesAllowed
<1>2. ASSUME NEW g \in Downloads, ArtifactOpens(g) PROVE ServesAllowed(f)
  <2>1. CASE g # f
    BY <1>2, <2>1 DEF ArtifactOpens, ServesAllowed, TypeOK
  <2>2. CASE g = f
    <3>1. /\ download'[f].at = "served" => MayExport(download[f].asset, download[f].target)
          /\ download'[f].at = "located" => SourceLocated(download[f].asset)
      BY <1>2, <2>2 DEF ArtifactOpens, IdleDownload, TypeOK
    <3> QED
      BY <3>1 DEF MayExport, SourceLocated, ServesAllowed
  <2> QED
    BY <2>1, <2>2
<1>6. ASSUME NEW g \in Downloads, SourceOpens(g) PROVE ServesAllowed(f)
  <2>1. CASE g # f
    BY <1>6, <2>1 DEF SourceOpens, ServesAllowed, TypeOK
  <2>2. CASE g = f
    BY <1>6, <2>2 DEF SourceOpens, IdleDownload, ServesAllowed, TypeOK
  <2> QED
    BY <2>1, <2>2
<1>3. ASSUME NEW g \in Downloads, NEW d \in Ids, ArtifactResolves(g, d)
      PROVE  ServesAllowed(f)
  BY <1>3 DEF ArtifactResolves, ServesAllowed, TypeOK
<1>4. ASSUME NEW g \in Downloads, DownloadEnds(g) PROVE ServesAllowed(f)
  BY <1>4 DEF DownloadEnds, IdleDownload, ServesAllowed, TypeOK
<1>5. CASE Restart
  BY <1>5 DEF Restart, IdleDownload, ServesAllowed
<1> QED
  BY <1>1, <1>2, <1>3, <1>4, <1>5, <1>6
  DEF Next, vars, handlerVars, QueueReadsInstance, QueueReadsAsset, QueueCounts,
      QueueInserts, QueueRereads, QueueEnds, Discard, Collect, Claim, CollectEnds,
      Sweep, RevokeStarts,
      RevokeCommits, UpdateDeclaration, CatalogChanges, LeaseRunsOut,
      RetentionRunsOut, SignatureRunsOut

(* A signed address never hands over an asset that was withdrawn after its *)
(* release, nor sealed content in a format nobody allowed.                 *)
THEOREM ServesOnlyWhenAllowed == Spec => ServedOnlyWhenAllowed
<1>1. TypeOK /\ [Next]_vars => [\A f \in Downloads : ServesAllowed(f)]_vars
  BY ServeStep
<1>2. Spec => [][\A f \in Downloads : ServesAllowed(f)]_vars
  BY <1>1, TypeCorrect, PTL DEF Spec
<1> QED
  BY <1>2 DEF ServedOnlyWhenAllowed, ServesAllowed

(* The delivery table stays within its types and constraints, and nothing  *)
(* is abandoned early, whatever the handlers do.                           *)
THEOREM RowsStaySound == Spec => []RowsSound
BY TypeCorrect, RowsWellFormed, PTL DEF RowsSound

-----------------------------------------------------------------------------
(* The wall.  A handler that has counted and not inserted holds a place:   *)
(* rows and places together pass the wall by less than the handlers there  *)
(* are, because each place was taken while the rows were below it.         *)

Counted(i) == {r \in Requests : request[r].at = "counted" /\ request[r].instance = i}

WallInv ==
    \A i \in Instances :
        Cardinality(LiveRows(i)) + Cardinality(Counted(i))
            < PendingPerInstance + Cardinality(Requests)

LEMMA CountsAreFinite ==
    ASSUME NEW i
    PROVE  /\ IsFiniteSet(LiveRows(i)) /\ IsFiniteSet(Counted(i)) /\ IsFiniteSet(Requests)
           /\ Cardinality(LiveRows(i)) \in Nat /\ Cardinality(Counted(i)) \in Nat
           /\ Cardinality(Requests) \in Nat
           /\ Cardinality(Counted(i)) <= Cardinality(Requests)
<1>1. IsFiniteSet(Ids)
  BY FS_Interval, BoundsAssumption DEF Ids
<1>2. IsFiniteSet(Requests)
  BY SetsAssumption
<1>3. LiveRows(i) \subseteq Ids /\ Counted(i) \subseteq Requests
  BY DEF LiveRows, Counted
<1> QED
  BY <1>1, <1>2, <1>3, FS_Subset, FS_CardinalityType

(* Rows and places that only go.                                           *)
LEMMA FewerKeepsWall ==
    ASSUME NEW i \in Instances, WallInv,
           LiveRows(i)' \subseteq LiveRows(i), Counted(i)' \subseteq Counted(i)
    PROVE  (Cardinality(LiveRows(i)) + Cardinality(Counted(i))
              < PendingPerInstance + Cardinality(Requests))'
<1>1. /\ Cardinality(LiveRows(i)') <= Cardinality(LiveRows(i))
      /\ Cardinality(Counted(i)') <= Cardinality(Counted(i))
      /\ Cardinality(LiveRows(i)') \in Nat /\ Cardinality(Counted(i)') \in Nat
  BY CountsAreFinite, FS_Subset, FS_CardinalityType
<1> QED
  BY <1>1, CountsAreFinite, BoundsAssumption DEF WallInv

LEMMA LiveRowsShrink ==
    ASSUME TypeOK, \A d \in Ids : Kept(d) \/ Taken(d) \/ GivenUp(d) \/ Aged(d), NEW i
    PROVE  LiveRows(i)' \subseteq LiveRows(i)
BY LiveRowsKeepPairs DEF LiveRows

LEMMA WallStep ==
    ASSUME TypeOK, WallInv, [Next]_vars, NEW i \in Instances
    PROVE  (Cardinality(LiveRows(i)) + Cardinality(Counted(i))
              < PendingPerInstance + Cardinality(Requests))'
<1> DEFINE Goal == (Cardinality(LiveRows(i)) + Cardinality(Counted(i))
                      < PendingPerInstance + Cardinality(Requests))'
<1>1. ASSUME NEW r \in Requests, QueueInserts(r), NEW e \in Ids, Inserted(e) PROVE Goal
  <2>1. /\ request' = [request EXCEPT ![r] = request'[r]]
        /\ request'[r].at # "counted" /\ request[r].at = "counted"
    BY <1>1 DEF QueueInserts, Answered, TypeOK, RequestState, IdleRequest
  <2>2. CASE PairIsLive(request[r].instance, request[r].asset)
    <3>1. LiveRows(i)' \subseteq LiveRows(i)
      BY <1>1, <2>2 DEF QueueInserts, queueVars, LiveRows
    <3>2. Counted(i)' \subseteq Counted(i)
      BY <2>1 DEF Counted, TypeOK
    <3> QED
      BY <3>1, <3>2, FewerKeepsWall
  <2>3. CASE ~PairIsLive(request[r].instance, request[r].asset)
    <3> DEFINE n == arrived + 1
    <3>1. rows' = [rows EXCEPT ![n] = QueuedRow(request[r].instance, request[r].asset)]
          /\ n \in Ids
      BY <1>1, <2>3, BoundsAssumption DEF QueueInserts, TypeOK, Ids
    <3>2. CASE request[r].instance = i
      <4>1. LiveRows(i)' \subseteq LiveRows(i) \cup {n}
        BY <3>1 DEF LiveRows, TypeOK
      <4>2. Counted(i)' \subseteq Counted(i) \ {r} /\ r \in Counted(i)
        BY <2>1, <3>2 DEF Counted, TypeOK
      <4>3. /\ Cardinality(LiveRows(i)') <= Cardinality(LiveRows(i) \cup {n})
            /\ Cardinality(LiveRows(i)') \in Nat /\ Cardinality(LiveRows(i) \cup {n}) \in Nat
            /\ Cardinality(LiveRows(i) \cup {n}) <= Cardinality(LiveRows(i)) + 1
        <5>1. IsFiniteSet(LiveRows(i) \cup {n})
              /\ Cardinality(LiveRows(i) \cup {n}) \in
                   {Cardinality(LiveRows(i)), Cardinality(LiveRows(i)) + 1}
          BY CountsAreFinite, FS_AddElement
        <5> QED
          BY <4>1, <5>1, CountsAreFinite, FS_Subset, FS_CardinalityType
      <4>4. /\ Cardinality(Counted(i)') <= Cardinality(Counted(i)) - 1
            /\ Cardinality(Counted(i)') \in Nat
        <5>1. IsFiniteSet(Counted(i) \ {r})
              /\ Cardinality(Counted(i) \ {r}) = Cardinality(Counted(i)) - 1
          BY <4>2, CountsAreFinite, FS_RemoveElement
        <5> QED
          BY <4>2, <5>1, FS_Subset, FS_CardinalityType
      <4> QED
        BY <4>3, <4>4, CountsAreFinite, BoundsAssumption DEF WallInv
    <3>3. CASE request[r].instance # i
      <4>1. LiveRows(i)' \subseteq LiveRows(i)
        BY <3>1, <3>3 DEF LiveRows, TypeOK, QueuedRow
      <4>2. Counted(i)' \subseteq Counted(i)
        BY <2>1 DEF Counted, TypeOK
      <4> QED
        BY <4>1, <4>2, FewerKeepsWall
    <3> QED
      BY <3>2, <3>3
  <2> QED
    BY <2>2, <2>3
<1>2. ASSUME \A d \in Ids : Kept(d) \/ Taken(d) \/ GivenUp(d) \/ Aged(d) PROVE Goal
  <2>1. LiveRows(i)' \subseteq LiveRows(i)
    BY <1>2, LiveRowsShrink
  <2>2. ASSUME Counted(i)' \subseteq Counted(i) PROVE Goal
    BY <2>1, <2>2, FewerKeepsWall
  <2>3. CASE request' = request
    BY <2>2, <2>3 DEF Counted
  <2>4. ASSUME NEW r \in Requests, request' = [request EXCEPT ![r] = request'[r]],
               request'[r].at # "counted"
        PROVE  Goal
    <3>1. Counted(i)' \subseteq Counted(i)
      BY <2>4 DEF Counted, TypeOK
    <3> QED
      BY <2>2, <3>1
  <2>5. ASSUME NEW r \in Requests, QueueCounts(r) PROVE Goal
    <3>1. /\ request' = [request EXCEPT ![r] = request'[r]]
          /\ request'[r] = IF Cardinality(LiveRows(request[r].instance)) < PendingPerInstance
                           THEN [request[r] EXCEPT !.at = "counted"] ELSE IdleRequest
          /\ request[r] \in [at: {"instance", "asset", "counted", "conflicted"},
                             instance: Instances, asset: Assets, accepted: Declarations]
          /\ rows' = rows
      BY <2>5 DEF QueueCounts, TypeOK, queueVars, RequestState, IdleRequest
    <3>2. CASE Cardinality(LiveRows(i)) < PendingPerInstance
      <4>1. LiveRows(i)' = LiveRows(i)
        BY <3>1 DEF LiveRows
      <4>2. Counted(i)' \subseteq Requests
        BY DEF Counted
      <4>3. Cardinality(Counted(i)') <= Cardinality(Requests)
            /\ Cardinality(Counted(i)') \in Nat
        BY <4>2, CountsAreFinite, FS_Subset, FS_CardinalityType
      <4> QED
        BY <3>2, <4>1, <4>3, CountsAreFinite, BoundsAssumption
    <3>3. CASE ~(Cardinality(LiveRows(i)) < PendingPerInstance)
      <4>1. request'[r] = IdleRequest \/ request'[r].instance # i
        BY <3>1, <3>3
      <4>2. Counted(i)' \subseteq Counted(i)
        BY <3>1, <4>1 DEF Counted, TypeOK, IdleRequest
      <4> QED
        BY <2>2, <4>2
    <3> QED
      BY <3>2, <3>3
  <2>6. ASSUME NEW r \in Requests, NEW j \in Instances, NEW a \in Assets,
               QueueReadsInstance(r, j, a)
        PROVE  Goal
    <3>1. request' = [request EXCEPT ![r] = request'[r]] /\ request'[r].at = "instance"
      BY <2>6 DEF QueueReadsInstance, TypeOK
    <3> QED
      BY <2>4, <3>1
  <2>7. ASSUME NEW r \in Requests, QueueReadsAsset(r) PROVE Goal
    <3>1. request' = [request EXCEPT ![r] = request'[r]]
          /\ request'[r].at \in {"asset", "idle"}
      BY <2>7 DEF QueueReadsAsset, TypeOK, RequestState, IdleRequest
    <3> QED
      BY <2>4, <3>1
  <2>8. ASSUME NEW r \in Requests, QueueInserts(r) PROVE Goal
    <3>1. /\ request' = [request EXCEPT ![r] = request'[r]]
          /\ request'[r].at \in {"conflicted", "answered"}
      BY <2>8 DEF QueueInserts, Answered, TypeOK, RequestState, IdleRequest
    <3> QED
      BY <2>4, <3>1
  <2>10. ASSUME NEW r \in Requests, QueueRereads(r) \/ QueueEnds(r) PROVE Goal
    <3>1. request' = [request EXCEPT ![r] = request'[r]]
          /\ request'[r].at \in {"answered", "idle"}
      BY <2>10 DEF QueueRereads, QueueEnds, Answered, TypeOK, IdleRequest
    <3> QED
      BY <2>4, <3>1
  <2>9. CASE Restart
    <3>1. Counted(i)' \subseteq Counted(i)
      BY <2>9 DEF Restart, Counted, IdleRequest
    <3> QED
      BY <2>2, <3>1
  <2> HIDE DEF Goal
  <2> QED
    BY <2>3, <2>5, <2>6, <2>7, <2>8, <2>9, <2>10
    DEF Next, vars, handlerVars, Discard, Collect, Claim, CollectEnds, Sweep, RevokeStarts,
        RevokeCommits, UpdateDeclaration, CatalogChanges, LeaseRunsOut, RetentionRunsOut,
        SignatureRunsOut, ArtifactResolves, ArtifactOpens, SourceOpens, DownloadEnds
<1> HIDE DEF Goal
<1>3. Goal
  BY <1>1, <1>2, RowSteps
<1> QED
  BY <1>3 DEF Goal

(* The count and the insert of Queue run in two statements, and yet no     *)
(* instance ever has more live deliveries than the wall and the handlers   *)
(* that were between the two.                                              *)
THEOREM WallHolds == Spec => []OvershootBounded
<1>1. Init => WallInv
  <2> SUFFICES ASSUME Init, NEW i \in Instances
               PROVE  Cardinality(LiveRows(i)) + Cardinality(Counted(i))
                        < PendingPerInstance + Cardinality(Requests)
    BY DEF WallInv
  <2>1. LiveRows(i) = {} /\ Counted(i) = {}
    BY DEF Init, LiveRows, Counted, Live, NoRow, IdleRequest
  <2> QED
    BY <2>1, FS_EmptySet, CountsAreFinite, BoundsAssumption
<1>2. TypeOK /\ WallInv /\ [Next]_vars => WallInv'
  BY WallStep DEF WallInv
<1>3. WallInv => OvershootBounded
  BY CountsAreFinite, BoundsAssumption DEF WallInv, OvershootBounded
<1> QED
  BY <1>1, <1>2, <1>3, TypeCorrect, PTL DEF Spec

-----------------------------------------------------------------------------
(* The queue keeps the promise of SendPromise.  A number not yet given out *)
(* has no row, and a revoke that has started marks only rows it may take   *)
(* away: of its own instance, or gone since.                               *)

ArrivalInv ==
    /\ \A d \in Ids : d > arrived => rows[d] = NoRow
    /\ \A i \in Instances : \A d \in doomed[i] :
         d <= arrived /\ (rows[d] = NoRow \/ rows[d].instance = i)

LEMMA KeptInstance ==
    ASSUME TypeOK, NEW d \in Ids, Kept(d) \/ Taken(d) \/ GivenUp(d) \/ Aged(d)
    PROVE  /\ rows[d] = NoRow => rows'[d] = NoRow
           /\ rows'[d] = NoRow \/ (/\ rows'[d].instance = rows[d].instance
                                  /\ rows'[d].asset = rows[d].asset)
<1>1. CASE Kept(d)
  BY <1>1 DEF Kept
<1>2. CASE Taken(d)
  <2>1. PICK i \in Instances, accepted \in Declarations :
          rows[d] \in Row /\ rows'[d] = Released(rows[d], accepted)
    BY <1>2 DEF Taken
  <2>2. /\ Released(rows[d], accepted).instance = rows[d].instance
        /\ Released(rows[d], accepted).asset = rows[d].asset
    BY <2>1 DEF Released, Failed, Row
  <2> QED
    BY <2>1, <2>2 DEF Row, NoRow
<1>3. CASE GivenUp(d)
  BY <1>3 DEF GivenUp, Failed, Row, NoRow
<1>4. CASE Aged(d)
  BY <1>4 DEF Aged, Row, NoRow
<1> QED
  BY <1>1, <1>2, <1>3, <1>4

LEMMA ArrivalStep ==
    ASSUME TypeOK, ArrivalInv, [Next]_vars
    PROVE  ArrivalInv'
<1>1. ASSUME NEW r \in Requests, QueueInserts(r) PROVE ArrivalInv'
  <2>1. doomed' = doomed /\ \A i \in Instances : doomed[i] \subseteq Ids
    BY <1>1 DEF QueueInserts, instanceVars, TypeOK
  <2>2. CASE UNCHANGED queueVars
    BY <2>1, <2>2 DEF queueVars, ArrivalInv
  <2>3. ASSUME NEW row, arrived' = arrived + 1, rows' = [rows EXCEPT ![arrived + 1] = row]
        PROVE  ArrivalInv'
    <3>1. arrived \in Nat /\ \A d \in Ids : d \in Nat /\ (d # arrived + 1 => rows'[d] = rows[d])
      BY <2>3, BoundsAssumption DEF TypeOK, Ids
    <3> QED
      BY <2>1, <2>3, <3>1 DEF ArrivalInv
  <2> QED
    BY <1>1, <2>2, <2>3 DEF QueueInserts
<1>2. ASSUME arrived' = arrived, \A d \in Ids : Kept(d) \/ Taken(d) \/ GivenUp(d) \/ Aged(d),
             \A i \in Instances : doomed'[i] \subseteq doomed[i]
      PROVE  ArrivalInv'
  BY <1>2, KeptInstance DEF ArrivalInv, TypeOK
<1>3. ASSUME NEW i \in Instances, RevokeStarts(i) PROVE ArrivalInv'
  <2>1. UNCHANGED queueVars /\ arrived \in Nat /\ \A d \in Ids : d \in Nat
    BY <1>3, BoundsAssumption DEF RevokeStarts, TypeOK, Ids
  <2>2. \A j \in Instances : doomed'[j] =
          IF j = i THEN {d \in Ids : rows[d] # NoRow /\ rows[d].instance = i} ELSE doomed[j]
    BY <1>3 DEF RevokeStarts, TypeOK
  <2>3. ASSUME NEW j \in Instances, NEW d \in doomed'[j]
        PROVE  d <= arrived /\ (rows[d] = NoRow \/ rows[d].instance = j)
    <3>1. CASE j = i
      <4>1. d \in Ids /\ rows[d] # NoRow /\ rows[d].instance = j
        BY <2>2, <2>3, <3>1
      <4>2. ~(d > arrived)
        BY <4>1 DEF ArrivalInv
      <4> QED
        BY <2>1, <4>1, <4>2
    <3>2. CASE j # i
      BY <2>2, <2>3, <3>2 DEF ArrivalInv
    <3> QED
      BY <3>1, <3>2
  <2> QED
    BY <2>1, <2>3 DEF ArrivalInv, queueVars
<1>4. ASSUME NEW i \in Instances, RevokeCommits(i)
      PROVE  arrived' = arrived /\ \A j \in Instances : doomed'[j] \subseteq doomed[j]
  BY <1>4 DEF RevokeCommits, TypeOK
<1>5. CASE Restart
  <2>1. arrived' = arrived /\ \A j \in Instances : doomed'[j] \subseteq doomed[j]
    BY <1>5 DEF Restart, queueVars
  <2>2. \A d \in Ids : Kept(d)
    BY <1>5 DEF Restart, queueVars, Kept
  <2> QED
    BY <1>2, <2>1, <2>2
<1>6. \/ \E r \in Requests : QueueInserts(r)
      \/ \E i \in Instances : RevokeStarts(i) \/ RevokeCommits(i)
      \/ Restart
      \/ arrived' = arrived /\ doomed' = doomed
  BY ZenonT(30) DEF Next, vars, handlerVars, instanceVars, queueVars, QueueReadsInstance, QueueReadsAsset,
     QueueCounts, QueueRereads, QueueEnds, Discard, Collect, Claim, CollectEnds, Sweep,
     UpdateDeclaration,
     CatalogChanges, LeaseRunsOut, RetentionRunsOut, SignatureRunsOut, ArtifactResolves,
     ArtifactOpens, SourceOpens, DownloadEnds
<1> QED
  BY <1>1, <1>2, <1>3, <1>4, <1>5, <1>6, RowSteps

LEMMA ArrivalHolds == Spec => []ArrivalInv
<1>1. Init => ArrivalInv
  BY DEF Init, ArrivalInv
<1>2. TypeOK /\ ArrivalInv /\ [Next]_vars => ArrivalInv'
  BY ArrivalStep
<1> QED
  BY <1>1, <1>2, TypeCorrect, PTL DEF Spec

-----------------------------------------------------------------------------
(* What a Queue handler answered is a row of its pair, or has gone since:  *)
(* numbers are not given out twice, so no other row takes its place.       *)

RowOfPair(d, i, a) ==
    d <= arrived /\ (rows[d] = NoRow \/ (rows[d].instance = i /\ rows[d].asset = a))

AnswerInv ==
    \A r \in Requests : request[r].at = "answered" =>
        RowOfPair(request[r].delivery, request[r].instance, request[r].asset)

LEMMA RowStaysOfPair ==
    ASSUME TypeOK, [Next]_vars, NEW d \in Ids, NEW i, NEW a, RowOfPair(d, i, a)
    PROVE  RowOfPair(d, i, a)'
<1>1. arrived \in Nat /\ d \in Nat
  BY BoundsAssumption DEF TypeOK, Ids
<1>2. ASSUME NEW r \in Requests, QueueInserts(r) PROVE RowOfPair(d, i, a)'
  <2>1. CASE UNCHANGED queueVars
    BY <2>1 DEF queueVars, RowOfPair
  <2>2. ASSUME NEW row, arrived' = arrived + 1, rows' = [rows EXCEPT ![arrived + 1] = row]
        PROVE  RowOfPair(d, i, a)'
    <3>1. d # arrived + 1 /\ d <= arrived'
      BY <1>1, <2>2 DEF RowOfPair
    <3>2. rows'[d] = rows[d]
      BY <2>2, <3>1 DEF TypeOK
    <3> QED
      BY <3>1, <3>2 DEF RowOfPair
  <2> QED
    BY <1>2, <2>1, <2>2 DEF QueueInserts
<1>3. ASSUME arrived' = arrived, Kept(d) \/ Taken(d) \/ GivenUp(d) \/ Aged(d)
      PROVE  RowOfPair(d, i, a)'
  BY <1>3, KeptInstance DEF RowOfPair
<1>4. (\E r \in Requests : QueueInserts(r)) \/ arrived' = arrived
  BY ZenonT(30) DEF Next, vars, queueVars, QueueReadsInstance, QueueReadsAsset,
     QueueCounts, QueueRereads, QueueEnds, Discard, Collect, Claim, CollectEnds, Sweep,
     RevokeStarts, RevokeCommits, UpdateDeclaration, CatalogChanges, LeaseRunsOut,
     RetentionRunsOut, SignatureRunsOut, ArtifactResolves, ArtifactOpens, SourceOpens,
     DownloadEnds, Restart
<1> QED
  BY <1>2, <1>3, <1>4, RowSteps

(* A handler that answers in this step answers with a row of its pair.     *)
LEMMA AnswersRight ==
    ASSUME TypeOK, ArrivalInv, [Next]_vars, NEW r \in Requests, request'[r].at = "answered",
           request'[r] # request[r]
    PROVE  RowOfPair(request[r].delivery, request[r].instance, request[r].asset)'
<1>1. ASSUME QueueInserts(r)
      PROVE  RowOfPair(request[r].delivery, request[r].instance, request[r].asset)'
  <2> DEFINE i == request[r].instance
             a == request[r].asset
             n == arrived + 1
  <2>1. /\ arrived' = n /\ arrived < MaxDeliveries
        /\ rows' = [rows EXCEPT ![n] = QueuedRow(i, a)]
        /\ request' = [request EXCEPT ![r] = Answered(i, a, n)]
    <3>1. CASE request' = [request EXCEPT ![r].at = "conflicted"]
      BY <1>1, <3>1 DEF QueueInserts, TypeOK, RequestState, IdleRequest
    <3> QED
      BY <1>1, <3>1 DEF QueueInserts
  <2>2. n \in Ids /\ n <= arrived'
    BY <2>1, BoundsAssumption DEF TypeOK, Ids
  <2>3. rows'[n] = QueuedRow(i, a)
    BY <2>1, <2>2 DEF TypeOK
  <2>4. request'[r] = Answered(i, a, n)
    BY <2>1 DEF TypeOK
  <2> QED
    BY <2>2, <2>3, <2>4 DEF Answered, QueuedRow, RowOfPair
<1>2. ASSUME QueueRereads(r)
      PROVE  RowOfPair(request[r].delivery, request[r].instance, request[r].asset)'
  <2> DEFINE i == request[r].instance
             a == request[r].asset
  <2>1. PICK d \in LiveOfPair(i, a) : request'[r] = Answered(i, a, d)
    BY <1>2 DEF QueueRereads, TypeOK, IdleRequest
  <2>2. d \in Ids /\ rows[d] # NoRow /\ rows[d].instance = i /\ rows[d].asset = a
    BY DEF LiveOfPair, Live, NoRow
  <2>3. d <= arrived
    BY <2>2, BoundsAssumption DEF ArrivalInv, TypeOK, Ids
  <2>4. rows' = rows /\ arrived' = arrived
    BY <1>2 DEF QueueRereads, queueVars
  <2> QED
    BY <2>1, <2>2, <2>3, <2>4 DEF Answered, RowOfPair
<1>3. ASSUME NEW s \in Requests, s # r, QueueInserts(s) \/ QueueRereads(s) PROVE FALSE
  BY <1>3 DEF QueueInserts, QueueRereads, TypeOK
<1>4. ASSUME NEW s \in Requests,
             \/ \E i \in Instances, a \in Assets : QueueReadsInstance(s, i, a)
             \/ QueueReadsAsset(s) \/ QueueCounts(s) \/ QueueEnds(s)
      PROVE  FALSE
  <2>1. /\ request' = [request EXCEPT ![s] = request'[s]]
        /\ request'[s].at # "answered"
    BY <1>4 DEF QueueReadsInstance, QueueReadsAsset, QueueCounts, QueueEnds, TypeOK,
                RequestState, IdleRequest
  <2> QED
    BY <2>1 DEF TypeOK
<1>5. CASE Restart
  BY <1>5 DEF Restart, IdleRequest
<1>6. CASE request' = request
  BY <1>6
<1>7. \/ \E s \in Requests :
           \/ \E i \in Instances, a \in Assets : QueueReadsInstance(s, i, a)
           \/ QueueReadsAsset(s) \/ QueueCounts(s) \/ QueueInserts(s)
           \/ QueueRereads(s) \/ QueueEnds(s)
      \/ Restart
      \/ request' = request
  BY ZenonT(30) DEF Next, vars, handlerVars, Discard, Collect, Claim, CollectEnds, Sweep,
     RevokeStarts, RevokeCommits, UpdateDeclaration, CatalogChanges, LeaseRunsOut,
     RetentionRunsOut, SignatureRunsOut, ArtifactResolves, ArtifactOpens, SourceOpens,
     DownloadEnds
<1> QED
  BY <1>1, <1>2, <1>3, <1>4, <1>5, <1>6, <1>7

LEMMA AnswerStep ==
    ASSUME TypeOK, ArrivalInv, AnswerInv, [Next]_vars
    PROVE  AnswerInv'
<1> SUFFICES ASSUME NEW r \in Requests, request'[r].at = "answered"
             PROVE  RowOfPair(request[r].delivery, request[r].instance, request[r].asset)'
  BY DEF AnswerInv
<1>1. CASE request'[r] = request[r]
  <2>1. PICK d \in Ids : d = request[r].delivery
    BY <1>1 DEF TypeOK, RequestState, IdleRequest
  <2>2. PICK i, a : i = request[r].instance /\ a = request[r].asset
    OBVIOUS
  <2>3. RowOfPair(d, i, a)
    BY <1>1, <2>1, <2>2 DEF AnswerInv
  <2>4. RowOfPair(d, i, a)'
    BY <2>3, RowStaysOfPair
  <2> QED
    BY <1>1, <2>1, <2>2, <2>4 DEF RowOfPair
<1>2. CASE request'[r] # request[r]
  BY <1>2, AnswersRight
<1> QED
  BY <1>1, <1>2

(* Pressing send twice queues once, however the two requests interleave    *)
(* with each other, with claims and with failures, and a handler that met  *)
(* the conflict answers with the row the other inserted.                   *)
THEOREM OneDelivery == Spec => []SentOnce
<1>1. Init => OneLivePerPair /\ AnswerInv
  BY DEF Init, OneLivePerPair, Live, NoRow, AnswerInv, IdleRequest
<1>2. TypeOK /\ ArrivalInv /\ OneLivePerPair /\ AnswerInv /\ [Next]_vars
        => OneLivePerPair' /\ AnswerInv'
  BY OneLiveStep, AnswerStep
<1>3. TypeOK /\ OneLivePerPair /\ AnswerInv => SentOnce
  <2> SUFFICES ASSUME TypeOK, OneLivePerPair, AnswerInv, NEW r \in Requests, NEW s \in Requests,
                      request[r].at = "answered", request[s].at = "answered",
                      request[r].instance = request[s].instance,
                      request[r].asset = request[s].asset,
                      Live(rows[request[r].delivery]), Live(rows[request[s].delivery])
               PROVE  request[r].delivery = request[s].delivery
    BY DEF SentOnce
  <2>1. request[r].delivery \in Ids /\ request[s].delivery \in Ids
    BY DEF TypeOK, RequestState, IdleRequest
  <2>2. rows[request[r].delivery] # NoRow /\ rows[request[s].delivery] # NoRow
    BY DEF Live, NoRow
  <2> QED
    BY <2>1, <2>2 DEF OneLivePerPair, AnswerInv, RowOfPair
<1> QED
  BY <1>1, <1>2, <1>3, TypeCorrect, ArrivalHolds, PTL DEF Spec

-----------------------------------------------------------------------------
(* The parcel of each row before and after a step.                         *)

LEMMA ParcelShape ==
    ASSUME TypeOK, NEW d \in Ids
    PROVE  /\ rows[d] # NoRow =>
                /\ rows[d] \in Row
                /\ ParcelOf(d) \in Abstract!Parcel
                /\ ParcelOf(d).instance = rows[d].instance
                /\ ParcelOf(d).asset = rows[d].asset
                /\ ParcelOf(d).takes = rows[d].attempts
                /\ Abstract!Open(ParcelOf(d)) <=> Live(rows[d])
                /\ ParcelOf(d) # Abstract!Unsent
           /\ rows[d] = NoRow =>
                /\ ParcelOf(d) = IF d <= arrived THEN Abstract!Gone ELSE Abstract!Unsent
                /\ ~Abstract!Open(ParcelOf(d)) /\ ~Live(rows[d])
           /\ Abstract!Gone # Abstract!Unsent
BY DEF TypeOK, ParcelOf, StatusOf, Row, NoRow, Live, Abstract!Parcel, Abstract!Open,
       Abstract!Unsent, Abstract!Gone

(* Rows that go leave gone parcels.                                        *)
LEMMA RemovedParcels ==
    ASSUME TypeOK, NEW S \in SUBSET Ids, \A d \in S : d <= arrived, arrived' = arrived,
           rows' = [d \in Ids |-> IF d \in S THEN NoRow ELSE rows[d]]
    PROVE  /\ [d \in Ids |-> ParcelOf(d)]' =
                [d \in Ids |-> IF d \in S THEN Abstract!Gone ELSE [e \in Ids |-> ParcelOf(e)][d]]
           /\ \A d \in S : ParcelOf(d) # Abstract!Unsent
<1>1. ASSUME NEW d \in Ids
      PROVE  ParcelOf(d)' = IF d \in S THEN Abstract!Gone ELSE ParcelOf(d)
  BY <1>1 DEF ParcelOf, Abstract!Gone
<1>2. ASSUME NEW d \in S PROVE ParcelOf(d) # Abstract!Unsent
  BY <1>2, ParcelShape
<1> QED
  BY <1>1, <1>2

LEMMA RemoveStep ==
    ASSUME TypeOK, NEW S \in SUBSET Ids, \A d \in S : d <= arrived, arrived' = arrived,
           rows' = [d \in Ids |-> IF d \in S THEN NoRow ELSE rows[d]],
           live' = live, catalog' = catalog
    PROVE  Abstract!Remove(S)
BY RemovedParcels DEF Abstract!Remove, Sendable

(* A row that only ages, and a step that is not about the queue.           *)
LEMMA StutterStep ==
    ASSUME arrived' = arrived, live' = live, catalog' = catalog,
           \A d \in Ids :
               \/ rows'[d] = rows[d]
               \/ /\ rows[d] # NoRow /\ rows'[d] # NoRow
                  /\ rows'[d].state = rows[d].state /\ rows'[d].instance = rows[d].instance
                  /\ rows'[d].asset = rows[d].asset /\ rows'[d].attempts = rows[d].attempts
    PROVE  UNCHANGED Abstract!promiseVars
<1>1. ASSUME NEW d \in Ids PROVE ParcelOf(d)' = ParcelOf(d)
  BY <1>1 DEF ParcelOf, StatusOf
<1> QED
  BY <1>1 DEF Abstract!promiseVars, Sendable

LEMMA SendStep ==
    ASSUME TypeOK, ArrivalInv, NEW r \in Requests, QueueInserts(r)
    PROVE  Abstract!PromiseNext \/ UNCHANGED Abstract!promiseVars
<1> DEFINE i == request[r].instance
           a == request[r].asset
<1>1. i \in Instances /\ a \in Assets /\ live' = live /\ catalog' = catalog
  BY DEF TypeOK, QueueInserts, RequestState, IdleRequest, instanceVars
<1>2. CASE PairIsLive(i, a)
  BY <1>1, <1>2, StutterStep DEF QueueInserts, queueVars
<1>3. CASE ~PairIsLive(i, a)
  <2>1. PICK n \in Ids : /\ n = arrived + 1 /\ arrived' = n /\ arrived \in Nat
                         /\ rows' = [rows EXCEPT ![n] = QueuedRow(i, a)]
    BY <1>3, BoundsAssumption DEF QueueInserts, TypeOK, Ids
  <2>2. rows[n] = NoRow /\ \A d \in Ids : d \in Nat
    BY <2>1 DEF ArrivalInv, Ids
  <2>3. ParcelOf(n) = Abstract!Unsent
    BY <2>1, <2>2 DEF ParcelOf, Abstract!Unsent
  <2>4. ParcelOf(n)' = [status |-> "waiting", instance |-> i, asset |-> a, takes |-> 0]
    <3>1. rows'[n] = QueuedRow(i, a)
      BY <2>1 DEF TypeOK
    <3>2. /\ rows'[n].instance = i /\ rows'[n].asset = a /\ rows'[n].attempts = 0
          /\ rows'[n].state = "queued" /\ rows'[n] # NoRow
      BY <3>1 DEF QueuedRow, NoRow
    <3> QED
      BY <3>2 DEF ParcelOf, StatusOf
  <2>5. ASSUME NEW d \in Ids, d # n PROVE ParcelOf(d)' = ParcelOf(d)
    BY <2>1, <2>2, <2>5 DEF ParcelOf, StatusOf, TypeOK
  <2>6. ~Abstract!OpenFor(i, a)
    BY <1>3, ParcelShape DEF Abstract!OpenFor, PairIsLive, LiveOfPair
  <2>7. [d \in Ids |-> ParcelOf(d)]' =
          [[d \in Ids |-> ParcelOf(d)] EXCEPT ![n] =
             [status |-> "waiting", instance |-> i, asset |-> a, takes |-> 0]]
    BY <2>1, <2>4, <2>5
  <2>8. Abstract!Send(n, i, a)
    BY <1>1, <2>1, <2>3, <2>6, <2>7 DEF Abstract!Send, Sendable
  <2> QED
    BY <1>1, <2>1, <2>8 DEF Abstract!PromiseNext
<1> QED
  BY <1>2, <1>3

LEMMA ParcelExcept ==
    ASSUME NEW p \in Abstract!Parcel, NEW t \in {"taken", "stopped"}, NEW m \in 0..MaxAttempts
    PROVE  [p EXCEPT !.status = t, !.takes = m] =
             [status |-> t, instance |-> p.instance, asset |-> p.asset, takes |-> m]
<1> DEFINE q == [p EXCEPT !.status = t, !.takes = m]
<1>1. q \in Abstract!Parcel
  BY DEF Abstract!Parcel
<1>2. q.status = t /\ q.instance = p.instance /\ q.asset = p.asset /\ q.takes = m
  BY DEF Abstract!Parcel
<1> HIDE DEF q
<1>3. q = [status |-> q.status, instance |-> q.instance, asset |-> q.asset, takes |-> q.takes]
  BY <1>1 DEF Abstract!Parcel
<1>4. q = [status |-> t, instance |-> p.instance, asset |-> p.asset, takes |-> m]
  BY <1>2, <1>3, Zenon
<1> QED
  BY <1>4 DEF q

(* A claimed row is handed over, which is a take, or stopped.              *)
LEMMA TakenParcel ==
    ASSUME TypeOK, NEW d \in Ids, NEW i, rows[d] \in Row, Live(rows[d]), rows[d].instance = i,
           arrived' = arrived, rows'[d] \in Row,
           rows'[d].instance = i, rows'[d].asset = rows[d].asset,
           \/ /\ rows'[d].state = "failed"
              /\ rows'[d].attempts \in {rows[d].attempts, rows[d].attempts + 1}
           \/ /\ rows'[d].state = "released" /\ rows'[d].attempts = rows[d].attempts + 1
              /\ i \in live /\ rows[d].asset \in Sendable /\ rows[d].attempts < MaxAttempts
    PROVE  \/ Abstract!MayTake(d, i) /\ ParcelOf(d)' = Abstract!Taken(ParcelOf(d))
           \/ /\ Abstract!Open(ParcelOf(d)) /\ ParcelOf(d).instance = i
              /\ ParcelOf(d)' \in Abstract!Stopped(ParcelOf(d))
<1>1. rows[d] # NoRow /\ rows'[d] # NoRow
  BY DEF Row, NoRow
<1>2. ParcelOf(d) = [status |-> StatusOf(rows[d]), instance |-> i,
                     asset |-> rows[d].asset, takes |-> rows[d].attempts]
  BY <1>1 DEF ParcelOf
<1>3. ParcelOf(d)' = [status |-> StatusOf(rows'[d]), instance |-> i,
                      asset |-> rows[d].asset, takes |-> rows'[d].attempts]
  BY <1>1 DEF ParcelOf, StatusOf
<1>4. /\ Abstract!Open(ParcelOf(d)) /\ ParcelOf(d) \in Abstract!Parcel
      /\ ParcelOf(d).instance = i /\ ParcelOf(d).asset = rows[d].asset
      /\ ParcelOf(d).takes = rows[d].attempts /\ rows'[d].attempts \in 0..MaxAttempts
  BY <1>1, ParcelShape DEF Row
<1>5. CASE rows'[d].state = "failed"
  <2>1. rows'[d].attempts \in {rows[d].attempts, rows[d].attempts + 1} \cap (0..MaxAttempts)
    BY <1>5 DEF Row
  <2>2. ParcelOf(d)' = [ParcelOf(d) EXCEPT !.status = "stopped", !.takes = rows'[d].attempts]
    <3>1. StatusOf(rows'[d]) = "stopped"
      BY <1>5 DEF StatusOf
    <3>2. [ParcelOf(d) EXCEPT !.status = "stopped", !.takes = rows'[d].attempts] =
            [status |-> "stopped", instance |-> ParcelOf(d).instance,
             asset |-> ParcelOf(d).asset, takes |-> rows'[d].attempts]
      BY <1>4, ParcelExcept
    <3> QED
      BY <1>3, <1>4, <3>1, <3>2, Zenon
  <2> QED
    BY <1>4, <2>1, <2>2 DEF Abstract!Stopped
<1>6. CASE rows'[d].state = "released"
  <2>1. ParcelOf(d)' = [ParcelOf(d) EXCEPT !.status = "taken", !.takes = @ + 1]
    <3>1. StatusOf(rows'[d]) = "taken" /\ rows'[d].attempts = rows[d].attempts + 1
      BY <1>6 DEF StatusOf
    <3>2. [ParcelOf(d) EXCEPT !.status = "taken", !.takes = rows'[d].attempts] =
            [status |-> "taken", instance |-> ParcelOf(d).instance,
             asset |-> ParcelOf(d).asset, takes |-> rows'[d].attempts]
      BY <1>4, ParcelExcept
    <3> QED
      BY <1>3, <1>4, <3>1, <3>2, Zenon
  <2>2. Abstract!MayTake(d, i)
    BY <1>2, <1>4, <1>6 DEF Abstract!MayTake
  <2> QED
    BY <2>1, <2>2 DEF Abstract!Taken
<1> QED
  BY <1>5, <1>6

LEMMA ParcelType ==
    TypeOK => \A d \in Ids : ParcelOf(d) \in Abstract!Parcel \cup {Abstract!Unsent, Abstract!Gone}
BY ParcelShape

LEMMA TakeStep ==
    ASSUME TypeOK, TypeOK', NEW c \in Collectors, NEW locked, NEW heard,
           Claim(c, locked, heard)
    PROVE  Abstract!PromiseNext
<1>1. PICK i \in Instances : i = collector[c].instance
  BY DEF TypeOK, CollectorState, IdleCollector, Claim
<1>2. live' = live /\ catalog' = catalog /\ arrived' = arrived
  BY DEF Claim, instanceVars
<1>3. (\A d \in Ids : ParcelOf(d) \in Abstract!Parcel \cup {Abstract!Unsent, Abstract!Gone})'
  BY ParcelType, PTL
<1>4. ASSUME NEW d \in Ids
      PROVE  \/ ParcelOf(d)' = ParcelOf(d)
             \/ Abstract!MayTake(d, i) /\ ParcelOf(d)' = Abstract!Taken(ParcelOf(d))
             \/ /\ Abstract!Open(ParcelOf(d)) /\ ParcelOf(d).instance = i
                /\ ParcelOf(d)' \in Abstract!Stopped(ParcelOf(d))
  <2>1. CASE rows'[d] = rows[d]
    BY <1>2, <2>1 DEF ParcelOf
  <2>2. ASSUME d \in Exhausted(i), rows[d] \in Row, rows'[d] = Failed(rows[d], "abandoned")
        PROVE  /\ Live(rows[d]) /\ rows[d].instance = i /\ rows'[d] \in Row
               /\ rows'[d].instance = i /\ rows'[d].asset = rows[d].asset
               /\ rows'[d].state = "failed" /\ rows'[d].attempts = rows[d].attempts
    BY <2>2 DEF Exhausted, Live, Failed, Row
  <2>3. ASSUME d \in Claimable(i), rows[d] \in Row, NEW accepted \in Declarations,
               rows'[d] = Released(rows[d], accepted)
        PROVE  /\ Live(rows[d]) /\ rows[d].instance = i /\ rows'[d] \in Row
               /\ rows'[d].instance = i /\ rows'[d].asset = rows[d].asset
               /\ rows'[d].attempts = rows[d].attempts + 1 /\ rows[d].attempts < MaxAttempts
               /\ \/ rows'[d].state = "failed"
                  \/ /\ rows'[d].state = "released"
                     /\ i \in live /\ rows[d].asset \in Sendable
    <3>1. Live(rows[d]) /\ rows[d].instance = i /\ i \in live /\ rows[d].attempts < MaxAttempts
      BY <2>3 DEF Claimable
    <3>2. rows'[d] \in Row
      BY <2>3, <3>1, ReleasedType
    <3>3. /\ rows'[d].instance = rows[d].instance /\ rows'[d].asset = rows[d].asset
          /\ rows'[d].attempts = rows[d].attempts + 1
          /\ rows'[d].state = "failed" \/ (rows'[d].state = "released"
                                           /\ catalog[rows[d].asset].sendable)
      BY <2>3 DEF Released, Failed, Row
    <3>4. rows[d].asset \in Assets
      BY <2>3 DEF Row
    <3> QED
      BY <3>1, <3>2, <3>3, <3>4 DEF Sendable
  <2> QED
    BY <1>1, <1>2, <2>1, <2>2, <2>3, ClaimedRows, TakenParcel
<1>5. Abstract!Take(i)
  BY <1>2, <1>3, <1>4 DEF Abstract!Take, Sendable
<1> QED
  BY <1>1, <1>5 DEF Abstract!PromiseNext

LEMMA UnlinkStep ==
    ASSUME TypeOK, ArrivalInv, NEW i \in Instances, RevokeCommits(i)
    PROVE  Abstract!PromiseNext
<1>1. /\ rows' = [d \in Ids |-> IF d \in doomed[i] THEN NoRow ELSE rows[d]]
      /\ arrived' = arrived /\ catalog' = catalog /\ live' = live \ {i} /\ i \in live
  BY DEF RevokeCommits, TypeOK
<1>2. doomed[i] \in SUBSET Ids /\ \A d \in doomed[i] :
        d <= arrived /\ (rows[d] = NoRow \/ rows[d].instance = i)
  BY DEF TypeOK, ArrivalInv
<1>3. \A d \in doomed[i] :
        ParcelOf(d) = Abstract!Gone \/ (ParcelOf(d) # Abstract!Unsent /\ ParcelOf(d).instance = i)
  BY <1>2, ParcelShape
<1>4. Abstract!Unlink(i, doomed[i])
  BY <1>1, <1>2, <1>3, RemovedParcels DEF Abstract!Unlink, Sendable
<1> QED
  BY <1>2, <1>4 DEF Abstract!PromiseNext

(* Every step of the queue is a step of the promise, or none.              *)
LEMMA PromiseStep ==
    ASSUME TypeOK, TypeOK', ArrivalInv, [Next]_vars
    PROVE  [Abstract!PromiseNext]_(Abstract!promiseVars)
<1> DEFINE Goal == Abstract!PromiseNext \/ UNCHANGED Abstract!promiseVars
<1>1. ASSUME NEW S \in SUBSET Ids, \A d \in S : rows[d] # NoRow, arrived' = arrived,
             rows' = [d \in Ids |-> IF d \in S THEN NoRow ELSE rows[d]],
             live' = live, catalog' = catalog
      PROVE  Goal
  <2>1. \A d \in S : d <= arrived
    BY <1>1 DEF ArrivalInv, Ids, TypeOK
  <2> QED
    BY <1>1, <2>1, RemoveStep DEF Abstract!PromiseNext
<1>2. ASSUME NEW d \in Ids, Discard(d) PROVE Goal
  <2>1. rows' = [e \in Ids |-> IF e \in {d} THEN NoRow ELSE rows[e]]
    BY <1>2 DEF Discard, TypeOK
  <2> QED
    BY <1>1, <1>2, <2>1 DEF Discard, instanceVars
<1>3. ASSUME Sweep PROVE Goal
  <2> DEFINE S == Oldest({d \in Ids : rows[d] # NoRow /\ rows[d].expired}, SweepBatch)
  <2>1. S \in SUBSET Ids /\ \A d \in S : rows[d] # NoRow
    BY DEF Oldest
  <2>2. /\ rows' = [d \in Ids |-> IF d \in S THEN NoRow ELSE rows[d]]
        /\ live' = live /\ catalog' = catalog /\ arrived' = arrived
    BY <1>3 DEF Sweep, instanceVars
  <2> HIDE DEF S, Goal
  <2> QED
    BY <1>1, <2>1, <2>2
<1>4. ASSUME NEW c \in Collectors, NEW i \in Instances, NEW acks, NEW heard,
             Collect(c, i, acks, heard)
      PROVE  Goal
  <2> DEFINE S == {d \in Ids : d \in acks /\ rows[d].state = "released" /\ rows[d].instance = i}
  <2>1. S \in SUBSET Ids /\ \A d \in S : rows[d] # NoRow
    BY DEF NoRow
  <2>2. /\ rows' = [d \in Ids |-> IF d \in S THEN NoRow ELSE rows[d]]
        /\ live' = live /\ catalog' = catalog /\ arrived' = arrived
    BY <1>4 DEF Collect, Acknowledged, instanceVars
  <2> HIDE DEF S, Goal
  <2> QED
    BY <1>1, <2>1, <2>2
<1>5. ASSUME NEW d \in Ids, LeaseRunsOut(d) \/ RetentionRunsOut(d) PROVE Goal
  <2>1. rows[d] \in Row /\ rows[d] # NoRow
    BY <1>5 DEF TypeOK, LeaseRunsOut, RetentionRunsOut, NoRow
  <2>2. /\ arrived' = arrived /\ live' = live /\ catalog' = catalog
        /\ rows' = [rows EXCEPT ![d].lease = "out"] \/ rows' = [rows EXCEPT ![d].expired = TRUE]
    BY <1>5 DEF LeaseRunsOut, RetentionRunsOut, instanceVars
  <2>3. \A e \in Ids :
          \/ rows'[e] = rows[e]
          \/ /\ rows[e] # NoRow /\ rows'[e] # NoRow
             /\ rows'[e].state = rows[e].state /\ rows'[e].instance = rows[e].instance
             /\ rows'[e].asset = rows[e].asset /\ rows'[e].attempts = rows[e].attempts
    BY <2>1, <2>2 DEF TypeOK, Row, NoRow
  <2> QED
    BY <2>2, <2>3, StutterStep
<1>6. ASSUME UNCHANGED <<rows, arrived, live, catalog>> PROVE Goal
  BY <1>6, StutterStep
<1>7. ASSUME NEW a \in Assets, NEW entry \in CatalogEntries, CatalogChanges(a, entry)
      PROVE  Goal
  <2>1. UNCHANGED <<rows, arrived, live>>
    BY <1>7 DEF CatalogChanges, queueVars, instanceVars
  <2>2. \A d \in Ids : ParcelOf(d)' = ParcelOf(d)
    BY <2>1 DEF ParcelOf
  <2>3. Abstract!CatalogMoves
    BY <2>1, <2>2 DEF Abstract!CatalogMoves, Sendable
  <2> QED
    BY <2>3 DEF Abstract!PromiseNext
<1> HIDE DEF Goal
<1>8. ASSUME NEW c \in Collectors, NEW locked, NEW heard, Claim(c, locked, heard) PROVE Goal
  BY <1>8, TakeStep DEF Goal
<1>9. ASSUME NEW r \in Requests, QueueInserts(r) PROVE Goal
  BY <1>9, SendStep DEF Goal
<1>10. ASSUME NEW i \in Instances, RevokeCommits(i) PROVE Goal
  BY <1>10, UnlinkStep DEF Goal
<1>11. Goal
  BY <1>2, <1>3, <1>4, <1>5, <1>6, <1>7, <1>8, <1>9, <1>10
  DEF Next, vars, instanceVars, queueVars, QueueReadsInstance, QueueReadsAsset, QueueCounts,
      QueueRereads, QueueEnds, CollectEnds, ArtifactResolves, ArtifactOpens, SourceOpens,
      DownloadEnds, SignatureRunsOut, RevokeStarts, UpdateDeclaration, Restart
<1> QED
  BY <1>11 DEF Goal

(* Every behaviour of the queue is one SendPromise allows: a delivery is   *)
(* sent once, taken a bounded number of times by a linked instance while   *)
(* the asset may be seen, and never comes back.                            *)
THEOREM PromiseKept == Spec => KeepsPromise
<1>1. Init => Abstract!PromiseInit
  <2> SUFFICES ASSUME Init PROVE Abstract!PromiseInit
    OBVIOUS
  <2>1. ASSUME NEW d \in Ids PROVE ParcelOf(d) = Abstract!Unsent
    BY <2>1 DEF Init, ParcelOf, Ids, Abstract!Unsent
  <2> QED
    BY <2>1 DEF Init, Abstract!PromiseInit, Sendable
<1>2. TypeOK /\ TypeOK' /\ ArrivalInv /\ [Next]_vars
        => [Abstract!PromiseNext]_(Abstract!promiseVars)
  BY PromiseStep
<1> QED
  BY <1>1, <1>2, ArrivalHolds, TypeCorrect, PTL DEF Spec, KeepsPromise, Abstract!Promise

-----------------------------------------------------------------------------
(* The hub of held requests, for every number of instances, collect        *)
(* requests, senders and deliveries.                                       *)

HubInv == HubTypeOK /\ RegisteredIsOpen /\ RegisteredOrSuperseded /\ NoLostWakeup

(* What a claim takes.                                                     *)
LEMMA TakesEffect ==
    ASSUME HubTypeOK, NEW h \in Handlers, ClaimTakes(h)
    PROVE  LET i == handler[h].instance
           IN  /\ i \in Instances
               /\ queued' \in [Instances -> Nat] /\ lapsed' \in [Instances -> Nat]
               /\ \A j \in Instances : j # i => queued'[j] = queued[j]
               /\ drained' \subseteq drained \cup {h}
               /\ h \in drained' =>
                    /\ queued'[i] = 0
                    /\ \A g \in Handlers : OpenClaim(g, i) => handler[g].fresh = 0
               /\ \E fresh, again, spent \in Nat :
                    /\ handler' = [handler EXCEPT ![h] = Taking(i, fresh, again, spent)]
                    /\ queued'[i] = queued[i] - fresh
<1> DEFINE i == handler[h].instance
<1> DEFINE Took(spent, fresh, again) ==
             /\ fresh + again <= Batch
             /\ fresh + again < Batch => fresh = queued[i] /\ again = lapsed[i] - spent
             /\ queued' = [queued EXCEPT ![i] = @ - fresh]
             /\ lapsed' = [lapsed EXCEPT ![i] = @ - spent - again]
             /\ handler' = [handler EXCEPT ![h] = Taking(i, fresh, again, spent)]
             /\ drained' = IF /\ fresh + again < Batch
                              /\ \A g \in Handlers : OpenClaim(g, i) => handler[g].fresh = 0
                           THEN drained \cup {h} ELSE drained \ {h}
<1>1. i \in Instances
  BY DEF HubTypeOK, ClaimTakes, Idle
<1>2. PICK spent \in 0..lapsed[i], fresh \in 0..queued[i] :
        \E again \in 0..(lapsed[i] - spent) : Took(spent, fresh, again)
  BY Zenon DEF ClaimTakes
<1>3. PICK again \in 0..(lapsed[i] - spent) : Took(spent, fresh, again)
  BY <1>2, Zenon
<1>4. queued \in [Instances -> Nat] /\ lapsed \in [Instances -> Nat]
  BY DEF HubTypeOK
<1>5. spent \in Nat /\ fresh \in Nat /\ again \in Nat
  BY <1>1, <1>4
<1>6. queued' \in [Instances -> Nat] /\ lapsed' \in [Instances -> Nat]
      /\ queued'[i] = queued[i] - fresh
      /\ \A j \in Instances : j # i => queued'[j] = queued[j]
  BY <1>1, <1>3, <1>4
<1>7. drained' \subseteq drained \cup {h}
  BY <1>3
<1>8. h \in drained' => fresh + again < Batch
                        /\ \A g \in Handlers : OpenClaim(g, i) => handler[g].fresh = 0
  BY <1>3, Zenon
<1>9. h \in drained' => queued'[i] = 0
  BY <1>1, <1>3, <1>4, <1>6, <1>8
<1> QED
  BY <1>1, <1>3, <1>5, <1>6, <1>7, <1>8, <1>9

-----------------------------------------------------------------------------
(* The invariant holds at first and through every step.                    *)

LEMMA HubInitInv == HubInit => HubInv
BY HubAssumption DEF HubInit, HubInv, HubTypeOK, RegisteredIsOpen, RegisteredOrSuperseded,
                     NoLostWakeup, Admitted, Idle

LEMMA AcknowledgeInv ==
    ASSUME HubInv, NEW h \in Handlers, NEW i \in Instances, NEW acks \in 0..MaxWork,
           AcknowledgeAndHold(h, i, acks)
    PROVE  HubInv'
<1>1. leased' \in [Instances -> Nat] /\ lapsed' \in [Instances -> Nat]
  BY HubAssumption DEF HubInv, HubTypeOK, AcknowledgeAndHold
<1>2. /\ handler[h] = Idle
      /\ handler' = [handler EXCEPT ![h] = [at |-> "holding", instance |-> i]]
      /\ UNCHANGED <<waiting, woken, superseded, drained, sender, queued>>
  BY DEF AcknowledgeAndHold, hubVars
<1>3. HubTypeOK'
  BY <1>1, <1>2 DEF HubInv, HubTypeOK
<1>4. \A g \in Handlers : handler'[g] = handler[g] \/ (g = h /\ ~Admitted(g) /\ ~Admitted(g)')
  BY <1>2 DEF HubInv, HubTypeOK, Admitted, Idle
<1>5. RegisteredIsOpen' /\ RegisteredOrSuperseded'
  BY <1>2, <1>4 DEF HubInv, HubTypeOK, RegisteredIsOpen, RegisteredOrSuperseded, Admitted
<1>6. /\ handler'[h].at \notin {"taking", "selecting"}
      /\ \A g \in Handlers \ {h} : handler'[g] = handler[g]
  BY <1>2 DEF HubInv, HubTypeOK
<1>7. \A g \in Handlers \ {h} : FreshFor(g)' => FreshFor(g)
  BY <1>2, <1>6 DEF FreshFor, OpenClaim
<1>8. NoLostWakeup'
  BY <1>2, <1>6, <1>7 DEF HubInv, NoLostWakeup
<1> QED
  BY <1>3, <1>5, <1>8 DEF HubInv

LEMMA HoldInv ==
    ASSUME HubInv, NEW h \in Handlers, Hold(h)
    PROVE  HubInv'
<1> DEFINE i == handler[h].instance
<1>1. i \in Instances /\ ~Admitted(h)
  BY DEF HubInv, HubTypeOK, Hold, Idle, Admitted
<1>2. CASE Full(i)
  <2>1. /\ handler' = [handler EXCEPT ![h] = Idle]
        /\ UNCHANGED <<waiting, woken, superseded, drained, sender, queued, leased, lapsed>>
    BY <1>2 DEF Hold, hubVars, workVars
  <2>2. \A g \in Handlers : handler'[g] = handler[g] \/ (g = h /\ ~Admitted(g)')
    BY <2>1 DEF HubInv, HubTypeOK, Admitted, Idle
  <2>3. HubTypeOK'
    BY <2>1 DEF HubInv, HubTypeOK
  <2>4. RegisteredIsOpen' /\ RegisteredOrSuperseded'
    BY <1>1, <2>1, <2>2 DEF HubInv, HubTypeOK, RegisteredIsOpen, RegisteredOrSuperseded,
                            Admitted
  <2>5. /\ handler'[h].at \notin {"taking", "selecting"}
        /\ \A g \in Handlers \ {h} : handler'[g] = handler[g]
    BY <2>1 DEF HubInv, HubTypeOK, Idle
  <2>6. \A g \in Handlers \ {h} : FreshFor(g)' => FreshFor(g)
    BY <2>1, <2>5 DEF FreshFor, OpenClaim
  <2>7. NoLostWakeup'
    BY <2>1, <2>5, <2>6 DEF HubInv, NoLostWakeup
  <2> QED
    BY <2>3, <2>4, <2>7 DEF HubInv
<1>3. CASE ~Full(i)
  <2>1. /\ superseded' = (superseded \cup ({waiting[i]} \ {Nobody})) \ {h}
        /\ woken' = woken \ {h}
        /\ waiting' = [waiting EXCEPT ![i] = h]
        /\ handler' = [handler EXCEPT ![h] = [at |-> "claiming", instance |-> i]]
        /\ drained' = drained \ {h}
        /\ UNCHANGED <<sender, queued, leased, lapsed>>
    BY <1>3 DEF Hold, At, workVars
  <2>2. HubTypeOK'
    BY <1>1, <2>1 DEF HubInv, HubTypeOK
  <2>3. handler'[h] = [at |-> "claiming", instance |-> i]
        /\ \A g \in Handlers \ {h} : handler'[g] = handler[g]
    BY <2>1 DEF HubInv, HubTypeOK
  <2>4. \A j \in Instances : waiting[j] # h
    BY <1>1, HubAssumption DEF HubInv, RegisteredIsOpen
  <2>5. waiting'[i] = h /\ \A j \in Instances \ {i} : waiting'[j] = waiting[j]
    BY <1>1, <2>1 DEF HubInv, HubTypeOK
  <2>6. RegisteredIsOpen'
    BY <1>1, <2>1, <2>3, <2>4, <2>5, HubAssumption
       DEF HubInv, HubTypeOK, RegisteredIsOpen, Admitted
  <2>7. RegisteredOrSuperseded'
    BY <1>1, <2>1, <2>3, <2>4, <2>5, HubAssumption
       DEF HubInv, HubTypeOK, RegisteredOrSuperseded, Admitted, Idle
  <2>8. \A g \in Handlers \ {h} : FreshFor(g)' => FreshFor(g)
    BY <2>1, <2>3 DEF FreshFor, OpenClaim
  <2>9. \A g \in Handlers : handler[g].at \in {"taking", "selecting"}
                           => handler[g].instance \in Instances
    BY DEF HubInv, HubTypeOK, Idle
  <2>10. NoLostWakeup'
    BY <2>1, <2>3, <2>4, <2>5, <2>8, <2>9, HubAssumption DEF HubInv, NoLostWakeup
  <2> QED
    BY <2>2, <2>6, <2>7, <2>10 DEF HubInv
<1> QED
  BY <1>2, <1>3

(* The deliveries nobody has had yet are fewer for every other request, or *)
(* were there before, so the ones a request may sleep over do not grow.    *)
FreshStays(h) ==
    \A g \in Handlers \ {h} : handler[g].at \in {"taking", "selecting"} /\ FreshFor(g)'
        => FreshFor(g)

(* A handler that returns leaves the hub as the rest of the system needs.  *)
LEMMA ReturnsInv ==
    ASSUME HubInv, NEW h \in Handlers, Admitted(h), Returns(h),
           woken' = woken, superseded' = superseded,
           drained' \subseteq drained \cup {h}, sender' = sender,
           FreshStays(h),
           queued' \in [Instances -> Nat], leased' \in [Instances -> Nat],
           lapsed' \in [Instances -> Nat]
    PROVE  HubInv'
<1> DEFINE i == handler[h].instance
<1>1. i \in Instances
  BY DEF HubInv, HubTypeOK, Admitted, Idle
<1>2. /\ handler'[h] = Idle /\ ~Admitted(h)'
      /\ \A g \in Handlers \ {h} : handler'[g] = handler[g]
  BY DEF HubInv, HubTypeOK, Returns, Admitted, Idle
<1>3. \A j \in Instances :
        waiting'[j] = waiting[j] \/ (waiting[j] = h /\ waiting'[j] = Nobody)
  BY <1>1 DEF HubInv, HubTypeOK, Returns, AfterRelease
<1>4. \A j \in Instances : waiting'[j] # h
  BY <1>1, <1>3, HubAssumption DEF HubInv, HubTypeOK, RegisteredIsOpen, Returns, AfterRelease
<1>5. HubTypeOK'
  BY <1>1 DEF HubInv, HubTypeOK, Returns, AfterRelease
<1>6. RegisteredIsOpen'
  BY <1>2, <1>3, <1>4 DEF HubInv, HubTypeOK, RegisteredIsOpen, Admitted
<1>7. RegisteredOrSuperseded'
  BY <1>2, <1>3, HubAssumption
     DEF HubInv, HubTypeOK, RegisteredOrSuperseded, Admitted, Idle
<1>8. \A g \in Handlers : handler[g].at \in {"taking", "selecting"}
                          => handler[g].instance \in Instances
  BY DEF HubInv, HubTypeOK, Idle
<1>9. NoLostWakeup'
  BY <1>2, <1>3, <1>8, HubAssumption DEF HubInv, FreshStays, NoLostWakeup, Idle
<1> QED
  BY <1>5, <1>6, <1>7, <1>9 DEF HubInv

(* A claim moves fresh deliveries out of the queue into its own hands, so  *)
(* what another request may have is the same; and one that left nothing    *)
(* and passed over nothing may have none itself.                           *)
LEMMA TakesInv ==
    ASSUME HubInv, NEW h \in Handlers, ClaimTakes(h)
    PROVE  HubInv'
<1> DEFINE i == handler[h].instance
<1>1. HubTypeOK /\ Admitted(h) /\ handler[h].at = "claiming"
  BY DEF HubInv, ClaimTakes, Admitted
<1>2. PICK fresh, again, spent \in Nat :
        /\ i \in Instances
        /\ queued' \in [Instances -> Nat] /\ lapsed' \in [Instances -> Nat]
        /\ \A j \in Instances : j # i => queued'[j] = queued[j]
        /\ drained' \subseteq drained \cup {h}
        /\ h \in drained' =>
             /\ queued'[i] = 0
             /\ \A g \in Handlers : OpenClaim(g, i) => handler[g].fresh = 0
        /\ handler' = [handler EXCEPT ![h] = Taking(i, fresh, again, spent)]
        /\ queued'[i] = queued[i] - fresh
  BY <1>1, TakesEffect
<1>3. UNCHANGED <<waiting, woken, superseded, sender, leased>>
  BY DEF ClaimTakes, hubVars
<1>4. /\ handler'[h] = Taking(i, fresh, again, spent)
      /\ \A g \in Handlers \ {h} : handler'[g] = handler[g]
  BY <1>1, <1>2 DEF HubTypeOK
<1>5. HubTypeOK'
  BY <1>1, <1>2, <1>3 DEF HubTypeOK, Taking
<1>6. RegisteredIsOpen' /\ RegisteredOrSuperseded'
  BY <1>1, <1>3, <1>4
     DEF HubInv, HubTypeOK, RegisteredIsOpen, RegisteredOrSuperseded, Admitted, Taking
<1>7. queued[i] \in Nat /\ \A j \in Instances : queued[j] \in Nat
  BY <1>1, <1>2 DEF HubTypeOK
<1>8. \A g \in Handlers : handler[g].at \in {"taking", "selecting"}
                          => handler[g].instance \in Instances
  BY <1>1 DEF HubTypeOK, Idle
<1>9. FreshStays(h)
  BY <1>2, <1>4, <1>7, <1>8 DEF FreshStays, FreshFor, OpenClaim, Taking
<1>10. h \in drained' => ~FreshFor(h)'
  BY <1>2, <1>4, <1>7 DEF FreshFor, OpenClaim, Taking
<1>11. NoLostWakeup'
  BY <1>2, <1>3, <1>4, <1>9, <1>10 DEF HubInv, NoLostWakeup, FreshStays
<1> QED
  BY <1>5, <1>6, <1>11 DEF HubInv

LEMMA CommitsInv ==
    ASSUME HubInv, NEW h \in Handlers, ClaimCommits(h)
    PROVE  HubInv'
<1> DEFINE i == handler[h].instance
<1>1. /\ HubTypeOK /\ Admitted(h) /\ handler[h].at = "taking" /\ i \in Instances
      /\ handler[h].fresh \in Nat /\ handler[h].again \in Nat
  BY DEF HubInv, HubTypeOK, ClaimCommits, Admitted, Idle
<1>2. UNCHANGED <<woken, superseded, drained, sender, queued, lapsed>>
  BY DEF ClaimCommits
<1>3. PICK work \in 0..(handler[h].fresh + handler[h].again) :
        /\ leased' = [leased EXCEPT ![i] = @ + work]
        /\ IF work > 0 THEN Returns(h)
           ELSE /\ handler' = [handler EXCEPT ![h] = At(h, "selecting")]
                /\ UNCHANGED waiting
  BY Zenon DEF ClaimCommits
<1>4. /\ queued' \in [Instances -> Nat] /\ leased' \in [Instances -> Nat]
      /\ lapsed' \in [Instances -> Nat]
  BY <1>1, <1>2, <1>3 DEF HubTypeOK
<1>5. CASE Returns(h)
  <2>1. /\ handler'[h] = Idle
        /\ \A g \in Handlers \ {h} : handler'[g] = handler[g]
    BY <1>1, <1>5 DEF HubTypeOK, Returns
  <2>2. FreshStays(h)
    BY <1>2, <2>1 DEF FreshStays, FreshFor, OpenClaim, Idle
  <2> QED
    BY <1>1, <1>2, <1>4, <1>5, <2>2, ReturnsInv
<1>6. CASE handler' = [handler EXCEPT ![h] = At(h, "selecting")] /\ waiting' = waiting
  <2>1. /\ handler'[h] = [at |-> "selecting", instance |-> i]
        /\ \A g \in Handlers \ {h} : handler'[g] = handler[g]
    BY <1>1, <1>6 DEF HubTypeOK, At
  <2>2. HubTypeOK'
    BY <1>1, <1>2, <1>4, <1>6 DEF HubTypeOK, At
  <2>3. RegisteredIsOpen' /\ RegisteredOrSuperseded'
    BY <1>1, <1>2, <1>6, <2>1
       DEF HubInv, HubTypeOK, RegisteredIsOpen, RegisteredOrSuperseded, Admitted
  <2>4. \A g \in Handlers : FreshFor(g)' => FreshFor(g)
    BY <1>2, <2>1 DEF FreshFor, OpenClaim
  <2>5. NoLostWakeup'
    BY <1>1, <1>2, <1>6, <2>1, <2>4 DEF HubInv, NoLostWakeup
  <2> QED
    BY <2>2, <2>3, <2>5 DEF HubInv
<1> QED
  BY <1>3, <1>5, <1>6

(* A claim that fails puts back what it took, which other requests could   *)
(* already have counted on.                                                *)
LEMMA FailsInv ==
    ASSUME HubInv, NEW h \in Handlers, ClaimFails(h)
    PROVE  HubInv'
<1> DEFINE i == handler[h].instance
<1>1. /\ HubTypeOK /\ Admitted(h) /\ Returns(h) /\ i \in Instances
      /\ UNCHANGED <<woken, superseded, drained, sender, leased>>
  BY DEF HubInv, HubTypeOK, ClaimFails, Admitted, Idle
<1>2. /\ handler'[h] = Idle
      /\ \A g \in Handlers \ {h} : handler'[g] = handler[g]
  BY <1>1 DEF HubTypeOK, Returns
<1>3. \A g \in Handlers : handler[g].at \in {"taking", "selecting"}
                          => handler[g].instance \in Instances
  BY <1>1 DEF HubTypeOK, Idle
<1>4. CASE queued' = queued /\ lapsed' = lapsed
  <2>1. FreshStays(h)
    BY <1>2, <1>4 DEF FreshStays, FreshFor, OpenClaim, Idle
  <2> QED
    BY <1>1, <1>4, <2>1, ReturnsInv DEF HubTypeOK
<1>5. CASE /\ handler[h].at = "taking"
           /\ queued' = [queued EXCEPT ![i] = @ + handler[h].fresh]
           /\ lapsed' = [lapsed EXCEPT ![i] = @ + handler[h].again + handler[h].spent]
  <2>1. /\ handler[h].fresh \in Nat /\ handler[h].again \in Nat /\ handler[h].spent \in Nat
    BY <1>1, <1>5 DEF HubTypeOK, Idle
  <2>2. /\ queued' \in [Instances -> Nat] /\ leased' \in [Instances -> Nat]
        /\ lapsed' \in [Instances -> Nat]
        /\ queued'[i] = queued[i] + handler[h].fresh
        /\ \A j \in Instances : j # i => queued'[j] = queued[j]
        /\ queued[i] \in Nat
    BY <1>1, <1>5, <2>1 DEF HubTypeOK
  <2>3. FreshStays(h)
    BY <1>2, <1>3, <1>5, <2>1, <2>2 DEF FreshStays, FreshFor, OpenClaim, Idle
  <2> QED
    BY <1>1, <2>2, <2>3, ReturnsInv
<1> QED
  BY <1>4, <1>5 DEF ClaimFails

LEMMA SelectInv ==
    ASSUME HubInv, NEW h \in Handlers,
           WakesForWork(h) \/ Rechecks(h) \/ Supersedes(h) \/ WaitsOut(h)
    PROVE  HubInv'
<1>1. CASE WakesForWork(h) \/ Rechecks(h)
  <2>1. /\ handler[h].at = "selecting"
        /\ handler' = [handler EXCEPT ![h] = At(h, "claiming")]
        /\ woken' = woken \/ woken' = woken \ {h}
        /\ UNCHANGED <<waiting, superseded, drained, sender, queued, leased, lapsed>>
    BY <1>1 DEF WakesForWork, Rechecks, hubVars, workVars
  <2>2. /\ handler'[h] = [at |-> "claiming", instance |-> handler[h].instance]
        /\ \A g \in Handlers \ {h} : handler'[g] = handler[g]
        /\ handler[h].instance \in Instances
    BY <2>1 DEF HubInv, HubTypeOK, At, Idle
  <2>3. HubTypeOK'
    BY <2>1, <2>2 DEF HubInv, HubTypeOK, At
  <2>4. RegisteredIsOpen' /\ RegisteredOrSuperseded'
    BY <2>1, <2>2 DEF HubInv, HubTypeOK, RegisteredIsOpen, RegisteredOrSuperseded, Admitted
  <2>5. \A g \in Handlers : FreshFor(g)' => FreshFor(g)
    BY <2>1, <2>2 DEF FreshFor, OpenClaim
  <2>6. NoLostWakeup'
    BY <2>1, <2>2, <2>5 DEF HubInv, NoLostWakeup
  <2> QED
    BY <2>3, <2>4, <2>6 DEF HubInv
<1>2. CASE Supersedes(h) \/ WaitsOut(h)
  <2>1. Admitted(h) /\ Returns(h)
        /\ UNCHANGED <<woken, superseded, drained, sender, queued, leased, lapsed>>
    BY <1>2 DEF Supersedes, WaitsOut, Admitted, workVars
  <2>2. /\ queued' \in [Instances -> Nat] /\ leased' \in [Instances -> Nat]
        /\ lapsed' \in [Instances -> Nat]
    BY <2>1 DEF HubInv, HubTypeOK
  <2>3. /\ handler'[h] = Idle
        /\ \A g \in Handlers \ {h} : handler'[g] = handler[g]
    BY <2>1 DEF HubInv, HubTypeOK, Returns
  <2>4. FreshStays(h)
    BY <2>1, <2>3 DEF FreshStays, FreshFor, OpenClaim, Idle
  <2> QED
    BY <2>1, <2>2, <2>4, ReturnsInv
<1> QED
  BY <1>1, <1>2

LEMMA SenderInv ==
    ASSUME HubInv, NEW q \in Senders,
           (\E i \in Instances : SenderInserts(q, i)) \/ Signal(q)
    PROVE  HubInv'
<1>1. ASSUME NEW i \in Instances, SenderInserts(q, i) PROVE HubInv'
  <2>1. HubTypeOK'
    BY <1>1 DEF HubInv, HubTypeOK, SenderInserts, hubVars
  <2>2. RegisteredIsOpen' /\ RegisteredOrSuperseded'
    BY <1>1 DEF HubInv, SenderInserts, hubVars, RegisteredIsOpen,
                RegisteredOrSuperseded, Admitted
  <2>3. \A j \in Instances : queued'[j] = queued[j] \/ sender'[q] = j
    BY <1>1 DEF HubInv, HubTypeOK, SenderInserts
  <2>4. \A p \in Senders : sender'[p] = sender[p] \/ sender[p] = Nobody
    BY <1>1 DEF HubInv, HubTypeOK, SenderInserts
  <2>5. \A h \in Handlers : handler[h].at \in {"taking", "selecting"}
                           => handler[h].instance \in Instances
    BY DEF HubInv, HubTypeOK, Idle
  <2>6. \A h \in Handlers : handler[h].at \in {"taking", "selecting"} /\ FreshFor(h)'
                           => FreshFor(h) \/ sender'[q] = handler[h].instance
    BY <1>1, <2>3, <2>5 DEF SenderInserts, hubVars, FreshFor, OpenClaim
  <2>7. NoLostWakeup'
    BY <1>1, <2>4, <2>5, <2>6, HubAssumption
       DEF HubInv, SenderInserts, hubVars, NoLostWakeup
  <2> QED
    BY <2>1, <2>2, <2>7 DEF HubInv
<1>2. CASE Signal(q)
  <2>1. sender[q] \in Instances /\ waiting[sender[q]] \in Handlers \cup {Nobody}
    BY <1>2 DEF HubInv, HubTypeOK, Signal
  <2>2. HubTypeOK'
    BY <1>2, <2>1 DEF HubInv, HubTypeOK, Signal, workVars
  <2>3. RegisteredIsOpen' /\ RegisteredOrSuperseded'
    BY <1>2 DEF HubInv, Signal, RegisteredIsOpen, RegisteredOrSuperseded, Admitted
  <2>4. \A p \in Senders : sender'[p] = sender[p] \/ p = q
    BY <1>2 DEF HubInv, HubTypeOK, Signal
  <2>5. \A h \in Handlers : handler[h].at \in {"taking", "selecting"}
                           => handler[h].instance \in Instances
    BY DEF HubInv, HubTypeOK, Idle
  <2>6. \A h \in Handlers : FreshFor(h)' => FreshFor(h)
    BY <1>2 DEF Signal, workVars, FreshFor, OpenClaim
  <2>7. NoLostWakeup'
    BY <1>2, <2>1, <2>4, <2>5, <2>6, HubAssumption
       DEF HubInv, Signal, workVars, NoLostWakeup
  <2> QED
    BY <2>2, <2>3, <2>7 DEF HubInv
<1> QED
  BY <1>1, <1>2

LEMMA HubNextInv == HubInv /\ [HubNext]_hubState => HubInv'
<1> SUFFICES ASSUME HubInv, [HubNext]_hubState PROVE HubInv'
  OBVIOUS
<1>1. ASSUME NEW i \in Instances, WorkLapses(i) PROVE HubInv'
  BY <1>1 DEF HubInv, HubTypeOK, RegisteredIsOpen, RegisteredOrSuperseded, NoLostWakeup,
              FreshFor, OpenClaim, Admitted, WorkLapses, hubVars
<1>2. CASE HubRestarts
  BY <1>2, HubAssumption DEF HubInv, HubTypeOK, RegisteredIsOpen, RegisteredOrSuperseded,
              NoLostWakeup, FreshFor, OpenClaim, Admitted, Idle, HubRestarts, workVars
<1>3. CASE UNCHANGED hubState
  BY <1>3 DEF HubInv, HubTypeOK, RegisteredIsOpen, RegisteredOrSuperseded, NoLostWakeup,
              FreshFor, OpenClaim, Admitted, hubState
<1> QED
  BY <1>1, <1>2, <1>3, AcknowledgeInv, HoldInv, TakesInv, CommitsInv, FailsInv, SelectInv,
     SenderInv DEF HubNext

LEMMA HubInvariant == HubSpec => []HubInv
<1>1. HubInit => HubInv
  BY HubInitInv
<1>2. HubInv /\ [HubNext]_hubState => HubInv'
  BY HubNextInv
<1> QED
  BY <1>1, <1>2, PTL DEF HubSpec

-----------------------------------------------------------------------------
(* The limit.  Only hold fills a place, and it asks first.                 *)

Places == {i \in Instances : waiting[i] # Nobody}

(* A step empties places, or fills one while there is room.                *)
LEMMA PlacesStep ==
    ASSUME HubTypeOK, [HubNext]_hubState
    PROVE  \/ Places' \subseteq Places
           \/ \E i \in Instances : /\ Places' \subseteq Places \cup {i}
                                   /\ i \in Places \/ ~(Cardinality(Places) >= ConcurrentHolds)
<1>1. waiting \in [Instances -> Handlers \cup {Nobody}]
  BY DEF HubTypeOK
<1>2. ASSUME NEW h \in Handlers, AfterRelease(h) = waiting' PROVE Places' \subseteq Places
  BY <1>1, <1>2 DEF Places, AfterRelease
<1>3. ASSUME NEW h \in Handlers, Returns(h) PROVE Places' \subseteq Places
  BY <1>2, <1>3 DEF Returns
<1>4. ASSUME waiting' = waiting PROVE Places' \subseteq Places
  BY <1>4 DEF Places
<1>5. ASSUME NEW h \in Handlers, Hold(h)
      PROVE  \/ Places' \subseteq Places
             \/ \E i \in Instances : /\ Places' \subseteq Places \cup {i}
                                     /\ i \in Places \/ ~(Cardinality(Places) >= ConcurrentHolds)
  <2>1. handler[h].instance \in Instances
    BY <1>5 DEF HubTypeOK, Hold, Idle
  <2>2. CASE Full(handler[h].instance)
    BY <1>4, <1>5, <2>2 DEF Hold, hubVars
  <2>3. CASE ~Full(handler[h].instance)
    <3>1. waiting' = [waiting EXCEPT ![handler[h].instance] = h]
      BY <1>5, <2>3 DEF Hold
    <3>2. Places' \subseteq Places \cup {handler[h].instance}
      BY <1>1, <2>1, <3>1 DEF Places
    <3>3. handler[h].instance \in Places \/ ~(Cardinality(Places) >= ConcurrentHolds)
      BY <2>1, <2>3 DEF Places, Full
    <3> QED
      BY <2>1, <3>2, <3>3
  <2> QED
    BY <2>2, <2>3
<1>6. ASSUME NEW h \in Handlers, ClaimTakes(h) \/ ClaimCommits(h) PROVE Places' \subseteq Places
  BY <1>3, <1>4, <1>6 DEF ClaimTakes, ClaimCommits, hubVars
<1>7. CASE HubRestarts
  BY <1>7 DEF HubRestarts, Places
<1>8. CASE UNCHANGED hubState
  BY <1>4, <1>8 DEF hubState
<1>9. ASSUME NEW h \in Handlers, WakesForWork(h) \/ Rechecks(h) PROVE Places' \subseteq Places
  BY <1>4, <1>9 DEF WakesForWork, Rechecks, hubVars
<1>10. ASSUME NEW h \in Handlers, Supersedes(h) \/ WaitsOut(h) \/ ClaimFails(h)
       PROVE  Places' \subseteq Places
  BY <1>3, <1>10 DEF Supersedes, WaitsOut, ClaimFails
<1>11. ASSUME NEW q \in Senders, Signal(q) \/ \E i \in Instances : SenderInserts(q, i)
       PROVE  Places' \subseteq Places
  BY <1>4, <1>11 DEF Signal, SenderInserts, hubVars
<1>12. ASSUME NEW i \in Instances, WorkLapses(i) PROVE Places' \subseteq Places
  BY <1>4, <1>12 DEF WorkLapses, hubVars
<1>13. ASSUME NEW h \in Handlers, NEW i \in Instances, NEW acks \in 0..MaxWork,
              AcknowledgeAndHold(h, i, acks)
       PROVE  Places' \subseteq Places
  BY <1>4, <1>13 DEF AcknowledgeAndHold, hubVars
<1> QED
  BY <1>5, <1>6, <1>7, <1>8, <1>9, <1>10, <1>11, <1>12, <1>13 DEF HubNext

LEMMA LimitStep ==
    ASSUME HubTypeOK, HoldsWithinLimit, [HubNext]_hubState PROVE HoldsWithinLimit'
<1>1. IsFiniteSet(Places) /\ Places \subseteq Instances
  BY HubAssumption, FS_Subset DEF Places
<1>2. Cardinality(Places) \in Nat /\ Cardinality(Places) <= ConcurrentHolds
  BY <1>1, FS_CardinalityType DEF HoldsWithinLimit, Places
<1>3. SUFFICES Cardinality(Places') <= ConcurrentHolds
  BY DEF HoldsWithinLimit, Places
<1>4. CASE Places' \subseteq Places
  <2>1. Cardinality(Places') <= Cardinality(Places) /\ Cardinality(Places') \in Nat
    BY <1>1, <1>4, FS_Subset, FS_CardinalityType
  <2> QED
    BY <1>2, <2>1, HubAssumption
<1>5. ASSUME NEW i \in Instances, Places' \subseteq Places \cup {i},
             i \in Places \/ ~(Cardinality(Places) >= ConcurrentHolds)
      PROVE  Cardinality(Places') <= ConcurrentHolds
  <2>1. CASE i \in Places
    BY <1>4, <1>5, <2>1
  <2>2. CASE i \notin Places
    <3>1. IsFiniteSet(Places \cup {i}) /\ Cardinality(Places \cup {i}) = Cardinality(Places) + 1
      BY <1>1, <2>2, FS_AddElement
    <3>2. Cardinality(Places') <= Cardinality(Places) + 1 /\ Cardinality(Places') \in Nat
      BY <1>5, <3>1, FS_Subset, FS_CardinalityType
    <3> QED
      BY <1>2, <1>5, <2>2, <3>2, HubAssumption
  <2> QED
    BY <2>1, <2>2
<1> QED
  BY <1>4, <1>5, PlacesStep

(* The hub never holds more instances than ConcurrentHolds, however hold   *)
(* and release interleave.                                                 *)
THEOREM LimitIsKept == HubSpec => []HoldsWithinLimit
<1>1. HubInit => HoldsWithinLimit
  <2> SUFFICES ASSUME HubInit PROVE HoldsWithinLimit
    OBVIOUS
  <2>1. {i \in Instances : waiting[i] # Nobody} = {}
    BY DEF HubInit
  <2> QED
    BY <2>1, FS_EmptySet, HubAssumption DEF HoldsWithinLimit
<1>2. HubInv /\ HoldsWithinLimit /\ [HubNext]_hubState => HoldsWithinLimit'
  BY LimitStep DEF HubInv
<1> QED
  BY <1>1, <1>2, HubInvariant, PTL DEF HubSpec

(* hub.hold never closes a channel that is closed already.                 *)
THEOREM NeverClosedTwice == HubSpec => []RegisteredIsOpen
BY HubInvariant, PTL DEF HubInv

(* Every admitted request is the registered one or was told to leave.      *)
THEOREM NobodyIsForgotten == HubSpec => []RegisteredOrSuperseded
BY HubInvariant, PTL DEF HubInv

(* A held request does not sleep over a delivery queued while it waited.   *)
THEOREM WakeupsArrive == HubSpec => []NoLostWakeup
BY HubInvariant, PTL DEF HubInv

(* The hub's map, its channels and its limit stay sound.                   *)
THEOREM HubStaysSound == HubSpec => []HubSound
BY HubInvariant, LimitIsKept, PTL DEF HubInv, HubSound
=============================================================================
