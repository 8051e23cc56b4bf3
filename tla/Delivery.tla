------------------------------ MODULE Delivery ------------------------------
(***************************************************************************)
(* The delivery queue of api/internal/delivery: a creator sends an asset   *)
(* to one of their linked instances, the instance collects it under a      *)
(* lease, fetches it through a signed address and acknowledges it.         *)
(*                                                                         *)
(* Every SQL statement or transaction that runs under row locks is one     *)
(* step.  A claim authorises the instance in one statement, reads the      *)
(* catalog in the next and commits: no other request touches the rows it   *)
(* took meanwhile, and it stands here at one moment in between.  So a      *)
(* withdrawal that commits after the claim has read the asset counts as    *)
(* one after the claim, and so does a revoke of the instance, which waits  *)
(* for the rows unless they were queued after it started.  A claim that    *)
(* fails gives the rows back as if it had not been (WaitHub.tla says what  *)
(* that means to the requests that passed over them).  Queue, which reads  *)
(* the instance, the asset and the count before it inserts, and the row it *)
(* conflicts with after, is one step per statement, so other requests run  *)
(* between.                                                                *)
(* Deadlines are flags that time raises in any order: nothing here depends *)
(* on how long a lease is next to a retention window.                      *)
(***************************************************************************)
EXTENDS Integers, FiniteSets, Sequences, QueueSettings

CONSTANTS
    Receivers,          \* those granted the scope asset:receive when linked
    Assets,             \* assets a creator may send
    Formats,            \* export formats an asset can be offered in
    SealedFormats,      \* formats an app allowed for protected content accepts
    Raw,                \* the creator's own file (asset.RawDownloadTarget)
    Declarations,       \* accepted_targets lists an instance may declare
    CatalogEntries,     \* what the catalog may say of an asset
    Requests,           \* concurrent Queue handlers
    Collectors,         \* concurrent Collect handlers
    Downloads,          \* concurrent DownloadDeliveryExport handlers
    MaxAttempts,        \* Settings.MaxAttempts
    PendingPerInstance, \* Settings.PendingPerInstance
    SweepBatch,         \* sweepBatch
    MaxDeliveries       \* bound: rows ever inserted

None == "none"
Targets == Formats \cup {Raw}
NoRow == [state |-> "absent"]

ASSUME BoundsAssumption ==
    /\ MaxAttempts \in Nat \ {0} /\ Batch \in Nat \ {0}
    /\ PendingPerInstance \in Nat \ {0}
    /\ SweepBatch \in Nat \ {0} /\ MaxDeliveries \in Nat

ASSUME SetsAssumption ==
    /\ Receivers \subseteq Instances /\ IsFiniteSet(Requests)
    /\ SealedFormats \subseteq Formats
    /\ Raw \notin Formats /\ None \notin Targets
    /\ Declarations \subseteq Seq(Targets) /\ <<>> \in Declarations
    /\ CatalogEntries \subseteq
         [sendable: BOOLEAN, sealed: BOOLEAN,
          offers: SUBSET Formats, original: BOOLEAN]

VARIABLES
    live,       \* instances not revoked (linked_instances.revoked_at is null)
    revoking,   \* instances whose revoke statement runs and has not committed
    doomed,     \* per instance, the deliveries that statement will delete
    accepts,    \* accepted_targets of each instance
    catalog,    \* what the asset tables say of each asset
    rows,       \* instance_deliveries, by arrival number; NoRow when absent
    arrived,    \* number of rows ever inserted
    request,    \* the Queue handlers
    collector,  \* the Collect handlers
    download,   \* the DownloadDeliveryExport handlers
    signed,     \* deliveries with a signed address that still verifies
    held        \* external: what each application took and may acknowledge

instanceVars == <<live, revoking, doomed, accepts>>
queueVars    == <<rows, arrived>>
handlerVars  == <<request, collector, download>>
clientVars   == <<signed, held>>
vars == <<live, revoking, doomed, accepts, catalog, rows, arrived,
          request, collector, download, signed, held>>

Ids == 1..MaxDeliveries

Row == [instance: Instances, asset: Assets,
        state: {"queued", "released", "failed"},
        attempts: 0..MaxAttempts,
        lease: {"none", "running", "out"},
        target: Targets \cup {None},
        reason: {None, "withdrawn", "unsupported", "abandoned"},
        expired: BOOLEAN]

IdleRequest == [at |-> "idle"]
RequestState == {IdleRequest} \cup
    [at: {"instance", "asset", "counted", "conflicted"}, instance: Instances,
     asset: Assets, accepted: Declarations] \cup
    [at: {"answered"}, instance: Instances, asset: Assets, delivery: Ids]

IdleCollector == [at |-> "idle"]
CollectorState == {IdleCollector} \cup
    [at: {"waiting"}, instance: Instances, accepted: Declarations]

IdleDownload == [at |-> "idle"]
DownloadState == {IdleDownload} \cup
    [at: {"resolved", "located", "served"}, asset: Assets, target: Targets]

-----------------------------------------------------------------------------
(* Reading the queue and the catalog.                                      *)

Live(row) == row.state \in {"queued", "released"}

LiveRows(i) == {d \in Ids : Live(rows[d]) /\ rows[d].instance = i}

(* What DeliverableAsset offers: protected content has no original and     *)
(* only the formats its allowed apps accept.                               *)
OfferedTargets(entry) ==
    IF entry.sealed THEN entry.offers \cap SealedFormats ELSE entry.offers

HasOriginal(entry) == entry.original /\ ~entry.sealed

(* The first accepted target the asset is offered in, then the original.   *)
ChooseTarget(accepted, offered, hasOriginal) ==
    LET usable == offered \cup (IF hasOriginal THEN {Raw} ELSE {})
        hits   == {k \in DOMAIN accepted : accepted[k] \in usable}
    IN  IF hits # {}
        THEN accepted[CHOOSE k \in hits : \A j \in hits : k <= j]
        ELSE IF hasOriginal THEN Raw ELSE None

TargetFor(accepted, a) ==
    ChooseTarget(accepted, OfferedTargets(catalog[a]), HasOriginal(catalog[a]))

-----------------------------------------------------------------------------
(* Queue: one action per statement the handler runs.                       *)

QueueReadsInstance(r, i, a) ==
    /\ request[r] = IdleRequest
    /\ i \in live \cap Receivers
    /\ request' = [request EXCEPT ![r] =
         [at |-> "instance", instance |-> i, asset |-> a, accepted |-> accepts[i]]]
    /\ UNCHANGED <<instanceVars, catalog, queueVars, collector, download, clientVars>>

(* DeliverableAsset and chooseTarget; a refusal ends the request.          *)
QueueReadsAsset(r) ==
    /\ request[r].at = "instance"
    /\ LET a == request[r].asset
       IN  request' = [request EXCEPT ![r] =
             IF /\ catalog[a].sendable
                /\ TargetFor(request[r].accepted, a) # None
             THEN [@ EXCEPT !.at = "asset"] ELSE IdleRequest]
    /\ UNCHANGED <<instanceVars, catalog, queueVars, collector, download, clientVars>>

(* Mutant: the wall is not looked at.                                      *)
QueueCountsNothing(r) ==
    /\ request[r].at = "asset"
    /\ request' = [request EXCEPT ![r].at = "counted"]
    /\ UNCHANGED <<instanceVars, catalog, queueVars, collector, download, clientVars>>

QueueCounts(r) ==
    /\ request[r].at = "asset"
    /\ request' = [request EXCEPT ![r] =
         IF Cardinality(LiveRows(@.instance)) < PendingPerInstance
         THEN [@ EXCEPT !.at = "counted"] ELSE IdleRequest]
    /\ UNCHANGED <<instanceVars, catalog, queueVars, collector, download, clientVars>>

(* Mutant: the unique index covers queued rows only.                       *)
PairIsQueued(i, a) ==
    \E d \in Ids : /\ rows[d].state = "queued"
                   /\ rows[d].instance = i /\ rows[d].asset = a

LiveOfPair(i, a) == {d \in Ids : Live(rows[d]) /\ rows[d].instance = i /\ rows[d].asset = a}

PairIsLive(i, a) == LiveOfPair(i, a) # {}

QueuedRow(i, a) ==
    [instance |-> i, asset |-> a, state |-> "queued", attempts |-> 0,
     lease |-> "none", target |-> None, reason |-> None, expired |-> FALSE]

Answered(i, a, d) == [at |-> "answered", instance |-> i, asset |-> a, delivery |-> d]

(* Insert, or do nothing when the pair already has a live row.             *)
QueueInserts(r) ==
    /\ request[r].at = "counted"
    /\ LET i == request[r].instance
           a == request[r].asset
       IN  \/ /\ PairIsLive(i, a)
              /\ request' = [request EXCEPT ![r].at = "conflicted"]
              /\ UNCHANGED queueVars
           \/ /\ ~PairIsLive(i, a) /\ arrived < MaxDeliveries
              /\ arrived' = arrived + 1
              /\ rows' = [rows EXCEPT ![arrived + 1] = QueuedRow(i, a)]
              /\ request' = [request EXCEPT ![r] = Answered(i, a, arrived + 1)]
    /\ UNCHANGED <<instanceVars, catalog, collector, download, clientVars>>

(* liveDelivery: after the conflict the handler answers with the row that  *)
(* is live now, or not at all if it has gone since.                        *)
QueueRereads(r) ==
    /\ request[r].at = "conflicted"
    /\ LET i == request[r].instance
           a == request[r].asset
       IN  \/ \E d \in LiveOfPair(i, a) :
                request' = [request EXCEPT ![r] = Answered(i, a, d)]
           \/ ~PairIsLive(i, a) /\ request' = [request EXCEPT ![r] = IdleRequest]
    /\ UNCHANGED <<instanceVars, catalog, queueVars, collector, download, clientVars>>

QueueEnds(r) ==
    /\ request[r].at = "answered"
    /\ request' = [request EXCEPT ![r] = IdleRequest]
    /\ UNCHANGED <<instanceVars, catalog, queueVars, collector, download, clientVars>>

(* Discard: the creator drops a delivery, whatever its state.              *)
Discard(d) ==
    /\ rows[d] # NoRow
    /\ rows' = [rows EXCEPT ![d] = NoRow]
    /\ UNCHANGED <<instanceVars, catalog, arrived, handlerVars, clientVars>>

-----------------------------------------------------------------------------
(* Collect: authenticate, acknowledge, then claim until there is work.     *)

Acknowledged(i, acks) ==
    [d \in Ids |-> IF d \in acks /\ rows[d].state = "released" /\ rows[d].instance = i
                   THEN NoRow ELSE rows[d]]

(* The application forgets what it acknowledged once it hears the answer;  *)
(* if the answer is lost it will acknowledge the same work again.          *)
Collect(c, i, acks, heard) ==
    /\ collector[c] = IdleCollector
    /\ i \in live \cap Receivers
    /\ acks \subseteq held[i]
    /\ rows' = Acknowledged(i, acks)
    /\ held' = IF heard THEN [held EXCEPT ![i] = @ \ acks] ELSE held
    /\ collector' = [collector EXCEPT ![c] =
         [at |-> "waiting", instance |-> i, accepted |-> accepts[i]]]
    /\ UNCHANGED <<instanceVars, catalog, arrived, request, download, signed>>

(* Mutant: a lapsed lease is enough to give up.                            *)
ExhaustedByOneLapse(i) ==
    {d \in Ids : /\ rows[d].state = "released" /\ rows[d].instance = i
                 /\ rows[d].lease = "out"}

Exhausted(i) ==
    {d \in Ids : /\ rows[d].state = "released" /\ rows[d].instance = i
                 /\ rows[d].lease = "out"
                 /\ rows[d].attempts >= MaxAttempts}

(* Mutant: the claim does not ask whether the instance is still linked.    *)
ClaimableUnlinked(i) ==
    {d \in Ids : /\ Live(rows[d]) /\ rows[d].instance = i
                 /\ ~rows[d].expired
                 /\ rows[d].attempts < MaxAttempts
                 /\ rows[d].lease # "running"}

Claimable(i) ==
    {d \in Ids : /\ i \in live \cap Receivers
                 /\ Live(rows[d]) /\ rows[d].instance = i
                 /\ ~rows[d].expired
                 /\ rows[d].attempts < MaxAttempts
                 /\ rows[d].lease # "running"}

(* order by queued_at limit batch_size                                     *)
Oldest(S, n) == {d \in S : Cardinality({e \in S : e < d}) < n}

Failed(row, why) ==
    [row EXCEPT !.state = "failed", !.lease = "none", !.reason = why]

(* Mutant: what was allowed when it was queued is still allowed.           *)
ReleasedUnchecked(row, accepted) ==
    LET taken  == [row EXCEPT !.state = "released", !.attempts = @ + 1,
                              !.lease = "running"]
        target == TargetFor(accepted, row.asset)
    IN  IF target = None THEN Failed(taken, "unsupported")
        ELSE [taken EXCEPT !.target = target]

(* One claimed row: taken, then stopped if the asset may not be sent now,  *)
(* else given the target it will be fetched in.                            *)
Released(row, accepted) ==
    LET taken  == [row EXCEPT !.state = "released", !.attempts = @ + 1,
                              !.lease = "running"]
        target == TargetFor(accepted, row.asset)
    IN  IF ~catalog[row.asset].sendable THEN Failed(taken, "withdrawn")
        ELSE IF target = None THEN Failed(taken, "unsupported")
        ELSE [taken EXCEPT !.target = target]

(* The queue after a claim: exhausted rows are given up on first.          *)
AfterClaim(i, claimed, accepted) ==
    [d \in Ids |-> IF d \in Exhausted(i) THEN Failed(rows[d], "abandoned")
                   ELSE IF d \in claimed THEN Released(rows[d], accepted)
                   ELSE rows[d]]

(* Rows that skip locked passes over: those an unfinished revoke deletes,  *)
(* and any that the open claim of another request of the instance holds.   *)
Lockable(c, i) ==
    IF \E b \in Collectors \ {c} : collector[b].at = "waiting" /\ collector[b].instance = i
    THEN Ids ELSE doomed[i]

(* The addresses signed for claimed work (bound: none are kept where the   *)
(* instance has no download to follow one).                                *)
Signed(work) == IF Downloads = {} THEN {} ELSE work

(* The claim transaction.  With work the handler answers, and the answer   *)
(* may be lost; without it the handler waits on.                           *)
Claim(c, locked, heard) ==
    /\ collector[c].at = "waiting"
    /\ LET i       == collector[c].instance
           claimed == Oldest(Claimable(i) \ locked, Batch)
           work    == {d \in claimed : rows'[d].state = "released"}
       IN  /\ locked \subseteq Lockable(c, i)
           /\ rows' = AfterClaim(i, claimed, collector[c].accepted)
           /\ signed' = signed \cup Signed(work)
           /\ held' = IF heard THEN [held EXCEPT ![i] = @ \cup work] ELSE held
           /\ collector' = IF work = {} THEN collector
                           ELSE [collector EXCEPT ![c] = IdleCollector]
    /\ UNCHANGED <<instanceVars, catalog, arrived, request, download>>

(* The hold runs out, the client goes away or a second wait supersedes.    *)
CollectEnds(c) ==
    /\ collector[c].at = "waiting"
    /\ collector' = [collector EXCEPT ![c] = IdleCollector]
    /\ UNCHANGED <<instanceVars, catalog, queueVars, request, download, clientVars>>

-----------------------------------------------------------------------------
(* DownloadDeliveryExport: the row is resolved first, the asset afterwards.*)

ArtifactResolves(f, d) ==
    /\ download[f] = IdleDownload
    /\ d \in signed
    /\ rows[d].state = "released" /\ rows[d].lease = "running"
    /\ ~rows[d].expired /\ rows[d].target # None
    /\ rows[d].instance \in live \cap Receivers
    /\ download' = [download EXCEPT ![f] =
         [at |-> "resolved", asset |-> rows[d].asset, target |-> rows[d].target]]
    /\ UNCHANGED <<instanceVars, catalog, queueVars, request, collector, clientVars>>

(* currentRevisionLocation: the creator's own file, if the asset is public.*)
SourceLocated(a) == catalog[a].sendable /\ catalog[a].original

(* Mutant: an export does not ask which apps the content is sealed for.    *)
MayExportUnsealed(a, target) ==
    catalog[a].sendable /\ target \in catalog[a].offers

(* OpenExportForLinkedInstance, which reads everything in one snapshot.    *)
MayExport(a, target) ==
    /\ catalog[a].sendable
    /\ target \in catalog[a].offers
    /\ catalog[a].sealed => target \in SealedFormats

(* The asset is authorised again.  The creator's own file is located first *)
(* and asked about sealing in a second statement.                          *)
ArtifactOpens(f) ==
    /\ download[f].at = "resolved"
    /\ download' = [download EXCEPT ![f] =
         IF @.target = Raw /\ SourceLocated(@.asset) THEN [@ EXCEPT !.at = "located"]
         ELSE IF @.target # Raw /\ MayExport(@.asset, @.target)
         THEN [@ EXCEPT !.at = "served"]
         ELSE IdleDownload]
    /\ UNCHANGED <<instanceVars, catalog, queueVars, request, collector, clientVars>>

SourceOpens(f) ==
    /\ download[f].at = "located"
    /\ download' = [download EXCEPT ![f] =
         IF catalog[@.asset].sealed THEN IdleDownload ELSE [@ EXCEPT !.at = "served"]]
    /\ UNCHANGED <<instanceVars, catalog, queueVars, request, collector, clientVars>>

DownloadEnds(f) ==
    /\ download[f].at = "served"
    /\ download' = [download EXCEPT ![f] = IdleDownload]
    /\ UNCHANGED <<instanceVars, catalog, queueVars, request, collector, clientVars>>

-----------------------------------------------------------------------------
(* What happens around the queue.                                          *)

(* Mutant: only deliveries that failed are swept.                          *)
SweepFailed ==
    LET expired == {d \in Ids : rows[d].state = "failed" /\ rows[d].expired}
        swept   == Oldest(expired, SweepBatch)
    IN  /\ swept # {}
        /\ rows' = [d \in Ids |-> IF d \in swept THEN NoRow ELSE rows[d]]
        /\ UNCHANGED <<instanceVars, catalog, arrived, handlerVars, clientVars>>

(* Sweep deletes a batch of deliveries past their retention window.        *)
Sweep ==
    LET expired == {d \in Ids : rows[d] # NoRow /\ rows[d].expired}
        swept   == Oldest(expired, SweepBatch)
    IN  /\ swept # {}
        /\ rows' = [d \in Ids |-> IF d \in swept THEN NoRow ELSE rows[d]]
        /\ UNCHANGED <<instanceVars, catalog, arrived, handlerVars, clientVars>>

(* The revoke statement fixes the rows it deletes when it starts ...       *)
RevokeStarts(i) ==
    /\ i \in live \ revoking
    /\ revoking' = revoking \cup {i}
    /\ doomed' = [doomed EXCEPT ![i] =
         {d \in Ids : rows[d] # NoRow /\ rows[d].instance = i}]
    /\ UNCHANGED <<live, accepts, catalog, queueVars, handlerVars, clientVars>>

(* ... and commits: the link is cut, its declaration and those rows go.    *)
RevokeCommits(i) ==
    /\ i \in revoking
    /\ revoking' = revoking \ {i}
    /\ live' = live \ {i}
    /\ accepts' = [accepts EXCEPT ![i] = <<>>]
    /\ doomed' = [doomed EXCEPT ![i] = {}]
    /\ rows' = [d \in Ids |-> IF d \in doomed[i] THEN NoRow ELSE rows[d]]
    /\ UNCHANGED <<catalog, arrived, handlerVars, clientVars>>

(* An update of the same row waits for the revoke and then finds nothing.  *)
UpdateDeclaration(i, declared) ==
    /\ i \in live \ revoking
    /\ accepts' = [accepts EXCEPT ![i] = declared]
    /\ UNCHANGED <<live, revoking, doomed, catalog, queueVars, handlerVars, clientVars>>

(* Publishing, withholding, deleting, restoring, editing or sealing.       *)
CatalogChanges(a, entry) ==
    /\ catalog' = [catalog EXCEPT ![a] = entry]
    /\ UNCHANGED <<instanceVars, queueVars, handlerVars, clientVars>>

LeaseRunsOut(d) ==
    /\ rows[d].state = "released" /\ rows[d].lease = "running"
    /\ rows' = [rows EXCEPT ![d].lease = "out"]
    /\ UNCHANGED <<instanceVars, catalog, arrived, handlerVars, clientVars>>

RetentionRunsOut(d) ==
    /\ rows[d] # NoRow /\ ~rows[d].expired
    /\ rows' = [rows EXCEPT ![d].expired = TRUE]
    /\ UNCHANGED <<instanceVars, catalog, arrived, handlerVars, clientVars>>

SignatureRunsOut(d) ==
    /\ d \in signed
    /\ signed' = signed \ {d}
    /\ UNCHANGED <<instanceVars, catalog, queueVars, handlerVars, held>>

(* A restarted process has no handlers and draws a new signing key.        *)
Restart ==
    /\ request' = [r \in Requests |-> IdleRequest]
    /\ collector' = [c \in Collectors |-> IdleCollector]
    /\ download' = [f \in Downloads |-> IdleDownload]
    /\ signed' = {}
    /\ revoking' = {}
    /\ doomed' = [i \in Instances |-> {}]
    /\ UNCHANGED <<live, accepts, catalog, queueVars, held>>

-----------------------------------------------------------------------------
Init ==
    /\ live = Instances
    /\ revoking = {}
    /\ doomed = [i \in Instances |-> {}]
    /\ accepts \in [Instances -> Declarations]
    /\ catalog \in [Assets -> CatalogEntries]
    /\ rows = [d \in Ids |-> NoRow]
    /\ arrived = 0
    /\ request = [r \in Requests |-> IdleRequest]
    /\ collector = [c \in Collectors |-> IdleCollector]
    /\ download = [f \in Downloads |-> IdleDownload]
    /\ signed = {}
    /\ held = [i \in Instances |-> {}]

Next ==
    \/ \E r \in Requests :
         \/ \E i \in Instances, a \in Assets : QueueReadsInstance(r, i, a)
         \/ QueueReadsAsset(r)
         \/ QueueCounts(r)
         \/ QueueInserts(r)
         \/ QueueRereads(r)
         \/ QueueEnds(r)
    \/ \E c \in Collectors, heard \in BOOLEAN :
         \/ \E i \in Instances : \E acks \in SUBSET held[i] : Collect(c, i, acks, heard)
         \/ \E locked \in SUBSET Ids : Claim(c, locked, heard)
    \/ \E c \in Collectors : CollectEnds(c)
    \/ \E f \in Downloads :
         \/ \E d \in Ids : ArtifactResolves(f, d)
         \/ ArtifactOpens(f)
         \/ SourceOpens(f)
         \/ DownloadEnds(f)
    \/ \E d \in Ids :
         Discard(d) \/ LeaseRunsOut(d) \/ RetentionRunsOut(d) \/ SignatureRunsOut(d)
    \/ Sweep
    \/ \E i \in Instances :
         \/ RevokeStarts(i)
         \/ RevokeCommits(i)
         \/ \E declared \in Declarations : UpdateDeclaration(i, declared)
    \/ \E a \in Assets, entry \in CatalogEntries : CatalogChanges(a, entry)
    \/ Restart

(* The sweeper's ticker keeps firing and every deadline passes in the end. *)
Fairness ==
    /\ WF_vars(Sweep)
    /\ \A d \in Ids : WF_vars(RetentionRunsOut(d))

Spec == Init /\ [][Next]_vars /\ Fairness

-----------------------------------------------------------------------------
(* Properties.                                                             *)

TypeOK ==
    /\ live \subseteq Instances /\ revoking \subseteq live
    /\ doomed \in [Instances -> SUBSET Ids]
    /\ accepts \in [Instances -> Declarations]
    /\ catalog \in [Assets -> CatalogEntries]
    /\ rows \in [Ids -> Row \cup {NoRow}]
    /\ arrived \in 0..MaxDeliveries
    /\ request \in [Requests -> RequestState]
    /\ collector \in [Collectors -> CollectorState]
    /\ download \in [Downloads -> DownloadState]
    /\ signed \subseteq Ids
    /\ held \in [Instances -> SUBSET Ids]

(* No statement of the queue trips the table's CHECK constraints: a lease  *)
(* stands exactly on a released row, a reason exactly on a failed one, and *)
(* what was released has a target to be fetched in.                        *)
ChecksHold ==
    \A d \in Ids : rows[d] # NoRow =>
        /\ (rows[d].state = "released") <=> (rows[d].lease # "none")
        /\ (rows[d].state = "failed") <=> (rows[d].reason # None)
        /\ rows[d].state = "released" => rows[d].target # None /\ rows[d].attempts > 0

(* Concurrent Queue handlers, claims and failed rows never leave an        *)
(* instance two live deliveries of one asset.                              *)
OneLivePerPair ==
    \A d, e \in Ids :
        /\ Live(rows[d]) /\ Live(rows[e])
        /\ rows[d].instance = rows[e].instance /\ rows[d].asset = rows[e].asset
        => d = e

(* Pressing send twice queues once, and a second press returns the first:  *)
(* two sends of one pair racing each other, claims, acknowledgements and   *)
(* lapses leave at most one live delivery, and handlers that answered,     *)
(* one with the row it inserted and the other with the row it re-read      *)
(* after the conflict, name the same one while theirs are live.            *)
SentOnce ==
    /\ OneLivePerPair
    /\ \A r, s \in Requests :
         /\ request[r].at = "answered" /\ request[s].at = "answered"
         /\ request[r].instance = request[s].instance /\ request[r].asset = request[s].asset
         /\ Live(rows[request[r].delivery]) /\ Live(rows[request[s].delivery])
         => request[r].delivery = request[s].delivery

(* A delivery is given up on only after every attempt it was allowed, and  *)
(* one nobody has taken was never tried.                                   *)
AbandonedOnlyWhenSpent ==
    \A d \in Ids : rows[d] # NoRow =>
        /\ rows[d].reason = "abandoned" => rows[d].attempts = MaxAttempts
        /\ rows[d].state = "queued" <=> rows[d].attempts = 0

(* The queue's table stays sound: no statement of Queue, Collect, the      *)
(* claim, Discard or the sweeper trips a CHECK constraint, and claims that *)
(* race lapsing leases and late acknowledgements spend attempts one by one *)
(* and abandon only what has none left.                                    *)
RowsSound == TypeOK /\ ChecksHold /\ AbandonedOnlyWhenSpent

(* The count and the insert of Queue are two statements, so the wall of    *)
(* PendingPerInstance can be passed, but by no more than the handlers that *)
(* were between the two at once.                                           *)
OvershootBounded ==
    \A i \in Instances :
        Cardinality(LiveRows(i)) < PendingPerInstance + Cardinality(Requests)

(* Work leaves the queue only for an instance that is linked and may       *)
(* receive, for an asset that may be sent at that moment, inside the       *)
(* retention window, and never while an earlier lease on it runs; and for  *)
(* an asset sealed since it was queued, or since the wait began, in no     *)
(* format but one its allowed apps accept.                                 *)
HandsOver(d) ==
    /\ rows[d] # NoRow /\ rows'[d] # NoRow
    /\ rows'[d].state = "released"
    /\ rows'[d].attempts # rows[d].attempts

HandedOnlyWhenAllowed ==
    [][\A d \in Ids : HandsOver(d) =>
         /\ rows[d].instance \in live \cap Receivers
         /\ catalog[rows[d].asset].sendable
         /\ ~rows[d].expired
         /\ rows[d].lease # "running"
         /\ rows[d].attempts < MaxAttempts
         /\ catalog[rows[d].asset].sealed => rows'[d].target \in SealedFormats]_vars

(* A signed address opens nothing the catalog has since withdrawn, and     *)
(* what is served of sealed content is a format its allowed apps accept,   *)
(* although the delivery was released before the asset was sealed, and for *)
(* the creator's own file even if it is sealed while the request runs.     *)
ServedOnlyWhenAllowed ==
    [][\A f \in Downloads :
         /\ download[f].at = "resolved" /\ download'[f].at \in {"located", "served"} =>
              catalog[download[f].asset].sendable
         /\ download[f].at # "served" /\ download'[f].at = "served" =>
              (catalog[download[f].asset].sealed =>
                 download[f].target \in SealedFormats)]_vars

(* A delivery row never survives for good: a machine that never returns    *)
(* leaves nothing behind.                                                  *)
EveryDeliveryLeaves == \A d \in Ids : (rows[d] # NoRow) ~> (rows[d] = NoRow)
=============================================================================
