------------------------------- MODULE Ingest -------------------------------
(***************************************************************************)
(* The ingest queue of api/internal/asset: an upload is recorded as an     *)
(* operation, a worker leases it, reads the file and writes the result, a  *)
(* new asset or a revision of one, in a single transaction.  A worker may  *)
(* die or outlive its lease at any point, and another then has the same    *)
(* operation.  All operations here are one account's: its storage cap is   *)
(* what they share.                                                        *)
(*                                                                         *)
(* Reading a file (probing, parsing, extracting images) changes nothing    *)
(* but the store, so it is one choice of outcome.  Sizes are counted in    *)
(* whole blobs.                                                            *)
(***************************************************************************)
EXTENDS Integers, FiniteSets

CONSTANTS
    Operations,   \* ingest_operations.id; a new asset is known by its operation
    Workers,      \* RunIngestWorkers, in every server process
    Blobs,        \* distinct byte sequences
    Pictures,     \* bound: those a creator adds to an asset by hand
    Extracts,     \* the images a file holds, as blobs
    Cap,          \* IngestSettings.AccountStorageCapBytes; 0 is no cap
    MaxAttempts,  \* IngestSettings.MaxAttempts
    Faults        \* bound: deaths of a worker, and leases lapsing under one

NoAsset == "no asset"
NoBlob == "no blob"
NoToken == 0

ASSUME IngestAssumption ==
    /\ Extracts \in [Blobs -> SUBSET Blobs]
    /\ IsFiniteSet(Blobs) /\ Pictures \subseteq Blobs
    /\ Cap \in Nat /\ MaxAttempts \in Nat /\ Faults \in Nat
    /\ NoAsset \notin Operations /\ NoBlob \notin Blobs

VARIABLES
    op,      \* ingest_operations
    asset,   \* per operation, the state of the asset it created
    files,   \* per asset, the blobs of its revisions
    media,   \* per asset, its pictures: extracted ones, superseded too, and added ones
    results, \* per operation, how often its result was written
    worker,  \* per worker, the job it holds in memory
    tokens,  \* lease tokens handed out (uuid.New)
    faults

catalog == <<asset, files, media, results>>
vars == <<op, catalog, worker, tokens, faults>>

NoOp == [status |-> "absent", blob |-> NoBlob, target |-> NoAsset,
         attempts |-> 0, token |-> NoToken, ready |-> FALSE, lapsed |-> FALSE]
Resting == [step |-> "resting", op |-> NoAsset, token |-> NoToken, attempts |-> 0]

Waiting == {"pending", "processing"}
Ended == {"success", "failed"}

Fault == faults < Faults /\ faults' = faults + 1

(* The blobs ensureAccountStorage counts: those of waiting operations and  *)
(* of assets not yet past recovery.                                        *)
AccountBlobs ==
    {op[o].blob : o \in {p \in Operations : op[p].status \in Waiting}}
    \cup UNION {files[a] \cup media[a] :
                  a \in {b \in Operations : asset[b] \in {"live", "frozen", "deleted"}}}
(* It adds what the account does not hold yet, and refuses to pass the cap *)
(* only when that is something.  Without a cap it asks nothing.            *)
FitsAccount(blobs) ==
    \/ Cap = 0
    \/ blobs \subseteq AccountBlobs
    \/ Cardinality(AccountBlobs \cup blobs) <= Cap

Init ==
    /\ op = [o \in Operations |-> NoOp]
    /\ asset = [o \in Operations |-> "none"]
    /\ files = [o \in Operations |-> {}] /\ media = [o \in Operations |-> {}]
    /\ results = [o \in Operations |-> 0]
    /\ worker = [w \in Workers |-> Resting]
    /\ tokens = 0 /\ faults = 0

(* AcceptIngest, after Put; AcceptRevision when the upload names an asset, *)
(* which must be neither deleted nor withheld.                             *)
Accept(o, b, t) ==
    /\ op[o].status = "absent"
    /\ FitsAccount({b})
    /\ t # NoAsset => asset[t] = "live"
    /\ op' = [op EXCEPT ![o] = [NoOp EXCEPT !.status = "pending", !.blob = b,
                                            !.target = t, !.ready = TRUE]]
    /\ UNCHANGED <<catalog, worker, tokens, faults>>

(* Mutants: a lapsed lease is never taken over; a failed operation is due. *)
LeasablePendingOnly(o) == op[o].status = "pending" /\ op[o].ready
LeasableAgain(o) ==
    \/ op[o].status \in {"pending", "failed"} /\ op[o].ready
    \/ op[o].status = "processing" /\ op[o].lapsed

(* leaseNextIngest: due and pending, or processing under a lapsed lease.   *)
Leasable(o) ==
    \/ op[o].status = "pending" /\ op[o].ready
    \/ op[o].status = "processing" /\ op[o].lapsed

Lease(w, o) ==
    /\ worker[w].step = "resting" /\ Leasable(o)
    /\ tokens' = tokens + 1
    /\ op' = [op EXCEPT ![o].status = "processing", ![o].attempts = @ + 1,
                        ![o].token = tokens + 1, ![o].lapsed = FALSE]
    /\ worker' = [worker EXCEPT ![w] = [step |-> "reading", op |-> o, token |-> tokens + 1,
                                        attempts |-> op[o].attempts + 1]]
    /\ UNCHANGED <<catalog, faults>>

(* ProcessNextIngest finds no work; the worker polls again. *)
FindsNothing(w) ==
    /\ worker[w].step = "resting" /\ \A o \in Operations : ~Leasable(o)
    /\ UNCHANGED vars

(* The file is read: prepared, refused for what it is, or an error of the  *)
(* server's own.                                                           *)
Read(w) ==
    /\ worker[w].step = "reading"
    /\ \E step \in {"prepared", "refused", "broken"} :
         worker' = [worker EXCEPT ![w].step = step]
    /\ UNCHANGED <<op, catalog, tokens, faults>>

(* Mutant: updates ask for the status and not for the token. *)
HoldsAnyLease(w) == op[worker[w].op].status = "processing"

(* where id = $1 and lease_token = $2 and status = 'processing' *)
HoldsLease(w) ==
    /\ op[worker[w].op].status = "processing"
    /\ op[worker[w].op].token = worker[w].token

Rests(w) == worker' = [worker EXCEPT ![w] = Resting]

(* finishIngestFailure: an internal error is retried while attempts are    *)
(* left, every other failure is final.  An update that finds another lease *)
(* changes nothing.                                                        *)
Retries(w) == worker[w].step = "broken" /\ worker[w].attempts < MaxAttempts

Retried(w) == [op[worker[w].op] EXCEPT !.status = "pending", !.token = NoToken,
                                       !.ready = FALSE, !.lapsed = FALSE]
FailedOp(o) == [op[o] EXCEPT !.status = "failed", !.blob = NoBlob,
                             !.token = NoToken, !.lapsed = FALSE]

FinishFailure(w) ==
    /\ worker[w].step \in {"refused", "broken"}
    /\ op' = (IF HoldsLease(w)
              THEN [op EXCEPT ![worker[w].op] =
                      IF Retries(w) THEN Retried(w) ELSE FailedOp(worker[w].op)]
              ELSE op)
    /\ Rests(w)
    /\ UNCHANGED <<catalog, tokens, faults>>

(* finalizeIngest, one transaction under the operation's row lock: nothing *)
(* for an operation finished or leased again; ErrStorageCap is a refusal,  *)
(* a target deleted or withheld since is an internal error, and both are   *)
(* reported in a statement of their own.                                   *)
LeaseLost(w) ==
    /\ worker[w].step = "prepared" /\ ~HoldsLease(w)
    /\ Rests(w)
    /\ UNCHANGED <<op, catalog, tokens, faults>>

(* Mutant: the storage check leaves out the extracted images. *)
CandidatesFileOnly(w) == {op[worker[w].op].blob}

Candidates(w) ==
    LET b == op[worker[w].op].blob IN {b} \cup Extracts[b]

TargetReady(w) ==
    LET t == op[worker[w].op].target IN t # NoAsset => asset[t] = "live"

FinalizeRefused(w) ==
    /\ worker[w].step = "prepared" /\ HoldsLease(w)
    /\ \/ ~FitsAccount(Candidates(w))
          /\ worker' = [worker EXCEPT ![w].step = "refused"]
       \/ FitsAccount(Candidates(w)) /\ ~TargetReady(w)
          /\ worker' = [worker EXCEPT ![w].step = "broken"]
    /\ UNCHANGED <<op, catalog, tokens, faults>>

(* Mutant: the result is committed before the operation's end. *)
FinalizeUnfinished(w) ==
    LET o == worker[w].op
        a == IF op[o].target = NoAsset THEN o ELSE op[o].target IN
    /\ worker[w].step = "prepared" /\ HoldsLease(w)
    /\ FitsAccount(Candidates(w)) /\ TargetReady(w)
    /\ asset' = [asset EXCEPT ![a] = "live"]
    /\ files' = [files EXCEPT ![a] = @ \cup {op[o].blob}]
    /\ media' = [media EXCEPT ![a] = @ \cup Extracts[op[o].blob]]
    /\ results' = [results EXCEPT ![o] = @ + 1]
    /\ Rests(w)
    /\ UNCHANGED <<op, tokens, faults>>

(* writeIngestResult, and the operation's end in the same commit.  A new   *)
(* revision's images join those of the earlier ones: their rows are only   *)
(* marked as no longer current, and the account's count still sees them.   *)
Finalize(w) ==
    LET o == worker[w].op
        b == op[o].blob
        a == IF op[o].target = NoAsset THEN o ELSE op[o].target IN
    /\ worker[w].step = "prepared" /\ HoldsLease(w)
    /\ FitsAccount(Candidates(w)) /\ TargetReady(w)
    /\ asset' = [asset EXCEPT ![a] = "live"]
    /\ files' = [files EXCEPT ![a] = @ \cup {b}]
    /\ media' = [media EXCEPT ![a] = @ \cup Extracts[b]]
    /\ results' = [results EXCEPT ![o] = @ + 1]
    /\ op' = [op EXCEPT ![o].status = "success", ![o].blob = NoBlob,
                        ![o].token = NoToken, ![o].lapsed = FALSE]
    /\ Rests(w)
    /\ UNCHANGED <<tokens, faults>>

(* AddMedia, after Put: the creator adds a picture of their own, which     *)
(* counts as well.                                                         *)
AddMedia(a, b) ==
    /\ asset[a] = "live" /\ b \notin media[a]
    /\ FitsAccount({b})
    /\ media' = [media EXCEPT ![a] = @ \cup {b}]
    /\ UNCHANGED <<op, asset, files, results, worker, tokens, faults>>

(* preparePurge ends every operation waiting on the purged blob and breaks *)
(* the references of revisions and media.                                  *)
Purge(b) ==
    /\ b \in AccountBlobs
    /\ op' = [o \in Operations |->
                IF op[o].blob = b THEN FailedOp(o) ELSE op[o]]
    /\ files' = [a \in Operations |-> files[a] \ {b}]
    /\ media' = [a \in Operations |-> media[a] \ {b}]
    /\ UNCHANGED <<asset, results, worker, tokens, faults>>

(* The creator deletes and restores an asset, a moderator withholds and    *)
(* releases it, and at the end of its recovery window it is gone.          *)
AssetMoves == {<<"live", "deleted">>, <<"deleted", "live">>, <<"live", "frozen">>,
               <<"frozen", "live">>, <<"deleted", "gone">>}
AssetChanges(a) ==
    /\ \E state \in {"live", "deleted", "frozen", "gone"} :
         /\ <<asset[a], state>> \in AssetMoves
         /\ asset' = [asset EXCEPT ![a] = state]
    /\ UNCHANGED <<op, files, media, results, worker, tokens, faults>>

(* A lease runs out: freely once its holder is gone, as a fault under one  *)
(* still at work.                                                          *)
Held(o) == \E w \in Workers : worker[w].op = o /\ worker[w].token = op[o].token
LeaseLapses(o) ==
    /\ op[o].status = "processing" /\ ~op[o].lapsed
    /\ IF Held(o) THEN Fault ELSE faults' = faults
    /\ op' = [op EXCEPT ![o].lapsed = TRUE]
    /\ UNCHANGED <<catalog, worker, tokens>>

(* available_at passes. *)
RetryComesDue(o) ==
    /\ op[o].status = "pending" /\ ~op[o].ready
    /\ op' = [op EXCEPT ![o].ready = TRUE]
    /\ UNCHANGED <<catalog, worker, tokens, faults>>

(* A worker dies with its server, or its statement fails. *)
WorkerDies(w) ==
    /\ worker[w].step # "resting" /\ Fault
    /\ Rests(w)
    /\ UNCHANGED <<op, catalog, tokens>>

Works(w) ==
    \/ \E o \in Operations : Lease(w, o)
    \/ Read(w) \/ FinishFailure(w) \/ LeaseLost(w) \/ FinalizeRefused(w) \/ Finalize(w)

Next ==
    \/ \E o \in Operations :
         \/ \E b \in Blobs, t \in Operations \cup {NoAsset} : Accept(o, b, t)
         \/ \E b \in Pictures : AddMedia(o, b)
         \/ LeaseLapses(o) \/ RetryComesDue(o) \/ AssetChanges(o)
    \/ \E w \in Workers : Works(w) \/ FindsNothing(w) \/ WorkerDies(w)
    \/ \E b \in Blobs : Purge(b)

Spec == Init /\ [][Next]_vars

(* A worker keeps polling and a live one ends what it holds; deadlines     *)
(* pass.                                                                   *)
Fairness ==
    /\ \A w \in Workers : WF_vars(Works(w))
    /\ \A o \in Operations :
         WF_vars(LeaseLapses(o) /\ faults' = faults) /\ WF_vars(RetryComesDue(o))
FairSpec == Spec /\ Fairness

-----------------------------------------------------------------------------
(* Every variable has its type. *)
TypeOK ==
    /\ op \in [Operations ->
         [status: {"absent"} \cup Waiting \cup Ended, blob: Blobs \cup {NoBlob},
          target: Operations \cup {NoAsset}, attempts: Nat, token: Nat,
          ready: BOOLEAN, lapsed: BOOLEAN]]
    /\ asset \in [Operations -> {"none", "live", "frozen", "deleted", "gone"}]
    /\ files \in [Operations -> SUBSET Blobs] /\ media \in [Operations -> SUBSET Blobs]
    /\ results \in [Operations -> Nat]
    /\ worker \in [Workers ->
         [step: {"resting", "reading", "prepared", "refused", "broken"},
          op: Operations \cup {NoAsset}, token: Nat, attempts: Nat]]
    /\ tokens \in Nat /\ faults \in 0..Faults

(* The table's own constraints: a lease exactly while processing, the file *)
(* held exactly while there is work to do on it.                           *)
RowsConsistent ==
    \A o \in Operations :
        /\ op[o].status = "processing" <=> op[o].token # NoToken
        /\ op[o].status \in Waiting <=> op[o].blob # NoBlob
        /\ op[o].lapsed => op[o].status = "processing"

(* However many workers come to hold an operation, its result is written   *)
(* once when it succeeds and never otherwise.                              *)
ResultOnce ==
    \A o \in Operations : results[o] = (IF op[o].status = "success" THEN 1 ELSE 0)

(* The queue's table stays sound under workers that outlive their leases,  *)
(* retries, purges and deaths: each row within its constraints and each    *)
(* result written once.                                                    *)
IngestSound == TypeOK /\ RowsConsistent /\ ResultOnce

(* A worker that lost its lease to another, or to a purge, can change      *)
(* nothing more: of the workers on an operation one at most may write.     *)
OneWriter ==
    \A v, w \in Workers :
        /\ v # w /\ worker[v].op = worker[w].op /\ worker[v].op # NoAsset
        => ~(HoldsLease(v) /\ HoldsLease(w))

(* What an account keeps never passes its cap, uploads racing each other   *)
(* and the images their files turn out to hold, the replaced files and     *)
(* their images, and pictures added by hand included.                      *)
WithinCap == Cap > 0 => Cardinality(AccountBlobs) <= Cap

(* An operation that ended stays as it ended. *)
OutcomeFinal ==
    [][\A o \in Operations : op[o].status \in Ended => op'[o].status = op[o].status]_vars

(* Every accepted upload is answered in the end. *)
EveryUploadSettles ==
    \A o \in Operations : op[o].status \in Waiting ~> op[o].status \in Ended
=============================================================================
