------------------------------ MODULE WaitHub ------------------------------
(***************************************************************************)
(* The held collect requests of api/internal/delivery: the hub that keeps  *)
(* one waiting request per instance, and the loop of Collect that claims,  *)
(* waits, and claims again.                                                *)
(*                                                                         *)
(* The hub's methods run under its mutex, so each is one step.  A claim is *)
(* a transaction that stays open while the catalog is read: the rows it    *)
(* took are locked, claims of other requests pass over them, and it        *)
(* commits or gives them back.  Between the steps anything runs: other     *)
(* collect requests, Queue handlers that have inserted a delivery and not  *)
(* yet signalled it, leases that run out.  The queue is only how many      *)
(* deliveries are queued, leased and lapsed; Delivery.tla says which and   *)
(* why.                                                                    *)
(***************************************************************************)
EXTENDS Integers, FiniteSets, QueueSettings
Sets == INSTANCE FiniteSetsExt

CONSTANTS
    Handlers,        \* concurrent Collect handlers; a waiter is named by its handler
    Senders,         \* concurrent Queue handlers
    ConcurrentHolds, \* Settings.ConcurrentHolds
    MaxWork          \* bound: deliveries there are at once

Nobody == "nobody"

ASSUME HubAssumption ==
    /\ ConcurrentHolds \in Nat \ {0} /\ Batch \in Nat \ {0} /\ MaxWork \in Nat \ {0}
    /\ Nobody \notin Handlers /\ Nobody \notin Instances
    /\ IsFiniteSet(Instances)

VARIABLES
    waiting,    \* hub.waiting: the registered waiter of each instance, or Nobody
    handler,    \* each Collect handler: where it is and for which instance
    woken,      \* handlers with a token in waiter.work (a channel of one)
    superseded, \* handlers whose waiter.superseded is closed
    drained,    \* handlers whose last claim left nothing and passed over nothing
    sender,     \* each Queue handler: Nobody, or the instance it has yet to signal
    queued,     \* per instance, deliveries never taken that no open claim locks
    leased,     \* per instance, deliveries taken under a running lease
    lapsed      \* per instance, those whose lease ran out and no open claim locks

hubVars  == <<waiting, woken, superseded>>
workVars == <<queued, leased, lapsed>>
hubState == <<waiting, handler, woken, superseded, drained, sender, queued, leased, lapsed>>

Idle == [at |-> "idle", instance |-> Nobody]

(* The handler goes on with the same instance.                             *)
At(h, place) == [at |-> place, instance |-> handler[h].instance]

(* A handler whose claim is open: the rows its transaction locks, taken    *)
(* from the queue, taken again after a lapsed lease, or given up on.       *)
Taking(i, fresh, again, spent) ==
    [at |-> "taking", instance |-> i, fresh |-> fresh, again |-> again, spent |-> spent]

OpenClaim(h, i) == handler[h].at = "taking" /\ handler[h].instance = i

Locked(h) ==
    IF handler[h].at = "taking"
    THEN handler[h].fresh + handler[h].again + handler[h].spent ELSE 0

Work(i) == queued[i] + leased[i] + lapsed[i]

Total == Sets!MapThenSumSet(Work, Instances) + Sets!MapThenSumSet(Locked, Handlers)

-----------------------------------------------------------------------------
(* Collect: acknowledge, then register with the hub, or be turned away.    *)

AcknowledgeAndHold(h, i, acks) ==
    /\ handler[h] = Idle
    /\ acks <= leased[i] + lapsed[i]
    /\ \E fromLease \in 0..acks :
         /\ fromLease <= leased[i] /\ acks - fromLease <= lapsed[i]
         /\ leased' = [leased EXCEPT ![i] = @ - fromLease]
         /\ lapsed' = [lapsed EXCEPT ![i] = @ - (acks - fromLease)]
    /\ handler' = [handler EXCEPT ![h] = [at |-> "holding", instance |-> i]]
    /\ UNCHANGED <<hubVars, drained, sender, queued>>

Full(i) ==
    /\ waiting[i] = Nobody
    /\ Cardinality({j \in Instances : waiting[j] # Nobody}) >= ConcurrentHolds

(* hub.hold: the instance's earlier wait is told it was superseded.        *)
Hold(h) ==
    /\ handler[h].at = "holding"
    /\ LET i == handler[h].instance
       IN  IF Full(i)
           THEN /\ handler' = [handler EXCEPT ![h] = Idle]
                /\ UNCHANGED <<hubVars, drained>>
           ELSE /\ superseded' = (superseded \cup ({waiting[i]} \ {Nobody})) \ {h}
                /\ woken' = woken \ {h}
                /\ waiting' = [waiting EXCEPT ![i] = h]
                /\ handler' = [handler EXCEPT ![h] = At(h, "claiming")]
                /\ drained' = drained \ {h}
    /\ UNCHANGED <<sender, workVars>>

(* Mutant: release forgets the waiter's place.                             *)
ReleasedLeftBehind(h) == waiting

(* hub.release, deferred to the end of the handler.                        *)
AfterRelease(h) ==
    IF waiting[handler[h].instance] = h
    THEN [waiting EXCEPT ![handler[h].instance] = Nobody] ELSE waiting

Returns(h) ==
    /\ waiting' = AfterRelease(h)
    /\ handler' = [handler EXCEPT ![h] = Idle]

(* The statements of a claim: it gives up on spent deliveries, then takes  *)
(* at most a batch of what no other open claim locks, fresh or lapsed.     *)
(* Giving up waits for another claim that has given up on rows; taking     *)
(* skips locked rows.                                                      *)
ClaimTakes(h) ==
    /\ handler[h].at = "claiming"
    /\ LET i == handler[h].instance
       IN  /\ \A g \in Handlers : OpenClaim(g, i) => handler[g].spent = 0
           /\ \E spent \in 0..lapsed[i], fresh \in 0..queued[i] :
              \E again \in 0..(lapsed[i] - spent) :
                /\ fresh + again <= Batch
                /\ fresh + again < Batch => fresh = queued[i] /\ again = lapsed[i] - spent
                /\ queued' = [queued EXCEPT ![i] = @ - fresh]
                /\ lapsed' = [lapsed EXCEPT ![i] = @ - spent - again]
                /\ handler' = [handler EXCEPT ![h] = Taking(i, fresh, again, spent)]
                /\ drained' = IF /\ fresh + again < Batch
                                 /\ \A g \in Handlers : OpenClaim(g, i) => handler[g].fresh = 0
                              THEN drained \cup {h} ELSE drained \ {h}
    /\ UNCHANGED <<hubVars, sender, leased>>

(* The claim commits: what it took it hands over under a lease, or stops   *)
(* because the asset was withdrawn; with nothing to hand over it waits.    *)
ClaimCommits(h) ==
    /\ handler[h].at = "taking"
    /\ \E work \in 0..(handler[h].fresh + handler[h].again) :
         /\ leased' = [leased EXCEPT ![handler[h].instance] = @ + work]
         /\ IF work > 0 THEN Returns(h)
            ELSE /\ handler' = [handler EXCEPT ![h] = At(h, "selecting")]
                 /\ UNCHANGED waiting
    /\ UNCHANGED <<woken, superseded, drained, sender, queued, lapsed>>

(* A cancelled request or a failed statement ends a claim with an error,   *)
(* before it took anything or while it holds rows.  The rollback gives the *)
(* rows back and signals nobody.                                           *)
ClaimFails(h) ==
    /\ \/ /\ handler[h].at = "claiming"
          /\ UNCHANGED <<queued, lapsed>>
       \/ /\ handler[h].at = "taking"
          /\ queued' = [queued EXCEPT ![handler[h].instance] = @ + handler[h].fresh]
          /\ lapsed' = [lapsed EXCEPT ![handler[h].instance] =
                            @ + handler[h].again + handler[h].spent]
    /\ Returns(h)
    /\ UNCHANGED <<woken, superseded, drained, sender, leased>>

(* The select of Collect: a signal or the recheck ticker claims again ...  *)
WakesForWork(h) ==
    /\ handler[h].at = "selecting"
    /\ h \in woken
    /\ woken' = woken \ {h}
    /\ handler' = [handler EXCEPT ![h] = At(h, "claiming")]
    /\ UNCHANGED <<waiting, superseded, drained, sender, workVars>>

(* Mutant: the ticker claims only when a signal has come.                  *)
RechecksSignalled(h) ==
    /\ handler[h].at = "selecting"
    /\ h \in woken
    /\ handler' = [handler EXCEPT ![h] = At(h, "claiming")]
    /\ UNCHANGED <<hubVars, drained, sender, workVars>>

Rechecks(h) ==
    /\ handler[h].at = "selecting"
    /\ handler' = [handler EXCEPT ![h] = At(h, "claiming")]
    /\ UNCHANGED <<hubVars, drained, sender, workVars>>

(* ... and a newer wait, the hold's end or the client's going away return. *)
Supersedes(h) ==
    /\ handler[h].at = "selecting"
    /\ h \in superseded
    /\ Returns(h)
    /\ UNCHANGED <<woken, superseded, drained, sender, workVars>>

WaitsOut(h) ==
    /\ handler[h].at = "selecting"
    /\ Returns(h)
    /\ UNCHANGED <<woken, superseded, drained, sender, workVars>>

-----------------------------------------------------------------------------
(* Queue inserts the delivery, commits, and only then signals the hub.     *)

(* Mutant: the delivery is stored and nobody is signalled.                 *)
SenderInsertsSilently(q, i) ==
    /\ sender[q] = Nobody
    /\ Total < MaxWork
    /\ queued' = [queued EXCEPT ![i] = @ + 1]
    /\ UNCHANGED <<sender, hubVars, handler, drained, leased, lapsed>>

SenderInserts(q, i) ==
    /\ sender[q] = Nobody
    /\ Total < MaxWork
    /\ queued' = [queued EXCEPT ![i] = @ + 1]
    /\ sender' = [sender EXCEPT ![q] = i]
    /\ UNCHANGED <<hubVars, handler, drained, leased, lapsed>>

(* hub.signal: a full channel already carries the news.                    *)
Signal(q) ==
    /\ sender[q] # Nobody
    /\ woken' = woken \cup ({waiting[sender[q]]} \ {Nobody})
    /\ sender' = [sender EXCEPT ![q] = Nobody]
    /\ UNCHANGED <<waiting, superseded, handler, drained, workVars>>

(* Nobody is signalled when a lease runs out.                              *)
WorkLapses(i) ==
    /\ leased[i] > 0
    /\ leased' = [leased EXCEPT ![i] = @ - 1]
    /\ lapsed' = [lapsed EXCEPT ![i] = @ + 1]
    /\ UNCHANGED <<hubVars, handler, drained, sender, queued>>

(* The hub is memory: a restart forgets every wait and every signal.  The  *)
(* claims that were open have been rolled back by then.                    *)
HubRestarts ==
    /\ \A h \in Handlers : handler[h].at # "taking"
    /\ waiting' = [i \in Instances |-> Nobody]
    /\ handler' = [h \in Handlers |-> Idle]
    /\ sender' = [q \in Senders |-> Nobody]
    /\ woken' = {} /\ superseded' = {} /\ drained' = {}
    /\ UNCHANGED workVars

-----------------------------------------------------------------------------
HubInit ==
    /\ waiting = [i \in Instances |-> Nobody]
    /\ handler = [h \in Handlers |-> Idle]
    /\ woken = {} /\ superseded = {} /\ drained = {}
    /\ sender = [q \in Senders |-> Nobody]
    /\ queued = [i \in Instances |-> 0]
    /\ leased = [i \in Instances |-> 0]
    /\ lapsed = [i \in Instances |-> 0]

HubNext ==
    \/ \E h \in Handlers :
         \/ \E i \in Instances, acks \in 0..MaxWork : AcknowledgeAndHold(h, i, acks)
         \/ Hold(h)
         \/ ClaimTakes(h)
         \/ ClaimCommits(h)
         \/ WakesForWork(h)
         \/ Rechecks(h)
         \/ Supersedes(h)
         \/ WaitsOut(h)
         \/ ClaimFails(h)
    \/ \E q \in Senders :
         \/ \E i \in Instances : SenderInserts(q, i)
         \/ Signal(q)
    \/ \E i \in Instances : WorkLapses(i)
    \/ HubRestarts

(* Handlers run, an open claim commits or fails, the ticker ticks, and a   *)
(* select that finds its superseded channel ready again and again does not *)
(* pass it over for ever: Go picks among ready cases at random.  A         *)
(* statement that waits for a locked row is served when the lock is freed. *)
HubFairness ==
    /\ \A h \in Handlers :
         /\ WF_hubState(Hold(h))
         /\ SF_hubState(ClaimTakes(h)) /\ WF_hubState(ClaimCommits(h))
         /\ WF_hubState(Rechecks(h)) /\ SF_hubState(Supersedes(h))
    /\ \A q \in Senders : WF_hubState(Signal(q))

HubSpec == HubInit /\ [][HubNext]_hubState /\ HubFairness

-----------------------------------------------------------------------------
(* Properties.                                                             *)

HubTypeOK ==
    /\ waiting \in [Instances -> Handlers \cup {Nobody}]
    /\ handler \in [Handlers ->
         {Idle} \cup [at: {"holding", "claiming", "selecting"}, instance: Instances]
                \cup [at: {"taking"}, instance: Instances,
                      fresh: Nat, again: Nat, spent: Nat]]
    /\ woken \subseteq Handlers /\ superseded \subseteq Handlers
    /\ drained \subseteq Handlers
    /\ sender \in [Senders -> Instances \cup {Nobody}]
    /\ queued \in [Instances -> Nat] /\ leased \in [Instances -> Nat]
    /\ lapsed \in [Instances -> Nat]

Admitted(h) == handler[h].at \in {"claiming", "taking", "selecting"}

(* hub.hold closes a waiter's channel at most once: the waiter it finds    *)
(* registered belongs to a handler still running for that instance, and    *)
(* has not been superseded before.  A second close would panic.            *)
RegisteredIsOpen ==
    \A i \in Instances : waiting[i] # Nobody =>
        /\ waiting[i] \notin superseded
        /\ Admitted(waiting[i]) /\ handler[waiting[i]].instance = i

(* Every admitted request is either the one the hub will signal or has     *)
(* been told to leave; a release never drops the request that replaced it. *)
RegisteredOrSuperseded ==
    \A h \in Handlers : Admitted(h) =>
        waiting[handler[h].instance] = h \/ h \in superseded

(* The hub never holds more instances than its limit.                      *)
HoldsWithinLimit ==
    Cardinality({i \in Instances : waiting[i] # Nobody}) <= ConcurrentHolds

(* The hub's map and channels stay sound while hold, release and signal    *)
(* interleave: no channel is closed twice, no admitted request is          *)
(* forgotten, and the places of the hub are never oversold.                *)
HubSound == HubTypeOK /\ RegisteredIsOpen /\ RegisteredOrSuperseded /\ HoldsWithinLimit

(* Deliveries nobody has had yet: in the queue, or taken from it by        *)
(* another claim that may still give them back.                            *)
FreshFor(h) ==
    \/ queued[handler[h].instance] > 0
    \/ \E g \in Handlers \ {h} : OpenClaim(g, handler[h].instance) /\ handler[g].fresh > 0

(* No lost wakeup: a request whose last claim left nothing and passed over *)
(* nothing sleeps, or goes to sleep, over fresh deliveries only while the  *)
(* Queue handler that inserted them is about to signal; one that another   *)
(* claim takes and gives back later is no exception.  (A claim that stops  *)
(* a whole batch may leave work behind, one that finds rows locked by a    *)
(* superseded claim passes over them, though that claim may roll back, and *)
(* a lapsed lease signals nobody: these are left to the recheck ticker.)   *)
NoLostWakeup ==
    \A h \in Handlers :
        /\ handler[h].at \in {"taking", "selecting"} /\ waiting[handler[h].instance] = h
        /\ h \in drained /\ h \notin woken
        /\ FreshFor(h)
        => \E q \in Senders : sender[q] = handler[h].instance

(* Work that waits for an instance, open claims included.                  *)
Waiting(i) ==
    queued[i] + lapsed[i]
    + Sets!MapThenSumSet(Locked, {h \in Handlers : OpenClaim(h, i)})

(* While an instance keeps a wait open, work that waits for it is taken    *)
(* again and again, lapsed leases and leftovers of a batch included, until *)
(* none is left; unless claims keep failing.                               *)
WorkIsCollected ==
    \A i \in Instances :
        \/ []<>(Waiting(i) = 0 \/ waiting[i] = Nobody)
        \/ []<><<Waiting(i)' < Waiting(i)>>_hubState
        \/ []<><<\E h \in Handlers : ClaimFails(h)>>_hubState

(* A superseded wait answers: its handler does not hold its place for ever.*)
SupersededLeaves ==
    \A h \in Handlers :
        (Admitted(h) /\ h \in superseded) ~> (handler[h] = Idle)

(* Every wait Collect opens is answered in the end, with the work there is *)
(* for it or because a newer wait took its place.                          *)
WaitsAreAnswered == WorkIsCollected /\ SupersededLeaves
=============================================================================
