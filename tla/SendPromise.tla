---------------------------- MODULE SendPromise ----------------------------
(***************************************************************************)
(* What the delivery queue promises a creator and an instance, without     *)
(* leases, batches, handlers or requests: a delivery is sent once, taken   *)
(* some bounded number of times by an instance that is linked while the    *)
(* asset may be seen, then stopped or removed, and never comes back.       *)
(***************************************************************************)
EXTENDS Integers

CONSTANTS Deliveries, Instances, Assets, MaxTakes

VARIABLES linked, visible, parcel

promiseVars == <<linked, visible, parcel>>

Unsent == [status |-> "unsent"]
Gone   == [status |-> "gone"]

Parcel == [status: {"waiting", "taken", "stopped"},
           instance: Instances, asset: Assets, takes: 0..MaxTakes]

Open(p) == p.status \in {"waiting", "taken"}

OpenFor(i, a) ==
    \E d \in Deliveries : /\ Open(parcel[d])
                          /\ parcel[d].instance = i /\ parcel[d].asset = a

Send(d, i, a) ==
    /\ parcel[d] = Unsent
    /\ ~OpenFor(i, a)
    /\ parcel' = [parcel EXCEPT ![d] =
         [status |-> "waiting", instance |-> i, asset |-> a, takes |-> 0]]
    /\ UNCHANGED <<linked, visible>>

(* Some deliveries of one instance are handed to it, others are stopped.   *)
MayTake(d, i) ==
    /\ Open(parcel[d]) /\ parcel[d].instance = i
    /\ parcel[d].takes < MaxTakes
    /\ i \in linked /\ parcel[d].asset \in visible

Taken(p) == [p EXCEPT !.status = "taken", !.takes = @ + 1]

Stopped(p) == {[p EXCEPT !.status = "stopped", !.takes = n] :
                 n \in {p.takes, p.takes + 1} \cap (0..MaxTakes)}

Take(i) ==
    /\ parcel' \in [Deliveries -> Parcel \cup {Unsent, Gone}]
    /\ \A d \in Deliveries :
         \/ parcel'[d] = parcel[d]
         \/ MayTake(d, i) /\ parcel'[d] = Taken(parcel[d])
         \/ /\ Open(parcel[d]) /\ parcel[d].instance = i
            /\ parcel'[d] \in Stopped(parcel[d])
    /\ UNCHANGED <<linked, visible>>

(* Acknowledged, discarded or past its retention window.                   *)
Remove(S) ==
    /\ \A d \in S : parcel[d] # Unsent
    /\ parcel' = [d \in Deliveries |-> IF d \in S THEN Gone ELSE parcel[d]]
    /\ UNCHANGED <<linked, visible>>

Unlink(i, S) ==
    /\ i \in linked
    /\ linked' = linked \ {i}
    /\ \A d \in S : parcel[d] = Gone \/ (parcel[d] # Unsent /\ parcel[d].instance = i)
    /\ parcel' = [d \in Deliveries |-> IF d \in S THEN Gone ELSE parcel[d]]
    /\ UNCHANGED visible

CatalogMoves ==
    /\ visible' \in SUBSET Assets
    /\ UNCHANGED <<linked, parcel>>

PromiseInit ==
    /\ linked = Instances
    /\ visible \in SUBSET Assets
    /\ parcel = [d \in Deliveries |-> Unsent]

PromiseNext ==
    \/ \E d \in Deliveries, i \in Instances, a \in Assets : Send(d, i, a)
    \/ \E i \in Instances : Take(i)
    \/ \E S \in SUBSET Deliveries : Remove(S)
    \/ \E i \in Instances, S \in SUBSET Deliveries : Unlink(i, S)
    \/ CatalogMoves

Promise == PromiseInit /\ [][PromiseNext]_promiseVars
=============================================================================
