------------------------- MODULE DeliveryRefinement -------------------------
(* The delivery queue implements what SendPromise says of it.              *)
EXTENDS Delivery

StatusOf(row) ==
    CASE row.state = "queued"   -> "waiting"
      [] row.state = "released" -> "taken"
      [] OTHER                  -> "stopped"

ParcelOf(d) ==
    IF rows[d] # NoRow
    THEN [status |-> StatusOf(rows[d]), instance |-> rows[d].instance,
          asset |-> rows[d].asset, takes |-> rows[d].attempts]
    ELSE IF d <= arrived THEN [status |-> "gone"] ELSE [status |-> "unsent"]

Sendable == {a \in Assets : catalog[a].sendable}

Abstract == INSTANCE SendPromise WITH
    Deliveries <- Ids, MaxTakes <- MaxAttempts,
    linked <- live, visible <- Sendable, parcel <- [d \in Ids |-> ParcelOf(d)]

(* Every behaviour of the queue, races between Queue, Collect, Revoke and  *)
(* the sweeper included, is a behaviour of the promise.                    *)
KeepsPromise == Abstract!Promise
=============================================================================
