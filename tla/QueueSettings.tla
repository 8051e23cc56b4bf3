--------------------------- MODULE QueueSettings ---------------------------
(* What the delivery queue and the hub of held requests both work with.    *)

CONSTANTS
    Instances, \* linked instances (linked_instances.id)
    Batch      \* Settings.Batch
=============================================================================
