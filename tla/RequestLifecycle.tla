-------------------------- MODULE RequestLifecycle --------------------------
(***************************************************************************)
(* What the ConDrv server promises about requests, whatever the threads    *)
(* and the queues that serve them: each request that reaches the driver is *)
(* taken once, is then held by the server, and is answered once.  Requests *)
(* may be dropped only after the link to the driver is gone.               *)
(***************************************************************************)
CONSTANT Requests

VARIABLES phase, linked

vars == <<phase, linked>>

Phases == {"idle", "queued", "held", "answered", "dropped"}

Init ==
    /\ phase \in [Requests -> {"idle", "held"}]
    /\ linked = TRUE

Move(r, before, after) ==
    /\ phase[r] = before
    /\ phase' = [phase EXCEPT ![r] = after]
    /\ UNCHANGED linked

Submit(r) == linked /\ Move(r, "idle", "queued")
Take(r)   == linked /\ Move(r, "queued", "held")
Answer(r) == linked /\ Move(r, "held", "answered")
Drop(r)   == ~linked /\ Move(r, "held", "dropped")

Unlink ==
    /\ linked
    /\ linked' = FALSE
    /\ UNCHANGED phase

Next == Unlink \/ \E r \in Requests : Submit(r) \/ Take(r) \/ Answer(r) \/ Drop(r)

Spec == Init /\ [][Next]_vars
=============================================================================
