----------------------------- MODULE RefCounted -----------------------------
(* What a reference-counted cache promises.  A value is live while it is in   *)
(* the cache or some client holds it; it is handed over to the eviction       *)
(* callback in the very step in which it stops being live, and never returns. *)
EXTENDS FiniteSets

CONSTANTS Clients, Values

VARIABLES cached,   \* values in the cache
          held,     \* held[v]: the clients that hold v
          evicted   \* values given to OnEvicted

vars == <<cached, held, evicted>>

Init == cached = {} /\ held = [v \in Values |-> {}] /\ evicted = {}

Live(v) == v \in cached \/ held[v] # {}

\* The values that die in this step are evicted in this step.
Settle == evicted' = evicted \cup {v \in Values : Live(v) /\ ~(v \in cached' \/ held'[v] # {})}

\* c adds a new value; the cache may drop others to make room.
Insert(c, v) ==
    /\ ~Live(v) /\ v \notin evicted
    /\ \E D \in SUBSET cached : cached' = (cached \ D) \cup {v}
    /\ held' = [held EXCEPT ![v] = {c}]
    /\ Settle

\* c takes a reference to a value of the cache.
Borrow(c, v) ==
    /\ v \in cached
    /\ held' = [held EXCEPT ![v] = @ \cup {c}]
    /\ UNCHANGED cached
    /\ Settle

\* c gives its reference back, and may ask for the value to be dropped.
Return(c, v) ==
    /\ held' = [held EXCEPT ![v] = @ \ {c}]
    /\ cached' \in {cached, cached \ {v}}
    /\ Settle

\* The cache drops values by itself.
Drop ==
    /\ cached' \in SUBSET cached
    /\ UNCHANGED held
    /\ Settle

Next ==
    \/ \E c \in Clients, v \in Values : Insert(c, v) \/ Borrow(c, v) \/ Return(c, v)
    \/ Drop

Spec == Init /\ [][Next]_vars
=============================================================================
