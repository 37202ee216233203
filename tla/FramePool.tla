----------------------------- MODULE FramePool ------------------------------
(***************************************************************************)
(* What the physical page allocator promises, without its bitmap, counters *)
(* and loops: a pool of page frames that is filled once from the memory    *)
(* map, loses the frames the system keeps for itself, and then lends       *)
(* frames lowest first.  A kept frame never comes back; a lent frame       *)
(* comes back only when it is given back; every other frame a client has   *)
(* withdrawn may be put into the pool by whoever withdrew it.              *)
(***************************************************************************)
EXTENDS Integers

VARIABLES stage, frames, pool, kept, lent

poolVars == <<stage, frames, pool, kept, lent>>

Closed ==
    /\ stage = "measure"
    /\ frames = {} /\ pool = {} /\ kept = {} /\ lent = {}

\* The pool is created with every frame the bitmap has a bit for.
Fill ==
    /\ stage = "measure" /\ stage' = "reserve"
    /\ frames' # {} /\ pool' = frames'
    /\ UNCHANGED <<kept, lent>>

\* A frame of the bitmap or of the firmware leaves the pool for good.
Keep(p) ==
    /\ stage = "reserve" /\ p \in pool
    /\ pool' = pool \ {p}
    /\ kept' = kept \cup {p}
    /\ UNCHANGED <<stage, frames, lent>>

Open ==
    /\ stage = "reserve" /\ stage' = "ready"
    /\ UNCHANGED <<frames, pool, kept, lent>>

\* A client takes a frame it names.
Withdraw(p) ==
    /\ stage = "ready" /\ p \in pool
    /\ pool' = pool \ {p}
    /\ UNCHANGED <<stage, frames, kept, lent>>

\* A client is given the lowest frame of the pool.
Lend(p) ==
    /\ stage = "ready" /\ p \in pool
    /\ \A q \in pool : p <= q
    /\ pool' = pool \ {p}
    /\ lent' = lent \cup {p}
    /\ UNCHANGED <<stage, frames, kept>>

GiveBack(p) ==
    /\ stage = "ready" /\ p \in frames \ (pool \cup kept)
    /\ pool' = pool \cup {p}
    /\ lent' = lent \ {p}
    /\ UNCHANGED <<stage, frames, kept>>

Step ==
    \/ Fill
    \/ Open
    \/ \E p \in pool : Keep(p) \/ Withdraw(p) \/ Lend(p)
    \/ \E p \in frames : GiveBack(p)

PoolSpec == Closed /\ [][Step]_poolVars
=============================================================================
