----------------------------- MODULE MCListener -----------------------------
(***************************************************************************)
(* Listener for TLC: the application has a bounded listener, or an         *)
(* unbounded one, or a handler with a timeout and one with a fallback.     *)
(***************************************************************************)
EXTENDS Listener

CONSTANTS Bounded, Unbounded, Slow, Shaky

MCPattern == [s \in Subs |->
    CASE s = Bounded -> Publishers
      [] s = Unbounded -> Publishers
      [] s = Slow -> Publishers
      [] s = Shaky -> Callers]

MCApplications == {{Bounded}, {Unbounded}, {Slow, Shaky}}

MCCount == [l \in Listeners |-> IF l = Bounded THEN 2 ELSE 0]
=============================================================================
