------------------------------ MODULE MCOpening ------------------------------
(***************************************************************************)
(* An instance of SessionOpening for TLC.                                  *)
(***************************************************************************)
EXTENDS SessionOpening

CONSTANTS a, b, c

Option(value, choices) == [value |-> value, choices |-> choices]

(* Two agents with options for all keys and modes of which the host takes  *)
(* two in another order than its candidates, one with the model alone, and *)
(* one without any.                                                        *)
SomeAgents ==
  {[options |-> [mode |-> Option(a, {a, b, c}), model |-> Option(m, {a, b}),
                 effort |-> Option(a, {a, b})], mode |-> a] : m \in {a, b}}
    \cup {[options |-> [model |-> Option(a, {a, b})], mode |-> a],
          [options |-> [none |-> Option(a, {a})], mode |-> a]}

(* A mode with an alias, a model and an effort.                            *)
SomeWanted ==
  [mode |-> <<b, c>>, model |-> <<b>>, effort |-> <<b>>]

SomeModes == <<a, c, b>>

SomeMethods ==
  {<<>>, <<[type |-> "agent", default |-> FALSE]>>,
   <<[type |-> "terminal", default |-> FALSE],
     [type |-> "agent", default |-> TRUE]>>,
   <<[type |-> "terminal", default |-> FALSE]>>}
=============================================================================
