----------------------------------- MODULE Map ----------------------------------
(***************************************************************************)
(* What table.h promises: a map from keys to values.  set says whether the *)
(* key is new; get answers with the value last set, or NoValue.            *)
(***************************************************************************)
CONSTANTS Keys, Values, NoValue

VARIABLES
  map,      (* the value of each key, NoValue when it has none              *)
  answer    (* what the last call returned                                  *)

mapVars == << map, answer >>

Init ==
  /\ map = [key \in Keys |-> NoValue]
  /\ answer = NoValue

Set(key, value) ==
  /\ map' = [map EXCEPT ![key] = value]
  /\ answer' = (map[key] = NoValue)

Get(key) ==
  /\ answer' = map[key]
  /\ UNCHANGED map

Next ==
  \E key \in Keys : Get(key) \/ \E value \in Values : Set(key, value)

Spec == Init /\ [][Next]_mapVars
=============================================================================
