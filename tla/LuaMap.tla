-------------------------------- MODULE LuaMap ------------------------------
(***************************************************************************)
(* What a Lua table promises: it maps keys to values, and a traversal      *)
(* comes once to each key that has a value, whatever is assigned to        *)
(* existing fields meanwhile.                                              *)
(***************************************************************************)
CONSTANTS Key, Val, Nil

VARIABLES map, going, seen    \* seen: the keys the traversal has come to

Init == map = [k \in Key |-> Nil] /\ going = FALSE /\ seen = {}

Existing == {k \in Key : map[k] # Nil}

Assign(k, v) == /\ going => k \in Existing
                /\ map' = [map EXCEPT ![k] = v]
                /\ UNCHANGED <<going, seen>>

Begin == ~going /\ going' = TRUE /\ seen' = {} /\ UNCHANGED map

Visit(k) == going /\ k \in Existing \ seen /\ seen' = seen \cup {k} /\ UNCHANGED <<map, going>>

End == going /\ Existing \subseteq seen /\ going' = FALSE /\ seen' = {} /\ UNCHANGED map

Next == (\E k \in Key, v \in Val \cup {Nil} : Assign(k, v)) \/ Begin \/ (\E k \in Key : Visit(k)) \/ End

Spec == Init /\ [][Next]_<<map, going, seen>>
=============================================================================
