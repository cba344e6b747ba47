------------------------------ MODULE EnabledMap ------------------------------
(***************************************************************************)
(* What the settings file of a title is for: every patch hash is absent,   *)
(* on or off, and toggling one switches it on unless it is on. Where the   *)
(* storage may fail, some hashes may also fall back to absent, but nothing *)
(* else happens: in particular nothing is ever switched on but by a toggle *)
(* of that very hash.                                                      *)
(***************************************************************************)
CONSTANTS Hash,   \* the patch hashes of a title
          Lossy   \* whether settings may be lost

VARIABLE map

Init == map = [h \in Hash |-> "absent"]

Flip(status) == IF status = "on" THEN "off" ELSE "on"

\* The sets of hashes that one step may lose.
Losses == IF Lossy THEN SUBSET Hash ELSE {{}}

Without(D) == [h \in Hash |-> IF h \in D THEN "absent" ELSE map[h]]

Toggle(h) ==
    \E D \in Losses : map' = [Without(D) EXCEPT ![h] = Flip(Without(D)[h])]

Lose == \E D \in Losses : map' = Without(D)

Next == (\E h \in Hash : Toggle(h)) \/ Lose

Spec == Init /\ [][Next]_map
=============================================================================
