---------------------------- MODULE Subsequences ----------------------------
(***************************************************************************)
(* What parse_string_list of game_patch/my_string.h can make of a list:    *)
(* every string is copied on its own, one whose copy cannot be allocated   *)
(* is left out and the strings after it move up.                           *)
(***************************************************************************)
EXTENDS Naturals, Sequences

\* The ways to pick n strings of vs in their order.
Places(n, vs) ==
    {p \in [1 .. n -> DOMAIN vs] : \A j, k \in 1 .. n : j < k => p[j] < p[k]}

Subsequences(vs) ==
    UNION {{[k \in 1 .. n |-> vs[p[k]]] : p \in Places(n, vs)} : n \in 0 .. Len(vs)}
=============================================================================
