----------------------------- MODULE MC_DsetList -----------------------------
(* Two sets and two members, in strcmp order 1 < 2. *)
EXTENDS DsetList

CONSTANTS s1, s2

MCSets == {s1, s2}
MCMembers == {1, 2}
=============================================================================
