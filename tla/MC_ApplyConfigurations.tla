----------------------- MODULE MC_ApplyConfigurations -----------------------
(* Verb argument lists of one and two verbs; four verbs per slice make a  *)
(* slice of length 3 and capacity 4, the first with room left.           *)
EXTENDS ApplyConfigurations, TLC

CONSTANTS get, list, watch

MCVerbArgs == {<<get>>, <<list, watch>>}
====
