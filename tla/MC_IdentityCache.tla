------------------------- MODULE MC_IdentityCache -------------------------
(* Two exports, two identity keys and their two hashes, so that an export *)
(* can be deleted and recreated, or its secret's key replaced, within the  *)
(* change bound.                                                           *)
EXTENDS IdentityCache, TLC

CONSTANTS x1, x2, h1, h2, k1, k2

(* sha256 of the two keys. *)
MCHashOf(k) == IF k = k1 THEN h1 ELSE h2
====
