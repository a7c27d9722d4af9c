-------------------------- MODULE MC_FakeClientset --------------------------
(* One object name, two label values, one spec, two statuses, for each   *)
(* of the three typed clients; clients select one label value or both.    *)
EXTENDS FakeClientset, TLC

CONSTANTS a1, a2, l1, l2, s1, t1, t2

MCSelectors == {{l1}, {l1, l2}}
====
