--------------------- MODULE MC_FakeClusterAPIBindings ---------------------
(* Two logical clusters holding one APIBinding name each, so the same     *)
(* name lives in both; two label values, one spec, two statuses; clients *)
(* select one label value or both.                                        *)
EXTENDS FakeClusterAPIBindings, TLC

CONSTANTS c1, c2, b1, l1, l2, s1, t1, t2

MCSelectors == {{l1}, {l1, l2}}
====
