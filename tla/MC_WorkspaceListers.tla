------------------------ MODULE MC_WorkspaceListers ------------------------
(* Cluster names "a" and "ab", workspace names "b" and "bb": "a" + "bb"   *)
(* and "ab" + "b" spell the same string once the separator is left out.  *)
EXTENDS WorkspaceListers, TLC

CONSTANTS l1, l2, l3

MCClusters == {<<"a">>, <<"a", "b">>}
MCWsNames == {<<"b">>, <<"b", "b">>}
MCSelectors == {{l1}, {l2, l3}, {l1, l2, l3}}
====
