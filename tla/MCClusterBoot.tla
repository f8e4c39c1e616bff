---------------------------- MODULE MCClusterBoot ----------------------------
(* TLC instances of ClusterBoot.  .env and .env.base differ at first: the  *)
(* properties never ask two revisions to be different.                     *)
EXTENDS ClusterBoot

CONSTANTS imgA, imgF, v1, v2
MCImage == {imgA}
MCRevision == {v1, v2}

MCInit ==
  /\ Init
  /\ env["head"][".env"].rev = v1 /\ env["head"][".env.base"].rev = v2

MCSpec == MCInit /\ [][Next]_vars /\ WF_vars(Script)
=============================================================================
