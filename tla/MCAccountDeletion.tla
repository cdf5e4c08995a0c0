---------------------------- MODULE MCAccountDeletion ----------------------------
(* AccountDeletion on small instances. *)
EXTENDS AccountDeletion, TLC

CONSTANTS t1, t2, ca, cb, cn, ka, kb, chunks, kgrag, neo4j

Tasks == {t1, t2}
Companies == {ca, cb, cn}
Later == {cn}
WithCoOwner == {cb}
Names == {ka, kb}
Collections == {chunks}
Databases == {kgrag}
=============================================================================
