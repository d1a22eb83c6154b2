------------------------ MODULE MCCachedRepository ------------------------
(* Small instances of CachedRepository: one seeded product, one to create, *)
(* and two pages of one row, so that a creation changes the second page.   *)
EXTENDS CachedRepository

CONSTANTS reader1, writer1, writer2

MCProducts == {1, 2}
MCSeeded   == {1}
TwoPages   == {[limit |-> 1, offset |-> 0], [limit |-> 1, offset |-> 1]}
OneReader  == {reader1}
TwoWriters == {writer1, writer2}
=============================================================================
