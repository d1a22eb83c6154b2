------------------------ MODULE MCOutboxPublisher ------------------------
(* Small instances of OutboxPublisher: three events, of which one is       *)
(* undeliverable, and batches of at most two, so that a fetch is cut off.  *)
EXTENDS OutboxPublisher

CONSTANTS e1, e2, e3, p1

MCEvents      == {e1, e2, e3}
OnePublisher  == {p1}
OnePoison     == {e1}
TwoTimes      == {1, 2}
=============================================================================
