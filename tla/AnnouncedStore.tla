--------------------------- MODULE AnnouncedStore ---------------------------
(***************************************************************************)
(* What the consumers of the topic may rely on, requests, database and     *)
(* publishers taken together: a ProductStore whose announcements are       *)
(* delivered, in any order and any number of times.  The topic tells of    *)
(* nothing that was not committed, and an announcement that is settled,    *)
(* which nobody offers to the topic again, is there and stays settled.     *)
(***************************************************************************)
EXTENDS ProductStore

VARIABLES
  topic,   \* the announcements in the topic
  settled  \* those the outbox is done with

announcedVars == <<storeVars, topic, settled>>

AnnouncedInit == Init /\ topic = {} /\ settled = {}

Deliver(e) ==
  /\ e \in journal
  /\ topic' = topic \cup {e}
  /\ UNCHANGED <<storeVars, settled>>

Settle(e) ==
  /\ e \in topic
  /\ settled' = settled \cup {e}
  /\ UNCHANGED <<storeVars, topic>>

AnnouncedNext ==
  \/ Next /\ UNCHANGED <<topic, settled>>
  \/ \E e \in journal : Deliver(e) \/ Settle(e)

AnnouncedSpec == AnnouncedInit /\ [][AnnouncedNext]_announcedVars
=============================================================================
