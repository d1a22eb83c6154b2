---------------------------- MODULE AdminService ----------------------------
(***************************************************************************)
(* Requests from the wire to the tables: the layers of RequestHandling     *)
(* over the transactions of PostgresRepository.  Where RequestHandling     *)
(* takes a write for one step of the store, here it is a transaction that  *)
(* the other handlers' transactions and reads interleave with.             *)
(*                                                                         *)
(* The cached repository in between hands commands and answers on          *)
(* unchanged; what it does to the cache is CachedRepository.               *)
(***************************************************************************)
EXTENDS RequestHandling

CONSTANT Skew

ASSUME ClocksAssumption == Skew \in [Requests -> Nat]

VARIABLES events, pc, cmd, begun, image, occurred, now  \* PostgresRepository

Repo == INSTANCE PostgresRepository

layerVars == <<at, input, outcome, label, answer>>
databaseVars == <<events, pc, cmd, begun, image, occurred, now>>
serviceVars == <<vars, databaseVars>>

Announced == {Repo!Announcement(e) : e \in events}

ServiceInit == Init /\ Repo!Init

\* The service calls Create, Update or UpdateStock.
Begin(r, c) ==
  /\ at[r] = "repository"
  /\ Carries(input[r], c)
  /\ Repo!BeginTx(r, c)
  /\ UNCHANGED <<journal, layerVars>>

\* The transaction goes on; when it has ended the repository returns.
Proceed(r) ==
  /\ Repo!Statement(r) \/ Repo!Commit(r) \/ Repo!Abort(r)
  /\ journal' = Announced'
  /\ IF pc'[r] = "done" THEN Returns(r, WriteOutcome(reply'[r])) ELSE UNCHANGED layerVars

ServiceNext ==
  \/ \E r \in Requests :
       \/ Layers(r) /\ UNCHANGED databaseVars
       \/ \E c \in Commands : Begin(r, c)
       \/ Proceed(r)
  \/ Done /\ UNCHANGED databaseVars

ServiceSpec == ServiceInit /\ [][ServiceNext]_serviceVars

\* A request on its way: the handler goroutine runs, and so does the server
\* behind its transaction.  No call has to fail.
Moves(r) ==
  \/ /\ Validate(r) \/ ReadMisses(r) \/ ReadSucceeds(r) \/ Respond(r)
     /\ UNCHANGED databaseVars
  \/ \E c \in Commands : Begin(r, c)
  \/ (Repo!Statement(r) \/ Repo!Commit(r)) /\ Proceed(r)

FairServiceSpec == ServiceSpec /\ \A r \in Requests : WF_serviceVars(Moves(r))

----------------------------------------------------------------------------
(* Properties.                                                             *)

\* A call of the repository, however its statements interleave with those of
\* other calls, is to the layers above the one step RequestHandling makes of it:
\* the status a client gets is about the transaction that its request ran.
ImplementsLayers == Spec

\* Every request that was received is answered: the lock of a row and the key
\* of an open insert, which Update, UpdateStock and Create wait for without a
\* timeout, are let go on every path out of the transaction that has them.
EveryRequestAnswered == \A r \in Requests : at[r] # "idle" ~> at[r] = "answered"
=============================================================================
