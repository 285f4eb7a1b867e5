--------------------------- MODULE ExecutorLedger ---------------------------
(***************************************************************************)
(* The executors keep the promises of DeliveryLedger: its entries are read *)
(* off the states of the dispatch calls and the dead letters they left,    *)
(* its marks are the checkpoints a restart can read.                       *)
(***************************************************************************)
EXTENDS Executor

\* How the call for event n of receiver <<executor, handler>> stands.
EntryOf(t) ==
  CASE status[t] = "none"                        -> "none"
    [] status[t] \in Live                        -> "outstanding"
    [] status[t] \in {"done", "drained", "cp_error"} -> "processed"
    [] OTHER -> IF \E letter \in dlq : letter.task = t
                THEN "dead_lettered" ELSE "dropped"

\* The checkpoint keys a durable handler's calls may record under.
MayMark(r) ==
  LET d == Descriptor[r[2]]
  IN  {k \in CheckpointKeys :
         IsDurable(d) /\ k[1] = d.subscription_name /\ k[2] = d.topic_name}

Ledger == INSTANCE DeliveryLedger WITH
  Receivers <- Executors \X Handlers,
  Marks     <- CheckpointKeys,
  MarksOf   <- [r \in Executors \X Handlers |-> MayMark(r)],
  entry     <- [d \in (Executors \X Handlers) \X Seqs |->
                  EntryOf(<<d[1][1], d[1][2], d[2]>>)],
  mark      <- stored

\* Delivery as the host sees it: per executor and handler every event is taken
\* up at most once and in order, ends in one outcome that never changes, and
\* only a processed event moves a checkpoint, and only one of the subscription
\* and topic of the handler that processed it: with every interleaving of
\* streams, calls, flushes, aborts and crashes.
ImplementsLedger == Ledger!LedgerSpec

=============================================================================
