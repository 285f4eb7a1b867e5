----------------------------- MODULE MCExecutor -----------------------------
(***************************************************************************)
(* Executor with the handlers of the runs: two durable handlers that share *)
(* one unfiltered stream, and two handlers of a single key, one ephemeral  *)
(* and one durable under the subscription name `billing` has too.          *)
(***************************************************************************)
EXTENDS ExecutorLedger, TLC

CONSTANTS audit, billing, watch, regional, orders, eu, auditSub, billingSub

MCDescriptor ==
  [h \in Handlers |->
     CASE h = audit   -> [ topic_name |-> orders, subscription_name |-> auditSub,
                           topic_key_filter |-> None, mode |-> "Durable" ]
       [] h = billing -> [ topic_name |-> orders, subscription_name |-> billingSub,
                           topic_key_filter |-> None, mode |-> "Durable" ]
       [] h = watch   -> [ topic_name |-> orders, subscription_name |-> None,
                           topic_key_filter |-> eu, mode |-> "Ephemeral" ]
       [] h = regional -> [ topic_name |-> orders, subscription_name |-> billingSub,
                            topic_key_filter |-> eu, mode |-> "Durable" ]]

\* The two durable handlers swapped together with their names.
Swap ==
  {p \in Permutations({audit, billing, auditSub, billingSub}) :
     /\ p[audit] \in {audit, billing} /\ p[billing] \in {audit, billing}
     /\ p[audit] = audit <=> p[auditSub] = auditSub}

MCTasks == Executors \X Handlers \X Seqs
MCAccepts == [f \in Factories |-> ActorJson]
MCFactoryOf == [e \in Executors |-> CHOOSE f \in Factories : TRUE]

=============================================================================
