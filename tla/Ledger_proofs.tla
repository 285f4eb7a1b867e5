--------------------------- MODULE Ledger_proofs ---------------------------
(***************************************************************************)
(* The executors implement DeliveryLedger: every step of every system of   *)
(* executors offers one event, closes one entry, sets one mark, drops what *)
(* was outstanding, or shows in the ledger not at all.                     *)
(***************************************************************************)
EXTENDS Delivery_proofs

Entries ==
  [d \in (Executors \X Handlers) \X Seqs |-> EntryOf(<<d[1][1], d[1][2], d[2]>>)]

OutcomeValues == {"processed", "dead_lettered", "dropped"}

----------------------------------------------------------------------------
(* The ledger's operators in terms of the executors'.                      *)

LEMMA EntryAt ==
  ASSUME NEW e \in Executors, NEW h \in Handlers, NEW n \in Seqs
  PROVE  <<e, h, n>> \in Tasks /\ Entries[<<<<e, h>>, n>>] = EntryOf(<<e, h, n>>)
BY CallsAssumption DEF Entries

LEMMA EntryValue ==
  ASSUME NEW t \in Tasks, DispatchTypeOK
  PROVE  /\ EntryOf(t) = "none" <=> status[t] = "none"
         /\ status[t] \in Live => EntryOf(t) = "outstanding"
         /\ EntryOf(t) = "outstanding" => status[t] \in Live
         /\ status[t] \in {"done", "drained", "cp_error"} => EntryOf(t) = "processed"
         /\ status[t] \in Settled => EntryOf(t) \in OutcomeValues
BY DEF EntryOf, DispatchTypeOK, Statuses, Live, Holding, Settled, OutcomeValues

\* A call whose status and letters stay keeps its entry.
LEMMA EntryKept ==
  ASSUME NEW t \in Tasks, status'[t] = status[t],
         (\E letter \in dlq' : letter.task = t) <=> (\E letter \in dlq : letter.task = t)
  PROVE  EntryOf(t)' = EntryOf(t)
BY DEF EntryOf

LEMMA EntriesKept ==
  ASSUME \A t \in Tasks : EntryOf(t)' = EntryOf(t)
  PROVE  Entries' = Entries
<1>1. \A d \in (Executors \X Handlers) \X Seqs : <<d[1][1], d[1][2], d[2]>> \in Tasks
  BY CallsAssumption
<1> QED
  BY <1>1 DEF Entries

LEMMA EntryChanged ==
  ASSUME NEW e \in Executors, NEW h \in Handlers, NEW n \in Seqs, NEW outcome,
         EntryOf(<<e, h, n>>)' = outcome,
         \A t \in Tasks \ {<<e, h, n>>} : EntryOf(t)' = EntryOf(t)
  PROVE  Entries' = [Entries EXCEPT ![<<<<e, h>>, n>>] = outcome]
<1>1. ASSUME NEW d \in (Executors \X Handlers) \X Seqs
      PROVE  Entries'[d] = [Entries EXCEPT ![<<<<e, h>>, n>>] = outcome][d]
  <2>1. PICK f \in Executors, g \in Handlers, m \in Seqs : d = <<<<f, g>>, m>>
    OBVIOUS
  <2>2. <<f, g, m>> \in Tasks /\ Entries'[d] = EntryOf(<<f, g, m>>)'
    BY <2>1, CallsAssumption DEF Entries
  <2>3. CASE <<f, g, m>> = <<e, h, n>>
    BY <2>1, <2>2, <2>3 DEF Entries
  <2>4. CASE <<f, g, m>> # <<e, h, n>>
    BY <2>1, <2>2, <2>4 DEF Entries
  <2> QED
    BY <2>3, <2>4
<1>2. /\ DOMAIN Entries' = (Executors \X Handlers) \X Seqs
      /\ Entries' = [d \in (Executors \X Handlers) \X Seqs |-> Entries'[d]]
  BY DEF Entries
<1>3. [Entries EXCEPT ![<<<<e, h>>, n>>] = outcome]
        = [d \in (Executors \X Handlers) \X Seqs |->
             [Entries EXCEPT ![<<<<e, h>>, n>>] = outcome][d]]
  BY DEF Entries
<1> QED
  BY <1>1, <1>2, <1>3

----------------------------------------------------------------------------
(* The steps.                                                              *)

LedgerStep == [Ledger!LedgerNext]_(Ledger!ledgerVars)

LEMMA StutterStep ==
  ASSUME \A t \in Tasks : EntryOf(t)' = EntryOf(t), stored' = stored
  PROVE  LedgerStep
<1>1. Entries' = Entries
  BY EntriesKept
<1> QED
  BY <1>1 DEF LedgerStep, Ledger!ledgerVars, Entries

LEMMA CloseStep ==
  ASSUME NEW e \in Executors, NEW h \in Handlers, NEW n \in Seqs,
         NEW outcome \in OutcomeValues,
         EntryOf(<<e, h, n>>) = "outstanding", EntryOf(<<e, h, n>>)' = outcome,
         \A t \in Tasks \ {<<e, h, n>>} : EntryOf(t)' = EntryOf(t), stored' = stored
  PROVE  LedgerStep
<1>1. Entries' = [Entries EXCEPT ![<<<<e, h>>, n>>] = outcome]
  BY EntryChanged
<1>2. Entries[<<<<e, h>>, n>>] = "outstanding"
  BY EntryAt
<1>3. Ledger!Close(<<e, h>>, n, outcome)
  BY <1>1, <1>2 DEF Ledger!Close, Entries
<1>4. <<e, h>> \in Executors \X Handlers /\ n \in 1 .. MaxSeq
  BY DEF Seqs
<1> QED
  BY <1>3, <1>4 DEF LedgerStep, Ledger!LedgerNext, Ledger!Outcomes, OutcomeValues

\* What a step of one call does to the calls and their letters.
LEMMA TaskEffect ==
  ASSUME DispatchTypeOK, NEW u \in Tasks, TaskStep(u)
  PROVE  /\ stored' = stored /\ status[u] \in Live
         /\ status'[u] \in Live \cup Settled
         /\ \A t \in Tasks \ {u} :
              /\ status'[t] = status[t]
              /\ (\E letter \in dlq' : letter.task = t) <=> (\E letter \in dlq : letter.task = t)
<1>1. CASE \/ AcquirePermit(u) \/ StartHandler(u) \/ HandlerOk(u) \/ HandlerPanic(u)
           \/ HandlerDone(u) \/ RecordCheckpoint(u) \/ CheckpointErr(u)
  BY <1>1 DEF DispatchTypeOK, AcquirePermit, StartHandler, HandlerOk, HandlerPanic,
     HandlerDone, RecordCheckpoint, CheckpointErr, Settle, Live, Holding, Settled
<1>2. CASE RejectShape(u) \/ RejectBuild(u) \/ HandlerErr(u)
  <2>1. PICK reason : RecordDeadLetter(u, reason)
    BY <1>2 DEF RejectShape, RejectBuild, HandlerErr
  <2>2. DeadLetter(u, reason).task = u
    BY DEF DeadLetter
  <2>3. dlq' = dlq \/ dlq' = dlq \cup {DeadLetter(u, reason)}
    BY <2>1 DEF RecordDeadLetter
  <2>4. \A t \in Tasks \ {u} :
          (\E letter \in dlq' : letter.task = t) <=> (\E letter \in dlq : letter.task = t)
    BY <2>2, <2>3
  <2> QED
    BY <1>2, <2>4 DEF DispatchTypeOK, RejectShape, RejectBuild, HandlerErr, Settle, Live,
       Holding, Settled
<1> QED
  BY <1>1, <1>2 DEF TaskStep, HandlerReturns

LEMMA TaskLedger ==
  ASSUME DispatchTypeOK, DispatchTypeOK', NEW u \in Tasks, TaskStep(u)
  PROVE  LedgerStep
<1>1. PICK e \in Executors, h \in Handlers, n \in Seqs : u = <<e, h, n>>
  BY CallsAssumption
<1>2. \A t \in Tasks \ {u} : EntryOf(t)' = EntryOf(t)
  BY TaskEffect, EntryKept
<1>3. stored' = stored /\ EntryOf(u) = "outstanding"
  BY TaskEffect, EntryValue
<1>4. EntryOf(u)' \in OutcomeValues \cup {"outstanding"}
  <2>1. status'[u] \in Live => EntryOf(u)' = "outstanding"
    BY DEF EntryOf, Live, Holding
  <2>2. status'[u] \in Settled => EntryOf(u)' \in OutcomeValues
    BY DEF EntryOf, Settled, Live, Holding, OutcomeValues
  <2> QED
    BY <2>1, <2>2, TaskEffect
<1>5. CASE EntryOf(u)' = "outstanding"
  BY <1>2, <1>3, <1>5, StutterStep
<1>6. ASSUME NEW outcome \in OutcomeValues, EntryOf(u)' = outcome
      PROVE  LedgerStep
  BY <1>1, <1>2, <1>3, <1>6, CloseStep
<1> QED
  BY <1>4, <1>5, <1>6

\* The spawn of a call is the offer of an event behind all that were offered.
LEMMA SpawnLedger ==
  ASSUME ExecInv, DispatchTypeOK, DeliveryInv, NEW s \in Subs, NEW h \in Handlers,
         SpawnDispatch(s, h)
  PROVE  LedgerStep
<1> DEFINE n == sub[s].pos
<1>1. /\ sub[s].phase = "streaming" /\ h \in sub[s].todo
      /\ Spawn(<<s[1], h, n>>, DispatchCall(s, h))
  BY DEF SpawnDispatch, Polled
<1>2. h \in GroupHandlers(s) /\ sub[s] \in SubStates
  BY <1>1 DEF DeliveryInv, StreamOK, Matching, ExecInv
<1>3. s[1] \in Executors /\ s = SubOf(s[1], h)
  BY <1>2, GroupFacts
<1>4. <<s[1], h, n>> \in Tasks
  BY SpawnedCall
<1>5. n \in Seqs
  BY <1>4, CallsAssumption
<1>6. PICK e \in Executors, p \in Seqs : e = s[1] /\ p = n /\ s = SubOf(e, h)
  BY <1>3, <1>5
<1>7. /\ status' = [status EXCEPT ![<<e, h, p>>] = "queued"]
      /\ dlq' = dlq /\ stored' = stored
  BY <1>1, <1>6 DEF Spawn
<1>8. EntryOf(<<e, h, p>>)' = "outstanding"
  BY <1>4, <1>6, <1>7 DEF EntryOf, Live, Holding, DispatchTypeOK
<1>9. \A t \in Tasks \ {<<e, h, p>>} : EntryOf(t)' = EntryOf(t)
  BY <1>7, EntryKept DEF DispatchTypeOK
<1>10. ASSUME NEW m \in p .. MaxSeq
       PROVE  Entries[<<<<e, h>>, m>>] = "none"
  <2>1. m \in Seqs /\ m \in Int /\ p \in Int /\ p <= m
    BY SeqAssumption DEF Seqs
  <2>2. ~HandedOver(e, h, m)
    BY <1>1, <1>6, <2>1 DEF HandedOver
  <2>3. status[<<e, h, m>>] = "none"
    BY <2>1, <2>2 DEF DeliveryInv, DispatchedExactly
  <2> QED
    BY <2>1, <2>3, EntryAt, EntryValue
<1>11. Entries' = [Entries EXCEPT ![<<<<e, h>>, p>>] = "outstanding"]
  BY <1>8, <1>9, EntryChanged
<1>12. Ledger!Offer(<<e, h>>, p)
  BY <1>7, <1>10, <1>11 DEF Ledger!Offer, Entries
<1>13. <<e, h>> \in Executors \X Handlers /\ p \in 1 .. MaxSeq
  BY DEF Seqs
<1> QED
  BY <1>12, <1>13 DEF LedgerStep, Ledger!LedgerNext

\* A flush sets the mark of an event that was processed, by a handler that may.
LEMMA FlushLedger ==
  ASSUME DispatchInv, DispatchedExactly, NEW k \in CheckpointKeys, FlushCheckpoint(k)
  PROVE  LedgerStep
<1>1. PICK mode \in MergeModes :
        stored' = [stored EXCEPT ![k] = Merged(mode, stored[k], pending[k])]
  BY DEF FlushCheckpoint
<1>2. /\ pending[k] # NoCheckpoint /\ status' = status /\ dlq' = dlq
      /\ stored \in Checkpoints /\ pending \in Checkpoints /\ DispatchTypeOK
  BY DEF FlushCheckpoint, DispatchInv, DispatchTypeOK
<1>3. \A t \in Tasks : EntryOf(t)' = EntryOf(t)
  BY <1>2, EntryKept
<1>4. CASE Merged(mode, stored[k], pending[k]) = stored[k]
  BY <1>1, <1>2, <1>3, <1>4, StutterStep DEF Checkpoints
<1>5. CASE stored' = [stored EXCEPT ![k] = pending[k]]
  <2>1. Justified(k, pending[k])
    BY <1>2 DEF DispatchInv, CheckpointInv, CheckpointsJustified
  <2>2. PICK t \in Tasks : /\ status[t] = "drained" /\ Checkpointed(call[t])
                           /\ CheckpointKey(call[t]) = k /\ call[t].seq = pending[k]
    BY <2>1 DEF Justified, TasksIn
  <2>3. PICK e \in Executors, h \in Handlers, n \in Seqs : t = <<e, h, n>>
    BY CallsAssumption
  <2>4. call[t] = CallFor(e, h, n)
    BY <2>2, <2>3, ExactlyFacts
  <2>5. n = pending[k] /\ k \in MayMark(<<e, h>>)
    BY <2>2, <2>4 DEF CallFor, Checkpointed, CheckpointKey, MayMark
  <2>6. Entries[<<<<e, h>>, n>>] = "processed"
    BY <1>2, <2>2, <2>3, EntryAt, EntryValue
  <2>7. Entries' = Entries
    BY <1>3, EntriesKept
  <2>8. <<e, h>> \in Executors \X Handlers /\ n \in 1 .. MaxSeq
    BY DEF Seqs
  <2>9. Ledger!SetMark(k, <<e, h>>, n)
    BY <1>5, <2>5, <2>6, <2>7, <2>8 DEF Ledger!SetMark, Entries
  <2> QED
    BY <2>8, <2>9 DEF LedgerStep, Ledger!LedgerNext
<1> QED
  BY <1>1, <1>4, <1>5, MergedType

\* A crash closes what was outstanding without a trace: live calls have left no
\* letter.
LEMMA CrashLedger ==
  ASSUME DispatchTypeOK, DeadLettersExact, Crash
  PROVE  LedgerStep
<1>1. /\ status' = [t \in Tasks |-> IF status[t] \in Live THEN "killed" ELSE status[t]]
      /\ dlq' = dlq /\ stored' = stored
  BY DEF Crash
<1>2. ASSUME NEW t \in Tasks
      PROVE  EntryOf(t)' = IF EntryOf(t) = "outstanding" THEN "dropped" ELSE EntryOf(t)
  <2>1. CASE status[t] \in Live
    <3>1. ~ \E letter \in dlq : letter.task = t
      BY <2>1 DEF DeadLettersExact, Live, Holding
    <3>2. EntryOf(t)' = "dropped"
      BY <1>1, <2>1, <3>1 DEF EntryOf, Live, Holding
    <3> QED
      BY <2>1, <3>2, EntryValue
  <2>2. CASE status[t] \notin Live
    <3>1. EntryOf(t)' = EntryOf(t)
      BY <1>1, <2>2, EntryKept
    <3> QED
      BY <2>2, <3>1, EntryValue
  <2> QED
    BY <2>1, <2>2
<1>3. Entries' = [d \in (Executors \X Handlers) \X Seqs |->
                    IF Entries[d] = "outstanding" THEN "dropped" ELSE Entries[d]]
  <2>1. ASSUME NEW d \in (Executors \X Handlers) \X Seqs
        PROVE  Entries'[d] = IF Entries[d] = "outstanding" THEN "dropped" ELSE Entries[d]
    <3>1. <<d[1][1], d[1][2], d[2]>> \in Tasks
      BY CallsAssumption
    <3> QED
      BY <1>2, <3>1 DEF Entries
  <2>2. Entries' = [d \in (Executors \X Handlers) \X Seqs |-> Entries'[d]]
    BY DEF Entries
  <2> QED
    BY <2>1, <2>2
<1>4. Ledger!DropOutstanding
  BY <1>1, <1>3 DEF Ledger!DropOutstanding, Ledger!Deliveries, Entries, Seqs
<1> QED
  BY <1>4 DEF LedgerStep, Ledger!LedgerNext

LEMMA LedgerSimulation ==
  ASSUME ExecInv, DispatchInv, DispatchInv', DeliveryInv, DeadLettersExact, [Next]_vars
  PROVE  LedgerStep
<1> USE DEF DispatchInv
<1>1. ASSUME UNCHANGED dispatchVars
      PROVE  LedgerStep
  <2>1. \A t \in Tasks : EntryOf(t)' = EntryOf(t)
    BY <1>1, EntryKept DEF dispatchVars
  <2> QED
    BY <1>1, <2>1, StutterStep DEF dispatchVars
<1>2. CASE \/ \E topic \in Topics, event \in Events : Publish(topic, event)
           \/ \E e \in Executors : StartExecutor(e) \/ Abort(e)
           \/ UNCHANGED vars
  BY <1>1, <1>2 DEF Publish, StartExecutor, Abort, vars
<1>3. ASSUME NEW s \in Subs, SubStep(s) \/ SubFault(s) \/ Cancel(s)
      PROVE  LedgerStep
  <2>1. CASE \E h \in Handlers : SpawnDispatch(s, h)
    BY <2>1, SpawnLedger
  <2>2. CASE ~ \E h \in Handlers : SpawnDispatch(s, h)
    BY <1>1, <1>3, <2>2 DEF SubStep, SubFault, Cancel, LookupCheckpoint, OpenStream, Receive,
       StreamError, StreamEnd
  <2> QED
    BY <2>1, <2>2
<1>4. CASE RunningStep /\ UNCHANGED executorVars
  BY <1>4, TaskLedger, FlushLedger DEF RunningStep, DeliveryInv
<1>5. CASE ProcessCrash
  BY <1>5, CrashLedger DEF ProcessCrash
<1> QED
  BY <1>2, <1>3, <1>4, <1>5 DEF Next

----------------------------------------------------------------------------
(* The theorem.                                                            *)

\* Every system of executors implements the ledger: events are offered to each
\* receiver at most once and in order, every entry is closed once and for good,
\* and no mark names an event that a handler allowed to set it has not
\* processed; whatever fails, is aborted or crashes, and whoever shares a
\* subscription name.
THEOREM ExecutorsKeepLedger == Spec => ImplementsLedger
<1>1. Init => Ledger!LedgerInit
  <2> SUFFICES ASSUME Init PROVE Ledger!LedgerInit
    OBVIOUS
  <2>1. ASSUME NEW d \in (Executors \X Handlers) \X Seqs
        PROVE  EntryOf(<<d[1][1], d[1][2], d[2]>>) = "none"
    <3>1. PICK t \in Tasks : t = <<d[1][1], d[1][2], d[2]>>
      BY CallsAssumption
    <3>2. status[t] = "none"
      BY DEF Init, DispatchInit
    <3> QED
      BY <3>1, <3>2, InitExecInv, EntryValue DEF DispatchInv
  <2>2. stored = [k \in CheckpointKeys |-> 0]
    BY DEF Init, DispatchInit, NoCheckpoint
  <2> QED
    BY <2>1, <2>2 DEF Ledger!LedgerInit, Ledger!Deliveries, Seqs
<1>2. /\ ExecInv /\ DispatchInv /\ DispatchInv' /\ DeliveryInv /\ DeadLettersExact
      /\ [Next]_vars
      => [Ledger!LedgerNext]_(Ledger!ledgerVars)
  BY LedgerSimulation DEF LedgerStep
<1> QED
  BY <1>1, <1>2, DeliveryInvariant, ExecutorGuarantees, PTL
  DEF Spec, ImplementsLedger, Ledger!LedgerSpec

=============================================================================
