--------------------------- MODULE DeliveryLedger ---------------------------
(***************************************************************************)
(* What event delivery promises, without tasks, permits, streams, queues   *)
(* or checkpoint buffers: a ledger with one entry for every receiver and   *)
(* event, and one mark for every checkpoint key.                           *)
(*                                                                         *)
(* A receiver is offered each event at most once and in the order of the   *)
(* log.  An entry is closed once and for good: its handler processed the   *)
(* event, or a dead letter tells of it, or it was dropped without a trace. *)
(* A mark only ever names an event that a receiver allowed to set it has   *)
(* processed.  A crash drops exactly what was outstanding.                 *)
(***************************************************************************)
EXTENDS Integers

CONSTANTS
  Receivers,  \* an executor's use of a handler
  MaxSeq,     \* bound on the events' sequence numbers
  Marks,      \* checkpoint keys
  MarksOf     \* the marks each receiver may set

VARIABLES entry, mark

ledgerVars == <<entry, mark>>

Deliveries == Receivers \X (1 .. MaxSeq)
Outcomes == {"processed", "dead_lettered", "dropped"}

LedgerInit ==
  /\ entry = [d \in Deliveries |-> "none"]
  /\ mark = [k \in Marks |-> 0]

Offer(r, n) ==
  /\ \A m \in n .. MaxSeq : entry[<<r, m>>] = "none"
  /\ entry' = [entry EXCEPT ![<<r, n>>] = "outstanding"]
  /\ UNCHANGED mark

Close(r, n, outcome) ==
  /\ entry[<<r, n>>] = "outstanding"
  /\ entry' = [entry EXCEPT ![<<r, n>>] = outcome]
  /\ UNCHANGED mark

SetMark(k, r, n) ==
  /\ k \in MarksOf[r]
  /\ entry[<<r, n>>] = "processed"
  /\ mark' = [mark EXCEPT ![k] = n]
  /\ UNCHANGED entry

DropOutstanding ==
  /\ entry' = [d \in Deliveries |->
                 IF entry[d] = "outstanding" THEN "dropped" ELSE entry[d]]
  /\ UNCHANGED mark

LedgerNext ==
  \/ \E r \in Receivers, n \in 1 .. MaxSeq :
       \/ Offer(r, n)
       \/ \E outcome \in Outcomes : Close(r, n, outcome)
       \/ \E k \in Marks : SetMark(k, r, n)
  \/ DropOutstanding

LedgerSpec == LedgerInit /\ [][LedgerNext]_ledgerVars

=============================================================================
