-------------------------- MODULE Delivery_proofs --------------------------
(***************************************************************************)
(* What the executors do with the events: which calls exist, what a        *)
(* resumed stream jumps over and where it starts.  For every set of        *)
(* handlers, topics and keys and every number of executors and events.     *)
(***************************************************************************)
EXTENDS ExecutorLedger, Executor_proofs

----------------------------------------------------------------------------
(* Which calls exist.                                                      *)

\* The stream of h's group in executor e, and h's place in it.
LEMMA SubOfFacts ==
  ASSUME NEW e \in Executors, NEW h \in Handlers
  PROVE  /\ SubOf(e, h) \in Subs /\ SubOf(e, h)[1] = e
         /\ Topic(SubOf(e, h)) = Descriptor[h].topic_name
         /\ KeyFilter(SubOf(e, h)) = Descriptor[h].topic_key_filter
         /\ h \in GroupHandlers(SubOf(e, h))
BY DEF SubOf, Subs, TopicSubscriptionKeys, Topic, KeyFilter, Group, TopicKey,
   GroupHandlers, HandlersForTopicKey

\* A stream is the stream of each of its group's handlers.
LEMMA GroupFacts ==
  ASSUME NEW s \in Subs, NEW h \in GroupHandlers(s)
  PROVE  h \in Handlers /\ s[1] \in Executors /\ s = SubOf(s[1], h)
<1>1. s[1] \in Executors /\ h \in Handlers /\ TopicKey(h) = s[2]
  BY SubFacts DEF GroupHandlers, HandlersForTopicKey, Group
<1>2. s = <<s[1], s[2]>>
  BY DEF Subs
<1> QED
  BY <1>1, <1>2 DEF SubOf

\* An event a handler carries is one its stream delivers and the loop's filter
\* lets through.
LEMMA CarriesFacts ==
  ASSUME NEW s \in Subs, NEW h \in GroupHandlers(s), NEW n \in Seqs
  PROVE  /\ Carries(h, n) <=>
              /\ n \in 1 .. Len(log[Topic(s)])
              /\ KeyFilter(s) \in {None, log[Topic(s)][n].topic_key}
         /\ n \in 1 .. Len(log[Topic(s)]) => (Carries(h, n) <=> h \in Matching(s, n))
<1>1. /\ h \in Handlers /\ Topic(s) = Descriptor[h].topic_name
      /\ KeyFilter(s) = Descriptor[h].topic_key_filter
  BY GroupFacts, SubOfFacts
<1> QED
  BY <1>1 DEF Carries, EventAt, HandlersForEvent, Matching, MatchesEvent

\* HandedOver as a fact about the record of the stream.
Handed(r, h, n) ==
  /\ r.start < n /\ n <= r.pos
  /\ n \notin r.lost
  /\ ~(n = r.pos /\ h \in r.todo)

LEMMA HandedFacts ==
  ASSUME NEW e \in Executors, NEW h \in Handlers, NEW n \in Seqs
  PROVE  HandedOver(e, h, n) <=> Handed(sub[SubOf(e, h)], h, n)
BY DEF HandedOver, Handed

\* What a stream holds on to while it is looked up, open and over.
StreamOK(s) ==
  /\ sub[s].phase \in {"unspawned", "lookup"} =>
       sub[s].start = sub[s].pos /\ sub[s].lost = {} /\ sub[s].origin = "none"
  /\ sub[s].phase = "streaming" => sub[s].origin # "none"
  /\ sub[s].origin = "none" => sub[s].start = sub[s].pos
  /\ \A m \in sub[s].lost : m <= sub[s].pos
  /\ sub[s].phase = "streaming" /\ sub[s].todo # {} =>
       sub[s].todo \subseteq Matching(s, sub[s].pos) /\ sub[s].pos \notin sub[s].lost

DeliveryInv == DispatchedExactly /\ \A s \in Subs : StreamOK(s)

\* The call an executor makes for handler h and event n.
CallFor(e, h, n) ==
  [ factory           |-> FactoryOf[e],
    subscription_name |-> Descriptor[h].subscription_name,
    is_durable        |-> IsDurable(Descriptor[h]),
    topic_name        |-> Descriptor[h].topic_name,
    topic_key         |-> EventAt(h, n).topic_key,
    seq               |-> n,
    actor_json        |-> EventAt(h, n).actor_json ]

LEMMA ExactlyFacts ==
  DispatchedExactly <=>
    \A e \in Executors, h \in Handlers, n \in Seqs :
      /\ status[<<e, h, n>>] # "none" <=> Carries(h, n) /\ HandedOver(e, h, n)
      /\ status[<<e, h, n>>] # "none" => call[<<e, h, n>>] = CallFor(e, h, n)
BY DEF DispatchedExactly, CallFor

\* A step of one stream alone that hands over nothing more and nothing less.
LEMMA StreamMove ==
  ASSUME ExecInv, DispatchedExactly, NEW s \in Subs, NEW r,
         sub' = [sub EXCEPT ![s] = r], log' = log, UNCHANGED dispatchVars,
         \A h \in GroupHandlers(s), n \in Seqs :
           Carries(h, n) => (Handed(r, h, n) <=> Handed(sub[s], h, n))
  PROVE  DispatchedExactly'
<1> SUFFICES ASSUME NEW e \in Executors, NEW h \in Handlers, NEW n \in Seqs
             PROVE  /\ status'[<<e, h, n>>] # "none" <=>
                         Carries(h, n)' /\ HandedOver(e, h, n)'
                    /\ status'[<<e, h, n>>] # "none" =>
                         call'[<<e, h, n>>] = CallFor(e, h, n)'
  BY DEF DispatchedExactly, CallFor
<1>1. status' = status /\ call' = call
  BY DEF dispatchVars
<1>2. (Carries(h, n)' <=> Carries(h, n)) /\ CallFor(e, h, n)' = CallFor(e, h, n)
  BY DEF Carries, CallFor, EventAt
<1>3. /\ status[<<e, h, n>>] # "none" <=> Carries(h, n) /\ HandedOver(e, h, n)
      /\ status[<<e, h, n>>] # "none" => call[<<e, h, n>>] = CallFor(e, h, n)
  BY ExactlyFacts
<1>4. HandedOver(e, h, n)' <=> Handed(sub'[SubOf(e, h)], h, n)
  BY DEF HandedOver, Handed, SubOf
<1>5. Carries(h, n) =>
        (Handed(sub'[SubOf(e, h)], h, n) <=> Handed(sub[SubOf(e, h)], h, n))
  <2>1. CASE SubOf(e, h) = s
    BY <2>1, SubOfFacts DEF ExecInv
  <2>2. CASE SubOf(e, h) # s
    BY <2>2, SubOfFacts DEF ExecInv
  <2> QED
    BY <2>1, <2>2
<1> QED
  BY <1>1, <1>2, <1>3, <1>4, <1>5, HandedFacts

\* A stream that moves to its next event hands over none it had passed.
LEMMA AdvanceExactly ==
  ASSUME ExecInv, DeliveryInv, NEW s \in Subs, NEW n \in Seqs,
         Receive(s, n) \/ StreamError(s, n)
  PROVE  DeliveryInv'
<1>1. /\ sub[s] \in SubStates /\ SubOK(s) /\ StreamOK(s)
      /\ Len(log[Topic(s)]) \in 0 .. MaxSeq
  BY SubTypes DEF DeliveryInv
<1>2. /\ NextEvent(s, n) /\ sub[s].phase = "streaming" /\ sub[s].todo = {}
      /\ log' = log /\ handle' = handle /\ UNCHANGED dispatchVars
  BY DEF Receive, StreamError, Polled
<1>3. n > sub[s].pos /\ n \in 1 .. Len(log[Topic(s)])
  BY <1>2 DEF NextEvent, Streamed
<1>4. ASSUME NEW h \in GroupHandlers(s), NEW m \in Seqs, sub[s].pos < m, m < n
      PROVE  ~Carries(h, m)
  BY <1>2, <1>4, CarriesFacts, SeqAssumption DEF NextEvent, Streamed, Seqs
<1> DEFINE received == [sub[s] EXCEPT !.pos = n, !.todo = Matching(s, n)]
           erred == [sub[s] EXCEPT !.pos = n, !.lost = @ \cup {n}]
<1>5. PICK r \in {received, erred} : sub' = [sub EXCEPT ![s] = r]
  BY DEF Receive, StreamError, ExecInv
<1>6. /\ r.phase = "streaming" /\ r.pos = n /\ r.start = sub[s].start
      /\ r.origin = sub[s].origin
      /\ \/ r.todo = Matching(s, n) /\ r.lost = sub[s].lost
         \/ r.todo = {} /\ r.lost = sub[s].lost \cup {n}
  BY <1>1, <1>2 DEF SubStates
<1> HIDE DEF received, erred
<1>7. sub[s].pos \in Int /\ sub[s].start \in Int /\ n \in Int /\ sub[s].start <= sub[s].pos
  BY <1>1, SeqAssumption DEF SubStates, SubOK, Seqs
<1>8. ASSUME NEW h \in GroupHandlers(s), NEW m \in Seqs, Carries(h, m)
      PROVE  Handed(r, h, m) <=> Handed(sub[s], h, m)
  <2>1. m \in Int
    BY SeqAssumption DEF Seqs
  <2>2. CASE m <= sub[s].pos
    BY <1>2, <1>3, <1>6, <1>7, <2>1, <2>2 DEF Handed
  <2>3. CASE m = n
    <3>1. h \in Matching(s, n)
      BY <1>3, <1>8, <2>3, CarriesFacts
    <3> QED
      BY <1>3, <1>6, <1>7, <2>3, <3>1 DEF Handed
  <2>4. CASE m > n
    BY <1>3, <1>6, <1>7, <2>1, <2>4 DEF Handed
  <2> QED
    BY <1>4, <1>7, <1>8, <2>1, <2>2, <2>3, <2>4
<1>9. DispatchedExactly'
  BY <1>2, <1>5, <1>8, StreamMove DEF DeliveryInv
<1>10. StreamOK(s)'
  <2>1. sub'[s] = r /\ Matching(s, n)' = Matching(s, n)
    BY <1>2, <1>5 DEF ExecInv, Matching, GroupHandlers, Topic, Group
  <2>2. n \notin sub[s].lost /\ \A m \in r.lost : m <= n
    BY <1>1, <1>3, <1>6, <1>7, SeqAssumption DEF StreamOK, SubStates, Seqs
  <2>3. r.origin # "none"
    BY <1>1, <1>2, <1>6 DEF StreamOK
  <2> QED
    BY <1>6, <2>1, <2>2, <2>3 DEF StreamOK
<1>11. ASSUME NEW u \in Subs, u # s
       PROVE  StreamOK(u)'
  BY <1>2, <1>5, <1>11 DEF ExecInv, DeliveryInv, StreamOK, Matching, GroupHandlers, Topic, Group
<1> QED
  BY <1>9, <1>10, <1>11 DEF DeliveryInv

\* A step of one stream that leaves the position, or starts it afresh.
LEMMA StayExactly ==
  ASSUME ExecInv, DeliveryInv, NEW s \in Subs,
         (\E h \in Handlers : LookupCheckpoint(s, h)) \/ OpenStream(s) \/ StreamEnd(s) \/ Cancel(s)
  PROVE  DeliveryInv'
<1>1. sub[s] \in SubStates /\ SubOK(s) /\ StreamOK(s)
  BY SubTypes DEF DeliveryInv
<1>2. log' = log /\ handle' = handle /\ UNCHANGED dispatchVars
  BY DEF LookupCheckpoint, OpenStream, StreamEnd, Cancel
<1>3. PICK r : /\ sub' = [sub EXCEPT ![s] = r]
               /\ r.phase \in {"lookup", "streaming", "ended"}
               /\ \/ /\ r.start = sub[s].start /\ r.pos = sub[s].pos
                     /\ r.lost = sub[s].lost /\ r.origin = sub[s].origin
                     /\ \/ r.todo = sub[s].todo
                        \/ sub[s].phase = "lookup" /\ r.phase = "lookup"
                     /\ r.phase \in {sub[s].phase, "ended"}
                  \/ /\ r.start = r.pos /\ r.pos \in Int /\ r.lost = {} /\ r.todo = {}
                     /\ sub[s].phase = "lookup" /\ r.phase = "streaming"
                     /\ r.origin # "none"
  <2>1. CASE \E h \in Handlers : LookupCheckpoint(s, h)
    <3>h. PICK h \in Handlers : LookupCheckpoint(s, h)
      BY <2>1
    <3>1. PICK seq :
            sub' = [sub EXCEPT
              ![s].todo = @ \ {h},
              ![s].all_have_cp = @ /\ seq # NoCheckpoint,
              ![s].min_cp = IF seq = NoCheckpoint THEN @
                            ELSE IF @ = NoCheckpoint \/ seq < @ THEN seq ELSE @]
      BY <3>h DEF LookupCheckpoint
    <3> DEFINE r == [sub[s] EXCEPT
              !.todo = @ \ {h},
              !.all_have_cp = @ /\ seq # NoCheckpoint,
              !.min_cp = IF seq = NoCheckpoint THEN @
                         ELSE IF @ = NoCheckpoint \/ seq < @ THEN seq ELSE @]
    <3>2. sub' = [sub EXCEPT ![s] = r]
      BY <3>1 DEF ExecInv
    <3>3. sub[s].phase = "lookup"
      BY <2>1 DEF LookupCheckpoint, Polled
    <3>4. /\ r.start = sub[s].start /\ r.pos = sub[s].pos /\ r.lost = sub[s].lost
          /\ r.origin = sub[s].origin /\ r.phase = "lookup"
      BY <1>1, <3>3 DEF SubStates
    <3> HIDE DEF r
    <3> QED
      BY <3>2, <3>3, <3>4
  <2>2. CASE OpenStream(s)
    <3>1. PICK after \in Int : sub' = [sub EXCEPT ![s] = Subscribed(s, after)]
      <4>1. sub[s].min_cp \in Int /\ Len(log[Topic(s)]) \in Int
        BY <1>1, SubTypes, SeqAssumption DEF SubStates, NoCheckpoint, Seqs
      <4>2. CASE Resumes(s)
        BY <2>2, <4>1, <4>2 DEF OpenStream
      <4>3. CASE ~Resumes(s)
        BY <2>2, <4>1, <4>3 DEF OpenStream
      <4> QED
        BY <4>2, <4>3
    <3>2. sub[s].phase = "lookup"
      BY <2>2 DEF OpenStream, Polled
    <3> DEFINE r == Subscribed(s, after)
    <3>3. /\ r.start = r.pos /\ r.pos \in Int /\ r.lost = {} /\ r.todo = {}
          /\ r.phase = "streaming"
          /\ r.origin # "none"
      BY DEF Subscribed, Unspawned
    <3> HIDE DEF r
    <3> QED
      BY <3>1, <3>2, <3>3 DEF r
  <2>3. CASE StreamEnd(s) \/ Cancel(s)
    <3> DEFINE r == [sub[s] EXCEPT !.phase = "ended"]
    <3>1. sub' = [sub EXCEPT ![s] = r]
      BY <2>3 DEF StreamEnd, Cancel, ExecInv
    <3>2. /\ r.start = sub[s].start /\ r.pos = sub[s].pos /\ r.lost = sub[s].lost
          /\ r.origin = sub[s].origin /\ r.phase = "ended" /\ r.todo = sub[s].todo
      BY <1>1 DEF SubStates
    <3> HIDE DEF r
    <3> QED
      BY <3>1, <3>2
  <2> QED
    BY <2>1, <2>2, <2>3
<1>4. sub[s].start \in Int /\ sub[s].pos \in Int
  BY <1>1, SeqAssumption DEF SubStates
<1>5. ASSUME NEW h \in GroupHandlers(s), NEW m \in Seqs
      PROVE  Handed(r, h, m) <=> Handed(sub[s], h, m)
  <2>1. m \in Int
    BY SeqAssumption DEF Seqs
  <2>2. CASE sub[s].phase = "lookup"
    <3>1. sub[s].start = sub[s].pos
      BY <1>1, <2>2 DEF StreamOK
    <3>2. ~Handed(sub[s], h, m)
      BY <1>4, <2>1, <3>1 DEF Handed
    <3>3. CASE r.start = sub[s].start /\ r.pos = sub[s].pos
      BY <1>4, <2>1, <3>1, <3>2, <3>3 DEF Handed
    <3>4. CASE r.start = r.pos /\ r.pos \in Int
      BY <2>1, <3>2, <3>4 DEF Handed
    <3> QED
      BY <1>3, <3>3, <3>4
  <2>3. CASE sub[s].phase # "lookup"
    BY <1>3, <2>3 DEF Handed
  <2> QED
    BY <2>2, <2>3
<1>6. DispatchedExactly'
  BY <1>2, <1>3, <1>5, StreamMove DEF DeliveryInv
<1>7. StreamOK(s)'
  <2>1. sub'[s] = r /\ Matching(s, r.pos)' = Matching(s, r.pos)
    BY <1>2, <1>3 DEF ExecInv, Matching, GroupHandlers, Topic, Group
  <2> QED
    BY <1>1, <1>3, <2>1 DEF StreamOK
<1>8. ASSUME NEW u \in Subs, u # s
      PROVE  StreamOK(u)'
  BY <1>2, <1>3, <1>8 DEF ExecInv, DeliveryInv, StreamOK, Matching, GroupHandlers, Topic, Group
<1> QED
  BY <1>6, <1>7, <1>8 DEF DeliveryInv

\* The spawn of one call is the hand-over to one handler.
LEMMA SpawnExactly ==
  ASSUME ExecInv, DispatchTypeOK, DeliveryInv, NEW s \in Subs, NEW g \in Handlers,
         SpawnDispatch(s, g)
  PROVE  DeliveryInv'
<1> DEFINE p == sub[s].pos
           t == <<s[1], g, p>>
           r == [sub[s] EXCEPT !.todo = @ \ {g}]
<1>1. /\ sub[s] \in SubStates /\ SubOK(s) /\ StreamOK(s)
      /\ Len(log[Topic(s)]) \in 0 .. MaxSeq
  BY SubTypes DEF DeliveryInv
<1>2. /\ sub[s].phase = "streaming" /\ g \in sub[s].todo /\ log' = log
      /\ status' = [status EXCEPT ![t] = "queued"]
      /\ call' = [call EXCEPT ![t] = DispatchCall(s, g)]
      /\ sub' = [sub EXCEPT ![s] = r]
  BY DEF SpawnDispatch, Spawn, Polled, ExecInv
<1>3. g \in Matching(s, p) /\ p \notin sub[s].lost /\ sub[s].start < p
  BY <1>1, <1>2 DEF StreamOK, SubOK
<1>4. g \in GroupHandlers(s)
  BY <1>3 DEF Matching
<1>5. s[1] \in Executors /\ s = SubOf(s[1], g)
  BY <1>4, GroupFacts
<1>6. p \in Seqs /\ p \in 1 .. Len(log[Topic(s)])
  BY <1>1, <1>3, SeqAssumption DEF SubStates, SubOK, Seqs
<1>7. Carries(g, p)
  BY <1>3, <1>4, <1>6, CarriesFacts
<1>8. DispatchCall(s, g) = CallFor(s[1], g, p)
  BY <1>5, SubOfFacts DEF DispatchCall, CallFor, EventAt
<1>9. t \in Tasks
  BY SpawnedCall
<1>10. /\ r.start = sub[s].start /\ r.pos = p /\ r.lost = sub[s].lost
       /\ r.todo = sub[s].todo \ {g} /\ r.phase = "streaming"
       /\ r.origin = sub[s].origin
  BY <1>1, <1>2 DEF SubStates
<1> HIDE DEF r, p
<1>11. ASSUME NEW e \in Executors, NEW h \in Handlers, NEW n \in Seqs
       PROVE  /\ status'[<<e, h, n>>] # "none" <=> Carries(h, n)' /\ HandedOver(e, h, n)'
              /\ status'[<<e, h, n>>] # "none" =>
                   call'[<<e, h, n>>] = CallFor(e, h, n)'
  <2>1. (Carries(h, n)' <=> Carries(h, n)) /\ CallFor(e, h, n)' = CallFor(e, h, n)
    BY <1>2 DEF Carries, CallFor, EventAt
  <2>2. HandedOver(e, h, n)' <=> Handed(sub'[SubOf(e, h)], h, n)
    BY DEF HandedOver, Handed, SubOf
  <2>3. /\ status[<<e, h, n>>] # "none" <=> Carries(h, n) /\ HandedOver(e, h, n)
        /\ status[<<e, h, n>>] # "none" => call[<<e, h, n>>] = CallFor(e, h, n)
    BY ExactlyFacts DEF DeliveryInv
  <2>4. <<e, h, n>> \in Tasks
    BY CallsAssumption
  <2>5. CASE <<e, h, n>> = t
    <3>1. e = s[1] /\ h = g /\ n = p
      BY <2>5
    <3>2. Handed(r, g, p)
      BY <1>2, <1>3, <1>6, <1>10 DEF Handed, Seqs
    <3>3. sub'[SubOf(e, h)] = r
      BY <1>2, <1>5, <3>1 DEF ExecInv
    <3> QED
      BY <1>2, <1>7, <1>8, <1>9, <2>1, <2>2, <3>1, <3>2, <3>3 DEF DispatchTypeOK
  <2>6. CASE <<e, h, n>> # t
    <3>1. status'[<<e, h, n>>] = status[<<e, h, n>>] /\ call'[<<e, h, n>>] = call[<<e, h, n>>]
      BY <1>2, <2>4, <2>6 DEF DispatchTypeOK
    <3>2. CASE SubOf(e, h) = s
      <4>1. h # g \/ n # p
        BY <2>6, <3>2, SubOfFacts
      <4>2. Handed(r, h, n) <=> Handed(sub[s], h, n)
        BY <1>10, <4>1 DEF Handed, p
      <4> QED
        BY <1>2, <2>1, <2>2, <2>3, <3>1, <3>2, <4>2, HandedFacts DEF ExecInv
    <3>3. CASE SubOf(e, h) # s
      BY <1>2, <2>1, <2>2, <2>3, <3>1, <3>3, HandedFacts, SubOfFacts DEF ExecInv
    <3> QED
      BY <3>2, <3>3
  <2> QED
    BY <2>5, <2>6
<1>12. DispatchedExactly'
  BY <1>11 DEF DispatchedExactly, CallFor
<1>13. StreamOK(s)'
  <2>1. sub'[s] = r /\ sub'[s].pos = p
    BY <1>2, <1>10 DEF ExecInv
  <2>2. sub[s].todo \subseteq Matching(s, p)
    BY <1>1, <1>2 DEF StreamOK, p
  <2>3. (sub[s].todo \subseteq Matching(s, sub[s].pos))'
    BY <1>2, <1>10, <2>1, <2>2 DEF Matching, GroupHandlers, Topic, Group
  <2>4. /\ sub'[s].start = sub[s].start /\ sub'[s].lost = sub[s].lost
        /\ sub'[s].origin = sub[s].origin /\ sub'[s].phase = "streaming"
    BY <1>10, <2>1
  <2>5. /\ sub[s].origin # "none" /\ \A m \in sub[s].lost : m <= p
    BY <1>1, <1>2 DEF StreamOK, p
  <2> QED
    BY <1>3, <2>1, <2>3, <2>4, <2>5 DEF StreamOK
<1>14. ASSUME NEW u \in Subs, u # s
       PROVE  StreamOK(u)'
  BY <1>2, <1>14 DEF ExecInv, DeliveryInv, StreamOK, Matching, GroupHandlers, Topic, Group
<1> QED
  BY <1>12, <1>13, <1>14 DEF DeliveryInv

\* The streams hand over the same, and the calls that exist stay.
LEMMA SameExactly ==
  ASSUME ExecInv, DeliveryInv,
         \A t \in Tasks : status'[t] = "none" <=> status[t] = "none",
         \A t \in Tasks : status[t] # "none" => call'[t] = call[t],
         log' = log,
         \A s \in Subs : \A h \in GroupHandlers(s), n \in Seqs :
           Handed(sub'[s], h, n) <=> Handed(sub[s], h, n)
  PROVE  DispatchedExactly'
<1> SUFFICES ASSUME NEW e \in Executors, NEW h \in Handlers, NEW n \in Seqs
             PROVE  /\ status'[<<e, h, n>>] # "none" <=>
                         Carries(h, n)' /\ HandedOver(e, h, n)'
                    /\ status'[<<e, h, n>>] # "none" =>
                         call'[<<e, h, n>>] = CallFor(e, h, n)'
  BY DEF DispatchedExactly, CallFor
<1>1. <<e, h, n>> \in Tasks
  BY CallsAssumption
<1>2. (Carries(h, n)' <=> Carries(h, n)) /\ CallFor(e, h, n)' = CallFor(e, h, n)
  BY DEF Carries, CallFor, EventAt
<1>3. /\ status[<<e, h, n>>] # "none" <=> Carries(h, n) /\ HandedOver(e, h, n)
      /\ status[<<e, h, n>>] # "none" => call[<<e, h, n>>] = CallFor(e, h, n)
  BY ExactlyFacts DEF DeliveryInv
<1>4. HandedOver(e, h, n)' <=> Handed(sub'[SubOf(e, h)], h, n)
  BY DEF HandedOver, Handed, SubOf
<1> QED
  BY <1>1, <1>2, <1>3, <1>4, HandedFacts, SubOfFacts

LEMMA StartExactly ==
  ASSUME ExecInv, DeliveryInv, NEW e \in Executors, StartExecutor(e)
  PROVE  DeliveryInv'
<1>1. log' = log /\ UNCHANGED dispatchVars /\ handle[e] = "unstarted"
  BY DEF StartExecutor
<1>2. ASSUME NEW s \in Subs
      PROVE  /\ StreamOK(s)'
             /\ \A h \in GroupHandlers(s), n \in Seqs :
                  Handed(sub'[s], h, n) <=> Handed(sub[s], h, n)
  <2>1. /\ sub[s] \in SubStates /\ SubOK(s) /\ StreamOK(s)
        /\ Len(log[Topic(s)]) \in 0 .. MaxSeq
    BY SubTypes DEF DeliveryInv
  <2>2. CASE s[1] = e
    <3> DEFINE r == Started(s)
    <3>1. sub'[s] = r
      BY <2>2 DEF StartExecutor
    <3>2. sub[s].phase = "unspawned" /\ sub[s].start = sub[s].pos
      BY <1>1, <2>1, <2>2 DEF SubOK, StreamOK
    <3>3. /\ r.phase = "lookup" /\ r.start = r.pos /\ r.pos \in Int /\ r.lost = {}
          /\ r.origin = "none"
      BY <2>1 DEF Started, Unspawned
    <3> HIDE DEF r
    <3>4. sub[s].pos \in Int /\ \A n \in Seqs : n \in Int
      BY <2>1, SeqAssumption DEF SubStates, Seqs
    <3> QED
      BY <3>1, <3>2, <3>3, <3>4 DEF Handed, StreamOK
  <2>3. CASE s[1] # e
    <3>1. sub'[s] = sub[s]
      BY <2>3 DEF StartExecutor
    <3> QED
      BY <1>1, <2>1, <3>1 DEF StreamOK, Matching, GroupHandlers, Topic, Group
  <2> QED
    BY <2>2, <2>3
<1>3. DispatchedExactly'
  BY <1>1, <1>2, SameExactly DEF dispatchVars
<1> QED
  BY <1>2, <1>3 DEF DeliveryInv

\* The dispatch steps make no call and take none back.
LEMMA CallsKept ==
  ASSUME DispatchTypeOK, RunningStep \/ Crash
  PROVE  \A t \in Tasks : /\ status'[t] = "none" <=> status[t] = "none"
                          /\ status[t] # "none" => call'[t] = call[t]
<1> SUFFICES ASSUME NEW t \in Tasks
             PROVE  status'[t] = "none" <=> status[t] = "none"
  BY CallStable DEF DispatchNext
<1>1. ASSUME NEW u \in Tasks, TaskStep(u)
      PROVE  status'[t] = "none" <=> status[t] = "none"
  BY <1>1 DEF DispatchTypeOK, TaskStep, HandlerReturns, AcquirePermit, RejectShape,
     RejectBuild, StartHandler, HandlerErr, HandlerPanic, HandlerOk, HandlerDone,
     RecordCheckpoint, CheckpointErr, Settle
<1>2. ASSUME NEW k \in CheckpointKeys, FlushCheckpoint(k)
      PROVE  status'[t] = "none" <=> status[t] = "none"
  BY <1>2 DEF FlushCheckpoint
<1>3. CASE Crash
  BY <1>3 DEF Crash, Live, Holding
<1> QED
  BY <1>1, <1>2, <1>3 DEF RunningStep

LEMMA RunningExactly ==
  ASSUME ExecInv, DispatchTypeOK, DeliveryInv, RunningStep, UNCHANGED executorVars
  PROVE  DeliveryInv'
<1>1. log' = log /\ sub' = sub
  BY DEF executorVars
<1>2. DispatchedExactly'
  BY <1>1, CallsKept, SameExactly
<1>3. \A s \in Subs : StreamOK(s)'
  BY <1>1 DEF DeliveryInv, StreamOK, Matching, GroupHandlers, Topic, Group
<1> QED
  BY <1>2, <1>3 DEF DeliveryInv

LEMMA CrashExactly ==
  ASSUME ExecInv, DispatchTypeOK, DeliveryInv, ProcessCrash
  PROVE  DeliveryInv'
<1>1. log' = log /\ Crash
  BY DEF ProcessCrash
<1>2. ASSUME NEW s \in Subs
      PROVE  /\ StreamOK(s)'
             /\ \A h \in GroupHandlers(s), n \in Seqs :
                  Handed(sub'[s], h, n) <=> Handed(sub[s], h, n)
  <2>1. sub[s] \in SubStates /\ StreamOK(s)
    BY SubTypes DEF DeliveryInv
  <2>2. CASE sub[s].phase \in {"lookup", "streaming"}
    <3> DEFINE r == [sub[s] EXCEPT !.phase = "ended"]
    <3>1. sub'[s] = r
      BY <2>2 DEF ProcessCrash
    <3>2. /\ r.phase = "ended" /\ r.start = sub[s].start /\ r.pos = sub[s].pos
          /\ r.lost = sub[s].lost /\ r.origin = sub[s].origin /\ r.todo = sub[s].todo
      BY <2>1 DEF SubStates
    <3> HIDE DEF r
    <3> QED
      BY <2>1, <3>1, <3>2 DEF Handed, StreamOK
  <2>3. CASE sub[s].phase \notin {"lookup", "streaming"}
    <3>1. sub'[s] = sub[s]
      BY <2>3 DEF ProcessCrash
    <3> QED
      BY <1>1, <2>1, <3>1 DEF StreamOK, Matching, GroupHandlers, Topic, Group
  <2> QED
    BY <2>2, <2>3
<1>3. DispatchedExactly'
  BY <1>1, <1>2, CallsKept, SameExactly
<1> QED
  BY <1>2, <1>3 DEF DeliveryInv

\* An event appended to a log changes nothing of those before it.
LEMMA PublishKeeps ==
  ASSUME ExecInv, NEW topic \in Topics, NEW event \in Events, Publish(topic, event),
         NEW u \in Topics, NEW n \in 1 .. Len(log[u])
  PROVE  n \in 1 .. Len(log'[u]) /\ log'[u][n] = log[u][n]
<1>1. log[topic] \in Seq(Events) /\ log[u] \in Seq(Events)
  BY DEF ExecInv, LogOK
<1>2. log'[u] = IF u = topic THEN Append(log[topic], event) ELSE log[u]
  BY DEF Publish, ExecInv, LogOK
<1>3. Len(log[u]) \in Nat
  BY <1>1, LenProperties
<1>4. CASE u = topic
  BY <1>1, <1>2, <1>3, <1>4, AppendProperties
<1> QED
  BY <1>2, <1>3, <1>4

LEMMA PublishExactly ==
  ASSUME ExecInv, DeliveryInv, NEW topic \in Topics, NEW event \in Events,
         Publish(topic, event)
  PROVE  DeliveryInv'
<1>1. sub' = sub /\ status' = status /\ call' = call
  BY DEF Publish, dispatchVars
<1>2. ASSUME NEW e \in Executors, NEW h \in Handlers, NEW n \in Seqs
      PROVE  /\ status'[<<e, h, n>>] # "none" <=> Carries(h, n)' /\ HandedOver(e, h, n)'
             /\ status'[<<e, h, n>>] # "none" =>
                  call'[<<e, h, n>>] = CallFor(e, h, n)'
  <2> DEFINE s == SubOf(e, h)
             u == Descriptor[h].topic_name
  <2>1. s \in Subs /\ Topic(s) = u /\ u \in Topics
    BY SubOfFacts, HandlerFacts
  <2>2. sub[s] \in SubStates /\ SubOK(s) /\ Len(log[u]) \in 0 .. MaxSeq
    BY <2>1, SubTypes
  <2>3. HandedOver(e, h, n)' <=> HandedOver(e, h, n)
    BY <1>1 DEF HandedOver, SubOf
  <2>4. /\ status[<<e, h, n>>] # "none" <=> Carries(h, n) /\ HandedOver(e, h, n)
        /\ status[<<e, h, n>>] # "none" => call[<<e, h, n>>] = CallFor(e, h, n)
    BY ExactlyFacts DEF DeliveryInv
  <2>5. CASE n \in 1 .. Len(log[u])
    <3>1. n \in 1 .. Len(log'[u]) /\ log'[u][n] = log[u][n]
      BY <2>1, <2>5, PublishKeeps
    <3>2. EventAt(h, n)' = EventAt(h, n)
      BY <3>1 DEF EventAt
    <3>3. Carries(h, n)' <=> Carries(h, n)
      BY <2>5, <3>1, <3>2 DEF Carries
    <3>4. CallFor(e, h, n)' = CallFor(e, h, n)
      BY <3>2 DEF CallFor
    <3> QED
      BY <1>1, <2>3, <2>4, <3>3, <3>4
  <2>6. CASE n \notin 1 .. Len(log[u])
    <3>1. ~HandedOver(e, h, n)
      BY <2>1, <2>2, <2>6, SeqAssumption DEF HandedOver, SubOK, SubStates, Seqs
    <3> QED
      BY <1>1, <2>3, <2>4, <3>1
  <2> QED
    BY <2>5, <2>6
<1>3. DispatchedExactly'
  BY <1>2 DEF DispatchedExactly, CallFor
<1>4. ASSUME NEW s \in Subs
      PROVE  StreamOK(s)'
  <2>1. /\ sub[s] \in SubStates /\ SubOK(s) /\ StreamOK(s) /\ Topic(s) \in Topics
        /\ Len(log[Topic(s)]) \in 0 .. MaxSeq
    BY SubTypes DEF DeliveryInv
  <2>2. CASE sub[s].phase = "streaming" /\ sub[s].todo # {}
    <3>1. sub[s].pos \in 1 .. Len(log[Topic(s)])
      BY <2>1, <2>2, SeqAssumption DEF SubOK, SubStates
    <3>2. log'[Topic(s)][sub[s].pos] = log[Topic(s)][sub[s].pos]
      BY <2>1, <3>1, PublishKeeps
    <3>3. Matching(s, sub[s].pos)' = Matching(s, sub[s].pos)
      BY <1>1, <3>2 DEF Matching, GroupHandlers, Topic, Group
    <3> QED
      BY <1>1, <2>1, <3>3 DEF StreamOK
  <2>3. CASE ~(sub[s].phase = "streaming" /\ sub[s].todo # {})
    BY <1>1, <2>1, <2>3 DEF StreamOK
  <2> QED
    BY <2>2, <2>3
<1> QED
  BY <1>3, <1>4 DEF DeliveryInv

LEMMA DeliveryInvInit == Init => DeliveryInv
<1> SUFFICES ASSUME Init PROVE DeliveryInv
  OBVIOUS
<1>1. \A s \in Subs : sub[s] = Unspawned
  BY DEF Init
<1>2. \A s \in Subs : StreamOK(s)
  BY <1>1 DEF StreamOK, Unspawned
<1>3. ASSUME NEW e \in Executors, NEW h \in Handlers, NEW n \in Seqs
      PROVE  status[<<e, h, n>>] = "none" /\ ~HandedOver(e, h, n)
  BY <1>1, SubOfFacts, CallsAssumption, SeqAssumption
  DEF Init, DispatchInit, HandedOver, Unspawned, Seqs
<1> QED
  BY <1>2, <1>3 DEF DeliveryInv, DispatchedExactly

LEMMA DeliveryInvStep ==
  ExecInv /\ DispatchInv /\ DeliveryInv /\ [Next]_vars => DeliveryInv'
<1> SUFFICES ASSUME ExecInv, DispatchInv, DeliveryInv, [Next]_vars PROVE DeliveryInv'
  OBVIOUS
<1>t. DispatchTypeOK
  BY DEF DispatchInv
<1>1. CASE \E topic \in Topics, event \in Events : Publish(topic, event)
  BY <1>1, PublishExactly
<1>2. CASE \E e \in Executors : StartExecutor(e)
  BY <1>2, StartExactly
<1>3. CASE (\E e \in Executors : Abort(e)) \/ UNCHANGED vars
  <2>1. UNCHANGED <<sub, log, status, call>>
    BY <1>3 DEF Abort, vars, executorVars, dispatchVars
  <2>2. DispatchedExactly'
    BY <2>1, SameExactly
  <2>3. \A s \in Subs : StreamOK(s)'
    BY <2>1 DEF DeliveryInv, StreamOK, Matching, GroupHandlers, Topic, Group
  <2> QED
    BY <2>2, <2>3 DEF DeliveryInv
<1>4. ASSUME NEW s \in Subs, SubStep(s) \/ SubFault(s) \/ Cancel(s)
      PROVE  DeliveryInv'
  BY <1>t, <1>4, StayExactly, AdvanceExactly, SpawnExactly DEF SubStep, SubFault
<1>5. CASE RunningStep /\ UNCHANGED executorVars
  BY <1>t, <1>5, RunningExactly
<1>6. CASE ProcessCrash
  BY <1>t, <1>6, CrashExactly
<1> QED
  BY <1>1, <1>2, <1>3, <1>4, <1>5, <1>6 DEF Next

LEMMA DeliveryInvariant == Spec => [](ExecInv /\ DispatchInv /\ DeliveryInv)
<1>1. Init => DeliveryInv
  BY DeliveryInvInit
<1>2. ExecInv /\ DispatchInv /\ DeliveryInv /\ [Next]_vars => DeliveryInv'
  BY DeliveryInvStep
<1> QED
  BY <1>1, <1>2, ExecInvariant, PTL DEF Spec

\* No executor ever makes a call the registry does not ask for, makes one
\* twice, or passes a handler over, however its streams fail, are aborted or
\* die: for all handlers, topics and keys and any number of executors.
THEOREM CallsAreExact == Spec => []DispatchedExactly
BY DeliveryInvariant, PTL DEF DeliveryInv

----------------------------------------------------------------------------
(* Where a stream resumes.                                                 *)

\* The key under which stream s looks up the checkpoint of its handler h.
LookupKey(s, h) == <<Descriptor[h].subscription_name, Topic(s), KeyFilter(s)>>

LEMMA LookupKeyType ==
  ASSUME NEW s \in Subs, NEW h \in Handlers, Descriptor[h].subscription_name # None
  PROVE  LookupKey(s, h) \in CheckpointKeys
BY SubFacts, HandlerFacts DEF LookupKey, CheckpointKeys, OptSubNames

\* Handlers of the group the lookups are done with.
LookedUp(s) == DurableHandlers(s) \ sub[s].todo

\* The minimum so far is behind the checkpoint of every handler looked up, and
\* a resumed stream started behind all of them.
WithinOK(s) ==
  /\ sub[s].phase = "lookup" /\ sub[s].all_have_cp =>
       \A h \in LookedUp(s) :
         /\ Descriptor[h].subscription_name # None
         /\ sub[s].min_cp # NoCheckpoint /\ sub[s].min_cp <= stored[LookupKey(s, h)]
  /\ sub[s].origin = "checkpoint" =>
       \A h \in DurableHandlers(s) :
         /\ Descriptor[h].subscription_name # None
         /\ sub[s].start <= stored[LookupKey(s, h)]

WithinInv == MergeModes = {"max"} => \A s \in Subs : WithinOK(s)

\* With a coalescer that keeps the larger one, no checkpoint moves back.
LEMMA CheckpointsGrow ==
  ASSUME DispatchTypeOK, [DispatchNext]_dispatchVars, MergeModes = {"max"},
         NEW k \in CheckpointKeys
  PROVE  stored[k] \in Int /\ stored'[k] \in Int /\ stored[k] <= stored'[k]
<1>1. stored[k] \in Int /\ pending[k] \in Int
  BY SeqAssumption DEF DispatchTypeOK, Checkpoints, NoCheckpoint, Seqs
<1>2. CASE stored' = stored
  BY <1>1, <1>2
<1>3. ASSUME NEW i \in CheckpointKeys, FlushCheckpoint(i)
      PROVE  stored'[k] \in Int /\ stored[k] <= stored'[k]
  <2>1. stored' = [stored EXCEPT ![i] = Merged("max", stored[i], pending[i])]
    BY <1>3 DEF FlushCheckpoint
  <2>2. Merged("max", stored[k], pending[k]) \in Int
        /\ stored[k] <= Merged("max", stored[k], pending[k])
    BY <1>1 DEF Merged
  <2> QED
    BY <1>1, <2>1, <2>2 DEF DispatchTypeOK, Checkpoints
<1>4. CASE UNCHANGED dispatchVars
  BY <1>2, <1>4 DEF dispatchVars
<1>5. CASE \E t \in Tasks, c \in Calls : Spawn(t, c)
  BY <1>2, <1>5 DEF Spawn
<1>6. CASE Crash
  BY <1>2, <1>6 DEF Crash
<1>7. ASSUME NEW t \in Tasks, TaskStep(t)
      PROVE  stored' = stored
  BY <1>7 DEF TaskStep, HandlerReturns, AcquirePermit, RejectShape, RejectBuild,
     StartHandler, HandlerErr, HandlerPanic, HandlerOk, HandlerDone, RecordCheckpoint,
     CheckpointErr
<1> QED
  BY <1>1, <1>2, <1>3, <1>4, <1>5, <1>6, <1>7 DEF DispatchNext, RunningStep

\* A stream that stays as it is, or whose start is settled, stays within.
LEMMA WithinKept ==
  ASSUME ExecInv, DispatchTypeOK, [DispatchNext]_dispatchVars, MergeModes = {"max"},
         NEW s \in Subs, WithinOK(s),
         \/ sub'[s] = sub[s]
         \/ /\ sub'[s].phase # "lookup"
            /\ sub'[s].start = sub[s].start /\ sub'[s].origin = sub[s].origin
  PROVE  WithinOK(s)'
<1>1. sub[s] \in SubStates
  BY DEF ExecInv
<1>2. ASSUME NEW h \in DurableHandlers(s), Descriptor[h].subscription_name # None,
             NEW n \in Int, n <= stored[LookupKey(s, h)]
      PROVE  n <= stored'[LookupKey(s, h)]
  BY <1>2, LookupKeyType, CheckpointsGrow, SubFacts
<1>3. sub[s].min_cp \in Int /\ sub[s].start \in Int
  BY <1>1, SeqAssumption DEF SubStates, NoCheckpoint, Seqs
<1>4. /\ \A h : LookupKey(s, h)' = LookupKey(s, h)
      /\ DurableHandlers(s)' = DurableHandlers(s)
  BY DEF LookupKey, Topic, KeyFilter, Group, DurableHandlers, GroupHandlers
<1>5. \A h \in LookedUp(s) : h \in DurableHandlers(s)
  BY DEF LookedUp
<1>6. CASE sub'[s] = sub[s]
  BY <1>2, <1>3, <1>4, <1>5, <1>6 DEF WithinOK, LookedUp
<1>7. CASE /\ sub'[s].phase # "lookup"
           /\ sub'[s].start = sub[s].start /\ sub'[s].origin = sub[s].origin
  BY <1>2, <1>3, <1>4, <1>5, <1>7 DEF WithinOK
<1> QED
  BY <1>6, <1>7

\* What one turn of the lookup loop leaves in the stream's record.
LEMMA LookupEffect ==
  ASSUME ExecInv, DispatchTypeOK, NEW s \in Subs, NEW g \in Handlers, LookupCheckpoint(s, g)
  PROVE  \E seq \in {FoundCheckpoint(s, g), NoCheckpoint} :
           /\ seq \in {NoCheckpoint} \cup Seqs
           /\ sub'[s].todo = sub[s].todo \ {g}
           /\ sub'[s].all_have_cp = (sub[s].all_have_cp /\ seq # NoCheckpoint)
           /\ sub'[s].min_cp = IF seq = NoCheckpoint THEN sub[s].min_cp
                               ELSE IF sub[s].min_cp = NoCheckpoint \/ seq < sub[s].min_cp
                                    THEN seq ELSE sub[s].min_cp
           /\ sub'[s].phase = "lookup" /\ sub[s].phase = "lookup"
           /\ sub'[s].origin = sub[s].origin
           /\ \A u \in Subs \ {s} : sub'[u] = sub[u]
           /\ UNCHANGED <<dispatchVars, log>>
<1>1. PICK seq \in {FoundCheckpoint(s, g), NoCheckpoint} :
        sub' = [sub EXCEPT
          ![s].todo = @ \ {g},
          ![s].all_have_cp = @ /\ seq # NoCheckpoint,
          ![s].min_cp = IF seq = NoCheckpoint THEN @
                        ELSE IF @ = NoCheckpoint \/ seq < @ THEN seq ELSE @]
  BY DEF LookupCheckpoint
<1>2. sub[s] \in SubStates /\ sub[s].phase = "lookup" /\ UNCHANGED <<dispatchVars, log>>
  BY DEF ExecInv, LookupCheckpoint, Polled
<1>3. FoundCheckpoint(s, g) \in {NoCheckpoint} \cup Seqs
  <2>1. CASE Descriptor[g].subscription_name = None
    BY <2>1 DEF FoundCheckpoint
  <2>2. CASE Descriptor[g].subscription_name # None
    <3>1. LookupKey(s, g) \in CheckpointKeys
      BY <2>2, LookupKeyType
    <3> QED
      BY <2>2, <3>1 DEF FoundCheckpoint, LookupKey, DispatchTypeOK, Checkpoints
  <2> QED
    BY <2>1, <2>2
<1> DEFINE r == [ sub[s] EXCEPT
             !.todo = @ \ {g},
             !.all_have_cp = @ /\ seq # NoCheckpoint,
             !.min_cp = IF seq = NoCheckpoint THEN @
                        ELSE IF @ = NoCheckpoint \/ seq < @ THEN seq ELSE @ ]
<1>4. sub' = [sub EXCEPT ![s] = r]
  BY <1>1 DEF ExecInv
<1>5. sub'[s] = r /\ \A u \in Subs \ {s} : sub'[u] = sub[u]
  BY <1>4 DEF ExecInv
<1>6. /\ r.todo = sub[s].todo \ {g}
      /\ r.all_have_cp = (sub[s].all_have_cp /\ seq # NoCheckpoint)
      /\ r.min_cp = IF seq = NoCheckpoint THEN sub[s].min_cp
                    ELSE IF sub[s].min_cp = NoCheckpoint \/ seq < sub[s].min_cp
                         THEN seq ELSE sub[s].min_cp
      /\ r.phase = "lookup" /\ r.origin = sub[s].origin
  BY <1>2 DEF SubStates
<1> HIDE DEF r
<1> QED
  BY <1>2, <1>3, <1>5, <1>6

\* What opening the stream leaves in it.
LEMMA OpenEffect ==
  ASSUME ExecInv, NEW s \in Subs, OpenStream(s)
  PROVE  /\ sub[s].phase = "lookup" /\ sub[s].todo = {} /\ sub'[s].phase = "streaming"
         /\ \/ /\ Resumes(s) /\ sub'[s].origin = "checkpoint"
               /\ sub'[s].start = sub[s].min_cp
            \/ /\ ~Resumes(s) /\ sub'[s].origin = "now"
               /\ sub'[s].start = Len(log[Topic(s)])
         /\ \A u \in Subs \ {s} : sub'[u] = sub[u]
         /\ UNCHANGED <<dispatchVars, log>>
<1>1. PICK after : /\ sub' = [sub EXCEPT ![s] = Subscribed(s, after)]
                   /\ after = IF Resumes(s) THEN sub[s].min_cp ELSE Len(log[Topic(s)])
  BY DEF OpenStream
<1>2. sub'[s] = Subscribed(s, after) /\ \A u \in Subs \ {s} : sub'[u] = sub[u]
  BY <1>1 DEF ExecInv
<1>3. /\ Subscribed(s, after).phase = "streaming" /\ Subscribed(s, after).start = after
      /\ Subscribed(s, after).origin = IF Resumes(s) THEN "checkpoint" ELSE "now"
  BY DEF Subscribed, Unspawned
<1> QED
  BY <1>1, <1>2, <1>3 DEF OpenStream, Polled

LEMMA WithinLookup ==
  ASSUME ExecInv, DispatchTypeOK, DeliveryInv, MergeModes = {"max"},
         NEW s \in Subs, WithinOK(s), NEW g \in Handlers, LookupCheckpoint(s, g)
  PROVE  WithinOK(s)'
<1>1. PICK seq \in {FoundCheckpoint(s, g), NoCheckpoint} :
           /\ seq \in {NoCheckpoint} \cup Seqs
           /\ sub'[s].todo = sub[s].todo \ {g}
           /\ sub'[s].all_have_cp = (sub[s].all_have_cp /\ seq # NoCheckpoint)
           /\ sub'[s].min_cp = IF seq = NoCheckpoint THEN sub[s].min_cp
                               ELSE IF sub[s].min_cp = NoCheckpoint \/ seq < sub[s].min_cp
                                    THEN seq ELSE sub[s].min_cp
           /\ sub'[s].phase = "lookup" /\ sub[s].phase = "lookup"
           /\ sub'[s].origin = sub[s].origin
           /\ UNCHANGED dispatchVars
  BY LookupEffect
<1>2. sub'[s].origin # "checkpoint"
  BY <1>1 DEF DeliveryInv, StreamOK
<1>3. sub[s].min_cp \in {NoCheckpoint} \cup Seqs /\ NoCheckpoint = 0
      /\ \A n \in Seqs : n \in Int
  BY SeqAssumption DEF ExecInv, SubStates, NoCheckpoint, Seqs
<1>4. ASSUME NEW h \in LookedUp(s)', sub'[s].all_have_cp
      PROVE  /\ Descriptor[h].subscription_name # None
             /\ sub'[s].min_cp # NoCheckpoint
             /\ sub'[s].min_cp <= stored[LookupKey(s, h)]
  <2>1. sub[s].all_have_cp /\ seq # NoCheckpoint /\ seq = FoundCheckpoint(s, g)
    BY <1>1, <1>4
  <2>2. Descriptor[g].subscription_name # None /\ seq = stored[LookupKey(s, g)]
    BY <2>1 DEF FoundCheckpoint, LookupKey
  <2>3. h \in DurableHandlers(s) /\ h \notin sub'[s].todo
    BY <1>4 DEF LookedUp, DurableHandlers, GroupHandlers, Group
  <2>4. sub'[s].min_cp \in Int /\ sub'[s].min_cp # 0 /\ sub'[s].min_cp <= seq
        /\ (sub[s].min_cp # NoCheckpoint => sub'[s].min_cp <= sub[s].min_cp)
    BY <1>1, <1>3, <2>1
  <2>5. CASE h = g
    BY <1>3, <2>2, <2>4, <2>5
  <2>6. CASE h # g
    <3>1. h \in LookedUp(s)
      BY <1>1, <2>3, <2>6 DEF LookedUp
    <3>2. /\ Descriptor[h].subscription_name # None
          /\ sub[s].min_cp # NoCheckpoint /\ sub[s].min_cp <= stored[LookupKey(s, h)]
      BY <1>1, <2>1, <3>1 DEF WithinOK
    <3>3. stored[LookupKey(s, h)] \in Int
      BY <2>3, <3>2, LookupKeyType, SubFacts, SeqAssumption
      DEF DispatchTypeOK, Checkpoints, NoCheckpoint, Seqs
    <3> QED
      BY <1>3, <2>4, <3>2, <3>3
  <2> QED
    BY <2>5, <2>6
<1>5. stored' = stored /\ \A h : LookupKey(s, h)' = LookupKey(s, h)
  BY <1>1 DEF dispatchVars, LookupKey, Topic, KeyFilter, Group
<1> QED
  BY <1>2, <1>4, <1>5 DEF WithinOK

LEMMA WithinOpen ==
  ASSUME ExecInv, MergeModes = {"max"}, NEW s \in Subs, WithinOK(s), OpenStream(s)
  PROVE  WithinOK(s)'
<1>1. /\ sub[s].phase = "lookup" /\ sub[s].todo = {} /\ sub'[s].phase = "streaming"
      /\ sub'[s].origin = "checkpoint" => Resumes(s) /\ sub'[s].start = sub[s].min_cp
      /\ UNCHANGED dispatchVars
  BY OpenEffect
<1>2. LookedUp(s) = DurableHandlers(s)
  BY <1>1 DEF LookedUp
<1>3. stored' = stored /\ \A h : LookupKey(s, h)' = LookupKey(s, h)
      /\ DurableHandlers(s)' = DurableHandlers(s)
  BY <1>1 DEF dispatchVars, LookupKey, Topic, KeyFilter, Group, DurableHandlers, GroupHandlers
<1>4. sub'[s].origin = "checkpoint" =>
        \A h \in DurableHandlers(s) :
          /\ Descriptor[h].subscription_name # None
          /\ sub'[s].start <= stored[LookupKey(s, h)]
  BY <1>1, <1>2 DEF WithinOK, Resumes
<1> QED
  BY <1>1, <1>3, <1>4 DEF WithinOK

\* Stream s goes on, or ends, from where it started.
GoesOn(s) ==
  /\ sub[s].phase \in {"lookup", "streaming"}
  /\ sub'[s].phase # "lookup"
  /\ sub'[s].start = sub[s].start /\ sub'[s].origin = sub[s].origin
  /\ sub[s].lost \subseteq sub'[s].lost

\* Everything that can happen to a stream.
LEMMA StreamSteps ==
  ASSUME ExecInv, [Next]_vars, NEW s \in Subs
  PROVE  \/ sub'[s] = sub[s]
         \/ GoesOn(s)
         \/ sub'[s] = Started(s) /\ sub[s].phase = "unspawned"
         \/ \E g \in Handlers : LookupCheckpoint(s, g)
         \/ OpenStream(s)
<1>1. sub \in [Subs -> SubStates] /\ sub[s] \in SubStates /\ SubOK(s) /\ s[1] \in Executors
  BY SubFacts DEF ExecInv
<1>2. CASE \/ \E topic \in Topics, event \in Events : Publish(topic, event)
           \/ \E e \in Executors : Abort(e)
           \/ RunningStep /\ UNCHANGED executorVars
           \/ UNCHANGED vars
  BY <1>2 DEF Publish, Abort, executorVars, vars
<1>3. ASSUME NEW e \in Executors, StartExecutor(e)
      PROVE  \/ sub'[s] = sub[s]
             \/ sub'[s] = Started(s) /\ sub[s].phase = "unspawned"
  BY <1>1, <1>3 DEF StartExecutor, SubOK
<1>4. CASE ProcessCrash
  <2>1. CASE sub[s].phase \in {"lookup", "streaming"}
    <3>1. sub'[s] = [sub[s] EXCEPT !.phase = "ended"]
      BY <1>4, <2>1 DEF ProcessCrash
    <3> QED
      BY <1>1, <2>1, <3>1 DEF GoesOn, SubStates
  <2>2. CASE sub[s].phase \notin {"lookup", "streaming"}
    BY <1>4, <2>2 DEF ProcessCrash
  <2> QED
    BY <2>1, <2>2
<1>5. ASSUME NEW u \in Subs, SubStep(u) \/ SubFault(u) \/ Cancel(u), u # s
      PROVE  sub'[s] = sub[s]
  BY <1>1, <1>5 DEF SubStep, SubFault, LookupCheckpoint, OpenStream, Receive, SpawnDispatch,
     StreamError, StreamEnd, Cancel
<1>6. ASSUME NEW n \in Seqs, Receive(s, n)
      PROVE  GoesOn(s)
  <2>1. sub' = [sub EXCEPT ![s] = [sub[s] EXCEPT !.pos = n, !.todo = Matching(s, n)]]
    BY <1>1, <1>6 DEF Receive
  <2>2. sub'[s] = [sub[s] EXCEPT !.pos = n, !.todo = Matching(s, n)]
    BY <1>1, <2>1
  <2> QED
    BY <1>1, <1>6, <2>2 DEF Receive, Polled, GoesOn, SubStates
<1>7. ASSUME NEW n \in Seqs, StreamError(s, n)
      PROVE  GoesOn(s)
  <2>1. sub' = [sub EXCEPT ![s] = [sub[s] EXCEPT !.pos = n, !.lost = @ \cup {n}]]
    BY <1>1, <1>7 DEF StreamError
  <2>2. sub'[s] = [sub[s] EXCEPT !.pos = n, !.lost = @ \cup {n}]
    BY <1>1, <2>1
  <2> QED
    BY <1>1, <1>7, <2>2 DEF StreamError, Polled, GoesOn, SubStates
<1>8. ASSUME NEW h \in Handlers, SpawnDispatch(s, h)
      PROVE  GoesOn(s)
  <2>1. sub' = [sub EXCEPT ![s] = [sub[s] EXCEPT !.todo = @ \ {h}]]
    BY <1>1, <1>8 DEF SpawnDispatch
  <2>2. sub'[s] = [sub[s] EXCEPT !.todo = @ \ {h}]
    BY <1>1, <2>1
  <2> QED
    BY <1>1, <1>8, <2>2 DEF SpawnDispatch, Polled, GoesOn, SubStates
<1>9. ASSUME StreamEnd(s) \/ Cancel(s)
      PROVE  GoesOn(s)
  <2>1. sub' = [sub EXCEPT ![s] = [sub[s] EXCEPT !.phase = "ended"]]
    BY <1>1, <1>9 DEF StreamEnd, Cancel
  <2>2. sub'[s] = [sub[s] EXCEPT !.phase = "ended"]
    BY <1>1, <2>1
  <2>3. sub[s].phase \in {"lookup", "streaming"}
    BY <1>9 DEF StreamEnd, Cancel, Polled
  <2> QED
    BY <1>1, <2>2, <2>3 DEF GoesOn, SubStates
<1>10. ASSUME SubStep(s) \/ SubFault(s) \/ Cancel(s)
       PROVE  GoesOn(s) \/ OpenStream(s) \/ \E g \in Handlers : LookupCheckpoint(s, g)
  <2>1. CASE SubStep(s)
    BY <1>6, <1>8, <2>1 DEF SubStep
  <2>2. CASE SubFault(s)
    BY <1>7, <1>9, <2>2 DEF SubFault
  <2>3. CASE Cancel(s)
    BY <1>9, <2>3
  <2> QED
    BY <1>10, <2>1, <2>2, <2>3
<1>11. CASE \E u \in Subs : SubStep(u) \/ SubFault(u) \/ Cancel(u)
  <2>1. PICK u \in Subs : SubStep(u) \/ SubFault(u) \/ Cancel(u)
    BY <1>11
  <2>2. CASE u = s
    BY <1>10, <2>1, <2>2
  <2>3. CASE u # s
    BY <1>5, <2>1, <2>3
  <2> QED
    BY <2>2, <2>3
<1>12. CASE \E e \in Executors : StartExecutor(e)
  BY <1>3, <1>12
<1> QED
  BY <1>2, <1>4, <1>11, <1>12 DEF Next

\* A stream just spawned has nothing looked up and came from nowhere.
LEMMA StartedFacts ==
  ASSUME NEW s \in Subs
  PROVE  /\ Started(s).phase = "lookup" /\ Started(s).origin = "none"
         /\ Started(s).todo = DurableHandlers(s)
         /\ Started(s).start = Len(log[Topic(s)])
BY DEF Started, Unspawned

LEMMA WithinStep ==
  ExecInv /\ DispatchInv /\ DeliveryInv /\ WithinInv /\ [Next]_vars => WithinInv'
<1> SUFFICES ASSUME ExecInv, DispatchInv, DeliveryInv, WithinInv, [Next]_vars,
                    MergeModes = {"max"}, NEW s \in Subs
             PROVE  WithinOK(s)'
  BY DEF WithinInv
<1>1. WithinOK(s) /\ DispatchTypeOK /\ [DispatchNext]_dispatchVars
  BY StepSimulation DEF WithinInv, DispatchInv
<1>2. CASE sub'[s] = sub[s] \/ GoesOn(s)
  BY <1>1, <1>2, WithinKept DEF GoesOn
<1>3. CASE sub'[s] = Started(s)
  <2>1. LookedUp(s)' = {} /\ sub'[s].origin # "checkpoint"
    BY <1>3, StartedFacts DEF LookedUp, DurableHandlers, GroupHandlers, Group
  <2> QED
    BY <2>1 DEF WithinOK
<1> QED
  BY <1>1, <1>2, <1>3, StreamSteps, WithinLookup, WithinOpen

\* With a coalescer that never moves a checkpoint back, a resumed stream
\* starts behind the checkpoint of every durable handler of its group, however
\* the lookups interleave with other executors, and all of them are named.
THEOREM ResumedWithin == Spec => []ResumeWithinEveryCheckpoint
<1>1. Init => WithinInv
  <2>1. Init => \A s \in Subs : sub[s] = Unspawned
    BY DEF Init
  <2>2. Unspawned.phase = "unspawned" /\ Unspawned.origin = "none"
    BY DEF Unspawned
  <2> QED
    BY <2>1, <2>2 DEF WithinInv, WithinOK
<1>2. WithinInv => ResumeWithinEveryCheckpoint
  BY DEF WithinInv, WithinOK, ResumeWithinEveryCheckpoint, LookupKey
<1> QED
  BY <1>1, <1>2, WithinStep, DeliveryInvariant, PTL DEF Spec

----------------------------------------------------------------------------
(* What a resumed stream jumps over.                                       *)

Reached(h, n) == \E g \in SameSubscription(h) : EverSpawned(g, n) \/ GivenUp(g, n)

CoveredUpTo(h, p) == \A n \in Seqs : n <= p /\ Carries(h, n) => Reached(h, n)

\* Everything up to the minimum found so far, and up to the start of a resumed
\* stream, has been reached for each handler.
CoverOK(s) ==
  /\ sub[s].phase = "lookup" /\ sub[s].all_have_cp =>
       \A h \in LookedUp(s) :
         sub[s].min_cp # NoCheckpoint /\ CoveredUpTo(h, sub[s].min_cp)
  /\ sub[s].origin = "checkpoint" =>
       \A h \in DurableHandlers(s) : CoveredUpTo(h, sub[s].start)

CoverInv == \A s \in Subs : CoverOK(s)

\* A log only grows at its end.
LEMMA LogKeeps ==
  ASSUME ExecInv, [Next]_vars, NEW u \in Topics, NEW n \in 1 .. Len(log[u])
  PROVE  n \in 1 .. Len(log'[u]) /\ log'[u][n] = log[u][n]
<1>1. CASE \E topic \in Topics, event \in Events : Publish(topic, event)
  BY <1>1, PublishKeeps
<1>2. CASE log' = log
  BY <1>2
<1>3. ASSUME NEW s \in Subs, SubStep(s) \/ SubFault(s) \/ Cancel(s)
      PROVE  log' = log
  BY <1>3 DEF SubStep, SubFault, LookupCheckpoint, OpenStream, Receive, SpawnDispatch,
     StreamError, StreamEnd, Cancel
<1>4. CASE (\E e \in Executors : StartExecutor(e) \/ Abort(e)) \/ ProcessCrash
  BY <1>2, <1>4 DEF StartExecutor, Abort, ProcessCrash
<1>5. CASE (RunningStep /\ UNCHANGED executorVars) \/ UNCHANGED vars
  BY <1>2, <1>5 DEF executorVars, vars
<1> QED
  BY <1>1, <1>2, <1>3, <1>4, <1>5 DEF Next

\* A call that was made is never unmade.
LEMMA SpawnedStays ==
  ASSUME DispatchTypeOK, [DispatchNext]_dispatchVars, NEW t \in Tasks, status[t] # "none"
  PROVE  status'[t] # "none"
<1>1. CASE \E u \in Tasks, c \in Calls : Spawn(u, c)
  BY <1>1 DEF Spawn, DispatchTypeOK
<1>2. CASE RunningStep \/ Crash
  BY <1>2, CallsKept
<1>3. CASE UNCHANGED dispatchVars
  BY <1>3 DEF dispatchVars
<1> QED
  BY <1>1, <1>2, <1>3 DEF DispatchNext

LEMMA ReachedStays ==
  ASSUME ExecInv, DispatchInv, DeliveryInv, [Next]_vars,
         NEW h \in Handlers, NEW n \in Seqs, Reached(h, n)
  PROVE  Reached(h, n)'
<1>1. PICK g \in SameSubscription(h) : EverSpawned(g, n) \/ GivenUp(g, n)
  BY DEF Reached
<1>2. g \in Handlers /\ SameSubscription(h)' = SameSubscription(h)
  BY DEF SameSubscription
<1>3. CASE EverSpawned(g, n)
  <2>1. PICK e \in Executors : status[<<e, g, n>>] # "none"
    BY <1>3 DEF EverSpawned
  <2>2. <<e, g, n>> \in Tasks
    BY <1>2, CallsAssumption
  <2>3. status'[<<e, g, n>>] # "none"
    BY <2>1, <2>2, StepSimulation, SpawnedStays DEF DispatchInv
  <2> QED
    BY <1>1, <1>2, <2>3 DEF Reached, EverSpawned
<1>4. CASE GivenUp(g, n)
  <2>1. PICK e \in Executors :
          \/ n \in sub[SubOf(e, g)].lost
          \/ sub[SubOf(e, g)].origin = "now" /\ n <= sub[SubOf(e, g)].start
    BY <1>4 DEF GivenUp
  <2> DEFINE s == SubOf(e, g)
  <2>2. s \in Subs /\ StreamOK(s)
    BY <1>2, SubOfFacts DEF DeliveryInv
  <2>3. sub[s].phase \notin {"unspawned", "lookup"}
    BY <2>1, <2>2 DEF StreamOK
  <2>4. sub'[s] = sub[s] \/ GoesOn(s)
    BY <2>2, <2>3, StreamSteps, LookupEffect, OpenEffect DEF DispatchInv
  <2>5. \/ n \in sub'[s].lost
        \/ sub'[s].origin = "now" /\ n <= sub'[s].start
    BY <2>1, <2>4 DEF GoesOn
  <2>6. GivenUp(g, n)'
    BY <2>5 DEF GivenUp, SubOf
  <2> QED
    BY <1>1, <1>2, <2>6 DEF Reached
<1> QED
  BY <1>1, <1>3, <1>4

LEMMA CoveredStays ==
  ASSUME ExecInv, DispatchInv, DeliveryInv, [Next]_vars, NEW h \in Handlers,
         NEW p \in Int, p <= Len(log[Descriptor[h].topic_name]), CoveredUpTo(h, p)
  PROVE  CoveredUpTo(h, p)'
<1> SUFFICES ASSUME NEW n \in Seqs, n <= p, Carries(h, n)'
             PROVE  Reached(h, n)'
  BY DEF CoveredUpTo
<1> DEFINE u == Descriptor[h].topic_name
<1>1. u \in Topics /\ Len(log[u]) \in Nat
  BY HandlerFacts, LenProperties DEF ExecInv, LogOK
<1>2. n \in 1 .. Len(log[u])
  BY <1>1, SeqAssumption DEF Seqs
<1>3. log'[u][n] = log[u][n]
  BY <1>1, <1>2, LogKeeps
<1>4. EventAt(h, n)' = EventAt(h, n)
  BY <1>3 DEF EventAt
<1>5. Carries(h, n)
  BY <1>2, <1>4 DEF Carries
<1> QED
  BY <1>5, ReachedStays DEF CoveredUpTo

\* A stored checkpoint was set by a call of a handler that sees all that the
\* handlers looking it up see: up to there, that handler's stream had handed
\* over, lost or skipped each of their events.
LEMMA CheckpointCovers ==
  ASSUME ExecInv, DispatchInv, DeliveryInv, CoverInv,
         NEW s \in Subs, NEW h \in GroupHandlers(s),
         Descriptor[h].subscription_name # None,
         stored[LookupKey(s, h)] # NoCheckpoint
  PROVE  CoveredUpTo(h, stored[LookupKey(s, h)])
<1> DEFINE k == LookupKey(s, h)
           p == stored[k]
<1>1. h \in Handlers /\ Topic(s) = Descriptor[h].topic_name
  BY GroupFacts, SubOfFacts
<1>2. k \in CheckpointKeys /\ p \in Seqs
  BY <1>1, LookupKeyType DEF DispatchInv, DispatchTypeOK, Checkpoints
<1>3. PICK t \in Tasks : /\ status[t] = "drained" /\ Checkpointed(call[t])
                         /\ CheckpointKey(call[t]) = k /\ call[t].seq = p
  BY <1>2 DEF DispatchInv, CheckpointInv, CheckpointsJustified, Justified, TasksIn
<1>4. PICK e \in Executors, g \in Handlers, m \in Seqs : t = <<e, g, m>>
  BY <1>3, CallsAssumption
<1>5. /\ Carries(g, m) /\ HandedOver(e, g, m)
      /\ call[t] = CallFor(e, g, m) /\ status[t] # "none"
  BY <1>3, <1>4, ExactlyFacts DEF DeliveryInv
<1>6. /\ m = p /\ IsDurable(Descriptor[g])
      /\ Descriptor[g].subscription_name = Descriptor[h].subscription_name
      /\ Descriptor[g].topic_name = Descriptor[h].topic_name
      /\ EventAt(g, p).topic_key = KeyFilter(s)
  <2>1. /\ call[t].seq = m /\ call[t].is_durable = IsDurable(Descriptor[g])
        /\ call[t].subscription_name = Descriptor[g].subscription_name
        /\ call[t].topic_name = Descriptor[g].topic_name
        /\ call[t].topic_key = EventAt(g, m).topic_key
    BY <1>5 DEF CallFor
  <2> QED
    BY <1>1, <1>3, <2>1 DEF Checkpointed, CheckpointKey, LookupKey
<1> DEFINE z == SubOf(e, g)
<1>7. /\ z \in Subs /\ Topic(z) = Topic(s) /\ g \in GroupHandlers(z)
      /\ SameSubscription(g) = SameSubscription(h) /\ g \in SameSubscription(h)
      /\ g \in DurableHandlers(z)
  BY <1>1, <1>6, SubOfFacts DEF SameSubscription, DurableHandlers
<1>8. KeyFilter(z) \in {None, KeyFilter(s)}
  <2>1. KeyFilter(z) \in {None, log[Topic(z)][p].topic_key}
    BY <1>2, <1>5, <1>6, <1>7, CarriesFacts
  <2> QED
    BY <1>1, <1>6, <1>7, <2>1 DEF EventAt
<1>9. /\ sub[z] \in SubStates /\ StreamOK(z) /\ SubOK(z)
      /\ sub[z].start < p /\ p <= sub[z].pos
      /\ ~(p = sub[z].pos /\ g \in sub[z].todo)
  BY <1>5, <1>6, <1>7, SubTypes DEF DeliveryInv, HandedOver
<1> HIDE DEF k, p, z
<1>10. ASSUME NEW n \in Seqs, n <= p, Carries(h, n)
       PROVE  Reached(h, n)
  <2>1. /\ n \in 1 .. Len(log[Topic(s)])
        /\ KeyFilter(s) \in {None, log[Topic(s)][n].topic_key}
    BY <1>10, CarriesFacts
  <2>2. Carries(g, n)
    BY <1>7, <1>8, <2>1, CarriesFacts
  <2>3. n \in Int /\ p \in Int /\ sub[z].start \in Int /\ sub[z].pos \in Int
    BY <1>2, <1>9, SeqAssumption DEF SubStates, Seqs
  <2>4. CASE n > sub[z].start
    <3>1. CASE n \in sub[z].lost
      BY <1>7, <3>1 DEF Reached, GivenUp, z
    <3>2. CASE n \notin sub[z].lost
      <4>1. HandedOver(e, g, n)
        BY <1>9, <1>10, <2>3, <2>4, <3>2 DEF HandedOver, z
      <4>2. status[<<e, g, n>>] # "none"
        BY <2>2, <4>1, ExactlyFacts DEF DeliveryInv
      <4> QED
        BY <1>7, <4>2 DEF Reached, EverSpawned
    <3> QED
      BY <3>1, <3>2
  <2>5. CASE n <= sub[z].start
    <3>1. sub[z].origin \in {"now", "checkpoint"}
      BY <1>9, <2>3 DEF StreamOK, SubStates, Origins
    <3>2. CASE sub[z].origin = "now"
      BY <1>7, <2>5, <3>2 DEF Reached, GivenUp, z
    <3>3. CASE sub[z].origin = "checkpoint"
      <4>1. CoveredUpTo(g, sub[z].start)
        BY <1>7, <3>3 DEF CoverInv, CoverOK
      <4>2. Reached(g, n)
        BY <2>2, <2>5, <4>1 DEF CoveredUpTo
      <4> QED
        BY <1>7, <4>2 DEF Reached
    <3> QED
      BY <3>1, <3>2, <3>3
  <2> QED
    BY <2>3, <2>4, <2>5
<1> QED
  BY <1>10 DEF CoveredUpTo, p, k

LEMMA CoverKept ==
  ASSUME ExecInv, DispatchInv, DeliveryInv, [Next]_vars, NEW s \in Subs, CoverOK(s),
         sub'[s] = sub[s] \/ GoesOn(s)
  PROVE  CoverOK(s)'
<1>1. /\ sub[s] \in SubStates /\ SubOK(s) /\ Len(log[Topic(s)]) \in 0 .. MaxSeq
  BY SubTypes
<1>2. /\ sub[s].min_cp \in Int /\ sub[s].start \in Int
      /\ sub[s].min_cp <= Len(log[Topic(s)]) /\ sub[s].start <= Len(log[Topic(s)])
  BY <1>1, SeqAssumption DEF SubStates, SubOK, NoCheckpoint, Seqs
<1>3. ASSUME NEW h \in DurableHandlers(s), NEW p \in {sub[s].min_cp, sub[s].start},
             CoveredUpTo(h, p)
      PROVE  CoveredUpTo(h, p)'
  <2>1. h \in Handlers /\ Topic(s) = Descriptor[h].topic_name
    BY SubFacts, GroupFacts, SubOfFacts DEF DurableHandlers
  <2> QED
    BY <1>2, <1>3, <2>1, CoveredStays
<1>4. DurableHandlers(s)' = DurableHandlers(s) /\ \A h \in LookedUp(s) : h \in DurableHandlers(s)
  BY DEF DurableHandlers, GroupHandlers, Group, LookedUp
<1>5. sub'[s].origin = sub[s].origin /\ sub'[s].start = sub[s].start
  BY DEF GoesOn
<1>6. sub'[s].origin = "checkpoint" =>
        \A h \in DurableHandlers(s) : CoveredUpTo(h, sub[s].start)'
  BY <1>3, <1>5 DEF CoverOK
<1>7. sub'[s].phase = "lookup" => sub'[s] = sub[s] /\ LookedUp(s)' = LookedUp(s)
  BY <1>4 DEF GoesOn, LookedUp
<1>8. sub'[s].phase = "lookup" /\ sub'[s].all_have_cp =>
        \A h \in LookedUp(s) :
          sub[s].min_cp # NoCheckpoint /\ CoveredUpTo(h, sub[s].min_cp)'
  BY <1>3, <1>4, <1>7 DEF CoverOK
<1> QED
  BY <1>4, <1>5, <1>6, <1>7, <1>8 DEF CoverOK

LEMMA CoverLookup ==
  ASSUME ExecInv, DispatchInv, DeliveryInv, CoverInv, [Next]_vars,
         NEW s \in Subs, NEW g \in Handlers, LookupCheckpoint(s, g)
  PROVE  CoverOK(s)'
<1>1. PICK seq \in {FoundCheckpoint(s, g), NoCheckpoint} :
           /\ seq \in {NoCheckpoint} \cup Seqs
           /\ sub'[s].todo = sub[s].todo \ {g}
           /\ sub'[s].all_have_cp = (sub[s].all_have_cp /\ seq # NoCheckpoint)
           /\ sub'[s].min_cp = IF seq = NoCheckpoint THEN sub[s].min_cp
                               ELSE IF sub[s].min_cp = NoCheckpoint \/ seq < sub[s].min_cp
                                    THEN seq ELSE sub[s].min_cp
           /\ sub'[s].phase = "lookup" /\ sub[s].phase = "lookup"
           /\ sub'[s].origin = sub[s].origin
           /\ UNCHANGED <<dispatchVars, log>>
  BY LookupEffect DEF DispatchInv
<1>2. /\ sub[s] \in SubStates /\ SubOK(s) /\ StreamOK(s) /\ CoverOK(s)
      /\ Len(log[Topic(s)]) \in 0 .. MaxSeq
  BY SubTypes DEF DeliveryInv, CoverInv
<1>3. sub'[s].origin # "checkpoint"
  BY <1>1, <1>2 DEF StreamOK
<1>4. sub[s].min_cp \in {NoCheckpoint} \cup Seqs /\ NoCheckpoint = 0
      /\ sub[s].min_cp <= Len(log[Topic(s)]) /\ \A n \in Seqs : n \in Int /\ n # 0
  BY <1>2, SeqAssumption DEF SubStates, SubOK, NoCheckpoint, Seqs
<1>5. ASSUME NEW h \in LookedUp(s)', sub'[s].all_have_cp
      PROVE  /\ sub'[s].min_cp \in Int /\ sub'[s].min_cp # NoCheckpoint
             /\ CoveredUpTo(h, sub'[s].min_cp)
             /\ sub'[s].min_cp <= Len(log[Topic(s)])
             /\ h \in Handlers /\ Topic(s) = Descriptor[h].topic_name
  <2>1. sub[s].all_have_cp /\ seq # NoCheckpoint /\ seq = FoundCheckpoint(s, g)
    BY <1>1, <1>5
  <2>2. Descriptor[g].subscription_name # None /\ seq = stored[LookupKey(s, g)]
    BY <2>1 DEF FoundCheckpoint, LookupKey
  <2>3. h \in DurableHandlers(s) /\ h \notin sub'[s].todo
    BY <1>5 DEF LookedUp, DurableHandlers, GroupHandlers, Group
  <2>4. h \in Handlers /\ h \in GroupHandlers(s) /\ Topic(s) = Descriptor[h].topic_name
    BY <2>3, SubFacts, GroupFacts, SubOfFacts DEF DurableHandlers
  <2>5. sub'[s].min_cp \in Int /\ sub'[s].min_cp # 0 /\ sub'[s].min_cp <= seq
        /\ (sub[s].min_cp # NoCheckpoint => sub'[s].min_cp <= sub[s].min_cp)
        /\ seq \in Int
    BY <1>1, <1>4, <2>1
  <2>6. seq <= Len(log[Topic(s)])
    <3>1. LookupKey(s, g) \in CheckpointKeys /\ LookupKey(s, g)[2] = Topic(s)
      BY <2>2, LookupKeyType DEF LookupKey
    <3> QED
      BY <2>2, <3>1, CheckpointInLog
  <2>7. CoveredUpTo(h, sub'[s].min_cp)
    <3>1. CASE h = g
      <4>1. CoveredUpTo(h, seq)
        BY <2>1, <2>2, <2>4, <3>1, CheckpointCovers
      <4> QED
        BY <1>4, <2>5, <4>1 DEF CoveredUpTo
    <3>2. CASE h # g
      <4>1. h \in LookedUp(s)
        BY <1>1, <2>3, <3>2 DEF LookedUp
      <4>2. sub[s].min_cp # NoCheckpoint /\ CoveredUpTo(h, sub[s].min_cp)
        BY <1>1, <1>2, <2>1, <4>1 DEF CoverOK
      <4>3. \A n \in Seqs : n <= sub'[s].min_cp => n <= sub[s].min_cp
        BY <1>4, <2>5, <4>2
      <4> QED
        BY <4>2, <4>3 DEF CoveredUpTo
    <3> QED
      BY <3>1, <3>2
  <2> QED
    BY <1>2, <1>4, <2>4, <2>5, <2>6, <2>7
<1>6. ASSUME NEW h \in LookedUp(s)', sub'[s].all_have_cp
      PROVE  CoveredUpTo(h, sub[s].min_cp)'
  <2>1. PICK p \in Int : /\ p = sub'[s].min_cp /\ CoveredUpTo(h, p)
                         /\ p <= Len(log[Descriptor[h].topic_name]) /\ h \in Handlers
    BY <1>5, <1>6
  <2>2. CoveredUpTo(h, p)'
    BY <2>1, CoveredStays
  <2> QED
    BY <2>1, <2>2 DEF CoveredUpTo, Reached, Carries, EventAt
<1> QED
  BY <1>3, <1>5, <1>6 DEF CoverOK

LEMMA CoverOpen ==
  ASSUME ExecInv, DispatchInv, DeliveryInv, CoverInv, [Next]_vars,
         NEW s \in Subs, OpenStream(s)
  PROVE  CoverOK(s)'
<1>1. /\ sub[s].phase = "lookup" /\ sub[s].todo = {} /\ sub'[s].phase = "streaming"
      /\ sub'[s].origin = "checkpoint" => Resumes(s) /\ sub'[s].start = sub[s].min_cp
  BY OpenEffect
<1>2. /\ sub[s] \in SubStates /\ SubOK(s) /\ CoverOK(s)
      /\ Len(log[Topic(s)]) \in 0 .. MaxSeq
  BY SubTypes DEF CoverInv
<1>3. sub[s].min_cp \in Int /\ sub[s].min_cp <= Len(log[Topic(s)])
  BY <1>2, SeqAssumption DEF SubStates, SubOK, NoCheckpoint, Seqs
<1>4. DurableHandlers(s)' = DurableHandlers(s) /\ LookedUp(s) = DurableHandlers(s)
  BY <1>1 DEF DurableHandlers, GroupHandlers, Group, LookedUp
<1>5. ASSUME NEW h \in DurableHandlers(s), sub'[s].origin = "checkpoint"
      PROVE  CoveredUpTo(h, sub[s].start)'
  <2>1. PICK p \in Int : p = sub'[s].start /\ p = sub[s].min_cp
    BY <1>1, <1>3, <1>5
  <2>2. CoveredUpTo(h, p)
    BY <1>1, <1>2, <1>4, <1>5, <2>1 DEF CoverOK, Resumes
  <2>3. h \in Handlers /\ Topic(s) = Descriptor[h].topic_name
    BY SubFacts, GroupFacts, SubOfFacts DEF DurableHandlers
  <2>4. CoveredUpTo(h, p)'
    BY <1>3, <2>1, <2>2, <2>3, CoveredStays
  <2> QED
    BY <2>1, <2>4 DEF CoveredUpTo, Reached, Carries, EventAt
<1> QED
  BY <1>1, <1>4, <1>5 DEF CoverOK

LEMMA CoverStep ==
  ExecInv /\ DispatchInv /\ DeliveryInv /\ CoverInv /\ [Next]_vars => CoverInv'
<1> SUFFICES ASSUME ExecInv, DispatchInv, DeliveryInv, CoverInv, [Next]_vars,
                    NEW s \in Subs
             PROVE  CoverOK(s)'
  BY DEF CoverInv
<1>1. CoverOK(s)
  BY DEF CoverInv
<1>2. CASE sub'[s] = sub[s] \/ GoesOn(s)
  BY <1>1, <1>2, CoverKept
<1>3. CASE sub'[s] = Started(s)
  <2>1. LookedUp(s)' = {} /\ sub'[s].origin # "checkpoint"
    BY <1>3, StartedFacts DEF LookedUp, DurableHandlers, GroupHandlers, Group
  <2> QED
    BY <2>1 DEF CoverOK
<1> QED
  BY <1>2, <1>3, StreamSteps, CoverLookup, CoverOpen

\* A stream that resumes from checkpoints never jumps over an event nobody was
\* given: whatever it skips was dispatched to the subscription before, lost by
\* a stream error or given up by a fresh start.  For every coalescer, all
\* interleavings of executors, crashes, failed lookups and stream errors, and
\* handlers that share a subscription name.
THEOREM NothingSkippedUnseen == Spec => []ResumeSkipsOnlyDispatched
<1>1. Init => CoverInv
  <2>1. Init => \A s \in Subs : sub[s] = Unspawned
    BY DEF Init
  <2>2. Unspawned.phase = "unspawned" /\ Unspawned.origin = "none"
    BY DEF Unspawned
  <2> QED
    BY <2>1, <2>2 DEF CoverInv, CoverOK
<1>2. ExecInv /\ CoverInv => ResumeSkipsOnlyDispatched
  <2> SUFFICES ASSUME ExecInv, CoverInv, NEW s \in Subs, sub[s].origin = "checkpoint",
                      NEW h \in DurableHandlers(s), NEW n \in 1 .. sub[s].start,
                      Carries(h, n)
               PROVE  Reached(h, n)
    BY DEF ResumeSkipsOnlyDispatched, Reached
  <2>1. sub[s].start \in 0 .. MaxSeq
    BY DEF ExecInv, SubStates
  <2>2. n \in Seqs /\ n <= sub[s].start
    BY <2>1, SeqAssumption DEF Seqs
  <2> QED
    BY <2>2 DEF CoverInv, CoverOK, CoveredUpTo
<1> QED
  BY <1>1, <1>2, CoverStep, DeliveryInvariant, PTL DEF Spec

----------------------------------------------------------------------------
(* What a stream resumes behind.                                           *)

\* n is the sequence number of an event processed under a key that stream s
\* looks up.
ProcessedFor(s, n) == \E h \in DurableHandlers(s) : Justified(LookupKey(s, h), n)

\* The minimum found so far and the start of a resumed stream are checkpoints
\* of the group; there is such a minimum once every lookup has found one.
PointOK(s) ==
  /\ sub[s].phase = "lookup" =>
       /\ sub[s].todo \subseteq DurableHandlers(s)
       /\ sub[s].min_cp # NoCheckpoint => ProcessedFor(s, sub[s].min_cp)
       /\ sub[s].all_have_cp /\ LookedUp(s) # {} => sub[s].min_cp # NoCheckpoint
  /\ sub[s].origin = "checkpoint" => ProcessedFor(s, sub[s].start)

PointInv == \A s \in Subs : PointOK(s)

\* What was processed stays processed.
LEMMA ProcessedForStays ==
  ASSUME DispatchTypeOK, [DispatchNext]_dispatchVars, NEW s \in Subs, NEW n, ProcessedFor(s, n)
  PROVE  ProcessedFor(s, n)'
<1>1. PICK h \in DurableHandlers(s) : Justified(LookupKey(s, h), n)
  BY DEF ProcessedFor
<1>2. PICK k : k = LookupKey(s, h)
  OBVIOUS
<1>3. Justified(k, n)'
  <2>1. CASE DispatchNext
    BY <1>1, <1>2, <2>1, JustifiedStable
  <2>2. CASE UNCHANGED dispatchVars
    BY <1>1, <1>2, <2>2 DEF Justified, TasksIn, dispatchVars
  <2> QED
    BY <2>1, <2>2
<1>4. h \in DurableHandlers(s)' /\ LookupKey(s, h)' = k
  BY <1>1, <1>2 DEF DurableHandlers, GroupHandlers, Group, LookupKey, Topic, KeyFilter
<1> QED
  BY <1>3, <1>4 DEF ProcessedFor, Justified

LEMMA PointKept ==
  ASSUME ExecInv, DispatchTypeOK, [DispatchNext]_dispatchVars, NEW s \in Subs, PointOK(s),
         sub'[s] = sub[s] \/ GoesOn(s)
  PROVE  PointOK(s)'
<1>1. PICK min, start : min = sub[s].min_cp /\ start = sub[s].start
  OBVIOUS
<1>2. /\ ProcessedFor(s, min) => ProcessedFor(s, min)'
      /\ ProcessedFor(s, start) => ProcessedFor(s, start)'
  BY ProcessedForStays
<1>3. sub'[s].origin = sub[s].origin /\ sub'[s].start = start
  BY <1>1 DEF GoesOn
<1>4. sub'[s].origin = "checkpoint" => ProcessedFor(s, sub[s].start)'
  BY <1>1, <1>2, <1>3 DEF PointOK, ProcessedFor, Justified
<1>5. ASSUME sub'[s].phase = "lookup"
      PROVE  /\ sub'[s] = sub[s] /\ sub[s].phase = "lookup"
             /\ DurableHandlers(s)' = DurableHandlers(s) /\ LookedUp(s)' = LookedUp(s)
  BY <1>5 DEF GoesOn, LookedUp, DurableHandlers, GroupHandlers, Group
<1>6. sub'[s].phase = "lookup" /\ sub'[s].min_cp # NoCheckpoint => ProcessedFor(s, sub[s].min_cp)'
  BY <1>1, <1>2, <1>5 DEF PointOK, ProcessedFor, Justified
<1> QED
  BY <1>4, <1>5, <1>6 DEF PointOK

LEMMA PointLookup ==
  ASSUME ExecInv, DispatchInv, DeliveryInv, NEW s \in Subs, PointOK(s),
         NEW g \in Handlers, LookupCheckpoint(s, g)
  PROVE  PointOK(s)'
<1>1. PICK seq \in {FoundCheckpoint(s, g), NoCheckpoint} :
           /\ seq \in {NoCheckpoint} \cup Seqs
           /\ sub'[s].todo = sub[s].todo \ {g}
           /\ sub'[s].all_have_cp = (sub[s].all_have_cp /\ seq # NoCheckpoint)
           /\ sub'[s].min_cp = IF seq = NoCheckpoint THEN sub[s].min_cp
                               ELSE IF sub[s].min_cp = NoCheckpoint \/ seq < sub[s].min_cp
                                    THEN seq ELSE sub[s].min_cp
           /\ sub'[s].phase = "lookup" /\ sub[s].phase = "lookup"
           /\ sub'[s].origin = sub[s].origin
           /\ UNCHANGED dispatchVars
  BY LookupEffect DEF DispatchInv
<1>2. sub'[s].origin # "checkpoint"
  BY <1>1 DEF DeliveryInv, StreamOK
<1>3. g \in DurableHandlers(s)
  <2>1. g \in sub[s].todo
    BY DEF LookupCheckpoint
  <2> QED
    BY <1>1, <2>1 DEF PointOK
<1>4. seq # NoCheckpoint => ProcessedFor(s, seq)
  <2> SUFFICES ASSUME seq # NoCheckpoint PROVE Justified(LookupKey(s, g), seq)
    BY <1>3 DEF ProcessedFor
  <2>1. Descriptor[g].subscription_name # None /\ seq = stored[LookupKey(s, g)]
    BY <1>1 DEF FoundCheckpoint, LookupKey
  <2>2. LookupKey(s, g) \in CheckpointKeys
    BY <2>1, LookupKeyType
  <2> QED
    BY <2>1, <2>2 DEF DispatchInv, CheckpointInv, CheckpointsJustified
<1>5. sub'[s].min_cp # NoCheckpoint => ProcessedFor(s, sub'[s].min_cp)
  BY <1>1, <1>4 DEF PointOK
<1>6. sub'[s].all_have_cp => sub'[s].min_cp # NoCheckpoint
  BY <1>1
<1>7. sub'[s].min_cp # NoCheckpoint => ProcessedFor(s, sub[s].min_cp)'
  BY <1>1, <1>5 DEF ProcessedFor, Justified, TasksIn, dispatchVars, DurableHandlers,
     GroupHandlers, Group, LookupKey, Topic, KeyFilter
<1>8. sub'[s].todo \subseteq DurableHandlers(s)'
  BY <1>1 DEF PointOK, DurableHandlers, GroupHandlers, Group
<1> QED
  BY <1>2, <1>6, <1>7, <1>8 DEF PointOK

LEMMA PointOpen ==
  ASSUME ExecInv, NEW s \in Subs, PointOK(s), OpenStream(s)
  PROVE  PointOK(s)'
<1>1. /\ sub[s].phase = "lookup" /\ sub[s].todo = {} /\ sub'[s].phase = "streaming"
      /\ sub'[s].origin = "checkpoint" => Resumes(s) /\ sub'[s].start = sub[s].min_cp
      /\ UNCHANGED dispatchVars
  BY OpenEffect
<1>2. sub'[s].origin = "checkpoint" => ProcessedFor(s, sub'[s].start)
  BY <1>1 DEF PointOK, Resumes, LookedUp
<1>3. sub'[s].origin = "checkpoint" => ProcessedFor(s, sub[s].start)'
  BY <1>1, <1>2 DEF ProcessedFor, Justified, TasksIn, dispatchVars, DurableHandlers,
     GroupHandlers, Group, LookupKey, Topic, KeyFilter
<1> QED
  BY <1>1, <1>3 DEF PointOK

LEMMA PointStep ==
  ExecInv /\ DispatchInv /\ DeliveryInv /\ PointInv /\ [Next]_vars => PointInv'
<1> SUFFICES ASSUME ExecInv, DispatchInv, DeliveryInv, PointInv, [Next]_vars, NEW s \in Subs
             PROVE  PointOK(s)'
  BY DEF PointInv
<1>1. PointOK(s) /\ DispatchTypeOK /\ [DispatchNext]_dispatchVars
  BY StepSimulation DEF PointInv, DispatchInv
<1>2. CASE sub'[s] = sub[s] \/ GoesOn(s)
  BY <1>1, <1>2, PointKept
<1>3. CASE sub'[s] = Started(s)
  <2>1. /\ sub'[s].todo = DurableHandlers(s) /\ sub'[s].min_cp = NoCheckpoint
        /\ sub'[s].origin = "none"
    BY <1>3 DEF Started, Unspawned
  <2>2. DurableHandlers(s)' = DurableHandlers(s)
    BY DEF DurableHandlers, GroupHandlers, Group
  <2> QED
    BY <2>1, <2>2 DEF PointOK, LookedUp
<1> QED
  BY <1>1, <1>2, <1>3, StreamSteps, PointLookup, PointOpen

\* A resumed stream starts behind an event that a call under the name, topic
\* and key of one of its durable handlers has processed: the position comes
\* from that call alone, never from a failed lookup, the coalescer or a crash,
\* and it is never the beginning of the log.  For every coalescer and all
\* interleavings of executors.
THEOREM ResumePointsProcessed == Spec => []ResumePointWasProcessed
<1>1. Init => PointInv
  <2>1. Init => \A s \in Subs : sub[s] = Unspawned
    BY DEF Init
  <2>2. Unspawned.phase = "unspawned" /\ Unspawned.origin = "none"
    BY DEF Unspawned
  <2> QED
    BY <2>1, <2>2 DEF PointInv, PointOK
<1>2. PointInv => ResumePointWasProcessed
  BY DEF PointInv, PointOK, ProcessedFor, ResumePointWasProcessed, LookupKey
<1> QED
  BY <1>1, <1>2, PointStep, DeliveryInvariant, PTL DEF Spec

----------------------------------------------------------------------------
(* What was processed is found again.                                      *)

\* The coalescer or the store has checkpoint n of key k, or a later one.
Kept(k, n) == n <= stored[k] \/ n <= pending[k]

\* The checkpoint of a call that came through to its end is kept while its
\* process lives.
RememberedOK(t) ==
  status[t] = "drained" /\ handle[t[1]] # "dead" =>
    Checkpointed(call[t]) /\ Kept(CheckpointKey(call[t]), call[t].seq)

RememberedInv == MergeModes = {"max"} => \A t \in Tasks : RememberedOK(t)

LEMMA CheckpointKeyType ==
  ASSUME NEW c \in Calls, Checkpointed(c)
  PROVE  CheckpointKey(c) \in CheckpointKeys /\ c.seq \in Seqs
BY DEF Calls, Checkpointed, CheckpointKey, CheckpointKeys, OptSubNames

\* Neither recording nor flushing loses a checkpoint, or moves it back.
LEMMA KeptStays ==
  ASSUME DispatchTypeOK, MergeModes = {"max"}, RecordingCheckpointed,
         (\E t \in Tasks, c \in Calls : Spawn(t, c)) \/ RunningStep \/ UNCHANGED dispatchVars,
         NEW k \in CheckpointKeys, NEW n \in Seqs, Kept(k, n)
  PROVE  Kept(k, n)'
<1>1. /\ stored[k] \in Int /\ pending[k] \in Int /\ n \in Int
      /\ NoCheckpoint = 0 /\ n > 0
  BY SeqAssumption DEF DispatchTypeOK, Checkpoints, NoCheckpoint, Seqs
<1>2. CASE UNCHANGED <<pending, stored>>
  BY <1>2 DEF Kept
<1>3. ASSUME NEW t \in Tasks, RecordCheckpoint(t)
      PROVE  Kept(k, n)'
  <2> DEFINE i == CheckpointKey(call[t])
             seq == call[t].seq
  <2>1. /\ stored' = stored
        /\ pending' = [pending EXCEPT ![i] = Merged("max", pending[i], seq)]
    BY <1>3 DEF RecordCheckpoint
  <2>2. seq \in Int
    <3>1. status[t] # "none"
      BY <1>3 DEF RecordCheckpoint
    <3> QED
      BY <3>1, SeqAssumption DEF DispatchTypeOK, Calls, Seqs
  <2>3. pending[k] <= Merged("max", pending[k], seq)
    BY <1>1, <2>2 DEF Merged
  <2>4. Merged("max", pending[k], seq) \in Int
    BY <1>1, <2>2 DEF Merged
  <2> HIDE DEF i, seq
  <2>5. pending'[k] \in Int /\ pending[k] <= pending'[k]
    BY <1>1, <2>1, <2>3, <2>4 DEF DispatchTypeOK, Checkpoints
  <2> QED
    BY <1>1, <2>1, <2>5 DEF Kept
<1>4. ASSUME NEW i \in CheckpointKeys, FlushCheckpoint(i)
      PROVE  Kept(k, n)'
  <2>1. /\ stored' = [stored EXCEPT ![i] = Merged("max", stored[i], pending[i])]
        /\ pending' = [pending EXCEPT ![i] = NoCheckpoint]
    BY <1>4 DEF FlushCheckpoint
  <2>2. /\ stored[k] <= Merged("max", stored[k], pending[k])
        /\ pending[k] <= Merged("max", stored[k], pending[k])
        /\ Merged("max", stored[k], pending[k]) \in Int
    BY <1>1 DEF Merged
  <2>3. CASE i = k
    <3>1. stored'[k] = Merged("max", stored[k], pending[k])
      BY <2>1, <2>3 DEF DispatchTypeOK, Checkpoints
    <3> QED
      BY <1>1, <2>2, <3>1 DEF Kept
  <2>4. CASE i # k
    <3>1. stored'[k] = stored[k] /\ pending'[k] = pending[k]
      BY <2>1, <2>4 DEF DispatchTypeOK, Checkpoints
    <3> QED
      BY <3>1 DEF Kept
  <2> QED
    BY <2>3, <2>4
<1>5. CASE \E t \in Tasks, c \in Calls : Spawn(t, c)
  BY <1>2, <1>5 DEF Spawn
<1>6. CASE UNCHANGED dispatchVars
  BY <1>2, <1>6 DEF dispatchVars
<1>7. ASSUME NEW t \in Tasks, TaskStep(t)
      PROVE  UNCHANGED <<pending, stored>> \/ RecordCheckpoint(t)
  BY <1>7 DEF TaskStep, HandlerReturns, AcquirePermit, RejectShape, RejectBuild,
     StartHandler, HandlerErr, HandlerPanic, HandlerOk, HandlerDone, CheckpointErr
<1> QED
  BY <1>2, <1>3, <1>4, <1>5, <1>6, <1>7 DEF RunningStep

\* A call that comes through to its end leaves its checkpoint in memory.
LEMMA DrainedKept ==
  ASSUME DispatchTypeOK, MergeModes = {"max"}, RecordingCheckpointed,
         (\E u \in Tasks, c \in Calls : Spawn(u, c)) \/ RunningStep \/ UNCHANGED dispatchVars,
         NEW t \in Tasks, status[t] # "drained", status'[t] = "drained"
  PROVE  /\ status[t] = "recording" /\ Checkpointed(call[t])
         /\ Kept(CheckpointKey(call[t]), call[t].seq)'
         /\ call'[t] = call[t]
<1> USE DEF DispatchTypeOK
<1>1. \A u \in Tasks, c \in Calls : ~Spawn(u, c)
  BY DEF Spawn
<1>2. ~(UNCHANGED dispatchVars) /\ \A k \in CheckpointKeys : ~FlushCheckpoint(k)
  BY DEF FlushCheckpoint, dispatchVars
<1>3. PICK u \in Tasks : TaskStep(u)
  BY <1>1, <1>2 DEF RunningStep
<1>4. RecordCheckpoint(u) /\ u = t
  BY <1>3 DEF TaskStep, HandlerReturns, AcquirePermit, RejectShape, RejectBuild,
     StartHandler, HandlerErr, HandlerPanic, HandlerOk, HandlerDone, RecordCheckpoint,
     CheckpointErr, Settle
<1>5. status[t] = "recording" /\ call' = call
  BY <1>4 DEF RecordCheckpoint
<1>6. Checkpointed(call[t])
  BY <1>5 DEF RecordingCheckpointed, TasksIn
<1>7. PICK k \in CheckpointKeys, n \in Seqs : k = CheckpointKey(call[t]) /\ n = call[t].seq
  BY <1>5, <1>6, CheckpointKeyType
<1>8. pending' = [pending EXCEPT ![k] = Merged("max", pending[k], n)]
  BY <1>4, <1>7 DEF RecordCheckpoint
<1>9. pending'[k] = Merged("max", pending[k], n)
  BY <1>8 DEF Checkpoints
<1>10. pending[k] \in Int /\ n \in Int
  BY SeqAssumption DEF Checkpoints, NoCheckpoint, Seqs
<1>11. n <= pending'[k]
  BY <1>9, <1>10 DEF Merged
<1> QED
  BY <1>5, <1>6, <1>7, <1>11 DEF Kept

\* Only the crash of the process makes a step that is not one of its tasks,
\* and nobody comes back from it.
LEMMA LivingStep ==
  ASSUME ExecInv, [Next]_vars
  PROVE  /\ \/ ProcessCrash
            \/ \E t \in Tasks, c \in Calls : Spawn(t, c)
            \/ RunningStep
            \/ UNCHANGED dispatchVars
         /\ \A e \in Executors : handle'[e] # "dead" =>
              handle[e] # "dead" /\ (ProcessCrash => handle[e] = "unstarted")
<1>1. CASE \E topic \in Topics, event \in Events : Publish(topic, event)
  BY <1>1 DEF Publish, ProcessCrash
<1>2. CASE \E e \in Executors : StartExecutor(e) \/ Abort(e)
  BY <1>2 DEF StartExecutor, Abort, ExecInv, ProcessCrash
<1>3. ASSUME NEW s \in Subs, SubStep(s)
      PROVE  /\ (\E t \in Tasks, c \in Calls : Spawn(t, c)) \/ UNCHANGED dispatchVars
             /\ handle' = handle
  <2>1. ASSUME NEW h \in Handlers, SpawnDispatch(s, h)
        PROVE  \E t \in Tasks, c \in Calls : Spawn(t, c)
    BY <2>1, SpawnedCall DEF SpawnDispatch
  <2> QED
    BY <1>3, <2>1 DEF SubStep, LookupCheckpoint, OpenStream, Receive, SpawnDispatch
<1>4. ASSUME NEW s \in Subs, SubFault(s) \/ Cancel(s)
      PROVE  UNCHANGED dispatchVars /\ handle' = handle
  BY <1>4 DEF SubFault, StreamError, StreamEnd, Cancel
<1>5. CASE ProcessCrash
  BY <1>5 DEF ProcessCrash, ExecInv, HandleStates
<1>6. CASE (RunningStep /\ UNCHANGED executorVars) \/ UNCHANGED vars
  BY <1>6 DEF vars, executorVars, ProcessCrash
<1>7. handle' = handle => ~ProcessCrash
  BY DEF ProcessCrash
<1> QED
  BY <1>1, <1>2, <1>3, <1>4, <1>5, <1>6, <1>7 DEF Next

\* An executor that was not started has made no call.
LEMMA UnstartedIdle ==
  ASSUME ExecInv, DeliveryInv, NEW e \in Executors, NEW h \in Handlers, NEW n \in Seqs,
         handle[e] = "unstarted"
  PROVE  status[<<e, h, n>>] = "none"
<1>1. /\ SubOf(e, h) \in Subs /\ SubOf(e, h)[1] = e
      /\ sub[SubOf(e, h)] \in SubStates /\ SubOK(SubOf(e, h)) /\ StreamOK(SubOf(e, h))
  BY SubOfFacts, SubTypes DEF DeliveryInv
<1>2. sub[SubOf(e, h)].start = sub[SubOf(e, h)].pos
  BY <1>1 DEF SubOK, StreamOK
<1>3. ~HandedOver(e, h, n)
  BY <1>1, <1>2, SeqAssumption DEF HandedOver, SubStates, Seqs
<1> QED
  BY <1>3, ExactlyFacts DEF DeliveryInv

LEMMA RememberedStep ==
  ExecInv /\ DispatchInv /\ DeliveryInv /\ RememberedInv /\ [Next]_vars => RememberedInv'
<1> SUFFICES ASSUME ExecInv, DispatchInv, DeliveryInv, RememberedInv, [Next]_vars,
                    MergeModes = {"max"}, NEW t \in Tasks,
                    status'[t] = "drained", handle'[t[1]] # "dead"
             PROVE  Checkpointed(call'[t]) /\ Kept(CheckpointKey(call[t]), call[t].seq)'
  BY DEF RememberedInv, RememberedOK
<1>1. DispatchTypeOK /\ RecordingCheckpointed /\ RememberedOK(t)
  BY DEF DispatchInv, CheckpointInv, RememberedInv
<1>2. PICK e \in Executors, h \in Handlers, n \in Seqs : t = <<e, h, n>>
  BY CallsAssumption
<1>3. handle[e] # "dead" /\ (ProcessCrash => handle[e] = "unstarted")
  BY <1>2, LivingStep
<1>4. ~ProcessCrash
  <2> SUFFICES ASSUME ProcessCrash PROVE FALSE
    OBVIOUS
  <2>1. status[t] = "none"
    BY <1>2, <1>3, UnstartedIdle
  <2>2. status'[t] = "none"
    BY <1>1, <2>1 DEF ProcessCrash, Crash, Live, Holding
  <2> QED
    BY <2>2
<1>5. (\E u \in Tasks, c \in Calls : Spawn(u, c)) \/ RunningStep \/ UNCHANGED dispatchVars
  BY <1>4, LivingStep
<1>6. CASE status[t] # "drained"
  BY <1>1, <1>5, <1>6, DrainedKept
<1>7. CASE status[t] = "drained"
  <2>1. call'[t] = call[t]
    <3>1. CASE DispatchNext
      BY <1>1, <1>7, <3>1, CallStable
    <3>2. CASE UNCHANGED dispatchVars
      BY <3>2 DEF dispatchVars
    <3> QED
      BY <1>5, <3>1, <3>2 DEF DispatchNext
  <2>2. Checkpointed(call[t]) /\ Kept(CheckpointKey(call[t]), call[t].seq)
    BY <1>1, <1>2, <1>3, <1>7 DEF RememberedOK
  <2>3. call[t] \in Calls
    BY <1>1, <1>7 DEF DispatchTypeOK
  <2>4. PICK k \in CheckpointKeys, m \in Seqs : k = CheckpointKey(call[t]) /\ m = call[t].seq
    BY <2>2, <2>3, CheckpointKeyType
  <2>5. Kept(k, m)'
    BY <1>1, <1>5, <2>2, <2>4, KeptStays
  <2> QED
    BY <2>1, <2>2, <2>4, <2>5 DEF Kept
<1> QED
  BY <1>6, <1>7

\* With a coalescer that never moves a checkpoint back, a lookup of the handler
\* under its stream's key, or the coalescer, has the checkpoint of every event
\* of that key the handler was acknowledged for, or a later one: nothing short
\* of the crash of its process makes the executor forget it.
THEOREM ProcessedRemembered == Spec => []ProcessedIsRemembered
<1>1. Init => RememberedInv
  BY DEF Init, DispatchInit, RememberedInv, RememberedOK
<1>2. ExecInv /\ DispatchInv /\ DeliveryInv /\ RememberedInv => ProcessedIsRemembered
  <2> SUFFICES ASSUME ExecInv, DispatchInv, DeliveryInv, RememberedInv, MergeModes = {"max"},
                      NEW e \in Executors, NEW h \in Handlers, NEW n \in Seqs,
                      handle[e] # "dead", status[<<e, h, n>>] = "drained",
                      EventAt(h, n).topic_key = KeyFilter(SubOf(e, h))
               PROVE  \/ n <= FoundCheckpoint(SubOf(e, h), h)
                      \/ n <= pending[LookupKey(SubOf(e, h), h)]
    BY DEF ProcessedIsRemembered, LookupKey
  <2>1. <<e, h, n>> \in Tasks
    BY CallsAssumption
  <2>2. call[<<e, h, n>>] = CallFor(e, h, n)
    BY ExactlyFacts DEF DeliveryInv
  <2>3. /\ Checkpointed(call[<<e, h, n>>])
        /\ Kept(CheckpointKey(call[<<e, h, n>>]), call[<<e, h, n>>].seq)
    BY <2>1 DEF RememberedInv, RememberedOK
  <2>4. /\ call[<<e, h, n>>].seq = n
        /\ call[<<e, h, n>>].subscription_name = Descriptor[h].subscription_name
        /\ CheckpointKey(call[<<e, h, n>>]) = LookupKey(SubOf(e, h), h)
    BY <2>2, SubOfFacts DEF CallFor, CheckpointKey, LookupKey
  <2>5. FoundCheckpoint(SubOf(e, h), h) = stored[LookupKey(SubOf(e, h), h)]
    BY <2>3, <2>4 DEF Checkpointed, FoundCheckpoint, LookupKey
  <2> QED
    BY <2>3, <2>4, <2>5 DEF Kept
<1> QED
  BY <1>1, <1>2, RememberedStep, DeliveryInvariant, PTL DEF Spec

----------------------------------------------------------------------------
(* What is at rest stays at rest.                                          *)

Stopped(e) == handle[e] \in {"aborted", "dead"}

\* No executor is started twice.
LEMMA StoppedStays ==
  ASSUME ExecInv, [Next]_vars, NEW e \in Executors, Stopped(e)
  PROVE  Stopped(e)'
<1>1. CASE \E d \in Executors : StartExecutor(d) \/ Abort(d)
  BY <1>1 DEF StartExecutor, Abort, ExecInv, Stopped
<1>2. CASE ProcessCrash
  BY <1>2 DEF ProcessCrash, Stopped
<1>3. ASSUME NEW s \in Subs, SubStep(s) \/ SubFault(s) \/ Cancel(s)
      PROVE  handle' = handle
  BY <1>3 DEF SubStep, SubFault, LookupCheckpoint, OpenStream, Receive, SpawnDispatch,
     StreamError, StreamEnd, Cancel
<1>4. CASE \E topic \in Topics, event \in Events : Publish(topic, event)
  BY <1>4 DEF Publish, Stopped
<1>5. CASE (RunningStep /\ UNCHANGED executorVars) \/ UNCHANGED vars
  BY <1>5 DEF vars, executorVars, Stopped
<1> QED
  BY <1>1, <1>2, <1>3, <1>4, <1>5 DEF Next, Stopped

\* A subscription task that has ended is not polled again.
LEMMA EndedStays ==
  ASSUME ExecInv, [Next]_vars, NEW s \in Subs, sub[s].phase = "ended"
  PROVE  sub'[s] = sub[s]
BY StreamSteps DEF GoesOn, LookupCheckpoint, OpenStream, Polled

LEMMA QuietStays ==
  ASSUME ExecInv, DispatchInv, DeliveryInv, DeliveryInv', [Next]_vars,
         NEW e \in Executors, Quiet(e)
  PROVE  Quiet(e)'
<1>1. \A s \in Subs : s[1] = e => sub'[s] = sub[s] /\ sub[s].phase = "ended"
  BY EndedStays DEF Quiet, SubsEnded
<1>2. ASSUME NEW h \in Handlers, NEW n \in Seqs
      PROVE  status'[<<e, h, n>>] \notin Live
  <2> DEFINE t == <<e, h, n>>
  <2>1. t \in Tasks /\ status[t] \notin Live /\ DispatchTypeOK /\ [DispatchNext]_dispatchVars
    BY CallsAssumption, StepSimulation DEF Quiet, DispatchInv
  <2>2. CASE status[t] = "none"
    <3>1. ~(Carries(h, n) /\ HandedOver(e, h, n))
      BY <2>2, ExactlyFacts DEF DeliveryInv
    <3>2. /\ SubOf(e, h) \in Subs /\ SubOf(e, h)[1] = e
          /\ Topic(SubOf(e, h)) = Descriptor[h].topic_name
      BY SubOfFacts
    <3>3. sub'[SubOf(e, h)] = sub[SubOf(e, h)]
      BY <1>1, <3>2
    <3>4. HandedOver(e, h, n)' => HandedOver(e, h, n)
      BY <3>3 DEF HandedOver, SubOf
    <3>5. HandedOver(e, h, n) /\ Carries(h, n)' => Carries(h, n)
      <4> SUFFICES ASSUME HandedOver(e, h, n), Carries(h, n)' PROVE Carries(h, n)
        OBVIOUS
      <4>1. /\ sub[SubOf(e, h)] \in SubStates /\ SubOK(SubOf(e, h))
            /\ Descriptor[h].topic_name \in Topics
            /\ Len(log[Descriptor[h].topic_name]) \in Int
        BY <3>2, SubTypes, SeqAssumption
      <4>2. n \in 1 .. Len(log[Descriptor[h].topic_name])
        BY <3>2, <4>1, SeqAssumption DEF HandedOver, SubOK, SubStates, Seqs
      <4>3. log'[Descriptor[h].topic_name][n] = log[Descriptor[h].topic_name][n]
        BY <4>1, <4>2, LogKeeps
      <4> QED
        BY <4>2, <4>3 DEF Carries, EventAt
    <3>6. status'[t] = "none"
      <4>1. status'[t] # "none" <=> Carries(h, n)' /\ HandedOver(e, h, n)'
        BY DEF DeliveryInv, DispatchedExactly
      <4> QED
        BY <3>1, <3>4, <3>5, <4>1
    <3> QED
      BY <3>6 DEF Live, Holding
  <2>3. CASE status[t] # "none"
    <3>1. status[t] \in Settled
      BY <2>1, <2>3 DEF DispatchTypeOK, Statuses
    <3>2. status'[t] = status[t]
      <4>1. CASE DispatchNext
        BY <2>1, <3>1, <4>1, SettledStable
      <4>2. CASE UNCHANGED dispatchVars
        BY <4>2 DEF dispatchVars
      <4> QED
        BY <2>1, <4>1, <4>2
    <3> QED
      BY <2>1, <3>2
  <2> QED
    BY <2>2, <2>3
<1> QED
  BY <1>1, <1>2 DEF Quiet, SubsEnded

\* The safety half of AbortQuiesces: once the streams of an aborted or crashed
\* executor have ended and its calls have settled, no event published later, no
\* other executor, flush or crash makes anything of it run again.
THEOREM RestIsFinal ==
  Spec => [][\A e \in Executors : Stopped(e) /\ Quiet(e) => (Stopped(e) /\ Quiet(e))']_vars
<1>1. /\ ExecInv /\ DispatchInv /\ DeliveryInv /\ DeliveryInv' /\ [Next]_vars
      => [\A e \in Executors : Stopped(e) /\ Quiet(e) => (Stopped(e) /\ Quiet(e))']_vars
  <2> SUFFICES ASSUME ExecInv, DispatchInv, DeliveryInv, DeliveryInv', [Next]_vars,
                      NEW e \in Executors, Stopped(e), Quiet(e)
               PROVE  Stopped(e)' /\ Quiet(e)'
    OBVIOUS
  <2> QED
    BY StoppedStays, QuietStays
<1> QED
  BY <1>1, DeliveryInvariant, PTL DEF Spec

=============================================================================
