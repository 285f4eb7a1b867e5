---------------------------- MODULE Host_proofs ----------------------------
(***************************************************************************)
(* Theorems about Host for every number of threads, every programs they    *)
(* run, and every set of handlers.                                         *)
(***************************************************************************)
EXTENDS Host, Telemetry_proofs

----------------------------------------------------------------------------
(* Registries.                                                             *)

\* A registry whose tables agree: each handler is filed under its own key as
\* often as in `all`, and under no other.
Agrees(reg) ==
  /\ reg \in Registries
  /\ \A k \in RegistryKeys, h \in Handlers :
       reg.by_topic_and_key[k][h] = IF k = TopicKey(h) THEN reg.all[h] ELSE 0

LEMMA TopicKeyType == \A h \in Handlers : TopicKey(h) \in RegistryKeys
BY DescriptorAssumption DEF TopicKey, RegistryKeys, HandlerDescriptors

LEMMA EmptyAgrees == Agrees(EmptyRegistry)
BY DEF Agrees, EmptyRegistry, Registries, Counts

LEMMA RegisterAgrees ==
  ASSUME NEW reg, Agrees(reg), NEW h \in Handlers
  PROVE  /\ Agrees(Register(reg, h))
         /\ \A g \in Handlers :
              Register(reg, h).all[g] = IF g = h THEN reg.all[h] + 1 ELSE reg.all[g]
<1>1. TopicKey(h) \in RegistryKeys
  BY TopicKeyType
<1>2. /\ reg \in Registries /\ reg.all \in Counts
      /\ reg.by_topic_and_key \in [RegistryKeys -> Counts]
  BY DEF Agrees, Registries
<1> DEFINE all == [reg.all EXCEPT ![h] = @ + 1]
           by == [reg.by_topic_and_key EXCEPT ![TopicKey(h)][h] = @ + 1]
<1>3. Register(reg, h) \in Registries /\ Register(reg, h).all = all
      /\ Register(reg, h).by_topic_and_key = by
  <2>1. all \in Counts
    BY <1>2 DEF Counts
  <2>2. reg.by_topic_and_key[TopicKey(h)] \in Counts
    BY <1>1, <1>2
  <2>3. [reg.by_topic_and_key[TopicKey(h)] EXCEPT ![h] = @ + 1] \in Counts
    BY <2>2 DEF Counts
  <2>4. by \in [RegistryKeys -> Counts]
    BY <1>1, <1>2, <2>3
  <2>5. Register(reg, h) = [all |-> all, by_topic_and_key |-> by]
    BY DEF Register
  <2> QED
    BY <2>1, <2>4, <2>5 DEF Registries
<1>4. \A g \in Handlers : all[g] = IF g = h THEN reg.all[h] + 1 ELSE reg.all[g]
  BY <1>2 DEF Counts
<1>5. ASSUME NEW k \in RegistryKeys, NEW g \in Handlers
      PROVE  by[k][g] = IF k = TopicKey(h) /\ g = h THEN reg.by_topic_and_key[k][g] + 1
                        ELSE reg.by_topic_and_key[k][g]
  <2>1. by[k] = IF k = TopicKey(h)
                THEN [reg.by_topic_and_key[k] EXCEPT ![h] = @ + 1]
                ELSE reg.by_topic_and_key[k]
    BY <1>2
  <2>2. reg.by_topic_and_key[k] \in Counts
    BY <1>2
  <2> QED
    BY <2>1, <2>2 DEF Counts
<1>6. ASSUME NEW k \in RegistryKeys, NEW g \in Handlers
      PROVE  by[k][g] = IF k = TopicKey(g) THEN all[g] ELSE 0
  <2>1. reg.by_topic_and_key[k][g] = IF k = TopicKey(g) THEN reg.all[g] ELSE 0
    BY DEF Agrees
  <2> QED
    BY <1>4, <1>5, <2>1
<1> QED
  BY <1>3, <1>4, <1>6 DEF Agrees

LEMMA ServedFacts ==
  ASSUME NEW reg, Agrees(reg), NEW topic \in Topics, NEW key \in OptKeys, NEW h \in Handlers
  PROVE  Served(reg, topic, key, h) = handlers_for_event(reg, topic, key)[h]
<1> DEFINE d == Descriptor[h]
<1>1. d \in HandlerDescriptors /\ TopicKey(h) = <<d.topic_name, d.topic_key_filter>>
  BY DescriptorAssumption DEF TopicKey
<1>2. <<topic, None>> \in RegistryKeys /\ <<topic, key>> \in RegistryKeys
  BY DEF RegistryKeys, OptKeys
<1>3. reg.all[h] \in Nat
  BY DEF Agrees, Registries, Counts
<1>4. handlers_for_topic_key(reg, <<topic, None>>)[h]
        = IF d.topic_name = topic /\ d.topic_key_filter = None THEN reg.all[h] ELSE 0
  BY <1>1, <1>2 DEF Agrees, handlers_for_topic_key
<1>5. handlers_for_topic_key(reg, <<topic, key>>)[h]
        = IF d.topic_name = topic /\ d.topic_key_filter = key THEN reg.all[h] ELSE 0
  BY <1>1, <1>2 DEF Agrees, handlers_for_topic_key
<1>6. handlers_for_event(reg, topic, key)[h]
        = IF d.topic_name = topic /\ d.topic_key_filter \in {None, key}
          THEN reg.all[h] ELSE 0
  BY <1>1 DEF handlers_for_event, MatchesEvent
<1> HIDE DEF d
<1> QED
  BY <1>3, <1>4, <1>5, <1>6 DEF Served

----------------------------------------------------------------------------
(* The inductive invariant.                                                *)

\* Where a thread is inside a call, what it has read and done there: cells that
\* were set when it entered system_valence are still set to the same factory.
ThreadOK(th) ==
  /\ at[th] # "start" => next[th] <= Len(program[th])
  /\ at[th] = "fallback" => Call(th).op = "system_valence" /\ began[th][2] = None
  /\ at[th] \in {"pinned", "discovering"} =>
       Call(th).op = "build_photon_runtime" /\ process_cell # None
  /\ began[th][1] # None => process_cell = began[th][1]
  /\ began[th][2] # None => system_cell = began[th][2]
  /\ Agrees(registry[th])
  /\ at[th] = "discovering" => \A h \in Handlers : registry[th].all[h] \in {0, 1}

OrderedOK(th) ==
  AfterSystemValence(th) /\ at[th] = "start" =>
    LET r == result[th]
    IN  /\ began[th][2] # None => r.used = began[th][2]
        /\ r.outcome = "not_installed" => began[th] = <<None, None>>
        /\ r.used # None => r.used \in {process_cell, system_cell}

HostInv ==
  /\ HostTypeOK
  /\ next \in [Threads -> Nat]
  /\ \A th \in Threads : ThreadOK(th) /\ OrderedOK(th)

----------------------------------------------------------------------------
(* What a step does.                                                       *)

\* A call of a program, and the fields it has.
LEMMA CallFacts ==
  ASSUME HostTypeOK, NEW th \in Threads, next[th] <= Len(program[th])
  PROVE  /\ Call(th) \in HostCalls /\ CallShape(Call(th))
         /\ next[th] \in 1 .. Len(program[th]) /\ Len(program[th]) \in Nat
<1>1. program \in [Threads -> Seq(HostCalls)]
  BY HostAssumption DEF HostTypeOK
<1>2. program[th] \in Seq(HostCalls) /\ Len(program[th]) \in Nat
  BY <1>1
<1>3. next[th] \in 1 .. Len(program[th])
  BY <1>2 DEF HostTypeOK
<1> QED
  BY <1>2, <1>3, HostAssumption DEF Call

LEMMA FactoryFacts ==
  ASSUME HostTypeOK, NEW th \in Threads, next[th] <= Len(program[th]),
         Call(th).op \in {"set_process", "set_system", "build_photon_runtime"}
  PROVE  Call(th).factory \in ValenceFactories /\ Call(th).factory # None
BY CallFacts, HostAssumption DEF CallShape

\* A cell that is set stays as it is.
LEMMA CellsStay ==
  ASSUME NEW th \in Threads, ThreadStep(th)
  PROVE  /\ process_cell # None => process_cell' = process_cell
         /\ system_cell # None => system_cell' = system_cell
BY DEF ThreadStep, SetProcess, SetSystem, ReadSystemCell, ReadProcessCell, PinFactory,
   BuildParts, DiscoverHandler, StartTasks, RegisterByHand, Ask, OnceSet, cells

\* What the end of a call and the way inside it do to the threads' places.
LEMMA GoOnFacts ==
  ASSUME HostTypeOK, next \in [Threads -> Nat], NEW th \in Threads, NEW point \in Points,
         GoOn(th, point)
  PROVE  /\ at' \in [Threads -> Points] /\ at'[th] = point
         /\ \A u \in Threads \ {th} : at'[u] = at[u]
         /\ program' = program /\ next' = next /\ result' = result
BY DEF HostTypeOK, GoOn

\* The end of a call, by returning or by unwinding.
Ends(th, outcome, used) ==
  /\ at' \in [Threads -> Points] /\ at'[th] = "start"
  /\ program' = program
  /\ next' \in [Threads -> Nat]
  /\ \A u \in Threads : next'[u] \in 1 .. Len(program[u]) + 1
  /\ result' \in [Threads -> Results \cup {None}]
  /\ result'[th] = [call |-> Call(th), outcome |-> outcome, used |-> used]
  /\ \A u \in Threads \ {th} :
       at'[u] = at[u] /\ next'[u] = next[u] /\ result'[u] = result[u]

LEMMA EndsFacts ==
  ASSUME HostTypeOK, next \in [Threads -> Nat], NEW th \in Threads,
         next[th] <= Len(program[th]),
         NEW outcome \in Outcomes, NEW used \in OptFactories,
         \/ Return(th, outcome, used)
         \/ Panic(th) /\ outcome = "panicked" /\ used = None
  PROVE  Ends(th, outcome, used)
<1> DEFINE r == [call |-> Call(th), outcome |-> outcome, used |-> used]
<1>1. r \in Results
  BY CallFacts DEF Results
<1>2. /\ result' = [result EXCEPT ![th] = r] /\ program' = program
      /\ at' = [at EXCEPT ![th] = "start"]
  BY DEF Return, Panic
<1>3. PICK n \in 1 .. Len(program[th]) + 1 : next' = [next EXCEPT ![th] = n]
  <2>1. next[th] + 1 \in 1 .. Len(program[th]) + 1
    BY CallFacts
  <2>2. Len(program[th]) + 1 \in 1 .. Len(program[th]) + 1
    BY CallFacts
  <2>3. CASE Return(th, outcome, used)
    BY <2>1, <2>3 DEF Return
  <2>4. CASE Panic(th)
    BY <2>1, <2>2, <2>4 DEF Panic
  <2> QED
    BY <2>3, <2>4
<1>4. n \in Nat
  BY CallFacts, <1>3
<1> HIDE DEF r
<1>5. /\ result' \in [Threads -> Results \cup {None}] /\ result'[th] = r
      /\ at' \in [Threads -> Points] /\ at'[th] = "start"
      /\ next' \in [Threads -> Nat] /\ next'[th] = n
      /\ \A u \in Threads \ {th} :
           at'[u] = at[u] /\ next'[u] = next[u] /\ result'[u] = result[u]
  BY <1>1, <1>2, <1>3, <1>4 DEF HostTypeOK, Points
<1>6. \A u \in Threads : next'[u] \in 1 .. Len(program[u]) + 1
  BY <1>3, <1>5 DEF HostTypeOK
<1> QED
  BY <1>2, <1>5, <1>6 DEF Ends, r

\* What the invariant says of a thread outlasts the steps of the others.
LEMMA OthersKeep ==
  ASSUME HostInv, NEW th \in Threads, ThreadStep(th), NEW u \in Threads \ {th},
         program' = program, next'[u] = next[u], at'[u] = at[u], result'[u] = result[u],
         registry'[u] = registry[u], began'[u] = began[u]
  PROVE  ThreadOK(u)' /\ OrderedOK(u)'
<1>1. /\ process_cell # None => process_cell' = process_cell
      /\ system_cell # None => system_cell' = system_cell
  BY CellsStay
<1>2. ThreadOK(u) /\ OrderedOK(u)
  BY DEF HostInv
<1>3. ThreadOK(u)'
  <2>1. Call(u)' = Call(u)
    BY DEF Call
  <2> QED
    BY <1>1, <1>2, <2>1 DEF ThreadOK, Agrees
<1>4. OrderedOK(u)'
  BY <1>1, <1>2 DEF OrderedOK, AfterSystemValence
<1> QED
  BY <1>3, <1>4

\* The threads' places after a step of thread th.
Moves(th) ==
  /\ program' = program
  /\ next' \in [Threads -> Nat]
  /\ \A u \in Threads : next'[u] \in 1 .. Len(program[u]) + 1
  /\ at' \in [Threads -> Points]
  /\ result' \in [Threads -> Results \cup {None}]
  /\ \A u \in Threads \ {th} :
       at'[u] = at[u] /\ next'[u] = next[u] /\ result'[u] = result[u]

\* What it has in hand, and what it did to the cells and the runtimes.
Keeps(th) ==
  /\ \/ registry' = registry
     \/ \E reg \in Registries : registry' = [registry EXCEPT ![th] = reg]
  /\ began' = began \/ began' = [began EXCEPT ![th] = cells]
  /\ system_cell' \in {system_cell} \cup ValenceFactories
  /\ process_cell' \in {process_cell} \cup ValenceFactories
  /\ \/ runtimes' = runtimes
     \/ \E r : /\ runtimes' = runtimes \cup {r} /\ process_cell # None
               /\ r.factory \in ValenceFactories

LEMMA GoOnMoves ==
  ASSUME HostTypeOK, next \in [Threads -> Nat], NEW th \in Threads, NEW point \in Points,
         GoOn(th, point)
  PROVE  Moves(th)
BY GoOnFacts DEF Moves, HostTypeOK

LEMMA EndsMoves ==
  ASSUME NEW th \in Threads, NEW outcome, NEW used, Ends(th, outcome, used)
  PROVE  Moves(th)
BY DEF Moves, Ends

LEMMA Reassemble ==
  ASSUME HostInv, NEW th \in Threads, ThreadStep(th), Moves(th), Keeps(th),
         ThreadOK(th)', OrderedOK(th)'
  PROVE  HostInv'
<1>1. HostTypeOK
  BY DEF HostInv
<1>2. /\ process_cell # None => process_cell' = process_cell
      /\ system_cell # None => system_cell' = system_cell
  BY CellsStay
<1>3. cells \in OptFactories \X OptFactories
  BY <1>1 DEF HostTypeOK, cells
<1>4. /\ registry' \in [Threads -> Registries]
      /\ began' \in [Threads -> OptFactories \X OptFactories]
      /\ \A u \in Threads \ {th} : registry'[u] = registry[u] /\ began'[u] = began[u]
  BY <1>1, <1>3 DEF HostTypeOK, Keeps
<1>5. process_cell' \in OptFactories /\ system_cell' \in OptFactories
  BY <1>1 DEF HostTypeOK, Keeps, OptFactories
<1>6. \A r \in runtimes' : r.factory \in ValenceFactories /\ process_cell' # None
  BY <1>1, <1>2 DEF HostTypeOK, Keeps
<1>7. HostTypeOK'
  BY <1>1, <1>4, <1>5, <1>6 DEF HostTypeOK, Moves
<1>8. \A u \in Threads \ {th} : ThreadOK(u)' /\ OrderedOK(u)'
  BY <1>4, OthersKeep DEF Moves
<1> QED
  BY <1>7, <1>8 DEF HostInv, Moves

----------------------------------------------------------------------------
(* The actions.                                                            *)

\* Calls that are over at once and do not ask system_valence.
LEMMA OneStepCalls ==
  ASSUME HostInv, NEW th \in Threads, SetProcess(th) \/ SetSystem(th) \/ RegisterByHand(th) \/ Ask(th)
  PROVE  HostInv'
<1>1. /\ next[th] <= Len(program[th]) /\ Call(th).op # "system_valence"
      /\ ThreadOK(th) /\ HostTypeOK /\ next \in [Threads -> Nat]
  BY DEF SetProcess, SetSystem, RegisterByHand, Ask, In, PureOps, RegistryOps, HostInv
<1>2. PICK outcome \in Outcomes : Return(th, outcome, None)
  <2>1. CASE SetProcess(th) \/ SetSystem(th) \/ RegisterByHand(th)
    <3>1. Return(th, "ok", None)
      BY <2>1 DEF SetProcess, SetSystem, RegisterByHand
    <3>2. "ok" \in Outcomes
      BY DEF Outcomes
    <3> QED
      BY <3>1, <3>2
  <2>2. CASE Ask(th)
    <3>1. Return(th, Answer(registry[th], Call(th)), None) /\ Call(th).op \in PureOps
      BY <2>2 DEF Ask, In
    <3>2. \A f, text : Build(f, text) \in Outcomes /\ Reconstruct(f, text) \in Outcomes
      BY DEF Build, Reconstruct, Outcomes
    <3>3. Answer(registry[th], Call(th)) \in Outcomes
      BY <3>2 DEF Answer, Outcomes
    <3> QED
      BY <3>1, <3>3
  <2> QED
    BY <2>1, <2>2
<1>3. Ends(th, outcome, None)
  BY <1>1, <1>2, EndsFacts DEF OptFactories
<1>4. /\ Moves(th) /\ at'[th] = "start" /\ ~AfterSystemValence(th)'
  <2>1. result'[th].call = Call(th)
    BY <1>3 DEF Ends
  <2> QED
    BY <1>1, <1>3, <2>1, EndsMoves DEF Ends, AfterSystemValence
<1>5. /\ process_cell' \in {process_cell, Call(th).factory}
      /\ process_cell' # process_cell => Call(th).op = "set_process"
      /\ system_cell' \in {system_cell, Call(th).factory}
      /\ system_cell' # system_cell => Call(th).op = "set_system"
      /\ process_cell # None => process_cell' = process_cell
      /\ system_cell # None => system_cell' = system_cell
      /\ began' = began /\ runtimes' = runtimes
  BY DEF SetProcess, SetSystem, RegisterByHand, Ask, OnceSet, cells, In
<1>6. PICK reg : /\ Agrees(reg) /\ registry'[th] = reg
                 /\ registry' = registry \/ registry' = [registry EXCEPT ![th] = reg]
  <2>1. CASE RegisterByHand(th)
    <3>1. Call(th).handler \in Handlers
      BY <1>1, <2>1, CallFacts DEF RegisterByHand, In, CallShape
    <3> QED
      BY <1>1, <2>1, <3>1, RegisterAgrees DEF RegisterByHand, ThreadOK, HostTypeOK
  <2>2. CASE ~RegisterByHand(th)
    BY <1>1, <2>2 DEF SetProcess, SetSystem, Ask, ThreadOK
  <2> QED
    BY <2>1, <2>2
<1>7. Keeps(th)
  BY <1>1, <1>5, <1>6, FactoryFacts DEF Keeps, Agrees
<1>8. ThreadOK(th)'
  BY <1>1, <1>4, <1>5, <1>6 DEF ThreadOK, Agrees
<1>9. OrderedOK(th)'
  BY <1>4 DEF OrderedOK
<1> QED
  BY <1>4, <1>7, <1>8, <1>9, Reassemble DEF ThreadStep

LEMMA BuildOutcomes == \A f, json : Build(f, json) \in Outcomes \ {"not_installed"}
BY DEF Build, Outcomes

LEMMA ReadsSystemCell ==
  ASSUME HostInv, NEW th \in Threads, ReadSystemCell(th)
  PROVE  HostInv'
<1>1. /\ next[th] <= Len(program[th]) /\ Call(th).op = "system_valence"
      /\ ThreadOK(th) /\ HostTypeOK /\ next \in [Threads -> Nat]
  BY DEF ReadSystemCell, In, HostInv
<1>2. /\ began' = [began EXCEPT ![th] = cells] /\ cells' = cells
      /\ registry' = registry /\ runtimes' = runtimes
  BY DEF ReadSystemCell
<1>3. began'[th] = <<process_cell, system_cell>>
  BY <1>1, <1>2 DEF HostTypeOK, cells
<1>4. process_cell' = process_cell /\ system_cell' = system_cell
  BY <1>2 DEF cells
<1>5. Keeps(th)
  BY <1>2, <1>4 DEF Keeps
<1>6. CASE system_cell # None
  <2>1. Ends(th, Build(system_cell, "system"), system_cell)
    BY <1>1, <1>6, BuildOutcomes, EndsFacts
    DEF ReadSystemCell, ReturnSystem, HostTypeOK
  <2>2. Moves(th) /\ at'[th] = "start" /\ result'[th].used = system_cell
        /\ result'[th].outcome # "not_installed"
    BY <2>1, BuildOutcomes, EndsMoves DEF Ends
  <2>3. ThreadOK(th)'
    BY <1>1, <1>2, <1>3, <1>4, <2>2 DEF ThreadOK, Agrees
  <2>4. OrderedOK(th)'
    BY <1>3, <1>4, <2>2 DEF OrderedOK
  <2> QED
    BY <1>5, <2>2, <2>3, <2>4, Reassemble DEF ThreadStep
<1>7. CASE system_cell = None
  <2>1. GoOn(th, "fallback")
    BY <1>7 DEF ReadSystemCell
  <2>2. Moves(th) /\ at'[th] = "fallback" /\ next' = next /\ program' = program
    BY <1>1, <2>1, GoOnFacts, GoOnMoves DEF Points
  <2>3. Call(th)' = Call(th)
    BY <2>2 DEF Call
  <2>4. ThreadOK(th)'
    BY <1>1, <1>2, <1>3, <1>4, <1>7, <2>2, <2>3 DEF ThreadOK, Agrees
  <2>5. OrderedOK(th)'
    BY <2>2 DEF OrderedOK
  <2> QED
    BY <1>5, <2>2, <2>4, <2>5, Reassemble DEF ThreadStep
<1> QED
  BY <1>6, <1>7

LEMMA ReadsProcessCell ==
  ASSUME HostInv, NEW th \in Threads, ReadProcessCell(th)
  PROVE  HostInv'
<1>1. /\ next[th] <= Len(program[th]) /\ began[th][2] = None
      /\ ThreadOK(th) /\ HostTypeOK /\ next \in [Threads -> Nat]
  BY DEF ReadProcessCell, In, HostInv, ThreadOK
<1>2. /\ process_cell' = process_cell /\ system_cell' = system_cell
      /\ registry' = registry /\ began' = began /\ runtimes' = runtimes
  BY DEF ReadProcessCell, cells
<1>3. Keeps(th)
  BY <1>2 DEF Keeps
<1>4. \E outcome \in Outcomes :
        /\ Ends(th, outcome, process_cell)
        /\ outcome = "not_installed" => process_cell = None
  <2>1. CASE process_cell # None
    BY <1>1, <2>1, BuildOutcomes, EndsFacts
    DEF ReadProcessCell, ReturnSystem, HostTypeOK
  <2>2. CASE process_cell = None
    <3>1. "not_installed" \in Outcomes /\ None \in OptFactories
      BY DEF Outcomes, OptFactories
    <3>2. Return(th, "not_installed", process_cell)
      BY <2>2 DEF ReadProcessCell
    <3> QED
      BY <1>1, <2>2, <3>1, <3>2, EndsFacts
  <2> QED
    BY <2>1, <2>2
<1>5. PICK outcome \in Outcomes :
        /\ Ends(th, outcome, process_cell)
        /\ outcome = "not_installed" => process_cell = None
  BY <1>4
<1>6. Moves(th) /\ at'[th] = "start" /\ result'[th].used = process_cell
      /\ result'[th].outcome = outcome
  BY <1>5, EndsMoves DEF Ends
<1>7. ThreadOK(th)'
  BY <1>1, <1>2, <1>6 DEF ThreadOK, Agrees
<1>8. OrderedOK(th)'
  <2>1. process_cell = None => began[th] = <<None, None>>
    <3>1. began[th] \in OptFactories \X OptFactories
      BY <1>1 DEF HostTypeOK
    <3> QED
      BY <1>1, <3>1 DEF ThreadOK
  <2> QED
    BY <1>1, <1>2, <1>5, <1>6, <2>1 DEF OrderedOK
<1> QED
  BY <1>3, <1>6, <1>7, <1>8, Reassemble DEF ThreadStep

LEMMA PinsFactory ==
  ASSUME HostInv, NEW th \in Threads, PinFactory(th)
  PROVE  HostInv'
<1>1. /\ next[th] <= Len(program[th]) /\ Call(th).op = "build_photon_runtime"
      /\ ThreadOK(th) /\ HostTypeOK /\ next \in [Threads -> Nat]
  BY DEF PinFactory, In, HostInv
<1>2. Call(th).factory \in ValenceFactories /\ Call(th).factory # None
  BY <1>1, FactoryFacts
<1>3. /\ process_cell' = OnceSet(process_cell, Call(th).factory) /\ system_cell' = system_cell
      /\ registry' = registry /\ began' = began /\ runtimes' = runtimes
      /\ GoOn(th, "pinned")
  BY DEF PinFactory
<1>4. process_cell' # None /\ (process_cell # None => process_cell' = process_cell)
  BY <1>2, <1>3 DEF OnceSet
<1>5. Keeps(th)
  BY <1>2, <1>3 DEF Keeps, OnceSet
<1>6. Moves(th) /\ at'[th] = "pinned" /\ next' = next /\ program' = program
  BY <1>1, <1>3, GoOnFacts, GoOnMoves DEF Points
<1>7. Call(th)' = Call(th)
  BY <1>6 DEF Call
<1>8. ThreadOK(th)'
  BY <1>1, <1>3, <1>4, <1>6, <1>7 DEF ThreadOK, Agrees
<1>9. OrderedOK(th)'
  BY <1>6 DEF OrderedOK
<1> QED
  BY <1>5, <1>6, <1>8, <1>9, Reassemble DEF ThreadStep

LEMMA BuildsParts ==
  ASSUME HostInv, NEW th \in Threads, BuildParts(th)
  PROVE  HostInv'
<1>1. /\ next[th] <= Len(program[th]) /\ Call(th).op = "build_photon_runtime"
      /\ ThreadOK(th) /\ HostTypeOK /\ next \in [Threads -> Nat] /\ process_cell # None
  BY DEF BuildParts, In, HostInv, ThreadOK
<1>2. /\ process_cell' = process_cell /\ system_cell' = system_cell
      /\ began' = began /\ runtimes' = runtimes
  BY DEF BuildParts, cells
<1>3. CASE Call(th).parts_ok
  <2>1. registry' = [registry EXCEPT ![th] = EmptyRegistry] /\ GoOn(th, "discovering")
    BY <1>3 DEF BuildParts
  <2>2. registry'[th] = EmptyRegistry /\ Agrees(EmptyRegistry)
    BY <1>1, <2>1, EmptyAgrees DEF HostTypeOK
  <2>3. Moves(th) /\ at'[th] = "discovering" /\ next' = next /\ program' = program
    BY <1>1, <2>1, GoOnFacts, GoOnMoves DEF Points
  <2>4. Call(th)' = Call(th)
    BY <2>3 DEF Call
  <2>5. \A h \in Handlers : EmptyRegistry.all[h] = 0
    BY DEF EmptyRegistry
  <2>6. ThreadOK(th)'
    BY <1>1, <1>2, <2>2, <2>3, <2>4, <2>5 DEF ThreadOK, Agrees
  <2>7. OrderedOK(th)'
    BY <2>3 DEF OrderedOK
  <2>8. Keeps(th)
    BY <1>2, <2>1, <2>2 DEF Keeps, Agrees
  <2> QED
    BY <2>3, <2>6, <2>7, <2>8, Reassemble DEF ThreadStep
<1>4. CASE ~Call(th).parts_ok
  <2>1. Return(th, "parts_error", None) /\ registry' = registry
    BY <1>4 DEF BuildParts
  <2>2. Ends(th, "parts_error", None)
    BY <1>1, <2>1, EndsFacts DEF OptFactories, Outcomes
  <2>3. Moves(th) /\ at'[th] = "start" /\ ~AfterSystemValence(th)'
    BY <1>1, <2>2, EndsMoves DEF Ends, AfterSystemValence
  <2>4. Keeps(th)
    BY <1>2, <2>1 DEF Keeps
  <2>5. ThreadOK(th)'
    BY <1>1, <1>2, <2>1, <2>3 DEF ThreadOK, Agrees
  <2>6. OrderedOK(th)'
    BY <2>3 DEF OrderedOK
  <2> QED
    BY <2>3, <2>4, <2>5, <2>6, Reassemble DEF ThreadStep
<1> QED
  BY <1>3, <1>4

LEMMA DiscoversHandler ==
  ASSUME HostInv, NEW th \in Threads, NEW h \in Handlers, DiscoverHandler(th, h)
  PROVE  HostInv'
<1>1. /\ next[th] <= Len(program[th]) /\ Call(th).op = "build_photon_runtime"
      /\ at[th] = "discovering" /\ process_cell # None /\ registry[th].all[h] = 0
      /\ ThreadOK(th) /\ HostTypeOK /\ next \in [Threads -> Nat]
  BY DEF DiscoverHandler, In, HostInv, ThreadOK
<1>2. /\ process_cell' = process_cell /\ system_cell' = system_cell
      /\ began' = began /\ runtimes' = runtimes /\ GoOn(th, "discovering")
      /\ registry' = [registry EXCEPT ![th] = Register(@, h)]
  BY DEF DiscoverHandler, cells
<1>3. /\ Agrees(Register(registry[th], h))
      /\ \A g \in Handlers : Register(registry[th], h).all[g] \in {0, 1}
  BY <1>1, RegisterAgrees DEF ThreadOK
<1>4. registry'[th] = Register(registry[th], h)
  BY <1>1, <1>2 DEF HostTypeOK
<1>5. Moves(th) /\ at'[th] = "discovering" /\ next' = next /\ program' = program
  BY <1>1, <1>2, GoOnFacts, GoOnMoves DEF Points
<1>6. Call(th)' = Call(th)
  BY <1>5 DEF Call
<1>7. Keeps(th)
  BY <1>2, <1>3 DEF Keeps, Agrees
<1>8. ThreadOK(th)'
  BY <1>1, <1>2, <1>3, <1>4, <1>5, <1>6 DEF ThreadOK, Agrees
<1>9. OrderedOK(th)'
  BY <1>5 DEF OrderedOK
<1> QED
  BY <1>5, <1>7, <1>8, <1>9, Reassemble DEF ThreadStep

LEMMA StartsTasks ==
  ASSUME HostInv, NEW th \in Threads, StartTasks(th)
  PROVE  HostInv'
<1>1. /\ next[th] <= Len(program[th]) /\ Call(th).op = "build_photon_runtime"
      /\ ThreadOK(th) /\ HostTypeOK /\ next \in [Threads -> Nat] /\ process_cell # None
  BY DEF StartTasks, In, HostInv, ThreadOK
<1>2. /\ process_cell' = process_cell /\ system_cell' = system_cell
      /\ began' = began /\ registry' = registry
  BY DEF StartTasks, cells
<1>3. Call(th).factory \in ValenceFactories
  BY <1>1, FactoryFacts
<1>4. /\ Keeps(th)
      /\ \E outcome \in Outcomes, used \in OptFactories : Ends(th, outcome, used)
  <2>1. CASE /\ Return(th, "ok", Call(th).factory)
             /\ runtimes' = runtimes \cup
                  {[factory |-> Call(th).factory, streams |-> Streams(registry[th])]}
    <3> DEFINE r == [factory |-> Call(th).factory, streams |-> Streams(registry[th])]
    <3>1. r.factory = Call(th).factory /\ runtimes' = runtimes \cup {r}
      BY <2>1
    <3> HIDE DEF r
    <3>2. Keeps(th)
      BY <1>1, <1>2, <1>3, <3>1 DEF Keeps
    <3>3. "ok" \in Outcomes /\ Call(th).factory \in OptFactories
      BY <1>3 DEF Outcomes, OptFactories
    <3> QED
      BY <1>1, <2>1, <3>2, <3>3, EndsFacts
  <2>2. CASE Panic(th) /\ runtimes' = runtimes
    <3>1. Keeps(th)
      BY <1>2, <2>2 DEF Keeps
    <3>2. "panicked" \in Outcomes /\ None \in OptFactories
      BY DEF Outcomes, OptFactories
    <3> QED
      BY <1>1, <2>2, <3>1, <3>2, EndsFacts
  <2> QED
    BY <2>1, <2>2 DEF StartTasks
<1>5. Moves(th) /\ at'[th] = "start" /\ ~AfterSystemValence(th)'
  BY <1>1, <1>4, EndsMoves DEF Ends, AfterSystemValence
<1>6. ThreadOK(th)'
  BY <1>1, <1>2, <1>5 DEF ThreadOK, Agrees
<1>7. OrderedOK(th)'
  BY <1>5 DEF OrderedOK
<1> QED
  BY <1>4, <1>5, <1>6, <1>7, Reassemble DEF ThreadStep

----------------------------------------------------------------------------
(* The invariant holds.                                                    *)

LEMMA InitHost == Init => HostInv
<1> SUFFICES ASSUME Init PROVE HostInv
  OBVIOUS
<1>1. program \in [Threads -> Seq(HostCalls)]
  BY HostAssumption DEF Init
<1>2. \A th \in Threads : Len(program[th]) \in Nat
  BY <1>1
<1>3. Agrees(EmptyRegistry) /\ EmptyRegistry \in Registries
  BY EmptyAgrees DEF Agrees
<1>4. HostTypeOK
  BY <1>2, <1>3 DEF Init, HostTypeOK, OptFactories, Points
<1>5. \A th \in Threads : ThreadOK(th) /\ OrderedOK(th)
  BY <1>3 DEF Init, ThreadOK, OrderedOK, AfterSystemValence
<1>6. next \in [Threads -> Nat]
  BY DEF Init
<1> QED
  BY <1>4, <1>5, <1>6 DEF HostInv

LEMMA NextHost == HostInv /\ [Next]_vars => HostInv'
<1> SUFFICES ASSUME HostInv, [Next]_vars PROVE HostInv'
  OBVIOUS
<1>1. CASE UNCHANGED vars
  <2>1. /\ process_cell' = process_cell /\ system_cell' = system_cell
        /\ program' = program /\ next' = next /\ at' = at /\ registry' = registry
        /\ result' = result /\ began' = began /\ runtimes' = runtimes
    BY <1>1 DEF vars, cells
  <2>2. HostTypeOK'
    BY <2>1 DEF HostInv, HostTypeOK
  <2>3. \A th \in Threads : OrderedOK(th)'
    BY <2>1 DEF HostInv, OrderedOK, AfterSystemValence
  <2>4. \A th \in Threads : ThreadOK(th)'
    BY <2>1 DEF HostInv, ThreadOK, Call, Agrees
  <2> QED
    BY <2>1, <2>2, <2>3, <2>4 DEF HostInv
<1>2. ASSUME NEW th \in Threads, ThreadStep(th) PROVE HostInv'
  BY <1>2, OneStepCalls, ReadsSystemCell, ReadsProcessCell, PinsFactory, BuildsParts,
     DiscoversHandler, StartsTasks DEF ThreadStep
<1> QED
  BY <1>1, <1>2 DEF Next

LEMMA HostInvariant == Spec => []HostInv
BY InitHost, NextHost, PTL DEF Spec

\* Whatever the threads do, the cells, the programs' places and the registries
\* keep their types, and no runtime serves events before a process factory is
\* pinned.
THEOREM HostTypes == Spec => []HostTypeOK
<1>1. HostInv => HostTypeOK
  BY DEF HostInv
<1> QED
  BY <1>1, HostInvariant, PTL

\* system_valence honours the priority of the system factory, and any factory
\* pinned before the call, however its two reads interleave with the sets of
\* any number of other threads.
THEOREM ValenceOrdered == Spec => []SystemValenceOrdered
<1>1. HostInv => SystemValenceOrdered
  BY DEF HostInv, OrderedOK, SystemValenceOrdered
<1> QED
  BY <1>1, HostInvariant, PTL

\* The two tables of HandlerRegistry agree after any sequence of register calls:
\* the streams of an event's topic take it to a handler as often as `all` says.
THEOREM ServedOnce == Spec => []EachServedOnce
<1>1. HostInv => EachServedOnce
  BY ServedFacts DEF HostInv, ThreadOK, EachServedOnce
<1> QED
  BY <1>1, HostInvariant, PTL

----------------------------------------------------------------------------
(* The first attempt to pin a process factory.                             *)

Pins(c) == c.op \in {"set_process", "build_photon_runtime"}

LEMMA AttemptFacts ==
  ASSUME HostTypeOK, NEW th \in Threads
  PROVE  /\ next[th] \in Nat /\ Len(program[th]) \in Nat
         /\ \A i : i \in Attempts(th) <=>
              /\ i \in 1 .. Len(program[th]) /\ Pins(program[th][i])
              /\ i < next[th] \/ (i = next[th] /\ at[th] # "start")
         /\ \A i \in 1 .. Len(program[th]) :
              Pins(program[th][i]) => program[th][i].factory # None
<1>1. program \in [Threads -> Seq(HostCalls)]
  BY HostAssumption DEF HostTypeOK
<1>2. program[th] \in Seq(HostCalls) /\ Len(program[th]) \in Nat
  BY <1>1
<1>3. next[th] \in Nat
  BY <1>2 DEF HostTypeOK
<1>4. \A i \in 1 .. Len(program[th]) : CallShape(program[th][i])
  BY <1>2, HostAssumption
<1>5. ASSUME NEW i \in 1 .. Len(program[th]), Pins(program[th][i])
      PROVE  program[th][i].factory # None
  BY <1>4, <1>5, HostAssumption DEF CallShape, Pins
<1>6. \A i : i \in Attempts(th) <=>
        /\ i \in 1 .. Len(program[th]) /\ Pins(program[th][i])
        /\ i < next[th] \/ (i = next[th] /\ at[th] # "start")
  BY DEF Attempts, Pins
<1> QED
  BY <1>2, <1>3, <1>5, <1>6

\* A step of a thread tries what lies behind what it has tried already.
AttemptsGrow(u) ==
  /\ Attempts(u) \subseteq Attempts(u)'
  /\ \A i \in Attempts(u), j \in Attempts(u)' : j \in Attempts(u) \/ i <= j

LEMMA StepAttempts ==
  ASSUME HostInv, HostInv', NEW th \in Threads, ThreadStep(th)
  PROVE  /\ program' = program
         /\ \A u \in Threads \ {th} : Attempts(u)' = Attempts(u)
         /\ AttemptsGrow(th)
<1>1. HostTypeOK /\ HostTypeOK' /\ next \in [Threads -> Nat] /\ at \in [Threads -> Points]
  BY DEF HostInv, HostTypeOK
<1>2. \/ at[th] = "start" /\ \E point \in Points : GoOn(th, point)
      \/ GoOn(th, "discovering")
      \/ \E outcome, used : Return(th, outcome, used)
      \/ Panic(th)
  BY DEF ThreadStep, SetProcess, SetSystem, ReadSystemCell, ReadProcessCell, PinFactory,
     BuildParts, DiscoverHandler, StartTasks, RegisterByHand, Ask, ReturnSystem, Points, In
<1>3. program' = program /\ \A u \in Threads \ {th} : next'[u] = next[u] /\ at'[u] = at[u]
  BY <1>1, <1>2 DEF GoOn, Return, Panic
<1>4. \A u \in Threads \ {th} : Attempts(u)' = Attempts(u)
  BY <1>3 DEF Attempts
<1>5. /\ next[th] <= Len(program[th])
      /\ next[th] \in Nat /\ Len(program[th]) \in Nat /\ next'[th] \in Nat
  <2>1. next[th] <= Len(program[th])
    BY DEF ThreadStep, SetProcess, SetSystem, ReadSystemCell, ReadProcessCell, PinFactory,
       BuildParts, DiscoverHandler, StartTasks, RegisterByHand, Ask, In
  <2>2. next' \in [Threads -> Nat]
    BY DEF HostInv
  <2> QED
    BY <1>1, <2>1, <2>2, AttemptFacts
<1>6. \/ next'[th] = next[th] /\ (at[th] = "start" \/ at'[th] # "start")
      \/ next[th] < next'[th]
  BY <1>1, <1>2, <1>5 DEF GoOn, Return, Panic
<1>7. \A i : i \in Attempts(th)' <=>
        /\ i \in 1 .. Len(program[th]) /\ Pins(program[th][i])
        /\ i < next'[th] \/ (i = next'[th] /\ at'[th] # "start")
  BY <1>3 DEF Attempts, Pins
<1>8. AttemptsGrow(th)
  BY <1>1, <1>5, <1>6, <1>7, AttemptFacts DEF AttemptsGrow
<1> QED
  BY <1>3, <1>4, <1>8

\* A thread that has tried nothing and now does neither of the two calls' first
\* step has tried nothing still.
LEMMA NothingTried ==
  ASSUME HostInv, NEW th \in Threads, ThreadStep(th), Attempts(th) = {},
         ~SetProcess(th), ~PinFactory(th)
  PROVE  Attempts(th)' = {}
<1>1. HostTypeOK /\ next \in [Threads -> Nat] /\ at \in [Threads -> Points]
  BY DEF HostInv, HostTypeOK
<1>2. next[th] <= Len(program[th]) => next[th] \in 1 .. Len(program[th])
  BY <1>1, CallFacts
<1>3. ASSUME In(th, "build_photon_runtime", "pinned") \/ In(th, "build_photon_runtime", "discovering")
      PROVE  FALSE
  <2>1. next[th] \in 1 .. Len(program[th]) /\ Pins(program[th][next[th]]) /\ at[th] # "start"
    BY <1>2, <1>3 DEF In, Call, Pins
  <2>2. next[th] \in Attempts(th)
    BY <1>1, <2>1, AttemptFacts
  <2> QED
    BY <2>2
<1>4. ~BuildParts(th) /\ (\A h \in Handlers : ~DiscoverHandler(th, h)) /\ ~StartTasks(th)
  BY <1>3 DEF BuildParts, DiscoverHandler, StartTasks
<1>5. ~Pins(program[th][next[th]]) /\ program' = program
  BY <1>1, <1>4 DEF ThreadStep, SetSystem, ReadSystemCell, ReadProcessCell, RegisterByHand,
     Ask, ReturnSystem, In, Call, GoOn, Return, Pins, PureOps, RegistryOps
<1>6. \/ next'[th] = next[th]
      \/ next'[th] = next[th] + 1 /\ at'[th] = "start"
  BY <1>1, <1>4 DEF ThreadStep, SetSystem, ReadSystemCell, ReadProcessCell, RegisterByHand,
     Ask, ReturnSystem, GoOn, Return
<1>7. \A i : i \in Attempts(th)' <=>
        /\ i \in 1 .. Len(program[th]) /\ Pins(program[th][i])
        /\ i < next'[th] \/ (i = next'[th] /\ at'[th] # "start")
  BY <1>5 DEF Attempts, Pins
<1>8. ASSUME NEW i \in Attempts(th)' PROVE FALSE
  <2>1. /\ i \in 1 .. Len(program[th]) /\ Pins(program[th][i])
        /\ i < next'[th] \/ (i = next'[th] /\ at'[th] # "start")
    BY <1>7, <1>8
  <2>2. next[th] \in Nat
    BY <1>1, AttemptFacts
  <2>3. i # next[th]
    BY <1>5, <2>1
  <2>4. i < next[th]
    BY <1>6, <2>1, <2>2, <2>3
  <2> QED
    BY <1>1, <2>1, <2>4, AttemptFacts
<1> QED
  BY <1>8

\* Who is first stays first, and what is pinned stays pinned.
LEMMA AttemptStep ==
  HostInv /\ HostInv' /\ FirstAttemptPins /\ [Next]_vars => FirstAttemptPins'
<1> SUFFICES ASSUME HostInv, HostInv', FirstAttemptPins, [Next]_vars PROVE FirstAttemptPins'
  OBVIOUS
<1>1. HostTypeOK /\ next \in [Threads -> Nat] /\ at \in [Threads -> Points]
  BY DEF HostInv, HostTypeOK
<1>2. CASE UNCHANGED vars
  <2>1. process_cell' = process_cell /\ program' = program
        /\ \A u \in Threads : Attempts(u)' = Attempts(u)
    BY <1>2 DEF vars, cells, Attempts
  <2> QED
    BY <2>1 DEF FirstAttemptPins
<1>3. CASE Next
  <2>1. PICK th \in Threads : ThreadStep(th)
    BY <1>3 DEF Next
  <2>2. /\ program' = program
        /\ \A u \in Threads \ {th} : Attempts(u)' = Attempts(u)
        /\ AttemptsGrow(th)
    BY <2>1, StepAttempts
  <2>3. CASE \E u \in Threads : Attempts(u) # {}
    <3>1. PICK u \in Threads : \E i \in Attempts(u) :
            /\ \A j \in Attempts(u) : i <= j
            /\ process_cell = program[u][i].factory
      BY <2>3 DEF FirstAttemptPins
    <3>2. PICK i \in Attempts(u) : /\ \A j \in Attempts(u) : i <= j
                                   /\ process_cell = program[u][i].factory
      BY <3>1
    <3>3. program[u][i].factory # None
      BY <1>1, <3>2, AttemptFacts
    <3>4. process_cell' = process_cell
      BY <2>1, <3>2, <3>3, CellsStay
    <3>5. i \in Attempts(u)' /\ \A j \in Attempts(u)' : i <= j
      BY <2>2, <3>2 DEF AttemptsGrow
    <3> QED
      BY <2>2, <3>2, <3>4, <3>5 DEF FirstAttemptPins
  <2>4. CASE \A u \in Threads : Attempts(u) = {}
    <3>1. process_cell = None
      BY <2>4 DEF FirstAttemptPins
    <3>2. CASE SetProcess(th) \/ PinFactory(th)
      <4>1. /\ process_cell' = program[th][next[th]].factory
            /\ Pins(program[th][next[th]]) /\ at[th] = "start"
            /\ next[th] \in Nat /\ next[th] <= Len(program[th])
            /\ \/ next'[th] = next[th] + 1 /\ at'[th] = "start"
               \/ next'[th] = next[th] /\ at'[th] # "start"
        BY <1>1, <3>1, <3>2, AttemptFacts DEF SetProcess, PinFactory, OnceSet, In, Call, Pins,
           Return, GoOn
      <4>2. next[th] \in 1 .. Len(program[th])
        BY <1>1, <4>1, CallFacts
      <4>3. \A j : j \in Attempts(th)' <=>
              /\ j \in 1 .. Len(program[th]) /\ Pins(program[th][j])
              /\ j < next'[th] \/ (j = next'[th] /\ at'[th] # "start")
        BY <2>2 DEF Attempts, Pins
      <4>4. \A j \in 1 .. Len(program[th]) : Pins(program[th][j]) => ~(j < next[th])
        BY <1>1, <2>4, AttemptFacts
      <4>5. next[th] \in Attempts(th)' /\ \A j \in Attempts(th)' : next[th] <= j
        BY <4>1, <4>2, <4>3, <4>4
      <4> QED
        BY <2>2, <4>1, <4>5 DEF FirstAttemptPins
    <3>3. CASE ~SetProcess(th) /\ ~PinFactory(th)
      <4>1. Attempts(th)' = {}
        BY <2>1, <2>4, <3>3, NothingTried
      <4>2. process_cell' = process_cell
        BY <2>1, <3>3 DEF ThreadStep, SetSystem, ReadSystemCell, ReadProcessCell, BuildParts,
           DiscoverHandler, StartTasks, RegisterByHand, Ask, cells
      <4> QED
        BY <2>2, <2>4, <3>1, <4>1, <4>2 DEF FirstAttemptPins
    <3> QED
      BY <3>2, <3>3
  <2> QED
    BY <2>3, <2>4
<1> QED
  BY <1>2, <1>3 DEF Next

\* Before any call there is no attempt and nothing is pinned.
LEMMA InitFirstAttempt == Init => FirstAttemptPins
<1> SUFFICES ASSUME Init PROVE FirstAttemptPins
  OBVIOUS
<1>1. ASSUME NEW th \in Threads, NEW i \in Attempts(th) PROVE FALSE
  BY <1>1 DEF Attempts, Init
<1> QED
  BY <1>1 DEF FirstAttemptPins, Init

\* build_photon_runtime and set_process_valence_factory pin for good: in every
\* behaviour of every set of programs, the pinned factory is the one named in
\* the very first attempt, however that call and the later ones ended.
THEOREM FirstAttemptStays == Spec => []FirstAttemptPins
<1>1. Init => FirstAttemptPins
  BY InitFirstAttempt
<1>2. HostInv /\ HostInv' /\ FirstAttemptPins /\ [Next]_vars => FirstAttemptPins'
  BY AttemptStep
<1> QED
  BY <1>1, <1>2, HostInvariant, PTL DEF Spec

----------------------------------------------------------------------------
(* The streams of a runtime.                                               *)

\* What the executor's model takes for granted of the registry auto_discover
\* fills, one handler at a time, in whatever order they are linked.
LEMMA StreamsComplete ==
  ASSUME NEW reg, Agrees(reg), \A h \in Handlers : reg.all[h] = 1
  PROVE  /\ DOMAIN Streams(reg) = TopicSubscriptionKeys
         /\ \A k \in TopicSubscriptionKeys :
              {h \in Handlers : Streams(reg)[k][h] = 1} = HandlersForTopicKey(k)
<1>1. \A k \in RegistryKeys, h \in Handlers :
        reg.by_topic_and_key[k][h] = IF k = TopicKey(h) THEN 1 ELSE 0
  BY DEF Agrees
<1>2. topic_subscription_keys(reg) = TopicSubscriptionKeys
  BY <1>1, TopicKeyType DEF topic_subscription_keys, TopicSubscriptionKeys
<1>3. ASSUME NEW k \in TopicSubscriptionKeys
      PROVE  {h \in Handlers : Streams(reg)[k][h] = 1} = HandlersForTopicKey(k)
  <2>1. k \in RegistryKeys /\ Streams(reg)[k] = reg.by_topic_and_key[k]
    BY <1>2, TopicKeyType DEF TopicSubscriptionKeys, Streams, handlers_for_topic_key
  <2> QED
    BY <1>1, <2>1 DEF HandlersForTopicKey
<1> QED
  BY <1>2, <1>3 DEF Streams

LEMMA RuntimeComplete ==
  HostInv /\ DiscoveryComplete /\ [Next]_vars => DiscoveryComplete'
<1> SUFFICES ASSUME HostInv, DiscoveryComplete, [Next]_vars, NEW r \in runtimes'
             PROVE  /\ DOMAIN r.streams = TopicSubscriptionKeys
                    /\ \A k \in TopicSubscriptionKeys :
                         {h \in Handlers : r.streams[k][h] = 1} = HandlersForTopicKey(k)
  BY DEF DiscoveryComplete
<1>1. CASE r \in runtimes
  BY <1>1 DEF DiscoveryComplete
<1>2. CASE r \notin runtimes
  <2>1. PICK th \in Threads : StartTasks(th)
    BY <1>2 DEF Next, ThreadStep, vars, SetProcess, SetSystem, ReadSystemCell,
       ReadProcessCell, PinFactory, BuildParts, DiscoverHandler, RegisterByHand, Ask
  <2>2. r.streams = Streams(registry[th])
    BY <1>2, <2>1 DEF StartTasks
  <2>3. Agrees(registry[th]) /\ \A h \in Handlers : registry[th].all[h] = 1
    BY <2>1 DEF HostInv, ThreadOK, StartTasks, In
  <2> QED
    BY <2>2, <2>3, StreamsComplete
<1> QED
  BY <1>1, <1>2

\* Every runtime has one stream for each topic and key filter some linked
\* handler subscribes to, and the stream serves exactly those handlers: what
\* Executor takes as the constant layout of its streams.
THEOREM DiscoveryIsComplete == Spec => []DiscoveryComplete
<1>1. Init => DiscoveryComplete
  BY DEF Init, DiscoveryComplete
<1> QED
  BY <1>1, HostInvariant, RuntimeComplete, PTL DEF Spec

----------------------------------------------------------------------------
(* Telemetry.                                                              *)

\* Whatever programs the threads run, each message they give truncate_error is
\* cut between two characters and as late as its limit of 512 bytes allows.
THEOREM TruncatedSoundly == Spec => []TruncationSound
<1>1. HostTypeOK => TruncationSound
  <2> SUFFICES ASSUME HostTypeOK, NEW th \in Threads, result[th] # None,
                      result[th].call.op = "truncate_error"
               PROVE  LET m == result[th].call.message IN SoundCut(m, truncate_error(m))
    BY DEF TruncationSound
  <2>1. result[th].call \in HostCalls
    BY DEF HostTypeOK, Results
  <2>2. IsMessage(result[th].call.message)
    BY <2>1, HostAssumption DEF CallShape
  <2> QED
    BY <2>2, TruncateSound
<1> QED
  BY <1>1, HostTypes, PTL

=============================================================================
