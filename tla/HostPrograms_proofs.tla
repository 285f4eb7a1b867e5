------------------------ MODULE HostPrograms_proofs ------------------------
(***************************************************************************)
(* Every call of an isolated program returns what the program expects, for *)
(* every number of threads; and the tests and examples of the repository   *)
(* are isolated, the tests in every combination of one binary's threads.   *)
(***************************************************************************)
EXTENDS HostPrograms, Host_proofs

----------------------------------------------------------------------------
(* The invariant: where a thread is in its program, the cells and its      *)
(* registry are as the calls before leave them.                            *)

ResultMet(th) ==
  result[th] # None => result[th].call.expect \in {"any", result[th].outcome}

\* A build_photon_runtime that is under way has set its cell.
CellsAsRead(th) ==
  AsksSystem(program[th]) /\ next[th] <= Len(program[th]) =>
    /\ FirstSet(SystemSetters, program[th], next[th], system_cell)
    /\ FirstSet(ProcessSetters, program[th],
                IF at[th] \in {"pinned", "discovering"} THEN next[th] + 1 ELSE next[th],
                process_cell)
    /\ at[th] = "fallback" => system_cell = None

NothingBuilt(p, i) == \A j \in 1 .. i - 1 : p[j].op # "build_photon_runtime"

RegistryAsRead(th) ==
  /\ next[th] <= Len(program[th]) /\ at[th] \in {"start", "fallback"}
  /\ NothingBuilt(program[th], next[th])
  => \A h \in Handlers :
       registry[th].all[h] = Registrations(program[th], next[th])[h]

\* Only a runtime whose parts were built discovers handlers.
PartsBuilt(th) == at[th] = "discovering" => Call(th).parts_ok

ThreadMet(th) ==
  ResultMet(th) /\ CellsAsRead(th) /\ RegistryAsRead(th) /\ PartsBuilt(th)

ProgramsInv == HostInv /\ Isolated(program) /\ \A th \in Threads : ThreadMet(th)

----------------------------------------------------------------------------
(* Reading a program one call further.                                     *)

\* A program, and the fields of the calls that set a cell or register.
LEMMA ProgramFacts ==
  ASSUME HostTypeOK, NEW th \in Threads
  PROVE  /\ program[th] \in Seq(HostCalls) /\ Len(program[th]) \in Nat
         /\ \A j \in 1 .. Len(program[th]) :
              /\ CallShape(program[th][j])
              /\ program[th][j].op \in SystemSetters \cup ProcessSetters =>
                   program[th][j].factory # None
<1>1. program \in [Threads -> Seq(HostCalls)]
  BY HostAssumption DEF HostTypeOK
<1>2. program[th] \in Seq(HostCalls) /\ Len(program[th]) \in Nat
  BY <1>1
<1>3. \A j \in 1 .. Len(program[th]) : CallShape(program[th][j])
  BY <1>2, HostAssumption
<1>4. ASSUME NEW j \in 1 .. Len(program[th]),
             program[th][j].op \in SystemSetters \cup ProcessSetters
      PROVE  program[th][j].factory # None
  BY <1>3, <1>4, HostAssumption DEF CallShape, SystemSetters, ProcessSetters
<1> QED
  BY <1>2, <1>3, <1>4

LEMMA FirstSetStays ==
  ASSUME NEW ops, NEW p, NEW i \in Nat \ {0}, NEW cell,
         FirstSet(ops, p, i, cell), p[i].op \notin ops
  PROVE  FirstSet(ops, p, i + 1, cell)
BY DEF FirstSet

LEMMA FirstSetSets ==
  ASSUME NEW ops, NEW p, NEW i \in Nat \ {0}, NEW cell,
         FirstSet(ops, p, i, cell), p[i].op \in ops,
         \A j \in 1 .. i : p[j].op \in ops => p[j].factory # None
  PROVE  FirstSet(ops, p, i + 1, OnceSet(cell, p[i].factory))
<1>1. CASE cell = None
  <2>1. \A j \in 1 .. i - 1 : p[j].op \notin ops
    BY <1>1 DEF FirstSet
  <2> QED
    BY <1>1, <2>1 DEF FirstSet, OnceSet
<1>2. CASE cell # None
  BY <1>2 DEF FirstSet, OnceSet
<1> QED
  BY <1>1, <1>2

LEMMA RegistrationsStep ==
  ASSUME NEW p, NEW i \in Nat \ {0}, NEW h \in Handlers
  PROVE  /\ Registrations(p, i)[h] \in Nat
         /\ Registrations(p, i + 1)[h] =
              IF p[i].op = "register" /\ p[i].handler = h
              THEN Registrations(p, i)[h] + 1 ELSE Registrations(p, i)[h]
<1> DEFINE Reg(k) == p[k].op = "register" /\ p[k].handler = h
           K == {k \in 1 .. i - 1 : Reg(k)}
           L == {k \in 1 .. (i + 1) - 1 : Reg(k)}
<1>1. Registrations(p, i)[h] = Cardinality(K) /\ Registrations(p, i + 1)[h] = Cardinality(L)
  BY DEF Registrations
<1>2. IsFiniteSet(K) /\ Cardinality(K) \in Nat
  <2>1. IsFiniteSet(1 .. i - 1)
    <3>1. 1 \in Int /\ i - 1 \in Int
      OBVIOUS
    <3> QED
      BY <3>1, FS_Interval
  <2>2. K \in SUBSET (1 .. i - 1)
    OBVIOUS
  <2>3. IsFiniteSet(K)
    BY <2>1, <2>2, FS_Subset
  <2> QED
    BY <2>3, FS_CardinalityType
<1>3. \A k : k \in 1 .. (i + 1) - 1 <=> k \in 1 .. i - 1 \/ k = i
  OBVIOUS
<1>4. i \notin K
  OBVIOUS
<1>5. CASE Reg(i)
  <2>1. L = K \cup {i}
    BY <1>3, <1>5
  <2>2. Cardinality(K \cup {i}) = Cardinality(K) + 1
    BY <1>2, <1>4, FS_AddElement
  <2> QED
    BY <1>1, <1>2, <1>5, <2>1, <2>2
<1>6. CASE ~Reg(i)
  <2>1. L = K
    BY <1>3, <1>6
  <2> QED
    BY <1>1, <1>2, <1>6, <2>1
<1> QED
  BY <1>5, <1>6

LEMMA NothingRegistered ==
  ASSUME NEW p, NEW h \in Handlers PROVE Registrations(p, 1)[h] = 0
<1>1. {k \in 1 .. 1 - 1 : p[k].op = "register" /\ p[k].handler = h} = {}
  OBVIOUS
<1>2. Registrations(p, 1)[h] = Cardinality({})
  BY <1>1 DEF Registrations
<1> QED
  BY <1>2, FS_EmptySet

\* A thread that comes to the end of a call finds the cells as its program reads.
LEMMA CellsAdvance ==
  ASSUME HostTypeOK, NEW th \in Threads, CellsAsRead(th), next[th] <= Len(program[th]),
         program' = program, next'[th] = next[th] + 1, at'[th] = "start",
         \/ at[th] \in {"start", "fallback"} /\ Call(th).op # "build_photon_runtime"
         \/ at[th] \in {"pinned", "discovering"} /\ Call(th).op = "build_photon_runtime",
         system_cell' = IF Call(th).op = "set_system"
                        THEN OnceSet(system_cell, Call(th).factory) ELSE system_cell,
         process_cell' = IF Call(th).op = "set_process"
                         THEN OnceSet(process_cell, Call(th).factory) ELSE process_cell
  PROVE  CellsAsRead(th)'
<1> DEFINE p == program[th]
           i == next[th]
<1> SUFFICES ASSUME AsksSystem(p)
             PROVE  /\ FirstSet(SystemSetters, p, i + 1, system_cell')
                    /\ FirstSet(ProcessSetters, p, i + 1, process_cell')
  BY DEF CellsAsRead
<1>1. /\ i \in 1 .. Len(p) /\ i \in Nat \ {0}
      /\ \A j \in 1 .. i : p[j].op \in SystemSetters \cup ProcessSetters => p[j].factory # None
  BY CallFacts, ProgramFacts
<1>2. p[i] = Call(th)
  BY DEF Call
<1>3. /\ FirstSet(SystemSetters, p, i, system_cell)
      /\ FirstSet(ProcessSetters, p, IF at[th] \in {"pinned", "discovering"} THEN i + 1 ELSE i,
                  process_cell)
  BY DEF CellsAsRead
<1> HIDE DEF p, i
<1>4. FirstSet(SystemSetters, p, i + 1, system_cell')
  <2>1. CASE p[i].op = "set_system"
    BY <1>1, <1>2, <1>3, <2>1, FirstSetSets DEF SystemSetters
  <2>2. CASE p[i].op # "set_system"
    BY <1>1, <1>2, <1>3, <2>2, FirstSetStays DEF SystemSetters
  <2> QED
    BY <2>1, <2>2
<1>5. FirstSet(ProcessSetters, p, i + 1, process_cell')
  <2>1. CASE p[i].op = "build_photon_runtime"
    BY <1>2, <1>3, <2>1
  <2>2. CASE p[i].op = "set_process"
    <3>1. FirstSet(ProcessSetters, p, i, process_cell)
      BY <1>2, <1>3, <2>2
    <3> QED
      BY <1>1, <1>2, <2>2, <3>1, FirstSetSets DEF ProcessSetters
  <2>3. CASE p[i].op \notin ProcessSetters
    <3>1. FirstSet(ProcessSetters, p, i, process_cell)
      BY <1>2, <1>3, <2>3 DEF ProcessSetters
    <3>2. process_cell' = process_cell
      BY <1>2, <2>3 DEF ProcessSetters
    <3> QED
      BY <1>1, <2>3, <3>1, <3>2, FirstSetStays
  <2> QED
    BY <2>1, <2>2, <2>3 DEF ProcessSetters
<1> QED
  BY <1>4, <1>5

\* And its registry, as long as no runtime was built.
LEMMA RegistryAdvance ==
  ASSUME HostInv, NEW th \in Threads, RegistryAsRead(th), next[th] <= Len(program[th]),
         program' = program, next'[th] = next[th] + 1, at'[th] = "start",
         Call(th).op # "build_photon_runtime" => at[th] \in {"start", "fallback"},
         Call(th).op = "register" => registry'[th] = Register(registry[th], Call(th).handler),
         Call(th).op \notin {"register", "build_photon_runtime"} => registry'[th] = registry[th]
  PROVE  RegistryAsRead(th)'
<1> DEFINE p == program[th]
           i == next[th]
<1> SUFFICES ASSUME NothingBuilt(p, i + 1)
             PROVE  \A h \in Handlers : registry'[th].all[h] = Registrations(p, i + 1)[h]
  BY DEF RegistryAsRead
<1>1. /\ i \in 1 .. Len(p) /\ i \in Nat \ {0} /\ CallShape(Call(th))
      /\ HostTypeOK /\ Agrees(registry[th])
  BY CallFacts DEF HostInv, ThreadOK
<1>2. p[i] = Call(th)
  BY DEF Call
<1>3. p[i].op # "build_photon_runtime" /\ NothingBuilt(p, i)
  BY <1>1 DEF NothingBuilt
<1>4. \A h \in Handlers : registry[th].all[h] = Registrations(p, i)[h]
  BY <1>2, <1>3 DEF RegistryAsRead
<1>5. \A h \in Handlers : Registrations(p, i + 1)[h] =
        IF p[i].op = "register" /\ p[i].handler = h
        THEN Registrations(p, i)[h] + 1 ELSE Registrations(p, i)[h]
  BY <1>1, RegistrationsStep
<1> HIDE DEF p, i
<1>6. CASE p[i].op = "register"
  <2>1. p[i].handler \in Handlers
    BY <1>1, <1>2, <1>6 DEF CallShape
  <2>2. \A h \in Handlers :
          registry'[th].all[h] = IF h = p[i].handler THEN registry[th].all[p[i].handler] + 1
                                 ELSE registry[th].all[h]
    BY <1>1, <1>2, <1>6, <2>1, RegisterAgrees
  <2> QED
    BY <1>4, <1>5, <1>6, <2>2
<1>7. CASE p[i].op # "register"
  <2>1. registry'[th] = registry[th]
    BY <1>2, <1>3, <1>7
  <2> QED
    BY <1>4, <1>5, <1>7, <2>1
<1> QED
  BY <1>6, <1>7

\* A registry whose tables agree is known from how often it holds each handler.
LEMMA KnownByCounts ==
  ASSUME NEW reg, Agrees(reg), NEW counts \in [Handlers -> Nat],
         \A h \in Handlers : reg.all[h] = counts[h]
  PROVE  reg = RegistryOf(counts)
<1> DEFINE by == [k \in RegistryKeys |->
                    [h \in Handlers |-> IF k = TopicKey(h) THEN counts[h] ELSE 0]]
<1>1. /\ reg = [all |-> reg.all, by_topic_and_key |-> reg.by_topic_and_key]
      /\ reg.all \in [Handlers -> Nat]
      /\ reg.by_topic_and_key \in [RegistryKeys -> [Handlers -> Nat]]
  BY DEF Agrees, Registries, Counts
<1>2. reg.all = counts
  BY <1>1
<1>3. ASSUME NEW k \in RegistryKeys PROVE reg.by_topic_and_key[k] = by[k]
  <2>1. reg.by_topic_and_key[k] \in [Handlers -> Nat]
    BY <1>1
  <2>2. \A h \in Handlers :
          reg.by_topic_and_key[k][h] = IF k = TopicKey(h) THEN counts[h] ELSE 0
    BY DEF Agrees
  <2> QED
    BY <2>1, <2>2
<1>4. reg.by_topic_and_key = by
  BY <1>1, <1>3
<1> QED
  BY <1>1, <1>2, <1>4 DEF RegistryOf

LEMMA RegistrationsType ==
  ASSUME NEW p, NEW i \in Nat \ {0} PROVE Registrations(p, i) \in [Handlers -> Nat]
<1>1. \A h \in Handlers : Registrations(p, i)[h] \in Nat
  BY RegistrationsStep
<1> QED
  BY <1>1 DEF Registrations

----------------------------------------------------------------------------
(* What a step leaves alone.                                               *)

LEMMA PlacesOfOthers ==
  ASSUME HostInv, NEW th \in Threads, ThreadStep(th), NEW u \in Threads \ {th}
  PROVE  /\ program' = program /\ next'[u] = next[u] /\ at'[u] = at[u]
         /\ result'[u] = result[u] /\ registry'[u] = registry[u]
<1>1. /\ next \in [Threads -> Nat] /\ at \in [Threads -> Points]
      /\ registry \in [Threads -> Registries] /\ result \in [Threads -> Results \cup {None}]
  BY DEF HostInv, HostTypeOK
<1>2. \/ \E point \in Points : GoOn(th, point)
      \/ \E outcome, used : Return(th, outcome, used)
      \/ Panic(th)
  BY DEF ThreadStep, SetProcess, SetSystem, ReadSystemCell, ReadProcessCell, PinFactory,
     BuildParts, DiscoverHandler, StartTasks, RegisterByHand, Ask, ReturnSystem, Points
<1>3. program' = program /\ next'[u] = next[u] /\ at'[u] = at[u] /\ result'[u] = result[u]
  BY <1>1, <1>2 DEF GoOn, Return, Panic
<1>4. registry' = registry \/ \E reg : registry' = [registry EXCEPT ![th] = reg]
  BY DEF ThreadStep, SetProcess, SetSystem, ReadSystemCell, ReadProcessCell, PinFactory,
     BuildParts, DiscoverHandler, StartTasks, RegisterByHand, Ask
<1> QED
  BY <1>1, <1>3, <1>4

\* Only a thread whose program sets the cells changes them.
LEMMA CellsOfOthers ==
  ASSUME HostInv, NEW th \in Threads, ThreadStep(th), ~SetsCells(program[th])
  PROVE  process_cell' = process_cell /\ system_cell' = system_cell
<1>1. ASSUME next[th] <= Len(program[th]),
             Call(th).op \in SystemSetters \cup ProcessSetters
      PROVE  FALSE
  BY <1>1, CallFacts DEF HostInv, SetsCells, Call
<1>2. ~SetProcess(th) /\ ~SetSystem(th) /\ ~PinFactory(th)
  BY <1>1 DEF SetProcess, SetSystem, PinFactory, In, SystemSetters, ProcessSetters
<1> QED
  BY <1>2 DEF ThreadStep, ReadSystemCell, ReadProcessCell, BuildParts, DiscoverHandler,
     StartTasks, RegisterByHand, Ask, cells

LEMMA OthersMet ==
  ASSUME ProgramsInv, NEW th \in Threads, ThreadStep(th), NEW u \in Threads \ {th}
  PROVE  ThreadMet(u)'
<1>1. HostInv /\ Isolated(program) /\ ThreadMet(u)
  BY DEF ProgramsInv
<1>2. /\ program' = program /\ next'[u] = next[u] /\ at'[u] = at[u]
      /\ result'[u] = result[u] /\ registry'[u] = registry[u]
  BY <1>1, PlacesOfOthers
<1>3. CellsAsRead(u)'
  <2>1. CASE AsksSystem(program[u])
    <3>1. ~SetsCells(program[th])
      BY <1>1, <2>1 DEF Isolated
    <3>2. process_cell' = process_cell /\ system_cell' = system_cell
      BY <1>1, <3>1, CellsOfOthers
    <3> QED
      BY <1>1, <1>2, <3>2 DEF ThreadMet, CellsAsRead
  <2>2. CASE ~AsksSystem(program[u])
    BY <1>2, <2>2 DEF CellsAsRead
  <2> QED
    BY <2>1, <2>2
<1>4. Call(u)' = Call(u)
  BY <1>2 DEF Call
<1> QED
  BY <1>1, <1>2, <1>3, <1>4 DEF ThreadMet, ResultMet, RegistryAsRead, PartsBuilt

----------------------------------------------------------------------------
(* The actions.                                                            *)

LEMMA Expected ==
  ASSUME ProgramsInv, NEW th \in Threads, next[th] <= Len(program[th])
  PROVE  /\ ForeseenCall(program[th], next[th]) /\ program[th][next[th]] = Call(th)
         /\ CallShape(Call(th)) /\ HostInv /\ ThreadMet(th)
BY CallFacts DEF ProgramsInv, Isolated, Foreseen, Call, HostInv

\* A thread whose call returns what its program expects of it.
LEMMA ReturnsMet ==
  ASSUME ProgramsInv, NEW th \in Threads, next[th] <= Len(program[th]),
         NEW outcome, NEW used, Return(th, outcome, used),
         Call(th).expect \in {"any", outcome},
         \/ at[th] \in {"start", "fallback"} /\ Call(th).op # "build_photon_runtime"
         \/ at[th] \in {"pinned", "discovering"} /\ Call(th).op = "build_photon_runtime",
         system_cell' = IF Call(th).op = "set_system"
                        THEN OnceSet(system_cell, Call(th).factory) ELSE system_cell,
         process_cell' = IF Call(th).op = "set_process"
                         THEN OnceSet(process_cell, Call(th).factory) ELSE process_cell,
         Call(th).op = "register" => registry'[th] = Register(registry[th], Call(th).handler),
         Call(th).op \notin {"register", "build_photon_runtime"} => registry'[th] = registry[th]
  PROVE  ThreadMet(th)'
<1>1. HostInv /\ ThreadMet(th) /\ HostTypeOK
  BY DEF ProgramsInv, HostInv
<1>2. /\ program' = program /\ next'[th] = next[th] + 1 /\ at'[th] = "start"
      /\ result'[th] = [call |-> Call(th), outcome |-> outcome, used |-> used]
  BY <1>1 DEF Return, HostInv, HostTypeOK
<1>3. ResultMet(th)'
  BY <1>2 DEF ResultMet
<1>4. CellsAsRead(th)'
  BY <1>1, <1>2, CellsAdvance DEF ThreadMet
<1>5. RegistryAsRead(th)'
  <2>1. Call(th).op # "build_photon_runtime" => at[th] \in {"start", "fallback"}
    OBVIOUS
  <2> QED
    BY <1>1, <1>2, <2>1, RegistryAdvance DEF ThreadMet
<1> QED
  BY <1>2, <1>3, <1>4, <1>5 DEF ThreadMet, PartsBuilt

LEMMA SetsMet ==
  ASSUME ProgramsInv, NEW th \in Threads, SetProcess(th) \/ SetSystem(th) \/ RegisterByHand(th)
  PROVE  ThreadMet(th)'
<1>1. /\ next[th] <= Len(program[th]) /\ at[th] = "start" /\ Return(th, "ok", None)
      /\ Call(th).op \in {"set_process", "set_system", "register"}
  BY DEF SetProcess, SetSystem, RegisterByHand, In
<1>2. Call(th).expect \in {"any", "ok"}
  BY <1>1, Expected DEF ForeseenCall, PureOps, RegistryOps
<1>3. registry \in [Threads -> Registries]
  BY DEF ProgramsInv, HostInv, HostTypeOK
<1>4. /\ system_cell' = IF Call(th).op = "set_system"
                        THEN OnceSet(system_cell, Call(th).factory) ELSE system_cell
      /\ process_cell' = IF Call(th).op = "set_process"
                         THEN OnceSet(process_cell, Call(th).factory) ELSE process_cell
      /\ Call(th).op = "register" => registry'[th] = Register(registry[th], Call(th).handler)
      /\ Call(th).op # "register" => registry'[th] = registry[th]
  BY <1>3 DEF SetProcess, SetSystem, RegisterByHand, In, cells
<1> QED
  BY <1>1, <1>2, <1>4, ReturnsMet

LEMMA AskMet ==
  ASSUME ProgramsInv, NEW th \in Threads, Ask(th)
  PROVE  ThreadMet(th)'
<1>1. /\ next[th] <= Len(program[th]) /\ at[th] = "start" /\ Call(th).op \in PureOps
      /\ Return(th, Answer(registry[th], Call(th)), None)
      /\ process_cell' = process_cell /\ system_cell' = system_cell /\ registry' = registry
  BY DEF Ask, In, cells
<1>2. Call(th).op \notin {"set_process", "set_system", "register", "build_photon_runtime",
                         "system_valence"}
  BY <1>1 DEF PureOps, RegistryOps
<1>3. Call(th).expect \in {"any", Answer(registry[th], Call(th))}
  <2> DEFINE p == program[th]
             i == next[th]
             counts == Registrations(p, i)
  <2>1. /\ ForeseenCall(p, i) /\ p[i] = Call(th) /\ CallShape(Call(th))
        /\ Agrees(registry[th]) /\ RegistryAsRead(th) /\ i \in Nat \ {0}
    <3>1. HostInv /\ i \in 1 .. Len(p) /\ Len(p) \in Nat
      BY <1>1, CallFacts DEF ProgramsInv, HostInv
    <3> QED
      BY <1>1, <3>1, Expected DEF HostInv, ThreadOK, ThreadMet
  <2> SUFFICES ASSUME Call(th).expect # "any"
               PROVE  Call(th).expect = Answer(registry[th], Call(th))
    OBVIOUS
  <2>2. /\ Call(th).expect = Answer(RegistryOf(counts), Call(th))
        /\ Call(th).op \in RegistryOps => NothingBuilt(p, i)
    BY <1>2, <2>1 DEF ForeseenCall, NothingBuilt
  <2>3. CASE Call(th).op \in RegistryOps
    <3>1. \A h \in Handlers : registry[th].all[h] = counts[h]
      BY <1>1, <2>1, <2>2, <2>3 DEF RegistryAsRead
    <3>2. counts \in [Handlers -> Nat]
      BY <2>1, RegistrationsType
    <3>3. registry[th] = RegistryOf(counts)
      BY <2>1, <3>1, <3>2, KnownByCounts
    <3> QED
      BY <2>2, <3>3
  <2>4. CASE Call(th).op \notin RegistryOps
    <3>1. Call(th).op \in {"matches_event", "is_durable_descriptor", "truncate_error",
                           "build", "reconstruct"}
      BY <1>1, <2>4 DEF PureOps
    <3>2. \A reg, r : Answer(reg, Call(th)) = Answer(r, Call(th))
      BY <3>1 DEF Answer, Holds
    <3> QED
      BY <2>2, <3>2
  <2> QED
    BY <2>3, <2>4
<1> QED
  BY <1>1, <1>2, <1>3, ReturnsMet

LEMMA AnsweredAsRead ==
  ASSUME ProgramsInv, NEW th \in Threads, next[th] <= Len(program[th]),
         Call(th).op = "system_valence", at[th] \in {"start", "fallback"}
  PROVE  Call(th).expect \in {"any", SystemAnswer(system_cell, process_cell)}
<1> DEFINE p == program[th]
           i == next[th]
<1> SUFFICES ASSUME Call(th).expect # "any"
             PROVE  Call(th).expect = SystemAnswer(system_cell, process_cell)
  OBVIOUS
<1>1. ForeseenCall(p, i) /\ p[i] = Call(th) /\ CellsAsRead(th)
  BY Expected DEF ThreadMet
<1>2. i \in 1 .. Len(p) /\ system_cell \in OptFactories /\ process_cell \in OptFactories
  BY CallFacts DEF ProgramsInv, HostInv, HostTypeOK
<1>3. AsksSystem(p)
  BY <1>1, <1>2 DEF AsksSystem
<1>4. FirstSet(SystemSetters, p, i, system_cell) /\ FirstSet(ProcessSetters, p, i, process_cell)
  BY <1>1, <1>3 DEF CellsAsRead
<1> QED
  BY <1>1, <1>2, <1>4 DEF ForeseenCall, PureOps, RegistryOps

LEMMA ReadSystemMet ==
  ASSUME ProgramsInv, NEW th \in Threads, ReadSystemCell(th)
  PROVE  ThreadMet(th)'
<1>1. /\ next[th] <= Len(program[th]) /\ at[th] = "start" /\ Call(th).op = "system_valence"
      /\ process_cell' = process_cell /\ system_cell' = system_cell /\ registry' = registry
  BY DEF ReadSystemCell, In, cells
<1>2. CASE system_cell # None
  <2>1. Return(th, SystemAnswer(system_cell, process_cell), system_cell)
    BY <1>2 DEF ReadSystemCell, ReturnSystem, SystemAnswer
  <2> QED
    BY <1>1, <2>1, AnsweredAsRead, ReturnsMet
<1>3. CASE system_cell = None
  <2>1. HostInv /\ ThreadMet(th) /\ HostTypeOK
    BY DEF ProgramsInv, HostInv
  <2>2. /\ at'[th] = "fallback" /\ program' = program /\ next' = next /\ result' = result
    BY <1>3, <2>1 DEF ReadSystemCell, GoOn, HostTypeOK
  <2> QED
    BY <1>1, <1>3, <2>1, <2>2
    DEF ThreadMet, ResultMet, CellsAsRead, RegistryAsRead, PartsBuilt
<1> QED
  BY <1>2, <1>3

LEMMA ReadProcessMet ==
  ASSUME ProgramsInv, NEW th \in Threads, ReadProcessCell(th)
  PROVE  ThreadMet(th)'
<1>1. /\ next[th] <= Len(program[th]) /\ at[th] = "fallback" /\ Call(th).op = "system_valence"
      /\ process_cell' = process_cell /\ system_cell' = system_cell /\ registry' = registry
  BY DEF ReadProcessCell, In, cells
<1> DEFINE outcome == IF process_cell # None THEN Build(process_cell, "system")
                      ELSE "not_installed"
<1>2. PICK used : Return(th, outcome, used)
  BY DEF ReadProcessCell, ReturnSystem
<1>3. Call(th).expect \in {"any", outcome}
  <2>1. CASE AsksSystem(program[th])
    <3>1. system_cell = None
      BY <1>1, <2>1, Expected DEF ThreadMet, CellsAsRead
    <3> QED
      BY <1>1, <3>1, AnsweredAsRead DEF SystemAnswer
  <2>2. CASE ~AsksSystem(program[th])
    BY <1>1, <2>2, CallFacts DEF AsksSystem, Call, ProgramsInv, HostInv
  <2> QED
    BY <2>1, <2>2
<1> HIDE DEF outcome
<1> QED
  BY <1>1, <1>2, <1>3, ReturnsMet

LEMMA PinMet ==
  ASSUME ProgramsInv, NEW th \in Threads, PinFactory(th)
  PROVE  ThreadMet(th)'
<1> DEFINE p == program[th]
           i == next[th]
<1>1. /\ i <= Len(p) /\ at[th] = "start" /\ Call(th).op = "build_photon_runtime"
      /\ process_cell' = OnceSet(process_cell, Call(th).factory)
      /\ system_cell' = system_cell /\ registry' = registry
  BY DEF PinFactory, In
<1>2. HostInv /\ ThreadMet(th) /\ HostTypeOK
  BY DEF ProgramsInv, HostInv
<1>3. /\ at'[th] = "pinned" /\ program' = program /\ next' = next /\ result' = result
  BY <1>2 DEF PinFactory, GoOn, HostTypeOK
<1>4. /\ i \in 1 .. Len(p) /\ i \in Nat \ {0} /\ p[i] = Call(th)
      /\ \A j \in 1 .. i : p[j].op \in ProcessSetters => p[j].factory # None
  BY <1>1, <1>2, CallFacts, ProgramFacts DEF Call
<1>5. ASSUME AsksSystem(p)
      PROVE  FirstSet(ProcessSetters, p, i + 1, process_cell')
  <2>1. FirstSet(ProcessSetters, p, i, process_cell)
    BY <1>1, <1>2, <1>5 DEF ThreadMet, CellsAsRead
  <2> QED
    BY <1>1, <1>4, <2>1, FirstSetSets DEF ProcessSetters
<1>6. CellsAsRead(th)'
  BY <1>1, <1>2, <1>3, <1>5 DEF ThreadMet, CellsAsRead
<1> QED
  BY <1>2, <1>3, <1>6 DEF ThreadMet, ResultMet, RegistryAsRead, PartsBuilt

LEMMA DiscoverMet ==
  ASSUME ProgramsInv, NEW th \in Threads, BuildParts(th) \/ \E h \in Handlers : DiscoverHandler(th, h)
  PROVE  ThreadMet(th)'
<1>1. /\ next[th] <= Len(program[th]) /\ at[th] \in {"pinned", "discovering"}
      /\ Call(th).op = "build_photon_runtime"
      /\ process_cell' = process_cell /\ system_cell' = system_cell
  BY DEF BuildParts, DiscoverHandler, In, cells
<1>2. HostInv /\ ThreadMet(th) /\ HostTypeOK
  BY DEF ProgramsInv, HostInv
<1>3. CASE GoOn(th, "discovering") /\ Call(th).parts_ok
  <2>1. /\ at'[th] = "discovering" /\ program' = program /\ next' = next /\ result' = result
    BY <1>2, <1>3 DEF GoOn, HostTypeOK
  <2>2. Call(th)' = Call(th)
    BY <2>1 DEF Call
  <2> QED
    BY <1>1, <1>2, <1>3, <2>1, <2>2
    DEF ThreadMet, ResultMet, CellsAsRead, RegistryAsRead, PartsBuilt
<1>4. CASE Return(th, "parts_error", None) /\ ~Call(th).parts_ok
  <2>1. Call(th).expect \in {"any", "parts_error"}
    BY <1>1, <1>4, Expected DEF ForeseenCall, RuntimeAnswer, PureOps, RegistryOps
  <2> QED
    BY <1>1, <1>4, <2>1, ReturnsMet
<1> QED
  BY <1>2, <1>3, <1>4 DEF BuildParts, DiscoverHandler, In, ThreadMet, PartsBuilt

LEMMA StartMet ==
  ASSUME ProgramsInv, NEW th \in Threads, StartTasks(th)
  PROVE  ThreadMet(th)'
<1> DEFINE streams == Streams(registry[th])
<1>1. /\ next[th] <= Len(program[th]) /\ at[th] = "discovering"
      /\ Call(th).op = "build_photon_runtime" /\ Call(th).parts_ok
      /\ process_cell' = process_cell /\ system_cell' = system_cell
  BY DEF StartTasks, In, cells, ProgramsInv, ThreadMet, PartsBuilt
<1>2. HostInv /\ HostTypeOK /\ ThreadOK(th)
  BY DEF ProgramsInv, HostInv
<1>3. DOMAIN streams = {} <=> Handlers = {}
  <2>1. Agrees(registry[th]) /\ \A h \in Handlers : registry[th].all[h] = 1
    BY <1>1, <1>2 DEF ThreadOK, StartTasks
  <2>2. DOMAIN streams = TopicSubscriptionKeys
    BY <2>1, StreamsComplete
  <2> QED
    BY <2>2 DEF TopicSubscriptionKeys
<1>4. Call(th).expect \in {"any", IF Call(th).in_tokio \/ Handlers = {} THEN "ok" ELSE "panicked"}
  BY <1>1, Expected DEF ForeseenCall, RuntimeAnswer, PureOps, RegistryOps
<1>5. CASE Call(th).in_tokio \/ DOMAIN streams = {}
  <2>1. Return(th, "ok", Call(th).factory)
    BY <1>5 DEF StartTasks
  <2> QED
    BY <1>1, <1>3, <1>4, <1>5, <2>1, ReturnsMet
<1>6. CASE ~(Call(th).in_tokio \/ DOMAIN streams = {})
  <2>1. Panic(th)
    BY <1>6 DEF StartTasks
  <2>2. /\ program' = program /\ at'[th] = "start"
        /\ next'[th] \in {next[th] + 1, Len(program[th]) + 1}
        /\ result'[th] = [call |-> Call(th), outcome |-> "panicked", used |-> None]
    BY <1>2, <2>1 DEF Panic, HostInv, HostTypeOK
  <2>3. Len(program[th]) \in Nat /\ Call(th).expect \in {"any", "panicked"}
    BY <1>2, <1>3, <1>4, <1>6, ProgramFacts
  <2>4. CellsAsRead(th)'
    <3>1. CASE next'[th] = next[th] + 1
      BY <1>1, <1>2, <2>2, <3>1, CellsAdvance DEF ProgramsInv, ThreadMet
    <3>2. CASE next'[th] = Len(program[th]) + 1
      BY <2>2, <2>3, <3>2 DEF CellsAsRead
    <3> QED
      BY <2>2, <3>1, <3>2
  <2>5. RegistryAsRead(th)'
    <3>1. next[th] \in 1 .. Len(program[th]) /\ program[th][next[th]].op = "build_photon_runtime"
      BY <1>1, <1>2, CallFacts DEF Call
    <3>2. next[th] \in 1 .. next'[th] - 1
      BY <2>2, <2>3, <3>1
    <3> QED
      BY <2>2, <3>1, <3>2 DEF RegistryAsRead, NothingBuilt
  <2> QED
    BY <2>2, <2>3, <2>4, <2>5 DEF ThreadMet, ResultMet, PartsBuilt
<1> QED
  BY <1>5, <1>6

----------------------------------------------------------------------------
(* The programs get what they expect.                                      *)

LEMMA InitPrograms == Init /\ Isolated(program) => ProgramsInv
<1> SUFFICES ASSUME Init, Isolated(program), NEW th \in Threads PROVE ThreadMet(th)
  BY InitHost DEF ProgramsInv
<1>1. /\ next[th] = 1 /\ at[th] = "start" /\ registry[th] = EmptyRegistry
      /\ result[th] = None /\ system_cell = None /\ process_cell = None
  BY DEF Init
<1>2. CellsAsRead(th)
  BY <1>1 DEF CellsAsRead, FirstSet
<1>3. RegistryAsRead(th)
  BY <1>1, NothingRegistered DEF RegistryAsRead, EmptyRegistry
<1> QED
  BY <1>1, <1>2, <1>3 DEF ThreadMet, ResultMet, PartsBuilt

LEMMA NextPrograms == ProgramsInv /\ [Next]_vars => ProgramsInv'
<1> SUFFICES ASSUME ProgramsInv, [Next]_vars PROVE ProgramsInv'
  OBVIOUS
<1>1. HostInv'
  BY NextHost DEF ProgramsInv
<1>2. CASE UNCHANGED vars
  <2>1. /\ program' = program /\ next' = next /\ at' = at /\ result' = result
        /\ registry' = registry /\ process_cell' = process_cell /\ system_cell' = system_cell
    BY <1>2 DEF vars, cells
  <2>2. Isolated(program)'
    BY <2>1 DEF ProgramsInv
  <2>3. \A th \in Threads : ThreadMet(th)'
    BY <2>1 DEF ProgramsInv, ThreadMet, ResultMet, CellsAsRead, RegistryAsRead, PartsBuilt, Call
  <2> QED
    BY <1>1, <2>2, <2>3 DEF ProgramsInv
<1>3. ASSUME NEW th \in Threads, ThreadStep(th) PROVE ProgramsInv'
  <2>1. program' = program
    BY <1>3 DEF ThreadStep, SetProcess, SetSystem, ReadSystemCell, ReadProcessCell, PinFactory,
       BuildParts, DiscoverHandler, StartTasks, RegisterByHand, Ask, ReturnSystem, GoOn,
       Return, Panic
  <2>2. Isolated(program)'
    BY <2>1 DEF ProgramsInv
  <2>3. ThreadMet(th)'
    BY <1>3, SetsMet, AskMet, ReadSystemMet, ReadProcessMet, PinMet, DiscoverMet, StartMet
    DEF ThreadStep
  <2>4. \A u \in Threads \ {th} : ThreadMet(u)'
    BY <1>3, OthersMet
  <2> QED
    BY <1>1, <2>2, <2>3, <2>4 DEF ProgramsInv
<1> QED
  BY <1>2, <1>3 DEF Next

\* Threads that foresee what they expect, each alone in setting the cells if it
\* expects something of system_valence, get it from every call, however many
\* they are and however their calls interleave.
THEOREM IsolatedProgramsMet == Spec /\ Isolated(program) => []ExpectationsMet
<1>1. ProgramsInv => ExpectationsMet
  BY DEF ProgramsInv, ThreadMet, ResultMet, ExpectationsMet
<1> QED
  BY <1>1, InitPrograms, NextPrograms, PTL DEF Spec

----------------------------------------------------------------------------
(* What the tests and examples foresee.                                    *)

LEMMA FirstCallSets ==
  ASSUME NEW ops, NEW p, NEW i \in Nat, i > 1, p[1].op \in ops, NEW cell,
         FirstSet(ops, p, i, cell)
  PROVE  cell = p[1].factory
BY DEF FirstSet

LEMMA NothingSet ==
  ASSUME NEW ops, NEW p, NEW i \in Nat, \A j \in 1 .. i - 1 : p[j].op \notin ops,
         NEW cell, FirstSet(ops, p, i, cell)
  PROVE  cell = None
BY DEF FirstSet

LEMMA TheFactories ==
  /\ External = [router |-> "up", actor_json_policy |-> "RejectExternalSystemActor",
                 actor_trust |-> "External"]
  /\ Internal = [router |-> "up", actor_json_policy |-> "RejectExternalSystemActor",
                 actor_trust |-> "Internal"]
  /\ Bare = [router |-> "up", actor_json_policy |-> "None", actor_trust |-> "External"]
  /\ Failing.router = "down"
  /\ {External, Internal, Bare} \subseteq ValenceFactories \ {None}
<1>1. RejectingExternalSystem(RouterFactory("up")) =
        [router |-> "up", actor_json_policy |-> "RejectExternalSystemActor",
         actor_trust |-> "External"]
  BY DEF RejectingExternalSystem, RouterFactory
<1>2. External = [router |-> "up", actor_json_policy |-> "RejectExternalSystemActor",
                  actor_trust |-> "External"]
  BY <1>1 DEF External, NewFactory
<1>3. Internal = [router |-> "up", actor_json_policy |-> "RejectExternalSystemActor",
                  actor_trust |-> "Internal"]
  BY <1>1 DEF Internal, NewInternalFactory
<1>4. Bare = [router |-> "up", actor_json_policy |-> "None", actor_trust |-> "External"]
      /\ Failing.router = "down"
  BY DEF Bare, Failing, RouterFactory
<1>5. {External, Internal, Bare} \subseteq ValenceFactories
  BY <1>2, <1>3, <1>4 DEF ValenceFactories
<1> QED
  BY <1>2, <1>3, <1>4, <1>5, HostAssumption

LEMMA FactoriesBuild ==
  /\ Build(External, "user") = "ok" /\ Build(Internal, "system") = "ok"
  /\ Build(Bare, "system") = "ok"
  /\ Build(External, "system") = "system_rejected"
  /\ Build(External, "opaque") = "not_an_actor"
  /\ Reconstruct(External, "user") = "ok"
  /\ Reconstruct(External, "system") = "system_rejected"
  /\ Reconstruct(External, "opaque") = "invalid_shape"
  /\ Reconstruct(External, "malformed") = "invalid_json"
  /\ Reconstruct(Failing, "system") = "build_failed" /\ Reconstruct(Internal, "system") = "ok"
BY TheFactories DEF Build, Builds, Reconstruct, Texts, JsonTexts, ActorTexts

LEMMA BuildForeseen ==
  ASSUME NEW p, NEW i, NEW f, NEW text,
         \/ p[i] = BuildSession(f, text, Build(f, text))
         \/ p[i] = ReconstructActor(f, text, Reconstruct(f, text))
  PROVE  ForeseenCall(p, i)
BY DEF ForeseenCall, BuildSession, ReconstructActor, PureOps, RegistryOps, Answer

LEMMA SetForeseen ==
  ASSUME NEW p, NEW i, NEW f, p[i] = SetSystemTo(f)
  PROVE  ForeseenCall(p, i)
BY DEF ForeseenCall, SetSystemTo

\* The examples, and the integration test.
LEMMA wire_factory_foreseen == Foreseen(wire_factory)
<1> DEFINE p == wire_factory
<1>1. /\ Len(p) = 5 /\ p[1] = SetSystemTo(Internal) /\ p[2] = BuildSession(External, "user", "ok")
      /\ p[3] = ReconstructActor(External, "user", "ok")
      /\ p[4] = BuildSession(External, "system", "system_rejected") /\ p[5] = SystemValence("ok")
  BY DEF wire_factory
<1> HIDE DEF p
<1>2. ForeseenCall(p, 1) /\ ForeseenCall(p, 2) /\ ForeseenCall(p, 3) /\ ForeseenCall(p, 4)
  BY <1>1, FactoriesBuild, SetForeseen, BuildForeseen
<1>3. ForeseenCall(p, 5)
  <2>1. \A cell : FirstSet(SystemSetters, p, 5, cell) => cell = Internal
    BY <1>1, FirstCallSets DEF SystemSetters, SetSystemTo
  <2> QED
    BY <1>1, <2>1, FactoriesBuild, TheFactories DEF ForeseenCall, SystemValence, SystemAnswer
<1>4. \A i \in 1 .. 5 : i \in {1, 2, 3, 4, 5}
  OBVIOUS
<1> QED
  BY <1>1, <1>2, <1>3, <1>4 DEF Foreseen, p

LEMMA persist_actor_recover_foreseen == Foreseen(persist_actor_recover)
<1> DEFINE p == persist_actor_recover
<1>1. /\ Len(p) = 3 /\ p[1] = SetSystemTo(Internal) /\ p[2] = BuildSession(External, "user", "ok")
      /\ p[3] = ReconstructActor(External, "user", "ok")
  BY DEF persist_actor_recover
<1> HIDE DEF p
<1>2. ForeseenCall(p, 1) /\ ForeseenCall(p, 2) /\ ForeseenCall(p, 3)
  BY <1>1, FactoriesBuild, SetForeseen, BuildForeseen
<1>3. \A i \in 1 .. 3 : i \in {1, 2, 3}
  OBVIOUS
<1> QED
  BY <1>1, <1>2, <1>3 DEF Foreseen, p

LEMMA build_photon_runtime_foreseen == Foreseen(build_photon_runtime_installs_system_valence)
<1> DEFINE p == build_photon_runtime_installs_system_valence
<1>1. Len(p) = 2 /\ p[1] = BuildRuntime(Bare, TRUE, TRUE, "ok") /\ p[2] = SystemValence("ok")
  BY DEF build_photon_runtime_installs_system_valence
<1> HIDE DEF p
<1>2. ForeseenCall(p, 1)
  BY <1>1 DEF ForeseenCall, BuildRuntime, RuntimeAnswer
<1>3. ForeseenCall(p, 2)
  <2>1. \A cell : FirstSet(SystemSetters, p, 2, cell) => cell = None
    BY <1>1, NothingSet DEF SystemSetters, BuildRuntime
  <2>2. \A cell : FirstSet(ProcessSetters, p, 2, cell) => cell = Bare
    BY <1>1, FirstCallSets DEF ProcessSetters, BuildRuntime
  <2> QED
    BY <1>1, <2>1, <2>2, FactoriesBuild, TheFactories
    DEF ForeseenCall, SystemValence, SystemAnswer
<1>4. \A i \in 1 .. 2 : i \in {1, 2}
  OBVIOUS
<1> QED
  BY <1>1, <1>2, <1>3, <1>4 DEF Foreseen, p

\* The test of system_valence.
LEMMA system_valence_test_foreseen == Foreseen(system_valence_requires_install_then_succeeds)
<1> DEFINE p == system_valence_requires_install_then_succeeds
<1>1. /\ Len(p) = 3 /\ p[1] = SystemValence("not_installed") /\ p[2] = SetSystemTo(Internal)
      /\ p[3] = SystemValence("ok")
  BY DEF system_valence_requires_install_then_succeeds
<1> HIDE DEF p
<1>2. ForeseenCall(p, 1)
  <2>1. \A ops, cell : FirstSet(ops, p, 1, cell) => cell = None
    BY NothingSet
  <2> QED
    BY <1>1, <2>1 DEF ForeseenCall, SystemValence, SystemAnswer
<1>3. ForeseenCall(p, 2)
  BY <1>1, SetForeseen
<1>4. ForeseenCall(p, 3)
  <2>1. \A cell : FirstSet(SystemSetters, p, 3, cell) => cell = Internal
    BY <1>1 DEF FirstSet, SystemSetters, SetSystemTo, SystemValence
  <2> QED
    BY <1>1, <2>1, FactoriesBuild, TheFactories DEF ForeseenCall, SystemValence, SystemAnswer
<1>5. \A i \in 1 .. 3 : i \in {1, 2, 3}
  OBVIOUS
<1> QED
  BY <1>1, <1>2, <1>3, <1>4, <1>5 DEF Foreseen, p

\* The tests of ProcessValenceFactory and of ValenceIdentityFactory.
LEMMA identity_tests_foreseen ==
  /\ Foreseen(external_rejects_invalid_and_system_actor_json)
  /\ Foreseen(internal_accepts_system_actor) /\ Foreseen(external_accepts_user_actor)
  /\ Foreseen(reconstruct_rejects_invalid_json)
  /\ Foreseen(reconstruct_rejects_invalid_actor_shape)
  /\ Foreseen(reconstruct_rejects_system_on_external_factory)
  /\ Foreseen(reconstruct_maps_valence_build_failure)
  /\ Foreseen(reconstruct_ok_with_system_actor_internal)
<1>1. \A p, i : \/ p[i] = BuildSession(External, "opaque", "not_an_actor")
               \/ p[i] = BuildSession(External, "system", "system_rejected")
               \/ p[i] = BuildSession(Internal, "system", "ok")
               \/ p[i] = BuildSession(External, "user", "ok")
               \/ p[i] = ReconstructActor(External, "malformed", "invalid_json")
               \/ p[i] = ReconstructActor(External, "opaque", "invalid_shape")
               \/ p[i] = ReconstructActor(External, "system", "system_rejected")
               \/ p[i] = ReconstructActor(Failing, "system", "build_failed")
               \/ p[i] = ReconstructActor(Internal, "system", "ok")
               => ForeseenCall(p, i)
  BY FactoriesBuild, BuildForeseen
<1>2. (\A i \in 1 .. 1 : i = 1) /\ (\A i \in 1 .. 2 : i \in {1, 2})
  OBVIOUS
<1>3. Foreseen(external_rejects_invalid_and_system_actor_json)
  BY <1>1, <1>2 DEF Foreseen, external_rejects_invalid_and_system_actor_json
<1>4. Foreseen(internal_accepts_system_actor) /\ Foreseen(external_accepts_user_actor)
  BY <1>1, <1>2 DEF Foreseen, internal_accepts_system_actor, external_accepts_user_actor
<1>5. /\ Foreseen(reconstruct_rejects_invalid_json)
      /\ Foreseen(reconstruct_rejects_invalid_actor_shape)
      /\ Foreseen(reconstruct_rejects_system_on_external_factory)
  BY <1>1, <1>2 DEF Foreseen, reconstruct_rejects_invalid_json,
     reconstruct_rejects_invalid_actor_shape, reconstruct_rejects_system_on_external_factory
<1>6. /\ Foreseen(reconstruct_maps_valence_build_failure)
      /\ Foreseen(reconstruct_ok_with_system_actor_internal)
  BY <1>1, <1>2
  DEF Foreseen, reconstruct_maps_valence_build_failure, reconstruct_ok_with_system_actor_internal
<1> QED
  BY <1>3, <1>4, <1>5, <1>6

\* What a registry with one handler, or none, answers.
LEMMA OneLen ==
  ASSUME NEW h \in Handlers, NEW counts, \A g \in Handlers : counts[g] = IF g = h THEN 1 ELSE 0
  PROVE  len(RegistryOf(counts)) = 1
<1> DEFINE all == RegistryOf(counts).all
           Copies == UNION {{g} \X (1 .. all[g]) : g \in Handlers}
<1>1. \A g \in Handlers : all[g] = IF g = h THEN 1 ELSE 0
  BY DEF RegistryOf
<1> HIDE DEF all
<1>2. \A x : x \in Copies <=> x = <<h, 1>>
  <2>1. \A x : x \in Copies <=> \E g \in Handlers : x \in {g} \X (1 .. all[g])
    OBVIOUS
  <2>2. (\A j : j \in 1 .. 1 <=> j = 1) /\ (\A j : ~(j \in 1 .. 0))
    OBVIOUS
  <2>3. \A g \in Handlers : \A j : j \in 1 .. all[g] <=> g = h /\ j = 1
    BY <1>1, <2>2
  <2>4. \A g \in Handlers : \A x :
          x \in {g} \X (1 .. all[g]) <=> \E j \in 1 .. all[g] : x = <<g, j>>
    OBVIOUS
  <2> QED
    BY <2>1, <2>3, <2>4
<1>3. Copies = {<<h, 1>>}
  BY <1>2
<1>4. Cardinality({<<h, 1>>}) = 1
  BY FS_Singleton
<1> QED
  BY <1>3, <1>4 DEF len, all

\* The tests of HandlerRegistry: after its first call the registry holds one
\* handler, h, once.
LEMMA OneRegistered ==
  ASSUME NEW p, NEW h \in Handlers, p[1] = RegisterHandler(h), NEW i \in Nat, i > 1,
         \A j \in 2 .. i - 1 : p[j].op # "register"
  PROVE  \A g \in Handlers : Registrations(p, i)[g] = IF g = h THEN 1 ELSE 0
<1> SUFFICES ASSUME NEW g \in Handlers
             PROVE  Registrations(p, i)[g] = IF g = h THEN 1 ELSE 0
  OBVIOUS
<1> DEFINE K == {k \in 1 .. i - 1 : p[k].op = "register" /\ p[k].handler = g}
<1>1. \A k : k \in K <=> k = 1 /\ g = h
  <2>1. \A k : k \in 1 .. i - 1 <=> k = 1 \/ k \in 2 .. i - 1
    OBVIOUS
  <2>2. p[1].op = "register" /\ p[1].handler = h
    BY DEF RegisterHandler
  <2> QED
    BY <2>1, <2>2
<1>2. Registrations(p, i)[g] = Cardinality(K)
  BY DEF Registrations
<1> HIDE DEF K
<1>3. CASE g = h
  <2>1. K = {1}
    BY <1>1, <1>3
  <2> QED
    BY <1>2, <1>3, <2>1, FS_Singleton
<1>4. CASE g # h
  <2>1. K = {}
    BY <1>1, <1>4
  <2> QED
    BY <1>2, <1>4, <2>1, FS_EmptySet
<1> QED
  BY <1>3, <1>4

LEMMA LookupForeseen ==
  ASSUME NEW p, NEW h \in Handlers, p[1] = RegisterHandler(h), NEW i \in Nat, i > 1,
         \A j \in 2 .. i - 1 : p[j].op \in RegistryOps,
         NEW t \in Topics, NEW k \in OptKeys, NEW S,
         \/ p[i] = LenIs(1)
         \/ p[i] = TopicNamesAre(S) /\ S = {Descriptor[h].topic_name}
         \/ p[i] = EventFinds(t, k, S) /\
            S = IF Descriptor[h].topic_name = t /\ Descriptor[h].topic_key_filter \in {None, k}
                THEN {h} ELSE {}
         \/ p[i] = TopicKeyFinds(t, k, S) /\ S = IF TopicKey(h) = <<t, k>> THEN {h} ELSE {}
  PROVE  ForeseenCall(p, i)
<1> DEFINE counts == Registrations(p, i)
           r == RegistryOf(counts)
           c == p[i]
<1>1. \A g \in Handlers : counts[g] = IF g = h THEN 1 ELSE 0
  <2>1. \A j \in 2 .. i - 1 : p[j].op # "register"
    BY DEF RegistryOps
  <2> QED
    BY <2>1, OneRegistered
<1>2. /\ \A g \in Handlers : r.all[g] = IF g = h THEN 1 ELSE 0
      /\ \A kf \in RegistryKeys, g \in Handlers :
           r.by_topic_and_key[kf][g] = IF g = h /\ kf = TopicKey(g) THEN 1 ELSE 0
  BY <1>1 DEF RegistryOf
<1>3. \A j \in 1 .. i - 1 : p[j].op # "build_photon_runtime"
  <2>1. \A j \in 1 .. i - 1 : j = 1 \/ j \in 2 .. i - 1
    OBVIOUS
  <2> QED
    BY <2>1 DEF RegistryOps, RegisterHandler
<1>4. len(r) = 1
  BY <1>1, OneLen
<1> HIDE DEF r
<1>5. c.op \in RegistryOps /\ c.expect = "true" /\ Holds(r, c)
  <2>1. CASE c = LenIs(1)
    BY <1>4, <2>1 DEF LenIs, RegistryOps, Holds
  <2>2. CASE c = TopicNamesAre(S) /\ S = {Descriptor[h].topic_name}
    <3>1. {g \in Handlers : r.all[g] > 0} = {h}
      BY <1>2
    <3>2. topic_names(r) = {Descriptor[h].topic_name}
      BY <3>1 DEF topic_names
    <3> QED
      BY <2>2, <3>2 DEF TopicNamesAre, RegistryOps, Holds
  <2>3. CASE c = EventFinds(t, k, S)
             /\ S = IF Descriptor[h].topic_name = t /\ Descriptor[h].topic_key_filter \in {None, k}
                    THEN {h} ELSE {}
    <3>1. /\ c.op = "handlers_for_event" /\ c.topic_name = t /\ c.topic_key = k
          /\ c.found = S /\ c.expect = "true"
      BY <2>3 DEF EventFinds
    <3>2. handlers_for_event(r, t, k) = Once(S)
      BY <1>2, <2>3 DEF handlers_for_event, MatchesEvent, Once
    <3> QED
      BY <3>1, <3>2 DEF RegistryOps, Holds
  <2>4. CASE c = TopicKeyFinds(t, k, S) /\ S = IF TopicKey(h) = <<t, k>> THEN {h} ELSE {}
    <3>1. /\ c.op = "handlers_for_topic_key" /\ c.topic_name = t /\ c.topic_key = k
          /\ c.found = S /\ c.expect = "true"
      BY <2>4 DEF TopicKeyFinds
    <3>2. <<t, k>> \in RegistryKeys
      BY DEF RegistryKeys
    <3>3. r.by_topic_and_key[<<t, k>>] =
            [g \in Handlers |-> IF <<t, k>> = TopicKey(g) THEN counts[g] ELSE 0]
      BY <3>2 DEF r, RegistryOf
    <3>4. handlers_for_topic_key(r, <<t, k>>) = Once(S)
      BY <1>1, <2>4, <3>3 DEF handlers_for_topic_key, Once
    <3> QED
      BY <3>1, <3>4 DEF RegistryOps, Holds
  <2> QED
    BY <2>1, <2>2, <2>3, <2>4
<1>6. c.op \in PureOps /\ c.expect = Answer(r, c)
  BY <1>5 DEF PureOps, RegistryOps, Answer
<1> QED
  BY <1>3, <1>6 DEF ForeseenCall, r

LEMMA TestHandlers ==
  /\ unfiltered \in Handlers /\ keyed \in Handlers
  /\ Descriptor[unfiltered].topic_name = topic /\ Descriptor[unfiltered].topic_key_filter = None
  /\ Descriptor[keyed].topic_name = topic /\ Descriptor[keyed].topic_key_filter = keyA
  /\ topic \in Topics /\ otherTopic \in Topics /\ {keyA, keyB, None} \subseteq OptKeys
  /\ keyA # None /\ keyB # None
BY ProgramsAssumption, NoneAssumption DEF TopicKey, OptKeys

LEMMA registry_tests_foreseen ==
  /\ Foreseen(new_is_empty)
  /\ Foreseen(register_and_handlers_for_event)
  /\ Foreseen(handlers_for_event_empty_when_no_match)
  /\ Foreseen(handlers_for_event_empty_when_key_filter_mismatches)
  /\ Foreseen(handlers_for_topic_key_empty_when_subscription_key_mismatches)
<1>1. Foreseen(new_is_empty)
  <2> DEFINE p == new_is_empty
  <2>1. /\ Len(p) = 3 /\ p[1] = Empty /\ p[2] = LenIs(0) /\ p[3] = TopicNamesAre({})
        /\ \A i \in 1 .. 3 : i \in {1, 2, 3}
    BY DEF new_is_empty
  <2> HIDE DEF p
  <2>2. ASSUME NEW i \in 1 .. 3
        PROVE  ForeseenCall(p, i)
    <3> DEFINE r == RegistryOf(Registrations(p, i))
    <3>1. \A h \in Handlers : Registrations(p, i)[h] = 0
      <4>1. ASSUME NEW h \in Handlers PROVE Registrations(p, i)[h] = 0
        <5>1. {k \in 1 .. i - 1 : p[k].op = "register" /\ p[k].handler = h} = {}
          BY <2>1 DEF Empty, LenIs
        <5>2. Registrations(p, i)[h] = Cardinality({})
          BY <5>1 DEF Registrations
        <5> QED
          BY <5>2, FS_EmptySet
      <4> QED
        BY <4>1
    <3>2. \A h \in Handlers : r.all[h] = 0
      BY <3>1 DEF RegistryOf
    <3>3. \A j \in 1 .. i - 1 : p[j].op # "build_photon_runtime"
      BY <2>1 DEF Empty, LenIs
    <3> HIDE DEF r
    <3>4. is_empty(r)
      BY <3>2 DEF is_empty
    <3>5. len(r) = 0
      <4>1. UNION {{h} \X (1 .. r.all[h]) : h \in Handlers} = {}
        <5>1. \A x : x \in UNION {{h} \X (1 .. r.all[h]) : h \in Handlers}
                     <=> \E h \in Handlers : x \in {h} \X (1 .. r.all[h])
          OBVIOUS
        <5>2. \A h \in Handlers : 1 .. r.all[h] = {}
          BY <3>2
        <5> QED
          BY <5>1, <5>2
      <4> QED
        BY <4>1, FS_EmptySet DEF len
    <3>6. topic_names(r) = {}
      <4>1. {h \in Handlers : r.all[h] > 0} = {}
        BY <3>2
      <4> QED
        BY <4>1 DEF topic_names
    <3>7. p[i].op \in RegistryOps /\ p[i].expect = "true" /\ Holds(r, p[i])
      <4>1. CASE i = 1
        <5>1. p[i].op = "is_empty" /\ p[i].expect = "true"
          BY <2>1, <4>1 DEF Empty
        <5> QED
          BY <3>4, <5>1 DEF RegistryOps, Holds
      <4>2. CASE i = 2
        <5>1. p[i].op = "len" /\ p[i].count = 0 /\ p[i].expect = "true"
          BY <2>1, <4>2 DEF LenIs
        <5> QED
          BY <3>5, <5>1 DEF RegistryOps, Holds
      <4>3. CASE i = 3
        <5>1. p[i].op = "topic_names" /\ p[i].names = {} /\ p[i].expect = "true"
          BY <2>1, <4>3 DEF TopicNamesAre
        <5> QED
          BY <3>6, <5>1 DEF RegistryOps, Holds
      <4> QED
        BY <2>1, <4>1, <4>2, <4>3
    <3>8. p[i].op \in PureOps /\ p[i].expect = Answer(r, p[i])
      BY <3>7 DEF PureOps, RegistryOps, Answer
    <3> QED
      BY <3>3, <3>8 DEF ForeseenCall, r
  <2> QED
    BY <2>1, <2>2 DEF Foreseen, p
<1>2. \A p, h : p[1] = RegisterHandler(h) => ForeseenCall(p, 1)
  BY DEF ForeseenCall, RegisterHandler
<1>3. /\ \A j \in 2 .. 2 - 1 : FALSE
      /\ \A j \in 2 .. 3 - 1 : j = 2
      /\ \A j \in 2 .. 4 - 1 : j \in {2, 3}
      /\ \A i \in 1 .. 2 : i \in {1, 2}
      /\ \A i \in 1 .. 4 : i \in {1, 2, 3, 4}
  OBVIOUS
<1>4. Foreseen(register_and_handlers_for_event)
  <2> DEFINE p == register_and_handlers_for_event
  <2>1. /\ Len(p) = 4 /\ p[1] = RegisterHandler(unfiltered) /\ p[2] = LenIs(1)
        /\ p[3] = TopicNamesAre({topic}) /\ p[4] = EventFinds(topic, None, {unfiltered})
    BY DEF register_and_handlers_for_event
  <2> HIDE DEF p
  <2>2. p[2].op \in RegistryOps /\ p[3].op \in RegistryOps
    BY <2>1 DEF LenIs, TopicNamesAre, RegistryOps
  <2>3. ForeseenCall(p, 2)
    BY <1>3, <2>1, TestHandlers, LookupForeseen
  <2>4. ForeseenCall(p, 3)
    BY <1>3, <2>1, <2>2, TestHandlers, LookupForeseen
  <2>5. ForeseenCall(p, 4)
    BY <1>3, <2>1, <2>2, TestHandlers, LookupForeseen
  <2> QED
    BY <1>2, <1>3, <2>1, <2>3, <2>4, <2>5 DEF Foreseen, p
<1>5. Foreseen(handlers_for_event_empty_when_no_match)
  <2> DEFINE p == handlers_for_event_empty_when_no_match
  <2>1. /\ Len(p) = 2 /\ p[1] = RegisterHandler(unfiltered)
        /\ p[2] = EventFinds(otherTopic, None, {})
    BY DEF handlers_for_event_empty_when_no_match
  <2> HIDE DEF p
  <2>2. ForeseenCall(p, 2)
    BY <1>3, <2>1, TestHandlers, ProgramsAssumption, LookupForeseen
  <2> QED
    BY <1>2, <1>3, <2>1, <2>2 DEF Foreseen, p
<1>6. ASSUME NEW p, Len(p) = 4, p[1] = RegisterHandler(keyed),
             \/ /\ p[2] = EventFinds(topic, keyB, {}) /\ p[3] = EventFinds(topic, None, {})
                /\ p[4] = EventFinds(topic, keyA, {keyed})
             \/ /\ p[2] = TopicKeyFinds(topic, keyB, {})
                /\ p[3] = TopicKeyFinds(topic, None, {})
                /\ p[4] = TopicKeyFinds(topic, keyA, {keyed})
      PROVE  Foreseen(p)
  <2>1. p[2].op \in RegistryOps /\ p[3].op \in RegistryOps
    BY <1>6 DEF EventFinds, TopicKeyFinds, RegistryOps
  <2>2. TopicKey(keyed) = <<topic, keyA>> /\ keyA # keyB
    BY ProgramsAssumption
  <2>3. ForeseenCall(p, 2)
    BY <1>3, <1>6, <2>2, TestHandlers, LookupForeseen
  <2>4. ForeseenCall(p, 3)
    BY <1>3, <1>6, <2>1, <2>2, TestHandlers, LookupForeseen
  <2>5. ForeseenCall(p, 4)
    BY <1>3, <1>6, <2>1, <2>2, TestHandlers, LookupForeseen
  <2> QED
    BY <1>2, <1>3, <1>6, <2>3, <2>4, <2>5 DEF Foreseen
<1>7. /\ Foreseen(handlers_for_event_empty_when_key_filter_mismatches)
      /\ Foreseen(handlers_for_topic_key_empty_when_subscription_key_mismatches)
  BY <1>6 DEF handlers_for_event_empty_when_key_filter_mismatches,
     handlers_for_topic_key_empty_when_subscription_key_mismatches
<1> QED
  BY <1>1, <1>4, <1>5, <1>7

\* The tests of HandlerDescriptor, and the one of is_durable_descriptor.
LEMMA descriptor_tests_foreseen ==
  /\ Foreseen(matches_event_topic_mismatch) /\ Foreseen(matches_event_no_key_filter)
  /\ Foreseen(matches_event_with_key_filter)
  /\ Foreseen(is_durable_descriptor_matches_mode)
<1>1. \A p, i, h, t, k, e :
        /\ p[i] = Matches(h, t, k, e)
        /\ e = IF MatchesEvent(Descriptor[h], t, k) THEN "true" ELSE "false"
        => ForeseenCall(p, i)
  BY DEF ForeseenCall, Matches, PureOps, RegistryOps, Answer, Holds
<1>2. \A p, i, m, e : p[i] = DurableMode(m, e) /\ e = (IF m = "Durable" THEN "true" ELSE "false")
                      => ForeseenCall(p, i)
  BY DEF ForeseenCall, DurableMode, PureOps, RegistryOps, Answer, Holds, IsDurable
<1>3. /\ ~MatchesEvent(Descriptor[unfiltered], otherTopic, None)
      /\ MatchesEvent(Descriptor[unfiltered], topic, None)
      /\ MatchesEvent(Descriptor[unfiltered], topic, keyA)
      /\ ~MatchesEvent(Descriptor[keyed], topic, None)
      /\ MatchesEvent(Descriptor[keyed], topic, keyA)
      /\ ~MatchesEvent(Descriptor[keyed], topic, keyB)
  BY TestHandlers, ProgramsAssumption DEF MatchesEvent
<1>4. /\ \A i \in 1 .. 1 : i = 1
      /\ \A i \in 1 .. 2 : i \in {1, 2}
      /\ \A i \in 1 .. 3 : i \in {1, 2, 3}
  OBVIOUS
<1>5. Foreseen(matches_event_topic_mismatch)
  BY <1>1, <1>3, <1>4 DEF Foreseen, matches_event_topic_mismatch
<1>6. Foreseen(matches_event_no_key_filter)
  BY <1>1, <1>3, <1>4 DEF Foreseen, matches_event_no_key_filter
<1>7. Foreseen(matches_event_with_key_filter)
  BY <1>1, <1>3, <1>4 DEF Foreseen, matches_event_with_key_filter
<1>8. Foreseen(is_durable_descriptor_matches_mode)
  BY <1>2, <1>4 DEF Foreseen, is_durable_descriptor_matches_mode
<1> QED
  BY <1>5, <1>6, <1>7, <1>8

\* The test of truncate_error: 255 characters and the ellipsis are left.
LEMMA truncate_test_foreseen == Foreseen(truncate_error_preserves_utf8_boundaries)
<1> DEFINE p == truncate_error_preserves_utf8_boundaries
           ends == {2 * i : i \in 1 .. 300}
<1>1. Len(p) = 1 /\ p[1] = TruncateError(ends, 510, 513, "true") /\ \A i \in 1 .. 1 : i = 1
  BY DEF truncate_error_preserves_utf8_boundaries
<1>2. IsMessage(ends)
  <2>1. ends \subseteq 1 .. 600
    OBVIOUS
  <2>2. IsFiniteSet(ends)
    <3>1. \A n \in Int : IsFiniteSet(1 .. n)
      BY FS_Interval
    <3>2. 600 \in Int
      OBVIOUS
    <3>3. IsFiniteSet(1 .. 600)
      BY <3>1, <3>2
    <3> QED
      BY <2>1, <3>3, FS_Subset
  <2>3. ends \subseteq Nat \ {0}
    OBVIOUS
  <2>4. ASSUME NEW i \in 1 .. 300
        PROVE  \E d \in ends \cup {0} : d < 2 * i /\ 2 * i <= d + 4
    <3>1. CASE i = 1
      BY <3>1
    <3>2. CASE i # 1
      <4>1. i - 1 \in 1 .. 300 /\ 2 * (i - 1) < 2 * i /\ 2 * i <= 2 * (i - 1) + 4
        BY <3>2
      <4>2. 2 * (i - 1) \in ends
        BY <4>1
      <4> QED
        BY <4>1, <4>2
    <3> QED
      BY <3>1, <3>2
  <2>5. \A e \in ends : \E d \in ends \cup {0} : d < e /\ e <= d + 4
    BY <2>4
  <2> QED
    BY <2>2, <2>3, <2>5 DEF IsMessage
<1>3. 600 \in ends
  <2>1. 300 \in 1 .. 300 /\ 2 * 300 = 600
    OBVIOUS
  <2> QED
    BY <2>1
<1>4. 510 \in ends /\ \A e \in ends : e <= 511 => e <= 510
  <2>1. 255 \in 1 .. 300 /\ 2 * 255 = 510
    OBVIOUS
  <2>2. 510 \in ends
    BY <2>1
  <2>3. \A i \in 1 .. 300 : 2 * i <= 511 => 2 * i <= 510
    OBVIOUS
  <2> QED
    BY <2>2, <2>3
<1> HIDE DEF p, ends
<1>5. ByteLen(ends) \in Nat /\ ByteLen(ends) > MAX_ERROR_LEN
  BY <1>2, <1>3, ByteLenFacts DEF MAX_ERROR_LEN
<1>6. PrefixEnd(ends) = 510
  <2>1. /\ PrefixEnd(ends) \in ends /\ PrefixEnd(ends) \in 508 .. 511
        /\ \A e \in ends : e > PrefixEnd(ends) => e >= 512
    <3>1. PrefixEnd(ends) \in MAX_ERROR_LEN - 4 .. MAX_ERROR_LEN - 1
      BY <1>2, <1>5, PrefixEndFacts
    <3> QED
      BY <1>2, <1>5, <3>1, PrefixEndFacts DEF MAX_ERROR_LEN
  <2>2. ~(510 > PrefixEnd(ends))
    BY <1>4, <2>1
  <2>3. PrefixEnd(ends) <= 510
    BY <1>4, <2>1
  <2> QED
    BY <2>1, <2>2, <2>3
<1>7. truncate_error(ends) = [kept |-> 510, len |-> 513]
  BY <1>5, <1>6 DEF truncate_error, MAX_ERROR_LEN, EllipsisLen
<1>8. ForeseenCall(p, 1)
  <2>1. /\ p[1].op = "truncate_error" /\ p[1].message = ends /\ p[1].expect = "true"
        /\ p[1].left = [kept |-> 510, len |-> 513]
    BY <1>1 DEF TruncateError
  <2> QED
    BY <1>7, <2>1 DEF ForeseenCall, PureOps, RegistryOps, Answer, Holds
<1> QED
  BY <1>1, <1>8 DEF Foreseen, p

----------------------------------------------------------------------------
(* The repository's runs are isolated.                                     *)

\* Programs that neither set the cells nor expect anything of system_valence.
Indifferent(p) == ~SetsCells(p) /\ ~AsksSystem(p)

LEMMA TestsIndifferent ==
  \A p \in (UnitTests \ {system_valence_requires_install_then_succeeds}) \cup {<< >>} :
    Indifferent(p)
<1> DEFINE Quiet == PureOps \cup {"register"}
<1>1. ASSUME NEW p, \A i \in 1 .. Len(p) : p[i].op \in Quiet PROVE Indifferent(p)
  BY <1>1 DEF Indifferent, SetsCells, AsksSystem, SystemSetters, ProcessSetters, PureOps,
     RegistryOps
<1>2. \A f, text, e : /\ BuildSession(f, text, e).op \in Quiet
                     /\ ReconstructActor(f, text, e).op \in Quiet
  BY DEF BuildSession, ReconstructActor, PureOps
<1>3. /\ Empty.op \in Quiet /\ \A n : LenIs(n).op \in Quiet /\ TopicNamesAre(n).op \in Quiet
      /\ \A t, k, S : EventFinds(t, k, S).op \in Quiet /\ TopicKeyFinds(t, k, S).op \in Quiet
      /\ \A h : RegisterHandler(h).op \in Quiet
      /\ \A h, t, k, e : Matches(h, t, k, e).op \in Quiet
      /\ \A m, e : DurableMode(m, e).op \in Quiet
      /\ \A m, kept, length, e : TruncateError(m, kept, length, e).op \in Quiet
  BY DEF Empty, LenIs, TopicNamesAre, EventFinds, TopicKeyFinds, RegisterHandler, Matches,
     DurableMode, TruncateError, PureOps, RegistryOps
<1> HIDE DEF Quiet
<1>4. /\ \A i \in 1 .. 1 : i = 1
      /\ \A i \in 1 .. 2 : i \in {1, 2}
      /\ \A i \in 1 .. 3 : i \in {1, 2, 3}
      /\ \A i \in 1 .. 4 : i \in {1, 2, 3, 4}
      /\ \A i \in 1 .. 0 : FALSE
  OBVIOUS
<1>5. Indifferent(<< >>)
  BY <1>1, <1>4
<1>6. /\ Indifferent(external_rejects_invalid_and_system_actor_json)
      /\ Indifferent(internal_accepts_system_actor) /\ Indifferent(external_accepts_user_actor)
  BY <1>1, <1>2, <1>4
  DEF external_rejects_invalid_and_system_actor_json, internal_accepts_system_actor,
      external_accepts_user_actor
<1>7. /\ Indifferent(reconstruct_rejects_invalid_json)
      /\ Indifferent(reconstruct_rejects_invalid_actor_shape)
      /\ Indifferent(reconstruct_rejects_system_on_external_factory)
      /\ Indifferent(reconstruct_maps_valence_build_failure)
      /\ Indifferent(reconstruct_ok_with_system_actor_internal)
  BY <1>1, <1>2, <1>4
  DEF reconstruct_rejects_invalid_json, reconstruct_rejects_invalid_actor_shape,
      reconstruct_rejects_system_on_external_factory,
      reconstruct_maps_valence_build_failure, reconstruct_ok_with_system_actor_internal
<1>8. /\ Indifferent(new_is_empty) /\ Indifferent(truncate_error_preserves_utf8_boundaries)
      /\ Indifferent(is_durable_descriptor_matches_mode)
  <2>1. Len(new_is_empty) = 3 /\ \A n \in {1, 2, 3} : new_is_empty[n].op \in Quiet
    BY <1>3 DEF new_is_empty
  <2>2. /\ Len(is_durable_descriptor_matches_mode) = 2
        /\ \A n \in {1, 2} : is_durable_descriptor_matches_mode[n].op \in Quiet
    BY <1>3 DEF is_durable_descriptor_matches_mode
  <2>3. Len(truncate_error_preserves_utf8_boundaries) = 1
        /\ truncate_error_preserves_utf8_boundaries[1].op \in Quiet
    BY <1>3 DEF truncate_error_preserves_utf8_boundaries
  <2> QED
    BY <1>1, <1>4, <2>1, <2>2, <2>3
<1>9. /\ Indifferent(register_and_handlers_for_event)
      /\ Indifferent(handlers_for_event_empty_when_no_match)
  <2>1. \A n \in {1, 2, 3, 4} : register_and_handlers_for_event[n].op \in Quiet
    BY <1>3 DEF register_and_handlers_for_event
  <2>2. \A n \in {1, 2} : handlers_for_event_empty_when_no_match[n].op \in Quiet
    BY <1>3 DEF handlers_for_event_empty_when_no_match
  <2>3. /\ Len(register_and_handlers_for_event) = 4
        /\ Len(handlers_for_event_empty_when_no_match) = 2
    BY DEF register_and_handlers_for_event, handlers_for_event_empty_when_no_match
  <2> QED
    BY <1>1, <1>4, <2>1, <2>2, <2>3
<1>10. Indifferent(handlers_for_event_empty_when_key_filter_mismatches)
  <2> DEFINE p == handlers_for_event_empty_when_key_filter_mismatches
  <2>1. \A n \in {1, 2, 3, 4} : p[n].op \in Quiet
    BY <1>3 DEF handlers_for_event_empty_when_key_filter_mismatches
  <2>2. Len(p) = 4
    BY DEF handlers_for_event_empty_when_key_filter_mismatches
  <2> QED
    BY <1>1, <1>4, <2>1, <2>2
<1>11. Indifferent(handlers_for_topic_key_empty_when_subscription_key_mismatches)
  <2> DEFINE p == handlers_for_topic_key_empty_when_subscription_key_mismatches
  <2>1. \A n \in {1, 2, 3, 4} : p[n].op \in Quiet
    BY <1>3 DEF handlers_for_topic_key_empty_when_subscription_key_mismatches
  <2>2. Len(p) = 4
    BY DEF handlers_for_topic_key_empty_when_subscription_key_mismatches
  <2> QED
    BY <1>1, <1>4, <2>1, <2>2
<1>12. /\ Indifferent(matches_event_topic_mismatch) /\ Indifferent(matches_event_no_key_filter)
       /\ Indifferent(matches_event_with_key_filter)
  <2>1. Len(matches_event_topic_mismatch) = 1 /\ matches_event_topic_mismatch[1].op \in Quiet
    BY <1>3 DEF matches_event_topic_mismatch
  <2>2. /\ Len(matches_event_no_key_filter) = 2
        /\ \A n \in {1, 2} : matches_event_no_key_filter[n].op \in Quiet
    BY <1>3 DEF matches_event_no_key_filter
  <2>3. /\ Len(matches_event_with_key_filter) = 3
        /\ \A n \in {1, 2, 3} : matches_event_with_key_filter[n].op \in Quiet
    BY <1>3 DEF matches_event_with_key_filter
  <2> QED
    BY <1>1, <1>4, <2>1, <2>2, <2>3
<1> QED
  BY <1>5, <1>6, <1>7, <1>8, <1>9, <1>10, <1>11, <1>12 DEF UnitTests

LEMMA NothingForeseen == Foreseen(<< >>)
<1>1. \A i \in 1 .. 0 : FALSE
  OBVIOUS
<1> QED
  BY <1>1 DEF Foreseen

LEMMA TestRunIsolated == \A ps : TestRun(ps) => Isolated(ps)
<1> SUFFICES ASSUME NEW ps, TestRun(ps), NEW th \in Threads
             PROVE  /\ Foreseen(ps[th])
                    /\ AsksSystem(ps[th]) => \A u \in Threads \ {th} : ~SetsCells(ps[u])
  BY DEF Isolated
<1>1. \A u \in Threads : ps[u] \in UnitTests \cup {<< >>}
  BY DEF TestRun
<1>2. Foreseen(ps[th])
  BY <1>1, NothingForeseen, system_valence_test_foreseen, identity_tests_foreseen,
     registry_tests_foreseen, descriptor_tests_foreseen, truncate_test_foreseen
  DEF UnitTests
<1>3. ASSUME AsksSystem(ps[th]), NEW u \in Threads \ {th} PROVE ~SetsCells(ps[u])
  <2>1. ps[th] = system_valence_requires_install_then_succeeds /\ ps[th] # << >>
    BY <1>1, <1>3, TestsIndifferent DEF Indifferent
  <2>2. ps[u] # ps[th]
    BY <2>1 DEF TestRun
  <2> QED
    BY <1>1, <2>1, <2>2, TestsIndifferent DEF Indifferent
<1> QED
  BY <1>2, <1>3

LEMMA HostRunIsolated == \A ps : HostRun(ps) => Isolated(ps)
<1> SUFFICES ASSUME NEW ps, HostRun(ps) PROVE Isolated(ps)
  OBVIOUS
<1>1. PICK th \in Threads :
        /\ ps[th] \in {wire_factory, persist_actor_recover,
                       build_photon_runtime_installs_system_valence}
        /\ \A u \in Threads \ {th} : ps[u] = << >>
  BY DEF HostRun
<1>2. Foreseen(ps[th])
  BY <1>1, wire_factory_foreseen, persist_actor_recover_foreseen, build_photon_runtime_foreseen
<1>3. \A u \in Threads \ {th} : Foreseen(ps[u]) /\ Indifferent(ps[u])
  BY <1>1, NothingForeseen, TestsIndifferent
<1> QED
  BY <1>2, <1>3 DEF Isolated, Indifferent

\* What the 19 unit tests of UnitTests, the integration test of
\* build_photon_runtime and the two examples assert of their calls, as
\* HostPrograms has it, holds in every process that runs them: the tests of one
\* binary on any number of threads, in any selection, interleaved in any way
\* over the two cells.
THEOREM RepositoryProgramsMet ==
  Spec /\ (TestRun(program) \/ HostRun(program)) => []ExpectationsMet
<1>1. TestRun(program) \/ HostRun(program) => Isolated(program)
  BY TestRunIsolated, HostRunIsolated
<1> QED
  BY <1>1, IsolatedProgramsMet, PTL

=============================================================================
