---------------------------- MODULE HostPrograms ----------------------------
(***************************************************************************)
(* The programs of the repository that use the host interface: the two     *)
(* examples, the unit tests, which cargo runs as threads of one process,   *)
(* and the integration test of build_photon_runtime.  What they assert of  *)
(* a call is in its fields.  Not here: that labels and messages have       *)
(* words in them, an error being told by its reason, and which user a      *)
(* session is for.                                                         *)
(***************************************************************************)
EXTENDS Host

CONSTANTS
  unfiltered, keyed,  \* handlers of the topic the tests register
  topic, otherTopic,
  keyA, keyB

ASSUME ProgramsAssumption ==
  /\ {unfiltered, keyed} \subseteq Handlers /\ {topic, otherTopic} \subseteq Topics
  /\ {keyA, keyB} \subseteq Keys /\ topic # otherTopic /\ keyA # keyB
  /\ TopicKey(unfiltered) = <<topic, None>> /\ TopicKey(keyed) = <<topic, keyA>>

External == NewFactory("up")
Internal == NewInternalFactory("up")
Failing  == RouterFactory("down")
Bare     == RouterFactory("up")

SetProcessTo(f)    == [op |-> "set_process", factory |-> f, expect |-> "ok"]
SetSystemTo(f)     == [op |-> "set_system", factory |-> f, expect |-> "ok"]
SystemValence(e)   == [op |-> "system_valence", expect |-> e]
BuildSession(f, text, e) == [op |-> "build", factory |-> f, text |-> text, expect |-> e]
ReconstructActor(f, text, e) ==
  [op |-> "reconstruct", factory |-> f, text |-> text, expect |-> e]
BuildRuntime(f, parts, tokio, e) ==
  [op |-> "build_photon_runtime", factory |-> f, parts_ok |-> parts, in_tokio |-> tokio,
   expect |-> e]
RegisterHandler(h) == [op |-> "register", handler |-> h, expect |-> "ok"]
Empty            == [op |-> "is_empty", expect |-> "true"]
LenIs(n)         == [op |-> "len", count |-> n, expect |-> "true"]
TopicNamesAre(S) == [op |-> "topic_names", names |-> S, expect |-> "true"]
EventFinds(t, k, S) ==
  [op |-> "handlers_for_event", topic_name |-> t, topic_key |-> k, found |-> S,
   expect |-> "true"]
TopicKeyFinds(t, k, S) ==
  [op |-> "handlers_for_topic_key", topic_name |-> t, topic_key |-> k, found |-> S,
   expect |-> "true"]
Matches(h, t, k, e) ==
  [op |-> "matches_event", handler |-> h, topic_name |-> t, topic_key |-> k, expect |-> e]
DurableMode(m, e) == [op |-> "is_durable_descriptor", mode |-> m, expect |-> e]
TruncateError(m, kept, length, e) ==
  [op |-> "truncate_error", message |-> m, left |-> [kept |-> kept, len |-> length],
   expect |-> e]

----------------------------------------------------------------------------
\* examples/wire_factory.rs
wire_factory ==
  << SetSystemTo(Internal), BuildSession(External, "user", "ok"),
     ReconstructActor(External, "user", "ok"),
     BuildSession(External, "system", "system_rejected"), SystemValence("ok") >>

\* examples/persist_actor_recover.rs
persist_actor_recover ==
  << SetSystemTo(Internal), BuildSession(External, "user", "ok"),
     ReconstructActor(External, "user", "ok") >>

\* src/system_valence.rs, the only unit test that touches the cells.
system_valence_requires_install_then_succeeds ==
  << SystemValence("not_installed"), SetSystemTo(Internal), SystemValence("ok") >>

\* src/process_factory.rs
external_rejects_invalid_and_system_actor_json ==
  << BuildSession(External, "opaque", "not_an_actor"),
     BuildSession(External, "system", "system_rejected") >>

internal_accepts_system_actor == << BuildSession(Internal, "system", "ok") >>

external_accepts_user_actor == << BuildSession(External, "user", "ok") >>

\* src/identity.rs
reconstruct_rejects_invalid_json ==
  << ReconstructActor(External, "malformed", "invalid_json") >>

reconstruct_rejects_invalid_actor_shape ==
  << ReconstructActor(External, "opaque", "invalid_shape") >>

reconstruct_rejects_system_on_external_factory ==
  << ReconstructActor(External, "system", "system_rejected") >>

reconstruct_maps_valence_build_failure ==
  << ReconstructActor(Failing, "system", "build_failed") >>

reconstruct_ok_with_system_actor_internal ==
  << ReconstructActor(Internal, "system", "ok") >>

\* src/handler_registry.rs
new_is_empty == << Empty, LenIs(0), TopicNamesAre({}) >>

register_and_handlers_for_event ==
  << RegisterHandler(unfiltered), LenIs(1), TopicNamesAre({topic}),
     EventFinds(topic, None, {unfiltered}) >>

handlers_for_event_empty_when_no_match ==
  << RegisterHandler(unfiltered), EventFinds(otherTopic, None, {}) >>

handlers_for_event_empty_when_key_filter_mismatches ==
  << RegisterHandler(keyed), EventFinds(topic, keyB, {}), EventFinds(topic, None, {}),
     EventFinds(topic, keyA, {keyed}) >>

handlers_for_topic_key_empty_when_subscription_key_mismatches ==
  << RegisterHandler(keyed), TopicKeyFinds(topic, keyB, {}), TopicKeyFinds(topic, None, {}),
     TopicKeyFinds(topic, keyA, {keyed}) >>

\* src/handler_descriptor.rs
matches_event_topic_mismatch == << Matches(unfiltered, otherTopic, None, "false") >>

matches_event_no_key_filter ==
  << Matches(unfiltered, topic, None, "true"), Matches(unfiltered, topic, keyA, "true") >>

matches_event_with_key_filter ==
  << Matches(keyed, topic, None, "false"), Matches(keyed, topic, keyA, "true"),
     Matches(keyed, topic, keyB, "false") >>

\* src/executor/dispatch.rs
is_durable_descriptor_matches_mode ==
  << DurableMode("Durable", "true"), DurableMode("Ephemeral", "false") >>

\* src/telemetry.rs: of 300 characters of two bytes 255 are left, and an
\* ellipsis of three.
truncate_error_preserves_utf8_boundaries ==
  << TruncateError({2 * i : i \in 1 .. 300}, 510, 513, "true") >>

\* The unit tests of these parts: all of the crate's but two of
\* executor/initial_seq.rs, about what Executor's lookups do, and one of
\* executor/mod.rs, about a handle without tasks.
UnitTests ==
  { system_valence_requires_install_then_succeeds,
    external_rejects_invalid_and_system_actor_json, internal_accepts_system_actor,
    external_accepts_user_actor, reconstruct_rejects_invalid_json,
    reconstruct_rejects_invalid_actor_shape,
    reconstruct_rejects_system_on_external_factory,
    reconstruct_maps_valence_build_failure, reconstruct_ok_with_system_actor_internal,
    new_is_empty, register_and_handlers_for_event,
    handlers_for_event_empty_when_no_match,
    handlers_for_event_empty_when_key_filter_mismatches,
    handlers_for_topic_key_empty_when_subscription_key_mismatches,
    matches_event_topic_mismatch, matches_event_no_key_filter,
    matches_event_with_key_filter, is_durable_descriptor_matches_mode,
    truncate_error_preserves_utf8_boundaries }

\* tests/integration_tests.rs: TestValenceFactory is a bare router.
build_photon_runtime_installs_system_valence ==
  << BuildRuntime(Bare, TRUE, TRUE, "ok"), SystemValence("ok") >>

----------------------------------------------------------------------------
(* What a program may expect if it reads its own calls one after the other. *)

SystemSetters  == {"set_system"}
ProcessSetters == {"set_process", "build_photon_runtime"}

\* `cell` is as p's calls before the i-th leave it: the first that sets it wins.
FirstSet(ops, p, i, cell) ==
  \/ cell = None /\ \A j \in 1 .. i - 1 : p[j].op \notin ops
  \/ \E j \in 1 .. i - 1 :
       /\ p[j].op \in ops /\ cell = p[j].factory
       /\ \A k \in 1 .. j - 1 : p[k].op \notin ops

\* How often p's calls before the i-th register each handler.
Registrations(p, i) ==
  [h \in Handlers |->
     Cardinality({k \in 1 .. i - 1 : p[k].op = "register" /\ p[k].handler = h})]

\* The registry with those handlers.
RegistryOf(counts) ==
  [ all |-> counts,
    by_topic_and_key |->
      [k \in RegistryKeys |-> [h \in Handlers |-> IF k = TopicKey(h) THEN counts[h] ELSE 0]] ]

SystemAnswer(system, process) ==
  IF system # None THEN Build(system, "system")
  ELSE IF process # None THEN Build(process, "system") ELSE "not_installed"

RuntimeAnswer(c) ==
  IF ~c.parts_ok THEN "parts_error"
  ELSE IF c.in_tokio \/ Handlers = {} THEN "ok" ELSE "panicked"

\* What the i-th call of p expects is what follows from p's calls before it.
ForeseenCall(p, i) ==
  LET c == p[i]
  IN  \/ c.expect = "any"
      \/ c.op \in {"set_process", "set_system", "register"} /\ c.expect = "ok"
      \/ c.op = "build_photon_runtime" /\ c.expect = RuntimeAnswer(c)
      \/ /\ c.op = "system_valence"
         /\ \A system, process \in OptFactories :
              FirstSet(SystemSetters, p, i, system) /\ FirstSet(ProcessSetters, p, i, process)
              => c.expect = SystemAnswer(system, process)
      \/ /\ c.op \in PureOps /\ c.expect = Answer(RegistryOf(Registrations(p, i)), c)
         /\ c.op \in RegistryOps =>
              \A j \in 1 .. i - 1 : p[j].op # "build_photon_runtime"

Foreseen(p) == \A i \in 1 .. Len(p) : ForeseenCall(p, i)

AsksSystem(p) == \E i \in 1 .. Len(p) : p[i].op = "system_valence" /\ p[i].expect # "any"
SetsCells(p)  == \E i \in 1 .. Len(p) : p[i].op \in SystemSetters \cup ProcessSetters

\* The programs of a process that nobody interferes with: whoever expects
\* something of system_valence is alone in setting the cells.
Isolated(ps) ==
  \A th \in Threads :
    /\ Foreseen(ps[th])
    /\ AsksSystem(ps[th]) => \A u \in Threads \ {th} : ~SetsCells(ps[u])

\* A test binary, with a thread for each of any of its tests, each run once.
TestRun(ps) ==
  \A th \in Threads :
    /\ ps[th] \in UnitTests \cup {<< >>}
    /\ \A u \in Threads \ {th} : ps[u] = ps[th] => ps[th] = << >>

\* An example, or the integration test, in a process of its own.
HostRun(ps) ==
  \E th \in Threads :
    /\ ps[th] \in {wire_factory, persist_actor_recover,
                   build_photon_runtime_installs_system_valence}
    /\ \A u \in Threads \ {th} : ps[u] = << >>

=============================================================================
