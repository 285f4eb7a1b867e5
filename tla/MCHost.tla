------------------------------- MODULE MCHost -------------------------------
(***************************************************************************)
(* Host on two threads, started with: two unit tests; an example or        *)
(* the integration test; any two short programs that pin, build and ask    *)
(* for System sessions; registrations by hand; messages around the limit   *)
(* of truncate_error.                                                      *)
(***************************************************************************)
EXTENDS HostPrograms, TLC

CONSTANTS t1, t2

MCDescriptor ==
  [h \in Handlers |->
     [ topic_name |-> topic, subscription_name |-> None, mode |-> "Ephemeral",
       topic_key_filter |-> IF h = keyed THEN keyA ELSE None ]]

Solo(p) == (t1 :> p) @@ (t2 :> << >>)
Pairs(S) == [Threads -> S]

\* A test binary runs each of its tests once, in one process.
TestPairs == {p \in Pairs(UnitTests) : p[t1] # p[t2]}
Examples ==
  {Solo(p) : p \in {wire_factory, persist_actor_recover,
                    build_photon_runtime_installs_system_valence}}

\* The processes RepositoryProgramsMet is about.
ASSUME MCRepositoryRuns ==
  (\A ps \in TestPairs : TestRun(ps)) /\ (\A ps \in Examples : HostRun(ps))

\* Three wirings: building the parts can fail, starting can panic (no tokio).
RuntimeBuilds ==
  {BuildRuntime(f, TRUE, TRUE, "any") : f \in {External, Internal}}
  \cup {BuildRuntime(External, FALSE, TRUE, "any"), BuildRuntime(External, TRUE, FALSE, "any")}

\* Free use of the cells by hosts that expect nothing.
CellCalls ==
  RuntimeBuilds \cup {SetProcessTo(Internal), SetSystemTo(Internal), SystemValence("any")}
ShortPrograms == {<< >>} \cup {<<c>> : c \in CellCalls} \cup {<<c, d>> : c, d \in CellCalls}

\* Every handler, one twice, in two orders.
HandRegistrations ==
  { << RegisterHandler(unfiltered), RegisterHandler(keyed), RegisterHandler(unfiltered) >>,
    << RegisterHandler(keyed), RegisterHandler(keyed), RegisterHandler(unfiltered) >> }

\* ASCII up to byte a, then k characters of w bytes.
Messages ==
  {(1 .. a) \cup {a + w * i : i \in 1 .. k} : a \in 507 .. 512, w \in 1 .. 4, k \in {1, 2, 6}}

MCProcesses ==
  TestPairs \cup Examples \cup Pairs(ShortPrograms)
  \cup {Solo(p) : p \in HandRegistrations}
  \cup {Solo(<<TruncateError(m, 0, 0, "any")>>) : m \in Messages}

\* A host that tries twice, perhaps with another factory.
MCRetries == {Solo(<<c, d>>) : c, d \in RuntimeBuilds}

MCHostCalls ==
  UNION {UNION {{ps[th][i] : i \in 1 .. Len(ps[th])} : th \in Threads} : ps \in Processes}

=============================================================================
