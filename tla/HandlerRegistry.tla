-------------------------- MODULE HandlerRegistry --------------------------
(***************************************************************************)
(* The registry of subscription handlers.  A registry files a handler      *)
(* twice, in `all` and under its topic and key filter; the two tables are  *)
(* counts, since the same descriptor may be registered again and nothing   *)
(* reads the order of a Vec.  The executor only reads the registry         *)
(* auto_discover leaves for the handlers linked into the binary; that one  *)
(* is given by the constant operators at the end (Host.tla builds it).     *)
(***************************************************************************)
EXTENDS HandlerDescriptor, Naturals, FiniteSets

CONSTANTS
  Handlers,    \* the registered handlers
  Descriptor   \* the descriptor of each

ASSUME DescriptorAssumption == Descriptor \in [Handlers -> HandlerDescriptors]

\* The keys of `by_topic_and_key`, and the one a handler is filed under.
RegistryKeys == Topics \X OptKeys
TopicKey(h) == <<Descriptor[h].topic_name, Descriptor[h].topic_key_filter>>

Counts == [Handlers -> Nat]
Registries == [all : Counts, by_topic_and_key : [RegistryKeys -> Counts]]

\* HandlerRegistry::new
EmptyRegistry ==
  [ all |-> [h \in Handlers |-> 0],
    by_topic_and_key |-> [k \in RegistryKeys |-> [h \in Handlers |-> 0]] ]

\* Mutant: entry(key).or_insert(vec![descriptor]) keeps the first of a group.
RegisterFirstOnly(reg, h) ==
  [ reg EXCEPT !.all[h] = @ + 1,
               !.by_topic_and_key[TopicKey(h)] =
                 IF \A g \in Handlers : @[g] = 0 THEN [@ EXCEPT ![h] = 1] ELSE @ ]

\* Mutant: filed under the topic alone.
RegisterUnkeyed(reg, h) ==
  [ reg EXCEPT !.all[h] = @ + 1,
               !.by_topic_and_key[<<Descriptor[h].topic_name, None>>][h] = @ + 1 ]

\* register: entry(key).or_default().push, all.push.
Register(reg, h) ==
  [ all |-> [reg.all EXCEPT ![h] = @ + 1],
    by_topic_and_key |-> [reg.by_topic_and_key EXCEPT ![TopicKey(h)][h] = @ + 1] ]

\* What can be asked of a registry; the lookups of handlers return counts.
is_empty(reg) == \A h \in Handlers : reg.all[h] = 0
len(reg) == Cardinality(UNION {{h} \X (1 .. reg.all[h]) : h \in Handlers})
topic_names(reg) ==
  {Descriptor[h].topic_name : h \in {g \in Handlers : reg.all[g] > 0}}
topic_subscription_keys(reg) ==
  {k \in RegistryKeys : \E h \in Handlers : reg.by_topic_and_key[k][h] > 0}
handlers_for_topic_key(reg, k) == reg.by_topic_and_key[k]
handlers_for_event(reg, topic_name, topic_key) ==
  [h \in Handlers |->
     IF MatchesEvent(Descriptor[h], topic_name, topic_key) THEN reg.all[h] ELSE 0]

----------------------------------------------------------------------------
(* What auto_discover finds.                                               *)

\* topic_subscription_keys: one subscription stream is opened for each.
TopicSubscriptionKeys == {TopicKey(h) : h \in Handlers}

\* Mutant: a group keeps one handler, as if insert had replaced entry + push.
OneHandlerForTopicKey(g) ==
  {CHOOSE h \in Handlers : TopicKey(h) = g}

\* handlers_for_topic_key: the handlers one stream serves.
HandlersForTopicKey(g) == {h \in Handlers : TopicKey(h) = g}

\* handlers_for_event: what `all` says should see an event.
HandlersForEvent(topic_name, topic_key) ==
  {h \in Handlers : MatchesEvent(Descriptor[h], topic_name, topic_key)}

=============================================================================
