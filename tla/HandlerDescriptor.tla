------------------------- MODULE HandlerDescriptor -------------------------
(***************************************************************************)
(* What a `#[photon::subscribe]` handler registers: the topic it listens   *)
(* to, the subscription name its checkpoints are kept under, the key it    *)
(* filters on and whether it is durable.  The function pointer `dispatch`  *)
(* is the user's code: Dispatch.tla lets it succeed, fail or panic.        *)
(***************************************************************************)

CONSTANTS
  Topics,     \* topic names
  Keys,       \* partition keys an event can carry
  SubNames,   \* subscription names
  None        \* Option::None, for keys and subscription names

ASSUME NoneAssumption == None \notin Keys \cup SubNames

OptKeys     == Keys \cup {None}
OptSubNames == SubNames \cup {None}

SubscriptionModes == {"Durable", "Ephemeral"}

\* The struct leaves the name optional for durable handlers too.
HandlerDescriptors ==
  [ topic_name        : Topics,
    subscription_name : OptSubNames,
    topic_key_filter  : OptKeys,
    mode              : SubscriptionModes ]

\* HandlerDescriptor::matches_event: no filter takes every key, a filter takes
\* its own key only and never an event without a key.
MatchesEvent(d, topic_name, topic_key) ==
  /\ d.topic_name = topic_name
  /\ d.topic_key_filter \in {None, topic_key}

\* is_durable_descriptor
IsDurable(d) == d.mode = "Durable"

=============================================================================
