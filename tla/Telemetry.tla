----------------------------- MODULE Telemetry -----------------------------
(***************************************************************************)
(* truncate_error of the ops log.  A message is the set of byte positions  *)
(* at which its UTF-8 characters end; a character has one to four bytes.   *)
(***************************************************************************)
EXTENDS Integers, FiniteSets

MAX_ERROR_LEN == 512
EllipsisLen   == 3    \* bytes of the character that marks the cut

IsMessage(ends) ==
  /\ IsFiniteSet(ends) /\ ends \subseteq Nat \ {0}
  /\ \A e \in ends : \E d \in ends \cup {0} : d < e /\ e <= d + 4

Largest(S) == CHOOSE n \in S : \A m \in S : m <= n

\* message.len()
ByteLen(ends) == Largest(ends \cup {0})

\* Mutant: cut at the byte limit, wherever that falls.
PrefixEndAtLimit(ends) == MAX_ERROR_LEN - 1

\* The last character that ends within MAX_ERROR_LEN - 1 bytes.
PrefixEnd(ends) == Largest({e \in ends : e <= MAX_ERROR_LEN - 1} \cup {0})

\* What is left of a message: the bytes kept and the length of the result.
truncate_error(ends) ==
  IF ByteLen(ends) <= MAX_ERROR_LEN
  THEN [kept |-> ByteLen(ends), len |-> ByteLen(ends)]
  ELSE [kept |-> PrefixEnd(ends), len |-> PrefixEnd(ends) + EllipsisLen]

\* A short message is logged as it is; a long one is cut between two
\* characters, as far on as the limit allows, and with the ellipsis runs past
\* the limit by at most two bytes.
SoundCut(ends, r) ==
  /\ r.kept \in ends \cup {0}
  /\ ByteLen(ends) <= MAX_ERROR_LEN => r.kept = ByteLen(ends) /\ r.len = r.kept
  /\ ByteLen(ends) > MAX_ERROR_LEN =>
       /\ r.kept \in MAX_ERROR_LEN - 4 .. MAX_ERROR_LEN - 1
       /\ \A e \in ends : e > r.kept => e >= MAX_ERROR_LEN
       /\ r.len <= MAX_ERROR_LEN + 2

=============================================================================
