----------------------------- MODULE MCDispatch -----------------------------
(***************************************************************************)
(* Dispatch on its own, called with every argument of a small set: one     *)
(* factory that rejects what it should and a bare router.                  *)
(***************************************************************************)
EXTENDS DispatchIdentity, TLC

MCFactories == {NewFactory("up"), RouterFactory("up")}
MCActorJson == JsonTexts
MCValenceActors == ActorTexts
MCAccepts == [f \in MCFactories |-> {json \in JsonTexts : Builds(f, json)}]

TaskSymmetry == Permutations(Tasks)

=============================================================================
