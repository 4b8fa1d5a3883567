------------------------- MODULE LegitimateDelivery -------------------------
(***************************************************************************)
(* What offline delivery promises of one device that follows its protocol: *)
(* everything it seals takes effect on the server in the order it was      *)
(* sealed, once, and is answered only after it has taken effect.           *)
(***************************************************************************)
EXTENDS Naturals, Sequences, FiniteSets

CONSTANT Sealable

VARIABLES
  sealed,    \* the operations sealed so far, in order
  effects,   \* those that took effect
  answered   \* those the device knows to have taken effect

promise == <<sealed, effects, answered>>

Init == sealed = <<>> /\ effects = {} /\ answered = {}

Seal ==
  /\ sealed' \in Seq(Sealable)
  /\ Len(sealed') = Len(sealed) + 1
  /\ \A n \in 1..Len(sealed) : sealed'[n] = sealed[n]
  /\ UNCHANGED <<effects, answered>>

TakeEffect ==
  /\ Cardinality(effects) < Len(sealed)
  /\ effects' = effects \cup {sealed[Cardinality(effects) + 1]}
  /\ UNCHANGED <<sealed, answered>>

Answer(o) ==
  /\ o \in effects
  /\ answered' = answered \cup {o}
  /\ UNCHANGED <<sealed, effects>>

Next == Seal \/ TakeEffect \/ (\E o \in effects : Answer(o))

Spec == Init /\ [][Next]_promise
=============================================================================
