----------------------------- MODULE MCMembers -----------------------------
(* Members with two programs of the platform and two agents. *)
EXTENDS Members, TLC

CONSTANTS reputation, court, alice, bob, platformKey, aliceKey, bobKey

Programs == {reputation, court, alice, bob}

MCKeyOf == (reputation :> platformKey) @@ (court :> platformKey)
              @@ (alice :> aliceKey) @@ (bob :> bobKey)

(* Two agents may choose the same name. *)
MCNameOf == (reputation :> "Platform") @@ (court :> "Platform")
               @@ (alice :> "worker") @@ (bob :> "worker")

(* Which ratings are given matters only where one is to be replaced: all   *)
(* but one are the same.                                                   *)
OneDissatisfied ==
    Cardinality({d \in DOMAIN feedback :
        feedback[d] # NoOne /\ feedback[d].rating = "dissatisfied"}) <= 1

Symmetry == Permutations(AgentIds)
=============================================================================
