------------------------------ MODULE MCTrust -------------------------------
(* Small instances of Trust. *)
EXTENDS Trust, TLC

MCOf == [t \in Tunnels |-> CHOOSE q \in Clients : TRUE]
TrustSymmetry ==
  Permutations(Servers) \cup Permutations(Keys) \cup Permutations(Tunnels)

SomeFaults == {{"overlap", "crash"}, {"crash", "saveError", "crashClient"},
               {"saveClient"}}
NoFaults == {{}}
KeyLosses == {{"readError"}, {"overlap"}}
PinLosses == {{"crashClient", "overlap"}, {"saveClient", "overlap"}}
=============================================================================
