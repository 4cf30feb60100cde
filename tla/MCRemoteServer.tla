--------------------------- MODULE MCRemoteServer ---------------------------
(* Small instances of RemoteServer: all tunnels name the same bind:port,   *)
(* one connection registers all of them and the others one each.  With one *)
(* tunnel the connections are interchangeable and symmetry is sound.       *)
EXTENDS RemoteServer, TLC

MCFirst == CHOOSE c \in Conns : TRUE
MCRegisters == [c \in Conns |-> IF c = MCFirst THEN Tunnels
                                ELSE {CHOOSE t \in Tunnels : TRUE}]
MCKeyOf == [t \in Tunnels |-> CHOOSE k \in Keys : TRUE]
ConnSymmetry == Permutations(Conns)
=============================================================================
