----------------------------- MODULE MCChannel -----------------------------
(* Small instances of Channel. *)
EXTENDS Channel, TLC

CONSTANTS ServerWindow, ClientWindow, ServerBytes, ClientBytes

MCWindow == [s \in Sides |-> IF s = "server" THEN ServerWindow ELSE ClientWindow]
MCBytes == [s \in Sides |-> IF s = "server" THEN ServerBytes ELSE ClientBytes]
ChanSymmetry == Permutations(Chans)
=============================================================================
