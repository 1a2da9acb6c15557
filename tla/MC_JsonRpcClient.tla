-------------------------- MODULE MC_JsonRpcClient --------------------------
(***************************************************************************)
(* Small instances of JsonRpcClient for TLC.                               *)
(***************************************************************************)
EXTENDS JsonRpcClient

CONSTANTS p, b1, b2

\* Versions 0 and 1 are in the same block (half a second), so a version
\* can go back while the timestamp does not; version 2 is at one second
\* and each later one a second more. With expiration at 1 second, the
\* transaction can be executed at version 1 and no later.
MC_Ts == [v \in 0 .. MaxVersion |-> IF v < 2 THEN 500000 ELSE (v - 1) * 1000000]

\* All servers are on chain 2.
MC_ChainOf == [s \in Servers |-> 2]

\* The primary is on chain 2 and every backup on chain 3: a backup URL
\* configured for another network.
MC_ChainOfSplit == [s \in Servers |-> IF s = Primary THEN 2 ELSE 3]
=============================================================================
