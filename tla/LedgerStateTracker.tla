------------------------- MODULE LedgerStateTracker -------------------------
(***************************************************************************)
(* The client's last known server state (diem/jsonrpc/client.py,           *)
(* Client._last_known_server_state) and the compare-and-replace that       *)
(* Client.update_last_known_state performs on it under Client._lock.       *)
(* The module holds no variables: the composed specification JsonRpcClient *)
(* keeps the state and applies these operators inside one atomic step,     *)
(* which is what the lock guarantees.                                      *)
(***************************************************************************)
EXTENDS Integers

\* State(chain_id=-1, version=-1, timestamp_usecs=-1): the value a fresh
\* Client starts with, before any response was seen.
Unknown == [chain_id |-> -1, version |-> -1, timestamp_usecs |-> -1]

\* The values update_last_known_state can hold.
LedgerStates(Chains, Versions, Stamps) ==
    {Unknown} \cup [chain_id : Chains, version : Versions, timestamp_usecs : Stamps]

\* Mutant: the version check left out.
UpdateResultNoVersionCheck(curr, chain, ver, ts) ==
    CASE curr.chain_id # -1 /\ curr.chain_id # chain -> "invalid"
      [] curr.timestamp_usecs > ts                   -> "stale"
      [] OTHER                                       -> "ok"

\* Mutant: the chain id check left out.
UpdateResultNoChainCheck(curr, chain, ver, ts) ==
    CASE curr.version > ver                          -> "stale"
      [] curr.timestamp_usecs > ts                   -> "stale"
      [] OTHER                                       -> "ok"

\* What update_last_known_state(chain_id, version, timestamp_usecs) does
\* with the current state curr: "invalid" when it raises
\* InvalidServerResponse (the chain id changed), "stale" when it raises
\* StaleResponseError (version or timestamp went back), "ok" when it stores
\* the new triple. The checks are made in the order of the code.
UpdateResult(curr, chain, ver, ts) ==
    CASE curr.chain_id # -1 /\ curr.chain_id # chain -> "invalid"
      [] curr.version > ver                          -> "stale"
      [] curr.timestamp_usecs > ts                   -> "stale"
      [] OTHER                                       -> "ok"

\* The stored state after the call: replaced only when no check raised.
Updated(curr, chain, ver, ts) ==
    IF UpdateResult(curr, chain, ver, ts) = "ok"
    THEN [chain_id |-> chain, version |-> ver, timestamp_usecs |-> ts]
    ELSE curr
=============================================================================
