--------------------------- MODULE ResponseFields ---------------------------
(***************************************************************************)
(* _send_http_request feeds the three ledger fields of every response to   *)
(* update_last_known_state with json.get (diem/jsonrpc/client.py:606-611), *)
(* so a field the server left out arrives as None. This module follows    *)
(* the last known state through a sequence of responses of one server,     *)
(* some of which lack fields, with Python's semantics for None: None != x  *)
(* is true for every int x, and an order comparison of an int with None   *)
(* raises TypeError, which no except clause of the client catches.         *)
(***************************************************************************)
EXTENDS Integers

CONSTANTS
    Chain,       \* diem_chain_id of the server
    MaxVersion   \* last ledger version of the model

\* None. No field of a response or of the state is ever -2, so -2 stands for
\* None and compares with the ints the way the code's tests see it.
None == -2

Versions == 0 .. MaxVersion

\* diem_ledger_timestampusec of version v: one block per second.
Stamp(v) == v * 1000000

\* The responses the server can send: each field present or left out.
Responses ==
    {[chain_id |-> c, version |-> v, timestamp_usecs |-> t] :
        c \in {Chain, None}, v \in Versions \cup {None},
        t \in {Stamp(w) : w \in Versions} \cup {None}}

Complete(r) == None \notin {r.chain_id, r.version, r.timestamp_usecs}

\* State(chain_id=-1, version=-1, timestamp_usecs=-1)
Unknown == [chain_id |-> -1, version |-> -1, timestamp_usecs |-> -1]

VARIABLES
    known,     \* Client._last_known_server_state
    resp,      \* the last response
    outcome    \* what update_last_known_state did with it

vars == <<known, resp, outcome>>

\* update_last_known_state(chain_id, version, timestamp_usecs) with the
\* fields json.get returned: the chain test, then the two order tests, each
\* of which raises TypeError when either side is None.
Update(curr, r) ==
    CASE curr.chain_id # -1 /\ curr.chain_id # r.chain_id -> "InvalidServerResponse"
      [] None \in {curr.version, r.version}                -> "TypeError"
      [] curr.version > r.version                          -> "StaleResponseError"
      [] None \in {curr.timestamp_usecs, r.timestamp_usecs} -> "TypeError"
      [] curr.timestamp_usecs > r.timestamp_usecs          -> "StaleResponseError"
      [] OTHER                                             -> "ok"

Init ==
    /\ known = Unknown
    /\ resp = Unknown
    /\ outcome = "none"

\* A get or submit call of the thread receives response r: the state
\* becomes the response's fields when update_last_known_state raised
\* nothing, and stays as it was otherwise.
Receive(r) ==
    /\ resp' = r
    /\ outcome' = Update(known, r)
    /\ known' = IF outcome' = "ok" THEN r ELSE known

Next == \E r \in Responses : Receive(r)

Spec == Init /\ [][Next]_vars
-----------------------------------------------------------------------------
\* A complete response from the one chain the server is on is never
\* rejected as a response from another chain, whatever the server sent
\* before it (update_last_known_state's chain test, client.py:264).
NoFalseChainMismatch ==
    Complete(resp) => outcome # "InvalidServerResponse"
=============================================================================
