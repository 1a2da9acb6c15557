-------------------------- MODULE ConsistentReads --------------------------
(***************************************************************************)
(* What the Client promises a thread about the ledger state it sees, with  *)
(* no servers, futures or retries: a register holding the last known       *)
(* (chain id, version, timestamp) that only moves forward on one chain,    *)
(* and the version of the last result a get call handed to the thread,    *)
(* which never goes back and never runs ahead of the register.             *)
(*                                                                         *)
(* JsonRpcClient implements this specification under the mapping          *)
(* state <- known, read <- lastRead.                                       *)
(***************************************************************************)
EXTENDS Integers

CONSTANTS
    Chains,    \* chain ids the servers report
    Versions,  \* ledger versions
    Stamps     \* ledger timestamps in microseconds

VARIABLES
    state,     \* the last known server state
    read       \* version of the last get result returned to the thread

vars == <<state, read>>

\* The register before any response: every field is -1.
Unset == [chain_id |-> -1, version |-> -1, timestamp_usecs |-> -1]

\* The states the register may move to from s: on the chain of s once s
\* has one, with neither the version nor the timestamp lower.
Later(s) ==
    {t \in [chain_id : Chains, version : Versions, timestamp_usecs : Stamps] :
        /\ s.chain_id = -1 \/ t.chain_id = s.chain_id
        /\ s.version <= t.version
        /\ s.timestamp_usecs <= t.timestamp_usecs}

Init ==
    /\ state = Unset
    /\ read = -1

\* A response is accepted: the register moves forward.
Advance ==
    /\ state' \in Later(state)
    /\ UNCHANGED read

\* A get call returns a result from a version between the last one
\* returned and the register.
Read ==
    /\ read' \in read .. state.version
    /\ UNCHANGED state

Next == Advance \/ Read

Spec == Init /\ [][Next]_vars
=============================================================================
