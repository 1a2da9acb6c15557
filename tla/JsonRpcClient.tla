---------------------------- MODULE JsonRpcClient ----------------------------
(***************************************************************************)
(* The request-execution and consistency layer of diem/jsonrpc/client.py:  *)
(* a Client with its RequestStrategy (direct) or RequestWithBackups (first *)
(* success or fallback), the HTTP calls that run on the executor and       *)
(* update the last known state, Retry around get calls, submit, and the    *)
(* wait_for_transaction2 polling loop.                                     *)
(*                                                                         *)
(* The modelled thread submits one signed transaction and, when submit     *)
(* returns, waits for it; every call it makes is modelled step by step.    *)
(* The other threads sharing the Client are modelled by what they can do   *)
(* to this one: update the shared last known state with the state some     *)
(* server reported to them, at any time. The environment is the ledger:    *)
(* its head version grows, servers sync to it with a lag, and the slot     *)
(* (sender, sequence number) of the transaction is filled at most once, by *)
(* this transaction or by a rival one.                                     *)
(***************************************************************************)
EXTENDS Integers, FiniteSets, Bags, LedgerStateTracker

CONSTANTS
    Primary,         \* Client._url
    Backups,         \* RequestWithBackups._backups
    Mode,            \* "direct" (RequestStrategy), "first_success", "fallback"
    ChainOf,         \* diem_chain_id each server reports
    MaxVersion,      \* last ledger version of the model
    Ts,              \* diem_ledger_timestampusec of each ledger version
    ExpirationSecs,  \* txn.raw_txn.expiration_timestamp_secs
    Rival,           \* another process may use the same sender and sequence
    Shared,          \* other threads share the Client
    MaxRetries,      \* Retry.max_retries
    MaxPolls         \* loop iterations after which time.time() >= max_wait

Servers == {Primary} \cup Backups
Versions == 0 .. MaxVersion

\* Microseconds per second: the scaling in expiration_time_secs * 1_000_000.
Usec == 1000000

ASSUME ConstantsAssumption ==
    /\ Primary \notin Backups
    /\ Mode \in {"direct", "first_success", "fallback"}
    /\ Mode # "direct" => Backups # {}
    /\ MaxVersion \in Nat
    /\ Ts \in [Versions -> Nat]
    /\ \A v \in Versions, w \in Versions : v <= w => Ts[v] <= Ts[w]
    /\ ChainOf \in [Servers -> Nat]
    /\ ExpirationSecs \in Nat
    /\ Rival \in BOOLEAN
    /\ Shared \in BOOLEAN
    /\ MaxRetries \in Nat
    /\ MaxPolls \in Nat \ {0}

\* The futures of one send_request: only the primary for RequestStrategy,
\* the primary and a random backup for RequestWithBackups.
Slots == IF Mode = "direct" THEN {"primary"} ELSE {"primary", "backup"}

Methods == {"submit", "lookup"}

\* What a server puts in a response body: the submit result (accepted or
\* a SEQUENCE_NUMBER_TOO_OLD error) or what get_account_transaction finds
\* (nothing, this transaction executed or failed, a rival one).
Bodies == {"none", "accepted", "seq_too_old",
           "ours_executed", "ours_failed", "other"}
RpcErrorBodies == {"seq_too_old"}

\* What a future of _send_http_request ends with: "ok" (returns the json),
\* "stale" (StaleResponseError), "invalid" (InvalidServerResponse),
\* "neterr" (a requests.RequestException).
CallResults == {"none", "ok", "stale", "invalid", "neterr"}

\* What execute / execute_without_retry returns to its caller: "result",
\* or the exception it raises.
Returns == {"none", "result", "JsonRpcError", "StaleResponseError",
            "InvalidServerResponse", "NetworkError"}

\* A future: its server, method, ignore_stale_response, progress, the
\* version and body of the response, its result.
Calls == [srv : Servers, method : Methods, ign : BOOLEAN,
          st : {"none", "pending", "responded", "done"},
          ver : -1 .. MaxVersion, body : Bodies, res : CallResults]

VARIABLES
    head,      \* latest ledger version
    synced,    \* synced[s]: the version server s has synced to
    slot,      \* the transaction at (sender, sequence number)
    accepted,  \* some server accepted this transaction
    known,     \* Client._last_known_server_state
    pc,        \* where the thread is
    op,        \* the method of its current call
    tries,     \* Retry.execute's counter of the current get call
    calls,     \* calls[x]: the future of slot x of the current attempt
    first,     \* the slot whose future completed first
    snap,      \* get_last_known_state() at the top of the wait loop
    polls,     \* iterations of the wait loop
    lastRead,  \* version of the last response a get call returned
    outcome,   \* how submit or the wait ended
    orphans    \* bag of the futures left running after send_request returned

env == <<head, synced, slot, accepted>>
thr == <<pc, op, tries, calls, first, snap, polls, lastRead, outcome>>
vars == <<env, known, thr, orphans>>

NoCall == [srv |-> Primary, method |-> "submit", ign |-> FALSE, st |-> "none",
           ver |-> -1, body |-> "none", res |-> "none"]
NoSlot == "none"

NoOutcome == [phase |-> "none", r |-> "none"]
Outcomes ==
    [phase : {"none", "submit", "wait"},
     r : Returns \cup {"found", "TransactionHashMismatchError",
                       "TransactionExecutionFailed", "TransactionExpired",
                       "WaitForTransactionTimeout"}]

SlotValues == [who : {"none", "ours", "other"}, at : Versions,
               status : {"executed", "failed"}]
EmptySlot == [who |-> "none", at |-> 0, status |-> "executed"]

KnownStates == LedgerStates({ChainOf[s] : s \in Servers}, Versions, {Ts[v] : v \in Versions})

TypeOK ==
    /\ head \in Versions
    /\ synced \in [Servers -> Versions]
    /\ slot \in SlotValues
    /\ accepted \in BOOLEAN
    /\ known \in KnownStates
    /\ pc \in {"send", "await", "top", "done"}
    /\ op \in Methods
    /\ tries \in 0 .. MaxRetries
    /\ calls \in [Slots -> Calls]
    /\ first \in Slots \cup {NoSlot}
    /\ snap \in KnownStates
    /\ polls \in 0 .. MaxPolls
    /\ lastRead \in -1 .. MaxVersion
    /\ outcome \in Outcomes
    /\ IsABag(orphans) /\ BagToSet(orphans) \subseteq Calls

Init ==
    /\ head = 0
    /\ synced = [s \in Servers |-> 0]
    /\ slot = EmptySlot
    /\ accepted = FALSE
    /\ known = Unknown
    \* The thread has just called submit(txn) on a fresh Client.
    /\ pc = "send"
    /\ op = "submit"
    /\ tries = 0
    /\ calls = [x \in Slots |-> NoCall]
    /\ first = NoSlot
    /\ snap = Unknown
    /\ polls = 0
    /\ lastRead = -1
    /\ outcome = NoOutcome
    /\ orphans = EmptyBag
-----------------------------------------------------------------------------
(***************************************************************************)
(* The JSON-RPC servers, the ledger and the other threads (not modelled    *)
(* step by step).                                                          *)
(***************************************************************************)

\* The sequence number of the transaction is used in the ledger at
\* version v.
SeqUsedAt(v) == slot.who # "none" /\ slot.at <= v

\* What get_account_transaction finds in a used slot.
LookupBody == CASE slot.who = "other"       -> "other"
                [] slot.status = "executed" -> "ours_executed"
                [] OTHER                    -> "ours_failed"

\* The body a server at version v answers to method m with.
ServerBody(v, m) ==
    IF m = "submit" THEN IF SeqUsedAt(v) THEN "seq_too_old" ELSE "accepted"
                    ELSE IF SeqUsedAt(v) THEN LookupBody ELSE "none"

\* The ledger commits its next version; the slot may be filled by it, with
\* this transaction only if some server accepted it and the new block's
\* timestamp is before its expiration.
Commit ==
    /\ head < MaxVersion
    /\ head' = head + 1
    /\ \/ UNCHANGED slot
       \/ /\ slot.who = "none"
          /\ accepted
          /\ Ts[head + 1] < ExpirationSecs * Usec
          /\ \E st \in {"executed", "failed"} :
                slot' = [who |-> "ours", at |-> head + 1, status |-> st]
       \/ /\ slot.who = "none"
          /\ Rival
          /\ slot' = [who |-> "other", at |-> head + 1, status |-> "executed"]
    /\ UNCHANGED <<synced, accepted, known, thr, orphans>>

\* The most advanced replica behind URL s syncs one more version; URLs lag
\* the head and each other, and a request to s may be served by any of its
\* replicas, at any version up to synced[s].
Sync(s) ==
    /\ synced[s] < head
    /\ synced' = [synced EXCEPT ![s] = @ + 1]
    /\ UNCHANGED <<head, slot, accepted, known, thr, orphans>>

\* Another thread's call to server s, answered when s was at version v,
\* runs update_last_known_state (client.py:607) on the shared state.
OtherThreadUpdate(s, v) ==
    /\ Shared
    /\ v <= synced[s]
    /\ known' = Updated(known, ChainOf[s], v, Ts[v])
    /\ UNCHANGED <<env, thr, orphans>>
-----------------------------------------------------------------------------
(***************************************************************************)
(* One HTTP call: Client._send_http_request running on the executor.       *)
(***************************************************************************)

\* session.post, raise_for_status and response.json for the future c: the
\* request is lost (connect error, timeout, non-2xx: a RequestException),
\* or a replica behind the URL, at some version v, answers with v and its
\* body. A submit the server handled may still lose its response, after
\* its effect.
PostResults(c) ==
    LET lost == [c EXCEPT !.st = "done", !.res = "neterr"]
        Acc(v) == accepted \/ (c.method = "submit" /\ ServerBody(v, c.method) = "accepted")
    IN  {[call |-> lost, acc |-> accepted]}
        \cup {[call |-> [c EXCEPT !.st = "responded", !.ver = v,
                                  !.body = ServerBody(v, c.method)],
               acc |-> Acc(v)] : v \in 0 .. synced[c.srv]}
        \cup (IF c.method = "submit"
              THEN {[call |-> lost, acc |-> Acc(v)] : v \in 0 .. synced[c.srv]}
              ELSE {})

\* Mutant: every call swallows StaleResponseError.
AppliedIgnoringStale(c) ==
    LET u == UpdateResult(known, ChainOf[c.srv], c.ver, Ts[c.ver])
    IN  [c EXCEPT !.st = "done", !.res = IF u = "stale" THEN "ok" ELSE u]

\* update_last_known_state with the response's chain id, version and
\* timestamp; a StaleResponseError is swallowed when the call ignores it.
Applied(c) ==
    LET u == UpdateResult(known, ChainOf[c.srv], c.ver, Ts[c.ver])
    IN  [c EXCEPT !.st = "done", !.res = IF u = "stale" /\ c.ign THEN "ok" ELSE u]

ApplyKnown(c) == Updated(known, ChainOf[c.srv], c.ver, Ts[c.ver])

\* as_completed order: the slot of the first future to finish.
FirstDone(x, c) == IF c.st = "done" /\ first = NoSlot THEN x ELSE first

Respond(x) ==
    /\ calls[x].st = "pending"
    /\ \E p \in PostResults(calls[x]) :
          /\ calls' = [calls EXCEPT ![x] = p.call]
          /\ accepted' = p.acc
          /\ first' = FirstDone(x, p.call)
    /\ UNCHANGED <<head, synced, slot, known, orphans>>
    /\ UNCHANGED <<pc, op, tries, snap, polls, lastRead, outcome>>

ApplyState(x) ==
    /\ calls[x].st = "responded"
    /\ calls' = [calls EXCEPT ![x] = Applied(calls[x])]
    /\ known' = ApplyKnown(calls[x])
    /\ first' = FirstDone(x, Applied(calls[x]))
    /\ UNCHANGED <<env, orphans>>
    /\ UNCHANGED <<pc, op, tries, snap, polls, lastRead, outcome>>

\* A future nobody waits for any more still runs to its end.
OrphanRespond(o) ==
    /\ o.st = "pending"
    /\ \E p \in PostResults(o) :
          /\ orphans' = (orphans (-) SetToBag({o}))
                          (+) SetToBag(IF p.call.st = "done" THEN {} ELSE {p.call})
          /\ accepted' = p.acc
    /\ UNCHANGED <<head, synced, slot, known, thr>>

OrphanApply(o) ==
    /\ o.st = "responded"
    /\ orphans' = orphans (-) SetToBag({o})
    /\ known' = ApplyKnown(o)
    /\ UNCHANGED <<env, thr>>
-----------------------------------------------------------------------------
(***************************************************************************)
(* Client.execute / execute_without_retry, Retry.execute and the request  *)
(* strategies.                                                             *)
(***************************************************************************)

\* Mutant: submit goes through execute, with Retry and without ignoring
\* staleness.
ExecConfigSubmitRetried(m) == [retry |-> TRUE, ign |-> FALSE]

\* submit calls execute_without_retry with ignore_stale_response=True; the
\* get methods call execute, which wraps it in Retry and passes None.
ExecConfig(m) ==
    IF m = "submit" THEN [retry |-> FALSE, ign |-> TRUE]
                    ELSE [retry |-> TRUE, ign |-> FALSE]

\* The servers a backup future may go to: random.choice(self._backups).
BackupChoices == IF Mode = "direct" THEN {Primary} ELSE Backups

\* Mutant: the loop condition admits one call too many.
MayCallOffByOne(t) == ~ExecConfig(op).retry \/ t <= MaxRetries

\* while tries < self.max_retries: the condition of Retry's loop; submit
\* calls execute_without_retry directly, with no loop.
MayCall(t) == ~ExecConfig(op).retry \/ t < MaxRetries

\* One iteration of the Retry loop (tries += 1; fn()) reaching send_request,
\* which submits one future per slot to the executor.
Send ==
    /\ pc = "send"
    /\ MayCall(tries)
    /\ \E b \in BackupChoices :
          calls' = [x \in Slots |->
                      [srv |-> IF x = "primary" THEN Primary ELSE b,
                       method |-> op, ign |-> ExecConfig(op).ign,
                       st |-> "pending", ver |-> -1, body |-> "none",
                       res |-> "none"]]
    /\ tries' = IF ExecConfig(op).retry THEN tries + 1 ELSE tries
    /\ first' = NoSlot
    /\ pc' = "await"
    /\ UNCHANGED <<env, known, orphans, op, snap, polls, lastRead, outcome>>

Done(x) == calls[x].st = "done"
OkDone(x) == Done(x) /\ calls[x].res = "ok"
OtherSlot(x) == IF x = "primary" THEN "backup" ELSE "primary"

\* try: return a.result() except Exception: return b.result(): the slot
\* whose future send_request returns, once that is decided.
ResultOf(a) ==
    IF ~Done(a) THEN {}
    ELSE IF OkDone(a) THEN {a}
    ELSE IF Done(OtherSlot(a)) THEN {OtherSlot(a)}
    ELSE {}

\* RequestStrategy.send_request waits for the primary; _fallback_to_backup
\* tries the primary first; _first_success tries the first to complete.
Chosen ==
    CASE Mode = "direct"   -> IF Done("primary") THEN {"primary"} ELSE {}
      [] Mode = "fallback" -> ResultOf("primary")
      [] OTHER             -> IF first = NoSlot THEN {} ELSE ResultOf(first)

\* What execute_without_retry makes of the future it got: its exception
\* (a RequestException becomes NetworkError), a JsonRpcError for an error
\* body, or the result.
Raised(c) ==
    CASE c.res = "neterr"          -> "NetworkError"
      [] c.res = "stale"           -> "StaleResponseError"
      [] c.res = "invalid"         -> "InvalidServerResponse"
      [] c.body \in RpcErrorBodies -> "JsonRpcError"
      [] OTHER                     -> "result"

\* Retry sleeps and calls again on StaleResponseError while
\* tries < max_retries; submit is not retried.
Retries(r) == r = "StaleResponseError" /\ ExecConfig(op).retry /\ tries < MaxRetries

\* The futures of the attempt that are still running, as a bag.
Running ==
    LET R == {y \in Slots : calls[y].st \in {"pending", "responded"}}
    IN  [c \in {calls[y] : y \in R} |-> Cardinality({y \in R : calls[y] = c})]

\* Mutants: the state read after the lookup; seconds compared with
\* microseconds.
TxnExpiredAfterLookup == ExpirationSecs * Usec <= known.timestamp_usecs
TxnExpiredUnscaled == ExpirationSecs <= snap.timestamp_usecs

\* expiration_time_secs * 1_000_000 <= state.timestamp_usecs, with the
\* state read before the lookup.
TxnExpired == ExpirationSecs * Usec <= snap.timestamp_usecs

\* What the wait loop body does with what get_account_transaction returned
\* or raised: an exception propagates; a found transaction is checked
\* (hash, then vm_status); no transaction is expired, or sleeps and loops.
\* The tests are made in the code's order, so the first that holds decides.
LookupOutcome(ret, body) ==
    IF ret # "result"              THEN ret
    ELSE IF body = "other"         THEN "TransactionHashMismatchError"
    ELSE IF body = "ours_failed"   THEN "TransactionExecutionFailed"
    ELSE IF body = "ours_executed" THEN "found"
    ELSE IF TxnExpired             THEN "TransactionExpired"
    ELSE "sleep"

\* Mutant: the deadline moves with every iteration, as if max_wait were
\* computed inside the loop.
ReturnedDeadlineReset(ret, body) ==
    LET o == IF op = "submit" THEN IF ret = "result" THEN "sleep" ELSE ret
             ELSE LookupOutcome(ret, body)
    IN  IF o = "sleep"
        THEN /\ pc' = "top"
             /\ UNCHANGED <<polls, outcome>>
        ELSE /\ pc' = "done"
             /\ outcome' = [phase |-> IF op = "submit" THEN "submit" ELSE "wait", r |-> o]
             /\ UNCHANGED polls

\* The caller goes on with what execute returned (r = "result") or raised:
\* after submit it goes to the wait loop or ends; after the lookup it
\* ends or sleeps and goes back to the loop condition.
Returned(ret, body) ==
    LET o == IF op = "submit" THEN IF ret = "result" THEN "sleep" ELSE ret
             ELSE LookupOutcome(ret, body)
    IN  IF o = "sleep"
        THEN /\ pc' = "top"
             /\ polls' = IF op = "submit" THEN polls ELSE polls + 1
             /\ UNCHANGED outcome
        ELSE /\ pc' = "done"
             /\ outcome' = [phase |-> IF op = "submit" THEN "submit" ELSE "wait", r |-> o]
             /\ UNCHANGED polls

\* send_request returns; execute_without_retry returns or raises; Retry
\* sleeps and loops, or returns or re-raises, to the caller. Futures still
\* running are left to the executor.
Complete ==
    /\ pc = "await"
    /\ \E x \in Chosen :
        LET c == calls[x]
            r == Raised(c)
        IN  /\ orphans' = orphans (+) Running
            /\ calls' = [y \in Slots |-> NoCall]
            /\ IF Retries(r)
               THEN /\ pc' = "send"
                    /\ UNCHANGED <<lastRead, polls, outcome>>
               ELSE /\ Returned(r, c.body)
                    /\ lastRead' = IF r = "result" /\ op # "submit" THEN c.ver ELSE lastRead
    /\ UNCHANGED <<env, known, op, tries, first, snap>>
\* The loop condition of Retry.execute fails before any call, which with
\* max_retries = 0 is at the first test: execute falls off the end of the
\* loop and returns None, which the caller takes for an empty result.
RetryGivesUp ==
    /\ pc = "send"
    /\ ~MayCall(tries)
    /\ Returned("result", "none")
    /\ UNCHANGED <<env, known, orphans, op, tries, calls, first, snap, lastRead>>
-----------------------------------------------------------------------------
(***************************************************************************)
(* wait_for_transaction2's loop condition.                                 *)
(***************************************************************************)

\* The loop condition holds: state = get_last_known_state(), then
\* get_account_transaction(address, seq, True) is called.
PollState ==
    /\ pc = "top"
    /\ polls < MaxPolls
    /\ snap' = known
    /\ op' = "lookup"
    /\ tries' = 0
    /\ pc' = "send"
    /\ UNCHANGED <<env, known, orphans, calls, first, polls, lastRead, outcome>>

\* time.time() >= max_wait at the loop condition: WaitForTransactionTimeout.
\* The clock is not modelled: the timeout may come at any iteration, and
\* comes at the latest after MaxPolls iterations.
WaitTimeout ==
    /\ pc = "top"
    /\ pc' = "done"
    /\ outcome' = [phase |-> "wait", r |-> "WaitForTransactionTimeout"]
    /\ UNCHANGED <<env, known, orphans, op, tries, calls, first, snap, polls, lastRead>>

\* The thread has returned and no future is left: the program has ended.
Finished ==
    /\ pc = "done"
    /\ orphans = EmptyBag
    /\ UNCHANGED vars
-----------------------------------------------------------------------------
ClientStep ==
    \/ Send
    \/ Complete
    \/ RetryGivesUp
    \/ \E x \in Slots : Respond(x) \/ ApplyState(x)

CallerStep == PollState \/ WaitTimeout

OrphanStep == \E o \in BagToSet(orphans) : OrphanRespond(o) \/ OrphanApply(o)

Environment ==
    \/ Commit
    \/ \E s \in Servers : Sync(s)
    \/ \E s \in Servers, v \in Versions : OtherThreadUpdate(s, v)

Next == ClientStep \/ CallerStep \/ OrphanStep \/ Environment \/ Finished

\* Every HTTP call ends (the session has connect and read timeouts), the
\* thread keeps running, and the executor runs every submitted future. The
\* ledger, the servers' sync and the other threads are not controlled by
\* this thread: no fairness for them.
Fairness ==
    /\ WF_vars(Send)
    /\ WF_vars(RetryGivesUp)
    /\ WF_vars(Complete)
    /\ \A x \in Slots : WF_vars(Respond(x)) /\ WF_vars(ApplyState(x))
    /\ WF_vars(CallerStep)
    /\ WF_vars(OrphanStep)

Spec == Init /\ [][Next]_vars /\ Fairness
-----------------------------------------------------------------------------
(***************************************************************************)
(* Properties.                                                             *)
(***************************************************************************)

\* wait_for_transaction2 raises TransactionExpired only for a transaction
\* that is not and will never be executed: the state read before the
\* lookup is no newer than the ledger the lookup saw, so "not found" there
\* and an expired timestamp mean the transaction cannot be in the ledger.
\* Breaks if the state is read after the lookup (the race the comment at
\* client.py:502 describes), if a stale lookup is accepted, or if the
\* seconds are not scaled to microseconds.
NoFalseExpiry ==
    outcome = [phase |-> "wait", r |-> "TransactionExpired"] => slot.who # "ours"

\* The thread never gets a get-call result from an older ledger version
\* than one it already got: update_last_known_state rejects every response
\* behind the shared last known state, across other threads' updates,
\* retries and both futures of RequestWithBackups.
MonotonicReads == [][lastRead' >= lastRead]_vars

\* submit raises JsonRpcError (SEQUENCE_NUMBER_TOO_OLD) only for a
\* transaction that is not executed: the reason submit neither retries nor
\* raises StaleResponseError (docstring of Client.submit).
SubmitErrorMeansNotExecuted ==
    outcome = [phase |-> "submit", r |-> "JsonRpcError"] => slot.who # "ours"

\* The abstract view of the Client (module ConsistentReads): the shared
\* last known state is the register, the version of the last get result
\* is the read.
Reads == INSTANCE ConsistentReads
            WITH Chains <- {ChainOf[s] : s \in Servers},
                 Stamps <- {Ts[v] : v \in Versions},
                 state <- known, read <- lastRead

\* The Client implements ConsistentReads: update_last_known_state only
\* moves the shared state forward on the chain it first saw, whatever
\* order the responses of other threads, orphaned futures and both
\* futures of RequestWithBackups reach it in; and every get result handed
\* to the thread is from a version between the last one it got and the
\* shared state.
ReadsRefinement == Reads!Spec

\* wait_for_transaction (and every get call it makes) eventually returns or
\* raises: Retry is bounded and the loop is bounded by its timeout.
WaitReturns == <>(pc = "done")
=============================================================================
