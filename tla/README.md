# TLA+ models of the Diem JSON-RPC client

This directory holds the formal models of `src/src/diem/jsonrpc/client.py`, the JSON-RPC client of the Diem Python SDK. It contains TLA+ modules, TLC configurations for model checking them, and TLAPS proofs.

## The system

`client.py` is a thread-safe client. Many threads may share one `Client`. Its parts are listed below; one `Client` call runs through them from top to bottom.

| Part | Code | Role |
|---|---|---|
| Last known server state | `Client._last_known_server_state`, `get_last_known_state`, `update_last_known_state` (l. 167, 241-275) | Holds the highest (chain id, version, timestamp) any response reported. Every response is checked against it under `Client._lock`: a chain id change raises `InvalidServerResponse`; an older version or timestamp raises `StaleResponseError`. |
| Retry | `Retry.execute` (l. 46-63) | Calls again after `StaleResponseError`, up to `max_retries` tries, then re-raises. |
| Request strategies | `RequestStrategy`, `RequestWithBackups` (l. 66-145) | Direct: one HTTP call to the primary. With backups: the same request goes to the primary and to a random backup on a shared `ThreadPoolExecutor`. `_first_success` returns the first future to complete, or else the other one. `_fallback_to_backup` returns the primary, or else the backup. The future not returned keeps running. |
| Execution | `execute`, `execute_without_retry`, `_send_http_request` (l. 529-616) | Sends the request. The state check runs before the JSON-RPC error check. Exceptions are mapped: `RequestException` becomes `NetworkError`, an `error` body becomes `JsonRpcError`. |
| submit | l. 406-442 | `execute_without_retry` with `ignore_stale_response=True` and no retry, so that a transaction is never sent twice. |
| wait_for_transaction | l. 444-526 | A polling loop. Each iteration takes a snapshot of the last known state, then calls `get_account_transaction`, then checks the hash, then `vm_status`, then expiry (`expiration_secs * 1_000_000 <= snapshot.timestamp_usecs`). Then it sleeps, until a deadline. |
| get_* wrappers | l. 277-383 | `execute(method, params, parser)`. |
| Account helpers | l. 175-237 | `must_get_account`, `get_account_sequence`, and `get_parent_vasp_account` and `get_base_url_and_compliance_key`, which recurse through `parent_vasp_address`, one `get_account` per frame. |
| get_vasp_domain_map | l. 385-400 | Reads the treasury account, then pages through its VASP domain event stream with `get_events`, replaying each event into a dict, until a page shorter than `batch_size`. |
| parsers, support_diem_id | l. 402-404, 619-624 | Data conversion, and one get call with a truth test. |

## Modules

- **`LedgerStateTracker.tla`** is the compare-and-replace of `update_last_known_state`, as operators with no variables.
  - `UpdateResult` makes the three checks in code order.
  - `Updated` is the stored state afterwards.
  - The composed module applies them in one step, which is what the lock guarantees.
- **`JsonRpcClient.tla`** models one thread that submits a transaction and then waits for it, every call step by step.
  - **Threads and futures.** A step of a future (`Respond`, `ApplyState`) is separate from the thread's step (`Send`, `Complete`), so futures interleave with everything else.
    - The HTTP call and the tracker update are separate steps, so the shared state can change between a server's answer and its check.
    - Futures left running after `send_request` returns go into the bag `orphans`. They go on, through `OrphanRespond` and `OrphanApply`, to update the tracker late.
    - Other threads sharing the Client are modelled by their only effect on this one, `OtherThreadUpdate`: an `update_last_known_state` with a state some server reported.
  - **Environment.** The ledger (`Commit`) and the servers (`Sync`) form the environment.
    - A URL may be served by several replicas, so a response carries any version up to what the URL has synced. Responses can therefore be stale.
    - The slot (sender, sequence number) is filled at most once: by this transaction, if some server accepted it before its expiration, or by a rival transaction.
    - A call can be lost before or after the server acts on it (`PostResults`).
  - **Variables and the code they stand for.**

    | Variable | Code |
    |---|---|
    | `known` | `_last_known_server_state` |
    | `tries` | `Retry.execute`'s counter |
    | `calls` | the futures of the current attempt |
    | `first` | the `as_completed` order |
    | `snap` | the loop's `state` |
    | `polls` | the loop iterations |
    | `outcome` | what submit or the wait returned or raised |
    | `lastRead` | the version of the last get result, kept so that MonotonicReads and the refinement can be stated |
  - **Actions and the code they stand for.**

    | Action | Code |
    |---|---|
    | `Send` | `tries += 1; fn()` reaching `send_request` |
    | `Complete` | `send_request` returning, `execute_without_retry`'s exception mapping, `Retry` looping or re-raising, and the caller's handling of the result. For submit that is going on to the wait; for a lookup it is the hash, status and expiry checks and the sleep. |
    | `PollState` | the loop condition holding, then `get_last_known_state()` |
    | `WaitTimeout` | the deadline passing |
- **`MC_JsonRpcClient.tla`** gives the model values and the timestamps for TLC.
- **`JsonRpcClientProofs.tla`** holds the TLAPS proofs of type correctness and monotonic reads; **`JsonRpcClientRefinement.tla`** the proof that the client implements `ConsistentReads`; **`ExpiryProofs.tla`** the proof of `NoFalseExpiry`; **`DirectSubmitProofs.tla`** the proof of `SubmitErrorMeansNotExecuted` in direct mode; **`AccountHelpersProofs.tla`** the proof of `HelperCorrect`; **`VaspDomainMapProofs.tla`** the proof of `DomainMapConsistent` with its lemmas on `RefMap`.
- **`ConsistentReads.tla`** is the abstract specification of what the tracker promises a thread: a register `state` holding the last known (chain id, version, timestamp), which `Advance` only moves forward on one chain, and the version `read` of the last get result, which `Read` moves to any version between itself and the register. `JsonRpcClient` instantiates it as `Reads` with `state <- known, read <- lastRead`, and `ReadsRefinement == Reads!Spec` is checked as a PROPERTY.
- **`VaspDomainMap.tla`** models `get_vasp_domain_map` (l. 385-400). `Call` sets `domain_map = {}` and `event_index = 0`; `GetTcAccount` is `must_get_account(TREASURY_ADDRESS)`; `GetEvents` is the `get_events` call of the while loop, answered at a version `w`, which stores the page in `events`. `ReplayEvent` is one iteration of the for loop over that page (`pos` counts the events replayed): `DelDomain` for a removal, raising `KeyError` when the domain is missing, and `SetDomain` otherwise. `EndPage` is the code after the for loop: the break on `LastPage`, or `event_index += batch_size`. The for loop is one event per step, as the code runs it, rather than a fold over the page, so that its invariant can be proved without induction over sequences. `domain_map` is local to the call, so no other actor can observe the difference between the two granularities. Both get calls are one try of `Retry.execute` (`Lost`, `Rejected`) around one HTTP call, answered by a replica at any version up to what the server has synced, and the tracker update. The ledger grows the event stream (`Commit`, adding a domain only when absent and removing it only when present), the replica syncs (`Sync`) and other threads advance the shared state (`OtherThreadUpdate`). `RefMap(s)`, the domain map of a stream prefix by each domain's last event, is the reference the loop is checked against.
- **`AccountHelpers.tla`** models the account helpers (l. 175-237) over every account map three addresses can have, well-formed or not. `Step` is one frame: `must_get_account(cur)`, then `Frame`, the helper's role tests (return, recurse into `parent_vasp_address`, or `ValueError`), with `RecursionError` once the depth reaches `RecursionLimit`. `ParentVaspOf` and `OffchainInfoOf` are the docstrings' answers.
- **`ResponseFields.tla`** follows `update_last_known_state` through a sequence of one server's responses, each of which may lack any of the three ledger fields, which `json.get` then passes as `None` (l. 606-611). `Update` is the tracker's test with Python's semantics of `None`: `None != x` is true, and `>` between an int and `None` raises `TypeError`.
- **`MC_*.tla`** give the model values for TLC.

The constants are:

| Constant | Meaning |
|---|---|
| `Primary`, `Backups` | the server URLs |
| `Mode` | `direct`, `first_success` or `fallback` |
| `ChainOf` | each server's chain id |
| `MaxVersion` | the last ledger version of the model |
| `Ts` | the timestamp of each version |
| `ExpirationSecs` | the transaction's expiration |
| `Rival` | whether a rival transaction uses the same sequence number |
| `Shared` | whether other threads share the Client |
| `MaxRetries` | `Retry.max_retries` |
| `MaxPolls` | the iterations after which the deadline has passed |

`ConstantsAssumption` states what the proofs need: timestamps non-decreasing in the version, `MaxRetries \in Nat` (0 included, as the constructor allows), `MaxPolls >= 1`.

## Properties

- **`NoFalseExpiry`**: `TransactionExpired` is raised only for a transaction that is not, and never will be, executed. This is the reason for the snapshot-before-lookup order described at client.py:502-513.
- **`ReadsRefinement`**: the Client implements `ConsistentReads`. The shared state only moves forward on the chain it first saw, whoever updates it (the thread's futures, orphaned futures, other threads), and every get result handed to the thread comes from a version no older than the last one and no newer than the shared state. It implies the action property `MonotonicReads`, which stays as a theorem.
- **`SubmitErrorMeansNotExecuted`**: `submit` raises `JsonRpcError` (SEQUENCE_NUMBER_TOO_OLD) only for a transaction that is not executed. The submit docstring gives this as the reason submit neither retries nor raises stale errors.
- **`WaitReturns`** (liveness): the thread always ends.
- **`TypeOK`**: the type invariant, with the bounds on the Retry counter and the loop iterations; checked where `max_retries = 0`, the edge that can break the counter's bound.
- **`DomainMapConsistent`**: `get_vasp_domain_map` never raises `KeyError`, and the dict it returns is the domain map of the stream at one ledger version between the one known at the call and the one known at the return, although its pages come from different replicas at different versions.
- **`DomainMapReturns`** (liveness): a started `get_vasp_domain_map` returns or raises.
- **`HelperCorrect`**: on well-formed accounts (a child VASP's parent is a parent VASP), each account helper returns the account its docstring names, or the error it lists.
- **`HelperErrorsDocumented`**: the helpers raise only `ValueError` or `AccountNotFoundError`, on any account data.
- **`NoFalseChainMismatch`**: `update_last_known_state` never rejects a complete response of the servers' chain as another chain's, whatever responses came before. (A response without a version or timestamp fails in one step: `>` between an int and `None` raises `TypeError`, an exception no docstring lists; `Update` models it as the outcome `"TypeError"`, and the missing_chain_id finding records it.)

## Runs

| Run | cfg | Expect | What it shows |
|---|---|---|---|
| direct | `direct.cfg` | pass | The default strategy, with a rival transaction and a shared Client. Up to version 3, 2 tries, 3 polls. About 16k states. |
| first_success | `first_success.cfg` | pass | RequestWithBackups (one backup) in first-success mode. Up to version 2, with orphans. About 460k states, 40 s. |
| fallback | `fallback.cfg` | pass | The same in fallback mode. About 166k states. |
| backup_other_chain | `backup_other_chain.cfg` | pass | First-success mode with the backup on another chain id: whichever answers first fixes the chain, the other's answers become `InvalidServerResponse`, and the refinement, no false expiry and termination still hold. About 157k states. |
| zero_retries_private | `zero_retries_private.cfg` | pass | `max_retries = 0` (execute returns `None` with no call: `RetryGivesUp`) on a Client no other thread uses: no false expiry, types, termination. About 1k states. |
| zero_retries | `zero_retries.cfg` | violation | **Finding.** `max_retries = 0` on a shared Client: the lookup returns `None` without a call, another thread has moved the state past the expiration, and the wait raises `TransactionExpired` for an executed transaction (client.py:54). |
| domain_map | `domain_map.cfg` | pass | Two domains, one address, `batch_size` 2, versions 0..4 (so the stream can reach a full page and a page boundary), 2 tries, a shared Client. About 51k states. |
| account_helpers | `account_helpers.cfg` | pass | Every account map of three addresses, every helper and argument, recursion limit 3. About 80k states. |
| cyclic_parent | `cyclic_parent.cfg` | violation | **Finding.** A child VASP whose parent is a child VASP (or itself) recurses until `RecursionError` (client.py:193, 212). |
| missing_chain_id | `missing_chain_id.cfg` | violation | **Finding.** A first response without `diem_chain_id` stores `None` as the chain; every later response is rejected with `InvalidServerResponse` (client.py:264). |
| submit_race | `submit_race.cfg` | violation | **Finding.** In first-success mode the backup's SEQUENCE_NUMBER_TOO_OLD answer beats the primary's acceptance, so submit raises `JsonRpcError` for an executed transaction (client.py:143). |
| submit_lost_fallback | `submit_lost_fallback.cfg` | violation | **Finding.** In fallback mode the primary accepts, its response is lost, and the backup's SEQUENCE_NUMBER_TOO_OLD is raised (client.py:137). |

The two submit findings contradict the submit docstring and spec section 5. RequestWithBackups sends every submit twice, which is exactly the duplicate submission the docstring says submit avoids. The other three are divergences from spec sections 2, 4 and 9: the code accepts `max_retries = 0`, feeds absent ledger fields as `None` rather than only the fields present, and bounds the recursion through `parent_vasp_address` only by Python's recursion limit.

**Bounds.** `MC_Ts` puts versions 0 and 1 in the same block (0.5 s) and version 2 at 1 s, and the expiration is 1 s. So:

- a transaction can execute at version 1 and at no later version;
- a lookup of a stale replica can return an older version with the same timestamp;
- a test in seconds (the `TxnExpiredUnscaled` mutant) already fires at version 0.

Three versions are enough for a lookup to see version 0 while another answer sets the state to version 2. Two tries let a stale answer be retried. Polls bound the loop.

The racing modes use `Rival = FALSE` and `Shared = FALSE` to keep the state space small. Orphaned futures already supply the concurrent tracker updates; the direct run covers the rival and the other threads.

**Mutants.** Each property is shown to be sensitive to a plausible bug in the code it is about (PROJECT.json "mutants"):

| Mutant | Property it breaks |
|---|---|
| Retry loop condition `<=` | `TypeOK` |
| Snapshot read after the lookup | `NoFalseExpiry` |
| Every call ignoring stale responses | `NoFalseExpiry` |
| Expiry in seconds | `NoFalseExpiry` |
| submit through `execute` with Retry | `SubmitErrorMeansNotExecuted` |
| Tracker without its version check | `ReadsRefinement` |
| Tracker without its chain check | `ReadsRefinement` (backup_other_chain) |
| Paging loop breaking on `<=` | `DomainMapConsistent` |
| `event_index` not advanced | `DomainMapReturns` |
| Off-chain info taken when only one of base_url, compliance_key is set | `HelperCorrect` |
| Deadline recomputed every iteration | `WaitReturns` |

**Fairness.** Weak fairness on the thread's steps, on every future's steps and on the orphans' steps.

- Every HTTP call ends, because the session has connect and read timeouts (client.py:166).
- The executor runs every submitted future.
- The ledger, the replicas and the other threads get no fairness: the client does not control them.
- In `VaspDomainMap`, weak fairness on `GetTcAccount` and `GetEvents` (the HTTP timeouts again) and on `ReplayEvent` and `EndPage` (local code of the running thread). `DomainMapReturns` holds although the ledger may keep committing, because `MaxVersion` bounds the stream.
- In `AccountHelpers`, weak fairness on `Step`: the helper is sequential code.

## Proofs (TLAPS)

The first three theorems hold for every value of the constants satisfying `ConstantsAssumption`. The next three add one hypothesis each, and each hypothesis is needed: without it a run finds the property violated.

Where the code tests conditions in order (`wait_for_transaction2`'s checks, a helper's role tests), the model writes an `IF ... ELSE IF` chain (`LookupOutcome`, `AccountHelpers!Step`), not a `CASE` whose arms overlap. TLC takes the first true arm of such a `CASE`, but its meaning in TLA+ is a choice among the true arms, which is not what the code does and cannot be proved.

### `TypeCorrect == Spec => []TypeOK`

`TypeOK` alone is not inductive. `TypeInv` strengthens it with three facts:

- every future of the thread's slots is well formed (`CallOK`): a responded future carries a version, so `Ts[c.ver]` is defined when the tracker is updated;
- every orphaned future is well formed in the same way;
- during a lookup, `polls < MaxPolls`.

`Send` is guarded by `MayCall` (`tries < max_retries` for retried methods), so the counter stays within `0..MaxRetries`, and `RetryGivesUp` covers `max_retries = 0`.

There is one lemma per action. They rest on lemmas about the bag operations of the orphans, the results of `PostResults`, and the tracker.

### `MonotonicReadsThm == Spec => MonotonicReads`

The inductive invariant `MonoInv` says:

- `lastRead <= known.version`;
- every get-call future that passed `update_last_known_state` has a version between `lastRead` and `known.version`;
- the attempt's futures run the current method with its `ignore_stale_response`;
- no future exists between calls.

Three key steps carry the proof:

- **The tracker never lowers the version** (`UpdatedMonotone`). So other threads and orphans only raise `known`.
- **A returned get result is a future that passed the check with `ignore_stale_response = False`.** So its version lies between `lastRead` and `known.version`.

Both invariants were checked with TLC on all three passing configurations before they were proved.

### `Refinement == Spec => ReadsRefinement` (`JsonRpcClientRefinement.tla`)

The proof uses `MonoInv` as its invariant and has the usual three parts: `Init` maps to `Reads!Init`, `MonoInv` is inductive (from `JsonRpcClientProofs`), and every step under `MonoInv` maps to a `ConsistentReads` step or a stutter (`NextRefines`). The lemma `UpdatedLater` shows that one `update_last_known_state` either leaves the state alone or moves it into `Later(known)`, so every `ApplyState`, `OrphanApply` and `OtherThreadUpdate` is an `Advance`. `Complete` returning a get result is a `Read`, because `MonoInv` puts its version between `lastRead` and `known.version`. Every other step leaves `known` and `lastRead` alone.

### `NoFalseExpiryThm == ASSUME MaxRetries # 0 PROVE Spec => []NoFalseExpiry` (`ExpiryProofs.tla`)

The inductive invariant `ExpiryInv` is `MonoInv` together with these facts:

- servers and the slot never run ahead of the ledger head;
- this transaction only takes the slot in a block whose timestamp is before the expiration;
- during a lookup, the loop's snapshot `state` is no newer than the shared state;
- a lookup about to send still has a try left;
- for every future (`CallExpiryOK`):
  - a version comes with an answer, and is at most the head;
  - a "not found" body at version `v` means the sequence number was unused at `v`;
  - while the thread awaits a lookup, an accepted answer is no older, in time, than the snapshot.
- once `TransactionExpired` is raised, the ledger has passed the expiration and the slot is not ours.

The key step is `ExpiredSound`. The lookup's answer is at a version whose timestamp is at least the snapshot's. The snapshot's timestamp is past the expiration, and the body says the slot was unused at that version. If the transaction were ours, it would have been executed before the expiration, so it would already be in the slot at that version. That is a contradiction.

The try left at each send is where `max_retries >= 1` enters. With `max_retries = 0`, `Retry.execute` returns `None` without a call (`RetryGivesUp`), and the `zero_retries` run shows the false expiry this then allows. The Client's default `Retry` has `DEFAULT_MAX_RETRIES`. ExpiryInv was checked with TLC on four configurations before the proof.

### `SubmitErrorThm == ASSUME Mode = "direct" PROVE Spec => []SubmitErrorMeansNotExecuted` (`DirectSubmitProofs.tla`)

The inductive invariant `SubmitInv` is `MonoInv` together with these facts:

- no future is ever orphaned: with one URL, `send_request` waits for its only future;
- the slot is ours only if some server accepted the submit;
- no server has accepted it while the one submit call is unsent or pending;
- so a `SEQUENCE_NUMBER_TOO_OLD` body, and the `JsonRpcError` submit raises for it, mean the slot holds the rival.

The hypothesis is the Client's default `RequestStrategy`. With `RequestWithBackups` the property fails, as the runs `submit_race` and `submit_lost_fallback` show.

### `HelperCorrectThm == ASSUME RecursionLimit # 1 PROVE Spec => []HelperCorrect` (`AccountHelpersProofs.tla`)

On well-formed accounts, `HelperInv` says:

- a pending helper is either at its first frame on the argument, or at its second frame on the parent of a child VASP;
- a returned helper returned `Expected`, the docstring's answer.

`SecondFrameStops` shows that a second frame never recurses again: the parent of a child VASP is a parent VASP. Two frames therefore fit under any limit of at least 2. With a limit of 1, `get_parent_vasp_account` on a child raises `RecursionError`; Python's default limit is 1000. `HelpersAssumption` also requires that the sentinel `Pending` is not an address. HelperInv was checked with TLC for limits 2 and 3.

### `DomainMapConsistentThm == Spec => []DomainMapConsistent` (`VaspDomainMapProofs.tla`)

This holds for every batch size, retry bound, and set of domains, addresses and versions that satisfies `DomainMapAssumption`. The inductive invariant is `DomainInv`:

- **Types.** `DomainTypeOK`.
- **`LogOK`.** The stream is monotone: `lenAt` grows with the version and `lenAt[head]` is the stream's length. Every event of the stream is emittable after its prefix, so a removal always names a domain present at that point.
- **Before the first page.** `domain_map` is empty and `event_index` is 0.
- **Between pages.** `event_index` is at most the stream length at the known version. `domain_map` is `RefMap` of the first `event_index` events.
- **Inside a page.** `domain_map` is `RefMap` of the first `event_index + pos` events. The page is the stream's events from `event_index + 1` on. A short page ends exactly where the stream ended at some version between the start and the known version, `ReadAt`.
- **After the return.** This part is the property itself.

The argument runs as follows:

1. Every page is a slice of the one global stream. A later version only extends it, by `LogOK` and `PageFacts`.
2. Replaying one event turns `RefMap` of a prefix into `RefMap` of the next prefix. This is `RefMapAppend` with `PrefixStep`.
3. A removal never misses its domain, because the event was emittable after that prefix.
4. The tracker only moves forward (`UpdatedFacts`). So the version a short page was read at stays between the start and the known version.

The one-step-per-event model of the for loop is what makes this provable. A `FoldLeft` over a page would need induction over sequences, which the provers cannot instantiate here. TLC checked `DomainInv` as an invariant for batch sizes 1, 2 and 3 before the proof.

### `PagingStepThm == Spec => [][PagingStep]_vars` (`VaspDomainMapProofs.tla`)

This is an action property of `event_index`. It moves only at `EndPage`, after every event of the page has been replayed, and by exactly the page's length. Its new value is at most the stream length at the version the Client then knows. Paging therefore skips no event and reads none twice.

The proof rests on `DomainInv`:

- Before the first page, `event_index` is 0. So `Call` does not change it.
- A page is at most `batch_size` long. So a page that is not short is exactly `batch_size` long.
- The bound on the new `event_index` is the between-pages conjunct of `DomainInv'`.

The property is checked by the proof alone, not by a run. TLC confirmed it as a temporal property with batch size 2 while it was being written.

### Left to TLC

- **Liveness.** `WaitReturns` and `DomainMapReturns` need `ENABLED` and fairness, which the prover does not handle.
- **Violation runs.** `NoFalseChainMismatch` (`ResponseFields`) and `HelperErrorsDocumented` (a cyclic `parent_vasp_address`) are violated by the code, so there is nothing to prove.
- **Outside the hypotheses.** `NoFalseExpiry` with `max_retries = 0` and `SubmitErrorMeansNotExecuted` with backups are false. The violation runs are the findings.

## Not modelled

- Wall-clock time. It is replaced by the bound `MaxPolls` and a timeout that may come at any iteration.
- HTTP bodies that are not JSON, or have neither `result` nor `error`, and parse errors: each becomes `InvalidServerResponse` with no state change, the same outcome as a call answered by an invalid response.
- Transaction (de)serialisation, hashing, and the result parsers `_parse_obj`, `_parse_list` (l. 619-624): data conversion.
- `support_diem_id` (l. 402-404): one `must_get_account` and a truth test.
- The HTTP session setup (l. 163-166): configuration. Its timeouts justify the fairness above.
- A bounded executor pool (l. 124). Queueing in the shared pool only delays a future until its HTTP timeout; the model already lets a future take any time, so a bound adds no outcome the properties distinguish.
- A separate ledger behind a server on another chain. In `backup_other_chain`, the backup reports chain id 3 but answers from the same ledger as the primary, so it may accept our transaction. A real server on another chain would reject it. This only adds behaviours. It hides no false expiry, because submit succeeds only while the tracker is on chain 2.
- Domains shared between addresses in the event stream. `Emittable` adds a domain only when it is absent and removes it only when it is present, across all addresses. The domain-keyed dict of `get_vasp_domain_map` assumes the same.
- Several modelled threads. Other threads act on this one only through the shared state, which `OtherThreadUpdate` covers with any version a server has reported.

## Further work

1. Prove `WaitReturns` and `DomainMapReturns` in a prover with ENABLED support; here they are TLC's alone.
2. Run `ResponseFields`' responses through the full `JsonRpcClient` (a server that may omit fields), to see the `TypeError` escape `wait_for_transaction`.
3. Larger instances of the racing modes with `Shared = TRUE`, on a machine with more time.
