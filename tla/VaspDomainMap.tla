--------------------------- MODULE VaspDomainMap ---------------------------
(***************************************************************************)
(* Client.get_vasp_domain_map (diem/jsonrpc/client.py:385-400): read the   *)
(* treasury compliance account, then page through its VASP domain event   *)
(* stream with get_events, batch_size events at a time, replaying every    *)
(* event into a dict from domain to VASP address.                          *)
(*                                                                         *)
(* Each get call goes through Client.execute: Retry around one HTTP call   *)
(* whose response, from a replica at any version the URL has synced,       *)
(* passes update_last_known_state before its result is used. The ledger   *)
(* grows while the pages are read, and other threads sharing the Client    *)
(* move the last known state forward.                                      *)
(***************************************************************************)
EXTENDS Integers, Sequences, LedgerStateTracker

CONSTANTS
    Domains,     \* VASP domain names
    Addresses,   \* VASP account addresses
    BatchSize,   \* get_vasp_domain_map's batch_size
    MaxVersion,  \* last ledger version of the model
    MaxRetries,  \* Retry.max_retries
    Chain,       \* diem_chain_id of the server
    Shared       \* other threads share the Client

Versions == 0 .. MaxVersion

ASSUME DomainMapAssumption ==
    /\ BatchSize \in Nat \ {0}
    /\ MaxVersion \in Nat
    /\ MaxRetries \in Nat \ {0}
    /\ Chain \in Nat
    /\ Shared \in BOOLEAN

\* diem_ledger_timestampusec of version v: one block per second.
Stamp(v) == v * 1000000

\* A VASPDomainEvent: the domain, the VASP's address, and whether the
\* domain was removed (else added).
Events == [domain : Domains, address : Addresses, removed : BOOLEAN]

VARIABLES
    head,      \* latest ledger version
    log,       \* the treasury account's VASP domain event stream
    lenAt,     \* lenAt[v]: length of the stream at version v
    synced,    \* the version the server's most advanced replica has
    known,     \* Client._last_known_server_state
    pc,        \* where the calling thread is
    tries,     \* Retry.execute's counter of the current get call
    dmap,      \* domain_map
    idx,       \* event_index
    events,    \* events, the page get_events returned
    pos,       \* how many events of the page the for loop has replayed
    start,     \* last known version when get_vasp_domain_map was called
    result     \* what get_vasp_domain_map returned or raised

vars == <<head, log, lenAt, synced, known, pc, tries, dmap, idx, events, pos,
          start, result>>

\* The dicts domain_map can hold.
DomainMaps == UNION {[D -> Addresses] : D \in SUBSET Domains}

EmptyMap == [d \in {} |-> CHOOSE a \in Addresses : TRUE]

Results == {"none", "ok", "KeyError", "StaleResponseError", "NetworkError"}

-----------------------------------------------------------------------------
(***************************************************************************)
(* The reference: what the domain map is after a prefix of the stream.     *)
(***************************************************************************)

\* Event i of s added domain d, and no later event of s is about d.
LastAdd(s, d, i) ==
    /\ s[i].domain = d
    /\ ~s[i].removed
    /\ \A j \in DOMAIN s : j > i => s[j].domain # d

\* The domains whose last event in s added them, each with the address of
\* that event.
RefMap(s) ==
    [d \in {d \in Domains : \E i \in DOMAIN s : LastAdd(s, d, i)} |->
        s[CHOOSE i \in DOMAIN s : LastAdd(s, d, i)].address]

\* An event the treasury account can emit after the stream s: a domain is
\* added only when absent and removed only when present.
Emittable(s) ==
    {e \in Events : e.removed = (e.domain \in DOMAIN RefMap(s))}
-----------------------------------------------------------------------------
(***************************************************************************)
(* The loop of get_vasp_domain_map.                                        *)
(***************************************************************************)

\* del domain_map[domain]
DelDomain(m, d) == [x \in DOMAIN m \ {d} |-> m[x]]

\* domain_map[domain] = address
SetDomain(m, d, a) == [x \in DOMAIN m \cup {d} |-> IF x = d THEN a ELSE m[x]]

\* Mutant: the loop also stops after a full page.
LastPageInclusive(page) == Len(page) <= BatchSize

\* if len(events) < batch_size: break
LastPage(page) == Len(page) < BatchSize

\* Mutant: event_index not advanced.
NextIndexStuck(i) == i

\* event_index += batch_size
NextIndex(i) == i + BatchSize

\* get_events(key, event_index, batch_size) answered at version w: the
\* events of the stream from event_index on, at most batch_size of them.
Page(w) ==
    SubSeq(log, idx + 1, IF idx + BatchSize < lenAt[w] THEN idx + BatchSize ELSE lenAt[w])

\* Mutant: the get calls ignore StaleResponseError.
AcceptedIgnoringStale(u) == u \in {"ok", "stale"}

\* update_last_known_state raised nothing (or, for ignore_stale_response,
\* only StaleResponseError): execute_without_retry goes on with the json.
Accepted(u) == u = "ok"

\* The HTTP call of one try is lost: NetworkError, raised at once, as
\* Retry only retries StaleResponseError.
Lost ==
    /\ pc' = "done" /\ result' = "NetworkError"
    /\ UNCHANGED <<known, tries, dmap, idx, events, pos>>

\* A replica at version w answers and update_last_known_state decides
\* (all replicas are on one chain, so it accepts or raises
\* StaleResponseError).
Response(w) == UpdateResult(known, Chain, w, Stamp(w))

\* Retry.execute after a StaleResponseError: tries again while
\* tries < max_retries, re-raises after.
Rejected(u) ==
    IF u = "stale" /\ tries + 1 < MaxRetries
    THEN /\ tries' = tries + 1
         /\ UNCHANGED <<pc, dmap, idx, events, pos, result>>
    ELSE /\ pc' = "done"
         /\ result' = "StaleResponseError"
         /\ UNCHANGED <<tries, dmap, idx, events, pos>>

\* A thread calls get_vasp_domain_map: domain_map = {}, event_index = 0.
Call ==
    /\ pc = "idle"
    /\ pc' = "account"
    /\ start' = known.version
    /\ UNCHANGED <<head, log, lenAt, synced, known, tries, dmap, idx, events, pos,
                   result>>

\* must_get_account(TREASURY_ADDRESS) through one try of Retry.execute:
\* the treasury account exists from genesis on, so an accepted result is
\* the account, whose vasp_domain_events_key names the stream.
GetTcAccount ==
    /\ pc = "account"
    /\ tries < MaxRetries
    /\ \/ Lost
       \/ \E w \in 0 .. synced :
            /\ known' = Updated(known, Chain, w, Stamp(w))
            /\ IF Accepted(Response(w))
               THEN /\ pc' = "events" /\ tries' = 0
                    /\ UNCHANGED <<dmap, idx, events, pos, result>>
               ELSE Rejected(Response(w))
    /\ UNCHANGED <<head, log, lenAt, synced, start>>

\* One try of the get_events call that begins an iteration of the while
\* loop; the for loop then starts on the page.
GetEvents ==
    /\ pc = "events"
    /\ tries < MaxRetries
    /\ \/ Lost
       \/ \E w \in 0 .. synced :
            /\ known' = Updated(known, Chain, w, Stamp(w))
            /\ IF Accepted(Response(w))
               THEN /\ events' = Page(w) /\ pos' = 0
                    /\ pc' = "replay" /\ tries' = 0
                    /\ UNCHANGED <<dmap, idx, result>>
               ELSE Rejected(Response(w))
    /\ UNCHANGED <<head, log, lenAt, synced, start>>

\* One iteration of the for loop over the page: del raises KeyError on a
\* domain the dict does not hold.
ReplayEvent ==
    /\ pc = "replay"
    /\ pos < Len(events)
    /\ LET e == events[pos + 1]
       IN  IF e.removed /\ e.domain \notin DOMAIN dmap
           THEN /\ pc' = "done" /\ result' = "KeyError"
                /\ UNCHANGED <<dmap, pos>>
           ELSE /\ dmap' = IF e.removed THEN DelDomain(dmap, e.domain)
                                        ELSE SetDomain(dmap, e.domain, e.address)
                /\ pos' = pos + 1
                /\ UNCHANGED <<pc, result>>
    /\ UNCHANGED <<head, log, lenAt, synced, known, tries, idx, events, start>>

\* The for loop has ended: break on a short page, else event_index +=
\* batch_size and the while loop goes on.
EndPage ==
    /\ pc = "replay"
    /\ pos = Len(events)
    /\ IF LastPage(events)
       THEN /\ pc' = "done" /\ result' = "ok" /\ UNCHANGED idx
       ELSE /\ idx' = NextIndex(idx) /\ pc' = "events" /\ UNCHANGED result
    /\ UNCHANGED <<head, log, lenAt, synced, known, tries, dmap, events, pos, start>>
-----------------------------------------------------------------------------
(***************************************************************************)
(* The ledger, the server and the other threads.                           *)
(***************************************************************************)

\* The ledger commits a version, which may carry a domain event.
Commit ==
    /\ head < MaxVersion
    /\ \E s \in {log} \cup {Append(log, e) : e \in Emittable(log)} :
          /\ log' = s
          /\ lenAt' = [lenAt EXCEPT ![head + 1] = Len(s)]
    /\ head' = head + 1
    /\ UNCHANGED <<synced, known, pc, tries, dmap, idx, events, pos, start, result>>

\* The server's most advanced replica syncs one more version.
Sync ==
    /\ synced < head
    /\ synced' = synced + 1
    /\ UNCHANGED <<head, log, lenAt, known, pc, tries, dmap, idx, events, pos, start,
                   result>>

\* Another thread's get call answered at version v updates the shared
\* last known state.
OtherThreadUpdate(v) ==
    /\ Shared
    /\ known' = Updated(known, Chain, v, Stamp(v))
    /\ UNCHANGED <<head, log, lenAt, synced, pc, tries, dmap, idx, events, pos, start,
                   result>>

Init ==
    /\ head = 0
    /\ log = <<>>
    /\ lenAt = [v \in Versions |-> 0]
    /\ synced = 0
    /\ known = Unknown
    /\ pc = "idle"
    /\ tries = 0
    /\ dmap = EmptyMap
    /\ idx = 0
    /\ events = <<>>
    /\ pos = 0
    /\ start = -1
    /\ result = "none"

\* The call has returned or raised: nothing is left to do.
Returned ==
    /\ pc = "done"
    /\ UNCHANGED vars

Next ==
    \/ Call \/ GetTcAccount \/ GetEvents \/ ReplayEvent \/ EndPage
    \/ Commit \/ Sync \/ \E v \in 0 .. synced : OtherThreadUpdate(v)
    \/ Returned

\* Every HTTP call ends (session timeouts) and the thread keeps running;
\* when to call, the ledger and the other threads are not controlled.
Spec ==
    /\ Init /\ [][Next]_vars
    /\ WF_vars(GetTcAccount) /\ WF_vars(GetEvents)
    /\ WF_vars(ReplayEvent) /\ WF_vars(EndPage)
-----------------------------------------------------------------------------
(***************************************************************************)
(* Properties.                                                             *)
(***************************************************************************)

\* get_vasp_domain_map never raises KeyError, and the dict it returns is
\* the domain map of the event stream at one ledger version, no older than
\* the version the Client knew when it was called and no newer than the
\* one it knows now: the pages, read at different versions while the
\* stream grows, fit together, and a stale replica cannot cut the stream
\* short. Breaks if the loop stops on a full page or if the get calls
\* accept stale responses.
DomainMapConsistent ==
    pc = "done" =>
        /\ result # "KeyError"
        /\ result = "ok" =>
              \E v \in Versions :
                 /\ start <= v /\ v <= known.version
                 /\ dmap = RefMap(SubSeq(log, 1, lenAt[v]))

\* A started get_vasp_domain_map returns or raises: every page either ends
\* the loop or moves event_index forward through a finite stream.
DomainMapReturns == (pc = "account") ~> (pc = "done")
=============================================================================
