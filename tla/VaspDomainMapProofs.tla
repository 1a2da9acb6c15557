------------------------- MODULE VaspDomainMapProofs -------------------------
(***************************************************************************)
(* Proof of DomainMapConsistent: get_vasp_domain_map never raises KeyError *)
(* and returns the domain map of the event stream at one ledger version    *)
(* between the versions the Client knew at the call and knows at the      *)
(* return, for every batch size, every retry bound and any number of       *)
(* domains, addresses and versions.                                        *)
(***************************************************************************)
EXTENDS VaspDomainMap, SequenceTheorems, TLAPS

\* The ledger states the tracker can hold: all servers are on one chain.
KnownStates == LedgerStates({Chain}, Versions, {Stamp(v) : v \in Versions})

\* The values the variables take.
DomainTypeOK ==
    /\ head \in Versions
    /\ log \in Seq(Events)
    /\ lenAt \in [Versions -> Nat]
    /\ synced \in 0 .. head
    /\ known \in KnownStates
    /\ known.version <= synced
    /\ pc \in {"idle", "account", "events", "replay", "done"}
    /\ tries \in Nat
    /\ idx \in Nat
    /\ events \in Seq(Events)
    /\ pos \in Nat
    /\ start \in Versions \cup {-1}
    /\ result \in Results

\* The ledger's event stream: lenAt[v] is its length at version v, which
\* grows with v up to its length now, and every event is one the treasury
\* account could emit after the events before it.
LogOK ==
    /\ lenAt[head] = Len(log)
    /\ \A v, u \in 0 .. head : v <= u => lenAt[v] <= lenAt[u]
    /\ \A i \in 1 .. Len(log) : log[i] \in Emittable(SubSeq(log, 1, i - 1))

\* A version at which the stream had n events, between the version known
\* at the call and the one known now.
ReadAt(n) ==
    \E v \in Versions : start <= v /\ v <= known.version /\ lenAt[v] = n

\* The inductive invariant behind DomainMapConsistent. Between pages the
\* dict is the map of the first event_index events, all of them in the
\* ledger at the known version; during the for loop, the page is the next
\* slice of the stream, the dict the map of the events replayed so far,
\* and a short page ends exactly at the stream's length at some version
\* in range.
DomainInv ==
    /\ DomainTypeOK
    /\ LogOK
    /\ pc \in {"idle", "account"} => idx = 0 /\ dmap = EmptyMap
    /\ pc # "idle" => start <= known.version
    /\ pc \in {"events", "replay"} => known.version \in Versions
    /\ pc = "events" =>
         /\ idx <= lenAt[known.version]
         /\ dmap = RefMap(SubSeq(log, 1, idx))
    /\ pc = "replay" =>
         /\ dmap = RefMap(SubSeq(log, 1, idx + pos))
         /\ pos <= Len(events)
         /\ Len(events) <= BatchSize
         /\ idx + Len(events) <= lenAt[known.version]
         /\ \A i \in 1 .. Len(events) : events[i] = log[idx + i]
         /\ Len(events) < BatchSize => ReadAt(idx + Len(events))
    /\ pc = "done" =>
         /\ result # "KeyError"
         /\ result = "ok" => \E v \in Versions :
               /\ start <= v /\ v <= known.version
               /\ dmap = RefMap(SubSeq(log, 1, lenAt[v]))
-----------------------------------------------------------------------------
(***************************************************************************)
(* Lemmas about prefixes of the stream and the reference map.             *)
(***************************************************************************)

\* The prefix of k + 1 events is the prefix of k events and event k + 1.
LEMMA PrefixAppend ==
    ASSUME NEW s \in Seq(Events), NEW k \in 0 .. Len(s) - 1
    PROVE  SubSeq(s, 1, k + 1) = Append(SubSeq(s, 1, k), s[k + 1])
<1>1. /\ SubSeq(s, 1, k) \in Seq(Events)
      /\ Len(SubSeq(s, 1, k)) = k
      /\ \A i \in 1 .. k : SubSeq(s, 1, k)[i] = s[i]
  BY SubSeqProperties
<1>2. /\ SubSeq(s, 1, k + 1) \in Seq(Events)
      /\ Len(SubSeq(s, 1, k + 1)) = k + 1
      /\ \A i \in 1 .. k + 1 : SubSeq(s, 1, k + 1)[i] = s[i]
  BY SubSeqProperties
<1>3. s[k + 1] \in Events
  OBVIOUS
<1>. QED  BY <1>1, <1>2, <1>3, AppendProperties, SeqEqual

\* A prefix of a prefix is a prefix.
LEMMA PrefixOfLonger ==
    ASSUME NEW s \in Seq(Events), NEW t \in Seq(Events), NEW k \in 0 .. Len(s),
           Len(s) <= Len(t), \A i \in 1 .. Len(s) : t[i] = s[i]
    PROVE  SubSeq(t, 1, k) = SubSeq(s, 1, k)
<1>1. /\ SubSeq(s, 1, k) \in Seq(Events)
      /\ Len(SubSeq(s, 1, k)) = k
      /\ \A i \in 1 .. k : SubSeq(s, 1, k)[i] = s[i]
  BY SubSeqProperties
<1>2. /\ SubSeq(t, 1, k) \in Seq(Events)
      /\ Len(SubSeq(t, 1, k)) = k
      /\ \A i \in 1 .. k : SubSeq(t, 1, k)[i] = t[i]
  BY SubSeqProperties
<1>. QED  BY <1>1, <1>2, SeqEqual

\* At most one event of a stream is the last one about a domain.
LEMMA LastAddUnique ==
    ASSUME NEW q, NEW d, NEW i \in DOMAIN q, NEW j \in DOMAIN q,
           DOMAIN q \subseteq Int, LastAdd(q, d, i), LastAdd(q, d, j)
    PROVE  i = j
BY DEF LastAdd

\* Replaying one more event updates the reference map the way the loop
\* body updates the dict: a removal deletes the domain, an addition sets it.
LEMMA RefMapAppend ==
    ASSUME NEW s \in Seq(Events), NEW e \in Events
    PROVE  RefMap(Append(s, e)) =
              IF e.removed THEN DelDomain(RefMap(s), e.domain)
                           ELSE SetDomain(RefMap(s), e.domain, e.address)
<1> DEFINE t == Append(s, e)
           n == Len(s)
           Live(q) == {d \in Domains : \E i \in DOMAIN q : LastAdd(q, d, i)}
           At(q, d) == CHOOSE i \in DOMAIN q : LastAdd(q, d, i)
<1>1. /\ t \in Seq(Events)
      /\ Len(t) = n + 1
      /\ \A i \in 1 .. n : t[i] = s[i]
      /\ t[n + 1] = e
  BY AppendProperties DEF t, n
<1>2. DOMAIN t = 1 .. n + 1 /\ DOMAIN s = 1 .. n /\ n \in Nat
  BY <1>1 DEF t, n
<1>3. ASSUME NEW d \in Domains, NEW i \in DOMAIN t, d # e.domain
      PROVE  LastAdd(t, d, i) <=> i \in DOMAIN s /\ LastAdd(s, d, i)
  <2>1. CASE i = n + 1
    <3>1. t[i].domain # d
      BY <1>3, <2>1, <1>1 DEF t, n
    <3>2. i \notin DOMAIN s
      BY <1>3, <2>1, <1>2 DEF t, n
    <3>. QED  BY <1>3, <3>1, <3>2 DEF LastAdd
  <2>2. CASE i \in 1 .. n
    <3>1. t[i] = s[i]
      BY <1>3, <2>2, <1>1 DEF t, n
    <3>2. (\A j \in DOMAIN t : j > i => t[j].domain # d)
          <=> (\A j \in DOMAIN s : j > i => s[j].domain # d)
      BY <1>3, <2>2, <1>1, <1>2 DEF t, n
    <3>. QED  BY <1>3, <2>2, <3>1, <3>2, <1>2 DEF LastAdd
  <2>. QED  BY <1>3, <2>1, <2>2, <1>2
<1>4. ASSUME NEW i \in DOMAIN t
      PROVE  LastAdd(t, e.domain, i) <=> i = n + 1 /\ ~e.removed
  BY <1>4, <1>1, <1>2 DEF LastAdd, t, n
<1>5. ASSUME NEW d \in Domains, d # e.domain
      PROVE  d \in Live(t) <=> d \in Live(s)
  BY <1>5, <1>2, <1>3 DEF Live, t, n
<1>6. ASSUME NEW d \in Live(s), d # e.domain
      PROVE  At(t, d) = At(s, d) /\ t[At(t, d)] = s[At(s, d)]
  <2>1. At(s, d) \in DOMAIN s /\ LastAdd(s, d, At(s, d))
    BY <1>6 DEF Live, At, t, n
  <2>2. At(t, d) \in DOMAIN t /\ LastAdd(t, d, At(t, d))
    BY <1>6, <2>1, <1>2, <1>3 DEF At, Live, t, n
  <2>3. At(t, d) \in DOMAIN s /\ LastAdd(s, d, At(t, d))
    BY <1>6, <2>2, <1>3 DEF Live, t, n
  <2>4. At(t, d) = At(s, d)
    BY <2>1, <2>3, <1>2, LastAddUnique DEF t, n
  <2>. QED  BY <1>6, <2>1, <2>4, <1>1, <1>2 DEF t, n
<1>7. e.domain \in Domains
  BY DEF Events
<1>8. /\ RefMap(t) = [d \in Live(t) |-> t[At(t, d)].address]
      /\ RefMap(s) = [d \in Live(s) |-> s[At(s, d)].address]
  BY DEF RefMap, Live, At, t, n
<1>9. CASE e.removed
  <2>1. Live(t) = Live(s) \ {e.domain}
    BY <1>4, <1>5, <1>7, <1>9 DEF Live, t, n
  <2>2. \A d \in Live(t) : t[At(t, d)].address = RefMap(s)[d]
    BY <2>1, <1>6, <1>8 DEF t, n
  <2>. QED  BY <2>1, <2>2, <1>8, <1>9 DEF DelDomain, t, n
<1>10. CASE ~e.removed
  <2>1. Live(t) = Live(s) \cup {e.domain}
    BY <1>4, <1>5, <1>7, <1>10, <1>2 DEF Live, t, n
  <2>2. At(t, e.domain) = n + 1
    BY <1>4, <1>10, <1>2 DEF At, t, n
  <2>3. \A d \in Live(t) :
           t[At(t, d)].address = IF d = e.domain THEN e.address ELSE RefMap(s)[d]
    <3>1. t[At(t, e.domain)].address = e.address
      BY <2>2, <1>1 DEF t, n
    <3>2. ASSUME NEW d \in Live(s), d # e.domain
          PROVE  t[At(t, d)].address = RefMap(s)[d]
      BY <3>2, <1>6, <1>8 DEF t, n
    <3>. QED  BY <3>1, <3>2, <2>1
  <2>. QED  BY <2>1, <2>3, <1>8, <1>10 DEF SetDomain, t, n
<1>. QED  BY <1>9, <1>10 DEF t, n

\* Replaying event k + 1 of a stream whose events are all emittable: a
\* removal finds its domain in the map of the first k events, and the
\* loop body turns that map into the map of the first k + 1.
LEMMA PrefixStep ==
    ASSUME NEW s \in Seq(Events), NEW k \in 0 .. Len(s) - 1,
           s[k + 1] \in Emittable(SubSeq(s, 1, k))
    PROVE  LET e == s[k + 1]
               m == RefMap(SubSeq(s, 1, k))
           IN  /\ e.removed => e.domain \in DOMAIN m
               /\ RefMap(SubSeq(s, 1, k + 1)) =
                     IF e.removed THEN DelDomain(m, e.domain)
                                  ELSE SetDomain(m, e.domain, e.address)
<1>1. SubSeq(s, 1, k) \in Seq(Events)
  BY SubSeqProperties
<1>2. s[k + 1] \in Events
  OBVIOUS
<1>. QED  BY <1>1, <1>2, PrefixAppend, RefMapAppend DEF Emittable

\* The map of the empty stream is the empty dict.
LEMMA RefMapEmpty ==
    ASSUME NEW s \in Seq(Events)
    PROVE  RefMap(SubSeq(s, 1, 0)) = EmptyMap
<1>1. SubSeq(s, 1, 0) = << >>
  BY SubSeqEmpty
<1>. QED  BY <1>1 DEF RefMap, EmptyMap
-----------------------------------------------------------------------------
(***************************************************************************)
(* update_last_known_state on one chain.                                   *)
(***************************************************************************)

\* A response at version w leaves a state the tracker can hold, never
\* lowers the version, and, when accepted, was at least as new as the
\* state and becomes it.
LEMMA UpdatedFacts ==
    ASSUME known \in KnownStates, NEW w \in Versions
    PROVE  LET u == Updated(known, Chain, w, Stamp(w))
           IN  /\ u \in KnownStates
               /\ u.version \in {known.version, w}
               /\ u.version >= known.version
               /\ Accepted(Response(w)) => known.version <= w /\ u.version = w
<1>1. /\ known.version \in Versions \cup {-1}
      /\ known.timestamp_usecs \in Int
      /\ known.chain_id \in {Chain, -1}
  BY DomainMapAssumption DEF KnownStates, LedgerStates, Unknown, Versions, Stamp
<1>2. w \in Int /\ Stamp(w) \in Int
  BY DEF Versions, Stamp
<1>3. [chain_id |-> Chain, version |-> w, timestamp_usecs |-> Stamp(w)] \in KnownStates
  BY DEF KnownStates, LedgerStates
<1>4. UpdateResult(known, Chain, w, Stamp(w)) = "ok" => known.version <= w
  BY <1>1, <1>2 DEF UpdateResult, Versions
<1>5. Updated(known, Chain, w, Stamp(w)) =
        IF UpdateResult(known, Chain, w, Stamp(w)) = "ok"
        THEN [chain_id |-> Chain, version |-> w, timestamp_usecs |-> Stamp(w)]
        ELSE known
  BY DEF Updated
<1>6. Accepted(Response(w)) <=> UpdateResult(known, Chain, w, Stamp(w)) = "ok"
  BY DEF Accepted, Response
<1>7. known.version \in Int
  BY <1>1 DEF Versions
<1>8. CASE UpdateResult(known, Chain, w, Stamp(w)) = "ok"
  BY <1>3, <1>4, <1>5, <1>6, <1>7, <1>2, <1>8
<1>9. CASE UpdateResult(known, Chain, w, Stamp(w)) # "ok"
  BY <1>5, <1>6, <1>7, <1>9
<1>. QED  BY <1>8, <1>9

-----------------------------------------------------------------------------
(***************************************************************************)
(* One lemma per action.                                                   *)
(***************************************************************************)

LEMMA InitDomainInv == Init => DomainInv
<1> SUFFICES ASSUME Init PROVE DomainInv
  OBVIOUS
<1>1. 0 \in Versions /\ Unknown \in KnownStates
  BY DomainMapAssumption DEF Versions, KnownStates, LedgerStates
<1>. QED  BY <1>1 DEF Init, DomainInv, DomainTypeOK, LogOK, Unknown, Results

\* A step that only moves the known version forward, within what the
\* server has synced, and perhaps counts a retry, keeps the invariant.
LEMMA KnownGrowsDomainInv ==
    ASSUME DomainInv, known' \in KnownStates, tries' \in Nat,
           known'.version >= known.version, known'.version <= synced,
           UNCHANGED <<head, log, lenAt, synced, pc, dmap, idx, events, pos,
                       start, result>>
    PROVE  DomainInv'
<1>1. known.version \in Int /\ known'.version \in Versions \cup {-1}
  BY DEF DomainInv, DomainTypeOK, KnownStates, LedgerStates, Unknown, Versions
<1>2. DomainTypeOK'
  BY <1>1 DEF DomainInv, DomainTypeOK, Versions
<1>3. pc \in {"events", "replay"} =>
         /\ known'.version \in Versions
         /\ lenAt[known.version] <= lenAt[known'.version]
  BY <1>1 DEF DomainInv, DomainTypeOK, LogOK, Versions
<1>4. ASSUME NEW k, ReadAt(k) PROVE ReadAt(k)'
  BY <1>1, <1>4 DEF ReadAt, DomainInv, DomainTypeOK, Versions
<1>5. LogOK'
  BY DEF DomainInv, LogOK
<1>6. (pc # "idle" => start <= known.version)'
  BY <1>1 DEF DomainInv, DomainTypeOK, Versions
<1>7. (pc = "events" => idx <= lenAt[known.version] /\ dmap = RefMap(SubSeq(log, 1, idx)))'
  BY <1>1, <1>3 DEF DomainInv, DomainTypeOK, Versions
<1>8. (pc = "replay" =>
         /\ dmap = RefMap(SubSeq(log, 1, idx + pos))
         /\ pos <= Len(events)
         /\ Len(events) <= BatchSize
         /\ idx + Len(events) <= lenAt[known.version]
         /\ \A i \in 1 .. Len(events) : events[i] = log[idx + i]
         /\ Len(events) < BatchSize => ReadAt(idx + Len(events)))'
  <2>1. SUFFICES ASSUME pc = "replay" PROVE
         (/\ dmap = RefMap(SubSeq(log, 1, idx + pos))
          /\ pos <= Len(events)
          /\ Len(events) <= BatchSize
          /\ idx + Len(events) <= lenAt[known.version]
          /\ \A i \in 1 .. Len(events) : events[i] = log[idx + i]
          /\ Len(events) < BatchSize => ReadAt(idx + Len(events)))'
    OBVIOUS
  <2>2. idx + Len(events) <= lenAt[known'.version]
    BY <2>1, <1>1, <1>3 DEF DomainInv, DomainTypeOK, Versions
  <2>. QED  BY <2>1, <2>2, <1>4 DEF DomainInv
<1>9. (pc = "done" =>
         /\ result # "KeyError"
         /\ result = "ok" => \E v \in Versions :
               /\ start <= v /\ v <= known.version
               /\ dmap = RefMap(SubSeq(log, 1, lenAt[v])))'
  BY <1>1 DEF DomainInv, DomainTypeOK, Versions
<1>. QED  BY <1>2, <1>3, <1>5, <1>6, <1>7, <1>8, <1>9 DEF DomainInv

\* A step that ends the call with an exception other than KeyError keeps
\* the invariant.
LEMMA RaiseDomainInv ==
    ASSUME DomainInv, pc # "idle", known' \in KnownStates,
           known'.version >= known.version, known'.version <= synced,
           pc' = "done", result' \in Results \ {"ok", "KeyError"},
           tries' \in Nat, idx' \in Nat, events' \in Seq(Events), pos' \in Nat,
           UNCHANGED <<head, log, lenAt, synced, start>>
    PROVE  DomainInv'
<1>1. known.version \in Int /\ known'.version \in Versions \cup {-1}
  BY DEF DomainInv, DomainTypeOK, KnownStates, LedgerStates, Unknown, Versions
<1>. QED  BY <1>1 DEF DomainInv, DomainTypeOK, LogOK, Versions

\* Each length the ledger has had is at most its length now.
LEMMA LenAtBound ==
    ASSUME DomainInv, NEW v \in 0 .. head
    PROVE  lenAt[v] <= Len(log) /\ lenAt[v] \in Nat
<1>1. lenAt[head] = Len(log) /\ \A x, u \in 0 .. head : x <= u => lenAt[x] <= lenAt[u]
  BY DEF DomainInv, LogOK
<1>2. head \in Versions /\ lenAt \in [Versions -> Nat]
  BY DEF DomainInv, DomainTypeOK
<1>3. head \in 0 .. head /\ v \in Versions
  BY <1>2, DomainMapAssumption DEF Versions
<1>. QED  BY <1>1, <1>2, <1>3

\* The ledger commits a version: the stream only grows, by an emittable
\* event, and the lengths at the versions before stay as they were.
LEMMA CommitDomainInv ==
    ASSUME DomainInv, Commit
    PROVE  DomainInv'
<1>0. MaxVersion \in Nat /\ BatchSize \in Nat
  BY DomainMapAssumption
<1>1. PICK s \in {log} \cup {Append(log, e) : e \in Emittable(log)} :
         /\ log' = s
         /\ lenAt' = [lenAt EXCEPT ![head + 1] = Len(s)]
  BY DEF Commit
<1>2. /\ log \in Seq(Events)
      /\ head \in Versions /\ head + 1 \in Versions
      /\ lenAt \in [Versions -> Nat]
      /\ synced \in 0 .. head
  <2>1. head < MaxVersion
    BY DEF Commit
  <2>. QED  BY <1>0, <2>1 DEF DomainInv, DomainTypeOK, Versions
<1>3. /\ log' \in Seq(Events)
      /\ Len(log) <= Len(log')
      /\ \A i \in 1 .. Len(log) : log'[i] = log[i]
      /\ \A i \in 1 .. Len(log') : i > Len(log) =>
            i = Len(log) + 1 /\ log'[i] \in Emittable(log)
  <2>1. CASE s = log
    BY <1>1, <1>2, <2>1
  <2>2. CASE s # log
    <3>1. PICK e \in Emittable(log) : s = Append(log, e)
      BY <1>1, <2>2
    <3>2. e \in Events
      BY <3>1 DEF Emittable
    <3>. QED  BY <1>1, <1>2, <3>1, <3>2, AppendProperties
  <2>. QED  BY <2>1, <2>2
<1>4. \A k \in 0 .. Len(log) : SubSeq(log', 1, k) = SubSeq(log, 1, k)
  BY <1>2, <1>3, PrefixOfLonger
<1>5. /\ lenAt' \in [Versions -> Nat]
      /\ \A v \in 0 .. head : lenAt'[v] = lenAt[v]
      /\ lenAt'[head + 1] = Len(log')
  BY <1>0, <1>1, <1>2, <1>3 DEF Versions
<1>6. \A v \in 0 .. head : lenAt[v] <= Len(log) /\ lenAt[v] \in Nat
  BY LenAtBound
<1>7. /\ UNCHANGED <<synced, known, pc, tries, dmap, idx, events, pos, start, result>>
      /\ head' = head + 1
  BY DEF Commit
<1>8. /\ lenAt[head] = Len(log)
      /\ \A v, u \in 0 .. head : v <= u => lenAt[v] <= lenAt[u]
      /\ \A i \in 1 .. Len(log) : log[i] \in Emittable(SubSeq(log, 1, i - 1))
  BY DEF DomainInv, LogOK
<1>9. LogOK'
  <2>1. lenAt'[head'] = Len(log')
    BY <1>5, <1>7
  <2>2. ASSUME NEW v \in 0 .. head', NEW u \in 0 .. head', v <= u
        PROVE  lenAt'[v] <= lenAt'[u]
    <3>1. CASE u <= head
      <4>1. v \in 0 .. head /\ u \in 0 .. head
        BY <2>2, <3>1, <1>2, <1>7 DEF Versions
      <4>2. lenAt'[v] = lenAt[v] /\ lenAt'[u] = lenAt[u]
        BY <4>1, <1>5
      <4>3. lenAt[v] <= lenAt[u]
        BY <2>2, <4>1, <1>8
      <4>. QED  BY <4>2, <4>3
    <3>2. CASE u = head + 1
      <4>1. v <= head => lenAt'[v] <= Len(log)
        BY <1>5, <1>6, <1>2 DEF Versions
      <4>2. lenAt'[u] = Len(log') /\ Len(log) <= Len(log') /\ Len(log) \in Nat
        BY <3>2, <1>5, <1>3, <1>2
      <4>3. v = head + 1 \/ v <= head
        BY <2>2, <1>7, <1>2 DEF Versions
      <4>4. CASE v = head + 1
        BY <4>4, <3>2, <4>2, <1>3
      <4>5. CASE v <= head
        <5>1. lenAt'[v] <= Len(log)
          BY <4>1, <4>5
        <5>2. lenAt'[v] \in Int
          BY <2>2, <4>5, <1>5, <1>6, <1>2 DEF Versions
        <5>. QED  BY <5>1, <5>2, <4>2
      <4>. QED  BY <4>3, <4>4, <4>5
    <3>. QED  BY <2>2, <3>1, <3>2, <1>7, <1>2 DEF Versions
  <2>3. ASSUME NEW i \in 1 .. Len(log')
        PROVE  log'[i] \in Emittable(SubSeq(log', 1, i - 1))
    <3>1. CASE i <= Len(log)
      <4>1. SubSeq(log', 1, i - 1) = SubSeq(log, 1, i - 1)
        BY <2>3, <3>1, <1>4, <1>2
      <4>2. log'[i] = log[i]
        BY <2>3, <3>1, <1>3, <1>2
      <4>3. log[i] \in Emittable(SubSeq(log, 1, i - 1))
        BY <2>3, <3>1, <1>8, <1>2
      <4>. QED  BY <4>1, <4>2, <4>3
    <3>2. CASE i > Len(log)
      <4>1. SubSeq(log', 1, Len(log)) = log
        BY <1>2, <1>4, SubSeqFull
      <4>2. i = Len(log) + 1 /\ log'[i] \in Emittable(log)
        BY <2>3, <3>2, <1>3, <1>2
      <4>3. i - 1 = Len(log)
        BY <4>2, <1>2
      <4>. QED  BY <4>1, <4>2, <4>3
    <3>. QED  BY <3>1, <3>2, <1>2
  <2>. QED  BY <2>1, <2>2, <2>3 DEF LogOK
<1>10. known.version \in Versions \cup {-1} /\ known.version <= synced
  BY DEF DomainInv, DomainTypeOK, KnownStates, LedgerStates, Unknown
<1>11. known.version \in Versions => known.version \in 0 .. head
  BY <1>10, <1>2, <1>0 DEF Versions
<1>12. ASSUME NEW k, ReadAt(k) PROVE ReadAt(k)'
  <2>1. PICK v \in Versions : start <= v /\ v <= known.version /\ lenAt[v] = k
    BY <1>12 DEF ReadAt
  <2>2. v \in 0 .. head
    BY <2>1, <1>10, <1>2, <1>0 DEF Versions
  <2>. QED  BY <2>1, <2>2, <1>5, <1>7 DEF ReadAt
<1>13. DomainTypeOK'
  BY <1>0, <1>2, <1>3, <1>5, <1>7 DEF DomainInv, DomainTypeOK, Versions
<1>14. (pc = "events" => idx <= lenAt[known.version] /\ dmap = RefMap(SubSeq(log, 1, idx)))'
  <2>1. SUFFICES ASSUME pc = "events"
                 PROVE  idx <= lenAt'[known.version] /\ dmap = RefMap(SubSeq(log', 1, idx))
    BY <1>7
  <2>2. /\ known.version \in Versions
        /\ idx <= lenAt[known.version] /\ dmap = RefMap(SubSeq(log, 1, idx))
        /\ idx \in Nat
    BY <2>1 DEF DomainInv, DomainTypeOK
  <2>3. known.version \in 0 .. head
    BY <2>2, <1>11
  <2>4. idx \in 0 .. Len(log)
    BY <2>2, <2>3, <1>6
  <2>. QED  BY <2>2, <2>3, <2>4, <1>4, <1>5
<1>15. (pc = "replay" =>
         /\ dmap = RefMap(SubSeq(log, 1, idx + pos))
         /\ pos <= Len(events)
         /\ Len(events) <= BatchSize
         /\ idx + Len(events) <= lenAt[known.version]
         /\ \A i \in 1 .. Len(events) : events[i] = log[idx + i]
         /\ Len(events) < BatchSize => ReadAt(idx + Len(events)))'
  <2>1. SUFFICES ASSUME pc = "replay" PROVE
         (/\ dmap = RefMap(SubSeq(log, 1, idx + pos))
          /\ pos <= Len(events)
          /\ Len(events) <= BatchSize
          /\ idx + Len(events) <= lenAt[known.version]
          /\ \A i \in 1 .. Len(events) : events[i] = log[idx + i]
          /\ Len(events) < BatchSize => ReadAt(idx + Len(events)))'
    BY <1>7
  <2>2. /\ known.version \in Versions
        /\ dmap = RefMap(SubSeq(log, 1, idx + pos))
        /\ pos <= Len(events)
        /\ Len(events) <= BatchSize
        /\ idx + Len(events) <= lenAt[known.version]
        /\ \A i \in 1 .. Len(events) : events[i] = log[idx + i]
        /\ Len(events) < BatchSize => ReadAt(idx + Len(events))
        /\ idx \in Nat /\ pos \in Nat /\ events \in Seq(Events)
    BY <2>1 DEF DomainInv, DomainTypeOK
  <2>3. known.version \in 0 .. head
    BY <2>2, <1>11
  <2>4. /\ idx + pos \in 0 .. Len(log)
        /\ \A i \in 1 .. Len(events) : idx + i \in 1 .. Len(log)
    BY <2>2, <2>3, <1>6
  <2>5. SubSeq(log', 1, idx + pos) = SubSeq(log, 1, idx + pos)
    BY <2>4, <1>4
  <2>6. \A i \in 1 .. Len(events) : log'[idx + i] = log[idx + i]
    BY <2>4, <1>3
  <2>7. lenAt'[known.version] = lenAt[known.version]
    BY <2>3, <1>5
  <2>8. (Len(events) < BatchSize => ReadAt(idx + Len(events)))'
    <3>1. SUFFICES ASSUME Len(events) < BatchSize
                   PROVE  ReadAt(idx + Len(events))'
      BY <1>7
    <3>2. ReadAt(idx + Len(events))
      BY <3>1, <2>2
    <3>. QED  BY <3>2, <1>12, <1>7
  <2>. QED  BY <2>2, <2>5, <2>6, <2>7, <2>8, <1>7
<1>16. (pc = "done" =>
         /\ result # "KeyError"
         /\ result = "ok" => \E v \in Versions :
               /\ start <= v /\ v <= known.version
               /\ dmap = RefMap(SubSeq(log, 1, lenAt[v])))'
  <2>1. SUFFICES ASSUME pc = "done", result = "ok"
                 PROVE  \E v \in Versions :
                           /\ start <= v /\ v <= known.version
                           /\ dmap = RefMap(SubSeq(log', 1, lenAt'[v]))
    BY <1>7 DEF DomainInv
  <2>2. PICK v \in Versions : /\ start <= v /\ v <= known.version
                              /\ dmap = RefMap(SubSeq(log, 1, lenAt[v]))
    BY <2>1 DEF DomainInv
  <2>3. v \in 0 .. head
    BY <2>2, <1>10, <1>2, <1>0 DEF Versions
  <2>4. lenAt[v] \in 0 .. Len(log)
    BY <2>3, <1>6
  <2>. QED  BY <2>2, <2>3, <2>4, <1>4, <1>5
<1>. QED  BY <1>7, <1>9, <1>13, <1>14, <1>15, <1>16 DEF DomainInv

\* The server's replica syncs one more version.
LEMMA SyncDomainInv ==
    ASSUME DomainInv, Sync
    PROVE  DomainInv'
<1>1. DomainTypeOK'
  <2>1. known.version \in Int /\ synced \in Int
    BY DEF DomainInv, DomainTypeOK, KnownStates, LedgerStates, Unknown, Versions
  <2>2. /\ synced < head /\ synced' = synced + 1 /\ synced \in 0 .. head
         /\ known.version <= synced /\ head \in Int
    BY DEF DomainInv, DomainTypeOK, Sync, Versions
  <2>3. synced' \in 0 .. head' /\ known'.version <= synced'
    BY <2>1, <2>2 DEF Sync
  <2>. QED  BY <2>3 DEF DomainInv, DomainTypeOK, Sync
<1>2. UNCHANGED <<head, log, lenAt, known, pc, tries, dmap, idx, events, pos, start,
                  result>>
  BY DEF Sync
<1>3. LogOK' = LogOK /\ \A k : ReadAt(k)' = ReadAt(k)
  BY <1>2 DEF LogOK, ReadAt
<1>. QED  BY <1>1, <1>2, <1>3 DEF DomainInv

\* Another thread's get call moves the shared state forward.
LEMMA OtherThreadDomainInv ==
    ASSUME DomainInv, NEW v \in 0 .. synced, OtherThreadUpdate(v)
    PROVE  DomainInv'
<1>1. known \in KnownStates /\ tries \in Nat /\ synced \in 0 .. head /\ head \in Versions
  BY DEF DomainInv, DomainTypeOK
<1>2. v \in Versions /\ v <= synced
  BY <1>1, DomainMapAssumption DEF Versions
<1>3. known' = Updated(known, Chain, v, Stamp(v))
  BY DEF OtherThreadUpdate
<1>4. /\ known' \in KnownStates
      /\ known'.version \in {known.version, v}
      /\ known'.version >= known.version
  BY <1>1, <1>2, <1>3, UpdatedFacts
<1>5. known.version <= synced
  BY DEF DomainInv, DomainTypeOK
<1>. QED  BY <1>1, <1>2, <1>4, <1>5, KnownGrowsDomainInv DEF OtherThreadUpdate

\* The HTTP call of a try is lost: NetworkError ends the call.
LEMMA LostDomainInv ==
    ASSUME DomainInv, pc # "idle", Lost, UNCHANGED <<head, log, lenAt, synced, start>>
    PROVE  DomainInv'
<1>1. known \in KnownStates /\ tries \in Nat /\ idx \in Nat /\ events \in Seq(Events)
      /\ pos \in Nat /\ known.version <= synced
  BY DEF DomainInv, DomainTypeOK
<1>2. "NetworkError" \in Results \ {"ok", "KeyError"}
  BY DEF Results
<1>3. known.version \in Int
  BY <1>1 DEF KnownStates, LedgerStates, Unknown, Versions
<1>4. /\ pc' = "done" /\ result' = "NetworkError"
      /\ UNCHANGED <<known, tries, dmap, idx, events, pos>>
  BY DEF Lost
<1>5. /\ known' \in KnownStates /\ known'.version >= known.version
      /\ known'.version <= synced
      /\ tries' \in Nat /\ idx' \in Nat /\ events' \in Seq(Events) /\ pos' \in Nat
  BY <1>1, <1>3, <1>4
<1>. QED  BY <1>2, <1>4, <1>5, RaiseDomainInv

\* A response at version w that update_last_known_state rejected as stale:
\* Retry tries again or re-raises.
LEMMA RejectedDomainInv ==
    ASSUME DomainInv, pc # "idle", NEW w \in 0 .. synced,
           known' = Updated(known, Chain, w, Stamp(w)),
           Rejected(Response(w)), UNCHANGED <<head, log, lenAt, synced, start>>
    PROVE  DomainInv'
<1>1. known \in KnownStates /\ tries \in Nat /\ idx \in Nat /\ events \in Seq(Events)
      /\ pos \in Nat /\ known.version <= synced /\ synced \in 0 .. head /\ head \in Versions
  BY DEF DomainInv, DomainTypeOK
<1>2. w \in Versions
  BY <1>1, DomainMapAssumption DEF Versions
<1>3. /\ known' \in KnownStates
      /\ known'.version \in {known.version, w}
      /\ known'.version >= known.version
  BY <1>1, <1>2, UpdatedFacts
<1>4. known'.version <= synced
  BY <1>1, <1>3
<1>5. CASE Response(w) = "stale" /\ tries + 1 < MaxRetries
  <2>1. tries' = tries + 1 /\ UNCHANGED <<pc, dmap, idx, events, pos, result>>
    BY <1>5 DEF Rejected
  <2>. QED  BY <1>1, <1>3, <1>4, <2>1, KnownGrowsDomainInv
<1>6. CASE ~(Response(w) = "stale" /\ tries + 1 < MaxRetries)
  <2>1. pc' = "done" /\ result' = "StaleResponseError" /\ UNCHANGED <<tries, dmap, idx, events, pos>>
    BY <1>6 DEF Rejected
  <2>2. "StaleResponseError" \in Results \ {"ok", "KeyError"}
    BY DEF Results
  <2>. QED  BY <1>1, <1>3, <1>4, <2>1, <2>2, RaiseDomainInv
<1>. QED  BY <1>5, <1>6

\* A thread calls get_vasp_domain_map.
LEMMA CallDomainInv ==
    ASSUME DomainInv, Call
    PROVE  DomainInv'
<1>1. known.version \in Versions \cup {-1} /\ known.version \in Int
  BY DEF DomainInv, DomainTypeOK, KnownStates, LedgerStates, Unknown, Versions
<1>2. idx = 0 /\ dmap = EmptyMap
  BY DEF DomainInv, Call
<1>3. DomainTypeOK'
  BY <1>1 DEF DomainInv, DomainTypeOK, Call
<1>4. LogOK'
  BY DEF DomainInv, LogOK, Call
<1>. QED  BY <1>1, <1>2, <1>3, <1>4 DEF DomainInv, Call

\* The events of a stream after the first a, up to event b.
LEMMA Slice ==
    ASSUME NEW s \in Seq(Events), NEW a \in Nat, NEW b \in a .. Len(s)
    PROVE  /\ SubSeq(s, a + 1, b) \in Seq(Events)
           /\ Len(SubSeq(s, a + 1, b)) = b - a
           /\ \A i \in 1 .. b - a : SubSeq(s, a + 1, b)[i] = s[a + i]
<1>1. \A i \in a + 1 .. b : s[i] \in Events
  OBVIOUS
<1>2. /\ SubSeq(s, a + 1, b) \in Seq(Events)
      /\ Len(SubSeq(s, a + 1, b)) = IF a + 1 <= b THEN b - (a + 1) + 1 ELSE 0
      /\ \A i \in 1 .. b - (a + 1) + 1 : SubSeq(s, a + 1, b)[i] = s[(a + 1) + i - 1]
  BY <1>1, SubSeqProperties
<1>. QED  BY <1>2

\* get_events answered at version w, with event_index no further than the
\* stream was at w: the page is the next slice of the stream, at most
\* batch_size long, and a short page ends where the stream ended at w.
LEMMA PageFacts ==
    ASSUME DomainInv, NEW w \in 0 .. head, idx <= lenAt[w]
    PROVE  /\ Page(w) \in Seq(Events)
           /\ Len(Page(w)) <= BatchSize
           /\ idx + Len(Page(w)) <= lenAt[w]
           /\ Len(Page(w)) < BatchSize => idx + Len(Page(w)) = lenAt[w]
           /\ \A i \in 1 .. Len(Page(w)) : Page(w)[i] = log[idx + i]
<1> DEFINE hi == IF idx + BatchSize < lenAt[w] THEN idx + BatchSize ELSE lenAt[w]
<1>1. /\ lenAt[w] <= Len(log) /\ lenAt[w] \in Nat
      /\ idx \in Nat /\ BatchSize \in Nat \ {0}
      /\ log \in Seq(Events)
  BY LenAtBound, DomainMapAssumption DEF DomainInv, DomainTypeOK
<1>2. hi \in idx .. lenAt[w]
  BY <1>1 DEF hi
<1>4. /\ SubSeq(log, idx + 1, hi) \in Seq(Events)
      /\ Len(SubSeq(log, idx + 1, hi)) = hi - idx
      /\ \A i \in 1 .. hi - idx : SubSeq(log, idx + 1, hi)[i] = log[idx + i]
  <2>1. hi \in idx .. Len(log)
    BY <1>1, <1>2
  <2>. QED  BY <1>1, <2>1, Slice
<1>5. Page(w) = SubSeq(log, idx + 1, hi)
  BY DEF Page, hi
<1>6. /\ hi - idx <= BatchSize
      /\ hi - idx < BatchSize => hi = lenAt[w]
      /\ idx + (hi - idx) = hi
  BY <1>1 DEF hi
<1>. QED  BY <1>2, <1>4, <1>5, <1>6

\* must_get_account(TREASURY_ADDRESS): one try of Retry.execute.
LEMMA GetTcAccountDomainInv ==
    ASSUME DomainInv, GetTcAccount
    PROVE  DomainInv'
<1>1. pc = "account" /\ UNCHANGED <<head, log, lenAt, synced, start>>
  BY DEF GetTcAccount
<1>2. CASE Lost
  BY <1>1, <1>2, LostDomainInv
<1>3. ASSUME NEW w \in 0 .. synced,
             known' = Updated(known, Chain, w, Stamp(w)),
             Accepted(Response(w)),
             pc' = "events", tries' = 0, UNCHANGED <<dmap, idx, events, pos, result>>
      PROVE  DomainInv'
  <2>1. /\ known \in KnownStates /\ synced \in 0 .. head /\ head \in Versions
        /\ idx = 0 /\ dmap = EmptyMap /\ start <= known.version
        /\ known.version \in Int /\ start \in Int
    BY <1>1 DEF DomainInv, DomainTypeOK, KnownStates, LedgerStates, Unknown, Versions
  <2>2. w \in Versions /\ w \in 0 .. head
    BY <2>1, DomainMapAssumption DEF Versions
  <2>3. known' \in KnownStates /\ known.version <= w /\ known'.version = w
    BY <1>3, <2>1, <2>2, UpdatedFacts
  <2>4. lenAt[w] \in Nat /\ log \in Seq(Events)
    BY <2>2, LenAtBound DEF DomainInv, DomainTypeOK
  <2>5. dmap = RefMap(SubSeq(log, 1, idx))
    BY <2>1, <2>4, RefMapEmpty
  <2>6. DomainTypeOK'
    BY <1>1, <1>3, <2>2, <2>3 DEF DomainInv, DomainTypeOK
  <2>7. LogOK'
    BY <1>1 DEF DomainInv, LogOK
  <2>8. (pc = "events" => idx <= lenAt[known.version] /\ dmap = RefMap(SubSeq(log, 1, idx)))'
    BY <1>1, <1>3, <2>1, <2>3, <2>4, <2>5
  <2>9. (pc # "idle" => start <= known.version)'
    BY <1>1, <2>1, <2>3
  <2>10. (pc \in {"events", "replay"} => known.version \in Versions)'
    BY <2>2, <2>3
  <2>. QED  BY <1>3, <2>6, <2>7, <2>8, <2>9, <2>10 DEF DomainInv
<1>4. ASSUME NEW w \in 0 .. synced,
             known' = Updated(known, Chain, w, Stamp(w)),
             ~Accepted(Response(w)), Rejected(Response(w))
      PROVE  DomainInv'
  BY <1>1, <1>4, RejectedDomainInv
<1>. QED  BY <1>2, <1>3, <1>4 DEF GetTcAccount

\* get_events: one try; an accepted page starts the for loop.
LEMMA GetEventsDomainInv ==
    ASSUME DomainInv, GetEvents
    PROVE  DomainInv'
<1>1. pc = "events" /\ UNCHANGED <<head, log, lenAt, synced, start>>
  BY DEF GetEvents
<1>2. CASE Lost
  BY <1>1, <1>2, LostDomainInv
<1>3. ASSUME NEW w \in 0 .. synced,
             known' = Updated(known, Chain, w, Stamp(w)),
             Accepted(Response(w)),
             events' = Page(w), pos' = 0, pc' = "replay", tries' = 0,
             UNCHANGED <<dmap, idx, result>>
      PROVE  DomainInv'
  <2>0. /\ known \in KnownStates /\ synced \in 0 .. head /\ head \in Versions
        /\ idx \in Nat /\ lenAt \in [Versions -> Nat]
        /\ start \in Versions \cup {-1}
    BY DEF DomainInv, DomainTypeOK
  <2>1. /\ known \in KnownStates /\ synced \in 0 .. head /\ head \in Versions
        /\ known.version \in Versions /\ start <= known.version /\ start \in Int
        /\ idx \in Nat /\ idx <= lenAt[known.version]
        /\ dmap = RefMap(SubSeq(log, 1, idx))
        /\ lenAt \in [Versions -> Nat]
    <3>1. /\ known.version \in Versions /\ start <= known.version
          /\ idx <= lenAt[known.version] /\ dmap = RefMap(SubSeq(log, 1, idx))
      BY <1>1 DEF DomainInv
    <3>. QED  BY <2>0, <3>1 DEF Versions
  <2>2. w \in Versions /\ w \in 0 .. head
    BY <2>1, DomainMapAssumption DEF Versions
  <2>3. known' \in KnownStates /\ known.version <= w /\ known'.version = w
    BY <1>3, <2>1, <2>2, UpdatedFacts
  <2>4. lenAt[known.version] <= lenAt[w]
    <3>1. known.version \in 0 .. head
      BY <2>1, <2>2, <2>3 DEF Versions
    <3>. QED  BY <2>2, <2>3, <3>1 DEF DomainInv, LogOK
  <2>5. idx <= lenAt[w]
    BY <2>1, <2>2, <2>4, DomainMapAssumption DEF Versions
  <2>6. /\ Page(w) \in Seq(Events)
        /\ Len(Page(w)) <= BatchSize
        /\ idx + Len(Page(w)) <= lenAt[w]
        /\ Len(Page(w)) < BatchSize => idx + Len(Page(w)) = lenAt[w]
        /\ \A i \in 1 .. Len(Page(w)) : Page(w)[i] = log[idx + i]
    BY <2>2, <2>5, PageFacts
  <2>7. DomainTypeOK'
    BY <1>1, <1>3, <2>2, <2>3, <2>6 DEF DomainInv, DomainTypeOK
  <2>8. LogOK'
    BY <1>1 DEF DomainInv, LogOK
  <2>9. (Len(events) < BatchSize => ReadAt(idx + Len(events)))'
    <3>1. SUFFICES ASSUME Len(Page(w)) < BatchSize
                   PROVE  \E v \in Versions :
                             start <= v /\ v <= w /\ lenAt[v] = idx + Len(Page(w))
      BY <1>1, <1>3, <2>3 DEF ReadAt
    <3>2. idx + Len(Page(w)) = lenAt[w]
      BY <3>1, <2>6
    <3>3. start <= w /\ w <= w
      BY <2>1, <2>2, <2>3 DEF Versions
    <3>. QED  BY <3>2, <3>3, <2>2
  <2>10. (pc = "replay" =>
           /\ dmap = RefMap(SubSeq(log, 1, idx + pos))
           /\ pos <= Len(events)
           /\ Len(events) <= BatchSize
           /\ idx + Len(events) <= lenAt[known.version]
           /\ \A i \in 1 .. Len(events) : events[i] = log[idx + i]
           /\ Len(events) < BatchSize => ReadAt(idx + Len(events)))'
    <3>1. idx + 0 = idx /\ 0 <= Len(Page(w))
      BY <2>1, <2>6
    <3>. QED  BY <1>1, <1>3, <2>1, <2>3, <2>6, <2>9, <3>1
  <2>11. (pc # "idle" => start <= known.version)'
    BY <1>1, <1>3, <2>1, <2>2, <2>3 DEF Versions
  <2>12. (pc \in {"events", "replay"} => known.version \in Versions)'
    BY <2>2, <2>3
  <2>. QED  BY <1>3, <2>7, <2>8, <2>10, <2>11, <2>12 DEF DomainInv
<1>4. ASSUME NEW w \in 0 .. synced,
             known' = Updated(known, Chain, w, Stamp(w)),
             ~Accepted(Response(w)), Rejected(Response(w))
      PROVE  DomainInv'
  BY <1>1, <1>4, RejectedDomainInv
<1>. QED  BY <1>2, <1>3, <1>4 DEF GetEvents

\* One iteration of the for loop: the event is the next one of the stream,
\* so a removal finds its domain and the dict becomes the map of one more
\* event.
LEMMA ReplayEventDomainInv ==
    ASSUME DomainInv, ReplayEvent
    PROVE  DomainInv'
<1> DEFINE k == idx + pos
           e == events[pos + 1]
<1>1. /\ pc = "replay" /\ pos < Len(events)
      /\ UNCHANGED <<head, log, lenAt, synced, known, tries, idx, events, start>>
  BY DEF ReplayEvent
<1>2. /\ log \in Seq(Events) /\ idx \in Nat /\ pos \in Nat /\ events \in Seq(Events)
      /\ known.version \in Versions /\ head \in Versions /\ synced \in 0 .. head
      /\ known.version <= synced
  BY <1>1 DEF DomainInv, DomainTypeOK
<1>3. /\ dmap = RefMap(SubSeq(log, 1, idx + pos))
      /\ idx + Len(events) <= lenAt[known.version]
      /\ \A i \in 1 .. Len(events) : events[i] = log[idx + i]
  BY <1>1 DEF DomainInv
<1>4. lenAt[known.version] <= Len(log)
  <2>1. known.version \in 0 .. head
    BY <1>2 DEF Versions
  <2>. QED  BY <2>1, LenAtBound
<1>5. k \in 0 .. Len(log) - 1 /\ e = log[k + 1]
  <2>1. lenAt[known.version] \in Nat
    BY <1>2 DEF DomainInv, DomainTypeOK
  <2>2. k \in 0 .. Len(log) - 1
    BY <1>1, <1>2, <1>3, <1>4, <2>1 DEF k
  <2>3. pos + 1 \in 1 .. Len(events)
    BY <1>1, <1>2
  <2>4. events[pos + 1] = log[idx + (pos + 1)]
    BY <2>3, <1>3
  <2>. QED  BY <2>2, <2>4, <1>2 DEF k, e
<1>6. log[k + 1] \in Emittable(SubSeq(log, 1, k))
  <2>1. \A i \in 1 .. Len(log) : log[i] \in Emittable(SubSeq(log, 1, i - 1))
    BY DEF DomainInv, LogOK
  <2>2. k + 1 \in 1 .. Len(log) /\ (k + 1) - 1 = k
    BY <1>5
  <2>. QED  BY <2>1, <2>2
<1>7. /\ e.removed => e.domain \in DOMAIN dmap
      /\ RefMap(SubSeq(log, 1, k + 1)) =
            IF e.removed THEN DelDomain(dmap, e.domain)
                         ELSE SetDomain(dmap, e.domain, e.address)
  BY <1>2, <1>3, <1>5, <1>6, PrefixStep DEF k
<1>8. /\ dmap' = RefMap(SubSeq(log, 1, k + 1))
      /\ pos' = pos + 1
      /\ UNCHANGED <<pc, result>>
  BY <1>7 DEF ReplayEvent, e
<1>9. DomainTypeOK'
  BY <1>1, <1>2, <1>8 DEF DomainInv, DomainTypeOK
<1>10. LogOK'
  BY <1>1 DEF DomainInv, LogOK
<1>11. (pc = "replay" =>
         /\ dmap = RefMap(SubSeq(log, 1, idx + pos))
         /\ pos <= Len(events)
         /\ Len(events) <= BatchSize
         /\ idx + Len(events) <= lenAt[known.version]
         /\ \A i \in 1 .. Len(events) : events[i] = log[idx + i]
         /\ Len(events) < BatchSize => ReadAt(idx + Len(events)))'
  <2>1. /\ Len(events) <= BatchSize
        /\ Len(events) < BatchSize => ReadAt(idx + Len(events))
    BY <1>1 DEF DomainInv
  <2>2. ReadAt(idx + Len(events))' = ReadAt(idx + Len(events))
    BY <1>1 DEF ReadAt
  <2>3. idx + pos' = k + 1 /\ pos' <= Len(events)
    BY <1>1, <1>2, <1>8 DEF k
  <2>. QED  BY <1>1, <1>3, <1>8, <2>1, <2>2, <2>3
<1>12. (pc # "idle" => start <= known.version)'
  BY <1>1, <1>8 DEF DomainInv
<1>13. (pc \in {"events", "replay"} => known.version \in Versions)'
  BY <1>1, <1>2, <1>8
<1>. QED  BY <1>1, <1>8, <1>9, <1>10, <1>11, <1>12, <1>13 DEF DomainInv

\* The for loop has ended: a short page returns the dict, which is the map
\* of the stream at the version the page was read at; a full page moves
\* event_index to the end of the page.
LEMMA EndPageDomainInv ==
    ASSUME DomainInv, EndPage
    PROVE  DomainInv'
<1>1. /\ pc = "replay" /\ pos = Len(events)
      /\ UNCHANGED <<head, log, lenAt, synced, known, tries, dmap, events, pos, start>>
  BY DEF EndPage
<1>2. /\ dmap = RefMap(SubSeq(log, 1, idx + pos))
      /\ Len(events) <= BatchSize
      /\ idx + Len(events) <= lenAt[known.version]
      /\ Len(events) < BatchSize => ReadAt(idx + Len(events))
      /\ known.version \in Versions
  BY <1>1 DEF DomainInv
<1>3. /\ idx \in Nat /\ events \in Seq(Events) /\ BatchSize \in Nat
      /\ start <= known.version
  BY <1>1, DomainMapAssumption DEF DomainInv, DomainTypeOK
<1>4. LogOK'
  BY <1>1 DEF DomainInv, LogOK
<1>5. CASE LastPage(events)
  <2>1. pc' = "done" /\ result' = "ok" /\ UNCHANGED idx
    BY <1>5 DEF EndPage
  <2>2. PICK v \in Versions : /\ start <= v /\ v <= known.version
                              /\ lenAt[v] = idx + Len(events)
    BY <1>2, <1>5 DEF LastPage, ReadAt
  <2>3. dmap = RefMap(SubSeq(log, 1, lenAt[v]))
    BY <1>1, <1>2, <2>2
  <2>4. DomainTypeOK'
    BY <1>1, <2>1 DEF DomainInv, DomainTypeOK, Results
  <2>. QED  BY <1>1, <1>3, <1>4, <2>1, <2>2, <2>3, <2>4 DEF DomainInv
<1>6. CASE ~LastPage(events)
  <2>1. idx' = idx + BatchSize /\ pc' = "events" /\ UNCHANGED result
    BY <1>6 DEF EndPage, NextIndex
  <2>2. Len(events) = BatchSize
    BY <1>2, <1>3, <1>6 DEF LastPage
  <2>3. idx' = idx + pos /\ idx' \in Nat
    BY <1>1, <1>3, <2>1, <2>2
  <2>4. DomainTypeOK'
    BY <1>1, <2>1, <2>3 DEF DomainInv, DomainTypeOK
  <2>5. (pc = "events" => idx <= lenAt[known.version]
                          /\ dmap = RefMap(SubSeq(log, 1, idx)))'
    BY <1>1, <1>2, <2>1, <2>3
  <2>. QED  BY <1>1, <1>2, <1>3, <1>4, <2>1, <2>4, <2>5 DEF DomainInv
<1>. QED  BY <1>5, <1>6

\* Every step of the model, the stutter included, keeps the invariant.
LEMMA NextDomainInv ==
    ASSUME DomainInv, [Next]_vars
    PROVE  DomainInv'
<1>1. CASE Call                BY <1>1, CallDomainInv
<1>2. CASE GetTcAccount        BY <1>2, GetTcAccountDomainInv
<1>3. CASE GetEvents           BY <1>3, GetEventsDomainInv
<1>4. CASE ReplayEvent         BY <1>4, ReplayEventDomainInv
<1>5. CASE EndPage             BY <1>5, EndPageDomainInv
<1>6. CASE Commit              BY <1>6, CommitDomainInv
<1>7. CASE Sync                BY <1>7, SyncDomainInv
<1>8. CASE \E v \in 0 .. synced : OtherThreadUpdate(v)
  BY <1>8, OtherThreadDomainInv
<1>9. CASE Returned \/ UNCHANGED vars
  BY <1>9 DEF Returned, vars, DomainInv, DomainTypeOK, LogOK, ReadAt, KnownStates
<1>. QED  BY <1>1, <1>2, <1>3, <1>4, <1>5, <1>6, <1>7, <1>8, <1>9 DEF Next

\* get_vasp_domain_map never raises KeyError, and the dict it returns is the
\* domain map of the event stream at one ledger version between the version
\* the Client knew when it was called and the one it knows at the return,
\* for every batch size, retry bound, set of domains, addresses and versions.
THEOREM DomainMapConsistentThm == Spec => []DomainMapConsistent
<1>1. Init => DomainInv
  BY InitDomainInv
<1>2. DomainInv /\ [Next]_vars => DomainInv'
  BY NextDomainInv
<1>3. DomainInv => DomainMapConsistent
  BY DEF DomainInv, DomainMapConsistent
<1>. QED  BY <1>1, <1>2, <1>3, PTL DEF Spec

\* event_index += batch_size skips no event and reads none twice: it only
\* moves once every event of the page has been replayed, by exactly the
\* page's length, and never past the end of the stream at a version the
\* Client knows (so the next get_events starts inside the stream).
PagingStep ==
    idx' # idx =>
        /\ pc = "replay" /\ pos = Len(events)
        /\ idx' = idx + Len(events)
        /\ idx' <= lenAt'[known'.version]

\* The paging of get_vasp_domain_map is gap-free and stays inside the
\* stream, for every value of the constants.
THEOREM PagingStepThm == Spec => [][PagingStep]_vars
<1>1. DomainInv /\ [Next]_vars => [PagingStep]_vars
  <2> SUFFICES ASSUME DomainInv, [Next]_vars, idx' # idx
               PROVE  PagingStep
    BY DEF PagingStep
  <2>1. EndPage
    <3>1. pc = "idle" => idx = 0
      BY DEF DomainInv
    <3>. QED  BY <3>1 DEF Next, Call, GetTcAccount, GetEvents, ReplayEvent, Lost,
                         Rejected, Commit, Sync, OtherThreadUpdate, Returned, vars
  <2>2. ~LastPage(events) /\ idx' = idx + BatchSize /\ pc' = "events"
    BY <2>1 DEF EndPage, NextIndex
  <2>3. Len(events) = BatchSize
    BY <2>1, <2>2, DomainMapAssumption DEF EndPage, LastPage, DomainInv, DomainTypeOK
  <2>4. (idx <= lenAt[known.version])'
    BY <2>1, <2>2, EndPageDomainInv DEF DomainInv
  <2>. QED  BY <2>1, <2>2, <2>3, <2>4 DEF EndPage, PagingStep
<1>. QED  BY <1>1, InitDomainInv, NextDomainInv, PTL DEF Spec
=============================================================================
