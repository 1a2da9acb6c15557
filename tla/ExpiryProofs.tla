---------------------------- MODULE ExpiryProofs ----------------------------
(***************************************************************************)
(* Proof of NoFalseExpiry: wait_for_transaction2 raises TransactionExpired *)
(* only for a transaction that is not, and never will be, in the ledger,  *)
(* for every value of the constants with max_retries >= 1 (the Client's    *)
(* default Retry has DEFAULT_MAX_RETRIES). With max_retries = 0 the        *)
(* property fails (run zero_retries).                                      *)
(***************************************************************************)
EXTENDS JsonRpcClientProofs

\* The expiration in microseconds, as the expiry test scales it.
ExpUsec == ExpirationSecs * Usec

\* The state of one future that the argument needs: a future that has not
\* answered carries no version and no result; a result comes with a
\* version; a version is one the ledger has reached; a lookup body of "not
\* found" at version v means the sequence number was unused at v; a lookup
\* is never answered as a submit; and while the thread awaits a lookup, an
\* accepted answer is no older, in time, than the snapshot.
CallExpiryOK(c) ==
    /\ c.st \in {"none", "pending"} => c.ver = -1
    /\ c.st # "done" => c.res = "none"
    /\ c.res = "ok" => c.ver \in Versions
    /\ c.ver \in Versions => c.ver <= head
    /\ c.ver \in Versions /\ c.body = "none" => ~SeqUsedAt(c.ver)
    /\ c.method = "lookup" => c.body # "accepted"
    /\ op = "lookup" /\ pc = "await" /\ c.res = "ok"
         => snap.timestamp_usecs <= Ts[c.ver]

\* The inductive invariant behind NoFalseExpiry. Besides MonoInv: servers
\* and the slot never run ahead of the ledger head; this transaction only
\* executes in a block before its expiration; during a lookup the snapshot
\* is no newer than the shared state, and Retry still has a try left at
\* every send (max_retries >= 1); and once TransactionExpired is raised,
\* the ledger has passed the expiration with the slot not ours.
ExpiryInv ==
    /\ MonoInv
    /\ \A s \in Servers : synced[s] <= head
    /\ slot.who # "none" => slot.at <= head
    /\ slot.who = "ours" => Ts[slot.at] < ExpUsec
    /\ op = "lookup" /\ pc \in {"send", "await"}
         => snap.timestamp_usecs <= known.timestamp_usecs
    /\ op = "lookup" /\ pc = "send" => tries < MaxRetries
    /\ \A x \in Slots : CallExpiryOK(calls[x])
    /\ outcome = [phase |-> "wait", r |-> "TransactionExpired"]
         => ExpUsec <= Ts[head] /\ slot.who # "ours"
-----------------------------------------------------------------------------
(***************************************************************************)
(* Lemmas about the timestamps and the tracker.                            *)
(***************************************************************************)

\* Timestamps never decrease along the ledger.
LEMMA TsMonotone ==
    ASSUME NEW v \in Versions, NEW w \in Versions, v <= w
    PROVE  Ts[v] <= Ts[w]
BY ConstantsAssumption

\* The timestamps are integers.
LEMMA TsInt ==
    ASSUME NEW v \in Versions PROVE Ts[v] \in Int
BY ConstantsAssumption

\* update_last_known_state never lowers the stored timestamp; when it
\* accepts a response, the old timestamp is at most the response's.
LEMMA UpdatedTsMonotone ==
    ASSUME NEW curr \in KnownStates, NEW s \in Servers, NEW v \in Versions
    PROVE  /\ Updated(curr, ChainOf[s], v, Ts[v]).timestamp_usecs >= curr.timestamp_usecs
           /\ UpdateResult(curr, ChainOf[s], v, Ts[v]) = "ok" =>
                 curr.timestamp_usecs <= Ts[v]
<1>1. curr.timestamp_usecs \in Int /\ curr.version \in Int /\ Ts[v] \in Int /\ v \in Int
  BY TsInt, ConstantsAssumption DEF KnownStates, LedgerStates, Unknown, Versions
<1>. QED  BY <1>1 DEF Updated, UpdateResult

\* A stored timestamp is an integer.
LEMMA KnownTsInt ==
    ASSUME NEW curr \in KnownStates PROVE curr.timestamp_usecs \in Int
BY TsInt, ConstantsAssumption DEF KnownStates, LedgerStates, Unknown, Versions

\* The expiration in microseconds is a natural number.
LEMMA ExpUsecNat == ExpUsec \in Nat
BY ConstantsAssumption DEF ExpUsec, Usec
-----------------------------------------------------------------------------
(***************************************************************************)
(* ExpiryInv is inductive.                                                 *)
(***************************************************************************)

\* The fresh Client, before submit, satisfies ExpiryInv.
LEMMA InitExpiryInv == Init => ExpiryInv
<1>1. SUFFICES ASSUME Init PROVE ExpiryInv
  OBVIOUS
<1>2. TypeInv
  BY <1>1, InitTypeInv
<1>3. MonoInv
  BY <1>1, <1>2 DEF Init, MonoInv, Unknown, NoCall
<1>. QED  BY <1>1, <1>3 DEF Init, ExpiryInv, CallExpiryOK, NoCall, EmptySlot,
                           NoOutcome, Versions

\* A step that leaves the ledger, the thread and its attempt alone and
\* does not lower the shared timestamp keeps ExpiryInv.
LEMMA KnownGrowsExpiryInv ==
    ASSUME ExpiryInv, MonoInv', known' \in KnownStates,
           UNCHANGED <<head, synced, slot, calls, pc, op, tries, snap, outcome>>,
           known'.timestamp_usecs >= known.timestamp_usecs
    PROVE  ExpiryInv'
<1>1. snap.timestamp_usecs \in Int /\ known.timestamp_usecs \in Int
      /\ known'.timestamp_usecs \in Int
  BY KnownTsInt DEF ExpiryInv, MonoInv, TypeInv, TypeOK
<1>. QED  BY <1>1 DEF ExpiryInv, CallExpiryOK, SeqUsedAt

\* The ledger committing a version keeps ExpiryInv: this transaction only
\* executes before its expiration, and a lookup's "not found" at an older
\* version stays true.
LEMMA CommitExpiryInv ==
    ASSUME ExpiryInv, MonoInv', Commit PROVE ExpiryInv'
<1>1. head \in Versions /\ head + 1 \in Versions /\ head' = head + 1 /\ head \in Int
  BY DEF Commit, ExpiryInv, MonoInv, TypeInv, TypeOK, Versions
<1>2. UNCHANGED <<synced, known, calls, pc, op, tries, snap, outcome>>
  BY DEF Commit, thr
<1>3. \/ UNCHANGED slot
      \/ /\ slot.who = "none" /\ slot'.at = head + 1 /\ slot'.who # "none"
         /\ slot'.who = "ours" => Ts[head + 1] < ExpUsec
  BY DEF Commit, ExpUsec
<1>4. Ts[head] \in Int /\ Ts[head + 1] \in Int /\ Ts[head] <= Ts[head + 1]
  BY <1>1, ConstantsAssumption DEF Versions
<1>5. \A s \in Servers : synced'[s] <= head'
  BY <1>1, <1>2 DEF ExpiryInv, MonoInv, TypeInv, TypeOK, Versions
<1>6. slot'.who # "none" => slot'.at <= head'
  BY <1>1, <1>3 DEF ExpiryInv, MonoInv, TypeInv, TypeOK, SlotValues, Versions
<1>7. slot'.who = "ours" => Ts[slot'.at] < ExpUsec
  BY <1>3 DEF ExpiryInv
<1>8. outcome' = [phase |-> "wait", r |-> "TransactionExpired"]
        => ExpUsec <= Ts[head'] /\ slot'.who # "ours"
  <2>1. SUFFICES ASSUME outcome = [phase |-> "wait", r |-> "TransactionExpired"]
                 PROVE  ExpUsec <= Ts[head'] /\ slot'.who # "ours"
    BY <1>2
  <2>2. ExpUsec <= Ts[head] /\ slot.who # "ours"
    BY <2>1 DEF ExpiryInv
  <2>3. ExpUsec <= Ts[head + 1]
    BY <2>2, <1>4, ExpUsecNat
  <2>4. ~(Ts[head + 1] < ExpUsec)
    BY <2>3, <1>4, ExpUsecNat
  <2>. QED  BY <1>1, <1>3, <2>2, <2>3, <2>4
<1>9. ASSUME NEW x \in Slots PROVE CallExpiryOK(calls[x])'
  <2> DEFINE c == calls[x]
  <2>1. CallExpiryOK(c)
    BY DEF ExpiryInv
  <2>2. c.ver \in Versions => c.ver <= head /\ c.ver \in Int
    BY <2>1 DEF CallExpiryOK, c, Versions
  <2>3. c.ver \in Versions /\ c.body = "none" => ~SeqUsedAt(c.ver)'
    <3>1. SUFFICES ASSUME c.ver \in Versions, c.body = "none"
                   PROVE  ~SeqUsedAt(c.ver)'
      OBVIOUS
    <3>2. ~SeqUsedAt(c.ver)
      BY <2>1, <3>1 DEF CallExpiryOK, c
    <3>3. CASE UNCHANGED slot
      BY <3>2, <3>3, <1>2 DEF SeqUsedAt, c
    <3>4. CASE slot.who = "none" /\ slot'.at = head + 1
      BY <3>1, <3>4, <2>2, <1>1, <1>2 DEF SeqUsedAt, c
    <3>. QED  BY <1>3, <3>3, <3>4
  <2>. QED  BY <2>1, <2>2, <2>3, <1>1, <1>2 DEF CallExpiryOK, c
<1>. QED  BY <1>2, <1>5, <1>6, <1>7, <1>8, <1>9 DEF ExpiryInv

\* A replica syncing one more version keeps ExpiryInv: it stays behind the
\* ledger head.
LEMMA SyncExpiryInv ==
    ASSUME ExpiryInv, MonoInv', NEW s \in Servers, Sync(s) PROVE ExpiryInv'
<1>1. head \in Int /\ synced \in [Servers -> Versions]
  BY DEF ExpiryInv, MonoInv, TypeInv, TypeOK, Versions
<1>2. synced' = [synced EXCEPT ![s] = @ + 1] /\ synced[s] < head
  BY DEF Sync
<1>3. \A q \in Servers : synced'[q] <= head
  BY <1>1, <1>2 DEF ExpiryInv, Versions
<1>. QED  BY <1>3 DEF Sync, thr, ExpiryInv, CallExpiryOK, SeqUsedAt

\* A step of the attempt that leaves the ledger and the thread's control
\* state alone, does not lower the shared timestamp, and leaves every
\* future in a state CallExpiryOK allows, keeps ExpiryInv.
LEMMA AttemptExpiryInv ==
    ASSUME ExpiryInv, MonoInv', known' \in KnownStates,
           UNCHANGED <<head, synced, slot, pc, op, tries, snap, outcome>>,
           known'.timestamp_usecs >= known.timestamp_usecs,
           \A y \in Slots : CallExpiryOK(calls'[y])
    PROVE  ExpiryInv'
<1>1. snap.timestamp_usecs \in Int /\ known.timestamp_usecs \in Int
      /\ known'.timestamp_usecs \in Int
  BY KnownTsInt DEF ExpiryInv, MonoInv, TypeInv, TypeOK
<1>. QED  BY <1>1 DEF ExpiryInv, CallExpiryOK, SeqUsedAt

\* A server answers a submit with accepted or SEQUENCE_NUMBER_TOO_OLD and
\* a lookup with what it found: "not found" only for a lookup at a
\* version where the sequence number is unused.
LEMMA ServerBodyFacts ==
    ASSUME NEW v, NEW m \in Methods
    PROVE  /\ ServerBody(v, m) = "none" => ~SeqUsedAt(v)
           /\ m = "lookup" => ServerBody(v, m) # "accepted"
BY DEF ServerBody, LookupBody, Methods

\* A response to a future of the attempt keeps ExpiryInv.
LEMMA RespondExpiryInv ==
    ASSUME ExpiryInv, MonoInv', NEW x \in Slots, Respond(x) PROVE ExpiryInv'
<1> DEFINE c == calls[x]
<1>1. PICK p \in PostResults(c) : calls' = [calls EXCEPT ![x] = p.call]
  BY DEF Respond, c
<1>2. c \in Calls /\ c.st = "pending" /\ c.ver = -1 /\ c.res = "none"
      /\ calls \in [Slots -> Calls] /\ CallExpiryOK(c)
  BY DEF Respond, ExpiryInv, MonoInv, TypeInv, TypeOK, CallExpiryOK, c
<1>3. UNCHANGED <<head, synced, slot, known, pc, op, tries, snap, outcome>>
  BY DEF Respond
<1>4. -1 \notin Versions
  BY DEF Versions
<1>5. CallExpiryOK(p.call)
  <2>1. CASE p.call = [c EXCEPT !.st = "done", !.res = "neterr"]
    BY <2>1, <1>2, <1>4 DEF CallExpiryOK
  <2>2. CASE \E v \in 0 .. synced[c.srv] :
               p.call = [c EXCEPT !.st = "responded", !.ver = v,
                                  !.body = ServerBody(v, c.method)]
    <3>1. PICK v \in 0 .. synced[c.srv] :
               p.call = [c EXCEPT !.st = "responded", !.ver = v,
                                  !.body = ServerBody(v, c.method)]
      BY <2>2
    <3>6. /\ c.srv \in Servers /\ synced[c.srv] \in Versions /\ synced[c.srv] <= head
          /\ head \in Versions
      BY <1>2 DEF ExpiryInv, MonoInv, TypeInv, TypeOK, Calls, c
    <3>7. synced[c.srv] \in Nat /\ synced[c.srv] <= MaxVersion
      BY <3>6, ConstantsAssumption DEF Versions
    <3>8. v \in Nat /\ v <= synced[c.srv]
      BY <3>1, <3>7
    <3>2. v \in Versions /\ v <= head
      BY <3>6, <3>7, <3>8, ConstantsAssumption DEF Versions
    <3>3. c.method \in Methods
      BY <1>2 DEF Calls
    <3>4. /\ ServerBody(v, c.method) = "none" => ~SeqUsedAt(v)
          /\ c.method = "lookup" => ServerBody(v, c.method) # "accepted"
      BY <3>3, ServerBodyFacts
    <3>5. /\ p.call.st = "responded" /\ p.call.ver = v /\ p.call.res = "none"
          /\ p.call.body = ServerBody(v, c.method) /\ p.call.method = c.method
      BY <3>1, <1>2 DEF Calls
    <3>. QED  BY <3>2, <3>4, <3>5 DEF CallExpiryOK
  <2>. QED  BY <2>1, <2>2, <1>2, PostResultsCases
<1>6. \A y \in Slots : CallExpiryOK(calls'[y])
  BY <1>1, <1>2, <1>5 DEF ExpiryInv
<1>7. known \in KnownStates /\ known.timestamp_usecs \in Int
  BY KnownTsInt DEF ExpiryInv, MonoInv, TypeInv, TypeOK
<1>. QED  BY <1>3, <1>6, <1>7, AttemptExpiryInv

\* update_last_known_state on a future of the attempt keeps ExpiryInv: a
\* lookup it accepts is no older, in time, than the shared state, hence
\* than the snapshot.
LEMMA ApplyStateExpiryInv ==
    ASSUME ExpiryInv, MonoInv', NEW x \in Slots, ApplyState(x) PROVE ExpiryInv'
<1> DEFINE c == calls[x]
           u == UpdateResult(known, ChainOf[c.srv], c.ver, Ts[c.ver])
<1>1. c \in Calls /\ c.ver \in Versions /\ c.st = "responded" /\ CallExpiryOK(c)
      /\ calls \in [Slots -> Calls] /\ known \in KnownStates
  BY DEF ApplyState, ExpiryInv, MonoInv, TypeInv, TypeOK, CallOK, c
<1>2. calls' = [calls EXCEPT ![x] = Applied(c)] /\ known' = ApplyKnown(c)
      /\ UNCHANGED <<head, synced, slot, pc, op, tries, snap, outcome>>
  BY DEF ApplyState, c, env
<1>3. /\ Applied(c).method = c.method /\ Applied(c).ign = c.ign
      /\ Applied(c).st = "done" /\ Applied(c).ver = c.ver
      /\ Applied(c).body = c.body
      /\ Applied(c).res = IF u = "stale" /\ c.ign THEN "ok" ELSE u
  BY <1>1 DEF Applied, Calls, u
<1>4. /\ ApplyKnown(c).timestamp_usecs >= known.timestamp_usecs
      /\ u = "ok" => known.timestamp_usecs <= Ts[c.ver]
  BY <1>1, UpdatedTsMonotone DEF ApplyKnown, Calls, u
<1>5. CallExpiryOK(Applied(c))
  <2>1. ASSUME op = "lookup", pc = "await", Applied(c).res = "ok"
        PROVE  snap.timestamp_usecs <= Ts[c.ver]
    <3>1. c.method = op /\ c.ign = ExecConfig(op).ign
      BY <1>1 DEF ExpiryInv, MonoInv, c
    <3>2. ~c.ign
      BY <3>1, <2>1 DEF ExecConfig
    <3>3. u = "ok"
      BY <3>2, <2>1, <1>3
    <3>4. snap.timestamp_usecs <= known.timestamp_usecs
      BY <2>1 DEF ExpiryInv
    <3>5. snap.timestamp_usecs \in Int /\ known.timestamp_usecs \in Int /\ Ts[c.ver] \in Int
      BY <1>1, KnownTsInt, TsInt DEF ExpiryInv, MonoInv, TypeInv, TypeOK
    <3>. QED  BY <3>3, <3>4, <3>5, <1>4
  <2>. QED  BY <2>1, <1>1, <1>3 DEF CallExpiryOK
<1>6. \A y \in Slots : CallExpiryOK(calls'[y])
  BY <1>1, <1>2, <1>5 DEF ExpiryInv
<1>7. known' \in KnownStates
  BY DEF MonoInv, TypeInv, TypeOK
<1>. QED  BY <1>2, <1>4, <1>6, <1>7, AttemptExpiryInv
\* A step of the thread that leaves the ledger, the servers and the slot
\* alone keeps ExpiryInv when it keeps the conjuncts about the thread.
LEMMA ThreadStepExpiryInv ==
    ASSUME ExpiryInv, MonoInv', UNCHANGED <<head, synced, slot>>,
           op' = "lookup" /\ pc' \in {"send", "await"}
             => snap'.timestamp_usecs <= known'.timestamp_usecs,
           op' = "lookup" /\ pc' = "send" => tries' < MaxRetries,
           \A y \in Slots : CallExpiryOK(calls[y])',
           outcome' = [phase |-> "wait", r |-> "TransactionExpired"]
             => ExpUsec <= Ts[head] /\ slot.who # "ours"
    PROVE  ExpiryInv'
BY DEF ExpiryInv

\* send_request submitting fresh futures keeps ExpiryInv: they carry no
\* version, result or body yet.
LEMMA SendExpiryInv ==
    ASSUME ExpiryInv, MonoInv', Send PROVE ExpiryInv'
<1>1. PICK b \in BackupChoices :
          calls' = [x \in Slots |->
                      [srv |-> IF x = "primary" THEN Primary ELSE b,
                       method |-> op, ign |-> ExecConfig(op).ign,
                       st |-> "pending", ver |-> -1, body |-> "none",
                       res |-> "none"]]
  BY DEF Send
<1>2. -1 \notin Versions
  BY DEF Versions
<1>3. \A y \in Slots : CallExpiryOK(calls[y])'
  BY <1>1, <1>2 DEF CallExpiryOK
<1>4. pc = "send" /\ pc' = "await" /\ UNCHANGED <<head, synced, slot, known, op, snap, outcome>>
  BY DEF Send, env
<1>5. op' = "lookup" /\ pc' \in {"send", "await"}
        => snap'.timestamp_usecs <= known'.timestamp_usecs
  BY <1>4 DEF ExpiryInv
<1>6. outcome' = [phase |-> "wait", r |-> "TransactionExpired"]
        => ExpUsec <= Ts[head] /\ slot.who # "ours"
  BY <1>4 DEF ExpiryInv
<1>. QED  BY <1>3, <1>4, <1>5, <1>6, ThreadStepExpiryInv

\* The loop condition of wait_for_transaction2 keeps ExpiryInv: the
\* snapshot is the shared state itself, and Retry starts with a try left
\* because max_retries >= 1.
LEMMA CallerStepExpiryInv ==
    ASSUME ExpiryInv, MonoInv', MaxRetries # 0, CallerStep PROVE ExpiryInv'
<1>1. \A x \in Slots : calls[x].st = "none"
  BY DEF CallerStep, PollState, WaitTimeout, ExpiryInv, MonoInv
<1>2. known.timestamp_usecs \in Int /\ MaxRetries \in Nat
  BY KnownTsInt, ConstantsAssumption DEF ExpiryInv, MonoInv, TypeInv, TypeOK
<1>3. CASE PollState
  <2>1. snap' = known /\ tries' = 0 /\ pc' = "send"
        /\ UNCHANGED <<head, synced, slot, known, calls, outcome>>
    BY <1>3 DEF PollState, env
  <2>2. tries' < MaxRetries
    BY <2>1, <1>2
  <2>3. \A y \in Slots : CallExpiryOK(calls[y])'
    BY <2>1 DEF ExpiryInv, CallExpiryOK, SeqUsedAt
  <2>4. snap'.timestamp_usecs <= known'.timestamp_usecs
    BY <2>1, <1>2
  <2>5. outcome' = [phase |-> "wait", r |-> "TransactionExpired"]
          => ExpUsec <= Ts[head] /\ slot.who # "ours"
    BY <2>1 DEF ExpiryInv
  <2>. QED  BY <2>1, <2>2, <2>3, <2>4, <2>5, ThreadStepExpiryInv
<1>4. CASE WaitTimeout
  <2>1. pc' = "done" /\ outcome' # [phase |-> "wait", r |-> "TransactionExpired"]
        /\ UNCHANGED <<head, synced, slot, known, op, tries, calls, snap>>
    BY <1>4 DEF WaitTimeout, env
  <2>2. \A y \in Slots : CallExpiryOK(calls[y])'
    BY <2>1 DEF ExpiryInv, CallExpiryOK, SeqUsedAt
  <2>. QED  BY <2>1, <2>2, ThreadStepExpiryInv
<1>. QED  BY <1>3, <1>4 DEF CallerStep

\* Retry giving up before any call cannot happen under ExpiryInv: a
\* submit is not retried, and a lookup reaches send with a try left.
LEMMA RetryGivesUpImpossible ==
    ASSUME ExpiryInv, RetryGivesUp PROVE FALSE
<1>1. pc = "send" /\ ~MayCall(tries)
  BY DEF RetryGivesUp
<1>2. op \in Methods
  BY DEF ExpiryInv, MonoInv, TypeInv, TypeOK
<1>3. CASE op = "submit"
  BY <1>1, <1>3 DEF MayCall, ExecConfig
<1>4. CASE op = "lookup"
  BY <1>1, <1>4 DEF ExpiryInv, MayCall
<1>. QED  BY <1>2, <1>3, <1>4 DEF Methods

\* The futures nobody waits for keep ExpiryInv: they only raise the shared
\* state.
LEMMA OrphanStepExpiryInv ==
    ASSUME ExpiryInv, MonoInv', OrphanStep PROVE ExpiryInv'
<1>1. PICK o \in BagToSet(orphans) : OrphanRespond(o) \/ OrphanApply(o)
  BY DEF OrphanStep
<1>2. known' \in KnownStates
  BY DEF MonoInv, TypeInv, TypeOK
<1>3. CASE OrphanRespond(o)
  <2>1. known.timestamp_usecs \in Int
    BY KnownTsInt DEF ExpiryInv, MonoInv, TypeInv, TypeOK
  <2>. QED  BY <1>2, <1>3, <2>1, KnownGrowsExpiryInv DEF OrphanRespond, thr
<1>4. CASE OrphanApply(o)
  <2>1. o \in Calls /\ o.ver \in Versions /\ known \in KnownStates
    BY <1>4 DEF OrphanApply, ExpiryInv, MonoInv, TypeInv, TypeOK, CallOK
  <2>2. known'.timestamp_usecs >= known.timestamp_usecs
    BY <2>1, <1>4, UpdatedTsMonotone DEF OrphanApply, ApplyKnown, Calls
  <2>. QED  BY <1>2, <1>4, <2>2, KnownGrowsExpiryInv DEF OrphanApply, thr, env
<1>. QED  BY <1>1, <1>3, <1>4

\* The ledger, the servers and the other threads keep ExpiryInv.
LEMMA EnvironmentExpiryInv ==
    ASSUME ExpiryInv, MonoInv', Environment PROVE ExpiryInv'
<1>1. CASE Commit
  BY <1>1, CommitExpiryInv
<1>2. CASE \E s \in Servers : Sync(s)
  BY <1>2, SyncExpiryInv
<1>3. ASSUME NEW s \in Servers, NEW v \in Versions, OtherThreadUpdate(s, v)
      PROVE  ExpiryInv'
  <2>1. known \in KnownStates /\ known' \in KnownStates
    BY DEF ExpiryInv, MonoInv, TypeInv, TypeOK
  <2>2. known'.timestamp_usecs >= known.timestamp_usecs
    BY <1>3, <2>1, UpdatedTsMonotone DEF OtherThreadUpdate
  <2>. QED  BY <1>3, <2>1, <2>2, KnownGrowsExpiryInv DEF OtherThreadUpdate, thr, env
<1>. QED  BY <1>1, <1>2, <1>3 DEF Environment
\* The heart of the argument. When the lookup that the thread awaited
\* returned no transaction and the snapshot read before it is past the
\* expiration, the ledger has passed the expiration and the slot is not
\* this transaction's: the lookup's version is no older than the snapshot
\* (its update_last_known_state accepted it), "not found" there means the
\* slot was unused at that version, and a later block of this transaction
\* would have a timestamp past the expiration, which Commit forbids.
LEMMA ExpiredSound ==
    ASSUME ExpiryInv, NEW x \in Slots, op = "lookup", pc = "await",
           calls[x].st = "done", Raised(calls[x]) = "result",
           calls[x].body \notin {"other", "ours_failed", "ours_executed"},
           ExpUsec <= snap.timestamp_usecs
    PROVE  ExpUsec <= Ts[head] /\ slot.who # "ours"
<1> DEFINE c == calls[x]
<1>1. c \in Calls /\ CallExpiryOK(c) /\ c.res # "none" /\ head \in Versions
      /\ slot \in SlotValues
  BY DEF ExpiryInv, MonoInv, TypeInv, TypeOK, c
<1>2. c.res = "ok"
  BY <1>1, RaisedResult DEF c
<1>3. c.ver \in Versions /\ c.ver <= head /\ snap.timestamp_usecs <= Ts[c.ver]
  BY <1>1, <1>2 DEF CallExpiryOK
<1>4. c.method = "lookup"
  BY DEF ExpiryInv, MonoInv, c
<1>5. c.body = "none"
  <2>1. c.body \notin RpcErrorBodies
    BY <1>2 DEF Raised, c
  <2>2. c.body # "accepted"
    BY <1>1, <1>4 DEF CallExpiryOK
  <2>. QED  BY <1>1, <2>1, <2>2 DEF Calls, Bodies, RpcErrorBodies, c
<1>6. ~SeqUsedAt(c.ver)
  BY <1>1, <1>3, <1>5 DEF CallExpiryOK
<1>7. Ts[c.ver] \in Int /\ Ts[head] \in Int /\ Ts[c.ver] <= Ts[head]
      /\ snap.timestamp_usecs \in Int /\ ExpUsec \in Nat
  BY <1>1, <1>3, TsInt, TsMonotone, KnownTsInt, ExpUsecNat
     DEF ExpiryInv, MonoInv, TypeInv, TypeOK
<1>8. ExpUsec <= Ts[head]
  BY <1>3, <1>7
<1>9. slot.who # "ours"
  <2>1. SUFFICES ASSUME slot.who = "ours" PROVE FALSE
    OBVIOUS
  <2>2. slot.at \in Versions /\ c.ver < slot.at
    BY <1>1, <1>3, <1>6, <2>1 DEF SeqUsedAt, SlotValues, Versions
  <2>3. Ts[c.ver] <= Ts[slot.at] /\ Ts[slot.at] \in Int
    BY <1>3, <2>2, TsMonotone, TsInt DEF Versions
  <2>4. Ts[slot.at] < ExpUsec
    BY <2>1 DEF ExpiryInv
  <2>. QED  BY <1>3, <1>7, <2>3, <2>4
<1>. QED  BY <1>8, <1>9

\* send_request, execute and the wait loop being done with an attempt keep
\* ExpiryInv: Retry only calls again with a try left, and the loop raises
\* TransactionExpired only as ExpiredSound allows.
LEMMA CompleteExpiryInv ==
    ASSUME ExpiryInv, MonoInv', Complete PROVE ExpiryInv'
<1>1. PICK x \in Chosen :
        LET c == calls[x]
            r == Raised(c)
        IN  /\ calls' = [y \in Slots |-> NoCall]
            /\ IF Retries(r)
               THEN /\ pc' = "send"
                    /\ UNCHANGED outcome
               ELSE Returned(r, c.body)
  BY DEF Complete
<1> DEFINE c == calls[x]
           r == Raised(c)
<1>2. x \in Slots /\ c.st = "done" /\ pc = "await"
  BY ChosenType, ChosenDone DEF Complete, ExpiryInv, MonoInv, TypeInv, c
<1>3. UNCHANGED <<head, synced, slot, known, op, tries, snap>>
  BY DEF Complete, env
<1>4. \A y \in Slots : CallExpiryOK(calls[y])'
  <2>1. -1 \notin Versions
    BY DEF Versions
  <2>. QED  BY <1>1, <2>1 DEF CallExpiryOK, NoCall
<1>5. op' = "lookup" /\ pc' \in {"send", "await"}
        => snap'.timestamp_usecs <= known'.timestamp_usecs
  BY <1>2, <1>3 DEF ExpiryInv
<1>6. CASE Retries(r)
  <2>1. pc' = "send" /\ UNCHANGED outcome /\ tries < MaxRetries
    BY <1>1, <1>6 DEF Retries, r, c
  <2>2. outcome' = [phase |-> "wait", r |-> "TransactionExpired"]
          => ExpUsec <= Ts[head] /\ slot.who # "ours"
    BY <2>1 DEF ExpiryInv
  <2>. QED  BY <1>3, <1>4, <1>5, <2>1, <2>2, ThreadStepExpiryInv
<1>7. CASE ~Retries(r)
  <2> DEFINE o == IF op = "submit" THEN IF r = "result" THEN "sleep" ELSE r
                  ELSE LookupOutcome(r, c.body)
  <2>1. \/ pc' = "top" /\ UNCHANGED outcome
        \/ pc' = "done" /\ outcome' = [phase |-> IF op = "submit" THEN "submit" ELSE "wait",
                                       r |-> o]
    BY <1>1, <1>7 DEF Returned, o, r, c
  <2>2. op' = "lookup" /\ pc' = "send" => tries' < MaxRetries
    BY <2>1
  <2>3. outcome' = [phase |-> "wait", r |-> "TransactionExpired"]
          => ExpUsec <= Ts[head] /\ slot.who # "ours"
    <3>1. SUFFICES ASSUME outcome' = [phase |-> "wait", r |-> "TransactionExpired"],
                          outcome # outcome'
                   PROVE  ExpUsec <= Ts[head] /\ slot.who # "ours"
      BY DEF ExpiryInv
    <3>2. op # "submit" /\ o = "TransactionExpired"
      BY <2>1, <3>1
    <3>3. op = "lookup"
      BY <3>2 DEF ExpiryInv, MonoInv, TypeInv, TypeOK, Methods
    <3>5. r # "TransactionExpired"
      BY DEF r, Raised
    <3>6. LookupOutcome(r, c.body) = "TransactionExpired"
      BY <3>2 DEF o
    <3>7. r = "result"
      BY <3>5, <3>6 DEF LookupOutcome
    <3>8. c.body \notin {"other", "ours_failed", "ours_executed"} /\ TxnExpired
      BY <3>6, <3>7 DEF LookupOutcome
    <3>4. r = "result" /\ c.body \notin {"other", "ours_failed", "ours_executed"}
          /\ ExpUsec <= snap.timestamp_usecs
      BY <3>7, <3>8 DEF TxnExpired, ExpUsec
    <3>. QED  BY <1>2, <3>3, <3>4, ExpiredSound DEF r, c
  <2>. QED  BY <1>3, <1>4, <1>5, <2>2, <2>3, ThreadStepExpiryInv
<1>. QED  BY <1>6, <1>7
\* Every step keeps ExpiryInv when max_retries >= 1.
LEMMA NextExpiryInv ==
    ASSUME ExpiryInv, MaxRetries # 0, [Next]_vars PROVE ExpiryInv'
<1>1. MonoInv'
  BY NextMonoInv DEF ExpiryInv
<1>2. CASE Send          BY <1>1, <1>2, SendExpiryInv
<1>3. CASE Complete      BY <1>1, <1>3, CompleteExpiryInv
<1>4. CASE RetryGivesUp  BY <1>4, RetryGivesUpImpossible
<1>5. ASSUME NEW x \in Slots, Respond(x) \/ ApplyState(x) PROVE ExpiryInv'
  BY <1>1, <1>5, RespondExpiryInv, ApplyStateExpiryInv
<1>6. CASE CallerStep    BY <1>1, <1>6, CallerStepExpiryInv
<1>7. CASE OrphanStep    BY <1>1, <1>7, OrphanStepExpiryInv
<1>8. CASE Environment   BY <1>1, <1>8, EnvironmentExpiryInv
<1>9. CASE Finished \/ UNCHANGED vars
  <2>1. UNCHANGED vars
    BY <1>9 DEF Finished
  <2>. QED  BY <1>1, <2>1 DEF vars, env, thr, ExpiryInv, CallExpiryOK, SeqUsedAt
<1>. QED  BY <1>2, <1>3, <1>4, <1>5, <1>6, <1>7, <1>8, <1>9 DEF Next, ClientStep

\* NoFalseExpiry for every value of the constants with max_retries >= 1:
\* wait_for_transaction2 raises TransactionExpired only when this
\* transaction is not in the ledger, whatever other threads, orphaned
\* futures, lagging replicas, retries and the backup strategies do.
THEOREM NoFalseExpiryThm ==
    ASSUME MaxRetries # 0 PROVE Spec => []NoFalseExpiry
<1>1. Init => ExpiryInv
  BY InitExpiryInv
<1>2. ExpiryInv /\ [Next]_vars => ExpiryInv'
  BY NextExpiryInv
<1>3. ExpiryInv => NoFalseExpiry
  BY DEF ExpiryInv, NoFalseExpiry
<1>. QED  BY <1>1, <1>2, <1>3, PTL DEF Spec
=============================================================================
