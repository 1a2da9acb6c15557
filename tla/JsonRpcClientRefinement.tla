---------------------- MODULE JsonRpcClientRefinement ----------------------
(***************************************************************************)
(* Proof that JsonRpcClient implements ConsistentReads under the mapping   *)
(* state <- known, read <- lastRead, for every value of the constants that *)
(* ConstantsAssumption allows. It rests on MonoInv, the invariant proved   *)
(* inductive in JsonRpcClientProofs.                                       *)
(***************************************************************************)
EXTENDS JsonRpcClientProofs

\* One call of update_last_known_state either leaves the stored state as
\* it was (it raised) or moves it to a state ConsistentReads allows: on
\* the same chain once one is known, with neither version nor timestamp
\* lower.
LEMMA UpdatedLater ==
    ASSUME NEW curr \in KnownStates, NEW s \in Servers, NEW v \in Versions,
           ConstantsAssumption
    PROVE  \/ Updated(curr, ChainOf[s], v, Ts[v]) = curr
           \/ Updated(curr, ChainOf[s], v, Ts[v]) \in Reads!Later(curr)
<1>1. curr.version \in Int /\ curr.timestamp_usecs \in Int /\ curr.chain_id \in Int
      /\ v \in Int /\ Ts[v] \in Int
  BY DEF KnownStates, LedgerStates, Unknown, Versions
<1>2. CASE UpdateResult(curr, ChainOf[s], v, Ts[v]) = "ok"
  <2>1. /\ curr.chain_id = -1 \/ curr.chain_id = ChainOf[s]
        /\ curr.version <= v
        /\ curr.timestamp_usecs <= Ts[v]
    BY <1>1, <1>2 DEF UpdateResult
  <2>2. Updated(curr, ChainOf[s], v, Ts[v])
          = [chain_id |-> ChainOf[s], version |-> v, timestamp_usecs |-> Ts[v]]
    BY <1>2 DEF Updated
  <2>3. ChainOf[s] \in {ChainOf[q] : q \in Servers} /\ Ts[v] \in {Ts[w] : w \in Versions}
    OBVIOUS
  <2>. QED  BY <2>1, <2>2, <2>3 DEF Reads!Later
<1>3. CASE UpdateResult(curr, ChainOf[s], v, Ts[v]) # "ok"
  BY <1>3 DEF Updated
<1>. QED  BY <1>2, <1>3

\* A step that changes neither the shared state nor the last read is a
\* stutter of ConsistentReads.
LEMMA StutterRefines ==
    ASSUME UNCHANGED <<known, lastRead>>
    PROVE  [Reads!Next]_<<known, lastRead>>
OBVIOUS

\* A step that runs update_last_known_state on a version some server
\* reported, and leaves the last read alone, is an Advance or a stutter.
LEMMA UpdateRefines ==
    ASSUME ConstantsAssumption, known \in KnownStates,
           NEW s \in Servers, NEW v \in Versions,
           known' = Updated(known, ChainOf[s], v, Ts[v]),
           UNCHANGED lastRead
    PROVE  [Reads!Next]_<<known, lastRead>>
<1>1. known' = known \/ known' \in Reads!Later(known)
  BY UpdatedLater
<1>. QED  BY <1>1 DEF Reads!Next, Reads!Advance

\* Every step of the client is a step of ConsistentReads or a stutter:
\* the tracker updates of the futures, the orphans and the other threads
\* are Advance steps, and a get result returned by Complete is a Read.
LEMMA NextRefines ==
    ASSUME MonoInv, [Next]_vars PROVE [Reads!Next]_<<known, lastRead>>
<1>1. known \in KnownStates
  BY DEF MonoInv, TypeInv, TypeOK
<1>2. CASE \E x \in Slots : ApplyState(x)
  <2>1. PICK x \in Slots : ApplyState(x)
    BY <1>2
  <2>2. calls[x] \in Calls /\ calls[x].ver \in Versions
    BY <2>1 DEF ApplyState, MonoInv, TypeInv, TypeOK, CallOK
  <2>3. known' = Updated(known, ChainOf[calls[x].srv], calls[x].ver, Ts[calls[x].ver])
        /\ UNCHANGED lastRead
    BY <2>1 DEF ApplyState, ApplyKnown
  <2>. QED  BY <1>1, <2>2, <2>3, UpdateRefines, ConstantsAssumption DEF Calls
<1>3. CASE OrphanStep
  <2>1. PICK o \in BagToSet(orphans) : OrphanRespond(o) \/ OrphanApply(o)
    BY <1>3 DEF OrphanStep
  <2>2. CASE OrphanRespond(o)
    BY <2>2, StutterRefines DEF OrphanRespond, thr
  <2>3. CASE OrphanApply(o)
    <3>1. o \in Calls /\ o.ver \in Versions
      BY <2>3 DEF OrphanApply, MonoInv, TypeInv, TypeOK, CallOK
    <3>2. known' = Updated(known, ChainOf[o.srv], o.ver, Ts[o.ver])
          /\ UNCHANGED lastRead
      BY <2>3 DEF OrphanApply, ApplyKnown, thr
    <3>. QED  BY <1>1, <3>1, <3>2, UpdateRefines, ConstantsAssumption DEF Calls
  <2>. QED  BY <2>1, <2>2, <2>3
<1>4. CASE Environment
  <2>1. CASE Commit \/ \E s \in Servers : Sync(s)
    BY <2>1, StutterRefines DEF Commit, Sync, thr
  <2>2. CASE \E s \in Servers, v \in Versions : OtherThreadUpdate(s, v)
    <3>1. PICK s \in Servers, v \in Versions : OtherThreadUpdate(s, v)
      BY <2>2
    <3>. QED  BY <1>1, <3>1, UpdateRefines, ConstantsAssumption DEF OtherThreadUpdate, thr
  <2>. QED  BY <1>4, <2>1, <2>2 DEF Environment
<1>5. CASE Complete
  <2>1. TypeInv'
    BY <1>5, NextTypeInv DEF MonoInv
  <2>2. MonoInv' /\ lastRead' >= lastRead
    BY <1>5, <2>1, CompleteMonoInv
  <2>3. UNCHANGED known
    BY <1>5 DEF Complete
  <2>4. lastRead' \in Int /\ lastRead' <= known.version
    BY <2>2, <2>3 DEF MonoInv, TypeInv, TypeOK
  <2>5. lastRead \in Int /\ known.version \in Int
    BY <1>1, KnownVersionInt DEF MonoInv, TypeInv, TypeOK
  <2>6. lastRead' \in lastRead .. known.version
    BY <2>2, <2>4, <2>5
  <2>. QED  BY <2>3, <2>6 DEF Reads!Next, Reads!Read
<1>6. CASE Send \/ RetryGivesUp \/ \E x \in Slots : Respond(x)
  BY <1>6, StutterRefines DEF Send, RetryGivesUp, Respond
<1>7. CASE CallerStep \/ Finished \/ UNCHANGED vars
  BY <1>7, StutterRefines DEF CallerStep, PollState, WaitTimeout, Finished, vars, thr
<1>. QED  BY <1>2, <1>3, <1>4, <1>5, <1>6, <1>7 DEF Next, ClientStep

\* The Client implements ConsistentReads (ReadsRefinement), for every
\* value of the constants: update_last_known_state moves the shared state
\* only forward on the chain it first saw, and wait_for_transaction's get
\* calls return results from versions that never go back and never run
\* ahead of the shared state, whatever other threads, orphaned futures,
\* retries and RequestWithBackups do.
THEOREM Refinement == Spec => ReadsRefinement
<1>1. Init => MonoInv
  <2>1. SUFFICES ASSUME Init PROVE MonoInv
    OBVIOUS
  <2>2. TypeInv
    BY <2>1, InitTypeInv
  <2>. QED  BY <2>1, <2>2 DEF Init, MonoInv, Unknown, NoCall
<1>2. Init => Reads!Init
  BY DEF Init, Reads!Init, Reads!Unset, Unknown
<1>3. MonoInv /\ [Next]_vars => MonoInv'
  BY NextMonoInv
<1>4. MonoInv /\ [Next]_vars => [Reads!Next]_<<known, lastRead>>
  BY NextRefines
<1>. QED  BY <1>1, <1>2, <1>3, <1>4, PTL DEF Spec, ReadsRefinement, Reads!Spec, Reads!vars
=============================================================================
