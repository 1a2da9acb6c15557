------------------------- MODULE JsonRpcClientProofs -------------------------
(***************************************************************************)
(* Proofs about JsonRpcClient for every value of the constants that        *)
(* ConstantsAssumption allows.                                             *)
(***************************************************************************)
EXTENDS JsonRpcClient, FiniteSetTheorems, TLAPS

\* A future that has a response carries a ledger version: the one the
\* response's diem_ledger_version field reported.
CallOK(c) == c.st = "responded" => c.ver \in Versions

\* The inductive strengthening of TypeOK: responded futures, attempts and
\* running or orphaned, carry a version; the wait loop only calls while
\* polls is under its bound.
TypeInv ==
    /\ TypeOK
    /\ \A x \in Slots : CallOK(calls[x])
    /\ \A o \in BagToSet(orphans) : CallOK(o)
    /\ op = "lookup" /\ pc \in {"send", "await"} => polls < MaxPolls
-----------------------------------------------------------------------------
(***************************************************************************)
(* Lemmas about the bag of orphaned futures.                               *)
(***************************************************************************)

\* Adding bags keeps a bag, whose elements are those of both.
LEMMA BagAddType ==
    ASSUME NEW B, NEW C, IsABag(B), IsABag(C)
    PROVE  /\ IsABag(B (+) C)
           /\ BagToSet(B (+) C) = BagToSet(B) \cup BagToSet(C)
BY DEF IsABag, BagToSet, (+)

\* Taking one copy of o out of a bag keeps a bag, with no new element.
LEMMA BagRemoveType ==
    ASSUME NEW B, NEW o, IsABag(B)
    PROVE  /\ IsABag(B (-) SetToBag({o}))
           /\ BagToSet(B (-) SetToBag({o})) \subseteq BagToSet(B)
BY DEF IsABag, BagToSet, (-), SetToBag

\* A set seen as a bag.
LEMMA SetToBagType ==
    ASSUME NEW S
    PROVE  IsABag(SetToBag(S)) /\ BagToSet(SetToBag(S)) = S
BY DEF IsABag, BagToSet, SetToBag

\* The futures left running by send_request form a bag of those futures.
LEMMA RunningType ==
    ASSUME calls \in [Slots -> Calls]
    PROVE  /\ IsABag(Running)
           /\ BagToSet(Running) =
                {calls[y] : y \in {z \in Slots : calls[z].st \in {"pending", "responded"}}}
<1> DEFINE R == {y \in Slots : calls[y].st \in {"pending", "responded"}}
<1>1. IsFiniteSet(Slots)
  <2>1. IsFiniteSet({"primary"} \cup {"backup"})
    BY FS_Singleton, FS_AddElement
  <2>2. Slots \subseteq {"primary"} \cup {"backup"}
    BY DEF Slots
  <2>. QED  BY <2>1, <2>2, FS_Subset
<1>2. ASSUME NEW c \in {calls[y] : y \in R}
      PROVE  Cardinality({y \in R : calls[y] = c}) \in Nat \ {0}
  <2>1. IsFiniteSet({y \in R : calls[y] = c})
    BY <1>1, FS_Subset
  <2>2. {y \in R : calls[y] = c} # {}
    BY <1>2
  <2>. QED  BY <2>1, <2>2, FS_CardinalityType, FS_EmptySet
<1>. QED  BY <1>2 DEF Running, IsABag, BagToSet
-----------------------------------------------------------------------------
(***************************************************************************)
(* Lemmas about the operators of the tracker and of one HTTP call.         *)
(***************************************************************************)

\* update_last_known_state with a server's chain id and a version's
\* timestamp stores a state of KnownStates.
LEMMA UpdatedType ==
    ASSUME NEW curr \in KnownStates, NEW s \in Servers, NEW v \in Versions
    PROVE  Updated(curr, ChainOf[s], v, Ts[v]) \in KnownStates
BY DEF Updated, KnownStates, LedgerStates

\* The body a server answers with is a body.
LEMMA ServerBodyType ==
    ASSUME NEW v, NEW m
    PROVE  ServerBody(v, m) \in Bodies
BY DEF ServerBody, LookupBody, Bodies

\* Every result of session.post is a finished or a responded future, the
\* latter with a version.
LEMMA PostResultsType ==
    ASSUME TypeOK, ConstantsAssumption, NEW c \in Calls
    PROVE  \A p \in PostResults(c) :
              /\ p.call \in Calls
              /\ p.call.st \in {"done", "responded"}
              /\ CallOK(p.call)
              /\ p.acc \in BOOLEAN
<1> DEFINE lost == [c EXCEPT !.st = "done", !.res = "neterr"]
          Acc(v) == accepted \/ (c.method = "submit" /\ ServerBody(v, c.method) = "accepted")
          Resp(v) == [c EXCEPT !.st = "responded", !.ver = v, !.body = ServerBody(v, c.method)]
<1>1. 0 .. synced[c.srv] \subseteq Versions
  BY DEF TypeOK, Calls, Versions
<1>2. lost \in Calls /\ lost.st = "done" /\ CallOK(lost)
  BY DEF Calls, CallResults, CallOK
<1>3. ASSUME NEW v \in 0 .. synced[c.srv]
      PROVE  Resp(v) \in Calls /\ Resp(v).st = "responded" /\ CallOK(Resp(v)) /\ Acc(v) \in BOOLEAN
  <2>1. ServerBody(v, c.method) \in Bodies
    BY ServerBodyType
  <2>2. accepted \in BOOLEAN
    BY DEF TypeOK
  <2>3. v \in Versions
    BY <1>1
  <2>4. Resp(v) \in Calls
    <3>1. v \in -1 .. MaxVersion
      BY <2>3 DEF Versions
    <3>. QED  BY <3>1, <2>1 DEF Calls, Resp
  <2>5. Acc(v) \in BOOLEAN
    BY <2>2
  <2>. QED  BY <2>4, <2>3, <2>5 DEF CallOK
<1>4. accepted \in BOOLEAN
  BY DEF TypeOK
<1>5. PostResults(c) = {[call |-> lost, acc |-> accepted]}
                       \cup {[call |-> Resp(v), acc |-> Acc(v)] : v \in 0 .. synced[c.srv]}
                       \cup (IF c.method = "submit"
                             THEN {[call |-> lost, acc |-> Acc(v)] : v \in 0 .. synced[c.srv]}
                             ELSE {})
  BY DEF PostResults
<1>6. ASSUME NEW p \in PostResults(c)
      PROVE  /\ p.call \in Calls
             /\ p.call.st \in {"done", "responded"}
             /\ CallOK(p.call)
             /\ p.acc \in BOOLEAN
  <2>1. CASE p = [call |-> lost, acc |-> accepted]
    BY <2>1, <1>2, <1>4
  <2>2. CASE \E v \in 0 .. synced[c.srv] : p = [call |-> Resp(v), acc |-> Acc(v)]
    <3>1. PICK v \in 0 .. synced[c.srv] : p = [call |-> Resp(v), acc |-> Acc(v)]
      BY <2>2
    <3>. QED  BY <3>1, <1>3
  <2>3. CASE \E v \in 0 .. synced[c.srv] : p = [call |-> lost, acc |-> Acc(v)]
    <3>1. PICK v \in 0 .. synced[c.srv] : p = [call |-> lost, acc |-> Acc(v)]
      BY <2>3
    <3>. QED  BY <3>1, <1>2, <1>3
  <2>. QED  BY <1>5, <2>1, <2>2, <2>3
<1>. QED  BY <1>6

\* The future after update_last_known_state is finished.
LEMMA AppliedType ==
    ASSUME TypeOK, NEW c \in Calls, c.ver \in Versions
    PROVE  /\ Applied(c) \in Calls
           /\ Applied(c).st = "done"
           /\ ApplyKnown(c) \in KnownStates
<1>1. UpdateResult(known, ChainOf[c.srv], c.ver, Ts[c.ver]) \in {"invalid", "stale", "ok"}
  BY DEF UpdateResult
<1>2. ApplyKnown(c) \in KnownStates
  BY UpdatedType DEF TypeOK, Calls, ApplyKnown
<1>. QED  BY <1>1, <1>2 DEF Applied, Calls, CallResults
-----------------------------------------------------------------------------
(***************************************************************************)
(* TypeInv holds initially and is kept by every action.                    *)
(***************************************************************************)

\* A fresh Client, before its first call, satisfies TypeInv.
LEMMA InitTypeInv == Init => TypeInv
<1> SUFFICES ASSUME Init PROVE TypeInv
  OBVIOUS
<1>1. Unknown \in KnownStates
  BY DEF Unknown, KnownStates, LedgerStates
<1>2. NoCall \in Calls
  BY ConstantsAssumption DEF NoCall, Calls, Servers, Methods, Bodies, CallResults
<1>3. IsABag(EmptyBag) /\ BagToSet(EmptyBag) = {}
  BY SetToBagType DEF EmptyBag
<1>4. NoOutcome \in Outcomes /\ EmptySlot \in SlotValues
  BY ConstantsAssumption DEF NoOutcome, Outcomes, Returns, EmptySlot, SlotValues, Versions
<1>5. 0 \in Versions /\ -1 \in -1 .. MaxVersion /\ 0 \in 0 .. MaxRetries /\ 0 \in 0 .. MaxPolls
  BY ConstantsAssumption DEF Versions
<1>6. TypeOK
  <2>1. synced \in [Servers -> Versions] /\ calls \in [Slots -> Calls]
    BY <1>2, <1>5 DEF Init
  <2>2. IsABag(orphans) /\ BagToSet(orphans) \subseteq Calls
    BY <1>3 DEF Init
  <2>. QED  BY <1>1, <1>4, <1>5, <2>1, <2>2 DEF Init, TypeOK, NoSlot, Methods
<1>7. \A x \in Slots : CallOK(calls[x])
  BY DEF Init, CallOK, NoCall
<1>. QED  BY <1>3, <1>6, <1>7, ConstantsAssumption DEF Init, TypeInv

\* The ledger's and the servers' steps keep TypeInv.
LEMMA EnvironmentTypeInv ==
    ASSUME TypeInv, Environment PROVE TypeInv'
<1>1. CASE Commit
  <2>1. head + 1 \in Versions
    BY <1>1, ConstantsAssumption DEF Commit, TypeInv, TypeOK, Versions
  <2>2. slot' \in SlotValues
    BY <1>1, <2>1 DEF Commit, SlotValues, TypeInv, TypeOK
  <2>. QED  BY <1>1, <2>1, <2>2 DEF Commit, TypeInv, TypeOK, CallOK, thr
<1>2. ASSUME NEW s \in Servers, Sync(s) PROVE TypeInv'
  <2>1. synced' \in [Servers -> Versions]
    BY <1>2, ConstantsAssumption DEF Sync, TypeInv, TypeOK, Versions
  <2>. QED  BY <1>2, <2>1 DEF Sync, TypeInv, TypeOK, CallOK, thr
<1>3. ASSUME NEW s \in Servers, NEW v \in Versions, OtherThreadUpdate(s, v) PROVE TypeInv'
  <2>1. known' \in KnownStates
    BY <1>3, UpdatedType DEF OtherThreadUpdate, TypeInv, TypeOK
  <2>. QED  BY <1>3, <2>1 DEF OtherThreadUpdate, TypeInv, TypeOK, CallOK, env, thr
<1>. QED  BY <1>1, <1>2, <1>3 DEF Environment

\* The first finished future is a slot.
LEMMA FirstDoneType ==
    ASSUME TypeOK, NEW x \in Slots, NEW c
    PROVE  FirstDone(x, c) \in Slots \cup {NoSlot}
BY DEF FirstDone, TypeOK

\* A response to a future of the attempt keeps TypeInv.
LEMMA RespondTypeInv ==
    ASSUME TypeInv, NEW x \in Slots, Respond(x) PROVE TypeInv'
<1>1. PICK p \in PostResults(calls[x]) :
          /\ calls' = [calls EXCEPT ![x] = p.call]
          /\ accepted' = p.acc
          /\ first' = FirstDone(x, p.call)
  BY DEF Respond
<1>2. p.call \in Calls /\ CallOK(p.call) /\ p.acc \in BOOLEAN
  BY PostResultsType, ConstantsAssumption DEF TypeInv, TypeOK
<1>3. calls' \in [Slots -> Calls] /\ \A y \in Slots : CallOK(calls'[y])
  BY <1>1, <1>2 DEF TypeInv, TypeOK
<1>4. first' \in Slots \cup {NoSlot}
  BY <1>1, FirstDoneType DEF TypeInv
<1>. QED  BY <1>1, <1>2, <1>3, <1>4 DEF Respond, TypeInv, TypeOK

\* update_last_known_state on a future of the attempt keeps TypeInv.
LEMMA ApplyStateTypeInv ==
    ASSUME TypeInv, NEW x \in Slots, ApplyState(x) PROVE TypeInv'
<1>1. calls[x] \in Calls /\ calls[x].ver \in Versions
  BY DEF ApplyState, TypeInv, TypeOK, CallOK
<1>2. Applied(calls[x]) \in Calls /\ Applied(calls[x]).st = "done"
      /\ ApplyKnown(calls[x]) \in KnownStates
  BY <1>1, AppliedType DEF TypeInv
<1>3. calls' \in [Slots -> Calls] /\ \A y \in Slots : CallOK(calls'[y])
  BY <1>2 DEF ApplyState, TypeInv, TypeOK, CallOK
<1>4. first' \in Slots \cup {NoSlot}
  BY FirstDoneType DEF ApplyState, TypeInv
<1>. QED  BY <1>2, <1>3, <1>4 DEF ApplyState, TypeInv, TypeOK, env

\* The steps of the futures nobody waits for keep TypeInv.
LEMMA OrphanStepTypeInv ==
    ASSUME TypeInv, OrphanStep PROVE TypeInv'
<1>1. PICK o \in BagToSet(orphans) : OrphanRespond(o) \/ OrphanApply(o)
  BY DEF OrphanStep
<1>2. o \in Calls /\ CallOK(o)
  BY DEF TypeInv, TypeOK
<1>3. IsABag(orphans (-) SetToBag({o}))
      /\ BagToSet(orphans (-) SetToBag({o})) \subseteq BagToSet(orphans)
  BY BagRemoveType DEF TypeInv, TypeOK
<1>4. CASE OrphanRespond(o)
  <2>1. PICK p \in PostResults(o) :
          /\ orphans' = (orphans (-) SetToBag({o}))
                          (+) SetToBag(IF p.call.st = "done" THEN {} ELSE {p.call})
          /\ accepted' = p.acc
    BY <1>4 DEF OrphanRespond
  <2>2. p.call \in Calls /\ CallOK(p.call) /\ p.acc \in BOOLEAN
    BY <1>2, PostResultsType, ConstantsAssumption DEF TypeInv
  <2>. DEFINE Added == IF p.call.st = "done" THEN {} ELSE {p.call}
  <2>3. IsABag(SetToBag(Added)) /\ BagToSet(SetToBag(Added)) \subseteq {p.call}
    BY SetToBagType
  <2>4. IsABag(orphans') /\ BagToSet(orphans') \subseteq BagToSet(orphans) \cup {p.call}
    BY <2>1, <2>3, <1>3, BagAddType
  <2>5. BagToSet(orphans') \subseteq Calls /\ \A q \in BagToSet(orphans') : CallOK(q)
    BY <2>2, <2>4 DEF TypeInv, TypeOK
  <2>6. UNCHANGED <<head, synced, slot, known, pc, op, tries, calls, first, snap, polls, lastRead, outcome>>
    BY <1>4 DEF OrphanRespond, thr
  <2>7. TypeOK'
    BY <2>1, <2>2, <2>4, <2>5, <2>6 DEF TypeInv, TypeOK
  <2>. QED  BY <2>5, <2>6, <2>7 DEF TypeInv
<1>5. CASE OrphanApply(o)
  <2>1. o.ver \in Versions
    BY <1>2, <1>5 DEF OrphanApply, CallOK
  <2>2. ApplyKnown(o) \in KnownStates
    BY <1>2, <2>1, AppliedType DEF TypeInv
  <2>3. BagToSet(orphans') \subseteq Calls /\ \A q \in BagToSet(orphans') : CallOK(q)
    BY <1>3, <1>5 DEF OrphanApply, TypeInv, TypeOK
  <2>. QED  BY <1>3, <2>2, <2>3, <1>5 DEF OrphanApply, TypeInv, TypeOK, env, thr
<1>. QED  BY <1>1, <1>4, <1>5

\* One iteration of the Retry loop reaching send_request keeps TypeInv.
LEMMA SendTypeInv ==
    ASSUME TypeInv, Send PROVE TypeInv'
<1>1. PICK b \in BackupChoices :
          calls' = [x \in Slots |->
                      [srv |-> IF x = "primary" THEN Primary ELSE b,
                       method |-> op, ign |-> ExecConfig(op).ign,
                       st |-> "pending", ver |-> -1, body |-> "none",
                       res |-> "none"]]
  BY DEF Send
<1>2. b \in Servers /\ ExecConfig(op).ign \in BOOLEAN /\ -1 \in -1 .. MaxVersion
  BY ConstantsAssumption DEF BackupChoices, Servers, ExecConfig
<1>3. calls' \in [Slots -> Calls] /\ \A x \in Slots : CallOK(calls'[x])
  BY <1>1, <1>2 DEF TypeInv, TypeOK, Calls, Servers, Bodies, CallResults, CallOK
<1>4. tries' \in 0 .. MaxRetries
  BY ConstantsAssumption DEF Send, MayCall, TypeInv, TypeOK
<1>. QED  BY <1>3, <1>4 DEF Send, TypeInv, TypeOK, NoSlot, env

\* Retry.execute leaving its loop without a call keeps TypeInv.
LEMMA RetryGivesUpTypeInv ==
    ASSUME TypeInv, RetryGivesUp PROVE TypeInv'
<1>1. op = "lookup"
  BY DEF RetryGivesUp, MayCall, ExecConfig, TypeInv, TypeOK, Methods
<1>2. LookupOutcome("result", "none") \in {"TransactionExpired", "sleep"}
  BY DEF LookupOutcome
<1>3. CASE LookupOutcome("result", "none") = "sleep"
  <2>1. pc' = "top" /\ polls' = polls + 1 /\ outcome' = outcome
    BY <1>1, <1>3 DEF RetryGivesUp, Returned
  <2>2. polls' \in 0 .. MaxPolls
    BY <1>1, <2>1, ConstantsAssumption DEF RetryGivesUp, TypeInv, TypeOK
  <2>. QED  BY <2>1, <2>2 DEF RetryGivesUp, TypeInv, TypeOK, CallOK, env
<1>4. CASE LookupOutcome("result", "none") = "TransactionExpired"
  <2>1. pc' = "done" /\ polls' = polls
        /\ outcome' = [phase |-> "wait", r |-> "TransactionExpired"]
    BY <1>1, <1>4 DEF RetryGivesUp, Returned
  <2>. QED  BY <2>1 DEF RetryGivesUp, TypeInv, TypeOK, CallOK, Outcomes, env
<1>. QED  BY <1>2, <1>3, <1>4

\* The loop condition of wait_for_transaction2 keeps TypeInv.
LEMMA CallerStepTypeInv ==
    ASSUME TypeInv, CallerStep PROVE TypeInv'
<1>1. CASE PollState
  BY <1>1, ConstantsAssumption DEF PollState, TypeInv, TypeOK, Methods, env
<1>2. CASE WaitTimeout
  BY <1>2 DEF WaitTimeout, TypeInv, TypeOK, Outcomes, env
<1>. QED  BY <1>1, <1>2 DEF CallerStep

\* The end of the program keeps TypeInv.
LEMMA FinishedTypeInv ==
    ASSUME TypeInv, Finished PROVE TypeInv'
BY DEF Finished, TypeInv, TypeOK, CallOK, vars, env, thr

\* The future send_request returns is one of the attempt.
LEMMA ChosenType ==
    ASSUME TypeInv PROVE Chosen \subseteq Slots
<1>1. CASE Mode = "direct"
  BY <1>1 DEF Chosen, Slots
<1>2. CASE Mode # "direct"
  <2>1. Slots = {"primary", "backup"}
    BY <1>2 DEF Slots
  <2>2. \A a \in Slots : ResultOf(a) \subseteq Slots
    BY <2>1 DEF ResultOf, OtherSlot
  <2>3. first \in Slots \/ first = NoSlot
    BY DEF TypeInv, TypeOK
  <2>. QED  BY <1>2, <2>1, <2>2, <2>3 DEF Chosen
<1>. QED  BY <1>1, <1>2

\* What the strategy returns, execute raises or the wait loop decides keeps
\* TypeInv.
LEMMA CompleteTypeInv ==
    ASSUME TypeInv, Complete PROVE TypeInv'
<1>1. PICK x \in Chosen :
        LET c == calls[x]
            r == Raised(c)
        IN  /\ orphans' = orphans (+) Running
            /\ calls' = [y \in Slots |-> NoCall]
            /\ IF Retries(r)
               THEN /\ pc' = "send"
                    /\ UNCHANGED <<lastRead, polls, outcome>>
               ELSE /\ Returned(r, c.body)
                    /\ lastRead' = IF r = "result" /\ op # "submit" THEN c.ver ELSE lastRead
  BY DEF Complete
<1> DEFINE c == calls[x]
           r == Raised(c)
<1>2. x \in Slots /\ c \in Calls
  BY ChosenType DEF TypeInv, TypeOK
<1>3. r \in Returns
  BY DEF Raised, Returns
<1>4. IsABag(orphans') /\ BagToSet(orphans') \subseteq Calls
      /\ \A q \in BagToSet(orphans') : CallOK(q)
  <2>1. IsABag(Running)
        /\ BagToSet(Running) =
             {calls[y] : y \in {z \in Slots : calls[z].st \in {"pending", "responded"}}}
    BY RunningType DEF TypeInv, TypeOK
  <2>2. IsABag(orphans) /\ BagToSet(orphans) \subseteq Calls
    BY DEF TypeInv, TypeOK
  <2>3. IsABag(orphans') /\ BagToSet(orphans') = BagToSet(orphans) \cup BagToSet(Running)
    BY <1>1, <2>1, <2>2, BagAddType
  <2>. QED  BY <2>1, <2>3 DEF TypeInv, TypeOK
<1>5. calls' \in [Slots -> Calls] /\ \A y \in Slots : CallOK(calls'[y])
  BY <1>1, ConstantsAssumption DEF NoCall, Calls, Servers, Methods, Bodies, CallResults, CallOK
<1>6. lastRead' \in -1 .. MaxVersion
  BY <1>1, <1>2 DEF TypeInv, TypeOK, Calls
<1>7. CASE Retries(r)
  <2>1. pc' = "send" /\ tries < MaxRetries /\ UNCHANGED <<lastRead, polls, outcome>>
    BY <1>1, <1>7 DEF Retries
  <2>. QED  BY <1>4, <1>5, <2>1 DEF Complete, TypeInv, TypeOK, env
<1>8. CASE ~Retries(r)
  <2>1. Returned(r, c.body)
    BY <1>1, <1>8
  <2>. DEFINE out == IF op = "submit" THEN IF r = "result" THEN "sleep" ELSE r
                   ELSE LookupOutcome(r, c.body)
  <2>2. out \in Returns \cup {"sleep", "found", "TransactionHashMismatchError",
                           "TransactionExecutionFailed", "TransactionExpired"}
    BY <1>3 DEF LookupOutcome, out
  <2>3. CASE out = "sleep"
    <3>1. /\ pc' = "top"
          /\ polls' = IF op = "submit" THEN polls ELSE polls + 1
          /\ outcome' = outcome
      BY <2>1, <2>3 DEF Returned, out
    <3>2. polls' \in 0 .. MaxPolls
      BY <3>1, ConstantsAssumption DEF Complete, TypeInv, TypeOK, Methods
    <3>. QED  BY <1>4, <1>5, <1>6, <3>1, <3>2 DEF Complete, TypeInv, TypeOK, env
  <2>4. CASE out # "sleep"
    <3>1. pc' = "done" /\ polls' = polls
          /\ outcome' = [phase |-> IF op = "submit" THEN "submit" ELSE "wait", r |-> out]
      BY <2>1, <2>4 DEF Returned, out
    <3>2. outcome' \in Outcomes
      BY <3>1, <2>2, <2>4 DEF Outcomes, out
    <3>. QED  BY <1>4, <1>5, <1>6, <3>1, <3>2 DEF Complete, TypeInv, TypeOK, env
  <2>. QED  BY <2>3, <2>4
<1>. QED  BY <1>7, <1>8
-----------------------------------------------------------------------------
\* TypeInv is inductive: every step of Next, or a stutter, keeps it.
LEMMA NextTypeInv ==
    ASSUME TypeInv, [Next]_vars PROVE TypeInv'
<1>1. CASE Send                BY <1>1, SendTypeInv
<1>2. CASE Complete            BY <1>2, CompleteTypeInv
<1>9. CASE RetryGivesUp        BY <1>9, RetryGivesUpTypeInv
<1>3. CASE \E x \in Slots : Respond(x) \/ ApplyState(x)
  BY <1>3, RespondTypeInv, ApplyStateTypeInv
<1>4. CASE CallerStep          BY <1>4, CallerStepTypeInv
<1>5. CASE OrphanStep          BY <1>5, OrphanStepTypeInv
<1>6. CASE Environment         BY <1>6, EnvironmentTypeInv
<1>7. CASE Finished            BY <1>7, FinishedTypeInv
<1>8. CASE UNCHANGED vars
  BY <1>8 DEF vars, env, thr, TypeInv, TypeOK, CallOK
<1>. QED  BY <1>1, <1>2, <1>3, <1>4, <1>5, <1>6, <1>7, <1>8, <1>9 DEF Next, ClientStep

\* Type correctness of the whole client: in every behaviour, every variable
\* keeps its type, which includes that Retry.execute never counts past
\* max_retries and the wait loop never past its bound.
THEOREM TypeCorrect == Spec => []TypeOK
<1>1. Init => TypeInv            BY InitTypeInv
<1>2. TypeInv /\ [Next]_vars => TypeInv'  BY NextTypeInv
<1>3. TypeInv => TypeOK          BY DEF TypeInv
<1>. QED  BY <1>1, <1>2, <1>3, PTL DEF Spec
-----------------------------------------------------------------------------
(***************************************************************************)
(* MonotonicReads.                                                         *)
(***************************************************************************)

\* The inductive invariant behind MonotonicReads: the last version a get
\* call returned is at most the shared last known version; a get-call
\* future whose update_last_known_state succeeded carries a version
\* between the two; the futures of the attempt run the thread's current
\* method with its ignore_stale_response, and none is left between calls.
MonoInv ==
    /\ TypeInv
    /\ lastRead <= known.version
    /\ \A x \in Slots :
          calls[x].st = "done" /\ calls[x].res = "ok" /\ ~calls[x].ign
            => lastRead <= calls[x].ver /\ calls[x].ver <= known.version
    /\ \A x \in Slots :
          /\ calls[x].st # "none" => /\ calls[x].method = op
                                     /\ calls[x].ign = ExecConfig(op).ign
          /\ calls[x].st = "done" => calls[x].res # "none"
          /\ pc \in {"top", "send", "done"} => calls[x].st = "none"

\* update_last_known_state never lowers the stored version; when it
\* stores, the stored version is the response's, at least the old one.
LEMMA UpdatedMonotone ==
    ASSUME NEW curr \in KnownStates, NEW s \in Servers, NEW v \in Versions,
           ConstantsAssumption
    PROVE  /\ Updated(curr, ChainOf[s], v, Ts[v]).version >= curr.version
           /\ UpdateResult(curr, ChainOf[s], v, Ts[v]) = "ok" =>
                 /\ curr.version <= v
                 /\ Updated(curr, ChainOf[s], v, Ts[v]).version = v
<1>1. curr.version \in Int /\ v \in Int
  BY DEF KnownStates, LedgerStates, Unknown, Versions
<1>. QED  BY <1>1 DEF Updated, UpdateResult

\* The stored version is an integer.
LEMMA KnownVersionInt ==
    ASSUME NEW curr \in KnownStates PROVE curr.version \in Int
BY ConstantsAssumption DEF KnownStates, LedgerStates, Unknown, Versions

\* A step that leaves the attempt, the thread and lastRead alone and does
\* not lower the shared version keeps MonoInv.
LEMMA KnownGrowsMonoInv ==
    ASSUME MonoInv, TypeInv',
           UNCHANGED <<calls, lastRead, pc, op>>,
           known'.version >= known.version
    PROVE  MonoInv'
<1>1. known.version \in Int /\ known'.version \in Int /\ lastRead \in Int
  BY DEF MonoInv, TypeInv, TypeOK, KnownStates, LedgerStates, Unknown, Versions
<1>2. \A x \in Slots : calls[x].ver \in Int
  BY DEF MonoInv, TypeInv, TypeOK, Calls
<1>. QED  BY <1>1, <1>2 DEF MonoInv

\* session.post keeps the request's method and ignore_stale_response; a
\* future it finishes has failed with a RequestException.
LEMMA PostResultsFields ==
    ASSUME NEW c \in Calls, NEW p \in PostResults(c)
    PROVE  /\ p.call.method = c.method
           /\ p.call.ign = c.ign
           /\ p.call.st = "done" => p.call.res = "neterr"
<1> DEFINE lost == [c EXCEPT !.st = "done", !.res = "neterr"]
          Acc(v) == accepted \/ (c.method = "submit" /\ ServerBody(v, c.method) = "accepted")
          Resp(v) == [c EXCEPT !.st = "responded", !.ver = v, !.body = ServerBody(v, c.method)]
<1>1. PostResults(c) = {[call |-> lost, acc |-> accepted]}
                       \cup {[call |-> Resp(v), acc |-> Acc(v)] : v \in 0 .. synced[c.srv]}
                       \cup (IF c.method = "submit"
                             THEN {[call |-> lost, acc |-> Acc(v)] : v \in 0 .. synced[c.srv]}
                             ELSE {})
  BY DEF PostResults
<1>2. lost.method = c.method /\ lost.ign = c.ign /\ lost.st = "done" /\ lost.res = "neterr"
  BY DEF Calls
<1>3. \A v : Resp(v).method = c.method /\ Resp(v).ign = c.ign /\ Resp(v).st = "responded"
  BY DEF Calls
<1>4. CASE p = [call |-> lost, acc |-> accepted]
  BY <1>4, <1>2
<1>5. CASE \E v \in 0 .. synced[c.srv] : p = [call |-> Resp(v), acc |-> Acc(v)]
  <2>1. PICK v \in 0 .. synced[c.srv] : p = [call |-> Resp(v), acc |-> Acc(v)]
    BY <1>5
  <2>. QED  BY <2>1, <1>3
<1>6. CASE \E v \in 0 .. synced[c.srv] : p = [call |-> lost, acc |-> Acc(v)]
  <2>1. PICK v \in 0 .. synced[c.srv] : p = [call |-> lost, acc |-> Acc(v)]
    BY <1>6
  <2>. QED  BY <2>1, <1>2
<1>. QED  BY <1>1, <1>4, <1>5, <1>6

\* What session.post makes of a future: lost, with nothing else changed,
\* or answered by a replica of its server at a version it has synced,
\* with the body that version gives.
LEMMA PostResultsCases ==
    ASSUME NEW c \in Calls, NEW p \in PostResults(c)
    PROVE  \/ p.call = [c EXCEPT !.st = "done", !.res = "neterr"]
           \/ \E v \in 0 .. synced[c.srv] :
                 p.call = [c EXCEPT !.st = "responded", !.ver = v,
                                    !.body = ServerBody(v, c.method)]
<1> DEFINE lost == [c EXCEPT !.st = "done", !.res = "neterr"]
           Acc(v) == accepted \/ (c.method = "submit" /\ ServerBody(v, c.method) = "accepted")
           Resp(v) == [c EXCEPT !.st = "responded", !.ver = v, !.body = ServerBody(v, c.method)]
<1>1. PostResults(c) = {[call |-> lost, acc |-> accepted]}
                       \cup {[call |-> Resp(v), acc |-> Acc(v)] : v \in 0 .. synced[c.srv]}
                       \cup (IF c.method = "submit"
                             THEN {[call |-> lost, acc |-> Acc(v)] : v \in 0 .. synced[c.srv]}
                             ELSE {})
  BY DEF PostResults
<1>2. CASE p = [call |-> lost, acc |-> accepted]
  BY <1>2 DEF lost
<1>3. CASE \E v \in 0 .. synced[c.srv] : p = [call |-> Resp(v), acc |-> Acc(v)]
  <2>1. PICK v \in 0 .. synced[c.srv] : p = [call |-> Resp(v), acc |-> Acc(v)]
    BY <1>3
  <2>. QED  BY <2>1 DEF Resp
<1>4. CASE \E v \in 0 .. synced[c.srv] : p = [call |-> lost, acc |-> Acc(v)]
  <2>1. PICK v \in 0 .. synced[c.srv] : p = [call |-> lost, acc |-> Acc(v)]
    BY <1>4
  <2>. QED  BY <2>1 DEF lost
<1>. QED  BY <1>1, <1>2, <1>3, <1>4


\* send_request returns a finished future.
LEMMA ChosenDone ==
    ASSUME TypeInv, NEW x \in Chosen PROVE calls[x].st = "done"
BY DEF Chosen, ResultOf, Done, OkDone

\* execute_without_retry returns a result only for a future whose
\* _send_http_request returned.
LEMMA RaisedResult ==
    ASSUME NEW c \in Calls, c.res # "none", Raised(c) = "result"
    PROVE  c.res = "ok"
BY DEF Raised, Calls, CallResults

\* A response to a future of the attempt keeps MonoInv.
LEMMA RespondMonoInv ==
    ASSUME MonoInv, TypeInv', NEW x \in Slots, Respond(x) PROVE MonoInv'
<1>1. PICK p \in PostResults(calls[x]) : calls' = [calls EXCEPT ![x] = p.call]
  BY DEF Respond
<1>2. /\ p.call.method = calls[x].method
      /\ p.call.ign = calls[x].ign
      /\ p.call.st = "done" => p.call.res = "neterr"
  BY PostResultsFields DEF MonoInv, TypeInv, TypeOK
<1>3. calls[x].st = "pending" /\ UNCHANGED <<known, lastRead, pc, op>>
  BY DEF Respond
<1>4. pc \notin {"top", "send", "done"}
  BY <1>3 DEF MonoInv
<1>. QED  BY <1>1, <1>2, <1>3, <1>4 DEF MonoInv

\* update_last_known_state on a future of the attempt keeps MonoInv.
LEMMA ApplyStateMonoInv ==
    ASSUME MonoInv, TypeInv', NEW x \in Slots, ApplyState(x) PROVE MonoInv'
<1> DEFINE c == calls[x]
           u == UpdateResult(known, ChainOf[c.srv], c.ver, Ts[c.ver])
<1>1. c \in Calls /\ c.ver \in Versions /\ c.st = "responded"
  BY DEF ApplyState, MonoInv, TypeInv, TypeOK, CallOK
<1>2. calls' = [calls EXCEPT ![x] = Applied(c)] /\ known' = ApplyKnown(c)
      /\ UNCHANGED <<lastRead, pc, op>>
  BY DEF ApplyState
<1>3. /\ Applied(c).method = c.method /\ Applied(c).ign = c.ign
      /\ Applied(c).st = "done" /\ Applied(c).ver = c.ver
      /\ Applied(c).res = IF u = "stale" /\ c.ign THEN "ok" ELSE u
  BY <1>1 DEF Applied, Calls
<1>4. u \in {"invalid", "stale", "ok"}
  BY DEF UpdateResult
<1>5. /\ ApplyKnown(c).version >= known.version
      /\ u = "ok" => known.version <= c.ver /\ ApplyKnown(c).version = c.ver
  BY <1>1, UpdatedMonotone, ConstantsAssumption DEF ApplyKnown, MonoInv, TypeInv, TypeOK, Calls
<1>6. known.version \in Int /\ lastRead \in Int /\ \A y \in Slots : calls[y].ver \in Int
  BY DEF MonoInv, TypeInv, TypeOK, Calls, KnownStates, LedgerStates, Unknown, Versions
<1>7. pc \notin {"top", "send", "done"}
  BY <1>1 DEF MonoInv
<1>12. known'.version \in Int
  <2>1. ApplyKnown(c) \in KnownStates
    BY <1>1, AppliedType DEF MonoInv, TypeInv
  <2>. QED  BY <2>1, <1>2 DEF KnownStates, LedgerStates, Unknown, Versions
<1>8. lastRead' <= known'.version
  BY <1>2, <1>5, <1>6, <1>12 DEF MonoInv
<1>9. calls \in [Slots -> Calls]
  BY DEF MonoInv, TypeInv, TypeOK
<1>10. ASSUME NEW y \in Slots,
              calls'[y].st = "done", calls'[y].res = "ok", ~calls'[y].ign
       PROVE  lastRead' <= calls'[y].ver /\ calls'[y].ver <= known'.version
  <2>1. CASE y = x
    <3>1. u = "ok"
      BY <1>2, <1>3, <1>9, <1>10, <2>1
    <3>2. known.version <= c.ver /\ known'.version = c.ver
      BY <3>1, <1>5, <1>2 DEF ApplyKnown
    <3>3. lastRead <= known.version
      BY DEF MonoInv
    <3>. QED  BY <3>2, <3>3, <1>2, <1>3, <1>6, <1>9, <2>1
  <2>2. CASE y # x
    <3>1. calls'[y] = calls[y]
      BY <1>2, <1>9, <2>2
    <3>. QED  BY <3>1, <1>2, <1>5, <1>6, <1>10, <1>12 DEF MonoInv
  <2>. QED  BY <2>1, <2>2
<1>11. ASSUME NEW y \in Slots
       PROVE  /\ calls'[y].st # "none" => /\ calls'[y].method = op'
                                         /\ calls'[y].ign = ExecConfig(op').ign
              /\ calls'[y].st = "done" => calls'[y].res # "none"
              /\ pc' \in {"top", "send", "done"} => calls'[y].st = "none"
  <2>1. CASE y = x
    BY <2>1, <1>1, <1>2, <1>3, <1>4, <1>7, <1>9 DEF MonoInv
  <2>2. CASE y # x
    BY <2>2, <1>2, <1>7, <1>9 DEF MonoInv
  <2>. QED  BY <2>1, <2>2
<1>. QED  BY <1>8, <1>10, <1>11 DEF MonoInv

\* One iteration of the Retry loop reaching send_request keeps MonoInv.
LEMMA SendMonoInv ==
    ASSUME MonoInv, TypeInv', Send PROVE MonoInv'
<1>1. PICK b \in BackupChoices :
          calls' = [x \in Slots |->
                      [srv |-> IF x = "primary" THEN Primary ELSE b,
                       method |-> op, ign |-> ExecConfig(op).ign,
                       st |-> "pending", ver |-> -1, body |-> "none",
                       res |-> "none"]]
  BY DEF Send
<1>. QED  BY <1>1 DEF Send, MonoInv

\* The loop condition of wait_for_transaction2 keeps MonoInv: no future
\* is running when it is evaluated.
LEMMA CallerStepMonoInv ==
    ASSUME MonoInv, TypeInv', CallerStep PROVE MonoInv'
<1>1. \A x \in Slots : calls[x].st = "none"
  BY DEF CallerStep, PollState, WaitTimeout, MonoInv
<1>. QED  BY <1>1 DEF CallerStep, PollState, WaitTimeout, MonoInv

\* When send_request, execute and the wait loop are done with an attempt,
\* the version a get call returns is at least the last one returned and
\* at most the shared last known version; MonoInv is kept.
LEMMA CompleteMonoInv ==
    ASSUME MonoInv, TypeInv', Complete
    PROVE  MonoInv' /\ lastRead' >= lastRead
<1>1. PICK x \in Chosen :
        LET c == calls[x]
            r == Raised(c)
        IN  /\ calls' = [y \in Slots |-> NoCall]
            /\ IF Retries(r)
               THEN UNCHANGED lastRead
               ELSE lastRead' = IF r = "result" /\ op # "submit" THEN c.ver ELSE lastRead
  BY DEF Complete
<1> DEFINE c == calls[x]
           r == Raised(c)
<1>2. x \in Slots /\ c \in Calls /\ c.st = "done"
  BY ChosenType, ChosenDone DEF MonoInv, TypeInv, TypeOK
<1>3. UNCHANGED <<known, op>>
  BY DEF Complete
<1>4. lastRead \in Int /\ known.version \in Int /\ c.ver \in Int
  BY <1>2 DEF MonoInv, TypeInv, TypeOK, Calls, KnownStates, LedgerStates, Unknown, Versions
<1>5. lastRead <= known.version
  BY DEF MonoInv
<1>6. lastRead' = lastRead \/ (lastRead' = c.ver /\ r = "result" /\ op # "submit")
  BY <1>1
<1>7. ASSUME r = "result", op # "submit"
      PROVE  lastRead <= c.ver /\ c.ver <= known.version
  <2>1. c.res = "ok"
    BY <1>2, <1>7, RaisedResult DEF MonoInv
  <2>2. ~c.ign
    BY <1>2, <1>7 DEF MonoInv, TypeInv, TypeOK, ExecConfig, Methods
  <2>. QED  BY <1>2, <2>1, <2>2 DEF MonoInv
<1>8. lastRead' >= lastRead /\ lastRead' <= known'.version
  BY <1>3, <1>4, <1>5, <1>6, <1>7
<1>9. \A y \in Slots : calls'[y].st = "none"
  BY <1>1 DEF NoCall
<1>. QED  BY <1>3, <1>8, <1>9 DEF MonoInv

\* The steps of the futures nobody waits for keep MonoInv.
LEMMA OrphanStepMonoInv ==
    ASSUME MonoInv, TypeInv', OrphanStep PROVE MonoInv'
<1>1. PICK o \in BagToSet(orphans) : OrphanRespond(o) \/ OrphanApply(o)
  BY DEF OrphanStep
<1>2. CASE OrphanRespond(o)
  BY <1>2, KnownGrowsMonoInv DEF OrphanRespond, thr, MonoInv, TypeInv, TypeOK,
     KnownStates, LedgerStates, Unknown, Versions
<1>3. CASE OrphanApply(o)
  <2>1. o \in Calls /\ o.ver \in Versions
    BY <1>3 DEF OrphanApply, MonoInv, TypeInv, TypeOK, CallOK
  <2>2. known'.version >= known.version
    BY <2>1, <1>3, UpdatedMonotone, ConstantsAssumption
       DEF OrphanApply, ApplyKnown, MonoInv, TypeInv, TypeOK, Calls
  <2>. QED  BY <1>3, <2>2, KnownGrowsMonoInv DEF OrphanApply, thr
<1>. QED  BY <1>1, <1>2, <1>3

\* The ledger, the servers and the other threads keep MonoInv: the other
\* threads only raise the shared version.
LEMMA EnvironmentMonoInv ==
    ASSUME MonoInv, TypeInv', Environment PROVE MonoInv'
<1>1. known.version \in Int
  BY KnownVersionInt DEF MonoInv, TypeInv, TypeOK
<1>2. CASE Commit
  BY <1>1, <1>2, KnownGrowsMonoInv DEF Commit, thr
<1>3. CASE \E s \in Servers : Sync(s)
  BY <1>1, <1>3, KnownGrowsMonoInv DEF Sync, thr
<1>4. ASSUME NEW s \in Servers, NEW v \in Versions, OtherThreadUpdate(s, v) PROVE MonoInv'
  <2>1. known'.version >= known.version
    BY <1>4, UpdatedMonotone, ConstantsAssumption DEF OtherThreadUpdate, MonoInv, TypeInv, TypeOK
  <2>. QED  BY <1>4, <2>1, KnownGrowsMonoInv DEF OtherThreadUpdate, thr
<1>. QED  BY <1>2, <1>3, <1>4 DEF Environment

\* Every step keeps MonoInv and never lowers lastRead.
LEMMA NextMonoInv ==
    ASSUME MonoInv, [Next]_vars PROVE MonoInv' /\ [lastRead' >= lastRead]_vars
<1>1. TypeInv'
  BY NextTypeInv DEF MonoInv
<1>2. lastRead \in Int
  BY DEF MonoInv, TypeInv, TypeOK
<1>3. CASE Send                BY <1>1, <1>2, <1>3, SendMonoInv DEF Send
<1>4. CASE Complete            BY <1>1, <1>4, CompleteMonoInv
<1>10. CASE RetryGivesUp
  <2>1. UNCHANGED lastRead
    BY <1>10 DEF RetryGivesUp
  <2>2. \A x \in Slots : calls[x].st = "none"
    BY <1>10 DEF RetryGivesUp, MonoInv
  <2>3. MonoInv'
    BY <1>1, <1>10, <2>1, <2>2 DEF RetryGivesUp, MonoInv
  <2>. QED  BY <1>2, <2>1, <2>3
<1>5. ASSUME NEW x \in Slots, Respond(x) \/ ApplyState(x)
      PROVE  MonoInv' /\ [lastRead' >= lastRead]_vars
  <2>1. UNCHANGED lastRead
    BY <1>5 DEF Respond, ApplyState
  <2>2. MonoInv'
    BY <1>1, <1>5, RespondMonoInv, ApplyStateMonoInv
  <2>. QED  BY <1>2, <2>1, <2>2
<1>6. CASE CallerStep
  <2>1. UNCHANGED lastRead
    BY <1>6 DEF CallerStep, PollState, WaitTimeout
  <2>. QED  BY <1>1, <1>2, <1>6, <2>1, CallerStepMonoInv
<1>7. CASE OrphanStep
  <2>1. UNCHANGED lastRead
    <3>1. PICK o \in BagToSet(orphans) : OrphanRespond(o) \/ OrphanApply(o)
      BY <1>7 DEF OrphanStep
    <3>. QED  BY <3>1 DEF OrphanRespond, OrphanApply, thr
  <2>. QED  BY <1>1, <1>2, <1>7, <2>1, OrphanStepMonoInv
<1>8. CASE Environment
  <2>1. UNCHANGED lastRead
    BY <1>8 DEF Environment, Commit, Sync, OtherThreadUpdate, thr
  <2>. QED  BY <1>1, <1>2, <1>8, <2>1, EnvironmentMonoInv
<1>9. CASE Finished \/ UNCHANGED vars
  BY <1>9 DEF Finished, MonoInv, TypeInv, TypeOK, CallOK, vars, env, thr
<1>. QED  BY <1>3, <1>4, <1>5, <1>6, <1>7, <1>8, <1>9, <1>10 DEF Next, ClientStep

\* MonotonicReads for every value of the constants: a get call of the
\* thread never returns a response from an older ledger version than one
\* it returned before, whatever other threads, orphaned futures, retries
\* and the two futures of RequestWithBackups do to the shared state.
THEOREM MonotonicReadsThm == Spec => MonotonicReads
<1>1. Init => MonoInv
  <2>1. SUFFICES ASSUME Init PROVE MonoInv
    OBVIOUS
  <2>2. TypeInv
    BY <2>1, InitTypeInv
  <2>. QED  BY <2>1, <2>2 DEF Init, MonoInv, Unknown, NoCall
<1>2. MonoInv /\ [Next]_vars => MonoInv' /\ [lastRead' >= lastRead]_vars
  BY NextMonoInv
<1>. QED  BY <1>1, <1>2, PTL DEF Spec, MonotonicReads
=============================================================================
