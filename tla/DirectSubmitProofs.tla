------------------------- MODULE DirectSubmitProofs -------------------------
(***************************************************************************)
(* Proof of SubmitErrorMeansNotExecuted for the Client's default request  *)
(* strategy (RequestStrategy, Mode = "direct"): submit raises JsonRpcError *)
(* SEQUENCE_NUMBER_TOO_OLD only when another transaction holds the         *)
(* sequence number. With RequestWithBackups the property fails (runs      *)
(* submit_race and submit_lost_fallback).                                  *)
(***************************************************************************)
EXTENDS JsonRpcClientProofs

\* The inductive invariant behind SubmitErrorMeansNotExecuted in direct
\* mode. Besides MonoInv: no future is ever left running; this transaction
\* only executes once some server accepted it, and no server has accepted
\* it before the one submit call has answered; so an answer of
\* SEQUENCE_NUMBER_TOO_OLD, and the JsonRpcError submit raises for it,
\* mean the slot holds another transaction.
SubmitInv ==
    /\ MonoInv
    /\ orphans = EmptyBag
    /\ slot.who = "ours" => accepted
    /\ op = "submit" /\ pc = "send" => ~accepted
    /\ op = "submit" /\ pc = "await" /\ calls["primary"].st = "pending" => ~accepted
    /\ calls["primary"].body \in RpcErrorBodies => slot.who = "other"
    /\ outcome = [phase |-> "submit", r |-> "JsonRpcError"] => slot.who = "other"
-----------------------------------------------------------------------------
(***************************************************************************)
(* SubmitInv is inductive in direct mode.                                  *)
(***************************************************************************)

\* With RequestStrategy there is one slot, the primary's.
LEMMA DirectSlots ==
    ASSUME Mode = "direct" PROVE Slots = {"primary"}
BY DEF Slots

\* A fresh Client about to submit satisfies SubmitInv.
LEMMA InitSubmitInv == Init => SubmitInv
<1>1. SUFFICES ASSUME Init PROVE SubmitInv
  OBVIOUS
<1>2. TypeInv
  BY <1>1, InitTypeInv
<1>3. MonoInv
  BY <1>1, <1>2 DEF Init, MonoInv, Unknown, NoCall
<1>4. calls["primary"].body = "none"
  BY <1>1 DEF Init, NoCall, Slots
<1>. QED  BY <1>1, <1>3, <1>4 DEF Init, SubmitInv, EmptySlot, NoOutcome, RpcErrorBodies

\* With one slot, send_request never leaves a future running: the bag of
\* running futures it hands to the executor is empty.
LEMMA DirectNothingRunning ==
    ASSUME Mode = "direct", TypeInv, NEW x \in Chosen
    PROVE  orphans (+) Running = orphans
<1>1. x = "primary" /\ calls["primary"].st = "done"
  BY ChosenType, ChosenDone, DirectSlots
<1>2. {y \in Slots : calls[y].st \in {"pending", "responded"}} = {}
  BY <1>1, DirectSlots
<1>3. Running = EmptyBag
  BY <1>2 DEF Running, EmptyBag, SetToBag
<1>4. IsABag(orphans)
  BY DEF TypeInv, TypeOK
<1>. QED  BY <1>3, <1>4 DEF (+), EmptyBag, SetToBag, IsABag

\* The ledger, the servers and the other threads keep SubmitInv: the slot
\* only takes this transaction once a server accepted it, and a slot taken
\* stays as it is.
LEMMA EnvironmentSubmitInv ==
    ASSUME SubmitInv, MonoInv', Environment PROVE SubmitInv'
<1>1. CASE Commit
  <2>1. UNCHANGED <<accepted, calls, pc, op, outcome, orphans>>
    BY <1>1 DEF Commit, thr
  <2>2. \/ UNCHANGED slot
        \/ slot.who = "none" /\ (slot'.who = "ours" => accepted)
    BY <1>1 DEF Commit
  <2>. QED  BY <2>1, <2>2 DEF SubmitInv
<1>2. CASE \E s \in Servers : Sync(s)
  BY <1>2 DEF Sync, thr, SubmitInv
<1>3. CASE \E s \in Servers, v \in Versions : OtherThreadUpdate(s, v)
  BY <1>3 DEF OtherThreadUpdate, thr, env, SubmitInv
<1>. QED  BY <1>1, <1>2, <1>3 DEF Environment

\* A response to the submit call in direct mode keeps SubmitInv: when the
\* server answers SEQUENCE_NUMBER_TOO_OLD, no server had accepted the
\* transaction yet, so the used slot is another transaction's.
LEMMA RespondSubmitInv ==
    ASSUME Mode = "direct", SubmitInv, MonoInv', NEW x \in Slots, Respond(x)
    PROVE  SubmitInv'
<1> DEFINE c == calls[x]
<1>1. x = "primary" /\ c \in Calls /\ c.st = "pending"
  BY DirectSlots DEF Respond, SubmitInv, MonoInv, TypeInv, TypeOK, c
<1>2. PICK p \in PostResults(c) :
         /\ calls' = [calls EXCEPT ![x] = p.call]
         /\ accepted' = p.acc
  BY DEF Respond, c
<1>3. UNCHANGED <<slot, pc, op, outcome, orphans>>
  BY DEF Respond
<1>4. pc = "await" /\ c.method = op
  BY <1>1 DEF SubmitInv, MonoInv, TypeInv, TypeOK, c
<1>5. calls \in [Slots -> Calls] /\ slot \in SlotValues /\ accepted \in BOOLEAN
  BY DEF SubmitInv, MonoInv, TypeInv, TypeOK
<1>6. accepted => accepted'
  <2> DEFINE lost == [c EXCEPT !.st = "done", !.res = "neterr"]
             Acc(v) == accepted \/ (c.method = "submit" /\ ServerBody(v, c.method) = "accepted")
             Resp(v) == [c EXCEPT !.st = "responded", !.ver = v, !.body = ServerBody(v, c.method)]
  <2>1. PostResults(c) = {[call |-> lost, acc |-> accepted]}
                         \cup {[call |-> Resp(v), acc |-> Acc(v)] : v \in 0 .. synced[c.srv]}
                         \cup (IF c.method = "submit"
                               THEN {[call |-> lost, acc |-> Acc(v)] : v \in 0 .. synced[c.srv]}
                               ELSE {})
    BY DEF PostResults
  <2>2. CASE p = [call |-> lost, acc |-> accepted]
    BY <2>2, <1>2
  <2>3. CASE \E v \in 0 .. synced[c.srv] : p = [call |-> Resp(v), acc |-> Acc(v)]
    <3>1. PICK v \in 0 .. synced[c.srv] : p = [call |-> Resp(v), acc |-> Acc(v)]
      BY <2>3
    <3>2. accepted' = Acc(v)
      BY <3>1, <1>2
    <3>. QED  BY <3>2, Zenon DEF Acc
  <2>4. CASE \E v \in 0 .. synced[c.srv] : p = [call |-> lost, acc |-> Acc(v)]
    <3>1. PICK v \in 0 .. synced[c.srv] : p = [call |-> lost, acc |-> Acc(v)]
      BY <2>4
    <3>2. accepted' = Acc(v)
      BY <3>1, <1>2
    <3>. QED  BY <3>2, Zenon DEF Acc
  <2>. QED  BY <2>1, <2>2, <2>3, <2>4
<1>7. p.call.body \in RpcErrorBodies => slot.who = "other"
  <2>1. SUFFICES ASSUME p.call.body \in RpcErrorBodies PROVE slot.who = "other"
    OBVIOUS
  <2>2. CASE p.call = [c EXCEPT !.st = "done", !.res = "neterr"]
    BY <2>1, <2>2, <1>1 DEF SubmitInv, Calls, c
  <2>3. CASE \E v \in 0 .. synced[c.srv] :
               p.call = [c EXCEPT !.st = "responded", !.ver = v,
                                  !.body = ServerBody(v, c.method)]
    <3>1. PICK v \in 0 .. synced[c.srv] :
               p.call = [c EXCEPT !.st = "responded", !.ver = v,
                                  !.body = ServerBody(v, c.method)]
      BY <2>3
    <3>2. ServerBody(v, c.method) \in RpcErrorBodies
      BY <2>1, <3>1, <1>1 DEF Calls
    <3>3. c.method = "submit" /\ SeqUsedAt(v)
      BY <3>2 DEF ServerBody, LookupBody, RpcErrorBodies
    <3>4. ~accepted
      BY <1>1, <1>4, <3>3 DEF SubmitInv, c
    <3>. QED  BY <3>3, <3>4, <1>5 DEF SubmitInv, SeqUsedAt, SlotValues
  <2>4. \/ p.call = [c EXCEPT !.st = "done", !.res = "neterr"]
        \/ \E v \in 0 .. synced[c.srv] :
              p.call = [c EXCEPT !.st = "responded", !.ver = v,
                                 !.body = ServerBody(v, c.method)]
    BY <1>1, <1>2, PostResultsCases
  <2>. QED  BY <2>2, <2>3, <2>4
<1>8. p.call.st # "pending"
  BY <1>1, <1>2, PostResultsType, ConstantsAssumption DEF SubmitInv, MonoInv, TypeInv
<1>9. calls'["primary"] = p.call
  BY <1>1, <1>2, <1>5
<1>. QED  BY <1>3, <1>4, <1>6, <1>7, <1>8, <1>9 DEF SubmitInv

\* update_last_known_state on the future keeps SubmitInv: the body and
\* accepted stay as they are.
LEMMA ApplyStateSubmitInv ==
    ASSUME Mode = "direct", SubmitInv, MonoInv', NEW x \in Slots, ApplyState(x)
    PROVE  SubmitInv'
<1> DEFINE c == calls[x]
<1>1. x = "primary" /\ c \in Calls /\ calls \in [Slots -> Calls]
  BY DirectSlots DEF ApplyState, SubmitInv, MonoInv, TypeInv, TypeOK, c
<1>2. calls' = [calls EXCEPT ![x] = Applied(c)]
      /\ UNCHANGED <<slot, accepted, pc, op, outcome, orphans>>
  BY DEF ApplyState, c, env
<1>3. Applied(c).body = c.body /\ Applied(c).st = "done"
  BY <1>1 DEF Applied, Calls
<1>4. calls'["primary"] = Applied(c)
  BY <1>1, <1>2
<1>. QED  BY <1>1, <1>2, <1>3, <1>4 DEF SubmitInv, c

\* send_request submitting the one future keeps SubmitInv: the submit is
\* sent while no server has accepted the transaction.
LEMMA SendSubmitInv ==
    ASSUME Mode = "direct", SubmitInv, MonoInv', Send PROVE SubmitInv'
<1>1. PICK b \in BackupChoices :
          calls' = [x \in Slots |->
                      [srv |-> IF x = "primary" THEN Primary ELSE b,
                       method |-> op, ign |-> ExecConfig(op).ign,
                       st |-> "pending", ver |-> -1, body |-> "none",
                       res |-> "none"]]
  BY DEF Send
<1>2. calls'["primary"].body = "none"
  BY <1>1, DirectSlots
<1>3. pc = "send" /\ pc' = "await"
      /\ UNCHANGED <<slot, accepted, op, outcome, orphans>>
  BY DEF Send, env
<1>. QED  BY <1>2, <1>3 DEF SubmitInv, RpcErrorBodies

\* Retry giving up before a call, and the wait loop's condition, concern
\* only the lookup: they keep SubmitInv.
LEMMA LookupStepSubmitInv ==
    ASSUME SubmitInv, MonoInv', RetryGivesUp \/ CallerStep PROVE SubmitInv'
<1>1. \A x \in Slots : calls[x].st = "none"
  BY DEF RetryGivesUp, CallerStep, PollState, WaitTimeout, SubmitInv, MonoInv
<1>2. CASE RetryGivesUp
  <2>1. op = "lookup"
    BY <1>2 DEF RetryGivesUp, MayCall, ExecConfig, SubmitInv, MonoInv, TypeInv,
       TypeOK, Methods
  <2>2. outcome' = outcome \/ outcome'.phase = "wait"
    BY <1>2, <2>1 DEF RetryGivesUp, Returned
  <2>3. UNCHANGED <<slot, accepted, op, calls, orphans>>
    BY <1>2 DEF RetryGivesUp, env
  <2>. QED  BY <2>1, <2>2, <2>3 DEF SubmitInv
<1>3. CASE PollState
  BY <1>3 DEF PollState, env, SubmitInv
<1>4. CASE WaitTimeout
  BY <1>4 DEF WaitTimeout, env, SubmitInv
<1>. QED  BY <1>2, <1>3, <1>4 DEF CallerStep

\* execute_without_retry raises JsonRpcError only for an error body.
LEMMA RaisedRpcError ==
    ASSUME NEW c, Raised(c) = "JsonRpcError" PROVE c.body \in RpcErrorBodies
BY DEF Raised

\* submit returning or raising keeps SubmitInv: it raises JsonRpcError
\* only for the SEQUENCE_NUMBER_TOO_OLD answer of its one future, and in
\* direct mode it leaves no future running.
LEMMA CompleteSubmitInv ==
    ASSUME Mode = "direct", SubmitInv, MonoInv', Complete PROVE SubmitInv'
<1>1. PICK x \in Chosen :
        LET c == calls[x]
            r == Raised(c)
        IN  /\ orphans' = orphans (+) Running
            /\ calls' = [y \in Slots |-> NoCall]
            /\ IF Retries(r)
               THEN /\ pc' = "send"
                    /\ UNCHANGED outcome
               ELSE Returned(r, c.body)
  BY DEF Complete
<1> DEFINE c == calls[x]
           r == Raised(c)
<1>2. x = "primary" /\ orphans' = orphans
  BY <1>1, DirectSlots, ChosenType, DirectNothingRunning DEF SubmitInv, MonoInv
<1>3. UNCHANGED <<slot, accepted, op>>
  BY DEF Complete, env
<1>4. calls'["primary"].body = "none"
  BY <1>1, DirectSlots DEF NoCall
<1>5. op \in Methods
  BY DEF SubmitInv, MonoInv, TypeInv, TypeOK
<1>6. CASE Retries(r)
  <2>1. op = "lookup" /\ pc' = "send" /\ UNCHANGED outcome
    BY <1>1, <1>5, <1>6 DEF Retries, ExecConfig, Methods, r, c
  <2>. QED  BY <1>2, <1>3, <1>4, <2>1 DEF SubmitInv, RpcErrorBodies
<1>7. CASE ~Retries(r)
  <2> DEFINE o == IF op = "submit" THEN IF r = "result" THEN "sleep" ELSE r
                  ELSE LookupOutcome(r, c.body)
  <2>1. \/ pc' = "top" /\ UNCHANGED outcome
        \/ pc' = "done" /\ outcome' = [phase |-> IF op = "submit" THEN "submit" ELSE "wait",
                                       r |-> o]
    BY <1>1, <1>7 DEF Returned, o, r, c
  <2>2. outcome' = [phase |-> "submit", r |-> "JsonRpcError"] => slot'.who = "other"
    <3>1. SUFFICES ASSUME outcome' = [phase |-> "submit", r |-> "JsonRpcError"],
                          outcome # outcome'
                   PROVE  slot'.who = "other"
      BY <1>3 DEF SubmitInv
    <3>2. op = "submit" /\ r = "JsonRpcError"
      BY <2>1, <3>1 DEF o
    <3>3. calls["primary"].body \in RpcErrorBodies
      BY <3>2, <1>2, RaisedRpcError DEF r, c
    <3>. QED  BY <3>3, <1>3 DEF SubmitInv
  <2>. QED  BY <1>2, <1>3, <1>4, <2>1, <2>2 DEF SubmitInv, RpcErrorBodies
<1>. QED  BY <1>6, <1>7

\* Every step keeps SubmitInv in direct mode; no future is ever orphaned,
\* so the orphans' steps cannot happen.
LEMMA NextSubmitInv ==
    ASSUME Mode = "direct", SubmitInv, [Next]_vars PROVE SubmitInv'
<1>1. MonoInv'
  BY NextMonoInv DEF SubmitInv
<1>2. CASE Send          BY <1>1, <1>2, SendSubmitInv
<1>3. CASE Complete      BY <1>1, <1>3, CompleteSubmitInv
<1>4. ASSUME NEW x \in Slots, Respond(x) \/ ApplyState(x) PROVE SubmitInv'
  BY <1>1, <1>4, RespondSubmitInv, ApplyStateSubmitInv
<1>5. CASE RetryGivesUp \/ CallerStep
  BY <1>1, <1>5, LookupStepSubmitInv
<1>6. CASE OrphanStep
  <2>1. BagToSet(orphans) = {}
    BY DEF SubmitInv, BagToSet, EmptyBag, SetToBag
  <2>. QED  BY <1>6, <2>1 DEF OrphanStep
<1>7. CASE Environment   BY <1>1, <1>7, EnvironmentSubmitInv
<1>8. CASE Finished \/ UNCHANGED vars
  <2>1. UNCHANGED vars
    BY <1>8 DEF Finished
  <2>. QED  BY <1>1, <2>1 DEF vars, env, thr, SubmitInv
<1>. QED  BY <1>2, <1>3, <1>4, <1>5, <1>6, <1>7, <1>8 DEF Next, ClientStep

\* SubmitErrorMeansNotExecuted for every value of the constants with the
\* default RequestStrategy: submit raises JsonRpcError only when another
\* transaction holds the sequence number, never for this transaction
\* executed, whatever the ledger, lagging servers, lost responses and
\* other threads do.
THEOREM SubmitErrorThm ==
    ASSUME Mode = "direct" PROVE Spec => []SubmitErrorMeansNotExecuted
<1>1. Init => SubmitInv
  BY InitSubmitInv
<1>2. SubmitInv /\ [Next]_vars => SubmitInv'
  BY NextSubmitInv
<1>3. SubmitInv => SubmitErrorMeansNotExecuted
  BY DEF SubmitInv, SubmitErrorMeansNotExecuted
<1>. QED  BY <1>1, <1>2, <1>3, PTL DEF Spec
=============================================================================
