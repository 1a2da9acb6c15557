------------------------ MODULE AccountHelpersProofs ------------------------
(***************************************************************************)
(* Proof of HelperCorrect: on the accounts the chain can hold, the account *)
(* helpers of Client return what their docstrings promise, for every set  *)
(* of addresses and every recursion limit above 1 (with a limit of 1 no    *)
(* recursive call fits, and get_parent_vasp_account on a child VASP        *)
(* raises RecursionError; Python's default limit is 1000).                 *)
(***************************************************************************)
EXTENDS AccountHelpers, TLAPS

\* The values the variables take: the thread walks addresses only, and
\* never past the recursion limit.
HelperTypeOK ==
    /\ accounts \in AccountMaps
    /\ helper \in Helpers
    /\ arg \in Addrs
    /\ cur \in Addrs
    /\ depth \in 1 .. RecursionLimit
    /\ result \in Addrs \cup {Pending, "AccountNotFoundError", "ValueError",
                              "RecursionError"}

\* The inductive invariant behind HelperCorrect. On well-formed accounts
\* the recursion is at its first frame, on the argument, or at its second,
\* on the parent VASP of a child VASP argument, called by one of the two
\* helpers that follow parent_vasp_address; once the helper has returned
\* or raised, the answer is the expected one.
HelperInv ==
    /\ HelperTypeOK
    /\ WellFormed(accounts) =>
         /\ result = Pending =>
              \/ cur = arg /\ depth = 1
              \/ /\ depth = 2
                 /\ helper # "get_account_sequence"
                 /\ accounts[arg].type = "child_vasp"
                 /\ cur = accounts[arg].parent
         /\ result # Pending => result = Expected
-----------------------------------------------------------------------------
(***************************************************************************)
(* What one frame decides.                                                 *)
(***************************************************************************)

\* A frame of each helper, on an account the server can report: return
\* the current address, recurse into parent_vasp_address, or raise
\* ValueError, by the tests the code makes.
LEMMA FrameCases ==
    ASSUME NEW h \in Helpers, NEW r \in Roles
    PROVE  /\ h = "get_account_sequence" => Frame(h, r) = [ret |-> cur]
           /\ h = "get_parent_vasp_account" =>
                /\ r.type = "parent_vasp" => Frame(h, r) = [ret |-> cur]
                /\ r.type = "child_vasp" => Frame(h, r) = [rec |-> r.parent]
                /\ r.type \notin {"parent_vasp", "child_vasp"}
                     => Frame(h, r) = [err |-> "ValueError"]
           /\ h = "get_base_url_and_compliance_key" =>
                /\ HasOffchainInfo(r) => Frame(h, r) = [ret |-> cur]
                /\ ~HasOffchainInfo(r) /\ r.parent # NoAddr
                     => Frame(h, r) = [rec |-> r.parent]
                /\ ~HasOffchainInfo(r) /\ r.parent = NoAddr
                     => Frame(h, r) = [err |-> "ValueError"]
<1>1. HasOffchainInfo(r) => r.parent = NoAddr
  BY DEF Roles, HasOffchainInfo
<1>. QED  BY <1>1 DEF Frame, Helpers

\* A child VASP's parent_vasp_address is an address; an account with a
\* parent_vasp_address is a child VASP and has no off-chain information.
LEMMA RoleFacts ==
    ASSUME NEW r \in Roles
    PROVE  /\ r # NoAccount
           /\ r.parent # NoAddr => r.type = "child_vasp" /\ r.parent \in Addrs
                                   /\ ~HasOffchainInfo(r)
           /\ r.type = "child_vasp" => r.parent # NoAddr
<1>1. CASE r \in [type : {"parent_vasp", "designated_dealer", "unknown"},
                   parent : {NoAddr}, base_url : BOOLEAN, compliance_key : BOOLEAN]
  BY <1>1 DEF NoAccount
<1>2. CASE r \in [type : {"child_vasp"}, parent : Addrs,
                   base_url : {FALSE}, compliance_key : {FALSE}]
  <2>1. r.type = "child_vasp" /\ r.parent \in Addrs /\ r.base_url = FALSE
    BY <1>2
  <2>2. r.parent # NoAddr
    BY <2>1, HelpersAssumption
  <2>. QED  BY <2>1, <2>2 DEF NoAccount, HasOffchainInfo
<1>. QED  BY <1>1, <1>2 DEF Roles
\* The answers the docstrings promise for an address whose account exists.
LEMMA ExpectedCases ==
    ASSUME accounts \in AccountMaps, helper \in Helpers, arg \in Addrs,
           accounts[arg] \in Roles
    PROVE  /\ helper = "get_account_sequence" => Expected = arg
           /\ helper = "get_parent_vasp_account" =>
                /\ accounts[arg].type = "parent_vasp" => Expected = arg
                /\ accounts[arg].type = "child_vasp" => Expected = accounts[arg].parent
                /\ accounts[arg].type \notin {"parent_vasp", "child_vasp"}
                     => Expected = "ValueError"
           /\ helper = "get_base_url_and_compliance_key" =>
                /\ HasOffchainInfo(accounts[arg]) => Expected = arg
                /\ accounts[arg].type = "child_vasp"
                     => Expected = IF HasOffchainInfo(accounts[accounts[arg].parent])
                                   THEN accounts[arg].parent ELSE "ValueError"
                /\ accounts[arg].type # "child_vasp" /\ ~HasOffchainInfo(accounts[arg])
                     => Expected = "ValueError"
<1>1. accounts[arg] # NoAccount
  BY RoleFacts
<1>2. accounts[arg].type = "child_vasp" => ~HasOffchainInfo(accounts[arg])
  BY RoleFacts
<1>. QED  BY <1>1, <1>2 DEF Expected, ParentVaspOf, OffchainInfoOf, HasOffchainInfo, Helpers
-----------------------------------------------------------------------------
(***************************************************************************)
(* HelperInv is inductive.                                                 *)
(***************************************************************************)

\* A helper just called satisfies HelperInv.
LEMMA InitHelperInv == Init => HelperInv
BY HelpersAssumption DEF Init, HelperInv, HelperTypeOK, Pending

\* A frame keeps the variables in their sets: it recurses only into an
\* address, and only below the limit.
LEMMA StepHelperTypeOK ==
    ASSUME HelperInv, Step PROVE HelperTypeOK'
<1> DEFINE r == accounts[cur]
           f == Frame(helper, r)
<1>1. /\ accounts \in AccountMaps /\ helper \in Helpers /\ arg \in Addrs
      /\ cur \in Addrs /\ depth \in 1 .. RecursionLimit
  BY DEF HelperInv, HelperTypeOK
<1>2. UNCHANGED <<accounts, helper, arg>>
  BY DEF Step
<1>3. r \in Roles \/ r = NoAccount
  BY <1>1 DEF AccountMaps
<1>4. CASE r = NoAccount
  BY <1>1, <1>2, <1>4 DEF Step, HelperTypeOK, r
<1>5. CASE r \in Roles
  <2>1. \/ f = [ret |-> cur]
        \/ f = [err |-> "ValueError"]
        \/ f = [rec |-> r.parent] /\ r.parent # NoAddr
    BY <1>1, <1>5, FrameCases, RoleFacts DEF Helpers, f
  <2>2. r # NoAccount
    BY <1>5, RoleFacts
  <2>3. CASE "rec" \notin DOMAIN f
    <3>1. result' = (IF "ret" \in DOMAIN f THEN f.ret ELSE f.err)
          /\ UNCHANGED <<cur, depth>>
      BY <2>2, <2>3 DEF Step, r, f
    <3>2. result' \in Addrs \cup {"ValueError"}
      BY <3>1, <2>1, <2>3, <1>1
    <3>. QED  BY <1>1, <1>2, <3>1, <3>2 DEF HelperTypeOK
  <2>4. CASE "rec" \in DOMAIN f /\ depth = RecursionLimit
    BY <1>1, <1>2, <2>2, <2>4 DEF Step, HelperTypeOK, r, f
  <2>5. CASE "rec" \in DOMAIN f /\ depth # RecursionLimit
    <3>1. cur' = f.rec /\ depth' = depth + 1 /\ UNCHANGED result
      BY <2>2, <2>5 DEF Step, r, f
    <3>2. f = [rec |-> r.parent] /\ r.parent # NoAddr
      BY <2>1, <2>5
    <3>3. cur' \in Addrs
      BY <3>1, <3>2, <1>5, RoleFacts
    <3>4. depth' \in 1 .. RecursionLimit
      BY <3>1, <2>5, <1>1, HelpersAssumption
    <3>. QED  BY <1>1, <1>2, <3>1, <3>3, <3>4 DEF HelperInv, HelperTypeOK
  <2>. QED  BY <2>3, <2>4, <2>5
<1>. QED  BY <1>3, <1>4, <1>5
\* At the second frame, on the parent VASP of a child VASP argument, both
\* helpers that follow parent_vasp_address return or raise: the recursion
\* stops after one hop.
LEMMA SecondFrameStops ==
    ASSUME HelperInv, WellFormed(accounts), depth = 2,
           helper # "get_account_sequence",
           accounts[arg].type = "child_vasp", cur = accounts[arg].parent
    PROVE  LET f == Frame(helper, accounts[cur])
           IN  /\ accounts[cur].type = "parent_vasp"
               /\ accounts[cur] \in Roles
               /\ f = IF helper = "get_parent_vasp_account" \/ HasOffchainInfo(accounts[cur])
                      THEN [ret |-> cur] ELSE [err |-> "ValueError"]
<1>1. accounts \in AccountMaps /\ helper \in Helpers /\ arg \in Addrs /\ cur \in Addrs
  BY DEF HelperInv, HelperTypeOK
<1>2. accounts[cur].type = "parent_vasp"
  BY <1>1 DEF WellFormed
<1>3. accounts[cur] \in Roles
  BY <1>1, <1>2 DEF AccountMaps, NoAccount
<1>4. accounts[cur].parent = NoAddr
  BY <1>2, <1>3, RoleFacts
<1>. QED  BY <1>1, <1>2, <1>3, <1>4, FrameCases DEF Helpers

\* A frame keeps the correctness part of HelperInv on well-formed accounts.
LEMMA StepHelperCorrect ==
    ASSUME HelperInv, RecursionLimit # 1, Step, WellFormed(accounts)
    PROVE  /\ result' = Pending =>
                \/ cur' = arg' /\ depth' = 1
                \/ /\ depth' = 2
                   /\ helper' # "get_account_sequence"
                   /\ accounts'[arg'].type = "child_vasp"
                   /\ cur' = accounts'[arg'].parent
           /\ result' # Pending => result' = Expected'
<1> DEFINE r == accounts[cur]
           f == Frame(helper, r)
<1>1. /\ accounts \in AccountMaps /\ helper \in Helpers /\ arg \in Addrs
      /\ cur \in Addrs /\ depth \in 1 .. RecursionLimit /\ result = Pending
  BY DEF HelperInv, HelperTypeOK, Step
<1>2. UNCHANGED <<accounts, helper, arg>>
  BY DEF Step
<1>3. Expected' = Expected
  BY <1>2 DEF Expected, ParentVaspOf, OffchainInfoOf
<1>4. CASE cur = arg /\ depth = 1
  <2>1. CASE r = NoAccount
    <3>1. result' = "AccountNotFoundError"
      BY <2>1 DEF Step, r
    <3>2. Expected = "AccountNotFoundError"
      BY <1>1, <1>4, <2>1 DEF Expected, ParentVaspOf, OffchainInfoOf, r, NoAccount, Helpers
    <3>. QED  BY <1>3, <3>1, <3>2 DEF Pending
  <2>2. CASE r \in Roles
    <3>1. r # NoAccount /\ accounts[arg] \in Roles
      BY <2>2, <1>4, RoleFacts DEF r
    <3>2. CASE helper = "get_account_sequence"
      <4>1. f = [ret |-> cur]
        BY <2>2, <3>2, <1>1, FrameCases DEF f
      <4>2. result' = cur
        BY <4>1, <3>1 DEF Step, r, f
      <4>. QED  BY <1>1, <1>3, <1>4, <3>1, <3>2, <4>2, ExpectedCases, HelpersAssumption DEF Pending
    <3>3. CASE helper = "get_parent_vasp_account"
      <4>1. CASE r.type = "child_vasp"
        <5>1. f = [rec |-> r.parent]
          BY <2>2, <3>3, <4>1, <1>1, FrameCases DEF f
        <5>2. cur' = r.parent /\ depth' = 2 /\ result' = Pending
          BY <5>1, <3>1, <1>1, <1>4 DEF Step, r, f
        <5>. QED  BY <1>2, <1>4, <3>3, <4>1, <5>2 DEF r
      <4>2. CASE r.type # "child_vasp"
        <5>1. f = IF r.type = "parent_vasp" THEN [ret |-> cur] ELSE [err |-> "ValueError"]
          BY <2>2, <3>3, <4>2, <1>1, FrameCases DEF f
        <5>2. result' = IF r.type = "parent_vasp" THEN cur ELSE "ValueError"
          BY <5>1, <3>1 DEF Step, r, f
        <5>. QED  BY <1>1, <1>3, <1>4, <3>1, <3>3, <4>2, <5>2, ExpectedCases, HelpersAssumption DEF r, Pending
      <4>. QED  BY <4>1, <4>2
    <3>4. CASE helper = "get_base_url_and_compliance_key"
      <4>1. CASE ~HasOffchainInfo(r) /\ r.parent # NoAddr
        <5>1. f = [rec |-> r.parent] /\ r.type = "child_vasp"
          BY <2>2, <3>4, <4>1, <1>1, FrameCases, RoleFacts DEF f
        <5>2. cur' = r.parent /\ depth' = 2 /\ result' = Pending
          BY <5>1, <3>1, <1>1, <1>4 DEF Step, r, f
        <5>. QED  BY <1>2, <1>4, <3>4, <5>1, <5>2 DEF r
      <4>2. CASE HasOffchainInfo(r) \/ r.parent = NoAddr
        <5>1. r.type # "child_vasp" \/ HasOffchainInfo(r)
          BY <2>2, <4>2, RoleFacts
        <5>2. f = IF HasOffchainInfo(r) THEN [ret |-> cur] ELSE [err |-> "ValueError"]
          BY <2>2, <3>4, <4>2, <1>1, FrameCases DEF f
        <5>3. result' = IF HasOffchainInfo(r) THEN cur ELSE "ValueError"
          BY <5>2, <3>1 DEF Step, r, f
        <5>. QED  BY <1>1, <1>3, <1>4, <3>1, <3>4, <5>1, <5>3, ExpectedCases, HelpersAssumption DEF r, Pending
      <4>. QED  BY <4>1, <4>2
    <3>. QED  BY <1>1, <3>2, <3>3, <3>4 DEF Helpers
  <2>. QED  BY <1>1, <2>1, <2>2 DEF AccountMaps, r
<1>5. CASE /\ depth = 2
           /\ helper # "get_account_sequence"
           /\ accounts[arg].type = "child_vasp"
           /\ cur = accounts[arg].parent
  <2>1. /\ r.type = "parent_vasp" /\ r \in Roles
        /\ f = IF helper = "get_parent_vasp_account" \/ HasOffchainInfo(r)
               THEN [ret |-> cur] ELSE [err |-> "ValueError"]
    BY <1>5, SecondFrameStops DEF r, f
  <2>2. r # NoAccount /\ accounts[arg] \in Roles /\ ~HasOffchainInfo(accounts[arg])
    BY <2>1, <1>1, <1>5, RoleFacts DEF r, AccountMaps, NoAccount
  <2>3. result' = IF helper = "get_parent_vasp_account" \/ HasOffchainInfo(r)
                  THEN cur ELSE "ValueError"
    BY <2>1, <2>2 DEF Step, r, f
  <2>4. Expected = IF helper = "get_parent_vasp_account" \/ HasOffchainInfo(r)
                   THEN cur ELSE "ValueError"
    BY <1>1, <1>5, <2>2, ExpectedCases DEF Helpers, r
  <2>. QED  BY <1>3, <2>3, <2>4, <1>1, HelpersAssumption DEF Pending
<1>. QED  BY <1>1, <1>4, <1>5 DEF HelperInv

\* Every step keeps HelperInv when the recursion limit leaves room for one
\* recursive call.
LEMMA NextHelperInv ==
    ASSUME HelperInv, RecursionLimit # 1, [Next]_vars PROVE HelperInv'
<1>1. CASE Step
  <2>1. HelperTypeOK'
    BY <1>1, StepHelperTypeOK
  <2>2. WellFormed(accounts') = WellFormed(accounts)
    BY <1>1 DEF Step, WellFormed
  <2>. QED  BY <1>1, <2>1, <2>2, StepHelperCorrect DEF HelperInv
<1>2. CASE Done \/ UNCHANGED vars
  BY <1>2 DEF Done, vars, HelperInv, HelperTypeOK, WellFormed, Expected,
     ParentVaspOf, OffchainInfoOf
<1>. QED  BY <1>1, <1>2 DEF Next

\* HelperCorrect for every set of addresses and every recursion limit that
\* admits one recursive call: on accounts the chain can hold,
\* get_account_sequence, get_parent_vasp_account and
\* get_base_url_and_compliance_key return the account or raise the error
\* their docstrings promise.
THEOREM HelperCorrectThm ==
    ASSUME RecursionLimit # 1 PROVE Spec => []HelperCorrect
<1>1. Init => HelperInv
  BY InitHelperInv
<1>2. HelperInv /\ [Next]_vars => HelperInv'
  BY NextHelperInv
<1>3. HelperInv => HelperCorrect
  BY DEF HelperInv, HelperCorrect
<1>. QED  BY <1>1, <1>2, <1>3, PTL DEF Spec
=============================================================================
