--------------------------- MODULE AccountHelpers ---------------------------
(***************************************************************************)
(* The account helpers of Client (diem/jsonrpc/client.py:175-237):         *)
(* must_get_account, get_account_sequence, and the two helpers that walk   *)
(* up parent_vasp_address by recursion, get_parent_vasp_account and        *)
(* get_base_url_and_compliance_key. Every recursive call makes one         *)
(* get_account call; the recursion is a loop over the address being looked *)
(* up, with its depth counted against Python's recursion limit.            *)
(*                                                                         *)
(* The on-chain accounts are fixed during a call (roles do not change).    *)
(* The errors of execute itself (NetworkError, StaleResponseError, ...)    *)
(* propagate unchanged and are modelled in JsonRpcClient.                  *)
(***************************************************************************)
EXTENDS Naturals

CONSTANTS
    Addrs,           \* account addresses
    NoAddr,          \* an empty parent_vasp_address
    RecursionLimit   \* frames Python allows before RecursionError

\* The result of a helper that has not returned yet; no address.
Pending == "pending"

ASSUME HelpersAssumption ==
    /\ NoAddr \notin Addrs
    /\ Pending \notin Addrs
    /\ RecursionLimit \in Nat \ {0}

\* The role of an account as get_account returns it: its type, its
\* parent_vasp_address, and whether base_url and compliance_key are set.
Roles ==
    [type : {"parent_vasp", "designated_dealer", "unknown"},
     parent : {NoAddr}, base_url : BOOLEAN, compliance_key : BOOLEAN]
    \cup [type : {"child_vasp"}, parent : Addrs,
          base_url : {FALSE}, compliance_key : {FALSE}]

\* get_account returning None: no account at the address.
NoAccount == [type |-> "none", parent |-> NoAddr, base_url |-> FALSE,
              compliance_key |-> FALSE]

\* What get_account returns for each address: an account, or None.
AccountMaps == [Addrs -> Roles \cup {NoAccount}]

\* The accounts the chain can hold: a child VASP's parent is a parent VASP.
WellFormed(acc) ==
    \A a \in Addrs :
        acc[a].type = "child_vasp" => acc[acc[a].parent].type = "parent_vasp"

Helpers == {"get_parent_vasp_account", "get_base_url_and_compliance_key",
            "get_account_sequence"}

VARIABLES
    accounts,  \* the on-chain account of each address
    helper,    \* the helper the thread called
    arg,       \* the address it was called with
    cur,       \* the address of the current recursive call
    depth,     \* frames of the recursion
    result     \* what the helper returned (an address) or raised

vars == <<accounts, helper, arg, cur, depth, result>>

Init ==
    \* whatever the server reports, well-formed or not
    /\ accounts \in AccountMaps
    /\ helper \in Helpers
    /\ arg \in Addrs
    /\ cur = arg
    /\ depth = 1
    /\ result = Pending
-----------------------------------------------------------------------------
\* Mutant: either field set is taken for both.
HasOffchainInfoEither(r) == r.compliance_key \/ r.base_url

\* if account.role.compliance_key and account.role.base_url
HasOffchainInfo(r) == r.compliance_key /\ r.base_url

\* What one frame of the helper does with the account r it got from
\* must_get_account(cur): return (the address of the account whose fields
\* are returned), recurse into an address, or raise.
Frame(h, r) ==
    CASE h = "get_account_sequence"    -> [ret |-> cur]
      [] h = "get_parent_vasp_account" ->
           CASE r.type = "parent_vasp" -> [ret |-> cur]
             [] r.type = "child_vasp"  -> [rec |-> r.parent]
             [] OTHER                  -> [err |-> "ValueError"]
      [] OTHER ->
           CASE HasOffchainInfo(r)  -> [ret |-> cur]
             [] r.parent # NoAddr   -> [rec |-> r.parent]
             [] OTHER               -> [err |-> "ValueError"]

\* One frame: must_get_account(cur) (get_account, then AccountNotFoundError
\* on None; get_account_sequence raises the same itself), then the frame's
\* decision: return or raise, or recurse, which past the limit raises
\* RecursionError. The tests are made in the code's order.
Step ==
    /\ result = Pending
    /\ LET r == accounts[cur]
           f == Frame(helper, r)
       IN  IF r = NoAccount
           THEN /\ result' = "AccountNotFoundError"
                /\ UNCHANGED <<cur, depth>>
           ELSE IF "rec" \notin DOMAIN f
           THEN /\ result' = IF "ret" \in DOMAIN f THEN f.ret ELSE f.err
                /\ UNCHANGED <<cur, depth>>
           ELSE IF depth = RecursionLimit
           THEN /\ result' = "RecursionError"
                /\ UNCHANGED <<cur, depth>>
           ELSE /\ cur' = f.rec
                /\ depth' = depth + 1
                /\ UNCHANGED result
    /\ UNCHANGED <<accounts, helper, arg>>

\* The helper has returned or raised.
Done ==
    /\ result # Pending
    /\ UNCHANGED vars

Next == Step \/ Done

Spec == Init /\ [][Next]_vars /\ WF_vars(Step)
-----------------------------------------------------------------------------
(***************************************************************************)
(* The reference answers, from the docstrings.                             *)
(***************************************************************************)

\* The account get_parent_vasp_account(a) returns, or what it raises: the
\* account itself for a parent VASP, its parent for a child VASP,
\* ValueError for any other role, AccountNotFoundError for none.
ParentVaspOf(acc, a) ==
    CASE acc[a] = NoAccount              -> "AccountNotFoundError"
      [] acc[a].type = "parent_vasp"    -> a
      [] acc[a].type = "child_vasp"     -> acc[a].parent
      [] OTHER                          -> "ValueError"

\* The account whose base_url and compliance key
\* get_base_url_and_compliance_key(a) returns: the account's own when both
\* are set, else its parent VASP's when both are set there.
OffchainInfoOf(acc, a) ==
    LET both(b) == acc[b].base_url /\ acc[b].compliance_key
    IN  CASE acc[a] = NoAccount                       -> "AccountNotFoundError"
          [] both(a)                                  -> a
          [] acc[a].type = "child_vasp" /\ both(acc[a].parent) -> acc[a].parent
          [] OTHER                                    -> "ValueError"

Expected ==
    CASE helper = "get_account_sequence" ->
           IF accounts[arg] = NoAccount THEN "AccountNotFoundError" ELSE arg
      [] helper = "get_parent_vasp_account" -> ParentVaspOf(accounts, arg)
      [] OTHER -> OffchainInfoOf(accounts, arg)

\* On accounts the chain can hold (a child VASP's parent is a parent
\* VASP), each helper returns what its docstring promises: the parent VASP
\* account, the base_url and compliance key of the account or of its
\* parent VASP, or the documented error; the recursion through
\* parent_vasp_address then stops after one hop.
HelperCorrect == WellFormed(accounts) /\ result # Pending => result = Expected

\* The helpers raise only what their docstrings list (ValueError,
\* AccountNotFoundError), whatever accounts the server reports: the
\* recursion through parent_vasp_address has no bound of its own (the
\* open question of spec section 9).
HelperErrorsDocumented == result # "RecursionError"
=============================================================================
