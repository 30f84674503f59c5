---------------------------- MODULE MoomooBroker ----------------------------
(***************************************************************************)
(* MoomooBrokerAdapter, the read-only adapter to the OpenD gateway.  It is *)
(* connected once, when the process starts, and remembers the first        *)
(* account id it finds; every read fails into an empty answer.             *)
(*                                                                         *)
(* The SDK calls are synchronous, so one get_... is one step.  OpenD is    *)
(* external: it may be away, and it lists the accounts it likes.           *)
(***************************************************************************)
EXTENDS Sequences, Integers

CONSTANTS
    Accounts,      \* account ids
    EnvAccounts,   \* those whose trd_env is the configured one
    Listings,      \* what get_acc_list may return: sequences of accounts
    None

ASSUME AccountAssumption ==
    /\ EnvAccounts \subseteq Accounts
    /\ Listings \subseteq Seq(Accounts)
    /\ None \notin Accounts

VARIABLES
    connected,   \* _connected
    accountId,   \* _account_id
    opend,       \* whether OpenD answers
    listed       \* the accounts OpenD lists

adapterVars == <<connected, accountId>>
gatewayVars == <<opend, listed>>

AdapterTypeOK ==
    /\ connected \in BOOLEAN
    /\ accountId \in Accounts \cup {None}
    /\ opend \in BOOLEAN
    /\ listed \in Listings

AdapterInit ==
    /\ connected = FALSE
    /\ accountId = None
    /\ opend \in BOOLEAN
    /\ listed \in Listings

\* An SDK call succeeds only when OpenD answers, and need not even then.
Replies == IF opend THEN BOOLEAN ELSE {FALSE}

\* connect, called once by the process that starts; a failure is final.
Connect ==
    /\ connected' \in Replies
    /\ accountId' = None

\* _MOOMOO_STATUS_MAP; the preview tells only the waiting and the submitted
\* orders from the rest.
MappedStatus(status) ==
    CASE status \in {"N/A", "UNSUBMITTED", "WAITING_SUBMIT"} -> "PENDING"
      [] status \in {"SUBMITTING", "SUBMITTED", "DISABLED"} -> status
      [] status = "FILLED_PART" -> "PARTIALLY_FILLED"
      [] status = "FILLED_ALL" -> "FILLED"
      [] status \in {"CANCELLING_PART", "CANCELLING_ALL"} -> "CANCELLING"
      [] status \in {"CANCELLED_PART", "CANCELLED_ALL", "DELETED",
                     "FILL_CANCELLED"} -> "CANCELLED"
      [] status \in {"SUBMIT_FAILED", "FAILED"} -> "REJECTED"
      [] status = "TIMEOUT" -> "FAILED"
      [] OTHER -> "UNKNOWN"

\* Mutant: the row of the account is kept instead of its id.
SelectedRow(accounts) ==
    LET matching == {i \in DOMAIN accounts : accounts[i] \in EnvAccounts}
    IN IF matching = {} THEN 1 ELSE CHOOSE i \in matching : \A j \in matching : i <= j

\* The first account of the configured environment, or the first at all.
Selected(accounts) ==
    LET matching == {i \in DOMAIN accounts : accounts[i] \in EnvAccounts}
    IN IF matching = {} THEN accounts[1]
       ELSE accounts[CHOOSE i \in matching : \A j \in matching : i <= j]

\* _ensure_account_id; `lists' tells whether get_acc_list, asked only when
\* nothing is remembered, succeeded.
EnsuredAccount(lists) ==
    IF accountId # None THEN accountId
    ELSE IF lists /\ listed # <<>> THEN Selected(listed) ELSE None

\* Mutant: the fallback account is used without being remembered.
RememberedMatch(account) == IF account \in EnvAccounts THEN account ELSE accountId

\* What it stores: the fallback as well, and never again anything else.
Remembered(account) == account

\* get_account, get_positions and get_open_orders: the account the answer is
\* about, or None for the zeros or the empty list of a failure.
Query(source) ==
    \/ /\ ~connected
       /\ source = None
       /\ UNCHANGED accountId
    \/ /\ connected
       /\ \E lists, replies \in Replies :
            /\ accountId' = Remembered(EnsuredAccount(lists))
            /\ source = IF replies THEN EnsuredAccount(lists) ELSE None

\* get_quote opens a context of its own and needs no account.
QuoteAnswers == IF connected THEN Replies ELSE {FALSE}

Gateway ==
    /\ opend' \in BOOLEAN
    /\ listed' \in Listings
    /\ UNCHANGED adapterVars
=============================================================================
