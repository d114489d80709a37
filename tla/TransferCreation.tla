-------------------------- MODULE TransferCreation --------------------------
(***************************************************************************)
(* The creation of transfers and share payments, from the browser tab that *)
(* submits a form to the rows of the table "transfers":                    *)
(*                                                                         *)
(*   - the idempotency keys of transfer-form and split-bill-detail         *)
(*     (LogicalSubmission), and the status they show;                      *)
(*   - the gateway, which gives up on a request after a timeout although   *)
(*     payments-service goes on with it;                                   *)
(*   - createCanonical, whose statements interleave with those of other    *)
(*     requests, and the two unique constraints that decide the races;     *)
(*   - the FX quote stored with the transfer.                              *)
(*                                                                         *)
(* What becomes of a created transfer is the saga's business (module       *)
(* TransferSaga); here it is open until it is Completed or Failed.         *)
(***************************************************************************)
EXTENDS Integers, FiniteSets

CONSTANTS
    Tabs,           \* mounted forms
    User,           \* tab |-> who is signed in
    Purpose,        \* tab |-> the share that it pays, NoShare for a transfer form
    NoShare,
    Choices,        \* tab |-> the payloads its user may enter
    ApiKeys,        \* the keys that API clients choose themselves
    NoKey,
    Requests,       \* slots for the requests in payments-service
    Nothing,        \* no request, no transfer
    MaxSubmissions, \* bound on the requests sent
    MaxCrashes,     \* bound on the requests that a crash ends
    MaxPolls        \* bound on the status responses on their way to one tab

Currencies == {"USD", "EUR", "UAH"}

Payload == [wallet: Nat, amount: Nat \ {0}, currency: Currencies, target: Currencies]

ASSUME CreationAssumption ==
    \* No client guesses a random key.
    /\ ApiKeys \subseteq Nat \ (0..MaxSubmissions) /\ NoKey \notin Nat
    /\ Nothing \notin Requests /\ Nothing \notin Nat
    /\ \A t \in Tabs : Choices[t] \subseteq Payload
    \* A share is paid by its participant: payShare refuses anyone else.
    /\ \A t, u \in Tabs : Purpose[t] # NoShare /\ Purpose[t] = Purpose[u] => User[t] = User[u]
    /\ MaxSubmissions \in Nat /\ MaxCrashes \in Nat /\ MaxPolls \in Nat

VARIABLES
    transfers,    \* the rows of the table
    tab,          \* the state of each form
    request,      \* the local state of each request
    polls,        \* status responses on their way to a tab
    submissions,
    crashes

vars == <<transfers, tab, request, polls, submissions, crashes>>

Final == {"Completed", "Failed"}

-----------------------------------------------------------------------------
(* The FX quote *)

\* Micro-USD per major unit of a currency.
MICRO_USD_VALUE == [USD |-> 1000000, EUR |-> 1087000, UAH |-> 24390]

\* Mutant: rounds down.
QuoteRoundsDown(p) ==
    (p.amount * MICRO_USD_VALUE[p.currency]) \div MICRO_USD_VALUE[p.target]

\* quoteTransfer: rounds half up to minor units of the target currency.
quoteTransfer(p) ==
    LET numerator == MICRO_USD_VALUE[p.currency]
        denominator == MICRO_USD_VALUE[p.target]
    IN  (p.amount * numerator + denominator \div 2) \div denominator

-----------------------------------------------------------------------------
(* Rows, and the requests that look for them *)

Sender(r) == User[request[r].tab]
ShareOf(r) == Purpose[request[r].tab]

\* The canonical request, whose hash is the fingerprint.
canonicalRequest(r) ==
    [sender |-> Sender(r), share |-> ShareOf(r), payload |-> request[r].payload]

ByShare(r) == {x \in transfers : x.canonical.share = ShareOf(r)}
ByKey(r) == {x \in transfers : x.canonical.sender = Sender(r) /\ x.key = request[r].key}

\* Mutant: the constraint on the share is missing.
ViolatesKeyOnly(r) == ByKey(r) # {}

\* UQ_transfers_sender_idempotency and UQ_transfers_split_bill_share
ViolatesUnique(r) == ByKey(r) # {} \/ (ShareOf(r) # NoShare /\ ByShare(r) # {})

\* Mutant: any row will do.
ResolveAny(r, row) ==
    request' = [request EXCEPT ![r].pc = "run", ![r].found = row.id]

Goto(r, pc) == request' = [request EXCEPT ![r].pc = pc]

\* The row of an earlier request answers this one if it asks for the same.
resolveExisting(r, row) ==
    IF row.canonical = canonicalRequest(r)
    THEN request' = [request EXCEPT ![r].pc = "run", ![r].found = row.id]
    ELSE Goto(r, "conflict")

\* What a view shows of a transfer.
View(row) == [id |-> row.id, status |-> row.status]

NoView == [id |-> Nothing, status |-> "none"]

IdleRequest == [pc |-> "idle"]

FreshTab(n) == [key |-> NoKey, waits |-> Nothing, shown |-> NoView, intent |-> n]

Init ==
    /\ transfers = {}
    /\ tab = [t \in Tabs |-> FreshTab(0)]
    /\ request = [r \in Requests |-> IdleRequest]
    /\ polls = {}
    /\ submissions = 0
    /\ crashes = 0

-----------------------------------------------------------------------------
(* The form *)

\* crypto.randomUUID never returns a key again; a client of the API may send any
\* key, with this request and with another.
NewKeys == {submissions} \cup ApiKeys

\* Mutant: no key is generated.
BeginWithout(t) == {tab[t].key}

\* The key of LogicalSubmission.begin: kept until reset, so that a retry uses it
\* again.
begin(t) == IF tab[t].key # NoKey THEN {tab[t].key} ELSE NewKeys

\* Where a request begins in payments-service: the guards (rate limit, token,
\* validation of the body and the key) let it in or refuse it.
canActivate(t) == {IF Purpose[t] = NoShare THEN "findKey" ELSE "findShare", "refused"}

\* submit, or pay: a form waits for one request at a time.  The pay button is
\* there until the share is shown as paid.
Submit(t, r) ==
    /\ tab[t].waits = Nothing
    /\ Purpose[t] # NoShare => tab[t].shown.status # "Completed"
    /\ request[r].pc = "idle"
    /\ submissions < MaxSubmissions
    /\ submissions' = submissions + 1
    /\ \E k \in begin(t), p \in Choices[t], pc \in canActivate(t) :
          /\ tab' = [tab EXCEPT ![t].key = k, ![t].waits = r]
          /\ request' = [request EXCEPT ![r] =
                [pc |-> pc, tab |-> t, intent |-> tab[t].intent, key |-> k,
                 payload |-> p, found |-> Nothing]]
    /\ UNCHANGED <<transfers, polls, crashes>>

\* UpstreamService aborts the request after UPSTREAM_TIMEOUT_MS: the form shows
\* an error and may be submitted again, while payments-service goes on.
Timeout(t) ==
    /\ tab[t].waits # Nothing
    /\ tab' = [tab EXCEPT ![t].waits = Nothing]
    /\ UNCHANGED <<transfers, request, polls, submissions, crashes>>

\* newTransfer is offered when the transfer shown is final.  LogicalSubmission
\* ignores the reset while a request is running.
NewTransfer(t) ==
    /\ Purpose[t] = NoShare
    /\ tab[t].shown.status \in Final
    /\ tab' = [tab EXCEPT ![t] =
          IF @.waits = Nothing THEN FreshTab(@.intent + 1) ELSE [@ EXCEPT !.shown = NoView]]
    /\ UNCHANGED <<transfers, request, polls, submissions, crashes>>

\* The page is loaded again: everything the component knew is gone.
Reload(t) ==
    /\ tab[t].key # NoKey
    /\ tab' = [tab EXCEPT ![t] = FreshTab(@.intent + 1)]
    /\ polls' = {p \in polls : p.tab # t}
    /\ UNCHANGED <<transfers, request, submissions, crashes>>

\* Mutant: the form reads only transfers whose outcome it knows.
ReadsFinal(t) ==
    {View(row) : row \in {x \in transfers :
        x.id = tab[t].shown.id /\ tab[t].shown.status \in Final}}

\* What a page reads.  refreshStatus of the form reads a transfer that is shown
\* as open, and that must be the user's own.  The page of a split bill reads the
\* bill at any time; a share without a transfer is Unpaid.
Reads(t) ==
    IF Purpose[t] = NoShare
    THEN {View(row) : row \in {x \in transfers :
            /\ tab[t].shown.status \notin Final
            /\ x.id = tab[t].shown.id /\ x.canonical.sender = User[t]}}
    ELSE LET paid == {x \in transfers : x.canonical.share = Purpose[t]}
         IN  IF paid = {} THEN {NoView} ELSE {View(row) : row \in paid}

Poll(t) ==
    /\ Cardinality({p \in polls : p.tab = t}) < MaxPolls
    /\ \E view \in Reads(t) : polls' = polls \cup {[tab |-> t, view |-> view]}
    /\ UNCHANGED <<transfers, tab, request, submissions, crashes>>

\* Responses arrive in any order and replace what is shown: an answer from before
\* the payment may replace the payment.
PollArrives(t) ==
    \E p \in polls :
        /\ p.tab = t
        /\ polls' = polls \ {p}
        /\ tab' = [tab EXCEPT ![t].shown = p.view]
        /\ UNCHANGED <<transfers, request, submissions, crashes>>

-----------------------------------------------------------------------------
(* The request in payments-service *)

\* A share payment looks for the transfer of its share first.
FindShare(r) ==
    /\ request[r].pc = "findShare"
    /\ IF ByShare(r) = {} THEN Goto(r, "findKey")
       ELSE \E row \in ByShare(r) : resolveExisting(r, row)
    /\ UNCHANGED <<transfers, tab, polls, submissions, crashes>>

\* A row with the sender's key, or the quote; no transfer of less than one
\* minor unit.
FindKey(r) ==
    /\ request[r].pc = "findKey"
    /\ IF ByKey(r) = {}
       THEN Goto(r, IF quoteTransfer(request[r].payload) > 0 THEN "insert" ELSE "refused")
       ELSE \E row \in ByKey(r) : resolveExisting(r, row)
    /\ UNCHANGED <<transfers, tab, polls, submissions, crashes>>

\* The transaction of one INSERT.  One that meets an uncommitted row with its
\* key or share waits, so that it is as good as after it.
Insert(r) ==
    /\ request[r].pc = "insert"
    /\ IF ViolatesUnique(r)
       THEN Goto(r, "winner") /\ UNCHANGED transfers
       ELSE LET id == Cardinality(transfers)
            IN  /\ transfers' = transfers \cup
                      {[id |-> id, key |-> request[r].key,
                        canonical |-> canonicalRequest(r),
                        destination |-> quoteTransfer(request[r].payload),
                        status |-> "open",
                        origin |-> <<request[r].tab, request[r].intent>>]}
                /\ request' = [request EXCEPT ![r].pc = "run", ![r].found = id]
    /\ UNCHANGED <<tab, polls, submissions, crashes>>

\* Mutant: a share payment that lost looks for its key too.
WinnersByKey(r) == ByKey(r)

\* Where the loser of a race looks for the winner.
Winners(r) == IF ShareOf(r) # NoShare THEN ByShare(r) ELSE ByKey(r)

\* The loser answers with the winner; it fails if it sees none.
FindWinner(r) ==
    /\ request[r].pc = "winner"
    /\ IF Winners(r) = {} THEN Goto(r, "error")
       ELSE \E row \in Winners(r) : resolveExisting(r, row)
    /\ UNCHANGED <<transfers, tab, polls, submissions, crashes>>

\* The tab that still waits for this request, if any, gets its answer.
Deliver(r, shown) ==
    /\ request' = [request EXCEPT ![r] = IdleRequest]
    /\ tab' = [t \in Tabs |->
          IF t = request[r].tab /\ tab[t].waits = r
          THEN [tab[t] EXCEPT !.waits = Nothing, !.shown = shown] ELSE tab[t]]

\* After a run of the saga the controller answers with the status by then.
Reply(r) ==
    /\ request[r].pc = "run"
    /\ \E row \in transfers : row.id = request[r].found /\ Deliver(r, View(row))
    /\ UNCHANGED <<transfers, polls, submissions, crashes>>

\* 400 or 429, 409, 500: the form keeps what it shows.
ReplyError(r) ==
    /\ request[r].pc \in {"refused", "conflict", "error"}
    /\ Deliver(r, tab[request[r].tab].shown)
    /\ UNCHANGED <<transfers, polls, submissions, crashes>>

\* The process dies, before or after the commit of the row.
Crash(r) ==
    /\ request[r].pc # "idle"
    /\ crashes < MaxCrashes
    /\ crashes' = crashes + 1
    /\ Deliver(r, tab[request[r].tab].shown)
    /\ UNCHANGED <<transfers, polls, submissions>>

-----------------------------------------------------------------------------
(* The saga *)

\* Mutant: a saga that runs again after the end.
FinishAgain(row, outcome) ==
    transfers' = (transfers \ {row}) \cup {[row EXCEPT !.status = outcome]}

\* The saga ends the transfer, see TransferSaga.
Finish(row, outcome) ==
    /\ row.status = "open"
    /\ transfers' = (transfers \ {row}) \cup {[row EXCEPT !.status = outcome]}

Saga ==
    /\ \E row \in transfers, outcome \in Final : Finish(row, outcome)
    /\ UNCHANGED <<tab, request, polls, submissions, crashes>>

-----------------------------------------------------------------------------

RequestStep(r) ==
    \/ FindShare(r) \/ FindKey(r) \/ Insert(r) \/ FindWinner(r)
    \/ Reply(r) \/ ReplyError(r)

Next ==
    \/ \E t \in Tabs : \/ \E r \in Requests : Submit(t, r)
                       \/ Timeout(t) \/ NewTransfer(t) \/ Reload(t)
                       \/ Poll(t) \/ PollArrives(t)
    \/ \E r \in Requests : RequestStep(r) \/ Crash(r)
    \/ Saga

Spec == Init /\ [][Next]_vars

\* Requests go on, sagas end (TransferSaga), a transfer form polls every 1.5 s
\* while its transfer is open, and responses arrive.
Fairness ==
    /\ \A r \in Requests : WF_vars(RequestStep(r))
    /\ WF_vars(Saga)
    /\ \A t \in Tabs : /\ Purpose[t] = NoShare => WF_vars(Poll(t))
                       /\ WF_vars(PollArrives(t))

FairSpec == Spec /\ Fairness

-----------------------------------------------------------------------------
(* Properties *)

\* Every variable has its type.
TypeOK ==
    /\ \A row \in transfers :
          /\ row.id \in Nat
          /\ row.key \in Nat
          /\ row.canonical.payload \in Payload
          /\ row.destination \in Nat
          /\ row.status \in {"open"} \cup Final
    /\ tab \in [Tabs -> [key: Nat \cup {NoKey}, waits: Requests \cup {Nothing},
                         shown: [id: Nat \cup {Nothing}, status: {"none", "open"} \cup Final],
                         intent: Nat]]
    /\ request \in [Requests -> {IdleRequest} \cup
          [pc: {"findShare", "findKey", "insert", "winner", "run",
                "refused", "conflict", "error"},
           tab: Tabs, intent: Nat, key: Nat, payload: Payload, found: Nat \cup {Nothing}]]
    /\ submissions \in 0..MaxSubmissions
    /\ crashes \in 0..MaxCrashes

\* Whatever is retried, timed out or submitted twice: one submission of a form
\* creates one transfer, and so do all payments of one share, from whatever tab.
PaidOnce ==
    \A x, y \in transfers :
        \/ x.origin = y.origin
        \/ x.canonical.share # NoShare /\ x.canonical.share = y.canonical.share
        => x = y

\* A request is answered with a transfer of exactly what it asked for, although
\* it may be a transfer that another request created.
AnswersFit ==
    \A r \in Requests : request[r].pc = "run" =>
        \E row \in transfers : /\ row.id = request[r].found
                               /\ row.canonical = canonicalRequest(r)

\* The loser of a race between two INSERTs finds the winner and answers with it or
\* with 409.  The one request that fails with an internal error instead is one for
\* a share, whose key its sender has used for something else at the same time.
LosersSeeWinners ==
    \A r \in Requests : request[r].pc = "error" =>
        /\ ShareOf(r) # NoShare
        /\ \E row \in ByKey(r) : row.canonical.share # ShareOf(r)

\* README, Idempotency: "same key with a different payload returns `409`", so that
\* no request is left with an internal error.
ReusedKeyIsConflict == \A r \in Requests : request[r].pc # "error"

\* What a form shows is a transfer of its user, and an outcome that it shows is
\* the outcome, in whatever order responses arrive.
ShownIsTrue ==
    \A t \in Tabs : tab[t].shown # NoView =>
        \E row \in transfers :
            /\ row.id = tab[t].shown.id
            /\ row.canonical.sender = User[t]
            /\ tab[t].shown.status \in Final => row.status = tab[t].shown.status

\* The recipient gets a positive amount that is within half a minor unit of the
\* exact conversion.
QuoteIsFair ==
    \A row \in transfers :
        LET p == row.canonical.payload
            exact == p.amount * MICRO_USD_VALUE[p.currency]
            unit == MICRO_USD_VALUE[p.target]
        IN  /\ row.destination > 0
            /\ 2 * exact - unit < 2 * row.destination * unit
            /\ 2 * row.destination * unit <= 2 * exact + unit

\* A transfer form that shows an open transfer comes to show an outcome, even
\* if an older response overtakes a newer one; or its user starts afresh.
OutcomeGetsShown ==
    \A t \in Tabs : Purpose[t] = NoShare =>
        (tab[t].shown.status = "open" ~> tab[t].shown.status # "open")

\* The state of the transfer of each share.
Payment == [s \in {Purpose[t] : t \in Tabs} \ {NoShare} |->
    IF \E row \in transfers : row.canonical.share = s
    THEN (CHOOSE row \in transfers : row.canonical.share = s).status ELSE "none"]

SharePayments == INSTANCE SharePayment
    WITH Shares <- {Purpose[t] : t \in Tabs} \ {NoShare}, payment <- Payment

\* Each share gets at most one transfer, with one outcome: what SplitBills
\* relies on.
ImplementsSharePayment == SharePayments!Spec
=============================================================================
