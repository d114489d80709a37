----------------------- MODULE TransferCreationProofs -----------------------
(***************************************************************************)
(* Theorems about TransferCreation, for any number of tabs, requests and   *)
(* submissions, and any keys.                                              *)
(***************************************************************************)
EXTENDS TransferCreation, FiniteSetTheorems, TLAPS

Statuses == {"open", "Completed", "Failed"}

Canonical == [sender: {User[t] : t \in Tabs}, share: {Purpose[t] : t \in Tabs},
              payload: Payload]

Row == [id: Nat, key: Nat, canonical: Canonical, destination: Nat, status: Statuses,
        origin: Tabs \X Nat]

Views == [id: Nat \cup {Nothing}, status: {"none"} \cup Statuses]

Busy == [pc: {"findShare", "findKey", "insert", "winner", "run",
              "refused", "conflict", "error"},
         tab: Tabs, intent: Nat, key: Nat, payload: Payload, found: Nat \cup {Nothing}]

Form == [key: Nat \cup {NoKey}, waits: Requests \cup {Nothing}, shown: Views, intent: Nat]

\* The types, those of rows and of status responses included.
Types ==
    /\ transfers \subseteq Row
    /\ tab \in [Tabs -> Form]
    /\ request \in [Requests -> {IdleRequest} \cup Busy]
    /\ polls \subseteq [tab: Tabs, view: Views]
    /\ submissions \in 0..MaxSubmissions
    /\ crashes \in 0..MaxCrashes

\* What a row says follows from the submission that created it.
RowsFit ==
    \A x \in transfers :
        /\ x.canonical.sender = User[x.origin[1]]
        /\ x.canonical.share = Purpose[x.origin[1]]
        /\ x.destination = quoteTransfer(x.canonical.payload)
        /\ x.destination > 0

\* The keys of the table: the id, the sender's key and the share.
RowsUnique ==
    /\ IsFiniteSet(transfers)
    /\ \A x \in transfers : x.id < Cardinality(transfers)
    /\ \A x, y \in transfers :
          \/ x.id = y.id
          \/ x.canonical.sender = y.canonical.sender /\ x.key = y.key
          \/ x.canonical.share # NoShare /\ x.canonical.share = y.canonical.share
          => x = y

\* Submission n of tab t has gone out with key k.
Sent(t, n, k) ==
    \/ \E x \in transfers : x.origin = <<t, n>> /\ x.key = k
    \/ \E r \in Requests : /\ request[r].pc # "idle"
                           /\ request[r].tab = t /\ request[r].intent = n
                           /\ request[r].key = k

\* One submission goes out with one key, which the tab keeps until the next.
OneKey ==
    \A t \in Tabs, n \in Nat, k \in Nat : Sent(t, n, k) =>
        /\ n <= tab[t].intent
        /\ n = tab[t].intent => tab[t].key = k
        /\ \A j \in Nat : Sent(t, n, j) => j = k

\* A request inserts only what converts to something.
InsertsFit ==
    \A r \in Requests : request[r].pc = "insert" => quoteTransfer(request[r].payload) > 0

\* A view of tab t that some row confirms.
Reflects(view, t) ==
    \E x \in transfers :
        /\ x.id = view.id
        /\ x.canonical.sender = User[t]
        /\ view.status \in Final => x.status = view.status

\* What is shown or on its way is confirmed.
ViewsReflect ==
    /\ \A t \in Tabs : tab[t].shown # NoView => Reflects(tab[t].shown, t)
    /\ \A p \in polls : p.view # NoView => Reflects(p.view, p.tab)

IInv ==
    /\ Types
    /\ RowsFit
    /\ RowsUnique
    /\ OneKey
    /\ InsertsFit
    /\ AnswersFit
    /\ ViewsReflect

-----------------------------------------------------------------------------
(* The quote *)

\* quoteTransfer rounds to the nearest minor unit.
LEMMA QuoteRounds ==
    ASSUME NEW p \in Payload
    PROVE  LET exact == p.amount * MICRO_USD_VALUE[p.currency]
               unit == MICRO_USD_VALUE[p.target]
           IN  /\ quoteTransfer(p) \in Nat
               /\ 2 * exact - unit < 2 * quoteTransfer(p) * unit
               /\ 2 * quoteTransfer(p) * unit <= 2 * exact + unit
<1>1. /\ p.amount \in Nat
      /\ p.currency \in {"USD", "EUR", "UAH"} /\ p.target \in {"USD", "EUR", "UAH"}
  BY DEF Payload, Currencies
<1>2. /\ MICRO_USD_VALUE["USD"] = 1000000
      /\ MICRO_USD_VALUE["EUR"] = 1087000
      /\ MICRO_USD_VALUE["UAH"] = 24390
  BY DEF MICRO_USD_VALUE
<1>3. CASE p.currency = "USD" /\ p.target = "USD" BY <1>1, <1>2, <1>3 DEF quoteTransfer
<1>4. CASE p.currency = "USD" /\ p.target = "EUR" BY <1>1, <1>2, <1>4 DEF quoteTransfer
<1>5. CASE p.currency = "USD" /\ p.target = "UAH" BY <1>1, <1>2, <1>5 DEF quoteTransfer
<1>6. CASE p.currency = "EUR" /\ p.target = "USD" BY <1>1, <1>2, <1>6 DEF quoteTransfer
<1>7. CASE p.currency = "EUR" /\ p.target = "EUR" BY <1>1, <1>2, <1>7 DEF quoteTransfer
<1>8. CASE p.currency = "EUR" /\ p.target = "UAH" BY <1>1, <1>2, <1>8 DEF quoteTransfer
<1>9. CASE p.currency = "UAH" /\ p.target = "USD" BY <1>1, <1>2, <1>9 DEF quoteTransfer
<1>10. CASE p.currency = "UAH" /\ p.target = "EUR" BY <1>1, <1>2, <1>10 DEF quoteTransfer
<1>11. CASE p.currency = "UAH" /\ p.target = "UAH" BY <1>1, <1>2, <1>11 DEF quoteTransfer
<1> QED BY <1>1, <1>3, <1>4, <1>5, <1>6, <1>7, <1>8, <1>9, <1>10, <1>11

-----------------------------------------------------------------------------
(* Types *)

\* A request that is not idle is a record with all its fields.
LEMMA BusyRequest ==
    ASSUME Types, NEW r \in Requests, request[r].pc # "idle"
    PROVE  /\ request[r] \in Busy
           /\ Sender(r) = User[request[r].tab] /\ ShareOf(r) = Purpose[request[r].tab]
           /\ canonicalRequest(r) \in Canonical
<1>1. request[r] \in Busy BY DEF Types, IdleRequest
<1>2. request[r].tab \in Tabs /\ request[r].payload \in Payload BY <1>1 DEF Busy
<1> QED BY <1>1, <1>2 DEF Sender, ShareOf, canonicalRequest, Canonical

\* The tab of a request that is answered or ends.
LEMMA DeliverTypes ==
    ASSUME Types, NEW r \in Requests, NEW shown \in Views, Deliver(r, shown)
    PROVE  tab' \in [Tabs -> Form] /\ request' \in [Requests -> {IdleRequest} \cup Busy]
BY DEF Types, Deliver, Form

\* A request that goes on, with or without a row.
LEMMA GotoTypes ==
    ASSUME Types, NEW r \in Requests, request[r].pc # "idle",
           NEW pc \in {"findKey", "insert", "winner", "refused", "conflict", "error"},
           Goto(r, pc)
    PROVE  request' \in [Requests -> {IdleRequest} \cup Busy]
BY BusyRequest DEF Types, Goto, Busy

LEMMA ResolveTypes ==
    ASSUME Types, NEW r \in Requests, request[r].pc # "idle", NEW x \in transfers,
           resolveExisting(r, x)
    PROVE  request' \in [Requests -> {IdleRequest} \cup Busy]
<1>1. x.id \in Nat BY DEF Types, Row
<1>2. CASE x.canonical = canonicalRequest(r)
  BY <1>1, <1>2, BusyRequest DEF Types, resolveExisting, Busy
<1>3. CASE x.canonical # canonicalRequest(r)
  BY <1>3, GotoTypes DEF resolveExisting
<1> QED BY <1>2, <1>3

\* The row that an INSERT adds.
NewRow(r) ==
    [id |-> Cardinality(transfers), key |-> request[r].key,
     canonical |-> canonicalRequest(r), destination |-> quoteTransfer(request[r].payload),
     status |-> "open", origin |-> <<request[r].tab, request[r].intent>>]

LEMMA NewRowType ==
    ASSUME Types, RowsUnique, NEW r \in Requests, request[r].pc # "idle"
    PROVE  NewRow(r) \in Row
<1>1. request[r] \in Busy /\ canonicalRequest(r) \in Canonical BY BusyRequest
<1>2. Cardinality(transfers) \in Nat BY FS_CardinalityType DEF RowsUnique
<1>3. quoteTransfer(request[r].payload) \in Nat BY <1>1, QuoteRounds DEF Busy
<1> QED BY <1>1, <1>2, <1>3 DEF NewRow, Row, Busy, Statuses

\* The types are kept.
LEMMA TypesStep == ASSUME Types, RowsUnique, [Next]_vars PROVE Types'
<1> USE CreationAssumption
<1>1. CASE UNCHANGED vars BY <1>1 DEF vars, Types
<1>2. ASSUME NEW t \in Tabs, NEW r \in Requests, Submit(t, r) PROVE Types'
  <2>1. PICK k \in begin(t), p \in Choices[t], pc \in canActivate(t) :
            /\ tab' = [tab EXCEPT ![t].key = k, ![t].waits = r]
            /\ request' = [request EXCEPT ![r] =
                  [pc |-> pc, tab |-> t, intent |-> tab[t].intent, key |-> k,
                   payload |-> p, found |-> Nothing]]
    BY <1>2 DEF Submit
  <2>2. k \in Nat
    <3>1. tab[t].key \in Nat \cup {NoKey} BY DEF Types, Form
    <3>2. NewKeys \subseteq Nat BY DEF NewKeys, Types
    <3> QED BY <3>1, <3>2 DEF begin
  <2>3. p \in Payload OBVIOUS
  <2>4. pc \in {"findKey", "findShare", "refused"} BY DEF canActivate
  <2>5. tab' \in [Tabs -> Form] BY <2>1, <2>2, ZenonT(30) DEF Types, Form
  <2>6. request' \in [Requests -> {IdleRequest} \cup Busy]
    BY <2>1, <2>2, <2>3, <2>4 DEF Types, Form, Busy
  <2>7. submissions' \in 0..MaxSubmissions BY <1>2 DEF Submit, Types
  <2> QED BY <1>2, <2>5, <2>6, <2>7 DEF Submit, Types
<1>3. ASSUME NEW t \in Tabs, Timeout(t) PROVE Types'
  BY <1>3 DEF Timeout, Types, Form
<1>4. ASSUME NEW t \in Tabs, NewTransfer(t) PROVE Types'
  BY <1>4 DEF NewTransfer, Types, Form, FreshTab, NoView, Views
<1>5. ASSUME NEW t \in Tabs, Reload(t) PROVE Types'
  BY <1>5 DEF Reload, Types, Form, FreshTab, NoView, Views
<1>6. ASSUME NEW t \in Tabs, Poll(t) PROVE Types'
  <2>1. PICK view \in Reads(t) : polls' = polls \cup {[tab |-> t, view |-> view]}
    BY <1>6 DEF Poll
  <2>2. view \in Views BY DEF Reads, Types, View, NoView, Views, Row
  <2> QED BY <1>6, <2>1, <2>2 DEF Poll, Types
<1>7. ASSUME NEW t \in Tabs, PollArrives(t) PROVE Types'
  BY <1>7 DEF PollArrives, Types, Form
<1>8. ASSUME NEW r \in Requests, FindShare(r) PROVE Types'
  BY <1>8, GotoTypes, ResolveTypes DEF FindShare, Types, ByShare
<1>9. ASSUME NEW r \in Requests, FindKey(r) PROVE Types'
  BY <1>9, GotoTypes, ResolveTypes DEF FindKey, Types, ByKey
<1>10. ASSUME NEW r \in Requests, Insert(r) PROVE Types'
  <2>1. CASE ViolatesUnique(r)
    BY <1>10, <2>1, GotoTypes DEF Insert, Types
  <2>2. CASE ~ViolatesUnique(r)
    <3>1. /\ transfers' = transfers \cup {NewRow(r)}
          /\ request' = [request EXCEPT ![r].pc = "run", ![r].found = Cardinality(transfers)]
      BY <1>10, <2>2 DEF Insert, NewRow
    <3>2. Cardinality(transfers) \in Nat BY FS_CardinalityType DEF RowsUnique
    <3>3. transfers' \subseteq Row BY <1>10, <3>1, NewRowType DEF Insert, Types
    <3>4. request' \in [Requests -> {IdleRequest} \cup Busy]
      <4>1. request[r] \in Busy BY <1>10, BusyRequest DEF Insert
      <4>2. [request[r] EXCEPT !.pc = "run", !.found = Cardinality(transfers)] \in Busy
        BY <3>2, <4>1 DEF Busy
      <4> QED BY <3>1, <4>2 DEF Types
    <3> QED BY <1>10, <3>3, <3>4 DEF Insert, Types
  <2> QED BY <2>1, <2>2
<1>11. ASSUME NEW r \in Requests, FindWinner(r) PROVE Types'
  BY <1>11, GotoTypes, ResolveTypes DEF FindWinner, Types, Winners, ByShare, ByKey
<1>12. ASSUME NEW r \in Requests, Reply(r) PROVE Types'
  <2>1. PICK x \in transfers : Deliver(r, View(x)) BY <1>12 DEF Reply
  <2>2. View(x) \in Views BY DEF Types, View, Views, Row
  <2> QED BY <1>12, <2>1, <2>2, DeliverTypes DEF Reply, Types
<1>13. ASSUME NEW r \in Requests, ReplyError(r) \/ Crash(r) PROVE Types'
  <2>1. request[r].pc # "idle" BY <1>13 DEF ReplyError, Crash
  <2>2. tab[request[r].tab].shown \in Views BY <2>1, BusyRequest DEF Types, Form, Busy
  <2>3. crashes' \in 0..MaxCrashes BY <1>13 DEF ReplyError, Crash, Types
  <2> QED BY <1>13, <2>2, <2>3, DeliverTypes DEF ReplyError, Crash, Types
<1>14. CASE Saga
  BY <1>14 DEF Saga, Finish, Types, Row, Final, Statuses
<1> QED
  BY <1>1, <1>2, <1>3, <1>4, <1>5, <1>6, <1>7, <1>8, <1>9, <1>10, <1>11, <1>12, <1>13, <1>14
  DEF Next, RequestStep
-----------------------------------------------------------------------------
(* Rows *)

\* An INSERT that succeeds, by request r.
Inserts(r) ==
    /\ request[r].pc = "insert"
    /\ ~ViolatesUnique(r)
    /\ transfers' = transfers \cup {NewRow(r)}
    /\ request' = [request EXCEPT ![r].pc = "run", ![r].found = Cardinality(transfers)]
    /\ UNCHANGED <<tab, polls>>

\* The saga ends the transfer x.
Ends(x) ==
    /\ x.status = "open"
    /\ \E outcome \in Final :
          transfers' = (transfers \ {x}) \cup {[x EXCEPT !.status = outcome]}
    /\ UNCHANGED <<tab, request, polls>>

\* What can happen to the rows.
LEMMA RowCases ==
    ASSUME [Next]_vars
    PROVE  \/ UNCHANGED transfers
           \/ \E r \in Requests : Inserts(r)
           \/ \E x \in transfers : Ends(x)
<1>1. ASSUME NEW r \in Requests, Insert(r) PROVE UNCHANGED transfers \/ Inserts(r)
  BY <1>1 DEF Insert, Inserts, NewRow
<1>2. CASE Saga BY <1>2 DEF Saga, Finish, Ends
<1>3. CASE UNCHANGED vars BY <1>3 DEF vars
<1>4. ASSUME NEW t \in Tabs, \/ \E r \in Requests : Submit(t, r)
                             \/ Timeout(t) \/ NewTransfer(t) \/ Reload(t)
                             \/ Poll(t) \/ PollArrives(t)
      PROVE  UNCHANGED transfers
  BY <1>4 DEF Submit, Timeout, NewTransfer, Reload, Poll, PollArrives
<1>5. ASSUME NEW r \in Requests, \/ FindShare(r) \/ FindKey(r) \/ FindWinner(r)
                                 \/ Reply(r) \/ ReplyError(r) \/ Crash(r)
      PROVE  UNCHANGED transfers
  BY <1>5 DEF FindShare, FindKey, FindWinner, Reply, ReplyError, Crash
<1> QED BY <1>1, <1>2, <1>3, <1>4, <1>5 DEF Next, RequestStep

\* A row stays, and with an outcome it stays as it is.
LEMMA RowStays ==
    ASSUME Types, [Next]_vars, NEW x \in transfers
    PROVE  \E y \in transfers' :
               /\ y.id = x.id /\ y.key = x.key
               /\ y.canonical = x.canonical /\ y.origin = x.origin
               /\ x.status \in Final => y.status = x.status
<1>1. CASE UNCHANGED transfers BY <1>1
<1>2. CASE \E r \in Requests : Inserts(r) BY <1>2 DEF Inserts
<1>3. CASE \E z \in transfers : Ends(z)
  <2>0. PICK z \in transfers : Ends(z) BY <1>3
  <2>1. CASE x = z
    <3>1. PICK outcome \in Final :
              transfers' = (transfers \ {z}) \cup {[z EXCEPT !.status = outcome]}
      BY <2>0 DEF Ends
    <3>2. [z EXCEPT !.status = outcome] \in transfers' BY <3>1
    <3>3. x \in Row BY DEF Types
    <3> QED BY <2>0, <2>1, <3>2, <3>3 DEF Ends, Row, Final
  <2>2. CASE x # z BY <2>0, <2>2 DEF Ends
  <2> QED BY <2>1, <2>2
<1> QED BY <1>1, <1>2, <1>3, RowCases

\* Every row was there, or is new.
LEMMA RowWas ==
    ASSUME Types, [Next]_vars, NEW y \in transfers'
    PROVE  \/ \E x \in transfers :
                  /\ y.id = x.id /\ y.key = x.key /\ y.destination = x.destination
                  /\ y.canonical = x.canonical /\ y.origin = x.origin
           \/ \E r \in Requests : Inserts(r) /\ y = NewRow(r)
<1>1. CASE UNCHANGED transfers BY <1>1
<1>2. CASE \E r \in Requests : Inserts(r) BY <1>2 DEF Inserts
<1>3. CASE \E z \in transfers : Ends(z)
  <2>0. PICK z \in transfers : Ends(z) BY <1>3
  <2>1. PICK outcome \in Final :
            transfers' = (transfers \ {z}) \cup {[z EXCEPT !.status = outcome]}
    BY <2>0 DEF Ends
  <2>2. CASE y = [z EXCEPT !.status = outcome] BY <2>2 DEF Types, Row
  <2>3. CASE y \in transfers BY <2>3
  <2> QED BY <2>1, <2>2, <2>3
<1> QED BY <1>1, <1>2, <1>3, RowCases

LEMMA RowsFitStep ==
    ASSUME Types, RowsFit, InsertsFit, [Next]_vars
    PROVE  RowsFit'
<1> SUFFICES ASSUME NEW y \in transfers'
             PROVE  /\ y.canonical.sender = User[y.origin[1]]
                    /\ y.canonical.share = Purpose[y.origin[1]]
                    /\ y.destination = quoteTransfer(y.canonical.payload)
                    /\ y.destination > 0
  BY DEF RowsFit, quoteTransfer
<1>1. CASE \E r \in Requests : Inserts(r) /\ y = NewRow(r)
  <2>0. PICK r \in Requests : Inserts(r) /\ y = NewRow(r) BY <1>1
  <2>1. request[r] \in Busy BY <2>0, BusyRequest DEF Inserts
  <2>2. quoteTransfer(request[r].payload) > 0 BY <2>0 DEF Inserts, InsertsFit
  <2> QED BY <2>0, <2>1, <2>2 DEF NewRow, canonicalRequest, Sender, ShareOf, Busy
<1> QED BY <1>1, RowWas DEF RowsFit

\* The constraints of the table, and the count that gives the ids.
LEMMA RowsUniqueStep ==
    ASSUME Types, RowsUnique, [Next]_vars
    PROVE  RowsUnique'
<1>1. CASE UNCHANGED transfers BY <1>1 DEF RowsUnique
<1>2. ASSUME NEW r \in Requests, Inserts(r) PROVE RowsUnique'
  <2> DEFINE n == NewRow(r)
  <2>1. /\ n.id = Cardinality(transfers) /\ n.key = request[r].key
        /\ n.canonical.sender = Sender(r) /\ n.canonical.share = ShareOf(r)
    BY DEF NewRow, canonicalRequest
  <2>2. Cardinality(transfers) \in Nat BY FS_CardinalityType DEF RowsUnique
  <2>3. \A x \in transfers : x.id \in Nat /\ x.id < Cardinality(transfers)
    BY DEF RowsUnique, Types, Row
  <2>4. n \notin transfers BY <2>1, <2>2, <2>3
  <2>5. transfers' = transfers \cup {n} BY <1>2 DEF Inserts
  <2>6. IsFiniteSet(transfers') /\ Cardinality(transfers)' = Cardinality(transfers) + 1
    BY <2>4, <2>5, FS_AddElement DEF RowsUnique
  <2>7. \A x \in transfers : ~ \/ x.id = n.id
                               \/ x.canonical.sender = n.canonical.sender /\ x.key = n.key
                               \/ /\ n.canonical.share # NoShare
                                  /\ x.canonical.share = n.canonical.share
    BY <1>2, <2>1, <2>2, <2>3 DEF Inserts, ViolatesUnique, ByKey, ByShare
  <2> HIDE DEF n
  <2>8. \A x \in transfers' : x.id < Cardinality(transfers)'
    BY <2>1, <2>2, <2>3, <2>5, <2>6
  <2>9. ASSUME NEW x \in transfers', NEW y \in transfers',
               \/ x.id = y.id
               \/ x.canonical.sender = y.canonical.sender /\ x.key = y.key
               \/ x.canonical.share # NoShare /\ x.canonical.share = y.canonical.share
        PROVE  x = y
    <3>1. CASE x \in transfers /\ y \in transfers BY <2>9, <3>1 DEF RowsUnique
    <3>2. CASE x = n \/ y = n BY <2>5, <2>7, <2>9, <3>2
    <3> QED BY <2>5, <3>1, <3>2
  <2> QED BY <2>6, <2>8, <2>9 DEF RowsUnique
<1>3. ASSUME NEW z \in transfers, Ends(z) PROVE RowsUnique'
  <2>1. PICK outcome \in Final :
            transfers' = (transfers \ {z}) \cup {[z EXCEPT !.status = outcome]}
    BY <1>3 DEF Ends
  <2> DEFINE e == [z EXCEPT !.status = outcome]
  <2>2. /\ e.id = z.id /\ e.key = z.key /\ e.canonical = z.canonical
        /\ e.status = outcome /\ z.status = "open"
    BY <1>3 DEF Types, Row, Ends
  <2>3. transfers' = (transfers \ {z}) \cup {e} BY <2>1
  <2> HIDE DEF e
  <2>4. \A x \in transfers : x.id = e.id => x = z BY <2>2 DEF RowsUnique
  <2>5. e # z BY <2>2 DEF Final
  <2>6. e \notin transfers \ {z} BY <2>4, <2>5
  <2>7. /\ IsFiniteSet(transfers \ {z})
        /\ Cardinality(transfers \ {z}) = Cardinality(transfers) - 1
    BY FS_RemoveElement DEF RowsUnique
  <2>8. /\ IsFiniteSet(transfers')
        /\ Cardinality(transfers)' = Cardinality(transfers \ {z}) + 1
    BY <2>3, <2>6, <2>7, FS_AddElement
  <2>9. Cardinality(transfers) \in Nat BY FS_CardinalityType DEF RowsUnique
  <2>10. Cardinality(transfers)' = Cardinality(transfers) BY <2>7, <2>8, <2>9
  <2>11. \A x \in transfers' : x.id < Cardinality(transfers)'
    BY <2>2, <2>3, <2>10 DEF RowsUnique
  <2>12. ASSUME NEW x \in transfers', NEW y \in transfers',
                \/ x.id = y.id
                \/ x.canonical.sender = y.canonical.sender /\ x.key = y.key
                \/ x.canonical.share # NoShare /\ x.canonical.share = y.canonical.share
         PROVE  x = y
    <3>1. CASE x # e /\ y # e BY <2>3, <2>12, <3>1 DEF RowsUnique
    <3>2. CASE x = e /\ y # e
      <4>1. y \in transfers /\ y # z BY <2>3, <3>2
      <4> QED BY <2>2, <2>12, <3>2, <4>1 DEF RowsUnique
    <3>3. CASE y = e /\ x # e
      <4>1. x \in transfers /\ x # z BY <2>3, <3>3
      <4> QED BY <2>2, <2>12, <3>3, <4>1 DEF RowsUnique
    <3> QED BY <3>1, <3>2, <3>3
  <2> QED BY <2>8, <2>11, <2>12 DEF RowsUnique
<1> QED BY <1>1, <1>2, <1>3, RowCases
-----------------------------------------------------------------------------
(* Requests and keys *)

\* Request r goes on with what it was sent with.
Continues(r) ==
    request'[r].pc # "idle" =>
        /\ request[r].pc # "idle"
        /\ request'[r].tab = request[r].tab /\ request'[r].intent = request[r].intent
        /\ request'[r].key = request[r].key /\ request'[r].payload = request[r].payload

\* A tab keeps its key, or begins a new submission.
Keeps(t) ==
    \/ tab'[t].intent = tab[t].intent /\ tab'[t].key = tab[t].key
    \/ tab'[t].intent = tab[t].intent + 1 /\ tab'[t].key = NoKey

\* Steps that send nothing.
Quiet == (\A r \in Requests : Continues(r)) /\ (\A t \in Tabs : Keeps(t))

LEMMA GotoContinues ==
    ASSUME Types, NEW r \in Requests, request[r].pc # "idle", NEW pc, Goto(r, pc)
    PROVE  \A q \in Requests : Continues(q)
BY BusyRequest DEF Types, Goto, Continues, Busy

LEMMA ResolveContinues ==
    ASSUME Types, NEW r \in Requests, request[r].pc # "idle", NEW x, resolveExisting(r, x)
    PROVE  \A q \in Requests : Continues(q)
<1>1. request[r] \in Busy BY BusyRequest
<1>2. CASE x.canonical = canonicalRequest(r)
  BY <1>1, <1>2 DEF Types, resolveExisting, Continues, Busy
<1>3. CASE x.canonical # canonicalRequest(r)
  BY <1>3, GotoContinues DEF resolveExisting
<1> QED BY <1>2, <1>3

LEMMA DeliverQuiet ==
    ASSUME Types, NEW r \in Requests, NEW shown, Deliver(r, shown)
    PROVE  Quiet
<1>1. \A q \in Requests : Continues(q)
  BY DEF Types, Deliver, Continues, IdleRequest
<1>2. \A t \in Tabs : Keeps(t)
  BY DEF Types, Deliver, Keeps, Form
<1> QED BY <1>1, <1>2 DEF Quiet

\* Every step but a submission is quiet.
LEMMA QuietCases ==
    ASSUME Types, [Next]_vars
    PROVE  Quiet \/ \E t \in Tabs, r \in Requests : Submit(t, r)
<1>1. CASE UNCHANGED vars BY <1>1 DEF vars, Quiet, Continues, Keeps
<1>2. ASSUME NEW t \in Tabs, Timeout(t) PROVE Quiet
  BY <1>2 DEF Timeout, Quiet, Continues, Keeps, Types, Form
<1>3. ASSUME NEW t \in Tabs, NewTransfer(t) PROVE Quiet
  BY <1>3 DEF NewTransfer, Quiet, Continues, Keeps, Types, Form, FreshTab
<1>4. ASSUME NEW t \in Tabs, Reload(t) PROVE Quiet
  BY <1>4 DEF Reload, Quiet, Continues, Keeps, Types, Form, FreshTab
<1>5. ASSUME NEW t \in Tabs, Poll(t) PROVE Quiet
  BY <1>5 DEF Poll, Quiet, Continues, Keeps
<1>6. ASSUME NEW t \in Tabs, PollArrives(t) PROVE Quiet
  BY <1>6 DEF PollArrives, Quiet, Continues, Keeps, Types, Form
<1>7. ASSUME UNCHANGED tab PROVE \A t \in Tabs : Keeps(t)
  BY <1>7 DEF Keeps
<1>8. ASSUME NEW r \in Requests, FindShare(r) PROVE Quiet
  BY <1>7, <1>8, GotoContinues, ResolveContinues DEF FindShare, Quiet
<1>9. ASSUME NEW r \in Requests, FindKey(r) PROVE Quiet
  BY <1>7, <1>9, GotoContinues, ResolveContinues DEF FindKey, Quiet
<1>10. ASSUME NEW r \in Requests, Insert(r) PROVE Quiet
  <2>1. CASE ViolatesUnique(r)
    BY <1>7, <1>10, <2>1, GotoContinues DEF Insert, Quiet
  <2>2. CASE ~ViolatesUnique(r)
    <3>1. request[r] \in Busy BY <1>10, BusyRequest DEF Insert
    <3>2. request' = [request EXCEPT ![r].pc = "run", ![r].found = Cardinality(transfers)]
      BY <1>10, <2>2 DEF Insert
    <3>3. \A q \in Requests : Continues(q)
      BY <1>10, <3>1, <3>2 DEF Insert, Continues, Types, Busy
    <3> QED BY <1>7, <1>10, <3>3 DEF Insert, Quiet
  <2> QED BY <2>1, <2>2
<1>11. ASSUME NEW r \in Requests, FindWinner(r) PROVE Quiet
  BY <1>7, <1>11, GotoContinues, ResolveContinues DEF FindWinner, Quiet
<1>12. ASSUME NEW r \in Requests, Reply(r) \/ ReplyError(r) \/ Crash(r) PROVE Quiet
  BY <1>12, DeliverQuiet DEF Reply, ReplyError, Crash
<1>13. CASE Saga
  BY <1>7, <1>13 DEF Saga, Quiet, Continues
<1> QED
  BY <1>1, <1>2, <1>3, <1>4, <1>5, <1>6, <1>8, <1>9, <1>10, <1>11, <1>12, <1>13
  DEF Next, RequestStep

\* Tab t submits payload p with key k as request r.
Submits(t, r, k, p, pc) ==
    /\ k \in Nat
    /\ tab'[t].key = k /\ tab'[t].intent = tab[t].intent /\ tab'[t].shown = tab[t].shown
    /\ \A u \in Tabs \ {t} : tab'[u] = tab[u]
    /\ request' = [request EXCEPT ![r] =
          [pc |-> pc, tab |-> t, intent |-> tab[t].intent, key |-> k,
           payload |-> p, found |-> Nothing]]

\* What a submission does.
LEMMA SubmitShape ==
    ASSUME Types, NEW t \in Tabs, NEW r \in Requests, Submit(t, r)
    PROVE  \E k \in begin(t), p \in Payload, pc \in {"findKey", "findShare", "refused"} :
               Submits(t, r, k, p, pc)
<1> USE CreationAssumption
<1>1. PICK k \in begin(t), p \in Choices[t], pc \in canActivate(t) :
          /\ tab' = [tab EXCEPT ![t].key = k, ![t].waits = r]
          /\ request' = [request EXCEPT ![r] =
                [pc |-> pc, tab |-> t, intent |-> tab[t].intent, key |-> k,
                 payload |-> p, found |-> Nothing]]
  BY DEF Submit
<1>2. k \in Nat
  <2>1. tab[t].key \in Nat \cup {NoKey} BY DEF Types, Form
  <2>2. NewKeys \subseteq Nat BY DEF NewKeys, Types
  <2> QED BY <2>1, <2>2 DEF begin
<1>3. p \in Payload OBVIOUS
<1>4. pc \in {"findKey", "findShare", "refused"} BY DEF canActivate
<1>5. tab[t] \in Form BY DEF Types
<1>6. tab' = [tab EXCEPT ![t] = [@ EXCEPT !.key = k, !.waits = r]] BY <1>1
<1>7. /\ tab'[t].key = k /\ tab'[t].intent = tab[t].intent /\ tab'[t].shown = tab[t].shown
      /\ \A u \in Tabs \ {t} : tab'[u] = tab[u]
  BY <1>5, <1>6 DEF Types, Form
<1> QED BY <1>1, <1>2, <1>3, <1>4, <1>7 DEF Submits

\* A quiet step sends nothing new.
LEMMA QuietSends ==
    ASSUME Types, [Next]_vars, Quiet, NEW t \in Tabs, NEW n \in Nat, NEW k \in Nat,
           Sent(t, n, k)'
    PROVE  Sent(t, n, k)
<1>1. ASSUME NEW y \in transfers', y.origin = <<t, n>>, y.key = k PROVE Sent(t, n, k)
  <2>1. CASE \E x \in transfers : y.key = x.key /\ y.origin = x.origin
    BY <1>1, <2>1 DEF Sent
  <2>2. ASSUME NEW r \in Requests, Inserts(r), y = NewRow(r) PROVE Sent(t, n, k)
    <3>1. y.origin = <<request[r].tab, request[r].intent>> /\ y.key = request[r].key
      BY <2>2 DEF NewRow
    <3> QED BY <1>1, <2>2, <3>1 DEF Inserts, Sent
  <2> QED BY <2>1, <2>2, RowWas
<1>2. ASSUME NEW r \in Requests, request'[r].pc # "idle", request'[r].tab = t,
             request'[r].intent = n, request'[r].key = k
      PROVE  Sent(t, n, k)
  BY <1>2 DEF Quiet, Continues, Sent
<1> QED BY <1>1, <1>2 DEF Sent

\* A submission sends the tab's key.
LEMMA SubmitSends ==
    ASSUME Types, NEW t \in Tabs, NEW r \in Requests, Submit(t, r),
           NEW u \in Tabs, NEW n \in Nat, NEW k \in Nat, Sent(u, n, k)'
    PROVE  Sent(u, n, k) \/ (u = t /\ n = tab[t].intent /\ k = tab'[t].key)
<1>1. PICK j \in begin(t), p \in Payload, pc \in {"findKey", "findShare", "refused"} :
          Submits(t, r, j, p, pc)
  BY SubmitShape
<1>2. UNCHANGED transfers BY DEF Submit
<1>3. ASSUME NEW q \in Requests, request'[q].pc # "idle", request'[q].tab = u,
             request'[q].intent = n, request'[q].key = k
      PROVE  Sent(u, n, k) \/ (u = t /\ n = tab[t].intent /\ k = tab'[t].key)
  <2>1. CASE q = r BY <1>1, <1>3, <2>1 DEF Types, Submits
  <2>2. CASE q # r BY <1>1, <1>3, <2>2 DEF Types, Sent, Submits
  <2> QED BY <2>1, <2>2
<1> QED BY <1>2, <1>3 DEF Sent

LEMMA OneKeyStep ==
    ASSUME Types, OneKey, [Next]_vars
    PROVE  OneKey'
<1> USE CreationAssumption
<1> SUFFICES ASSUME NEW t \in Tabs, NEW n \in Nat, NEW k \in Nat, Sent(t, n, k)'
             PROVE  /\ n <= tab'[t].intent
                    /\ n = tab'[t].intent => tab'[t].key = k
                    /\ \A j \in Nat : Sent(t, n, j)' => j = k
  BY DEF OneKey
<1>0. tab[t].intent \in Nat BY DEF Types, Form
<1>1. CASE Quiet
  <2>1. Sent(t, n, k) BY <1>1, QuietSends
  <2>2. \A j \in Nat : Sent(t, n, j)' => j = k BY <1>1, <2>1, QuietSends DEF OneKey
  <2>3. n <= tab[t].intent /\ (n = tab[t].intent => tab[t].key = k) BY <2>1 DEF OneKey
  <2>4. Keeps(t) BY <1>1 DEF Quiet
  <2> QED BY <1>0, <2>2, <2>3, <2>4 DEF Keeps
<1>2. ASSUME NEW u \in Tabs, NEW r \in Requests, Submit(u, r)
      PROVE  /\ n <= tab'[t].intent
             /\ n = tab'[t].intent => tab'[t].key = k
             /\ \A j \in Nat : Sent(t, n, j)' => j = k
  <2>1. /\ tab'[u].key \in begin(u) /\ tab'[u].key \in Nat
        /\ tab'[u].intent = tab[u].intent
        /\ \A v \in Tabs \ {u} : tab'[v] = tab[v]
    BY <1>2, SubmitShape DEF Submits
  <2>2. \A j \in Nat : Sent(u, tab[u].intent, j) => tab[u].key = j /\ tab'[u].key = j
    BY <1>2, <2>1 DEF OneKey, begin, Types, Form
  <2>3. CASE t # u
    <3>1. \A j \in Nat : Sent(t, n, j)' => Sent(t, n, j) BY <1>2, <2>3, SubmitSends
    <3> QED BY <2>1, <2>3, <3>1 DEF OneKey
  <2>4. CASE t = u /\ n # tab[u].intent
    <3>1. \A j \in Nat : Sent(t, n, j)' => Sent(t, n, j) BY <1>2, <2>4, SubmitSends
    <3> QED BY <2>1, <2>4, <3>1 DEF OneKey
  <2>5. CASE t = u /\ n = tab[u].intent
    <3>1. \A j \in Nat : Sent(t, n, j)' => j = tab'[u].key
      BY <1>2, <2>2, <2>5, SubmitSends
    <3> QED BY <1>0, <2>1, <2>5, <3>1
  <2> QED BY <2>3, <2>4, <2>5
<1> QED BY <1>1, <1>2, QuietCases
-----------------------------------------------------------------------------
(* Answers *)

\* How a request may come to its INSERT, to its answer, and to the search for a
\* winner and its failure.
Advances(r) ==
    /\ request'[r].pc = "insert" =>
          \/ request[r].pc = "insert" /\ request'[r].payload = request[r].payload
          \/ quoteTransfer(request'[r].payload) > 0
    /\ request'[r].pc = "run" =>
          \/ /\ request[r].pc = "run" /\ request'[r].found = request[r].found
             /\ request'[r].tab = request[r].tab /\ request'[r].payload = request[r].payload
          \/ \E x \in transfers' : /\ x.id = request'[r].found
                                   /\ x.canonical = canonicalRequest(r)'
    /\ request'[r].pc = "winner" =>
          /\ request[r].pc = "winner" \/ (request[r].pc = "insert" /\ ViolatesUnique(r))
          /\ request'[r].tab = request[r].tab /\ request'[r].key = request[r].key
    /\ request'[r].pc = "error" =>
          /\ request[r].pc = "error" \/ (request[r].pc = "winner" /\ Winners(r) = {})
          /\ request'[r].tab = request[r].tab /\ request'[r].key = request[r].key

LEMMA SameAdvances ==
    ASSUME NEW r, request'[r] = request[r]
    PROVE  Advances(r)
BY DEF Advances

LEMMA GotoAdvances ==
    ASSUME Types, NEW r \in Requests, request[r].pc # "idle",
           NEW pc \in {"findKey", "insert", "winner", "refused", "conflict", "error"},
           pc = "insert" => quoteTransfer(request[r].payload) > 0,
           pc = "winner" => request[r].pc = "insert" /\ ViolatesUnique(r),
           pc = "error" => request[r].pc = "winner" /\ Winners(r) = {},
           Goto(r, pc)
    PROVE  \A q \in Requests : Advances(q)
<1>1. request[r] \in Busy BY BusyRequest
<1>2. /\ request'[r].pc = pc /\ request'[r].payload = request[r].payload
      /\ request'[r].tab = request[r].tab /\ request'[r].key = request[r].key
  BY <1>1 DEF Types, Goto, Busy
<1>3. Advances(r) BY <1>2 DEF Advances
<1>4. \A q \in Requests \ {r} : request'[q] = request[q] BY DEF Types, Goto
<1> QED BY <1>3, <1>4, SameAdvances

LEMMA ResolveAdvances ==
    ASSUME Types, NEW r \in Requests, request[r].pc # "idle", NEW x \in transfers,
           UNCHANGED transfers, resolveExisting(r, x)
    PROVE  \A q \in Requests : Advances(q)
<1>1. request[r] \in Busy BY BusyRequest
<1>2. CASE x.canonical = canonicalRequest(r)
  <2>1. /\ request'[r].pc = "run" /\ request'[r].found = x.id
        /\ request'[r].tab = request[r].tab /\ request'[r].payload = request[r].payload
        /\ \A q \in Requests \ {r} : request'[q] = request[q]
    BY <1>1, <1>2 DEF Types, resolveExisting, Busy
  <2>2. canonicalRequest(r)' = canonicalRequest(r)
    BY <2>1 DEF canonicalRequest, Sender, ShareOf
  <2>3. Advances(r) BY <1>2, <2>1, <2>2 DEF Advances
  <2> QED BY <2>1, <2>3, SameAdvances
<1>3. CASE x.canonical # canonicalRequest(r)
  BY <1>3, GotoAdvances DEF resolveExisting
<1> QED BY <1>2, <1>3

LEMMA DeliverAdvances ==
    ASSUME Types, NEW r \in Requests, NEW shown, Deliver(r, shown)
    PROVE  \A q \in Requests : Advances(q)
<1>1. request'[r].pc = "idle" BY DEF Types, Deliver, IdleRequest
<1>2. \A q \in Requests \ {r} : request'[q] = request[q] BY DEF Types, Deliver
<1> QED BY <1>1, <1>2, SameAdvances DEF Advances

LEMMA AdvanceCases ==
    ASSUME Types, [Next]_vars
    PROVE  \A q \in Requests : Advances(q)
<1>1. ASSUME UNCHANGED request PROVE \A q \in Requests : Advances(q)
  BY <1>1, SameAdvances
<1>2. ASSUME NEW t \in Tabs, NEW r \in Requests, Submit(t, r)
      PROVE  \A q \in Requests : Advances(q)
  <2>1. PICK k \in begin(t), p \in Payload, pc \in {"findKey", "findShare", "refused"} :
            Submits(t, r, k, p, pc)
    BY <1>2, SubmitShape
  <2>2. request'[r].pc = pc BY <2>1 DEF Submits, Types
  <2>3. \A q \in Requests \ {r} : request'[q] = request[q] BY <2>1 DEF Submits, Types
  <2>4. Advances(r) BY <2>2 DEF Advances
  <2> QED BY <2>3, <2>4, SameAdvances
<1>3. ASSUME NEW r \in Requests, FindShare(r) PROVE \A q \in Requests : Advances(q)
  BY <1>3, GotoAdvances, ResolveAdvances DEF FindShare, ByShare
<1>4. ASSUME NEW r \in Requests, FindKey(r) PROVE \A q \in Requests : Advances(q)
  BY <1>4, GotoAdvances, ResolveAdvances DEF FindKey, ByKey
<1>5. ASSUME NEW r \in Requests, Insert(r) PROVE \A q \in Requests : Advances(q)
  <2>1. CASE ViolatesUnique(r)
    BY <1>5, <2>1, GotoAdvances DEF Insert
  <2>2. CASE ~ViolatesUnique(r)
    <3>1. request[r] \in Busy BY <1>5, BusyRequest DEF Insert
    <3>2. /\ request' = [request EXCEPT ![r].pc = "run", ![r].found = Cardinality(transfers)]
          /\ transfers' = transfers \cup {NewRow(r)}
      BY <1>5, <2>2 DEF Insert, NewRow
    <3>3. /\ request'[r].pc = "run" /\ request'[r].found = Cardinality(transfers)
          /\ request'[r].tab = request[r].tab /\ request'[r].payload = request[r].payload
          /\ \A q \in Requests \ {r} : request'[q] = request[q]
      BY <3>1, <3>2 DEF Types, Busy
    <3>4. canonicalRequest(r)' = canonicalRequest(r)
      BY <3>3 DEF canonicalRequest, Sender, ShareOf
    <3>5. NewRow(r).id = Cardinality(transfers) /\ NewRow(r).canonical = canonicalRequest(r)
      BY DEF NewRow
    <3>6. Advances(r) BY <3>2, <3>3, <3>4, <3>5 DEF Advances
    <3> QED BY <3>3, <3>6, SameAdvances
  <2> QED BY <2>1, <2>2
<1>6. ASSUME NEW r \in Requests, FindWinner(r) PROVE \A q \in Requests : Advances(q)
  BY <1>6, GotoAdvances, ResolveAdvances DEF FindWinner, Winners, ByShare, ByKey
<1>7. ASSUME NEW r \in Requests, Reply(r) \/ ReplyError(r) \/ Crash(r)
      PROVE  \A q \in Requests : Advances(q)
  BY <1>7, DeliverAdvances DEF Reply, ReplyError, Crash
<1>8. ASSUME NEW t \in Tabs, \/ Timeout(t) \/ NewTransfer(t) \/ Reload(t)
                             \/ Poll(t) \/ PollArrives(t)
      PROVE  UNCHANGED request
  BY <1>8 DEF Timeout, NewTransfer, Reload, Poll, PollArrives
<1>9. CASE Saga BY <1>1, <1>9 DEF Saga
<1>10. CASE UNCHANGED vars BY <1>1, <1>10 DEF vars
<1> QED BY <1>1, <1>2, <1>3, <1>4, <1>5, <1>6, <1>7, <1>8, <1>9, <1>10 DEF Next, RequestStep

LEMMA AnswersStep ==
    ASSUME Types, InsertsFit, AnswersFit, [Next]_vars
    PROVE  InsertsFit' /\ AnswersFit'
<1>1. ASSUME NEW r \in Requests, request'[r].pc = "insert"
      PROVE  quoteTransfer(request'[r].payload) > 0
  BY <1>1, AdvanceCases DEF Advances, InsertsFit
<1>2. ASSUME NEW r \in Requests, request'[r].pc = "run"
      PROVE  \E y \in transfers' : y.id = request'[r].found /\ y.canonical = canonicalRequest(r)'
  <2>1. CASE /\ request[r].pc = "run" /\ request'[r].found = request[r].found
             /\ request'[r].tab = request[r].tab /\ request'[r].payload = request[r].payload
    <3>1. PICK x \in transfers : x.id = request[r].found /\ x.canonical = canonicalRequest(r)
      BY <2>1 DEF AnswersFit
    <3>2. canonicalRequest(r)' = canonicalRequest(r)
      BY <2>1 DEF canonicalRequest, Sender, ShareOf
    <3>3. PICK y \in transfers' : y.id = x.id /\ y.canonical = x.canonical BY RowStays
    <3> QED BY <2>1, <3>1, <3>2, <3>3
  <2> QED BY <1>2, <2>1, AdvanceCases DEF Advances
<1>3. InsertsFit' BY <1>1 DEF InsertsFit, quoteTransfer
<1>4. AnswersFit' BY <1>2 DEF AnswersFit
<1> QED BY <1>3, <1>4

-----------------------------------------------------------------------------
(* Views *)

\* A view that a row confirms stays confirmed.
LEMMA ReflectsStays ==
    ASSUME Types, [Next]_vars, NEW view, NEW t \in Tabs, Reflects(view, t)
    PROVE  Reflects(view, t)'
<1>1. PICK x \in transfers : /\ x.id = view.id
                             /\ x.canonical.sender = User[t]
                             /\ view.status \in Final => x.status = view.status
  BY DEF Reflects
<1>2. PICK y \in transfers' : /\ y.id = x.id /\ y.canonical = x.canonical
                              /\ x.status \in Final => y.status = x.status
  BY RowStays
<1>3. /\ y.id = view.id
      /\ y.canonical.sender = User[t]
      /\ view.status \in Final => y.status = view.status
  BY <1>1, <1>2
<1> QED BY <1>3 DEF Reflects

\* What a tab reads is confirmed: the row of its share has its user as sender.
LEMMA PollReflects ==
    ASSUME Types, RowsFit, NEW t \in Tabs, NEW x \in transfers,
           IF Purpose[t] = NoShare THEN x.canonical.sender = User[t]
           ELSE x.canonical.share = Purpose[t]
    PROVE  Reflects(View(x), t)
<1>1. x \in Row /\ x.origin[1] \in Tabs BY DEF Types, Row
<1>2. x.canonical.sender = User[t]
  BY <1>1, CreationAssumption DEF RowsFit
<1> QED BY <1>2 DEF Reflects, View

LEMMA ViewsStep ==
    ASSUME IInv, [Next]_vars
    PROVE  ViewsReflect'
<1> DEFINE Kept == /\ \A t \in Tabs : tab'[t].shown # NoView => Reflects(tab'[t].shown, t)
                   /\ \A p \in polls' : /\ p.tab \in Tabs
                                        /\ p.view # NoView => Reflects(p.view, p.tab)
<1> USE DEF IInv
<1>0. \A p \in polls : p.tab \in Tabs BY DEF Types
<1>1. SUFFICES Kept BY <1>1, ReflectsStays DEF ViewsReflect
<1>2. ASSUME UNCHANGED polls, \A t \in Tabs : tab'[t].shown \in {tab[t].shown, NoView}
      PROVE  Kept
  BY <1>0, <1>2 DEF ViewsReflect
<1>3. CASE UNCHANGED vars BY <1>2, <1>3 DEF vars
<1>4. ASSUME NEW t \in Tabs, NEW r \in Requests, Submit(t, r) PROVE Kept
  <2>1. PICK k \in begin(t), p \in Payload, pc \in {"findKey", "findShare", "refused"} :
            Submits(t, r, k, p, pc)
    BY <1>4, SubmitShape
  <2> QED BY <1>2, <1>4, <2>1 DEF Submits, Submit
<1>5. ASSUME NEW t \in Tabs, Timeout(t) PROVE Kept
  <2>1. \A u \in Tabs : tab'[u].shown = tab[u].shown BY <1>5 DEF Timeout, Types, Form
  <2> QED BY <1>2, <1>5, <2>1 DEF Timeout
<1>6. ASSUME NEW t \in Tabs, NewTransfer(t) PROVE Kept
  <2>1. \A u \in Tabs : tab'[u].shown \in {tab[u].shown, NoView}
    BY <1>6 DEF NewTransfer, Types, Form, FreshTab
  <2> QED BY <1>2, <1>6, <2>1 DEF NewTransfer
<1>7. ASSUME NEW t \in Tabs, Reload(t) PROVE Kept
  <2>1. \A u \in Tabs : tab'[u].shown \in {tab[u].shown, NoView}
    BY <1>7 DEF Reload, Types, Form, FreshTab
  <2>2. polls' \subseteq polls BY <1>7 DEF Reload
  <2> QED BY <1>0, <2>1, <2>2 DEF ViewsReflect
<1>8. ASSUME NEW t \in Tabs, Poll(t) PROVE Kept
  <2>1. PICK view \in Reads(t) : polls' = polls \cup {[tab |-> t, view |-> view]}
    BY <1>8 DEF Poll
  <2>2. view # NoView => Reflects(view, t)
    BY PollReflects DEF Reads
  <2>3. UNCHANGED tab BY <1>8 DEF Poll
  <2> QED BY <1>0, <2>1, <2>2, <2>3 DEF ViewsReflect
<1>9. ASSUME NEW t \in Tabs, PollArrives(t) PROVE Kept
  <2>1. PICK p \in polls : /\ p.tab = t /\ polls' = polls \ {p}
                           /\ tab' = [tab EXCEPT ![t].shown = p.view]
    BY <1>9 DEF PollArrives
  <2>2. p.view # NoView => Reflects(p.view, t) BY <2>1 DEF ViewsReflect
  <2>3. \A u \in Tabs : tab'[u].shown = IF u = t THEN p.view ELSE tab[u].shown
    BY <2>1 DEF Types, Form
  <2> QED BY <1>0, <2>1, <2>2, <2>3 DEF ViewsReflect
<1>10. ASSUME NEW r \in Requests, NEW x \in transfers, request[r].pc = "run",
              x.id = request[r].found, Deliver(r, View(x)), UNCHANGED polls
       PROVE  Kept
  <2>1. x.canonical = canonicalRequest(r) BY <1>10 DEF AnswersFit, RowsUnique
  <2>2. Reflects(View(x), request[r].tab)
    BY <2>1 DEF Reflects, View, canonicalRequest, Sender
  <2>3. \A u \in Tabs : \/ tab'[u].shown = tab[u].shown
                        \/ u = request[r].tab /\ tab'[u].shown = View(x)
    BY <1>10 DEF Deliver, Types, Form
  <2> QED BY <1>0, <1>10, <2>2, <2>3 DEF ViewsReflect
<1>11. ASSUME NEW r \in Requests, Reply(r) PROVE Kept
  BY <1>10, <1>11 DEF Reply
<1>12. ASSUME NEW r \in Requests, ReplyError(r) \/ Crash(r) PROVE Kept
  <2>1. Deliver(r, tab[request[r].tab].shown) /\ UNCHANGED polls
    BY <1>12 DEF ReplyError, Crash
  <2>2. \A u \in Tabs : tab'[u].shown = tab[u].shown
    BY <2>1 DEF Deliver, Types, Form
  <2> QED BY <1>2, <2>1, <2>2
<1>13. ASSUME NEW r \in Requests, FindShare(r) \/ FindKey(r) \/ Insert(r) \/ FindWinner(r)
       PROVE  Kept
  BY <1>2, <1>13 DEF FindShare, FindKey, Insert, FindWinner
<1>14. CASE Saga BY <1>2, <1>14 DEF Saga
<1> QED
  BY <1>3, <1>4, <1>5, <1>6, <1>7, <1>8, <1>9, <1>11, <1>12, <1>13, <1>14
  DEF Next, RequestStep
-----------------------------------------------------------------------------
(* The losers of races *)

\* A request that lost a race still violates a constraint.
Lost == \A r \in Requests : request[r].pc = "winner" => ViolatesUnique(r)

\* The rows with a request's key, and those of its share, stay.
LEMMA MatchingRowsStay ==
    ASSUME Types, [Next]_vars, NEW r \in Requests,
           request'[r].tab = request[r].tab, request'[r].key = request[r].key
    PROVE  /\ \A x \in ByKey(r) : \E y \in ByKey(r)' : y.canonical = x.canonical
           /\ \A x \in ByShare(r) : ByShare(r)' # {}
<1>1. Sender(r)' = Sender(r) /\ ShareOf(r)' = ShareOf(r) BY DEF Sender, ShareOf
<1>2. ASSUME NEW x \in transfers
      PROVE  \E y \in transfers' : y.key = x.key /\ y.canonical = x.canonical
  BY RowStays
<1> QED BY <1>1, <1>2 DEF ByKey, ByShare

LEMMA LosersStep ==
    ASSUME IInv, Lost, LosersSeeWinners, [Next]_vars
    PROVE  Lost' /\ LosersSeeWinners'
<1> USE DEF IInv
<1>1. ASSUME NEW r \in Requests, request'[r].pc = "winner" PROVE ViolatesUnique(r)'
  <2>1. /\ request[r].pc = "winner" \/ (request[r].pc = "insert" /\ ViolatesUnique(r))
        /\ request'[r].tab = request[r].tab /\ request'[r].key = request[r].key
    BY <1>1, AdvanceCases DEF Advances
  <2>2. ViolatesUnique(r) BY <2>1 DEF Lost
  <2>3. ShareOf(r)' = ShareOf(r) BY <2>1 DEF ShareOf
  <2> QED BY <2>1, <2>2, <2>3, MatchingRowsStay DEF ViolatesUnique
<1>2. ASSUME NEW r \in Requests, request'[r].pc = "error"
      PROVE  /\ ShareOf(r)' # NoShare
             /\ \E y \in ByKey(r)' : y.canonical.share # ShareOf(r)'
  <2>1. /\ request[r].pc = "error" \/ (request[r].pc = "winner" /\ Winners(r) = {})
        /\ request'[r].tab = request[r].tab /\ request'[r].key = request[r].key
    BY <1>2, AdvanceCases DEF Advances
  <2>2. ShareOf(r)' = ShareOf(r) BY <2>1 DEF ShareOf
  <2>3. ShareOf(r) # NoShare /\ \E x \in ByKey(r) : x.canonical.share # ShareOf(r)
    <3>1. CASE request[r].pc = "error" BY <3>1 DEF LosersSeeWinners
    <3>2. CASE request[r].pc = "winner" /\ Winners(r) = {}
      <4>1. ViolatesUnique(r) BY <3>2 DEF Lost
      <4>2. ShareOf(r) # NoShare /\ ByShare(r) = {} /\ ByKey(r) # {}
        BY <3>2, <4>1 DEF ViolatesUnique, Winners
      <4> QED BY <4>2 DEF ByShare, ByKey
    <3> QED BY <2>1, <3>1, <3>2
  <2> QED BY <2>1, <2>2, <2>3, MatchingRowsStay
<1> QED BY <1>1, <1>2 DEF Lost, LosersSeeWinners

-----------------------------------------------------------------------------
(* The state of a share's transfer *)

ShareNames == {Purpose[t] : t \in Tabs} \ {NoShare}

\* Payment is the status of the row of each share.
PaymentFits ==
    \A s \in ShareNames :
        /\ \A x \in transfers : x.canonical.share = s => Payment[s] = x.status
        /\ (\A x \in transfers : x.canonical.share # s) => Payment[s] = "none"

LEMMA PaymentValue == RowsUnique => PaymentFits
<1> SUFFICES ASSUME RowsUnique, NEW s \in ShareNames
             PROVE  /\ \A x \in transfers : x.canonical.share = s => Payment[s] = x.status
                    /\ (\A x \in transfers : x.canonical.share # s) => Payment[s] = "none"
  BY DEF PaymentFits
<1>1. Payment[s] = IF \E row \in transfers : row.canonical.share = s
                   THEN (CHOOSE row \in transfers : row.canonical.share = s).status
                   ELSE "none"
  BY DEF Payment, ShareNames
<1>2. ASSUME NEW x \in transfers, x.canonical.share = s PROVE Payment[s] = x.status
  <2> DEFINE c == CHOOSE row \in transfers : row.canonical.share = s
  <2>1. c \in transfers /\ c.canonical.share = s BY <1>2
  <2>2. c = x BY <1>2, <2>1 DEF RowsUnique, ShareNames
  <2> QED BY <1>1, <1>2, <2>2
<1> QED BY <1>1, <1>2

LEMMA PaymentValueNext == RowsUnique' => PaymentFits'
BY PaymentValue, PTL

\* Every step begins or ends at most one payment.
LEMMA PaymentStep ==
    ASSUME IInv, RowsUnique', [Next]_vars
    PROVE  [SharePayments!Next]_Payment
<1> USE DEF IInv
<1>0. /\ Payment = [s \in ShareNames |-> Payment[s]]
      /\ Payment' = [s \in ShareNames |-> Payment'[s]]
  BY DEF Payment, ShareNames
<1>00. PaymentFits /\ PaymentFits' BY PaymentValue, PaymentValueNext
<1>1. CASE UNCHANGED transfers BY <1>1 DEF Payment
<1>2. ASSUME NEW r \in Requests, Inserts(r) PROVE [SharePayments!Next]_Payment
  <2>1. /\ transfers' = transfers \cup {NewRow(r)} /\ NewRow(r).status = "open"
        /\ NewRow(r).canonical.share = ShareOf(r)
    BY <1>2 DEF Inserts, NewRow, canonicalRequest
  <2>2. ASSUME NEW s \in ShareNames, s # ShareOf(r) PROVE Payment'[s] = Payment[s]
    BY <2>1, <2>2, <1>00 DEF PaymentFits
  <2>3. CASE ShareOf(r) = NoShare
    <3>1. Payment' = Payment BY <1>0, <2>2, <2>3 DEF ShareNames
    <3> QED BY <3>1
  <2>4. CASE ShareOf(r) # NoShare
    <3>1. request[r].tab \in Tabs BY <1>2, BusyRequest DEF Inserts, Busy
    <3>2. ShareOf(r) \in ShareNames BY <2>4, <3>1 DEF ShareNames, ShareOf
    <3>3. \A x \in transfers : x.canonical.share # ShareOf(r)
      BY <1>2, <2>4 DEF Inserts, ViolatesUnique, ByShare
    <3>4. Payment[ShareOf(r)] = "none" BY <3>2, <3>3, <1>00 DEF PaymentFits
    <3>5. Payment'[ShareOf(r)] = "open" BY <2>1, <3>2, <1>00 DEF PaymentFits
    <3>6. Payment' = [Payment EXCEPT ![ShareOf(r)] = "open"]
      BY <1>0, <2>2, <3>2, <3>5
    <3>7. SharePayments!Begin(ShareOf(r)) BY <3>4, <3>6 DEF SharePayments!Begin
    <3> QED BY <3>2, <3>7 DEF SharePayments!Next, ShareNames
  <2> QED BY <2>3, <2>4
<1>3. ASSUME NEW z \in transfers, Ends(z) PROVE [SharePayments!Next]_Payment
  <2>1. PICK outcome \in Final :
            transfers' = (transfers \ {z}) \cup {[z EXCEPT !.status = outcome]}
    BY <1>3 DEF Ends
  <2> DEFINE e == [z EXCEPT !.status = outcome]
          share == z.canonical.share
  <2>2. e.canonical = z.canonical /\ e.status = outcome /\ z.status = "open"
    BY <1>3 DEF Types, Row, Ends
  <2>3. transfers' = (transfers \ {z}) \cup {e} BY <2>1
  <2> HIDE DEF e
  <2>4. ASSUME NEW s \in ShareNames, s # share PROVE Payment'[s] = Payment[s]
    BY <2>2, <2>3, <2>4, <1>00 DEF PaymentFits
  <2>5. CASE share = NoShare
    <3>1. Payment' = Payment BY <1>0, <2>4, <2>5 DEF ShareNames
    <3> QED BY <3>1
  <2>6. CASE share # NoShare
    <3>1. share \in ShareNames BY <2>6 DEF ShareNames, Types, Row, Canonical
    <3>2. Payment[share] = "open" BY <2>2, <3>1, <1>00 DEF PaymentFits
    <3>3. Payment'[share] = outcome BY <2>2, <2>3, <3>1, <1>00 DEF PaymentFits
    <3>4. Payment' = [Payment EXCEPT ![share] = outcome]
      BY <1>0, <2>4, <3>1, <3>3
    <3>5. SharePayments!Finish(share)
      BY <3>2, <3>4 DEF SharePayments!Finish, SharePayments!Outcomes, Final
    <3> QED BY <3>1, <3>5 DEF SharePayments!Next, ShareNames
  <2> QED BY <2>5, <2>6
<1> QED BY <1>1, <1>2, <1>3, RowCases

-----------------------------------------------------------------------------
(* Theorems *)

LEMMA InitIInv == Init => IInv /\ Lost /\ LosersSeeWinners
<1> SUFFICES ASSUME Init PROVE IInv /\ Lost /\ LosersSeeWinners
  OBVIOUS
<1> USE CreationAssumption
<1>1. Types BY DEF Init, Types, Form, Views, FreshTab, NoView
<1>2. \A r \in Requests : request[r].pc = "idle" BY DEF Init, IdleRequest
<1>3. \A t \in Tabs : tab[t].shown = NoView /\ tab[t].key = NoKey BY DEF Init, FreshTab
<1>4. RowsFit /\ RowsUnique BY FS_EmptySet DEF Init, RowsFit, RowsUnique
<1>5. \A t, n, k : ~Sent(t, n, k) BY <1>2 DEF Init, Sent
<1>6. OneKey BY <1>3, <1>5 DEF OneKey
<1>7. InsertsFit /\ AnswersFit /\ Lost /\ LosersSeeWinners
  BY <1>2 DEF InsertsFit, AnswersFit, Lost, LosersSeeWinners
<1>8. ViewsReflect BY <1>3 DEF ViewsReflect, Init
<1> QED BY <1>1, <1>4, <1>6, <1>7, <1>8 DEF IInv

\* The invariant is inductive.
THEOREM InvariantHolds == Spec => []IInv
<1>1. IInv /\ [Next]_vars => IInv'
  BY TypesStep, RowsFitStep, RowsUniqueStep, OneKeyStep, AnswersStep, ViewsStep DEF IInv
<1> QED BY <1>1, InitIInv, PTL DEF Spec

\* Every variable keeps its type, for any number of tabs and requests.
THEOREM TypeCorrect == Spec => []TypeOK
<1>1. IInv => TypeOK
  BY DEF IInv, Types, TypeOK, Row, Canonical, Statuses, Form, Views, Busy, Final
<1> QED BY <1>1, InvariantHolds, PTL

\* Whatever is retried, timed out or submitted twice, one submission of a form
\* and one share lead to at most one row of the table transfers.
THEOREM NothingPaidTwice == Spec => []PaidOnce
<1>1. IInv => PaidOnce
  <2> SUFFICES ASSUME IInv, NEW x \in transfers, NEW y \in transfers,
                      \/ x.origin = y.origin
                      \/ x.canonical.share # NoShare /\ x.canonical.share = y.canonical.share
               PROVE  x = y
    BY DEF PaidOnce
  <2> USE DEF IInv
  <2>1. CASE x.canonical.share # NoShare /\ x.canonical.share = y.canonical.share
    BY <2>1 DEF RowsUnique
  <2>2. CASE x.origin = y.origin
    <3>1. /\ x.origin[1] \in Tabs /\ x.origin[2] \in Nat
          /\ x.origin = <<x.origin[1], x.origin[2]>> /\ x.key \in Nat /\ y.key \in Nat
      BY DEF Types, Row
    <3>2. Sent(x.origin[1], x.origin[2], x.key) /\ Sent(x.origin[1], x.origin[2], y.key)
      BY <2>2, <3>1 DEF Sent
    <3>3. x.key = y.key BY <3>1, <3>2 DEF OneKey
    <3>4. x.canonical.sender = y.canonical.sender BY <2>2 DEF RowsFit
    <3> QED BY <3>3, <3>4 DEF RowsUnique
  <2> QED BY <2>1, <2>2
<1> QED BY <1>1, InvariantHolds, PTL

\* Every request is answered with a transfer of exactly what it asked for.
THEOREM AnswersAlwaysFit == Spec => []AnswersFit
<1>1. IInv => AnswersFit BY DEF IInv
<1> QED BY <1>1, InvariantHolds, PTL

\* What a form shows is a transfer of its user, and a final outcome is true, in
\* whatever order responses arrive.
THEOREM ShownIsAlwaysTrue == Spec => []ShownIsTrue
<1>1. IInv => ShownIsTrue BY DEF IInv, ViewsReflect, Reflects, ShownIsTrue
<1> QED BY <1>1, InvariantHolds, PTL

\* The recipient of every transfer gets the exact conversion, rounded to the
\* nearest minor unit, for any amount.
THEOREM QuotesAreFair == Spec => []QuoteIsFair
<1>1. IInv => QuoteIsFair
  <2> SUFFICES ASSUME IInv, NEW x \in transfers
               PROVE  LET p == x.canonical.payload
                          exact == p.amount * MICRO_USD_VALUE[p.currency]
                          unit == MICRO_USD_VALUE[p.target]
                      IN  /\ x.destination > 0
                          /\ 2 * exact - unit < 2 * x.destination * unit
                          /\ 2 * x.destination * unit <= 2 * exact + unit
    BY DEF QuoteIsFair
  <2>1. x.canonical.payload \in Payload BY DEF IInv, Types, Row, Canonical
  <2>2. x.destination = quoteTransfer(x.canonical.payload) /\ x.destination > 0
    BY DEF IInv, RowsFit
  <2> QED BY <2>1, <2>2, QuoteRounds
<1> QED BY <1>1, InvariantHolds, PTL

\* The loser of a race between two INSERTs finds the winner, whatever keys the
\* clients send; the exception is a share payment whose sender has used the key for
\* something else.
THEOREM LosersAlwaysSeeWinners == Spec => []LosersSeeWinners
<1> DEFINE Inv == IInv /\ Lost /\ LosersSeeWinners
<1>1. Init => Inv BY InitIInv
<1>2. Inv /\ [Next]_vars => Inv'
  BY TypesStep, RowsFitStep, RowsUniqueStep, OneKeyStep, AnswersStep, ViewsStep,
     LosersStep DEF IInv
<1>3. Inv => LosersSeeWinners OBVIOUS
<1> QED BY <1>1, <1>2, <1>3, PTL DEF Spec

\* Each share gets at most one transfer, with one outcome: SharePayment, on which
\* SplitBills rests.
THEOREM Refinement == Spec => ImplementsSharePayment
<1>1. Init => SharePayments!Init
  BY DEF Init, SharePayments!Init, Payment
<1>2. IInv /\ IInv' /\ [Next]_vars => [SharePayments!Next]_Payment
  BY PaymentStep DEF IInv
<1> QED BY <1>1, <1>2, InvariantHolds, PTL DEF Spec, ImplementsSharePayment, SharePayments!Spec
=============================================================================
