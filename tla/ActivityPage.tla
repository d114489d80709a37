---------------------------- MODULE ActivityPage ----------------------------
(***************************************************************************)
(* The activity page of one user: rows of activity_feed as consumers       *)
(* commit them, the query listForUser with its cursors, the socket that    *)
(* tells the browser to load the first page again, and the component       *)
(* ActivityFeed, which replaces or extends what it shows with whatever     *)
(* response arrives.                                                       *)
(*                                                                         *)
(* How events come to the consumers, and that each has one row, is the     *)
(* subject of EventDelivery.  The filter by event type stays empty.        *)
(***************************************************************************)
EXTENDS Integers, Sequences, FiniteSets, SequencesExt

CONSTANTS
    Items,          \* row ids, random in the code
    Limit,          \* rows of a page
    TicksPerMilli,  \* ticks of created_at in a millisecond of a cursor
    MaxTime,        \* bound on created_at
    Loads,          \* slots for requests of the browser
    Nothing,
    MaxDisturbances \* bound on failures and on refreshes by hand

ASSUME ActivityAssumption ==
    /\ Items \subseteq Nat /\ Nothing \notin Nat
    /\ Nothing \notin [milli: Nat, id: Nat]    \* the cursors
    /\ Limit \in Nat \ {0} /\ TicksPerMilli \in Nat \ {0}
    /\ MaxTime \in Nat /\ MaxDisturbances \in Nat

VARIABLES
    created,    \* item |-> now() of its transaction, Nothing before
    feed,       \* the rows committed
    pushed,     \* the items whose push is over
    socket,     \* whether it is in the user's room, whether it was before, and
                \* whether an earlier socket of the page was
    load,       \* the state of each request
    page,       \* what the browser shows
    fate,       \* history: item |-> what has become of it, see Fates
    disturbances

vars == <<created, feed, pushed, socket, load, page, fate, disturbances>>

\* An item is open until it has been shown; or it is missed, because nobody told a
\* page that was not connected yet, or its push or its load failed; or forgotten,
\* because a page that had been connected was not when it was pushed, and the next
\* socket will not load it.
Fates == {"open", "shown", "missed", "forgotten"}

-----------------------------------------------------------------------------
(* listForUser *)

\* ORDER BY created_at DESC, id DESC
Newer(x, y) == created[x] > created[y] \/ (created[x] = created[y] /\ x > y)

\* Mutant: the cursor rounds up, so that the next page repeats items.
CursorOf(x) == [milli |-> created[x] \div TicksPerMilli + 1, id |-> x]

\* A cursor has the time in milliseconds.
encodeCursor(x) == [milli |-> created[x] \div TicksPerMilli, id |-> x]

\* (created_at, id) < (cursor.createdAt, cursor.id)
Beyond(x, cursor) ==
    LET time == cursor.milli * TicksPerMilli
    IN  created[x] < time \/ (created[x] = time /\ x < cursor.id)

\* The rows that the query selects.
Rows(cursor) == {x \in feed : cursor = Nothing \/ Beyond(x, cursor)}

\* The rows in the order of Newer, each at its position.
Position(x, rows) == 1 + Cardinality({y \in rows : Newer(y, x)})
Sorted(rows) == [i \in 1..Cardinality(rows) |-> CHOOSE x \in rows : Position(x, rows) = i]

listForUser(cursor) ==
    LET rows == Sorted(Rows(cursor))
        hasMore == Len(rows) > Limit
        items == IF hasMore THEN SubSeq(rows, 1, Limit) ELSE rows
    IN  [items |-> items, next |-> IF hasMore THEN encodeCursor(Last(items)) ELSE Nothing]

-----------------------------------------------------------------------------
(* Rows *)

NewSocket(before) == [joined |-> FALSE, once |-> FALSE, before |-> before]
IdleLoad == [pc |-> "idle"]
EmptyPage == [items |-> <<>>, next |-> Nothing, base |-> {}, walk |-> TRUE, ends |-> {}]

Init ==
    /\ created = [x \in Items |-> Nothing]
    /\ feed = {} /\ pushed = {}
    /\ socket = NewSocket(FALSE)
    /\ load = [l \in Loads |-> IdleLoad]
    /\ page = EmptyPage
    /\ fate = [x \in Items |-> "open"]
    /\ disturbances = 0

\* A consumer commits the row, with the now() at which its transaction began:
\* others may have begun later and committed before.
Record(x) ==
    /\ x \notin feed
    /\ feed' = feed \cup {x}
    /\ \E t \in 0..MaxTime : created' = [created EXCEPT ![x] = t]
    /\ UNCHANGED <<pushed, socket, load, page, fate, disturbances>>

-----------------------------------------------------------------------------
(* The browser *)

\* The open items among xs are lost.
Lose(xs, how) == [x \in Items |-> IF x \in xs /\ fate[x] = "open" THEN how ELSE fate[x]]

\* load(cursor, append): fetch in a free slot.
Fetch(cursor, append) ==
    \E l \in Loads :
        /\ load[l].pc = "idle"
        /\ load' = [load EXCEPT ![l] = [pc |-> "asked", cursor |-> cursor, append |-> append]]

\* emitToUser: a socket in the user's room hears of it, and the page refreshes.
\* A socket that has been there will refresh when it comes back; another one will
\* not.
emitToUser(x) ==
    /\ x \in feed \ pushed
    /\ pushed' = pushed \cup {x}
    /\ IF socket.joined THEN Fetch(Nothing, FALSE) ELSE UNCHANGED load
    /\ fate' = IF socket.joined \/ socket.once THEN fate
               ELSE Lose({x}, IF socket.before THEN "forgotten" ELSE "missed")
    /\ UNCHANGED <<created, feed, socket, page, disturbances>>

\* The consumer dies between the commit and the push.
PushLost(x) ==
    /\ x \in feed \ pushed
    /\ disturbances < MaxDisturbances
    /\ disturbances' = disturbances + 1
    /\ pushed' = pushed \cup {x}
    /\ fate' = Lose({x}, "missed")
    /\ UNCHANGED <<created, feed, socket, load, page>>

\* Mutant: nothing is loaded after a reconnection.
ConnectOnly ==
    /\ ~socket.joined
    /\ socket' = [socket EXCEPT !.joined = TRUE, !.once = TRUE]
    /\ UNCHANGED <<created, feed, pushed, load, page, fate, disturbances>>

\* The socket connects.  It refreshes the page unless this is its first time.
Connect ==
    /\ ~socket.joined
    /\ socket' = [socket EXCEPT !.joined = TRUE, !.once = TRUE]
    /\ IF socket.once THEN Fetch(Nothing, FALSE) ELSE UNCHANGED load
    /\ UNCHANGED <<created, feed, pushed, page, fate, disturbances>>

Disconnect ==
    /\ socket.joined
    /\ disturbances < MaxDisturbances
    /\ disturbances' = disturbances + 1
    /\ socket' = [socket EXCEPT !.joined = FALSE]
    /\ UNCHANGED <<created, feed, pushed, load, page, fate>>

\* The form is submitted, or the browser is online again.
Refresh ==
    /\ disturbances < MaxDisturbances
    /\ disturbances' = disturbances + 1
    /\ Fetch(Nothing, FALSE)
    /\ UNCHANGED <<created, feed, pushed, socket, page, fate>>

\* The button stays enabled while a load is running.
LoadMore ==
    /\ page.next # Nothing
    /\ Fetch(page.next, TRUE)
    /\ UNCHANGED <<created, feed, pushed, socket, page, fate, disturbances>>

\* The query of a load runs.
Answer(l) ==
    /\ load[l].pc = "asked"
    /\ load' = [load EXCEPT ![l] =
          [pc |-> "answered", cursor |-> load[l].cursor, append |-> load[l].append,
           result |-> listForUser(load[l].cursor), base |-> feed]]
    /\ UNCHANGED <<created, feed, pushed, socket, page, fate, disturbances>>

\* The component is rendered again with a new callback, so that LiveRefresh
\* takes a new socket, which has never been connected.
Rerender == socket' = NewSocket(socket.before \/ socket.once)

\* The items that the socket would load when it comes back: a render forgets them.
Owed == IF socket.once /\ ~socket.joined THEN pushed ELSE {}

\* setPage; base, walk and ends are history: the rows that the first page was
\* chosen from, whether each page was loaded after and with the cursor of the
\* one before, and the last items of the pages that had a successor.
Arrive(l) ==
    LET result == load[l].result
        end == IF result.next = Nothing THEN {} ELSE {Last(result.items)}
    IN  /\ load[l].pc = "answered"
        /\ load' = [load EXCEPT ![l] = IdleLoad]
        /\ page' = IF load[l].append
                   THEN [items |-> page.items \o result.items, next |-> result.next,
                         base |-> page.base, ends |-> page.ends \cup end,
                         walk |-> /\ page.walk /\ load[l].cursor = page.next
                                  /\ page.base \subseteq load[l].base]
                   ELSE [items |-> result.items, next |-> result.next,
                         base |-> load[l].base, ends |-> end, walk |-> TRUE]
        /\ fate' = [x \in Items |-> IF x \in Range(result.items) THEN "shown"
                                    ELSE Lose(Owed, "forgotten")[x]]
        /\ Rerender
        /\ UNCHANGED <<created, feed, pushed, disturbances>>

\* Load l will bring item x, if x is on the first page.
Brings(l, x) ==
    \/ load[l].pc = "asked" /\ ~load[l].append
    \/ load[l].pc = "answered" /\ x \in Range(load[l].result.items)

\* An error is shown instead.
LoadFails(l) ==
    /\ load[l].pc # "idle"
    /\ disturbances < MaxDisturbances
    /\ disturbances' = disturbances + 1
    /\ load' = [load EXCEPT ![l] = IdleLoad]
    /\ fate' = [x \in Items |-> IF x \in pushed /\ Brings(l, x) THEN Lose({x}, "missed")[x]
                                ELSE Lose(Owed, "forgotten")[x]]
    /\ Rerender
    /\ UNCHANGED <<created, feed, pushed, page>>

-----------------------------------------------------------------------------

Next ==
    \/ \E x \in Items : Record(x) \/ emitToUser(x) \/ PushLost(x)
    \/ Connect \/ Disconnect \/ Refresh \/ LoadMore
    \/ \E l \in Loads : Answer(l) \/ Arrive(l) \/ LoadFails(l)

Spec == Init /\ [][Next]_vars

-----------------------------------------------------------------------------
(* Properties *)

\* An item of the first page goes unseen only as long as a request that will
\* bring it is under way, or owed by a socket that was connected before.  Otherwise
\* it has been shown, and an older response came later; or it is missed: pushed
\* before the page was connected for the first time, or its push or its load
\* failed; or it is forgotten: pushed while the connection was down, and a render
\* has replaced the socket.
UnseenIsExplained ==
    \A x \in pushed : x \in Range(listForUser(Nothing).items) =>
        \/ fate[x] # "open"
        \/ socket.once /\ ~socket.joined
        \/ \E l \in Loads : Brings(l, x)

\* README, WebSocket and activity feed: "After reconnect the frontend reloads wallet,
\* transfer and activity state from the BFF": once the page is connected again,
\* nothing pushed meanwhile stays unseen, unless an error has been shown.
ReconnectReloads ==
    socket.joined =>
        \A x \in pushed : x \in Range(listForUser(Nothing).items) =>
            fate[x] \in {"shown", "missed"} \/ \E l \in Loads : Brings(l, x)

\* Pages loaded one after the other, each with the cursor of the one before,
\* show every row that was there at the beginning, down to the last one shown,
\* once; except rows of the millisecond in which a page ends.
WalkIsComplete ==
    page.walk =>
        /\ IsInjective(page.items)
        /\ \A x \in page.base :
              \/ x \in Range(page.items)
              \/ page.next # Nothing /\ Newer(Last(page.items), x)
              \/ \E y \in page.ends : encodeCursor(x).milli = encodeCursor(y).milli

\* README, WebSocket and activity feed: "The activity API supports limit, cursor
\* pagination": the pages of a walk leave out no row that was there at the beginning.
WalkSkipsNothing ==
    page.walk =>
        \A x \in page.base :
            \/ x \in Range(page.items)
            \/ page.next # Nothing /\ Newer(Last(page.items), x)
=============================================================================
