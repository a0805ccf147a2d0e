-------------------------------- MODULE Inbox ---------------------------------
(***************************************************************************)
(* One user's notifications (api/notifications.py,                         *)
(* repositories/notifications.py).  Alerts arrive one by one, a page of    *)
(* the listing is newest first, cut by LIMIT and OFFSET, and marking one   *)
(* as read is idempotent.  The client walks the pages with one request     *)
(* each, and alerts arrive and are read between them.  The two counts that *)
(* come with a page are queries of their own and left out.                 *)
(***************************************************************************)
EXTENDS AuthGate, Naturals, FiniteSets

CONSTANTS Reader,       \* whose inbox it is
          MaxNotices,   \* bound: notifications 1..MaxNotices, a newer one larger
          PageSize,     \* stands for the sizes 5, 10, 20 and 30
          LastPage      \* bound: the pages a client asks for

ASSUME InboxAssumption ==
    Reader \in Users /\ MaxNotices \in Nat /\ PageSize \in Nat \ {0} /\ LastPage \in Nat

Filters == {"all", "read", "unread"}
Notices == 1..MaxNotices

VARIABLES
    arrived,   \* the notifications inserted so far are 1..arrived
    read,      \* those with a read_at
    page       \* the pages fetched

inboxVars == <<arrived, read, page>>

(* A page and, as history, what its filter selected and what was read then. *)
Page == [filter : Filters, number : 1..LastPage, items : SUBSET Notices,
         selected : SUBSET Notices, read : SUBSET Notices]

InboxTypeOK ==
    /\ arrived \in 0..MaxNotices
    /\ read \subseteq 1..arrived
    /\ page \in [Calls -> Page \cup {None}]

InboxInit ==
    /\ arrived = 0
    /\ read = {}
    /\ page = [c \in Calls |-> None]

-----------------------------------------------------------------------------
Present == 1..arrived
Unread  == Present \ read

Selected(filter) ==
    CASE filter = "all" -> Present
      [] filter = "unread" -> Unread
      [] filter = "read" -> read

(* The place of a notification in the listing, newest first. *)
Place(n, S) == Cardinality({m \in S : m >= n})

(* A bug: OFFSET is page * page_size. *)
Wrong_PageFromZero(S, p) == {n \in S : Place(n, S) \in p * PageSize + 1..(p + 1) * PageSize}

(* ORDER BY created_at DESC LIMIT page_size OFFSET (page - 1) * page_size *)
PageOf(S, p) == {n \in S : Place(n, S) \in (p - 1) * PageSize + 1..p * PageSize}

-----------------------------------------------------------------------------
(* An alert is inserted (generate_budget_alerts). *)
Arrive ==
    /\ arrived < MaxNotices
    /\ arrived' = arrived + 1
    /\ UNCHANGED <<read, page>>

(* mark_notification_read: read_at keeps its first value. *)
MarkRead(n) ==
    /\ n \in Present
    /\ read' = read \cup {n}
    /\ UNCHANGED <<arrived, page>>

FetchPage(c, filter, p) ==
    /\ page[c] = None
    /\ LET S == Selected(filter)
       IN  page' = [page EXCEPT ![c] = [filter |-> filter, number |-> p, items |-> PageOf(S, p),
                                        selected |-> S, read |-> read]]
    /\ UNCHANGED <<arrived, read>>

-----------------------------------------------------------------------------
InboxNext ==
    \/ Arrive
    \/ \E n \in Notices : MarkRead(n)
    \/ \E c \in Calls, f \in Filters, p \in 1..LastPage : FetchPage(c, f, p)

InboxSpec == InboxInit /\ [][InboxNext]_inboxVars

-----------------------------------------------------------------------------
Fetched(c) == page[c] # None

(* Walking the pages misses nothing that was there when the walk began,    *)
(* although alerts keep arriving, as long as nothing is marked as read in  *)
(* between: newest first, an arrival pushes the rest back, so that a       *)
(* notification is seen twice rather than not at all                       *)
(* (notifications.py:193).  Reading one between two pages of the unread    *)
(* filter moves the rest up, past the next page: that is the only cause.   *)
SkipNeedsReading ==
    \A c, d \in Calls :
        LET first == page[c]
            next == page[d]
        IN  (/\ Fetched(c) /\ Fetched(d)
             /\ first.filter = next.filter /\ next.number = first.number + 1
             /\ first.selected \subseteq next.selected /\ first.read = next.read)
            => \A n \in first.selected \ (first.items \cup next.items) :
                   \/ first.number > 1 /\ \E m \in first.items : n > m
                   \/ next.items # {} /\ \A m \in next.items : n < m
                   \/ first.items = {}
=============================================================================
