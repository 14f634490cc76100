----------------------------- MODULE ChannelFeed -----------------------------
(***************************************************************************)
(* The list of messages a client keeps of one channel.  The client fetches *)
(* the newest page over HTTP, subscribes afterwards, and from then on      *)
(* patches the list with what its socket brings (ui/channel_list.rs,       *)
(* ui/main_view.rs, network/websocket.rs, state/app_state.rs); scrolling   *)
(* to the top of the list fetches an older page (ui/chat.rs).  Meanwhile   *)
(* any client posts, edits, pins, deletes and reacts: a statement first, a *)
(* broadcast afterwards (api/messages.rs, services/message.rs).            *)
(*                                                                         *)
(* Messages are numbered in the order of created_at.  Threads and their    *)
(* replies are in Threads and ThreadPanel; of the reactions one emoji of   *)
(* one user is kept, for every other pair is handled alike.                *)
(***************************************************************************)
EXTENDS Naturals, Sequences, FiniteSets

CONSTANTS
    MaxMsgs,   \* bound: messages of the channel
    First,     \* how many of them are there when the client starts
    PageSize,  \* the limit of a page (50 in the code)
    Requests,  \* bound: requests to change something, each made once
    Failing,   \* bound: requests that may end between statement and broadcast
    Loads,     \* bound: clicks on the channel, each made once
    Olders     \* bound: older pages the client asks for, each asked once

Msgs    == 1..MaxMsgs
Kinds   == {"create", "edit", "pin", "unpin", "delete", "deleteOwn", "react", "unreact"}
Entries == [id : Msgs, text : Nat, pinned : BOOLEAN]

VARIABLES
    \* messages and message_reactions
    rows,        \* messages that are stored
    text,        \* how often each was edited
    pinned,      \* those that are pinned
    react,       \* those with the reaction
    last,        \* the number of the newest message so far
    \* the requests
    pc, kind, msg, data,
    \* the client
    list,        \* messages[channel], newest first
    reactions,   \* message_reactions
    subscribed,  \* the server has served SubscribeChannel
    inbox,       \* events on their way to the client
    load, page,  \* the loading tasks and the page each was given
    loading, reached_end, last_count,  \* history state of the chat view
    older, from, olderPage,            \* the tasks that fetch an older page
    \* history, for the properties
    raced,       \* messages that changed while a load or another request ran, or
                 \* whose change was never announced
    again,       \* messages an older page brought though they were shown
    bare         \* messages an older page brought, without their reactions

db      == <<rows, text, pinned, react, last>>
request == <<pc, kind, msg, data>>
loads   == <<load, page>>
scroll  == <<older, from, olderPage>>
view    == <<loading, reached_end, last_count, scroll>>
past    == <<raced, again, bare>>
vars    == <<db, request, list, reactions, subscribed, inbox, loads, view, past>>

NoRow  == [id |-> 0, text |-> 0, pinned |-> FALSE]
NoPage == [rows |-> <<>>, reacted |-> {}]
Row(m) == [id |-> m, text |-> text[m], pinned |-> m \in pinned]

TypeOK ==
    /\ rows \subseteq Msgs /\ pinned \subseteq Msgs /\ react \subseteq Msgs
    /\ text \in [Msgs -> Nat] /\ last \in 0..MaxMsgs
    /\ pc \in [Requests -> {"new", "tell", "local", "done"}]
    /\ kind \in [Requests -> Kinds \cup {"none"}]
    /\ msg \in [Requests -> 0..MaxMsgs]
    /\ data \in [Requests -> Entries \cup {NoRow}]
    /\ list \in Seq(Entries) /\ reactions \subseteq Msgs
    /\ subscribed \in BOOLEAN
    /\ load \in [Loads -> {"new", "insert", "subscribe", "done"}]
    /\ \A l \in Loads : page[l].rows \in Seq(Entries) /\ page[l].reacted \subseteq Msgs
    /\ loading \in BOOLEAN /\ reached_end \in BOOLEAN /\ last_count \in Nat
    /\ older \in [Olders -> {"new", "get", "extend", "done"}]
    /\ from \in [Olders -> 0..MaxMsgs]
    /\ \A o \in Olders : olderPage[o] \in Seq(Entries)
    /\ raced \subseteq Msgs /\ again \subseteq bare /\ bare \subseteq Msgs

Init ==
    /\ rows = 1..First /\ last = First
    /\ text = [m \in Msgs |-> 0] /\ pinned = {} /\ react = {}
    /\ pc = [r \in Requests |-> "new"] /\ kind = [r \in Requests |-> "none"]
    /\ msg = [r \in Requests |-> 0] /\ data = [r \in Requests |-> NoRow]
    /\ list = <<>> /\ reactions = {} /\ subscribed = FALSE /\ inbox = <<>>
    /\ load = [l \in Loads |-> "new"] /\ page = [l \in Loads |-> NoPage]
    /\ loading = FALSE /\ reached_end = FALSE /\ last_count = 0
    /\ older = [o \in Olders |-> "new"] /\ from = [o \in Olders |-> 0]
    /\ olderPage = [o \in Olders |-> <<>>]
    /\ raced = {} /\ again = {} /\ bare = {}

-----------------------------------------------------------------------------
(* Reading pages.                                                          *)

Min2(a, b) == IF a < b THEN a ELSE b

\* The i-th smallest of a set of numbers.
Nth(S, i) == CHOOSE m \in S : Cardinality({k \in S : k <= m}) = i

\* list_by_channel: newest first, at most a page, created before `before`.
Page(before) ==
    LET ids == {m \in rows : m < before}
        n   == Cardinality(ids)
    IN [i \in 1..Min2(PageSize, n) |-> Row(Nth(ids, n + 1 - i))]

\* Somebody is between a snapshot of the channel and the events after it.
LoadOpen ==
    \/ \E l \in Loads : load[l] \in {"insert", "subscribe"}
    \/ \E o \in Olders : older[o] = "extend"

Underway == {m \in Msgs : \E r \in Requests : msg[r] = m /\ pc[r] \in {"tell", "local"}}
OnTheWay == {inbox[i].id : i \in DOMAIN inbox}

-----------------------------------------------------------------------------
(* Requests: the statement, then the broadcast.                            *)

\* What the statement of a request on m does to the tables.  A message that
\* is gone is NotFound.
Statement(k, m) ==
    \/ k = "create" /\ m = last + 1 /\ last' = m /\ rows' = rows \cup {m}
       /\ UNCHANGED <<text, pinned, react>>
    \/ k = "edit" /\ m \in rows /\ text' = [text EXCEPT ![m] = @ + 1]
       /\ UNCHANGED <<rows, pinned, react, last>>
    \/ k = "pin" /\ m \in rows /\ pinned' = pinned \cup {m}
       /\ UNCHANGED <<rows, text, react, last>>
    \/ k = "unpin" /\ m \in rows /\ pinned' = pinned \ {m}
       /\ UNCHANGED <<rows, text, react, last>>
    \/ k \in {"delete", "deleteOwn"} /\ m \in rows
       /\ rows' = rows \ {m} /\ react' = react \ {m}
       /\ UNCHANGED <<text, pinned, last>>
    \/ k = "react" /\ m \in rows /\ react' = react \cup {m}
       /\ UNCHANGED <<rows, text, pinned, last>>
    \/ k = "unreact" /\ m \in rows /\ react' = react \ {m}
       /\ UNCHANGED <<rows, text, pinned, last>>

Change(r, k, m) ==
    /\ pc[r] = "new"
    /\ Statement(k, m)
    /\ pc' = [pc EXCEPT ![r] = "tell"]
    /\ kind' = [kind EXCEPT ![r] = k]
    /\ msg' = [msg EXCEPT ![r] = m]
    /\ data' = [data EXCEPT ![r] =
                   [id |-> m, text |-> text'[m], pinned |-> m \in pinned']]
    /\ raced' = IF LoadOpen \/ m \in Underway THEN raced \cup {m} ELSE raced
    /\ UNCHANGED <<list, reactions, subscribed, inbox, loads, view, again, bare>>

\* A reaction is announced only if its message can still be read.
Announced(r) == kind[r] \in {"react", "unreact"} => msg[r] \in rows

(* The broadcast.  A reader who is not subscribed yet never learns of it.  *)
Tell(r) ==
    /\ pc[r] = "tell"
    /\ inbox' = IF subscribed /\ Announced(r)
                    THEN Append(inbox, [kind |-> kind[r], id |-> msg[r], row |-> data[r]])
                    ELSE inbox
    /\ pc' = [pc EXCEPT ![r] = IF kind[r] = "deleteOwn" THEN "local" ELSE "done"]
    /\ data' = [data EXCEPT ![r] = NoRow]
    /\ kind' = [kind EXCEPT ![r] = "none"]
    /\ UNCHANGED <<db, msg, list, reactions, subscribed, loads, view, past>>

(* The statement is done, and the request ends without its broadcast: the  *)
(* attachments of a message cannot be linked, the message of a reaction    *)
(* cannot be read, or the caller has gone.                                 *)
Untold(r) ==
    /\ r \in Failing /\ pc[r] = "tell"
    /\ pc' = [pc EXCEPT ![r] = "done"]
    /\ data' = [data EXCEPT ![r] = NoRow]
    /\ kind' = [kind EXCEPT ![r] = "none"]
    /\ raced' = raced \cup {msg[r]}
    /\ UNCHANGED <<db, msg, list, reactions, subscribed, inbox, loads, view, again, bare>>

Without(s, m) ==
    LET kept == {i \in DOMAIN s : s[i].id # m} IN
    [i \in 1..Cardinality(kept) |-> s[Nth(kept, i)]]

\* The client that deleted the message takes it out of its own list as well.
DeleteLocally(r) ==
    /\ pc[r] = "local"
    /\ list' = Without(list, msg[r])
    /\ pc' = [pc EXCEPT ![r] = "done"]
    /\ UNCHANGED <<db, kind, msg, data, reactions, subscribed, inbox, loads, view, past>>

-----------------------------------------------------------------------------
(* The socket.                                                             *)

Where(m) == {i \in DOMAIN list : list[i].id = m}
FirstOf(m) == CHOOSE i \in Where(m) : \A j \in Where(m) : i <= j

\* MessageUpdated replaces the first entry, if there is one; pins set a field of it.
Patch(m, e) ==
    IF Where(m) = {} THEN list ELSE [list EXCEPT ![FirstOf(m)] = e]

SetPin(m, p) ==
    IF Where(m) = {} THEN list ELSE [list EXCEPT ![FirstOf(m)].pinned = p]

ReadEvent ==
    /\ inbox # <<>>
    /\ LET e == Head(inbox) IN
       /\ list' = CASE e.kind = "create" -> <<e.row>> \o list
                    [] e.kind = "edit" -> Patch(e.id, e.row)
                    [] e.kind = "pin" -> SetPin(e.id, TRUE)
                    [] e.kind = "unpin" -> SetPin(e.id, FALSE)
                    [] e.kind \in {"delete", "deleteOwn"} -> Without(list, e.id)
                    [] e.kind \in {"react", "unreact"} -> list
       /\ reactions' = CASE e.kind = "react" -> reactions \cup {e.id}
                         [] e.kind = "unreact" -> reactions \ {e.id}
                         [] OTHER -> reactions
    /\ inbox' = Tail(inbox)
    /\ UNCHANGED <<db, request, subscribed, loads, view, past>>

-----------------------------------------------------------------------------
(* A click on the channel: fetch, store, subscribe.                        *)

\* The rows and their reactions are two statements, read at once here: what changes
\* between them would be counted as raced.
GetPage(l) ==
    /\ load[l] = "new"
    /\ page' = [page EXCEPT ![l] = [rows |-> Page(MaxMsgs + 1), reacted |-> rows \cap react]]
    /\ load' = [load EXCEPT ![l] = "insert"]
    /\ raced' = raced \cup Underway \cup OnTheWay
    /\ UNCHANGED <<db, request, list, reactions, subscribed, inbox, view, again, bare>>

Ids(s) == {s[i].id : i \in DOMAIN s}

\* Mutant of StorePage: the page is put behind what the list has.
StorePageBehind(l) ==
    /\ load[l] = "insert"
    /\ list' = list \o page[l].rows
    /\ reactions' = reactions \cup (page[l].reacted \cap Ids(page[l].rows))
    /\ page' = [page EXCEPT ![l] = NoPage]
    /\ load' = [load EXCEPT ![l] = "subscribe"]
    /\ UNCHANGED <<db, request, subscribed, inbox, view, past>>

\* The page replaces the list.  Its reactions are taken over; a message that
\* has none keeps whatever the client had.
StorePage(l) ==
    /\ load[l] = "insert"
    /\ list' = page[l].rows
    /\ reactions' = reactions \cup (page[l].reacted \cap Ids(page[l].rows))
    /\ page' = [page EXCEPT ![l] = NoPage]
    /\ load' = [load EXCEPT ![l] = "subscribe"]
    /\ UNCHANGED <<db, request, subscribed, inbox, view, past>>

\* The subscription is queued last, and served whenever the server gets to it.
ServeSubscribe(l) ==
    /\ load[l] = "subscribe"
    /\ load' = [load EXCEPT ![l] = "done"]
    /\ subscribed' = TRUE
    /\ UNCHANGED <<db, request, list, reactions, inbox, page, view, past>>

-----------------------------------------------------------------------------
(* Scrolling to the top (chat.rs, at the end of every frame).  The frame   *)
(* keeps the length of the list in last_message_count; it matters only     *)
(* while a page is being loaded, so it is 0 here otherwise.                *)

\* A frame sees that the list has grown, or that two seconds have passed.
Grown == Len(list) > last_count

Frame(timeout) ==
    /\ loading
    /\ Grown = ~timeout
    /\ loading' = FALSE
    /\ reached_end' = (reached_end \/ timeout)
    /\ last_count' = 0
    /\ UNCHANGED <<db, request, list, reactions, subscribed, inbox, loads, scroll, past>>

\* messages.first(), under the comment "Get the oldest message ID".
Oldest == list[1].id

StartOlder(o) ==
    /\ ~loading /\ ~reached_end /\ list # <<>>
    /\ older[o] = "new"
    /\ loading' = TRUE
    /\ last_count' = Len(list)
    /\ older' = [older EXCEPT ![o] = "get"]
    /\ from' = [from EXCEPT ![o] = Oldest]
    /\ UNCHANGED <<db, request, list, reactions, subscribed, inbox, loads,
                   reached_end, olderPage, past>>

\* GET messages?before=: the server answers NotFound if that message is gone.
GetOlder(o) ==
    /\ older[o] = "get"
    /\ IF from[o] \in rows
           THEN /\ olderPage' = [olderPage EXCEPT ![o] = Page(from[o])]
                /\ older' = [older EXCEPT ![o] = "extend"]
                /\ raced' = raced \cup Underway \cup OnTheWay
           ELSE /\ older' = [older EXCEPT ![o] = "done"]
                /\ UNCHANGED <<olderPage, raced>>
    /\ from' = [from EXCEPT ![o] = 0]
    /\ UNCHANGED <<db, request, list, reactions, subscribed, inbox, loads,
                   loading, reached_end, last_count, again, bare>>

ExtendOlder(o) ==
    /\ older[o] = "extend"
    /\ list' = list \o olderPage[o]
    /\ again' = again \cup (Ids(list) \cap Ids(olderPage[o]))
    /\ bare' = bare \cup Ids(olderPage[o])
    /\ olderPage' = [olderPage EXCEPT ![o] = <<>>]
    /\ older' = [older EXCEPT ![o] = "done"]
    /\ UNCHANGED <<db, request, reactions, subscribed, inbox, loads,
                   loading, reached_end, last_count, from, raced>>

-----------------------------------------------------------------------------

Next ==
    \/ \E r \in Requests :
          \/ \E k \in Kinds, m \in Msgs : Change(r, k, m)
          \/ Tell(r) \/ Untold(r)
          \/ DeleteLocally(r)
    \/ ReadEvent
    \/ \E l \in Loads :
          GetPage(l) \/ StorePage(l) \/ ServeSubscribe(l)
    \/ \E timeout \in BOOLEAN : Frame(timeout)
    \/ \E o \in Olders : StartOlder(o) \/ GetOlder(o) \/ ExtendOlder(o)

Spec == Init /\ [][Next]_vars

-----------------------------------------------------------------------------

Quiet ==
    /\ \A r \in Requests : pc[r] \in {"new", "done"}
    /\ \A l \in Loads : load[l] \in {"new", "done"}
    /\ \A o \in Olders : older[o] \in {"new", "done"}
    /\ inbox = <<>>

Shown(m) == {list[i] : i \in Where(m)}

(* When nothing is under way, a message nobody raced about is shown as it  *)
(* is stored: with its text, its pin and its reaction, not at all once it  *)
(* has been deleted, and always if it is newer than a message shown that   *)
(* nobody raced about and no older page brought.  Raced about means that   *)
(* two requests on it, or a request and a load, overlapped, or that one of *)
(* its requests ended after its statement and never came to the broadcast: *)
(* nobody is told then, whatever was stored.  Older pages bring no         *)
(* reactions with them, and leave gaps when they are late.                 *)
FeedAgrees ==
    Quiet => \A m \in Msgs \ raced :
        /\ m \notin again => Shown(m) \subseteq {Row(k) : k \in rows}
        /\ Where(m) # {} /\ m \notin bare => (m \in reactions <=> m \in react)
        /\ m \in rows /\ (\E k \in 1..(m - 1) \ (raced \cup bare) : Where(k) # {})
              => Where(m) # {}

(* A message is on the list once, unless a load raced with its creation or *)
(* an older page brought it again.                                         *)
FeedOnce ==
    \A m \in Msgs \ (raced \cup again) : \A i, j \in Where(m) : i = j

(* "Get the oldest message ID (first in the list since we store DESC)",    *)
(* ui/chat.rs: an older page continues where the list ends, so that it     *)
(* brings nothing the list has.                                            *)
OlderPagesAreOlder == again \subseteq raced
=============================================================================
