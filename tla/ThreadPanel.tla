----------------------------- MODULE ThreadPanel -----------------------------
(***************************************************************************)
(* A client's thread panel beside the server's threads: what the user who  *)
(* has a thread open is shown, and when that is what the thread holds.     *)
(*                                                                         *)
(* The server is ThreadFeed, which Threads implements; what it announces   *)
(* goes on the client's socket if the client is subscribed.  The client is *)
(* one UI thread that draws frames, the tasks that clicks and frames       *)
(* spawn, a queue of outgoing messages, and a reader of the socket.  A     *)
(* spawned task runs whenever the runtime likes, so tasks overtake each    *)
(* other; what is queued or on the socket stays in order.                  *)
(*                                                                         *)
(* The list of replies is a count per reply: the order is not told apart,  *)
(* a reply shown twice is.  Left out: the client sees the channel of the   *)
(* thread throughout; ThreadMetadataUpdated changes a number in the        *)
(* channel's list and nothing in the panel; a user in voice is drawn no    *)
(* panel, which is a user whose next frame is late.                        *)
(***************************************************************************)
EXTENDS ThreadFeed, Sequences, Bags

CONSTANTS
    Limit,      \* replies on the one page GET /messages/{id}/thread returns
    QueueSize,  \* of the mpsc channel of outgoing messages
    Doomed,     \* bound: the messages that may be deleted
    MaxActs     \* bound: clicks and frames that spawn a task

ASSUME PanelAssumption ==
    /\ IsFiniteSet(Replies) /\ Parents \cap Replies = {}
    /\ None \notin Messages
    /\ Limit \in Nat \ {0}
    /\ QueueSize \in Nat \ {0}
    /\ Doomed \subseteq Messages
    /\ MaxActs \in Nat

VARIABLES
    created_at,          \* when each reply got its row; 0 without one
    thread_subscribers,  \* the threads the server has this client subscribed to
    outgoing,            \* subscriptions on their way to the server
    socket,              \* events on their way to the client
    listed,              \* parents in the channel's list, where threads are opened
    open_thread,
    thread_messages,     \* how often each reply is in the list of its thread
    subscribed_thread,   \* the panel's own idea of what it shows
    tasks,               \* a bag: equal tasks are interchangeable
    acts,                \* clicks and frames that have spawned a task
    failed,              \* threads whose last load to end failed; history only
    raced                \* replies that met a (un)subscription; history only

clientVars == <<thread_subscribers, outgoing, socket, listed, open_thread,
                thread_messages, subscribed_thread, tasks, acts, failed>>
panelVars == <<feedVars, clientVars, created_at, raced>>

ReplyCreated(r) == [type |-> "thread_reply_created", message |-> r]
MessageDeleted(m) == [type |-> "message_deleted", message |-> m]
Subscribe(p) == [type |-> "subscribe_thread", thread |-> p]
Unsubscribe(p) == [type |-> "unsubscribe_thread", thread |-> p]

(* `at` is the await a task has come to: "run" for the tasks with only one; *)
(* a load goes from "subscribe" over "ask" and "read" to "set".            *)
Kinds == {"open", "close", "unsubscribe", "load"}
Task(kind, p) ==
    [kind |-> kind, thread |-> p,
     at |-> IF kind = "load" THEN "subscribe" ELSE "run", page |-> {}]

PanelTypeOK ==
    /\ FeedTypeOK
    /\ created_at \in [Replies -> Nat]
    /\ thread_subscribers \subseteq Parents
    /\ outgoing \in Seq({Subscribe(p) : p \in Parents} \cup {Unsubscribe(p) : p \in Parents})
    /\ Len(outgoing) <= QueueSize
    /\ socket \in Seq({ReplyCreated(r) : r \in Replies}
                     \cup {MessageDeleted(m) : m \in Messages})
    /\ listed \subseteq Parents
    /\ open_thread \in Parents \cup {None}
    /\ thread_messages \in [Parents -> [Replies -> Nat]]
    /\ subscribed_thread \in Parents \cup {None}
    /\ IsABag(tasks)
    /\ DOMAIN tasks \subseteq [kind : Kinds, thread : Parents \cup {None},
                        at : {"run", "subscribe", "ask", "read", "set"},
                        page : SUBSET Replies]
    /\ acts \in Nat
    /\ failed \subseteq Parents
    /\ raced \subseteq Replies

PanelInit ==
    /\ FeedInit
    /\ created_at = [r \in Replies |-> 0]
    /\ thread_subscribers = {}
    /\ outgoing = <<>>
    /\ socket = <<>>
    /\ listed = Parents
    /\ open_thread = None
    /\ thread_messages = [p \in Parents |-> [r \in Replies |-> 0]]
    /\ subscribed_thread = None
    /\ tasks = EmptyBag
    /\ acts = 0
    /\ failed = {}
    /\ raced = {}

Spawn(new) ==
    /\ acts < MaxActs
    /\ acts' = acts + 1
    /\ tasks' = tasks (+) SetToBag(new)

Ends(t) == tasks' = tasks (-) SetToBag({t})
Goes(t, next) == tasks' = (tasks (-) SetToBag({t})) (+) SetToBag({next})

-----------------------------------------------------------------------------
(* The server.                                                             *)

Live(p) == {r \in Replies \cap rows : parents[r] = p}

(* created_at DEFAULT NOW(): later than that of every row there ever was.  *)
ServerStores(r, p) ==
    /\ Store(r, p)
    /\ created_at' = [created_at EXCEPT ![r] =
                         1 + Cardinality({s \in Replies : created_at[s] # 0})]
    /\ UNCHANGED clientVars

(* A thread's broadcast goes to its subscribers, ...                       *)
ServerAnnounces(r) ==
    /\ Announce(r)
    /\ socket' = IF parents[r] \in thread_subscribers
                 THEN Append(socket, ReplyCreated(r)) ELSE socket
    /\ UNCHANGED <<created_at, thread_subscribers, outgoing, listed, open_thread,
                   thread_messages, subscribed_thread, tasks, acts, failed>>

(* ... that of a deletion to those of the channel.                         *)
ServerAnnouncesRemoval(m) ==
    /\ AnnounceRemoval(m)
    /\ socket' = Append(socket, MessageDeleted(m))
    /\ UNCHANGED <<created_at, thread_subscribers, outgoing, listed, open_thread,
                   thread_messages, subscribed_thread, tasks, acts, failed>>

ServerStep ==
    \/ \E r \in Replies :
          \/ \E p \in Parents : ServerStores(r, p)
          \/ ServerAnnounces(r)
          \/ GiveUp(r) /\ UNCHANGED <<clientVars, created_at>>
    \/ \E m \in Doomed :
          \/ Remove(m) /\ UNCHANGED <<clientVars, created_at>>
          \/ ServerAnnouncesRemoval(m)

(* handle_message takes the next message of the connection.                *)
ServerTakes ==
    /\ outgoing # <<>>
    /\ thread_subscribers' =
            IF Head(outgoing).type = "subscribe_thread"
            THEN thread_subscribers \cup {Head(outgoing).thread}
            ELSE thread_subscribers \ {Head(outgoing).thread}
    /\ outgoing' = Tail(outgoing)
    /\ UNCHANGED <<feedVars, created_at, socket, listed, open_thread,
                   thread_messages, subscribed_thread, tasks, acts, failed>>

(* ORDER BY created_at ASC LIMIT.                                          *)
Older(r) == {s \in Live(parents[r]) : created_at[s] < created_at[r]}
Page(p) == {r \in Live(p) : Cardinality(Older(r)) < Limit}

-----------------------------------------------------------------------------
(* The user, and the UI thread.                                            *)

(* A message in the channel's list is asked to open its thread.            *)
ClickOpen(p) ==
    /\ p \in listed
    /\ Spawn({Task("open", p)})
    /\ UNCHANGED <<feedVars, created_at, thread_subscribers, outgoing, socket,
                   listed, open_thread, thread_messages, subscribed_thread, failed>>

(* The panel is drawn for another thread than it was drawn for before.     *)
Switch ==
    IF subscribed_thread = open_thread THEN {}
    ELSE {Task("unsubscribe", p) : p \in {subscribed_thread} \ {None}}
         \cup {Task("load", open_thread)}

(* The user closes what has just been drawn: cleanup, and close_thread.    *)
Close == {Task("unsubscribe", open_thread), Task("close", None)}

(* One frame with the panel in it; the button in it may have been clicked. *)
Frame(clicked) ==
    /\ open_thread # None
    /\ clicked \/ Switch # {}
    /\ Spawn(Switch \cup IF clicked THEN Close ELSE {})
    /\ subscribed_thread' = IF clicked THEN None ELSE open_thread
    /\ UNCHANGED <<feedVars, created_at, thread_subscribers, outgoing, socket,
                   listed, open_thread, thread_messages, failed>>

-----------------------------------------------------------------------------
(* The spawned tasks.                                                      *)

(* AppState::open_thread and close_thread (its thread is None).            *)
SetOpenThread(t) ==
    /\ t.kind \in {"open", "close"}
    /\ open_thread' = t.thread
    /\ Ends(t)
    /\ UNCHANGED <<feedVars, created_at, thread_subscribers, outgoing, socket,
                   listed, thread_messages, subscribed_thread, acts, failed>>

(* The queue has room, or the task waits.  Mutant: one message too many.   *)
HasRoomForOneMore == Len(outgoing) <= QueueSize
HasRoom == Len(outgoing) < QueueSize

Enqueue(message) ==
    /\ HasRoom
    /\ outgoing' = Append(outgoing, message)

SendUnsubscribe(t) ==
    /\ t.kind = "unsubscribe"
    /\ Enqueue(Unsubscribe(t.thread))
    /\ Ends(t)
    /\ UNCHANGED <<feedVars, created_at, thread_subscribers, socket, listed,
                   open_thread, thread_messages, subscribed_thread, acts, failed>>

SendSubscribe(t) ==
    /\ t.at = "subscribe"
    /\ Enqueue(Subscribe(t.thread))
    /\ Goes(t, [t EXCEPT !.at = "ask"])
    /\ UNCHANGED <<feedVars, created_at, thread_subscribers, socket, listed,
                   open_thread, thread_messages, subscribed_thread, acts, failed>>

(* get_thread, on the server, finds the parent ...                         *)
FindParent(t) ==
    /\ t.at = "ask"
    /\ t.thread \in rows
    /\ Goes(t, [t EXCEPT !.at = "read"])
    /\ UNCHANGED <<feedVars, created_at, thread_subscribers, outgoing, socket, listed,
                   open_thread, thread_messages, subscribed_thread, acts, failed>>

(* ... and reads the replies.                                              *)
ReadReplies(t) ==
    /\ t.at = "read"
    /\ Goes(t, [t EXCEPT !.at = "set", !.page = Page(t.thread)])
    /\ UNCHANGED <<feedVars, created_at, thread_subscribers, outgoing, socket, listed,
                   open_thread, thread_messages, subscribed_thread, acts, failed>>

(* The answer has arrived: it replaces the list of its thread.  Mutant: of *)
(* the thread that is open now, if one is.                                 *)
ListOfOpenThread(t) == IF open_thread = None THEN t.thread ELSE open_thread
ListOf(t) == t.thread

SetReplies(t) ==
    /\ t.at = "set"
    /\ thread_messages' =
            [thread_messages EXCEPT ![ListOf(t)] = [r \in Replies |-> IF r \in t.page THEN 1 ELSE 0]]
    /\ Ends(t)
    /\ failed' = failed \ {t.thread}
    /\ UNCHANGED <<feedVars, created_at, thread_subscribers, outgoing, socket, listed,
                   open_thread, subscribed_thread, acts>>

(* No parent, or any other error: it is logged.                            *)
LoadFails(t) ==
    /\ t.at \in {"ask", "read", "set"}
    /\ Ends(t)
    /\ failed' = failed \cup {t.thread}
    /\ UNCHANGED <<feedVars, created_at, thread_subscribers, outgoing, socket, listed,
                   open_thread, thread_messages, subscribed_thread, acts>>

-----------------------------------------------------------------------------
(* The reader of the socket.                                               *)

(* add_thread_reply pushes; a deleted message leaves the channel's list.   *)
Read ==
    /\ socket # <<>>
    /\ LET event == Head(socket)
       IN  \/ /\ event.type = "thread_reply_created"
              /\ thread_messages' = [thread_messages EXCEPT ![parents[event.message]][event.message] = @ + 1]
              /\ UNCHANGED listed
           \/ /\ event.type = "message_deleted"
              /\ listed' = listed \ {event.message}
              /\ UNCHANGED thread_messages
    /\ socket' = Tail(socket)
    /\ UNCHANGED <<feedVars, created_at, thread_subscribers, outgoing,
                   open_thread, subscribed_thread, tasks, acts, failed>>

-----------------------------------------------------------------------------
(* What the properties say of a thread.                                    *)

Pending(p) ==
    \/ \E t \in DOMAIN tasks : t.thread = p /\ t.kind \in {"load", "unsubscribe"}
    \/ \E i \in DOMAIN outgoing : outgoing[i].thread = p

(* Settled: client and server agree that the panel shows p.  Away: they    *)
(* agree that it does not.  Anything else is on its way between the two.   *)
Settled(p) == subscribed_thread = p /\ p \in thread_subscribers /\ ~Pending(p)
Away(p) == subscribed_thread # p /\ p \notin thread_subscribers /\ ~Pending(p)

(* A reply on its way: stored, and not yet through to the subscribers.     *)
Moving(r) ==
    /\ r \in rows
    /\ news[r] = "stored" \/ \E i \in DOMAIN socket : socket[i] = ReplyCreated(r)

(* A reply that a page just read left off because older ones filled it.    *)
LeftOff(r) ==
    /\ Cardinality(Older(r)) >= Limit
    /\ \E t \in DOMAIN tasks : t.at = "set" /\ t.thread = parents[r] /\ r \notin t.page

Races ==
    {r \in Replies \cap rows :
        LET p == parents[r]
        IN  ~Settled(p) /\ ~Away(p) /\ (Moving(r) \/ LeftOff(r))}

-----------------------------------------------------------------------------
ClientStep ==
    \/ \E p \in Parents : ClickOpen(p)
    \/ \E clicked \in BOOLEAN : Frame(clicked)
    \/ \E t \in DOMAIN tasks :
          \/ SetOpenThread(t) \/ SendUnsubscribe(t) \/ SendSubscribe(t)
          \/ FindParent(t) \/ ReadReplies(t) \/ SetReplies(t) \/ LoadFails(t)
    \/ Read

PanelNext ==
    /\ ServerStep \/ ServerTakes \/ ClientStep
    /\ raced' = raced \cup Races'

PanelSpec == PanelInit /\ [][PanelNext]_panelVars

-----------------------------------------------------------------------------
(* Properties.                                                             *)

(* The promise of snapshot and stream together: while the panel is settled *)
(* on a thread whose load succeeded, every reply the server has finished   *)
(* announcing is shown exactly once, whether it came with the page or over *)
(* the socket, before the panel was opened, between visits or since; but   *)
(* for replies that were on their way while the subscription was, or that  *)
(* did not fit on the page.  A late answer for another thread, or for an   *)
(* earlier visit to this one, changes nothing.                             *)
ShownOnce ==
    \A r \in (Replies \cap rows) \ raced :
        LET p == parents[r]
        IN  Settled(p) /\ p \notin failed /\ ~Moving(r) => thread_messages[p][r] = 1

(* "Slack-style threads fully implemented with real-time updates": with    *)
(* nothing left to do anywhere and no request failed, an open panel shows  *)
(* every reply of its thread.                                              *)
AtRest ==
    /\ tasks = EmptyBag /\ outgoing = <<>> /\ socket = <<>> /\ failed = {}
    /\ \A r \in Replies : news[r] # "stored"

ShowsEveryReply ==
    LET p == subscribed_thread
    IN  AtRest /\ p # None /\ open_thread = p =>
            \A r \in Live(p) : thread_messages[p][r] > 0
=============================================================================
