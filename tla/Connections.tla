---------------------------- MODULE Connections ----------------------------
(***************************************************************************)
(* The ConnectionManager (ws/connections.rs), the life of one WebSocket    *)
(* task (handle_socket and the arms of handle_client_message that touch    *)
(* the manager, ws/handler.rs) and the broadcasts of the HTTP handlers.    *)
(*                                                                         *)
(* The manager is five maps under five independent RwLocks.  Every update  *)
(* of a connection is a sequence of short writes, one lock at a time; one  *)
(* action here is one such write, or one database statement.  A broadcast  *)
(* is the only operation that holds locks across steps: the index lock and *)
(* the lock of `senders`, both for reading, until its last send.           *)
(*                                                                         *)
(* Channels and threads have the same code over two maps: `subscribers` is *)
(* both maps, keyed by topic.  The queueing order of tokio's RwLock is     *)
(* left out: any writer may go first once no reader holds the lock.        *)
(***************************************************************************)
EXTENDS Naturals, Sequences

CONSTANTS
    Users,      \* user ids
    Conns,      \* connection ids; each is a fresh v4 uuid, used once
    Channels,   \* channel ids
    Threads,    \* parent message ids
    Msgs,       \* broadcasts; each stands for one ServerMessage, sent once
    None,       \* "no value"
    VoiceUsers, \* the users whose clients join voice channels
    MaxFaults   \* bound: server restarts and failed status updates

Topics == Channels \cup Threads
Dests == Topics \cup Users

ASSUME IdsAssumption ==
    /\ Users \cap Topics = {}
    /\ Channels \cap Threads = {}
    /\ Msgs \cap Topics = {}
    /\ None \notin Dests \cup Msgs
ASSUME VoiceUsersAssumption == VoiceUsers \subseteq Users
ASSUME MaxFaultsAssumption == MaxFaults \in Nat

VARIABLES
    \* ConnectionManager, in memory
    senders,          \* connections that have an entry in `senders`
    connection_info,  \* connections that have an entry in `connection_info`
    subscribed,       \* info.subscribed_channels and subscribed_threads; it
                      \* outlives the entry as remove_connection's `info`
    user_connections, \* [Users -> SUBSET Conns], {} for a missing key
    subscribers,      \* [Topics -> SUBSET Conns], {} for a missing key
    \* database
    status,           \* users.status
    inVoice,          \* users that have a row in voice_states
    \* one handle_socket task per connection
    pc, arg, owner,
    \* one broadcast_to_channel, broadcast_to_thread or send_to_user per message
    phase, dest, pending,
    \* what was put on the mpsc channel of each connection, in order
    outbox,
    \* topics whose ChannelSubscribed was sent and that the client still wants
    acked,
    \* users whose last status update was lost (a failed statement, or a
    \* restart that took the task which would have made it); history only
    lost,
    faults

manager == <<senders, connection_info, subscribed, user_connections, subscribers>>
db      == <<status, inVoice, lost>>
task    == <<pc, arg, owner>>
cast    == <<phase, dest, pending, outbox>>
vars    == <<manager, db, task, cast, acked, faults>>

(* Where a handle_socket task stands: before the upgrade; add_connection;  *)
(* the Online update; the message loop; inside a client message;           *)
(* remove_connection; the tail of handle_socket; over.                     *)
Starting == {"addSender", "addInfo", "addUser", "setOnline"}
Serving  == {"loop", "subIndex", "subAck", "unsubIndex", "relay"}
Leaving  == {"dropUser", "dropTopics", "checkOnline", "setOffline", "leaveVoice"}
Labels   == {"new", "closed"} \cup Starting \cup Serving \cup Leaving

TypeOK ==
    /\ senders \subseteq Conns
    /\ connection_info \subseteq Conns
    /\ subscribed \in [Conns -> SUBSET Topics]
    /\ user_connections \in [Users -> SUBSET Conns]
    /\ subscribers \in [Topics -> SUBSET Conns]
    /\ status \in [Users -> {"online", "offline"}]
    /\ inVoice \subseteq Users
    /\ pc \in [Conns -> Labels]
    /\ arg \in [Conns -> Topics \cup Msgs \cup {None}]
    /\ owner \in [Conns -> Users \cup {None}]
    /\ phase \in [Msgs -> {"idle", "index", "sending", "done"}]
    /\ dest \in [Msgs -> Dests \cup {None}]
    /\ pending \in [Msgs -> SUBSET Conns]
    /\ outbox \in [Conns -> Seq(Msgs)]
    /\ acked \in [Conns -> SUBSET Channels]
    /\ lost \subseteq Users
    /\ faults \in 0 .. MaxFaults

Init ==
    /\ senders = {} /\ connection_info = {}
    /\ subscribed = [c \in Conns |-> {}]
    /\ user_connections = [u \in Users |-> {}]
    /\ subscribers = [t \in Topics |-> {}]
    /\ status = [u \in Users |-> "offline"]
    /\ inVoice = {}
    /\ pc = [c \in Conns |-> "new"]
    /\ arg = [c \in Conns |-> None]
    /\ owner = [c \in Conns |-> None]
    /\ phase = [m \in Msgs |-> "idle"]
    /\ dest = [m \in Msgs |-> None]
    /\ pending = [m \in Msgs |-> {}]
    /\ outbox = [c \in Conns |-> <<>>]
    /\ acked = [c \in Conns |-> {}]
    /\ lost = {}
    /\ faults = 0

-----------------------------------------------------------------------------
(* Locks.  A broadcast in its "index" phase holds the map of its           *)
(* destination for reading; in "sending" it holds `senders` too.           *)

(* Mutant: the broadcast clones the set and lets go of the index lock.     *)
ReadLockedNever(S) == FALSE

ReadLocked(S) == \E m \in Msgs : phase[m] \in {"index", "sending"} /\ dest[m] \in S
SendersLocked == \E m \in Msgs : phase[m] = "sending"

(* The map that holds topic t, channel_subscribers or thread_subscribers.  *)
IndexOf(t) == IF t \in Channels THEN Channels ELSE Threads

(* The set a broadcast to x iterates over.                                 *)
Audience(x) == IF x \in Users THEN user_connections[x] ELSE subscribers[x]

Goto(c, from, to) ==
    /\ pc[c] = from
    /\ pc' = [pc EXCEPT ![c] = to]

-----------------------------------------------------------------------------
(* handle_socket up to the message loop.                                   *)

(* The first message carried a valid token of user u and Authenticated was *)
(* sent; every other outcome returns before the manager knows of c.        *)
(* Mutant: a second Authenticate message changes the task's user.          *)
AuthenticateAgain(c, u) ==
    /\ \/ Goto(c, "new", "addSender")
       \/ pc[c] = "loop" /\ UNCHANGED pc
    /\ owner' = [owner EXCEPT ![c] = u]
    /\ UNCHANGED <<manager, db, arg, cast, acked, faults>>

Authenticate(c, u) ==
    /\ Goto(c, "new", "addSender")
    /\ owner' = [owner EXCEPT ![c] = u]
    /\ UNCHANGED <<manager, db, arg, cast, acked, faults>>

AddSender(c) ==
    /\ Goto(c, "addSender", "addInfo")
    /\ ~SendersLocked
    /\ senders' = senders \cup {c}
    /\ UNCHANGED <<connection_info, subscribed, user_connections, subscribers,
                   db, arg, owner, cast, acked, faults>>

AddInfo(c) ==
    /\ Goto(c, "addInfo", "addUser")
    /\ connection_info' = connection_info \cup {c}
    /\ subscribed' = [subscribed EXCEPT ![c] = {}]
    /\ UNCHANGED <<senders, user_connections, subscribers,
                   db, arg, owner, cast, acked, faults>>

AddUser(c) ==
    /\ Goto(c, "addUser", "setOnline")
    /\ ~ReadLocked(Users)
    /\ user_connections' = [user_connections EXCEPT ![owner[c]] = @ \cup {c}]
    /\ UNCHANGED <<senders, connection_info, subscribed, subscribers,
                   db, arg, owner, cast, acked, faults>>

(* user_service.update_status: one UPDATE, which may fail; a failure is    *)
(* logged and the task goes on.                                            *)
UpdateStatus(u, s) ==
    \/ /\ status' = [status EXCEPT ![u] = s]
       /\ lost' = lost \ {u}
       /\ UNCHANGED faults
    \/ /\ faults < MaxFaults
       /\ faults' = faults + 1
       /\ lost' = lost \cup {u}
       /\ UNCHANGED status

SetOnline(c) ==
    /\ Goto(c, "setOnline", "loop")
    /\ UpdateStatus(owner[c], "online")
    /\ UNCHANGED <<manager, inVoice, arg, owner, cast, acked>>

-----------------------------------------------------------------------------
(* handle_client_message: SubscribeChannel, SubscribeThread and their      *)
(* opposites, StartTyping, StopTyping and the Rtc* relays.                 *)

(* subscribe_to_channel and subscribe_to_thread, the first lock.           *)
SubscribeInfo(c, t) ==
    /\ Goto(c, "loop", "subIndex")
    /\ subscribed' = IF c \in connection_info
                     THEN [subscribed EXCEPT ![c] = @ \cup {t}] ELSE subscribed
    /\ arg' = [arg EXCEPT ![c] = t]
    /\ UNCHANGED <<senders, connection_info, user_connections, subscribers,
                   db, owner, cast, acked, faults>>

(* The second lock; the insert does not ask whether the first one found    *)
(* the connection.  Mutant: it inserts only where the key exists already.  *)
IndexedKnown(c, t) == [subscribers EXCEPT ![t] = IF @ = {} THEN @ ELSE @ \cup {c}]
Indexed(c, t) == [subscribers EXCEPT ![t] = @ \cup {c}]

(* Only SubscribeChannel is acknowledged.  Mutant: SubscribeThread is too. *)
AfterSubscribeAny(t) == "subAck"
AfterSubscribe(t) == IF t \in Channels THEN "subAck" ELSE "loop"

SubscribeIndex(c) ==
    /\ Goto(c, "subIndex", AfterSubscribe(arg[c]))
    /\ ~ReadLocked(IndexOf(arg[c]))
    /\ subscribers' = Indexed(c, arg[c])
    /\ UNCHANGED <<senders, connection_info, subscribed, user_connections,
                   db, arg, owner, cast, acked, faults>>

(* send_to_connection(ChannelSubscribed): only if a sender is found.       *)
SubscribeAck(c) ==
    /\ Goto(c, "subAck", "loop")
    /\ acked' = IF c \in senders
                THEN [acked EXCEPT ![c] = @ \cup {arg[c]}] ELSE acked
    /\ UNCHANGED <<manager, db, arg, owner, cast, faults>>

UnsubscribeInfo(c, t) ==
    /\ Goto(c, "loop", "unsubIndex")
    /\ subscribed' = IF c \in connection_info
                     THEN [subscribed EXCEPT ![c] = @ \ {t}] ELSE subscribed
    /\ arg' = [arg EXCEPT ![c] = t]
    /\ acked' = [acked EXCEPT ![c] = @ \ {t}]
    /\ UNCHANGED <<senders, connection_info, user_connections, subscribers,
                   db, owner, cast, faults>>

UnsubscribeIndex(c) ==
    /\ Goto(c, "unsubIndex", "loop")
    /\ ~ReadLocked(IndexOf(arg[c]))
    /\ subscribers' = [subscribers EXCEPT ![arg[c]] = @ \ {c}]
    /\ UNCHANGED <<senders, connection_info, subscribed, user_connections,
                   db, arg, owner, cast, acked, faults>>

(* A client message that is a broadcast itself: the task takes the index   *)
(* lock and stays busy until the broadcast is over.                        *)
Relay(c, m, x) ==
    /\ x \in Channels \cup Users
    /\ Goto(c, "loop", "relay")
    /\ arg' = [arg EXCEPT ![c] = m]
    /\ phase[m] = "idle"
    /\ phase' = [phase EXCEPT ![m] = "index"]
    /\ dest' = [dest EXCEPT ![m] = x]
    /\ UNCHANGED <<manager, db, owner, pending, outbox, acked, faults>>

-----------------------------------------------------------------------------
(* Broadcasts.                                                             *)

(* An HTTP handler broadcasts to a channel or a thread, or the SFU code    *)
(* sends to a user: the index is locked for reading.                       *)
LockIndex(m, x) ==
    /\ phase[m] = "idle"
    /\ phase' = [phase EXCEPT ![m] = "index"]
    /\ dest' = [dest EXCEPT ![m] = x]
    /\ UNCHANGED <<manager, db, task, pending, outbox, acked, faults>>

(* `senders` is locked for reading: from here on the set of receivers is   *)
(* fixed, those of the index that have a sender.                           *)
LockSenders(m) ==
    /\ phase[m] = "index"
    /\ phase' = [phase EXCEPT ![m] = "sending"]
    /\ pending' = [pending EXCEPT ![m] = Audience(dest[m]) \cap senders]
    /\ UNCHANGED <<manager, db, task, dest, outbox, acked, faults>>

(* An unbounded channel takes a message at any time.  Mutant: a bounded    *)
(* one that only the connection's own loop drains.                         *)
CanSendBounded(c) == pc[c] = "loop"
CanSend(c) == TRUE

(* One turn of the loop over a HashSet: any receiver that is left.         *)
Send(m, c) ==
    /\ c \in pending[m]
    /\ CanSend(c)
    /\ pending' = [pending EXCEPT ![m] = @ \ {c}]
    /\ outbox' = [outbox EXCEPT ![c] = Append(@, m)]
    /\ UNCHANGED <<manager, db, task, phase, dest, acked, faults>>

(* The loop is over and both locks are released.  Mutant: the sends are    *)
(* spawned, and the call returns before they are made.                     *)
AllSentLater(m) == TRUE
AllSent(m) == pending[m] = {}

Unlock(m) ==
    /\ phase[m] = "sending"
    /\ AllSent(m)
    /\ phase' = [phase EXCEPT ![m] = "done"]
    /\ pc' = [c \in Conns |-> IF pc[c] = "relay" /\ arg[c] = m THEN "loop" ELSE pc[c]]
    /\ UNCHANGED <<manager, db, arg, owner, dest, pending, outbox, acked, faults>>

-----------------------------------------------------------------------------
(* The end of handle_socket.                                               *)

(* Close, an error or the end of the stream; then the first lock of        *)
(* remove_connection.  The removed info stays with the task.               *)
RemoveInfo(c) ==
    /\ Goto(c, "loop", IF c \in connection_info THEN "dropUser" ELSE "dropTopics")
    /\ connection_info' = connection_info \ {c}
    /\ acked' = [acked EXCEPT ![c] = {}]
    /\ UNCHANGED <<senders, subscribed, user_connections, subscribers,
                   db, arg, owner, cast, faults>>

RemoveUser(c) ==
    /\ Goto(c, "dropUser", "dropTopics")
    /\ ~ReadLocked(Users)
    /\ user_connections' = [user_connections EXCEPT ![owner[c]] = @ \ {c}]
    /\ UNCHANGED <<senders, connection_info, subscribed, subscribers,
                   db, arg, owner, cast, acked, faults>>

(* The two loops over `info`: each topic under a lock of its own, all the  *)
(* channels before the threads.                                            *)
RemoveTopic(c, t) ==
    /\ pc[c] = "dropTopics"
    /\ t \in subscribed[c]
    /\ t \in Threads => subscribed[c] \cap Channels = {}
    /\ ~ReadLocked(IndexOf(t))
    /\ subscribers' = [subscribers EXCEPT ![t] = @ \ {c}]
    /\ subscribed' = [subscribed EXCEPT ![c] = @ \ {t}]
    /\ UNCHANGED <<senders, connection_info, user_connections,
                   db, task, cast, acked, faults>>

(* Both loops are over.  Mutant: the loop over the threads is forgotten.   *)
LoopsOverChannels(c) == subscribed[c] \cap Channels = {}
LoopsOver(c) == subscribed[c] = {}

RemoveSender(c) ==
    /\ Goto(c, "dropTopics", "checkOnline")
    /\ LoopsOver(c)
    /\ ~SendersLocked
    /\ senders' = senders \ {c}
    /\ UNCHANGED <<connection_info, subscribed, user_connections, subscribers,
                   db, arg, owner, cast, acked, faults>>

(* Mutant: the check asks for the key, which is never removed (it is what  *)
(* get_online_users lists).                                                *)
is_user_online_key(u) == TRUE
is_user_online(u) == user_connections[u] # {}

(* Mutant: a user who is still online keeps the voice row.                 *)
AfterCheckReturns(u) == IF is_user_online(u) THEN "closed" ELSE "setOffline"
AfterCheck(u) == IF is_user_online(u) THEN "leaveVoice" ELSE "setOffline"

(* The answer is used after the lock is released.                          *)
CheckOnline(c) ==
    /\ Goto(c, "checkOnline", AfterCheck(owner[c]))
    /\ UNCHANGED <<manager, db, arg, owner, cast, acked, faults>>

SetOffline(c) ==
    /\ Goto(c, "setOffline", "leaveVoice")
    /\ UpdateStatus(owner[c], "offline")
    /\ UNCHANGED <<manager, inVoice, arg, owner, cast, acked>>

(* channel_service.leave_voice: its SELECT is not used here, its DELETE is *)
(* by user id.                                                             *)
LeaveVoice(c) ==
    /\ Goto(c, "leaveVoice", "closed")
    /\ inVoice' = inVoice \ {owner[c]}
    /\ UNCHANGED <<manager, status, lost, arg, owner, cast, acked, faults>>

-----------------------------------------------------------------------------
(* POST /channels/{id}/voice/join, on any of the user's sessions.          *)
JoinVoice(u) ==
    /\ u \notin inVoice
    /\ inVoice' = inVoice \cup {u}
    /\ UNCHANGED <<manager, status, lost, task, cast, acked, faults>>

(* The server process ends and starts again: tasks and maps are gone, the  *)
(* database is as it was, and nothing at startup resets users.status.      *)
Restart ==
    /\ faults < MaxFaults
    /\ faults' = faults + 1
    /\ senders' = {} /\ connection_info' = {}
    /\ subscribed' = [c \in Conns |-> {}]
    /\ user_connections' = [u \in Users |-> {}]
    /\ subscribers' = [t \in Topics |-> {}]
    /\ pc' = [c \in Conns |-> IF pc[c] = "new" THEN "new" ELSE "closed"]
    /\ acked' = [c \in Conns |-> {}]
    /\ phase' = [m \in Msgs |-> IF phase[m] = "index" THEN "idle"
                                ELSE IF phase[m] = "sending" THEN "done" ELSE phase[m]]
    /\ pending' = [m \in Msgs |-> {}]
    /\ lost' = lost \cup {u \in Users : status[u] = "online"}
    /\ UNCHANGED <<status, inVoice, arg, owner, dest, outbox>>

-----------------------------------------------------------------------------
(* What a task does without waiting for its client, and a broadcast's way  *)
(* to its end: the steps the runtime keeps scheduling.                     *)
TaskStep(c) ==
    \/ AddSender(c) \/ AddInfo(c) \/ AddUser(c) \/ SetOnline(c)
    \/ SubscribeIndex(c) \/ SubscribeAck(c) \/ UnsubscribeIndex(c)
    \/ RemoveUser(c) \/ (\E t \in Topics : RemoveTopic(c, t)) \/ RemoveSender(c)
    \/ CheckOnline(c) \/ SetOffline(c) \/ LeaveVoice(c)

CastStep(m) == LockSenders(m) \/ (\E c \in Conns : Send(m, c)) \/ Unlock(m)

ClientStep(c) ==
    \/ \E u \in Users : Authenticate(c, u)
    \/ \E t \in Topics : SubscribeInfo(c, t) \/ UnsubscribeInfo(c, t)
    \/ \E m \in Msgs, x \in Dests : Relay(c, m, x)
    \/ RemoveInfo(c)

Next ==
    \/ \E c \in Conns : TaskStep(c) \/ ClientStep(c)
    \/ \E m \in Msgs : CastStep(m)
    \/ \E m \in Msgs, x \in Dests : LockIndex(m, x)
    \/ \E u \in VoiceUsers : JoinVoice(u)
    \/ Restart

Fairness ==
    /\ \A c \in Conns : WF_vars(TaskStep(c))
    /\ \A m \in Msgs : WF_vars(CastStep(m))

Spec == Init /\ [][Next]_vars
FairSpec == Spec /\ Fairness
-----------------------------------------------------------------------------
(* Properties.                                                             *)

HasSender(c) == pc[c] \in {"addInfo", "addUser", "setOnline", "dropUser", "dropTopics"} \cup Serving
HasInfo(c)   == pc[c] \in {"addUser", "setOnline"} \cup Serving
IsCounted(c) == pc[c] \in {"setOnline", "dropUser"} \cup Serving
InFlight(c)  == IF pc[c] \in {"subIndex", "unsubIndex"} THEN {arg[c]} ELSE {}

(* The five maps never disagree about a connection by more than the one    *)
(* write its task has in flight, although no lock spans two of them: a     *)
(* connection is in the user index under its own user and nowhere else, in *)
(* the index of exactly the topics its info lists (but for the topic being *)
(* changed), and once its task has run remove_connection no map mentions   *)
(* it, so nothing is ever sent to, or leaked by, a closed connection.      *)
IndexesAgree ==
    \A c \in Conns :
        /\ c \in senders <=> HasSender(c)
        /\ c \in connection_info <=> HasInfo(c)
        /\ \A u \in Users : c \in user_connections[u] <=> IsCounted(c) /\ owner[c] = u
        /\ \A t \in Topics \ InFlight(c) : c \in subscribers[t] <=> t \in subscribed[c]
        /\ subscribed[c] # {} => HasInfo(c) \/ pc[c] \in {"dropUser", "dropTopics"}

(* What a client was told holds: between ChannelSubscribed and its own     *)
(* unsubscribe or disconnect, the connection is in the channel's index and *)
(* has a sender, whatever other connections and broadcasts do meanwhile.   *)
AckHonoured ==
    \A c \in Conns : \A t \in acked[c] : c \in subscribers[t] \cap senders

(* A message addressed to a user (an SDP offer or answer, an ICE candidate)*)
(* is only ever put on the channel of a connection of that user.           *)
PrivateMail ==
    \A c \in Conns : \A i \in DOMAIN outbox[c] :
        dest[outbox[c][i]] \in Users => owner[c] = dest[outbox[c][i]]

Settled(u) == \A c \in Conns : owner[c] = u => pc[c] \in Serving \cup {"closed"}
Connected(u) == \E c \in Conns : owner[c] = u /\ pc[c] \in Serving

(* No ghosts: once every task of a user has settled and none of them still *)
(* serves a connection, users.status says offline, in whatever order the   *)
(* disconnects overlapped, unless the write that would have said so was    *)
(* lost.  (handle_socket, the check and the update at the end.)            *)
OfflineWhenGone ==
    \A u \in Users :
        Settled(u) /\ ~Connected(u) /\ u \notin lost => status[u] = "offline"

(* "Update user status to offline (if no other connections)": a user whose *)
(* tasks have all settled and who has a connection is shown online.        *)
OnlineWhenConnected ==
    \A u \in Users :
        Settled(u) /\ Connected(u) /\ u \notin lost => status[u] = "online"

(* A broadcast is over when the call that made it returns: no connection   *)
(* gets a message whose broadcast has ended, so two broadcasts one after   *)
(* the other reach every connection in that order.                         *)
PublisherOrder ==
    [][\A m \in Msgs, c \in Conns :
          phase[m] = "done" /\ outbox'[c] # outbox[c]
              => outbox'[c] # Append(outbox[c], m)]_vars

(* A disconnect is always cleaned up to its end: no broadcast, and no      *)
(* other connection, can keep remove_connection from its locks, and the    *)
(* user is out of voice as it ends (a restart excepted: it takes the task).*)
CleanupCompletes ==
    \A c \in Conns : pc[c] = "dropUser" ~> (pc[c] = "closed" /\ owner[c] \notin inVoice)

(* Every broadcast that is begun comes to its end, or is taken by a        *)
(* restart: a pair of read locks is never waited for in a circle.          *)
BroadcastCompletes ==
    \A m \in Msgs : phase[m] = "index" ~> phase[m] \in {"done", "idle"}

(* The locks and the indexes implement PubSub: a destination's members are *)
(* the connections of its index that have a sender, a message is published *)
(* when its broadcast holds both locks, and what is owed is what the loop  *)
(* has left.                                                               *)
Members   == [x \in Dests |-> Audience(x) \cap senders]
Published == [m \in Msgs |-> IF phase[m] \in {"sending", "done"} THEN dest[m] ELSE None]
PS == INSTANCE PubSub WITH
    members <- Members, published <- Published, owed <- pending, log <- outbox

ImplementsPubSub == PS!Spec
=============================================================================
