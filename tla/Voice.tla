-------------------------------- MODULE Voice --------------------------------
(***************************************************************************)
(* Voice channels: the voice_states table and the voice endpoints          *)
(* (services/channel.rs, api/channels.rs), the buttons of the client that  *)
(* call them (ui/channel_list.rs, ui/voice.rs) and the list of             *)
(* participants the client keeps from what it fetches and from what its    *)
(* socket brings (network/websocket.rs, state/app_state.rs).               *)
(*                                                                         *)
(* Every click spawns a task of its own; a task is a sequence of writes to *)
(* the client's state, database statements and broadcasts, and the tasks   *)
(* of all users interleave.  A broadcast is one step here: Connections     *)
(* takes it apart.  Of the voice flags one stands for all of them: each is *)
(* written and announced in the same way.                                  *)
(***************************************************************************)
EXTENDS Sequences

CONSTANTS
    Users,     \* users, each with one running client
    Channels,  \* voice channels
    Clicks,    \* bound: the clicks of the users, <<user, number>>, each made once
    Breaking,  \* bound: users whose socket may break
    Failing,   \* bound: clicks whose requests may fail
    None

VARIABLES
    row,          \* voice_states: the user's channel, or None
    flag,         \* the flag of that row
    subscribers,  \* channel -> users whose connection is subscribed
    online,       \* users whose WebSocket is still there
    requests,     \* SubscribeChannel messages on their way to the server
    inbox,        \* voice events on their way to the client
    local,        \* voice_channel_id of the client
    shown,        \* voice_participants: for each user "absent", "off" or "on"
    mine,         \* the client's own flag (is_muted and the like)
    pc, chan,     \* the tasks, one per click
    found,        \* what a task has read: a channel, or the participants
    \* history, for the properties
    hasty,        \* users who clicked while a click of theirs was under way
    late,         \* users who fetched before their subscription was served, or in vain
    failed,       \* users whose last request failed
    silent,       \* users whose row went away without a VoiceUserLeft
    stale         \* <<x, y>>: x was given an entry for y that had changed, or the
                  \* flag y had in another channel

db     == <<row, flag>>
socket == <<subscribers, online, requests, inbox>>
client == <<local, shown, mine>>
task   == <<pc, chan, found>>
past   == <<hasty, late, failed, silent, stale>>
vars   == <<db, socket, client, task, past>>

Entries == {"absent", "off", "on"}
Events  == [kind : {"joined", "left", "off", "on"}, channel : Channels, user : Users]
Idle    == {"new", "done"}
Labels  == Idle \cup {"join", "enter", "delete", "insert", "tellJoin", "fetch",
               "fill", "revert", "leaveSelect", "leaveDelete", "tellLeave",
               "exit", "setOff", "setOn", "tellOff", "tellOn", "keepOff", "keepOn"}

Nobody == [u \in Users |-> "absent"]

TypeOK ==
    /\ row \in [Users -> Channels \cup {None}]
    /\ flag \in [Users -> {"off", "on"}]
    /\ subscribers \in [Channels -> SUBSET Users]
    /\ online \subseteq Users
    /\ requests \in [Users -> Seq(Channels)]
    /\ inbox \in [Users -> Seq(Events)]
    /\ local \in [Users -> Channels \cup {None}]
    /\ shown \in [Users -> [Users -> Entries]]
    /\ mine \in [Users -> {"off", "on"}]
    /\ pc \in [Clicks -> Labels]
    /\ chan \in [Clicks -> Channels \cup {None}]
    /\ found \in [Clicks -> [Users -> Entries]]
    /\ hasty \subseteq Users /\ late \subseteq Users /\ failed \subseteq Users
    /\ silent \subseteq Users
    /\ stale \subseteq Users \X Users

Init ==
    /\ row = [u \in Users |-> None]
    /\ flag = [u \in Users |-> "off"]
    /\ subscribers = [c \in Channels |-> {}]
    /\ online = Users
    /\ requests = [u \in Users |-> <<>>]
    /\ inbox = [u \in Users |-> <<>>]
    /\ local = [u \in Users |-> None]
    /\ shown = [u \in Users |-> Nobody]
    /\ mine = [u \in Users |-> "off"]
    /\ pc = [k \in Clicks |-> "new"]
    /\ chan = [k \in Clicks |-> None]
    /\ found = [k \in Clicks |-> Nobody]
    /\ hasty = {} /\ late = {} /\ failed = {} /\ silent = {} /\ stale = {}

\* The flag a task is setting.
ValueOf(k) == IF pc[k] \in {"setOn", "tellOn", "keepOn"} THEN "on" ELSE "off"

Who(k) == k[1]

Goto(k, label) == pc' = [pc EXCEPT ![k] = label]

\* broadcast_to_channel: what every subscriber of the channel is sent.
Broadcast(c, kind, u) ==
    inbox' = [x \in Users |->
        IF x \in subscribers[c]
            THEN Append(inbox[x], [kind |-> kind, channel |-> c, user |-> u])
            ELSE inbox[x]]

-----------------------------------------------------------------------------
(* The clicks.  The button of the channel the client is in leaves it, the  *)
(* button of another channel joins that one; the panel's buttons are there *)
(* only in a channel.                                                      *)

Unfinished(u) == \E k \in Clicks : Who(k) = u /\ pc[k] \notin Idle

Spawn(k, u, label) ==
    /\ pc[k] = "new"
    /\ Goto(k, label)
    /\ hasty' = IF Unfinished(u) THEN hasty \cup {u} ELSE hasty
    /\ UNCHANGED <<db, socket, client, found, late, failed, silent, stale>>

ClickJoin(k, u, c) ==
    /\ local[u] # c
    /\ chan' = [chan EXCEPT ![k] = c]
    /\ Spawn(k, u, "join")

ClickLeave(k, u) ==
    /\ local[u] # None
    /\ UNCHANGED chan
    /\ Spawn(k, u, "leaveSelect")

ClickToggle(k, u) ==
    /\ local[u] # None
    /\ UNCHANGED chan
    /\ Spawn(k, u, IF mine[u] = "on" THEN "setOff" ELSE "setOn")

-----------------------------------------------------------------------------
(* Joining.                                                                *)

\* The subscription is queued first; nobody waits for the server to serve it.
Subscribe(k) ==
    LET u == Who(k) IN
    /\ pc[k] = "join"
    /\ requests' = IF u \in online
                       THEN [requests EXCEPT ![u] = Append(@, chan[k])]
                       ELSE requests
    /\ Goto(k, "enter")
    /\ UNCHANGED <<db, subscribers, online, inbox, client, chan, found, past>>

\* AppState::join_voice, before the server is asked.
EnterLocally(k) ==
    LET u == Who(k) IN
    /\ pc[k] = "enter"
    /\ local' = [local EXCEPT ![u] = chan[k]]
    /\ shown' = [shown EXCEPT ![u] = [Nobody EXCEPT ![u] = mine[u]]]
    /\ stale' = {p \in stale : p[1] # u}
    /\ Goto(k, "delete")
    /\ UNCHANGED <<db, socket, mine, chan, found, hasty, late, failed, silent>>

\* ChannelService::join_voice leaves whatever channel there is, and says so to nobody.
LeaveForJoin(k) ==
    LET u == Who(k) IN
    /\ pc[k] = "delete"
    /\ silent' = IF row[u] # None THEN silent \cup {u} ELSE silent
    /\ row' = [row EXCEPT ![u] = None]
    /\ Goto(k, "insert")
    /\ UNCHANGED <<flag, socket, client, chan, found, hasty, late, failed, stale>>

Taken(u) == row[u] # None

\* The INSERT; the UNIQUE(user_id) of voice_states refuses a second row.
InsertRow(k) ==
    LET u == Who(k) IN
    /\ pc[k] = "insert"
    /\ IF Taken(u)
           THEN Goto(k, "revert") /\ UNCHANGED <<db, failed>>
           ELSE /\ row' = [row EXCEPT ![u] = chan[k]]
                /\ flag' = [flag EXCEPT ![u] = "off"]
                /\ failed' = failed \ {u}
                /\ Goto(k, "tellJoin")
    /\ UNCHANGED <<socket, client, chan, found, hasty, late, silent, stale>>

TellJoin(k) ==
    /\ pc[k] = "tellJoin"
    /\ Broadcast(chan[k], "joined", Who(k))
    /\ Goto(k, "fetch")
    /\ UNCHANGED <<db, subscribers, online, requests, client, chan, found, past>>

Participants(c) == [y \in Users |-> IF row[y] = c THEN flag[y] ELSE "absent"]

\* GET participants.
Fetch(k) ==
    LET u == Who(k) IN
    /\ pc[k] = "fetch"
    /\ found' = [found EXCEPT ![k] = Participants(chan[k])]
    /\ late' = IF u \in subscribers[chan[k]] THEN late ELSE late \cup {u}
    /\ Goto(k, "fill")
    /\ UNCHANGED <<db, socket, client, chan, hasty, failed, silent, stale>>

Others(k) == {y \in Users \ {Who(k)} : found[k][y] # "absent"}

\* The answer is inserted entry by entry, over whatever the events had left.
Fill(k) ==
    LET u == Who(k) IN
    /\ pc[k] = "fill"
    /\ shown' = [shown EXCEPT ![u] =
                    [y \in Users |-> IF y \in Others(k) THEN found[k][y] ELSE @[y]]]
    /\ stale' = stale \cup
         {<<u, y>> : y \in {z \in Others(k) : found[k][z] # Participants(chan[k])[z]}}
    /\ found' = [found EXCEPT ![k] = Nobody]
    /\ Goto(k, "done")
    /\ UNCHANGED <<db, socket, local, mine, chan, hasty, late, failed, silent>>

-----------------------------------------------------------------------------
(* Leaving, and changing a flag.                                           *)

\* AppState::leave_voice: after a leave, and when a join was refused.
LeaveLocally(k) ==
    LET u == Who(k) IN
    /\ pc[k] \in {"exit", "revert"}
    /\ local' = [local EXCEPT ![u] = None]
    /\ shown' = [shown EXCEPT ![u] = Nobody]
    /\ mine' = [mine EXCEPT ![u] = "off"]
    /\ stale' = {p \in stale : p[1] # u}
    /\ Goto(k, "done")
    /\ UNCHANGED <<db, socket, chan, found, hasty, late, failed, silent>>

\* ChannelService::leave_voice: which channel, and then the DELETE.
LeaveSelect(k) ==
    /\ pc[k] = "leaveSelect"
    /\ chan' = [chan EXCEPT ![k] = row[Who(k)]]
    /\ Goto(k, "leaveDelete")
    /\ UNCHANGED <<db, socket, client, found, past>>

LeaveDelete(k) ==
    /\ pc[k] = "leaveDelete"
    /\ row' = [row EXCEPT ![Who(k)] = None]
    /\ failed' = failed \ {Who(k)}
    /\ Goto(k, IF chan[k] = None THEN "exit" ELSE "tellLeave")
    /\ UNCHANGED <<flag, socket, client, chan, found, hasty, late, silent, stale>>

TellLeave(k) ==
    /\ pc[k] = "tellLeave"
    /\ Broadcast(chan[k], "left", Who(k))
    /\ Goto(k, "exit")
    /\ UNCHANGED <<db, subscribers, online, requests, client, chan, found, past>>

\* update_voice_state; a user without a row is answered NotFound.
Update(k) ==
    LET u == Who(k) IN
    /\ pc[k] \in {"setOff", "setOn"}
    /\ IF row[u] = None
           THEN Goto(k, "done") /\ UNCHANGED <<flag, chan>>
           ELSE /\ flag' = [flag EXCEPT ![u] = ValueOf(k)]
                /\ chan' = [chan EXCEPT ![k] = row[u]]
                /\ Goto(k, IF pc[k] = "setOn" THEN "tellOn" ELSE "tellOff")
    /\ UNCHANGED <<row, socket, client, found, past>>

TellUpdate(k) ==
    /\ pc[k] \in {"tellOff", "tellOn"}
    /\ Broadcast(chan[k], ValueOf(k), Who(k))
    /\ Goto(k, IF pc[k] = "tellOn" THEN "keepOn" ELSE "keepOff")
    /\ UNCHANGED <<db, subscribers, online, requests, client, chan, found, past>>

\* Mutant of KeepFlag: the answer is not looked at.
KeepFlagUnread(k) ==
    /\ pc[k] \in {"keepOff", "keepOn"}
    /\ Goto(k, "done")
    /\ UNCHANGED <<db, socket, client, chan, found, past>>

\* The client keeps its flag only after the server has said yes.
KeepFlag(k) ==
    /\ pc[k] \in {"keepOff", "keepOn"}
    /\ mine' = [mine EXCEPT ![Who(k)] = ValueOf(k)]
    /\ failed' = failed \ {Who(k)}
    /\ Goto(k, "done")
    /\ UNCHANGED <<db, socket, local, shown, chan, found, hasty, late, silent, stale>>

-----------------------------------------------------------------------------
(* A request that fails: it never came to the server, a statement of it    *)
(* failed, or the answer was lost.                                         *)

Fails(k, at, next) ==
    /\ k \in Failing /\ pc[k] \in at
    /\ Goto(k, next)
    /\ failed' = failed \cup {Who(k)}
    /\ UNCHANGED <<db, socket, client, chan, found, hasty, late, silent, stale>>

\* The client goes back out of the channel, whatever row the server has.
JoinFails(k) == Fails(k, {"delete", "insert", "fetch"}, "revert")

\* The error of a leave is dropped: the client leaves all the same.
LeaveFails(k) == Fails(k, {"leaveSelect", "leaveDelete"}, "exit")

UpdateFails(k) == Fails(k, {"setOff", "setOn", "keepOff", "keepOn"}, "done")

\* Without participants the list is left with what the events bring.
FetchFails(k) ==
    /\ k \in Failing /\ pc[k] = "fetch"
    /\ Goto(k, "done")
    /\ late' = late \cup {Who(k)}
    /\ UNCHANGED <<db, socket, client, chan, found, hasty, failed, silent, stale>>

-----------------------------------------------------------------------------
(* The socket.                                                             *)

ServeSubscribe(u) ==
    /\ requests[u] # <<>>
    /\ subscribers' = [subscribers EXCEPT ![Head(requests[u])] = @ \cup {u}]
    /\ requests' = [requests EXCEPT ![u] = Tail(@)]
    /\ UNCHANGED <<db, online, inbox, client, task, past>>

(* The list after an event.  Joined and left are for the channel the       *)
(* client is in; an update is for anybody it shows.                        *)
\* Mutant of AfterJoined: only entries that are there already are set.
AfterJoinedIfKnown(x, e) ==
    IF shown[x][e.user] # "absent" THEN [shown[x] EXCEPT ![e.user] = "off"] ELSE shown[x]

AfterJoined(x, e) ==
    IF local[x] = e.channel THEN [shown[x] EXCEPT ![e.user] = "off"] ELSE shown[x]

AfterLeft(x, e) ==
    IF local[x] = e.channel THEN [shown[x] EXCEPT ![e.user] = "absent"] ELSE shown[x]

AfterUpdate(x, e) ==
    IF shown[x][e.user] # "absent" THEN [shown[x] EXCEPT ![e.user] = e.kind] ELSE shown[x]

ReadEvent(x) ==
    LET e == Head(inbox[x])
        list == CASE e.kind = "joined" -> AfterJoined(x, e)
                  [] e.kind = "left" -> AfterLeft(x, e)
                  [] e.kind \in {"off", "on"} -> AfterUpdate(x, e)
    IN
    /\ inbox[x] # <<>>
    /\ inbox' = [inbox EXCEPT ![x] = Tail(@)]
    /\ shown' = [shown EXCEPT ![x] = list]
    /\ stale' = CASE list = shown[x] -> stale
                  [] list # shown[x] /\ e.channel = local[x] -> stale \ {<<x, e.user>>}
                  [] list # shown[x] /\ e.channel # local[x] -> stale \cup {<<x, e.user>>}
    /\ UNCHANGED <<db, subscribers, online, requests, local, mine, task, hasty, late, failed, silent>>

\* The socket breaks: the server forgets the subscriptions and deletes the
\* row, without a broadcast; the client does not connect again.
Disconnect(u) ==
    /\ u \in online \cap Breaking
    /\ online' = online \ {u}
    /\ subscribers' = [c \in Channels |-> subscribers[c] \ {u}]
    /\ requests' = [requests EXCEPT ![u] = <<>>]
    /\ inbox' = [inbox EXCEPT ![u] = <<>>]
    /\ row' = [row EXCEPT ![u] = None]
    /\ silent' = silent \cup {u}
    /\ UNCHANGED <<flag, client, task, hasty, late, failed, stale>>

-----------------------------------------------------------------------------

Step(k) ==
    \/ Subscribe(k) \/ EnterLocally(k) \/ LeaveForJoin(k) \/ InsertRow(k)
    \/ TellJoin(k) \/ Fetch(k) \/ Fill(k) \/ LeaveLocally(k)
    \/ LeaveSelect(k) \/ LeaveDelete(k) \/ TellLeave(k)
    \/ Update(k) \/ TellUpdate(k) \/ KeepFlag(k)
    \/ JoinFails(k) \/ FetchFails(k) \/ LeaveFails(k) \/ UpdateFails(k)

Next ==
    \/ \E k \in Clicks :
          \/ \E c \in Channels : ClickJoin(k, Who(k), c)
          \/ ClickLeave(k, Who(k))
          \/ ClickToggle(k, Who(k))
    \/ \E k \in Clicks : Step(k)
    \/ \E u \in Users : ServeSubscribe(u) \/ ReadEvent(u) \/ Disconnect(u)

Spec == Init /\ [][Next]_vars

-----------------------------------------------------------------------------

\* Nothing is on its way: what the clients show now is what they will show.
Quiet ==
    /\ \A k \in Clicks : pc[k] \in Idle
    /\ \A u \in Users : requests[u] = <<>> /\ inbox[u] = <<>>

(* Once everything has settled, a client in a channel shows another user   *)
(* exactly as the table has that user: present or not, and with the right  *)
(* flag.  The exceptions are the ones the code really has, and each is     *)
(* remembered: somebody clicked again before the first click was over, the *)
(* participants were fetched before the subscription was served or could   *)
(* not be fetched, the row was removed without a VoiceUserLeft, the fetched*)
(* answer was old when it was inserted, or a flag the user had in another  *)
(* channel came only then: the client does not look at the channel of an   *)
(* update.  A join or a leave that fails is no exception: others show the  *)
(* user where the table has it, though it is not there any more.           *)
ViewsAgree ==
    Quiet => \A x \in online \ (hasty \cup late), y \in Users \ (hasty \cup silent) :
        \/ x = y \/ local[x] = None \/ <<x, y>> \in stale
        \/ shown[x][y] = Participants(local[x])[y]

(* A client whose user never clicked twice at once, and whose socket is    *)
(* there, is in the channel the server has it in, and unless it went from  *)
(* one channel straight to another its flag is the one in the table.  A    *)
(* request that fails parts them: the client leaves although the server    *)
(* does not, and the row stays; so does the old row when a join fails      *)
(* early, and the new one when its answer is lost.  They part until the    *)
(* next request of the user goes through, and no longer.                   *)
PlaceAgrees ==
    Quiet => \A u \in online \ (hasty \cup failed) :
        /\ local[u] = row[u]
        /\ local[u] # None /\ u \notin silent => mine[u] = flag[u]
=============================================================================
