# Miscord: TLA+ models, model checking and proofs

Miscord is a self-hosted, Discord-like chat: an Axum server over PostgreSQL with
a WebSocket for real-time events and an SFU for video, and an egui desktop
client. This directory holds TLA+ models of the parts whose correctness depends
on the order in which things happen, the TLC configurations that check them on
small instances, and proofs, checked by TLAPS, of what holds for every instance.

Paths are relative to `src/crates/` unless they start with `src/`. `PROJECT.json`
maps each modelled definition to the lines it stands for and lists components,
runs, mutants (one plausible bug per property, which TLC must catch), hazards,
findings and theorems.

## 1. Inventory

### The server (`miscord-server`)

| component | state | operations | talks to |
|---|---|---|---|
| Connection manager (`ws/connections.rs`) | five maps under five `RwLock`s: `senders`, `connection_info`, `user_connections`, `channel_subscribers`, `thread_subscribers` | add, remove, subscribe, unsubscribe, broadcast to a channel, a thread or a user, `is_user_online` | every WebSocket task, every HTTP handler that broadcasts |
| WebSocket task (`ws/handler.rs`, `handle_socket`) | user and connection id; `users.status` and `voice_states` through the services | authenticate, register, message loop, cleanup | manager, SFU, services |
| Thread replies (`services/message.rs`, `api/messages.rs`) | `messages.thread_parent_id`, `reply_count`, `last_reply_at` | create a reply, delete a message, list a thread | database, manager |
| Messages, reactions, pins (same files) | `messages`, `message_reactions` | create, edit, delete, react, pin, list by page, search | database, attachments, manager |
| Voice states (`services/channel.rs`, `api/channels.rs`) | `voice_states`, one row per user | join, leave, update, list | database, manager, WebSocket cleanup |
| SFU sessions (`sfu/session.rs`, the `handle_sfu_*` functions) | sessions by channel; in each, peer connections, track routers and screen subscriptions by user | offer, answer, candidate, incoming track, subscribe, unsubscribe | WebRTC library, manager |
| Track router (`sfu/track_router.rs`) | subscribers, `active` | forwarding loop, add and remove subscriber, stop | WebRTC library |
| Channels, DMs, communities, invites | one table each | create, join by invite, get-or-create DM, positions | database |
| Users and authentication | `users` | register, log in, update | database |
| Attachments | a file and a row | upload, link, read, delete | file system, database |
| Link previews, GIF search, start-up | none | proxies, routing | external services |

### The client (`miscord-client`)

| component | state | operations | talks to |
|---|---|---|---|
| Application state (`state/app_state.rs`) | one `RwLock` over message lists, thread lists, reactions, typing, voice participants, SFU slots | the setters the socket reader and the UI call | everything in the client |
| Network (`network/*`) | a queue of 100 outgoing messages, a reader task, an HTTP client | connect, subscribe, requests | server |
| UI (`ui/*`) | selected channel, open thread, `subscribed_thread`, one message box, popups and pickers with an index each, the screen share | open, close, select, send, edit, join voice, share; each click spawns a task | state, network, SFU client |
| SFU client (`media/sfu_client.rs`) | peer connection, `handled_tracks`, `remote_frames`, local tracks | connect, answer, renegotiation, poll for tracks, screen share, send a frame | WebRTC library, state slots |
| Media (`media/*`) | encoder, depayloader, audio player with its position threads and `generation`, VAD holdover | capture, encode, put fragments together, play, seek | devices |
| Settings (`state/settings.rs`, `ui/settings.rs`) | files, device tests, the detector of a call | load, test, save | file system, devices |

`miscord-protocol` is data types; `miscord-media` wraps codec libraries.

### What is hard, and what would make each part correct

* **The connection manager** never holds two locks except in a broadcast, so a
  connection is spread over five maps that are changed one at a time while other
  connections and broadcasts run. Correct means: the maps agree but for the
  write in flight; nothing leaks after a disconnect; what was acknowledged is
  honoured; a broadcast reaches the members of one instant, once each; locks are
  never waited for in a circle.
* **Presence** is a check followed, after an await, by a write. Correct means:
  somebody who is gone is shown offline, somebody who is connected is shown
  online. The second does not hold.
* **Thread replies** keep a cached count in a row of its own, maintained by
  statements outside any transaction. Correct means: the count is the number of
  replies (it is not always), is off only by requests that did not finish, and
  what is announced is what the database holds.
* **Voice** replaces a row by delete and insert and announces afterwards; the
  disconnect path deletes the row and announces nothing.
* **The SFU** checks for a router and stores it some awaits later; on_track and
  polls of up to fifty rounds race; peer connections are never removed, because
  `remove_user` has no caller; answers carry no channel id.
* **The client** mixes HTTP snapshots with a socket stream without sequence
  numbers, and spawns a task for every click. Its state is one fair `RwLock`
  that the UI thread takes with `block_on` in the middle of a frame, once while
  it holds it already. Correct means: settled lists show what the tables have,
  each entry once; nobody but that nested read can block the window for good;
  overlapping selections do not leave a channel of one community under another.
* **What a widget keeps over frames** is an index, a draft or a flag, while the
  list, the channel or the call under it changes: one message box for all
  channels, popups that use `selected` as it is, a picker that outlives its call,
  a device test that copies the settings.
* **Threads and packets**: a seek ends the old position thread by a generation
  it may already have looked at; fragments of a video frame are put together
  without sequence numbers while packets get lost.
* **Records** (DMs, positions, invites, default channels) check, then insert,
  without a transaction; **attachments** are a file and a row, written and
  removed one after the other.

The full list, at the lines where each bites and with the properties that cover
it, is `hazards` in `PROJECT.json`.

## 2. The modules

| module | what it is |
|---|---|
| `PubSub` | the abstract promise of the real-time side: membership, publication, one delivery per member |
| `Connections` | manager, WebSocket task, broadcasts, presence, restart; implements `PubSub` |
| `ConnectionsProofs` | TLAPS proofs about it |
| `Threads` | creation and deletion of thread replies, statement by statement |
| `ThreadsProofs` | TLAPS proofs about it, and that it implements `ThreadFeed` |
| `ThreadFeed` | the abstract promise of the thread requests: a reply is stored, then announced; a removal is announced once, afterwards |
| `ThreadPanel` | a client's thread panel as a reader of `ThreadFeed`: UI frames, spawned tasks, queue, page, socket |
| `ThreadPanelProofs` | TLAPS proofs about it |
| `SfuRouting` | one voice channel's SFU session: joins, track handlers, polls, routers, screen subscriptions |
| `SfuRoutingProofs` | TLAPS proofs about it |
| `SfuSignalling` | offers and answers between one client and the sessions it was ever in |
| `SfuSignallingProofs` | TLAPS proofs about it |
| `Voice` | the voice rows, the requests about them, and every client's list of participants |
| `ChannelFeed` | the messages of a channel, the requests that change them, and a client's list with its pages |
| `Records`, `Uploads` | communities, invites and direct channels; attachments: statement by statement, stopping half-way |
| `ServerProofs` | TLAPS proofs about `Uploads`, `Records`, `Voice` and `ChannelFeed` |
| `ClientState` | the lock of the client's state and what is marked and fetched under it |
| `Navigation`, `Compose`, `Mentions`, `Pickers`, `GifPicker`, `Settings` | selections, the message box, and what widgets keep over frames |
| `ScreenShare`, `RemoteTracks`, `VideoStream`, `AudioPlayer` | sharing, the tracks received, one video track from frame to decoder, the audio player |
| `ClientProofs` | TLAPS proofs about `ClientState` and the modules of the two lines above |
| `MCParts` | the components that share no state, in one run |
| `PartsProofs` | TLAPS proofs of the properties of that run |
| `MCConnections`, `MCThreads`, `MCThreadPanel`, `MCSfuRouting`, `MCSfuSignalling`, `MCChannelFeed` | symmetry for TLC; constants are in the `.cfg` files |

Many modules have a *history* variable (`odd`, `raced`, `missed`, `rivals`,
`hasty`, `late`, `stale`, `superseded`, `crossed`, ...). It does not restrict a
step. It records which of the races the code leaves open has happened, so that a
property can say: what is promised holds, except after exactly this. A property
with such an exception has two halves: nothing else breaks the promise, and the
exception is where a change of the code would have to begin.

### Connections

One action is one write under one lock, or one database statement; that is what
other tasks can observe, since each guard in `connections.rs` is dropped before
the next await. `pc[c]` says where the task of connection `c` stands, and each
action is named after the statement: `AddSender`, `AddInfo` and `AddUser` are
the three locks of `add_connection`, `RemoveInfo`, `RemoveUser`, `RemoveTopic`
and `RemoveSender` those of `remove_connection`; the subscribe and unsubscribe
functions have two each. `Authenticate` is the successful handshake (a failed
one returns before the manager hears of the connection). `SetOnline`,
`CheckOnline`, `SetOffline`, `LeaveVoice` are the database side of
`handle_socket`; a failing status update is logged and the task goes on, which
`UpdateStatus` models. `Restart` forgets the memory and keeps the database:
nothing at startup repairs `users.status` or `voice_states`.

A broadcast is the exception to one lock at a time. It takes the index lock
(`LockIndex`), then the lock of `senders` (`LockSenders`), both for reading,
sends to each receiver in any order (`Send`) and drops both (`Unlock`).
`ReadLocked` and `SendersLocked` keep writers out meanwhile. A client message
that is itself a broadcast (typing, the `Rtc*` relays) occupies its task until
the broadcast is over (`Relay`).

Two maps with the same code, channels and threads, are one function
`subscribers` over topics with a lock per kind (`IndexOf`). Message contents,
the ping arms, the `Sfu*` arms and the task that drains a connection's channel
into its socket are left out; `outbox` is what was put on that channel. So is
the queue of tokio's `RwLock`: the model lets any waiting writer go first and
also lets new readers in while one waits, so it has every order the real queue
allows and more; the safety results carry over, and for liveness see section 4.

### Threads

One action is one SQL statement or one broadcast. A reply's request is
`CreateReply`, `InsertReply`, `CountReply`, `RereadParent`, `TellThread`,
`TellCount`; a deletion is `DeleteMessage`, `DeleteRow`, `DiscountReply`,
`TellDeleted`, `RereadParent`, `TellCount`. `Cascade` is the foreign key's
ON DELETE CASCADE. The two lookups before the DELETE are one step: nothing they
read changes, and the DELETE asks again. `Stop` ends a request between two
steps: an error returned by `?`, a handler dropped with its connection, or a
crash; nothing is rolled back because nothing was in a transaction. `wire` is
the sequence of events the thread's and the channel's subscribers are sent; how
an event travels is `Connections`. Authors, contents and `last_reply_at` are
left out; a reply to a reply is left out because no client opens a thread on
one. `clamped` is history: it records that GREATEST(reply_count - 1, 0) met a
zero.

### ThreadFeed and ThreadPanel

`ThreadFeed` is what a client may rely on: rows, the parent of each stored
reply, how far the *news* of a reply has come, how often each removal was
announced. `Threads` implements it (`ImplementsFeed`): a reply's news is read
off its request and what is on `wire`. The panel is composed with the feed and
not with the statements: its module EXTENDS `ThreadFeed`, adds the route of the
news to one connection, and stays small enough to check.

The server's side of that route is `thread_subscribers` (which threads this
connection is in; how the two lock sections behave is `Connections`), `socket`
(what was sent to it, in order) and the two statements of `get_thread`
(`FindParent`, `ReadReplies`), between which anything may happen. The client's
side is one UI thread and many tasks. `Frame` is one drawing of the panel: it
compares `subscribed_thread` with `open_thread`, spawns the unsubscription and
the load, and, if the close button was clicked in that frame, what `cleanup` and
`close_thread` spawn. A click on a message spawns `open_thread`. A load goes from
`SendSubscribe` (which waits for room in the queue) over the GET to
`SetReplies` or `LoadFails`. Tasks are a bag, since two equal tasks are
interchangeable and any one may run next. `Read` takes the next event off the
socket: a reply is pushed to the list of its thread, whatever is open.

A list is a count per reply, so a reply shown twice is told apart from one shown
once; the order in the list is not. `failed` and `raced` are history. `raced`
collects the replies that met a (un)subscription: stored or on the socket while
the panel was neither settled on the thread nor away from it, or left off a full
page. Left out: changes of channel, a socket that dies, users in voice (who are
drawn no panel, which is a late frame), edits and reactions in the panel. A
deleted reply stays in the panel while the thread is open: the client handles
`MessageDeleted` for the channel's list only, which `Read` follows.

### SfuRouting

A user's WebSocket task takes one message at a time (`at[u]`): an offer is
accepted from somebody new (`AcceptNew`) or again (`AcceptAgain`, which leaves a
poll behind); the join reads the list of publishers (`ReadPublishers`), then one
publisher's routers at a time (`TakeRouters`). `Check`, `ListUsers`, `Serve` and
`Store` are the stretches between two awaits of `handle_incoming_track`: it looks
for a router, takes the list of users, serves each, and only then stores the
router; `missed` and `rivals` record what happened between. A poll is a number
of rounds over the tracks of a user, each followed by a sleep. Nobody is removed
from a session: `remove_user` and `remove_session` have no caller.

### SfuSignalling

A peer connection is its signalling state and the number of the local offer it
waits for. The client's frames (`TakeAnswer`, `TakeRenegotiate`, `PutBack`,
`Renegotiate`, `AnswerBack`) empty the two slots that the reader (`Read`) fills,
each holding the last message only. A screen share task has a clone of the
client it was spawned for. When the view connects to another channel it replaces
its client without closing it (`Connect`), and when the user leaves it drops it
(`Cleanup`): the tasks under way are then `strays`, which go on with the old
connection (`OfferStray`) and send their offer for whatever voice channel the
state has at that moment (`SendShare`), or not at all (`unsent`). The answer to
such an offer comes to the new client's slot like any other. On the server the
WebSocket task answers offers, and any task that has a track for the user pushes
an offer of its own (`Push`) whatever the state. Answers name neither offer nor
channel: `TakeSfuAnswer` sets it on some session that has the user. What the
library accepts in which state is external.

### Voice and ChannelFeed

Both have a table changed by statements, broadcasts after the statements, a
client that fetches a snapshot and subscribes in some order, and a socket that
brings the broadcasts; `Quiet` is the state in which nothing is under way. In
`Voice` every click (join, leave, toggle) is a task with a label per statement,
broadcast and local write; a disconnect deletes the row and tells nobody
(`silent`). The tasks in `Failing` may fail at any request (`JoinFails`,
`LeaveFails`, `UpdateFails`, `FetchFails`): a join goes back out of the channel
on the client, the error of a leave is dropped, and a failed fetch leaves the
list with what the events bring. In `ChannelFeed` a load fetches the newest page
and reads it into the list (`StorePage`), later events patch it, and an older
page is appended at the end when the user scrolls to the top. A request in
`Failing` may end between its statement and its broadcast (`Untold`): then the
change is stored and nobody hears of it, so its message counts as raced about.

### The records on the server

`Records` and `Uploads` number their requests in the order they come and run
them statement by statement. `Stop` ends any of them between two statements. The
constraints of the schema (primary keys, foreign keys, cascades) are part of the
statements. An attachment's file is written through a tokio `File` that nobody
flushes or syncs: the row may be inserted while the last block is still on its
way (`disk = "last"`), and `LastBlock` writes it or, unnoticed, does not (`torn`).
A message whose attachments cannot be read back is announced without them
(`unread`).

### The client's own parts

* `ClientState`: tokio's lock as a queue of requests and the guards held.
  `AskTyping` is `get_typing_users` under the guard of the frame; `Apply` is any
  method of the state, under one guard.
* `Navigation`: `select_community`, `select_channel`, the quick switcher, search
  and the restored selection are tasks of several steps (`next`) over the same
  two fields.
* `Compose`: a frame reads the selected channel twice; the draft of the channel
  that was left is saved by a task. A text is known by what it was typed for.
* `Mentions`, `Pickers`, `GifPicker`: an index or a flag over frames, a list that
  changes, and Enter.
* `Settings`: where a setting is copied to and which line brings the copy up to
  date. A sound device is a name, a camera the number it has in the list; which
  camera that is, then and later, is the system's affair, and nothing is claimed
  of it. Saving and loading may fail, and are only logged (`apart`).
* `ScreenShare`: what the user wants, the picker, the capture, the client's flag
  and the server's, which a frame brings together in parts. A join may come from
  another channel, and brings a row that shares nothing (`"switched"`); joins and
  leaves may fail (`"lost"`), and the client goes out all the same.
* `RemoteTracks`: the poll after a renegotiation, `handled_tracks`, the handlers
  and the frames they leave; a handler that can make no decoder returns, and the
  track's mark stays (`blind`).
* `VideoStream`: one task per frame, the encoder's latest sample, FU-A fragments
  (start, middle, end), samples written packet by packet at the same time, a wire
  that loses and reorders, the router's wait for a first packet, and the
  depayloader's buffer. `came` and `gone` record what reached the depayloader and
  what did not.
* `AudioPlayer`: a position thread is its next look (`generation`, `flag`,
  `store`, `sleep`); play, seek, pause and stop act between two of them. `Length`
  is the duration as the code estimates it, which ends the thread; when the sound
  itself ends is not modelled, since nothing in the code looks at it. A seek may
  fail after it has changed the generation (`SeekFails`).

## 3. The runs

All configurations say `CHECK_DEADLOCK FALSE`: connection ids, messages, clicks
and requests are used once in a behaviour, so a run ends when they are used up;
the deadlocks the code could have are the subject of the liveness properties and
of `OnlyItselfBlocks`. Symmetry is used for safety only; ids are compared for
equality and nothing else.

| run | instance | shows |
|---|---|---|
| `conn_presence` | one user, three connections, a channel, a thread, one fault | `IndexesAgree`, `OfflineWhenGone`, types |
| `conn_pubsub` | two users, two connections, a channel, two broadcasts | `AckHonoured`, `PrivateMail`, `PublisherOrder`, and that `Connections` implements `PubSub` |
| `conn_live` | one user, two connections, a channel, one broadcast, voice, fairness | `CleanupCompletes`, `BroadcastCompletes` |
| `conn_offline_race` | one user, two connections | violates `OnlineWhenConnected` |
| `threads` | one parent, two replies, two deletions (of replies or the parent), one stop | `CountAccounted`, `AnnouncedOrGone`, `TrueCountTold`, types, and that `Threads` implements `ThreadFeed` |
| `threads_count` | one parent, one reply, one deletion | violates `CountIsCached` |
| `panel` | two threads, one reply, page and queue of one, four clicks or frames, one thread deletable | `ShownOnce`, types |
| `panel_race` | one thread, one reply, two clicks or frames | violates `ShowsEveryReply` |
| `sfu_routing` | three users, two track handlers, one poll of two rounds, three offers | `Reached`, `RoutersUnique`, `WatchersAgree`, `PollsFindTracks`, types |
| `sfu_signalling` | two channels, one screen share, four offers, fairness | `AnswersMatch`, `ClientOfferSettles`, `ServerOfferSettles` |
| `parts` | seventeen small instances, one after the other (constants in `MCParts`) | one property for each component that shares no state with another, types |
| `feed_history` | three messages, pages of two, two requests, two loads, one older page | violates `OlderPagesAreOlder` |

Why these bounds. Overlap is between tasks of one user, and three connections
are one that leaves, one that checks and one that comes. A race of two
broadcasts over one index needs two messages and two receivers. The temporal
run leaves a second broadcast and the fault out to stay small; circular waiting
already needs no more than one holder of two locks and writers of both. For
threads, two creations and two deletions give every pair of overlapping
requests, two deletions of one message, and deletion of the parent under both.
For the panel, four clicks or frames are enough to open a thread, switch to the
other, come back and close, with two loads and their unsubscriptions in flight
at once; a queue of one makes tasks wait for each other. One reply is enough for
a property that speaks of one reply at a time; pages that overflow need a second
one, and `SettledPanelShowsOnce` covers them for every instance.

In `sfu_routing`, two handlers are what it takes to race for one router, and the
third user is the one who joins meanwhile; two rounds are a poll's round and its
last. In `sfu_signalling`, two channels are two sessions of one user, and four
offers are enough for one of each side to cross, to be superseded and to be
replaced in a slot, and for one of a stray task. In `parts`, `MCParts` gives
every component two or three of whatever overlaps (users, requests, loads,
tasks, files), which is each pair of overlapping operations, and a third where a
race needs a bystander; `Voice` is there twice (two users in one channel; one
user between two) and `ChannelFeed` twice (an older page; a second load), since
either alone is small and both together are not. `VideoStream` has two frames of
up to three fragments, each lost, late or among the other's; `Uploads` has two
files, four requests and one message, which is enough to upload, send, delete
and download one file while the other is in between. Failures are bounded by a
set of tasks (`Failing`) or by a number (`MaxRefusals`, `MaxLosses`); each may
fail at any of its steps. The initial state chooses the part (`part`), so the
run is the union of their state spaces and a part's property is checked on its
states. Every action of each part fires there, and each property has a mutant in
it.

The safety results proved for every instance (section 5) were found by these
runs first; they keep the models from being vacuous: every action fires, and
each property is broken by a mutant of the definitions it is about.

### Findings

* **A connected user shown offline** (`ws/handler.rs:163`). The cleanup of one
  connection asks `is_user_online`, is told no, and writes Offline after the
  lock is gone; a reconnect in between has already written Online. The user
  stays offline until the next connection. This contradicts the comment "Update
  user status to offline (if no other connections)".
* **A reply count that is wrong for good** (`services/message.rs:192`). A reply
  is deleted after its INSERT and before the UPDATE that counts it: the decrement
  is clamped at zero, the increment follows, and a thread without replies says
  one. `src/THREADS_PLAN.md` and the migration call the column the cached count
  of thread replies. `CountAccounted` says how wrong it can get: by the requests
  that did not finish, and upwards only after a clamp.
* **An older page that is not older** (`ui/chat.rs:1136`). Scrolled to its top,
  the list asks for messages before `messages.first()`, under the comment "Get
  the oldest message ID (first in the list since we store DESC)". The server
  answers `ORDER BY created_at DESC` and the list keeps that order, so the first
  is the newest: the page that comes holds messages the list has, they are
  appended again, and what is older than the first page is never fetched.
* **A reply the open panel never shows** (`ui/thread_panel.rs:120`). The load
  queues its subscription and fetches the page at once; nothing waits for the
  server to take the subscription. A reply stored after the page was read and
  announced before that is in neither, and stays missing while the thread is
  open: that is the trace of the run, whose property asks of a settled panel that
  it shows every reply at least once. `src/THREADS_PLAN.md` calls threads fully
  implemented with real-time updates. The mirror image, a reply in both and shown
  twice, is the other reason for `raced` in `ShownOnce`.

Met on the way, and too small for a run: `ui/main_view.rs:196` says "Try selected
output device, fall back to default", and there is no fall back; `ui/chat.rs:542`
cuts a file name at byte 17, which need not be the end of a character.

The exceptions the properties name are also what the code leaves open: a second
router of a track when two handlers overlap (`rivals`), a client and a server
that both wait after a refused offer (`refused`), an answer set on the wrong
session (`Cardinality(Sessions) > 1`) or on the offer of a newer connection
(`superseded`), a user shown in voice whose row is gone (`silent`), a client out
of a channel the server still has it in (`failed` in `Voice`, `"lost"` in
`ScreenShare`), a message stored and never announced (`raced` by `Untold`), a
track nobody decodes (`blind`), an attachment whose file is not whole (`torn`),
two DM channels of one pair (`"dm" \in odd`), an index past a list that has
become shorter (`slipped`), and so on; each module says where.

## 4. Fairness

`conn_live` assumes weak fairness of each task's own steps and of each
broadcast's steps: tokio keeps polling a runnable task, and none of these steps
waits for the client (a send on an unbounded channel does not block). Nothing is
assumed of clients: no connection has to subscribe, send or close. A lock is
assumed to be had when it is continuously free. With finitely many broadcasts a
reader's release is never followed by new readers for ever; in the code the
write-preferring queue of the lock gives the same without that bound, and it
cannot add a circle: an index lock is always taken before `senders`, and writers
hold one lock only.

`sfu_signalling` checks `FairSpec`: frames are drawn all the time and each looks
at both slots, so taking from a slot has strong fairness (a reconnect empties
the connection in between, and the slot is looked at again); what a frame has in
hand it brings to an end in that frame, the reader and the WebSocket task take
what is on the socket, ICE gathering ends, and a screen share task goes on, all
weakly fair. Nothing is assumed of users (`Connect`, `Disconnect`, `StartShare`)
or of what tracks others publish (`Push`). Which session an answer goes to is
left open. `ClientOfferSettles` and `ServerOfferSettles` hold with that, but for
offers that were refused or, as the user was in no channel, not sent (`unsent`).

## 5. What is proved

Proved by TLAPS for every finite or infinite choice of the sets of ids (in
`Threads`, finite sets of requests; in `ThreadPanel`, of replies) under the
assumptions named in the modules: `IdsAssumption`, `VoiceUsersAssumption`,
`MaxFaultsAssumption`, `SetsAssumption`, `MaxStopsAssumption`,
`PanelAssumption`, `SfuAssumption`, `SignallingAssumption`. They say that ids of
different kinds differ and bounds are numbers.

The components of `MCParts` share no state, and their theorems are in two
modules that instantiate each of them once, for constants of their own:
`ClientProofs` and `ServerProofs` (`PartsProofs` has `ServerProofs` twice, for
the two sizes at which `Voice` and `ChannelFeed` are run). There a theorem
carries its assumption with it (`StateAssumption`, `ComposeAssumption`, ...):
bounds are numbers, `None` is none of the values it stands beside, a click is a
user's, the UI thread is not one of the tasks, and a word such as "no" or "free"
is not the name of a message. `PartsProofs` then instantiates the two with the
values of `MCParts`, shows that the assumptions hold there (from `ValuesApart`,
which TLC evaluates in run `parts`), and that a behaviour of `PartsSpec` in
which it is a component's turn is a behaviour of that component's own
specification (`ComposeRuns`, ...). The properties of run `parts` follow from
that, as theorems about the very definitions TLC checks.

### Connections

* `IndexInvariance`: `IndexInv`, the conjunction of types, `TaskInv` (which
  arguments and owners a task may have at each label), `IndexesAgree` and
  `AckHonoured`, is inductive. `IndexesAgree` alone is not: `RemoveTopic` needs
  to know that the info a leaving task holds lists all its index entries, which
  the last conjunct and `TaskInv` say. `TypeCorrect`, `IndexesAlwaysAgree` and
  `AckAlwaysHonoured` follow.
* `NoGhosts` (`OfflineWhenGone`): for every user shown online whose write was
  not lost, some connection *answers*: it is about to be counted, is counted, or
  is on its way to the Offline write. A task that finds somebody else online
  hands the duty to that connection, and `IndexesAgree` makes sure it exists.
* `MailIsPrivate` and `EndedBroadcastsSendNothing`: an invariant of broadcasts
  (what is pending is a subset of the locked index, an ended broadcast owes
  nothing) on top of `IndexInv`.
* `Refinement`: with members the index restricted to `senders`, a message
  published when both locks are held, and owed what the loop has left, every
  step is a `PubSub` step or a stutter. The read locks are what makes `Leave`
  legal: a removal waits for the broadcasts that hold the index.

### Threads

* `ShapeInvariance` and `TypeCorrect`: types and the *shape* of a request, that
  is which message it is about at each label. `TypeCorrect` includes that
  `reply_count` is never negative.
* `CountAlwaysAccounted`: each row and the request that must still count it
  enter and leave their sets together; the clamp only ever adds to the stored
  side. The cardinality facts come from the library's finite-set theorems.
* `RepliesAreAnnounced`: strengthened by `ToldInv`, that a reply in the table
  has its parent there and has been announced once its request is past that
  step. Giving up on a missing parent is harmless because of the cascade.
* `TheTrueCountIsTold`: strengthened by `CountInv`: a thread with a request has
  been told its present count, or some request is still to read it, or has read
  this value and is still to tell it. Whoever changes the count goes on to read
  it, so that is inductive.

* `Refinement`: every step of `Threads` is one of
  `ThreadFeed` or a stutter. It needs that a reply is announced at most once and
  only past its INSERT (`AnnouncedInv`), and that a removal is announced at most
  once, by the deletion whose DELETE took the row (`RemovalInv`), which is what
  `rows_affected` is for.

### ThreadPanel

* `PanelTypeCorrect`: types, the bound of the queue, and the shape of a task
  (a load is the only task with stages).
* `SettledPanelShowsOnce` (`ShownOnce`), for any number of threads, replies,
  clicks and tasks. The inductive invariant `PanelInv` adds four things.
  `SocketInv`: a reply is on the socket at most once, and only announced ones.
  `FreshInv`: the client has never heard of a reply that was not stored.
  `KeptInv`, for a reply that has not raced: while the panel is settled on its
  thread, it is in the list once or still on its way; while the thread is
  *between*, every page about to be shown has it, and a thread that is shown has
  it in its list, or has a load under way, or its last load failed. `RaceInv`:
  what meets a subscription now is in `raced`. Stale pages are harmless because
  a page of a thread makes the thread *between* until it is set, and because
  `SetReplies` writes to the list of the thread that was asked for. The proof
  takes from `created_at` no more than that it is a number.

### SfuRouting

* `ShapeInvariance` and `TypeCorrect`: types, and what a WebSocket task, a
  handler or a poll holds at each of its stages.
* `NoDoubleRouters` (`RoutersUnique`), by `UniqueInv`: two handlers of one track
  that have started, wherever each is now, are rivals. A handler starts only when
  no router of its track is stored, and becomes a rival of those at work; one
  that looks later finds the router.
* `ScreensGoToWatchers` (`WatchersAgree`), by `SilentInv`: a handler that has not
  started, or one of a screen that is not stored yet, feeds nobody. So storing
  makes the subscribers, and a later subscription changes both sides at once.
* `PollsFind` (`PollsFindTracks`), by `FoundInv`: a track the poll has looked at
  and not left in `sweep` has a router, and a poll that is over has a router of
  the screen or no rounds left; routers do not go. `PollInv` and `WaitInv` say
  which handler a poll is waiting for.
* `EverybodyIsReached` (`Reached`): the handler's loop goes over the users it
  listed, the newcomer's over the routers stored. `ServedInv`: who is in the
  handler's `audience` is still in its `todo` or is fed. `JoinInv`: a user past
  reading the publishers who is not in the audience and was not `missed` (between
  list and store when he looked) still owes the publisher its offer, or is fed.
  `TaskInv` says what each task holds at each stage.

### SfuSignalling

* `AnswersMeetTheirOffers` (`AnswersMatch`). An offer of the client is on one
  way (share task, socket, WebSocket task, answer on the socket, slot) and one
  of the server on another (socket, slot, frame's hand, answer); each offer is
  at one place of its way at most (`ClientOnce`, `ServerOnce`), and as long as it
  is there it is the outstanding offer or superseded (`ClientLive`,
  `ServerLive`). So a settled or replaced offer never comes back, whatever the
  slots lose. New numbers are new on both ways (`FreshInv`). The offer of a stray
  task is superseded from the start, and a task that becomes a stray takes an
  offer with it that the connection's end has superseded; so the answer to
  either, set on the offer of the connection that came after, is one the property
  excepts, and no other comes with it.

### ClientState

* `OnlyTheFrameBlocks` (`OnlyItselfBlocks`): a task waits without a guard, the
  UI thread holds guards for reading only and asks for a second one in one place
  (`LockInv`, with the queue's order in `QueueInv`). A circle is therefore the
  frame's own guard, its second request, and a writer between them.
* `ImagesFetchedOnce` (`FetchedOnce`): a mark never goes back to unknown.

### The message box, selections and widgets

* `ComposeSound` (`ComposeAgrees`). `TasksInv`: what a spawned task will save is
  of its channel, and unless the channel has raced it is what the box had when
  the channel was left. Without it nothing is known of a draft between the
  frame that leaves a channel and the task that saves.
* `NavigationSound` (`NavigationAgrees`). What a task is to select goes together
  whatever the others do (`TaskFits`); while selections have not crossed there is
  one at a time, and the state is as far as it has come (`StageFits`). `Served`:
  the channel shown is in the stream, or some task is still to subscribe to it.
* `PickersSound`, `GifsSound`, `MentionsSound`, `SettingsSound`: what a widget
  keeps over frames, and what of the settings is copied (a failed save or load
  parts the file from them until the next that succeeds). The GIF picker's is
  stated in sets (`GifInv`: the request is the one for the last query, or the
  slot has its answer), from which the counting of `GifsAgree` follows; that of
  the mention popup adds that the index is in the list of the text in the box,
  not only when it is used.

### Screen, tracks, video and audio

* `SharingSound` (`SharingAgrees`). As long as nothing unusual happened, one task
  at most is under way (`OneMain`); where client and server differ it is that
  task's next statement that makes them agree (`Known`, `ShareTask`); what is
  captured and not shared is about to be (`Captured`). A failed join or leave, and
  a change of channel while sharing, are unusual until the statement that mends
  them, at which the invariant is shown to hold again.
* `TracksSound` (`TracksDecoded`): a track that was come past is marked, or the
  poll that came past it is at it; a mark is a decoder, a track that is over, or
  one of `blind`.
* `SamplesSound` (`SamplesSurvive`). Nothing is assumed of the wire, so the
  invariant is about the depayloader alone. `Buffering`: the buffer is what came
  from the last start on, if only middles came after it, and is empty otherwise.
  What an end hands on is therefore one stretch of what came, whole exactly when
  its three fragments came in a row. `Counted` (a frame is encoded once at most)
  is for the types.
* `PlayerSound` (`PlayerAgrees`). Generations count the seeks and start with the
  state (`Generations`), so a new state's first thread is its only one of that
  generation; with that and the types `PlayerAgrees` is inductive: whoever ends
  the thread that is to see the end has stopped the state, or put a newer thread
  in its place, or is among the exceptions.

### Uploads and Records

* `UploadsAlwaysAgree` (`UploadsAgree`). An upload and a send have their file and
  message to themselves (`OwnInv`), and only what has been uploaded is sent,
  deleted or downloaded (`KindInv`), so nobody meets a file before its row. A
  row whose file is neither whole nor waiting for its last block then has a
  deletion about to drop it, one that stopped, or a last block that could not be
  written (`FileInv`); and as long as nothing was removed no deletion is past its
  look, the files of what was uploaded are there (`FilesWhole`), sends are linked
  to their rows, and no row is linked otherwise (`WholeInv`). `ToldInv`: what was
  announced was announced by a send that is over, so a send that could not read
  its attachments leaves its message announced with none.
* `RecordsSound` (`RecordsAgree`). `Founding`: one request founds the community,
  and nobody is a member before its owner. `Creating`: what the community lacks,
  that request is still to insert. `Joined`: the invite has counted every member
  but those whose request is about to count, as cardinalities of the two sets.
  `Placing`: a position that was read is above every channel and one request at
  most holds one. `Directs`: one request at most is between its look and its
  row for a pair, and a channel without a row is that request's. `Joined`
  also bounds the counter by the requests that are over, for its type.

### Voice and ChannelFeed

* `VoiceSound` (`PlaceAgrees`, `ViewsAgree`), for any channels, users and clicks.
  A user who has not clicked too soon has one unfinished task (`Single`), and
  `PlaceInv` says, for each label of that task, where the client and the table
  have the user and with which flag; at rest that is `PlaceAgrees`. `EventInv`
  is about every socket: of the events about a user and a channel, the last
  *joined* or *left* says how it is unless more is to be announced, an update
  after it is about somebody who is there, and the last of all has the flag.
  `ViewInv` is about what a client shows: whom it shows is there, or leaving,
  or a *left* is still to be read; who is there is shown, or is still to be
  fetched, filled in or read; and the flag is right as soon as nothing is to be
  read. The invariant is kept by a disconnect because its user is `silent` then,
  and by a failed request because its user is `failed` or `late` then; what others
  are shown still follows the table (`ViewInv` does not except `failed`).
  The proof had two effects on the model. A third exception of `ViewsAgree` (the
  client's place differs from the table's) turned out to be implied by the
  others and is gone. And a client takes a `VoiceStateUpdate` of whatever
  channel for the entry it shows (`websocket.rs`, 142-154), so a flag from the
  user's last channel can come after he has been met in the next one: `stale`
  now has that case too.
* `FeedSound` (`FeedAgrees`, `FeedOnce`), for any number of messages, requests,
  loads and older pages and any size of a page. `SoleInv`: the request on a
  message nobody raced about is the only one and announces what is stored (one
  that ends before that puts its message in `raced`).
  `MessagesInv` is per message: of the events that change its text, its pin, its
  reaction or its being there, the last says what is stored unless a request is
  still to announce it (`SaysOf`); the pages on their way are right about it
  (`Pages`), because a load that overlaps a request puts its message in `raced`
  (`LoadInv`); so what is shown is right as soon as nothing about it is to come
  (`Shows`, `Reacts`); and its creation is told first, and not shown before
  (`Comes`). `NewestInv`: a page reaches up to the newest message, and so does
  the list, which is the part of `FeedAgrees` that no message is left out.
  That part was stated too strongly before: a late older page can leave a gap
  above what it brings, so it speaks of messages newer than one that the newest
  page or an event brought (not `bare`). What a page has is counted with
  `Nth`, the i-th smallest of a set, by lemmas on cardinalities (`NthIs`,
  `PageIs`).

### The properties of run `parts`

All of them are theorems of `PartsProofs`: `TypesOK` (`Typing`, which collects
the components' type invariants in three groups), `ViewsAgree` (`Showing`),
`PlaceAgrees` (`Placing`), `FeedAgrees` (`Feeding`, with `FeedOnce`), and those
of the sections above.

### Model-checked only

The liveness properties (the prover has neither fairness nor ENABLED), and the
four violated ones, which are counterexamples.

## 6. Not modelled, and what is left

Out of reach, or without an order that could go wrong:

* The WebRTC library and PostgreSQL are external: modelled by what the code asks
  of them. ICE candidates, SDP, PLI and RTCP are passed on without state of
  their own; the codecs crate (`miscord-media`) wraps libraries and calls no
  code of this system.
* `remove_user` and `remove_session` of the SFU have no caller; the modules have
  what follows from that instead.
* Link previews and GIF search on the server are stateless proxies (what the
  client does with their answers is `ClientState` and `GifPicker`); protocol
  types are data.
* Typing users, unread counts, recents, folders, renames, icons, profiles, read
  marks and the session file are written by single statements or assignments.
* Layout, markdown, emoji, avatars, theme and the login form; the samples of
  audio and pixels of video, the smoothing of voice activity, file names and
  MIME types.
* The relay of the legacy `Rtc*` messages is a broadcast of `Connections`;
  tokens and password hashes are not modelled.

What could follow: `SfuRouting` composed with `SfuSignalling` for several users,
which is beyond the instances TLC finishes; an abstract relation of publishers to
subscribers that `SfuRouting` implements; the reconnection the client does not
have yet.
