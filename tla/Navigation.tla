----------------------------- MODULE Navigation -----------------------------
(***************************************************************************)
(* Finding one's way in the client: after the login, by the community and  *)
(* channel lists, the quick switcher and the message search (ui/app.rs,    *)
(* ui/main_view.rs, ui/community_list.rs, ui/channel_list.rs).             *)
(*                                                                         *)
(* Every selection is a spawned task of several steps: it selects a        *)
(* community, fetches its channels, selects a channel, fetches its page    *)
(* and subscribes.  Nothing orders two of them, nor the restored selection *)
(* and the task that connects the socket, and a subscription made while    *)
(* there is no socket is dropped.                                          *)
(*                                                                         *)
(* A community has one text channel, known by the community's name; Dm is  *)
(* a direct message channel, which has no community.                       *)
(***************************************************************************)
EXTENDS FiniteSets

CONSTANTS
    Communities,
    Dm,
    None,
    Clicks

Channels == Communities \cup {Dm}

CommunityOf(ch) == IF ch = Dm THEN None ELSE ch

VARIABLES
    known,       \* state.communities
    channels,    \* state.channels
    community,   \* state.current_community_id
    channel,     \* state.current_channel_id
    saved,       \* ui_state.current_community_id
    restored,    \* initial_restore_done
    socket,      \* ws_client is set
    stream,      \* channels whose subscription was sent, or found no socket and
                 \* was dropped
    connecting,  \* how far the login has come
    tasks,       \* click -> [kind, community, channel, next]
    crossed      \* history: a selection overlapped with another, or was found
                 \* by a search whose channel the client does not have, and none
                 \* has made it good since

vars == <<known, channels, community, channel, saved, restored, socket,
          stream, connecting, tasks, crossed>>

Tasks == Clicks \cup {"restore"}
Kinds == {"none", "restore", "community", "channel", "switch", "dm", "search"}
Steps == {"start", "community", "list", "choose", "channel", "page", "subscribe"}

Idle == [kind |-> "none", community |-> None, channel |-> None, next |-> "start"]

TypeOK ==
    /\ known \subseteq Communities
    /\ channels \subseteq Channels
    /\ community \in Communities \cup {None}
    /\ channel \in Channels \cup {None}
    /\ stream \subseteq Channels
    /\ saved \in Communities \cup {None}
    /\ {restored, socket, crossed} \subseteq BOOLEAN
    /\ connecting \in {"load", "connect", "again", "end"}
    /\ tasks \in [Tasks -> [kind : Kinds, community : Communities \cup {None},
                            channel : Channels \cup {None}, next : Steps]]

\* The user has logged in; an earlier session has left a selection.
Init ==
    /\ known = {}
    /\ channels = {}
    /\ community = None /\ channel = None
    /\ saved \in Communities \cup {None}
    /\ restored = FALSE
    /\ socket = FALSE
    /\ stream = {}
    /\ connecting = "load"
    /\ tasks = [t \in Tasks |-> Idle]
    /\ crossed = FALSE

-----------------------------------------------------------------------------
(* After the login.  Communities are loaded, then the main view is shown   *)
(* and a task connects, and loads them again.                              *)

Load ==
    /\ connecting = "load" /\ connecting' = "connect"
    /\ known' \in {Communities, {}}
    /\ UNCHANGED <<channels, community, channel, saved, restored, socket, stream, tasks, crossed>>

Connect ==
    /\ connecting = "connect"
    /\ socket' \in BOOLEAN
    /\ connecting' = IF socket' THEN "again" ELSE "end"
    /\ UNCHANGED <<known, channels, community, channel, saved, restored, stream, tasks, crossed>>

LoadAgain ==
    /\ connecting = "again" /\ connecting' = "end"
    /\ known' \in {Communities, known}
    /\ UNCHANGED <<channels, community, channel, saved, restored, socket, stream, tasks, crossed>>

Shown == connecting # "load"

-----------------------------------------------------------------------------
(* Selections.                                                             *)

Selecting(t) == tasks[t] # Idle
Quiet        == ~\E t \in Tasks : Selecting(t)
Alone(t)     == ~\E other \in Tasks \ {t} : Selecting(other)

Spawn(t, kind, c, ch, step) ==
    /\ Shown
    /\ tasks[t] = Idle
    /\ tasks' = [tasks EXCEPT ![t] = [kind |-> kind, community |-> c, channel |-> ch, next |-> step]]

Untouched == UNCHANGED <<known, channels, community, channel, socket,
                         stream, connecting>>

\* The first frame that has communities: the saved one, or any.
Restore ==
    /\ ~restored /\ known # {}
    /\ restored' = TRUE
    /\ \E c \in IF saved \in known THEN {saved} ELSE known :
          Spawn("restore", "restore", c, None, "community")
    /\ crossed' = (crossed \/ ~Quiet)
    /\ UNCHANGED saved
    /\ Untouched

ClickCommunity(t) ==
    /\ \E c \in known : Spawn(t, "community", c, None, "community")
    /\ crossed' = (crossed \/ ~Quiet)
    /\ UNCHANGED <<saved, restored>>
    /\ Untouched

\* The list shows the channels of the current community.
ClickChannel(t) ==
    /\ \E ch \in channels :
          /\ community # None /\ CommunityOf(ch) = community
          /\ Spawn(t, "channel", community, ch, "channel")
    /\ crossed' = (crossed \/ ~Quiet)
    /\ UNCHANGED <<saved, restored>>
    /\ Untouched

\* The switcher shows channels of known communities, and users.
ClickSwitcher(t) ==
    /\ \E ch \in channels \cup {Dm} :
          IF ch = Dm THEN Spawn(t, "dm", None, Dm, "start")
          ELSE ch \in known /\ Spawn(t, "switch", ch, ch, "start")
    /\ crossed' = (crossed \/ ~Quiet)
    /\ UNCHANGED <<saved, restored>>
    /\ Untouched

\* The search answers for every community; the client looks the channel's
\* community up among those it has.
ClickSearch(t) ==
    /\ \E ch \in Communities \cup {Dm} :
          LET c == IF ch \in channels THEN CommunityOf(ch) ELSE None IN
          /\ Spawn(t, "search", c, ch, "start")
          /\ crossed' = (crossed \/ ~Quiet \/ c # CommunityOf(ch))
    /\ UNCHANGED <<saved, restored>>
    /\ Untouched

\* Every frame notes a change of the selection, and saves it.  What is saved
\* after the restore is for the next session, of which Init takes any.
Frame ==
    /\ Shown /\ ~restored
    /\ channel # None
    /\ saved' = community
    /\ UNCHANGED <<restored, tasks, crossed>>
    /\ Untouched

-----------------------------------------------------------------------------
(* The steps of the tasks.                                                 *)

Is(t, kinds, step) == tasks[t].kind \in kinds /\ tasks[t].next = step

Goes(t, step) == tasks' = [tasks EXCEPT ![t].next = step]
Ends(t)       == tasks' = [tasks EXCEPT ![t] = Idle]

Kept == UNCHANGED <<saved, restored, connecting>>
Same == Kept /\ UNCHANGED crossed

\* Mutant of NeedsCommunity: the current community is taken to be the right one.
NeedsCommunityAny(t) == community = None

\* The switcher's and the search's first look.
NeedsCommunity(t) == community # tasks[t].community

StartSwitch(t) ==
    /\ Is(t, {"switch", "search"}, "start")
    /\ tasks[t].community # None
    /\ Goes(t, IF NeedsCommunity(t) THEN "community" ELSE "channel")
    /\ UNCHANGED <<known, channels, community, channel, socket, stream>>
    /\ Same

\* The channel of a direct message is found or made on the server.
StartDm(t) ==
    /\ Is(t, {"dm"}, "start")
    /\ \/ Goes(t, "community")
       \/ Ends(t)
    /\ UNCHANGED <<known, channels, community, channel, socket, stream>>
    /\ Same

\* A direct message has no community; the channel stays as it is.
ClearCommunity(t) ==
    /\ tasks[t].community = None
    /\ Is(t, {"dm"}, "community") \/ Is(t, {"search"}, "start")
    /\ community' = None
    /\ channels' = IF tasks[t].kind = "dm" THEN channels \cup {Dm} ELSE channels
    /\ Goes(t, "channel")
    /\ crossed' = (crossed /\ ~(Alone(t) /\ tasks[t].channel = Dm))
    /\ UNCHANGED <<known, channel, socket, stream>>
    /\ Kept

SelectCommunity(t) ==
    /\ Is(t, {"restore", "community", "switch", "search"}, "community")
    /\ tasks[t].community # None
    /\ community' = tasks[t].community
    /\ channel' = None
    /\ Goes(t, "list")
    /\ crossed' = (crossed /\ ~Alone(t))
    /\ UNCHANGED <<known, channels, socket, stream>>
    /\ Kept

\* get_channels; the restore gives up when it fails.
ListChannels(t) ==
    LET k == tasks[t].kind IN
    /\ Is(t, Kinds, "list")
    /\ \/ /\ channels' = channels \cup {tasks[t].community}
          /\ CASE k = "restore"   -> Goes(t, "choose")
               [] k = "community" -> Ends(t)
               [] OTHER           -> Goes(t, "channel")
       \/ /\ UNCHANGED channels
          /\ IF k \in {"restore", "community"} THEN Ends(t) ELSE Goes(t, "channel")
    /\ UNCHANGED <<known, community, channel, socket, stream>>
    /\ Same

\* The saved channel when it is in the list, or the first text channel.
Choose(t) ==
    /\ Is(t, {"restore"}, "choose")
    /\ tasks' = [tasks EXCEPT ![t].next = "channel", ![t].channel = tasks[t].community]
    /\ UNCHANGED <<known, channels, community, channel, socket, stream>>
    /\ Same

SelectChannel(t) ==
    /\ Is(t, Kinds, "channel")
    /\ channel' = tasks[t].channel
    /\ Goes(t, "page")
    /\ UNCHANGED <<known, channels, community, socket, stream>>
    /\ Same

\* What becomes of the page is ChannelFeed's.
GetPage(t) ==
    /\ Is(t, Kinds, "page")
    /\ Goes(t, "subscribe")
    /\ UNCHANGED <<known, channels, community, channel, socket, stream>>
    /\ Same

\* Without a socket nothing is sent, and nothing remembers it.
Subscribe(t) ==
    /\ Is(t, Kinds, "subscribe")
    /\ stream' = stream \cup {tasks[t].channel}
    /\ Ends(t)
    /\ UNCHANGED <<known, channels, community, channel, socket>>
    /\ Same

Next ==
    \/ Load \/ Connect \/ LoadAgain
    \/ Restore \/ Frame
    \/ \E t \in Clicks :
          \/ ClickCommunity(t) \/ ClickChannel(t) \/ ClickSwitcher(t) \/ ClickSearch(t)
    \/ \E t \in Tasks :
          \/ StartSwitch(t) \/ StartDm(t) \/ ClearCommunity(t) \/ SelectCommunity(t)
          \/ ListChannels(t) \/ Choose(t) \/ SelectChannel(t) \/ GetPage(t) \/ Subscribe(t)

Spec == Init /\ [][Next]_vars

-----------------------------------------------------------------------------

\* Parts of NavigationAgrees.
ChannelFits == ~crossed /\ channel # None => community = CommunityOf(channel)

ChannelServed == channel # None => channel \in stream

(* When the selections have come to rest, the channel shown is one of the  *)
(* community shown and its stream was asked for.  What the code does       *)
(* otherwise is excepted: selections that overlap, a search that finds a   *)
(* channel the client does not have, and a subscription made before there  *)
(* is a socket, which is dropped.                                          *)
NavigationAgrees == Quiet => ChannelFits /\ ChannelServed
=============================================================================
