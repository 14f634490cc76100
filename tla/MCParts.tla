------------------------------ MODULE MCParts ------------------------------
(***************************************************************************)
(* Components that share no state, checked in one run: the initial state   *)
(* says which one it is, and only that one takes steps.  The variables    *)
(* v1, v2, ... stand for the variables of the component whose              *)
(* turn it is, and are 0 when it has fewer; the model values too are used  *)
(* by each component for what it needs.  Two components come in two sizes: *)
(* voice with two users in one channel or one of them between two, and a   *)
(* channel's messages with an older page or with a second load.            *)
(***************************************************************************)
EXTENDS Naturals

CONSTANTS One, Another, Third, Fourth, None

Two   == {One, Another}
Three == {One, Another, Third}
Four  == {One, Another, Third, Fourth}

VARIABLES
    part,
    v1, v2, v3, v4, v5, v6, v7, v8, v9, v10, v11, v12, v13, v14, v15, v16, v17,
    v18, v19, v20, v21, v22, v23, v24

V == INSTANCE Voice WITH
    Users <- Two, Channels <- {One}, Clicks <- {<<One, 1>>, <<One, 2>>, <<Another, 1>>},
    Breaking <- {One}, Failing <- {<<One, 1>>}, None <- None,
    row <- v1, flag <- v2, subscribers <- v3, online <- v4, requests <- v5, inbox <- v6, local <- v7,
    shown <- v8, mine <- v9, pc <- v10, chan <- v11, found <- v12, hasty <- v13, late <- v14,
    failed <- v15, silent <- v16, stale <- v17

W == INSTANCE Voice WITH
    Users <- Two, Channels <- Two, Clicks <- {<<One, 1>>, <<One, 2>>}, Breaking <- {One},
    Failing <- {<<One, 1>>, <<One, 2>>}, None <- None,
    row <- v1, flag <- v2, subscribers <- v3, online <- v4, requests <- v5, inbox <- v6, local <- v7,
    shown <- v8, mine <- v9, pc <- v10, chan <- v11, found <- v12, hasty <- v13, late <- v14,
    failed <- v15, silent <- v16, stale <- v17

Older == INSTANCE ChannelFeed WITH
    MaxMsgs <- 3, First <- 2, PageSize <- 2, Requests <- Two, Failing <- {One}, Loads <- {One},
    Olders <- {One},
    rows <- v1, text <- v2, pinned <- v3, react <- v4, last <- v5, pc <- v6, kind <- v7, msg <- v8,
    data <- v9, list <- v10, reactions <- v11, subscribed <- v12, inbox <- v13, load <- v14,
    page <- v15, loading <- v16, reached_end <- v17, last_count <- v18, older <- v19, from <- v20,
    olderPage <- v21, raced <- v22, again <- v23, bare <- v24

Loads == INSTANCE ChannelFeed WITH
    MaxMsgs <- 2, First <- 1, PageSize <- 2, Requests <- Two, Failing <- {One}, Loads <- Two,
    Olders <- {},
    rows <- v1, text <- v2, pinned <- v3, react <- v4, last <- v5, pc <- v6, kind <- v7, msg <- v8,
    data <- v9, list <- v10, reactions <- v11, subscribed <- v12, inbox <- v13, load <- v14,
    page <- v15, loading <- v16, reached_end <- v17, last_count <- v18, older <- v19, from <- v20,
    olderPage <- v21, raced <- v22, again <- v23, bare <- v24

State == INSTANCE ClientState WITH
    Tasks <- Three, Urls <- {One}, UI <- None,
    queue <- v1, guards <- v2, ui <- v3, seen <- v4, pc <- v5, url <- v6, image <- v7, fetched <- v8

Share == INSTANCE ScreenShare WITH
    Clicks <- Four, MaxRefusals <- 1,
    joined <- v1, flag <- v2, wants <- v3, video <- v4, row <- v5, frame <- v6, was <- v7, drawn <- v8,
    picker <- v9, capturing <- v10, camera <- v11, pc <- v12, refusals <- v13, odd <- v14

Tracks == INSTANCE RemoteTracks WITH
    Webcams <- {One}, Screens <- {Another}, Polls <- Two, MaxHandlers <- 2,
    watching <- v1, texture <- v2, track <- v3, handled <- v4, frames <- v5, poll <- v6, todo <- v7,
    handlers <- v8, blind <- v9, passed <- v10

Video == INSTANCE VideoStream WITH
    MaxFrames <- 2, MaxLosses <- 2, MaxTries <- 1,
    sending <- v1, captured <- v2, inside <- v3, encoded <- v4, writing <- v5, wire <- v6,
    router <- v7, tries <- v8, joined <- v9, buffer <- v10, torn <- v11, handed <- v12,
    alone <- v13, came <- v14, gone <- v15

Player == INSTANCE AudioPlayer WITH
    Attachments <- Two, Length <- 2, MaxPlays <- 2, MaxSeeks <- 1,
    made <- v1, attachment <- v2, playing <- v3, generation <- v4, current <- v5, shown <- v6,
    sink <- v7, trackers <- v8, seeks <- v9, over <- v10, odd <- v11, failed <- v12

Compose == INSTANCE Compose WITH
    Channels <- Two, None <- None, MaxTasks <- 2,
    selected <- v1, drafts <- v2, tasks <- v3, drawn <- v4, view <- v5, box <- v6, mode <- v7,
    files <- v8, sent <- v9, left <- v10, raced <- v11

Nav == INSTANCE Navigation WITH
    Communities <- Two, Dm <- Third, None <- None, Clicks <- {One},
    known <- v1, channels <- v2, community <- v3, channel <- v4, saved <- v5, restored <- v6,
    socket <- v7, stream <- v8, connecting <- v9, tasks <- v10, crossed <- v11

Pick == INSTANCE Pickers WITH
    Queries <- Two, Nothing <- None, MaxResults <- 3,
    switcher <- v1, search <- v2, entered <- v3

Gif == INSTANCE GifPicker WITH
    Queries <- Two, Trending <- Third, None <- None,
    open <- v1, query <- v2, last <- v3, loading <- v4, trending <- v5, error <- v6, results <- v7,
    requests <- v8, slot <- v9

Mention == INSTANCE Mentions WITH
    Queries <- Two, None <- None, MaxMatches <- 3,
    text <- v1, matches <- v2, active <- v3, dismissed <- v4, query <- v5, selected <- v6,
    used <- v7, slipped <- v8

Rec == INSTANCE Records WITH
    Users <- Two, MaxRequests <- 3, None <- None,
    community <- v1, owner <- v2, members <- v3, channels <- v4, invite <- v5, dms <- v6,
    orphans <- v7, req <- v8, odd <- v9

Up == INSTANCE Uploads WITH
    Files <- Two, Messages <- {Third}, MaxRequests <- 4, None <- None,
    disk <- v1, row <- v2, message <- v3, told <- v4, served <- v5, req <- v6, odd <- v7

Set == INSTANCE Settings WITH
    Devices <- {One}, Cameras <- {One}, None <- None,
    view <- v1, set <- v2, file <- v3, plugged <- v4, listed <- v5, test <- v6, preview <- v7,
    joined <- v8, was <- v9, call <- v10, detector <- v11,
    apart <- v12

(* The values are not each other, and are not the words or the records     *)
(* that a component has beside them.                                       *)
ASSUME ValuesApart ==
    /\ Third \notin Two
    /\ None \notin Four \cup Compose!Requests \cup [of : Gif!Texts, failed : BOOLEAN]
    /\ Four \cap {"no", "free", "new", "look", "done"} = {}

-----------------------------------------------------------------------------
\* The variables a component does not have.
NoneFrom18 ==
    v18 = 0 /\ v19 = 0 /\ v20 = 0
    /\ v21 = 0 /\ v22 = 0 /\ v23 = 0 /\ v24 = 0
NoneFrom16 == v16 = 0 /\ v17 = 0 /\ NoneFrom18
NoneFrom15 == v15 = 0 /\ NoneFrom16
NoneFrom13 == v13 = 0 /\ v14 = 0 /\ NoneFrom15
NoneFrom12 == v12 = 0 /\ NoneFrom13
NoneFrom11 == v11 = 0 /\ NoneFrom12
NoneFrom10 == v10 = 0 /\ NoneFrom11
NoneFrom9 == v9 = 0 /\ NoneFrom10
NoneFrom8 == v8 = 0 /\ NoneFrom9
NoneFrom4 == v4 = 0 /\ v5 = 0 /\ v6 = 0 /\ v7 = 0 /\ NoneFrom8

RestFrom4 == UNCHANGED <<v4, v5, v6, v7, v8, v9, v10, v11, v12, v13, v14, v15,
    v16, v17, v18, v19, v20, v21, v22, v23, v24>>
RestFrom8 == UNCHANGED <<v8, v9, v10, v11, v12, v13, v14, v15, v16, v17, v18,
    v19, v20, v21, v22, v23, v24>>
RestFrom9 == UNCHANGED <<v9, v10, v11, v12, v13, v14, v15, v16, v17, v18, v19,
    v20, v21, v22, v23, v24>>
RestFrom10 == UNCHANGED <<v10, v11, v12, v13, v14, v15, v16, v17, v18, v19, v20,
    v21, v22, v23, v24>>
RestFrom11 == UNCHANGED <<v11, v12, v13, v14, v15, v16, v17, v18, v19, v20, v21,
    v22, v23, v24>>
RestFrom12 == UNCHANGED <<v12, v13, v14, v15, v16, v17, v18, v19, v20, v21, v22,
    v23, v24>>
RestFrom13 == UNCHANGED <<v13, v14, v15, v16, v17, v18, v19, v20, v21, v22, v23,
    v24>>
RestFrom15 == UNCHANGED <<v15, v16, v17, v18, v19, v20, v21, v22, v23, v24>>
RestFrom16 == UNCHANGED <<v16, v17, v18, v19, v20, v21, v22, v23, v24>>
RestFrom18 == UNCHANGED <<v18, v19, v20, v21, v22, v23, v24>>

vars == <<part, v1, v2, v3, v4, v5, v6, v7, v8, v9, v10, v11, v12, v13, v14, v15, v16,
          v17, v18, v19, v20, v21, v22, v23, v24>>

PartsInit ==
    \/ part = "voice" /\ V!Init /\ NoneFrom18
    \/ part = "voices" /\ W!Init /\ NoneFrom18
    \/ part = "older" /\ Older!Init
    \/ part = "loads" /\ Loads!Init
    \/ part = "state" /\ State!Init /\ NoneFrom9
    \/ part = "share" /\ Share!Init /\ NoneFrom15
    \/ part = "tracks" /\ Tracks!Init /\ NoneFrom11
    \/ part = "video" /\ Video!Init /\ NoneFrom16
    \/ part = "player" /\ Player!Init /\ NoneFrom13
    \/ part = "compose" /\ Compose!Init /\ NoneFrom12
    \/ part = "nav" /\ Nav!Init /\ NoneFrom12
    \/ part = "pick" /\ Pick!Init /\ NoneFrom4
    \/ part = "gif" /\ Gif!Init /\ NoneFrom10
    \/ part = "mention" /\ Mention!Init /\ NoneFrom9
    \/ part = "records" /\ Rec!Init /\ NoneFrom10
    \/ part = "uploads" /\ Up!Init /\ NoneFrom8
    \/ part = "settings" /\ Set!Init /\ NoneFrom13

PartsNext ==
    /\ UNCHANGED part
    /\ \/ part = "voice" /\ V!Next /\ RestFrom18
       \/ part = "voices" /\ W!Next /\ RestFrom18
       \/ part = "older" /\ Older!Next
       \/ part = "loads" /\ Loads!Next
       \/ part = "state" /\ State!Next /\ RestFrom9
       \/ part = "share" /\ Share!Next /\ RestFrom15
       \/ part = "tracks" /\ Tracks!Next /\ RestFrom11
       \/ part = "video" /\ Video!Next /\ RestFrom16
       \/ part = "player" /\ Player!Next /\ RestFrom13
       \/ part = "compose" /\ Compose!Next /\ RestFrom12
       \/ part = "nav" /\ Nav!Next /\ RestFrom12
       \/ part = "pick" /\ Pick!Next /\ RestFrom4
       \/ part = "gif" /\ Gif!Next /\ RestFrom10
       \/ part = "mention" /\ Mention!Next /\ RestFrom9
       \/ part = "records" /\ Rec!Next /\ RestFrom10
       \/ part = "uploads" /\ Up!Next /\ RestFrom8
       \/ part = "settings" /\ Set!Next /\ RestFrom13

PartsSpec == PartsInit /\ [][PartsNext]_vars

-----------------------------------------------------------------------------
(* The properties, each stated and explained in its component's module.    *)

\* Every component keeps the types of its variables.
TypesOK ==
    /\ part = "voice" => V!TypeOK
    /\ part = "voices" => W!TypeOK
    /\ part = "older" => Older!TypeOK
    /\ part = "loads" => Loads!TypeOK
    /\ part = "state" => State!TypeOK
    /\ part = "share" => Share!TypeOK
    /\ part = "tracks" => Tracks!TypeOK
    /\ part = "video" => Video!TypeOK
    /\ part = "player" => Player!TypeOK
    /\ part = "compose" => Compose!TypeOK
    /\ part = "nav" => Nav!TypeOK
    /\ part = "pick" => Pick!TypeOK
    /\ part = "gif" => Gif!TypeOK
    /\ part = "mention" => Mention!TypeOK
    /\ part = "records" => Rec!TypeOK
    /\ part = "uploads" => Up!TypeOK
    /\ part = "settings" => Set!TypeOK

\* Voice: what settled clients show is what the table has.
ViewsAgree ==
    /\ part = "voice" => V!ViewsAgree
    /\ part = "voices" => W!ViewsAgree

\* Voice: a client is where the server has it.
PlaceAgrees ==
    /\ part = "voice" => V!PlaceAgrees
    /\ part = "voices" => W!PlaceAgrees

\* ChannelFeed: a settled client shows the messages as the database has them, each
\* one once.
FeedAgrees ==
    /\ part = "older" => Older!FeedAgrees
    /\ part = "older" => Older!FeedOnce
    /\ part = "loads" => Loads!FeedAgrees
    /\ part = "loads" => Loads!FeedOnce

\* ClientState: only the UI thread's own nested reads can stop everything.
OnlyItselfBlocks ==
    /\ part = "state" => State!OnlyItselfBlocks

\* ClientState: a preview is asked for once.
FetchedOnce ==
    /\ part = "state" => State!FetchedOnce

\* ScreenShare: what is captured, what is shown and what the server knows agree.
SharingAgrees ==
    /\ part = "share" => Share!SharingAgrees

\* RemoteTracks: a track that is there and watched is decoded.
TracksDecoded ==
    /\ part = "tracks" => Tracks!TracksDecoded

\* VideoStream: a frame that arrived whole is handed on whole.
SamplesSurvive ==
    /\ part = "video" => Video!SamplesSurvive

\* AudioPlayer: the state shown is the state of the sink.
PlayerAgrees ==
    /\ part = "player" => Player!PlayerAgrees

\* Compose: drafts come back, and a send takes what was written.
ComposeAgrees ==
    /\ part = "compose" => Compose!ComposeAgrees

\* Navigation: the channel shown, its messages and its subscription go together.
NavigationAgrees ==
    /\ part = "nav" => Nav!NavigationAgrees

\* Pickers, GifPicker, Mentions: the index is in the list, and the list is the answer
\* to what is asked.
PickersAgree ==
    /\ part = "pick" => Pick!PickersAgree
    /\ part = "gif" => Gif!GifsAgree
    /\ part = "mention" => Mention!MentionInList

\* Records: settled requests leave whole communities, counted invites and single
\* direct channels.
RecordsAgree ==
    /\ part = "records" => Rec!RecordsAgree

\* Uploads: rows have their files, and messages their attachments.
UploadsAgree ==
    /\ part = "uploads" => Up!UploadsAgree

\* Settings: tests, calls and the file have the settings that are shown.
SettingsAgree ==
    /\ part = "settings" => Set!SettingsAgree
=============================================================================
