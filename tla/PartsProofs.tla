--------------------------- MODULE PartsProofs ----------------------------
(***************************************************************************)
(* The properties of the run of MCParts as theorems. ClientProofs and      *)
(* ServerProofs have the inductive invariants and the proofs, for every    *)
(* value of the constants; here they are instantiated for the values of    *)
(* MCParts, ServerProofs twice because Voice and ChannelFeed are run at    *)
(* two sizes each.                                                         *)
(* For each component: its definitions are the same in the two instances,  *)
(* and a behaviour of PartsSpec in which it is the component's turn is a   *)
(* behaviour of its own specification. Its theorem then gives the          *)
(* property.                                                               *)
(***************************************************************************)
EXTENDS MCParts, FiniteSets, TLAPS

CP == INSTANCE ClientProofs WITH
    Tasks <- Three, Urls <- {One}, UI <- None, queue <- v1, guards <- v2,
    ui <- v3, seen <- v4, pc <- v5, url <- v6, image <- v7, fetched <- v8,
    Channels <- Two, None <- None, MaxTasks <- 2, compose_selected <- v1,
    drafts <- v2, compose_tasks <- v3, compose_drawn <- v4,
    compose_view <- v5, box <- v6, compose_mode <- v7, files <- v8,
    sent <- v9, left <- v10, raced <- v11, Communities <- Two, Dm <- Third,
    NavClicks <- {One}, known <- v1, channels <- v2, community <- v3,
    channel <- v4, saved <- v5, restored <- v6, socket <- v7, stream <- v8,
    connecting <- v9, nav_tasks <- v10, crossed <- v11, Queries <- Two,
    Nothing <- None, MaxResults <- 3, switcher <- v1, search <- v2,
    entered <- v3, Trending <- Third, open <- v1, gif_query <- v2,
    last <- v3, loading <- v4, trending <- v5, error <- v6, results <- v7,
    requests <- v8, slot <- v9, MaxMatches <- 3, mention_text <- v1,
    matches <- v2, active <- v3, dismissed <- v4, mention_query <- v5,
    mention_selected <- v6, used <- v7, slipped <- v8, Devices <- {One},
    Cameras <- {One}, set_view <- v1, set <- v2, file <- v3, plugged <- v4,
    listed <- v5, test <- v6, preview <- v7, set_joined <- v8,
    set_was <- v9, call <- v10, detector <- v11, apart <- v12,
    ShareClicks <- Four, MaxRefusals <- 1, share_joined <- v1, flag <- v2,
    wants <- v3, video <- v4, share_row <- v5, frame <- v6, share_was <- v7,
    share_drawn <- v8, picker <- v9, capturing <- v10, camera <- v11,
    share_pc <- v12, refusals <- v13, share_odd <- v14, Webcams <- {One},
    Screens <- {Another}, Polls <- Two, MaxHandlers <- 2, watching <- v1,
    texture <- v2, track <- v3, handled <- v4, frames <- v5, poll <- v6,
    todo <- v7, handlers <- v8, blind <- v9, passed <- v10, MaxFrames <- 2,
    MaxLosses <- 2, MaxTries <- 1, sending <- v1, captured <- v2,
    inside <- v3, encoded <- v4, writing <- v5, wire <- v6, router <- v7,
    tries <- v8, video_joined <- v9, buffer <- v10, torn <- v11,
    handed <- v12, alone <- v13, came <- v14, gone <- v15,
    Attachments <- Two, Length <- 2, MaxPlays <- 2, MaxSeeks <- 1,
    made <- v1, attachment <- v2, playing <- v3, generation <- v4,
    current <- v5, shown <- v6, sink <- v7, trackers <- v8, seeks <- v9,
    over <- v10, player_odd <- v11, failed <- v12

SP == INSTANCE ServerProofs WITH
    Files <- Two, Messages <- {Third}, MaxUpRequests <- 4, None <- None,
    disk <- v1, up_row <- v2, up_message <- v3, up_told <- v4, served <- v5,
    up_req <- v6, up_odd <- v7, Users <- Two, MaxRecRequests <- 3,
    community <- v1, owner <- v2, members <- v3, channels <- v4,
    invite <- v5, dms <- v6, orphans <- v7, rec_req <- v8, rec_odd <- v9,
    Channels <- {One}, Clicks <- {<<One, 1>>, <<One, 2>>, <<Another, 1>>},
    Breaking <- {One}, VoiceFailing <- {<<One, 1>>}, voice_row <- v1,
    flag <- v2, subscribers <- v3, online <- v4, voice_requests <- v5,
    voice_inbox <- v6, local <- v7, shown <- v8, mine <- v9,
    voice_pc <- v10, chan <- v11, found <- v12, hasty <- v13, late <- v14,
    failed <- v15, silent <- v16, stale <- v17, MaxMsgs <- 3, First <- 2,
    PageSize <- 2, Requests <- Two, Failing <- {One}, FeedLoads <- {One},
    Olders <- {One}, rows <- v1, text <- v2, pinned <- v3, react <- v4,
    last <- v5, feed_pc <- v6, feed_kind <- v7, msg <- v8, data <- v9,
    feed_list <- v10, reactions <- v11, subscribed <- v12,
    feed_inbox <- v13, load <- v14, page <- v15, loading <- v16,
    reached_end <- v17, last_count <- v18, older <- v19, from <- v20,
    olderPage <- v21, raced <- v22, again <- v23, bare <- v24

SW == INSTANCE ServerProofs WITH
    Files <- Two, Messages <- {Third}, MaxUpRequests <- 4, None <- None,
    disk <- v1, up_row <- v2, up_message <- v3, up_told <- v4, served <- v5,
    up_req <- v6, up_odd <- v7, Users <- Two, MaxRecRequests <- 3,
    community <- v1, owner <- v2, members <- v3, channels <- v4,
    invite <- v5, dms <- v6, orphans <- v7, rec_req <- v8, rec_odd <- v9,
    Channels <- Two, Clicks <- {<<One, 1>>, <<One, 2>>}, Breaking <- {One},
    VoiceFailing <- {<<One, 1>>, <<One, 2>>}, voice_row <- v1, flag <- v2,
    subscribers <- v3, online <- v4, voice_requests <- v5,
    voice_inbox <- v6, local <- v7, shown <- v8, mine <- v9,
    voice_pc <- v10, chan <- v11, found <- v12, hasty <- v13, late <- v14,
    failed <- v15, silent <- v16, stale <- v17, MaxMsgs <- 2, First <- 1,
    PageSize <- 2, Requests <- Two, Failing <- {One}, FeedLoads <- Two,
    Olders <- {}, rows <- v1, text <- v2, pinned <- v3, react <- v4,
    last <- v5, feed_pc <- v6, feed_kind <- v7, msg <- v8, data <- v9,
    feed_list <- v10, reactions <- v11, subscribed <- v12,
    feed_inbox <- v13, load <- v14, page <- v15, loading <- v16,
    reached_end <- v17, last_count <- v18, older <- v19, from <- v20,
    olderPage <- v21, raced <- v22, again <- v23, bare <- v24

-----------------------------------------------------------------------------
(* The values.                                                             *)

(* The values of this run are as the assumptions of the two modules ask.   *)
LEMMA AssumptionsHold ==
    /\ CP!StateAssumption
    /\ CP!ComposeAssumption
    /\ CP!NavAssumption
    /\ CP!PickersAssumption
    /\ CP!GifAssumption
    /\ CP!MentionsAssumption
    /\ CP!ShareAssumption
    /\ CP!TracksAssumption
    /\ CP!VideoAssumption
    /\ CP!PlayerAssumption
    /\ SP!UploadsAssumption
    /\ SP!RecordsAssumption
    /\ SP!VoiceAssumption
    /\ SW!VoiceAssumption
    /\ SP!FeedAssumption
    /\ SW!FeedAssumption
<1>1. CP!StateAssumption
  BY ValuesApart DEF CP!StateAssumption, Three, Four
<1>2. CP!ComposeAssumption
  BY ValuesApart DEF CP!ComposeAssumption, Two, Four, CP!Compose!Empty, Compose!Empty, CP!Compose!New,
         Compose!New, CP!Compose!Edit, Compose!Edit, CP!Compose!Remnant, Compose!Remnant,
         CP!Compose!Texts, Compose!Texts, CP!Compose!Requests, Compose!Requests
<1>3. CP!NavAssumption
  BY ValuesApart DEF CP!NavAssumption, Two, Four
<1>4. CP!PickersAssumption
  BY DEF CP!PickersAssumption
<1>5. CP!GifAssumption
  BY ValuesApart DEF CP!GifAssumption, Two, Four, CP!Gif!Texts, Gif!Texts
<1>6. CP!MentionsAssumption
  BY DEF CP!MentionsAssumption
<1>7. CP!ShareAssumption
  BY DEF CP!ShareAssumption
<1>8. CP!TracksAssumption
  BY ValuesApart DEF CP!TracksAssumption, Two, Four, CP!Tracks!Tracks, Tracks!Tracks
<1>9. CP!VideoAssumption
  BY DEF CP!VideoAssumption
<1>10. CP!PlayerAssumption
  BY DEF CP!PlayerAssumption
<1>11. SP!UploadsAssumption
  BY ValuesApart DEF SP!UploadsAssumption, Two, Four
<1>12. SP!RecordsAssumption
  BY ValuesApart DEF SP!RecordsAssumption, Two, Four
<1>13. SP!VoiceAssumption
  BY ValuesApart DEF SP!VoiceAssumption, Two, Four, SP!V!Who, V!Who
<1>14. SW!VoiceAssumption
  BY ValuesApart DEF SW!VoiceAssumption, Two, Four, SW!V!Who, W!Who
<1>15. SP!FeedAssumption
  BY DEF SP!FeedAssumption
<1>16. SW!FeedAssumption
  BY DEF SW!FeedAssumption
<1> QED
  BY <1>1, <1>2, <1>3, <1>4, <1>5, <1>6, <1>7, <1>8, <1>9, <1>10, <1>11, <1>12, <1>13, <1>14, <1>15, <1>16

-----------------------------------------------------------------------------
(* The components.                                                         *)

(* ClientState is instantiated alike in ClientProofs and here.             *)
LEMMA SameState ==
    /\ CP!State!Init <=> State!Init
    /\ CP!State!Next <=> State!Next
    /\ CP!State!TypeOK <=> State!TypeOK
    /\ CP!State!OnlyItselfBlocks <=> State!OnlyItselfBlocks
    /\ CP!State!FetchedOnce <=> State!FetchedOnce
<1>1. CP!State!Init <=> State!Init
  BY DEF CP!State!Processes, State!Processes, CP!State!Init, State!Init
<1>2. CP!State!Next <=> State!Next
  BY DEF CP!State!Processes, State!Processes, CP!State!Waiting, State!Waiting, CP!State!Holders,
         State!Holders, CP!State!Written, State!Written, CP!State!Grantable, State!Grantable,
         CP!State!Free, State!Free, CP!State!Ask, State!Ask, CP!State!Grant, State!Grant,
         CP!State!StartFrame, State!StartFrame, CP!State!AskTyping, State!AskTyping,
         CP!State!EndRead, State!EndRead, CP!State!MayMark, State!MayMark, CP!State!StartFetch,
         State!StartFetch, CP!State!Look, State!Look, CP!State!EndFrame, State!EndFrame,
         CP!State!Answer, State!Answer, CP!State!Event, State!Event, CP!State!Apply, State!Apply,
         CP!State!Next, State!Next
<1>3. CP!State!TypeOK <=> State!TypeOK
  BY DEF CP!State!Processes, State!Processes, CP!State!Modes, State!Modes, CP!State!TypeOK,
         State!TypeOK
<1>4. CP!State!OnlyItselfBlocks <=> State!OnlyItselfBlocks
  BY DEF CP!State!Processes, State!Processes, CP!State!Waiting, State!Waiting, CP!State!Holders,
         State!Holders, CP!State!Written, State!Written, CP!State!Grantable, State!Grantable,
         CP!State!Circle, State!Circle, CP!State!OnlyItselfBlocks, State!OnlyItselfBlocks
<1>5. CP!State!FetchedOnce <=> State!FetchedOnce
  BY DEF CP!State!FetchedOnce, State!FetchedOnce
<1> QED
  BY <1>1, <1>2, <1>3, <1>4, <1>5

(* A behaviour in which it is this component's turn is one of ClientState. *)
LEMMA StateRuns == PartsSpec /\ part = "state" => CP!State!Spec
<1>1. PartsInit /\ part = "state" => CP!State!Init
  BY SameState DEF PartsInit
<1>2. part = "state" /\ [PartsNext]_vars => [CP!State!Next]_(CP!State!vars)
  BY SameState DEF PartsNext, vars, CP!State!vars
<1>3. part = "state" /\ [PartsNext]_vars => (part = "state")'
  BY DEF PartsNext, vars
<1> QED
  BY <1>1, <1>2, <1>3, PTL DEF PartsSpec, CP!State!Spec

(* The actions of Compose, one by one, are the same in ClientProofs and    *)
(* here.                                                                   *)
LEMMA ComposeActions == CP!Compose!Next <=> Compose!Next
<1>1. \A c : CP!Compose!Select(c) <=> Compose!Select(c)
  BY DEF CP!Compose!Select, Compose!Select, CP!Compose!Cardinality, Compose!Cardinality
<1>2. \A t : CP!Compose!Save(t) <=> Compose!Save(t)
  BY DEF CP!Compose!Saved, Compose!Saved, CP!Compose!Save, Compose!Save, CP!Compose!Cardinality,
         Compose!Cardinality
<1>3. CP!Compose!Stay <=> Compose!Stay
  BY DEF CP!Compose!Look, Compose!Look, CP!Compose!Stay, Compose!Stay, CP!Compose!Cardinality,
         Compose!Cardinality
<1>4. CP!Compose!Switch <=> Compose!Switch
  BY DEF CP!Compose!Empty, Compose!Empty, CP!Compose!Edit, Compose!Edit, CP!Compose!Remnant,
         Compose!Remnant, CP!Compose!Pending, Compose!Pending, CP!Compose!HasRoom, Compose!HasRoom,
         CP!Compose!Spawn, Compose!Spawn, CP!Compose!AfterEdit, Compose!AfterEdit, CP!Compose!Look,
         Compose!Look, CP!Compose!Switch, Compose!Switch, CP!Compose!Cardinality,
         Compose!Cardinality
<1>5. CP!Compose!Type <=> Compose!Type
  BY DEF CP!Compose!Empty, Compose!Empty, CP!Compose!New, Compose!New, CP!Compose!Edit,
         Compose!Edit, CP!Compose!Remnant, Compose!Remnant, CP!Compose!Drawing, Compose!Drawing,
         CP!Compose!Elsewhere, Compose!Elsewhere, CP!Compose!Type, Compose!Type,
         CP!Compose!Cardinality, Compose!Cardinality
<1>6. CP!Compose!Erase <=> Compose!Erase
  BY DEF CP!Compose!Empty, Compose!Empty, CP!Compose!Drawing, Compose!Drawing, CP!Compose!Elsewhere,
         Compose!Elsewhere, CP!Compose!Erase, Compose!Erase, CP!Compose!Cardinality,
         Compose!Cardinality
<1>7. CP!Compose!PickFile <=> Compose!PickFile
  BY DEF CP!Compose!Drawing, Compose!Drawing, CP!Compose!Elsewhere, Compose!Elsewhere,
         CP!Compose!PickFile, Compose!PickFile, CP!Compose!Cardinality, Compose!Cardinality
<1>8. CP!Compose!RemoveFile <=> Compose!RemoveFile
  BY DEF CP!Compose!Drawing, Compose!Drawing, CP!Compose!Elsewhere, Compose!Elsewhere,
         CP!Compose!RemoveFile, Compose!RemoveFile, CP!Compose!Cardinality, Compose!Cardinality
<1>9. CP!Compose!AskReply <=> Compose!AskReply
  BY DEF CP!Compose!Edit, Compose!Edit, CP!Compose!Remnant, Compose!Remnant, CP!Compose!AfterEdit,
         Compose!AfterEdit, CP!Compose!Drawing, Compose!Drawing, CP!Compose!Elsewhere,
         Compose!Elsewhere, CP!Compose!StartReply, Compose!StartReply, CP!Compose!AskReply,
         Compose!AskReply, CP!Compose!Cardinality, Compose!Cardinality
<1>10. CP!Compose!AskEdit <=> Compose!AskEdit
  BY DEF CP!Compose!Edit, Compose!Edit, CP!Compose!Remnant, Compose!Remnant, CP!Compose!Drawing,
         Compose!Drawing, CP!Compose!Elsewhere, Compose!Elsewhere, CP!Compose!StartEdit,
         Compose!StartEdit, CP!Compose!AskEdit, Compose!AskEdit, CP!Compose!Cardinality,
         Compose!Cardinality
<1>11. CP!Compose!CancelReply <=> Compose!CancelReply
  BY DEF CP!Compose!Drawing, Compose!Drawing, CP!Compose!Elsewhere, Compose!Elsewhere,
         CP!Compose!CancelReply, Compose!CancelReply, CP!Compose!Cardinality, Compose!Cardinality
<1>12. CP!Compose!CancelEdit <=> Compose!CancelEdit
  BY DEF CP!Compose!Empty, Compose!Empty, CP!Compose!Drawing, Compose!Drawing, CP!Compose!Elsewhere,
         Compose!Elsewhere, CP!Compose!CancelEdit, Compose!CancelEdit, CP!Compose!Cardinality,
         Compose!Cardinality
<1>13. CP!Compose!Send <=> Compose!Send
  BY DEF CP!Compose!Empty, Compose!Empty, CP!Compose!Pending, Compose!Pending, CP!Compose!HasRoom,
         Compose!HasRoom, CP!Compose!Spawn, Compose!Spawn, CP!Compose!Drawing, Compose!Drawing,
         CP!Compose!Request, Compose!Request, CP!Compose!Uploads, Compose!Uploads, CP!Compose!Send,
         Compose!Send, CP!Compose!Cardinality, Compose!Cardinality
<1> QED
  BY <1>1, <1>2, <1>3, <1>4, <1>5, <1>6, <1>7, <1>8, <1>9, <1>10, <1>11, <1>12, <1>13 DEF CP!Compose!Next, Compose!Next

(* Compose is instantiated alike in ClientProofs and here.                 *)
LEMMA SameCompose ==
    /\ CP!Compose!Init <=> Compose!Init
    /\ CP!Compose!Next <=> Compose!Next
    /\ CP!Compose!TypeOK <=> Compose!TypeOK
    /\ CP!Compose!ComposeAgrees <=> Compose!ComposeAgrees
<1>1. CP!Compose!Init <=> Compose!Init
  BY DEF CP!Compose!Empty, Compose!Empty, CP!Compose!Init, Compose!Init, CP!Compose!Cardinality,
         Compose!Cardinality
<1>2. CP!Compose!Next <=> Compose!Next
  BY ComposeActions
<1>3. CP!Compose!TypeOK <=> Compose!TypeOK
  BY DEF CP!Compose!Empty, Compose!Empty, CP!Compose!New, Compose!New, CP!Compose!Edit,
         Compose!Edit, CP!Compose!Remnant, Compose!Remnant, CP!Compose!Texts, Compose!Texts,
         CP!Compose!Requests, Compose!Requests, CP!Compose!TypeOK, Compose!TypeOK,
         CP!Compose!Cardinality, Compose!Cardinality
<1>4. CP!Compose!ComposeAgrees <=> Compose!ComposeAgrees
  BY DEF CP!Compose!Empty, Compose!Empty, CP!Compose!New, Compose!New, CP!Compose!Edit,
         Compose!Edit, CP!Compose!Remnant, Compose!Remnant, CP!Compose!Pending, Compose!Pending,
         CP!Compose!BoxIsOfView, Compose!BoxIsOfView, CP!Compose!DraftsAreOwn, Compose!DraftsAreOwn,
         CP!Compose!DraftsKept, Compose!DraftsKept, CP!Compose!SentWhereTyped,
         Compose!SentWhereTyped, CP!Compose!ComposeAgrees, Compose!ComposeAgrees,
         CP!Compose!Cardinality, Compose!Cardinality
<1> QED
  BY <1>1, <1>2, <1>3, <1>4

(* A behaviour in which it is this component's turn is one of Compose.     *)
LEMMA ComposeRuns == PartsSpec /\ part = "compose" => CP!Compose!Spec
<1>1. PartsInit /\ part = "compose" => CP!Compose!Init
  BY SameCompose DEF PartsInit
<1>2. part = "compose" /\ [PartsNext]_vars => [CP!Compose!Next]_(CP!Compose!vars)
  BY SameCompose DEF PartsNext, vars, CP!Compose!vars
<1>3. part = "compose" /\ [PartsNext]_vars => (part = "compose")'
  BY DEF PartsNext, vars
<1> QED
  BY <1>1, <1>2, <1>3, PTL DEF PartsSpec, CP!Compose!Spec

(* Navigation is instantiated alike in ClientProofs and here.              *)
LEMMA SameNav ==
    /\ CP!Nav!Init <=> Nav!Init
    /\ CP!Nav!Next <=> Nav!Next
    /\ CP!Nav!TypeOK <=> Nav!TypeOK
    /\ CP!Nav!NavigationAgrees <=> Nav!NavigationAgrees
<1>1. CP!Nav!Init <=> Nav!Init
  BY DEF CP!Nav!Tasks, Nav!Tasks, CP!Nav!Idle, Nav!Idle, CP!Nav!Init, Nav!Init
<1>2. CP!Nav!Next <=> Nav!Next
  BY DEF CP!Nav!CommunityOf, Nav!CommunityOf, CP!Nav!Tasks, Nav!Tasks, CP!Nav!Kinds, Nav!Kinds,
         CP!Nav!Idle, Nav!Idle, CP!Nav!Load, Nav!Load, CP!Nav!Connect, Nav!Connect,
         CP!Nav!LoadAgain, Nav!LoadAgain, CP!Nav!Shown, Nav!Shown, CP!Nav!Selecting, Nav!Selecting,
         CP!Nav!Quiet, Nav!Quiet, CP!Nav!Alone, Nav!Alone, CP!Nav!Spawn, Nav!Spawn,
         CP!Nav!Untouched, Nav!Untouched, CP!Nav!Restore, Nav!Restore, CP!Nav!ClickCommunity,
         Nav!ClickCommunity, CP!Nav!ClickChannel, Nav!ClickChannel, CP!Nav!ClickSwitcher,
         Nav!ClickSwitcher, CP!Nav!ClickSearch, Nav!ClickSearch, CP!Nav!Frame, Nav!Frame, CP!Nav!Is,
         Nav!Is, CP!Nav!Goes, Nav!Goes, CP!Nav!Ends, Nav!Ends, CP!Nav!Kept, Nav!Kept, CP!Nav!Same,
         Nav!Same, CP!Nav!NeedsCommunity, Nav!NeedsCommunity, CP!Nav!StartSwitch, Nav!StartSwitch,
         CP!Nav!StartDm, Nav!StartDm, CP!Nav!ClearCommunity, Nav!ClearCommunity,
         CP!Nav!SelectCommunity, Nav!SelectCommunity, CP!Nav!ListChannels, Nav!ListChannels,
         CP!Nav!Choose, Nav!Choose, CP!Nav!SelectChannel, Nav!SelectChannel, CP!Nav!GetPage,
         Nav!GetPage, CP!Nav!Subscribe, Nav!Subscribe, CP!Nav!Next, Nav!Next
<1>3. CP!Nav!TypeOK <=> Nav!TypeOK
  BY DEF CP!Nav!Channels, Nav!Channels, CP!Nav!Tasks, Nav!Tasks, CP!Nav!Kinds, Nav!Kinds,
         CP!Nav!Steps, Nav!Steps, CP!Nav!TypeOK, Nav!TypeOK
<1>4. CP!Nav!NavigationAgrees <=> Nav!NavigationAgrees
  BY DEF CP!Nav!CommunityOf, Nav!CommunityOf, CP!Nav!Tasks, Nav!Tasks, CP!Nav!Idle, Nav!Idle,
         CP!Nav!Selecting, Nav!Selecting, CP!Nav!Quiet, Nav!Quiet, CP!Nav!ChannelFits,
         Nav!ChannelFits, CP!Nav!ChannelServed, Nav!ChannelServed, CP!Nav!NavigationAgrees,
         Nav!NavigationAgrees
<1> QED
  BY <1>1, <1>2, <1>3, <1>4

(* A behaviour in which it is this component's turn is one of Navigation.  *)
LEMMA NavRuns == PartsSpec /\ part = "nav" => CP!Nav!Spec
<1>1. PartsInit /\ part = "nav" => CP!Nav!Init
  BY SameNav DEF PartsInit
<1>2. part = "nav" /\ [PartsNext]_vars => [CP!Nav!Next]_(CP!Nav!vars)
  BY SameNav DEF PartsNext, vars, CP!Nav!vars
<1>3. part = "nav" /\ [PartsNext]_vars => (part = "nav")'
  BY DEF PartsNext, vars
<1> QED
  BY <1>1, <1>2, <1>3, PTL DEF PartsSpec, CP!Nav!Spec

(* Pickers is instantiated alike in ClientProofs and here.                 *)
LEMMA SamePick ==
    /\ CP!Pick!Init <=> Pick!Init
    /\ CP!Pick!Next <=> Pick!Next
    /\ CP!Pick!TypeOK <=> Pick!TypeOK
    /\ CP!Pick!PickersAgree <=> Pick!PickersAgree
<1>1. CP!Pick!Init <=> Pick!Init
  BY DEF CP!Pick!NoSwitcher, Pick!NoSwitcher, CP!Pick!NoSearch, Pick!NoSearch, CP!Pick!NoEntry,
         Pick!NoEntry, CP!Pick!Init, Pick!Init
<1>2. CP!Pick!Next <=> Pick!Next
  BY DEF CP!Pick!Texts, Pick!Texts, CP!Pick!Counts, Pick!Counts, CP!Pick!Indexes, Pick!Indexes,
         CP!Pick!NoSwitcher, Pick!NoSwitcher, CP!Pick!NoSearch, Pick!NoSearch, CP!Pick!NoEntry,
         Pick!NoEntry, CP!Pick!ToggleSwitcher, Pick!ToggleSwitcher, CP!Pick!ToggleSearch,
         Pick!ToggleSearch, CP!Pick!Least, Pick!Least, CP!Pick!Up, Pick!Up, CP!Pick!Down, Pick!Down,
         CP!Pick!Hovered, Pick!Hovered, CP!Pick!Clamped, Pick!Clamped, CP!Pick!Updated,
         Pick!Updated, CP!Pick!SwitcherFrame, Pick!SwitcherFrame, CP!Pick!SwitcherEnds,
         Pick!SwitcherEnds, CP!Pick!Searched, Pick!Searched, CP!Pick!SearchFrame, Pick!SearchFrame,
         CP!Pick!SearchEnds, Pick!SearchEnds, CP!Pick!Next, Pick!Next
<1>3. CP!Pick!TypeOK <=> Pick!TypeOK
  BY DEF CP!Pick!Texts, Pick!Texts, CP!Pick!Counts, Pick!Counts, CP!Pick!Indexes, Pick!Indexes,
         CP!Pick!TypeOK, Pick!TypeOK
<1>4. CP!Pick!PickersAgree <=> Pick!PickersAgree
  BY DEF CP!Pick!NoEntry, Pick!NoEntry, CP!Pick!PickersAgree, Pick!PickersAgree
<1> QED
  BY <1>1, <1>2, <1>3, <1>4

(* A behaviour in which it is this component's turn is one of Pickers.     *)
LEMMA PickRuns == PartsSpec /\ part = "pick" => CP!Pick!Spec
<1>1. PartsInit /\ part = "pick" => CP!Pick!Init
  BY SamePick DEF PartsInit
<1>2. part = "pick" /\ [PartsNext]_vars => [CP!Pick!Next]_(CP!Pick!vars)
  BY SamePick DEF PartsNext, vars, CP!Pick!vars
<1>3. part = "pick" /\ [PartsNext]_vars => (part = "pick")'
  BY DEF PartsNext, vars
<1> QED
  BY <1>1, <1>2, <1>3, PTL DEF PartsSpec, CP!Pick!Spec

(* GifPicker is instantiated alike in ClientProofs and here.               *)
LEMMA SameGif ==
    /\ CP!Gif!Init <=> Gif!Init
    /\ CP!Gif!Next <=> Gif!Next
    /\ CP!Gif!TypeOK <=> Gif!TypeOK
    /\ CP!Gif!GifsAgree <=> Gif!GifsAgree
<1>1. CP!Gif!Init <=> Gif!Init
  BY DEF CP!Gif!Init, Gif!Init, CP!Gif!Cardinality, Gif!Cardinality
<1>2. CP!Gif!Next <=> Gif!Next
  BY DEF CP!Gif!Texts, Gif!Texts, CP!Gif!Close, Gif!Close, CP!Gif!Open, Gif!Open, CP!Gif!Type,
         Gif!Type, CP!Gif!ShouldSearch, Gif!ShouldSearch, CP!Gif!Ask, Gif!Ask, CP!Gif!Take,
         Gif!Take, CP!Gif!Answer, Gif!Answer, CP!Gif!Next, Gif!Next, CP!Gif!Cardinality,
         Gif!Cardinality
<1>3. CP!Gif!TypeOK <=> Gif!TypeOK
  BY DEF CP!Gif!Texts, Gif!Texts, CP!Gif!TypeOK, Gif!TypeOK, CP!Gif!Cardinality, Gif!Cardinality
<1>4. CP!Gif!GifsAgree <=> Gif!GifsAgree
  BY DEF CP!Gif!GifsAgree, Gif!GifsAgree, CP!Gif!Cardinality, Gif!Cardinality
<1> QED
  BY <1>1, <1>2, <1>3, <1>4

(* A behaviour in which it is this component's turn is one of GifPicker.   *)
LEMMA GifRuns == PartsSpec /\ part = "gif" => CP!Gif!Spec
<1>1. PartsInit /\ part = "gif" => CP!Gif!Init
  BY SameGif DEF PartsInit
<1>2. part = "gif" /\ [PartsNext]_vars => [CP!Gif!Next]_(CP!Gif!vars)
  BY SameGif DEF PartsNext, vars, CP!Gif!vars
<1>3. part = "gif" /\ [PartsNext]_vars => (part = "gif")'
  BY DEF PartsNext, vars
<1> QED
  BY <1>1, <1>2, <1>3, PTL DEF PartsSpec, CP!Gif!Spec

(* Mentions is instantiated alike in ClientProofs and here.                *)
LEMMA SameMention ==
    /\ CP!Mention!Init <=> Mention!Init
    /\ CP!Mention!Next <=> Mention!Next
    /\ CP!Mention!TypeOK <=> Mention!TypeOK
    /\ CP!Mention!MentionInList <=> Mention!MentionInList
<1>1. CP!Mention!Init <=> Mention!Init
  BY DEF CP!Mention!Counts, Mention!Counts, CP!Mention!Unused, Mention!Unused, CP!Mention!Init,
         Mention!Init
<1>2. CP!Mention!Next <=> Mention!Next
  BY DEF CP!Mention!Counts, Mention!Counts, CP!Mention!Unused, Mention!Unused, CP!Mention!Type,
         Mention!Type, CP!Mention!MembersChange, Mention!MembersChange, CP!Mention!SwitchChannel,
         Mention!SwitchChannel, CP!Mention!Reset, Mention!Reset, CP!Mention!Update, Mention!Update,
         CP!Mention!Rest, Mention!Rest, CP!Mention!Listening, Mention!Listening, CP!Mention!Up,
         Mention!Up, CP!Mention!Down, Mention!Down, CP!Mention!Insert, Mention!Insert,
         CP!Mention!Dismiss, Mention!Dismiss, CP!Mention!Next, Mention!Next
<1>3. CP!Mention!TypeOK <=> Mention!TypeOK
  BY DEF CP!Mention!Counts, Mention!Counts, CP!Mention!TypeOK, Mention!TypeOK
<1>4. CP!Mention!MentionInList <=> Mention!MentionInList
  BY DEF CP!Mention!Unused, Mention!Unused, CP!Mention!MentionInList, Mention!MentionInList
<1> QED
  BY <1>1, <1>2, <1>3, <1>4

(* A behaviour in which it is this component's turn is one of Mentions.    *)
LEMMA MentionRuns == PartsSpec /\ part = "mention" => CP!Mention!Spec
<1>1. PartsInit /\ part = "mention" => CP!Mention!Init
  BY SameMention DEF PartsInit
<1>2. part = "mention" /\ [PartsNext]_vars => [CP!Mention!Next]_(CP!Mention!vars)
  BY SameMention DEF PartsNext, vars, CP!Mention!vars
<1>3. part = "mention" /\ [PartsNext]_vars => (part = "mention")'
  BY DEF PartsNext, vars
<1> QED
  BY <1>1, <1>2, <1>3, PTL DEF PartsSpec, CP!Mention!Spec

(* Settings is instantiated alike in ClientProofs and here.                *)
LEMMA SameSet ==
    /\ CP!Set!Init <=> Set!Init
    /\ CP!Set!Next <=> Set!Next
    /\ CP!Set!TypeOK <=> Set!TypeOK
    /\ CP!Set!SettingsAgree <=> Set!SettingsAgree
<1>1. CP!Set!Init <=> Set!Init
  BY DEF CP!Set!Defaults, Set!Defaults, CP!Set!NoTest, Set!NoTest, CP!Set!NoPreview, Set!NoPreview,
         CP!Set!Init, Set!Init
<1>2. CP!Set!Next <=> Set!Next
  BY DEF CP!Set!Levels, Set!Levels, CP!Set!Defaults, Set!Defaults, CP!Set!NoTest, Set!NoTest,
         CP!Set!NoPreview, Set!NoPreview, CP!Set!voice, Set!voice, CP!Set!Replug, Set!Replug,
         CP!Set!Refresh, Set!Refresh, CP!Set!Found, Set!Found, CP!Set!Test, Set!Test,
         CP!Set!Preview, Set!Preview, CP!Set!Restarted, Set!Restarted, CP!Set!Chosen, Set!Chosen,
         CP!Set!ChooseInput, Set!ChooseInput, CP!Set!ChooseOutput, Set!ChooseOutput,
         CP!Set!ToggleLoopback, Set!ToggleLoopback, CP!Set!MoveThreshold, Set!MoveThreshold,
         CP!Set!ChooseCamera, Set!ChooseCamera, CP!Set!ToggleTest, Set!ToggleTest,
         CP!Set!TogglePreview, Set!TogglePreview, CP!Set!OpenSettings, Set!OpenSettings,
         CP!Set!CloseSettings, Set!CloseSettings, CP!Set!Quit, Set!Quit, CP!Set!StartUp,
         Set!StartUp, CP!Set!Voice, Set!Voice, CP!Set!Join, Set!Join, CP!Set!Leave, Set!Leave,
         CP!Set!Next, Set!Next
<1>3. CP!Set!TypeOK <=> Set!TypeOK
  BY DEF CP!Set!Names, Set!Names, CP!Set!Levels, Set!Levels, CP!Set!Setting, Set!Setting,
         CP!Set!TypeOK, Set!TypeOK
<1>4. CP!Set!SettingsAgree <=> Set!SettingsAgree
  BY DEF CP!Set!SettingsAgree, Set!SettingsAgree
<1> QED
  BY <1>1, <1>2, <1>3, <1>4

(* A behaviour in which it is this component's turn is one of Settings.    *)
LEMMA SetRuns == PartsSpec /\ part = "settings" => CP!Set!Spec
<1>1. PartsInit /\ part = "settings" => CP!Set!Init
  BY SameSet DEF PartsInit
<1>2. part = "settings" /\ [PartsNext]_vars => [CP!Set!Next]_(CP!Set!vars)
  BY SameSet DEF PartsNext, vars, CP!Set!vars
<1>3. part = "settings" /\ [PartsNext]_vars => (part = "settings")'
  BY DEF PartsNext, vars
<1> QED
  BY <1>1, <1>2, <1>3, PTL DEF PartsSpec, CP!Set!Spec

(* ScreenShare is instantiated alike in ClientProofs and here.             *)
LEMMA SameShare ==
    /\ CP!Share!Init <=> Share!Init
    /\ CP!Share!Next <=> Share!Next
    /\ CP!Share!TypeOK <=> Share!TypeOK
    /\ CP!Share!SharingAgrees <=> Share!SharingAgrees
<1>1. CP!Share!Init <=> Share!Init
  BY DEF CP!Share!Init, Share!Init
<1>2. CP!Share!Next <=> Share!Next
  BY DEF CP!Share!state, Share!state, CP!Share!view, Share!view, CP!Share!Idle, Share!Idle,
         CP!Share!Unfinished, Share!Unfinished, CP!Share!Spawned, Share!Spawned, CP!Share!Start,
         Share!Start, CP!Share!Click, Share!Click, CP!Share!ClickJoin, Share!ClickJoin,
         CP!Share!ClickLeave, Share!ClickLeave, CP!Share!ClickVideo, Share!ClickVideo,
         CP!Share!ClickScreen, Share!ClickScreen, CP!Share!NoClick, Share!NoClick,
         CP!Share!ViewChat, Share!ViewChat, CP!Share!Opens, Share!Opens, CP!Share!Showed,
         Share!Showed, CP!Share!Keeps, Share!Keeps, CP!Share!View, Share!View, CP!Share!ViewOn,
         Share!ViewOn, CP!Share!ViewShare, Share!ViewShare, CP!Share!ViewCancel, Share!ViewCancel,
         CP!Share!Goto, Share!Goto, CP!Share!Enter, Share!Enter, CP!Share!Insert, Share!Insert,
         CP!Share!Delete, Share!Delete, CP!Share!Lost, Share!Lost, CP!Share!JoinLost,
         Share!JoinLost, CP!Share!LeaveLost, Share!LeaveLost, CP!Share!Exit, Share!Exit,
         CP!Share!Want, Share!Want, CP!Share!Written, Share!Written, CP!Share!Tell, Share!Tell,
         CP!Share!Share, Share!Share, CP!Share!Video, Share!Video, CP!Share!Next, Share!Next
<1>3. CP!Share!TypeOK <=> Share!TypeOK
  BY DEF CP!Share!Idle, Share!Idle, CP!Share!Odd, Share!Odd, CP!Share!TypeOK, Share!TypeOK
<1>4. CP!Share!SharingAgrees <=> Share!SharingAgrees
  BY DEF CP!Share!Idle, Share!Idle, CP!Share!Unfinished, Share!Unfinished, CP!Share!Opens,
         Share!Opens, CP!Share!Keeps, Share!Keeps, CP!Share!Settled, Share!Settled,
         CP!Share!SharingAgrees, Share!SharingAgrees
<1> QED
  BY <1>1, <1>2, <1>3, <1>4

(* A behaviour in which it is this component's turn is one of ScreenShare. *)
LEMMA ShareRuns == PartsSpec /\ part = "share" => CP!Share!Spec
<1>1. PartsInit /\ part = "share" => CP!Share!Init
  BY SameShare DEF PartsInit
<1>2. part = "share" /\ [PartsNext]_vars => [CP!Share!Next]_(CP!Share!vars)
  BY SameShare DEF PartsNext, vars, CP!Share!state, CP!Share!view, CP!Share!vars
<1>3. part = "share" /\ [PartsNext]_vars => (part = "share")'
  BY DEF PartsNext, vars
<1> QED
  BY <1>1, <1>2, <1>3, PTL DEF PartsSpec, CP!Share!Spec

(* RemoteTracks is instantiated alike in ClientProofs and here.            *)
LEMMA SameTracks ==
    /\ CP!Tracks!Init <=> Tracks!Init
    /\ CP!Tracks!Next <=> Tracks!Next
    /\ CP!Tracks!TypeOK <=> Tracks!TypeOK
    /\ CP!Tracks!TracksDecoded <=> Tracks!TracksDecoded
<1>1. CP!Tracks!Init <=> Tracks!Init
  BY DEF CP!Tracks!Tracks, Tracks!Tracks, CP!Tracks!Init, Tracks!Init
<1>2. CP!Tracks!Next <=> Tracks!Next
  BY DEF CP!Tracks!Tracks, Tracks!Tracks, CP!Tracks!session, Tracks!session, CP!Tracks!history,
         Tracks!history, CP!Tracks!Decoded, Tracks!Decoded, CP!Tracks!StartHandler,
         Tracks!StartHandler, CP!Tracks!Offer, Tracks!Offer, CP!Tracks!Appear, Tracks!Appear,
         CP!Tracks!OnTrack, Tracks!OnTrack, CP!Tracks!AlreadyHandled, Tracks!AlreadyHandled,
         CP!Tracks!Look, Tracks!Look, CP!Tracks!Mark, Tracks!Mark, CP!Tracks!EndRound,
         Tracks!EndRound, CP!Tracks!Decode, Tracks!Decode, CP!Tracks!EndHandler, Tracks!EndHandler,
         CP!Tracks!Watch, Tracks!Watch, CP!Tracks!Unwatch, Tracks!Unwatch, CP!Tracks!Ends,
         Tracks!Ends, CP!Tracks!Draw, Tracks!Draw, CP!Tracks!NewSession, Tracks!NewSession,
         CP!Tracks!Switch, Tracks!Switch, CP!Tracks!Disconnect, Tracks!Disconnect, CP!Tracks!Next,
         Tracks!Next
<1>3. CP!Tracks!TypeOK <=> Tracks!TypeOK
  BY DEF CP!Tracks!Tracks, Tracks!Tracks, CP!Tracks!TypeOK, Tracks!TypeOK
<1>4. CP!Tracks!TracksDecoded <=> Tracks!TracksDecoded
  BY DEF CP!Tracks!Decoded, Tracks!Decoded, CP!Tracks!Polled, Tracks!Polled,
         CP!Tracks!TracksDecoded, Tracks!TracksDecoded
<1> QED
  BY <1>1, <1>2, <1>3, <1>4

(* A behaviour in which it is this component's turn is one of              *)
(* RemoteTracks.                                                           *)
LEMMA TracksRuns == PartsSpec /\ part = "tracks" => CP!Tracks!Spec
<1>1. PartsInit /\ part = "tracks" => CP!Tracks!Init
  BY SameTracks DEF PartsInit
<1>2. part = "tracks" /\ [PartsNext]_vars => [CP!Tracks!Next]_(CP!Tracks!vars)
  BY SameTracks DEF PartsNext, vars, CP!Tracks!session, CP!Tracks!history, CP!Tracks!vars
<1>3. part = "tracks" /\ [PartsNext]_vars => (part = "tracks")'
  BY DEF PartsNext, vars
<1> QED
  BY <1>1, <1>2, <1>3, PTL DEF PartsSpec, CP!Tracks!Spec

(* The actions of VideoStream, one by one, are the same in ClientProofs    *)
(* and here.                                                               *)
LEMMA VideoActions == CP!Video!Next <=> Video!Next
<1>1. CP!Video!Frames = Video!Frames
  BY DEF CP!Video!Frames, Video!Frames, CP!Video!Cardinality, Video!Cardinality
<1>2. CP!Video!Packets <=> Video!Packets
  BY DEF CP!Video!Frames, Video!Frames, CP!Video!Parts, Video!Parts, CP!Video!Packets,
         Video!Packets, CP!Video!Cardinality, Video!Cardinality
<1>3. CP!Video!Capture <=> Video!Capture
  BY DEF CP!Video!decoder, Video!decoder, CP!Video!history, Video!history, CP!Video!Capture,
         Video!Capture, CP!Video!Cardinality, Video!Cardinality
<1>4. \A f, large, anew : CP!Video!Encode(f, large, anew) <=> Video!Encode(f, large, anew)
  BY DEF CP!Video!decoder, Video!decoder, CP!Video!history, Video!history, CP!Video!FirstOf,
         Video!FirstOf, CP!Video!Encode, Video!Encode, CP!Video!Cardinality, Video!Cardinality
<1>5. \A f : CP!Video!Fails(f) <=> Video!Fails(f)
  BY DEF CP!Video!decoder, Video!decoder, CP!Video!history, Video!history, CP!Video!Fails,
         Video!Fails, CP!Video!Cardinality, Video!Cardinality
<1>6. \A p : CP!Video!Write(p) <=> Video!Write(p)
  BY DEF CP!Video!decoder, Video!decoder, CP!Video!history, Video!history, CP!Video!After,
         Video!After, CP!Video!Write, Video!Write, CP!Video!Cardinality, Video!Cardinality
<1>7. CP!Video!Subscribe <=> Video!Subscribe
  BY DEF CP!Video!publisher, Video!publisher, CP!Video!decoder, Video!decoder, CP!Video!history,
         Video!history, CP!Video!Subscribe, Video!Subscribe, CP!Video!Cardinality, Video!Cardinality
<1>8. CP!Video!Unsubscribe <=> Video!Unsubscribe
  BY DEF CP!Video!publisher, Video!publisher, CP!Video!decoder, Video!decoder, CP!Video!history,
         Video!history, CP!Video!Unsubscribe, Video!Unsubscribe, CP!Video!Cardinality,
         Video!Cardinality
<1>9. CP!Video!TryAgain <=> Video!TryAgain
  BY DEF CP!Video!publisher, Video!publisher, CP!Video!decoder, Video!decoder, CP!Video!history,
         Video!history, CP!Video!TryAgain, Video!TryAgain, CP!Video!Cardinality, Video!Cardinality
<1>10. \A p : CP!Video!Lose(p) <=> Video!Lose(p)
  BY DEF CP!Video!publisher, Video!publisher, CP!Video!decoder, Video!decoder, CP!Video!history,
         Video!history, CP!Video!Lose, Video!Lose, CP!Video!Cardinality, Video!Cardinality
<1>11. \A p : CP!Video!Forward(p) <=> Video!Forward(p)
  BY DEF CP!Video!publisher, Video!publisher, CP!Video!decoder, Video!decoder, CP!Video!history,
         Video!history, CP!Video!Buffered, Video!Buffered, CP!Video!Fragments, Video!Fragments,
         CP!Video!Whole, Video!Whole, CP!Video!Hand, Video!Hand, CP!Video!Depayload,
         Video!Depayload, CP!Video!Forward, Video!Forward, CP!Video!Cardinality, Video!Cardinality
<1>12. CP!Video!Closed <=> Video!Closed
  BY DEF CP!Video!publisher, Video!publisher, CP!Video!decoder, Video!decoder, CP!Video!history,
         Video!history, CP!Video!Closed, Video!Closed, CP!Video!Cardinality, Video!Cardinality
<1> QED
  BY <1>1, <1>2, <1>3, <1>4, <1>5, <1>6, <1>7, <1>8, <1>9, <1>10, <1>11, <1>12 DEF CP!Video!Next, Video!Next

(* VideoStream is instantiated alike in ClientProofs and here.             *)
LEMMA SameVideo ==
    /\ CP!Video!Init <=> Video!Init
    /\ CP!Video!Next <=> Video!Next
    /\ CP!Video!TypeOK <=> Video!TypeOK
    /\ CP!Video!SamplesSurvive <=> Video!SamplesSurvive
<1>1. CP!Video!Init <=> Video!Init
  BY DEF CP!Video!Init, Video!Init, CP!Video!Cardinality, Video!Cardinality
<1>2. CP!Video!Next <=> Video!Next
  BY VideoActions
<1>3. CP!Video!TypeOK <=> Video!TypeOK
  BY DEF CP!Video!Frames, Video!Frames, CP!Video!Parts, Video!Parts, CP!Video!Packets,
         Video!Packets, CP!Video!TypeOK, Video!TypeOK, CP!Video!Cardinality, Video!Cardinality
<1>4. CP!Video!SamplesSurvive <=> Video!SamplesSurvive
  BY DEF CP!Video!Frames, Video!Frames, CP!Video!Fragments, Video!Fragments, CP!Video!InARow,
         Video!InARow, CP!Video!Stretch, Video!Stretch, CP!Video!SamplesSurvive,
         Video!SamplesSurvive, CP!Video!Cardinality, Video!Cardinality
<1> QED
  BY <1>1, <1>2, <1>3, <1>4

(* A behaviour in which it is this component's turn is one of VideoStream. *)
LEMMA VideoRuns == PartsSpec /\ part = "video" => CP!Video!Spec
<1>1. PartsInit /\ part = "video" => CP!Video!Init
  BY SameVideo DEF PartsInit
<1>2. part = "video" /\ [PartsNext]_vars => [CP!Video!Next]_(CP!Video!vars)
  BY SameVideo DEF PartsNext, vars, CP!Video!publisher, CP!Video!decoder, CP!Video!history, CP!Video!vars
<1>3. part = "video" /\ [PartsNext]_vars => (part = "video")'
  BY DEF PartsNext, vars
<1> QED
  BY <1>1, <1>2, <1>3, PTL DEF PartsSpec, CP!Video!Spec

(* AudioPlayer is instantiated alike in ClientProofs and here.             *)
LEMMA SamePlayer ==
    /\ CP!Player!Init <=> Player!Init
    /\ CP!Player!Next <=> Player!Next
    /\ CP!Player!TypeOK <=> Player!TypeOK
    /\ CP!Player!PlayerAgrees <=> Player!PlayerAgrees
<1>1. CP!Player!Init <=> Player!Init
  BY DEF CP!Player!States, Player!States, CP!Player!NoState, Player!NoState, CP!Player!Init,
         Player!Init
<1>2. CP!Player!Next <=> Player!Next
  BY DEF CP!Player!States, Player!States, CP!Player!NoState, Player!NoState, CP!Player!Tracker,
         Player!Tracker, CP!Player!IsCurrent, Player!IsCurrent, CP!Player!Play, Player!Play,
         CP!Player!PlayFails, Player!PlayFails, CP!Player!Let, Player!Let, CP!Player!Toggle,
         Player!Toggle, CP!Player!Sought, Player!Sought, CP!Player!Seek, Player!Seek,
         CP!Player!SeekFails, Player!SeekFails, CP!Player!Least, Player!Least, CP!Player!Tick,
         Player!Tick, CP!Player!Goes, Player!Goes, CP!Player!CheckGeneration,
         Player!CheckGeneration, CP!Player!CheckFlag, Player!CheckFlag, CP!Player!Store,
         Player!Store, CP!Player!Next, Player!Next
<1>3. CP!Player!TypeOK <=> Player!TypeOK
  BY DEF CP!Player!States, Player!States, CP!Player!Steps, Player!Steps, CP!Player!TypeOK,
         Player!TypeOK
<1>4. CP!Player!PlayerAgrees <=> Player!PlayerAgrees
  BY DEF CP!Player!States, Player!States, CP!Player!NoState, Player!NoState, CP!Player!Tracked,
         Player!Tracked, CP!Player!PlayerAgrees, Player!PlayerAgrees
<1> QED
  BY <1>1, <1>2, <1>3, <1>4

(* A behaviour in which it is this component's turn is one of AudioPlayer. *)
LEMMA PlayerRuns == PartsSpec /\ part = "player" => CP!Player!Spec
<1>1. PartsInit /\ part = "player" => CP!Player!Init
  BY SamePlayer DEF PartsInit
<1>2. part = "player" /\ [PartsNext]_vars => [CP!Player!Next]_(CP!Player!vars)
  BY SamePlayer DEF PartsNext, vars, CP!Player!vars
<1>3. part = "player" /\ [PartsNext]_vars => (part = "player")'
  BY DEF PartsNext, vars
<1> QED
  BY <1>1, <1>2, <1>3, PTL DEF PartsSpec, CP!Player!Spec

(* Uploads is instantiated alike in ServerProofs and here.                 *)
LEMMA SameUp ==
    /\ SP!Up!Init <=> Up!Init
    /\ SP!Up!Next <=> Up!Next
    /\ SP!Up!TypeOK <=> Up!TypeOK
    /\ SP!Up!UploadsAgree <=> Up!UploadsAgree
<1>1. SP!Up!Init <=> Up!Init
  BY DEF SP!Up!Requests, Up!Requests, SP!Up!NewReq, Up!NewReq, SP!Up!Init, Up!Init
<1>2. SP!Up!Next <=> Up!Next
  BY DEF SP!Up!Requests, Up!Requests, SP!Up!tables, Up!tables, SP!Up!At, Up!At, SP!Up!Goes, Up!Goes,
         SP!Up!IsNext, Up!IsNext, SP!Up!Comes, Up!Comes, SP!Up!Upload, Up!Upload, SP!Up!CreateFile,
         Up!CreateFile, SP!Up!WriteFile, Up!WriteFile, SP!Up!LastBlock, Up!LastBlock,
         SP!Up!InsertRow, Up!InsertRow, SP!Up!Uploaded, Up!Uploaded, SP!Up!Send, Up!Send,
         SP!Up!InsertMessage, Up!InsertMessage, SP!Up!Link, Up!Link, SP!Up!LinkedTo, Up!LinkedTo,
         SP!Up!Announce, Up!Announce, SP!Up!DeleteMessage, Up!DeleteMessage, SP!Up!Delete,
         Up!Delete, SP!Up!Get, Up!Get, SP!Up!AfterExists, Up!AfterExists, SP!Up!Exists, Up!Exists,
         SP!Up!RemoveFile, Up!RemoveFile, SP!Up!DropRow, Up!DropRow, SP!Up!Download, Up!Download,
         SP!Up!FindRow, Up!FindRow, SP!Up!ReadFile, Up!ReadFile, SP!Up!Stop, Up!Stop, SP!Up!Handle,
         Up!Handle, SP!Up!Next, Up!Next
<1>3. SP!Up!TypeOK <=> Up!TypeOK
  BY DEF SP!Up!Requests, Up!Requests, SP!Up!Kinds, Up!Kinds, SP!Up!Steps, Up!Steps, SP!Up!TypeOK,
         Up!TypeOK
<1>4. SP!Up!UploadsAgree <=> Up!UploadsAgree
  BY DEF SP!Up!Requests, Up!Requests, SP!Up!At, Up!At, SP!Up!Deleting, Up!Deleting,
         SP!Up!UploadsAgree, Up!UploadsAgree
<1> QED
  BY <1>1, <1>2, <1>3, <1>4

(* A behaviour in which it is this component's turn is one of Uploads.     *)
LEMMA UpRuns == PartsSpec /\ part = "uploads" => SP!Up!Spec
<1>1. PartsInit /\ part = "uploads" => SP!Up!Init
  BY SameUp DEF PartsInit
<1>2. part = "uploads" /\ [PartsNext]_vars => [SP!Up!Next]_(SP!Up!vars)
  BY SameUp DEF PartsNext, vars, SP!Up!vars
<1>3. part = "uploads" /\ [PartsNext]_vars => (part = "uploads")'
  BY DEF PartsNext, vars
<1> QED
  BY <1>1, <1>2, <1>3, PTL DEF PartsSpec, SP!Up!Spec

(* Records is instantiated alike in ServerProofs and here.                 *)
LEMMA SameRec ==
    /\ SP!Rec!Init <=> Rec!Init
    /\ SP!Rec!Next <=> Rec!Next
    /\ SP!Rec!TypeOK <=> Rec!TypeOK
    /\ SP!Rec!RecordsAgree <=> Rec!RecordsAgree
<1>1. SP!Rec!Init <=> Rec!Init
  BY DEF SP!Rec!Requests, Rec!Requests, SP!Rec!NoInvite, Rec!NoInvite, SP!Rec!NewReq, Rec!NewReq,
         SP!Rec!Init, Rec!Init, SP!Rec!Cardinality, Rec!Cardinality
<1>2. SP!Rec!Next <=> Rec!Next
  BY DEF SP!Rec!Requests, Rec!Requests, SP!Rec!tables, Rec!tables, SP!Rec!NoInvite, Rec!NoInvite,
         SP!Rec!Odd, Rec!Odd, SP!Rec!NewReq, Rec!NewReq, SP!Rec!At, Rec!At, SP!Rec!Goes, Rec!Goes,
         SP!Rec!Fails, Rec!Fails, SP!Rec!IsNext, Rec!IsNext, SP!Rec!Comes, Rec!Comes,
         SP!Rec!CreateCommunity, Rec!CreateCommunity, SP!Rec!CreateAnother, Rec!CreateAnother,
         SP!Rec!AddOwner, Rec!AddOwner, SP!Rec!MaxSteps, Rec!MaxSteps, SP!Rec!NameAt, Rec!NameAt,
         SP!Rec!NextPosition, Rec!NextPosition, SP!Rec!Places, Rec!Places, SP!Rec!ReadMax,
         Rec!ReadMax, SP!Rec!InsertChannel, Rec!InsertChannel, SP!Rec!CheckOwner, Rec!CheckOwner,
         SP!Rec!DeleteCommunity, Rec!DeleteCommunity, SP!Rec!DeleteChannel, Rec!DeleteChannel,
         SP!Rec!CheckMember, Rec!CheckMember, SP!Rec!InsertInvite, Rec!InsertInvite,
         SP!Rec!FindInvite, Rec!FindInvite, SP!Rec!Joins, Rec!Joins, SP!Rec!CheckJoined,
         Rec!CheckJoined, SP!Rec!AddMember, Rec!AddMember, SP!Rec!CountUse, Rec!CountUse,
         SP!Rec!Pair, Rec!Pair, SP!Rec!PairOf, Rec!PairOf, SP!Rec!Found, Rec!Found, SP!Rec!FindDm,
         Rec!FindDm, SP!Rec!InsertDm, Rec!InsertDm, SP!Rec!LinkDm, Rec!LinkDm, SP!Rec!Stop,
         Rec!Stop, SP!Rec!Request, Rec!Request, SP!Rec!Handle, Rec!Handle, SP!Rec!Next, Rec!Next,
         SP!Rec!Cardinality, Rec!Cardinality
<1>3. SP!Rec!TypeOK <=> Rec!TypeOK
  BY DEF SP!Rec!Requests, Rec!Requests, SP!Rec!Kinds, Rec!Kinds, SP!Rec!Steps, Rec!Steps,
         SP!Rec!Odd, Rec!Odd, SP!Rec!TypeOK, Rec!TypeOK, SP!Rec!Cardinality, Rec!Cardinality
<1>4. SP!Rec!RecordsAgree <=> Rec!RecordsAgree
  BY DEF SP!Rec!Requests, Rec!Requests, SP!Rec!NoInvite, Rec!NoInvite, SP!Rec!Pair, Rec!Pair,
         SP!Rec!Settled, Rec!Settled, SP!Rec!RecordsAgree, Rec!RecordsAgree, SP!Rec!Cardinality,
         Rec!Cardinality
<1> QED
  BY <1>1, <1>2, <1>3, <1>4

(* A behaviour in which it is this component's turn is one of Records.     *)
LEMMA RecRuns == PartsSpec /\ part = "records" => SP!Rec!Spec
<1>1. PartsInit /\ part = "records" => SP!Rec!Init
  BY SameRec DEF PartsInit
<1>2. part = "records" /\ [PartsNext]_vars => [SP!Rec!Next]_(SP!Rec!vars)
  BY SameRec DEF PartsNext, vars, SP!Rec!tables, SP!Rec!vars
<1>3. part = "records" /\ [PartsNext]_vars => (part = "records")'
  BY DEF PartsNext, vars
<1> QED
  BY <1>1, <1>2, <1>3, PTL DEF PartsSpec, SP!Rec!Spec

(* The actions of Voice, one by one, are the same in ServerProofs and as   *)
(* V.                                                                      *)
LEMMA VActions == SP!V!Next <=> V!Next
<1>1. \A k : SP!V!Who(k) <=> V!Who(k)
  BY DEF SP!V!Who, V!Who
<1>2. \A k, u, c : SP!V!ClickJoin(k, u, c) <=> V!ClickJoin(k, u, c)
  BY DEF SP!V!db, V!db, SP!V!socket, V!socket, SP!V!client, V!client, SP!V!Idle, V!Idle, SP!V!Who,
         V!Who, SP!V!Goto, V!Goto, SP!V!Unfinished, V!Unfinished, SP!V!Spawn, V!Spawn,
         SP!V!ClickJoin, V!ClickJoin
<1>3. \A k, u : SP!V!ClickLeave(k, u) <=> V!ClickLeave(k, u)
  BY DEF SP!V!db, V!db, SP!V!socket, V!socket, SP!V!client, V!client, SP!V!Idle, V!Idle, SP!V!Who,
         V!Who, SP!V!Goto, V!Goto, SP!V!Unfinished, V!Unfinished, SP!V!Spawn, V!Spawn,
         SP!V!ClickLeave, V!ClickLeave
<1>4. \A k, u : SP!V!ClickToggle(k, u) <=> V!ClickToggle(k, u)
  BY DEF SP!V!db, V!db, SP!V!socket, V!socket, SP!V!client, V!client, SP!V!Idle, V!Idle, SP!V!Who,
         V!Who, SP!V!Goto, V!Goto, SP!V!Unfinished, V!Unfinished, SP!V!Spawn, V!Spawn,
         SP!V!ClickToggle, V!ClickToggle
<1>5. \A u : SP!V!ServeSubscribe(u) <=> V!ServeSubscribe(u)
  BY DEF SP!V!db, V!db, SP!V!client, V!client, SP!V!task, V!task, SP!V!past, V!past,
         SP!V!ServeSubscribe, V!ServeSubscribe
<1>6. \A x : SP!V!ReadEvent(x) <=> V!ReadEvent(x)
  BY DEF SP!V!db, V!db, SP!V!task, V!task, SP!V!AfterJoined, V!AfterJoined, SP!V!AfterLeft,
         V!AfterLeft, SP!V!AfterUpdate, V!AfterUpdate, SP!V!ReadEvent, V!ReadEvent
<1>7. \A u : SP!V!Disconnect(u) <=> V!Disconnect(u)
  BY DEF SP!V!client, V!client, SP!V!task, V!task, SP!V!Disconnect, V!Disconnect
<1>8. \A k : SP!V!Step(k) <=> V!Step(k)
  BY DEF SP!V!db, V!db, SP!V!socket, V!socket, SP!V!client, V!client, SP!V!past, V!past,
         SP!V!Nobody, V!Nobody, SP!V!ValueOf, V!ValueOf, SP!V!Who, V!Who, SP!V!Goto, V!Goto,
         SP!V!Broadcast, V!Broadcast, SP!V!Subscribe, V!Subscribe, SP!V!EnterLocally,
         V!EnterLocally, SP!V!LeaveForJoin, V!LeaveForJoin, SP!V!Taken, V!Taken, SP!V!InsertRow,
         V!InsertRow, SP!V!TellJoin, V!TellJoin, SP!V!Participants, V!Participants, SP!V!Fetch,
         V!Fetch, SP!V!Others, V!Others, SP!V!Fill, V!Fill, SP!V!LeaveLocally, V!LeaveLocally,
         SP!V!LeaveSelect, V!LeaveSelect, SP!V!LeaveDelete, V!LeaveDelete, SP!V!TellLeave,
         V!TellLeave, SP!V!Update, V!Update, SP!V!TellUpdate, V!TellUpdate, SP!V!KeepFlag,
         V!KeepFlag, SP!V!Fails, V!Fails, SP!V!JoinFails, V!JoinFails, SP!V!LeaveFails,
         V!LeaveFails, SP!V!UpdateFails, V!UpdateFails, SP!V!FetchFails, V!FetchFails, SP!V!Step,
         V!Step
<1> QED
  BY <1>1, <1>2, <1>3, <1>4, <1>5, <1>6, <1>7, <1>8 DEF SP!V!Next, V!Next

(* Voice is instantiated alike in ServerProofs and as V.                   *)
LEMMA SameV ==
    /\ SP!V!Init <=> V!Init
    /\ SP!V!Next <=> V!Next
    /\ SP!V!TypeOK <=> V!TypeOK
    /\ SP!V!ViewsAgree <=> V!ViewsAgree
    /\ SP!V!PlaceAgrees <=> V!PlaceAgrees
<1>1. SP!V!Init <=> V!Init
  BY DEF SP!V!Nobody, V!Nobody, SP!V!Init, V!Init
<1>2. SP!V!Next <=> V!Next
  BY VActions
<1>3. SP!V!TypeOK <=> V!TypeOK
  BY DEF SP!V!Entries, V!Entries, SP!V!Events, V!Events, SP!V!Idle, V!Idle, SP!V!Labels, V!Labels,
         SP!V!TypeOK, V!TypeOK
<1>4. SP!V!ViewsAgree <=> V!ViewsAgree
  BY DEF SP!V!Idle, V!Idle, SP!V!Participants, V!Participants, SP!V!Quiet, V!Quiet, SP!V!ViewsAgree,
         V!ViewsAgree
<1>5. SP!V!PlaceAgrees <=> V!PlaceAgrees
  BY DEF SP!V!Idle, V!Idle, SP!V!Quiet, V!Quiet, SP!V!PlaceAgrees, V!PlaceAgrees
<1> QED
  BY <1>1, <1>2, <1>3, <1>4, <1>5

(* A behaviour in which it is this component's turn is one of Voice.       *)
LEMMA VRuns == PartsSpec /\ part = "voice" => SP!V!Spec
<1>1. PartsInit /\ part = "voice" => SP!V!Init
  BY SameV DEF PartsInit
<1>2. part = "voice" /\ [PartsNext]_vars => [SP!V!Next]_(SP!V!vars)
  BY SameV DEF PartsNext, vars, SP!V!db, SP!V!socket, SP!V!client, SP!V!task, SP!V!past, SP!V!vars
<1>3. part = "voice" /\ [PartsNext]_vars => (part = "voice")'
  BY DEF PartsNext, vars
<1> QED
  BY <1>1, <1>2, <1>3, PTL DEF PartsSpec, SP!V!Spec

(* The actions of Voice, one by one, are the same in ServerProofs and as   *)
(* W.                                                                      *)
LEMMA WActions == SW!V!Next <=> W!Next
<1>1. \A k : SW!V!Who(k) <=> W!Who(k)
  BY DEF SW!V!Who, W!Who
<1>2. \A k, u, c : SW!V!ClickJoin(k, u, c) <=> W!ClickJoin(k, u, c)
  BY DEF SW!V!db, W!db, SW!V!socket, W!socket, SW!V!client, W!client, SW!V!Idle, W!Idle, SW!V!Who,
         W!Who, SW!V!Goto, W!Goto, SW!V!Unfinished, W!Unfinished, SW!V!Spawn, W!Spawn,
         SW!V!ClickJoin, W!ClickJoin
<1>3. \A k, u : SW!V!ClickLeave(k, u) <=> W!ClickLeave(k, u)
  BY DEF SW!V!db, W!db, SW!V!socket, W!socket, SW!V!client, W!client, SW!V!Idle, W!Idle, SW!V!Who,
         W!Who, SW!V!Goto, W!Goto, SW!V!Unfinished, W!Unfinished, SW!V!Spawn, W!Spawn,
         SW!V!ClickLeave, W!ClickLeave
<1>4. \A k, u : SW!V!ClickToggle(k, u) <=> W!ClickToggle(k, u)
  BY DEF SW!V!db, W!db, SW!V!socket, W!socket, SW!V!client, W!client, SW!V!Idle, W!Idle, SW!V!Who,
         W!Who, SW!V!Goto, W!Goto, SW!V!Unfinished, W!Unfinished, SW!V!Spawn, W!Spawn,
         SW!V!ClickToggle, W!ClickToggle
<1>5. \A u : SW!V!ServeSubscribe(u) <=> W!ServeSubscribe(u)
  BY DEF SW!V!db, W!db, SW!V!client, W!client, SW!V!task, W!task, SW!V!past, W!past,
         SW!V!ServeSubscribe, W!ServeSubscribe
<1>6. \A x : SW!V!ReadEvent(x) <=> W!ReadEvent(x)
  BY DEF SW!V!db, W!db, SW!V!task, W!task, SW!V!AfterJoined, W!AfterJoined, SW!V!AfterLeft,
         W!AfterLeft, SW!V!AfterUpdate, W!AfterUpdate, SW!V!ReadEvent, W!ReadEvent
<1>7. \A u : SW!V!Disconnect(u) <=> W!Disconnect(u)
  BY DEF SW!V!client, W!client, SW!V!task, W!task, SW!V!Disconnect, W!Disconnect
<1>8. \A k : SW!V!Step(k) <=> W!Step(k)
  BY DEF SW!V!db, W!db, SW!V!socket, W!socket, SW!V!client, W!client, SW!V!past, W!past,
         SW!V!Nobody, W!Nobody, SW!V!ValueOf, W!ValueOf, SW!V!Who, W!Who, SW!V!Goto, W!Goto,
         SW!V!Broadcast, W!Broadcast, SW!V!Subscribe, W!Subscribe, SW!V!EnterLocally,
         W!EnterLocally, SW!V!LeaveForJoin, W!LeaveForJoin, SW!V!Taken, W!Taken, SW!V!InsertRow,
         W!InsertRow, SW!V!TellJoin, W!TellJoin, SW!V!Participants, W!Participants, SW!V!Fetch,
         W!Fetch, SW!V!Others, W!Others, SW!V!Fill, W!Fill, SW!V!LeaveLocally, W!LeaveLocally,
         SW!V!LeaveSelect, W!LeaveSelect, SW!V!LeaveDelete, W!LeaveDelete, SW!V!TellLeave,
         W!TellLeave, SW!V!Update, W!Update, SW!V!TellUpdate, W!TellUpdate, SW!V!KeepFlag,
         W!KeepFlag, SW!V!Fails, W!Fails, SW!V!JoinFails, W!JoinFails, SW!V!LeaveFails,
         W!LeaveFails, SW!V!UpdateFails, W!UpdateFails, SW!V!FetchFails, W!FetchFails, SW!V!Step,
         W!Step
<1> QED
  BY <1>1, <1>2, <1>3, <1>4, <1>5, <1>6, <1>7, <1>8 DEF SW!V!Next, W!Next

(* Voice is instantiated alike in ServerProofs and as W.                   *)
LEMMA SameW ==
    /\ SW!V!Init <=> W!Init
    /\ SW!V!Next <=> W!Next
    /\ SW!V!TypeOK <=> W!TypeOK
    /\ SW!V!ViewsAgree <=> W!ViewsAgree
    /\ SW!V!PlaceAgrees <=> W!PlaceAgrees
<1>1. SW!V!Init <=> W!Init
  BY DEF SW!V!Nobody, W!Nobody, SW!V!Init, W!Init
<1>2. SW!V!Next <=> W!Next
  BY WActions
<1>3. SW!V!TypeOK <=> W!TypeOK
  BY DEF SW!V!Entries, W!Entries, SW!V!Events, W!Events, SW!V!Idle, W!Idle, SW!V!Labels, W!Labels,
         SW!V!TypeOK, W!TypeOK
<1>4. SW!V!ViewsAgree <=> W!ViewsAgree
  BY DEF SW!V!Idle, W!Idle, SW!V!Participants, W!Participants, SW!V!Quiet, W!Quiet, SW!V!ViewsAgree,
         W!ViewsAgree
<1>5. SW!V!PlaceAgrees <=> W!PlaceAgrees
  BY DEF SW!V!Idle, W!Idle, SW!V!Quiet, W!Quiet, SW!V!PlaceAgrees, W!PlaceAgrees
<1> QED
  BY <1>1, <1>2, <1>3, <1>4, <1>5

(* A behaviour in which it is this component's turn is one of Voice.       *)
LEMMA WRuns == PartsSpec /\ part = "voices" => SW!V!Spec
<1>1. PartsInit /\ part = "voices" => SW!V!Init
  BY SameW DEF PartsInit
<1>2. part = "voices" /\ [PartsNext]_vars => [SW!V!Next]_(SW!V!vars)
  BY SameW DEF PartsNext, vars, SW!V!db, SW!V!socket, SW!V!client, SW!V!task, SW!V!past, SW!V!vars
<1>3. part = "voices" /\ [PartsNext]_vars => (part = "voices")'
  BY DEF PartsNext, vars
<1> QED
  BY <1>1, <1>2, <1>3, PTL DEF PartsSpec, SW!V!Spec

(* The actions of ChannelFeed, one by one, are the same in ServerProofs    *)
(* and as Older.                                                           *)
LEMMA OlderActions == SP!Feed!Next <=> Older!Next
<1>1. \A S, i : SP!Feed!Nth(S, i) = Older!Nth(S, i)
  BY DEF SP!Feed!Nth, Older!Nth, SP!Feed!Cardinality, Older!Cardinality
<1>2. \A S : SP!Feed!Cardinality(S) = Older!Cardinality(S)
  BY DEF SP!Feed!Cardinality, Older!Cardinality
<1>3. \A m : SP!Feed!Row(m) = Older!Row(m)
  BY DEF SP!Feed!Row, Older!Row
<1>4. \A a, b : SP!Feed!Min2(a, b) = Older!Min2(a, b)
  BY DEF SP!Feed!Min2, Older!Min2
<1>5. \A before : SP!Feed!Page(before) = Older!Page(before)
  <2> SUFFICES ASSUME NEW before PROVE SP!Feed!Page(before) = Older!Page(before)
    OBVIOUS
  <2> DEFINE ids == {m \in v1 : m < before}
  <2>1. SP!Feed!Page(before) = [i \in 1..SP!Feed!Min2(2, SP!Feed!Cardinality(ids)) |->
          SP!Feed!Row(SP!Feed!Nth(ids, SP!Feed!Cardinality(ids) + 1 - i))]
    BY DEF SP!Feed!Page
  <2>2. Older!Page(before) = [i \in 1..Older!Min2(2, Older!Cardinality(ids)) |->
          Older!Row(Older!Nth(ids, Older!Cardinality(ids) + 1 - i))]
    BY DEF Older!Page
  <2> HIDE DEF ids
  <2> QED
    BY <1>1, <1>2, <1>3, <1>4, <2>1, <2>2
<1>6. SP!Feed!Msgs = Older!Msgs
  BY DEF SP!Feed!Msgs, Older!Msgs, SP!Feed!Cardinality, Older!Cardinality
<1>7. SP!Feed!Kinds = Older!Kinds
  BY DEF SP!Feed!Kinds, Older!Kinds, SP!Feed!Cardinality, Older!Cardinality
<1>8. \A r, k, m : SP!Feed!Change(r, k, m) <=> Older!Change(r, k, m)
  BY DEF SP!Feed!Msgs, Older!Msgs, SP!Feed!loads, Older!loads, SP!Feed!scroll, Older!scroll,
         SP!Feed!view, Older!view, SP!Feed!LoadOpen, Older!LoadOpen, SP!Feed!Underway,
         Older!Underway, SP!Feed!Statement, Older!Statement, SP!Feed!Change, Older!Change,
         SP!Feed!Cardinality, Older!Cardinality
<1>9. \A r : SP!Feed!Tell(r) <=> Older!Tell(r)
  BY DEF SP!Feed!db, Older!db, SP!Feed!loads, Older!loads, SP!Feed!scroll, Older!scroll,
         SP!Feed!view, Older!view, SP!Feed!past, Older!past, SP!Feed!NoRow, Older!NoRow,
         SP!Feed!Announced, Older!Announced, SP!Feed!Tell, Older!Tell, SP!Feed!Cardinality,
         Older!Cardinality
<1>10. \A r : SP!Feed!Untold(r) <=> Older!Untold(r)
  BY DEF SP!Feed!db, Older!db, SP!Feed!loads, Older!loads, SP!Feed!scroll, Older!scroll,
         SP!Feed!view, Older!view, SP!Feed!NoRow, Older!NoRow, SP!Feed!Untold, Older!Untold,
         SP!Feed!Cardinality, Older!Cardinality
<1>11. \A r : SP!Feed!DeleteLocally(r) <=> Older!DeleteLocally(r)
  BY DEF SP!Feed!db, Older!db, SP!Feed!loads, Older!loads, SP!Feed!scroll, Older!scroll,
         SP!Feed!view, Older!view, SP!Feed!past, Older!past, SP!Feed!Nth, Older!Nth,
         SP!Feed!Without, Older!Without, SP!Feed!DeleteLocally, Older!DeleteLocally,
         SP!Feed!Cardinality, Older!Cardinality
<1>12. SP!Feed!ReadEvent <=> Older!ReadEvent
  BY DEF SP!Feed!db, Older!db, SP!Feed!request, Older!request, SP!Feed!loads, Older!loads,
         SP!Feed!scroll, Older!scroll, SP!Feed!view, Older!view, SP!Feed!past, Older!past,
         SP!Feed!Nth, Older!Nth, SP!Feed!Without, Older!Without, SP!Feed!Where, Older!Where,
         SP!Feed!FirstOf, Older!FirstOf, SP!Feed!Patch, Older!Patch, SP!Feed!SetPin, Older!SetPin,
         SP!Feed!ReadEvent, Older!ReadEvent, SP!Feed!Cardinality, Older!Cardinality
<1>13. \A l : SP!Feed!GetPage(l) <=> Older!GetPage(l)
  BY <1>5 DEF SP!Feed!Msgs, Older!Msgs, SP!Feed!db, Older!db, SP!Feed!request, Older!request,
         SP!Feed!scroll, Older!scroll, SP!Feed!view, Older!view, SP!Feed!Underway, Older!Underway,
         SP!Feed!OnTheWay, Older!OnTheWay, SP!Feed!GetPage, Older!GetPage
<1>14. \A l : SP!Feed!StorePage(l) <=> Older!StorePage(l)
  BY DEF SP!Feed!db, Older!db, SP!Feed!request, Older!request, SP!Feed!scroll, Older!scroll,
         SP!Feed!view, Older!view, SP!Feed!past, Older!past, SP!Feed!NoPage, Older!NoPage,
         SP!Feed!Ids, Older!Ids, SP!Feed!StorePage, Older!StorePage, SP!Feed!Cardinality,
         Older!Cardinality
<1>15. \A l : SP!Feed!ServeSubscribe(l) <=> Older!ServeSubscribe(l)
  BY DEF SP!Feed!db, Older!db, SP!Feed!request, Older!request, SP!Feed!scroll, Older!scroll,
         SP!Feed!view, Older!view, SP!Feed!past, Older!past, SP!Feed!ServeSubscribe,
         Older!ServeSubscribe, SP!Feed!Cardinality, Older!Cardinality
<1>16. \A timeout : SP!Feed!Frame(timeout) <=> Older!Frame(timeout)
  BY DEF SP!Feed!db, Older!db, SP!Feed!request, Older!request, SP!Feed!loads, Older!loads,
         SP!Feed!scroll, Older!scroll, SP!Feed!past, Older!past, SP!Feed!Grown, Older!Grown,
         SP!Feed!Frame, Older!Frame, SP!Feed!Cardinality, Older!Cardinality
<1>17. \A o : SP!Feed!StartOlder(o) <=> Older!StartOlder(o)
  BY DEF SP!Feed!db, Older!db, SP!Feed!request, Older!request, SP!Feed!loads, Older!loads,
         SP!Feed!past, Older!past, SP!Feed!Oldest, Older!Oldest, SP!Feed!StartOlder,
         Older!StartOlder, SP!Feed!Cardinality, Older!Cardinality
<1>18. \A o : SP!Feed!GetOlder(o) <=> Older!GetOlder(o)
  BY <1>5 DEF SP!Feed!Msgs, Older!Msgs, SP!Feed!db, Older!db, SP!Feed!request, Older!request,
         SP!Feed!loads, Older!loads, SP!Feed!Underway, Older!Underway, SP!Feed!OnTheWay,
         Older!OnTheWay, SP!Feed!GetOlder, Older!GetOlder
<1>19. \A o : SP!Feed!ExtendOlder(o) <=> Older!ExtendOlder(o)
  BY DEF SP!Feed!db, Older!db, SP!Feed!request, Older!request, SP!Feed!loads, Older!loads,
         SP!Feed!Ids, Older!Ids, SP!Feed!ExtendOlder, Older!ExtendOlder, SP!Feed!Cardinality,
         Older!Cardinality
<1> QED
  BY <1>6, <1>7, <1>8, <1>9, <1>10, <1>11, <1>12, <1>13, <1>14, <1>15, <1>16, <1>17, <1>18, <1>19 DEF SP!Feed!Next, Older!Next

(* ChannelFeed is instantiated alike in ServerProofs and as Older.         *)
LEMMA SameOlder ==
    /\ SP!Feed!Init <=> Older!Init
    /\ SP!Feed!Next <=> Older!Next
    /\ SP!Feed!TypeOK <=> Older!TypeOK
    /\ SP!Feed!FeedAgrees <=> Older!FeedAgrees
    /\ SP!Feed!FeedOnce <=> Older!FeedOnce
<1>1. SP!Feed!Init <=> Older!Init
  BY DEF SP!Feed!Msgs, Older!Msgs, SP!Feed!NoRow, Older!NoRow, SP!Feed!NoPage, Older!NoPage,
         SP!Feed!Init, Older!Init, SP!Feed!Cardinality, Older!Cardinality
<1>2. SP!Feed!Next <=> Older!Next
  BY OlderActions
<1>3. SP!Feed!TypeOK <=> Older!TypeOK
  BY DEF SP!Feed!Msgs, Older!Msgs, SP!Feed!Kinds, Older!Kinds, SP!Feed!Entries, Older!Entries,
         SP!Feed!NoRow, Older!NoRow, SP!Feed!TypeOK, Older!TypeOK, SP!Feed!Cardinality,
         Older!Cardinality
<1>4. SP!Feed!FeedAgrees <=> Older!FeedAgrees
  BY DEF SP!Feed!Msgs, Older!Msgs, SP!Feed!Row, Older!Row, SP!Feed!Where, Older!Where,
         SP!Feed!Quiet, Older!Quiet, SP!Feed!Shown, Older!Shown, SP!Feed!FeedAgrees,
         Older!FeedAgrees, SP!Feed!Cardinality, Older!Cardinality
<1>5. SP!Feed!FeedOnce <=> Older!FeedOnce
  BY DEF SP!Feed!Msgs, Older!Msgs, SP!Feed!Where, Older!Where, SP!Feed!FeedOnce, Older!FeedOnce,
         SP!Feed!Cardinality, Older!Cardinality
<1> QED
  BY <1>1, <1>2, <1>3, <1>4, <1>5

(* A behaviour in which it is this component's turn is one of ChannelFeed. *)
LEMMA OlderRuns == PartsSpec /\ part = "older" => SP!Feed!Spec
<1>1. PartsInit /\ part = "older" => SP!Feed!Init
  BY SameOlder DEF PartsInit
<1>2. part = "older" /\ [PartsNext]_vars => [SP!Feed!Next]_(SP!Feed!vars)
  BY SameOlder DEF PartsNext, vars, SP!Feed!db, SP!Feed!request, SP!Feed!loads, SP!Feed!scroll, SP!Feed!view, SP!Feed!past, SP!Feed!vars
<1>3. part = "older" /\ [PartsNext]_vars => (part = "older")'
  BY DEF PartsNext, vars
<1> QED
  BY <1>1, <1>2, <1>3, PTL DEF PartsSpec, SP!Feed!Spec

(* The actions of ChannelFeed, one by one, are the same in ServerProofs    *)
(* and as Loads.                                                           *)
LEMMA LoadsActions == SW!Feed!Next <=> Loads!Next
<1>1. \A S, i : SW!Feed!Nth(S, i) = Loads!Nth(S, i)
  BY DEF SW!Feed!Nth, Loads!Nth, SW!Feed!Cardinality, Loads!Cardinality
<1>2. \A S : SW!Feed!Cardinality(S) = Loads!Cardinality(S)
  BY DEF SW!Feed!Cardinality, Loads!Cardinality
<1>3. \A m : SW!Feed!Row(m) = Loads!Row(m)
  BY DEF SW!Feed!Row, Loads!Row
<1>4. \A a, b : SW!Feed!Min2(a, b) = Loads!Min2(a, b)
  BY DEF SW!Feed!Min2, Loads!Min2
<1>5. \A before : SW!Feed!Page(before) = Loads!Page(before)
  <2> SUFFICES ASSUME NEW before PROVE SW!Feed!Page(before) = Loads!Page(before)
    OBVIOUS
  <2> DEFINE ids == {m \in v1 : m < before}
  <2>1. SW!Feed!Page(before) = [i \in 1..SW!Feed!Min2(2, SW!Feed!Cardinality(ids)) |->
          SW!Feed!Row(SW!Feed!Nth(ids, SW!Feed!Cardinality(ids) + 1 - i))]
    BY DEF SW!Feed!Page
  <2>2. Loads!Page(before) = [i \in 1..Loads!Min2(2, Loads!Cardinality(ids)) |->
          Loads!Row(Loads!Nth(ids, Loads!Cardinality(ids) + 1 - i))]
    BY DEF Loads!Page
  <2> HIDE DEF ids
  <2> QED
    BY <1>1, <1>2, <1>3, <1>4, <2>1, <2>2
<1>6. SW!Feed!Msgs = Loads!Msgs
  BY DEF SW!Feed!Msgs, Loads!Msgs, SW!Feed!Cardinality, Loads!Cardinality
<1>7. SW!Feed!Kinds = Loads!Kinds
  BY DEF SW!Feed!Kinds, Loads!Kinds, SW!Feed!Cardinality, Loads!Cardinality
<1>8. \A r, k, m : SW!Feed!Change(r, k, m) <=> Loads!Change(r, k, m)
  BY DEF SW!Feed!Msgs, Loads!Msgs, SW!Feed!loads, Loads!loads, SW!Feed!scroll, Loads!scroll,
         SW!Feed!view, Loads!view, SW!Feed!LoadOpen, Loads!LoadOpen, SW!Feed!Underway,
         Loads!Underway, SW!Feed!Statement, Loads!Statement, SW!Feed!Change, Loads!Change,
         SW!Feed!Cardinality, Loads!Cardinality
<1>9. \A r : SW!Feed!Tell(r) <=> Loads!Tell(r)
  BY DEF SW!Feed!db, Loads!db, SW!Feed!loads, Loads!loads, SW!Feed!scroll, Loads!scroll,
         SW!Feed!view, Loads!view, SW!Feed!past, Loads!past, SW!Feed!NoRow, Loads!NoRow,
         SW!Feed!Announced, Loads!Announced, SW!Feed!Tell, Loads!Tell, SW!Feed!Cardinality,
         Loads!Cardinality
<1>10. \A r : SW!Feed!Untold(r) <=> Loads!Untold(r)
  BY DEF SW!Feed!db, Loads!db, SW!Feed!loads, Loads!loads, SW!Feed!scroll, Loads!scroll,
         SW!Feed!view, Loads!view, SW!Feed!NoRow, Loads!NoRow, SW!Feed!Untold, Loads!Untold,
         SW!Feed!Cardinality, Loads!Cardinality
<1>11. \A r : SW!Feed!DeleteLocally(r) <=> Loads!DeleteLocally(r)
  BY DEF SW!Feed!db, Loads!db, SW!Feed!loads, Loads!loads, SW!Feed!scroll, Loads!scroll,
         SW!Feed!view, Loads!view, SW!Feed!past, Loads!past, SW!Feed!Nth, Loads!Nth,
         SW!Feed!Without, Loads!Without, SW!Feed!DeleteLocally, Loads!DeleteLocally,
         SW!Feed!Cardinality, Loads!Cardinality
<1>12. SW!Feed!ReadEvent <=> Loads!ReadEvent
  BY DEF SW!Feed!db, Loads!db, SW!Feed!request, Loads!request, SW!Feed!loads, Loads!loads,
         SW!Feed!scroll, Loads!scroll, SW!Feed!view, Loads!view, SW!Feed!past, Loads!past,
         SW!Feed!Nth, Loads!Nth, SW!Feed!Without, Loads!Without, SW!Feed!Where, Loads!Where,
         SW!Feed!FirstOf, Loads!FirstOf, SW!Feed!Patch, Loads!Patch, SW!Feed!SetPin, Loads!SetPin,
         SW!Feed!ReadEvent, Loads!ReadEvent, SW!Feed!Cardinality, Loads!Cardinality
<1>13. \A l : SW!Feed!GetPage(l) <=> Loads!GetPage(l)
  BY <1>5 DEF SW!Feed!Msgs, Loads!Msgs, SW!Feed!db, Loads!db, SW!Feed!request, Loads!request,
         SW!Feed!scroll, Loads!scroll, SW!Feed!view, Loads!view, SW!Feed!Underway, Loads!Underway,
         SW!Feed!OnTheWay, Loads!OnTheWay, SW!Feed!GetPage, Loads!GetPage
<1>14. \A l : SW!Feed!StorePage(l) <=> Loads!StorePage(l)
  BY DEF SW!Feed!db, Loads!db, SW!Feed!request, Loads!request, SW!Feed!scroll, Loads!scroll,
         SW!Feed!view, Loads!view, SW!Feed!past, Loads!past, SW!Feed!NoPage, Loads!NoPage,
         SW!Feed!Ids, Loads!Ids, SW!Feed!StorePage, Loads!StorePage, SW!Feed!Cardinality,
         Loads!Cardinality
<1>15. \A l : SW!Feed!ServeSubscribe(l) <=> Loads!ServeSubscribe(l)
  BY DEF SW!Feed!db, Loads!db, SW!Feed!request, Loads!request, SW!Feed!scroll, Loads!scroll,
         SW!Feed!view, Loads!view, SW!Feed!past, Loads!past, SW!Feed!ServeSubscribe,
         Loads!ServeSubscribe, SW!Feed!Cardinality, Loads!Cardinality
<1>16. \A timeout : SW!Feed!Frame(timeout) <=> Loads!Frame(timeout)
  BY DEF SW!Feed!db, Loads!db, SW!Feed!request, Loads!request, SW!Feed!loads, Loads!loads,
         SW!Feed!scroll, Loads!scroll, SW!Feed!past, Loads!past, SW!Feed!Grown, Loads!Grown,
         SW!Feed!Frame, Loads!Frame, SW!Feed!Cardinality, Loads!Cardinality
<1>17. \A o : SW!Feed!StartOlder(o) <=> Loads!StartOlder(o)
  BY DEF SW!Feed!db, Loads!db, SW!Feed!request, Loads!request, SW!Feed!loads, Loads!loads,
         SW!Feed!past, Loads!past, SW!Feed!Oldest, Loads!Oldest, SW!Feed!StartOlder,
         Loads!StartOlder, SW!Feed!Cardinality, Loads!Cardinality
<1>18. \A o : SW!Feed!GetOlder(o) <=> Loads!GetOlder(o)
  BY <1>5 DEF SW!Feed!Msgs, Loads!Msgs, SW!Feed!db, Loads!db, SW!Feed!request, Loads!request,
         SW!Feed!loads, Loads!loads, SW!Feed!Underway, Loads!Underway, SW!Feed!OnTheWay,
         Loads!OnTheWay, SW!Feed!GetOlder, Loads!GetOlder
<1>19. \A o : SW!Feed!ExtendOlder(o) <=> Loads!ExtendOlder(o)
  BY DEF SW!Feed!db, Loads!db, SW!Feed!request, Loads!request, SW!Feed!loads, Loads!loads,
         SW!Feed!Ids, Loads!Ids, SW!Feed!ExtendOlder, Loads!ExtendOlder, SW!Feed!Cardinality,
         Loads!Cardinality
<1> QED
  BY <1>6, <1>7, <1>8, <1>9, <1>10, <1>11, <1>12, <1>13, <1>14, <1>15, <1>16, <1>17, <1>18, <1>19 DEF SW!Feed!Next, Loads!Next

(* ChannelFeed is instantiated alike in ServerProofs and as Loads.         *)
LEMMA SameLoads ==
    /\ SW!Feed!Init <=> Loads!Init
    /\ SW!Feed!Next <=> Loads!Next
    /\ SW!Feed!TypeOK <=> Loads!TypeOK
    /\ SW!Feed!FeedAgrees <=> Loads!FeedAgrees
    /\ SW!Feed!FeedOnce <=> Loads!FeedOnce
<1>1. SW!Feed!Init <=> Loads!Init
  BY DEF SW!Feed!Msgs, Loads!Msgs, SW!Feed!NoRow, Loads!NoRow, SW!Feed!NoPage, Loads!NoPage,
         SW!Feed!Init, Loads!Init, SW!Feed!Cardinality, Loads!Cardinality
<1>2. SW!Feed!Next <=> Loads!Next
  BY LoadsActions
<1>3. SW!Feed!TypeOK <=> Loads!TypeOK
  BY DEF SW!Feed!Msgs, Loads!Msgs, SW!Feed!Kinds, Loads!Kinds, SW!Feed!Entries, Loads!Entries,
         SW!Feed!NoRow, Loads!NoRow, SW!Feed!TypeOK, Loads!TypeOK, SW!Feed!Cardinality,
         Loads!Cardinality
<1>4. SW!Feed!FeedAgrees <=> Loads!FeedAgrees
  BY DEF SW!Feed!Msgs, Loads!Msgs, SW!Feed!Row, Loads!Row, SW!Feed!Where, Loads!Where,
         SW!Feed!Quiet, Loads!Quiet, SW!Feed!Shown, Loads!Shown, SW!Feed!FeedAgrees,
         Loads!FeedAgrees, SW!Feed!Cardinality, Loads!Cardinality
<1>5. SW!Feed!FeedOnce <=> Loads!FeedOnce
  BY DEF SW!Feed!Msgs, Loads!Msgs, SW!Feed!Where, Loads!Where, SW!Feed!FeedOnce, Loads!FeedOnce,
         SW!Feed!Cardinality, Loads!Cardinality
<1> QED
  BY <1>1, <1>2, <1>3, <1>4, <1>5

(* A behaviour in which it is this component's turn is one of ChannelFeed. *)
LEMMA LoadsRuns == PartsSpec /\ part = "loads" => SW!Feed!Spec
<1>1. PartsInit /\ part = "loads" => SW!Feed!Init
  BY SameLoads DEF PartsInit
<1>2. part = "loads" /\ [PartsNext]_vars => [SW!Feed!Next]_(SW!Feed!vars)
  BY SameLoads DEF PartsNext, vars, SW!Feed!db, SW!Feed!request, SW!Feed!loads, SW!Feed!scroll, SW!Feed!view, SW!Feed!past, SW!Feed!vars
<1>3. part = "loads" /\ [PartsNext]_vars => (part = "loads")'
  BY DEF PartsNext, vars
<1> QED
  BY <1>1, <1>2, <1>3, PTL DEF PartsSpec, SW!Feed!Spec

-----------------------------------------------------------------------------
(* The properties.                                                         *)

(* TypesOK by groups of components.                                        *)
InputTypes ==
    /\ (part = "state" => State!TypeOK)
    /\ (part = "compose" => Compose!TypeOK)
    /\ (part = "nav" => Nav!TypeOK)
    /\ (part = "pick" => Pick!TypeOK)
    /\ (part = "gif" => Gif!TypeOK)
    /\ (part = "mention" => Mention!TypeOK)

MediaTypes ==
    /\ (part = "settings" => Set!TypeOK)
    /\ (part = "share" => Share!TypeOK)
    /\ (part = "tracks" => Tracks!TypeOK)
    /\ (part = "video" => Video!TypeOK)
    /\ (part = "player" => Player!TypeOK)

ServerTypes ==
    /\ (part = "uploads" => Up!TypeOK)
    /\ (part = "records" => Rec!TypeOK)
    /\ (part = "voice" => V!TypeOK)
    /\ (part = "voices" => W!TypeOK)
    /\ (part = "older" => Older!TypeOK)
    /\ (part = "loads" => Loads!TypeOK)

(* Every component keeps the types of its variables.                       *)
THEOREM Typing == PartsSpec => []TypesOK
<1>1. PartsSpec => [](part = "state" => State!TypeOK)
  <2>1. CP!State!Spec => [](CP!State!TypeOK /\ CP!State!OnlyItselfBlocks)
    BY AssumptionsHold, CP!OnlyTheFrameBlocks
  <2>2. [PartsNext]_vars => ((part = "state")' <=> part = "state")
    BY DEF PartsNext, vars
  <2>3. (part = "state" => CP!State!TypeOK) => (part = "state" => State!TypeOK)
    BY SameState
  <2> QED
    BY <2>1, <2>2, <2>3, StateRuns, PTL DEF PartsSpec
<1>2. PartsSpec => [](part = "compose" => Compose!TypeOK)
  <2>1. CP!Compose!Spec => [](CP!Compose!TypeOK /\ CP!Compose!ComposeAgrees)
    BY AssumptionsHold, CP!ComposeSound
  <2>2. [PartsNext]_vars => ((part = "compose")' <=> part = "compose")
    BY DEF PartsNext, vars
  <2>3. (part = "compose" => CP!Compose!TypeOK) => (part = "compose" => Compose!TypeOK)
    BY SameCompose
  <2> QED
    BY <2>1, <2>2, <2>3, ComposeRuns, PTL DEF PartsSpec
<1>3. PartsSpec => [](part = "nav" => Nav!TypeOK)
  <2>1. CP!Nav!Spec => [](CP!Nav!TypeOK /\ CP!Nav!NavigationAgrees)
    BY AssumptionsHold, CP!NavigationSound
  <2>2. [PartsNext]_vars => ((part = "nav")' <=> part = "nav")
    BY DEF PartsNext, vars
  <2>3. (part = "nav" => CP!Nav!TypeOK) => (part = "nav" => Nav!TypeOK)
    BY SameNav
  <2> QED
    BY <2>1, <2>2, <2>3, NavRuns, PTL DEF PartsSpec
<1>4. PartsSpec => [](part = "pick" => Pick!TypeOK)
  <2>1. CP!Pick!Spec => [](CP!Pick!TypeOK /\ CP!Pick!PickersAgree)
    BY AssumptionsHold, CP!PickersSound
  <2>2. [PartsNext]_vars => ((part = "pick")' <=> part = "pick")
    BY DEF PartsNext, vars
  <2>3. (part = "pick" => CP!Pick!TypeOK) => (part = "pick" => Pick!TypeOK)
    BY SamePick
  <2> QED
    BY <2>1, <2>2, <2>3, PickRuns, PTL DEF PartsSpec
<1>5. PartsSpec => [](part = "gif" => Gif!TypeOK)
  <2>1. CP!Gif!Spec => [](CP!Gif!TypeOK /\ CP!Gif!GifsAgree)
    BY AssumptionsHold, CP!GifsSound
  <2>2. [PartsNext]_vars => ((part = "gif")' <=> part = "gif")
    BY DEF PartsNext, vars
  <2>3. (part = "gif" => CP!Gif!TypeOK) => (part = "gif" => Gif!TypeOK)
    BY SameGif
  <2> QED
    BY <2>1, <2>2, <2>3, GifRuns, PTL DEF PartsSpec
<1>6. PartsSpec => [](part = "mention" => Mention!TypeOK)
  <2>1. CP!Mention!Spec => [](CP!Mention!TypeOK /\ CP!Mention!MentionInList)
    BY AssumptionsHold, CP!MentionsSound
  <2>2. [PartsNext]_vars => ((part = "mention")' <=> part = "mention")
    BY DEF PartsNext, vars
  <2>3. (part = "mention" => CP!Mention!TypeOK) => (part = "mention" => Mention!TypeOK)
    BY SameMention
  <2> QED
    BY <2>1, <2>2, <2>3, MentionRuns, PTL DEF PartsSpec
<1>7. PartsSpec => [](part = "settings" => Set!TypeOK)
  <2>1. CP!Set!Spec => [](CP!Set!TypeOK /\ CP!Set!SettingsAgree)
    BY CP!SettingsSound
  <2>2. [PartsNext]_vars => ((part = "settings")' <=> part = "settings")
    BY DEF PartsNext, vars
  <2>3. (part = "settings" => CP!Set!TypeOK) => (part = "settings" => Set!TypeOK)
    BY SameSet
  <2> QED
    BY <2>1, <2>2, <2>3, SetRuns, PTL DEF PartsSpec
<1>8. PartsSpec => [](part = "share" => Share!TypeOK)
  <2>1. CP!Share!Spec => [](CP!Share!TypeOK /\ CP!Share!SharingAgrees)
    BY AssumptionsHold, CP!SharingSound
  <2>2. [PartsNext]_vars => ((part = "share")' <=> part = "share")
    BY DEF PartsNext, vars
  <2>3. (part = "share" => CP!Share!TypeOK) => (part = "share" => Share!TypeOK)
    BY SameShare
  <2> QED
    BY <2>1, <2>2, <2>3, ShareRuns, PTL DEF PartsSpec
<1>9. PartsSpec => [](part = "tracks" => Tracks!TypeOK)
  <2>1. CP!Tracks!Spec => [](CP!Tracks!TypeOK /\ CP!Tracks!TracksDecoded)
    BY AssumptionsHold, CP!TracksSound
  <2>2. [PartsNext]_vars => ((part = "tracks")' <=> part = "tracks")
    BY DEF PartsNext, vars
  <2>3. (part = "tracks" => CP!Tracks!TypeOK) => (part = "tracks" => Tracks!TypeOK)
    BY SameTracks
  <2> QED
    BY <2>1, <2>2, <2>3, TracksRuns, PTL DEF PartsSpec
<1>10. PartsSpec => [](part = "video" => Video!TypeOK)
  <2>1. CP!Video!Spec => [](CP!Video!TypeOK /\ CP!Video!SamplesSurvive)
    BY AssumptionsHold, CP!SamplesSound
  <2>2. [PartsNext]_vars => ((part = "video")' <=> part = "video")
    BY DEF PartsNext, vars
  <2>3. (part = "video" => CP!Video!TypeOK) => (part = "video" => Video!TypeOK)
    BY SameVideo
  <2> QED
    BY <2>1, <2>2, <2>3, VideoRuns, PTL DEF PartsSpec
<1>11. PartsSpec => [](part = "player" => Player!TypeOK)
  <2>1. CP!Player!Spec => [](CP!Player!TypeOK /\ CP!Player!PlayerAgrees)
    BY AssumptionsHold, CP!PlayerSound
  <2>2. [PartsNext]_vars => ((part = "player")' <=> part = "player")
    BY DEF PartsNext, vars
  <2>3. (part = "player" => CP!Player!TypeOK) => (part = "player" => Player!TypeOK)
    BY SamePlayer
  <2> QED
    BY <2>1, <2>2, <2>3, PlayerRuns, PTL DEF PartsSpec
<1>12. PartsSpec => [](part = "uploads" => Up!TypeOK)
  <2>1. SP!Up!Spec => [](SP!Up!TypeOK /\ SP!Up!UploadsAgree)
    BY AssumptionsHold, SP!UploadsAlwaysAgree
  <2>2. [PartsNext]_vars => ((part = "uploads")' <=> part = "uploads")
    BY DEF PartsNext, vars
  <2>3. (part = "uploads" => SP!Up!TypeOK) => (part = "uploads" => Up!TypeOK)
    BY SameUp
  <2> QED
    BY <2>1, <2>2, <2>3, UpRuns, PTL DEF PartsSpec
<1>13. PartsSpec => [](part = "records" => Rec!TypeOK)
  <2>1. SP!Rec!Spec => [](SP!Rec!TypeOK /\ SP!Rec!RecordsAgree)
    BY AssumptionsHold, SP!RecordsSound
  <2>2. [PartsNext]_vars => ((part = "records")' <=> part = "records")
    BY DEF PartsNext, vars
  <2>3. (part = "records" => SP!Rec!TypeOK) => (part = "records" => Rec!TypeOK)
    BY SameRec
  <2> QED
    BY <2>1, <2>2, <2>3, RecRuns, PTL DEF PartsSpec
<1>14. PartsSpec => [](part = "voice" => V!TypeOK)
  <2>1. SP!V!Spec => [](SP!V!TypeOK /\ SP!V!ViewsAgree /\ SP!V!PlaceAgrees)
    BY AssumptionsHold, SP!VoiceSound
  <2>2. [PartsNext]_vars => ((part = "voice")' <=> part = "voice")
    BY DEF PartsNext, vars
  <2>3. (part = "voice" => SP!V!TypeOK) => (part = "voice" => V!TypeOK)
    BY SameV
  <2> QED
    BY <2>1, <2>2, <2>3, VRuns, PTL DEF PartsSpec
<1>15. PartsSpec => [](part = "voices" => W!TypeOK)
  <2>1. SW!V!Spec => [](SW!V!TypeOK /\ SW!V!ViewsAgree /\ SW!V!PlaceAgrees)
    BY AssumptionsHold, SW!VoiceSound
  <2>2. [PartsNext]_vars => ((part = "voices")' <=> part = "voices")
    BY DEF PartsNext, vars
  <2>3. (part = "voices" => SW!V!TypeOK) => (part = "voices" => W!TypeOK)
    BY SameW
  <2> QED
    BY <2>1, <2>2, <2>3, WRuns, PTL DEF PartsSpec
<1>16. PartsSpec => [](part = "older" => Older!TypeOK)
  <2>1. SP!Feed!Spec => [](SP!Feed!TypeOK /\ SP!Feed!FeedAgrees /\ SP!Feed!FeedOnce)
    BY AssumptionsHold, SP!FeedSound
  <2>2. [PartsNext]_vars => ((part = "older")' <=> part = "older")
    BY DEF PartsNext, vars
  <2>3. (part = "older" => SP!Feed!TypeOK) => (part = "older" => Older!TypeOK)
    BY SameOlder
  <2> QED
    BY <2>1, <2>2, <2>3, OlderRuns, PTL DEF PartsSpec
<1>17. PartsSpec => [](part = "loads" => Loads!TypeOK)
  <2>1. SW!Feed!Spec => [](SW!Feed!TypeOK /\ SW!Feed!FeedAgrees /\ SW!Feed!FeedOnce)
    BY AssumptionsHold, SW!FeedSound
  <2>2. [PartsNext]_vars => ((part = "loads")' <=> part = "loads")
    BY DEF PartsNext, vars
  <2>3. (part = "loads" => SW!Feed!TypeOK) => (part = "loads" => Loads!TypeOK)
    BY SameLoads
  <2> QED
    BY <2>1, <2>2, <2>3, LoadsRuns, PTL DEF PartsSpec
<1>18. PartsSpec => []InputTypes
  <2>1. PartsSpec => [](/\ (part = "state" => State!TypeOK)
                        /\ (part = "compose" => Compose!TypeOK)
                        /\ (part = "nav" => Nav!TypeOK)
                        /\ (part = "pick" => Pick!TypeOK)
                        /\ (part = "gif" => Gif!TypeOK)
                        /\ (part = "mention" => Mention!TypeOK))
    BY <1>1, <1>2, <1>3, <1>4, <1>5, <1>6, PTL
  <2>2. /\ (part = "state" => State!TypeOK)
        /\ (part = "compose" => Compose!TypeOK)
        /\ (part = "nav" => Nav!TypeOK)
        /\ (part = "pick" => Pick!TypeOK)
        /\ (part = "gif" => Gif!TypeOK)
        /\ (part = "mention" => Mention!TypeOK)
        => InputTypes
    BY DEF InputTypes
  <2> QED
    BY <2>1, <2>2, PTL
<1>19. PartsSpec => []MediaTypes
  <2>1. PartsSpec => [](/\ (part = "settings" => Set!TypeOK)
                        /\ (part = "share" => Share!TypeOK)
                        /\ (part = "tracks" => Tracks!TypeOK)
                        /\ (part = "video" => Video!TypeOK)
                        /\ (part = "player" => Player!TypeOK))
    BY <1>7, <1>8, <1>9, <1>10, <1>11, PTL
  <2>2. /\ (part = "settings" => Set!TypeOK)
        /\ (part = "share" => Share!TypeOK)
        /\ (part = "tracks" => Tracks!TypeOK)
        /\ (part = "video" => Video!TypeOK)
        /\ (part = "player" => Player!TypeOK)
        => MediaTypes
    BY DEF MediaTypes
  <2> QED
    BY <2>1, <2>2, PTL
<1>20. PartsSpec => []ServerTypes
  <2>1. PartsSpec => [](/\ (part = "uploads" => Up!TypeOK)
                        /\ (part = "records" => Rec!TypeOK)
                        /\ (part = "voice" => V!TypeOK)
                        /\ (part = "voices" => W!TypeOK)
                        /\ (part = "older" => Older!TypeOK)
                        /\ (part = "loads" => Loads!TypeOK))
    BY <1>12, <1>13, <1>14, <1>15, <1>16, <1>17, PTL
  <2>2. /\ (part = "uploads" => Up!TypeOK)
        /\ (part = "records" => Rec!TypeOK)
        /\ (part = "voice" => V!TypeOK)
        /\ (part = "voices" => W!TypeOK)
        /\ (part = "older" => Older!TypeOK)
        /\ (part = "loads" => Loads!TypeOK)
        => ServerTypes
    BY DEF ServerTypes
  <2> QED
    BY <2>1, <2>2, PTL
<1>21. InputTypes /\ MediaTypes /\ ServerTypes => TypesOK
  BY DEF TypesOK, InputTypes, MediaTypes, ServerTypes
<1> QED
  BY <1>18, <1>19, <1>20, <1>21, PTL

(* The processes that share the client's state come to a stop only in the  *)
(* way that OnlyItselfBlocks excepts (state/mod.rs, ui/chat.rs).           *)
THEOREM Locking == PartsSpec => []OnlyItselfBlocks
<1>1. CP!State!Spec => [](CP!State!TypeOK /\ CP!State!OnlyItselfBlocks)
  BY AssumptionsHold, CP!OnlyTheFrameBlocks
<1>2. [PartsNext]_vars => ((part = "state")' <=> part = "state")
  BY DEF PartsNext, vars
<1>3. (part = "state" => CP!State!OnlyItselfBlocks) => OnlyItselfBlocks
  BY SameState DEF OnlyItselfBlocks
<1> QED
  BY <1>1, <1>2, <1>3, StateRuns, PTL DEF PartsSpec

(* An image is asked for once (ui/message.rs, state/app_state.rs).         *)
THEOREM Fetching == PartsSpec => []FetchedOnce
<1>1. CP!State!Spec => []CP!State!FetchedOnce
  BY AssumptionsHold, CP!ImagesFetchedOnce
<1>2. [PartsNext]_vars => ((part = "state")' <=> part = "state")
  BY DEF PartsNext, vars
<1>3. (part = "state" => CP!State!FetchedOnce) => FetchedOnce
  BY SameState DEF FetchedOnce
<1> QED
  BY <1>1, <1>2, <1>3, StateRuns, PTL DEF PartsSpec

(* The box, the drafts and what is sent go with their channels             *)
(* (ui/chat.rs).                                                           *)
THEOREM Drafting == PartsSpec => []ComposeAgrees
<1>1. CP!Compose!Spec => [](CP!Compose!TypeOK /\ CP!Compose!ComposeAgrees)
  BY AssumptionsHold, CP!ComposeSound
<1>2. [PartsNext]_vars => ((part = "compose")' <=> part = "compose")
  BY DEF PartsNext, vars
<1>3. (part = "compose" => CP!Compose!ComposeAgrees) => ComposeAgrees
  BY SameCompose DEF ComposeAgrees
<1> QED
  BY <1>1, <1>2, <1>3, ComposeRuns, PTL DEF PartsSpec

(* At rest, the channel shown is of the community shown, and its stream    *)
(* was asked for (ui/app.rs, ui/channel_list.rs).                          *)
THEOREM Navigating == PartsSpec => []NavigationAgrees
<1>1. CP!Nav!Spec => [](CP!Nav!TypeOK /\ CP!Nav!NavigationAgrees)
  BY AssumptionsHold, CP!NavigationSound
<1>2. [PartsNext]_vars => ((part = "nav")' <=> part = "nav")
  BY DEF PartsNext, vars
<1>3. (part = "nav" => CP!Nav!NavigationAgrees) => NavigationAgrees
  BY SameNav DEF NavigationAgrees
<1> QED
  BY <1>1, <1>2, <1>3, NavRuns, PTL DEF PartsSpec

(* What is entered in the quick switcher, the search and the mention popup *)
(* is in the list, and the search and the GIF picker show the answer to    *)
(* what was asked (ui/quick_switcher.rs, ui/message_search.rs,             *)
(* ui/gif_picker.rs, ui/chat.rs).                                          *)
THEOREM Picking == PartsSpec => []PickersAgree
<1>1. CP!Pick!Spec => [](CP!Pick!TypeOK /\ CP!Pick!PickersAgree)
  BY AssumptionsHold, CP!PickersSound
<1>2. [PartsNext]_vars => ((part = "pick")' <=> part = "pick")
  BY DEF PartsNext, vars
<1>3. CP!Gif!Spec => [](CP!Gif!TypeOK /\ CP!Gif!GifsAgree)
  BY AssumptionsHold, CP!GifsSound
<1>4. [PartsNext]_vars => ((part = "gif")' <=> part = "gif")
  BY DEF PartsNext, vars
<1>5. CP!Mention!Spec => [](CP!Mention!TypeOK /\ CP!Mention!MentionInList)
  BY AssumptionsHold, CP!MentionsSound
<1>6. [PartsNext]_vars => ((part = "mention")' <=> part = "mention")
  BY DEF PartsNext, vars
<1>7. /\ (part = "pick" => CP!Pick!PickersAgree)
       /\ (part = "gif" => CP!Gif!GifsAgree)
       /\ (part = "mention" => CP!Mention!MentionInList)
       => PickersAgree
  BY SamePick, SameGif, SameMention DEF PickersAgree
<1> QED
  BY <1>1, <1>2, <1>3, <1>4, <1>5, <1>6, <1>7, PickRuns, GifRuns, MentionRuns, PTL DEF PartsSpec

(* Tests and the detector have the settings that are shown, and so has the *)
(* file unless it failed (ui/settings.rs, state/settings.rs).              *)
THEOREM Setting == PartsSpec => []SettingsAgree
<1>1. CP!Set!Spec => [](CP!Set!TypeOK /\ CP!Set!SettingsAgree)
  BY CP!SettingsSound
<1>2. [PartsNext]_vars => ((part = "settings")' <=> part = "settings")
  BY DEF PartsNext, vars
<1>3. (part = "settings" => CP!Set!SettingsAgree) => SettingsAgree
  BY SameSet DEF SettingsAgree
<1> QED
  BY <1>1, <1>2, <1>3, SetRuns, PTL DEF PartsSpec

(* Once settled, what is captured, what is shown and what the server has   *)
(* of it agree (ui/voice_channel_view.rs, ui/app.rs).                      *)
THEOREM Sharing == PartsSpec => []SharingAgrees
<1>1. CP!Share!Spec => [](CP!Share!TypeOK /\ CP!Share!SharingAgrees)
  BY AssumptionsHold, CP!SharingSound
<1>2. [PartsNext]_vars => ((part = "share")' <=> part = "share")
  BY DEF PartsNext, vars
<1>3. (part = "share" => CP!Share!SharingAgrees) => SharingAgrees
  BY SameShare DEF SharingAgrees
<1> QED
  BY <1>1, <1>2, <1>3, ShareRuns, PTL DEF PartsSpec

(* A live track that a poll has come past is decoded where a decoder can   *)
(* be made, and so is a track with a picture (media/sfu_client.rs).        *)
THEOREM Decoding == PartsSpec => []TracksDecoded
<1>1. CP!Tracks!Spec => [](CP!Tracks!TypeOK /\ CP!Tracks!TracksDecoded)
  BY AssumptionsHold, CP!TracksSound
<1>2. [PartsNext]_vars => ((part = "tracks")' <=> part = "tracks")
  BY DEF PartsNext, vars
<1>3. (part = "tracks" => CP!Tracks!TracksDecoded) => TracksDecoded
  BY SameTracks DEF TracksDecoded
<1> QED
  BY <1>1, <1>2, <1>3, TracksRuns, PTL DEF PartsSpec

(* A frame whose packets came in a row is handed on whole, and what is     *)
(* missing or late spoils the frame it comes in and none beyond the next   *)
(* start (media/gst_encoder.rs, sfu/track_router.rs).                      *)
THEOREM Surviving == PartsSpec => []SamplesSurvive
<1>1. CP!Video!Spec => [](CP!Video!TypeOK /\ CP!Video!SamplesSurvive)
  BY AssumptionsHold, CP!SamplesSound
<1>2. [PartsNext]_vars => ((part = "video")' <=> part = "video")
  BY DEF PartsNext, vars
<1>3. (part = "video" => CP!Video!SamplesSurvive) => SamplesSurvive
  BY SameVideo DEF SamplesSurvive
<1> QED
  BY <1>1, <1>2, <1>3, VideoRuns, PTL DEF PartsSpec

(* What plays is what is shown, sounds, and will be ended, and what sounds *)
(* plays or was ended early (media/audio_player.rs).                       *)
THEOREM Playing == PartsSpec => []PlayerAgrees
<1>1. CP!Player!Spec => [](CP!Player!TypeOK /\ CP!Player!PlayerAgrees)
  BY AssumptionsHold, CP!PlayerSound
<1>2. [PartsNext]_vars => ((part = "player")' <=> part = "player")
  BY DEF PartsNext, vars
<1>3. (part = "player" => CP!Player!PlayerAgrees) => PlayerAgrees
  BY SamePlayer DEF PlayerAgrees
<1> QED
  BY <1>1, <1>2, <1>3, PlayerRuns, PTL DEF PartsSpec

(* Rows have their files and messages their attachments                    *)
(* (api/attachments.rs, api/messages.rs).                                  *)
THEOREM Attaching == PartsSpec => []UploadsAgree
<1>1. SP!Up!Spec => [](SP!Up!TypeOK /\ SP!Up!UploadsAgree)
  BY AssumptionsHold, SP!UploadsAlwaysAgree
<1>2. [PartsNext]_vars => ((part = "uploads")' <=> part = "uploads")
  BY DEF PartsNext, vars
<1>3. (part = "uploads" => SP!Up!UploadsAgree) => UploadsAgree
  BY SameUp DEF UploadsAgree
<1> QED
  BY <1>1, <1>2, <1>3, UpRuns, PTL DEF PartsSpec

(* When all is settled, a client shows the voice states as the table has   *)
(* them (state/app_state.rs, network/websocket.rs, api/channels.rs).       *)
THEOREM Showing == PartsSpec => []ViewsAgree
<1>1. SP!V!Spec => [](SP!V!TypeOK /\ SP!V!ViewsAgree /\ SP!V!PlaceAgrees)
  BY AssumptionsHold, SP!VoiceSound
<1>2. [PartsNext]_vars => ((part = "voice")' <=> part = "voice")
  BY DEF PartsNext, vars
<1>3. SW!V!Spec => [](SW!V!TypeOK /\ SW!V!ViewsAgree /\ SW!V!PlaceAgrees)
  BY AssumptionsHold, SW!VoiceSound
<1>4. [PartsNext]_vars => ((part = "voices")' <=> part = "voices")
  BY DEF PartsNext, vars
<1>5. /\ (part = "voice" => SP!V!ViewsAgree)
       /\ (part = "voices" => SW!V!ViewsAgree)
       => ViewsAgree
  BY SameV, SameW DEF ViewsAgree
<1> QED
  BY <1>1, <1>2, <1>3, <1>4, <1>5, VRuns, WRuns, PTL DEF PartsSpec

(* When all is settled, a client is in the voice channel the server has it *)
(* in, with the flag the server has (ui/voice_channel_view.rs,             *)
(* api/channels.rs).                                                       *)
THEOREM Placing == PartsSpec => []PlaceAgrees
<1>1. SP!V!Spec => [](SP!V!TypeOK /\ SP!V!ViewsAgree /\ SP!V!PlaceAgrees)
  BY AssumptionsHold, SP!VoiceSound
<1>2. [PartsNext]_vars => ((part = "voice")' <=> part = "voice")
  BY DEF PartsNext, vars
<1>3. SW!V!Spec => [](SW!V!TypeOK /\ SW!V!ViewsAgree /\ SW!V!PlaceAgrees)
  BY AssumptionsHold, SW!VoiceSound
<1>4. [PartsNext]_vars => ((part = "voices")' <=> part = "voices")
  BY DEF PartsNext, vars
<1>5. /\ (part = "voice" => SP!V!PlaceAgrees)
       /\ (part = "voices" => SW!V!PlaceAgrees)
       => PlaceAgrees
  BY SameV, SameW DEF PlaceAgrees
<1> QED
  BY <1>1, <1>2, <1>3, <1>4, <1>5, VRuns, WRuns, PTL DEF PartsSpec

(* A settled client shows the messages as the database has them, each of   *)
(* them once (ui/channel_list.rs, ui/chat.rs, network/websocket.rs,        *)
(* api/messages.rs).                                                       *)
THEOREM Feeding == PartsSpec => []FeedAgrees
<1>1. SP!Feed!Spec => [](SP!Feed!TypeOK /\ SP!Feed!FeedAgrees /\ SP!Feed!FeedOnce)
  BY AssumptionsHold, SP!FeedSound
<1>2. [PartsNext]_vars => ((part = "older")' <=> part = "older")
  BY DEF PartsNext, vars
<1>3. SW!Feed!Spec => [](SW!Feed!TypeOK /\ SW!Feed!FeedAgrees /\ SW!Feed!FeedOnce)
  BY AssumptionsHold, SW!FeedSound
<1>4. [PartsNext]_vars => ((part = "loads")' <=> part = "loads")
  BY DEF PartsNext, vars
<1>5. /\ (part = "older" => SP!Feed!FeedAgrees)
       /\ (part = "older" => SP!Feed!FeedOnce)
       /\ (part = "loads" => SW!Feed!FeedAgrees)
       /\ (part = "loads" => SW!Feed!FeedOnce)
       => FeedAgrees
  BY SameOlder, SameLoads DEF FeedAgrees
<1> QED
  BY <1>1, <1>2, <1>3, <1>4, <1>5, OlderRuns, LoadsRuns, PTL DEF PartsSpec

(* Communities are whole, invites counted and direct channels single       *)
(* (api/communities.rs, api/channels.rs).                                  *)
THEOREM Recording == PartsSpec => []RecordsAgree
<1>1. SP!Rec!Spec => [](SP!Rec!TypeOK /\ SP!Rec!RecordsAgree)
  BY AssumptionsHold, SP!RecordsSound
<1>2. [PartsNext]_vars => ((part = "records")' <=> part = "records")
  BY DEF PartsNext, vars
<1>3. (part = "records" => SP!Rec!RecordsAgree) => RecordsAgree
  BY SameRec DEF RecordsAgree
<1> QED
  BY <1>1, <1>2, <1>3, RecRuns, PTL DEF PartsSpec
=============================================================================
