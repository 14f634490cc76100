----------------------------- MODULE ScreenShare -----------------------------
(***************************************************************************)
(* Sharing a screen and a camera in a voice channel, as one client does    *)
(* it: the frames of the UI thread (ui/main_view.rs and                    *)
(* ui/voice_channel_view.rs), the picker (ui/screen_picker.rs), the        *)
(* captures they start and stop, and the tasks their buttons spawn         *)
(* (ui/voice.rs, ui/channel_list.rs), which tell the server and then write *)
(* the client's flags.                                                     *)
(*                                                                         *)
(* Sharing is spread over five places: what the user wants, whether the    *)
(* picker is open, whether the screen is captured, the client's flag and   *)
(* the server's.  A frame brings them together from what it has read; the  *)
(* tasks change two of them whenever they come to it.  A frame is taken in *)
(* its parts: the state is read once at its start, then the buttons are    *)
(* drawn, and the view of the channel reads the state again.               *)
(***************************************************************************)
EXTENDS Naturals

CONSTANTS
    Clicks,      \* bound: the clicks, each used once
    MaxRefusals  \* bound: requests that may fail

VARIABLES
    joined,     \* voice_channel_id is set
    flag,       \* is_screen_sharing of the client
    wants,      \* wants_screen_share
    video,      \* is_video_enabled of the client
    row,        \* the server's row of this user: "none", "off" or "on"
    frame,      \* the part of the frame that is next
    was,        \* was_in_voice
    drawn,      \* in_voice, as this frame has read it
    picker,     \* the picker is open
    capturing,  \* screen_capture is there
    camera,     \* video_capture is there
    pc,         \* click -> where its task is
    refusals,   \* requests that have failed so far
    odd         \* history: the unusual things that have happened and still matter

state == <<joined, flag, wants, video>>
view  == <<frame, was, drawn, picker, capturing, camera>>
vars  == <<state, row, view, pc, refusals, odd>>

Idle == {"new", "done"}
Odd  == {"refused", "lost", "switched", "hasty", "carried"}

TypeOK ==
    /\ {joined, flag, wants, video, was, drawn, picker, capturing, camera} \subseteq BOOLEAN
    /\ row \in {"none", "off", "on"}
    /\ frame \in {"start", "buttons", "blocked", "view"}
    /\ pc \in [Clicks -> Idle \cup {"enter", "insert", "delete", "exit", "want", "unwant",
                  "tellShare", "share", "tellStop", "stop", "tellVideo", "video"}]
    /\ refusals \in 0..MaxRefusals
    /\ odd \subseteq Odd

Init ==
    /\ joined = FALSE /\ flag = FALSE /\ wants = FALSE /\ video = FALSE
    /\ row = "none"
    /\ frame = "start" /\ was = FALSE /\ drawn = FALSE
    /\ picker = FALSE /\ capturing = FALSE /\ camera = FALSE
    /\ pc = [k \in Clicks |-> "new"]
    /\ refusals = 0
    /\ odd = {}

Unfinished == \E k \in Clicks : pc[k] \notin Idle

\* The new task of a click or of a frame.
Spawned(k, label) == pc[k] = "new" /\ pc' = [pc EXCEPT ![k] = label]

-----------------------------------------------------------------------------
(* A frame.                                                                *)

\* MainView::show: the state is read; a call that is over is cleaned up.
Start ==
    LET over == was /\ ~joined IN
    /\ frame = "start"
    /\ frame' = "buttons"
    /\ drawn' = joined
    /\ was' = joined
    /\ capturing' = (capturing /\ ~over)
    /\ camera' = (camera /\ ~over)
    /\ UNCHANGED <<state, row, picker, pc, refusals, odd>>

(* The buttons of the channel list and of the panel.  A click is hasty     *)
(* while the task of an earlier one is under way, or before a frame has    *)
(* seen what it did.                                                       *)
Click(k, label) ==
    /\ frame = "buttons"
    /\ Spawned(k, label)
    /\ odd' = IF Unfinished \/ capturing # flag THEN odd \cup {"hasty"} ELSE odd
    /\ frame' = IF label = "tellVideo" THEN "blocked" ELSE "view"
    /\ UNCHANGED <<state, row, was, drawn, picker, capturing, camera, refusals>>

\* The button of a channel joins it, or goes to it straight from another one.
ClickJoin(k)   == Click(k, "enter")
ClickLeave(k)  == joined /\ Click(k, "delete")
ClickVideo(k)  == joined /\ Click(k, "tellVideo")
ClickScreen(k) == joined /\ Click(k, IF flag THEN "tellStop" ELSE "want")

NoClick ==
    /\ frame = "buttons"
    /\ frame' = "view"
    /\ UNCHANGED <<state, row, was, drawn, picker, capturing, camera, pc, refusals, odd>>

\* Outside a call the chat is drawn instead of the channel.
ViewChat ==
    /\ frame = "view" /\ ~drawn
    /\ frame' = "start"
    /\ UNCHANGED <<state, row, was, drawn, picker, capturing, camera, pc, refusals, odd>>

\* The picker is drawn if it was open or is opened now.
Opens  == wants /\ ~picker /\ ~capturing
Showed == picker \/ Opens

\* Mutant of Keeps: a frame stops every capture the flag does not know of.
KeepsFlagged(on) == on /\ flag

\* What a frame leaves on: not what the flag and the wish both deny.
Keeps(on) == on /\ (flag \/ wants)

(* VoiceChannelView::show, up to the captures.  The camera follows its     *)
(* flag, or does not start.                                                *)
View(on) ==
    /\ frame = "view" /\ drawn
    /\ frame' = "start"
    /\ camera' \in IF video /\ ~camera THEN BOOLEAN ELSE {camera /\ video}
    /\ capturing' = Keeps(on)
    /\ UNCHANGED <<state, row, was, drawn, refusals>>

\* The user does nothing in the picker.
ViewOn ==
    /\ View(capturing)
    /\ picker' = Showed
    /\ UNCHANGED <<pc, odd>>

(* Share is clicked and the capture starts: a task tells the server.  The  *)
(* picker may be one that an earlier call has left open.                   *)
ViewShare(k) ==
    /\ picker
    /\ View(TRUE)
    /\ picker' = FALSE
    /\ Spawned(k, "tellShare")
    /\ odd' = odd \cup (IF flag \/ wants THEN {} ELSE {"carried"})
                  \cup (IF Unfinished THEN {"hasty"} ELSE {})

\* Cancel, the close button, or a Share whose capture does not start.
ViewCancel(k) ==
    /\ picker
    /\ View(capturing)
    /\ picker' = FALSE
    /\ IF capturing THEN UNCHANGED pc ELSE Spawned(k, "unwant")
    /\ UNCHANGED odd

-----------------------------------------------------------------------------
(* The tasks.                                                              *)

Goto(k, label) == pc' = [pc EXCEPT ![k] = label]

\* AppState::join_voice, and then the server.
Enter(k) ==
    /\ pc[k] = "enter"
    /\ joined' = TRUE
    /\ Goto(k, "insert")
    /\ UNCHANGED <<flag, wants, video, row, view, refusals, odd>>

(* ChannelService::join_voice: the old row goes, and a new one that shares *)
(* nothing takes its place.  The client that comes from another channel    *)
(* keeps its flag and its capture.                                         *)
Insert(k) ==
    /\ pc[k] = "insert"
    /\ row' = "off"
    /\ odd' = (odd \ {"lost", "switched"}) \cup (IF flag THEN {"switched"} ELSE {})
    /\ Goto(k, "done")
    /\ UNCHANGED <<state, view, refusals>>

Delete(k) ==
    /\ pc[k] = "delete"
    /\ row' = "none"
    /\ odd' = odd \ {"lost", "switched"}
    /\ Goto(k, "exit")
    /\ UNCHANGED <<state, view, refusals>>

(* The join fails, before or after its statements, or the leave does: the  *)
(* client goes out of the channel whatever row is left.                    *)
Lost(k, at, rows) ==
    /\ pc[k] = at /\ refusals < MaxRefusals
    /\ refusals' = refusals + 1
    /\ row' \in rows
    /\ odd' = odd \cup {"lost"}
    /\ Goto(k, "exit")
    /\ UNCHANGED <<state, view>>

JoinLost(k)  == Lost(k, "insert", {row, "none", "off"})
LeaveLost(k) == Lost(k, "delete", {row})

\* AppState::leave_voice.
Exit(k) ==
    /\ pc[k] = "exit"
    /\ joined' = FALSE /\ flag' = FALSE /\ wants' = FALSE /\ video' = FALSE
    /\ Goto(k, "done")
    /\ UNCHANGED <<row, view, refusals, odd>>

Want(k) ==
    /\ pc[k] \in {"want", "unwant"}
    /\ wants' = (pc[k] = "want")
    /\ Goto(k, "done")
    /\ UNCHANGED <<joined, flag, video, row, view, refusals, odd>>

Written(k) == CASE pc[k] = "tellShare" -> "on"
                [] pc[k] = "tellStop" -> "off"
                [] pc[k] = "tellVideo" -> row

\* update_voice_state: the server has no row, or the call fails with the row
\* written or not, or all goes well.
Tell(k) ==
    /\ pc[k] \in {"tellShare", "tellStop", "tellVideo"}
    /\ \/ /\ row = "none" \/ refusals < MaxRefusals
          /\ refusals' = IF row = "none" THEN refusals ELSE refusals + 1
          /\ row' \in {row} \cup (IF row = "none" THEN {} ELSE {Written(k)})
          /\ odd' = odd \cup {"refused"}
          /\ Goto(k, "done")
          /\ frame' = IF pc[k] = "tellVideo" THEN "view" ELSE frame
       \/ /\ row # "none"
          /\ row' = Written(k)
          /\ odd' = IF pc[k] = "tellVideo" THEN odd ELSE odd \ {"switched"}
          /\ Goto(k, CASE pc[k] = "tellShare" -> "share"
                       [] pc[k] = "tellStop" -> "stop"
                       [] pc[k] = "tellVideo" -> "video")
          /\ UNCHANGED <<refusals, frame>>
    /\ UNCHANGED <<state, was, drawn, picker, capturing, camera>>

\* The answer was good: the flags.
Share(k) ==
    /\ pc[k] \in {"share", "stop"}
    /\ flag' = (pc[k] = "share")
    /\ wants' = FALSE
    /\ Goto(k, "done")
    /\ UNCHANGED <<joined, video, row, view, refusals, odd>>

\* The UI thread has waited for the answer about its camera.
Video(k) ==
    /\ pc[k] = "video"
    /\ video' = ~video
    /\ frame' = "view"
    /\ Goto(k, "done")
    /\ UNCHANGED <<joined, flag, wants, row, was, drawn, picker, capturing, camera,
                   refusals, odd>>

Next ==
    \/ Start \/ NoClick \/ ViewChat \/ ViewOn
    \/ \E k \in Clicks :
          \/ ClickJoin(k) \/ ClickLeave(k) \/ ClickVideo(k) \/ ClickScreen(k)
          \/ ViewShare(k) \/ ViewCancel(k)
          \/ Enter(k) \/ Insert(k) \/ Delete(k) \/ JoinLost(k) \/ LeaveLost(k) \/ Exit(k)
          \/ Want(k) \/ Tell(k) \/ Share(k) \/ Video(k)

Spec == Init /\ [][Next]_vars

-----------------------------------------------------------------------------

\* Every task has ended, and a frame has brought together what they wrote.
Settled ==
    /\ ~Unfinished
    /\ frame = "start" /\ was = joined
    /\ Keeps(capturing) = capturing /\ ~Opens

(* Once everything has settled, the screen is captured exactly if the      *)
(* client says it shares, the server says so too, and the camera is off if *)
(* its flag is off: nobody is filmed without knowing, and nobody is shown  *)
(* as sharing who is not.  The exceptions the code has are remembered: an  *)
(* update was refused or its answer lost; a join or a leave failed, until  *)
(* the next one goes through; the user went straight to another channel    *)
(* while sharing, which the server's new row does not know of until the    *)
(* sharing is changed or left; a click came before the one before it had   *)
(* taken effect; the picker of an earlier call was still open.             *)
SharingAgrees ==
    Settled /\ odd = {} =>
        /\ capturing = flag
        /\ flag = (row = "on")
        /\ joined = (row # "none")
        /\ camera /\ joined => video
=============================================================================
