------------------------------ MODULE Compose ------------------------------
(***************************************************************************)
(* The message box of the chat view (ui/chat.rs) and the drafts kept for   *)
(* each channel (state/app_state.rs).                                      *)
(*                                                                         *)
(* There is one box for all channels.  It serves for new messages, replies *)
(* and edits.  A frame compares the selected channel with the one it drew  *)
(* last; when they differ it spawns a task that saves the box as the old   *)
(* channel's draft and fills it with the new channel's.  It then reads the *)
(* selected channel again, and what is sent goes there.                    *)
(*                                                                         *)
(* A text is known by what it was typed as: a new message of a channel, or *)
(* an edit.  Once an edit's text has been left in the box, or saved, after *)
(* its edit was over it is a remnant, and so is what is added to it and    *)
(* what is typed in a frame that drew another channel than its box is for. *)
(***************************************************************************)
EXTENDS Naturals, FiniteSets

CONSTANTS
    Channels,
    None,
    MaxTasks     \* bound: draft tasks under way

Empty   == <<"empty">>
New(c)  == <<"new", c>>
Edit(c) == <<"edit", c>>
Remnant == <<"remnant">>
Texts   == {Empty, Remnant} \cup {New(c) : c \in Channels} \cup {Edit(c) : c \in Channels}

VARIABLES
    selected,    \* state.current_channel_id
    drafts,      \* state.drafts, Empty where there is none
    tasks,       \* spawned save_draft and clear_draft: [channel, text]
    drawn,       \* the channel the frame draws
    view,        \* self.current_channel_id
    box,         \* message_input
    mode,        \* "new", or what replying_to or editing_message make of it
    files,       \* whether there are pending_attachments
    sent,        \* the request this step has sent: [channel, text, update, torn]
    left,        \* history: channel -> the box when it was last left
    raced        \* history: channels for which two tasks were under way, or to
                 \* which a torn frame sent

vars == <<selected, drafts, tasks, drawn, view, box, mode, files,
          sent, left, raced>>

Requests == [channel : Channels, text : Texts, update : BOOLEAN, torn : BOOLEAN]

TypeOK ==
    /\ {selected, drawn, view} \subseteq Channels \cup {None}
    /\ drafts \in [Channels -> Texts]
    /\ tasks \subseteq [channel : Channels, text : Texts]
    /\ box \in Texts
    /\ mode \in {"new", "reply", "edit"}
    /\ files \in BOOLEAN
    /\ sent \in Requests \cup {None}
    /\ left \in [Channels -> Texts]
    /\ raced \subseteq Channels

Init ==
    /\ selected = None /\ drawn = None /\ view = None
    /\ drafts = [c \in Channels |-> Empty]
    /\ tasks = {}
    /\ box = Empty
    /\ mode = "new"
    /\ files = FALSE
    /\ sent = None
    /\ left = [c \in Channels |-> Empty]
    /\ raced = {}

-----------------------------------------------------------------------------
(* The shared state.                                                       *)

\* The channel list or the switcher, in a task of its own.
Select(c) ==
    /\ selected' = c
    /\ sent' = None
    /\ UNCHANGED <<drafts, tasks, drawn, view, box, mode, files, left, raced>>

\* Mutant of Saved: an empty box is not worth saving.
SavedUnlessEmpty(t) ==
    IF t.text = Empty THEN drafts ELSE [drafts EXCEPT ![t.channel] = t.text]

\* save_draft: an empty text removes the draft, as clear_draft does.
Saved(t) == [drafts EXCEPT ![t.channel] = t.text]

Save(t) ==
    /\ drafts' = Saved(t)
    /\ tasks' = tasks \ {t}
    /\ sent' = None
    /\ UNCHANGED <<selected, drawn, view, box, mode, files, left, raced>>

Pending(c) == \E t \in tasks : t.channel = c

HasRoom == Cardinality(tasks) < MaxTasks

\* A task is spawned; those under way may run after it.
Spawn(c, text) ==
    /\ tasks' = tasks \cup {[channel |-> c, text |-> text]}
    /\ raced' = IF Pending(c) \/ c # view THEN raced \cup {c} ELSE raced \ {c}

-----------------------------------------------------------------------------
(* The frame.                                                              *)

\* An edit's text stays behind when its edit is over.
AfterEdit(text) == IF text \in {Edit(c) : c \in Channels} THEN Remnant ELSE text

\* The second read, of the channel to draw, may find another selected since.
Look ==
    /\ selected' \in {selected} \cup Channels
    /\ drawn' = selected'
    /\ sent' = None

Stay ==
    /\ selected = view
    /\ Look
    /\ UNCHANGED <<drafts, tasks, view, box, mode, files, left, raced>>

\* Pending attachments stay.
Switch ==
    /\ selected # view
    /\ HasRoom
    /\ view' = selected
    /\ Look
    /\ IF view = None
       THEN UNCHANGED <<tasks, left, raced>>
       ELSE /\ Spawn(view, AfterEdit(box))
            /\ left' = [left EXCEPT ![view] = AfterEdit(box)]
    /\ box' = IF selected = None THEN Empty ELSE drafts[selected]
    /\ mode' = "new"
    /\ UNCHANGED <<drafts, files>>

Drawing == drawn # None

Elsewhere ==
    /\ sent' = None
    /\ UNCHANGED <<selected, drafts, tasks, drawn, view, left, raced>>

\* Typing, a mention, formatting marks, a GIF.
Type ==
    /\ Drawing
    /\ box' = IF box = Empty
              THEN IF drawn # view THEN Remnant
                   ELSE IF mode = "edit" THEN Edit(view) ELSE New(view)
              ELSE box
    /\ UNCHANGED <<mode, files>>
    /\ Elsewhere

Erase ==
    /\ Drawing
    /\ box' = Empty
    /\ UNCHANGED <<mode, files>>
    /\ Elsewhere

\* Which channel a file was picked for is not kept.  The dialog is offered
\* only outside an edit; a dropped file is always taken.
PickFile ==
    /\ Drawing
    /\ files' = TRUE
    /\ UNCHANGED <<box, mode>>
    /\ Elsewhere

RemoveFile ==
    /\ Drawing
    /\ files /\ files' \in BOOLEAN
    /\ UNCHANGED <<box, mode>>
    /\ Elsewhere

\* The box keeps what it holds.
StartReply ==
    /\ mode' = "reply"
    /\ box' = IF mode = "edit" THEN AfterEdit(box) ELSE box
    /\ UNCHANGED files

\* The box is overwritten with the message.
StartEdit ==
    /\ mode' = "edit"
    /\ box' = IF drawn = view THEN Edit(view) ELSE Remnant
    /\ UNCHANGED files

\* The buttons of a message, and its keys, which do the same but not during an edit.
AskReply == Drawing /\ StartReply /\ Elsewhere
AskEdit  == Drawing /\ StartEdit /\ Elsewhere

\* The button, or the Escape key.
CancelReply ==
    /\ Drawing
    /\ mode = "reply" /\ mode' = "new"
    /\ UNCHANGED <<box, files>>
    /\ Elsewhere

CancelEdit ==
    /\ Drawing
    /\ mode = "edit" /\ mode' = "new"
    /\ box' = Empty
    /\ UNCHANGED files
    /\ Elsewhere

-----------------------------------------------------------------------------
(* send_message, with what becomes of its task: an upload that fails is    *)
(* logged, and a message without text or files is not sent.                *)

Request == [channel |-> drawn, text |-> box, update |-> mode = "edit", torn |-> drawn # view]

\* An edit takes no files; an upload may fail.
Uploads == IF files /\ mode # "edit" THEN BOOLEAN ELSE {FALSE}

Send ==
    /\ Drawing
    /\ box # Empty \/ files
    /\ HasRoom
    /\ \E uploaded \in Uploads :
          sent' = IF mode = "edit" \/ box # Empty \/ uploaded THEN Request ELSE None
    /\ Spawn(drawn, Empty)
    /\ box' = Empty
    /\ files' = FALSE
    /\ mode' = "new"
    /\ UNCHANGED <<selected, drafts, drawn, view, left>>

Next ==
    \/ \E c \in Channels \cup {None} : Select(c)
    \/ \E t \in tasks : Save(t)
    \/ Stay \/ Switch
    \/ Type \/ Erase \/ PickFile \/ RemoveFile
    \/ AskReply \/ AskEdit \/ CancelReply \/ CancelEdit
    \/ Send

Spec == Init /\ [][Next]_vars

-----------------------------------------------------------------------------

\* Parts of ComposeAgrees.
BoxIsOfView ==
    /\ \A c \in Channels : box = New(c) => view = c /\ mode # "edit"
    /\ \A c \in Channels : box = Edit(c) => view = c /\ mode = "edit"

DraftsAreOwn == \A c \in Channels : drafts[c] \in {Empty, Remnant, New(c)}

DraftsKept ==
    \A c \in Channels \ raced : c # view /\ ~Pending(c) => drafts[c] = left[c]

SentWhereTyped ==
    sent # None /\ ~sent.torn =>
        sent.text \in {Empty, Remnant, IF sent.update THEN Edit(sent.channel)
                                                      ELSE New(sent.channel)}

(* What the box holds was typed for the channel in view and as what the    *)
(* box is for, a channel that was left finds its draft again, and a request *)
(* takes to a channel only what was typed for it.  What the code does      *)
(* otherwise is excepted: a reply or a switch in the midst of an edit      *)
(* leaves the edit's text behind, two tasks for one channel may run in     *)
(* either order, and a frame may be torn by a selection between its reads. *)
ComposeAgrees == BoxIsOfView /\ DraftsAreOwn /\ DraftsKept /\ SentWhereTyped
=============================================================================
