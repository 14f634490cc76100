---------------------------- MODULE RemoteTracks ----------------------------
(***************************************************************************)
(* The tracks a client receives from the SFU (media/sfu_client.rs) and     *)
(* the pictures its view draws from them (ui/voice_channel_view.rs).       *)
(*                                                                         *)
(* A webcam is offered to everybody; a screen to those who watch it.  A    *)
(* renegotiation starts a poll, because on_track may not fire: the poll    *)
(* goes round the transceivers until it has found something or has tried   *)
(* often enough, for any number of rounds here.  Whoever finds a track     *)
(* that is not in handled_tracks puts it there and starts a handler, which *)
(* decodes until the track ends.                                           *)
(* What the SFU does between a subscription and its offer is SfuRouting's  *)
(* and SfuSignalling's; here the offer comes, or the track goes.           *)
(***************************************************************************)
EXTENDS Naturals

CONSTANTS
    Webcams, Screens,  \* tracks: a user's and a type, as in a stream id
    Polls,             \* bound: renegotiations of the session
    MaxHandlers        \* bound: handlers of one track at a time

Tracks == Webcams \cup Screens

VARIABLES
    watching,  \* watching_screens
    texture,   \* screens the view has a picture of
    track,     \* "none", "offered", "live" or "over"
    handled,   \* handled_tracks
    frames,    \* remote_frames
    poll,      \* poll -> where it is
    todo,      \* poll -> the tracks it has not looked at in this round
    handlers,  \* track -> handlers that decode it
    blind,     \* history: tracks that were over before they were offered, or
               \* that a handler could make no decoder for
    passed     \* history: tracks a poll, or on_track, has come past

session == <<track, handled, frames, poll, todo, handlers>>
history == <<blind, passed>>
vars    == <<watching, texture, session, history>>

TypeOK ==
    /\ watching \subseteq Screens
    /\ texture \subseteq Screens
    /\ track \in [Tracks -> {"none", "offered", "live", "over"}]
    /\ handled \subseteq Tracks /\ frames \subseteq Tracks
    /\ poll \in [Polls -> {"new", "look", "done"} \cup Tracks]
    /\ todo \in [Polls -> SUBSET Tracks]
    /\ handlers \in [Tracks -> 0..MaxHandlers]
    /\ blind \subseteq Tracks /\ passed \subseteq Tracks

Init ==
    /\ watching = {} /\ texture = {}
    /\ track = [t \in Tracks |-> "none"]
    /\ handled = {} /\ frames = {}
    /\ poll = [p \in Polls |-> "new"]
    /\ todo = [p \in Polls |-> {}]
    /\ handlers = [t \in Tracks |-> 0]
    /\ blind = {} /\ passed = {}

Decoded(t) == handlers[t] > 0

\* handle_remote_track is spawned.  It makes a decoder, or cannot and returns: the
\* mark stays.
StartHandler(t) ==
    /\ handlers[t] < MaxHandlers
    /\ \/ handlers' = [handlers EXCEPT ![t] = @ + 1] /\ UNCHANGED blind
       \/ blind' = blind \cup {t} /\ UNCHANGED handlers

-----------------------------------------------------------------------------
(* The SFU's offer, and the poll it starts.                                *)

\* The tracks of an offer: webcams, and screens the client has asked for.
Offer(p, ts) ==
    /\ ts # {} /\ ts \cap Screens \subseteq watching
    /\ \A t \in ts : track[t] \in {"none", "over"} /\ ~Decoded(t)
    /\ poll[p] = "new"
    /\ poll' = [poll EXCEPT ![p] = "look"]
    /\ todo' = [todo EXCEPT ![p] = Tracks]
    /\ blind' = blind \cup {t \in ts : track[t] = "over"}
    /\ track' = [t \in Tracks |-> IF t \in ts THEN "offered" ELSE track[t]]
    /\ passed' = passed \ ts
    /\ UNCHANGED <<watching, texture, handled, frames, handlers>>

\* The transceiver gets its track, at some time after the answer.
Appear(t) ==
    /\ track[t] = "offered"
    /\ track' = [track EXCEPT ![t] = "live"]
    /\ UNCHANGED <<watching, texture, handled, frames, poll, todo, handlers,
                   history>>

\* on_track, if it fires: it looks and marks under one lock.
OnTrack(t) ==
    /\ track[t] = "live"
    /\ t \notin handled
    /\ handled' = handled \cup {t}
    /\ passed' = passed \cup {t}
    /\ StartHandler(t)
    /\ UNCHANGED <<watching, texture, track, frames, poll, todo>>

\* Mutant of AlreadyHandled: one handler for each user, whatever the type.
AlreadyHandledUser(t) == handled # {}

\* The poll looks under one lock and marks under another.
AlreadyHandled(t) == t \in handled

Look(p, t) ==
    /\ poll[p] = "look"
    /\ t \in todo[p]
    /\ todo' = [todo EXCEPT ![p] = @ \ {t}]
    /\ poll' = IF track[t] = "live" /\ ~AlreadyHandled(t)
                   THEN [poll EXCEPT ![p] = t] ELSE poll
    /\ passed' = IF track[t] = "live" THEN passed \cup {t} ELSE passed
    /\ UNCHANGED <<watching, texture, track, handled, frames, handlers,
                   blind>>

Mark(p) ==
    /\ poll[p] \in Tracks
    /\ handled' = handled \cup {poll[p]}
    /\ StartHandler(poll[p])
    /\ poll' = [poll EXCEPT ![p] = "look"]
    /\ UNCHANGED <<watching, texture, track, frames, todo, passed>>

\* Another round, or the end: 20 rounds, or two once it has found a track.
EndRound(p) ==
    /\ poll[p] = "look"
    /\ todo[p] = {}
    /\ \/ todo' = [todo EXCEPT ![p] = Tracks] /\ UNCHANGED poll
       \/ poll' = [poll EXCEPT ![p] = "done"] /\ UNCHANGED todo
    /\ UNCHANGED <<watching, texture, track, handled, frames, handlers, history>>

-----------------------------------------------------------------------------
(* The handlers.                                                           *)

Decode(t) ==
    /\ Decoded(t) /\ track[t] = "live"
    /\ frames' = frames \cup {t}
    /\ UNCHANGED <<watching, texture, track, handled, poll, todo, handlers,
                   history>>

\* The track is closed or its receiver gone.  The mark stays.
EndHandler(t) ==
    /\ Decoded(t) /\ track[t] = "over"
    /\ handlers' = [handlers EXCEPT ![t] = @ - 1]
    /\ frames' = frames \ {t}
    /\ UNCHANGED <<watching, texture, track, handled, poll, todo, history>>

-----------------------------------------------------------------------------
(* The view.                                                               *)

\* toggle_watch_screen and the subscription it queues.
Watch(t) ==
    /\ t \notin watching
    /\ watching' = watching \cup {t}
    /\ UNCHANGED <<texture, session, history>>

\* The other way: the server takes the track away.
Unwatch(t) ==
    /\ t \in watching
    /\ watching' = watching \ {t}
    /\ texture' = texture \ {t}
    /\ track' = [track EXCEPT ![t] = IF @ = "none" THEN "none" ELSE "over"]
    /\ UNCHANGED <<handled, frames, poll, todo, handlers,
                   history>>

\* Its publisher stops, or leaves.
Ends(t) ==
    /\ track[t] = "live"
    /\ track' = [track EXCEPT ![t] = "over"]
    /\ UNCHANGED <<watching, texture, handled, frames, poll, todo, handlers,
                   history>>

\* update_remote_textures.
Draw(t) ==
    /\ t \in frames /\ t \in watching
    /\ texture' = texture \cup {t}
    /\ UNCHANGED <<watching, session, history>>

\* A client of its own for every session; the old one is dropped.
NewSession ==
    /\ track' = [t \in Tracks |-> "none"]
    /\ handled' = {} /\ frames' = {}
    /\ poll' = [p \in Polls |-> IF poll[p] = "new" THEN "new" ELSE "done"]
    /\ todo' = [p \in Polls |-> {}]
    /\ handlers' = [t \in Tracks |-> 0]
    /\ blind' = {} /\ passed' = {}

\* Another voice channel with the SFU on: the view keeps what it shows.
Switch ==
    /\ \E t \in Tracks : track[t] # "none"
    /\ NewSession
    /\ UNCHANGED <<watching, texture>>

\* The call is over, or nobody has a picture any more.
Disconnect ==
    /\ \E t \in Tracks : track[t] # "none"
    /\ NewSession
    /\ watching' = {} /\ texture' = {}

Next ==
    \/ \E p \in Polls :
          \/ \E ts \in SUBSET Tracks : Offer(p, ts)
          \/ \E t \in Tracks : Look(p, t)
          \/ Mark(p)
          \/ EndRound(p)
    \/ \E t \in Tracks :
          \/ Appear(t) \/ Ends(t)
          \/ OnTrack(t) \/ Decode(t) \/ EndHandler(t)
    \/ \E t \in Screens : Watch(t) \/ Unwatch(t) \/ Draw(t)
    \/ Switch \/ Disconnect

Spec == Init /\ [][Next]_vars

-----------------------------------------------------------------------------

\* The polls are over.
Polled == \A p \in Polls : poll[p] \in {"new", "done"}

(* A track that a poll, or on_track, has come past while it was live is    *)
(* decoded once the polls are over, and a picture in remote_frames is one  *)
(* somebody still decodes.  One that comes back after its end is excepted: *)
(* its mark is still there, and the code takes it for handled.  So is one  *)
(* whose handler could make no decoder: nobody tries again.                *)
TracksDecoded ==
    /\ \A t \in passed \ blind :
          Polled /\ track[t] = "live" => Decoded(t)
    /\ \A t \in frames : Decoded(t)
=============================================================================
