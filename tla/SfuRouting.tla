----------------------------- MODULE SfuRouting -----------------------------
(***************************************************************************)
(* One voice channel's SFU session on the server (sfu/session.rs and the   *)
(* handle_sfu_* functions of ws/handler.rs): who has a peer connection,    *)
(* which track of which publisher has a router, and whom a router feeds.   *)
(*                                                                         *)
(* Three kinds of tasks change the session.  A user's WebSocket task takes *)
(* one message at a time: an offer, a subscription, an unsubscription.  A  *)
(* track handler is handle_incoming_track, run by on_track or by a poll.   *)
(* A poll is the task an offer of a known user leaves behind, because      *)
(* on_track may not fire then: rounds of looking at the receivers.         *)
(*                                                                         *)
(* One action is what happens between two awaits that others can see the   *)
(* effect of.  Offers and answers as such are SfuSignalling.tla; a router  *)
(* at work is VideoStream.tla.  A user has one connection here.  Nobody is *)
(* ever removed from a session: remove_user has no caller.                 *)
(***************************************************************************)
EXTENDS Naturals, FiniteSets

CONSTANTS
    Users,
    Handlers,   \* runs of handle_incoming_track; each makes at most one router
    Polls,      \* poll tasks, one for each accepted offer of a known user
    None,
    MaxRounds,  \* rounds of a poll: 50 in the code
    MaxOffers   \* bound: offers in all

ASSUME SfuAssumption ==
    /\ None \notin Users \cup Polls
    /\ MaxRounds \in Nat \ {0} /\ MaxOffers \in Nat

TrackType == {"Webcam", "Screen"}

VARIABLES
    peer_connections,      \* users who have one
    task,                  \* where each user's WebSocket task stands
    owed,                  \* publishers whose routers a newcomer is still to take
    screen_subscriptions,  \* of each screen owner
    offers,                \* offers so far
    offered, tracks,       \* track types each user has offered; that have arrived
    step,                  \* where each track handler stands
    publisher, track_type, \* of each handler and of its router
    caller,                \* the poll that waits for it; None for on_track
    audience, todo,        \* get_users; those of them still to be served
    subscriber_tracks,     \* of each router
    told,                  \* routers each user was sent SfuTrackAdded for
    rounds, sweep, doing,  \* of each poll: rounds left, tracks to look at, phase
    polled,                \* of each poll: the user
    looked,                \* of each poll: the tracks its last round began with; history
    joined,                \* users whose first offer was answered; history
    missed,                \* pairs of user and handler that overlapped; history
    rivals                 \* handlers at work on one track at a time; history

sessionVars == <<peer_connections, task, owed, screen_subscriptions, offers,
                 offered, joined>>
handlerVars == <<step, publisher, track_type, caller, audience, todo, rivals>>
pollVars == <<rounds, sweep, doing, polled, looked>>
vars == <<sessionVars, tracks, handlerVars, subscriber_tracks, told, pollVars, missed>>

TypeOK ==
    /\ peer_connections \subseteq Users
    /\ task \in [Users -> {"idle", "new", "again", "publishers", "routers"}]
    /\ owed \in [Users -> SUBSET Users]
    /\ screen_subscriptions \in [Users -> SUBSET Users]
    /\ offers \in 0..MaxOffers
    /\ offered \in [Users -> SUBSET TrackType]
    /\ tracks \in [Users -> SUBSET TrackType]
    /\ step \in [Handlers -> {"unborn", "checked", "serving", "stored"}]
    /\ publisher \in [Handlers -> Users \cup {None}]
    /\ track_type \in [Handlers -> TrackType]
    /\ caller \in [Handlers -> Polls \cup {None}]
    /\ audience \in [Handlers -> SUBSET Users]
    /\ todo \in [Handlers -> SUBSET Users]
    /\ subscriber_tracks \in [Handlers -> SUBSET Users]
    /\ told \in [Users -> SUBSET Handlers]
    /\ rounds \in [Polls -> 0..MaxRounds]
    /\ sweep \in [Polls -> SUBSET TrackType]
    /\ doing \in [Polls -> {"unborn", "asleep", "sweeping", "waiting", "over"}]
    /\ polled \in [Polls -> Users \cup {None}]
    /\ looked \in [Polls -> SUBSET TrackType]
    /\ joined \subseteq Users
    /\ missed \subseteq Users \X Handlers
    /\ rivals \subseteq Handlers \X Handlers

Init ==
    /\ peer_connections = {} /\ offers = 0 /\ joined = {} /\ missed = {} /\ rivals = {}
    /\ task = [u \in Users |-> "idle"]
    /\ owed = [u \in Users |-> {}]
    /\ screen_subscriptions = [u \in Users |-> {}]
    /\ offered = [u \in Users |-> {}]
    /\ tracks = [u \in Users |-> {}]
    /\ step = [h \in Handlers |-> "unborn"]
    /\ publisher = [h \in Handlers |-> None]
    /\ track_type = [h \in Handlers |-> "Webcam"]
    /\ caller = [h \in Handlers |-> None]
    /\ audience = [h \in Handlers |-> {}]
    /\ todo = [h \in Handlers |-> {}]
    /\ subscriber_tracks = [h \in Handlers |-> {}]
    /\ told = [u \in Users |-> {}]
    /\ rounds = [p \in Polls |-> 0]
    /\ sweep = [p \in Polls |-> {}]
    /\ doing = [p \in Polls |-> "unborn"]
    /\ polled = [p \in Polls |-> None]
    /\ looked = [p \in Polls |-> {}]

(* track_routers: a handler that is through stands for its router.         *)
Routers(u) == {h \in Handlers : step[h] = "stored" /\ publisher[h] = u}
RoutersByType(u, t) == {h \in Routers(u) : track_type[h] = t}
Publishers == {u \in Users : Routers(u) # {}}
HasRouter(u, t) == RoutersByType(u, t) # {}

(* Has taken the list of users and not stored its router.                  *)
InFlight(h) == step[h] = "serving"

Goto(u, from, to) ==
    /\ task[u] = from
    /\ task' = [task EXCEPT ![u] = to]

-----------------------------------------------------------------------------
(* handle_sfu_offer, in the WebSocket task of u.                           *)

(* get_peer_connection, else create_peer_connection.                       *)
Offer(u) ==
    /\ offers < MaxOffers /\ offers' = offers + 1
    /\ IF u \in peer_connections THEN Goto(u, "idle", "again") ELSE Goto(u, "idle", "new")
    /\ peer_connections' = peer_connections \cup {u}
    /\ UNCHANGED <<owed, screen_subscriptions, offered, joined,
                   tracks, handlerVars, subscriber_tracks, told, pollVars, missed>>

(* set_remote_description fails, or the answer does: the connection stays. *)
RejectOffer(u) ==
    /\ Goto(u, "new", "idle") \/ Goto(u, "again", "idle")
    /\ UNCHANGED <<peer_connections, owed, screen_subscriptions, offers, offered, joined,
                   tracks, handlerVars, subscriber_tracks, told, pollVars, missed>>

(* A new client connection offers a webcam track.                          *)
AcceptNew(u) ==
    /\ Goto(u, "new", "publishers")
    /\ offered' = [offered EXCEPT ![u] = @ \cup {"Webcam"}]
    /\ UNCHANGED <<peer_connections, owed, screen_subscriptions, offers, joined,
                   tracks, handlerVars, subscriber_tracks, told, pollVars, missed>>

(* A known user, who may be sharing the screen now: a poll is spawned, and *)
(* nobody's tracks are added.                                              *)
AcceptAgain(u, p) ==
    /\ Goto(u, "again", "idle")
    /\ \E ts \in {{"Webcam"}, TrackType} : offered' = [offered EXCEPT ![u] = @ \cup ts]
    /\ doing[p] = "unborn"
    /\ doing' = [doing EXCEPT ![p] = "asleep"]
    /\ polled' = [polled EXCEPT ![p] = u]
    /\ rounds' = [rounds EXCEPT ![p] = MaxRounds]
    /\ UNCHANGED <<peer_connections, owed, screen_subscriptions, offers, joined,
                   tracks, handlerVars, subscriber_tracks, told, sweep, looked, missed>>

(* get_publishers.  A handler that took its list of users before u was in  *)
(* it and has not stored its router is passed by.                          *)
ReadPublishers(u) ==
    /\ Goto(u, "publishers", "routers")
    /\ owed' = [owed EXCEPT ![u] = Publishers \ {u}]
    /\ missed' = missed \cup
          {<<u, h>> : h \in {g \in Handlers : InFlight(g) /\ u \notin audience[g]
                                              /\ publisher[g] \notin Publishers}}
    /\ UNCHANGED <<peer_connections, screen_subscriptions, offers, offered, joined,
                   tracks, handlerVars, subscriber_tracks, told, pollVars>>

(* get_user_routers of one publisher, and the loop over them: webcams are  *)
(* subscribed to, everything is told.  Mutant: screens are subscribed to,  *)
(* and webcams are not.                                                    *)
WebcamsOfScreens(p) == RoutersByType(p, "Screen")
WebcamsOf(p) == RoutersByType(p, "Webcam")

TakeRouters(u, p) ==
    /\ task[u] = "routers" /\ p \in owed[u]
    /\ owed' = [owed EXCEPT ![u] = @ \ {p}]
    /\ subscriber_tracks' = [h \in Handlers |->
          IF h \in WebcamsOf(p) THEN subscriber_tracks[h] \cup {u} ELSE subscriber_tracks[h]]
    /\ told' = [told EXCEPT ![u] = @ \cup Routers(p)]
    /\ missed' = missed \cup
          {<<u, h>> : h \in {g \in Handlers : InFlight(g) /\ u \notin audience[g]
                                              /\ publisher[g] = p}}
    /\ UNCHANGED <<peer_connections, task, screen_subscriptions, offers, offered, joined,
                   tracks, handlerVars, pollVars>>

(* The answer, and the server's own offer if there are publishers.         *)
FinishJoin(u) ==
    /\ owed[u] = {}
    /\ Goto(u, "routers", "idle")
    /\ joined' = joined \cup {u}
    /\ UNCHANGED <<peer_connections, owed, screen_subscriptions, offers, offered,
                   tracks, handlerVars, subscriber_tracks, told, pollVars, missed>>

-----------------------------------------------------------------------------
(* handle_incoming_track.  The receivers show a track when its RTP comes.  *)
Appear(u, t) ==
    /\ t \in offered[u] \ tracks[u]
    /\ tracks' = [tracks EXCEPT ![u] = @ \cup {t}]
    /\ UNCHANGED <<sessionVars, handlerVars, subscriber_tracks, told, pollVars, missed>>

AlreadyHandled(u, t) == HasRouter(u, t)

(* Mutant: the check is dropped.                                           *)
MayStartUnchecked(u, t) == t \in tracks[u]
MayStart(u, t) == t \in tracks[u] /\ ~AlreadyHandled(u, t)

(* A handler that finds a router returns, and changes nothing.             *)
Check(h, u, t, p) ==
    /\ step[h] = "unborn"
    /\ MayStart(u, t)
    /\ step' = [step EXCEPT ![h] = "checked"]
    /\ publisher' = [publisher EXCEPT ![h] = u]
    /\ track_type' = [track_type EXCEPT ![h] = t]
    /\ caller' = [caller EXCEPT ![h] = p]
    /\ rivals' = rivals \cup {<<g, h>> : g \in {x \in Handlers :
                    step[x] \in {"checked", "serving"} /\ publisher[x] = u /\ track_type[x] = t}}
    /\ UNCHANGED <<audience, todo>>

(* on_track may fire for a track, or not, or twice.                        *)
OnTrack(h, u, t) ==
    /\ Check(h, u, t, None)
    /\ UNCHANGED <<sessionVars, tracks, subscriber_tracks, told, pollVars, missed>>

(* TrackRouter::new and get_users.                                         *)
ListUsers(h) ==
    /\ step[h] = "checked"
    /\ step' = [step EXCEPT ![h] = "serving"]
    /\ audience' = [audience EXCEPT ![h] = peer_connections \ {publisher[h]}]
    /\ todo' = [todo EXCEPT ![h] = peer_connections \ {publisher[h]}]
    /\ UNCHANGED <<sessionVars, tracks, publisher, track_type, caller, rivals,
                   subscriber_tracks, told, pollVars, missed>>

(* One user of the list: a webcam is subscribed to and told, unless        *)
(* add_track fails; a screen is only told.                                 *)
Serve(h, x) ==
    /\ InFlight(h) /\ x \in todo[h]
    /\ todo' = [todo EXCEPT ![h] = @ \ {x}]
    /\ \/ /\ track_type[h] = "Webcam"
          /\ subscriber_tracks' = [subscriber_tracks EXCEPT ![h] = @ \cup {x}]
          /\ told' = [told EXCEPT ![x] = @ \cup {h}] \/ UNCHANGED told
       \/ /\ track_type[h] = "Screen"
          /\ told' = [told EXCEPT ![x] = @ \cup {h}]
          /\ UNCHANGED subscriber_tracks
    /\ UNCHANGED <<sessionVars, tracks, step, publisher, track_type, caller, audience, rivals,
                   pollVars, missed>>

(* add_track_router comes last; a poll that waited goes on.                *)
Store(h) ==
    /\ InFlight(h) /\ todo[h] = {}
    /\ step' = [step EXCEPT ![h] = "stored"]
    /\ IF caller[h] \in Polls
       THEN /\ doing' = [doing EXCEPT ![caller[h]] = "sweeping"]
            /\ sweep' = [sweep EXCEPT ![caller[h]] = @ \ {track_type[h]}]
       ELSE UNCHANGED <<doing, sweep>>
    /\ UNCHANGED <<sessionVars, tracks, publisher, track_type, caller, audience, todo, rivals,
                   subscriber_tracks, told, rounds, polled, looked, missed>>

-----------------------------------------------------------------------------
(* The poll: at most MaxRounds rounds, 100 ms apart.                       *)
StartRound(p) ==
    /\ doing[p] = "asleep"
    /\ doing' = [doing EXCEPT ![p] = "sweeping"]
    /\ sweep' = [sweep EXCEPT ![p] = tracks[polled[p]]]
    /\ looked' = [looked EXCEPT ![p] = tracks[polled[p]]]
    /\ UNCHANGED <<sessionVars, tracks, handlerVars, subscriber_tracks, told, rounds, polled, missed>>

SkipTrack(p, t) ==
    /\ doing[p] = "sweeping" /\ t \in sweep[p]
    /\ AlreadyHandled(polled[p], t)
    /\ sweep' = [sweep EXCEPT ![p] = @ \ {t}]
    /\ UNCHANGED <<sessionVars, tracks, handlerVars, subscriber_tracks, told,
                   rounds, doing, polled, looked, missed>>

FindTrack(p, t, h) ==
    /\ doing[p] = "sweeping" /\ t \in sweep[p]
    /\ Check(h, polled[p], t, p)
    /\ doing' = [doing EXCEPT ![p] = "waiting"]
    /\ UNCHANGED <<sessionVars, tracks, subscriber_tracks, told, rounds, sweep, polled, looked, missed>>

(* Mutant: any router ends the poll.                                       *)
PollDoneAny(u) == Routers(u) # {}
PollDone(u) == HasRouter(u, "Screen")

(* Mutant: one round more.                                                 *)
LastRoundLate(p) == rounds[p] = 0
LastRound(p) == rounds[p] = 1

EndRound(p) ==
    /\ doing[p] = "sweeping" /\ sweep[p] = {}
    /\ rounds' = [rounds EXCEPT ![p] = @ - 1]
    /\ doing' = [doing EXCEPT ![p] =
          IF PollDone(polled[p]) \/ LastRound(p) THEN "over" ELSE "asleep"]
    /\ UNCHANGED <<sessionVars, tracks, handlerVars, subscriber_tracks, told, sweep, polled, looked, missed>>

-----------------------------------------------------------------------------
(* handle_sfu_subscribe_track and handle_sfu_unsubscribe_track.  Clients   *)
(* send them for screens only.  The routers are changed one by one and     *)
(* screen_subscriptions after them, which nobody reads in between.         *)
AreHere(u, p) == u # p /\ {u, p} \subseteq peer_connections

SubscribeTrack(u, p) ==
    /\ task[u] = "idle" /\ AreHere(u, p)
    /\ HasRouter(p, "Screen")
    /\ subscriber_tracks' = [h \in Handlers |->
          IF h \in RoutersByType(p, "Screen") THEN subscriber_tracks[h] \cup {u}
          ELSE subscriber_tracks[h]]
    /\ screen_subscriptions' = [screen_subscriptions EXCEPT ![p] = @ \cup {u}]
    /\ UNCHANGED <<peer_connections, task, owed, offers, offered, joined,
                   tracks, handlerVars, told, pollVars, missed>>

(* Mutant: only one of the routers.                                        *)
UnsubscribedFromOne(p) ==
    IF HasRouter(p, "Screen") THEN {CHOOSE h \in RoutersByType(p, "Screen") : TRUE} ELSE {}
UnsubscribedFrom(p) == RoutersByType(p, "Screen")

UnsubscribeTrack(u, p) ==
    /\ task[u] = "idle" /\ AreHere(u, p)
    /\ subscriber_tracks' = [h \in Handlers |->
          IF h \in UnsubscribedFrom(p) THEN subscriber_tracks[h] \ {u} ELSE subscriber_tracks[h]]
    /\ screen_subscriptions' = [screen_subscriptions EXCEPT ![p] = @ \ {u}]
    /\ UNCHANGED <<peer_connections, task, owed, offers, offered, joined,
                   tracks, handlerVars, told, pollVars, missed>>

-----------------------------------------------------------------------------
SessionStep(u) ==
    \/ Offer(u) \/ RejectOffer(u) \/ AcceptNew(u) \/ ReadPublishers(u) \/ FinishJoin(u)
    \/ \E p \in Polls : AcceptAgain(u, p)
    \/ \E p \in Users : TakeRouters(u, p) \/ SubscribeTrack(u, p) \/ UnsubscribeTrack(u, p)

HandlerStep(h) == ListUsers(h) \/ Store(h) \/ \E x \in Users : Serve(h, x)

PollStep(p) ==
    \/ StartRound(p) \/ EndRound(p)
    \/ \E t \in TrackType : SkipTrack(p, t) \/ \E h \in Handlers : FindTrack(p, t, h)

Next ==
    \/ \E u \in Users : SessionStep(u) \/ \E t \in TrackType : Appear(u, t)
    \/ \E h \in Handlers : HandlerStep(h)
    \/ \E h \in Handlers, u \in Users, t \in TrackType : OnTrack(h, u, t)
    \/ \E p \in Polls : PollStep(p)

Spec == Init /\ [][Next]_vars

-----------------------------------------------------------------------------
(* Who is in the session sees who publishes in it: a user whose join went  *)
(* through is fed by every stored webcam router of somebody else, and told *)
(* of every screen, unless the join and the creation of that router        *)
(* overlapped.  The two loops (over the publishers in handle_sfu_offer,    *)
(* over the users in handle_incoming_track) have to meet.                  *)
Reached ==
    \A u \in joined, h \in Handlers :
        step[h] = "stored" /\ publisher[h] # u /\ <<u, h>> \notin missed =>
            IF track_type[h] = "Webcam" THEN u \in subscriber_tracks[h] ELSE h \in told[u]

(* Two routers of one track exist only if one handler checked while the    *)
(* other was between its check and its add_track_router: on_track firing   *)
(* again, and the rounds of the polls, add none.                           *)
RoutersUnique ==
    \A g, h \in Handlers :
        /\ g # h /\ step[g] = "stored" /\ step[h] = "stored"
        /\ publisher[g] = publisher[h] /\ track_type[g] = track_type[h]
        => <<g, h>> \in rivals \/ <<h, g>> \in rivals

(* A screen reaches those who asked for it, and nobody else: whose screens *)
(* a user gets is what screen_subscriptions says, though routers come and  *)
(* come twice while users join, subscribe and unsubscribe.                 *)
WatchersAgree ==
    \A u, p \in Users :
        u \in screen_subscriptions[p] <=>
            \E h \in RoutersByType(p, "Screen") : u \in subscriber_tracks[h]

(* The polls are what finds a track when on_track does not fire: a track   *)
(* that had arrived when a round began has a router when the round is      *)
(* over, whoever made it, and no poll gives up with rounds left before it  *)
(* has found a screen.                                                     *)
PollsFindTracks ==
    \A p \in Polls :
        /\ doing[p] \in {"asleep", "over"} =>
              \A t \in looked[p] : HasRouter(polled[p], t)
        /\ doing[p] = "over" => rounds[p] = 0 \/ HasRouter(polled[p], "Screen")
=============================================================================
