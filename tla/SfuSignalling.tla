---------------------------- MODULE SfuSignalling ----------------------------
(***************************************************************************)
(* Offers and answers between one client and the server's SFU sessions:    *)
(* the peer connection of the client (media/sfu_client.rs, driven by the   *)
(* frames of ui/voice_channel_view.rs and by the tasks that add a screen   *)
(* share), the socket both ways, the two slots of the client's state       *)
(* (state/app_state.rs) and, on the server, one peer connection in each    *)
(* session the user was ever in, with the user's WebSocket task and the    *)
(* tasks that push the tracks of others (ws/handler.rs).                   *)
(*                                                                         *)
(* A peer connection is its signalling state and the local offer it waits  *)
(* for an answer to.  What the library accepts in which state is external: *)
(* a remote offer when stable, an answer when it has a local offer; an     *)
(* offer of its own over an unanswered one it may take or refuse.  SDP,    *)
(* ICE candidates and media are left out; which router a track has is      *)
(* SfuRouting.tla.  Offers are numbered, on both sides from one counter.   *)
(***************************************************************************)
EXTENDS Naturals, Sequences, FiniteSets

CONSTANTS
    Channels,
    Shares,     \* tasks spawned to add a screen share
    None,
    MaxOffers   \* bound: offers made, by either side

ASSUME SignallingAssumption == None \notin Channels /\ MaxOffers \in Nat

VARIABLES
    channel,      \* sfu_channel_id
    client,       \* signalling state of the client's connection; "none": there is none
    client_offer, \* its unanswered offer; 0: none
    gathering,    \* its ICE gathering is going on
    screen,       \* local_screen_track is there
    share, share_offer, \* where each screen share task stands; the offer it made
    strays,       \* tasks that hold a connection which the view has replaced or dropped
    sfu_answer,   \* the two slots; 0: empty
    sfu_renegotiate,
    hand,         \* the offer a frame has taken from its slot; 0: none
    c2s, s2c,     \* the socket
    server,       \* signalling state of the connection in each session
    server_offer, \* its unanswered offer
    taking,       \* the offer the WebSocket task is answering; 0: none
    next,         \* offers made so far
    superseded,   \* offers that were closed, replaced or settled before their answer; history
    refused,      \* offers the server turned down; history
    unsent,       \* offers made when the user was in no voice channel any more; history
    mismatched    \* answers applied to another offer; history

slotVars == <<sfu_answer, sfu_renegotiate, hand>>
shareVars == <<screen, share, share_offer, strays>>
clientVars == <<channel, client, client_offer, gathering, shareVars, slotVars>>
serverVars == <<server, server_offer, taking>>
history == <<superseded, refused, unsent, mismatched>>
vars == <<clientVars, c2s, s2c, serverVars, next, history>>

Ids == 1..MaxOffers
NoOffer == 0

FromClient == [type : {"offer"}, channel : Channels, id : Ids] \cup [type : {"answer"}, id : Ids]
FromServer == [type : {"answer", "renegotiate"}, id : Ids]

TypeOK ==
    /\ channel \in Channels \cup {None}
    /\ client \in {"none", "stable", "local", "remote"}
    /\ client_offer \in Ids \cup {NoOffer} /\ (client_offer # NoOffer <=> client = "local")
    /\ gathering \in BOOLEAN /\ screen \in BOOLEAN
    /\ share \in [Shares -> {"unborn", "adding", "checked", "offering", "sending", "over"}]
    /\ share_offer \in [Shares -> Ids \cup {NoOffer}]
    /\ strays \subseteq Shares
    /\ {sfu_answer, sfu_renegotiate, hand, taking} \subseteq Ids \cup {NoOffer}
    /\ c2s \in Seq(FromClient) /\ s2c \in Seq(FromServer)
    /\ server \in [Channels -> {"none", "stable", "local", "remote"}]
    /\ server_offer \in [Channels -> Ids \cup {NoOffer}]
    /\ next \in 0..MaxOffers
    /\ superseded \subseteq Ids /\ refused \subseteq Ids /\ unsent \subseteq Ids
    /\ mismatched \subseteq [by : {"client", "server"}, answer : Ids]

Init ==
    /\ channel = None /\ client = "none" /\ client_offer = NoOffer
    /\ gathering = FALSE /\ screen = FALSE
    /\ share = [s \in Shares |-> "unborn"]
    /\ share_offer = [s \in Shares |-> NoOffer] /\ strays = {}
    /\ sfu_answer = NoOffer /\ sfu_renegotiate = NoOffer /\ hand = NoOffer
    /\ c2s = <<>> /\ s2c = <<>>
    /\ server = [c \in Channels |-> "none"]
    /\ server_offer = [c \in Channels |-> NoOffer]
    /\ taking = NoOffer /\ next = 0
    /\ superseded = {} /\ refused = {} /\ unsent = {} /\ mismatched = {}

NewOffer == next + 1
MakeOffer == next < MaxOffers /\ next' = NewOffer

Outstanding == {client_offer} \ {NoOffer}
(* An answer is applied to an offer: to its own, or the offer will not get *)
(* the answer made for it.                                                 *)
Settle(side, offer, id) ==
    IF offer = id THEN UNCHANGED <<superseded, mismatched>>
    ELSE /\ superseded' = superseded \cup {offer}
         /\ mismatched' = mismatched \cup {[by |-> side, answer |-> id]}

Sessions == {c \in Channels : server[c] # "none"}

-----------------------------------------------------------------------------
(* One frame of the voice channel view.  The UI thread blocks on each of   *)
(* these; the reader and the share tasks go on meanwhile.                  *)

(* A screen share task has a clone of the client it was spawned for.  When *)
(* the view replaces its client, or drops it, the connection lives on in   *)
(* the clone: the task goes on with it, and may still make an offer.       *)
Running == {s \in Shares : share[s] \in {"adding", "checked", "offering", "sending"}}

(* update_sfu_connection: not connected, or to another channel; what there *)
(* was is replaced without being closed.                                   *)
Connect(c) ==
    /\ hand = NoOffer /\ channel # c
    /\ MakeOffer
    /\ channel' = c /\ client' = "local" /\ client_offer' = NewOffer
    /\ gathering' = TRUE /\ screen' = FALSE /\ strays' = Running
    /\ superseded' = superseded \cup Outstanding
    /\ c2s' = Append(c2s, [type |-> "offer", channel |-> c, id |-> NewOffer])
    /\ UNCHANGED <<share, share_offer, slotVars, s2c, serverVars, refused, unsent, mismatched>>

(* The view has no connection any more.  The slots stay.                   *)
NoConnection ==
    /\ hand = NoOffer /\ channel # None
    /\ channel' = None /\ client' = "none" /\ client_offer' = NoOffer
    /\ gathering' = FALSE /\ screen' = FALSE
    /\ superseded' = superseded \cup Outstanding
    /\ UNCHANGED <<share_offer, slotVars, c2s, s2c, serverVars, next, refused, unsent, mismatched>>

(* Nobody has video any more: the connection is closed, once the task that *)
(* adds a track has let it go, and the tasks before their offer find none. *)
Disconnect ==
    /\ \A s \in Shares \ strays : share[s] # "checked"
    /\ NoConnection
    /\ share' = [s \in Shares |->
          IF s \notin strays /\ share[s] \in {"adding", "offering"} THEN "over" ELSE share[s]]
    /\ UNCHANGED strays

(* The user has left: cleanup drops the client.                            *)
Cleanup ==
    /\ NoConnection
    /\ strays' = Running
    /\ UNCHANGED share

GatheringEnds ==
    /\ gathering /\ gathering' = FALSE
    /\ UNCHANGED <<channel, client, client_offer, shareVars, slotVars, c2s, s2c, serverVars,
                   next, history>>

(* take_sfu_answer empties the slot.  Mutant: it reads it.                 *)
AnswerTakenNot == sfu_answer
AnswerTaken == NoOffer

(* handle_answer; in another state than "local" the library refuses.       *)
TakeAnswer ==
    /\ channel # None /\ hand = NoOffer /\ sfu_answer # NoOffer
    /\ sfu_answer' = AnswerTaken
    /\ IF client = "local"
       THEN /\ client' = "stable" /\ client_offer' = NoOffer
            /\ Settle("client", client_offer, sfu_answer)
       ELSE UNCHANGED <<client, client_offer, superseded, mismatched>>
    /\ UNCHANGED <<channel, gathering, shareVars, sfu_renegotiate, hand, c2s, s2c, serverVars,
                   next, refused, unsent>>

TakeRenegotiate ==
    /\ channel # None /\ hand = NoOffer /\ sfu_renegotiate # NoOffer
    /\ hand' = sfu_renegotiate /\ sfu_renegotiate' = NoOffer
    /\ UNCHANGED <<channel, client, client_offer, gathering, shareVars, sfu_answer, c2s, s2c,
                   serverVars, next, history>>

(* handle_renegotiate, Ok(None): back into the slot, over what the reader  *)
(* has put there meanwhile.  Mutant: forgotten.                            *)
PutBackForgotten == sfu_renegotiate
PutBackValue == hand

PutBack ==
    /\ hand # NoOffer /\ client # "remote"
    /\ client # "stable" \/ gathering
    /\ sfu_renegotiate' = PutBackValue
    /\ hand' = NoOffer
    /\ UNCHANGED <<channel, client, client_offer, gathering, shareVars, sfu_answer, c2s, s2c,
                   serverVars, next, history>>

Renegotiate ==
    /\ hand # NoOffer /\ client = "stable" /\ ~gathering
    /\ client' = "remote"
    /\ UNCHANGED <<channel, client_offer, gathering, shareVars, slotVars, c2s, s2c, serverVars,
                   next, history>>

(* create_answer, set_local_description, send_sfu_answer.                  *)
AnswerBack ==
    /\ hand # NoOffer /\ client = "remote"
    /\ client' = "stable" /\ hand' = NoOffer
    /\ c2s' = Append(c2s, [type |-> "answer", id |-> hand])
    /\ UNCHANGED <<channel, client_offer, gathering, shareVars, sfu_answer, sfu_renegotiate,
                   s2c, serverVars, next, history>>

-----------------------------------------------------------------------------
(* Screen sharing.  A frame that sees a capture and no screen track spawns *)
(* a task; the next frame may spawn another one.                           *)
At(s, from, to) ==
    /\ share[s] = from
    /\ share' = [share EXCEPT ![s] = to]

StartShare(s) ==
    /\ channel # None /\ ~screen /\ hand = NoOffer
    /\ At(s, "unborn", "adding")
    /\ UNCHANGED <<channel, client, client_offer, gathering, screen, share_offer, strays, slotVars,
                   c2s, s2c, serverVars, next, history>>

(* start_screen_share: local_screen_track is read, add_track is awaited,   *)
(* and the track is set.  Of the connection of a stray only what can come  *)
(* of it is known.                                                         *)
CheckScreen(s) ==
    /\ \/ (screen \/ s \in strays) /\ At(s, "adding", "over")
       \/ (~screen \/ s \in strays) /\ At(s, "adding", "checked")
    /\ UNCHANGED <<channel, client, client_offer, gathering, screen, share_offer, strays, slotVars,
                   c2s, s2c, serverVars, next, history>>

AddScreen(s) ==
    /\ At(s, "checked", "offering")
    /\ screen' = (screen \/ s \notin strays)
    /\ UNCHANGED <<channel, client, client_offer, gathering, share_offer, strays, slotVars,
                   c2s, s2c, serverVars, next, history>>

(* create_offer, whatever the signalling state.                            *)
OfferScreen(s) ==
    /\ s \notin strays /\ client \in {"stable", "local"}
    /\ At(s, "offering", "sending")
    /\ MakeOffer
    /\ client' = "local" /\ client_offer' = NewOffer
    /\ share_offer' = [share_offer EXCEPT ![s] = NewOffer]
    /\ superseded' = superseded \cup Outstanding
    /\ UNCHANGED <<channel, gathering, screen, strays, slotVars, c2s, s2c, serverVars,
                   refused, unsent, mismatched>>

(* The offer of a connection that nobody listens for any more.             *)
OfferStray(s) ==
    /\ s \in strays
    /\ At(s, "offering", "sending")
    /\ MakeOffer
    /\ share_offer' = [share_offer EXCEPT ![s] = NewOffer]
    /\ superseded' = superseded \cup {NewOffer}
    /\ UNCHANGED <<channel, client, client_offer, gathering, screen, strays, slotVars, c2s, s2c,
                   serverVars, refused, unsent, mismatched>>

(* The library refuses the track, or the offer: then the track stays, and  *)
(* nobody offers it again.                                                 *)
ShareFails(s) ==
    /\ \/ At(s, "checked", "over")
       \/ (s \in strays \/ client \in {"local", "remote"}) /\ At(s, "offering", "over")
    /\ UNCHANGED <<channel, client, client_offer, gathering, screen, share_offer, strays, slotVars,
                   c2s, s2c, serverVars, next, history>>

(* send_sfu_offer, for the voice channel of this moment, which need not be *)
(* the one of the connection; without one the offer is not sent.           *)
SendShare(s) ==
    /\ At(s, "sending", "over")
    /\ \/ /\ \E c \in Channels :
                c2s' = Append(c2s, [type |-> "offer", channel |-> c, id |-> share_offer[s]])
          /\ UNCHANGED unsent
       \/ /\ unsent' = unsent \cup {share_offer[s]}
          /\ UNCHANGED c2s
    /\ share_offer' = [share_offer EXCEPT ![s] = NoOffer]
    /\ UNCHANGED <<channel, client, client_offer, gathering, screen, strays, slotVars,
                   s2c, serverVars, next, superseded, refused, mismatched>>

-----------------------------------------------------------------------------
(* The reader task: a slot holds the last message only.                    *)
Read ==
    /\ s2c # <<>> /\ s2c' = Tail(s2c)
    /\ IF Head(s2c).type = "answer"
       THEN sfu_answer' = Head(s2c).id /\ UNCHANGED sfu_renegotiate
       ELSE sfu_renegotiate' = Head(s2c).id /\ UNCHANGED sfu_answer
    /\ UNCHANGED <<channel, client, client_offer, gathering, shareVars, hand, c2s, serverVars,
                   next, history>>

-----------------------------------------------------------------------------
(* The server.  handle_sfu_offer in the WebSocket task: a connection is    *)
(* made if the session has none of the user, and set_remote_description    *)
(* needs a stable one.  A connection left over from before may refuse the  *)
(* description of a new one.                                               *)
Accepts(c) == server[c] \in {"none", "stable"}

TakeOffer ==
    /\ c2s # <<>> /\ Head(c2s).type = "offer" /\ taking = NoOffer
    /\ LET c == Head(c2s).channel
       IN  \/ /\ Accepts(c)
              /\ server' = [server EXCEPT ![c] = "remote"]
              /\ taking' = Head(c2s).id
              /\ c2s' = Tail(c2s)
              /\ UNCHANGED refused
           \/ /\ server[c] # "none"
              /\ refused' = refused \cup {Head(c2s).id}
              /\ c2s' = Tail(c2s)
              /\ UNCHANGED <<server, taking>>
    /\ UNCHANGED <<clientVars, s2c, server_offer, next, superseded, unsent, mismatched>>

(* create_answer, set_local_description, SfuAnswer.  Mutant: only a new    *)
(* connection of the user is answered.                                     *)
AnswerToNewcomer(id) ==
    IF Cardinality(Sessions) > 1 THEN <<>> ELSE <<[type |-> "answer", id |-> id]>>
AnswerTo(id) == <<[type |-> "answer", id |-> id]>>

SendAnswer ==
    /\ taking # NoOffer /\ taking' = NoOffer
    /\ server' = [c \in Channels |-> IF server[c] = "remote" THEN "stable" ELSE server[c]]
    /\ s2c' = s2c \o AnswerTo(taking)
    /\ UNCHANGED <<clientVars, c2s, server_offer, next, history>>

(* A track of somebody else: at the end of handle_sfu_offer, in            *)
(* handle_incoming_track and in handle_sfu_subscribe_track.  An offer the  *)
(* library refuses is dropped, which changes nothing here.                 *)
Push(c) ==
    /\ server[c] \in {"stable", "local"}
    /\ MakeOffer
    /\ server' = [server EXCEPT ![c] = "local"]
    /\ server_offer' = [server_offer EXCEPT ![c] = NewOffer]
    /\ superseded' = superseded \cup ({server_offer[c]} \ {NoOffer})
    /\ s2c' = Append(s2c, [type |-> "renegotiate", id |-> NewOffer])
    /\ UNCHANGED <<clientVars, c2s, taking, refused, unsent, mismatched>>

(* handle_sfu_answer: some session of the user; without a local offer the  *)
(* library refuses.                                                        *)
TakeSfuAnswer ==
    /\ c2s # <<>> /\ Head(c2s).type = "answer" /\ taking = NoOffer
    /\ c2s' = Tail(c2s)
    /\ \E c \in Sessions :
          IF server[c] = "local"
          THEN /\ server' = [server EXCEPT ![c] = "stable"]
               /\ server_offer' = [server_offer EXCEPT ![c] = NoOffer]
               /\ Settle("server", server_offer[c], Head(c2s).id)
          ELSE UNCHANGED <<server, server_offer, superseded, mismatched>>
    /\ UNCHANGED <<clientVars, s2c, taking, next, refused, unsent>>

-----------------------------------------------------------------------------
FrameStep == GatheringEnds \/ TakeAnswer \/ TakeRenegotiate \/ PutBack \/ Renegotiate \/ AnswerBack

ShareStep(s) ==
    \/ CheckScreen(s) \/ AddScreen(s) \/ OfferScreen(s) \/ OfferStray(s)
    \/ ShareFails(s) \/ SendShare(s)

SocketStep == TakeOffer \/ SendAnswer \/ TakeSfuAnswer

Next ==
    \/ \E c \in Channels : Connect(c) \/ Push(c)
    \/ Disconnect \/ Cleanup \/ FrameStep \/ Read \/ SocketStep
    \/ \E s \in Shares : StartShare(s) \/ ShareStep(s)

Spec == Init /\ [][Next]_vars

(* Frames are drawn all the time, and each looks at both slots; the reader *)
(* and the WebSocket task take what is on the socket; gathering ends.      *)
FairSpec ==
    /\ Spec
    /\ WF_vars(GatheringEnds) /\ SF_vars(TakeAnswer) /\ SF_vars(TakeRenegotiate)
    /\ WF_vars(PutBack \/ Renegotiate \/ AnswerBack)
    /\ WF_vars(Read) /\ WF_vars(SocketStep)
    /\ \A s \in Shares : WF_vars(ShareStep(s))

-----------------------------------------------------------------------------
(* An answer names neither its offer nor its channel: the client takes     *)
(* whatever is in the slot, the server any session of the user.  Still, an *)
(* answer meets the offer it was made for, unless that offer had been      *)
(* replaced, settled by another answer, or closed before the answer came,  *)
(* or was made by a stray task, whose connection nobody listens for; or,   *)
(* on the server, the user was in more than one session.  One answer late  *)
(* by a connection can make every later one late.                          *)
AnswersMatch ==
    \A m \in mismatched :
        m.answer \in superseded \/ (m.by = "server" /\ Cardinality(Sessions) > 1)

(* The client never waits for ever on an offer the server took: it comes   *)
(* to an answer, unless its last offer was refused, or was not sent as the *)
(* user was in no voice channel when the task came to that.  Refused it is *)
(* if the server has made an offer of its own, which the client in turn    *)
(* will not answer: then both sides wait, and only a refusal leads there.  *)
ClientOfferSettles ==
    client = "local" ~> (client # "local" \/ client_offer \in refused \cup unsent)

(* An offer of the server reaches a client that stays, and is answered:    *)
(* the slot, the frames that find the client busy and put the offer back,  *)
(* and the reader that writes the slot meanwhile, lose none for good.  A   *)
(* refused offer, a second session, and an offer of the client's own that  *)
(* it could not send are the ways out.                                     *)
ServerOfferSettles ==
    \A c \in Channels :
        server[c] = "local" ~>
            \/ server[c] # "local" \/ channel # c
            \/ refused # {} \/ client_offer \in unsent \/ Cardinality(Sessions) > 1
=============================================================================
