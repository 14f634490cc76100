------------------------------ MODULE Records ------------------------------
(***************************************************************************)
(* Communities, their members, invites and channels, and direct message    *)
(* channels, as the requests about them leave them in the database         *)
(* (api/communities.rs, api/channels.rs, services/channel.rs).             *)
(*                                                                         *)
(* Nothing here is a transaction: a request is a list of statements, other *)
(* requests run between them, and a request may stop after any of them     *)
(* (the server dies, or the pool has no connection), with nothing to undo  *)
(* what it has done.  What holds the records together are the constraints  *)
(* of the schema, which are part of the statements.                        *)
(***************************************************************************)
EXTENDS Naturals, FiniteSets

CONSTANTS
    Users,      \* who makes requests
    MaxRequests, \* bound: requests, numbered in the order they come
    None        \* no user

Requests == 1..MaxRequests

VARIABLES
    community,  \* one community: "no", "there" or "gone"
    owner,      \* its owner_id
    members,    \* the users with a row in community_members
    channels,   \* its channels: [by, name, position]
    invite,     \* "no", or the number of uses of its invite
    dms,        \* rows of direct_message_channels: [user1, user2, channel]
    orphans,    \* channels of direct messages without such a row
    req,        \* request -> [kind, user, other, at, seen]
    odd         \* history: what has overlapped or stopped half-way

tables == <<community, owner, members, channels, invite, dms, orphans>>
vars   == <<tables, req, odd>>

NoInvite == MaxRequests + 1
Kinds    == {"create", "channel", "delete", "invite", "join", "dm", "none"}
Steps    == {"new", "done", "member", "textMax", "text", "voiceMax", "voice", "owner", "max",
             "insert", "find", "uses", "row"}
Odd      == {"create", "join", "positions", "dm", "removed"}
NewReq   == [kind |-> "none", user |-> None, other |-> None, at |-> "new", seen |-> 0]

TypeOK ==
    /\ community \in {"no", "there", "gone"}
    /\ owner \in Users \cup {None}
    /\ members \subseteq Users
    /\ channels \subseteq [by : 0..MaxRequests, name : {"text", "voice", "more"}, position : Nat]
    /\ invite \in Nat
    /\ dms \subseteq [user1 : Users, user2 : Users, channel : Requests]
    /\ orphans \subseteq Requests
    /\ req \in [Requests -> [kind : Kinds, user : Users \cup {None}, other : Users \cup {None},
                             at : Steps, seen : Nat]]
    /\ odd \subseteq Odd

\* Nothing yet, or a community made earlier by some user, with its invite.
Init ==
    /\ \/ /\ community = "no" /\ owner = None /\ members = {} /\ channels = {}
          /\ invite = NoInvite
       \/ /\ community = "there" /\ owner \in Users /\ members = {owner} /\ invite = 0
          /\ channels = {[by |-> 0, name |-> "text", position |-> 1],
                         [by |-> 0, name |-> "voice", position |-> 2]}
    /\ dms = {} /\ orphans = {}
    /\ req = [r \in Requests |-> NewReq]
    /\ odd = {}

At(r, kind, step) == req[r].kind = kind /\ req[r].at = step
\* What a request that is over was about does not matter any more.
Goes(r, step) == req' = [req EXCEPT ![r] = IF step = "done" THEN [NewReq EXCEPT !.at = step]
                                                            ELSE [@ EXCEPT !.at = step]]

\* The handler returns an error: what it has done stays.
Fails(r) == Goes(r, "done") /\ UNCHANGED tables

IsNext(r) == \A q \in Requests : (req[q].at = "new") = (q >= r)

\* A request comes in; its first statement is still to come.
Comes(r, kind, user, other, step) ==
    /\ IsNext(r)
    /\ req' = [req EXCEPT ![r] =
                  [kind |-> kind, user |-> user, other |-> other, at |-> step, seen |-> 0]]
    /\ UNCHANGED <<tables, odd>>

-----------------------------------------------------------------------------
(* Communities and channels.                                               *)

\* create_community: the row of the community.
CreateCommunity(r) ==
    /\ At(r, "create", "insert") /\ community = "no"
    /\ community' = "there" /\ owner' = req[r].user
    /\ Goes(r, "member")
    /\ UNCHANGED <<members, channels, invite, dms, orphans, odd>>

\* A second community would be another one, of which nothing is said.
CreateAnother(r) == At(r, "create", "insert") /\ community # "no" /\ Fails(r) /\ UNCHANGED odd

\* The owner becomes a member; UNIQUE(community_id, user_id) and the foreign key hold.
AddOwner(r) ==
    /\ At(r, "create", "member")
    /\ IF community = "there" /\ owner \notin members
         THEN /\ members' = members \cup {owner}
              /\ Goes(r, "textMax")
              /\ UNCHANGED <<community, owner, channels, invite, dms, orphans>>
         ELSE Fails(r)
    /\ UNCHANGED odd

\* Where ChannelService::create stands, and what it makes there.
MaxSteps == {"textMax", "voiceMax", "max"}
NameAt(step) == CASE step = "text" -> "text" [] step = "voice" -> "voice" [] OTHER -> "more"

\* ChannelService::create: the position comes from one statement ...
NextPosition == IF channels = {} THEN 1
                ELSE CHOOSE p \in {c.position + 1 : c \in channels} :
                         \A c \in channels : c.position < p

\* A request that has read a position and not used it yet.
Places(r) == \/ req[r].kind = "create" /\ req[r].at \in {"text", "voice"}
             \/ At(r, "channel", "insert")

ReadMax(r) ==
    /\ req[r].kind \in {"create", "channel"} /\ req[r].at \in MaxSteps
    /\ req' = [req EXCEPT ![r].seen = NextPosition,
                          ![r].at = CASE req[r].at = "textMax" -> "text"
                                      [] req[r].at = "voiceMax" -> "voice"
                                      [] OTHER -> "insert"]
    /\ odd' = IF \E q \in Requests : Places(q) THEN odd \cup {"positions"} ELSE odd
    /\ UNCHANGED tables

\* ... and the row from another.
InsertChannel(r) ==
    /\ Places(r)
    /\ IF community = "there"
         THEN /\ channels' = channels \cup
                     {[by |-> r, name |-> NameAt(req[r].at), position |-> req[r].seen]}
              /\ Goes(r, IF req[r].at = "text" THEN "voiceMax" ELSE "done")
              /\ UNCHANGED <<community, owner, members, invite, dms, orphans>>
         ELSE Fails(r)
    /\ UNCHANGED odd

\* create_channel, delete_community: only for the owner of a community that is there.
CheckOwner(r) ==
    /\ req[r].kind \in {"channel", "delete"} /\ req[r].at = "owner"
    /\ IF community = "there" /\ owner = req[r].user
         THEN Goes(r, IF req[r].kind = "channel" THEN "max" ELSE "row") /\ UNCHANGED tables
         ELSE Fails(r)
    /\ UNCHANGED odd

\* delete_community: members, invites and channels go with the row.
DeleteCommunity(r) ==
    /\ At(r, "delete", "row")
    /\ community' = "gone" /\ owner' = None /\ members' = {} /\ channels' = {}
    /\ invite' = NoInvite
    /\ Goes(r, "done")
    /\ UNCHANGED <<dms, orphans, odd>>

\* delete_channel of a channel the request names.
DeleteChannel(r) ==
    \E c \in channels :
        /\ IsNext(r)
        /\ channels' = channels \ {c}
        /\ req' = [req EXCEPT ![r].at = "done"]
        /\ odd' = odd \cup {"removed"}
        /\ UNCHANGED <<community, owner, members, invite, dms, orphans>>

-----------------------------------------------------------------------------
(* Invites.                                                                *)

\* create_invite: membership, and then the row.
CheckMember(r) ==
    /\ At(r, "invite", "member")
    /\ IF req[r].user \in members THEN Goes(r, "insert") /\ UNCHANGED tables ELSE Fails(r)
    /\ UNCHANGED odd

InsertInvite(r) ==
    /\ At(r, "invite", "insert")
    /\ IF community = "there" /\ invite = NoInvite
         THEN /\ invite' = 0
              /\ Goes(r, "done")
              /\ UNCHANGED <<community, owner, members, channels, dms, orphans>>
         ELSE Fails(r)
    /\ UNCHANGED odd

\* join_community: the invite (max_uses and expires_at are never set) ...
FindInvite(r) ==
    /\ At(r, "join", "find")
    /\ IF invite # NoInvite THEN Goes(r, "member") /\ UNCHANGED tables ELSE Fails(r)
    /\ UNCHANGED odd

\* ... whether the user is a member already ...
Joins(r) == req[r].user \notin members

CheckJoined(r) ==
    /\ At(r, "join", "member")
    /\ Goes(r, IF Joins(r) THEN "insert" ELSE "done")
    /\ UNCHANGED <<tables, odd>>

\* ... the row, which a second join of the user cannot add again ...
AddMember(r) ==
    /\ At(r, "join", "insert")
    /\ IF community = "there" /\ req[r].user \notin members
         THEN /\ members' = members \cup {req[r].user}
              /\ Goes(r, "uses")
              /\ UNCHANGED <<community, owner, channels, invite, dms, orphans>>
         ELSE Fails(r)
    /\ UNCHANGED odd

\* ... and one more use of the invite, if it is still there.
CountUse(r) ==
    /\ At(r, "join", "uses")
    /\ invite' = IF invite = NoInvite THEN NoInvite ELSE invite + 1
    /\ Goes(r, "done")
    /\ UNCHANGED <<community, owner, members, channels, dms, orphans, odd>>

-----------------------------------------------------------------------------
(* Direct messages.                                                        *)

Pair(d) == {d.user1, d.user2}
PairOf(r) == {req[r].user, req[r].other}

\* Mutant of Found: only the order the request has is looked for.
FoundInOrder(r) == \E d \in dms : d.user1 = req[r].user /\ d.user2 = req[r].other

\* get_or_create_dm: a channel of the two, whoever asked first.
Found(r) == \E d \in dms : Pair(d) = PairOf(r)

FindDm(r) ==
    /\ At(r, "dm", "find")
    /\ Goes(r, IF Found(r) THEN "done" ELSE "insert")
    /\ odd' = IF \E q \in Requests \ {r} : /\ req[q].kind = "dm" /\ PairOf(q) = PairOf(r)
                                           /\ req[q].at \in {"insert", "row"}
              THEN odd \cup {"dm"} ELSE odd
    /\ UNCHANGED tables

InsertDm(r) ==
    /\ At(r, "dm", "insert")
    /\ orphans' = orphans \cup {r}
    /\ Goes(r, "row")
    /\ UNCHANGED <<community, owner, members, channels, invite, dms, odd>>

\* UNIQUE(user1_id, user2_id): the same order of the two cannot come twice.
LinkDm(r) ==
    /\ At(r, "dm", "row")
    /\ IF \E d \in dms : d.user1 = req[r].user /\ d.user2 = req[r].other
         THEN Fails(r)
         ELSE /\ dms' = dms \cup {[user1 |-> req[r].user, user2 |-> req[r].other, channel |-> r]}
              /\ orphans' = orphans \ {r}
              /\ Goes(r, "done")
              /\ UNCHANGED <<community, owner, members, channels, invite>>
    /\ UNCHANGED odd

-----------------------------------------------------------------------------
\* A statement fails, or the server dies: the request goes no further.
Stop(r) ==
    /\ req[r].at \notin {"new", "done"}
    /\ odd' = odd \cup ({req[r].kind} \cap Odd)
    /\ Fails(r)

Request(r) ==
    \E u \in Users :
        \/ Comes(r, "create", u, None, "insert")
        \/ Comes(r, "channel", u, None, "owner")
        \/ Comes(r, "delete", u, None, "owner")
        \/ Comes(r, "invite", u, None, "member")
        \/ Comes(r, "join", u, None, "find")
        \/ \E v \in Users : Comes(r, "dm", u, v, "find")

Handle(r) ==
    \/ CreateCommunity(r) \/ CreateAnother(r) \/ AddOwner(r) \/ ReadMax(r) \/ InsertChannel(r)
    \/ CheckOwner(r) \/ DeleteCommunity(r) \/ DeleteChannel(r)
    \/ CheckMember(r) \/ InsertInvite(r)
    \/ FindInvite(r) \/ CheckJoined(r) \/ AddMember(r) \/ CountUse(r)
    \/ FindDm(r) \/ InsertDm(r) \/ LinkDm(r)

Next == \E r \in Requests : Request(r) \/ Handle(r) \/ Stop(r)

Spec == Init /\ [][Next]_vars

-----------------------------------------------------------------------------
Settled == \A r \in Requests : req[r].at \in {"new", "done"}

\* Whatever order the statements of the requests come in: a community whose
\* creation did not stop has its owner among its members and its two default
\* channels; the invite has counted every member it brought; channels have
\* positions of their own unless two were made at a time; and two users have one
\* direct message channel, and no channel is lost, unless both asked at a time.
RecordsAgree ==
    /\ Settled /\ community = "there" /\ "create" \notin odd =>
           /\ owner \in members
           /\ "removed" \notin odd => {"text", "voice"} \subseteq {c.name : c \in channels}
    /\ Settled /\ invite # NoInvite /\ odd \cap {"join", "create"} = {} =>
           invite = Cardinality(members \ {owner})
    /\ "positions" \notin odd => \A c, d \in channels : c.position = d.position => c = d
    /\ "dm" \notin odd => /\ \A c, d \in dms : Pair(c) = Pair(d) => c = d
                          /\ Settled => orphans = {}
    /\ community = "gone" => members = {} /\ channels = {} /\ invite = NoInvite
=============================================================================
