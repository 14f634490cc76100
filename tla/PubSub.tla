------------------------------- MODULE PubSub -------------------------------
(***************************************************************************)
(* What the server's real-time side promises, with no lock and no index in *)
(* sight: a broadcast goes to the connections that are members of its      *)
(* destination at ONE instant, every one of them gets it exactly once, and *)
(* a connection does not leave a destination while a message published to  *)
(* it is still owed.  Only a restart of the server forgets what it owes.   *)
(*                                                                         *)
(* Connections.tla is shown to implement this module.                      *)
(***************************************************************************)
EXTENDS Sequences

CONSTANTS
    Conns,  \* connection ids
    Dests,  \* what a message can be addressed to: a channel, a thread, a user
    Msgs,   \* messages, each published at most once
    None    \* no destination

VARIABLES
    members,    \* members[x]: the connections a publication to x would reach
    published,  \* published[m]: the destination of m, or None
    owed,       \* owed[m]: the connections m has still to be given to
    log         \* log[c]: what connection c was given, in order

vars == <<members, published, owed, log>>

Init ==
    /\ members   = [x \in Dests |-> {}]
    /\ published = [m \in Msgs |-> None]
    /\ owed      = [m \in Msgs |-> {}]
    /\ log       = [c \in Conns |-> <<>>]

Join(c, x) ==
    /\ c \notin members[x]
    /\ members' = [members EXCEPT ![x] = @ \cup {c}]
    /\ UNCHANGED <<published, owed, log>>

(* Nobody leaves a destination that still owes them a message. *)
Leave(c, x) ==
    /\ c \in members[x]
    /\ \A m \in Msgs : published[m] = x => c \notin owed[m]
    /\ members' = [members EXCEPT ![x] = @ \ {c}]
    /\ UNCHANGED <<published, owed, log>>

Publish(m, x) ==
    /\ published[m] = None
    /\ published' = [published EXCEPT ![m] = x]
    /\ owed' = [owed EXCEPT ![m] = members[x]]
    /\ UNCHANGED <<members, log>>

Deliver(m, c) ==
    /\ c \in owed[m]
    /\ owed' = [owed EXCEPT ![m] = @ \ {c}]
    /\ log' = [log EXCEPT ![c] = Append(@, m)]
    /\ UNCHANGED <<members, published>>

Restart ==
    /\ members' = [x \in Dests |-> {}]
    /\ owed' = [m \in Msgs |-> {}]
    /\ UNCHANGED <<published, log>>

Next ==
    \/ \E c \in Conns, x \in Dests : Join(c, x) \/ Leave(c, x)
    \/ \E m \in Msgs, x \in Dests : Publish(m, x)
    \/ \E m \in Msgs, c \in Conns : Deliver(m, c)
    \/ Restart

Spec == Init /\ [][Next]_vars
=============================================================================
