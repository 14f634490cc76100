------------------------------ MODULE ThreadFeed ------------------------------
(***************************************************************************)
(* What the thread requests promise whoever watches the table and the      *)
(* socket, and nothing of how their statements interleave: Threads.tla     *)
(* implements it, ThreadPanel.tla is a client of it.                       *)
(*                                                                         *)
(* A reply is stored under a parent that is there, announced to the thread *)
(* once, after it was stored, and not announced only if its request stops  *)
(* or if the reply has gone.  A message is removed with the replies under  *)
(* it, and its removal is announced once, afterwards.                      *)
(***************************************************************************)
EXTENDS Integers, FiniteSets

CONSTANTS Parents, Replies, None

Messages == Parents \cup Replies

VARIABLES
    rows,     \* the messages that are there
    parents,  \* of each reply that was stored; None for the others
    news,     \* how far the news of each reply has come
    removals  \* how often the removal of each message was announced

feedVars == <<rows, parents, news, removals>>

FeedTypeOK ==
    /\ rows \subseteq Messages
    /\ parents \in [Replies -> Parents \cup {None}]
    /\ news \in [Replies -> {"new", "stored", "told", "lost"}]
    /\ removals \in [Messages -> 0..1]

FeedInit ==
    /\ rows = Parents
    /\ parents = [r \in Replies |-> None]
    /\ news = [r \in Replies |-> "new"]
    /\ removals = [m \in Messages |-> 0]

Store(r, p) ==
    /\ news[r] = "new" /\ p \in rows
    /\ rows' = rows \cup {r}
    /\ parents' = [parents EXCEPT ![r] = p]
    /\ news' = [news EXCEPT ![r] = "stored"]
    /\ UNCHANGED removals

(* Even if the reply has been removed meanwhile.                           *)
Announce(r) ==
    /\ news[r] = "stored"
    /\ news' = [news EXCEPT ![r] = "told"]
    /\ UNCHANGED <<rows, parents, removals>>

(* A request ends without an announcement: there is nothing to announce.   *)
GiveUp(r) ==
    /\ news[r] \in {"new", "stored"} /\ r \notin rows
    /\ news' = [news EXCEPT ![r] = "lost"]
    /\ parents' = [parents EXCEPT ![r] = None]
    /\ UNCHANGED <<rows, removals>>

Remove(m) ==
    /\ m \in rows
    /\ rows' = rows \ ({m} \cup {r \in Replies : parents[r] = m})
    /\ UNCHANGED <<parents, news, removals>>

Removed(m) == m \notin rows /\ m \notin {r \in Replies : news[r] = "new"}

AnnounceRemoval(m) ==
    /\ Removed(m) /\ removals[m] = 0
    /\ removals' = [removals EXCEPT ![m] = 1]
    /\ UNCHANGED <<rows, parents, news>>

FeedNext ==
    \/ \E r \in Replies :
          (\E p \in Parents : Store(r, p)) \/ Announce(r) \/ GiveUp(r)
    \/ \E m \in Messages : Remove(m) \/ AnnounceRemoval(m)

FeedSpec == FeedInit /\ [][FeedNext]_feedVars
=============================================================================
