-------------------------- MODULE ThreadPanelProofs --------------------------
(***************************************************************************)
(* Proofs about ThreadPanel: types, and that a settled panel shows every   *)
(* reply that did not race with its subscription exactly once.             *)
(***************************************************************************)
EXTENDS FiniteSetTheorems, ThreadPanel, TLAPS

(* The actions of PanelNext, one by one.                                   *)
LEMMA PanelCases ==
    ASSUME PanelNext, NEW G,
           ASSUME NEW r \in Replies, NEW p \in Parents, ServerStores(r, p) PROVE G,
           ASSUME NEW r \in Replies, ServerAnnounces(r) PROVE G,
           ASSUME NEW r \in Replies, GiveUp(r), UNCHANGED <<clientVars, created_at>> PROVE G,
           ASSUME NEW m \in Doomed, Remove(m), UNCHANGED <<clientVars, created_at>> PROVE G,
           ASSUME NEW m \in Doomed, ServerAnnouncesRemoval(m) PROVE G,
           ASSUME ServerTakes PROVE G,
           ASSUME NEW p \in Parents, ClickOpen(p) PROVE G,
           ASSUME NEW clicked \in BOOLEAN, Frame(clicked) PROVE G,
           ASSUME NEW t \in DOMAIN tasks, SetOpenThread(t) PROVE G,
           ASSUME NEW t \in DOMAIN tasks, SendUnsubscribe(t) PROVE G,
           ASSUME NEW t \in DOMAIN tasks, SendSubscribe(t) PROVE G,
           ASSUME NEW t \in DOMAIN tasks, FindParent(t) PROVE G,
           ASSUME NEW t \in DOMAIN tasks, ReadReplies(t) PROVE G,
           ASSUME NEW t \in DOMAIN tasks, SetReplies(t) PROVE G,
           ASSUME NEW t \in DOMAIN tasks, LoadFails(t) PROVE G,
           ASSUME Read PROVE G
    PROVE  G
  BY DEF PanelNext, ServerStep, ClientStep

(* What is in a bag to which something is added, or that loses one thing.  *)
LEMMA BagGrows ==
    ASSUME NEW B, IsABag(B), NEW S
    PROVE  IsABag(B (+) SetToBag(S)) /\ DOMAIN (B (+) SetToBag(S)) = DOMAIN B \cup S
  BY DEF SetToBag, (+), IsABag

(* And when a task is taken out.                                           *)
LEMMA BagShrinks ==
    ASSUME NEW B, IsABag(B), NEW x
    PROVE  /\ IsABag(B (-) SetToBag({x}))
           /\ DOMAIN (B (-) SetToBag({x})) \subseteq DOMAIN B
           /\ DOMAIN B \ {x} \subseteq DOMAIN (B (-) SetToBag({x}))
  BY DEF SetToBag, (-), IsABag

(* The tasks after one has come to its end, or to its next await.          *)
LEMMA EndsDomain ==
    ASSUME IsABag(tasks), NEW t, Ends(t)
    PROVE  /\ IsABag(tasks') /\ DOMAIN tasks' \subseteq DOMAIN tasks
           /\ DOMAIN tasks \ {t} \subseteq DOMAIN tasks'
  BY BagShrinks DEF Ends

(* The tasks after one has come to its next await.                         *)
LEMMA GoesDomain ==
    ASSUME IsABag(tasks), NEW t, NEW next, Goes(t, next)
    PROVE  /\ IsABag(tasks') /\ DOMAIN tasks' \subseteq DOMAIN tasks \cup {next}
           /\ (DOMAIN tasks \ {t}) \cup {next} \subseteq DOMAIN tasks'
<1> DEFINE left == tasks (-) SetToBag({t})
<1>1. IsABag(left) /\ DOMAIN left \subseteq DOMAIN tasks /\ DOMAIN tasks \ {t} \subseteq DOMAIN left
  BY BagShrinks
<1>2. tasks' = left (+) SetToBag({next})
  BY DEF Goes
<1> HIDE DEF left
<1> QED
  BY <1>1, <1>2, BagGrows

-----------------------------------------------------------------------------
(* Types, and the shape of a task: a load is the only task with stages.    *)
TaskTypes ==
    [kind : Kinds, thread : Parents \cup {None},
     at : {"run", "subscribe", "ask", "read", "set"}, page : SUBSET Replies]

TaskShape(t) ==
    /\ t.kind \in {"load", "unsubscribe", "open"} => t.thread \in Parents
    /\ t.kind = "load" <=> t.at # "run"

ShapeInv == \A t \in DOMAIN tasks : TaskShape(t)

(* The tasks that are spawned have both.                                   *)
LEMMA SpawnedShape ==
    ASSUME PanelTypeOK
    PROVE  /\ \A p \in Parents, k \in {"open", "unsubscribe", "load"} :
                 Task(k, p) \in TaskTypes /\ TaskShape(Task(k, p))
           /\ Task("close", None) \in TaskTypes /\ TaskShape(Task("close", None))
  BY PanelAssumption DEF Task, TaskTypes, TaskShape, Kinds

(* Tasks are added, moved on and removed without harm.                     *)
LEMMA TasksGrow ==
    ASSUME IsABag(tasks), DOMAIN tasks \subseteq TaskTypes, ShapeInv, NEW new, tasks' = tasks (+) SetToBag(new),
           \A t \in new : t \in TaskTypes /\ TaskShape(t)
    PROVE  IsABag(tasks') /\ DOMAIN tasks' \subseteq TaskTypes /\ ShapeInv'
  BY BagGrows DEF ShapeInv, TaskShape

(* A task that goes on keeps types and shape if its next stage has them.   *)
LEMMA TasksGo ==
    ASSUME IsABag(tasks), DOMAIN tasks \subseteq TaskTypes, ShapeInv, NEW t, NEW next, Goes(t, next),
           next \in TaskTypes /\ TaskShape(next)
    PROVE  IsABag(tasks') /\ DOMAIN tasks' \subseteq TaskTypes /\ ShapeInv'
  BY GoesDomain DEF ShapeInv, TaskShape

(* A task that ends keeps them too.                                        *)
LEMMA TasksEnd ==
    ASSUME IsABag(tasks), DOMAIN tasks \subseteq TaskTypes, ShapeInv, NEW t, Ends(t)
    PROVE  IsABag(tasks') /\ DOMAIN tasks' \subseteq TaskTypes /\ ShapeInv'
  BY EndsDomain DEF ShapeInv, TaskShape

(* What a step does to the queue and the socket.                           *)
Outgoing == {Subscribe(p) : p \in Parents} \cup {Unsubscribe(p) : p \in Parents}
Incoming == {ReplyCreated(r) : r \in Replies} \cup {MessageDeleted(m) : m \in Messages}

(* Types and shape hold at the start.                                      *)
LEMMA ShapeInitially == PanelInit => PanelTypeOK /\ ShapeInv
  BY PanelAssumption
     DEF PanelInit, PanelTypeOK, ShapeInv, FeedInit, FeedTypeOK, Messages, EmptyBag, SetToBag, IsABag

(* Every action keeps types and shape.                                     *)
LEMMA ShapeStep == ASSUME PanelTypeOK, ShapeInv, PanelNext PROVE PanelTypeOK' /\ ShapeInv'
<1>1. IsABag(tasks) /\ DOMAIN tasks \subseteq TaskTypes /\ socket \in Seq(Incoming) /\ outgoing \in Seq(Outgoing)
  BY DEF PanelTypeOK, TaskTypes, Incoming, Outgoing
<1>2. raced' \subseteq Replies
  BY DEF PanelNext, Races, PanelTypeOK
<1>3. ASSUME FeedTypeOK', created_at' \in [Replies -> Nat], thread_subscribers' \subseteq Parents,
             outgoing' \in Seq(Outgoing), Len(outgoing') <= QueueSize,
             socket' \in Seq(Incoming), listed' \subseteq Parents,
             open_thread' \in Parents \cup {None},
             thread_messages' \in [Parents -> [Replies -> Nat]],
             subscribed_thread' \in Parents \cup {None},
             IsABag(tasks'), DOMAIN tasks' \subseteq TaskTypes, ShapeInv', acts' \in Nat, failed' \subseteq Parents
      PROVE  PanelTypeOK' /\ ShapeInv'
  BY <1>2, <1>3 DEF PanelTypeOK, TaskTypes, Incoming, Outgoing
<1>4. ASSUME UNCHANGED feedVars PROVE FeedTypeOK'
  BY <1>4 DEF PanelTypeOK, FeedTypeOK, feedVars
<1>5. ASSUME UNCHANGED tasks PROVE ShapeInv' /\ IsABag(tasks') /\ DOMAIN tasks' \subseteq TaskTypes
  BY <1>1, <1>5 DEF ShapeInv, TaskShape
<1>6. ASSUME UNCHANGED clientVars
      PROVE  /\ UNCHANGED <<thread_subscribers, outgoing, socket, listed, open_thread,
                            thread_messages, subscribed_thread, tasks, acts, failed>>
  BY <1>6 DEF clientVars
<1>7. /\ FeedTypeOK /\ created_at \in [Replies -> Nat] /\ thread_subscribers \subseteq Parents
      /\ Len(outgoing) <= QueueSize /\ listed \subseteq Parents
      /\ open_thread \in Parents \cup {None} /\ thread_messages \in [Parents -> [Replies -> Nat]]
      /\ subscribed_thread \in Parents \cup {None} /\ acts \in Nat /\ failed \subseteq Parents
  BY DEF PanelTypeOK
<1>8. \A t \in DOMAIN tasks : t \in TaskTypes /\ TaskShape(t)
  BY <1>1 DEF ShapeInv
<1>11. ASSUME NEW r \in Replies, NEW p \in Parents, ServerStores(r, p)
       PROVE  PanelTypeOK' /\ ShapeInv'
  <2>1. FeedTypeOK'
    BY <1>7, <1>11 DEF ServerStores, Store, FeedTypeOK, Messages
  <2>2. created_at' \in [Replies -> Nat]
    <3> DEFINE before == {s \in Replies : created_at[s] # 0}
    <3>1. IsFiniteSet(Replies) /\ before \in SUBSET Replies
      BY PanelAssumption
    <3>2. Cardinality(before) \in Nat
      <4> HIDE DEF before
      <4> QED
        <5>1. IsFiniteSet(before)
          BY <3>1, FS_Subset
        <5> QED
          BY <5>1, FS_CardinalityType
    <3> QED
      BY <1>7, <1>11, <3>2 DEF ServerStores
  <2> QED
    BY <1>1, <1>3, <1>5, <1>6, <1>7, <1>11, <2>1, <2>2 DEF ServerStores
<1>12. ASSUME NEW r \in Replies, ServerAnnounces(r) PROVE PanelTypeOK' /\ ShapeInv'
  <2>1. FeedTypeOK'
    BY <1>7, <1>12 DEF ServerAnnounces, Announce, FeedTypeOK, Messages
  <2>2. socket' \in Seq(Incoming)
    BY <1>1, <1>12 DEF ServerAnnounces, Incoming
  <2> QED
    BY <1>1, <1>3, <1>5, <1>7, <1>12, <2>1, <2>2 DEF ServerAnnounces
<1>13. ASSUME NEW r \in Replies, GiveUp(r), UNCHANGED <<clientVars, created_at>>
       PROVE  PanelTypeOK' /\ ShapeInv'
  <2>1. FeedTypeOK'
    BY <1>7, <1>13 DEF GiveUp, FeedTypeOK, Messages
  <2> QED
    BY <1>1, <1>3, <1>5, <1>6, <1>7, <1>13, <2>1
<1>14. ASSUME NEW m \in Doomed, Remove(m), UNCHANGED <<clientVars, created_at>>
       PROVE  PanelTypeOK' /\ ShapeInv'
  <2>1. FeedTypeOK'
    BY <1>7, <1>14 DEF Remove, FeedTypeOK, Messages
  <2> QED
    BY <1>1, <1>3, <1>5, <1>6, <1>7, <1>14, <2>1
<1>15. ASSUME NEW m \in Doomed, ServerAnnouncesRemoval(m) PROVE PanelTypeOK' /\ ShapeInv'
  <2>1. FeedTypeOK'
    <3>1. m \in Messages /\ removals' = [removals EXCEPT ![m] = 1] /\ UNCHANGED <<rows, parents, news>>
      BY <1>15, PanelAssumption DEF ServerAnnouncesRemoval, AnnounceRemoval
    <3>2. removals \in [Messages -> 0..1] /\ 1 \in 0..1
      BY <1>7 DEF FeedTypeOK
    <3>3. removals' \in [Messages -> 0..1]
      BY <3>1, <3>2
    <3> QED
      BY <1>7, <3>1, <3>3 DEF FeedTypeOK
  <2>2. socket' \in Seq(Incoming)
    BY <1>1, <1>15, PanelAssumption DEF ServerAnnouncesRemoval, Incoming
  <2> QED
    BY <1>1, <1>3, <1>5, <1>7, <1>15, <2>1, <2>2 DEF ServerAnnouncesRemoval
<1>16. ASSUME ServerTakes PROVE PanelTypeOK' /\ ShapeInv'
  <2>1. Head(outgoing) \in Outgoing /\ outgoing' \in Seq(Outgoing) /\ Len(outgoing') <= QueueSize
    BY <1>1, <1>7, <1>16, PanelAssumption DEF ServerTakes
  <2>2. Head(outgoing).thread \in Parents
    BY <2>1 DEF Outgoing, Subscribe, Unsubscribe
  <2> QED
    BY <1>1, <1>3, <1>4, <1>5, <1>7, <1>16, <2>1, <2>2 DEF ServerTakes
<1>17. ASSUME NEW p \in Parents, ClickOpen(p) PROVE PanelTypeOK' /\ ShapeInv'
  <2> DEFINE new == {Task("open", p)}
  <2>1. \A t \in new : t \in TaskTypes /\ TaskShape(t)
    BY SpawnedShape
  <2>2. tasks' = tasks (+) SetToBag(new) /\ acts' \in Nat
    BY <1>7, <1>17 DEF ClickOpen, Spawn
  <2>3. IsABag(tasks') /\ DOMAIN tasks' \subseteq TaskTypes /\ ShapeInv'
    <3> HIDE DEF new
    <3> QED
      BY <1>1, <2>1, <2>2, TasksGrow
  <2> QED
    BY <1>1, <1>3, <1>4, <1>7, <1>17, <2>2, <2>3 DEF ClickOpen
<1>18. ASSUME NEW clicked \in BOOLEAN, Frame(clicked) PROVE PanelTypeOK' /\ ShapeInv'
  <2>1. open_thread \in Parents /\ subscribed_thread' \in Parents \cup {None}
    BY <1>7, <1>18 DEF Frame
  <2> DEFINE new == Switch \cup IF clicked THEN Close ELSE {}
  <2>2. \A t \in new : t \in TaskTypes /\ TaskShape(t)
    BY <1>7, <2>1, SpawnedShape DEF Switch, Close
  <2>3. tasks' = tasks (+) SetToBag(new) /\ acts' \in Nat
    BY <1>7, <1>18 DEF Frame, Spawn
  <2>4. IsABag(tasks') /\ DOMAIN tasks' \subseteq TaskTypes /\ ShapeInv'
    <3> HIDE DEF new
    <3> QED
      BY <1>1, <2>2, <2>3, TasksGrow
  <2> QED
    BY <1>1, <1>3, <1>4, <1>7, <1>18, <2>1, <2>3, <2>4 DEF Frame
<1>19. ASSUME NEW t \in DOMAIN tasks, SetOpenThread(t) PROVE PanelTypeOK' /\ ShapeInv'
  <2>1. t.thread \in Parents \cup {None}
    BY <1>8 DEF TaskTypes
  <2> QED
    BY <1>1, <1>3, <1>4, <1>7, <1>19, <2>1, TasksEnd DEF SetOpenThread
<1>20. ASSUME NEW t \in DOMAIN tasks, SendUnsubscribe(t) PROVE PanelTypeOK' /\ ShapeInv'
  <2>1. t.thread \in Parents
    BY <1>8, <1>20 DEF SendUnsubscribe, TaskShape
  <2>2. outgoing' \in Seq(Outgoing) /\ Len(outgoing') <= QueueSize
    BY <1>1, <1>20, <2>1, PanelAssumption DEF SendUnsubscribe, Enqueue, HasRoom, Outgoing
  <2> QED
    BY <1>1, <1>3, <1>4, <1>7, <1>20, <2>2, TasksEnd DEF SendUnsubscribe
<1>21. ASSUME NEW t \in DOMAIN tasks, SendSubscribe(t) PROVE PanelTypeOK' /\ ShapeInv'
  <2> DEFINE next == [t EXCEPT !.at = "ask"]
  <2>1. t.kind = "load" /\ t.thread \in Parents /\ t \in TaskTypes
    BY <1>8, <1>21 DEF SendSubscribe, TaskShape
  <2>2. next \in TaskTypes /\ TaskShape(next)
    BY <2>1 DEF TaskTypes, TaskShape
  <2>3. outgoing' \in Seq(Outgoing) /\ Len(outgoing') <= QueueSize
    BY <1>1, <1>21, <2>1, PanelAssumption DEF SendSubscribe, Enqueue, HasRoom, Outgoing
  <2>4. IsABag(tasks') /\ DOMAIN tasks' \subseteq TaskTypes /\ ShapeInv'
    BY <1>1, <1>21, <2>2, TasksGo DEF SendSubscribe
  <2> QED
    BY <1>1, <1>3, <1>4, <1>7, <1>21, <2>3, <2>4 DEF SendSubscribe
<1>22. ASSUME NEW t \in DOMAIN tasks, FindParent(t) PROVE PanelTypeOK' /\ ShapeInv'
  <2> DEFINE next == [t EXCEPT !.at = "read"]
  <2>1. t.kind = "load" /\ t.thread \in Parents /\ t \in TaskTypes
    BY <1>8, <1>22 DEF FindParent, TaskShape
  <2>2. next \in TaskTypes /\ TaskShape(next)
    BY <2>1 DEF TaskTypes, TaskShape
  <2>4. IsABag(tasks') /\ DOMAIN tasks' \subseteq TaskTypes /\ ShapeInv'
    BY <1>1, <1>22, <2>2, TasksGo DEF FindParent
  <2> QED
    BY <1>1, <1>3, <1>4, <1>7, <1>22, <2>4 DEF FindParent
<1>23. ASSUME NEW t \in DOMAIN tasks, ReadReplies(t) PROVE PanelTypeOK' /\ ShapeInv'
  <2> DEFINE next == [t EXCEPT !.at = "set", !.page = Page(t.thread)]
  <2>1. t.kind = "load" /\ t.thread \in Parents /\ t \in TaskTypes
    BY <1>8, <1>23 DEF ReadReplies, TaskShape
  <2>2. next \in TaskTypes /\ TaskShape(next)
    BY <2>1 DEF TaskTypes, TaskShape, Page, Live
  <2>4. IsABag(tasks') /\ DOMAIN tasks' \subseteq TaskTypes /\ ShapeInv'
    BY <1>1, <1>23, <2>2, TasksGo DEF ReadReplies
  <2> QED
    BY <1>1, <1>3, <1>4, <1>7, <1>23, <2>4 DEF ReadReplies
<1>24. ASSUME NEW t \in DOMAIN tasks, SetReplies(t) PROVE PanelTypeOK' /\ ShapeInv'
  <2>1. thread_messages' \in [Parents -> [Replies -> Nat]] /\ failed' \subseteq Parents
    BY <1>7, <1>24 DEF SetReplies
  <2> QED
    BY <1>1, <1>3, <1>4, <1>7, <1>24, <2>1, TasksEnd DEF SetReplies
<1>25. ASSUME NEW t \in DOMAIN tasks, LoadFails(t) PROVE PanelTypeOK' /\ ShapeInv'
  <2>1. t.thread \in Parents
    BY <1>8, <1>25 DEF LoadFails, TaskShape
  <2> QED
    BY <1>1, <1>3, <1>4, <1>7, <1>25, <2>1, TasksEnd DEF LoadFails
<1>26. ASSUME Read PROVE PanelTypeOK' /\ ShapeInv'
  <2>1. socket' \in Seq(Incoming)
    BY <1>1, <1>26 DEF Read
  <2>2. thread_messages' \in [Parents -> [Replies -> Nat]] /\ listed' \subseteq Parents
    <3> DEFINE event == Head(socket)
               p == parents[event.message]
    <3>1. CASE UNCHANGED thread_messages /\ listed' = listed \ {event.message}
      BY <1>7, <3>1
    <3>2. CASE /\ event.type = "thread_reply_created" /\ UNCHANGED listed
               /\ thread_messages' = [thread_messages EXCEPT ![p][event.message] = @ + 1]
      <4>1. thread_messages' =
                [thread_messages EXCEPT ![p] = [thread_messages[p] EXCEPT ![event.message] = @ + 1]]
        BY <3>2
      <4>2. CASE p \in Parents
        <5>1. ASSUME NEW f \in [Replies -> Nat], NEW r
              PROVE  [f EXCEPT ![r] = @ + 1] \in [Replies -> Nat]
          <6>1. CASE r \in Replies
            BY <6>1
          <6>2. CASE r \notin Replies
            BY <6>2
          <6> QED
            BY <6>1, <6>2
        <5>2. [thread_messages[p] EXCEPT ![event.message] = @ + 1] \in [Replies -> Nat]
          BY <1>7, <4>2, <5>1
        <5> QED
          BY <1>7, <3>2, <4>1, <4>2, <5>2
      <4>3. CASE p \notin Parents
        BY <1>7, <3>2, <4>1, <4>3
      <4> QED
        BY <4>2, <4>3
    <3> QED
      BY <1>26, <3>1, <3>2 DEF Read
  <2> QED
    BY <1>1, <1>3, <1>4, <1>5, <1>7, <1>26, <2>1, <2>2 DEF Read
<1> QED
  BY PanelCases, <1>11, <1>12, <1>13, <1>14, <1>15, <1>16, <1>17, <1>18, <1>19, <1>20, <1>21,
     <1>22, <1>23, <1>24, <1>25, <1>26

(* Types and shape hold throughout.                                        *)
THEOREM PanelShape == PanelSpec => [](PanelTypeOK /\ ShapeInv)
<1>1. PanelTypeOK /\ ShapeInv /\ [PanelNext]_panelVars => (PanelTypeOK /\ ShapeInv)'
  <2>1. ASSUME PanelTypeOK, ShapeInv, UNCHANGED panelVars PROVE PanelTypeOK' /\ ShapeInv'
    BY <2>1 DEF panelVars, feedVars, clientVars, PanelTypeOK, FeedTypeOK, ShapeInv, TaskShape
  <2> QED
    BY <2>1, ShapeStep
<1> QED
  BY ShapeInitially, <1>1, PTL DEF PanelSpec

(* PanelTypeOK: every variable stays in its type, and the queue of         *)
(* outgoing messages within its size.                                      *)
THEOREM PanelTypeCorrect == PanelSpec => []PanelTypeOK
  BY PanelShape, PTL

-----------------------------------------------------------------------------
(* What a settled panel shows.                                             *)

(* A reply with a row was stored under a parent and is not yet given up.   *)
RowInv ==
    \A r \in Replies \cap rows : parents[r] \in Parents /\ news[r] \in {"stored", "told"}

(* A reply is on the socket at most once, and only after its announcement. *)
SocketInv ==
    \A r \in Replies : \A i \in DOMAIN socket :
        socket[i] = ReplyCreated(r) =>
            /\ news[r] = "told"
            /\ \A j \in DOMAIN socket : socket[j] = ReplyCreated(r) => j = i

(* The client has never heard of a reply that was not stored.              *)
FreshInv ==
    \A r \in Replies : news[r] = "new" =>
        /\ \A p \in Parents : thread_messages[p][r] = 0
        /\ \A t \in DOMAIN tasks : r \notin t.page

Between(p) == ~Settled(p) /\ ~Away(p)
Loading(p) == \E t \in DOMAIN tasks : t.kind = "load" /\ t.thread = p

(* While the panel is settled, a reply comes over the socket, if it did    *)
(* not come before.  Between, every page that is about to be shown has the *)
(* reply, and a thread that is shown has it or is about to be loaded.      *)
Kept(r) ==
    LET p == parents[r]
    IN  /\ Settled(p) /\ p \notin failed =>
               thread_messages[p][r] = IF Moving(r) THEN 0 ELSE 1
        /\ Between(p) =>
              /\ \A t \in DOMAIN tasks : t.at = "set" /\ t.thread = p => r \in t.page
              /\ subscribed_thread = p =>
                    Loading(p) \/ p \in failed \/ thread_messages[p][r] = 1

KeptInv == \A r \in (Replies \cap rows) \ raced : Kept(r)
RaceInv == Races \subseteq raced

PanelInv == PanelTypeOK /\ ShapeInv /\ RowInv /\ SocketInv /\ FreshInv /\ KeptInv /\ RaceInv

(* What is in a queue to which an element is added, or that loses its head. *)
LEMMA AppendFacts ==
    ASSUME NEW S, NEW s \in Seq(S), NEW e \in S
    PROVE  /\ DOMAIN Append(s, e) = DOMAIN s \cup {Len(s) + 1} /\ Len(s) + 1 \notin DOMAIN s
           /\ \A i \in DOMAIN s : Append(s, e)[i] = s[i]
           /\ Append(s, e)[Len(s) + 1] = e
  OBVIOUS

(* The tail of a sequence, place by place.                                 *)
LEMMA TailFacts ==
    ASSUME NEW S, NEW s \in Seq(S), s # <<>>
    PROVE  /\ 1 \in DOMAIN s /\ Head(s) = s[1]
           /\ \A i \in DOMAIN Tail(s) : i + 1 \in DOMAIN s /\ i + 1 # 1 /\ Tail(s)[i] = s[i + 1]
           /\ \A i \in DOMAIN s : i # 1 => i - 1 \in DOMAIN Tail(s) /\ Tail(s)[i - 1] = s[i]
           /\ \A i, j \in DOMAIN Tail(s) : i + 1 = j + 1 => i = j
  OBVIOUS

(* Events are told apart.                                                  *)
LEMMA Events ==
    \A r, s, m : /\ ReplyCreated(r) = ReplyCreated(s) => r = s
                 /\ ReplyCreated(r) # MessageDeleted(m)
  BY DEF ReplyCreated, MessageDeleted

(* What the invariants read is left alone by every step of the client but  *)
(* Read.                                                                   *)
LEMMA RowSocketSame ==
    ASSUME RowInv, SocketInv, UNCHANGED <<rows, parents, news, socket>>
    PROVE  RowInv' /\ SocketInv'
  BY DEF RowInv, SocketInv

(* An event that is announced for the first time is on the socket once.    *)
LEMMA SocketGrows ==
    ASSUME SocketInv, socket \in Seq(Incoming), NEW e \in Incoming, socket' = Append(socket, e),
           \A r \in Replies : news[r] = "told" => news'[r] = "told",
           \A r \in Replies : e = ReplyCreated(r) => news[r] # "told" /\ news'[r] = "told"
    PROVE  SocketInv'
<1>1. /\ DOMAIN socket' = DOMAIN socket \cup {Len(socket) + 1} /\ Len(socket) + 1 \notin DOMAIN socket
      /\ \A i \in DOMAIN socket : socket'[i] = socket[i]
      /\ socket'[Len(socket) + 1] = e
  BY AppendFacts
<1>2. SUFFICES ASSUME NEW r \in Replies, NEW i \in DOMAIN socket', socket'[i] = ReplyCreated(r)
               PROVE  /\ news'[r] = "told"
                      /\ \A j \in DOMAIN socket' : socket'[j] = ReplyCreated(r) => j = i
  BY DEF SocketInv, ReplyCreated
<1>3. CASE i \in DOMAIN socket
  <2>1. news[r] = "told" /\ \A j \in DOMAIN socket : socket[j] = ReplyCreated(r) => j = i
    BY <1>1, <1>2, <1>3 DEF SocketInv
  <2>2. e # ReplyCreated(r)
    BY <2>1
  <2> QED
    BY <1>1, <2>1, <2>2
<1>4. CASE i = Len(socket) + 1
  <2>1. e = ReplyCreated(r)
    BY <1>1, <1>2, <1>4
  <2>2. \A j \in DOMAIN socket : socket[j] # ReplyCreated(r)
    BY <2>1 DEF SocketInv
  <2> QED
    BY <1>1, <1>4, <2>1, <2>2
<1> QED
  BY <1>1, <1>3, <1>4

(* Every action keeps what is known of rows and socket.                    *)
LEMMA RowSocketStep == ASSUME PanelTypeOK, ShapeInv, RowInv, SocketInv, PanelNext PROVE RowInv' /\ SocketInv'
<1>1. /\ rows \subseteq Messages /\ parents \in [Replies -> Parents \cup {None}]
      /\ news \in [Replies -> {"new", "stored", "told", "lost"}] /\ socket \in Seq(Incoming)
  BY DEF PanelTypeOK, FeedTypeOK, Incoming
<1>2. ASSUME UNCHANGED <<feedVars, socket>> PROVE RowInv' /\ SocketInv'
  BY <1>2, RowSocketSame DEF feedVars
<1>3. ASSUME UNCHANGED <<clientVars, created_at>> PROVE UNCHANGED socket
  BY <1>3 DEF clientVars
<1>11. ASSUME NEW r \in Replies, NEW p \in Parents, ServerStores(r, p) PROVE RowInv' /\ SocketInv'
  BY <1>1, <1>11 DEF ServerStores, Store, clientVars, RowInv, SocketInv
<1>12. ASSUME NEW r \in Replies, ServerAnnounces(r) PROVE RowInv' /\ SocketInv'
  <2>1. news[r] = "stored" /\ news' = [news EXCEPT ![r] = "told"] /\ UNCHANGED <<rows, parents>>
    BY <1>12 DEF ServerAnnounces, Announce
  <2>2. RowInv'
    BY <1>1, <2>1 DEF RowInv
  <2>3. CASE socket' = socket
    BY <1>1, <2>1, <2>2, <2>3 DEF SocketInv
  <2>4. CASE socket' = Append(socket, ReplyCreated(r))
    <3>1. ReplyCreated(r) \in Incoming
      BY DEF Incoming
    <3>2. \A s \in Replies : news[s] = "told" => news'[s] = "told"
      BY <1>1, <2>1
    <3>3. \A s \in Replies : ReplyCreated(r) = ReplyCreated(s) => news[s] # "told" /\ news'[s] = "told"
      BY <1>1, <2>1, Events
    <3> QED
      BY <1>1, <2>2, <2>4, <3>1, <3>2, <3>3, SocketGrows
  <2> QED
    BY <1>12, <2>3, <2>4 DEF ServerAnnounces
<1>13. ASSUME NEW r \in Replies, GiveUp(r), UNCHANGED <<clientVars, created_at>>
       PROVE  RowInv' /\ SocketInv'
  BY <1>1, <1>3, <1>13 DEF GiveUp, RowInv, SocketInv
<1>14. ASSUME NEW m \in Doomed, Remove(m), UNCHANGED <<clientVars, created_at>>
       PROVE  RowInv' /\ SocketInv'
  BY <1>1, <1>3, <1>14 DEF Remove, RowInv, SocketInv
<1>15. ASSUME NEW m \in Doomed, ServerAnnouncesRemoval(m) PROVE RowInv' /\ SocketInv'
  <2>1. UNCHANGED <<rows, parents, news>> /\ socket' = Append(socket, MessageDeleted(m))
    BY <1>15 DEF ServerAnnouncesRemoval, AnnounceRemoval
  <2>2. MessageDeleted(m) \in Incoming
    BY PanelAssumption DEF Incoming
  <2>3. SocketInv'
    BY <1>1, <2>1, <2>2, Events, SocketGrows
  <2> QED
    BY <2>1, <2>3 DEF RowInv
<1>16. ASSUME Read PROVE RowInv' /\ SocketInv'
  <2>1. socket # <<>> /\ socket' = Tail(socket) /\ UNCHANGED <<rows, parents, news>>
    BY <1>16 DEF Read, feedVars
  <2>2. ASSUME NEW r \in Replies, NEW i \in DOMAIN socket', socket'[i] = ReplyCreated(r)
        PROVE  /\ news'[r] = "told"
               /\ \A j \in DOMAIN socket' : socket'[j] = ReplyCreated(r) => j = i
    <3>1. i + 1 \in DOMAIN socket /\ socket[i + 1] = ReplyCreated(r)
      BY <1>1, <2>1, <2>2, TailFacts
    <3>2. news[r] = "told" /\ \A j \in DOMAIN socket : socket[j] = ReplyCreated(r) => j = i + 1
      BY <3>1 DEF SocketInv
    <3> QED
      BY <1>1, <2>1, <2>2, <3>2, TailFacts
  <2>3. SocketInv'
    BY <2>2 DEF SocketInv, ReplyCreated
  <2> QED
    BY <2>1, <2>3 DEF RowInv
<1> QED
  BY PanelCases, <1>2, <1>11, <1>12, <1>13, <1>14, <1>15, <1>16
     DEF ServerTakes, ClickOpen, Frame, SetOpenThread, SendUnsubscribe, SendSubscribe,
         FindParent, ReadReplies, SetReplies, LoadFails

(* A page holds replies that are there, so none that was never stored.     *)
LEMMA FreshStep == ASSUME PanelTypeOK, ShapeInv, RowInv, SocketInv, FreshInv, PanelNext PROVE FreshInv'
<1>1. /\ parents \in [Replies -> Parents \cup {None}]
      /\ news \in [Replies -> {"new", "stored", "told", "lost"}] /\ socket \in Seq(Incoming)
      /\ thread_messages \in [Parents -> [Replies -> Nat]] /\ IsABag(tasks)
      /\ \A t \in DOMAIN tasks : t \in TaskTypes /\ TaskShape(t)
  BY DEF PanelTypeOK, FeedTypeOK, Incoming, ShapeInv, TaskTypes
<1>2. ASSUME UNCHANGED <<thread_messages, tasks>>, \A r \in Replies : news'[r] = "new" => news[r] = "new"
      PROVE  FreshInv'
  BY <1>2 DEF FreshInv
<1>3. ASSUME UNCHANGED <<clientVars>> PROVE UNCHANGED <<thread_messages, tasks>>
  BY <1>3 DEF clientVars
<1>4. ASSUME UNCHANGED <<feedVars, thread_messages>>, NEW new, \A t \in new : t.page = {},
             tasks' = tasks (+) SetToBag(new)
      PROVE  FreshInv'
  <2>1. DOMAIN tasks' = DOMAIN tasks \cup new
    BY <1>1, <1>4, BagGrows
  <2> QED
    BY <1>4, <2>1 DEF FreshInv, feedVars
<1>5. ASSUME UNCHANGED <<feedVars, thread_messages>>, NEW t \in DOMAIN tasks, Ends(t)
      PROVE  FreshInv'
  <2>1. DOMAIN tasks' \subseteq DOMAIN tasks
    BY <1>1, <1>5, EndsDomain
  <2> QED
    BY <1>5, <2>1 DEF FreshInv, feedVars
<1>6. ASSUME UNCHANGED <<feedVars, thread_messages>>, NEW t \in DOMAIN tasks, NEW next, Goes(t, next),
             \A r \in next.page : r \in t.page \/ r \in Replies \cap rows
      PROVE  FreshInv'
  <2>1. DOMAIN tasks' \subseteq DOMAIN tasks \cup {next}
    BY <1>1, <1>6, GoesDomain
  <2> QED
    BY <1>6, <2>1 DEF FreshInv, RowInv, feedVars
<1>7. Task("close", None).page = {} /\ \A k, p : Task(k, p).page = {}
  BY DEF Task
<1>11. ASSUME NEW r \in Replies, NEW p \in Parents, ServerStores(r, p) PROVE FreshInv'
  BY <1>1, <1>2, <1>3, <1>11 DEF ServerStores, Store
<1>12. ASSUME NEW r \in Replies, ServerAnnounces(r) PROVE FreshInv'
  BY <1>1, <1>2, <1>12 DEF ServerAnnounces, Announce
<1>13. ASSUME NEW r \in Replies, GiveUp(r), UNCHANGED <<clientVars, created_at>> PROVE FreshInv'
  BY <1>1, <1>2, <1>3, <1>13 DEF GiveUp
<1>14. ASSUME NEW m \in Doomed, Remove(m), UNCHANGED <<clientVars, created_at>> PROVE FreshInv'
  BY <1>2, <1>3, <1>14 DEF Remove
<1>15. ASSUME NEW m \in Doomed, ServerAnnouncesRemoval(m) PROVE FreshInv'
  BY <1>2, <1>15 DEF ServerAnnouncesRemoval, AnnounceRemoval
<1>16. ASSUME ServerTakes PROVE FreshInv'
  BY <1>2, <1>16 DEF ServerTakes, feedVars
<1>17. ASSUME NEW p \in Parents, ClickOpen(p) PROVE FreshInv'
  <2> DEFINE new == {Task("open", p)}
  <2>1. UNCHANGED <<feedVars, thread_messages>> /\ tasks' = tasks (+) SetToBag(new)
    BY <1>17 DEF ClickOpen, Spawn
  <2>2. \A t \in new : t.page = {}
    BY <1>7
  <2> HIDE DEF new
  <2> QED
    BY <1>4, <2>1, <2>2
<1>18. ASSUME NEW clicked \in BOOLEAN, Frame(clicked) PROVE FreshInv'
  <2> DEFINE new == Switch \cup IF clicked THEN Close ELSE {}
  <2>1. UNCHANGED <<feedVars, thread_messages>> /\ tasks' = tasks (+) SetToBag(new)
    BY <1>18 DEF Frame, Spawn
  <2>2. \A t \in new : t.page = {}
    BY <1>7 DEF Switch, Close
  <2> HIDE DEF new
  <2> QED
    BY <1>4, <2>1, <2>2
<1>19. ASSUME NEW t \in DOMAIN tasks, SetOpenThread(t) PROVE FreshInv'
  BY <1>5, <1>19 DEF SetOpenThread
<1>20. ASSUME NEW t \in DOMAIN tasks, SendUnsubscribe(t) PROVE FreshInv'
  BY <1>5, <1>20 DEF SendUnsubscribe
<1>21. ASSUME NEW t \in DOMAIN tasks, SendSubscribe(t) PROVE FreshInv'
  <2>1. [t EXCEPT !.at = "ask"].page = t.page
    BY <1>1 DEF TaskTypes
  <2> QED
    BY <1>6, <1>21, <2>1 DEF SendSubscribe
<1>22. ASSUME NEW t \in DOMAIN tasks, FindParent(t) PROVE FreshInv'
  <2>1. [t EXCEPT !.at = "read"].page = t.page
    BY <1>1 DEF TaskTypes
  <2> QED
    BY <1>6, <1>22, <2>1 DEF FindParent
<1>23. ASSUME NEW t \in DOMAIN tasks, ReadReplies(t) PROVE FreshInv'
  <2>1. [t EXCEPT !.at = "set", !.page = Page(t.thread)].page = Page(t.thread)
    BY <1>1 DEF TaskTypes
  <2>2. Page(t.thread) \subseteq Replies \cap rows
    BY DEF Page, Live
  <2> QED
    BY <1>6, <1>23, <2>1, <2>2 DEF ReadReplies
<1>24. ASSUME NEW t \in DOMAIN tasks, SetReplies(t) PROVE FreshInv'
  <2> DEFINE list == [r \in Replies |-> IF r \in t.page THEN 1 ELSE 0]
  <2>1. UNCHANGED feedVars /\ thread_messages' = [thread_messages EXCEPT ![t.thread] = list] /\ Ends(t)
    BY <1>24 DEF SetReplies, ListOf
  <2>2. DOMAIN tasks' \subseteq DOMAIN tasks
    BY <1>1, <2>1, EndsDomain
  <2>3. ASSUME NEW r \in Replies, news'[r] = "new"
        PROVE  /\ \A p \in Parents : thread_messages'[p][r] = 0
               /\ \A u \in DOMAIN tasks' : r \notin u.page
    <3>1. news[r] = "new" /\ list[r] = 0
      BY <2>1, <2>3 DEF FreshInv, feedVars
    <3> HIDE DEF list
    <3> QED
      BY <1>1, <2>1, <2>2, <3>1 DEF FreshInv
  <2> QED
    BY <2>3 DEF FreshInv
<1>25. ASSUME NEW t \in DOMAIN tasks, LoadFails(t) PROVE FreshInv'
  BY <1>5, <1>25 DEF LoadFails
<1>26. ASSUME Read PROVE FreshInv'
  <2> DEFINE event == Head(socket)
  <2>1. UNCHANGED <<feedVars, tasks>> /\ event = socket[1] /\ 1 \in DOMAIN socket /\ event \in Incoming
    BY <1>1, <1>26, TailFacts DEF Read
  <2>2. CASE UNCHANGED thread_messages
    BY <1>2, <2>1, <2>2 DEF feedVars
  <2>3. CASE /\ event.type = "thread_reply_created"
             /\ thread_messages' = [thread_messages EXCEPT ![parents[event.message]][event.message] = @ + 1]
    <3>1. PICK s \in Replies : event = ReplyCreated(s)
      BY <2>1, <2>3 DEF Incoming, MessageDeleted
    <3>2. news[s] = "told" /\ event.message = s
      BY <2>1, <3>1 DEF SocketInv, ReplyCreated
    <3>3. ASSUME NEW r \in Replies, news'[r] = "new", NEW p \in Parents
          PROVE  thread_messages'[p][r] = 0
      <4>1. r # s /\ thread_messages[p][r] = 0
        BY <2>1, <3>2, <3>3 DEF FreshInv, feedVars
      <4> QED
        BY <1>1, <2>3, <3>2, <4>1
    <3> QED
      BY <2>1, <3>3 DEF FreshInv, feedVars
  <2> QED
    BY <1>26, <2>2, <2>3 DEF Read
<1> QED
  BY PanelCases, <1>11, <1>12, <1>13, <1>14, <1>15, <1>16, <1>17, <1>18, <1>19, <1>20, <1>21,
     <1>22, <1>23, <1>24, <1>25, <1>26

-----------------------------------------------------------------------------
(* A reply is kept by a step that changes nothing the panel of its thread  *)
(* depends on.                                                             *)
Viewed(p) == subscribed_thread = p
Subscribed(p) == p \in thread_subscribers

(* A reply is kept by a step that moves neither it nor its panel.          *)
LEMMA KeptQuietly ==
    ASSUME NEW r, NEW p, parents[r] = p, parents'[r] = p, Kept(r),
           Viewed(p)' <=> Viewed(p), Subscribed(p)' <=> Subscribed(p), Pending(p)' <=> Pending(p),
           p \in failed' <=> p \in failed, thread_messages'[p][r] = thread_messages[p][r],
           \A t \in DOMAIN tasks' : t.at = "set" /\ t.thread = p => t \in DOMAIN tasks,
           Loading(p) => Loading(p)',
           Settled(p) => (Moving(r)' <=> Moving(r))
    PROVE  Kept(r)'
<1>1. (Settled(p)' <=> Settled(p)) /\ (Away(p)' <=> Away(p))
  BY DEF Settled, Away, Viewed, Subscribed
<1> QED
  BY <1>1 DEF Kept, Between, Viewed

(* What tasks of which threads a step starts, moves on or ends.            *)
LEMMA PendingWithTasks ==
    ASSUME NEW p, UNCHANGED outgoing,
           \A t : t.thread = p /\ t.kind \in {"load", "unsubscribe"} =>
                      (t \in DOMAIN tasks' <=> t \in DOMAIN tasks)
    PROVE  (Pending(p)' <=> Pending(p)) /\ (Loading(p)' <=> Loading(p))
  BY DEF Pending, Loading

(* A reply of a thread that is being opened or closed is not on its way,   *)
(* unless it has raced.                                                    *)
LEMMA NotMovingBetween ==
    ASSUME RaceInv, NEW r \in (Replies \cap rows) \ raced, Between(parents[r])
    PROVE  ~Moving(r) /\ ~LeftOff(r)
  BY DEF RaceInv, Races, Between

(* A reply that has not raced does not move while its thread is between,   *)
(* after the step.                                                         *)
LEMMA NotMovingBetweenNext ==
    ASSUME PanelNext, NEW r \in (Replies \cap rows') \ raced', Between(parents[r])'
    PROVE  ~Moving(r)' /\ ~LeftOff(r)'
  BY DEF PanelNext, Races, Between

(* A thread with a request of its own under way is between.                *)
LEMMA PendingBetween ==
    ASSUME NEW p, Pending(p) PROVE Between(p)
  BY DEF Between, Settled, Away

(* The same after a step.                                                  *)
LEMMA PendingBetweenNext ==
    ASSUME NEW p, Pending(p)' PROVE Between(p)'
  BY DEF Between, Settled, Away

(* Steps of the server on messages change nothing at the client.           *)
LEMMA KeptByServer ==
    ASSUME NEW r, NEW p, parents[r] = p, parents'[r] = p, Kept(r),
           UNCHANGED <<thread_subscribers, outgoing, thread_messages, subscribed_thread, tasks, failed>>,
           Settled(p) => (Moving(r)' <=> Moving(r))
    PROVE  Kept(r)'
<1>1. (Viewed(p)' <=> Viewed(p)) /\ (Subscribed(p)' <=> Subscribed(p))
  BY DEF Viewed, Subscribed
<1>2. (Pending(p)' <=> Pending(p)) /\ (Loading(p)' <=> Loading(p))
  BY PendingWithTasks
<1> QED
  BY <1>1, <1>2, KeptQuietly

(* Steps of the server on messages keep every reply that has not raced.    *)
LEMMA KeptFeedStep ==
    ASSUME PanelInv, PanelNext, ServerStep, NEW r \in (Replies \cap rows') \ raced'
    PROVE  Kept(r)'
<1>1. /\ rows \subseteq Messages /\ parents \in [Replies -> Parents \cup {None}]
      /\ news \in [Replies -> {"new", "stored", "told", "lost"}] /\ socket \in Seq(Incoming)
      /\ thread_messages \in [Parents -> [Replies -> Nat]]
  BY DEF PanelInv, PanelTypeOK, FeedTypeOK, Incoming
<1>2. r \notin raced /\ (r \in rows => Kept(r) /\ parents[r] \in Parents)
  BY DEF PanelInv, KeptInv, RowInv, PanelNext
<1>3. ASSUME UNCHANGED clientVars
      PROVE  UNCHANGED <<thread_subscribers, outgoing, socket, thread_messages, subscribed_thread, tasks, failed>>
  BY <1>3 DEF clientVars
<1>11. ASSUME NEW s \in Replies, NEW q \in Parents, ServerStores(s, q) PROVE Kept(r)'
  <2>1. /\ news[s] = "new" /\ rows' = rows \cup {s} /\ parents' = [parents EXCEPT ![s] = q]
        /\ news' = [news EXCEPT ![s] = "stored"] /\ UNCHANGED clientVars
    BY <1>11 DEF ServerStores, Store
  <2>2. CASE r = s
    <3>1. parents'[r] = q /\ Moving(r)'
      BY <1>1, <2>1, <2>2 DEF Moving
    <3>2. thread_messages'[q][r] = 0
      BY <1>3, <2>1, <2>2 DEF PanelInv, FreshInv
    <3>3. ~Between(parents[r])'
      BY <3>1, NotMovingBetweenNext
    <3> QED
      BY <3>1, <3>2, <3>3 DEF Kept
  <2>3. CASE r # s
    <3>1. r \in rows /\ parents'[r] = parents[r] /\ news'[r] = news[r]
      BY <1>1, <2>1, <2>3
    <3>2. Moving(r)' <=> Moving(r)
      BY <1>3, <2>1, <3>1 DEF Moving
    <3> QED
      BY <1>2, <1>3, <2>1, <3>1, <3>2, KeptByServer
  <2> QED
    BY <2>2, <2>3
<1>12. ASSUME NEW s \in Replies, ServerAnnounces(s) PROVE Kept(r)'
  <2> DEFINE p == parents[r]
  <2>1. /\ news[s] = "stored" /\ news' = [news EXCEPT ![s] = "told"] /\ UNCHANGED <<rows, parents>>
        /\ UNCHANGED <<thread_subscribers, outgoing, thread_messages, subscribed_thread, tasks, failed>>
        /\ socket' = IF parents[s] \in thread_subscribers
                     THEN Append(socket, ReplyCreated(s)) ELSE socket
    BY <1>12 DEF ServerAnnounces, Announce
  <2>2. ReplyCreated(s) \in Incoming
    BY DEF Incoming
  <2>3. ASSUME Settled(p) PROVE Moving(r)' <=> Moving(r)
    <3>1. CASE r = s
      <4>1. socket' = Append(socket, ReplyCreated(r))
        BY <2>1, <2>3, <3>1 DEF Settled
      <4>2. \E i \in DOMAIN socket' : socket'[i] = ReplyCreated(r)
        BY <1>1, <2>2, <3>1, <4>1, AppendFacts
      <4> QED
        BY <2>1, <3>1, <4>2 DEF Moving
    <3>2. CASE r # s
      <4>1. ReplyCreated(s) # ReplyCreated(r)
        BY <3>2, Events
      <4>2. (\E i \in DOMAIN socket' : socket'[i] = ReplyCreated(r))
                <=> (\E i \in DOMAIN socket : socket[i] = ReplyCreated(r))
        <5>1. CASE socket' = socket
          BY <5>1
        <5>2. CASE socket' = Append(socket, ReplyCreated(s))
          BY <1>1, <2>2, <4>1, <5>2, AppendFacts
        <5> QED
          BY <2>1, <5>1, <5>2
      <4> QED
        BY <1>1, <2>1, <3>2, <4>2 DEF Moving
    <3> QED
      BY <3>1, <3>2
  <2> QED
    BY <1>2, <2>1, <2>3, KeptByServer
<1>13. ASSUME NEW s \in Replies, GiveUp(s), UNCHANGED <<clientVars, created_at>> PROVE Kept(r)'
  <2>1. r # s /\ r \in rows /\ parents'[r] = parents[r] /\ news'[r] = news[r] /\ UNCHANGED rows
    BY <1>1, <1>13 DEF GiveUp
  <2>2. Moving(r)' <=> Moving(r)
    BY <1>3, <1>13, <2>1 DEF Moving
  <2> QED
    BY <1>2, <1>3, <1>13, <2>1, <2>2, KeptByServer
<1>14. ASSUME NEW m \in Doomed, Remove(m), UNCHANGED <<clientVars, created_at>> PROVE Kept(r)'
  <2>1. r \in rows /\ UNCHANGED <<parents, news>>
    BY <1>14 DEF Remove
  <2>2. Moving(r)' <=> Moving(r)
    BY <1>3, <1>14, <2>1 DEF Moving
  <2> QED
    BY <1>2, <1>3, <1>14, <2>1, <2>2, KeptByServer
<1>15. ASSUME NEW m \in Doomed, ServerAnnouncesRemoval(m) PROVE Kept(r)'
  <2>1. /\ UNCHANGED <<rows, parents, news>> /\ socket' = Append(socket, MessageDeleted(m))
        /\ UNCHANGED <<thread_subscribers, outgoing, thread_messages, subscribed_thread, tasks, failed>>
    BY <1>15 DEF ServerAnnouncesRemoval, AnnounceRemoval
  <2>2. MessageDeleted(m) \in Incoming
    BY PanelAssumption DEF Incoming
  <2>3. (\E i \in DOMAIN socket' : socket'[i] = ReplyCreated(r))
            <=> (\E i \in DOMAIN socket : socket[i] = ReplyCreated(r))
    BY <1>1, <2>1, <2>2, Events, AppendFacts
  <2>4. Moving(r)' <=> Moving(r)
    BY <2>1, <2>3 DEF Moving
  <2> QED
    BY <1>2, <2>1, <2>4, KeptByServer
<1> QED
  BY <1>11, <1>12, <1>13, <1>14, <1>15 DEF ServerStep

(* A task that moves on or ends matters to its own thread only.            *)
LEMMA KeptForOthers ==
    ASSUME IsABag(tasks), NEW t, t \in DOMAIN tasks, NEW r, NEW p, parents[r] = p, parents'[r] = p, p # t.thread,
           Kept(r), UNCHANGED <<thread_subscribers, outgoing, subscribed_thread>>,
           p \in failed' <=> p \in failed, thread_messages'[p][r] = thread_messages[p][r],
           Moving(r)' <=> Moving(r),
           Ends(t) \/ \E next : Goes(t, next) /\ next.thread = t.thread
    PROVE  Kept(r)'
<1>1. \A u : u.thread = p => (u \in DOMAIN tasks' <=> u \in DOMAIN tasks)
  <2>1. CASE Ends(t)
    BY <2>1, EndsDomain
  <2>2. ASSUME NEW next, Goes(t, next), next.thread = t.thread
        PROVE  \A u : u.thread = p => (u \in DOMAIN tasks' <=> u \in DOMAIN tasks)
    BY <2>2, GoesDomain
  <2> QED
    BY <2>1, <2>2
<1>2. (Pending(p)' <=> Pending(p)) /\ (Loading(p)' <=> Loading(p))
  BY <1>1, PendingWithTasks
<1>3. (Viewed(p)' <=> Viewed(p)) /\ (Subscribed(p)' <=> Subscribed(p))
  BY DEF Viewed, Subscribed
<1> QED
  BY <1>1, <1>2, <1>3, KeptQuietly

(* A load that moves on leaves its thread between.                         *)
LEMMA KeptWhileLoading ==
    ASSUME NEW r, NEW p, parents'[r] = p, Loading(p)',
           \A t \in DOMAIN tasks' : t.at = "set" /\ t.thread = p => r \in t.page
    PROVE  Kept(r)'
<1>1. Pending(p)'
  BY DEF Loading, Pending
<1> QED
  BY <1>1 DEF Kept, Settled

(* So do the steps of the client and of the server's socket.               *)
LEMMA KeptClientStep ==
    ASSUME PanelInv, PanelNext, ServerTakes \/ ClientStep, NEW r \in (Replies \cap rows') \ raced'
    PROVE  Kept(r)'
<1>1. /\ parents \in [Replies -> Parents \cup {None}]
      /\ news \in [Replies -> {"new", "stored", "told", "lost"}] /\ socket \in Seq(Incoming)
      /\ outgoing \in Seq(Outgoing)
      /\ thread_messages \in [Parents -> [Replies -> Nat]] /\ IsABag(tasks)
      /\ \A t \in DOMAIN tasks : t \in TaskTypes /\ TaskShape(t)
  BY DEF PanelInv, PanelTypeOK, FeedTypeOK, Incoming, Outgoing, ShapeInv, TaskTypes
<1>2. UNCHANGED feedVars /\ UNCHANGED <<rows, parents, news>>
  BY DEF ServerTakes, ClientStep, ClickOpen, Frame, SetOpenThread, SendUnsubscribe, SendSubscribe,
         FindParent, ReadReplies, SetReplies, LoadFails, Read, feedVars
<1>3. PICK p \in Parents : /\ r \in (Replies \cap rows) \ raced /\ Kept(r)
                         /\ parents[r] = p /\ parents'[r] = p
  BY <1>2 DEF PanelInv, KeptInv, RowInv, PanelNext
<1>4. ASSUME UNCHANGED socket PROVE Moving(r)' <=> Moving(r)
  BY <1>2, <1>4 DEF Moving
<1>5. Between(p) => ~Moving(r)
  BY <1>3, NotMovingBetween DEF PanelInv
<1>6. Between(p)' => ~Moving(r)' /\ ~LeftOff(r)'
  BY <1>3, NotMovingBetweenNext
<1>7. ASSUME Between(p), NEW t \in DOMAIN tasks, t.at = "set", t.thread = p PROVE r \in t.page
  BY <1>3, <1>7 DEF Kept
<1>8. ASSUME NEW t \in DOMAIN tasks, t.kind \in {"load", "unsubscribe"} PROVE Pending(t.thread) /\ Between(t.thread)
  <2>1. Pending(t.thread)
    BY <1>8 DEF Pending
  <2> QED
    BY <2>1, PendingBetween
<1>11. ASSUME ServerTakes PROVE Kept(r)'
  <2> DEFINE q == Head(outgoing).thread
  <2>1. /\ UNCHANGED <<socket, thread_messages, subscribed_thread, tasks, failed>>
        /\ outgoing # <<>> /\ outgoing' = Tail(outgoing)
        /\ \/ thread_subscribers' = thread_subscribers \cup {q}
           \/ thread_subscribers' = thread_subscribers \ {q}
    BY <1>11 DEF ServerTakes
  <2>2. CASE p = q
    <3>1. Pending(p)
      BY <1>1, <2>1, <2>2, TailFacts DEF Pending
    <3>2. Between(p) /\ ~Moving(r) /\ ~Moving(r)'
      BY <1>4, <1>5, <2>1, <3>1, PendingBetween
    <3>3. Loading(p)' => ~Settled(p)'
      BY DEF Loading, Settled, Pending
    <3>4. (Loading(p)' <=> Loading(p))
      BY <2>1 DEF Loading
    <3>5. Settled(p)' => subscribed_thread = p
      BY <2>1 DEF Settled
    <3> QED
      BY <1>3, <2>1, <3>2, <3>3, <3>4, <3>5 DEF Kept
  <2>3. CASE p # q
    <3>1. (Viewed(p)' <=> Viewed(p)) /\ (Subscribed(p)' <=> Subscribed(p)) /\ (Loading(p)' <=> Loading(p))
      BY <2>1, <2>3 DEF Viewed, Subscribed, Loading
    <3>2. (\E i \in DOMAIN outgoing' : outgoing'[i].thread = p)
              <=> (\E i \in DOMAIN outgoing : outgoing[i].thread = p)
      <4>1. /\ \A i \in DOMAIN outgoing' : i + 1 \in DOMAIN outgoing /\ outgoing'[i] = outgoing[i + 1]
            /\ \A i \in DOMAIN outgoing : i # 1 => i - 1 \in DOMAIN outgoing' /\ outgoing'[i - 1] = outgoing[i]
            /\ outgoing[1].thread = q
        BY <1>1, <2>1, TailFacts
      <4>2. ASSUME NEW i \in DOMAIN outgoing', outgoing'[i].thread = p
            PROVE  \E j \in DOMAIN outgoing : outgoing[j].thread = p
        BY <4>1, <4>2
      <4>3. ASSUME NEW i \in DOMAIN outgoing, outgoing[i].thread = p
            PROVE  \E j \in DOMAIN outgoing' : outgoing'[j].thread = p
        BY <2>3, <4>1, <4>3
      <4> QED
        BY <4>2, <4>3
    <3>3. Pending(p)' <=> Pending(p)
      BY <2>1, <3>2 DEF Pending
    <3> QED
      BY <1>3, <1>4, <2>1, <3>1, <3>3, KeptQuietly
  <2> QED
    BY <2>2, <2>3
<1>12. ASSUME NEW c \in Parents, ClickOpen(c) PROVE Kept(r)'
  <2> DEFINE new == {Task("open", c)}
  <2>1. /\ UNCHANGED <<thread_subscribers, outgoing, socket, thread_messages, subscribed_thread, failed>>
        /\ tasks' = tasks (+) SetToBag(new)
    BY <1>12 DEF ClickOpen, Spawn
  <2>2. \A t \in new : t.kind = "open" /\ t.at = "run"
    BY DEF Task
  <2> HIDE DEF new
  <2>3. DOMAIN tasks' = DOMAIN tasks \cup new
    BY <1>1, <2>1, BagGrows
  <2>4. (Pending(p)' <=> Pending(p)) /\ (Loading(p)' <=> Loading(p))
    BY <2>1, <2>2, <2>3, PendingWithTasks
  <2>5. (Viewed(p)' <=> Viewed(p)) /\ (Subscribed(p)' <=> Subscribed(p))
    BY <2>1 DEF Viewed, Subscribed
  <2> QED
    BY <1>3, <1>4, <2>1, <2>2, <2>3, <2>4, <2>5, KeptQuietly
<1>13. ASSUME NEW t \in DOMAIN tasks, SetOpenThread(t) PROVE Kept(r)'
  <2>1. /\ UNCHANGED <<thread_subscribers, outgoing, socket, thread_messages, subscribed_thread, failed>>
        /\ t.kind \in {"open", "close"} /\ Ends(t)
    BY <1>13 DEF SetOpenThread
  <2>2. DOMAIN tasks' \subseteq DOMAIN tasks /\ DOMAIN tasks \ {t} \subseteq DOMAIN tasks'
    BY <1>1, <2>1, EndsDomain
  <2>3. (Pending(p)' <=> Pending(p)) /\ (Loading(p)' <=> Loading(p))
    BY <2>1, <2>2, PendingWithTasks
  <2>4. (Viewed(p)' <=> Viewed(p)) /\ (Subscribed(p)' <=> Subscribed(p))
    BY <2>1 DEF Viewed, Subscribed
  <2> QED
    BY <1>3, <1>4, <2>1, <2>2, <2>3, <2>4, KeptQuietly
<1>14. ASSUME NEW t \in DOMAIN tasks, SendUnsubscribe(t) PROVE Kept(r)'
  <2>1. /\ UNCHANGED <<thread_subscribers, socket, thread_messages, subscribed_thread, failed>>
        /\ t.kind = "unsubscribe" /\ Ends(t) /\ outgoing' = Append(outgoing, Unsubscribe(t.thread))
        /\ t.thread \in Parents
    BY <1>1, <1>14 DEF SendUnsubscribe, Enqueue, TaskShape
  <2>2. DOMAIN tasks' \subseteq DOMAIN tasks /\ DOMAIN tasks \ {t} \subseteq DOMAIN tasks'
    BY <1>1, <2>1, EndsDomain
  <2>3. /\ DOMAIN outgoing' = DOMAIN outgoing \cup {Len(outgoing) + 1}
        /\ \A i \in DOMAIN outgoing : outgoing'[i] = outgoing[i]
        /\ outgoing'[Len(outgoing) + 1].thread = t.thread
    <3>1. Unsubscribe(t.thread) \in Outgoing /\ Unsubscribe(t.thread).thread = t.thread
      BY <2>1 DEF Outgoing, Unsubscribe
    <3> QED
      BY <1>1, <2>1, <3>1, AppendFacts
  <2>4. Loading(p)' <=> Loading(p)
    BY <2>1, <2>2 DEF Loading
  <2>5. CASE p = t.thread
    <3>1. Between(p) /\ ~Moving(r)
      BY <1>5, <1>8, <2>1, <2>5
    <3>2. Between(p)'
      BY <2>3, <2>5, PendingBetweenNext DEF Pending
    <3> QED
      BY <1>3, <2>1, <2>2, <2>4, <3>1, <3>2 DEF Kept, Between
  <2>6. CASE p # t.thread
    <3>1. \A u : u.thread = p => (u \in DOMAIN tasks' <=> u \in DOMAIN tasks)
      BY <2>2, <2>6
    <3>2. Pending(p)' <=> Pending(p)
      BY <2>3, <2>6, <3>1 DEF Pending
    <3>3. (Viewed(p)' <=> Viewed(p)) /\ (Subscribed(p)' <=> Subscribed(p))
      BY <2>1 DEF Viewed, Subscribed
    <3> QED
      BY <1>3, <1>4, <2>1, <2>2, <2>4, <3>2, <3>3, KeptQuietly
  <2> QED
    BY <2>5, <2>6
<1>15. ASSUME NEW t \in DOMAIN tasks, SendSubscribe(t) PROVE Kept(r)'
  <2> DEFINE next == [t EXCEPT !.at = "ask"]
  <2>1. /\ UNCHANGED <<thread_subscribers, socket, thread_messages, subscribed_thread, failed>>
        /\ t.at = "subscribe" /\ Goes(t, next) /\ outgoing' = Append(outgoing, Subscribe(t.thread))
        /\ t.kind = "load" /\ t.thread \in Parents
    BY <1>1, <1>15 DEF SendSubscribe, Enqueue, TaskShape
  <2>2. next.thread = t.thread /\ next.kind = "load" /\ next.at = "ask"
    BY <1>1, <2>1 DEF TaskTypes
  <2> HIDE DEF next
  <2>3. DOMAIN tasks' \subseteq DOMAIN tasks \cup {next} /\ (DOMAIN tasks \ {t}) \cup {next} \subseteq DOMAIN tasks'
    BY <1>1, <2>1, GoesDomain
  <2>4. /\ DOMAIN outgoing' = DOMAIN outgoing \cup {Len(outgoing) + 1}
        /\ \A i \in DOMAIN outgoing : outgoing'[i] = outgoing[i]
        /\ outgoing'[Len(outgoing) + 1].thread = t.thread
    <3>1. Subscribe(t.thread) \in Outgoing /\ Subscribe(t.thread).thread = t.thread
      BY <2>1 DEF Outgoing, Subscribe
    <3> QED
      BY <1>1, <2>1, <3>1, AppendFacts
  <2>5. CASE p = t.thread
    <3>1. \A u \in DOMAIN tasks' : u.at = "set" /\ u.thread = p => r \in u.page
      BY <1>7, <1>8, <2>1, <2>2, <2>3, <2>5
    <3>2. Loading(p)'
      BY <2>2, <2>3, <2>5 DEF Loading
    <3> QED
      BY <1>3, <3>1, <3>2, KeptWhileLoading
  <2>6. CASE p # t.thread
    <3>1. \A u : u.thread = p => (u \in DOMAIN tasks' <=> u \in DOMAIN tasks)
      BY <2>2, <2>3, <2>6
    <3>2. (Pending(p)' <=> Pending(p)) /\ (Loading(p)' <=> Loading(p))
      BY <2>4, <2>6, <3>1 DEF Pending, Loading
    <3>3. (Viewed(p)' <=> Viewed(p)) /\ (Subscribed(p)' <=> Subscribed(p))
      BY <2>1 DEF Viewed, Subscribed
    <3> QED
      BY <1>3, <1>4, <2>1, <3>1, <3>2, <3>3, KeptQuietly
  <2> QED
    BY <2>5, <2>6
<1>16. ASSUME NEW t \in DOMAIN tasks, NEW next, Goes(t, next), t.kind = "load", t.thread = p,
              next.thread = p, next.kind = "load", next.at = "set" => r \in next.page
       PROVE  Kept(r)'
  <2>1. DOMAIN tasks' \subseteq DOMAIN tasks \cup {next} /\ next \in DOMAIN tasks'
    BY <1>1, <1>16, GoesDomain
  <2>2. \A u \in DOMAIN tasks' : u.at = "set" /\ u.thread = p => r \in u.page
    BY <1>7, <1>8, <1>16, <2>1
  <2>3. Loading(p)'
    BY <1>16, <2>1 DEF Loading
  <2> QED
    BY <1>3, <2>2, <2>3, KeptWhileLoading
<1>17. ASSUME NEW t \in DOMAIN tasks, FindParent(t) PROVE Kept(r)'
  <2> DEFINE next == [t EXCEPT !.at = "read"]
  <2>1. /\ UNCHANGED <<thread_subscribers, outgoing, socket, thread_messages, subscribed_thread, failed>>
        /\ t.kind = "load" /\ Goes(t, next)
    BY <1>1, <1>17 DEF FindParent, TaskShape
  <2>2. next.thread = t.thread /\ next.kind = "load" /\ next.at = "read"
    BY <1>1, <2>1 DEF TaskTypes
  <2> HIDE DEF next
  <2>3. CASE p = t.thread
    BY <1>16, <2>1, <2>2, <2>3
  <2>4. CASE p # t.thread
    BY <1>1, <1>3, <1>4, <2>1, <2>2, <2>4, KeptForOthers
  <2> QED
    BY <2>3, <2>4
<1>18. ASSUME NEW t \in DOMAIN tasks, ReadReplies(t) PROVE Kept(r)'
  <2> DEFINE next == [t EXCEPT !.at = "set", !.page = Page(t.thread)]
  <2>1. /\ UNCHANGED <<thread_subscribers, outgoing, socket, thread_messages, subscribed_thread, failed>>
        /\ t.kind = "load" /\ Goes(t, next) /\ UNCHANGED created_at
    BY <1>1, <1>18 DEF ReadReplies, TaskShape
  <2>2. next.thread = t.thread /\ next.kind = "load" /\ next.at = "set" /\ next.page = Page(t.thread)
    BY <1>1, <2>1 DEF TaskTypes
  <2> HIDE DEF next
  <2>3. CASE p = t.thread
    <3>1. next \in DOMAIN tasks'
      BY <1>1, <2>1, GoesDomain
    <3>2. Between(p)'
      BY <2>2, <2>3, <3>1, PendingBetweenNext DEF Pending
    <3>3. Older(r) \in SUBSET Replies /\ IsFiniteSet(Replies)
      BY PanelAssumption DEF Older, Live
    <3>4. Cardinality(Older(r)) \in Nat
      BY <3>3, FS_Subset, FS_CardinalityType
    <3>5. Older(r)' = Older(r)
      BY <1>2, <2>1 DEF Older, Live
    <3>6. r \in Page(p)
      <4>1. ASSUME r \notin Page(p) PROVE LeftOff(r)'
        <5>1. Cardinality(Older(r)) >= Limit
          BY <1>3, <3>4, <4>1, PanelAssumption DEF Page, Live
        <5> QED
          BY <1>3, <2>2, <2>3, <3>1, <3>5, <4>1, <5>1 DEF LeftOff
      <4> QED
        BY <1>3, <1>6, <3>2, <4>1
    <3> QED
      BY <1>16, <2>1, <2>2, <2>3, <3>6
  <2>4. CASE p # t.thread
    BY <1>1, <1>3, <1>4, <2>1, <2>2, <2>4, KeptForOthers
  <2> QED
    BY <2>3, <2>4
<1>19. ASSUME NEW t \in DOMAIN tasks, SetReplies(t) PROVE Kept(r)'
  <2> DEFINE list == [s \in Replies |-> IF s \in t.page THEN 1 ELSE 0]
  <2>1. /\ UNCHANGED <<thread_subscribers, outgoing, socket, subscribed_thread>>
        /\ t.kind = "load" /\ t.at = "set" /\ Ends(t) /\ failed' = failed \ {t.thread}
        /\ thread_messages' = [thread_messages EXCEPT ![t.thread] = list]
    BY <1>1, <1>19 DEF SetReplies, ListOf, TaskShape
  <2>2. r \in t.page => list[r] = 1
    BY <1>3
  <2> HIDE DEF list
  <2>3. CASE p = t.thread
    <3>1. Between(p) /\ ~Moving(r)'
      BY <1>4, <1>5, <1>8, <2>1, <2>3
    <3>2. thread_messages'[p][r] = 1
      BY <1>1, <1>7, <2>1, <2>2, <2>3, <3>1
    <3>3. \A u \in DOMAIN tasks' : u.at = "set" /\ u.thread = p => r \in u.page
      BY <1>1, <1>7, <2>1, <3>1, EndsDomain
    <3> QED
      BY <1>3, <3>1, <3>2, <3>3 DEF Kept
  <2>4. CASE p # t.thread
    <3>1. thread_messages'[p][r] = thread_messages[p][r] /\ (p \in failed' <=> p \in failed)
      BY <1>1, <2>1, <2>4
    <3> QED
      BY <1>1, <1>3, <1>4, <2>1, <2>4, <3>1, KeptForOthers
  <2> QED
    BY <2>3, <2>4
<1>20. ASSUME NEW t \in DOMAIN tasks, LoadFails(t) PROVE Kept(r)'
  <2>1. /\ UNCHANGED <<thread_subscribers, outgoing, socket, thread_messages, subscribed_thread>>
        /\ t.kind = "load" /\ Ends(t) /\ failed' = failed \cup {t.thread}
    BY <1>1, <1>20 DEF LoadFails, TaskShape
  <2>2. CASE p = t.thread
    <3>1. \A u \in DOMAIN tasks' : u.at = "set" /\ u.thread = p => r \in u.page
      BY <1>1, <1>7, <1>8, <2>1, <2>2, EndsDomain
    <3> QED
      BY <1>3, <2>1, <2>2, <3>1 DEF Kept
  <2>3. CASE p # t.thread
    BY <1>1, <1>3, <1>4, <2>1, <2>3, KeptForOthers
  <2> QED
    BY <2>2, <2>3
<1>21. ASSUME NEW clicked \in BOOLEAN, Frame(clicked) PROVE Kept(r)'
  <2> DEFINE new == Switch \cup IF clicked THEN Close ELSE {}
  <2>1. /\ UNCHANGED <<thread_subscribers, outgoing, socket, thread_messages, failed>>
        /\ tasks' = tasks (+) SetToBag(new) /\ open_thread # None
        /\ subscribed_thread' = IF clicked THEN None ELSE open_thread
    BY <1>21 DEF Frame, Spawn
  <2>2. \A u \in new : u.at # "set"
    BY DEF Switch, Close, Task
  <2>3. \A u \in new : u.thread = p /\ u.kind \in {"load", "unsubscribe"} =>
                           p = subscribed_thread \/ p = open_thread
    BY DEF Switch, Close, Task
  <2>4. p = subscribed_thread /\ p # open_thread => \E u \in new : u.kind = "unsubscribe" /\ u.thread = p
    <3>1. p = subscribed_thread /\ p # open_thread => Task("unsubscribe", p) \in new
      BY <1>3, PanelAssumption DEF Switch, Messages
    <3> QED
      BY <3>1 DEF Task
  <2>5. p = open_thread /\ p # subscribed_thread => \E u \in new : u.kind = "load" /\ u.thread = p
    <3>1. p = open_thread /\ p # subscribed_thread => Task("load", p) \in new
      BY DEF Switch
    <3> QED
      BY <3>1 DEF Task
  <2>6. p = open_thread /\ clicked => \E u \in new : u.kind = "unsubscribe" /\ u.thread = p
    <3>1. p = open_thread /\ clicked => Task("unsubscribe", p) \in new
      BY DEF Close
    <3> QED
      BY <3>1 DEF Task
  <2>7. p = open_thread /\ p = subscribed_thread /\ ~clicked => new = {}
    BY DEF Switch
  <2> HIDE DEF new
  <2>8. DOMAIN tasks' = DOMAIN tasks \cup new
    BY <1>1, <2>1, BagGrows
  <2>9. CASE \E u \in new : u.kind \in {"load", "unsubscribe"} /\ u.thread = p
    <3>1. Between(p)'
      BY <2>8, <2>9, PendingBetweenNext DEF Pending
    <3>2. \A u \in DOMAIN tasks' : u.at = "set" /\ u.thread = p => r \in u.page
      <4>1. ASSUME NEW u \in DOMAIN tasks', u.at = "set", u.thread = p PROVE r \in u.page
        <5>1. u \in DOMAIN tasks /\ u.kind = "load"
          BY <1>1, <2>2, <2>8, <4>1 DEF TaskShape
        <5> QED
          BY <1>7, <1>8, <4>1, <5>1
      <4> QED
        BY <4>1
    <3>3. subscribed_thread' = p => Loading(p)'
      <4>1. subscribed_thread' = p => p = open_thread /\ ~clicked
        BY <1>3, <2>1, PanelAssumption DEF Messages
      <4>2. p = open_thread /\ ~clicked => p # subscribed_thread
        BY <2>7, <2>9
      <4> QED
        BY <2>5, <2>8, <4>1, <4>2 DEF Loading
    <3> QED
      BY <1>3, <3>1, <3>2, <3>3 DEF Kept, Between
  <2>10. CASE ~\E u \in new : u.kind \in {"load", "unsubscribe"} /\ u.thread = p
    <3>1. subscribed_thread' = p <=> subscribed_thread = p
      BY <1>3, <2>1, <2>4, <2>5, <2>6, <2>10, PanelAssumption DEF Messages
    <3>2. (Viewed(p)' <=> Viewed(p)) /\ (Subscribed(p)' <=> Subscribed(p))
      BY <2>1, <3>1 DEF Viewed, Subscribed
    <3>3. (Pending(p)' <=> Pending(p)) /\ (Loading(p)' <=> Loading(p))
      BY <2>1, <2>8, <2>10, PendingWithTasks
    <3>4. \A u \in DOMAIN tasks' : u.at = "set" => u \in DOMAIN tasks
      BY <2>2, <2>8
    <3> QED
      BY <1>3, <1>4, <2>1, <3>2, <3>3, <3>4, KeptQuietly
  <2> QED
    BY <2>9, <2>10
<1>22. ASSUME Read PROVE Kept(r)'
  <2> DEFINE event == Head(socket)
  <2>1. /\ UNCHANGED <<thread_subscribers, outgoing, subscribed_thread, tasks, failed>>
        /\ socket # <<>> /\ socket' = Tail(socket)
    BY <1>22 DEF Read
  <2>2. /\ 1 \in DOMAIN socket /\ event = socket[1] /\ event \in Incoming
        /\ \A i \in DOMAIN socket' : i + 1 \in DOMAIN socket /\ i + 1 # 1 /\ socket'[i] = socket[i + 1]
        /\ \A i \in DOMAIN socket : i # 1 => i - 1 \in DOMAIN socket' /\ socket'[i - 1] = socket[i]
    BY <1>1, <2>1, TailFacts
  <2>3. (Viewed(p)' <=> Viewed(p)) /\ (Subscribed(p)' <=> Subscribed(p))
    BY <2>1 DEF Viewed, Subscribed
  <2>4. (Pending(p)' <=> Pending(p)) /\ (Loading(p)' <=> Loading(p))
    BY <2>1, PendingWithTasks
  <2>5. CASE event = ReplyCreated(r)
    <3>1. /\ news[r] = "told" /\ Moving(r)
          /\ \A j \in DOMAIN socket : socket[j] = ReplyCreated(r) => j = 1
      BY <1>3, <2>2, <2>5 DEF PanelInv, SocketInv, Moving
    <3>2. ~Moving(r)'
      BY <1>2, <2>2, <3>1 DEF Moving
    <3>3. ~Between(p)
      BY <1>5, <3>1
    <3>4. thread_messages'[p][r] = thread_messages[p][r] + 1
      <4>1. thread_messages' = [thread_messages EXCEPT ![parents[r]][r] = @ + 1]
        BY <1>22, <2>5 DEF Read, ReplyCreated
      <4> QED
        BY <1>1, <1>3, <4>1
    <3>5. (Settled(p)' <=> Settled(p)) /\ (Away(p)' <=> Away(p))
      BY <2>3, <2>4 DEF Settled, Away, Viewed, Subscribed
    <3>6. Settled(p) /\ p \notin failed => thread_messages[p][r] = 0
      BY <1>3, <3>1 DEF Kept
    <3>7. Settled(p)' /\ p \notin failed' => thread_messages'[p][r] = 1
      BY <2>1, <3>4, <3>5, <3>6
    <3> QED
      BY <1>3, <3>2, <3>3, <3>5, <3>7 DEF Kept, Between
  <2>6. CASE event # ReplyCreated(r)
    <3>1. (\E i \in DOMAIN socket' : socket'[i] = ReplyCreated(r))
              <=> (\E i \in DOMAIN socket : socket[i] = ReplyCreated(r))
      <4>1. ASSUME NEW i \in DOMAIN socket, socket[i] = ReplyCreated(r)
            PROVE  \E j \in DOMAIN socket' : socket'[j] = ReplyCreated(r)
        <5>1. i # 1
          BY <2>2, <2>6, <4>1
        <5> QED
          BY <2>2, <4>1, <5>1
      <4>2. ASSUME NEW i \in DOMAIN socket', socket'[i] = ReplyCreated(r)
            PROVE  \E j \in DOMAIN socket : socket[j] = ReplyCreated(r)
        BY <2>2, <4>2
      <4> QED
        BY <4>1, <4>2
    <3>2. Moving(r)' <=> Moving(r)
      BY <1>2, <3>1 DEF Moving
    <3>3. thread_messages'[p][r] = thread_messages[p][r]
      <4>1. CASE UNCHANGED thread_messages
        BY <4>1
      <4>2. CASE /\ event.type = "thread_reply_created"
                 /\ thread_messages' = [thread_messages EXCEPT ![parents[event.message]][event.message] = @ + 1]
        <5>1. PICK s \in Replies : event = ReplyCreated(s)
          BY <2>2, <4>2 DEF Incoming, MessageDeleted
        <5>2. event.message = s /\ s # r
          BY <2>6, <5>1 DEF ReplyCreated
        <5> QED
          BY <1>1, <1>3, <4>2, <5>2
      <4> QED
        BY <1>22, <4>1, <4>2 DEF Read
    <3> QED
      BY <1>3, <2>1, <2>3, <2>4, <3>2, <3>3, KeptQuietly
  <2> QED
    BY <2>5, <2>6
<1> QED
  BY <1>11, <1>12, <1>13, <1>14, <1>15, <1>17, <1>18, <1>19, <1>20, <1>21, <1>22 DEF ClientStep

-----------------------------------------------------------------------------
(* The invariant holds at the start.                                       *)
LEMMA PanelInvInitially == PanelInit => PanelInv
<1>1. PanelInit => RowInv /\ SocketInv /\ KeptInv /\ RaceInv
  BY PanelAssumption
     DEF PanelInit, FeedInit, Messages, RowInv, SocketInv, KeptInv, RaceInv, Races
<1>2. PanelInit => FreshInv
  BY DEF PanelInit, FeedInit, FreshInv, EmptyBag, SetToBag
<1> QED
  BY <1>1, <1>2, ShapeInitially DEF PanelInv

(* Every step keeps the invariant.                                         *)
LEMMA PanelInvStep == ASSUME PanelInv, [PanelNext]_panelVars PROVE PanelInv'
<1>1. CASE PanelNext
  <2>1. PanelTypeOK' /\ ShapeInv' /\ RowInv' /\ SocketInv' /\ FreshInv'
    BY <1>1, ShapeStep, RowSocketStep, FreshStep DEF PanelInv
  <2>2. KeptInv'
    BY <1>1, KeptFeedStep, KeptClientStep DEF KeptInv, PanelNext
  <2>3. RaceInv'
    BY <1>1 DEF PanelNext, RaceInv
  <2> QED
    BY <2>1, <2>2, <2>3 DEF PanelInv
<1>2. CASE UNCHANGED panelVars
  <2>1. UNCHANGED <<rows, parents, news, removals, created_at, thread_subscribers, outgoing, socket,
                    listed, open_thread, thread_messages, subscribed_thread, tasks, acts, failed, raced>>
    BY <1>2 DEF panelVars, feedVars, clientVars
  <2>2. PanelTypeOK' /\ ShapeInv' /\ RowInv' /\ SocketInv' /\ FreshInv'
    BY <2>1 DEF PanelInv, PanelTypeOK, FeedTypeOK, ShapeInv, TaskShape, RowInv, SocketInv, FreshInv
  <2>3. ASSUME NEW p PROVE /\ Pending(p)' <=> Pending(p)
                           /\ Settled(p)' <=> Settled(p)
                           /\ Away(p)' <=> Away(p)
                           /\ Loading(p)' <=> Loading(p)
    BY <2>1 DEF Pending, Settled, Away, Loading
  <2>4. ASSUME NEW r PROVE (Moving(r)' <=> Moving(r)) /\ (LeftOff(r)' <=> LeftOff(r))
    BY <2>1 DEF Moving, LeftOff, Older, Live
  <2>5. KeptInv'
    BY <2>1, <2>3, <2>4 DEF PanelInv, KeptInv, Kept, Between
  <2>6. RaceInv'
    BY <2>1, <2>3, <2>4 DEF PanelInv, RaceInv, Races
  <2> QED
    BY <2>2, <2>5, <2>6 DEF PanelInv
<1> QED
  BY <1>1, <1>2

(* ShownOnce: a settled panel whose load succeeded shows every announced   *)
(* reply of its thread that did not race with a subscription exactly once. *)
THEOREM SettledPanelShowsOnce == PanelSpec => []ShownOnce
<1>1. PanelInv => ShownOnce
  <2>1. ASSUME PanelInv, NEW r \in (Replies \cap rows) \ raced, Settled(parents[r]),
               parents[r] \notin failed, ~Moving(r)
        PROVE  thread_messages[parents[r]][r] = 1
    BY <2>1 DEF PanelInv, KeptInv, Kept
  <2> QED
    BY <2>1 DEF ShownOnce
<1> QED
  BY <1>1, PanelInvInitially, PanelInvStep, PTL DEF PanelSpec
=============================================================================
