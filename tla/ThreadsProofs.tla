---------------------------- MODULE ThreadsProofs ----------------------------
(***************************************************************************)
(* Proofs about Threads: types, the accounting of reply_count, what the    *)
(* subscribers of a thread and of its channel are told, and that Threads   *)
(* implements ThreadFeed.                                                  *)
(***************************************************************************)
EXTENDS Threads, FiniteSetTheorems, TLAPS

(* The actions of Next, one by one.                                        *)
LEMMA NextCases ==
    ASSUME Next, NEW G,
           ASSUME NEW r \in Replies, NEW p \in Parents, CreateReply(r, p) PROVE G,
           ASSUME NEW r \in Replies, InsertReply(r) PROVE G,
           ASSUME NEW r \in Replies, CountReply(r) PROVE G,
           ASSUME NEW r \in Replies, TellThread(r) PROVE G,
           ASSUME NEW d \in Deletes, NEW m \in Messages, DeleteMessage(d, m) PROVE G,
           ASSUME NEW d \in Deletes, DeleteRow(d) PROVE G,
           ASSUME NEW d \in Deletes, DiscountReply(d) PROVE G,
           ASSUME NEW d \in Deletes, TellDeleted(d) PROVE G,
           ASSUME NEW o \in Ops, RereadParent(o) PROVE G,
           ASSUME NEW o \in Ops, TellCount(o) PROVE G,
           ASSUME NEW o \in Ops, Stop(o) PROVE G
    PROVE  G
  BY DEF Next

-----------------------------------------------------------------------------
(* What a request is about is fixed by its first step: a reply that is in  *)
(* the table, or is the target of a deletion, has a parent, and only a     *)
(* request for a reply is ever at one of the labels that touch the count.  *)
ShapeInv ==
    /\ \A r \in Replies :
          /\ pc[r] \in {"idle", "insert", "count", "reread", "tellThread", "tellCount", "over"}
          /\ thread_parent_id[r] \in Parents <=> pc[r] # "idle"
          /\ r \in rows => pc[r] \notin {"idle", "insert"}
    /\ \A d \in Deletes :
          /\ pc[d] \in {"idle", "delete", "discount", "tellDeleted", "reread", "tellCount", "over"}
          /\ pc[d] = "idle" <=> target[d] = None
          /\ target[d] \in Replies => pc[target[d]] \notin {"idle", "insert"}
          /\ pc[d] \in {"discount", "reread", "tellCount"} => target[d] \in Replies

(* Types and shape, in one induction.                                      *)
LEMMA ShapeInit == Init => TypeOK /\ ShapeInv
  BY SetsAssumption DEF Init, TypeOK, ShapeInv, Messages, Ops, Labels

(* An event is one of Events.                                              *)
LEMMA EventTypes ==
    /\ \A p \in Parents, r \in Replies : ReplyCreated(p, r) \in Events
    /\ \A p \in Parents, n \in Nat : MetadataUpdated(p, n) \in Events
    /\ \A m \in Messages : MessageDeleted(m) \in Events
  BY DEF ReplyCreated, MetadataUpdated, MessageDeleted, Events

(* Every action keeps types and shape.                                     *)
LEMMA ShapeStep == ASSUME TypeOK, ShapeInv, Next PROVE TypeOK' /\ ShapeInv'
<1> USE SetsAssumption DEF TypeOK, ShapeInv, Messages, Ops, Labels, Goto, Thread, Broadcast
<1>1. ASSUME NEW r \in Replies, NEW p \in Parents, CreateReply(r, p) PROVE TypeOK' /\ ShapeInv'
  BY <1>1 DEF CreateReply
<1>2. ASSUME NEW r \in Replies, InsertReply(r) PROVE TypeOK' /\ ShapeInv'
  BY <1>2 DEF InsertReply
<1>3. ASSUME NEW r \in Replies, CountReply(r) PROVE TypeOK' /\ ShapeInv'
  BY <1>3 DEF CountReply
<1>4. ASSUME NEW r \in Replies, TellThread(r) PROVE TypeOK' /\ ShapeInv'
  <2>1. thread_parent_id[r] \in Parents
    BY <1>4 DEF TellThread
  <2>2. wire' \in Seq(Events)
    BY <1>4, <2>1, EventTypes DEF TellThread
  <2>3. pc' \in [Ops -> Labels]
    BY <1>4 DEF TellThread
  <2> QED
    BY <1>4, <2>1, <2>2, <2>3 DEF TellThread
<1>5. ASSUME NEW d \in Deletes, NEW m \in Messages, DeleteMessage(d, m)
      PROVE  TypeOK' /\ ShapeInv'
  BY <1>5 DEF DeleteMessage
<1>6. ASSUME NEW d \in Deletes, DeleteRow(d) PROVE TypeOK' /\ ShapeInv'
  <2>1. rows' \subseteq rows
    BY <1>6 DEF DeleteRow
  <2>2. PICK l \in {"over", "discount", "tellDeleted"} :
            pc' = [pc EXCEPT ![d] = l] /\ (l = "discount" => target[d] \in Replies)
    BY <1>6 DEF DeleteRow
  <2>3. pc[d] = "delete" /\ UNCHANGED <<thread_parent_id, reply_count, target, seen, wire,
                                       halted, clamped>>
    BY <1>6 DEF DeleteRow
  <2>4. TypeOK'
    BY <2>1, <2>2, <2>3
  <2> QED
    BY <2>1, <2>2, <2>3, <2>4
<1>7. ASSUME NEW d \in Deletes, DiscountReply(d) PROVE TypeOK' /\ ShapeInv'
  BY <1>7 DEF DiscountReply, Decremented
<1>8. ASSUME NEW d \in Deletes, TellDeleted(d) PROVE TypeOK' /\ ShapeInv'
  BY <1>8, EventTypes DEF TellDeleted, AfterDeleted
<1>9. ASSUME NEW o \in Ops, RereadParent(o) PROVE TypeOK' /\ ShapeInv'
  <2>1. PICK l \in {"over", "tellThread", "tellCount"} :
            pc' = [pc EXCEPT ![o] = l] /\ (l = "tellThread" => o \in Replies)
    BY <1>9 DEF RereadParent
  <2>2. pc[o] = "reread" /\ UNCHANGED <<rows, thread_parent_id, reply_count, target, wire,
                                       halted, clamped>>
    BY <1>9 DEF RereadParent
  <2>3. o \in Deletes => target[o] \in Replies
    BY <2>2
  <2>4. Thread(o) \in Parents
    BY <2>2, <2>3
  <2>5. seen' \in [Ops -> Nat]
    <3> HIDE DEF Thread, ShapeInv
    <3>1. reply_count[Thread(o)] \in Nat
      BY <2>4
    <3> QED
      BY <1>9, <3>1 DEF RereadParent
  <2>6. TypeOK'
    BY <2>1, <2>2, <2>5
  <2> QED
    BY <2>1, <2>2, <2>3, <2>6
<1>10. ASSUME NEW o \in Ops, TellCount(o) PROVE TypeOK' /\ ShapeInv'
  BY <1>10, EventTypes DEF TellCount
<1>11. ASSUME NEW o \in Ops, Stop(o) PROVE TypeOK' /\ ShapeInv'
  BY <1>11 DEF Stop
<1> QED
  BY NextCases, <1>1, <1>2, <1>3, <1>4, <1>5, <1>6, <1>7, <1>8, <1>9, <1>10, <1>11

(* Types and shape hold throughout.                                        *)
THEOREM ShapeInvariance == Spec => [](TypeOK /\ ShapeInv)
<1>1. TypeOK /\ ShapeInv /\ [Next]_vars => (TypeOK /\ ShapeInv)'
  <2>1. ASSUME TypeOK, ShapeInv, UNCHANGED vars PROVE TypeOK' /\ ShapeInv'
    BY <2>1 DEF vars, TypeOK, ShapeInv
  <2> QED
    BY <2>1, ShapeStep
<1> QED
  BY ShapeInit, <1>1, PTL DEF Spec

(* TypeOK: every variable stays in its type, so a reply_count is never     *)
(* negative, however deletions and creations of replies overlap.           *)
THEOREM TypeCorrect == Spec => []TypeOK
  BY ShapeInvariance, PTL
-----------------------------------------------------------------------------
(* The accounting of reply_count.                                          *)

Stored(p) == reply_count[p] + Cardinality(Uncounted(p))
Due(p) == Cardinality(Live(p)) + Cardinality(Undiscounted(p))
Accounted(p) == Stored(p) >= Due(p) /\ (p \notin clamped => Stored(p) = Due(p))

(* The three sets of the accounting are finite.                            *)
LEMMA Finite ==
    ASSUME NEW p
    PROVE  /\ IsFiniteSet(Live(p)) /\ IsFiniteSet(Uncounted(p)) /\ IsFiniteSet(Undiscounted(p))
           /\ Cardinality(Live(p)) \in Nat
           /\ Cardinality(Uncounted(p)) \in Nat
           /\ Cardinality(Undiscounted(p)) \in Nat
<1>1. Live(p) \subseteq Replies /\ Uncounted(p) \subseteq Replies /\ Undiscounted(p) \subseteq Deletes
  BY DEF Live, Uncounted, Undiscounted
<1>2. IsFiniteSet(Live(p)) /\ IsFiniteSet(Uncounted(p)) /\ IsFiniteSet(Undiscounted(p))
  BY <1>1, SetsAssumption, FS_Subset
<1> QED
  BY <1>2, FS_CardinalityType

(* A step that leaves the count and the three sets of a thread alone.      *)
LEMMA Frame ==
    ASSUME NEW p \in Parents, Accounted(p),
           Live(p)' = Live(p), Uncounted(p)' = Uncounted(p), Undiscounted(p)' = Undiscounted(p),
           reply_count'[p] = reply_count[p], clamped' = clamped
    PROVE  Accounted(p)'
  BY DEF Accounted, Stored, Due

(* Every step keeps the account of every thread whose parent is still      *)
(* there: a row and its request change it together, one on each side.      *)
LEMMA AccountStep ==
    ASSUME TypeOK, ShapeInv, Next, NEW p \in Parents \cap rows, p \in rows', Accounted(p)
    PROVE  Accounted(p)'
<1> USE SetsAssumption DEF TypeOK, ShapeInv, Messages, Ops, Labels, Goto, Thread
<1>0. reply_count[p] \in Nat
  OBVIOUS
<1>1. ASSUME NEW r \in Replies, NEW q \in Parents, CreateReply(r, q) PROVE Accounted(p)'
  <2>1. Live(p)' = Live(p) /\ Uncounted(p)' = Uncounted(p) /\ Undiscounted(p)' = Undiscounted(p)
    BY <1>1 DEF CreateReply, Live, Uncounted, Undiscounted
  <2> QED
    BY <1>1, <2>1, Frame DEF CreateReply
<1>2. ASSUME NEW r \in Replies, InsertReply(r) PROVE Accounted(p)'
  <2>1. Undiscounted(p)' = Undiscounted(p) /\ UNCHANGED <<reply_count, clamped, thread_parent_id>>
    BY <1>2 DEF InsertReply, Undiscounted
  <2>2. CASE Thread(r) \in rows /\ Thread(r) = p
    <3>1. r \notin Live(p) /\ r \notin Uncounted(p)
      BY <1>2, <2>2 DEF InsertReply, Live, Uncounted
    <3>2. Live(p)' = Live(p) \cup {r} /\ Uncounted(p)' = Uncounted(p) \cup {r}
      BY <1>2, <2>2 DEF InsertReply, Live, Uncounted
    <3> HIDE DEF TypeOK, ShapeInv, Messages, Ops, Labels, Goto, Thread
    <3>3. Cardinality(Live(p)') = Cardinality(Live(p)) + 1
      BY <3>1, <3>2, Finite, FS_AddElement
    <3>4. Cardinality(Uncounted(p)') = Cardinality(Uncounted(p)) + 1
      BY <3>1, <3>2, Finite, FS_AddElement
    <3> QED
      BY <1>0, <2>1, <3>3, <3>4, Finite DEF Accounted, Stored, Due
  <2>3. CASE Thread(r) \notin rows \/ Thread(r) # p
    <3>1. Live(p)' = Live(p) /\ Uncounted(p)' = Uncounted(p)
      BY <1>2, <2>3 DEF InsertReply, Live, Uncounted
    <3> QED
      BY <2>1, <3>1, Frame
  <2> QED
    BY <2>2, <2>3
<1>3. ASSUME NEW r \in Replies, CountReply(r) PROVE Accounted(p)'
  <2>1. /\ Live(p)' = Live(p) /\ Undiscounted(p)' = Undiscounted(p)
        /\ UNCHANGED <<clamped, thread_parent_id>>
    BY <1>3 DEF CountReply, Live, Undiscounted
  <2>2. CASE Thread(r) = p
    <3>1. r \in Uncounted(p) /\ Uncounted(p)' = Uncounted(p) \ {r}
      BY <1>3, <2>2 DEF CountReply, Uncounted
    <3>2. Cardinality(Uncounted(p)') = Cardinality(Uncounted(p)) - 1
      BY <3>1, Finite, FS_RemoveElement, ZenonT(40)
    <3>3. reply_count'[p] = reply_count[p] + 1
      BY <1>3, <2>2 DEF CountReply
    <3> QED
      BY <2>1, <3>2, <3>3, Finite DEF Accounted, Stored, Due
  <2>3. CASE Thread(r) # p
    <3>1. Uncounted(p)' = Uncounted(p) /\ reply_count'[p] = reply_count[p]
      BY <1>3, <2>3 DEF CountReply, Uncounted
    <3> QED
      BY <2>1, <3>1, Frame
  <2> QED
    BY <2>2, <2>3
<1>5. ASSUME NEW d \in Deletes, NEW m \in Messages, DeleteMessage(d, m) PROVE Accounted(p)'
  <2>1. Live(p)' = Live(p) /\ Uncounted(p)' = Uncounted(p) /\ Undiscounted(p)' = Undiscounted(p)
    BY <1>5 DEF DeleteMessage, Live, Uncounted, Undiscounted
  <2> QED
    BY <1>5, <2>1, Frame DEF DeleteMessage
<1>7. ASSUME NEW d \in Deletes, DiscountReply(d) PROVE Accounted(p)'
  <2>1. /\ Live(p)' = Live(p) /\ Uncounted(p)' = Uncounted(p)
        /\ UNCHANGED <<target, thread_parent_id>>
    BY <1>7 DEF DiscountReply, Live, Uncounted
  <2>2. CASE Thread(d) = p
    <3>1. d \in Undiscounted(p) /\ Undiscounted(p)' = Undiscounted(p) \ {d}
      BY <1>7, <2>2 DEF DiscountReply, Undiscounted
    <3>2. Cardinality(Undiscounted(p)') = Cardinality(Undiscounted(p)) - 1
      BY <3>1, Finite, FS_RemoveElement, ZenonT(40)
    <3>3. CASE reply_count[p] = 0
      <4>1. reply_count'[p] = 0 /\ p \in clamped'
        BY <1>7, <2>2, <3>3 DEF DiscountReply, Decremented
      <4> QED
        BY <2>1, <3>2, <3>3, <4>1, Finite DEF Accounted, Stored, Due
    <3>4. CASE reply_count[p] > 0
      <4>1. reply_count'[p] = reply_count[p] - 1 /\ clamped' = clamped
        BY <1>7, <2>2, <3>4 DEF DiscountReply, Decremented
      <4> HIDE DEF TypeOK, ShapeInv, Messages, Ops, Labels, Goto, Thread
      <4> QED
        BY <1>0, <2>1, <3>2, <4>1, Finite DEF Accounted, Stored, Due
    <3> QED
      BY <1>0, <3>3, <3>4
  <2>3. CASE Thread(d) # p
    <3>1. Undiscounted(p)' = Undiscounted(p) /\ reply_count'[p] = reply_count[p]
      BY <1>7, <2>3 DEF DiscountReply, Undiscounted
    <3>2. p \in clamped' <=> p \in clamped
      BY <1>7, <2>3 DEF DiscountReply
    <3> QED
      BY <2>1, <3>1, <3>2 DEF Accounted, Stored, Due
  <2> QED
    BY <2>2, <2>3
<1>6. ASSUME NEW d \in Deletes, DeleteRow(d) PROVE Accounted(p)'
  <2>1. /\ Uncounted(p)' = Uncounted(p)
        /\ UNCHANGED <<reply_count, clamped, thread_parent_id, target>>
    BY <1>6 DEF DeleteRow, Uncounted
  <2>2. CASE Affected(target[d]) /\ target[d] \in Replies /\ Thread(d) = p
    <3>1. Cascade(target[d]) = {target[d]}
      BY <2>2 DEF Cascade
    <3>2. target[d] \in Live(p) /\ Live(p)' = Live(p) \ {target[d]}
      BY <1>6, <2>2, <3>1 DEF DeleteRow, Live, Affected
    <3>3. d \notin Undiscounted(p) /\ Undiscounted(p)' = Undiscounted(p) \cup {d}
      BY <1>6, <2>2 DEF DeleteRow, Undiscounted
    <3> HIDE DEF TypeOK, ShapeInv, Messages, Ops, Labels, Goto, Thread
    <3>4. Cardinality(Live(p)') = Cardinality(Live(p)) - 1
      BY <3>2, Finite, FS_RemoveElement, ZenonT(40)
    <3>5. Cardinality(Undiscounted(p)') = Cardinality(Undiscounted(p)) + 1
      BY <3>3, Finite, FS_AddElement
    <3> QED
      BY <1>0, <2>1, <3>4, <3>5, Finite DEF Accounted, Stored, Due
  <2>3. CASE ~(Affected(target[d]) /\ target[d] \in Replies /\ Thread(d) = p)
    <3>1. Undiscounted(p)' = Undiscounted(p)
      BY <1>6, <2>3 DEF DeleteRow, Undiscounted
    <3>2. \A r \in Live(p) : Affected(target[d]) => r \notin Cascade(target[d])
      BY <1>6, <2>3 DEF DeleteRow, Live, Cascade
    <3>3. Live(p)' = Live(p)
      BY <1>6, <3>2 DEF DeleteRow, Live
    <3> QED
      BY <2>1, <3>1, <3>3, Frame
  <2> QED
    BY <2>2, <2>3
<1>8. ASSUME UNCHANGED <<rows, thread_parent_id, reply_count, target, clamped>>,
             \A o \in Ops : pc'[o] = "count" <=> pc[o] = "count",
             \A o \in Ops : pc'[o] = "discount" <=> pc[o] = "discount"
      PROVE  Accounted(p)'
  <2>1. Live(p)' = Live(p) /\ Uncounted(p)' = Uncounted(p) /\ Undiscounted(p)' = Undiscounted(p)
    BY <1>8 DEF Live, Uncounted, Undiscounted
  <2> QED
    BY <1>8, <2>1, Frame
<1>9. ASSUME NEW r \in Replies, TellThread(r) PROVE Accounted(p)'
  BY <1>8, <1>9 DEF TellThread
<1>10. ASSUME NEW d \in Deletes, TellDeleted(d) PROVE Accounted(p)'
  BY <1>8, <1>10 DEF TellDeleted, AfterDeleted
<1>11. ASSUME NEW o \in Ops, RereadParent(o) PROVE Accounted(p)'
  BY <1>8, <1>11 DEF RereadParent
<1>12. ASSUME NEW o \in Ops, TellCount(o) PROVE Accounted(p)'
  BY <1>8, <1>12 DEF TellCount
<1>13. ASSUME NEW o \in Ops, Stop(o) PROVE Accounted(p)'
  BY <1>8, <1>13 DEF Stop
<1> HIDE DEF TypeOK, ShapeInv, Messages, Ops, Labels, Goto, Thread
<1> QED
  BY NextCases, <1>1, <1>2, <1>3, <1>5, <1>6, <1>7, <1>9, <1>10, <1>11, <1>12, <1>13

(* No step brings a parent back, so a thread accounted for after a step    *)
(* was accounted for before it.                                            *)
LEMMA ParentsOnlyLeave == ASSUME TypeOK, ShapeInv, Next PROVE Parents \cap rows' \subseteq rows
<1> USE SetsAssumption
<1>1. ASSUME NEW r \in Replies, InsertReply(r) PROVE Parents \cap rows' \subseteq rows
  BY <1>1 DEF InsertReply
<1>2. ASSUME NEW d \in Deletes, DeleteRow(d) PROVE Parents \cap rows' \subseteq rows
  BY <1>2 DEF DeleteRow
<1>3. CASE rows' = rows
  BY <1>3
<1> QED
  BY NextCases, <1>1, <1>2, <1>3
     DEF CreateReply, CountReply, TellThread, DeleteMessage, DiscountReply, TellDeleted,
         RereadParent, TellCount, Stop

(* CountAccounted: in every state the cached reply_count differs from the  *)
(* number of replies by the requests between their two statements, and     *)
(* after a clamped decrement only upwards.                                 *)
THEOREM CountAlwaysAccounted == Spec => []CountAccounted
<1>1. Init => CountAccounted
  <2> SUFFICES ASSUME Init, NEW p \in Parents \cap rows PROVE Accounted(p)
    BY DEF CountAccounted, Accounted, Stored, Due
  <2>1. Live(p) = {} /\ Uncounted(p) = {} /\ Undiscounted(p) = {} /\ reply_count[p] = 0
    BY SetsAssumption DEF Init, Live, Uncounted, Undiscounted, Ops
  <2> QED
    BY <2>1, FS_EmptySet DEF Accounted, Stored, Due
<1>2. TypeOK /\ ShapeInv /\ CountAccounted /\ [Next]_vars => CountAccounted'
  <2>1. ASSUME TypeOK, ShapeInv, CountAccounted, Next PROVE CountAccounted'
    <3> SUFFICES ASSUME NEW p \in Parents \cap rows' PROVE Accounted(p)'
      BY DEF CountAccounted, Accounted, Stored, Due
    <3>1. p \in rows /\ Accounted(p)
      BY <2>1, ParentsOnlyLeave DEF CountAccounted, Accounted, Stored, Due
    <3> QED
      BY <2>1, <3>1, AccountStep
  <2>2. ASSUME CountAccounted, UNCHANGED vars PROVE CountAccounted'
    BY <2>2 DEF vars, CountAccounted, Live, Uncounted, Undiscounted, Thread
  <2> QED
    BY <2>1, <2>2
<1> QED
  BY <1>1, <1>2, ShapeInvariance, PTL DEF Spec
-----------------------------------------------------------------------------
(* What the subscribers are told.                                          *)

Sent(event) == \E i \in DOMAIN wire : wire[i] = event

(* What was sent stays sent: the wire only grows.                          *)
LEMMA SentStaysSent == ASSUME TypeOK, Next, NEW event, Sent(event) PROVE Sent(event)'
<1>1. wire \in Seq(Events)
  BY DEF TypeOK
<1>2. wire' = wire \/ \E e : wire' = Append(wire, e)
  BY DEF Next, CreateReply, InsertReply, CountReply, TellThread, DeleteMessage, DeleteRow,
         DiscountReply, TellDeleted, RereadParent, TellCount, Stop, Broadcast
<1>3. ASSUME NEW e, wire' = Append(wire, e) PROVE Sent(event)'
  <2>1. PICK i \in DOMAIN wire : wire[i] = event
    BY DEF Sent
  <2>2. i \in DOMAIN wire' /\ wire'[i] = wire[i]
    BY <1>1, <1>3, <2>1
  <2> QED
    BY <2>1, <2>2 DEF Sent
<1>4. CASE wire' = wire
  BY <1>4 DEF Sent
<1> QED
  BY <1>2, <1>3, <1>4

(* A broadcast is sent.                                                    *)
LEMMA BroadcastSends == ASSUME TypeOK, NEW event, Broadcast(event) PROVE Sent(event)'
<1>1. wire \in Seq(Events) /\ wire' = Append(wire, event)
  BY DEF TypeOK, Broadcast
<1>2. Len(wire) + 1 \in DOMAIN wire' /\ wire'[Len(wire) + 1] = event
  BY <1>1
<1> QED
  BY <1>2 DEF Sent

(* A reply in the table has its parent there (the foreign key), and its    *)
(* thread has heard of it once its request is past the announcement.       *)
Heard(r, p) ==
    r \in rows /\ thread_parent_id[r] = p
        => p \in rows /\ (pc[r] \in {"tellCount", "over"} => Sent(ReplyCreated(p, r)))
ToldInv == \A r \in Replies, p \in Parents : Heard(r, p)

(* Every action keeps it: only InsertReply adds a row, only TellThread and *)
(* a parent that is not found lead past the announcement.                  *)
LEMMA ToldStep ==
    ASSUME TypeOK, ShapeInv, Next, NEW q \in Replies, NEW p \in Parents, Heard(q, p)
    PROVE  Heard(q, p)'
<1> USE SetsAssumption DEF TypeOK, ShapeInv, Messages, Ops, Goto, Thread
<1>1. Sent(ReplyCreated(p, q)) => Sent(ReplyCreated(p, q))'
  BY SentStaysSent
<1>2. ASSUME q \in rows' => q \in rows, thread_parent_id' = thread_parent_id,
             p \in rows => p \in rows' \/ q \notin rows',
             pc'[q] \in {"tellCount", "over"}
                => pc[q] \in {"tellCount", "over"} \/ q \notin rows \/ thread_parent_id[q] \notin rows
      PROVE  Heard(q, p)'
  <2> HIDE DEF TypeOK, ShapeInv, Messages, Ops, Goto, Thread
  <2> QED
    BY <1>1, <1>2 DEF Heard
<1>3. ASSUME NEW r \in Replies, NEW t \in Parents, CreateReply(r, t) PROVE Heard(q, p)'
  <2>1. CASE q = r
    BY <1>3, <2>1 DEF CreateReply, Heard
  <2>2. CASE q # r
    BY <1>1, <1>3, <2>2 DEF CreateReply, Heard
  <2> QED
    BY <2>1, <2>2
<1>4. ASSUME NEW r \in Replies, InsertReply(r) PROVE Heard(q, p)'
  <2>1. CASE q = r
    BY <1>4, <2>1 DEF InsertReply, Heard
  <2>2. CASE q # r
    BY <1>1, <1>4, <2>2 DEF InsertReply, Heard
  <2> QED
    BY <2>1, <2>2
<1>5. ASSUME NEW r \in Replies, CountReply(r) PROVE Heard(q, p)'
  BY <1>2, <1>5 DEF CountReply
<1>6. ASSUME NEW r \in Replies, TellThread(r) PROVE Heard(q, p)'
  <2>1. CASE q = r /\ thread_parent_id[r] = p
    <3>1. Broadcast(ReplyCreated(p, q)) /\ UNCHANGED <<rows, thread_parent_id>>
      BY <1>6, <2>1 DEF TellThread
    <3> HIDE DEF TypeOK, ShapeInv, Messages, Ops, Goto, Thread
    <3>2. Sent(ReplyCreated(p, q))'
      BY <3>1, BroadcastSends
    <3> QED
      BY <3>1, <3>2 DEF Heard
  <2>2. CASE q = r /\ thread_parent_id[r] # p
    BY <1>6, <2>2 DEF TellThread, Heard
  <2>3. CASE q # r
    BY <1>2, <1>6, <2>3 DEF TellThread
  <2> QED
    BY <2>1, <2>2, <2>3
<1>7. ASSUME NEW d \in Deletes, NEW m \in Messages, DeleteMessage(d, m) PROVE Heard(q, p)'
  BY <1>2, <1>7 DEF DeleteMessage
<1>8. ASSUME NEW d \in Deletes, DeleteRow(d) PROVE Heard(q, p)'
  <2>1. /\ pc'[q] = pc[q] /\ thread_parent_id' = thread_parent_id
        /\ rows' = rows \/ rows' = rows \ Cascade(target[d])
    BY <1>8 DEF DeleteRow
  <2>2. CASE rows' = rows
    BY <1>2, <2>1, <2>2
  <2>3. CASE rows' = rows \ Cascade(target[d])
    <3>1. p \notin rows' /\ p \in rows /\ thread_parent_id[q] = p => q \notin rows'
      BY <2>3 DEF Cascade
    <3> HIDE DEF TypeOK, ShapeInv, Messages, Ops, Goto, Thread
    <3> QED
      BY <1>1, <2>1, <2>3, <3>1 DEF Heard
  <2> QED
    BY <2>1, <2>2, <2>3
<1>9. ASSUME NEW d \in Deletes, DiscountReply(d) PROVE Heard(q, p)'
  BY <1>2, <1>9 DEF DiscountReply
<1>10. ASSUME NEW d \in Deletes, TellDeleted(d) PROVE Heard(q, p)'
  BY <1>2, <1>10 DEF TellDeleted, AfterDeleted
<1>11. ASSUME NEW o \in Ops, RereadParent(o) PROVE Heard(q, p)'
  BY <1>2, <1>11 DEF RereadParent
<1>12. ASSUME NEW o \in Ops, TellCount(o) PROVE Heard(q, p)'
  BY <1>2, <1>12 DEF TellCount
<1>13. ASSUME NEW o \in Ops, Stop(o) PROVE Heard(q, p)'
  BY <1>2, <1>13 DEF Stop
<1> HIDE DEF TypeOK, ShapeInv, Messages, Ops, Goto, Thread
<1> QED
  BY NextCases, <1>3, <1>4, <1>5, <1>6, <1>7, <1>8, <1>9, <1>10, <1>11, <1>12, <1>13

(* It holds throughout.                                                    *)
LEMMA ToldInvariance == Spec => []ToldInv
<1>1. Init => ToldInv
  BY SetsAssumption DEF Init, ToldInv, Heard
<1>2. TypeOK /\ ShapeInv /\ ToldInv /\ [Next]_vars => ToldInv'
  <2>1. ASSUME TypeOK, ShapeInv, ToldInv, Next PROVE ToldInv'
    BY <2>1, ToldStep DEF ToldInv
  <2>2. ASSUME ToldInv, UNCHANGED vars PROVE ToldInv'
    BY <2>2 DEF vars, ToldInv, Heard, Sent
  <2> QED
    BY <2>1, <2>2
<1> QED
  BY <1>1, <1>2, ShapeInvariance, PTL DEF Spec

(* AnnouncedOrGone: a reply whose request has ended was announced to its   *)
(* thread, or its row is gone with its parent.                             *)
THEOREM RepliesAreAnnounced == Spec => []AnnouncedOrGone
<1>1. TypeOK /\ ShapeInv /\ ToldInv => AnnouncedOrGone
  <2> SUFFICES ASSUME TypeOK, ShapeInv, ToldInv, NEW r \in Replies \cap rows, pc[r] = "over"
               PROVE  Sent(ReplyCreated(Thread(r), r))
    BY DEF AnnouncedOrGone, Sent
  <2>1. Thread(r) = thread_parent_id[r] /\ thread_parent_id[r] \in Parents
    BY DEF Thread, ShapeInv
  <2> QED
    BY <2>1 DEF ToldInv, Heard
<1> QED
  BY <1>1, ToldInvariance, ShapeInvariance, PTL

-----------------------------------------------------------------------------
(* A thread somebody has asked about has been told its count, or somebody  *)
(* is still to read it and tell.                                           *)
Asked(p) == \E o \in Ops : Thread(o) = p
Bearer(o, p) ==
    /\ Thread(o) = p
    /\ \/ pc[o] \in {"insert", "count", "discount", "tellDeleted", "reread"}
       \/ pc[o] \in {"tellThread", "tellCount"} /\ seen[o] = reply_count[p]
CountInv(p) ==
    p \in rows /\ Asked(p)
        => (\E n \in Nat : n = reply_count[p] /\ Sent(MetadataUpdated(p, n)))
              \/ \E o \in Ops : Bearer(o, p)

(* Every step keeps it: who changes the count goes on to read it back, who *)
(* reads it goes on to tell it, and who told an older one was not alone.   *)
LEMMA CountInvStep ==
    ASSUME TypeOK, ShapeInv, Next, NEW p \in Parents, p \in rows, CountInv(p)
    PROVE  CountInv(p)'
<1> USE SetsAssumption DEF TypeOK, ShapeInv, Messages, Ops, Labels, Goto, Thread
<1>1. ASSUME reply_count'[p] = reply_count[p], Asked(p)' => Asked(p),
             \A o \in Ops : Bearer(o, p) => Bearer(o, p)'
      PROVE  CountInv(p)'
  <2> HIDE DEF TypeOK, ShapeInv, Messages, Ops, Labels, Goto, Thread
  <2>1. \A n \in Nat : Sent(MetadataUpdated(p, n)) => Sent(MetadataUpdated(p, n))'
    BY SentStaysSent
  <2> QED
    BY <1>1, <2>1 DEF CountInv
<1>2. ASSUME NEW o \in Ops, Bearer(o, p)' PROVE CountInv(p)'
  BY <1>2 DEF CountInv
<1>3. ASSUME NEW r \in Replies, NEW t \in Parents, CreateReply(r, t) PROVE CountInv(p)'
  <2>1. CASE t = p
    <3>1. Bearer(r, p)'
      BY <1>3, <2>1 DEF CreateReply, Bearer
    <3> QED
      BY <1>2, <3>1
  <2>2. CASE t # p
    <3>1. \A o \in Ops : Thread(o)' = p => Thread(o) = p
      BY <1>3, <2>2 DEF CreateReply
    <3>2. \A o \in Ops : Bearer(o, p) => Bearer(o, p)'
      BY <1>3, <2>2 DEF CreateReply, Bearer
    <3> QED
      BY <1>1, <1>3, <3>1, <3>2 DEF CreateReply, Asked
  <2> QED
    BY <2>1, <2>2
<1>4. ASSUME NEW r \in Replies, InsertReply(r) PROVE CountInv(p)'
  <2>1. \A o \in Ops : Bearer(o, p) => Bearer(o, p)'
    BY <1>4 DEF InsertReply, Bearer
  <2> QED
    BY <1>1, <1>4, <2>1 DEF InsertReply, Asked
<1>5. ASSUME NEW r \in Replies, CountReply(r) PROVE CountInv(p)'
  <2>1. CASE Thread(r) = p
    <3>1. Bearer(r, p)'
      BY <1>5, <2>1 DEF CountReply, Bearer
    <3> QED
      BY <1>2, <3>1
  <2>2. CASE Thread(r) # p
    <3>1. \A o \in Ops : Bearer(o, p) => Bearer(o, p)'
      BY <1>5, <2>2 DEF CountReply, Bearer
    <3> QED
      BY <1>1, <1>5, <2>2, <3>1 DEF CountReply, Asked
  <2> QED
    BY <2>1, <2>2
<1>6. ASSUME NEW r \in Replies, TellThread(r) PROVE CountInv(p)'
  <2>1. \A o \in Ops : Bearer(o, p) => Bearer(o, p)'
    BY <1>6 DEF TellThread, Bearer
  <2> QED
    BY <1>1, <1>6, <2>1 DEF TellThread, Asked
<1>7. ASSUME NEW d \in Deletes, NEW m \in Messages, DeleteMessage(d, m) PROVE CountInv(p)'
  <2>1. \A o \in Ops : Bearer(o, p) => Bearer(o, p)'
    BY <1>7 DEF DeleteMessage, Bearer
  <2>2. \A o \in Ops \ {d} : Thread(o)' = Thread(o)
    BY <1>7 DEF DeleteMessage
  <2>3. Thread(d)' = p => m \in Replies /\ Thread(m) = p
    BY <1>7 DEF DeleteMessage
  <2>4. Asked(p)' => Asked(p)
    <3> HIDE DEF TypeOK, ShapeInv, Thread, Goto
    <3> QED
      BY <2>2, <2>3 DEF Asked
  <2> QED
    BY <1>1, <1>7, <2>1, <2>4 DEF DeleteMessage
<1>8. ASSUME NEW d \in Deletes, DeleteRow(d) PROVE CountInv(p)'
  <2>1. \A o \in Ops : Bearer(o, p) => Bearer(o, p)'
    BY <1>8 DEF DeleteRow, Bearer
  <2> QED
    BY <1>1, <1>8, <2>1 DEF DeleteRow, Asked
<1>9. ASSUME NEW d \in Deletes, DiscountReply(d) PROVE CountInv(p)'
  <2>1. CASE Thread(d) = p
    <3>1. Bearer(d, p)'
      BY <1>9, <2>1 DEF DiscountReply, Bearer
    <3> QED
      BY <1>2, <3>1
  <2>2. CASE Thread(d) # p
    <3>1. reply_count'[p] = reply_count[p]
      BY <1>9, <2>2 DEF DiscountReply
    <3>2. \A o \in Ops : Bearer(o, p) => Bearer(o, p)'
      BY <1>9, <2>2, <3>1 DEF DiscountReply, Bearer
    <3>3. Asked(p)' => Asked(p)
      BY <1>9 DEF DiscountReply, Asked
    <3> QED
      BY <1>1, <3>1, <3>2, <3>3
  <2> QED
    BY <2>1, <2>2
<1>10. ASSUME NEW d \in Deletes, TellDeleted(d) PROVE CountInv(p)'
  <2>1. \A o \in Ops : Bearer(o, p) => Bearer(o, p)'
    BY <1>10 DEF TellDeleted, AfterDeleted, Bearer
  <2> QED
    BY <1>1, <1>10, <2>1 DEF TellDeleted, Asked
<1>11. ASSUME NEW o \in Ops, RereadParent(o) PROVE CountInv(p)'
  <2>1. CASE Thread(o) = p
    <3>1. Bearer(o, p)'
      BY <1>11, <2>1 DEF RereadParent, Bearer
    <3> QED
      BY <1>2, <3>1
  <2>2. CASE Thread(o) # p
    <3>1. \A x \in Ops : Bearer(x, p) => Bearer(x, p)'
      BY <1>11, <2>2 DEF RereadParent, Bearer
    <3> QED
      BY <1>1, <1>11, <3>1 DEF RereadParent, Asked
  <2> QED
    BY <2>1, <2>2
<1>12. ASSUME NEW o \in Ops, TellCount(o) PROVE CountInv(p)'
  <2>1. CASE Thread(o) = p /\ seen[o] = reply_count[p]
    <3>1. PICK n \in Nat : n = reply_count[p]
      OBVIOUS
    <3>2. Broadcast(MetadataUpdated(p, n)) /\ reply_count'[p] = n
      BY <1>12, <2>1, <3>1 DEF TellCount
    <3> HIDE DEF TypeOK, ShapeInv, Messages, Ops, Labels, Goto, Thread
    <3>3. Sent(MetadataUpdated(p, n))'
      BY <3>2, BroadcastSends
    <3> QED
      BY <3>2, <3>3 DEF CountInv
  <2>2. CASE ~(Thread(o) = p /\ seen[o] = reply_count[p])
    <3>1. \A x \in Ops : Bearer(x, p) => Bearer(x, p)'
      BY <1>12, <2>2 DEF TellCount, Bearer
    <3> QED
      BY <1>1, <1>12, <3>1 DEF TellCount, Asked
  <2> QED
    BY <2>1, <2>2
<1>13. ASSUME NEW o \in Ops, Stop(o) PROVE CountInv(p)'
  <2>1. \A x \in Ops : Bearer(x, p) => Bearer(x, p)'
    BY <1>13 DEF Stop, Bearer
  <2> QED
    BY <1>1, <1>13, <2>1 DEF Stop, Asked
<1> HIDE DEF TypeOK, ShapeInv, Messages, Ops, Labels, Goto, Thread
<1> QED
  BY NextCases, <1>3, <1>4, <1>5, <1>6, <1>7, <1>8, <1>9, <1>10, <1>11, <1>12, <1>13

(* TrueCountTold: when nobody is at work on a thread any more, the count   *)
(* in the database is one the channel has been sent.                       *)
THEOREM TheTrueCountIsTold == Spec => []TrueCountTold
<1> DEFINE Inv == \A p \in Parents : CountInv(p)
<1>1. Init => Inv
  BY SetsAssumption DEF Init, CountInv, Asked, Thread, Ops
<1>2. TypeOK /\ ShapeInv /\ Inv /\ [Next]_vars => Inv'
  <2>1. ASSUME TypeOK, ShapeInv, Inv, Next PROVE Inv'
    <3> SUFFICES ASSUME NEW p \in Parents PROVE CountInv(p)'
      OBVIOUS
    <3>1. p \in rows' => p \in rows
      BY <2>1, ParentsOnlyLeave
    <3>2. CASE p \in rows
      BY <2>1, <3>2, CountInvStep
    <3>3. CASE p \notin rows'
      BY <3>3 DEF CountInv
    <3> QED
      BY <3>1, <3>2, <3>3
  <2>2. ASSUME Inv, UNCHANGED vars PROVE Inv'
    BY <2>2 DEF vars, CountInv, Asked, Bearer, Sent, Thread
  <2> QED
    BY <2>1, <2>2
<1>3. Inv => TrueCountTold
  <2> SUFFICES ASSUME Inv, NEW p \in Parents \cap rows, Quiet(p), Asked(p)
               PROVE  Sent(MetadataUpdated(p, reply_count[p]))
    BY DEF TrueCountTold, Asked, Sent
  <2>1. \A o \in Ops : ~Bearer(o, p)
    BY DEF Quiet, Bearer
  <2> QED
    BY <2>1 DEF CountInv
<1> QED
  BY <1>1, <1>2, <1>3, ShapeInvariance, PTL DEF Spec

-----------------------------------------------------------------------------
(* Threads implements ThreadFeed.                                          *)

(* The next event is counted once, and changes no other count.             *)
LEMMA TimesAfter ==
    ASSUME TypeOK, NEW sent, wire' = Append(wire, sent), NEW event
    PROVE  /\ Times(event) \in Nat
           /\ Times(event)' = IF event = sent THEN Times(event) + 1 ELSE Times(event)
<1> DEFINE at == {i \in DOMAIN wire : wire[i] = event}
           n == Len(wire) + 1
<1>1. wire \in Seq(Events) /\ n \in Nat /\ DOMAIN wire = 1..Len(wire)
  BY DEF TypeOK
<1>2. IsFiniteSet(at) /\ Cardinality(at) \in Nat
  <2>1. IsFiniteSet(1..Len(wire))
    BY <1>1, FS_Interval
  <2> QED
    BY <1>1, <2>1, FS_Subset, FS_CardinalityType
<1>3. /\ DOMAIN wire' = DOMAIN wire \cup {n} /\ n \notin DOMAIN wire
      /\ wire'[n] = sent /\ \A i \in DOMAIN wire : wire'[i] = wire[i]
  BY <1>1
<1>4. {i \in DOMAIN wire' : wire'[i] = event} = IF event = sent THEN at \cup {n} ELSE at
  BY <1>3
<1>5. Cardinality(at \cup {n}) = Cardinality(at) + 1
  BY <1>2, <1>3, FS_AddElement
<1> QED
  BY <1>2, <1>4, <1>5 DEF Times

(* Events of different kinds, or about different things, are different.    *)
LEMMA EventsDiffer ==
    /\ \A p, q, r, s : ReplyCreated(p, r) = ReplyCreated(q, s) => p = q /\ r = s
    /\ \A l, m : MessageDeleted(l) = MessageDeleted(m) => l = m
    /\ \A p, r, m : ReplyCreated(p, r) # MessageDeleted(m)
    /\ \A p, r, q, n : ReplyCreated(p, r) # MetadataUpdated(q, n)
    /\ \A m, q, n : MessageDeleted(m) # MetadataUpdated(q, n)
<1>1. /\ \A p, r : /\ ReplyCreated(p, r).type = "thread_reply_created"
                   /\ ReplyCreated(p, r).parent = p /\ ReplyCreated(p, r).message = r
      /\ \A m : MessageDeleted(m).type = "message_deleted" /\ MessageDeleted(m).message = m
      /\ \A q, n : MetadataUpdated(q, n).type = "thread_metadata_updated"
  BY DEF ReplyCreated, MessageDeleted, MetadataUpdated
<1> QED
  BY <1>1

-----------------------------------------------------------------------------
(* A reply is announced by its own request, in one step of it.             *)
AnnouncedInv ==
    \A r \in Replies, p \in Parents :
        LET n == Times(ReplyCreated(p, r))
        IN  /\ n \in {0, 1}
            /\ n = 1 => thread_parent_id[r] = p /\ pc[r] \in {"tellCount", "over"}
            /\ thread_parent_id[r] = p /\ pc[r] = "tellCount" => n = 1

(* Every action keeps it.                                                  *)
LEMMA AnnouncedStep ==
    ASSUME TypeOK, ShapeInv, AnnouncedInv, Next PROVE AnnouncedInv'
<1> SUFFICES ASSUME NEW q \in Replies, NEW p \in Parents
             PROVE  LET n == Times(ReplyCreated(p, q))'
                    IN  /\ n \in {0, 1}
                        /\ n = 1 => thread_parent_id'[q] = p /\ pc'[q] \in {"tellCount", "over"}
                        /\ thread_parent_id'[q] = p /\ pc'[q] = "tellCount" => n = 1
  BY DEF AnnouncedInv
<1> DEFINE n == Times(ReplyCreated(p, q))
           Goal == /\ n' \in {0, 1}
                   /\ n' = 1 => thread_parent_id'[q] = p /\ pc'[q] \in {"tellCount", "over"}
                   /\ thread_parent_id'[q] = p /\ pc'[q] = "tellCount" => n' = 1
<1>0. /\ n \in {0, 1}
      /\ n = 1 => thread_parent_id[q] = p /\ pc[q] \in {"tellCount", "over"}
      /\ thread_parent_id[q] = p /\ pc[q] = "tellCount" => n = 1
  BY DEF AnnouncedInv
<1>1. ASSUME n' = n, thread_parent_id'[q] = thread_parent_id[q],
             pc'[q] = pc[q] \/ (pc[q] # "over" /\ pc'[q] # "tellCount"
                                  /\ (pc[q] = "tellCount" => pc'[q] = "over"))
      PROVE  Goal
  <2> HIDE DEF n
  <2> QED
    BY <1>0, <1>1
<1>2. ASSUME wire' = wire PROVE n' = n
  BY <1>2 DEF Times
<1> HIDE DEF n
<1> USE SetsAssumption DEF TypeOK, ShapeInv, Messages, Ops, Labels, Goto, Thread
<1>3. ASSUME NEW r \in Replies, NEW t \in Parents, CreateReply(r, t) PROVE Goal
  <2>1. n' = n
    BY <1>2, <1>3 DEF CreateReply
  <2>2. CASE q = r
    <3>1. pc[q] = "idle" /\ pc'[q] = "insert"
      BY <1>3, <2>2 DEF CreateReply
    <3> QED
      BY <1>0, <2>1, <3>1
  <2>3. CASE q # r
    BY <1>1, <1>3, <2>1, <2>3 DEF CreateReply
  <2> QED
    BY <2>2, <2>3
<1>4. ASSUME NEW r \in Replies, InsertReply(r) PROVE Goal
  BY <1>1, <1>2, <1>4 DEF InsertReply
<1>5. ASSUME NEW r \in Replies, CountReply(r) PROVE Goal
  BY <1>1, <1>2, <1>5 DEF CountReply
<1>6. ASSUME NEW r \in Replies, TellThread(r) PROVE Goal
  <2>1. /\ wire' = Append(wire, ReplyCreated(thread_parent_id[r], r))
        /\ thread_parent_id' = thread_parent_id
        /\ pc[r] = "tellThread" /\ pc' = [pc EXCEPT ![r] = "tellCount"]
    BY <1>6 DEF TellThread, Broadcast
  <2>2. n' = IF ReplyCreated(p, q) = ReplyCreated(thread_parent_id[r], r) THEN n + 1 ELSE n
    BY <2>1, TimesAfter DEF n
  <2>3. CASE q = r /\ thread_parent_id[r] = p
    BY <1>0, <2>1, <2>2, <2>3
  <2>4. CASE q = r /\ thread_parent_id[r] # p
    BY <1>0, <2>1, <2>2, <2>4, EventsDiffer
  <2>5. CASE q # r
    BY <1>0, <2>1, <2>2, <2>5, EventsDiffer
  <2> QED
    BY <2>3, <2>4, <2>5
<1>7. ASSUME NEW d \in Deletes, NEW m \in Messages, DeleteMessage(d, m) PROVE Goal
  BY <1>1, <1>2, <1>7 DEF DeleteMessage
<1>8. ASSUME NEW d \in Deletes, DeleteRow(d) PROVE Goal
  BY <1>1, <1>2, <1>8 DEF DeleteRow
<1>9. ASSUME NEW d \in Deletes, DiscountReply(d) PROVE Goal
  BY <1>1, <1>2, <1>9 DEF DiscountReply
<1>10. ASSUME NEW d \in Deletes, TellDeleted(d) PROVE Goal
  <2>1. wire' = Append(wire, MessageDeleted(target[d])) /\ pc'[q] = pc[q]
        /\ thread_parent_id' = thread_parent_id
    BY <1>10 DEF TellDeleted, Broadcast
  <2>2. n' = n
    BY <2>1, TimesAfter, EventsDiffer DEF n
  <2> QED
    BY <1>1, <2>1, <2>2
<1>11. ASSUME NEW o \in Ops, RereadParent(o) PROVE Goal
  BY <1>1, <1>2, <1>11 DEF RereadParent
<1>12. ASSUME NEW o \in Ops, TellCount(o) PROVE Goal
  <2>1. /\ wire' = Append(wire, MetadataUpdated(Thread(o), seen[o]))
        /\ thread_parent_id' = thread_parent_id
        /\ pc[o] = "tellCount" /\ pc' = [pc EXCEPT ![o] = "over"]
    BY <1>12 DEF TellCount, Broadcast
  <2>2. n' = n
    BY <2>1, TimesAfter, EventsDiffer DEF n
  <2> QED
    BY <1>1, <2>1, <2>2
<1>13. ASSUME NEW o \in Ops, Stop(o) PROVE Goal
  BY <1>1, <1>2, <1>13 DEF Stop
<1> QED
  BY NextCases, <1>3, <1>4, <1>5, <1>6, <1>7, <1>8, <1>9, <1>10, <1>11, <1>12, <1>13 DEF n

-----------------------------------------------------------------------------
(* The deletion of a message belongs to the one request that found its     *)
(* row: once the row is gone the request still has to say so, or has said  *)
(* it, and no other request ever will.                                     *)
Announcing(d) == pc[d] \in {"discount", "tellDeleted"}
RemovalInv ==
    /\ \A m \in Messages :
          LET n == Times(MessageDeleted(m))
          IN  /\ n \in {0, 1}
              /\ n = 1 => m \notin rows /\ (m \in Replies => pc[m] \notin {"idle", "insert"})
    /\ \A d \in Deletes :
          Announcing(d) => target[d] \notin rows /\ Times(MessageDeleted(target[d])) = 0
    /\ \A d, e \in Deletes :
          Announcing(d) /\ Announcing(e) /\ d # e => target[d] # target[e]

(* A step that sends no deletion, brings nobody to announce one, and gives *)
(* no removed message its row back.                                        *)
LEMMA RemovalFrame ==
    ASSUME TypeOK, ShapeInv, RemovalInv,
           \A m \in Messages : Times(MessageDeleted(m))' = Times(MessageDeleted(m)),
           \A m \in Messages : m \in rows' => m \in rows
               \/ (m \in Replies /\ pc[m] = "insert"),
           \A r \in Replies : pc'[r] \in {"idle", "insert"} => pc[r] \in {"idle", "insert"},
           \A d \in Deletes : Announcing(d)' => Announcing(d) /\ target'[d] = target[d]
    PROVE  RemovalInv'
<1>1. \A d \in Deletes : Announcing(d)
          => target[d] \in Messages /\ (target[d] \in Replies => pc[target[d]] \notin {"idle", "insert"})
  BY SetsAssumption DEF TypeOK, ShapeInv, Announcing
<1> QED
  BY <1>1 DEF RemovalInv

(* Every action keeps it.                                                  *)
LEMMA RemovalStep ==
    ASSUME TypeOK, ShapeInv, RemovalInv, Next PROVE RemovalInv'
<1>1. ASSUME wire' = wire
      PROVE  \A m \in Messages : Times(MessageDeleted(m))' = Times(MessageDeleted(m))
  BY <1>1 DEF Times
<1>2. ASSUME NEW sent, wire' = Append(wire, sent),
             \A m \in Messages : MessageDeleted(m) # sent
      PROVE  \A m \in Messages : Times(MessageDeleted(m))' = Times(MessageDeleted(m))
  BY <1>2, TimesAfter
<1> USE SetsAssumption DEF TypeOK, ShapeInv, Messages, Ops, Labels, Goto, Thread
<1>3. ASSUME NEW r \in Replies, NEW t \in Parents, CreateReply(r, t) PROVE RemovalInv'
  BY <1>1, <1>3, RemovalFrame DEF CreateReply, Announcing
<1>4. ASSUME NEW r \in Replies, InsertReply(r) PROVE RemovalInv'
  BY <1>1, <1>4, RemovalFrame DEF InsertReply, Announcing
<1>5. ASSUME NEW r \in Replies, CountReply(r) PROVE RemovalInv'
  BY <1>1, <1>5, RemovalFrame DEF CountReply, Announcing
<1>6. ASSUME NEW r \in Replies, TellThread(r) PROVE RemovalInv'
  <2>1. \A m \in Messages : Times(MessageDeleted(m))' = Times(MessageDeleted(m))
    BY <1>2, <1>6, EventsDiffer DEF TellThread, Broadcast
  <2> QED
    BY <1>6, <2>1, RemovalFrame DEF TellThread, Announcing
<1>7. ASSUME NEW d \in Deletes, NEW m \in Messages, DeleteMessage(d, m) PROVE RemovalInv'
  BY <1>1, <1>7, RemovalFrame DEF DeleteMessage, Announcing
<1>8. ASSUME NEW d \in Deletes, DeleteRow(d) PROVE RemovalInv'
  <2>1. CASE target[d] \in rows
    <3>1. /\ pc[d] = "delete" /\ wire' = wire /\ target' = target
          /\ rows' = rows \ Cascade(target[d])
          /\ \A o \in Ops \ {d} : pc'[o] = pc[o]
      BY <1>8, <2>1 DEF DeleteRow, Affected
    <3>2. target[d] \in Messages /\ (target[d] \in Replies => pc[target[d]] \notin {"idle", "insert"})
      BY <3>1
    <3>3. target[d] \notin rows' /\ rows' \subseteq rows
      BY <3>1 DEF Cascade
    <3>4. Times(MessageDeleted(target[d])) = 0
      BY <2>1, <3>2 DEF RemovalInv
    <3>5. \A e \in Deletes \ {d} : Announcing(e)' = Announcing(e) /\ target[e] \in Messages \cup {None}
      BY <3>1 DEF Announcing
    <3>6. \A e \in Deletes \ {d} : Announcing(e) => target[e] # target[d]
      BY <2>1 DEF RemovalInv
    <3>7. \A r \in Replies : pc'[r] = pc[r]
      BY <3>1
    <3> HIDE DEF TypeOK, ShapeInv, Messages, Ops, Labels, Goto, Thread
    <3>8. \A m : Times(MessageDeleted(m))' = Times(MessageDeleted(m))
      BY <3>1 DEF Times
    <3> QED
      BY <3>1, <3>3, <3>4, <3>5, <3>6, <3>7, <3>8 DEF RemovalInv
  <2>2. CASE target[d] \notin rows
    BY <1>1, <1>8, <2>2, RemovalFrame DEF DeleteRow, Affected, Announcing
  <2> QED
    BY <2>1, <2>2
<1>9. ASSUME NEW d \in Deletes, DiscountReply(d) PROVE RemovalInv'
  BY <1>1, <1>9, RemovalFrame DEF DiscountReply, Announcing
<1>10. ASSUME NEW d \in Deletes, TellDeleted(d) PROVE RemovalInv'
  <2>1. /\ wire' = Append(wire, MessageDeleted(target[d]))
        /\ target' = target /\ rows' = rows /\ Announcing(d)
        /\ pc' = [pc EXCEPT ![d] = AfterDeleted(d)] /\ AfterDeleted(d) \in {"reread", "over"}
    BY <1>10 DEF TellDeleted, Broadcast, AfterDeleted, Announcing
  <2>2. target[d] \in Messages /\ (target[d] \in Replies => pc[target[d]] \notin {"idle", "insert"})
    BY <2>1 DEF Announcing
  <2>3. ~Announcing(d)' /\ (\A e \in Deletes \ {d} : Announcing(e)' = Announcing(e))
        /\ (\A r \in Replies : pc'[r] = pc[r])
    BY <2>1 DEF Announcing
  <2>4. \A m \in Messages : Times(MessageDeleted(m))'
            = IF m = target[d] THEN Times(MessageDeleted(m)) + 1 ELSE Times(MessageDeleted(m))
    BY <2>1, TimesAfter, EventsDiffer
  <2>5. \A e \in Deletes : Announcing(e) => target[e] \in Messages
    BY DEF Announcing
  <2> HIDE DEF TypeOK, ShapeInv, Messages, Ops, Labels, Goto, Thread
  <2>6. target[d] \notin rows /\ Times(MessageDeleted(target[d])) = 0
    BY <2>1 DEF RemovalInv
  <2>7. \A e \in Deletes : Announcing(e)' => target[e] # target[d]
    BY <2>1, <2>3 DEF RemovalInv
  <2> QED
    BY <2>1, <2>2, <2>3, <2>4, <2>5, <2>6, <2>7 DEF RemovalInv
<1>11. ASSUME NEW o \in Ops, RereadParent(o) PROVE RemovalInv'
  BY <1>1, <1>11, RemovalFrame DEF RereadParent, Announcing
<1>12. ASSUME NEW o \in Ops, TellCount(o) PROVE RemovalInv'
  <2>1. \A m \in Messages : Times(MessageDeleted(m))' = Times(MessageDeleted(m))
    BY <1>2, <1>12, EventsDiffer DEF TellCount, Broadcast
  <2> QED
    BY <1>12, <2>1, RemovalFrame DEF TellCount, Announcing
<1>13. ASSUME NEW o \in Ops, Stop(o) PROVE RemovalInv'
  BY <1>1, <1>13, RemovalFrame DEF Stop, Announcing
<1> QED
  BY NextCases, <1>3, <1>4, <1>5, <1>6, <1>7, <1>8, <1>9, <1>10, <1>11, <1>12, <1>13

-----------------------------------------------------------------------------
(* What a reply's label says of its news.                                  *)
LEMMA NewsByLabel ==
    ASSUME TypeOK, ShapeInv, AnnouncedInv, NEW r \in Replies
    PROVE  /\ NewsOf(r) \in {"new", "stored", "told", "lost"}
           /\ pc[r] \in {"idle", "insert"} <=> NewsOf(r) = "new"
           /\ pc[r] \in {"count", "reread", "tellThread"} <=> NewsOf(r) = "stored"
           /\ pc[r] = "tellCount" => NewsOf(r) = "told"
<1> DEFINE p == thread_parent_id[r]
           n == Times(ReplyCreated(p, r))
<1>1. CASE pc[r] = "idle"
  BY <1>1 DEF NewsOf
<1>2. CASE pc[r] # "idle"
  <2>1. p \in Parents
    BY <1>2 DEF ShapeInv
  <2>2. n \in {0, 1} /\ (n = 1 => pc[r] \in {"tellCount", "over"}) /\ (pc[r] = "tellCount" => n = 1)
    BY <2>1 DEF AnnouncedInv
  <2>3. pc[r] \in {"idle", "insert", "count", "reread", "tellThread", "tellCount", "over"}
    BY DEF ShapeInv
  <2> QED
    BY <2>2, <2>3 DEF NewsOf
<1> QED
  BY <1>1, <1>2

(* A reply without news of a row has none.                                 *)
LEMMA RowsHaveNews ==
    ASSUME TypeOK, ShapeInv, AnnouncedInv, ToldInv, NEW r \in Replies \cap rows
    PROVE  /\ NewsOf(r) \in {"stored", "told"} /\ thread_parent_id[r] \in Parents \cap rows
           /\ StoredUnder[r] = thread_parent_id[r]
<1> DEFINE p == thread_parent_id[r]
<1>1. pc[r] \in {"count", "reread", "tellThread", "tellCount", "over"} /\ p \in Parents
  BY DEF ShapeInv
<1>2. p \in rows /\ (pc[r] = "over" => Sent(ReplyCreated(p, r)))
  BY <1>1 DEF ToldInv, Heard
<1>3. ASSUME pc[r] = "over" PROVE NewsOf(r) = "told"
  <2>1. {i \in DOMAIN wire : wire[i] = ReplyCreated(p, r)} # {}
    BY <1>2, <1>3 DEF Sent
  <2>2. IsFiniteSet({i \in DOMAIN wire : wire[i] = ReplyCreated(p, r)})
    <3>1. DOMAIN wire = 1..Len(wire) /\ Len(wire) \in Nat
      BY DEF TypeOK
    <3>2. IsFiniteSet(DOMAIN wire)
      BY <3>1, FS_Interval
    <3> QED
      BY <3>2, FS_Subset
  <2>3. Times(ReplyCreated(p, r)) # 0
    BY <2>1, <2>2, FS_EmptySet DEF Times
  <2>4. Times(ReplyCreated(p, r)) = 1
    BY <1>1, <2>3 DEF AnnouncedInv
  <2> QED
    BY <1>3, <2>4 DEF NewsOf
<1>4. NewsOf(r) \in {"stored", "told"}
  BY <1>1, <1>3, NewsByLabel
<1> QED
  BY <1>1, <1>2, <1>4 DEF StoredUnder

(* The three functions depend on what they are made of.                    *)
LEMMA SameNews ==
    ASSUME NEW r \in Replies, thread_parent_id'[r] = thread_parent_id[r], wire' = wire,
           pc'[r] = pc[r]
    PROVE  NewsOf(r)' = NewsOf(r)
  BY DEF NewsOf, Times

(* A step that changes nothing the feed can see.                           *)
LEMMA FeedStutters ==
    ASSUME rows' = rows,
           \A r \in Replies : NewsOf(r)' = NewsOf(r),
           \A r \in Replies : NewsOf(r) \in {"stored", "told"}
                => thread_parent_id'[r] = thread_parent_id[r],
           \A m \in Messages : Times(MessageDeleted(m))' = Times(MessageDeleted(m))
    PROVE  UNCHANGED Feed!feedVars
<1>1. News' = News
  BY DEF News
<1>2. StoredUnder' = StoredUnder
  BY DEF StoredUnder
<1>3. Removals' = Removals
  BY DEF Removals
<1> QED
  BY <1>1, <1>2, <1>3 DEF Feed!feedVars

(* The initial states of Threads are initial states of ThreadFeed.         *)
LEMMA FeedInitially == Init => Feed!FeedInit
<1> SUFFICES ASSUME Init PROVE Feed!FeedInit
  OBVIOUS
<1>1. \A e : Times(e) = 0
  <2> SUFFICES ASSUME NEW e PROVE Times(e) = 0
    OBVIOUS
  <2>1. {i \in DOMAIN wire : wire[i] = e} = {}
    BY DEF Init
  <2> QED
    BY <2>1, FS_EmptySet DEF Times
<1>2. \A r \in Replies : NewsOf(r) = "new"
  BY DEF Init, NewsOf, Ops
<1>3. StoredUnder = [r \in Replies |-> None] /\ News = [r \in Replies |-> "new"]
  BY <1>2 DEF StoredUnder, News
<1>4. Removals = [m \in Messages |-> 0]
  BY <1>1 DEF Removals
<1> QED
  BY <1>3, <1>4 DEF Init, Feed!FeedInit, Messages, Feed!Messages

(* Every step is a step of the feed, or none.                              *)
LEMMA FeedStep ==
    ASSUME TypeOK, ShapeInv, ToldInv, AnnouncedInv, RemovalInv, Next,
           TypeOK', ShapeInv', ToldInv', AnnouncedInv'
    PROVE  [Feed!FeedNext]_Feed!feedVars
<1> USE DEF Goto, Broadcast
<1>1. ASSUME wire' = wire PROVE \A e : Times(e)' = Times(e)
  BY <1>1 DEF Times
<1>2. \A o \in Deletes, r \in Replies : o # r /\ o \in Ops /\ r \in Ops
  BY SetsAssumption DEF Ops
<1>3. \A r \in Replies : pc[r] = "idle" => NewsOf(r) = "new"
  BY DEF NewsOf
<1>t. pc \in [Ops -> Labels] /\ thread_parent_id \in [Replies -> Parents \cup {None}]
  BY DEF TypeOK
<1>4. ASSUME NEW r \in Replies, NEW t \in Parents, CreateReply(r, t)
      PROVE  UNCHANGED Feed!feedVars
  <2>1. /\ pc' = [pc EXCEPT ![r] = "insert"] /\ pc[r] = "idle" /\ rows' = rows
        /\ thread_parent_id' = [thread_parent_id EXCEPT ![r] = t] /\ wire' = wire
    BY <1>4 DEF CreateReply
  <2>2. \A q \in Replies : q # r => NewsOf(q)' = NewsOf(q) /\ thread_parent_id'[q] = thread_parent_id[q]
    BY <2>1, SameNews
  <2>3. NewsOf(r) = "new" /\ NewsOf(r)' = "new"
    BY <1>2, <1>t, <2>1 DEF NewsOf, Ops
  <2> QED
    BY <1>1, <2>1, <2>2, <2>3, FeedStutters
<1>5. ASSUME NEW r \in Replies, InsertReply(r) PROVE Feed!FeedNext
  <2> DEFINE p == thread_parent_id[r]
  <2>1. /\ pc[r] = "insert" /\ Thread(r) = p /\ p \in Parents /\ r \notin rows
        /\ thread_parent_id' = thread_parent_id /\ wire' = wire
    BY <1>5 DEF InsertReply, Thread, ShapeInv
  <2>2. Removals' = Removals
    BY <1>1, <2>1 DEF Removals
  <2>3. NewsOf(r) = "new" /\ News[r] = "new"
    BY <2>1, NewsByLabel DEF News
  <2>4. CASE p \in rows
    <3>1. pc' = [pc EXCEPT ![r] = "count"] /\ rows' = rows \cup {r}
      BY <1>5, <2>1, <2>4 DEF InsertReply
    <3>2. \A q \in Replies : q # r => NewsOf(q)' = NewsOf(q)
      BY <2>1, <3>1, SameNews
    <3>3. NewsOf(r)' = "stored"
      <4>1. pc'[r] = "count"
        BY <1>t, <3>1 DEF Ops
      <4>2. Times(ReplyCreated(p, r)) = 0
        BY <2>1 DEF AnnouncedInv
      <4> QED
        BY <1>1, <2>1, <4>1, <4>2 DEF NewsOf
    <3>4. News' = [News EXCEPT ![r] = "stored"]
      BY <3>2, <3>3 DEF News
    <3>5. StoredUnder' = [StoredUnder EXCEPT ![r] = p]
      BY <2>1, <3>2, <3>3 DEF StoredUnder
    <3>6. Feed!Store(r, p)
      BY <2>2, <2>3, <2>4, <3>1, <3>4, <3>5 DEF Feed!Store
    <3> QED
      BY <2>1, <3>6 DEF Feed!FeedNext
  <2>5. CASE p \notin rows
    <3>1. pc' = [pc EXCEPT ![r] = "over"] /\ rows' = rows
      BY <1>5, <2>1, <2>5 DEF InsertReply
    <3>2. \A q \in Replies : q # r => NewsOf(q)' = NewsOf(q)
      BY <2>1, <3>1, SameNews
    <3>3. NewsOf(r)' = "lost"
      <4>1. pc'[r] = "over"
        BY <1>t, <3>1 DEF Ops
      <4>2. Times(ReplyCreated(p, r)) = 0
        BY <2>1 DEF AnnouncedInv
      <4> QED
        BY <1>1, <2>1, <4>1, <4>2 DEF NewsOf
    <3>4. News' = [News EXCEPT ![r] = "lost"]
      BY <3>2, <3>3 DEF News
    <3>5. StoredUnder' = [StoredUnder EXCEPT ![r] = None]
      BY <2>1, <2>3, <3>2, <3>3 DEF StoredUnder
    <3>6. Feed!GiveUp(r)
      BY <2>1, <2>2, <2>3, <3>1, <3>4, <3>5 DEF Feed!GiveUp
    <3> QED
      BY <3>6 DEF Feed!FeedNext
  <2> QED
    BY <2>4, <2>5
<1>6. ASSUME NEW r \in Replies, TellThread(r) PROVE Feed!FeedNext
  <2> DEFINE p == thread_parent_id[r]
  <2>1. /\ pc[r] = "tellThread" /\ pc' = [pc EXCEPT ![r] = "tellCount"]
        /\ Thread(r) = p /\ p \in Parents /\ rows' = rows /\ thread_parent_id' = thread_parent_id
        /\ wire' = Append(wire, ReplyCreated(p, r))
    BY <1>6 DEF TellThread, Thread, ShapeInv
  <2>2. Removals' = Removals
    BY <2>1, TimesAfter, EventsDiffer DEF Removals
  <2>3. \A q \in Replies : q # r => NewsOf(q)' = NewsOf(q)
    BY <2>1, TimesAfter, EventsDiffer DEF NewsOf
  <2>4. NewsOf(r) = "stored"
    BY <2>1, NewsByLabel
  <2>5. NewsOf(r)' = "told"
    <3>1. pc'[r] = "tellCount"
      BY <1>t, <2>1 DEF Ops
    <3>2. Times(ReplyCreated(p, r)) = 0
      BY <2>1 DEF AnnouncedInv
    <3>3. Times(ReplyCreated(p, r))' = 1
      BY <2>1, <3>2, TimesAfter
    <3> QED
      BY <2>1, <3>1, <3>3 DEF NewsOf
  <2>6. News' = [News EXCEPT ![r] = "told"] /\ News[r] = "stored"
    BY <2>3, <2>4, <2>5 DEF News
  <2>7. StoredUnder' = StoredUnder
    BY <2>1, <2>3, <2>4, <2>5 DEF StoredUnder
  <2>8. Feed!Announce(r)
    BY <2>1, <2>2, <2>6, <2>7 DEF Feed!Announce
  <2> QED
    BY <2>8 DEF Feed!FeedNext
<1>7. ASSUME NEW d \in Deletes, DeleteRow(d)
      PROVE  Feed!FeedNext \/ UNCHANGED Feed!feedVars
  <2>1. /\ pc[d] = "delete" /\ thread_parent_id' = thread_parent_id /\ wire' = wire
        /\ \A r \in Replies : pc'[r] = pc[r]
    BY <1>2, <1>t, <1>7 DEF DeleteRow
  <2>2. \A r \in Replies : NewsOf(r)' = NewsOf(r)
    BY <2>1, SameNews
  <2>3. News' = News /\ StoredUnder' = StoredUnder /\ Removals' = Removals
    BY <1>1, <2>1, <2>2 DEF News, StoredUnder, Removals
  <2>4. CASE target[d] \in rows
    <3>1. target[d] \in Messages /\ rows' = rows \ Cascade(target[d])
      BY <1>7, <2>4 DEF DeleteRow, Affected, TypeOK
    <3>2. rows' = rows \ ({target[d]} \cup {r \in Replies : StoredUnder[r] = target[d]})
      <4>1. \A r \in Replies \cap rows : StoredUnder[r] = thread_parent_id[r]
        BY RowsHaveNews
      <4> QED
        BY <3>1, <4>1 DEF Cascade
    <3>3. Feed!Remove(target[d])
      BY <2>3, <2>4, <3>2 DEF Feed!Remove
    <3> QED
      BY <3>1, <3>3 DEF Feed!FeedNext, Feed!Messages, Messages
  <2>5. CASE target[d] \notin rows
    <3>1. rows' = rows
      BY <1>7, <2>5 DEF DeleteRow, Affected
    <3> QED
      BY <2>3, <3>1 DEF Feed!feedVars
  <2> QED
    BY <2>4, <2>5
<1>8. ASSUME NEW d \in Deletes, TellDeleted(d) PROVE Feed!FeedNext
  <2> DEFINE m == target[d]
  <2>1. /\ Announcing(d) /\ m \in Messages /\ rows' = rows /\ thread_parent_id' = thread_parent_id
        /\ wire' = Append(wire, MessageDeleted(m))
        /\ \A r \in Replies : pc'[r] = pc[r]
    BY <1>2, <1>8, SetsAssumption DEF TellDeleted, Announcing, TypeOK, ShapeInv
  <2>2. \A r \in Replies : NewsOf(r)' = NewsOf(r)
    BY <2>1, TimesAfter, EventsDiffer DEF NewsOf
  <2>3. News' = News /\ StoredUnder' = StoredUnder
    BY <2>1, <2>2 DEF News, StoredUnder
  <2>4. m \notin rows /\ Times(MessageDeleted(m)) = 0
    BY <2>1 DEF RemovalInv
  <2>5. \A l \in Messages : Times(MessageDeleted(l))'
            = IF l = m THEN Times(MessageDeleted(l)) + 1 ELSE Times(MessageDeleted(l))
    BY <2>1, TimesAfter, EventsDiffer
  <2>6. Removals[m] = 0 /\ Removals' = [Removals EXCEPT ![m] = 1]
    BY <2>1, <2>4, <2>5 DEF Removals
  <2>7. m \in Replies => News[m] # "new"
    <3>1. m \in Replies => pc[m] \notin {"idle", "insert"}
      BY SetsAssumption DEF ShapeInv
    <3> QED
      BY <3>1, NewsByLabel DEF News
  <2>8. Feed!AnnounceRemoval(m)
    BY <2>1, <2>3, <2>4, <2>6, <2>7 DEF Feed!AnnounceRemoval, Feed!Removed
  <2> QED
    BY <2>1, <2>8 DEF Feed!FeedNext, Feed!Messages, Messages
<1>9. ASSUME NEW o \in Ops, RereadParent(o)
      PROVE  Feed!FeedNext \/ UNCHANGED Feed!feedVars
  <2>1. /\ pc[o] = "reread" /\ rows' = rows /\ wire' = wire /\ thread_parent_id' = thread_parent_id
        /\ \A q \in Replies : q # o => pc'[q] = pc[q]
    BY <1>2, <1>t, <1>9 DEF RereadParent, Ops
  <2>2. \A q \in Replies : q # o => NewsOf(q)' = NewsOf(q)
    BY <2>1, SameNews
  <2>3. CASE o \in Replies /\ thread_parent_id[o] \notin rows
    <3>1. pc'[o] = "over"
      BY <1>t, <1>9, <2>3 DEF RereadParent, Thread
    <3>2. NewsOf(o) = "stored" /\ Times(ReplyCreated(thread_parent_id[o], o)) = 0
      <4>1. NewsOf(o) = "stored"
        BY <2>1, <2>3, NewsByLabel
      <4> QED
        BY <2>1, <4>1 DEF NewsOf
    <3>3. NewsOf(o)' = "lost"
      BY <1>1, <2>1, <3>1, <3>2 DEF NewsOf
    <3>4. o \notin rows
      BY <2>3, RowsHaveNews
    <3>5. News[o] = "stored" /\ News' = [News EXCEPT ![o] = "lost"]
      BY <2>2, <2>3, <3>2, <3>3 DEF News
    <3>6. StoredUnder' = [StoredUnder EXCEPT ![o] = None]
      BY <2>1, <2>2, <2>3, <3>3 DEF StoredUnder
    <3>7. Removals' = Removals
      BY <1>1, <2>1 DEF Removals
    <3>8. Feed!GiveUp(o)
      BY <2>1, <2>3, <3>4, <3>5, <3>6, <3>7 DEF Feed!GiveUp
    <3> QED
      BY <2>3, <3>8 DEF Feed!FeedNext
  <2>4. CASE o \in Replies /\ thread_parent_id[o] \in rows
    <3>1. pc'[o] = "tellThread"
      BY <1>t, <1>9, <2>4 DEF RereadParent, Thread
    <3>2. NewsOf(o)' = NewsOf(o)
      <4>1. NewsOf(o) = "stored" /\ Times(ReplyCreated(thread_parent_id[o], o)) = 0
        BY <2>1, <2>4, NewsByLabel DEF NewsOf
      <4> QED
        BY <1>1, <2>1, <3>1, <4>1 DEF NewsOf
    <3> QED
      BY <1>1, <2>1, <2>2, <3>2, FeedStutters
  <2>5. CASE o \notin Replies
    BY <1>1, <2>1, <2>2, <2>5, FeedStutters
  <2> QED
    BY <2>3, <2>4, <2>5
<1>10. ASSUME NEW r \in Replies, CountReply(r) PROVE UNCHANGED Feed!feedVars
  <2>1. /\ pc[r] = "count" /\ pc' = [pc EXCEPT ![r] = "reread"] /\ rows' = rows
        /\ wire' = wire /\ thread_parent_id' = thread_parent_id
    BY <1>10 DEF CountReply
  <2>2. \A q \in Replies : q # r => NewsOf(q)' = NewsOf(q)
    BY <2>1, SameNews
  <2>3. NewsOf(r)' = NewsOf(r)
    <3>1. NewsOf(r) = "stored" /\ Times(ReplyCreated(thread_parent_id[r], r)) = 0
      BY <2>1, NewsByLabel DEF NewsOf
    <3>2. pc'[r] = "reread"
      BY <1>t, <2>1 DEF Ops
    <3> QED
      BY <1>1, <2>1, <3>1, <3>2 DEF NewsOf
  <2> QED
    BY <1>1, <2>1, <2>2, <2>3, FeedStutters
<1>11. ASSUME NEW o \in Ops, TellCount(o) PROVE UNCHANGED Feed!feedVars
  <2>1. /\ pc[o] = "tellCount" /\ pc' = [pc EXCEPT ![o] = "over"] /\ rows' = rows
        /\ wire' = Append(wire, MetadataUpdated(Thread(o), seen[o]))
        /\ thread_parent_id' = thread_parent_id
    BY <1>11 DEF TellCount
  <2>2. /\ \A m \in Messages : Times(MessageDeleted(m))' = Times(MessageDeleted(m))
        /\ \A r \in Replies : Times(ReplyCreated(thread_parent_id[r], r))'
              = Times(ReplyCreated(thread_parent_id[r], r))
    BY <2>1, TimesAfter, EventsDiffer
  <2>3. \A q \in Replies : q # o => NewsOf(q)' = NewsOf(q)
    BY <2>1, <2>2 DEF NewsOf
  <2>4. o \in Replies => NewsOf(o)' = NewsOf(o)
    <3>1. o \in Replies => Times(ReplyCreated(thread_parent_id[o], o)) = 1
      BY <2>1 DEF AnnouncedInv, ShapeInv
    <3>2. pc'[o] = "over"
      BY <1>t, <2>1
    <3> QED
      BY <2>1, <2>2, <3>1, <3>2 DEF NewsOf
  <2> QED
    BY <2>1, <2>2, <2>3, <2>4, FeedStutters
<1>12. ASSUME rows' = rows, wire' = wire, thread_parent_id' = thread_parent_id,
              \A r \in Replies : pc'[r] = pc[r]
       PROVE  UNCHANGED Feed!feedVars
  BY <1>1, <1>12, SameNews, FeedStutters
<1>13. ASSUME NEW d \in Deletes, NEW m \in Messages, DeleteMessage(d, m)
       PROVE  UNCHANGED Feed!feedVars
  BY <1>2, <1>12, <1>13, <1>t DEF DeleteMessage
<1>14. ASSUME NEW d \in Deletes, DiscountReply(d) PROVE UNCHANGED Feed!feedVars
  BY <1>2, <1>12, <1>14, <1>t DEF DiscountReply
<1>15. ASSUME NEW o \in Ops, Stop(o) PROVE UNCHANGED Feed!feedVars
  BY <1>12, <1>15 DEF Stop
<1> HIDE DEF Goto, Broadcast
<1> QED
  BY NextCases, <1>4, <1>5, <1>6, <1>7, <1>8, <1>9, <1>10, <1>11, <1>13, <1>14, <1>15

(* ImplementsFeed: however the requests overlap and wherever they stop,    *)
(* replies are announced once, under their thread, after they are stored,  *)
(* and removals once, after the row has gone.                              *)
THEOREM Refinement == Spec => ImplementsFeed
<1> DEFINE Inv == AnnouncedInv /\ RemovalInv
<1>1. Init => Inv
  <2> SUFFICES ASSUME Init PROVE Inv
    OBVIOUS
  <2>1. \A e : Times(e) = 0
    <3> SUFFICES ASSUME NEW e PROVE Times(e) = 0
      OBVIOUS
    <3>1. {i \in DOMAIN wire : wire[i] = e} = {}
      BY DEF Init
    <3> QED
      BY <3>1, FS_EmptySet DEF Times
  <2>2. \A o \in Ops : pc[o] = "idle"
    BY DEF Init
  <2> QED
    BY <2>1, <2>2 DEF AnnouncedInv, RemovalInv, Announcing, Ops
<1>2. TypeOK /\ ShapeInv /\ Inv /\ [Next]_vars => Inv'
  <2>1. ASSUME TypeOK, ShapeInv, Inv, Next PROVE Inv'
    BY <2>1, AnnouncedStep, RemovalStep
  <2>2. ASSUME Inv, UNCHANGED vars PROVE Inv'
    BY <2>2 DEF vars, AnnouncedInv, RemovalInv, Announcing, Times
  <2> QED
    BY <2>1, <2>2
<1>3. /\ TypeOK /\ ShapeInv /\ ToldInv /\ Inv /\ [Next]_vars
      /\ TypeOK' /\ ShapeInv' /\ ToldInv' /\ Inv'
      => [Feed!FeedNext]_Feed!feedVars
  <2>1. ASSUME UNCHANGED vars PROVE UNCHANGED Feed!feedVars
    BY <2>1 DEF vars, Feed!feedVars, News, NewsOf, StoredUnder, Removals, Times
  <2> QED
    BY <2>1, FeedStep
<1> QED
  BY <1>1, <1>2, <1>3, FeedInitially, ShapeInvariance, ToldInvariance, PTL
     DEF Spec, ImplementsFeed, Feed!FeedSpec
=============================================================================
