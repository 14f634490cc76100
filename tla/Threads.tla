------------------------------- MODULE Threads -------------------------------
(***************************************************************************)
(* Thread replies on the server: MessageService::create_thread_reply and   *)
(* delete, and the handlers around them (api/messages.rs).                 *)
(*                                                                         *)
(* A request is a handful of SQL statements and broadcasts with an await   *)
(* between any two of them and no transaction around them, so one action   *)
(* is one statement or one broadcast.  A request may stop for good between *)
(* two of its steps: a statement fails and `?` returns, the client hangs   *)
(* up and its handler is dropped, or the server dies.                      *)
(*                                                                         *)
(* `wire` is what the subscribers of the thread and of its channel are     *)
(* sent, in order; how a broadcast reaches them is Connections.tla.  Left  *)
(* out: authors (who is refused changes nothing), content, last_reply_at,  *)
(* replies to replies (no client opens a thread on one).                   *)
(***************************************************************************)
EXTENDS Integers, FiniteSets, Sequences

CONSTANTS
    Parents,  \* top-level messages, posted before the first request
    Replies,  \* replies, each with the one request that creates it
    Deletes,  \* DELETE /messages/{id} requests
    None,
    MaxStops  \* bound: requests that stop half-way

ASSUME SetsAssumption ==
    /\ IsFiniteSet(Replies) /\ IsFiniteSet(Deletes)
    /\ Parents \cap Replies = {} /\ Replies \cap Deletes = {}
    /\ None \notin Parents \cup Replies
ASSUME MaxStopsAssumption == MaxStops \in Nat

Messages == Parents \cup Replies
Ops == Replies \cup Deletes

VARIABLES
    rows,              \* the messages table
    thread_parent_id,  \* of each reply, from its request on
    reply_count,       \* of each parent
    pc,                \* where each request stands
    target,            \* the message a delete request is for
    seen,              \* the reply_count a request has read back
    wire,
    halted,            \* requests that stopped half-way; pc says where
    clamped            \* parents a decrement found at zero; history only

vars == <<rows, thread_parent_id, reply_count, pc, target, seen, wire, halted, clamped>>

Labels == {"idle", "insert", "count", "delete", "discount", "tellDeleted",
           "reread", "tellThread", "tellCount", "over"}

ReplyCreated(p, r) == [type |-> "thread_reply_created", parent |-> p, message |-> r]
MetadataUpdated(p, n) == [type |-> "thread_metadata_updated", message |-> p, reply_count |-> n]
MessageDeleted(m) == [type |-> "message_deleted", message |-> m]

Events ==
    [type : {"thread_reply_created"}, parent : Parents, message : Replies]
    \cup [type : {"thread_metadata_updated"}, message : Parents, reply_count : Nat]
    \cup [type : {"message_deleted"}, message : Messages]

TypeOK ==
    /\ rows \subseteq Messages
    /\ thread_parent_id \in [Replies -> Parents \cup {None}]
    /\ reply_count \in [Parents -> Nat]
    /\ pc \in [Ops -> Labels]
    /\ target \in [Deletes -> Messages \cup {None}]
    /\ seen \in [Ops -> Nat]
    /\ wire \in Seq(Events)
    /\ halted \subseteq Ops
    /\ clamped \subseteq Parents

Init ==
    /\ rows = Parents
    /\ thread_parent_id = [r \in Replies |-> None]
    /\ reply_count = [p \in Parents |-> 0]
    /\ pc = [o \in Ops |-> "idle"]
    /\ target = [d \in Deletes |-> None]
    /\ seen = [o \in Ops |-> 0]
    /\ wire = <<>>
    /\ halted = {}
    /\ clamped = {}

(* The thread a request is about; None for the deletion of a parent.       *)
Thread(o) ==
    IF o \in Replies THEN thread_parent_id[o]
    ELSE IF target[o] \in Replies THEN thread_parent_id[target[o]] ELSE None

Goto(o, from, to) ==
    /\ pc[o] = from
    /\ o \notin halted
    /\ pc' = [pc EXCEPT ![o] = to]

Broadcast(event) == wire' = Append(wire, event)

-----------------------------------------------------------------------------
(* POST /messages/{p}/replies.                                             *)

(* get_by_id finds the parent; else the request ends with nothing done.    *)
CreateReply(r, p) ==
    /\ p \in rows
    /\ Goto(r, "idle", "insert")
    /\ thread_parent_id' = [thread_parent_id EXCEPT ![r] = p]
    /\ UNCHANGED <<rows, reply_count, target, seen, wire, halted, clamped>>

(* The foreign key refuses the row when the parent has gone.               *)
InsertReply(r) ==
    /\ IF Thread(r) \in rows
       THEN Goto(r, "insert", "count") /\ rows' = rows \cup {r}
       ELSE Goto(r, "insert", "over") /\ UNCHANGED rows
    /\ UNCHANGED <<thread_parent_id, reply_count, target, seen, wire, halted, clamped>>

(* reply_count + 1, in the database; no row and no error without a parent. *)
CountReply(r) ==
    /\ Goto(r, "count", "reread")
    /\ reply_count' = IF Thread(r) \in rows
                      THEN [reply_count EXCEPT ![Thread(r)] = @ + 1] ELSE reply_count
    /\ UNCHANGED <<rows, thread_parent_id, target, seen, wire, halted, clamped>>

TellThread(r) ==
    /\ Goto(r, "tellThread", "tellCount")
    /\ Broadcast(ReplyCreated(Thread(r), r))
    /\ UNCHANGED <<rows, thread_parent_id, reply_count, target, seen, halted, clamped>>

-----------------------------------------------------------------------------
(* DELETE /messages/{m}, by its author.                                    *)

(* The handler and the service look the message up, one after the other:   *)
(* what they read of it never changes, and the DELETE asks again.          *)
DeleteMessage(d, m) ==
    /\ m \in rows
    /\ Goto(d, "idle", "delete")
    /\ target' = [target EXCEPT ![d] = m]
    /\ UNCHANGED <<rows, thread_parent_id, reply_count, seen, wire, halted, clamped>>

(* thread_parent_id ... ON DELETE CASCADE.  Mutant: ON DELETE SET NULL.    *)
CascadeSetNull(m) == {m}
Cascade(m) == {m} \cup {r \in Replies : thread_parent_id[r] = m}

(* rows_affected() # 0.  Mutant: the check is dropped.                     *)
AffectedUnchecked(m) == TRUE
Affected(m) == m \in rows

DeleteRow(d) ==
    /\ IF Affected(target[d])
       THEN /\ Goto(d, "delete", IF target[d] \in Replies THEN "discount" ELSE "tellDeleted")
            /\ rows' = rows \ Cascade(target[d])
       ELSE Goto(d, "delete", "over") /\ UNCHANGED rows
    /\ UNCHANGED <<thread_parent_id, reply_count, target, seen, wire, halted, clamped>>

(* GREATEST(reply_count - 1, 0).  Mutant: reply_count - 1.                 *)
DecrementedBelow(n) == n - 1
Decremented(n) == IF n > 0 THEN n - 1 ELSE 0

DiscountReply(d) ==
    /\ Goto(d, "discount", "tellDeleted")
    /\ IF Thread(d) \in rows
       THEN /\ reply_count' = [reply_count EXCEPT ![Thread(d)] = Decremented(@)]
            /\ clamped' = IF reply_count[Thread(d)] = 0
                          THEN clamped \cup {Thread(d)} ELSE clamped
       ELSE UNCHANGED <<reply_count, clamped>>
    /\ UNCHANGED <<rows, thread_parent_id, target, seen, wire, halted>>

(* Mutant: no metadata is sent for a deletion.                             *)
AfterDeletedNothing(d) == "over"
AfterDeleted(d) == IF target[d] \in Replies THEN "reread" ELSE "over"

TellDeleted(d) ==
    /\ Goto(d, "tellDeleted", AfterDeleted(d))
    /\ Broadcast(MessageDeleted(target[d]))
    /\ UNCHANGED <<rows, thread_parent_id, reply_count, target, seen, halted, clamped>>

-----------------------------------------------------------------------------
(* Both requests end by reading the parent back and telling its channel.   *)

(* A parent that has gone ends the request, in one with an error.          *)
RereadParent(o) ==
    /\ IF Thread(o) \in rows
       THEN /\ Goto(o, "reread", IF o \in Replies THEN "tellThread" ELSE "tellCount")
            /\ seen' = [seen EXCEPT ![o] = reply_count[Thread(o)]]
       ELSE Goto(o, "reread", "over") /\ UNCHANGED seen
    /\ UNCHANGED <<rows, thread_parent_id, reply_count, target, wire, halted, clamped>>

TellCount(o) ==
    /\ Goto(o, "tellCount", "over")
    /\ Broadcast(MetadataUpdated(Thread(o), seen[o]))
    /\ UNCHANGED <<rows, thread_parent_id, reply_count, target, seen, halted, clamped>>

Stop(o) ==
    /\ pc[o] \notin {"idle", "over"}
    /\ o \notin halted
    /\ Cardinality(halted) < MaxStops
    /\ halted' = halted \cup {o}
    /\ UNCHANGED <<rows, thread_parent_id, reply_count, pc, target, seen, wire, clamped>>

Next ==
    \/ \E r \in Replies :
          \/ \E p \in Parents : CreateReply(r, p)
          \/ InsertReply(r) \/ CountReply(r) \/ TellThread(r)
    \/ \E d \in Deletes :
          \/ \E m \in Messages : DeleteMessage(d, m)
          \/ DeleteRow(d) \/ DiscountReply(d) \/ TellDeleted(d)
    \/ \E o \in Ops : RereadParent(o) \/ TellCount(o) \/ Stop(o)

Spec == Init /\ [][Next]_vars

-----------------------------------------------------------------------------
(* Properties.                                                             *)

Times(event) == Cardinality({i \in DOMAIN wire : wire[i] = event})

(* The news of a reply: how far its request has come, and what was sent.   *)
NewsOf(r) ==
    LET announced == Times(ReplyCreated(thread_parent_id[r], r))
    IN  IF pc[r] \in {"idle", "insert"} THEN "new"
        ELSE IF announced = 0 THEN IF pc[r] = "over" THEN "lost" ELSE "stored"
        ELSE IF announced = 1 THEN "told" ELSE "repeated"

News == [r \in Replies |-> NewsOf(r)]
StoredUnder ==
    [r \in Replies |-> IF NewsOf(r) \in {"stored", "told"} THEN thread_parent_id[r] ELSE None]
Removals == [m \in Messages |-> Times(MessageDeleted(m))]

Feed == INSTANCE ThreadFeed WITH
    parents <- StoredUnder, news <- News, removals <- Removals

(* However their statements interleave and wherever they stop, the         *)
(* requests implement the feed: a reply is announced once, after it is     *)
(* stored, under the parent it was stored under, and silently dropped only *)
(* when it has gone; a removal is announced once, although two requests    *)
(* may delete the same message.                                            *)
ImplementsFeed == Feed!FeedSpec

Live(p) == {r \in Replies \cap rows : thread_parent_id[r] = p}
Uncounted(p) == {r \in Replies : pc[r] = "count" /\ Thread(r) = p}
Undiscounted(p) == {d \in Deletes : pc[d] = "discount" /\ Thread(d) = p}
Quiet(p) == \A o \in Ops : Thread(o) = p => pc[o] = "over"

(* The cached reply_count is always accounted for: it differs from the     *)
(* number of replies in the table by the requests that stand (or stopped)  *)
(* between their two statements, and by nothing else, unless a decrement   *)
(* was clamped at zero; then it errs on the high side only.                *)
CountAccounted ==
    \A p \in Parents \cap rows :
        LET stored == reply_count[p] + Cardinality(Uncounted(p))
            due    == Cardinality(Live(p)) + Cardinality(Undiscounted(p))
        IN  stored >= due /\ (p \notin clamped => stored = due)

(* A reply is announced to its thread or is gone: when the request that    *)
(* created it has ended without stopping, either ThreadReplyCreated was    *)
(* sent or the row went with its parent, although the handler gives up     *)
(* when the parent cannot be read back.                                    *)
AnnouncedOrGone ==
    \A r \in Replies \cap rows :
        pc[r] = "over" => \E i \in DOMAIN wire : wire[i] = ReplyCreated(Thread(r), r)

(* The channel was told the truth once: when the requests about a thread   *)
(* are over, the count the database holds is among those that were sent    *)
(* (whoever wrote last read its own write back), if perhaps not the last.  *)
TrueCountTold ==
    \A p \in Parents \cap rows :
        Quiet(p) /\ (\E o \in Ops : Thread(o) = p)
            => \E i \in DOMAIN wire : wire[i] = MetadataUpdated(p, reply_count[p])

(* "Cached count of thread replies": with nobody at work on a thread, its  *)
(* reply_count is the number of its replies.                               *)
CountIsCached ==
    \A p \in Parents \cap rows : Quiet(p) => reply_count[p] = Cardinality(Live(p))
=============================================================================
