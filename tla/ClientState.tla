----------------------------- MODULE ClientState -----------------------------
(***************************************************************************)
(* The one lock of the client's state (state/app_state.rs: a tokio RwLock  *)
(* shared by the UI thread and every task) and what the UI thread does     *)
(* under it while it draws a channel (ui/chat.rs, ui/message.rs).          *)
(*                                                                         *)
(* The lock is fair: a request waits behind the ones before it, and a      *)
(* try_read or try_write fails while anybody waits.  The UI thread draws   *)
(* frames; in a frame it reads the state once and, while it holds that     *)
(* guard, asks for the typing users, which takes a second one.  Then it    *)
(* looks up the images of the messages without waiting, and starts a       *)
(* fetch for one that nobody is fetching yet.                              *)
(***************************************************************************)
EXTENDS Naturals, Sequences

CONSTANTS
    Tasks,  \* bound: the tasks of the runtime, each used once
    Urls,   \* images and link previews of the messages shown
    UI      \* the UI thread

VARIABLES
    queue,   \* requests for the lock that have not been granted, in order
    guards,  \* process -> the guards it holds: a sequence of modes
    ui,      \* where the UI thread is in its frame
    seen,    \* what the UI thread's lookups found in this frame
    pc,      \* task -> where it is
    url,     \* task -> the image it fetches
    image,   \* image_cache, image_pending and image_failed
    fetched  \* history: how many times an image was asked of the network

vars == <<queue, guards, ui, seen, pc, url, image, fetched>>

Processes == Tasks \cup {UI}
Modes     == {"read", "write"}

TypeOK ==
    /\ queue \in Seq(Processes \X Modes)
    /\ guards \in [Processes -> Seq(Modes)]
    /\ ui \in {"frame", "read", "nested", "paint"}
    /\ seen \subseteq Urls
    /\ pc \in [Tasks -> {"new", "asking", "good", "bad", "event", "done"}]
    /\ url \in [Tasks -> SUBSET Urls]
    /\ image \in [Urls -> {"unknown", "pending", "cached", "failed"}]
    /\ fetched \in [Urls -> Nat]

Init ==
    /\ queue = <<>>
    /\ guards = [p \in Processes |-> <<>>]
    /\ ui = "frame"
    /\ seen = {}
    /\ pc = [t \in Tasks |-> "new"]
    /\ url = [t \in Tasks |-> {}]
    /\ image = [u \in Urls |-> "unknown"]
    /\ fetched = [u \in Urls |-> 0]

-----------------------------------------------------------------------------
(* The lock.                                                               *)

Waiting(p) == \E i \in DOMAIN queue : queue[i][1] = p
Holders    == {p \in Processes : guards[p] # <<>>}
Written    == \E p \in Holders : "write" \in {guards[p][i] : i \in DOMAIN guards[p]}

Grantable(mode) == IF mode = "read" THEN ~Written ELSE Holders = {}

\* try_read and try_write: only with nobody in front.
Free(mode) == queue = <<>> /\ Grantable(mode)

Ask(p, mode) == queue' = Append(queue, <<p, mode>>)

Grant ==
    LET p == Head(queue)[1]
        mode == Head(queue)[2]
    IN
    /\ queue # <<>>
    /\ Grantable(mode)
    /\ guards' = [guards EXCEPT ![p] = Append(@, mode)]
    /\ queue' = Tail(queue)
    /\ UNCHANGED <<ui, seen, pc, url, image, fetched>>

-----------------------------------------------------------------------------
(* The UI thread.                                                          *)

StartFrame ==
    /\ ui = "frame"
    /\ Ask(UI, "read")
    /\ ui' = "read"
    /\ seen' = {}
    /\ UNCHANGED <<guards, pc, url, image, fetched>>

\* The first guard is held while get_typing_users asks for its own.
AskTyping ==
    /\ ui = "read"
    /\ ~Waiting(UI)
    /\ Ask(UI, "read")
    /\ ui' = "nested"
    /\ UNCHANGED <<guards, seen, pc, url, image, fetched>>

\* No channel is selected (the guard is dropped), or the answer is there.
EndRead ==
    /\ \/ ui = "read" /\ ~Waiting(UI)
       \/ ui = "nested" /\ ~Waiting(UI)
    /\ guards' = [guards EXCEPT ![UI] = <<>>]
    /\ ui' = "paint"
    /\ UNCHANGED <<queue, seen, pc, url, image, fetched>>

\* Mutant of MayMark: an image that is there already may be marked.
MayMarkCached(u) == image[u] \notin {"pending", "failed"}

\* mark_image_pending_sync, mark_opengraph_pending_sync.
MayMark(u) == image[u] = "unknown"

(* get_image_sync has found nothing, or has found the lock taken; the      *)
(* marking looks for itself.                                               *)
StartFetch(u, t) ==
    /\ ui = "paint"
    /\ u \notin seen
    /\ Free("write")
    /\ MayMark(u)
    /\ pc[t] = "new"
    /\ image' = [image EXCEPT ![u] = "pending"]
    /\ fetched' = [fetched EXCEPT ![u] = @ + 1]
    /\ pc' = [pc EXCEPT ![t] = "asking"]
    /\ url' = [url EXCEPT ![t] = {u}]
    /\ seen' = seen \cup {u}
    /\ UNCHANGED <<queue, guards, ui>>

\* get_image_sync, get_opengraph_sync: found in the cache, nothing to mark.
Look(u) ==
    /\ ui = "paint"
    /\ u \notin seen
    /\ Free("read") /\ image[u] = "cached"
    /\ seen' = seen \cup {u}
    /\ UNCHANGED <<queue, guards, ui, pc, url, image, fetched>>

EndFrame ==
    /\ ui = "paint"
    /\ ui' = "frame"
    /\ UNCHANGED <<queue, guards, seen, pc, url, image, fetched>>

-----------------------------------------------------------------------------
(* The tasks.  Each changes the state in one method, under one guard.      *)

\* The network answers a fetch.
Answer(t, result) ==
    /\ pc[t] = "asking"
    /\ pc' = [pc EXCEPT ![t] = result]
    /\ Ask(t, "write")
    /\ UNCHANGED <<guards, ui, seen, url, image, fetched>>

\* An event of the socket, a click: something is to be written.
Event(t) ==
    /\ pc[t] = "new"
    /\ pc' = [pc EXCEPT ![t] = "event"]
    /\ Ask(t, "write")
    /\ UNCHANGED <<guards, ui, seen, url, image, fetched>>

\* Mutant of Apply: the method calls another one and keeps its guard.
ApplyNested(t) ==
    /\ guards[t] # <<>> /\ ~Waiting(t)
    /\ Ask(t, "write")
    /\ UNCHANGED <<guards, ui, seen, pc, url, image, fetched>>

\* set_image, mark_image_failed and their like; the guard goes at the end.
Apply(t) ==
    /\ guards[t] # <<>>
    /\ image' = [u \in Urls |->
          CASE u \in url[t] /\ pc[t] = "good" -> "cached"
            [] u \in url[t] /\ pc[t] = "bad" -> "failed"
            [] u \notin url[t] \/ pc[t] \notin {"good", "bad"} -> image[u]]
    /\ guards' = [guards EXCEPT ![t] = <<>>]
    /\ pc' = [pc EXCEPT ![t] = "done"]
    /\ UNCHANGED <<queue, ui, seen, url, fetched>>

Next ==
    \/ Grant \/ StartFrame \/ AskTyping \/ EndRead \/ EndFrame
    \/ \E u \in Urls : Look(u) \/ \E t \in Tasks : StartFetch(u, t)
    \/ \E t \in Tasks :
          \/ Answer(t, "good")
          \/ Answer(t, "bad")
          \/ Event(t)
          \/ Apply(t)

Spec == Init /\ [][Next]_vars

-----------------------------------------------------------------------------

\* The head of the queue waits for holders who all wait themselves.
Circle ==
    /\ queue # <<>>
    /\ ~Grantable(Head(queue)[2])
    /\ \A p \in Holders : Waiting(p)

(* Nobody waits for the state in a circle, except for the UI thread in the *)
(* one place where it asks for a guard while it has one: with a writer in  *)
(* between it waits for the writer, and the writer waits for it.           *)
OnlyItselfBlocks ==
    Circle => ui = "nested" /\ Holders = {UI} /\ Head(queue)[2] = "write"

(* However lookups, marks and answers interleave, and however often a      *)
(* lookup fails because the lock is taken, an image is fetched once.       *)
FetchedOnce == \A u \in Urls : fetched[u] <= 1
=============================================================================
